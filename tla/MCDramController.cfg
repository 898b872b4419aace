SPECIFICATION FairCtrlSpec
CONSTANTS
  Traffic <- TrafficOf
  Devices <- BothDevices
  Banks <- TwoBanks
  Rows <- TwoRows
  Addrs <- ThreeAddrs
  BankOf <- BankMap
  RowOf <- RowMap
  MaxSize = 1
  ActiveMax <- ActiveMaxes
  HighMark = 0
  LowMark = 1
  ReadLatency = 2
  MaxReqs = 3
  MaxRefresh = 1
INVARIANTS CtrlTypeOK InOnePlace ActiveRowsHeld
PROPERTIES WritesInOrder BuffersDrain
