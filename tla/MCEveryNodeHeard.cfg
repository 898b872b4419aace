SPECIFICATION RoundSpec
CONSTANTS
  AddrWidth = 2
  Depth <- MCDepth
  Bits <- MCBits
  Gray <- MCGray
  FlipTop <- MCFlipTop
  Others = {"n1", "n2", "n3"}
  Data <- MCData
  Arriving <- MCArriving
  Kind <- MCKind
  NumNodes = 4
  CountSize = 4
  TimeoutCycles = 1000
  TimeoutSize = 65536
PROPERTY EveryNodeHeard
CHECK_DEADLOCK FALSE
