SPECIFICATION MCSpec
CONSTANTS
  AddrWidth = 2
  Depth <- MCDepth
  Bits <- MCBits
  Gray <- MCGray
  FlipTop <- MCFlipTop
  Data = {"MAX", "SUM", "NONE"}
  Kind <- MCKind
  NumNodes = 4
  Arriving = {"MAX", "SUM"}
  CountSize = 4
  TimeoutCycles = 6
  TimeoutSize = 8
INVARIANTS ReduceTypeOK CountsExact
PROPERTIES PoppedIsPresented RoundEnds
