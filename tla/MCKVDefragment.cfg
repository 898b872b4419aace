SPECIFICATION DefragSpec
CONSTANTS
  NumNodes = 1
  PagesPerNode = 3
  Req = {r1}
  MaxVirtual = 4
  MaxAccess = 0
INVARIANTS NoDoubleMapping
CHECK_DEADLOCK FALSE
