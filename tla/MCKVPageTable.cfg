SPECIFICATION Spec
CONSTANTS
  NumNodes = 2
  PagesPerNode = 2
  Req = {r1}
  MaxVirtual = 4
  MaxAccess = 1
INVARIANTS TypeOK NoDoubleMapping FramesConserved ReverseIndexExact
PROPERTIES AbsSpec
CHECK_DEADLOCK FALSE
