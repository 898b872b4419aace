SPECIFICATION SchedSpec
CONSTANTS
  NumNodes = 3
  PagesPerNode = 3
  Req = {r1}
  MaxVirtual = 5
  MaxAccess = 1
  Policies <- AllPolicies
  SharedNode = 0
  BlockTokens = 2
  MigrationInterval = 3
  OverloadPages = 2
  ImbalancePages = 1
  BatchSizes = {1, 4}
INVARIANTS SchedTypeOK SharedPrefixPinned EstimatesExact RequestPagesExact ReservedFromAllocation
PROPERTIES MigrationNeverWorsens
CHECK_DEADLOCK FALSE
