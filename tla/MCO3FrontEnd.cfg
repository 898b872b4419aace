CONSTANTS
  Addrs <- MCAddrs
  get_index <- MCIndex
  get_tag <- MCTag
  align <- MCAlign
  Associativity = 2
  NumMshrs = 2
  Latency = 2
  NumCores = 2
  Quotas = {1}
  Attackers = {2}
  SavedCaches <- MCSaved
  MaxRefused = 1
  MaxReads = 2
  Depth = 2
  Ipc = 1
  Traces <- MCTraces
  NoAddr <- MCNoAddr
  LineSize = 2
  NumSets = 1
  AddressBits = 5
SPECIFICATION Spec
INVARIANTS
  MshrsMatchLines
  StoresKept
  AnswersOnTheWay
