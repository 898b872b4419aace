CONSTANTS
  Loads <- MCLoads
  RefreshLag <- MCRefreshLag
SPECIFICATION Spec
INVARIANTS
  DeviceTypeOK
  PresetsResolve
  TimingRespected
  BurstsDisjoint
  AccessHitsOpenRow
  RefreshHasItsEnd
  ActsBalancePres
  CyclesAccounted
  PrerequisitesLead
