CONSTANTS
  Loads <- MCOtherRow
  RefreshLag <- MCRefreshLag
SPECIFICATION Spec
INVARIANT ServedWhenAlone
