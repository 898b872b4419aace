SPECIFICATION FifoSpec
CONSTANTS
  AddrWidth = 2
  Depth <- MCDepth
  Bits <- MCBits
  Gray <- MCGray
  FlipTop <- MCFlipTop
  Data = {a, b}
INVARIANTS FifoTypeOK FlagsConservative SyncedPointersReal
PROPERTIES IsQueue WordsSeen RoomSeen
