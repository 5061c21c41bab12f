CONSTANTS
  Table <- Routines
  Heights <- MCHeights
  TileSize <- MCTileSize
  Side = 3
  Laws <- MCLaws
  Few = 8
  TooFew = 4
SPECIFICATION MCSpec
INVARIANT ResultComplete
INVARIANT NothingLeaks
INVARIANT InputKept
INVARIANT FailureReported
INVARIANT EachRowOnce
INVARIANT HaloEnough
INVARIANT CubicFitExact
