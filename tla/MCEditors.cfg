CONSTANTS
  Rows <- IopRows
  MaxEdits = 3
  Sizes <- MCSizes
  Whites = {2, 100, 4000}
  Blacks <- MCBlacks
  Areas <- MCAreas
  Clips = {0, 10, 200}
  MaxActs = 4
  Pointers = {0, 3, 7, 10, 12}
  Full = 10
  Narrowest = 1
  Grip = 2
  MaxEvents = 5
SPECIFICATION MCSpec
INVARIANT ShownIsProcessed
INVARIANT RegionAsTurned
INVARIANT EveryItemProcessable
INVARIANT StoredAsDrawn
PROPERTY RefreshWritesNothing
PROPERTY AutoRests
