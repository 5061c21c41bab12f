SPECIFICATION FSpec
CONSTANTS
  Images = {i1, i2}
  TeamSizes = {2}
  Existing = Existing
  None = None
INVARIANTS
  PhotosTogether
