SPECIFICATION Spec
CONSTANTS
  i1 = i1
  i2 = i2
  i3 = i3
  Images <- MCImages
  Parts <- MCParts
  Variables <- MCVariables
  Texts <- MCTexts
  Value <- MCValue
  Mark <- MCMark
  Cut <- MCCut
  MaxSuffix = 5
  Patterns <- MCPatterns
  UserFiles <- MCUserFiles
  NoName = NoName
  NoImage = NoImage
  Free = Free
PROPERTIES
  NoOverwrite
