CONSTANTS
  Pointers = {0, 3, 10}
  Full = 10
  Narrowest = 1
  Grip = 2
  MaxEvents = 3
SPECIFICATION CropSpec
INVARIANT DrawnAsKept
