SPECIFICATION Spec
CONSTANTS
  ValueSize = 3
  NumbersCount = 5
  Opening = 2
  SplitAbove = 6
  MaxDepth = 6
  WeightRange = 256
  Scale = 360360
  Offsets <- Draws
INVARIANTS
  TreeFindsAll
  EquivalentsLoseNothing
PROPERTIES
  TreeIsKept
