SPECIFICATION Spec
CONSTANTS
  Keys = {"x", "y"}
  Worlds <- Creates
  MaxProtos = 3
  MaxCells = 5
  MaxStamps = 2
  DeepLimit = 3
INVARIANT ReadsAgree
CHECK_DEADLOCK FALSE
