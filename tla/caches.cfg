SPECIFICATION Spec
CONSTANTS
  Keys = {"x", "y"}
  Worlds <- Programs
  MaxProtos = 3
  MaxCells = 5
  MaxStamps = 2
  DeepLimit = 3
INVARIANTS
  TypeOK
  ReadsAgree
  StoresAgree
  TypesProve
CHECK_DEADLOCK FALSE
