SPECIFICATION Spec
CONSTANTS
  Keys = {k1, k2, k3}
  Values = {v1, v2}
  InitCap = 2
  MinCap = 1
  MaxCap = 3
  Uint32Range = 8
  MaxBatch = 2
INVARIANTS
  TypeOK
  Conserved
  KeysUnique
  CountExact
  OffsetIsDistance
  RoomLeft
PROPERTIES
  InsertTerminates
