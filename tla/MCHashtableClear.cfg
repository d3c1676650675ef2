SPECIFICATION Spec
CONSTANTS
  Keys = {k1, k2, k3}
  Values = {v1}
  InitCap = 2
  MinCap = 2
  MaxCap = 3
  Uint32Range = 8
  MaxBatch = 2
PROPERTY ClearTerminates
