SPECIFICATION Spec
CONSTANTS
  N = 6
  Callbacks <- MCCallbacks
  NkOMs = {4, 5}
  Registrar = 2
  Window = 4
INVARIANT OnlyOpposites
CHECK_DEADLOCK FALSE
