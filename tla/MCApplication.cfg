SPECIFICATION Spec
CONSTANTS
  N = 6
  Callbacks <- MCCallbacks
  NkOMs = {4, 5}
  Registrar = 2
  Window = 4
INVARIANTS
  TypeOK
  ReverseOrder
  CleanShutdown
  RefsHeld
  RegistryDrained
  CrashCause
\* main() returns, or the process ends.
CHECK_DEADLOCK FALSE
