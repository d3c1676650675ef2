SPECIFICATION Spec
CONSTANTS
  con = con
  d1 = d1
  d2 = d2
  d3 = d3
  t1 = t1
  t2 = t2
  t3 = t3
  NDev = 3
  Devices = {con, d1, d2, d3}
  Conout = con
  Threads = {t1, t2, t3}
  NULL = NULL
SYMMETRY Symmetric
PROPERTY AllInstalledReached
\* A lock left behind blocks every thread; nothing happens after the shutdown.
CHECK_DEADLOCK FALSE
