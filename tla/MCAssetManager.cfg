SPECIFICATION Spec
CONSTANTS
  h1 = h1
  h2 = h2
  h3 = h3
  s1 = s1
  s2 = s2
  s3 = s3
  k1 = k1
  k2 = k2
  k3 = k3
  k4 = k4
  NULL = NULL
  Handles = {h1, h2, h3}
  Stmts = {s1, s2, s3}
  Conns = {k1, k2, k3, k4}
INVARIANTS
  ObjectsExact
  IncompleteCause
