SPECIFICATION Spec
CONSTANTS
  facA = facA
  facB = facB
  facS = facS
  c1 = c1
  c2 = c2
  t1 = t1
  t2 = t2
  NULL = NULL
  Classes = {c1, c2}
  Factories = {facA, facB, facS}
  Counted = {facA, facB}
  ClassesOf <- MCClassesOf
  Held = 1
  Threads = {t1, t2}
  MaxRefs = 3
  MaxHeld = 2
SYMMETRY Symmetry
INVARIANTS
  FactoryRefsExact
  UseCause
  CreateExact
\* Nothing happens after the shutdown or a call of a destroyed factory.
CHECK_DEADLOCK FALSE
