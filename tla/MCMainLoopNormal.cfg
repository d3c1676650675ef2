SPECIFICATION Spec
CONSTANTS
  main = main
  t1 = t1
  world = world
  a = a
  b = b
  Layers = {world, a, b}
  Threads = {main, t1}
  SizeRange = 8
  InitCap = 3
  HeapCap = 4
  Wild = Wild
  Main = main
  World = world
  TicksPerUpdate = 2
  MaxElapsed = 3
  Elapsed = {0, 3, 7}
INVARIANT
  NormalAdded
\* Nothing happens after the shutdown or when the process has ended.
CHECK_DEADLOCK FALSE
