SPECIFICATION Spec
CONSTANTS
  Main = main
  Streams = {p1, f1}
  Branches = {b1, b2}
  Bodies = {x}
  NotForked = NotForked
  MaxEvents = 4
  MaxBatch = 2
INVARIANTS CacheMatchesLog VersionsGapless
PROPERTIES SeedIsStable ImplementsSql
SYMMETRY Symmetry
CHECK_DEADLOCK FALSE
