SPECIFICATION Spec
CONSTANTS
  Main = main
  Gone = Gone
  Base = base
  Branches = {b1}
  Persons = {p1, p2}
  Names = {n1}
  Families = {f1}
  Holders = {f1}
  MaxMain = 2
  MaxBranch = 3
INVARIANTS BackendsAgree
PROPERTIES StoresAreOverlays
CHECK_DEADLOCK FALSE
