SPECIFICATION Spec
CONSTANTS
  Main = main
  NoXref = NoXref
  NoBase = NoBase
  p1 = p1
  p2 = p2
  f1 = f1
  b1 = b1
  m1 = m1
  m2 = m2
  Branches = {b1}
  Streams = {p1}
  Creators = {}
  Editors = {e1}
  Mergers = {m1}
  Deleters = {}
  EventCap = 10
  MaxLog = 6
  Histories <- EditHistories
  Births <- MCBirths
  MainEdits <- NoWrites
  BranchEdits <- EditP1
INVARIANTS NoEditLost
CHECK_DEADLOCK FALSE
