SPECIFICATION FairSpec
CONSTANTS
  Main = main
  NoXref = NoXref
  NoBase = NoBase
  p1 = p1
  p2 = p2
  f1 = f1
  b1 = b1
  m1 = m1
  m2 = m2
  Branches = {b1}
  Streams = {p1, p2}
  Creators = {c1}
  Editors = {}
  Mergers = {m1, m2}
  Deleters = {}
  EventCap = 10
  MaxLog = 9
  Histories <- RaceHistories
  Births <- MCBirths
  MainEdits <- NoWrites
  BranchEdits <- NoWrites
INVARIANTS MergedOnce
PROPERTIES ClaimShows
CHECK_DEADLOCK FALSE
