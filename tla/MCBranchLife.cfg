SPECIFICATION Spec
CONSTANTS
  Main = main
  NoXref = NoXref
  NoBase = NoBase
  p1 = p1
  p2 = p2
  f1 = f1
  b1 = b1
  m1 = m1
  m2 = m2
  Branches = {b1}
  Streams = {p1, f1}
  Creators = {}
  Editors = {e1}
  Mergers = {m1}
  Deleters = {d1}
  EventCap = 4
  MaxLog = 8
  Histories <- LinkHistories
  Births <- MCBirths
  MainEdits <- LinkMainEdits
  BranchEdits <- LinkBranchEdits
INVARIANTS ReplayAfterClaim PromotedInFull LinkedChildExists
PROPERTIES NoSilentOverride
CHECK_DEADLOCK FALSE
