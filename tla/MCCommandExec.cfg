SPECIFICATION SpecPart
CONSTANTS
  Main = main
  Person = ann
  NotForked = NotForked
  c1 = c1
  c2 = c2
  Branches = {b1}
  Commands = {c1, c2}
  Kinds = {"create", "update", "delete", "rollback"}
  Beginnings <- Named
  Changes <- Updates
  MaxLog = 4
  Parts = {"command", "api", "import"}
  MaxVersion = 4
  MaxFailures = 2
  MaxOthers = 1
SYMMETRY Symmetry
INVARIANTS RowIsPast RollbackRestores AnswerIsDocumented StatusTellsWhy RefusalWroteNothing  TreeIsTheFile
PROPERTIES RowNeverGoesBack
CHECK_DEADLOCK FALSE
