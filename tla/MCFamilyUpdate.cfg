SPECIFICATION Spec
CONSTANTS
  Slots = {r1, r2}
  Sources = {a1, a2}
  Citations = {b1, b2}
  Titles = {"t"}
  SourceSettings <- MCSourceSettings
  Persons = {a1, a2}
  Names = {b1, b2}
  Things = {x1}
  PersonSettings <- MCPersonSettings
  Analyses = {a1, a2}
  Conflicts = {b1, b2}
  Facts = {f1, f2}
  Conclusions = {yes, no}
  EvidenceSettings <- MCEvidenceSettings
  Values = {a1, a2}
  Nobody = Nobody
  Empty = Empty
  Unused = Unused
  Parts = {"fields"}
  RecordKinds = {"citation", "event", "attribute", "analysis", "conflict", "log", "summary"}
  Kinds = {"Family"}
  MaxLog = 5
  Ids = {1, 2, 3}
  Keys = {1, 2}
  PageSize = 1
  MaxChanges = 3
  MaxVersion = 3
  MaxPersonVersion = 4
  Main = main
  Streams = {anna}
  Import = import
  Branches = {branch1}
  Times = {10, 11}
  StoreOrders = {"scan", "text", "time"}
  MaxComparison = 2
  DefaultLimit = 1
  MaxLimit = 2
  Sizes = {0, 9}
  Readers = {p1}
  Snapshots = {a1, a2}
  Histories = {anna, everything}
  Everything = everything
  NoMark = NoMark
  MaxHistory = 4
SYMMETRY Symmetry
INVARIANTS RowIsAlwaysRebuilt
CHECK_DEADLOCK FALSE
