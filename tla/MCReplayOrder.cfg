SPECIFICATION SpecQueries
CONSTANTS
  Parts = {"promotion"}
  Main = main
  NoXref = NoXref
  Shared = family
  BranchNew = person1
  MainNew = person2
  Xref = xref
  MaxBranch = 3
  MaxMain = 2
  Size = 6
  Limits = {2, 6}
  RelationshipLimit = 15
  adam = adam
  kim = kim
  f1 = f1
  f2 = f2
  Persons = {adam, kim, sue}
  Men = {adam, kim}
  Families = {f1, f2}
  Nobody = Nobody
  Branch = branch
  Trees <- MCTrees
  MaxEvents = 6
INVARIANTS EdgesArePromoted
CHECK_DEADLOCK FALSE
