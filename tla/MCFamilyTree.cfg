SPECIFICATION Spec
CONSTANTS
  adam = adam
  eve = eve
  kim = kim
  f1 = f1
  f2 = f2
  c1 = c1
  c2 = c2
  Nobody = Nobody
  Persons = {adam, eve, kim}
  Men = {adam}
  Families = {f1, f2}
  Slots = {c1, c2}
  Settings <- MCSettings
  MaxVersion = 4
SYMMETRY Symmetry
INVARIANTS NoCycle NothingDangles EdgeIffChild ChildCountMatches
CHECK_DEADLOCK FALSE
