SPECIFICATION Spec
CONSTANTS
  Users = {u1}
  Customers = {u1}
  Numbers = {n1, n2, n3}
  Seeded <- MCSeeded
  Openers = {o1, o2}
  MaxAccounts = 2
  MaxDraws = 2
  LastDay = 2
  MonthLength = 2
  None = None
  Spenders = {s1, s2}
  Amounts = {1, 2}
  Clerks = {c1, c2}
  CapRows <- MCCapRows
  Baseline <- MCBaseline
  u1 = u1
  n1 = n1
INVARIANTS AccountCap
PROPERTIES CapsEnforced TrailShowsChange
SYMMETRY Symmetric
CHECK_DEADLOCK FALSE
