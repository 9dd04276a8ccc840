SPECIFICATION Spec
CONSTANTS
  Users = {u1}
  Customers = {u1}
  Numbers = {n1}
  Seeded <- MCSeeded
  Openers = {}
  MaxAccounts = 2
  MaxDraws = 2
  LastDay = 1
  MonthLength = 2
  None = None
  Spenders = {s1, s2, s3}
  Amounts = {1, 2}
  Clerks = {}
  CapRows <- MCCapRows
  Baseline <- MCDaily
  u1 = u1
  n1 = n1
INVARIANTS DailyCapHolds
CHECK_DEADLOCK FALSE
