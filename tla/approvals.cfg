SPECIFICATION Spec
CONSTANTS
  u1 = u1
  a1 = a1
  a2 = a2
  Users = {u1}
  Accounts = {a1}
  Owner <- OneAccount
  OpeningBalance <- TwoUnitsAlone
  Destinations = {}
  OutClearing = OutClearing
  InClearing = InClearing
  RailActor = RailActor
  Admins = {m1, m2}
  TxIds = {t1, t2, t3}
  Procs = {p1, p2}
  Amounts = {2}
  Refs = {r1}
  ApprovalIds = {i1, i2}
  MaxClock = 0
  PendingTtl = 1
  TicksPerMs = 1
  CoolingOffUntil = 0
  None = None
SYMMETRY BackOfficeSymmetry
INVARIANTS
  FourEyes
  ReversalOnce
  AfterIsCurrent
  ReportsAgree
