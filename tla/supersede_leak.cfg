SPECIFICATION Spec
CONSTANTS
  u1 = u1
  a1 = a1
  a2 = a2
  Users = {u1}
  Accounts = {a1, a2}
  Owner <- OneCustomer
  OpeningBalance <- OneUnit
  Destinations = {a2}
  OutClearing = OutClearing
  InClearing = InClearing
  RailActor = RailActor
  Admins = {}
  TxIds = {t1, t2}
  Procs = {p1}
  Amounts = {1}
  Refs = {}
  ApprovalIds = {}
  MaxClock = 0
  PendingTtl = 1
  TicksPerMs = 1
  CoolingOffUntil = 0
  None = None
SYMMETRY TxSymmetry
INVARIANTS
  HoldsBackPending
