SPECIFICATION Spec
CONSTANTS
  u1 = u1
  a1 = a1
  a2 = a2
  Users = {u1}
  Accounts = {a1}
  Owner <- OneAccount
  OpeningBalance <- OneUnitAlone
  Destinations = {}
  OutClearing = OutClearing
  InClearing = InClearing
  RailActor = RailActor
  Admins = {}
  TxIds = {t1, t2, t3}
  Procs = {p1, p2}
  Amounts = {1, 2}
  Refs = {r1}
  ApprovalIds = {}
  MaxClock = 3
  PendingTtl = 1
  TicksPerMs = 2
  CoolingOffUntil = 2
  None = None
SYMMETRY TxSymmetry
INVARIANTS
  TypeOK
  HoldFollowsTransfer
  MoneyOnce
  FundsCoverHolds
  SettledXorReversed
  OneEventPerOutcome
PROPERTIES
  SettleSpendsHold
