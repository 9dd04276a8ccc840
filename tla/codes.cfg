SPECIFICATION Spec
CONSTANTS
  Codes = {c1, c2}
  Minters = {t1}
  Confirmers = {p1, p2}
  MaxAttempts = 2
  Ttl = 2
  Deadline = 1
  None = None
INVARIANTS
  SingleUse
  ThrottleHolds
  LiveCodeIsRecorded
  ShownIsLive
PROPERTIES
  GateClears
