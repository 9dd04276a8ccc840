SPECIFICATION Spec
CHECK_DEADLOCK FALSE
CONSTANTS
  Admins = {me, other, third}
  Fixture <- ThreeKinds
  Accounts = {a1}
  Scopes = {"global"}
  Caps = {c1}
  MaxRows = 5
  MaxApprovals = 3
  MaxEntries = 4
  None = None
  Me = me
  Tours = {{"reversals", "home"}}
  PageSize = 2
  LastPage = 2
  MaxCalls = 2
  MaxSends = 1
  MaxUpsets = 1
INVARIANT RefusalsAreTold
