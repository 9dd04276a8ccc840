SPECIFICATION Spec
CHECK_DEADLOCK FALSE
CONSTANTS
  Admins = {me, other}
  Fixture <- ThreeKinds
  Accounts = {a1}
  Scopes = {"global"}
  Caps = {c1}
  MaxRows = 5
  MaxApprovals = 3
  MaxEntries = 5
  None = None
  Me = me
  Tours = {{"reversals", "home"}, {"accounts", "limits"}, {"audit"}}
  PageSize = 2
  LastPage = 2
  MaxCalls = 2
  MaxSends = 3
  MaxUpsets = 1
INVARIANTS
  ReversedByOneApproval
  ListsAreCurrent
  BannerTellsLatest
  NothingSkipped
