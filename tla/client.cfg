SPECIFICATION Spec
CONSTANTS
  Accounts = {a1}
  Destinations = {d1}
  Payees = {p1}
  Amounts = {1}
  Inputs <- SomeInputs
  MaxMinor = 9999
  Funds <- OneUnitEach
  MaxTransfers = 2
  MaxKeys = 2
  Ttl = 0
  Window = 1
  CoolingOff = 1
  MaxClock = 1
  None = None
  Pages = {"TransferPage", "ExternalTransferPage"}
  MaxCalls = 1
  MaxUpsets = 1
INVARIANTS
  OnePending
  OneTransferPerFlow
  HoldsAddUp
  ScreenTellsOutcome
  FeedIsCurrent
PROPERTIES
  ResultStays
