SPECIFICATION Spec
CONSTANTS
  Events = {1, 2}
  Poison = {1}
  Relays = {r1, r2}
  Consumers = {c1, c2}
  BatchSize = 2
  ReadCount = 3
  MaxFailures = 1
INVARIANTS
  MarkedIsSent
  AcknowledgedIsKnown
  RepeatedOnlyAfterFailure
PROPERTIES
  ImplementsFeed
