SPECIFICATION StateSpec
CONSTANTS
  TaskIds = {1, 2, 3}
  States = {"Working", "Completed", "Canceled"}
  Contents = {c1}
  Limit = 1
  NoLimit = NoLimit
  Absent = Absent
  MaxWrites = 5
  DefaultPageSize = 1
  MaxPageSize = 2
  PageSizes <- MCPageSizes
  Filters <- MCFilters
  NoFilter = NoFilter
  NoToken = NoToken
  Publishers = {drive}
  Subscribers = {u1, u2}
  Events <- MCEvents
  MaxPublished = 4
  Capacity = 2
  NoTask = NoTask
INVARIANTS
  TypeOK RetentionExact PagesFaithful
  ExecTypeOK SnapshotIsCurrent NothingMissed
PROPERTIES ImplementsLifecycle StreamsEnd
CHECK_DEADLOCK FALSE
