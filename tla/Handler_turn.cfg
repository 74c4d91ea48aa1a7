SPECIFICATION Spec
CONSTANTS
  Tasks = {t1, t2}
  InitTasks = {t1}
  Sends = {s1}
  Cancels = {}
  Subs = {u1}
  Modes = {"blocking", "immediate", "streaming"}
  ExecuteItems <- AllItems
  CancelItems <- CancelEnds
  MaxExecute = 2
  MaxCancel = 0
  PushOn = TRUE
  PushFails = TRUE
  Disconnects = FALSE
  Limit = NoLimit
  NoLimit = NoLimit
  Absent = Absent
  NoTask = NoTask
  None = None
  Capacity = 1
INVARIANTS TypeOK FailedTurnIsOver EndShowsOutcome WaiterMissesNothing
