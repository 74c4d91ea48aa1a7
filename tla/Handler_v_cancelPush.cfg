SPECIFICATION Spec
CONSTANTS
  Tasks = {t1}
  InitTasks = {t1}
  Sends = {s1}
  Cancels = {c1}
  Subs = {}
  Modes = {"streaming"}
  ExecuteItems <- TurnItems
  CancelItems <- CancelStray
  MaxExecute = 1
  MaxCancel = 1
  PushOn = TRUE
  PushFails = FALSE
  Disconnects = FALSE
  Limit = NoLimit
  NoLimit = NoLimit
  Absent = Absent
  NoTask = NoTask
  None = None
  Capacity = 32
INVARIANTS CanceledIsPushed
