SPECIFICATION Spec
CONSTANTS
  Tasks = {t1, t2}
  InitTasks = {t1, t2}
  Sends = {s1}
  Cancels = {c1, c2}
  Subs = {}
  Modes = {"streaming"}
  ExecuteItems <- TurnItems
  CancelItems <- CancelEnds
  MaxExecute = 1
  MaxCancel = 0
  PushOn = FALSE
  PushFails = FALSE
  Disconnects = FALSE
  Limit = 1
  NoLimit = NoLimit
  Absent = Absent
  NoTask = NoTask
  None = None
  Capacity = 32
PROPERTIES PurgedStaysGone
