SPECIFICATION Spec
CONSTANTS
  Tasks = {t1}
  InitTasks = {t1}
  Sends = {s1, s2}
  Cancels = {}
  Subs = {}
  Modes = {"streaming"}
  ExecuteItems <- QuestionItems
  CancelItems <- CancelEnds
  MaxExecute = 1
  MaxCancel = 0
  PushOn = FALSE
  PushFails = FALSE
  Disconnects = FALSE
  Limit = NoLimit
  NoLimit = NoLimit
  Absent = Absent
  NoTask = NoTask
  None = None
  Capacity = 32
PROPERTIES HistoryAccumulates
