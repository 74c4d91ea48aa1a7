SPECIFICATION Spec
CONSTANTS
  Tasks = {t1}
  InitTasks = {t1}
  Sends = {s1, s2}
  Cancels = {c1}
  Subs = {}
  Modes = {"streaming"}
  ExecuteItems <- TurnItems
  CancelItems <- CancelItemsAll
  MaxExecute = 1
  MaxCancel = 1
  PushOn = FALSE
  PushFails = FALSE
  Disconnects = FALSE
  Limit = 0
  NoLimit = NoLimit
  Absent = Absent
  NoTask = NoTask
  None = None
  Capacity = 32
INVARIANTS RegistryIsLive DetachedIsCanceled InOrder
PROPERTIES FinishIsOwn
