SPECIFICATION FairSpec
CONSTANTS
  Tasks = {t1}
  InitTasks = {t1}
  Sends = {s1}
  Cancels = {c1}
  Subs = {u1}
  Modes = {"blocking"}
  ExecuteItems <- PlainItems
  CancelItems <- CancelEnds
  MaxExecute = 1
  MaxCancel = 1
  PushOn = TRUE
  PushFails = TRUE
  Disconnects = TRUE
  Limit = NoLimit
  NoLimit = NoLimit
  Absent = Absent
  NoTask = NoTask
  None = None
  Capacity = 32
INVARIANTS TerminalAgreement CanceledIsPushed NoStrandedWaiter
PROPERTY EveryoneIsAnswered
CHECK_DEADLOCK FALSE
