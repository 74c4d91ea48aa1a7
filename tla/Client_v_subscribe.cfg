SPECIFICATION Spec
CONSTANTS
  Launches <- MCLaunches
  InputJobs <- MCInputJobs
  Invocations <- MCInvocations
  States = {"Working", "InputRequired", "Completed"}
  Timeout = 3
  Interval = 2
  MaxWire = 2
  Registered = {"GRPC", "SLIMRPC", "plugin"}
  Setups <- MCSetups
  MaxItems = 0
  MaxComments = 1
  Artifacts = {"a1", "a2"}
  Messages = {"m1"}
  Fallback <- MCFallback
  Filenames <- MCFilenames
  MaxParts = 0
INVARIANT ReconnectReconciles
CHECK_DEADLOCK FALSE
