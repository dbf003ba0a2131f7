CONSTANTS
  Components = {"gateway", "queue", "cache", "redis"}
  Unregistered = {"absent"}
  registered <- MCRegistered
  dependencies <- MCDependencies
  FailsValidate = {}
  FailsStart = {}
  FailsStop = {}
  Restarts = FALSE
  Services <- MCServices
  FailsResolve = {}
  FailsHook = {}
  FailsDispatcher = FALSE
  FailsReady = FALSE
  FailsListen = FALSE
  FailsCleanup = FALSE
  FailsClose = FALSE
  FailsDispose = FALSE
  Micros = {"m1", "m2"}
  FailsMicroListen = {}
  FailsMicroClose = {}
  ConnectLate = FALSE
  Scenarios = {"late"}
SPECIFICATION MCSpec
INVARIANTS OwnedMicrosClosed
CHECK_DEADLOCK FALSE
