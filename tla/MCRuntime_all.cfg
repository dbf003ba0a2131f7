CONSTANTS
  Components = {"gateway", "queue", "cache", "redis"}
  Unregistered = {"absent"}
  registered <- MCRegistered
  dependencies <- MCDependencies
  FailsValidate = {}
  FailsStart = {}
  FailsStop = {}
  Restarts = FALSE
  Services <- MCServices
  FailsResolve = {}
  FailsHook = {}
  FailsDispatcher = FALSE
  FailsReady = FALSE
  FailsListen = FALSE
  FailsCleanup = FALSE
  FailsClose = FALSE
  FailsDispose = FALSE
  Micros = {"m1", "m2"}
  FailsMicroListen = {}
  FailsMicroClose = {}
  ConnectLate = FALSE
  Scenarios = {"graphs", "routes", "onNode", "onExpress", "onFastify", "onBun", "onSockets", "onDeno", "onWorkers", "once", "restart", "boot", "serve", "micros", "batch", "mixed", "bounds", "reload", "watch", "notify", "prisma", "drizzle", "mongoose", "rotating", "consuming", "fixed", "keys", "uncached", "inMemory", "inRedis", "tokenKeys", "guards", "linking", "modules", "edits"}
SPECIFICATION MCSpec
INVARIANTS GraphsExact NativeKeepsMatch NothingForgottenOnce StateMatchesResources UnwindUndoesInit EventsDrained ConfigInStep DisposeAfterTransactions TokensRotateOnce OnlyTheRightfulPass ThrottleHolds
PROPERTIES OrderedByDependency ServersKeepPromise HostsDrain EverythingSettles
CHECK_DEADLOCK FALSE
