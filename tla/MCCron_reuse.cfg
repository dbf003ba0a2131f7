CONSTANTS
  None = None
  t1 = t1 t2 = t2 t3 = t3 h1 = h1 h2 = h2 h3 = h3
  Names = {"job", "poll"}
  TaskIds = {t1, t2, t3}
  Timers = {h1, h2, h3}
  n1 = n1 n2 = n2
  Nodes = {n1, n2}
  Ttl = 4
  Latency = 1
  Weathers = {"faults", "prompt"}
  Scenarios = {"reuse"}
SPECIFICATION MCSpec
INVARIANTS ShutdownStopsTimers
CHECK_DEADLOCK FALSE
