CONSTANTS
  None = None ShutdownCall = ShutdownCall
  c1 = c1 c2 = c2 c3 = c3 w1 = w1 w2 = w2 r1 = r1
  get1 = get1 put1 = put1 put2 = put2
  j1 = j1 j2 = j2 q1 = q1 q2 = q2 l1 = l1 l2 = l2
  Scenarios = {"cross"}
SPECIFICATION MCSpec
PROPERTIES DispatchSettles
CHECK_DEADLOCK FALSE
