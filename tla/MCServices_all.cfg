CONSTANTS
  None = None ShutdownCall = ShutdownCall
  c1 = c1 c2 = c2 c3 = c3 w1 = w1 w2 = w2 r1 = r1
  get1 = get1 put1 = put1 put2 = put2
  j1 = j1 j2 = j2 q1 = q1 q2 = q2 l1 = l1 l2 = l2
  Scenarios = {"chain", "del", "reset", "loads", "requests", "retry", "share", "tcp", "nats", "kafka", "rabbitmq", "mqtt", "redis", "answers", "refusals", "shared", "node", "bun", "deno", "workers", "oldest", "newest", "overflow",
               "unary", "server", "bidi", "client", "packets", "ambiguous", "ioOldest", "ioNewest", "ioClose",
               "email", "promptly", "slack", "discord", "direct", "single", "bulk", "oneByOne", "givesUp", "unknown",
               "pipeline", "fast", "lazy", "scoped", "sse", "streams", "bodies", "catalogs", "locales",
               "operations", "sessions", "responses"}
SPECIFICATION MCSpec
INVARIANTS SagasInTurn LoadsStayFresh NothingIsLost
           AckedWasHandled SocketsInOrder AnsweredWell
PROPERTIES EvictsOnce ShutdownIsFinal TransportsInStep EverythingSettles
CHECK_DEADLOCK FALSE
