------------------------------- MODULE HttpHosts -------------------------------
(***************************************************************************)
(* The HTTP adapters: NodeHttpApplicationAdapter (packages/runtime), and   *)
(* those of platform-express, -fastify, -bun, -deno and                    *)
(* -cloudflare-workers.  Each binds a dispatcher to a server of its host   *)
(* and, when it closes, lets the requests under way come to their end.     *)
(*                                                                         *)
(* The Node family asks the server whether it listens, which it does not   *)
(* any more as soon as it is told to close; the others keep a promise of   *)
(* the close in flight, count requests and refuse new ones meanwhile.      *)
(***************************************************************************)
EXTENDS Naturals

CONSTANTS
  Host,       \* "node", "express", "fastify", "bun", "deno" or "workers"
  Requests,
  Closers,    \* calls of close(); the application begins none while listen() waits
  RetryLimit, \* of listen(), while the port is in use
  Binding     \* Bun has a realtime binding, which sees a request first

HostsAssumption ==
  /\ Host \in {"node", "express", "fastify", "bun", "deno", "workers"}
  /\ RetryLimit \in Nat /\ Binding \in BOOLEAN

VARIABLES
  dispatcher,    \* one is bound
  server,        \* what the host does: "off", "binding", "delay", "on", "stopping", and
                 \* "lingering" when only kept-alive connections are left
  bound,         \* this.server of Bun and Deno, the bound dispatcher of a worker
  closeInFlight, \* closing has begun and has not ended
  isClosed,      \* of a worker
  attempts,      \* of listen()
  listener,      \* listen(): "idle", "waiting", "done" or "failed"
  closer,        \* each close(): the same
  req            \* each request: "none", "accepted", "active", and how it ended

hostVars == <<dispatcher, server, bound, closeInFlight, isClosed, attempts, listener, closer, req>>

NodeFamily == {"node", "express", "fastify"}
Init ==
  /\ dispatcher = FALSE /\ bound = FALSE /\ closeInFlight = FALSE /\ isClosed = FALSE
  /\ server = (IF Host = "workers" THEN "on" ELSE "off") /\ attempts = 0 /\ listener = "idle"
  /\ closer = [c \in Closers |-> "idle"] /\ req = [r \in Requests |-> "none"]

Listening == server = "on" \/ (Host = "fastify" /\ server = "stopping")
\* In the application, its client waiting.
Active == {r \in Requests : req[r] = "active"}
\* Connections whose request the host has not seen answered.
Busy == {r \in Requests : req[r] \in {"accepted", "active"}}

---------------------------------------------------------------------------
(* listen() *)

NodeListen ==
  /\ Host \in NodeFamily
  /\ dispatcher' = TRUE /\ server' = "binding" /\ listener' = "waiting"
  /\ UNCHANGED <<bound, isClosed>>
\* serve() of Bun binds at once, or throws.
BunListen ==
  /\ Host = "bun" /\ dispatcher' = TRUE
  /\ \/ listener' = "failed" /\ UNCHANGED <<server, bound>>
     \/ listener' = "done" /\ server' = "on" /\ bound' = TRUE
  /\ UNCHANGED isClosed
\* With a fixed port Deno does not wait for onListen().
DenoListen ==
  /\ Host = "deno" /\ dispatcher' = TRUE /\ server' = "on" /\ bound' = TRUE
  /\ listener' \in {"waiting", "done"} /\ UNCHANGED isClosed
WorkersListen ==
  /\ Host = "workers"
  /\ IF closeInFlight THEN listener' = "failed" /\ UNCHANGED <<dispatcher, bound, isClosed>>
     ELSE listener' = "done" /\ dispatcher' = TRUE /\ bound' = TRUE /\ isClosed' = FALSE
  /\ UNCHANGED server
Listen ==
  /\ listener = "idle" /\ (NodeListen \/ BunListen \/ DenoListen \/ WorkersListen)
  /\ UNCHANGED <<closeInFlight, attempts, closer, req>>

\* The port is bound, is in use, or cannot be bound.
Binds ==
  /\ listener = "waiting" /\ server \in {"binding", "on"}
  /\ \/ server' = "on" /\ listener' = "done" /\ UNCHANGED attempts
     \/ /\ server = "binding" /\ attempts < RetryLimit
        /\ server' = "delay" /\ attempts' = attempts + 1 /\ UNCHANGED listener
     \/ server = "binding" /\ server' = "off" /\ listener' = "failed" /\ UNCHANGED attempts
  /\ UNCHANGED <<dispatcher, bound, closeInFlight, isClosed, closer, req>>
Retries ==
  /\ server = "delay" /\ server' = "binding"
  /\ UNCHANGED <<dispatcher, bound, closeInFlight, isClosed, attempts, listener, closer, req>>

---------------------------------------------------------------------------
(* Requests: over a new connection, or over one that was kept alive while  *)
(* the server stops                                                        *)

\* What dispatchWithRequestResponseFactory() or dispatchWebRequest() makes of
\* the dispatcher that is bound as they are called.
Dispatched == IF dispatcher THEN "active" ELSE "notReady"

NodeHandle(r) ==
  /\ Host \in {"node", "express"} /\ req' = [req EXCEPT ![r] = Dispatched] /\ UNCHANGED bound
\* Fastify answers 503 once it closes, and parses a request before the handler is called.
FastifyHandle(r) ==
  /\ Host = "fastify" /\ UNCHANGED bound
  /\ req' = [req EXCEPT ![r] = IF closeInFlight THEN "refused" ELSE "accepted"]
\* A request that comes when the close is over makes the adapter take the server back.
BunHandle(r) ==
  /\ Host = "bun" /\ bound' = TRUE
  /\ req' = [req EXCEPT ![r] =
       CASE closeInFlight -> "refused" [] ~closeInFlight /\ Binding -> "accepted" [] OTHER -> Dispatched]
DenoHandle(r) ==
  /\ Host = "deno" /\ UNCHANGED bound
  /\ req' = [req EXCEPT ![r] = IF closeInFlight THEN "refused" ELSE Dispatched]
WorkersFetch(r) ==
  /\ Host = "workers" /\ UNCHANGED bound
  /\ req' = [req EXCEPT ![r] = IF closeInFlight \/ isClosed THEN "refused" ELSE Dispatched]
Arrives(r) ==
  /\ req[r] = "none" /\ server \in {"on", "stopping", "lingering"}
  /\ NodeHandle(r) \/ FastifyHandle(r) \/ BunHandle(r) \/ DenoHandle(r) \/ WorkersFetch(r)
  /\ UNCHANGED <<dispatcher, server, closeInFlight, isClosed, attempts, listener, closer>>

\* Fastify calls the handler, or Bun's binding declines the request: the
\* dispatcher is read now.
Proceeds(r) ==
  /\ req[r] = "accepted"
  /\ req' = [req EXCEPT ![r] = IF Host = "bun" /\ closeInFlight THEN "refused" ELSE Dispatched]
  /\ UNCHANGED <<dispatcher, server, bound, closeInFlight, isClosed, attempts, listener, closer>>

\* The dispatch is over.
Handled(r) ==
  /\ req[r] = "active" /\ req' = [req EXCEPT ![r] = "handled"]
  /\ UNCHANGED <<dispatcher, server, bound, closeInFlight, isClosed, attempts, listener, closer>>

---------------------------------------------------------------------------
(* close() *)

\* There is nothing to stop: the dispatcher is released, at once.
ClosesNothing(c) ==
  /\ dispatcher' = FALSE /\ closer' = [closer EXCEPT ![c] = "done"]
  /\ UNCHANGED <<server, closeInFlight>>
\* The host is told to stop, and the call waits, no longer than for the timeout.
BeginsClosing(c) ==
  /\ closeInFlight' = TRUE /\ closer' = [closer EXCEPT ![c] = "waiting"]
  /\ server' = (IF Host = "workers" THEN server ELSE "stopping")
  /\ UNCHANGED dispatcher
JoinsClosing(c) ==
  /\ closeInFlight /\ closer' = [closer EXCEPT ![c] = "waiting"]
  /\ UNCHANGED <<server, closeInFlight, dispatcher>>

NodeClose(c) ==
  /\ Host = "node" /\ UNCHANGED isClosed
  /\ IF ~Listening THEN ClosesNothing(c) ELSE BeginsClosing(c)
ExpressClose(c) ==
  /\ Host = "express" /\ UNCHANGED isClosed
  /\ IF ~Listening THEN ClosesNothing(c)
     ELSE IF closeInFlight THEN JoinsClosing(c) ELSE BeginsClosing(c)
FastifyClose(c) ==
  /\ Host = "fastify" /\ UNCHANGED isClosed
  /\ IF ~Listening THEN ClosesNothing(c)
     ELSE IF closeInFlight THEN JoinsClosing(c) ELSE BeginsClosing(c)
BunClose(c) ==
  /\ Host = "bun" /\ UNCHANGED isClosed
  /\ CASE closeInFlight -> JoinsClosing(c)
       [] ~closeInFlight /\ ~bound -> ClosesNothing(c)
       [] OTHER -> BeginsClosing(c)
DenoClose(c) ==
  /\ Host = "deno" /\ UNCHANGED isClosed
  /\ CASE closeInFlight -> JoinsClosing(c)
       [] ~closeInFlight /\ ~bound -> ClosesNothing(c)
       [] OTHER -> BeginsClosing(c)
WorkersClose(c) ==
  /\ Host = "workers"
  /\ CASE closeInFlight -> JoinsClosing(c) /\ UNCHANGED isClosed
       [] ~closeInFlight /\ ~dispatcher -> ClosesNothing(c) /\ isClosed' = TRUE
       [] OTHER -> BeginsClosing(c) /\ isClosed' = TRUE
Close(c) ==
  /\ closer[c] = "idle" /\ listener \in {"done", "failed"}
  /\ \/ NodeClose(c) \/ ExpressClose(c) \/ FastifyClose(c)
     \/ BunClose(c) \/ DenoClose(c) \/ WorkersClose(c)
  /\ UNCHANGED <<bound, attempts, listener, req>>

\* Fastify's own close() has come to its server.
StopsListening ==
  /\ Host = "fastify" /\ server = "stopping" /\ server' = "lingering"
  /\ UNCHANGED <<dispatcher, bound, closeInFlight, isClosed, attempts, listener, closer, req>>

\* What closing waits for: connections with the Node family, of which none has a
\* request left, the requests that were counted with the others.
DrainedButOne == \A r, q \in Active : r = q
Drained == IF Host \in NodeFamily THEN Busy = {} ELSE Active = {}
Settle(outcome) ==
  closer' = [c \in Closers |-> IF closer[c] = "waiting" THEN outcome ELSE closer[c]]

Released ==
  /\ closeInFlight' = FALSE /\ dispatcher' = FALSE /\ bound' = FALSE
  /\ server' = CASE Host \in NodeFamily -> "off" [] Host = "workers" -> server [] OTHER -> "lingering"
  /\ UNCHANGED <<isClosed, attempts, listener>>
DrainEnds ==
  /\ closeInFlight /\ Drained /\ (Host = "fastify" => server = "lingering")
  /\ Released /\ Settle("done") /\ UNCHANGED req
\* Connections are destroyed: the application works on for clients that are gone.
Cut == req' = [r \in Requests |-> IF r \in Busy THEN "cut" ELSE req[r]]
\* Deno's server does not shut down in order: it is aborted.
ShutdownFails == Host = "deno" /\ closeInFlight /\ Released /\ Settle("failed") /\ Cut

\* shutdownTimeoutMs has passed: forceCloseConnections().
ForceCloses ==
  /\ Host \in {"node", "express"} /\ closeInFlight /\ Busy # {} /\ Cut
  /\ UNCHANGED <<dispatcher, server, bound, closeInFlight, isClosed, attempts, listener, closer>>
\* waitForCloseWithTimeout(): the call rejects and the close goes on.
TimesOut(c) ==
  /\ Host # "node" /\ closer[c] = "waiting" /\ closer' = [closer EXCEPT ![c] = "failed"]
  /\ UNCHANGED <<dispatcher, server, bound, closeInFlight, isClosed, attempts, listener, req>>

---------------------------------------------------------------------------

Due ==
  \/ Binds \/ Retries \/ StopsListening \/ DrainEnds \/ ForceCloses
  \/ \E r \in Requests : Proceeds(r)
  \/ \E c \in Closers : TimesOut(c)
Next ==
  \/ Due \/ Listen \/ ShutdownFails
  \/ \E r \in Requests : Arrives(r) \/ Handled(r)
  \/ \E c \in Closers : Close(c)
Spec == Init /\ [][Next]_hostVars /\ WF_hostVars(Due)

---------------------------------------------------------------------------

\* close() was fulfilled: no client waits for the application, and none will
\* (waitForInFlightRequests, closeServerWithDrain).  README.md:93 of
\* platform-express says that concurrent calls share one close.
ClosedIsQuiet == \A c \in Closers : closer[c] = "done" => Active = {}

\* A request that a host let in is not told that nothing is bound: dispatchers
\* are released after those they were accepted for (finally of close()).  Bun's
\* may be, when its binding looked at it for longer than the drain took.
KeepsAccepted == Host # "bun" => \A r \in Requests : (req[r] = "accepted") => (req'[r] # "notReady")

\* listen() and every close() settle, requests that hang or not.
AllSettled == listener # "waiting" /\ \A c \in Closers : closer[c] # "waiting"
===============================================================================
