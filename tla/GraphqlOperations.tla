--------------------------- MODULE GraphqlOperations ---------------------------
(***************************************************************************)
(* packages/graphql: the request scope that each operation runs in, over   *)
(* the sockets of graphql-ws, where an operation is named by its client    *)
(* and may end by itself, by its client, with its socket or with the       *)
(* application; and over HTTP, whose answer may be a stream that the       *)
(* client leaves.  graphql-ws and the sources of results are external.     *)
(***************************************************************************)
EXTENDS FiniteSets, Integers

CONSTANTS Sockets, Operations, SocketOf, IdOf, \* subscribe messages, and where and as what they come
          MaxConnections, MaxOperations        \* limits

NoContainer == "none"
GraphqlAssumption ==
  /\ SocketOf \in [Operations -> Sockets] /\ NoContainer \notin Operations
  /\ MaxConnections \in Nat /\ MaxOperations \in Nat

VARIABLES
  yoga,        \* whether the service is up
  shutdown,    \* onApplicationShutdown
  socket,      \* websocketServer.clients
  subscribed,  \* external: the ids in the subscriptions of graphql-ws
  containers,  \* websocketOperationContainers: which operation made the one of an id
  op,          \* per operation: where it is and whose container it has
  disposals,   \* how often the container that an operation made was disposed of
  request      \* an HTTP request: where it is, its container, the body and the client

graphqlVars == <<yoga, shutdown, socket, subscribed, containers, op, disposals, request>>
socketSide == <<yoga, shutdown, socket, subscribed, containers, op, disposals>>

Keys == {<<SocketOf[o], IdOf[o]>> : o \in Operations}
KeyOf(o) == <<SocketOf[o], IdOf[o]>>

GraphqlTypeOK ==
  /\ yoga \in BOOLEAN /\ shutdown \in {"no", "closing", "disposing", "done"}
  /\ socket \in [Sockets -> {"no", "open", "closing", "refused", "gone"}]
  /\ subscribed \subseteq Keys /\ containers \in [Keys -> Operations \cup {NoContainer}]
  /\ disposals \in [Operations -> Nat]

Init ==
  /\ yoga = FALSE /\ shutdown = "no" /\ socket = [s \in Sockets |-> "no"] /\ subscribed = {}
  /\ containers = [k \in Keys |-> NoContainer] /\ op = [o \in Operations |-> [pc |-> "no", uses |-> NoContainer]]
  /\ disposals = [o \in Operations |-> 0]
  /\ request = [pc |-> "no", container |-> NoContainer, body |-> "none", client |-> "waits"]

---------------------------------------------------------------------------

Moves(o, pc) == op' = [op EXCEPT ![o].pc = pc]
Count(makers) == disposals' = [o \in Operations |-> disposals[o] + IF o \in makers THEN 1 ELSE 0]

\* disposeWebSocketOperationContainer and disposeAllWebSocketOperationContainers:
\* what is disposed of has left the map before.
DisposeKeys(keys) ==
  /\ containers' = [k \in Keys |-> IF k \in keys THEN NoContainer ELSE containers[k]]
  /\ Count({containers[k] : k \in keys} \ {NoContainer})
OfSocket(s) == {k \in Keys : k[1] = s}

\* onApplicationBootstrap: what failed takes everything back before it rejects.
Bootstrap ==
  /\ ~yoga /\ shutdown = "no" /\ yoga' = TRUE
  /\ UNCHANGED <<shutdown, socket, subscribed, containers, op, disposals, request>>

\* upgradeListener
Connects(s) ==
  /\ yoga /\ shutdown = "no" /\ socket[s] = "no"
  /\ socket' = [socket EXCEPT ![s] =
       IF Cardinality({t \in Sockets : socket[t] \in {"open", "closing"}}) >= MaxConnections THEN "refused" ELSE "open"]
  /\ UNCHANGED <<yoga, shutdown, subscribed, containers, op, disposals, request>>

\* A socket closes from either side; what it had received is still delivered.
Closes(s) ==
  /\ socket[s] = "open" /\ socket' = [socket EXCEPT ![s] = "closing"]
  /\ UNCHANGED <<yoga, shutdown, subscribed, containers, op, disposals, request>>
CloseOf(o) == socket' = [socket EXCEPT ![SocketOf[o]] = "closing"]

\* A subscribe message: graphql-ws closes a socket that uses an id twice, and
\* one whose handler throws.
Subscribe(o) ==
  /\ op[o].pc = "no" /\ socket[SocketOf[o]] \in {"open", "closing"}
  /\ \/ (KeyOf(o) \in subscribed \/ ~yoga) /\ Moves(o, "over") /\ CloseOf(o) /\ UNCHANGED <<subscribed, containers>>
     \/ /\ KeyOf(o) \notin subscribed /\ yoga
        /\ LET held == {k \in OfSocket(SocketOf[o]) : containers[k] # NoContainer}
               maker == IF containers[KeyOf(o)] = NoContainer THEN o ELSE containers[KeyOf(o)]
           IN \* handleWebSocketSubscribe: createWebSocketOperationLimitError, getOrCreateWebSocketOperationContainer
              IF containers[KeyOf(o)] = NoContainer /\ Cardinality(held) >= MaxOperations
              THEN Moves(o, "over") /\ UNCHANGED <<subscribed, containers>>
              ELSE /\ containers' = [containers EXCEPT ![KeyOf(o)] = maker]
                   /\ op' = [op EXCEPT ![o] = [pc |-> "context", uses |-> maker]]
                   /\ subscribed' = subscribed \cup {KeyOf(o)}
        /\ UNCHANGED socket
  /\ UNCHANGED <<yoga, shutdown, disposals, request>>

\* The document does not validate, or the context fails, which closes the socket.
Invalid(o) ==
  /\ op[o].pc = "context" /\ Moves(o, "over") /\ DisposeKeys({KeyOf(o)})
  /\ subscribed' = subscribed \ {KeyOf(o)}
  /\ UNCHANGED socket \/ (socket[SocketOf[o]] # "gone" /\ CloseOf(o))
  /\ UNCHANGED <<yoga, shutdown, request>>

\* The context is there: the operation runs, unless the document does not have it.
ContextReady(o) ==
  /\ op[o].pc = "context"
  /\ \/ Moves(o, "running") /\ UNCHANGED subscribed
     \/ Moves(o, "unknown") /\ subscribed' = subscribed \ {KeyOf(o)}
  /\ UNCHANGED <<yoga, shutdown, socket, containers, disposals, request>>

\* The results end, or the client wants no more: onComplete, and when it is over
\* graphql-ws forgets the id.
ClientCompletes(o) ==
  /\ op[o].pc \in {"context", "running"} /\ KeyOf(o) \in subscribed /\ socket[SocketOf[o]] = "open"
  /\ subscribed' = subscribed \ {KeyOf(o)}
  /\ UNCHANGED <<yoga, shutdown, socket, containers, op, disposals, request>>
Completes(o) ==
  /\ op[o].pc = "running" /\ Moves(o, "completing") /\ DisposeKeys({KeyOf(o)})
  /\ UNCHANGED <<yoga, shutdown, socket, subscribed, request>>
Completed(o) ==
  /\ op[o].pc = "completing" /\ Moves(o, "over") /\ subscribed' = subscribed \ {KeyOf(o)}
  /\ UNCHANGED <<yoga, shutdown, socket, containers, disposals, request>>

\* onDisconnect
Disconnects(s) ==
  /\ socket[s] = "closing" /\ socket' = [socket EXCEPT ![s] = "gone"]
  /\ subscribed' = subscribed \ OfSocket(s) /\ DisposeKeys(OfSocket(s))
  /\ UNCHANGED <<yoga, shutdown, op, request>>

\* unregisterWebSocketTransport: the clients are terminated and awaited, unless
\* that fails; then what is left is disposed of, and the service is reset.
ShutdownBegins ==
  /\ yoga /\ shutdown = "no" /\ shutdown' = "closing"
  /\ socket' = [s \in Sockets |-> IF socket[s] = "open" THEN "closing" ELSE socket[s]]
  /\ UNCHANGED <<yoga, subscribed, containers, op, disposals, request>>
TransportClosed ==
  /\ shutdown = "closing" /\ shutdown' = "disposing" /\ DisposeKeys(Keys)
  /\ UNCHANGED <<yoga, socket, subscribed, op, request>>
Reset ==
  /\ shutdown = "disposing" /\ shutdown' = "done" /\ yoga' = FALSE
  /\ UNCHANGED <<socket, subscribed, containers, op, disposals, request>>

---------------------------------------------------------------------------
(* The middleware, and writeFetchResponseStream *)

Becomes(r) == request' = r /\ UNCHANGED socketSide
Over(r) == [r EXCEPT !.pc = "over", !.container = IF @ = "open" THEN "disposed" ELSE @]
Ended(r) == IF r.client = "waits" THEN [Over(r) EXCEPT !.client = "answered"] ELSE Over(r)
Cancelled(r) == [r EXCEPT !.body = IF @ = "open" THEN "cancelled" ELSE @]
\* The top of the loop: a stream that is closed is read no further.
Reads(r) == IF r.client = "left" THEN Ended(Cancelled(r)) ELSE [r EXCEPT !.pc = "reading"]

HttpBegins ==
  /\ request.pc = "no"
  /\ Becomes(IF yoga THEN [request EXCEPT !.pc = "fetching"] ELSE Ended(request))
\* yoga.fetch answers with a stream or without, or fails; a context was built or not.
Fetched ==
  /\ request.pc = "fetching"
  /\ \E made \in {NoContainer, "open"}, streams \in BOOLEAN :
       LET r == [request EXCEPT !.container = made]
       IN Becomes(IF streams THEN Reads([r EXCEPT !.body = "open"]) ELSE Ended(r))
\* A chunk, which the client takes at once or not; the end of the body; its failure.
Chunk ==
  /\ request.pc = "reading"
  /\ Becomes(Reads(request)) \/ Becomes([request EXCEPT !.pc = "draining"])
BodyEnds == request.pc = "reading" /\ Becomes(Ended([request EXCEPT !.body = "ended"]))
BodyFails == request.pc = "reading" /\ Becomes(Over([request EXCEPT !.body = "failed"]))
Drains == request.pc = "draining" /\ Becomes(Reads(request))
DrainFails == request.pc = "draining" /\ Becomes(Over(Cancelled(request)))
\* The client leaves: a pending read is given up with the body.
Leaves ==
  /\ request.client = "waits" /\ request.pc # "no"
  /\ LET r == [request EXCEPT !.client = "left"]
     IN Becomes(CASE r.pc = "reading" -> Ended(Cancelled(r)) [] r.pc = "draining" -> Cancelled(r) [] OTHER -> r)

---------------------------------------------------------------------------
SocketNext ==
  \/ Bootstrap \/ ShutdownBegins \/ TransportClosed \/ Reset
  \/ \E s \in Sockets : Connects(s) \/ Closes(s) \/ Disconnects(s)
  \/ \E o \in Operations : \/ Subscribe(o) \/ Invalid(o) \/ ContextReady(o) \/ ClientCompletes(o)
                           \/ Completes(o) \/ Completed(o)
RequestNext ==
  HttpBegins \/ Fetched \/ Chunk \/ BodyEnds \/ BodyFails \/ Drains \/ DrainFails \/ Leaves
Next == SocketNext \/ RequestNext

Due ==
  \/ TransportClosed \/ Reset \/ Drains
  \/ \E s \in Sockets : Disconnects(s)
  \/ \E o \in Operations : Completed(o)
Spec == Init /\ [][Next]_graphqlVars /\ WF_graphqlVars(Due)

---------------------------------------------------------------------------
(* Properties *)

\* The container of an operation is disposed of once, not before the operation
\* or its socket is over, and when either is; but if its client uses an id before
\* its last operation is over, and they share a container, one ends under the
\* others (onComplete, onDisconnect, onApplicationShutdown).
Alone(o) == \A p \in Operations \ {o} : KeyOf(p) = KeyOf(o) => op[p].uses \in {NoContainer, p}
ScopesCoverOperations ==
  /\ \A o \in Operations :
       /\ disposals[o] <= 1
       /\ op[o].pc \in {"context", "running"} /\ Alone(o) /\ socket[SocketOf[o]] = "open" => disposals[o] = 0
       /\ op[o].uses = o /\ (op[o].pc = "over" \/ socket[SocketOf[o]] = "gone") => disposals[o] = 1
  /\ \A s \in Sockets : Cardinality({k \in OfSocket(s) : containers[k] # NoContainer}) <= MaxOperations

\* A request that is over has disposed of its container, and has read its body to
\* the end or cancelled it; its client has left or has its answer, unless the
\* body failed under it (writeFetchResponseStream, disposeOperationContainer).
RequestsWindUp ==
  request.pc = "over" =>
    /\ request.container # "open" /\ request.body # "open"
    /\ request.client = "waits" => request.body \in {"failed", "cancelled"}

AllSettled ==
  /\ \A s \in Sockets : socket[s] # "closing"
  /\ shutdown \in {"no", "done"} /\ \A o \in Operations : op[o].pc # "completing"
  /\ request.client = "left" => request.pc \in {"fetching", "over"}
=============================================================================
