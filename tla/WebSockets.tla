------------------------------ MODULE WebSockets ------------------------------
(***************************************************************************)
(* The gateway services of packages/websockets for Node, Bun, Deno and     *)
(* Cloudflare Workers: a client takes a slot, passes the guard and is      *)
(* bound; its connect handlers run while its messages wait; then message   *)
(* handlers run one at a time and, last, the disconnect handlers.          *)
(* Shutdown waits for upgrades, closes the sockets and waits for their     *)
(* handlers, each for a bounded time.  One path and one gateway; rooms,    *)
(* payload parsing and the listener of an owned server are left out, and   *)
(* heartbeat and backpressure are one action that terminates a socket.     *)
(***************************************************************************)
EXTENDS Integers, FiniteSets, Sequences

CONSTANTS Clients,
          Runtime,        \* "node", "bun", "deno" or "workers"
          MaxConnections,
          Limit,          \* maxPendingMessagesPerSocket
          Policy,         \* overflowPolicy
          MaxMessages     \* bound: messages of a client

SocketsAssumption ==
  /\ Runtime \in {"node", "bun", "deno", "workers"}
  /\ MaxConnections \in Nat \ {0} /\ Limit \in Nat \ {0} /\ MaxMessages \in Nat
  /\ Policy \in {"drop-oldest", "drop-newest", "close"}

VARIABLES
  socket,    \* per client: its socket
  slots,     \* pendingUpgradeReservations
  registry,  \* socketRegistry
  bind,      \* per client: where bindConnectionHandlers is
  early,     \* per client: bufferedMessages
  queue,     \* per client: queuedMessages
  busy,      \* per client: the message whose handlers run, 0 if none
  sent,      \* per client: the messages it has sent, which are numbered
  farewell,  \* per client: the disconnect handlers
  halt,      \* where runShutdownLifecycle is
  waits,     \* the clients it waits for
  hurried    \* history: one of its waits timed out

socketVars == <<socket, slots, registry, bind, early, queue, busy, sent, farewell, halt, waits, hurried>>

SocketsTypeOK ==
  /\ socket \in [Clients -> {"no", "guard", "opening", "open", "closing", "closed", "refused"}]
  /\ slots \in Nat /\ registry \subseteq Clients
  /\ bind \in [Clients -> {"no", "connecting", "draining", "parting", "leaving", "bound"}]
  /\ {early, queue} \subseteq [Clients -> Seq(1..MaxMessages)]
  /\ {busy, sent} \subseteq [Clients -> 0..MaxMessages]
  /\ farewell \in [Clients -> {"no", "buffered", "queued", "running", "done"}]
  /\ halt \in {"no", "upgrades", "sockets", "servers", "ended"}
  /\ waits \subseteq Clients /\ hurried \in BOOLEAN

Init ==
  /\ socket = [c \in Clients |-> "no"] /\ slots = 0 /\ registry = {}
  /\ bind = [c \in Clients |-> "no"]
  /\ early = [c \in Clients |-> <<>>] /\ queue = [c \in Clients |-> <<>>]
  /\ busy = [c \in Clients |-> 0] /\ sent = [c \in Clients |-> 0]
  /\ farewell = [c \in Clients |-> "no"]
  /\ halt = "no" /\ waits = {} /\ hurried = FALSE

ShuttingDown == halt # "no"
Settled(c) == bind[c] = "bound" /\ farewell[c] = "done"
\* socketStates: those of Node stay until their handlers are over.
Tracked == IF Runtime = "node" THEN {c \in Clients : bind[c] # "no" /\ ~Settled(c)} ELSE registry

---------------------------------------------------------------------------
(* Upgrade *)

\* Mutant: upgrades under way are not counted.
ReservedByOpen == Cardinality(registry)
Reserved == Cardinality(registry) + slots
Release == slots' = IF slots > 0 THEN slots - 1 ELSE 0

Upgrade(c) ==
  /\ socket[c] = "no"
  /\ IF ShuttingDown \/ Reserved >= MaxConnections
       THEN socket' = [socket EXCEPT ![c] = "refused"] /\ UNCHANGED slots
       ELSE socket' = [socket EXCEPT ![c] = "guard"] /\ slots' = slots + 1
  /\ UNCHANGED <<registry, bind, early, queue, busy, sent, farewell, halt, waits, hurried>>

\* bindConnectionHandlers up to its first await.
Registers(c) ==
  /\ Release /\ registry' = registry \cup {c}
  /\ bind' = [bind EXCEPT ![c] = "connecting"]

\* Node's and the Workers' socket is open when it is bound, Deno's opens with the
\* response, and Bun binds it when it has opened.
NodeAdmits(c) == socket' = [socket EXCEPT ![c] = "open"] /\ Registers(c)
WorkersAdmits(c) == socket' = [socket EXCEPT ![c] = "open"] /\ Registers(c)
DenoAdmits(c) == socket' = [socket EXCEPT ![c] = "opening"] /\ Registers(c)
BunAdmits(c) == socket' = [socket EXCEPT ![c] = "opening"] /\ UNCHANGED <<slots, registry, bind>>
Admits(c) ==
  CASE Runtime = "node" -> NodeAdmits(c) [] Runtime = "bun" -> BunAdmits(c)
    [] Runtime = "deno" -> DenoAdmits(c) [] OTHER -> WorkersAdmits(c)

\* The guard answers.
GuardEnds(c, ok) ==
  /\ socket[c] = "guard"
  /\ IF ok /\ ~ShuttingDown THEN Admits(c)
     ELSE socket' = [socket EXCEPT ![c] = "refused"] /\ Release /\ UNCHANGED <<registry, bind>>
  /\ UNCHANGED <<early, queue, busy, sent, farewell, halt, waits, hurried>>

\* The client is gone, or its handshake is bad: the ws library drops the socket
\* without a word, and its slot is never released; other hosts throw.
Vanishes(c) ==
  /\ socket[c] = "guard" /\ ~ShuttingDown
  /\ socket' = [socket EXCEPT ![c] = "refused"]
  /\ IF Runtime = "node" THEN UNCHANGED slots ELSE Release
  /\ UNCHANGED <<registry, bind, early, queue, busy, sent, farewell, halt, waits, hurried>>

BunOpens(c) ==
  /\ socket[c] = "opening" /\ socket' = [socket EXCEPT ![c] = "open"] /\ Registers(c)
  /\ UNCHANGED <<early, queue, busy, sent, farewell, halt, waits, hurried>>

DenoOpens(c) ==
  /\ socket[c] = "opening" /\ socket' = [socket EXCEPT ![c] = "open"]
  /\ UNCHANGED <<slots, registry, bind, early, queue, busy, sent, farewell, halt, waits, hurried>>

---------------------------------------------------------------------------
(* Messages *)

\* Each sets the queues and says whether the socket is closed for it.
Buffer(c, m) ==
  /\ early' = [early EXCEPT ![c] =
       IF Len(@) < Limit THEN Append(@, m)
       ELSE CASE Policy = "close" -> <<>> [] Policy = "drop-newest" -> @ [] OTHER -> Append(Tail(@), m)]
  /\ socket' = [socket EXCEPT ![c] = IF Len(early[c]) >= Limit /\ Policy = "close" THEN "closing" ELSE @]
  /\ UNCHANGED <<queue, busy, registry>>

Enqueue(c, m) ==
  LET full == Len(queue[c]) >= Limit
      closes == full /\ Policy = "close"
  IN /\ IF busy[c] = 0 THEN busy' = [busy EXCEPT ![c] = m] /\ UNCHANGED queue
        ELSE /\ queue' = [queue EXCEPT ![c] =
                  IF ~full THEN Append(@, m)
                  ELSE CASE closes -> <<>> [] Policy = "drop-newest" -> @ [] OTHER -> Append(Tail(@), m)]
             /\ UNCHANGED busy
     /\ socket' = [socket EXCEPT ![c] = IF closes THEN "closing" ELSE @]
     /\ registry' = IF closes THEN registry \ {c} ELSE registry
     /\ UNCHANGED early

Message(c) ==
  /\ socket[c] \in {"open", "closing"} /\ sent[c] < MaxMessages
  /\ sent' = [sent EXCEPT ![c] = @ + 1]
  /\ IF bind[c] = "connecting" THEN Buffer(c, sent[c] + 1) ELSE Enqueue(c, sent[c] + 1)
  /\ UNCHANGED <<slots, bind, farewell, halt, waits, hurried>>

\* A message that is too large closes the socket.
Oversized(c) ==
  /\ socket[c] = "open" /\ socket' = [socket EXCEPT ![c] = "closing"]
  /\ UNCHANGED <<slots, registry, bind, early, queue, busy, sent, farewell, halt, waits, hurried>>

\* drainMessageQueue: the handlers of a message settle; failures are logged.
Handled(c) ==
  /\ busy[c] # 0
  /\ IF queue[c] = <<>> THEN busy' = [busy EXCEPT ![c] = 0] /\ UNCHANGED queue
     ELSE busy' = [busy EXCEPT ![c] = Head(queue[c])] /\ queue' = [queue EXCEPT ![c] = Tail(@)]
  /\ UNCHANGED <<socket, slots, registry, bind, early, sent, farewell, halt, waits, hurried>>

---------------------------------------------------------------------------
(* Connect, disconnect *)

\* Mutant: what waited is handled after what comes later.
ReplayedLast(c) == <<>>
\* The connect handlers settle and what waited is enqueued.
Replayed(c) == early[c]
Connected(c) ==
  /\ bind[c] = "connecting"
  /\ bind' = [bind EXCEPT ![c] = IF farewell[c] = "buffered" THEN "parting" ELSE "draining"]
  /\ farewell' = [farewell EXCEPT ![c] = IF @ = "buffered" THEN "queued" ELSE @]
  /\ IF Replayed(c) = <<>> THEN UNCHANGED <<queue, busy>>
     ELSE busy' = [busy EXCEPT ![c] = Head(Replayed(c))] /\ queue' = [queue EXCEPT ![c] = Tail(Replayed(c))]
  /\ early' = [early EXCEPT ![c] = <<>>]
  /\ registry' = IF Runtime = "node" /\ socket[c] # "open" THEN registry \ {c} ELSE registry
  /\ UNCHANGED <<socket, slots, sent, halt, waits, hurried>>

\* The queue that bindConnectionHandlers waits for is empty; when the service
\* shuts down it closes the socket itself.
BindEnds(c) ==
  /\ bind[c] \in {"draining", "parting"} /\ busy[c] = 0
  /\ bind[c] = "parting" => farewell[c] = "done"
  /\ IF ShuttingDown /\ socket[c] = "open"
     THEN bind' = [bind EXCEPT ![c] = "leaving"] /\ socket' = [socket EXCEPT ![c] = "closing"]
     ELSE bind' = [bind EXCEPT ![c] = "bound"] /\ UNCHANGED socket
  /\ UNCHANGED <<slots, registry, early, queue, busy, sent, farewell, halt, waits, hurried>>

Left(c) ==
  /\ bind[c] = "leaving" /\ farewell[c] = "done" /\ bind' = [bind EXCEPT ![c] = "bound"]
  /\ UNCHANGED <<socket, slots, registry, early, queue, busy, sent, farewell, halt, waits, hurried>>

\* The socket's error event, the heartbeat, or backpressure with "close".
Terminates(c) ==
  /\ socket[c] \in {"open", "closing"} /\ c \in registry
  /\ socket' = [socket EXCEPT ![c] = "closing"] /\ registry' = registry \ {c}
  /\ UNCHANGED <<slots, bind, early, queue, busy, sent, farewell, halt, waits, hurried>>

\* The socket's close event.
Closed(c) ==
  /\ socket[c] \in {"open", "closing"} /\ socket' = [socket EXCEPT ![c] = "closed"]
  /\ registry' = registry \ {c}
  /\ farewell' = [farewell EXCEPT ![c] = IF bind[c] = "connecting" THEN "buffered" ELSE "queued"]
  /\ UNCHANGED <<slots, bind, early, queue, busy, sent, halt, waits, hurried>>

\* Mutant: the disconnect handlers do not wait for those of messages.
MayPartAtOnce(c) == TRUE
MayPart(c) == busy[c] = 0

Farewell(c) ==
  /\ farewell[c] = "queued" /\ MayPart(c) /\ farewell' = [farewell EXCEPT ![c] = "running"]
  /\ UNCHANGED <<socket, slots, registry, bind, early, queue, busy, sent, halt, waits, hurried>>

FarewellEnds(c) ==
  /\ farewell[c] = "running" /\ farewell' = [farewell EXCEPT ![c] = "done"]
  /\ UNCHANGED <<socket, slots, registry, bind, early, queue, busy, sent, halt, waits, hurried>>

---------------------------------------------------------------------------
(* Shutdown *)

\* pendingUpgradeOperations: the guards and, but for Node, what binds.
Upgrades == {c \in Clients :
  socket[c] = "guard" \/ (Runtime = "bun" /\ socket[c] = "opening")
    \/ (Runtime # "node" /\ bind[c] \notin {"no", "bound"})}

Shutdown ==
  /\ halt = "no" /\ halt' = "upgrades" /\ waits' = Upgrades
  /\ UNCHANGED <<socket, slots, registry, bind, early, queue, busy, sent, farewell, hurried>>

\* Mutant: sockets whose close event has come are not waited for.
ToAwaitOpen == registry
ToAwait == Tracked
UpgradesOver(timedOut) ==
  /\ halt = "upgrades"
  /\ IF timedOut THEN waits # {} ELSE waits \cap Upgrades = {}
  /\ halt' = "sockets" /\ hurried' = timedOut /\ waits' = ToAwait
  /\ socket' = [c \in Clients |-> IF socket[c] = "open" /\ (Runtime = "node" \/ c \in registry)
                                  THEN "closing" ELSE socket[c]]
  /\ UNCHANGED <<slots, registry, bind, early, queue, busy, sent, farewell>>

Forgets == registry' = {} /\ slots' = 0
SocketsOver(timedOut) ==
  /\ halt = "sockets"
  /\ IF timedOut THEN waits # {} ELSE \A c \in waits : Settled(c)
  /\ hurried' = (hurried \/ timedOut)
  /\ IF Runtime = "node" THEN halt' = "servers" /\ UNCHANGED <<registry, slots>>
                         ELSE halt' = "ended" /\ Forgets
  /\ UNCHANGED <<socket, bind, early, queue, busy, sent, farewell, waits>>

\* The close() of Node's WebSocketServer calls back without clients.
ServersOver(timedOut) ==
  /\ halt = "servers" /\ halt' = "ended" /\ Forgets
  /\ timedOut \/ \A c \in Clients : socket[c] \notin {"open", "closing"}
  /\ hurried' = (hurried \/ timedOut)
  /\ UNCHANGED <<socket, bind, early, queue, busy, sent, farewell, waits>>

---------------------------------------------------------------------------
(* The hosts, each with a service of its own *)

AsksIn(c) == Upgrade(c) \/ Vanishes(c) \/ \E ok \in BOOLEAN : GuardEnds(c, ok)
Converses(c) == Message(c) \/ Oversized(c) \/ Handled(c)
Binds(c) == Connected(c) \/ BindEnds(c) \/ Left(c) \/ Farewell(c) \/ FarewellEnds(c)
Parts(c) == Terminates(c) \/ Closed(c)
Waits(late) == UpgradesOver(late) \/ SocketsOver(late)

BunGuard(c) == AsksIn(c)
BunMessages(c) == Converses(c)
BunHandlers(c) == Binds(c)
BunParts(c) == Parts(c)
BunHalts(late) == Waits(late)

DenoGuard(c) == AsksIn(c)
DenoMessages(c) == Converses(c)
DenoHandlers(c) == Binds(c)
DenoParts(c) == Parts(c)
DenoHalts(late) == Waits(late)

WorkersGuard(c) == AsksIn(c)
WorkersMessages(c) == Converses(c)
WorkersHandlers(c) == Binds(c)
WorkersParts(c) == Parts(c)
WorkersHalts(late) == Waits(late)

NodeStep(c) == AsksIn(c) \/ Converses(c) \/ Binds(c) \/ Parts(c)
BunStep(c) == BunGuard(c) \/ BunOpens(c) \/ BunMessages(c) \/ BunHandlers(c) \/ BunParts(c)
DenoStep(c) == DenoGuard(c) \/ DenoOpens(c) \/ DenoMessages(c) \/ DenoHandlers(c) \/ DenoParts(c)
WorkersStep(c) == WorkersGuard(c) \/ WorkersMessages(c) \/ WorkersHandlers(c) \/ WorkersParts(c)

HaltStep ==
  \E late \in BOOLEAN :
    \/ Runtime = "node" /\ (Waits(late) \/ ServersOver(late))
    \/ Runtime = "bun" /\ BunHalts(late)
    \/ Runtime = "deno" /\ DenoHalts(late)
    \/ Runtime = "workers" /\ WorkersHalts(late)

Next ==
  \/ \E c \in Clients :
       \/ Runtime = "node" /\ NodeStep(c)
       \/ Runtime = "bun" /\ BunStep(c)
       \/ Runtime = "deno" /\ DenoStep(c)
       \/ Runtime = "workers" /\ WorkersStep(c)
  \/ Shutdown \/ HaltStep

HandlerStep(c) == Handled(c) \/ Connected(c) \/ FarewellEnds(c)
Microtask(c) == BindEnds(c) \/ Left(c) \/ Farewell(c)

\* Timers fire, promises settle, handlers end and a close handshake ends, by a
\* timer of the host if not by the client.
Due ==
  HaltStep \/ \E c \in Clients : HandlerStep(c) \/ Microtask(c) \/ (socket[c] = "closing" /\ Closed(c))
Spec == Init /\ [][Next]_socketVars /\ WF_socketVars(Due)

---------------------------------------------------------------------------
(* Properties *)

\* The handlers of a connection see its messages in the order in which they
\* came, those before the connect handlers ended too, and the disconnect
\* handlers after all of them (replayBufferedConnectionEvents, handlerQueue).
HandlersInOrder ==
  \A c \in Clients :
    LET line == (IF busy[c] = 0 THEN <<>> ELSE <<busy[c]>>) \o queue[c] \o early[c]
    IN /\ \A i, j \in DOMAIN line : i < j => line[i] < line[j]
       /\ farewell[c] \in {"running", "done"} => line = <<>> /\ bind[c] # "connecting"
       /\ bind[c] # "connecting" => early[c] = <<>>

\* Connections and upgrades under way keep the limit, and so do the queues
\* (tryReserveUpgradeSlot, maxPendingMessagesPerSocket).
WithinLimits ==
  /\ Cardinality(registry) + slots <= MaxConnections
  /\ \A c \in Clients : Len(queue[c]) <= Limit /\ Len(early[c]) <= Limit

\* When none of its waits timed out, shutdown ends with every socket closed and
\* every disconnect handler done; and but for Node those that were closed
\* before it began are not waited for.
AllLeft == \A c \in Clients : socket[c] # "guard" /\ (bind[c] # "no" => socket[c] = "closed" /\ Settled(c))
ShutdownDrains == Runtime = "node" /\ halt = "ended" /\ ~hurried => AllLeft

\* In the end shutdown is over, every connection that closed was told to its
\* disconnect handlers, and one that was opened across the shutdown is closed;
\* but with Deno one that was bound before it opened.
AllSettled ==
  /\ halt \in {"no", "ended"}
  /\ \A c \in Clients :
       /\ socket[c] = "closed" => farewell[c] = "done"
       /\ halt = "ended" /\ Runtime # "deno" => socket[c] # "open"
=============================================================================
