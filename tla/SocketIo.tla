------------------------------- MODULE SocketIo -------------------------------
(***************************************************************************)
(* SocketIoLifecycleService (packages/socket.io) over one namespace with   *)
(* one gateway.  The connection guard answers, the gateway is resolved,    *)
(* and only then the socket has listeners; what comes while the connect    *)
(* handlers run is buffered and replayed after them, what comes later is   *)
(* handled at once, beside what is still replayed.  Nobody asks for the    *)
(* server after the shutdown; rooms, payloads, CORS and the engine under   *)
(* Socket.IO are left out.                                                 *)
(***************************************************************************)
EXTENDS Naturals, Sequences

CONSTANTS Clients,
          Limit,       \* maxPendingMessagesPerSocket
          Policy,      \* overflowPolicy
          MaxMessages  \* bound: messages of a client

SocketIoAssumption ==
  /\ Limit \in Nat \ {0} /\ MaxMessages \in Nat
  /\ Policy \in {"drop-oldest", "drop-newest", "close"}

VARIABLES
  bound,     \* per client: where its connection is
  connected, \* the sockets that are
  known,     \* socketRegistry
  pending,   \* per client: bufferedMessages
  told,      \* clients with bufferedDisconnect
  came,      \* per client: the messages it has sent, which are numbered
  under,     \* per client: messages whose guard or handlers run
  replay,    \* per client: the message that is replayed, 0 if none
  leaving,   \* per client: the disconnect handlers
  ioStop     \* runShutdownLifecycle

ioVars == <<bound, connected, known, pending, told, came, under, replay, leaving, ioStop>>

SocketIoTypeOK ==
  /\ bound \in [Clients -> {"no", "guard", "resolving", "connecting", "replaying", "parting", "ready", "refused"}]
  /\ {connected, known, told} \subseteq SUBSET Clients
  /\ pending \in [Clients -> Seq(1..MaxMessages)]
  /\ {came, replay} \subseteq [Clients -> 0..MaxMessages]
  /\ under \in [Clients -> SUBSET (1..MaxMessages)]
  /\ leaving \in [Clients -> {"no", "running", "done"}]
  /\ ioStop \in {"no", "closing", "ended"}

Init ==
  /\ bound = [c \in Clients |-> "no"] /\ connected = {} /\ known = {} /\ told = {}
  /\ pending = [c \in Clients |-> <<>>] /\ came = [c \in Clients |-> 0]
  /\ under = [c \in Clients |-> {}] /\ replay = [c \in Clients |-> 0]
  /\ leaving = [c \in Clients |-> "no"] /\ ioStop = "no"

Goes(c, place) == bound' = [bound EXCEPT ![c] = place]

---------------------------------------------------------------------------
(* Connection *)

Connects(c) ==
  /\ bound[c] = "no" /\ ioStop = "no" /\ Goes(c, "guard")
  /\ UNCHANGED <<connected, known, pending, told, came, under, replay, leaving, ioStop>>

\* runConnectionGuard: true or nothing lets the socket in.
GuardEnds(c, ok) ==
  /\ bound[c] = "guard"
  /\ IF ok /\ ioStop = "no" THEN Goes(c, "resolving") /\ connected' = connected \cup {c}
                            ELSE Goes(c, "refused") /\ UNCHANGED connected
  /\ UNCHANGED <<known, pending, told, came, under, replay, leaving, ioStop>>

\* The gateways are resolved, or skipped; the socket is registered and has listeners.
Resolved(c) ==
  /\ bound[c] = "resolving" /\ Goes(c, "connecting") /\ known' = known \cup {c}
  /\ UNCHANGED <<connected, pending, told, came, under, replay, leaving, ioStop>>

Ready(c) == bound[c] \in {"replaying", "parting", "ready"}

\* handlersReady, and the replay begins.
Connected(c) ==
  /\ bound[c] = "connecting" /\ Goes(c, "replaying")
  /\ UNCHANGED <<connected, known, pending, told, came, under, replay, leaving, ioStop>>

\* replayBufferedConnectionEvents: the next message, the disconnect, the end.
Replays(c) ==
  /\ bound[c] = "replaying" /\ replay[c] = 0
  /\ IF pending[c] # <<>>
     THEN /\ replay' = [replay EXCEPT ![c] = Head(pending[c])]
          /\ pending' = [pending EXCEPT ![c] = Tail(@)]
          /\ under' = [under EXCEPT ![c] = @ \cup {Head(pending[c])}]
          /\ UNCHANGED <<bound, known, told, leaving>>
     ELSE /\ IF c \in told THEN Goes(c, "parting") /\ leaving' = [leaving EXCEPT ![c] = "running"]
                           ELSE Goes(c, "ready") /\ UNCHANGED leaving
          /\ told' = told \ {c}
          /\ known' = IF c \notin told /\ c \notin connected THEN known \ {c} ELSE known
          /\ UNCHANGED <<replay, pending, under>>
  /\ UNCHANGED <<connected, came, ioStop>>

---------------------------------------------------------------------------
(* Messages *)

\* The disconnect event: unheard before the socket has listeners.
Parts(c) ==
  /\ connected' = connected \ {c}
  /\ told' = IF bound[c] = "connecting" THEN told \cup {c} ELSE told
  /\ leaving' = [leaving EXCEPT ![c] = IF Ready(c) THEN "running" ELSE @]

Full(c) == Len(pending[c]) >= Limit
Buffers(c, m) ==
  /\ pending' = [pending EXCEPT ![c] =
       IF ~Full(c) THEN Append(@, m)
       ELSE CASE Policy = "close" -> <<>> [] Policy = "drop-newest" -> @ [] OTHER -> Append(Tail(@), m)]
  /\ IF Full(c) /\ Policy = "close" THEN Parts(c) /\ known' = known \ {c}
                                    ELSE UNCHANGED <<connected, told, leaving, known>>

Message(c) ==
  /\ c \in connected /\ came[c] < MaxMessages
  /\ came' = [came EXCEPT ![c] = @ + 1]
  /\ IF bound[c] = "connecting" THEN Buffers(c, came'[c]) /\ UNCHANGED under
     ELSE /\ under' = [under EXCEPT ![c] = IF Ready(c) THEN @ \cup {came'[c]} ELSE @]
          /\ UNCHANGED <<pending, connected, told, leaving, known>>
  /\ UNCHANGED <<bound, replay, ioStop>>

\* The handlers of a message end, or its guard rejects it and may disconnect.
Handled(c, m, disconnects) ==
  /\ m \in under[c] /\ (disconnects => c \in connected)
  /\ under' = [under EXCEPT ![c] = @ \ {m}]
  /\ replay' = [replay EXCEPT ![c] = IF @ = m THEN 0 ELSE @]
  /\ IF disconnects THEN Parts(c) ELSE UNCHANGED <<connected, told, leaving>>
  /\ UNCHANGED <<bound, known, pending, came, ioStop>>

Disconnects(c) ==
  /\ c \in connected /\ Parts(c)
  /\ UNCHANGED <<bound, known, pending, came, under, replay, ioStop>>

Left(c) ==
  /\ leaving[c] = "running" /\ leaving' = [leaving EXCEPT ![c] = "done"] /\ known' = known \ {c}
  /\ bound' = [bound EXCEPT ![c] = IF @ = "parting" THEN "ready" ELSE @]
  /\ UNCHANGED <<connected, pending, told, came, under, replay, ioStop>>

\* The socket's error event.
Errs(c) ==
  /\ c \in connected /\ bound[c] # "resolving" /\ c \in known /\ known' = known \ {c}
  /\ UNCHANGED <<bound, connected, pending, told, came, under, replay, leaving, ioStop>>

\* A room helper looks for the socket (resolveSocket).
Finds(c) ==
  /\ c \in connected /\ ioStop # "ended" /\ c \notin known /\ known' = known \cup {c}
  /\ UNCHANGED <<bound, connected, pending, told, came, under, replay, leaving, ioStop>>

---------------------------------------------------------------------------
(* Shutdown *)

\* io.close() disconnects every socket and calls back, or takes too long.
Shutdown ==
  /\ ioStop = "no" /\ ioStop' = "closing"
  /\ UNCHANGED <<bound, connected, known, pending, told, came, under, replay, leaving>>

Ends(late) ==
  /\ ioStop = "closing" /\ (late \/ connected = {}) /\ ioStop' = "ended" /\ known' = {}
  /\ UNCHANGED <<bound, connected, pending, told, came, under, replay, leaving>>

Next ==
  \/ \E c \in Clients :
       \/ Connects(c) \/ Resolved(c) \/ Connected(c) \/ Replays(c) \/ Message(c)
       \/ Disconnects(c) \/ Left(c) \/ Errs(c) \/ Finds(c)
       \/ \E ok \in BOOLEAN : GuardEnds(c, ok) \/ \E m \in under[c] : Handled(c, m, ok)
  \/ Shutdown \/ \E late \in BOOLEAN : Ends(late)

\* Guards and handlers end, the server disconnects what it closes, timers fire.
Due ==
  \/ \E c \in Clients :
       \/ Resolved(c) \/ Connected(c) \/ Replays(c) \/ Left(c) \/ (ioStop # "no" /\ Disconnects(c))
       \/ \E ok \in BOOLEAN : GuardEnds(c, ok) \/ \E m \in under[c] : Handled(c, m, ok)
  \/ \E late \in BOOLEAN : Ends(late)
Spec == Init /\ [][Next]_ioVars /\ WF_ioVars(Due)

---------------------------------------------------------------------------
(* Properties *)

\* No handler of a message or of the disconnect runs before the connect handlers
\* are over (handlersReady); what is replayed keeps its order; the buffer keeps
\* its limit.
ReadyFirst ==
  \A c \in Clients :
    /\ under[c] # {} \/ leaving[c] # "no" => Ready(c)
    /\ LET line == (IF replay[c] = 0 THEN <<>> ELSE <<replay[c]>>) \o pending[c]
       IN \A i, j \in DOMAIN line : i < j => line[i] < line[j]
    /\ Len(pending[c]) <= Limit

\* Once a connection is over and its handlers are, the registry has forgotten it,
\* though it broke before it was registered.
RegistryForgets ==
  \A c \in Clients : bound[c] = "ready" /\ c \notin connected /\ leaving[c] # "running" => c \notin known

\* In the end a shutdown is over, and every connection that broke is over and,
\* but for one that broke before it had listeners, its handlers were told.
AllSettled ==
  /\ ioStop # "closing"
  /\ ioStop = "ended" => connected = {}
  /\ \A c \in Clients : c \notin connected /\ bound[c] # "no" =>
       bound[c] \in {"refused", "ready"} /\ leaving[c] # "running"
=============================================================================
