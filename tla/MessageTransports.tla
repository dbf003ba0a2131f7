-------------------------- MODULE MessageTransports --------------------------
(***************************************************************************)
(* MicroserviceLifecycleService and the transports below it: TCP, NATS,    *)
(* Kafka, RabbitMQ and MQTT, which answer requests, and Redis Pub/Sub,     *)
(* which has events alone (packages/microservices).  A send registers a    *)
(* pending request, publishes its frame one microtask later, and settles   *)
(* with the reply, a timeout, an abort, or the close of the transport.     *)
(* Frames and replies may be lost, late or duplicated.  The transport      *)
(* serves its own requests.  Payloads, patterns and handler scopes are     *)
(* left out; the events of the other transports, which nobody waits for,   *)
(* and the clients that MQTT opens itself, too.                            *)
(***************************************************************************)
EXTENDS Naturals

CONSTANTS Requests,
          Listeners,  \* calls of listen()
          Transport,  \* "tcp", "nats", "kafka", "rabbitmq", "mqtt" or "redis"
          MaxCloses

Brokers == {"kafka", "rabbitmq", "mqtt"}
TransportAssumption == Transport \in Brokers \cup {"tcp", "nats", "redis"} /\ MaxCloses \in Nat

VARIABLES
  service,    \* lifecycleState of the service
  open,       \* its listening
  caller,     \* per call of listen(): what became of it
  attempt,    \* listenPromise: "none" or "running"
  listening, closing, handler,  \* the transport's
  stop,       \* where close() is
  closes,     \* how often it was called
  frame,      \* per request: its frame
  pending,    \* requests registered and not settled
  aborted,    \* requests whose signal is aborted
  serving,    \* per request: the handler
  replies     \* replies on their way

svcVars == <<service, open, caller, attempt, stop, closes>>
linkVars == <<listening, closing, handler>>
reqVars == <<frame, pending, aborted, serving, replies>>
transportVars == <<svcVars, linkVars, reqVars>>

TransportTypeOK ==
  /\ service \in {"created", "starting", "ready", "stopping", "stopped", "failed"}
  /\ {open, listening, closing, handler} \subseteq BOOLEAN
  /\ caller \in [Listeners -> {"no", "waiting", "ok", "failed"}]
  /\ attempt \in {"none", "running"}
  /\ stop \in {"no", "waiting", "detaching", "ended", "failed"} /\ closes \in 0..MaxCloses
  /\ frame \in [Requests -> {"no", "refused", "waiting", "deferred", "connecting", "dropped", "published", "served"}]
  /\ {pending, aborted, replies} \subseteq SUBSET Requests
  /\ serving \in [Requests -> {"no", "running", "done"}]

Init ==
  /\ service = "created" /\ open = FALSE /\ attempt = "none" /\ stop = "no" /\ closes = 0
  /\ caller = [l \in Listeners |-> "no"]
  /\ listening = FALSE /\ closing = FALSE /\ handler = FALSE
  /\ frame = [r \in Requests |-> "no"] /\ pending = {} /\ aborted = {}
  /\ serving = [r \in Requests |-> "no"] /\ replies = {}

\* Microtasks run before the event loop's next step.
Quiet == \A r \in Requests : frame[r] # "deferred"

---------------------------------------------------------------------------
(* listen *)

\* Mutant: the service waits for nobody and starts each time.
JoinsNever == FALSE
Joins == attempt = "running"

Settled(l, outcome) == [caller EXCEPT ![l] = outcome]
Listen(l) ==
  /\ caller[l] = "no"
  /\ IF open THEN caller' = Settled(l, "ok") /\ UNCHANGED <<service, attempt, linkVars>>
     ELSE IF Joins THEN caller' = Settled(l, "waiting") /\ UNCHANGED <<service, attempt, linkVars>>
     ELSE IF Transport = "tcp" /\ closing  \* for good
     THEN /\ caller' = Settled(l, "failed") /\ service' = "failed"
          /\ UNCHANGED <<attempt, linkVars>>
     ELSE /\ caller' = Settled(l, "waiting") /\ service' = "starting" /\ attempt' = "running"
          /\ closing' = FALSE /\ handler' = TRUE
          /\ listening' = (Transport = "nats" \/ listening)
  /\ UNCHANGED <<open, stop, closes, reqVars>>

\* listenPromise settles: the subscriptions are made, or one failed and the ones
\* before it are undone.  A close() that waits goes on, or fails with it.
ListenEnds(ok) ==
  /\ attempt = "running" /\ attempt' = "none" /\ (Transport = "nats" => ok) /\ Quiet
  /\ caller' = [l \in Listeners |-> IF caller[l] = "waiting" THEN (IF ok THEN "ok" ELSE "failed") ELSE caller[l]]
  /\ IF ok THEN /\ service' = (IF stop = "waiting" THEN "stopping" ELSE "ready") /\ open' = TRUE
                /\ listening' = TRUE /\ closing' = (stop = "waiting")
                /\ stop' = (IF stop = "waiting" THEN "detaching" ELSE stop)
           ELSE /\ service' = "failed"
                /\ stop' = (IF stop = "waiting" THEN "failed" ELSE stop)
                /\ UNCHANGED <<open, listening, closing>>
  \* RabbitMQ's send waits for listenPromise and then looks at listening.
  /\ frame' = [r \in Requests |-> IF frame[r] # "waiting" THEN frame[r] ELSE IF ok THEN "deferred" ELSE "refused"]
  /\ pending' = IF ok THEN pending \cup {r \in Requests : frame[r] = "waiting"} ELSE pending
  /\ UNCHANGED <<closes, handler, aborted, serving, replies>>

---------------------------------------------------------------------------
(* close *)

\* Mutant: requests whose frame is published stay pending.
UnsettledPublished == {r \in pending : frame[r] = "published"}
\* Brokers reject what is pending; TCP leaves it to the timers.
UnsettledByClose == IF Transport = "tcp" THEN pending ELSE {}

Detached(ok) ==
  /\ listening' = FALSE /\ handler' = (Transport = "tcp" /\ handler)
  /\ pending' = UnsettledByClose
  /\ stop' = (IF ok THEN "ended" ELSE "failed")
  /\ service' = (IF ok THEN "stopped" ELSE "failed") /\ open' = (~ok /\ open)

\* A transport that does not listen, and NATS, close at once.
Close ==
  /\ stop \notin {"waiting", "detaching"} /\ closes < MaxCloses /\ closes' = closes + 1
  /\ IF attempt = "running"
     THEN stop' = "waiting" /\ UNCHANGED <<service, open, linkVars, pending>>
     ELSE /\ closing' = TRUE
          /\ IF ~listening THEN Detached(TRUE)
             ELSE IF Transport = "nats" THEN \E ok \in BOOLEAN : Detached(ok)
             ELSE stop' = "detaching" /\ service' = "stopping" /\ UNCHANGED <<open, listening, handler, pending>>
  /\ UNCHANGED <<caller, attempt, frame, aborted, serving, replies>>

\* The consumers are cancelled, or the server is closed.
Detaches(ok) ==
  /\ stop = "detaching" /\ Quiet /\ Detached(ok)
  /\ UNCHANGED <<caller, attempt, closes, closing, frame, aborted, serving, replies>>

---------------------------------------------------------------------------
(* send *)

Send(r) ==
  /\ frame[r] = "no" /\ Transport # "redis"
  /\ IF closing THEN frame' = [frame EXCEPT ![r] = "refused"] /\ UNCHANGED pending
     ELSE IF Transport = "rabbitmq" /\ attempt = "running"
     THEN frame' = [frame EXCEPT ![r] = "waiting"] /\ UNCHANGED pending
     ELSE IF ~listening THEN frame' = [frame EXCEPT ![r] = "refused"] /\ UNCHANGED pending
     ELSE /\ frame' = [frame EXCEPT ![r] = IF Transport = "tcp" THEN "connecting" ELSE "deferred"]
          /\ pending' = pending \cup {r}
  /\ UNCHANGED <<svcVars, linkVars, aborted, serving, replies>>

\* emit() of Redis Pub/Sub, which needs no listen().
Emit(r, ok) ==
  /\ frame[r] = "no" /\ Transport = "redis"
  /\ frame' = [frame EXCEPT ![r] = IF closing THEN "refused" ELSE IF ok THEN "published" ELSE "dropped"]
  /\ UNCHANGED <<svcVars, linkVars, pending, aborted, serving, replies>>

\* Mutant: nobody looks whether the request is over already.
PublishesAlways(r) == TRUE
\* Kafka and MQTT look at closing alone.
Publishes(r) == ~closing /\ (Transport \in {"nats", "rabbitmq"} => r \in pending)

\* The microtask of send(); it also rejects when publishing fails.
Publish(r, ok) ==
  /\ frame[r] = "deferred"
  /\ IF Publishes(r)
     THEN /\ frame' = [frame EXCEPT ![r] = IF ok THEN "published" ELSE "dropped"]
          /\ pending' = IF ok THEN pending ELSE pending \ {r}
     ELSE ok /\ frame' = [frame EXCEPT ![r] = "dropped"] /\ pending' = pending \ {r}
  /\ UNCHANGED <<svcVars, linkVars, aborted, serving, replies>>

\* The socket of a TCP request connects, if it is not destroyed yet.
Connects(r, ok) ==
  /\ frame[r] = "connecting" /\ r \in pending
  /\ frame' = [frame EXCEPT ![r] = IF ok /\ listening THEN "published" ELSE "dropped"]
  /\ pending' = IF ok THEN pending ELSE pending \ {r}
  /\ UNCHANGED <<svcVars, linkVars, aborted, serving, replies>>

Aborts(r) ==
  /\ r \in pending \ aborted /\ frame[r] # "waiting"
  /\ aborted' = aborted \cup {r} /\ pending' = pending \ {r}
  /\ UNCHANGED <<svcVars, linkVars, frame, serving, replies>>

\* Mutant: only requests whose frame is out have a timer.
TimedSent(r) == frame[r] = "served"
\* The transport's timer, or the NATS client's.
Timed(r) == r \in pending /\ frame[r] # "deferred"
TimesOut(r) ==
  /\ r \in pending /\ Timed(r) /\ Quiet /\ pending' = pending \ {r}
  /\ UNCHANGED <<svcVars, linkVars, frame, aborted, serving, replies>>

---------------------------------------------------------------------------
(* The serving side and the broker *)

\* A frame arrives, for the first time or again, and starts the handler.
Arrives(r) ==
  /\ frame[r] = "published" /\ serving[r] # "running" /\ Quiet
  /\ listening \/ (Transport = "redis" /\ attempt = "running")  \* Redis has subscribed already
  /\ Transport = "tcp" => ~closing /\ r \in pending
  /\ IF handler THEN serving' = [serving EXCEPT ![r] = "running"] ELSE UNCHANGED serving
  /\ \/ frame' = [frame EXCEPT ![r] = "served"]
     \/ Transport \in Brokers /\ UNCHANGED frame
  /\ UNCHANGED <<svcVars, linkVars, pending, aborted, replies>>

\* A result or an error; both are answered, if it is a request.
HandlerEnds(r) ==
  /\ serving[r] = "running" /\ Quiet
  /\ serving' = [serving EXCEPT ![r] = "done"] /\ replies' = (IF Transport = "redis" THEN replies ELSE replies \cup {r})
  /\ UNCHANGED <<svcVars, linkVars, frame, pending, aborted>>

\* A reply arrives and may come again; one for no pending request is dropped.
ReplyArrives(r) ==
  /\ r \in replies /\ Quiet /\ (Transport \in Brokers => listening)
  /\ pending' = pending \ {r}
  /\ \/ replies' = replies \ {r}
     \/ Transport \in Brokers /\ r \in pending /\ UNCHANGED replies
  /\ UNCHANGED <<svcVars, linkVars, frame, aborted, serving>>

Next ==
  \/ \E l \in Listeners : Listen(l)
  \/ \E ok \in BOOLEAN : ListenEnds(ok) \/ Detaches(ok)
  \/ Close
  \/ \E r \in Requests :
       \/ Send(r) \/ Aborts(r) \/ TimesOut(r) \/ Arrives(r) \/ HandlerEnds(r) \/ ReplyArrives(r)
       \/ \E ok \in BOOLEAN : Publish(r, ok) \/ Connects(r, ok) \/ Emit(r, ok)

\* Timers fire, microtasks run and brokers answer a subscription; nothing says
\* that a frame or a reply arrives or that a handler ends.
Due ==
  \/ \E ok \in BOOLEAN : ListenEnds(ok) \/ \E r \in Requests : Publish(r, ok)
  \/ \E r \in Requests : TimesOut(r)
Spec == Init /\ [][Next]_transportVars /\ WF_transportVars(Due)

---------------------------------------------------------------------------
(* Properties *)

\* A ready service has a transport that listens and a handler; once a close has
\* ended no request is pending, whenever it was sent ("reject in-flight
\* requests"), but for those of TCP, which time out.
ReadyIsListening == service = "ready" => listening /\ handler /\ ~closing
ClosedLeavesNoRequest == closing /\ stop \in {"ended", "failed"} /\ Transport # "tcp" => pending = {}
ServiceMatchesTransport == ReadyIsListening /\ ClosedLeavesNoRequest

\* No frame goes out once close() has begun ("instead of publishing work into a
\* shutting-down lifecycle"), nor, with NATS and RabbitMQ, for a request that is
\* over; no handler begins once the transport is closed.
PublishesWhat(r) == frame[r] \in {"no", "deferred"} /\ frame'[r] = "published"
Begins(r) == serving[r] # "running" /\ serving'[r] = "running"
NoWorkOnceOver ==
  \A r \in Requests :
    /\ PublishesWhat(r) => ~closing /\ (Transport \in {"nats", "rabbitmq"} => r \in pending)
    /\ Begins(r) => ~(closing /\ stop \in {"ended", "failed"})

\* In the end every request is settled, though its frame or reply is lost or no
\* handler ends.
AllSettled == \A r \in Requests : r \notin pending /\ frame[r] # "waiting"
=============================================================================
