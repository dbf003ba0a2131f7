---------------------------- MODULE NetworkProofs ----------------------------
(***************************************************************************)
(* Proofs about what listens on the network: RedisStreams, which it        *)
(* extends, and, each as an instance of its own,                           *)
(* HttpHosts, WebSockets, MessageTransports, MessageHandlers, SocketIo,    *)
(* GrpcTransport and GraphqlOperations.                                    *)
(* Each section states the inductive invariant of its component, the       *)
(* lemmas about its steps, and the theorems, for every value of the        *)
(* constants that the named assumptions of the component admit.            *)
(***************************************************************************)
EXTENDS RedisStreams, Integers, Sequences, FiniteSetTheorems, TLAPS

---------------------------------------------------------------------------
\* RedisStreams.  A loop of a listener runs only while the listener has
\* its handler (HandlerInv), and answers or acknowledges only what it has
\* handled (AckInv).

LoopStates == {"off", Idle, "handling", "replying", "acking"}

LoopsTyped ==
  /\ attempt \in [Listeners -> {"none"} \cup Streams]
  /\ stop \in [Listeners -> {"no", "waiting", "looping", "destroying", "ended"}]
  /\ loop \in [Listeners -> [Streams -> LoopStates]]
  /\ at = [c \in Listeners |-> [s \in Streams |-> at[c][s]]]

EntryStates == {"no", "new", "read", "acked"}
DataTyped == entry \in [Messages -> EntryStates] /\ event \in [Listeners -> [Events -> EntryStates]]

\* A listener has a handler from listen() until its loops are over: no loop
\* acknowledges entries for want of a handler.
HandlerInv ==
  \A c \in Listeners :
    /\ attempt[c] # "none" => c \in handler /\ stop[c] \in {"no", "waiting"}
    /\ stop[c] \in {"destroying", "ended"} => \A s \in Streams : loop[c][s] = "off"
    /\ \A s \in Streams : loop[c][s] # "off" => c \in handler

\* A loop that answers or acknowledges an entry has handled it.
AckInv ==
  \A c \in Listeners, s \in Streams \ {"responses"} :
    loop[c][s] \in {"replying", "acking"} => <<s, c, at[c][s]>> \in handled

StreamsInv == LoopsTyped /\ DataTyped /\ HandlerInv /\ AckInv /\ AckedWasHandled

\* What listen(), close() and their steps do to the loops of a listener.
LEMMA LifeKeeps ==
  ASSUME StreamsInv, NEW c \in Listeners,
         \/ Listen(c) \/ Close(c) \/ LoopsEnded(c)
         \/ \E ok \in BOOLEAN : ListenStep(c, ok)
         \/ \E kept \in SUBSET groups[c] : Destroys(c, kept)
  PROVE  StreamsInv'
<1> USE DEF StreamsInv, Streams
<1>1. CASE Listen(c)
  <2>1. /\ stop[c] = "no" /\ handler' = handler \cup {c} /\ attempt' = [attempt EXCEPT ![c] = "messages"]
        /\ UNCHANGED <<stop, loop, at, entry, event, handled>>
    BY <1>1 DEF Listen, loopVars, dataVars
  <2>2. LoopsTyped' /\ DataTyped' /\ AckInv' /\ AckedWasHandled'
    BY <2>1 DEF LoopsTyped, DataTyped, AckInv, AckedWasHandled
  <2>3. HandlerInv'
    BY <2>1 DEF LoopsTyped, HandlerInv
  <2> QED
    BY <2>2, <2>3
<1>2. CASE Close(c)
  <2>1. /\ stop[c] = "no" /\ UNCHANGED <<handler, attempt, loop, at, entry, event, handled>>
        /\ \E to \in {"waiting", "looping"} : stop' = [stop EXCEPT ![c] = to] /\ (attempt[c] # "none" => to = "waiting")
    BY <1>2 DEF Close, loopVars, dataVars
  <2>2. LoopsTyped' /\ DataTyped' /\ AckInv' /\ AckedWasHandled'
    BY ZenonT(60), <2>1 DEF LoopsTyped, DataTyped, AckInv, AckedWasHandled
  <2>3. HandlerInv'
    BY <2>1 DEF LoopsTyped, HandlerInv
  <2> QED
    BY <2>2, <2>3
<1>3. CASE LoopsEnded(c)
  <2>1. /\ stop[c] = "looping" /\ stop' = [stop EXCEPT ![c] = "destroying"] /\ LoopsOver(c)
        /\ UNCHANGED <<handler, attempt, loop, at, entry, event, handled>>
    BY <1>3 DEF LoopsEnded, loopVars, dataVars
  <2>2. LoopsTyped' /\ DataTyped' /\ AckInv' /\ AckedWasHandled'
    BY <2>1 DEF LoopsTyped, DataTyped, AckInv, AckedWasHandled
  <2>3. HandlerInv'
    BY <2>1 DEF LoopsTyped, HandlerInv, LoopsOver
  <2> QED
    BY <2>2, <2>3
<1>4. ASSUME NEW ok \in BOOLEAN, ListenStep(c, ok) PROVE StreamsInv'
  <2>1. /\ attempt[c] # "none" /\ UNCHANGED <<handler, at, event, entry, handled>>
        /\ \E to \in {"none"} \cup Streams : attempt' = [attempt EXCEPT ![c] = to]
        /\ \/ UNCHANGED loop
           \/ attempt'[c] = "none" /\ loop' = [loop EXCEPT ![c] = [s \in Streams |-> Idle]]
        /\ \/ UNCHANGED stop
           \/ attempt'[c] = "none" /\ \E to \in {"looping", "no"} : stop' = [stop EXCEPT ![c] = to]
    <3>1. PICK to \in {"none"} \cup Streams :
             attempt' = [attempt EXCEPT ![c] = to] /\ (ok /\ attempt[c] = "responses" => to = "none")
      <4>1. CASE ~ok
        BY <1>4, <4>1 DEF ListenStep, LoopsTyped
      <4>2. CASE ok /\ attempt[c] = "messages"
        BY <1>4, <4>2 DEF ListenStep, LoopsTyped
      <4>3. CASE ok /\ attempt[c] = "events"
        BY <1>4, <4>3 DEF ListenStep, LoopsTyped
      <4>4. CASE ok /\ attempt[c] = "responses"
        BY <1>4, <4>4 DEF ListenStep, LoopsTyped
      <4> QED
        BY <1>4, <4>1, <4>2, <4>3, <4>4 DEF ListenStep, LoopsTyped
    <3>2. attempt'[c] = to
      BY <3>1 DEF LoopsTyped
    <3>3. \/ UNCHANGED stop
          \/ attempt'[c] = "none" /\ \E nx \in {"looping", "no"} : stop' = [stop EXCEPT ![c] = nx]
      BY <1>4 DEF ListenStep, LoopsTyped
    <3>4. \/ UNCHANGED loop
          \/ attempt'[c] = "none" /\ loop' = [loop EXCEPT ![c] = [s \in Streams |-> Idle]]
      BY <1>4, <3>1, <3>2 DEF ListenStep
    <3> QED
      BY <1>4, <3>1, <3>3, <3>4 DEF ListenStep, dataVars
  <2>2. LoopsTyped'
    <3>1. [s \in Streams |-> Idle] \in [Streams -> LoopStates]
      BY DEF LoopStates
    <3>2. loop' \in [Listeners -> [Streams -> LoopStates]]
      BY <2>1, <3>1 DEF LoopsTyped
    <3>3. attempt' \in [Listeners -> {"none"} \cup Streams]
      BY <2>1 DEF LoopsTyped
    <3>4. stop' \in [Listeners -> {"no", "waiting", "looping", "destroying", "ended"}]
      BY <2>1 DEF LoopsTyped
    <3> QED
      BY <2>1, <3>2, <3>3, <3>4 DEF LoopsTyped
  <2>3. HandlerInv'
    BY <2>1 DEF LoopsTyped, HandlerInv
  <2>4. \A d \in Listeners, s \in Streams : loop'[d][s] \in {loop[d][s], Idle}
    <3>1. CASE UNCHANGED loop
      BY <3>1
    <3>2. CASE loop' = [loop EXCEPT ![c] = [s \in Streams |-> Idle]]
      BY <3>2 DEF LoopsTyped
    <3> QED
      BY <2>1, <3>1, <3>2
  <2>5. DataTyped' /\ AckInv' /\ AckedWasHandled'
    BY <2>1, <2>4 DEF DataTyped, AckInv, AckedWasHandled, Idle
  <2> QED
    BY <2>2, <2>3, <2>5
<1>5. ASSUME NEW kept \in SUBSET groups[c], Destroys(c, kept) PROVE StreamsInv'
  <2>1. /\ stop[c] = "destroying" /\ stop' = [stop EXCEPT ![c] = "ended"] /\ handler' = handler \ {c}
        /\ UNCHANGED <<attempt, loop, at, entry, event, handled>>
    BY <1>5 DEF Destroys, loopVars
  <2>2. LoopsTyped' /\ DataTyped' /\ AckInv' /\ AckedWasHandled'
    BY <2>1 DEF LoopsTyped, DataTyped, AckInv, AckedWasHandled
  <2>3. HandlerInv'
    BY <2>1 DEF LoopsTyped, HandlerInv
  <2> QED
    BY <2>2, <2>3
<1> QED
  BY <1>1, <1>2, <1>3, <1>4, <1>5

\* A loop's own step: what it does, with which entry, and what it marks.
LEMMA MarksActed ==
  ASSUME StreamsInv, NEW c \in Listeners, NEW s \in Streams, NEW ids, NEW state \in {"read", "acked"},
         Marks(c, s, ids, state), handled' = handled,
         state = "acked" /\ s # "responses" => \A id \in ids : <<s, c, id>> \in handled
  PROVE  AckedWasHandled' /\ DataTyped'
<1> USE DEF StreamsInv, DataTyped, Streams
<1>1. DataTyped'
  BY DEF Marks, EntryStates
<1>2. ASSUME NEW m \in Messages, entry'[m] = "acked" PROVE \E d \in Listeners : <<"messages", d, m>> \in handled
  <2>1. CASE s = "messages" /\ m \in ids
    BY <1>2, <2>1 DEF Marks
  <2>2. CASE ~(s = "messages" /\ m \in ids)
    BY <1>2, <2>2 DEF Marks, AckedWasHandled
  <2> QED
    BY <2>1, <2>2
<1>3. ASSUME NEW d \in Listeners, NEW e \in Events, event'[d][e] = "acked" PROVE <<"events", d, e>> \in handled
  <2>1. CASE s = "events" /\ d = c
    BY <1>3, <2>1 DEF Marks, AckedWasHandled
  <2>2. CASE ~(s = "events" /\ d = c)
    BY <1>3, <2>2 DEF Marks, AckedWasHandled
  <2> QED
    BY <2>1, <2>2
<1> QED
  BY <1>1, <1>2, <1>3 DEF AckedWasHandled

LEMMA DoesTyped ==
  ASSUME StreamsInv, NEW c \in Listeners, NEW s \in Streams, NEW what \in LoopStates, NEW rest,
         NEW id, Does(c, s, what, rest, id),
         UNCHANGED <<attempt, stop, handler>>, handled \subseteq handled',
         loop[c][s] # "off",
         what \in {"replying", "acking"} /\ s # "responses" => <<s, c, id>> \in handled'
  PROVE  LoopsTyped' /\ HandlerInv' /\ AckInv'
<1> USE DEF StreamsInv, LoopsTyped, Does
<1>0. at' = [d \in Listeners |-> [u \in Streams |-> at'[d][u]]]
  OBVIOUS
<1>1. LoopsTyped'
  BY <1>0
<1>2. \A d \in Listeners, u \in Streams :
        /\ loop'[d][u] = IF d = c /\ u = s THEN what ELSE loop[d][u]
        /\ at'[d][u] = IF d = c /\ u = s THEN id ELSE at[d][u]
  OBVIOUS
<1>3. HandlerInv'
  BY <1>2 DEF HandlerInv
<1>4. AckInv'
  BY <1>2 DEF AckInv
<1> QED
  BY <1>1, <1>3, <1>4

LEMMA LoopKeeps ==
  ASSUME StreamsInv, NEW c \in Listeners, NEW s \in Streams, LoopStep(c, s)
  PROVE  StreamsInv'
<1> USE DEF StreamsInv
<1>1. CASE Read(c, s)
  BY <1>1, MarksActed, DoesTyped DEF Read, Between, lifeVars, LoopStates, Idle
<1>2. CASE LoopEnds(c, s)
  <2>1. AckedWasHandled' /\ DataTyped'
    BY <1>2 DEF LoopEnds, dataVars, AckedWasHandled, DataTyped
  <2> QED
    BY <1>2, <2>1, DoesTyped DEF LoopEnds, Between, lifeVars, dataVars, LoopStates, LoopsTyped, Idle
<1>3. CASE Handle(c, s)
  <2> DEFINE what == IF s # "responses" /\ c \in handler THEN "handling" ELSE "acking"
  <2>1. what \in LoopStates /\ (what = "acking" => s = "responses")
    BY <1>3 DEF Handle, HandlerInv, LoopStates, Idle
  <2>2. AckedWasHandled' /\ DataTyped' /\ UNCHANGED <<attempt, stop, handler, handled>>
    BY <1>3 DEF Handle, lifeVars, AckedWasHandled, DataTyped
  <2>3. \E id : Does(c, s, what, batch[c][s] \ {id}, id)
    BY <1>3 DEF Handle
  <2>4. loop[c][s] # "off" /\ what # "replying"
    BY <1>3 DEF Handle, Idle
  <2> HIDE DEF what
  <2> QED
    BY <2>1, <2>2, <2>3, <2>4, DoesTyped
<1>4. CASE Ack(c, s)
  <2>1. /\ loop[c][s] = "acking" /\ UNCHANGED <<attempt, stop, handler, handled>>
        /\ \E what \in {Idle, "off"} : \E rest : Does(c, s, what, rest, 0)
    BY <1>4 DEF Ack, Abandons, lifeVars, Onward
  <2>2. CASE Marks(c, s, {at[c][s]}, "acked")
    <3>1. AckedWasHandled' /\ DataTyped'
      BY <2>1, <2>2, MarksActed DEF AckInv
    <3> QED
      BY <2>1, <3>1, DoesTyped DEF LoopStates, Idle
  <2>3. CASE UNCHANGED <<entry, event, response>>
    <3>1. AckedWasHandled' /\ DataTyped'
      BY <2>1, <2>3 DEF AckedWasHandled, DataTyped
    <3> QED
      BY <2>1, <3>1, DoesTyped DEF LoopStates, Idle
  <2> QED
    BY <1>4, <2>2, <2>3 DEF Ack
<1> QED
  BY <1>1, <1>2, <1>3, <1>4 DEF LoopStep

\* The end of a handler and the answer to a request.
LEMMA HandlingKeeps ==
  ASSUME StreamsInv, NEW c \in Listeners,
         Reply(c) \/ \E s \in Streams, ok \in BOOLEAN : HandlerEnds(c, s, ok)
  PROVE  StreamsInv'
<1> USE DEF StreamsInv
<1>1. CASE Reply(c)
  <2>1. /\ loop[c]["messages"] = "replying" /\ UNCHANGED <<attempt, stop, handler, handled, entry, event>>
        /\ AckedWasHandled' /\ DataTyped'
    BY <1>1 DEF Reply, lifeVars, AckedWasHandled, DataTyped
  <2>2. CASE Abandons(c, "messages")
    BY <2>1, <2>2, DoesTyped DEF Abandons, Onward, LoopStates, Idle, Streams, LoopsTyped
  <2>3. CASE loop' = [loop EXCEPT ![c]["messages"] = "acking"] /\ UNCHANGED at
    <3>1. \A d \in Listeners, u \in Streams :
            loop'[d][u] = IF d = c /\ u = "messages" THEN "acking" ELSE loop[d][u]
      BY <2>3 DEF LoopsTyped, Streams
    <3>2. LoopsTyped'
      BY <2>1, <2>3 DEF LoopsTyped, Streams, LoopStates
    <3>3. HandlerInv'
      BY <2>1, <3>1 DEF HandlerInv, Streams
    <3>4. AckInv'
      BY <2>1, <2>3, <3>1 DEF AckInv, Streams
    <3> QED
      BY <2>1, <3>2, <3>3, <3>4
  <2> QED
    BY <1>1, <2>2, <2>3 DEF Reply
<1>2. ASSUME NEW s \in Streams, NEW ok \in BOOLEAN, HandlerEnds(c, s, ok) PROVE StreamsInv'
  <2>1. PICK what \in {"replying", "acking", "off", Idle} :
          /\ loop[c][s] = "handling" /\ loop' = [loop EXCEPT ![c][s] = what]
          /\ UNCHANGED <<attempt, stop, handler, entry, event>> /\ handled \subseteq handled'
          /\ what \in {"replying", "acking"} => at' = at /\ <<s, c, at[c][s]>> \in handled'
    <3>1. loop[c][s] = "handling" /\ UNCHANGED <<attempt, stop, handler, entry, event>> /\ handled \subseteq handled'
      BY <1>2 DEF HandlerEnds, lifeVars
    <3>2. CASE AfterHandler(s, ok) = Idle
      BY <1>2, <3>1, <3>2 DEF HandlerEnds, Onward, Idle
    <3>3. CASE AfterHandler(s, ok) # Idle
      <4>1. AfterHandler(s, ok) \in {"replying", "acking"} /\ (s = "messages" \/ ok)
        BY <3>3 DEF AfterHandler
      <4>2. loop' = [loop EXCEPT ![c][s] = AfterHandler(s, ok)] /\ <<s, c, at[c][s]>> \in handled'
        BY <1>2, <3>3, <4>1 DEF HandlerEnds
      <4>3. at' = at
        <5>1. at' = [at EXCEPT ![c][s] = @]
          BY <1>2, <3>3 DEF HandlerEnds
        <5> QED
          BY <5>1 DEF LoopsTyped
      <4> QED
        BY <3>1, <4>1, <4>2, <4>3
    <3> QED
      BY <3>2, <3>3
  <2>2. \E id : at' = [at EXCEPT ![c][s] = id]
    BY <1>2 DEF HandlerEnds
  <2>3. \A d \in Listeners, u \in Streams :
          /\ loop'[d][u] = IF d = c /\ u = s THEN what ELSE loop[d][u]
          /\ d # c \/ u # s => at'[d][u] = at[d][u]
    BY <2>1, <2>2 DEF LoopsTyped
  <2>4. LoopsTyped'
    <3>1. at' = [d \in Listeners |-> [u \in Streams |-> at'[d][u]]]
      BY <2>2 DEF LoopsTyped
    <3>2. loop' \in [Listeners -> [Streams -> LoopStates]]
      BY <2>1 DEF LoopsTyped, LoopStates
    <3> QED
      BY <2>1, <3>1, <3>2 DEF LoopsTyped
  <2>5. HandlerInv'
    BY <2>1, <2>3 DEF HandlerInv
  <2>6. AckInv'
    BY <2>1, <2>3 DEF AckInv, Idle
  <2>7. AckedWasHandled' /\ DataTyped'
    BY <2>1 DEF AckedWasHandled, DataTyped
  <2> QED
    BY <2>4, <2>5, <2>6, <2>7
<1> QED
  BY <1>1, <1>2

\* Sending, waiting and emitting.
LEMMA SendKeeps ==
  ASSUME StreamsInv,
         (\E m \in Messages : Send(m) \/ Expires(m)) \/ (\E e \in Events : Emit(e)) \/ UNCHANGED streamVars
  PROVE  StreamsInv'
<1> USE DEF StreamsInv
<1>1. UNCHANGED <<lifeVars, loopVars, handled>>
  BY DEF Send, Expires, Emit, streamVars, dataVars
<1>2. HandlerInv' /\ AckInv'
  BY <1>1 DEF lifeVars, loopVars, HandlerInv, AckInv
<1>3. /\ event' \in [Listeners -> [Events -> EntryStates]]
      /\ \A c \in Listeners, e \in Events : event'[c][e] = "acked" => event[c][e] = "acked"
  <2>1. CASE \E e \in Events : Emit(e)
    BY <2>1 DEF Emit, DataTyped, EntryStates
  <2>2. CASE UNCHANGED event
    BY <2>2 DEF DataTyped
  <2> QED
    BY <2>1, <2>2 DEF Send, Expires, streamVars, dataVars
<1>4. /\ entry' \in [Messages -> EntryStates]
      /\ \A m \in Messages : entry'[m] = "acked" => entry[m] = "acked"
  <2>1. CASE UNCHANGED entry
    BY <2>1 DEF DataTyped
  <2>2. CASE \E m \in Messages : entry' = [entry EXCEPT ![m] = "new"]
    BY <2>2 DEF DataTyped, EntryStates
  <2>3. UNCHANGED entry \/ \E m \in Messages : entry' = [entry EXCEPT ![m] = "new"]
    BY DEF Send, Expires, Emit, streamVars, dataVars
  <2> QED
    BY <2>1, <2>2, <2>3
<1>5. LoopsTyped' /\ DataTyped'
  BY <1>1, <1>3, <1>4 DEF lifeVars, loopVars, LoopsTyped, DataTyped
<1>6. AckedWasHandled'
  BY <1>1, <1>3, <1>4 DEF AckedWasHandled
<1> QED
  BY <1>2, <1>5, <1>6

\* Nothing is acknowledged before its handler is done, for every number of
\* listeners, requests and events, whatever fails and whoever closes.
THEOREM HandledBeforeAck == Spec => []AckedWasHandled
<1>1. Init => StreamsInv
  BY DEF Init, StreamsInv, LoopsTyped, DataTyped, EntryStates, HandlerInv, AckInv, AckedWasHandled, LoopStates, Streams
<1>2. StreamsInv /\ [Next]_streamVars => StreamsInv'
  BY LifeKeeps, LoopKeeps, HandlingKeeps, SendKeeps DEF Next, ListenerStep
<1>3. StreamsInv => AckedWasHandled
  BY DEF StreamsInv
<1> QED
  BY <1>1, <1>2, <1>3, PTL DEF Spec

---------------------------------------------------------------------------
\* HttpHosts.  QuietInv holds of an adapter whose dispatcher is gone.

CONSTANTS Host, Requests, Closers, RetryLimit, Binding
VARIABLES dispatcher, server, bound, closeInFlight, isClosed, attempts, listener, closer, req
Hosts == INSTANCE HttpHosts

\* The adapters of the Node family do not share a close(): a second one finds the
\* server not listening, returns at once and releases the dispatcher.
ClosesOnce == Host \in {"node", "express", "fastify"} => \A c, d \in Closers : c = d
HostTyped ==
  /\ dispatcher \in BOOLEAN /\ bound \in BOOLEAN /\ closeInFlight \in BOOLEAN
  /\ server \in {"off", "binding", "delay", "on", "stopping", "lingering"}
  /\ listener \in {"idle", "waiting", "done", "failed"}
  /\ closer \in [Closers -> {"idle", "waiting", "done", "failed"}]
  /\ req = [r \in Requests |-> req[r]]

ListenInv ==
  /\ listener = "idle" => closeInFlight = FALSE /\ (Host # "workers" => server = "off")
  /\ \A c \in Closers : closer[c] # "idle" => listener # "idle"
  /\ closeInFlight = TRUE => listener \in {"done", "failed"}
  /\ Host = "workers" => server = "on"
  /\ Host \in Hosts!NodeFamily /\ server \in {"stopping", "lingering"} => \E c \in Closers : closer[c] # "idle"

\* Without a dispatcher nothing is active, and Fastify's server lets nothing in.
QuietInv ==
  /\ \A c \in Closers : closer[c] = "done" => dispatcher = FALSE
  /\ dispatcher = FALSE => Hosts!Active = {}
  /\ server \in {"off", "binding", "delay"} => Hosts!Busy = {}
  /\ Host \in {"bun", "deno"} /\ bound = FALSE => server = "off" \/ dispatcher = FALSE
  /\ Host = "fastify" /\ dispatcher = FALSE => listener # "waiting" /\ server \in {"off", "binding", "delay"}
  /\ \A r \in Requests : req[r] = "accepted" => Host \in {"fastify", "bun"}

HostsInv == HostTyped /\ ListenInv /\ QuietInv

LEMMA HostsInitial == Hosts!HostsAssumption /\ Hosts!Init => HostsInv
BY DEF Hosts!HostsAssumption, Hosts!Init, HostsInv, HostTyped, ListenInv, QuietInv, Hosts!Active, Hosts!Busy, Hosts!NodeFamily

LEMMA HostTypedStep ==
  ASSUME Hosts!HostsAssumption, HostTyped, [Hosts!Next]_(Hosts!hostVars)
  PROVE  HostTyped'
<1> USE DEF HostTyped
<1>1. CASE Hosts!Listen
  BY <1>1 DEF Hosts!Listen, Hosts!NodeListen, Hosts!BunListen, Hosts!DenoListen, Hosts!WorkersListen
<1>2. CASE Hosts!Binds \/ Hosts!Retries \/ Hosts!StopsListening
  BY <1>2 DEF Hosts!Binds, Hosts!Retries, Hosts!StopsListening
<1>3. CASE Hosts!DrainEnds \/ Hosts!ShutdownFails \/ Hosts!ForceCloses
  BY <1>3 DEF Hosts!DrainEnds, Hosts!ShutdownFails, Hosts!ForceCloses, Hosts!Cut, Hosts!Settle, Hosts!Released
<1>4. ASSUME NEW r \in Requests, Hosts!Arrives(r) \/ Hosts!Proceeds(r) \/ Hosts!Handled(r)
      PROVE  HostTyped'
  BY <1>4 DEF Hosts!Arrives, Hosts!Proceeds, Hosts!Handled, Hosts!NodeHandle, Hosts!FastifyHandle, Hosts!BunHandle,
      Hosts!DenoHandle, Hosts!WorkersFetch
<1>5. ASSUME NEW c \in Closers, Hosts!Close(c) \/ Hosts!TimesOut(c) PROVE HostTyped'
  BY <1>5 DEF Hosts!Close, Hosts!NodeClose, Hosts!ExpressClose, Hosts!FastifyClose, Hosts!BunClose, Hosts!DenoClose,
      Hosts!WorkersClose, Hosts!ClosesNothing, Hosts!BeginsClosing, Hosts!JoinsClosing, Hosts!TimesOut
<1>6. CASE UNCHANGED Hosts!hostVars
  BY <1>6 DEF Hosts!hostVars
<1> QED
  BY <1>1, <1>2, <1>3, <1>4, <1>5, <1>6 DEF Hosts!Next, Hosts!Due

\* What is busy or active after a step was before, unless a request arrives or proceeds.
LEMMA Serving ==
  ASSUME HostTyped, NEW r \in Requests, Hosts!Arrives(r) \/ Hosts!Proceeds(r) \/ Hosts!Handled(r)
  PROVE  /\ UNCHANGED <<dispatcher, server, closeInFlight, listener, closer>>
         /\ \A q \in Requests : q # r => req'[q] = req[q]
         /\ req'[r] = "active" => dispatcher = TRUE
         /\ req'[r] = "accepted" => Host \in {"fastify", "bun"}
         /\ ~Hosts!Handled(r) /\ req'[r] = "notReady" => dispatcher = FALSE
         /\ server \in {"off", "binding", "delay"} => req[r] \in {"accepted", "active"}
         /\ bound' = bound \/ bound' = TRUE
BY DEF HostTyped, Hosts!Arrives, Hosts!Proceeds, Hosts!Handled, Hosts!NodeHandle, Hosts!FastifyHandle, Hosts!BunHandle,
      Hosts!DenoHandle, Hosts!WorkersFetch, Hosts!Dispatched

\* There is nothing to close: nothing is active.
LEMMA Nothing ==
  ASSUME Hosts!HostsAssumption, ClosesOnce, HostsInv, NEW c \in Closers, Hosts!Close(c), Hosts!ClosesNothing(c), dispatcher = TRUE,
         ~Hosts!BeginsClosing(c)
  PROVE  Hosts!Active = {} /\ (Host \in Hosts!NodeFamily => server \in {"off", "binding", "delay"})
<1> USE DEF HostsInv, HostTyped, Hosts!ClosesNothing
<1>1. CASE Host \in Hosts!NodeFamily
  <2>1. ~Hosts!Listening
    BY <1>1 DEF Hosts!Close, Hosts!NodeClose, Hosts!ExpressClose, Hosts!FastifyClose, Hosts!BunClose, Hosts!DenoClose,
      Hosts!WorkersClose, Hosts!NodeFamily, Hosts!JoinsClosing
  <2>2. closer[c] = "idle"
    BY DEF Hosts!Close
  <2>3. server \notin {"stopping", "lingering"}
    BY <1>1, <2>2 DEF ListenInv, ClosesOnce, Hosts!NodeFamily
  <2> QED
    BY <2>1, <2>3 DEF Hosts!Listening, QuietInv, Hosts!Active, Hosts!Busy
<1>2. CASE Host \in {"bun", "deno"}
  <2>1. bound = FALSE
    BY <1>2 DEF Hosts!Close, Hosts!NodeClose, Hosts!ExpressClose, Hosts!FastifyClose, Hosts!BunClose, Hosts!DenoClose,
      Hosts!WorkersClose, Hosts!JoinsClosing
  <2> QED
    BY <1>2, <2>1 DEF QuietInv, Hosts!Active, Hosts!Busy, Hosts!NodeFamily
<1>3. CASE Host = "workers"
  BY <1>3 DEF Hosts!Close, Hosts!NodeClose, Hosts!ExpressClose, Hosts!FastifyClose, Hosts!BunClose, Hosts!DenoClose,
      Hosts!WorkersClose, Hosts!JoinsClosing
<1> QED
  BY <1>1, <1>2, <1>3 DEF Hosts!HostsAssumption, Hosts!NodeFamily

LEMMA Closing ==
  ASSUME Hosts!HostsAssumption, NEW c \in Closers, Hosts!Close(c)
  PROVE  /\ UNCHANGED <<req, bound, listener>> /\ closer[c] = "idle" /\ listener \in {"done", "failed"}
         /\ Hosts!ClosesNothing(c) \/ Hosts!BeginsClosing(c) \/ Hosts!JoinsClosing(c)
BY DEF Hosts!HostsAssumption, Hosts!Close, Hosts!NodeClose, Hosts!ExpressClose, Hosts!FastifyClose, Hosts!BunClose, Hosts!DenoClose,
      Hosts!WorkersClose

LEMMA HostListens ==
  ASSUME Hosts!HostsAssumption, HostsInv, [Hosts!Next]_(Hosts!hostVars), HostTyped'
  PROVE  ListenInv'
<1> USE DEF HostsInv, HostTyped, ListenInv
<1>1. CASE Hosts!Listen
  BY <1>1 DEF Hosts!HostsAssumption, Hosts!Listen, Hosts!NodeListen, Hosts!BunListen, Hosts!DenoListen, Hosts!WorkersListen, Hosts!NodeFamily
<1>2. CASE Hosts!Binds \/ Hosts!Retries \/ Hosts!StopsListening
  BY <1>2 DEF Hosts!Binds, Hosts!Retries, Hosts!StopsListening, Hosts!NodeFamily
<1>3. CASE Hosts!DrainEnds \/ Hosts!ShutdownFails
  <2>1. /\ listener # "idle" /\ UNCHANGED listener /\ closeInFlight' = FALSE
        /\ \A c \in Closers : closer'[c] # "idle" <=> closer[c] # "idle"
        /\ server' = CASE Host \in Hosts!NodeFamily -> "off" [] Host = "workers" -> server [] OTHER -> "lingering"
    BY <1>3 DEF Hosts!DrainEnds, Hosts!ShutdownFails, Hosts!Settle, Hosts!Released
  <2> QED
    BY <2>1 DEF Hosts!NodeFamily
<1>4. CASE Hosts!ForceCloses
  BY <1>4 DEF Hosts!ForceCloses
<1>5. ASSUME NEW r \in Requests, Hosts!Arrives(r) \/ Hosts!Proceeds(r) \/ Hosts!Handled(r)
      PROVE  ListenInv'
  BY <1>5, Serving
<1>6. ASSUME NEW c \in Closers, Hosts!Close(c) PROVE ListenInv'
  <2>1. /\ UNCHANGED <<req, bound, listener>> /\ closer[c] = "idle" /\ listener \in {"done", "failed"}
        /\ Hosts!ClosesNothing(c) \/ Hosts!BeginsClosing(c) \/ Hosts!JoinsClosing(c)
    BY <1>6, Closing
  <2>2. /\ \A d \in Closers : closer[d] # "idle" => closer'[d] # "idle"
        /\ closer'[c] # "idle"
        /\ server' # server => server' = "stopping" /\ Host # "workers"
    BY <2>1 DEF Hosts!ClosesNothing, Hosts!BeginsClosing, Hosts!JoinsClosing
  <2> QED
    BY <2>1, <2>2
<1>7. ASSUME NEW c \in Closers, Hosts!TimesOut(c) PROVE ListenInv'
  BY <1>7 DEF Hosts!TimesOut
<1>8. CASE UNCHANGED Hosts!hostVars
  BY <1>8 DEF Hosts!hostVars
<1> QED
  BY <1>1, <1>2, <1>3, <1>4, <1>5, <1>6, <1>7, <1>8 DEF Hosts!Next, Hosts!Due

LEMMA QuietStep ==
  ASSUME Hosts!HostsAssumption, ClosesOnce, HostsInv, [Hosts!Next]_(Hosts!hostVars), HostTyped'
  PROVE  QuietInv'
<1> USE DEF HostsInv, HostTyped, QuietInv, Hosts!Active, Hosts!Busy
<1>1. CASE Hosts!Listen
  <2>1. /\ \A c \in Closers : closer[c] = "idle"
        /\ Host # "workers" => server = "off"
    BY <1>1 DEF Hosts!Listen, ListenInv
  <2>2. /\ UNCHANGED <<req, closer, closeInFlight>> /\ server' \in {server, "binding", "on"}
        /\ dispatcher' = TRUE \/ (UNCHANGED <<dispatcher, bound>> /\ Host = "workers")
        /\ Host = "workers" => server' = server
        /\ Host \in {"bun", "deno"} /\ bound' = FALSE => server' = server
    BY <1>1 DEF Hosts!HostsAssumption, Hosts!Listen, Hosts!NodeListen, Hosts!BunListen, Hosts!DenoListen,
      Hosts!WorkersListen, Hosts!NodeFamily
  <2>3. Hosts!Busy = {} \/ Host = "workers"
    BY <2>1
  <2>4. Host = "workers" => server' \notin {"off", "binding", "delay"}
    BY <2>2 DEF ListenInv
  <2> QED
    BY <2>1, <2>2, <2>3, <2>4
<1>2. CASE Hosts!Binds \/ Hosts!Retries \/ Hosts!StopsListening
  <2>1. UNCHANGED <<req, closer, closeInFlight, dispatcher, bound>>
    BY <1>2 DEF Hosts!Binds, Hosts!Retries, Hosts!StopsListening
  <2>2. /\ server' \in {"off", "binding", "delay"} => server \in {"off", "binding", "delay"}
        /\ server = "off" => server' = "off"
        /\ Host = "fastify" /\ dispatcher = FALSE => listener' = listener /\ server' \in {"off", "binding", "delay"}
    BY <1>2 DEF Hosts!Binds, Hosts!Retries, Hosts!StopsListening
  <2> QED
    BY <2>1, <2>2
<1>3. CASE Hosts!DrainEnds \/ Hosts!ShutdownFails
  <2>1. /\ dispatcher' = FALSE /\ UNCHANGED listener
        /\ server' = CASE Host \in Hosts!NodeFamily -> "off" [] Host = "workers" -> server [] OTHER -> "lingering"
    BY <1>3 DEF Hosts!DrainEnds, Hosts!ShutdownFails, Hosts!Released
  <2>2. Hosts!Active' = {} /\ (Host \in Hosts!NodeFamily => Hosts!Busy' = {})
    <3>1. CASE Hosts!DrainEnds
      BY <3>1 DEF Hosts!DrainEnds, Hosts!Drained
    <3>2. CASE Hosts!ShutdownFails
      BY <3>2 DEF Hosts!ShutdownFails, Hosts!Cut, Hosts!NodeFamily
    <3> QED
      BY <1>3, <3>1, <3>2
  <2>3. \A r \in Requests : req'[r] = "accepted" => req[r] = "accepted"
    BY <1>3 DEF Hosts!DrainEnds, Hosts!ShutdownFails, Hosts!Cut
  <2>4. Host = "workers" => server' \notin {"off", "binding", "delay"}
    BY <2>1 DEF ListenInv, Hosts!NodeFamily
  <2>5. Host = "fastify" => listener # "waiting"
    BY <1>3 DEF Hosts!DrainEnds, Hosts!ShutdownFails, ListenInv
  <2> QED
    BY <2>1, <2>2, <2>3, <2>4, <2>5 DEF Hosts!NodeFamily
<1>4. CASE Hosts!ForceCloses
  BY <1>4 DEF Hosts!ForceCloses, Hosts!Cut
<1>5. ASSUME NEW r \in Requests, Hosts!Arrives(r) \/ Hosts!Proceeds(r) \/ Hosts!Handled(r)
      PROVE  QuietInv'
  <2>1. /\ UNCHANGED <<dispatcher, server, closeInFlight, listener, closer>>
        /\ \A q \in Requests : q # r => req'[q] = req[q]
        /\ req'[r] = "active" => dispatcher = TRUE
        /\ req'[r] = "accepted" => Host \in {"fastify", "bun"}
        /\ bound' = bound \/ bound' = TRUE
    BY <1>5, Serving
  <2>2. server \in {"off", "binding", "delay"} => req[r] \notin {"accepted", "active"}
    OBVIOUS
  <2>3. server \in {"off", "binding", "delay"} => FALSE
    BY <1>5, <2>2, Serving
  <2> QED
    BY <2>1, <2>3
<1>6. ASSUME NEW c \in Closers, Hosts!Close(c) PROVE QuietInv'
  <2>1. /\ UNCHANGED <<req, bound, listener>> /\ closer[c] = "idle" /\ listener \in {"done", "failed"}
        /\ Hosts!ClosesNothing(c) \/ Hosts!BeginsClosing(c) \/ Hosts!JoinsClosing(c)
    BY <1>6, Closing
  <2>2. CASE Hosts!BeginsClosing(c) \/ Hosts!JoinsClosing(c)
    <3>1. /\ UNCHANGED dispatcher /\ closer' = [closer EXCEPT ![c] = "waiting"]
          /\ server' = server \/ server' = "stopping"
      BY <2>2 DEF Hosts!BeginsClosing, Hosts!JoinsClosing
    <3>2. Host = "fastify" /\ ~Hosts!JoinsClosing(c) => server \in {"on", "stopping"}
      BY <1>6, <2>2 DEF Hosts!Close, Hosts!NodeClose, Hosts!ExpressClose, Hosts!FastifyClose, Hosts!BunClose, Hosts!DenoClose,
           Hosts!WorkersClose, Hosts!Listening, Hosts!ClosesNothing, Hosts!BeginsClosing, Hosts!JoinsClosing
    <3>3. Host \in {"bun", "deno"} /\ ~Hosts!JoinsClosing(c) => bound = TRUE
      BY <1>6, <2>2 DEF Hosts!Close, Hosts!NodeClose, Hosts!ExpressClose, Hosts!FastifyClose, Hosts!BunClose, Hosts!DenoClose,
           Hosts!WorkersClose, Hosts!ClosesNothing, Hosts!BeginsClosing, Hosts!JoinsClosing
    <3>4. Hosts!JoinsClosing(c) => server' = server
      BY DEF Hosts!JoinsClosing
    <3> QED
      BY <2>1, <2>2, <3>1, <3>2, <3>3, <3>4
  <2>3. CASE Hosts!ClosesNothing(c)
    <3>1. dispatcher' = FALSE /\ closer' = [closer EXCEPT ![c] = "done"] /\ UNCHANGED <<server, closeInFlight>>
      BY <2>3 DEF Hosts!ClosesNothing
    <3>2. ~Hosts!BeginsClosing(c)
      BY <3>1 DEF Hosts!BeginsClosing
    <3>3. Hosts!Active = {} /\ (Host = "fastify" => server \in {"off", "binding", "delay"})
      BY <1>6, <2>3, <3>2, Nothing DEF Hosts!NodeFamily
    <3> QED
      BY <2>1, <3>1, <3>3
  <2> QED
    BY <2>1, <2>2, <2>3
<1>7. ASSUME NEW c \in Closers, Hosts!TimesOut(c) PROVE QuietInv'
  BY <1>7 DEF Hosts!TimesOut
<1>8. CASE UNCHANGED Hosts!hostVars
  BY <1>8 DEF Hosts!hostVars
<1> QED
  BY <1>1, <1>2, <1>3, <1>4, <1>5, <1>6, <1>7, <1>8 DEF Hosts!Next, Hosts!Due

LEMMA Admits ==
  ASSUME HostsInv, [Hosts!Next]_(Hosts!hostVars)
  PROVE  Hosts!KeepsAccepted
<1> SUFFICES ASSUME Host # "bun", NEW r \in Requests, req[r] = "accepted", req'[r] = "notReady"
             PROVE  FALSE
  BY DEF Hosts!KeepsAccepted
<1> USE DEF HostsInv, HostTyped
<1>1. dispatcher = TRUE
  BY DEF QuietInv, Hosts!Busy
<1>2. ASSUME NEW q \in Requests, Hosts!Arrives(q) \/ Hosts!Proceeds(q) \/ Hosts!Handled(q) PROVE FALSE
  <2>1. q = r
    BY <1>2, Serving
  <2>2. ~Hosts!Handled(q)
    BY <2>1 DEF Hosts!Handled
  <2> QED
    BY <1>1, <1>2, <2>1, <2>2, Serving
<1>3. req' = req \/ Hosts!Cut \/ \E q \in Requests : Hosts!Arrives(q) \/ Hosts!Proceeds(q) \/ Hosts!Handled(q)
  BY DEF Hosts!Next, Hosts!Due, Hosts!Listen, Hosts!Binds, Hosts!Retries, Hosts!StopsListening, Hosts!DrainEnds,
     Hosts!ShutdownFails, Hosts!ForceCloses, Hosts!TimesOut, Hosts!Close, Hosts!hostVars
<1> QED
  BY <1>2, <1>3 DEF Hosts!Cut

\* ClosedIsQuiet and KeepsAccepted: whatever arrives while an adapter closes, no
\* client waits for one whose close() has returned, and what was let in finds a
\* dispatcher (close() of the adapters).
THEOREM HostsClose ==
  ASSUME Hosts!HostsAssumption, ClosesOnce
  PROVE  Hosts!Spec => []Hosts!ClosedIsQuiet /\ [][Hosts!KeepsAccepted]_(Hosts!hostVars)
<1>1. Hosts!Init => HostsInv
  BY HostsInitial
<1>2. HostsInv /\ [Hosts!Next]_(Hosts!hostVars) => HostsInv'
  BY HostTypedStep, HostListens, QuietStep DEF HostsInv
<1>3. HostsInv => Hosts!ClosedIsQuiet
  BY DEF HostsInv, QuietInv, Hosts!ClosedIsQuiet
<1>4. HostsInv /\ [Hosts!Next]_(Hosts!hostVars) => [Hosts!KeepsAccepted]_(Hosts!hostVars)
  BY Admits
<1> QED
  BY <1>1, <1>2, <1>3, <1>4, PTL DEF Hosts!Spec

---------------------------------------------------------------------------
\* WebSockets.  ConnectionsInv: what waits for the handlers of a
\* connection is in its order; SlotsInv: who is under way holds a slot;
\* HaltInv: whom a shutdown that is not hurried has seen.

CONSTANTS Clients, Runtime, MaxConnections, Limit, Policy, MaxMessages
VARIABLES socket, slots, registry, bind, early, queue, busy, sent, farewell, halt, waits, hurried
Gateway == INSTANCE WebSockets

\* Messages that wait: of the first n, in their order.
Waiting(q, n) ==
  /\ q \in Seq(Nat) /\ Len(q) <= Limit
  /\ \A i \in 1..Len(q) : 1 <= q[i] /\ q[i] <= n
  /\ \A i, j \in 1..Len(q) : i < j => q[i] < q[j]

\* One connection: its socket s, bindConnectionHandlers b, buffers e and q, the message y
\* that is handled, the last one that came n, and the disconnect handlers f.
Connection(s, b, e, q, y, n, f) ==
  /\ n \in Nat /\ y \in 0..n /\ Waiting(e, n) /\ Waiting(q, n)
  /\ b = "connecting" => y = 0
  /\ b # "connecting" => e = <<>>
  /\ y = 0 => q = <<>>
  /\ y # 0 => \A i \in 1..Len(q) : y < q[i]
  /\ s \in {"no", "guard"} => b = "no"
  /\ s \in {"open", "closing", "closed"} => b # "no"
  /\ s = "opening" => (b = "no" <=> Runtime = "bun")
  /\ b = "no" => y = 0 /\ f = "no"
  /\ b = "connecting" => f \in {"no", "buffered"}
  /\ f # "no" => s = "closed"
  /\ f = "buffered" => b = "connecting"
  /\ f \in {"running", "done"} => y = 0

ConnectionsInv ==
  /\ DOMAIN socket = Clients /\ DOMAIN bind = Clients /\ DOMAIN early = Clients /\ DOMAIN queue = Clients
  /\ DOMAIN busy = Clients /\ DOMAIN sent = Clients /\ DOMAIN farewell = Clients
  /\ \A c \in Clients : Connection(socket[c], bind[c], early[c], queue[c], busy[c], sent[c], farewell[c])

\* Clients that hold a slot.
Underway == {c \in Clients : socket[c] = "guard" \/ (Runtime = "bun" /\ socket[c] = "opening")}

SlotsInv ==
  /\ IsFiniteSet(registry) /\ IsFiniteSet(Underway) /\ slots \in Nat
  /\ Cardinality(registry) + slots <= MaxConnections
  /\ Cardinality(registry) + Cardinality(Underway) <= MaxConnections
  /\ IF halt = "ended" THEN slots = 0 ELSE Cardinality(Underway) <= slots

\* Whom a shutdown that is not hurried has seen.
HaltInv ==
  /\ halt \in {"no", "upgrades", "sockets", "servers", "ended"}
  /\ halt = "upgrades" => \A c \in Clients : socket[c] = "guard" => c \in waits
  /\ halt \in {"sockets", "servers", "ended"} /\ ~hurried => \A c \in Clients : socket[c] # "guard"
  /\ Runtime = "node" /\ halt = "sockets" /\ ~hurried =>
       \A c \in Clients : bind[c] # "no" => c \in waits \/ Gateway!Settled(c)
  /\ Runtime = "node" /\ halt \in {"servers", "ended"} /\ ~hurried =>
       \A c \in Clients : bind[c] # "no" => Gateway!Settled(c)
  /\ Runtime = "node" => \A c \in Clients : socket[c] # "opening"

SocketInv == ConnectionsInv /\ SlotsInv /\ HaltInv

LEMMA EmptyWaits == ASSUME NEW n \in Nat, Gateway!SocketsAssumption PROVE Waiting(<<>>, n)
BY DEF Waiting, Gateway!SocketsAssumption

LEMMA WaitsStill == ASSUME NEW n \in Nat, NEW q, Waiting(q, n) PROVE Waiting(q, n + 1)
BY DEF Waiting

LEMMA WaitsBehind ==
  ASSUME NEW n \in Nat, NEW q, Waiting(q, n), Limit \in Nat, Len(q) < Limit
  PROVE  Waiting(Append(q, n + 1), n + 1)
<1> DEFINE r == Append(q, n + 1)
<1>1. q \in Seq(Nat) /\ Len(q) \in Nat /\ n + 1 \in Nat
  BY DEF Waiting
<1>2. r \in Seq(Nat) /\ Len(r) = Len(q) + 1 /\ r[Len(q) + 1] = n + 1 /\ \A i \in 1..Len(q) : r[i] = q[i]
  BY <1>1
<1> HIDE DEF r
<1>3. Len(r) <= Limit
  BY <1>1, <1>2 DEF Waiting
<1>4. \A i \in 1..Len(r) : 1 <= r[i] /\ r[i] <= n + 1
  BY <1>1, <1>2 DEF Waiting
<1>5. \A i, j \in 1..Len(r) : i < j => r[i] < r[j]
  <2> SUFFICES ASSUME NEW i \in 1..Len(r), NEW j \in 1..Len(r), i < j PROVE r[i] < r[j]
    OBVIOUS
  <2>1. i \in 1..Len(q) /\ r[i] = q[i] /\ q[i] \in Nat /\ q[i] <= n
    BY <1>1, <1>2 DEF Waiting
  <2>2. CASE j = Len(q) + 1
    BY <1>2, <2>1, <2>2
  <2>3. CASE j # Len(q) + 1
    <3>1. Len(r) = Len(q) + 1 /\ Len(q) \in Nat
      BY <1>1, <1>2
    <3>2. j \in 1..Len(q)
      BY <2>3, <3>1
    <3>3. r[j] = q[j] /\ q[i] < q[j]
      BY <1>2, <2>1, <3>2 DEF Waiting
    <3> QED
      BY <2>1, <3>3
  <2> QED
    BY <2>2, <2>3
<1> QED
  BY <1>2, <1>3, <1>4, <1>5 DEF Waiting, r

LEMMA WaitsLess ==
  ASSUME NEW n \in Nat, NEW q, Waiting(q, n), Limit \in Nat, q # <<>>
  PROVE  /\ Waiting(Tail(q), n) /\ Len(Tail(q)) = Len(q) - 1 /\ Head(q) \in 1..n
         /\ \A i \in 1..Len(Tail(q)) : Head(q) < Tail(q)[i]
<1> DEFINE r == Tail(q)
<1>1. q \in Seq(Nat) /\ Len(q) \in Nat /\ Len(q) > 0 /\ Head(q) = q[1]
  BY DEF Waiting
<1>2. r \in Seq(Nat) /\ Len(r) = Len(q) - 1 /\ \A i \in 1..Len(r) : r[i] = q[i + 1]
  BY <1>1
<1> HIDE DEF r
<1>3. \A i \in 1..Len(r) : i + 1 \in 1..Len(q) /\ r[i] = q[i + 1]
  BY <1>1, <1>2
<1>4. Len(r) <= Limit /\ \A i \in 1..Len(r) : 1 <= r[i] /\ r[i] <= n
  <2>1. Len(r) <= Limit
    BY <1>1, <1>2 DEF Waiting
  <2>2. \A i \in 1..Len(r) : 1 <= q[i + 1] /\ q[i + 1] <= n
    BY <1>3 DEF Waiting
  <2> QED
    BY <1>3, <2>1, <2>2
<1>5. \A i, j \in 1..Len(r) : i < j => r[i] < r[j]
  <2> SUFFICES ASSUME NEW i \in 1..Len(r), NEW j \in 1..Len(r), i < j PROVE r[i] < r[j]
    OBVIOUS
  <2>1. PICK a, b \in 1..Len(q) : a < b /\ r[i] = q[a] /\ r[j] = q[b]
    <3>1. i + 1 \in 1..Len(q) /\ j + 1 \in 1..Len(q) /\ i + 1 < j + 1
      BY <1>2, <1>3
    <3> QED
      BY <1>3, <3>1
  <2>2. q[a] < q[b]
    BY <2>1 DEF Waiting
  <2> QED
    BY <2>1, <2>2
<1>6. \A i \in 1..Len(r) : q[1] < r[i]
  <2> SUFFICES ASSUME NEW i \in 1..Len(r) PROVE q[1] < r[i]
    OBVIOUS
  <2>1. PICK a \in 1..Len(q) : 1 < a /\ r[i] = q[a]
    BY <1>2, <1>3
  <2>2. 1 \in 1..Len(q) /\ q[1] < q[a]
    BY <1>1, <2>1 DEF Waiting
  <2> QED
    BY <2>1, <2>2
<1>7. q[1] \in 1..n
  BY <1>1 DEF Waiting
<1> QED
  BY <1>1, <1>2, <1>4, <1>5, <1>6, <1>7 DEF Waiting, r

LEMMA WaitsInPlace ==
  ASSUME NEW n \in Nat, NEW q, Waiting(q, n), Gateway!SocketsAssumption, ~(Len(q) < Limit)
  PROVE  Waiting(Append(Tail(q), n + 1), n + 1)
<1>1. q # <<>> /\ Limit \in Nat \ {0}
  BY DEF Waiting, Gateway!SocketsAssumption
<1>2. Waiting(Tail(q), n) /\ Len(Tail(q)) = Len(q) - 1 /\ Len(q) \in Nat
  BY <1>1, WaitsLess DEF Waiting
<1>3. Len(Tail(q)) < Limit
  BY <1>1, <1>2 DEF Waiting
<1> QED
  BY ZenonT(30), <1>1, <1>2, <1>3, WaitsBehind

\* A client of ours, and a step that touches no other.
ConnectionKeeps(c) == Connection(socket[c], bind[c], early[c], queue[c], busy[c], sent[c], farewell[c])
OnlyTouches(c) ==
  /\ DOMAIN socket' = Clients /\ DOMAIN bind' = Clients /\ DOMAIN early' = Clients /\ DOMAIN queue' = Clients
  /\ DOMAIN busy' = Clients /\ DOMAIN sent' = Clients /\ DOMAIN farewell' = Clients
  /\ \A d \in Clients \ {c} :
       /\ socket'[d] = socket[d] /\ bind'[d] = bind[d] /\ early'[d] = early[d] /\ queue'[d] = queue[d]
       /\ busy'[d] = busy[d] /\ sent'[d] = sent[d] /\ farewell'[d] = farewell[d]

LEMMA OthersKeep ==
  ASSUME ConnectionsInv, NEW c \in Clients, OnlyTouches(c), ConnectionKeeps(c)' PROVE ConnectionsInv'
BY DEF ConnectionsInv, OnlyTouches, ConnectionKeeps


LEMMA AsksKeep ==
  ASSUME Gateway!SocketsAssumption, ConnectionsInv, NEW c \in Clients,
         Gateway!AsksIn(c) \/ (Runtime = "bun" /\ Gateway!BunOpens(c)) \/ (Runtime = "deno" /\ Gateway!DenoOpens(c))
  PROVE  ConnectionsInv'
<1> DEFINE Rest == UNCHANGED <<early, queue, busy, sent, farewell>>
<1>0. ConnectionKeeps(c)
  BY DEF ConnectionsInv, ConnectionKeeps
<1>1. ASSUME NEW s, socket' = [socket EXCEPT ![c] = s], UNCHANGED bind, Rest,
             \/ bind[c] = "no" /\ (s \in {"guard", "refused"} \/ (s = "opening" /\ Runtime = "bun"))
             \/ bind[c] # "no" /\ s = "open" /\ farewell[c] = "no"
      PROVE  ConnectionsInv'
  <2>1. OnlyTouches(c)
    BY <1>1 DEF ConnectionsInv, OnlyTouches
  <2>2. socket'[c] = s
    BY <1>1 DEF ConnectionsInv
  <2>3. ConnectionKeeps(c)'
    BY <1>0, <1>1, <2>2 DEF ConnectionKeeps, Connection
  <2> QED
    BY <2>1, <2>3, OthersKeep
<1>2. ASSUME NEW s \in {"open", "opening"}, socket' = [socket EXCEPT ![c] = s], bind' = [bind EXCEPT ![c] = "connecting"], Rest,
             bind[c] = "no", s = "opening" => Runtime # "bun"
      PROVE  ConnectionsInv'
  <2>1. OnlyTouches(c)
    BY <1>2 DEF ConnectionsInv, OnlyTouches
  <2>2. socket'[c] = s /\ bind'[c] = "connecting"
    BY <1>2 DEF ConnectionsInv
  <2>3. ConnectionKeeps(c)'
    BY <1>0, <1>2, <2>2 DEF ConnectionKeeps, Connection
  <2> QED
    BY <2>1, <2>3, OthersKeep
<1>3. CASE Gateway!Upgrade(c)
  <2>1. bind[c] = "no"
    BY <1>0, <1>3 DEF Gateway!Upgrade, ConnectionKeeps, Connection
  <2> QED
    BY <1>1, <1>3, <2>1 DEF Gateway!Upgrade
<1>4. CASE Gateway!Vanishes(c)
  <2>1. bind[c] = "no"
    BY <1>0, <1>4 DEF Gateway!Vanishes, ConnectionKeeps, Connection
  <2> QED
    BY <1>1, <1>4, <2>1 DEF Gateway!Vanishes
<1>5. ASSUME NEW ok \in BOOLEAN, Gateway!GuardEnds(c, ok) PROVE ConnectionsInv'
  <2>1. bind[c] = "no"
    BY <1>0, <1>5 DEF Gateway!GuardEnds, ConnectionKeeps, Connection
  <2>2. CASE ok /\ ~Gateway!ShuttingDown
    <3>1. CASE Runtime = "bun"
      BY <1>1, <1>5, <2>1, <2>2, <3>1 DEF Gateway!GuardEnds, Gateway!Admits, Gateway!BunAdmits
    <3>2. CASE Runtime = "deno"
      BY <1>2, <1>5, <2>1, <2>2, <3>2 DEF Gateway!GuardEnds, Gateway!Admits, Gateway!DenoAdmits, Gateway!Registers
    <3>3. CASE Runtime \in {"node", "workers"}
      BY <1>2, <1>5, <2>1, <2>2, <3>3
      DEF Gateway!GuardEnds, Gateway!Admits, Gateway!NodeAdmits, Gateway!WorkersAdmits, Gateway!Registers
    <3> QED
      BY <3>1, <3>2, <3>3 DEF Gateway!SocketsAssumption
  <2>3. CASE ~(ok /\ ~Gateway!ShuttingDown)
    BY <1>1, <1>5, <2>1, <2>3 DEF Gateway!GuardEnds
  <2> QED
    BY <2>2, <2>3
<1>6. CASE Runtime = "bun" /\ Gateway!BunOpens(c)
  <2>1. bind[c] = "no"
    BY <1>0, <1>6 DEF Gateway!BunOpens, ConnectionKeeps, Connection
  <2> QED
    BY <1>2, <1>6, <2>1 DEF Gateway!BunOpens, Gateway!Registers
<1>7. CASE Runtime = "deno" /\ Gateway!DenoOpens(c)
  <2>1. bind[c] # "no" /\ farewell[c] = "no"
    BY <1>0, <1>7 DEF Gateway!DenoOpens, ConnectionKeeps, Connection
  <2> QED
    BY <1>1, <1>7, <2>1 DEF Gateway!DenoOpens
<1> QED
  BY <1>3, <1>4, <1>5, <1>6, <1>7 DEF Gateway!AsksIn

\* What a full queue does with another message.
Kept(q, m) ==
  IF Len(q) < Limit THEN Append(q, m)
  ELSE CASE Policy = "close" -> <<>> [] Policy = "drop-newest" -> q [] OTHER -> Append(Tail(q), m)

LEMMA KeptWaits ==
  ASSUME Gateway!SocketsAssumption, NEW n \in Nat, NEW q, Waiting(q, n)
  PROVE  /\ Waiting(Kept(q, n + 1), n + 1)
         /\ \A y \in Nat : y <= n /\ (\A i \in 1..Len(q) : y < q[i]) =>
              \A i \in 1..Len(Kept(q, n + 1)) : y < Kept(q, n + 1)[i]
<1>0. Limit \in Nat /\ Limit # 0 /\ n + 1 \in Nat /\ q \in Seq(Nat) /\ Len(q) \in Nat
  BY DEF Gateway!SocketsAssumption, Waiting
<1>1. CASE Len(q) < Limit
  <2>1. Waiting(Append(q, n + 1), n + 1)
    BY <1>0, <1>1, WaitsBehind
  <2>2. ASSUME NEW y \in Nat, y <= n, \A i \in 1..Len(q) : y < q[i], NEW i \in 1..Len(Append(q, n + 1))
        PROVE  y < Append(q, n + 1)[i]
    <3>1. Len(Append(q, n + 1)) = Len(q) + 1
      BY <1>0
    <3>2. CASE i = Len(q) + 1
      <4>1. Append(q, n + 1)[i] = n + 1
        BY <1>0, <3>2
      <4> QED
        BY <2>2, <4>1
    <3>3. CASE i \in 1..Len(q)
      <4>1. Append(q, n + 1)[i] = q[i]
        BY <1>0, <3>3
      <4> QED
        BY <2>2, <3>3, <4>1
    <3> QED
      BY <1>0, <3>1, <3>2, <3>3
  <2> QED
    BY <1>1, <2>1, <2>2 DEF Kept
<1>2. CASE ~(Len(q) < Limit) /\ Policy = "close"
  <2>1. Kept(q, n + 1) = <<>>
    BY <1>2 DEF Kept
  <2> QED
    BY <1>0, <2>1, EmptyWaits
<1>3. CASE ~(Len(q) < Limit) /\ Policy = "drop-newest"
  <2>1. Kept(q, n + 1) = q
    BY <1>3 DEF Kept
  <2> QED
    BY <1>0, <2>1, WaitsStill
<1>4. CASE ~(Len(q) < Limit) /\ Policy = "drop-oldest"
  <2> DEFINE t == Tail(q)
  <2>1. Kept(q, n + 1) = Append(t, n + 1)
    BY <1>4 DEF Kept
  <2>2. q # <<>>
    BY <1>0, <1>4
  <2>3. Waiting(t, n) /\ Len(t) = Len(q) - 1 /\ t \in Seq(Nat) /\ Len(t) \in Nat
    BY <1>0, <2>2, WaitsLess DEF Waiting
  <2>4. \A i \in 1..Len(t) : i + 1 \in 1..Len(q) /\ t[i] = q[i + 1]
    BY <1>0, <2>2
  <2>5. Waiting(Append(t, n + 1), n + 1)
    BY <1>0, <1>4, WaitsInPlace
  <2> HIDE DEF t
  <2>6. ASSUME NEW y \in Nat, y <= n, \A i \in 1..Len(q) : y < q[i], NEW i \in 1..Len(Append(t, n + 1))
        PROVE  y < Append(t, n + 1)[i]
    <3>1. Len(Append(t, n + 1)) = Len(t) + 1
      BY <1>0, <2>3
    <3>2. CASE i = Len(t) + 1
      <4>1. Append(t, n + 1)[i] = n + 1
        BY <1>0, <2>3, <3>2
      <4> QED
        BY <2>6, <4>1
    <3>3. CASE i \in 1..Len(t)
      <4>1. Append(t, n + 1)[i] = t[i]
        BY <1>0, <2>3, <3>3
      <4>2. PICK k \in 1..Len(q) : t[i] = q[k]
        BY <2>4, <3>3
      <4> QED
        BY <2>6, <4>1, <4>2
    <3> QED
      BY <2>3, <3>1, <3>2, <3>3
  <2> QED
    BY <2>1, <2>5, <2>6
<1> QED
  BY <1>1, <1>2, <1>3, <1>4 DEF Gateway!SocketsAssumption

\* A message is buffered, handled at once, or waits behind another.
LEMMA MessageKeeps ==
  ASSUME Gateway!SocketsAssumption, ConnectionsInv, NEW c \in Clients, Gateway!Message(c)
  PROVE  ConnectionsInv'
<1> DEFINE n == sent[c]
<1>0. ConnectionKeeps(c) /\ n \in Nat
  BY DEF ConnectionsInv, ConnectionKeeps, Connection
<1>1. socket[c] \in {"open", "closing"} /\ sent' = [sent EXCEPT ![c] = n + 1] /\ UNCHANGED <<bind, farewell>>
  BY DEF Gateway!Message
<1>2. bind[c] # "no" /\ farewell[c] = "no"
  BY <1>0, <1>1 DEF ConnectionKeeps, Connection
<1>3. CASE bind[c] = "connecting"
  <2>0. Gateway!Buffer(c, n + 1)
    BY <1>3 DEF Gateway!Message
  <2>1. /\ early' = [early EXCEPT ![c] = Kept(early[c], n + 1)] /\ UNCHANGED <<queue, busy>>
        /\ \E s \in {"closing", socket[c]} : socket' = [socket EXCEPT ![c] = s]
    BY <2>0 DEF Gateway!Buffer, Kept
  <2>2. OnlyTouches(c)
    BY <1>1, <2>1 DEF ConnectionsInv, OnlyTouches
  <2>3. /\ socket'[c] \in {"open", "closing"} /\ early'[c] = Kept(early[c], n + 1) /\ sent'[c] = n + 1
        /\ bind'[c] = bind[c] /\ farewell'[c] = "no" /\ queue'[c] = queue[c] /\ busy'[c] = busy[c]
    BY <1>1, <1>2, <2>1 DEF ConnectionsInv
  <2>4. Waiting(early'[c], n + 1) /\ Waiting(queue[c], n + 1)
    BY <1>0, <2>3, KeptWaits, WaitsStill DEF ConnectionKeeps, Connection
  <2>5. ConnectionKeeps(c)'
    BY <1>0, <1>2, <1>3, <2>3, <2>4 DEF ConnectionKeeps, Connection
  <2> QED
    BY <2>2, <2>5, OthersKeep
<1>4. CASE bind[c] # "connecting"
  <2>0. Gateway!Enqueue(c, n + 1)
    BY <1>4 DEF Gateway!Message
  <2>1. /\ UNCHANGED early
        /\ \E s \in {"closing", socket[c]} : socket' = [socket EXCEPT ![c] = s]
        /\ \/ busy[c] = 0 /\ busy' = [busy EXCEPT ![c] = n + 1] /\ UNCHANGED queue
           \/ busy[c] # 0 /\ queue' = [queue EXCEPT ![c] = Kept(queue[c], n + 1)] /\ UNCHANGED busy
    <3>1. UNCHANGED early /\ \E s \in {"closing", socket[c]} : socket' = [socket EXCEPT ![c] = s]
      BY <2>0 DEF Gateway!Enqueue
    <3>2. CASE busy[c] = 0
      BY <2>0, <3>1, <3>2 DEF Gateway!Enqueue
    <3>3. CASE busy[c] # 0
      <4>1. Len(queue[c]) \in Nat /\ Limit \in Nat
        BY <1>0 DEF ConnectionKeeps, Connection, Waiting, Gateway!SocketsAssumption
      <4>2. UNCHANGED busy /\ queue' = [queue EXCEPT ![c] = Kept(queue[c], n + 1)]
        BY <2>0, <3>3, <4>1 DEF Gateway!Enqueue, Kept
      <4> QED
        BY <3>1, <3>3, <4>2
    <3> QED
      BY <3>2, <3>3
  <2>2. OnlyTouches(c)
    BY <1>1, <2>1 DEF ConnectionsInv, OnlyTouches
  <2>3. /\ socket'[c] \in {"open", "closing"} /\ early'[c] = early[c] /\ sent'[c] = n + 1
        /\ bind'[c] = bind[c] /\ farewell'[c] = "no"
        /\ \/ busy[c] = 0 /\ busy'[c] = n + 1 /\ queue'[c] = queue[c]
           \/ busy[c] # 0 /\ queue'[c] = Kept(queue[c], n + 1) /\ busy'[c] = busy[c]
    BY <1>1, <1>2, <2>1 DEF ConnectionsInv
  <2>4. Waiting(early[c], n + 1)
    BY <1>0, WaitsStill DEF ConnectionKeeps, Connection
  <2>5. CASE busy[c] = 0
    <3>1. queue'[c] = <<>> /\ Waiting(queue'[c], n + 1)
      BY <1>0, <2>3, <2>5, WaitsStill DEF ConnectionKeeps, Connection
    <3>2. ConnectionKeeps(c)'
      BY <1>0, <1>2, <1>4, <2>3, <2>4, <2>5, <3>1 DEF ConnectionKeeps, Connection
    <3> QED
      BY <2>2, <3>2, OthersKeep
  <2>6. CASE busy[c] # 0
    <3>1. busy[c] \in Nat /\ busy[c] <= n /\ Waiting(queue[c], n) /\ \A i \in 1..Len(queue[c]) : busy[c] < queue[c][i]
      BY <1>0, <2>6 DEF ConnectionKeeps, Connection
    <3>2. Waiting(queue'[c], n + 1) /\ \A i \in 1..Len(queue'[c]) : busy[c] < queue'[c][i]
      BY <1>0, <2>3, <2>6, <3>1, KeptWaits
    <3>3. ConnectionKeeps(c)'
      BY <1>0, <1>2, <1>4, <2>3, <2>4, <2>6, <3>1, <3>2 DEF ConnectionKeeps, Connection
    <3> QED
      BY <2>2, <3>3, OthersKeep
  <2> QED
    BY <2>5, <2>6
<1> QED
  BY <1>3, <1>4

\* Steps of the handlers: what waited is taken over or the next message is handled.
LEMMA HandlersKeep ==
  ASSUME Gateway!SocketsAssumption, ConnectionsInv, NEW c \in Clients, Gateway!Handled(c) \/ Gateway!Connected(c)
  PROVE  ConnectionsInv'
<1> DEFINE n == sent[c]
<1>0. ConnectionKeeps(c) /\ n \in Nat /\ Limit \in Nat
  BY DEF ConnectionsInv, ConnectionKeeps, Connection, Gateway!SocketsAssumption
<1>1. CASE Gateway!Handled(c)
  <2>1. busy[c] # 0 /\ UNCHANGED <<socket, bind, early, sent, farewell>>
    BY <1>1 DEF Gateway!Handled
  <2>2. CASE queue[c] = <<>>
    <3>1. busy' = [busy EXCEPT ![c] = 0] /\ UNCHANGED queue
      BY <1>1, <2>2 DEF Gateway!Handled
    <3>2. OnlyTouches(c) /\ busy'[c] = 0
      BY <2>1, <3>1 DEF ConnectionsInv, OnlyTouches
    <3>3. ConnectionKeeps(c)'
      BY <1>0, <2>1, <2>2, <3>1, <3>2 DEF ConnectionKeeps, Connection
    <3> QED
      BY <3>2, <3>3, OthersKeep
  <2>3. CASE queue[c] # <<>>
    <3>1. busy' = [busy EXCEPT ![c] = Head(queue[c])] /\ queue' = [queue EXCEPT ![c] = Tail(queue[c])]
      BY <1>1, <2>3 DEF Gateway!Handled
    <3>2. OnlyTouches(c) /\ busy'[c] = Head(queue[c]) /\ queue'[c] = Tail(queue[c])
      BY <2>1, <3>1 DEF ConnectionsInv, OnlyTouches
    <3>3. Waiting(queue[c], n)
      BY <1>0 DEF ConnectionKeeps, Connection
    <3>4. /\ Waiting(queue'[c], n) /\ busy'[c] \in 1..n
          /\ \A i \in 1..Len(queue'[c]) : busy'[c] < queue'[c][i]
      BY <1>0, <2>3, <3>2, <3>3, WaitsLess
    <3>5. ConnectionKeeps(c)'
      BY <1>0, <2>1, <3>4 DEF ConnectionKeeps, Connection
    <3> QED
      BY <3>2, <3>5, OthersKeep
  <2> QED
    BY <2>2, <2>3
<1>2. CASE Gateway!Connected(c)
  <2> DEFINE after == IF farewell[c] = "buffered" THEN "queued" ELSE farewell[c]
  <2>1. /\ bind[c] = "connecting" /\ UNCHANGED <<socket, sent>> /\ farewell' = [farewell EXCEPT ![c] = after]
        /\ early' = [early EXCEPT ![c] = <<>>] /\ \E b \in {"parting", "draining"} : bind' = [bind EXCEPT ![c] = b]
    BY <1>2 DEF Gateway!Connected
  <2>2. Waiting(early[c], n) /\ busy[c] = 0 /\ queue[c] = <<>> /\ Waiting(<<>>, n)
    BY <1>0, <2>1, EmptyWaits DEF ConnectionKeeps, Connection
  <2>3. CASE early[c] = <<>>
    <3>1. UNCHANGED <<queue, busy>>
      BY <1>2, <2>3 DEF Gateway!Connected, Gateway!Replayed
    <3>2. OnlyTouches(c) /\ early'[c] = <<>> /\ bind'[c] \in {"parting", "draining"} /\ farewell'[c] = after
      BY <2>1, <3>1 DEF ConnectionsInv, OnlyTouches
    <3>3. ConnectionKeeps(c)'
      BY <1>0, <2>1, <2>2, <3>1, <3>2 DEF ConnectionKeeps, Connection
    <3> QED
      BY <3>2, <3>3, OthersKeep
  <2>4. CASE early[c] # <<>>
    <3>1. busy' = [busy EXCEPT ![c] = Head(early[c])] /\ queue' = [queue EXCEPT ![c] = Tail(early[c])]
      BY <1>2, <2>4 DEF Gateway!Connected, Gateway!Replayed
    <3>2. /\ OnlyTouches(c) /\ early'[c] = <<>> /\ bind'[c] \in {"parting", "draining"} /\ farewell'[c] = after
          /\ busy'[c] = Head(early[c]) /\ queue'[c] = Tail(early[c])
      BY <2>1, <3>1 DEF ConnectionsInv, OnlyTouches
    <3>3. /\ Waiting(queue'[c], n) /\ busy'[c] \in 1..n
          /\ \A i \in 1..Len(queue'[c]) : busy'[c] < queue'[c][i]
      BY <1>0, <2>2, <2>4, <3>2, WaitsLess
    <3>4. ConnectionKeeps(c)'
      BY <1>0, <2>1, <2>2, <3>2, <3>3 DEF ConnectionKeeps, Connection
    <3> QED
      BY <3>2, <3>4, OthersKeep
  <2> QED
    BY <2>3, <2>4
<1> QED
  BY <1>1, <1>2

\* Steps that move a socket, bindConnectionHandlers or the disconnect handlers.
LEMMA PartingKeeps ==
  ASSUME Gateway!SocketsAssumption, ConnectionsInv, NEW c \in Clients,
         \/ Gateway!Oversized(c) \/ Gateway!BindEnds(c) \/ Gateway!Left(c)
         \/ Gateway!Farewell(c) \/ Gateway!FarewellEnds(c) \/ Gateway!Parts(c)
  PROVE  ConnectionsInv'
<1>0. ConnectionKeeps(c)
  BY DEF ConnectionsInv, ConnectionKeeps
<1>1. ASSUME NEW s, NEW b, NEW f, UNCHANGED <<early, queue, busy, sent>>,
             socket' = socket \/ socket' = [socket EXCEPT ![c] = s], socket'[c] = s,
             bind' = bind \/ bind' = [bind EXCEPT ![c] = b], bind'[c] = b,
             farewell' = farewell \/ farewell' = [farewell EXCEPT ![c] = f], farewell'[c] = f,
             Connection(s, b, early[c], queue[c], busy[c], sent[c], f)
      PROVE  ConnectionsInv'
  <2>1. OnlyTouches(c)
    BY <1>1 DEF ConnectionsInv, OnlyTouches
  <2>2. ConnectionKeeps(c)'
    BY <1>1 DEF ConnectionKeeps
  <2> QED
    BY <2>1, <2>2, OthersKeep
<1>2. CASE Gateway!Oversized(c)
  <2>1. Connection("closing", bind[c], early[c], queue[c], busy[c], sent[c], farewell[c])
    BY <1>0, <1>2 DEF Gateway!Oversized, ConnectionKeeps, Connection
  <2> QED
    BY <1>1, <1>2, <2>1 DEF Gateway!Oversized, ConnectionsInv
<1>3. CASE Gateway!BindEnds(c)
  <2>1. CASE Gateway!ShuttingDown /\ socket[c] = "open"
    <3>1. Connection("closing", "leaving", early[c], queue[c], busy[c], sent[c], farewell[c])
      BY <1>0, <1>3, <2>1 DEF Gateway!BindEnds, ConnectionKeeps, Connection
    <3> QED
      BY <1>1, <1>3, <2>1, <3>1 DEF Gateway!BindEnds, ConnectionsInv
  <2>2. CASE ~(Gateway!ShuttingDown /\ socket[c] = "open")
    <3>1. Connection(socket[c], "bound", early[c], queue[c], busy[c], sent[c], farewell[c])
      BY <1>0, <1>3, <2>2 DEF Gateway!BindEnds, ConnectionKeeps, Connection
    <3> QED
      BY <1>1, <1>3, <2>2, <3>1 DEF Gateway!BindEnds, ConnectionsInv
  <2> QED
    BY <2>1, <2>2
<1>4. CASE Gateway!Left(c)
  <2>1. Connection(socket[c], "bound", early[c], queue[c], busy[c], sent[c], farewell[c])
    BY <1>0, <1>4 DEF Gateway!Left, ConnectionKeeps, Connection
  <2> QED
    BY <1>1, <1>4, <2>1 DEF Gateway!Left, ConnectionsInv
<1>5. CASE Gateway!Farewell(c)
  <2>1. Connection(socket[c], bind[c], early[c], queue[c], busy[c], sent[c], "running")
    BY <1>0, <1>5 DEF Gateway!Farewell, Gateway!MayPart, ConnectionKeeps, Connection
  <2> QED
    BY <1>1, <1>5, <2>1 DEF Gateway!Farewell, ConnectionsInv
<1>6. CASE Gateway!FarewellEnds(c)
  <2>1. Connection(socket[c], bind[c], early[c], queue[c], busy[c], sent[c], "done")
    BY <1>0, <1>6 DEF Gateway!FarewellEnds, ConnectionKeeps, Connection
  <2> QED
    BY <1>1, <1>6, <2>1 DEF Gateway!FarewellEnds, ConnectionsInv
<1>7. CASE Gateway!Terminates(c)
  <2>1. Connection("closing", bind[c], early[c], queue[c], busy[c], sent[c], farewell[c])
    BY <1>0, <1>7 DEF Gateway!Terminates, ConnectionKeeps, Connection
  <2> QED
    BY <1>1, <1>7, <2>1 DEF Gateway!Terminates, ConnectionsInv
<1>8. CASE Gateway!Closed(c)
  <2> DEFINE f == IF bind[c] = "connecting" THEN "buffered" ELSE "queued"
  <2>1. Connection("closed", bind[c], early[c], queue[c], busy[c], sent[c], f)
    BY <1>0, <1>8 DEF Gateway!Closed, ConnectionKeeps, Connection
  <2> QED
    BY <1>1, <1>8, <2>1 DEF Gateway!Closed, ConnectionsInv
<1> QED
  BY <1>2, <1>3, <1>4, <1>5, <1>6, <1>7, <1>8 DEF Gateway!Parts

LEMMA ConnectionsInitial == Gateway!SocketsAssumption /\ Gateway!Init => ConnectionsInv
<1> SUFFICES ASSUME Gateway!SocketsAssumption, Gateway!Init, NEW c \in Clients
             PROVE  Connection("no", "no", <<>>, <<>>, 0, 0, "no")
  BY DEF Gateway!Init, ConnectionsInv
<1> QED
  BY EmptyWaits DEF Connection

LEMMA HaltKeeps ==
  ASSUME Gateway!SocketsAssumption, ConnectionsInv,
         Gateway!Shutdown \/ Gateway!HaltStep \/ UNCHANGED Gateway!socketVars
  PROVE  ConnectionsInv'
<1>1. ASSUME UNCHANGED <<socket, bind, early, queue, busy, sent, farewell>> PROVE ConnectionsInv'
  BY <1>1 DEF ConnectionsInv
<1>2. ASSUME NEW late \in BOOLEAN, Gateway!UpgradesOver(late) PROVE ConnectionsInv'
  <2>1. UNCHANGED <<bind, early, queue, busy, sent, farewell>>
    BY <1>2 DEF Gateway!UpgradesOver
  <2>2. DOMAIN socket' = Clients
    BY <1>2 DEF Gateway!UpgradesOver
  <2>3. ASSUME NEW c \in Clients
        PROVE  Connection(socket'[c], bind[c], early[c], queue[c], busy[c], sent[c], farewell[c])
    <3>1. socket'[c] = socket[c] \/ (socket[c] = "open" /\ socket'[c] = "closing")
      BY <1>2 DEF Gateway!UpgradesOver
    <3>2. Connection(socket[c], bind[c], early[c], queue[c], busy[c], sent[c], farewell[c])
      BY DEF ConnectionsInv
    <3> QED
      BY <3>1, <3>2 DEF Connection
  <2> QED
    BY <2>1, <2>2, <2>3 DEF ConnectionsInv
<1> QED
  BY <1>1, <1>2
  DEF Gateway!Shutdown, Gateway!HaltStep, Gateway!SocketsOver, Gateway!ServersOver, Gateway!socketVars, Gateway!Waits,
      Gateway!BunHalts, Gateway!DenoHalts, Gateway!WorkersHalts

LEMMA SameCount == \A S : Gateway!Cardinality(S) = Cardinality(S)
BY DEF Gateway!Cardinality, Cardinality

\* A set of clients with one more and one less.
LEMMA OneMore ==
  ASSUME NEW S, IsFiniteSet(S), NEW c
  PROVE  /\ IsFiniteSet(S \cup {c}) /\ Cardinality(S \cup {c}) \in Nat
         /\ Cardinality(S) \in Nat /\ Cardinality(S \cup {c}) <= Cardinality(S) + 1
<1>1. IsFiniteSet(S \cup {c}) /\ (Cardinality(S \cup {c}) = Cardinality(S) \/ Cardinality(S \cup {c}) = Cardinality(S) + 1)
  BY FS_AddElement
<1>2. Cardinality(S) \in Nat
  BY FS_CardinalityType
<1> QED
  BY <1>1, <1>2

LEMMA OneLess ==
  ASSUME NEW S, IsFiniteSet(S), NEW c
  PROVE  /\ IsFiniteSet(S \ {c}) /\ Cardinality(S \ {c}) \in Nat /\ Cardinality(S) \in Nat
         /\ Cardinality(S \ {c}) <= Cardinality(S)
         /\ c \in S => Cardinality(S \ {c}) = Cardinality(S) - 1 /\ Cardinality(S) > 0
<1>1. /\ IsFiniteSet(S \ {c})
      /\ Cardinality(S \ {c}) = IF c \in S THEN Cardinality(S) - 1 ELSE Cardinality(S)
  BY FS_RemoveElement
<1>2. Cardinality(S) \in Nat /\ Cardinality(S \ {c}) \in Nat
  BY <1>1, FS_CardinalityType
<1> QED
  BY <1>1, <1>2

LEMMA SlotsInitial == Gateway!SocketsAssumption /\ Gateway!Init => SlotsInv
<1> SUFFICES ASSUME Gateway!SocketsAssumption, Gateway!Init PROVE SlotsInv
  OBVIOUS
<1>1. Underway = {} /\ registry = {} /\ slots = 0 /\ halt = "no"
  BY DEF Gateway!Init, Underway
<1>2. IsFiniteSet({}) /\ Cardinality({}) = 0
  BY FS_EmptySet
<1> QED
  BY <1>1, <1>2 DEF SlotsInv, Gateway!SocketsAssumption

\* Where nobody enters.
LEMMA NobodyEnters ==
  ASSUME SlotsInv, Gateway!SocketsAssumption, Underway' = Underway, UNCHANGED <<slots, halt>>,
         registry' = registry \/ \E c : registry' = registry \ {c}
  PROVE  SlotsInv'
<1>1. IsFiniteSet(registry') /\ Cardinality(registry') \in Nat /\ Cardinality(registry) \in Nat
      /\ Cardinality(registry') <= Cardinality(registry) /\ Cardinality(Underway) \in Nat
  BY OneLess, FS_CardinalityType DEF SlotsInv
<1> QED
  BY <1>1 DEF SlotsInv, Gateway!SocketsAssumption

\* Where one that was under way is registered, or is not.
LEMMA OneEnters ==
  ASSUME SlotsInv, Gateway!SocketsAssumption, NEW c \in Underway, Underway' = Underway \ {c}, UNCHANGED halt,
         \/ Gateway!Release /\ registry' \in {registry, registry \cup {c}}
         \/ UNCHANGED <<slots, registry>>
  PROVE  SlotsInv'
<1>1. /\ IsFiniteSet(Underway') /\ Cardinality(Underway) \in Nat /\ Cardinality(Underway) > 0
      /\ Cardinality(Underway') = Cardinality(Underway) - 1
  BY OneLess DEF SlotsInv
<1>2. /\ IsFiniteSet(registry') /\ Cardinality(registry') \in Nat /\ Cardinality(registry) \in Nat
      /\ Cardinality(registry') <= Cardinality(registry) + 1
      /\ (registry' = registry => Cardinality(registry') = Cardinality(registry))
  <2>1. IsFiniteSet(registry) /\ Cardinality(registry) \in Nat
    BY FS_CardinalityType DEF SlotsInv
  <2>2. CASE registry' = registry
    BY <2>1, <2>2
  <2>3. CASE registry' = registry \cup {c}
    BY <2>1, <2>3, OneMore
  <2> QED
    BY <2>2, <2>3
<1>3. CASE UNCHANGED <<slots, registry>>
  BY <1>1, <1>2, <1>3 DEF SlotsInv, Gateway!SocketsAssumption
<1>4. CASE Gateway!Release
  <2>1. slots' = (IF slots > 0 THEN slots - 1 ELSE 0) /\ slots \in Nat
    BY <1>4 DEF Gateway!Release, SlotsInv
  <2>2. MaxConnections \in Nat
    BY DEF Gateway!SocketsAssumption
  <2>3. CASE halt = "ended"
    BY <1>1, <1>2, <2>1, <2>2, <2>3 DEF SlotsInv
  <2>4. CASE halt # "ended"
    BY <1>1, <1>2, <2>1, <2>2, <2>4 DEF SlotsInv
  <2> QED
    BY <2>3, <2>4
<1> QED
  BY <1>3, <1>4

LEMMA AsksKeepSlots ==
  ASSUME Gateway!SocketsAssumption, ConnectionsInv, SlotsInv, NEW c \in Clients,
         Gateway!AsksIn(c) \/ (Runtime = "bun" /\ Gateway!BunOpens(c)) \/ (Runtime = "deno" /\ Gateway!DenoOpens(c))
  PROVE  SlotsInv'
<1>0. DOMAIN socket = Clients
  BY DEF ConnectionsInv
<1>1. CASE Gateway!Upgrade(c)
  <2>1. CASE socket' = [socket EXCEPT ![c] = "refused"] /\ UNCHANGED slots
    <3>1. Underway' = Underway
      BY <1>0, <1>1, <2>1 DEF Gateway!Upgrade, Underway
    <3> QED
      BY <1>1, <2>1, <3>1, NobodyEnters DEF Gateway!Upgrade
  <2>2. CASE ~Gateway!ShuttingDown /\ ~(Gateway!Reserved >= MaxConnections)
    <3>1. socket' = [socket EXCEPT ![c] = "guard"] /\ slots' = slots + 1 /\ UNCHANGED <<registry, halt>> /\ halt = "no"
      BY <1>1, <2>2 DEF Gateway!Upgrade, Gateway!ShuttingDown
    <3>2. Underway' = Underway \cup {c}
      BY <1>0, <3>1 DEF Underway
    <3>3. Cardinality(registry) \in Nat /\ slots \in Nat /\ MaxConnections \in Nat
      BY FS_CardinalityType DEF SlotsInv, Gateway!SocketsAssumption
    <3>4. Cardinality(registry) + slots < MaxConnections
      BY <2>2, <3>3, SameCount DEF Gateway!Reserved
    <3>5. /\ IsFiniteSet(Underway') /\ Cardinality(Underway') \in Nat /\ Cardinality(Underway) \in Nat
          /\ Cardinality(Underway') <= Cardinality(Underway) + 1
      BY <3>2, OneMore DEF SlotsInv
    <3> QED
      BY <3>1, <3>3, <3>4, <3>5 DEF SlotsInv
  <2> QED
    BY <1>1, <2>1, <2>2 DEF Gateway!Upgrade
<1>2. CASE Gateway!Vanishes(c)
  <2>1. c \in Underway /\ Underway' = Underway \ {c}
    BY <1>0, <1>2 DEF Gateway!Vanishes, Underway
  <2> QED
    BY <1>2, <2>1, OneEnters DEF Gateway!Vanishes
<1>3. ASSUME NEW ok \in BOOLEAN, Gateway!GuardEnds(c, ok) PROVE SlotsInv'
  <2>1. c \in Underway /\ socket[c] = "guard" /\ UNCHANGED halt
    BY <1>3 DEF Gateway!GuardEnds, Underway
  <2>2. CASE ok /\ ~Gateway!ShuttingDown /\ Runtime = "bun"
    <3>1. socket' = [socket EXCEPT ![c] = "opening"] /\ UNCHANGED <<slots, registry>>
      BY <1>3, <2>2 DEF Gateway!GuardEnds, Gateway!Admits, Gateway!BunAdmits
    <3>2. Underway' = Underway
      BY <1>0, <2>1, <2>2, <3>1 DEF Underway
    <3> QED
      BY <2>1, <3>1, <3>2, NobodyEnters
  <2>3. CASE ok /\ ~Gateway!ShuttingDown /\ Runtime # "bun"
    <3>1. (\E s \in {"open", "opening"} : socket' = [socket EXCEPT ![c] = s]) /\ Gateway!Registers(c)
      BY <1>3, <2>3 DEF Gateway!GuardEnds, Gateway!Admits, Gateway!NodeAdmits, Gateway!DenoAdmits, Gateway!WorkersAdmits
    <3>2. Underway' = Underway \ {c}
      BY <1>0, <2>3, <3>1 DEF Underway
    <3> QED
      BY <2>1, <3>1, <3>2, OneEnters DEF Gateway!Registers
  <2>4. CASE ~(ok /\ ~Gateway!ShuttingDown)
    <3>1. socket' = [socket EXCEPT ![c] = "refused"] /\ Gateway!Release /\ UNCHANGED registry
      BY <1>3, <2>4 DEF Gateway!GuardEnds
    <3>2. Underway' = Underway \ {c}
      BY <1>0, <3>1 DEF Underway
    <3> QED
      BY <2>1, <3>1, <3>2, OneEnters
  <2> QED
    BY <2>2, <2>3, <2>4
<1>4. CASE Runtime = "bun" /\ Gateway!BunOpens(c)
  <2>1. c \in Underway /\ Underway' = Underway \ {c}
    BY <1>0, <1>4 DEF Gateway!BunOpens, Underway
  <2> QED
    BY <1>4, <2>1, OneEnters DEF Gateway!BunOpens, Gateway!Registers
<1>5. CASE Runtime = "deno" /\ Gateway!DenoOpens(c)
  <2>1. Underway' = Underway
    BY <1>0, <1>5 DEF Gateway!DenoOpens, Underway
  <2> QED
    BY <1>5, <2>1, NobodyEnters DEF Gateway!DenoOpens
<1> QED
  BY <1>1, <1>2, <1>3, <1>4, <1>5 DEF Gateway!AsksIn

LEMMA TalkKeepsSlots ==
  ASSUME Gateway!SocketsAssumption, ConnectionsInv, SlotsInv, NEW c \in Clients,
         Gateway!Converses(c) \/ Gateway!Binds(c) \/ Gateway!Parts(c)
  PROVE  SlotsInv'
<1>0. DOMAIN socket = Clients /\ UNCHANGED <<slots, halt>>
  BY DEF ConnectionsInv, Gateway!Converses, Gateway!Binds, Gateway!Parts, Gateway!Message, Gateway!Oversized,
         Gateway!Handled, Gateway!Connected, Gateway!BindEnds, Gateway!Left, Gateway!Farewell, Gateway!FarewellEnds,
         Gateway!Terminates, Gateway!Closed
<1>1. registry' = registry \/ registry' = registry \ {c}
  BY DEF Gateway!Converses, Gateway!Binds, Gateway!Parts, Gateway!Message, Gateway!Buffer, Gateway!Enqueue, Gateway!Oversized,
         Gateway!Handled, Gateway!Connected, Gateway!BindEnds, Gateway!Left, Gateway!Farewell, Gateway!FarewellEnds,
         Gateway!Terminates, Gateway!Closed
<1>2. \/ UNCHANGED socket
      \/ socket[c] \in {"open", "closing"} /\ \E s \in {"open", "closing", "closed"} : socket' = [socket EXCEPT ![c] = s]
  <2>1. CASE Gateway!Message(c)
    <3>1. socket[c] \in {"open", "closing"} /\ \E s \in {socket[c], "closing"} : socket' = [socket EXCEPT ![c] = s]
      BY <2>1 DEF Gateway!Message, Gateway!Buffer, Gateway!Enqueue
    <3> QED
      BY <3>1
  <2>2. CASE ~Gateway!Message(c)
    BY <2>2 DEF Gateway!Converses, Gateway!Binds, Gateway!Parts, Gateway!Oversized,
         Gateway!Handled, Gateway!Connected, Gateway!BindEnds, Gateway!Left, Gateway!Farewell, Gateway!FarewellEnds,
         Gateway!Terminates, Gateway!Closed
  <2> QED
    BY <2>1, <2>2
<1>3. Underway' = Underway
  BY <1>0, <1>2 DEF Underway
<1> QED
  BY <1>0, <1>1, <1>3, NobodyEnters

LEMMA HaltKeepsSlots ==
  ASSUME Gateway!SocketsAssumption, ConnectionsInv, SlotsInv,
         Gateway!Shutdown \/ Gateway!HaltStep \/ UNCHANGED Gateway!socketVars
  PROVE  SlotsInv'
<1>0. DOMAIN socket = Clients /\ MaxConnections \in Nat
  BY DEF ConnectionsInv, Gateway!SocketsAssumption
<1>1. ASSUME UNCHANGED <<slots, registry>>, Underway' = Underway, halt # "ended", halt' # "ended" PROVE SlotsInv'
  BY <1>1 DEF SlotsInv
<1>2. ASSUME Gateway!Forgets, UNCHANGED socket, halt' = "ended" PROVE SlotsInv'
  <2>1. registry' = {} /\ slots' = 0 /\ Underway' = Underway /\ IsFiniteSet({}) /\ Cardinality({}) = 0
    BY <1>2, FS_EmptySet DEF Gateway!Forgets, Underway
  <2>2. Cardinality(Underway) \in Nat /\ Cardinality(registry) \in Nat
    BY FS_CardinalityType DEF SlotsInv
  <2> QED
    BY <1>0, <1>2, <2>1, <2>2 DEF SlotsInv
<1>3. CASE Gateway!Shutdown
  BY <1>1, <1>3 DEF Gateway!Shutdown, Underway
<1>4. ASSUME NEW late \in BOOLEAN, Gateway!UpgradesOver(late) PROVE SlotsInv'
  <2>1. Underway' = Underway
    BY <1>0, <1>4 DEF Gateway!UpgradesOver, Underway
  <2> QED
    BY <1>1, <1>4, <2>1 DEF Gateway!UpgradesOver
<1>5. ASSUME NEW late \in BOOLEAN, Gateway!SocketsOver(late) PROVE SlotsInv'
  BY <1>1, <1>2, <1>5 DEF Gateway!SocketsOver, Underway
<1>6. ASSUME NEW late \in BOOLEAN, Gateway!ServersOver(late) PROVE SlotsInv'
  BY <1>2, <1>6 DEF Gateway!ServersOver
<1>7. CASE UNCHANGED Gateway!socketVars
  BY <1>7 DEF Gateway!socketVars, SlotsInv, Underway
<1> QED
  BY <1>3, <1>4, <1>5, <1>6, <1>7
  DEF Gateway!HaltStep, Gateway!Waits, Gateway!BunHalts, Gateway!DenoHalts, Gateway!WorkersHalts

\* A step of a client that shutdown need not know of.
LEMMA ShutdownGoesOn ==
  ASSUME HaltInv, UNCHANGED <<halt, waits, hurried>>,
         \A d \in Clients :
           /\ socket'[d] = "guard" => socket[d] = "guard" \/ halt = "no"
           /\ Runtime = "node" => socket'[d] # "opening"
           /\ Runtime = "node" /\ bind'[d] # "no" => bind[d] # "no" \/ socket[d] = "guard"
           /\ Gateway!Settled(d) => Gateway!Settled(d)'
  PROVE  HaltInv'
BY DEF HaltInv

LEMMA AsksKeepHalt ==
  ASSUME Gateway!SocketsAssumption, ConnectionsInv, HaltInv, NEW c \in Clients,
         Gateway!AsksIn(c) \/ (Runtime = "bun" /\ Gateway!BunOpens(c)) \/ (Runtime = "deno" /\ Gateway!DenoOpens(c))
  PROVE  HaltInv'
<1> USE DEF Gateway!Settled
<1>0. DOMAIN socket = Clients /\ DOMAIN bind = Clients /\ (Runtime = "node" => \A d \in Clients : socket[d] # "opening")
  BY DEF ConnectionsInv, HaltInv
<1>1. CASE Gateway!Upgrade(c)
  <2>1. (\E s \in {"guard", "refused"} : socket' = [socket EXCEPT ![c] = s] /\ (s = "guard" => halt = "no"))
        /\ UNCHANGED <<bind, farewell, halt, waits, hurried>>
    BY <1>1 DEF Gateway!Upgrade, Gateway!ShuttingDown
  <2> QED
    BY <1>0, <2>1, ShutdownGoesOn
<1>2. CASE Gateway!Vanishes(c)
  <2>1. socket' = [socket EXCEPT ![c] = "refused"] /\ UNCHANGED <<bind, farewell, halt, waits, hurried>>
    BY <1>2 DEF Gateway!Vanishes
  <2> QED
    BY <1>0, <2>1, ShutdownGoesOn
<1>3. ASSUME NEW ok \in BOOLEAN, Gateway!GuardEnds(c, ok) PROVE HaltInv'
  <2>1. /\ socket[c] = "guard" /\ UNCHANGED <<farewell, halt, waits, hurried>>
        /\ \E s \in {"open", "opening", "refused"} :
             socket' = [socket EXCEPT ![c] = s] /\ (Runtime = "node" => s # "opening")
        /\ bind' = bind \/ bind' = [bind EXCEPT ![c] = "connecting"]
    <3>1. socket[c] = "guard" /\ UNCHANGED <<farewell, halt, waits, hurried>>
      BY <1>3 DEF Gateway!GuardEnds
    <3>2. CASE ok /\ ~Gateway!ShuttingDown
      BY <1>3, <3>1, <3>2
      DEF Gateway!GuardEnds, Gateway!Admits, Gateway!NodeAdmits, Gateway!BunAdmits, Gateway!DenoAdmits, Gateway!WorkersAdmits,
          Gateway!Registers
    <3>3. CASE ~(ok /\ ~Gateway!ShuttingDown)
      BY <1>3, <3>1, <3>3 DEF Gateway!GuardEnds
    <3> QED
      BY <3>2, <3>3
  <2>2. bind[c] = "no"
    BY <2>1 DEF ConnectionsInv, Connection
  <2> QED
    BY <1>0, <2>1, <2>2, ShutdownGoesOn
<1>4. CASE (Runtime = "bun" /\ Gateway!BunOpens(c)) \/ (Runtime = "deno" /\ Gateway!DenoOpens(c))
  <2>1. /\ UNCHANGED <<farewell, halt, waits, hurried>> /\ socket[c] = "opening" /\ Runtime # "node"
        /\ socket' = [socket EXCEPT ![c] = "open"]
        /\ bind' = bind \/ (Runtime = "bun" /\ bind' = [bind EXCEPT ![c] = "connecting"])
    BY <1>4 DEF Gateway!BunOpens, Gateway!DenoOpens, Gateway!Registers
  <2>2. Runtime = "bun" => bind[c] = "no"
    BY <2>1 DEF ConnectionsInv, Connection
  <2> QED
    BY <1>0, <2>1, <2>2, ShutdownGoesOn
<1> QED
  BY <1>1, <1>2, <1>3, <1>4 DEF Gateway!AsksIn

LEMMA TalkKeepsHalt ==
  ASSUME Gateway!SocketsAssumption, ConnectionsInv, HaltInv, NEW c \in Clients,
         Gateway!Converses(c) \/ Gateway!Binds(c) \/ Gateway!Parts(c)
  PROVE  HaltInv'
<1>0. /\ DOMAIN socket = Clients /\ DOMAIN bind = Clients /\ DOMAIN farewell = Clients
      /\ Runtime = "node" => \A d \in Clients : socket[d] # "opening"
  BY DEF ConnectionsInv, HaltInv
<1>1. UNCHANGED <<halt, waits, hurried>>
  BY DEF Gateway!Converses, Gateway!Binds, Gateway!Parts, Gateway!Message, Gateway!Oversized,
         Gateway!Handled, Gateway!Connected, Gateway!BindEnds, Gateway!Left, Gateway!Farewell, Gateway!FarewellEnds,
         Gateway!Terminates, Gateway!Closed
<1>2. \/ UNCHANGED socket
      \/ \E s \in {"open", "closing", "closed"} : socket' = [socket EXCEPT ![c] = s]
  <2>1. CASE Gateway!Message(c)
    <3>1. socket[c] \in {"open", "closing"} /\ \E s \in {socket[c], "closing"} : socket' = [socket EXCEPT ![c] = s]
      BY <2>1 DEF Gateway!Message, Gateway!Buffer, Gateway!Enqueue
    <3> QED
      BY <3>1
  <2>2. CASE ~Gateway!Message(c)
    BY <2>2 DEF Gateway!Converses, Gateway!Binds, Gateway!Parts, Gateway!Oversized,
         Gateway!Handled, Gateway!Connected, Gateway!BindEnds, Gateway!Left, Gateway!Farewell, Gateway!FarewellEnds,
         Gateway!Terminates, Gateway!Closed
  <2> QED
    BY <2>1, <2>2
<1>3. \/ UNCHANGED bind
      \/ bind[c] \in {"connecting", "draining", "parting", "leaving"}
         /\ \E b \in {"draining", "parting", "leaving", "bound"} : bind' = [bind EXCEPT ![c] = b]
  BY DEF Gateway!Converses, Gateway!Binds, Gateway!Parts, Gateway!Message, Gateway!Oversized,
         Gateway!Handled, Gateway!Connected, Gateway!BindEnds, Gateway!Left, Gateway!Farewell, Gateway!FarewellEnds,
         Gateway!Terminates, Gateway!Closed
<1>4. farewell' = farewell \/ (farewell[c] # "done" /\ \E f : farewell' = [farewell EXCEPT ![c] = f])
  <2>1. CASE Gateway!Closed(c)
    <3>1. farewell[c] = "no"
      BY <2>1 DEF Gateway!Closed, ConnectionsInv, Connection
    <3> QED
      BY <2>1, <3>1 DEF Gateway!Closed
  <2>2. CASE Gateway!Connected(c)
    <3>1. farewell[c] # "done"
      BY <2>2 DEF Gateway!Connected, ConnectionsInv, Connection
    <3> QED
      BY <2>2, <3>1 DEF Gateway!Connected
  <2>3. CASE ~Gateway!Closed(c) /\ ~Gateway!Connected(c)
    BY <2>3 DEF Gateway!Converses, Gateway!Binds, Gateway!Parts, Gateway!Message, Gateway!Oversized,
         Gateway!Handled, Gateway!BindEnds, Gateway!Left, Gateway!Farewell, Gateway!FarewellEnds, Gateway!Terminates
  <2> QED
    BY <2>1, <2>2, <2>3
<1>5. \A d \in Clients : Gateway!Settled(d) => Gateway!Settled(d)'
  BY <1>0, <1>3, <1>4 DEF Gateway!Settled
<1>6. \A d \in Clients : /\ socket'[d] = "guard" => socket[d] = "guard"
                         /\ Runtime = "node" => socket'[d] # "opening"
  BY <1>0, <1>2
<1>7. \A d \in Clients : bind'[d] # "no" => bind[d] # "no"
  BY <1>0, <1>3
<1> QED
  BY <1>1, <1>5, <1>6, <1>7, ShutdownGoesOn

LEMMA HaltKeepsHalt ==
  ASSUME Gateway!SocketsAssumption, ConnectionsInv, HaltInv,
         Gateway!Shutdown \/ Gateway!HaltStep \/ UNCHANGED Gateway!socketVars
  PROVE  HaltInv'
<1>1. CASE Gateway!Shutdown
  BY <1>1 DEF Gateway!Shutdown, Gateway!Upgrades, HaltInv
<1>2. ASSUME NEW late \in BOOLEAN, Gateway!UpgradesOver(late) PROVE HaltInv'
  <2>1. /\ halt = "upgrades" /\ halt' = "sockets" /\ hurried' = late /\ waits' = Gateway!Tracked
        /\ UNCHANGED <<bind, farewell>>
        /\ ~late => waits \cap Gateway!Upgrades = {}
    BY <1>2 DEF Gateway!UpgradesOver, Gateway!ToAwait
  <2>2. \A c \in Clients : socket'[c] = socket[c] \/ socket'[c] = "closing"
    BY <1>2 DEF Gateway!UpgradesOver
  <2>3. ~late => \A c \in Clients : socket[c] # "guard"
    BY <2>1 DEF HaltInv, Gateway!Upgrades
  <2>4. Runtime = "node" => \A c \in Clients : bind[c] # "no" => c \in waits' \/ Gateway!Settled(c)
    BY <2>1 DEF Gateway!Tracked
  <2> QED
    BY <2>1, <2>2, <2>3, <2>4 DEF HaltInv, Gateway!Settled
<1>3. ASSUME NEW late \in BOOLEAN, Gateway!SocketsOver(late) PROVE HaltInv'
  BY <1>3 DEF Gateway!SocketsOver, Gateway!Forgets, HaltInv, Gateway!Settled
<1>4. ASSUME NEW late \in BOOLEAN, Gateway!ServersOver(late) PROVE HaltInv'
  BY <1>4 DEF Gateway!ServersOver, Gateway!Forgets, HaltInv, Gateway!Settled
<1>5. CASE UNCHANGED Gateway!socketVars
  BY <1>5 DEF Gateway!socketVars, HaltInv, Gateway!Settled
<1> QED
  BY <1>1, <1>2, <1>3, <1>4, <1>5
  DEF Gateway!HaltStep, Gateway!Waits, Gateway!BunHalts, Gateway!DenoHalts, Gateway!WorkersHalts

LEMMA SocketStepKeeps ==
  ASSUME Gateway!SocketsAssumption, SocketInv, [Gateway!Next]_(Gateway!socketVars)
  PROVE  SocketInv'
<1>1. ASSUME NEW c \in Clients, Gateway!AsksIn(c) \/ (Runtime = "bun" /\ Gateway!BunOpens(c)) \/ (Runtime = "deno" /\ Gateway!DenoOpens(c))
      PROVE  SocketInv'
  BY <1>1, AsksKeep, AsksKeepSlots, AsksKeepHalt DEF SocketInv
<1>2. ASSUME NEW c \in Clients, Gateway!Converses(c) \/ Gateway!Binds(c) \/ Gateway!Parts(c) PROVE SocketInv'
  <2>1. ConnectionsInv'
    BY <1>2, MessageKeeps, HandlersKeep, PartingKeeps DEF SocketInv, Gateway!Converses, Gateway!Binds
  <2> QED
    BY <1>2, <2>1, TalkKeepsSlots, TalkKeepsHalt DEF SocketInv
<1>3. CASE Gateway!Shutdown \/ Gateway!HaltStep \/ UNCHANGED Gateway!socketVars
  BY <1>3, HaltKeeps, HaltKeepsSlots, HaltKeepsHalt DEF SocketInv
<1> QED
  BY <1>1, <1>2, <1>3
  DEF Gateway!Next, Gateway!NodeStep, Gateway!BunStep, Gateway!DenoStep, Gateway!WorkersStep,
      Gateway!BunGuard, Gateway!BunMessages, Gateway!BunHandlers, Gateway!BunParts,
      Gateway!DenoGuard, Gateway!DenoMessages, Gateway!DenoHandlers, Gateway!DenoParts,
      Gateway!WorkersGuard, Gateway!WorkersMessages, Gateway!WorkersHandlers, Gateway!WorkersParts

LEMMA SocketsInitial == Gateway!SocketsAssumption /\ Gateway!Init => SocketInv
<1>1. Gateway!Init => HaltInv
  BY DEF Gateway!Init, HaltInv
<1> QED
  BY <1>1, ConnectionsInitial, SlotsInitial DEF SocketInv

LEMMA NothingAhead == ASSUME NEW q \in Seq(Nat) PROVE <<>> \o q = q /\ q \o <<>> = q /\ DOMAIN q = 1..Len(q)
OBVIOUS

LEMMA OneAhead ==
  ASSUME NEW b \in Nat, NEW q \in Seq(Nat)
  PROVE  /\ <<b>> \o q \in Seq(Nat) /\ Len(<<b>> \o q) = Len(q) + 1 /\ (<<b>> \o q)[1] = b
         /\ \A i \in 1..Len(q) : (<<b>> \o q)[i + 1] = q[i]
OBVIOUS

LEMMA LinesInOrder == ASSUME Gateway!SocketsAssumption, ConnectionsInv PROVE Gateway!HandlersInOrder
<1> SUFFICES ASSUME NEW c \in Clients
             PROVE  LET line == (IF busy[c] = 0 THEN <<>> ELSE <<busy[c]>>) \o queue[c] \o early[c]
                    IN /\ \A i, j \in DOMAIN line : i < j => line[i] < line[j]
                       /\ farewell[c] \in {"running", "done"} => line = <<>> /\ bind[c] # "connecting"
                       /\ bind[c] # "connecting" => early[c] = <<>>
  BY DEF Gateway!HandlersInOrder
<1> DEFINE line == (IF busy[c] = 0 THEN <<>> ELSE <<busy[c]>>) \o queue[c] \o early[c]
<1>0. Connection(socket[c], bind[c], early[c], queue[c], busy[c], sent[c], farewell[c])
  BY DEF ConnectionsInv
<1>1. early[c] \in Seq(Nat) /\ queue[c] \in Seq(Nat) /\ busy[c] \in Nat /\ <<>> \in Seq(Nat)
  <2>1. Waiting(early[c], sent[c]) /\ Waiting(queue[c], sent[c]) /\ sent[c] \in Nat /\ busy[c] \in 0..sent[c]
    BY <1>0 DEF Connection
  <2> QED
    BY <2>1 DEF Waiting
<1>2. CASE busy[c] = 0
  <2>1. queue[c] = <<>>
    BY <1>0, <1>2 DEF Connection
  <2>2. line = early[c] /\ DOMAIN line = 1..Len(early[c])
    BY <1>1, <1>2, <2>1, NothingAhead
  <2>3. \A i, j \in DOMAIN line : i < j => line[i] < line[j]
    BY <1>0, <2>2 DEF Connection, Waiting
  <2> HIDE DEF line
  <2> QED
    BY <1>0, <2>2, <2>3 DEF Connection, line
<1>3. CASE busy[c] # 0
  <2> DEFINE q == queue[c]
             m == <<busy[c]>> \o q
  <2>1. early[c] = <<>> /\ bind[c] # "connecting" /\ farewell[c] \notin {"running", "done"}
    BY <1>0, <1>3 DEF Connection
  <2>2. m \in Seq(Nat) /\ Len(m) = Len(q) + 1 /\ m[1] = busy[c] /\ \A i \in 1..Len(q) : m[i + 1] = q[i]
    BY <1>1, OneAhead
  <2>3. line = m
    BY <1>1, <1>3, <2>1, <2>2, NothingAhead
  <2>4. Len(q) \in Nat /\ DOMAIN m = 1..(Len(q) + 1)
    BY <1>1, <2>2, NothingAhead
  <2>5. Waiting(q, sent[c]) /\ \A i \in 1..Len(q) : busy[c] < q[i]
    BY <1>0, <1>3 DEF Connection
  <2> HIDE DEF m, q
  <2>6. \A i, j \in DOMAIN m : i < j => m[i] < m[j]
    <3> SUFFICES ASSUME NEW i \in DOMAIN m, NEW j \in DOMAIN m, i < j PROVE m[i] < m[j]
      OBVIOUS
    <3>1. PICK b \in 1..Len(q) : m[j] = q[b] /\ j = b + 1
      <4>1. j - 1 \in 1..Len(q) /\ j = (j - 1) + 1
        BY <2>4
      <4> QED
        BY <2>2, <4>1
    <3>2. CASE i = 1
      BY <2>2, <2>5, <3>1, <3>2
    <3>3. CASE i # 1
      <4>1. i - 1 \in 1..Len(q) /\ i = (i - 1) + 1
        BY <2>4, <3>3
      <4>2. PICK a \in 1..Len(q) : m[i] = q[a] /\ i = a + 1
        BY <2>2, <4>1
      <4>3. a < b
        BY <2>4, <3>1, <4>2
      <4>4. q[a] < q[b]
        BY <2>5, <4>3 DEF Waiting
      <4> QED
        BY <3>1, <4>2, <4>4
    <3> QED
      BY <3>2, <3>3
  <2> HIDE DEF line
  <2> QED
    BY <2>1, <2>3, <2>6 DEF line
<1> QED
  BY <1>2, <1>3

\* HandlersInOrder, WithinLimits and ShutdownDrains: whatever connects, is sent, closes
\* and is refused on any runtime, handlers see the messages of a connection in their
\* order and its end last, connections and queues keep their limits, and a shutdown of
\* Node that is not hurried leaves nobody behind (the gateway services of websockets).
THEOREM SocketsKeepOrder ==
  Gateway!SocketsAssumption =>
    (Gateway!Spec => [](Gateway!HandlersInOrder /\ Gateway!WithinLimits /\ Gateway!ShutdownDrains))
<1> SUFFICES ASSUME Gateway!SocketsAssumption
             PROVE  Gateway!Spec => [](Gateway!HandlersInOrder /\ Gateway!WithinLimits /\ Gateway!ShutdownDrains)
  OBVIOUS
<1>1. SocketInv => Gateway!WithinLimits
  BY SameCount DEF SocketInv, SlotsInv, ConnectionsInv, Connection, Waiting, Gateway!WithinLimits
<1>2. SocketInv => Gateway!ShutdownDrains
  BY DEF SocketInv, HaltInv, ConnectionsInv, Connection, Gateway!ShutdownDrains, Gateway!AllLeft, Gateway!Settled
<1> QED
  BY SocketsInitial, SocketStepKeeps, LinesInOrder, <1>1, <1>2, PTL DEF Gateway!Spec, SocketInv

---------------------------------------------------------------------------
\* MessageTransports.  LinkInv: one start is under way at a time, of a
\* transport that is neither closed nor being closed.

CONSTANTS Transport, MaxCloses
VARIABLES service, open, caller, closes, frame, pending, aborted, serving, replies
Link == INSTANCE MessageTransports

\* One start is under way at a time, of a transport that is neither closed nor being closed.
LinkInv ==
  /\ {open, listening, closing, handler} \subseteq BOOLEAN
  /\ attempt \in {"none", "running"} /\ stop \in {"no", "waiting", "detaching", "ended", "failed"}
  /\ frame = [r \in Requests |-> frame[r]] /\ serving = [r \in Requests |-> serving[r]]
  /\ attempt = "running" => handler /\ ~closing /\ ~open /\ (listening => Transport = "nats")
  /\ attempt = "none" /\ listening => open
  /\ stop = "waiting" => attempt = "running"
  /\ stop = "detaching" => attempt = "none" /\ open
  /\ service = "ready" => open /\ listening /\ handler /\ ~closing
  /\ closing /\ stop \in {"ended", "failed"} => ~listening /\ (Transport # "tcp" => pending = {})

LinkParts == <<service, open, attempt, listening, closing, handler, stop>>

LEMMA LinkInitial == Link!Init => LinkInv
BY DEF Link!Init, LinkInv

\* listen() and close() start no handler.
LEMMA LinkLife ==
  ASSUME LinkInv, \/ \E l \in Listeners : Link!Listen(l)
                  \/ \E ok \in BOOLEAN : Link!ListenEnds(ok) \/ Link!Detaches(ok)
                  \/ Link!Close \/ UNCHANGED Link!transportVars
  PROVE  LinkInv' /\ Link!NoWorkOnceOver
<1>0. ASSUME UNCHANGED <<frame, serving>> PROVE Link!NoWorkOnceOver
  BY <1>0 DEF Link!NoWorkOnceOver, Link!PublishesWhat, Link!Begins
<1>1. ASSUME NEW l \in Listeners, Link!Listen(l) PROVE LinkInv' /\ Link!NoWorkOnceOver
  <2>1. CASE UNCHANGED Link!linkVars /\ UNCHANGED attempt /\ (service' = service \/ service' = "failed")
    BY <1>0, <1>1, <2>1 DEF Link!Listen, Link!linkVars, Link!reqVars, LinkInv
  <2>2. CASE ~open /\ attempt # "running" /\ service' = "starting" /\ attempt' = "running" /\ closing' = FALSE /\ handler' = TRUE
             /\ listening' = (Transport = "nats" \/ listening)
    BY <1>0, <1>1, <2>2 DEF Link!Listen, Link!reqVars, LinkInv
  <2> QED
    BY <1>1, <2>1, <2>2 DEF Link!Listen, Link!Joins
<1>2. ASSUME NEW ok \in BOOLEAN, Link!ListenEnds(ok) PROVE LinkInv' /\ Link!NoWorkOnceOver
  <2>1. Link!NoWorkOnceOver
    BY <1>2 DEF Link!ListenEnds, Link!NoWorkOnceOver, Link!PublishesWhat, Link!Begins
  <2>2. CASE ok /\ stop = "waiting"
    BY <1>2, <2>1, <2>2 DEF Link!ListenEnds, LinkInv
  <2>3. CASE ok /\ stop # "waiting"
    BY <1>2, <2>1, <2>3 DEF Link!ListenEnds, LinkInv
  <2>4. CASE ~ok
    BY <1>2, <2>1, <2>4 DEF Link!ListenEnds, LinkInv
  <2> QED
    BY <2>2, <2>3, <2>4
<1>3. ASSUME NEW ok \in BOOLEAN, Link!Detached(ok), attempt = "none", UNCHANGED <<attempt, frame, serving>>, closing' \in BOOLEAN
      PROVE  LinkInv' /\ Link!NoWorkOnceOver
  BY <1>0, <1>3 DEF Link!Detached, Link!UnsettledByClose, LinkInv
<1>4. CASE Link!Close
  <2>1. CASE attempt = "running"
    BY <1>0, <1>4, <2>1 DEF Link!Close, Link!linkVars, LinkInv
  <2>2. CASE attempt = "none" /\ \E ok \in BOOLEAN : Link!Detached(ok)
    BY <1>3, <1>4, <2>2 DEF Link!Close
  <2>3. CASE attempt = "none" /\ ~\E ok \in BOOLEAN : Link!Detached(ok)
    BY <1>0, <1>4, <2>3 DEF Link!Close, LinkInv
  <2> QED
    BY <2>1, <2>2, <2>3 DEF LinkInv
<1>5. ASSUME NEW ok \in BOOLEAN, Link!Detaches(ok) PROVE LinkInv' /\ Link!NoWorkOnceOver
  BY <1>3, <1>5 DEF Link!Detaches, LinkInv
<1>6. CASE UNCHANGED Link!transportVars
  BY <1>0, <1>6 DEF Link!transportVars, Link!svcVars, Link!linkVars, Link!reqVars, LinkInv
<1> QED
  BY <1>1, <1>2, <1>4, <1>5, <1>6

LEMMA LinkRequests ==
  ASSUME LinkInv, NEW r \in Requests,
         \/ Link!Send(r) \/ Link!Aborts(r) \/ Link!TimesOut(r) \/ Link!Arrives(r) \/ Link!HandlerEnds(r) \/ Link!ReplyArrives(r)
         \/ \E ok \in BOOLEAN : Link!Publish(r, ok) \/ Link!Connects(r, ok) \/ Link!Emit(r, ok)
  PROVE  LinkInv' /\ Link!NoWorkOnceOver
<1> USE DEF Link!svcVars, Link!linkVars
<1>0. ASSUME UNCHANGED LinkParts, pending' \subseteq pending \/ ~closing,
             frame' = frame \/ \E f : frame' = [frame EXCEPT ![r] = f],
             serving' = serving \/ \E f : serving' = [serving EXCEPT ![r] = f]
      PROVE  LinkInv'
  BY <1>0 DEF LinkParts, LinkInv
<1>d. DOMAIN frame = Requests /\ DOMAIN serving = Requests
  <2>1. DOMAIN [q \in Requests |-> frame[q]] = Requests /\ DOMAIN [q \in Requests |-> serving[q]] = Requests
    OBVIOUS
  <2> QED
    BY <2>1 DEF LinkInv
<1>1. CASE Link!Send(r)
  <2>1. UNCHANGED LinkParts /\ (pending' = pending \/ ~closing) /\ UNCHANGED serving
        /\ \E f \in {"refused", "waiting", "connecting", "deferred"} : frame' = [frame EXCEPT ![r] = f]
    BY <1>1 DEF Link!Send, LinkParts
  <2> QED
    BY <1>0, <1>d, <2>1 DEF Link!NoWorkOnceOver, Link!PublishesWhat, Link!Begins
<1>2. CASE Link!Aborts(r) \/ Link!TimesOut(r) \/ Link!ReplyArrives(r)
  <2>1. UNCHANGED LinkParts /\ pending' \subseteq pending /\ UNCHANGED <<serving, frame>>
    BY <1>2 DEF Link!Aborts, Link!TimesOut, Link!ReplyArrives, LinkParts
  <2> QED
    BY <1>0, <1>d, <2>1 DEF Link!NoWorkOnceOver, Link!PublishesWhat, Link!Begins
<1>3. CASE Link!Arrives(r)
  <2>1. UNCHANGED LinkParts /\ pending' = pending
        /\ (frame' = frame \/ frame' = [frame EXCEPT ![r] = "served"])
        /\ (serving' = serving \/ serving' = [serving EXCEPT ![r] = "running"])
        /\ (listening \/ (Transport = "redis" /\ attempt = "running"))
    BY <1>3 DEF Link!Arrives, LinkParts
  <2>2. ~(closing /\ stop \in {"ended", "failed"})
    BY <2>1 DEF LinkInv
  <2>3. \A q \in Requests : ~Link!PublishesWhat(q)
    BY <1>d, <2>1 DEF Link!PublishesWhat
  <2> QED
    BY <1>0, <2>1, <2>2, <2>3 DEF Link!NoWorkOnceOver
<1>4. CASE Link!HandlerEnds(r)
  <2>1. UNCHANGED LinkParts /\ UNCHANGED <<pending, frame>> /\ serving' = [serving EXCEPT ![r] = "done"]
    BY <1>4 DEF Link!HandlerEnds, LinkParts
  <2> QED
    BY <1>0, <1>d, <2>1 DEF Link!NoWorkOnceOver, Link!PublishesWhat, Link!Begins
<1>5. ASSUME NEW ok \in BOOLEAN, Link!Publish(r, ok) PROVE LinkInv' /\ Link!NoWorkOnceOver
  <2>1. UNCHANGED LinkParts /\ pending' \subseteq pending /\ UNCHANGED serving
        /\ \E f \in {"published", "dropped"} :
             frame' = [frame EXCEPT ![r] = f] /\ (f = "published" => Link!Publishes(r))
    BY <1>5 DEF Link!Publish, LinkParts
  <2> QED
    BY <1>0, <1>d, <2>1 DEF Link!NoWorkOnceOver, Link!PublishesWhat, Link!Begins, Link!Publishes
<1>6. ASSUME NEW ok \in BOOLEAN, Link!Connects(r, ok) PROVE LinkInv' /\ Link!NoWorkOnceOver
  <2>1. UNCHANGED LinkParts /\ pending' \subseteq pending /\ UNCHANGED serving /\ frame[r] = "connecting"
        /\ \E f : frame' = [frame EXCEPT ![r] = f]
    BY <1>6 DEF Link!Connects, LinkParts
  <2> QED
    BY <1>0, <1>d, <2>1 DEF Link!NoWorkOnceOver, Link!PublishesWhat, Link!Begins
<1>7. ASSUME NEW ok \in BOOLEAN, Link!Emit(r, ok) PROVE LinkInv' /\ Link!NoWorkOnceOver
  <2>1. UNCHANGED LinkParts /\ UNCHANGED <<pending, serving>> /\ Transport = "redis"
        /\ \E f \in {"published", "dropped", "refused"} :
             frame' = [frame EXCEPT ![r] = f] /\ (f = "published" => ~closing)
    BY <1>7 DEF Link!Emit, LinkParts
  <2> QED
    BY <1>0, <1>d, <2>1 DEF Link!NoWorkOnceOver, Link!PublishesWhat, Link!Begins
<1> QED
  BY <1>1, <1>2, <1>3, <1>4, <1>5, <1>6, <1>7

\* ServiceMatchesTransport and NoWorkOnceOver: however calls of listen(), close() and
\* requests interleave on any transport, a ready service listens with its handler, a
\* close that has ended leaves no request pending (TCP's time out), and nothing is
\* published or handled after it (MicroserviceLifecycleService and the transports).
THEOREM LinksCloseClean ==
  Link!Spec => []Link!ServiceMatchesTransport /\ [][Link!NoWorkOnceOver]_(Link!transportVars)
<1>1. LinkInv /\ [Link!Next]_(Link!transportVars) => LinkInv' /\ Link!NoWorkOnceOver
  BY LinkLife, LinkRequests DEF Link!Next
<1>2. LinkInv => Link!ServiceMatchesTransport
  BY DEF LinkInv, Link!ServiceMatchesTransport, Link!ReadyIsListening, Link!ClosedLeavesNoRequest
<1> QED
  BY LinkInitial, <1>1, <1>2, PTL DEF Link!Spec

---------------------------------------------------------------------------
\* MessageHandlers.  PacketInv: where a packet is says which of its
\* handlers may run and whether its scope is open.

CONSTANTS Packets, Kind, Handlers, Matches, Token, Scoped
VARIABLES packet, run, scope, instances
Inbound == INSTANCE MessageHandlers

\* Where a packet is says which of its handlers may run and what its scope is.
PacketInv(p) ==
  /\ \A h \in Handlers \ Matches[p] : run[p][h] = "no"
  /\ packet[p] \in {"no", "singletons"} => scope[p] = "no" /\ \A h \in Inbound!InScope(p) : run[p][h] = "no"
  /\ packet[p] = "no" => \A h \in Handlers : run[p][h] = "no"
  /\ packet[p] \in {"singletons", "scoped", "disposing"} => Matches[p] # {}
  /\ packet[p] = "scoped" => scope[p] = "open" /\ Inbound!Over(p, Inbound!Shared(p))
  /\ packet[p] = "disposing" => scope[p] = "disposed" /\ Inbound!Over(p, Matches[p])
  /\ packet[p] \in {"answered", "failed"} => scope[p] # "open" /\ \A h \in Handlers : ~Inbound!Busy(p, h)
  /\ packet[p] \in {"answered", "failed"} /\ (\E h \in Inbound!InScope(p) : run[p][h] # "no") => Inbound!Over(p, Matches[p])
  /\ Kind[p] = "event" => packet[p] # "failed"
  /\ packet[p] = "answered" /\ Kind[p] # "event" => \E h \in Matches[p] : run[p][h] = "ok"
  /\ \A h \in Inbound!Shared(p) : run[p][h] = "resolving" => instances[Token[h]] = "resolving"

DispatchInv ==
  /\ packet \in [Packets -> {"no", "singletons", "scoped", "disposing", "answered", "failed"}]
  /\ scope \in [Packets -> {"no", "open", "disposed"}]
  /\ run \in [Packets -> [Handlers -> {"no", "resolving", "running", "ok", "failed"}]]
  /\ instances \in [Inbound!Tokens -> {"none", "resolving", "ready"}]
  /\ \A t \in Inbound!Tokens : instances[t] = "resolving" => t \notin Scoped
  /\ \A p \in Packets : PacketInv(p)

LEMMA DispatchInitial == Inbound!HandlersAssumption /\ Inbound!Init => DispatchInv
<1> SUFFICES ASSUME Inbound!HandlersAssumption, Inbound!Init PROVE DispatchInv
  OBVIOUS
<1>1. ASSUME NEW p \in Packets PROVE PacketInv(p)
  BY <1>1 DEF Inbound!Init, PacketInv, Inbound!HandlersAssumption, Inbound!InScope, Inbound!Shared
<1> QED
  BY <1>1 DEF Inbound!Init, DispatchInv

\* A step of one packet.
LEMMA OtherPackets ==
  ASSUME DispatchInv, NEW p \in Packets,
         \A q \in Packets \ {p} : packet'[q] = packet[q] /\ run'[q] = run[q] /\ scope'[q] = scope[q],
         \A t \in Inbound!Tokens : instances[t] = "resolving" => instances'[t] = "resolving",
         Inbound!HandlersAssumption
  PROVE  \A q \in Packets \ {p} : PacketInv(q)'
<1> SUFFICES ASSUME NEW q \in Packets \ {p} PROVE PacketInv(q)'
  OBVIOUS
<1>1. packet'[q] = packet[q] /\ run'[q] = run[q] /\ scope'[q] = scope[q] /\ PacketInv(q) /\ Matches[q] \subseteq Handlers
  BY DEF DispatchInv, Inbound!HandlersAssumption
<1>2. \A h \in Inbound!Shared(q) : Token[h] \in Inbound!Tokens
  BY <1>1 DEF Inbound!Shared, Inbound!Tokens
<1> QED
  BY <1>1, <1>2 DEF PacketInv, Inbound!Over, Inbound!Busy

LEMMA OpensScopeKeeps ==
  ASSUME Inbound!HandlersAssumption, DispatchInv, NEW p \in Packets, Inbound!OpensScope(p), Matches[p] # {},
         packet[p] \in {"no", "singletons"}, Inbound!Over(p, Inbound!Shared(p))
  PROVE  DispatchInv'
<1>0. Matches[p] \subseteq Handlers /\ PacketInv(p)
  BY DEF Inbound!HandlersAssumption, DispatchInv
<1> DEFINE now == [h \in Handlers |-> IF h \notin Inbound!InScope(p) THEN run[p][h]
                                      ELSE IF Token[h] \notin Scoped /\ Inbound!Cached(Token[h]) THEN "running" ELSE "resolving"]
<1>1. /\ packet' = [packet EXCEPT ![p] = "scoped"] /\ scope' = [scope EXCEPT ![p] = "open"] /\ UNCHANGED instances
      /\ run' = [run EXCEPT ![p] = now]
  BY DEF Inbound!OpensScope, Inbound!Invokes
<1>2. now \in [Handlers -> {"no", "resolving", "running", "ok", "failed"}]
      /\ \A h \in Handlers : now[h] = IF h \in Inbound!InScope(p) THEN "resolving" ELSE run[p][h]
  BY DEF DispatchInv, Inbound!InScope
<1> HIDE DEF now
<1>3. packet'[p] = "scoped" /\ scope'[p] = "open" /\ run'[p] = now
  BY <1>1 DEF DispatchInv
<1>4. PacketInv(p)'
  BY <1>0, <1>1, <1>2, <1>3 DEF PacketInv, Inbound!Over, Inbound!Busy, Inbound!InScope, Inbound!Shared
<1>5. \A q \in Packets \ {p} : PacketInv(q)'
  <2>1. \A q \in Packets \ {p} : packet'[q] = packet[q] /\ run'[q] = run[q] /\ scope'[q] = scope[q]
    BY <1>1 DEF DispatchInv
  <2> QED
    BY <1>1, <2>1, OtherPackets
<1> QED
  BY <1>1, <1>2, <1>4, <1>5 DEF DispatchInv

LEMMA ReceiveKeeps ==
  ASSUME Inbound!HandlersAssumption, DispatchInv, NEW p \in Packets, Inbound!Receive(p)
  PROVE  DispatchInv'
<1>0. Matches[p] \subseteq Handlers /\ PacketInv(p) /\ packet[p] = "no" /\ \A h \in Handlers : run[p][h] = "no"
  BY DEF Inbound!HandlersAssumption, DispatchInv, Inbound!Receive, PacketInv
<1>1. Inbound!Cardinality({}) = 0
  <2>1. Inbound!Cardinality({}) = Cardinality({})
    BY DEF Inbound!Cardinality, Cardinality
  <2> QED
    BY <2>1, FS_EmptySet
<1>2. ASSUME NEW x \in {"failed", "answered"}, packet' = [packet EXCEPT ![p] = x], UNCHANGED <<run, scope, instances>>,
             x = "failed" => Kind[p] # "event", x = "answered" => Kind[p] = "event"
      PROVE  DispatchInv'
  <2>1. PacketInv(p)'
    BY <1>0, <1>2 DEF PacketInv, DispatchInv, Inbound!Over, Inbound!Busy, Inbound!InScope, Inbound!Shared
  <2>2. \A q \in Packets \ {p} : PacketInv(q)'
    <3>1. \A q \in Packets \ {p} : packet'[q] = packet[q] /\ run'[q] = run[q] /\ scope'[q] = scope[q]
      BY <1>2 DEF DispatchInv
    <3> QED
      BY <1>2, <3>1, OtherPackets
  <2> QED
    BY <1>2, <2>1, <2>2 DEF DispatchInv
<1>3. CASE Kind[p] # "event" /\ Inbound!Cardinality(Matches[p]) # 1
  BY <1>2, <1>3 DEF Inbound!Receive
<1>4. CASE ~(Kind[p] # "event" /\ Inbound!Cardinality(Matches[p]) # 1) /\ Matches[p] = {}
  <2>1. Kind[p] = "event"
    BY <1>1, <1>4
  <2> QED
    BY <1>2, <1>4, <2>1 DEF Inbound!Receive
<1>5. CASE ~(Kind[p] # "event" /\ Inbound!Cardinality(Matches[p]) # 1) /\ Matches[p] # {} /\ Inbound!Shared(p) = {}
  <2>1. Inbound!OpensScope(p) /\ Inbound!Over(p, Inbound!Shared(p))
    BY <1>5 DEF Inbound!Receive, Inbound!Over
  <2> QED
    BY <1>0, <1>5, <2>1, OpensScopeKeeps
<1>6. CASE ~(Kind[p] # "event" /\ Inbound!Cardinality(Matches[p]) # 1) /\ Matches[p] # {} /\ Inbound!Shared(p) # {}
  <2> DEFINE now == [h \in Handlers |-> IF h \notin Inbound!Shared(p) THEN run[p][h]
                                        ELSE IF Token[h] \notin Scoped /\ Inbound!Cached(Token[h]) THEN "running" ELSE "resolving"]
  <2>1. /\ packet' = [packet EXCEPT ![p] = "singletons"] /\ UNCHANGED scope /\ run' = [run EXCEPT ![p] = now]
        /\ instances' = [t \in Inbound!Tokens |->
             IF t \notin Scoped /\ instances[t] = "none" /\ \E h \in Inbound!Shared(p) : Token[h] = t THEN "resolving" ELSE instances[t]]
    BY <1>6 DEF Inbound!Receive, Inbound!Invokes, Inbound!Resolves
  <2>2. /\ now \in [Handlers -> {"no", "resolving", "running", "ok", "failed"}]
        /\ \A h \in Handlers : now[h] = "no" \/ (h \in Inbound!Shared(p) /\ now[h] \in {"running", "resolving"})
        /\ \A h \in Inbound!Shared(p) : now[h] = "resolving" => instances[Token[h]] # "ready"
    BY <1>0 DEF DispatchInv, Inbound!Shared, Inbound!InScope, Inbound!Cached
  <2> HIDE DEF now
  <2>3. packet'[p] = "singletons" /\ scope'[p] = scope[p] /\ run'[p] = now
    BY <2>1 DEF DispatchInv
  <2>4. \A h \in Inbound!Shared(p) : now[h] = "resolving" => instances'[Token[h]] = "resolving"
    <3> SUFFICES ASSUME NEW h \in Inbound!Shared(p), now[h] = "resolving" PROVE instances'[Token[h]] = "resolving"
      OBVIOUS
    <3>1. Token[h] \in Inbound!Tokens /\ Token[h] \notin Scoped /\ instances[Token[h]] # "ready"
      BY <1>0, <2>2 DEF Inbound!Tokens, Inbound!Shared, Inbound!InScope
    <3>2. instances[Token[h]] \in {"none", "resolving", "ready"}
      BY <3>1 DEF DispatchInv
    <3> QED
      BY <2>1, <3>1, <3>2
  <2>5. PacketInv(p)'
    BY <1>0, <1>6, <2>2, <2>3, <2>4 DEF PacketInv, Inbound!Over, Inbound!Busy, Inbound!InScope, Inbound!Shared
  <2>6. \A t \in Inbound!Tokens : /\ instances[t] = "resolving" => instances'[t] = "resolving"
                                  /\ instances'[t] = "resolving" => t \notin Scoped
    BY <2>1 DEF DispatchInv
  <2>7. \A q \in Packets \ {p} : PacketInv(q)'
    <3>1. \A q \in Packets \ {p} : packet'[q] = packet[q] /\ run'[q] = run[q] /\ scope'[q] = scope[q]
      BY <2>1 DEF DispatchInv
    <3> QED
      BY <2>6, <3>1, OtherPackets
  <2> QED
    BY <2>1, <2>2, <2>5, <2>6, <2>7 DEF DispatchInv
<1> QED
  BY <1>3, <1>4, <1>5, <1>6

LEMMA ResolvedKeeps ==
  ASSUME Inbound!HandlersAssumption, DispatchInv, NEW t \in Inbound!Tokens, NEW ok \in BOOLEAN, Inbound!Resolved(t, ok)
  PROVE  DispatchInv'
<1>0. t \notin Scoped /\ instances' = [instances EXCEPT ![t] = IF ok THEN "ready" ELSE "none"] /\ UNCHANGED <<packet, scope>>
  BY DEF DispatchInv, Inbound!Resolved
<1>1. \A p \in Packets, h \in Handlers :
        /\ run'[p][h] = run[p][h] \/ (run[p][h] = "resolving" /\ run'[p][h] \in {"running", "failed"})
        /\ run'[p][h] = "resolving" => run[p][h] = "resolving" /\ Token[h] # t
  BY DEF Inbound!Resolved
<1>2. run' \in [Packets -> [Handlers -> {"no", "resolving", "running", "ok", "failed"}]]
  BY DEF DispatchInv, Inbound!Resolved
<1>3. ASSUME NEW p \in Packets PROVE PacketInv(p)'
  <2>1. PacketInv(p) /\ Matches[p] \subseteq Handlers /\ packet'[p] = packet[p] /\ scope'[p] = scope[p]
    BY <1>0 DEF DispatchInv, Inbound!HandlersAssumption
  <2>2. \A h \in Handlers : run[p][h] \in {"no", "ok", "failed"} => run'[p][h] = run[p][h]
    BY <1>1
  <2>3. \A h \in Inbound!Shared(p) : run'[p][h] = "resolving" => instances'[Token[h]] = "resolving"
    BY <1>0, <1>1, <2>1 DEF PacketInv, Inbound!Shared, Inbound!Tokens, DispatchInv
  <2>4. \A h \in Handlers : run[p][h] = "no" \/ run'[p][h] # "no"
    BY <1>1
  <2> QED
    BY <1>1, <2>1, <2>2, <2>3, <2>4 DEF PacketInv, Inbound!Over, Inbound!Busy, Inbound!InScope, Inbound!Shared
<1> QED
  BY <1>0, <1>2, <1>3 DEF DispatchInv

\* A step that says more of one handler that was busy.
LEMMA InvocationKeeps ==
  ASSUME Inbound!HandlersAssumption, DispatchInv, NEW p \in Packets, NEW h \in Handlers, NEW ok \in BOOLEAN,
         Inbound!ResolvedInScope(p, h, ok) \/ Inbound!HandlerEnds(p, h, ok)
  PROVE  DispatchInv'
<1>0. PICK x \in {"running", "ok", "failed"} : run' = [run EXCEPT ![p][h] = x] /\ Inbound!Busy(p, h)
  BY DEF Inbound!ResolvedInScope, Inbound!HandlerEnds, Inbound!Busy
<1>1. UNCHANGED <<packet, scope, instances>>
  BY DEF Inbound!ResolvedInScope, Inbound!HandlerEnds
<1>2. /\ run' \in [Packets -> [Handlers -> {"no", "resolving", "running", "ok", "failed"}]] /\ run'[p][h] = x
      /\ \A k \in Handlers \ {h} : run'[p][k] = run[p][k]
      /\ \A q \in Packets \ {p} : run'[q] = run[q]
  BY <1>0 DEF DispatchInv
<1>3. PacketInv(p) /\ Matches[p] \subseteq Handlers /\ packet'[p] = packet[p] /\ scope'[p] = scope[p]
  BY <1>1 DEF DispatchInv, Inbound!HandlersAssumption
<1>4. packet[p] \in {"singletons", "scoped"} /\ h \in Matches[p] /\ (h \in Inbound!InScope(p) => packet[p] = "scoped")
      /\ (packet[p] = "scoped" => h \notin Inbound!Shared(p))
  <2>1. packet[p] \in {"no", "singletons", "scoped", "disposing", "answered", "failed"}
    BY DEF DispatchInv
  <2>2. run[p][h] \in {"resolving", "running"} /\ h \in Matches[p]
    BY <1>0, <1>3 DEF PacketInv, Inbound!Busy
  <2> QED
    BY <1>0, <1>3, <2>1, <2>2 DEF PacketInv, Inbound!Over
<1>5. PacketInv(p)'
  BY <1>1, <1>2, <1>3, <1>4 DEF PacketInv, Inbound!Over, Inbound!Busy, Inbound!InScope, Inbound!Shared
<1>6. \A q \in Packets \ {p} : PacketInv(q)'
  BY <1>1, <1>2, OtherPackets
<1> QED
  BY <1>1, <1>2, <1>5, <1>6 DEF DispatchInv

LEMMA SettlesKeeps ==
  ASSUME Inbound!HandlersAssumption, DispatchInv, NEW p \in Packets, Inbound!Settles(p)
  PROVE  DispatchInv'
<1>0. PacketInv(p) /\ Matches[p] \subseteq Handlers
  BY DEF DispatchInv, Inbound!HandlersAssumption
<1>1. ASSUME packet' = [packet EXCEPT ![p] = Inbound!Outcome(p)], UNCHANGED <<run, scope, instances>>, Matches[p] # {},
             Inbound!Over(p, Matches[p]), scope[p] # "open"
      PROVE  DispatchInv'
  <2>1. packet'[p] = Inbound!Outcome(p) /\ Inbound!Outcome(p) \in {"answered", "failed"}
    BY <1>1 DEF DispatchInv, Inbound!Outcome
  <2>2. Inbound!Outcome(p) = "failed" => Kind[p] # "event"
    BY DEF Inbound!Outcome
  <2>3. Inbound!Outcome(p) = "answered" /\ Kind[p] # "event" => \E h \in Matches[p] : run[p][h] = "ok"
    BY <1>1 DEF Inbound!Outcome
  <2>4. \A h \in Handlers : ~Inbound!Busy(p, h)
    BY <1>0, <1>1 DEF PacketInv, Inbound!Busy, Inbound!Over
  <2>5. PacketInv(p)'
    BY <1>0, <1>1, <2>1, <2>2, <2>3, <2>4 DEF PacketInv, Inbound!Over, Inbound!Busy, Inbound!InScope, Inbound!Shared
  <2>6. \A q \in Packets \ {p} : PacketInv(q)'
    <3>1. \A q \in Packets \ {p} : packet'[q] = packet[q] /\ run'[q] = run[q] /\ scope'[q] = scope[q]
      BY <1>1 DEF DispatchInv
    <3> QED
      BY <1>1, <3>1, OtherPackets
  <2> QED
    BY <1>1, <2>1, <2>5, <2>6 DEF DispatchInv
<1>2. CASE Inbound!SingletonsEnd(p)
  <2>1. packet[p] = "singletons" /\ Inbound!Over(p, Inbound!Shared(p)) /\ Matches[p] # {} /\ scope[p] = "no"
    BY <1>0, <1>2 DEF Inbound!SingletonsEnd, Inbound!AllSettled, PacketInv
  <2>2. CASE Inbound!InScope(p) # {}
    BY <1>2, <2>1, <2>2, OpensScopeKeeps DEF Inbound!SingletonsEnd
  <2>3. CASE Inbound!InScope(p) = {}
    <3>1. Inbound!Shared(p) = Matches[p]
      BY <2>3 DEF Inbound!Shared
    <3> QED
      BY <1>1, <1>2, <2>1, <2>3, <3>1 DEF Inbound!SingletonsEnd
  <2> QED
    BY <2>2, <2>3
<1>3. CASE Inbound!Disposes(p)
  <2>1. packet[p] = "scoped" /\ Inbound!Over(p, Inbound!InScope(p)) /\ Inbound!Over(p, Inbound!Shared(p)) /\ Matches[p] # {}
    BY <1>0, <1>3 DEF Inbound!Disposes, Inbound!AllSettled, PacketInv
  <2>2. Inbound!Over(p, Matches[p])
    BY <2>1 DEF Inbound!Over, Inbound!Shared
  <2>3. packet' = [packet EXCEPT ![p] = "disposing"] /\ scope' = [scope EXCEPT ![p] = "disposed"] /\ UNCHANGED <<run, instances>>
    BY <1>3 DEF Inbound!Disposes
  <2>4. packet'[p] = "disposing" /\ scope'[p] = "disposed"
    BY <2>3 DEF DispatchInv
  <2>5. PacketInv(p)'
    BY <1>0, <2>1, <2>2, <2>3, <2>4 DEF PacketInv, Inbound!Over, Inbound!Busy, Inbound!InScope, Inbound!Shared
  <2>6. \A q \in Packets \ {p} : PacketInv(q)'
    <3>1. \A q \in Packets \ {p} : packet'[q] = packet[q] /\ run'[q] = run[q] /\ scope'[q] = scope[q]
      BY <2>3 DEF DispatchInv
    <3> QED
      BY <2>3, <3>1, OtherPackets
  <2> QED
    BY <2>3, <2>5, <2>6 DEF DispatchInv
<1>4. CASE Inbound!Disposed(p)
  <2>1. packet[p] = "disposing" /\ scope[p] = "disposed" /\ Inbound!Over(p, Matches[p]) /\ Matches[p] # {}
    BY <1>0, <1>4 DEF Inbound!Disposed, PacketInv
  <2> QED
    BY <1>1, <1>4, <2>1 DEF Inbound!Disposed
<1> QED
  BY <1>2, <1>3, <1>4 DEF Inbound!Settles

\* DispatchedWell: whatever resolves and throws in whichever order, handlers of a
\* request scope run after the shared ones and inside their scope, which is disposed of
\* before the packet is answered, nothing of it runs on after that, and an answer is
\* one that a handler gave (MicroserviceLifecycleService, dispatch of packets).
THEOREM DispatchesWell == Inbound!HandlersAssumption => (Inbound!Spec => []Inbound!DispatchedWell)
<1> SUFFICES ASSUME Inbound!HandlersAssumption PROVE Inbound!Spec => []Inbound!DispatchedWell
  OBVIOUS
<1>1. DispatchInv /\ [Inbound!Next]_(Inbound!handlerVars) => DispatchInv'
  <2> SUFFICES ASSUME DispatchInv, [Inbound!Next]_(Inbound!handlerVars) PROVE DispatchInv'
    OBVIOUS
  <2>1. CASE UNCHANGED Inbound!handlerVars
    BY <2>1 DEF Inbound!handlerVars, DispatchInv, PacketInv, Inbound!Over, Inbound!Busy
  <2> QED
    BY <2>1, ReceiveKeeps, ResolvedKeeps, InvocationKeeps, SettlesKeeps DEF Inbound!Next
<1>2. DispatchInv => Inbound!DispatchedWell
  <2> SUFFICES ASSUME DispatchInv, NEW p \in Packets
               PROVE  /\ \A h \in Inbound!InScope(p) : Inbound!Busy(p, h) => scope[p] = "open"
                      /\ packet[p] \in {"answered", "failed"} => scope[p] # "open" /\ \A h \in Handlers : ~Inbound!Busy(p, h)
                      /\ Kind[p] = "event" => packet[p] # "failed"
                      /\ packet[p] = "answered" /\ Kind[p] # "event" => \E h \in Matches[p] : run[p][h] = "ok"
                      /\ \A h \in Inbound!InScope(p) : run[p][h] # "no" => Inbound!Over(p, Inbound!Shared(p))
                      /\ \A h \in Inbound!Shared(p) : run[p][h] = "resolving" => instances[Token[h]] = "resolving"
    BY DEF Inbound!DispatchedWell, Inbound!ScopeCoversHandlers, Inbound!SingletonsFirst
  <2>1. PacketInv(p) /\ packet[p] \in {"no", "singletons", "scoped", "disposing", "answered", "failed"}
        /\ Inbound!InScope(p) \subseteq Matches[p] /\ Matches[p] \subseteq Handlers
    BY DEF DispatchInv, Inbound!InScope, Inbound!HandlersAssumption
  <2>2. \A h \in Inbound!InScope(p) : Inbound!Busy(p, h) => scope[p] = "open"
    BY <2>1 DEF PacketInv, Inbound!Over, Inbound!Busy
  <2>3. \A h \in Inbound!InScope(p) : run[p][h] # "no" => Inbound!Over(p, Inbound!Shared(p))
    BY <2>1 DEF PacketInv, Inbound!Over, Inbound!Shared
  <2> QED
    BY <2>1, <2>2, <2>3 DEF PacketInv
<1> QED
  BY DispatchInitial, <1>1, <1>2, PTL DEF Inbound!Spec

---------------------------------------------------------------------------
\* SocketIo.  IoLink: what of a client is buffered and replayed and when,
\* who is told, and whom the registry has forgotten.

VARIABLES connected, known, told, came, under, replay, leaving, ioStop
Io == INSTANCE SocketIo

\* Of client c: what is buffered and replayed and when, who is told and forgotten.
IoLink(c) ==
  /\ came[c] \in Nat /\ Waiting(pending[c], came[c]) /\ replay[c] \in 0..came[c]
  /\ pending[c] # <<>> => bound[c] \in {"connecting", "replaying"}
  /\ replay[c] # 0 => bound[c] = "replaying" /\ \A i \in 1..Len(pending[c]) : replay[c] < pending[c][i]
  /\ under[c] # {} \/ leaving[c] # "no" => Io!Ready(c)
  /\ c \in told => bound[c] \in {"connecting", "replaying"} /\ c \notin connected
  /\ c \in connected => bound[c] \notin {"no", "guard", "refused"}
  /\ bound[c] = "ready" /\ c \notin connected /\ leaving[c] # "running" => c \notin known

IoInv ==
  /\ DOMAIN bound = Clients /\ DOMAIN pending = Clients /\ DOMAIN came = Clients
  /\ DOMAIN under = Clients /\ DOMAIN replay = Clients /\ DOMAIN leaving = Clients
  /\ \A c \in Clients : IoLink(c)

\* A step of client c alone.
IoDomains ==
  /\ DOMAIN bound' = Clients /\ DOMAIN pending' = Clients /\ DOMAIN came' = Clients
  /\ DOMAIN under' = Clients /\ DOMAIN replay' = Clients /\ DOMAIN leaving' = Clients
IoApart(d) ==
  /\ bound'[d] = bound[d] /\ pending'[d] = pending[d] /\ came'[d] = came[d]
  /\ under'[d] = under[d] /\ replay'[d] = replay[d] /\ leaving'[d] = leaving[d]
  /\ (d \in connected <=> d \in connected') /\ (d \in told' <=> d \in told) /\ (d \in known' => d \in known)

LEMMA IoOthers ==
  ASSUME IoInv, NEW c \in Clients, IoDomains, \A d \in Clients \ {c} : IoApart(d), IoLink(c)'
  PROVE  IoInv'
<1>1. ASSUME NEW d \in Clients \ {c} PROVE IoLink(d)'
  BY DEF IoInv, IoLink, IoApart, Io!Ready
<1> QED
  BY <1>1 DEF IoInv, IoDomains

\* What a message adds to the buffer.
LEMMA IoBuffers ==
  ASSUME Io!SocketIoAssumption, IoInv, NEW c \in Clients, NEW q, Waiting(pending[c], came[c]), came[c] \in Nat,
         q = IF ~Io!Full(c) THEN Append(pending[c], came[c] + 1)
             ELSE CASE Policy = "close" -> <<>> [] Policy = "drop-newest" -> pending[c]
                    [] OTHER -> Append(Tail(pending[c]), came[c] + 1)
  PROVE  Waiting(q, came[c] + 1)
<1>0. Limit \in Nat /\ Limit # 0 /\ pending[c] \in Seq(Nat) /\ Len(pending[c]) \in Nat
  BY DEF Io!SocketIoAssumption, Waiting
<1>1. CASE ~Io!Full(c)
  <2>1. Len(pending[c]) < Limit /\ q = Append(pending[c], came[c] + 1)
    BY <1>0, <1>1 DEF Io!Full
  <2> QED
    BY <1>0, <2>1, WaitsBehind
<1>2. CASE Io!Full(c) /\ Policy = "close"
  BY <1>0, <1>2 DEF Waiting
<1>3. CASE Io!Full(c) /\ Policy = "drop-newest"
  BY <1>3, WaitsStill
<1>4. CASE Io!Full(c) /\ Policy = "drop-oldest"
  <2>1. q = Append(Tail(pending[c]), came[c] + 1) /\ pending[c] # <<>>
    BY <1>0, <1>4 DEF Io!Full
  <2>2. Waiting(Tail(pending[c]), came[c]) /\ Len(Tail(pending[c])) < Limit
    <3>1. Waiting(Tail(pending[c]), came[c]) /\ Len(Tail(pending[c])) = Len(pending[c]) - 1 /\ Len(pending[c]) <= Limit
      BY <1>0, <2>1, WaitsLess DEF Waiting
    <3> QED
      BY <1>0, <3>1
  <2> QED
    BY <1>0, <2>1, <2>2, WaitsBehind
<1> QED
  BY <1>1, <1>2, <1>3, <1>4 DEF Io!SocketIoAssumption

LEMMA IoConnectionKeeps ==
  ASSUME Io!SocketIoAssumption, IoInv, NEW c \in Clients, NEW ok \in BOOLEAN,
         Io!Connects(c) \/ Io!GuardEnds(c, ok) \/ Io!Resolved(c) \/ Io!Connected(c)
  PROVE  IoInv'
<1>0. IoLink(c) /\ c \in DOMAIN bound
  BY DEF IoInv
<1>1. IoDomains /\ \A d \in Clients \ {c} : IoApart(d)
  BY DEF IoInv, IoDomains, IoApart, Io!Connects, Io!GuardEnds, Io!Resolved, Io!Connected, Io!Goes
<1>2. IoLink(c)'
  BY <1>0 DEF IoLink, Io!Connects, Io!GuardEnds, Io!Resolved, Io!Connected, Io!Goes, Io!Ready
<1> QED
  BY <1>1, <1>2, IoOthers

LEMMA IoReplaysKeeps ==
  ASSUME Io!SocketIoAssumption, IoInv, NEW c \in Clients, Io!Replays(c)
  PROVE  IoInv'
<1>0. IoLink(c) /\ Limit \in Nat /\ bound[c] = "replaying" /\ replay[c] = 0
  BY DEF IoInv, Io!SocketIoAssumption, Io!Replays
<1>1. IoDomains /\ \A d \in Clients \ {c} : IoApart(d)
  BY DEF IoInv, IoDomains, IoApart, Io!Replays, Io!Goes
<1>2. CASE pending[c] # <<>>
  <2>1. /\ Waiting(Tail(pending[c]), came[c]) /\ Head(pending[c]) \in 1..came[c]
        /\ \A i \in 1..Len(Tail(pending[c])) : Head(pending[c]) < Tail(pending[c])[i]
    BY <1>0, <1>2, WaitsLess DEF IoLink
  <2>2. /\ replay'[c] = Head(pending[c]) /\ pending'[c] = Tail(pending[c]) /\ came' = came
        /\ UNCHANGED <<bound, known, told, leaving, connected>>
    BY <1>2 DEF IoInv, Io!Replays
  <2>3. bound'[c] = "replaying" /\ came'[c] \in Nat /\ replay'[c] \in 0..came'[c]
        /\ Waiting(pending'[c], came'[c]) /\ \A i \in 1..Len(pending'[c]) : replay'[c] < pending'[c][i]
    <3>1. came[c] \in Nat
      BY <1>0 DEF IoLink
    <3> QED
      BY <1>0, <2>1, <2>2, <3>1
  <2>4. c \in told' => c \notin connected'
    BY <1>0, <2>2 DEF IoLink
  <2>5. IoLink(c)'
    BY <2>3, <2>4 DEF IoLink, Io!Ready
  <2> QED
    BY <1>1, <2>5, IoOthers
<1>3. CASE pending[c] = <<>>
  <2>1. IoLink(c)'
    BY <1>0, <1>3 DEF IoInv, IoLink, Io!Replays, Io!Goes, Io!Ready
  <2> QED
    BY <1>1, <2>1, IoOthers
<1> QED
  BY <1>2, <1>3

LEMMA IoMessageKeeps ==
  ASSUME Io!SocketIoAssumption, IoInv, NEW c \in Clients, Io!Message(c)
  PROVE  IoInv'
<1>0. IoLink(c) /\ c \in connected /\ c \notin told /\ came'[c] = came[c] + 1 /\ came[c] \in Nat /\ UNCHANGED <<bound, replay>>
  BY DEF IoInv, IoLink, Io!Message
<1>1. IoDomains /\ \A d \in Clients \ {c} : IoApart(d)
  <2>1. CASE bound[c] = "connecting"
    BY <2>1 DEF IoInv, IoDomains, IoApart, Io!Message, Io!Buffers, Io!Parts
  <2>2. CASE bound[c] # "connecting"
    BY <2>2 DEF IoInv, IoDomains, IoApart, Io!Message
  <2> QED
    BY <2>1, <2>2
<1>2. CASE bound[c] = "connecting"
  <2>1. Io!Buffers(c, came'[c]) /\ UNCHANGED under
    BY <1>2 DEF Io!Message
  <2>2. Waiting(pending'[c], came'[c])
    <3>1. pending'[c] = IF ~Io!Full(c) THEN Append(pending[c], came[c] + 1)
             ELSE CASE Policy = "close" -> <<>> [] Policy = "drop-newest" -> pending[c]
                    [] OTHER -> Append(Tail(pending[c]), came[c] + 1)
      BY <1>0, <2>1 DEF IoInv, Io!Buffers
    <3> QED
      BY <1>0, <3>1, IoBuffers DEF IoLink
  <2>3. UNCHANGED <<connected, told, leaving, known>> \/ (Io!Parts(c) /\ known' = known \ {c})
    BY <2>1 DEF Io!Buffers
  <2>4. leaving'[c] = leaving[c] /\ (c \in told' => c \notin connected') /\ (c \in connected' => c \in connected)
    BY <1>2, <2>3, <1>0 DEF IoInv, Io!Parts, Io!Ready
  <2>5. replay'[c] = 0 /\ bound'[c] = "connecting" /\ under'[c] = under[c] /\ came'[c] \in Nat /\ 0 \in 0..came'[c]
    BY <1>0, <1>2, <2>1 DEF IoLink
  <2>6. IoLink(c)'
    BY <1>0, <1>2, <2>2, <2>4, <2>5 DEF IoLink, Io!Ready
  <2> QED
    BY <1>1, <2>6, IoOthers
<1>3. CASE bound[c] # "connecting"
  <2>1. /\ under'[c] = IF Io!Ready(c) THEN under[c] \cup {came'[c]} ELSE under[c]
        /\ UNCHANGED <<pending, connected, told, leaving, known>>
    BY <1>3 DEF IoInv, Io!Message
  <2>2. Waiting(pending[c], came'[c]) /\ replay[c] \in 0..came'[c]
    BY <1>0, WaitsStill DEF IoLink
  <2>3. IoLink(c)'
    BY <1>0, <2>1, <2>2 DEF IoLink, Io!Ready
  <2> QED
    BY <1>1, <2>3, IoOthers
<1> QED
  BY <1>2, <1>3

LEMMA IoPartsKeeps ==
  ASSUME IoInv, NEW c \in Clients, Io!Disconnects(c) \/ Io!Left(c) \/ Io!Errs(c) \/ Io!Finds(c)
  PROVE  IoInv'
<1>0. IoLink(c) /\ c \in DOMAIN bound /\ c \in DOMAIN leaving
  BY DEF IoInv
<1>1. IoDomains /\ \A d \in Clients \ {c} : IoApart(d)
  BY DEF IoInv, IoDomains, IoApart, Io!Disconnects, Io!Left, Io!Errs, Io!Finds, Io!Parts
<1>2. IoLink(c)'
  <2>1. CASE Io!Disconnects(c)
    BY <1>0, <2>1 DEF IoLink, Io!Disconnects, Io!Parts, Io!Ready
  <2>2. CASE Io!Left(c)
    BY <1>0, <2>2 DEF IoLink, Io!Left, Io!Ready
  <2>3. CASE Io!Errs(c) \/ Io!Finds(c)
    BY <1>0, <2>3 DEF IoLink, Io!Errs, Io!Finds, Io!Ready
  <2> QED
    BY <2>1, <2>2, <2>3
<1> QED
  BY <1>1, <1>2, IoOthers

LEMMA IoHandledKeeps ==
  ASSUME IoInv, NEW c \in Clients, NEW ok \in BOOLEAN, NEW m \in under[c], Io!Handled(c, m, ok)
  PROVE  IoInv'
<1>0. IoLink(c) /\ Io!Ready(c)
  BY DEF IoInv, IoLink
<1>1. IoDomains /\ \A d \in Clients \ {c} : IoApart(d)
  BY DEF IoInv, IoDomains, IoApart, Io!Handled, Io!Parts
<1>2. /\ replay'[c] \in {0, replay[c]} /\ UNCHANGED <<bound, known, pending, came>>
      /\ (connected' = connected /\ told' = told /\ leaving' = leaving)
           \/ (c \in connected /\ connected' = connected \ {c} /\ told' = told /\ leaving'[c] = "running")
  <2>1. CASE ok
    BY <1>0, <2>1 DEF IoInv, Io!Handled, Io!Parts, Io!Ready
  <2>2. CASE ~ok
    BY <2>2 DEF IoInv, Io!Handled
  <2> QED
    BY <2>1, <2>2
<1>3. IoLink(c)'
  BY <1>0, <1>2 DEF IoLink, Io!Ready
<1> QED
  BY <1>1, <1>3, IoOthers

\* ReadyFirst and RegistryForgets: whatever a client of Socket.IO sends and whenever it
\* leaves, no handler of a message or of the end runs before those of the connection
\* are over, what is buffered keeps its order and limit, and what is over has left
\* the registry (SocketIoLifecycleService).
THEOREM SocketIoKeepsOrder ==
  ASSUME Io!SocketIoAssumption
  PROVE  Io!Spec => [](Io!ReadyFirst /\ Io!RegistryForgets)
<1>1. Io!Init => IoInv
  <2> SUFFICES ASSUME Io!Init PROVE IoInv
    OBVIOUS
  <2>1. ASSUME NEW c \in Clients PROVE IoLink(c)
    BY <2>1 DEF Io!Init, IoLink, Waiting, Io!SocketIoAssumption, Io!Ready
  <2> QED
    BY <2>1 DEF Io!Init, IoInv
<1>2. IoInv /\ [Io!Next]_(Io!ioVars) => IoInv'
  <2> SUFFICES ASSUME IoInv, [Io!Next]_(Io!ioVars) PROVE IoInv'
    OBVIOUS
  <2>1. CASE UNCHANGED Io!ioVars
    BY <2>1 DEF Io!ioVars, IoInv, IoLink, Io!Ready
  <2>2. CASE Io!Shutdown \/ \E late \in BOOLEAN : Io!Ends(late)
    BY <2>2 DEF Io!Shutdown, Io!Ends, IoInv, IoLink, Io!Ready
  <2> QED
    BY <2>1, <2>2, IoConnectionKeeps, IoReplaysKeeps, IoMessageKeeps, IoPartsKeeps, IoHandledKeeps DEF Io!Next
<1>3. IoInv => Io!ReadyFirst /\ Io!RegistryForgets
  <2> SUFFICES ASSUME IoInv, NEW c \in Clients
               PROVE  /\ under[c] # {} \/ leaving[c] # "no" => Io!Ready(c)
                      /\ LET line == (IF replay[c] = 0 THEN <<>> ELSE <<replay[c]>>) \o pending[c]
                         IN \A i, j \in DOMAIN line : i < j => line[i] < line[j]
                      /\ Len(pending[c]) <= Limit
                      /\ bound[c] = "ready" /\ c \notin connected /\ leaving[c] # "running" => c \notin known
    BY DEF Io!ReadyFirst, Io!RegistryForgets
  <2>0. IoLink(c)
    BY DEF IoInv
  <2> DEFINE line == (IF replay[c] = 0 THEN <<>> ELSE <<replay[c]>>) \o pending[c]
  <2>1. \A i, j \in DOMAIN line : i < j => line[i] < line[j]
    <3>1. pending[c] \in Seq(Nat) /\ Len(pending[c]) \in Nat
      BY <2>0 DEF IoLink, Waiting
    <3>2. CASE replay[c] = 0
      <4>1. line = pending[c] /\ DOMAIN line = 1..Len(pending[c])
        BY <3>1, <3>2
      <4> QED
        BY <2>0, <4>1 DEF IoLink, Waiting
    <3>3. CASE replay[c] # 0
      <4>1. /\ DOMAIN line = 1..(Len(pending[c]) + 1) /\ line[1] = replay[c]
            /\ \A i \in 2..(Len(pending[c]) + 1) : line[i] = pending[c][i - 1]
        <5>1. replay[c] \in Nat
          BY <2>0 DEF IoLink
        <5> QED
          BY <3>1, <3>3, <5>1
      <4> HIDE DEF line
      <4>2. ASSUME NEW i \in DOMAIN line, NEW j \in DOMAIN line, i < j PROVE line[i] < line[j]
        <5>1. j \in 2..(Len(pending[c]) + 1) /\ j - 1 \in 1..Len(pending[c]) /\ line[j] = pending[c][j - 1]
          BY <3>1, <4>1, <4>2
        <5>2. CASE i = 1
          BY <2>0, <3>3, <4>1, <5>1, <5>2 DEF IoLink
        <5>3. CASE i # 1
          <6>1. i - 1 \in 1..Len(pending[c]) /\ line[i] = pending[c][i - 1] /\ i - 1 < j - 1
            BY <3>1, <4>1, <4>2, <5>3
          <6> QED
            BY <2>0, <5>1, <6>1 DEF IoLink, Waiting
        <5> QED
          BY <5>2, <5>3
      <4> QED
        BY <4>2
    <3> QED
      BY <3>2, <3>3
  <2> QED
    BY <2>0, <2>1 DEF IoLink, Waiting
<1> QED
  BY <1>1, <1>2, <1>3, PTL DEF Io!Spec

---------------------------------------------------------------------------
\* GrpcTransport.  GrpcCall: the items of a call that were read and those
\* that wait are what was sent, and a call that waits for its answer has
\* a transport that listens (GrpcLife).

CONSTANTS Calls, MaxItems, MaxListens
VARIABLES listens, call, result, signal, cancelled, remote, reader, buffer, read, finished, broken
Grpc == INSTANCE GrpcTransport

\* The first n items, those that were read and those that wait.
ItemsInOrder(r, b, n) ==
  /\ n \in Nat /\ r \in Seq(Nat) /\ b \in Seq(Nat) /\ Len(r) + Len(b) = n
  /\ \A i \in 1..Len(r) : r[i] = i
  /\ \A i \in 1..Len(b) : b[i] = Len(r) + i

LEMMA OrderMeans ==
  ASSUME NEW r, NEW b, NEW n, ItemsInOrder(r, b, n)
  PROVE  r \o b = [i \in 1..n |-> i]
<1>1. /\ r \in Seq(Nat) /\ b \in Seq(Nat) /\ Len(r) \in Nat /\ Len(b) \in Nat /\ Len(r) + Len(b) = n
      /\ \A i \in 1..Len(r) : r[i] = i
      /\ \A i \in 1..Len(b) : b[i] = Len(r) + i
  BY DEF ItemsInOrder
<1>2. \A i \in 1..n : (r \o b)[i] = i
  <2> SUFFICES ASSUME NEW i \in 1..n PROVE (r \o b)[i] = i
    OBVIOUS
  <2>1. CASE i <= Len(r)
    BY <1>1, <2>1
  <2>2. CASE i > Len(r)
    <3>1. i - Len(r) \in 1..Len(b) /\ (r \o b)[i] = b[i - Len(r)]
      BY <1>1, <2>2
    <3> QED
      BY <1>1, <3>1
  <2> QED
    BY <1>1, <2>1, <2>2
<1>3. r \o b = [i \in 1..n |-> (r \o b)[i]]
  <2> DEFINE s == r \o b
  <2>1. s \in Seq(Nat) /\ Len(s) = n
    BY <1>1
  <2> HIDE DEF s
  <2>2. s = [i \in 1..n |-> s[i]]
    BY <2>1
  <2> QED
    BY <2>2 DEF s
<1> QED
  BY <1>2, <1>3

LEMMA OrderBuffers ==
  ASSUME NEW r, NEW b, NEW n, ItemsInOrder(r, b, n)
  PROVE  ItemsInOrder(r, Append(b, n + 1), n + 1)
<1> DEFINE e == Append(b, n + 1)
<1>1. /\ r \in Seq(Nat) /\ b \in Seq(Nat) /\ Len(r) \in Nat /\ Len(b) \in Nat /\ Len(r) + Len(b) = n /\ n + 1 \in Nat
      /\ \A i \in 1..Len(r) : r[i] = i
      /\ \A i \in 1..Len(b) : b[i] = Len(r) + i
  BY DEF ItemsInOrder
<1>2. e \in Seq(Nat) /\ Len(e) = Len(b) + 1 /\ e[Len(b) + 1] = n + 1 /\ \A i \in 1..Len(b) : e[i] = b[i]
  BY <1>1
<1> HIDE DEF e
<1>3. \A i \in 1..Len(e) : e[i] = Len(r) + i
  <2> SUFFICES ASSUME NEW i \in 1..Len(e) PROVE e[i] = Len(r) + i
    OBVIOUS
  <2>1. CASE i = Len(b) + 1
    <3>1. Len(r) + i = n + 1
      BY <1>1, <2>1
    <3> QED
      BY <1>2, <2>1, <3>1
  <2>2. CASE i # Len(b) + 1
    <3>1. i \in 1..Len(b)
      BY <1>1, <1>2, <2>2
    <3> QED
      BY <1>1, <1>2, <3>1
  <2> QED
    BY <2>1, <2>2
<1>4. Len(r) + Len(e) = n + 1
  BY <1>1, <1>2
<1> QED
  BY <1>1, <1>2, <1>3, <1>4 DEF ItemsInOrder, e

LEMMA OrderDelivers ==
  ASSUME NEW r, NEW n, ItemsInOrder(r, <<>>, n)
  PROVE  ItemsInOrder(Append(r, n + 1), <<>>, n + 1)
<1> DEFINE e == Append(r, n + 1)
<1>1. r \in Seq(Nat) /\ Len(r) = n /\ n \in Nat /\ n + 1 \in Nat /\ \A i \in 1..Len(r) : r[i] = i
  BY DEF ItemsInOrder
<1>2. e \in Seq(Nat) /\ Len(e) = n + 1 /\ e[n + 1] = n + 1 /\ \A i \in 1..n : e[i] = r[i]
  BY <1>1
<1> HIDE DEF e
<1>3. \A i \in 1..Len(e) : e[i] = i
  <2> SUFFICES ASSUME NEW i \in 1..Len(e) PROVE e[i] = i
    OBVIOUS
  <2>1. CASE i = n + 1
    BY <1>2, <2>1
  <2>2. CASE i # n + 1
    BY <1>1, <1>2, <2>2
  <2> QED
    BY <2>1, <2>2
<1> QED
  BY <1>1, <1>2, <1>3 DEF ItemsInOrder, e

LEMMA OrderReads ==
  ASSUME NEW r, NEW b, NEW n, ItemsInOrder(r, b, n), b # <<>>
  PROVE  ItemsInOrder(Append(r, Head(b)), Tail(b), n)
<1> DEFINE e == Append(r, Head(b))
           t == Tail(b)
<1>1. /\ r \in Seq(Nat) /\ b \in Seq(Nat) /\ Len(r) \in Nat /\ Len(b) \in Nat /\ Len(r) + Len(b) = n /\ n \in Nat
      /\ \A i \in 1..Len(r) : r[i] = i
      /\ \A i \in 1..Len(b) : b[i] = Len(r) + i
  BY DEF ItemsInOrder
<1>2. Len(b) > 0 /\ Head(b) = b[1] /\ b[1] = Len(r) + 1
  BY <1>1
<1>3. e \in Seq(Nat) /\ Len(e) = Len(r) + 1 /\ e[Len(r) + 1] = Len(r) + 1 /\ \A i \in 1..Len(r) : e[i] = r[i]
  BY <1>1, <1>2
<1>4. t \in Seq(Nat) /\ Len(t) = Len(b) - 1 /\ \A i \in 1..Len(t) : t[i] = b[i + 1]
  BY <1>1, <1>2
<1> HIDE DEF e, t
<1>5. \A i \in 1..Len(e) : e[i] = i
  <2> SUFFICES ASSUME NEW i \in 1..Len(e) PROVE e[i] = i
    OBVIOUS
  <2>1. CASE i = Len(r) + 1
    BY <1>3, <2>1
  <2>2. CASE i # Len(r) + 1
    <3>1. i \in 1..Len(r)
      BY <1>1, <1>3, <2>2
    <3> QED
      BY <1>1, <1>3, <3>1
  <2> QED
    BY <2>1, <2>2
<1>6. \A i \in 1..Len(t) : t[i] = Len(e) + i
  <2> SUFFICES ASSUME NEW i \in 1..Len(t) PROVE t[i] = Len(e) + i
    OBVIOUS
  <2>1. i + 1 \in 1..Len(b) /\ t[i] = b[i + 1]
    BY <1>1, <1>4
  <2>2. b[i + 1] = Len(r) + (i + 1)
    BY <1>1, <2>1
  <2> QED
    BY <1>1, <1>3, <2>1, <2>2
<1>7. Len(e) + Len(t) = n
  BY <1>1, <1>3, <1>4
<1> QED
  BY <1>1, <1>3, <1>4, <1>5, <1>6, <1>7 DEF ItemsInOrder, e, t

CallStates == {"no", "refused", "deferred", "dropped", "taken", "stale", "open", "ended", "failed"}
ReaderStates == {"no", "idle", "waiting", "ended", "failed", "left"}

\* One call: its items, who reads them, and what it may still expect.
GrpcCall(c) ==
  /\ ItemsInOrder(read[c], buffer[c], sent[c])
  /\ call[c] \in CallStates /\ reader[c] \in ReaderStates
  /\ reader[c] = "waiting" => buffer[c] = <<>> /\ c \notin finished
  /\ reader[c] = "ended" => buffer[c] = <<>> /\ call[c] = "ended"
  /\ call[c] = "no" => c \notin signal \cup cancelled \cup finished /\ reader[c] = "no" /\ result[c] # "pending"
  /\ call[c] \in {"taken", "stale"} => reader[c] = "idle" /\ c \notin finished /\ Kind[c] # "unary"
  /\ call[c] \in {"no", "refused", "deferred", "taken", "stale"} => sent[c] = 0
  /\ c \in finished \ broken => reader[c] = "left" \/ call[c] = "ended"
  /\ Kind[c] = "unary" /\ result[c] = "pending" =>
       listening /\ c \notin signal \cup cancelled /\ call[c] \in {"deferred", "open"}

\* The transport: who is closed does not listen.
GrpcLife ==
  /\ attempt \in {"none", "binding", "undoing"} /\ stop \in {"no", "waiting", "draining", "ended", "failed"}
  /\ closing \in BOOLEAN /\ listening \in BOOLEAN
  /\ attempt # "none" => ~listening /\ stop # "draining" /\ (closing => stop = "waiting")
  /\ stop = "waiting" => attempt # "none"
  /\ closing /\ stop \in {"ended", "failed"} => ~listening

GrpcDomains ==
  /\ DOMAIN call = Calls /\ DOMAIN result = Calls /\ DOMAIN sent = Calls /\ DOMAIN remote = Calls
  /\ DOMAIN reader = Calls /\ DOMAIN buffer = Calls /\ DOMAIN read = Calls

GrpcInv == GrpcDomains /\ GrpcLife /\ \A c \in Calls : GrpcCall(c)

GrpcApart(d) ==
  /\ call'[d] = call[d] /\ result'[d] = result[d] /\ sent'[d] = sent[d] /\ reader'[d] = reader[d]
  /\ buffer'[d] = buffer[d] /\ read'[d] = read[d]
  /\ (d \in signal' <=> d \in signal) /\ (d \in cancelled' <=> d \in cancelled)
  /\ (d \in finished' <=> d \in finished) /\ (d \in broken' <=> d \in broken)

\* A step of one call.
LEMMA GrpcOthers ==
  ASSUME GrpcInv, NEW c \in Calls, GrpcDomains', UNCHANGED Grpc!lifeVars,
         \A d \in Calls \ {c} : GrpcApart(d), GrpcCall(c)'
  PROVE  GrpcInv'
<1>1. UNCHANGED <<listening, closing, attempt, stop>>
  BY DEF Grpc!lifeVars
<1>2. ASSUME NEW d \in Calls \ {c} PROVE GrpcCall(d)'
  BY <1>1 DEF GrpcInv, GrpcCall, GrpcApart
<1>3. GrpcLife'
  BY <1>1 DEF GrpcInv, GrpcLife
<1> QED
  BY <1>2, <1>3 DEF GrpcInv

\* What listen() and close() do.
LEMMA GrpcLifeKeeps ==
  ASSUME GrpcInv, NEW ok \in BOOLEAN,
         Grpc!Listen \/ Grpc!Undone \/ Grpc!Close \/ Grpc!Binds(ok) \/ Grpc!Drains(ok)
  PROVE  GrpcInv'
<1> USE DEF GrpcInv
<1>1. CASE Grpc!Listen \/ Grpc!Undone \/ Grpc!Binds(ok)
  <2>1. UNCHANGED <<Grpc!callVars, Grpc!readVars>> /\ (listening => listening')
    BY <1>1 DEF Grpc!Listen, Grpc!Undone, Grpc!Binds, GrpcLife
  <2>2. GrpcLife'
    <3>1. CASE Grpc!Listen
      BY <3>1 DEF Grpc!Listen, GrpcLife
    <3>2. CASE Grpc!Undone
      BY <3>2 DEF Grpc!Undone, GrpcLife
    <3>3. CASE Grpc!Binds(ok)
      BY <3>3 DEF Grpc!Binds, GrpcLife
    <3> QED
      BY <1>1, <3>1, <3>2, <3>3
  <2>3. GrpcDomains' /\ \A c \in Calls : GrpcCall(c)'
    BY <2>1 DEF Grpc!callVars, Grpc!readVars, GrpcDomains, GrpcCall
  <2> QED
    BY <2>2, <2>3
<1>2. ASSUME Grpc!Closed(ok), attempt' = attempt, attempt = "none", DOMAIN call' = Calls, UNCHANGED <<closing, signal, cancelled, remote, Grpc!readVars>>,
             \A c \in Calls : call'[c] = call[c] \/ (call[c] = "taken" /\ call'[c] = "stale")
      PROVE  GrpcInv'
  <2>1. /\ ~listening' /\ stop' \in {"ended", "failed"} /\ listening' \in BOOLEAN /\ DOMAIN result' = Calls
        /\ \A c \in Calls : (Kind[c] = "unary" => result'[c] # "pending") /\ (result'[c] = "pending" => result[c] = "pending")
    BY <1>2 DEF Grpc!Closed, Grpc!RejectPending, GrpcDomains
  <2>2. GrpcLife'
    BY <1>2, <2>1 DEF GrpcLife
  <2>3. GrpcDomains'
    BY <1>2, <2>1 DEF GrpcDomains, Grpc!readVars
  <2>4. ASSUME NEW c \in Calls PROVE GrpcCall(c)'
    BY <1>2, <2>1, <2>4 DEF GrpcCall, Grpc!readVars, CallStates
  <2> QED
    BY <2>2, <2>3, <2>4
<1>3. CASE Grpc!Drains(ok)
  <2>1. stop = "draining" /\ Grpc!Closed(ok) /\ UNCHANGED <<closing, attempt, signal, cancelled, remote, Grpc!readVars>>
        /\ call' = [c \in Calls |-> IF ok /\ call[c] = "taken" THEN "stale" ELSE call[c]]
    BY <1>3 DEF Grpc!Drains
  <2>2. attempt = "none"
    BY <2>1 DEF GrpcLife
  <2> QED
    BY <1>2, <2>1, <2>2
<1>4. CASE Grpc!Close
  <2>1. closing' = TRUE /\ UNCHANGED <<attempt, call, signal, cancelled, remote, Grpc!readVars>>
    BY <1>4 DEF Grpc!Close
  <2>2. CASE attempt # "none" \/ listening
    <3>1. UNCHANGED <<listening, handler, result>> /\ stop' = IF attempt # "none" THEN "waiting" ELSE "draining"
      BY <1>4, <2>2 DEF Grpc!Close
    <3>2. GrpcLife'
      BY <2>1, <2>2, <3>1 DEF GrpcLife
    <3>3. GrpcDomains' /\ \A c \in Calls : GrpcCall(c)'
      BY <2>1, <3>1 DEF Grpc!readVars, GrpcDomains, GrpcCall
    <3> QED
      BY <3>2, <3>3
  <2>3. CASE attempt = "none" /\ ~listening
    <3>1. Grpc!Closed(TRUE)
      BY <1>4, <2>3 DEF Grpc!Close
    <3>2. ~listening' /\ stop' = "ended" /\ DOMAIN result' = Calls
          /\ \A c \in Calls : (Kind[c] = "unary" => result'[c] # "pending") /\ (result'[c] = "pending" => result[c] = "pending")
      BY <3>1 DEF Grpc!Closed, Grpc!RejectPending
    <3>3. listening' \in BOOLEAN
      BY <3>1 DEF Grpc!Closed
    <3>4. GrpcLife'
      BY <2>1, <2>3, <3>2, <3>3 DEF GrpcLife
    <3>5. GrpcDomains'
      BY <2>1, <3>2 DEF GrpcDomains, Grpc!readVars
    <3>6. ASSUME NEW c \in Calls PROVE GrpcCall(c)'
      BY <2>1, <3>2, <3>6 DEF GrpcCall, Grpc!readVars
    <3> QED
      BY <3>4, <3>5, <3>6
  <2> QED
    BY <2>2, <2>3
<1> QED
  BY <1>1, <1>3, <1>4

LEMMA GrpcBeginsKeeps ==
  ASSUME Grpc!GrpcAssumption, GrpcInv, NEW c \in Calls, NEW ok \in BOOLEAN, Grpc!Call(c) \/ Grpc!Dispatch(c, ok)
  PROVE  GrpcInv'
<1>0. GrpcCall(c) /\ Kind[c] \in {"unary", "reads", "writes", "both"} /\ c \in DOMAIN call /\ c \in DOMAIN result /\ c \in DOMAIN reader
  BY DEF GrpcInv, GrpcDomains, Grpc!GrpcAssumption
<1>1. UNCHANGED Grpc!lifeVars /\ GrpcDomains' /\ \A d \in Calls \ {c} : GrpcApart(d)
  BY DEF GrpcInv, GrpcDomains, GrpcApart, Grpc!Call, Grpc!Dispatch, Grpc!Settle, Grpc!readVars
<1>2. UNCHANGED <<listening, closing, attempt, stop>>
  BY <1>1 DEF Grpc!lifeVars
<1>3. CASE Grpc!Call(c)
  <2>1. GrpcCall(c)'
    BY <1>0, <1>2, <1>3 DEF GrpcCall, Grpc!Call, Grpc!Begins, Grpc!Reads, CallStates, ReaderStates
  <2> QED
    BY <1>1, <2>1, GrpcOthers
<1>4. CASE Grpc!Dispatch(c, ok)
  <2>1. /\ call[c] = "deferred" /\ UNCHANGED <<signal, cancelled, Grpc!readVars>>
        /\ \/ call'[c] = "dropped" /\ result'[c] # "pending"
           \/ call'[c] = "open" /\ result' = result
    BY <1>0, <1>4 DEF Grpc!Dispatch, Grpc!Settle
  <2>2. GrpcCall(c)'
    BY <1>0, <1>2, <2>1 DEF GrpcCall, Grpc!readVars, CallStates
  <2> QED
    BY <1>1, <2>2, GrpcOthers
<1> QED
  BY <1>3, <1>4

LEMMA GrpcEndsKeeps ==
  ASSUME Grpc!GrpcAssumption, GrpcInv, NEW c \in Calls, NEW ok \in BOOLEAN,
         Grpc!Aborts(c) \/ Grpc!TimesOut(c) \/ Grpc!Status(c, ok)
  PROVE  GrpcInv'
<1>0. GrpcCall(c) /\ c \in DOMAIN call /\ c \in DOMAIN result /\ c \in DOMAIN reader
  BY DEF GrpcInv, GrpcDomains
<1>1. UNCHANGED Grpc!lifeVars /\ GrpcDomains' /\ \A d \in Calls \ {c} : GrpcApart(d)
  BY DEF GrpcInv, GrpcDomains, GrpcApart, Grpc!Aborts, Grpc!TimesOut, Grpc!Status, Grpc!Settle, Grpc!readVars
<1>2. UNCHANGED <<listening, closing, attempt, stop>> /\ UNCHANGED <<sent, buffer, read>>
  BY <1>1 DEF Grpc!lifeVars, Grpc!Aborts, Grpc!TimesOut, Grpc!Status, Grpc!readVars
<1>3. result'[c] # "pending"
  BY <1>0 DEF Grpc!Aborts, Grpc!TimesOut, Grpc!Status, Grpc!Settle
<1>4. CASE Grpc!Aborts(c)
  <2>1. GrpcCall(c)'
    BY <1>0, <1>2, <1>3, <1>4 DEF GrpcCall, Grpc!Aborts, Grpc!Listened, Grpc!Reads, CallStates, ReaderStates
  <2> QED
    BY <1>1, <2>1, GrpcOthers
<1>5. CASE Grpc!TimesOut(c)
  <2>1. GrpcCall(c)'
    BY <1>0, <1>2, <1>3, <1>5 DEF GrpcCall, Grpc!TimesOut, Grpc!readVars
  <2> QED
    BY <1>1, <2>1, GrpcOthers
<1>6. CASE Grpc!Status(c, ok)
  <2>1. GrpcCall(c)'
    BY <1>0, <1>2, <1>3, <1>6 DEF GrpcCall, Grpc!Status, Grpc!Reads, CallStates, ReaderStates
  <2> QED
    BY <1>1, <2>1, GrpcOthers
<1> QED
  BY <1>4, <1>5, <1>6

LEMMA GrpcServesKeeps ==
  ASSUME Grpc!GrpcAssumption, GrpcInv, NEW c \in Calls, NEW ok \in BOOLEAN,
         Grpc!Arrives(c) \/ Grpc!HandlerEnds(c, ok) \/ Grpc!Data(c)
  PROVE  GrpcInv'
<1>0. GrpcCall(c) /\ c \in DOMAIN sent /\ c \in DOMAIN buffer /\ c \in DOMAIN reader /\ c \in DOMAIN read
  BY DEF GrpcInv, GrpcDomains
<1>1. UNCHANGED Grpc!lifeVars /\ GrpcDomains' /\ \A d \in Calls \ {c} : GrpcApart(d)
  BY DEF GrpcInv, GrpcDomains, GrpcApart, Grpc!Arrives, Grpc!HandlerEnds, Grpc!Data, Grpc!callVars, Grpc!readVars
<1>2. UNCHANGED <<listening, closing, attempt, stop>>
  BY <1>1 DEF Grpc!lifeVars
<1>3. CASE Grpc!Arrives(c) \/ Grpc!HandlerEnds(c, ok)
  <2>1. UNCHANGED <<call, result, signal, cancelled, Grpc!readVars>>
    BY <1>3 DEF Grpc!Arrives, Grpc!HandlerEnds
  <2>2. GrpcCall(c)'
    BY <1>0, <1>2, <2>1 DEF GrpcCall, Grpc!readVars
  <2> QED
    BY <1>1, <2>2, GrpcOthers
<1>4. CASE Grpc!Data(c)
  <2>1. sent'[c] = sent[c] + 1 /\ call[c] = "open" /\ UNCHANGED <<call, result, signal, cancelled, finished, broken>>
    BY <1>0, <1>4 DEF Grpc!Data, Grpc!callVars
  <2>2. CASE reader[c] = "waiting"
    <3>1. read'[c] = Append(read[c], sent[c] + 1) /\ reader'[c] = "idle" /\ buffer'[c] = <<>>
      BY <1>0, <1>4, <2>1, <2>2 DEF Grpc!Data, GrpcCall
    <3>2. ItemsInOrder(read'[c], buffer'[c], sent'[c])
      BY <1>0, <2>1, <2>2, <3>1, OrderDelivers DEF GrpcCall
    <3>3. GrpcCall(c)'
      BY <1>0, <1>2, <2>1, <2>2, <3>1, <3>2 DEF GrpcCall, ReaderStates
    <3> QED
      BY <1>1, <3>3, GrpcOthers
  <2>3. CASE reader[c] # "waiting"
    <3>1. buffer'[c] = Append(buffer[c], sent[c] + 1) /\ UNCHANGED <<read, reader>>
      BY <1>0, <1>4, <2>1, <2>3 DEF Grpc!Data
    <3>2. ItemsInOrder(read'[c], buffer'[c], sent'[c])
      BY <1>0, <2>1, <3>1, OrderBuffers DEF GrpcCall
    <3>3. GrpcCall(c)'
      BY <1>0, <1>2, <2>1, <2>3, <3>1, <3>2 DEF GrpcCall
    <3> QED
      BY <1>1, <3>3, GrpcOthers
  <2> QED
    BY <2>2, <2>3
<1> QED
  BY <1>3, <1>4

LEMMA GrpcReadsKeeps ==
  ASSUME Grpc!GrpcAssumption, GrpcInv, NEW c \in Calls, Grpc!Starts(c) \/ Grpc!NextItem(c) \/ Grpc!Leaves(c)
  PROVE  GrpcInv'
<1>0. GrpcCall(c) /\ c \in DOMAIN call /\ c \in DOMAIN buffer /\ c \in DOMAIN reader /\ c \in DOMAIN read
  BY DEF GrpcInv, GrpcDomains
<1>1. UNCHANGED Grpc!lifeVars /\ GrpcDomains' /\ \A d \in Calls \ {c} : GrpcApart(d)
  BY DEF GrpcInv, GrpcDomains, GrpcApart, Grpc!Starts, Grpc!NextItem, Grpc!Leaves, Grpc!callVars
<1>2. UNCHANGED <<listening, closing, attempt, stop>>
  BY <1>1 DEF Grpc!lifeVars
<1>3. CASE Grpc!Starts(c)
  <2>1. buffer[c] = <<>>
    <3>1. sent[c] = 0 /\ Len(buffer[c]) \in Nat /\ Len(read[c]) \in Nat /\ Len(read[c]) + Len(buffer[c]) = 0 /\ buffer[c] \in Seq(Nat)
      BY <1>0, <1>3 DEF Grpc!Starts, GrpcCall, ItemsInOrder
    <3>2. \A x, y \in Nat : x + y = 0 => y = 0
      OBVIOUS
    <3>3. Len(buffer[c]) = 0
      BY <3>1, <3>2
    <3> QED
      BY <3>1, <3>3
  <2>2. GrpcCall(c)'
    BY <1>0, <1>2, <1>3, <2>1 DEF GrpcCall, Grpc!Starts, CallStates, ReaderStates
  <2> QED
    BY <1>1, <2>2, GrpcOthers
<1>4. CASE Grpc!NextItem(c)
  <2>1. reader[c] = "idle" /\ call[c] \notin {"taken", "stale"} /\ UNCHANGED <<Grpc!callVars, sent, finished, broken>>
    BY <1>4 DEF Grpc!NextItem
  <2>2. CASE buffer[c] # <<>>
    <3>1. read'[c] = Append(read[c], Head(buffer[c])) /\ buffer'[c] = Tail(buffer[c]) /\ UNCHANGED reader
      BY <1>0, <1>4, <2>2 DEF Grpc!NextItem
    <3>2. ItemsInOrder(read'[c], buffer'[c], sent'[c])
      BY <1>0, <2>1, <2>2, <3>1, OrderReads DEF GrpcCall
    <3>3. GrpcCall(c)'
      BY <1>0, <1>2, <2>1, <3>1, <3>2 DEF GrpcCall, Grpc!callVars
    <3> QED
      BY <1>1, <3>3, GrpcOthers
  <2>3. CASE buffer[c] = <<>>
    <3>1. GrpcCall(c)'
      BY <1>0, <1>2, <1>4, <2>1, <2>3 DEF GrpcCall, Grpc!NextItem, Grpc!callVars, ReaderStates
    <3> QED
      BY <1>1, <3>1, GrpcOthers
  <2> QED
    BY <2>2, <2>3
<1>5. CASE Grpc!Leaves(c)
  <2>1. GrpcCall(c)'
    BY <1>0, <1>2, <1>5 DEF GrpcCall, Grpc!Leaves, Grpc!Reads, CallStates, ReaderStates
  <2> QED
    BY <1>1, <2>1, GrpcOthers
<1> QED
  BY <1>3, <1>4, <1>5

\* ReadsInOrder, ClosedLeavesNoCall and NoDispatchOnceClosing: whatever fails, is
\* aborted or closes, the reader of a gRPC stream gets the items in their order and
\* loses none, a close that ended leaves no unary call pending, and none is dispatched
\* once it has begun (grpcReadableToAsyncIterable(), callUnary() and close()).
THEOREM GrpcReadsInOrder ==
  ASSUME Grpc!GrpcAssumption
  PROVE  Grpc!Spec => []Grpc!ReadsInOrder /\ []Grpc!ClosedLeavesNoCall /\ [][Grpc!NoDispatchOnceClosing]_(Grpc!grpcVars)
<1>1. Grpc!Init => GrpcInv
  <2> SUFFICES ASSUME Grpc!Init PROVE GrpcInv
    OBVIOUS
  <2>1. ASSUME NEW c \in Calls PROVE GrpcCall(c)
    BY <2>1 DEF Grpc!Init, GrpcCall, ItemsInOrder, CallStates, ReaderStates
  <2>2. GrpcDomains /\ GrpcLife
    BY DEF Grpc!Init, GrpcDomains, GrpcLife
  <2> QED
    BY <2>1, <2>2 DEF GrpcInv
<1>2. GrpcInv /\ [Grpc!Next]_(Grpc!grpcVars) => GrpcInv'
  <2> SUFFICES ASSUME GrpcInv, [Grpc!Next]_(Grpc!grpcVars) PROVE GrpcInv'
    OBVIOUS
  <2>1. CASE UNCHANGED Grpc!grpcVars
    BY <2>1 DEF Grpc!grpcVars, Grpc!lifeVars, Grpc!callVars, Grpc!readVars, GrpcInv, GrpcDomains, GrpcLife, GrpcCall
  <2> QED
    BY <2>1, GrpcLifeKeeps, GrpcBeginsKeeps, GrpcEndsKeeps, GrpcServesKeeps, GrpcReadsKeeps DEF Grpc!Next
<1>3. GrpcInv => Grpc!ReadsInOrder
  BY OrderMeans DEF GrpcInv, GrpcCall, Grpc!ReadsInOrder
<1>4. GrpcInv => Grpc!ClosedLeavesNoCall
  BY DEF GrpcInv, GrpcLife, GrpcCall, Grpc!ClosedLeavesNoCall
<1>5. GrpcInv /\ [Grpc!Next]_(Grpc!grpcVars) => [Grpc!NoDispatchOnceClosing]_(Grpc!grpcVars)
  <2> SUFFICES ASSUME GrpcInv, Grpc!Next, NEW c \in Calls, call[c] = "deferred", call'[c] = "open"
               PROVE  ~closing
    BY DEF Grpc!NoDispatchOnceClosing
  <2>0. c \in DOMAIN call
    BY DEF GrpcInv, GrpcDomains
  <2>1. ~(Grpc!Listen \/ Grpc!Undone \/ Grpc!Close \/ \E ok \in BOOLEAN : Grpc!Binds(ok) \/ Grpc!Drains(ok))
    BY DEF Grpc!Listen, Grpc!Undone, Grpc!Close, Grpc!Binds, Grpc!Drains, Grpc!callVars
  <2>2. \A d \in Calls : ~(Grpc!Aborts(d) \/ Grpc!TimesOut(d) \/ Grpc!Arrives(d) \/ Grpc!Data(d) \/ Grpc!NextItem(d)
                            \/ \E ok \in BOOLEAN : Grpc!HandlerEnds(d, ok))
    BY DEF Grpc!Aborts, Grpc!TimesOut, Grpc!Arrives, Grpc!Data, Grpc!NextItem, Grpc!HandlerEnds, Grpc!callVars
  <2>3. \A d \in Calls : ~(Grpc!Call(d) \/ Grpc!Starts(d) \/ Grpc!Leaves(d) \/ \E ok \in BOOLEAN : Grpc!Status(d, ok))
    BY <2>0 DEF Grpc!Call, Grpc!Starts, Grpc!Leaves, Grpc!Status
  <2>4. PICK d \in Calls, ok \in BOOLEAN : Grpc!Dispatch(d, ok)
    BY <2>1, <2>2, <2>3 DEF Grpc!Next
  <2> QED
    BY <2>0, <2>4 DEF Grpc!Dispatch
<1> QED
  BY <1>1, <1>2, <1>3, <1>4, <1>5, PTL DEF Grpc!Spec

---------------------------------------------------------------------------
\* GraphqlOperations.  HolderInv: the container that an id holds is of an
\* operation that made it and is not disposed of; OperationInv: one that
\* was made and is not held was disposed of; RequestInv: what a request
\* over HTTP still holds.

CONSTANTS Sockets, Operations, SocketOf, IdOf, MaxOperations
VARIABLES yoga, shutdown, subscribed, containers, op, disposals
Graph == INSTANCE GraphqlOperations

OpStates == {"no", "context", "running", "completing", "unknown", "over"}
OpLive(o) == op[o].pc \in {"context", "running"}
\* No operation of the id of o uses the container of another.
Separate(o) == \A p \in Operations : Graph!KeyOf(p) = Graph!KeyOf(o) => op[p].uses \in {Graph!NoContainer, p}

ScopeTypes ==
  /\ DOMAIN containers = Graph!Keys /\ DOMAIN socket = Sockets
  /\ op \in [Operations -> [pc : OpStates, uses : Operations \cup {Graph!NoContainer}]]
  /\ disposals \in [Operations -> {0, 1}]

\* The container of an id: of the operation that made it, and not disposed of.
HolderInv(k) ==
  containers[k] # Graph!NoContainer =>
    /\ containers[k] \in Operations /\ Graph!KeyOf(containers[k]) = k /\ disposals[containers[k]] = 0
    /\ op[containers[k]].uses = containers[k] /\ socket[k[1]] \in {"open", "closing"}

\* What one operation made or uses.
OperationInv(o) ==
  /\ op[o].uses = o /\ disposals[o] = 0 => containers[Graph!KeyOf(o)] = o
  /\ op[o].uses # o => disposals[o] = 0
  /\ op[o].uses # Graph!NoContainer => Graph!KeyOf(op[o].uses) = Graph!KeyOf(o)
  /\ op[o].pc = "no" => op[o].uses = Graph!NoContainer
  /\ op[o].pc # "no" => socket[SocketOf[o]] \in {"open", "closing", "gone"}
  /\ OpLive(o) => op[o].uses # Graph!NoContainer
  /\ op[o].pc \in {"completing", "over"} /\ op[o].uses = o => disposals[o] = 1
  /\ Separate(o) /\ OpLive(o) /\ socket[SocketOf[o]] = "open" => containers[Graph!KeyOf(o)] = o

Held(s) == {k \in Graph!OfSocket(s) : containers[k] # Graph!NoContainer}
HeldInv(s) == IsFiniteSet(Held(s)) /\ Cardinality(Held(s)) <= MaxOperations

ScopeInv ==
  /\ ScopeTypes
  /\ \A k \in Graph!Keys : HolderInv(k)
  /\ \A o \in Operations : OperationInv(o)
  /\ \A s \in Sockets : HeldInv(s)
  /\ shutdown # "no" => \A s \in Sockets : socket[s] # "open"

LEMMA KeyFacts ==
  ASSUME Graph!GraphqlAssumption
  PROVE  /\ \A o \in Operations : Graph!KeyOf(o) \in Graph!Keys /\ Graph!KeyOf(o)[1] = SocketOf[o] /\ SocketOf[o] \in Sockets
         /\ \A k \in Graph!Keys : k[1] \in Sockets
         /\ \A s \in Sockets : Graph!OfSocket(s) \subseteq Graph!Keys
         /\ Graph!NoContainer \notin Operations
BY DEF Graph!GraphqlAssumption, Graph!KeyOf, Graph!Keys, Graph!OfSocket

\* What is disposed of, of whose containers.
LEMMA Disposals ==
  ASSUME Graph!GraphqlAssumption, ScopeInv, NEW keys, keys \subseteq Graph!Keys, Graph!DisposeKeys(keys)
  PROVE  /\ \A k \in Graph!Keys : containers'[k] = IF k \in keys THEN Graph!NoContainer ELSE containers[k]
         /\ DOMAIN containers' = Graph!Keys /\ disposals' \in [Operations -> {0, 1}]
         /\ \A o \in Operations : disposals'[o] = IF Graph!KeyOf(o) \in keys /\ containers[Graph!KeyOf(o)] = o THEN 1 ELSE disposals[o]
<1> DEFINE makers == {containers[k] : k \in keys} \ {Graph!NoContainer}
<1>1. /\ containers' = [k \in Graph!Keys |-> IF k \in keys THEN Graph!NoContainer ELSE containers[k]]
      /\ disposals' = [o \in Operations |-> disposals[o] + IF o \in makers THEN 1 ELSE 0]
  BY DEF Graph!DisposeKeys, Graph!Count
<1>2. ASSUME NEW o \in Operations PROVE o \in makers <=> Graph!KeyOf(o) \in keys /\ containers[Graph!KeyOf(o)] = o
  <2>1. ASSUME o \in makers PROVE Graph!KeyOf(o) \in keys /\ containers[Graph!KeyOf(o)] = o
    <3>1. PICK k \in keys : containers[k] = o /\ o # Graph!NoContainer
      BY <2>1
    <3>2. Graph!KeyOf(o) = k
      BY <3>1 DEF ScopeInv, HolderInv
    <3> QED
      BY <3>1, <3>2
  <2>2. ASSUME Graph!KeyOf(o) \in keys, containers[Graph!KeyOf(o)] = o PROVE o \in makers
    BY <2>2, KeyFacts
  <2> QED
    BY <2>1, <2>2
<1>3. ASSUME NEW o \in Operations PROVE o \in makers => disposals[o] = 0
  BY <1>2, <1>3, KeyFacts DEF ScopeInv, HolderInv
<1> HIDE DEF makers
<1>4. \A o \in Operations : disposals'[o] = IF o \in makers THEN 1 ELSE disposals[o]
  BY <1>1, <1>3 DEF ScopeInv, ScopeTypes
<1>5. \A o \in Operations : disposals'[o] \in {0, 1}
  BY <1>4 DEF ScopeInv, ScopeTypes
<1> QED
  BY <1>1, <1>2, <1>4, <1>5

\* Fewer containers are held.
LEMMA HeldLess ==
  ASSUME ScopeInv, NEW s \in Sockets, MaxOperations \in Nat,
         \A k \in Graph!OfSocket(s) : containers'[k] # Graph!NoContainer => containers[k] # Graph!NoContainer
  PROVE  HeldInv(s)'
<1>1. Held(s)' \subseteq Held(s)
  BY DEF Held, Graph!OfSocket, Graph!Keys
<1>2. IsFiniteSet(Held(s)) /\ Cardinality(Held(s)) <= MaxOperations /\ Cardinality(Held(s)) \in Nat
  BY FS_CardinalityType DEF ScopeInv, HeldInv
<1>3. IsFiniteSet(Held(s)') /\ Cardinality(Held(s)') <= Cardinality(Held(s)) /\ Cardinality(Held(s)') \in Nat
  <2> DEFINE X == Held(s)'
  <2>1. X \subseteq Held(s)
    BY <1>1
  <2> HIDE DEF X
  <2>2. IsFiniteSet(X) /\ Cardinality(X) <= Cardinality(Held(s)) /\ Cardinality(X) \in Nat
    BY <1>2, <2>1, FS_Subset, FS_CardinalityType
  <2> QED
    BY <2>2 DEF X
<1>4. Cardinality(Held(s)') <= MaxOperations
  BY <1>2, <1>3
<1> QED
  BY <1>3, <1>4 DEF HeldInv

\* Sockets and the service alone change.
LEMMA SocketSideKeeps ==
  ASSUME Graph!GraphqlAssumption, ScopeInv, UNCHANGED <<containers, op, disposals>>, DOMAIN socket' = Sockets,
         \A s \in Sockets : \/ socket'[s] = socket[s]
                            \/ socket[s] = "open" /\ socket'[s] = "closing"
                            \/ socket[s] = "no" /\ shutdown' = "no",
         shutdown' # "no" => \A s \in Sockets : socket'[s] # "open"
  PROVE  ScopeInv'
<1>1. \A s \in Sockets : HeldInv(s)'
  BY DEF ScopeInv, HeldInv, Held
<1>2. \A k \in Graph!Keys : HolderInv(k)'
  BY KeyFacts DEF ScopeInv, HolderInv
<1>3. ASSUME NEW o \in Operations PROVE OperationInv(o)'
  <2>1. SocketOf[o] \in Sockets /\ OperationInv(o)
    BY KeyFacts DEF ScopeInv
  <2>2. op'[o].pc # "no" => socket'[SocketOf[o]] \in {"open", "closing", "gone"} /\ (socket'[SocketOf[o]] = "open" => socket[SocketOf[o]] = "open")
    BY <2>1 DEF OperationInv
  <2> QED
    BY <2>1, <2>2 DEF OperationInv, OpLive, Separate
<1> QED
  BY <1>1, <1>2, <1>3 DEF ScopeInv, ScopeTypes

\* Containers are disposed of: of operations that end, and of sockets that are not open.
LEMMA DisposesKeeps ==
  ASSUME Graph!GraphqlAssumption, ScopeInv, NEW keys, keys \subseteq Graph!Keys, Graph!DisposeKeys(keys),
         op' \in [Operations -> [pc : OpStates, uses : Operations \cup {Graph!NoContainer}]],
         \A o \in Operations :
           /\ op'[o].uses = op[o].uses
           /\ op'[o].pc = op[o].pc
                \/ (OpLive(o) /\ op'[o].pc \in {"completing", "over"} /\ Graph!KeyOf(o) \in keys),
         DOMAIN socket' = Sockets,
         \A s \in Sockets : \/ socket'[s] = socket[s]
                            \/ socket[s] \in {"open", "closing"} /\ socket'[s] = "closing"
                            \/ socket[s] = "closing" /\ socket'[s] = "gone" /\ Graph!OfSocket(s) \subseteq keys,
         shutdown' # "no" => \A s \in Sockets : socket'[s] # "open",
         \A k \in keys : socket'[k[1]] # "open"
                           \/ \E o \in Operations : Graph!KeyOf(o) = k /\ OpLive(o) /\ op'[o].pc # op[o].pc
  PROVE  ScopeInv'
<1>1. /\ \A k \in Graph!Keys : containers'[k] = IF k \in keys THEN Graph!NoContainer ELSE containers[k]
      /\ DOMAIN containers' = Graph!Keys /\ disposals' \in [Operations -> {0, 1}]
      /\ \A o \in Operations : disposals'[o] = IF Graph!KeyOf(o) \in keys /\ containers[Graph!KeyOf(o)] = o THEN 1 ELSE disposals[o]
  BY Disposals
<1>2. ScopeTypes'
  BY <1>1 DEF ScopeTypes
<1>3. ASSUME NEW s \in Sockets PROVE HeldInv(s)'
  <2>1. MaxOperations \in Nat
    BY DEF Graph!GraphqlAssumption
  <2>2. \A k \in Graph!OfSocket(s) : containers'[k] # Graph!NoContainer => containers[k] # Graph!NoContainer
    BY <1>1, KeyFacts
  <2> QED
    BY <2>1, <2>2, HeldLess
<1>4. ASSUME NEW k \in Graph!Keys PROVE HolderInv(k)'
  <2> SUFFICES ASSUME containers'[k] # Graph!NoContainer
               PROVE  /\ containers'[k] \in Operations /\ Graph!KeyOf(containers'[k]) = k /\ disposals'[containers'[k]] = 0
                      /\ op'[containers'[k]].uses = containers'[k] /\ socket'[k[1]] \in {"open", "closing"}
    BY DEF HolderInv, Graph!KeyOf
  <2>1. k \notin keys /\ containers'[k] = containers[k] /\ containers[k] # Graph!NoContainer
    BY <1>1
  <2>2. /\ containers[k] \in Operations /\ Graph!KeyOf(containers[k]) = k /\ disposals[containers[k]] = 0
        /\ op[containers[k]].uses = containers[k] /\ socket[k[1]] \in {"open", "closing"}
    BY <2>1 DEF ScopeInv, HolderInv
  <2>3. disposals'[containers[k]] = 0
    BY <1>1, <2>1, <2>2
  <2>4. k[1] \in Sockets /\ k \in Graph!OfSocket(k[1])
    BY KeyFacts DEF Graph!OfSocket
  <2>5. socket'[k[1]] \in {"open", "closing"}
    BY <2>1, <2>2, <2>4
  <2> QED
    BY <2>1, <2>2, <2>3, <2>5
<1>5. ASSUME NEW o \in Operations PROVE OperationInv(o)'
  <2>1. /\ OperationInv(o) /\ Graph!KeyOf(o) \in Graph!Keys /\ Graph!KeyOf(o)[1] = SocketOf[o] /\ SocketOf[o] \in Sockets
        /\ HolderInv(Graph!KeyOf(o)) /\ disposals[o] \in {0, 1}
    BY KeyFacts DEF ScopeInv, ScopeTypes
  <2>2. op'[o].uses = op[o].uses /\ (op'[o].pc = op[o].pc \/ (OpLive(o) /\ op'[o].pc \in {"completing", "over"} /\ Graph!KeyOf(o) \in keys))
    OBVIOUS
  <2>3. /\ op'[o].uses = o /\ disposals'[o] = 0 => containers'[Graph!KeyOf(o)] = o
        /\ op'[o].uses # o => disposals'[o] = 0
    BY <1>1, <2>1, <2>2, KeyFacts DEF OperationInv, HolderInv
  <2>4. /\ op'[o].uses # Graph!NoContainer => Graph!KeyOf(op'[o].uses) = Graph!KeyOf(o)
        /\ op'[o].pc = "no" => op'[o].uses = Graph!NoContainer
        /\ OpLive(o)' => op'[o].uses # Graph!NoContainer
    BY <2>1, <2>2 DEF OperationInv, OpLive
  <2>5. op'[o].pc # "no" => socket'[SocketOf[o]] \in {"open", "closing", "gone"}
    BY <2>1, <2>2 DEF OperationInv, OpLive
  <2>6. op'[o].pc \in {"completing", "over"} /\ op'[o].uses = o => disposals'[o] = 1
    BY <1>1, <2>1, <2>2 DEF OperationInv
  <2>7. ASSUME Separate(o)', OpLive(o)', socket'[SocketOf[o]] = "open" PROVE containers'[Graph!KeyOf(o)] = o
    <3>1. Separate(o) /\ OpLive(o) /\ socket[SocketOf[o]] = "open" /\ op'[o].pc = op[o].pc
      BY <2>1, <2>2, <2>7 DEF Separate, OpLive, Graph!KeyOf
    <3>2. containers[Graph!KeyOf(o)] = o
      BY <2>1, <3>1 DEF OperationInv
    <3>3. Graph!KeyOf(o) \notin keys
      <4> SUFFICES ASSUME Graph!KeyOf(o) \in keys PROVE FALSE
        OBVIOUS
      <4>1. PICK p \in Operations : Graph!KeyOf(p) = Graph!KeyOf(o) /\ OpLive(p) /\ op'[p].pc # op[p].pc
        BY <2>1, <2>7
      <4>2. Separate(p) /\ SocketOf[p] = SocketOf[o] /\ OperationInv(p)
        BY <2>1, <3>1, <4>1, KeyFacts DEF Separate, ScopeInv
      <4>3. containers[Graph!KeyOf(p)] = p
        BY <3>1, <4>1, <4>2 DEF OperationInv
      <4> QED
        BY <3>1, <3>2, <4>1, <4>3
    <3> QED
      BY <1>1, <2>1, <3>2, <3>3
  <2> QED
    BY <2>3, <2>4, <2>5, <2>6, <2>7 DEF OperationInv, OpLive, Separate, Graph!KeyOf
<1> QED
  BY <1>2, <1>3, <1>4, <1>5 DEF ScopeInv

\* An operation goes on, and its socket may close.
LEMMA MovesKeep ==
  ASSUME Graph!GraphqlAssumption, ScopeInv, NEW o \in Operations, NEW x \in OpStates, Graph!Moves(o, x),
         UNCHANGED <<containers, disposals, shutdown>>, DOMAIN socket' = Sockets,
         \A s \in Sockets : socket'[s] = socket[s] \/ (socket[s] \in {"open", "closing"} /\ socket'[s] = "closing"),
         \/ op[o].pc = "context" /\ x \in {"running", "unknown"}
         \/ op[o].pc = "completing" /\ x = "over"
         \/ op[o].pc = "no" /\ x = "over" /\ socket[SocketOf[o]] \in {"open", "closing"}
  PROVE  ScopeInv'
<1>1. /\ op' \in [Operations -> [pc : OpStates, uses : Operations \cup {Graph!NoContainer}]]
      /\ op'[o].pc = x /\ op'[o].uses = op[o].uses /\ \A p \in Operations \ {o} : op'[p] = op[p]
  BY DEF Graph!Moves, ScopeInv, ScopeTypes
<1>2. ScopeTypes'
  BY <1>1 DEF ScopeInv, ScopeTypes
<1>3. \A s \in Sockets : HeldInv(s)'
  BY DEF ScopeInv, HeldInv, Held
<1>4. \A k \in Graph!Keys : HolderInv(k)'
  <2>1. \A p \in Operations : op'[p].uses = op[p].uses
    BY <1>1
  <2> QED
    BY <2>1, KeyFacts DEF ScopeInv, HolderInv
<1>5. ASSUME NEW p \in Operations PROVE OperationInv(p)'
  <2>1. SocketOf[p] \in Sockets /\ OperationInv(p) /\ op'[p].uses = op[p].uses
    BY <1>1, KeyFacts DEF ScopeInv
  <2>2. Separate(p)' => Separate(p)
    BY <1>1 DEF Separate, Graph!KeyOf
  <2>3. CASE p = o
    BY <1>1, <2>1, <2>2, <2>3, KeyFacts DEF OperationInv, OpLive, Graph!KeyOf
  <2>4. CASE p # o
    BY <1>1, <2>1, <2>2, <2>4 DEF OperationInv, OpLive, Graph!KeyOf
  <2> QED
    BY <2>3, <2>4
<1>6. shutdown' # "no" => \A s \in Sockets : socket'[s] # "open"
  BY DEF ScopeInv
<1> QED
  BY <1>2, <1>3, <1>4, <1>5, <1>6 DEF ScopeInv

\* A subscription that may use the container of its id, or make one.
LEMMA AdmittedKeeps ==
  ASSUME Graph!GraphqlAssumption, ScopeInv, NEW o \in Operations, NEW m \in Operations,
         op[o].pc = "no", socket[SocketOf[o]] \in {"open", "closing"},
         m = IF containers[Graph!KeyOf(o)] = Graph!NoContainer THEN o ELSE containers[Graph!KeyOf(o)],
         containers[Graph!KeyOf(o)] # Graph!NoContainer \/ ~(Cardinality(Held(SocketOf[o])) >= MaxOperations),
         containers' = [containers EXCEPT ![Graph!KeyOf(o)] = m],
         op' = [op EXCEPT ![o] = [pc |-> "context", uses |-> m]],
         UNCHANGED <<socket, disposals, shutdown>>
  PROVE  ScopeInv'
<1> DEFINE k == Graph!KeyOf(o)
<1>0. /\ k \in Graph!Keys /\ k[1] = SocketOf[o] /\ SocketOf[o] \in Sockets /\ HolderInv(k) /\ OperationInv(o)
      /\ op[o].uses = Graph!NoContainer /\ disposals[o] = 0 /\ Graph!NoContainer \notin Operations
  BY KeyFacts DEF ScopeInv, OperationInv
<1>1. /\ DOMAIN containers' = Graph!Keys /\ containers'[k] = m /\ \A j \in Graph!Keys \ {k} : containers'[j] = containers[j]
      /\ op' \in [Operations -> [pc : OpStates, uses : Operations \cup {Graph!NoContainer}]]
      /\ op'[o].pc = "context" /\ op'[o].uses = m /\ \A p \in Operations \ {o} : op'[p] = op[p]
  BY <1>0 DEF ScopeInv, ScopeTypes, OpStates
<1>2. Graph!KeyOf(m) = k /\ disposals[m] = 0 /\ op'[m].uses = m
  <2>1. CASE containers[k] = Graph!NoContainer
    BY <1>0, <1>1, <2>1
  <2>2. CASE containers[k] # Graph!NoContainer
    <3>1. m = containers[k] /\ op[m].uses = m /\ Graph!KeyOf(m) = k /\ disposals[m] = 0
      BY <1>0, <2>2 DEF HolderInv
    <3>2. m # o
      BY <1>0, <3>1
    <3> QED
      BY <1>1, <3>1, <3>2
  <2> QED
    BY <2>1, <2>2
<1>3. ScopeTypes'
  BY <1>1 DEF ScopeInv, ScopeTypes
<1>4. ASSUME NEW s \in Sockets PROVE HeldInv(s)'
  <2>1. MaxOperations \in Nat /\ IsFiniteSet(Held(s)) /\ Cardinality(Held(s)) <= MaxOperations /\ Cardinality(Held(s)) \in Nat
    BY FS_CardinalityType DEF Graph!GraphqlAssumption, ScopeInv, HeldInv
  <2>2. CASE containers[k] # Graph!NoContainer \/ s # SocketOf[o]
    <3>1. \A j \in Graph!OfSocket(s) : containers'[j] # Graph!NoContainer => containers[j] # Graph!NoContainer
      BY <1>0, <1>1, <2>2 DEF Graph!OfSocket
    <3> QED
      BY <2>1, <3>1, HeldLess
  <2>3. CASE containers[k] = Graph!NoContainer /\ s = SocketOf[o]
    <3> DEFINE X == Held(s)'
    <3>1. X = Held(s) \cup {k}
      <4>1. \A j : j \in X <=> j \in Graph!Keys /\ j[1] = s /\ containers'[j] # Graph!NoContainer
        BY DEF Held, Graph!OfSocket, Graph!Keys
      <4>2. \A j : j \in Held(s) <=> j \in Graph!Keys /\ j[1] = s /\ containers[j] # Graph!NoContainer
        BY DEF Held, Graph!OfSocket
      <4> HIDE DEF X
      <4> QED
        BY <1>0, <1>1, <2>3, <4>1, <4>2
    <3> HIDE DEF X
    <3>2. Cardinality(Held(s)) < MaxOperations
      BY <2>1, <2>3
    <3>3. IsFiniteSet(X) /\ Cardinality(X) <= Cardinality(Held(s)) + 1
      <4>1. k \notin Held(s)
        BY <2>3 DEF Held
      <4> DEFINE Y == Held(s)
      <4>2. X = Y \cup {k} /\ IsFiniteSet(Y) /\ Cardinality(Y) \in Nat /\ k \notin Y
        BY <2>1, <3>1, <4>1
      <4> HIDE DEF Y
      <4>3. IsFiniteSet(X) /\ Cardinality(X) = Cardinality(Y) + 1
        BY <4>2, FS_AddElement
      <4>4. Cardinality(X) <= Cardinality(Y) + 1
        BY <4>2, <4>3
      <4> QED
        BY <4>3, <4>4 DEF Y
    <3>4. Cardinality(X) \in Nat
      BY <3>3, FS_CardinalityType
    <3>5. Cardinality(X) <= MaxOperations
      BY <2>1, <3>2, <3>3, <3>4
    <3> QED
      BY <3>3, <3>5 DEF HeldInv, X
  <2> QED
    BY <2>2, <2>3
<1>5. ASSUME NEW j \in Graph!Keys PROVE HolderInv(j)'
  <2>1. CASE j = k
    BY <1>0, <1>1, <1>2, <2>1 DEF HolderInv, Graph!KeyOf
  <2>2. CASE j # k
    <3> SUFFICES ASSUME containers[j] # Graph!NoContainer
                 PROVE  /\ containers[j] \in Operations /\ Graph!KeyOf(containers[j]) = j /\ disposals[containers[j]] = 0
                        /\ op'[containers[j]].uses = containers[j] /\ socket[j[1]] \in {"open", "closing"}
      BY <1>1, <2>2 DEF HolderInv, Graph!KeyOf
    <3>1. /\ containers[j] \in Operations /\ Graph!KeyOf(containers[j]) = j /\ disposals[containers[j]] = 0
          /\ op[containers[j]].uses = containers[j] /\ socket[j[1]] \in {"open", "closing"}
      BY DEF ScopeInv, HolderInv
    <3>2. containers[j] # o
      BY <2>2, <3>1
    <3> QED
      BY <1>1, <3>1, <3>2
  <2> QED
    BY <2>1, <2>2
<1>6. ASSUME NEW p \in Operations PROVE OperationInv(p)'
  <2>0. OperationInv(p) /\ Graph!KeyOf(p) \in Graph!Keys /\ SocketOf[p] \in Sockets
    BY KeyFacts DEF ScopeInv
  <2>1. CASE p = o
    <3>1. Separate(o)' => m = o
      BY <1>0, <1>1 DEF Separate
    <3> QED
      BY <1>0, <1>1, <1>2, <2>1, <3>1 DEF OperationInv, OpLive, Graph!KeyOf
  <2>2. CASE p # o
    <3>1. op'[p] = op[p] /\ (Separate(p)' => Separate(p))
      <4>1. op'[p] = op[p]
        BY <1>1, <2>2
      <4>2. ASSUME Separate(p)' PROVE Separate(p)
        BY <1>0, <1>1, <4>2 DEF Separate, Graph!KeyOf
      <4> QED
        BY <4>1, <4>2
    <3>2. containers[Graph!KeyOf(p)] = p => containers'[Graph!KeyOf(p)] = p
      BY <1>0, <1>1, <2>0
    <3> QED
      BY <2>0, <3>1, <3>2 DEF OperationInv, OpLive, Graph!KeyOf
  <2> QED
    BY <2>1, <2>2
<1>7. shutdown' # "no" => \A s \in Sockets : socket'[s] # "open"
  BY DEF ScopeInv
<1> QED
  BY <1>3, <1>4, <1>5, <1>6, <1>7 DEF ScopeInv

LEMMA SubscribeKeeps ==
  ASSUME Graph!GraphqlAssumption, ScopeInv, NEW o \in Operations, Graph!Subscribe(o)
  PROVE  ScopeInv'
<1>0. op[o].pc = "no" /\ socket[SocketOf[o]] \in {"open", "closing"} /\ UNCHANGED <<disposals, shutdown>> /\ SocketOf[o] \in Sockets
      /\ HolderInv(Graph!KeyOf(o))
  BY KeyFacts DEF Graph!Subscribe, ScopeInv
<1>1. CASE Graph!Moves(o, "over") /\ UNCHANGED containers /\ (Graph!CloseOf(o) \/ UNCHANGED socket)
  <2>1. DOMAIN socket' = Sockets /\ \A s \in Sockets : socket'[s] = socket[s] \/ (socket[s] \in {"open", "closing"} /\ socket'[s] = "closing")
    BY <1>0, <1>1 DEF Graph!CloseOf, ScopeInv, ScopeTypes
  <2>2. "over" \in OpStates
    BY DEF OpStates
  <2> QED
    BY <1>0, <1>1, <2>1, <2>2, MovesKeep
<1>2. CASE UNCHANGED socket /\ ~(Graph!Moves(o, "over") /\ UNCHANGED containers)
  <2> DEFINE m == IF containers[Graph!KeyOf(o)] = Graph!NoContainer THEN o ELSE containers[Graph!KeyOf(o)]
  <2>1. ~(Graph!KeyOf(o) \in subscribed \/ ~yoga)
    BY <1>2 DEF Graph!Subscribe
  <2>2. /\ ~(containers[Graph!KeyOf(o)] = Graph!NoContainer /\ Graph!Cardinality(Held(SocketOf[o])) >= MaxOperations)
        /\ containers' = [containers EXCEPT ![Graph!KeyOf(o)] = m] /\ op' = [op EXCEPT ![o] = [pc |-> "context", uses |-> m]]
    BY <1>2, <2>1 DEF Graph!Subscribe, Held
  <2>3. Graph!Cardinality(Held(SocketOf[o])) = Cardinality(Held(SocketOf[o]))
    BY DEF Graph!Cardinality, Cardinality
  <2>4. m \in Operations
    BY <1>0 DEF HolderInv
  <2> HIDE DEF m
  <2>5. m = IF containers[Graph!KeyOf(o)] = Graph!NoContainer THEN o ELSE containers[Graph!KeyOf(o)]
    BY DEF m
  <2> QED
    BY <1>0, <1>2, <2>2, <2>3, <2>4, <2>5, AdmittedKeeps
<1> QED
  BY <1>1, <1>2 DEF Graph!Subscribe

\* Where a request over HTTP is says what it still holds.
RequestInv ==
  /\ request \in [pc : {"no", "fetching", "reading", "draining", "over"}, container : {Graph!NoContainer, "open", "disposed"},
                  body : {"none", "open", "ended", "failed", "cancelled"}, client : {"waits", "left", "answered"}]
  /\ request.pc = "no" => request.container # "open" /\ request.client = "waits"
  /\ request.pc \in {"no", "fetching"} => request.body = "none"
  /\ request.pc = "reading" => request.body = "open" /\ request.client # "left"
  /\ request.pc = "draining" => request.body = (IF request.client = "left" THEN "cancelled" ELSE "open")
  /\ Graph!RequestsWindUp

LEMMA RequestKeeps ==
  ASSUME RequestInv, Graph!RequestNext
  PROVE  RequestInv'
<1> USE DEF RequestInv, Graph!RequestsWindUp, Graph!Becomes, Graph!Over, Graph!Ended, Graph!Cancelled, Graph!Reads, Graph!NoContainer
<1>1. CASE Graph!HttpBegins
  BY <1>1 DEF Graph!HttpBegins
<1>2. CASE Graph!Fetched
  <2>1. PICK made \in {Graph!NoContainer, "open"}, streams \in BOOLEAN :
          LET r == [request EXCEPT !.container = made]
          IN request' = IF streams THEN Graph!Reads([r EXCEPT !.body = "open"]) ELSE Graph!Ended(r)
    BY <1>2 DEF Graph!Fetched
  <2>2. request.pc = "fetching"
    BY <1>2 DEF Graph!Fetched
  <2>3. CASE streams
    BY <2>1, <2>2, <2>3
  <2>4. CASE ~streams
    BY <2>1, <2>2, <2>4
  <2> QED
    BY <2>3, <2>4
<1>3. CASE Graph!Chunk
  BY <1>3 DEF Graph!Chunk
<1>4. CASE Graph!BodyEnds
  BY <1>4 DEF Graph!BodyEnds
<1>5. CASE Graph!BodyFails
  BY <1>5 DEF Graph!BodyFails
<1>6. CASE Graph!Drains
  BY <1>6 DEF Graph!Drains
<1>7. CASE Graph!DrainFails
  BY <1>7 DEF Graph!DrainFails
<1>8. CASE Graph!Leaves
  BY <1>8 DEF Graph!Leaves
<1> QED
  BY <1>1, <1>2, <1>3, <1>4, <1>5, <1>6, <1>7, <1>8 DEF Graph!RequestNext

\* What sockets, their operations and the shutdown do.
LEMMA SocketNextKeeps ==
  ASSUME Graph!GraphqlAssumption, ScopeInv, Graph!SocketNext
  PROVE  ScopeInv' /\ request' = request
<1>0. request' = request
  BY DEF Graph!SocketNext, Graph!Bootstrap, Graph!ShutdownBegins, Graph!TransportClosed, Graph!Reset, Graph!Connects, Graph!Closes,
     Graph!Disconnects, Graph!Subscribe, Graph!Invalid, Graph!ContextReady, Graph!ClientCompletes, Graph!Completes, Graph!Completed
<1>1. CASE Graph!Bootstrap \/ Graph!ShutdownBegins \/ Graph!Reset \/ \E s \in Sockets : Graph!Connects(s) \/ Graph!Closes(s)
  <2>1. UNCHANGED <<containers, op, disposals>>
    BY <1>1 DEF Graph!Bootstrap, Graph!ShutdownBegins, Graph!Reset, Graph!Connects, Graph!Closes
  <2>2. DOMAIN socket' = Sockets /\ (shutdown' # "no" => \A s \in Sockets : socket'[s] # "open")
    BY <1>1 DEF Graph!Bootstrap, Graph!ShutdownBegins, Graph!Reset, Graph!Connects, Graph!Closes, ScopeInv, ScopeTypes
  <2>3. \A s \in Sockets : \/ socket'[s] = socket[s]
                           \/ socket[s] = "open" /\ socket'[s] = "closing"
                           \/ socket[s] = "no" /\ shutdown' = "no"
    BY <1>1 DEF Graph!Bootstrap, Graph!ShutdownBegins, Graph!Reset, Graph!Connects, Graph!Closes, ScopeInv, ScopeTypes
  <2> QED
    BY <1>0, <2>1, <2>2, <2>3, SocketSideKeeps
<1>2. CASE Graph!TransportClosed
  <2>1. /\ Graph!DisposeKeys(Graph!Keys) /\ UNCHANGED <<op, socket>>
        /\ \A s \in Sockets : socket[s] # "open"
    BY <1>2 DEF Graph!TransportClosed, ScopeInv
  <2> QED
    BY <1>0, <2>1, DisposesKeeps, KeyFacts DEF ScopeInv, ScopeTypes
<1>3. ASSUME NEW s \in Sockets, Graph!Disconnects(s) PROVE ScopeInv'
  <2>1. /\ Graph!DisposeKeys(Graph!OfSocket(s)) /\ UNCHANGED <<op, shutdown>> /\ socket[s] = "closing"
        /\ DOMAIN socket' = Sockets /\ socket'[s] = "gone" /\ \A t \in Sockets \ {s} : socket'[t] = socket[t]
    BY <1>3 DEF Graph!Disconnects, ScopeInv, ScopeTypes
  <2>2. Graph!OfSocket(s) \subseteq Graph!Keys /\ \A k \in Graph!OfSocket(s) : socket'[k[1]] # "open"
    BY <2>1 DEF Graph!OfSocket
  <2>3. shutdown' # "no" => \A t \in Sockets : socket'[t] # "open"
    BY <2>1 DEF ScopeInv
  <2> QED
    BY <2>1, <2>2, <2>3, DisposesKeeps DEF ScopeInv, ScopeTypes
<1>4. ASSUME NEW o \in Operations, Graph!Invalid(o) \/ Graph!Completes(o) PROVE ScopeInv'
  <2> DEFINE keys == {Graph!KeyOf(o)}
  <2>1. PICK x \in {"over", "completing"} : Graph!Moves(o, x)
    BY <1>4 DEF Graph!Invalid, Graph!Completes
  <2>2. /\ op' \in [Operations -> [pc : OpStates, uses : Operations \cup {Graph!NoContainer}]]
        /\ op'[o].pc = x /\ op'[o].uses = op[o].uses /\ \A p \in Operations \ {o} : op'[p] = op[p]
    BY <2>1 DEF Graph!Moves, ScopeInv, ScopeTypes, OpStates
  <2>3. OpLive(o) /\ op'[o].pc # op[o].pc /\ Graph!DisposeKeys(keys) /\ UNCHANGED shutdown /\ keys \subseteq Graph!Keys
    BY <1>4, <2>2, KeyFacts DEF Graph!Invalid, Graph!Completes, OpLive
  <2>4. socket[SocketOf[o]] \in {"open", "closing", "gone"}
    BY <2>3 DEF ScopeInv, OperationInv, OpLive
  <2>5. DOMAIN socket' = Sockets /\ \A s \in Sockets : socket'[s] = socket[s] \/ (socket[s] \in {"open", "closing"} /\ socket'[s] = "closing")
    BY <1>4, <2>4 DEF Graph!Invalid, Graph!Completes, Graph!CloseOf, ScopeInv, ScopeTypes
  <2>6. shutdown' # "no" => \A s \in Sockets : socket'[s] # "open"
    BY <2>3, <2>5 DEF ScopeInv
  <2>7. \A p \in Operations : /\ op'[p].uses = op[p].uses
                              /\ op'[p].pc = op[p].pc
                                   \/ (OpLive(p) /\ op'[p].pc \in {"completing", "over"} /\ Graph!KeyOf(p) \in keys)
    BY <2>2, <2>3
  <2>8. \A k \in keys : \E p \in Operations : Graph!KeyOf(p) = k /\ OpLive(p) /\ op'[p].pc # op[p].pc
    BY <2>3
  <2> HIDE DEF keys
  <2> QED
    BY <2>2, <2>3, <2>5, <2>6, <2>7, <2>8, DisposesKeeps
<1>5. ASSUME NEW o \in Operations, Graph!ContextReady(o) \/ Graph!Completed(o) PROVE ScopeInv'
  <2>1. UNCHANGED <<containers, disposals, shutdown, socket>> /\ DOMAIN socket = Sockets
    BY <1>5 DEF Graph!ContextReady, Graph!Completed, ScopeInv, ScopeTypes
  <2>2. PICK x \in OpStates : /\ Graph!Moves(o, x)
                              /\ (op[o].pc = "context" /\ x \in {"running", "unknown"}) \/ (op[o].pc = "completing" /\ x = "over")
    BY <1>5 DEF Graph!ContextReady, Graph!Completed, OpStates
  <2> QED
    BY <2>1, <2>2, MovesKeep
<1>6. ASSUME NEW o \in Operations, Graph!ClientCompletes(o) PROVE ScopeInv'
  <2>1. UNCHANGED <<containers, disposals, shutdown, socket, op>>
    BY <1>6 DEF Graph!ClientCompletes
  <2> QED
    BY <2>1, SocketSideKeeps DEF ScopeInv, ScopeTypes
<1> QED
  BY <1>0, <1>1, <1>2, <1>3, <1>4, <1>5, <1>6, SubscribeKeeps DEF Graph!SocketNext

\* ScopesCoverOperations and RequestsWindUp: however operations, sockets and the service
\* end, each container is disposed of once, and not while its operation runs, sockets
\* keep their limit, and a request over HTTP that is over holds neither container nor
\* body (GraphqlLifecycleService and writeFetchResponseStream()).
THEOREM ScopesEndWithOperations ==
  ASSUME Graph!GraphqlAssumption
  PROVE  Graph!Spec => [](Graph!ScopesCoverOperations /\ Graph!RequestsWindUp)
<1>1. Graph!Init => ScopeInv /\ RequestInv
  <2> SUFFICES ASSUME Graph!Init PROVE ScopeInv /\ RequestInv
    OBVIOUS
  <2>1. \A k \in Graph!Keys : HolderInv(k)
    BY DEF Graph!Init, HolderInv
  <2>2. \A o \in Operations : OperationInv(o)
    BY KeyFacts DEF Graph!Init, OperationInv, OpLive
  <2>3. ASSUME NEW s \in Sockets PROVE HeldInv(s)
    <3>1. Held(s) = {}
      BY DEF Graph!Init, Held, Graph!OfSocket
    <3> QED
      BY <3>1, FS_EmptySet DEF HeldInv, Graph!GraphqlAssumption
  <2>4. ScopeTypes /\ shutdown = "no"
    BY DEF Graph!Init, ScopeTypes, OpStates
  <2>5. RequestInv
    BY DEF Graph!Init, RequestInv, Graph!RequestsWindUp, Graph!NoContainer
  <2> QED
    BY <2>1, <2>2, <2>3, <2>4, <2>5 DEF ScopeInv
<1>2. ScopeInv /\ RequestInv /\ [Graph!Next]_(Graph!graphqlVars) => ScopeInv' /\ RequestInv'
  <2> SUFFICES ASSUME ScopeInv, RequestInv, [Graph!Next]_(Graph!graphqlVars) PROVE ScopeInv' /\ RequestInv'
    OBVIOUS
  <2>1. CASE UNCHANGED <<shutdown, socket, containers, op, disposals>>
    <3>1. ScopeInv'
      BY <2>1, SocketSideKeeps DEF ScopeInv, ScopeTypes
    <3>2. Graph!RequestNext \/ UNCHANGED request
      BY SocketNextKeeps DEF Graph!Next, Graph!graphqlVars
    <3>3. CASE UNCHANGED request
      BY <3>1, <3>3 DEF RequestInv, Graph!RequestsWindUp
    <3> QED
      BY <3>1, <3>2, <3>3, RequestKeeps
  <2>2. CASE Graph!SocketNext
    BY <2>2, SocketNextKeeps DEF RequestInv, Graph!RequestsWindUp
  <2>3. CASE Graph!RequestNext
    <3>1. UNCHANGED Graph!socketSide
      BY <2>3 DEF Graph!RequestNext, Graph!HttpBegins, Graph!Fetched, Graph!Chunk, Graph!BodyEnds, Graph!BodyFails, Graph!Drains,
         Graph!DrainFails, Graph!Leaves, Graph!Becomes
    <3> QED
      BY <2>1, <3>1 DEF Graph!socketSide
  <2>4. CASE UNCHANGED Graph!graphqlVars
    BY <2>1, <2>4 DEF Graph!graphqlVars
  <2> QED
    BY <2>2, <2>3, <2>4 DEF Graph!Next
<1>3. ScopeInv /\ RequestInv => Graph!ScopesCoverOperations /\ Graph!RequestsWindUp
  <2> SUFFICES ASSUME ScopeInv, RequestInv PROVE Graph!ScopesCoverOperations
    BY DEF RequestInv
  <2>1. ASSUME NEW o \in Operations
        PROVE  /\ disposals[o] <= 1
               /\ op[o].pc \in {"context", "running"} /\ Graph!Alone(o) /\ socket[SocketOf[o]] = "open" => disposals[o] = 0
               /\ op[o].uses = o /\ (op[o].pc = "over" \/ socket[SocketOf[o]] = "gone") => disposals[o] = 1
    <3>1. /\ OperationInv(o) /\ disposals[o] \in {0, 1} /\ HolderInv(Graph!KeyOf(o)) /\ Graph!KeyOf(o)[1] = SocketOf[o]
          /\ Graph!NoContainer \notin Operations
      BY KeyFacts DEF ScopeInv, ScopeTypes
    <3>2. op[o].uses = o /\ Graph!Alone(o) => Separate(o)
      BY DEF Graph!Alone, Separate
    <3> QED
      BY <3>1, <3>2 DEF OperationInv, OpLive, HolderInv
  <2>2. ASSUME NEW s \in Sockets PROVE Graph!Cardinality({k \in Graph!OfSocket(s) : containers[k] # Graph!NoContainer}) <= MaxOperations
    <3>1. Graph!Cardinality(Held(s)) = Cardinality(Held(s))
      BY DEF Graph!Cardinality, Cardinality
    <3> QED
      BY <3>1 DEF ScopeInv, HeldInv, Held
  <2> QED
    BY <2>1, <2>2 DEF Graph!ScopesCoverOperations
<1> QED
  BY <1>1, <1>2, <1>3, PTL DEF Graph!Spec
=============================================================================
