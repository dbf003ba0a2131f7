---------------------------- MODULE RedisStreams ----------------------------
(***************************************************************************)
(* RedisStreamsMicroserviceTransport: several listeners read one stream of *)
(* requests through a shared consumer group; each has a group of its own   *)
(* on the stream of events and a stream of its own for responses.  A loop  *)
(* per stream reads a batch, handles its entries one after the other and   *)
(* acknowledges each; an error leaves the rest of the batch as it is.      *)
(* Redis keeps an entry that was read pending until it is acknowledged.    *)
(* Trimming and the lease keys, which decide nothing, are left out.        *)
(***************************************************************************)
EXTENDS Naturals, FiniteSetsExt

CONSTANTS Listeners,
          Messages,  \* requests, numbered in the order of their stream
          Sender,    \* per request: the listener that sends it
          Events,    \* events, numbered
          Fails      \* Redis refuses some commands

StreamsAssumption ==
  /\ Messages \subseteq Nat /\ Events \subseteq Nat /\ Fails \in BOOLEAN
  /\ Sender \in [Messages -> Listeners]

Streams == {"messages", "events", "responses"}
Idle == "idle"

VARIABLES
  listening, closing, handler, \* sets of listeners
  attempt,   \* per listener: the group its listen() creates next, or "none"
  groups,    \* per listener: its own groups that exist
  stop,      \* per listener: where close() is
  loop,      \* per listener and stream: the loop, "off" or what it does
  batch,     \* the entries it has read and not begun
  at,        \* the entry it handles, 0 if none
  entry,     \* per request: "no", "new", "read" or "acked" in the shared group
  event,     \* per listener and event: the same in its event group
  response,  \* per request: the same in its sender's response group
  request,   \* per request: the promise of send()
  handled    \* entries whose handler has settled: <<stream, listener, entry>>

lifeVars == <<listening, closing, handler, attempt, groups, stop>>
loopVars == <<loop, batch, at>>
dataVars == <<entry, event, response, request, handled>>
streamVars == <<lifeVars, loopVars, dataVars>>

StreamsTypeOK ==
  /\ {listening, closing, handler} \subseteq SUBSET Listeners
  /\ \A c \in Listeners :
       /\ attempt[c] \in {"none"} \cup Streams /\ groups[c] \subseteq {"events", "responses"}
       /\ stop[c] \in {"no", "waiting", "looping", "destroying", "ended"}
       /\ \A s \in Streams :
            /\ loop[c][s] \in {"off", Idle, "handling", "replying", "acking"}
            /\ batch[c][s] \subseteq Messages \cup Events
            /\ at[c][s] \in {0} \cup Messages \cup Events
       /\ event[c] \in [Events -> {"no", "new", "read", "acked"}]
  /\ {entry, response} \subseteq [Messages -> {"no", "new", "read", "acked"}]
  /\ request \in [Messages -> {"no", "refused", "pending", "answered", "failed"}]
  /\ handled \subseteq Streams \X Listeners \X (Messages \cup Events)

Init ==
  /\ listening = {} /\ closing = {} /\ handler = {}
  /\ attempt = [c \in Listeners |-> "none"] /\ groups = [c \in Listeners |-> {}]
  /\ stop = [c \in Listeners |-> "no"]
  /\ loop = [c \in Listeners |-> [s \in Streams |-> "off"]]
  /\ batch = [c \in Listeners |-> [s \in Streams |-> {}]]
  /\ at = [c \in Listeners |-> [s \in Streams |-> 0]]
  /\ entry = [m \in Messages |-> "no"] /\ response = [m \in Messages |-> "no"]
  /\ event = [c \in Listeners |-> [e \in Events |-> "no"]]
  /\ request = [m \in Messages |-> "no"] /\ handled = {}

---------------------------------------------------------------------------
(* listen *)

Listen(c) ==
  /\ c \notin listening /\ attempt[c] = "none" /\ stop[c] = "no"
  /\ handler' = handler \cup {c} /\ attempt' = [attempt EXCEPT ![c] = "messages"]
  /\ closing' = closing \ {c}   \* after a close() whose listen() failed
  /\ UNCHANGED <<listening, groups, stop, loopVars, dataVars>>

\* The shared group may exist; a group of its own must not (BUSYGROUP).
ListenStep(c, ok) ==
  /\ attempt[c] # "none" /\ (ok \/ Fails \/ attempt[c] \in groups[c])
  /\ attempt[c] \in groups[c] => ~ok
  /\ groups' = IF ok /\ attempt[c] # "messages" THEN [groups EXCEPT ![c] = @ \cup {attempt[c]}] ELSE groups
  /\ attempt' = [attempt EXCEPT ![c] = IF ~ok THEN "none" ELSE
       CASE @ = "messages" -> "events" [] @ = "events" -> "responses" [] OTHER -> "none"]
  /\ IF ok /\ attempt[c] = "responses"
     THEN listening' = listening \cup {c} /\ loop' = [loop EXCEPT ![c] = [s \in Streams |-> Idle]]
     ELSE UNCHANGED <<listening, loop>>
  /\ stop' = [stop EXCEPT ![c] = IF @ = "waiting" /\ attempt'[c] = "none" THEN (IF ok THEN "looping" ELSE "no") ELSE @]
  /\ UNCHANGED <<closing, handler, batch, at, dataVars>>

---------------------------------------------------------------------------
(* send and emit *)

Send(m) ==
  LET c == Sender[m] IN
  /\ request[m] = "no"
  /\ IF c \in listening \ closing
     THEN request' = [request EXCEPT ![m] = "pending"] /\ entry' = [entry EXCEPT ![m] = "new"]
     ELSE request' = [request EXCEPT ![m] = "refused"] /\ UNCHANGED entry
  /\ UNCHANGED <<lifeVars, loopVars, event, response, handled>>

Expires(m) ==
  /\ request[m] = "pending" /\ request' = [request EXCEPT ![m] = "failed"]
  /\ UNCHANGED <<lifeVars, loopVars, entry, event, response, handled>>

\* Groups that exist get the event.
Emit(e) ==
  /\ \A c \in Listeners : event[c][e] = "no"
  /\ \E c \in Listeners : "events" \in groups[c]
  /\ event' = [c \in Listeners |-> IF "events" \in groups[c] THEN [event[c] EXCEPT ![e] = "new"] ELSE event[c]]
  /\ UNCHANGED <<lifeVars, loopVars, entry, response, request, handled>>

---------------------------------------------------------------------------
(* pollStream *)

New(c, s) == CASE s = "messages" -> {m \in Messages : entry[m] = "new"}
               [] s = "events" -> {e \in Events : event[c][e] = "new"}
               [] OTHER -> {m \in Messages : Sender[m] = c /\ response[m] = "new"}
Marks(c, s, ids, state) ==
  /\ entry' = IF s = "messages" THEN [m \in Messages |-> IF m \in ids THEN state ELSE entry[m]] ELSE entry
  /\ event' = IF s = "events" THEN [event EXCEPT ![c] = [e \in Events |-> IF e \in ids THEN state ELSE @[e]]] ELSE event
  /\ response' = IF s = "responses" THEN [m \in Messages |-> IF m \in ids THEN state ELSE response[m]] ELSE response

Does(c, s, what, rest, id) ==
  /\ loop' = [loop EXCEPT ![c][s] = what] /\ batch' = [batch EXCEPT ![c][s] = rest] /\ at' = [at EXCEPT ![c][s] = id]
\* After the last entry of a batch the loop looks at closing.
Onward(c, rest) == IF rest = {} /\ c \in closing THEN "off" ELSE Idle
Between(c, s) == loop[c][s] = Idle /\ batch[c][s] = {}

\* A read that waits in Redis when close() begins may still return entries.
Read(c, s) ==
  /\ Between(c, s) /\ New(c, s) # {}
  /\ Does(c, s, Idle, New(c, s), 0) /\ Marks(c, s, New(c, s), "read")
  /\ UNCHANGED <<lifeVars, request, handled>>

LoopEnds(c, s) ==
  /\ Between(c, s) /\ c \in closing /\ Does(c, s, "off", {}, 0)
  /\ UNCHANGED <<lifeVars, dataVars>>

\* handleStreamEntry: a handler starts, or a response settles its request.
\* Without a handler the entry is acknowledged as it is.
Handle(c, s) ==
  LET id == Min(batch[c][s])
      what == IF s # "responses" /\ c \in handler THEN "handling" ELSE "acking"
  IN /\ loop[c][s] = Idle /\ batch[c][s] # {}
     /\ Does(c, s, what, batch[c][s] \ {id}, id)
     /\ request' = IF s = "responses" /\ request[id] = "pending" THEN [request EXCEPT ![id] = "answered"] ELSE request
     /\ UNCHANGED <<lifeVars, entry, event, response, handled>>

\* A request is answered, with a result or an error; an event whose handler
\* failed is not acknowledged.
\* Mutant: it is acknowledged like the others.
AfterHandlerAlways(s, ok) == IF s = "messages" THEN "replying" ELSE "acking"
AfterHandler(s, ok) == IF s = "messages" THEN "replying" ELSE IF ok THEN "acking" ELSE Idle
HandlerEnds(c, s, ok) ==
  /\ loop[c][s] = "handling"
  /\ loop' = [loop EXCEPT ![c][s] =
       IF AfterHandler(s, ok) = Idle THEN Onward(c, batch[c][s]) ELSE AfterHandler(s, ok)]
  /\ handled' = IF s = "messages" \/ ok THEN handled \cup {<<s, c, at[c][s]>>} ELSE handled
  /\ at' = [at EXCEPT ![c][s] = IF AfterHandler(s, ok) = Idle THEN 0 ELSE @]
  /\ UNCHANGED <<lifeVars, batch, entry, event, response, request>>

\* An error abandons the rest of the batch.
Abandons(c, s) == Fails /\ Does(c, s, Onward(c, {}), {}, 0)

Reply(c) ==
  /\ loop[c]["messages"] = "replying"
  /\ \/ /\ loop' = [loop EXCEPT ![c]["messages"] = "acking"]
        /\ response' = [response EXCEPT ![at[c]["messages"]] = IF "responses" \in groups[Sender[at[c]["messages"]]] THEN "new" ELSE @]
        /\ UNCHANGED <<batch, at>>
     \/ Abandons(c, "messages") /\ UNCHANGED response
  /\ UNCHANGED <<lifeVars, entry, event, request, handled>>

Ack(c, s) ==
  /\ loop[c][s] = "acking"
  /\ \/ Does(c, s, Onward(c, batch[c][s]), batch[c][s], 0) /\ Marks(c, s, {at[c][s]}, "acked")
     \* the entry is to be deleted once acknowledged, but for events
     \/ s # "events" /\ Abandons(c, s) /\ Marks(c, s, {at[c][s]}, "acked")
     \/ Abandons(c, s) /\ UNCHANGED <<entry, event, response>>
  /\ UNCHANGED <<lifeVars, request, handled>>

---------------------------------------------------------------------------
(* close *)

Close(c) ==
  /\ stop[c] = "no" /\ (c \in listening \/ attempt[c] # "none")
  /\ closing' = closing \cup {c}
  /\ stop' = [stop EXCEPT ![c] = IF attempt[c] # "none" THEN "waiting" ELSE "looping"]
  /\ UNCHANGED <<listening, handler, attempt, groups, loopVars, dataVars>>

\* Mutant: the loops are not waited for.
LoopsOverAny(c) == TRUE
LoopsOver(c) == \A s \in Streams : loop[c][s] = "off"
LoopsEnded(c) ==
  /\ stop[c] = "looping" /\ LoopsOver(c) /\ stop' = [stop EXCEPT ![c] = "destroying"]
  /\ UNCHANGED <<listening, closing, handler, attempt, groups, loopVars, dataVars>>

\* Its own groups are destroyed, with what is pending in them, unless Redis
\* refuses; then it rejects its requests.
Destroys(c, kept) ==
  /\ stop[c] = "destroying" /\ kept \subseteq (IF Fails THEN groups[c] ELSE {})
  /\ groups' = [groups EXCEPT ![c] = kept]
  /\ stop' = [stop EXCEPT ![c] = "ended"]
  /\ listening' = listening \ {c} /\ handler' = handler \ {c}
  /\ request' = [m \in Messages |-> IF Sender[m] = c /\ request[m] = "pending" THEN "failed" ELSE request[m]]
  /\ UNCHANGED <<closing, attempt, loopVars, entry, event, response, handled>>

LoopStep(c, s) == Read(c, s) \/ LoopEnds(c, s) \/ Handle(c, s) \/ Ack(c, s)
ListenerStep(c) ==
  \/ Listen(c) \/ Close(c) \/ LoopsEnded(c) \/ Reply(c)
  \/ \E kept \in SUBSET groups[c] : Destroys(c, kept)
  \/ \E ok \in BOOLEAN : ListenStep(c, ok) \/ \E s \in Streams : HandlerEnds(c, s, ok)
  \/ \E s \in Streams : LoopStep(c, s)
Next ==
  \/ \E c \in Listeners : ListenerStep(c)
  \/ \E m \in Messages : Send(m) \/ Expires(m)
  \/ \E e \in Events : Emit(e)

\* Redis answers and handlers end.
Due ==
  \E c \in Listeners :
    \/ Reply(c) \/ LoopsEnded(c) \/ \E kept \in SUBSET groups[c] : Destroys(c, kept)
    \/ \E ok \in BOOLEAN : ListenStep(c, ok) \/ \E s \in Streams : HandlerEnds(c, s, ok)
    \/ \E s \in Streams : LoopStep(c, s)
Spec == Init /\ [][Next]_streamVars /\ WF_streamVars(Due)

---------------------------------------------------------------------------
(* Properties *)

\* Nothing is acknowledged before its handler is done ("acknowledges
\* request/event entries only after handler-side processing finishes").
AckedWasHandled ==
  /\ \A m \in Messages : entry[m] = "acked" => \E c \in Listeners : <<"messages", c, m>> \in handled
  /\ \A c \in Listeners, e \in Events : event[c][e] = "acked" => <<"events", c, e>> \in handled

\* An event that was read and is not acknowledged can be recovered: the group
\* that holds it pending exists ("stay pending for broker-managed recovery").
PendingIsRecoverable ==
  \A c \in Listeners, e \in Events : event[c][e] = "read" => "events" \in groups[c]

\* In the end nobody waits in close(), and a listener that closed answered or
\* rejected what it had sent.
AllSettled ==
  /\ \A c \in Listeners : stop[c] \in {"no", "ended"}
  /\ \A m \in Messages : request[m] = "pending" => stop[Sender[m]] # "ended"
=============================================================================
