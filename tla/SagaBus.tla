------------------------------- MODULE SagaBus -------------------------------
(***************************************************************************)
(* CqrsSagaLifecycleService of packages/cqrs/src/buses/saga-bus.ts: an     *)
(* event is dispatched to every matching saga route; the executions of one *)
(* saga are chained, except those dispatched from inside an execution of   *)
(* the same saga, which run at once; routes must not re-enter; shutdown    *)
(* waits for the work in flight.  A handler publishes further events, each *)
(* awaited, and may fail or swallow a failure.  Discovery, which finds the *)
(* same routes every time, is left out.                                    *)
(***************************************************************************)
EXTENDS Naturals, Sequences, FiniteSets

CONSTANTS Sagas, Types,
          Events,      \* event instances, by their class
          Matches,     \* per event: the <<saga, type>> routes it matches, in order
          Republishes, \* per route: the events its handler may publish
          Publishers,  \* callers of dispatch() outside any saga
          Publishes,   \* the event each of them publishes
          MaxDepth     \* MAX_NESTED_SAGA_DEPTH

Routes == Sagas \X Types
SagaAssumption ==
  /\ Matches \in [Events -> Seq(Routes)]
  /\ Republishes \in [Routes -> SUBSET Events]
  /\ Publishes \in [Publishers -> Events]
  /\ MaxDepth \in Nat

VARIABLES
  execs,   \* executions in dispatch order
  tail,    \* executionChains: the last chained execution of a saga, 0 if none
  asked,   \* per publisher: the executions it awaits; {0} before it publishes
  life,    \* lifecycleState; "timedout" is stopped after a drain that gave up
  drain,   \* the executions the drain awaits
  before   \* history: the executions dispatched before shutdown

vars == <<execs, tail, asked, life, drain, before>>

Ids == 1..Len(execs)
Settled(i) == execs[i].status \in {"done", "failed"}
Failed(i) == execs[i].status = "failed"
Route(i) == execs[i].route
SagaOf(i) == execs[i].route[1]

\* path: the executions around this one, outermost first (activeRoutes).
\* prev: the execution chained before it.  awaits: the dispatch its handler
\* awaits.  todo: events its handler has not published.
TypeOK ==
  /\ \A i \in Ids :
       /\ Route(i) \in Routes
       /\ execs[i].path \in Seq(1..(i - 1)) /\ (Len(execs[i].path) < MaxDepth \/ Failed(i))
       /\ execs[i].prev \in 0..(i - 1) /\ execs[i].chained \in BOOLEAN
       /\ execs[i].status \in {"queued", "running", "done", "failed"}
       /\ execs[i].awaits \subseteq Ids /\ execs[i].todo \subseteq Events
  /\ tail \in [Sagas -> 0..Len(execs)]
  /\ \A p \in Publishers : asked[p] \subseteq Ids \cup {0}
  /\ life \in {"ready", "stopping", "stopped", "timedout"}
  /\ drain \subseteq Ids /\ before \subseteq Ids

Init ==
  /\ execs = << >> /\ tail = [s \in Sagas |-> 0]
  /\ asked = [p \in Publishers |-> {0}]
  /\ life = "ready" /\ drain = {} /\ before = {}

---------------------------------------------------------------------------
(* Dispatch *)

ActiveRoutes(path) == {Route(path[k]) : k \in 1..Len(path)}
ActiveSagas(path) == {r[1] : r \in ActiveRoutes(path)}

\* SagaTopologyError: the route is active, or the nesting too deep.
Rejected(route, path) == route \in ActiveRoutes(path) \/ Len(path) >= MaxDepth

\* Mutant: an execution chains to what finished, not to what was queued.
PreviousRunning(routes, k) ==
  LET chain == {i \in Ids : SagaOf(i) = routes[k][1] /\ execs[i].status = "running"}
  IN IF chain = {} THEN 0 ELSE CHOOSE i \in chain : TRUE
\* executionChains.get, after the k-1 routes before were dispatched.
Previous(routes, k) ==
  LET s == routes[k][1]
      batch == {j \in 1..(k - 1) : routes[j][1] = s}
  IN IF batch = {} THEN tail[s] ELSE Len(execs) + (CHOOSE j \in batch : \A l \in batch : l <= j)

\* dispatchWithOrdering of every matching route: the new executions, of which a
\* rejected one has failed already and no other knows of it.
NewExecs(e, path) ==
  [k \in 1..Len(Matches[e]) |->
     LET route == Matches[e][k]
         rejected == Rejected(route, path)
         chained == ~rejected /\ route[1] \notin ActiveSagas(path)
     IN [route |-> route, path |-> path, chained |-> chained,
         prev |-> IF chained THEN Previous(Matches[e], k) ELSE 0,
         status |-> IF rejected THEN "failed" ELSE IF chained THEN "queued" ELSE "running",
         awaits |-> {}, todo |-> IF rejected THEN {} ELSE Republishes[route]]]

NewIds(new) == (Len(execs) + 1)..(Len(execs) + Len(new))
TailAfter(new) ==
  [s \in Sagas |->
     LET mine == {k \in 1..Len(new) : new[k].route[1] = s /\ new[k].chained}
     IN IF mine = {} THEN tail[s] ELSE Len(execs) + (CHOOSE k \in mine : \A l \in mine : l <= k)]

\* dispatch() from outside.
Publish(p) ==
  /\ asked[p] = {0}
  /\ LET new == NewExecs(Publishes[p], << >>)
     IN /\ execs' = execs \o new
        /\ tail' = TailAfter(new)
        /\ asked' = [asked EXCEPT ![p] = NewIds(new)]
  /\ UNCHANGED <<life, drain, before>>

\* A handler publishes e and awaits what becomes of it.
Republish(i, e) ==
  /\ execs[i].status = "running" /\ execs[i].awaits = {} /\ e \in execs[i].todo
  /\ LET new == NewExecs(e, Append(execs[i].path, i))
     IN /\ execs' = [execs EXCEPT ![i].todo = @ \ {e}, ![i].awaits = NewIds(new)] \o new
        /\ tail' = TailAfter(new)
  /\ UNCHANGED <<asked, life, drain, before>>

\* Promise.all: all executions succeeded, or one failed and the handler fails
\* or goes on while the others still run.
Resumes(i, swallow) ==
  /\ execs[i].status = "running" /\ execs[i].awaits # {}
  /\ LET failed == \E j \in execs[i].awaits : Failed(j)
     IN /\ failed \/ \A j \in execs[i].awaits : Settled(j)
        /\ swallow => failed
        /\ execs' = [execs EXCEPT ![i].awaits = {},
                                  ![i].status = IF failed /\ ~swallow THEN "failed" ELSE @]
  /\ UNCHANGED <<tail, asked, life, drain, before>>

\* Mutant: a failure breaks the chain.
MayStartUnlessFailed(i) == execs[i].prev \in {0} \cup {j \in Ids : execs[j].status = "done"}
\* previous.then: the chain goes on after a failure too.
MayStart(i) == execs[i].prev \in {0} \cup {j \in Ids : Settled(j)}

Starts(i) ==
  /\ execs[i].status = "queued" /\ MayStart(i)
  /\ execs' = [execs EXCEPT ![i].status = "running"]
  /\ UNCHANGED <<tail, asked, life, drain, before>>

Finishes(i, ok) ==
  /\ execs[i].status = "running" /\ execs[i].awaits = {}
  /\ execs' = [execs EXCEPT ![i].status = IF ok THEN "done" ELSE "failed", ![i].todo = {}]
  /\ UNCHANGED <<tail, asked, life, drain, before>>

---------------------------------------------------------------------------
(* Shutdown *)

\* Mutant: executions still queued are forgotten.
ActiveWorkRunning == {i \in Ids : execs[i].chained /\ execs[i].status = "running"}
\* pendingDispatches and the ends of executionChains.
ActiveWork == {i \in Ids : execs[i].chained /\ ~Settled(i)}

Shutdown ==
  /\ life = "ready" /\ life' = "stopping"
  /\ drain' = ActiveWork /\ before' = Ids
  /\ UNCHANGED <<execs, tail, asked>>

Stops(state) ==
  /\ life = "stopping" /\ life' = state
  /\ tail' = [s \in Sagas |-> 0] /\ drain' = {}
  /\ UNCHANGED <<execs, asked, before>>

ShutdownDrained == (\A i \in drain : Settled(i)) /\ Stops("stopped")
ShutdownTimesOut == drain # {} /\ Stops("timedout")

Next ==
  \/ \E p \in Publishers : Publish(p)
  \/ \E i \in Ids : \/ Starts(i)
                    \/ \E b \in BOOLEAN : Resumes(i, b) \/ Finishes(i, b)
                    \/ \E e \in Events : Republish(i, e)
  \/ Shutdown \/ ShutdownDrained \/ ShutdownTimesOut

\* Promise reactions run, and a handler that awaits nothing ends.
Due == \E i \in Ids : Starts(i) \/ \E b \in BOOLEAN : Resumes(i, b) \/ Finishes(i, b)
Spec == Init /\ [][Next]_vars /\ WF_vars(Due)

---------------------------------------------------------------------------
(* Properties *)

Encloses(i, j) == \E k \in 1..Len(execs[j].path) : execs[j].path[k] = i
InHandler(i) == execs[i].status = "running"

\* What a handler publishes matches one route at most, and no event two routes of
\* a saga: nested executions started together bypass the chain together.
PublishedAlone ==
  /\ \A r \in Routes : \A e \in Republishes[r] : Len(Matches[e]) <= 1
  /\ \A e \in Events : \A j, k \in DOMAIN Matches[e] : Matches[e][j][1] = Matches[e][k][1] => j = k

\* When PublishedAlone, two executions of one saga run at once only when one was
\* published from inside the other, until a shutdown ends and forgets the chains
\* ("serializes execution per saga token").
SerializedPerSaga ==
  life \in {"ready", "stopping"} =>
    \A i, j \in Ids : i < j /\ SagaOf(i) = SagaOf(j) /\ InHandler(i) /\ InHandler(j) => Encloses(i, j)

\* Shutdown that did not give up left no execution of an event dispatched
\* before it unfinished, nested ones included (drainActiveSagaWork).
DrainWaitsForAll == life = "stopped" => \A i \in before : Settled(i)

\* Every dispatch() settles when handlers do ("resolves once all
\* matching saga chains for the event complete").
AllSettled == \A p \in Publishers : asked[p] # {0} => \A i \in asked[p] : Settled(i)
DispatchSettles == []<>AllSettled
=============================================================================
