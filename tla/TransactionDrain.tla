--------------------------- MODULE TransactionDrain ---------------------------
(***************************************************************************)
(* Transactions of the three data packages against application shutdown:   *)
(* PrismaService, DrizzleDatabase and MongooseConnection.  A call opens a  *)
(* transaction (or a session), runs the caller's function in it, commits   *)
(* or rolls back, and is tracked meanwhile so that shutdown can abort it   *)
(* and wait for it before it disposes of the connection.  A request        *)
(* transaction may be nested in a manual one, and then joins it.  A        *)
(* function that goes on after its abort is no part of a transaction.      *)
(***************************************************************************)
EXTENDS FiniteSets, TLAPS

CONSTANTS Calls,
          Requests,   \* those of requestTransaction; the others are manual
          Outer,      \* per nested request: the manual call it runs in
          Provider,   \* "prisma", "drizzle" or "mongoose"
          Delegates   \* mongoose: connection.transaction() exists

Nested == DOMAIN Outer
TransactionAssumption ==
  /\ Requests \subseteq Calls /\ Nested \subseteq Requests
  /\ \A c \in Nested : Outer[c] \in Calls \ Requests
  /\ Provider \in {"prisma", "drizzle", "mongoose"} /\ Delegates \in BOOLEAN

VARIABLES
  db,        \* lifecycleState; "disposing" while the connection is disposed of
  tx,        \* per call: its transaction
  requests,  \* activeRequestTransactions
  scopes,    \* activeTransactionScopes, activeSessions
  aborts,    \* requests whose AbortController is aborted
  awaits     \* the calls shutdown waits for

txVars == <<db, tx, requests, scopes, aborts, awaits>>
Open(c) == tx[c] \in {"opening", "running", "ending"}

TransactionTypeOK ==
  /\ db \in {"ready", "shutting-down", "disposing", "stopped"}
  /\ tx \in [Calls -> {"no", "refused", "opening", "running", "ending", "done"}]
  /\ requests \subseteq Requests /\ scopes \subseteq Calls
  /\ aborts \subseteq Requests /\ awaits \subseteq Calls

Init ==
  /\ db = "ready" /\ tx = [c \in Calls |-> "no"]
  /\ requests = {} /\ scopes = {} /\ aborts = {} /\ awaits = {}

---------------------------------------------------------------------------
(* Starting a call *)

Begins(c, state, tracked, scoped) ==
  /\ tx' = [tx EXCEPT ![c] = state]
  /\ requests' = requests \cup tracked /\ scopes' = scopes \cup scoped
Refuses(c) == tx' = [tx EXCEPT ![c] = "refused"] /\ UNCHANGED <<requests, scopes>>
Available == db = "ready"

\* Manual prisma transactions are neither refused nor tracked.
PrismaManual(c) == Begins(c, "opening", {}, {})
PrismaRequest(c) == IF Available THEN Begins(c, "opening", {c}, {}) ELSE Refuses(c)
PrismaNested(c) == IF Available THEN Begins(c, "running", {c}, {}) ELSE Refuses(c)

DrizzleManual(c) == IF Available THEN Begins(c, "opening", {}, {c}) ELSE Refuses(c)
DrizzleRequest(c) == IF Available THEN Begins(c, "opening", {c}, {}) ELSE Refuses(c)
DrizzleNested(c) == IF Available THEN Begins(c, "running", {c}, {}) ELSE Refuses(c)

\* The session of the connection tracks its scope; one that fluo starts has none
\* until it is open.
MongooseScope(c) == IF Delegates THEN {c} ELSE {}
MongooseManual(c) == IF Available THEN Begins(c, "opening", {}, MongooseScope(c)) ELSE Refuses(c)
MongooseRequest(c) == IF Available THEN Begins(c, "opening", {c}, MongooseScope(c)) ELSE Refuses(c)
MongooseNested(c) == IF Available THEN Begins(c, "running", {c}, {}) ELSE Refuses(c)

Start(c) ==
  /\ tx[c] = "no" /\ (c \in Nested => tx[Outer[c]] = "running")
  /\ CASE Provider = "prisma" ->
            (IF c \in Nested THEN PrismaNested(c)
             ELSE IF c \in Requests THEN PrismaRequest(c) ELSE PrismaManual(c))
       [] Provider = "drizzle" ->
            (IF c \in Nested THEN DrizzleNested(c)
             ELSE IF c \in Requests THEN DrizzleRequest(c) ELSE DrizzleManual(c))
       [] OTHER ->
            (IF c \in Nested THEN MongooseNested(c)
             ELSE IF c \in Requests THEN MongooseRequest(c) ELSE MongooseManual(c))
  /\ UNCHANGED <<db, aborts, awaits>>

---------------------------------------------------------------------------
(* Its transaction *)

\* What is no longer tracked when the transaction of c is over: nested requests
\* of prisma and drizzle stay tracked until then.
\* Mutant: they do not.
UntrackedOwn(c) == {c}
Untracked(c) == {c} \cup {n \in Nested : Outer[n] = c}
Over(c) ==
  /\ tx' = [tx EXCEPT ![c] = "done"]
  /\ requests' = requests \ Untracked(c) /\ scopes' = scopes \ {c}

\* The transaction has begun and calls the function, unless the abort was first;
\* it may also fail to begin.
Opened(c, ok) ==
  /\ tx[c] = "opening"
  /\ IF ~ok THEN Over(c)
     ELSE /\ tx' = [tx EXCEPT ![c] = IF c \in aborts THEN "ending" ELSE "running"]
          /\ scopes' = IF Provider = "mongoose" /\ c \notin aborts THEN scopes \cup {c} ELSE scopes
          /\ UNCHANGED requests
  /\ UNCHANGED <<db, aborts, awaits>>

\* The request's own signal aborts it.
SignalAborts(c) ==
  /\ c \in requests \ aborts /\ Open(c)
  /\ aborts' = aborts \cup {c}
  /\ UNCHANGED <<db, tx, requests, scopes, awaits>>

\* When a nested call returns it is untracked, or its tracking is deferred to
\* the end of the outer transaction.
\* Mutant: it is never deferred.
DefersNever == FALSE
Defers == Provider # "mongoose"

\* raceWithAbort: the function settles, after the calls nested in it, or the
\* abort wins.
FunctionOver(c) ==
  /\ tx[c] = "running"
  /\ c \in aborts \/ \A n \in Nested : Outer[n] = c => ~Open(n)
  /\ tx' = [tx EXCEPT ![c] = IF c \in Nested THEN "done" ELSE "ending"]
  /\ requests' = IF c \in Nested /\ ~Defers THEN requests \ {c} ELSE requests
  /\ UNCHANGED <<db, scopes, aborts, awaits>>

\* An abort also ends the wait for a transaction of the connection itself, which
\* then only its scope tracks.
LeavesDelegate(c) ==
  /\ Provider = "mongoose" /\ Delegates
  /\ c \in (aborts \cap requests) \ Nested /\ Open(c)
  /\ requests' = requests \ {c}
  /\ UNCHANGED <<db, tx, scopes, aborts, awaits>>

\* Commit or rollback, and the end of the session.
Settles(c) ==
  /\ tx[c] = "ending" /\ Over(c)
  /\ UNCHANGED <<db, aborts, awaits>>

---------------------------------------------------------------------------
(* onApplicationShutdown *)

\* Mutant: requests are waited for and not aborted.
AbortedNone == {}
AbortedRequests == requests
Shutdown ==
  /\ db = "ready" /\ db' = "shutting-down"
  /\ aborts' = aborts \cup AbortedRequests /\ awaits' = requests \cup scopes
  /\ UNCHANGED <<tx, requests, scopes>>

Drained ==
  /\ db = "shutting-down" /\ awaits \cap (requests \cup scopes) = {}
  /\ db' = "disposing"
  /\ UNCHANGED <<tx, requests, scopes, aborts, awaits>>

Disposed ==
  /\ db = "disposing" /\ db' = "stopped"
  /\ UNCHANGED <<tx, requests, scopes, aborts, awaits>>

CallStep(c) ==
  Start(c) \/ SignalAborts(c) \/ FunctionOver(c) \/ LeavesDelegate(c) \/ Settles(c)
    \/ \E ok \in BOOLEAN : Opened(c, ok)
Next == (\E c \in Calls : CallStep(c)) \/ Shutdown \/ Drained \/ Disposed

\* Databases answer and manual functions end; the function of a request need
\* not, but its abort is seen.
Due ==
  \/ Drained \/ Disposed
  \/ \E c \in Calls :
       \/ \E ok \in BOOLEAN : Opened(c, ok)
       \/ Settles(c) \/ (c \in aborts \cup (Calls \ Requests) /\ FunctionOver(c))
Spec == Init /\ [][Next]_txVars /\ WF_txVars(Due)

---------------------------------------------------------------------------
(* Properties *)

\* Those a package promises to drain: all of drizzle and mongoose; with prisma
\* the requests, and the manual transactions they are nested in.
Promised == IF Provider # "prisma" THEN Calls
            ELSE {c \in Calls : c \in Requests \/ \E n \in Nested : Outer[n] = c /\ tx[n] \notin {"no", "refused"}}

\* No transaction that was to be drained is open when the connection is disposed
\* of ("drained before `$disconnect()` runs", "disposal cannot overtake a late
\* transaction", "runs only after active request transactions and ambient
\* session scopes have settled").
DisposeAfterTransactions == db \in {"disposing", "stopped"} => \A c \in Promised : ~Open(c)

\* In the end shutdown is over though the functions of requests hang: they are
\* aborted.
AllSettled == db \in {"ready", "stopped"}

---------------------------------------------------------------------------
(* Proofs *)

\* A nested call begins when the call it runs in has, and is open only while that
\* runs its function.
NestingInv ==
  \A n \in Nested :
    /\ tx[n] # "no" => tx[Outer[n]] \notin {"no", "refused", "opening"}
    /\ Open(n) => tx[n] = "running" /\ tx[Outer[n]] = "running"

\* Whoever opened a transaction that is promised is tracked until it is over: a
\* nested request among the requests, also after its return if that defers it.
TrackedInv ==
  \A c \in Calls :
    /\ Open(c) /\ c \in Nested => c \in requests
    /\ Open(c) /\ c \in Requests \ Nested => c \in IF Provider = "mongoose" THEN scopes ELSE requests
    /\ Open(c) /\ c \notin Requests /\ Provider # "prisma" => c \in scopes
    /\ Provider = "prisma" /\ c \in Nested /\ tx[c] \notin {"no", "refused"} /\ Open(Outer[c]) => c \in requests

\* Shutdown waits for all that is tracked: nothing is added once it began.
AwaitedInv ==
  /\ db # "ready" => requests \cup scopes \subseteq awaits
  /\ db \in {"disposing", "stopped"} => requests \cup scopes = {}

DrainInv == TransactionTypeOK /\ NestingInv /\ TrackedInv /\ AwaitedInv

\* What the proofs assume of the constants: TransactionAssumption, and that a
\* connection of mongoose runs transactions itself, since a session that fluo
\* opens is tracked only once it is open.
TracksWhatOpens == TransactionAssumption /\ (Provider = "mongoose" => Delegates)

\* Starting: a new call is tracked from its first step, and refused once shutdown began.
LEMMA StartTracks ==
  ASSUME TracksWhatOpens, DrainInv, NEW c \in Calls, Start(c)
  PROVE  DrainInv'
<1> USE DEF TracksWhatOpens, TransactionAssumption, DrainInv, Nested
<1>1. CASE tx' = [tx EXCEPT ![c] = "refused"] /\ UNCHANGED <<requests, scopes>>
  BY <1>1 DEF Start, TransactionTypeOK, NestingInv, TrackedInv, AwaitedInv, Open
<1>2. CASE Provider = "prisma" /\ c \notin Requests
  BY <1>2 DEF Start, PrismaManual, Begins, TransactionTypeOK, NestingInv, TrackedInv, AwaitedInv, Open
<1>3. CASE db = "ready" /\ c \in Nested
  <2>1. /\ tx' = [tx EXCEPT ![c] = "running"] /\ requests' = requests \cup {c} /\ scopes' = scopes
        /\ tx[c] = "no" /\ tx[Outer[c]] = "running" /\ UNCHANGED <<db, aborts, awaits>>
    BY <1>3 DEF Start, PrismaNested, DrizzleNested, MongooseNested, Begins, Refuses, Available
  <2> QED
    BY <1>3, <2>1 DEF TransactionTypeOK, NestingInv, TrackedInv, AwaitedInv, Open
<1>4. CASE db = "ready" /\ c \notin Nested /\ ~(Provider = "prisma" /\ c \notin Requests)
  <2>1. /\ tx' = [tx EXCEPT ![c] = "opening"] /\ tx[c] = "no" /\ UNCHANGED <<db, aborts, awaits>>
        /\ requests' = requests \cup (IF c \in Requests THEN {c} ELSE {})
        /\ scopes' = scopes \cup (IF Provider = "mongoose" \/ c \notin Requests THEN {c} ELSE {})
    BY <1>4 DEF Start, PrismaRequest, DrizzleRequest, MongooseRequest, DrizzleManual, MongooseManual,
       MongooseScope, Begins, Available
  <2> QED
    BY <1>4, <2>1 DEF TransactionTypeOK, NestingInv, TrackedInv, AwaitedInv, Open
<1> QED
  BY <1>1, <1>2, <1>3, <1>4 DEF Start, Available, Refuses, PrismaNested, DrizzleNested, MongooseNested,
     PrismaRequest, DrizzleRequest, MongooseRequest, DrizzleManual, MongooseManual, TransactionTypeOK

\* The end of a transaction: no call nested in it is open any more.
LEMMA OverTracks ==
  ASSUME TracksWhatOpens, DrainInv, NEW c \in Calls, tx[c] \in {"opening", "ending"},
         Over(c), UNCHANGED <<db, aborts, awaits>>
  PROVE  DrainInv'
BY DEF TracksWhatOpens, TransactionAssumption, DrainInv, Nested, Over, Untracked,
   TransactionTypeOK, NestingInv, TrackedInv, AwaitedInv, Open

LEMMA OpenedTracks ==
  ASSUME TracksWhatOpens, DrainInv, NEW c \in Calls, NEW ok \in BOOLEAN, Opened(c, ok)
  PROVE  DrainInv'
<1>1. CASE ~ok
  BY <1>1, OverTracks DEF Opened
<1>2. CASE ok
  BY <1>2 DEF Opened, TracksWhatOpens, TransactionAssumption, DrainInv, Nested,
     TransactionTypeOK, NestingInv, TrackedInv, AwaitedInv, Open
<1> QED
  BY <1>1, <1>2

\* A call returns: nested ones before the one they run in.
LEMMA ReturnTracks ==
  ASSUME TracksWhatOpens, DrainInv, NEW c \in Calls, FunctionOver(c)
  PROVE  DrainInv'
<1> USE DEF TracksWhatOpens, TransactionAssumption, DrainInv, Nested, FunctionOver, Defers
<1>1. TransactionTypeOK'
  BY DEF TransactionTypeOK
<1>2. NestingInv'
  BY DEF TransactionTypeOK, NestingInv, Open
<1>3. TrackedInv'
  BY DEF TransactionTypeOK, TrackedInv, Open
<1>4. AwaitedInv'
  BY DEF AwaitedInv
<1> QED
  BY <1>1, <1>2, <1>3, <1>4

\* What the request's signal and the shutdown do.
LEMMA DrainTracks ==
  ASSUME TracksWhatOpens, DrainInv,
         \/ \E c \in Calls : SignalAborts(c) \/ LeavesDelegate(c)
         \/ Shutdown \/ Drained \/ Disposed \/ UNCHANGED txVars
  PROVE  DrainInv'
BY DEF TracksWhatOpens, TransactionAssumption, DrainInv, Nested, SignalAborts, LeavesDelegate, Shutdown,
   AbortedRequests, Drained, Disposed, txVars, TransactionTypeOK, NestingInv, TrackedInv, AwaitedInv, Open

\* DisposeAfterTransactions, for any calls nested in any way: with Prisma for what
\* is promised, with Drizzle and with connections of mongoose for every transaction.
THEOREM DrainedFirst ==
  ASSUME TracksWhatOpens
  PROVE  Spec => []DisposeAfterTransactions
<1>1. Init => DrainInv
  BY DEF Init, DrainInv, TransactionTypeOK, NestingInv, TrackedInv, AwaitedInv, Open,
     TracksWhatOpens, TransactionAssumption, Nested
<1>2. DrainInv /\ [Next]_txVars => DrainInv'
  BY StartTracks, OverTracks, OpenedTracks, ReturnTracks, DrainTracks DEF Next, CallStep, Settles
<1>3. DrainInv => DisposeAfterTransactions
  BY DEF DrainInv, DisposeAfterTransactions, Promised, TrackedInv, AwaitedInv, TransactionTypeOK,
     TracksWhatOpens, TransactionAssumption, Nested, Open
<1> QED
  BY <1>1, <1>2, <1>3, PTL DEF Spec
=============================================================================
