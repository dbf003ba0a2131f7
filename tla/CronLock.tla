------------------------------- MODULE CronLock -------------------------------
(***************************************************************************)
(* The Redis lock of one distributed cron task                             *)
(* (packages/cron/src/distributed-lock-manager.ts, with runDistributedTask *)
(* Tick and the shutdown of service.ts): every node ticks, the one whose   *)
(* SET NX succeeds runs the task, renews the lock while the body runs and  *)
(* reports success only after the renewals that were due.  Time passes in  *)
(* units; timers may be late, requests slow or failing.  A request reaches *)
(* Redis in one step; only the reply of SET is a step of its own.          *)
(***************************************************************************)
EXTENDS Integers, FiniteSets, TLAPS

CONSTANTS Nodes,
          None,
          Ttl,       \* lockTtlMs
          Latency,   \* bound: time until the reply of SET arrives
          Weathers   \* the conditions a run may meet, of those below

ASSUME LockAssumption ==
  /\ None \notin Nodes
  /\ Ttl \in Nat /\ Ttl >= 2
  /\ Latency \in Nat
  /\ Weathers \subseteq {"faults", "prompt"}

VARIABLES
  weather,  \* faults: timers stall, requests fail; prompt: neither does
  owner,    \* the value of the key in Redis, None when absent
  left,     \* time until Redis expires the key
  phase,    \* where the tick of each node is
  since,    \* time since the SET of a node whose reply is under way
  due,      \* nextRenewalDueAt, as the time left until then
  pending,  \* renewal attempts in renewalChain
  failed,   \* nodes whose lockPostRunError is set
  owned,    \* nodes whose ownedLockKeys has the key
  running,  \* nodes whose runningDistributedLockKeys has the key
  up,       \* started; stopping: shutdown waits; stopped
  expired   \* history: nodes whose lock ran out since they were granted it

redis == <<owner, left>>
renewal == <<since, due, pending, failed>>
vars == <<weather, owner, left, phase, since, due, pending, failed, owned, running, up, expired>>

\* Do timers and renewals run before time passes, may requests fail?
Prompt == weather = "prompt"
Fails == weather = "faults"

\* granted: SET succeeded, its reply is under way.  failing: the body threw and
\* the error hooks run.  settling: the body ended, renewals are awaited.
Phases == {"idle", "granted", "body", "failing", "settling", "succeeded", "failed", "dead"}
Holding == {"granted", "body", "failing", "settling"}
\* Mutant: the lock is renewed when it is about to expire.
RenewEveryTtl == Ttl
\* renewalIntervalMs
RenewEvery == Ttl \div 2
\* Bounds: how late a renewal may be, and how many attempts are told apart.
Late == RenewEvery
MaxPending == 2
AtMost(a, b) == IF a < b THEN a ELSE b
AtLeast(a, b) == IF a < b THEN b ELSE a

TypeOK ==
  /\ weather \in Weathers
  /\ owner \in Nodes \cup {None} /\ left \in 0..Ttl
  /\ phase \in [Nodes -> Phases]
  /\ since \in [Nodes -> 0..Latency]
  /\ due \in [Nodes -> (-Late)..Ttl]
  /\ pending \in [Nodes -> 0..MaxPending]
  /\ failed \subseteq Nodes /\ owned \subseteq Nodes /\ running \subseteq Nodes
  /\ up \in [Nodes -> {"started", "stopping", "stopped"}]
  /\ expired \subseteq Nodes

Init ==
  /\ weather \in Weathers
  /\ owner = None /\ left = 0
  /\ phase = [n \in Nodes |-> "idle"]
  /\ since = [n \in Nodes |-> 0] /\ due = [n \in Nodes |-> 0]
  /\ pending = [n \in Nodes |-> 0] /\ failed = {}
  /\ owned = {} /\ running = {}
  /\ up = [n \in Nodes |-> "started"]
  /\ expired = {}

Goes(n, p) == phase' = [phase EXCEPT ![n] = p]
\* The renewal state of a run goes with the run.
DropRenewal(n) ==
  /\ since' = [since EXCEPT ![n] = 0] /\ due' = [due EXCEPT ![n] = 0]
  /\ pending' = [pending EXCEPT ![n] = 0]
  /\ failed' = failed \ {n} /\ expired' = expired \ {n}

---------------------------------------------------------------------------
(* Redis *)

\* Mutant: SET without PX.
LockTtlNone == 0
\* The time to live SET gives the key.
LockTtl == Ttl
SetNX(n) == owner = None /\ owner' = n /\ left' = LockTtl

\* Mutant: the script does not compare the owner.
DeletesAny(n) == owner # None
\* RELEASE_LOCK_SCRIPT deletes the key of this owner only.
Deletes(n) == owner = n
ReleaseScript(n) == IF Deletes(n) THEN owner' = None /\ left' = 0 ELSE UNCHANGED redis

\* RENEW_LOCK_SCRIPT
RenewScript(n) == owner' = owner /\ left' = IF owner = n THEN Ttl ELSE left

---------------------------------------------------------------------------
(* A tick *)

\* tryAcquireLock: the key is free and the reply will say so.
TryAcquireLock(n) ==
  /\ phase[n] = "idle" /\ up[n] = "started" /\ SetNX(n)
  /\ Goes(n, "granted")
  /\ UNCHANGED <<renewal, owned, running, up, expired>>

\* SET is applied but its reply never comes: the tick is skipped.
AcquireReplyLost(n) ==
  /\ Fails /\ phase[n] = "idle" /\ up[n] = "started" /\ SetNX(n)
  /\ UNCHANGED <<phase, renewal, owned, running, up, expired>>

\* The reply arrives: the monitor starts and the body runs.
Acquired(n) ==
  /\ phase[n] = "granted"
  /\ Goes(n, "body")
  /\ owned' = owned \cup {n} /\ running' = running \cup {n}
  /\ due' = [due EXCEPT ![n] = RenewEvery]
  /\ since' = [since EXCEPT ![n] = 0]
  /\ UNCHANGED <<redis, pending, failed, up, expired>>

\* The interval of startLockRenewalMonitor.
RenewalDue(n) ==
  /\ phase[n] \in {"body", "failing"} /\ due[n] <= 0
  /\ due' = [due EXCEPT ![n] = @ + RenewEvery]
  /\ pending' = [pending EXCEPT ![n] = AtMost(@ + 1, MaxPending)]
  /\ UNCHANGED <<redis, phase, since, failed, owned, running, up, expired>>

Verdict(n, failures) == IF n \in failures THEN "failed" ELSE "succeeded"

\* runLockRenewalAttempt: renewed, ownership-lost, or renewal-failed whether or
\* not Redis applied it.  The last one awaited decides the run.
Renews(n, reply) ==
  /\ pending[n] > 0 /\ phase[n] \in {"body", "failing", "settling"}
  /\ IF reply = "lost" THEN UNCHANGED redis ELSE RenewScript(n)
  /\ reply # "ok" => Fails
  /\ failed' = IF owner = n /\ reply = "ok" THEN failed ELSE failed \cup {n}
  /\ pending' = [pending EXCEPT ![n] = @ - 1]
  /\ IF phase[n] = "settling" /\ pending[n] = 1 THEN Goes(n, Verdict(n, failed')) ELSE UNCHANGED phase
  /\ UNCHANGED <<since, due, owned, running, up, expired>>

\* queueDueLockRenewalAttempts
DueAttempts(n) == IF due[n] <= 0 THEN ((-due[n]) \div RenewEvery) + 1 ELSE 0

\* The body ends; getPostRunError stops the interval and awaits the chain.
BodyEnds(n) ==
  /\ phase[n] = "body"
  /\ LET attempts == AtMost(pending[n] + DueAttempts(n), MaxPending)
     IN /\ pending' = [pending EXCEPT ![n] = attempts]
        /\ Goes(n, IF attempts = 0 THEN Verdict(n, failed) ELSE "settling")
  /\ UNCHANGED <<redis, since, due, failed, owned, running, up, expired>>

\* The body throws: the lock is renewed until the hooks have run.
BodyThrows(n) ==
  /\ phase[n] = "body"
  /\ Goes(n, "failing")
  /\ UNCHANGED <<redis, renewal, owned, running, up, expired>>

\* The hooks have run: releaseLock.  When the request fails the key stays in
\* ownedLockKeys, whether or not Redis deleted it.
ReleaseLock(n, reply) ==
  /\ phase[n] \in {"failing", "succeeded", "failed"}
  /\ reply # "ok" => Fails
  /\ IF reply = "lost" THEN UNCHANGED redis ELSE ReleaseScript(n)
  /\ owned' = IF reply = "ok" THEN owned \ {n} ELSE owned
  /\ running' = running \ {n}
  /\ Goes(n, "idle") /\ DropRenewal(n)
  /\ UNCHANGED up

---------------------------------------------------------------------------
(* Shutdown, crashes and time *)

ShutdownBegins(n) ==
  /\ up[n] = "started" /\ phase[n] # "dead"
  /\ up' = [up EXCEPT ![n] = "stopping"]
  /\ UNCHANGED <<redis, phase, renewal, owned, running, expired>>

\* releaseOwnedLocks: the running tasks' locks are left alone.
ToRelease(n) == owned \ running

\* The ticks ended or the timeout fired; locks are released, or stay owned
\* when the request fails.
ShutdownReleases(n, reply) ==
  /\ up[n] = "stopping" /\ phase[n] # "dead"
  /\ reply # "ok" => Fails
  /\ IF n \in ToRelease(n) /\ reply # "lost" THEN ReleaseScript(n) ELSE UNCHANGED redis
  /\ owned' = IF n \in ToRelease(n) /\ reply = "ok" THEN owned \ {n} ELSE owned
  /\ up' = [up EXCEPT ![n] = "stopped"]
  /\ UNCHANGED <<phase, renewal, running, expired>>

Crash(n) ==
  /\ phase[n] # "dead"
  /\ Goes(n, "dead") /\ DropRenewal(n)
  /\ owned' = owned \ {n} /\ running' = running \ {n}
  /\ UNCHANGED <<redis, up>>

\* What a node does before the time it is due: the reply of SET, and with
\* Prompt timers and renewals.
Timely(n) ==
  /\ phase[n] = "granted" => since[n] < Latency
  /\ Prompt /\ phase[n] \in {"body", "failing", "settling"} =>
       pending[n] = 0 /\ (phase[n] # "settling" => due[n] > 0)

TimePasses ==
  /\ \A n \in Nodes : Timely(n)
  /\ left' = AtLeast(left - 1, 0)
  /\ owner' = IF left = 1 THEN None ELSE owner
  /\ expired' = expired \cup {n \in Nodes : left = 1 /\ owner = n /\ phase[n] \in Holding}
  /\ since' = [n \in Nodes |-> IF phase[n] = "granted" THEN since[n] + 1 ELSE since[n]]
  /\ due' = [n \in Nodes |-> IF phase[n] \in {"body", "failing"}
                             THEN AtLeast(due[n] - 1, -Late) ELSE due[n]]
  /\ UNCHANGED <<phase, pending, failed, owned, running, up>>

Replies == {"ok", "applied", "lost"}
NodeStep(n) ==
  \/ TryAcquireLock(n) \/ AcquireReplyLost(n) \/ Acquired(n)
  \/ RenewalDue(n) \/ BodyEnds(n) \/ BodyThrows(n)
  \/ \E reply \in Replies : Renews(n, reply) \/ ReleaseLock(n, reply) \/ ShutdownReleases(n, reply)
  \/ ShutdownBegins(n) \/ Crash(n)
Next ==
  /\ (\E n \in Nodes : NodeStep(n)) \/ TimePasses
  /\ UNCHANGED weather

\* Time goes on, and the reply of SET arrives within Latency.
Fairness == WF_vars(TimePasses /\ UNCHANGED weather) /\ \A n \in Nodes : WF_vars(Acquired(n) /\ UNCHANGED weather)
Spec == Init /\ [][Next]_vars /\ Fairness

---------------------------------------------------------------------------
(* Properties *)

\* A run loses its lock by expiry only: neither the release of another node,
\* though a key it failed to release is still in its ownedLockKeys, nor that of
\* an earlier run, nor a shutdown that gives up waiting takes it away
\* (releaseLockKey, releaseOwnedLocks).  The exception: a key left by a failed
\* release is released by a shutdown that gives up waiting while SET's reply to
\* a new tick is under way, which made the key this run's again.
HeldUnlessExpired ==
  [][\A n \in Nodes :
       (owner = n /\ owner' # n /\ {phase[n], phase'[n]} \subseteq Holding)
       => n \in expired' \/ (phase[n] = "granted" /\ up'[n] # up[n])]_vars

\* A run reported successful never lost its lock while its body ran, however
\* late its timers and renewals were (queueDueLockRenewalAttempts).
SuccessMeansHeld ==
  [][\A n \in Nodes : phase[n] # "succeeded" /\ phase'[n] = "succeeded" => n \notin expired]_vars

\* HeldUnlessExpired and SuccessMeansHeld: nobody takes a lock away from a run,
\* and none that lost its lock is reported successful (releaseLockKey,
\* queueDueLockRenewalAttempts).
LockGuardsRun == HeldUnlessExpired /\ SuccessMeansHeld

\* When timers are on time and requests succeed within Latency the lock of a
\* running body does not expire ("renews the Redis lock before that TTL expires").
PromptRenewedInTime ==
  weather = "prompt" => \A n \in Nodes : phase[n] \in Holding => n \notin expired

\* A key left by a crash, a failed release or a lost reply goes away.
LeftoverExpires ==
  \A n \in Nodes : (owner = n /\ phase[n] \in {"idle", "dead"}) ~> (owner # n \/ phase[n] \notin {"idle", "dead"})

---------------------------------------------------------------------------
(* Proofs, for every set of nodes, every time to live and every latency of *)
(* a SET.  RunningInv keeps releaseOwnedLocks away from a running task;    *)
(* LeaseInv compares two clocks: the time Redis gives the key and the time *)
(* the node has until it queues the next renewal.                          *)

\* A tick whose body began is in runningDistributedLockKeys.
Begun == {"body", "failing", "settling", "succeeded", "failed"}
RunningInv == \A n \in Nodes : phase[n] \in Begun => n \in running

\* No renewal waits or failed.
Quiet(n) == pending[n] = 0 /\ n \notin failed

\* A node between two ticks has nothing left of the earlier one.
RestInv ==
  \A n \in Nodes :
    /\ phase[n] \in {"idle", "granted"} => Quiet(n)
    /\ phase[n] = "idle" => n \notin expired

\* A run whose lock expired does not own the key again before it ends.
ExpiryInv == \A n \in Nodes : n \in expired /\ phase[n] \in Holding => owner # n

\* The lock of a run that owes no renewal outlives the time until the next one.
LeaseInv ==
  \A n \in Nodes :
    /\ due[n] <= RenewEvery
    /\ phase[n] = "granted" =>
         n \notin expired /\ (owner = n => left >= Ttl - since[n])
    /\ (phase[n] \in {"body", "failing"} /\ Quiet(n) /\ due[n] > 0) =>
         n \notin expired /\ (owner = n => left >= due[n])

LockInv == TypeOK /\ RunningInv /\ RestInv /\ ExpiryInv

-----------------------------------------------------------------------------
\* The renewal interval is half the time to live, rounded down.
LEMMA Interval == RenewEvery \in Nat /\ RenewEvery >= 1 /\ 2 * RenewEvery <= Ttl
BY LockAssumption DEF RenewEvery

\* Bounding the attempts keeps them in their type.
LEMMA AttemptsType ==
  ASSUME TypeOK, NEW n \in Nodes
  PROVE  /\ AtMost(pending[n] + 1, MaxPending) \in 0..MaxPending
         /\ AtMost(pending[n] + DueAttempts(n), MaxPending) \in 0..MaxPending
         /\ due[n] <= 0 => AtMost(pending[n] + DueAttempts(n), MaxPending) # 0
         /\ due[n] > 0 => DueAttempts(n) = 0
<1> DEFINE p == pending[n]
           d == due[n]
<1>1. p \in 0..2 /\ d \in Int /\ RenewEvery \in Nat \ {0}
  BY Interval, LockAssumption DEF TypeOK, MaxPending, Late
<1>2. ASSUME d <= 0 PROVE (-d) \div RenewEvery \in Nat
  BY <1>1, <1>2
<1>3. DueAttempts(n) \in Nat /\ (d <= 0 => DueAttempts(n) >= 1) /\ (d > 0 => DueAttempts(n) = 0)
  BY <1>1, <1>2 DEF DueAttempts
<1> QED
  BY <1>1, <1>3 DEF AtMost, MaxPending

LEMMA LockInit == Init => LockInv /\ LeaseInv
<1> SUFFICES ASSUME Init PROVE LockInv /\ LeaseInv
  OBVIOUS
<1> USE LockAssumption, Interval DEF Init
<1>1. TypeOK
  BY DEF TypeOK, Phases, Late, MaxPending
<1>2. RunningInv /\ RestInv /\ ExpiryInv
  BY DEF RunningInv, RestInv, ExpiryInv, Begun, Holding, Quiet
<1>3. LeaseInv
  BY DEF LeaseInv
<1> QED
  BY <1>1, <1>2, <1>3 DEF LockInv

-----------------------------------------------------------------------------
LEMMA LockTypeStep == TypeOK /\ [Next]_vars => TypeOK'
<1> SUFFICES ASSUME TypeOK, [Next]_vars PROVE TypeOK'
  OBVIOUS
<1>0. Ttl \in Nat /\ Ttl >= 2 /\ Latency \in Nat /\ RenewEvery \in Nat /\ RenewEvery >= 1 /\ 2 * RenewEvery <= Ttl
  BY LockAssumption, Interval
<1> USE <1>0
<1>1. ASSUME NEW n \in Nodes, TryAcquireLock(n), UNCHANGED weather PROVE TypeOK'
  BY <1>1 DEF TryAcquireLock, SetNX, LockTtl, Goes, renewal, TypeOK, Phases
<1>2. ASSUME NEW n \in Nodes, AcquireReplyLost(n), UNCHANGED weather PROVE TypeOK'
  BY <1>2 DEF AcquireReplyLost, SetNX, LockTtl, renewal, TypeOK
<1>3. ASSUME NEW n \in Nodes, Acquired(n), UNCHANGED weather PROVE TypeOK'
  BY <1>3 DEF Acquired, Goes, redis, TypeOK, Phases, Late
<1>4. ASSUME NEW n \in Nodes, RenewalDue(n), UNCHANGED weather PROVE TypeOK'
  BY <1>4, AttemptsType DEF RenewalDue, redis, TypeOK, Late
<1>5. ASSUME NEW n \in Nodes, BodyEnds(n), UNCHANGED weather PROVE TypeOK'
  BY <1>5, AttemptsType DEF BodyEnds, Goes, Verdict, redis, TypeOK, Phases
<1>6. ASSUME NEW n \in Nodes, BodyThrows(n), UNCHANGED weather PROVE TypeOK'
  BY <1>6 DEF BodyThrows, Goes, redis, renewal, TypeOK, Phases
<1>7. ASSUME NEW n \in Nodes, NEW reply \in Replies, Renews(n, reply), UNCHANGED weather PROVE TypeOK'
  BY <1>7 DEF Renews, RenewScript, Goes, Verdict, redis, TypeOK, Phases, MaxPending
<1>8. ASSUME NEW n \in Nodes, NEW reply \in Replies, ReleaseLock(n, reply), UNCHANGED weather PROVE TypeOK'
  BY <1>8 DEF ReleaseLock, ReleaseScript, Goes, DropRenewal, redis, TypeOK, Phases, Late, MaxPending
<1>9. ASSUME NEW n \in Nodes, NEW reply \in Replies, ShutdownReleases(n, reply), UNCHANGED weather PROVE TypeOK'
  BY <1>9 DEF ShutdownReleases, ReleaseScript, redis, renewal, TypeOK
<1>10. ASSUME NEW n \in Nodes, ShutdownBegins(n), UNCHANGED weather PROVE TypeOK'
  BY <1>10 DEF ShutdownBegins, redis, renewal, TypeOK
<1>11. ASSUME NEW n \in Nodes, Crash(n), UNCHANGED weather PROVE TypeOK'
  BY <1>11 DEF Crash, Goes, DropRenewal, redis, TypeOK, Phases, Late, MaxPending
<1>12. ASSUME TimePasses, UNCHANGED weather PROVE TypeOK'
  BY <1>12 DEF TimePasses, Timely, AtLeast, TypeOK, Late
<1>13. ASSUME UNCHANGED vars PROVE TypeOK'
  BY <1>13 DEF vars, TypeOK
<1> QED
  BY <1>1, <1>2, <1>3, <1>4, <1>5, <1>6, <1>7, <1>8, <1>9, <1>10, <1>11, <1>12, <1>13 DEF Next, NodeStep

LEMMA LockStep == LockInv /\ [Next]_vars => LockInv'
<1> SUFFICES ASSUME LockInv, [Next]_vars PROVE LockInv'
  OBVIOUS
<1> USE DEF LockInv, RunningInv, RestInv, ExpiryInv, Begun, Holding, Quiet
<1>0. TypeOK' /\ None \notin Nodes
  BY LockTypeStep, LockAssumption
<1> USE <1>0
<1>1. ASSUME NEW n \in Nodes, TryAcquireLock(n), UNCHANGED weather PROVE LockInv'
  BY <1>1 DEF TryAcquireLock, SetNX, Goes, renewal, TypeOK
<1>2. ASSUME NEW n \in Nodes, AcquireReplyLost(n), UNCHANGED weather PROVE LockInv'
  BY <1>2 DEF AcquireReplyLost, SetNX, renewal, TypeOK
<1>3. ASSUME NEW n \in Nodes, Acquired(n), UNCHANGED weather PROVE LockInv'
  BY <1>3 DEF Acquired, Goes, redis, TypeOK
<1>4. ASSUME NEW n \in Nodes, RenewalDue(n), UNCHANGED weather PROVE LockInv'
  BY <1>4 DEF RenewalDue, redis, TypeOK
<1>5. ASSUME NEW n \in Nodes, BodyEnds(n), UNCHANGED weather PROVE LockInv'
  BY <1>5 DEF BodyEnds, Goes, Verdict, redis, TypeOK
<1>6. ASSUME NEW n \in Nodes, BodyThrows(n), UNCHANGED weather PROVE LockInv'
  BY <1>6 DEF BodyThrows, Goes, redis, renewal, TypeOK
<1>7. ASSUME NEW n \in Nodes, NEW reply \in Replies, Renews(n, reply), UNCHANGED weather PROVE LockInv'
  BY <1>7 DEF Renews, RenewScript, Goes, Verdict, redis, TypeOK
<1>8. ASSUME NEW n \in Nodes, NEW reply \in Replies, ReleaseLock(n, reply), UNCHANGED weather PROVE LockInv'
  BY <1>8 DEF ReleaseLock, ReleaseScript, Goes, DropRenewal, redis, TypeOK
<1>9. ASSUME NEW n \in Nodes, NEW reply \in Replies, ShutdownReleases(n, reply), UNCHANGED weather PROVE LockInv'
  BY <1>9 DEF ShutdownReleases, ReleaseScript, redis, renewal, TypeOK
<1>10. ASSUME NEW n \in Nodes, ShutdownBegins(n), UNCHANGED weather PROVE LockInv'
  BY <1>10 DEF ShutdownBegins, redis, renewal, TypeOK
<1>11. ASSUME NEW n \in Nodes, Crash(n), UNCHANGED weather PROVE LockInv'
  BY <1>11 DEF Crash, Goes, DropRenewal, redis, TypeOK
<1>12. ASSUME TimePasses, UNCHANGED weather PROVE LockInv'
  BY <1>12 DEF TimePasses, TypeOK
<1>13. ASSUME UNCHANGED vars PROVE LockInv'
  BY <1>13 DEF vars, TypeOK
<1> QED
  BY <1>1, <1>2, <1>3, <1>4, <1>5, <1>6, <1>7, <1>8, <1>9, <1>10, <1>11, <1>12, <1>13 DEF Next, NodeStep

-----------------------------------------------------------------------------
(* What a run that succeeded knows. *)

\* When the reply of SET takes no longer than the renewal interval, no step but
\* the passing of time lets the lease of a run that owes no renewal run out.
LEMMA LeaseStep ==
  ASSUME Latency <= RenewEvery, LockInv, LeaseInv, [Next]_vars
  PROVE  LeaseInv'
<1> USE DEF LeaseInv, LockInv, RestInv, Quiet
<1>0. /\ TypeOK /\ TypeOK' /\ None \notin Nodes
      /\ Ttl \in Nat /\ Ttl >= 2 /\ Latency \in Nat /\ RenewEvery \in Nat
      /\ RenewEvery >= 1 /\ 2 * RenewEvery <= Ttl
  BY LockTypeStep, LockAssumption, Interval
<1> USE <1>0
<1>1. ASSUME NEW n \in Nodes, TryAcquireLock(n), UNCHANGED weather PROVE LeaseInv'
  BY <1>1 DEF TryAcquireLock, SetNX, LockTtl, Goes, renewal, TypeOK
<1>2. ASSUME NEW n \in Nodes, AcquireReplyLost(n), UNCHANGED weather PROVE LeaseInv'
  BY <1>2 DEF AcquireReplyLost, SetNX, LockTtl, renewal, TypeOK
<1>3. ASSUME NEW n \in Nodes, Acquired(n), UNCHANGED weather PROVE LeaseInv'
  BY <1>3 DEF Acquired, Goes, redis, TypeOK
<1>4. ASSUME NEW n \in Nodes, RenewalDue(n), UNCHANGED weather PROVE LeaseInv'
  BY <1>4, AttemptsType DEF RenewalDue, redis, TypeOK, AtMost, MaxPending
<1>5. ASSUME NEW n \in Nodes, BodyEnds(n), UNCHANGED weather PROVE LeaseInv'
  BY <1>5 DEF BodyEnds, Goes, Verdict, redis, TypeOK
<1>6. ASSUME NEW n \in Nodes, BodyThrows(n), UNCHANGED weather PROVE LeaseInv'
  BY <1>6 DEF BodyThrows, Goes, redis, renewal, TypeOK
<1>7. ASSUME NEW n \in Nodes, NEW reply \in Replies, Renews(n, reply), UNCHANGED weather PROVE LeaseInv'
  BY <1>7 DEF Renews, RenewScript, Goes, Verdict, redis, TypeOK, ExpiryInv, Holding
<1>8. ASSUME NEW n \in Nodes, NEW reply \in Replies, ReleaseLock(n, reply), UNCHANGED weather PROVE LeaseInv'
  BY <1>8 DEF ReleaseLock, ReleaseScript, Goes, DropRenewal, redis, TypeOK
<1>9. ASSUME NEW n \in Nodes, NEW reply \in Replies, ShutdownReleases(n, reply), UNCHANGED weather PROVE LeaseInv'
  BY <1>9 DEF ShutdownReleases, ReleaseScript, redis, renewal, TypeOK
<1>10. ASSUME NEW n \in Nodes, ShutdownBegins(n), UNCHANGED weather PROVE LeaseInv'
  BY <1>10 DEF ShutdownBegins, redis, renewal, TypeOK
<1>11. ASSUME NEW n \in Nodes, Crash(n), UNCHANGED weather PROVE LeaseInv'
  BY <1>11 DEF Crash, Goes, DropRenewal, redis, TypeOK
<1>12. ASSUME TimePasses, UNCHANGED weather PROVE LeaseInv'
  BY <1>12 DEF TimePasses, Timely, AtLeast, TypeOK, Late, Holding
<1>13. ASSUME UNCHANGED vars PROVE LeaseInv'
  BY <1>13 DEF vars, TypeOK
<1> QED
  BY <1>1, <1>2, <1>3, <1>4, <1>5, <1>6, <1>7, <1>8, <1>9, <1>10, <1>11, <1>12, <1>13 DEF Next, NodeStep

-----------------------------------------------------------------------------
(* The theorems. *)

\* The state of the lock, of its renewals and of the nodes keeps its type.
THEOREM LockTypeCorrect == Spec => []TypeOK
<1>1. Init => TypeOK
  BY LockInit DEF LockInv
<1> QED
  BY <1>1, LockTypeStep, PTL DEF Spec

\* A run loses its lock by expiry only.
LEMMA HeldStep ==
  ASSUME LockInv, [Next]_vars, NEW n \in Nodes,
         owner = n, owner' # n, {phase[n], phase'[n]} \subseteq Holding
  PROVE  n \in expired' \/ (phase[n] = "granted" /\ up'[n] # up[n])
<1> USE DEF LockInv, TypeOK, Holding
<1>1. ASSUME TimePasses PROVE n \in expired'
  BY <1>1, LockAssumption DEF TimePasses
<1>2. ASSUME NEW m \in Nodes, NEW reply \in Replies, ReleaseLock(m, reply) PROVE FALSE
  BY <1>2 DEF ReleaseLock, ReleaseScript, Deletes, Goes, redis
<1>3. ASSUME NEW m \in Nodes, NEW reply \in Replies, ShutdownReleases(m, reply)
      PROVE  phase[n] = "granted" /\ up'[n] # up[n]
  BY <1>3 DEF ShutdownReleases, ReleaseScript, Deletes, ToRelease, redis, renewal, RunningInv, Begun
<1>4. ASSUME NEW m \in Nodes, NEW reply \in Replies, Renews(m, reply) PROVE FALSE
  BY <1>4 DEF Renews, RenewScript, redis
<1>5. ASSUME NEW m \in Nodes,
             \/ TryAcquireLock(m) \/ AcquireReplyLost(m) \/ Acquired(m) \/ RenewalDue(m)
             \/ BodyEnds(m) \/ BodyThrows(m) \/ ShutdownBegins(m) \/ Crash(m) \/ UNCHANGED vars
      PROVE  FALSE
  BY <1>5, LockAssumption
     DEF TryAcquireLock, AcquireReplyLost, SetNX, Acquired, RenewalDue, BodyEnds, BodyThrows,
         ShutdownBegins, Crash, redis, vars
<1> QED
  BY <1>1, <1>2, <1>3, <1>4, <1>5 DEF Next, NodeStep

\* Only the end of the body and the last renewal awaited report a success.
LEMMA SuccessStep ==
  ASSUME LockInv, LeaseInv, [Next]_vars, NEW n \in Nodes,
         phase[n] # "succeeded", phase'[n] = "succeeded"
  PROVE  n \notin expired
<1> USE DEF LockInv, TypeOK
<1>1. ASSUME BodyEnds(n) PROVE n \notin expired
  <2>1. pending[n] = 0 /\ n \notin failed /\ due[n] > 0
    <3>1. AtMost(pending[n] + DueAttempts(n), MaxPending) = 0 /\ n \notin failed
      BY <1>1 DEF BodyEnds, Goes, Verdict
    <3>2. due[n] \in Int /\ pending[n] \in Nat
      BY DEF Late
    <3> QED
      BY <3>1, <3>2, AttemptsType DEF AtMost, MaxPending
  <2> QED
    BY <1>1, <2>1 DEF BodyEnds, LeaseInv, Quiet
<1>2. ASSUME NEW reply \in Replies, Renews(n, reply) PROVE n \notin expired
  BY <1>2 DEF Renews, Goes, Verdict, ExpiryInv, Holding
<1>3. ASSUME NEW m \in Nodes, BodyEnds(m) PROVE m = n
  BY <1>3 DEF BodyEnds, Goes
<1>4. ASSUME NEW m \in Nodes, NEW reply \in Replies, Renews(m, reply) PROVE m = n
  BY <1>4 DEF Renews, Goes
<1>5. ASSUME NEW m \in Nodes,
             \/ TryAcquireLock(m) \/ AcquireReplyLost(m) \/ Acquired(m) \/ RenewalDue(m)
             \/ BodyThrows(m) \/ \E reply \in Replies : ReleaseLock(m, reply) \/ ShutdownReleases(m, reply)
             \/ ShutdownBegins(m) \/ Crash(m) \/ TimePasses \/ UNCHANGED vars
      PROVE  FALSE
  BY <1>5
     DEF TryAcquireLock, AcquireReplyLost, Acquired, RenewalDue, BodyThrows, ReleaseLock,
         ShutdownReleases, ShutdownBegins, Crash, TimePasses, Goes, vars
<1> QED
  BY <1>1, <1>2, <1>3, <1>4, <1>5 DEF Next, NodeStep

\* LockGuardsRun: nobody takes a lock away from a run, and a run that lost its
\* lock is not reported successful (releaseLockKey, releaseOwnedLocks,
\* queueDueLockRenewalAttempts), however late the timers of a node and however
\* many requests fail, when the reply of SET takes no longer than the renewal
\* interval, which is counted from the reply (createLockRenewalState).
THEOREM LockGuards ==
  ASSUME Latency <= RenewEvery
  PROVE  Spec => LockGuardsRun
<1>1. Init => LockInv /\ LeaseInv
  BY LockInit
<1>2. LockInv /\ LeaseInv /\ [Next]_vars => (LockInv /\ LeaseInv)'
  BY LockStep, LeaseStep
<1>3. LockInv /\ LeaseInv /\ [Next]_vars =>
        [\A n \in Nodes :
           (owner = n /\ owner' # n /\ {phase[n], phase'[n]} \subseteq Holding)
           => n \in expired' \/ (phase[n] = "granted" /\ up'[n] # up[n])]_vars
  BY HeldStep
<1>4. LockInv /\ LeaseInv /\ [Next]_vars =>
        [\A n \in Nodes : phase[n] # "succeeded" /\ phase'[n] = "succeeded" => n \notin expired]_vars
  BY SuccessStep
<1> QED
  BY <1>1, <1>2, <1>3, <1>4, PTL DEF Spec, LockGuardsRun, HeldUnlessExpired, SuccessMeansHeld

-----------------------------------------------------------------------------
(* Renewal in time. *)

\* When timers and requests are prompt a renewal reaches Redis before the lease
\* ends: the key outlives the time until the next one.
PunctualInv ==
  weather = "prompt" =>
    \A n \in Nodes :
      /\ phase[n] \in Holding => n \notin expired
      /\ phase[n] = "granted" /\ owner = n => left >= Ttl - since[n]
      /\ phase[n] = "settling" => pending[n] > 0
      /\ phase[n] \in {"body", "failing"} =>
           /\ due[n] \in 0..RenewEvery
           /\ owner = n /\ pending[n] = 0 => left > due[n]

LEMMA PunctualStep ==
  ASSUME Latency < RenewEvery, LockInv, PunctualInv, [Next]_vars
  PROVE  PunctualInv'
<1> SUFFICES ASSUME weather = "prompt" PROVE PunctualInv'
  BY DEF PunctualInv, Next, vars
<1> USE DEF PunctualInv, LockInv, Holding, Prompt, Fails
<1>0. /\ TypeOK /\ TypeOK' /\ None \notin Nodes
      /\ Ttl \in Nat /\ Latency \in Nat /\ RenewEvery \in Nat
      /\ RenewEvery >= 1 /\ 2 * RenewEvery <= Ttl
  BY LockTypeStep, LockAssumption, Interval
<1> USE <1>0
<1>1. ASSUME NEW n \in Nodes, TryAcquireLock(n), UNCHANGED weather PROVE PunctualInv'
  BY <1>1 DEF TryAcquireLock, SetNX, LockTtl, Goes, renewal, TypeOK, RestInv
<1>2. ASSUME NEW n \in Nodes, AcquireReplyLost(n), UNCHANGED weather PROVE PunctualInv'
  BY <1>2 DEF AcquireReplyLost
<1>3. ASSUME NEW n \in Nodes, Acquired(n), UNCHANGED weather PROVE PunctualInv'
  BY <1>3 DEF Acquired, Goes, redis, TypeOK
<1>4. ASSUME NEW n \in Nodes, RenewalDue(n), UNCHANGED weather PROVE PunctualInv'
  BY <1>4 DEF RenewalDue, redis, TypeOK, AtMost, MaxPending
<1>5. ASSUME NEW n \in Nodes, BodyEnds(n), UNCHANGED weather PROVE PunctualInv'
  BY <1>5, AttemptsType DEF BodyEnds, Goes, Verdict, redis, TypeOK
<1>6. ASSUME NEW n \in Nodes, BodyThrows(n), UNCHANGED weather PROVE PunctualInv'
  BY <1>6 DEF BodyThrows, Goes, redis, renewal, TypeOK
<1>7. ASSUME NEW n \in Nodes, NEW reply \in Replies, Renews(n, reply), UNCHANGED weather PROVE PunctualInv'
  BY <1>7 DEF Renews, RenewScript, Goes, Verdict, redis, TypeOK
<1>8. ASSUME NEW n \in Nodes, NEW reply \in Replies, ReleaseLock(n, reply), UNCHANGED weather PROVE PunctualInv'
  BY <1>8 DEF ReleaseLock, ReleaseScript, Goes, DropRenewal, redis, TypeOK
<1>9. ASSUME NEW n \in Nodes, NEW reply \in Replies, ShutdownReleases(n, reply), UNCHANGED weather PROVE PunctualInv'
  BY <1>9 DEF ShutdownReleases, ReleaseScript, redis, renewal, TypeOK
<1>10. ASSUME NEW n \in Nodes, ShutdownBegins(n), UNCHANGED weather PROVE PunctualInv'
  BY <1>10 DEF ShutdownBegins, redis, renewal, TypeOK
<1>11. ASSUME NEW n \in Nodes, Crash(n), UNCHANGED weather PROVE PunctualInv'
  BY <1>11 DEF Crash, Goes, DropRenewal, redis, TypeOK
<1>12. ASSUME TimePasses, UNCHANGED weather PROVE PunctualInv'
  BY <1>12 DEF TimePasses, Timely, AtLeast, TypeOK, Late
<1>13. ASSUME UNCHANGED vars PROVE PunctualInv'
  BY <1>13 DEF vars, TypeOK
<1> QED
  BY <1>1, <1>2, <1>3, <1>4, <1>5, <1>6, <1>7, <1>8, <1>9, <1>10, <1>11, <1>12, <1>13 DEF Next, NodeStep

\* PromptRenewedInTime: when timers and requests are prompt and the reply of SET
\* takes less than the renewal interval, the lock of a run does not expire before
\* the run ends (startLockRenewalMonitor).
THEOREM RenewedInTime ==
  ASSUME Latency < RenewEvery
  PROVE  Spec => []PromptRenewedInTime
<1>1. Init => LockInv /\ PunctualInv
  BY LockInit DEF Init, PunctualInv, Holding
<1>2. LockInv /\ PunctualInv /\ [Next]_vars => (LockInv /\ PunctualInv)'
  BY LockStep, PunctualStep
<1>3. PunctualInv => PromptRenewedInTime
  BY DEF PunctualInv, PromptRenewedInTime
<1> QED
  BY <1>1, <1>2, <1>3, PTL DEF Spec
=============================================================================
