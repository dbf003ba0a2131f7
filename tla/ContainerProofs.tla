--------------------------- MODULE ContainerProofs ---------------------------
(***************************************************************************)
(* Proofs about Container, for every provider graph, every set of calls,   *)
(* request scopes and overrides, and every MaxIds.                         *)
(*                                                                         *)
(* TypeInv strengthens TypeOK with what the locals of a call and a started *)
(* creation always hold.  DestroyInv is the inductive form of              *)
(* RootDestroyedOnce: the places from which the root can still destroy an  *)
(* instance (its cache, its stale tasks, the rest of its snapshot) hold    *)
(* only instances not destroyed yet, and no instance is in two of them at  *)
(* a time when both would destroy it.                                      *)
(*                                                                         *)
(* The second half is about what the promise caches share: CellInv makes a *)
(* cache hold one creation per token, ReachInv says where disposal will    *)
(* still find an instance that was not destroyed yet, and IsolationInv     *)
(* what may be injected into what.                                         *)
(*                                                                         *)
(* The last part is about override().  FreshInv follows a creation i from  *)
(* its first lookup to its place in a cache: every token that a call       *)
(* building i wants, and every instance it was given, is reachable from    *)
(* i's token in the root's graph (Serves, Builds), so an override that     *)
(* destroys one of them affects i as well, and evicts it.                  *)
(***************************************************************************)
EXTENDS Container, TLAPS, FiniteSetTheorems

CallInv ==
  \A c \in Calls :
    /\ call[c].mode = "resolve" => call[c].in \in Containers /\ call[c].want \in Tokens
    /\ (call[c].mode \in {"suspend", "await"} /\ call[c].waits \notin Ids)
       => call[c].fault \in Failures

CreationInv ==
  \A i \in Ids :
    IF promise[i].state = "free" THEN promise[i].owner = None
    ELSE promise[i].prov \in Providers /\ promise[i].within \in Containers

TypeInv == TypeOK /\ CallInv /\ CreationInv

Stored(i) == promise[i].state \notin {"free", "new"}

HomeInv ==
  \A k \in Containers : \A i \in cache[k] \cup stale[k] \cup todo[k] :
    promise[i].home = k /\ Stored(i)

RootInv ==
  /\ \A i \in Ids : ~Stored(i) => destroyed[i] = 0
  /\ \A i \in stale[Root] : destroyed[i] = 0 /\ i \notin cache[Root] \cup todo[Root]
  /\ \A i \in todo[Root] : destroyed[i] = 0
  /\ phase[Root] # "destroy" => \A i \in cache[Root] : destroyed[i] = 0
  /\ phase[Root] \in {"absent", "open"} => todo[Root] = {}

DestroyInv == HomeInv /\ RootInv /\ RootDestroyedOnce

-----------------------------------------------------------------------------
\* The number of promises with some mark is a natural number.
LEMMA CountIsNat ==
  ASSUME NEW S \in SUBSET Ids
  PROVE  Cardinality(S) \in Nat
<1>1. IsFiniteSet(Ids)
  BY ConstantsAssumption, FS_Interval DEF Ids
<1> QED
  BY <1>1, FS_Subset, FS_CardinalityType

LEMMA LookupType ==
  ASSUME TypeOK, NEW k \in Containers, NEW t \in Tokens
  PROVE  Lookup(k, t) \in Providers \cup {None}
BY DEF TypeOK, Lookup, Containers

LEMMA HomeType ==
  ASSUME NEW k \in Containers, NEW p \in Providers
  PROVE  Home(k, p) \in Containers /\ Within(k, p) \in Containers
BY DEF Home, Within, Containers

LEMMA TypeInit == Init => TypeInv
<1> SUFFICES ASSUME Init PROVE TypeInv
  OBVIOUS
<1> USE ConstantsAssumption DEF Init, Containers
<1>1. registrations \in [Containers -> [Tokens -> Providers \cup {None}]]
  OBVIOUS
<1>2. FreePromise \in Promises
  BY DEF FreePromise, Promises, PromiseState, Unsettled
<1>3. IdleCall \in CallRecords
  BY DEF IdleCall, CallRecords
<1>4. TypeOK
  BY <1>1, <1>2, <1>3 DEF TypeOK, Phases
<1> QED
  BY <1>4 DEF TypeInv, CallInv, CreationInv, IdleCall, FreePromise

-----------------------------------------------------------------------------
(* Type correctness. *)

\* What a lookup finds and where it is instantiated.
LEMMA LookingType ==
  ASSUME TypeInv, NEW c \in Calls, Looking(c)
  PROVE  /\ call[c].in \in Containers /\ call[c].want \in Tokens
         /\ Found(c) \in Providers \cup {None}
<1>1. call[c].in \in Containers /\ call[c].want \in Tokens
  BY DEF Looking, TypeInv, CallInv
<1> QED
  BY <1>1, LookupType DEF Found, TypeInv

\* The records the steps of a call write.
LEMMA AwaitRecord ==
  ASSUME NEW r \in CallRecords, NEW i \in Ids \cup {0},
         NEW f \in Failures \cup {"none"}
  PROVE  [r EXCEPT !.mode = "suspend", !.waits = i, !.fault = f, !.via = {}]
         \in CallRecords
BY DEF CallRecords

LEMMA WantRecord ==
  ASSUME NEW r \in CallRecords, NEW t \in Tokens, NEW V \in SUBSET Tokens
  PROVE  [r EXCEPT !.want = t, !.via = V] \in CallRecords
BY DEF CallRecords

LEMMA DescendRecord ==
  ASSUME NEW r \in CallRecords, NEW t \in Tokens, NEW k \in Containers
  PROVE  [r EXCEPT !.want = t, !.in = k, !.via = {}] \in CallRecords
BY DEF CallRecords

Started(r, k, t) == [r EXCEPT !.mode = "resolve", !.in = k, !.want = t]

LEMMA StartRecord ==
  ASSUME NEW r \in CallRecords, NEW k \in Containers, NEW t \in Tokens
  PROVE  /\ Started(r, k, t) \in CallRecords /\ Started(r, k, t).mode = "resolve"
         /\ Started(r, k, t).in = k /\ Started(r, k, t).want = t
BY DEF CallRecords, Started

LEMMA DoneRecord ==
  ASSUME NEW r \in CallRecords, NEW f \in Failures \cup {"none", "disposed"}
  PROVE  LET q == [r EXCEPT !.mode = "done", !.fault = f]
         IN q \in CallRecords /\ q.mode = "done" /\ q.fault = f
BY DEF CallRecords

\* Every way a lookup can end leaves well-typed locals behind.
LEMMA AwaitNextType ==
  ASSUME TypeInv, NEW c \in Calls, NEW i \in Ids \cup {0},
         NEW f \in Failures \cup {"none"}, AwaitNext(c, i, f),
         i \notin Ids => f \in Failures
  PROVE  call' \in [Calls -> CallRecords] /\ CallInv'
<1>1. call' \in [Calls -> CallRecords]
  <2>1. [call[c] EXCEPT !.mode = "suspend", !.waits = i, !.fault = f, !.via = {}]
        \in CallRecords
    BY AwaitRecord DEF TypeInv, TypeOK
  <2> QED
    BY <2>1 DEF AwaitNext, TypeInv, TypeOK
<1>2. CallInv'
  BY <1>1 DEF AwaitNext, TypeInv, TypeOK, CallInv, CallRecords
<1> QED
  BY <1>1, <1>2

\* Evicting a promise only shrinks the caches.
LEMMA EvictType ==
  ASSUME TypeInv, NEW i \in Ids
  PROVE  /\ Evict(i) \in [Containers -> SUBSET Ids]
         /\ \A k \in Containers : Evict(i)[k] \subseteq cache[k]
BY DEF Evict, TypeInv, TypeOK

LEMMA TrackType ==
  ASSUME TypeInv, NEW h, Track(h)
  PROVE  childScopes' \subseteq Children /\ trackedByRoot' \subseteq Children
BY DEF Track, TypeInv, TypeOK

\* A failure a waiting call is told about is one of Failures.
LEMMA FaultType ==
  ASSUME TypeInv, NEW c \in Calls, WaitedSettled(c), ~WaitedOk(c)
  PROVE  WaitedFault(c) \in Failures
<1>1. CASE call[c].waits \in Ids
  <2>1. promise[call[c].waits].state \in PromiseState \ (Unsettled \cup {"ok"})
    BY <1>1 DEF WaitedSettled, WaitedOk, Settled, Fulfilled, TypeInv, TypeOK, Promises
  <2> QED
    BY <1>1, <2>1 DEF WaitedFault, PromiseState
<1>2. CASE call[c].waits \notin Ids
  BY <1>2 DEF WaitedSettled, WaitedFault, TypeInv, CallInv
<1> QED
  BY <1>1, <1>2

LEMMA LookupStepType ==
  ASSUME TypeInv, NEW c \in Calls, Lookups(c)
  PROVE  TypeInv'
<1> USE ConstantsAssumption DEF Containers
<1>0. 0 \notin Ids
  BY DEF Ids
<1>1. CASE ThrowCircular(c)
  <2>1. call' \in [Calls -> CallRecords] /\ CallInv'
    BY <1>0, <1>1, AwaitNextType DEF ThrowCircular, Failures
  <2> QED
    BY <1>1, <2>1 DEF ThrowCircular, TypeInv, TypeOK, CreationInv,
       graphVars, trackVars, disposalVars
<1>2. CASE ThrowMissing(c)
  <2>1. call' \in [Calls -> CallRecords] /\ CallInv'
    BY <1>0, <1>2, AwaitNextType DEF ThrowMissing, Failures
  <2> QED
    BY <1>2, <2>1 DEF ThrowMissing, TypeInv, TypeOK, CreationInv,
       graphVars, trackVars, disposalVars
<1>3. CASE ThrowOutsideRequest(c)
  <2>1. call' \in [Calls -> CallRecords] /\ CallInv'
    BY <1>0, <1>3, AwaitNextType DEF ThrowOutsideRequest, Failures
  <2> QED
    BY <1>3, <2>1 DEF ThrowOutsideRequest, TypeInv, TypeOK, CreationInv,
       graphVars, trackVars, disposalVars
<1>4. CASE FollowAlias(c)
  <2>1. useExisting[Found(c)] \in Tokens /\ call[c].want \in Tokens
        /\ call[c].in \in Containers
    BY <1>4, LookingType DEF FollowAlias
  <2>2. call' \in [Calls -> CallRecords]
    <3>1. [call[c] EXCEPT !.want = useExisting[Found(c)],
                          !.via = call[c].via \cup {call[c].want}] \in CallRecords
      <4>1. call[c] \in CallRecords /\ call[c].via \subseteq Tokens
        BY DEF TypeInv, TypeOK, CallRecords
      <4> QED
        BY <2>1, <4>1, WantRecord
    <3> QED
      BY <1>4, <3>1 DEF FollowAlias, TypeInv, TypeOK
  <2>3. CallInv'
    BY <1>4, <2>1, <2>2 DEF FollowAlias, TypeInv, TypeOK, CallInv, CallRecords, Looking
  <2> QED
    BY <1>4, <2>2, <2>3 DEF FollowAlias, TypeInv, TypeOK, CreationInv,
       graphVars, trackVars, disposalVars
<1>5. CASE ShareCached(c)
  <2>1. PICK i \in Hits(c) : AwaitNext(c, i, "none")
    BY <1>5 DEF ShareCached
  <2>2. i \in Ids
    <3>1. Home(call[c].in, Found(c)) \in Containers
      BY <1>5, LookingType, HomeType DEF ShareCached, Cacheable
    <3> QED
      BY <2>1, <3>1 DEF Hits, CachedFor, TypeInv, TypeOK
  <2>3. call' \in [Calls -> CallRecords] /\ CallInv'
    BY <2>1, <2>2, AwaitNextType
  <2>4. childScopes' \subseteq Children /\ trackedByRoot' \subseteq Children
    BY <1>5, TrackType DEF ShareCached
  <2> QED
    BY <1>5, <2>3, <2>4 DEF ShareCached, TypeInv, TypeOK, CreationInv,
       graphVars, disposalVars
<1>6. ASSUME NEW i \in Ids, Instantiate(c, i) PROVE TypeInv'
  <2> DEFINE p == Found(c)
             h == IF scope[p] = "transient" THEN None ELSE Home(call[c].in, p)
             w == Within(call[c].in, p)
  <2>1. p \in Providers /\ h \in Containers \cup {None} /\ w \in Containers
        /\ call[c].want \in Tokens
    BY <1>6, LookingType, HomeType DEF Instantiate
  <2>2. /\ promise' = [promise EXCEPT ![i] =
             [FreePromise EXCEPT !.prov = p, !.home = h, !.within = w,
                !.owner = c, !.toks = call[c].via \cup {call[c].want},
                !.state = "new"]]
        /\ Track(h)
        /\ \/ AwaitNext(c, 0, "scope-mismatch") \/ AwaitNext(c, i, "none")
           \/ /\ inject[p] # <<>>
              /\ call' = [call EXCEPT ![c] =
                   [@ EXCEPT !.want = inject[p][1], !.in = w, !.via = {}]]
    BY <1>6 DEF Instantiate
  <2> HIDE DEF p, h, w
  <2>3. call[c].via \subseteq Tokens
    BY DEF TypeInv, TypeOK, CallRecords
  <2>4. promise' \in [Ids -> Promises] /\ CreationInv'
    <3>1. [FreePromise EXCEPT !.prov = p, !.home = h, !.within = w,
             !.owner = c, !.toks = call[c].via \cup {call[c].want},
             !.state = "new"] \in Promises
      BY <2>1, <2>3 DEF FreePromise, Promises, PromiseState, Unsettled
    <3>2. promise' \in [Ids -> Promises]
      BY <2>2, <3>1 DEF TypeInv, TypeOK
    <3>3. CreationInv'
      BY <2>1, <2>2 DEF TypeInv, TypeOK, CreationInv, FreePromise
    <3> QED
      BY <3>2, <3>3
  <2>5. call' \in [Calls -> CallRecords] /\ CallInv'
    <3>1. CASE AwaitNext(c, 0, "scope-mismatch")
      BY <1>0, <3>1, AwaitNextType DEF Failures
    <3>2. CASE AwaitNext(c, i, "none")
      BY <3>2, AwaitNextType
    <3>3. CASE /\ inject[p] # <<>>
               /\ call' = [call EXCEPT ![c] =
                    [@ EXCEPT !.want = inject[p][1], !.in = w, !.via = {}]]
      <4>1. inject[p][1] \in Tokens
        BY <2>1, <3>3
      <4>2. call' \in [Calls -> CallRecords]
        <5>1. [call[c] EXCEPT !.want = inject[p][1], !.in = w, !.via = {}]
              \in CallRecords
          BY <2>1, <4>1, DescendRecord DEF TypeInv, TypeOK
        <5> QED
          BY <3>3, <5>1 DEF TypeInv, TypeOK
      <4>3. CallInv'
        BY <1>6, <2>1, <3>3, <4>1, <4>2
        DEF TypeInv, TypeOK, CallRecords, CallInv, Instantiate, Looking
      <4> QED
        BY <4>2, <4>3
    <3> QED
      BY <2>2, <3>1, <3>2, <3>3
  <2>6. childScopes' \subseteq Children /\ trackedByRoot' \subseteq Children
    BY <2>2, TrackType
  <2> QED
    BY <1>6, <2>4, <2>5, <2>6 DEF Instantiate, TypeInv, TypeOK, graphVars, disposalVars
<1> QED
  BY <1>1, <1>2, <1>3, <1>4, <1>5, <1>6 DEF Lookups

\* A creation keeps its provider, its containers, its call and the tokens it
\* resolves for good.
SameCreation(r, s) ==
  /\ s.prov = r.prov /\ s.home = r.home /\ s.within = r.within /\ s.owner = r.owner
  /\ s.toks = r.toks

LEMMA StoredRecord ==
  ASSUME NEW r \in Promises, NEW s \in {"building", "pending"}, NEW n \in Nat,
         NEW b \in BOOLEAN
  PROVE  LET q == [r EXCEPT !.state = s, !.stamp = n, !.stray = b]
         IN q \in Promises /\ SameCreation(r, q) /\ q.state = s
BY DEF Promises, PromiseState, Unsettled, SameCreation

LEMMA SettledRecord ==
  ASSUME NEW r \in Promises, NEW f \in Failures \cup {"ok"}
  PROVE  LET q == [r EXCEPT !.state = f]
         IN q \in Promises /\ SameCreation(r, q) /\ q.state = f
BY DEF Promises, PromiseState, SameCreation

Fed(r, n, D, s) == [r EXCEPT !.next = n, !.deps = D, !.state = s]

LEMMA FedRecord ==
  ASSUME NEW r \in Promises, NEW n \in Nat, NEW D \in SUBSET Ids,
         NEW s \in PromiseState
  PROVE  /\ Fed(r, n, D, s) \in Promises /\ SameCreation(r, Fed(r, n, D, s))
         /\ Fed(r, n, D, s).state = s
BY DEF Promises, SameCreation, Fed

LEMMA AwaitingRecord ==
  ASSUME NEW r \in CallRecords
  PROVE  LET q == [r EXCEPT !.mode = "await"]
         IN q \in CallRecords /\ q.mode = "await" /\ q.waits = r.waits
            /\ q.fault = r.fault
BY DEF CallRecords

LEMMA WaitsRecord ==
  ASSUME NEW r \in CallRecords, NEW i \in Ids
  PROVE  LET q == [r EXCEPT !.waits = i]
         IN q \in CallRecords /\ q.mode = r.mode /\ q.waits = i /\ q.in = r.in
            /\ q.want = r.want
BY DEF CallRecords

\* Writing one creation's record, or one call's, keeps the rest well typed.
LEMMA PromiseUpdate ==
  ASSUME TypeInv, NEW i \in Ids, NEW r \in Promises,
         promise' = [promise EXCEPT ![i] = r], SameCreation(promise[i], r),
         promise[i].state # "free", r.state # "free"
  PROVE  /\ promise' \in [Ids -> Promises] /\ CreationInv'
         /\ promise'[i] = r
         /\ \A j \in Ids : j # i => promise'[j] = promise[j]
         /\ \A j \in Ids : SameCreation(promise[j], promise'[j])
<1>1. promise \in [Ids -> Promises]
  BY DEF TypeInv, TypeOK
<1>2. promise' \in [Ids -> Promises]
  BY <1>1
<1>3. promise'[i] = r /\ \A j \in Ids : j # i => promise'[j] = promise[j]
  BY <1>1
<1>4. \A j \in Ids : SameCreation(promise[j], promise'[j])
  BY <1>3 DEF SameCreation
<1>5. CreationInv'
  BY <1>3, <1>4 DEF TypeInv, CreationInv, SameCreation
<1> QED
  BY <1>2, <1>3, <1>4, <1>5

\* A failure settles one creation and leaves its mark on those it evicts.
LEMMA FailsEffect ==
  ASSUME TypeInv, NEW i \in Ids, NEW f \in Failures, promise[i].state # "free", Fails(i, f)
  PROVE  /\ promise' \in [Ids -> Promises] /\ CreationInv'
         /\ cache' \in [Containers -> SUBSET Ids]
         /\ \A k \in Containers : cache'[k] \subseteq cache[k]
         /\ promise'[i].state = f
         /\ \A j \in Ids : j # i => promise'[j].state = promise[j].state
         /\ \A j \in Ids : SameCreation(promise[j], promise'[j])
         /\ \A j \in Ids : promise'[j].deps = promise[j].deps
         /\ \A j \in Ids : promise'[j].stray <=> promise[j].stray \/ (j # i /\ j \in Others(i))
<1> DEFINE r == [promise[i] EXCEPT !.state = f]
           q(j) == [promise[j] EXCEPT !.stray = @ \/ j \in Others(i)]
<1>1. promise \in [Ids -> Promises]
  BY DEF TypeInv, TypeOK
<1>2. r \in Promises /\ SameCreation(promise[i], r) /\ r.state = f
  BY <1>1, SettledRecord
<1>3. r.deps = promise[i].deps /\ r.stray = promise[i].stray
  BY <1>1 DEF Promises
<1>4. ASSUME NEW j \in Ids
      PROVE  /\ q(j) \in Promises /\ SameCreation(promise[j], q(j))
             /\ q(j).state = promise[j].state /\ q(j).deps = promise[j].deps
             /\ q(j).stray <=> promise[j].stray \/ j \in Others(i)
  <2> DEFINE b == promise[j].stray \/ j \in Others(i)
  <2>1. promise[j] \in Promises /\ b \in BOOLEAN /\ (b <=> promise[j].stray \/ j \in Others(i))
    BY <1>1
  <2>2. q(j) = [promise[j] EXCEPT !.stray = b]
    BY <2>1 DEF Promises
  <2> HIDE DEF b, q
  <2> QED
    BY <2>1, <2>2 DEF Promises, SameCreation
<1>5. promise' = [j \in Ids |-> IF j = i THEN r ELSE q(j)]
  BY DEF Fails
<1> HIDE DEF r, q
<1>6. /\ promise' \in [Ids -> Promises]
      /\ promise'[i] = r /\ \A j \in Ids : j # i => promise'[j] = q(j)
  BY <1>2, <1>4, <1>5
<1>7. CreationInv'
  BY <1>2, <1>4, <1>6 DEF TypeInv, CreationInv, SameCreation, Failures
<1>8. cache' \in [Containers -> SUBSET Ids] /\ \A k \in Containers : cache'[k] \subseteq cache[k]
  BY EvictType DEF Fails
<1> QED
  BY <1>2, <1>3, <1>4, <1>6, <1>7, <1>8

LEMMA CallUpdate ==
  ASSUME TypeInv, NEW c \in Calls, NEW r \in CallRecords,
         call' = [call EXCEPT ![c] = r],
         r.mode = "resolve" => r.in \in Containers /\ r.want \in Tokens,
         (r.mode \in {"suspend", "await"} /\ r.waits \notin Ids) => r.fault \in Failures
  PROVE  call' \in [Calls -> CallRecords] /\ CallInv'
<1>1. call \in [Calls -> CallRecords]
  BY DEF TypeInv, TypeOK
<1>2. call' \in [Calls -> CallRecords]
  BY <1>1
<1>3. call'[c] = r /\ \A d \in Calls : d # c => call'[d] = call[d]
  BY <1>1
<1>4. CallInv'
  BY <1>3 DEF TypeInv, CallInv
<1> QED
  BY <1>2, <1>4

LEMMA UnwindingType ==
  ASSUME TypeInv, NEW c \in Calls, Unwinding(c)
  PROVE  TypeInv'
<1>1. ASSUME NEW i \in Ids, StorePromise(c, i) PROVE TypeInv'
  <2> DEFINE h == promise[i].home
             s == IF call[c].waits = i THEN "building" ELSE "pending"
             n == IF h = None THEN 0 ELSE LastStamp + 1
             b == h # None /\ DisposedInHierarchy(h)
             r == [promise[i] EXCEPT !.state = s, !.stamp = n, !.stray = b]
  <2>1. promise[i] \in Promises /\ promise[i].state # "free"
        /\ h \in Containers \cup {None}
    BY <1>1 DEF StorePromise, Innermost, NewFrames, TypeInv, TypeOK, Promises
  <2>2. n \in Nat
    BY CountIsNat DEF LastStamp
  <2>3. b \in BOOLEAN /\ s \in {"building", "pending"}
    OBVIOUS
  <2>4. /\ promise' = [promise EXCEPT ![i] = r]
        /\ cache' = IF h = None THEN cache ELSE [cache EXCEPT ![h] = @ \cup {i}]
    BY <1>1 DEF StorePromise
  <2>5. r \in Promises /\ SameCreation(promise[i], r) /\ r.state # "free"
    <3> HIDE DEF s, n, b
    <3> QED
      BY <2>1, <2>2, <2>3, StoredRecord
  <2> HIDE DEF h, r
  <2>6. promise' \in [Ids -> Promises] /\ CreationInv'
    BY <2>1, <2>4, <2>5, PromiseUpdate
  <2>8. cache' \in [Containers -> SUBSET Ids]
    BY <2>1, <2>4 DEF TypeInv, TypeOK
  <2>9. CallInv'
    BY <1>1 DEF StorePromise, TypeInv, CallInv
  <2> QED
    BY <1>1, <2>6, <2>8, <2>9
    DEF StorePromise, TypeInv, TypeOK, graphVars, trackVars, disposalVars
<1>2. CASE Suspend(c)
  <2> DEFINE r == [call[c] EXCEPT !.mode = "await"]
  <2>1. call[c] \in CallRecords /\ call[c].mode = "suspend"
    BY <1>2 DEF Suspend, TypeInv, TypeOK
  <2>2. call[c].waits \notin Ids => call[c].fault \in Failures
    BY <2>1 DEF TypeInv, CallInv
  <2>3. r \in CallRecords /\ r.mode = "await" /\ r.waits = call[c].waits
        /\ r.fault = call[c].fault
    BY <2>1, AwaitingRecord
  <2>4. call' = [call EXCEPT ![c] = r]
    BY <1>2 DEF Suspend
  <2> HIDE DEF r
  <2>5. call' \in [Calls -> CallRecords] /\ CallInv'
    BY <2>2, <2>3, <2>4, CallUpdate
  <2> QED
    BY <1>2, <2>5
    DEF Suspend, TypeInv, TypeOK, CreationInv, trackVars, disposalVars
<1> QED
  BY <1>1, <1>2 DEF Unwinding

LEMMA ResumptionType ==
  ASSUME TypeInv, NEW c \in Calls, Resumption(c)
  PROVE  TypeInv'
<1>0. call[c] \in CallRecords
  BY DEF TypeInv, TypeOK
\* The frame a call goes back to exists, and the call is awaiting.
<1>1. ASSUME NEW i \in Ids, Innermost(i, Frames(c)), WaitedSettled(c)
      PROVE  /\ promise[i] \in Promises /\ promise[i].state \in Unsettled \ {"free"}
             /\ promise[i].prov \in Providers /\ promise[i].within \in Containers
             /\ call[c].mode = "await"
  <2>1. promise[i] \in Promises
    BY DEF TypeInv, TypeOK
  <2>2. promise[i].owner = c /\ promise[i].state \in Unsettled /\ c # None
    BY <1>1, ConstantsAssumption DEF Innermost, Frames, Settled
  <2>3. promise[i].state # "free"
    BY <2>2 DEF TypeInv, CreationInv
  <2> QED
    BY <1>1, <2>1, <2>2, <2>3 DEF TypeInv, CreationInv, WaitedSettled
<1>2. ASSUME NEW i \in Ids, ResumeWithDependency(c, i) PROVE TypeInv'
  <2> DEFINE n == promise[i].next + 1
             p == promise[i].prov
             last == n > Len(inject[p])
             D == promise[i].deps \cup {call[c].waits}
             s == IF last THEN "building" ELSE promise[i].state
             r == Fed(promise[i], n, D, s)
  <2>1. /\ promise[i] \in Promises /\ promise[i].state \in Unsettled \ {"free"}
        /\ p \in Providers /\ promise[i].within \in Containers
        /\ call[c].mode = "await" /\ call[c].waits \in Ids
    BY <1>1, <1>2 DEF ResumeWithDependency, WaitedOk
  <2>2. n \in Nat /\ n > 0 /\ D \in SUBSET Ids
    BY <2>1 DEF Promises
  <2>3. s \in PromiseState /\ s # "free"
    BY <2>1 DEF PromiseState, Unsettled
  <2>4. r \in Promises /\ SameCreation(promise[i], r) /\ r.state = s
    <3>1. promise[i] \in Promises
      BY <2>1
    <3> HIDE DEF n, p, last, D, s
    <3> QED
      BY <2>2, <2>3, <3>1, FedRecord
  <2>5. promise' = [promise EXCEPT ![i] = r]
    BY <1>2 DEF ResumeWithDependency, Fed
  <2>6. promise' \in [Ids -> Promises] /\ CreationInv'
    <3> HIDE DEF r, s
    <3> QED
      BY <2>1, <2>3, <2>4, <2>5, PromiseUpdate
  <2>7. call' \in [Calls -> CallRecords] /\ CallInv' /\ running' \in Calls \cup {None}
    <3>1. CASE last
      <4> DEFINE q == [call[c] EXCEPT !.waits = i]
      <4>1. q \in CallRecords /\ q.mode = "await" /\ q.waits \in Ids
        BY <1>0, <2>1, WaitsRecord
      <4>2. call' = [call EXCEPT ![c] = q] /\ running' = running
        BY <1>2, <3>1 DEF ResumeWithDependency
      <4> HIDE DEF q
      <4>3. call' \in [Calls -> CallRecords] /\ CallInv'
        BY <4>1, <4>2, CallUpdate
      <4> QED
        BY <4>2, <4>3 DEF TypeInv, TypeOK
    <3>2. CASE ~last
      <4> DEFINE t == inject[p][n]
                 q == Started(call[c], promise[i].within, t)
      <4>1. t \in Tokens
        BY <2>1, <2>2, <3>2, ConstantsAssumption
      <4>2. call' = [call EXCEPT ![c] = q] /\ running' = c
        BY <1>2, <3>2 DEF ResumeWithDependency, Started
      <4>3. /\ q \in CallRecords /\ q.mode = "resolve"
            /\ q.in = promise[i].within /\ q.want = t
        <5>1. promise[i].within \in Containers
          BY <2>1
        <5> HIDE DEF t, n, p, last
        <5> QED
          BY <1>0, <4>1, <5>1, StartRecord
      <4> HIDE DEF t
      <4> HIDE DEF q
      <4>4. call' \in [Calls -> CallRecords] /\ CallInv'
        BY <2>1, <4>1, <4>2, <4>3, CallUpdate
      <4> QED
        BY <4>2, <4>4
    <3> QED
      BY <3>1, <3>2
  <2> QED
    BY <1>2, <2>6, <2>7
    DEF ResumeWithDependency, TypeInv, TypeOK, trackVars, disposalVars
<1>3. ASSUME NEW i \in Ids, ResumeWithFault(c, i) PROVE TypeInv'
  <2> DEFINE q == [call[c] EXCEPT !.waits = i]
  <2>1. WaitedFault(c) \in Failures
    BY <1>3, FaultType DEF ResumeWithFault
  <2>2. promise[i].state # "free" /\ call[c].mode = "await"
    BY <1>1, <1>3 DEF ResumeWithFault
  <2>3. Fails(i, WaitedFault(c)) /\ call' = [call EXCEPT ![c] = q]
    BY <1>3 DEF ResumeWithFault
  <2>4. promise' \in [Ids -> Promises] /\ CreationInv' /\ cache' \in [Containers -> SUBSET Ids]
    BY <2>1, <2>2, <2>3, FailsEffect
  <2>5. call' \in [Calls -> CallRecords] /\ CallInv'
    <3>1. q \in CallRecords /\ q.mode = "await" /\ q.waits \in Ids
      BY <1>0, <2>2, WaitsRecord
    <3> HIDE DEF q
    <3> QED
      BY <2>3, <3>1, CallUpdate
  <2> QED
    BY <1>3, <2>4, <2>5
    DEF ResumeWithFault, TypeInv, TypeOK, graphVars, trackVars, disposalVars
<1>4. CASE Return(c)
  <2> DEFINE f == IF WaitedOk(c) THEN "none" ELSE WaitedFault(c)
             q == [call[c] EXCEPT !.mode = "done", !.fault = f]
  <2>1. f \in Failures \cup {"none", "disposed"}
    BY <1>4, FaultType DEF Return
  <2>2. call' = [call EXCEPT ![c] = q]
    BY <1>4 DEF Return
  <2> HIDE DEF f
  <2>3. q \in CallRecords /\ q.mode = "done"
    BY <1>0, <2>1, DoneRecord
  <2> HIDE DEF q
  <2>4. call' \in [Calls -> CallRecords] /\ CallInv'
    BY <2>2, <2>3, CallUpdate
  <2> QED
    BY <1>4, <2>4
    DEF Return, TypeInv, TypeOK, CreationInv, graphVars, trackVars, disposalVars
<1> QED
  BY <1>2, <1>3, <1>4 DEF Resumption

LEMMA FactoryType ==
  ASSUME TypeInv, NEW i \in Ids, FactorySettles(i)
  PROVE  TypeInv'
<1>1. promise[i] \in Promises /\ promise[i].state = "building"
  BY DEF FactorySettles, TypeInv, TypeOK
<1>2. promise' \in [Ids -> Promises] /\ CreationInv' /\ cache' \in [Containers -> SUBSET Ids]
  <2>1. CASE promise' = [promise EXCEPT ![i].state = "ok"] /\ UNCHANGED cache
    <3> DEFINE r == [promise[i] EXCEPT !.state = "ok"]
    <3>2. promise' = [promise EXCEPT ![i] = r]
      BY <2>1
    <3>3. r \in Promises /\ SameCreation(promise[i], r) /\ r.state = "ok"
      BY <1>1, SettledRecord
    <3> HIDE DEF r
    <3>4. promise' \in [Ids -> Promises] /\ CreationInv'
      BY <1>1, <3>2, <3>3, PromiseUpdate
    <3> QED
      BY <2>1, <3>4 DEF TypeInv, TypeOK
  <2>2. CASE Fails(i, "threw")
    BY <1>1, <2>2, FailsEffect DEF Failures
  <2> QED
    BY <2>1, <2>2 DEF FactorySettles
<1> QED
  BY <1>2
  DEF FactorySettles, TypeInv, TypeOK, CallInv, graphVars, trackVars, disposalVars

LEMMA ResolveType ==
  ASSUME TypeInv, NEW a \in Asks, Resolve(a[1], a[2], a[3])
  PROVE  TypeInv'
<1> DEFINE c == a[1]  k == a[2]  t == a[3]
<1>1. c \in Calls /\ k \in Containers /\ t \in Tokens
  BY ConstantsAssumption
<1>2. Resolve(c, k, t)
  OBVIOUS
<1> HIDE DEF c, k, t
<1>3. call[c] \in CallRecords
  BY <1>1 DEF TypeInv, TypeOK
<1>4. call' \in [Calls -> CallRecords] /\ CallInv' /\ running' \in Calls \cup {None}
  <2>1. CASE DisposedInHierarchy(k)
    <3> DEFINE f == "disposed"
               q == [call[c] EXCEPT !.mode = "done", !.fault = f]
    <3>1. call' = [call EXCEPT ![c] = q] /\ running' = running
      BY <1>2, <2>1 DEF Resolve
    <3>2. q \in CallRecords /\ q.mode = "done"
      <4>1. f \in Failures \cup {"none", "disposed"}
        OBVIOUS
      <4> HIDE DEF f
      <4> QED
        BY <1>3, <4>1, DoneRecord
    <3> HIDE DEF q
    <3> QED
      BY <1>1, <3>1, <3>2, CallUpdate DEF TypeInv, TypeOK
  <2>2. CASE ~DisposedInHierarchy(k)
    <3> DEFINE q == Started(call[c], k, t)
    <3>1. call' = [call EXCEPT ![c] = q] /\ running' = c
      BY <1>2, <2>2 DEF Resolve, Started
    <3>2. q \in CallRecords /\ q.mode = "resolve" /\ q.in = k /\ q.want = t
      BY <1>1, <1>3, StartRecord
    <3> HIDE DEF q
    <3> QED
      BY <1>1, <3>1, <3>2, CallUpdate
  <2> QED
    BY <2>1, <2>2
<1> QED
  BY <1>2, <1>4 DEF Resolve, TypeInv, TypeOK, CreationInv, trackVars, disposalVars

\* What may be registered or overridden is a container and a provider.
LEMMA PairsConfigured ==
  \A r \in Registers \cup Overrides : r[1] \in Containers /\ r[2] \in Providers
BY ConstantsAssumption DEF Pairs

LEMMA ConfigureType ==
  ASSUME TypeInv, Configure
  PROVE  TypeInv'
<1> USE ConstantsAssumption
<1>1. ASSUME NEW k \in Containers, NEW p \in Providers, Register(k, p) PROVE TypeInv'
  BY <1>1 DEF Register, TypeInv, TypeOK, CallInv, CreationInv, trackVars, disposalVars
<1>2. ASSUME NEW k \in Containers, NEW p \in Providers, Override(k, p) PROVE TypeInv'
  <2>1. \A h \in Containers : Invalid(k, h, provide[p]) \subseteq cache[h]
    BY DEF Invalid
  <2>2. cache' \in [Containers -> SUBSET Ids] /\ stale' \in [Containers -> SUBSET Ids]
    BY <1>2, <2>1 DEF Override, ScheduleStaleDisposal, TypeInv, TypeOK
  <2>3. registrations' \in [Containers -> [Tokens -> Providers \cup {None}]]
    BY <1>2 DEF Override, TypeInv, TypeOK
  <2> QED
    BY <1>2, <2>2, <2>3 DEF Override, TypeInv, TypeOK, CallInv, CreationInv, trackVars
<1>3. ASSUME NEW k \in Children, CreateRequestScope(k) PROVE TypeInv'
  BY <1>3 DEF CreateRequestScope, TypeInv, TypeOK, CallInv, CreationInv, Phases,
     Containers, graphVars, trackVars
<1> QED
  BY <1>1, <1>2, <1>3, PairsConfigured DEF Configure

LEMMA StaleType ==
  ASSUME TypeInv, NEW k \in Containers, NEW i \in Ids, StaleDisposal(k, i)
  PROVE  TypeInv'
<1>1. stale' \in [Containers -> SUBSET Ids]
  BY DEF StaleDisposal, TypeInv, TypeOK
<1>2. destroyed' \in [Ids -> Nat]
  BY DEF StaleDisposal, TypeInv, TypeOK
<1>3. staleErrors' \in [Containers -> BOOLEAN]
  <2>1. PICK bad \in BOOLEAN : staleErrors' = [staleErrors EXCEPT ![k] = @ \/ bad]
    BY DEF StaleDisposal
  <2> QED
    BY <2>1 DEF TypeInv, TypeOK
<1> QED
  BY <1>1, <1>2, <1>3
  DEF StaleDisposal, TypeInv, TypeOK, CallInv, CreationInv, graphVars, trackVars

LEMMA DisposeType ==
  ASSUME TypeInv, NEW k \in Containers, Dispose(k)
  PROVE  TypeInv'
<1>1. phase' \in [Containers -> Phases]
  BY DEF Dispose, TypeInv, TypeOK, Phases
<1>2. todo' \in [Containers -> SUBSET Ids]
  BY DEF Dispose, TypeInv, TypeOK
<1>3. kids' \subseteq Children /\ childScopes' \subseteq Children
  BY DEF Dispose, TypeInv, TypeOK
<1> QED
  BY <1>1, <1>2, <1>3 DEF Dispose, TypeInv, TypeOK, CallInv, CreationInv, graphVars

LEMMA ChildrenDisposedType ==
  ASSUME TypeInv, ChildrenDisposed
  PROVE  TypeInv'
BY DEF ChildrenDisposed, TypeInv, TypeOK, CallInv, CreationInv, Phases, graphVars,
   Containers

LEMMA DisposalStepType ==
  ASSUME TypeInv, NEW k \in Containers, DisposalStep(k)
  PROVE  TypeInv'
<1>1. CASE StaleTasksDone(k)
  BY <1>1 DEF StaleTasksDone, TypeInv, TypeOK, CallInv, CreationInv, Phases, graphVars,
     trackVars
<1>2. CASE CollectInstances(k)
  <2>1. phase' \in [Containers -> Phases] /\ todo' \in [Containers -> SUBSET Ids]
    BY <1>2 DEF CollectInstances, TypeInv, TypeOK, Phases
  <2>2. errors' \in [Containers -> BOOLEAN] /\ staleErrors' \in [Containers -> BOOLEAN]
    BY <1>2, Zenon DEF CollectInstances, TypeInv, TypeOK
  <2> QED
    BY <1>2, <2>1, <2>2 DEF CollectInstances, TypeInv, TypeOK, CallInv, CreationInv,
       graphVars, trackVars
<1>3. CASE FinishDisposal(k)
  <2>1. phase' \in [Containers -> Phases] /\ cache' \in [Containers -> SUBSET Ids]
    BY <1>3 DEF FinishDisposal, ClearDisposalCaches, TypeInv, TypeOK, Phases
  <2>2. errors' \in [Containers -> BOOLEAN]
    BY <1>3 DEF FinishDisposal, TypeInv, TypeOK
  <2>3. /\ kids' \subseteq Children /\ childScopes' \subseteq Children
        /\ trackedByRoot' \subseteq Children
    BY <1>3 DEF FinishDisposal, TypeInv, TypeOK
  <2> QED
    BY <1>3, <2>1, <2>2, <2>3 DEF FinishDisposal, TypeInv, TypeOK, CallInv, CreationInv,
       graphVars
<1>4. ASSUME NEW i \in Ids, DestroyNext(k, i) PROVE TypeInv'
  <2>1. todo' \in [Containers -> SUBSET Ids] /\ destroyed' \in [Ids -> Nat]
    BY <1>4 DEF DestroyNext, TypeInv, TypeOK
  <2>2. errors' \in [Containers -> BOOLEAN]
    <3>1. PICK bad \in BOOLEAN : errors' = [errors EXCEPT ![k] = @ \/ bad]
      BY <1>4 DEF DestroyNext
    <3> QED
      BY <3>1 DEF TypeInv, TypeOK
  <2> QED
    BY <1>4, <2>1, <2>2 DEF DestroyNext, TypeInv, TypeOK, CallInv, CreationInv, graphVars,
       trackVars
<1> QED
  BY <1>1, <1>2, <1>3, <1>4 DEF DisposalStep

LEMMA TypeStep == TypeInv /\ [Next]_vars => TypeInv'
<1> SUFFICES ASSUME TypeInv, [Next]_vars PROVE TypeInv'
  OBVIOUS
<1>1. CASE Configure
  BY <1>1, ConfigureType
<1>2. ASSUME NEW a \in Asks, Resolve(a[1], a[2], a[3]) PROVE TypeInv'
  BY <1>2, ResolveType
<1>3. ASSUME NEW c \in Calls, CallStep(c) PROVE TypeInv'
  BY <1>3, LookupStepType, UnwindingType, ResumptionType DEF CallStep
<1>4. ASSUME NEW i \in Ids, FactorySettles(i) PROVE TypeInv'
  BY <1>4, FactoryType
<1>5. ASSUME NEW k \in Containers, NEW i \in Ids, StaleDisposal(k, i) PROVE TypeInv'
  BY <1>5, StaleType
<1>6. ASSUME NEW k \in Containers, Dispose(k) \/ DisposalStep(k) PROVE TypeInv'
  BY <1>6, DisposeType, DisposalStepType
<1>7. CASE ChildrenDisposed
  BY <1>7, ChildrenDisposedType
<1>8. CASE UNCHANGED vars
  BY <1>8 DEF vars, graphVars, trackVars, disposalVars, TypeInv, TypeOK, CallInv,
     CreationInv
<1> QED
  BY <1>1, <1>2, <1>3, <1>4, <1>5, <1>6, <1>7, <1>8 DEF Next

\* Whatever register(), override(), resolve() and dispose() calls interleave,
\* the container's fields, its cached promises and its calls' locals keep
\* their types.
THEOREM TypeCorrect == Spec => []TypeOK
<1>1. Spec => []TypeInv
  BY TypeInit, TypeStep, PTL DEF Spec
<1>2. TypeInv => TypeOK
  BY DEF TypeInv
<1> QED
  BY <1>1, <1>2, PTL

-----------------------------------------------------------------------------
(* No instance of the root's cache is destroyed twice. *)

LEMMA DestroyInit == Init => DestroyInv
<1> SUFFICES ASSUME Init PROVE DestroyInv
  OBVIOUS
<1> QED
  BY DEF Init, Containers, DestroyInv, HomeInv, RootInv, RootDestroyedOnce

\* A step that neither destroys nor disposes, and at most removes from caches.
LEMMA CachesShrink ==
  ASSUME TypeInv, DestroyInv, UNCHANGED disposalVars,
         \A k \in Containers : cache'[k] \subseteq cache[k],
         \A j \in Ids : Stored(j) => Stored(j)' /\ promise'[j].home = promise[j].home
  PROVE  DestroyInv'
<1> USE DEF disposalVars
<1>1. \A k \in Containers : cache[k] \cup stale[k] \cup todo[k] \subseteq Ids
  BY DEF TypeInv, TypeOK
<1>2. HomeInv'
  BY <1>1 DEF DestroyInv, HomeInv
<1>3. RootInv'
  <2>1. Root \in Containers
    BY DEF Containers
  <2> QED
    BY <1>1, <2>1 DEF DestroyInv, RootInv
<1>4. RootDestroyedOnce'
  <2> SUFFICES ASSUME NEW i \in Ids, promise'[i].home = Root
               PROVE  destroyed[i] <= 1
    BY DEF RootDestroyedOnce
  <2>1. CASE Stored(i)
    BY <2>1 DEF DestroyInv, RootDestroyedOnce
  <2>2. CASE ~Stored(i)
    BY <2>2 DEF DestroyInv, RootInv
  <2> QED
    BY <2>1, <2>2
<1> QED
  BY <1>2, <1>3, <1>4 DEF DestroyInv

\* Destroying one instance of k's, wherever it was taken from, is safe when
\* the root can no longer reach it.
LEMMA DestroyOne ==
  ASSUME TypeInv, DestroyInv, NEW k \in Containers, NEW i \in Ids,
         promise' = promise, cache' = cache, phase' = phase,
         \A h \in Containers : stale'[h] \subseteq stale[h] /\ todo'[h] \subseteq todo[h],
         promise[i].home = k, Stored(i),
         destroyed' = [destroyed EXCEPT ![i] = @ + 1],
         k = Root => /\ destroyed[i] = 0 /\ i \notin stale'[Root] \cup todo'[Root]
                     /\ phase[Root] # "destroy" => i \notin cache[Root]
  PROVE  DestroyInv'
<1>1. Root \in Containers
  BY DEF Containers
<1>2. destroyed \in [Ids -> Nat]
      /\ \A h \in Containers : cache[h] \cup stale[h] \cup todo[h] \subseteq Ids
  BY DEF TypeInv, TypeOK
<1>3. destroyed'[i] = destroyed[i] + 1 /\ \A j \in Ids : j # i => destroyed'[j] = destroyed[j]
  BY <1>2
<1>4. HomeInv'
  BY DEF DestroyInv, HomeInv, Stored
<1>5. \A j \in stale'[Root] \cup todo'[Root] : j # i
  <2>1. CASE k = Root
    BY <2>1
  <2>2. CASE k # Root
    BY <1>1, <2>2 DEF DestroyInv, HomeInv
  <2> QED
    BY <2>1, <2>2
<1>6. phase[Root] # "destroy" => i \notin cache[Root]
  <2>1. CASE k = Root
    BY <2>1
  <2>2. CASE k # Root
    BY <1>1, <2>2 DEF DestroyInv, HomeInv
  <2> QED
    BY <2>1, <2>2
<1>7. RootInv'
  <2>1. \A j \in Ids : ~Stored(j)' => destroyed'[j] = 0
    BY <1>3 DEF DestroyInv, RootInv, Stored
  <2>2. \A j \in stale'[Root] : destroyed'[j] = 0 /\ j \notin cache'[Root] \cup todo'[Root]
    BY <1>1, <1>2, <1>3, <1>5 DEF DestroyInv, RootInv
  <2>3. \A j \in todo'[Root] : destroyed'[j] = 0
    BY <1>1, <1>2, <1>3, <1>5 DEF DestroyInv, RootInv
  <2>4. phase'[Root] # "destroy" => \A j \in cache'[Root] : destroyed'[j] = 0
    BY <1>1, <1>2, <1>3, <1>6 DEF DestroyInv, RootInv
  <2>5. phase'[Root] \in {"absent", "open"} => todo'[Root] = {}
    BY <1>1 DEF DestroyInv, RootInv
  <2> QED
    BY <2>1, <2>2, <2>3, <2>4, <2>5 DEF RootInv
<1>8. RootDestroyedOnce'
  BY <1>2, <1>3 DEF DestroyInv, RootDestroyedOnce
<1> QED
  BY <1>4, <1>7, <1>8 DEF DestroyInv

LEMMA FailsDestroy ==
  ASSUME TypeInv, DestroyInv, UNCHANGED disposalVars,
         NEW i \in Ids, NEW f \in Failures, promise[i].state # "free", Fails(i, f)
  PROVE  DestroyInv'
<1>1. \A k \in Containers : cache'[k] \subseteq cache[k]
  BY FailsEffect
<1>2. ASSUME NEW j \in Ids, Stored(j) PROVE Stored(j)' /\ promise'[j].home = promise[j].home
  <2>1. f \notin {"free", "new"}
    BY DEF Failures
  <2>2. promise'[i].state = f
    BY FailsEffect
  <2>3. j # i => promise'[j].state = promise[j].state
    BY FailsEffect
  <2>4. SameCreation(promise[j], promise'[j])
    BY FailsEffect
  <2> QED
    BY <1>2, <2>1, <2>2, <2>3, <2>4 DEF Stored, SameCreation
<1> QED
  BY <1>1, <1>2, CachesShrink

LEMMA CallStepDestroy ==
  ASSUME TypeInv, DestroyInv, NEW c \in Calls, CallStep(c)
  PROVE  DestroyInv'
<1>1. CASE UNCHANGED <<promise, cache, disposalVars>>
  BY <1>1, CachesShrink DEF Stored, disposalVars
<1>2. ASSUME NEW i \in Ids, Instantiate(c, i) PROVE DestroyInv'
  <2>1. promise[i].state = "free" /\ UNCHANGED <<cache, disposalVars>>
    BY <1>2 DEF Instantiate, NextFree, disposalVars
  <2>2. \A j \in Ids : j # i => promise'[j] = promise[j]
    BY <1>2 DEF Instantiate, TypeInv, TypeOK
  <2>3. \A j \in Ids : Stored(j) => j # i
    BY <2>1 DEF Stored
  <2>4. \A j \in Ids : Stored(j) => Stored(j)' /\ promise'[j].home = promise[j].home
    BY <2>2, <2>3 DEF Stored
  <2> QED
    BY <2>1, <2>4, CachesShrink
<1>3. ASSUME NEW i \in Ids, StorePromise(c, i) PROVE DestroyInv'
  <2> DEFINE h == promise[i].home
             s == IF call[c].waits = i THEN "building" ELSE "pending"
             n == IF h = None THEN 0 ELSE LastStamp + 1
             b == h # None /\ DisposedInHierarchy(h)
             r == [promise[i] EXCEPT !.state = s, !.stamp = n, !.stray = b]
  <2>1. promise[i] \in Promises /\ promise[i].state = "new"
        /\ h \in Containers \cup {None}
    BY <1>3 DEF StorePromise, Innermost, NewFrames, TypeInv, TypeOK, Promises
  <2>2. n \in Nat
    BY CountIsNat DEF LastStamp
  <2>3. b \in BOOLEAN /\ s \in {"building", "pending"}
    OBVIOUS
  <2>4. /\ promise' = [promise EXCEPT ![i] = r]
        /\ cache' = IF h = None THEN cache ELSE [cache EXCEPT ![h] = @ \cup {i}]
        /\ UNCHANGED disposalVars
    BY <1>3 DEF StorePromise, disposalVars
  <2>5. r \in Promises /\ SameCreation(promise[i], r) /\ r.state \notin {"free", "new"}
    <3> HIDE DEF s, n, b
    <3> QED
      BY <2>1, <2>2, <2>3, StoredRecord
  <2> HIDE DEF r
  <2>6. /\ \A j \in Ids : j # i => promise'[j] = promise[j]
        /\ \A j \in Ids : promise'[j].home = promise[j].home
        /\ Stored(i)' /\ ~Stored(i)
    BY <2>1, <2>4, <2>5, PromiseUpdate DEF SameCreation, Stored
  <2>7. \A j \in Ids : Stored(j) => Stored(j)'
    BY <2>6 DEF Stored
  <2>8. \A k \in Containers : cache'[k] \subseteq cache[k] \cup {i}
                              /\ (i \in cache'[k] => i \in cache[k] \/ h = k)
    BY <2>1, <2>4 DEF TypeInv, TypeOK
  <2>9. \A k \in Containers : cache[k] \cup stale[k] \cup todo[k] \subseteq Ids \ {i}
    BY <2>6 DEF TypeInv, TypeOK, DestroyInv, HomeInv
  <2>10. Root \in Containers /\ destroyed[i] = 0
    BY <2>6 DEF Containers, DestroyInv, RootInv
  <2>11. HomeInv'
    BY <2>4, <2>6, <2>7, <2>8, <2>9 DEF DestroyInv, HomeInv, disposalVars
  <2>12. RootInv'
    BY <2>4, <2>6, <2>7, <2>8, <2>9, <2>10 DEF DestroyInv, RootInv, disposalVars
  <2>13. RootDestroyedOnce'
    BY <2>4, <2>6 DEF DestroyInv, RootDestroyedOnce, disposalVars
  <2> QED
    BY <2>11, <2>12, <2>13 DEF DestroyInv
<1>4. ASSUME NEW i \in Ids, ResumeWithDependency(c, i) PROVE DestroyInv'
  <2> DEFINE n == promise[i].next + 1
             D == promise[i].deps \cup {call[c].waits}
             s == IF n > Len(inject[promise[i].prov]) THEN "building"
                  ELSE promise[i].state
             r == Fed(promise[i], n, D, s)
  <2>1. promise' = [promise EXCEPT ![i] = r] /\ UNCHANGED <<cache, disposalVars>>
    BY <1>4 DEF ResumeWithDependency, Fed, disposalVars
  <2>2. promise[i] \in Promises /\ promise[i].state \in PromiseState
        /\ n \in Nat /\ D \in SUBSET Ids /\ s \in PromiseState
        /\ (Stored(i) => s \notin {"free", "new"})
    BY <1>4 DEF ResumeWithDependency, WaitedOk, TypeInv, TypeOK, Promises, PromiseState,
       Unsettled, Stored
  <2>3. r \in Promises /\ SameCreation(promise[i], r) /\ r.state = s
    <3>1. promise[i] \in Promises /\ n \in Nat /\ D \in SUBSET Ids /\ s \in PromiseState
      BY <2>2
    <3> HIDE DEF n, D, s
    <3> QED
      BY <3>1, FedRecord
  <2> HIDE DEF r, s
  <2>4. \A j \in Ids : Stored(j) => Stored(j)' /\ promise'[j].home = promise[j].home
    <3>1. promise'[i] = r /\ \A j \in Ids : j # i => promise'[j] = promise[j]
      BY <2>1 DEF TypeInv, TypeOK
    <3> QED
      BY <2>2, <2>3, <3>1 DEF Stored, SameCreation
  <2> QED
    BY <2>1, <2>4, CachesShrink
<1>5. ASSUME NEW i \in Ids, ResumeWithFault(c, i) PROVE DestroyInv'
  <2>1. Fails(i, WaitedFault(c)) /\ WaitedFault(c) \in Failures /\ UNCHANGED disposalVars
    BY <1>5, FaultType DEF ResumeWithFault, disposalVars
  <2>2. promise[i].state # "free"
    BY <1>5, ConstantsAssumption DEF ResumeWithFault, Innermost, Frames, TypeInv, CreationInv
  <2> QED
    BY <2>1, <2>2, FailsDestroy
<1> QED
  BY <1>1, <1>2, <1>3, <1>4, <1>5
  DEF CallStep, Lookups, Unwinding, Resumption, ThrowCircular, ThrowMissing,
      ThrowOutsideRequest, FollowAlias, ShareCached, Suspend, Return, disposalVars

LEMMA FactoryDestroy ==
  ASSUME TypeInv, DestroyInv, NEW i \in Ids, FactorySettles(i)
  PROVE  DestroyInv'
<1>1. promise[i] \in Promises /\ UNCHANGED disposalVars
  BY DEF FactorySettles, disposalVars, TypeInv, TypeOK
<1>2. CASE promise' = [promise EXCEPT ![i].state = "ok"] /\ UNCHANGED cache
  <2> DEFINE r == [promise[i] EXCEPT !.state = "ok"]
  <2>1. promise' = [promise EXCEPT ![i] = r]
    BY <1>2
  <2>2. r \in Promises /\ SameCreation(promise[i], r) /\ r.state = "ok"
    BY <1>1, SettledRecord
  <2> HIDE DEF r
  <2>3. promise'[i] = r /\ \A j \in Ids : j # i => promise'[j] = promise[j]
    BY <2>1 DEF TypeInv, TypeOK
  <2> QED
    BY <1>1, <1>2, <2>2, <2>3, CachesShrink DEF Stored, SameCreation
<1>3. CASE Fails(i, "threw")
  <2>1. "threw" \in Failures /\ promise[i].state # "free"
    BY DEF FactorySettles, Failures
  <2> QED
    BY <1>1, <1>3, <2>1, FailsDestroy
<1> QED
  BY <1>2, <1>3 DEF FactorySettles

\* What override() takes out of the root's cache was not destroyed: only the
\* root itself looks into its cache, and it is not being disposed.
LEMMA OverrideDestroy ==
  ASSUME TypeInv, DestroyInv, NEW k \in Containers, NEW p \in Providers, Override(k, p)
  PROVE  DestroyInv'
<1> DEFINE gone(h) == Invalid(k, h, provide[p])
<1>1. /\ \A h \in Containers : gone(h) \subseteq cache[h]
      /\ \A h \in Containers : cache'[h] = cache[h] \ gone(h)
      /\ \A h \in Containers : stale'[h] = stale[h] \cup gone(h)
      /\ UNCHANGED <<promise, phase, todo, destroyed>>
  BY DEF Override, ScheduleStaleDisposal, Invalid, disposalVars
<1>2. Root \in Containers /\ \A h \in Containers : cache[h] \subseteq Ids
  BY DEF Containers, TypeInv, TypeOK
<1>3. gone(Root) # {} => phase[Root] = "open"
  <2>1. gone(Root) # {} => k = Root
    BY ConstantsAssumption DEF Invalid, Invalidates, TypeInv, TypeOK
  <2>2. phase[k] # "absent" /\ ~Disposed(k)
    BY DEF Override, DisposedInHierarchy
  <2> QED
    BY <2>1, <2>2 DEF Disposed
<1> HIDE DEF gone
<1>4. HomeInv'
  BY <1>1 DEF DestroyInv, HomeInv, Stored
<1>5. RootInv'
  BY <1>1, <1>2, <1>3 DEF DestroyInv, RootInv, Stored
<1>6. RootDestroyedOnce'
  BY <1>1 DEF DestroyInv, RootDestroyedOnce
<1> QED
  BY <1>4, <1>5, <1>6 DEF DestroyInv

LEMMA StaleDestroy ==
  ASSUME TypeInv, DestroyInv, NEW k \in Containers, NEW i \in Ids, StaleDisposal(k, i)
  PROVE  DestroyInv'
<1>1. /\ i \in stale[k] /\ UNCHANGED <<promise, cache, phase, todo>>
      /\ \A h \in Containers : stale'[h] = IF h = k THEN stale[h] \ {i} ELSE stale[h]
      /\ destroyed' = destroyed \/ destroyed' = [destroyed EXCEPT ![i] = @ + 1]
  BY DEF StaleDisposal, TypeInv, TypeOK
<1>2. promise[i].home = k /\ Stored(i)
  BY <1>1 DEF DestroyInv, HomeInv
<1>3. CASE destroyed' = destroyed
  <2>1. Root \in Containers /\ \A h \in Containers : stale'[h] \subseteq stale[h]
    BY <1>1 DEF Containers
  <2>2. HomeInv'
    BY <1>1, <2>1 DEF DestroyInv, HomeInv, Stored
  <2>3. RootInv'
    BY <1>1, <1>3, <2>1 DEF DestroyInv, RootInv, Stored
  <2> QED
    BY <1>1, <1>3, <2>2, <2>3 DEF DestroyInv, RootDestroyedOnce
<1>4. CASE destroyed' = [destroyed EXCEPT ![i] = @ + 1]
  <2>1. k = Root => /\ destroyed[i] = 0 /\ i \notin stale'[Root] \cup todo'[Root]
                    /\ i \notin cache[Root]
    BY <1>1 DEF DestroyInv, RootInv
  <2> QED
    BY <1>1, <1>2, <1>4, <2>1, DestroyOne
<1> QED
  BY <1>1, <1>3, <1>4

\* Only dispose() called on the root takes a snapshot of the root's cache,
\* and no disposal of the root is destroying instances then.
LEMMA DisposeDestroy ==
  ASSUME TypeInv, DestroyInv, NEW k \in Containers, Dispose(k)
  PROVE  DestroyInv'
<1>1. /\ UNCHANGED <<promise, cache, stale, destroyed>>
      /\ \A h \in Containers : todo'[h] = todo[h] \/ todo'[h] = cache[h]
  BY DEF Dispose
<1>2. Root \in Containers
  BY DEF Containers
<1>3. \/ k # Root /\ phase'[Root] = phase[Root] /\ todo'[Root] = todo[Root]
      \/ /\ phase[Root] \in {"open", "failed"} /\ phase'[Root] \in {"children", "stale"}
         /\ todo'[Root] = todo[Root] \/ todo'[Root] = cache[Root]
  <2>1. CASE k = Root
    BY <1>1, <1>2, <2>1 DEF Dispose, Startable
  <2>2. CASE k # Root
    BY <1>2, <2>2 DEF Dispose
  <2> QED
    BY <2>1, <2>2
<1>4. HomeInv'
  BY <1>1 DEF DestroyInv, HomeInv, Stored
<1>5. RootInv'
  BY <1>1, <1>3 DEF DestroyInv, RootInv, Stored
<1> QED
  BY <1>1, <1>4, <1>5 DEF DestroyInv, RootDestroyedOnce

LEMMA ChildrenDisposedDestroy ==
  ASSUME TypeInv, DestroyInv, ChildrenDisposed
  PROVE  DestroyInv'
<1>1. /\ UNCHANGED <<promise, cache, stale, destroyed>>
      /\ phase[Root] = "children" /\ phase'[Root] = "stale" /\ todo'[Root] = cache[Root]
      /\ \A h \in Containers : h # Root => todo'[h] = todo[h]
  BY DEF ChildrenDisposed, TypeInv, TypeOK, Containers
<1> QED
  BY <1>1 DEF DestroyInv, HomeInv, RootInv, RootDestroyedOnce, Stored

LEMMA DisposalStepDestroy ==
  ASSUME TypeInv, DestroyInv, NEW k \in Containers, DisposalStep(k)
  PROVE  DestroyInv'
<1>0. Root \in Containers
  BY DEF Containers
<1>1. CASE StaleTasksDone(k)
  <2>1. /\ UNCHANGED <<promise, cache, todo, stale, destroyed>>
        /\ phase[k] = "stale" /\ phase' = [phase EXCEPT ![k] = "settle"]
    BY <1>1 DEF StaleTasksDone
  <2>2. phase'[Root] = phase[Root] \/ (phase[Root] = "stale" /\ phase'[Root] = "settle")
    BY <1>0, <2>1 DEF TypeInv, TypeOK
  <2> QED
    BY <2>1, <2>2 DEF DestroyInv, HomeInv, RootInv, RootDestroyedOnce, Stored
<1>2. CASE CollectInstances(k)
  <2>1. /\ UNCHANGED <<promise, cache, stale, destroyed>>
        /\ phase[k] = "settle" /\ phase' = [phase EXCEPT ![k] = "destroy"]
        /\ \A h \in Containers : todo'[h] \subseteq todo[h]
    BY <1>2 DEF CollectInstances, TypeInv, TypeOK
  <2>2. phase'[Root] = phase[Root] \/ (phase[Root] = "settle" /\ phase'[Root] = "destroy")
    BY <1>0, <2>1 DEF TypeInv, TypeOK
  <2> QED
    BY <1>0, <2>1, <2>2 DEF DestroyInv, HomeInv, RootInv, RootDestroyedOnce, Stored
<1>3. CASE FinishDisposal(k)
  <2>1. /\ UNCHANGED <<promise, stale, todo, destroyed>>
        /\ cache' = [cache EXCEPT ![k] = {}]
        /\ phase[k] = "destroy"
        /\ \A h \in Containers :
              phase'[h] = IF h = k THEN IF errors[k] THEN "failed" ELSE "done" ELSE phase[h]
    BY <1>3 DEF FinishDisposal, ClearDisposalCaches, TypeInv, TypeOK
  <2>2. \A h \in Containers : cache'[h] = IF h = k THEN {} ELSE cache[h]
    BY <2>1 DEF TypeInv, TypeOK
  <2>3. HomeInv'
    BY <2>1, <2>2 DEF DestroyInv, HomeInv, Stored
  <2>4. RootInv'
    <3>1. CASE k = Root
      BY <1>0, <2>1, <2>2, <3>1 DEF DestroyInv, RootInv, Stored
    <3>2. CASE k # Root
      BY <1>0, <2>1, <2>2, <3>2 DEF DestroyInv, RootInv, Stored
    <3> QED
      BY <3>1, <3>2
  <2> QED
    BY <2>1, <2>3, <2>4 DEF DestroyInv, RootDestroyedOnce
<1>4. ASSUME NEW i \in Ids, DestroyNext(k, i) PROVE DestroyInv'
  <2>1. /\ i \in todo[k] /\ UNCHANGED <<promise, cache, phase, stale>>
        /\ phase[k] = "destroy"
        /\ destroyed' = [destroyed EXCEPT ![i] = @ + 1]
        /\ \A h \in Containers : todo'[h] = IF h = k THEN todo[h] \ {i} ELSE todo[h]
    BY <1>4 DEF DestroyNext, Latest, TypeInv, TypeOK
  <2>2. promise[i].home = k /\ Stored(i)
    BY <2>1 DEF DestroyInv, HomeInv
  <2>3. k = Root => /\ destroyed[i] = 0 /\ i \notin stale'[Root] \cup todo'[Root]
                    /\ phase[Root] = "destroy"
    BY <2>1 DEF DestroyInv, RootInv
  <2> QED
    BY <2>1, <2>2, <2>3, DestroyOne
<1> QED
  BY <1>1, <1>2, <1>3, <1>4 DEF DisposalStep

LEMMA DestroyStep == TypeInv /\ DestroyInv /\ [Next]_vars => DestroyInv'
<1> SUFFICES ASSUME TypeInv, DestroyInv, [Next]_vars PROVE DestroyInv'
  OBVIOUS
<1>1. CASE UNCHANGED <<promise, cache, disposalVars>>
  BY <1>1, CachesShrink DEF Stored, disposalVars
<1>2. CASE Configure
  <2>1. ASSUME NEW k \in Containers, NEW p \in Providers, Register(k, p)
        PROVE  DestroyInv'
    BY <1>1, <2>1 DEF Register
  <2>2. ASSUME NEW k \in Containers, NEW p \in Providers, Override(k, p)
        PROVE  DestroyInv'
    BY <2>2, OverrideDestroy
  <2>3. ASSUME NEW k \in Children, CreateRequestScope(k) PROVE DestroyInv'
    <3>1. phase'[Root] = phase[Root] /\ UNCHANGED <<promise, cache, todo, stale, destroyed>>
      BY <2>3, ConstantsAssumption DEF CreateRequestScope, TypeInv, TypeOK, Containers
    <3> QED
      BY <3>1 DEF DestroyInv, HomeInv, RootInv, RootDestroyedOnce, Stored
  <2> QED
    BY <1>2, <2>1, <2>2, <2>3, PairsConfigured DEF Configure
<1>3. ASSUME NEW a \in Asks, Resolve(a[1], a[2], a[3]) PROVE DestroyInv'
  BY <1>1, <1>3 DEF Resolve
<1>4. ASSUME NEW c \in Calls, CallStep(c) PROVE DestroyInv'
  BY <1>4, CallStepDestroy
<1>5. ASSUME NEW i \in Ids, FactorySettles(i) PROVE DestroyInv'
  BY <1>5, FactoryDestroy
<1>6. ASSUME NEW k \in Containers, NEW i \in Ids, StaleDisposal(k, i) PROVE DestroyInv'
  BY <1>6, StaleDestroy
<1>7. ASSUME NEW k \in Containers, Dispose(k) \/ DisposalStep(k) PROVE DestroyInv'
  BY <1>7, DisposeDestroy, DisposalStepDestroy
<1>8. CASE ChildrenDisposed
  BY <1>8, ChildrenDisposedDestroy
<1>9. CASE UNCHANGED vars
  BY <1>1, <1>9 DEF vars
<1> QED
  BY <1>2, <1>3, <1>4, <1>5, <1>6, <1>7, <1>8, <1>9 DEF Next

\* onDestroy() runs at most once on an instance of the root's cache, however
\* override(), its stale disposal and a repeated dispose() interleave with
\* the creations, for every provider graph and every set of request scopes.
THEOREM RootOnce == Spec => []RootDestroyedOnce
<1>1. Init => TypeInv /\ DestroyInv
  BY TypeInit, DestroyInit
<1>2. TypeInv /\ DestroyInv /\ [Next]_vars => (TypeInv /\ DestroyInv)'
  BY TypeStep, DestroyStep
<1>3. Spec => [](TypeInv /\ DestroyInv)
  BY <1>1, <1>2, PTL DEF Spec
<1>4. TypeInv /\ DestroyInv => RootDestroyedOnce
  BY DEF DestroyInv
<1> QED
  BY <1>3, <1>4, PTL

---------------------------------------------------------------------------
(* Sharing, reach and isolation of the caches *)

TokenOf(i) == provide[promise[i].prov]
IsNew(i) == promise[i].state = "new"

\* A container's own provider of a token provides that token.
RegistrationInv ==
  \A k \in Containers, t \in Tokens :
    registrations[k][t] # None => provide[registrations[k][t]] = t

\* A frame resolves the token of its provider.
FrameInv == \A i \in Ids : promise[i].state # "free" => TokenOf(i) \in promise[i].toks

\* A creation begun but not cached yet belongs to the call that runs, and its
\* cache holds nothing of its token: nor will an inner frame put it there.
BeginInv ==
  \A i \in Ids : IsNew(i) =>
    /\ running \in Calls /\ promise[i].owner = running
    /\ \A k \in Containers : promise[i].home = k => \A j \in cache[k] : TokenOf(j) # TokenOf(i)
    /\ \A j \in Ids : IsNew(j) /\ j # i => TokenOf(j) # TokenOf(i)

\* A cache holds one creation of a token.
OneCached == \A k \in Containers : \A i, j \in cache[k] : TokenOf(i) = TokenOf(j) => i = j

CellInv ==
  RegistrationInv /\ FrameInv /\ BeginInv /\ OneCached /\ NoFailureCached

\* An instance that k answers for: stored, not failed, not destroyed.
Owed(k, i) ==
  /\ promise[i].home = k /\ ~promise[i].stray /\ destroyed[i] = 0
  /\ Stored(i) /\ promise[i].state \notin Failures

\* Where the disposal of k will find what it owes: in the cache until it takes
\* its snapshot, in the snapshot, or among the stale disposals it waits for.
Reached(k, i) ==
  /\ phase[k] \notin SettledPhase
  /\ i \in cache[k] \cup stale[k]
  /\ phase[k] = "stale" => i \in todo[k] \cup stale[k]
  /\ phase[k] \in {"settle", "destroy"} => i \in todo[k]
  /\ phase[k] = "destroy" => promise[i].state = "ok"

ReachInv == \A k \in Containers, i \in Ids : Owed(k, i) => Reached(k, i)

-----------------------------------------------------------------------------
(* What the steps do to the creations. *)

\* A step that leaves the creation of j alone, but for the mark of a stray.
Same(j) ==
  /\ SameCreation(promise[j], promise'[j])
  /\ promise'[j].state = promise[j].state /\ promise'[j].deps = promise[j].deps

LEMMA InstantiateEffect ==
  ASSUME TypeInv, NEW c \in Calls, NEW i \in Ids, Instantiate(c, i)
  PROVE  /\ running = c /\ promise[i].state = "free" /\ Found(c) \in Providers
         /\ promise'[i].state = "new" /\ promise'[i].prov = Found(c)
         /\ promise'[i].home = IF scope[Found(c)] = "transient" THEN None
                              ELSE Home(call[c].in, Found(c))
         /\ promise'[i].within = Within(call[c].in, Found(c))
         /\ promise'[i].owner = c /\ promise'[i].deps = {}
         /\ promise'[i].toks = call[c].via \cup {call[c].want}
         /\ \A j \in Ids : j # i => promise'[j] = promise[j]
         /\ scope[Found(c)] # "transient" => Hits(c) = {}
         /\ UNCHANGED <<graphVars, cache, disposalVars>>
BY LookingType DEF Instantiate, Looking, NextFree, FreePromise, TypeInv, TypeOK

LEMMA StoreEffect ==
  ASSUME TypeInv, NEW c \in Calls, NEW i \in Ids, StorePromise(c, i)
  PROVE  /\ running = c /\ call[c].mode = "suspend"
         /\ promise[i].owner = c /\ IsNew(i) /\ Innermost(i, NewFrames(c))
         /\ promise'[i].state = IF call[c].waits = i THEN "building" ELSE "pending"
         /\ SameCreation(promise[i], promise'[i]) /\ promise'[i].deps = promise[i].deps
         /\ promise'[i].stray <=> promise[i].home # None /\ DisposedInHierarchy(promise[i].home)
         /\ \A j \in Ids : j # i => promise'[j] = promise[j]
         /\ \A k \in Containers :
              cache'[k] = IF k = promise[i].home THEN cache[k] \cup {i} ELSE cache[k]
         /\ UNCHANGED <<graphVars, call, trackVars, disposalVars>>
<1>1. promise \in [Ids -> Promises] /\ cache \in [Containers -> SUBSET Ids]
  BY DEF TypeInv, TypeOK
<1>2. promise[i].home = None \/ promise[i].home \in Containers
  BY <1>1 DEF Promises
<1>3. None \notin Containers
  BY ConstantsAssumption
<1>4. promise[i].owner = c /\ IsNew(i)
  BY DEF StorePromise, Innermost, NewFrames, Frames, IsNew
<1>5. \A k \in Containers :
        cache'[k] = IF k = promise[i].home THEN cache[k] \cup {i} ELSE cache[k]
  BY <1>1, <1>2, <1>3 DEF StorePromise
<1> DEFINE s == IF call[c].waits = i THEN "building" ELSE "pending"
           n == IF promise[i].home = None THEN 0 ELSE LastStamp + 1
           b == promise[i].home # None /\ DisposedInHierarchy(promise[i].home)
           r == [promise[i] EXCEPT !.state = s, !.stamp = n, !.stray = b]
<1>6. promise' = [promise EXCEPT ![i] = r] /\ b \in BOOLEAN
  BY DEF StorePromise
<1> HIDE DEF b
<1>7. /\ r.state = s /\ r.stray = b /\ r.deps = promise[i].deps
      /\ SameCreation(promise[i], r)
  BY <1>1 DEF Promises, SameCreation
<1> HIDE DEF r
<1>8. promise'[i] = r /\ \A j \in Ids : j # i => promise'[j] = promise[j]
  BY <1>1, <1>6
<1> QED
  BY <1>4, <1>5, <1>7, <1>8 DEF StorePromise, b

LEMMA FedEffect ==
  ASSUME TypeInv, NEW c \in Calls, NEW i \in Ids, ResumeWithDependency(c, i)
  PROVE  /\ running = None /\ call[c].mode = "await" /\ call[c].waits \in Ids
         /\ Fulfilled(call[c].waits) /\ Innermost(i, Frames(c))
         /\ SameCreation(promise[i], promise'[i])
         /\ promise'[i].state \in {promise[i].state, "building"}
         /\ promise'[i].deps = promise[i].deps \cup {call[c].waits}
         /\ promise'[i].stray = promise[i].stray
         /\ \A j \in Ids : j # i => promise'[j] = promise[j]
         /\ UNCHANGED <<registrations, cache, trackVars, disposalVars>>
BY DEF ResumeWithDependency, WaitedSettled, WaitedOk, SameCreation, TypeInv, TypeOK, Promises

LEMMA ReadyEffect ==
  ASSUME TypeInv, NEW i \in Ids, promise' = [promise EXCEPT ![i].state = "ok"]
  PROVE  /\ promise'[i].state = "ok" /\ SameCreation(promise[i], promise'[i])
         /\ promise'[i].deps = promise[i].deps /\ promise'[i].stray = promise[i].stray
         /\ \A j \in Ids : j # i => promise'[j] = promise[j]
BY DEF SameCreation, TypeInv, TypeOK, Promises

-----------------------------------------------------------------------------
(* One creation per token in a cache. *)

LEMMA CellInit == Init => CellInv
<1> SUFFICES ASSUME Init PROVE CellInv
  OBVIOUS
<1>1. RegistrationInv
  <2> SUFFICES ASSUME NEW k \in Containers, NEW t \in Tokens, registrations[k][t] # None
               PROVE  provide[registrations[k][t]] = t
    BY DEF RegistrationInv
  <2>1. registrations[k][t] = IF k = Root /\ \E p \in Initial : provide[p] = t
                              THEN CHOOSE p \in Initial : provide[p] = t ELSE None
    BY DEF Init
  <2>2. \E p \in Initial : provide[p] = t
    BY <2>1
  <2> QED
    BY <2>1, <2>2
<1>2. FrameInv /\ BeginInv
  BY DEF Init, FreePromise, FrameInv, BeginInv, IsNew
<1>3. OneCached /\ NoFailureCached
  BY DEF Init, OneCached, NoFailureCached
<1> QED
  BY <1>1, <1>2, <1>3 DEF CellInv

\* Between two awaits nothing is begun and not cached.
LEMMA NothingNew ==
  ASSUME BeginInv, running = None, NEW i \in Ids
  PROVE  ~IsNew(i)
BY ConstantsAssumption DEF BeginInv

\* A provider found for a token provides it.
LEMMA FoundProvides ==
  ASSUME TypeInv, RegistrationInv, NEW c \in Calls, Looking(c), Found(c) # None
  PROVE  Found(c) \in Providers /\ provide[Found(c)] = call[c].want
<1>1. call[c].in \in Containers /\ call[c].want \in Tokens /\ Root \in Containers
  BY LookingType DEF Containers
<1> QED
  BY <1>1, LookingType DEF Found, Lookup, RegistrationInv

\* Caches that only lose entries keep their promises.
LEMMA CellsKept ==
  ASSUME TypeInv, CellInv, RegistrationInv',
         \A k \in Containers : cache'[k] \subseteq cache[k],
         \A j \in Ids : SameCreation(promise[j], promise'[j]),
         \A j \in Ids : promise[j].state = "free" => promise'[j].state = "free",
         \A j \in Ids : promise'[j].state = "new" => promise[j].state = "new" /\ running' = running,
         \A k \in Containers : \A j \in cache'[k] : promise'[j].state \notin Failures
  PROVE  CellInv'
<1> USE DEF CellInv, SameCreation, TokenOf
<1>1. \A k \in Containers : cache[k] \subseteq Ids
  BY DEF TypeInv, TypeOK
<1>2. FrameInv'
  <2>1. \A j \in Ids : promise'[j].prov = promise[j].prov /\ promise'[j].toks = promise[j].toks
    OBVIOUS
  <2>2. \A j \in Ids : promise[j].state # "free" => provide[promise[j].prov] \in promise[j].toks
    BY DEF FrameInv
  <2> QED
    BY <2>1, <2>2 DEF FrameInv
<1>3. \A j \in Ids : TokenOf(j)' = TokenOf(j) /\ promise'[j].home = promise[j].home
  OBVIOUS
<1>4. BeginInv'
  <2> SUFFICES ASSUME NEW i \in Ids, IsNew(i)'
               PROVE  /\ running' \in Calls /\ promise'[i].owner = running'
                      /\ \A k \in Containers : promise'[i].home = k
                           => \A j \in cache'[k] : TokenOf(j)' # TokenOf(i)'
                      /\ \A j \in Ids : IsNew(j)' /\ j # i => TokenOf(j)' # TokenOf(i)'
    BY DEF BeginInv
  <2>1. IsNew(i) /\ running' = running /\ \A j \in Ids : IsNew(j)' => IsNew(j)
    BY DEF IsNew
  <2> HIDE DEF TokenOf
  <2>2. \A k \in Containers : promise'[i].home = k
          => \A j \in cache'[k] : TokenOf(j)' # TokenOf(i)'
    BY <1>1, <1>3, <2>1 DEF BeginInv
  <2> QED
    BY <1>3, <2>1, <2>2 DEF BeginInv
<1>5. OneCached' /\ NoFailureCached'
  BY <1>1, <1>3 DEF OneCached, NoFailureCached
<1> QED
  BY <1>2, <1>4, <1>5

LEMMA InstantiateCell ==
  ASSUME TypeInv, HomeInv, CellInv, NEW c \in Calls, NEW i \in Ids, Instantiate(c, i)
  PROVE  CellInv'
<1> USE DEF CellInv
<1>0. \A k \in Containers : cache[k] \subseteq Ids
  BY DEF TypeInv, TypeOK
<1>1. /\ running' = running /\ running = c /\ cache' = cache /\ registrations' = registrations
      /\ promise[i].state = "free" /\ promise'[i].state = "new"
      /\ promise'[i].prov = Found(c) /\ promise'[i].owner = c
      /\ promise'[i].toks = call[c].via \cup {call[c].want}
      /\ \A j \in Ids : j # i => promise'[j] = promise[j]
  BY InstantiateEffect DEF graphVars
<1>2. provide[Found(c)] = call[c].want
  BY FoundProvides, InstantiateEffect, ConstantsAssumption DEF Instantiate
<1>3. \A k \in Containers : \A j \in cache[k] : j # i
  BY <1>0, <1>1 DEF HomeInv, Stored
<1>4. ASSUME NEW k \in Containers, promise'[i].home = k, NEW j \in cache[k]
      PROVE  TokenOf(j) # call[c].want
  <2>1. scope[Found(c)] # "transient" /\ Home(call[c].in, Found(c)) = k
    BY <1>4, InstantiateEffect, ConstantsAssumption DEF Containers
  <2>2. CachedFor(k, call[c].want) = {}
    BY <2>1, InstantiateEffect DEF Hits
  <2> QED
    BY <2>2, <1>4 DEF CachedFor, TokenOf
<1>5. ASSUME NEW j \in Ids, IsNew(j) PROVE j # i /\ TokenOf(j) # call[c].want
  <2>1. j \in Frames(c) /\ TokenOf(j) \in promise[j].toks
    BY <1>1, <1>5 DEF BeginInv, FrameInv, IsNew, Frames, Settled, Unsettled
  <2>2. call[c].want \notin ActiveTokens(c)
    BY DEF Instantiate, Circular
  <2> QED
    BY <1>1, <1>5, <2>1, <2>2 DEF ActiveTokens, IsNew
<1>6. FrameInv'
  BY <1>1, <1>2 DEF FrameInv, TokenOf
<1>7. BeginInv'
  BY <1>0, <1>1, <1>2, <1>3, <1>4, <1>5 DEF BeginInv, IsNew, TokenOf
<1>8. RegistrationInv' /\ OneCached' /\ NoFailureCached'
  BY <1>0, <1>1, <1>3 DEF RegistrationInv, OneCached, NoFailureCached, TokenOf
<1> QED
  BY <1>6, <1>7, <1>8

LEMMA StoreCell ==
  ASSUME TypeInv, HomeInv, CellInv, NEW c \in Calls, NEW i \in Ids, StorePromise(c, i)
  PROVE  CellInv'
<1> USE DEF CellInv
<1>0. \A k \in Containers : cache[k] \subseteq Ids
  BY DEF TypeInv, TypeOK
<1>1. /\ UNCHANGED <<running, registrations>> /\ IsNew(i)
      /\ promise'[i].state \in {"building", "pending"}
      /\ SameCreation(promise[i], promise'[i])
      /\ \A j \in Ids : j # i => promise'[j] = promise[j]
      /\ \A k \in Containers :
           cache'[k] = IF k = promise[i].home THEN cache[k] \cup {i} ELSE cache[k]
  BY StoreEffect DEF graphVars
<1>2. \A j \in Ids : SameCreation(promise[j], promise'[j])
  BY <1>1 DEF SameCreation
<1>3. \A j \in Ids : promise'[j].state = "new" => j # i /\ IsNew(j)
  BY <1>1 DEF IsNew
<1>4. FrameInv'
  BY <1>1, <1>2 DEF FrameInv, TokenOf, SameCreation, IsNew
<1>5. \A j \in Ids : TokenOf(j)' = TokenOf(j) /\ promise'[j].home = promise[j].home
                     /\ promise'[j].owner = promise[j].owner
  BY <1>2 DEF TokenOf, SameCreation
<1>8. \A k \in Containers : \A m \in cache'[k] :
        m \in Ids /\ (m \in cache[k] \/ (m = i /\ k = promise[i].home))
  <2> SUFFICES ASSUME NEW k \in Containers, NEW m \in cache'[k]
               PROVE  m \in Ids /\ (m \in cache[k] \/ (m = i /\ k = promise[i].home))
    OBVIOUS
  <2>1. cache'[k] = IF k = promise[i].home THEN cache[k] \cup {i} ELSE cache[k]
    BY <1>1
  <2> QED
    BY <1>0, <2>1
<1>6. BeginInv' /\ OneCached'
  <2>1. \A j \in Ids : IsNew(j)' => j # i /\ IsNew(j)
    BY <1>3 DEF IsNew
  <2>2. ASSUME NEW j \in Ids, IsNew(j)', NEW k \in Containers, promise'[j].home = k,
               NEW m \in cache'[k]
        PROVE  TokenOf(m)' # TokenOf(j)'
    <3>1. m \in Ids /\ (m \in cache[k] \/ m = i)
      BY <1>8
    <3> QED
      BY <1>1, <1>5, <2>1, <2>2, <3>1 DEF BeginInv
  <2>3. BeginInv'
    BY <1>1, <1>5, <2>1, <2>2 DEF BeginInv
  <2>4. ASSUME NEW k \in Containers, NEW j \in cache'[k], NEW m \in cache'[k],
               TokenOf(j)' = TokenOf(m)'
        PROVE  j = m
    <3>1. j \in Ids /\ m \in Ids /\ TokenOf(j) = TokenOf(m)
      BY <1>5, <1>8, <2>4
    <3>2. CASE promise[i].home = k
      <4>1. \A n \in cache[k] : TokenOf(n) # TokenOf(i)
        BY <1>1, <3>2 DEF BeginInv
      <4> QED
        BY <1>8, <3>1, <4>1 DEF OneCached
    <3>3. CASE promise[i].home # k
      BY <1>8, <3>1, <3>3 DEF OneCached
    <3> QED
      BY <3>2, <3>3
  <2>5. OneCached'
    BY <2>4 DEF OneCached
  <2> QED
    BY <2>3, <2>5
<1>7. NoFailureCached'
  BY ZenonT(60), <1>0, <1>1 DEF NoFailureCached, Failures
<1> QED
  BY <1>1, <1>4, <1>6, <1>7 DEF RegistrationInv

\* Between creations: nothing is begun, cached or evicted.
LEMMA CellIdle ==
  ASSUME TypeInv, CellInv, RegistrationInv', UNCHANGED <<promise, cache>>,
         running' = running \/ \A j \in Ids : ~IsNew(j)
  PROVE  CellInv'
<1>1. \A k \in Containers : \A j \in cache'[k] : promise'[j].state \notin Failures
  BY DEF CellInv, NoFailureCached
<1>2. \A j \in Ids : SameCreation(promise[j], promise'[j])
  BY DEF SameCreation
<1>3. \A j \in Ids : promise'[j].state = "new" => promise[j].state = "new" /\ running' = running
  BY DEF IsNew
<1> QED
  BY <1>1, <1>2, <1>3, CellsKept

LEMMA RegistrationUpdate ==
  ASSUME TypeInv, RegistrationInv, NEW k \in Containers, NEW p \in Providers,
         registrations' = [registrations EXCEPT ![k][provide[p]] = p]
  PROVE  RegistrationInv'
<1>1. provide[p] \in Tokens
  BY ConstantsAssumption
<1>2. \A h \in Containers, t \in Tokens :
        registrations'[h][t] = IF h = k /\ t = provide[p] THEN p ELSE registrations[h][t]
  BY <1>1 DEF TypeInv, TypeOK
<1> QED
  BY <1>2 DEF RegistrationInv

\* A failed creation is evicted from the cache it is in.
LEMMA FailsCell ==
  ASSUME TypeInv, HomeInv, CellInv, running = None, UNCHANGED graphVars,
         NEW i \in Ids, NEW f \in Failures, promise[i].state # "free", Fails(i, f)
  PROVE  CellInv'
<1>1. /\ \A k \in Containers : cache'[k] \subseteq cache[k]
      /\ promise'[i].state = f
      /\ \A j \in Ids : j # i => promise'[j].state = promise[j].state
      /\ \A j \in Ids : SameCreation(promise[j], promise'[j])
  BY FailsEffect
<1>2. \A k \in Containers : cache[k] \subseteq Ids
  BY DEF TypeInv, TypeOK
<1>3. ASSUME NEW k \in Containers PROVE i \notin cache'[k]
  <2>1. CASE i \in cache[k]
    <3>1. promise[i].home = k /\ k # None
      BY <2>1, ConstantsAssumption DEF HomeInv
    <3>2. cache' = [cache EXCEPT ![k] = @ \ CachedFor(k, provide[promise[i].prov])]
      BY <3>1 DEF Fails, Evict
    <3> QED
      BY <2>1, <3>2 DEF CachedFor, TypeInv, TypeOK
  <2>2. CASE i \notin cache[k]
    BY <1>1, <2>2
  <2> QED
    BY <2>1, <2>2
<1>4. \A k \in Containers : \A j \in cache'[k] : promise'[j].state \notin Failures
  BY <1>1, <1>2, <1>3 DEF CellInv, NoFailureCached
<1>5. /\ \A j \in Ids : promise[j].state = "free" => promise'[j].state = "free"
      /\ \A j \in Ids : promise'[j].state = "new" => promise[j].state = "new" /\ running' = running
  BY <1>1 DEF Failures, graphVars
<1>6. RegistrationInv'
  BY DEF CellInv, RegistrationInv, graphVars
<1> QED
  BY <1>1, <1>4, <1>5, <1>6, CellsKept

LEMMA CallStepCell ==
  ASSUME TypeInv, HomeInv, CellInv, NEW c \in Calls, CallStep(c)
  PROVE  CellInv'
<1>1. CASE UNCHANGED <<graphVars, promise, cache>>
  <2>1. RegistrationInv'
    BY <1>1 DEF CellInv, RegistrationInv, graphVars
  <2> QED
    BY <1>1, <2>1, CellIdle DEF graphVars
<1>2. ASSUME NEW i \in Ids, Instantiate(c, i) PROVE CellInv'
  BY <1>2, InstantiateCell
<1>3. ASSUME NEW i \in Ids, StorePromise(c, i) PROVE CellInv'
  BY <1>3, StoreCell
<1>4. CASE Suspend(c)
  <2>1. UNCHANGED <<registrations, promise, cache>> /\ running = c /\ NewFrames(c) = {}
    BY <1>4 DEF Suspend
  <2>2. \A j \in Ids : ~IsNew(j)
    BY <2>1 DEF CellInv, BeginInv, IsNew, NewFrames, Frames, Settled, Unsettled
  <2>3. RegistrationInv'
    BY <2>1 DEF CellInv, RegistrationInv
  <2> QED
    BY <2>1, <2>2, <2>3, CellIdle
<1>5. ASSUME NEW i \in Ids, ResumeWithDependency(c, i) PROVE CellInv'
  <2>1. /\ running = None /\ UNCHANGED <<registrations, cache>>
        /\ SameCreation(promise[i], promise'[i])
        /\ promise'[i].state \in {promise[i].state, "building"}
        /\ \A j \in Ids : j # i => promise'[j] = promise[j]
    BY <1>5, FedEffect
  <2>2. promise[i].state # "free"
    BY <1>5, ConstantsAssumption
    DEF ResumeWithDependency, Innermost, Frames, TypeInv, CreationInv
  <2>3. \A j \in Ids : ~IsNew(j)
    BY <2>1, NothingNew DEF CellInv
  <2>4. \A j \in Ids : SameCreation(promise[j], promise'[j])
    BY <2>1 DEF SameCreation
  <2>5. /\ \A j \in Ids : promise[j].state = "free" => promise'[j].state = "free"
        /\ \A j \in Ids : promise'[j].state = "new" => promise[j].state = "new" /\ running' = running
    BY <2>1, <2>2, <2>3 DEF IsNew
  <2>6. \A k \in Containers : \A j \in cache'[k] : promise'[j].state \notin Failures
    <3>1. \A k \in Containers : cache[k] \subseteq Ids
      BY DEF TypeInv, TypeOK
    <3> QED
      BY <2>1, <3>1 DEF CellInv, NoFailureCached, Failures
  <2>7. RegistrationInv'
    BY <2>1 DEF CellInv, RegistrationInv
  <2>8. \A k \in Containers : cache'[k] \subseteq cache[k]
    BY <2>1
  <2> QED
    BY <2>4, <2>5, <2>6, <2>7, <2>8, CellsKept
<1>6. ASSUME NEW i \in Ids, ResumeWithFault(c, i) PROVE CellInv'
  <2>1. /\ Fails(i, WaitedFault(c)) /\ WaitedFault(c) \in Failures
        /\ running = None /\ UNCHANGED graphVars
    BY <1>6, FaultType DEF ResumeWithFault, WaitedSettled, graphVars
  <2>2. promise[i].state # "free"
    BY <1>6, ConstantsAssumption DEF ResumeWithFault, Innermost, Frames, TypeInv, CreationInv
  <2> QED
    BY <2>1, <2>2, FailsCell
<1> QED
  BY <1>1, <1>2, <1>3, <1>4, <1>5, <1>6
  DEF CallStep, Lookups, Unwinding, Resumption, ThrowCircular, ThrowMissing,
      ThrowOutsideRequest, FollowAlias, ShareCached, Return

LEMMA FactoryCell ==
  ASSUME TypeInv, HomeInv, CellInv, NEW i \in Ids, FactorySettles(i)
  PROVE  CellInv'
<1>1. /\ running = None /\ UNCHANGED graphVars /\ promise[i].state = "building"
  BY DEF FactorySettles
<1>2. CASE promise' = [promise EXCEPT ![i].state = "ok"] /\ UNCHANGED cache
  <2>1. /\ promise'[i].state = "ok" /\ SameCreation(promise[i], promise'[i])
        /\ \A j \in Ids : j # i => promise'[j] = promise[j]
    BY <1>2, ReadyEffect
  <2>2. \A j \in Ids : SameCreation(promise[j], promise'[j])
    BY <2>1 DEF SameCreation
  <2>3. /\ \A j \in Ids : promise[j].state = "free" => promise'[j].state = "free"
        /\ \A j \in Ids : promise'[j].state = "new" => promise[j].state = "new" /\ running' = running
    BY <1>1, <2>1 DEF graphVars
  <2>4. \A k \in Containers : cache[k] \subseteq Ids
    BY DEF TypeInv, TypeOK
  <2>5. \A k \in Containers : \A j \in cache'[k] : promise'[j].state \notin Failures
    BY <1>2, <2>1, <2>4 DEF CellInv, NoFailureCached, Failures
  <2>6. RegistrationInv'
    BY <1>1 DEF CellInv, RegistrationInv, graphVars
  <2>7. \A k \in Containers : cache'[k] \subseteq cache[k]
    BY <1>2
  <2> QED
    BY <2>2, <2>3, <2>5, <2>6, <2>7, CellsKept
<1>3. CASE Fails(i, "threw")
  <2>1. "threw" \in Failures /\ promise[i].state # "free"
    BY <1>1 DEF Failures
  <2> QED
    BY <1>1, <1>3, <2>1, FailsCell
<1> QED
  BY <1>2, <1>3 DEF FactorySettles

LEMMA ShrinkCell ==
  ASSUME TypeInv, CellInv, RegistrationInv', promise' = promise, running' = running,
         \A k \in Containers : cache'[k] \subseteq cache[k]
  PROVE  CellInv'
<1>1. \A k \in Containers : \A j \in cache'[k] : promise'[j].state \notin Failures
  BY DEF CellInv, NoFailureCached
<1>2. \A j \in Ids : SameCreation(promise[j], promise'[j])
  BY DEF SameCreation
<1> QED
  BY <1>1, <1>2, CellsKept

LEMMA CellStep == TypeInv /\ HomeInv /\ CellInv /\ [Next]_vars => CellInv'
<1> SUFFICES ASSUME TypeInv, HomeInv, CellInv, [Next]_vars PROVE CellInv'
  OBVIOUS
<1>1. CASE UNCHANGED <<graphVars, promise, cache>>
  <2>1. RegistrationInv'
    BY <1>1 DEF CellInv, RegistrationInv, graphVars
  <2> QED
    BY <1>1, <2>1, CellIdle DEF graphVars
<1>2. CASE Configure
  <2>1. ASSUME NEW k \in Containers, NEW p \in Providers, Register(k, p)
        PROVE  CellInv'
    <3>1. RegistrationInv'
      BY <2>1, RegistrationUpdate DEF Register, CellInv
    <3> QED
      BY <2>1, <3>1, CellIdle DEF Register
  <2>2. ASSUME NEW k \in Containers, NEW p \in Providers, Override(k, p)
        PROVE  CellInv'
    <3>1. RegistrationInv'
      BY <2>2, RegistrationUpdate DEF Override, CellInv
    <3>2. \A h \in Containers : cache'[h] \subseteq cache[h]
      BY <2>2 DEF Override
    <3>3. promise' = promise /\ running' = running
      BY <2>2 DEF Override
    <3> QED
      BY <3>1, <3>2, <3>3, ShrinkCell
  <2>3. ASSUME NEW k \in Children, CreateRequestScope(k) PROVE CellInv'
    BY <1>1, <2>3 DEF CreateRequestScope
  <2> QED
    BY <1>2, <2>1, <2>2, <2>3, PairsConfigured DEF Configure
<1>3. ASSUME NEW a \in Asks, Resolve(a[1], a[2], a[3]) PROVE CellInv'
  <2>1. UNCHANGED <<registrations, promise, cache>> /\ running = None
    BY <1>3 DEF Resolve
  <2>2. RegistrationInv'
    BY <2>1 DEF CellInv, RegistrationInv
  <2>3. \A j \in Ids : ~IsNew(j)
    BY <2>1, NothingNew DEF CellInv
  <2> QED
    BY <2>1, <2>2, <2>3, CellIdle
<1>4. ASSUME NEW c \in Calls, CallStep(c) PROVE CellInv'
  BY <1>4, CallStepCell
<1>5. ASSUME NEW i \in Ids, FactorySettles(i) PROVE CellInv'
  BY <1>5, FactoryCell
<1>6. ASSUME NEW k \in Containers, NEW i \in Ids, StaleDisposal(k, i) PROVE CellInv'
  BY <1>1, <1>6 DEF StaleDisposal
<1>7. ASSUME NEW k \in Containers, Dispose(k) \/ DisposalStep(k) PROVE CellInv'
  <2>1. CASE FinishDisposal(k)
    <3>1. \A h \in Containers : cache'[h] \subseteq cache[h]
      BY <2>1 DEF FinishDisposal, ClearDisposalCaches, TypeInv, TypeOK
    <3>2. UNCHANGED <<graphVars, promise>>
      BY <2>1 DEF FinishDisposal
    <3>3. RegistrationInv'
      BY <3>2 DEF CellInv, RegistrationInv, graphVars
    <3> QED
      BY <3>1, <3>2, <3>3, ShrinkCell DEF graphVars
  <2> QED
    BY <1>1, <1>7, <2>1 DEF Dispose, DisposalStep, StaleTasksDone, CollectInstances, DestroyNext
<1>8. CASE ChildrenDisposed
  BY <1>1, <1>8 DEF ChildrenDisposed
<1>9. CASE UNCHANGED vars
  BY <1>1, <1>9 DEF vars
<1> QED
  BY <1>2, <1>3, <1>4, <1>5, <1>6, <1>7, <1>8, <1>9 DEF Next

LEMMA CellCorrect == Spec => [](TypeInv /\ DestroyInv /\ CellInv)
<1>1. Init => TypeInv /\ DestroyInv /\ CellInv
  BY TypeInit, DestroyInit, CellInit
<1>2. TypeInv /\ DestroyInv /\ CellInv /\ [Next]_vars => (TypeInv /\ DestroyInv /\ CellInv)'
  BY TypeStep, DestroyStep, CellStep DEF DestroyInv
<1> QED
  BY <1>1, <1>2, PTL DEF Spec

-----------------------------------------------------------------------------
(* Disposal reaches what is owed. *)

LEMMA ReachInit == Init => ReachInv
BY DEF Init, FreePromise, ReachInv, Owed, Stored

\* Steps that dispose of nothing and only evict what is a stray from then on.
LEMMA ReachKept ==
  ASSUME TypeInv, ReachInv, UNCHANGED <<phase, todo, stale, destroyed>>,
         \A j \in Ids : Stored(j)' => Stored(j),
         \A j \in Ids : promise[j].state \in {"ok"} \cup Failures => promise'[j].state = promise[j].state,
         \A j \in Ids : promise'[j].home = promise[j].home,
         \A j \in Ids : promise[j].stray => promise'[j].stray,
         \A k \in Containers : \A j \in cache[k] :
           j \in cache'[k] \/ promise'[j].stray \/ promise'[j].state \in Failures
  PROVE  ReachInv'
<1> SUFFICES ASSUME NEW k \in Containers, NEW j \in Ids, Owed(k, j)' PROVE Reached(k, j)'
  BY DEF ReachInv
<1>1. Owed(k, j)
  BY DEF Owed
<1>2. Reached(k, j)
  BY <1>1 DEF ReachInv
<1>3. j \in cache[k] => j \in cache'[k]
  BY DEF Owed
<1> QED
  BY <1>2, <1>3 DEF Reached

LEMMA StoreReach ==
  ASSUME TypeInv, CellInv, ReachInv, NEW c \in Calls, NEW i \in Ids, StorePromise(c, i)
  PROVE  ReachInv'
<1>1. /\ promise'[i].home = promise[i].home
      /\ promise'[i].stray <=> promise[i].home # None /\ DisposedInHierarchy(promise[i].home)
      /\ \A j \in Ids : j # i => promise'[j] = promise[j]
      /\ \A k \in Containers :
           cache'[k] = IF k = promise[i].home THEN cache[k] \cup {i} ELSE cache[k]
      /\ UNCHANGED disposalVars
  BY StoreEffect DEF SameCreation
<1> SUFFICES ASSUME NEW k \in Containers, NEW j \in Ids, Owed(k, j)' PROVE Reached(k, j)'
  BY DEF ReachInv
<1>2. CASE j = i
  <2>1. promise[i].home = k /\ k # None /\ ~DisposedInHierarchy(k)
    BY <1>1, <1>2, ConstantsAssumption DEF Owed
  <2>2. phase[k] \in {"absent", "open"} /\ i \in cache'[k] /\ phase' = phase
    BY <1>1, <2>1 DEF DisposedInHierarchy, Disposed, disposalVars
  <2> QED
    BY <1>2, <2>2 DEF Reached, SettledPhase
<1>3. CASE j # i
  <2>1. promise'[j] = promise[j] /\ UNCHANGED <<phase, todo, stale, destroyed>>
    BY <1>1, <1>3 DEF disposalVars
  <2>2. Owed(k, j)
    BY <2>1 DEF Owed, Stored
  <2>3. Reached(k, j)
    BY <2>2 DEF ReachInv
  <2>4. j \in cache[k] => j \in cache'[k]
    BY <1>1
  <2> QED
    BY <2>1, <2>3, <2>4 DEF Reached
<1> QED
  BY <1>2, <1>3

LEMMA FailsReach ==
  ASSUME TypeInv, ReachInv, UNCHANGED disposalVars,
         NEW i \in Ids, NEW f \in Failures, promise[i].state \in {"pending", "building"},
         Fails(i, f)
  PROVE  ReachInv'
<1>1. /\ promise'[i].state = f
      /\ \A j \in Ids : j # i => promise'[j].state = promise[j].state
      /\ \A j \in Ids : promise'[j].home = promise[j].home
      /\ \A j \in Ids : promise'[j].stray <=> promise[j].stray \/ (j # i /\ j \in Others(i))
  BY FailsEffect DEF SameCreation
<1>2. \A j \in Ids : Stored(j)' => Stored(j)
  BY <1>1 DEF Stored
<1>3. \A j \in Ids : promise[j].state \in {"ok"} \cup Failures => promise'[j].state = promise[j].state
  BY <1>1 DEF Failures
<1>4. ASSUME NEW k \in Containers, NEW j \in cache[k]
      PROVE  j \in cache'[k] \/ promise'[j].stray \/ promise'[j].state \in Failures
  <2> DEFINE h == promise[i].home
  <2>1. j \in Ids /\ (h = None \/ h \in Containers)
    BY DEF TypeInv, TypeOK, Promises
  <2>2. CASE h = None
    BY <2>2 DEF Fails, Evict
  <2>3. CASE h \in Containers
    <3>1. cache' = [cache EXCEPT ![h] = @ \ CachedFor(h, provide[promise[i].prov])]
          /\ Others(i) = CachedFor(h, provide[promise[i].prov]) \ {i}
      BY <2>3, ConstantsAssumption DEF Fails, Evict, Others
    <3>2. j \in cache'[k] \/ j \in CachedFor(h, provide[promise[i].prov])
      BY <2>3, <3>1 DEF TypeInv, TypeOK
    <3> QED
      BY <1>1, <2>1, <3>1, <3>2
  <2> QED
    BY <2>1, <2>2, <2>3
<1>5. UNCHANGED <<phase, todo, stale, destroyed>>
  BY DEF disposalVars
<1> QED
  BY <1>1, <1>2, <1>3, <1>4, <1>5, ReachKept

\* A frame that awaits is stored already.
LEMMA FrameStored ==
  ASSUME TypeInv, CellInv, running = None, NEW c \in Calls, NEW i \in Frames(c)
  PROVE  promise[i].state \in {"pending", "building"}
<1>1. i \in Ids /\ ~Settled(i) /\ promise[i].owner = c /\ c # None
  BY ConstantsAssumption DEF Frames
<1>2. ~IsNew(i)
  BY <1>1, NothingNew DEF CellInv
<1>3. promise[i].state # "free"
  BY <1>1 DEF TypeInv, CreationInv
<1> QED
  BY <1>1, <1>2, <1>3 DEF Settled, Unsettled, IsNew

LEMMA CallStepReach ==
  ASSUME TypeInv, CellInv, ReachInv, NEW c \in Calls, CallStep(c)
  PROVE  ReachInv'
<1>1. CASE UNCHANGED <<promise, cache, disposalVars>>
  BY <1>1, ReachKept DEF disposalVars, Stored
<1>2. ASSUME NEW i \in Ids, Instantiate(c, i) PROVE ReachInv'
  <2>1. /\ promise[i].state = "free" /\ promise'[i].state = "new"
        /\ \A j \in Ids : j # i => promise'[j] = promise[j]
        /\ UNCHANGED <<cache, disposalVars>>
    BY <1>2, InstantiateEffect
  <2> SUFFICES ASSUME NEW k \in Containers, NEW j \in Ids, Owed(k, j)' PROVE Reached(k, j)'
    BY DEF ReachInv
  <2>2. promise'[j] = promise[j]
    BY <2>1 DEF Owed, Stored
  <2>3. Reached(k, j)
    BY <2>1, <2>2 DEF Owed, Stored, ReachInv, disposalVars
  <2> QED
    BY <2>1, <2>2, <2>3 DEF Reached, disposalVars
<1>3. ASSUME NEW i \in Ids, StorePromise(c, i) PROVE ReachInv'
  BY <1>3, StoreReach
<1>4. ASSUME NEW i \in Ids, ResumeWithDependency(c, i) PROVE ReachInv'
  <2>1. /\ running = None /\ Innermost(i, Frames(c)) /\ UNCHANGED <<cache, disposalVars>>
        /\ promise'[i].home = promise[i].home /\ promise'[i].stray = promise[i].stray
        /\ promise'[i].state \in {promise[i].state, "building"}
        /\ \A j \in Ids : j # i => promise'[j] = promise[j]
    BY <1>4, FedEffect DEF SameCreation
  <2>2. promise[i].state \in {"pending", "building"}
    BY <2>1, FrameStored DEF Innermost
  <2>3. /\ \A j \in Ids : Stored(j)' => Stored(j)
        /\ \A j \in Ids : promise[j].state \in {"ok"} \cup Failures
                          => promise'[j].state = promise[j].state
    BY <2>1, <2>2 DEF Stored, Failures
  <2>4. /\ \A j \in Ids : promise'[j].home = promise[j].home
        /\ \A j \in Ids : promise[j].stray => promise'[j].stray
    BY <2>1
  <2> QED
    BY <2>1, <2>3, <2>4, ReachKept DEF disposalVars
<1>5. ASSUME NEW i \in Ids, ResumeWithFault(c, i) PROVE ReachInv'
  <2>1. /\ Fails(i, WaitedFault(c)) /\ WaitedFault(c) \in Failures
        /\ running = None /\ UNCHANGED disposalVars
    BY <1>5, FaultType DEF ResumeWithFault, WaitedSettled
  <2>2. promise[i].state \in {"pending", "building"}
    BY <1>5, <2>1, FrameStored DEF ResumeWithFault, Innermost
  <2> QED
    BY <2>1, <2>2, FailsReach
<1> QED
  BY <1>1, <1>2, <1>3, <1>4, <1>5
  DEF CallStep, Lookups, Unwinding, Resumption, ThrowCircular, ThrowMissing,
      ThrowOutsideRequest, FollowAlias, ShareCached, Suspend, Return

LEMMA FactoryReach ==
  ASSUME TypeInv, ReachInv, NEW i \in Ids, FactorySettles(i)
  PROVE  ReachInv'
<1>1. UNCHANGED disposalVars /\ promise[i].state = "building"
  BY DEF FactorySettles
<1>2. CASE promise' = [promise EXCEPT ![i].state = "ok"] /\ UNCHANGED cache
  <2>1. /\ promise'[i].state = "ok" /\ promise'[i].home = promise[i].home
        /\ promise'[i].stray = promise[i].stray
        /\ \A j \in Ids : j # i => promise'[j] = promise[j]
    BY <1>2, ReadyEffect DEF SameCreation
  <2>2. /\ \A j \in Ids : Stored(j)' => Stored(j)
        /\ \A j \in Ids : promise[j].state \in {"ok"} \cup Failures
                          => promise'[j].state = promise[j].state
    BY <1>1, <2>1 DEF Stored, Failures
  <2>3. /\ \A j \in Ids : promise'[j].home = promise[j].home
        /\ \A j \in Ids : promise[j].stray => promise'[j].stray
    BY <2>1
  <2> QED
    BY <1>1, <1>2, <2>2, <2>3, ReachKept DEF disposalVars
<1>3. CASE Fails(i, "threw")
  BY <1>1, <1>3, FailsReach DEF Failures
<1> QED
  BY <1>2, <1>3 DEF FactorySettles

\* What override() takes out of a cache has a stale disposal of its own.
LEMMA OverrideReach ==
  ASSUME TypeInv, ReachInv, NEW k \in Containers, NEW p \in Providers, Override(k, p)
  PROVE  ReachInv'
<1> SUFFICES ASSUME NEW h \in Containers, NEW j \in Ids, Owed(h, j)' PROVE Reached(h, j)'
  BY DEF ReachInv
<1>1. /\ cache'[h] = cache[h] \ Invalid(k, h, provide[p])
      /\ stale'[h] = stale[h] \cup Invalid(k, h, provide[p])
      /\ UNCHANGED <<promise, phase, todo, destroyed>>
  BY DEF Override, ScheduleStaleDisposal
<1>2. Reached(h, j)
  BY <1>1 DEF ReachInv, Owed, Stored
<1> QED
  BY <1>1, <1>2 DEF Reached

LEMMA StaleReach ==
  ASSUME TypeInv, HomeInv, ReachInv, NEW k \in Containers, NEW i \in Ids, StaleDisposal(k, i)
  PROVE  ReachInv'
<1>1. /\ i \in stale[k] /\ Settled(i) /\ UNCHANGED <<promise, cache, phase, todo>>
      /\ \A h \in Containers : stale'[h] = IF h = k THEN stale[h] \ {i} ELSE stale[h]
      /\ \A j \in Ids : j # i => destroyed'[j] = destroyed[j]
      /\ Fulfilled(i) => destroyed'[i] = destroyed[i] + 1
      /\ ~Fulfilled(i) => destroyed'[i] = destroyed[i]
  BY DEF StaleDisposal, TypeInv, TypeOK
<1>2. destroyed[i] \in Nat
  BY DEF TypeInv, TypeOK
<1>3. ~Fulfilled(i) => promise[i].state \in Failures
  BY <1>1 DEF Fulfilled, Settled, TypeInv, TypeOK, Promises, PromiseState
<1> SUFFICES ASSUME NEW h \in Containers, NEW j \in Ids, Owed(h, j)' PROVE Reached(h, j)'
  BY DEF ReachInv
<1>4. j # i
  <2>1. CASE Fulfilled(i)
    BY <1>1, <1>2, <2>1 DEF Owed
  <2>2. CASE ~Fulfilled(i)
    BY <1>1, <1>3, <2>2 DEF Owed
  <2> QED
    BY <2>1, <2>2
<1>5. Reached(h, j)
  BY <1>1, <1>4 DEF ReachInv, Owed, Stored
<1> QED
  BY <1>1, <1>4, <1>5 DEF Reached

LEMMA DisposeReach ==
  ASSUME TypeInv, ReachInv, NEW k \in Containers, Dispose(k)
  PROVE  ReachInv'
<1> SUFFICES ASSUME NEW h \in Containers, NEW j \in Ids, Owed(h, j)' PROVE Reached(h, j)'
  BY DEF ReachInv
<1>1. UNCHANGED <<promise, cache, stale, destroyed>>
  BY DEF Dispose
<1>2. Reached(h, j)
  BY <1>1 DEF ReachInv, Owed, Stored
<1>3. \/ phase'[h] = "children"
      \/ phase'[h] = "stale" /\ todo'[h] = cache[h]
      \/ phase'[h] = phase[h] /\ todo'[h] = todo[h]
  BY ConstantsAssumption DEF Dispose, TypeInv, TypeOK
<1> QED
  BY <1>1, <1>2, <1>3 DEF Reached, SettledPhase

LEMMA ChildrenDisposedReach ==
  ASSUME TypeInv, ReachInv, ChildrenDisposed
  PROVE  ReachInv'
<1> SUFFICES ASSUME NEW h \in Containers, NEW j \in Ids, Owed(h, j)' PROVE Reached(h, j)'
  BY DEF ReachInv
<1>1. UNCHANGED <<promise, cache, stale, destroyed>>
  BY DEF ChildrenDisposed
<1>2. Reached(h, j)
  BY <1>1 DEF ReachInv, Owed, Stored
<1>3. \/ phase'[h] = "stale" /\ todo'[h] = cache[h]
      \/ phase'[h] = phase[h] /\ todo'[h] = todo[h]
  BY DEF ChildrenDisposed, TypeInv, TypeOK
<1> QED
  BY <1>1, <1>2, <1>3 DEF Reached, SettledPhase

LEMMA DisposalStepReach ==
  ASSUME TypeInv, ReachInv, NEW k \in Containers, DisposalStep(k)
  PROVE  ReachInv'
<1> SUFFICES ASSUME NEW h \in Containers, NEW j \in Ids, Owed(h, j)' PROVE Reached(h, j)'
  BY DEF ReachInv
<1>1. CASE StaleTasksDone(k)
  <2>1. /\ UNCHANGED <<promise, cache, todo, stale, destroyed>>
        /\ phase[k] = "stale" /\ stale[k] = {}
        /\ phase'[h] = IF h = k THEN "settle" ELSE phase[h]
    BY <1>1 DEF StaleTasksDone, TypeInv, TypeOK
  <2>2. Reached(h, j)
    BY <2>1 DEF ReachInv, Owed, Stored
  <2> QED
    BY <2>1, <2>2 DEF Reached, SettledPhase
<1>2. CASE CollectInstances(k)
  <2>1. /\ UNCHANGED <<promise, cache, stale, destroyed>> /\ phase[k] = "settle"
        /\ AllSettled(todo[k])
        /\ phase'[h] = IF h = k THEN "destroy" ELSE phase[h]
        /\ todo'[h] = IF h = k THEN {i \in todo[k] : Fulfilled(i)} ELSE todo[h]
    BY <1>2 DEF CollectInstances, TypeInv, TypeOK
  <2>2. Reached(h, j) /\ promise[j].state \notin Failures
    BY <2>1 DEF ReachInv, Owed, Stored
  <2>3. CASE h = k
    <3>1. j \in todo[k] /\ Settled(j)
      BY <2>1, <2>2, <2>3 DEF Reached, AllSettled
    <3>2. Fulfilled(j)
      BY <2>2, <3>1 DEF Settled, Fulfilled, TypeInv, TypeOK, Promises, PromiseState
    <3> QED
      BY <2>1, <2>2, <2>3, <3>1, <3>2 DEF Reached, SettledPhase, Fulfilled
  <2>4. CASE h # k
    BY <2>1, <2>2, <2>4 DEF Reached
  <2> QED
    BY <2>3, <2>4
<1>3. CASE FinishDisposal(k)
  <2>1. /\ UNCHANGED <<promise, stale, todo, destroyed>>
        /\ phase[k] = "destroy" /\ todo[k] = {}
        /\ h # k => phase'[h] = phase[h] /\ cache'[h] = cache[h]
    BY <1>3 DEF FinishDisposal, ClearDisposalCaches, TypeInv, TypeOK
  <2>2. Reached(h, j)
    BY <2>1 DEF ReachInv, Owed, Stored
  <2>3. h # k
    BY <2>1, <2>2 DEF Reached
  <2> QED
    BY <2>1, <2>2, <2>3 DEF Reached
<1>4. ASSUME NEW i \in Ids, DestroyNext(k, i) PROVE Reached(h, j)'
  <2>1. /\ UNCHANGED <<promise, cache, phase, stale>>
        /\ destroyed'[i] = destroyed[i] + 1 /\ destroyed[i] \in Nat
        /\ j # i => destroyed'[j] = destroyed[j]
        /\ todo'[h] = IF h = k THEN todo[h] \ {i} ELSE todo[h]
    BY <1>4 DEF DestroyNext, Latest, TypeInv, TypeOK
  <2>2. j # i
    BY <2>1 DEF Owed
  <2>3. Reached(h, j)
    BY <2>1, <2>2 DEF ReachInv, Owed, Stored
  <2> QED
    BY <2>1, <2>2, <2>3 DEF Reached
<1> QED
  BY <1>1, <1>2, <1>3, <1>4 DEF DisposalStep

LEMMA ReachStep == TypeInv /\ HomeInv /\ CellInv /\ ReachInv /\ [Next]_vars => ReachInv'
<1> SUFFICES ASSUME TypeInv, HomeInv, CellInv, ReachInv, [Next]_vars PROVE ReachInv'
  OBVIOUS
<1>1. CASE UNCHANGED <<promise, cache, disposalVars>>
  BY <1>1, ReachKept DEF disposalVars, Stored
<1>2. CASE Configure
  <2>1. ASSUME NEW k \in Containers, NEW p \in Providers, Register(k, p) PROVE ReachInv'
    BY <1>1, <2>1 DEF Register
  <2>2. ASSUME NEW k \in Containers, NEW p \in Providers, Override(k, p) PROVE ReachInv'
    BY <2>2, OverrideReach
  <2>3. ASSUME NEW k \in Children, CreateRequestScope(k) PROVE ReachInv'
    <3>1. /\ UNCHANGED <<promise, cache, todo, stale, destroyed>>
          /\ \A h \in Containers : phase'[h] = phase[h] \/ phase'[h] = "open"
      BY <2>3 DEF CreateRequestScope, TypeInv, TypeOK
    <3> QED
      BY <3>1 DEF ReachInv, Owed, Stored, Reached, SettledPhase
  <2> QED
    BY <1>2, <2>1, <2>2, <2>3, PairsConfigured DEF Configure
<1>3. ASSUME NEW a \in Asks, Resolve(a[1], a[2], a[3]) PROVE ReachInv'
  BY <1>1, <1>3 DEF Resolve
<1>4. ASSUME NEW c \in Calls, CallStep(c) PROVE ReachInv'
  BY <1>4, CallStepReach
<1>5. ASSUME NEW i \in Ids, FactorySettles(i) PROVE ReachInv'
  BY <1>5, FactoryReach
<1>6. ASSUME NEW k \in Containers, NEW i \in Ids, StaleDisposal(k, i) PROVE ReachInv'
  BY <1>6, StaleReach
<1>7. ASSUME NEW k \in Containers, Dispose(k) \/ DisposalStep(k) PROVE ReachInv'
  BY <1>7, DisposeReach, DisposalStepReach
<1>8. CASE ChildrenDisposed
  BY <1>8, ChildrenDisposedReach
<1>9. CASE UNCHANGED vars
  BY <1>1, <1>9 DEF vars
<1> QED
  BY <1>2, <1>3, <1>4, <1>5, <1>6, <1>7, <1>8, <1>9 DEF Next

CacheInv == TypeInv /\ DestroyInv /\ CellInv /\ ReachInv

LEMMA CacheCorrect == Spec => []CacheInv
<1>1. Init => CacheInv
  BY TypeInit, DestroyInit, CellInit, ReachInit DEF CacheInv
<1>2. CacheInv /\ [Next]_vars => CacheInv'
  BY TypeStep, DestroyStep, CellStep, ReachStep DEF CacheInv, DestroyInv
<1> QED
  BY <1>1, <1>2, PTL DEF Spec

\* A live instance of a cache's is in that cache.
LEMMA LiveCached ==
  ASSUME CacheInv, NEW i \in Ids, Live(i), promise[i].home # None, ~promise[i].stray
  PROVE  promise[i].home \in Containers /\ i \in cache[promise[i].home]
<1> DEFINE h == promise[i].home
<1>1. h \in Containers
  BY DEF CacheInv, TypeInv, TypeOK, Promises
<1>2. Owed(h, i)
  BY DEF Live, Owed, Stored, Failures
<1>3. i \in cache[h] \cup stale[h]
  BY <1>1, <1>2 DEF CacheInv, ReachInv, Reached
<1> QED
  BY <1>1, <1>3 DEF Live

\* Two concurrent resolutions of one provider share one creation: no cache is
\* ever answerable for two live instances of it, whatever was overridden,
\* disposed of or failed meanwhile.
THEOREM OneInstance == Spec => []OneLiveInstance
<1>1. CacheInv => OneLiveInstance
  <2> SUFFICES ASSUME CacheInv, NEW i \in Ids, NEW j \in Ids, Live(i), Live(j),
                      promise[i].home # None, ~promise[i].stray, ~promise[j].stray,
                      promise[i].prov = promise[j].prov, promise[i].home = promise[j].home
               PROVE  i = j
    BY DEF OneLiveInstance
  <2>1. i \in cache[promise[i].home] /\ j \in cache[promise[i].home]
        /\ promise[i].home \in Containers
    BY LiveCached
  <2> QED
    BY <2>1 DEF CacheInv, CellInv, OneCached, TokenOf
<1> QED
  BY <1>1, CacheCorrect, PTL

\* A failed creation leaves its cache in the step in which it fails, and no
\* later step puts it back: the next resolve() builds anew.
THEOREM FailuresLeave == Spec => []NoFailureCached
<1>1. CacheInv => NoFailureCached
  BY DEF CacheInv, CellInv
<1> QED
  BY <1>1, CacheCorrect, PTL

\* A disposal that settles has destroyed every instance its container had
\* cached before dispose() was called, the ones still being created and the
\* ones override() had replaced included.
THEOREM DisposalReaches == Spec => []DisposalReachesCached
<1>1. CacheInv => DisposalReachesCached
  <2> SUFFICES ASSUME CacheInv, NEW i \in Ids, promise[i].home # None, Fulfilled(i),
                      ~promise[i].stray, phase[promise[i].home] \in SettledPhase
               PROVE  destroyed[i] >= 1
    BY DEF DisposalReachesCached
  <2>1. promise[i].home \in Containers /\ destroyed[i] \in Nat
    BY DEF CacheInv, TypeInv, TypeOK, Promises
  <2>2. destroyed[i] # 0
    <3> SUFFICES ASSUME destroyed[i] = 0 PROVE FALSE
      OBVIOUS
    <3>1. Owed(promise[i].home, i)
      BY DEF Owed, Fulfilled, Stored, Failures
    <3> QED
      BY <2>1, <3>1 DEF CacheInv, ReachInv, Reached
  <2> QED
    BY <2>1, <2>2
<1> QED
  BY <1>1, CacheCorrect, PTL

-----------------------------------------------------------------------------
(* The caches implement SharedCells. *)

\* The cell of a token has what its cache has.
CellsMatch ==
  \A k \in Containers, t \in Tokens :
    /\ \A i \in cache[k] : TokenOf(i) = t => SharedCell[<<k, t>>] = i
    /\ SharedCell[<<k, t>>] # 0
         => SharedCell[<<k, t>>] \in cache[k] /\ TokenOf(SharedCell[<<k, t>>]) = t

LEMMA CellIs == OneCached => CellsMatch
<1> SUFFICES ASSUME OneCached, NEW k \in Containers, NEW t \in Tokens
             PROVE  /\ \A i \in cache[k] : TokenOf(i) = t => SharedCell[<<k, t>>] = i
                    /\ SharedCell[<<k, t>>] # 0 => /\ SharedCell[<<k, t>>] \in cache[k]
                                                  /\ TokenOf(SharedCell[<<k, t>>]) = t
  BY DEF CellsMatch
<1>1. SharedCell[<<k, t>>] =
        IF CachedFor(k, t) = {} THEN 0 ELSE CHOOSE i \in CachedFor(k, t) : TRUE
  <2>1. SharedCell[<<k, t>>] = CreationIn(k, t)
    BY DEF SharedCell
  <2> QED
    BY <2>1 DEF CreationIn
<1>2. \A i : i \in CachedFor(k, t) <=> i \in cache[k] /\ TokenOf(i) = t
  BY DEF CachedFor, TokenOf
<1>3. \A i, j \in CachedFor(k, t) : i = j
  BY <1>2 DEF OneCached
<1>4. CachedFor(k, t) # {} => SharedCell[<<k, t>>] \in CachedFor(k, t)
  BY <1>1
<1> QED
  BY <1>1, <1>2, <1>3, <1>4

LEMMA CellIsNext == OneCached' => CellsMatch'
BY CellIs, PTL

LEMMA ProgressIs ==
  ASSUME NEW i \in Ids
  PROVE  SharedProgress[i] =
           IF promise[i].state \in {"free", "new"} \/ promise[i].home = None THEN "none"
           ELSE IF promise[i].state \in {"pending", "building"} THEN "creating"
           ELSE IF promise[i].state = "ok" THEN "ready" ELSE "failed"
BY DEF SharedProgress

LEMMA TokenType ==
  ASSUME TypeInv, NEW i \in Ids, promise[i].state # "free"
  PROVE  TokenOf(i) \in Tokens /\ promise[i].home \in Containers \cup {None}
BY ConstantsAssumption DEF TokenOf, TypeInv, TypeOK, CreationInv, Promises

\* Where a cache keeps its promises of a token, the cell keeps its value.
LEMMA CellKept ==
  ASSUME TypeInv, TypeInv', OneCached, OneCached', NEW k \in Containers, NEW t \in Tokens,
         \A i \in Ids : i \in cache[k] /\ TokenOf(i) = t <=> i \in cache'[k] /\ TokenOf(i)' = t
  PROVE  SharedCell'[<<k, t>>] = SharedCell[<<k, t>>]
<1>1. cache[k] \subseteq Ids /\ cache'[k] \subseteq Ids
  BY DEF TypeInv, TypeOK
<1>2. CachedFor(k, t)' = CachedFor(k, t)
  BY <1>1 DEF CachedFor, TokenOf
<1>3. SharedCell[<<k, t>>] = CreationIn(k, t) /\ SharedCell'[<<k, t>>] = CreationIn(k, t)'
  BY DEF SharedCell
<1> QED
  BY <1>2, <1>3 DEF CreationIn

LEMMA SharedInit == Init => Shared!Init
<1> SUFFICES ASSUME Init PROVE Shared!Init
  OBVIOUS
<1>1. SharedCell = [q \in Containers \X Tokens |-> 0]
  <2>1. \A k \in Containers, t \in Tokens : CachedFor(k, t) = {}
    BY DEF CachedFor, Init
  <2>2. \A k \in Containers, t \in Tokens : CreationIn(k, t) = 0
    BY <2>1 DEF CreationIn
  <2> QED
    BY <2>2 DEF SharedCell
<1>2. SharedProgress = [i \in Ids |-> "none"]
  BY DEF SharedProgress, Init, FreePromise
<1> QED
  BY <1>1, <1>2 DEF Shared!Init

\* A step that leaves the caches and the settlement of every promise alone.
LEMMA SharedStutter ==
  ASSUME TypeInv, TypeInv', OneCached, OneCached', cache' = cache,
         \A k \in Containers : \A i \in cache[k] : promise'[i].prov = promise[i].prov,
         \A i \in Ids : SharedProgress'[i] = SharedProgress[i]
  PROVE  UNCHANGED Shared!vars
<1>1. \A k \in Containers : cache[k] \subseteq Ids
  BY DEF TypeInv, TypeOK
<1>2. ASSUME NEW k \in Containers, NEW t \in Tokens
      PROVE  SharedCell'[<<k, t>>] = SharedCell[<<k, t>>]
  <2>1. \A i \in Ids : i \in cache[k] /\ TokenOf(i) = t <=> i \in cache'[k] /\ TokenOf(i)' = t
    BY DEF TokenOf
  <2> QED
    BY <2>1, CellKept
<1>3. SharedCell' = SharedCell
  BY <1>2 DEF SharedCell
<1>4. SharedProgress' = SharedProgress
  BY DEF SharedProgress
<1> QED
  BY <1>3, <1>4 DEF Shared!vars

\* Emptying some cells: override(), or the end of a disposal.
LEMMA SharedDrop ==
  ASSUME TypeInv, TypeInv', OneCached, OneCached', promise' = promise,
         \A k \in Containers : cache'[k] \subseteq cache[k]
  PROVE  Shared!Drop
<1>1. SharedProgress' = SharedProgress
  BY DEF SharedProgress
<1>2. \A k \in Containers : cache'[k] \subseteq Ids
  BY DEF TypeInv, TypeOK
<1>3. ASSUME NEW k \in Containers, NEW t \in Tokens
      PROVE  /\ SharedCell'[<<k, t>>] \in {SharedCell[<<k, t>>], 0}
             /\ SharedCell'[<<k, t>>] \in Ids \cup {0}
  <2>1. PICK i : i = SharedCell'[<<k, t>>]
    OBVIOUS
  <2>2. i # 0 => i \in cache'[k] /\ provide[promise'[i].prov] = t
    BY <2>1, CellIsNext DEF CellsMatch, TokenOf
  <2>3. i # 0 => i \in cache[k] /\ TokenOf(i) = t /\ i \in Ids
    BY <1>2, <2>2 DEF TokenOf
  <2>4. i # 0 => SharedCell[<<k, t>>] = i
    BY <2>3, CellIs DEF CellsMatch
  <2> QED
    BY <2>1, <2>3, <2>4
<1>4. SharedCell' \in [Containers \X Tokens -> Ids \cup {0}]
  BY <1>3 DEF SharedCell
<1>5. \A q \in Containers \X Tokens : SharedCell'[q] \in {SharedCell[q], 0}
  BY <1>3
<1> QED
  BY <1>1, <1>4, <1>5 DEF Shared!Drop

\* The first to ask puts its creation into the empty cell.
LEMMA SharedBegin ==
  ASSUME TypeInv, TypeInv', CellInv, OneCached', NEW c \in Calls, NEW i \in Ids,
         StorePromise(c, i)
  PROVE  [Shared!Next]_Shared!vars
<1> DEFINE h == promise[i].home
           t == TokenOf(i)
<1>1. /\ IsNew(i) /\ promise'[i].state \in {"building", "pending"}
      /\ \A j \in Ids : promise'[j].prov = promise[j].prov /\ promise'[j].home = promise[j].home
      /\ \A j \in Ids : j # i => promise'[j] = promise[j]
      /\ \A k \in Containers :
           cache'[k] = IF k = h THEN cache[k] \cup {i} ELSE cache[k]
  BY StoreEffect DEF SameCreation
<1>2. t \in Tokens /\ h \in Containers \cup {None} /\ None \notin Containers
  BY <1>1, TokenType, ConstantsAssumption DEF IsNew
<1>3. \A k \in Containers : cache[k] \subseteq Ids /\ cache'[k] \subseteq Ids
  BY DEF TypeInv, TypeOK
<1>4. \A j \in Ids : j # i => SharedProgress'[j] = SharedProgress[j]
  BY <1>1, ProgressIs DEF SharedProgress
<1>5. CASE h = None
  <2>1. cache' = cache
    BY <1>5 DEF StorePromise
  <2>2. \A j \in Ids : SharedProgress'[j] = SharedProgress[j]
    BY <1>1, <1>4, <1>5 DEF SharedProgress
  <2>3. \A k \in Containers : \A j \in cache[k] : promise'[j].prov = promise[j].prov
    BY <1>1, <1>3
  <2> QED
    BY <2>1, <2>2, <2>3, SharedStutter DEF CellInv
<1>6. CASE h \in Containers
  <2>1. SharedProgress[i] = "none" /\ SharedProgress'[i] = "creating"
    BY <1>1, <1>2, <1>6 DEF SharedProgress, IsNew
  <2>2. SharedProgress' = [SharedProgress EXCEPT ![i] = "creating"]
    BY <1>4, <2>1 DEF SharedProgress
  <2>3. SharedCell[<<h, t>>] = 0
    <3>1. \A j \in cache[h] : TokenOf(j) # t
      BY <1>1, <1>6 DEF CellInv, BeginInv
    <3> QED
      BY <1>2, <1>6, <3>1, CellIs DEF CellInv, CellsMatch
  <2>4. SharedCell'[<<h, t>>] = i
    <3>1. i \in cache'[h] /\ TokenOf(i)' = t
      BY <1>1, <1>6 DEF TokenOf
    <3> QED
      BY <1>2, <1>6, <3>1, CellIsNext DEF CellsMatch
  <2>5. ASSUME NEW k \in Containers, NEW u \in Tokens, <<k, u>> # <<h, t>>
        PROVE  SharedCell'[<<k, u>>] = SharedCell[<<k, u>>]
    <3>1. ASSUME NEW j \in Ids
          PROVE  j \in cache[k] /\ TokenOf(j) = u <=> j \in cache'[k] /\ TokenOf(j)' = u
      <4>1. TokenOf(j)' = TokenOf(j)
        BY <1>1 DEF TokenOf
      <4>2. CASE j = i
        <5>1. TokenOf(j) = u => k # h
          BY <2>5, <4>2
        <5> QED
          BY <1>1, <4>1, <5>1
      <4>3. CASE j # i
        BY <1>1, <4>1, <4>3, ZenonT(60)
      <4> QED
        BY <4>2, <4>3
    <3> QED
      BY <3>1, CellKept DEF CellInv
  <2>6. SharedCell' = [SharedCell EXCEPT ![<<h, t>>] = i]
    <3>1. \A q \in Containers \X Tokens :
            SharedCell'[q] = IF q = <<h, t>> THEN i ELSE SharedCell[q]
      BY <2>4, <2>5
    <3> HIDE DEF h, t
    <3> QED
      BY <3>1 DEF SharedCell
  <2>7. Shared!Begin(<<h, t>>, i)
    BY <2>1, <2>2, <2>3, <2>6 DEF Shared!Begin
  <2>8. <<h, t>> \in Containers \X Tokens
    BY <1>2, <1>6
  <2> HIDE DEF h, t
  <2> QED
    BY <2>7, <2>8 DEF Shared!Next
<1> QED
  BY <1>2, <1>5, <1>6

\* A creation that ends settles its promise; a failure empties its cell.
LEMMA SharedReady ==
  ASSUME TypeInv, TypeInv', OneCached, OneCached', NEW i \in Ids,
         promise[i].state = "building",
         promise' = [promise EXCEPT ![i].state = "ok"], UNCHANGED cache
  PROVE  [Shared!Next]_Shared!vars
<1>1. /\ promise'[i].state = "ok"
      /\ \A j \in Ids : promise'[j].prov = promise[j].prov /\ promise'[j].home = promise[j].home
      /\ \A j \in Ids : j # i => promise'[j] = promise[j]
  BY ReadyEffect DEF SameCreation
<1>2. \A j \in Ids : j # i => SharedProgress'[j] = SharedProgress[j]
  BY <1>1 DEF SharedProgress
<1>3. \A k \in Containers : \A j \in cache[k] : promise'[j].prov = promise[j].prov
  BY <1>1 DEF TypeInv, TypeOK
<1>4. CASE promise[i].home = None
  <2>1. \A j \in Ids : SharedProgress'[j] = SharedProgress[j]
    BY <1>1, <1>2, <1>4 DEF SharedProgress
  <2> QED
    BY <1>3, <2>1, SharedStutter
<1>5. CASE promise[i].home # None
  <2>1. SharedProgress[i] = "creating" /\ SharedProgress'[i] = "ready"
    BY <1>1, <1>5 DEF SharedProgress
  <2>2. SharedProgress' = [SharedProgress EXCEPT ![i] = "ready"]
    BY <1>2, <2>1 DEF SharedProgress
  <2>3. SharedCell' = SharedCell
    <3>1. ASSUME NEW k \in Containers, NEW t \in Tokens
          PROVE  SharedCell'[<<k, t>>] = SharedCell[<<k, t>>]
      <4>1. \A j \in Ids : j \in cache[k] /\ TokenOf(j) = t <=> j \in cache'[k] /\ TokenOf(j)' = t
        BY <1>1 DEF TokenOf
      <4> QED
        BY <4>1, CellKept
    <3> QED
      BY <3>1 DEF SharedCell
  <2> QED
    BY <2>1, <2>2, <2>3 DEF Shared!Next, Shared!Ready
<1> QED
  BY <1>4, <1>5

LEMMA SharedFail ==
  ASSUME TypeInv, TypeInv', HomeInv, OneCached, OneCached', NEW i \in Ids, NEW f \in Failures,
         promise[i].state \in {"pending", "building"}, Fails(i, f)
  PROVE  [Shared!Next]_Shared!vars
<1> DEFINE h == promise[i].home
           t == TokenOf(i)
<1>1. /\ promise'[i].state = f
      /\ \A j \in Ids : promise'[j].prov = promise[j].prov /\ promise'[j].home = promise[j].home
      /\ \A j \in Ids : j # i => promise'[j].state = promise[j].state
  BY FailsEffect DEF SameCreation
<1>2. \A j \in Ids : j # i => SharedProgress'[j] = SharedProgress[j]
  BY <1>1 DEF SharedProgress
<1>3. t \in Tokens /\ h \in Containers \cup {None} /\ None \notin Containers
  BY TokenType, ConstantsAssumption
<1>4. \A k \in Containers : cache[k] \subseteq Ids
  BY DEF TypeInv, TypeOK
<1>5. CASE h = None
  <2>1. cache' = cache
    BY <1>5 DEF Fails, Evict
  <2>2. \A j \in Ids : SharedProgress'[j] = SharedProgress[j]
    BY <1>1, <1>2, <1>5 DEF SharedProgress
  <2>3. \A k \in Containers : \A j \in cache[k] : promise'[j].prov = promise[j].prov
    BY <1>1, <1>4
  <2> QED
    BY <2>1, <2>2, <2>3, SharedStutter
<1>6. CASE h \in Containers
  <2>1. SharedProgress[i] = "creating" /\ SharedProgress'[i] = "failed"
    BY <1>1, <1>3, <1>6 DEF SharedProgress, Failures
  <2>2. SharedProgress' = [SharedProgress EXCEPT ![i] = "failed"]
    BY <1>2, <2>1 DEF SharedProgress
  <2>3. cache' = [cache EXCEPT ![h] = @ \ CachedFor(h, t)]
    BY <1>3, <1>6 DEF Fails, Evict, TokenOf
  <2>4. \A k \in Containers : \A j \in Ids :
          j \in cache'[k] <=> j \in cache[k] /\ ~(k = h /\ TokenOf(j) = t)
    BY <1>6, <2>3 DEF CachedFor, TokenOf, TypeInv, TypeOK
  <2>5. \A j \in Ids : TokenOf(j)' = TokenOf(j)
    BY <1>1 DEF TokenOf
  <2>6. ASSUME NEW k \in Containers, NEW u \in Tokens, <<k, u>> # <<h, t>>
        PROVE  SharedCell'[<<k, u>>] = SharedCell[<<k, u>>]
    <3>1. ASSUME NEW j \in Ids
          PROVE  j \in cache[k] /\ TokenOf(j) = u <=> j \in cache'[k] /\ TokenOf(j)' = u
      <4>1. TokenOf(j) = u => ~(k = h /\ TokenOf(j) = t)
        BY <2>6
      <4> QED
        BY <2>4, <2>5, <4>1
    <3> QED
      BY <3>1, CellKept
  <2>7. SharedCell'[<<h, t>>] = 0
    <3>1. PICK j : j = SharedCell'[<<h, t>>]
      OBVIOUS
    <3>2. j # 0 => j \in cache'[h] /\ provide[promise'[j].prov] = t
      BY <1>3, <1>6, <3>1, CellIsNext DEF CellsMatch, TokenOf
    <3>3. cache'[h] \subseteq Ids
      BY <1>6 DEF TypeInv, TypeOK
    <3>4. j # 0 => j \in Ids /\ TokenOf(j) = t
      BY <1>1, <3>2, <3>3 DEF TokenOf
    <3> QED
      BY <1>6, <2>4, <3>1, <3>2, <3>4
  <2>8. SharedCell' = [SharedCell EXCEPT ![<<h, t>>] = 0]
    <3>1. \A q \in Containers \X Tokens :
            SharedCell'[q] = IF q = <<h, t>> THEN 0 ELSE SharedCell[q]
      BY <2>6, <2>7
    <3> HIDE DEF h, t
    <3> QED
      BY <3>1 DEF SharedCell
  <2>9. \A r \in Containers \X Tokens : SharedCell[r] = i => r = <<h, t>>
    <3> SUFFICES ASSUME NEW k \in Containers, NEW u \in Tokens, SharedCell[<<k, u>>] = i
                 PROVE  k = h /\ u = t
      OBVIOUS
    <3>1. i # 0
      BY DEF Ids
    <3>2. i \in cache[k] /\ TokenOf(i) = u
      BY <3>1, CellIs DEF CellsMatch
    <3> QED
      BY <3>2 DEF HomeInv
  <2>10. <<h, t>> \in Containers \X Tokens
    BY <1>3, <1>6
  <2> HIDE DEF h, t
  <2>11. Shared!Fail(i)
    BY <2>1, <2>2, <2>8, <2>9, <2>10 DEF Shared!Fail
  <2> QED
    BY <2>11 DEF Shared!Next
<1> QED
  BY <1>3, <1>5, <1>6

LEMMA SharedCallStep ==
  ASSUME CacheInv, CacheInv', NEW c \in Calls, CallStep(c)
  PROVE  [Shared!Next]_Shared!vars
<1> USE DEF CacheInv, CellInv, DestroyInv
<1>1. CASE UNCHANGED <<promise, cache>>
  BY <1>1, SharedStutter DEF SharedProgress
<1>2. ASSUME NEW i \in Ids, Instantiate(c, i) PROVE [Shared!Next]_Shared!vars
  <2>1. /\ promise[i].state = "free" /\ promise'[i].state = "new" /\ cache' = cache
        /\ \A j \in Ids : j # i => promise'[j] = promise[j]
    BY <1>2, InstantiateEffect
  <2>2. \A k \in Containers : \A j \in cache[k] : j \in Ids /\ j # i
    BY <2>1 DEF TypeInv, TypeOK, HomeInv, Stored
  <2>3. \A k \in Containers : \A j \in cache[k] : promise'[j].prov = promise[j].prov
    BY <2>1, <2>2
  <2>4. \A j \in Ids : SharedProgress'[j] = SharedProgress[j]
    BY <2>1 DEF SharedProgress
  <2> QED
    BY <2>1, <2>3, <2>4, SharedStutter
<1>3. ASSUME NEW i \in Ids, StorePromise(c, i) PROVE [Shared!Next]_Shared!vars
  BY <1>3, SharedBegin
<1>4. ASSUME NEW i \in Ids, ResumeWithDependency(c, i) PROVE [Shared!Next]_Shared!vars
  <2>1. /\ running = None /\ Innermost(i, Frames(c)) /\ cache' = cache
        /\ SameCreation(promise[i], promise'[i])
        /\ promise'[i].state \in {promise[i].state, "building"}
        /\ \A j \in Ids : j # i => promise'[j] = promise[j]
    BY <1>4, FedEffect
  <2>2. promise[i].state \in {"pending", "building"}
    BY <2>1, FrameStored DEF Innermost
  <2>3. \A j \in Ids : promise'[j].prov = promise[j].prov /\ promise'[j].home = promise[j].home
    BY <2>1 DEF SameCreation
  <2>4. \A j \in Ids : SharedProgress'[j] = SharedProgress[j]
    BY <2>1, <2>2, <2>3 DEF SharedProgress
  <2>5. \A k \in Containers : \A j \in cache[k] : promise'[j].prov = promise[j].prov
    BY <2>3 DEF TypeInv, TypeOK
  <2> QED
    BY <2>1, <2>4, <2>5, SharedStutter
<1>5. ASSUME NEW i \in Ids, ResumeWithFault(c, i) PROVE [Shared!Next]_Shared!vars
  <2>1. Fails(i, WaitedFault(c)) /\ WaitedFault(c) \in Failures /\ running = None
    BY <1>5, FaultType DEF ResumeWithFault, WaitedSettled
  <2>2. promise[i].state \in {"pending", "building"}
    BY <1>5, <2>1, FrameStored DEF ResumeWithFault, Innermost
  <2> QED
    BY <2>1, <2>2, SharedFail
<1> QED
  BY <1>1, <1>2, <1>3, <1>4, <1>5
  DEF CallStep, Lookups, Unwinding, Resumption, ThrowCircular, ThrowMissing,
      ThrowOutsideRequest, FollowAlias, ShareCached, Suspend, Return

LEMMA SharedStep == CacheInv /\ CacheInv' /\ [Next]_vars => [Shared!Next]_Shared!vars
<1> SUFFICES ASSUME CacheInv, CacheInv', [Next]_vars PROVE [Shared!Next]_Shared!vars
  OBVIOUS
<1> USE DEF CacheInv, CellInv, DestroyInv
<1>1. CASE UNCHANGED <<promise, cache>>
  BY <1>1, SharedStutter DEF SharedProgress
<1>2. ASSUME promise' = promise, \A h \in Containers : cache'[h] \subseteq cache[h]
      PROVE  [Shared!Next]_Shared!vars
  BY <1>2, SharedDrop DEF Shared!Next
<1>3. CASE Configure
  <2>1. ASSUME NEW k \in Containers, NEW p \in Providers, Override(k, p)
        PROVE  [Shared!Next]_Shared!vars
    BY <1>2, <2>1 DEF Override
  <2> QED
    BY <1>1, <1>3, <2>1, PairsConfigured DEF Configure, Register, CreateRequestScope
<1>4. ASSUME NEW a \in Asks, Resolve(a[1], a[2], a[3]) PROVE [Shared!Next]_Shared!vars
  BY <1>1, <1>4 DEF Resolve
<1>5. ASSUME NEW c \in Calls, CallStep(c) PROVE [Shared!Next]_Shared!vars
  BY <1>5, SharedCallStep
<1>6. ASSUME NEW i \in Ids, FactorySettles(i) PROVE [Shared!Next]_Shared!vars
  BY <1>6, SharedReady, SharedFail DEF FactorySettles, Failures
<1>7. ASSUME NEW k \in Containers, NEW i \in Ids, StaleDisposal(k, i)
      PROVE  [Shared!Next]_Shared!vars
  BY <1>1, <1>7 DEF StaleDisposal
<1>8. ASSUME NEW k \in Containers, Dispose(k) \/ DisposalStep(k)
      PROVE  [Shared!Next]_Shared!vars
  <2>1. CASE FinishDisposal(k)
    BY <1>2, <2>1 DEF FinishDisposal, ClearDisposalCaches, TypeInv, TypeOK
  <2> QED
    BY <1>1, <1>8, <2>1 DEF Dispose, DisposalStep, StaleTasksDone, CollectInstances, DestroyNext
<1>9. CASE ChildrenDisposed
  BY <1>1, <1>9 DEF ChildrenDisposed
<1>10. CASE UNCHANGED vars
  BY <1>1, <1>10 DEF vars
<1> QED
  BY <1>3, <1>4, <1>5, <1>6, <1>7, <1>8, <1>9, <1>10 DEF Next

\* The caches implement one cell per cache and token: whoever asks while a
\* creation is there gets that creation, and it leaves the cell for no other
\* reason than a failure, an override or a disposal.
THEOREM CachesShareCreations == Spec => SharesCreations
<1>1. Init => Shared!Init
  BY SharedInit
<1>2. CacheInv /\ CacheInv' /\ [Next]_vars => [Shared!Next]_Shared!vars
  BY SharedStep
<1> QED
  BY <1>1, <1>2, CacheCorrect, PTL DEF Spec, SharesCreations, Shared!Spec

---------------------------------------------------------------------------
(* Request scopes are isolated.  What is injected is decided long before   *)
(* it arrives: a call looks a token up in one container, awaits, is        *)
(* resumed when other calls have run, and hands the instance to the frame  *)
(* that is innermost by then.  StackInv follows the frames of a call       *)
(* through this: each frame fits the one that called it, and what the call *)
(* waits for fits the innermost.                                           *)

\* Creation d may be injected into creation i.
Fits(d, i) ==
  /\ promise[d].home \in {promise[i].within, Root, None}
  /\ promise[d].home = None => promise[d].within = promise[i].within
  /\ promise[d].state # "free"

\* Frame i is the one that called frame j.
CalledBy(j, i, S) == i \in S /\ j \in S /\ i < j /\ \A m \in S : m <= i \/ m >= j

PlaceInv ==
  \A i \in Ids :
    /\ promise[i].state = "free" => promise[i].deps = {}
    /\ promise[i].state # "free" =>
         /\ promise[i].home # None => promise[i].within = promise[i].home
         /\ promise[i].owner \in Calls /\ call[promise[i].owner].mode # "idle"
         /\ \A d \in promise[i].deps : Fits(d, i)

\* Identifiers are handed out in order.
OrderInv == \A i, j \in Ids : i < j /\ promise[i].state = "free" => promise[j].state = "free"

Waiting(c) == call[c].mode \in {"suspend", "await"}

StackAt(c) ==
  /\ \A i, j \in Ids : CalledBy(j, i, Frames(c)) => Fits(j, i)
  /\ \A i \in Ids : Innermost(i, Frames(c)) =>
       /\ call[c].mode = "resolve" => call[c].in = promise[i].within
       /\ Waiting(c) /\ call[c].waits \in Ids
            => call[c].waits = i \/ (call[c].waits \notin Frames(c) /\ Fits(call[c].waits, i))
  /\ Waiting(c) /\ call[c].waits \in Frames(c) => Innermost(call[c].waits, Frames(c))
  /\ \A i \in Ids : promise[i].owner = c /\ promise[i].state = "building" =>
       Waiting(c) /\ call[c].waits = i
  /\ call[c].mode = "done" => Frames(c) = {}

StackInv == \A c \in Calls : StackAt(c)

IsolationInv == PlaceInv /\ OrderInv /\ StackInv

LEMMA IsolationInit == Init => IsolationInv
<1> SUFFICES ASSUME Init PROVE IsolationInv
  OBVIOUS
<1>1. \A i \in Ids :
        promise[i].state = "free" /\ promise[i].owner = None /\ promise[i].deps = {}
  BY DEF Init, FreePromise
<1>2. \A c \in Calls : Frames(c) = {}
  BY <1>1, ConstantsAssumption DEF Frames
<1>3. StackInv
  BY <1>1, <1>2 DEF StackInv, StackAt, CalledBy, Innermost, Init, IdleCall
<1> QED
  BY <1>1, <1>3 DEF IsolationInv, PlaceInv, OrderInv

LEMMA FrameIs ==
  ASSUME TypeInv, NEW c \in Calls, NEW i
  PROVE  i \in Frames(c) <=>
           /\ i \in Ids /\ promise[i].owner = c
           /\ promise[i].state \in {"new", "pending", "building"}
BY ConstantsAssumption DEF Frames, Settled, Unsettled, TypeInv, CreationInv

\* Steps that leave every creation begun where it is.
Rooted ==
  \A j \in Ids : promise[j].state # "free" =>
    /\ promise'[j].state # "free" /\ promise'[j].home = promise[j].home
    /\ promise'[j].within = promise[j].within /\ promise'[j].owner = promise[j].owner

LEMMA FitsKept ==
  ASSUME TypeInv, Rooted, NEW i \in Ids, promise[i].state # "free", NEW d \in Ids, Fits(d, i)
  PROVE  Fits(d, i)'
BY DEF Rooted, Fits

\* A call that does not take part keeps its stack.
LEMMA StackKept ==
  ASSUME TypeInv, TypeInv', Rooted, NEW c \in Calls, StackAt(c), call'[c] = call[c],
         \A j \in Ids : promise'[j].owner = c /\ promise'[j].state \in Unsettled
            => promise'[j].state = promise[j].state /\ promise[j].owner = c,
         \A j \in Ids : promise[j].owner = c /\ promise[j].state \in Unsettled
            => promise'[j].state = promise[j].state
  PROVE  StackAt(c)'
<1>1. Frames(c)' = Frames(c)
  BY DEF Frames, Settled, Rooted, TypeInv, CreationInv
<1>2. \A i \in Frames(c) : i \in Ids /\ promise[i].state # "free"
  BY FrameIs
<1>3. \A i, j \in Ids : CalledBy(j, i, Frames(c)) => Fits(j, i)'
  BY <1>2, FitsKept DEF StackAt, CalledBy
<1>4. \A i \in Ids : Innermost(i, Frames(c)) =>
        /\ call'[c].mode = "resolve" => call'[c].in = promise'[i].within
        /\ Waiting(c) /\ call[c].waits \in Ids
             => call[c].waits = i \/ (call[c].waits \notin Frames(c) /\ Fits(call[c].waits, i)')
  BY <1>2, FitsKept DEF StackAt, Innermost, Rooted
<1>5. \A i \in Ids : promise'[i].owner = c /\ promise'[i].state = "building" =>
        Waiting(c) /\ call[c].waits = i
  BY DEF StackAt, Unsettled
<1> QED
  BY <1>1, <1>3, <1>4, <1>5 DEF StackAt, Waiting

\* A step that begins no creation and injects nothing.
LEMMA PlaceKept ==
  ASSUME TypeInv, TypeInv', Rooted, PlaceInv, OrderInv,
         \A c \in Calls : call[c].mode # "idle" => call'[c].mode # "idle",
         \A j \in Ids : promise[j].state = "free" => promise'[j].state = "free",
         \A j \in Ids : promise'[j].deps = promise[j].deps
  PROVE  PlaceInv' /\ OrderInv'
<1>1. OrderInv'
  BY DEF OrderInv, Rooted
<1>2. ASSUME NEW i \in Ids, promise'[i].state # "free"
      PROVE  /\ promise'[i].home # None => promise'[i].within = promise'[i].home
             /\ promise'[i].owner \in Calls /\ call'[promise'[i].owner].mode # "idle"
             /\ \A d \in promise'[i].deps : Fits(d, i)'
  <2>1. promise[i].state # "free"
    BY <1>2
  <2>2. promise[i].deps \subseteq Ids
    BY DEF TypeInv, TypeOK, Promises
  <2>3. \A d \in promise[i].deps : Fits(d, i)'
    BY <2>1, <2>2, FitsKept DEF PlaceInv
  <2> QED
    BY <2>1, <2>3 DEF PlaceInv, Rooted
<1>3. \A i \in Ids : promise'[i].state = "free" => promise'[i].deps = {}
  BY DEF PlaceInv, Rooted
<1>4. PlaceInv'
  BY <1>2, <1>3 DEF PlaceInv
<1> QED
  BY <1>1, <1>4

LEMMA AwaitFields ==
  ASSUME TypeInv, NEW c \in Calls, NEW i, NEW f, AwaitNext(c, i, f)
  PROVE  /\ call'[c].mode = "suspend" /\ call'[c].waits = i
         /\ \A d \in Calls : d # c => call'[d] = call[d]
BY DEF AwaitNext, TypeInv, TypeOK, CallRecords

\* A lookup that leaves the promises alone: the call goes on or awaits i.
LEMMA LookupStack ==
  ASSUME TypeInv, TypeInv', IsolationInv, NEW c \in Calls, Looking(c), promise' = promise,
         \A d \in Calls : d # c => call'[d] = call[d],
         \/ call'[c].mode = "resolve" /\ call'[c].in = call[c].in
         \/ /\ call'[c].mode = "suspend"
            /\ call'[c].waits \in Ids =>
                 /\ call'[c].waits \notin Frames(c)
                 /\ \A m \in Ids : Innermost(m, Frames(c)) => Fits(call'[c].waits, m)
  PROVE  IsolationInv'
<1>1. Rooted
  BY DEF Rooted
<1>2. call[c].mode = "resolve"
  BY DEF Looking
<1>3. PlaceInv' /\ OrderInv'
  BY <1>1, <1>2, PlaceKept DEF IsolationInv
<1>4. ASSUME NEW d \in Calls, d # c PROVE StackAt(d)'
  BY <1>1, <1>4, StackKept DEF IsolationInv, StackInv
<1>5. StackAt(c)'
  <2>1. Frames(c)' = Frames(c)
    BY DEF Frames, Settled
  <2>2. StackAt(c) /\ ~Waiting(c)
    BY <1>2 DEF IsolationInv, StackInv, Waiting
  <2>3. \A i, j \in Ids : CalledBy(j, i, Frames(c)) => Fits(j, i)'
    BY <2>2 DEF StackAt, Fits
  <2>4. \A i \in Ids : ~(promise[i].owner = c /\ promise[i].state = "building")
    BY <2>2 DEF StackAt
  <2>5. \A i \in Ids : Innermost(i, Frames(c)) => call[c].in = promise[i].within
    BY <1>2, <2>2 DEF StackAt
  <2>6. ASSUME NEW i \in Ids, Innermost(i, Frames(c))
        PROVE  /\ call'[c].mode = "resolve" => call'[c].in = promise'[i].within
               /\ Waiting(c)' /\ call'[c].waits \in Ids
                    => call'[c].waits \notin Frames(c) /\ Fits(call[c].waits, i)'
    <3>1. Fits(call'[c].waits, i) => Fits(call[c].waits, i)'
      BY DEF Fits
    <3> QED
      BY <2>5, <2>6, <3>1 DEF Waiting
  <2>7. Waiting(c)' => call'[c].waits \notin Frames(c)
    <3>1. Frames(c) \subseteq Ids
      BY DEF Frames
    <3> QED
      BY <3>1 DEF Waiting
  <2>8. call'[c].mode # "done"
    OBVIOUS
  <2> QED
    BY <2>1, <2>3, <2>4, <2>6, <2>7, <2>8 DEF StackAt
<1> QED
  BY <1>3, <1>4, <1>5 DEF IsolationInv, StackInv

\* A cached promise fits the frame that asks for it.
LEMMA HitFits ==
  ASSUME CacheInv, NEW c \in Calls, Looking(c), ~Circular(c), Cacheable(c),
         NEW i \in Hits(c), StackAt(c)
  PROVE  /\ i \in Ids /\ i \notin Frames(c)
         /\ \A m \in Ids : Innermost(m, Frames(c)) => Fits(i, m)
<1>1. /\ call[c].in \in Containers /\ Found(c) \in Providers
      /\ Home(call[c].in, Found(c)) \in Containers
  BY LookingType, HomeType DEF Cacheable, CacheInv
<1> DEFINE h == Home(call[c].in, Found(c))
<1>2. i \in cache[h] /\ TokenOf(i) = call[c].want /\ i \in Ids
  BY <1>1 DEF Hits, CachedFor, TokenOf, CacheInv, TypeInv, TypeOK
<1>3. promise[i].home = h /\ Stored(i) /\ h # None
  BY <1>1, <1>2, ConstantsAssumption DEF CacheInv, DestroyInv, HomeInv
<1>4. i \notin Frames(c)
  <2> SUFFICES ASSUME i \in Frames(c) PROVE FALSE
    OBVIOUS
  <2>1. TokenOf(i) \in promise[i].toks
    BY <1>2, <1>3 DEF CacheInv, CellInv, FrameInv, Stored
  <2> QED
    BY <1>2, <2>1 DEF Circular, ActiveTokens
<1>5. h \in {call[c].in, Root}
  BY DEF Home
<1>6. ASSUME NEW m \in Ids, Innermost(m, Frames(c)) PROVE Fits(i, m)
  <2>1. call[c].in = promise[m].within
    BY <1>6 DEF StackAt, Looking
  <2> QED
    BY <1>3, <1>5, <2>1 DEF Fits, Stored
<1> QED
  BY <1>2, <1>4, <1>6

LEMMA LookupIsolation ==
  ASSUME CacheInv, CacheInv', IsolationInv, NEW c \in Calls, Looking(c),
         ThrowCircular(c) \/ ThrowMissing(c) \/ ThrowOutsideRequest(c)
         \/ FollowAlias(c) \/ ShareCached(c)
  PROVE  IsolationInv'
<1> USE DEF CacheInv
<1>0. 0 \notin Ids
  BY DEF Ids
<1>1. CASE ThrowCircular(c) \/ ThrowMissing(c) \/ ThrowOutsideRequest(c)
  <2>1. promise' = promise /\ \E f : AwaitNext(c, 0, f)
    BY <1>1 DEF ThrowCircular, ThrowMissing, ThrowOutsideRequest
  <2>2. /\ call'[c].mode = "suspend" /\ call'[c].waits = 0
        /\ \A d \in Calls : d # c => call'[d] = call[d]
    BY <2>1, AwaitFields
  <2> QED
    BY <1>0, <2>1, <2>2, LookupStack
<1>2. CASE FollowAlias(c)
  <2>1. /\ promise' = promise /\ call'[c].mode = "resolve" /\ call'[c].in = call[c].in
        /\ \A d \in Calls : d # c => call'[d] = call[d]
    BY <1>2 DEF FollowAlias, Looking, TypeInv, TypeOK, CallRecords
  <2> QED
    BY <2>1, LookupStack
<1>3. CASE ShareCached(c)
  <2>1. PICK i \in Hits(c) : AwaitNext(c, i, "none")
    BY <1>3 DEF ShareCached
  <2>2. promise' = promise /\ ~Circular(c) /\ Cacheable(c) /\ StackAt(c)
    BY <1>3 DEF ShareCached, IsolationInv, StackInv
  <2>3. /\ call'[c].mode = "suspend" /\ call'[c].waits = i
        /\ \A d \in Calls : d # c => call'[d] = call[d]
    BY <2>1, AwaitFields
  <2>4. i \notin Frames(c) /\ \A m \in Ids : Innermost(m, Frames(c)) => Fits(i, m)
    BY <2>2, HitFits
  <2> QED
    BY <2>2, <2>3, <2>4, LookupStack
<1> QED
  BY <1>1, <1>2, <1>3

\* A new creation is the innermost frame and fits the one that called it.
LEMMA InstantiateFields ==
  ASSUME TypeInv, NEW c \in Calls, NEW i \in Ids, Instantiate(c, i)
  PROVE  /\ \A d \in Calls : d # c => call'[d] = call[d]
         /\ \/ call'[c].mode = "suspend" /\ call'[c].waits \in {0, i}
            \/ call'[c].mode = "resolve" /\ call'[c].in = Within(call[c].in, Found(c))
<1>1. \/ AwaitNext(c, 0, "scope-mismatch") \/ AwaitNext(c, i, "none")
      \/ call' = [call EXCEPT ![c] =
           [@ EXCEPT !.want = inject[Found(c)][1], !.in = Within(call[c].in, Found(c)), !.via = {}]]
  BY DEF Instantiate
<1>2. CASE AwaitNext(c, 0, "scope-mismatch") \/ AwaitNext(c, i, "none")
  BY <1>2, AwaitFields
<1>3. CASE call' = [call EXCEPT ![c] =
           [@ EXCEPT !.want = inject[Found(c)][1], !.in = Within(call[c].in, Found(c)), !.via = {}]]
  BY <1>3 DEF Instantiate, Looking, TypeInv, TypeOK, CallRecords
<1> QED
  BY <1>1, <1>2, <1>3

LEMMA InstantiateIsolation ==
  ASSUME CacheInv, CacheInv', IsolationInv, NEW c \in Calls, NEW i \in Ids, Instantiate(c, i)
  PROVE  IsolationInv'
<1> USE DEF CacheInv
<1>1. /\ promise[i].state = "free" /\ promise[i].owner = None
      /\ promise'[i].state = "new" /\ promise'[i].owner = c /\ promise'[i].deps = {}
      /\ promise'[i].home = IF scope[Found(c)] = "transient" THEN None
                            ELSE Home(call[c].in, Found(c))
      /\ promise'[i].within = Within(call[c].in, Found(c))
      /\ \A j \in Ids : j # i => promise'[j] = promise[j]
  BY InstantiateEffect DEF TypeInv, CreationInv
<1>2. /\ \A d \in Calls : d # c => call'[d] = call[d]
      /\ \/ call'[c].mode = "suspend" /\ call'[c].waits \in {0, i}
         \/ call'[c].mode = "resolve" /\ call'[c].in = Within(call[c].in, Found(c))
  BY InstantiateFields
<1>3. call[c].mode = "resolve" /\ c # None
  BY ConstantsAssumption DEF Instantiate, Looking
<1>4. Rooted
  BY <1>1 DEF Rooted
<1>5. \A j \in Ids : j < i => promise[j].state # "free"
  BY DEF Instantiate, NextFree
<1>6. \A j \in Ids : promise[j].state # "free" => j < i
  BY <1>1 DEF IsolationInv, OrderInv, Ids
<1>7. OrderInv'
  <2> SUFFICES ASSUME NEW m \in Ids, NEW j \in Ids, m < j, promise'[m].state = "free"
               PROVE  promise'[j].state = "free"
    BY DEF OrderInv
  <2>1. m # i /\ promise[m].state = "free" /\ promise[j].state = "free"
    BY <1>1 DEF IsolationInv, OrderInv
  <2>2. j # i
    BY <1>5, <2>1
  <2> QED
    BY <1>1, <2>1, <2>2
<1>8. PlaceInv'
  <2>0. \A j \in Ids : promise'[j].state = "free" => promise'[j].deps = {}
    BY <1>1 DEF IsolationInv, PlaceInv
  <2> SUFFICES ASSUME NEW j \in Ids, promise'[j].state # "free"
               PROVE  /\ promise'[j].home # None => promise'[j].within = promise'[j].home
                      /\ promise'[j].owner \in Calls /\ call'[promise'[j].owner].mode # "idle"
                      /\ \A d \in promise'[j].deps : Fits(d, j)'
    BY <2>0 DEF PlaceInv
  <2>1. CASE j = i
    BY <1>1, <1>2, <2>1 DEF Within
  <2>2. CASE j # i
    <3>1. promise'[j] = promise[j] /\ promise[j].state # "free" /\ promise[j].deps \subseteq Ids
      BY <1>1, <2>2 DEF TypeInv, TypeOK, Promises
    <3>2. \A d \in promise[j].deps : Fits(d, j)'
      BY <1>4, <3>1, FitsKept DEF IsolationInv, PlaceInv
    <3>3. call'[promise[j].owner].mode # "idle"
      BY <1>2, <3>1 DEF IsolationInv, PlaceInv
    <3> QED
      BY <3>1, <3>2, <3>3 DEF IsolationInv, PlaceInv
  <2> QED
    BY <2>1, <2>2
<1>9. ASSUME NEW d \in Calls, d # c PROVE StackAt(d)'
  <2>1. StackAt(d) /\ call'[d] = call[d]
    BY <1>2, <1>9 DEF IsolationInv, StackInv
  <2>2. d # None
    BY ConstantsAssumption
  <2>3. /\ \A j \in Ids : promise'[j].owner = d => j # i
        /\ \A j \in Ids : promise[j].owner = d => j # i
    BY <1>1, <1>9, <2>2
  <2> QED
    BY <1>1, <1>4, <2>1, <2>3, StackKept
<1>10. StackAt(c)'
  <2>1. StackAt(c)
    BY DEF IsolationInv, StackInv
  <2>2. \A j : j \in Frames(c)' <=> j \in Frames(c) \/ j = i
    BY <1>1 DEF Frames, Settled, Unsettled
  <2>3. \A j \in Frames(c) : j \in Ids /\ j < i /\ j # i /\ promise[j].state # "free"
    BY <1>1, <1>6, FrameIs
  <2>4. \A m \in Ids : Innermost(m, Frames(c)') => m = i
    BY <2>2, <2>3 DEF Innermost, Ids
  <2>5. ASSUME NEW m \in Ids, CalledBy(i, m, Frames(c)') PROVE Fits(i, m)'
    <3>1. m \in Frames(c) /\ m # i
      BY <2>2, <2>5 DEF CalledBy, Ids
    <3>2. Innermost(m, Frames(c))
      BY <2>2, <2>3, <2>5, <3>1 DEF CalledBy, Innermost, Ids
    <3>3. call[c].in = promise[m].within
      BY <1>3, <2>1, <3>2 DEF StackAt
    <3>4. promise'[m].within = call[c].in
      BY <1>1, <3>1, <3>3
    <3>5. Found(c) \in Providers /\ Home(call[c].in, Found(c)) # None
      BY LookingType, HomeType, ConstantsAssumption DEF Instantiate
    <3> QED
      BY <1>1, <3>4, <3>5 DEF Fits, Home, Within
  <2>6. ASSUME NEW m \in Ids, NEW j \in Ids, CalledBy(j, m, Frames(c)') PROVE Fits(j, m)'
    <3>1. CASE j = i
      BY <2>5, <2>6, <3>1
    <3>2. CASE j # i
      <4>1. j \in Frames(c) /\ m # i
        BY <2>2, <2>3, <2>6, <3>2 DEF CalledBy, Ids
      <4>2. CalledBy(j, m, Frames(c))
        BY <2>2, <2>6, <4>1 DEF CalledBy
      <4> QED
        BY <1>4, <2>1, <2>3, <4>2, FitsKept DEF StackAt, CalledBy
    <3> QED
      BY <3>1, <3>2
  <2>7. 0 \notin Ids /\ Innermost(i, Frames(c)')
    BY <2>2, <2>3 DEF Innermost, Ids
  <2>8. \A j \in Ids : ~(promise'[j].owner = c /\ promise'[j].state = "building")
    BY <1>1, <1>3, <2>1 DEF StackAt, Waiting
  <2>9. /\ call'[c].mode = "resolve" => call'[c].in = promise'[i].within
        /\ Waiting(c)' => call'[c].waits \in {0, i}
        /\ call'[c].mode # "done"
    BY <1>1, <1>2 DEF Waiting
  <2>10. \A m \in Ids : Innermost(m, Frames(c)') =>
           /\ call'[c].mode = "resolve" => call'[c].in = promise'[m].within
           /\ Waiting(c)' /\ call'[c].waits \in Ids => call'[c].waits = m
    BY <2>4, <2>7, <2>9
  <2>11. Waiting(c)' /\ call'[c].waits \in Frames(c)' => Innermost(call'[c].waits, Frames(c)')
    <3>1. 0 \notin Frames(c)'
      BY <2>7 DEF Frames
    <3> QED
      BY <2>7, <2>9, <3>1
  <2> QED
    BY <2>6, <2>8, <2>9, <2>10, <2>11 DEF StackAt
<1> QED
  BY <1>7, <1>8, <1>9, <1>10 DEF IsolationInv, StackInv

\* The call waits for the innermost frame from its first await on, and for no
\* other of its frames.
LEMMA StoreIsolation ==
  ASSUME CacheInv, CacheInv', IsolationInv, NEW c \in Calls, NEW i \in Ids, StorePromise(c, i)
  PROVE  IsolationInv'
<1> USE DEF CacheInv
<1>1. /\ promise[i].owner = c /\ promise[i].state = "new" /\ Waiting(c)
      /\ promise'[i].state = IF call[c].waits = i THEN "building" ELSE "pending"
      /\ SameCreation(promise[i], promise'[i]) /\ promise'[i].deps = promise[i].deps
      /\ \A j \in Ids : j # i => promise'[j] = promise[j]
      /\ call' = call
  BY StoreEffect DEF IsNew, Waiting
<1>2. Rooted
  BY <1>1 DEF Rooted, SameCreation
<1>3. PlaceInv' /\ OrderInv'
  <2>1. /\ \A j \in Ids : promise[j].state = "free" => promise'[j].state = "free"
        /\ \A j \in Ids : promise'[j].deps = promise[j].deps
    BY <1>1
  <2> QED
    BY <1>1, <1>2, <2>1, PlaceKept DEF IsolationInv
<1>4. ASSUME NEW d \in Calls, d # c PROVE StackAt(d)'
  <2>1. \A j \in Ids : promise[j].owner = d \/ promise'[j].owner = d => j # i
    BY <1>1, <1>4 DEF SameCreation
  <2>2. StackAt(d) /\ call'[d] = call[d]
    BY <1>1 DEF IsolationInv, StackInv
  <2>3. \A j \in Ids : promise'[j].owner = d /\ promise'[j].state \in Unsettled
          => promise'[j].state = promise[j].state /\ promise[j].owner = d
    BY <1>1, <2>1
  <2>4. \A j \in Ids : promise[j].owner = d /\ promise[j].state \in Unsettled
          => promise'[j].state = promise[j].state
    BY <1>1, <2>1
  <2> QED
    BY <1>2, <2>2, <2>3, <2>4, StackKept
<1>5. StackAt(c)'
  <2>1. StackAt(c)
    BY DEF IsolationInv, StackInv
  <2>2. Frames(c)' = Frames(c)
    BY <1>1 DEF Frames, Settled, Unsettled, SameCreation
  <2>3. \A j \in Frames(c) : j \in Ids /\ promise[j].state # "free"
    BY FrameIs
  <2>4. \A m, j \in Ids : CalledBy(j, m, Frames(c)) => Fits(j, m)'
    BY <1>2, <2>1, <2>3, FitsKept DEF StackAt, CalledBy
  <2>5. \A m \in Ids : Innermost(m, Frames(c)) =>
          /\ call[c].mode = "resolve" => call[c].in = promise'[m].within
          /\ Waiting(c) /\ call[c].waits \in Ids
               => call[c].waits = m \/ (call[c].waits \notin Frames(c) /\ Fits(call[c].waits, m)')
    <3> SUFFICES ASSUME NEW m \in Ids, Innermost(m, Frames(c)), call[c].waits \in Ids
                 PROVE  call[c].waits = m
                        \/ (call[c].waits \notin Frames(c) /\ Fits(call[c].waits, m)')
      BY <1>1 DEF Waiting
    <3>1. \/ call[c].waits = m
          \/ call[c].waits \notin Frames(c) /\ Fits(call[c].waits, m)
      BY <1>1, <2>1 DEF StackAt
    <3>2. promise[m].state # "free"
      BY <2>3 DEF Innermost
    <3>3. \A w \in Ids : Fits(w, m) => Fits(w, m)'
      BY <1>2, <3>2, FitsKept
    <3>4. Fits(call[c].waits, m) => Fits(call[c].waits, m)'
      BY <1>1, <3>3 DEF Fits
    <3> QED
      BY <3>1, <3>4
  <2>6. \A j \in Ids : promise'[j].owner = c /\ promise'[j].state = "building" =>
          Waiting(c) /\ call[c].waits = j
    BY <1>1, <2>1 DEF StackAt
  <2> QED
    BY <1>1, <2>1, <2>2, <2>4, <2>5, <2>6 DEF StackAt, Waiting
<1> QED
  BY <1>3, <1>4, <1>5 DEF IsolationInv, StackInv

\* The innermost creation settles: its caller waits for it and it fits.
LEMMA SettledIsolation ==
  ASSUME TypeInv, TypeInv', IsolationInv, NEW c \in Calls, NEW i \in Ids, Rooted,
         Innermost(i, Frames(c)), promise'[i].state \in Failures \cup {"ok"},
         \A j \in Ids : j # i => promise'[j].state = promise[j].state,
         \A j \in Ids : promise'[j].deps = promise[j].deps,
         Waiting(c), call'[c].mode = call[c].mode, call'[c].waits = i,
         \A d \in Calls : d # c => call'[d] = call[d],
         \A j \in Ids : promise[j].owner = c /\ promise[j].state = "building" => j = i
  PROVE  IsolationInv'
<1>1. promise[i].owner = c /\ promise[i].state \in {"new", "pending", "building"}
  BY FrameIs DEF Innermost
<1>2. PlaceInv' /\ OrderInv'
  <2>1. \A j \in Ids : promise[j].state = "free" => promise'[j].state = "free"
    BY <1>1
  <2>2. \A d \in Calls : call[d].mode # "idle" => call'[d].mode # "idle"
    OBVIOUS
  <2> QED
    BY <2>1, <2>2, PlaceKept DEF IsolationInv
<1>3. \A j \in Ids : j # i => promise'[j].owner = promise[j].owner
  BY DEF Rooted, TypeInv, CreationInv
<1>4. ASSUME NEW d \in Calls, d # c PROVE StackAt(d)'
  <2>1. promise'[i].owner = c
    BY <1>1 DEF Rooted
  <2>2. \A j \in Ids : promise'[j].owner = d \/ promise[j].owner = d => j # i
    BY <1>1, <1>4, <2>1
  <2>3. StackAt(d) /\ call'[d] = call[d]
    BY <1>4 DEF IsolationInv, StackInv
  <2>4. \A j \in Ids : promise'[j].owner = d /\ promise'[j].state \in Unsettled
          => promise'[j].state = promise[j].state /\ promise[j].owner = d
    BY <1>3, <2>2
  <2>5. \A j \in Ids : promise[j].owner = d /\ promise[j].state \in Unsettled
          => promise'[j].state = promise[j].state
    BY <2>2
  <2> QED
    BY <2>3, <2>4, <2>5, StackKept
<1>5. StackAt(c)'
  <2>1. StackAt(c)
    BY DEF IsolationInv, StackInv
  <2>2. \A j : j \in Frames(c)' <=> j \in Frames(c) /\ j # i
    <3>1. "ok" \notin Unsettled /\ \A f \in Failures : f \notin Unsettled
      BY DEF Failures, Unsettled
    <3>2. \A j \in Ids : j # i => (promise'[j].state \in Unsettled <=> promise[j].state \in Unsettled)
      OBVIOUS
    <3> QED
      BY <1>3, <3>1, <3>2 DEF Frames, Settled
  <2>3. \A j \in Frames(c) : j \in Ids /\ promise[j].state # "free"
    BY FrameIs
  <2>4. ASSUME NEW m \in Ids, NEW j \in Ids, CalledBy(j, m, Frames(c)') PROVE Fits(j, m)'
    <3>1. j < i \/ j = i
      BY <2>2, <2>4 DEF CalledBy, Innermost, Ids
    <3>2. CalledBy(j, m, Frames(c))
      BY <2>2, <2>4, <3>1 DEF CalledBy, Ids
    <3> QED
      BY <2>1, <2>3, <2>4, <3>2, FitsKept DEF StackAt, CalledBy
  <2>5. ASSUME NEW m \in Ids, Innermost(m, Frames(c)') PROVE Fits(i, m)'
    <3>1. m \in Frames(c) /\ m # i /\ m <= i
      BY <2>2, <2>5 DEF Innermost
    <3>2. CalledBy(i, m, Frames(c))
      BY <2>2, <2>5, <3>1 DEF CalledBy, Innermost, Ids
    <3> QED
      BY <2>1, <2>3, <3>1, <3>2, FitsKept DEF StackAt
  <2>6. \A j \in Ids : ~(promise'[j].owner = c /\ promise'[j].state = "building")
    BY <1>3 DEF Failures
  <2>7. i \notin Frames(c)' /\ call'[c].mode # "done" /\ call'[c].mode # "resolve"
    BY <2>2 DEF Waiting
  <2>8. \A m \in Ids : Innermost(m, Frames(c)') =>
          /\ call'[c].mode = "resolve" => call'[c].in = promise'[m].within
          /\ Waiting(c)' /\ call'[c].waits \in Ids
               => call'[c].waits = m \/ (call'[c].waits \notin Frames(c)' /\ Fits(call[c].waits, m)')
    <3> SUFFICES ASSUME NEW m \in Ids, Innermost(m, Frames(c)')
                 PROVE  call'[c].waits \notin Frames(c)' /\ Fits(call[c].waits, m)'
      BY <2>7
    <3>1. Fits(i, m)'
      BY <2>5
    <3>2. Fits(call[c].waits, m)'
      BY <3>1 DEF Fits
    <3> QED
      BY <2>7, <3>2
  <2> QED
    BY <2>4, <2>6, <2>7, <2>8 DEF StackAt
<1> QED
  BY <1>2, <1>4, <1>5 DEF IsolationInv, StackInv

\* A frame that a settled promise resumes has no creation being built inside.
LEMMA ResumedFrame ==
  ASSUME TypeInv, NEW c \in Calls, StackAt(c), WaitedSettled(c)
  PROVE  /\ Waiting(c) /\ call[c].mode = "await"
         /\ \A j \in Ids : ~(promise[j].owner = c /\ promise[j].state = "building")
         /\ call[c].waits \in Ids => call[c].waits \notin Frames(c)
BY DEF StackAt, WaitedSettled, Settled, Unsettled, Waiting, Frames

LEMMA FaultIsolation ==
  ASSUME CacheInv, CacheInv', IsolationInv, NEW c \in Calls, NEW i \in Ids,
         ResumeWithFault(c, i)
  PROVE  IsolationInv'
<1> USE DEF CacheInv
<1>1. /\ Fails(i, WaitedFault(c)) /\ WaitedFault(c) \in Failures
      /\ Innermost(i, Frames(c)) /\ WaitedSettled(c)
  BY FaultType DEF ResumeWithFault
<1>2. promise[i].state # "free"
  BY <1>1, FrameIs DEF Innermost
<1>3. /\ promise'[i].state \in Failures \cup {"ok"}
      /\ \A j \in Ids : j # i => promise'[j].state = promise[j].state
      /\ \A j \in Ids : SameCreation(promise[j], promise'[j])
      /\ \A j \in Ids : promise'[j].deps = promise[j].deps
  BY <1>1, <1>2, FailsEffect
<1>4. Rooted
  BY <1>1, <1>3 DEF Rooted, SameCreation, Failures
<1>5. /\ call'[c].mode = call[c].mode /\ call'[c].waits = i
      /\ \A d \in Calls : d # c => call'[d] = call[d]
  BY DEF ResumeWithFault, TypeInv, TypeOK, CallRecords
<1>6. StackAt(c)
  BY DEF IsolationInv, StackInv
<1>7. /\ Waiting(c)
      /\ \A j \in Ids : promise[j].owner = c /\ promise[j].state = "building" => j = i
  BY <1>1, <1>6, ResumedFrame
<1> QED
  BY <1>1, <1>3, <1>4, <1>5, <1>7, SettledIsolation

LEMMA FactoryIsolation ==
  ASSUME CacheInv, CacheInv', IsolationInv, NEW i \in Ids, FactorySettles(i)
  PROVE  IsolationInv'
<1> USE DEF CacheInv
<1> DEFINE c == promise[i].owner
<1>1. promise[i].state = "building" /\ call' = call
  BY DEF FactorySettles
<1>2. c \in Calls /\ StackAt(c)
  BY <1>1 DEF IsolationInv, PlaceInv, StackInv
<1>3. /\ Waiting(c) /\ call[c].waits = i
      /\ \A j \in Ids : promise[j].owner = c /\ promise[j].state = "building" => j = i
  BY <1>1, <1>2 DEF StackAt
<1>4. Innermost(i, Frames(c))
  <2>1. i \in Frames(c)
    BY <1>1, <1>2, FrameIs
  <2> QED
    BY <1>2, <1>3, <2>1 DEF StackAt
<1>5. /\ promise'[i].state \in Failures \cup {"ok"}
      /\ \A j \in Ids : j # i => promise'[j].state = promise[j].state
      /\ \A j \in Ids : SameCreation(promise[j], promise'[j])
      /\ \A j \in Ids : promise'[j].deps = promise[j].deps
  <2>1. CASE promise' = [promise EXCEPT ![i].state = "ok"]
    <3>1. /\ promise'[i].state = "ok" /\ SameCreation(promise[i], promise'[i])
          /\ promise'[i].deps = promise[i].deps
          /\ \A j \in Ids : j # i => promise'[j] = promise[j]
      BY <2>1, ReadyEffect
    <3> QED
      BY <3>1 DEF SameCreation
  <2>2. CASE Fails(i, "threw")
    <3>1. "threw" \in Failures /\ promise[i].state # "free"
      BY <1>1 DEF Failures
    <3> QED
      BY <2>2, <3>1, FailsEffect
  <2> QED
    BY <2>1, <2>2 DEF FactorySettles
<1>6. Rooted
  BY <1>5 DEF Rooted, SameCreation, Failures
<1> HIDE DEF c
<1> QED
  BY <1>1, <1>2, <1>3, <1>4, <1>5, <1>6, SettledIsolation

\* A dependency arrives: what the call waited for fits the innermost frame.
LEMMA FedFields ==
  ASSUME TypeInv, NEW c \in Calls, NEW i \in Ids, ResumeWithDependency(c, i)
  PROVE  /\ \A d \in Calls : d # c => call'[d] = call[d]
         /\ \/ /\ call'[c].mode = call[c].mode /\ call'[c].waits = i
               /\ promise'[i].state = "building"
            \/ /\ call'[c].mode = "resolve" /\ call'[c].in = promise[i].within
               /\ promise'[i].state = promise[i].state
<1> DEFINE n == promise[i].next + 1
           last == n > Len(inject[promise[i].prov])
           q == [promise[i] EXCEPT !.next = n, !.deps = promise[i].deps \cup {call[c].waits},
                   !.state = IF last THEN "building" ELSE promise[i].state]
           w == inject[promise[i].prov][n]
<1>1. /\ promise' = [promise EXCEPT ![i] = q]
      /\ \/ last /\ call' = [call EXCEPT ![c].waits = i]
         \/ ~last /\ call' = [call EXCEPT ![c] =
              [@ EXCEPT !.mode = "resolve", !.in = promise[i].within, !.want = w]]
  BY DEF ResumeWithDependency
<1> HIDE DEF last, w, n
<1>2. q.state = IF last THEN "building" ELSE promise[i].state
  BY DEF TypeInv, TypeOK, Promises
<1>3. promise'[i] = q
  BY <1>1 DEF TypeInv, TypeOK
<1> HIDE DEF q
<1>4. CASE last /\ call' = [call EXCEPT ![c].waits = i]
  BY <1>2, <1>3, <1>4 DEF TypeInv, TypeOK, CallRecords
<1>5. CASE ~last /\ call' = [call EXCEPT ![c] =
             [@ EXCEPT !.mode = "resolve", !.in = promise[i].within, !.want = w]]
  BY <1>2, <1>3, <1>5 DEF TypeInv, TypeOK, CallRecords
<1> QED
  BY <1>1, <1>4, <1>5

LEMMA DependencyIsolation ==
  ASSUME CacheInv, CacheInv', IsolationInv, NEW c \in Calls, NEW i \in Ids,
         ResumeWithDependency(c, i)
  PROVE  IsolationInv'
<1> USE DEF CacheInv
<1> DEFINE w == call[c].waits
<1>1. /\ w \in Ids /\ WaitedSettled(c) /\ Innermost(i, Frames(c))
      /\ SameCreation(promise[i], promise'[i])
      /\ promise'[i].state \in {promise[i].state, "building"}
      /\ promise'[i].deps = promise[i].deps \cup {w}
      /\ \A j \in Ids : j # i => promise'[j] = promise[j]
  BY FedEffect DEF ResumeWithDependency
<1>2. promise[i].owner = c /\ promise[i].state \in {"new", "pending", "building"}
  BY <1>1, FrameIs DEF Innermost
<1>3. Rooted
  BY <1>1, <1>2 DEF Rooted, SameCreation
<1>4. /\ \A d \in Calls : d # c => call'[d] = call[d]
      /\ \/ /\ call'[c].mode = call[c].mode /\ call'[c].waits = i
            /\ promise'[i].state = "building"
         \/ /\ call'[c].mode = "resolve" /\ call'[c].in = promise[i].within
            /\ promise'[i].state = promise[i].state
  BY FedFields
<1>5. StackAt(c)
  BY DEF IsolationInv, StackInv
<1>6. /\ Waiting(c) /\ call[c].mode = "await"
      /\ \A j \in Ids : ~(promise[j].owner = c /\ promise[j].state = "building")
      /\ w \notin Frames(c)
  BY <1>1, <1>5, ResumedFrame
<1>7. Fits(w, i)
  BY <1>1, <1>5, <1>6 DEF StackAt, Innermost
<1>8. OrderInv'
  BY <1>1, <1>2, <1>3 DEF IsolationInv, OrderInv, Rooted
<1>9. PlaceInv'
  <2>0. \A j \in Ids : promise'[j].state = "free" => promise'[j].deps = {}
    BY <1>1, <1>2 DEF IsolationInv, PlaceInv
  <2> SUFFICES ASSUME NEW j \in Ids, promise'[j].state # "free"
               PROVE  /\ promise'[j].home # None => promise'[j].within = promise'[j].home
                      /\ promise'[j].owner \in Calls /\ call'[promise'[j].owner].mode # "idle"
                      /\ \A d \in promise'[j].deps : Fits(d, j)'
    BY <2>0 DEF PlaceInv
  <2>1. promise[j].state # "free" /\ promise[j].deps \subseteq Ids
    BY <1>1, <1>2 DEF TypeInv, TypeOK, Promises
  <2>2. \A d \in promise[j].deps : Fits(d, j)'
    BY <1>3, <2>1, FitsKept DEF IsolationInv, PlaceInv
  <2>3. \A d \in Ids : Fits(d, i) => Fits(d, i)'
    BY <1>2, <1>3, FitsKept
  <2>4. \A d \in promise'[j].deps : Fits(d, j)'
    <3>1. CASE j = i
      BY <1>1, <1>7, <2>2, <2>3, <3>1
    <3>2. CASE j # i
      BY <1>1, <2>2, <3>2
    <3> QED
      BY <3>1, <3>2
  <2>5. call'[promise[j].owner].mode # "idle"
    BY <1>4, <1>6, <2>1 DEF IsolationInv, PlaceInv
  <2> QED
    BY <1>3, <2>1, <2>4, <2>5 DEF IsolationInv, PlaceInv, Rooted
<1>10. ASSUME NEW d \in Calls, d # c PROVE StackAt(d)'
  <2>1. \A j \in Ids : promise[j].owner = d \/ promise'[j].owner = d => j # i
    BY <1>1, <1>2, <1>10 DEF SameCreation
  <2>2. StackAt(d) /\ call'[d] = call[d]
    BY <1>4, <1>10 DEF IsolationInv, StackInv
  <2>3. \A j \in Ids : promise'[j].owner = d /\ promise'[j].state \in Unsettled
          => promise'[j].state = promise[j].state /\ promise[j].owner = d
    BY <1>1, <2>1
  <2>4. \A j \in Ids : promise[j].owner = d /\ promise[j].state \in Unsettled
          => promise'[j].state = promise[j].state
    BY <1>1, <2>1
  <2> QED
    BY <1>3, <2>2, <2>3, <2>4, StackKept
<1>11. StackAt(c)'
  <2>1. Frames(c)' = Frames(c)
    BY <1>1, <1>2 DEF Frames, Settled, Unsettled, SameCreation
  <2>2. \A j \in Frames(c) : j \in Ids /\ promise[j].state # "free"
    BY FrameIs
  <2>3. \A m, j \in Ids : CalledBy(j, m, Frames(c)) => Fits(j, m)'
    BY <1>3, <1>5, <2>2, FitsKept DEF StackAt, CalledBy
  <2>4. \A m \in Ids : Innermost(m, Frames(c)) => m = i
    BY <1>1 DEF Innermost, Ids
  <2>5. \A j \in Ids : promise'[j].owner = c /\ promise'[j].state = "building" =>
          j = i /\ Waiting(c)' /\ call'[c].waits = i
    <3> SUFFICES ASSUME NEW j \in Ids, promise'[j].owner = c, promise'[j].state = "building"
                 PROVE  j = i /\ Waiting(c)' /\ call'[c].waits = i
      OBVIOUS
    <3>1. j = i
      BY <1>1, <1>6
    <3>2. promise[i].state # "building"
      BY <1>2, <1>6
    <3> QED
      BY <1>4, <1>6, <3>1, <3>2 DEF Waiting
  <2>6. promise'[i].within = promise[i].within
    BY <1>1 DEF SameCreation
  <2>7. call'[c].mode # "done" /\ (Waiting(c)' => call'[c].waits = i)
        /\ (call'[c].mode = "resolve" => call'[c].in = promise'[i].within)
    BY <1>4, <1>6, <2>6 DEF Waiting
  <2> QED
    BY <1>1, <2>1, <2>3, <2>4, <2>5, <2>7 DEF StackAt
<1> QED
  BY <1>8, <1>9, <1>10, <1>11 DEF IsolationInv, StackInv

\* Steps that only move a call on between its lookups.
LEMMA CallMoves ==
  ASSUME CacheInv, CacheInv', IsolationInv, NEW c \in Calls, promise' = promise,
         \A d \in Calls : d # c => call'[d] = call[d],
         call'[c].mode # "idle",
         \/ Frames(c) = {}
         \/ /\ Waiting(c) /\ Waiting(c)' /\ call'[c].waits = call[c].waits
  PROVE  IsolationInv'
<1> USE DEF CacheInv
<1>1. Rooted
  BY DEF Rooted
<1>2. PlaceInv' /\ OrderInv'
  BY <1>1, PlaceKept DEF IsolationInv
<1>3. ASSUME NEW d \in Calls, d # c PROVE StackAt(d)'
  BY <1>1, <1>3, StackKept DEF IsolationInv, StackInv
<1>4. StackAt(c)'
  <2>1. StackAt(c)
    BY DEF IsolationInv, StackInv
  <2>2. Frames(c)' = Frames(c)
    BY DEF Frames, Settled
  <2>3. CASE Frames(c) = {}
    <3>1. \A j \in Ids : ~(promise[j].owner = c /\ promise[j].state = "building")
      BY <2>3, FrameIs
    <3> QED
      BY <2>2, <2>3, <3>1 DEF StackAt, CalledBy, Innermost
  <2>4. CASE Waiting(c) /\ Waiting(c)' /\ call'[c].waits = call[c].waits
    <3>1. \A i, j \in Ids : CalledBy(j, i, Frames(c)) => Fits(j, i)'
      BY <2>1 DEF StackAt, Fits
    <3>2. \A i \in Ids : Innermost(i, Frames(c)) /\ call[c].waits \in Ids =>
            call[c].waits = i \/ (call[c].waits \notin Frames(c) /\ Fits(call[c].waits, i)')
      BY <2>1, <2>4 DEF StackAt, Fits
    <3>3. call'[c].mode \notin {"resolve", "done"}
      BY <2>4 DEF Waiting
    <3> QED
      BY <2>1, <2>2, <2>4, <3>1, <3>2, <3>3 DEF StackAt
  <2> QED
    BY <2>3, <2>4
<1> QED
  BY <1>2, <1>3, <1>4 DEF IsolationInv, StackInv

LEMMA CallStepIsolation ==
  ASSUME CacheInv, CacheInv', IsolationInv, NEW c \in Calls, CallStep(c)
  PROVE  IsolationInv'
<1>1. CASE Lookups(c)
  <2>1. Looking(c)
    BY <1>1 DEF Lookups, ThrowCircular, ThrowMissing, ThrowOutsideRequest, FollowAlias,
       ShareCached, Instantiate
  <2> QED
    BY <1>1, <2>1, LookupIsolation, InstantiateIsolation DEF Lookups
<1>2. ASSUME NEW i \in Ids, StorePromise(c, i) PROVE IsolationInv'
  BY <1>2, StoreIsolation
<1>3. CASE Suspend(c)
  <2>1. /\ promise' = promise /\ call[c].mode = "suspend" /\ call'[c].mode = "await"
        /\ call'[c].waits = call[c].waits
        /\ \A d \in Calls : d # c => call'[d] = call[d]
    BY <1>3 DEF Suspend, CacheInv, TypeInv, TypeOK, CallRecords
  <2> QED
    BY <2>1, CallMoves DEF Waiting
<1>4. ASSUME NEW i \in Ids, ResumeWithDependency(c, i) PROVE IsolationInv'
  BY <1>4, DependencyIsolation
<1>5. ASSUME NEW i \in Ids, ResumeWithFault(c, i) PROVE IsolationInv'
  BY <1>5, FaultIsolation
<1>6. CASE Return(c)
  <2>1. /\ promise' = promise /\ Frames(c) = {} /\ call'[c].mode = "done"
        /\ \A d \in Calls : d # c => call'[d] = call[d]
    BY <1>6 DEF Return, CacheInv, TypeInv, TypeOK, CallRecords
  <2> QED
    BY <2>1, CallMoves
<1> QED
  BY <1>1, <1>2, <1>3, <1>4, <1>5, <1>6 DEF CallStep, Unwinding, Resumption

\* A call that starts has no frame yet.
LEMMA ResolveIsolation ==
  ASSUME CacheInv, CacheInv', IsolationInv, NEW a \in Asks, Resolve(a[1], a[2], a[3])
  PROVE  IsolationInv'
<1> DEFINE c == a[1]
<1>1. c \in Calls /\ call[c].mode = "idle" /\ promise' = promise
  BY ConstantsAssumption DEF Resolve
<1>2. call'[c].mode \in {"resolve", "done"} /\ \A d \in Calls : d # c => call'[d] = call[d]
  <2> DEFINE over == [call[c] EXCEPT !.mode = "done", !.fault = "disposed"]
             begun == [call[c] EXCEPT !.mode = "resolve", !.in = a[2], !.want = a[3]]
  <2>1. call' = [call EXCEPT ![c] = over] \/ call' = [call EXCEPT ![c] = begun]
    BY DEF Resolve
  <2>2. call \in [Calls -> CallRecords]
    BY DEF CacheInv, TypeInv, TypeOK
  <2>3. over.mode = "done" /\ begun.mode = "resolve"
    BY <1>1, <2>2 DEF CallRecords
  <2> HIDE DEF c, over, begun
  <2> QED
    BY <1>1, <2>1, <2>2, <2>3
<1> HIDE DEF c
<1>3. Frames(c) = {}
  BY <1>1, FrameIs DEF IsolationInv, PlaceInv, CacheInv
<1> QED
  BY <1>1, <1>2, <1>3, CallMoves

LEMMA IsolationStep ==
  CacheInv /\ CacheInv' /\ IsolationInv /\ [Next]_vars => IsolationInv'
<1> SUFFICES ASSUME CacheInv, CacheInv', IsolationInv, [Next]_vars PROVE IsolationInv'
  OBVIOUS
<1>1. CASE UNCHANGED <<promise, call>>
  BY <1>1 DEF IsolationInv, PlaceInv, OrderInv, StackInv, StackAt, Fits, CalledBy, Innermost,
     Frames, Settled, Waiting
<1>2. ASSUME NEW a \in Asks, Resolve(a[1], a[2], a[3]) PROVE IsolationInv'
  BY <1>2, ResolveIsolation
<1>3. ASSUME NEW c \in Calls, CallStep(c) PROVE IsolationInv'
  BY <1>3, CallStepIsolation
<1>4. ASSUME NEW i \in Ids, FactorySettles(i) PROVE IsolationInv'
  BY <1>4, FactoryIsolation
<1>5. CASE Configure
  BY <1>1, <1>5 DEF Configure, Register, Override, CreateRequestScope
<1>6. ASSUME NEW k \in Containers, NEW i \in Ids, StaleDisposal(k, i) PROVE IsolationInv'
  BY <1>1, <1>6 DEF StaleDisposal
<1>7. ASSUME NEW k \in Containers, Dispose(k) \/ DisposalStep(k) PROVE IsolationInv'
  BY <1>1, <1>7 DEF Dispose, DisposalStep, StaleTasksDone, CollectInstances,
     FinishDisposal, DestroyNext
<1>8. CASE ChildrenDisposed
  BY <1>1, <1>8 DEF ChildrenDisposed
<1>9. CASE UNCHANGED vars
  BY <1>1, <1>9 DEF vars
<1> QED
  BY <1>2, <1>3, <1>4, <1>5, <1>6, <1>7, <1>8, <1>9 DEF Next

\* Nothing built in one request scope is ever injected into an instance of
\* another scope or of the root, directly or through a transient, however the
\* lookups, awaits, failures and overrides of any number of calls interleave.
THEOREM ScopesIsolated == Spec => []RequestIsolation
<1>1. Init => CacheInv /\ IsolationInv
  BY TypeInit, DestroyInit, CellInit, ReachInit, IsolationInit DEF CacheInv
<1>2. CacheInv /\ CacheInv' /\ IsolationInv /\ [Next]_vars => IsolationInv'
  BY IsolationStep
<1>3. CacheInv /\ IsolationInv => RequestIsolation
  <2> SUFFICES ASSUME CacheInv, IsolationInv, NEW i \in Ids, promise[i].home # None,
                      NEW d \in Holds(i)
               PROVE  promise[d].home \in {promise[i].home, Root, None}
    BY DEF RequestIsolation
  <2>1. promise[i].deps \subseteq Ids
    BY DEF CacheInv, TypeInv, TypeOK, Promises
  <2>2. d \in promise[i].deps
        \/ \E e \in promise[i].deps : promise[e].home = None /\ d \in promise[e].deps
    BY DEF Holds
  <2>3. promise[i].state # "free" /\ promise[i].within = promise[i].home
    BY <2>2 DEF IsolationInv, PlaceInv
  <2>4. \A e \in promise[i].deps : Fits(e, i)
    BY <2>3 DEF IsolationInv, PlaceInv
  <2>5. CASE d \in promise[i].deps
    BY <2>3, <2>4, <2>5 DEF Fits
  <2>6. ASSUME NEW e \in promise[i].deps, promise[e].home = None, d \in promise[e].deps
        PROVE  promise[d].home \in {promise[i].home, Root, None}
    BY <2>1, <2>3, <2>4, <2>6 DEF Fits, IsolationInv, PlaceInv
  <2> QED
    BY <2>2, <2>5, <2>6
<1> QED
  BY <1>1, <1>2, <1>3, CacheCorrect, PTL DEF Spec

-----------------------------------------------------------------------------
\* k sees the root's graph: it is the root, or has no provider of its own.
SharesGraph(k) == k = Root \/ \A t \in Tokens : registrations[k][t] = None

\* A creation begun or cached for a container that is in use.
InPlace(i) ==
  /\ promise[i].home # None /\ ~DisposedInHierarchy(promise[i].home)
  /\ IsNew(i) \/ i \in cache[promise[i].home]
InUse(i) == InPlace(i) /\ SharesGraph(promise[i].home)

Below(i) == Reachable(Root, {TokenOf(i)})
Intact(d) == destroyed[d] = 0 /\ \A h \in Containers : d \notin stale[h]

\* An instance that override() reaches only together with i.
Feeds(d, i) ==
  /\ promise[d].state # "free" /\ promise[d].home \in {promise[i].home, Root, None}
  /\ TokenOf(d) \in Below(i) /\ Intact(d)
Serves(d, i) == Feeds(d, i) /\ (promise[d].home = None => \A e \in promise[d].deps : Feeds(e, i))

\* A frame that i is waiting for, directly or through other frames.
Called(j, i) ==
  /\ Feeds(j, i) /\ promise[j].within \in {promise[i].home, Root}
  /\ registrations[Root][TokenOf(j)] = promise[j].prov
  /\ \A d \in promise[j].deps : Feeds(d, i)

\* What the call c, which is building i, is at.
Builds(c, i) ==
  /\ \A j \in Frames(c) : i < j => Called(j, i)
  /\ call[c].mode = "resolve" => call[c].want \in Below(i) /\ call[c].in \in {promise[i].home, Root}
  /\ Waiting(c) /\ call[c].waits \in Ids => Serves(call[c].waits, i)

FreshAt(i) ==
  /\ registrations[Root][TokenOf(i)] = promise[i].prov
  /\ \A d \in promise[i].deps : Serves(d, i)
  /\ \A c \in Calls : i \in Frames(c) => Builds(c, i)
FreshInv == \A i \in Ids : InUse(i) => FreshAt(i)

\* A container in use has nothing in its cache that was destroyed or will be.
IntactInv == \A k \in Containers : ~DisposedInHierarchy(k) => \A i \in cache[k] : Intact(i)

\* The root knows the scopes that have something in their caches.
TrackedInv ==
  /\ \A k \in trackedByRoot : ~DisposedInHierarchy(k) => k \in childScopes
  /\ \A i \in Ids : InPlace(i) /\ promise[i].home # Root => promise[i].home \in childScopes

\* Nothing is injected before it is built, and nobody waits for another's transient.
DepsInv ==
  /\ \A i \in Ids : promise[i].state # "free" => useExisting[promise[i].prov] = None
  /\ \A i \in Ids : \A d \in promise[i].deps : Fulfilled(d)
  /\ \A c \in Calls, w \in Ids : Waiting(c) /\ call[c].waits = w =>
       /\ promise[w].state # "free"
       /\ promise[w].home = None /\ ~Settled(w) => promise[w].owner = c

-----------------------------------------------------------------------------
\* What is reachable.
LEMMA ReachSelf ==
  ASSUME NEW k, NEW t \in Tokens
  PROVE  t \in Reachable(k, {t})
BY DEF Reachable

LEMMA ReachEdge ==
  ASSUME NEW k, NEW S, NEW t \in Reachable(k, S), NEW v \in Tokens, v \in Successors(k, t)
  PROVE  v \in Reachable(k, S)
BY DEF Reachable

LEMMA ReachOn ==
  ASSUME NEW k, NEW S, NEW t \in Reachable(k, S)
  PROVE  t \in Tokens /\ Reachable(k, {t}) \subseteq Reachable(k, S)
BY DEF Reachable

LEMMA SharedLookup ==
  ASSUME NEW k \in Containers, SharesGraph(k), NEW t \in Tokens
  PROVE  Lookup(k, t) = registrations[Root][t]
BY DEF SharesGraph, Lookup

LEMMA EdgesType ==
  ASSUME TypeOK, NEW k \in Containers, NEW t \in Tokens
  PROVE  Successors(k, t) \subseteq Tokens
<1>1. Lookup(k, t) \in Providers \cup {None}
  BY LookupType
<1> QED
  BY <1>1, ConstantsAssumption DEF Successors, Edges

LEMMA SharedReach ==
  ASSUME NEW k \in Containers, SharesGraph(k), NEW S
  PROVE  Reachable(k, S) = Reachable(Root, S)
<1>1. \A t \in Tokens : Lookup(k, t) = Lookup(Root, t)
  BY SharedLookup DEF Lookup
<1>2. \A t \in Tokens : Successors(k, t) = Successors(Root, t)
  BY <1>1 DEF Successors
<1> QED
  BY <1>2 DEF Reachable

\* An override of a token that is not reached, or of one without a provider,
\* leaves reachable what was.
LEMMA ReachKeeps ==
  ASSUME NEW S, NEW u, NEW p, TypeOK,
         \A t \in Tokens : t # u => registrations'[Root][t] = registrations[Root][t],
         u \notin Reachable(Root, S) \/ registrations[Root][u] = None
  PROVE  Reachable(Root, S) \subseteq Reachable(Root, S)'
<1>1. \A t \in Tokens : t # u => Successors(Root, t)' = Successors(Root, t)
  BY DEF Successors, Lookup
<1>2. CASE registrations[Root][u] = None
  <2>1. \A t \in Tokens : Successors(Root, t) \subseteq Successors(Root, t)'
    BY <1>1, <1>2 DEF Successors, Lookup
  <2> QED
    BY <2>1 DEF Reachable
<1>3. CASE u \notin Reachable(Root, S)
  <2> SUFFICES ASSUME NEW v \in Reachable(Root, S), NEW C \in SUBSET Tokens, S \subseteq C,
                      \A t \in C : Successors(Root, t)' \subseteq C
               PROVE  v \in C
    BY DEF Reachable
  <2> DEFINE D == C \cap Reachable(Root, S)
  <2>1. S \subseteq D
    BY DEF Reachable
  <2>2. D \subseteq Tokens
    OBVIOUS
  <2>3. \A t \in D : Successors(Root, t) \subseteq D
    <3> SUFFICES ASSUME NEW t \in D, NEW w \in Successors(Root, t) PROVE w \in D
      OBVIOUS
    <3>1. t \in Tokens /\ t # u
      BY <1>3
    <3>2. w \in C
      BY <1>1, <3>1
    <3>3. w \in Reachable(Root, S)
      BY <3>2, ReachEdge
    <3> QED
      BY <3>2, <3>3
  <2> HIDE DEF D
  <2>4. v \in D
    BY <2>1, <2>2, <2>3 DEF Reachable
  <2> QED
    BY <2>4 DEF D
<1> QED
  BY <1>2, <1>3

SameBegun ==
  \A j \in Ids : promise[j].state # "free" =>
    promise'[j].state # "free" /\ SameCreation(promise[j], promise'[j])
SameDeps(j) == promise'[j].deps = promise[j].deps

\* The step leaves alone what i is built from, and the way to it.
Spares(i) ==
  /\ Below(i) \subseteq Below(i)'
  /\ \A t \in Below(i) : registrations[Root][t] # None => registrations'[Root][t] = registrations[Root][t]
  /\ \A d \in Ids : Feeds(d, i) => Intact(d)'

LEMMA FeedsKept ==
  ASSUME SameBegun, NEW i \in Ids, promise[i].state # "free", Below(i) \subseteq Below(i)',
         NEW d \in Ids, Feeds(d, i), Intact(d)'
  PROVE  Feeds(d, i)'
<1>1. /\ promise'[i].home = promise[i].home /\ promise'[d].home = promise[d].home
      /\ TokenOf(d)' = TokenOf(d) /\ promise'[d].state # "free"
  BY DEF SameBegun, SameCreation, Feeds, TokenOf
<1>2. Feeds(d, i)' <=> /\ promise'[d].state # "free"
                       /\ promise'[d].home \in {promise'[i].home, Root, None}
                       /\ TokenOf(d)' \in Below(i)' /\ Intact(d)'
  BY DEF Feeds
<1> QED
  BY <1>1, <1>2 DEF Feeds

LEMMA ServesKept ==
  ASSUME TypeInv, SameBegun, NEW i \in Ids, promise[i].state # "free", Spares(i),
         NEW d \in Ids, Serves(d, i), promise[d].home = None => SameDeps(d)
  PROVE  Serves(d, i)'
<1>1. Feeds(d, i)'
  BY FeedsKept DEF Spares, Serves
<1>2. promise'[d].home = promise[d].home /\ promise[d].deps \subseteq Ids
  BY DEF SameBegun, SameCreation, Serves, Feeds, TypeInv, TypeOK, Promises
<1>3. ASSUME promise[d].home = None, NEW e \in promise[d].deps PROVE Feeds(e, i)'
  BY <1>2, <1>3, FeedsKept DEF Spares, Serves
<1>4. Serves(d, i)' <=> Feeds(d, i)' /\ (promise'[d].home = None => \A e \in promise'[d].deps : Feeds(e, i)')
  BY DEF Serves
<1> QED
  BY <1>1, <1>2, <1>3, <1>4 DEF SameDeps

LEMMA CalledKept ==
  ASSUME TypeInv, SameBegun, NEW i \in Ids, promise[i].state # "free", Spares(i),
         NEW j \in Ids, Called(j, i), SameDeps(j)
  PROVE  Called(j, i)'
<1>1. promise[j].deps \subseteq Ids /\ promise[j].state # "free" /\ promise[j].prov # None
  BY ConstantsAssumption DEF Called, Feeds, TypeInv, TypeOK, CreationInv, Promises
<1>2. Feeds(j, i)' /\ \A d \in promise'[j].deps : Feeds(d, i)'
  BY <1>1, FeedsKept DEF Called, Spares, SameDeps
<1>3. /\ promise'[j].within = promise[j].within /\ promise'[i].home = promise[i].home
      /\ promise'[j].prov = promise[j].prov /\ TokenOf(j)' = TokenOf(j)
  BY <1>1 DEF SameBegun, SameCreation, TokenOf
<1>4. registrations'[Root][TokenOf(j)] = promise[j].prov
  BY <1>1 DEF Called, Feeds, Spares
<1>5. Called(j, i)' <=>
        /\ Feeds(j, i)' /\ promise'[j].within \in {promise'[i].home, Root}
        /\ registrations'[Root][TokenOf(j)'] = promise'[j].prov
        /\ \A d \in promise'[j].deps : Feeds(d, i)'
  BY DEF Called
<1> QED
  BY <1>2, <1>3, <1>4, <1>5 DEF Called

\* The call looks up and waits for what it did.
Onward(c) ==
  /\ call'[c].mode = "resolve" =>
       call[c].mode = "resolve" /\ call'[c].want = call[c].want /\ call'[c].in = call[c].in
  /\ Waiting(c)' => Waiting(c) /\ call'[c].waits = call[c].waits

LEMMA BuildsKept ==
  ASSUME TypeInv, SameBegun, NEW i \in Ids, promise[i].state # "free", Spares(i),
         NEW c \in Calls, Builds(c, i), Frames(c)' \subseteq Frames(c),
         \A j \in Frames(c) : SameDeps(j), Onward(c),
         \A w \in Ids : Waiting(c) /\ call[c].waits = w /\ promise[w].home = None => SameDeps(w)
  PROVE  Builds(c, i)'
<1>1. \A j \in Frames(c)' : i < j => Called(j, i)'
  <2>1. Frames(c) \subseteq Ids
    BY DEF Frames
  <2> QED
    BY <2>1, CalledKept DEF Builds
<1>2. call'[c].mode = "resolve" =>
        call'[c].want \in Below(i)' /\ call'[c].in \in {promise'[i].home, Root}
  BY DEF Builds, Spares, SameBegun, SameCreation, Onward
<1>3. Waiting(c)' /\ call'[c].waits \in Ids => Serves(call[c].waits, i)'
  <2>1. ASSUME NEW w \in Ids, Serves(w, i), promise[w].home = None => SameDeps(w) PROVE Serves(w, i)'
    BY <2>1, ServesKept
  <2>2. \A w \in Ids : w = call[c].waits /\ Waiting(c) => Serves(w, i) /\ (promise[w].home = None => SameDeps(w))
    BY DEF Builds
  <2>3. \A w \in Ids : w = call'[c].waits /\ Waiting(c)' => Serves(w, i)'
    BY <2>1, <2>2 DEF Onward
  <2>4. \A w : w = call'[c].waits => (Serves(w, i)' <=> Serves(call[c].waits, i)')
    BY DEF Serves, Feeds, Intact, TokenOf
  <2> QED
    BY <2>3, <2>4
<1> QED
  BY <1>1, <1>2, <1>3 DEF Builds, Serves, Feeds, Intact, TokenOf

LEMMA TokenOk ==
  ASSUME TypeInv, NEW i \in Ids, promise[i].state # "free"
  PROVE  TokenOf(i) \in Tokens /\ TokenOf(i) \in Below(i) /\ promise[i].prov # None
<1>1. promise[i].prov \in Providers
  BY DEF TypeInv, CreationInv
<1>2. TokenOf(i) \in Tokens
  BY <1>1, ConstantsAssumption DEF TokenOf
<1> QED
  BY <1>1, <1>2, ReachSelf, ConstantsAssumption DEF Below

LEMMA InUseBegun ==
  ASSUME TypeInv, HomeInv, NEW i \in Ids, InPlace(i)
  PROVE  promise[i].state # "free" /\ promise[i].home \in Containers
BY DEF InPlace, IsNew, HomeInv, Stored, TypeInv, TypeOK, Promises

LEMMA FreshKept ==
  ASSUME TypeInv, HomeInv, SameBegun, NEW i \in Ids, InUse(i), FreshAt(i), Spares(i),
         \A d \in promise[i].deps : SameDeps(d),
         \A d \in promise'[i].deps : d \in promise[i].deps \/ Serves(d, i)',
         \A c \in Calls : i \in Frames(c)' => Builds(c, i)'
  PROVE  FreshAt(i)'
<1>1. promise[i].state # "free"
  BY InUseBegun DEF InUse
<1>2. TokenOf(i)' = TokenOf(i) /\ promise'[i].prov = promise[i].prov
  BY <1>1 DEF SameBegun, SameCreation, TokenOf
<1>3. registrations'[Root][TokenOf(i)] = promise[i].prov
  BY <1>1, TokenOk DEF FreshAt, Spares
<1>4. promise[i].deps \subseteq Ids
  BY DEF TypeInv, TypeOK, Promises
<1>5. \A d \in promise'[i].deps : Serves(d, i)'
  BY <1>1, <1>4, ServesKept DEF FreshAt
<1>6. FreshAt(i)' <=>
        /\ registrations'[Root][TokenOf(i)'] = promise'[i].prov
        /\ \A d \in promise'[i].deps : Serves(d, i)'
        /\ \A c \in Calls : i \in Frames(c)' => Builds(c, i)'
  BY DEF FreshAt
<1> QED
  BY <1>2, <1>3, <1>5, <1>6

\* What was begun stays, and what has settled does not change.
Steady ==
  /\ SameBegun
  /\ \A j \in Ids : Settled(j) => promise'[j].state = promise[j].state /\ SameDeps(j)

LEMMA SettledBegun ==
  ASSUME NEW j \in Ids, Settled(j)
  PROVE  promise[j].state # "free" /\ promise[j].state # "building"
BY DEF Settled, Unsettled

LEMMA FailsSteady ==
  ASSUME TypeInv, NEW i \in Ids, NEW f \in Failures, Fails(i, f),
         promise[i].state # "free", ~Settled(i)
  PROVE  Steady
<1>1. /\ promise'[i].state = f
      /\ \A j \in Ids : j # i => promise'[j].state = promise[j].state
      /\ \A j \in Ids : SameCreation(promise[j], promise'[j]) /\ promise'[j].deps = promise[j].deps
  BY FailsEffect
<1> QED
  BY <1>1 DEF Steady, SameBegun, SameDeps, Failures

LEMMA SteadyStep ==
  ASSUME TypeInv, [Next]_vars
  PROVE  Steady
<1>1. CASE UNCHANGED promise
  BY <1>1 DEF Steady, SameBegun, SameDeps, SameCreation
<1>2. ASSUME NEW c \in Calls, NEW i \in Ids, Instantiate(c, i) PROVE Steady
  <2>1. promise[i].state = "free" /\ \A j \in Ids : j # i => promise'[j] = promise[j]
    BY <1>2, InstantiateEffect
  <2> QED
    BY <2>1, SettledBegun DEF Steady, SameBegun, SameDeps, SameCreation
<1>3. ASSUME NEW c \in Calls, NEW i \in Ids, StorePromise(c, i) PROVE Steady
  <2>1. /\ IsNew(i) /\ promise'[i].state \in {"building", "pending"}
        /\ SameCreation(promise[i], promise'[i]) /\ promise'[i].deps = promise[i].deps
        /\ \A j \in Ids : j # i => promise'[j] = promise[j]
    BY <1>3, StoreEffect
  <2>2. ~Settled(i)
    BY <2>1 DEF IsNew, Settled, Unsettled
  <2> QED
    BY <2>1, <2>2 DEF Steady, SameBegun, SameDeps, SameCreation
<1>4. ASSUME NEW c \in Calls, NEW i \in Ids, ResumeWithDependency(c, i) PROVE Steady
  <2>1. /\ Innermost(i, Frames(c)) /\ promise'[i].state \in {promise[i].state, "building"}
        /\ SameCreation(promise[i], promise'[i])
        /\ \A j \in Ids : j # i => promise'[j] = promise[j]
    BY <1>4, FedEffect
  <2>2. ~Settled(i) /\ promise[i].state # "free"
    BY <2>1, FrameIs DEF Innermost, Frames
  <2> QED
    BY <2>1, <2>2 DEF Steady, SameBegun, SameDeps, SameCreation
<1>5. ASSUME NEW c \in Calls, NEW i \in Ids, ResumeWithFault(c, i) PROVE Steady
  <2>1. Innermost(i, Frames(c)) /\ Fails(i, WaitedFault(c)) /\ WaitedFault(c) \in Failures
    BY <1>5, FaultType DEF ResumeWithFault
  <2>2. ~Settled(i) /\ promise[i].state # "free"
    BY <2>1, FrameIs DEF Innermost, Frames
  <2> QED
    BY <2>1, <2>2, FailsSteady
<1>6. ASSUME NEW i \in Ids, FactorySettles(i) PROVE Steady
  <2>1. promise[i].state = "building" /\ ~Settled(i)
    BY <1>6 DEF FactorySettles, Settled, Unsettled
  <2>2. CASE promise' = [promise EXCEPT ![i].state = "ok"]
    <3>1. /\ promise'[i].state = "ok" /\ SameCreation(promise[i], promise'[i])
          /\ \A j \in Ids : j # i => promise'[j] = promise[j]
      BY <2>2, ReadyEffect
    <3> QED
      BY <2>1, <3>1 DEF Steady, SameBegun, SameDeps, SameCreation
  <2>3. CASE Fails(i, "threw")
    <3>1. "threw" \in Failures
      BY DEF Failures
    <3> QED
      BY <2>1, <2>3, <3>1, FailsSteady
  <2> QED
    BY <1>6, <2>2, <2>3 DEF FactorySettles
<1>7. ASSUME NEW c \in Calls, CallStep(c) PROVE Steady
  BY <1>1, <1>2, <1>3, <1>4, <1>5, <1>7
  DEF CallStep, Lookups, Unwinding, Resumption, ThrowCircular, ThrowMissing,
      ThrowOutsideRequest, FollowAlias, ShareCached, Suspend, Return
<1>8. CASE Configure
  BY <1>1, <1>8 DEF Configure, Register, Override, CreateRequestScope
<1>9. ASSUME NEW k \in Containers, Dispose(k) \/ DisposalStep(k) PROVE Steady
  BY <1>1, <1>9 DEF Dispose, DisposalStep, StaleTasksDone, CollectInstances, FinishDisposal,
     DestroyNext
<1>10. CASE \E k \in Containers, i \in Ids : StaleDisposal(k, i)
  BY <1>1, <1>10 DEF StaleDisposal
<1>11. CASE \E a \in Asks : Resolve(a[1], a[2], a[3])
  BY <1>1, <1>11 DEF Resolve
<1>12. CASE ChildrenDisposed \/ UNCHANGED vars
  BY <1>1, <1>12 DEF ChildrenDisposed, vars
<1> QED
  BY <1>6, <1>7, <1>8, <1>9, <1>10, <1>11, <1>12 DEF Next

\* Disposal is for good.
LEMMA PhasesGrow ==
  ASSUME TypeInv, [Next]_vars, NEW k \in Containers, DisposedInHierarchy(k)
  PROVE  DisposedInHierarchy(k)'
<1>0. Root \in Containers
  BY DEF Containers
<1> SUFFICES ASSUME NEW h \in Containers, Disposed(h) PROVE Disposed(h)'
  BY <1>0 DEF DisposedInHierarchy
<1>1. CASE UNCHANGED phase
  BY <1>1 DEF Disposed
<1>2. ASSUME NEW g \in Children, CreateRequestScope(g) PROVE Disposed(h)'
  BY <1>2 DEF CreateRequestScope, Disposed, TypeInv, TypeOK
<1>3. ASSUME NEW g \in Containers, Dispose(g) PROVE Disposed(h)'
  BY <1>3 DEF Dispose, Disposed
<1>4. ASSUME NEW g \in Containers, DisposalStep(g) PROVE Disposed(h)'
  <2>1. \/ UNCHANGED phase
        \/ \E s \in {"settle", "destroy", "failed", "done"} : phase' = [phase EXCEPT ![g] = s]
    BY <1>4 DEF DisposalStep, StaleTasksDone, CollectInstances, FinishDisposal, DestroyNext
  <2> QED
    BY <1>1, <2>1 DEF Disposed, TypeInv, TypeOK
<1>5. CASE ChildrenDisposed
  BY <1>5 DEF ChildrenDisposed, Disposed, TypeInv, TypeOK
<1>6. ASSUME NEW c \in Calls, CallStep(c) PROVE Disposed(h)'
  BY <1>1, <1>6
  DEF CallStep, Lookups, Unwinding, Resumption, ThrowCircular, ThrowMissing,
      ThrowOutsideRequest, FollowAlias, ShareCached, Instantiate, StorePromise, Suspend,
      ResumeWithDependency, ResumeWithFault, Return, disposalVars
<1>7. CASE \/ \E r \in Registers : Register(r[1], r[2])
           \/ \E o \in Overrides : Override(o[1], o[2])
  BY <1>1, <1>7 DEF Register, Override, disposalVars
<1>8. CASE \/ \E a \in Asks : Resolve(a[1], a[2], a[3])
           \/ \E i \in Ids : FactorySettles(i)
           \/ \E g \in Containers, i \in Ids : StaleDisposal(g, i)
           \/ UNCHANGED vars
  BY ZenonT(60), <1>1, <1>8 DEF Resolve, FactorySettles, StaleDisposal, vars, disposalVars
<1> QED
  BY <1>2, <1>3, <1>4, <1>5, <1>6, <1>7, <1>8 DEF Next, Configure

\* What a step of a call does to the rest of the container.
LEMMA CallStepQuiet ==
  ASSUME NEW c \in Calls, CallStep(c)
  PROVE  UNCHANGED <<registrations, disposalVars>>
BY DEF CallStep, Lookups, Unwinding, Resumption, ThrowCircular, ThrowMissing,
   ThrowOutsideRequest, FollowAlias, ShareCached, Instantiate, StorePromise, Suspend,
   ResumeWithDependency, ResumeWithFault, Return, disposalVars, graphVars

\* Only a promise being stored makes a cache grow.
LEMMA CachesGrow ==
  ASSUME TypeInv, [Next]_vars,
         ~ \E c \in Calls, i \in Ids : StorePromise(c, i)
  PROVE  \A k \in Containers : cache'[k] \subseteq cache[k]
<1>1. CASE UNCHANGED cache
  BY <1>1
<1>2. ASSUME NEW i \in Ids, Fails(i, WaitedFault(i)) \/ \E f : Fails(i, f)
      PROVE  \A k \in Containers : cache'[k] \subseteq cache[k]
  BY <1>2, EvictType, SMTT(30) DEF Fails
<1>3. ASSUME NEW c \in Calls, CallStep(c)
      PROVE  \A k \in Containers : cache'[k] \subseteq cache[k]
  BY <1>1, <1>2, <1>3
  DEF CallStep, Lookups, Unwinding, Resumption, ThrowCircular, ThrowMissing,
      ThrowOutsideRequest, FollowAlias, ShareCached, Instantiate, Suspend,
      ResumeWithDependency, ResumeWithFault, Return
<1>4. CASE Configure
  BY <1>1, <1>4 DEF Configure, Register, Override, CreateRequestScope
<1>5. ASSUME NEW k \in Containers, Dispose(k) \/ DisposalStep(k)
      PROVE  \A h \in Containers : cache'[h] \subseteq cache[h]
  <2>1. CASE FinishDisposal(k)
    BY <2>1 DEF FinishDisposal, ClearDisposalCaches, TypeInv, TypeOK
  <2> QED
    BY <1>1, <1>5, <2>1 DEF Dispose, DisposalStep, StaleTasksDone, CollectInstances, DestroyNext
<1>6. CASE \E i \in Ids : FactorySettles(i)
  BY <1>1, <1>2, <1>6 DEF FactorySettles
<1>7. CASE \/ \E k \in Containers, i \in Ids : StaleDisposal(k, i)
           \/ \E a \in Asks : Resolve(a[1], a[2], a[3])
           \/ ChildrenDisposed \/ UNCHANGED vars
  BY <1>1, <1>7 DEF StaleDisposal, Resolve, ChildrenDisposed, vars
<1> QED
  BY <1>3, <1>4, <1>5, <1>6, <1>7 DEF Next

\* Only a lookup begins a creation.
LEMMA NewGrow ==
  ASSUME TypeInv, [Next]_vars, NEW i \in Ids,
         \/ IsNew(i)' /\ ~IsNew(i)
         \/ promise[i].state = "free" /\ promise'[i].state # "free"
  PROVE  \E c \in Calls : Instantiate(c, i)
<1>1. ~UNCHANGED promise
  BY DEF IsNew
<1>2. ASSUME NEW j \in Ids, NEW f \in Failures, promise[j].state # "free", Fails(j, f) PROVE FALSE
  BY <1>2, FailsEffect DEF IsNew, Failures
<1>3. ASSUME NEW c \in Calls, CallStep(c) PROVE \E d \in Calls : Instantiate(d, i)
  <2>1. ASSUME NEW j \in Ids, Instantiate(c, j) PROVE \E d \in Calls : Instantiate(d, i)
    <3>1. j = i
      BY <2>1, InstantiateEffect DEF IsNew
    <3> QED
      BY <2>1, <3>1
  <2>2. ASSUME NEW j \in Ids, StorePromise(c, j) PROVE FALSE
    BY <2>2, StoreEffect DEF IsNew
  <2>3. ASSUME NEW j \in Ids, ResumeWithDependency(c, j) PROVE FALSE
    <3>1. /\ Innermost(j, Frames(c)) /\ promise'[j].state \in {promise[j].state, "building"}
          /\ \A m \in Ids : m # j => promise'[m] = promise[m]
      BY <2>3, FedEffect
    <3>2. promise[j].state # "free"
      BY <3>1, FrameIs DEF Innermost
    <3> QED
      BY <3>1, <3>2 DEF IsNew
  <2>4. ASSUME NEW j \in Ids, ResumeWithFault(c, j) PROVE FALSE
    <3>1. Innermost(j, Frames(c)) /\ Fails(j, WaitedFault(c)) /\ WaitedFault(c) \in Failures
      BY <2>4, FaultType DEF ResumeWithFault
    <3>2. promise[j].state # "free"
      BY <3>1, FrameIs DEF Innermost
    <3> QED
      BY <1>2, <3>1, <3>2
  <2> QED
    BY <1>1, <1>3, <2>1, <2>2, <2>3, <2>4
    DEF CallStep, Lookups, Unwinding, Resumption, ThrowCircular, ThrowMissing,
        ThrowOutsideRequest, FollowAlias, ShareCached, Suspend, Return
<1>4. ASSUME NEW j \in Ids, FactorySettles(j) PROVE FALSE
  <2>1. promise[j].state = "building" /\ "threw" \in Failures
    BY <1>4 DEF FactorySettles, Failures
  <2>2. CASE promise' = [promise EXCEPT ![j].state = "ok"]
    <3>1. promise'[j].state = "ok" /\ \A m \in Ids : m # j => promise'[m] = promise[m]
      BY <2>2, ReadyEffect
    <3> QED
      BY <2>1, <3>1 DEF IsNew
  <2> QED
    BY <1>2, <1>4, <2>1, <2>2 DEF FactorySettles
<1>5. CASE Configure
  <2>1. UNCHANGED promise
    BY <1>5 DEF Configure, Register, Override, CreateRequestScope
  <2> QED
    BY <1>1, <2>1
<1>6. ASSUME NEW k \in Containers, Dispose(k) \/ DisposalStep(k) PROVE FALSE
  BY <1>1, <1>6 DEF Dispose, DisposalStep, StaleTasksDone, CollectInstances, FinishDisposal,
     DestroyNext
<1>7. CASE \/ \E k \in Containers, j \in Ids : StaleDisposal(k, j)
           \/ \E a \in Asks : Resolve(a[1], a[2], a[3])
           \/ ChildrenDisposed \/ UNCHANGED vars
  BY <1>1, <1>7 DEF StaleDisposal, Resolve, ChildrenDisposed, vars
<1> QED
  BY <1>3, <1>4, <1>5, <1>6, <1>7 DEF Next

\* What takes part was in place before, unless it has just been begun.
LEMMA InPlaceBefore ==
  ASSUME TypeInv, HomeInv, [Next]_vars, NEW i \in Ids, InPlace(i)'
  PROVE  InPlace(i) \/ \E c \in Calls : Instantiate(c, i)
<1> SUFFICES ASSUME ~ \E c \in Calls : Instantiate(c, i) PROVE InPlace(i)
  OBVIOUS
<1>1. Steady
  BY SteadyStep
<1>2. promise'[i].home \in Containers
  <2>1. promise' \in [Ids -> Promises]
    BY TypeStep DEF TypeInv, TypeOK
  <2> QED
    BY <2>1 DEF InPlace, Promises
<1>3. CASE IsNew(i)
  <2>1. promise'[i].home = promise[i].home
    BY <1>1, <1>3 DEF Steady, SameBegun, SameCreation, IsNew
  <2>2. ~DisposedInHierarchy(promise[i].home)
    BY <1>2, <2>1, PhasesGrow DEF InPlace, DisposedInHierarchy, Disposed
  <2> QED
    BY <1>3, <2>1, <2>2 DEF InPlace
<1>4. CASE ~IsNew(i)
  <2>1. ~IsNew(i)'
    BY <1>4, NewGrow
  <2> DEFINE h == promise'[i].home
  <2>2. i \in cache'[h]
    BY <2>1 DEF InPlace
  <2>3. i \in cache[h]
    <3>1. CASE \E c \in Calls, j \in Ids : StorePromise(c, j)
      <4>1. PICK c \in Calls, j \in Ids : StorePromise(c, j)
        BY <3>1
      <4>2. /\ IsNew(j)
            /\ \A k \in Containers : cache'[k] = IF k = promise[j].home THEN cache[k] \cup {j} ELSE cache[k]
        BY <4>1, StoreEffect
      <4>3. j # i /\ (cache'[h] = cache[h] \/ cache'[h] = cache[h] \cup {j})
        BY <1>2, <1>4, <4>2
      <4> QED
        BY <2>2, <4>3
    <3>2. CASE ~ \E c \in Calls, j \in Ids : StorePromise(c, j)
      BY <1>2, <2>2, <3>2, CachesGrow
    <3> QED
      BY <3>1, <3>2
  <2>4. promise[i].home = h
    BY <1>2, <2>3 DEF HomeInv
  <2>5. ~DisposedInHierarchy(h)
    BY <1>2, PhasesGrow DEF InPlace, DisposedInHierarchy, Disposed
  <2> QED
    BY <1>2, <2>3, <2>4, <2>5, ConstantsAssumption DEF InPlace
<1> QED
  BY <1>3, <1>4

\* What a step destroys is marked already, or in a container on its way out.
LEMMA IntactKept ==
  ASSUME TypeInv, HomeInv, [Next]_vars, NEW d \in Ids, Intact(d),
         \A k \in Containers : promise[d].home = k => ~DisposedInHierarchy(k) \/ (k = Root /\ ~Disposed(Root)),
         ~ \E k \in Containers, p \in Providers : Override(k, p) /\ \E h \in Containers : d \in Invalid(k, h, provide[p])
  PROVE  Intact(d)'
<1>1. CASE UNCHANGED <<stale, destroyed>>
  BY <1>1 DEF Intact
<1>2. ASSUME NEW k \in Containers, NEW p \in Providers, Override(k, p) PROVE Intact(d)'
  BY <1>2 DEF Override, ScheduleStaleDisposal, Intact
<1>3. ASSUME NEW k \in Containers, NEW i \in Ids, StaleDisposal(k, i) PROVE Intact(d)'
  <2>1. i # d
    BY <1>3 DEF StaleDisposal, Intact
  <2>2. destroyed'[d] = destroyed[d] /\ \A h \in Containers : stale'[h] \subseteq stale[h]
    BY <1>3, <2>1 DEF StaleDisposal, TypeInv, TypeOK
  <2> QED
    BY <2>2 DEF Intact
<1>4. ASSUME NEW k \in Containers, NEW i \in Ids, DestroyNext(k, i) PROVE Intact(d)'
  <2>1. i \in todo[k] /\ phase[k] = "destroy"
    BY <1>4 DEF DestroyNext, Latest
  <2>2. promise[i].home = k /\ Disposed(k)
    BY <2>1 DEF HomeInv, Disposed
  <2>3. i # d
    BY <2>2 DEF DisposedInHierarchy
  <2>4. destroyed'[d] = destroyed[d] /\ UNCHANGED stale
    BY <1>4, <2>3 DEF DestroyNext, TypeInv, TypeOK
  <2> QED
    BY <2>4 DEF Intact
<1>5. ASSUME NEW k \in Containers, Dispose(k) \/ DisposalStep(k) PROVE Intact(d)'
  BY <1>1, <1>4, <1>5 DEF Dispose, DisposalStep, StaleTasksDone, CollectInstances, FinishDisposal
<1>6. CASE Configure
  BY <1>1, <1>2, <1>6, PairsConfigured DEF Configure, Register, CreateRequestScope, disposalVars
<1>7. ASSUME NEW c \in Calls, CallStep(c) PROVE Intact(d)'
  BY <1>1, <1>7, CallStepQuiet DEF disposalVars
<1>8. CASE \/ \E a \in Asks : Resolve(a[1], a[2], a[3])
           \/ \E i \in Ids : FactorySettles(i)
           \/ ChildrenDisposed \/ UNCHANGED vars
  BY <1>1, <1>8 DEF Resolve, FactorySettles, ChildrenDisposed, vars, disposalVars
<1> QED
  BY <1>3, <1>5, <1>6, <1>7, <1>8 DEF Next

LEMMA UseInit == Init => IntactInv /\ TrackedInv /\ DepsInv /\ FreshInv
<1> SUFFICES ASSUME Init PROVE IntactInv /\ TrackedInv /\ DepsInv /\ FreshInv
  OBVIOUS
<1>1. /\ \A k \in Containers : cache[k] = {}
      /\ \A i \in Ids : promise[i].state = "free" /\ promise[i].home = None /\ promise[i].deps = {}
      /\ trackedByRoot = {} /\ \A c \in Calls : call[c].mode = "idle"
  BY DEF Init, FreePromise, IdleCall
<1>2. IntactInv /\ TrackedInv /\ FreshInv
  BY <1>1 DEF IntactInv, TrackedInv, FreshInv, InUse, InPlace
<1>3. DepsInv
  BY <1>1 DEF DepsInv, Waiting
<1> QED
  BY <1>2, <1>3

LEMMA IntactStep ==
  ASSUME TypeInv, DestroyInv, IntactInv, [Next]_vars
  PROVE  IntactInv'
<1>0. HomeInv /\ RootInv /\ Root \in Containers
  BY DEF DestroyInv, Containers
<1> SUFFICES ASSUME NEW k \in Containers, ~DisposedInHierarchy(k)', NEW i \in cache'[k]
             PROVE  Intact(i)'
  BY DEF IntactInv
<1>1. ~DisposedInHierarchy(k)
  BY PhasesGrow
<1>2. i \in Ids
  BY TypeStep DEF TypeInv, TypeOK
<1>3. ASSUME NEW c \in Calls, NEW j \in Ids, StorePromise(c, j) PROVE Intact(i)'
  <2>1. /\ IsNew(j) /\ UNCHANGED disposalVars
        /\ cache'[k] = IF k = promise[j].home THEN cache[k] \cup {j} ELSE cache[k]
    BY <1>3, StoreEffect
  <2>2. ~Stored(j)
    BY <2>1 DEF IsNew, Stored
  <2>3. Intact(j)
    BY <1>0, <2>2 DEF HomeInv, RootInv, Intact
  <2>4. Intact(i)
    BY <1>1, <2>1, <2>3 DEF IntactInv
  <2> QED
    BY <2>1, <2>4 DEF Intact, disposalVars
<1>4. CASE ~ \E c \in Calls, j \in Ids : StorePromise(c, j)
  <2>1. i \in cache[k]
    BY <1>4, CachesGrow
  <2>2. Intact(i) /\ promise[i].home = k
    BY <1>0, <1>1, <2>1 DEF IntactInv, HomeInv
  <2>3. ASSUME NEW g \in Containers, NEW p \in Providers, Override(g, p),
               NEW h \in Containers, i \in Invalid(g, h, provide[p])
        PROVE  FALSE
    <3>1. i \in cache[h]
      BY <2>3 DEF Invalid
    <3>2. h = k
      BY <1>0, <2>2, <3>1 DEF HomeInv
    <3> QED
      BY <2>3, <3>2 DEF Override
  <2> QED
    BY <1>0, <1>1, <1>2, <2>2, <2>3, IntactKept
<1> QED
  BY <1>3, <1>4

LEMMA TrackedStep ==
  ASSUME TypeInv, DestroyInv, TrackedInv, [Next]_vars
  PROVE  TrackedInv'
<1>0. HomeInv /\ Root \in Containers /\ Children \subseteq Containers
  BY DEF DestroyInv, Containers
<1>1. \A k \in Containers : ~DisposedInHierarchy(k)' => ~DisposedInHierarchy(k)
  BY PhasesGrow
\* Which scopes are tracked.
<1>2. \/ UNCHANGED trackVars
      \/ \E c \in Calls, h \in Containers \cup {None} : Track(h)
      \/ \E k \in Containers : FinishDisposal(k)
      \/ \E k \in Containers : Dispose(k)
      \/ ChildrenDisposed
  <2>1. ASSUME NEW c \in Calls, CallStep(c)
        PROVE  UNCHANGED trackVars \/ \E h \in Containers \cup {None} : Track(h)
    <3>1. CASE ShareCached(c)
      <4>1. Home(call[c].in, Found(c)) \in Containers
        BY <3>1, LookingType, HomeType DEF ShareCached, Cacheable
      <4> QED
        BY <3>1, <4>1 DEF ShareCached
    <3>2. ASSUME NEW i \in Ids, Instantiate(c, i)
          PROVE  \E h \in Containers \cup {None} : Track(h)
      <4>1. Home(call[c].in, Found(c)) \in Containers
        BY <3>2, LookingType, HomeType DEF Instantiate
      <4> QED
        BY <3>2, <4>1 DEF Instantiate
    <3> QED
      BY <2>1, <3>1, <3>2
      DEF CallStep, Lookups, Unwinding, Resumption, ThrowCircular, ThrowMissing,
          ThrowOutsideRequest, FollowAlias, StorePromise, Suspend,
          ResumeWithDependency, ResumeWithFault, Return
  <2>2. CASE Configure
    BY <2>2 DEF Configure, Register, Override, CreateRequestScope
  <2>3. ASSUME NEW k \in Containers, DisposalStep(k) PROVE UNCHANGED trackVars \/ FinishDisposal(k)
    BY <2>3 DEF DisposalStep, StaleTasksDone, CollectInstances, DestroyNext
  <2>4. CASE \/ \E k \in Containers, j \in Ids : StaleDisposal(k, j)
             \/ \E a \in Asks : Resolve(a[1], a[2], a[3])
             \/ \E j \in Ids : FactorySettles(j)
             \/ UNCHANGED vars
    BY <2>4 DEF StaleDisposal, Resolve, FactorySettles, vars
  <2> QED
    BY <2>1, <2>2, <2>3, <2>4, SMTT(30) DEF Next
\* A scope in use that was tracked, or is now, is known to the root.
<1>3. ASSUME NEW k \in Children, ~DisposedInHierarchy(k)', k \in childScopes PROVE k \in childScopes'
  <2>1. ~Disposed(Root)' /\ ~Disposed(k)'
    BY <1>3 DEF DisposedInHierarchy
  <2>2. ASSUME NEW h \in Containers, FinishDisposal(h) PROVE k \in childScopes'
    <3>1. phase'[h] \in {"failed", "done"}
      BY <2>2 DEF FinishDisposal, TypeInv, TypeOK
    <3>2. h # k
      BY <2>1, <3>1 DEF Disposed
    <3> QED
      BY <1>3, <2>2, <3>2 DEF FinishDisposal
  <2>3. ASSUME NEW h \in Containers, Dispose(h) PROVE k \in childScopes'
    <3>1. CASE h = Root
      <4>1. phase'[Root] \in {"children", "stale"}
        BY <1>0, <2>3, <3>1 DEF Dispose
      <4> QED
        BY <2>1, <4>1 DEF Disposed
    <3>2. CASE h # Root
      BY <1>3, <2>3, <3>2 DEF Dispose
    <3> QED
      BY <3>1, <3>2
  <2>4. ~ChildrenDisposed
    BY <1>0, <2>1 DEF ChildrenDisposed, Disposed, TypeInv, TypeOK
  <2> QED
    BY <1>2, <1>3, <2>2, <2>3, <2>4 DEF Track, trackVars
<1>4. \A k \in trackedByRoot' : ~DisposedInHierarchy(k)' => k \in childScopes'
  <2> SUFFICES ASSUME NEW k \in trackedByRoot', ~DisposedInHierarchy(k)' PROVE k \in childScopes'
    OBVIOUS
  <2>1. k \in trackedByRoot \/ k \in childScopes'
    BY <1>2 DEF Track, trackVars, FinishDisposal, Dispose, ChildrenDisposed
  <2>2. k \in Children
    BY TypeStep DEF TypeInv, TypeOK
  <2> QED
    BY <1>0, <1>1, <1>3, <2>1, <2>2 DEF TrackedInv
<1>5. ASSUME NEW i \in Ids, InPlace(i)', promise'[i].home # Root
      PROVE  promise'[i].home \in childScopes'
  <2>1. promise'[i].home \in Children
    <3>1. promise' \in [Ids -> Promises]
      BY TypeStep DEF TypeInv, TypeOK
    <3> QED
      BY <1>5, <3>1 DEF InPlace, Promises, Containers
  <2>2. CASE InPlace(i)
    <3>1. promise'[i].home = promise[i].home
      BY <1>0, <2>2, SteadyStep, InUseBegun DEF Steady, SameBegun, SameCreation
    <3> QED
      BY <1>3, <1>5, <2>1, <2>2, <3>1 DEF TrackedInv, InPlace
  <2>3. ASSUME NEW c \in Calls, Instantiate(c, i) PROVE promise'[i].home \in childScopes'
    <3>1. Track(IF scope[Found(c)] = "transient" THEN None ELSE Home(call[c].in, Found(c)))
      BY <2>3 DEF Instantiate
    <3>2. promise'[i].home \in trackedByRoot'
      BY <2>1, <2>3, <3>1, InstantiateEffect DEF Track
    <3>3. ~DisposedInHierarchy(promise[i].home)'
      BY <1>5 DEF InPlace, DisposedInHierarchy, Disposed
    <3> QED
      BY <1>4, <3>2, <3>3 DEF DisposedInHierarchy, Disposed
  <2> QED
    BY <1>0, <1>5, <2>2, <2>3, InPlaceBefore
<1> QED
  BY <1>4, <1>5 DEF TrackedInv


LEMMA CallsApart ==
  ASSUME TypeInv, NEW c \in Calls, CallStep(c)
  PROVE  \A d \in Calls : d # c => call'[d] = call[d]
<1>1. ASSUME NEW i, NEW f, AwaitNext(c, i, f) PROVE \A d \in Calls : d # c => call'[d] = call[d]
  BY <1>1, AwaitFields
<1>2. CASE Lookups(c)
  <2>1. ASSUME NEW i \in Ids, Instantiate(c, i) PROVE \A d \in Calls : d # c => call'[d] = call[d]
    BY <2>1, InstantiateFields
  <2>2. CASE FollowAlias(c)
    BY <2>2 DEF FollowAlias, TypeInv, TypeOK
  <2> QED
    BY <1>1, <1>2, <2>1, <2>2
    DEF Lookups, ThrowCircular, ThrowMissing, ThrowOutsideRequest, ShareCached
<1>3. CASE Unwinding(c)
  BY <1>3 DEF Unwinding, StorePromise, Suspend, TypeInv, TypeOK
<1>4. CASE Resumption(c)
  <2>1. ASSUME NEW i \in Ids, ResumeWithDependency(c, i)
        PROVE  \A d \in Calls : d # c => call'[d] = call[d]
    BY <2>1, FedFields
  <2>2. ASSUME NEW i \in Ids, ResumeWithFault(c, i)
        PROVE  \A d \in Calls : d # c => call'[d] = call[d]
    BY <2>2 DEF ResumeWithFault, TypeInv, TypeOK
  <2>3. CASE Return(c)
    BY <2>3 DEF Return, TypeInv, TypeOK
  <2> QED
    BY <1>4, <2>1, <2>2, <2>3 DEF Resumption
<1> QED
  BY <1>2, <1>3, <1>4 DEF CallStep

\* What a call begins to wait for was begun, and is its own or shared.
LEMMA WaitsStep ==
  ASSUME TypeInv, DestroyInv, [Next]_vars, NEW c \in Calls, NEW w \in Ids,
         Waiting(c)', call'[c].waits = w
  PROVE  \/ Waiting(c) /\ call[c].waits = w
         \/ promise'[w].state # "free" /\ (promise'[w].home = None => promise'[w].owner = c)
<1>0. HomeInv /\ 0 \notin Ids
  BY DEF DestroyInv, Ids
<1>1. ASSUME call'[c] = call[c] PROVE Waiting(c) /\ call[c].waits = w
  BY <1>1 DEF Waiting
<1>2. CASE CallStep(c)
  <2>1. CASE ThrowCircular(c) \/ ThrowMissing(c) \/ ThrowOutsideRequest(c)
    <3>1. PICK f : AwaitNext(c, 0, f)
      BY <2>1 DEF ThrowCircular, ThrowMissing, ThrowOutsideRequest
    <3> QED
      BY <1>0, <3>1, AwaitFields
  <2>2. CASE FollowAlias(c)
    <3>1. call'[c].mode = "resolve"
      BY <2>2 DEF FollowAlias, Looking, TypeInv, TypeOK, CallRecords
    <3> QED
      BY <3>1 DEF Waiting
  <2>3. CASE ShareCached(c)
    <3>1. PICK i \in Hits(c) : AwaitNext(c, i, "none")
      BY <2>3 DEF ShareCached
    <3>2. i = w
      BY <3>1, AwaitFields
    <3>3. Home(call[c].in, Found(c)) \in Containers
      BY <2>3, LookingType, HomeType DEF ShareCached, Cacheable
    <3>4. promise[w].home \in Containers /\ Stored(w)
      BY <1>0, <3>1, <3>2, <3>3 DEF Hits, CachedFor, HomeInv
    <3>5. promise' = promise
      BY <2>3 DEF ShareCached
    <3> QED
      BY <3>4, <3>5, ConstantsAssumption DEF Stored
  <2>4. ASSUME NEW i \in Ids, Instantiate(c, i)
        PROVE  promise'[w].state # "free" /\ promise'[w].owner = c
    <3>1. w = i
      BY <1>0, <2>4, InstantiateFields DEF Waiting
    <3> QED
      BY <2>4, <3>1, InstantiateEffect
  <2>5. CASE Unwinding(c)
    <3>1. call'[c].waits = call[c].waits /\ Waiting(c)
      BY <2>5 DEF Unwinding, StorePromise, Suspend, Waiting, TypeInv, TypeOK, CallRecords
    <3> QED
      BY <3>1
  <2>6. ASSUME NEW i \in Ids, ResumeWithDependency(c, i)
        PROVE  promise'[w].state # "free" /\ promise'[w].owner = c
    <3>1. i = w
      BY <2>6, FedFields DEF Waiting
    <3>2. /\ Innermost(i, Frames(c)) /\ SameCreation(promise[i], promise'[i])
          /\ promise'[i].state \in {promise[i].state, "building"}
      BY <2>6, FedEffect
    <3>3. promise[i].owner = c /\ promise[i].state # "free"
      BY <3>2, FrameIs DEF Innermost
    <3> QED
      BY <3>1, <3>2, <3>3 DEF SameCreation
  <2>7. ASSUME NEW i \in Ids, ResumeWithFault(c, i)
        PROVE  promise'[w].state # "free" /\ promise'[w].owner = c
    <3>1. i = w
      BY <2>7 DEF ResumeWithFault, TypeInv, TypeOK, CallRecords
    <3>2. promise[i].owner = c /\ promise[i].state # "free"
      BY <2>7, FrameIs DEF ResumeWithFault, Innermost
    <3> QED
      BY <3>1, <3>2, SteadyStep DEF Steady, SameBegun, SameCreation
  <2>8. CASE Return(c)
    <3>1. call'[c].mode = "done"
      BY <2>8 DEF Return, TypeInv, TypeOK, CallRecords
    <3> QED
      BY <3>1 DEF Waiting
  <2> QED
    BY <1>2, <2>1, <2>2, <2>3, <2>4, <2>5, <2>6, <2>7, <2>8 DEF CallStep, Lookups, Resumption
<1>3. CASE \E d \in Calls : CallStep(d) /\ d # c
  BY <1>1, <1>3, CallsApart
<1>4. ASSUME NEW a \in Asks, Resolve(a[1], a[2], a[3]) PROVE Waiting(c) /\ call[c].waits = w
  <2> DEFINE over == [call[a[1]] EXCEPT !.mode = "done", !.fault = "disposed"]
             begun == [call[a[1]] EXCEPT !.mode = "resolve", !.in = a[2], !.want = a[3]]
  <2>1. a[1] \in Calls /\ (call' = [call EXCEPT ![a[1]] = over] \/ call' = [call EXCEPT ![a[1]] = begun])
    BY <1>4, ConstantsAssumption DEF Resolve
  <2>2. call \in [Calls -> CallRecords]
    BY DEF TypeInv, TypeOK
  <2>3. over.mode = "done" /\ begun.mode = "resolve"
    BY <2>1, <2>2 DEF CallRecords
  <2> HIDE DEF over, begun
  <2>4. a[1] # c => call'[c] = call[c]
    BY <2>1, <2>2
  <2>5. a[1] = c => call'[c].mode \in {"done", "resolve"}
    BY <2>1, <2>2, <2>3
  <2> QED
    BY <1>1, <2>4, <2>5 DEF Waiting
<1>5. CASE UNCHANGED call
  BY <1>1, <1>5
<1>6. CASE Configure
  BY <1>5, <1>6 DEF Configure, Register, Override, CreateRequestScope
<1>7. ASSUME NEW k \in Containers, Dispose(k) \/ DisposalStep(k) PROVE UNCHANGED call
  BY <1>7 DEF Dispose, DisposalStep, StaleTasksDone, CollectInstances, FinishDisposal, DestroyNext
<1>8. CASE \/ \E k \in Containers, j \in Ids : StaleDisposal(k, j)
           \/ \E j \in Ids : FactorySettles(j)
           \/ ChildrenDisposed \/ UNCHANGED vars
  BY <1>5, <1>8 DEF StaleDisposal, FactorySettles, ChildrenDisposed, vars
<1> QED
  BY <1>2, <1>3, <1>4, <1>5, <1>6, <1>7, <1>8 DEF Next

\* What is injected is handed to a creation that has begun.
LEMMA DepsChange ==
  ASSUME TypeInv, [Next]_vars, NEW i \in Ids, promise'[i].deps # promise[i].deps
  PROVE  \E c \in Calls : ResumeWithDependency(c, i) \/ Instantiate(c, i)
<1>1. promise'[i].deps # promise[i].deps
  OBVIOUS
<1>2. ~UNCHANGED promise
  BY <1>1
<1>3. ASSUME NEW j \in Ids, NEW f \in Failures, promise[j].state # "free", Fails(j, f) PROVE FALSE
  BY <1>1, <1>3, FailsEffect
<1>4. ASSUME NEW c \in Calls, CallStep(c)
      PROVE  ResumeWithDependency(c, i) \/ Instantiate(c, i)
  <2>1. ASSUME NEW j \in Ids, Instantiate(c, j) PROVE Instantiate(c, i)
    <3>1. \A m \in Ids : m # j => promise'[m] = promise[m]
      BY <2>1, InstantiateEffect
    <3> QED
      BY <1>1, <2>1, <3>1
  <2>2. ASSUME NEW j \in Ids, StorePromise(c, j) PROVE FALSE
    <3>1. promise'[j].deps = promise[j].deps /\ \A m \in Ids : m # j => promise'[m] = promise[m]
      BY <2>2, StoreEffect
    <3> QED
      BY <1>1, <3>1
  <2>3. ASSUME NEW j \in Ids, ResumeWithDependency(c, j)
        PROVE  ResumeWithDependency(c, i)
    <3>1. \A m \in Ids : m # j => promise'[m] = promise[m]
      BY <2>3, FedEffect
    <3>2. j = i
      BY <1>1, <3>1
    <3> QED
      BY <2>3, <3>1, <3>2
  <2>4. ASSUME NEW j \in Ids, ResumeWithFault(c, j) PROVE FALSE
    <3>1. Innermost(j, Frames(c)) /\ Fails(j, WaitedFault(c)) /\ WaitedFault(c) \in Failures
      BY <2>4, FaultType DEF ResumeWithFault
    <3>2. promise[j].state # "free"
      BY <3>1, FrameIs DEF Innermost
    <3> QED
      BY <1>3, <3>1, <3>2
  <2> QED
    BY <1>2, <1>4, <2>1, <2>2, <2>3, <2>4
    DEF CallStep, Lookups, Unwinding, Resumption, ThrowCircular, ThrowMissing,
        ThrowOutsideRequest, FollowAlias, ShareCached, Suspend, Return
<1>5. ASSUME NEW j \in Ids, FactorySettles(j) PROVE FALSE
  <2>1. promise[j].state = "building" /\ "threw" \in Failures
    BY <1>5 DEF FactorySettles, Failures
  <2>2. ASSUME promise' = [promise EXCEPT ![j].state = "ok"] PROVE FALSE
    BY <1>1, <2>2, ReadyEffect
  <2> QED
    BY <1>3, <1>5, <2>1, <2>2 DEF FactorySettles
<1>6. ASSUME Configure PROVE FALSE
  BY <1>2, <1>6 DEF Configure, Register, Override, CreateRequestScope
<1>7. ASSUME NEW k \in Containers, Dispose(k) \/ DisposalStep(k) PROVE FALSE
  BY <1>2, <1>7 DEF Dispose, DisposalStep, StaleTasksDone, CollectInstances, FinishDisposal,
     DestroyNext
<1>8. ASSUME \/ \E k \in Containers, j \in Ids : StaleDisposal(k, j)
             \/ \E a \in Asks : Resolve(a[1], a[2], a[3])
             \/ ChildrenDisposed \/ UNCHANGED vars
      PROVE  FALSE
  BY <1>2, <1>8 DEF StaleDisposal, Resolve, ChildrenDisposed, vars
<1> QED
  BY <1>4, <1>5, <1>6, <1>7, <1>8 DEF Next

\* What is injected was waited for, and has arrived.
LEMMA DepsGrow ==
  ASSUME TypeInv, [Next]_vars, NEW i \in Ids, NEW d \in promise'[i].deps, d \notin promise[i].deps
  PROVE  \E c \in Calls : ResumeWithDependency(c, i) /\ d = call[c].waits /\ Fulfilled(d)
<1>1. PICK c \in Calls : ResumeWithDependency(c, i) \/ Instantiate(c, i)
  BY DepsChange
<1>2. ResumeWithDependency(c, i)
  BY <1>1, InstantiateEffect
<1>3. promise'[i].deps = promise[i].deps \cup {call[c].waits} /\ Fulfilled(call[c].waits)
  BY <1>2, FedEffect
<1> QED
  BY <1>2, <1>3

LEMMA DepsStep ==
  ASSUME TypeInv, DestroyInv, DepsInv, [Next]_vars
  PROVE  DepsInv'
<1>0. Steady
  BY SteadyStep
<1>1. ASSUME NEW i \in Ids, promise'[i].state # "free" PROVE useExisting[promise'[i].prov] = None
  <2>1. CASE promise[i].state # "free"
    BY <1>0, <2>1 DEF Steady, SameBegun, SameCreation, DepsInv
  <2>2. CASE promise[i].state = "free"
    <3>1. PICK c \in Calls : Instantiate(c, i)
      BY <1>1, <2>2, NewGrow
    <3>2. promise'[i].prov = Found(c)
      BY <3>1, InstantiateEffect
    <3>3. useExisting[Found(c)] = None
      BY <3>1 DEF Instantiate
    <3> QED
      BY <3>2, <3>3
  <2> QED
    BY <2>1, <2>2
<1>2. ASSUME NEW i \in Ids, NEW d \in promise'[i].deps PROVE d \in Ids /\ Fulfilled(d)
  <2>1. promise' \in [Ids -> Promises] /\ promise \in [Ids -> Promises]
    BY TypeStep DEF TypeInv, TypeOK
  <2>2. d \in Ids
    BY <2>1 DEF Promises
  <2>3. CASE d \in promise[i].deps
    BY <2>2, <2>3 DEF DepsInv
  <2>4. CASE d \notin promise[i].deps
    BY <1>2, <2>2, <2>4, DepsGrow
  <2> QED
    BY <2>3, <2>4
<1>3. ASSUME NEW i \in Ids, NEW d \in promise'[i].deps PROVE Fulfilled(d)'
  BY <1>0, <1>2 DEF Steady, Fulfilled, Settled, Unsettled
<1>4. ASSUME NEW c \in Calls, NEW w \in Ids, Waiting(c)', call'[c].waits = w
      PROVE  /\ promise'[w].state # "free"
             /\ promise'[w].home = None /\ ~Settled(w)' => promise'[w].owner = c
  <2>1. CASE Waiting(c) /\ call[c].waits = w
    <3>1. /\ promise[w].state # "free"
          /\ promise[w].home = None /\ ~Settled(w) => promise[w].owner = c
      BY <2>1 DEF DepsInv
    <3> QED
      BY <1>0, <3>1 DEF Steady, SameBegun, SameCreation, Settled
  <2> QED
    BY <1>4, <2>1, WaitsStep
<1> QED
  BY <1>1, <1>3, <1>4 DEF DepsInv

AllInv == CacheInv /\ IsolationInv /\ IntactInv /\ TrackedInv /\ DepsInv /\ FreshInv

LEMMA RegistrationsStay ==
  ASSUME TypeInv, [Next]_vars, NEW k \in Containers, NEW t \in Tokens,
         registrations'[k][t] = None
  PROVE  registrations[k][t] = None
<1>0. registrations \in [Containers -> [Tokens -> Providers \cup {None}]]
  BY DEF TypeInv, TypeOK
<1>1. CASE UNCHANGED registrations
  BY <1>1
<1>2. ASSUME NEW h \in Containers, NEW p \in Providers, Register(h, p) \/ Override(h, p)
      PROVE  registrations[k][t] = None
  BY <1>0, <1>2, ConstantsAssumption DEF Register, Override
<1>3. CASE Configure
  BY <1>1, <1>2, <1>3, PairsConfigured DEF Configure, CreateRequestScope, graphVars
<1>4. ASSUME NEW c \in Calls, CallStep(c) PROVE registrations[k][t] = None
  BY <1>1, <1>4, CallStepQuiet
<1>5. ASSUME NEW h \in Containers, Dispose(h) \/ DisposalStep(h) PROVE registrations[k][t] = None
  BY <1>1, <1>5 DEF Dispose, DisposalStep, StaleTasksDone, CollectInstances, FinishDisposal,
     DestroyNext, graphVars
<1>6. CASE \/ \E h \in Containers, j \in Ids : StaleDisposal(h, j)
           \/ \E a \in Asks : Resolve(a[1], a[2], a[3])
           \/ \E j \in Ids : FactorySettles(j)
           \/ ChildrenDisposed \/ UNCHANGED vars
  BY <1>1, <1>6 DEF StaleDisposal, Resolve, FactorySettles, ChildrenDisposed, vars, graphVars
<1> QED
  BY <1>3, <1>4, <1>5, <1>6 DEF Next

LEMMA InUseBefore ==
  ASSUME TypeInv, HomeInv, [Next]_vars, NEW i \in Ids, InUse(i)', promise[i].state # "free"
  PROVE  InUse(i)
<1>1. InPlace(i)
  <2>1. InPlace(i)'
    BY DEF InUse
  <2>2. ~ \E c \in Calls : Instantiate(c, i)
    BY InstantiateEffect
  <2> QED
    BY <2>1, <2>2, InPlaceBefore
<1>2. promise'[i].home = promise[i].home /\ promise[i].home \in Containers
  BY <1>1, SteadyStep, InUseBegun DEF Steady, SameBegun, SameCreation
<1>3. SharesGraph(promise[i].home)
  BY <1>2, RegistrationsStay DEF InUse, SharesGraph
<1> QED
  BY <1>1, <1>3 DEF InUse

\* What override() evicts of what is in use, it evicts together with all that
\* was built from it.
LEMMA OverrideMisses ==
  ASSUME CacheInv, TrackedInv, NEW k \in Containers, NEW p \in Providers, Override(k, p),
         NEW i \in Ids, InUse(i), InUse(i)',
         NEW d \in Ids, Feeds(d, i), NEW h \in Containers, d \in Invalid(k, h, provide[p])
  PROVE  FALSE
<1> USE DEF CacheInv, DestroyInv
<1>0. Root \in Containers /\ None \notin Containers
  BY ConstantsAssumption DEF Containers
<1>1. promise[i].state # "free" /\ promise[i].home \in Containers /\ promise' = promise
  BY InUseBegun DEF InUse, Override
<1>2. /\ promise[d].home = h /\ h \in Invalidates(k) /\ d \in cache[h]
      /\ Affected(h, TokenOf(d), provide[p])
  BY DEF Invalid, HomeInv, TokenOf
<1>3. h \in {promise[i].home, Root}
  BY <1>0, <1>2 DEF Feeds
<1>4. i \in cache[promise[i].home] /\ i \in cache'[promise[i].home]
  <2>1. ~IsNew(i) /\ ~IsNew(i)'
    BY <1>1, NothingNew DEF CellInv, Override, IsNew
  <2> QED
    BY <1>1, <2>1 DEF InUse, InPlace
<1>5. CASE k # Root
  <2>1. h = k /\ k = promise[i].home
    BY <1>2, <1>3, <1>5 DEF Invalidates
  <2>2. registrations'[k][provide[p]] = p /\ provide[p] \in Tokens /\ p # None
    BY ConstantsAssumption DEF Override, TypeInv, TypeOK
  <2>3. SharesGraph(k)'
    BY <1>1, <2>1 DEF InUse
  <2> QED
    BY <1>5, <2>2, <2>3 DEF SharesGraph
<1>6. CASE k = Root
  <2>1. SharesGraph(h) /\ SharesGraph(promise[i].home)
    BY <1>3 DEF InUse, SharesGraph
  <2>2. provide[p] \in Below(i)
    <3>1. provide[p] \in Reachable(Root, {TokenOf(d)})
      BY <1>2, <2>1, SharedReach DEF Affected
    <3>2. TokenOf(d) \in Below(i)
      BY DEF Feeds
    <3> QED
      BY <3>1, <3>2, ReachOn DEF Below
  <2>3. promise[i].home \in Invalidates(k)
    BY <1>6 DEF Invalidates, TrackedInv, InUse
  <2>4. provide[p] \in Reachable(promise[i].home, {TokenOf(i)})
    BY <1>1, <2>1, <2>2, SharedReach DEF Below
  <2>5. i \in Invalid(k, promise[i].home, provide[p])
    BY <1>4, <2>3, <2>4 DEF Invalid, Affected, TokenOf
  <2> QED
    BY <1>1, <1>4, <2>5 DEF Override
<1> QED
  BY <1>5, <1>6

\* Nor does it replace what is below an instance that stays.
LEMMA OverrideBelow ==
  ASSUME CacheInv, TrackedInv, NEW p \in Providers, Override(Root, p),
         NEW i \in Ids, InUse(i), InUse(i)'
  PROVE  provide[p] \notin Below(i)
<1> USE DEF CacheInv, DestroyInv
<1> SUFFICES ASSUME provide[p] \in Below(i) PROVE FALSE
  OBVIOUS
<1>1. promise[i].state # "free" /\ promise[i].home \in Containers /\ promise' = promise
  BY InUseBegun DEF InUse, Override
<1>2. ~IsNew(i) /\ ~IsNew(i)'
  BY <1>1, NothingNew DEF CellInv, Override, IsNew
<1>3. i \in cache[promise[i].home] /\ i \in cache'[promise[i].home]
  BY <1>1, <1>2 DEF InUse, InPlace
<1>4. promise[i].home \in Invalidates(Root)
  BY DEF Invalidates, TrackedInv, InUse
<1>5. provide[p] \in Reachable(promise[i].home, {TokenOf(i)})
  BY <1>1, SharedReach DEF Below, InUse
<1>6. i \in Invalid(Root, promise[i].home, provide[p])
  BY <1>3, <1>4, <1>5 DEF Invalid, Affected, TokenOf
<1> QED
  BY <1>1, <1>3, <1>6 DEF Override

\* What is in use before and after a step is spared by it.
LEMMA SparesStep ==
  ASSUME CacheInv, TrackedInv, [Next]_vars, NEW i \in Ids, InUse(i), InUse(i)'
  PROVE  Spares(i)
<1> USE DEF CacheInv, DestroyInv
<1>0. Root \in Containers /\ Root # None
  BY ConstantsAssumption DEF Containers
<1>1. promise[i].state # "free" /\ promise[i].home \in Containers
  BY InUseBegun DEF InUse
<1>2. TokenOf(i)' = TokenOf(i)
  BY <1>1, SteadyStep DEF Steady, SameBegun, SameCreation, TokenOf
<1>3. ASSUME NEW d \in Ids, Feeds(d, i) PROVE Intact(d)'
  <2>1. Intact(d) /\ promise[d].home \in {promise[i].home, Root, None}
    BY <1>3 DEF Feeds
  <2>2. ~DisposedInHierarchy(promise[i].home) /\ ~Disposed(Root)
    BY DEF InUse, InPlace, DisposedInHierarchy
  <2>3. \A k \in Containers : promise[d].home = k => ~DisposedInHierarchy(k) \/ (k = Root /\ ~Disposed(Root))
    BY <2>1, <2>2, ConstantsAssumption
  <2>4. ~ \E k \in Containers, p \in Providers :
          Override(k, p) /\ \E h \in Containers : d \in Invalid(k, h, provide[p])
    BY <1>3, OverrideMisses
  <2> QED
    BY <2>1, <2>3, <2>4, IntactKept
<1>4. \/ \A t \in Tokens : registrations'[Root][t] = registrations[Root][t]
      \/ \E p \in Providers : Register(Root, p) \/ Override(Root, p)
  <2>1. CASE UNCHANGED registrations
    BY <2>1
  <2>2. ASSUME NEW k \in Containers, NEW p \in Providers, Register(k, p) \/ Override(k, p)
        PROVE  k = Root \/ \A t \in Tokens : registrations'[Root][t] = registrations[Root][t]
    BY <1>0, <2>2 DEF Register, Override, TypeInv, TypeOK
  <2>3. CASE Configure
    BY <2>1, <2>2, <2>3, PairsConfigured DEF Configure, CreateRequestScope, graphVars
  <2>4. ASSUME NEW c \in Calls, CallStep(c) PROVE UNCHANGED registrations
    BY <2>4, CallStepQuiet
  <2>5. ASSUME NEW h \in Containers, Dispose(h) \/ DisposalStep(h) PROVE UNCHANGED registrations
    BY <2>5 DEF Dispose, DisposalStep, StaleTasksDone, CollectInstances, FinishDisposal,
       DestroyNext, graphVars
  <2>6. CASE \/ \E h \in Containers, j \in Ids : StaleDisposal(h, j)
             \/ \E a \in Asks : Resolve(a[1], a[2], a[3])
             \/ \E j \in Ids : FactorySettles(j)
             \/ ChildrenDisposed \/ UNCHANGED vars
    BY <2>1, <2>6 DEF StaleDisposal, Resolve, FactorySettles, ChildrenDisposed, vars, graphVars
  <2> QED
    BY <2>1, <2>3, <2>4, <2>5, <2>6 DEF Next
<1>5. CASE \A t \in Tokens : registrations'[Root][t] = registrations[Root][t]
  <2>1. \A t \in Tokens : Successors(Root, t)' = Successors(Root, t)
    BY <1>5 DEF Successors, Lookup
  <2>2. Below(i)' = Below(i)
    BY <1>2, <2>1 DEF Below, Reachable
  <2> QED
    BY <1>3, <1>5, <2>2 DEF Spares, Below, Reachable
<1>6. ASSUME NEW p \in Providers, Register(Root, p) \/ Override(Root, p) PROVE Spares(i)
  <2>1. provide[p] \in Tokens
    BY ConstantsAssumption
  <2>2. \A t \in Tokens : t # provide[p] => registrations'[Root][t] = registrations[Root][t]
    BY <1>0, <1>6, <2>1 DEF Register, Override, TypeInv, TypeOK
  <2>3. provide[p] \notin Below(i) \/ registrations[Root][provide[p]] = None
    BY <1>6, OverrideBelow DEF Register
  <2>4. Reachable(Root, {TokenOf(i)}) \subseteq Reachable(Root, {TokenOf(i)})'
    <3> DEFINE S == {TokenOf(i)}
    <3>1. TypeOK
      BY DEF TypeInv
    <3> QED
      BY <2>2, <2>3, <3>1, <1>2, ReachKeeps DEF Below
  <2>5. Below(i) \subseteq Below(i)'
    BY <2>4 DEF Below
  <2>6. \A t \in Below(i) : registrations[Root][t] # None => registrations'[Root][t] = registrations[Root][t]
    BY <2>2, <2>3 DEF Below, Reachable
  <2> QED
    BY <1>3, <2>5, <2>6 DEF Spares
<1> QED
  BY <1>4, <1>5, <1>6

\* A call that is not the one moving is fed nothing.
LEMMA NotFed ==
  ASSUME TypeInv, IsolationInv, NEW c \in Calls, call'[c] = call[c], NEW j \in Ids
  PROVE  ~ResumeWithDependency(c, j)
<1> SUFFICES ASSUME ResumeWithDependency(c, j) PROVE FALSE
  OBVIOUS
<1>1. WaitedSettled(c) /\ Innermost(j, Frames(c))
  BY DEF ResumeWithDependency
<1>2. call[c].mode = "await" /\ call[c].waits # j
  BY <1>1, ResumedFrame DEF IsolationInv, StackInv, Innermost
<1> QED
  BY <1>2, FedFields

\* The other calls go on building what they were building.
LEMMA OthersBuild ==
  ASSUME AllInv, [Next]_vars, NEW i \in Ids, InUse(i), InUse(i)',
         NEW c \in Calls, running # c, Onward(c), i \in Frames(c)',
         \A j \in Ids : ~ResumeWithDependency(c, j)
  PROVE  Builds(c, i)'
<1> USE DEF AllInv, CacheInv, DestroyInv
<1>1. Steady /\ Spares(i) /\ FreshAt(i) /\ promise[i].state # "free"
  BY SteadyStep, SparesStep, InUseBegun DEF FreshInv, InUse
<1>2. ASSUME NEW j \in Frames(c)' PROVE j \in Frames(c)
  <2>1. j \in Ids /\ promise'[j].owner = c /\ ~Settled(j)'
    BY DEF Frames
  <2>2. promise[j].state # "free"
    <3> SUFFICES ASSUME promise[j].state = "free" PROVE FALSE
      OBVIOUS
    <3>1. promise'[j].state # "free"
      BY <2>1, TypeStep, ConstantsAssumption DEF TypeInv, CreationInv
    <3>2. PICK d \in Calls : Instantiate(d, j)
      BY <2>1, <3>1, NewGrow
    <3> QED
      BY <2>1, <3>2, InstantiateEffect
  <2> QED
    BY <1>1, <2>1, <2>2 DEF Frames, Steady, SameBegun, SameCreation, Settled
<1>3. ASSUME NEW j \in Ids, promise[j].state # "free", promise[j].owner = c PROVE SameDeps(j)
  <2> SUFFICES ASSUME ~SameDeps(j) PROVE FALSE
    OBVIOUS
  <2>1. PICK d \in Calls : ResumeWithDependency(d, j) \/ Instantiate(d, j)
    BY DepsChange DEF SameDeps
  <2>2. ResumeWithDependency(d, j)
    BY <1>3, <2>1, InstantiateEffect
  <2>3. j \in Frames(d)
    BY <2>2 DEF ResumeWithDependency, Innermost
  <2> QED
    BY <1>3, <2>2, <2>3, FrameIs
<1>4. \A j \in Frames(c) : SameDeps(j)
  BY <1>3, FrameIs
<1>5. ASSUME NEW w \in Ids, Waiting(c), call[c].waits = w, promise[w].home = None PROVE SameDeps(w)
  <2>1. promise[w].state # "free" /\ (~Settled(w) => promise[w].owner = c)
    BY <1>5 DEF DepsInv
  <2> QED
    BY <1>1, <1>3, <2>1 DEF Steady
<1>6. i \in Frames(c)
  BY <1>2
<1>7. Builds(c, i)
  BY <1>1, <1>6 DEF FreshAt
<1> QED
  BY <1>1, <1>2, <1>4, <1>5, <1>7, BuildsKept DEF Steady

\* It is enough to look at the call that moves, and at what it begins or feeds.
LEMMA FreshCall ==
  ASSUME AllInv, [Next]_vars, NEW c, running \in {c, None},
         \A d \in Calls : d # c => call'[d] = call[d],
         \A i \in Ids : InUse(i)' /\ c \in Calls /\ i \in Frames(c)' => Builds(c, i)',
         \A i \in Ids : InUse(i)' =>
           /\ \A d \in promise'[i].deps : d \in promise[i].deps \/ Serves(d, i)'
           /\ promise[i].state = "free" => registrations'[Root][TokenOf(i)'] = promise'[i].prov
  PROVE  FreshInv'
<1> USE DEF AllInv, CacheInv, DestroyInv
<1> SUFFICES ASSUME NEW i \in Ids, InUse(i)' PROVE FreshAt(i)'
  BY DEF FreshInv
<1>1. None \notin Calls
  BY ConstantsAssumption
<1>2. CASE promise[i].state = "free"
  <2>1. PICK d \in Calls : Instantiate(d, i)
    <3>1. ~InPlace(i)
      BY <1>2, InUseBegun
    <3> QED
      BY <3>1, InPlaceBefore DEF InUse
  <2>2. promise[i].deps = {}
    BY <1>2 DEF IsolationInv, PlaceInv
  <2>3. \A e \in promise'[i].deps : Serves(e, i)'
    BY <2>2
  <2>4. d = c /\ promise'[i].owner = c
    BY <1>1, <2>1, InstantiateEffect
  <2>5. ASSUME NEW e \in Calls, i \in Frames(e)' PROVE Builds(e, i)'
    BY <2>4, <2>5 DEF Frames
  <2>6. FreshAt(i)' <=>
          /\ registrations'[Root][TokenOf(i)'] = promise'[i].prov
          /\ \A e \in promise'[i].deps : Serves(e, i)'
          /\ \A e \in Calls : i \in Frames(e)' => Builds(e, i)'
    BY DEF FreshAt
  <2> QED
    BY <1>2, <2>3, <2>5, <2>6
<1>3. CASE promise[i].state # "free"
  <2>1. InUse(i)
    BY <1>3, InUseBefore
  <2>2. Spares(i) /\ Steady /\ FreshAt(i)
    BY <2>1, SparesStep, SteadyStep DEF FreshInv
  <2>3. \A d \in promise[i].deps : SameDeps(d)
    <3>1. promise[i].deps \subseteq Ids
      BY DEF TypeInv, TypeOK, Promises
    <3> QED
      BY <2>2, <3>1 DEF DepsInv, Fulfilled, Settled, Unsettled, Steady
  <2>4. ASSUME NEW d \in Calls, i \in Frames(d)' PROVE Builds(d, i)'
    <3>1. CASE d = c
      BY <2>4, <3>1
    <3>2. CASE d # c
      <4>1. call'[d] = call[d] /\ running # d
        BY <1>1, <3>2
      <4>2. \A j \in Ids : ~ResumeWithDependency(d, j)
        BY <4>1, NotFed
      <4>3. Onward(d)
        BY <4>1 DEF Onward, Waiting
      <4> QED
        BY <2>1, <2>4, <4>1, <4>2, <4>3, OthersBuild
    <3> QED
      BY <3>1, <3>2
  <2> QED
    BY <2>1, <2>2, <2>3, <2>4, FreshKept DEF Steady
<1> QED
  BY <1>2, <1>3

\* Steps that begin nothing, inject nothing and look nothing up.
LEMMA FreshIdle ==
  ASSUME AllInv, [Next]_vars,
         \A c \in Calls : Onward(c) \/ Frames(c) = {},
         \A j \in Ids : promise[j].state = "free" => promise'[j].state = "free",
         \A j \in Ids : SameDeps(j)
  PROVE  FreshInv'
<1> USE DEF AllInv, CacheInv, DestroyInv
<1> SUFFICES ASSUME NEW i \in Ids, InUse(i)' PROVE FreshAt(i)'
  BY DEF FreshInv
<1>1. promise[i].state # "free"
  <2>1. ~ \E c \in Calls : Instantiate(c, i)
    BY InstantiateEffect
  <2>2. InPlace(i)
    BY <2>1, InPlaceBefore DEF InUse
  <2> QED
    BY <2>2, InUseBegun
<1>2. InUse(i)
  BY <1>1, InUseBefore
<1>3. Spares(i) /\ Steady /\ FreshAt(i)
  BY <1>2, SparesStep, SteadyStep DEF FreshInv
<1>4. ASSUME NEW c \in Calls, i \in Frames(c)' PROVE Builds(c, i)'
  <2>1. Frames(c)' \subseteq Frames(c)
    <3> SUFFICES ASSUME NEW j \in Frames(c)' PROVE j \in Frames(c)
      OBVIOUS
    <3>1. j \in Ids /\ promise'[j].owner = c /\ ~Settled(j)' /\ promise'[j].state # "free"
      BY TypeStep, ConstantsAssumption DEF Frames, TypeInv, CreationInv
    <3> QED
      BY <1>3, <3>1 DEF Frames, Steady, SameBegun, SameCreation, Settled
  <2>2. Onward(c) /\ i \in Frames(c)
    BY <1>4, <2>1
  <2>3. Builds(c, i)
    BY <1>3, <2>2 DEF FreshAt
  <2>4. \A j \in Frames(c) : SameDeps(j)
    BY FrameIs
  <2> QED
    BY <1>1, <1>3, <2>1, <2>2, <2>3, <2>4, BuildsKept DEF Steady
<1>5. promise[i].deps \subseteq Ids /\ promise'[i].deps = promise[i].deps
  BY DEF TypeInv, TypeOK, Promises, SameDeps
<1> QED
  BY <1>2, <1>3, <1>4, <1>5, FreshKept DEF Steady

\* A frame that is not the one a step is about.
LEMMA CalledOn ==
  ASSUME AllInv, [Next]_vars, NEW i \in Ids, InUse(i), InUse(i)',
         NEW j \in Ids, Called(j, i), SameDeps(j)
  PROVE  Called(j, i)'
<1>1. Steady /\ Spares(i) /\ promise[i].state # "free"
  BY SteadyStep, SparesStep, InUseBegun DEF AllInv, CacheInv, DestroyInv, InUse
<1> QED
  BY <1>1, CalledKept DEF Steady, AllInv, CacheInv

\* What the lookup of a call that builds i finds is in the root's graph.
LEMMA LookupShared ==
  ASSUME TypeInv, NEW c \in Calls, Looking(c), NEW i \in Ids, promise[i].state # "free",
         SharesGraph(promise[i].home), promise[i].home \in Containers, Builds(c, i)
  PROVE  /\ call[c].want \in Below(i) /\ call[c].want \in Tokens
         /\ call[c].in \in {promise[i].home, Root} /\ SharesGraph(call[c].in)
         /\ Found(c) = registrations[Root][call[c].want]
         /\ Home(call[c].in, Found(c)) \in {promise[i].home, Root}
         /\ Within(call[c].in, Found(c)) \in {promise[i].home, Root}
         /\ Found(c) # None => Edges(Found(c)) \subseteq Below(i)
<1>0. Root \in Containers
  BY DEF Containers
<1>1. call[c].want \in Below(i) /\ call[c].in \in {promise[i].home, Root}
  BY DEF Builds, Looking
<1>2. SharesGraph(call[c].in) /\ call[c].in \in Containers /\ call[c].want \in Tokens
  BY <1>0, <1>1, LookingType DEF SharesGraph
<1>3. Found(c) = registrations[Root][call[c].want]
  BY <1>2, SharedLookup DEF Found
<1>4. Home(call[c].in, Found(c)) \in {promise[i].home, Root}
      /\ Within(call[c].in, Found(c)) \in {promise[i].home, Root}
  BY <1>1 DEF Home, Within
<1>5. Found(c) # None => Edges(Found(c)) \subseteq Below(i)
  <2> SUFFICES ASSUME Found(c) # None, NEW t \in Edges(Found(c)) PROVE t \in Below(i)
    OBVIOUS
  <2>1. t \in Successors(Root, call[c].want)
    BY <1>3 DEF Successors, Lookup
  <2>2. t \in Tokens
    BY <1>0, <1>2, <2>1, EdgesType DEF TypeInv
  <2> QED
    BY <1>1, <2>1, <2>2, ReachEdge DEF Below
<1> QED
  BY <1>1, <1>2, <1>3, <1>4, <1>5

\* A call that builds i starts something new: what it is at is as it should be.
LEMMA BuildsOn ==
  ASSUME AllInv, [Next]_vars, NEW i \in Ids, InUse(i), InUse(i)', NEW c \in Calls, i \in Frames(c),
         \A j \in Frames(c)' : i < j => Called(j, i)' \/ (j \in Frames(c) /\ SameDeps(j)),
         call'[c].mode = "resolve" => call'[c].want \in Below(i) /\ call'[c].in \in {promise[i].home, Root},
         \A w \in Ids : Waiting(c)' /\ call'[c].waits = w => Serves(w, i)'
  PROVE  Builds(c, i)'
<1>1. Spares(i) /\ Steady /\ FreshAt(i) /\ promise[i].state # "free"
  BY SparesStep, SteadyStep, InUseBegun DEF AllInv, CacheInv, DestroyInv, FreshInv, InUse
<1>2. Builds(c, i)
  BY <1>1 DEF FreshAt
<1>3. \A j \in Frames(c)' : i < j => Called(j, i)'
  <2> SUFFICES ASSUME NEW j \in Frames(c)', i < j, j \in Frames(c), SameDeps(j) PROVE Called(j, i)'
    OBVIOUS
  <2>1. j \in Ids /\ Called(j, i)
    BY <1>2 DEF Builds, Frames
  <2> QED
    BY <2>1, CalledOn
<1>4. call'[c].mode = "resolve" => call'[c].want \in Below(i)' /\ call'[c].in \in {promise'[i].home, Root}
  BY <1>1 DEF Spares, Steady, SameBegun, SameCreation
<1>5. Waiting(c)' /\ call'[c].waits \in Ids => Serves(call[c].waits, i)'
  <2>1. \A w : w = call'[c].waits => (Serves(w, i)' <=> Serves(call[c].waits, i)')
    BY DEF Serves, Feeds, Intact, TokenOf
  <2> QED
    BY <2>1
<1> QED
  BY <1>3, <1>4, <1>5 DEF Builds, Serves, Feeds, Intact, TokenOf

\* What i is built from goes on serving it when it is not fed itself.
LEMMA ServesOn ==
  ASSUME AllInv, [Next]_vars, NEW i \in Ids, InUse(i), InUse(i)',
         NEW d \in Ids, Serves(d, i), promise[d].home = None => SameDeps(d)
  PROVE  Serves(d, i)'
<1>1. Steady /\ Spares(i) /\ promise[i].state # "free"
  BY SteadyStep, SparesStep, InUseBegun DEF AllInv, CacheInv, DestroyInv, InUse
<1> QED
  BY <1>1, ServesKept DEF Steady, AllInv, CacheInv

\* Lookups that leave the promises alone.
LEMMA FreshLookup ==
  ASSUME AllInv, [Next]_vars, NEW c \in Calls,
         ThrowCircular(c) \/ ThrowMissing(c) \/ ThrowOutsideRequest(c)
         \/ FollowAlias(c) \/ ShareCached(c)
  PROVE  FreshInv'
<1> USE DEF AllInv, CacheInv, DestroyInv
<1>0. Looking(c) /\ promise' = promise /\ 0 \notin Ids /\ running = c
  BY DEF ThrowCircular, ThrowMissing, ThrowOutsideRequest, FollowAlias, ShareCached, Looking, Ids
<1>1. \A d \in Calls : d # c => call'[d] = call[d]
  BY CallsApart DEF CallStep, Lookups
<1>2. \A j \in Ids : SameDeps(j)
  BY <1>0 DEF SameDeps
<1>3. Frames(c)' = Frames(c) /\ \A j \in Frames(c)' : j \in Frames(c) /\ SameDeps(j)
  BY <1>0, <1>2 DEF Frames, Settled
<1>4. ASSUME NEW i \in Ids, InUse(i)', i \in Frames(c)' PROVE Builds(c, i)'
  <2>1. i \in Frames(c) /\ promise[i].state # "free"
    BY <1>3, <1>4, FrameIs
  <2>2. InUse(i) /\ promise[i].home \in Containers
    BY <1>4, <2>1, InUseBefore, InUseBegun DEF InUse
  <2>3. Builds(c, i)
    BY <2>1, <2>2 DEF FreshInv, FreshAt
  <2>4. /\ call[c].want \in Below(i) /\ call[c].in \in {promise[i].home, Root}
        /\ Home(call[c].in, Found(c)) \in {promise[i].home, Root}
        /\ Found(c) # None => Edges(Found(c)) \subseteq Below(i)
    BY <1>0, <2>1, <2>2, <2>3, LookupShared DEF InUse
  <2>5. CASE ThrowCircular(c) \/ ThrowMissing(c) \/ ThrowOutsideRequest(c)
    <3>1. PICK f : AwaitNext(c, 0, f)
      BY <2>5 DEF ThrowCircular, ThrowMissing, ThrowOutsideRequest
    <3>2. call'[c].mode = "suspend" /\ call'[c].waits = 0
      BY <3>1, AwaitFields
    <3> QED
      BY <1>0, <1>2, <1>3, <1>4, <2>1, <2>2, <3>2, BuildsOn
  <2>6. CASE FollowAlias(c)
    <3>1. /\ call'[c].mode = "resolve" /\ call'[c].in = call[c].in
          /\ call'[c].want = useExisting[Found(c)]
      BY <2>6 DEF FollowAlias, Looking, TypeInv, TypeOK, CallRecords
    <3>2. useExisting[Found(c)] \in Edges(Found(c)) /\ Found(c) # None
      BY <2>6 DEF FollowAlias, Edges
    <3>3. ~Waiting(c)'
      BY <3>1 DEF Waiting
    <3> QED
      BY <1>2, <1>3, <1>4, <2>1, <2>2, <2>4, <3>1, <3>2, <3>3, BuildsOn
  <2>7. CASE ShareCached(c)
    <3>1. PICK j \in Hits(c) : AwaitNext(c, j, "none")
      BY <2>7 DEF ShareCached
    <3>2. call'[c].mode = "suspend" /\ call'[c].waits = j
      BY <3>1, AwaitFields
    <3> DEFINE h == Home(call[c].in, Found(c))
    <3>3. h \in Containers /\ h # None /\ ~DisposedInHierarchy(h)
      <4>1. h \in Containers
        BY <2>7, LookingType, HomeType DEF ShareCached, Cacheable
      <4> QED
        BY <2>2, <2>4, <4>1, ConstantsAssumption DEF InUse, InPlace, DisposedInHierarchy
    <3>4. j \in cache[h] /\ TokenOf(j) = call[c].want /\ j \in Ids
      BY <3>1, <3>3 DEF Hits, CachedFor, TokenOf, TypeInv, TypeOK
    <3>5. promise[j].home = h /\ promise[j].state # "free" /\ Intact(j)
      BY <3>3, <3>4 DEF HomeInv, Stored, IntactInv
    <3>6. Serves(j, i)
      BY <2>4, <3>3, <3>4, <3>5 DEF Serves, Feeds
    <3>7. Serves(j, i)'
      BY <1>2, <1>4, <2>2, <3>4, <3>6, ServesOn
    <3> QED
      BY <1>2, <1>3, <1>4, <2>1, <2>2, <3>2, <3>7, BuildsOn
  <2> QED
    BY <2>5, <2>6, <2>7
<1>5. ASSUME NEW i \in Ids, InUse(i)'
      PROVE  /\ \A d \in promise'[i].deps : d \in promise[i].deps \/ Serves(d, i)'
             /\ promise[i].state = "free" => registrations'[Root][TokenOf(i)'] = promise'[i].prov
  <2>1. promise[i].state # "free"
    <3>1. ~ \E d \in Calls : Instantiate(d, i)
      BY <1>0, InstantiateEffect
    <3> QED
      BY <1>5, <3>1, InPlaceBefore, InUseBegun DEF InUse
  <2> QED
    BY <1>0, <2>1
<1> QED
  BY <1>0, <1>1, <1>4, <1>5, FreshCall

\* A dependency failed: what awaited it is handed, as a failure, to its caller.
LEMMA FreshFault ==
  ASSUME AllInv, [Next]_vars, NEW c \in Calls, NEW n \in Ids, ResumeWithFault(c, n)
  PROVE  FreshInv'
<1> USE DEF AllInv, CacheInv, DestroyInv
<1>1. /\ Fails(n, WaitedFault(c)) /\ WaitedFault(c) \in Failures
      /\ Innermost(n, Frames(c)) /\ running = None
  BY FaultType DEF ResumeWithFault, WaitedSettled
<1>2. promise[n].state # "free" /\ n \in Frames(c)
  BY <1>1, FrameIs DEF Innermost
<1>3. /\ promise'[n].state = WaitedFault(c)
      /\ \A j \in Ids : j # n => promise'[j].state = promise[j].state
      /\ \A j \in Ids : SameCreation(promise[j], promise'[j])
      /\ \A j \in Ids : SameDeps(j)
  BY <1>1, <1>2, FailsEffect DEF SameDeps
<1>4. call'[c].waits = n /\ call'[c].mode = call[c].mode /\ call[c].mode = "await"
  BY DEF ResumeWithFault, WaitedSettled, TypeInv, TypeOK, CallRecords
<1>5. \A d \in Calls : d # c => call'[d] = call[d]
  BY CallsApart DEF CallStep, Resumption
<1>6. \A j : j \in Frames(c)' => j \in Frames(c) /\ j # n
  <2>1. "ok" \notin Unsettled /\ \A f \in Failures : f \notin Unsettled
    BY DEF Failures, Unsettled
  <2> QED
    BY <1>1, <1>3, <2>1 DEF Frames, Settled, SameCreation
<1>7. ASSUME NEW i \in Ids, InUse(i)', i \in Frames(c)' PROVE Builds(c, i)'
  <2>1. i \in Frames(c) /\ i < n /\ promise[i].state # "free"
    BY <1>1, <1>6, <1>7, FrameIs DEF Innermost, Ids
  <2>2. InUse(i)
    BY <1>7, <2>1, InUseBefore
  <2>3. Called(n, i)
    BY <1>2, <2>1, <2>2 DEF FreshInv, FreshAt, Builds
  <2>4. Serves(n, i)
    BY <2>3 DEF Called, Serves
  <2>5. Serves(n, i)'
    BY <1>3, <1>7, <2>2, <2>4, ServesOn
  <2> QED
    BY <1>3, <1>4, <1>6, <1>7, <2>1, <2>2, <2>5, BuildsOn, FrameIs
<1>8. ASSUME NEW i \in Ids, InUse(i)'
      PROVE  /\ \A d \in promise'[i].deps : d \in promise[i].deps \/ Serves(d, i)'
             /\ promise[i].state = "free" => registrations'[Root][TokenOf(i)'] = promise'[i].prov
  <2>1. promise[i].state # "free"
    <3>1. ~ \E d \in Calls : Instantiate(d, i)
      BY <1>1, ConstantsAssumption, InstantiateEffect
    <3> QED
      BY <1>8, <3>1, InPlaceBefore, InUseBegun DEF InUse
  <2> QED
    BY <1>3, <2>1 DEF SameDeps
<1> QED
  BY <1>1, <1>5, <1>7, <1>8, FreshCall

\* What a resumed call looks up next is the next token its frame injects.
LEMMA FedWant ==
  ASSUME TypeInv, NEW c \in Calls, NEW n \in Ids, ResumeWithDependency(c, n),
         promise[n].prov \in Providers, useExisting[promise[n].prov] = None,
         call'[c].mode = "resolve"
  PROVE  call'[c].want \in Edges(promise[n].prov)
<1> DEFINE m == promise[n].next + 1
           w == inject[promise[n].prov][m]
<1>1. promise[n].next \in Nat /\ call[c].mode = "await"
  BY DEF ResumeWithDependency, WaitedSettled, TypeInv, TypeOK, Promises
<1>2. \/ m > Len(inject[promise[n].prov]) /\ call' = [call EXCEPT ![c].waits = n]
      \/ /\ ~(m > Len(inject[promise[n].prov]))
         /\ call' = [call EXCEPT ![c] =
              [@ EXCEPT !.mode = "resolve", !.in = promise[n].within, !.want = w]]
  BY DEF ResumeWithDependency
<1>3. inject[promise[n].prov] \in Seq(Tokens)
  BY ConstantsAssumption
<1>4. m \in Nat /\ m >= 1 /\ Len(inject[promise[n].prov]) \in Nat
  BY <1>1, <1>3
<1> HIDE DEF m, w
<1>5. ~(m > Len(inject[promise[n].prov])) /\ call'[c].want = w
  BY <1>1, <1>2 DEF TypeInv, TypeOK, CallRecords
<1>6. m \in 1 .. Len(inject[promise[n].prov])
  BY <1>4, <1>5
<1> QED
  BY <1>5, <1>6 DEF Edges, w

LEMMA FreshDependency ==
  ASSUME AllInv, [Next]_vars, NEW c \in Calls, NEW n \in Ids, ResumeWithDependency(c, n)
  PROVE  FreshInv'
<1> USE DEF AllInv, CacheInv, DestroyInv
<1>0. Root \in Containers
  BY DEF Containers
<1>1. /\ running = None /\ call[c].mode = "await" /\ call[c].waits \in Ids
      /\ Fulfilled(call[c].waits) /\ Innermost(n, Frames(c))
      /\ SameCreation(promise[n], promise'[n])
      /\ promise'[n].state \in {promise[n].state, "building"}
      /\ promise'[n].deps = promise[n].deps \cup {call[c].waits}
      /\ \A j \in Ids : j # n => promise'[j] = promise[j]
  BY FedEffect
<1>2. /\ n \in Frames(c) /\ promise[n].state # "free" /\ promise[n].prov \in Providers
      /\ promise[n].within \in Containers /\ useExisting[promise[n].prov] = None
  <2>1. n \in Frames(c) /\ promise[n].state # "free"
    BY <1>1, FrameIs DEF Innermost
  <2> QED
    BY <2>1 DEF TypeInv, CreationInv, DepsInv
<1>3. \A d \in Calls : d # c => call'[d] = call[d]
  BY CallsApart DEF CallStep, Resumption
<1>4. \A j \in Ids : j # n => SameDeps(j)
  BY <1>1 DEF SameDeps
<1>5. \A j : j \in Frames(c)' => j \in Frames(c) /\ j \in Ids /\ j <= n
  BY <1>1, <1>2 DEF Frames, Settled, Unsettled, SameCreation, Innermost
<1>6. \/ call'[c].mode = "await" /\ call'[c].waits = n
      \/ call'[c].mode = "resolve" /\ call'[c].in = promise[n].within
         /\ call'[c].want \in Edges(promise[n].prov)
  BY <1>1, <1>2, FedFields, FedWant
<1>7. ASSUME NEW i \in Ids, promise[i].state # "free", InUse(i), InUse(i)', i \in Frames(c)
      PROVE  /\ Serves(call[c].waits, i)
             /\ \A w \in Ids : w = call[c].waits => Serves(w, i)' /\ Feeds(w, i)'
  <2>1. Builds(c, i)
    BY <1>7 DEF FreshInv, FreshAt
  <2>2. Serves(call[c].waits, i)
    BY <1>1, <2>1 DEF Builds, Waiting
  <2>3. \A w \in Ids : w = call[c].waits => SameDeps(w)
    BY <1>1, SteadyStep DEF Steady, Fulfilled, Settled, Unsettled
  <2>4. \A w \in Ids : w = call[c].waits => Serves(w, i)'
    BY <1>7, <2>2, <2>3, ServesOn
  <2> QED
    BY <2>2, <2>4 DEF Serves
<1>8. ASSUME NEW i \in Ids, InUse(i)'
      PROVE  promise[i].state # "free" /\ InUse(i) /\ FreshAt(i)
  <2>1. promise[i].state # "free"
    <3>1. ~ \E d \in Calls : Instantiate(d, i)
      BY <1>1, ConstantsAssumption, InstantiateEffect
    <3> QED
      BY <1>8, <3>1, InPlaceBefore, InUseBegun DEF InUse
  <2> QED
    BY <1>8, <2>1, InUseBefore DEF FreshInv
\* Where the token of n is below i, so are those it injects.
<1>9. ASSUME NEW i \in Ids, TokenOf(n) \in Below(i),
             registrations[Root][TokenOf(n)] = promise[n].prov
      PROVE  Edges(promise[n].prov) \subseteq Below(i)
  <2>1. TokenOf(n) \in Tokens /\ promise[n].prov # None
    BY <1>2, TokenOk
  <2>2. Edges(promise[n].prov) = Successors(Root, TokenOf(n))
    BY <1>9, <2>1 DEF Successors, Lookup
  <2>3. Successors(Root, TokenOf(n)) \subseteq Tokens
    BY <1>0, <2>1, EdgesType DEF TypeInv
  <2> QED
    BY <1>9, <2>2, <2>3, ReachEdge DEF Below
\* n itself, when it is in use.
<1>10. ASSUME InUse(n), InUse(n)' PROVE Builds(c, n)'
  <2>1. FreshAt(n) /\ promise[n].home \in Containers
    BY <1>10, InUseBegun DEF FreshInv, InUse
  <2>2. TokenOf(n) \in Below(n)
    BY <1>2, TokenOk
  <2>3. promise[n].within = promise[n].home
    BY <1>2, <2>1, ConstantsAssumption DEF IsolationInv, PlaceInv
  <2>4. Serves(n, n)'
    <3>1. Intact(n)
      <4>1. n \in cache[promise[n].home]
        BY <1>1, <1>10, NothingNew DEF CellInv, InUse, InPlace
      <4> QED
        BY <1>10, <2>1, <4>1 DEF IntactInv, InUse, InPlace
    <3>2. Feeds(n, n)
      BY <1>2, <2>2, <3>1 DEF Feeds
    <3>3. Spares(n) /\ Steady
      BY <1>10, SparesStep, SteadyStep
    <3>4. Feeds(n, n)'
      BY <1>2, <3>2, <3>3, FeedsKept DEF Spares, Steady
    <3>5. promise'[n].home # None
      BY <1>1, <2>1, ConstantsAssumption DEF SameCreation
    <3> QED
      BY <3>4, <3>5 DEF Serves
  <2>5. call'[c].mode = "resolve" => call'[c].want \in Below(n) /\ call'[c].in \in {promise[n].home, Root}
    BY <1>6, <1>9, <2>1, <2>2, <2>3 DEF FreshAt
  <2>6. \A w \in Ids : Waiting(c)' /\ call'[c].waits = w => Serves(w, n)'
    BY <1>6, <2>4 DEF Waiting
  <2>7. \A j \in Frames(c)' : ~(n < j)
    BY <1>5 DEF Ids
  <2> QED
    BY <1>2, <1>10, <2>5, <2>6, <2>7, BuildsOn
\* A frame that waits for n.
<1>11. ASSUME NEW i \in Ids, InUse(i), InUse(i)', i \in Frames(c), i < n, promise[i].state # "free"
       PROVE  Builds(c, i)'
  <2>1. Called(n, i) /\ Spares(i) /\ Steady
    BY <1>2, <1>11, SparesStep, SteadyStep DEF FreshInv, FreshAt, Builds
  <2>2. Called(n, i)'
    <3>1. Feeds(n, i)'
      BY <1>11, <2>1, FeedsKept DEF Called, Spares, Steady
    <3>2. promise[n].deps \subseteq Ids
      BY DEF TypeInv, TypeOK, Promises
    <3>3. \A d \in promise'[n].deps : Feeds(d, i)'
      <4>1. \A d \in promise[n].deps : Feeds(d, i)'
        BY <1>11, <2>1, <3>2, FeedsKept DEF Called, Spares, Steady
      <4>2. \A w \in Ids : w = call[c].waits => Feeds(w, i)'
        BY <1>7, <1>11
      <4> QED
        BY <1>1, <4>1, <4>2
    <3>4. /\ promise'[n].within = promise[n].within /\ promise'[i].home = promise[i].home
          /\ promise'[n].prov = promise[n].prov /\ TokenOf(n)' = TokenOf(n)
      BY <1>2, <1>11, <2>1 DEF Steady, SameBegun, SameCreation, TokenOf
    <3>5. registrations'[Root][TokenOf(n)] = promise[n].prov
      BY <1>2, <2>1, TokenOk DEF Called, Feeds, Spares
    <3>6. Called(n, i)' <=>
            /\ Feeds(n, i)' /\ promise'[n].within \in {promise'[i].home, Root}
            /\ registrations'[Root][TokenOf(n)'] = promise'[n].prov
            /\ \A d \in promise'[n].deps : Feeds(d, i)'
      BY DEF Called
    <3> QED
      BY <2>1, <3>1, <3>3, <3>4, <3>5, <3>6 DEF Called
  <2>3. Serves(n, i)'
    BY <2>2 DEF Called, Serves
  <2>4. call'[c].mode = "resolve" => call'[c].want \in Below(i) /\ call'[c].in \in {promise[i].home, Root}
    BY <1>6, <1>9, <2>1 DEF Called, Feeds
  <2>5. \A w \in Ids : Waiting(c)' /\ call'[c].waits = w => Serves(w, i)'
    BY <1>6, <2>3 DEF Waiting
  <2>6. \A j \in Frames(c)' : i < j => Called(j, i)' \/ (j \in Frames(c) /\ SameDeps(j))
    BY <1>4, <1>5, <2>2
  <2> QED
    BY <1>11, <2>4, <2>5, <2>6, BuildsOn
<1>12. ASSUME NEW i \in Ids, InUse(i)', i \in Frames(c)' PROVE Builds(c, i)'
  <2>1. i \in Frames(c) /\ (i = n \/ i < n)
    BY <1>5, <1>12 DEF Ids
  <2> QED
    BY <1>8, <1>10, <1>11, <1>12, <2>1
<1>13. ASSUME NEW i \in Ids, InUse(i)'
       PROVE  \A d \in promise'[i].deps : d \in promise[i].deps \/ Serves(d, i)'
  <2>1. CASE i = n
    <3>1. \A w \in Ids : w = call[c].waits => Serves(w, n)'
      BY <1>2, <1>7, <1>8, <1>13, <2>1
    <3> QED
      BY <1>1, <2>1, <3>1
  <2>2. CASE i # n
    BY <1>4, <2>2 DEF SameDeps
  <2> QED
    BY <2>1, <2>2
<1> QED
  BY <1>1, <1>3, <1>8, <1>12, <1>13, FreshCall

\* Where a call that begins n goes on.
LEMMA BegunWant ==
  ASSUME TypeInv, NEW c \in Calls, NEW n \in Ids, Instantiate(c, n)
  PROVE  /\ useExisting[Found(c)] = None
         /\ call'[c].mode = "resolve" =>
              call'[c].want \in Edges(Found(c)) /\ call'[c].in = Within(call[c].in, Found(c))
         /\ Waiting(c)' => call'[c].waits \in {0, n}
<1> DEFINE p == Found(c)
           w == inject[p][1]
<1>1. p \in Providers /\ useExisting[p] = None
  <2>1. p \in Providers
    BY InstantiateEffect
  <2> QED
    BY <2>1 DEF Instantiate
<1>2. \/ AwaitNext(c, 0, "scope-mismatch") \/ AwaitNext(c, n, "none")
      \/ /\ inject[p] # <<>>
         /\ call' = [call EXCEPT ![c] = [@ EXCEPT !.want = w, !.in = Within(call[c].in, p), !.via = {}]]
  BY DEF Instantiate
<1>3. CASE AwaitNext(c, 0, "scope-mismatch") \/ AwaitNext(c, n, "none")
  <2>1. call'[c].mode = "suspend" /\ call'[c].waits \in {0, n}
    BY <1>3, AwaitFields
  <2> QED
    BY <1>1, <2>1
<1>4. CASE /\ inject[p] # <<>>
           /\ call' = [call EXCEPT ![c] = [@ EXCEPT !.want = w, !.in = Within(call[c].in, p), !.via = {}]]
  <2>1. inject[p] \in Seq(Tokens) /\ 1 \in 1 .. Len(inject[p])
    BY <1>1, <1>4, ConstantsAssumption
  <2>2. w \in Edges(p)
    BY <1>1, <2>1 DEF Edges
  <2>3. call[c].mode = "resolve"
    BY DEF Instantiate, Looking
  <2> HIDE DEF p, w
  <2>4. call'[c].want = w /\ call'[c].in = Within(call[c].in, p) /\ call'[c].mode = "resolve"
    BY <1>4, <2>3 DEF TypeInv, TypeOK, CallRecords
  <2> QED
    BY <1>1, <2>2, <2>4 DEF Waiting, p
<1> QED
  BY <1>2, <1>3, <1>4

LEMMA FreshInstantiate ==
  ASSUME AllInv, [Next]_vars, NEW c \in Calls, NEW n \in Ids, Instantiate(c, n)
  PROVE  FreshInv'
<1> USE DEF AllInv, CacheInv, DestroyInv
<1>0. Root \in Containers /\ None \notin Containers /\ 0 \notin Ids /\ None \notin Calls
  BY ConstantsAssumption DEF Containers, Ids
<1>1. /\ running = c /\ promise[n].state = "free" /\ Found(c) \in Providers
      /\ promise'[n].state = "new" /\ promise'[n].prov = Found(c)
      /\ promise'[n].home = IF scope[Found(c)] = "transient" THEN None
                           ELSE Home(call[c].in, Found(c))
      /\ promise'[n].within = Within(call[c].in, Found(c))
      /\ promise'[n].owner = c /\ promise'[n].deps = {}
      /\ \A j \in Ids : j # n => promise'[j] = promise[j]
      /\ UNCHANGED <<graphVars, cache, disposalVars>>
  BY InstantiateEffect
<1>2. /\ useExisting[Found(c)] = None
      /\ call'[c].mode = "resolve" =>
           call'[c].want \in Edges(Found(c)) /\ call'[c].in = Within(call[c].in, Found(c))
      /\ Waiting(c)' => call'[c].waits \in {0, n}
  BY BegunWant
<1>3. \A d \in Calls : d # c => call'[d] = call[d]
  BY InstantiateFields
<1>4. Looking(c) /\ Found(c) # None
  BY DEF Instantiate
<1>5. /\ call[c].in \in Containers /\ call[c].want \in Tokens
      /\ provide[Found(c)] = call[c].want
  BY <1>4, LookingType, FoundProvides DEF CellInv
<1>6. TokenOf(n)' = call[c].want
  BY <1>1, <1>5 DEF TokenOf
<1>7. Intact(n)'
  <2>1. ~Stored(n)
    BY <1>1 DEF Stored
  <2>2. destroyed[n] = 0 /\ \A h \in Containers : n \notin stale[h]
    BY <2>1 DEF RootInv, HomeInv
  <2> QED
    BY <1>1, <2>2 DEF Intact, disposalVars
<1>8. \A j : j \in Frames(c)' <=> j \in Frames(c) \/ j = n
  BY <1>1 DEF Frames, Settled, Unsettled
<1>9. \A j \in Frames(c) : j \in Ids /\ j < n /\ j # n /\ SameDeps(j)
  <2>1. \A j \in Ids : promise[j].state # "free" => j < n
    BY <1>1 DEF IsolationInv, OrderInv, Ids
  <2> QED
    BY <1>1, <2>1, FrameIs DEF SameDeps
<1>10. registrations' = registrations
  BY <1>1 DEF graphVars
\* A creation that n is for.
<1>11. ASSUME NEW i \in Ids, InUse(i)', i \in Frames(c) PROVE Builds(c, i)'
  <2>1. promise[i].state # "free"
    BY <1>11, FrameIs
  <2>2. InUse(i) /\ promise[i].home \in Containers
    BY <1>11, <2>1, InUseBefore, InUseBegun DEF InUse
  <2>3. Builds(c, i) /\ Spares(i) /\ Steady
    BY <1>11, <2>2, SparesStep, SteadyStep DEF FreshInv, FreshAt
  <2>4. /\ call[c].want \in Below(i)
        /\ Found(c) = registrations[Root][call[c].want]
        /\ Home(call[c].in, Found(c)) \in {promise[i].home, Root}
        /\ Within(call[c].in, Found(c)) \in {promise[i].home, Root}
        /\ Edges(Found(c)) \subseteq Below(i)
    BY <1>4, <2>1, <2>2, <2>3, LookupShared DEF InUse
  <2>5. promise'[i].home = promise[i].home
    BY <2>1, <2>3 DEF Steady, SameBegun, SameCreation
  <2>6. Feeds(n, i)'
    <3>1. TokenOf(n)' \in Below(i)'
      BY <1>6, <2>3, <2>4 DEF Spares
    <3>2. Feeds(n, i)' <=> /\ promise'[n].state # "free"
                           /\ promise'[n].home \in {promise'[i].home, Root, None}
                           /\ TokenOf(n)' \in Below(i)' /\ Intact(n)'
      BY DEF Feeds
    <3> QED
      BY <1>1, <1>7, <2>4, <2>5, <3>1, <3>2
  <2>7. Called(n, i)'
    <3>1. Called(n, i)' <=>
            /\ Feeds(n, i)' /\ promise'[n].within \in {promise'[i].home, Root}
            /\ registrations'[Root][TokenOf(n)'] = promise'[n].prov
            /\ \A d \in promise'[n].deps : Feeds(d, i)'
      BY DEF Called
    <3> QED
      BY <1>1, <1>6, <1>10, <2>4, <2>5, <2>6, <3>1
  <2>8. Serves(n, i)'
    BY <2>7 DEF Called, Serves
  <2>9. \A w \in Ids : Waiting(c)' /\ call'[c].waits = w => Serves(w, i)'
    BY <1>0, <1>2, <2>8
  <2>10. \A j \in Frames(c)' : i < j => Called(j, i)' \/ (j \in Frames(c) /\ SameDeps(j))
    BY <1>8, <1>9, <2>7
  <2> QED
    BY <1>2, <1>11, <2>2, <2>4, <2>9, <2>10, BuildsOn
\* The new creation itself.
<1>12. ASSUME InUse(n)'
       PROVE  registrations'[Root][TokenOf(n)'] = promise'[n].prov /\ Builds(c, n)'
  <2>1. promise'[n].home # None /\ SharesGraph(promise'[n].home)
    <3>1. promise'[n].home # None /\ SharesGraph(promise[n].home)'
      BY <1>12 DEF InUse, InPlace
    <3> QED
      BY <1>10, <3>1 DEF SharesGraph
  <2>2. scope[Found(c)] # "transient" /\ promise'[n].home = Home(call[c].in, Found(c))
    BY <1>1, <2>1
  <2>3. Found(c) = registrations[Root][call[c].want]
    <3>1. CASE Home(call[c].in, Found(c)) = call[c].in
      BY <1>5, <2>1, <2>2, <3>1, SharedLookup DEF Found
    <3>2. CASE Home(call[c].in, Found(c)) # call[c].in
      <4>1. registrations[call[c].in][call[c].want] = None
        BY <1>5, <3>2 DEF Home
      <4> QED
        BY <4>1 DEF Found, Lookup
    <3> QED
      BY <3>1, <3>2
  <2>4. Edges(Found(c)) \subseteq Reachable(Root, {call[c].want})
    <3>1. call[c].want \in Reachable(Root, {call[c].want})
      BY <1>5, ReachSelf
    <3>2. Edges(Found(c)) = Successors(Root, call[c].want)
      BY <1>4, <2>3 DEF Successors, Lookup
    <3>3. Successors(Root, call[c].want) \subseteq Tokens
      BY <1>0, <1>5, EdgesType DEF TypeInv
    <3> QED
      BY <3>1, <3>2, <3>3, ReachEdge
  <2>5. /\ Below(n)' = Reachable(Root, {call[c].want})
        /\ TokenOf(n)' \in Below(n)'
    <3>1. \A t : Successors(Root, t)' = Successors(Root, t)
      BY <1>10 DEF Successors, Lookup
    <3>2. Below(n)' = Reachable(Root, {call[c].want})
      BY <1>6, <3>1 DEF Below, Reachable
    <3> QED
      BY <1>5, <1>6, <3>2, ReachSelf
  <2>6. Serves(n, n)'
    <3>1. Feeds(n, n)' <=> /\ promise'[n].state # "free"
                           /\ promise'[n].home \in {promise'[n].home, Root, None}
                           /\ TokenOf(n)' \in Below(n)' /\ Intact(n)'
      BY DEF Feeds
    <3> QED
      BY <1>1, <1>7, <2>1, <2>5, <3>1 DEF Serves
  <2>7. \A j \in Frames(c)' : ~(n < j)
    BY <1>8, <1>9 DEF Ids
  <2>8. call'[c].mode = "resolve" => call'[c].want \in Below(n)' /\ call'[c].in \in {promise'[n].home, Root}
    BY <1>2, <2>2, <2>4, <2>5 DEF Within
  <2>9. Waiting(c)' /\ call'[c].waits \in Ids => Serves(call[c].waits, n)'
    <3>1. \A w : w = call'[c].waits => (Serves(w, n)' <=> Serves(call[c].waits, n)')
      BY DEF Serves, Feeds, Intact, TokenOf
    <3> QED
      BY <1>0, <1>2, <2>6, <3>1
  <2>10. Builds(c, n)'
    BY <2>7, <2>8, <2>9 DEF Builds, Serves, Feeds, Intact, TokenOf
  <2> QED
    BY <1>1, <1>6, <1>10, <2>3, <2>10
<1>13. ASSUME NEW i \in Ids, InUse(i)', i \in Frames(c)' PROVE Builds(c, i)'
  BY <1>8, <1>11, <1>12, <1>13
<1>14. ASSUME NEW i \in Ids, InUse(i)'
       PROVE  /\ \A d \in promise'[i].deps : d \in promise[i].deps
              /\ promise[i].state = "free" => registrations'[Root][TokenOf(i)'] = promise'[i].prov
  <2>1. CASE i = n
    BY <1>1, <1>12, <1>14, <2>1
  <2>2. CASE i # n
    <3>1. promise[i].state # "free"
      <4>1. ~ \E d \in Calls : Instantiate(d, i)
        BY <1>1, <2>2, InstantiateEffect
      <4> QED
        BY <1>14, <4>1, InPlaceBefore, InUseBegun DEF InUse
    <3> QED
      BY <1>1, <2>2, <3>1
  <2> QED
    BY <2>1, <2>2
<1> QED
  BY <1>1, <1>3, <1>13, <1>14, FreshCall

LEMMA FreshStep == AllInv /\ [Next]_vars => FreshInv'
<1> SUFFICES ASSUME AllInv, [Next]_vars PROVE FreshInv'
  OBVIOUS
<1> USE DEF AllInv, CacheInv, DestroyInv
<1>1. CASE UNCHANGED <<promise, call>>
  BY <1>1, FreshIdle DEF Onward, Waiting, SameDeps
<1>2. ASSUME NEW c \in Calls, CallStep(c) PROVE FreshInv'
  <2>1. ASSUME NEW n \in Ids, Instantiate(c, n) PROVE FreshInv'
    BY <2>1, FreshInstantiate
  <2>2. ASSUME NEW n \in Ids, StorePromise(c, n) PROVE FreshInv'
    <3>1. /\ call' = call /\ promise[n].state # "free" /\ promise'[n].deps = promise[n].deps
          /\ \A j \in Ids : j # n => promise'[j] = promise[j]
      BY <2>2, StoreEffect DEF IsNew
    <3> QED
      BY <3>1, FreshIdle DEF Onward, Waiting, SameDeps
  <2>3. CASE Suspend(c)
    <3>1. /\ promise' = promise /\ Waiting(c) /\ call'[c].mode = "await" /\ call'[c].waits = call[c].waits
      BY <2>3 DEF Suspend, Waiting, TypeInv, TypeOK, CallRecords
    <3>2. \A d \in Calls : d # c => call'[d] = call[d]
      BY <1>2, CallsApart
    <3>3. \A d \in Calls : Onward(d)
      BY <3>1, <3>2 DEF Onward, Waiting
    <3> QED
      BY <3>1, <3>3, FreshIdle DEF SameDeps
  <2>4. ASSUME NEW n \in Ids, ResumeWithDependency(c, n) PROVE FreshInv'
    BY <2>4, FreshDependency
  <2>5. ASSUME NEW n \in Ids, ResumeWithFault(c, n) PROVE FreshInv'
    BY <2>5, FreshFault
  <2>6. CASE Return(c)
    <3>1. promise' = promise /\ Frames(c) = {}
      BY <2>6 DEF Return
    <3>2. \A d \in Calls : Onward(d) \/ Frames(d) = {}
      BY <1>2, <3>1, CallsApart DEF Onward, Waiting
    <3> QED
      BY <3>1, <3>2, FreshIdle DEF SameDeps
  <2> QED
    BY <1>2, <2>1, <2>2, <2>3, <2>4, <2>5, <2>6, FreshLookup
    DEF CallStep, Lookups, Unwinding, Resumption
<1>3. ASSUME NEW n \in Ids, FactorySettles(n) PROVE FreshInv'
  <2>1. call' = call /\ promise[n].state = "building"
    BY <1>3 DEF FactorySettles
  <2>2. \A j \in Ids : SameDeps(j) /\ (promise[j].state = "free" => promise'[j].state = "free")
    <3>1. CASE promise' = [promise EXCEPT ![n].state = "ok"]
      <4>1. promise'[n].deps = promise[n].deps /\ \A j \in Ids : j # n => promise'[j] = promise[j]
        BY <3>1, ReadyEffect
      <4> QED
        BY <2>1, <4>1 DEF SameDeps
    <3>2. CASE Fails(n, "threw")
      <4>1. "threw" \in Failures
        BY DEF Failures
      <4>2. /\ \A j \in Ids : promise'[j].deps = promise[j].deps
            /\ \A j \in Ids : j # n => promise'[j].state = promise[j].state
        BY <2>1, <3>2, <4>1, FailsEffect
      <4> QED
        BY <2>1, <4>2 DEF SameDeps
    <3> QED
      BY <1>3, <3>1, <3>2 DEF FactorySettles
  <2> QED
    BY <2>1, <2>2, FreshIdle DEF Onward, Waiting
<1>4. ASSUME NEW a \in Asks, Resolve(a[1], a[2], a[3]) PROVE FreshInv'
  <2>1. a[1] \in Calls /\ call[a[1]].mode = "idle" /\ promise' = promise
    BY <1>4, ConstantsAssumption DEF Resolve
  <2>2. Frames(a[1]) = {}
    BY <2>1, FrameIs DEF IsolationInv, PlaceInv
  <2>3. \A d \in Calls : d # a[1] => call'[d] = call[d]
    BY <1>4 DEF Resolve, TypeInv, TypeOK
  <2>4. \A d \in Calls : Onward(d) \/ Frames(d) = {}
    BY <2>2, <2>3 DEF Onward, Waiting
  <2> QED
    BY <2>1, <2>4, FreshIdle DEF SameDeps
<1>5. CASE Configure
  BY <1>1, <1>5 DEF Configure, Register, Override, CreateRequestScope
<1>6. ASSUME NEW k \in Containers, NEW j \in Ids, StaleDisposal(k, j) PROVE FreshInv'
  BY <1>1, <1>6 DEF StaleDisposal
<1>7. ASSUME NEW k \in Containers, Dispose(k) \/ DisposalStep(k) PROVE FreshInv'
  BY <1>1, <1>7 DEF Dispose, DisposalStep, StaleTasksDone, CollectInstances,
     FinishDisposal, DestroyNext
<1>8. CASE ChildrenDisposed
  BY <1>1, <1>8 DEF ChildrenDisposed
<1>9. CASE UNCHANGED vars
  BY <1>1, <1>9 DEF vars
<1> QED
  BY <1>2, <1>3, <1>4, <1>5, <1>6, <1>7, <1>8, <1>9 DEF Next

LEMMA FreshCorrect == Spec => []AllInv
<1>1. Init => AllInv
  BY TypeInit, DestroyInit, CellInit, ReachInit, IsolationInit, UseInit DEF AllInv, CacheInv
<1>2. AllInv /\ CacheInv' /\ [Next]_vars => AllInv'
  BY IsolationStep, IntactStep, TrackedStep, DepsStep, FreshStep DEF AllInv, CacheInv
<1> QED
  BY <1>1, <1>2, CacheCorrect, PTL DEF Spec

\* What a container that sees the root's graph holds is built from nothing that
\* was destroyed or is about to be.
LEMMA HoldsIntact ==
  ASSUME AllInv, NEW k \in Containers, ~DisposedInHierarchy(k), SharesGraph(k),
         NEW i \in cache[k], NEW d \in Holds(i)
  PROVE  Intact(d)
<1> USE DEF AllInv, CacheInv, DestroyInv
<1>1. i \in Ids /\ promise[i].home = k /\ k # None
  BY ConstantsAssumption DEF HomeInv, TypeInv, TypeOK
<1>2. FreshAt(i)
  BY <1>1 DEF FreshInv, InUse, InPlace
<1>3. \A e \in promise[i].deps : Serves(e, i)
  BY <1>2 DEF FreshAt
<1> QED
  BY <1>3 DEF Holds, Serves, Feeds

\* FreshDependencies, for the containers whose lookups are the root's.
FreshWhereShared ==
  \A k \in Containers : ~DisposedInHierarchy(k) /\ SharesGraph(k) =>
    \A i \in cache[k] : \A d \in Holds(i) :
      destroyed[d] = 0 /\ \A h \in Containers : d \notin stale[h]

\* What is held in a container that sees the root's graph was built from no instance
\* that override() destroyed or will destroy, whatever is overridden while the
\* creation awaits its other dependencies, and whatever other scopes override.
THEOREM FreshInSharedGraph == Spec => []FreshWhereShared
<1>1. AllInv => FreshWhereShared
  BY HoldsIntact DEF FreshWhereShared, Intact
<1> QED
  BY <1>1, FreshCorrect, PTL

\* Providers are registered and overridden in the root, never in a request scope.
RootChanges == \A r \in Registers \cup Overrides : r[1] = Root
OnlyRootHas == \A k \in Children, t \in Tokens : registrations[k][t] = None

\* A cached instance holds no instance that override() of one of its dependencies has
\* destroyed or scheduled to be, provided that override() and register() are called
\* on the root, as the framework does.  A scope with a provider of its own is left
\* out: override() on the root judges its cache by the scope's own graph, and so
\* misses what the scope built through an instance of the root.
THEOREM StaysFresh ==
  ASSUME RootChanges
  PROVE  Spec => []FreshDependencies
<1>1. Init => OnlyRootHas
  BY ConstantsAssumption DEF Init, OnlyRootHas, Containers
<1>2. TypeInv /\ OnlyRootHas /\ [Next]_vars => OnlyRootHas'
  <2> SUFFICES ASSUME TypeInv, OnlyRootHas, [Next]_vars PROVE OnlyRootHas'
    OBVIOUS
  <2>1. CASE UNCHANGED registrations
    BY <2>1 DEF OnlyRootHas
  <2>2. ASSUME NEW p \in Providers, Register(Root, p) \/ Override(Root, p) PROVE OnlyRootHas'
    <3>1. registrations' = [registrations EXCEPT ![Root][provide[p]] = p]
      BY <2>2 DEF Register, Override
    <3>2. \A k \in Children : registrations'[k] = registrations[k]
      BY <3>1, ConstantsAssumption DEF TypeInv, TypeOK, Containers
    <3> QED
      BY <3>2 DEF OnlyRootHas
  <2>3. CASE Configure
    <3>1. \A r \in Registers \cup Overrides : r[1] = Root /\ r[2] \in Providers
      BY PairsConfigured DEF RootChanges
    <3> QED
      BY <2>1, <2>2, <2>3, <3>1 DEF Configure, CreateRequestScope, graphVars
  <2>4. ASSUME NEW c \in Calls, CallStep(c) PROVE UNCHANGED registrations
    BY <2>4, CallStepQuiet
  <2>5. ASSUME NEW h \in Containers, Dispose(h) \/ DisposalStep(h) PROVE UNCHANGED registrations
    BY <2>5 DEF Dispose, DisposalStep, StaleTasksDone, CollectInstances, FinishDisposal,
       DestroyNext, graphVars
  <2>6. CASE \/ \E h \in Containers, j \in Ids : StaleDisposal(h, j)
             \/ \E a \in Asks : Resolve(a[1], a[2], a[3])
             \/ \E j \in Ids : FactorySettles(j)
             \/ ChildrenDisposed \/ UNCHANGED vars
    BY <2>1, <2>6 DEF StaleDisposal, Resolve, FactorySettles, ChildrenDisposed, vars, graphVars
  <2> QED
    BY <2>1, <2>3, <2>4, <2>5, <2>6 DEF Next
<1>3. AllInv /\ OnlyRootHas => FreshDependencies
  <2> SUFFICES ASSUME AllInv, OnlyRootHas, NEW k \in Containers, ~DisposedInHierarchy(k),
                      NEW i \in cache[k], NEW d \in Holds(i)
               PROVE  Intact(d)
    BY DEF FreshDependencies, Intact
  <2>1. SharesGraph(k)
    BY DEF SharesGraph, OnlyRootHas, Containers
  <2> QED
    BY <2>1, HoldsIntact
<1>4. AllInv => TypeInv
  BY DEF AllInv, CacheInv
<1> QED
  BY <1>1, <1>2, <1>3, <1>4, FreshCorrect, PTL DEF Spec
=============================================================================
