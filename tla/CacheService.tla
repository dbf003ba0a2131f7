---------------------------- MODULE CacheService ----------------------------
(***************************************************************************)
(* remember(), del() and reset() of packages/cache-manager/src/service.ts  *)
(* for one key, over a store whose requests are applied at any time before *)
(* they return, in any order.  Values are versions of the data that the    *)
(* loader reads; the data changes whenever a writer wants.                 *)
(***************************************************************************)
EXTENDS Naturals, FiniteSets

CONSTANTS Callers,   \* calls of remember()
          Writers,   \* changes of the data, each followed by del()
          Resets,    \* calls of reset()
          None

CacheAssumption ==
  /\ None \notin Callers
  /\ Callers \cap Writers = {} /\ Callers \cap Resets = {} /\ Writers \cap Resets = {}

VARIABLES
  truth,       \* version of the data
  store,       \* version stored under the key, 0 when absent
  resetVersion,
  inflight,    \* the caller whose load is in flight, None when absent
  invalidated, \* callers whose entry is invalidated
  pending,     \* pendingLoads: bag of generations, as a function
  marked,      \* pendingInvalidations: the generation, or None
  phase,       \* of callers, writers and resets
  gen,         \* resetVersion when the caller called
  val,         \* version the caller read, from the store or the data
  joined,      \* the caller whose promise is returned instead
  writes,      \* version when del() or reset() was called
  floor,       \* history: the newest of those versions whose call returned
  loadedIn     \* history: resetVersion when the loader of a caller began

bookkeeping == <<resetVersion, inflight, invalidated, pending, marked>>
history == <<floor, loadedIn>>
vars == <<truth, store, bookkeeping, phase, gen, val, joined, writes, history>>

Procs == Callers \cup Writers \cup Resets
Generations == 0..Cardinality(Resets)
Versions == 1..(Cardinality(Writers) + 1)

TypeOK ==
  /\ truth \in Versions /\ store \in Versions \cup {0}
  /\ resetVersion \in Generations
  /\ inflight \in Callers \cup {None} /\ invalidated \subseteq Callers
  /\ pending \in [Generations -> 0..Cardinality(Callers)]
  /\ marked \in Generations \cup {None}
  /\ phase \in [Procs -> {"idle", "getting", "got", "loading", "loaded", "setting", "set",
                          "deleting", "joined", "wrote", "done"}]
  /\ gen \in [Callers -> Generations] /\ val \in [Callers -> Versions \cup {0}]
  /\ joined \in [Callers -> Callers \cup {None}]
  /\ writes \in [Writers \cup Resets -> Versions \cup {0}]
  /\ floor \in Versions \cup {0} /\ loadedIn \in [Callers -> Generations]

Init ==
  /\ truth = 1 /\ store = 0
  /\ resetVersion = 0 /\ inflight = None /\ invalidated = {}
  /\ pending = [g \in Generations |-> 0] /\ marked = None
  /\ phase = [p \in Procs |-> "idle"]
  /\ gen = [c \in Callers |-> 0] /\ val = [c \in Callers |-> 0]
  /\ joined = [c \in Callers |-> None]
  /\ writes = [w \in Writers \cup Resets |-> 0]
  /\ floor = 0 /\ loadedIn = [c \in Callers |-> 0]

Goes(p, to) == phase' = [phase EXCEPT ![p] = to]
AtMost(a, b) == IF a < b THEN a ELSE b
AtLeast(a, b) == IF a < b THEN b ELSE a

---------------------------------------------------------------------------
(* remember() *)

\* beginPendingLoad, store.get
Remember(c) ==
  /\ phase[c] = "idle"
  /\ Goes(c, "getting")
  /\ gen' = [gen EXCEPT ![c] = resetVersion]
  /\ pending' = [pending EXCEPT ![resetVersion] = @ + 1]
  /\ UNCHANGED <<truth, store, resetVersion, inflight, invalidated, marked, val, joined, writes, history>>

\* The store reads the key.
StoreGets(c) ==
  /\ phase[c] = "getting"
  /\ Goes(c, "got")
  /\ val' = [val EXCEPT ![c] = store]
  /\ UNCHANGED <<truth, store, bookkeeping, gen, joined, writes, history>>

\* endPendingLoad; reset() may have dropped the generation.
EndPending(g) == pending' = [pending EXCEPT ![g] = IF @ > 0 THEN @ - 1 ELSE 0]

ReturnsCached(c) ==
  /\ phase[c] = "got" /\ val[c] # 0
  /\ Goes(c, "done") /\ EndPending(gen[c])
  /\ UNCHANGED <<truth, store, resetVersion, inflight, invalidated, marked, gen, val, joined, writes, history>>

\* A load in flight is shared.
Joins(c) ==
  /\ phase[c] = "got" /\ val[c] = 0 /\ inflight # None
  /\ Goes(c, "joined") /\ EndPending(gen[c])
  /\ joined' = [joined EXCEPT ![c] = inflight]
  /\ UNCHANGED <<truth, store, resetVersion, inflight, invalidated, marked, gen, val, writes, history>>

\* Mutant: the load is started although another is in flight.
LoadsUnshared(c) ==
  /\ phase[c] = "got" /\ val[c] = 0
  /\ Goes(c, "loading") /\ EndPending(gen[c])
  /\ inflight' = c
  /\ invalidated' = IF marked = gen[c] THEN invalidated \cup {c} ELSE invalidated
  /\ loadedIn' = [loadedIn EXCEPT ![c] = resetVersion]
  /\ UNCHANGED <<truth, store, resetVersion, marked, gen, val, joined, writes, floor>>
\* A miss: the loader is called and its entry kept.
Loads(c) ==
  /\ phase[c] = "got" /\ val[c] = 0 /\ inflight = None
  /\ Goes(c, "loading") /\ EndPending(gen[c])
  /\ inflight' = c
  /\ invalidated' = IF marked = gen[c] THEN invalidated \cup {c} ELSE invalidated
  /\ loadedIn' = [loadedIn EXCEPT ![c] = resetVersion]
  /\ UNCHANGED <<truth, store, resetVersion, marked, gen, val, joined, writes, floor>>

\* The loader reads the data.
LoaderReads(c) ==
  /\ phase[c] = "loading"
  /\ Goes(c, "loaded")
  /\ val' = [val EXCEPT ![c] = truth]
  /\ UNCHANGED <<truth, store, bookkeeping, gen, joined, writes, history>>

\* entry.invalidated || this.resetVersion !== resetVersion
MustNotStore(c) == c \in invalidated \/ resetVersion # gen[c]

\* The entry is dropped only if it is still this one.
InflightAfter(c) == IF inflight = c THEN None ELSE inflight

\* The finally block of the load.
Settles(c) ==
  /\ Goes(c, "done")
  /\ inflight' = InflightAfter(c)
  /\ invalidated' = invalidated \ {c}
  /\ marked' = IF marked = gen[c] THEN None ELSE marked
  /\ UNCHANGED <<resetVersion, pending>>

LoaderFails(c) ==
  /\ phase[c] \in {"loading", "loaded"}
  /\ Settles(c)
  /\ UNCHANGED <<truth, store, gen, val, joined, writes, history>>

SkipsStore(c) ==
  /\ phase[c] = "loaded" /\ MustNotStore(c)
  /\ Settles(c)
  /\ UNCHANGED <<truth, store, gen, val, joined, writes, history>>

Stores(c) ==
  /\ phase[c] = "loaded" /\ ~MustNotStore(c)
  /\ Goes(c, "setting")
  /\ UNCHANGED <<truth, store, bookkeeping, gen, val, joined, writes, history>>

StoreSets(c) ==
  /\ phase[c] = "setting"
  /\ Goes(c, "set")
  /\ store' = val[c]
  /\ UNCHANGED <<truth, bookkeeping, gen, val, joined, writes, history>>

\* Mutant: what was stored is not looked at again.
KeepsAlways(c) == TRUE
Keeps(c) == ~MustNotStore(c)

StoredStays(c) ==
  /\ phase[c] = "set" /\ Keeps(c)
  /\ Settles(c)
  /\ UNCHANGED <<truth, store, gen, val, joined, writes, history>>

\* Invalidated while it was stored: deleted again.
StoredGoes(c) ==
  /\ phase[c] = "set" /\ ~Keeps(c)
  /\ Goes(c, "deleting")
  /\ UNCHANGED <<truth, store, bookkeeping, gen, val, joined, writes, history>>

StoreDeletes(c) ==
  /\ phase[c] = "deleting" /\ c \in Callers
  /\ store' = 0
  /\ Settles(c)
  /\ UNCHANGED <<truth, gen, val, joined, writes, history>>

\* The shared promise settles.
JoinedReturns(c) ==
  /\ phase[c] = "joined" /\ phase[joined[c]] = "done"
  /\ Goes(c, "done")
  /\ UNCHANGED <<truth, store, bookkeeping, gen, val, joined, writes, history>>

---------------------------------------------------------------------------
(* Writers, del() and reset() *)

Writes(w) ==
  /\ phase[w] = "idle"
  /\ truth' = truth + 1
  /\ Goes(w, "wrote")
  /\ UNCHANGED <<store, bookkeeping, gen, val, joined, writes, history>>

InPending == \E g \in Generations : pending[g] > 0

\* The call of del() by w.
DelMarks(w) ==
  /\ invalidated' = IF inflight # None THEN invalidated \cup {inflight} ELSE invalidated
  /\ marked' = IF inflight = None /\ InPending THEN resetVersion ELSE marked
  /\ writes' = [writes EXCEPT ![w] = truth]
  /\ UNCHANGED <<resetVersion, inflight, pending>>

\* The store deletes the key and del() returns.
DelReturns(w) == store' = 0 /\ floor' = AtLeast(floor, writes[w])

Del(w) ==
  /\ phase[w] = "wrote"
  /\ Goes(w, "deleting") /\ DelMarks(w)
  /\ UNCHANGED <<truth, store, gen, val, joined, history>>

DelEnds(w) ==
  /\ phase[w] = "deleting"
  /\ Goes(w, "done") /\ DelReturns(w)
  /\ UNCHANGED <<truth, bookkeeping, gen, val, joined, writes, loadedIn>>

NextGeneration == resetVersion + 1
Reset(r) ==
  /\ phase[r] = "idle"
  /\ Goes(r, "deleting")
  /\ resetVersion' = NextGeneration
  /\ inflight' = None /\ marked' = None
  /\ pending' = [g \in Generations |-> 0]
  /\ writes' = [writes EXCEPT ![r] = truth]
  /\ UNCHANGED <<truth, store, invalidated, gen, val, joined, history>>

RememberStep(c) ==
  \/ Remember(c) \/ StoreGets(c) \/ ReturnsCached(c) \/ Joins(c) \/ JoinedReturns(c)
  \/ Loads(c) \/ LoaderReads(c) \/ LoaderFails(c) \/ SkipsStore(c)
  \/ Stores(c) \/ StoreSets(c) \/ StoredStays(c) \/ StoredGoes(c) \/ StoreDeletes(c)

Next ==
  \/ \E c \in Callers : RememberStep(c)
  \/ \E w \in Writers : Writes(w) \/ Del(w) \/ DelEnds(w)
  \/ \E r \in Resets : Reset(r) \/ DelEnds(r)

Spec == Init /\ [][Next]_vars

---------------------------------------------------------------------------
(* Properties *)

\* A version older than one that a returned del() or reset() invalidated is in
\* the store only while the load that put it there will still delete it (the
\* checks before and after set(); "does not repopulate a key when del runs
\* while remember is still loading").
StaleIsTransient ==
  store # 0 /\ store < floor =>
    \E c \in Callers : phase[c] \in {"set", "deleting"} /\ MustNotStore(c)

\* Callers share one load: two loaders run at once only when reset() was
\* called between their starts (the identity check of the finally block).
OneLoadAtATime ==
  \A c, d \in Callers :
    phase[c] = "loading" /\ phase[d] = "loading" /\ loadedIn[c] = loadedIn[d] => c = d
=============================================================================
