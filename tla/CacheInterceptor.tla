-------------------------- MODULE CacheInterceptor --------------------------
(***************************************************************************)
(* CacheInterceptor of packages/cache-manager/src/interceptor.ts for one   *)
(* key: GET requests read the store, call the handler on a miss and store  *)
(* its value; a write whose handler succeeded evicts the key once its      *)
(* response was sent, or when a fallback timer fires first.  Values are    *)
(* versions of the data; the store never expires the key (ttl 0).          *)
(***************************************************************************)
EXTENDS Naturals, FiniteSets

CONSTANTS Gets, Puts, Committed  \* Committed: writes whose handler sent the response itself

InterceptorAssumption == Committed \subseteq Puts

VARIABLES
  truth,     \* version of the data
  store,     \* version under the key, 0 when absent
  get,       \* phase of each GET
  val,       \* version each GET holds, 0 for none
  write,     \* phase of each write; "replaced" is sending by the replaced send
  eviction,  \* of each write: none, wanted, done
  completed, \* writes whose `completed` is set
  timer,     \* writes whose fallback timer is set
  wrapped    \* writes whose response.send is the replaced one

vars == <<truth, store, get, val, write, eviction, completed, timer, wrapped>>
getVars == <<get, val>>
writeVars == <<write, eviction, completed, timer, wrapped>>

Versions == 0..(Cardinality(Puts) + 1)
TypeOK ==
  /\ truth \in Versions /\ store \in Versions
  /\ get \in [Gets -> {"idle", "missed", "handled", "done"}]
  /\ val \in [Gets -> Versions]
  /\ write \in [Puts -> {"idle", "handled", "sending", "replaced", "sent", "failed"}]
  /\ eviction \in [Puts -> {"none", "wanted", "done"}]
  /\ completed \subseteq Puts /\ timer \subseteq Puts
  /\ wrapped \subseteq Puts

Init ==
  /\ truth = 1 /\ store = 0
  /\ get = [g \in Gets |-> "idle"] /\ val = [g \in Gets |-> 0]
  /\ write = [w \in Puts |-> "idle"] /\ eviction = [w \in Puts |-> "none"]
  /\ completed = {} /\ timer = {} /\ wrapped = {}

---------------------------------------------------------------------------
(* interceptGet *)

\* safeGet: a failing store is a miss.
Looks(g, fails) ==
  /\ get[g] = "idle"
  /\ val' = [val EXCEPT ![g] = IF fails THEN 0 ELSE store]
  /\ get' = [get EXCEPT ![g] = IF fails \/ store = 0 THEN "missed" ELSE "done"]
  /\ UNCHANGED <<truth, store, writeVars>>

\* next.handle() reads the data.
Handles(g) ==
  /\ get[g] = "missed"
  /\ get' = [get EXCEPT ![g] = "handled"] /\ val' = [val EXCEPT ![g] = truth]
  /\ UNCHANGED <<truth, store, writeVars>>

\* safeSet: a failing store or an uncacheable response leaves the key alone.
Stores(g, fails) ==
  /\ get[g] = "handled"
  /\ get' = [get EXCEPT ![g] = "done"]
  /\ store' = IF fails THEN store ELSE val[g]
  /\ UNCHANGED <<truth, val, writeVars>>

---------------------------------------------------------------------------
(* evictAfterWrite *)

\* Mutant: `completed` is not looked at.
EvictAgain(w, c, e) == [e EXCEPT ![w] = "wanted"]
\* runEviction
Evict(w, c, e) == IF w \in c THEN e ELSE [e EXCEPT ![w] = "wanted"]

\* Mutant: no fallback timer.
FallbackTimerNone(w) == timer
FallbackTimer(w) == timer \cup {w}

\* The handler succeeds: a response sent already evicts at once, otherwise
\* response.send is replaced and the fallback timer set.
HandlerWrites(w) ==
  /\ write[w] = "idle"
  /\ truth' = truth + 1
  /\ IF w \in Committed
     THEN /\ write' = [write EXCEPT ![w] = "sent"]
          /\ eviction' = [eviction EXCEPT ![w] = "wanted"]
          /\ UNCHANGED <<timer, wrapped>>
     ELSE /\ write' = [write EXCEPT ![w] = "handled"]
          /\ wrapped' = wrapped \cup {w} /\ timer' = FallbackTimer(w)
          /\ UNCHANGED eviction
  /\ UNCHANGED <<store, getVars, completed>>

Sends(w) ==
  /\ write[w] = "handled"
  /\ write' = [write EXCEPT ![w] = IF w \in wrapped THEN "replaced" ELSE "sending"]
  /\ UNCHANGED <<truth, store, getVars, eviction, completed, timer, wrapped>>

\* The original send, restored by the fallback, ends.
Sent(w, ok) ==
  /\ write[w] = "sending"
  /\ write' = [write EXCEPT ![w] = IF ok THEN "sent" ELSE "failed"]
  /\ UNCHANGED <<truth, store, getVars, eviction, completed, timer, wrapped>>

\* The replaced send ends, perhaps after the fallback restored the other.
ReplacedSent(w, ok) ==
  /\ write[w] = "replaced"
  /\ write' = [write EXCEPT ![w] = IF ok THEN "sent" ELSE "failed"]
  /\ eviction' = IF ok THEN Evict(w, completed, eviction) ELSE eviction  \* the catch block
  /\ completed' = completed \cup {w}
  /\ timer' = timer \ {w} /\ wrapped' = wrapped \ {w}
  /\ UNCHANGED <<truth, store, getVars>>

Fallback(w) ==
  /\ w \in timer
  /\ eviction' = Evict(w, completed, eviction)
  /\ completed' = completed \cup {w}
  /\ timer' = timer \ {w} /\ wrapped' = wrapped \ {w}
  /\ UNCHANGED <<truth, store, getVars, write>>

\* safeDel
Evicts(w, fails) ==
  /\ eviction[w] = "wanted"
  /\ eviction' = [eviction EXCEPT ![w] = "done"]
  /\ store' = IF fails THEN store ELSE 0
  /\ UNCHANGED <<truth, getVars, write, completed, timer, wrapped>>

Next ==
  \/ \E g \in Gets : \/ \E f \in BOOLEAN : Looks(g, f) \/ Stores(g, f)
                     \/ Handles(g)
  \/ \E w \in Puts : \/ HandlerWrites(w) \/ Sends(w) \/ Fallback(w)
                       \/ \E b \in BOOLEAN : Sent(w, b) \/ ReplacedSent(w, b) \/ Evicts(w, b)

\* The timer fires and the store answers; a response need never be sent.
Due == \E w \in Puts : Fallback(w) \/ \E fails \in BOOLEAN : Evicts(w, fails)
Spec == Init /\ [][Next]_vars /\ WF_vars(Due)

---------------------------------------------------------------------------
(* Properties *)

\* A write that succeeded is evicted in the end or its response failed, though
\* the response be never sent ("successful writes do not leave stale entries
\* behind indefinitely").
AllEvicted == \A w \in Puts : write[w] \in {"idle", "failed"} \/ eviction[w] = "done"

\* A write evicts once, whether its response or the fallback timer comes first
\* (runEviction).
EvictsOnce == [][\A w \in Puts : eviction[w] = "done" => eviction'[w] = "done"]_vars

=============================================================================
