----------------------------- MODULE SigningKeys -----------------------------
(***************************************************************************)
(* JwksClient of @fluojs/jwt, which fetches the public keys of an identity *)
(* provider and caches them.  Calls of getSigningKey() do not share a      *)
(* fetch.  The provider withdraws keys and publishes others meanwhile, and *)
(* the client may be disposed of at any time.                              *)
(***************************************************************************)
EXTENDS Naturals, Sequences, SequencesExt

CONSTANTS
  Kids,
  Calls,      \* of getSigningKey() at a time
  Ttl,        \* jwksCacheTtl
  MaxEntries, \* jwksCacheMaxEntries
  MaxTime     \* bound: of the clock

KeysAssumption == Ttl \in Nat /\ MaxEntries \in Nat \ {0} /\ MaxTime \in Nat

VARIABLES
  time,
  withdrawn,  \* when the provider withdrew a key; Never while it publishes it
  cache,      \* the Map in its order: [kid, until], and history: the generation it is of
  generation, \* lifecycleGeneration
  call        \* each call, idle again when it returned or threw: where it is, its kid, when it began, in which generation, and whether the key came

keyVars == <<time, withdrawn, cache, generation, call>>

Never == MaxTime + 1
Idle == [pc |-> "idle", kid |-> "", now |-> 0, of |-> 0, came |-> FALSE]
Init ==
  /\ time = 0 /\ withdrawn = [k \in Kids |-> Never] /\ cache = <<>> /\ generation = 0
  /\ call = [c \in Calls |-> Idle]

Published == {k \in Kids : withdrawn[k] = Never}
Tick == time < MaxTime /\ time' = time + 1 /\ UNCHANGED <<withdrawn, cache, generation, call>>
Withdraws ==
  /\ \E k \in Published : withdrawn' = [withdrawn EXCEPT ![k] = time]
  /\ UNCHANGED <<time, cache, generation, call>>

---------------------------------------------------------------------------
pruneExpiredCacheEntries(now) == SelectSeq(cache, LAMBDA e : e.until > now)
\* Map.set() of a key that is there keeps its place.
Put(entries, e) ==
  IF \E i \in DOMAIN entries : entries[i].kid = e.kid
    THEN [i \in DOMAIN entries |-> IF entries[i].kid = e.kid THEN e ELSE entries[i]]
    ELSE Append(entries, e)
evictOldestCacheEntries(entries) ==
  IF Len(entries) > MaxEntries THEN SubSeq(entries, Len(entries) - MaxEntries + 1, Len(entries)) ELSE entries
ExpiresAtLast(c) == time + Ttl
ExpiresAt(c) == call[c].now + Ttl

\* getSigningKey(): a key that is cached, or a fetch.
Gets(c) ==
  /\ call[c].pc = "idle"
  /\ cache' = pruneExpiredCacheEntries(time)
  /\ \E k \in Kids :
       call' = [call EXCEPT ![c] =
         IF \E i \in DOMAIN cache' : cache'[i].kid = k THEN Idle
         ELSE [Idle EXCEPT !.pc = "fetching", !.kid = k, !.now = time, !.of = generation]]
  /\ UNCHANGED <<time, withdrawn, generation>>

\* The provider's answer, its body still under way; or the fetch fails or is
\* aborted for its timeout.
Fetches(c) ==
  /\ call[c].pc = "fetching"
  /\ \/ call' = [call EXCEPT ![c].pc = "reading", ![c].came = call[c].kid \in Published]
     \/ call' = [call EXCEPT ![c] = Idle]
  /\ UNCHANGED <<time, withdrawn, cache, generation>>

\* The body is read: the key is cached unless the client was disposed of.
Stale(c) == call[c].of # generation
Reads(c) ==
  /\ call[c].pc = "reading"
  /\ LET k == call[c].kid IN
     \/ Stale(c) /\ call' = [call EXCEPT ![c] = Idle] /\ UNCHANGED cache
     \/ /\ ~Stale(c) /\ ~call[c].came
        /\ call' = [call EXCEPT ![c] = Idle] /\ UNCHANGED cache
     \/ /\ ~Stale(c) /\ call[c].came
        /\ call' = [call EXCEPT ![c] = Idle]
        /\ cache' = IF Ttl = 0 THEN cache
                    ELSE evictOldestCacheEntries(Put(cache, [kid |-> k, until |-> ExpiresAt(c), of |-> call[c].of]))
  /\ UNCHANGED <<time, withdrawn, generation>>

\* Bound: one dispose().
dispose ==
  /\ generation = 0 /\ generation' = 1 /\ cache' = <<>>
  /\ UNCHANGED <<time, withdrawn, call>>

Next == Tick \/ Withdraws \/ dispose \/ \E c \in Calls : Gets(c) \/ Fetches(c) \/ Reads(c)
Spec == Init /\ [][Next]_keyVars

---------------------------------------------------------------------------
TypeOK ==
  /\ time \in 0 .. MaxTime /\ withdrawn \in [Kids -> 0 .. Never] /\ generation \in 0 .. 1
  /\ \A i \in DOMAIN cache : cache[i].kid \in Kids

\* A key that the provider has withdrawn leaves the cache after jwksCacheTtl,
\* however long its body was read; the cache holds one entry of a key, no more
\* than jwksCacheMaxEntries, and nothing that was asked for before dispose()
\* (getSigningKey(), README of @fluojs/jwt: bounded, and cleared on disposal).
WithdrawnKeysLeave ==
  /\ \A i \in DOMAIN cache : cache[i].until > time => withdrawn[cache[i].kid] + Ttl > time
  /\ \A i, j \in DOMAIN cache : cache[i].kid = cache[j].kid => i = j
  /\ Len(cache) <= MaxEntries
  /\ \A i \in DOMAIN cache : cache[i].of = generation
=============================================================================
