---------------------------- MODULE ServiceProofs ----------------------------
(***************************************************************************)
(* Proofs about the services that a module composes in no other proof:     *)
(* RefreshTokens, which it extends, and, each as an instance of its own,   *)
(* ConfigReload, CqrsEvents over EventBus, PassportGuard, RestartRunner,   *)
(* CacheService, SagaBus, CacheInterceptor, QueueService, Delivery, I18n   *)
(* and Notifications.                                                      *)
(* Each section states the inductive invariant of its service, the lemmas  *)
(* about its steps, and the theorems, for every value of the constants     *)
(* that the named assumptions of the service admit.                        *)
(***************************************************************************)
EXTENDS RefreshTokens, Sequences, FiniteSetTheorems, TLAPS

---------------------------------------------------------------------------
\* RefreshTokens.  StoredInv is about what the store has seen, PendingInv
\* about what the requests may still do to it, FamilyInv about a family
\* once it is revoked.

HasRecord(t) == \E p \in 0 .. MaxTokens : <<p, t>> \in stored

RequestsTyped ==
  request \in [Requests -> [pc : {"idle", "asking", "saving", "revoking", "verifying", "done",
                                 "used", "reused", "expired", "invalid", "error"},
                           token : 0 .. MaxTokens, next : 0 .. MaxTokens]]

\* What the store has seen: a token that was exchanged had a record, which is
\* live no more, and one successor; nothing is known of tokens not yet signed.
StoredInv ==
  /\ \A t \in Tokens : records[t] # "none" \/ t \in held => HasRecord(t)
  /\ \A t, n \in Tokens : <<t, n>> \in stored => records[t] # "live" /\ HasRecord(t)
  /\ \A t, n, m \in Tokens : <<t, n>> \in stored /\ <<t, m>> \in stored => n = m
  /\ \A t \in Tokens : HasRecord(t) => t <= signed

\* What a request may still do: its next token is its own and unknown to the
\* store, and what it consumed before it saves the next has no successor.
PendingInv ==
  \A r \in Requests :
    LET q == request[r] IN
    /\ q.pc \in {"asking", "saving", "verifying"} => q.token \in held /\ q.next \in 1 .. signed
    /\ q.pc = "verifying" \/ (q.pc = "asking" /\ Store = "fixed") => HasRecord(q.next)
    /\ (q.pc = "asking" /\ Store # "fixed") \/ q.pc = "saving" =>
         /\ ~HasRecord(q.next)
         /\ \A s \in Requests \ {r} : request[s].pc \in {"asking", "saving"} => request[s].next # q.next
    /\ q.pc = "saving" =>
         /\ Store = "consume" /\ records[q.token] # "live"
         /\ \A n \in Tokens : <<q.token, n>> \notin stored
         /\ \A s \in Requests \ {r} : request[s].pc = "saving" => request[s].token # q.token

ExchangeInv == TypeOK /\ RequestsTyped /\ StoredInv /\ PendingInv

\* Of a store that rotates: no live record belongs to a revoked family, and a
\* request extends the family of the token it presents.
FamilyInv ==
  /\ barred \subseteq 1 .. signed
  /\ \A t \in 1 .. signed : family[t] \in 1 .. signed
  /\ Store # "consume" => \A t \in Tokens : records[t] = "live" => family[t] \notin barred
  /\ \A r \in Requests :
       request[r].pc = "asking" => family[request[r].next] = family[request[r].token]

LEMMA ExchangeInit == TokensAssumption /\ Init => ExchangeInv /\ FamilyInv
<1> SUFFICES ASSUME TokensAssumption, Init PROVE ExchangeInv /\ FamilyInv
  OBVIOUS
<1> USE DEF TokensAssumption, Init, Tokens, None, Idle
<1> DEFINE old == IF Store = "fixed" THEN {1} ELSE {}
<1>1. signed = IF Store = "fixed" THEN 1 ELSE 0
  BY FS_Singleton, FS_EmptySet
<1>2. held = old /\ \A p, t : <<p, t>> \in stored <=> p = 0 /\ t \in old
  OBVIOUS
<1>3. \A t : HasRecord(t) <=> t \in old
  <2>1. 0 \in 0 .. MaxTokens
    OBVIOUS
  <2> HIDE DEF Init, old
  <2> QED
    BY <1>2, <2>1 DEF HasRecord
<1>4. TypeOK
  <2>1. stored \subseteq (0 .. MaxTokens) \X Tokens /\ expired \subseteq held /\ barred \subseteq Tokens
    OBVIOUS
  <2>2. records \in [Tokens -> {"none", "live", "used"}] /\ family \in [Tokens -> 0 .. MaxTokens]
    OBVIOUS
  <2> QED
    BY <1>1, <1>2, <2>1, <2>2 DEF TypeOK
<1>5. RequestsTyped
  BY DEF RequestsTyped
<1>6. StoredInv
  BY <1>1, <1>2, <1>3 DEF StoredInv
<1>7. PendingInv
  BY DEF PendingInv
<1>8. FamilyInv
  BY <1>1 DEF FamilyInv
<1> QED
  BY <1>4, <1>5, <1>6, <1>7, <1>8 DEF ExchangeInv

\* A token that somebody has was signed.
LEMMA HeldSigned ==
  ASSUME TokensAssumption, TypeOK
  PROVE  /\ signed \in Nat /\ signed <= MaxTokens /\ MaxTokens \in Nat
         /\ \A t \in held : t \in Tokens /\ t \in Nat /\ t <= signed /\ t # 0
         /\ \A t \in 1 .. signed : t \in Tokens /\ t \in Nat /\ t <= signed /\ t # 0
BY DEF TokensAssumption, TypeOK, Tokens

LEMMA RecordsSigned ==
  ASSUME TokensAssumption, ExchangeInv, FamilyInv
  PROVE  \A t \in Recorded : t \in 1 .. signed /\ family[t] \in 1 .. signed
<1>1. ASSUME NEW t \in Recorded PROVE t \in 1 .. signed
  BY HeldSigned DEF Recorded, ExchangeInv, StoredInv, Tokens, TokensAssumption
<1> QED
  BY <1>1 DEF FamilyInv

\* Steps of nobody's request: a new family, time, revocations.
LEMMA IssuesKeeps ==
  ASSUME TokensAssumption, ExchangeInv, FamilyInv, Issues
  PROVE  (ExchangeInv /\ FamilyInv)'
<1> USE DEF TokensAssumption, Tokens, Issues, ExchangeInv
<1>1. TypeOK' /\ RequestsTyped'
  BY DEF TypeOK, RequestsTyped, None
<1>2. \A t \in Tokens : HasRecord(t)' <=> HasRecord(t) \/ t = signed + 1
  BY DEF TypeOK, HasRecord, None
<1>3. StoredInv'
  BY <1>2 DEF TypeOK, StoredInv, None
<1>4. PendingInv'
  BY <1>2 DEF TypeOK, RequestsTyped, PendingInv, StoredInv, None
<1>5. FamilyInv'
  <2>1. \A t \in Tokens : family'[t] = IF t = signed + 1 THEN signed + 1 ELSE family[t]
    BY DEF TypeOK
  <2>2. \A t \in Tokens : records'[t] = IF t = signed + 1 THEN "live" ELSE records[t]
    BY DEF TypeOK
  <2>3. \A r \in Requests : request[r].pc = "asking" =>
          /\ request[r].token \in Tokens /\ request[r].token # signed + 1
          /\ request[r].next \in Tokens /\ request[r].next # signed + 1
    BY HeldSigned DEF PendingInv
  <2>4. \A t \in 1 .. signed' : t \in 1 .. signed \/ t = signed + 1
    BY HeldSigned
  <2>5. signed + 1 \notin barred /\ barred \subseteq 1 .. signed' /\ 1 .. signed \subseteq 1 .. signed'
        /\ signed + 1 \in 1 .. signed' /\ 1 .. signed' \subseteq Tokens
    BY HeldSigned DEF FamilyInv
  <2>6. UNCHANGED <<barred, request>>
    OBVIOUS
  <2> HIDE DEF Issues, Tokens
  <2> QED
    BY <2>1, <2>2, <2>3, <2>4, <2>5, <2>6 DEF FamilyInv
<1> QED
  BY <1>1, <1>3, <1>4, <1>5

LEMMA TimeAndRevocationsKeep ==
  ASSUME TokensAssumption, ExchangeInv, FamilyInv,
         Expires \/ revokeAllForSubject \/ revokeRefreshToken \/ UNCHANGED tokenVars
  PROVE  (ExchangeInv /\ FamilyInv)'
<1> USE DEF TokensAssumption, Tokens, ExchangeInv
<1>1. CASE Expires
  BY <1>1 DEF Expires, TypeOK, RequestsTyped, StoredInv, PendingInv, FamilyInv, HasRecord
<1>2. CASE revokeAllForSubject \/ revokeRefreshToken
  <2>1. /\ \A u \in Tokens : records'[u] \in {"none", records[u]}
        /\ barred' = barred \/ (barred' \subseteq barred \cup 1 .. signed /\ \A u \in Tokens : records'[u] = "none")
        /\ UNCHANGED <<signed, family, expired, held, request, stored>>
        /\ records' \in [Tokens -> {"none", "live", "used"}]
    <3>1. CASE revokeAllForSubject
      BY <3>1, RecordsSigned DEF revokeAllForSubject, revoke, Bars, TypeOK
    <3>2. CASE revokeRefreshToken
      BY <3>2 DEF revokeRefreshToken, revoke, TypeOK
    <3> QED
      BY <1>2, <3>1, <3>2
  <2>2. TypeOK'
    BY <2>1, HeldSigned DEF TypeOK
  <2>3. \A u : HasRecord(u)' <=> HasRecord(u)
    BY <2>1 DEF HasRecord
  <2>4. RequestsTyped' /\ StoredInv'
    BY <2>1, <2>3 DEF TypeOK, RequestsTyped, StoredInv
  <2>5. PendingInv'
    BY <2>1, <2>3, HeldSigned DEF PendingInv
  <2>6. FamilyInv'
    BY <2>1 DEF FamilyInv
  <2> QED
    BY <2>2, <2>4, <2>5, <2>6
<1>4. CASE UNCHANGED tokenVars
  BY <1>4 DEF tokenVars, TypeOK, RequestsTyped, StoredInv, PendingInv, FamilyInv, HasRecord
<1> QED
  BY <1>1, <1>2, <1>4

LEMMA PresentsKeeps ==
  ASSUME TokensAssumption, ExchangeInv, FamilyInv, NEW r \in Requests, Presents(r)
  PROVE  (ExchangeInv /\ FamilyInv)'
<1> USE DEF TokensAssumption, Tokens, ExchangeInv
<1>1. PICK t \in held :
        \/ /\ request' = [request EXCEPT ![r] = [Idle EXCEPT !.pc = "expired"]] /\ UNCHANGED <<signed, family>>
        \/ /\ Store # "fixed" /\ signed < MaxTokens /\ signed' = signed + 1
           /\ family' = [family EXCEPT ![signed + 1] = family[t]]
           /\ request' = [request EXCEPT ![r] = [pc |-> "asking", token |-> t, next |-> signed + 1]]
        \/ /\ Store = "fixed" /\ UNCHANGED <<signed, family>>
           /\ request' = [request EXCEPT ![r] = [pc |-> "asking", token |-> t, next |-> t]]
  BY DEF Presents
<1>2. UNCHANGED <<records, expired, held, stored, barred>> /\ \A u : HasRecord(u)' <=> HasRecord(u)
  BY DEF Presents, HasRecord
<1>3. t \in 1 .. signed /\ signed \in 0 .. MaxTokens /\ HasRecord(t) /\ \A u \in held : u <= signed
  BY DEF TypeOK, StoredInv
<1>4. RequestsTyped'
  BY <1>1, <1>3 DEF RequestsTyped, Idle, None
<1>5. TypeOK'
  <2>1. signed' \in 0 .. MaxTokens /\ signed <= signed' /\ family' \in [Tokens -> 0 .. MaxTokens]
    <3>1. family[t] \in 0 .. MaxTokens /\ signed + 1 \in Nat
      BY HeldSigned DEF TypeOK
    <3>2. \/ UNCHANGED <<signed, family>>
          \/ signed < MaxTokens /\ signed' = signed + 1 /\ family' = [family EXCEPT ![signed + 1] = family[t]]
      BY <1>1
    <3>3. family \in [Tokens -> 0 .. MaxTokens]
      BY <1>3 DEF TypeOK
    <3> QED
      BY SMTT(30), <1>3, <3>1, <3>2, <3>3
  <2>2. \A u \in held : u \in 1 .. signed'
    BY <2>1, HeldSigned
  <2> QED
    BY <1>2, <2>1, <2>2 DEF TypeOK
<1>6. StoredInv'
  BY <1>1, <1>2, <1>3 DEF TypeOK, StoredInv
<1>7. CASE request' = [request EXCEPT ![r] = [Idle EXCEPT !.pc = "expired"]] /\ UNCHANGED <<signed, family>>
  <2>1. PendingInv'
    BY <1>2, <1>7 DEF RequestsTyped, PendingInv, Idle
  <2>2. FamilyInv'
    BY <1>2, <1>7 DEF RequestsTyped, FamilyInv, Idle
  <2> QED
    BY <1>4, <1>5, <1>6, <2>1, <2>2
<1>8. ASSUME NEW n \in Tokens, request' = [request EXCEPT ![r] = [pc |-> "asking", token |-> t, next |-> n]],
             \/ n = t /\ Store = "fixed" /\ UNCHANGED <<signed, family>>
             \/ /\ n = signed + 1 /\ Store # "fixed" /\ signed' = signed + 1
                /\ family' = [family EXCEPT ![n] = family[t]]
      PROVE  (ExchangeInv /\ FamilyInv)'
  <2>1. \A s \in Requests : request'[s] = IF s = r THEN [pc |-> "asking", token |-> t, next |-> n] ELSE request[s]
    BY <1>8 DEF RequestsTyped
  <2>2. Store # "fixed" => /\ ~HasRecord(n)
                           /\ \A s \in Requests : request[s].pc \in {"asking", "saving"} => request[s].next # n
    BY <1>3, <1>8 DEF StoredInv, PendingInv
  <2>3. PendingInv'
    BY <1>2, <1>3, <1>8, <2>1, <2>2 DEF PendingInv
  <2>4. FamilyInv'
    <3>1. \A u \in Tokens : u # n \/ Store = "fixed" => family'[u] = family[u]
      BY <1>8 DEF TypeOK
    <3>2. Store # "fixed" => family'[n] = family[t] /\ records[n] = "none" /\ family[t] \in Nat
      BY <1>3, <1>8 DEF TypeOK, StoredInv
    <3>3. \A s \in Requests : request[s].pc = "asking" => request[s].token \in Tokens /\ request[s].next \in Tokens
                                                        /\ request[s].token <= signed
      BY HeldSigned DEF PendingInv
    <3> QED
      BY <1>2, <1>3, <1>8, <2>1, <2>2, <3>1, <3>2, <3>3 DEF FamilyInv
  <2> QED
    BY <1>4, <1>5, <1>6, <2>3, <2>4
<1> QED
  BY <1>1, <1>3, <1>7, <1>8

\* A request goes on or ends and nothing that the store has is changed, but
\* that all of it may be revoked.
LEMMA PassingKeeps ==
  ASSUME TokensAssumption, ExchangeInv, FamilyInv, NEW r \in Requests,
         NEW pc \in {"revoking", "used", "reused", "expired", "invalid", "error", "done"}, Goto(r, pc),
         UNCHANGED <<signed, family, expired, stored>>,
         held' = held \/ (request[r].pc = "verifying" /\ held' = held \cup {request[r].next}),
         UNCHANGED <<records, barred>> \/ (revoke(Condemned(r)) /\ Bars)
  PROVE  (ExchangeInv /\ FamilyInv)'
<1> USE DEF TokensAssumption, Tokens, ExchangeInv
<1>1. RequestsTyped' /\ \A s \in Requests : /\ request'[s].pc = IF s = r THEN pc ELSE request[s].pc
                                          /\ request'[s].token = request[s].token /\ request'[s].next = request[s].next
  BY DEF RequestsTyped, Goto
<1>2. /\ records' \in [Tokens -> {"none", "live", "used"}] /\ \A u \in Tokens : records'[u] \in {"none", records[u]}
      /\ barred' = barred \/ (barred' \subseteq barred \cup 1 .. signed /\ \A u \in Tokens : records'[u] = "none")
  <2>1. CASE UNCHANGED <<records, barred>>
    BY <2>1 DEF TypeOK
  <2>2. CASE revoke(Condemned(r)) /\ Bars
    BY SMTT(30), <2>2, RecordsSigned DEF revoke, Condemned, Bars, TypeOK
  <2> QED
    BY <2>1, <2>2
<1>3. TypeOK'
  <2>1. held' \subseteq 1 .. signed /\ held \subseteq held'
    BY HeldSigned DEF TypeOK, PendingInv
  <2>2. barred' \subseteq Tokens
    BY <1>2, HeldSigned DEF TypeOK
  <2> QED
    BY <1>2, <2>1, <2>2 DEF TypeOK
<1>4. \A t \in Tokens : HasRecord(t)' <=> HasRecord(t)
  BY DEF HasRecord
<1>5. StoredInv'
  BY <1>2, <1>4, HeldSigned DEF StoredInv, PendingInv
<1>6. PendingInv'
  BY SMTT(30), <1>1, <1>2, <1>4, HeldSigned DEF PendingInv
<1>7. FamilyInv'
  BY <1>1, <1>2 DEF FamilyInv
<1> QED
  BY <1>1, <1>3, <1>5, <1>6, <1>7

\* The exchange in one step; its answer may be lost.
LEMMA RotationKeeps ==
  ASSUME TokensAssumption, ExchangeInv, FamilyInv, NEW r \in Requests, Store = "rotate",
         request[r].pc = "asking", Verdict(request[r].token) = "consumed",
         NEW pc \in {"verifying", "error"}, Goto(r, pc),
         records' = rotate(request[r].token, request[r].next),
         stored' = stored \cup {<<request[r].token, request[r].next>>},
         UNCHANGED <<signed, family, expired, held, barred>>
  PROVE  (ExchangeInv /\ FamilyInv)'
<1> DEFINE t == request[r].token
           n == request[r].next
<1> USE DEF TokensAssumption, Tokens, ExchangeInv, Goto, rotate
<1>1. /\ t \in Tokens /\ n \in Tokens /\ t # n /\ records[t] = "live" /\ ~HasRecord(n) /\ n <= signed
      /\ HasRecord(t) /\ t \in held /\ t # 0
  BY HeldSigned DEF TypeOK, RequestsTyped, PendingInv, StoredInv, Verdict
<1>2. RequestsTyped' /\ \A s \in Requests : /\ request'[s].pc = IF s = r THEN pc ELSE request[s].pc
                                          /\ request'[s].token = request[s].token /\ request'[s].next = request[s].next
  BY DEF RequestsTyped
<1> HIDE DEF t, n
<1>3. /\ TypeOK' /\ \A u \in Tokens : records'[u] = IF u = n THEN "live" ELSE IF u = t THEN "used" ELSE records[u]
  <2>1. records' = [records EXCEPT ![t] = "used", ![n] = "live"]
    BY DEF t, n
  <2>2. stored' = stored \cup {<<t, n>>} /\ <<t, n>> \in (0 .. MaxTokens) \X Tokens
    BY <1>1, HeldSigned DEF t, n
  <2>3. records' \in [Tokens -> {"none", "live", "used"}]
    BY <1>1, <2>1 DEF TypeOK
  <2>4. \A u \in Tokens : records'[u] = IF u = n THEN "live" ELSE IF u = t THEN "used" ELSE records[u]
    BY <1>1, <2>1 DEF TypeOK
  <2>5. TypeOK'
    BY <2>2, <2>3 DEF TypeOK
  <2> QED
    BY <2>4, <2>5
<1>4. \A u \in Tokens : HasRecord(u)' <=> HasRecord(u) \/ u = n
  <2>1. stored' = stored \cup {<<t, n>>} /\ t \in 0 .. MaxTokens
    BY <1>1, HeldSigned DEF t, n
  <2> QED
    BY <2>1 DEF HasRecord
<1>5. \A u, m \in Tokens : <<u, m>> \in stored' <=> <<u, m>> \in stored \/ (u = t /\ m = n)
  BY <1>1 DEF t, n
<1> HIDE DEF Goto, rotate
<1>6. StoredInv'
  BY <1>1, <1>3, <1>4, <1>5 DEF StoredInv, TypeOK
<1>7. PendingInv'
  BY <1>1, <1>2, <1>3, <1>4, <1>5 DEF RequestsTyped, PendingInv, n
<1>8. FamilyInv'
  <2>1. family[n] = family[t]
    BY DEF FamilyInv, t, n
  <2> QED
    BY <1>1, <1>2, <1>3, <2>1 DEF FamilyInv
<1> QED
  BY <1>2, <1>3, <1>6, <1>7, <1>8

\* The exchange in two steps: first the token is used up, which nobody undoes;
LEMMA ConsumptionKeeps ==
  ASSUME TokensAssumption, ExchangeInv, FamilyInv, NEW r \in Requests, Store = "consume",
         request[r].pc = "asking", Verdict(request[r].token) = "consumed",
         NEW pc \in {"saving", "error"}, Goto(r, pc),
         records' = consume(request[r].token),
         UNCHANGED <<signed, family, expired, held, stored, barred>>
  PROVE  (ExchangeInv /\ FamilyInv)'
<1> DEFINE t == request[r].token
<1> USE DEF TokensAssumption, Tokens, ExchangeInv, Goto, consume
<1>1. /\ t \in Tokens /\ records[t] = "live" /\ HasRecord(t) /\ t \in held
  BY DEF TypeOK, RequestsTyped, PendingInv, StoredInv, Verdict
<1>2. RequestsTyped' /\ \A s \in Requests : /\ request'[s].pc = IF s = r THEN pc ELSE request[s].pc
                                          /\ request'[s].token = request[s].token /\ request'[s].next = request[s].next
  BY DEF RequestsTyped
<1>3. /\ TypeOK' /\ \A u \in Tokens : records'[u] = IF u = t THEN "used" ELSE records[u]
  BY <1>1 DEF TypeOK
<1>4. \A u \in Tokens : HasRecord(u)' <=> HasRecord(u)
  BY DEF HasRecord
<1> HIDE DEF Goto, consume
<1>6. StoredInv'
  BY <1>1, <1>3, <1>4 DEF StoredInv, TypeOK
<1>7. PendingInv'
  <2>1. \A m \in Tokens : <<t, m>> \notin stored
    BY <1>1 DEF StoredInv
  <2> HIDE DEF t
  <2>2. request[r].token = t /\ \A s \in Requests : request[s].pc = "saving" => request[s].token \in Tokens
    BY HeldSigned DEF PendingInv, t
  <2>3. ASSUME NEW s \in Requests, request[s].pc = "saving" PROVE request[s].token # t
    BY <1>1, <2>3 DEF PendingInv
  <2>4. request[r].pc = "asking" /\ Store = "consume" /\ held' = held /\ signed' = signed /\ stored' = stored
    OBVIOUS
  <2> DEFINE P(s, q) ==
        /\ q.pc \in {"asking", "saving", "verifying"} => q.token \in held /\ q.next \in 1 .. signed
        /\ q.pc = "verifying" => HasRecord(q.next)
        /\ q.pc \in {"asking", "saving"} => ~HasRecord(q.next)
        /\ q.pc = "saving" => \A n \in Tokens : <<q.token, n>> \notin stored
  <2>5. \A s \in Requests : P(s, request[s])
    BY <2>4 DEF PendingInv
  <2>6. \A s, u \in Requests : s # u /\ request[s].pc \in {"asking", "saving"} /\ request[u].pc \in {"asking", "saving"} =>
            request[s].next # request[u].next
    BY <2>4 DEF PendingInv
  <2>7. \A s \in Requests : P(s, request'[s])
    BY <1>2, <2>1, <2>2, <2>4, <2>5
  <2>8. \A s \in Requests : request'[s].pc = "saving" => records'[request'[s].token] # "live"
    BY <1>2, <1>3, <2>2, <2>3, <2>4, <1>1 DEF PendingInv
  <2>9. \A s, u \in Requests : s # u /\ request'[s].pc = "saving" /\ request'[u].pc = "saving" =>
            request'[s].token # request'[u].token
    BY <1>2, <2>2, <2>3, <2>4 DEF PendingInv
  <2>10. \A u : HasRecord(u)' <=> HasRecord(u)
    BY <2>4 DEF HasRecord
  <2>11. \A s, u \in Requests : s # u /\ request'[s].pc \in {"asking", "saving"} /\ request'[u].pc \in {"asking", "saving"} =>
            request'[s].next # request'[u].next
    BY <1>2, <2>4, <2>6
  <2> QED
    BY <2>4, <2>7, <2>8, <2>9, <2>10, <2>11 DEF PendingInv
<1>8. FamilyInv'
  BY <1>1, <1>2, <1>3 DEF FamilyInv
<1> QED
  BY <1>2, <1>3, <1>6, <1>7, <1>8

\* then its successor is stored.
LEMMA SavesKeeps ==
  ASSUME TokensAssumption, ExchangeInv, FamilyInv, NEW r \in Requests, Saves(r)
  PROVE  (ExchangeInv /\ FamilyInv)'
<1> DEFINE t == request[r].token
           n == request[r].next
<1> USE DEF TokensAssumption, Tokens, ExchangeInv
<1>6. /\ request[r].pc = "saving" /\ UNCHANGED <<signed, family, expired, held, barred>>
      /\ request' = [request EXCEPT ![r].pc = "verifying"]
      /\ records' = [records EXCEPT ![n] = "live"] /\ stored' = stored \cup {<<t, n>>}
  BY DEF Saves, Goto
<1>1. /\ t \in Tokens /\ n \in Tokens /\ t # n /\ records[t] # "live" /\ ~HasRecord(n) /\ n <= signed /\ t # 0
      /\ HasRecord(t) /\ t \in held /\ Store = "consume" /\ \A m \in Tokens : <<t, m>> \notin stored
      /\ request[r].next = n /\ request[r].token = t
  BY <1>6, HeldSigned DEF PendingInv, StoredInv
<1>2. RequestsTyped' /\ \A s \in Requests : /\ request'[s].pc = IF s = r THEN "verifying" ELSE request[s].pc
                                          /\ request'[s].token = request[s].token /\ request'[s].next = request[s].next
  BY <1>6 DEF RequestsTyped
<1> HIDE DEF t, n
<1>3. /\ TypeOK' /\ \A u \in Tokens : records'[u] = IF u = n THEN "live" ELSE records[u]
  <2>1. stored' \subseteq (0 .. MaxTokens) \X Tokens
    BY <1>1, <1>6, HeldSigned DEF TypeOK
  <2> QED
    BY <1>1, <1>6, <2>1 DEF TypeOK
<1>4. \A u \in Tokens : HasRecord(u)' <=> HasRecord(u) \/ u = n
  <2>1. t \in 0 .. MaxTokens
    BY <1>1, HeldSigned
  <2> QED
    BY <1>6, <2>1 DEF HasRecord
<1>5. \A u, m \in Tokens : <<u, m>> \in stored' <=> <<u, m>> \in stored \/ (u = t /\ m = n)
  BY <1>1, <1>6
<1>7. StoredInv'
  BY <1>1, <1>3, <1>4, <1>5, <1>6 DEF StoredInv
<1>8. PendingInv'
  <2>1. \A s \in Requests : request[s].pc = "saving" => request[s].token \in Tokens /\ request[s].token # n
                                                      /\ (s # r => request[s].token # t)
    BY <1>1, <1>6, HeldSigned DEF PendingInv, StoredInv
  <2>2. \A s \in Requests : request[s].pc = "verifying" => request[s].next \in Tokens
    BY HeldSigned DEF PendingInv
  <2>3. \A s \in Requests \ {r} : request[s].pc \in {"asking", "saving"} => request[s].next # n
    BY <1>1, <1>6 DEF PendingInv
  <2>4. ASSUME NEW s \in Requests, s # r, request[s].pc \in {"asking", "saving"}
        PROVE  /\ ~HasRecord(request[s].next)' /\ request[s].next \in 1 .. signed /\ request[s].token \in held
               /\ \A u \in Requests \ {s} : request[u].pc \in {"asking", "saving"} => request[u].next # request[s].next
    BY <1>1, <1>2, <1>4, <2>3, <2>4, HeldSigned DEF PendingInv
  <2>5. ASSUME NEW s \in Requests, s # r, request[s].pc = "saving"
        PROVE  /\ records'[request[s].token] # "live" /\ \A m \in Tokens : <<request[s].token, m>> \notin stored'
               /\ \A u \in Requests \ {s} : request[u].pc = "saving" => request[u].token # request[s].token
    BY <1>1, <1>3, <1>5, <2>1, <2>5 DEF PendingInv
  <2>6. ASSUME NEW s \in Requests, s # r, request[s].pc = "verifying"
        PROVE  HasRecord(request[s].next)' /\ request[s].next \in 1 .. signed /\ request[s].token \in held
    BY <1>2, <1>4, <1>6, <2>2, <2>6 DEF PendingInv
  <2>7. HasRecord(request[r].next)' /\ request[r].next \in 1 .. signed /\ request[r].token \in held
    BY <1>1, <1>2, <1>4, HeldSigned
  <2> QED
    BY <1>1, <1>2, <1>6, <2>4, <2>5, <2>6, <2>7 DEF PendingInv
<1>9. FamilyInv'
  BY <1>1, <1>2, <1>3, <1>6 DEF FamilyInv
<1> QED
  BY <1>2, <1>3, <1>7, <1>8, <1>9

LEMMA AsksKeeps ==
  ASSUME TokensAssumption, ExchangeInv, FamilyInv, NEW r \in Requests, Asks(r)
  PROVE  (ExchangeInv /\ FamilyInv)'
<1>1. CASE Store = "fixed" /\ Goto(r, "verifying") /\ UNCHANGED <<records, stored>>
  <2>1. UNCHANGED <<signed, family, expired, held, barred>> /\ request[r].pc = "asking"
    BY DEF Asks
  <2>2. /\ RequestsTyped'
        /\ \A s \in Requests : /\ request'[s].pc = IF s = r THEN "verifying" ELSE request[s].pc
                              /\ request'[s].token = request[s].token /\ request'[s].next = request[s].next
    BY <1>1 DEF ExchangeInv, RequestsTyped, Goto
  <2>3. TypeOK' /\ \A u : HasRecord(u)' <=> HasRecord(u)
    BY <1>1, <2>1 DEF ExchangeInv, TypeOK, HasRecord
  <2>4. StoredInv' /\ FamilyInv'
    BY <1>1, <2>1, <2>2, <2>3 DEF ExchangeInv, StoredInv, FamilyInv
  <2>5. PendingInv'
    BY <1>1, <2>1, <2>2, <2>3 DEF ExchangeInv, PendingInv
  <2> QED
    BY <2>2, <2>3, <2>4, <2>5 DEF ExchangeInv
<1>2. CASE \E pc \in {"revoking", "expired", "invalid"} : Goto(r, pc) /\ UNCHANGED <<records, stored>>
  BY <1>2, PassingKeeps DEF Asks
<1> QED
  BY <1>1, <1>2, RotationKeeps, ConsumptionKeeps DEF Asks, Consumed

LEMMA OwnStepsKeep ==
  ASSUME TokensAssumption, ExchangeInv, FamilyInv, NEW r \in Requests,
         Revokes(r) \/ Answers(r) \/ AnswerFails(r) \/ CallFails(r)
  PROVE  (ExchangeInv /\ FamilyInv)'
<1>1. CASE Revokes(r)
  BY <1>1, PassingKeeps DEF Revokes
<1>2. CASE Answers(r)
  BY <1>2, PassingKeeps DEF Answers
<1>3. CASE AnswerFails(r)
  BY <1>3, PassingKeeps DEF AnswerFails
<1>4. CASE CallFails(r)
  BY <1>4, PassingKeeps, RotationKeeps, ConsumptionKeeps DEF CallFails
<1> QED
  BY <1>1, <1>2, <1>3, <1>4

LEMMA TokensStep == TokensAssumption /\ ExchangeInv /\ FamilyInv /\ [Next]_tokenVars => (ExchangeInv /\ FamilyInv)'
BY IssuesKeeps, TimeAndRevocationsKeep, PresentsKeeps, AsksKeeps, SavesKeeps, OwnStepsKeep DEF Next

\* RotatesOnce: however requests race, and whatever call of the store fails or
\* answers too late, a refresh token is exchanged for one successor at most,
\* which was stored before a client was given it (rotateRefreshToken()).
THEOREM ExchangedOnce ==
  ASSUME TokensAssumption
  PROVE  Spec => []RotatesOnce
<1>1. ExchangeInv => RotatesOnce
  <2> SUFFICES ASSUME ExchangeInv PROVE RotatesOnce
    OBVIOUS
  <2>1. ASSUME NEW t \in Tokens
        PROVE  Cardinality({n \in Tokens : <<t, n>> \in stored}) <= 1
    <3> DEFINE S == {n \in Tokens : <<t, n>> \in stored}
    <3> SUFFICES Cardinality(S) <= 1
      OBVIOUS
    <3> HIDE DEF S
    <3>1. CASE S = {}
      BY <3>1, FS_EmptySet
    <3>2. CASE S # {}
      <4>1. PICK n \in S : TRUE
        BY <3>2
      <4>2. S = {n}
        BY <4>1 DEF ExchangeInv, StoredInv, S
      <4>3. Cardinality(S) = 1
        BY <4>2, FS_Singleton
      <4> QED
        BY <4>3
    <3> QED
      BY <3>1, <3>2
  <2>2. \A n \in held : \E t \in 0 .. MaxTokens : <<t, n>> \in stored
    BY HeldSigned DEF ExchangeInv, StoredInv, HasRecord
  <2> QED
    BY <2>1, <2>2 DEF RotatesOnce
<1> QED
  BY <1>1, ExchangeInit, TokensStep, PTL DEF Spec

\* RevokedStayOut: with a store that rotates, or a service that does not, no
\* record of a family is live after a reuse of one of its tokens, or a logout,
\* revoked what the subject had (revokeAllForSubject()).
THEOREM RevokedFamiliesEnd ==
  ASSUME TokensAssumption
  PROVE  Spec => []RevokedStayOut
<1>1. FamilyInv => RevokedStayOut
  BY DEF FamilyInv, RevokedStayOut
<1> QED
  BY <1>1, ExchangeInit, TokensStep, PTL DEF Spec

---------------------------------------------------------------------------
\* ConfigReload.  SnapshotInv: what the service holds was agreed on, or
\* is being notified and can be restored.

CONSTANTS Manager, Versions, InitialVersion, Invalid, Listeners, Watch, Manual, Racing, MaxAsks
VARIABLES file, event, current, service, hash, step, unnotified, saved, seen, queued, asks, failed, open,
  booted, adopted, agreed

Config == INSTANCE ConfigReload WITH Initial <- InitialVersion, left <- unnotified

\* What the service and the reloader hold, and what a failing listener restores.
SnapshotInv ==
  /\ step \in {"idle", "resolve", "notify"}
  /\ service \notin Invalid /\ current \notin Invalid
  /\ step # "notify" => service = agreed /\ (open /\ adopted => service = current)
  /\ step = "notify" =>
       /\ service = current /\ saved[1] \notin Invalid /\ saved[2] \notin Invalid
       /\ open => saved[2] = agreed /\ (adopted => saved[1] = saved[2])
       /\ ~open => service = agreed

\* A reload that only the watcher starts, of a file that waits for it.
WatchInv ==
  /\ {file, hash, current} \subseteq Versions /\ saved[1] \in Versions
  /\ step \in {"idle", "resolve", "notify"} /\ ~queued /\ asks \in Nat
  /\ step \in {"idle", "resolve"} => current = hash
  /\ step = "idle" /\ open /\ ~event => file = hash \/ failed
  /\ step \in {"resolve", "notify"} => seen = file
  /\ step = "notify" => current = file /\ saved[1] = hash

LEMMA SnapshotStep ==
  ASSUME Config!ConfigAssumption, SnapshotInv, [Config!Next]_(Config!vars)
  PROVE  SnapshotInv'
<1> USE DEF SnapshotInv
<1>1. CASE Config!Resolve
  BY <1>1 DEF Config!Resolve, Config!Adopts, Config!ReadsInVain, Config!Fails, Config!history
<1>2. CASE Config!ListenerThrows
  BY <1>2 DEF Config!ListenerThrows, Config!Fails, Config!Restores
<1>3. CASE Config!Boots
  BY <1>3 DEF Config!Boots, Config!Creates, Config!KeepsReloader, Config!history
<1>4. CASE Config!Reload
  BY <1>4 DEF Config!Reload, Config!Creates, Config!KeepsReloader, Config!history
<1>5. CASE Config!Notified
  BY <1>5 DEF Config!Notified
<1>6. CASE Config!Close
  BY <1>6 DEF Config!Close
<1>7. CASE Config!FileEvent
  BY <1>7 DEF Config!FileEvent, Config!history
<1>8. CASE \/ \E v \in Versions : Config!Writes(v)
           \/ Config!ListenerReturns \/ Config!ListenerAsks \/ UNCHANGED Config!vars
  <2>1. UNCHANGED <<current, service, saved, step, open, adopted, agreed>>
    BY <1>8 DEF Config!Writes, Config!ListenerReturns, Config!ListenerAsks, Config!vars, Config!history
  <2> QED
    BY <2>1
<1> QED
  BY <1>1, <1>2, <1>3, <1>4, <1>5, <1>6, <1>7, <1>8 DEF Config!Next

\* ServiceInStep: whatever reloads race and queue, whichever listener throws or closes
\* the manager, the service holds between reloads what it was last given before close()
\* with nobody refusing; once it has adopted a snapshot of the reloader, its current one;
\* never one that validation refused (both managers over createConfigReloader()).
THEOREM SnapshotsInStep ==
  ASSUME Config!ConfigAssumption
  PROVE  Config!Spec => []Config!ServiceInStep
<1>1. Config!Init => SnapshotInv
  BY DEF Config!Init, SnapshotInv, Config!ConfigAssumption
<1>2. SnapshotInv /\ [Config!Next]_(Config!vars) => SnapshotInv'
  BY SnapshotStep
<1>3. SnapshotInv => Config!ServiceInStep
  BY DEF SnapshotInv, Config!ServiceInStep
<1> QED
  BY <1>1, <1>2, <1>3, PTL DEF Config!Spec

Unhurried == Watch /\ ~Manual /\ ~Racing /\ MaxAsks = 0

LEMMA WatchStep ==
  ASSUME Config!ConfigAssumption, Unhurried, WatchInv, [Config!Next]_(Config!vars)
  PROVE  WatchInv'
<1> USE DEF WatchInv, Unhurried
<1>1. CASE Config!Resolve
  BY <1>1 DEF Config!Resolve, Config!Adopts, Config!ReadsInVain, Config!Fails
<1>2. CASE Config!ListenerThrows
  BY <1>2 DEF Config!ListenerThrows, Config!Fails, Config!Restores
<1>3. ASSUME NEW v \in Versions, Config!Writes(v) PROVE WatchInv'
  BY <1>3 DEF Config!Writes
<1>4. CASE Config!FileEvent
  BY <1>4 DEF Config!FileEvent
<1>5. CASE Config!Notified
  <2>1. seen # "manual"
    BY <1>5 DEF Config!Notified, Config!ConfigAssumption
  <2> QED
    BY <1>5, <2>1 DEF Config!Notified, Config!Committed
<1>6. CASE Config!Close
  BY <1>6 DEF Config!Close
<1>7. CASE Config!ListenerReturns \/ UNCHANGED Config!vars
  BY <1>7 DEF Config!ListenerReturns, Config!vars
<1>10. CASE Config!Boots
  BY <1>10 DEF Config!Boots, Config!Creates, Config!KeepsReloader
<1>8. ~Config!Reload
  BY DEF Config!Reload
<1>9. ~Config!ListenerAsks
  BY DEF Config!ListenerAsks
<1> QED
  BY <1>1, <1>2, <1>3, <1>4, <1>5, <1>6, <1>7, <1>8, <1>9, <1>10 DEF Config!Next

\* WatchConverges: when only the watcher reloads, what is in force once nothing is
\* under way is what the file holds, or a reload of it failed (the watcher of
\* createConfigReloader()).
THEOREM WatcherFollowsFile ==
  ASSUME Config!ConfigAssumption
  PROVE  Config!Spec => []Config!WatchConverges
<1>1. CASE Unhurried
  <2>1. Config!Init => WatchInv
    BY DEF Config!Init, WatchInv, Config!ConfigAssumption
  <2>2. WatchInv /\ [Config!Next]_(Config!vars) => WatchInv'
    BY <1>1, WatchStep
  <2>3. WatchInv => Config!WatchConverges
    BY DEF WatchInv, Config!WatchConverges
  <2> QED
    BY <2>1, <2>2, <2>3, PTL DEF Config!Spec
<1>2. CASE ~Unhurried
  <2>1. Config!WatchConverges
    BY <1>2 DEF Unhurried, Config!WatchConverges
  <2> QED
    BY <2>1, PTL
<1> QED
  BY <1>1, <1>2

---------------------------------------------------------------------------
\* CqrsEvents over EventBus.  DrainInv is about the event bus, CqrsInv
\* about the CQRS bus in front of it, which stops first.

CONSTANTS Publications, Inbound, Awaited, Bounded, HandlersOf, HasTransport, Pipelines, CqrsHandlers, Batches,
  EventsOf
VARIABLES bus, boot, discovery, pub, work, left, aborted, stop, drained, gaveUp, stage, handled, batch, cqrs,
  awaitedWork, forsook, early

Bus == INSTANCE CqrsEvents

BusTyped ==
  /\ pub \in [Publications -> {"no", "discovering", "waiting", "returned", "ignored"}]
  /\ DOMAIN work = Publications /\ work = [p \in Publications |-> work[p]]
  /\ \A p \in Publications : work[p] = [w \in Bus!Items(p) |-> work[p][w]]
  /\ left = [p \in Publications |-> left[p]]

\* A publication returned when its work was over; once the shutdown began none is
\* accepted, and those under way are the drain's.
DrainInv ==
  /\ BusTyped
  /\ \A p \in Awaited : pub[p] = "returned" => \A w \in Bus!Items(p) : Bus!ItemOver(p, w)
  /\ stop # "no" =>
       /\ boot \in {"no", "done", "failed"} /\ bus \in {"stopping", "stopped", "failed"}
       /\ Bus!Active \subseteq drained
  /\ stop \in {"closing", "ended"} /\ gaveUp = FALSE => Bus!Active = {}
  /\ bus = "failed" => boot = "failed" \/ stop = "ended"
  /\ bus \in {"stopping", "stopped"} => stop # "no"

BusAssumptions == Bus!EventBusAssumption /\ Bus!CqrsAssumption

LEMMA BusInitial == BusAssumptions /\ Bus!Init => DrainInv
BY DEF BusAssumptions, Bus!Init, Bus!BusInit, DrainInv, BusTyped, Bus!Active, Bus!EventBusAssumption

\* An item that is over stays so.
LEMMA OverStays ==
  ASSUME BusTyped, [Bus!Next]_(Bus!allVars), NEW p \in Publications, pub[p] = "returned",
         NEW w \in Bus!Items(p), Bus!ItemOver(p, w)
  PROVE  Bus!ItemOver(p, w)'
<1> USE DEF BusTyped, Bus!ItemOver
<1>1. CASE UNCHANGED <<work, left>>
  BY <1>1
<1>2. ASSUME NEW q \in Publications, Bus!Dispatch(q) \/ Bus!Arrives(q) PROVE Bus!ItemOver(p, w)'
  BY <1>2 DEF Bus!Dispatch, Bus!Arrives, Bus!Dispatches
<1>3. ASSUME NEW q \in Publications, NEW v \in Bus!Items(q), Bus!WorkEnds(q, v) PROVE Bus!ItemOver(p, w)'
  BY <1>3 DEF Bus!WorkEnds
<1>4. ASSUME NEW q \in Publications, NEW v \in Bus!Items(q), Bus!TimesOut(q, v) PROVE Bus!ItemOver(p, w)'
  BY <1>4 DEF Bus!TimesOut
<1>5. ASSUME NEW q \in Publications, Bus!Aborts(q) PROVE Bus!ItemOver(p, w)'
  BY <1>5 DEF Bus!Aborts
<1> QED
  BY <1>1, <1>2, <1>3, <1>4, <1>5
  DEF Bus!Next, Bus!BusWork, Bus!Bootstrap, Bus!Discovered, Bus!BootstrapDiscovered, Bus!BootstrapSubscribed,
      Bus!DrainEnds, Bus!Closes, Bus!Returns, Bus!Publish, Bus!Shutdown, Bus!PublishCqrs, Bus!ToSagas, Bus!PipelineEnds,
      Bus!HandlerEnds, Bus!SagasEnd, Bus!BatchBegins, Bus!PublishNext, Bus!BatchEnds, Bus!CqrsShutdown, Bus!CqrsDrainEnds,
      Bus!busVars, Bus!allVars

\* The steps that neither publish nor dispatch.
LEMMA BusQuiet ==
  ASSUME BusAssumptions, [Bus!Next]_(Bus!allVars),
         \A p \in Publications : ~Bus!Publish(p) /\ ~Bus!Dispatch(p) /\ ~Bus!Arrives(p) /\ ~Bus!Returns(p)
  PROVE  pub' = pub
BY DEF Bus!Next, Bus!BusWork, Bus!Bootstrap, Bus!Discovered, Bus!BootstrapDiscovered, Bus!BootstrapSubscribed,
      Bus!DrainEnds, Bus!Closes, Bus!WorkEnds, Bus!TimesOut, Bus!Aborts, Bus!Shutdown, Bus!PublishCqrs, Bus!ToSagas,
      Bus!PipelineEnds, Bus!CqrsAssumption, BusAssumptions,
      Bus!HandlerEnds, Bus!SagasEnd, Bus!BatchBegins, Bus!PublishNext, Bus!BatchEnds, Bus!CqrsShutdown, Bus!CqrsDrainEnds,
      Bus!busVars, Bus!allVars

LEMMA BusTypedStep ==
  ASSUME BusTyped, [Bus!Next]_(Bus!allVars)
  PROVE  BusTyped'
<1> USE DEF BusTyped
<1>0. \A p \in Publications : Bus!Items(p)' = Bus!Items(p)
  BY DEF Bus!Items
<1>1. CASE UNCHANGED <<pub, work, left>>
  BY <1>1, <1>0
<1>2. ASSUME NEW q \in Publications, Bus!Dispatch(q) \/ Bus!Arrives(q) PROVE BusTyped'
  BY <1>0, <1>2 DEF Bus!Dispatch, Bus!Arrives, Bus!Dispatches
<1>3. ASSUME NEW q \in Publications, NEW v \in Bus!Items(q), Bus!WorkEnds(q, v) PROVE BusTyped'
  BY <1>0, <1>3 DEF Bus!WorkEnds
<1>4. ASSUME NEW q \in Publications, NEW v \in Bus!Items(q), Bus!TimesOut(q, v) PROVE BusTyped'
  BY <1>0, <1>4 DEF Bus!TimesOut
<1>5. ASSUME NEW q \in Publications, Bus!Aborts(q) PROVE BusTyped'
  BY <1>0, <1>5 DEF Bus!Aborts
<1>6. ASSUME NEW q, Bus!Publish(q) PROVE BusTyped'
  BY <1>0, <1>6 DEF Bus!Publish
<1>7. ASSUME NEW q \in Publications, Bus!Returns(q) PROVE BusTyped'
  BY <1>0, <1>7 DEF Bus!Returns
<1> QED
  BY <1>1, <1>2, <1>3, <1>4, <1>5, <1>6, <1>7
  DEF Bus!Next, Bus!BusWork, Bus!Bootstrap, Bus!Discovered, Bus!BootstrapDiscovered, Bus!BootstrapSubscribed,
      Bus!DrainEnds, Bus!Closes, Bus!Shutdown, Bus!PublishCqrs, Bus!ToSagas, Bus!PipelineEnds,
      Bus!HandlerEnds, Bus!SagasEnd, Bus!BatchBegins, Bus!PublishNext, Bus!BatchEnds, Bus!CqrsShutdown, Bus!CqrsDrainEnds,
      Bus!busVars, Bus!allVars

\* Publications go on only before the shutdown, and return when their work is over.
LEMMA PublicationStep ==
  ASSUME BusAssumptions, DrainInv, [Bus!Next]_(Bus!allVars), NEW p \in Publications
  PROVE  /\ pub[p] # "returned" /\ pub'[p] = "returned" /\ p \in Awaited =>
              \A w \in Bus!Items(p) : Bus!ItemOver(p, w)'
         /\ stop # "no" /\ p \in Bus!Active' => p \in Bus!Active
         /\ pub[p] \in {"returned", "ignored"} => pub'[p] = pub[p]
<1> USE DEF DrainInv, BusTyped, Bus!Active
<1>1. CASE pub' = pub
  BY <1>1
<1>2. ASSUME NEW q \in Publications, Bus!Publish(q)
      PROVE  /\ pub'[p] # pub[p] => pub[p] = "no" /\ pub'[p] \in {"discovering", "ignored"}
             /\ stop # "no" => pub'[p] \in {pub[p], "ignored"}
  BY <1>2 DEF Bus!Publish, Bus!CanPublish
<1>3. ASSUME NEW q \in Publications, Bus!Dispatch(q)
      PROVE  pub'[p] # pub[p] =>
               /\ pub[p] = "discovering" /\ pub'[p] \in {"waiting", "returned"}
               /\ pub'[p] = "returned" => p \notin Awaited
  BY <1>3 DEF Bus!Dispatch, Bus!Dispatches
<1>4. ASSUME NEW q \in Publications, Bus!Arrives(q)
      PROVE  /\ pub'[p] # pub[p] => pub[p] = "no" /\ (pub'[p] = "returned" => p \notin Awaited)
             /\ stop # "no" => pub'[p] \in {pub[p], "ignored"}
  BY <1>4 DEF Bus!Arrives, Bus!Dispatches
<1>5. ASSUME NEW q \in Publications, Bus!Returns(q)
      PROVE  pub'[p] # pub[p] =>
               /\ pub[p] = "waiting" /\ pub'[p] = "returned"
               /\ \A w \in Bus!Items(p) : Bus!ItemOver(p, w)'
  BY <1>5 DEF Bus!Returns, Bus!WaitOver, Bus!ItemOver, Bus!Items
<1> QED
  BY <1>1, <1>2, <1>3, <1>4, <1>5, BusQuiet

LEMMA DrainStep ==
  ASSUME BusAssumptions, DrainInv, [Bus!Next]_(Bus!allVars)
  PROVE  DrainInv'
<1> USE DEF DrainInv
<1>1. BusTyped'
  BY BusTypedStep
<1>2. \A p \in Awaited : pub'[p] = "returned" => \A w \in Bus!Items(p)' : Bus!ItemOver(p, w)'
  <2> SUFFICES ASSUME NEW p \in Awaited, pub'[p] = "returned", NEW w \in Bus!Items(p)
               PROVE  Bus!ItemOver(p, w)'
    BY DEF Bus!Items
  <2>1. p \in Publications
    BY DEF BusAssumptions, Bus!EventBusAssumption
  <2>2. CASE pub[p] = "returned"
    BY <2>1, <2>2, OverStays
  <2>3. CASE pub[p] # "returned"
    BY <2>1, <2>3, PublicationStep
  <2> QED
    BY <2>2, <2>3
<1>3. stop # "no" => Bus!Active' \subseteq Bus!Active
  BY PublicationStep DEF Bus!Active
<1>4. CASE Bus!Shutdown
  <2>1. pub' = pub
    BY <1>4 DEF Bus!Shutdown
  <2> QED
    BY <1>1, <1>2, <1>4, <2>1 DEF Bus!Shutdown, Bus!Active
<1>5. ASSUME NEW b \in BOOLEAN, Bus!DrainEnds(b) PROVE DrainInv'
  <2>1. pub' = pub /\ Bus!Active' = Bus!Active
    BY <1>5 DEF Bus!DrainEnds, Bus!Active
  <2> QED
    BY <1>1, <1>2, <1>5, <2>1 DEF Bus!DrainEnds
<1>6. ASSUME NEW b \in BOOLEAN, Bus!Closes(b) PROVE DrainInv'
  <2>1. pub' = pub /\ Bus!Active' = Bus!Active
    BY <1>6 DEF Bus!Closes, Bus!Active
  <2> QED
    BY <1>1, <1>2, <1>6, <2>1 DEF Bus!Closes
<1>7. CASE \/ Bus!Bootstrap \/ Bus!BootstrapDiscovered \/ \E b \in BOOLEAN : Bus!BootstrapSubscribed(b)
  <2>1. stop' = stop /\ stop = "no"
    BY <1>7 DEF Bus!Bootstrap, Bus!BootstrapDiscovered, Bus!BootstrapSubscribed
  <2> QED
    BY <1>1, <1>2, <1>7, <2>1 DEF Bus!Bootstrap, Bus!BootstrapDiscovered, Bus!BootstrapSubscribed
<1>8. CASE UNCHANGED <<stop, boot, bus, drained, gaveUp>>
  BY SMTT(30), <1>1, <1>2, <1>3, <1>8
<1>9. Bus!Next => \/ Bus!Shutdown \/ Bus!Bootstrap \/ Bus!BootstrapDiscovered
                  \/ \E b \in BOOLEAN : Bus!BootstrapSubscribed(b) \/ Bus!DrainEnds(b) \/ Bus!Closes(b)
                  \/ UNCHANGED <<stop, boot, bus, drained, gaveUp>>
  BY DEF Bus!Next, Bus!BusWork, Bus!Discovered, Bus!Dispatch, Bus!Arrives, Bus!Aborts, Bus!Returns, Bus!WorkEnds,
      Bus!TimesOut, Bus!Publish, Bus!PublishCqrs, Bus!ToSagas, Bus!PipelineEnds, Bus!busVars,
      Bus!HandlerEnds, Bus!SagasEnd, Bus!BatchBegins, Bus!PublishNext, Bus!BatchEnds, Bus!CqrsShutdown, Bus!CqrsDrainEnds
<1> QED
  BY <1>4, <1>5, <1>6, <1>7, <1>8, <1>9 DEF Bus!allVars, Bus!busVars

\* DrainedBeforeClose: with any publications, handlers and timeouts, the event bus
\* closes its transport when the work that its drain awaits is over, or after the
\* drain gave up (EventBusLifecycleService.onApplicationShutdown()).
THEOREM BusDrainsFirst ==
  ASSUME BusAssumptions
  PROVE  Bus!Spec => []Bus!DrainedBeforeClose
<1>1. Bus!Init => DrainInv
  BY BusInitial
<1>2. DrainInv /\ [Bus!Next]_(Bus!allVars) => DrainInv'
  BY DrainStep
<1>3. DrainInv => Bus!DrainedBeforeClose
  BY DEF DrainInv, Bus!DrainedBeforeClose, Bus!Accepted, Bus!Active, BusAssumptions, Bus!EventBusAssumption
<1> QED
  BY <1>1, <1>2, <1>3, PTL DEF Bus!Spec

PipeTyped ==
  /\ stage \in [Pipelines -> {"no", "handling", "sagas", "publishing", "done", "failed"}]
  /\ batch \in [Batches -> [state : {"no", "running", "done", "failed"}, sent : Nat]]
  /\ early \subseteq Pipelines \cup Batches

\* A batch has one event under way, the last one it published; none when it is over.
BatchInv ==
  \A b \in Batches : \A k \in DOMAIN EventsOf[b] :
    stage[EventsOf[b][k]] # "no" =>
      /\ k <= batch[b].sent /\ batch[b].state # "no"
      /\ Bus!Running(EventsOf[b][k]) => Bus!BatchRuns(b) /\ k = batch[b].sent

Started(x) == IF x \in Pipelines THEN stage[x] # "no" ELSE batch[x].state # "no"

\* What began in time is over when the CQRS bus has stopped, if its drain did not
\* give up, and until then nothing is ignored by a bus that came up.
EarlyInv ==
  /\ \A x \in early : Started(x)
  /\ cqrs # "ready" => early \cap Bus!ActivePipelines \subseteq awaitedWork
  /\ cqrs = "stopped" /\ forsook = FALSE => early \cap Bus!ActivePipelines = {}
  /\ cqrs # "stopped" => forsook = FALSE
  /\ forsook \in BOOLEAN
  /\ \A c \in Pipelines : pub[c] = "ignored" => boot = "failed" \/ cqrs = "stopped"
  /\ stop # "no" => cqrs = "stopped"
  /\ Bus!EarlyEventsReachBus

CqrsInv == PipeTyped /\ BatchInv /\ EarlyInv

LEMMA CqrsInitial == BusAssumptions /\ Bus!Init => CqrsInv
<1> SUFFICES ASSUME BusAssumptions, Bus!Init PROVE CqrsInv
  OBVIOUS
<1>1. PipeTyped /\ BatchInv
  BY DEF Bus!Init, PipeTyped, BatchInv, Bus!Running, BusAssumptions, Bus!CqrsAssumption
<1>2. \A c \in Pipelines : pub[c] = "no"
  BY DEF Bus!Init, Bus!BusInit, BusAssumptions, Bus!CqrsAssumption
<1>3. early = {} /\ forsook = FALSE /\ stop = "no" /\ cqrs = "ready"
  BY DEF Bus!Init, Bus!BusInit
<1> QED
  BY <1>1, <1>2, <1>3 DEF CqrsInv, EarlyInv, Bus!EarlyEventsReachBus

LEMMA EventOk ==
  ASSUME BusAssumptions, NEW b \in Batches, NEW k \in DOMAIN EventsOf[b]
  PROVE  /\ EventsOf[b][k] \in Pipelines /\ EventsOf[b][k] \in Publications
         /\ k \in Nat \ {0} /\ k <= Len(EventsOf[b]) /\ Len(EventsOf[b]) \in Nat
BY DEF BusAssumptions, Bus!CqrsAssumption

LEMMA PipelineIs ==
  ASSUME BusAssumptions, NEW c \in Pipelines
  PROVE  c \in Publications /\ c \notin Batches /\ c \notin Inbound
BY DEF BusAssumptions, Bus!CqrsAssumption

PipeSteps ==
  \/ \E c \in Pipelines :
       \/ Bus!PublishCqrs(c) \/ Bus!ToSagas(c) \/ Bus!PipelineEnds(c)
       \/ \E ok \in BOOLEAN : Bus!HandlerEnds(c, ok) \/ Bus!SagasEnd(c, ok)
  \/ \E b \in Batches : Bus!BatchBegins(b) \/ Bus!PublishNext(b) \/ Bus!BatchEnds(b)

\* Steps of the event bus alone and of the shutdowns.
LEMMA PipesQuiet ==
  ASSUME [Bus!Next]_(Bus!allVars)
  PROVE  PipeSteps \/ UNCHANGED <<stage, handled, batch, early>>
BY DEF Bus!Next, PipeSteps, Bus!cqrsVars, Bus!CqrsShutdown, Bus!CqrsDrainEnds, Bus!allVars

LEMMA PipeTypedStep ==
  ASSUME BusAssumptions, PipeTyped, [Bus!Next]_(Bus!allVars)
  PROVE  PipeTyped'
<1> USE DEF PipeTyped
<1>1. ASSUME NEW c \in Pipelines, Bus!PublishCqrs(c) PROVE PipeTyped'
  BY <1>1 DEF Bus!PublishCqrs, Bus!Begins
<1>2. ASSUME NEW c \in Pipelines, Bus!ToSagas(c) \/ Bus!PipelineEnds(c) PROVE PipeTyped'
  BY <1>2 DEF Bus!ToSagas, Bus!PipelineEnds
<1>3. ASSUME NEW c \in Pipelines, NEW ok \in BOOLEAN, Bus!HandlerEnds(c, ok) \/ Bus!SagasEnd(c, ok)
      PROVE  PipeTyped'
  BY <1>3 DEF Bus!HandlerEnds, Bus!SagasEnd
<1>4. ASSUME NEW b \in Batches, Bus!BatchBegins(b) PROVE PipeTyped'
  BY <1>4 DEF Bus!BatchBegins
<1>5. ASSUME NEW b \in Batches, Bus!PublishNext(b) PROVE PipeTyped'
  <2>1. batch[b].sent \in Nat /\ batch[b].sent + 1 \in DOMAIN EventsOf[b]
    BY <1>5 DEF Bus!PublishNext, Bus!MayPublishNext, BusAssumptions, Bus!CqrsAssumption
  <2>2. EventsOf[b][batch[b].sent + 1] \in Pipelines
    BY <2>1, EventOk
  <2>3. stage' = [stage EXCEPT ![EventsOf[b][batch[b].sent + 1]] = "handling"] \/ stage' = stage
    BY <1>5 DEF Bus!PublishNext, Bus!Begins
  <2>4. stage' \in [Pipelines -> {"no", "handling", "sagas", "publishing", "done", "failed"}]
    BY <2>2, <2>3
  <2>5. batch' \in [Batches -> [state : {"no", "running", "done", "failed"}, sent : Nat]]
    BY <1>5, <2>1 DEF Bus!PublishNext
  <2>6. early' \subseteq Pipelines \cup Batches
    BY <1>5, <2>2 DEF Bus!PublishNext, Bus!Begins
  <2> QED
    BY <2>4, <2>5, <2>6
<1>6. ASSUME NEW b \in Batches, Bus!BatchEnds(b) PROVE PipeTyped'
  <2>1. UNCHANGED <<stage, early>> /\ \E x \in {"failed", "done"} : batch' = [batch EXCEPT ![b].state = x]
    BY <1>6 DEF Bus!BatchEnds
  <2>2. batch' \in [Batches -> [state : {"no", "running", "done", "failed"}, sent : Nat]]
    BY <2>1
  <2> QED
    BY <2>1, <2>2
<1> QED
  BY <1>1, <1>2, <1>3, <1>4, <1>5, <1>6, PipesQuiet DEF PipeSteps

LEMMA BatchStep ==
  ASSUME BusAssumptions, PipeTyped, BatchInv, [Bus!Next]_(Bus!allVars)
  PROVE  BatchInv'
<1> SUFFICES ASSUME NEW b \in Batches, NEW k \in DOMAIN EventsOf[b], stage'[EventsOf[b][k]] # "no"
             PROVE  /\ k <= batch'[b].sent /\ batch'[b].state # "no"
                    /\ Bus!Running(EventsOf[b][k])' => Bus!BatchRuns(b)' /\ k = batch'[b].sent
  BY DEF BatchInv
<1> DEFINE e == EventsOf[b][k]
<1> USE DEF PipeTyped, BatchInv, Bus!Running, Bus!BatchRuns
<1>0. e \in Pipelines /\ k \in Nat \ {0} /\ k <= Len(EventsOf[b]) /\ Len(EventsOf[b]) \in Nat
  BY EventOk
<1>1. ASSUME NEW c \in Pipelines, Bus!PublishCqrs(c)
      PROVE  batch' = batch /\ stage'[e] = stage[e]
  BY <1>0, <1>1 DEF Bus!PublishCqrs, Bus!Begins, Bus!InBatch
<1>2. ASSUME NEW c \in Pipelines, NEW ok \in BOOLEAN,
             Bus!ToSagas(c) \/ Bus!PipelineEnds(c) \/ Bus!HandlerEnds(c, ok) \/ Bus!SagasEnd(c, ok)
      PROVE  batch' = batch /\ stage[e] # "no" /\ (Bus!Running(e)' => Bus!Running(e))
  BY <1>0, <1>2 DEF Bus!ToSagas, Bus!PipelineEnds, Bus!HandlerEnds, Bus!SagasEnd
<1>3. CASE batch' = batch /\ stage[e] # "no" /\ (Bus!Running(e)' => Bus!Running(e))
  BY <1>3
<1>4. ASSUME NEW d \in Batches, Bus!BatchBegins(d)
      PROVE  /\ k <= batch'[b].sent /\ batch'[b].state # "no"
             /\ Bus!Running(e)' => Bus!BatchRuns(b)' /\ k = batch'[b].sent
  <2>1. stage' = stage
    BY <1>4 DEF Bus!BatchBegins
  <2>2. batch'[b].sent = batch[b].sent /\ (d = b \/ batch'[b] = batch[b])
        /\ (d = b => batch'[b].state = "running")
    BY <1>4 DEF Bus!BatchBegins
  <2> QED
    BY <2>1, <2>2
<1>5. ASSUME NEW d \in Batches, Bus!PublishNext(d)
      PROVE  /\ k <= batch'[b].sent /\ batch'[b].state # "no"
             /\ Bus!Running(e)' => Bus!BatchRuns(b)' /\ k = batch'[b].sent
  <2> DEFINE n == batch[d].sent + 1
  <2>1. n \in DOMAIN EventsOf[d] /\ batch[d].sent \in Nat
    BY <1>5 DEF Bus!PublishNext, Bus!MayPublishNext, BusAssumptions, Bus!CqrsAssumption
  <2>2. /\ batch' = [batch EXCEPT ![d].sent = @ + 1] /\ batch[d].state = "running"
        /\ stage' = [stage EXCEPT ![EventsOf[d][n]] = "handling"]
        /\ batch[d].sent > 0 => stage[EventsOf[d][batch[d].sent]] = "done"
    BY <1>5 DEF Bus!PublishNext, Bus!MayPublishNext, Bus!Begins
  <2>3. CASE b = d /\ k = n
    BY <2>1, <2>2, <2>3
  <2>4. CASE b = d /\ k # n
    <3>1. EventsOf[d][n] # e
      BY <2>1, <2>4 DEF BusAssumptions, Bus!CqrsAssumption
    <3>2. stage'[e] = stage[e] /\ k <= batch[d].sent
      BY <1>0, <2>2, <2>4, <3>1
    <3>3. ~Bus!Running(e)'
      BY <1>0, <2>1, <2>2, <2>4, <3>2
    <3> QED
      BY <1>0, <2>1, <2>2, <2>4, <3>2, <3>3
  <2>5. CASE b # d
    <3>1. EventsOf[d][n] # e
      BY <2>1, <2>5 DEF BusAssumptions, Bus!CqrsAssumption
    <3> QED
      BY <1>0, <2>2, <2>5, <3>1
  <2> QED
    BY <2>3, <2>4, <2>5
<1>6. ASSUME NEW d \in Batches, Bus!BatchEnds(d)
      PROVE  /\ k <= batch'[b].sent /\ batch'[b].state # "no"
             /\ Bus!Running(e)' => Bus!BatchRuns(b)' /\ k = batch'[b].sent
  <2>1. stage' = stage /\ batch'[b].sent = batch[b].sent /\ (b # d => batch'[b] = batch[b])
        /\ (b = d => batch'[b].state \in {"done", "failed"})
    BY <1>6 DEF Bus!BatchEnds
  <2>2. b = d => ~Bus!Running(e)
    <3> SUFFICES ASSUME b = d, Bus!Running(e) PROVE FALSE
      OBVIOUS
    <3>1. k = batch[b].sent
      OBVIOUS
    <3>2. stage[e] \in {"failed", "done"}
      BY <1>0, <1>6, <3>1 DEF Bus!BatchEnds
    <3> QED
      BY <3>2
  <2> QED
    BY <2>1, <2>2
<1>7. CASE UNCHANGED <<stage, batch>>
  BY <1>7
<1> QED
  BY <1>1, <1>2, <1>3, <1>4, <1>5, <1>6, <1>7, PipesQuiet DEF PipeSteps

\* Only publications and batches that begin while the bus is ready are early, what is
\* over stays over, and what has begun begins no more.
LEMMA EarlyMoves ==
  ASSUME BusAssumptions, PipeTyped, BatchInv, [Bus!Next]_(Bus!allVars)
  PROVE  /\ \A x \in early' : x \in early \/ (cqrs = "ready" /\ cqrs' = "ready" /\ ~Started(x) /\ Started(x)')
         /\ early \subseteq early'
         /\ \A x \in Pipelines \cup Batches : Started(x) => Started(x)'
         /\ \A x \in Pipelines \cup Batches : Started(x) /\ x \in Bus!ActivePipelines' => x \in Bus!ActivePipelines
<1> USE DEF PipeTyped, Started, Bus!ActivePipelines, Bus!Running, Bus!BatchRuns
<1>0. Pipelines \cap Batches = {}
  BY DEF BusAssumptions, Bus!CqrsAssumption
<1>a. ASSUME NEW c \in Pipelines, stage[c] = "no", Bus!Begins(c), cqrs' = cqrs
      PROVE  /\ \A x \in early' : x \in early \/ (cqrs = "ready" /\ cqrs' = "ready" /\ x = c)
             /\ early \subseteq early' /\ stage'[c] = "handling"
             /\ \A x \in Pipelines : x # c => stage'[x] = stage[x]
  BY <1>a DEF Bus!Begins
<1>1. ASSUME NEW c \in Pipelines, Bus!PublishCqrs(c)
      PROVE  stage[c] = "no" /\ Bus!Begins(c) /\ UNCHANGED <<batch, cqrs>>
  BY <1>1 DEF Bus!PublishCqrs
<1>2. ASSUME NEW b \in Batches, Bus!PublishNext(b)
      PROVE  \E c \in Pipelines : 
               /\ stage[c] = "no" /\ Bus!Begins(c) /\ UNCHANGED cqrs
               /\ \A d \in Batches : batch'[d].state = batch[d].state
  <2> DEFINE n == batch[b].sent + 1
  <2>1. n \in DOMAIN EventsOf[b] /\ batch[b].sent \in Nat
    BY <1>2 DEF Bus!PublishNext, Bus!MayPublishNext, BusAssumptions, Bus!CqrsAssumption
  <2>2. EventsOf[b][n] \in Pipelines
    BY <2>1, EventOk
  <2>3. stage[EventsOf[b][n]] = "no"
    <3>1. ~(n <= batch[b].sent)
      BY <2>1
    <3> QED
      BY <2>1, <3>1 DEF BatchInv
  <2> QED
    BY <1>2, <2>2, <2>3 DEF Bus!PublishNext
<1>3. CASE \/ \E c \in Pipelines : Bus!PublishCqrs(c)
           \/ \E b \in Batches : Bus!PublishNext(b)
  <2>1. PICK c \in Pipelines : 
               /\ stage[c] = "no" /\ Bus!Begins(c) /\ UNCHANGED cqrs
               /\ \A d \in Batches : batch'[d].state = batch[d].state
    BY <1>1, <1>2, <1>3
  <2> QED
    BY <1>a, <1>0, <2>1
<1>4. ASSUME NEW c \in Pipelines, NEW ok \in BOOLEAN,
             Bus!ToSagas(c) \/ Bus!PipelineEnds(c) \/ Bus!HandlerEnds(c, ok) \/ Bus!SagasEnd(c, ok)
      PROVE  /\ UNCHANGED <<batch, early>>
             /\ \A x \in Pipelines : stage'[x] # stage[x] => stage[x] \in {"handling", "sagas", "publishing"} /\ stage'[x] # "no"
  BY <1>4 DEF Bus!ToSagas, Bus!PipelineEnds, Bus!HandlerEnds, Bus!SagasEnd
<1>5. CASE \E c \in Pipelines, ok \in BOOLEAN :
             Bus!ToSagas(c) \/ Bus!PipelineEnds(c) \/ Bus!HandlerEnds(c, ok) \/ Bus!SagasEnd(c, ok)
  BY <1>0, <1>4, <1>5
<1>6. ASSUME NEW b \in Batches, Bus!BatchBegins(b)
      PROVE  /\ UNCHANGED <<stage, cqrs>> /\ batch[b].state = "no" /\ batch'[b].state = "running"
             /\ \A x \in early' : x \in early \/ (cqrs = "ready" /\ x = b)
             /\ early \subseteq early' /\ \A d \in Batches : d # b => batch'[d] = batch[d]
  BY <1>6 DEF Bus!BatchBegins
<1>7. CASE \E b \in Batches : Bus!BatchBegins(b)
  BY <1>0, <1>6, <1>7
<1>8. ASSUME NEW b \in Batches, Bus!BatchEnds(b)
      PROVE  /\ UNCHANGED <<stage, early>> /\ batch[b].state = "running" /\ batch'[b].state \in {"done", "failed"}
             /\ \A d \in Batches : d # b => batch'[d] = batch[d]
  BY <1>8 DEF Bus!BatchEnds
<1>9. CASE \E b \in Batches : Bus!BatchEnds(b)
  BY <1>0, <1>8, <1>9
<1>10. CASE UNCHANGED <<stage, handled, batch, early>>
  BY <1>10
<1> QED
  BY <1>3, <1>5, <1>7, <1>9, <1>10, PipesQuiet DEF PipeSteps

\* An event of CQRS is ignored when its sagas end and the bus takes no more.
LEMMA Ignored ==
  ASSUME BusAssumptions, DrainInv, [Bus!Next]_(Bus!allVars), NEW c \in Pipelines,
         pub'[c] = "ignored", pub[c] # "ignored"
  PROVE  /\ Bus!Running(c) /\ (boot = "failed" \/ stop # "no")
         /\ UNCHANGED <<boot, stop, cqrs, forsook, early>>
<1> USE DEF DrainInv, BusTyped, Bus!busVars
<1>0. c \in Publications /\ c \notin Inbound
  BY PipelineIs
<1>1. ASSUME NEW ok \in BOOLEAN, Bus!SagasEnd(c, ok) PROVE Bus!Publish(c) /\ stage[c] = "sagas" /\ UNCHANGED <<cqrs, forsook, early>>
  BY <1>1 DEF Bus!SagasEnd
<1>2. \E ok \in BOOLEAN : Bus!SagasEnd(c, ok)
  <2>1. ASSUME NEW p \in Publications, Bus!Dispatch(p) \/ Bus!Returns(p) PROVE pub'[c] # "ignored"
    BY <1>0, <2>1 DEF Bus!Dispatch, Bus!Dispatches, Bus!Returns
  <2>2. ASSUME NEW p \in Publications, Bus!Arrives(p) PROVE pub'[c] = pub[c]
    BY <1>0, <2>2 DEF Bus!Arrives, Bus!Dispatches
  <2>3. ASSUME NEW p \in Publications, p # c, Bus!Publish(p) PROVE pub'[c] = pub[c]
    BY <1>0, <2>3 DEF Bus!Publish
  <2>4. ASSUME NEW d \in Pipelines, NEW ok \in BOOLEAN, d # c, Bus!SagasEnd(d, ok) PROVE pub'[c] = pub[c]
    <3>1. Bus!Publish(d) \/ UNCHANGED Bus!busVars
      BY <2>4 DEF Bus!SagasEnd
    <3> QED
      BY <2>3, <2>4, <3>1, PipelineIs
  <2>5. Bus!BusWork => \/ pub' = pub
                      \/ \E p \in Publications : Bus!Dispatch(p) \/ Bus!Returns(p) \/ Bus!Arrives(p)
    BY DEF Bus!BusWork, Bus!Bootstrap, Bus!Discovered, Bus!BootstrapDiscovered,
      Bus!BootstrapSubscribed, Bus!DrainEnds, Bus!Closes, Bus!Aborts, Bus!WorkEnds, Bus!TimesOut
  <2>6. \/ Bus!BusWork
        \/ \E p \in Publications \ Pipelines : Bus!Publish(p)
        \/ \E d \in Pipelines, ok \in BOOLEAN : Bus!SagasEnd(d, ok)
        \/ pub' = pub
    BY DEF Bus!Next, Bus!allVars, Bus!Shutdown, Bus!PublishCqrs, Bus!ToSagas, Bus!PipelineEnds,
      Bus!HandlerEnds, Bus!BatchBegins, Bus!PublishNext, Bus!BatchEnds, Bus!CqrsShutdown, Bus!CqrsDrainEnds
  <2> QED
    BY <2>1, <2>2, <2>3, <2>4, <2>5, <2>6
<1> QED
  BY <1>1, <1>2 DEF Bus!Publish, Bus!CanPublish, Bus!Running

LEMMA EarlyStep ==
  ASSUME BusAssumptions, DrainInv, CqrsInv, [Bus!Next]_(Bus!allVars)
  PROVE  EarlyInv'
<1> USE DEF CqrsInv, EarlyInv
<1>1. PipeTyped' /\ BatchInv'
  BY PipeTypedStep, BatchStep
<1>2. early \subseteq Pipelines \cup Batches /\ early' \subseteq Pipelines \cup Batches
  BY <1>1 DEF PipeTyped
<1>3. \A x \in early' : Started(x)'
  BY <1>2, EarlyMoves
<1>4. \A x \in early' : cqrs' # "ready" => x \in early
  BY EarlyMoves
<1>5. early \cap Bus!ActivePipelines' \subseteq Bus!ActivePipelines
  BY <1>2, EarlyMoves
<1>6. /\ cqrs = "stopped" => cqrs' = "stopped" /\ forsook' = forsook
      /\ boot = "failed" => boot' = "failed"
      /\ stop' # "no" => stop # "no" \/ cqrs' = "stopped"
      /\ forsook' = FALSE => forsook = FALSE
      /\ forsook' \in BOOLEAN /\ (cqrs' # "stopped" => forsook' = FALSE)
  <2>1. CASE UNCHANGED <<cqrs, forsook>>
    BY <2>1 DEF Bus!Next, Bus!allVars, Bus!busVars, Bus!cqrsVars, Bus!BusWork, Bus!Shutdown, Bus!Bootstrap, Bus!Discovered, Bus!BootstrapDiscovered,
      Bus!BootstrapSubscribed, Bus!DrainEnds, Bus!Closes, Bus!Aborts, Bus!WorkEnds, Bus!TimesOut, Bus!Dispatch, Bus!Arrives,
      Bus!Returns, Bus!Publish, Bus!PublishCqrs, Bus!ToSagas, Bus!PipelineEnds,
      Bus!HandlerEnds, Bus!SagasEnd, Bus!BatchBegins, Bus!PublishNext, Bus!BatchEnds, Bus!CqrsShutdown, Bus!CqrsDrainEnds
  <2>2. CASE Bus!CqrsShutdown \/ \E b \in BOOLEAN : Bus!CqrsDrainEnds(b)
    BY <2>2 DEF Bus!CqrsShutdown, Bus!CqrsDrainEnds, Bus!busVars
  <2> QED
    BY <2>1, <2>2 DEF Bus!Next, Bus!allVars, Bus!cqrsVars, Bus!PublishCqrs, Bus!ToSagas, Bus!PipelineEnds,
      Bus!HandlerEnds, Bus!SagasEnd, Bus!BatchBegins, Bus!PublishNext, Bus!BatchEnds
<1>7. cqrs' # "ready" => early' \cap Bus!ActivePipelines' \subseteq awaitedWork'
  <2>1. CASE Bus!CqrsShutdown
    BY <1>4, <1>5, <2>1 DEF Bus!CqrsShutdown, Bus!ToDrain
  <2>2. CASE ~Bus!CqrsShutdown
    <3>1. awaitedWork' = awaitedWork /\ (cqrs' # "ready" => cqrs # "ready")
      BY <2>2 DEF Bus!Next, Bus!allVars, Bus!cqrsVars, Bus!PublishCqrs, Bus!ToSagas, Bus!PipelineEnds,
        Bus!HandlerEnds, Bus!SagasEnd, Bus!BatchBegins, Bus!PublishNext, Bus!BatchEnds, Bus!CqrsDrainEnds
    <3> QED
      BY <1>4, <1>5, <3>1
  <2> QED
    BY <2>1, <2>2
<1>8. cqrs' = "stopped" /\ forsook' = FALSE => early' \cap Bus!ActivePipelines' = {}
  <2>1. CASE \E b \in BOOLEAN : Bus!CqrsDrainEnds(b)
    BY <1>4, <1>5, <2>1 DEF Bus!CqrsDrainEnds
  <2>2. CASE ~\E b \in BOOLEAN : Bus!CqrsDrainEnds(b)
    <3>1. cqrs' = "stopped" /\ forsook' = FALSE => cqrs = "stopped" /\ forsook = FALSE
      BY <2>2 DEF Bus!Next, Bus!allVars, Bus!cqrsVars, Bus!PublishCqrs, Bus!ToSagas, Bus!PipelineEnds,
        Bus!HandlerEnds, Bus!SagasEnd, Bus!BatchBegins, Bus!PublishNext, Bus!BatchEnds, Bus!CqrsShutdown
    <3> QED
      BY <1>4, <1>5, <3>1
  <2> QED
    BY <2>1, <2>2
<1>9. ASSUME NEW c \in Pipelines, pub'[c] = "ignored"
      PROVE  /\ boot' = "failed" \/ cqrs' = "stopped"
             /\ boot' # "failed" /\ forsook' = FALSE =>
                  /\ c \notin early'
                  /\ \A b \in early' \cap Batches : \A k \in DOMAIN EventsOf[b] : EventsOf[b][k] # c
  <2>1. CASE pub[c] = "ignored"
    BY <1>4, <1>6, <1>9, <2>1 DEF Bus!EarlyEventsReachBus
  <2>2. CASE pub[c] # "ignored"
    <3>1. /\ Bus!Running(c) /\ (boot = "failed" \/ stop # "no")
          /\ UNCHANGED <<boot, stop, cqrs, forsook, early>>
      BY <1>9, <2>2, Ignored
    <3>2. ASSUME boot # "failed", forsook = FALSE PROVE early \cap Bus!ActivePipelines = {}
      BY <3>1, <3>2
    <3>3. c \in Bus!ActivePipelines
      BY <3>1 DEF Bus!ActivePipelines
    <3>4. ASSUME NEW b \in Batches, NEW k \in DOMAIN EventsOf[b], EventsOf[b][k] = c
          PROVE  b \in Bus!ActivePipelines
      <4>1. Bus!BatchRuns(b)
        BY <3>1, <3>4 DEF BatchInv, Bus!Running
      <4> QED
        BY <4>1 DEF Bus!ActivePipelines
    <3> QED
      BY <3>1, <3>2, <3>3, <3>4
  <2> QED
    BY <2>1, <2>2
<1>10. Bus!EarlyEventsReachBus'
  <2>1. ~forsook' <=> forsook' = FALSE
    BY <1>6
  <2>2. ASSUME NEW c \in Pipelines, pub'[c] = "ignored", boot' # "failed", ~forsook'
        PROVE  /\ c \notin early'
               /\ \A b \in early' \cap Batches : \A k \in DOMAIN EventsOf[b] : EventsOf[b][k] # c
    BY <1>9, <2>1, <2>2
  <2> QED
    BY <1>8, <2>1, <2>2 DEF Bus!EarlyEventsReachBus
<1> QED
  BY <1>3, <1>6, <1>7, <1>8, <1>9, <1>10

\* EarlyEventsReachBus: no event of a publication or batch that began while the CQRS
\* event bus was ready is lost to an event bus that has stopped before it, unless
\* the drain gave up (CqrsEventBusService.publish(), publishAll() and shutdown).
THEOREM EarlyEventsArrive ==
  ASSUME BusAssumptions
  PROVE  Bus!Spec => []Bus!EarlyEventsReachBus
<1> DEFINE Inv == DrainInv /\ CqrsInv
<1>1. Bus!Init => Inv
  BY BusInitial, CqrsInitial
<1>2. Inv /\ [Bus!Next]_(Bus!allVars) => Inv'
  BY DrainStep, PipeTypedStep, BatchStep, EarlyStep DEF CqrsInv
<1>3. Inv => Bus!EarlyEventsReachBus
  BY DEF CqrsInv, EarlyInv
<1> QED
  BY <1>1, <1>2, <1>3, PTL DEF Bus!Spec

---------------------------------------------------------------------------
\* PassportGuard.  AnswerInv: a request whose strategy is open has no
\* answer yet.

CONSTANTS Requirement, MaxCalls, Accounts
VARIABLES verdict, bridge, timer, promised, calls, redirected, principal, linking
Guard == INSTANCE PassportGuard

\* A request that is open has no answer, and one that has is not asked again.
AnswerInv ==
  /\ verdict \in [Requests -> {"no", "asked", "allowed", "unauthorized", "forbidden", "error"}]
  /\ bridge \in [Requests -> {"no", "open", "settled", "lost"}]
  /\ principal \in [Requests -> {"none", "scoped", "plain"}]
  /\ \A r \in Requests :
       /\ verdict[r] \in {"no", "asked"} => r \notin redirected /\ principal[r] = "none"
       /\ bridge[r] = "open" => verdict[r] = "asked"
       /\ verdict[r] = "no" => bridge[r] = "no"
  /\ Guard!OneAnswer

LEMMA GuardInitial == Guard!Init => AnswerInv /\ Guard!LinksAreConfirmed
BY DEF Guard!Init, AnswerInv, Guard!OneAnswer, Guard!LinksAreConfirmed, Guard!NoLinking

\* What a request without an answer is told.
LEMMA Concluded ==
  ASSUME AnswerInv, NEW r \in Requests, verdict[r] \in {"no", "asked"}, NEW result \in Guard!Results,
         Guard!Concludes(r, result),
         redirected' = redirected \/ (redirected' = redirected \cup {r} /\ result = "handled")
  PROVE  /\ verdict' \in [Requests -> {"no", "asked", "allowed", "unauthorized", "forbidden", "error"}]
         /\ principal' \in [Requests -> {"none", "scoped", "plain"}]
         /\ \A q \in Requests : q # r => verdict'[q] = verdict[q] /\ principal'[q] = principal[q]
         /\ verdict'[r] \notin {"no", "asked"}
         /\ r \in redirected' => verdict'[r] = "allowed" /\ principal'[r] = "none"
         /\ principal'[r] # "none" => verdict'[r] = "allowed"
         /\ verdict'[r] = "allowed" /\ Requirement[r].scopes => principal'[r] = "scoped" \/ r \in redirected'
<1>1. /\ verdict' = [verdict EXCEPT ![r] = Guard!Judges(r, result)]
      /\ principal' = [principal EXCEPT ![r] =
           IF Guard!Judges(r, result) = "allowed" /\ result \in {"scoped", "plain"} THEN result ELSE @]
  BY DEF Guard!Concludes
<1>2. r \notin redirected /\ principal[r] = "none"
  BY DEF AnswerInv
<1>3. Guard!Judges(r, result) \in {"allowed", "unauthorized", "forbidden", "error"}
  BY DEF Guard!Judges, Guard!Results
<1>4. Guard!Judges(r, result) = "allowed" =>
        \/ result = "handled" /\ r \in redirected'
        \/ result = "anonymous" /\ ~Requirement[r].scopes
        \/ result = "plain" /\ ~Requirement[r].scopes
        \/ result = "scoped"
  BY DEF Guard!Judges, Guard!Results
<1>5. r \in redirected' => Guard!Judges(r, result) = "allowed" /\ result = "handled"
  BY <1>2 DEF Guard!Judges
<1> QED
  BY <1>1, <1>2, <1>3, <1>4, <1>5 DEF AnswerInv

\* A step on one request: the others keep their answers.
LEMMA GuardAnswers ==
  ASSUME AnswerInv, NEW r \in Requests,
         /\ verdict' \in [Requests -> {"no", "asked", "allowed", "unauthorized", "forbidden", "error"}]
         /\ bridge' \in [Requests -> {"no", "open", "settled", "lost"}]
         /\ principal' \in [Requests -> {"none", "scoped", "plain"}],
         \A q \in Requests : q # r =>
           /\ verdict'[q] = verdict[q] /\ principal'[q] = principal[q] /\ bridge'[q] = bridge[q]
           /\ q \in redirected' <=> q \in redirected
           /\ q \in timer' => q \in timer,
         /\ verdict'[r] \in {"no", "asked"} => r \notin redirected' /\ principal'[r] = "none"
         /\ bridge'[r] = "open" => verdict'[r] = "asked"
         /\ verdict'[r] = "no" => bridge'[r] = "no"
         /\ r \in redirected' => verdict'[r] = "allowed" /\ principal'[r] = "none"
         /\ r \in timer' => bridge'[r] = "open"
         /\ principal'[r] # "none" => verdict'[r] = "allowed"
         /\ verdict'[r] = "allowed" /\ Requirement[r].scopes => principal'[r] = "scoped" \/ r \in redirected'
  PROVE  AnswerInv'
BY DEF AnswerInv, Guard!OneAnswer

\* settle: nothing for a request that is not open, an answer for one that is.
LEMMA Settled ==
  ASSUME AnswerInv, NEW r \in Requests, NEW result \in Guard!Results, Guard!Settles(r, result),
         redirected' = redirected \/ (redirected' = redirected \cup {r} /\ result = "handled" /\ bridge[r] = "open")
  PROVE  AnswerInv'
<1>1. CASE bridge[r] = "open"
  <2>1. bridge' = [bridge EXCEPT ![r] = "settled"] /\ timer' = timer \ {r} /\ Guard!Concludes(r, result)
    BY <1>1 DEF Guard!Settles
  <2>2. verdict[r] = "asked"
    BY <1>1 DEF AnswerInv
  <2>3. /\ verdict' \in [Requests -> {"no", "asked", "allowed", "unauthorized", "forbidden", "error"}]
        /\ principal' \in [Requests -> {"none", "scoped", "plain"}]
        /\ \A q \in Requests : q # r => verdict'[q] = verdict[q] /\ principal'[q] = principal[q]
        /\ verdict'[r] \notin {"no", "asked"}
        /\ r \in redirected' => verdict'[r] = "allowed" /\ principal'[r] = "none"
        /\ principal'[r] # "none" => verdict'[r] = "allowed"
        /\ verdict'[r] = "allowed" /\ Requirement[r].scopes => principal'[r] = "scoped" \/ r \in redirected'
    BY <2>1, <2>2, Concluded
  <2>4. bridge' \in [Requests -> {"no", "open", "settled", "lost"}] /\ bridge'[r] = "settled"
        /\ \A q \in Requests : q # r => bridge'[q] = bridge[q]
    BY <2>1 DEF AnswerInv
  <2> QED
    BY <2>1, <2>3, <2>4, GuardAnswers
<1>2. CASE bridge[r] # "open"
  BY <1>2 DEF Guard!Settles, AnswerInv, Guard!OneAnswer
<1> QED
  BY <1>1, <1>2

LEMMA AnswerStep ==
  ASSUME AnswerInv, [Guard!Next]_(Guard!guardVars)
  PROVE  AnswerInv'
<1>1. ASSUME NEW r \in Requests, Guard!Ask(r) PROVE AnswerInv'
  BY <1>1 DEF Guard!Ask, AnswerInv, Guard!OneAnswer
<1>2. ASSUME NEW r \in Requests, NEW result \in Guard!Results, Guard!AskOwn(r, result) PROVE AnswerInv'
  <2>1. /\ verdict[r] = "no" /\ Guard!Concludes(r, result) /\ UNCHANGED <<bridge, timer>>
        /\ redirected' = redirected \/ (redirected' = redirected \cup {r} /\ result = "handled")
    BY <1>2 DEF Guard!AskOwn
  <2>2. /\ verdict' \in [Requests -> {"no", "asked", "allowed", "unauthorized", "forbidden", "error"}]
        /\ principal' \in [Requests -> {"none", "scoped", "plain"}]
        /\ \A q \in Requests : q # r => verdict'[q] = verdict[q] /\ principal'[q] = principal[q]
        /\ verdict'[r] \notin {"no", "asked"}
        /\ r \in redirected' => verdict'[r] = "allowed" /\ principal'[r] = "none"
        /\ principal'[r] # "none" => verdict'[r] = "allowed"
        /\ verdict'[r] = "allowed" /\ Requirement[r].scopes => principal'[r] = "scoped" \/ r \in redirected'
    BY <2>1, Concluded
  <2>3. bridge[r] = "no" /\ r \notin timer /\ bridge \in [Requests -> {"no", "open", "settled", "lost"}]
    BY <2>1 DEF AnswerInv, Guard!OneAnswer
  <2> QED
    BY <2>1, <2>2, <2>3, GuardAnswers
<1>3. ASSUME NEW r \in Requests, NEW asynchronous \in BOOLEAN, Guard!AskBridge(r, asynchronous) PROVE AnswerInv'
  BY <1>3 DEF Guard!AskBridge, AnswerInv, Guard!OneAnswer
<1>4. ASSUME NEW r \in Requests, NEW result \in Guard!Results, Guard!Acts(r, result) PROVE AnswerInv'
  BY <1>4, Settled DEF Guard!Acts
<1>5. ASSUME NEW r \in Requests, Guard!ActsRedirect(r) PROVE AnswerInv'
  BY <1>5, Settled DEF Guard!ActsRedirect, Guard!Redirects, Guard!Results
<1>6. ASSUME NEW r \in Requests, Guard!RedirectFails(r) PROVE AnswerInv'
  BY <1>6 DEF Guard!RedirectFails, AnswerInv, Guard!OneAnswer
<1>7. ASSUME NEW r \in Requests, NEW result \in Guard!Results, Guard!Returns(r, result) PROVE AnswerInv'
  <2>1. CASE bridge[r] = "open"
    BY <1>7, <2>1, Settled DEF Guard!Returns
  <2>2. CASE bridge[r] # "open"
    BY <1>7, <2>2 DEF Guard!Returns, AnswerInv, Guard!OneAnswer
  <2> QED
    BY <2>1, <2>2
<1>8. ASSUME NEW r \in Requests, Guard!Timeout(r) PROVE AnswerInv'
  BY <1>8, Settled DEF Guard!Timeout, Guard!Results
<1>9. CASE UNCHANGED <<verdict, bridge, timer, redirected, principal>>
  BY <1>9 DEF AnswerInv, Guard!OneAnswer
<1> QED
  BY <1>1, <1>2, <1>3, <1>4, <1>5, <1>6, <1>7, <1>8, <1>9 DEF Guard!Next, Guard!Link, Guard!guardVars

LEMMA SameSets ==
  /\ \A S : Guard!IsFiniteSet(S) <=> IsFiniteSet(S)
  /\ \A S : Guard!Cardinality(S) = Cardinality(S)
BY DEF Guard!IsFiniteSet, IsFiniteSet, Guard!Cardinality, Cardinality

LEMMA LinkStep ==
  ASSUME Guard!GuardAssumption, Guard!LinksAreConfirmed, [Guard!Next]_(Guard!guardVars)
  PROVE  Guard!LinksAreConfirmed'
<1>1. CASE UNCHANGED linking
  BY <1>1 DEF Guard!LinksAreConfirmed
<1>2. ASSUME NEW linked \in SUBSET Accounts, NEW matched \in SUBSET Accounts,
             NEW attempt \in {"none", "asked", "confirmed"}, NEW target \in Accounts,
             Guard!Link(linked, matched, attempt, target)
      PROVE  Guard!LinksAreConfirmed'
  <2>1. Guard!Cardinality(linked) \in Nat /\ (linked = {} => Guard!Cardinality(linked) = 0)
    <3>1. IsFiniteSet(Accounts)
      BY SameSets DEF Guard!GuardAssumption
    <3>2. IsFiniteSet(linked)
      BY <3>1, FS_Subset
    <3>3. Cardinality(linked) \in Nat /\ (linked = {} => Cardinality(linked) = 0)
      BY <3>2, FS_CardinalityType, FS_EmptySet
    <3> QED
      BY <3>3, SameSets
  <2> DEFINE d == Guard!Decision(linked, matched, attempt, target)
  <2>2. linking' = [linked |-> linked, matched |-> matched, attempt |-> attempt, decision |-> d,
          target |-> IF d # "link" THEN "none"
                     ELSE IF linked # {} THEN CHOOSE a \in linked : TRUE ELSE target]
    BY <1>2 DEF Guard!Link
  <2>3. d = "link" =>
          /\ Guard!Cardinality(linked) <= 1
          /\ linked = {} => attempt = "confirmed" /\ target \in matched
    BY <2>1 DEF Guard!Decision, Guard!Confirmed
  <2> HIDE DEF d
  <2>4. d = "link" /\ linked # {} => linking'.target \in linking'.linked
    BY <2>2
  <2>5. d = "link" /\ linked = {} => linking'.target = target
    BY <2>2
  <2>6. linking'.decision = d /\ linking'.linked = linked /\ linking'.matched = matched /\ linking'.attempt = attempt
    BY <2>2
  <2> QED
    BY <2>3, <2>4, <2>5, <2>6 DEF Guard!LinksAreConfirmed
<1> QED
  BY <1>1, <1>2 DEF Guard!Next, Guard!guardVars, Guard!Ask, Guard!AskOwn, Guard!AskBridge, Guard!Acts, Guard!ActsRedirect,
     Guard!RedirectFails, Guard!Returns, Guard!Timeout

\* OneAnswer and LinksAreConfirmed: a strategy that answers twice, too late or never
\* gives its request one answer, and no account is linked but the one that policy
\* and request agree on (AuthGuard, PassportStrategyBridge, account linking).
THEOREM GuardAnswersOnce ==
  ASSUME Guard!GuardAssumption
  PROVE  Guard!Spec => []Guard!OneAnswer /\ []Guard!LinksAreConfirmed
<1>1. Guard!Init => AnswerInv /\ Guard!LinksAreConfirmed
  BY GuardInitial
<1>2. AnswerInv /\ Guard!LinksAreConfirmed /\ [Guard!Next]_(Guard!guardVars) => AnswerInv' /\ Guard!LinksAreConfirmed'
  BY AnswerStep, LinkStep
<1>3. AnswerInv => Guard!OneAnswer
  BY DEF AnswerInv
<1> QED
  BY <1>1, <1>2, <1>3, PTL DEF Guard!Spec

---------------------------------------------------------------------------
\* RestartRunner.  ChildInv is about the children, SavedInv about the
\* files they run.

CONSTANTS Files, MaxEdits, NoCode
VARIABLES disk, baseline, notices, pendingRestartPaths, restartTimer, restarting, stopping,
  restartAfterClosePaths, cleanedUp, children, exit, edits, hasty
Runner == INSTANCE RestartRunner WITH None <- NoCode

RunnerSpec == Runner!RunnerInit /\ [][Runner!RunnerNext]_(Runner!runnerVars)

ChildRecords == [state : Runner!States, code : Runner!Codes, loaded : [Files -> Nat], killed : BOOLEAN, restarts : BOOLEAN]
RunnerTyped ==
  /\ disk \in [Files -> Nat] /\ baseline \in [Files -> Nat]
  /\ children \in Seq(ChildRecords) /\ Len(children) > 0
  /\ restarting \in BOOLEAN /\ stopping \in BOOLEAN /\ cleanedUp \in BOOLEAN /\ restartTimer \in BOOLEAN

\* All children but the last are over; so is the last when the runner has resolved, or
\* it has ended and the runner was told to stop.
ChildInv ==
  /\ \A i \in 1 .. (Len(children) - 1) : children[i].state = "closed"
  /\ Runner!Alive(Runner!child) => Runner!child.code = NoCode
  /\ exit # NoCode => Runner!child.state = "closed" \/ (Runner!child.state = "exited" /\ stopping)

LEMMA RunnerInitial == Runner!RunnerInit => RunnerTyped /\ ChildInv
<1> SUFFICES ASSUME Runner!RunnerInit PROVE RunnerTyped /\ ChildInv
  OBVIOUS
<1>1. PICK s \in {"failing", "spawned"} : children = <<Runner!Spawned(s)>>
  BY DEF Runner!RunnerInit
<1>2. Runner!Spawned(s) \in ChildRecords
  BY DEF Runner!Spawned, Runner!Unread, ChildRecords, Runner!States, Runner!Codes
<1>3. disk \in [Files -> Nat] /\ baseline \in [Files -> Nat]
  BY DEF Runner!RunnerInit
<1>4. Len(children) = 1 /\ Runner!child = Runner!Spawned(s) /\ children \in Seq(ChildRecords)
  BY <1>1, <1>2 DEF Runner!child, Runner!current
<1>5. /\ restarting \in BOOLEAN /\ stopping \in BOOLEAN /\ cleanedUp \in BOOLEAN /\ restartTimer \in BOOLEAN
      /\ exit = NoCode
  BY DEF Runner!RunnerInit
<1>6. Runner!Spawned(s).code = NoCode
  BY DEF Runner!Spawned
<1> QED
  BY <1>3, <1>4, <1>5, <1>6 DEF RunnerTyped, ChildInv

\* The last child changes.
LEMMA LastChanges ==
  ASSUME RunnerTyped, NEW c \in ChildRecords, children' = [children EXCEPT ![Len(children)] = c]
  PROVE  /\ children' \in Seq(ChildRecords) /\ Len(children') = Len(children) /\ Runner!child' = c
         /\ \A i \in 1 .. (Len(children) - 1) : children'[i] = children[i]
BY DEF RunnerTyped, Runner!child, Runner!current

LEMMA LastFollowed ==
  ASSUME RunnerTyped, NEW c \in ChildRecords, NEW d \in ChildRecords,
         children' = Append([children EXCEPT ![Len(children)] = c], d)
  PROVE  /\ children' \in Seq(ChildRecords) /\ Len(children') = Len(children) + 1 /\ Runner!child' = d
         /\ \A i \in 1 .. (Len(children) - 1) : children'[i] = children[i]
         /\ children'[Len(children)] = c
<1> DEFINE s == [children EXCEPT ![Len(children)] = c]
<1>1. s \in Seq(ChildRecords) /\ Len(s) = Len(children) /\ Len(children) \in Nat \ {0}
      /\ s[Len(children)] = c /\ \A i \in 1 .. (Len(children) - 1) : s[i] = children[i]
  BY DEF RunnerTyped
<1> HIDE DEF s
<1>2. Append(s, d) \in Seq(ChildRecords) /\ Len(Append(s, d)) = Len(s) + 1 /\ Append(s, d)[Len(s) + 1] = d
      /\ \A i \in 1 .. Len(s) : Append(s, d)[i] = s[i]
  BY <1>1
<1>3. children' = Append(s, d)
  BY DEF s
<1>4. children' \in Seq(ChildRecords) /\ Len(children') = Len(children) + 1
  BY <1>1, <1>2, <1>3
<1>5. Runner!child' = d
  BY <1>1, <1>2, <1>3, <1>4 DEF Runner!child, Runner!current
<1>6. \A i \in 1 .. Len(children) : children'[i] = s[i]
  BY <1>1, <1>2, <1>3
<1> QED
  BY <1>1, <1>4, <1>5, <1>6

LEMMA ChildIs ==
  ASSUME RunnerTyped
  PROVE  /\ Runner!child \in ChildRecords /\ Runner!current = Len(children) /\ Runner!child = children[Len(children)]
         /\ Len(children) \in Nat \ {0} /\ DOMAIN children = 1 .. Len(children)
         /\ Runner!Gone \in ChildRecords
         /\ \A s \in {"failing", "spawned"} : Runner!Spawned(s) \in ChildRecords
         /\ Runner!StopChild(Runner!child) \in ChildRecords
<1>1. /\ Runner!child \in ChildRecords /\ Runner!current = Len(children) /\ Runner!child = children[Len(children)]
      /\ Len(children) \in Nat \ {0} /\ DOMAIN children = 1 .. Len(children)
  BY DEF RunnerTyped, Runner!child, Runner!current
<1>2. \A s \in Runner!States : Runner!Spawned(s) \in ChildRecords
  BY DEF Runner!Spawned, Runner!Unread, ChildRecords, Runner!Codes
<1>3. Runner!Gone \in ChildRecords
  BY <1>2 DEF Runner!Gone, Runner!States
<1>4. \A c \in ChildRecords : Runner!StopChild(c) \in ChildRecords
  BY DEF Runner!StopChild, ChildRecords, Runner!Alive
<1> QED
  BY <1>1, <1>2, <1>3, <1>4 DEF Runner!States

\* Steps in which the children stay.
LEMMA ChildrenStay ==
  ASSUME RunnerTyped, [Runner!RunnerNext]_(Runner!runnerVars)
  PROVE  \/ UNCHANGED <<children, exit, stopping>>
         \/ Runner!TimerFires \/ Runner!Loads \/ Runner!SpawnFails \/ Runner!Stop
         \/ \E i \in 1 .. Len(children) : Runner!Closes(i) \/ Runner!Ends(i, Runner!Codes)
<1>1. DOMAIN children = 1 .. Len(children)
  BY DEF RunnerTyped
<1>2. ASSUME NEW i, Runner!ForceKilled(i) PROVE Runner!Ends(i, Runner!Codes)
  BY <1>2 DEF Runner!ForceKilled, Runner!Ends, Runner!Codes
<1> QED
  BY <1>1, <1>2 DEF Runner!RunnerNext, Runner!Due, Runner!Notice, Runner!Edit, Runner!runnerVars

LEMMA RunnerStep ==
  ASSUME RunnerTyped, ChildInv, [Runner!RunnerNext]_(Runner!runnerVars)
  PROVE  RunnerTyped' /\ ChildInv'
<1> DEFINE n == Len(children)
<1>0. /\ Runner!child \in ChildRecords /\ Runner!current = n /\ Runner!child = children[n]
      /\ n \in Nat \ {0} /\ DOMAIN children = 1 .. n /\ Runner!Gone \in ChildRecords
      /\ \A s \in {"failing", "spawned"} : Runner!Spawned(s) \in ChildRecords
      /\ Runner!StopChild(Runner!child) \in ChildRecords
  BY ChildIs
<1>1. /\ disk' \in [Files -> Nat] /\ baseline' \in [Files -> Nat]
      /\ restarting' \in BOOLEAN /\ stopping' \in BOOLEAN /\ cleanedUp' \in BOOLEAN /\ restartTimer' \in BOOLEAN
  <2> USE DEF RunnerTyped
  <2>1. CASE \E f \in Files : Runner!Edit(f)
    BY <2>1 DEF Runner!Edit
  <2>2. CASE ~\E f \in Files : Runner!Edit(f)
    <3>1. UNCHANGED disk /\ (UNCHANGED baseline \/ \E paths : Runner!CommitBaseline(paths))
      BY <2>2 DEF Runner!RunnerNext, Runner!Due, Runner!Notice, Runner!TimerFires, Runner!Loads, Runner!SpawnFails,
         Runner!ForceKilled, Runner!Closes, Runner!Ends, Runner!Stop, Runner!runnerVars, Runner!fileVars
    <3>2. baseline' \in [Files -> Nat]
      BY <3>1 DEF Runner!CommitBaseline
    <3>3. /\ restarting' \in BOOLEAN /\ stopping' \in BOOLEAN /\ cleanedUp' \in BOOLEAN /\ restartTimer' \in BOOLEAN
      BY <2>2, <1>0 DEF Runner!RunnerNext, Runner!Due, Runner!Notice, Runner!TimerFires, Runner!Loads, Runner!SpawnFails,
         Runner!ForceKilled, Runner!Closes, Runner!Ends, Runner!Stop, Runner!runnerVars, Runner!fileVars, Runner!Cleanup
    <3> QED
      BY <3>1, <3>2, <3>3
  <2> QED
    BY <2>1, <2>2
<1>2. ASSUME NEW c \in ChildRecords, children' = [children EXCEPT ![n] = c],
             Runner!Alive(c) => c.code = NoCode,
             exit' # NoCode => c.state = "closed" \/ (c.state = "exited" /\ stopping')
      PROVE  RunnerTyped' /\ ChildInv'
  <2>1. /\ children' \in Seq(ChildRecords) /\ Len(children') = n /\ Runner!child' = c
        /\ \A i \in 1 .. (n - 1) : children'[i] = children[i]
    BY <1>2, LastChanges
  <2>2. Runner!Alive(Runner!child)' => c.code = NoCode
    BY <1>2, <2>1 DEF Runner!Alive
  <2> QED
    BY <1>0, <1>1, <1>2, <2>1, <2>2 DEF RunnerTyped, ChildInv
<1>3. CASE UNCHANGED <<children, exit, stopping>>
  BY <1>1, <1>3 DEF RunnerTyped, ChildInv, Runner!child, Runner!current, Runner!Alive
<1>4. CASE Runner!TimerFires
  <2>1. exit' = exit /\ stopping' = stopping
    BY <1>4 DEF Runner!TimerFires
  <2>2. CASE children' = children
    BY <1>3, <2>1, <2>2
  <2>3. CASE children' # children
    <3> DEFINE c == [Runner!StopChild(Runner!child) EXCEPT !.restarts = TRUE]
    <3>1. c \in ChildRecords /\ c.state = Runner!child.state /\ c.code = Runner!child.code
      BY <1>0 DEF ChildRecords, Runner!StopChild
    <3>2. children' = [children EXCEPT ![n] = c]
      BY <1>0, <1>4, <2>3 DEF Runner!TimerFires
    <3>3. Runner!Alive(c) => c.code = NoCode
      BY <3>1 DEF ChildInv, Runner!Alive
    <3> HIDE DEF c
    <3> QED
      BY <1>2, <2>1, <3>1, <3>2, <3>3 DEF ChildInv
  <2> QED
    BY <2>2, <2>3
<1>5. CASE Runner!Loads
  <2> DEFINE c == [Runner!child EXCEPT !.state = "running", !.loaded = disk]
  <2>1. Runner!child.state = "spawned" /\ exit' = exit /\ stopping' = stopping
    BY <1>5 DEF Runner!Loads
  <2>2. c \in ChildRecords /\ c.state = "running" /\ c.code = Runner!child.code
    BY <1>0 DEF ChildRecords, Runner!States, RunnerTyped
  <2>3. children' = [children EXCEPT ![n] = c]
    BY <1>0, <1>5 DEF Runner!Loads
  <2>4. c.code = NoCode /\ exit = NoCode
    BY <2>1, <2>2 DEF ChildInv, Runner!Alive
  <2> HIDE DEF c
  <2> QED
    BY <1>2, <2>1, <2>2, <2>3, <2>4
<1>6. CASE Runner!SpawnFails
  <2>1. children' = [children EXCEPT ![n] = Runner!Gone]
    BY <1>0, <1>6 DEF Runner!SpawnFails
  <2>2. Runner!Gone.state = "closed" /\ Runner!Gone.code = NoCode
    BY DEF Runner!Gone, Runner!Spawned
  <2> QED
    BY <1>0, <1>2, <2>1, <2>2
<1>7. CASE Runner!Stop
  <2>1. CASE Runner!child.code # NoCode
    <3>1. children' = children /\ stopping' = TRUE /\ Runner!child' = Runner!child
      BY <1>7, <2>1 DEF Runner!Stop, Runner!child, Runner!current
    <3>2. Runner!child.state \in {"exited", "closed", "failing"}
      BY <1>0, <2>1 DEF ChildInv, Runner!Alive, ChildRecords, Runner!States
    <3>3. Runner!child.state # "failing"
      BY <1>7 DEF Runner!Stop, Runner!Calm
    <3> QED
      BY <1>1, <3>1, <3>2, <3>3 DEF RunnerTyped, ChildInv, Runner!Alive
  <2>2. CASE Runner!child.code = NoCode
    <3> DEFINE c == Runner!StopChild(Runner!child)
    <3>1. children' = [children EXCEPT ![n] = c] /\ exit' = exit /\ stopping' = TRUE
      BY <1>0, <1>7, <2>2 DEF Runner!Stop
    <3>2. c.state = Runner!child.state /\ c.code = Runner!child.code
      BY <1>0 DEF ChildRecords, Runner!StopChild
    <3> HIDE DEF c
    <3>3. c \in ChildRecords
      BY <1>0 DEF c
    <3> QED
      BY <1>2, <2>2, <3>1, <3>2, <3>3 DEF ChildInv
  <2> QED
    BY <2>1, <2>2
<1>8. ASSUME NEW i \in 1 .. n, Runner!Ends(i, Runner!Codes) PROVE RunnerTyped' /\ ChildInv'
  <2>1. i = n /\ exit' = exit /\ stopping' = stopping
    BY <1>0, <1>8 DEF ChildInv, Runner!Ends, Runner!Alive
  <2>2. PICK code \in Runner!Codes : children' = [children EXCEPT ![i].state = "exited", ![i].code = code]
    BY <1>8 DEF Runner!Ends
  <2> DEFINE c == [Runner!child EXCEPT !.state = "exited", !.code = code]
  <2>3. c \in ChildRecords /\ c.state = "exited" /\ children' = [children EXCEPT ![n] = c]
    BY <1>0, <2>1, <2>2 DEF ChildRecords, Runner!States
  <2>4. exit = NoCode
    BY <1>0, <1>8, <2>1 DEF ChildInv, Runner!Ends, Runner!Alive
  <2> HIDE DEF c
  <2> QED
    BY <1>2, <2>1, <2>3, <2>4 DEF Runner!Alive
<1>9. ASSUME NEW i \in 1 .. n, Runner!Closes(i) PROVE RunnerTyped' /\ ChildInv'
  <2>1. i = n /\ children[n].state = "exited"
    BY <1>0, <1>9 DEF ChildInv, Runner!Closes
  <2>2. Runner!Gone.state = "closed" /\ Runner!Gone.code = NoCode
    BY DEF Runner!Gone, Runner!Spawned
  <2>3. CASE children[n].restarts /\ Runner!StartsAgain
    <3>1. PICK s \in {"failing", "spawned"} : children' = Append([children EXCEPT ![n] = Runner!Gone], Runner!Spawned(s))
      BY <1>9, <2>1, <2>3 DEF Runner!Closes
    <3>2. exit' = exit /\ exit = NoCode
      BY <1>0, <1>9, <2>1, <2>3 DEF Runner!Closes, Runner!StartsAgain, ChildInv
    <3>3. /\ children' \in Seq(ChildRecords) /\ Len(children') = n + 1 /\ Runner!child' = Runner!Spawned(s)
          /\ \A j \in 1 .. (n - 1) : children'[j] = children[j]
          /\ children'[n] = Runner!Gone
      BY <1>0, <3>1, LastFollowed
    <3>4. Runner!Spawned(s).code = NoCode
      BY DEF Runner!Spawned
    <3>5. \A j \in 1 .. n : children'[j].state = "closed"
      BY <1>0, <2>2, <3>3 DEF ChildInv
    <3> QED
      BY <1>0, <1>1, <3>2, <3>3, <3>4, <3>5 DEF RunnerTyped, ChildInv
  <2>4. CASE ~(children[n].restarts /\ Runner!StartsAgain)
    <3>1. children' = [children EXCEPT ![n] = Runner!Gone]
      BY <1>9, <2>1, <2>4 DEF Runner!Closes
    <3> QED
      BY <1>0, <1>2, <2>2, <3>1
  <2> QED
    BY <2>3, <2>4
<1> QED
  BY <1>3, <1>4, <1>5, <1>6, <1>7, <1>8, <1>9, ChildrenStay

\* OneChild: whatever is saved and however children end, one child of the
\* development runner lives at a time (runNodeRestartRunner()).
THEOREM RunnerKeepsOneChild == RunnerSpec => []Runner!OneChild
<1>1. Runner!RunnerInit => RunnerTyped /\ ChildInv
  BY RunnerInitial
<1>2. (RunnerTyped /\ ChildInv) /\ [Runner!RunnerNext]_(Runner!runnerVars) => (RunnerTyped /\ ChildInv)'
  BY RunnerStep
<1>3. RunnerTyped /\ ChildInv => Runner!OneChild
  <2> SUFFICES ASSUME RunnerTyped, ChildInv PROVE Runner!OneChild
    OBVIOUS
  <2>1. ASSUME NEW i \in DOMAIN children, Runner!Alive(children[i]) PROVE i = Len(children) /\ exit = NoCode
    BY <2>1, ChildIs DEF ChildInv, Runner!Alive
  <2> QED
    BY <2>1, ChildIs DEF Runner!OneChild
<1> QED
  BY <1>1, <1>2, <1>3, PTL DEF RunnerSpec

\* A save that the gate's baseline does not have is reported, waits for the debounce,
\* or is collected for the restart under way; a child that runs something else than
\* the baseline, without a restart under way, was not the only one to see it.
SavedInv ==
  /\ pendingRestartPaths # {} => restartTimer = TRUE
  /\ restartAfterClosePaths # {} => restarting = TRUE
  /\ cleanedUp = FALSE => \A f \in Files :
       disk[f] # baseline[f] => f \in notices \cup pendingRestartPaths \cup restartAfterClosePaths
  /\ cleanedUp = FALSE /\ restarting = FALSE /\ Runner!child.state = "running" =>
       \A f \in Files \ hasty : Runner!child.loaded[f] # baseline[f] => disk[f] # baseline[f]

LEMMA SavedInitial == Runner!RunnerInit => SavedInv
<1> SUFFICES ASSUME Runner!RunnerInit PROVE SavedInv
  OBVIOUS
<1>1. PICK s \in {"failing", "spawned"} : children = <<Runner!Spawned(s)>>
  BY DEF Runner!RunnerInit
<1>2. Runner!child.state # "running"
  BY <1>1 DEF Runner!child, Runner!current, Runner!Spawned
<1> QED
  BY <1>2 DEF Runner!RunnerInit, SavedInv

LEMMA SavedStep ==
  ASSUME RunnerTyped, ChildInv, SavedInv, [Runner!RunnerNext]_(Runner!runnerVars)
  PROVE  SavedInv'
<1> DEFINE n == Len(children)
<1>0. /\ Runner!child \in ChildRecords /\ Runner!current = n /\ Runner!child = children[n]
      /\ n \in Nat \ {0} /\ DOMAIN children = 1 .. n
  BY ChildIs
<1> USE DEF SavedInv
<1>1. CASE UNCHANGED Runner!runnerVars
  BY <1>1 DEF Runner!runnerVars, Runner!child, Runner!current
<1>2. ASSUME NEW f \in Files, Runner!Edit(f) PROVE SavedInv'
  <2>1. /\ UNCHANGED <<children, baseline, restarting, cleanedUp, pendingRestartPaths, restartTimer, restartAfterClosePaths>>
        /\ cleanedUp = FALSE => notices' = notices \cup {f}
        /\ \A g \in Files : g # f => disk'[g] = disk[g]
        /\ hasty \subseteq hasty'
        /\ disk'[f] # disk[f] /\ disk'[f] = baseline[f] /\ f \in notices \cup pendingRestartPaths => f \in hasty'
    BY <1>2 DEF Runner!Edit, RunnerTyped
  <2>2. Runner!child' = Runner!child
    BY <2>1 DEF Runner!child, Runner!current
  <2>3. cleanedUp = FALSE => \A g \in Files :
          disk'[g] # baseline'[g] => g \in notices' \cup pendingRestartPaths' \cup restartAfterClosePaths'
    BY <2>1 DEF RunnerTyped
  <2>4. cleanedUp = FALSE /\ restarting = FALSE /\ Runner!child.state = "running" =>
          \A g \in Files \ hasty' : Runner!child.loaded[g] # baseline[g] => disk'[g] # baseline[g]
    <3> SUFFICES ASSUME cleanedUp = FALSE, restarting = FALSE, Runner!child.state = "running",
                        NEW g \in Files \ hasty', Runner!child.loaded[g] # baseline[g], disk'[g] = baseline[g]
                 PROVE  FALSE
      OBVIOUS
    <3>1. disk[g] # baseline[g]
      BY <2>1
    <3>2. g = f /\ restartAfterClosePaths = {}
      BY <2>1, <3>1
    <3> QED
      BY <2>1, <3>1, <3>2
  <2> QED
    BY <2>1, <2>2, <2>3, <2>4
<1>3. ASSUME NEW f \in Files, Runner!Notice(f) PROVE SavedInv'
  <2>1. /\ UNCHANGED <<children, disk, hasty, baseline, restarting, cleanedUp, restartAfterClosePaths>>
        /\ notices' = notices \ {f} /\ pendingRestartPaths' = pendingRestartPaths \cup {f} /\ restartTimer' = TRUE
    BY <1>3 DEF Runner!Notice, Runner!fileVars
  <2>2. Runner!child' = Runner!child
    BY <2>1 DEF Runner!child, Runner!current
  <2> QED
    BY <2>1, <2>2
<1>4. CASE Runner!TimerFires
  <2>1. UNCHANGED <<disk, edits, hasty, baseline, notices, stopping, cleanedUp, exit>> /\ pendingRestartPaths' = {}
    BY <1>4 DEF Runner!TimerFires, Runner!fileVars
  <2>2. CASE Runner!HasMeaningfulChange(pendingRestartPaths)
    BY <1>4, <2>1, <2>2 DEF Runner!TimerFires, Runner!Collects
  <2>3. CASE ~Runner!HasMeaningfulChange(pendingRestartPaths)
    <3>1. UNCHANGED <<restartAfterClosePaths, restarting, children>>
      BY <1>4, <2>3 DEF Runner!TimerFires
    <3>2. Runner!child' = Runner!child
      BY <3>1 DEF Runner!child, Runner!current
    <3> QED
      BY <2>1, <2>3, <3>1, <3>2 DEF Runner!HasMeaningfulChange
  <2> QED
    BY <2>2, <2>3
<1>5. CASE Runner!Loads
  <2> DEFINE c == [Runner!child EXCEPT !.state = "running", !.loaded = disk]
  <2>1. c \in ChildRecords /\ c.loaded = disk
    BY <1>0 DEF ChildRecords, Runner!States, RunnerTyped
  <2>2. children' = [children EXCEPT ![n] = c]
    BY <1>0, <1>5 DEF Runner!Loads
  <2> HIDE DEF c
  <2>3. Runner!child' = c
    BY <2>1, <2>2, LastChanges
  <2>4. UNCHANGED <<disk, hasty, baseline, notices, pendingRestartPaths, restartTimer, restarting,
                    restartAfterClosePaths, cleanedUp>>
    BY <1>5 DEF Runner!Loads, Runner!fileVars
  <2> QED
    BY <2>1, <2>3, <2>4
<1>6. CASE Runner!Cleanup
  BY <1>6 DEF Runner!Cleanup
<1>7. CASE Runner!SpawnFails \/ Runner!Stop
  BY <1>6, <1>7 DEF Runner!SpawnFails, Runner!Stop
<1>8. ASSUME NEW i \in 1 .. n, Runner!Ends(i, Runner!Codes) PROVE SavedInv'
  <2>1. i = n
    BY <1>0, <1>8 DEF ChildInv, Runner!Ends, Runner!Alive
  <2>2. PICK code \in Runner!Codes : children' = [children EXCEPT ![i].state = "exited", ![i].code = code]
    BY <1>8 DEF Runner!Ends
  <2> DEFINE c == [Runner!child EXCEPT !.state = "exited", !.code = code]
  <2>3. c \in ChildRecords /\ c.state = "exited" /\ children' = [children EXCEPT ![n] = c]
    BY <1>0, <2>1, <2>2 DEF ChildRecords, Runner!States
  <2> HIDE DEF c
  <2>4. Runner!child' = c
    BY <2>3, LastChanges
  <2>5. UNCHANGED <<disk, baseline, notices, pendingRestartPaths, restartTimer, restarting, restartAfterClosePaths, cleanedUp>>
    BY <1>8 DEF Runner!Ends, Runner!fileVars
  <2> QED
    BY <2>3, <2>4, <2>5
<1>9. ASSUME NEW i \in 1 .. n, Runner!Closes(i) PROVE SavedInv'
  <2>1. i = n
    BY <1>0, <1>9 DEF ChildInv, Runner!Closes
  <2>2. CASE children[n].restarts /\ Runner!StartsAgain
    <3>1. PICK s \in {"failing", "spawned"} : children' = Append([children EXCEPT ![n] = Runner!Gone], Runner!Spawned(s))
      BY <1>9, <2>1, <2>2 DEF Runner!Closes
    <3>2. Runner!child' = Runner!Spawned(s)
      BY <3>1, LastFollowed, ChildIs
    <3>3. Runner!child'.state # "running"
      BY <3>2 DEF Runner!Spawned
    <3>4. /\ UNCHANGED <<disk, notices, pendingRestartPaths, restartTimer, cleanedUp>> /\ restartAfterClosePaths' = {}
          /\ Runner!CommitBaseline(restartAfterClosePaths)
      BY <1>9, <2>1, <2>2 DEF Runner!Closes, Runner!fileVars
    <3>5. \A f \in Files : baseline'[f] = IF f \in restartAfterClosePaths THEN disk[f] ELSE baseline[f]
      BY <3>4 DEF Runner!CommitBaseline
    <3> QED
      BY <3>3, <3>4, <3>5
  <2>3. CASE ~(children[n].restarts /\ Runner!StartsAgain)
    BY <1>6, <1>9, <2>1, <2>3 DEF Runner!Closes
  <2> QED
    BY <2>2, <2>3
<1>10. \A i \in 1 .. n : Runner!ForceKilled(i) => Runner!Ends(i, Runner!Codes)
  BY DEF Runner!ForceKilled, Runner!Ends, Runner!Codes
<1> QED
  BY <1>0, <1>1, <1>2, <1>3, <1>4, <1>5, <1>7, <1>8, <1>9, <1>10 DEF Runner!RunnerNext, Runner!Due

\* RunsWhatIsSaved: a child that runs with no restart under way or announced has
\* loaded what is saved, but for saves that came between (the change gate).
THEOREM RunnerRunsWhatIsSaved == RunnerSpec => []Runner!RunsWhatIsSaved
<1> DEFINE Inv == RunnerTyped /\ ChildInv /\ SavedInv
<1>1. Runner!RunnerInit => Inv
  BY RunnerInitial, SavedInitial
<1>2. Inv /\ [Runner!RunnerNext]_(Runner!runnerVars) => Inv'
  BY RunnerStep, SavedStep
<1>3. Inv => Runner!RunsWhatIsSaved
  BY DEF SavedInv, RunnerTyped, Runner!RunsWhatIsSaved
<1> QED
  BY <1>1, <1>2, <1>3, PTL DEF RunnerSpec

---------------------------------------------------------------------------
\* CacheService.  LoadInv: a load that is not shared is one that a
\* reset() left behind; ReadInv: what it read too early it may not store.

CONSTANTS Callers, Writers, Resets, Nobody
VARIABLES truth, store, resetVersion, inflight, invalidated, pending, marked, phase, gen, val, joined, writes,
  floor, loadedIn
Cache == INSTANCE CacheService WITH None <- Nobody

\* The load of c is under way, and has read the data.
Loading(c) == phase[c] \in {"loading", "loaded", "setting", "set", "deleting"}
HasRead(c) == phase[c] \in {"loaded", "setting", "set", "deleting"}

CacheTyped ==
  /\ truth \in Nat /\ store \in Nat /\ resetVersion \in Nat /\ floor \in Nat
  /\ phase = [p \in Cache!Procs |-> phase[p]]
  /\ gen \in [Callers -> Nat] /\ val \in [Callers -> Nat] /\ loadedIn \in [Callers -> Nat]
  /\ writes \in [Writers \cup Resets -> Nat]

\* A load is the entry in flight, or a reset has begun since its caller called.  Once
\* a del() or reset() was called, what was read before must not be stored.
LoadInv ==
  \A c \in Callers :
    /\ gen[c] <= resetVersion /\ loadedIn[c] <= resetVersion
    /\ Loading(c) => inflight = c \/ resetVersion # gen[c]
    /\ phase[c] = "loading" => inflight = c \/ loadedIn[c] < resetVersion
ReadInv ==
  /\ floor <= truth /\ \A w \in Writers \cup Resets : writes[w] <= truth
  /\ \A c \in Callers : HasRead(c) =>
       /\ \A w \in Writers \cup Resets : val[c] < writes[w] => Cache!MustNotStore(c)
       /\ val[c] < floor => Cache!MustNotStore(c)
FreshInv == LoadInv /\ ReadInv /\ Cache!StaleIsTransient /\ Cache!OneLoadAtATime

CacheInv == CacheTyped /\ FreshInv

LEMMA CacheInitial == Cache!CacheAssumption /\ Cache!Init => CacheInv
BY DEF Cache!CacheAssumption, Cache!Init, CacheInv, CacheTyped, FreshInv, LoadInv, ReadInv, Loading, HasRead, Cache!StaleIsTransient,
   Cache!OneLoadAtATime, Cache!Procs

LEMMA CacheTypedStep ==
  ASSUME Cache!CacheAssumption, CacheTyped, [Cache!Next]_(Cache!vars)
  PROVE  CacheTyped'
<1> USE DEF CacheTyped, Cache!bookkeeping, Cache!history, Cache!Goes, Cache!Procs
<1>1. ASSUME NEW c \in Callers, Cache!RememberStep(c) PROVE CacheTyped'
  <2>1. CASE Cache!Remember(c) \/ Cache!StoreGets(c) \/ Cache!ReturnsCached(c) \/ Cache!Joins(c) \/ Cache!JoinedReturns(c)
    BY <2>1 DEF Cache!Remember, Cache!StoreGets, Cache!ReturnsCached, Cache!Joins, Cache!JoinedReturns
  <2>2. CASE Cache!Loads(c) \/ Cache!LoaderReads(c) \/ Cache!Stores(c) \/ Cache!StoreSets(c) \/ Cache!StoredGoes(c)
    BY <2>2 DEF Cache!Loads, Cache!LoaderReads, Cache!Stores, Cache!StoreSets, Cache!StoredGoes
  <2>3. CASE Cache!LoaderFails(c) \/ Cache!SkipsStore(c) \/ Cache!StoredStays(c) \/ Cache!StoreDeletes(c)
    BY <2>3 DEF Cache!LoaderFails, Cache!SkipsStore, Cache!StoredStays, Cache!StoreDeletes, Cache!Settles
  <2> QED
    BY <1>1, <2>1, <2>2, <2>3 DEF Cache!RememberStep
<1>2. ASSUME NEW w \in Writers \cup Resets, Cache!Writes(w) \/ Cache!Del(w) \/ Cache!DelEnds(w) PROVE CacheTyped'
  <2>1. CASE Cache!Writes(w) \/ Cache!Del(w)
    BY <2>1 DEF Cache!Writes, Cache!Del, Cache!DelMarks
  <2>2. CASE Cache!DelEnds(w)
    <3>1. floor' \in Nat
      BY <2>2 DEF Cache!DelEnds, Cache!DelReturns, Cache!AtLeast
    <3> QED
      BY <2>2, <3>1 DEF Cache!DelEnds, Cache!DelReturns
  <2> QED
    BY <1>2, <2>1, <2>2
<1>3. ASSUME NEW r \in Resets, Cache!Reset(r) PROVE CacheTyped'
  <2>1. resetVersion' \in Nat
    BY <1>3 DEF Cache!Reset, Cache!NextGeneration
  <2>2. writes' \in [Writers \cup Resets -> Nat]
    BY <1>3 DEF Cache!Reset, Cache!NextGeneration
  <2>3. phase' = [p \in Cache!Procs |-> phase'[p]]
    BY <1>3 DEF Cache!Reset, Cache!NextGeneration
  <2> QED
    BY <1>3, <2>1, <2>2, <2>3 DEF Cache!Reset, Cache!NextGeneration
<1>4. CASE UNCHANGED Cache!vars
  BY <1>4 DEF Cache!vars
<1> QED
  BY <1>1, <1>2, <1>3, <1>4 DEF Cache!Next

\* What must not be stored stays so while its load is under way; a step that neither
\* stores nor ends a load leaves the loads and the store as they are.
LEMMA OneMoves ==
  ASSUME Cache!CacheAssumption, CacheInv, NEW c \in Callers, Cache!RememberStep(c)
  PROVE  FreshInv'
<1> USE DEF CacheInv, CacheTyped, Cache!bookkeeping, Cache!history, Cache!Goes, Cache!Procs
<1>1. CASE Cache!Remember(c) \/ Cache!StoreGets(c) \/ Cache!ReturnsCached(c) \/ Cache!Joins(c) \/ Cache!JoinedReturns(c)
  <2>1. /\ UNCHANGED <<truth, store, resetVersion, inflight, invalidated, writes, floor, loadedIn>>
        /\ \A d \in Callers : d # c => gen'[d] = gen[d] /\ val'[d] = val[d]
        /\ \A d \in Cache!Procs : d # c => phase'[d] = phase[d]
        /\ ~Loading(c) /\ ~Loading(c)' /\ gen'[c] \in {gen[c], resetVersion}
    BY <1>1 DEF Cache!Remember, Cache!StoreGets, Cache!ReturnsCached, Cache!Joins, Cache!JoinedReturns, Loading
  <2>2. LoadInv'
    <3> SUFFICES ASSUME NEW d \in Callers
                 PROVE  /\ gen'[d] <= resetVersion /\ loadedIn[d] <= resetVersion
                        /\ Loading(d)' => inflight = d \/ resetVersion # gen'[d]
                        /\ phase'[d] = "loading" => inflight = d \/ loadedIn[d] < resetVersion
      BY <2>1 DEF LoadInv
    <3>1. /\ gen[d] <= resetVersion /\ loadedIn[d] <= resetVersion
          /\ Loading(d) => inflight = d \/ resetVersion # gen[d]
          /\ phase[d] = "loading" => inflight = d \/ loadedIn[d] < resetVersion
      BY DEF FreshInv, LoadInv
    <3>2. CASE d = c
      BY <2>1, <3>1, <3>2 DEF Loading
    <3>3. CASE d # c
      <4>1. gen'[d] = gen[d] /\ phase'[d] = phase[d]
        BY <2>1, <3>3
      <4> QED
        BY <3>1, <4>1 DEF Loading
    <3> QED
      BY <3>2, <3>3
  <2>3. ReadInv'
    BY <2>1 DEF FreshInv, ReadInv, Loading, HasRead, Cache!MustNotStore
  <2>4. Cache!StaleIsTransient'
    BY <2>1 DEF FreshInv, ReadInv, Cache!StaleIsTransient, Cache!MustNotStore, HasRead, Loading
  <2>5. Cache!OneLoadAtATime'
    BY <2>1 DEF FreshInv, LoadInv, Cache!OneLoadAtATime, Loading
  <2> QED
    BY <2>2, <2>3, <2>4, <2>5 DEF FreshInv
<1>2. CASE Cache!Loads(c)
  <2>1. /\ UNCHANGED <<truth, store, resetVersion, writes, floor, gen, val>> /\ inflight = Nobody /\ inflight' = c
        /\ \A d \in Cache!Procs : d # c => phase'[d] = phase[d]
        /\ \A d \in Callers : d # c => loadedIn'[d] = loadedIn[d]
        /\ phase'[c] = "loading" /\ loadedIn'[c] = resetVersion /\ invalidated \subseteq invalidated'
        /\ phase[c] = "got"
    BY <1>2 DEF Cache!Loads
  <2>0. \A d \in Callers : inflight # d
    BY <2>1 DEF Cache!CacheAssumption
  <2>2. LoadInv'
    <3> SUFFICES ASSUME NEW d \in Callers
                 PROVE  /\ gen[d] <= resetVersion /\ loadedIn'[d] <= resetVersion
                        /\ Loading(d)' => inflight' = d \/ resetVersion # gen[d]
                        /\ phase'[d] = "loading" => inflight' = d \/ loadedIn'[d] < resetVersion
      BY <2>1 DEF LoadInv
    <3>1. CASE d = c
      BY <2>1, <3>1 DEF FreshInv, LoadInv
    <3>2. CASE d # c
      BY <2>0, <2>1, <3>2 DEF FreshInv, LoadInv, Loading
    <3> QED
      BY <3>1, <3>2
  <2>3. ReadInv'
    BY <2>1 DEF FreshInv, ReadInv, Loading, HasRead, Cache!MustNotStore
  <2>4. Cache!StaleIsTransient'
    BY <2>1 DEF FreshInv, ReadInv, Cache!StaleIsTransient, Cache!MustNotStore, HasRead
  <2>5. Cache!OneLoadAtATime'
    <3> SUFFICES ASSUME NEW d \in Callers, NEW e \in Callers, phase'[d] = "loading", phase'[e] = "loading",
                        loadedIn'[d] = loadedIn'[e]
                 PROVE  d = e
      BY DEF Cache!OneLoadAtATime
    <3>1. ASSUME NEW f \in Callers, f # c, phase'[f] = "loading" PROVE loadedIn'[f] < resetVersion
      BY <2>0, <2>1, <3>1 DEF FreshInv, LoadInv
    <3>2. CASE d = c \/ e = c
      BY <2>1, <3>1, <3>2
    <3>3. CASE d # c /\ e # c
      <4>1. phase[d] = "loading" /\ phase[e] = "loading" /\ loadedIn[d] = loadedIn[e]
        BY <2>1, <3>3
      <4> QED
        BY <4>1 DEF FreshInv, Cache!OneLoadAtATime
    <3> QED
      BY <3>2, <3>3
  <2> QED
    BY <2>2, <2>3, <2>4, <2>5 DEF FreshInv
<1>3. CASE Cache!LoaderReads(c)
  <2>1. /\ UNCHANGED <<truth, store, resetVersion, inflight, invalidated, writes, floor, gen, loadedIn>>
        /\ \A d \in Cache!Procs : d # c => phase'[d] = phase[d]
        /\ \A d \in Callers : d # c => val'[d] = val[d]
        /\ phase[c] = "loading" /\ phase'[c] = "loaded" /\ val'[c] = truth
    BY <1>3 DEF Cache!LoaderReads
  <2>2. LoadInv'
    <3>1. \A d \in Callers : Loading(d)' <=> Loading(d)
      BY <2>1 DEF Loading
    <3> QED
      BY <2>1, <3>1 DEF FreshInv, LoadInv
  <2>3. ReadInv'
    BY <2>1 DEF FreshInv, ReadInv, Loading, HasRead, Cache!MustNotStore
  <2>4. Cache!StaleIsTransient'
    BY <2>1 DEF FreshInv, ReadInv, Cache!StaleIsTransient, Cache!MustNotStore, HasRead, Loading
  <2>5. Cache!OneLoadAtATime'
    BY <2>1 DEF FreshInv, LoadInv, Cache!OneLoadAtATime, Loading
  <2> QED
    BY <2>2, <2>3, <2>4, <2>5 DEF FreshInv
<1>4. CASE Cache!Stores(c) \/ Cache!StoredGoes(c)
  <2>1. /\ UNCHANGED <<truth, store, resetVersion, inflight, invalidated, writes, floor, gen, loadedIn, val>>
        /\ \A d \in Cache!Procs : d # c => phase'[d] = phase[d]
        /\ \/ phase[c] = "loaded" /\ phase'[c] = "setting"
           \/ phase[c] = "set" /\ phase'[c] = "deleting"
    BY <1>4 DEF Cache!Stores, Cache!StoredGoes
  <2>2. LoadInv'
    BY <2>1 DEF FreshInv, LoadInv, Loading
  <2>3. ReadInv'
    BY <2>1 DEF FreshInv, ReadInv, Loading, HasRead, Cache!MustNotStore
  <2>4. Cache!StaleIsTransient'
    BY <2>1 DEF FreshInv, ReadInv, Cache!StaleIsTransient, Cache!MustNotStore, HasRead, Loading
  <2>5. Cache!OneLoadAtATime'
    BY <2>1 DEF FreshInv, LoadInv, Cache!OneLoadAtATime, Loading
  <2> QED
    BY <2>2, <2>3, <2>4, <2>5 DEF FreshInv
<1>5. CASE Cache!StoreSets(c)
  <2>1. /\ UNCHANGED <<truth, resetVersion, inflight, invalidated, writes, floor, gen, loadedIn, val>>
        /\ \A d \in Cache!Procs : d # c => phase'[d] = phase[d]
        /\ phase[c] = "setting" /\ phase'[c] = "set" /\ store' = val[c]
    BY <1>5 DEF Cache!StoreSets
  <2>2. LoadInv'
    BY <2>1 DEF FreshInv, LoadInv, Loading
  <2>3. ReadInv'
    BY <2>1 DEF FreshInv, ReadInv, Loading, HasRead, Cache!MustNotStore
  <2>4. Cache!StaleIsTransient'
    BY <2>1 DEF FreshInv, ReadInv, Cache!StaleIsTransient, Cache!MustNotStore, HasRead, Loading
  <2>5. Cache!OneLoadAtATime'
    BY <2>1 DEF FreshInv, LoadInv, Cache!OneLoadAtATime, Loading
  <2> QED
    BY <2>2, <2>3, <2>4, <2>5 DEF FreshInv
<1>6. CASE Cache!LoaderFails(c) \/ Cache!SkipsStore(c) \/ Cache!StoredStays(c) \/ Cache!StoreDeletes(c)
  <2>1. /\ UNCHANGED <<truth, resetVersion, writes, floor, gen, loadedIn, val>>
        /\ \A d \in Cache!Procs : d # c => phase'[d] = phase[d]
        /\ Loading(c) /\ phase'[c] = "done" /\ invalidated' = invalidated \ {c}
        /\ inflight' = IF inflight = c THEN Nobody ELSE inflight
        /\ \/ store' = 0
           \/ store' = store /\ (phase[c] \in {"loading", "loaded"} \/ ~Cache!MustNotStore(c))
    BY <1>6 DEF Cache!LoaderFails, Cache!SkipsStore, Cache!StoredStays, Cache!StoreDeletes, Cache!Settles, Cache!InflightAfter,
      Loading, Cache!Keeps
  <2>2. LoadInv'
    BY <2>1 DEF FreshInv, LoadInv, Loading
  <2>3. ReadInv'
    BY <2>1 DEF FreshInv, ReadInv, Loading, HasRead, Cache!MustNotStore
  <2>4. Cache!StaleIsTransient'
    BY <2>1 DEF FreshInv, ReadInv, Cache!StaleIsTransient, Cache!MustNotStore, HasRead, Loading
  <2>5. Cache!OneLoadAtATime'
    BY <2>1 DEF FreshInv, LoadInv, Cache!OneLoadAtATime, Loading
  <2> QED
    BY <2>2, <2>3, <2>4, <2>5 DEF FreshInv
<1> QED
  BY <1>1, <1>2, <1>3, <1>4, <1>5, <1>6 DEF Cache!RememberStep

LEMMA WritersMove ==
  ASSUME Cache!CacheAssumption, CacheInv, NEW w \in Writers \cup Resets,
         Cache!Writes(w) \/ (w \in Writers /\ Cache!Del(w)) \/ Cache!DelEnds(w) \/ (w \in Resets /\ Cache!Reset(w))
  PROVE  FreshInv'
<1> USE DEF CacheInv, CacheTyped, Cache!bookkeeping, Cache!history, Cache!Goes, Cache!Procs
<1>0. \A c \in Callers : phase'[c] = phase[c]
  BY DEF Cache!CacheAssumption, Cache!Writes, Cache!Del, Cache!DelEnds, Cache!Reset
<1>1. CASE Cache!Writes(w)
  <2>1. UNCHANGED <<store, resetVersion, inflight, invalidated, writes, floor, gen, loadedIn, val>> /\ truth' = truth + 1
    BY <1>1 DEF Cache!Writes
  <2> QED
    BY <1>0, <2>1 DEF FreshInv, LoadInv, ReadInv, Loading, HasRead, Cache!StaleIsTransient, Cache!OneLoadAtATime, Cache!MustNotStore
<1>2. CASE Cache!Del(w)
  <2>1. /\ UNCHANGED <<truth, store, resetVersion, inflight, floor, gen, loadedIn, val>>
        /\ invalidated \subseteq invalidated' /\ (inflight # Nobody => inflight \in invalidated')
        /\ writes' = [writes EXCEPT ![w] = truth]
    BY <1>2 DEF Cache!Del, Cache!DelMarks
  <2> QED
    BY <1>0, <2>1 DEF Cache!CacheAssumption, FreshInv, LoadInv, ReadInv, Loading, HasRead, Cache!StaleIsTransient, Cache!OneLoadAtATime, Cache!MustNotStore
<1>3. CASE Cache!DelEnds(w)
  <2>1. /\ UNCHANGED <<truth, resetVersion, inflight, invalidated, gen, loadedIn, val, writes>>
        /\ store' = 0 /\ floor' \in {floor, writes[w]}
    BY <1>3 DEF Cache!DelEnds, Cache!DelReturns, Cache!AtLeast
  <2> QED
    BY <1>0, <2>1 DEF FreshInv, LoadInv, ReadInv, Loading, HasRead, Cache!StaleIsTransient, Cache!OneLoadAtATime, Cache!MustNotStore
<1>4. CASE Cache!Reset(w)
  <2>1. /\ UNCHANGED <<truth, store, floor, gen, loadedIn, val, invalidated>> /\ resetVersion' = resetVersion + 1
        /\ writes' = [writes EXCEPT ![w] = truth]
    BY <1>4 DEF Cache!Reset, Cache!NextGeneration
  <2> QED
    BY <1>0, <2>1 DEF FreshInv, LoadInv, ReadInv, Loading, HasRead, Cache!StaleIsTransient, Cache!OneLoadAtATime, Cache!MustNotStore
<1> QED
  BY <1>1, <1>2, <1>3, <1>4

\* StaleIsTransient and OneLoadAtATime: whatever loads, writes, del() and reset()
\* race, a value older than a del() that returned is one that a load under way
\* will take out again, and callers share one load but for those a reset() divides
\* (CacheService.remember()).
THEOREM CacheStaysFresh ==
  ASSUME Cache!CacheAssumption
  PROVE  Cache!Spec => []Cache!StaleIsTransient /\ []Cache!OneLoadAtATime
<1>1. Cache!Init => CacheInv
  BY CacheInitial
<1>2. CacheInv /\ [Cache!Next]_(Cache!vars) => CacheInv'
  <2> SUFFICES ASSUME CacheInv, [Cache!Next]_(Cache!vars) PROVE CacheInv'
    OBVIOUS
  <2>1. CASE UNCHANGED Cache!vars
    BY <2>1 DEF Cache!vars, CacheInv, CacheTyped, FreshInv, LoadInv, ReadInv, Loading, HasRead, Cache!StaleIsTransient, Cache!OneLoadAtATime,
      Cache!MustNotStore, Cache!bookkeeping, Cache!history
  <2> QED
    BY <2>1, CacheTypedStep, OneMoves, WritersMove DEF CacheInv, Cache!Next
<1>3. CacheInv => Cache!StaleIsTransient /\ Cache!OneLoadAtATime
  BY DEF CacheInv, FreshInv
<1> QED
  BY <1>1, <1>2, <1>3, PTL DEF Cache!Spec

---------------------------------------------------------------------------
\* SagaBus.  LineInv: executions that are not over nest in a line below
\* one that joined the chain of its saga (HomeInv), and a chain is in the
\* order of its executions (ChainInv).

CONSTANTS Sagas, Types, Events, Matches, Republishes, Publishers, Publishes, MaxDepth
VARIABLES execs, tail, asked, life, drain, before
Saga == INSTANCE SagaBus

SagaAssumptions == Saga!SagaAssumption /\ Saga!PublishedAlone

Execution ==
  [route : Saga!Routes, path : Seq(Nat), prev : Nat, chained : BOOLEAN, awaits : SUBSET Nat,
   status : {"queued", "running", "done", "failed"}, todo : SUBSET Events]
SagaTyped ==
  /\ execs \in Seq(Execution) /\ tail \in [Sagas -> Nat]
  /\ \A i \in Saga!Ids :
       /\ \A k \in 1 .. Len(execs[i].path) : execs[i].path[k] \in 1 .. (i - 1)
       /\ execs[i].awaits \subseteq Saga!Ids /\ execs[i].todo \subseteq Republishes[execs[i].route]

Alive(i) == execs[i].status \in {"queued", "running"}
Within(i) == {execs[i].path[k] : k \in 1 .. Len(execs[i].path)}
Around(i) == {i} \cup Within(i)

\* What encloses an execution that is not over awaits it, or an execution around it.
NestInv ==
  \A i \in Saga!Ids : Alive(i) => \A m \in Within(i) :
    execs[m].status = "running" /\ \E c \in Around(i) : execs[m].awaits = {c}
\* Paths are complete, and what is not over inside one execution is nested in a line.
LineInv ==
  /\ \A i \in Saga!Ids : \A m \in Within(i) : Within(m) \subseteq Within(i)
  /\ \A i, j \in Saga!Ids : Alive(i) /\ Alive(j) /\ Around(i) \cap Around(j) # {} =>
       i = j \/ i \in Within(j) \/ j \in Within(i)
\* An execution that did not join the chain of its saga is inside one that did.
HomeInv ==
  \A i \in Saga!Ids : Alive(i) =>
    \E c \in Around(i) : execs[c].chained /\ Saga!SagaOf(c) = Saga!SagaOf(i)
\* The chain of a saga: when one has begun, those before it are over.
ChainInv ==
  /\ \A i \in Saga!Ids : execs[i].status = "queued" => execs[i].chained
  /\ life \in {"ready", "stopping"} =>
       /\ \A s \in Sagas : tail[s] <= Len(execs)
       /\ \A i \in Saga!Ids : execs[i].chained => i <= tail[Saga!SagaOf(i)]
       /\ \A i, j \in Saga!Ids :
            i < j /\ execs[i].chained /\ execs[j].chained /\ Saga!SagaOf(i) = Saga!SagaOf(j) =>
              i <= execs[j].prev /\ (execs[j].status # "queued" => ~Alive(i))
       /\ \A j \in Saga!Ids : execs[j].chained /\ execs[j].prev # 0 =>
            /\ execs[j].prev < j /\ execs[execs[j].prev].chained
            /\ Saga!SagaOf(execs[j].prev) = Saga!SagaOf(j)
       /\ \A s \in Sagas : tail[s] # 0 => execs[tail[s]].chained /\ Saga!SagaOf(tail[s]) = s
\* What the drain awaits.
SagaDrainInv ==
  /\ before \subseteq Saga!Ids /\ \A i \in before : 1 .. i \subseteq before
  /\ life = "stopping" => \A i \in before : execs[i].chained /\ Alive(i) => i \in drain
  /\ life = "stopped" => \A i \in before : ~Alive(i)
  /\ life \in {"ready", "stopping", "stopped", "timedout"}

SagaInv == SagaTyped /\ NestInv /\ LineInv /\ HomeInv /\ ChainInv /\ SagaDrainInv

LEMMA SagaInitial == SagaAssumptions /\ Saga!Init => SagaInv
BY DEF SagaAssumptions, Saga!SagaAssumption, Saga!Init, Saga!Ids, SagaInv, SagaTyped, NestInv, LineInv, HomeInv, ChainInv, SagaDrainInv, Around, Within, Alive

\* What a dispatch adds.
AddedWell(path, new, N, T) ==
  /\ new \in Seq(Execution) /\ T \in [Sagas -> Nat]
  /\ \A k \in 1 .. N :
       /\ new[k].path = path /\ new[k].awaits = {} /\ new[k].todo \subseteq Republishes[new[k].route]
       /\ new[k].status \in {"queued", "running"} =>
            new[k].chained \/ \E l \in 1 .. Len(path) : Saga!SagaOf(path[l]) = new[k].route[1]
       /\ new[k].chained <=> new[k].status = "queued"
       /\ new[k].chained => new[k].prev = tail[new[k].route[1]] /\ T[new[k].route[1]] = Len(execs) + k
  /\ \A j, k \in 1 .. N : new[j].route[1] = new[k].route[1] => j = k
  /\ \A s \in Sagas : (\A k \in 1 .. N : ~(new[k].chained /\ new[k].route[1] = s)) => T[s] = tail[s]

LEMMA DispatchAdds ==
  ASSUME SagaAssumptions, SagaTyped, NEW e \in Events, NEW path \in Seq(Nat),
         path = <<>> \/ Len(Matches[e]) <= 1, \A k \in 1 .. Len(path) : path[k] \in Saga!Ids,
         NEW new, new = Saga!NewExecs(e, path), NEW N, N = Len(new), NEW T, T = Saga!TailAfter(new)
  PROVE  AddedWell(path, new, N, T)
<1> DEFINE routes == Matches[e]
           n == Len(routes)
<1>1. routes \in Seq(Saga!Routes) /\ n \in Nat /\ DOMAIN routes = 1 .. n
  BY DEF SagaAssumptions, Saga!SagaAssumption
<1>2. \A j, k \in 1 .. n : routes[j][1] = routes[k][1] => j = k
  BY <1>1 DEF SagaAssumptions, Saga!PublishedAlone
<1>3. \A k \in 1 .. n : routes[k] \in Saga!Routes /\ routes[k][1] \in Sagas
  BY <1>1 DEF Saga!Routes
<1>4. \A k \in 1 .. n : Saga!Previous(routes, k) = tail[routes[k][1]]
  <2> SUFFICES ASSUME NEW k \in 1 .. n PROVE {j \in 1 .. (k - 1) : routes[j][1] = routes[k][1]} = {}
    BY DEF Saga!Previous
  <2> QED
    BY <1>2
<1> DEFINE rejected(k) == Saga!Rejected(routes[k], path)
           chained(k) == ~rejected(k) /\ routes[k][1] \notin Saga!ActiveSagas(path)
           entry(k) ==
             [route |-> routes[k], path |-> path, chained |-> chained(k),
              prev |-> IF chained(k) THEN Saga!Previous(routes, k) ELSE 0,
              status |-> IF rejected(k) THEN "failed" ELSE IF chained(k) THEN "queued" ELSE "running",
              awaits |-> {}, todo |-> IF rejected(k) THEN {} ELSE Republishes[routes[k]]]
<1>5. new = [k \in 1 .. n |-> entry(k)]
  BY DEF Saga!NewExecs
<1>14. N = n /\ DOMAIN new = 1 .. n
  <2> HIDE DEF entry, n
  <2>1. new = [k \in 1 .. n |-> entry(k)]
    BY <1>5
  <2> QED
    BY <1>1, <2>1
<1>6. \A k \in 1 .. n :
        /\ new[k].chained \in BOOLEAN /\ new[k].status \in {"failed", "queued", "running"}
        /\ new[k].chained <=> new[k].status = "queued"
        /\ new[k].status = "running" => routes[k][1] \in Saga!ActiveSagas(path)
        /\ new[k].todo \in {{}, Republishes[routes[k]]}
        /\ new[k].route = routes[k] /\ new[k].path = path /\ new[k].awaits = {}
        /\ new[k].prev = IF new[k].chained THEN tail[routes[k][1]] ELSE 0
  <2> SUFFICES ASSUME NEW k \in 1 .. n PROVE
        /\ new[k].chained \in BOOLEAN /\ new[k].status \in {"failed", "queued", "running"}
        /\ new[k].chained <=> new[k].status = "queued"
        /\ new[k].status = "running" => routes[k][1] \in Saga!ActiveSagas(path)
        /\ new[k].todo \in {{}, Republishes[routes[k]]}
        /\ new[k].route = routes[k] /\ new[k].path = path /\ new[k].awaits = {}
        /\ new[k].prev = IF new[k].chained THEN tail[routes[k][1]] ELSE 0
    OBVIOUS
  <2>1. new[k] = entry(k)
    <3> HIDE DEF entry
    <3> QED BY <1>5
  <2>2. rejected(k) \in BOOLEAN /\ chained(k) \in BOOLEAN /\ (chained(k) => ~rejected(k))
        /\ (~rejected(k) /\ ~chained(k) => routes[k][1] \in Saga!ActiveSagas(path))
    BY DEF Saga!Rejected
  <2> HIDE DEF rejected, chained, routes
  <2> QED
    BY <1>4, <2>1, <2>2
<1> HIDE DEF entry
<1>7. \A r \in Saga!Routes : Republishes[r] \subseteq Events
  BY DEF SagaAssumptions, Saga!SagaAssumption
<1>8. new \in Seq(Execution)
  <2> SUFFICES ASSUME NEW k \in 1 .. n PROVE new[k] \in Execution
    <3>1. new = [k \in 1 .. n |-> new[k]] /\ n \in Nat
      BY <1>1, <1>5
    <3> HIDE DEF n
    <3> QED
      BY <3>1
  <2>1. tail[routes[k][1]] \in Nat
    BY <1>3 DEF SagaTyped
  <2>2. new[k] = [route |-> routes[k], path |-> path, prev |-> new[k].prev, chained |-> new[k].chained,
                  awaits |-> {}, status |-> new[k].status, todo |-> new[k].todo]
    <3>1. new[k] = entry(k)
      BY <1>5
    <3> HIDE DEF routes, rejected, chained
    <3> QED
      BY <3>1, <1>6 DEF entry
  <2> HIDE DEF routes, n
  <2> QED
    BY <1>3, <1>6, <1>7, <2>1, <2>2 DEF Execution
<1>9. \A s \in Sagas : \A k \in 1 .. n : new[k].chained /\ routes[k][1] = s => T[s] = Len(execs) + k
  <2> SUFFICES ASSUME NEW s \in Sagas, NEW k \in 1 .. n, new[k].chained, routes[k][1] = s
               PROVE  T[s] = Len(execs) + k
    OBVIOUS
  <2> DEFINE mine == {l \in 1 .. N : new[l].route[1] = s /\ new[l].chained}
  <2>1. mine = {k}
    BY <1>2, <1>6, <1>14
  <2>2. (CHOOSE l \in mine : \A q \in mine : q <= l) = k
    BY <2>1
  <2> QED
    BY <2>1, <2>2 DEF Saga!TailAfter
<1>10. \A s \in Sagas : (\A k \in 1 .. n : ~(new[k].chained /\ routes[k][1] = s)) => T[s] = tail[s]
  <2> SUFFICES ASSUME NEW s \in Sagas, \A k \in 1 .. n : ~(new[k].chained /\ routes[k][1] = s)
               PROVE  T[s] = tail[s]
    OBVIOUS
  <2>1. {l \in 1 .. N : new[l].route[1] = s /\ new[l].chained} = {}
    BY <1>6, <1>14
  <2> QED
    BY <2>1 DEF Saga!TailAfter
<1>11. T \in [Sagas -> Nat]
  <2>1. T = [s \in Sagas |-> T[s]]
    BY DEF Saga!TailAfter
  <2>2. ASSUME NEW s \in Sagas PROVE T[s] \in Nat
    <3>1. CASE \E k \in 1 .. n : new[k].chained /\ routes[k][1] = s
      BY <1>9, <3>1 DEF SagaTyped
    <3>2. CASE \A k \in 1 .. n : ~(new[k].chained /\ routes[k][1] = s)
      BY <1>10, <3>2 DEF SagaTyped
    <3> QED
      BY <3>1, <3>2
  <2> QED
    BY <2>1, <2>2
<1>12. \A s : s \in Saga!ActiveSagas(path) => \E l \in 1 .. Len(path) : Saga!SagaOf(path[l]) = s
  BY DEF Saga!ActiveSagas, Saga!ActiveRoutes, Saga!Route, Saga!SagaOf
<1>13. \A k \in 1 .. n : new[k].todo \subseteq Republishes[new[k].route]
  BY <1>6
<1> HIDE DEF routes, n
<1>15. \A k \in 1 .. N :
         /\ new[k].path = path /\ new[k].awaits = {} /\ new[k].todo \subseteq Republishes[new[k].route]
         /\ new[k].chained <=> new[k].status = "queued"
         /\ new[k].chained => /\ new[k].prev = tail[new[k].route[1]]
                              /\ T[new[k].route[1]] = Len(execs) + k
  BY <1>3, <1>6, <1>9, <1>13, <1>14
<1>16. \A k \in 1 .. N : new[k].status \in {"queued", "running"} =>
         new[k].chained \/ \E l \in 1 .. Len(path) : Saga!SagaOf(path[l]) = new[k].route[1]
  BY <1>6, <1>12, <1>14
<1>17. \A j, k \in 1 .. N : new[j].route[1] = new[k].route[1] => j = k
  BY <1>2, <1>6, <1>14
<1>18. \A s \in Sagas : (\A k \in 1 .. N : ~(new[k].chained /\ new[k].route[1] = s)) =>
         T[s] = tail[s]
  BY <1>6, <1>10, <1>14
<1> QED
  BY ZenonT(60), <1>8, <1>11, <1>15, <1>16, <1>17, <1>18 DEF AddedWell

\* All executions stay what they are, but for status, awaits and todo.
Same(i) ==
  /\ execs'[i].route = execs[i].route /\ execs'[i].path = execs[i].path
  /\ execs'[i].prev = execs[i].prev /\ execs'[i].chained = execs[i].chained

LEMMA SagaReads ==
  ASSUME SagaTyped
  PROVE  /\ Len(execs) \in Nat /\ Saga!Ids = 1 .. Len(execs) /\ DOMAIN execs = Saga!Ids
         /\ \A i \in Saga!Ids :
              /\ execs[i] \in Execution /\ Saga!SagaOf(i) \in Sagas
              /\ Alive(i) <=> ~Saga!Settled(i)
              /\ Within(i) \subseteq 1 .. (i - 1) /\ Within(i) \subseteq Saga!Ids
              /\ Len(execs[i].path) \in Nat
<1>1. Len(execs) \in Nat /\ Saga!Ids = 1 .. Len(execs) /\ DOMAIN execs = Saga!Ids
  BY DEF SagaTyped, Saga!Ids
<1>2. ASSUME NEW i \in Saga!Ids PROVE execs[i] \in Execution
  BY <1>1 DEF SagaTyped
<1>3. ASSUME NEW i \in Saga!Ids
      PROVE  Saga!SagaOf(i) \in Sagas /\ (Alive(i) <=> ~Saga!Settled(i)) /\ Len(execs[i].path) \in Nat
  BY <1>2 DEF Execution, Saga!Routes, Saga!SagaOf, Alive, Saga!Settled
<1>4. ASSUME NEW i \in Saga!Ids PROVE Within(i) \subseteq 1 .. (i - 1) /\ Within(i) \subseteq Saga!Ids
  BY <1>1 DEF SagaTyped, Within
<1> QED
  BY <1>1, <1>2, <1>3, <1>4

\* What encloses an execution that is not over is not done with its dispatch.
LEMMA InsideAwaits ==
  ASSUME SagaInv, NEW q \in Saga!Ids,
         execs[q].awaits = {} \/ (\E j \in execs[q].awaits : Saga!Failed(j)) \/ \A j \in execs[q].awaits : Saga!Settled(j)
  PROVE  \A i \in Saga!Ids : Alive(i) => q \notin Within(i)
<1> SUFFICES ASSUME NEW i \in Saga!Ids, Alive(i), q \in Within(i) PROVE FALSE
  OBVIOUS
<1>1. PICK c \in Around(i) : execs[q].awaits = {c}
  BY DEF SagaInv, NestInv
<1>2. Alive(c)
  BY DEF SagaInv, NestInv, Around, Alive
<1> QED
  BY <1>1, <1>2 DEF Alive, Saga!Settled, Saga!Failed

\* A handler that begins, goes on or ends.
LEMMA OneExecution ==
  ASSUME SagaAssumptions, SagaInv, NEW q \in Saga!Ids, UNCHANGED <<tail, life, drain, before>>,
         execs' \in Seq(Execution), Len(execs') = Len(execs), \A i \in Saga!Ids : Same(i),
         \A i \in Saga!Ids : i # q => execs'[i] = execs[i],
         execs'[q].awaits = {} \/ execs'[q].awaits = execs[q].awaits, execs'[q].todo \subseteq execs[q].todo,
         \/ /\ execs[q].status = "queued" /\ execs'[q].status = "running" /\ Saga!MayStart(q)
            /\ execs'[q].awaits = execs[q].awaits
         \/ /\ execs[q].status = "running" /\ execs'[q].status \in {"running", "done", "failed"}
            /\ \A i \in Saga!Ids : Alive(i) => q \notin Within(i)
  PROVE  SagaInv'
<1>0. /\ Len(execs) \in Nat /\ Saga!Ids = 1 .. Len(execs) /\ Saga!Ids' = Saga!Ids
      /\ \A i \in Saga!Ids : Within(i) \subseteq 1 .. (i - 1) /\ Within(i) \subseteq Saga!Ids
      /\ \A i \in Saga!Ids : Alive(i) <=> ~Saga!Settled(i)
  BY SagaReads DEF SagaInv, Saga!Ids
<1>1. \A i \in Saga!Ids : Within(i)' = Within(i) /\ Around(i)' = Around(i) /\ Saga!SagaOf(i)' = Saga!SagaOf(i)
        /\ execs'[i].chained = execs[i].chained /\ execs'[i].prev = execs[i].prev
  BY DEF Same, Within, Around, Saga!SagaOf
<1>2. \A i \in Saga!Ids : Alive(i)' => Alive(i)
  BY DEF Alive
<1>3. SagaTyped'
  <2> SUFFICES ASSUME NEW i \in Saga!Ids
               PROVE  /\ \A k \in 1 .. Len(execs'[i].path) : execs'[i].path[k] \in 1 .. (i - 1)
                      /\ execs'[i].awaits \subseteq Saga!Ids /\ execs'[i].todo \subseteq Republishes[execs'[i].route]
    BY <1>0 DEF SagaInv, SagaTyped
  <2>1. /\ \A k \in 1 .. Len(execs[i].path) : execs[i].path[k] \in 1 .. (i - 1)
        /\ execs[i].awaits \subseteq Saga!Ids /\ execs[i].todo \subseteq Republishes[execs[i].route]
    BY DEF SagaInv, SagaTyped
  <2>2. execs'[i].awaits \in {{}, execs[i].awaits} /\ execs'[i].todo \subseteq execs[i].todo
    OBVIOUS
  <2> QED
    BY <2>1, <2>2 DEF Same
<1>4. NestInv'
  <2> SUFFICES ASSUME NEW i \in Saga!Ids, Alive(i)', NEW m \in Within(i)
               PROVE  execs'[m].status = "running" /\ \E c \in Around(i) : execs'[m].awaits = {c}
    BY <1>0, <1>1 DEF NestInv
  <2>1. m \in Saga!Ids /\ execs[m].status = "running" /\ \E c \in Around(i) : execs[m].awaits = {c}
    BY <1>0, <1>2 DEF SagaInv, NestInv
  <2>2. m # q
    BY <1>2, <2>1
  <2> QED
    BY <2>1, <2>2
<1>5. LineInv'
  BY <1>0, <1>1, <1>2 DEF SagaInv, LineInv
<1>6. HomeInv'
  <2> SUFFICES ASSUME NEW i \in Saga!Ids, Alive(i)
               PROVE  \E c \in Around(i) : execs'[c].chained /\ Saga!SagaOf(c)' = Saga!SagaOf(i)'
    BY <1>0, <1>1, <1>2 DEF HomeInv
  <2>1. PICK c \in Around(i) : execs[c].chained /\ Saga!SagaOf(c) = Saga!SagaOf(i)
    BY DEF SagaInv, HomeInv
  <2>2. c \in Saga!Ids
    BY <1>0 DEF Around
  <2> QED
    BY <1>1, <2>1, <2>2
<1>7. ChainInv'
  <2>1. \A i \in Saga!Ids : execs'[i].status = "queued" => execs'[i].chained
    BY <1>1 DEF SagaInv, ChainInv
  <2>2. ASSUME life \in {"ready", "stopping"}, NEW i \in Saga!Ids, NEW j \in Saga!Ids,
               i < j, execs[i].chained, execs[j].chained, Saga!SagaOf(i) = Saga!SagaOf(j)
        PROVE  execs'[j].status # "queued" => ~Alive(i)'
    <3>0. i <= execs[j].prev /\ (execs[j].status # "queued" => ~Alive(i))
      BY <2>2 DEF SagaInv, ChainInv
    <3>1. CASE execs[j].status # "queued"
      BY <1>2, <3>0, <3>1
    <3>2. CASE j = q /\ execs[j].status = "queued"
      <4>1. execs[j].prev \in {0} \cup {p \in Saga!Ids : Saga!Settled(p)}
        BY <3>2 DEF Saga!MayStart
      <4>2. execs[j].prev # 0 /\ execs[j].prev \in Saga!Ids /\ Saga!Settled(execs[j].prev)
        BY <1>0, <3>0, <4>1
      <4>3. execs[execs[j].prev].chained /\ Saga!SagaOf(execs[j].prev) = Saga!SagaOf(j)
        BY <2>2, <4>2 DEF SagaInv, ChainInv
      <4>4. CASE i = execs[j].prev
        BY <1>0, <1>2, <4>2, <4>4
      <4>5. CASE i < execs[j].prev
        BY <1>0, <1>2, <2>2, <4>2, <4>3, <4>5 DEF SagaInv, ChainInv, Saga!Settled
      <4> QED
        BY <1>0, <3>0, <4>2, <4>4, <4>5
    <3>3. CASE j # q /\ execs[j].status = "queued"
      BY <3>3
    <3> QED
      BY <3>1, <3>2, <3>3
  <2>3. ASSUME life \in {"ready", "stopping"}, NEW s \in Sagas
        PROVE  tail[s] <= Len(execs) /\ (tail[s] # 0 => execs'[tail[s]].chained /\ Saga!SagaOf(tail[s])' = s)
    <3>1. tail[s] \in Nat /\ tail[s] <= Len(execs) /\ (tail[s] # 0 => execs[tail[s]].chained /\ Saga!SagaOf(tail[s]) = s)
      BY <2>3 DEF SagaInv, ChainInv, SagaTyped
    <3>2. tail[s] # 0 => tail[s] \in Saga!Ids
      BY <1>0, <3>1
    <3> QED
      BY <1>1, <3>1, <3>2
  <2>4. ASSUME life \in {"ready", "stopping"}, NEW j \in Saga!Ids, execs[j].chained
        PROVE  /\ j <= tail[Saga!SagaOf(j)]
               /\ execs[j].prev # 0 =>
                    /\ execs[j].prev < j /\ execs'[execs[j].prev].chained
                    /\ Saga!SagaOf(execs[j].prev)' = Saga!SagaOf(j)
    <3>1. /\ j <= tail[Saga!SagaOf(j)] /\ execs[j].prev \in Nat
          /\ execs[j].prev # 0 =>
               /\ execs[j].prev < j /\ execs[execs[j].prev].chained
               /\ Saga!SagaOf(execs[j].prev) = Saga!SagaOf(j)
      BY <2>4, SagaReads DEF SagaInv, ChainInv, Execution
    <3>2. execs[j].prev # 0 => execs[j].prev \in Saga!Ids
      BY <1>0, <3>1
    <3> QED
      BY <1>1, <3>1, <3>2
  <2>5. life \in {"ready", "stopping"} => \A i, j \in Saga!Ids :
            i < j /\ execs[i].chained /\ execs[j].chained /\ Saga!SagaOf(i) = Saga!SagaOf(j) =>
              i <= execs[j].prev /\ (execs'[j].status # "queued" => ~Alive(i)')
    BY <2>2 DEF SagaInv, ChainInv
  <2>6. \A i \in Saga!Ids : Saga!SagaOf(i)' = Saga!SagaOf(i) /\ execs'[i].chained = execs[i].chained /\ execs'[i].prev = execs[i].prev
    BY <1>1
  <2> QED
    BY <1>0, <2>1, <2>3, <2>4, <2>5, <2>6 DEF ChainInv
<1>8. SagaDrainInv'
  BY <1>0, <1>1, <1>2 DEF SagaInv, SagaDrainInv
<1> QED
  BY <1>3, <1>4, <1>5, <1>6, <1>7, <1>8 DEF SagaInv

\* The executions after a dispatch, of which q awaits the new ones, or nobody inside.
Dispatched(q, new) ==
  /\ Len(execs') = Len(execs) + Len(new) /\ execs' \in Seq(Execution)
  /\ \A i \in 1 .. Len(execs) :
       /\ Same(i) /\ execs'[i].status = execs[i].status /\ execs'[i].todo \subseteq execs[i].todo
       /\ execs'[i].awaits = IF i = q THEN (Len(execs) + 1) .. (Len(execs) + Len(new)) ELSE execs[i].awaits
  /\ \A k \in 1 .. Len(new) : execs'[Len(execs) + k] = new[k]

LEMMA DispatchKeeps ==
  ASSUME SagaAssumptions, SagaInv, NEW e \in Events, NEW q \in Nat, NEW path \in Seq(Nat),
         NEW n, n = Len(execs), NEW W, W = IF q = 0 THEN {} ELSE Around(q), NEW N, NEW new, N = Len(new), new = Saga!NewExecs(e, path), tail' = Saga!TailAfter(new), UNCHANGED <<life, drain, before>>,
         Dispatched(q, new),
         \/ q = 0 /\ path = <<>>
         \/ /\ q \in Saga!Ids /\ execs[q].status = "running" /\ execs[q].awaits = {}
            /\ path = Append(execs[q].path, q) /\ Len(Matches[e]) <= 1 /\ Len(new) <= 1
  PROVE  SagaInv'
<1>0. /\ n \in Nat /\ Saga!Ids = 1 .. n
      /\ \A i \in 1 .. n : Within(i) \subseteq 1 .. (i - 1) /\ Within(i) \subseteq 1 .. n /\ Saga!SagaOf(i) \in Sagas
      /\ \A i \in 1 .. n : Len(execs[i].path) \in Nat /\ execs[i].path \in Seq(Nat)
  BY SagaReads DEF SagaInv, Execution
<1>1. {path[l] : l \in 1 .. Len(path)} = W
  <2>1. CASE q = 0
    BY <2>1, <1>0
  <2>2. CASE q # 0
    <3>1. /\ Len(path) = Len(execs[q].path) + 1 /\ path[Len(path)] = q
          /\ \A l \in 1 .. Len(execs[q].path) : path[l] = execs[q].path[l]
      <4>1. path = Append(execs[q].path, q) /\ execs[q].path \in Seq(Nat) /\ q \in Nat
        BY <2>2, <1>0
      <4> QED
        BY ONLY <4>1
    <3>2. \A l \in 1 .. Len(path) : l = Len(path) \/ l \in 1 .. Len(execs[q].path)
      BY <3>1, <2>2, <1>0
    <3>3. ASSUME NEW l \in 1 .. Len(path) PROVE path[l] \in Around(q)
      BY <3>1, <3>2 DEF Around, Within
    <3>4. ASSUME NEW x \in Around(q) PROVE \E l \in 1 .. Len(path) : path[l] = x
      <4>1. Len(path) \in 1 .. Len(path) /\ 1 .. Len(execs[q].path) \subseteq 1 .. Len(path)
        BY <2>2, <3>1, <1>0
      <4>2. x = q \/ \E l \in 1 .. Len(execs[q].path) : x = execs[q].path[l]
        BY DEF Around, Within
      <4> QED
        BY <3>1, <4>1, <4>2
    <3> QED
      BY <2>2, <3>3, <3>4
  <2> QED
    BY <2>1, <2>2
<1>2. W \subseteq 1 .. n
  BY <1>0 DEF Around
<1>3. /\ N \in Nat
      /\ \A k \in 1 .. N :
           /\ new[k].path = path /\ new[k].awaits = {} /\ new[k].todo \subseteq Republishes[new[k].route]
           /\ new[k].status \in {"queued", "running"} =>
                new[k].chained \/ \E m \in W : Saga!SagaOf(m) = new[k].route[1]
           /\ new[k].chained <=> new[k].status = "queued"
           /\ new[k].chained => new[k].prev = tail[new[k].route[1]] /\ tail'[new[k].route[1]] = n + k
           /\ new[k].route[1] \in Sagas
      /\ \A j, k \in 1 .. N : new[j].route[1] = new[k].route[1] => j = k
      /\ \A s \in Sagas : (\A k \in 1 .. N : ~(new[k].chained /\ new[k].route[1] = s)) => tail'[s] = tail[s]
      /\ tail' \in [Sagas -> Nat]
  <2>1. \A k \in 1 .. Len(path) : path[k] \in Saga!Ids
    BY <1>0, <1>1, <1>2
  <2>2. path = <<>> \/ Len(Matches[e]) <= 1
    OBVIOUS
  <2>3. /\ new \in Seq(Execution) /\ tail' \in [Sagas -> Nat]
        /\ \A k \in 1 .. N :
              /\ new[k].path = path /\ new[k].awaits = {} /\ new[k].todo \subseteq Republishes[new[k].route]
              /\ new[k].status \in {"queued", "running"} =>
                   new[k].chained \/ \E l \in 1 .. Len(path) : Saga!SagaOf(path[l]) = new[k].route[1]
              /\ new[k].chained <=> new[k].status = "queued"
              /\ new[k].chained => /\ new[k].prev = tail[new[k].route[1]]
                                   /\ tail'[new[k].route[1]] = Len(execs) + k
        /\ \A j, k \in 1 .. N : new[j].route[1] = new[k].route[1] => j = k
        /\ \A s \in Sagas : (\A k \in 1 .. N : ~(new[k].chained /\ new[k].route[1] = s)) => tail'[s] = tail[s]
    <3>1. SagaTyped
      BY DEF SagaInv
    <3>2. SagaAssumptions /\ e \in Events /\ path \in Seq(Nat) /\ new = Saga!NewExecs(e, path) /\ N = Len(new)
          /\ tail' = Saga!TailAfter(new)
      OBVIOUS
    <3>3. AddedWell(path, new, N, tail')
      BY <3>1, <3>2, <2>1, <2>2, DispatchAdds
    <3> QED
      BY <3>3 DEF AddedWell
  <2>4. N \in Nat /\ \A k \in 1 .. N : new[k] \in Execution
    BY <2>3
  <2>5. \A x \in Execution : x.route[1] \in Sagas
    BY DEF Execution, Saga!Routes
  <2>6. \A k \in 1 .. N : new[k].route[1] \in Sagas
    BY <2>4, <2>5
  <2>7. \A l \in 1 .. Len(path) : path[l] \in W
    BY <1>1
  <2>8. \A k \in 1 .. N : new[k].status \in {"queued", "running"} =>
                new[k].chained \/ \E m \in W : Saga!SagaOf(m) = new[k].route[1]
    <3> SUFFICES ASSUME NEW k \in 1 .. N, new[k].status \in {"queued", "running"}, ~new[k].chained
                 PROVE  \E m \in W : Saga!SagaOf(m) = new[k].route[1]
      OBVIOUS
    <3>1. PICK l \in 1 .. Len(path) : Saga!SagaOf(path[l]) = new[k].route[1]
      BY <2>3
    <3> QED
      BY <2>7, <3>1
  <2>9. n = Len(execs)
    OBVIOUS
  <2>10. \A k \in 1 .. N :
           /\ new[k].path = path /\ new[k].awaits = {} /\ new[k].todo \subseteq Republishes[new[k].route]
           /\ new[k].chained <=> new[k].status = "queued"
           /\ new[k].chained => new[k].prev = tail[new[k].route[1]] /\ tail'[new[k].route[1]] = n + k
    BY ONLY <2>3, <2>9
  <2> QED
    BY ONLY <2>3, <2>4, <2>6, <2>8, <2>10
<1>4. Saga!Ids' = 1 .. (n + N)
  BY DEF Saga!Ids, Dispatched
<1>5. \A i \in 1 .. n : /\ Within(i)' = Within(i) /\ Around(i)' = Around(i) /\ Saga!SagaOf(i)' = Saga!SagaOf(i)
                        /\ (Alive(i)' <=> Alive(i)) /\ execs'[i].status = execs[i].status
                        /\ execs'[i].route[1] = Saga!SagaOf(i)
                        /\ execs'[i].chained = execs[i].chained /\ execs'[i].prev = execs[i].prev
                        /\ (i # q => execs'[i].awaits = execs[i].awaits)
  <2> SUFFICES ASSUME NEW i \in 1 .. n
               PROVE  /\ Within(i)' = Within(i) /\ Around(i)' = Around(i) /\ Saga!SagaOf(i)' = Saga!SagaOf(i)
                      /\ (Alive(i)' <=> Alive(i)) /\ execs'[i].status = execs[i].status
                      /\ execs'[i].route[1] = Saga!SagaOf(i)
                      /\ execs'[i].chained = execs[i].chained /\ execs'[i].prev = execs[i].prev
                      /\ (i # q => execs'[i].awaits = execs[i].awaits)
    OBVIOUS
  <2>1. /\ execs'[i].path = execs[i].path /\ execs'[i].route = execs[i].route /\ execs'[i].status = execs[i].status
        /\ execs'[i].chained = execs[i].chained /\ execs'[i].prev = execs[i].prev
        /\ (i # q => execs'[i].awaits = execs[i].awaits)
    BY DEF Dispatched, Same
  <2>2. Within(i)' = Within(i) /\ Around(i)' = Around(i)
    BY <2>1 DEF Within, Around
  <2> QED
    BY <2>1, <2>2 DEF Saga!SagaOf, Alive
<1>6. \A k \in 1 .. N : /\ Within(n + k)' = W /\ Around(n + k)' = {n + k} \cup W /\ Saga!SagaOf(n + k)' = new[k].route[1]
                        /\ execs'[n + k] = new[k]
                        /\ (Alive(n + k)' <=> new[k].status \in {"queued", "running"})
  <2> SUFFICES ASSUME NEW k \in 1 .. N
               PROVE  /\ Within(n + k)' = W /\ Around(n + k)' = {n + k} \cup W /\ Saga!SagaOf(n + k)' = new[k].route[1]
                      /\ execs'[n + k] = new[k]
                      /\ (Alive(n + k)' <=> new[k].status \in {"queued", "running"})
    OBVIOUS
  <2>1. execs'[n + k] = new[k] /\ new[k].path = path
    <3>1. n = Len(execs) /\ N = Len(new)
      OBVIOUS
    <3>2. \A l \in 1 .. Len(new) : execs'[Len(execs) + l] = new[l]
      BY DEF Dispatched
    <3> QED
      BY ONLY <1>3, <3>1, <3>2, k \in 1 .. N
  <2>2. Within(n + k)' = W
    BY <1>1, <2>1 DEF Within
  <2>3. Around(n + k)' = {n + k} \cup W
    BY <2>2 DEF Around
  <2>4. Saga!SagaOf(n + k)' = new[k].route[1]
    BY <2>1 DEF Saga!SagaOf
  <2>5. Alive(n + k)' <=> new[k].status \in {"queued", "running"}
    BY <2>1 DEF Alive
  <2> QED
    BY <2>1, <2>2, <2>3, <2>4, <2>5
<1>7. \A i \in 1 .. n : Alive(i) => q \notin Within(i)
  <2>1. CASE q = 0
    BY <1>0, <2>1
  <2>2. CASE q \in Saga!Ids /\ execs[q].awaits = {}
    BY <1>0, <2>2, InsideAwaits
  <2> QED
    BY <1>0, <2>1, <2>2
<1>8. q # 0 => /\ q \in 1 .. n /\ Alive(q) /\ N <= 1 /\ W = Around(q) /\ execs[q].status = "running"
               /\ execs'[q].awaits = (n + 1) .. (n + N)
  BY <1>0 DEF Alive, Dispatched
<1>9. \A j \in 1 .. (n + N) : j \in 1 .. n \/ \E k \in 1 .. N : j = n + k
  <2> SUFFICES ASSUME NEW j \in 1 .. (n + N), j \notin 1 .. n PROVE \E k \in 1 .. N : j = n + k
    OBVIOUS
  <2>1. j - n \in 1 .. N /\ j = n + (j - n)
    BY <1>0, <1>3
  <2> QED
    BY <2>1
<1>10. \A k \in 1 .. N : n + k \in 1 .. (n + N) /\ n + k \notin 1 .. n
  BY <1>0, <1>3
<1>11. 1 .. n \subseteq 1 .. (n + N)
  BY <1>0, <1>3
<1>12. SagaTyped'
  <2>1. ASSUME NEW i \in 1 .. n
        PROVE  /\ \A k \in 1 .. Len(execs'[i].path) : execs'[i].path[k] \in 1 .. (i - 1)
               /\ execs'[i].awaits \subseteq 1 .. (n + N) /\ execs'[i].todo \subseteq Republishes[execs'[i].route]
    <3>1. /\ \A k \in 1 .. Len(execs[i].path) : execs[i].path[k] \in 1 .. (i - 1)
          /\ execs[i].awaits \subseteq 1 .. n /\ execs[i].todo \subseteq Republishes[execs[i].route]
      BY <1>0 DEF SagaInv, SagaTyped
    <3>2. execs'[i].awaits \subseteq 1 .. (n + N)
      <4>1. i = q => execs'[i].awaits = (n + 1) .. (n + N)
        BY <1>8, <1>0
      <4>2. i # q => execs'[i].awaits = execs[i].awaits
        BY <1>5
      <4>3. 1 .. n \subseteq 1 .. (n + N)
        BY <1>11
      <4>4. (n + 1) .. (n + N) \subseteq 1 .. (n + N)
        BY <1>0, <1>3
      <4> QED
        BY ONLY <3>1, <4>1, <4>2, <4>3, <4>4
    <3> QED
      BY <3>1, <3>2 DEF Dispatched, Same
  <2>2. ASSUME NEW k \in 1 .. N
        PROVE  /\ \A l \in 1 .. Len(new[k].path) : new[k].path[l] \in 1 .. (n + k - 1)
               /\ new[k].awaits \subseteq 1 .. (n + N) /\ new[k].todo \subseteq Republishes[new[k].route]
    <3>1. \A l \in 1 .. Len(path) : path[l] \in 1 .. n
      BY <1>1, <1>2
    <3>2. new[k].path = path /\ new[k].awaits = {} /\ new[k].todo \subseteq Republishes[new[k].route]
      BY ONLY <1>3, k \in 1 .. N
    <3>3. 1 .. n \subseteq 1 .. (n + k - 1)
      BY <1>0, <1>3
    <3> QED
      BY ONLY <3>1, <3>2, <3>3
  <2>3. ASSUME NEW i \in 1 .. (n + N)
        PROVE  /\ \A k \in 1 .. Len(execs'[i].path) : execs'[i].path[k] \in 1 .. (i - 1)
               /\ execs'[i].awaits \subseteq 1 .. (n + N) /\ execs'[i].todo \subseteq Republishes[execs'[i].route]
    <3>1. CASE i \in 1 .. n
      BY <2>1, <3>1
    <3>2. ASSUME NEW k \in 1 .. N, i = n + k
          PROVE  /\ \A l \in 1 .. Len(execs'[i].path) : execs'[i].path[l] \in 1 .. (i - 1)
                 /\ execs'[i].awaits \subseteq 1 .. (n + N) /\ execs'[i].todo \subseteq Republishes[execs'[i].route]
      <4>1. execs'[i] = new[k]
        BY <1>6, <3>2
      <4>2. /\ \A l \in 1 .. Len(new[k].path) : new[k].path[l] \in 1 .. (n + k - 1)
            /\ new[k].awaits \subseteq 1 .. (n + N) /\ new[k].todo \subseteq Republishes[new[k].route]
        BY <2>2
      <4>3. \A l \in 1 .. Len(execs'[i].path) : execs'[i].path[l] \in 1 .. (i - 1)
        <5>1. n + k - 1 = i - 1
          BY <1>0, <1>3, <3>2
        <5>2. \A l \in 1 .. Len(new[k].path) : new[k].path[l] \in 1 .. (i - 1)
          BY <4>2, <5>1
        <5> QED
          BY ONLY <4>1, <5>2
      <4> QED
        BY ONLY <4>1, <4>2, <4>3
    <3> QED
      BY <1>9, <3>1, <3>2
  <2>4. execs' \in Seq(Execution) /\ tail' \in [Sagas -> Nat]
    BY <1>3 DEF Dispatched
  <2> QED
    BY <1>4, <2>3, <2>4 DEF SagaTyped
<1>13. NestInv'
  <2> SUFFICES ASSUME NEW i \in 1 .. (n + N), Alive(i)', NEW m \in Within(i)'
               PROVE  execs'[m].status = "running" /\ \E c \in Around(i)' : execs'[m].awaits = {c}
    BY <1>4 DEF NestInv
  <2>1. CASE i \in 1 .. n
    <3>1. m \in 1 .. n /\ m # q /\ execs[m].status = "running" /\ \E c \in Around(i) : execs[m].awaits = {c}
      BY <1>0, <1>5, <1>7, <2>1 DEF SagaInv, NestInv
    <3> QED
      BY <1>5, <2>1, <3>1
  <2>2. ASSUME NEW k \in 1 .. N, i = n + k PROVE execs'[m].status = "running" /\ \E c \in Around(i)' : execs'[m].awaits = {c}
    <3>1. m \in W /\ Around(i)' = {i} \cup W /\ q # 0
      BY <1>6, <2>2
    <3>2. CASE m = q
      <4>1. (n + 1) .. (n + N) = {i}
        BY <1>0, <1>3, <1>8, <2>2, <3>1
      <4> QED
        BY <1>5, <1>8, <3>1, <3>2, <4>1
    <3>3. CASE m # q
      <4>1. m \in Within(q)
        BY <1>8, <3>1, <3>3 DEF Around
      <4>2. m \in 1 .. n /\ execs[m].status = "running" /\ \E c \in Around(q) : execs[m].awaits = {c}
        BY <1>0, <1>8, <3>1, <4>1 DEF SagaInv, NestInv
      <4> QED
        BY <1>5, <1>8, <3>1, <3>3, <4>2
    <3> QED
      BY <3>2, <3>3
  <2> QED
    BY <1>9, <2>1, <2>2
<1>14. LineInv'
  <2>1. ASSUME NEW i \in 1 .. (n + N), NEW m \in Within(i)' PROVE Within(m)' \subseteq Within(i)'
    <3>1. CASE i \in 1 .. n
      <4>1. m \in 1 .. n /\ Within(m) \subseteq Within(i)
        BY <1>0, <1>5, <2>1, <3>1 DEF SagaInv, LineInv
      <4> QED
        BY <1>5, <3>1, <4>1
    <3>2. ASSUME NEW k \in 1 .. N, i = n + k PROVE Within(m)' \subseteq Within(i)'
      <4>1. m \in W /\ Within(i)' = W /\ m \in 1 .. n /\ q # 0
        BY <1>2, <1>6, <2>1, <3>2
      <4>2. m = q \/ m \in Within(q)
        BY <1>8, <4>1 DEF Around
      <4>3. Within(m) \subseteq Within(q)
        BY <1>0, <1>8, <4>1, <4>2 DEF SagaInv, LineInv
      <4> QED
        BY <1>5, <1>8, <4>1, <4>3 DEF Around
    <3> QED
      BY <1>9, <3>1, <3>2
  <2>2. ASSUME NEW i \in 1 .. n, Alive(i), NEW k \in 1 .. N, Around(i) \cap ({n + k} \cup W) # {}
        PROVE  i \in W
    <3>1. Around(i) \subseteq 1 .. n
      BY <1>0 DEF Around
    <3>2. Around(i) \cap W # {} /\ q # 0
      BY <1>10, <2>2, <3>1
    <3>3. i = q \/ i \in Within(q) \/ q \in Within(i)
      BY <1>0, <1>8, <2>2, <3>2 DEF SagaInv, LineInv
    <3> QED
      BY <1>7, <1>8, <2>2, <3>2, <3>3 DEF Around
  <2>3. ASSUME NEW j \in 1 .. N, NEW k \in 1 .. N, ({n + j} \cup W) \cap ({n + k} \cup W) # {} PROVE j = k
    <3>1. CASE q = 0
      BY <1>0, <1>3, <2>3, <3>1
    <3>2. CASE q # 0
      BY <1>3, <1>8, <3>2
    <3> QED
      BY <3>1, <3>2
  <2>4. ASSUME NEW i \in 1 .. (n + N), NEW j \in 1 .. (n + N), Alive(i)', Alive(j)', Around(i)' \cap Around(j)' # {}
        PROVE  i = j \/ i \in Within(j)' \/ j \in Within(i)'
    <3>1. CASE i \in 1 .. n /\ j \in 1 .. n
      <4>1. Alive(i) /\ Alive(j) /\ Around(i) \cap Around(j) # {} /\ Within(i)' = Within(i) /\ Within(j)' = Within(j)
        BY <1>5, <2>4, <3>1
      <4> QED
        BY <1>0, <3>1, <4>1 DEF SagaInv, LineInv
    <3>2. CASE i \in 1 .. n /\ j \notin 1 .. n
      <4>1. PICK k \in 1 .. N : j = n + k
        BY <1>9, <3>2
      <4>2. Around(i)' = Around(i) /\ Alive(i) /\ Around(j)' = {n + k} \cup W /\ Within(j)' = W
        BY <1>5, <1>6, <2>4, <3>2, <4>1
      <4> QED
        BY <2>2, <2>4, <3>2, <4>2
    <3>3. CASE i \notin 1 .. n /\ j \in 1 .. n
      <4>1. PICK k \in 1 .. N : i = n + k
        BY <1>9, <3>3
      <4>2. Around(j)' = Around(j) /\ Alive(j) /\ Around(i)' = {n + k} \cup W /\ Within(i)' = W
        BY <1>5, <1>6, <2>4, <3>3, <4>1
      <4> QED
        BY <2>2, <2>4, <3>3, <4>2
    <3>4. CASE i \notin 1 .. n /\ j \notin 1 .. n
      <4>1. PICK k \in 1 .. N : i = n + k
        BY <1>9, <3>4
      <4>2. PICK l \in 1 .. N : j = n + l
        BY <1>9, <3>4
      <4>3. Around(i)' = {n + k} \cup W /\ Around(j)' = {n + l} \cup W
        BY <1>6, <4>1, <4>2
      <4> QED
        BY <2>3, <2>4, <4>1, <4>2, <4>3
    <3> QED
      BY <3>1, <3>2, <3>3, <3>4
  <2> QED
    BY <1>4, <2>1, <2>4 DEF LineInv
<1>15. HomeInv'
  <2> SUFFICES ASSUME NEW i \in 1 .. (n + N), Alive(i)'
               PROVE  \E c \in Around(i)' : execs'[c].chained /\ Saga!SagaOf(c)' = Saga!SagaOf(i)'
    BY <1>4 DEF HomeInv
  <2>1. CASE i \in 1 .. n
    <3>1. PICK c \in Around(i) : execs[c].chained /\ Saga!SagaOf(c) = Saga!SagaOf(i)
      BY <1>0, <1>5, <2>1 DEF SagaInv, HomeInv
    <3>2. c \in 1 .. n
      BY <1>0, <2>1 DEF Around
    <3> QED
      BY <1>5, <2>1, <3>1, <3>2
  <2>2. ASSUME NEW k \in 1 .. N, i = n + k
        PROVE  \E c \in Around(i)' : execs'[c].chained /\ Saga!SagaOf(c)' = Saga!SagaOf(i)'
    <3>1. CASE new[k].chained
      BY <1>6, <2>2, <3>1
    <3>2. CASE ~new[k].chained
      <4>1. PICK m \in W : Saga!SagaOf(m) = new[k].route[1]
        BY <1>3, <1>6, <2>2, <3>2
      <4>2. q # 0 /\ (m = q \/ m \in Within(q)) /\ m \in 1 .. n
        BY <1>2, <1>8, <4>1 DEF Around
      <4>3. Alive(m) /\ Around(m) \subseteq Around(q)
        BY <1>0, <1>8, <4>2 DEF SagaInv, NestInv, LineInv, Alive, Around
      <4>4. PICK c \in Around(m) : execs[c].chained /\ Saga!SagaOf(c) = Saga!SagaOf(m)
        BY <1>0, <4>2, <4>3 DEF SagaInv, HomeInv
      <4>5. c \in W /\ c \in 1 .. n
        BY <1>2, <1>8, <4>2, <4>3, <4>4
      <4>6. c \in Around(i)' /\ Saga!SagaOf(i)' = new[k].route[1]
        BY <1>6, <2>2, <4>5
      <4>7. execs'[c].chained /\ Saga!SagaOf(c)' = Saga!SagaOf(c)
        BY <1>5, <4>4, <4>5
      <4> QED
        BY <4>1, <4>4, <4>6, <4>7
    <3> QED
      BY <3>1, <3>2
  <2> QED
    BY <1>9, <2>1, <2>2
<1>16. ChainInv'
  <2>1. \A i \in 1 .. (n + N) : execs'[i].status = "queued" => execs'[i].chained
    <3>1. \A i \in 1 .. n : execs'[i].status = "queued" => execs'[i].chained
      <4>1. \A i \in Saga!Ids : execs[i].status = "queued" => execs[i].chained
        BY DEF SagaInv, ChainInv
      <4>2. \A i \in 1 .. n : execs'[i].status = execs[i].status /\ execs'[i].chained = execs[i].chained
        BY ONLY <1>5
      <4>3. Saga!Ids = 1 .. n
        BY <1>0
      <4> QED
        BY ONLY <4>1, <4>2, <4>3
    <3>2. \A k \in 1 .. N : execs'[n + k].status = "queued" => execs'[n + k].chained
      <4>1. \A k \in 1 .. N : execs'[n + k] = new[k]
        BY ONLY <1>6
      <4>2. \A k \in 1 .. N : new[k].chained <=> new[k].status = "queued"
        BY ONLY <1>3
      <4> QED
        BY ONLY <4>1, <4>2
    <3>3. ASSUME NEW i \in 1 .. (n + N), execs'[i].status = "queued" PROVE execs'[i].chained
      <4>1. CASE i \in 1 .. n
        BY <3>1, <3>3, <4>1
      <4>2. ASSUME NEW k \in 1 .. N, i = n + k PROVE execs'[i].chained
        BY <3>2, <3>3, <4>2
      <4> QED
        BY <1>9, <4>1, <4>2
    <3> QED
      BY <3>3
  <2>2. ASSUME life \in {"ready", "stopping"}
        PROVE  /\ \A s \in Sagas : tail[s] <= n /\ tail[s] \in Nat /\ (tail[s] # 0 => execs[tail[s]].chained /\ Saga!SagaOf(tail[s]) = s)
               /\ \A i \in 1 .. n : execs[i].chained => i <= tail[Saga!SagaOf(i)]
    BY <1>0, <2>2 DEF SagaInv, ChainInv, SagaTyped
  <2>3. ASSUME life \in {"ready", "stopping"}, NEW s \in Sagas
        PROVE  /\ tail'[s] <= n + N /\ tail'[s] >= tail[s]
               /\ tail'[s] # 0 => execs'[tail'[s]].chained /\ execs'[tail'[s]].route[1] = s
    <3>1. CASE \E k \in 1 .. N : new[k].chained /\ new[k].route[1] = s
      <4>1. PICK k \in 1 .. N : new[k].chained /\ new[k].route[1] = s
        BY <3>1
      <4>2. tail'[s] = n + k
        BY <1>3, <4>1
      <4>3. execs'[n + k] = new[k]
        BY <1>6
      <4>4. n + k <= n + N /\ n + k >= tail[s]
        BY <1>0, <1>3, <2>2, <2>3
      <4> QED
        BY <4>1, <4>2, <4>3, <4>4
    <3>2. CASE \A k \in 1 .. N : ~(new[k].chained /\ new[k].route[1] = s)
      <4>1. tail'[s] = tail[s] /\ tail[s] \in Nat /\ tail[s] <= n
        BY <1>3, <2>2, <2>3, <3>2
      <4>2. tail[s] # 0 => tail[s] \in 1 .. n
        BY <1>0, <4>1
      <4> QED
        BY <1>0, <1>3, <1>5, <2>2, <2>3, <4>1, <4>2
    <3> QED
      BY <3>1, <3>2
  <2>4. ASSUME life \in {"ready", "stopping"}, NEW i \in 1 .. (n + N), execs'[i].chained
        PROVE  i <= tail'[execs'[i].route[1]]
    <3>1. CASE i \in 1 .. n
      <4>1. i <= tail[Saga!SagaOf(i)] /\ Saga!SagaOf(i) \in Sagas
        BY <1>0, <1>5, <2>2, <2>4, <3>1
      <4> QED
        BY <1>3, <1>5, <2>2, <2>3, <2>4, <3>1, <4>1
    <3>2. ASSUME NEW k \in 1 .. N, i = n + k PROVE i <= tail'[execs'[i].route[1]]
      BY <1>0, <1>3, <1>6, <2>4, <3>2
    <3> QED
      BY <1>9, <3>1, <3>2
  <2>5. ASSUME life \in {"ready", "stopping"}, NEW i \in 1 .. (n + N), NEW j \in 1 .. (n + N), i < j,
               execs'[i].chained, execs'[j].chained, execs'[i].route[1] = execs'[j].route[1]
        PROVE  i <= execs'[j].prev /\ (execs'[j].status # "queued" => ~Alive(i)')
    <3>1. CASE j \in 1 .. n
      <4>1. i \in 1 .. n
        BY <1>0, <2>5, <3>1
      <4> QED
        <5>1. execs[i].chained /\ execs[j].chained /\ Saga!SagaOf(i) = Saga!SagaOf(j)
          BY <1>5, <2>5, <3>1, <4>1
        <5>2. i <= execs[j].prev /\ (execs[j].status # "queued" => ~Alive(i))
          BY <1>0, <2>5, <3>1, <4>1, <5>1 DEF SagaInv, ChainInv
        <5> QED
          BY <1>5, <3>1, <4>1, <5>2
    <3>2. ASSUME NEW k \in 1 .. N, j = n + k PROVE i <= execs'[j].prev /\ execs'[j].status = "queued"
      <4>1. i \in 1 .. n
        <5>1. ASSUME NEW l \in 1 .. N, i = n + l PROVE FALSE
          <6>1. new[l].route[1] = new[k].route[1]
            BY <1>6, <2>5, <3>2, <5>1
          <6>2. l = k
            BY <1>3, <6>1
          <6> QED
            BY <2>5, <3>2, <5>1, <6>2, <1>0
        <5> QED
          BY ONLY <1>9, <5>1, i \in 1 .. (n + N)
      <4>2. execs'[j].prev = tail[Saga!SagaOf(i)] /\ execs'[j].status = "queued"
        <5>1. execs'[j] = new[k] /\ new[k].chained /\ new[k].route[1] = Saga!SagaOf(i)
          BY <1>5, <1>6, <2>5, <3>2, <4>1
        <5> QED
          BY <1>3, <5>1
      <4> QED
        BY <1>5, <2>2, <2>5, <4>1, <4>2
    <3> QED
      BY <1>9, <3>1, <3>2
  <2>6. ASSUME life \in {"ready", "stopping"}, NEW j \in 1 .. (n + N), execs'[j].chained, execs'[j].prev # 0
        PROVE  execs'[j].prev < j /\ execs'[execs'[j].prev].chained /\ execs'[execs'[j].prev].route[1] = execs'[j].route[1]
    <3>1. CASE j \in 1 .. n
      <4>1. execs[j].prev < j /\ execs[execs[j].prev].chained /\ Saga!SagaOf(execs[j].prev) = Saga!SagaOf(j) /\ execs[j].prev \in Nat
        BY <1>0, <1>5, <2>6, <3>1, SagaReads DEF SagaInv, ChainInv, Execution
      <4>2. execs[j].prev \in 1 .. n
        BY <1>0, <1>5, <2>6, <3>1, <4>1
      <4> QED
        BY <1>5, <3>1, <4>1, <4>2
    <3>2. ASSUME NEW k \in 1 .. N, j = n + k
          PROVE  execs'[j].prev < j /\ execs'[execs'[j].prev].chained /\ execs'[execs'[j].prev].route[1] = execs'[j].route[1]
      <4>1. execs'[j].prev = tail[new[k].route[1]] /\ execs'[j].route[1] = new[k].route[1] /\ new[k].route[1] \in Sagas
        BY <1>3, <1>6, <2>6, <3>2
      <4>2. /\ execs'[j].prev \in 1 .. n /\ execs[execs'[j].prev].chained
            /\ Saga!SagaOf(execs'[j].prev) = new[k].route[1]
        BY <1>0, <2>2, <2>6, <4>1
      <4> QED
        BY <1>0, <1>5, <3>2, <4>1, <4>2
    <3> QED
      BY <1>9, <3>1, <3>2
  <2>7. Len(execs') = n + N
    BY DEF Dispatched
  <2> QED
    BY <1>4, <2>1, <2>3, <2>4, <2>5, <2>6, <2>7 DEF ChainInv, Saga!SagaOf
<1>17. SagaDrainInv'
  <2>1. before \subseteq 1 .. n
    BY <1>0 DEF SagaInv, SagaDrainInv
  <2> QED
    BY <1>0, <1>4, <1>5, <1>11, <2>1 DEF SagaInv, SagaDrainInv
<1> QED
  BY <1>12, <1>13, <1>14, <1>15, <1>16, <1>17 DEF SagaInv

LEMMA PublishKeeps ==
  ASSUME SagaAssumptions, SagaInv, NEW p \in Publishers, Saga!Publish(p)
  PROVE  SagaInv'
<1> DEFINE e == Publishes[p]
           new == Saga!NewExecs(e, <<>>)
<1>1. e \in Events /\ <<>> \in Seq(Nat) /\ 0 \in Nat /\ \A k \in 1 .. Len(<<>>) : <<>>[k] \in Saga!Ids
  BY DEF SagaAssumptions, Saga!SagaAssumption
<1>2. execs' = execs \o new /\ tail' = Saga!TailAfter(new) /\ UNCHANGED <<life, drain, before>>
  BY DEF Saga!Publish
<1>3. new \in Seq(Execution)
  <2>1. SagaTyped /\ (<<>> = <<>> \/ Len(Matches[e]) <= 1)
    BY DEF SagaInv
  <2>2. AddedWell(<<>>, new, Len(new), Saga!TailAfter(new))
    BY <1>1, <2>1, DispatchAdds
  <2> QED
    BY <2>2 DEF AddedWell
<1>4. Dispatched(0, new)
  BY <1>2, <1>3, SagaReads DEF SagaInv, SagaTyped, Dispatched, Same
<1>5. ASSUME NEW x, x = new PROVE SagaInv'
  <2>1. x = Saga!NewExecs(e, <<>>) /\ tail' = Saga!TailAfter(x) /\ Dispatched(0, x)
    BY <1>2, <1>4, <1>5
  <2> HIDE DEF e, new
  <2> QED
    BY <1>1, <1>2, <2>1, DispatchKeeps
<1> QED
  BY <1>5

LEMMA RepublishKeeps ==
  ASSUME SagaAssumptions, SagaInv, NEW q \in Saga!Ids, NEW e \in Events, Saga!Republish(q, e)
  PROVE  SagaInv'
<1> DEFINE path == Append(execs[q].path, q)
           new == Saga!NewExecs(e, path)
<1>0. /\ Len(execs) \in Nat /\ Saga!Ids = 1 .. Len(execs) /\ DOMAIN execs = 1 .. Len(execs) /\ q \in Nat /\ q # 0
      /\ execs[q] \in Execution /\ execs[q].path \in Seq(Nat) /\ Within(q) \subseteq Saga!Ids
  BY SagaReads DEF SagaInv, Execution
<1>1. path \in Seq(Nat) /\ \A k \in 1 .. Len(path) : path[k] \in Saga!Ids
  <2>1. \A k \in 1 .. Len(execs[q].path) : execs[q].path[k] \in Saga!Ids
    BY <1>0 DEF Within
  <2> QED
    BY <1>0, <2>1
<1>2. /\ execs[q].status = "running" /\ execs[q].awaits = {} /\ e \in execs[q].todo
      /\ execs' = [execs EXCEPT ![q].todo = @ \ {e}, ![q].awaits = Saga!NewIds(new)] \o new
      /\ tail' = Saga!TailAfter(new) /\ UNCHANGED <<life, drain, before>>
  BY DEF Saga!Republish
<1>3. Len(Matches[e]) <= 1
  <2>1. e \in Republishes[execs[q].route] /\ execs[q].route \in Saga!Routes
    BY <1>0, <1>2 DEF SagaInv, SagaTyped, Execution
  <2> QED
    BY <2>1 DEF SagaAssumptions, Saga!PublishedAlone
<1>4. new \in Seq(Execution) /\ Len(new) <= 1
  <2>1. SagaTyped
    BY DEF SagaInv
  <2>2. AddedWell(path, new, Len(new), Saga!TailAfter(new))
    BY <1>1, <1>3, <2>1, DispatchAdds
  <2>3. Matches[e] \in Seq(Saga!Routes) /\ Len(Matches[e]) \in Nat
    BY DEF SagaAssumptions, Saga!SagaAssumption
  <2>4. Len(new) = Len(Matches[e])
    BY <2>3 DEF Saga!NewExecs
  <2> QED
    BY <1>3, <2>2, <2>4 DEF AddedWell
<1> HIDE DEF new, path
<1>5. Dispatched(q, new)
  <2> DEFINE me == [execs EXCEPT ![q].todo = @ \ {e}, ![q].awaits = Saga!NewIds(new)]
  <2>1. execs \in Seq(Execution) /\ execs[q].todo \subseteq Events
    BY <1>0 DEF SagaInv, SagaTyped, Execution
  <2> DEFINE mine == [execs[q] EXCEPT !.todo = @ \ {e}, !.awaits = Saga!NewIds(new)]
  <2>13. me = [execs EXCEPT ![q] = mine]
    BY <1>0, <2>1
  <2>2. me[q] = mine
    BY <1>0, <2>13
  <2>3. Saga!NewIds(new) \subseteq Nat
    BY <1>0, <1>4 DEF Saga!NewIds
  <2>4. me[q] \in Execution
    BY <1>0, <2>1, <2>2, <2>3 DEF Execution
  <2>5. me \in Seq(Execution) /\ Len(me) = Len(execs) /\ \A i \in 1 .. Len(execs) : i # q => me[i] = execs[i]
    <3> HIDE DEF mine, me
    <3>1. mine \in Execution /\ me = [execs EXCEPT ![q] = mine]
      BY <2>2, <2>4, <2>13
    <3> QED
      BY <1>0, <2>1, <3>1
  <2>6. /\ me[q].route = execs[q].route /\ me[q].path = execs[q].path /\ me[q].prev = execs[q].prev
        /\ me[q].chained = execs[q].chained /\ me[q].status = execs[q].status /\ me[q].todo \subseteq execs[q].todo
        /\ me[q].awaits = (Len(execs) + 1) .. (Len(execs) + Len(new))
    BY <1>0, <2>2 DEF Execution, Saga!NewIds
  <2> HIDE DEF me
  <2>7. execs' = me \o new
    BY <1>2 DEF me
  <2>8. Len(execs') = Len(execs) + Len(new) /\ execs' \in Seq(Execution)
    <3>1. execs' \in Seq(Execution)
      BY <1>4, <2>5, <2>7
    <3>2. Len(me \o new) = Len(me) + Len(new)
      BY <1>4, <2>5
    <3> QED
      BY <2>5, <2>7, <3>1, <3>2
  <2>9. \A k \in 1 .. Len(new) : execs'[Len(execs) + k] = new[k]
    BY <1>0, <1>4, <2>5, <2>7
  <2>10. \A i \in 1 .. Len(execs) : execs'[i] = me[i]
    BY <1>0, <1>4, <2>5, <2>7
  <2> QED
    BY <2>5, <2>6, <2>8, <2>9, <2>10 DEF Dispatched, Same
<1>6. ASSUME NEW x, x = new, NEW w, w = path PROVE SagaInv'
  <2>1. x = Saga!NewExecs(e, w) /\ tail' = Saga!TailAfter(x) /\ Dispatched(q, x) /\ w \in Seq(Nat) /\ Len(x) <= 1
        /\ w = Append(execs[q].path, q)
    BY <1>1, <1>2, <1>4, <1>5, <1>6 DEF new, path
  <2> QED
    BY <1>0, <1>2, <1>3, <2>1, DispatchKeeps
<1> QED
  BY <1>6

LEMMA HandlerKeeps ==
  ASSUME SagaAssumptions, SagaInv, NEW q \in Saga!Ids, NEW b \in BOOLEAN,
         Saga!Starts(q) \/ Saga!Resumes(q, b) \/ Saga!Finishes(q, b)
  PROVE  SagaInv'
<1>0. /\ Len(execs) \in Nat /\ Saga!Ids = 1 .. Len(execs) /\ execs[q] \in Execution /\ execs \in Seq(Execution)
  <2>1. SagaTyped /\ execs \in Seq(Execution)
    BY DEF SagaInv, SagaTyped
  <2> QED
    BY SMTT(30), <2>1, SagaReads
<1>1. PICK new : new \in Execution /\ execs' = [execs EXCEPT ![q] = new]
        /\ new = [execs[q] EXCEPT !.status = new.status, !.awaits = new.awaits, !.todo = new.todo]
        /\ (new.awaits = {} \/ new.awaits = execs[q].awaits) /\ new.todo \subseteq execs[q].todo
        /\ \/ execs[q].status = "queued" /\ new.status = "running" /\ Saga!MayStart(q) /\ new.awaits = execs[q].awaits
           \/ /\ execs[q].status = "running" /\ new.status \in {"running", "done", "failed"}
              /\ \/ execs[q].awaits = {} \/ (\E j \in execs[q].awaits : Saga!Failed(j))
                 \/ \A j \in execs[q].awaits : Saga!Settled(j)
  <2>1. CASE Saga!Starts(q)
    <3> DEFINE new == [execs[q] EXCEPT !.status = "running"]
    <3>1. execs' = [execs EXCEPT ![q] = new] /\ execs[q].status = "queued" /\ Saga!MayStart(q)
      BY <2>1 DEF Saga!Starts
    <3>3. new \in Execution /\ new.awaits = execs[q].awaits /\ new.status = "running" /\ new.todo = execs[q].todo
          /\ new = [execs[q] EXCEPT !.status = new.status, !.awaits = new.awaits, !.todo = new.todo]
      BY <1>0 DEF Execution
    <3> HIDE DEF new
    <3> QED
      BY <3>1, <3>3
  <2>2. CASE Saga!Resumes(q, b)
    <3>1. PICK s \in {"running", "failed"} : execs' = [execs EXCEPT ![q] = [@ EXCEPT !.awaits = {}, !.status = s]]
      <4>1. execs[q].status \in {"running", "failed"}
        BY <2>2 DEF Saga!Resumes
      <4> QED
        BY <1>0, <2>2, <4>1 DEF Saga!Resumes
    <3> DEFINE new == [execs[q] EXCEPT !.awaits = {}, !.status = s]
    <3>2. execs' = [execs EXCEPT ![q] = new] /\ execs[q].status = "running"
          /\ ((\E j \in execs[q].awaits : Saga!Failed(j)) \/ \A j \in execs[q].awaits : Saga!Settled(j))
      BY <2>2, <3>1 DEF Saga!Resumes
    <3>3. new \in Execution /\ new.awaits = {} /\ new.status = s /\ new.todo = execs[q].todo
          /\ new = [execs[q] EXCEPT !.status = new.status, !.awaits = new.awaits, !.todo = new.todo]
      BY <1>0 DEF Execution
    <3> HIDE DEF new
    <3> QED
      BY <3>2, <3>3
  <2>3. CASE Saga!Finishes(q, b)
    <3> DEFINE new == [execs[q] EXCEPT !.status = IF b THEN "done" ELSE "failed", !.todo = {}]
    <3>1. execs' = [execs EXCEPT ![q] = new] /\ execs[q].status = "running" /\ execs[q].awaits = {}
      BY <2>3 DEF Saga!Finishes
    <3>3. new \in Execution /\ new.awaits = execs[q].awaits /\ new.status \in {"done", "failed"} /\ new.todo = {}
          /\ new = [execs[q] EXCEPT !.status = new.status, !.awaits = new.awaits, !.todo = new.todo]
      BY <1>0 DEF Execution
    <3> HIDE DEF new
    <3> QED
      BY <3>1, <3>3
  <2> QED
    BY <2>1, <2>2, <2>3
<1>2. /\ execs' \in Seq(Execution) /\ Len(execs') = Len(execs) /\ execs'[q] = new
      /\ \A i \in Saga!Ids : i # q => execs'[i] = execs[i]
  BY <1>0, <1>1
<1>3. \A i \in Saga!Ids : Same(i)
  <2>1. /\ new.route = execs[q].route /\ new.path = execs[q].path /\ new.prev = execs[q].prev /\ new.chained = execs[q].chained
    BY <1>0, <1>1 DEF Execution
  <2> QED
    BY <1>2, <2>1 DEF Same
<1>4. UNCHANGED <<tail, life, drain, before>>
  BY DEF Saga!Starts, Saga!Resumes, Saga!Finishes
<1>5. execs[q].status = "running" => \A i \in Saga!Ids : Alive(i) => q \notin Within(i)
  <2> SUFFICES ASSUME execs[q].status = "running" PROVE \A i \in Saga!Ids : Alive(i) => q \notin Within(i)
    OBVIOUS
  <2>1. execs[q].awaits = {} \/ (\E j \in execs[q].awaits : Saga!Failed(j)) \/ \A j \in execs[q].awaits : Saga!Settled(j)
    BY <1>1
  <2> QED
    BY <2>1, InsideAwaits
<1>6. \/ execs[q].status = "queued" /\ execs'[q].status = "running" /\ Saga!MayStart(q) /\ execs'[q].awaits = execs[q].awaits
      \/ /\ execs[q].status = "running" /\ execs'[q].status \in {"running", "done", "failed"}
         /\ \A i \in Saga!Ids : Alive(i) => q \notin Within(i)
  BY <1>1, <1>2, <1>5
<1>7. (execs'[q].awaits = {} \/ execs'[q].awaits = execs[q].awaits) /\ execs'[q].todo \subseteq execs[q].todo
  BY <1>1, <1>2
<1> QED
  BY <1>2, <1>3, <1>4, <1>6, <1>7, OneExecution

\* What is said of the executions holds as long as they stay.
LEMMA ExecutionsStay ==
  ASSUME SagaInv, execs' = execs, tail' \in [Sagas -> Nat]
  PROVE  SagaTyped' /\ NestInv' /\ LineInv' /\ HomeInv'
<1>1. /\ Saga!Ids' = Saga!Ids
      /\ \A i : Within(i)' = Within(i) /\ Around(i)' = Around(i)
      /\ \A i : Saga!SagaOf(i)' = Saga!SagaOf(i)
      /\ \A i : Alive(i)' <=> Alive(i)
  BY DEF Saga!Ids, Within, Around, Saga!SagaOf, Alive
<1>2. SagaTyped'
  BY <1>1 DEF SagaInv, SagaTyped
<1>3. NestInv'
  BY <1>1 DEF SagaInv, NestInv
<1>4. LineInv'
  BY <1>1 DEF SagaInv, LineInv
<1>5. HomeInv'
  BY <1>1 DEF SagaInv, HomeInv
<1> QED
  BY <1>2, <1>3, <1>4, <1>5

LEMMA ShutdownKeeps ==
  ASSUME SagaInv, Saga!Shutdown \/ Saga!ShutdownDrained \/ Saga!ShutdownTimesOut
  PROVE  SagaInv'
<1>0. /\ Len(execs) \in Nat /\ Saga!Ids = 1 .. Len(execs) /\ execs' = execs /\ Saga!Ids' = Saga!Ids
      /\ \A i \in Saga!Ids : (Alive(i) <=> ~Saga!Settled(i)) /\ Within(i) \subseteq 1 .. (i - 1)
  BY SagaReads DEF SagaInv, Saga!Shutdown, Saga!ShutdownDrained, Saga!ShutdownTimesOut, Saga!Stops, Saga!Ids
<1>1. tail' \in [Sagas -> Nat]
  BY DEF SagaInv, SagaTyped, Saga!Shutdown, Saga!ShutdownDrained, Saga!ShutdownTimesOut, Saga!Stops
<1>2. SagaTyped' /\ NestInv' /\ LineInv' /\ HomeInv'
  BY <1>0, <1>1, ExecutionsStay
<1>3. CASE Saga!Shutdown
  <2>1. ChainInv'
    BY <1>3 DEF SagaInv, ChainInv, Saga!Shutdown, Saga!Ids, Alive, Saga!SagaOf
  <2>2. /\ before' = Saga!Ids /\ life' = "stopping" /\ drain' = Saga!ActiveWork
    BY <1>3 DEF Saga!Shutdown
  <2>3. \A i \in Saga!Ids : execs[i].chained /\ Alive(i)' => i \in Saga!ActiveWork
    BY <1>0 DEF Saga!ActiveWork, Alive
  <2>4. \A i \in Saga!Ids : 1 .. i \subseteq Saga!Ids
    BY <1>0
  <2> QED
    BY <1>0, <1>2, <2>1, <2>2, <2>3, <2>4 DEF SagaInv, SagaDrainInv
<1>4. CASE Saga!ShutdownDrained \/ Saga!ShutdownTimesOut
  <2>1. /\ life = "stopping" /\ life' \in {"stopped", "timedout"} /\ before' = before
        /\ life' = "stopped" => \A i \in drain : Saga!Settled(i)
    BY <1>4 DEF Saga!ShutdownDrained, Saga!ShutdownTimesOut, Saga!Stops
  <2>2. ChainInv'
    BY <1>0, <2>1 DEF SagaInv, ChainInv
  <2>3. ASSUME life' = "stopped", NEW i \in before PROVE ~Alive(i)
    <3> SUFFICES ASSUME Alive(i) PROVE FALSE
      OBVIOUS
    <3>1. i \in Saga!Ids /\ 1 .. i \subseteq before /\ before \subseteq Saga!Ids
      BY DEF SagaInv, SagaDrainInv
    <3>2. PICK c \in Around(i) : execs[c].chained
      BY <3>1 DEF SagaInv, HomeInv
    <3>3. Alive(c)
      BY <3>1, <3>2 DEF SagaInv, NestInv, Around, Alive
    <3>4. c \in before
      BY <1>0, <3>1, <3>2 DEF Around
    <3>5. c \in drain /\ c \in Saga!Ids
      BY <2>1, <3>1, <3>2, <3>3, <3>4 DEF SagaInv, SagaDrainInv
    <3> QED
      BY <1>0, <2>1, <2>3, <3>3, <3>5
  <2>4. \A i : Alive(i)' <=> Alive(i)
    BY <1>0 DEF Alive
  <2>5. SagaDrainInv'
    BY <1>0, <2>1, <2>3, <2>4 DEF SagaInv, SagaDrainInv
  <2> QED
    BY <1>2, <2>2, <2>5 DEF SagaInv
<1> QED
  BY <1>3, <1>4

LEMMA SagaStep == SagaAssumptions /\ SagaInv /\ [Saga!Next]_(Saga!vars) => SagaInv'
<1> SUFFICES ASSUME SagaAssumptions, SagaInv, [Saga!Next]_(Saga!vars) PROVE SagaInv'
  OBVIOUS
<1>1. CASE UNCHANGED Saga!vars
  <2>1. execs' = execs /\ tail' = tail /\ UNCHANGED <<life, drain, before>>
    BY <1>1 DEF Saga!vars
  <2>2. SagaTyped' /\ NestInv' /\ LineInv' /\ HomeInv'
    BY <2>1, ExecutionsStay DEF SagaInv, SagaTyped
  <2>3. ChainInv' /\ SagaDrainInv'
    BY <2>1 DEF SagaInv, ChainInv, SagaDrainInv, Saga!Ids, Alive, Saga!SagaOf
  <2> QED
    BY <2>2, <2>3 DEF SagaInv
<1>2. ASSUME NEW p \in Publishers, Saga!Publish(p) PROVE SagaInv'
  BY <1>2, PublishKeeps
<1>3. ASSUME NEW i \in Saga!Ids, Saga!Starts(i) PROVE SagaInv'
  BY <1>3, HandlerKeeps
<1>4. ASSUME NEW i \in Saga!Ids, NEW b \in BOOLEAN, Saga!Resumes(i, b) \/ Saga!Finishes(i, b) PROVE SagaInv'
  BY <1>4, HandlerKeeps
<1>5. ASSUME NEW i \in Saga!Ids, NEW e \in Events, Saga!Republish(i, e) PROVE SagaInv'
  BY <1>5, RepublishKeeps
<1>6. CASE Saga!Shutdown \/ Saga!ShutdownDrained \/ Saga!ShutdownTimesOut
  BY <1>6, ShutdownKeeps
<1> QED
  BY <1>1, <1>2, <1>3, <1>4, <1>5, <1>6 DEF Saga!Next

LEMMA SagaHolds == SagaInv => Saga!SerializedPerSaga /\ Saga!DrainWaitsForAll
<1> SUFFICES ASSUME SagaInv PROVE Saga!SerializedPerSaga /\ Saga!DrainWaitsForAll
  OBVIOUS
<1>0. /\ Len(execs) \in Nat /\ Saga!Ids = 1 .. Len(execs)
      /\ \A i \in Saga!Ids : (Alive(i) <=> ~Saga!Settled(i)) /\ Within(i) \subseteq 1 .. (i - 1) /\ Within(i) \subseteq Saga!Ids
  BY SagaReads DEF SagaInv
<1>1. Saga!DrainWaitsForAll
  BY <1>0 DEF SagaInv, SagaDrainInv, Saga!DrainWaitsForAll
<1>2. Saga!SerializedPerSaga
  <2> SUFFICES ASSUME life \in {"ready", "stopping"}, NEW i \in Saga!Ids, NEW j \in Saga!Ids, i < j,
                      Saga!SagaOf(i) = Saga!SagaOf(j), execs[i].status = "running", execs[j].status = "running"
               PROVE  Saga!Encloses(i, j)
    BY DEF Saga!SerializedPerSaga, Saga!InHandler
  <2>1. Alive(i) /\ Alive(j)
    BY DEF Alive
  <2>2. PICK c \in Around(i) : execs[c].chained /\ Saga!SagaOf(c) = Saga!SagaOf(i)
    BY <2>1 DEF SagaInv, HomeInv
  <2>3. PICK d \in Around(j) : execs[d].chained /\ Saga!SagaOf(d) = Saga!SagaOf(j)
    BY <2>1 DEF SagaInv, HomeInv
  <2>4. /\ c \in Saga!Ids /\ d \in Saga!Ids /\ Alive(c) /\ Alive(d)
        /\ execs[c].status = "running" /\ execs[d].status = "running"
    BY <1>0, <2>1, <2>2, <2>3 DEF SagaInv, NestInv, Around, Alive
  <2>5. c = d
    <3>1. ~(c < d)
      BY <2>2, <2>3, <2>4 DEF SagaInv, ChainInv
    <3>2. ~(d < c)
      BY <2>2, <2>3, <2>4 DEF SagaInv, ChainInv
    <3> QED
      BY <1>0, <2>4, <3>1, <3>2
  <2>6. i = j \/ i \in Within(j) \/ j \in Within(i)
    BY <2>1, <2>2, <2>3, <2>5 DEF SagaInv, LineInv
  <2>7. i \in Within(j)
    BY <1>0, <2>6
  <2> QED
    BY <2>7 DEF Within, Saga!Encloses
<1> QED
  BY <1>1, <1>2

\* SerializedPerSaga and DrainWaitsForAll: executions of one saga overlap only when
\* nested in each other, and a shutdown that did not give up left nothing dispatched
\* before it unfinished (CqrsSagaLifecycleService.dispatchWithOrdering() and
\* drainActiveSagaWork()), when handlers publish one event for one route at a time.
THEOREM SagasTakeTurns ==
  SagaAssumptions => (Saga!Spec => [](Saga!SerializedPerSaga /\ Saga!DrainWaitsForAll))
<1> SUFFICES ASSUME SagaAssumptions PROVE Saga!Spec => [](Saga!SerializedPerSaga /\ Saga!DrainWaitsForAll)
  OBVIOUS
<1>1. Saga!Init => SagaInv
  BY SagaInitial
<1>2. SagaInv /\ [Saga!Next]_(Saga!vars) => SagaInv'
  BY SagaStep
<1>3. SagaInv => Saga!SerializedPerSaga /\ Saga!DrainWaitsForAll
  BY SagaHolds
<1> QED
  BY <1>1, <1>2, <1>3, PTL DEF Saga!Spec

---------------------------------------------------------------------------
\* CacheInterceptor.  EvictInv: once a write has asked for its eviction,
\* neither the send of its response nor the timer behind it will ask
\* again.

CONSTANTS Gets, Puts, Committed
VARIABLES get, write, eviction, completed, wrapped
Interceptor == INSTANCE CacheInterceptor

\* A write whose eviction was asked for is completed, or its handler sent the
\* response itself, so that neither timer nor replaced send will ask again.
EvictInv ==
  /\ completed \subseteq Puts /\ timer \subseteq Puts
  /\ eviction = [w \in Puts |-> eviction[w]] /\ write = [w \in Puts |-> write[w]]
  /\ \A w \in Puts :
       /\ write[w] = "idle" => eviction[w] = "none" /\ w \notin timer
       /\ w \in Committed => write[w] \in {"idle", "sent"} /\ w \notin timer
       /\ w \notin Committed /\ eviction[w] # "none" => w \in completed

LEMMA EvictInitial == Interceptor!Init => EvictInv
BY DEF Interceptor!Init, EvictInv

LEMMA EvictStep ==
  ASSUME EvictInv, [Interceptor!Next]_(Interceptor!vars)
  PROVE  EvictInv' /\ \A w \in Puts : eviction[w] = "done" => eviction'[w] = "done"
<1> USE DEF Interceptor!getVars, Interceptor!writeVars
<1>1. CASE \/ UNCHANGED Interceptor!vars
           \/ \E g \in Gets : \/ \E f \in BOOLEAN : Interceptor!Looks(g, f) \/ Interceptor!Stores(g, f)
                              \/ Interceptor!Handles(g)
  BY <1>1 DEF EvictInv, Interceptor!vars, Interceptor!Looks, Interceptor!Stores, Interceptor!Handles
<1>2. ASSUME NEW w \in Puts, Interceptor!HandlerWrites(w)
      PROVE  EvictInv' /\ \A x \in Puts : eviction[x] = "done" => eviction'[x] = "done"
  BY <1>2 DEF EvictInv, Interceptor!HandlerWrites, Interceptor!FallbackTimer
<1>3. ASSUME NEW w \in Puts, NEW b \in BOOLEAN, Interceptor!Sends(w) \/ Interceptor!Sent(w, b)
      PROVE  EvictInv' /\ \A x \in Puts : eviction[x] = "done" => eviction'[x] = "done"
  BY <1>3 DEF EvictInv, Interceptor!Sends, Interceptor!Sent
<1>4. ASSUME NEW w \in Puts, NEW b \in BOOLEAN, Interceptor!ReplacedSent(w, b)
      PROVE  EvictInv' /\ \A x \in Puts : eviction[x] = "done" => eviction'[x] = "done"
  BY <1>4 DEF EvictInv, Interceptor!ReplacedSent, Interceptor!Evict
<1>5. ASSUME NEW w \in Puts, Interceptor!Fallback(w)
      PROVE  EvictInv' /\ \A x \in Puts : eviction[x] = "done" => eviction'[x] = "done"
  BY <1>5 DEF EvictInv, Interceptor!Fallback, Interceptor!Evict
<1>6. ASSUME NEW w \in Puts, NEW b \in BOOLEAN, Interceptor!Evicts(w, b)
      PROVE  EvictInv' /\ \A x \in Puts : eviction[x] = "done" => eviction'[x] = "done"
  BY <1>6 DEF EvictInv, Interceptor!Evicts
<1> QED
  BY <1>1, <1>2, <1>3, <1>4, <1>5, <1>6 DEF Interceptor!Next

\* EvictsOnce: whether a response that was replaced is sent first or the fallback
\* timer ends first, and though handlers send responses themselves, a write evicts
\* once (CacheInterceptor, runEviction).
THEOREM WritesEvictOnce == Interceptor!Spec => Interceptor!EvictsOnce
<1>1. EvictInv /\ [Interceptor!Next]_(Interceptor!vars) => EvictInv'
  BY EvictStep
<1>2. EvictInv /\ [Interceptor!Next]_(Interceptor!vars) =>
        [\A w \in Puts : eviction[w] = "done" => eviction'[w] = "done"]_(Interceptor!vars)
  BY EvictStep
<1> QED
  BY EvictInitial, <1>1, <1>2, PTL DEF Interceptor!Spec, Interceptor!EvictsOnce

---------------------------------------------------------------------------
\* QueueService.  QueueStartInv: one start is under way at a time, and
\* who rolls back does so alone; ResourceInv: a set being opened is
\* nobody else's; WorkerInv: workers run once a start succeeded, and then
\* no more is rolled back.

CONSTANTS Jobs, ShutdownCall, Letters, MaxStarts, MaxSets
VARIABLES lifecycleState, startPromise, redisClient, owned, readyWorkers, building, jobOf, scheduled, ready,
  running, closing, caller, waitsFor, letter, awaited
Queue == INSTANCE QueueService

\* No start begins while a caller rolls another back.
RollsBackFirst ==
  \A s \in Queue!Starts : phase[s] = "unused" /\ phase'[s] # "unused" => \A c \in Callers : caller[c] # "closing"

QueueTyped ==
  /\ startPromise \in {0} \cup Queue!Starts
  /\ current \in [Jobs -> {0} \cup Queue!Sets] /\ owned \subseteq Queue!Sets /\ readyWorkers \subseteq Queue!Sets
  /\ phase \in [Queue!Starts -> {"unused", "resolving", "opening", "cleaning", "ok", "failed"}]
  /\ left \in [Queue!Starts -> SUBSET Jobs] /\ building \in [Queue!Starts -> {0} \cup Queue!Sets]
  /\ \E n \in 0 .. MaxSets : jobOf \in [1 .. n -> Jobs]
  /\ open \subseteq Queue!Resources
  /\ scheduled \in [Queue!Starts -> SUBSET Queue!Sets]
  /\ closing \in [Queue!Actors -> SUBSET Queue!Resources]
  /\ caller \in [Callers -> {"out", "waiting", "closing", "accepted", "refused"}]
  /\ waitsFor \in [Queue!Waiters -> {0} \cup Queue!Starts]
  /\ letter \in [Letters -> {"none", "pending", "written", "failed", "abandoned", "lost"}]

NoneRegistered == owned = {} /\ \A j \in Jobs : current[j] = 0
Rolls(c) == \/ caller[c] = "closing"
            \/ caller[c] = "waiting" /\ phase[waitsFor[c]] = "failed"

\* One start is under way at a time, and who rolls back does so alone.
QueueStartInv ==
  /\ \A s \in Queue!InFlight :
       /\ startPromise = s /\ lifecycleState \in {"starting", "stopping"} /\ \A c \in Callers : ~Rolls(c)
       /\ stop \in {"no", "waiting"} /\ (stop = "waiting" => waitsFor[ShutdownCall] = s)
  /\ lifecycleState = "idle" => startPromise = 0 /\ NoneRegistered
  /\ lifecycleState = "starting" => startPromise # 0 /\ phase[startPromise] # "ok"
  /\ startPromise # 0 => phase[startPromise] # "unused"
  /\ (lifecycleState \in {"idle", "starting", "started"}) <=> (stop = "no")
  /\ \A c \in Callers :
       /\ caller[c] = "closing" => NoneRegistered
       /\ caller[c] = "waiting" => waitsFor[c] # 0 /\ phase[waitsFor[c]] # "unused"

\* Each actor closes only while it is at it; a set under way is nobody else's.
ResourceInv ==
  /\ \A c \in Callers : caller[c] # "closing" => closing[c] = {}
  /\ stop \in {"no", "waiting"} => closing[ShutdownCall] = {}
  /\ \A s \in Queue!Starts :
       /\ phase[s] # "cleaning" => closing[s] = {}
       /\ building[s] # 0 => s \in Queue!InFlight
       /\ phase[s] = "resolving" => NoneRegistered /\ building[s] = 0
       /\ phase[s] = "opening" => redisClient /\ \A j \in left[s] : current[j] = 0
       /\ phase[s] = "opening" /\ building[s] # 0 =>
            /\ building[s] \in DOMAIN jobOf /\ jobOf[building[s]] \notin left[s]
            /\ current[jobOf[building[s]]] = 0
       /\ phase[s] = "cleaning" => \A r \in open : r[2] = building[s] => r \in closing[s]

\* Workers run once a start succeeded, and then no more is rolled back.
Succeeded == \E s \in Queue!Starts : phase[s] = "ok"
WorkerInv ==
  /\ (lifecycleState = "started" \/ running # {} \/ \E s \in Queue!Starts : scheduled[s] # {}) => Succeeded
  /\ Succeeded =>
       /\ lifecycleState \in {"started", "stopping", "stopped"} /\ Queue!InFlight = {}
       /\ \A c \in Callers : ~Rolls(c)
       /\ redisClient \/ stop = "done"

QueueInv == QueueTyped /\ QueueStartInv /\ ResourceInv /\ WorkerInv /\ Queue!OpenIsOwned /\ Queue!LettersReachRedis

QueueGuards == Queue!QueueAssumption /\ QueueInv /\ RollsBackFirst

LEMMA QueueRegistered ==
  ASSUME QueueTyped
  PROVE  \A x : x \in Queue!Registered <=> x # 0 /\ \E j \in Jobs : current[j] = x
BY DEF QueueTyped, Queue!Registered, Queue!Range

LEMMA QueueInitial == Queue!QueueAssumption /\ Queue!Init => QueueInv
<1> SUFFICES ASSUME Queue!QueueAssumption, Queue!Init PROVE QueueInv
  OBVIOUS
<1>1. QueueTyped
  <2>1. jobOf \in [1 .. 0 -> Jobs] /\ 0 \in 0 .. MaxSets
    BY DEF Queue!Init, Queue!QueueAssumption
  <2> QED
    BY <2>1 DEF QueueTyped, Queue!Init
<1>2. QueueStartInv /\ WorkerInv
  BY DEF QueueStartInv, WorkerInv, Succeeded, Rolls, NoneRegistered, Queue!InFlight, Queue!Init
<1>3. ResourceInv
  BY DEF ResourceInv, Queue!Init, Queue!Actors, NoneRegistered, Queue!QueueAssumption
<1> QED
  BY <1>1, <1>2, <1>3 DEF QueueInv, Queue!OpenIsOwned, Queue!LettersReachRedis, Queue!Init

LEMMA ReturnsKeeps ==
  ASSUME QueueGuards, NEW c \in Callers, Queue!EnsureStartedReturns(c)
  PROVE  QueueInv'
<1> USE DEF QueueGuards, QueueInv, Queue!EnsureStartedReturns, Queue!registry, Queue!starts, Queue!workers, Queue!letters
<1>1. QueueTyped'
  BY DEF QueueTyped
<1>2. \A d \in Callers : (caller'[d] = "closing" <=> caller[d] = "closing") /\ (caller'[d] = "waiting" => caller[d] = "waiting")
  BY DEF QueueTyped
<1>3. QueueStartInv' /\ WorkerInv'
  BY <1>2 DEF QueueStartInv, WorkerInv, Succeeded, Rolls, NoneRegistered, Queue!InFlight
<1>4. ResourceInv'
  BY <1>2 DEF ResourceInv, NoneRegistered, Queue!InFlight
<1> QED
  BY <1>1, <1>3, <1>4 DEF Queue!OpenIsOwned, Queue!LettersReachRedis, Queue!Registered, Queue!InFlight

LEMMA WaitsKeeps ==
  ASSUME QueueGuards, NEW c \in Callers, Queue!EnsureStartedWaits(c)
  PROVE  QueueInv'
<1> USE DEF QueueGuards, QueueInv, Queue!EnsureStartedWaits, Queue!registry, Queue!workers, Queue!letters
<1>0. PICK s \in Queue!Starts :
        /\ IF startPromise # 0
           THEN s = startPromise /\ UNCHANGED <<lifecycleState, phase>>
           ELSE /\ phase[s] = "unused"
                /\ lifecycleState' = "starting"
                /\ phase' = [phase EXCEPT ![s] = "resolving"]
        /\ startPromise' = s
        /\ waitsFor' = [waitsFor EXCEPT ![c] = s]
  OBVIOUS
<1>1. QueueTyped'
  BY <1>0 DEF QueueTyped, Queue!Waiters
<1>2. /\ \A d \in Callers : d # c => caller'[d] = caller[d] /\ waitsFor'[d] = waitsFor[d]
      /\ caller'[c] = "waiting" /\ waitsFor'[c] = s /\ caller[c] \in {"out", "refused"}
      /\ waitsFor'[ShutdownCall] = waitsFor[ShutdownCall] /\ s # 0
      /\ \A d \in Callers : caller[d] = "waiting" => waitsFor[d] \in Queue!InFlight
  BY <1>0 DEF QueueTyped, Queue!Waiters, Queue!QueueAssumption, Queue!Starts
<1>3. ~Succeeded
  BY <1>2 DEF QueueStartInv, WorkerInv
<1>4. CASE startPromise # 0
  <2>1. phase' = phase /\ s = startPromise /\ lifecycleState' = lifecycleState
    BY <1>0, <1>4
  <2>2. QueueStartInv'
    BY <1>2, <2>1 DEF QueueStartInv, Rolls, NoneRegistered, Queue!InFlight
  <2>3. WorkerInv'
    BY <1>3, <2>1 DEF WorkerInv, Succeeded
  <2>4. ResourceInv'
    BY <1>2, <2>1 DEF ResourceInv, NoneRegistered, Queue!InFlight
  <2> QED
    BY <1>1, <2>1, <2>2, <2>3, <2>4 DEF Queue!OpenIsOwned, Queue!LettersReachRedis, Queue!Registered, Queue!InFlight
<1>5. CASE startPromise = 0
  <2>1. /\ phase[s] = "unused" /\ phase'[s] = "resolving" /\ lifecycleState' = "starting"
        /\ \A t \in Queue!Starts : t # s => phase'[t] = phase[t]
    BY <1>0, <1>5 DEF QueueTyped
  <2>2. Queue!InFlight = {} /\ Queue!InFlight' = {s}
    BY <1>5, <2>1 DEF QueueStartInv, Queue!InFlight, Queue!Starts
  <2>3. NoneRegistered /\ lifecycleState = "idle" /\ stop = "no"
    BY <1>5 DEF QueueStartInv
  <2>4. \A d \in Callers : caller[d] # "closing"
    BY <2>1 DEF RollsBackFirst
  <2>5. QueueStartInv'
    BY <1>0, <1>2, <2>1, <2>2, <2>3, <2>4 DEF QueueStartInv, Rolls, NoneRegistered
  <2>6. WorkerInv'
    BY <1>3, <2>1, <2>3 DEF WorkerInv, Succeeded
  <2>7. ResourceInv'
    BY <1>2, <2>1, <2>2, <2>3, <2>4 DEF ResourceInv, NoneRegistered
  <2> QED
    BY <1>1, <2>2, <2>5, <2>6, <2>7 DEF Queue!OpenIsOwned, Queue!LettersReachRedis, Queue!Registered
<1> QED
  BY <1>4, <1>5

LEMMA SucceededKeeps ==
  ASSUME QueueGuards, NEW c \in Callers, Queue!StartSucceeded(c)
  PROVE  QueueInv'
<1> USE DEF QueueGuards, QueueInv, Queue!StartSucceeded, Queue!registry, Queue!starts, Queue!workers, Queue!letters
<1>1. QueueTyped'
  BY DEF QueueTyped
<1>2. \A d \in Callers : (caller'[d] = "closing" <=> caller[d] = "closing") /\ (caller'[d] = "waiting" => caller[d] = "waiting")
  BY DEF QueueTyped
<1>3. Succeeded
  BY DEF Succeeded, QueueStartInv, QueueTyped, Queue!Waiters
<1>4. QueueStartInv' /\ WorkerInv'
  BY <1>2, <1>3 DEF QueueStartInv, WorkerInv, Succeeded, Rolls, NoneRegistered, Queue!InFlight
<1>5. ResourceInv'
  BY <1>2 DEF ResourceInv, NoneRegistered, Queue!InFlight
<1> QED
  BY <1>1, <1>4, <1>5 DEF Queue!OpenIsOwned, Queue!LettersReachRedis, Queue!Registered, Queue!InFlight

LEMMA QueueCloseKeeps ==
  ASSUME QueueGuards, NEW a \in Queue!Actors, Queue!Close(a)
  PROVE  QueueInv'
<1> USE DEF QueueGuards, QueueInv, Queue!Close, Queue!registry, Queue!starts, Queue!callers, Queue!letters
<1>0. PICK r \in closing[a] :
        /\ closing' = [closing EXCEPT ![a] = @ \ {r}]
        /\ open' = open \ {r} /\ running' \subseteq running
  <2>1. PICK r \in closing[a] :
          /\ closing' = [closing EXCEPT ![a] = @ \ {r}] /\ open' = open \ {r}
          /\ running' = (IF r[1] = "worker" THEN running \ {r[2]} ELSE running) \/ running' = running
    OBVIOUS
  <2> QED
    BY <2>1
<1>1. QueueTyped'
  BY <1>0 DEF QueueTyped
<1>2. \A b \in Queue!Actors : closing'[b] \subseteq closing[b] /\ \A q \in closing[b] : q # r => q \in closing'[b]
  BY <1>0 DEF QueueTyped
<1>3. QueueStartInv' /\ WorkerInv'
  BY <1>0 DEF QueueStartInv, WorkerInv, Succeeded, Rolls, NoneRegistered, Queue!InFlight
<1>4. ResourceInv'
  BY <1>0, <1>2 DEF ResourceInv, NoneRegistered, Queue!InFlight, Queue!Actors
<1>5. Queue!OpenIsOwned'
  BY <1>0, <1>2 DEF Queue!OpenIsOwned, Queue!Registered, Queue!InFlight
<1> QED
  BY <1>1, <1>3, <1>4, <1>5 DEF Queue!LettersReachRedis

\* Whoever takes all that is registered has a closing of its own to put it in.
LEMMA TakesAllKeeps ==
  ASSUME QueueTyped, Queue!OpenIsOwned, NEW a \in Queue!Actors, closing[a] = {}, Queue!TakesAll(a),
         UNCHANGED open, Queue!InFlight = {}
  PROVE  /\ Queue!OpenIsOwned' /\ NoneRegistered'
         /\ \A b \in Queue!Actors : b # a => closing'[b] = closing[b]
         /\ closing'[a] = Queue!Initialized /\ closing'[a] \subseteq Queue!Resources
         /\ current' \in [Jobs -> {0} \cup Queue!Sets] /\ owned' = {} /\ readyWorkers' = {}
<1>1. /\ \A b \in Queue!Actors : b # a => closing'[b] = closing[b]
      /\ closing'[a] = Queue!Initialized
  BY DEF QueueTyped, Queue!TakesAll
<1>2. Queue!Initialized \subseteq Queue!Resources
  BY DEF QueueTyped, Queue!Initialized
<1>3. NoneRegistered' /\ current' \in [Jobs -> {0} \cup Queue!Sets] /\ owned' = {} /\ readyWorkers' = {}
  BY DEF NoneRegistered, Queue!TakesAll
<1>4. ASSUME NEW r \in open PROVE \E b \in Queue!Actors : r \in closing'[b]
  <2>1. CASE \E b \in Queue!Actors : r \in closing[b]
    BY <1>1, <2>1
  <2>2. CASE \/ r[1] \in {"worker", "queue"} /\ r[2] \in Queue!Registered
             \/ r[1] \in {"workerConnection", "queueConnection"} /\ r[2] \in owned
    <3>1. r = <<r[1], r[2]>>
      BY DEF QueueTyped, Queue!Resources
    <3>2. r \in Queue!Initialized
      BY <2>2, <3>1 DEF Queue!Initialized
    <3> QED
      BY <1>1, <3>2
  <2> QED
    BY <2>1, <2>2 DEF Queue!OpenIsOwned
<1> QED
  BY <1>1, <1>2, <1>3, <1>4 DEF Queue!OpenIsOwned

\* A rollback is over: no start is under way, and what was registered is taken.
LEMMA RollbackKeeps ==
  ASSUME QueueGuards, NEW c \in Callers, Rolls(c), Queue!RolledBack(c), NoneRegistered', Queue!OpenIsOwned', QueueTyped',
         UNCHANGED <<phase, left, building, jobOf, open, scheduled, running, waitsFor, stop, letter>>,
         closing'[c] = {}, \A b \in Queue!Actors : b # c => closing'[b] = closing[b]
  PROVE  QueueInv'
<1> USE DEF QueueGuards, QueueInv, Queue!RolledBack
<1>1. /\ \A d \in Callers : d # c => caller'[d] = caller[d]
      /\ caller'[c] = "refused"
  BY DEF QueueTyped
<1>2. Queue!InFlight = {} /\ Queue!InFlight' = {} /\ ~Succeeded /\ ~Succeeded'
  BY DEF QueueStartInv, WorkerInv, Queue!InFlight, Succeeded
<1>3. lifecycleState' = (IF lifecycleState = "starting" THEN "idle" ELSE lifecycleState)
  BY DEF Queue!AfterRollback
<1>4. QueueStartInv'
  <2>1. lifecycleState' # "starting" /\ startPromise' = 0
    BY <1>3
  <2>2. (lifecycleState' \in {"idle", "starting", "started"}) <=> (stop' = "no")
    BY <1>3 DEF QueueStartInv
  <2>3. \A d \in Callers : caller'[d] = "waiting" => waitsFor'[d] # 0 /\ phase'[waitsFor'[d]] # "unused"
    BY <1>1 DEF QueueStartInv
  <2> QED
    BY <1>2, <2>1, <2>2, <2>3 DEF QueueStartInv
<1>5. WorkerInv'
  BY <1>2, <1>3 DEF WorkerInv
<1>6. ResourceInv'
  <2>1. \A d \in Callers : caller'[d] # "closing" => closing'[d] = {}
    BY <1>1 DEF ResourceInv, Queue!Actors
  <2>2. /\ ShutdownCall \in Queue!Actors /\ ShutdownCall # c
        /\ \A s \in Queue!Starts : s \in Queue!Actors /\ s # c
    BY DEF Queue!Actors, Queue!QueueAssumption, Queue!Starts
  <2>3. /\ closing'[ShutdownCall] = closing[ShutdownCall]
        /\ \A s \in Queue!Starts : closing'[s] = closing[s]
    BY <2>2
  <2>4. \A s \in Queue!Starts : phase[s] \notin {"resolving", "opening", "cleaning"}
    BY <1>2 DEF Queue!InFlight
  <2> QED
    BY <1>2, <2>1, <2>3, <2>4 DEF ResourceInv
<1>7. Queue!LettersReachRedis'
  BY DEF Queue!LettersReachRedis
<1> QED
  BY <1>4, <1>5, <1>6, <1>7

LEMMA FailedKeeps ==
  ASSUME QueueGuards, NEW c \in Callers, Queue!StartFailed(c)
  PROVE  QueueInv'
<1> USE DEF QueueGuards, QueueInv
<1>0. /\ caller[c] = "waiting" /\ Rolls(c) /\ Queue!InFlight = {} /\ ~Succeeded /\ c \in Queue!Actors
      /\ closing[c] = {} /\ Queue!TakesAll(c)
      /\ UNCHANGED <<phase, left, building, jobOf, open, scheduled, ready, running, waitsFor, stop, letter>>
  BY DEF Queue!StartFailed, Rolls, QueueStartInv, WorkerInv, ResourceInv, Queue!InFlight, Queue!Actors,
     Queue!starts, Queue!workers, Queue!letters
<1>1. /\ Queue!OpenIsOwned' /\ NoneRegistered'
      /\ \A b \in Queue!Actors : b # c => closing'[b] = closing[b]
      /\ closing'[c] = Queue!Initialized /\ closing'[c] \subseteq Queue!Resources
      /\ current' \in [Jobs -> {0} \cup Queue!Sets] /\ owned' = {} /\ readyWorkers' = {}
  BY <1>0, TakesAllKeeps
<1>2. closing' \in [Queue!Actors -> SUBSET Queue!Resources]
  <2>1. closing' = [closing EXCEPT ![c] = Queue!Initialized]
    BY <1>0 DEF Queue!TakesAll
  <2> QED
    BY <1>1, <2>1 DEF QueueTyped
<1>3. CASE Queue!Initialized = {}
  <2>1. Queue!RolledBack(c)
    BY <1>3 DEF Queue!StartFailed
  <2>2. QueueTyped'
    BY <1>0, <1>1, <1>2, <2>1 DEF QueueTyped, Queue!RolledBack
  <2> QED
    BY <1>0, <1>1, <1>3, <2>1, <2>2, RollbackKeeps
<1>4. CASE Queue!Initialized # {}
  <2>1. caller' = [caller EXCEPT ![c] = "closing"] /\ UNCHANGED <<lifecycleState, startPromise, redisClient>>
    BY <1>4 DEF Queue!StartFailed
  <2>2. /\ \A d \in Callers : d # c => caller'[d] = caller[d]
        /\ caller'[c] = "closing"
    BY <2>1 DEF QueueTyped
  <2>3. QueueTyped'
    BY <1>0, <1>1, <1>2, <2>1 DEF QueueTyped
  <2>4. Queue!InFlight' = {} /\ ~Succeeded'
    BY <1>0 DEF Queue!InFlight, Succeeded
  <2>5. QueueStartInv'
    BY <1>0, <1>1, <2>1, <2>2, <2>4 DEF QueueStartInv, Rolls
  <2>6. WorkerInv'
    BY <1>0, <2>1, <2>4 DEF WorkerInv
  <2>7. ResourceInv'
    <3>1. \A d \in Callers : caller'[d] # "closing" => closing'[d] = {}
      BY <1>1, <2>2 DEF ResourceInv, Queue!Actors
    <3>2. /\ ShutdownCall \in Queue!Actors /\ ShutdownCall # c
          /\ \A s \in Queue!Starts : s \in Queue!Actors /\ s # c
      BY DEF Queue!Actors, Queue!QueueAssumption, Queue!Starts
    <3>3. /\ closing'[ShutdownCall] = closing[ShutdownCall]
          /\ \A s \in Queue!Starts : closing'[s] = closing[s]
      BY <1>1, <3>2
    <3>4. \A s \in Queue!Starts : phase[s] \notin {"resolving", "opening", "cleaning"}
      BY <1>0 DEF Queue!InFlight
    <3> QED
      BY <1>0, <2>4, <3>1, <3>3, <3>4 DEF ResourceInv
  <2> QED
    BY <1>0, <1>1, <2>1, <2>3, <2>5, <2>6, <2>7 DEF Queue!LettersReachRedis
<1> QED
  BY <1>3, <1>4

LEMMA HandledKeeps ==
  ASSUME QueueGuards, NEW c \in Callers, Queue!StartupFailureHandled(c)
  PROVE  QueueInv'
<1> USE DEF QueueGuards, QueueInv
<1>1. /\ Rolls(c) /\ closing[c] = {} /\ NoneRegistered /\ Queue!RolledBack(c)
      /\ UNCHANGED <<current, owned, readyWorkers, phase, left, building, jobOf, open, scheduled, ready, running,
                     closing, waitsFor, stop, letter>>
  BY DEF Queue!StartupFailureHandled, Rolls, QueueStartInv, Queue!registry, Queue!starts, Queue!workers, Queue!letters
<1>2. NoneRegistered' /\ Queue!OpenIsOwned'
  BY <1>1 DEF NoneRegistered, Queue!OpenIsOwned, Queue!Registered, Queue!InFlight
<1>3. QueueTyped'
  BY <1>1 DEF QueueTyped, Queue!RolledBack
<1> QED
  BY <1>1, <1>2, <1>3, RollbackKeeps

LEMMA ResolveKeeps ==
  ASSUME QueueGuards, NEW s \in Queue!Starts, Queue!ResolveClient(s)
  PROVE  QueueInv'
<1> USE DEF QueueGuards, QueueInv, Queue!registry, Queue!workers, Queue!callers, Queue!letters
<1>0. /\ Queue!InFlight = {s} /\ startPromise = s /\ s # 0 /\ ~Succeeded /\ NoneRegistered /\ building[s] = 0
      /\ \A c \in Callers : ~Rolls(c)
      /\ UNCHANGED <<lifecycleState, startPromise, current, owned, readyWorkers, building, jobOf, open, scheduled, running,
                     closing, caller, waitsFor, stop, letter>>
  BY DEF Queue!ResolveClient, QueueStartInv, WorkerInv, ResourceInv, Queue!InFlight, Queue!Starts
<1>1. /\ phase'[s] \in {"opening", "failed"}
      /\ phase'[s] = "opening" => redisClient'
      /\ \A t \in Queue!Starts : t # s => phase'[t] = phase[t] /\ left'[t] = left[t]
      /\ redisClient => redisClient'
      /\ left'[s] \subseteq Jobs
  BY <1>0 DEF Queue!ResolveClient, QueueTyped, Queue!InFlight
<1>2. QueueTyped'
  BY <1>0 DEF Queue!ResolveClient, QueueTyped
<1>3. ~Succeeded' /\ Queue!InFlight' \subseteq {s}
  BY <1>0, <1>1 DEF Succeeded, Queue!InFlight
<1>4. QueueStartInv'
  <2>1. ASSUME NEW c \in Callers, caller[c] = "waiting"
        PROVE  waitsFor[c] \in Queue!Starts /\ phase'[waitsFor[c]] # "unused" /\ (phase'[s] = "opening" => ~Rolls(c)')
    <3>1. waitsFor[c] \in Queue!Starts
      BY <2>1 DEF QueueTyped, QueueStartInv, Queue!Waiters
    <3> QED
      BY <1>0, <1>1, <2>1, <3>1 DEF QueueStartInv, Rolls
  <2>2. \A c \in Callers : caller[c] # "closing"
    BY <1>0 DEF Rolls
  <2>3. \A t \in Queue!InFlight' : t = s /\ phase'[s] = "opening"
    BY <1>1, <1>3 DEF Queue!InFlight
  <2>4. \A t \in Queue!InFlight' :
          /\ startPromise' = t /\ lifecycleState' \in {"starting", "stopping"} /\ \A c \in Callers : ~Rolls(c)'
          /\ stop' \in {"no", "waiting"} /\ (stop' = "waiting" => waitsFor'[ShutdownCall] = t)
    BY <1>0, <2>1, <2>2, <2>3 DEF QueueStartInv, Rolls
  <2>5. NoneRegistered'
    BY <1>0 DEF NoneRegistered
  <2> QED
    BY <1>0, <1>1, <2>1, <2>2, <2>4, <2>5 DEF QueueStartInv
<1>5. ResourceInv'
  <2>1. NoneRegistered'
    BY <1>0 DEF NoneRegistered
  <2>2. ASSUME NEW t \in Queue!Starts
        PROVE  building'[t] = 0 /\ phase'[t] # "cleaning" /\ phase[t] # "cleaning"
    <3>1. t # s => t \notin Queue!InFlight
      BY <1>0
    <3>2. t # s => phase[t] # "cleaning" /\ building[t] = 0
      BY <3>1 DEF Queue!InFlight, ResourceInv
    <3>3. phase[s] = "resolving"
      BY DEF Queue!ResolveClient
    <3> QED
      BY <1>0, <1>1, <3>2, <3>3
  <2>3. \A t \in Queue!Starts : phase'[t] = "opening" => redisClient' /\ \A j \in left'[t] : current'[j] = 0
    BY <1>0, <1>1, <2>1 DEF NoneRegistered, Queue!InFlight
  <2>4. \A t \in Queue!Starts : closing'[t] = {}
    BY <1>0, <2>2 DEF ResourceInv
  <2> QED
    BY <1>0, <2>1, <2>2, <2>3, <2>4 DEF ResourceInv
<1>6. Queue!OpenIsOwned'
  <2>1. \A t \in Queue!InFlight' \cup Queue!InFlight : building[t] = 0
    BY <1>0, <1>3
  <2>2. \A r \in open : r[2] # 0
    BY DEF QueueTyped, Queue!Resources, Queue!Sets
  <2> QED
    BY <1>0, <1>3, <2>1, <2>2 DEF Queue!OpenIsOwned, Queue!Registered
<1> QED
  BY <1>0, <1>1, <1>2, <1>3, <1>4, <1>5, <1>6 DEF WorkerInv, Queue!LettersReachRedis

\* What holds of the one start under way.
LEMMA TheStart ==
  ASSUME QueueGuards, NEW s \in Queue!InFlight
  PROVE  /\ Queue!InFlight = {s} /\ startPromise = s /\ s # 0 /\ ~Succeeded /\ s \in Queue!Starts /\ s \in Queue!Actors
         /\ lifecycleState \in {"starting", "stopping"} /\ stop \in {"no", "waiting"}
         /\ \A c \in Callers : ~Rolls(c) /\ caller[c] # "closing" /\ c # s
         /\ \A t \in Queue!Starts : t # s => building[t] = 0 /\ phase[t] \in {"unused", "ok", "failed"} /\ closing[t] = {}
         /\ stop = "waiting" => waitsFor[ShutdownCall] = s
<1> USE DEF QueueGuards, QueueInv
<1>1. s \in Queue!Starts /\ s # 0 /\ s \in Queue!Actors /\ \A c \in Callers : c # s
  BY DEF Queue!InFlight, Queue!Starts, Queue!Actors, Queue!QueueAssumption
<1>2. Queue!InFlight = {s} /\ startPromise = s
  BY DEF QueueStartInv
<1>3. \A t \in Queue!Starts : t # s => phase[t] \in {"unused", "ok", "failed"}
  BY <1>2 DEF Queue!InFlight, QueueTyped
<1>4. \A t \in Queue!Starts : t # s => building[t] = 0 /\ closing[t] = {}
  BY <1>2, <1>3 DEF ResourceInv
<1> QED
  BY <1>1, <1>2, <1>3, <1>4 DEF QueueStartInv, WorkerInv, Rolls

\* The start under way goes on: what it does not fail of stays.
LEMMA StartGoesOn ==
  ASSUME QueueGuards, NEW s \in Queue!InFlight, phase'[s] \in {"opening", "cleaning"},
         \A t \in Queue!Starts : t # s => phase'[t] = phase[t],
         UNCHANGED <<lifecycleState, startPromise, scheduled, running, caller, waitsFor, stop>>
  PROVE  /\ QueueStartInv' /\ WorkerInv' /\ Queue!InFlight' = {s}
         /\ \A t \in Queue!Starts : t # s => phase'[t] \in {"unused", "ok", "failed"}
<1> USE DEF QueueGuards, QueueInv
<1>1. /\ Queue!InFlight = {s} /\ startPromise = s /\ s # 0 /\ ~Succeeded /\ s \in Queue!Starts
      /\ lifecycleState \in {"starting", "stopping"} /\ stop \in {"no", "waiting"}
      /\ \A c \in Callers : ~Rolls(c) /\ caller[c] # "closing" /\ c # s
      /\ \A t \in Queue!Starts : t # s => building[t] = 0 /\ phase[t] \in {"unused", "ok", "failed"} /\ closing[t] = {}
      /\ stop = "waiting" => waitsFor[ShutdownCall] = s
  BY TheStart
<1>2. Queue!InFlight' = {s} /\ ~Succeeded'
  BY <1>1 DEF Queue!InFlight, Succeeded
<1>3. ASSUME NEW c \in Callers, caller[c] = "waiting"
      PROVE  waitsFor[c] # 0 /\ phase'[waitsFor[c]] # "unused" /\ ~Rolls(c)'
  <2>1. waitsFor[c] \in Queue!Starts /\ waitsFor[c] # 0
    BY <1>3 DEF QueueTyped, QueueStartInv, Queue!Waiters
  <2> QED
    BY <1>1, <1>3, <2>1 DEF QueueStartInv, Rolls
<1>4. \A c \in Callers : ~Rolls(c)'
  BY <1>1, <1>3 DEF Rolls
<1>5. QueueStartInv'
  BY <1>1, <1>2, <1>3, <1>4 DEF QueueStartInv
<1> QED
  BY <1>1, <1>2, <1>5 DEF WorkerInv

LEMMA QueueCardinality == \A S : Queue!Cardinality(S) = Cardinality(S)
BY DEF Queue!Cardinality, Cardinality

LEMMA OpenQueueKeeps ==
  ASSUME QueueGuards, NEW s \in Queue!Starts, Queue!OpenQueueConnection(s)
  PROVE  QueueInv'
<1> USE DEF QueueGuards, QueueInv, Queue!registry, Queue!workers, Queue!callers, Queue!letters
<1>0. /\ s \in Queue!InFlight /\ phase[s] = "opening" /\ building[s] = 0 /\ closing[s] = {} /\ redisClient
      /\ UNCHANGED <<lifecycleState, startPromise, redisClient, current, owned, readyWorkers, scheduled, running,
                     caller, waitsFor, stop, letter>>
  BY DEF Queue!OpenQueueConnection, ResourceInv, Queue!InFlight
<1>1. /\ Queue!InFlight = {s} /\ \A c \in Callers : caller[c] # "closing" /\ c # s
      /\ \A t \in Queue!Starts : t # s => building[t] = 0 /\ closing[t] = {}
  BY <1>0, TheStart
<1>2. PICK n \in 0 .. MaxSets : jobOf \in [1 .. n -> Jobs]
  BY DEF QueueTyped
<1>3. Queue!Cardinality(DOMAIN jobOf) = n /\ n < MaxSets /\ n + 1 \in Queue!Sets /\ n + 1 \in 0 .. MaxSets
  <2>1. DOMAIN jobOf = 1 .. n /\ n \in Int /\ MaxSets \in Nat
    BY <1>2 DEF Queue!QueueAssumption
  <2>2. Queue!Cardinality(1 .. n) = n
    BY <2>1, FS_Interval, QueueCardinality
  <2>3. Queue!Cardinality(DOMAIN jobOf) < MaxSets
    BY ONLY Queue!OpenQueueConnection(s) DEF Queue!OpenQueueConnection
  <2> QED
    BY <2>1, <2>2, <2>3 DEF Queue!Sets
<1>4. CASE Queue!GivesUp(s, {}) /\ UNCHANGED <<jobOf, left, building, open>>
  <2>1. /\ phase'[s] = "cleaning" /\ closing' = closing
        /\ \A t \in Queue!Starts : t # s => phase'[t] = phase[t]
    BY <1>0, <1>4 DEF Queue!GivesUp, QueueTyped, Queue!Actors
  <2>2. QueueTyped'
    BY <1>0, <1>4, <2>1 DEF QueueTyped, Queue!GivesUp
  <2>3. /\ QueueStartInv' /\ WorkerInv' /\ Queue!InFlight' = {s}
        /\ \A t \in Queue!Starts : t # s => phase'[t] \in {"unused", "ok", "failed"}
    BY <1>0, <2>1, StartGoesOn
  <2>4. ResourceInv'
    <3>1. \A r \in open : r[2] # 0
      BY DEF QueueTyped, Queue!Resources, Queue!Sets
    <3> QED
      BY <1>0, <1>1, <1>4, <2>1, <2>3, <3>1 DEF ResourceInv
  <2>5. Queue!OpenIsOwned'
    BY <1>0, <1>1, <1>4, <2>1, <2>3 DEF Queue!OpenIsOwned, Queue!Registered
  <2> QED
    BY <1>0, <2>2, <2>3, <2>4, <2>5 DEF Queue!LettersReachRedis
<1>5. ASSUME NEW j \in left[s],
             jobOf' = [k \in 1 .. (n + 1) |-> IF k = n + 1 THEN j ELSE jobOf[k]],
             left' = [left EXCEPT ![s] = @ \ {j}], building' = [building EXCEPT ![s] = n + 1],
             open' = open \cup {<<"queueConnection", n + 1>>}, UNCHANGED <<phase, closing>>
      PROVE  QueueInv'
  <2>1. left[s] \subseteq Jobs /\ current[j] = 0
    BY <1>0 DEF QueueTyped, ResourceInv
  <2>2. QueueTyped'
    <3>1. jobOf' \in [1 .. (n + 1) -> Jobs]
      BY <1>2, <1>5, <2>1
    <3>2. \E m \in 0 .. MaxSets : jobOf' \in [1 .. m -> Jobs]
      BY <1>3, <3>1
    <3>3. open' \subseteq Queue!Resources
      BY <1>3, <1>5 DEF QueueTyped, Queue!Resources, Queue!Kinds, Queue!Rank
    <3> QED
      BY <1>0, <1>3, <1>5, <3>2, <3>3 DEF QueueTyped
  <2>3. /\ QueueStartInv' /\ WorkerInv' /\ Queue!InFlight' = {s}
        /\ \A t \in Queue!Starts : t # s => phase'[t] \in {"unused", "ok", "failed"}
    BY <1>0, <1>5, StartGoesOn
  <2>4. /\ building'[s] = n + 1 /\ left'[s] = left[s] \ {j} /\ jobOf'[n + 1] = j /\ n + 1 \in DOMAIN jobOf' /\ n + 1 # 0
        /\ \A t \in Queue!Starts : t # s => building'[t] = building[t] /\ left'[t] = left[t]
    BY <1>3, <1>5 DEF QueueTyped
  <2>5. ResourceInv'
    <3>1. \A i \in left'[s] : current'[i] = 0
      BY <1>0, <2>4 DEF ResourceInv
    <3> QED
      BY <1>0, <1>1, <1>5, <2>1, <2>3, <2>4, <3>1 DEF ResourceInv
  <2>6. Queue!OpenIsOwned'
    <3>1. ASSUME NEW r \in open, NEW t \in Queue!InFlight PROVE r[2] # building[t]
      BY <1>0, <1>1 DEF QueueTyped, Queue!Resources, Queue!Sets
    <3>2. \A r \in open : \/ r[1] \in {"worker", "queue"} /\ r[2] \in Queue!Registered'
                          \/ r[1] \in {"workerConnection", "queueConnection"} /\ r[2] \in owned'
                          \/ \E a \in Queue!Actors : r \in closing'[a]
      BY <1>0, <1>5, <3>1 DEF Queue!OpenIsOwned, Queue!Registered
    <3>3. \A r \in open' : r \in open \/ r[2] = building'[s]
      BY <1>5, <2>4
    <3> QED
      BY <2>3, <3>2, <3>3 DEF Queue!OpenIsOwned
  <2> QED
    BY <1>0, <2>2, <2>3, <2>5, <2>6 DEF Queue!LettersReachRedis
<1> QED
  <2>1. \/ \E j \in left[s] :
             /\ jobOf' = [k \in 1 .. (n + 1) |-> IF k = n + 1 THEN j ELSE jobOf[k]]
             /\ left' = [left EXCEPT ![s] = @ \ {j}]
             /\ building' = [building EXCEPT ![s] = n + 1]
             /\ open' = open \cup {<<"queueConnection", n + 1>>}
             /\ UNCHANGED <<phase, closing>>
        \/ Queue!GivesUp(s, {}) /\ UNCHANGED <<jobOf, left, building, open>>
    <3>1. Queue!Cardinality(DOMAIN jobOf) = n
      BY <1>3
    <3> QED
      BY ONLY <3>1, Queue!OpenQueueConnection(s) DEF Queue!OpenQueueConnection
  <2> QED
    BY <2>1, <1>4, <1>5

LEMMA OpenWorkerKeeps ==
  ASSUME QueueGuards, NEW s \in Queue!Starts, Queue!OpenWorkerConnection(s)
  PROVE  QueueInv'
<1> USE DEF QueueGuards, QueueInv, Queue!registry, Queue!workers, Queue!callers, Queue!letters
<1>0. /\ s \in Queue!InFlight /\ phase[s] = "opening" /\ building[s] # 0 /\ closing[s] = {} /\ redisClient
      /\ UNCHANGED <<lifecycleState, startPromise, redisClient, current, owned, readyWorkers, left, building, jobOf,
                     scheduled, running, caller, waitsFor, stop, letter>>
  BY DEF Queue!OpenWorkerConnection, ResourceInv, Queue!InFlight
<1>1. /\ Queue!InFlight = {s} /\ s \in Queue!Actors /\ \A c \in Callers : caller[c] # "closing" /\ c # s
      /\ \A t \in Queue!Starts : t # s => building[t] = 0 /\ closing[t] = {}
  BY <1>0, TheStart
<1>2. building[s] \in Queue!Sets
  BY <1>0 DEF QueueTyped
<1>3. CASE Queue!GivesUp(s, Queue!Opened(building[s])) /\ UNCHANGED open
  <2>1. /\ phase'[s] = "cleaning" /\ closing'[s] = Queue!Opened(building[s])
        /\ \A t \in Queue!Starts : t # s => phase'[t] = phase[t]
        /\ \A a \in Queue!Actors : a # s => closing'[a] = closing[a]
    BY <1>1, <1>3 DEF Queue!GivesUp, QueueTyped
  <2>2. QueueTyped'
    <3>1. Queue!Opened(building[s]) \subseteq Queue!Resources
      BY DEF Queue!Opened, QueueTyped
    <3> QED
      BY <1>0, <1>3, <3>1 DEF QueueTyped, Queue!GivesUp
  <2>3. /\ QueueStartInv' /\ WorkerInv' /\ Queue!InFlight' = {s}
        /\ \A t \in Queue!Starts : t # s => phase'[t] \in {"unused", "ok", "failed"}
    BY <1>0, <2>1, StartGoesOn
  <2>4. ResourceInv'
    <3>1. \A r \in open' : r[2] = building'[s] => r \in closing'[s]
      BY <1>0, <1>3, <2>1 DEF Queue!Opened, QueueTyped, Queue!Resources
    <3>2. /\ ShutdownCall \in Queue!Actors /\ ShutdownCall # s
          /\ \A c \in Callers : c \in Queue!Actors /\ c # s
          /\ \A t \in Queue!Starts : t \in Queue!Actors
      BY <1>1 DEF Queue!Actors, Queue!QueueAssumption, Queue!Starts
    <3> QED
      BY <1>0, <1>1, <2>1, <2>3, <3>1, <3>2 DEF ResourceInv
  <2>5. Queue!OpenIsOwned'
    <3>1. \A a \in Queue!Actors : closing[a] \subseteq closing'[a]
      BY <1>0, <2>1
    <3> QED
      BY <1>0, <1>1, <1>3, <2>3, <3>1 DEF Queue!OpenIsOwned, Queue!Registered
  <2> QED
    BY <1>0, <2>2, <2>3, <2>4, <2>5 DEF Queue!LettersReachRedis
<1>4. CASE open' = open \cup {<<"workerConnection", building[s]>>} /\ UNCHANGED <<phase, closing>>
  <2>1. QueueTyped'
    <3>1. open' \subseteq Queue!Resources
      BY <1>2, <1>4 DEF QueueTyped, Queue!Resources, Queue!Kinds, Queue!Rank
    <3> QED
      BY <1>0, <1>4, <3>1 DEF QueueTyped
  <2>2. /\ QueueStartInv' /\ WorkerInv' /\ Queue!InFlight' = {s}
        /\ \A t \in Queue!Starts : t # s => phase'[t] \in {"unused", "ok", "failed"}
    BY <1>0, <1>4, StartGoesOn
  <2>3. ResourceInv'
    BY <1>0, <1>1, <1>4, <2>2 DEF ResourceInv, NoneRegistered
  <2>4. Queue!OpenIsOwned'
    BY <1>0, <1>1, <1>4, <2>2 DEF Queue!OpenIsOwned, Queue!Registered
  <2> QED
    BY <1>0, <2>1, <2>2, <2>3, <2>4 DEF Queue!LettersReachRedis
<1> QED
  BY <1>3, <1>4 DEF Queue!OpenWorkerConnection

LEMMA RegisterKeeps ==
  ASSUME QueueGuards, NEW s \in Queue!Starts, Queue!RegisterInitializedWorker(s)
  PROVE  QueueInv'
<1> USE DEF QueueGuards, QueueInv, Queue!workers, Queue!callers, Queue!letters
<1> DEFINE i == building[s]
<1>0. /\ s \in Queue!InFlight /\ phase[s] = "opening" /\ i # 0 /\ closing[s] = {} /\ redisClient
      /\ UNCHANGED <<lifecycleState, startPromise, redisClient, left, jobOf, scheduled, running, caller, waitsFor, stop, letter>>
  BY DEF Queue!RegisterInitializedWorker, ResourceInv, Queue!InFlight
<1>1. /\ Queue!InFlight = {s} /\ s \in Queue!Actors /\ \A c \in Callers : caller[c] # "closing" /\ c # s
      /\ \A t \in Queue!Starts : t # s => building[t] = 0 /\ closing[t] = {}
      /\ lifecycleState \in {"starting", "stopping"}
  BY <1>0, TheStart
<1>2. i \in Queue!Sets /\ i \in DOMAIN jobOf /\ jobOf[i] \in Jobs /\ jobOf[i] \notin left[s] /\ current[jobOf[i]] = 0
  BY <1>0 DEF QueueTyped, ResourceInv
<1>3. CASE /\ open' = open \cup {<<"queue", i>>}
           /\ Queue!GivesUp(s, Queue!Opened(i) \cup {<<"queue", i>>})
           /\ UNCHANGED <<current, owned, readyWorkers, building>>
  <2>1. /\ phase'[s] = "cleaning" /\ closing'[s] = Queue!Opened(i) \cup {<<"queue", i>>}
        /\ \A t \in Queue!Starts : t # s => phase'[t] = phase[t]
        /\ \A a \in Queue!Actors : a # s => closing'[a] = closing[a]
    BY <1>1, <1>3 DEF Queue!GivesUp, QueueTyped
  <2>2. QueueTyped'
    <3>1. Queue!Opened(i) \cup {<<"queue", i>>} \subseteq Queue!Resources /\ open' \subseteq Queue!Resources
      BY <1>2, <1>3 DEF Queue!Opened, QueueTyped, Queue!Resources, Queue!Kinds, Queue!Rank
    <3> QED
      BY <1>0, <1>3, <3>1 DEF QueueTyped, Queue!GivesUp
  <2>3. /\ QueueStartInv' /\ WorkerInv' /\ Queue!InFlight' = {s}
        /\ \A t \in Queue!Starts : t # s => phase'[t] \in {"unused", "ok", "failed"}
    BY <1>0, <2>1, StartGoesOn
  <2>4. ResourceInv'
    <3>1. \A r \in open' : r[2] = building'[s] => r \in closing'[s]
      BY <1>0, <1>3, <2>1 DEF Queue!Opened, QueueTyped, Queue!Resources
    <3>2. /\ ShutdownCall \in Queue!Actors /\ ShutdownCall # s
          /\ \A c \in Callers : c \in Queue!Actors /\ c # s
          /\ \A t \in Queue!Starts : t \in Queue!Actors
      BY <1>1 DEF Queue!Actors, Queue!QueueAssumption, Queue!Starts
    <3> QED
      BY <1>0, <1>1, <1>3, <2>1, <2>3, <3>1, <3>2 DEF ResourceInv
  <2>5. Queue!OpenIsOwned'
    <3>1. \A a \in Queue!Actors : closing[a] \subseteq closing'[a]
      BY <1>0, <2>1
    <3> QED
      BY <1>0, <1>1, <1>3, <2>1, <2>3, <3>1 DEF Queue!OpenIsOwned, Queue!Registered
  <2> QED
    BY <1>0, <2>2, <2>3, <2>4, <2>5 DEF Queue!LettersReachRedis
<1>4. CASE /\ open' = open \cup {<<"queue", i>>, <<"worker", i>>}
           /\ current' = [current EXCEPT ![jobOf[i]] = i]
           /\ owned' = owned \cup {i} /\ readyWorkers' = readyWorkers \cup {i}
           /\ building' = [building EXCEPT ![s] = 0]
           /\ UNCHANGED <<phase, closing>>
  <2>1. QueueTyped'
    <3>1. open' \subseteq Queue!Resources
      BY <1>2, <1>4 DEF QueueTyped, Queue!Resources, Queue!Kinds, Queue!Rank
    <3> QED
      BY <1>0, <1>2, <1>4, <3>1 DEF QueueTyped
  <2>2. /\ QueueStartInv' /\ WorkerInv' /\ Queue!InFlight' = {s}
        /\ \A t \in Queue!Starts : t # s => phase'[t] \in {"unused", "ok", "failed"}
    BY <1>0, <1>4, StartGoesOn
  <2>3. /\ building'[s] = 0 /\ \A t \in Queue!Starts : t # s => building'[t] = building[t]
        /\ current'[jobOf[i]] = i /\ \A j \in Jobs : j # jobOf[i] => current'[j] = current[j]
    BY <1>2, <1>4 DEF QueueTyped
  <2>4. ResourceInv'
    <3>1. \A j \in left[s] : current'[j] = 0
      BY <1>0, <1>2, <2>3 DEF ResourceInv, QueueTyped
    <3> QED
      BY <1>0, <1>1, <1>4, <2>2, <2>3, <3>1 DEF ResourceInv
  <2>5. Queue!OpenIsOwned'
    <3>1. Queue!Registered \subseteq Queue!Registered' /\ i \in Queue!Registered'
      <4>1. \A x : x \in Queue!Registered <=> x # 0 /\ \E j \in Jobs : current[j] = x
        BY QueueRegistered
      <4>2. \A x : x \in Queue!Registered' <=> x # 0 /\ \E j \in Jobs : current'[j] = x
        BY <2>1 DEF QueueTyped, Queue!Registered, Queue!Range
      <4> QED
        BY <1>0, <1>2, <2>3, <4>1, <4>2
    <3>2. ASSUME NEW r \in open', r[2] # i
          PROVE  \/ r[1] \in {"worker", "queue"} /\ r[2] \in Queue!Registered'
                 \/ r[1] \in {"workerConnection", "queueConnection"} /\ r[2] \in owned'
                 \/ \E a \in Queue!Actors : r \in closing'[a]
      <4>1. r \in open
        BY <1>4, <3>2
      <4>2. \A t \in Queue!InFlight : building[t] # r[2]
        BY <1>1, <3>2
      <4> QED
        BY <1>4, <3>1, <4>1, <4>2 DEF Queue!OpenIsOwned
    <3>3. ASSUME NEW r \in open', r[2] = i
          PROVE  \/ r[1] \in {"worker", "queue"} /\ r[2] \in Queue!Registered'
                 \/ r[1] \in {"workerConnection", "queueConnection"} /\ r[2] \in owned'
      BY <1>4, <2>1, <3>1, <3>3 DEF QueueTyped, Queue!Resources, Queue!Kinds, Queue!Rank
    <3> QED
      BY <3>2, <3>3 DEF Queue!OpenIsOwned
  <2> QED
    BY <1>0, <2>1, <2>2, <2>4, <2>5 DEF Queue!LettersReachRedis
<1> QED
  BY <1>3, <1>4 DEF Queue!RegisterInitializedWorker, Queue!registry

LEMMA CleanedKeeps ==
  ASSUME QueueGuards, NEW s \in Queue!Starts, Queue!CleanedUp(s)
  PROVE  QueueInv'
<1> USE DEF QueueGuards, QueueInv, Queue!registry, Queue!workers, Queue!callers, Queue!letters
<1>0. /\ s \in Queue!InFlight /\ phase[s] = "cleaning" /\ closing[s] = {}
      /\ phase' = [phase EXCEPT ![s] = "failed"] /\ building' = [building EXCEPT ![s] = 0]
      /\ UNCHANGED <<lifecycleState, startPromise, redisClient, current, owned, readyWorkers, left, jobOf, open, scheduled,
                     running, closing, caller, waitsFor, stop, letter>>
  BY DEF Queue!CleanedUp, Queue!InFlight
<1>1. /\ Queue!InFlight = {s} /\ ~Succeeded /\ startPromise = s /\ \A c \in Callers : caller[c] # "closing"
      /\ lifecycleState \in {"starting", "stopping"}
      /\ \A t \in Queue!Starts : t # s => building[t] = 0 /\ phase[t] \in {"unused", "ok", "failed"} /\ closing[t] = {}
  BY <1>0, TheStart
<1>2. /\ phase'[s] = "failed" /\ building'[s] = 0
      /\ \A t \in Queue!Starts : t # s => phase'[t] = phase[t] /\ building'[t] = building[t]
  BY <1>0 DEF QueueTyped
<1>3. Queue!InFlight' = {} /\ ~Succeeded'
  BY <1>1, <1>2 DEF Queue!InFlight, Succeeded
<1>4. QueueTyped'
  BY <1>0 DEF QueueTyped
<1>5. QueueStartInv'
  <2>1. ASSUME NEW c \in Callers, caller[c] = "waiting" PROVE waitsFor[c] # 0 /\ phase'[waitsFor[c]] # "unused"
    BY <1>2, <2>1 DEF QueueStartInv, QueueTyped, Queue!Waiters
  <2> QED
    BY <1>0, <1>1, <1>2, <1>3, <2>1 DEF QueueStartInv
<1>6. ResourceInv'
  BY <1>0, <1>1, <1>2, <1>3 DEF ResourceInv
<1>7. Queue!OpenIsOwned'
  <2>1. \A r \in open : r[2] # building[s]
    BY <1>0 DEF ResourceInv
  <2> QED
    BY <1>0, <1>1, <2>1 DEF Queue!OpenIsOwned, Queue!Registered
<1> QED
  BY <1>0, <1>1, <1>3, <1>4, <1>5, <1>6, <1>7 DEF WorkerInv, Queue!LettersReachRedis

LEMMA FinishKeeps ==
  ASSUME QueueGuards, NEW s \in Queue!Starts, Queue!FinishStart(s)
  PROVE  QueueInv'
<1> USE DEF QueueGuards, QueueInv, Queue!callers, Queue!letters
<1>0. /\ s \in Queue!InFlight /\ phase[s] = "opening" /\ building[s] = 0 /\ redisClient /\ closing[s] = {}
      /\ phase' = [phase EXCEPT ![s] = "ok"]
      /\ lifecycleState' = (IF lifecycleState = "starting" THEN "started" ELSE lifecycleState)
      /\ scheduled' \in {scheduled, [scheduled EXCEPT ![s] = readyWorkers]} /\ readyWorkers' \in {readyWorkers, {}}
      /\ UNCHANGED <<startPromise, redisClient, current, owned, left, building, jobOf, open, running, closing,
                     caller, waitsFor, stop, letter>>
  BY DEF Queue!FinishStart, Queue!StateOnceOpen, Queue!InFlight, ResourceInv
<1>1. /\ Queue!InFlight = {s} /\ startPromise = s /\ \A c \in Callers : caller[c] # "closing" /\ ~Rolls(c)
      /\ lifecycleState \in {"starting", "stopping"}
      /\ \A t \in Queue!Starts : t # s => building[t] = 0 /\ phase[t] \in {"unused", "ok", "failed"} /\ closing[t] = {}
  BY <1>0, TheStart
<1>2. phase'[s] = "ok" /\ \A t \in Queue!Starts : t # s => phase'[t] = phase[t]
  BY <1>0 DEF QueueTyped
<1>3. Queue!InFlight' = {} /\ Succeeded'
  BY <1>1, <1>2 DEF Queue!InFlight, Succeeded
<1>4. QueueTyped'
  <2>1. scheduled' \in [Queue!Starts -> SUBSET Queue!Sets] /\ readyWorkers' \subseteq Queue!Sets
    BY <1>0 DEF QueueTyped
  <2> QED
    BY <1>0, <2>1 DEF QueueTyped
<1>5. ASSUME NEW c \in Callers
      PROVE  ~Rolls(c)' /\ (caller[c] = "waiting" => waitsFor[c] # 0 /\ phase'[waitsFor[c]] # "unused")
  <2>1. CASE caller[c] = "waiting"
    <3>1. waitsFor[c] \in Queue!Starts /\ waitsFor[c] # 0 /\ phase[waitsFor[c]] # "unused"
      BY <2>1 DEF QueueStartInv, QueueTyped, Queue!Waiters
    <3> QED
      BY <1>0, <1>1, <1>2, <2>1, <3>1 DEF Rolls
  <2> QED
    BY <1>0, <1>1, <2>1 DEF Rolls
<1>6. QueueStartInv'
  BY <1>0, <1>1, <1>2, <1>3, <1>5 DEF QueueStartInv
<1>7. ResourceInv'
  BY <1>0, <1>1, <1>2, <1>3 DEF ResourceInv
<1>8. Queue!OpenIsOwned'
  <2>1. \A r \in open : r[2] # building[s]
    BY <1>0 DEF QueueTyped, Queue!Resources, Queue!Sets
  <2> QED
    BY <1>0, <1>1, <2>1 DEF Queue!OpenIsOwned, Queue!Registered
<1>9. WorkerInv'
  BY <1>0, <1>1, <1>3, <1>5 DEF WorkerInv
<1> QED
  BY <1>0, <1>4, <1>6, <1>7, <1>8, <1>9 DEF Queue!LettersReachRedis

LEMMA WorkersKeep ==
  ASSUME QueueGuards,
         \/ \E s \in Queue!Starts : Queue!RunWorkers(s)
         \/ \E l \in Letters : Queue!TrackTerminalFailure(l) \/ Queue!WriteSettles(l)
         \/ Queue!BootstrapReady \/ UNCHANGED Queue!vars
  PROVE  QueueInv'
<1> USE DEF QueueGuards, QueueInv, Queue!registry, Queue!starts, Queue!workers, Queue!callers, Queue!letters
<1>0. UNCHANGED <<lifecycleState, startPromise, redisClient, current, owned, readyWorkers, phase, left, building, jobOf, open,
                  closing, caller, waitsFor, stop>>
  BY DEF Queue!RunWorkers, Queue!TrackTerminalFailure, Queue!WriteSettles, Queue!BootstrapReady, Queue!vars
<1>1. /\ scheduled' \in [Queue!Starts -> SUBSET Queue!Sets]
      /\ running' # {} => running # {} \/ \E s \in Queue!Starts : scheduled[s] # {}
      /\ \A s \in Queue!Starts : scheduled'[s] \subseteq scheduled[s]
  <2>1. CASE UNCHANGED <<scheduled, running>>
    BY <2>1 DEF QueueTyped
  <2>2. ASSUME NEW s \in Queue!Starts, Queue!RunWorkers(s)
        PROVE  /\ scheduled[s] # {} /\ scheduled' = [scheduled EXCEPT ![s] = {}]
    BY <2>2 DEF Queue!RunWorkers
  <2>3. CASE \E s \in Queue!Starts : Queue!RunWorkers(s)
    BY <2>2, <2>3 DEF QueueTyped
  <2> QED
    BY <2>1, <2>3 DEF Queue!TrackTerminalFailure, Queue!WriteSettles, Queue!BootstrapReady, Queue!vars
<1>2. /\ letter' \in [Letters -> {"none", "pending", "written", "failed", "abandoned", "lost"}]
      /\ \A l \in Letters : letter'[l] = "lost" => letter[l] = "lost" \/ (running # {} /\ ~redisClient)
  BY SMTT(30) DEF Queue!RunWorkers, Queue!TrackTerminalFailure, Queue!WriteSettles, Queue!BootstrapReady, Queue!vars, QueueTyped
<1>3. QueueTyped'
  BY <1>0, <1>1, <1>2 DEF QueueTyped
<1>4. QueueStartInv' /\ ResourceInv'
  BY <1>0 DEF QueueStartInv, ResourceInv, Rolls, NoneRegistered, Queue!InFlight
<1>5. WorkerInv'
  BY <1>0, <1>1 DEF WorkerInv, Succeeded, Rolls, Queue!InFlight
<1>6. Queue!OpenIsOwned'
  BY <1>0 DEF Queue!OpenIsOwned, Queue!Registered, Queue!InFlight
<1>7. Queue!LettersReachRedis'
  BY <1>0, <1>2 DEF Queue!LettersReachRedis, WorkerInv
<1> QED
  BY <1>3, <1>4, <1>5, <1>6, <1>7

LEMMA QueueStopKeeps ==
  ASSUME QueueGuards, Queue!Shutdown
  PROVE  QueueInv'
<1> USE DEF QueueGuards, QueueInv, Queue!registry, Queue!starts, Queue!workers, Queue!letters
<1>0. /\ stop = "no" /\ stop' = "waiting" /\ lifecycleState' = "stopping"
      /\ waitsFor' = [waitsFor EXCEPT ![ShutdownCall] = startPromise]
      /\ UNCHANGED <<startPromise, redisClient, current, owned, readyWorkers, phase, left, building, jobOf, open, scheduled,
                     running, closing, caller, letter>>
  BY DEF Queue!Shutdown, Queue!InFlightStartup
<1>1. waitsFor'[ShutdownCall] = startPromise /\ \A c \in Callers : waitsFor'[c] = waitsFor[c]
  BY <1>0 DEF QueueTyped, Queue!Waiters, Queue!QueueAssumption
<1>2. QueueTyped'
  BY <1>0 DEF QueueTyped, Queue!Waiters
<1>3. QueueStartInv'
  BY <1>0, <1>1 DEF QueueStartInv, Rolls, NoneRegistered, Queue!InFlight
<1>4. ResourceInv'
  BY <1>0 DEF ResourceInv, NoneRegistered, Queue!InFlight
<1>5. WorkerInv'
  BY <1>0, <1>1 DEF WorkerInv, Succeeded, Rolls, Queue!InFlight
<1> QED
  BY <1>0, <1>2, <1>3, <1>4, <1>5 DEF Queue!OpenIsOwned, Queue!Registered, Queue!InFlight, Queue!LettersReachRedis

LEMMA ClosesKeeps ==
  ASSUME QueueGuards, Queue!ShutdownCloses
  PROVE  QueueInv'
<1> USE DEF QueueGuards, QueueInv
<1>0. /\ stop = "waiting" /\ stop' = "closing" /\ Queue!TakesAll(ShutdownCall) /\ closing[ShutdownCall] = {}
      /\ ShutdownCall \in Queue!Actors
      /\ UNCHANGED <<lifecycleState, startPromise, redisClient, phase, left, building, jobOf, open, scheduled,
                     running, caller, waitsFor, letter>>
  BY DEF Queue!ShutdownCloses, ResourceInv, Queue!starts, Queue!workers, Queue!callers, Queue!letters, Queue!Actors
<1>1. Queue!InFlight = {} /\ Queue!InFlight' = {}
  BY <1>0 DEF Queue!ShutdownCloses, QueueStartInv, Queue!InFlight
<1>2. /\ Queue!OpenIsOwned' /\ NoneRegistered'
      /\ \A b \in Queue!Actors : b # ShutdownCall => closing'[b] = closing[b]
      /\ closing'[ShutdownCall] = Queue!Initialized /\ closing'[ShutdownCall] \subseteq Queue!Resources
      /\ current' \in [Jobs -> {0} \cup Queue!Sets] /\ owned' = {} /\ readyWorkers' = {}
  BY <1>0, <1>1, TakesAllKeeps
<1>3. QueueTyped'
  <2>1. closing' = [closing EXCEPT ![ShutdownCall] = Queue!Initialized]
    BY <1>0 DEF Queue!TakesAll
  <2>2. closing' \in [Queue!Actors -> SUBSET Queue!Resources]
    BY <1>2, <2>1 DEF QueueTyped
  <2> QED
    BY <1>0, <1>2, <2>2 DEF QueueTyped
<1>4. QueueStartInv'
  BY <1>0, <1>1, <1>2 DEF QueueStartInv
<1>5. ResourceInv'
  <2>1. /\ \A c \in Callers : c \in Queue!Actors /\ c # ShutdownCall
        /\ \A s \in Queue!Starts : s \in Queue!Actors /\ s # ShutdownCall
    BY DEF Queue!Actors, Queue!QueueAssumption, Queue!Starts
  <2>2. \A s \in Queue!Starts : phase[s] \notin {"resolving", "opening", "cleaning"}
    BY <1>1 DEF Queue!InFlight
  <2> QED
    BY <1>0, <1>1, <1>2, <2>1, <2>2 DEF ResourceInv
<1>6. WorkerInv'
  BY <1>0, <1>1 DEF WorkerInv, Succeeded, Rolls
<1>7. Queue!LettersReachRedis'
  BY <1>0 DEF Queue!LettersReachRedis
<1> QED
  BY <1>2, <1>3, <1>4, <1>5, <1>6, <1>7

LEMMA QueueDrainKeeps ==
  ASSUME QueueGuards,
         \/ Queue!DrainPendingWrites \/ Queue!DrainWriteTimesOut \/ Queue!DrainAgain \/ Queue!ShutdownDone
  PROVE  QueueInv'
<1> USE DEF QueueGuards, QueueInv, Queue!registry, Queue!starts, Queue!workers, Queue!callers
<1>0. /\ UNCHANGED <<current, owned, readyWorkers, phase, left, building, jobOf, open, scheduled,
                     running, closing, caller, waitsFor>>
      /\ \/ UNCHANGED <<lifecycleState, startPromise, redisClient, stop>>
         \/ stop = "closing" /\ stop' = "draining" /\ UNCHANGED <<lifecycleState, startPromise, redisClient>>
         \/ stop = "draining" /\ stop' = "done" /\ lifecycleState' = "stopped" /\ startPromise' = 0
  BY DEF Queue!DrainPendingWrites, Queue!DrainWriteTimesOut, Queue!DrainAgain, Queue!ShutdownDone
<1>1. /\ letter' \in [Letters -> {"none", "pending", "written", "failed", "abandoned", "lost"}]
      /\ \A l \in Letters : letter'[l] = "lost" => letter[l] = "lost"
  BY SMTT(30) DEF Queue!DrainPendingWrites, Queue!DrainWriteTimesOut, Queue!DrainAgain, Queue!ShutdownDone, QueueTyped, Queue!letters
<1>2. Queue!InFlight' = Queue!InFlight /\ (stop' # stop => Queue!InFlight = {})
  BY <1>0 DEF QueueStartInv, Queue!InFlight
<1>3. QueueTyped'
  BY <1>0, <1>1 DEF QueueTyped
<1>4. QueueStartInv'
  BY <1>0, <1>2 DEF QueueStartInv, Rolls, NoneRegistered
<1>5. ResourceInv'
  <2>1. stop' # stop => \A s \in Queue!Starts : phase[s] \notin {"resolving", "opening", "cleaning"}
    BY <1>2 DEF Queue!InFlight
  <2>2. \/ UNCHANGED <<redisClient, stop>>
        \/ stop' \in {"draining", "done"}
    BY <1>0
  <2> QED
    BY <1>0, <1>2, <2>1, <2>2 DEF ResourceInv, NoneRegistered
<1>6. WorkerInv'
  BY <1>0, <1>2 DEF WorkerInv, Succeeded, Rolls
<1>7. Queue!OpenIsOwned'
  BY <1>0, <1>2 DEF Queue!OpenIsOwned, Queue!Registered
<1>8. Queue!LettersReachRedis'
  BY <1>0, <1>1 DEF Queue!LettersReachRedis
<1> QED
  BY <1>3, <1>4, <1>5, <1>6, <1>7, <1>8

LEMMA QueueStep ==
  Queue!QueueAssumption /\ QueueInv /\ [Queue!Next]_(Queue!vars) /\ [RollsBackFirst]_(Queue!vars) => QueueInv'
<1> SUFFICES ASSUME Queue!QueueAssumption, QueueInv, [Queue!Next]_(Queue!vars), [RollsBackFirst]_(Queue!vars) PROVE QueueInv'
  OBVIOUS
<1>1. QueueGuards
  BY DEF QueueGuards, RollsBackFirst, Queue!vars, Queue!starts
<1>2. ASSUME NEW c \in Callers, Queue!EnsureStartedReturns(c) \/ Queue!EnsureStartedWaits(c) \/ Queue!CallerStep(c)
      PROVE  QueueInv'
  BY <1>1, <1>2, ReturnsKeeps, WaitsKeeps, SucceededKeeps, FailedKeeps, HandledKeeps DEF Queue!CallerStep
<1>3. ASSUME NEW s \in Queue!Starts, Queue!StartStep(s) PROVE QueueInv'
  BY <1>1, <1>3, ResolveKeeps, OpenQueueKeeps, OpenWorkerKeeps, RegisterKeeps, CleanedKeeps, FinishKeeps DEF Queue!StartStep
<1>4. ASSUME NEW a \in Queue!Actors, Queue!Close(a) PROVE QueueInv'
  BY <1>1, <1>4, QueueCloseKeeps
<1>5. CASE Queue!ShutdownStep
  BY <1>1, <1>5, ClosesKeeps, QueueDrainKeeps DEF Queue!ShutdownStep
<1>6. CASE Queue!Shutdown
  BY <1>1, <1>6, QueueStopKeeps
<1>7. CASE \/ \E s \in Queue!Starts : Queue!RunWorkers(s)
           \/ \E l \in Letters : Queue!TrackTerminalFailure(l) \/ Queue!WriteSettles(l)
           \/ Queue!BootstrapReady \/ UNCHANGED Queue!vars
  BY <1>1, <1>7, WorkersKeep
<1> QED
  BY <1>2, <1>3, <1>4, <1>5, <1>6, <1>7 DEF Queue!Next

\* OpenIsOwned and LettersReachRedis: whichever connection or worker fails to open and
\* whenever shutdown comes, what the queue holds open is registered, being set up or
\* being closed, and no dead letter finds the client gone before the service has
\* stopped (QueueLifecycleService), while no caller starts again before the others
\* have rolled the failed start back.
THEOREM QueueOwnsWhatIsOpen ==
  Queue!QueueAssumption =>
    (Queue!Spec /\ [][RollsBackFirst]_(Queue!vars) => [](Queue!OpenIsOwned /\ Queue!LettersReachRedis))
<1> SUFFICES ASSUME Queue!QueueAssumption
             PROVE  Queue!Spec /\ [][RollsBackFirst]_(Queue!vars) => [](Queue!OpenIsOwned /\ Queue!LettersReachRedis)
  OBVIOUS
<1>1. Queue!Init => QueueInv
  BY QueueInitial
<1>2. QueueInv /\ [Queue!Next]_(Queue!vars) /\ [RollsBackFirst]_(Queue!vars) => QueueInv'
  BY QueueStep
<1>3. QueueInv => Queue!OpenIsOwned /\ Queue!LettersReachRedis
  BY DEF QueueInv
<1> QED
  BY <1>1, <1>2, <1>3, PTL DEF Queue!Spec

LEMMA StopIsFinal == [Queue!Next]_(Queue!vars) => Queue!StaysStopped
<1> SUFFICES ASSUME [Queue!Next]_(Queue!vars), lifecycleState \in Queue!Stopped PROVE lifecycleState' \in Queue!Stopped
  BY DEF Queue!StaysStopped
<1> USE DEF Queue!Stopped
<1>1. ASSUME NEW c \in Callers, Queue!EnsureStartedReturns(c) \/ Queue!EnsureStartedWaits(c) \/ Queue!CallerStep(c)
      PROVE  lifecycleState' \in Queue!Stopped
  BY <1>1 DEF Queue!EnsureStartedReturns, Queue!EnsureStartedWaits, Queue!CallerStep, Queue!StartSucceeded,
     Queue!StartFailed, Queue!StartupFailureHandled, Queue!RolledBack, Queue!AfterRollback
<1>2. ASSUME NEW s \in Queue!Starts, Queue!StartStep(s) \/ Queue!RunWorkers(s) PROVE lifecycleState' \in Queue!Stopped
  BY <1>2 DEF Queue!StartStep, Queue!ResolveClient, Queue!OpenQueueConnection, Queue!OpenWorkerConnection,
     Queue!RegisterInitializedWorker, Queue!CleanedUp, Queue!FinishStart, Queue!StateOnceOpen, Queue!RunWorkers
<1>3. CASE \/ \E a \in Queue!Actors : Queue!Close(a)
           \/ \E l \in Letters : Queue!TrackTerminalFailure(l) \/ Queue!WriteSettles(l)
           \/ Queue!BootstrapReady \/ Queue!Shutdown \/ Queue!ShutdownStep \/ UNCHANGED Queue!vars
  BY <1>3 DEF Queue!Close, Queue!TrackTerminalFailure, Queue!WriteSettles, Queue!BootstrapReady, Queue!Shutdown,
     Queue!ShutdownStep, Queue!ShutdownCloses, Queue!DrainPendingWrites, Queue!DrainWriteTimesOut, Queue!DrainAgain,
     Queue!ShutdownDone, Queue!vars
<1> QED
  BY <1>1, <1>2, <1>3 DEF Queue!Next

\* ShutdownIsFinal: no rollback or start that ends late brings a stopping queue back,
\* in whatever order callers start again (handleStartupFailure(), startLifecycle()).
THEOREM StoppedQueueStays == Queue!Spec => Queue!ShutdownIsFinal
<1>1. [Queue!Next]_(Queue!vars) => [Queue!StaysStopped]_(Queue!vars)
  BY StopIsFinal
<1> QED
  BY <1>1, PTL DEF Queue!Spec, Queue!ShutdownIsFinal

---------------------------------------------------------------------------
\* Delivery.  MailInv: who creates, starts and closes the one transport
\* that there is at a time.

CONSTANTS Messages, Notes, Service, Verifies, Owns
VARIABLES state, promise, made, start, hook, mail, tries
Mailer == INSTANCE Delivery

\* Who creates, starts and closes the one transport there is at a time.
MailInv ==
  /\ state \in {"created", "starting", "ready", "stopping", "stopped", "failed"}
  /\ promise \in {"none", "creating", "resolved", "rejected"}
  /\ start \in {"no", "creating", "verifying", "closing", "done", "failed"}
  /\ stop \in {"no", "creating", "closing", "done", "failed"}
  /\ made \in Nat /\ open \subseteq {made} /\ mail = [m \in Messages |-> mail[m]]
  /\ promise # "resolved" => open = {}
  /\ promise = "resolved" /\ stop = "no" /\ start # "closing" => made \in open
  /\ start = "closing" => promise = "resolved" /\ open = {} /\ state \in {"failed", "stopping", "stopped"}
  /\ start = "verifying" => promise = "resolved"
  /\ stop # "no" => state \in {"failed", "stopping", "stopped"}
  /\ stop \in {"closing", "done"} => promise # "creating" /\ (Owns => open = {})
  /\ state = "ready" => start = "done"
  /\ Service = "discord" =>
       /\ start \in {"creating", "verifying", "closing"} => hook = "waiting" /\ stop = "no"
       /\ \A m \in Messages : mail[m] = "creating" => start = "done"

LEMMA MailInitial == Mailer!Init => MailInv
BY DEF Mailer!Init, MailInv

LEMMA MailLife ==
  ASSUME Mailer!DeliveryAssumption, MailInv,
         Mailer!ModuleInit \/ Mailer!Shutdown \/ Mailer!LifeStep \/ UNCHANGED Mailer!deliveryVars
  PROVE  MailInv' /\ Mailer!HandedWhileOpen
<1> USE DEF MailInv, Mailer!DeliveryAssumption, Mailer!Told, Mailer!Closes
<1>0. \A m \in Messages : mail[m] = "creating" => mail[m] # "readying" /\ mail[m] # "posting"
  OBVIOUS
<1>1. CASE Mailer!ModuleInit
  BY <1>1 DEF Mailer!ModuleInit, Mailer!Begins, Mailer!Asked, Mailer!HandedWhileOpen
<1>2. CASE Mailer!Shutdown
  BY <1>2 DEF Mailer!Shutdown, Mailer!HandedWhileOpen
<1>3. ASSUME NEW ok \in BOOLEAN, Mailer!CreateEnds(ok) PROVE MailInv' /\ Mailer!HandedWhileOpen
  BY <1>3 DEF Mailer!CreateEnds, Mailer!HandedWhileOpen
<1>4. CASE Mailer!HasTransport
  <2>1. CASE Mailer!Fails /\ promise = "rejected" /\ UNCHANGED open
    BY <1>4, <2>1 DEF Mailer!HasTransport, Mailer!Fails, Mailer!Interrupted, Mailer!HandedWhileOpen
  <2>2. CASE start' = "verifying" /\ promise = "resolved" /\ UNCHANGED <<state, open, hook, mail>>
    BY <1>4, <2>2 DEF Mailer!HasTransport, Mailer!HandedWhileOpen
  <2>3. CASE Mailer!Done /\ UNCHANGED open
    BY <1>4, <2>3 DEF Mailer!HasTransport, Mailer!Done, Mailer!GoesOn, Mailer!HandedWhileOpen
  <2> QED
    BY <1>4, <2>1, <2>2, <2>3 DEF Mailer!HasTransport
<1>5. ASSUME NEW ok \in BOOLEAN, Mailer!Verified(ok) PROVE MailInv' /\ Mailer!HandedWhileOpen
  <2>1. CASE ok
    BY <1>5, <2>1 DEF Mailer!Verified, Mailer!Done, Mailer!GoesOn, Mailer!HandedWhileOpen
  <2>2. CASE ~ok /\ Mailer!Interrupted
    BY <1>5, <2>2 DEF Mailer!Verified, Mailer!Fails, Mailer!Interrupted, Mailer!HandedWhileOpen
  <2>3. CASE ~ok /\ ~Mailer!Interrupted
    BY <1>5, <2>3 DEF Mailer!Verified, Mailer!Fails, Mailer!Interrupted, Mailer!HandedWhileOpen
  <2> QED
    BY <2>1, <2>2, <2>3
<1>6. CASE Mailer!CleanedUp
  BY <1>6 DEF Mailer!CleanedUp, Mailer!HandedWhileOpen
<1>7. CASE Mailer!StopGoesOn
  BY <1>7 DEF Mailer!StopGoesOn, Mailer!HandedWhileOpen
<1>8. ASSUME NEW ok \in BOOLEAN, Mailer!Closed(ok) PROVE MailInv' /\ Mailer!HandedWhileOpen
  BY <1>8 DEF Mailer!Closed, Mailer!HandedWhileOpen
<1>9. CASE UNCHANGED Mailer!deliveryVars
  BY <1>9 DEF Mailer!deliveryVars, Mailer!HandedWhileOpen
<1> QED
  BY <1>1, <1>2, <1>3, <1>4, <1>5, <1>6, <1>7, <1>8, <1>9 DEF Mailer!LifeStep

\* A message that is entered asks for the transport or for the start of it.
LEMMA MailEntered ==
  ASSUME Mailer!DeliveryAssumption, MailInv, NEW m \in Messages, mail[m] \in {"no", "rendering"}, Mailer!Enter(m),
         UNCHANGED <<made, open, hook, stop>>
  PROVE  MailInv' /\ Mailer!HandedWhileOpen
<1> USE DEF MailInv, Mailer!DeliveryAssumption
<1>1. CASE ~Mailer!CanDeliver
  BY <1>1 DEF Mailer!Enter, Mailer!HandedWhileOpen
<1>2. CASE Mailer!CanDeliver /\ Service = "email" /\ Verifies /\ state # "ready"
  BY <1>2 DEF Mailer!Enter, Mailer!CanDeliver, Mailer!Begins, Mailer!Asked, Mailer!HandedWhileOpen
<1>3. CASE Mailer!CanDeliver /\ ~(Service = "email" /\ Verifies /\ state # "ready")
  BY <1>3 DEF Mailer!Enter, Mailer!CanDeliver, Mailer!Asked, Mailer!HandedWhileOpen
<1> QED
  BY <1>1, <1>2, <1>3

LEMMA MailSent ==
  ASSUME Mailer!DeliveryAssumption, MailInv, NEW m \in Messages,
         Mailer!Submit(m) \/ Mailer!MailStep(m) \/ Mailer!Aborts(m)
  PROVE  MailInv' /\ Mailer!HandedWhileOpen
<1>1. CASE Mailer!Submit(m) /\ m \notin Notes
  BY <1>1, MailEntered DEF Mailer!Submit
<1>2. CASE Mailer!Submit(m) /\ m \in Notes
  BY <1>2 DEF Mailer!Submit, MailInv, Mailer!HandedWhileOpen
<1>3. ASSUME NEW ok \in BOOLEAN, Mailer!Rendered(m, ok) PROVE MailInv' /\ Mailer!HandedWhileOpen
  <2>1. CASE ok
    BY <1>3, <2>1, MailEntered DEF Mailer!Rendered
  <2>2. CASE ~ok
    BY <1>3, <2>2 DEF Mailer!Rendered, MailInv, Mailer!HandedWhileOpen
  <2> QED
    BY <2>1, <2>2
<1>4. CASE Mailer!Started(m)
  BY <1>4 DEF Mailer!Started, MailInv, Mailer!HandedWhileOpen
<1>5. ASSUME NEW valid \in BOOLEAN, Mailer!Handed(m, valid) PROVE MailInv' /\ Mailer!HandedWhileOpen
  <2>1. MailInv'
    BY <1>5 DEF Mailer!Handed, MailInv
  <2>2. ASSUME promise = "resolved", Mailer!Delivers
        PROVE  /\ Service # "discord" => state \notin {"stopping", "stopped"} /\ (Owns => made \in open)
               /\ Service = "discord" \/ (Service = "email" /\ Verifies) => start = "done"
    BY <1>5, <2>2 DEF Mailer!Handed, Mailer!Delivers, Mailer!CanDeliver, MailInv
  <2>3. ASSUME NEW n \in Messages, mail[n] = "creating", mail'[n] = "posting" PROVE promise = "resolved" /\ Mailer!Delivers
    BY <1>5, <2>3 DEF Mailer!Handed, MailInv
  <2> QED
    BY <2>1, <2>2, <2>3 DEF Mailer!HandedWhileOpen
<1>6. ASSUME NEW answer \in Mailer!Answers, Mailer!Posted(m, answer) PROVE MailInv' /\ Mailer!HandedWhileOpen
  <2>1. \E x \in {"sent", "waiting", "failed"} : mail' = [mail EXCEPT ![m] = x]
    BY <1>6 DEF Mailer!Posted
  <2> QED
    BY <1>6, <2>1 DEF Mailer!Posted, MailInv, Mailer!HandedWhileOpen
<1>7. CASE Mailer!PostsAgain(m) \/ Mailer!Aborts(m)
  BY <1>7 DEF Mailer!PostsAgain, Mailer!Aborts, MailInv, Mailer!HandedWhileOpen
<1> QED
  BY <1>1, <1>2, <1>3, <1>4, <1>5, <1>6, <1>7 DEF Mailer!MailStep

\* StopsClean and HandedWhileOpen: whoever creates the shared transport, whenever
\* its start fails and shutdown begins, a message is handed to a transport that is
\* open, and a shutdown that succeeded leaves none of its own behind (onModuleInit(),
\* send() and onApplicationShutdown() of EmailService, SlackService, DiscordService).
THEOREM MailsEndWithTheService ==
  Mailer!DeliveryAssumption =>
    (Mailer!Spec => []Mailer!StopsClean /\ [][Mailer!HandedWhileOpen]_(Mailer!deliveryVars))
<1> SUFFICES ASSUME Mailer!DeliveryAssumption
             PROVE  Mailer!Spec => []Mailer!StopsClean /\ [][Mailer!HandedWhileOpen]_(Mailer!deliveryVars)
  OBVIOUS
<1>1. MailInv /\ [Mailer!Next]_(Mailer!deliveryVars) => MailInv' /\ Mailer!HandedWhileOpen
  BY MailLife, MailSent DEF Mailer!Next
<1>2. MailInv => Mailer!StopsClean
  BY DEF MailInv, Mailer!StopsClean
<1> QED
  BY MailInitial, <1>1, <1>2, PTL DEF Mailer!Spec

---------------------------------------------------------------------------
\* I18n.  CatalogInv: what a load has read, and what is cached, was the
\* provider's late enough for the time that it may be served.

CONSTANTS Loads, Ttl, MaxTime, MaxVersion, Settings, Wishes
VARIABLES now, superseded, entry, load, settings, wish, locale, message
Texts == INSTANCE I18n

\* The version v was the provider's within the time to live before t.
GoodUntil(v, t) == v \in 1..Texts!Current /\ (v < Texts!Current => superseded[v] + Ttl >= t)

\* What a load has read was the provider's when the load had begun, so that it is
\* good for the time to live from there; what is cached, until it expires; and what
\* was served, when its load began.
CatalogInv ==
  /\ now \in Nat /\ superseded \in Seq(Nat)
  /\ entry \in [version : Nat, expires : Nat] /\ entry.expires <= now + Ttl
  /\ entry.expires > 0 => GoodUntil(entry.version, entry.expires)
  /\ load \in [Loads -> [pc : {"no", "asked", "read", "answered", "served", "failed"},
                         began : Nat, version : Nat]]
  /\ \A l \in Loads :
       /\ load[l].began <= now
       /\ load[l].pc \in {"read", "answered"} => GoodUntil(load[l].version, load[l].began + Ttl)
       /\ load[l].pc = "served" => GoodUntil(load[l].version, load[l].began + 1)

LEMMA CatalogInitial ==
  ASSUME Texts!I18nAssumption, Texts!LoaderInit
  PROVE  CatalogInv
BY DEF Texts!I18nAssumption, Texts!LoaderInit, Texts!Nothing, Texts!Idle, CatalogInv, GoodUntil

LEMMA CatalogStep ==
  ASSUME Texts!I18nAssumption, CatalogInv, [Texts!Next]_(Texts!i18nVars)
  PROVE  CatalogInv'
<1> USE DEF Texts!I18nAssumption, Texts!localeVars
<1>1. CASE UNCHANGED Texts!i18nVars \/ Texts!LocaleNext
  BY <1>1 DEF CatalogInv, GoodUntil, Texts!Current, Texts!i18nVars, Texts!loaderVars,
     Texts!LocaleNext, Texts!Negotiate, Texts!Translate
\* A new version, the clock, and what empties the cache.
<1>2. CASE Texts!Publish
  <2>1. /\ superseded' = Append(superseded, now) /\ UNCHANGED <<now, entry, load>>
    BY <1>2 DEF Texts!Publish
  <2>2. /\ Len(superseded') = Len(superseded) + 1 /\ superseded' \in Seq(Nat)
        /\ superseded'[Len(superseded) + 1] = now
        /\ \A i \in 1..Len(superseded) : superseded'[i] = superseded[i]
    BY <2>1 DEF CatalogInv
  <2>3. ASSUME NEW v \in Nat, NEW t \in Nat, t <= now + Ttl, GoodUntil(v, t)
        PROVE  GoodUntil(v, t)'
    <3>1. Texts!Current' = Texts!Current + 1 /\ Len(superseded) \in Nat
      BY <2>2 DEF Texts!Current, CatalogInv
    <3>2. v \in 1..Len(superseded) + 1
      BY <2>3 DEF GoodUntil, Texts!Current
    <3>3. CASE v = Len(superseded) + 1
      BY <2>2, <2>3, <3>1, <3>3 DEF GoodUntil, Texts!Current, CatalogInv
    <3>4. CASE v \in 1..Len(superseded)
      <4>1. superseded[v] + Ttl >= t /\ superseded'[v] = superseded[v]
        BY <2>2, <2>3, <3>1, <3>4 DEF GoodUntil, Texts!Current
      <4> QED  BY <2>3, <3>1, <3>4, <4>1 DEF GoodUntil, Texts!Current
    <3> QED  BY <3>1, <3>2, <3>3, <3>4
  <2>4. entry.expires > 0 => GoodUntil(entry.version, entry.expires)'
    BY <2>1, <2>3 DEF CatalogInv
  <2>5. ASSUME NEW l \in Loads
        PROVE  /\ load[l].pc \in {"read", "answered"} => GoodUntil(load[l].version, load[l].began + Ttl)'
               /\ load[l].pc = "served" => GoodUntil(load[l].version, load[l].began + 1)'
    <3>1. load[l].version \in Nat /\ load[l].began \in Nat /\ load[l].began <= now
      BY DEF CatalogInv
    <3> QED  BY <2>1, <2>3, <3>1 DEF CatalogInv
  <2> QED  BY <2>1, <2>2, <2>4, <2>5 DEF CatalogInv, GoodUntil
<1>3. CASE Texts!Tick \/ Texts!Invalidate
  BY <1>3 DEF CatalogInv, GoodUntil, Texts!Current, Texts!Tick, Texts!Invalidate, Texts!Nothing
\* What a call of load() does.
<1>4. ASSUME NEW l \in Loads, Texts!Hits(l)
      PROVE  CatalogInv'
  BY <1>4 DEF CatalogInv, GoodUntil, Texts!Current, Texts!Hits
<1>5. ASSUME NEW l \in Loads, Texts!Asks(l)
      PROVE  CatalogInv'
  <2>1. ASSUME NEW pc \in {"failed", "asked"},
               load' = [load EXCEPT ![l] = [pc |-> pc, began |-> now, version |-> 0]]
        PROVE  CatalogInv'
    BY <1>5, <2>1 DEF CatalogInv, GoodUntil, Texts!Current, Texts!Asks
  <2>2. PICK pc \in {"failed", "asked"} : pc = IF l \in aborted THEN "failed" ELSE "asked"
    OBVIOUS
  <2>3. [Texts!Idle EXCEPT !.pc = pc, !.began = now] = [pc |-> pc, began |-> now, version |-> 0]
    <3>1. [Texts!Idle EXCEPT !.pc = pc] = [pc |-> pc, began |-> 0, version |-> 0]
      BY DEF Texts!Idle
    <3>2. [[pc |-> pc, began |-> 0, version |-> 0] EXCEPT !.began = now]
            = [pc |-> pc, began |-> now, version |-> 0]
      OBVIOUS
    <3>3. [Texts!Idle EXCEPT !.pc = pc, !.began = now] = [[Texts!Idle EXCEPT !.pc = pc] EXCEPT !.began = now]
      OBVIOUS
    <3> QED  BY <3>1, <3>2, <3>3
  <2>4. load' = [load EXCEPT ![l] = [Texts!Idle EXCEPT !.pc = pc, !.began = now]]
    BY <1>5, <2>2 DEF Texts!Asks
  <2> QED  BY <2>1, <2>3, <2>4
<1>6. ASSUME NEW l \in Loads, Texts!ProviderReads(l)
      PROVE  CatalogInv'
  <2>1. load' = [load EXCEPT ![l].pc = "read", ![l].version = Texts!Current]
        /\ UNCHANGED <<now, superseded, entry>>
    BY <1>6 DEF Texts!ProviderReads
  <2>2. GoodUntil(Texts!Current, load[l].began + Ttl) /\ Texts!Current \in Nat
    BY DEF CatalogInv, GoodUntil, Texts!Current
  <2> QED  BY <2>1, <2>2 DEF CatalogInv, GoodUntil, Texts!Current
<1>7. ASSUME NEW l \in Loads,
             Texts!Answers(l) \/ Texts!Fails(l) \/ Texts!Abort(l) \/ Texts!TimesOut(l)
      PROVE  CatalogInv'
  <2>1. CASE Texts!Answers(l)
    BY <2>1 DEF CatalogInv, GoodUntil, Texts!Current, Texts!Answers, Texts!Ends
  <2>2. CASE UNCHANGED load
    BY <1>7, <2>2 DEF CatalogInv, GoodUntil, Texts!Current, Texts!Answers, Texts!Fails, Texts!Abort,
       Texts!TimesOut
  <2>3. CASE load' = [load EXCEPT ![l].pc = "failed"]
    BY <1>7, <2>3 DEF CatalogInv, GoodUntil, Texts!Current, Texts!Answers, Texts!Fails, Texts!Abort,
       Texts!TimesOut
  <2> QED  BY <1>7, <2>1, <2>2, <2>3 DEF Texts!Fails, Texts!Abort, Texts!TimesOut, Texts!Ends
<1>8. ASSUME NEW l \in Loads, Texts!Resumes(l)
      PROVE  CatalogInv'
  <2>1. UNCHANGED <<now, superseded>> /\ load[l].pc = "answered"
    BY <1>8 DEF Texts!Resumes
  <2>2. CASE l \in aborted
    <3>1. load' = [load EXCEPT ![l].pc = "failed"] /\ UNCHANGED entry
      BY <1>8, <2>2 DEF Texts!Resumes, Texts!Ends
    <3> QED  BY <2>1, <3>1 DEF CatalogInv, GoodUntil, Texts!Current
  <2>3. CASE l \notin aborted
    <3>1. /\ load' = [load EXCEPT ![l].pc = "served"]
          /\ entry' = [version |-> load[l].version, expires |-> load[l].began + Ttl]
      BY <1>8, <2>3 DEF Texts!Resumes, Texts!Ends, Texts!Expires
    <3>2. GoodUntil(load[l].version, load[l].began + Ttl) /\ load[l].version \in Nat
          /\ load[l].began \in Nat /\ load[l].began <= now
      BY <2>1 DEF CatalogInv
    <3>3. GoodUntil(load[l].version, load[l].began + 1)
      BY <3>2 DEF GoodUntil, Texts!Current, CatalogInv
    <3> QED  BY <2>1, <3>1, <3>2, <3>3 DEF CatalogInv, GoodUntil, Texts!Current
  <2> QED  BY <2>2, <2>3
<1> QED
  BY <1>1, <1>2, <1>3, <1>4, <1>5, <1>6, <1>7, <1>8 DEF Texts!Next, Texts!LoaderNext

\* FreshCatalogs: however long the provider takes, whatever it publishes meanwhile and
\* whoever aborts, a catalog that is served was the provider's within the time to live
\* before its load began (RemoteI18nLoader and CachedRemoteI18nLoader, load()).
THEOREM CatalogsStayFresh == ASSUME Texts!I18nAssumption PROVE Texts!Spec => []Texts!FreshCatalogs
<1>1. CatalogInv => Texts!FreshCatalogs
  <2> SUFFICES ASSUME CatalogInv, NEW l \in Loads, load[l].pc = "served",
                      load[l].version < Texts!Current
               PROVE  superseded[load[l].version] + Ttl > load[l].began
    BY DEF Texts!FreshCatalogs
  <2>1. superseded[load[l].version] + Ttl >= load[l].began + 1 /\ load[l].began \in Nat
    BY DEF CatalogInv, GoodUntil
  <2>2. superseded[load[l].version] \in Nat
    BY DEF CatalogInv, GoodUntil, Texts!Current
  <2> QED  BY <2>1, <2>2 DEF Texts!I18nAssumption
<1>2. Texts!Spec => []CatalogInv
  BY CatalogInitial, CatalogStep, PTL DEF Texts!Spec
<1> QED  BY <1>1, <1>2, PTL

---------------------------------------------------------------------------
\* Notifications.  NotesInv: what a notification has been told, by where
\* the batch is and what was accepted.

CONSTANTS Batch, Channels, Mode, HasQueue, ContinueOnError
VARIABLES at, events, accepted, results, failures, lost
Notify == INSTANCE Notifications

\* What a notification is told in the end, and what it was told when it is its turn.
Names == {"requested", "queued", "delivered", "failed"}
Outcome(i) == IF i \in accepted THEN Notify!Reported ELSE "failed"
Final(s, name) == s \in Seq(Names) /\ Len(s) = 2 /\ s[1] = "requested" /\ s[2] = name
Requested(s) == s \in Seq(Names) /\ Len(s) = 1 /\ s[1] = "requested"
Untold(s) == s \in Seq(Names) /\ Len(s) = 0

Ascends(s) == \A i, j \in DOMAIN s : i < j => s[i] < s[j]
\* What came before at is accounted for, in order.
Accounted ==
  /\ \A k \in DOMAIN results : results[k] < at
  /\ \A k \in DOMAIN failures : failures[k] < at
  /\ \A i \in 1..at-1 : (\E k \in DOMAIN results : results[k] = i) \/ (\E k \in DOMAIN failures : failures[k] = i)
  /\ Len(results) + Len(failures) + 1 = at

NotesTyped ==
  /\ at \in Nat /\ 1 <= at /\ at <= Len(Batch) + 1 /\ accepted \subseteq Notify!Items
  /\ stage \in {"requesting", "sending", "reporting", "failing", "over", "thrown"}
  /\ stage \in {"requesting", "sending", "reporting", "failing"} => at <= Len(Batch)
  /\ results \in Seq(Notify!Items) /\ failures \in Seq(Notify!Items)
  /\ Ascends(results) /\ Ascends(failures) /\ \A k \in DOMAIN results : results[k] \in accepted

\* Notifications before at have been told what became of them; the one at at, or, when
\* they are all requested first, all from there on, have been requested.
NotesInv ==
  /\ NotesTyped
  /\ events = [i \in Notify!Items |-> events[i]]
  /\ stage = "requesting" /\ ~Notify!Alone =>
       /\ \A i \in Notify!Items : IF i < at THEN Requested(events[i]) ELSE Untold(events[i])
       /\ accepted = {} /\ results = <<>> /\ failures = <<>>
  /\ stage = "requesting" /\ Notify!Alone =>
       /\ \A i \in Notify!Items : IF i < at THEN Final(events[i], Outcome(i)) ELSE Untold(events[i])
       /\ accepted \subseteq 1..at-1 /\ Accounted
  /\ stage \in {"sending", "reporting", "failing"} =>
       /\ \A i \in Notify!Items :
            IF i < at THEN Final(events[i], Outcome(i)) ELSE IF i = at \/ ~Notify!Alone THEN Requested(events[i]) ELSE Untold(events[i])
       /\ (stage = "reporting" \/ accepted \subseteq 1..at-1) /\ Accounted
       /\ ~Notify!Alone /\ (Notify!AllRefused \/ Mode = "bulk") => at = 1
  /\ stage = "reporting" =>
       /\ ~Notify!Alone => ~Notify!AllRefused
       /\ IF Mode = "bulk" THEN accepted = Notify!Items ELSE at \in accepted /\ accepted \subseteq 1..at
  /\ stage = "over" => at = Len(Batch) + 1 /\ Accounted /\ \A i \in Notify!Items : Final(events[i], Outcome(i))
  /\ stage = "thrown" => \A i \in Notify!Items : Untold(events[i]) \/ Final(events[i], Outcome(i))

LEMMA NotesInitial == Notify!NotificationsAssumption /\ Notify!Init => NotesInv
<1> SUFFICES ASSUME Notify!NotificationsAssumption, Notify!Init PROVE NotesInv
  OBVIOUS
<1>1. /\ at = 1 /\ stage = "requesting" /\ accepted = {} /\ results = <<>> /\ failures = <<>>
      /\ events = [i \in Notify!Items |-> <<>>] /\ Len(Batch) \in Nat /\ Len(Batch) > 0
  BY DEF Notify!NotificationsAssumption, Notify!Init
<1>2. Untold(<<>>) /\ <<>> \in Seq(Notify!Items) /\ DOMAIN <<>> = {}
  BY DEF Untold
<1>3. NotesTyped /\ Accounted
  BY <1>1, <1>2 DEF NotesTyped, Accounted, Ascends, Notify!Items
<1>4. \A i \in Notify!Items : events[i] = <<>> /\ ~(i < 1)
  BY <1>1 DEF Notify!Items
<1> QED  BY <1>1, <1>2, <1>3, <1>4 DEF NotesInv

LEMMA OneMore ==
  ASSUME NEW T, NEW s \in Seq(T), NEW e \in T
  PROVE  /\ Append(s, e) \in Seq(T) /\ Len(Append(s, e)) = Len(s) + 1 /\ Append(s, e)[Len(s) + 1] = e
         /\ \A k \in 1..Len(s) : Append(s, e)[k] = s[k]
OBVIOUS

LEMMA RequestedNow ==
  ASSUME NEW s, Untold(s)
  PROVE  Requested(Append(s, "requested"))
<1>1. s \in Seq(Names) /\ Len(s) + 1 = 1
  BY DEF Untold
<1>2. "requested" \in Names
  BY DEF Names
<1>3. /\ Append(s, "requested") \in Seq(Names) /\ Len(Append(s, "requested")) = Len(s) + 1
      /\ Append(s, "requested")[Len(s) + 1] = "requested"
  BY <1>1, <1>2, OneMore
<1> QED  BY <1>1, <1>3 DEF Requested

LEMMA FinallyTold ==
  ASSUME NEW s, NEW name \in Names, Requested(s)
  PROVE  Final(Append(s, name), name)
<1>1. s \in Seq(Names) /\ Len(s) = 1 /\ s[1] = "requested" /\ 1 \in 1..Len(s) /\ Len(s) + 1 = 2
  BY DEF Requested
<1>2. /\ Append(s, name) \in Seq(Names) /\ Len(Append(s, name)) = Len(s) + 1
      /\ Append(s, name)[Len(s) + 1] = name /\ Append(s, name)[1] = s[1]
  <2>1. /\ Append(s, name) \in Seq(Names) /\ Len(Append(s, name)) = Len(s) + 1
        /\ Append(s, name)[Len(s) + 1] = name /\ \A k \in 1..Len(s) : Append(s, name)[k] = s[k]
    <3>1. s \in Seq(Names)
      BY <1>1
    <3> QED  BY <3>1, OneMore
  <2> QED  BY <1>1, <2>1
<1> QED  BY <1>1, <1>2 DEF Final

\* A list that ends with the latest of its notifications stays in order.
LEMMA AscendsOn ==
  ASSUME NEW N \in Nat, NEW s \in Seq(1..N), NEW i \in 1..N, Ascends(s), \A k \in DOMAIN s : s[k] < i
  PROVE  /\ Append(s, i) \in Seq(1..N) /\ Ascends(Append(s, i)) /\ Len(Append(s, i)) = Len(s) + 1
         /\ DOMAIN Append(s, i) = 1..Len(s) + 1 /\ Append(s, i)[Len(s) + 1] = i
         /\ \A k \in DOMAIN s : k \in DOMAIN Append(s, i) /\ Append(s, i)[k] = s[k]
<1>1. /\ Append(s, i) \in Seq(1..N) /\ Len(Append(s, i)) = Len(s) + 1
      /\ DOMAIN Append(s, i) = 1..Len(s) + 1 /\ Append(s, i)[Len(s) + 1] = i
      /\ \A k \in 1..Len(s) : Append(s, i)[k] = s[k]
  OBVIOUS
<1>2. Len(s) \in Nat /\ DOMAIN s = 1..Len(s) /\ \A k \in DOMAIN s : s[k] \in Nat
  OBVIOUS
<1>3. ASSUME NEW j \in 1..Len(s) + 1, NEW k \in 1..Len(s) + 1, j < k PROVE Append(s, i)[j] < Append(s, i)[k]
  <2>1. j \in 1..Len(s) /\ Append(s, i)[j] = s[j]
    BY <1>1, <1>2, <1>3
  <2>2. CASE k = Len(s) + 1
    BY <1>1, <1>2, <2>1, <2>2
  <2>3. CASE k \in 1..Len(s)
    BY <1>1, <1>2, <1>3, <2>1, <2>3 DEF Ascends
  <2> QED  BY <1>2, <2>2, <2>3
<1> QED  BY <1>1, <1>2, <1>3 DEF Ascends

LEMMA RequestKeepsNotes ==
  ASSUME Notify!NotificationsAssumption, NotesInv, Notify!Request
  PROVE  NotesInv'
<1> USE DEF Notify!NotificationsAssumption
<1>1. /\ stage = "requesting" /\ at \in Notify!Items /\ Len(Batch) \in Nat
      /\ UNCHANGED <<accepted, results, failures>>
      /\ events' = [i \in Notify!Items |-> IF i = at THEN Append(events[i], "requested") ELSE events[i]]
  BY DEF Notify!Request, Notify!Publish, NotesInv, NotesTyped, Notify!Items
<1>2. Requested(events'[at]) /\ \A i \in Notify!Items \ {at} : events'[i] = events[i]
  <2>1. at \in Nat /\ Untold(events[at])
    BY <1>1 DEF NotesInv, NotesTyped
  <2>2. Requested(Append(events[at], "requested"))
    BY <2>1, RequestedNow
  <2> QED  BY <1>1, <2>2
<1>3. CASE Notify!Alone
  <2>1. stage' = "sending" /\ at' = at
    BY <1>3 DEF Notify!Request
  <2>2. ASSUME NEW i \in Notify!Items
        PROVE  IF i < at THEN Final(events'[i], Outcome(i)) ELSE IF i = at THEN Requested(events'[i]) ELSE Untold(events'[i])
    <3>1. i \in Nat /\ at \in Nat /\ IF i < at THEN Final(events[i], Outcome(i)) ELSE Untold(events[i])
      BY <1>1, <1>3 DEF NotesInv, Notify!Items
    <3> QED  BY <1>2, <3>1
  <2>3. Accounted' /\ NotesTyped' /\ accepted' \subseteq 1..at'-1 /\ \A i \in Notify!Items : Outcome(i)' = Outcome(i)
    BY <1>1, <1>3, <2>1 DEF NotesInv, NotesTyped, Accounted, Outcome, Notify!Items, Ascends
  <2> QED  BY <1>1, <1>3, <2>1, <2>2, <2>3 DEF NotesInv
<1>4. CASE ~Notify!Alone
  <2>1. accepted' = {} /\ results' = <<>> /\ failures' = <<>>
    BY <1>1, <1>4 DEF NotesInv
  <2>2. CASE at < Len(Batch)
    <3>1. at' = at + 1 /\ stage' = "requesting"
      BY <1>1, <1>4, <2>2 DEF Notify!Request
    <3>2. ASSUME NEW i \in Notify!Items PROVE IF i < at' THEN Requested(events'[i]) ELSE Untold(events'[i])
      <4>1. i \in Nat /\ at \in Nat /\ IF i < at THEN Requested(events[i]) ELSE Untold(events[i])
        BY <1>1, <1>4 DEF NotesInv, Notify!Items
      <4> QED  BY <1>2, <3>1, <4>1
    <3> QED  BY <1>1, <1>4, <2>1, <2>2, <3>1, <3>2 DEF NotesInv, NotesTyped, Ascends, Notify!Items
  <2>3. CASE at = Len(Batch)
    <3>1. at' = 1 /\ stage' = "sending"
      BY <1>4, <2>3 DEF Notify!Request, NotesInv, NotesTyped
    <3>2. ASSUME NEW i \in Notify!Items PROVE Requested(events'[i])
      <4>1. i \in Nat /\ i <= at /\ at \in Nat /\ IF i < at THEN Requested(events[i]) ELSE Untold(events[i])
        BY <1>1, <1>4, <2>3 DEF NotesInv, Notify!Items
      <4> QED  BY <1>2, <4>1
    <3>3. NotesTyped' /\ Accounted'
      BY <1>1, <2>1, <3>1 DEF NotesInv, NotesTyped, Accounted, Ascends, Notify!Items
    <3> QED  BY <1>1, <1>4, <2>1, <3>1, <3>2, <3>3 DEF NotesInv, Notify!Items
  <2> QED  BY <1>1, <2>2, <2>3 DEF Notify!Items
<1> QED  BY <1>3, <1>4

LEMMA SendKeepsNotes ==
  ASSUME Notify!NotificationsAssumption, NotesInv, NEW ok \in BOOLEAN, Notify!Send(ok)
  PROVE  NotesInv'
<1> USE DEF Notify!NotificationsAssumption
<1>1. /\ stage = "sending" /\ at \in Notify!Items /\ Len(Batch) \in Nat
      /\ UNCHANGED <<at, events, results, failures>> /\ accepted \subseteq 1..at-1
      /\ \A i \in Notify!Items :
            IF i < at THEN Final(events[i], Outcome(i)) ELSE IF i = at \/ ~Notify!Alone THEN Requested(events[i]) ELSE Untold(events[i])
  BY DEF Notify!Send, NotesInv, NotesTyped, Notify!Items
<1>2. CASE ok = FALSE
  <2>1. stage' = "failing" /\ accepted' = accepted
    BY <1>2 DEF Notify!Send
  <2>2. NotesTyped' /\ Accounted' /\ Notify!AllRefused' = Notify!AllRefused /\ \A i \in Notify!Items : Outcome(i)' = Outcome(i)
    BY <1>1, <2>1 DEF NotesInv, NotesTyped, Accounted, Ascends, Outcome, Notify!AllRefused
  <2> QED  BY <1>1, <2>1, <2>2 DEF NotesInv
<1>3. CASE ok = TRUE
  <2>1. stage' = "reporting" /\ accepted' = accepted \cup Notify!Asked /\ ~Notify!AllRefused
    BY <1>3 DEF Notify!Send
  <2>2. accepted' \subseteq Notify!Items /\ accepted \subseteq accepted'
    BY <1>1, <2>1 DEF Notify!Asked, NotesInv, NotesTyped
  <2>3. NotesTyped' /\ Accounted' /\ Notify!AllRefused' = Notify!AllRefused
    BY <1>1, <2>1, <2>2 DEF NotesInv, NotesTyped, Accounted, Ascends, Notify!AllRefused
  <2>4. IF Mode = "bulk" THEN accepted' = Notify!Items ELSE at \in accepted' /\ accepted' \subseteq 1..at
    BY <1>1, <2>1, <2>2 DEF Notify!Asked, Notify!Items
  <2>5. Mode = "bulk" => ~Notify!Alone /\ at = 1
    BY <1>1 DEF NotesInv, Notify!Alone
  <2>6. ASSUME NEW i \in Notify!Items, i < at PROVE Outcome(i)' = Outcome(i)
    BY <1>1, <2>1, <2>5, <2>6 DEF Outcome, Notify!Asked, Notify!Items
  <2> QED  BY <1>1, <2>1, <2>3, <2>4, <2>5, <2>6 DEF NotesInv
<1> QED  BY <1>2, <1>3

\* The notification at at, or all of them, has become what Final says, and the next has its turn.
LEMMA ToldKeepsNotes ==
  ASSUME Notify!NotificationsAssumption, NotesInv, stage \in {"reporting", "failing"}, ~Notify!Alone => Mode # "bulk",
         NEW name \in Names, name = Outcome(at),
         events' = [i \in Notify!Items |-> IF i \in {at} THEN Append(events[i], name) ELSE events[i]],
         UNCHANGED accepted, Notify!Onward, accepted \subseteq 1..at,
         ~Notify!Alone => ~Notify!AllRefused,
         \/ at \in accepted /\ results' = Append(results, at) /\ failures' = failures
         \/ failures' = Append(failures, at) /\ results' = results
  PROVE  NotesInv'
<1> USE DEF Notify!NotificationsAssumption
<1>1. /\ at \in Notify!Items /\ Len(Batch) \in Nat /\ at \in Nat /\ at' = at + 1
      /\ stage' = (IF at = Len(Batch) THEN "over" ELSE IF Notify!Alone THEN "requesting" ELSE "sending")
      /\ \A i \in Notify!Items :
            IF i < at THEN Final(events[i], Outcome(i)) ELSE IF i = at \/ ~Notify!Alone THEN Requested(events[i]) ELSE Untold(events[i])
  BY DEF Notify!Onward, NotesInv, NotesTyped, Notify!Items
<1>2. \A i \in Notify!Items : Outcome(i)' = Outcome(i)
  BY DEF Outcome
<1>3. Final(events'[at], Outcome(at)) /\ \A i \in Notify!Items \ {at} : events'[i] = events[i]
  <2>1. Requested(events[at])
    BY <1>1
  <2>2. Final(Append(events[at], name), Outcome(at))
    BY <2>1, FinallyTold
  <2> QED  BY <1>1, <2>2
<1>4. ASSUME NEW i \in Notify!Items
      PROVE  IF i < at' THEN Final(events'[i], Outcome(i)) ELSE IF ~Notify!Alone THEN Requested(events'[i]) ELSE Untold(events'[i])
  <2>1. i \in Nat
    BY DEF Notify!Items
  <2>2. CASE i = at
    BY <1>1, <1>3, <2>2
  <2>3. CASE i # at
    BY <1>1, <1>3, <2>1, <2>3
  <2> QED  BY <2>2, <2>3
<1>5. Accounted /\ results \in Seq(1..Len(Batch)) /\ failures \in Seq(1..Len(Batch)) /\ Ascends(results) /\ Ascends(failures)
  BY DEF NotesInv, NotesTyped, Notify!Items
<1>6. NotesTyped' /\ Accounted'
  <2>1. CASE at \in accepted /\ results' = Append(results, at) /\ failures' = failures
    <3>1. \A k \in DOMAIN results : results[k] < at
      BY <1>5 DEF Accounted
    <3>2. /\ results' \in Seq(1..Len(Batch)) /\ Ascends(results') /\ Len(results') = Len(results) + 1
          /\ DOMAIN results' = 1..Len(results) + 1 /\ results'[Len(results) + 1] = at
          /\ \A k \in DOMAIN results : k \in DOMAIN results' /\ results'[k] = results[k]
      BY <1>1, <1>5, <2>1, <3>1, AscendsOn DEF Notify!Items
    <3>3. DOMAIN results = 1..Len(results) /\ Len(results) \in Nat /\ Len(failures) \in Nat
          /\ (\A k \in DOMAIN results : results[k] \in Nat) /\ \A k \in DOMAIN failures : failures[k] \in Nat
      BY <1>5
    <3>4. NotesTyped'
      <4>1. \A k \in DOMAIN results' : results'[k] \in accepted
        <5> SUFFICES ASSUME NEW k \in DOMAIN results' PROVE results'[k] \in accepted
          OBVIOUS
        <5>1. CASE k = Len(results) + 1
          BY <2>1, <3>2, <5>1
        <5>2. CASE k \in DOMAIN results
          BY <3>2, <5>2 DEF NotesInv, NotesTyped
        <5> QED  BY <3>2, <3>3, <5>1, <5>2
      <4> QED  BY <1>1, <1>5, <2>1, <3>2, <4>1 DEF NotesInv, NotesTyped, Notify!Items
    <3>5. Accounted'
      <4>1. ASSUME NEW k \in DOMAIN results' PROVE results'[k] < at'
        <5>1. CASE k = Len(results) + 1
          BY <1>1, <3>2, <5>1
        <5>2. CASE k \in DOMAIN results
          BY <1>1, <3>1, <3>2, <3>3, <5>2
        <5> QED  BY <3>2, <3>3, <5>1, <5>2
      <4>3. \A k \in DOMAIN failures' : failures'[k] < at'
        <5> SUFFICES ASSUME NEW k \in DOMAIN failures PROVE failures[k] < at + 1
          BY <1>1, <2>1
        <5>1. failures[k] < at /\ failures[k] \in Nat
          BY <1>5, <3>3 DEF Accounted
        <5> QED  BY <1>1, <5>1
      <4>4. Len(results') + Len(failures') + 1 = at'
        <5>1. Len(results) + Len(failures) + 1 = at
          BY <1>5 DEF Accounted
        <5>2. Len(results') = Len(results) + 1 /\ Len(failures') = Len(failures)
          BY <2>1, <3>2
        <5>3. at' = at + 1 /\ at \in Nat /\ Len(results) \in Nat /\ Len(failures) \in Nat
          BY <1>1, <3>3
        <5> QED  BY <5>1, <5>2, <5>3
      <4>2. ASSUME NEW i \in 1..at'-1
            PROVE  (\E k \in DOMAIN results' : results'[k] = i) \/ \E k \in DOMAIN failures' : failures'[k] = i
        <5>1. CASE i = at
          BY <3>2, <3>3, <5>1
        <5>2. CASE i \in 1..at-1
          BY <1>5, <2>1, <3>2, <5>2 DEF Accounted
        <5> QED  BY <1>1, <5>1, <5>2
      <4> QED  BY <4>1, <4>2, <4>3, <4>4 DEF Accounted
    <3> QED  BY <3>4, <3>5
  <2>2. CASE failures' = Append(failures, at) /\ results' = results
    <3>1. \A k \in DOMAIN failures : failures[k] < at
      BY <1>5 DEF Accounted
    <3>2. /\ failures' \in Seq(1..Len(Batch)) /\ Ascends(failures') /\ Len(failures') = Len(failures) + 1
          /\ DOMAIN failures' = 1..Len(failures) + 1 /\ failures'[Len(failures) + 1] = at
          /\ \A k \in DOMAIN failures : k \in DOMAIN failures' /\ failures'[k] = failures[k]
      BY <1>1, <1>5, <2>2, <3>1, AscendsOn DEF Notify!Items
    <3>3. DOMAIN failures = 1..Len(failures) /\ Len(failures) \in Nat /\ Len(results) \in Nat
          /\ (\A k \in DOMAIN failures : failures[k] \in Nat) /\ \A k \in DOMAIN results : results[k] \in Nat
      BY <1>5
    <3>4. NotesTyped'
      <4>1. \A k \in DOMAIN results' : results'[k] \in accepted
        <5> SUFFICES ASSUME NEW k \in DOMAIN results' PROVE results'[k] \in accepted
          OBVIOUS
        <5> QED  BY <2>2 DEF NotesInv, NotesTyped
      <4> QED  BY <1>1, <1>5, <2>2, <3>2, <4>1 DEF NotesInv, NotesTyped, Notify!Items
    <3>5. Accounted'
      <4>1. ASSUME NEW k \in DOMAIN failures' PROVE failures'[k] < at'
        <5>1. CASE k = Len(failures) + 1
          BY <1>1, <3>2, <5>1
        <5>2. CASE k \in DOMAIN failures
          BY <1>1, <3>1, <3>2, <3>3, <5>2
        <5> QED  BY <3>2, <3>3, <5>1, <5>2
      <4>3. \A k \in DOMAIN results' : results'[k] < at'
        <5> SUFFICES ASSUME NEW k \in DOMAIN results PROVE results[k] < at + 1
          BY <1>1, <2>2
        <5>1. results[k] < at /\ results[k] \in Nat
          BY <1>5, <3>3 DEF Accounted
        <5> QED  BY <1>1, <5>1
      <4>4. Len(results') + Len(failures') + 1 = at'
        <5>1. Len(results) + Len(failures) + 1 = at
          BY <1>5 DEF Accounted
        <5>2. Len(failures') = Len(failures) + 1 /\ Len(results') = Len(results)
          BY <2>2, <3>2
        <5>3. at' = at + 1 /\ at \in Nat /\ Len(results) \in Nat /\ Len(failures) \in Nat
          BY <1>1, <3>3
        <5> QED  BY <5>1, <5>2, <5>3
      <4>2. ASSUME NEW i \in 1..at'-1
            PROVE  (\E k \in DOMAIN failures' : failures'[k] = i) \/ \E k \in DOMAIN results' : results'[k] = i
        <5>1. CASE i = at
          BY <3>2, <3>3, <5>1
        <5>2. CASE i \in 1..at-1
          BY <1>5, <2>2, <3>2, <5>2 DEF Accounted
        <5> QED  BY <1>1, <5>1, <5>2
      <4> QED  BY <4>1, <4>2, <4>3, <4>4 DEF Accounted
    <3> QED  BY <3>4, <3>5
  <2> QED  BY <2>1, <2>2
<1>7. ~Notify!AllRefused' \/ Notify!Alone
  BY DEF Notify!AllRefused
<1> QED
  BY <1>1, <1>2, <1>4, <1>6, <1>7 DEF NotesInv, Notify!Items, Notify!Alone

LEMMA ReportKeepsNotes ==
  ASSUME Notify!NotificationsAssumption, NotesInv, Notify!Report
  PROVE  NotesInv'
<1> USE DEF Notify!NotificationsAssumption
<1>1. /\ stage = "reporting" /\ UNCHANGED <<accepted, failures>> /\ at \in Notify!Items /\ Len(Batch) \in Nat
      /\ ~Notify!Alone => ~Notify!AllRefused
      /\ IF Mode = "bulk" THEN accepted = Notify!Items ELSE at \in accepted /\ accepted \subseteq 1..at
      /\ events' = [i \in Notify!Items |-> IF i \in Notify!Asked THEN Append(events[i], Notify!Reported) ELSE events[i]]
      /\ Notify!Reported \in Names
  BY DEF Notify!Report, Notify!Publish, Notify!Reported, Names, NotesInv, NotesTyped, Notify!Items
<1>2. CASE Mode # "bulk"
  <2>1. Notify!Asked = {at} /\ results' = Append(results, at) /\ Notify!Onward /\ Notify!Reported = Outcome(at)
    BY <1>1, <1>2 DEF Notify!Asked, Notify!Report, Outcome
  <2> QED  BY <1>1, <1>2, <2>1, ToldKeepsNotes
<1>3. CASE Mode = "bulk"
  <2>1. /\ ~Notify!Alone /\ at = 1 /\ at' = Len(Batch) + 1 /\ stage' = "over" /\ Notify!Asked = Notify!Items
        /\ results' = [i \in Notify!Items |-> i] /\ accepted' = Notify!Items
    BY <1>1, <1>3 DEF NotesInv, Notify!Alone, Notify!Asked, Notify!Report
  <2>2. ASSUME NEW i \in Notify!Items PROVE Final(events'[i], Outcome(i)')
    <3>1. Requested(events[i]) /\ events'[i] = Append(events[i], Notify!Reported) /\ Outcome(i)' = Notify!Reported
      BY <1>1, <2>1 DEF NotesInv, Notify!Items, Outcome
    <3> QED  BY <1>1, <3>1, FinallyTold
  <2>3. failures \in Seq(Notify!Items) /\ Len(failures) = 0 /\ DOMAIN failures = {}
    <3>1. Accounted /\ Len(results) \in Nat /\ Len(failures) \in Nat /\ DOMAIN failures = 1..Len(failures)
          /\ failures \in Seq(Notify!Items)
      BY <1>1 DEF NotesInv, NotesTyped
    <3>2. Len(results) + Len(failures) + 1 = 1
      BY <2>1, <3>1 DEF Accounted
    <3> QED  BY <3>1, <3>2
  <2>4. /\ results' \in Seq(1..Len(Batch)) /\ DOMAIN results' = 1..Len(Batch) /\ Len(results') = Len(Batch)
        /\ \A k \in 1..Len(Batch) : results'[k] = k
    BY <1>1, <2>1 DEF Notify!Items
  <2>5. NotesTyped' /\ Accounted'
    BY <1>1, <2>1, <2>3, <2>4 DEF NotesTyped, Accounted, Ascends, Notify!Items
  <2> QED  BY <1>1, <2>1, <2>2, <2>5 DEF NotesInv
<1> QED  BY <1>2, <1>3

LEMMA FailKeepsNotes ==
  ASSUME Notify!NotificationsAssumption, NotesInv, NEW unpublished, Notify!Fail(unpublished)
  PROVE  NotesInv'
<1> USE DEF Notify!NotificationsAssumption
<1>1. /\ stage = "failing" /\ UNCHANGED <<accepted, results>> /\ at \in Notify!Items /\ Len(Batch) \in Nat
      /\ accepted \subseteq 1..at-1 /\ Outcome(at) = "failed" /\ "failed" \in Names
      /\ events' = [i \in Notify!Items |-> IF i \in Notify!Told THEN Append(events[i], "failed") ELSE events[i]]
  BY DEF Notify!Fail, Notify!Publish, Outcome, Names, NotesInv, NotesTyped, Notify!Items
<1>2. CASE ContinueOnError /\ Mode # "bulk" /\ (Notify!Alone \/ ~Notify!AllRefused)
  <2>1. Notify!Told = {at} /\ failures' = Append(failures, at) /\ Notify!Onward
    BY <1>2 DEF Notify!Told, Notify!Fail, Notify!Alone
  <2>2. accepted \subseteq 1..at
    BY <1>1 DEF Notify!Items
  <2> QED  BY <1>1, <1>2, <2>1, <2>2, ToldKeepsNotes
<1>3. CASE ~(ContinueOnError /\ Mode # "bulk" /\ (Notify!Alone \/ ~Notify!AllRefused))
  <2>1. stage' = "thrown" /\ UNCHANGED <<failures, at>>
    BY <1>3 DEF Notify!Fail
  <2>2. ASSUME NEW i \in Notify!Items
        PROVE  i \in Notify!Told <=> IF Notify!Alone THEN i = at ELSE i >= at
    <3>1. i \in Nat /\ at \in Nat /\ i >= 1
      BY <1>1 DEF Notify!Items
    <3>2. CASE Notify!Alone
      BY <3>2 DEF Notify!Told
    <3>3. CASE ~Notify!Alone /\ (Notify!AllRefused \/ Mode = "bulk")
      <4>1. at = 1
        BY <1>1, <3>3 DEF NotesInv
      <4> QED  BY <3>1, <3>3, <4>1 DEF Notify!Told
    <3>4. CASE ~Notify!Alone /\ ~Notify!AllRefused /\ Mode # "bulk"
      BY <1>3, <3>1, <3>4 DEF Notify!Told, Notify!Alone
    <3> QED  BY <3>2, <3>3, <3>4
  <2>3. ASSUME NEW i \in Notify!Items PROVE Untold(events'[i]) \/ Final(events'[i], Outcome(i)')
    <3>1. /\ i \in Nat /\ at \in Nat /\ Outcome(i)' = Outcome(i)
          /\ IF i < at THEN Final(events[i], Outcome(i))
             ELSE IF i = at \/ ~Notify!Alone THEN Requested(events[i]) ELSE Untold(events[i])
      BY <1>1 DEF NotesInv, Notify!Items, Outcome
    <3>2. CASE i < at
      BY <1>1, <2>2, <3>1, <3>2
    <3>3. CASE ~(i < at) /\ (i = at \/ ~Notify!Alone)
      <4>1. Outcome(i) = "failed" /\ i \in Notify!Told
        BY <1>1, <2>2, <3>1, <3>3 DEF Outcome
      <4> QED  BY <1>1, <3>1, <3>3, <4>1, FinallyTold
    <3>4. CASE ~(i < at) /\ i # at /\ Notify!Alone
      BY <1>1, <2>2, <3>1, <3>4
    <3> QED  BY <3>2, <3>3, <3>4
  <2>4. NotesTyped'
    BY <1>1, <2>1 DEF NotesInv, NotesTyped, Ascends
  <2> QED  BY <1>1, <2>1, <2>3, <2>4 DEF NotesInv
<1> QED  BY <1>2, <1>3

\* OneTerminalEach: whatever channels, the queue and the publisher of events do, and
\* whether a batch goes on after an error, each notification is told one outcome, the
\* one that it had (NotificationsService, dispatch() and dispatchMany()).
THEOREM EachIsToldOnce ==
  ASSUME Notify!NotificationsAssumption
  PROVE  Notify!Spec => []Notify!OneTerminalEach
<1>1. NotesInv /\ [Notify!Next]_(Notify!notificationVars) => NotesInv'
  <2> SUFFICES ASSUME NotesInv, [Notify!Next]_(Notify!notificationVars) PROVE NotesInv'
    OBVIOUS
  <2>1. CASE UNCHANGED Notify!notificationVars
    BY <2>1 DEF Notify!notificationVars, NotesInv, NotesTyped, Accounted, Ascends, Outcome, Notify!AllRefused
  <2> QED
    BY <2>1, RequestKeepsNotes, SendKeepsNotes, ReportKeepsNotes, FailKeepsNotes DEF Notify!Next, Notify!Step
<1>2. NotesInv => Notify!OneTerminalEach
  <2> SUFFICES ASSUME NotesInv PROVE Notify!OneTerminalEach
    OBVIOUS
  <2>1. ASSUME NEW i \in Notify!Items
        PROVE  Untold(events[i]) \/ Requested(events[i]) \/ Final(events[i], Outcome(i))
    BY DEF NotesInv, NotesTyped
  <2>2. ASSUME NEW i \in Notify!Items
        PROVE  /\ \A j, k \in Notify!Terminal(i) : j = k
               /\ events[i] # <<>> => Head(events[i]) = "requested"
               /\ stage \in {"over", "thrown"} /\ events[i] # <<>> =>
                    \E k \in Notify!Terminal(i) : events[i][k] = IF i \in accepted THEN Notify!Reported ELSE "failed"
    <3>1. CASE Untold(events[i])
      BY <3>1 DEF Untold, Notify!Terminal
    <3>2. CASE Requested(events[i])
      <4>1. /\ DOMAIN events[i] = {1} /\ Head(events[i]) = "requested"
            /\ ~(stage \in {"over", "thrown"})
        BY <3>2 DEF Requested, NotesInv, Untold, Final
      <4> QED  BY <3>2, <4>1 DEF Requested, Notify!Terminal
    <3>3. CASE Final(events[i], Outcome(i))
      <4>1. /\ DOMAIN events[i] = {1, 2} /\ Head(events[i]) = "requested" /\ events[i][1] = "requested"
            /\ events[i][2] = Outcome(i) /\ Outcome(i) # "requested"
        BY <3>3 DEF Final, Outcome, Notify!Reported
      <4>2. Notify!Terminal(i) = {2}
        BY <4>1 DEF Notify!Terminal
      <4> QED  BY <4>1, <4>2 DEF Outcome
    <3> QED  BY <2>1, <3>1, <3>2, <3>3
  <2>3. /\ \A i \in Notify!Items : i \in Notify!ToSet(results) => i \in accepted
        /\ \A s \in {results, failures} : \A i, j \in DOMAIN s : i < j => s[i] < s[j]
    BY DEF NotesInv, NotesTyped, Ascends, Notify!ToSet
  <2>4. ASSUME stage = "over"
        PROVE  /\ Notify!ToSet(results) \cup Notify!ToSet(failures) = Notify!Items
               /\ Len(results) + Len(failures) = Len(Batch)
    <3>1. /\ at = Len(Batch) + 1 /\ Accounted /\ Len(Batch) \in Nat
          /\ results \in Seq(Notify!Items) /\ failures \in Seq(Notify!Items)
      BY <2>4 DEF NotesInv, NotesTyped, Notify!NotificationsAssumption
    <3>2. Len(results) + Len(failures) + 1 = Len(Batch) + 1 /\ Len(results) \in Nat /\ Len(failures) \in Nat
      BY <3>1 DEF Accounted
    <3>3. \A i \in Notify!Items : (\E k \in DOMAIN results : results[k] = i) \/ (\E k \in DOMAIN failures : failures[k] = i)
      BY <3>1 DEF Accounted, Notify!Items
    <3> QED  BY <3>1, <3>2, <3>3 DEF Notify!ToSet
  <2> QED  BY <2>2, <2>3, <2>4 DEF Notify!OneTerminalEach
<1> QED  BY NotesInitial, <1>1, <1>2, PTL DEF Notify!Spec
=============================================================================
