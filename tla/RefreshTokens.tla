---------------------------- MODULE RefreshTokens ----------------------------
(***************************************************************************)
(* RefreshTokenService of @fluojs/jwt as RefreshTokenStrategy of           *)
(* @fluojs/passport uses it: a client presents a refresh token and is      *)
(* given an access token and the next refresh token.  Requests race each   *)
(* other, a logout and the clock, any call of the store may fail, and its  *)
(* answer may be lost after the call was carried out.                      *)
(*                                                                         *)
(* There is one subject.  A token and the record of it have one id; the    *)
(* first token of a family names the family.  A record's subject and       *)
(* family are those of its token, so that "mismatch" does not happen.      *)
(***************************************************************************)
EXTENDS Naturals, FiniteSets

CONSTANTS
  Store,     \* "rotate", "consume" for a store that has no rotate(), or "fixed"
             \* when the service does not rotate
  Requests,
  MaxTokens, \* bound: tokens signed
  Faults     \* calls of the store may fail

TokensAssumption ==
  /\ Store \in {"rotate", "consume", "fixed"} /\ MaxTokens \in Nat \ {0} /\ Faults \in BOOLEAN

Tokens == 1 .. MaxTokens

VARIABLES
  records,  \* the store: a record is "none", "live" or "used"
  signed,   \* tokens signed, the latest one
  family,   \* of each token
  expired,  \* tokens whose time is over, and their records'
  held,     \* tokens that a client was given
  request,  \* each request: where it is, what it presented and what it will return
  stored,   \* history: tokens whose record was ever stored, each with the token it replaces
  barred    \* history: families with a record when the subject's were revoked

tokenVars == <<records, signed, family, expired, held, request, stored, barred>>

None == 0
Idle == [pc |-> "idle", token |-> None, next |-> None]
\* A service that does not rotate may have taken over from one that did, with a
\* record that is used.
Init ==
  /\ LET old == IF Store = "fixed" THEN {1} ELSE {} IN
     /\ records = [t \in Tokens |-> IF t \in old THEN "used" ELSE "none"]
     /\ signed = Cardinality(old) /\ family = [t \in Tokens |-> IF t \in old THEN t ELSE None]
     /\ held = old /\ stored = {None} \X old
  /\ expired = {} /\ request = [r \in Requests |-> Idle] /\ barred = {}

Recorded == {t \in Tokens : records[t] # "none"}
Goto(r, pc) == request' = [request EXCEPT ![r].pc = pc]

---------------------------------------------------------------------------
(* The store                                                               *)

\* What consume() or rotate() answers for a record as it is.
Verdict(t) ==
  CASE records[t] = "none" -> "invalid"
    [] records[t] # "none" /\ t \in expired -> "expired"
    [] records[t] = "used" /\ t \notin expired -> "used"
    [] OTHER -> "consumed"
consume(t) == [records EXCEPT ![t] = "used"]
rotate(t, next) == [records EXCEPT ![t] = "used", ![next] = "live"]
revoke(tokens) == records' = [t \in Tokens |-> IF t \in tokens THEN "none" ELSE records[t]]
\* The families that are revoked.
Bars == barred' = barred \cup {family[t] : t \in Recorded}

---------------------------------------------------------------------------
(* The service                                                             *)

\* issueRefreshToken(): a new family, once its record is stored.
Issues ==
  /\ signed < MaxTokens /\ signed' = signed + 1
  /\ family' = [family EXCEPT ![signed + 1] = signed + 1]
  /\ records' = [records EXCEPT ![signed + 1] = "live"] /\ stored' = stored \cup {<<None, signed + 1>>}
  /\ held' = held \cup {signed + 1}
  /\ UNCHANGED <<expired, request, barred>>

\* Time passes the end of a token that somebody has.
Expires ==
  /\ \E t \in held \ expired : expired' = expired \cup {t}
  /\ UNCHANGED <<records, signed, family, held, request, stored, barred>>

\* The token is verified by its signature and its claims, which may allow for a
\* clock that is behind; with rotation the next one of the family is signed
\* before the store is asked.
Presents(r) ==
  /\ request[r].pc = "idle"
  /\ \E t \in held :
       \/ /\ t \in expired /\ request' = [request EXCEPT ![r] = [Idle EXCEPT !.pc = "expired"]]
          /\ UNCHANGED <<signed, family>>
       \/ /\ Store # "fixed" /\ signed < MaxTokens
          /\ signed' = signed + 1 /\ family' = [family EXCEPT ![signed + 1] = family[t]]
          /\ request' = [request EXCEPT ![r] = [pc |-> "asking", token |-> t, next |-> signed + 1]]
       \/ /\ Store = "fixed"
          /\ request' = [request EXCEPT ![r] = [pc |-> "asking", token |-> t, next |-> t]]
          /\ UNCHANGED <<signed, family>>
  /\ UNCHANGED <<records, expired, held, stored, barred>>

\* The store's answer: the old token is used up, with rotate() in one step with
\* the storing of the next one.  It is not rotated when the service does not.
Consumed(r) ==
  LET t == request[r].token
      n == request[r].next
  IN  \/ /\ Store = "rotate" /\ records' = rotate(t, n) /\ stored' = stored \cup {<<t, n>>}
         /\ Goto(r, "verifying")
      \/ Store = "consume" /\ records' = consume(t) /\ UNCHANGED stored /\ Goto(r, "saving")
      \/ Store = "fixed" /\ UNCHANGED <<records, stored>> /\ Goto(r, "verifying")
Asks(r) ==
  /\ request[r].pc = "asking"
  /\ LET verdict == Verdict(request[r].token) IN
     \/ verdict = "consumed" /\ Consumed(r)
     \/ verdict = "used" /\ Goto(r, "revoking") /\ UNCHANGED <<records, stored>>
     \/ verdict \in {"expired", "invalid"} /\ Goto(r, verdict) /\ UNCHANGED <<records, stored>>
  /\ UNCHANGED <<signed, family, expired, held, barred>>

\* A store without rotate() is told of the next token in a second call.
Saves(r) ==
  /\ request[r].pc = "saving"
  /\ records' = [records EXCEPT ![request[r].next] = "live"]
  /\ stored' = stored \cup {<<request[r].token, request[r].next>>}
  /\ Goto(r, "verifying")
  /\ UNCHANGED <<signed, family, expired, held, barred>>

\* Somebody presented a token for the second time: all the subject has goes.
CondemnedAlone(r) == {request[r].token}
Condemned(r) == Tokens
Revokes(r) ==
  /\ request[r].pc = "revoking" /\ revoke(Condemned(r)) /\ Bars /\ Goto(r, "reused")
  /\ UNCHANGED <<signed, family, expired, held, stored>>

\* The strategy verifies the access token, and only then answers.
Answers(r) ==
  /\ request[r].pc = "verifying" /\ Goto(r, "done") /\ held' = held \cup {request[r].next}
  /\ UNCHANGED <<records, signed, family, expired, stored, barred>>
AnswerFails(r) ==
  /\ Faults /\ request[r].pc = "verifying" /\ Goto(r, "error")
  /\ UNCHANGED <<records, signed, family, expired, held, stored, barred>>

\* A call of the store rejects and changes nothing, or its answer is lost.
CallFails(r) ==
  /\ Faults /\ request[r].pc \in {"asking", "saving", "revoking"} /\ Goto(r, "error")
  /\ \/ UNCHANGED <<records, stored, barred>>
     \/ /\ request[r].pc = "asking" /\ Store = "rotate" /\ Verdict(request[r].token) = "consumed"
        /\ records' = rotate(request[r].token, request[r].next)
        /\ stored' = stored \cup {<<request[r].token, request[r].next>>} /\ UNCHANGED barred
     \/ /\ request[r].pc = "asking" /\ Store = "consume" /\ Verdict(request[r].token) = "consumed"
        /\ records' = consume(request[r].token) /\ UNCHANGED <<stored, barred>>
     \/ request[r].pc = "revoking" /\ revoke(Condemned(r)) /\ Bars /\ UNCHANGED stored
  /\ UNCHANGED <<signed, family, expired, held>>

revokeAllForSubject ==
  /\ revoke(Tokens) /\ Bars /\ UNCHANGED <<signed, family, expired, held, request, stored>>
revokeRefreshToken ==
  /\ \E t \in Recorded : revoke({t})
  /\ UNCHANGED <<signed, family, expired, held, request, stored, barred>>

Next ==
  \/ Issues \/ Expires \/ revokeAllForSubject \/ revokeRefreshToken
  \/ \E r \in Requests :
       \/ Presents(r) \/ Asks(r) \/ Saves(r) \/ Revokes(r) \/ Answers(r) \/ AnswerFails(r) \/ CallFails(r)
Spec == Init /\ [][Next]_tokenVars

---------------------------------------------------------------------------
TypeOK ==
  /\ records \in [Tokens -> {"none", "live", "used"}] /\ signed \in 0 .. MaxTokens
  /\ family \in [Tokens -> 0 .. MaxTokens] /\ expired \subseteq held /\ held \subseteq 1 .. signed
  /\ stored \subseteq (0 .. MaxTokens) \X Tokens /\ barred \subseteq Tokens

\* A token is exchanged once, whoever presents it and whatever fails: it has
\* one successor at most, which was stored before any client was given it
\* (rotateRefreshToken(), README of @fluojs/jwt: a rotation never consumes the
\* old token without a stored successor).
RotatesOnce ==
  /\ \A t \in Tokens : Cardinality({n \in Tokens : <<t, n>> \in stored}) <= 1
  /\ \A n \in held : \E t \in 0 .. MaxTokens : <<t, n>> \in stored

\* After a token was found reused, or after a logout, nothing that descends
\* from what the subject had then is accepted.  A store without rotate() may
\* still save the successor of a token that was consumed before.
RevokedStayOut == Store # "consume" => \A t \in Tokens : records[t] = "live" => family[t] \notin barred
=============================================================================
