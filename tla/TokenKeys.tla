------------------------------ MODULE TokenKeys ------------------------------
(***************************************************************************)
(* Which key DefaultJwtSigner signs an access or a refresh token with, and *)
(* which one DefaultJwtVerifier takes to verify it, for options that give  *)
(* keys[], a secret and a key pair.  Without remote keys and without a     *)
(* secretOrKeyProvider.                                                    *)
(***************************************************************************)
EXTENDS Naturals, Sequences, FiniteSets, SequencesExt

CONSTANTS Kids, MaxKeys  \* bound: entries of keys[]

TokenKeysAssumption == MaxKeys \in Nat /\ "none" \notin Kids

VARIABLES
  options,  \* JwtVerifierOptions, which the signer and the verifier share
  token,    \* [kind, alg, kid, by]; by is the material that signed it
  accepted  \* the verdict on it: "", "yes" or "no"

tokenKeyVars == <<options, token, accepted>>

\* What an entry has, or the options have beside keys[].
Material == [secret : BOOLEAN, private : BOOLEAN, public : BOOLEAN]
Entries == {[kid |-> k, has |-> m] : k \in Kids, m \in Material}
Algorithms == {<<"HS">>, <<"RS">>, <<"HS", "RS">>, <<"RS", "HS">>}
NoToken == [kind |-> "", alg |-> "none", kid |-> "none", by |-> 0]
Init ==
  /\ \E n \in 0 .. MaxKeys, top \in Material, algs \in Algorithms :
       \E keys \in [1 .. n -> Entries] : options = [keys |-> keys, top |-> top, algorithms |-> algs]
  /\ token = NoToken /\ accepted = ""

\* Material is told apart by where it is: the entry's index, 0 beside keys[], and
\* Refresh for the secret of refresh tokens.
Refresh == MaxKeys + 1
Nowhere == MaxKeys + 2

---------------------------------------------------------------------------
(* Signing                                                                 *)

Can(alg, material) == IF alg = "HS" THEN material.secret ELSE material.private
\* The first entry that can sign.
resolveSigningKeyEntry(alg) == SelectInSeq(options.keys, LAMBDA e : Can(alg, e.has))
signAccessToken ==
  LET alg == Head(options.algorithms)
      i   == resolveSigningKeyEntry(alg)
  IN  /\ i # 0 \/ Can(alg, options.top)
      /\ token' = [kind |-> "access", alg |-> alg, by |-> i,
                   kid |-> IF i = 0 THEN "none" ELSE options.keys[i].kid]
\* Refresh tokens are signed with their own secret, by the first HMAC algorithm.
signRefreshToken ==
  /\ Contains(options.algorithms, "HS")
  /\ token' = [kind |-> "refresh", alg |-> "HS", kid |-> "none", by |-> Refresh]
Signs ==
  /\ token = NoToken /\ (signAccessToken \/ signRefreshToken)
  /\ UNCHANGED <<options, accepted>>

---------------------------------------------------------------------------
(* Verifying                                                               *)

\* createKeyResolutionState(): the last entry of a kid, and the only entry with a
\* secret or with a public key.
ByKid(kid) == SelectLastInSeq(options.keys, LAMBDA e : e.kid = kid)
With(alg) == {i \in DOMAIN options.keys :
                IF alg = "HS" THEN options.keys[i].has.secret ELSE options.keys[i].has.public}
Only(alg, otherwise) ==
  CASE With(alg) = {} -> IF otherwise THEN 0 ELSE Nowhere
    [] Cardinality(With(alg)) = 1 -> CHOOSE i \in With(alg) : TRUE
    [] OTHER -> Nowhere
resolveHmacSecret(kid) ==
  IF kid # "none" THEN IF ByKid(kid) \in With("HS") THEN ByKid(kid) ELSE Nowhere
  ELSE Only("HS", options.top.secret)
\* A kid is of no consequence when there is no keys[].
resolveStaticPublicKey(kid) ==
  IF kid # "none" /\ options.keys # <<>>
    THEN IF ByKid(kid) \in With("RS") THEN ByKid(kid) ELSE Nowhere
    ELSE Only("RS", options.top.public)
Key ==
  CASE token.kind = "refresh" -> Refresh
    [] token.kind = "access" /\ token.alg = "HS" -> resolveHmacSecret(token.kid)
    [] OTHER -> resolveStaticPublicKey(token.kid)
verifyToken ==
  /\ token # NoToken /\ accepted = ""
  /\ accepted' = (IF Contains(options.algorithms, token.alg) /\ Key = token.by THEN "yes" ELSE "no")
  /\ UNCHANGED <<options, token>>

Next == Signs \/ verifyToken
Spec == Init /\ [][Next]_tokenKeyVars

---------------------------------------------------------------------------
TypeOK ==
  /\ token.alg \in {"none", "HS", "RS"} /\ token.kid \in Kids \cup {"none"} /\ token.by \in 0 .. Refresh
  /\ accepted \in {"", "yes", "no"}

\* Options in which no two entries share a kid, who can sign can verify, and
\* keys[] has no public key for tokens that the private key beside it signs.
Coherent(o) ==
  /\ \A i, j \in DOMAIN o.keys : o.keys[i].kid = o.keys[j].kid => i = j
  /\ \A m \in {o.keys[i].has : i \in DOMAIN o.keys} \cup {o.top} : m.private => m.public
  /\ (\E i \in DOMAIN o.keys : o.keys[i].has.public) => \E i \in DOMAIN o.keys : o.keys[i].has.private

\* A token that was signed with coherent options is accepted with them: of several
\* keys the kid finds the one that signed it (README of @fluojs/jwt: kid
\* disambiguates, a single static key verifies tokens without one).
SignedVerifies == Coherent(options) => accepted # "no"
=============================================================================
