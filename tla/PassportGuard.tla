---------------------------- MODULE PassportGuard ----------------------------
(***************************************************************************)
(* AuthGuard of packages/passport, the bridge that runs a Passport.js      *)
(* strategy for it, and the conservative policy of account linking.  A     *)
(* bridged strategy calls back when it likes, as often as it likes, and    *)
(* may return a promise; the first of its actions, of the promise and of   *)
(* the timer settles the request.  What a principal contains is reduced to *)
(* whether it is valid and has the scopes that the route asks for.         *)
(***************************************************************************)
EXTENDS Naturals, FiniteSets

CONSTANTS Requests,
          Requirement, \* per request: getAuthRequirement and what its strategy is
          MaxCalls,    \* bound: the actions a bridged strategy calls
          Accounts     \* the accounts an identity may match; {} when nothing is linked

GuardAssumption ==
  /\ Requirement \in [Requests -> [strategy : {"none", "missing", "own", "bridge"},
                                   scopes : BOOLEAN, optional : BOOLEAN]]
  /\ MaxCalls \in Nat /\ IsFiniteSet(Accounts)

VARIABLES
  verdict,    \* per request: what canActivate does
  bridge,     \* per request: requestState of its strategy
  timer,      \* the requests whose actionTimeout runs
  promised,   \* per request: what authenticate returned
  calls,      \* per request: the actions its strategy has called
  redirected, \* the requests answered with a redirect
  principal,  \* per request: requestContext.principal
  linking     \* what evaluate was asked and what it decided

guardVars == <<verdict, bridge, timer, promised, calls, redirected, principal, linking>>

Results == {"scoped", "plain", "invalid", "handled", "anonymous", "denied", "broken"}
NoLinking == [linked |-> {}, matched |-> {}, attempt |-> "none", target |-> "none", decision |-> "none"]

PassportTypeOK ==
  /\ verdict \in [Requests -> {"no", "asked", "allowed", "unauthorized", "forbidden", "error"}]
  /\ bridge \in [Requests -> {"no", "open", "settled", "lost"}]
  /\ promised \in [Requests -> {"no", "pending", "over"}] /\ calls \in [Requests -> 0..MaxCalls]
  /\ {timer, redirected} \subseteq SUBSET Requests
  /\ principal \in [Requests -> {"none", "scoped", "plain"}]

Init ==
  /\ verdict = [r \in Requests |-> "no"] /\ bridge = [r \in Requests |-> "no"] /\ timer = {}
  /\ promised = [r \in Requests |-> "no"] /\ calls = [r \in Requests |-> 0]
  /\ redirected = {} /\ principal = [r \in Requests |-> "none"] /\ linking = NoLinking

---------------------------------------------------------------------------
(* AuthGuard *)

\* Mutant: a principal without the scopes of the route passes.
JudgesLoosely(r, result) ==
  CASE result = "broken" -> "error"
    [] result \in {"denied", "invalid"} -> "unauthorized"
    [] result = "handled" -> IF r \in redirected' THEN "allowed" ELSE "unauthorized"
    [] result = "anonymous" -> IF Requirement[r].optional THEN "allowed" ELSE "unauthorized"
    [] OTHER -> "allowed"
\* What canActivate does with what the strategy answered.  A strategy that says
\* it has handled the request must have answered it.
Judges(r, result) ==
  CASE result = "broken" -> "error"
    [] result \in {"denied", "invalid"} -> "unauthorized"
    [] result = "handled" -> IF r \in redirected' THEN "allowed" ELSE "unauthorized"
    [] result = "anonymous" ->
         IF Requirement[r].optional /\ ~Requirement[r].scopes THEN "allowed" ELSE "unauthorized"
    [] result = "plain" -> IF Requirement[r].scopes THEN "forbidden" ELSE "allowed"
    [] OTHER -> "allowed"

Concludes(r, result) ==
  /\ verdict' = [verdict EXCEPT ![r] = Judges(r, result)]
  /\ principal' = [principal EXCEPT ![r] =
       IF Judges(r, result) = "allowed" /\ result \in {"scoped", "plain"} THEN result ELSE @]

\* No strategy, one that is not registered, and one of the application's own.
Ask(r) ==
  /\ verdict[r] = "no" /\ Requirement[r].strategy \in {"none", "missing"}
  /\ verdict' = [verdict EXCEPT ![r] =
       IF Requirement[r].strategy = "missing" \/ Requirement[r].scopes THEN "error" ELSE "allowed"]
  /\ UNCHANGED <<bridge, timer, promised, calls, redirected, principal, linking>>

AskOwn(r, result) ==
  /\ verdict[r] = "no" /\ Requirement[r].strategy = "own"
  /\ redirected' \in IF result = "handled" THEN {redirected, redirected \cup {r}} ELSE {redirected}
  /\ Concludes(r, result)
  /\ UNCHANGED <<bridge, timer, promised, calls, linking>>

---------------------------------------------------------------------------
(* PassportJsAuthStrategy *)

\* authenticate: the strategy runs; what it calls at once comes right after.
AskBridge(r, asynchronous) ==
  /\ verdict[r] = "no" /\ Requirement[r].strategy = "bridge"
  /\ verdict' = [verdict EXCEPT ![r] = "asked"] /\ bridge' = [bridge EXCEPT ![r] = "open"]
  /\ timer' = timer \cup {r}
  /\ promised' = [promised EXCEPT ![r] = IF asynchronous THEN "pending" ELSE "no"]
  /\ UNCHANGED <<calls, redirected, principal, linking>>

\* settle: the first wins, and what comes later finds nothing.
Settles(r, result) ==
  IF bridge[r] = "open"
  THEN /\ bridge' = [bridge EXCEPT ![r] = "settled"] /\ timer' = timer \ {r}
       /\ Concludes(r, result)
  ELSE UNCHANGED <<bridge, verdict, principal>> /\ timer' = timer

\* Mutant: an action that comes late is carried out.
RedirectsAlways(r) == TRUE
Redirects(r) == bridge[r] = "open"

\* success, whose mapPrincipal may refuse the user or fail; fail, pass and error.
Acts(r, result) ==
  /\ bridge[r] # "no" /\ calls[r] < MaxCalls /\ calls' = [calls EXCEPT ![r] = @ + 1]
  /\ result \in Results \ {"handled", "anonymous"} /\ UNCHANGED redirected
  /\ Settles(r, result) /\ UNCHANGED <<promised, linking>>

ActsRedirect(r) ==
  /\ bridge[r] # "no" /\ calls[r] < MaxCalls /\ calls' = [calls EXCEPT ![r] = @ + 1]
  /\ redirected' = IF Redirects(r) THEN redirected \cup {r} ELSE redirected
  /\ Settles(r, "handled") /\ UNCHANGED <<promised, linking>>

\* response.redirect throws, for a target that no header may hold or an answer
\* under way: the request counts as settled and nobody is told.
RedirectFails(r) ==
  /\ bridge[r] = "open" /\ calls[r] < MaxCalls /\ calls' = [calls EXCEPT ![r] = @ + 1]
  /\ bridge' = [bridge EXCEPT ![r] = "lost"] /\ timer' = timer \ {r}
  /\ UNCHANGED <<verdict, promised, redirected, principal, linking>>

\* authenticate throws, or its promise ends without an action.
Returns(r, result) ==
  /\ promised[r] = "pending" /\ promised' = [promised EXCEPT ![r] = "over"]
  /\ result \in {"denied", "broken"} /\ UNCHANGED <<redirected, calls, linking>>
  /\ IF bridge[r] = "open" THEN Settles(r, result)
     ELSE timer' = timer \ {r} /\ UNCHANGED <<bridge, verdict, principal>>

Timeout(r) ==
  /\ r \in timer /\ UNCHANGED <<promised, calls, redirected, linking>> /\ Settles(r, "denied")

---------------------------------------------------------------------------
(* createConservativeAccountLinkPolicy *)

\* Mutant: a target that is asked for is linked without the user's word.
ConfirmedAlways(attempt) == TRUE
Confirmed(attempt) == attempt = "confirmed"

Decision(linked, matched, attempt, target) ==
  CASE Cardinality(linked) = 1 -> "link"
    [] Cardinality(linked) > 1 -> "conflict"
    [] linked = {} /\ attempt # "none" ->
         IF Confirmed(attempt) /\ target \in matched THEN "link" ELSE "reject"
    [] linked = {} /\ attempt = "none" /\ matched = {} -> "create-account"
    [] OTHER -> "conflict"

Link(linked, matched, attempt, target) ==
  /\ linking = NoLinking
  /\ LET decision == Decision(linked, matched, attempt, target)
     IN linking' = [linked |-> linked, matched |-> matched, attempt |-> attempt, decision |-> decision,
          target |-> IF decision # "link" THEN "none"
                     ELSE IF linked # {} THEN CHOOSE a \in linked : TRUE ELSE target]
  /\ UNCHANGED <<verdict, bridge, timer, promised, calls, redirected, principal>>

---------------------------------------------------------------------------
Next ==
  \/ \E r \in Requests :
       \/ Ask(r) \/ \E result \in Results : AskOwn(r, result) \/ Acts(r, result) \/ Returns(r, result)
       \/ (\E asynchronous \in BOOLEAN : AskBridge(r, asynchronous))
       \/ ActsRedirect(r) \/ RedirectFails(r) \/ Timeout(r)
  \/ \E linked, matched \in SUBSET Accounts, attempt \in {"none", "asked", "confirmed"}, target \in Accounts :
       Link(linked, matched, attempt, target)

\* The timer of a request fires when nothing has settled it.
Due == \E r \in Requests : Timeout(r)
Spec == Init /\ [][Next]_guardVars /\ WF_guardVars(Due)

---------------------------------------------------------------------------
(* Properties *)

\* A request gets one answer: one that was redirected is not refused as well, a
\* settled strategy leaves no timer, and who passes has the scopes of the route
\* or was answered by the strategy (canActivate, settle).
OneAnswer ==
  \A r \in Requests :
    /\ r \in redirected => verdict[r] = "allowed" /\ principal[r] = "none"
    /\ r \in timer => bridge[r] = "open" /\ verdict[r] = "asked"
    /\ principal[r] # "none" => verdict[r] = "allowed"
    /\ verdict[r] = "allowed" /\ Requirement[r].scopes => principal[r] = "scoped" \/ r \in redirected

\* An identity is linked to an account it was linked to before, or to one that it
\* matches and the user confirmed; never when two accounts claim it.
LinksAreConfirmed ==
  linking.decision = "link" =>
    /\ linking.target \in linking.linked \cup linking.matched /\ Cardinality(linking.linked) <= 1
    /\ linking.linked = {} => linking.attempt = "confirmed"

\* Every request ends, but for one whose redirect threw.
AllSettled == \A r \in Requests : bridge[r] = "lost" \/ verdict[r] # "asked"
=============================================================================
