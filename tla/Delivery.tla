------------------------------- MODULE Delivery -------------------------------
(***************************************************************************)
(* EmailService, SlackService and DiscordService: a transport is created   *)
(* by the first who needs it and verified by onModuleInit(), messages are  *)
(* handed to it, and onApplicationShutdown() closes it when the service    *)
(* owns it.  With the webhook transports of Slack and Discord a message is *)
(* posted up to three times.  The framework calls each hook once; as their *)
(* tests do, shutdown may interrupt the start of the first two services.   *)
(* Contents, addresses, templates and receipts are left out.               *)
(***************************************************************************)
EXTENDS Naturals

CONSTANTS Messages,
          Notes,    \* those sent with sendNotification()
          Service,  \* "email", "slack" or "discord"
          Verifies, \* verifyOnModuleInit
          Owns      \* ownsResources

DeliveryAssumption ==
  /\ Notes \subseteq Messages /\ {Verifies, Owns} \subseteq BOOLEAN
  /\ Service \in {"email", "slack", "discord"}

VARIABLES
  state,   \* lifecycleState
  promise, \* transportPromise, and resolvedTransport
  made,    \* how many transports were created
  open,    \* those whose close() was not called
  start,   \* startTransport(), with email bootstrapPromise
  hook,    \* the framework's call of onModuleInit()
  stop,    \* onApplicationShutdown()
  mail,    \* per message: where send() is
  tries    \* per message: how often it was posted

deliveryVars == <<state, promise, made, open, start, hook, stop, mail, tries>>

\* DEFAULT_RETRY_ATTEMPTS of the webhook transports.
MaxTries == IF Service = "email" THEN 1 ELSE 3
DeliveryTypeOK ==
  /\ state \in {"created", "starting", "ready", "stopping", "stopped", "failed"}
  /\ promise \in {"none", "creating", "resolved", "rejected"}
  /\ made \in 0..2 /\ open \subseteq 1..2
  /\ start \in {"no", "creating", "verifying", "closing", "done", "failed"}
  /\ hook \in {"no", "waiting", "ok", "failed"}
  /\ stop \in {"no", "creating", "closing", "done", "failed"}
  /\ mail \in [Messages -> {"no", "rendering", "readying", "checking", "creating", "posting", "waiting", "sent", "refused", "failed"}]
  /\ tries \in [Messages -> 0..MaxTries]

Init ==
  /\ state = "created" /\ promise = "none" /\ made = 0 /\ open = {}
  /\ start = "no" /\ hook = "no" /\ stop = "no"
  /\ mail = [m \in Messages |-> "no"] /\ tries = [m \in Messages |-> 0]

\* assertCanDeliver; Discord's is stricter.
CanDeliver == IF Service = "discord" THEN state = "ready" ELSE state \notin {"stopping", "stopped", "failed"}
\* ensureTransport, which everyone shares.
Asked == IF promise = "none" THEN "creating" ELSE promise

CreateEnds(ok) ==
  /\ promise = "creating" /\ promise' = (IF ok THEN "resolved" ELSE "rejected")
  /\ made' = (IF ok THEN made + 1 ELSE made) /\ open' = (IF ok THEN open \cup {made + 1} ELSE open)
  /\ UNCHANGED <<state, start, hook, stop, mail, tries>>

---------------------------------------------------------------------------
(* onModuleInit *)

Begins == start' = "creating" /\ state' = "starting" /\ promise' = Asked
ModuleInit ==
  /\ hook = "no" /\ stop = "no" /\ hook' = (IF start = "done" THEN "ok" ELSE "waiting")
  /\ IF start = "no" THEN Begins ELSE UNCHANGED <<start, state, promise>>
  /\ UNCHANGED <<made, open, stop, mail, tries>>

\* Who waits for the start is told.
Told(ok) ==
  /\ hook' = (IF hook = "waiting" THEN (IF ok THEN "ok" ELSE "failed") ELSE hook)
  /\ mail' = [m \in Messages |-> IF mail[m] # "readying" THEN mail[m] ELSE IF ok THEN "checking" ELSE "failed"]
Interrupted == Service # "discord" /\ state \in {"stopping", "stopped"}
GoesOn == Service = "discord" \/ state = "starting"
Done == start' = "done" /\ state' = (IF GoesOn THEN "ready" ELSE state) /\ Told(TRUE)

\* Email closes the transport that failed, then it can be started again.
Fails ==
  IF Interrupted THEN start' = "failed" /\ UNCHANGED state /\ Told(FALSE)
  ELSE /\ state' = "failed"
       /\ IF Service = "email" /\ promise = "resolved" /\ Owns
          THEN start' = "closing" /\ open' = open \ {made} /\ UNCHANGED <<hook, mail>>
          ELSE start' = (IF Service = "email" THEN "no" ELSE "failed") /\ Told(FALSE)

HasTransport ==
  /\ start = "creating" /\ promise \in {"resolved", "rejected"}
  /\ CASE promise = "rejected" -> Fails /\ UNCHANGED open
       [] promise = "resolved" /\ Verifies /\ GoesOn -> start' = "verifying" /\ UNCHANGED <<state, open, hook, mail>>
       [] OTHER -> Done /\ UNCHANGED open
  /\ UNCHANGED <<promise, made, stop, tries>>

Verified(ok) ==
  /\ start = "verifying"
  /\ IF ok THEN Done /\ UNCHANGED open
     ELSE Fails /\ (Service # "email" \/ ~Owns \/ Interrupted => UNCHANGED open)
  /\ UNCHANGED <<promise, made, stop, tries>>

\* clearResolvedTransport, whether close() failed or not.
CleanedUp ==
  /\ start = "closing" /\ start' = (IF state = "failed" THEN "no" ELSE "failed")
  /\ promise' = "none" /\ Told(FALSE)
  /\ UNCHANGED <<state, made, open, stop, tries>>

---------------------------------------------------------------------------
(* send, sendNotification *)

\* Email that verifies waits for the start, or starts.
Enter(m) ==
  IF ~CanDeliver
  THEN mail' = [mail EXCEPT ![m] = "refused"] /\ UNCHANGED <<start, state, promise>>
  ELSE IF Service = "email" /\ Verifies /\ state # "ready"
  THEN /\ mail' = [mail EXCEPT ![m] = "readying"]
       /\ IF start = "no" THEN Begins ELSE UNCHANGED <<start, state, promise>>
  ELSE mail' = [mail EXCEPT ![m] = "creating"] /\ promise' = Asked /\ UNCHANGED <<start, state>>

Submit(m) ==
  /\ mail[m] = "no"
  /\ IF m \notin Notes THEN Enter(m)
     ELSE /\ mail' = [mail EXCEPT ![m] = IF Service = "discord" \/ CanDeliver THEN "rendering" ELSE "refused"]
          /\ UNCHANGED <<start, state, promise>>
  /\ UNCHANGED <<made, open, hook, stop, tries>>

Rendered(m, ok) ==
  /\ mail[m] = "rendering"
  /\ IF ok THEN Enter(m) ELSE mail' = [mail EXCEPT ![m] = "failed"] /\ UNCHANGED <<start, state, promise>>
  /\ UNCHANGED <<made, open, hook, stop, tries>>

Started(m) ==
  /\ mail[m] = "checking" /\ mail' = [mail EXCEPT ![m] = IF state = "ready" THEN "creating" ELSE "refused"]
  /\ UNCHANGED <<state, promise, made, open, start, hook, stop, tries>>

\* Email and Slack look at the state again.
Delivers == Service = "discord" \/ (CanDeliver /\ (Service = "email" /\ Verifies => state = "ready"))
Handed(m, valid) ==
  /\ mail[m] = "creating" /\ promise \in {"resolved", "rejected"}
  /\ IF promise = "resolved" /\ valid /\ Delivers
     THEN mail' = [mail EXCEPT ![m] = "posting"] /\ tries' = [tries EXCEPT ![m] = 1]
     ELSE mail' = [mail EXCEPT ![m] = "failed"] /\ UNCHANGED tries
  /\ UNCHANGED <<state, promise, made, open, start, hook, stop>>

\* The answer to a post.
Posted(m, answer) ==
  /\ mail[m] = "posting"
  /\ mail' = [mail EXCEPT ![m] =
       CASE answer = "ok" -> "sent" [] answer = "transient" /\ tries[m] < MaxTries -> "waiting" [] OTHER -> "failed"]
  /\ UNCHANGED <<state, promise, made, open, start, hook, stop, tries>>

PostsAgain(m) ==
  /\ mail[m] = "waiting" /\ mail' = [mail EXCEPT ![m] = "posting"] /\ tries' = [tries EXCEPT ![m] = @ + 1]
  /\ UNCHANGED <<state, promise, made, open, start, hook, stop>>

\* The caller's signal: where it is looked at next, the message is over.
Aborts(m) ==
  /\ mail[m] \in {"rendering", "posting", "waiting"} /\ mail' = [mail EXCEPT ![m] = "failed"]
  /\ UNCHANGED <<state, promise, made, open, start, hook, stop, tries>>

---------------------------------------------------------------------------
(* onApplicationShutdown *)

Closes ==
  IF Owns THEN stop' = "closing" /\ state' = "stopping" /\ open' = open \ {made}
          ELSE stop' = "done" /\ state' = "stopped" /\ UNCHANGED open

Shutdown ==
  /\ stop = "no" /\ (Service = "discord" => hook # "waiting")
  /\ IF promise = "resolved" THEN Closes
     ELSE IF promise = "none" THEN stop' = "done" /\ state' = "stopped" /\ UNCHANGED open
     ELSE stop' = "creating" /\ state' = "stopping" /\ UNCHANGED open
  /\ UNCHANGED <<promise, made, start, hook, mail, tries>>

\* A transport that could not be created fails the shutdown too.
StopGoesOn ==
  /\ stop = "creating" /\ promise \in {"resolved", "rejected"}
  /\ IF promise = "resolved" THEN Closes ELSE stop' = "failed" /\ state' = "failed" /\ UNCHANGED open
  /\ UNCHANGED <<promise, made, start, hook, mail, tries>>

Closed(ok) ==
  /\ stop = "closing"
  /\ stop' = (IF ok THEN "done" ELSE "failed") /\ state' = (IF ok THEN "stopped" ELSE "failed")
  /\ UNCHANGED <<promise, made, open, start, hook, mail, tries>>

Answers == {"ok", "transient", "permanent"}
LifeStep == HasTransport \/ CleanedUp \/ StopGoesOn \/ \E ok \in BOOLEAN : CreateEnds(ok) \/ Verified(ok) \/ Closed(ok)
MailStep(m) ==
  \/ Started(m) \/ PostsAgain(m)
  \/ \E ok \in BOOLEAN : Rendered(m, ok) \/ Handed(m, ok)
  \/ \E answer \in Answers : Posted(m, answer)
Next ==
  \/ ModuleInit \/ Shutdown \/ LifeStep
  \/ \E m \in Messages : Submit(m) \/ MailStep(m) \/ Aborts(m)

\* Providers, templates and timers settle what is asked of them.
Due == LifeStep \/ \E m \in Messages : MailStep(m)
Spec == Init /\ [][Next]_deliveryVars /\ WF_deliveryVars(Due)

---------------------------------------------------------------------------
(* Properties *)

\* A message is handed to a transport that is there: email and Slack never hand
\* one over once shutdown began, email that verifies and Discord none before the
\* start succeeded (ensureReadyForDelivery, assertReadyForSend).
HandedWhileOpen ==
  \A m \in Messages : mail[m] = "creating" /\ mail'[m] = "posting" =>
    /\ Service # "discord" => state \notin {"stopping", "stopped"} /\ (Owns => made \in open)
    /\ Service = "discord" \/ (Service = "email" /\ Verifies) => start = "done"

\* A shutdown that succeeded leaves no transport of its own behind, none that is
\* still being created; and nothing is ready once it began.
StopsClean ==
  /\ stop = "done" => promise # "creating" /\ (Owns => open = {})
  /\ stop # "no" => state # "ready"

\* In the end every message is sent or refused, and the hooks are over.
AllSettled ==
  /\ hook # "waiting" /\ stop \notin {"creating", "closing"}
  /\ \A m \in Messages : mail[m] \in {"no", "sent", "refused", "failed"}
=============================================================================
