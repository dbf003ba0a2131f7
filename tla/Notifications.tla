----------------------------- MODULE Notifications -----------------------------
(***************************************************************************)
(* NotificationsService.dispatch() and dispatchMany(): a batch goes to the *)
(* channels one after the other, to the queue as a whole, or, when the     *)
(* queue has no enqueueMany, one after the other too.  Each step asks a    *)
(* channel, the queue or the publisher of events, and each may fail.       *)
(* A batch of one that does not go on is dispatch() too.  Contents,        *)
(* identifiers and the threshold that chooses the mode are left out.       *)
(***************************************************************************)
EXTENDS Naturals, SequencesExt

CONSTANTS Batch,           \* a sequence of channels
          Channels,        \* those that are registered
          Mode,            \* "direct", "single" queue:true, "bulk" or "fallback"
          HasQueue,
          ContinueOnError

NotificationsAssumption ==
  /\ Mode \in {"direct", "single", "bulk", "fallback"} /\ {HasQueue, ContinueOnError} \subseteq BOOLEAN
  /\ Batch \in Seq(STRING) /\ Len(Batch) > 0 /\ (Mode = "single" => Len(Batch) = 1 /\ ~ContinueOnError)

VARIABLES
  at,       \* the notification under way
  stage,    \* what is asked for it
  events,   \* per notification: names of the events that were published, or tried
  accepted, \* notifications a channel or the queue took
  results, failures, \* notifications
  lost      \* publications of failures that failed

notificationVars == <<at, stage, events, accepted, results, failures, lost>>

Items == 1..Len(Batch)
NotificationsTypeOK ==
  /\ at \in Items \cup {Len(Batch) + 1}
  /\ stage \in {"requesting", "sending", "reporting", "failing", "over", "thrown"}
  /\ events \in [Items -> Seq({"requested", "queued", "delivered", "failed"})]
  /\ {results, failures} \subseteq Seq(Items) /\ accepted \subseteq Items /\ lost \subseteq Items

Init ==
  /\ at = 1 /\ stage = "requesting" /\ events = [i \in Items |-> <<>>]
  /\ accepted = {} /\ results = <<>> /\ failures = <<>> /\ lost = {}

Queued == Mode # "direct"
\* dispatch() does the whole for one notification, the others have phases.
Alone == Mode \in {"direct", "single"}
\* requireChannel and requireQueueAdapter, which throw.
Refused(i) == Batch[i] \notin Channels \/ (Queued /\ ~HasQueue)
Publish(is, name) == events' = [i \in Items |-> IF i \in is THEN Append(events[i], name) ELSE events[i]]

---------------------------------------------------------------------------
(* One step each *)

\* publishLifecycleEventSafely of "requested"; whether it fails makes no difference.
Request ==
  /\ stage = "requesting" /\ Publish({at}, "requested")
  /\ IF Alone THEN stage' = "sending" /\ UNCHANGED at
     ELSE IF at < Len(Batch) THEN at' = at + 1 /\ UNCHANGED stage
     ELSE at' = 1 /\ stage' = "sending"
  /\ UNCHANGED <<accepted, results, failures, lost>>

\* The notifications that share the answer.
Asked == IF Mode = "bulk" THEN Items ELSE {at}
\* A batch is refused for any of its notifications.
AllRefused == IF Alone THEN Refused(at) ELSE \E i \in Items : Refused(i)

\* channel.send, enqueue or enqueueMany.
Send(ok) ==
  /\ stage = "sending" /\ (ok => ~AllRefused)
  /\ IF ok THEN stage' = "reporting" /\ accepted' = accepted \cup Asked
           ELSE stage' = "failing" /\ UNCHANGED accepted
  /\ UNCHANGED <<at, events, results, failures, lost>>

\* The next of the batch, or its end.
Onward ==
  /\ at' = at + 1
  /\ stage' = (IF at = Len(Batch) THEN "over" ELSE IF Alone THEN "requesting" ELSE "sending")

\* What was accepted is reported, and again a failure to publish is ignored.
Reported == IF Queued THEN "queued" ELSE "delivered"
Report ==
  /\ stage = "reporting" /\ Publish(Asked, Reported)
  /\ IF Mode = "bulk" THEN results' = [i \in Items |-> i] /\ at' = Len(Batch) + 1 /\ stage' = "over"
                      ELSE results' = Append(results, at) /\ Onward
  /\ UNCHANGED <<accepted, failures, lost>>

\* Those that are told of a failure: a batch that gives up tells what remains.
Told ==
  IF Alone \/ (ContinueOnError /\ Mode = "fallback" /\ ~AllRefused) THEN {at}
  ELSE IF Mode = "fallback" /\ ~AllRefused THEN {i \in Items : i >= at} ELSE Items
\* A failure that cannot be published makes the error an AggregateError.
Fail(unpublished) ==
  /\ stage = "failing" /\ unpublished \subseteq Told
  /\ Publish(Told, "failed") /\ lost' = lost \cup unpublished
  /\ IF ContinueOnError /\ Mode # "bulk" /\ (Alone \/ ~AllRefused)
     THEN failures' = Append(failures, at) /\ Onward
     ELSE stage' = "thrown" /\ UNCHANGED <<failures, at>>
  /\ UNCHANGED <<accepted, results>>

Step == Request \/ Report \/ (\E ok \in BOOLEAN : Send(ok)) \/ \E unpublished \in SUBSET Items : Fail(unpublished)
Next == Step
\* Channels, queues and publishers settle.
Due == Step
Spec == Init /\ [][Next]_notificationVars /\ WF_notificationVars(Due)

---------------------------------------------------------------------------
(* Properties *)

Terminal(i) == {k \in DOMAIN events[i] : events[i][k] # "requested"}

\* Whatever fails, every notification that was requested ends with one terminal
\* event, the one that says what became of it; and a batch that ends accounts for
\* every notification, in order.
OneTerminalEach ==
  /\ \A i \in Items :
       /\ \A j, k \in Terminal(i) : j = k
       /\ events[i] # <<>> => Head(events[i]) = "requested"
       /\ stage \in {"over", "thrown"} /\ events[i] # <<>> =>
            \E k \in Terminal(i) : events[i][k] = IF i \in accepted THEN Reported ELSE "failed"
       /\ i \in ToSet(results) => i \in accepted
  /\ stage = "over" => ToSet(results) \cup ToSet(failures) = Items /\ Len(results) + Len(failures) = Len(Batch)
  /\ \A s \in {results, failures} : \A i, j \in DOMAIN s : i < j => s[i] < s[j]

AllSettled == stage \in {"over", "thrown"}
=============================================================================
