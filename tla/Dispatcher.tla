------------------------------ MODULE Dispatcher ------------------------------
(***************************************************************************)
(* packages/http/src/dispatch/dispatcher.ts between the adapter's          *)
(* dispatchWithRequestResponseFactory and the code of an application: the  *)
(* way of a request down through middleware, guards and interceptors to    *)
(* its handler and up again, its response, its observers, its container.   *)
(*                                                                         *)
(* A request descends `Stages' and comes back through those that called    *)
(* the next one.  A step is what happens between two awaits; the code of   *)
(* an application may throw, answer by itself, swallow a failure or call   *)
(* next() again, and the client may leave between any two steps.           *)
(***************************************************************************)
EXTENDS Naturals, Sequences, SequencesExt, TLC

CONSTANTS
  Requests,
  Has,   \* what the route and the dispatcher have: "observers", "app" and "module"
         \* (middleware), "guard", "interceptor", "scoped" (the controller reaches a
         \* request-scoped provider), "sse" (it returns an async iterable), "onError"
  Host   \* "node", or "web" where a Response is returned

DispatcherAssumption ==
  /\ Has \subseteq {"observers", "app", "module", "guard", "interceptor", "scoped", "sse", "onError"}
  /\ Host \in {"node", "web"}

VARIABLES
  req,        \* one record per request
  controller  \* the fast path's cached promise of the controller

httpVars == <<req, controller>>

Wrappers == {"app", "module", "interceptor"}
\* The stages of a request; "invoke" is the check between guards and handler.
Stages == SelectSeq(<<"app", "match", "module", "guard", "invoke", "interceptor", "handler">>,
                    LAMBDA s : s \in Has \cup {"match", "invoke", "handler"})
Index(s) == SelectInSeq(Stages, LAMBDA t : t = s)

\* compileFastPathEligibility(): none of these.
FastPath == Has = {}
\* dispatchStartMayRequireRequestScope() and handlerMayRequireRequestScope().
StartsScoped == Has \cap {"observers", "app"} # {}
NeedsScope == Has \cap {"module", "guard", "interceptor", "scoped"} # {}

Fresh == [at |-> "idle", depth |-> 1, thrown |-> "no",
          committed |-> FALSE, answers |-> 0, delivered |-> FALSE, gone |-> FALSE,
          scope |-> "root", promotes |-> "none", notes |-> <<>>,
          calls |-> 0, again |-> FALSE, source |-> "none"]
Init == req = [r \in Requests |-> Fresh] /\ controller = "none"

\* Request r changes as `change' says.
Becomes(r, change) == req' = [req EXCEPT ![r] = change @@ @]
Stage(r) == Stages[req[r].depth]
Descending(r, stages) == req[r].at = "down" /\ Stage(r) \in stages
\* The code of the application that runs for r, if any.
InUserCode(r) == \/ Descending(r, Wrappers \cup {"guard", "handler"})
                 \/ req[r].at \in {"after", "method", "handling"}

\* response.send(): commits; a client that left gets nothing.
Sends(q) == [committed |-> TRUE, answers |-> IF q.gone THEN q.answers ELSE q.answers + 1]
\* What writes only into a response that is not committed.
SendsUncommitted(q) == IF q.committed THEN <<>> ELSE Sends(q)

\* Observers see an event, if there are any.
Notes(q, event) == IF "observers" \in Has THEN [notes |-> Append(q.notes, event)] ELSE <<>>

\* What the stage at depth d leaves to the code that called it: an interceptor
\* and the handler a result to write, a failure or a return the next wrapper.
Up(d, thrown) ==
  LET outer == {e \in 1..(d - 1) : Stages[e] \in Wrappers}
      caller == CHOOSE e \in outer : \A f \in outer : f <= e
      writes == /\ thrown = "no" /\ Stages[d] \in {"interceptor", "handler"}
                /\ outer = {} \/ Stages[caller] # "interceptor"
  IN CASE writes -> [at |-> "write"]
       [] ~writes /\ outer # {} -> [at |-> "after", depth |-> caller, thrown |-> thrown]
       [] OTHER -> [at |-> IF thrown = "no" THEN "finish" ELSE "caught", thrown |-> thrown]

---------------------------------------------------------------------------
(* The adapter, the client and the start of a dispatch *)

Arrives(r) == req[r].at = "idle" /\ Becomes(r, [at |-> "reading"]) /\ UNCHANGED controller

\* The request is parsed, or is not.
Reads(r) ==
  /\ req[r].at = "reading"
  /\ \/ Becomes(r, [at |-> "settled", thrown |-> "escaped"])
     \/ Becomes(r, Notes(req[r], "start") @@
          [at |-> "start", promotes |-> "yes", scope |-> IF StartsScoped THEN "open" ELSE "root"])
  /\ UNCHANGED controller

\* onRequestStart has returned: runDispatchPipeline().
Starts(r) ==
  /\ req[r].at = "start"
  /\ Becomes(r, IF req[r].gone THEN [at |-> "caught", thrown |-> "aborted"] ELSE [at |-> "down"])
  /\ UNCHANGED controller

\* The client closes its connection before it has the whole response.
Leaves(r) ==
  /\ req[r].at \notin {"idle", "over"} /\ ~req[r].gone
  /\ req[r].answers = 0 \/ req[r].at \in {"pulling", "draining"}
  /\ Becomes(r, [gone |-> TRUE]) /\ UNCHANGED controller

\* dispatch() settled: what is not answered is.
AnsweredErrorsOnly(q) == IF q.thrown = "escaped" THEN SendsUncommitted(q) ELSE <<>>
Answered(q) == IF q.thrown = "escaped" /\ q.gone THEN <<>> ELSE SendsUncommitted(q)
Finalizes(r) ==
  /\ req[r].at = "settled"
  /\ LET after == Answered(req[r]) @@ req[r]
     IN Becomes(r, [at |-> "over", delivered |-> ~after.gone] @@ after)
  /\ UNCHANGED controller

---------------------------------------------------------------------------
(* Down *)

\* Middleware calls next(), an interceptor handle(), a guard lets pass.
GoesOn(r) ==
  /\ Descending(r, Wrappers \cup {"guard"})
  /\ Becomes(r, [depth |-> req[r].depth + 1]) /\ UNCHANGED controller

\* Code of the application throws, a provider of it cannot be resolved, a guard refuses.
Throws(r) ==
  /\ Descending(r, Wrappers \cup {"guard", "handler"})
  /\ Becomes(r, Up(req[r].depth, "error")) /\ UNCHANGED controller

\* A wrapper returns without calling the next, or the handler returns.
Returns(r) ==
  /\ Descending(r, Wrappers \cup {"handler"})
  /\ Becomes(r, Up(req[r].depth, "no") @@
       [calls |-> IF Stage(r) = "handler" THEN req[r].calls + 1 ELSE req[r].calls])
  /\ UNCHANGED controller

\* Code of the application writes the response, if nothing has.
Responds(r) ==
  /\ InUserCode(r) /\ ~req[r].committed /\ "sse" \notin Has
  /\ Becomes(r, Sends(req[r])) /\ UNCHANGED controller

\* context.container.resolve(), perhaps from code that outlives the dispatch.
PromotesAlways(q) == q.promotes # "none"
Promotes(q) == q.promotes = "yes"
Resolves(r) ==
  /\ InUserCode(r) \/ req[r].at \in {"settled", "over"}
  /\ req[r].scope = "root" /\ req[r].notes = <<>> /\ Promotes(req[r])
  /\ Becomes(r, [scope |-> "open"]) /\ UNCHANGED controller

\* dispatchMatchedRoute(): the fast path, or the plan of the full one.
Matches(r) ==
  /\ Descending(r, {"match"})
  /\ LET q == req[r] IN
     \/ q.committed /\ Becomes(r, Up(q.depth, "no")) /\ UNCHANGED controller
     \/ ~q.committed /\ Becomes(r, Up(q.depth, "error")) /\ UNCHANGED controller
     \/ /\ ~q.committed /\ FastPath /\ ~q.gone
        /\ Becomes(r, [at |-> "controller"])
        /\ controller' = IF controller = "none" THEN "pending" ELSE controller
     \/ /\ ~q.committed /\ ~(FastPath /\ ~q.gone)
        /\ Becomes(r, Notes(q, "matched") @@
             [at |-> "matched", scope |-> IF NeedsScope THEN "open" ELSE q.scope])
        /\ UNCHANGED controller
\* onHandlerMatched has returned.
Matched(r) ==
  /\ req[r].at = "matched"
  /\ Becomes(r, [at |-> "down", depth |-> req[r].depth + 1]) /\ UNCHANGED controller

\* Guards have passed: no handler is called for a response that is committed.
Invokes(r) ==
  /\ Descending(r, {"invoke"})
  /\ Becomes(r, IF req[r].committed THEN Up(req[r].depth, "no") ELSE [depth |-> req[r].depth + 1])
  /\ UNCHANGED controller

---------------------------------------------------------------------------
(* The fast path *)

\* The container has created the controller, or has failed to: whoever comes
\* later finds the same promise.
Created ==
  /\ controller = "pending" /\ controller' \in {"ready", "failed"} /\ UNCHANGED req
HasController(r) ==
  /\ req[r].at = "controller" /\ controller \in {"ready", "failed"}
  /\ Becomes(r, IF controller = "ready" THEN [at |-> "method"] ELSE Up(req[r].depth, "error"))
  /\ UNCHANGED controller

\* executeFastPath(): the method returns or throws, its result may not be
\* writable.  A rejection without a reason is no error: the full path calls it again.
Method(r) ==
  /\ req[r].at = "method"
  /\ LET q == [calls |-> req[r].calls + 1] @@ req[r] IN
     \/ q.gone /\ Becomes(r, Up(q.depth, "aborted") @@ q)
     \/ ~q.gone /\ Becomes(r, SendsUncommitted(q) @@ Up(q.depth, "no") @@ q)
     \/ Becomes(r, Up(q.depth, "error") @@ q)
     \/ Becomes(r, [at |-> "down", depth |-> q.depth + 1, again |-> TRUE,
                    scope |-> IF NeedsScope THEN "open" ELSE q.scope] @@ q)
  /\ UNCHANGED controller

---------------------------------------------------------------------------
(* The response and the way up *)

\* The result is written, unless the client left, it is not writable or the
\* response is committed; an async iterable commits it and goes on.
Writes(r) ==
  /\ req[r].at = "write"
  /\ LET q == req[r]
         up(thrown) == Becomes(r, Up(Index("invoke"), thrown))
     IN \/ q.gone /\ up("aborted")
        \/ /\ ~q.gone /\ "sse" \in Has
           /\ Becomes(r, Sends(q) @@
                [at |-> "pulling", source |-> "open", delivered |-> Host = "node"])
        \/ /\ ~q.gone /\ "sse" \notin Has
           /\ Becomes(r, SendsUncommitted(q) @@ Notes(q, "success") @@ [at |-> "success"])
        \/ ~q.gone /\ ~q.committed /\ "sse" \notin Has /\ up("error")
  /\ UNCHANGED controller

\* onRequestSuccess has returned.
Succeeded(r) ==
  /\ req[r].at = "success" /\ Becomes(r, Up(Index("invoke"), "no")) /\ UNCHANGED controller

\* A wrapper whose next one settled returns or throws, swallows the failure, or
\* calls it once more.
WrapperEnds(r) ==
  /\ req[r].at = "after"
  /\ LET q == req[r] IN
     \/ \E thrown \in {q.thrown, "no"} \cup (IF q.thrown = "no" THEN {"error"} ELSE {}) :
          Becomes(r, Up(q.depth, thrown))
     \/ /\ q.thrown = "error" /\ ~q.again
        /\ Becomes(r, [at |-> "down", depth |-> q.depth + 1, thrown |-> "no", again |-> TRUE])
  /\ UNCHANGED controller

---------------------------------------------------------------------------
(* Managed server-sent events *)

\* The stream is closed and onRequestSuccess called.
StreamEnds(q, source) == Notes(q, "success") @@ [at |-> "success", source |-> source]
Yields(r) ==
  /\ req[r].at = "pulling" /\ ~req[r].gone
  /\ Host = "node" /\ Becomes(r, [at |-> "draining"]) /\ UNCHANGED controller
SourceEnds(r) ==
  /\ req[r].at = "pulling" /\ ~req[r].gone
  /\ \/ Becomes(r, StreamEnds(req[r], "ended"))
     \/ Becomes(r, Up(Index("invoke"), "error") @@ [source |-> "ended"])
  /\ UNCHANGED controller
\* readManagedSseNext(): abort or close wins the race against the source.
StopsPulling(r) ==
  /\ req[r].at = "pulling" /\ req[r].gone
  /\ Becomes(r, StreamEnds(req[r], "returned")) /\ UNCHANGED controller
\* waitForDrain() settles on drain or close; a loop that ends here leaves its
\* source as it is.
Drained(r) ==
  /\ req[r].at = "draining"
  /\ Becomes(r, IF req[r].gone THEN StreamEnds(req[r], "open") ELSE [at |-> "pulling"])
  /\ UNCHANGED controller

---------------------------------------------------------------------------
(* Failure and end *)

\* handleDispatchError()
Caught(r) ==
  /\ req[r].at = "caught"
  /\ Becomes(r, IF req[r].thrown = "aborted" \/ req[r].gone THEN [at |-> "finish"]
                ELSE Notes(req[r], "error") @@ [at |-> "handling"])
  /\ UNCHANGED controller
\* onError handles the error, declines or throws; writeErrorResponse().
ErrorHandled(r) ==
  /\ req[r].at = "handling"
  /\ \/ "onError" \in Has /\ Becomes(r, [at |-> "finish"])
     \/ "onError" \in Has /\ Becomes(r, [at |-> "finish", thrown |-> "escaped"])
     \/ Becomes(r, SendsUncommitted(req[r]) @@ [at |-> "finish"])
  /\ UNCHANGED controller

\* onRequestFinish has returned: the container closes.
Finishes(r) ==
  /\ req[r].at = "finish"
  /\ Becomes(r, Notes(req[r], "finish") @@
       [at |-> IF req[r].scope = "open" THEN "disposing" ELSE "settled", promotes |-> "no"])
  /\ UNCHANGED controller
Disposes(r) ==
  /\ req[r].at = "disposing"
  /\ Becomes(r, [at |-> "settled", scope |-> "closed"]) /\ UNCHANGED controller

Due ==
  \/ Created
  \/ \E r \in Requests :
       \/ Reads(r) \/ Starts(r) \/ Matched(r) \/ Matches(r) \/ Invokes(r)
       \/ GoesOn(r) \/ Throws(r) \/ Returns(r) \/ HasController(r) \/ Method(r)
       \/ Writes(r) \/ Succeeded(r) \/ WrapperEnds(r) \/ StopsPulling(r)
       \/ (req[r].gone /\ Drained(r))
       \/ Caught(r) \/ ErrorHandled(r) \/ Finishes(r) \/ Disposes(r) \/ Finalizes(r)
Next ==
  \/ Due
  \/ \E r \in Requests :
       \/ Arrives(r) \/ Leaves(r) \/ Responds(r) \/ Resolves(r)
       \/ Yields(r) \/ SourceEnds(r) \/ Drained(r)
Spec == Init /\ [][Next]_httpVars /\ WF_httpVars(Due)

---------------------------------------------------------------------------
(* Properties *)

\* Types.
DispatcherTypeOK ==
  /\ controller \in {"none", "pending", "ready", "failed"}
  /\ \A r \in Requests :
       /\ req[r].depth \in 1..Len(Stages)
       /\ req[r].thrown \in {"no", "error", "aborted", "escaped"}
       /\ req[r].scope \in {"root", "open", "closed"}
       /\ req[r].source \in {"none", "open", "ended", "returned"}

Count(r, event) == Len(SelectSeq(req[r].notes, LAMBDA e : e = event))

\* Whatever throws, swallows, answers by itself or is called again, a client
\* that waits gets one response (writeSuccessResponse, writeErrorResponse and
\* the adapter's last send() all look at `committed').
OneAnswerEach ==
  \A r \in Requests :
    /\ req[r].answers <= 1
    /\ req[r].at = "over" /\ ~req[r].gone => req[r].answers = 1

\* A dispatch that is over closed its container after the last observer was
\* told, once, and no container is opened for it afterwards (dispatch()'s
\* finally); observers hear of one failure at most, and of none or of a success
\* where a handler was not called again.
WindsUp ==
  \A r \in Requests :
    /\ req[r].at \in {"settled", "over"} => req[r].scope # "open"
    /\ req[r].scope = "closed" /\ "observers" \in Has => Count(r, "finish") = 1
    /\ req[r].notes # <<>> =>
         /\ Head(req[r].notes) = "start"
         /\ Count(r, "finish") = 1 => Last(req[r].notes) = "finish"
         /\ Count(r, "start") = 1 /\ Count(r, "error") <= 1
         /\ ~req[r].again => Count(r, "success") <= 1
    /\ ~req[r].again => req[r].calls <= 1

\* A managed stream that the client can read is with the client while its
\* source goes on (writeManagedSseIterable, dispatchWebRequest).
StreamsReachClient ==
  \A r \in Requests : req[r].at \in {"pulling", "draining"} /\ ~req[r].gone => req[r].delivered

\* Every request is over, or has not come, or is a stream whose client stays.
AllSettled ==
  \A r \in Requests :
    \/ req[r].at \in {"idle", "over"}
    \/ req[r].at \in {"pulling", "draining"} /\ ~req[r].gone
===============================================================================
