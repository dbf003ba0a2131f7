----------------------------- MODULE GrpcTransport -----------------------------
(***************************************************************************)
(* The gRPC transport of packages/microservices.  A unary call registers a *)
(* pending request, is dispatched one microtask later and settles with its *)
(* status, the timer, an abort or close(); a server stream starts with the *)
(* first next() of its reader; a client stream ends its writer when it is  *)
(* aborted; a stream of both kinds does each.  The server answers calls of *)
(* the same process.  As the service above it does, nobody calls listen()  *)
(* while close() is under way.  Protobuf, metadata, error codes and        *)
(* payloads are left out.                                                  *)
(***************************************************************************)
EXTENDS Naturals, Sequences

CONSTANTS Calls,
          Kind,       \* of each call
          MaxItems,   \* bound: items of a stream
          MaxListens, MaxCloses

GrpcAssumption ==
  /\ Kind \in [Calls -> {"unary", "reads", "writes", "both"}]
  /\ {MaxItems, MaxListens, MaxCloses} \subseteq Nat

VARIABLES
  listening, closing, handler,
  attempt,   \* listenPromise
  listens,   \* how often listen() was called
  stop,      \* where close() is
  closes,    \* how often it was called
  call,      \* per call: what the transport has done with it
  result,    \* per call: the promise of a unary call or a client stream
  signal,    \* calls whose signal is aborted
  cancelled, \* calls that were cancelled
  remote,    \* per call: the handler on the server
  sent,      \* per call: items the server has sent, which are numbered
  reader,    \* per call: who iterates over them
  buffer,    \* per call: items that wait for next()
  read,      \* per call: items next() gave
  finished,  \* readers with done
  broken     \* readers with error

lifeVars == <<listening, closing, handler, attempt, listens, stop, closes>>
readVars == <<sent, reader, buffer, read, finished, broken>>
callVars == <<call, result, signal, cancelled, remote>>
grpcVars == <<lifeVars, callVars, readVars>>

GrpcTypeOK ==
  /\ {listening, closing, handler} \subseteq BOOLEAN
  /\ attempt \in {"none", "binding", "undoing"} /\ listens \in 0..MaxListens
  /\ stop \in {"no", "waiting", "draining", "ended", "failed"} /\ closes \in 0..MaxCloses
  /\ call \in [Calls -> {"no", "refused", "deferred", "dropped", "taken", "stale", "open", "ended", "failed"}]
  /\ result \in [Calls -> {"none", "pending", "ok", "error"}]
  /\ {signal, cancelled, finished, broken} \subseteq SUBSET Calls
  /\ remote \in [Calls -> {"no", "running", "ok", "failed"}]
  /\ sent \in [Calls -> 0..MaxItems] /\ {buffer, read} \subseteq [Calls -> Seq(1..MaxItems)]
  /\ reader \in [Calls -> {"no", "idle", "waiting", "ended", "failed", "left"}]

Init ==
  /\ listening = FALSE /\ closing = FALSE /\ handler = FALSE
  /\ attempt = "none" /\ listens = 0 /\ stop = "no" /\ closes = 0
  /\ call = [c \in Calls |-> "no"] /\ result = [c \in Calls |-> "none"]
  /\ signal = {} /\ cancelled = {} /\ finished = {} /\ broken = {}
  /\ remote = [c \in Calls |-> "no"] /\ sent = [c \in Calls |-> 0]
  /\ reader = [c \in Calls |-> "no"]
  /\ buffer = [c \in Calls |-> <<>>] /\ read = [c \in Calls |-> <<>>]

Quiet == \A c \in Calls : call[c] # "deferred"
Reads(c) == Kind[c] \in {"reads", "both"}
Settle(c, outcome) == [result EXCEPT ![c] = IF @ = "pending" THEN outcome ELSE @]

---------------------------------------------------------------------------
(* listen, close *)

Listen ==
  /\ ~listening /\ attempt = "none" /\ stop # "draining" /\ listens < MaxListens
  /\ listens' = listens + 1 /\ attempt' = "binding" /\ closing' = FALSE /\ handler' = TRUE
  /\ UNCHANGED <<listening, stop, closes, callVars, readVars>>

\* The services are added and the port is bound, or the server is shut down.
Binds(ok) ==
  /\ attempt = "binding" /\ Quiet
  /\ IF ok THEN /\ attempt' = "none" /\ listening' = TRUE
                /\ stop' = (IF stop = "waiting" THEN "draining" ELSE stop)
           ELSE attempt' = "undoing" /\ UNCHANGED <<listening, stop>>
  /\ UNCHANGED <<closing, handler, listens, closes, callVars, readVars>>

\* listenPromise is rejected, and a close() that waits for it.
Undone ==
  /\ attempt = "undoing" /\ Quiet /\ attempt' = "none"
  /\ stop' = (IF stop = "waiting" THEN "failed" ELSE stop)
  /\ UNCHANGED <<listening, closing, handler, listens, closes, callVars, readVars>>

RejectPending == [c \in Calls |-> IF Kind[c] = "unary" /\ result[c] = "pending" THEN "error" ELSE result[c]]
Closed(ok) ==
  /\ handler' = FALSE /\ listening' = FALSE /\ result' = RejectPending
  /\ stop' = (IF ok THEN "ended" ELSE "failed")

Close ==
  /\ stop \notin {"waiting", "draining"} /\ closes < MaxCloses
  /\ closes' = closes + 1 /\ closing' = TRUE
  /\ IF attempt # "none" THEN stop' = "waiting" /\ UNCHANGED <<listening, handler, result>>
     ELSE IF listening THEN stop' = "draining" /\ UNCHANGED <<listening, handler, result>>
     ELSE Closed(TRUE)
  /\ UNCHANGED <<attempt, listens, call, signal, cancelled, remote, readVars>>

\* tryShutdown calls back once the calls of the server are over; only then are the
\* clients closed.
Drains(ok) ==
  /\ stop = "draining" /\ Quiet /\ \A c \in Calls : remote[c] # "running"
  /\ Closed(ok)
  /\ call' = [c \in Calls |-> IF ok /\ call[c] = "taken" THEN "stale" ELSE call[c]]
  /\ UNCHANGED <<closing, attempt, listens, closes, signal, cancelled, remote, readVars>>

---------------------------------------------------------------------------
(* Calls *)

\* A unary call waits for its microtask, a server stream for its first next();
\* the others begin at once.
Begins(c) ==
  CASE Kind[c] = "unary" -> "deferred" [] Kind[c] = "reads" -> "taken" [] OTHER -> "open"
Call(c) ==
  /\ call[c] = "no"
  /\ IF closing \/ ~listening
     THEN call' = [call EXCEPT ![c] = "refused"] /\ UNCHANGED <<result, reader>>
     ELSE /\ call' = [call EXCEPT ![c] = Begins(c)]
          /\ result' = [result EXCEPT ![c] = IF Kind[c] \in {"unary", "writes"} THEN "pending" ELSE @]
          /\ reader' = [reader EXCEPT ![c] = IF Reads(c) THEN "idle" ELSE @]
  /\ UNCHANGED <<lifeVars, signal, cancelled, remote, sent, buffer, read, finished, broken>>

\* The microtask of callUnary; a request that is over already is sent all the same.
Dispatch(c, ok) ==
  /\ call[c] = "deferred" /\ (closing => ok)
  /\ IF closing \/ ~ok THEN call' = [call EXCEPT ![c] = "dropped"] /\ result' = Settle(c, "error")
                       ELSE call' = [call EXCEPT ![c] = "open"] /\ UNCHANGED result
  /\ UNCHANGED <<lifeVars, signal, cancelled, remote, readVars>>

\* The listener is there until the call is over; a server stream that has not
\* started has none, and a client stream is ended, not cancelled.
Listened(c) ==
  IF Reads(c) THEN call[c] = "open" /\ c \notin finished ELSE result[c] = "pending"
Aborts(c) ==
  /\ c \notin signal /\ (Listened(c) \/ call[c] = "taken")
  /\ signal' = signal \cup {c}
  /\ result' = Settle(c, "error")
  /\ IF Kind[c] # "writes" /\ call[c] = "open" THEN cancelled' = cancelled \cup {c} ELSE UNCHANGED cancelled
  /\ IF Reads(c) /\ call[c] = "open"
     THEN /\ finished' = finished \cup {c} /\ broken' = broken \cup {c}
          /\ reader' = [reader EXCEPT ![c] = IF @ = "waiting" THEN "failed" ELSE @]
     ELSE UNCHANGED <<finished, broken, reader>>
  /\ UNCHANGED <<lifeVars, call, remote, sent, buffer, read>>

TimesOut(c) ==
  /\ Kind[c] = "unary" /\ result[c] = "pending" /\ Quiet
  /\ result' = Settle(c, "error") /\ cancelled' = cancelled \cup {c}
  /\ UNCHANGED <<lifeVars, call, signal, remote, readVars>>

---------------------------------------------------------------------------
(* The server *)

\* A server that shuts down takes no call.
Arrives(c) ==
  /\ call[c] = "open" /\ remote[c] = "no" /\ c \notin cancelled /\ Quiet
  /\ listening /\ stop # "draining"
  /\ remote' = [remote EXCEPT ![c] = IF handler THEN "running" ELSE "failed"]
  /\ UNCHANGED <<lifeVars, call, result, signal, cancelled, readVars>>

HandlerEnds(c, ok) ==
  /\ remote[c] = "running" /\ Quiet /\ remote' = [remote EXCEPT ![c] = IF ok THEN "ok" ELSE "failed"]
  /\ UNCHANGED <<lifeVars, call, result, signal, cancelled, readVars>>

\* The stream's data event.
Data(c) ==
  /\ Reads(c) /\ call[c] = "open" /\ remote[c] = "running" /\ sent[c] < MaxItems /\ Quiet
  /\ sent' = [sent EXCEPT ![c] = @ + 1]
  /\ IF reader[c] = "waiting"
     THEN /\ read' = [read EXCEPT ![c] = Append(@, sent'[c])]
          /\ reader' = [reader EXCEPT ![c] = "idle"] /\ UNCHANGED buffer
     ELSE buffer' = [buffer EXCEPT ![c] = Append(@, sent'[c])] /\ UNCHANGED <<read, reader>>
  /\ UNCHANGED <<lifeVars, callVars, finished, broken>>

\* The status of a call: the callback, or the stream's end or error event.  A
\* handler whose call failed is over as well.
Status(c, ok) ==
  /\ call[c] = "open" /\ Quiet /\ (ok => remote[c] = "ok" /\ c \notin cancelled)
  /\ call' = [call EXCEPT ![c] = IF ok THEN "ended" ELSE "failed"]
  /\ remote' = [remote EXCEPT ![c] = IF @ = "running" THEN "failed" ELSE @]
  /\ result' = Settle(c, IF ok THEN "ok" ELSE "error")
  /\ IF Reads(c) THEN /\ finished' = finished \cup {c}
                      /\ broken' = IF ok THEN broken ELSE broken \cup {c}
                      /\ reader' = [reader EXCEPT ![c] = IF @ # "waiting" THEN @ ELSE IF ok THEN "ended" ELSE "failed"]
                 ELSE UNCHANGED <<finished, broken, reader>>
  /\ UNCHANGED <<lifeVars, signal, cancelled, sent, buffer, read>>

---------------------------------------------------------------------------
(* Readers *)

\* startStream, and the next() that called it; a client that was closed refuses.
Starts(c) ==
  /\ call[c] \in {"taken", "stale"} /\ reader[c] = "idle"
  /\ IF call[c] = "stale"
     THEN call' = [call EXCEPT ![c] = "dropped"] /\ reader' = [reader EXCEPT ![c] = "failed"]
          /\ UNCHANGED <<cancelled, finished, broken>>
     ELSE /\ call' = [call EXCEPT ![c] = "open"]
          /\ IF c \in signal
             THEN /\ finished' = finished \cup {c} /\ broken' = broken \cup {c}
                  /\ cancelled' = cancelled \cup {c} /\ reader' = [reader EXCEPT ![c] = "failed"]
             ELSE reader' = [reader EXCEPT ![c] = "waiting"] /\ UNCHANGED <<cancelled, finished, broken>>
  /\ UNCHANGED <<lifeVars, result, signal, remote, sent, buffer, read>>

\* What was buffered comes before the error and the end.
NextItem(c) ==
  /\ Reads(c) /\ reader[c] = "idle" /\ call[c] \notin {"taken", "stale"}
  /\ IF buffer[c] # <<>>
     THEN /\ read' = [read EXCEPT ![c] = Append(@, Head(buffer[c]))]
          /\ buffer' = [buffer EXCEPT ![c] = Tail(@)] /\ UNCHANGED reader
     ELSE /\ reader' = [reader EXCEPT ![c] =
               IF c \in broken THEN "failed" ELSE IF c \in finished THEN "ended" ELSE "waiting"]
          /\ UNCHANGED <<read, buffer>>
  /\ UNCHANGED <<lifeVars, callVars, sent, finished, broken>>

\* return(): the consumer has enough.
Leaves(c) ==
  /\ Reads(c) /\ reader[c] = "idle" /\ reader' = [reader EXCEPT ![c] = "left"]
  /\ finished' = finished \cup {c}
  /\ cancelled' = IF call[c] = "open" THEN cancelled \cup {c} ELSE cancelled
  /\ call' = [call EXCEPT ![c] = IF @ \in {"taken", "stale"} THEN "dropped" ELSE @]
  /\ UNCHANGED <<lifeVars, result, signal, remote, sent, buffer, read, broken>>

Next ==
  \/ Listen \/ Undone \/ Close \/ \E ok \in BOOLEAN : Binds(ok) \/ Drains(ok)
  \/ \E c \in Calls :
       \/ Call(c) \/ Aborts(c) \/ TimesOut(c) \/ Arrives(c) \/ Data(c)
       \/ Starts(c) \/ NextItem(c) \/ Leaves(c)
       \/ \E ok \in BOOLEAN : Dispatch(c, ok) \/ HandlerEnds(c, ok) \/ Status(c, ok)

\* Microtasks run, timers fire and the library answers; nothing says that a
\* handler ends or that a stream's status comes, but that of a cancelled call does.
Due ==
  \/ Undone \/ \E ok \in BOOLEAN : Binds(ok)
  \/ \E c \in Calls, ok \in BOOLEAN : Dispatch(c, ok) \/ TimesOut(c) \/ (c \in cancelled /\ Status(c, ok))
Spec == Init /\ [][Next]_grpcVars /\ WF_grpcVars(Due)

---------------------------------------------------------------------------
(* Properties *)

\* A reader gets the items in the order they were sent and none is lost; who
\* waits has read all there is, and a stream that ends has none left
\* (grpcReadableToAsyncIterable, callServerStream).
ReadsInOrder ==
  \A c \in Calls :
    /\ read[c] \o buffer[c] = [i \in 1..sent[c] |-> i]
    /\ reader[c] = "waiting" => buffer[c] = <<>> /\ c \notin finished
    /\ reader[c] = "ended" => buffer[c] = <<>> /\ call[c] = "ended"

\* After a close no unary call is pending; before it one is pending only while it
\* has not been cancelled or answered.
ClosedLeavesNoCall ==
  \A c \in Calls : Kind[c] = "unary" /\ result[c] = "pending" =>
    /\ ~(closing /\ stop \in {"ended", "failed"} /\ attempt = "none")
    /\ c \notin signal \cup cancelled /\ call[c] \in {"deferred", "open"}

\* No unary call is dispatched once close() has begun.
NoDispatchOnceClosing ==
  \A c \in Calls : call[c] = "deferred" /\ call'[c] = "open" => ~closing

\* In the end every unary call is settled, and a client stream and a reader when
\* the status of the call has come.
AllSettled ==
  \A c \in Calls :
    /\ Kind[c] = "unary" => result[c] # "pending"
    /\ call[c] \in {"ended", "failed"} => result[c] # "pending" /\ reader[c] # "waiting"
=============================================================================
