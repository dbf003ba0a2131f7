----------------------------- MODULE RequestBodies -----------------------------
(***************************************************************************)
(* How a request gets its body and its one answer around the dispatcher:   *)
(* dispatchWithRequestResponseFactory with the readers of the Web hosts    *)
(* (runtime/src/web.ts), of Node (node/internal-node-request.ts), Express  *)
(* and Fastify, and multipart.ts.  The client sends the body in pieces and *)
(* may leave at any time.  Sizes are counted in units; a multipart body    *)
(* has one file in each piece.  Malformed multipart bodies, the maximum    *)
(* size of a file and what a decoder makes of the bytes are left out.      *)
(***************************************************************************)
EXTENDS Naturals, Sequences, SequencesExt

CONSTANTS Readers,   \* web (Deno, Workers), bun, node, express, fastify
          Limit,     \* maxBodySize and maxTotalSize
          MaxFiles,
          MaxPieces  \* bound: pieces of a body, of one or two units each

BodiesAssumption ==
  /\ Readers \subseteq {"web", "bun", "node", "express", "fastify"}
  /\ Limit \in Nat /\ MaxFiles \in Nat /\ MaxPieces \in Nat

VARIABLES
  host,    \* whose reader it is
  upload,  \* what the client sends, and whether rawBody is kept
  pushed,  \* pieces that have arrived
  taken,   \* pieces that were read
  gone,    \* has the client left?
  phase,
  given,   \* what the handler was given
  status   \* of the answer, 0 before it

bodyVars == <<host, upload, pushed, taken, gone, phase, given, status>>

\* refusing: the stream of a body that is too large is cancelled.
Phases == {"new", "reading", "refusing", "read", "handling", "answered", "left"}
Kinds == {"json", "malformed", "form", "text", "multipart"}
Nothing == [size |-> 0, raw |-> 0]

Size(pieces) == FoldSeq(+, 0, pieces)
Total == Size(upload.pieces)
Sizes == UNION {[1..n -> 1..2] : n \in 0..MaxPieces}

OnWeb == host \in {"web", "bun"}
IsMultipart == upload.kind = "multipart"
IsJson == upload.kind \in {"json", "malformed"}

BodiesInit ==
  /\ host \in Readers
  /\ upload \in [kind : Kinds, pieces : Sizes, declared : BOOLEAN, raw : BOOLEAN]
  /\ IsMultipart => upload.pieces # <<>>
  /\ pushed = 0 /\ taken = 0 /\ gone = FALSE
  /\ phase = "new" /\ given = Nothing /\ status = 0

\* No request, where none is looked at.
NoBody ==
  /\ host = "node" /\ upload = [kind |-> "text", pieces |-> <<>>, declared |-> FALSE, raw |-> FALSE]
  /\ pushed = 0 /\ taken = 0 /\ gone = FALSE
  /\ phase = "answered" /\ given = Nothing /\ status = 200

\* The catch: a client that has left gets no answer.
Fails(code) ==
  /\ phase' = IF gone THEN "left" ELSE "answered"
  /\ status' = IF gone THEN 0 ELSE code

\* Declared lengths: parseMultipart and the Web readers compare content-length;
\* Fastify's own parser does before it calls the adapter.
ChecksLength == upload.declared /\ (IsMultipart \/ OnWeb \/ host = "fastify")
\* Without a body there is nothing to read.
HasBody == ~(Total = 0 /\ (OnWeb \/ (upload.declared /\ host = "node" /\ ~IsMultipart)))

\* Fastify has no parser for forms.
Unsupported == host = "fastify" /\ upload.kind = "form"

\* createDeferredWebFrameworkRequest's materializeBody, and that of the others.
Begins ==
  /\ phase = "new"
  /\ IF Unsupported THEN Fails(415)
     ELSE IF ChecksLength /\ Total > Limit THEN Fails(413)
     ELSE phase' = (IF HasBody THEN "reading" ELSE "read") /\ UNCHANGED status
  /\ UNCHANGED <<host, upload, pushed, taken, gone, given>>

\* request.arrayBuffer(), which reads to the end and compares then: on Bun for
\* every JSON body, elsewhere for one whose declared length is within the limit.
ReadsWhole == OnWeb /\ IsJson /\ ~upload.raw /\ (host = "bun" \/ upload.declared)

\* request.clone() has two streams with one source: cancelling one of them waits
\* for the other, which nobody reads.
IsClone == host = "web" \/ (host = "bun" /\ IsMultipart)

\* Mutant: the limit is compared before the piece is counted.
OverflowsLate == Size(SubSeq(upload.pieces, 1, taken)) > Limit
\* readByteLimitedStream and the stream of parseMultipart.
WebOverflows == Size(SubSeq(upload.pieces, 1, taken + 1)) > Limit
\* readRequestBody of Node and of Express.
NodeOverflows == Size(SubSeq(upload.pieces, 1, taken + 1)) > Limit
ExpressOverflows == Size(SubSeq(upload.pieces, 1, taken + 1)) > Limit
\* Files over the limit are met as they are parsed, part by part.
FastifyOverflows ==
  \/ Size(SubSeq(upload.pieces, 1, taken + 1)) > Limit
  \/ IsMultipart /\ taken >= MaxFiles
Overflows ==
  CASE host = "fastify" -> FastifyOverflows
    [] host # "fastify" /\ (OnWeb \/ IsMultipart) -> WebOverflows
    [] host = "node" /\ ~IsMultipart -> NodeOverflows
    [] host = "express" /\ ~IsMultipart -> ExpressOverflows

\* One turn of the reader's loop.
Takes ==
  /\ phase = "reading" /\ taken < pushed
  /\ IF Overflows /\ ~ReadsWhole
       THEN IF IsClone
              THEN phase' = "refusing" /\ taken' = taken + 1 /\ UNCHANGED status
              ELSE Fails(413) /\ UNCHANGED taken
       ELSE taken' = taken + 1 /\ UNCHANGED <<phase, status>>
  /\ UNCHANGED <<host, upload, pushed, gone, given>>

\* `await reader.cancel()` ends when the source does, which it was asked for once
\* more, or when it fails.
Cancelled ==
  /\ phase = "refusing"
  /\ gone \/ taken = Len(upload.pieces)
  /\ Fails(413)
  /\ UNCHANGED <<host, upload, pushed, taken, gone, given>>

\* Mutant: what the reader had when the client left is dispatched.
BreaksSilently ==
  /\ phase = "reading" /\ gone /\ taken = pushed
  /\ phase' = "read"
  /\ UNCHANGED <<host, upload, pushed, taken, gone, given, status>>

\* The connection ends before the body does: the stream throws.
Breaks ==
  /\ phase = "reading" /\ gone /\ taken = pushed
  /\ Fails(500)
  /\ UNCHANGED <<host, upload, pushed, taken, gone, given>>

\* JSON.parse, for the content type of JSON and a text that is not empty.
Malformed == upload.kind = "malformed" /\ Total > 0

\* parseMultipart's loop over the entries of the form.
TooManyFiles == IsMultipart /\ Len(upload.pieces) > MaxFiles
\* Fastify refuses JSON without a text.
EmptyJson == host = "fastify" /\ IsJson /\ Total = 0

RawSize == IF upload.raw /\ ~IsMultipart THEN Total ELSE 0

\* The stream ends.
Ends ==
  /\ phase = "reading" /\ taken = Len(upload.pieces)
  /\ IF (ReadsWhole /\ Total > Limit) \/ TooManyFiles THEN Fails(413)
     ELSE IF EmptyJson \/ Malformed THEN Fails(400)
     ELSE phase' = "read" /\ UNCHANGED status
  /\ UNCHANGED <<host, upload, pushed, taken, gone, given>>

\* dispatcher.dispatch(), or none is bound yet.
Dispatches ==
  /\ phase = "read"
  /\ \/ /\ phase' = "handling"
        /\ given' = [size |-> Size(SubSeq(upload.pieces, 1, taken)), raw |-> RawSize]
        /\ UNCHANGED status
     \/ Fails(500) /\ UNCHANGED given
  /\ UNCHANGED <<host, upload, pushed, taken, gone>>

\* The dispatch ends, having committed an answer or not, or throws.
Answers(outcome) ==
  IF outcome = "thrown" THEN Fails(500) ELSE phase' = "answered" /\ status' = 200
DispatchEnds ==
  /\ phase = "handling"
  /\ \E outcome \in {"sent", "silent", "thrown"} : Answers(outcome)
  /\ UNCHANGED <<host, upload, pushed, taken, gone, given>>

\* The client sends the next piece, or leaves.
Pushes ==
  /\ ~gone /\ pushed < Len(upload.pieces) /\ phase \notin {"answered", "left"}
  /\ pushed' = pushed + 1
  /\ UNCHANGED <<host, upload, taken, gone, phase, given, status>>
Leaves ==
  /\ ~gone /\ phase \notin {"answered", "left"}
  /\ gone' = TRUE
  /\ UNCHANGED <<host, upload, pushed, taken, phase, given, status>>

Due == Begins \/ Takes \/ Cancelled \/ Breaks \/ Ends \/ Dispatches \/ DispatchEnds \/ Pushes
BodiesNext == Due \/ Leaves

BodiesTypeOK ==
  /\ host \in Readers /\ phase \in Phases /\ gone \in BOOLEAN
  /\ upload \in [kind : Kinds, pieces : Sizes, declared : BOOLEAN, raw : BOOLEAN]
  /\ pushed \in 0..MaxPieces /\ taken \in 0..pushed
  /\ given.size \in Nat /\ given.raw \in Nat
  /\ status \in {0, 200, 400, 413, 415, 500}

\* The handler is given the whole body or is not called: never a part of one that
\* broke off, one over the limit, malformed JSON or too many files; rawBody, where
\* it is kept, is what was sent.
WholeBodyOrNone ==
  phase = "handling" =>
    /\ given.size = Total /\ Total <= Limit
    /\ ~Malformed
    /\ IsMultipart => Len(upload.pieces) <= MaxFiles
    /\ upload.raw /\ ~IsMultipart => given.raw = Total

\* A reader holds one piece more than the limit at most, but for JSON on Bun,
\* which is read whole.
BuffersBounded == ~(host = "bun" /\ ReadsWhole) => Size(SubSeq(upload.pieces, 1, taken)) <= Limit + 2

\* A client that stays is told what was wrong with what it sent, and no more.
ToldWhy ==
  /\ status = 413 => Total > Limit \/ TooManyFiles
  /\ status = 400 => IsJson
  /\ status = 415 => upload.kind = "form"
  /\ phase = "answered" /\ Total > Limit => status \in {413, 415}

\* Every request ends, but for one on a Web host whose body went over the limit
\* before its end: its clone's cancel() waits for the original, which is not read.
AllSettled ==
  \/ phase \in {"answered", "left"}
  \/ phase = "refusing" /\ ~gone /\ taken < Len(upload.pieces)
================================================================================
