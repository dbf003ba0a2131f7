------------------------------ MODULE MCServices ------------------------------
(***************************************************************************)
(* What requests and an application call.  First what an HTTP request      *)
(* meets: small programs for RequestBodies, Dispatcher and I18n.  Then     *)
(* what else listens on the network: MessageTransports, GrpcTransport,     *)
(* MessageHandlers, RedisStreams, WebSockets, SocketIo and                 *)
(* GraphqlOperations.  Then services: SagaBus, CacheService,               *)
(* CacheInterceptor, QueueService, Delivery and Notifications.  The        *)
(* initial state chooses one of them; the others stand still.              *)
(***************************************************************************)
EXTENDS Integers, Sequences, TLC

CONSTANTS Scenarios,  \* those a configuration runs
          None, ShutdownCall,
          c1, c2, c3, w1, w2, r1, get1, put1, put2, j1, j2, q1, q2, l1, l2

VARIABLES
  scenario,        \* the one that was chosen
  bodyHost, upload, pushed, pulled, clientGone, bodyPhase, given, bodyStatus, \* RequestBodies
  req, controller, \* Dispatcher
  textTime, superseded, catalog, textLoad, textAborts, settings, wish, locale, message \* I18n

bodyVars == <<bodyHost, upload, pushed, pulled, clientGone, bodyPhase, given, bodyStatus>>
dispatchVars == <<req, controller>>
textVars == <<textTime, superseded, catalog, textLoad, textAborts, settings, wish, locale, message>>
httpVars == <<bodyVars, dispatchVars, textVars>>

\* Up to three pieces, of which two may be files, against a limit of three units.
Bodies == INSTANCE RequestBodies WITH
  Readers <- {"web", "bun", "node", "express", "fastify"}, Limit <- 3, MaxFiles <- 2, MaxPieces <- 3,
  host <- bodyHost, taken <- pulled, gone <- clientGone, phase <- bodyPhase, status <- bodyStatus

Routes == [
  \* everything a request passes, and an error handler
  pipeline |-> [requests |-> {"a"}, has |-> {"observers", "app", "module", "guard", "interceptor", "onError"}, host |-> "node"],
  \* two requests of one route without any of it; the client of one may leave
  fast     |-> [requests |-> {"a", "b"}, has |-> {}, host |-> "node"],
  \* a route whose container opens when it is asked for
  lazy     |-> [requests |-> {"a"}, has |-> {"onError"}, host |-> "web"],
  \* a controller that reaches a provider of the request
  scoped   |-> [requests |-> {"a"}, has |-> {"scoped", "onError"}, host |-> "node"],
  \* async iterables
  sse      |-> [requests |-> {"a"}, has |-> {"observers", "interceptor", "sse"}, host |-> "node"],
  streams  |-> [requests |-> {"a"}, has |-> {"sse"}, host |-> "web"]]

Http(s) == INSTANCE Dispatcher WITH
  Requests <- Routes[s].requests, Has <- Routes[s].has, Host <- Routes[s].host

\* Locales with and without a region, and requests for up to two ranges.
En == <<<<"en">>, "given">>
Ko == <<<<"ko">>, "given">>
US == <<<<"en", "us">>, "given">>
Lower == <<<<"en", "us">>, "lower">>
Longer == <<<<"en", "us", "x">>, "given">>
Star == <<<<"*">>, "given">>
LocaleSettings ==
  {[supported |-> s, default |-> IF s = <<>> THEN En ELSE s[Len(s)], toParent |-> p, wildcard |-> w, fallback |-> US :> <<En>>] :
     s \in {<<>>, <<US, En>>, <<Ko, US>>}, p \in BOOLEAN, w \in {"none", "first", "default"}}
Preferences == {[range |-> r, quality |-> q] : r \in {Lower, Longer, Ko, Star}, q \in 0..2}
LocaleWishes ==
  {[stored |-> s, header |-> h, written |-> {En}] :
     s \in {<<<<>>, "given">>, Lower, Ko}, h \in {<<>>} \cup {<<p, q>> : p, q \in Preferences}}
Texts == INSTANCE I18n WITH
  Loads <- {"l", "k"}, Ttl <- 1, MaxTime <- 2, MaxVersion <- 2,
  Settings <- LocaleSettings, Wishes <- LocaleWishes,
  now <- textTime, entry <- catalog, load <- textLoad, aborted <- textAborts

ASSUME Texts!I18nAssumption
ASSUME Bodies!BodiesAssumption
ASSUME \A s \in DOMAIN Routes : Http(s)!DispatcherAssumption

\* A component that takes no part is in the initial state of one that may.
Choice(programs) == IF scenario \in DOMAIN programs THEN scenario ELSE CHOOSE s \in DOMAIN programs : TRUE

HttpInit ==
  /\ IF scenario = "bodies" THEN Bodies!BodiesInit ELSE Bodies!NoBody
  /\ \E s \in DOMAIN Routes : s = Choice(Routes) /\ Http(s)!Init
  /\ Texts!LoaderInit /\ IF scenario = "locales" THEN Texts!LocaleInit ELSE Texts!NoRequest
HttpNext ==
  \/ /\ \E s \in Scenarios \cap DOMAIN Routes : scenario = s /\ Http(s)!Next
     /\ scenario = "fast" => ~req'["b"].gone
     /\ UNCHANGED <<bodyVars, textVars>>
  \/ scenario = "bodies" /\ Bodies!BodiesNext /\ UNCHANGED <<dispatchVars, textVars>>
  \/ scenario = "catalogs" /\ Texts!LoaderNext /\ UNCHANGED <<bodyVars, dispatchVars>>
  \/ scenario = "locales" /\ Texts!LocaleNext /\ UNCHANGED <<bodyVars, dispatchVars>>
HttpFairness ==
  /\ WF_bodyVars(scenario = "bodies" /\ Bodies!Due)
  /\ WF_dispatchVars(\E s \in Scenarios \cap DOMAIN Routes : scenario = s /\ Http(s)!Due)
  /\ WF_textVars(scenario = "catalogs" /\ Texts!Due)

\* Dispatcher!OneAnswerEach, Dispatcher!WindsUp and I18n!BestLocale: a client that
\* waits gets one response, in the best locale it asks for, and a dispatch that
\* is over has closed its container and told its observers.
\* RequestBodies!WholeBodyOrNone, BuffersBounded and ToldWhy: handlers are given
\* whole bodies within the limits, and clients are told what was wrong with theirs.
AnsweredWell ==
  /\ scenario = "bodies" => Bodies!WholeBodyOrNone /\ Bodies!BuffersBounded /\ Bodies!ToldWhy
  /\ \A s \in Scenarios \cap DOMAIN Routes : scenario = s => Http(s)!OneAnswerEach /\ Http(s)!WindsUp
  /\ scenario = "locales" => Texts!BestLocale

\* Dispatcher!StreamsReachClient: a client sees a stream while it goes on.
StreamsReachClient ==
  \A s \in Scenarios \cap DOMAIN Routes : scenario = s => Http(s)!StreamsReachClient

\* RequestBodies!AllSettled, Dispatcher!AllSettled and I18n!AllSettled: no request
\* stays, no answered load.
HttpSettled ==
  /\ scenario = "bodies" => Bodies!AllSettled
  /\ \A s \in Scenarios \cap DOMAIN Routes : scenario = s => Http(s)!AllSettled
  /\ Texts!AllSettled

---------------------------------------------------------------------------

VARIABLES
  service, open, caller, attempt, stop, closes, listening, closing, handler, \* MessageTransports
  frame, pending, aborted, serving, replies,
  grpcListening, grpcClosing, grpcHandler, grpcAttempt, listens, grpcStop, grpcCloses, \* GrpcTransport
  call, result, signal, cancelled, remote, items, reader, buffer, read, finished, broken,
  packet, run, scope, instances,                                             \* MessageHandlers
  consuming, parting, handling, joining, groups, ending,                     \* RedisStreams
  loop, batch, at, entry, event, response, request, handled,
  socket, slots, registry, bind, early, queue, busy, sent, farewell, halt, waits, hurried, \* WebSockets
  ioBound, connected, known, ioPending, told, came, under, replay, leaving, ioStop,        \* SocketIo
  yoga, shutdown, graphSocket, subscribed, containers, op, disposals, graphRequest         \* GraphqlOperations

linkVars == <<service, open, caller, attempt, stop, closes, listening, closing, handler,
              frame, pending, aborted, serving, replies>>
grpcVars == <<grpcListening, grpcClosing, grpcHandler, grpcAttempt, listens, grpcStop, grpcCloses,
              call, result, signal, cancelled, remote, items, reader, buffer, read, finished, broken>>
handlerVars == <<packet, run, scope, instances>>
streamVars == <<consuming, parting, handling, joining, groups, ending,
                loop, batch, at, entry, event, response, request, handled>>
socketVars == <<socket, slots, registry, bind, early, queue, busy, sent, farewell, halt, waits, hurried>>
ioVars == <<ioBound, connected, known, ioPending, told, came, under, replay, leaving, ioStop>>
graphVars == <<yoga, shutdown, graphSocket, subscribed, containers, op, disposals, graphRequest>>
networkVars == <<scenario, httpVars, linkVars, grpcVars, handlerVars, streamVars, socketVars, ioVars, graphVars>>

\* Two requests against calls of listen() and close().
Links == [
  tcp      |-> [listeners |-> {"l"}, closes |-> 2],
  nats     |-> [listeners |-> {"l", "k"}, closes |-> 2],
  kafka    |-> [listeners |-> {"l", "k"}, closes |-> 1],
  rabbitmq |-> [listeners |-> {"l"}, closes |-> 2],
  mqtt     |-> [listeners |-> {"l"}, closes |-> 1],
  redis    |-> [listeners |-> {"l", "k"}, closes |-> 2]]

Grpc == [
  \* two unary calls against listen() and close()
  unary  |-> [kind |-> "u" :> "unary" @@ "v" :> "unary", listens |-> 2, closes |-> 2],
  \* a server stream, a stream of both kinds, a client stream beside a unary call
  server |-> [kind |-> "s" :> "reads", listens |-> 2, closes |-> 2],
  bidi   |-> [kind |-> "b" :> "both", listens |-> 1, closes |-> 1],
  client |-> [kind |-> "w" :> "writes" @@ "u" :> "unary", listens |-> 1, closes |-> 1]]

Packets == [
  \* an event of three classes, two of them scoped, and what shares them
  packets   |-> [kind |-> "e" :> "event" @@ "m" :> "message" @@ "s" :> "server-stream",
                 matches |-> "e" :> {"h1", "h2", "h3"} @@ "m" :> {"h1"} @@ "s" :> {"h2"}],
  \* two methods of one class, and messages of no handler or of two
  ambiguous |-> [kind |-> "e" :> "event" @@ "m" :> "message" @@ "b" :> "bidi-stream",
                 matches |-> "e" :> {} @@ "m" :> {"h1", "h4"} @@ "b" :> {"h4"}]]

Consumers == [
  \* one listener answers its own requests
  answers  |-> [listeners |-> {"a"}, sender |-> 1 :> "a" @@ 2 :> "a", events |-> {}, fails |-> FALSE],
  \* Redis refuses commands
  refusals |-> [listeners |-> {"a"}, sender |-> 1 :> "a", events |-> {2}, fails |-> TRUE],
  \* two listeners share the requests and each has every event
  shared   |-> [listeners |-> {"a", "b"}, sender |-> 1 :> "a", events |-> {}, fails |-> FALSE],
  \* events whose handlers may fail
  events   |-> [listeners |-> {"a"}, sender |-> <<>>, events |-> {1, 2}, fails |-> FALSE]]

Sockets == [
  \* two clients and one slot
  node     |-> [runtime |-> "node", clients |-> {"a", "b"}, max |-> 1, limit |-> 1, policy |-> "drop-oldest", messages |-> 1],
  bun      |-> [runtime |-> "bun", clients |-> {"a", "b"}, max |-> 1, limit |-> 1, policy |-> "drop-oldest", messages |-> 1],
  deno     |-> [runtime |-> "deno", clients |-> {"a", "b"}, max |-> 1, limit |-> 1, policy |-> "drop-oldest", messages |-> 1],
  workers  |-> [runtime |-> "workers", clients |-> {"a", "b"}, max |-> 1, limit |-> 1, policy |-> "drop-oldest", messages |-> 1],
  \* one client that sends more than is kept
  oldest   |-> [runtime |-> "node", clients |-> {"a"}, max |-> 1, limit |-> 2, policy |-> "drop-oldest", messages |-> 4],
  newest   |-> [runtime |-> "bun", clients |-> {"a"}, max |-> 1, limit |-> 2, policy |-> "drop-newest", messages |-> 4],
  overflow |-> [runtime |-> "node", clients |-> {"a"}, max |-> 1, limit |-> 1, policy |-> "close", messages |-> 3]]

\* One client of Socket.IO that sends more than is kept.
IoPrograms == [
  ioOldest |-> [limit |-> 2, policy |-> "drop-oldest"],
  ioNewest |-> [limit |-> 2, policy |-> "drop-newest"],
  ioClose  |-> [limit |-> 1, policy |-> "close"]]

GraphPrograms == [
  \* two operations of one id and one of another on a socket, another socket is refused
  operations |-> [socketOf |-> "o" :> "s" @@ "p" :> "s" @@ "q" :> "s", idOf |-> "o" :> 1 @@ "p" :> 1 @@ "q" :> 2, max |-> 1],
  \* one on each of two sockets
  sessions   |-> [socketOf |-> "o" :> "s" @@ "p" :> "t", idOf |-> "o" :> 1 @@ "p" :> 1, max |-> 2],
  \* a request over HTTP
  responses  |-> [socketOf |-> "o" :> "s", idOf |-> "o" :> 1, max |-> 1]]

Link(s) == INSTANCE MessageTransports WITH
  Requests <- {"r", "q"}, Listeners <- Links[s].listeners, Transport <- s, MaxCloses <- Links[s].closes
Rpc(s) == INSTANCE GrpcTransport WITH
  Calls <- DOMAIN Grpc[s].kind, Kind <- Grpc[s].kind, MaxItems <- 2,
  MaxListens <- Grpc[s].listens, MaxCloses <- Grpc[s].closes,
  listening <- grpcListening, closing <- grpcClosing, handler <- grpcHandler,
  attempt <- grpcAttempt, stop <- grpcStop, closes <- grpcCloses, sent <- items
Inbound(s) == INSTANCE MessageHandlers WITH
  Packets <- DOMAIN Packets[s].kind, Kind <- Packets[s].kind, Handlers <- {"h1", "h2", "h3", "h4"},
  Matches <- Packets[s].matches, Token <- "h1" :> "A" @@ "h2" :> "B" @@ "h3" :> "C" @@ "h4" :> "A",
  Scoped <- {"B", "C"}
Stream(s) == INSTANCE RedisStreams WITH
  Listeners <- Consumers[s].listeners, Messages <- DOMAIN Consumers[s].sender,
  Sender <- Consumers[s].sender, Events <- Consumers[s].events, Fails <- Consumers[s].fails,
  listening <- consuming, closing <- parting, handler <- handling, attempt <- joining, stop <- ending
Gateway(s) == INSTANCE WebSockets WITH
  Clients <- Sockets[s].clients, Runtime <- Sockets[s].runtime, MaxConnections <- Sockets[s].max,
  Limit <- Sockets[s].limit, Policy <- Sockets[s].policy, MaxMessages <- Sockets[s].messages
Io(s) == INSTANCE SocketIo WITH
  Clients <- {"a"}, Limit <- IoPrograms[s].limit, Policy <- IoPrograms[s].policy, MaxMessages <- 3,
  bound <- ioBound, pending <- ioPending
Graphql(s) == INSTANCE GraphqlOperations WITH
  Sockets <- {"s", "t"}, Operations <- DOMAIN GraphPrograms[s].socketOf, SocketOf <- GraphPrograms[s].socketOf,
  IdOf <- GraphPrograms[s].idOf, MaxConnections <- GraphPrograms[s].max, MaxOperations <- 1,
  socket <- graphSocket, request <- graphRequest

ASSUME \A s \in DOMAIN GraphPrograms : Graphql(s)!GraphqlAssumption
ASSUME \A s \in DOMAIN Links : Link(s)!TransportAssumption
ASSUME \A s \in DOMAIN Grpc : Rpc(s)!GrpcAssumption
ASSUME \A s \in DOMAIN Packets : Inbound(s)!HandlersAssumption
ASSUME \A s \in DOMAIN Consumers : Stream(s)!StreamsAssumption
ASSUME \A s \in DOMAIN Sockets : Gateway(s)!SocketsAssumption
ASSUME \A s \in DOMAIN IoPrograms : Io(s)!SocketIoAssumption

NetworkInit ==
  /\ HttpInit
  /\ \E s \in DOMAIN Links : s = Choice(Links) /\ Link(s)!Init
  /\ \E s \in DOMAIN Grpc : s = Choice(Grpc) /\ Rpc(s)!Init
  /\ \E s \in DOMAIN Packets : s = Choice(Packets) /\ Inbound(s)!Init
  /\ \E s \in DOMAIN Consumers : s = Choice(Consumers) /\ Stream(s)!Init
  /\ \E s \in DOMAIN Sockets : s = Choice(Sockets) /\ Gateway(s)!Init
  /\ \E s \in DOMAIN IoPrograms : s = Choice(IoPrograms) /\ Io(s)!Init
  /\ \E s \in DOMAIN GraphPrograms : s = Choice(GraphPrograms) /\ Graphql(s)!Init

NetworkNext ==
  \/ HttpNext /\ UNCHANGED <<scenario, linkVars, grpcVars, handlerVars, streamVars, socketVars, ioVars, graphVars>>
  \/ \E s \in Scenarios \cap DOMAIN Links : scenario = s /\ Link(s)!Next
       /\ UNCHANGED <<scenario, httpVars, grpcVars, handlerVars, streamVars, socketVars, ioVars, graphVars>>
  \/ \E s \in Scenarios \cap DOMAIN Grpc : scenario = s /\ Rpc(s)!Next
       /\ UNCHANGED <<scenario, httpVars, linkVars, handlerVars, streamVars, socketVars, ioVars, graphVars>>
  \/ \E s \in Scenarios \cap DOMAIN Packets : scenario = s /\ Inbound(s)!Next
       /\ UNCHANGED <<scenario, httpVars, linkVars, grpcVars, streamVars, socketVars, ioVars, graphVars>>
  \/ \E s \in Scenarios \cap DOMAIN Consumers : scenario = s /\ Stream(s)!Next
       /\ UNCHANGED <<scenario, httpVars, linkVars, grpcVars, handlerVars, socketVars, ioVars, graphVars>>
  \/ \E s \in Scenarios \cap DOMAIN Sockets : scenario = s /\ Gateway(s)!Next
       /\ UNCHANGED <<scenario, httpVars, linkVars, grpcVars, handlerVars, streamVars, ioVars, graphVars>>
  \/ \E s \in Scenarios \cap DOMAIN IoPrograms : scenario = s /\ Io(s)!Next
       /\ UNCHANGED <<scenario, httpVars, linkVars, grpcVars, handlerVars, streamVars, socketVars, graphVars>>
  \/ \E s \in Scenarios \cap DOMAIN GraphPrograms :
       /\ scenario = s
       /\ IF s = "responses" THEN Graphql(s)!Bootstrap \/ Graphql(s)!RequestNext ELSE Graphql(s)!SocketNext
       /\ UNCHANGED <<scenario, httpVars, linkVars, grpcVars, handlerVars, streamVars, socketVars, ioVars>>

\* The fairness of each, in the scenario that was chosen.
NetworkFairness ==
  /\ HttpFairness
  /\ WF_linkVars(\E s \in Scenarios \cap DOMAIN Links : scenario = s /\ Link(s)!Due)
  /\ WF_grpcVars(\E s \in Scenarios \cap DOMAIN Grpc : scenario = s /\ Rpc(s)!Due)
  /\ WF_handlerVars(\E s \in Scenarios \cap DOMAIN Packets : scenario = s /\ Inbound(s)!Due)
  /\ WF_streamVars(\E s \in Scenarios \cap DOMAIN Consumers : scenario = s /\ Stream(s)!Due)
  /\ WF_socketVars(\E s \in Scenarios \cap DOMAIN Sockets : scenario = s /\ Gateway(s)!Due)
  /\ WF_ioVars(\E s \in Scenarios \cap DOMAIN IoPrograms : scenario = s /\ Io(s)!Due)
  /\ WF_graphVars(\E s \in Scenarios \cap DOMAIN GraphPrograms : scenario = s /\ Graphql(s)!Due)

\* MessageTransports!ServiceMatchesTransport and MessageTransports!NoWorkOnceOver:
\* a ready service has a transport that listens and a close leaves no request
\* behind; nothing is published once it has begun, no handler begins once it is over.
\* GrpcTransport!ReadsInOrder, ClosedLeavesNoCall and NoDispatchOnceClosing: the
\* same for gRPC, whose readers lose nothing.  MessageHandlers!DispatchedWell: a
\* packet's scope covers its handlers, its answer is theirs.
TransportsInStep ==
  /\ [](\A s \in Scenarios \cap DOMAIN Links : scenario = s => Link(s)!ServiceMatchesTransport)
  /\ [](\A s \in Scenarios \cap DOMAIN Grpc : scenario = s => Rpc(s)!ReadsInOrder /\ Rpc(s)!ClosedLeavesNoCall)
  /\ [](\A s \in Scenarios \cap DOMAIN Packets : scenario = s => Inbound(s)!DispatchedWell)
  /\ [][\A s \in Scenarios \cap DOMAIN Grpc : (scenario = s) => Rpc(s)!NoDispatchOnceClosing]_networkVars
  /\ [][\A s \in Scenarios \cap DOMAIN Links : (scenario = s) => Link(s)!NoWorkOnceOver]_networkVars

\* RedisStreams!AckedWasHandled: an entry is acknowledged after its handler.
AckedWasHandled ==
  \A s \in Scenarios \cap DOMAIN Consumers : scenario = s => Stream(s)!AckedWasHandled

\* RedisStreams!PendingIsRecoverable: the group of a pending event exists.
PendingIsRecoverable ==
  \A s \in Scenarios \cap DOMAIN Consumers : scenario = s => Stream(s)!PendingIsRecoverable

\* WebSockets!HandlersInOrder, WebSockets!WithinLimits and WebSockets!ShutdownDrains:
\* handlers see messages in order and disconnect last; connections and queues keep
\* their limits; with Node, shutdown ends when every socket is closed and its
\* disconnect handlers are done, unless a wait timed out.
\* SocketIo!ReadyFirst and SocketIo!RegistryForgets: connect handlers come before
\* the others, and the registry forgets a socket that is over.
\* GraphqlOperations!ScopesCoverOperations and GraphqlOperations!RequestsWindUp: a
\* GraphQL operation has its container while it runs, no longer than its socket;
\* a response that is over leaves neither container nor body behind.
SocketsInOrder ==
  /\ \A s \in Scenarios \cap DOMAIN Sockets :
       scenario = s => Gateway(s)!HandlersInOrder /\ Gateway(s)!WithinLimits /\ Gateway(s)!ShutdownDrains
  /\ \A s \in Scenarios \cap DOMAIN IoPrograms : scenario = s => Io(s)!ReadyFirst /\ Io(s)!RegistryForgets
  /\ \A s \in Scenarios \cap DOMAIN GraphPrograms :
       scenario = s => Graphql(s)!ScopesCoverOperations /\ Graphql(s)!RequestsWindUp

\* HttpSettled, MessageTransports!AllSettled, GrpcTransport!AllSettled,
\* MessageHandlers!AllAnswered, RedisStreams!AllSettled, WebSockets!AllSettled,
\* SocketIo!AllSettled and GraphqlOperations!AllSettled: every request is answered or fails, a close() that waits
\* for its loops ends, and every connection that closed is told so.
NetworkSettled ==
  /\ HttpSettled
  /\ \A s \in Scenarios \cap DOMAIN Links : scenario = s => Link(s)!AllSettled
  /\ \A s \in Scenarios \cap DOMAIN Grpc : scenario = s => Rpc(s)!AllSettled
  /\ \A s \in Scenarios \cap DOMAIN Packets : scenario = s => Inbound(s)!AllAnswered
  /\ \A s \in Scenarios \cap DOMAIN Consumers : scenario = s => Stream(s)!AllSettled
  /\ \A s \in Scenarios \cap DOMAIN Sockets : scenario = s => Gateway(s)!AllSettled
  /\ \A s \in Scenarios \cap DOMAIN IoPrograms : scenario = s => Io(s)!AllSettled
  /\ \A s \in Scenarios \cap DOMAIN GraphPrograms : scenario = s => Graphql(s)!AllSettled

---------------------------------------------------------------------------

VARIABLES
  execs, tail, asked, life, drain, before,                                        \* SagaBus
  truth, store, resetVersion, inflight, invalidated, pendingLoads, marked, phase, \* CacheService
  gen, val, joined, writes, floor, loadedIn,
  data, key, get, held, write, eviction, completed, timer, wrapped,               \* CacheInterceptor
  lifecycleState, startPromise, redisClient, current, owned, readyWorkers, starts, left, \* QueueService
  building, jobOf, opened, scheduled, ready, running, taken, starter, waitsFor, quit, letter, awaited,
  mailState, promise, made, mailOpen, start, hook, mailStop, mail, tries,         \* Delivery
  notification, stage, noteEvents, accepted, results, failures, lost              \* Notifications

sagaVars == <<execs, tail, asked, life, drain, before>>
cacheVars == <<truth, store, resetVersion, inflight, invalidated, pendingLoads, marked, phase,
               gen, val, joined, writes, floor, loadedIn>>
requestVars == <<data, key, get, held, write, eviction, completed, timer, wrapped>>
queueVars == <<lifecycleState, startPromise, redisClient, current, owned, readyWorkers, starts, left,
               building, jobOf, opened, scheduled, ready, running, taken, starter, waitsFor, quit, letter, awaited>>
mailVars == <<mailState, promise, made, mailOpen, start, hook, mailStop, mail, tries,
              notification, stage, noteEvents, accepted, results, failures, lost>>
allVars == <<networkVars, sagaVars, cacheVars, requestVars, queueVars, mailVars>>

---------------------------------------------------------------------------
(* Sagas *)

Graph(matches, republishes, publishes, depth) ==
  [events |-> DOMAIN matches, matches |-> matches, publishes |-> publishes, depth |-> depth,
   republishes |-> [r \in {"Order", "Billing"} \X DOMAIN matches |-> IF r \in DOMAIN republishes THEN republishes[r] ELSE {}]]

Graphs == [
  \* Order answers "placed" by publishing "charge", on which Billing publishes
  \* "charged", handled by Order again; there "placed" re-enters and "note"
  \* nests too deep; "audit" reaches both.
  chain |-> Graph([placed |-> <<<<"Order", "placed">>>>, charge |-> <<<<"Billing", "charge">>>>,
                   charged |-> <<<<"Order", "charged">>>>, note |-> <<<<"Billing", "note">>>>,
                   audit |-> <<<<"Order", "audit">>, <<"Billing", "audit">>>>],
                  <<"Order", "placed">> :> {"charge"} @@ <<"Billing", "charge">> :> {"charged"}
                    @@ <<"Order", "charged">> :> {"placed", "note"},
                  [p1 |-> "placed", p2 |-> "audit"], 3),
  \* Order publishes to Billing on one event and Billing to Order on another: no
  \* route leads back to itself.
  cross |-> Graph([order |-> <<<<"Order", "order">>>>, cancel |-> <<<<"Order", "cancel">>>>,
                   bill |-> <<<<"Billing", "bill">>>>, refund |-> <<<<"Billing", "refund">>>>],
                  <<"Order", "order">> :> {"bill"} @@ <<"Billing", "refund">> :> {"cancel"},
                  [p1 |-> "order", p2 |-> "refund"], 32)]

Sagas(s) == INSTANCE SagaBus WITH
  Sagas <- {"Order", "Billing"}, Events <- Graphs[s].events, Types <- Graphs[s].events,
  Matches <- Graphs[s].matches, Republishes <- Graphs[s].republishes,
  Publishers <- {"p1", "p2"}, Publishes <- Graphs[s].publishes, MaxDepth <- Graphs[s].depth

---------------------------------------------------------------------------
(* One key of the cache, and a GET and two writes through the interceptor, *)
(* one of which sends its response itself.                                 *)

Cache == INSTANCE CacheService WITH
  Callers <- {c1, c2, c3}, Writers <- {w1, w2}, Resets <- {r1}, pending <- pendingLoads
Requests == INSTANCE CacheInterceptor WITH
  Gets <- {get1}, Puts <- {put1, put2}, Committed <- {put2},
  truth <- data, store <- key, val <- held

Still(p) == phase'[p] = "idle"
\* Of callers and of writers the first is named first.
InOrder == \A <<p, q>> \in {<<c1, c2>>, <<c2, c3>>, <<w1, w2>>} : Still(p) => Still(q)
Remembers == [
  \* two calls of remember() against two writers
  del   |-> {c3, r1},
  \* two calls of remember() against a writer and a reset()
  reset |-> {c3, w2},
  \* three calls of remember() against a reset()
  loads |-> {w1, w2}]

---------------------------------------------------------------------------
(* Two jobs, two callers and two dead letters of the queue.  A program     *)
(* limits what callers, jobs and starts do; nothing that is fair is.       *)

QueuePrograms == [retry |-> [starts |-> 2, sets |-> 4], share |-> [starts |-> 2, sets |-> 4],
                  overlap |-> [starts |-> 3, sets |-> 3]]
Queue(s) == INSTANCE QueueService WITH
  Jobs <- {j1, j2}, Callers <- {q1, q2}, Letters <- {l1, l2},
  MaxStarts <- QueuePrograms[s].starts, MaxSets <- QueuePrograms[s].sets,
  phase <- starts, open <- opened, closing <- taken, caller <- starter, stop <- quit
\* One caller starts again after a failed start, and one job fails for good.
Retry == starter'[q2] = "out" /\ letter'[l2] = "none"
\* Two callers share the only start, and two jobs fail for good; of callers and of
\* letters the first is named first.
Share ==
  /\ starts'[2] = "unused"
  /\ starter'[q2] # "out" => starter'[q1] # "out"
  /\ letter'[l2] # "none" => letter'[l1] # "none"
\* Two callers start again, also while the other still rolls the last start back.
Overlap == UNCHANGED letter

---------------------------------------------------------------------------
(* Two messages, one of them a notification, and batches of notifications. *)

Mails == [
  email    |-> [service |-> "email", verifies |-> TRUE, owns |-> TRUE],
  promptly |-> [service |-> "email", verifies |-> FALSE, owns |-> FALSE],
  slack    |-> [service |-> "slack", verifies |-> TRUE, owns |-> TRUE],
  discord  |-> [service |-> "discord", verifies |-> TRUE, owns |-> TRUE]]
Batches == [
  direct   |-> [channels |-> <<"email", "sms", "email">>, mode |-> "direct", goesOn |-> TRUE],
  single   |-> [channels |-> <<"email">>, mode |-> "single", goesOn |-> FALSE],
  bulk     |-> [channels |-> <<"email", "email">>, mode |-> "bulk", goesOn |-> TRUE],
  oneByOne |-> [channels |-> <<"email", "email", "email">>, mode |-> "fallback", goesOn |-> TRUE],
  givesUp  |-> [channels |-> <<"email", "email", "email">>, mode |-> "fallback", goesOn |-> FALSE],
  unknown  |-> [channels |-> <<"email", "sms", "email">>, mode |-> "fallback", goesOn |-> TRUE]]

Mail(s) == INSTANCE Delivery WITH
  Messages <- {"m", "n"}, Notes <- {"n"}, Service <- Mails[s].service,
  Verifies <- Mails[s].verifies, Owns <- Mails[s].owns,
  state <- mailState, open <- mailOpen, stop <- mailStop
Notify(s) == INSTANCE Notifications WITH
  Batch <- Batches[s].channels, Channels <- {"email"}, Mode <- Batches[s].mode, HasQueue <- TRUE,
  ContinueOnError <- Batches[s].goesOn, at <- notification, events <- noteEvents

ASSUME \A s \in DOMAIN Mails : Mail(s)!DeliveryAssumption
ASSUME \A s \in DOMAIN Batches : Notify(s)!NotificationsAssumption
ASSUME \A s \in DOMAIN Graphs : Sagas(s)!SagaAssumption /\ Sagas(s)!PublishedAlone
ASSUME Cache!CacheAssumption /\ Requests!InterceptorAssumption
ASSUME \A s \in DOMAIN QueuePrograms : Queue(s)!QueueAssumption

---------------------------------------------------------------------------

MCInit ==
  /\ scenario \in Scenarios /\ NetworkInit
  /\ \E s \in DOMAIN Graphs : s = Choice(Graphs) /\ Sagas(s)!Init
  /\ Cache!Init /\ Requests!Init
  /\ \E s \in DOMAIN QueuePrograms : s = Choice(QueuePrograms) /\ Queue(s)!Init
  /\ \E s \in DOMAIN Mails : s = Choice(Mails) /\ Mail(s)!Init
  /\ \E s \in DOMAIN Batches : s = Choice(Batches) /\ Notify(s)!Init

MCNext ==
  \/ NetworkNext /\ UNCHANGED <<sagaVars, cacheVars, requestVars, queueVars, mailVars>>
  \/ /\ \E s \in Scenarios \cap DOMAIN Graphs : scenario = s /\ Sagas(s)!Next
     /\ UNCHANGED <<networkVars, cacheVars, requestVars, queueVars, mailVars>>
  \/ /\ scenario \in DOMAIN Remembers /\ Cache!Next /\ InOrder /\ \A p \in Remembers[scenario] : Still(p)
     /\ UNCHANGED <<networkVars, sagaVars, requestVars, queueVars, mailVars>>
  \/ /\ scenario = "requests" /\ Requests!Next
     /\ UNCHANGED <<networkVars, sagaVars, cacheVars, queueVars, mailVars>>
  \/ /\ \E s \in Scenarios \cap DOMAIN QueuePrograms : scenario = s /\ Queue(s)!Next
     /\ scenario = "retry" => Retry
     /\ scenario = "share" => Share
     /\ scenario = "overlap" => Overlap
     /\ UNCHANGED <<networkVars, sagaVars, cacheVars, requestVars, mailVars>>
  \/ /\ \/ \E s \in Scenarios \cap DOMAIN Mails : scenario = s /\ Mail(s)!Next
             /\ UNCHANGED <<notification, stage, noteEvents, accepted, results, failures, lost>>
        \/ \E s \in Scenarios \cap DOMAIN Batches : scenario = s /\ Notify(s)!Next
             /\ UNCHANGED <<mailState, promise, made, mailOpen, start, hook, mailStop, mail, tries>>
     /\ UNCHANGED <<networkVars, sagaVars, cacheVars, requestVars, queueVars>>

\* The fairness of each, in the scenario that was chosen.
MCFairness ==
  /\ NetworkFairness
  /\ WF_sagaVars(\E s \in Scenarios \cap DOMAIN Graphs : scenario = s /\ Sagas(s)!Due)
  /\ WF_requestVars(scenario = "requests" /\ Requests!Due)
  /\ WF_queueVars(\E s \in Scenarios \cap DOMAIN QueuePrograms : scenario = s /\ Queue(s)!Due)
  /\ WF_mailVars(\/ \E s \in Scenarios \cap DOMAIN Mails : scenario = s /\ Mail(s)!Due
                    /\ UNCHANGED <<notification, stage, noteEvents, accepted, results, failures, lost>>
                 \/ \E s \in Scenarios \cap DOMAIN Batches : scenario = s /\ Notify(s)!Due
                    /\ UNCHANGED <<mailState, promise, made, mailOpen, start, hook, mailStop, mail, tries>>)
MCSpec == MCInit /\ [][MCNext]_allVars /\ MCFairness

---------------------------------------------------------------------------

\* SagaBus!SerializedPerSaga and SagaBus!DrainWaitsForAll: executions of a saga
\* run at once only inside each other; a drain that did not give up left none.
SagasInTurn == Sagas("chain")!SerializedPerSaga /\ Sagas("chain")!DrainWaitsForAll

\* SagaBus!DispatchSettles: every dispatch() settles when handlers do.
DispatchSettles == Sagas("chain")!DispatchSettles

\* CacheService!StaleIsTransient and CacheService!OneLoadAtATime: a stale value
\* does not stay, and callers share one load but for those a reset() divides.
\* I18n!FreshCatalogs: a cached catalog is as young as its time to live says.
LoadsStayFresh == Cache!StaleIsTransient /\ Cache!OneLoadAtATime /\ Texts!FreshCatalogs

\* CacheInterceptor!EvictsOnce: a write evicts once, whether its response or the
\* fallback timer comes first.
EvictsOnce == Requests!EvictsOnce

\* QueueService!OpenIsOwned: what is open is registered or somebody closes it.
OpenIsOwned ==
  \A s \in Scenarios \cap DOMAIN QueuePrograms : scenario = s => Queue(s)!OpenIsOwned

\* OpenIsOwned, and QueueService!LettersReachRedis: dead letters find the client
\* until the stop.  Notifications!OneTerminalEach: what became of every
\* notification is told once.
NothingIsLost ==
  /\ OpenIsOwned /\ Queue("retry")!LettersReachRedis
  /\ \A s \in Scenarios \cap DOMAIN Batches : scenario = s => Notify(s)!OneTerminalEach

\* QueueService!ShutdownIsFinal: a stopping queue is never brought back.
\* Delivery!StopsClean and Delivery!HandedWhileOpen: a delivery service closes its
\* transport and hands over no message once its shutdown began.
ShutdownIsFinal ==
  /\ [][Queue("retry")!StaysStopped]_queueVars
  /\ [](\A s \in Scenarios \cap DOMAIN Mails : scenario = s => Mail(s)!StopsClean)
  /\ [][\A s \in Scenarios \cap DOMAIN Mails : (scenario = s) => Mail(s)!HandedWhileOpen]_mailVars

\* Again and again nothing is owed: dispatches have settled when handlers do,
\* writes are evicted, a queue that stops has closed all it opened, messages are
\* delivered or refused, requests on the network are answered or fail, and what
\* closes is closed.
EverythingSettles ==
  []<>(/\ NetworkSettled
       /\ Sagas("chain")!AllSettled
       /\ Requests!AllEvicted
       /\ Queue("retry")!AllClosed
       /\ \A s \in Scenarios \cap DOMAIN Mails : scenario = s => Mail(s)!AllSettled
       /\ \A s \in Scenarios \cap DOMAIN Batches : scenario = s => Notify(s)!AllSettled)
=============================================================================
