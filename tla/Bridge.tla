---------------------------- MODULE Bridge ----------------------------
(***************************************************************************)
(* One page window of the runtime: the bridge between the document that    *)
(* runs in the WebView (reaper.js) and the REAPER main thread (Session in  *)
(* runtime.hpp, window.cpp, runtime.cpp).                                  *)
(*                                                                         *)
(* The page posts numbered requests.  The WebView delivers them some time  *)
(* later to the receive callback, which queues a small request at once, or *)
(* hands it to the worker to be parsed.  The host timer takes what the     *)
(* worker finished, dispatches one queued request, answers inline or has   *)
(* the worker encode the answer, and emits events.  A native call may be   *)
(* modal: it runs a nested message loop in which messages arrive, the page *)
(* navigates and the window is closed, while ticking_ keeps the timer out. *)
(*                                                                         *)
(* The worker is here one FIFO of limited length (what Worker.tla proves   *)
(* of it); a service, desktop, icon or audio call that answers later is a  *)
(* member of "asyncs" (HostService.tla shows that it answers once).        *)
(***************************************************************************)
EXTENDS Integers, Sequences, FiniteSets

CONSTANTS
  Kinds,           \* the kinds of request a page may post, a subset of AllKinds
  Sizes,           \* subset of BOOLEAN: TRUE is a request text of at most 4096 bytes
  MaxPosts,        \* bound on the requests posted over all documents
  MaxNavigations,  \* bound on the navigations of the window
  MaxEvents,       \* bound on the numbered events of the window
  PendingLimit,    \* pending calls of a page, and of a session (256 in both)
  OutputLimit,     \* counted output past which a discrete event fails (256)
  OutputGate,      \* counted output past which no state event is emitted (16)
  WorkerCapacity,  \* works the worker holds before it refuses one
  Timers           \* whether the 25 s / 30 s request clocks can run out

AllKinds == {"sync", "modal", "async", "file", "close", "input", "bad"}

ASSUME BridgeAssumption ==
  /\ Kinds \subseteq AllKinds
  /\ Sizes \subseteq BOOLEAN
  /\ {MaxPosts, MaxNavigations, PendingLimit, OutputLimit, OutputGate,
      WorkerCapacity} \subseteq Nat \ {0}
  /\ MaxEvents \in Nat
  /\ Timers \in BOOLEAN

Ids == 1 .. MaxPosts
Documents == 1 .. MaxNavigations  \* a document is the navigation that loaded it
NoDocument == 0
NotRunning == <<>>

\* What the page posts. "born" is the generation of the session at that moment,
\* which the code does not record.
Request == [id : Ids, kind : AllKinds \union {"hello"}, small : BOOLEAN,
            doc : Documents, born : Documents]
Call == [req : Request, gen : Documents]  \* a request tagged with Session::generation

\* Works of the worker: a request to parse, the encoding of an answer, a file
\* operation, a discrete event and a coalesced state event.
CallWork == [what : {"Parse", "Reply", "File"}, call : Call]
EventWork == [what : {"Push", "State"}, seq : 1 .. MaxEvents, gen : Documents]

VARIABLES
  \* Session and Runtime
  generation, ready, document, closing, overdue, failed, queue, running, asyncs,
  outstanding, outputPending, eventsPending, eventSeq, worker,
  \* the WebView and the page in it
  window, page, greeting, pending, started, expired, forgotten, posted, ipc,
  \* history
  ran, answers, seen

session == <<generation, ready, document>>
fate == <<closing, failed>>
counters == <<outstanding, outputPending>>
events == <<eventsPending, eventSeq, seen>>
client == <<greeting, pending, answers>>
clock == <<started, expired, forgotten>>
posts == <<page, posted, ipc>>
vars == <<session, fate, overdue, queue, running, asyncs, counters, events,
          worker, window, client, clock, posts, ran>>

Init ==
  /\ generation = 0 /\ ready = FALSE /\ document = NoDocument
  /\ closing = FALSE /\ overdue = FALSE /\ failed = "no"
  /\ queue = <<>> /\ running = NotRunning /\ asyncs = {} /\ worker = <<>>
  /\ outstanding = 0 /\ outputPending = 0 /\ eventsPending = 0 /\ eventSeq = 0
  /\ window = "open" /\ page = NoDocument /\ greeting = "none" /\ pending = {}
  /\ started = {} /\ expired = {} /\ forgotten = {} /\ posted = 0 /\ ipc = <<>>
  /\ ran = <<>> /\ answers = [id \in Ids |-> 0] /\ seen = <<>>

Alive == window \in {"open", "broken"}   \* Window::closed() is false
Dec(n) == IF n = 0 THEN 0 ELSE n - 1     \* if (counter) --counter
WorkGeneration(w) == IF w.what \in {"Push", "State"} THEN w.gen ELSE w.call.gen
Counted(w) == w.what # "Parse"           \* Work::counted_output

----------------------------------------------------------------------------
(* Ending a session *)

\* Runtime::fail, and the end of the session without a failure.
Fails(why) ==
  /\ closing' = TRUE
  /\ failed' = IF failed = "no" THEN why ELSE failed
Shuts(shut) == closing' = (closing \/ shut) /\ UNCHANGED failed

\* Work the worker accepts, or Runtime::fail: submit() refuses what does not fit.
Submits(w, shut) ==
  IF Len(worker) < WorkerCapacity
  THEN worker' = Append(worker, w) /\ outputPending' = outputPending + 1 /\ Shuts(shut)
  ELSE UNCHANGED <<worker, outputPending>> /\ Fails("worker_limit")

----------------------------------------------------------------------------
(* Answers *)

\* The page drops an answer for another document or for a call it gave up on;
\* the answer to its hello settles reaper.ready.
Deliver(req, current) ==
  LET mine == page = req.doc /\ req.id \in pending IN
  /\ answers' = [answers EXCEPT ![req.id] = @ + 1]
  /\ pending' = IF mine THEN pending \ {req.id} ELSE pending
  /\ greeting' = IF mine /\ req.kind = "hello"
                 THEN IF current = req.doc THEN "ok" ELSE "refused"
                 ELSE greeting

\* Mutant: inline delivery overtakes counted output.
MayInlineAnyway(gen) == gen = generation /\ Alive

\* deliver_inline: a small answer, when no reliable output is ahead of it.
MayInline(gen) == outputPending = 0 /\ gen = generation /\ Alive

\* Runtime::reply. "out" is the value of Session::outstanding so far, "current"
\* the document of the session, "shut" whether the call closed the session.
\* Whether the answer is small enough to be sent inline is free.
Reply(call, out, current, shut) ==
  \/ /\ MayInline(call.gen)
     /\ IF window = "broken"
        THEN Fails("webview") /\ outstanding' = out /\ UNCHANGED client
        ELSE /\ Deliver(call.req, current)
             /\ outstanding' = Dec(out)
             /\ Shuts(shut)
     /\ UNCHANGED <<worker, outputPending>>
  \/ /\ Submits([what |-> "Reply", call |-> call], shut)
     /\ outstanding' = out
     /\ UNCHANGED client

----------------------------------------------------------------------------
(* The page *)

\* send() of reaper.js: at most PendingLimit calls are pending.
Posts(kind, small) ==
  /\ window = "open" /\ page # NoDocument
  /\ posted < MaxPosts
  /\ Cardinality(pending) < PendingLimit
  /\ posted' = posted + 1
  /\ pending' = pending \union {posted + 1}
  /\ ipc' = Append(ipc, [id |-> posted + 1, kind |-> kind, small |-> small,
                         doc |-> page, born |-> generation])

\* The runtime script greets as soon as the document exists.
PostHello ==
  /\ greeting = "none"
  /\ Posts("hello", TRUE)
  /\ greeting' = "asked"
  /\ UNCHANGED <<session, fate, overdue, queue, running, asyncs, counters, events,
                 worker, window, answers, clock, page, ran>>

\* Every other call waits for the handshake (ready.then in call()).
Post ==
  /\ greeting = "ok"
  /\ \E kind \in Kinds, small \in Sizes : Posts(kind, small)
  /\ UNCHANGED <<session, fate, overdue, queue, running, asyncs, counters, events,
                 worker, window, greeting, answers, clock, page, ran>>

\* 25 s passed since the request was posted (expiresAt, and Work::received).
Expire(id) ==
  /\ Timers /\ id \in pending \ (started \union expired)
  /\ expired' = expired \union {id}
  /\ UNCHANGED <<session, fate, overdue, queue, running, asyncs, counters, events,
                 worker, window, client, started, forgotten, posts, ran>>

\* 30 s passed: the page rejects the call with TIMEOUT, unless it has started.
PageTimeout(id) ==
  /\ id \in (pending \intersect expired) \ started
  /\ pending' = pending \ {id}
  /\ forgotten' = forgotten \union {id}
  /\ greeting' = IF greeting = "asked" THEN "refused" ELSE greeting
  /\ UNCHANGED <<session, fate, overdue, queue, running, asyncs, counters, events,
                 worker, window, answers, started, expired, posts, ran>>

----------------------------------------------------------------------------
(* Receive: the WebView's message callback, also inside a modal call *)

Stale(req) == req.doc # document \/ req.id \in expired

\* ReaWeb_ServiceSend to a registered input method does not wait for the timer.
FastPath(req) == ready /\ req.small /\ req.kind = "input"

ReceiveInput(req) ==
  /\ ran' = IF Stale(req) THEN ran ELSE Append(ran, [req |-> req, gen |-> generation])
  /\ Reply([req |-> req, gen |-> generation], outstanding + 1, document, FALSE)
  /\ UNCHANGED queue

\* Mutant: a small request does not wait for the one being parsed.
ParsesSmall(req) == req.small /\ req.kind # "bad"

\* A small request is parsed here when nothing is pending, so that it cannot
\* overtake a larger one that the worker still parses.
ParsesInline(req) == outstanding = 0 /\ req.small /\ req.kind # "bad"

ReceiveRequest(req) ==
  /\ IF ParsesInline(req)
     THEN /\ queue' = Append(queue, [req |-> req, gen |-> generation])
          /\ outstanding' = outstanding + 1
          /\ UNCHANGED <<worker, fate>>
     ELSE IF Len(worker) < WorkerCapacity
     THEN /\ worker' = Append(worker, [what |-> "Parse",
                                       call |-> [req |-> req, gen |-> generation]])
          /\ outstanding' = outstanding + 1
          /\ UNCHANGED <<queue, fate>>
     ELSE Fails("worker_limit") /\ UNCHANGED <<queue, worker, outstanding>>
  /\ UNCHANGED <<outputPending, client, ran>>

Receive ==
  /\ Alive /\ ipc # <<>>
  /\ ipc' = Tail(ipc)
  /\ IF closing
     THEN UNCHANGED <<fate, queue, counters, worker, client, ran>>
     ELSE IF outstanding >= PendingLimit
     THEN /\ Fails("queue_limit")
          /\ UNCHANGED <<queue, counters, worker, client, ran>>
     ELSE IF FastPath(Head(ipc)) THEN ReceiveInput(Head(ipc))
     ELSE ReceiveRequest(Head(ipc))
  /\ UNCHANGED <<session, overdue, running, asyncs, events, window, clock,
                 page, posted>>

----------------------------------------------------------------------------
(* Navigation *)

\* Runtime::navigate: the WebView starts to load a document.  The old one keeps
\* running, and may post, until the new one is committed.
Navigate ==
  /\ window = "open" /\ generation < MaxNavigations
  /\ generation' = generation + 1
  /\ ready' = FALSE /\ document' = NoDocument
  /\ queue' = <<>>
  /\ outstanding' = 0 /\ outputPending' = 0 /\ eventsPending' = 0
  /\ UNCHANGED <<fate, overdue, running, asyncs, eventSeq, seen, worker, window,
                 client, clock, posts, ran>>

Commit ==
  /\ window = "open" /\ page # generation
  /\ page' = generation /\ greeting' = "none" /\ pending' = {}
  /\ UNCHANGED <<session, fate, overdue, queue, running, asyncs, counters, events,
                 worker, window, answers, clock, posted, ipc, ran>>

----------------------------------------------------------------------------
(* Runtime::tick. running # NotRunning stands for ticking_ *)

\* A work of a document that was replaced, or of a window that is gone, is dropped.
Dropped(w) == WorkGeneration(w) # generation \/ ~Alive

TakeRequest(w) ==
  /\ queue' = IF closing THEN queue ELSE Append(queue, w.call)
  /\ UNCHANGED <<fate, counters, eventsPending, client, seen>>

\* Work::Script: an event, an answer, or the worker's own answer to a request it
\* could not parse.  The counters follow even when the script cannot be run.
TakeScript(w) ==
  /\ IF window = "broken"
     THEN Fails("webview") /\ UNCHANGED <<client, seen>>
     ELSE /\ UNCHANGED fate
          /\ IF w.what \in {"Push", "State"}
             THEN seen' = Append(seen, w.seq) /\ UNCHANGED client
             ELSE Deliver(w.call.req, document) /\ UNCHANGED seen
  /\ outstanding' = IF w.what \in {"Push", "State"} THEN outstanding ELSE Dec(outstanding)
  /\ outputPending' = IF Counted(w) THEN Dec(outputPending) ELSE outputPending
  /\ eventsPending' = IF w.what = "State" THEN Dec(eventsPending) ELSE eventsPending
  /\ UNCHANGED queue

Take ==
  /\ running = NotRunning /\ worker # <<>>
  /\ worker' = Tail(worker)
  /\ LET w == Head(worker) IN
     IF Dropped(w) THEN UNCHANGED <<fate, queue, counters, eventsPending, client, seen>>
     ELSE IF w.what = "Parse" /\ w.call.req.kind # "bad" THEN TakeRequest(w)
     ELSE TakeScript(w)
  /\ UNCHANGED <<session, overdue, running, asyncs, eventSeq, window, clock, posts, ran>>

\* Mutant: the age of a request is not looked at.
RefusedByDocument(req) ==
  IF req.kind = "hello" THEN ready /\ document # req.doc
                        ELSE ~ready \/ document # req.doc

\* What dispatch_requests checks before it runs a request: the age of the request,
\* and that it comes from the document that greeted.
Refused(req) ==
  \/ req.id \in expired
  \/ IF req.kind = "hello" THEN ready /\ document # req.doc
                           ELSE ~ready \/ document # req.doc

\* Mutant: a refused request is dropped without an answer.
DropRefused(call) ==
  UNCHANGED <<ready, document, running, asyncs, started, ran, fate, counters, worker, client>>

DispatchRefused(call) ==
  /\ Reply(call, outstanding, document, FALSE)
  /\ UNCHANGED <<ready, document, running, asyncs, started, ran>>

DispatchHello(call) ==
  /\ ready' = TRUE /\ document' = call.req.doc
  /\ ran' = Append(ran, call)
  /\ Reply(call, outstanding, call.req.doc, FALSE)
  /\ UNCHANGED <<running, asyncs, started>>

\* start_async: a file operation is a work of its own whose script is the answer.
StartFile(call) ==
  IF Len(worker) < WorkerCapacity
  THEN /\ worker' = Append(worker, [what |-> "File", call |-> call])
       /\ outputPending' = outputPending + 1
       /\ UNCHANGED <<outstanding, client, fate>>
  ELSE Reply(call, outstanding, document, FALSE)

\* The page is told that the call started, then the call runs.
DispatchCall(call) ==
  /\ started' = IF page = call.req.doc THEN started \union {call.req.id} ELSE started
  /\ ran' = Append(ran, call)
  /\ CASE call.req.kind = "modal" ->
            running' = call /\ UNCHANGED <<asyncs, worker, counters, client, fate>>
       [] call.req.kind = "async" ->
            asyncs' = asyncs \union {call} /\ UNCHANGED <<running, worker, counters, client, fate>>
       [] call.req.kind = "file" -> StartFile(call) /\ UNCHANGED <<running, asyncs>>
       [] OTHER ->
            /\ Reply(call, outstanding, document, call.req.kind = "close")
            /\ UNCHANGED <<running, asyncs>>
  /\ UNCHANGED <<ready, document>>

Dispatch ==
  /\ running = NotRunning /\ ~closing /\ Alive /\ queue # <<>>
  /\ queue' = Tail(queue)
  /\ LET call == Head(queue) IN
     IF Refused(call.req) THEN DispatchRefused(call)
     ELSE IF call.req.kind = "hello" THEN DispatchHello(call)
     ELSE IF window = "broken" THEN DispatchRefused(call)
     ELSE DispatchCall(call)
  /\ UNCHANGED <<generation, overdue, events, window, expired, forgotten, posts>>

\* A modal call returns, and is answered whatever happened to the page meanwhile.
Return ==
  /\ running # NotRunning
  /\ running' = NotRunning
  /\ Reply(running, outstanding, document, FALSE)
  /\ UNCHANGED <<session, overdue, queue, asyncs, events, window, clock, posts, ran>>

\* Mutants: a completion is not forgotten, or not compared with the generation.
CompleteAgain(call) ==
  /\ call \in asyncs
  /\ IF closing \/ ~Alive \/ call.gen # generation
     THEN UNCHANGED <<fate, counters, worker, client>>
     ELSE Reply(call, outstanding, document, FALSE)
  /\ UNCHANGED <<session, overdue, queue, running, asyncs, events, window, clock, posts, ran>>
CompleteOldPage(call) ==
  /\ call \in asyncs
  /\ asyncs' = asyncs \ {call}
  /\ IF closing \/ ~Alive
     THEN UNCHANGED <<fate, counters, worker, client>>
     ELSE Reply(call, outstanding, document, FALSE)
  /\ UNCHANGED <<session, overdue, queue, running, events, window, clock, posts, ran>>

\* The completion of a service, desktop, icon or audio call.
Complete(call) ==
  /\ call \in asyncs
  /\ asyncs' = asyncs \ {call}
  /\ IF closing \/ ~Alive \/ call.gen # generation
     THEN UNCHANGED <<fate, counters, worker, client>>
     ELSE Reply(call, outstanding, document, FALSE)
  /\ UNCHANGED <<session, overdue, queue, running, events, window, clock, posts, ran>>

\* A discrete event: a service event, a timer, a file change or a drop.
PushEvent ==
  /\ ready /\ ~closing /\ Alive /\ eventSeq < MaxEvents
  /\ eventSeq' = eventSeq + 1
  /\ IF outputPending >= OutputLimit
     THEN Fails("event_limit") /\ UNCHANGED <<worker, outputPending>>
     ELSE Submits([what |-> "Push", seq |-> eventSeq + 1, gen |-> generation], FALSE)
  /\ UNCHANGED <<session, overdue, queue, running, asyncs, outstanding, eventsPending,
                 seen, window, client, clock, posts, ran>>

\* The state event of a tick, emitted once the previous one drained.
StateEvent ==
  /\ running = NotRunning /\ ready /\ ~closing /\ Alive /\ eventSeq < MaxEvents
  /\ eventsPending = 0 /\ outputPending < OutputGate
  /\ eventSeq' = eventSeq + 1
  /\ \/ /\ MayInline(generation)
        /\ IF window = "broken" THEN Fails("webview") /\ UNCHANGED seen
           ELSE seen' = Append(seen, eventSeq + 1) /\ UNCHANGED fate
        /\ UNCHANGED <<worker, outputPending, eventsPending>>
     \/ /\ Submits([what |-> "State", seq |-> eventSeq + 1, gen |-> generation], FALSE)
        /\ eventsPending' = IF Len(worker) < WorkerCapacity THEN 1 ELSE 0
        /\ UNCHANGED seen
  /\ UNCHANGED <<session, overdue, queue, running, asyncs, outstanding, window, client,
                 clock, posts, ran>>

----------------------------------------------------------------------------
(* The end of the window *)

\* Runtime::close without cleanup listeners (Lifecycle.tla has the others).
Close ==
  /\ ~closing /\ Alive
  /\ Shuts(TRUE)
  /\ UNCHANGED <<session, overdue, queue, running, asyncs, counters, events, worker,
                 window, client, clock, posts, ran>>

\* From here on Window::evaluate throws.
Break ==
  /\ window = "open"
  /\ window' = "broken"
  /\ UNCHANGED <<session, fate, overdue, queue, running, asyncs, counters, events,
                 worker, client, clock, posts, ran>>

\* The native window is destroyed or its process died: Window::closed() is true.
Vanish ==
  /\ Alive
  /\ window' = "gone"
  /\ UNCHANGED <<session, fate, overdue, queue, running, asyncs, counters, events,
                 worker, client, clock, posts, ran>>

\* 250 ms passed since closing_since.
Overdue ==
  /\ closing /\ ~overdue
  /\ overdue' = TRUE
  /\ UNCHANGED <<session, fate, queue, running, asyncs, counters, events, worker,
                 window, client, clock, posts, ran>>

\* A document that does not greet within 30 s fails the window.
ReadyTimeout ==
  /\ running = NotRunning /\ ~ready /\ ~closing /\ Alive
  /\ Fails("not_ready")
  /\ UNCHANGED <<session, overdue, queue, running, asyncs, counters, events, worker,
                 window, client, clock, posts, ran>>

\* Mutant: a close does not wait for its output.
EraseAtOnce == window = "gone" \/ closing

\* A close waits a bounded time for the output it counted.
MayErase == window = "gone" \/ (closing /\ (outputPending = 0 \/ overdue))

Teardown ==
  /\ running = NotRunning /\ window # "erased" /\ MayErase
  /\ window' = "erased"
  /\ pending' = {}
  /\ UNCHANGED <<session, fate, overdue, queue, running, asyncs, counters, events,
                 worker, greeting, answers, clock, posts, ran>>

Next ==
  \/ PostHello \/ Post \/ (\E id \in Ids : Expire(id) \/ PageTimeout(id))
  \/ Receive \/ Navigate \/ Commit
  \/ Take \/ Dispatch \/ Return \/ (\E call \in asyncs : Complete(call))
  \/ PushEvent \/ StateEvent
  \/ Close \/ Break \/ Vanish \/ Overdue \/ ReadyTimeout \/ Teardown

Spec == Init /\ [][Next]_vars

\* The WebView delivers what was posted and commits what it loads; the host timer
\* keeps running each stage of tick(); native calls return and services answer
\* (30 s at the latest); the clocks of a window that
\* closes or waits for its page advance.
Fairness ==
  /\ WF_vars(PostHello) /\ WF_vars(Receive) /\ WF_vars(Commit)
  /\ WF_vars(Take) /\ WF_vars(Dispatch) /\ WF_vars(Return)
  /\ WF_vars(\E call \in asyncs : Complete(call))
  /\ WF_vars(Overdue) /\ WF_vars(ReadyTimeout) /\ WF_vars(Teardown)

FairSpec == Spec /\ Fairness

----------------------------------------------------------------------------
(* Properties *)

\* The variables have their types.
TypeOK ==
  /\ generation \in 0 .. MaxNavigations /\ page \in 0 .. MaxNavigations
  /\ ready \in BOOLEAN /\ document \in Documents \union {NoDocument}
  /\ closing \in BOOLEAN /\ overdue \in BOOLEAN
  /\ failed \in {"no", "queue_limit", "worker_limit", "event_limit", "webview",
                "not_ready"}
  /\ window \in {"open", "broken", "gone", "erased"}
  /\ queue \in Seq(Call) /\ ran \in Seq(Call) /\ ipc \in Seq(Request)
  /\ running \in Call \union {NotRunning} /\ asyncs \subseteq Call
  /\ worker \in Seq(CallWork \union EventWork)
  /\ {outstanding, outputPending, eventsPending} \subseteq Nat
  /\ eventSeq \in 0 .. MaxEvents /\ seen \in Seq(1 .. MaxEvents)
  /\ greeting \in {"none", "asked", "ok", "refused"}
  /\ pending \subseteq Ids /\ started \subseteq Ids
  /\ expired \subseteq Ids /\ forgotten \subseteq Ids
  /\ posted \in 0 .. MaxPosts /\ answers \in [Ids -> Nat]

\* Requests run in the order the page posted them, each at most once: a small
\* request parsed inline never overtakes a large one the worker parses.  Only
\* the input messages of the fast path run ahead of what is queued.
RunsInOrder ==
  /\ \A i, j \in DOMAIN ran :
       i < j /\ "input" \notin {ran[i].req.kind, ran[j].req.kind} => ran[i].req.id < ran[j].req.id
  /\ \A i, j \in DOMAIN ran : ran[i].req.id = ran[j].req.id => i = j

\* No request is answered twice, whatever crosses it: inline or encoded answers,
\* late completions, navigations during a modal call, refusals.
AnsweredOnce == \A id \in Ids : answers[id] <= 1

\* Session::outstanding, which the pending limit, the inline parse and the idle
\* pool read, counts the requests of this generation that still owe an answer.
Owed ==
  {w.call.req.id : w \in {v \in {worker[i] : i \in DOMAIN worker} :
                            v.what \in {"Parse", "Reply", "File"} /\ v.call.gen = generation}}
  \union {queue[i].req.id : i \in DOMAIN queue}
  \union {call.req.id : call \in {c \in asyncs \union (IF running = NotRunning THEN {} ELSE {running}) :
                                    c.gen = generation}}
OutstandingExact == (~closing /\ window \in {"open", "broken"}) => outstanding = Cardinality(Owed)

\* Session::output_pending covers every counted output of this generation in the
\* worker, so that nothing is delivered inline ahead of it.  It exceeds that count
\* by at most one: the answer of a modal call whose document was replaced is
\* encoded for the old generation but counted for the new one, and never given back.
CountedOutput == {i \in DOMAIN worker : Counted(worker[i]) /\ WorkGeneration(worker[i]) = generation}
OutputCovered ==
  window \in {"open", "broken"} =>
    outputPending - Cardinality(CountedOutput) \in {0, 1}

\* Both counters of a session mean what the limits, the inline parse and the order of
\* the output take them for.
CountersExact == TypeOK /\ OutstandingExact /\ OutputCovered

\* Numbered events reach the page in the order of their numbers, which is what
\* lets it drop an event whose number it has passed.
EventsInOrder == \A i, j \in DOMAIN seen : i < j => seen[i] < seen[j]

\* A call the page gave up on with TIMEOUT has not run and never will: the native
\* queue expires a request before the page's watchdog does.
NoLateExecution ==
  [][\A i \in DOMAIN ran' : ran'[i].req.id \in forgotten => i \in DOMAIN ran]_vars

\* A window that closes in time has delivered, or lost with its WebView, all the
\* output it counted: the answer to the call that closed it is not destroyed.
CloseFlushes ==
  [][(window' = "erased" /\ Alive /\ ~overdue)
       => CountedOutput = {}]_vars

\* A page that keeps to its limit of pending calls is not failed for exceeding it.
PageLimitProtects == failed # "queue_limit"

\* No request runs that was posted before the latest navigation started.
ReloadInvalidates == \A i \in DOMAIN ran : ran[i].req.born = ran[i].gen

\* Every call is settled, or its page goes away.
CallsSettle == \A id \in Ids : (id \in pending) ~> (id \notin pending)

=============================================================================
