---------------------------- MODULE BridgeProofs ----------------------------
(***************************************************************************)
(* What the bridge of a page window guarantees for any number of requests, *)
(* documents and events, and any limits.  The argument is layered: types   *)
(* and generations, then the place each request is in, then what the two   *)
(* counters of the session count, then the order of events and requests.   *)
(***************************************************************************)
EXTENDS Bridge, SequenceTheorems, FunctionTheorems, FiniteSetTheorems, TLAPS

Works == CallWork \union EventWork
FailedValue == {"no", "queue_limit", "worker_limit", "event_limit", "webview", "not_ready"}
IsCall(w) == w.what \in {"Parse", "Reply", "File"}
ReplyWork(call) == [what |-> "Reply", call |-> call]

-----------------------------------------------------------------------------
(* Sequences: how the prover sees a queue grow and shrink *)

LEMMA AppendFacts ==
  ASSUME NEW S, NEW q \in Seq(S), NEW e \in S
  PROVE  /\ Append(q, e) \in Seq(S) /\ Len(q) \in Nat
         /\ DOMAIN q = 1 .. Len(q) /\ DOMAIN Append(q, e) = 1 .. Len(q) + 1
         /\ \A i \in 1 .. Len(q) : Append(q, e)[i] = q[i]
         /\ Append(q, e)[Len(q) + 1] = e
  BY AppendProperties, LenProperties

LEMMA TailFacts ==
  ASSUME NEW S, NEW q \in Seq(S), q # <<>>
  PROVE  /\ Head(q) \in S /\ Head(q) = q[1] /\ Len(q) \in Nat \ {0}
         /\ Tail(q) \in Seq(S)
         /\ DOMAIN q = 1 .. Len(q) /\ DOMAIN Tail(q) = 1 .. Len(q) - 1
         /\ \A i \in 1 .. Len(q) - 1 : Tail(q)[i] = q[i + 1]
<1>1. /\ Tail(q) \in Seq(S) /\ Len(Tail(q)) = Len(q) - 1 /\ Head(q) \in S
      /\ \A i \in 1 .. Len(Tail(q)) : Tail(q)[i] = q[i + 1]
  BY HeadTailProperties
<1>2. Len(q) \in Nat \ {0} /\ DOMAIN q = 1 .. Len(q)
  BY EmptySeq, LenProperties
<1>3. DOMAIN Tail(q) = 1 .. Len(Tail(q))
  BY <1>1, LenProperties
<1> QED BY <1>1, <1>2, <1>3

LEMMA ElementFacts ==
  ASSUME NEW S, NEW q \in Seq(S)
  PROVE  /\ DOMAIN q = 1 .. Len(q) /\ Len(q) \in Nat
         /\ \A i \in DOMAIN q : q[i] \in S
  BY LenProperties, ElementOfSeq

-----------------------------------------------------------------------------
(* Replies: what Reply does to what the invariants are about *)

Inlines(call, out, shut) ==
  /\ call.gen = generation /\ Alive /\ outputPending = 0
  /\ answers' = [answers EXCEPT ![call.req.id] = @ + 1]
  /\ outstanding' = Dec(out)
  /\ closing' = (closing \/ shut)
  /\ UNCHANGED <<worker, outputPending>>

Encodes(call, out, shut) ==
  /\ worker' = Append(worker, ReplyWork(call))
  /\ outputPending' = outputPending + 1
  /\ outstanding' = out
  /\ closing' = (closing \/ shut)
  /\ UNCHANGED answers

GivesUp(out) ==
  /\ closing' = TRUE
  /\ outstanding' = out
  /\ UNCHANGED <<worker, outputPending, answers>>

\* An answer is delivered at once, encoded by the worker, or the session fails.
LEMMA ReplyIs ==
  ASSUME NEW call, NEW out, NEW current, NEW shut, Reply(call, out, current, shut)
  PROVE  Inlines(call, out, shut) \/ Encodes(call, out, shut) \/ GivesUp(out)
  BY DEF Reply, MayInline, Submits, Fails, Shuts, Deliver, client, Inlines, Encodes, GivesUp, ReplyWork

LEMMA ReplyWorkType ==
  ASSUME NEW call \in Call
  PROVE  /\ ReplyWork(call) \in Works /\ IsCall(ReplyWork(call)) /\ Counted(ReplyWork(call))
         /\ ReplyWork(call).call = call /\ ReplyWork(call).what = "Reply"
         /\ WorkGeneration(ReplyWork(call)) = call.gen
  BY DEF ReplyWork, Works, CallWork, IsCall, Counted, WorkGeneration

\* The types, as the proofs cite them.
LEMMA Types ==
  ASSUME TypeOK
  PROVE  /\ worker \in Seq(Works) /\ queue \in Seq(Call) /\ ran \in Seq(Call) /\ ipc \in Seq(Request)
         /\ running \in Call \union {NotRunning} /\ asyncs \subseteq Call
         /\ outstanding \in Nat /\ outputPending \in Nat /\ eventsPending \in Nat
         /\ closing \in BOOLEAN /\ failed \in FailedValue
         /\ answers \in [Ids -> Nat] /\ posted \in 0 .. MaxPosts /\ MaxPosts \in Nat
         /\ eventSeq \in 0 .. MaxEvents /\ seen \in Seq(1 .. MaxEvents) /\ MaxEvents \in Nat
         /\ generation \in 0 .. MaxNavigations /\ page \in 0 .. MaxNavigations /\ MaxNavigations \in Nat
<1>1. worker \in Seq(Works)
  BY DEF TypeOK, Works
<1>2. outstanding \in Nat /\ outputPending \in Nat /\ eventsPending \in Nat
  BY DEF TypeOK
<1>3. failed \in FailedValue
  BY DEF TypeOK, FailedValue
<1>4. MaxPosts \in Nat /\ MaxEvents \in Nat /\ MaxNavigations \in Nat
  BY BridgeAssumption
<1>5. QED
  BY <1>1, <1>2, <1>3, <1>4 DEF TypeOK

LEMMA DecType == \A n \in Nat : Dec(n) \in Nat /\ (n # 0 => Dec(n) = n - 1)
  BY DEF Dec

LEMMA SubmitsType ==
  ASSUME TypeOK, NEW w \in Works, NEW shut \in BOOLEAN, Submits(w, shut)
  PROVE  worker' \in Seq(Works) /\ outputPending' \in Nat /\ closing' \in BOOLEAN /\ failed' \in FailedValue
<1>1. Append(worker, w) \in Seq(Works)
  BY Types, AppendFacts
<1>2. worker' \in Seq(Works) /\ outputPending' \in Nat
  <2>1. worker' = Append(worker, w) \/ worker' = worker
    BY DEF Submits
  <2>2. outputPending' = outputPending + 1 \/ outputPending' = outputPending
    BY DEF Submits
  <2>3. outputPending \in Nat /\ worker \in Seq(Works)
    BY Types
  <2>4. QED
    BY <1>1, <2>1, <2>2, <2>3
<1>3. failed' \in FailedValue
  BY Types DEF Submits, Fails, Shuts, FailedValue
<1>4. closing' \in BOOLEAN
  <2>2. (closing \/ shut) \in BOOLEAN /\ TRUE \in BOOLEAN
    OBVIOUS
  <2>3. closing' = TRUE \/ closing' = (closing \/ shut)
    BY DEF Submits, Fails, Shuts
  <2>4. QED
    BY <2>2, <2>3
<1>5. QED
  BY <1>2, <1>3, <1>4

LEMMA DeliverType ==
  ASSUME TypeOK, NEW req \in Request, NEW current, Deliver(req, current)
  PROVE  pending' \subseteq Ids /\ greeting' \in {"none", "asked", "ok", "refused"}
         /\ answers' \in [Ids -> Nat]
<1>1. /\ answers \in [Ids -> Nat] /\ req.id \in Ids /\ pending \subseteq Ids
      /\ greeting \in {"none", "asked", "ok", "refused"}
  BY DEF TypeOK, Request
<1>2. answers' = [answers EXCEPT ![req.id] = @ + 1] /\ pending' \subseteq pending
  BY DEF Deliver
<1>3. greeting' \in {"ok", "refused", greeting}
  BY DEF Deliver
<1>4. QED
  BY <1>1, <1>2, <1>3

LEMMA ReplyType ==
  ASSUME TypeOK, NEW call \in Call, NEW out \in Nat, NEW current, NEW shut \in BOOLEAN,
         Reply(call, out, current, shut)
  PROVE  /\ worker' \in Seq(Works) /\ outputPending' \in Nat /\ closing' \in BOOLEAN
         /\ failed' \in FailedValue /\ outstanding' \in Nat
         /\ pending' \subseteq Ids /\ greeting' \in {"none", "asked", "ok", "refused"}
         /\ answers' \in [Ids -> Nat]
<1>0. worker \in Seq(Works) /\ call.req \in Request /\ Dec(out) \in Nat
  BY DecType DEF TypeOK, Works, Call
<1>1. CASE Submits(ReplyWork(call), shut) /\ outstanding' = out /\ UNCHANGED client
  BY <1>1, SubmitsType, ReplyWorkType DEF TypeOK, client
<1>2. CASE UNCHANGED <<worker, outputPending>> /\ Fails("webview") /\ outstanding' = out /\ UNCHANGED client
  BY <1>0, <1>2 DEF TypeOK, client, Fails, FailedValue
<1>3. CASE /\ UNCHANGED <<worker, outputPending>> /\ Deliver(call.req, current)
           /\ outstanding' = Dec(out) /\ Shuts(shut)
  BY <1>0, <1>3, DeliverType DEF TypeOK, Shuts, FailedValue
<1>4. QED
  BY <1>1, <1>2, <1>3 DEF Reply, ReplyWork

-----------------------------------------------------------------------------
(* Layer 1: types, and generations that never run ahead of the session's. *)

Held == asyncs \union (IF running = NotRunning THEN {} ELSE {running})

\* No document or work is of a generation to come; a queued call is of the present one.
Current ==
  /\ page <= generation
  /\ ready \/ ipc # <<>> => generation # 0
  /\ \A i \in DOMAIN worker : WorkGeneration(worker[i]) <= generation
  /\ \A i \in DOMAIN queue : queue[i].gen = generation
  /\ \A call \in Held : call.gen <= generation

Typed == TypeOK /\ Current

LEMMA TypedInit == Init => Typed
<1> SUFFICES ASSUME Init PROVE Typed
  OBVIOUS
<1> USE BridgeAssumption DEF Init
<1>1. /\ queue \in Seq(Call) /\ ran \in Seq(Call) /\ ipc \in Seq(Request)
      /\ worker \in Seq(CallWork \cup EventWork) /\ seen \in Seq(1 .. MaxEvents)
  OBVIOUS
<1>2. generation \in 0 .. MaxNavigations /\ page \in 0 .. MaxNavigations /\ eventSeq \in 0 .. MaxEvents
      /\ posted \in 0 .. MaxPosts /\ document \in Documents \cup {NoDocument}
  BY DEF NoDocument
<1>3. answers \in [Ids -> Nat]
  OBVIOUS
<1>4. ready \in BOOLEAN /\ closing \in BOOLEAN /\ overdue \in BOOLEAN
  OBVIOUS
<1>5. TypeOK
  BY <1>1, <1>2, <1>3, <1>4 DEF TypeOK
<1>6. Current
  BY DEF Current, Held, NoDocument
<1>7. QED
  BY <1>5, <1>6 DEF Typed

\* Where a document is shown, a session has begun: its generation is a document.
LEMMA GenerationType ==
  ASSUME Typed, ready \/ ipc # <<>> \/ page # NoDocument
  PROVE  generation \in Documents
<1>1. generation \in 0 .. MaxNavigations /\ page \in 0 .. MaxNavigations /\ MaxNavigations \in Nat
  BY Types DEF Typed
<1>2. generation # 0
  BY <1>1 DEF Typed, Current, NoDocument
<1>3. QED
  BY <1>1, <1>2 DEF Documents

LEMMA PostsType ==
  ASSUME Typed, NEW kind \in AllKinds \union {"hello"}, NEW small \in BOOLEAN, Posts(kind, small)
  PROVE  /\ posted' = posted + 1 /\ posted' \in Ids /\ pending' \subseteq Ids
         /\ \E req \in Request : req.id = posted + 1 /\ ipc' = Append(ipc, req)
         /\ ipc' \in Seq(Request) /\ posted' \in 0 .. MaxPosts
<1>1. posted \in 0 .. MaxPosts /\ MaxPosts \in Nat /\ page \in 0 .. MaxNavigations /\ ipc \in Seq(Request)
      /\ MaxNavigations \in Nat
  BY Types DEF Typed
<1>2. posted < MaxPosts /\ page # NoDocument /\ posted' = posted + 1
  BY DEF Posts
<1>3. posted + 1 \in Ids /\ posted' \in 0 .. MaxPosts
  BY <1>1, <1>2 DEF Ids
<1>4. page \in Documents /\ generation \in Documents
  BY <1>1, <1>2, GenerationType DEF Documents, NoDocument
<1> DEFINE req == [id |-> posted + 1, kind |-> kind, small |-> small, doc |-> page, born |-> generation]
<1>5. req \in Request
  BY <1>3, <1>4 DEF Request
<1>6. ipc' = Append(ipc, req)
  BY DEF Posts
<1>7. ipc' \in Seq(Request)
  BY <1>1, <1>5, <1>6, AppendFacts
<1>8. pending' \subseteq Ids
  BY <1>3 DEF Posts, Typed, TypeOK
<1>9. QED
  BY <1>2, <1>3, <1>5, <1>6, <1>7, <1>8

LEMMA ReceiveType == Typed /\ Receive => TypeOK'
<1> SUFFICES ASSUME Typed, Receive PROVE TypeOK'
  OBVIOUS
<1> DEFINE req == Head(ipc)
           call == [req |-> req, gen |-> generation]
           work == [what |-> "Parse", call |-> call]
<1>1. req \in Request /\ ipc' \in Seq(Request) /\ generation \in Documents /\ ipc # <<>>
  BY Types, TailFacts, GenerationType DEF Receive, Typed
<1>2. call \in Call /\ work \in Works
  BY <1>1 DEF Call, CallWork, Works
<1>3. outstanding + 1 \in Nat /\ outstanding \in Nat
  BY Types DEF Typed
<1> USE DEF session, events, clock, fate, counters, client
<1>4. CASE closing \/ outstanding >= PendingLimit
  <2>1. UNCHANGED <<queue, counters, worker, client, ran>>
    BY <1>4 DEF Receive
  <2>2. closing' \in BOOLEAN /\ failed' \in FailedValue
    BY <1>4, Types DEF Receive, Typed, Fails, FailedValue
  <2>3. QED
    BY <1>1, <2>1, <2>2 DEF Receive, TypeOK, Typed, FailedValue
<1>5. CASE ~closing /\ ~(outstanding >= PendingLimit) /\ FastPath(req)
  <2>1. ReceiveInput(req)
    BY <1>5 DEF Receive
  <2>2. Reply(call, outstanding + 1, document, FALSE)
    BY <2>1 DEF ReceiveInput
  <2>3. /\ worker' \in Seq(Works) /\ outputPending' \in Nat /\ closing' \in BOOLEAN
        /\ failed' \in FailedValue /\ outstanding' \in Nat
        /\ pending' \subseteq Ids /\ greeting' \in {"none", "asked", "ok", "refused"}
        /\ answers' \in [Ids -> Nat]
    BY <1>2, <1>3, <2>2, ReplyType DEF Typed
  <2>4. ran' \in Seq(Call)
    BY <1>2, <2>1, Types, AppendFacts DEF ReceiveInput, Typed
  <2>5. QED
    BY <1>1, <2>1, <2>3, <2>4 DEF Receive, ReceiveInput, TypeOK, Typed, FailedValue, Works
<1>6. CASE ~closing /\ ~(outstanding >= PendingLimit) /\ ~FastPath(req)
  <2>1. ReceiveRequest(req)
    BY <1>6 DEF Receive
  <2>2. queue' \in Seq(Call)
    <3>1. queue' \in {queue, Append(queue, call)} /\ queue \in Seq(Call)
      BY <2>1, Types DEF ReceiveRequest, Typed
    <3>2. QED
      BY <1>2, <3>1, AppendFacts
  <2>3. worker' \in Seq(Works)
    <3>1. worker' \in {worker, Append(worker, work)} /\ worker \in Seq(Works)
      BY <2>1, Types DEF ReceiveRequest, Typed
    <3>2. QED
      BY <1>2, <3>1, AppendFacts
  <2>4. outstanding' \in Nat
    BY <1>3, <2>1 DEF ReceiveRequest
  <2>5. closing' \in BOOLEAN /\ failed' \in FailedValue
    BY <2>1, Types DEF ReceiveRequest, Typed, Fails, FailedValue
  <2>6. QED
    BY <1>1, <2>1, <2>2, <2>3, <2>4, <2>5 DEF Receive, ReceiveRequest, TypeOK, Typed, FailedValue, Works
<1>7. QED
  BY <1>4, <1>5, <1>6

LEMMA TakeType == Typed /\ Take => TypeOK'
<1> SUFFICES ASSUME Typed, Take PROVE TypeOK'
  OBVIOUS
<1> DEFINE w == Head(worker)
<1>1. w \in Works /\ worker' \in Seq(Works)
  BY Types, TailFacts DEF Take, Typed
<1> USE DEF session, events, clock, fate, counters, client, posts
<1>2. CASE Dropped(w)
  <2>1. UNCHANGED <<generation, ready, document, closing, failed, overdue, queue, running, asyncs, outstanding,
                    outputPending, eventsPending, eventSeq, seen, window, greeting, pending, answers,
                    started, expired, forgotten, page, posted, ipc, ran>>
    BY <1>2 DEF Take
  <2>2. QED
    BY <1>1, <2>1 DEF Typed, TypeOK, Works
<1>3. CASE ~Dropped(w) /\ w.what = "Parse" /\ w.call.req.kind # "bad"
  <2>1. TakeRequest(w)
    BY <1>3 DEF Take
  <2>2. w.call \in Call
    BY <1>1, <1>3 DEF Works, CallWork, EventWork
  <2>3. queue' \in Seq(Call)
    BY <2>1, <2>2, Types, AppendFacts DEF TakeRequest, Typed
  <2>4. UNCHANGED <<generation, ready, document, closing, failed, overdue, running, asyncs, outstanding,
                    outputPending, eventsPending, eventSeq, seen, window, greeting, pending, answers,
                    started, expired, forgotten, page, posted, ipc, ran>>
    BY <1>3, <2>1 DEF Take, TakeRequest
  <2>5. QED
    BY <1>1, <2>3, <2>4 DEF Typed, TypeOK, Works
<1>4. CASE ~Dropped(w) /\ ~(w.what = "Parse" /\ w.call.req.kind # "bad")
  <2>1. TakeScript(w)
    BY <1>4 DEF Take
  <2>2. outstanding' \in Nat /\ outputPending' \in Nat /\ eventsPending' \in Nat
    BY <2>1, Types, DecType DEF TakeScript, Typed
  <2>3. closing' \in BOOLEAN /\ failed' \in FailedValue
    BY <2>1, Types DEF TakeScript, Typed, Fails, FailedValue
  <2>4. /\ pending' \subseteq Ids /\ greeting' \in {"none", "asked", "ok", "refused"}
        /\ answers' \in [Ids -> Nat] /\ seen' \in Seq(1 .. MaxEvents)
    <3>1. CASE window = "broken"
      BY <2>1, <3>1 DEF TakeScript, Typed, TypeOK
    <3>2. CASE window # "broken" /\ w.what \in {"Push", "State"}
      <4>1. w.seq \in 1 .. MaxEvents
        BY <1>1, <3>2 DEF Works, CallWork, EventWork
      <4>2. seen' = Append(seen, w.seq) /\ UNCHANGED client
        BY <2>1, <3>2 DEF TakeScript
      <4>3. QED
        BY <4>1, <4>2, AppendFacts DEF Typed, TypeOK
    <3>3. CASE window # "broken" /\ w.what \notin {"Push", "State"}
      <4>1. w.call.req \in Request
        BY <1>1, <3>3 DEF Works, CallWork, EventWork, Call
      <4>2. Deliver(w.call.req, document) /\ UNCHANGED seen
        BY <2>1, <3>3 DEF TakeScript
      <4>3. QED
        BY <4>1, <4>2, DeliverType DEF Typed, TypeOK
    <3>4. QED
      BY <3>1, <3>2, <3>3
  <2>5. QED
    BY <1>1, <2>1, <2>2, <2>3, <2>4 DEF Take, TakeScript, Typed, TypeOK, Works, FailedValue
<1>5. QED
  BY <1>2, <1>3, <1>4

LEMMA DispatchType == Typed /\ Dispatch => TypeOK'
<1> SUFFICES ASSUME Typed, Dispatch PROVE TypeOK'
  OBVIOUS
<1> DEFINE call == Head(queue)
<1>0. call \in Call /\ queue' \in Seq(Call)
  BY Types, TailFacts DEF Dispatch, Typed
<1>1. call \in Call /\ queue' \in Seq(Call) /\ call.req \in Request
  BY <1>0 DEF Call
<1>2. call.req.id \in Ids /\ call.req.doc \in Documents /\ outstanding \in Nat
  BY <1>1, Types DEF Request, Typed
<1>3. ran \in Seq(Call) /\ Append(ran, call) \in Seq(Call)
  BY <1>1, Types, AppendFacts DEF Typed
<1> DEFINE Answer == /\ worker' \in Seq(Works) /\ outputPending' \in Nat /\ closing' \in BOOLEAN
                     /\ failed' \in FailedValue /\ outstanding' \in Nat
                     /\ pending' \subseteq Ids /\ greeting' \in {"none", "asked", "ok", "refused"}
                     /\ answers' \in [Ids -> Nat]
<1>4. ASSUME NEW current, NEW shut \in BOOLEAN, Reply(call, outstanding, current, shut) PROVE Answer
  BY <1>1, <1>2, <1>4, ReplyType DEF Typed
<1>5. ASSUME UNCHANGED <<worker, counters, client, fate>> PROVE Answer
  BY <1>5, Types DEF Typed, TypeOK, counters, client, fate
<1> USE DEF session, events, clock, posts
<1>6. CASE DispatchRefused(call)
  <2>1. Answer
    BY <1>4, <1>6 DEF DispatchRefused
  <2>2. QED
    BY <1>1, <1>6, <2>1 DEF Dispatch, DispatchRefused, Typed, TypeOK, Works, FailedValue
<1>7. CASE DispatchHello(call)
  <2>1. Answer
    BY <1>4, <1>7 DEF DispatchHello
  <2>2. QED
    BY <1>1, <1>2, <1>3, <1>7, <2>1 DEF Dispatch, DispatchHello, Typed, TypeOK, Works, FailedValue
<1>8. CASE DispatchCall(call)
  <2>1. Answer
    <3>1. CASE call.req.kind \in {"modal", "async"}
      BY <1>5, <1>8, <3>1 DEF DispatchCall, counters, client, fate
    <3>2. CASE call.req.kind = "file" /\ Len(worker) < WorkerCapacity
      <4>1. [what |-> "File", call |-> call] \in Works
        BY <1>1 DEF Works, CallWork
      <4>2. worker' = Append(worker, [what |-> "File", call |-> call])
            /\ outputPending' = outputPending + 1 /\ UNCHANGED <<outstanding, client, fate>>
        BY <1>8, <3>2 DEF DispatchCall, StartFile
      <4>3. worker' \in Seq(Works) /\ outputPending' \in Nat /\ outstanding' \in Nat
        <5>1. worker \in Seq(Works) /\ outputPending \in Nat /\ outstanding \in Nat
          BY Types DEF Typed
        <5>2. QED
          BY <4>1, <4>2, <5>1, AppendFacts
      <4>4. QED
        BY <4>2, <4>3, Types DEF Typed, TypeOK, client, fate
    <3>3. CASE call.req.kind = "file" /\ ~(Len(worker) < WorkerCapacity)
      BY <1>4, <1>8, <3>3 DEF DispatchCall, StartFile
    <3>4. CASE call.req.kind \notin {"modal", "async", "file"}
      BY <1>4, <1>8, <3>4 DEF DispatchCall
    <3>5. QED
      BY <3>1, <3>2, <3>3, <3>4
  <2>2. running' \in Call \union {NotRunning} /\ asyncs' \subseteq Call
    BY <1>1, <1>8, Types DEF DispatchCall, Typed
  <2>3. started' \subseteq Ids
    BY <1>2, <1>8 DEF DispatchCall, Typed, TypeOK
  <2>4. QED
    BY <1>1, <1>3, <1>8, <2>1, <2>2, <2>3 DEF Dispatch, DispatchCall, Typed, TypeOK, Works, FailedValue
<1>9. QED
  BY <1>6, <1>7, <1>8 DEF Dispatch

LEMMA EventType == Typed /\ (PushEvent \/ StateEvent) => TypeOK'
<1> SUFFICES ASSUME Typed, PushEvent \/ StateEvent PROVE TypeOK'
  OBVIOUS
<1>1. generation \in Documents /\ eventSeq + 1 \in 1 .. MaxEvents /\ eventSeq' = eventSeq + 1
  <2>1. ready /\ eventSeq < MaxEvents /\ eventSeq' = eventSeq + 1
    BY DEF PushEvent, StateEvent
  <2>2. eventSeq \in 0 .. MaxEvents /\ MaxEvents \in Nat
    BY Types DEF Typed
  <2>3. QED
    BY <2>1, <2>2, GenerationType
<1>0. eventSeq' \in 0 .. MaxEvents
  BY <1>1, Types DEF Typed
<1>2. /\ [what |-> "Push", seq |-> eventSeq + 1, gen |-> generation] \in Works
      /\ [what |-> "State", seq |-> eventSeq + 1, gen |-> generation] \in Works
  BY <1>1 DEF Works, EventWork
<1> USE DEF session, clock, client, posts
<1>3. CASE PushEvent
  <2>1. worker' \in Seq(Works) /\ outputPending' \in Nat /\ closing' \in BOOLEAN /\ failed' \in FailedValue
    <3>1. CASE outputPending >= OutputLimit
      BY <1>3, <3>1, Types DEF PushEvent, Fails, FailedValue, Typed
    <3>2. CASE ~(outputPending >= OutputLimit)
      BY <1>2, <1>3, <3>2, SubmitsType DEF PushEvent, Typed
    <3>3. QED
      BY <3>1, <3>2
  <2>2. QED
    BY <1>0, <1>3, <2>1 DEF PushEvent, Typed, TypeOK, Works, FailedValue
<1>4. CASE StateEvent
  <2>2. CASE UNCHANGED <<worker, outputPending, eventsPending>>
    <3>1. seen' \in Seq(1 .. MaxEvents)
      <4>1. seen' \in {seen, Append(seen, eventSeq + 1)} /\ seen \in Seq(1 .. MaxEvents)
        BY <1>4, <2>2, Types DEF StateEvent, Typed
      <4>2. Append(seen, eventSeq + 1) \in Seq(1 .. MaxEvents)
        BY <1>1, <4>1, AppendFacts
      <4>3. QED
        BY <4>1, <4>2
    <3>2. closing' \in BOOLEAN /\ failed' \in FailedValue
      <4>1. CASE Fails("webview")
        BY <4>1, Types DEF Fails, FailedValue, Typed
      <4>2. CASE UNCHANGED fate
        BY <4>2, Types DEF fate, Typed
      <4>3. CASE Submits([what |-> "State", seq |-> eventSeq + 1, gen |-> generation], FALSE)
        BY <1>2, <4>3, SubmitsType DEF Typed
      <4>4. QED
        BY <1>4, <4>1, <4>2, <4>3 DEF StateEvent
    <3>3. QED
      BY <1>0, <1>4, <2>2, <3>1, <3>2 DEF StateEvent, Typed, TypeOK, Works, FailedValue
  <2>3. CASE /\ Submits([what |-> "State", seq |-> eventSeq + 1, gen |-> generation], FALSE)
             /\ eventsPending' \in {0, 1} /\ UNCHANGED seen
    <3>1. worker' \in Seq(Works) /\ outputPending' \in Nat /\ closing' \in BOOLEAN /\ failed' \in FailedValue
      BY <1>2, <2>3, SubmitsType DEF Typed
    <3>2. UNCHANGED <<generation, ready, document, overdue, queue, running, asyncs, outstanding, window,
                      greeting, pending, answers, started, expired, forgotten, page, posted, ipc, ran>>
      BY <1>4 DEF StateEvent
    <3>3. {outstanding', outputPending', eventsPending'} \subseteq Nat
      BY <2>3, <3>1, <3>2 DEF Typed, TypeOK
    <3>4. seen' = seen
      BY <2>3
    <3>5. QED
      BY <1>0, <3>1, <3>2, <3>3, <3>4 DEF Typed, TypeOK, Works, FailedValue
  <2>4. QED
    BY <1>4, <2>2, <2>3 DEF StateEvent
<1>5. QED
  BY <1>3, <1>4

LEMMA TypeStep == Typed /\ [Next]_vars => TypeOK'
<1> SUFFICES ASSUME Typed, [Next]_vars PROVE TypeOK'
  OBVIOUS
<1> USE DEF vars, session, fate, counters, events, client, clock, posts
<1>1. CASE PostHello \/ Post
  <2>1. PICK kind \in AllKinds \union {"hello"}, small \in BOOLEAN : Posts(kind, small)
    BY <1>1, BridgeAssumption DEF PostHello, Post
  <2>2. ipc' \in Seq(Request) /\ posted' \in 0 .. MaxPosts /\ pending' \subseteq Ids
    BY <2>1, PostsType
  <2>3. greeting' \in {"none", "asked", "ok", "refused"}
    BY <1>1 DEF PostHello, Post, Typed, TypeOK
  <2>4. CASE PostHello
    BY <2>2, <2>3, <2>4 DEF PostHello, Typed, TypeOK
  <2>5. CASE Post
    BY <2>2, <2>3, <2>5 DEF Post, Typed, TypeOK
  <2>6. QED
    BY <1>1, <2>4, <2>5
<1>2. ASSUME NEW id \in Ids, Expire(id) \/ PageTimeout(id) PROVE TypeOK'
  <2>1. CASE Expire(id)
    BY <2>1 DEF Expire, Typed, TypeOK
  <2>2. CASE PageTimeout(id)
    BY <2>2 DEF PageTimeout, Typed, TypeOK
  <2>3. QED
    BY <1>2, <2>1, <2>2
<1>3. CASE Receive
  BY <1>3, ReceiveType
<1>4. CASE Navigate \/ Commit
  <2>1. CASE Navigate
    <3>1. generation' \in 0 .. MaxNavigations
      <4>1. generation' = generation + 1 /\ generation < MaxNavigations
        BY <2>1 DEF Navigate
      <4>2. generation \in 0 .. MaxNavigations /\ MaxNavigations \in Nat
        BY Types DEF Typed
      <4>3. QED
        BY <4>1, <4>2
    <3>2. queue' \in Seq(Call) /\ document' \in Documents \union {NoDocument}
      <4>1. queue' = <<>> /\ document' = NoDocument
        BY <2>1 DEF Navigate
      <4>2. QED
        BY <4>1
    <3>3. /\ ready' = FALSE /\ outstanding' = 0 /\ outputPending' = 0 /\ eventsPending' = 0
          /\ UNCHANGED <<fate, overdue, running, asyncs, eventSeq, seen, worker, window, client, clock, posts, ran>>
      BY <2>1 DEF Navigate
    <3>4. closing' \in BOOLEAN /\ overdue' \in BOOLEAN
      BY <3>3 DEF Typed, TypeOK
    <3>5. ready' \in BOOLEAN
      BY <3>3
    <3>6. {outstanding', outputPending', eventsPending'} \subseteq Nat
      BY <3>3
    <3>7. QED
      BY <3>1, <3>2, <3>3, <3>4, <3>5, <3>6 DEF Typed, TypeOK
  <2>2. CASE Commit
    BY <2>2 DEF Commit, Typed, TypeOK
  <2>3. QED
    BY <1>4, <2>1, <2>2
<1>5. CASE Take
  BY <1>5, TakeType
<1>6. CASE Dispatch
  BY <1>6, DispatchType
<1>7. CASE Return
  <2>1. running \in Call /\ outstanding \in Nat /\ running' = NotRunning
    BY <1>7, Types DEF Return, Typed
  <2>2. /\ worker' \in Seq(Works) /\ outputPending' \in Nat /\ closing' \in BOOLEAN
        /\ failed' \in FailedValue /\ outstanding' \in Nat
        /\ pending' \subseteq Ids /\ greeting' \in {"none", "asked", "ok", "refused"}
        /\ answers' \in [Ids -> Nat]
    BY <1>7, <2>1, ReplyType DEF Return, Typed
  <2>3. QED
    BY <1>7, <2>1, <2>2 DEF Return, Typed, TypeOK, Works, FailedValue
<1>8. ASSUME NEW call \in asyncs, Complete(call) PROVE TypeOK'
  <2>1. call \in Call /\ outstanding \in Nat
    BY Types DEF Typed
  <2>2. /\ worker' \in Seq(Works) /\ outputPending' \in Nat /\ closing' \in BOOLEAN
        /\ failed' \in FailedValue /\ outstanding' \in Nat
        /\ pending' \subseteq Ids /\ greeting' \in {"none", "asked", "ok", "refused"}
        /\ answers' \in [Ids -> Nat]
    <3>1. CASE UNCHANGED <<fate, counters, worker, client>>
      BY <3>1, Types DEF Typed, TypeOK
    <3>2. CASE Reply(call, outstanding, document, FALSE)
      BY <2>1, <3>2, ReplyType DEF Typed
    <3>3. QED
      BY <1>8, <3>1, <3>2 DEF Complete
  <2>3. QED
    BY <1>8, <2>2 DEF Complete, Typed, TypeOK, Works, FailedValue
<1>9. CASE PushEvent \/ StateEvent
  BY <1>9, EventType
<1>10. CASE Close
  <2>1. closing' \in BOOLEAN /\ failed' = failed
    BY <1>10 DEF Close, Shuts
  <2>2. QED
    BY <1>10, <2>1 DEF Close, Typed, TypeOK
<1>11. CASE Break \/ Vanish \/ Overdue
  <2>1. window' \in {window, "broken", "gone"} /\ overdue' \in BOOLEAN
    <3>1. overdue' = TRUE \/ overdue' = overdue
      BY <1>11 DEF Break, Vanish, Overdue
    <3>2. overdue' \in BOOLEAN
      BY <3>1, Zenon DEF Typed, TypeOK
    <3>3. QED
      BY <1>11, <3>2 DEF Break, Vanish, Overdue
  <2>2. UNCHANGED <<generation, ready, document, closing, failed, queue, running, asyncs, outstanding,
                    outputPending, eventsPending, eventSeq, seen, worker, greeting, pending, answers,
                    started, expired, forgotten, page, posted, ipc, ran>>
    BY <1>11 DEF Break, Vanish, Overdue
  <2>3. QED
    BY <2>1, <2>2 DEF Typed, TypeOK
<1>12. CASE ReadyTimeout
  BY <1>12 DEF ReadyTimeout, Fails, Typed, TypeOK
<1>13. CASE Teardown
  BY <1>13 DEF Teardown, Typed, TypeOK
<1>14. CASE UNCHANGED vars
  BY <1>14 DEF Typed, TypeOK
<1>15. QED
  BY <1>1, <1>2, <1>3, <1>4, <1>5, <1>6, <1>7, <1>8, <1>9, <1>10, <1>11, <1>12, <1>13, <1>14 DEF Next

\* A worker that drops its first work or takes one more holds no work of a
\* generation to come.
LEMMA OlderFacts ==
  ASSUME NEW q \in Seq(Works), NEW g \in Nat, \A i \in DOMAIN q : WorkGeneration(q[i]) <= g
  PROVE  /\ q # <<>> => WorkGeneration(Head(q)) <= g
                        /\ \A i \in DOMAIN Tail(q) : WorkGeneration(Tail(q)[i]) <= g
         /\ \A w \in Works : WorkGeneration(w) <= g
              => \A i \in DOMAIN Append(q, w) : WorkGeneration(Append(q, w)[i]) <= g
<1>1. ASSUME q # <<>>
      PROVE  WorkGeneration(Head(q)) <= g
             /\ \A i \in DOMAIN Tail(q) : WorkGeneration(Tail(q)[i]) <= g
  BY <1>1, TailFacts
<1>2. ASSUME NEW w \in Works, WorkGeneration(w) <= g, NEW i \in DOMAIN Append(q, w)
      PROVE  WorkGeneration(Append(q, w)[i]) <= g
  BY <1>2, AppendFacts
<1>3. QED
  BY <1>1, <1>2

\* An answer adds no work but its own encoding.
LEMMA ReplyOlder ==
  ASSUME Typed, NEW call \in Call, call.gen <= generation, UNCHANGED generation,
         NEW out, NEW current, NEW shut, Reply(call, out, current, shut)
  PROVE  \A i \in DOMAIN worker' : WorkGeneration(worker'[i]) <= generation'
<1>1. worker' \in {worker, Append(worker, ReplyWork(call))}
  BY ReplyIs DEF Inlines, Encodes, GivesUp
<1>2. worker \in Seq(Works) /\ generation \in Nat
  BY Types DEF Typed
<1>3. WorkGeneration(ReplyWork(call)) <= generation /\ ReplyWork(call) \in Works
  BY ReplyWorkType
<1>4. \A i \in DOMAIN worker : WorkGeneration(worker[i]) <= generation
  BY DEF Typed, Current
<1>5. \A i \in DOMAIN Append(worker, ReplyWork(call)) : WorkGeneration(Append(worker, ReplyWork(call))[i]) <= generation
  BY <1>2, <1>3, <1>4, OlderFacts
<1>6. QED
  BY <1>1, <1>4, <1>5

\* An event takes the next number; it is refused, sent at once or given to the worker.
LEMMA EventIs ==
  ASSUME Typed, PushEvent \/ StateEvent
  PROVE  /\ UNCHANGED <<generation, document, ready, page, ipc, posted, queue, running, asyncs, answers,
                        outstanding, ran, window>>
         /\ eventSeq' = eventSeq + 1
         /\ \E w \in EventWork :
              /\ w.gen = generation /\ w.seq = eventSeq + 1
              /\ w \in Works /\ ~IsCall(w) /\ Counted(w) /\ WorkGeneration(w) = generation
              /\ \/ worker' = worker /\ outputPending' = outputPending
                 \/ worker' = Append(worker, w) /\ outputPending' = outputPending + 1 /\ UNCHANGED seen
<1> DEFINE event(what) == [what |-> what, seq |-> eventSeq + 1, gen |-> generation]
<1>1. ready /\ eventSeq < MaxEvents
  BY DEF PushEvent, StateEvent
<1>2. generation \in Documents /\ eventSeq + 1 \in 1 .. MaxEvents
  <2>1. generation \in Documents
    BY <1>1, GenerationType
  <2>2. eventSeq \in 0 .. MaxEvents /\ MaxEvents \in Nat
    BY Types DEF Typed
  <2>3. QED
    BY <1>1, <2>1, <2>2
<1>3. \A what \in {"Push", "State"} :
        /\ event(what) \in EventWork /\ event(what) \in Works /\ ~IsCall(event(what)) /\ Counted(event(what))
        /\ event(what).gen = generation /\ event(what).seq = eventSeq + 1
        /\ WorkGeneration(event(what)) = generation
  BY <1>2 DEF Works, EventWork, IsCall, Counted, WorkGeneration
<1>4. \E what \in {"Push", "State"} :
        \/ worker' = worker /\ outputPending' = outputPending
        \/ worker' = Append(worker, event(what)) /\ outputPending' = outputPending + 1 /\ UNCHANGED seen
  BY DEF PushEvent, StateEvent, Submits
<1>5. UNCHANGED <<generation, document, ready, page, ipc, posted, queue, running, asyncs, answers,
                  outstanding, ran, window>> /\ eventSeq' = eventSeq + 1
  BY DEF PushEvent, StateEvent, session, client, posts
<1> HIDE DEF event
<1>6. QED
  BY <1>3, <1>4, <1>5

LEMMA CurrentStep == Typed /\ [Next]_vars => Current'
<1> SUFFICES ASSUME Typed, [Next]_vars PROVE Current'
  OBVIOUS
<1>0. TypeOK /\ Current /\ generation \in Nat /\ worker \in Seq(Works) /\ queue \in Seq(Call) /\ ipc \in Seq(Request)
  BY Types DEF Typed
<1> USE DEF vars, session, fate, counters, events, client, clock, posts
<1>1. CASE PostHello \/ Post
  <2>1. page # NoDocument /\ UNCHANGED <<generation, page, ready, worker, queue, asyncs, running>>
    BY <1>1 DEF PostHello, Post, Posts
  <2>2. generation \in Documents
    BY <2>1, GenerationType
  <2>3. QED
    BY <1>0, <2>1, <2>2 DEF Current, Held, Documents
<1>2. ASSUME NEW id \in Ids, Expire(id) \/ PageTimeout(id) PROVE Current'
  BY <1>0, <1>2 DEF Expire, PageTimeout, Current, Held
<1>3. CASE Receive
  <2> DEFINE call == [req |-> Head(ipc), gen |-> generation]
  <2>1. generation # 0 /\ call \in Call /\ call.gen <= generation
    <3>1. ipc # <<>>
      BY <1>3 DEF Receive
    <3>2. generation \in Documents
      BY <3>1, GenerationType
    <3>3. QED
      BY <1>0, <3>1, <3>2, TailFacts DEF Call, Documents
  <2>2. \A i \in DOMAIN worker' : WorkGeneration(worker'[i]) <= generation'
    <3>1. CASE UNCHANGED worker
      BY <1>0, <1>3, <3>1 DEF Receive, Current
    <3>2. CASE Reply(call, outstanding + 1, document, FALSE)
      BY <1>3, <2>1, <3>2, ReplyOlder DEF Receive
    <3>3. CASE worker' = Append(worker, [what |-> "Parse", call |-> call])
      <4>1. [what |-> "Parse", call |-> call] \in Works /\ WorkGeneration([what |-> "Parse", call |-> call]) <= generation
        BY <2>1 DEF Works, CallWork, WorkGeneration
      <4>2. QED
        BY <1>0, <1>3, <3>3, <4>1, OlderFacts DEF Receive, Current
    <3>4. QED
      BY <1>3, <3>1, <3>2, <3>3 DEF Receive, ReceiveInput, ReceiveRequest
  <2>3. \A i \in DOMAIN queue' : queue'[i].gen = generation'
    <3>1. CASE UNCHANGED queue
      BY <1>0, <1>3, <3>1 DEF Receive, Current
    <3>2. CASE queue' = Append(queue, call)
      BY <1>0, <1>3, <2>1, <3>2, AppendFacts DEF Receive, Current
    <3>3. QED
      BY <1>3, <3>1, <3>2 DEF Receive, ReceiveInput, ReceiveRequest
  <2>4. QED
    BY <1>0, <1>3, <2>1, <2>2, <2>3 DEF Receive, Current, Held
<1>4. CASE Navigate
  <2>1. generation' = generation + 1 /\ queue' = <<>> /\ UNCHANGED <<page, worker, running, asyncs>>
    BY <1>4 DEF Navigate
  <2>2. /\ page' <= generation' /\ generation' # 0
        /\ \A i \in DOMAIN queue' : queue'[i].gen = generation'
    BY <1>0, <2>1, Types DEF Current
  <2>3. \A i \in DOMAIN worker' : WorkGeneration(worker'[i]) <= generation'
    <3>1. ASSUME NEW i \in DOMAIN worker PROVE WorkGeneration(worker[i]) <= generation + 1
      <4>1. worker[i] \in Works /\ WorkGeneration(worker[i]) <= generation
        BY <1>0, ElementFacts DEF Current
      <4>2. WorkGeneration(worker[i]) \in Nat
        BY <4>1, BridgeAssumption DEF Works, CallWork, EventWork, WorkGeneration, Call, Documents
      <4>3. QED
        BY <1>0, <4>1, <4>2
    <3>2. QED
      BY <2>1, <3>1
  <2>4. \A call \in Held' : call.gen <= generation'
    <3>1. ASSUME NEW call \in Held PROVE call.gen <= generation + 1
      <4>1. call \in Call /\ call.gen <= generation
        BY <1>0, Types DEF Held, Current
      <4>2. call.gen \in Nat
        BY <4>1, BridgeAssumption DEF Call, Documents
      <4>3. QED
        BY <1>0, <4>1, <4>2
    <3>2. QED
      BY <2>1, <3>1 DEF Held
  <2>5. QED
    BY <2>2, <2>3, <2>4 DEF Current
<1>5. CASE Commit
  BY <1>0, <1>5 DEF Commit, Current, Held
<1>6. CASE Take
  <2>1. worker # <<>> /\ worker' = Tail(worker) /\ UNCHANGED <<session, running, asyncs, page, ipc>>
    BY <1>6 DEF Take
  <2>2. \A i \in DOMAIN worker' : WorkGeneration(worker'[i]) <= generation'
    BY <1>0, <2>1, OlderFacts DEF Current
  <2>3. \A i \in DOMAIN queue' : queue'[i].gen = generation'
    <3>1. CASE UNCHANGED queue
      BY <1>0, <2>1, <3>1 DEF Current
    <3>2. CASE queue' = Append(queue, Head(worker).call) /\ ~Dropped(Head(worker)) /\ Head(worker).what = "Parse"
      <4>1. Head(worker) \in Works
        BY <1>0, <2>1, TailFacts
      <4>2. Head(worker).call \in Call /\ Head(worker).call.gen = generation
        BY <3>2, <4>1 DEF Dropped, WorkGeneration, Works, CallWork, EventWork
      <4>3. QED
        BY <1>0, <2>1, <3>2, <4>2, AppendFacts DEF Current
    <3>3. QED
      BY <1>6, <3>1, <3>2 DEF Take, TakeRequest, TakeScript
  <2>4. QED
    BY <1>0, <2>1, <2>2, <2>3 DEF Current, Held
<1>7. CASE Dispatch
  <2> DEFINE call == Head(queue)
  <2>1. /\ queue # <<>> /\ queue' = Tail(queue) /\ UNCHANGED <<generation, page, ipc>>
        /\ DispatchRefused(call) \/ DispatchHello(call) \/ DispatchCall(call)
    BY <1>7 DEF Dispatch
  <2>2. call \in Call /\ call.gen = generation /\ generation # 0
    <3>1. call \in Call /\ call = queue[1] /\ 1 \in DOMAIN queue
      BY <1>0, <2>1, TailFacts
    <3>2. call.gen \in Documents
      BY <3>1 DEF Call
    <3>3. QED
      BY <1>0, <3>1, <3>2, BridgeAssumption DEF Current, Documents
  <2>3. \A i \in DOMAIN worker' : WorkGeneration(worker'[i]) <= generation'
    <3>1. CASE UNCHANGED worker
      BY <1>0, <2>1, <3>1 DEF Current
    <3>2. CASE \E current, shut : Reply(call, outstanding, current, shut)
      <4>1. PICK current, shut : Reply(call, outstanding, current, shut)
        BY <3>2
      <4>2. QED
        BY <1>0, <2>1, <2>2, <4>1, ReplyOlder
    <3>3. CASE worker' = Append(worker, [what |-> "File", call |-> call])
      <4>1. [what |-> "File", call |-> call] \in Works /\ WorkGeneration([what |-> "File", call |-> call]) <= generation
        BY <1>0, <2>2 DEF Works, CallWork, WorkGeneration
      <4>2. QED
        BY <1>0, <2>1, <3>3, <4>1, OlderFacts DEF Current
    <3>4. QED
      BY <2>1, <3>1, <3>2, <3>3 DEF DispatchRefused, DispatchHello, DispatchCall, StartFile
  <2>4. \A i \in DOMAIN queue' : queue'[i].gen = generation'
    BY <1>0, <2>1, TailFacts DEF Current
  <2>5. \A c \in Held' : c \in Held \union {call}
    BY <2>1 DEF Held, DispatchRefused, DispatchHello, DispatchCall
  <2>6. \A c \in Held' : c.gen <= generation'
    BY <1>0, <2>1, <2>2, <2>5 DEF Current
  <2>7. QED
    BY <1>0, <2>1, <2>2, <2>3, <2>4, <2>6 DEF Current
<1>8. CASE Return
  <2>1. running \in Call /\ running.gen <= generation
    BY <1>0, <1>8, Types DEF Return, Current, Held
  <2>2. \A i \in DOMAIN worker' : WorkGeneration(worker'[i]) <= generation'
    BY <1>8, <2>1, ReplyOlder DEF Return
  <2>3. QED
    BY <1>0, <1>8, <2>2 DEF Return, Current, Held
<1>9. ASSUME NEW call \in asyncs, Complete(call) PROVE Current'
  <2>1. call \in Call /\ call.gen <= generation
    BY <1>0, Types DEF Current, Held
  <2>2. \A i \in DOMAIN worker' : WorkGeneration(worker'[i]) <= generation'
    <3>1. CASE UNCHANGED worker
      BY <1>0, <1>9, <3>1 DEF Complete, Current
    <3>2. CASE Reply(call, outstanding, document, FALSE)
      BY <1>9, <2>1, <3>2, ReplyOlder DEF Complete
    <3>3. QED
      BY <1>9, <3>1, <3>2 DEF Complete
  <2>3. QED
    BY <1>0, <1>9, <2>2 DEF Complete, Current, Held
<1>10. CASE PushEvent \/ StateEvent
  <2>1. PICK w \in Works : WorkGeneration(w) = generation /\ worker' \in {worker, Append(worker, w)}
    BY <1>10, EventIs
  <2>2. UNCHANGED <<generation, page, ready, ipc, queue, running, asyncs>>
    BY <1>10, EventIs
  <2>3. \A i \in DOMAIN worker' : WorkGeneration(worker'[i]) <= generation'
    <3>1. \A i \in DOMAIN worker : WorkGeneration(worker[i]) <= generation
      BY <1>0 DEF Current
    <3>2. \A i \in DOMAIN Append(worker, w) : WorkGeneration(Append(worker, w)[i]) <= generation
      BY <1>0, <2>1, <3>1, OlderFacts
    <3>3. QED
      BY <2>1, <2>2, <3>1, <3>2
  <2>4. QED
    BY <1>0, <2>2, <2>3 DEF Current, Held
<1>11. CASE Close \/ Break \/ Vanish \/ Overdue \/ ReadyTimeout \/ Teardown
  <2>1. UNCHANGED <<generation, page, ready, ipc, worker, queue, running, asyncs>>
    BY <1>11 DEF Close, Break, Vanish, Overdue, ReadyTimeout, Teardown
  <2>2. QED
    BY <1>0, <2>1 DEF Current, Held
<1>12. CASE UNCHANGED vars
  BY <1>0, <1>12 DEF Current, Held
<1>13. QED
  BY <1>1, <1>2, <1>3, <1>4, <1>5, <1>6, <1>7, <1>8, <1>9, <1>10, <1>11, <1>12 DEF Next

LEMMA TypedStep == Typed /\ [Next]_vars => Typed'
  BY TypeStep, CurrentStep DEF Typed

\* Every variable of the bridge keeps its type.
THEOREM BridgeTypes == Spec => []TypeOK
<1>1. Typed => TypeOK
  BY DEF Typed
<1>2. QED
  BY TypedInit, TypedStep, <1>1, PTL DEF Spec

-----------------------------------------------------------------------------
(* Layer 2: the place each request is in: with the WebView, on the worker, in  *)
(* the queue, in the hands of a native call, or answered.                      *)

Messages(q) == {q[i].id : i \in DOMAIN q}
Calls(q) == {q[i].req.id : i \in DOMAIN q}
WorkCalls(q) == {q[i].call.req.id : i \in {j \in DOMAIN q : IsCall(q[j])}}
HeldCalls(S) == {call.req.id : call \in S}
Answered == {id \in Ids : answers[id] # 0}

Rising(q) == \A i, j \in DOMAIN q : i < j => q[i].id < q[j].id
DistinctCalls(q) == \A i, j \in DOMAIN q : q[i].req.id = q[j].req.id => i = j
DistinctWorks(q) ==
  \A i, j \in DOMAIN q : IsCall(q[i]) /\ IsCall(q[j]) /\ q[i].call.req.id = q[j].call.req.id => i = j
DistinctHeld(S) == \A c, d \in S : c.req.id = d.req.id => c = d

\* A request is in one place only, and was posted.
Apart(M, W, C, H, A) ==
  /\ M \intersect W = {} /\ M \intersect C = {} /\ M \intersect H = {} /\ M \intersect A = {}
  /\ W \intersect C = {} /\ W \intersect H = {} /\ W \intersect A = {}
  /\ C \intersect H = {} /\ C \intersect A = {} /\ H \intersect A = {}
AtMost(M, W, C, H, A, n) == \A id \in M \union W \union C \union H \union A : id <= n

\* Every request is in at most one place, once, and is answered at most once.
Placed ==
  /\ Apart(Messages(ipc), WorkCalls(worker), Calls(queue), HeldCalls(Held), Answered)
  /\ AtMost(Messages(ipc), WorkCalls(worker), Calls(queue), HeldCalls(Held), Answered, posted)
  /\ Rising(ipc) /\ DistinctWorks(worker) /\ DistinctCalls(queue) /\ DistinctHeld(Held)
  /\ running \notin asyncs
  /\ AnsweredOnce

LEMMA MessageFacts ==
  ASSUME NEW q \in Seq(Request), Rising(q)
  PROVE  /\ q # <<>> => /\ Head(q).id \in Messages(q) /\ Rising(Tail(q))
                        /\ Messages(Tail(q)) = Messages(q) \ {Head(q).id}
         /\ \A req \in Request : (\A id \in Messages(q) : id < req.id)
              => Rising(Append(q, req)) /\ Messages(Append(q, req)) = Messages(q) \union {req.id}
<1>0. \A i \in DOMAIN q : q[i].id \in Nat
  <2>1. \A i \in DOMAIN q : q[i] \in Request
    BY ElementFacts
  <2>2. \A req \in Request : req.id \in Nat
    BY BridgeAssumption DEF Request, Ids
  <2>3. QED
    BY <2>1, <2>2
<1>1. ASSUME q # <<>>
      PROVE  /\ Head(q).id \in Messages(q) /\ Rising(Tail(q))
             /\ Messages(Tail(q)) = Messages(q) \ {Head(q).id}
  <2>1. Head(q).id \in Messages(q) /\ Rising(Tail(q))
    BY <1>1, TailFacts DEF Messages, Rising
  <2>2. ASSUME NEW i \in DOMAIN Tail(q) PROVE Tail(q)[i].id \in Messages(q) \ {Head(q).id}
    <3>1. i + 1 \in DOMAIN q /\ Tail(q)[i] = q[i + 1] /\ 1 \in DOMAIN q /\ 1 < i + 1 /\ Head(q) = q[1]
      BY <1>1, <2>2, TailFacts
    <3>2. q[1].id < q[i + 1].id
      BY <3>1 DEF Rising
    <3>3. QED
      BY <1>0, <3>1, <3>2 DEF Messages
  <2>3. ASSUME NEW i \in DOMAIN q, q[i].id # Head(q).id PROVE q[i].id \in Messages(Tail(q))
    <3>1. i - 1 \in DOMAIN Tail(q) /\ Tail(q)[i - 1] = q[i]
      BY <1>1, <2>3, TailFacts
    <3>2. QED
      BY <3>1 DEF Messages
  <2>4. QED
    BY <2>1, <2>2, <2>3 DEF Messages
<1>2. ASSUME NEW req \in Request, \A id \in Messages(q) : id < req.id
      PROVE  Rising(Append(q, req)) /\ Messages(Append(q, req)) = Messages(q) \union {req.id}
  <2>1. Messages(Append(q, req)) = Messages(q) \union {req.id}
    BY AppendFacts DEF Messages
  <2>2. \A i \in DOMAIN q : q[i].id < req.id
    BY <1>2 DEF Messages
  <2>3. Rising(Append(q, req))
    BY <2>2, AppendFacts DEF Rising
  <2>4. QED
    BY <2>1, <2>3
<1>3. QED
  BY <1>1, <1>2

LEMMA CallFacts ==
  ASSUME NEW q \in Seq(Call), DistinctCalls(q)
  PROVE  /\ q # <<>> => /\ Head(q).req.id \in Calls(q) /\ DistinctCalls(Tail(q))
                        /\ Calls(Tail(q)) = Calls(q) \ {Head(q).req.id}
         /\ \A call \in Call : call.req.id \notin Calls(q)
              => /\ DistinctCalls(Append(q, call))
                 /\ Calls(Append(q, call)) = Calls(q) \union {call.req.id}
<1>1. ASSUME q # <<>>
      PROVE  /\ Head(q).req.id \in Calls(q) /\ DistinctCalls(Tail(q))
             /\ Calls(Tail(q)) = Calls(q) \ {Head(q).req.id}
  <2>0. Head(q).req.id \in Calls(q)
    BY <1>1, TailFacts DEF Calls
  <2>1. DistinctCalls(Tail(q))
    BY <1>1, TailFacts DEF DistinctCalls
  <2>2. ASSUME NEW i \in DOMAIN Tail(q) PROVE Tail(q)[i].req.id \in Calls(q) \ {Head(q).req.id}
    <3>1. i + 1 \in DOMAIN q /\ Tail(q)[i] = q[i + 1] /\ 1 \in DOMAIN q /\ 1 # i + 1 /\ Head(q) = q[1]
      BY <1>1, <2>2, TailFacts
    <3>2. QED
      BY <3>1 DEF Calls, DistinctCalls
  <2>3. ASSUME NEW i \in DOMAIN q, q[i].req.id # Head(q).req.id PROVE q[i].req.id \in Calls(Tail(q))
    <3>1. i # 1
      BY <1>1, <2>3, TailFacts
    <3>2. i - 1 \in DOMAIN Tail(q) /\ Tail(q)[i - 1] = q[i]
      BY <1>1, <3>1, TailFacts
    <3>3. QED
      BY <3>2 DEF Calls
  <2>4. QED
    BY <2>0, <2>1, <2>2, <2>3 DEF Calls
<1>2. ASSUME NEW call \in Call, call.req.id \notin Calls(q)
      PROVE  /\ DistinctCalls(Append(q, call))
             /\ Calls(Append(q, call)) = Calls(q) \union {call.req.id}
  <2>1. Calls(Append(q, call)) = Calls(q) \union {call.req.id}
    BY AppendFacts DEF Calls
  <2>2. DistinctCalls(Append(q, call))
    BY <1>2, AppendFacts DEF Calls, DistinctCalls
  <2>3. QED
    BY <2>1, <2>2
<1>3. QED
  BY <1>1, <1>2

LEMMA WorkFacts ==
  ASSUME NEW q \in Seq(Works), DistinctWorks(q)
  PROVE  /\ q # <<>> => /\ DistinctWorks(Tail(q))
                        /\ IsCall(Head(q)) => /\ Head(q).call.req.id \in WorkCalls(q)
                                              /\ WorkCalls(Tail(q)) = WorkCalls(q) \ {Head(q).call.req.id}
                        /\ ~IsCall(Head(q)) => WorkCalls(Tail(q)) = WorkCalls(q)
         /\ \A w \in Works : IsCall(w) /\ w.call.req.id \notin WorkCalls(q)
              => /\ DistinctWorks(Append(q, w))
                 /\ WorkCalls(Append(q, w)) = WorkCalls(q) \union {w.call.req.id}
         /\ \A w \in Works : ~IsCall(w)
              => DistinctWorks(Append(q, w)) /\ WorkCalls(Append(q, w)) = WorkCalls(q)
<1>1. ASSUME q # <<>>
      PROVE  /\ DistinctWorks(Tail(q))
             /\ IsCall(Head(q)) => /\ Head(q).call.req.id \in WorkCalls(q)
                                   /\ WorkCalls(Tail(q)) = WorkCalls(q) \ {Head(q).call.req.id}
             /\ ~IsCall(Head(q)) => WorkCalls(Tail(q)) = WorkCalls(q)
  <2>1. DistinctWorks(Tail(q))
    BY <1>1, TailFacts DEF DistinctWorks
  <2>2. IsCall(Head(q)) => Head(q).call.req.id \in WorkCalls(q)
    BY <1>1, TailFacts DEF WorkCalls
  <2>3. ASSUME NEW i \in DOMAIN Tail(q), IsCall(Tail(q)[i])
        PROVE  /\ Tail(q)[i].call.req.id \in WorkCalls(q)
               /\ IsCall(Head(q)) => Tail(q)[i].call.req.id # Head(q).call.req.id
    <3>1. i + 1 \in DOMAIN q /\ Tail(q)[i] = q[i + 1] /\ 1 \in DOMAIN q /\ 1 # i + 1 /\ Head(q) = q[1]
      BY <1>1, <2>3, TailFacts
    <3>2. QED
      BY <2>3, <3>1 DEF WorkCalls, DistinctWorks
  <2>4. ASSUME NEW i \in DOMAIN q, IsCall(q[i]), IsCall(Head(q)) => q[i].call.req.id # Head(q).call.req.id
        PROVE  q[i].call.req.id \in WorkCalls(Tail(q))
    <3>1. i # 1
      BY <1>1, <2>4, TailFacts
    <3>2. i - 1 \in DOMAIN Tail(q) /\ Tail(q)[i - 1] = q[i]
      BY <1>1, <3>1, TailFacts
    <3>3. QED
      BY <2>4, <3>2 DEF WorkCalls
  <2>5. QED
    BY <2>1, <2>2, <2>3, <2>4 DEF WorkCalls
<1>2. ASSUME NEW w \in Works, IsCall(w), w.call.req.id \notin WorkCalls(q)
      PROVE  /\ DistinctWorks(Append(q, w))
             /\ WorkCalls(Append(q, w)) = WorkCalls(q) \union {w.call.req.id}
  <2>1. WorkCalls(Append(q, w)) = WorkCalls(q) \union {w.call.req.id}
    BY <1>2, AppendFacts DEF WorkCalls
  <2>2. DistinctWorks(Append(q, w))
    BY <1>2, AppendFacts DEF WorkCalls, DistinctWorks
  <2>3. QED
    BY <2>1, <2>2
<1>3. ASSUME NEW w \in Works, ~IsCall(w)
      PROVE  DistinctWorks(Append(q, w)) /\ WorkCalls(Append(q, w)) = WorkCalls(q)
  BY <1>3, AppendFacts DEF WorkCalls, DistinctWorks
<1>4. QED
  BY <1>1, <1>2, <1>3

LEMMA HeldFacts ==
  ASSUME NEW S, DistinctHeld(S), NEW call
  PROVE  /\ call \in S => /\ call.req.id \in HeldCalls(S) /\ DistinctHeld(S \ {call})
                          /\ HeldCalls(S \ {call}) = HeldCalls(S) \ {call.req.id}
         /\ call.req.id \notin HeldCalls(S)
              => /\ DistinctHeld(S \union {call})
                 /\ HeldCalls(S \union {call}) = HeldCalls(S) \union {call.req.id}
  BY DEF HeldCalls, DistinctHeld

LEMMA AnswerFacts ==
  ASSUME Typed, AnsweredOnce, NEW id \in Ids, id \notin Answered,
         answers' = [answers EXCEPT ![id] = @ + 1]
  PROVE  Answered' = Answered \union {id} /\ AnsweredOnce'
<1>1. answers \in [Ids -> Nat] /\ answers[id] = 0
  BY Types DEF Typed, Answered
<1>2. answers'[id] = 1 /\ \A other \in Ids \ {id} : answers'[other] = answers[other]
  BY <1>1
<1>3. QED
  BY <1>2 DEF Answered, AnsweredOnce

\* An answer puts a request on the worker again, settles it, or loses it with the session.
LEMMA ReplyPlaces ==
  ASSUME Typed, NEW call \in Call, NEW out, NEW current, NEW shut, Reply(call, out, current, shut),
         DistinctWorks(worker), AnsweredOnce, call.req.id \notin WorkCalls(worker) \union Answered
  PROVE  /\ DistinctWorks(worker') /\ AnsweredOnce'
         /\ \/ WorkCalls(worker') = WorkCalls(worker) \union {call.req.id} /\ Answered' = Answered
            \/ WorkCalls(worker') = WorkCalls(worker) /\ Answered' = Answered \union {call.req.id}
            \/ WorkCalls(worker') = WorkCalls(worker) /\ Answered' = Answered
<1>0. worker \in Seq(Works) /\ call.req.id \in Ids
  BY Types DEF Typed, Call, Request
<1>1. CASE Inlines(call, out, shut)
  BY <1>0, <1>1, AnswerFacts DEF Inlines
<1>2. CASE Encodes(call, out, shut)
  <2>1. Answered' = Answered /\ AnsweredOnce'
    BY <1>2 DEF Encodes, Answered, AnsweredOnce
  <2>2. QED
    BY <1>0, <1>2, <2>1, WorkFacts, ReplyWorkType DEF Encodes
<1>3. CASE GivesUp(out)
  BY <1>3 DEF GivesUp, Answered, AnsweredOnce
<1>4. QED
  BY <1>1, <1>2, <1>3, ReplyIs

\* All ids are numbers.
LEMMA IdTypes ==
  ASSUME Typed
  PROVE  /\ \A id \in Messages(ipc) \union WorkCalls(worker) \union Calls(queue) \union HeldCalls(Held) \union Answered :
              id \in Ids
         /\ Ids \subseteq Nat /\ posted \in Nat
<1>0. /\ worker \in Seq(Works) /\ queue \in Seq(Call) /\ ipc \in Seq(Request)
      /\ \A call \in Held : call \in Call
  BY Types DEF Typed, Held
<1>1. Messages(ipc) \subseteq Ids
  <2>1. \A i \in DOMAIN ipc : ipc[i] \in Request
    BY <1>0, ElementFacts
  <2>2. QED
    BY <2>1 DEF Messages, Request
<1>2. \A call \in Call : call.req.id \in Ids
  BY DEF Call, Request
<1>3. Calls(queue) \subseteq Ids /\ HeldCalls(Held) \subseteq Ids
  <2>1. \A i \in DOMAIN queue : queue[i] \in Call
    BY <1>0, ElementFacts
  <2>2. QED
    BY <1>0, <1>2, <2>1 DEF Calls, HeldCalls
<1>4. WorkCalls(worker) \subseteq Ids
  <2>1. \A i \in DOMAIN worker : worker[i] \in Works
    BY <1>0, ElementFacts
  <2>2. \A w \in Works : IsCall(w) => w.call \in Call
    BY DEF Works, CallWork, EventWork, IsCall
  <2>3. QED
    BY <1>2, <2>1, <2>2 DEF WorkCalls
<1>5. Ids \subseteq Nat /\ posted \in Nat
  <2>1. posted \in 0 .. MaxPosts /\ MaxPosts \in Nat
    BY Types DEF Typed
  <2>2. QED
    BY <2>1 DEF Ids
<1>6. QED
  BY <1>1, <1>3, <1>4, <1>5 DEF Answered

LEMMA CallNotIdle == \A call \in Call : call # NotRunning
<1> SUFFICES ASSUME NEW call \in Call, call = NotRunning PROVE FALSE
  OBVIOUS
<1>1. DOMAIN call = {"req", "gen"}
  BY DEF Call
<1>2. DOMAIN call = {}
  BY DEF NotRunning
<1>3. QED
  BY <1>1, <1>2

LEMMA PlacedInit == Init => Placed
<1> SUFFICES ASSUME Init PROVE Placed
  OBVIOUS
<1>1. Messages(ipc) = {} /\ WorkCalls(worker) = {} /\ Calls(queue) = {} /\ HeldCalls(Held) = {} /\ Answered = {}
  BY DEF Init, Messages, WorkCalls, Calls, HeldCalls, Held, Answered
<1>2. Rising(ipc) /\ DistinctWorks(worker) /\ DistinctCalls(queue) /\ DistinctHeld(Held)
  BY DEF Init, Rising, DistinctWorks, DistinctCalls, DistinctHeld, Held
<1>3. running \notin asyncs /\ AnsweredOnce
  BY DEF Init, AnsweredOnce
<1>4. QED
  BY <1>1, <1>2, <1>3 DEF Placed, Apart, AtMost

LEMMA PlacedReceive == Typed /\ Placed /\ Receive => Placed'
<1> SUFFICES ASSUME Typed, Placed, Receive PROVE Placed'
  OBVIOUS
<1> DEFINE x == Head(ipc).id
           call == [req |-> Head(ipc), gen |-> generation]
           M == Messages(ipc) W == WorkCalls(worker) C == Calls(queue) H == HeldCalls(Held) A == Answered
<1>1. ipc # <<>> /\ ipc' = Tail(ipc) /\ UNCHANGED <<running, asyncs, posted>>
  BY DEF Receive
<1>2. worker \in Seq(Works) /\ queue \in Seq(Call) /\ ipc \in Seq(Request) /\ Head(ipc) \in Request
  BY <1>1, Types, TailFacts DEF Typed
<1>3. call \in Call /\ call.req.id = x
  BY <1>1, <1>2, GenerationType DEF Call
<1>4. x \in M /\ Rising(ipc') /\ Messages(ipc') = M \ {x}
  BY <1>1, <1>2, MessageFacts DEF Placed
<1>5. x \notin W \union C \union H \union A /\ x <= posted /\ x \in Nat
  BY <1>4, IdTypes DEF Placed, Apart, AtMost
<1>6. Held' = Held /\ DistinctHeld(Held') /\ running' \notin asyncs'
  BY <1>1 DEF Held, Placed
<1> DEFINE Goes == /\ DistinctWorks(worker') /\ DistinctCalls(queue') /\ AnsweredOnce'
                   /\ \/ WorkCalls(worker') = W /\ Calls(queue') = C /\ Answered' = A
                      \/ WorkCalls(worker') = W \union {x} /\ Calls(queue') = C /\ Answered' = A
                      \/ WorkCalls(worker') = W /\ Calls(queue') = C \union {x} /\ Answered' = A
                      \/ WorkCalls(worker') = W /\ Calls(queue') = C /\ Answered' = A \union {x}
<1>7. Goes
  <2>1. CASE UNCHANGED <<worker, queue, answers>>
    BY <2>1 DEF Placed, Answered, AnsweredOnce
  <2>2. CASE Reply(call, outstanding + 1, document, FALSE) /\ UNCHANGED queue
    BY <1>3, <1>5, <2>2, ReplyPlaces DEF Placed
  <2>3. CASE queue' = Append(queue, call) /\ UNCHANGED <<worker, answers>>
    <3>1. DistinctCalls(queue') /\ Calls(queue') = C \union {x}
      BY <1>2, <1>3, <1>5, <2>3, CallFacts DEF Placed
    <3>2. QED
      BY <2>3, <3>1 DEF Placed, Answered, AnsweredOnce
  <2>4. CASE worker' = Append(worker, [what |-> "Parse", call |-> call]) /\ UNCHANGED <<queue, answers>>
    <3>1. [what |-> "Parse", call |-> call] \in Works /\ IsCall([what |-> "Parse", call |-> call])
      BY <1>3 DEF Works, CallWork, IsCall
    <3>2. DistinctWorks(worker') /\ WorkCalls(worker') = W \union {x}
      BY <1>2, <1>3, <1>5, <2>4, <3>1, WorkFacts DEF Placed
    <3>3. QED
      BY <2>4, <3>2 DEF Placed, Answered, AnsweredOnce
  <2>5. QED
    BY <2>1, <2>2, <2>3, <2>4 DEF Receive, ReceiveInput, ReceiveRequest, client
<1>8. /\ Apart(Messages(ipc'), WorkCalls(worker'), Calls(queue'), HeldCalls(Held'), Answered')
      /\ AtMost(Messages(ipc'), WorkCalls(worker'), Calls(queue'), HeldCalls(Held'), Answered', posted')
  <2>1. posted' = posted /\ posted \in Nat /\ HeldCalls(Held') = H
    BY <1>1, <1>6, IdTypes
  <2>3. Apart(M, W, C, H, A) /\ AtMost(M, W, C, H, A, posted)
    BY DEF Placed
  <2>4. x \notin Messages(ipc')
    BY <1>4
  <2> HIDE DEF M, W, C, H, A, x
  <2>5. AtMost(Messages(ipc'), WorkCalls(worker'), Calls(queue'), HeldCalls(Held'), Answered', posted')
    BY <1>4, <1>5, <1>7, <2>1, <2>3 DEF AtMost
  <2>6. Apart(Messages(ipc'), WorkCalls(worker'), Calls(queue'), HeldCalls(Held'), Answered')
    BY <1>4, <1>5, <1>7, <2>1, <2>3 DEF Apart
  <2>7. QED
    BY <2>5, <2>6
<1>9. QED
  BY <1>4, <1>6, <1>7, <1>8 DEF Placed

LEMMA PlacedTake == Typed /\ Placed /\ Take => Placed'
<1> SUFFICES ASSUME Typed, Placed, Take PROVE Placed'
  OBVIOUS
<1> DEFINE w == Head(worker)
           x == w.call.req.id
           M == Messages(ipc) W == WorkCalls(worker) C == Calls(queue) H == HeldCalls(Held) A == Answered
<1>1. worker # <<>> /\ worker' = Tail(worker) /\ UNCHANGED <<running, asyncs, ipc, posted>>
  BY DEF Take, posts
<1>2. worker \in Seq(Works) /\ queue \in Seq(Call) /\ w \in Works
  BY <1>1, Types, TailFacts DEF Typed
<1>3. /\ Held' = Held /\ DistinctHeld(Held') /\ running' \notin asyncs'
      /\ Rising(ipc') /\ Messages(ipc') = M /\ DistinctWorks(worker')
  BY <1>1, <1>2, WorkFacts DEF Held, Placed
<1>4. /\ IsCall(w) => x \in W /\ WorkCalls(worker') = W \ {x}
      /\ ~IsCall(w) => WorkCalls(worker') = W
  BY <1>1, <1>2, WorkFacts DEF Placed
<1>5. /\ Apart(M, W, C, H, A) /\ AtMost(M, W, C, H, A, posted)
      /\ posted' = posted /\ HeldCalls(Held') = H
  BY <1>1, <1>3 DEF Placed
<1>6. IsCall(w) => x \in Ids /\ x \notin M \union C \union H \union A
  BY <1>4, <1>5, IdTypes DEF Apart
<1> DEFINE Goes == /\ DistinctCalls(queue') /\ AnsweredOnce'
                   /\ \/ Calls(queue') = C /\ Answered' = A
                      \/ IsCall(w) /\ Calls(queue') = C \union {x} /\ Answered' = A
                      \/ IsCall(w) /\ Calls(queue') = C /\ Answered' = A \union {x}
<1>7. Goes
  <2>1. CASE UNCHANGED <<queue, answers>>
    BY <2>1 DEF Placed, Answered, AnsweredOnce
  <2>2. CASE IsCall(w) /\ queue' = Append(queue, w.call) /\ UNCHANGED answers
    <3>1. w.call \in Call
      BY <1>2, <2>2 DEF Works, CallWork, EventWork, IsCall
    <3>2. DistinctCalls(queue') /\ Calls(queue') = C \union {x}
      BY <1>2, <1>6, <2>2, <3>1, CallFacts DEF Placed
    <3>3. QED
      BY <2>2, <3>2 DEF Placed, Answered, AnsweredOnce
  <2>3. CASE IsCall(w) /\ UNCHANGED queue /\ answers' = [answers EXCEPT ![x] = @ + 1]
    BY <1>6, <2>3, AnswerFacts DEF Placed
  <2>4. QED
    <3>1. CASE Dropped(w)
      BY <2>1, <3>1 DEF Take, client
    <3>2. CASE ~Dropped(w) /\ w.what = "Parse" /\ w.call.req.kind # "bad"
      BY <2>1, <2>2, <3>2 DEF Take, TakeRequest, client, IsCall
    <3>3. CASE ~Dropped(w) /\ ~(w.what = "Parse" /\ w.call.req.kind # "bad")
      <4>1. TakeScript(w)
        BY <3>3 DEF Take
      <4>2. CASE window = "broken" \/ w.what \in {"Push", "State"}
        BY <2>1, <4>1, <4>2 DEF TakeScript, client
      <4>3. CASE window # "broken" /\ w.what \notin {"Push", "State"}
        <5>1. IsCall(w)
          BY <1>2, <4>3 DEF Works, CallWork, EventWork, IsCall
        <5>2. UNCHANGED queue /\ answers' = [answers EXCEPT ![x] = @ + 1]
          BY <4>1, <4>3 DEF TakeScript, Deliver
        <5>3. QED
          BY <2>3, <5>1, <5>2
      <4>4. QED
        BY <4>2, <4>3
    <3>4. QED
      BY <3>1, <3>2, <3>3
<1>8. /\ Apart(Messages(ipc'), WorkCalls(worker'), Calls(queue'), HeldCalls(Held'), Answered')
      /\ AtMost(Messages(ipc'), WorkCalls(worker'), Calls(queue'), HeldCalls(Held'), Answered', posted')
  <2> HIDE DEF M, W, C, H, A, x, w
  <2>1. AtMost(Messages(ipc'), WorkCalls(worker'), Calls(queue'), HeldCalls(Held'), Answered', posted')
    BY <1>3, <1>4, <1>5, <1>7 DEF AtMost
  <2>2. Apart(Messages(ipc'), WorkCalls(worker'), Calls(queue'), HeldCalls(Held'), Answered')
    BY <1>3, <1>4, <1>5, <1>6, <1>7 DEF Apart
  <2>3. QED
    BY <2>1, <2>2
<1>9. QED
  BY <1>3, <1>7, <1>8 DEF Placed

LEMMA PlacedDispatch == Typed /\ Placed /\ Dispatch => Placed'
<1> SUFFICES ASSUME Typed, Placed, Dispatch PROVE Placed'
  OBVIOUS
<1> DEFINE call == Head(queue)
           x == call.req.id
           M == Messages(ipc) W == WorkCalls(worker) C == Calls(queue) H == HeldCalls(Held) A == Answered
<1>1. /\ queue # <<>> /\ queue' = Tail(queue) /\ UNCHANGED <<ipc, posted>> /\ running = NotRunning
      /\ DispatchRefused(call) \/ DispatchHello(call) \/ DispatchCall(call)
  BY DEF Dispatch, posts
<1>2. worker \in Seq(Works) /\ queue \in Seq(Call) /\ call \in Call
  BY <1>1, Types, TailFacts DEF Typed
<1>3. /\ DistinctCalls(queue') /\ x \in C /\ Calls(queue') = C \ {x}
      /\ Rising(ipc') /\ Messages(ipc') = M
  BY <1>1, <1>2, CallFacts DEF Placed
<1>5. Apart(M, W, C, H, A) /\ AtMost(M, W, C, H, A, posted) /\ posted' = posted
  BY <1>1 DEF Placed
<1>6. x \notin M \union W \union H \union A
  BY <1>3, <1>5 DEF Apart
<1> DEFINE Goes == /\ DistinctWorks(worker') /\ DistinctHeld(Held') /\ AnsweredOnce'
                   /\ \/ WorkCalls(worker') = W /\ HeldCalls(Held') = H /\ Answered' = A
                      \/ WorkCalls(worker') = W \union {x} /\ HeldCalls(Held') = H /\ Answered' = A
                      \/ WorkCalls(worker') = W /\ HeldCalls(Held') = H \union {x} /\ Answered' = A
                      \/ WorkCalls(worker') = W /\ HeldCalls(Held') = H /\ Answered' = A \union {x}
<1>7. Goes
  <2>1. CASE UNCHANGED <<running, asyncs>> /\ \E current, shut : Reply(call, outstanding, current, shut)
    <3>1. PICK current, shut : Reply(call, outstanding, current, shut)
      BY <2>1
    <3>2. Held' = Held
      BY <2>1 DEF Held
    <3>3. QED
      BY <1>2, <1>6, <3>1, <3>2, ReplyPlaces DEF Placed
  <2>2. CASE UNCHANGED <<running, asyncs, answers>> /\ worker' = Append(worker, [what |-> "File", call |-> call])
    <3>1. [what |-> "File", call |-> call] \in Works /\ IsCall([what |-> "File", call |-> call])
      BY <1>2 DEF Works, CallWork, IsCall
    <3>2. DistinctWorks(worker') /\ WorkCalls(worker') = W \union {x}
      BY <1>2, <1>6, <2>2, <3>1, WorkFacts DEF Placed
    <3>3. QED
      BY <2>2, <3>2 DEF Placed, Answered, AnsweredOnce, Held
  <2>3. CASE UNCHANGED <<worker, answers>> /\ Held' = Held \union {call}
    <3>1. DistinctHeld(Held') /\ HeldCalls(Held') = H \union {x}
      BY <1>6, <2>3, HeldFacts DEF Placed
    <3>2. QED
      BY <2>3, <3>1 DEF Placed, Answered, AnsweredOnce
  <2>4. QED
    <3>1. CASE DispatchRefused(call) \/ DispatchHello(call)
      BY <2>1, <3>1 DEF DispatchRefused, DispatchHello
    <3>2. CASE DispatchCall(call)
      <4>1. CASE call.req.kind = "modal"
        BY <1>1, <2>3, <3>2, <4>1, CallNotIdle, <1>2 DEF DispatchCall, Held, client
      <4>2. CASE call.req.kind = "async"
        BY <1>1, <2>3, <3>2, <4>2 DEF DispatchCall, Held, client
      <4>3. CASE call.req.kind = "file"
        BY <2>1, <2>2, <3>2, <4>3 DEF DispatchCall, StartFile, client
      <4>4. CASE call.req.kind \notin {"modal", "async", "file"}
        BY <2>1, <3>2, <4>4 DEF DispatchCall
      <4>5. QED
        BY <4>1, <4>2, <4>3, <4>4
    <3>3. QED
      BY <1>1, <3>1, <3>2
<1>8. /\ Apart(Messages(ipc'), WorkCalls(worker'), Calls(queue'), HeldCalls(Held'), Answered')
      /\ AtMost(Messages(ipc'), WorkCalls(worker'), Calls(queue'), HeldCalls(Held'), Answered', posted')
  <2> HIDE DEF M, W, C, H, A, x, call
  <2>1. AtMost(Messages(ipc'), WorkCalls(worker'), Calls(queue'), HeldCalls(Held'), Answered', posted')
    BY <1>3, <1>5, <1>7 DEF AtMost
  <2>2. Apart(Messages(ipc'), WorkCalls(worker'), Calls(queue'), HeldCalls(Held'), Answered')
    BY <1>3, <1>5, <1>6, <1>7 DEF Apart
  <2>3. QED
    BY <2>1, <2>2
<1>9. running' \notin asyncs'
  <2>1. x \notin H /\ \A c \in asyncs : c.req.id \in H
    BY <1>6 DEF HeldCalls, Held
  <2>2. call \notin asyncs
    BY <2>1
  <2>3. running \notin asyncs
    BY DEF Placed
  <2>4. \/ running' = call /\ asyncs' = asyncs
        \/ running' = running /\ (asyncs' = asyncs \/ asyncs' = asyncs \union {call})
    BY <1>1 DEF DispatchRefused, DispatchHello, DispatchCall
  <2>5. running # call
    BY <1>1, <1>2, CallNotIdle
  <2>6. QED
    BY <2>2, <2>3, <2>4, <2>5
<1>10. QED
  BY <1>3, <1>7, <1>8, <1>9 DEF Placed

\* A native call that ends leaves the hands of the session, answered or not.
LEMMA PlacedEnds ==
  ASSUME Typed, Placed, NEW call \in Held, Held' = Held \ {call}, running' \notin asyncs',
         UNCHANGED <<queue, ipc, posted>>,
         UNCHANGED <<worker, answers>> \/ Reply(call, outstanding, document, FALSE)
  PROVE  Placed'
<1> DEFINE x == call.req.id
           M == Messages(ipc) W == WorkCalls(worker) C == Calls(queue) H == HeldCalls(Held) A == Answered
<1>1. call \in Call
  BY Types DEF Typed, Held
<1>2. x \in H /\ DistinctHeld(Held') /\ HeldCalls(Held') = H \ {x}
  BY HeldFacts DEF Placed
<1>3. /\ Rising(ipc') /\ Messages(ipc') = M /\ DistinctCalls(queue') /\ Calls(queue') = C
      /\ Apart(M, W, C, H, A) /\ AtMost(M, W, C, H, A, posted) /\ posted' = posted
  BY DEF Placed
<1>4. x \notin M \union W \union C \union A
  BY <1>2, <1>3 DEF Apart
<1>5. /\ DistinctWorks(worker') /\ AnsweredOnce'
      /\ \/ WorkCalls(worker') = W /\ Answered' = A
         \/ WorkCalls(worker') = W \union {x} /\ Answered' = A
         \/ WorkCalls(worker') = W /\ Answered' = A \union {x}
  <2>1. CASE UNCHANGED <<worker, answers>>
    BY <2>1 DEF Placed, Answered, AnsweredOnce
  <2>2. CASE Reply(call, outstanding, document, FALSE)
    BY <1>1, <1>4, <2>2, ReplyPlaces DEF Placed
  <2>3. QED
    BY <2>1, <2>2
<1>6. /\ Apart(Messages(ipc'), WorkCalls(worker'), Calls(queue'), HeldCalls(Held'), Answered')
      /\ AtMost(Messages(ipc'), WorkCalls(worker'), Calls(queue'), HeldCalls(Held'), Answered', posted')
  <2> HIDE DEF M, W, C, H, A, x
  <2>1. AtMost(Messages(ipc'), WorkCalls(worker'), Calls(queue'), HeldCalls(Held'), Answered', posted')
    BY <1>2, <1>3, <1>5 DEF AtMost
  <2>2. Apart(Messages(ipc'), WorkCalls(worker'), Calls(queue'), HeldCalls(Held'), Answered')
    BY <1>2, <1>3, <1>4, <1>5 DEF Apart
  <2>3. QED
    BY <2>1, <2>2
<1>7. QED
  BY <1>2, <1>3, <1>5, <1>6 DEF Placed

\* The actions below leave every request where it is.
LEMMA PlacedSame ==
  ASSUME Placed, UNCHANGED <<ipc, queue, running, asyncs, answers, posted>>,
         WorkCalls(worker') = WorkCalls(worker), DistinctWorks(worker')
  PROVE  Placed'
<1>1. Held' = Held /\ Answered' = Answered /\ AnsweredOnce'
  BY DEF Held, Answered, AnsweredOnce, Placed
<1>2. QED
  BY <1>1 DEF Placed

LEMMA PlacedStep == Typed /\ Placed /\ [Next]_vars => Placed'
<1> SUFFICES ASSUME Typed, Placed, [Next]_vars PROVE Placed'
  OBVIOUS
<1> DEFINE M == Messages(ipc) W == WorkCalls(worker) C == Calls(queue) H == HeldCalls(Held) A == Answered
<1> USE DEF vars, session, fate, counters, events, client, clock, posts
<1>1. CASE PostHello \/ Post
  <2>1. PICK kind \in AllKinds \union {"hello"}, small \in BOOLEAN : Posts(kind, small)
    BY <1>1, BridgeAssumption DEF PostHello, Post
  <2>2. PICK req \in Request : req.id = posted + 1 /\ ipc' = Append(ipc, req)
    BY <2>1, PostsType
  <2>3. posted' = posted + 1 /\ UNCHANGED <<worker, queue, running, asyncs, answers>>
    BY <1>1 DEF PostHello, Post, Posts
  <2>4. posted \in Nat /\ ipc \in Seq(Request) /\ \A id \in M \union W \union C \union H \union A : id \in Nat
    BY IdTypes, Types DEF Typed
  <2>5. Apart(M, W, C, H, A) /\ AtMost(M, W, C, H, A, posted)
    BY DEF Placed
  <2>6. \A id \in M \union W \union C \union H \union A : id < posted + 1
    BY <2>4, <2>5 DEF AtMost
  <2>7. Rising(ipc') /\ Messages(ipc') = M \union {posted + 1}
    BY <2>2, <2>4, <2>6, MessageFacts DEF Placed
  <2>8. /\ Held' = Held /\ Answered' = A /\ AnsweredOnce' /\ WorkCalls(worker') = W /\ Calls(queue') = C
        /\ DistinctWorks(worker') /\ DistinctCalls(queue') /\ running' \notin asyncs' /\ DistinctHeld(Held')
    BY <2>3 DEF Held, Answered, AnsweredOnce, Placed
  <2>9. posted + 1 \notin M \union W \union C \union H \union A
    BY <2>4, <2>6
  <2> HIDE DEF M, W, C, H, A
  <2>10. AtMost(Messages(ipc'), WorkCalls(worker'), Calls(queue'), HeldCalls(Held'), Answered', posted')
    <3>1. \A id \in M \union W \union C \union H \union A : id <= posted + 1
      BY <2>4, <2>6
    <3>2. QED
      BY <2>3, <2>4, <2>7, <2>8, <3>1 DEF AtMost, H
  <2>11. Apart(Messages(ipc'), WorkCalls(worker'), Calls(queue'), HeldCalls(Held'), Answered')
    BY <2>5, <2>7, <2>8, <2>9 DEF Apart, H
  <2>12. QED
    BY <2>7, <2>8, <2>10, <2>11 DEF Placed
<1>2. ASSUME NEW id \in Ids, Expire(id) \/ PageTimeout(id) PROVE Placed'
  BY <1>2, PlacedSame DEF Expire, PageTimeout, Placed
<1>3. CASE Receive
  BY <1>3, PlacedReceive
<1>4. CASE Navigate
  <2>1. queue' = <<>> /\ UNCHANGED <<worker, ipc, running, asyncs, answers, posted>>
    BY <1>4 DEF Navigate
  <2>2. Calls(queue') = {} /\ DistinctCalls(queue')
    BY <2>1 DEF Calls, DistinctCalls
  <2>3. /\ Held' = Held /\ Answered' = A /\ AnsweredOnce' /\ WorkCalls(worker') = W /\ Messages(ipc') = M
        /\ DistinctWorks(worker') /\ Rising(ipc') /\ running' \notin asyncs' /\ DistinctHeld(Held')
    BY <2>1 DEF Held, Answered, AnsweredOnce, Placed
  <2>4. Apart(M, W, C, H, A) /\ AtMost(M, W, C, H, A, posted) /\ posted' = posted
    BY <2>1 DEF Placed
  <2> HIDE DEF M, W, C, H, A
  <2>5. Apart(Messages(ipc'), WorkCalls(worker'), Calls(queue'), HeldCalls(Held'), Answered')
    BY <2>2, <2>3, <2>4 DEF Apart, H
  <2>6. AtMost(Messages(ipc'), WorkCalls(worker'), Calls(queue'), HeldCalls(Held'), Answered', posted')
    BY <2>2, <2>3, <2>4 DEF AtMost, H
  <2>7. QED
    BY <2>2, <2>3, <2>5, <2>6 DEF Placed
<1>5. CASE Commit
  BY <1>5, PlacedSame DEF Commit, Placed
<1>6. CASE Take
  BY <1>6, PlacedTake
<1>7. CASE Dispatch
  BY <1>7, PlacedDispatch
<1>8. CASE Return
  <2>1. /\ running # NotRunning /\ running' = NotRunning /\ Reply(running, outstanding, document, FALSE)
        /\ UNCHANGED <<queue, ipc, posted, asyncs>>
    BY <1>8 DEF Return
  <2>2. running \in Held /\ Held' = Held \ {running}
    BY <2>1 DEF Held, Placed
  <2>3. running' \notin asyncs'
    BY <2>1, CallNotIdle, Types DEF Typed
  <2>4. QED
    BY <2>1, <2>2, <2>3, PlacedEnds
<1>9. ASSUME NEW call \in asyncs, Complete(call) PROVE Placed'
  <2>1. /\ asyncs' = asyncs \ {call} /\ UNCHANGED <<queue, ipc, posted, running>>
        /\ UNCHANGED <<worker, answers>> \/ Reply(call, outstanding, document, FALSE)
    BY <1>9 DEF Complete
  <2>2. call \in Held /\ Held' = Held \ {call} /\ running' \notin asyncs'
    BY <2>1 DEF Held, Placed
  <2>3. QED
    BY <2>1, <2>2, PlacedEnds
<1>10. CASE PushEvent \/ StateEvent
  <2>1. PICK w \in Works : ~IsCall(w) /\ worker' \in {worker, Append(worker, w)}
    BY <1>10, EventIs
  <2>2. UNCHANGED <<ipc, queue, running, asyncs, answers, posted>>
    BY <1>10, EventIs
  <2>3. WorkCalls(worker') = WorkCalls(worker) /\ DistinctWorks(worker')
    <3>1. worker \in Seq(Works) /\ DistinctWorks(worker)
      BY Types DEF Typed, Placed
    <3>2. QED
      BY <2>1, <3>1, WorkFacts
  <2>4. QED
    BY <2>2, <2>3, PlacedSame
<1>11. CASE Close \/ Break \/ Vanish \/ Overdue \/ ReadyTimeout \/ Teardown
  <2>1. UNCHANGED <<worker, ipc, queue, running, asyncs, answers, posted>>
    BY <1>11 DEF Close, Break, Vanish, Overdue, ReadyTimeout, Teardown
  <2>2. QED
    BY <2>1, PlacedSame DEF Placed
<1>12. CASE UNCHANGED vars
  BY <1>12, PlacedSame DEF Placed
<1>13. QED
  BY <1>1, <1>2, <1>3, <1>4, <1>5, <1>6, <1>7, <1>8, <1>9, <1>10, <1>11, <1>12 DEF Next

\* No request is answered twice, whatever crosses it: inline and encoded answers,
\* late completions, navigations while a modal call runs, refusals.
THEOREM BridgeAnswersOnce == Spec => []AnsweredOnce
<1>1. Init => Typed /\ Placed
  BY TypedInit, PlacedInit
<1>2. Typed /\ Placed /\ [Next]_vars => (Typed /\ Placed)'
  BY TypedStep, PlacedStep
<1>3. Placed => AnsweredOnce
  BY DEF Placed
<1>4. QED
  BY <1>1, <1>2, <1>3, PTL DEF Spec

-----------------------------------------------------------------------------
(* Layer 3: what Session::outstanding counts. *)

WorkOwed(q, g) ==
  {q[i].call.req.id : i \in {j \in DOMAIN q : IsCall(q[j]) /\ q[j].call.gen = g}}
HeldOwed(S, g) == {call.req.id : call \in {c \in S : c.gen = g}}

LEMMA OwedIs ==
  /\ Owed = WorkOwed(worker, generation) \union Calls(queue) \union HeldOwed(Held, generation)
  /\ Owed' = WorkOwed(worker', generation') \union Calls(queue') \union HeldOwed(Held', generation')
<1>1. ASSUME NEW q, NEW g
      PROVE  {w.call.req.id : w \in {v \in {q[i] : i \in DOMAIN q} :
                v.what \in {"Parse", "Reply", "File"} /\ v.call.gen = g}} = WorkOwed(q, g)
  BY DEF WorkOwed, IsCall
<1>2. Owed = WorkOwed(worker, generation) \union Calls(queue) \union HeldOwed(Held, generation)
  BY <1>1 DEF Owed, Calls, HeldOwed, Held
<1>3. Owed' = WorkOwed(worker', generation') \union Calls(queue') \union HeldOwed(Held', generation')
  BY <1>1 DEF Owed, Calls, HeldOwed, Held
<1>4. QED
  BY <1>2, <1>3

LEMMA WorkOwedFacts ==
  ASSUME NEW q \in Seq(Works), NEW g, DistinctWorks(q)
  PROVE  /\ WorkOwed(q, g) \subseteq WorkCalls(q)
         /\ q # <<>> /\ IsCall(Head(q)) /\ Head(q).call.gen = g
              => /\ Head(q).call.req.id \in WorkOwed(q, g)
                 /\ WorkOwed(Tail(q), g) = WorkOwed(q, g) \ {Head(q).call.req.id}
         /\ q # <<>> /\ ~(IsCall(Head(q)) /\ Head(q).call.gen = g)
              => WorkOwed(Tail(q), g) = WorkOwed(q, g)
         /\ \A w \in Works :
              WorkOwed(Append(q, w), g) = IF IsCall(w) /\ w.call.gen = g
                                          THEN WorkOwed(q, g) \union {w.call.req.id}
                                          ELSE WorkOwed(q, g)
<1>1. WorkOwed(q, g) \subseteq WorkCalls(q)
  BY DEF WorkOwed, WorkCalls
<1>2. ASSUME q # <<>>
      PROVE  /\ IsCall(Head(q)) /\ Head(q).call.gen = g
                  => /\ Head(q).call.req.id \in WorkOwed(q, g)
                     /\ WorkOwed(Tail(q), g) = WorkOwed(q, g) \ {Head(q).call.req.id}
             /\ ~(IsCall(Head(q)) /\ Head(q).call.gen = g)
                  => WorkOwed(Tail(q), g) = WorkOwed(q, g)
  <2> DEFINE Owes(w) == IsCall(w) /\ w.call.gen = g
  <2>1. Owes(Head(q)) => Head(q).call.req.id \in WorkOwed(q, g)
    BY <1>2, TailFacts DEF WorkOwed
  <2>2. ASSUME NEW i \in DOMAIN Tail(q), Owes(Tail(q)[i])
        PROVE  /\ Tail(q)[i].call.req.id \in WorkOwed(q, g)
               /\ Owes(Head(q)) => Tail(q)[i].call.req.id # Head(q).call.req.id
    <3>1. i + 1 \in DOMAIN q /\ Tail(q)[i] = q[i + 1] /\ 1 \in DOMAIN q /\ 1 # i + 1 /\ Head(q) = q[1]
      BY <1>2, <2>2, TailFacts
    <3>2. QED
      BY <2>2, <3>1 DEF WorkOwed, DistinctWorks
  <2>3. ASSUME NEW i \in DOMAIN q, Owes(q[i]), Owes(Head(q)) => q[i].call.req.id # Head(q).call.req.id
        PROVE  q[i].call.req.id \in WorkOwed(Tail(q), g)
    <3>1. i # 1
      BY <1>2, <2>3, TailFacts
    <3>2. i - 1 \in DOMAIN Tail(q) /\ Tail(q)[i - 1] = q[i]
      BY <1>2, <3>1, TailFacts
    <3>3. QED
      BY <2>3, <3>2 DEF WorkOwed
  <2>4. QED
    BY <2>1, <2>2, <2>3 DEF WorkOwed
<1>3. ASSUME NEW w \in Works
      PROVE  WorkOwed(Append(q, w), g) = IF IsCall(w) /\ w.call.gen = g
                                          THEN WorkOwed(q, g) \union {w.call.req.id}
                                          ELSE WorkOwed(q, g)
  BY AppendFacts DEF WorkOwed
<1>4. QED
  BY <1>1, <1>2, <1>3

LEMMA HeldOwedFacts ==
  ASSUME NEW S, NEW g, DistinctHeld(S), NEW call
  PROVE  /\ HeldOwed(S, g) \subseteq HeldCalls(S)
         /\ call \in S => HeldOwed(S \ {call}, g) = IF call.gen = g THEN HeldOwed(S, g) \ {call.req.id}
                                                                    ELSE HeldOwed(S, g)
         /\ call \in S /\ call.gen = g => call.req.id \in HeldOwed(S, g)
         /\ HeldOwed(S \union {call}, g) = IF call.gen = g THEN HeldOwed(S, g) \union {call.req.id}
                                                           ELSE HeldOwed(S, g)
  BY DEF HeldOwed, HeldCalls, DistinctHeld

\* An answer of the present document is given, or owed by the worker; one of a
\* document that was replaced changes nothing.
LEMMA ReplyOwes ==
  ASSUME Typed, NEW call \in Call, NEW out, NEW current, NEW shut, Reply(call, out, current, shut),
         DistinctWorks(worker), ~closing'
  PROVE  \/ /\ outstanding' = Dec(out) /\ call.gen = generation
            /\ WorkOwed(worker', generation) = WorkOwed(worker, generation)
         \/ /\ outstanding' = out
            /\ WorkOwed(worker', generation) = IF call.gen = generation
                                               THEN WorkOwed(worker, generation) \union {call.req.id}
                                               ELSE WorkOwed(worker, generation)
<1>0. worker \in Seq(Works)
  BY Types DEF Typed
<1>1. CASE Inlines(call, out, shut)
  BY <1>1 DEF Inlines
<1>2. CASE Encodes(call, out, shut)
  <2>1. WorkOwed(Append(worker, ReplyWork(call)), generation)
          = IF call.gen = generation THEN WorkOwed(worker, generation) \union {call.req.id}
                                     ELSE WorkOwed(worker, generation)
    BY <1>0, WorkOwedFacts, ReplyWorkType
  <2>2. QED
    BY <1>2, <2>1 DEF Encodes
<1>3. CASE GivesUp(out)
  BY <1>3 DEF GivesUp
<1>4. QED
  BY <1>1, <1>2, <1>3, ReplyIs

\* What is owed is a finite set of ids, so that one request more or less is one.
LEMMA OwedCounts ==
  ASSUME Typed, NEW x
  PROVE  /\ Cardinality(Owed) \in Nat
         /\ x \in Owed => Cardinality(Owed) # 0 /\ Cardinality(Owed \ {x}) = Cardinality(Owed) - 1
         /\ x \notin Owed => Cardinality(Owed \union {x}) = Cardinality(Owed) + 1
<1>1. IsFiniteSet(Ids)
  BY BridgeAssumption, FS_Interval DEF Ids
<1>2. Owed \subseteq Ids
  <2>1. WorkOwed(worker, generation) \subseteq WorkCalls(worker)
    BY DEF WorkOwed, WorkCalls
  <2>2. HeldOwed(Held, generation) \subseteq HeldCalls(Held)
    BY DEF HeldOwed, HeldCalls
  <2>3. QED
    BY <2>1, <2>2, OwedIs, IdTypes
<1>3. IsFiniteSet(Owed)
  BY <1>1, <1>2, FS_Subset
<1>4. Cardinality(Owed) \in Nat /\ (Cardinality(Owed) = 0 <=> Owed = {})
  BY <1>3, FS_CardinalityType, FS_EmptySet
<1>5. Cardinality(Owed \ {x}) = IF x \in Owed THEN Cardinality(Owed) - 1 ELSE Cardinality(Owed)
  BY <1>3, FS_RemoveElement
<1>6. Cardinality(Owed \union {x}) = IF x \in Owed THEN Cardinality(Owed) ELSE Cardinality(Owed) + 1
  BY <1>3, FS_AddElement
<1>7. QED
  BY <1>4, <1>5, <1>6

LEMMA ExactInit == Init => OutstandingExact
<1> SUFFICES ASSUME Init PROVE OutstandingExact
  OBVIOUS
<1>1. Owed = {} /\ outstanding = 0
  BY DEF Init, Owed
<1>2. QED
  BY <1>1, FS_EmptySet DEF OutstandingExact

\* What the steps below do to the count: nothing, one request more or one less.
LEMMA ExactMoves ==
  ASSUME Typed, OutstandingExact, ~closing, Alive, NEW x,
         \/ Owed' = Owed /\ outstanding' = outstanding
         \/ x \in Owed /\ Owed' = Owed \ {x} /\ outstanding' = Dec(outstanding)
         \/ x \notin Owed /\ Owed' = Owed \union {x} /\ outstanding' = outstanding + 1
  PROVE  outstanding' = Cardinality(Owed')
<1>1. outstanding = Cardinality(Owed) /\ outstanding \in Nat
  BY Types DEF OutstandingExact, Alive, Typed
<1>2. QED
  BY <1>1, OwedCounts, DecType

LEMMA ExactReceive == Typed /\ Placed /\ OutstandingExact /\ Receive => OutstandingExact'
<1> SUFFICES ASSUME Typed, Placed, OutstandingExact, Receive, ~closing', Alive'
             PROVE  outstanding' = Cardinality(Owed')
  BY DEF OutstandingExact, Alive
<1> DEFINE x == Head(ipc).id
           call == [req |-> Head(ipc), gen |-> generation]
           W == WorkOwed(worker, generation) C == Calls(queue) H == HeldOwed(Held, generation)
<1>1. /\ ipc # <<>> /\ ~closing /\ Alive /\ UNCHANGED <<generation, running, asyncs>>
      /\ ReceiveInput(Head(ipc)) \/ ReceiveRequest(Head(ipc))
  BY DEF Receive, Alive, session, fate, Fails
<1>2. worker \in Seq(Works) /\ queue \in Seq(Call) /\ ipc \in Seq(Request) /\ Head(ipc) \in Request
  BY <1>1, Types, TailFacts DEF Typed
<1>3. call \in Call /\ call.req.id = x /\ call.gen = generation /\ outstanding \in Nat
  BY <1>1, <1>2, GenerationType, Types DEF Call, Typed
<1>4. W \subseteq WorkCalls(worker) /\ H \subseteq HeldCalls(Held) /\ DistinctWorks(worker)
  BY <1>2, WorkOwedFacts, HeldOwedFacts DEF Placed
<1>5. x \notin W \union C \union H
  BY <1>1, <1>2, <1>4, MessageFacts DEF Placed, Apart
<1>6. HeldOwed(Held', generation') = H /\ Held' = Held /\ generation' = generation
  BY <1>1 DEF Held
<1>7. /\ Owed = W \union C \union H
      /\ Owed' = WorkOwed(worker', generation) \union Calls(queue') \union H
  BY <1>6, OwedIs
<1>8. \/ Owed' = Owed /\ outstanding' = outstanding
      \/ x \notin Owed /\ Owed' = Owed \union {x} /\ outstanding' = outstanding + 1
  <2>1. CASE ReceiveInput(Head(ipc))
    <3>1. Reply(call, outstanding + 1, document, FALSE) /\ queue' = queue
      BY <2>1 DEF ReceiveInput
    <3>2. \/ outstanding' = Dec(outstanding + 1) /\ WorkOwed(worker', generation) = W
          \/ outstanding' = outstanding + 1 /\ WorkOwed(worker', generation) = W \union {x}
      BY <1>3, <1>4, <3>1, ReplyOwes
    <3>3. Dec(outstanding + 1) = outstanding
      BY <1>3 DEF Dec
    <3> HIDE DEF W, C, H, x, call
    <3>4. QED
      BY <1>5, <1>7, <3>1, <3>2, <3>3 DEF C
  <2>2. CASE ReceiveRequest(Head(ipc))
    <3>1. CASE queue' = Append(queue, call) /\ outstanding' = outstanding + 1 /\ worker' = worker
      <4>1. Calls(queue') = C \union {x}
        BY <1>2, <1>3, <1>5, <3>1, CallFacts DEF Placed
      <4> HIDE DEF W, C, H, x, call
      <4>2. QED
        BY <1>5, <1>7, <3>1, <4>1 DEF W
    <3>2. CASE /\ worker' = Append(worker, [what |-> "Parse", call |-> call])
               /\ outstanding' = outstanding + 1 /\ queue' = queue
      <4> DEFINE work == [what |-> "Parse", call |-> call]
      <4>1. work \in Works /\ IsCall(work) /\ work.call = call
        BY <1>3 DEF Works, CallWork, IsCall
      <4>2. WorkOwed(worker', generation) = W \union {x}
        <5> HIDE DEF work, call, x
        <5>1. WorkOwed(Append(worker, work), generation) = W \union {work.call.req.id}
          BY <1>2, <1>3, <1>4, <4>1, WorkOwedFacts
        <5>2. QED
          BY <1>3, <3>2, <4>1, <5>1 DEF work
      <4> HIDE DEF W, C, H, x, call
      <4>3. QED
        BY <1>5, <1>7, <3>2, <4>2 DEF C
    <3>3. QED
      BY <2>2, <3>1, <3>2 DEF ReceiveRequest, Fails
  <2>3. QED
    BY <1>1, <2>1, <2>2
<1>9. QED
  BY <1>1, <1>8, ExactMoves

LEMMA ExactTake == Typed /\ Placed /\ OutstandingExact /\ Take => OutstandingExact'
<1> SUFFICES ASSUME Typed, Placed, OutstandingExact, Take, ~closing', Alive'
             PROVE  outstanding' = Cardinality(Owed')
  BY DEF OutstandingExact, Alive
<1> DEFINE w == Head(worker)
           x == w.call.req.id
           W == WorkOwed(worker, generation) C == Calls(queue) H == HeldOwed(Held, generation)
<1>1. /\ worker # <<>> /\ worker' = Tail(worker) /\ UNCHANGED <<generation, running, asyncs>>
      /\ ~closing /\ Alive
  BY DEF Take, session, fate, TakeRequest, TakeScript, Fails, Alive
<1>2. worker \in Seq(Works) /\ queue \in Seq(Call) /\ w \in Works
  BY <1>1, Types, TailFacts DEF Typed
<1>3. WorkOwed(worker', generation) = IF IsCall(w) /\ w.call.gen = generation THEN W \ {x} ELSE W
  BY <1>1, <1>2, WorkOwedFacts DEF Placed
<1>4. IsCall(w) /\ w.call.gen = generation => x \in W
  BY <1>1, <1>2, WorkOwedFacts DEF Placed
<1>5. W \subseteq WorkCalls(worker) /\ H \subseteq HeldCalls(Held)
  BY <1>2, WorkOwedFacts, HeldOwedFacts DEF Placed
<1>6. /\ Owed = W \union C \union H
      /\ Owed' = WorkOwed(worker', generation) \union Calls(queue') \union H
  <2>1. Held' = Held /\ generation' = generation
    BY <1>1 DEF Held
  <2>2. QED
    BY <2>1, OwedIs
<1>7. IsCall(w) /\ w.call.gen = generation => x \notin C \union H
  BY <1>4, <1>5 DEF Placed, Apart
<1>8. \/ Owed' = Owed /\ outstanding' = outstanding
      \/ x \in Owed /\ Owed' = Owed \ {x} /\ outstanding' = Dec(outstanding)
  <2>1. CASE Dropped(w)
    <3>1. ~(IsCall(w) /\ w.call.gen = generation)
      BY <1>1, <2>1 DEF Dropped, WorkGeneration, IsCall
    <3>2. queue' = queue /\ outstanding' = outstanding
      BY <2>1 DEF Take, counters
    <3>3. QED
      BY <1>3, <1>6, <3>1, <3>2
  <2>2. CASE ~Dropped(w) /\ w.what = "Parse" /\ w.call.req.kind # "bad"
    <3>1. queue' = Append(queue, w.call) /\ outstanding' = outstanding
      BY <1>1, <2>2 DEF Take, TakeRequest, counters
    <3>2. IsCall(w) /\ w.call.gen = generation /\ w.call \in Call
      BY <1>2, <2>2 DEF Dropped, WorkGeneration, IsCall, Works, CallWork, EventWork
    <3>3. Calls(queue') = C \union {x}
      BY <1>2, <1>7, <3>1, <3>2, CallFacts DEF Placed
    <3>4. WorkOwed(worker', generation) = W \ {x} /\ x \in W
      BY <1>3, <1>4, <3>2
    <3> HIDE DEF W, C, H, x, w
    <3>5. QED
      BY <1>6, <3>1, <3>3, <3>4
  <2>3. CASE ~Dropped(w) /\ ~(w.what = "Parse" /\ w.call.req.kind # "bad")
    <3>1. TakeScript(w) /\ queue' = queue
      BY <2>3 DEF Take, TakeScript
    <3>2. CASE w.what \in {"Push", "State"}
      <4>1. outstanding' = outstanding /\ ~IsCall(w)
        BY <3>1, <3>2 DEF TakeScript, IsCall
      <4>2. QED
        BY <1>3, <1>6, <3>1, <4>1
    <3>3. CASE w.what \notin {"Push", "State"}
      <4>1. IsCall(w) /\ w.call.gen = generation /\ outstanding' = Dec(outstanding)
        BY <1>2, <2>3, <3>1, <3>3 DEF TakeScript, Dropped, WorkGeneration, IsCall, Works, CallWork, EventWork
      <4>2. WorkOwed(worker', generation) = W \ {x} /\ x \in W /\ x \notin C \union H
        BY <1>3, <1>4, <1>7, <4>1
      <4> HIDE DEF W, C, H, x, w
      <4>3. QED
        BY <1>6, <3>1, <4>1, <4>2 DEF C
    <3>4. QED
      BY <3>2, <3>3
  <2>4. QED
    BY <2>1, <2>2, <2>3
<1>9. QED
  <2> HIDE DEF x, w
  <2>1. QED
    BY <1>1, <1>8, ExactMoves

LEMMA ExactDispatch == Typed /\ Placed /\ OutstandingExact /\ Dispatch => OutstandingExact'
<1> SUFFICES ASSUME Typed, Placed, OutstandingExact, Dispatch, ~closing', Alive'
             PROVE  outstanding' = Cardinality(Owed')
  BY DEF OutstandingExact, Alive
<1> DEFINE call == Head(queue)
           x == call.req.id
           W == WorkOwed(worker, generation) C == Calls(queue) H == HeldOwed(Held, generation)
<1>1. /\ queue # <<>> /\ queue' = Tail(queue) /\ generation' = generation /\ running = NotRunning
      /\ ~closing /\ Alive
      /\ DispatchRefused(call) \/ DispatchHello(call) \/ DispatchCall(call)
  BY DEF Dispatch
<1>2. worker \in Seq(Works) /\ queue \in Seq(Call) /\ call \in Call /\ call.gen = generation /\ outstanding \in Nat
  <2>1. worker \in Seq(Works) /\ queue \in Seq(Call) /\ outstanding \in Nat
    BY Types DEF Typed
  <2>2. call \in Call /\ call = queue[1] /\ 1 \in DOMAIN queue
    BY <1>1, <2>1, TailFacts
  <2>3. QED
    BY <2>1, <2>2 DEF Typed, Current
<1>3. x \in C /\ Calls(queue') = C \ {x}
  BY <1>1, <1>2, CallFacts DEF Placed
<1>4. W \subseteq WorkCalls(worker) /\ H \subseteq HeldCalls(Held) /\ DistinctWorks(worker) /\ DistinctHeld(Held)
  BY <1>2, WorkOwedFacts, HeldOwedFacts DEF Placed
<1>5. x \notin W \union H
  BY <1>3, <1>4 DEF Placed, Apart
<1>6. /\ Owed = W \union C \union H
      /\ Owed' = WorkOwed(worker', generation) \union Calls(queue') \union HeldOwed(Held', generation)
  BY <1>1, OwedIs
<1>7. \/ Owed' = Owed /\ outstanding' = outstanding
      \/ x \in Owed /\ Owed' = Owed \ {x} /\ outstanding' = Dec(outstanding)
  <2>1. CASE UNCHANGED <<running, asyncs>> /\ \E current, shut : Reply(call, outstanding, current, shut)
    <3>1. PICK current, shut : Reply(call, outstanding, current, shut)
      BY <2>1
    <3>2. HeldOwed(Held', generation) = H
      BY <2>1 DEF Held
    <3>3. \/ outstanding' = Dec(outstanding) /\ WorkOwed(worker', generation) = W
          \/ outstanding' = outstanding /\ WorkOwed(worker', generation) = W \union {x}
      BY <1>2, <1>4, <3>1, ReplyOwes
    <3> HIDE DEF W, C, H, x, call
    <3>4. QED
      BY <1>3, <1>5, <1>6, <3>2, <3>3
  <2>2. CASE UNCHANGED <<running, asyncs, outstanding>> /\ worker' = Append(worker, [what |-> "File", call |-> call])
    <3> DEFINE work == [what |-> "File", call |-> call]
    <3>1. work \in Works /\ IsCall(work) /\ work.call = call
      BY <1>2 DEF Works, CallWork, IsCall
    <3>2. WorkOwed(worker', generation) = W \union {x}
      <4> HIDE DEF work, call
      <4>1. WorkOwed(Append(worker, work), generation) = W \union {work.call.req.id}
        BY <1>2, <1>4, <3>1, WorkOwedFacts
      <4>2. QED
        BY <2>2, <3>1, <4>1 DEF work
    <3>3. HeldOwed(Held', generation) = H
      BY <2>2 DEF Held
    <3>4. outstanding' = outstanding
      BY <2>2
    <3> HIDE DEF W, C, H, x, call
    <3>5. QED
      BY <1>3, <1>6, <3>2, <3>3, <3>4
  <2>3. CASE UNCHANGED <<worker, outstanding>> /\ Held' = Held \union {call}
    <3>1. HeldOwed(Held', generation) = H \union {x}
      BY <1>2, <1>4, <2>3, HeldOwedFacts
    <3>2. WorkOwed(worker', generation) = W /\ outstanding' = outstanding
      BY <2>3
    <3> HIDE DEF W, C, H, x, call
    <3>3. QED
      BY <1>3, <1>6, <3>1, <3>2
  <2>4. QED
    <3>1. CASE DispatchRefused(call) \/ DispatchHello(call)
      BY <2>1, <3>1 DEF DispatchRefused, DispatchHello
    <3>2. CASE DispatchCall(call)
      <4>1. CASE call.req.kind = "modal"
        BY <1>1, <1>2, <2>3, <3>2, <4>1, CallNotIdle DEF DispatchCall, Held, counters
      <4>2. CASE call.req.kind = "async"
        BY <1>1, <2>3, <3>2, <4>2 DEF DispatchCall, Held, counters
      <4>3. CASE call.req.kind = "file"
        BY <2>1, <2>2, <3>2, <4>3 DEF DispatchCall, StartFile
      <4>4. CASE call.req.kind \notin {"modal", "async", "file"}
        BY <2>1, <3>2, <4>4 DEF DispatchCall
      <4>5. QED
        BY <4>1, <4>2, <4>3, <4>4
    <3>3. QED
      BY <1>1, <3>1, <3>2
<1>8. QED
  <2> HIDE DEF x, call
  <2>1. QED
    BY <1>1, <1>7, ExactMoves

\* A native call that ends: answered or not, it is counted while it is of this document.
LEMMA ExactEnds ==
  ASSUME Typed, Placed, OutstandingExact, ~closing, Alive, ~closing',
         NEW call \in Held, Held' = Held \ {call}, UNCHANGED <<queue, generation>>,
         \/ UNCHANGED <<worker, outstanding>> /\ call.gen # generation
         \/ Reply(call, outstanding, document, FALSE)
  PROVE  outstanding' = Cardinality(Owed')
<1> DEFINE x == call.req.id
           W == WorkOwed(worker, generation) C == Calls(queue) H == HeldOwed(Held, generation)
<1>1. call \in Call /\ worker \in Seq(Works)
  BY Types DEF Typed, Held
<1>2. /\ HeldOwed(Held', generation) = IF call.gen = generation THEN H \ {x} ELSE H
      /\ call.gen = generation => x \in H
      /\ x \in HeldCalls(Held)
  <2>1. DistinctHeld(Held)
    BY DEF Placed
  <2>2. x \in HeldCalls(Held)
    BY DEF HeldCalls
  <2>3. /\ HeldOwed(Held \ {call}, generation) = IF call.gen = generation THEN H \ {x} ELSE H
        /\ call.gen = generation => x \in H
    BY <2>1, HeldOwedFacts
  <2>4. QED
    BY <2>2, <2>3
<1>3. W \subseteq WorkCalls(worker) /\ DistinctWorks(worker)
  BY <1>1, WorkOwedFacts DEF Placed
<1>4. x \notin W \union C
  BY <1>2, <1>3 DEF Placed, Apart
<1>5. /\ Owed = W \union C \union H
      /\ Owed' = WorkOwed(worker', generation) \union C \union HeldOwed(Held', generation)
  BY OwedIs
<1>6. \/ Owed' = Owed /\ outstanding' = outstanding
      \/ x \in Owed /\ Owed' = Owed \ {x} /\ outstanding' = Dec(outstanding)
  <2>1. CASE UNCHANGED <<worker, outstanding>> /\ call.gen # generation
    BY <1>2, <1>5, <2>1
  <2>2. CASE Reply(call, outstanding, document, FALSE)
    <3>1. \/ /\ outstanding' = Dec(outstanding) /\ call.gen = generation
             /\ WorkOwed(worker', generation) = W
          \/ /\ outstanding' = outstanding
             /\ WorkOwed(worker', generation) = IF call.gen = generation THEN W \union {x} ELSE W
      BY <1>1, <1>3, <2>2, ReplyOwes
    <3> HIDE DEF W, C, H, x
    <3>2. QED
      BY <1>2, <1>4, <1>5, <3>1
  <2>3. QED
    BY <2>1, <2>2
<1>7. QED
  <2> HIDE DEF x
  <2>1. QED
    BY <1>6, ExactMoves

\* The actions below owe what was owed.
LEMMA ExactSame ==
  ASSUME OutstandingExact, UNCHANGED <<generation, queue, running, asyncs, outstanding>>,
         closing' \/ ~closing, Alive' => Alive,
         WorkOwed(worker', generation) = WorkOwed(worker, generation)
  PROVE  OutstandingExact'
<1>1. Owed' = Owed
  BY OwedIs DEF Held
<1>2. QED
  BY <1>1 DEF OutstandingExact, Alive

LEMMA ExactStep == Typed /\ Placed /\ OutstandingExact /\ [Next]_vars => OutstandingExact'
<1> SUFFICES ASSUME Typed, Placed, OutstandingExact, [Next]_vars PROVE OutstandingExact'
  OBVIOUS
<1> USE DEF vars, session, fate, counters, events, client, clock, posts
<1>1. CASE PostHello \/ Post
  <2>1. UNCHANGED <<generation, queue, running, asyncs, outstanding, closing, window, worker>>
    BY <1>1 DEF PostHello, Post
  <2>2. QED
    BY <2>1, ExactSame DEF Alive
<1>2. ASSUME NEW id \in Ids, Expire(id) \/ PageTimeout(id) PROVE OutstandingExact'
  <2>1. UNCHANGED <<generation, queue, running, asyncs, outstanding, closing, window, worker>>
    BY <1>2 DEF Expire, PageTimeout
  <2>2. QED
    BY <2>1, ExactSame DEF Alive
<1>3. CASE Receive
  BY <1>3, ExactReceive
<1>4. CASE Navigate
  <2>1. generation' = generation + 1 /\ queue' = <<>> /\ outstanding' = 0 /\ UNCHANGED <<worker, running, asyncs>>
    BY <1>4 DEF Navigate
  <2>2. generation \in Nat /\ worker \in Seq(Works)
    BY Types DEF Typed
  <2>3. WorkOwed(worker', generation') = {}
    <3>1. ASSUME NEW i \in DOMAIN worker, IsCall(worker[i]) PROVE worker[i].call.gen # generation + 1
      <4>1. WorkGeneration(worker[i]) <= generation
        BY DEF Typed, Current
      <4>2. WorkGeneration(worker[i]) = worker[i].call.gen
        BY <3>1 DEF WorkGeneration, IsCall
      <4>3. QED
        BY <2>2, <4>1, <4>2
    <3>2. QED
      BY <2>1, <3>1 DEF WorkOwed
  <2>4. HeldOwed(Held', generation') = {}
    <3>1. ASSUME NEW call \in Held PROVE call.gen # generation + 1
      BY <2>2 DEF Typed, Current
    <3>2. QED
      BY <2>1, <3>1 DEF HeldOwed, Held
  <2>5. Calls(queue') = {}
    BY <2>1 DEF Calls
  <2>6. Owed' = {}
    BY <2>3, <2>4, <2>5, OwedIs
  <2>7. QED
    BY <2>1, <2>6, FS_EmptySet DEF OutstandingExact
<1>5. CASE Commit
  <2>1. UNCHANGED <<generation, queue, running, asyncs, outstanding, closing, window, worker>>
    BY <1>5 DEF Commit
  <2>2. QED
    BY <2>1, ExactSame DEF Alive
<1>6. CASE Take
  BY <1>6, ExactTake
<1>7. CASE Dispatch
  BY <1>7, ExactDispatch
<1>8. CASE Return
  <2>1. /\ running # NotRunning /\ running' = NotRunning /\ Reply(running, outstanding, document, FALSE)
        /\ UNCHANGED <<queue, generation, asyncs, window>>
    BY <1>8 DEF Return
  <2>2. running \in Held /\ Held' = Held \ {running}
    BY <2>1 DEF Held, Placed
  <2>3. closing' \/ ~closing
    BY <2>1, ReplyIs DEF Inlines, Encodes, GivesUp
  <2>4. ~closing' /\ Alive => outstanding' = Cardinality(Owed')
    BY <2>1, <2>2, <2>3, ExactEnds
  <2>5. QED
    BY <2>1, <2>4 DEF OutstandingExact, Alive
<1>9. ASSUME NEW call \in asyncs, Complete(call) PROVE OutstandingExact'
  <2>1. asyncs' = asyncs \ {call} /\ UNCHANGED <<queue, generation, running, window>>
    BY <1>9 DEF Complete
  <2>2. call \in Held /\ Held' = Held \ {call}
    BY <2>1 DEF Held, Placed
  <2>3. \/ closing' \/ ~Alive
        \/ /\ ~closing /\ Alive
           /\ \/ UNCHANGED <<worker, outstanding>> /\ call.gen # generation
              \/ Reply(call, outstanding, document, FALSE)
    <3>1. CASE closing \/ ~Alive
      BY <1>9, <3>1 DEF Complete
    <3>2. CASE ~closing /\ Alive /\ call.gen # generation
      BY <1>9, <3>2 DEF Complete
    <3>3. CASE ~closing /\ Alive /\ call.gen = generation
      BY <1>9, <3>3 DEF Complete
    <3>4. QED
      BY <3>1, <3>2, <3>3
  <2>4. ~closing' /\ Alive => outstanding' = Cardinality(Owed')
    BY <2>1, <2>2, <2>3, ExactEnds
  <2>5. QED
    BY <2>1, <2>4 DEF OutstandingExact, Alive
<1>10. CASE PushEvent \/ StateEvent
  <2>1. PICK w \in Works : ~IsCall(w) /\ worker' \in {worker, Append(worker, w)}
    BY <1>10, EventIs
  <2>2. UNCHANGED <<generation, queue, running, asyncs, outstanding, window>>
    BY <1>10, EventIs
  <2>3. WorkOwed(worker', generation) = WorkOwed(worker, generation)
    <3>1. worker \in Seq(Works) /\ DistinctWorks(worker)
      BY Types DEF Typed, Placed
    <3>2. WorkOwed(Append(worker, w), generation) = WorkOwed(worker, generation)
      BY <2>1, <3>1, WorkOwedFacts
    <3>3. QED
      BY <2>1, <2>2, <3>2
  <2>4. ~closing
    BY <1>10 DEF PushEvent, StateEvent
  <2>5. QED
    BY <2>2, <2>3, <2>4, ExactSame DEF Alive
<1>11. CASE Close \/ Break \/ Vanish \/ Overdue \/ ReadyTimeout \/ Teardown
  <2>1. /\ UNCHANGED <<generation, queue, running, asyncs, outstanding, worker>>
        /\ closing' \/ ~closing
        /\ Alive' => Alive
    BY <1>11 DEF Close, Break, Vanish, Overdue, ReadyTimeout, Teardown, Alive, Shuts, Fails
  <2>2. QED
    BY <2>1, ExactSame
<1>12. CASE UNCHANGED vars
  BY <1>12, ExactSame DEF Alive
<1>13. QED
  BY <1>1, <1>2, <1>3, <1>4, <1>5, <1>6, <1>7, <1>8, <1>9, <1>10, <1>11, <1>12 DEF Next

-----------------------------------------------------------------------------
(* Layer 4: what Session::output_pending covers. *)

Output(q, g) == {i \in DOMAIN q : Counted(q[i]) /\ WorkGeneration(q[i]) = g}

LEMMA OutputIs == CountedOutput = Output(worker, generation) /\ CountedOutput' = Output(worker', generation')
  BY DEF CountedOutput, Output, Counted, WorkGeneration

LEMMA OutputFinite ==
  ASSUME NEW q \in Seq(Works), NEW g
  PROVE  /\ IsFiniteSet(Output(q, g)) /\ Cardinality(Output(q, g)) \in Nat
         /\ Cardinality(Output(q, g)) = 0 <=> Output(q, g) = {}
<1>1. DOMAIN q = 1 .. Len(q) /\ Len(q) \in Nat
  BY ElementFacts
<1>2. IsFiniteSet(DOMAIN q)
  BY <1>1, FS_Interval
<1>3. Output(q, g) \in SUBSET (DOMAIN q)
  BY DEF Output
<1>4. IsFiniteSet(Output(q, g))
  BY <1>2, <1>3, FS_Subset
<1>5. QED
  BY <1>4, FS_CardinalityType, FS_EmptySet

\* The first work leaves and the others move up.
LEMMA OutputTail ==
  ASSUME NEW q \in Seq(Works), NEW g, q # <<>>
  PROVE  IF Counted(Head(q)) /\ WorkGeneration(Head(q)) = g
         THEN /\ Cardinality(Output(q, g)) # 0
              /\ Cardinality(Output(Tail(q), g)) = Cardinality(Output(q, g)) - 1
         ELSE Cardinality(Output(Tail(q), g)) = Cardinality(Output(q, g))
<1> DEFINE S == Output(Tail(q), g)
           T == Output(q, g) \ {1}
           F == [i \in S |-> i + 1]
<1>1. /\ Tail(q) \in Seq(Works) /\ Len(q) \in Nat \ {0} /\ Head(q) = q[1]
      /\ DOMAIN q = 1 .. Len(q) /\ DOMAIN Tail(q) = 1 .. Len(q) - 1
      /\ \A i \in 1 .. Len(q) - 1 : Tail(q)[i] = q[i + 1]
  BY TailFacts
<1>2. \A i \in S : i \in Nat /\ i + 1 \in T
  BY <1>1 DEF Output
<1>3. \A j \in T : j - 1 \in S /\ j - 1 + 1 = j
  BY <1>1 DEF Output
<1> HIDE DEF S, T
<1>4. F \in [S -> T] /\ \A a, b \in S : F[a] = F[b] => a = b
  BY <1>2
<1>5. \A t \in T : \E i \in S : F[i] = t
  BY <1>3
<1>6. F \in Bijection(S, T)
  BY <1>4, <1>5, Fun_IsBij
<1>7. ExistsBijection(S, T)
  BY <1>6, Fun_ExistsBij
<1>8. IsFiniteSet(S) /\ IsFiniteSet(Output(q, g))
  BY <1>1, OutputFinite DEF S
<1>9. Cardinality(T) = Cardinality(S)
  BY <1>7, <1>8, FS_Bijection
<1>10. Cardinality(T) = IF 1 \in Output(q, g) THEN Cardinality(Output(q, g)) - 1 ELSE Cardinality(Output(q, g))
  BY <1>8, FS_RemoveElement DEF T
<1>11. 1 \in Output(q, g) <=> Counted(Head(q)) /\ WorkGeneration(Head(q)) = g
  BY <1>1 DEF Output
<1>12. 1 \in Output(q, g) => Cardinality(Output(q, g)) # 0
  BY OutputFinite
<1>13. QED
  BY <1>9, <1>10, <1>11, <1>12 DEF S

LEMMA OutputAppend ==
  ASSUME NEW q \in Seq(Works), NEW g, NEW w \in Works
  PROVE  Cardinality(Output(Append(q, w), g)) = IF Counted(w) /\ WorkGeneration(w) = g
                                                THEN Cardinality(Output(q, g)) + 1
                                                ELSE Cardinality(Output(q, g))
<1>1. /\ Len(q) \in Nat /\ DOMAIN q = 1 .. Len(q) /\ DOMAIN Append(q, w) = 1 .. Len(q) + 1
      /\ \A i \in 1 .. Len(q) : Append(q, w)[i] = q[i]
      /\ Append(q, w)[Len(q) + 1] = w
  BY AppendFacts
<1>2. Output(Append(q, w), g) = IF Counted(w) /\ WorkGeneration(w) = g
                                THEN Output(q, g) \union {Len(q) + 1} ELSE Output(q, g)
  BY <1>1 DEF Output
<1>3. Len(q) + 1 \notin Output(q, g)
  BY <1>1 DEF Output
<1>4. Cardinality(Output(q, g) \union {Len(q) + 1}) = Cardinality(Output(q, g)) + 1
  BY <1>3, OutputFinite, FS_AddElement
<1>5. QED
  BY <1>2, <1>4

\* output_pending exceeds the counted output by at most one, and not at all while a
\* modal call of a replaced document still runs: its answer may add that one.
Old(call) == call # NotRunning /\ call.gen # generation
Covered ==
  Alive => \/ outputPending = Cardinality(CountedOutput)
           \/ outputPending = Cardinality(CountedOutput) + 1 /\ ~Old(running)

LEMMA CoveredInit == Init => Covered
<1> SUFFICES ASSUME Init PROVE Covered
  OBVIOUS
<1>1. CountedOutput = {} /\ outputPending = 0
  BY DEF Init, CountedOutput
<1>2. QED
  BY <1>1, FS_EmptySet DEF Covered

\* An answer of the present document counts what it adds; one of a replaced document
\* may count one that is never given back.
LEMMA ReplyCovers ==
  ASSUME Typed, NEW call \in Call, NEW out, NEW current, NEW shut, Reply(call, out, current, shut),
         UNCHANGED generation
  PROVE  \/ /\ outputPending' = outputPending
            /\ Cardinality(CountedOutput') = Cardinality(CountedOutput)
         \/ /\ outputPending' = outputPending + 1
            /\ Cardinality(CountedOutput') = IF call.gen = generation THEN Cardinality(CountedOutput) + 1
                                                                      ELSE Cardinality(CountedOutput)
<1>0. worker \in Seq(Works)
  BY Types DEF Typed
<1>1. Cardinality(Output(Append(worker, ReplyWork(call)), generation))
        = IF call.gen = generation THEN Cardinality(Output(worker, generation)) + 1
                                   ELSE Cardinality(Output(worker, generation))
  BY <1>0, OutputAppend, ReplyWorkType
<1>2. QED
  BY <1>1, ReplyIs, OutputIs DEF Inlines, Encodes, GivesUp

\* Counter and output change together, and no call of a replaced document begins.
LEMMA CoveredMoves ==
  ASSUME Typed, Covered, Alive' => Alive, ~Old(running)' \/ UNCHANGED <<running, generation>>,
         \/ /\ outputPending' = outputPending
            /\ Cardinality(CountedOutput') = Cardinality(CountedOutput)
         \/ /\ outputPending' = outputPending + 1
            /\ Cardinality(CountedOutput') = Cardinality(CountedOutput) + 1
         \/ /\ Cardinality(CountedOutput) # 0 /\ outputPending' = Dec(outputPending)
            /\ Cardinality(CountedOutput') = Cardinality(CountedOutput) - 1
  PROVE  Covered'
<1>1. outputPending \in Nat /\ Cardinality(CountedOutput) \in Nat
  BY Types, OutputFinite, OutputIs DEF Typed
<1>2. ASSUME Alive'
      PROVE  \/ outputPending' = Cardinality(CountedOutput')
             \/ outputPending' = Cardinality(CountedOutput') + 1 /\ ~Old(running)'
  <2>1. \/ outputPending = Cardinality(CountedOutput)
        \/ outputPending = Cardinality(CountedOutput) + 1 /\ ~Old(running)
    BY <1>2 DEF Covered
  <2>2. Old(running)' => Old(running)
    BY DEF Old
  <2>3. \/ outputPending' = outputPending
           /\ Cardinality(CountedOutput') = Cardinality(CountedOutput)
        \/ outputPending' = outputPending + 1
           /\ Cardinality(CountedOutput') = Cardinality(CountedOutput) + 1
        \/ Cardinality(CountedOutput) # 0 /\ outputPending' = outputPending - 1
           /\ Cardinality(CountedOutput') = Cardinality(CountedOutput) - 1
    <3>1. Cardinality(CountedOutput) # 0 => outputPending # 0
      BY <1>1, <2>1
    <3>2. QED
      BY <1>1, <3>1, DecType
  <2>4. QED
    BY <1>1, <2>1, <2>2, <2>3
<1>3. QED
  BY <1>2 DEF Covered

LEMMA CoveredReceive == Typed /\ Covered /\ Receive => Covered'
<1> SUFFICES ASSUME Typed, Covered, Receive PROVE Covered'
  OBVIOUS
<1> DEFINE call == [req |-> Head(ipc), gen |-> generation]
<1>1. ipc # <<>> /\ UNCHANGED <<generation, running, window>>
  BY DEF Receive, session
<1>2. worker \in Seq(Works) /\ call \in Call
  BY <1>1, Types, TailFacts, GenerationType DEF Typed, Call
<1>3. \/ /\ outputPending' = outputPending
         /\ Cardinality(CountedOutput') = Cardinality(CountedOutput)
      \/ /\ outputPending' = outputPending + 1
         /\ Cardinality(CountedOutput') = Cardinality(CountedOutput) + 1
  <2>1. CASE UNCHANGED <<worker, outputPending>>
    BY <1>1, <2>1, OutputIs
  <2>2. CASE Reply(call, outstanding + 1, document, FALSE)
    BY <1>1, <1>2, <2>2, ReplyCovers
  <2>3. CASE worker' = Append(worker, [what |-> "Parse", call |-> call]) /\ UNCHANGED outputPending
    <3>1. [what |-> "Parse", call |-> call] \in Works /\ ~Counted([what |-> "Parse", call |-> call])
      BY <1>2 DEF Works, CallWork, Counted
    <3>2. Cardinality(Output(worker', generation)) = Cardinality(Output(worker, generation))
      BY <1>2, <2>3, <3>1, OutputAppend
    <3>3. QED
      BY <1>1, <2>3, <3>2, OutputIs
  <2>4. QED
    BY <2>1, <2>2, <2>3 DEF Receive, ReceiveInput, ReceiveRequest, counters
<1>4. QED
  BY <1>1, <1>3, CoveredMoves DEF Alive

LEMMA CoveredTake == Typed /\ Covered /\ Take => Covered'
<1> SUFFICES ASSUME Typed, Covered, Take PROVE Covered'
  OBVIOUS
<1> DEFINE w == Head(worker)
<1>1. worker # <<>> /\ worker' = Tail(worker) /\ UNCHANGED <<generation, running, window>>
  BY DEF Take, session
<1>2. worker \in Seq(Works) /\ w \in Works
  BY <1>1, Types, TailFacts DEF Typed
<1>3. IF Counted(w) /\ WorkGeneration(w) = generation
      THEN /\ Cardinality(CountedOutput) # 0
           /\ Cardinality(CountedOutput') = Cardinality(CountedOutput) - 1
      ELSE Cardinality(CountedOutput') = Cardinality(CountedOutput)
  BY <1>1, <1>2, OutputTail, OutputIs
<1>4. Alive => outputPending' = IF Counted(w) /\ WorkGeneration(w) = generation THEN Dec(outputPending)
                                                                               ELSE outputPending
  <2>1. CASE Dropped(w)
    BY <2>1 DEF Take, Dropped, counters
  <2>2. CASE ~Dropped(w) /\ w.what = "Parse" /\ w.call.req.kind # "bad"
    BY <2>2 DEF Take, TakeRequest, Counted, counters
  <2>3. CASE ~Dropped(w) /\ ~(w.what = "Parse" /\ w.call.req.kind # "bad")
    BY <2>3 DEF Take, TakeScript, Dropped
  <2>4. QED
    BY <2>1, <2>2, <2>3
<1>5. CASE ~Alive
  BY <1>1, <1>5 DEF Covered, Alive
<1>6. CASE Alive
  BY <1>1, <1>3, <1>4, <1>6, CoveredMoves
<1>7. QED
  BY <1>5, <1>6

LEMMA CoveredDispatch == Typed /\ Covered /\ Dispatch => Covered'
<1> SUFFICES ASSUME Typed, Covered, Dispatch PROVE Covered'
  OBVIOUS
<1> DEFINE call == Head(queue)
<1>1. /\ queue # <<>> /\ UNCHANGED <<generation, window>> /\ running = NotRunning
      /\ DispatchRefused(call) \/ DispatchHello(call) \/ DispatchCall(call)
  BY DEF Dispatch
<1>2. worker \in Seq(Works) /\ call \in Call /\ call.gen = generation
  <2>1. worker \in Seq(Works) /\ queue \in Seq(Call)
    BY Types DEF Typed
  <2>2. call \in Call /\ call = queue[1] /\ 1 \in DOMAIN queue
    BY <1>1, <2>1, TailFacts
  <2>3. QED
    BY <2>1, <2>2 DEF Typed, Current
<1>3. \/ /\ outputPending' = outputPending
         /\ Cardinality(CountedOutput') = Cardinality(CountedOutput)
      \/ /\ outputPending' = outputPending + 1
         /\ Cardinality(CountedOutput') = Cardinality(CountedOutput) + 1
  <2>1. CASE UNCHANGED <<worker, outputPending>>
    BY <1>1, <2>1, OutputIs
  <2>2. CASE \E current, shut : Reply(call, outstanding, current, shut)
    BY <1>1, <1>2, <2>2, ReplyCovers
  <2>3. CASE worker' = Append(worker, [what |-> "File", call |-> call]) /\ outputPending' = outputPending + 1
    <3>1. /\ [what |-> "File", call |-> call] \in Works /\ Counted([what |-> "File", call |-> call])
          /\ WorkGeneration([what |-> "File", call |-> call]) = generation
      BY <1>2 DEF Works, CallWork, Counted, WorkGeneration
    <3>2. Cardinality(Output(worker', generation)) = Cardinality(Output(worker, generation)) + 1
      BY <1>2, <2>3, <3>1, OutputAppend
    <3>3. QED
      BY <1>1, <2>3, <3>2, OutputIs
  <2>4. QED
    BY <1>1, <2>1, <2>2, <2>3 DEF DispatchRefused, DispatchHello, DispatchCall, StartFile, counters
<1>4. ~Old(running)'
  BY <1>1, <1>2 DEF DispatchRefused, DispatchHello, DispatchCall, Old
<1>5. QED
  BY <1>1, <1>3, <1>4, CoveredMoves DEF Alive

LEMMA CoveredStep == Typed /\ Covered /\ [Next]_vars => Covered'
<1> SUFFICES ASSUME Typed, Covered, [Next]_vars PROVE Covered'
  OBVIOUS
<1> USE DEF vars, session, fate, counters, events, client, clock, posts
<1>1. CASE PostHello \/ Post \/ Commit \/ UNCHANGED vars
  <2>1. UNCHANGED <<generation, running, window, worker, outputPending>>
    BY <1>1 DEF PostHello, Post, Commit
  <2>2. QED
    BY <2>1, CoveredMoves, OutputIs DEF Alive
<1>2. ASSUME NEW id \in Ids, Expire(id) \/ PageTimeout(id) PROVE Covered'
  <2>1. UNCHANGED <<generation, running, window, worker, outputPending>>
    BY <1>2 DEF Expire, PageTimeout
  <2>2. QED
    BY <2>1, CoveredMoves, OutputIs DEF Alive
<1>3. CASE Receive
  BY <1>3, CoveredReceive
<1>4. CASE Navigate
  <2>1. generation' = generation + 1 /\ outputPending' = 0 /\ worker' = worker
    BY <1>4 DEF Navigate
  <2>2. generation \in Nat /\ \A i \in DOMAIN worker : WorkGeneration(worker[i]) <= generation
    BY Types DEF Typed, Current
  <2>3. \A i \in DOMAIN worker : WorkGeneration(worker[i]) # generation + 1
    BY <2>2
  <2>4. CountedOutput' = {}
    BY <2>1, <2>3, OutputIs DEF Output
  <2>5. QED
    BY <2>1, <2>4, FS_EmptySet DEF Covered
<1>5. CASE Take
  BY <1>5, CoveredTake
<1>6. CASE Dispatch
  BY <1>6, CoveredDispatch
<1>7. CASE Return
  <2>1. /\ running # NotRunning /\ running' = NotRunning /\ Reply(running, outstanding, document, FALSE)
        /\ UNCHANGED <<generation, window>>
    BY <1>7 DEF Return
  <2>2. running \in Call /\ ~Old(running)' /\ outputPending \in Nat /\ Cardinality(CountedOutput) \in Nat
    BY <2>1, Types, OutputFinite, OutputIs DEF Old, Typed
  <2>3. CASE running.gen = generation
    BY <2>1, <2>2, <2>3, ReplyCovers, CoveredMoves DEF Alive
  <2>4. CASE running.gen # generation
    <3>1. Alive => outputPending = Cardinality(CountedOutput)
      BY <2>1, <2>4 DEF Covered, Old
    <3>2. \/ outputPending' = outputPending /\ Cardinality(CountedOutput') = Cardinality(CountedOutput)
          \/ outputPending' = outputPending + 1 /\ Cardinality(CountedOutput') = Cardinality(CountedOutput)
      BY <2>1, <2>2, <2>4, ReplyCovers
    <3>3. QED
      BY <2>1, <2>2, <3>1, <3>2 DEF Covered, Alive
  <2>5. QED
    BY <2>3, <2>4
<1>8. ASSUME NEW call \in asyncs, Complete(call) PROVE Covered'
  <2>1. UNCHANGED <<generation, window, running>> /\ call \in Call
    BY <1>8, Types DEF Complete, Typed
  <2>2. CASE UNCHANGED <<worker, outputPending>>
    BY <2>1, <2>2, CoveredMoves, OutputIs DEF Alive
  <2>3. CASE Reply(call, outstanding, document, FALSE) /\ call.gen = generation
    BY <2>1, <2>3, ReplyCovers, CoveredMoves DEF Alive
  <2>4. QED
    BY <1>8, <2>2, <2>3 DEF Complete
<1>9. CASE PushEvent \/ StateEvent
  <2>1. PICK w \in Works : /\ Counted(w) /\ WorkGeneration(w) = generation
                           /\ \/ worker' = worker /\ outputPending' = outputPending
                              \/ worker' = Append(worker, w) /\ outputPending' = outputPending + 1
    BY <1>9, EventIs
  <2>2. UNCHANGED <<generation, window, running>> /\ worker \in Seq(Works)
    BY <1>9, EventIs, Types DEF Typed
  <2>3. Cardinality(Output(Append(worker, w), generation)) = Cardinality(Output(worker, generation)) + 1
    BY <2>1, <2>2, OutputAppend
  <2>4. QED
    BY <2>1, <2>2, <2>3, OutputIs, CoveredMoves DEF Alive
<1>10. CASE Close \/ Break \/ Vanish \/ Overdue \/ ReadyTimeout \/ Teardown
  <2>1. UNCHANGED <<generation, running, worker, outputPending>> /\ (Alive' => Alive)
    BY <1>10 DEF Close, Break, Vanish, Overdue, ReadyTimeout, Teardown, Alive
  <2>2. QED
    BY <2>1, CoveredMoves, OutputIs
<1>11. QED
  BY <1>1, <1>2, <1>3, <1>4, <1>5, <1>6, <1>7, <1>8, <1>9, <1>10 DEF Next

LEMMA CoveredMeans == Typed /\ Covered => OutputCovered
<1> SUFFICES ASSUME Typed, Covered, Alive PROVE outputPending - Cardinality(CountedOutput) \in {0, 1}
  BY DEF OutputCovered, Alive
<1>1. outputPending \in Nat /\ Cardinality(CountedOutput) \in Nat
  BY Types, OutputFinite, OutputIs DEF Typed
<1>2. QED
  BY <1>1 DEF Covered

\* Both counters of a session stay right across replies, navigations, modal calls
\* and failures: outstanding counts the requests of the document that still owe an
\* answer, output_pending covers every counted output on its way.
THEOREM BridgeCountersExact == Spec => []CountersExact
<1> DEFINE Counts == Typed /\ Placed /\ OutstandingExact /\ Covered
<1>1. Init => Counts
  BY TypedInit, PlacedInit, ExactInit, CoveredInit
<1>2. Counts /\ [Next]_vars => Counts'
  BY TypedStep, PlacedStep, ExactStep, CoveredStep
<1>3. Counts => CountersExact
  BY CoveredMeans DEF CountersExact, Typed
<1>4. QED
  BY <1>1, <1>2, <1>3, PTL DEF Spec

-----------------------------------------------------------------------------
(* Layer 5: the order of events. *)

IsEvent(w) == w.what \in {"Push", "State"}

\* Numbers only grow from what the page has seen, through the events the worker
\* holds for the present document, to the number given last.
Numbered ==
  /\ EventsInOrder
  /\ \A k \in DOMAIN seen : seen[k] <= eventSeq
  /\ \A i \in DOMAIN worker : IsEvent(worker[i]) => worker[i].seq <= eventSeq
  /\ \A i \in DOMAIN worker : IsEvent(worker[i]) /\ worker[i].gen = generation
       => \A k \in DOMAIN seen : seen[k] < worker[i].seq
  /\ \A i, j \in DOMAIN worker :
       /\ i < j /\ IsEvent(worker[i]) /\ IsEvent(worker[j])
       /\ worker[i].gen = generation /\ worker[j].gen = generation
       => worker[i].seq < worker[j].seq

LEMMA NumberedInit == Init => Numbered
  BY DEF Init, Numbered, EventsInOrder

\* The numbers are numbers.
LEMMA NumberTypes ==
  ASSUME Typed
  PROVE  /\ worker \in Seq(Works) /\ seen \in Seq(1 .. MaxEvents) /\ eventSeq \in Nat /\ generation \in Nat
         /\ \A k \in DOMAIN seen : seen[k] \in Nat
         /\ \A i \in DOMAIN worker : IsEvent(worker[i]) => worker[i].seq \in Nat /\ worker[i].gen <= generation
<1>1. /\ worker \in Seq(Works) /\ seen \in Seq(1 .. MaxEvents) /\ eventSeq \in Nat /\ generation \in Nat
      /\ MaxEvents \in Nat
  BY Types DEF Typed
<1>2. \A k \in DOMAIN seen : seen[k] \in Nat
  BY <1>1, ElementFacts
<1>3. \A i \in DOMAIN worker : worker[i] \in Works
  BY <1>1, ElementFacts
<1>4. \A w \in Works : IsEvent(w) => w.seq \in Nat /\ WorkGeneration(w) = w.gen
  BY <1>1 DEF Works, CallWork, EventWork, IsEvent, WorkGeneration
<1>5. QED
  BY <1>1, <1>2, <1>3, <1>4 DEF Typed, Current

\* A work that is no event of the present document changes nothing of the order.
LEMMA NumberedAppend ==
  ASSUME Typed, Numbered, NEW w \in Works, worker' = Append(worker, w), UNCHANGED <<seen, generation>>,
         \/ ~IsEvent(w) /\ UNCHANGED eventSeq
         \/ IsEvent(w) /\ w.gen = generation /\ w.seq = eventSeq + 1 /\ eventSeq' = eventSeq + 1
  PROVE  Numbered'
<1>0. worker \in Seq(Works) /\ eventSeq \in Nat
  BY NumberTypes
<1>1. /\ Len(worker) \in Nat /\ DOMAIN worker = 1 .. Len(worker)
      /\ DOMAIN worker' = 1 .. Len(worker) + 1
      /\ \A i \in 1 .. Len(worker) : worker'[i] = worker[i]
      /\ worker'[Len(worker) + 1] = w
  BY <1>0, AppendFacts
<1>2. \A i \in DOMAIN worker' : \/ i \in DOMAIN worker /\ worker'[i] = worker[i] /\ i <= Len(worker)
                                \/ i = Len(worker) + 1 /\ worker'[i] = w
  BY <1>1
<1>3. EventsInOrder' /\ \A k \in DOMAIN seen' : seen'[k] <= eventSeq' /\ seen'[k] < eventSeq + 1
  BY <1>0, NumberTypes DEF Numbered, EventsInOrder
<1>4. \A i \in DOMAIN worker' : IsEvent(worker'[i]) => worker'[i].seq <= eventSeq'
  BY <1>0, <1>2, NumberTypes DEF Numbered
<1>5. \A i \in DOMAIN worker' : IsEvent(worker'[i]) /\ worker'[i].gen = generation'
        => \A k \in DOMAIN seen' : seen'[k] < worker'[i].seq
  BY <1>2, <1>3 DEF Numbered
<1>6. ASSUME NEW i \in DOMAIN worker', NEW j \in DOMAIN worker', i < j,
             IsEvent(worker'[i]), IsEvent(worker'[j]),
             worker'[i].gen = generation', worker'[j].gen = generation'
      PROVE  worker'[i].seq < worker'[j].seq
  <2>1. i \in DOMAIN worker /\ worker'[i] = worker[i] /\ i <= Len(worker)
    BY <1>1, <1>2, <1>6
  <2>2. CASE j \in DOMAIN worker /\ worker'[j] = worker[j]
    BY <1>6, <2>1, <2>2 DEF Numbered
  <2>3. CASE worker'[j] = w
    <3>1. worker[i].seq <= eventSeq /\ worker[i].seq \in Nat
      BY <1>6, <2>1, NumberTypes DEF Numbered
    <3>2. QED
      BY <1>0, <1>6, <2>1, <2>3, <3>1
  <2>4. QED
    BY <1>2, <2>2, <2>3
<1>7. QED
  BY <1>3, <1>4, <1>5, <1>6 DEF Numbered

\* The worker unchanged, and the number of an event not delivered is not used again.
LEMMA NumberedSame ==
  ASSUME Typed, Numbered, UNCHANGED <<worker, seen, generation>>, eventSeq' \in {eventSeq, eventSeq + 1}
  PROVE  Numbered'
<1>1. \A n \in Nat : n <= eventSeq => n <= eventSeq'
  BY NumberTypes
<1>2. (\A k \in DOMAIN seen' : seen'[k] <= eventSeq')
      /\ (\A i \in DOMAIN worker' : IsEvent(worker'[i]) => worker'[i].seq <= eventSeq')
  BY <1>1, NumberTypes DEF Numbered
<1>3. QED
  BY <1>2 DEF Numbered, EventsInOrder

\* What leaves the worker for the page is the lowest number of the document there.
LEMMA NumberedTake == Typed /\ Numbered /\ Take => Numbered'
<1> SUFFICES ASSUME Typed, Numbered, Take PROVE Numbered'
  OBVIOUS
<1> DEFINE w == Head(worker)
<1>1. worker # <<>> /\ worker' = Tail(worker) /\ UNCHANGED <<generation, eventSeq>>
  BY DEF Take, session
<1>2. /\ Len(worker) \in Nat \ {0} /\ DOMAIN worker = 1 .. Len(worker) /\ w \in Works
      /\ DOMAIN worker' = 1 .. Len(worker) - 1 /\ w = worker[1]
      /\ \A i \in 1 .. Len(worker) - 1 : worker'[i] = worker[i + 1]
  BY <1>1, NumberTypes, TailFacts
<1>3. \A i \in DOMAIN worker' : i + 1 \in DOMAIN worker /\ worker'[i] = worker[i + 1] /\ 1 < i + 1
  BY <1>2
<1>4. 1 \in DOMAIN worker /\ \A i, j \in DOMAIN worker' : i < j => i + 1 < j + 1
  BY <1>2
<1>5. /\ \A i \in DOMAIN worker' : IsEvent(worker'[i]) => worker'[i].seq <= eventSeq'
      /\ \A i, j \in DOMAIN worker' :
           /\ i < j /\ IsEvent(worker'[i]) /\ IsEvent(worker'[j])
           /\ worker'[i].gen = generation' /\ worker'[j].gen = generation'
           => worker'[i].seq < worker'[j].seq
  BY <1>1, <1>3, <1>4 DEF Numbered
<1>6. CASE UNCHANGED seen
  <2>1. \A i \in DOMAIN worker' : IsEvent(worker'[i]) /\ worker'[i].gen = generation'
          => \A k \in DOMAIN seen' : seen'[k] < worker'[i].seq
    BY <1>1, <1>3, <1>6 DEF Numbered
  <2>2. QED
    BY <1>1, <1>5, <1>6, <2>1 DEF Numbered, EventsInOrder
<1>7. CASE IsEvent(w) /\ w.gen = generation /\ seen' = Append(seen, w.seq)
  <2>1. /\ w.seq \in Nat /\ w.seq <= eventSeq /\ \A k \in DOMAIN seen : seen[k] < w.seq
        /\ \A i \in DOMAIN worker' : IsEvent(worker'[i]) /\ worker'[i].gen = generation' => w.seq < worker'[i].seq
    BY <1>1, <1>2, <1>3, <1>4, <1>7, NumberTypes DEF Numbered
  <2>2. w.seq \in 1 .. MaxEvents
    BY <1>2, <1>7 DEF Works, CallWork, EventWork, IsEvent
  <2>3. /\ Len(seen) \in Nat /\ DOMAIN seen = 1 .. Len(seen) /\ DOMAIN seen' = 1 .. Len(seen) + 1
        /\ \A k \in 1 .. Len(seen) : seen'[k] = seen[k]
        /\ seen'[Len(seen) + 1] = w.seq
    BY <1>7, <2>2, NumberTypes, AppendFacts
  <2>4. \A k \in DOMAIN seen' : \/ k \in DOMAIN seen /\ seen'[k] = seen[k] /\ k <= Len(seen)
                                \/ k = Len(seen) + 1 /\ seen'[k] = w.seq
    BY <2>3
  <2>5. \A k \in DOMAIN seen' : seen'[k] <= eventSeq'
    BY <1>1, <2>1, <2>4 DEF Numbered
  <2>6. \A i \in DOMAIN worker' : IsEvent(worker'[i]) /\ worker'[i].gen = generation'
          => \A k \in DOMAIN seen' : seen'[k] < worker'[i].seq
    BY <1>1, <1>3, <2>1, <2>4 DEF Numbered
  <2>7. ASSUME NEW k \in DOMAIN seen', NEW m \in DOMAIN seen', k < m PROVE seen'[k] < seen'[m]
    <3>1. k \in DOMAIN seen /\ seen'[k] = seen[k] /\ k <= Len(seen)
      BY <2>3, <2>4, <2>7
    <3>2. QED
      BY <2>1, <2>4, <2>7, <3>1 DEF Numbered, EventsInOrder
  <2>8. QED
    BY <1>5, <2>5, <2>6, <2>7 DEF Numbered, EventsInOrder
<1>8. QED
  <2>1. CASE Dropped(w) \/ (w.what = "Parse" /\ w.call.req.kind # "bad")
    BY <1>6, <2>1 DEF Take, TakeRequest
  <2>2. CASE ~Dropped(w) /\ ~(w.what = "Parse" /\ w.call.req.kind # "bad")
    BY <1>6, <1>7, <2>2 DEF Take, TakeScript, Dropped, WorkGeneration, IsEvent
  <2>3. QED
    BY <2>1, <2>2

\* With no output counted, the worker holds no event of the present document.
LEMMA NothingAhead ==
  ASSUME Typed, Covered, Alive, outputPending = 0
  PROVE  \A i \in DOMAIN worker : Counted(worker[i]) => WorkGeneration(worker[i]) # generation
<1>1. worker \in Seq(Works) /\ Cardinality(CountedOutput) \in Nat
  BY Types, OutputFinite, OutputIs DEF Typed
<1>2. Cardinality(CountedOutput) = 0
  BY <1>1 DEF Covered
<1>3. CountedOutput = {}
  BY <1>1, <1>2, OutputFinite, OutputIs
<1>4. QED
  BY <1>3 DEF CountedOutput

\* A state event sent at once overtakes nothing.
LEMMA NumberedInline ==
  ASSUME Typed, Covered, Numbered, Alive, outputPending = 0, UNCHANGED <<worker, generation>>,
         eventSeq' = eventSeq + 1, eventSeq + 1 \in 1 .. MaxEvents, seen' = Append(seen, eventSeq + 1)
  PROVE  Numbered'
<1>0. eventSeq \in Nat /\ \A k \in DOMAIN seen : seen[k] \in Nat /\ seen[k] <= eventSeq
  BY NumberTypes DEF Numbered
<1>1. /\ Len(seen) \in Nat /\ DOMAIN seen = 1 .. Len(seen) /\ DOMAIN seen' = 1 .. Len(seen) + 1
      /\ \A k \in 1 .. Len(seen) : seen'[k] = seen[k]
      /\ seen'[Len(seen) + 1] = eventSeq + 1
  BY NumberTypes, AppendFacts
<1>2. \A k \in DOMAIN seen' : \/ k \in DOMAIN seen /\ seen'[k] = seen[k] /\ k <= Len(seen)
                              \/ k = Len(seen) + 1 /\ seen'[k] = eventSeq + 1
  BY <1>1
<1>3. \A k \in DOMAIN seen' : seen'[k] <= eventSeq'
  BY <1>0, <1>2
<1>4. ASSUME NEW k \in DOMAIN seen', NEW m \in DOMAIN seen', k < m PROVE seen'[k] < seen'[m]
  <2>1. k \in DOMAIN seen /\ seen'[k] = seen[k] /\ k <= Len(seen)
    BY <1>1, <1>2, <1>4
  <2>2. CASE m \in DOMAIN seen /\ seen'[m] = seen[m]
    BY <1>4, <2>1, <2>2 DEF Numbered, EventsInOrder
  <2>3. CASE seen'[m] = eventSeq + 1
    BY <1>0, <2>1, <2>3
  <2>4. QED
    BY <1>2, <2>2, <2>3
<1>5. \A i \in DOMAIN worker : ~(IsEvent(worker[i]) /\ worker[i].gen = generation)
  BY NothingAhead DEF IsEvent, Counted, WorkGeneration
<1>6. \A i \in DOMAIN worker' : IsEvent(worker'[i]) => worker'[i].seq <= eventSeq'
  BY <1>0, NumberTypes DEF Numbered
<1>7. QED
  BY <1>3, <1>4, <1>5, <1>6 DEF Numbered, EventsInOrder

\* A navigation leaves no event of the present document behind.
LEMMA NumberedNavigate == Typed /\ Numbered /\ Navigate => Numbered'
<1> SUFFICES ASSUME Typed, Numbered, Navigate PROVE Numbered'
  OBVIOUS
<1>1. generation' = generation + 1 /\ UNCHANGED <<worker, seen, eventSeq>>
  BY DEF Navigate
<1>2. generation \in Nat /\ \A i \in DOMAIN worker : IsEvent(worker[i]) => worker[i].gen <= generation
  BY NumberTypes
<1>3. \A i \in DOMAIN worker' : ~(IsEvent(worker'[i]) /\ worker'[i].gen = generation')
  BY <1>1, <1>2
<1>4. QED
  BY <1>1, <1>3 DEF Numbered, EventsInOrder

\* An answer numbers no event.
LEMMA NumberedReply ==
  ASSUME Typed, Numbered, UNCHANGED <<seen, generation, eventSeq>>,
         NEW call \in Call, NEW out, NEW current, NEW shut, Reply(call, out, current, shut)
  PROVE  Numbered'
<1>1. worker' = worker \/ worker' = Append(worker, ReplyWork(call))
  BY ReplyIs DEF Inlines, Encodes, GivesUp
<1>2. ReplyWork(call) \in Works /\ ~IsEvent(ReplyWork(call))
  BY ReplyWorkType DEF IsEvent
<1>3. QED
  BY <1>1, <1>2, NumberedAppend, NumberedSame

LEMMA NumberedStep == Typed /\ Covered /\ Numbered /\ [Next]_vars => Numbered'
<1> SUFFICES ASSUME Typed, Covered, Numbered, [Next]_vars PROVE Numbered'
  OBVIOUS
<1> USE DEF vars, session, fate, counters, events, client, clock, posts
<1>1. CASE PostHello \/ Post \/ Commit \/ UNCHANGED vars
  <2>1. UNCHANGED <<worker, seen, generation, eventSeq>>
    BY <1>1 DEF PostHello, Post, Commit
  <2>2. QED
    BY <2>1, NumberedSame
<1>2. ASSUME NEW id \in Ids, Expire(id) \/ PageTimeout(id) PROVE Numbered'
  <2>1. UNCHANGED <<worker, seen, generation, eventSeq>>
    BY <1>2 DEF Expire, PageTimeout
  <2>2. QED
    BY <2>1, NumberedSame
<1>3. CASE Receive
  <2> DEFINE call == [req |-> Head(ipc), gen |-> generation]
             work == [what |-> "Parse", call |-> call]
  <2>1. ipc # <<>> /\ UNCHANGED <<generation, seen, eventSeq>>
    BY <1>3 DEF Receive
  <2>2. ipc \in Seq(Request) /\ generation \in Documents
    BY <2>1, Types, GenerationType DEF Typed
  <2>3. call \in Call
    BY <2>1, <2>2, TailFacts DEF Call
  <2>4. work \in Works /\ ~IsEvent(work)
    BY <2>3 DEF Works, CallWork, IsEvent
  <2>5. \/ worker' = worker
        \/ worker' = Append(worker, work)
        \/ Reply(call, outstanding + 1, document, FALSE)
    BY <1>3 DEF Receive, ReceiveInput, ReceiveRequest
  <2> HIDE DEF call, work
  <2>6. QED
    BY <2>1, <2>3, <2>4, <2>5, NumberedSame, NumberedAppend, NumberedReply
<1>4. CASE Navigate
  BY <1>4, NumberedNavigate
<1>5. CASE Take
  BY <1>5, NumberedTake
<1>6. CASE Dispatch
  <2> DEFINE call == Head(queue)
             work == [what |-> "File", call |-> call]
  <2>1. /\ queue # <<>> /\ UNCHANGED <<generation, seen, eventSeq>>
        /\ DispatchRefused(call) \/ DispatchHello(call) \/ DispatchCall(call)
    BY <1>6 DEF Dispatch
  <2>2. queue \in Seq(Call)
    BY Types DEF Typed
  <2>3. call \in Call
    BY <2>1, <2>2, TailFacts
  <2>4. work \in Works /\ ~IsEvent(work)
    BY <2>3 DEF Works, CallWork, IsEvent
  <2>5. \/ worker' = worker
        \/ worker' = Append(worker, work)
        \/ \E current, shut : Reply(call, outstanding, current, shut)
    BY <2>1 DEF DispatchRefused, DispatchHello, DispatchCall, StartFile
  <2> HIDE DEF call, work
  <2>6. QED
    BY <2>1, <2>3, <2>4, <2>5, NumberedSame, NumberedAppend, NumberedReply
<1>7. CASE Return
  <2>1. running \in Call /\ Reply(running, outstanding, document, FALSE) /\ UNCHANGED <<generation, seen, eventSeq>>
    BY <1>7, Types DEF Return, Typed
  <2>2. QED
    BY <2>1, NumberedReply
<1>8. ASSUME NEW call \in asyncs, Complete(call) PROVE Numbered'
  <2>1. /\ call \in Call /\ UNCHANGED <<generation, seen, eventSeq>>
        /\ UNCHANGED worker \/ Reply(call, outstanding, document, FALSE)
    BY <1>8, Types DEF Complete, Typed
  <2>2. QED
    BY <2>1, NumberedReply, NumberedSame
<1>9. CASE PushEvent \/ StateEvent
  <2>1. PICK w \in Works : /\ w.gen = generation /\ w.seq = eventSeq + 1 /\ IsEvent(w)
                           /\ worker' = worker \/ (worker' = Append(worker, w) /\ UNCHANGED seen)
    <3>1. \A w \in EventWork : IsEvent(w)
      BY DEF EventWork, IsEvent
    <3>2. QED
      BY <1>9, <3>1, EventIs
  <2>2. UNCHANGED generation /\ eventSeq' = eventSeq + 1
    BY <1>9, EventIs
  <2>3. CASE worker' = Append(worker, w) /\ UNCHANGED seen
    BY <2>1, <2>2, <2>3, NumberedAppend
  <2>4. CASE worker' = worker /\ UNCHANGED seen
    BY <2>2, <2>4, NumberedSame
  <2>5. CASE worker' = worker /\ seen' # seen
    <3>1. /\ StateEvent /\ outputPending = 0 /\ Alive /\ seen' = Append(seen, eventSeq + 1)
          /\ eventSeq < MaxEvents
      BY <1>9, <2>5 DEF PushEvent, StateEvent, MayInline
    <3>2. eventSeq + 1 \in 1 .. MaxEvents
      <4>1. eventSeq \in 0 .. MaxEvents /\ MaxEvents \in Nat
        BY Types DEF Typed
      <4>2. QED
        BY <3>1, <4>1
    <3>3. QED
      BY <2>2, <2>5, <3>1, <3>2, NumberedInline
  <2>6. QED
    BY <2>1, <2>3, <2>4, <2>5
<1>10. CASE Close \/ Break \/ Vanish \/ Overdue \/ ReadyTimeout \/ Teardown
  <2>1. UNCHANGED <<worker, seen, generation, eventSeq>>
    BY <1>10 DEF Close, Break, Vanish, Overdue, ReadyTimeout, Teardown
  <2>2. QED
    BY <2>1, NumberedSame
<1>11. QED
  BY <1>1, <1>2, <1>3, <1>4, <1>5, <1>6, <1>7, <1>8, <1>9, <1>10 DEF Next

\* Numbered events reach the page in the order of their numbers, over navigations,
\* nested message loops and the state events that do not pass through the worker.
THEOREM BridgeEventsInOrder == Spec => []EventsInOrder
<1> DEFINE Flows == Typed /\ Covered /\ Numbered
<1>1. Init => Flows
  BY TypedInit, CoveredInit, NumberedInit
<1>2. Flows /\ [Next]_vars => Flows'
  BY TypedStep, CoveredStep, NumberedStep
<1>3. Flows => EventsInOrder
  BY DEF Numbered
<1>4. QED
  BY <1>1, <1>2, <1>3, PTL DEF Spec

-----------------------------------------------------------------------------
(* Layer 6: the order in which requests run. *)

\* The works of the present document that will queue a request, and their requests.
IsParse(w, g) == w.what = "Parse" /\ w.call.gen = g
Parses(q, g) == {q[i].call.req.id : i \in {j \in DOMAIN q : IsParse(q[j], g)}}
RisingParses(q, g) ==
  \A i, j \in DOMAIN q : i < j /\ IsParse(q[i], g) /\ IsParse(q[j], g) => q[i].call.req.id < q[j].call.req.id
RisingCalls(q) == \A i, j \in DOMAIN q : i < j => q[i].req.id < q[j].req.id

\* The requests that ran, and those among them that had waited for the timer.
Waited(q) == {q[i].req.id : i \in {j \in DOMAIN q : q[j].req.kind # "input"}}
Before(S, T) == \A a \in S, b \in T : a < b

\* What runs next comes after all that waited: the queue first, then what the worker
\* parses, then what the WebView still holds.
Line(R, D, Q, P, M) ==
  /\ R \intersect (Q \union P \union M) = {}
  /\ Before(D, Q) /\ Before(D, P) /\ Before(D, M)
  /\ Before(Q, P) /\ Before(Q, M) /\ Before(P, M)

Ordered ==
  /\ RunsInOrder
  /\ Line(Calls(ran), Waited(ran), Calls(queue), Parses(worker, generation), Messages(ipc))
  /\ RisingCalls(queue) /\ RisingParses(worker, generation)
  /\ \A id \in Calls(ran) : id <= posted

LEMMA QueueOrder ==
  ASSUME NEW q \in Seq(Call), RisingCalls(q)
  PROVE  /\ q # <<>> => /\ RisingCalls(Tail(q))
                        /\ \A id \in Calls(Tail(q)) : Head(q).req.id < id
         /\ \A call \in Call : (\A id \in Calls(q) : id < call.req.id) => RisingCalls(Append(q, call))
<1>1. ASSUME q # <<>> PROVE RisingCalls(Tail(q)) /\ \A id \in Calls(Tail(q)) : Head(q).req.id < id
  <2>1. \A i \in DOMAIN Tail(q) : i + 1 \in DOMAIN q /\ Tail(q)[i] = q[i + 1] /\ 1 < i + 1 /\ 1 \in DOMAIN q
    BY <1>1, TailFacts
  <2>2. \A i, j \in DOMAIN Tail(q) : i < j => i + 1 < j + 1
    BY <1>1, TailFacts
  <2>3. Head(q) = q[1]
    BY <1>1, TailFacts
  <2>4. QED
    BY <2>1, <2>2, <2>3 DEF RisingCalls, Calls
<1>2. ASSUME NEW call \in Call, \A id \in Calls(q) : id < call.req.id PROVE RisingCalls(Append(q, call))
  <2>1. \A i \in DOMAIN q : q[i].req.id < call.req.id
    BY <1>2 DEF Calls
  <2>2. QED
    BY <2>1, AppendFacts DEF RisingCalls
<1>3. QED
  BY <1>1, <1>2

LEMMA ParseOrder ==
  ASSUME NEW q \in Seq(Works), NEW g, RisingParses(q, g)
  PROVE  /\ q # <<>> => /\ RisingParses(Tail(q), g)
                        /\ ~IsParse(Head(q), g) => Parses(Tail(q), g) = Parses(q, g)
                        /\ IsParse(Head(q), g) =>
                             /\ Head(q).call.req.id \in Parses(q, g)
                             /\ Parses(q, g) = Parses(Tail(q), g) \union {Head(q).call.req.id}
                             /\ \A id \in Parses(Tail(q), g) : Head(q).call.req.id < id
         /\ \A w \in Works : ~IsParse(w, g)
              => RisingParses(Append(q, w), g) /\ Parses(Append(q, w), g) = Parses(q, g)
         /\ \A w \in Works : IsParse(w, g) /\ (\A id \in Parses(q, g) : id < w.call.req.id)
              => /\ RisingParses(Append(q, w), g)
                 /\ Parses(Append(q, w), g) = Parses(q, g) \union {w.call.req.id}
<1>1. ASSUME q # <<>>
      PROVE  /\ RisingParses(Tail(q), g)
             /\ ~IsParse(Head(q), g) => Parses(Tail(q), g) = Parses(q, g)
             /\ IsParse(Head(q), g) =>
                  /\ Head(q).call.req.id \in Parses(q, g)
                  /\ Parses(q, g) = Parses(Tail(q), g) \union {Head(q).call.req.id}
                  /\ \A id \in Parses(Tail(q), g) : Head(q).call.req.id < id
  <2>1. \A i \in DOMAIN Tail(q) : i + 1 \in DOMAIN q /\ Tail(q)[i] = q[i + 1] /\ 1 < i + 1 /\ 1 \in DOMAIN q
    BY <1>1, TailFacts
  <2>2. \A i, j \in DOMAIN Tail(q) : i < j => i + 1 < j + 1
    BY <1>1, TailFacts
  <2>3. Head(q) = q[1] /\ 1 \in DOMAIN q
    BY <1>1, TailFacts
  <2>4. \A i \in DOMAIN q : i # 1 => i - 1 \in DOMAIN Tail(q) /\ Tail(q)[i - 1] = q[i]
    BY <1>1, TailFacts
  <2>5. RisingParses(Tail(q), g)
    BY <2>1, <2>2 DEF RisingParses
  <2>6. Parses(Tail(q), g) \subseteq Parses(q, g)
    BY <2>1 DEF Parses
  <2>7. ASSUME NEW i \in DOMAIN q, IsParse(q[i], g)
        PROVE  \/ q[i].call.req.id \in Parses(Tail(q), g)
               \/ IsParse(Head(q), g) /\ q[i].call.req.id = Head(q).call.req.id
    <3>1. CASE i = 1
      BY <2>3, <2>7, <3>1
    <3>2. CASE i # 1
      BY <2>4, <2>7, <3>2 DEF Parses
    <3>3. QED
      BY <3>1, <3>2
  <2>8. IsParse(Head(q), g) => Head(q).call.req.id \in Parses(q, g)
    BY <2>3 DEF Parses
  <2>9. IsParse(Head(q), g) => \A id \in Parses(Tail(q), g) : Head(q).call.req.id < id
    BY <2>1, <2>3 DEF Parses, RisingParses
  <2>10. ASSUME NEW id \in Parses(q, g)
         PROVE  id \in Parses(Tail(q), g) \/ (IsParse(Head(q), g) /\ id = Head(q).call.req.id)
    <3>1. PICK i \in DOMAIN q : IsParse(q[i], g) /\ id = q[i].call.req.id
      BY DEF Parses
    <3>2. QED
      BY <2>7, <3>1
  <2>11. QED
    BY <2>5, <2>6, <2>8, <2>9, <2>10
<1>2. ASSUME NEW w \in Works, ~IsParse(w, g)
      PROVE  RisingParses(Append(q, w), g) /\ Parses(Append(q, w), g) = Parses(q, g)
  BY <1>2, AppendFacts DEF RisingParses, Parses
<1>3. ASSUME NEW w \in Works, IsParse(w, g), \A id \in Parses(q, g) : id < w.call.req.id
      PROVE  /\ RisingParses(Append(q, w), g)
             /\ Parses(Append(q, w), g) = Parses(q, g) \union {w.call.req.id}
  <2>1. \A i \in DOMAIN q : IsParse(q[i], g) => q[i].call.req.id < w.call.req.id
    BY <1>3 DEF Parses
  <2>2. RisingParses(Append(q, w), g)
    BY <2>1, AppendFacts DEF RisingParses
  <2>3. Parses(Append(q, w), g) = Parses(q, g) \union {w.call.req.id}
    BY <1>3, AppendFacts DEF Parses
  <2>4. QED
    BY <2>2, <2>3
<1>4. QED
  BY <1>1, <1>2, <1>3

\* A request that has not run runs after those that waited, or skips the line.
LEMMA RanAppend ==
  ASSUME Typed, RunsInOrder, NEW call \in Call, ran' = Append(ran, call),
         call.req.id \notin Calls(ran),
         call.req.kind = "input" \/ \A id \in Waited(ran) : id < call.req.id
  PROVE  /\ RunsInOrder' /\ Calls(ran') = Calls(ran) \union {call.req.id}
         /\ Waited(ran') = IF call.req.kind = "input" THEN Waited(ran) ELSE Waited(ran) \union {call.req.id}
<1>1. /\ Len(ran) \in Nat /\ DOMAIN ran = 1 .. Len(ran) /\ DOMAIN ran' = 1 .. Len(ran) + 1
      /\ \A i \in 1 .. Len(ran) : ran'[i] = ran[i]
      /\ ran'[Len(ran) + 1] = call
  <2>1. ran \in Seq(Call)
    BY Types DEF Typed
  <2>2. QED
    BY <2>1, AppendFacts
<1>2. \A i \in DOMAIN ran' : \/ i \in DOMAIN ran /\ ran'[i] = ran[i] /\ i <= Len(ran)
                             \/ i = Len(ran) + 1 /\ ran'[i] = call
  BY <1>1
<1>3. Len(ran) + 1 \in DOMAIN ran' /\ \A i \in DOMAIN ran : i \in DOMAIN ran' /\ ran'[i] = ran[i]
  BY <1>1
<1>4. Calls(ran') = Calls(ran) \union {call.req.id}
  BY <1>1, <1>2, <1>3 DEF Calls
<1>5. Waited(ran') = IF call.req.kind = "input" THEN Waited(ran) ELSE Waited(ran) \union {call.req.id}
  BY <1>1, <1>2, <1>3 DEF Waited
<1>6. ASSUME NEW i \in DOMAIN ran', NEW j \in DOMAIN ran', i < j,
             "input" \notin {ran'[i].req.kind, ran'[j].req.kind}
      PROVE  ran'[i].req.id < ran'[j].req.id
  <2>1. i \in DOMAIN ran /\ ran'[i] = ran[i] /\ i <= Len(ran)
    BY <1>1, <1>2, <1>6
  <2>2. CASE j \in DOMAIN ran /\ ran'[j] = ran[j]
    BY <1>6, <2>1, <2>2 DEF RunsInOrder
  <2>3. CASE ran'[j] = call
    BY <1>6, <2>1, <2>3 DEF Waited
  <2>4. QED
    BY <1>2, <2>2, <2>3
<1>7. ASSUME NEW i \in DOMAIN ran', NEW j \in DOMAIN ran', ran'[i].req.id = ran'[j].req.id PROVE i = j
  <2>1. \A k \in DOMAIN ran : ran[k].req.id # call.req.id
    BY DEF Calls
  <2>2. CASE i \in DOMAIN ran /\ ran'[i] = ran[i] /\ j \in DOMAIN ran /\ ran'[j] = ran[j]
    BY <1>7, <2>2 DEF RunsInOrder
  <2>3. QED
    BY <1>2, <1>7, <2>1, <2>2
<1>8. QED
  BY <1>4, <1>5, <1>6, <1>7 DEF RunsInOrder

LEMMA LineTypes ==
  ASSUME Typed
  PROVE  /\ \A id \in Calls(ran) \union Calls(queue) \union Parses(worker, generation) \union Messages(ipc) : id \in Nat
         /\ posted \in Nat /\ Waited(ran) \subseteq Calls(ran)
         /\ Parses(worker, generation) \subseteq WorkCalls(worker)
         /\ Parses(worker, generation) \subseteq Owed
<1>1. \A id \in Messages(ipc) \union WorkCalls(worker) \union Calls(queue) : id \in Nat
  BY IdTypes
<1>2. Parses(worker, generation) \subseteq WorkCalls(worker)
  BY DEF Parses, WorkCalls, IsParse, IsCall
<1>3. \A id \in Calls(ran) : id \in Nat
  <2>1. \A call \in Call : call.req.id \in Ids
    BY DEF Call, Request
  <2>2. ran \in Seq(Call)
    BY Types DEF Typed
  <2>3. \A i \in DOMAIN ran : ran[i] \in Call
    BY <2>2, ElementFacts
  <2>4. QED
    BY <2>1, <2>3, IdTypes DEF Calls
<1>4. Parses(worker, generation) \subseteq Owed
  BY DEF Parses, IsParse, Owed
<1>5. Waited(ran) \subseteq Calls(ran)
  BY DEF Waited, Calls
<1>6. QED
  BY <1>1, <1>2, <1>3, <1>4, <1>5, IdTypes

LEMMA OrderedInit == Init => Ordered
<1> SUFFICES ASSUME Init PROVE Ordered
  OBVIOUS
<1>1. Calls(ran) = {} /\ Waited(ran) = {} /\ Calls(queue) = {} /\ Parses(worker, generation) = {} /\ Messages(ipc) = {}
  BY DEF Init, Calls, Waited, Parses, Messages
<1>2. RunsInOrder /\ RisingCalls(queue) /\ RisingParses(worker, generation)
  BY DEF Init, RunsInOrder, RisingCalls, RisingParses
<1>3. QED
  BY <1>1, <1>2 DEF Ordered, Line, Before

\* An answer puts nothing in line.
LEMMA ReplyParses ==
  ASSUME Typed, Ordered, NEW call \in Call, NEW out, NEW current, NEW shut, Reply(call, out, current, shut)
  PROVE  Parses(worker', generation) = Parses(worker, generation) /\ RisingParses(worker', generation)
<1>1. worker' = worker \/ worker' = Append(worker, ReplyWork(call))
  BY ReplyIs DEF Inlines, Encodes, GivesUp
<1>2. ReplyWork(call) \in Works /\ ~IsParse(ReplyWork(call), generation)
  BY ReplyWorkType DEF IsParse
<1>3. worker \in Seq(Works) /\ RisingParses(worker, generation)
  BY Types DEF Typed, Ordered
<1>4. /\ RisingParses(Append(worker, ReplyWork(call)), generation)
      /\ Parses(Append(worker, ReplyWork(call)), generation) = Parses(worker, generation)
  BY <1>2, <1>3, ParseOrder
<1>5. QED
  BY <1>1, <1>3, <1>4

\* The steps that only take the first of what the WebView holds out of line, or nothing.
LEMMA OrderedSame ==
  ASSUME Ordered, UNCHANGED <<ran, queue, posted>>, Messages(ipc') \subseteq Messages(ipc),
         Parses(worker', generation') = Parses(worker, generation), RisingParses(worker', generation')
  PROVE  Ordered'
<1>1. RunsInOrder'
  BY DEF Ordered, RunsInOrder
<1>2. Line(Calls(ran'), Waited(ran'), Calls(queue'), Parses(worker', generation'), Messages(ipc'))
  BY DEF Ordered, Line, Before
<1>3. QED
  BY <1>1, <1>2 DEF Ordered

LEMMA OrderedPost ==
  ASSUME Typed, Placed, Ordered, PostHello \/ Post
  PROVE  Ordered'
<1>1. PICK kind \in AllKinds \union {"hello"}, small \in BOOLEAN : Posts(kind, small)
  BY BridgeAssumption DEF PostHello, Post
<1>2. PICK req \in Request : req.id = posted + 1 /\ ipc' = Append(ipc, req)
  BY <1>1, PostsType
<1>3. posted' = posted + 1 /\ UNCHANGED <<ran, queue, worker, generation>>
  BY DEF PostHello, Post, Posts, session
<1>4. ipc \in Seq(Request)
  BY Types DEF Typed
<1>5. \A id \in Calls(ran) \union Calls(queue) \union Parses(worker, generation) \union Messages(ipc) :
        id \in Nat /\ id < posted + 1
  <2>1. \A id \in Calls(ran) \union Calls(queue) \union Parses(worker, generation) \union Messages(ipc) : id <= posted
    BY LineTypes DEF Placed, AtMost, Ordered
  <2>2. QED
    BY <2>1, LineTypes
<1>6. Messages(ipc') = Messages(ipc) \union {posted + 1}
  BY <1>2, <1>4, <1>5, MessageFacts DEF Placed
<1>7. Line(Calls(ran), Waited(ran), Calls(queue), Parses(worker, generation), Messages(ipc))
  BY DEF Ordered
<1>8. Waited(ran) \subseteq Calls(ran)
  BY LineTypes
<1>9. Line(Calls(ran), Waited(ran), Calls(queue), Parses(worker, generation), Messages(ipc) \union {posted + 1})
  <2> DEFINE R == Calls(ran) D == Waited(ran) Q == Calls(queue) P == Parses(worker, generation) M == Messages(ipc)
  <2>1. \A id \in R \union Q \union P : id < posted + 1 /\ id # posted + 1
    BY <1>5, LineTypes
  <2> HIDE DEF R, D, Q, P, M
  <2>2. Line(R, D, Q, P, M) /\ D \subseteq R
    BY <1>7, <1>8 DEF R, D, Q, P, M
  <2>3. Line(R, D, Q, P, M \union {posted + 1})
    BY <2>1, <2>2 DEF Line, Before
  <2>4. QED
    BY <2>3 DEF R, D, Q, P, M
<1>10. RunsInOrder' /\ \A id \in Calls(ran') : id <= posted'
  <2>1. RunsInOrder'
    BY <1>3 DEF Ordered, RunsInOrder
  <2>2. QED
    BY <1>3, <1>5, <2>1, LineTypes
<1>11. QED
  BY <1>3, <1>6, <1>9, <1>10 DEF Ordered

\* A message that arrives runs at once when it may, or goes to the end of the line:
\* into the queue only when nothing is still parsed.
LEMMA OrderedReceive == Typed /\ Placed /\ OutstandingExact /\ Ordered /\ Receive => Ordered'
<1> SUFFICES ASSUME Typed, Placed, OutstandingExact, Ordered, Receive PROVE Ordered'
  OBVIOUS
<1> DEFINE x == Head(ipc).id
           call == [req |-> Head(ipc), gen |-> generation]
           work == [what |-> "Parse", call |-> call]
           R == Calls(ran) D == Waited(ran) Q == Calls(queue)
           P == Parses(worker, generation) M == Messages(ipc)
<1>1. ipc # <<>> /\ ipc' = Tail(ipc) /\ Alive /\ UNCHANGED <<generation, posted>>
  BY DEF Receive, session
<1>2. worker \in Seq(Works) /\ queue \in Seq(Call) /\ ipc \in Seq(Request)
  BY Types DEF Typed
<1>3. generation \in Documents /\ Head(ipc) \in Request
  BY <1>1, <1>2, TailFacts, GenerationType
<1>4. call \in Call /\ call.req.id = x /\ work \in Works /\ IsParse(work, generation) /\ work.call = call
  BY <1>3 DEF Call, CallWork, Works, IsParse
<1>5. x \in M /\ Messages(ipc') = M \ {x}
  BY <1>1, <1>2, MessageFacts DEF Placed
<1>6. \A id \in Messages(ipc') : x < id
  <2>1. \A i \in DOMAIN ipc' : i + 1 \in DOMAIN ipc /\ ipc'[i] = ipc[i + 1] /\ 1 < i + 1 /\ 1 \in DOMAIN ipc
    BY <1>1, <1>2, TailFacts
  <2>2. Head(ipc) = ipc[1]
    BY <1>1, <1>2, TailFacts
  <2>3. QED
    BY <2>1, <2>2 DEF Placed, Rising, Messages
<1>7. Line(R, D, Q, P, M) /\ RisingCalls(queue) /\ RisingParses(worker, generation) /\ RunsInOrder
  BY DEF Ordered
<1>8. x \notin R /\ (\A id \in D \union Q \union P : id < x) /\ x <= posted
  BY <1>5, <1>7 DEF Line, Before, Placed, AtMost
<1>9. CASE UNCHANGED <<ran, queue, worker>>
  BY <1>1, <1>5, <1>7, <1>9, OrderedSame
<1>10. CASE /\ Head(ipc).kind = "input" /\ ran' \in {ran, Append(ran, call)}
            /\ UNCHANGED queue /\ Reply(call, outstanding + 1, document, FALSE)
  <2>1. Parses(worker', generation') = P /\ RisingParses(worker', generation')
    BY <1>1, <1>4, <1>10, ReplyParses
  <2>2. CASE ran' = ran
    BY <1>1, <1>5, <1>10, <2>1, <2>2, OrderedSame
  <2>3. CASE ran' = Append(ran, call)
    <3>1. RunsInOrder' /\ Calls(ran') = R \union {x} /\ Waited(ran') = D
      BY <1>4, <1>7, <1>8, <1>10, <2>3, RanAppend
    <3>2. x \notin Q \union P
      BY <1>5, <1>8, LineTypes, IdTypes
    <3>3. \A id \in Calls(ran') : id <= posted'
      BY <1>1, <1>8, <3>1 DEF Ordered
    <3> HIDE DEF x, R, D, Q, P, M
    <3>4. Line(R \union {x}, D, Q, P, M \ {x})
      BY <1>7, <3>2 DEF Line, Before
    <3>5. Line(Calls(ran'), Waited(ran'), Calls(queue'), Parses(worker', generation'), Messages(ipc'))
      BY <1>5, <1>10, <2>1, <3>1, <3>4 DEF Q
    <3>6. QED
      BY <1>7, <1>10, <2>1, <3>1, <3>3, <3>5 DEF Ordered
  <2>4. QED
    BY <1>10, <2>2, <2>3
<1>11. CASE ParsesInline(Head(ipc)) /\ ~closing /\ queue' = Append(queue, call) /\ UNCHANGED <<ran, worker>>
  <2>1. P = {}
    <3>1. Cardinality(Owed) = 0
      BY <1>1, <1>11 DEF ParsesInline, OutstandingExact, Alive
    <3>2. Owed = {}
      BY <3>1, OwedCounts, FS_EmptySet
    <3>3. QED
      BY <3>2, LineTypes
  <2>2. Calls(queue') = Q \union {x}
    <3>1. x \notin Q
      BY <1>5 DEF Placed, Apart
    <3>2. QED
      BY <1>2, <1>4, <1>11, <3>1, CallFacts DEF Placed
  <2>3. RisingCalls(queue')
    BY <1>2, <1>4, <1>7, <1>8, <1>11, QueueOrder
  <2>4. RunsInOrder' /\ (\A id \in Calls(ran') : id <= posted') /\ RisingParses(worker', generation')
    BY <1>1, <1>7, <1>11 DEF Ordered, RunsInOrder
  <2> HIDE DEF x, R, D, Q, P, M
  <2>5. Line(R, D, Q \union {x}, P, M \ {x})
    BY <1>5, <1>6, <1>7, <1>8, <2>1 DEF Line, Before
  <2>6. Line(Calls(ran'), Waited(ran'), Calls(queue'), Parses(worker', generation'), Messages(ipc'))
    BY <1>1, <1>5, <1>11, <2>2, <2>5 DEF R, D, P
  <2>7. QED
    BY <2>3, <2>4, <2>6 DEF Ordered
<1>12. CASE worker' = Append(worker, work) /\ UNCHANGED <<ran, queue>>
  <2>1. Parses(worker', generation') = P \union {x} /\ RisingParses(worker', generation')
    BY <1>1, <1>2, <1>4, <1>7, <1>8, <1>12, ParseOrder
  <2>2. RunsInOrder' /\ (\A id \in Calls(ran') : id <= posted') /\ RisingCalls(queue')
    BY <1>1, <1>7, <1>12 DEF Ordered, RunsInOrder
  <2> HIDE DEF x, R, D, Q, P, M
  <2>3. Line(R, D, Q, P \union {x}, M \ {x})
    BY <1>5, <1>6, <1>7, <1>8 DEF Line, Before
  <2>4. Line(Calls(ran'), Waited(ran'), Calls(queue'), Parses(worker', generation'), Messages(ipc'))
    BY <1>5, <1>12, <2>1, <2>3 DEF R, D, Q
  <2>5. QED
    BY <2>1, <2>2, <2>4 DEF Ordered
<1>13. QED
  BY <1>9, <1>10, <1>11, <1>12 DEF Receive, ReceiveInput, ReceiveRequest, FastPath

\* A parsed request moves from the front of the worker to the end of the queue.
LEMMA OrderedTake == Typed /\ Placed /\ Ordered /\ Take => Ordered'
<1> SUFFICES ASSUME Typed, Placed, Ordered, Take PROVE Ordered'
  OBVIOUS
<1> DEFINE w == Head(worker)
           x == w.call.req.id
           R == Calls(ran) D == Waited(ran) Q == Calls(queue)
           P == Parses(worker, generation) M == Messages(ipc) Rest == Parses(worker', generation')
<1>1. worker # <<>> /\ worker' = Tail(worker) /\ UNCHANGED <<generation, ran, ipc, posted>>
  BY DEF Take, session, posts
<1>2. worker \in Seq(Works) /\ queue \in Seq(Call) /\ w \in Works
  BY <1>1, Types, TailFacts DEF Typed
<1>3. Line(R, D, Q, P, M) /\ RisingCalls(queue) /\ RisingParses(worker, generation) /\ RunsInOrder
  BY DEF Ordered
<1>4. /\ RisingParses(worker', generation')
      /\ ~IsParse(w, generation) => Rest = P
      /\ IsParse(w, generation) => x \in P /\ P = Rest \union {x} /\ \A id \in Rest : x < id
  BY <1>1, <1>2, <1>3, ParseOrder
<1>5. RunsInOrder' /\ \A id \in Calls(ran') : id <= posted'
  BY <1>1 DEF Ordered, RunsInOrder
<1>6. CASE UNCHANGED queue
  <2>1. Rest \subseteq P
    BY <1>4
  <2>2. Line(R, D, Q, Rest, M)
    BY <1>3, <2>1 DEF Line, Before
  <2>3. Line(Calls(ran'), Waited(ran'), Calls(queue'), Parses(worker', generation'), Messages(ipc'))
    BY <1>1, <1>6, <2>2
  <2>4. QED
    BY <1>3, <1>4, <1>5, <1>6, <2>3 DEF Ordered
<1>7. CASE queue' = Append(queue, w.call) /\ IsParse(w, generation)
  <2>1. w.call \in Call
    BY <1>2, <1>7 DEF IsParse, Works, CallWork, EventWork
  <2>2. x \in P /\ P = Rest \union {x} /\ \A id \in Rest : x < id
    BY <1>4, <1>7
  <2>3. \A id \in Q : id < x
    BY <1>3, <2>2 DEF Line, Before
  <2>4. RisingCalls(queue')
    BY <1>2, <1>3, <1>7, <2>1, <2>3, QueueOrder
  <2>5. Calls(queue') = Q \union {x}
    <3>1. x \notin Q
      BY <2>2, LineTypes DEF Placed, Apart
    <3>2. QED
      BY <1>2, <1>7, <2>1, <3>1, CallFacts DEF Placed
  <2> HIDE DEF x, R, D, Q, P, M, Rest
  <2>6. Line(R, D, Q \union {x}, Rest, M)
    BY <1>3, <2>2 DEF Line, Before
  <2>7. Line(Calls(ran'), Waited(ran'), Calls(queue'), Parses(worker', generation'), Messages(ipc'))
    BY <1>1, <2>5, <2>6 DEF R, D, M, Rest
  <2>8. QED
    BY <1>4, <1>5, <2>4, <2>7 DEF Ordered
<1>8. QED
  <2>1. CASE Dropped(w)
    BY <1>6, <2>1 DEF Take
  <2>2. CASE ~Dropped(w) /\ w.what = "Parse" /\ w.call.req.kind # "bad"
    <3>1. IsParse(w, generation)
      BY <2>2 DEF Dropped, WorkGeneration, IsParse
    <3>2. TakeRequest(w)
      BY <2>2 DEF Take
    <3>3. QED
      BY <1>6, <1>7, <3>1, <3>2 DEF TakeRequest
  <2>3. CASE ~Dropped(w) /\ ~(w.what = "Parse" /\ w.call.req.kind # "bad")
    BY <1>6, <2>3 DEF Take, TakeScript
  <2>4. QED
    BY <2>1, <2>2, <2>3

\* The first of the queue runs, or is refused.
LEMMA OrderedDispatch == Typed /\ Placed /\ Ordered /\ Dispatch => Ordered'
<1> SUFFICES ASSUME Typed, Placed, Ordered, Dispatch PROVE Ordered'
  OBVIOUS
<1> DEFINE call == Head(queue)
           x == call.req.id
           work == [what |-> "File", call |-> call]
           R == Calls(ran) D == Waited(ran) Q == Calls(queue)
           P == Parses(worker, generation) M == Messages(ipc)
<1>1. /\ queue # <<>> /\ queue' = Tail(queue) /\ UNCHANGED <<generation, ipc, posted>>
      /\ DispatchRefused(call) \/ DispatchHello(call) \/ DispatchCall(call)
  BY DEF Dispatch, posts
<1>2. worker \in Seq(Works) /\ queue \in Seq(Call) /\ call \in Call
  BY <1>1, Types, TailFacts DEF Typed
<1>3. Line(R, D, Q, P, M) /\ RisingCalls(queue) /\ RisingParses(worker, generation) /\ RunsInOrder
  BY DEF Ordered
<1>4. /\ RisingCalls(queue') /\ \A id \in Calls(queue') : x < id
  BY <1>1, <1>2, <1>3, QueueOrder
<1>5. x \in Q /\ Calls(queue') = Q \ {x}
  BY <1>1, <1>2, CallFacts DEF Placed
<1>6. x \notin R \union P \union M /\ x <= posted /\ (\A id \in D : id < x)
  <2>1. x \notin P \union M
    BY <1>5, LineTypes DEF Placed, Apart
  <2>2. QED
    BY <1>3, <1>5, <2>1 DEF Line, Before, Placed, AtMost
<1>7. Parses(worker', generation') = P /\ RisingParses(worker', generation')
  <2>1. \/ worker' = worker
        \/ worker' = Append(worker, work)
        \/ \E current, shut : Reply(call, outstanding, current, shut)
    BY <1>1 DEF DispatchRefused, DispatchHello, DispatchCall, StartFile
  <2>2. CASE worker' = Append(worker, work)
    <3>1. work \in Works /\ ~IsParse(work, generation)
      BY <1>2 DEF Works, CallWork, IsParse
    <3>2. QED
      BY <1>1, <1>2, <1>3, <2>2, <3>1, ParseOrder
  <2>3. CASE \E current, shut : Reply(call, outstanding, current, shut)
    BY <1>1, <1>2, <2>3, ReplyParses
  <2>4. QED
    BY <1>1, <1>3, <2>1, <2>2, <2>3
<1>8. CASE ran' = ran
  <2>1. Line(R, D, Q \ {x}, P, M)
    BY <1>3 DEF Line, Before
  <2>2. Line(Calls(ran'), Waited(ran'), Calls(queue'), Parses(worker', generation'), Messages(ipc'))
    BY <1>1, <1>5, <1>7, <1>8, <2>1
  <2>3. RunsInOrder' /\ \A id \in Calls(ran') : id <= posted'
    BY <1>1, <1>8 DEF Ordered, RunsInOrder
  <2>4. QED
    BY <1>4, <1>7, <2>2, <2>3 DEF Ordered
<1>9. CASE ran' = Append(ran, call)
  <2>1. /\ RunsInOrder' /\ Calls(ran') = R \union {x}
        /\ Waited(ran') = D \/ Waited(ran') = D \union {x}
    BY <1>2, <1>3, <1>6, <1>9, RanAppend
  <2>2. \A id \in Calls(ran') : id <= posted'
    BY <1>1, <1>6, <2>1 DEF Ordered
  <2>3. \A id \in Q \ {x} : x < id
    BY <1>4, <1>5
  <2> HIDE DEF x, R, D, Q, P, M, call
  <2>4. Line(R \union {x}, D, Q \ {x}, P, M) /\ Line(R \union {x}, D \union {x}, Q \ {x}, P, M)
    BY <1>3, <1>5, <1>6, <2>3 DEF Line, Before
  <2>5. Line(Calls(ran'), Waited(ran'), Calls(queue'), Parses(worker', generation'), Messages(ipc'))
    BY <1>1, <1>5, <1>7, <2>1, <2>4 DEF M
  <2>6. QED
    BY <1>4, <1>7, <2>1, <2>2, <2>5 DEF Ordered
<1>10. QED
  BY <1>1, <1>8, <1>9 DEF DispatchRefused, DispatchHello, DispatchCall

\* A navigation empties the line up to what the WebView holds.
LEMMA OrderedNavigate == Typed /\ Ordered /\ Navigate => Ordered'
<1> SUFFICES ASSUME Typed, Ordered, Navigate PROVE Ordered'
  OBVIOUS
<1>1. generation' = generation + 1 /\ queue' = <<>> /\ UNCHANGED <<worker, ran, ipc, posted>>
  BY DEF Navigate, posts
<1>2. \A i \in DOMAIN worker' : ~IsParse(worker'[i], generation')
  <2>1. generation \in Nat /\ \A i \in DOMAIN worker : WorkGeneration(worker[i]) <= generation
    BY Types DEF Typed, Current
  <2>2. \A i \in DOMAIN worker : IsParse(worker[i], generation + 1) => WorkGeneration(worker[i]) = generation + 1
    BY DEF IsParse, WorkGeneration
  <2>3. QED
    BY <1>1, <2>1, <2>2
<1>3. Parses(worker', generation') = {} /\ RisingParses(worker', generation')
  BY <1>2 DEF Parses, RisingParses
<1>4. Calls(queue') = {} /\ RisingCalls(queue')
  BY <1>1 DEF Calls, RisingCalls
<1>5. Line(Calls(ran), Waited(ran), {}, {}, Messages(ipc))
  BY DEF Ordered, Line, Before
<1>6. RunsInOrder' /\ \A id \in Calls(ran') : id <= posted'
  BY <1>1 DEF Ordered, RunsInOrder
<1>7. QED
  BY <1>1, <1>3, <1>4, <1>5, <1>6 DEF Ordered

LEMMA OrderedStep == Typed /\ Placed /\ OutstandingExact /\ Ordered /\ [Next]_vars => Ordered'
<1> SUFFICES ASSUME Typed, Placed, OutstandingExact, Ordered, [Next]_vars PROVE Ordered'
  OBVIOUS
<1> USE DEF vars, session, fate, counters, events, client, clock, posts
<1>0. RisingParses(worker, generation)
  BY DEF Ordered
<1>1. CASE PostHello \/ Post
  BY <1>1, OrderedPost
<1>2. ASSUME NEW id \in Ids, Expire(id) \/ PageTimeout(id) PROVE Ordered'
  <2>1. UNCHANGED <<ran, queue, posted, ipc, worker, generation>>
    BY <1>2 DEF Expire, PageTimeout
  <2>2. QED
    BY <1>0, <2>1, OrderedSame
<1>3. CASE Receive
  BY <1>3, OrderedReceive
<1>4. CASE Navigate
  BY <1>4, OrderedNavigate
<1>5. CASE Commit \/ UNCHANGED vars
  <2>1. UNCHANGED <<ran, queue, posted, ipc, worker, generation>>
    BY <1>5 DEF Commit
  <2>2. QED
    BY <1>0, <2>1, OrderedSame
<1>6. CASE Take
  BY <1>6, OrderedTake
<1>7. CASE Dispatch
  BY <1>7, OrderedDispatch
<1>8. CASE Return
  <2>1. /\ running \in Call /\ Reply(running, outstanding, document, FALSE)
        /\ UNCHANGED <<ran, queue, posted, ipc, generation>>
    BY <1>8, Types DEF Return, Typed
  <2>2. QED
    BY <2>1, ReplyParses, OrderedSame
<1>9. ASSUME NEW call \in asyncs, Complete(call) PROVE Ordered'
  <2>1. /\ call \in Call /\ UNCHANGED <<ran, queue, posted, ipc, generation>>
        /\ UNCHANGED worker \/ Reply(call, outstanding, document, FALSE)
    BY <1>9, Types DEF Complete, Typed
  <2>2. QED
    BY <1>0, <2>1, ReplyParses, OrderedSame
<1>10. CASE PushEvent \/ StateEvent
  <2>1. PICK w \in Works : ~IsCall(w) /\ worker' \in {worker, Append(worker, w)}
    BY <1>10, EventIs
  <2>2. UNCHANGED <<ran, queue, posted, ipc, generation>> /\ worker \in Seq(Works)
    BY <1>10, EventIs, Types DEF Typed
  <2>3. ~IsParse(w, generation)
    BY <2>1 DEF IsCall, IsParse
  <2>4. /\ Parses(Append(worker, w), generation) = Parses(worker, generation)
        /\ RisingParses(Append(worker, w), generation)
    BY <1>0, <2>2, <2>3, ParseOrder
  <2>5. QED
    BY <1>0, <2>1, <2>2, <2>4, OrderedSame
<1>11. CASE Close \/ Break \/ Vanish \/ Overdue \/ ReadyTimeout \/ Teardown
  <2>1. UNCHANGED <<ran, queue, posted, ipc, worker, generation>>
    BY <1>11 DEF Close, Break, Vanish, Overdue, ReadyTimeout, Teardown
  <2>2. QED
    BY <1>0, <2>1, OrderedSame
<1>12. QED
  BY <1>1, <1>2, <1>3, <1>4, <1>5, <1>6, <1>7, <1>8, <1>9, <1>10, <1>11 DEF Next

\* Requests run once each and in the order of their posting, whichever way they come:
\* parsed at once or by the worker, before or after a navigation.
THEOREM BridgeRunsInOrder == Spec => []RunsInOrder
<1> DEFINE Lines == Typed /\ Placed /\ OutstandingExact /\ Ordered
<1>1. Init => Lines
  BY TypedInit, PlacedInit, ExactInit, OrderedInit
<1>2. Lines /\ [Next]_vars => Lines'
  BY TypedStep, PlacedStep, ExactStep, OrderedStep
<1>3. Lines => RunsInOrder
  BY DEF Ordered
<1>4. QED
  BY <1>1, <1>2, <1>3, PTL DEF Spec

-----------------------------------------------------------------------------
(* What no step does. *)

\* The page gives up only on requests whose native clock ran out before.
Forgets == forgotten \subseteq expired

LEMMA ForgetsStep == Forgets /\ [Next]_vars => Forgets'
<1> SUFFICES ASSUME Forgets, [Next]_vars PROVE Forgets'
  OBVIOUS
<1>1. ASSUME NEW id \in Ids, Expire(id) \/ PageTimeout(id) PROVE Forgets'
  BY <1>1 DEF Forgets, Expire, PageTimeout
<1>2. CASE UNCHANGED <<expired, forgotten>>
  BY <1>2 DEF Forgets
<1>3. CASE Dispatch
  BY <1>2, <1>3 DEF Dispatch
<1>4. CASE UNCHANGED clock
  BY <1>2, <1>4 DEF clock
<1>5. CASE PostHello \/ Post \/ Receive \/ Navigate \/ Commit \/ Take \/ Return \/ UNCHANGED vars
  BY <1>4, <1>5 DEF PostHello, Post, Receive, Navigate, Commit, Take, Return, vars
<1>6. CASE \E call \in asyncs : Complete(call)
  BY <1>4, <1>6 DEF Complete
<1>7. CASE PushEvent \/ StateEvent \/ Close \/ Break \/ Vanish \/ Overdue \/ ReadyTimeout \/ Teardown
  BY <1>4, <1>7 DEF PushEvent, StateEvent, Close, Break, Vanish, Overdue, ReadyTimeout, Teardown
<1>8. QED
  BY <1>1, <1>3, <1>5, <1>6, <1>7 DEF Next

\* A step runs nothing, or one request whose clock has not run out.
LEMMA RunsInTime ==
  ASSUME Typed, [Next]_vars
  PROVE  ran' = ran \/ \E call \in Call : ran' = Append(ran, call) /\ call.req.id \notin expired
<1> USE DEF vars, session, fate, counters, events, client, clock, posts
<1>1. CASE Receive
  <2> DEFINE call == [req |-> Head(ipc), gen |-> generation]
  <2>1. ipc # <<>>
    BY <1>1 DEF Receive
  <2>2. ipc \in Seq(Request) /\ generation \in Documents
    BY <2>1, Types, GenerationType DEF Typed
  <2>3. call \in Call
    BY <2>1, <2>2, TailFacts DEF Call
  <2>4. ran' = ran \/ (ran' = Append(ran, call) /\ call.req.id \notin expired)
    BY <1>1 DEF Receive, ReceiveInput, ReceiveRequest, Stale
  <2>5. QED
    BY <2>3, <2>4
<1>2. CASE Dispatch
  <2> DEFINE call == Head(queue)
  <2>1. call \in Call
    <3>1. queue \in Seq(Call) /\ queue # <<>>
      BY <1>2, Types DEF Dispatch, Typed
    <3>2. QED
      BY <3>1, TailFacts
  <2>2. ran' = ran \/ (ran' = Append(ran, call) /\ call.req.id \notin expired)
    BY <1>2 DEF Dispatch, DispatchRefused, DispatchHello, DispatchCall, Refused
  <2>3. QED
    BY <2>1, <2>2
<1>3. CASE ~Receive /\ ~Dispatch
  BY <1>3 DEF Next, PostHello, Post, Expire, PageTimeout, Navigate, Commit, Take, Return, Complete,
              PushEvent, StateEvent, Close, Break, Vanish, Overdue, ReadyTimeout, Teardown
<1>4. QED
  BY <1>1, <1>2, <1>3

\* A call the page gave up on with TIMEOUT has not run and never will.
THEOREM BridgeNoLateExecution == Spec => NoLateExecution
<1> DEFINE Late == \A i \in DOMAIN ran' : ran'[i].req.id \in forgotten => i \in DOMAIN ran
<1>1. Init => Typed /\ Forgets
  BY TypedInit DEF Init, Forgets
<1>2. Typed /\ Forgets /\ [Next]_vars => (Typed /\ Forgets)'
  BY TypedStep, ForgetsStep
<1>3. Typed /\ Forgets /\ [Next]_vars => [Late]_vars
  <2> SUFFICES ASSUME Typed, Forgets, [Next]_vars PROVE Late
    OBVIOUS
  <2>1. CASE ran' = ran
    BY <2>1
  <2>2. ASSUME NEW call \in Call, ran' = Append(ran, call), call.req.id \notin expired PROVE Late
    <3>1. ran \in Seq(Call)
      BY Types DEF Typed
    <3>2. \A i \in DOMAIN ran' : i \in DOMAIN ran \/ ran'[i] = call
      BY <2>2, <3>1, AppendFacts
    <3>3. QED
      BY <2>2, <3>2 DEF Forgets
  <2>3. QED
    BY <2>1, <2>2, RunsInTime
<1>4. QED
  BY <1>1, <1>2, <1>3, PTL DEF Spec, NoLateExecution

\* A window that closes in time has delivered, or lost with its WebView, all the output
\* it counted: Session::output_pending holds it until nothing is on its way.
THEOREM BridgeCloseFlushes == Spec => CloseFlushes
<1> DEFINE Flushed == window' = "erased" /\ Alive /\ ~overdue => CountedOutput = {}
<1>1. Init => Typed /\ Covered
  BY TypedInit, CoveredInit
<1>2. Typed /\ Covered /\ [Next]_vars => (Typed /\ Covered)'
  BY TypedStep, CoveredStep
<1>3. Typed /\ Covered /\ [Next]_vars => [Flushed]_vars
  <2> SUFFICES ASSUME Typed, Covered, [Next]_vars, window' = "erased", Alive, ~overdue
               PROVE  CountedOutput = {}
    OBVIOUS
  <2>1. Teardown
    BY DEF Next, Alive, vars, PostHello, Post, Posts, Expire, PageTimeout, Receive, Navigate, Commit, Take,
           Dispatch, Return, Complete, PushEvent, StateEvent, Close, Break, Vanish, Overdue, ReadyTimeout
  <2>2. outputPending = 0
    BY <2>1 DEF Teardown, MayErase, Alive
  <2>3. QED
    BY <2>2, NothingAhead DEF CountedOutput
<1>4. QED
  BY <1>1, <1>2, <1>3, PTL DEF Spec, CloseFlushes

=============================================================================
