---------------------------- MODULE HostService ----------------------------
(***************************************************************************)
(* The native service registry (runtime/host_service.cpp).  Extensions     *)
(* register services on the main thread; pages and external clients call   *)
(* them; the answer comes from any thread and is queued under one mutex    *)
(* for the main thread's tick.                                             *)
(*                                                                         *)
(* Extension callbacks run on the main thread outside the mutex and may    *)
(* enter the registry again (or run a nested message loop in which a page  *)
(* navigates).  `stack` holds the registry calls that are inside such a    *)
(* callback, the innermost first.  Calls with a reply and tick() start     *)
(* only from the runtime's own tick, which is not re-entrant; that no      *)
(* timer fires inside the on_cancel of a navigation is an assumption.      *)
(***************************************************************************)
EXTENDS Integers, SequencesExt

CONSTANTS
  Names,         \* service names
  Windows,       \* page consumers; a navigated page keeps its window
  Externals,     \* external client sessions
  Everyone,      \* the addressee of a broadcast event: window 0
  Sizes,         \* serialized sizes of an answer or event
  ServiceLimit,  \* 256 in the code: services registered at once
  PendingLimit,  \* 1024 in the code: calls waiting for their answer
  OutputLimit,   \* 2048 in the code: queued answers and events
  ByteLimit,     \* host_queue_bytes, 16 MiB in the code
  MaxServices, MaxRequests, MaxEvents, MaxCancels, MaxDepth  \* bounds of the model

Consumers == Windows \cup Externals
Handles == 1 .. MaxServices
Requests == 1 .. MaxRequests

ASSUME HostServiceAssumption ==
  /\ Everyone \notin Consumers /\ Windows \cap Externals = {}
  /\ Sizes \subseteq Nat
  /\ {ServiceLimit, PendingLimit, OutputLimit, ByteLimit} \subseteq Nat
  /\ {MaxServices, MaxRequests, MaxEvents, MaxCancels, MaxDepth} \subseteq Nat

VARIABLES
  services,     \* services_: registered handles with their names
  pending,      \* pending_
  output,       \* output_: `at` numbers the items in the order they were pushed
  outputBytes,  \* output_bytes_
  nextService, nextRequest,  \* next_service_, next_request_
  late,         \* requests up to this number are older than 30 s
  stack,        \* main-thread calls inside an extension callback
  answers,      \* history: replies given to each request, in order
  finished,     \* history: requests for which complete() returned OK
  abandoned,    \* history: requests dropped because their consumer left
  posted, cancels  \* history and bound: pushes to output, consumers that left

registry == <<services, pending, output, outputBytes, nextService, nextRequest>>
history == <<answers, finished, abandoned, posted, cancels>>
vars == <<registry, late, stack, history>>

Service == [handle : Handles, name : Names]
Pending == [id : Requests, service : Handles, consumer : Consumers, completed : BOOLEAN]
Output == [at : Nat, service : Handles, request : Requests \cup {0},
           to : Consumers \cup {Everyone}, bytes : Sizes]

\* A registry call inside a callback: on_request of a call, the shutdown
\* callback of remove(), or on_cancel for the first of `todo`, which have left
\* pending_ already.  `cause` decides how the cancelled calls are answered.
Frame == [op : {"request", "shutdown", "cancel"}, cause : {"call", "unloaded", "timeout", "left"},
          todo : SUBSET Pending, service : Handles \cup {0}, consumer : Consumers \cup {Everyone}]

Init ==
  /\ services = {} /\ pending = {} /\ output = {} /\ outputBytes = 0
  /\ nextService = 0 /\ nextRequest = 0 /\ late = 0
  /\ stack = <<>>
  /\ answers = [r \in Requests |-> <<>>] /\ finished = {}
  /\ abandoned = {} /\ posted = 0 /\ cancels = 0

Registered == {s.handle : s \in services}
Idle == stack = <<>>
Top == Head(stack)

\* std::map order: calls are cancelled and expire by number.
Oldest(call, calls) == \A other \in calls : call.id <= other.id

\* Extension code runs: inside on_request, shutdown, or an on_cancel whose
\* service is still known (remove() kept a copy of its callbacks).
InCallback ==
  /\ stack # <<>> /\ Len(stack) < MaxDepth
  /\ Top.op = "cancel" =>
       \E call \in Top.todo : Oldest(call, Top.todo) /\ (Top.cause # "left" \/ call.service \in Registered)

BytesOf(items) == MapThenSumSet(LAMBDA item : item.bytes, items)

\* std::deque order: the item pushed first.
First(item) == \A other \in output : item.at <= other.at

\* Erase from output_ and keep the byte count; the form every erasing loop has.
Erase(items) ==
  /\ output' = output \ items
  /\ outputBytes' = outputBytes - BytesOf(items)

Answer(requests, reply) ==
  answers' = [r \in Requests |-> IF r \in requests THEN Append(answers[r], reply) ELSE answers[r]]

-----------------------------------------------------------------------------
(* Registration and calls, on the main thread. *)

Add(name) ==
  /\ Idle \/ InCallback
  /\ nextService < MaxServices
  /\ \A s \in services : s.name # name
  /\ Cardinality(services) < ServiceLimit
  /\ nextService' = nextService + 1
  /\ services' = services \cup {[handle |-> nextService + 1, name |-> name]}
  /\ UNCHANGED <<pending, output, outputBytes, nextRequest, late, stack, history>>

\* call() or call_external() with a reply: recorded first, then on_request runs.
Call(service, consumer) ==
  /\ Idle /\ nextRequest < MaxRequests
  /\ service \in services
  /\ Cardinality(pending) < PendingLimit
  /\ LET call == [id |-> nextRequest + 1, service |-> service.handle,
                  consumer |-> consumer, completed |-> FALSE]
     IN /\ pending' = pending \cup {call}
        /\ stack' = <<[op |-> "request", cause |-> "call", todo |-> {call},
                       service |-> service.handle, consumer |-> consumer]>>
  /\ nextRequest' = nextRequest + 1
  /\ UNCHANGED <<services, output, outputBytes, nextService, late, history>>

RequestAccepted ==
  /\ stack # <<>> /\ Top.op = "request"
  /\ stack' = Tail(stack)
  /\ UNCHANGED <<registry, late, history>>

\* Mutant: the reply is taken whether or not the call was completed meanwhile.
TakesBack(call) == TRUE

\* on_request refused: its status is the answer, unless the call was completed
\* or cancelled while it ran.
StillOpen(call) == ~call.completed

RequestRefused ==
  /\ stack # <<>> /\ Top.op = "request"
  /\ LET open == {call \in pending : StillOpen(call) /\ \E asked \in Top.todo : call.id = asked.id}
     IN /\ pending' = pending \ open
        /\ Answer({call.id : call \in open}, "refused")
  /\ stack' = Tail(stack)
  /\ UNCHANGED <<services, output, outputBytes, nextService, nextRequest, late,
                 finished, abandoned, posted, cancels>>

-----------------------------------------------------------------------------
(* Answers and events, from any thread. *)

HasRoom(bytes) == Cardinality(output) < OutputLimit /\ outputBytes + bytes <= ByteLimit

Post(service, request, to, bytes) ==
  /\ HasRoom(bytes)
  /\ output' = output \cup {[at |-> posted + 1, service |-> service, request |-> request,
                             to |-> to, bytes |-> bytes]}
  /\ outputBytes' = outputBytes + bytes
  /\ posted' = posted + 1

\* complete(): the call stays in pending_, out of reach of the timeout.
Complete(call, bytes) ==
  /\ call \in pending /\ ~call.completed
  /\ call.service \in Registered
  /\ Post(call.service, call.id, IF call.consumer \in Windows THEN call.consumer ELSE Everyone, bytes)
  /\ pending' = (pending \ {call}) \cup {[call EXCEPT !.completed = TRUE]}
  /\ finished' = finished \cup {call.id}
  /\ UNCHANGED <<services, nextService, nextRequest, late, stack, answers, abandoned, cancels>>

Emit(service, to, bytes) ==
  /\ posted < MaxEvents + MaxRequests
  /\ service \in Registered
  /\ Post(service, 0, to, bytes)
  /\ UNCHANGED <<services, pending, nextService, nextRequest, late, stack,
                 answers, finished, abandoned, cancels>>

-----------------------------------------------------------------------------
(* Removal and cancellation, on the main thread. *)

OutputOf(handle) == {item \in output : item.service = handle}

\* remove(): under the mutex the service, its calls and its output vanish
\* together; then the callbacks run.
Unregister(service) ==
  /\ Idle \/ InCallback
  /\ service \in services
  /\ services' = services \ {service}
  /\ LET calls == {call \in pending : call.service = service.handle}
     IN /\ pending' = pending \ calls
        /\ stack' = <<[op |-> "shutdown", cause |-> "unloaded", todo |-> calls,
                       service |-> service.handle, consumer |-> Everyone]>> \o stack
  /\ Erase(OutputOf(service.handle))
  /\ UNCHANGED <<nextService, nextRequest, late, history>>

ShutdownReturned ==
  /\ stack # <<>> /\ Top.op = "shutdown"
  /\ stack' = <<[Top EXCEPT !.op = "cancel"]>> \o Tail(stack)
  /\ UNCHANGED <<registry, late, history>>

\* Mutant: a call with its answer queued already is not cancelled.
OpenCallsOf(consumer) == {call \in pending : call.consumer = consumer /\ ~call.completed}

CallsOf(consumer) == {call \in pending : call.consumer = consumer}

\* cancel_window() on navigation or close, also from a nested message loop;
\* cancel_external() when a client session ends.
Leave(consumer) ==
  /\ Idle \/ (InCallback /\ consumer \in Windows)
  /\ cancels < MaxCancels
  /\ pending' = pending \ CallsOf(consumer)
  /\ stack' = <<[op |-> "cancel", cause |-> "left", todo |-> CallsOf(consumer),
                 service |-> 0, consumer |-> consumer]>> \o stack
  /\ abandoned' = abandoned \cup {call.id : call \in CallsOf(consumer)}
  /\ cancels' = cancels + 1
  /\ UNCHANGED <<services, output, outputBytes, nextService, nextRequest, late,
                 answers, finished, posted>>

\* cancel() with status 0 answers nobody: the consumer is gone.
AnswersCancelled(cause) == cause # "left"

\* Mutant: the loop stops after one call.
Others(call) == {}

Behind(call) == Top.todo \ {call}

\* on_cancel for the oldest call is over; the call gets its answer.
CancelReturned ==
  /\ stack # <<>> /\ Top.op = "cancel"
  /\ \E call \in Top.todo :
       /\ Oldest(call, Top.todo)
       /\ Answer(IF AnswersCancelled(Top.cause) THEN {call.id} ELSE {}, Top.cause)
       /\ stack' = <<[Top EXCEPT !.todo = Behind(call)]>> \o Tail(stack)
  /\ UNCHANGED <<registry, late, finished, abandoned, posted, cancels>>

\* Nothing left to cancel: remove() sends "unloaded", cancel_window() erases,
\* in a second critical section, what is queued for the window.
CancelEnds ==
  /\ stack # <<>> /\ Top.op = "cancel" /\ Top.todo = {}
  /\ Erase({item \in output : Top.cause = "left" /\ Top.consumer \in Windows /\ item.to = Top.consumer})
  /\ stack' = Tail(stack)
  /\ UNCHANGED <<services, pending, nextService, nextRequest, late,
                 answers, finished, abandoned, posted, cancels>>

-----------------------------------------------------------------------------
(* tick(). *)

\* One round of the first loop: an answer goes to the reply of its call and is
\* skipped when the call was cancelled; an event goes to its subscribers.
TickOutput(item) ==
  /\ Idle /\ item \in output /\ First(item)
  /\ Erase({item})
  /\ LET done == {call \in pending : item.service \in Registered /\ call.id = item.request}
     IN pending' = pending \ done /\ Answer({call.id : call \in done}, "result")
  /\ UNCHANGED <<services, nextService, nextRequest, late, stack,
                 finished, abandoned, posted, cancels>>

Expires(call) == call.id <= late /\ ~call.completed

\* One round of the second loop.
TickExpire(call) ==
  /\ Idle
  /\ call \in pending /\ Expires(call)
  /\ Oldest(call, {other \in pending : Expires(other)})
  /\ pending' = pending \ {call}
  /\ stack' = <<[op |-> "cancel", cause |-> "timeout", todo |-> {call},
                 service |-> call.service, consumer |-> Everyone]>>
  /\ UNCHANGED <<services, output, outputBytes, nextService, nextRequest, late, history>>

\* Time passes: the deadlines of some more calls, set in order, lie behind.
Elapse ==
  /\ \E r \in late + 1 .. nextRequest : late' = r
  /\ UNCHANGED <<registry, stack, history>>

-----------------------------------------------------------------------------

Return == RequestAccepted \/ RequestRefused \/ ShutdownReturned \/ CancelReturned \/ CancelEnds
Deliver == \E item \in output : TickOutput(item)
Expire == \E call \in pending : TickExpire(call)

\* The main thread waits for the next timer: not a deadlock.
Quiet == Idle /\ output = {} /\ UNCHANGED vars

Next ==
  \/ \E name \in Names : Add(name)
  \/ \E service \in services, consumer \in Consumers : Call(service, consumer)
  \/ \E call \in pending, bytes \in Sizes : Complete(call, bytes)
  \/ \E service \in Registered, to \in Windows \cup {Everyone}, bytes \in Sizes : Emit(service, to, bytes)
  \/ \E service \in services : Unregister(service)
  \/ \E consumer \in Consumers : Leave(consumer)
  \/ Return
  \/ Deliver \/ Expire
  \/ Elapse \/ Quiet

Spec == Init /\ [][Next]_vars

\* The timer ticks, callbacks return and the clock goes on.  Extensions need not
\* answer at all.
Fairness ==
  /\ WF_vars(Return) /\ WF_vars(Deliver) /\ WF_vars(Expire) /\ WF_vars(Elapse)

FairSpec == Spec /\ Fairness

-----------------------------------------------------------------------------
(* Properties. *)

\* Every variable has its type and the queues respect their item limits.
TypeOK ==
  /\ services \subseteq Service /\ pending \subseteq Pending /\ output \subseteq Output
  /\ Cardinality(services) <= ServiceLimit
  /\ Cardinality(pending) <= PendingLimit /\ Cardinality(output) <= OutputLimit
  /\ nextService \in 0 .. MaxServices /\ nextRequest \in 0 .. MaxRequests /\ late \in 0 .. MaxRequests
  /\ stack \in Seq(Frame)
  /\ answers \in [Requests -> Seq({"result", "refused", "unloaded", "timeout", "left"})]
  /\ finished \subseteq Requests /\ abandoned \subseteq Requests
  /\ posted \in Nat /\ cancels \in Nat

\* The registry never holds a call or a queued item of a service that is gone:
\* tick() reads services_.at() for an expired call, which would throw.
ServiceAlive ==
  /\ \A call \in pending : call.service \in Registered
  /\ \A item \in output : item.service \in Registered

\* A completed call is exempt from the timeout, so its answer has to be queued
\* still: nothing else would ever end it.
CompletedIsQueued ==
  \A call \in pending : call.completed =>
    \E item \in output : item.request = call.id

\* A caller is answered at most once, by a result, a refusal, a timeout or the
\* end of the service, and never after its consumer left.
AnsweredOnce ==
  \A r \in Requests :
    /\ Len(answers[r]) <= 1
    /\ r \in abandoned => answers[r] = <<>>

\* What complete() took is what the caller gets: the call no longer times out and
\* a late refusal does not overtake it.  Only the end of the service still can.
ResultStands ==
  \A r \in finished : answers[r] \in {<<>>, <<"result">>, <<"unloaded">>}

\* Each caller gets one answer, and the one complete() took stands.
AnswersStand == AnsweredOnce /\ ResultStands

\* No call is lost: each one issued is pending, is being cancelled, was
\* answered, or belonged to a consumer that left.
Accounted ==
  \A r \in 1 .. nextRequest :
    \/ \E call \in pending : call.id = r
    \/ \E i \in DOMAIN stack : stack[i].op # "request" /\ \E call \in stack[i].todo : call.id = r
    \/ answers[r] # <<>>
    \/ r \in abandoned

\* Every call and every queued item belongs to a registered service, and none is lost.
CallsAccounted == ServiceAlive /\ Accounted

\* Every call ends, whatever the extension does: answered, or its consumer left.
EveryCallEnds ==
  \A r \in Requests : (nextRequest >= r) ~> (answers[r] # <<>> \/ r \in abandoned)
=============================================================================
