------------------------------- MODULE Worker -------------------------------
(***************************************************************************)
(* The background worker (core/worker.cpp): the only thread that parses,   *)
(* encodes and touches files for the main thread.  Two bounded queues, one *)
(* mutex and ONE condition variable join the two threads; only the worker  *)
(* ever waits on it, in two places.  Each action below is a critical       *)
(* section of the code, or a stretch that runs without the mutex.          *)
(***************************************************************************)
EXTENDS Integers, SequencesExt

CONSTANTS
  Sessions,     \* windows; each owns one state file
  QueueLimit,   \* 1024 in the code: works per queue
  ByteLimit,    \* byte_limit, 256 MiB in the code: estimated bytes per queue
  InCost,       \* estimated cost a submitted work of each kind may have
  OutCost,      \* estimated cost a finished work of each kind may have
  MaxSubmits    \* bound of the model: works submitted in one behaviour

SubmitKind == {"Parse", "Encode", "Save", "File", "Icon"}
FinishedKind == {"Request", "Script", "IconReady", "Fault"}

ASSUME WorkerAssumption ==
  /\ Sessions # {}
  /\ QueueLimit \in Nat \ {0}
  /\ ByteLimit \in Nat
  /\ MaxSubmits \in Nat
  /\ InCost \in [SubmitKind -> SUBSET Nat]
  /\ OutCost \in [FinishedKind -> SUBSET Nat]

VARIABLES
  input, inputBytes,    \* input_, input_bytes_
  output, outputBytes,  \* output_, output_bytes_
  stopping,             \* stopping_
  main,                 \* where the main thread is: "run", then the steps of ~Worker
  pc,                   \* where the worker thread is
  hand,                 \* the local `work` of run()
  file, temp,           \* per session: the state file and its .tmp
  accepted,             \* history: every work submit() took, by number
  taken, stored,        \* history: numbers handed back by take(), renamed by save()
  failed, dropped       \* history: saves that threw, works thrown away at stop

queues == <<input, inputBytes, output, outputBytes>>
disk == <<file, temp>>
history == <<accepted, taken, stored, failed, dropped>>
vars == <<queues, stopping, main, pc, hand, disk, history>>

\* A work in either queue, and the empty one each iteration of run() starts with.
Work == [id : Nat, kind : SubmitKind \cup FinishedKind, session : Sessions, cost : Nat]
NoWork == [id |-> 0, kind |-> "Parse", session |-> CHOOSE s \in Sessions : TRUE, cost |-> 0]

\* A file holds what save number id wrote, completely or not; 0: nothing yet.
Contents == [id : Nat, whole : BOOLEAN]
Nothing == [id |-> 0, whole |-> TRUE]

\* What processing a work of a kind can leave in its place.  Parsing yields a
\* request or, for bad JSON, an encoded error; anything may throw bad_alloc.
Outcome(kind) ==
  CASE kind = "Parse" -> {"Request", "Script", "Fault"}
    [] kind = "Icon" -> {"IconReady", "Fault"}
    [] OTHER -> {"Script", "Fault"}

\* Mutant: notifying only wakes a worker that waits for input.
NotifiedForInput(p) == IF p = "sleepInput" THEN "next" ELSE p

\* notify: the worker, if it sleeps, goes back to test the predicate it waits for.
Notified(p) ==
  CASE p = "sleepInput" -> "next"
    [] p = "sleepOutput" -> "push"
    [] OTHER -> p

\* Mutant: the wait for input forgets the stop flag.
InputOnly == input # <<>>

\* The wait predicates of run().
InputReady == stopping \/ input # <<>>
RoomFor(work) == Len(output) < QueueLimit /\ outputBytes + work.cost <= ByteLimit
OutputReady == stopping \/ RoomFor(hand)

Init ==
  /\ input = <<>> /\ inputBytes = 0
  /\ output = <<>> /\ outputBytes = 0
  /\ stopping = FALSE
  /\ main = "run" /\ pc = "next"
  /\ hand = NoWork
  /\ file = [s \in Sessions |-> Nothing]
  /\ temp = [s \in Sessions |-> Nothing]
  /\ accepted = <<>>
  /\ taken = {} /\ stored = {} /\ failed = {} /\ dropped = {}

-----------------------------------------------------------------------------
(* The main thread. *)

Accepts(cost) ==
  ~stopping /\ Len(input) < QueueLimit /\ inputBytes + cost <= ByteLimit

Queued(work) == Append(input, work)

\* submit(): refused, and nothing changes, when stopping or out of items or bytes.
Submit(work) ==
  /\ main = "run" /\ Accepts(work.cost)
  /\ input' = Queued(work)
  /\ inputBytes' = inputBytes + work.cost
  /\ accepted' = Append(accepted, work)
  /\ pc' = Notified(pc)
  /\ UNCHANGED <<output, outputBytes, stopping, main, hand, disk, taken, stored, failed, dropped>>

SubmitAny ==
  \E kind \in SubmitKind, session \in Sessions : \E cost \in InCost[kind] :
    /\ Len(accepted) < MaxSubmits
    /\ Submit([id |-> Len(accepted) + 1, kind |-> kind, session |-> session, cost |-> cost])

Take ==
  /\ main = "run" /\ output # <<>>
  /\ output' = Tail(output)
  /\ outputBytes' = outputBytes - Head(output).cost
  /\ taken' = taken \cup {Head(output).id}
  /\ pc' = Notified(pc)
  /\ UNCHANGED <<input, inputBytes, stopping, main, hand, disk, accepted, stored, failed, dropped>>

\* ~Worker: set the flag under the mutex, notify after releasing it, join.
Stop ==
  /\ main = "run"
  /\ stopping' = TRUE /\ main' = "notify"
  /\ UNCHANGED <<queues, pc, hand, disk, history>>

NotifyAll ==
  /\ main = "notify"
  /\ main' = "join" /\ pc' = Notified(pc)
  /\ UNCHANGED <<queues, stopping, hand, disk, history>>

Join ==
  /\ main = "join" /\ pc = "exited"
  /\ main' = "done"
  /\ UNCHANGED <<queues, stopping, pc, hand, disk, history>>

-----------------------------------------------------------------------------
(* The worker thread: run(). *)

SleepInput ==
  /\ pc = "next" /\ ~InputReady
  /\ pc' = "sleepInput"
  /\ UNCHANGED <<queues, stopping, main, hand, disk, history>>

Exit ==
  /\ pc = "next" /\ InputReady /\ input = <<>>
  /\ pc' = "exited"
  /\ UNCHANGED <<queues, stopping, main, hand, disk, history>>

\* Mutant: stopping forgets saves too.
DiscardsAll(work) == stopping

\* Once stopping, whatever is not a save is popped and forgotten.
Discards(work) == stopping /\ work.kind # "Save"

Pop ==
  /\ pc = "next" /\ input # <<>>
  /\ input' = Tail(input)
  /\ inputBytes' = inputBytes - Head(input).cost
  /\ LET discard == Discards(Head(input))
     IN /\ hand' = IF discard THEN NoWork ELSE Head(input)
        /\ dropped' = IF discard THEN dropped \cup {Head(input).id} ELSE dropped
        /\ pc' = CASE discard -> "next"
                   [] Head(input).kind = "Save" -> "openTemp"
                   [] OTHER -> "process"
  /\ UNCHANGED <<output, outputBytes, stopping, main, disk, accepted, taken, stored, failed>>

\* What is in hand becomes a finished work of this kind, to be pushed.
Finish(kind) ==
  /\ \E cost \in OutCost[kind] : hand' = [hand EXCEPT !.kind = kind, !.cost = cost]
  /\ pc' = "push"

Process ==
  /\ pc = "process"
  /\ \E kind \in Outcome(hand.kind) : Finish(kind)
  /\ UNCHANGED <<queues, stopping, main, disk, history>>

\* A step of save() throws: the work becomes a Fault for the main thread.
SaveThrows ==
  /\ pc \in {"openTemp", "writeTemp", "rename"}
  /\ Finish("Fault")
  /\ failed' = failed \cup {hand.id}
  /\ UNCHANGED <<queues, stopping, main, disk, accepted, taken, stored, dropped>>

\* Mutant: save() truncates the state file itself.
OpenFile ==
  /\ pc = "openTemp"
  /\ file' = [file EXCEPT ![hand.session] = [id |-> hand.id, whole |-> FALSE]]
  /\ pc' = "writeTemp"
  /\ UNCHANGED <<queues, stopping, main, hand, temp, history>>

\* Opening the stream truncates what an earlier attempt left in the .tmp file.
OpenTemp ==
  /\ pc = "openTemp"
  /\ temp' = [temp EXCEPT ![hand.session] = [id |-> hand.id, whole |-> FALSE]]
  /\ pc' = "writeTemp"
  /\ UNCHANGED <<queues, stopping, main, hand, file, history>>

\* Write and flush; only a good stream goes on.
WriteTemp ==
  /\ pc = "writeTemp"
  /\ temp' = [temp EXCEPT ![hand.session].whole = TRUE]
  /\ pc' = "rename"
  /\ UNCHANGED <<queues, stopping, main, hand, file, history>>

\* The replacing rename is atomic; a save that succeeds has no output.
Rename ==
  /\ pc = "rename"
  /\ file' = [file EXCEPT ![hand.session] = temp[hand.session]]
  /\ temp' = [temp EXCEPT ![hand.session] = Nothing]
  /\ stored' = stored \cup {hand.id}
  /\ pc' = "next" /\ hand' = NoWork
  /\ UNCHANGED <<queues, stopping, main, accepted, taken, failed, dropped>>

SleepOutput ==
  /\ pc = "push" /\ ~OutputReady
  /\ pc' = "sleepOutput"
  /\ UNCHANGED <<queues, stopping, main, hand, disk, history>>

Push ==
  /\ pc = "push" /\ ~stopping /\ RoomFor(hand)
  /\ output' = Append(output, hand)
  /\ outputBytes' = outputBytes + hand.cost
  /\ pc' = "next" /\ hand' = NoWork
  /\ UNCHANGED <<input, inputBytes, stopping, main, disk, history>>

DropOutput ==
  /\ pc = "push" /\ stopping
  /\ dropped' = dropped \cup {hand.id}
  /\ pc' = "next" /\ hand' = NoWork
  /\ UNCHANGED <<queues, stopping, main, disk, accepted, taken, stored, failed>>

\* The joined worker is gone: the program may stop here.
Joined == main = "done" /\ UNCHANGED vars

WorkerThread ==
  \/ SleepInput \/ Exit \/ Pop \/ Process
  \/ OpenTemp \/ WriteTemp \/ Rename \/ SaveThrows
  \/ SleepOutput \/ Push \/ DropOutput

MainThread == SubmitAny \/ Take \/ Stop \/ NotifyAll \/ Join

Next == MainThread \/ WorkerThread \/ Joined

Spec == Init /\ [][Next]_vars

\* The worker is scheduled and its file calls return; the runtime timer keeps
\* calling take(); a destructor, once begun, runs on.  Nobody has to stop.
Fairness ==
  /\ WF_vars(WorkerThread)
  /\ WF_vars(Take)
  /\ WF_vars(NotifyAll) /\ WF_vars(Join)

FairSpec == Spec /\ Fairness

-----------------------------------------------------------------------------
(* Properties. *)

PcValue == {"next", "sleepInput", "process", "openTemp", "writeTemp", "rename",
            "push", "sleepOutput", "exited"}
Holding == hand.id # 0

\* Every variable has its type, and the queues never exceed their item limit.
TypeOK ==
  /\ input \in Seq(Work) /\ output \in Seq(Work)
  /\ Len(input) <= QueueLimit /\ Len(output) <= QueueLimit
  /\ inputBytes \in Int /\ outputBytes \in Int
  /\ stopping \in BOOLEAN
  /\ main \in {"run", "notify", "join", "done"}
  /\ pc \in PcValue
  /\ hand \in Work
  /\ file \in [Sessions -> Contents] /\ temp \in [Sessions -> Contents]
  /\ accepted \in Seq(Work)
  /\ taken \subseteq Nat /\ stored \subseteq Nat /\ failed \subseteq Nat /\ dropped \subseteq Nat

\* No lost wakeup: with one condition variable and three notifiers, the worker
\* never sleeps on a predicate that has become true, except in the instant
\* between the destructor's unlock and its notify_all.
NoLostWakeup ==
  main # "notify" =>
    /\ pc = "sleepInput" => ~InputReady
    /\ pc = "sleepOutput" => ~OutputReady

Ids(queue) == {queue[i].id : i \in DOMAIN queue}

\* An accepted work is always somewhere: waiting, in hand, finished, handed
\* back, stored, or thrown away because the worker is stopping.
Conserved ==
  /\ 1 .. Len(accepted) =
       Ids(input) \cup Ids(output) \cup (IF Holding THEN {hand.id} ELSE {})
         \cup taken \cup stored \cup dropped
  /\ dropped # {} => stopping

\* Answers come back in the order the works were submitted, whatever happened
\* to those before them.
AnswersInOrder ==
  [][\A new \in taken' \ taken : \A old \in taken : old < new]_vars

\* ~Worker drops answers but never an accepted save: when the thread has ended
\* each one was renamed into place or had failed.
SavesSurviveStop ==
  pc = "exited" =>
    \A i \in DOMAIN accepted : accepted[i].kind = "Save" => i \in stored \cup failed

\* What the worker accepted is not lost, neither at work nor when it stops.
NothingLost == Conserved /\ SavesSurviveStop

\* A state file is complete at every instant, so also where a crash would leave
\* it, and holds the newest save of its session that succeeded.
StateFileNewest ==
  \A s \in Sessions :
    /\ file[s].whole
    /\ \A i \in stored : accepted[i].session = s => i <= file[s].id

\* Every accepted work that has an answer gets it, unless the worker is stopped.
Answered ==
  \A i \in 1 .. MaxSubmits :
    (i \in DOMAIN accepted /\ accepted[i].kind # "Save") ~> (i \in taken \/ stopping)

\* The destructor returns: whatever the worker waits for, it ends.
StopEnds == stopping ~> main = "done"
=============================================================================
