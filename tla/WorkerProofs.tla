---------------------------- MODULE WorkerProofs ----------------------------
(***************************************************************************)
(* What the worker guarantees for queues, budgets and works of any number  *)
(* and size.  The argument is layered: types, then the stop protocol and   *)
(* the wait predicates, then the order of the works through the queues.    *)
(***************************************************************************)
EXTENDS Worker, SequenceTheorems, TLAPS

\* How the prover sees a queue grow and shrink.
LEMMA AppendFacts ==
  ASSUME NEW S, NEW q \in Seq(S), NEW e \in S
  PROVE  /\ Append(q, e) \in Seq(S) /\ Len(Append(q, e)) = Len(q) + 1
         /\ \A i \in 1 .. Len(q) : Append(q, e)[i] = q[i]
         /\ Append(q, e)[Len(q) + 1] = e
  BY AppendProperties

LEMMA TailFacts ==
  ASSUME NEW S, NEW q \in Seq(S), q # <<>>
  PROVE  /\ Head(q) \in S /\ Head(q) = q[1] /\ Len(q) \in Nat \ {0}
         /\ Tail(q) \in Seq(S) /\ Len(Tail(q)) = Len(q) - 1
         /\ \A i \in 1 .. Len(q) - 1 : Tail(q)[i] = q[i + 1]
  BY HeadTailProperties

LEMMA NoWorkType == NoWork \in Work
  BY WorkerAssumption DEF NoWork, Work, SubmitKind

LEMMA NotifiedType == \A p \in PcValue : Notified(p) \in PcValue
  BY DEF Notified, PcValue

LEMMA FinishType ==
  ASSUME TypeOK, NEW kind \in FinishedKind, Finish(kind)
  PROVE  hand' \in Work /\ hand'.id = hand.id /\ hand'.session = hand.session
         /\ hand'.kind = kind /\ pc' = "push"
<1>1. PICK cost \in OutCost[kind] : hand' = [hand EXCEPT !.kind = kind, !.cost = cost]
  BY DEF Finish
<1>2. cost \in Nat
  BY WorkerAssumption
<1>3. QED
  BY <1>1, <1>2 DEF TypeOK, Work, Finish

\* A submitted work is of a kind submit() is called with, and numbered next.
LEMMA SubmitWork ==
  ASSUME TypeOK, SubmitAny
  PROVE  \E work \in Work : work.id = Len(accepted) + 1 /\ work.kind \in SubmitKind /\ Submit(work)
<1>1. PICK kind \in SubmitKind, session \in Sessions : \E cost \in InCost[kind] :
        Submit([id |-> Len(accepted) + 1, kind |-> kind, session |-> session, cost |-> cost])
  BY DEF SubmitAny
<1>2. PICK cost \in InCost[kind] :
        Submit([id |-> Len(accepted) + 1, kind |-> kind, session |-> session, cost |-> cost])
  BY <1>1
<1>3. cost \in Nat /\ Len(accepted) + 1 \in Nat
  BY WorkerAssumption DEF TypeOK
<1>4. [id |-> Len(accepted) + 1, kind |-> kind, session |-> session, cost |-> cost] \in Work
  BY <1>3 DEF Work
<1>5. QED
  BY <1>2, <1>4

\* Every variable keeps its type and both queues their item limit.
LEMMA TypeInit == Init => TypeOK
<1> SUFFICES ASSUME Init PROVE TypeOK
  OBVIOUS
<1>1. <<>> \in Seq(Work) /\ Len(<<>>) <= QueueLimit
  BY WorkerAssumption
<1>2. [s \in Sessions |-> Nothing] \in [Sessions -> Contents]
  BY DEF Contents, Nothing
<1>3. input \in Seq(Work) /\ output \in Seq(Work) /\ accepted \in Seq(Work)
      /\ Len(input) <= QueueLimit /\ Len(output) <= QueueLimit
  BY <1>1 DEF Init
<1>4. file \in [Sessions -> Contents] /\ temp \in [Sessions -> Contents] /\ hand \in Work
  BY <1>2, NoWorkType DEF Init
<1>5. inputBytes \in Int /\ outputBytes \in Int
  BY DEF Init
<1>8. stopping \in BOOLEAN
  BY DEF Init
<1>6. /\ taken \subseteq Nat /\ stored \subseteq Nat /\ failed \subseteq Nat /\ dropped \subseteq Nat
      /\ main \in {"run", "notify", "join", "done"} /\ pc \in PcValue
  BY DEF Init, PcValue
<1>7. QED
  BY <1>3, <1>4, <1>5, <1>6, <1>8 DEF TypeOK

LEMMA TypeStep == TypeOK /\ [Next]_vars => TypeOK'
<1> SUFFICES ASSUME TypeOK, [Next]_vars PROVE TypeOK'
  OBVIOUS
<1> USE WorkerAssumption
<1> USE DEF vars, queues, disk, history
<1>1. CASE SubmitAny
  <2>1. PICK work \in Work : work.id = Len(accepted) + 1 /\ Submit(work)
    BY <1>1, SubmitWork
  <2>2. work.cost \in Nat /\ Len(input) < QueueLimit
    BY <2>1 DEF Work, Submit, Accepts
  <2>3. input' \in Seq(Work) /\ Len(input') <= QueueLimit /\ accepted' \in Seq(Work)
    BY <2>1, <2>2, AppendFacts DEF TypeOK, Submit, Queued
  <2>4. QED
    BY <2>1, <2>2, <2>3, NotifiedType DEF TypeOK, Submit
<1>2. CASE Take
  <2>1. output' \in Seq(Work) /\ Len(output') <= QueueLimit /\ Head(output) \in Work
    BY <1>2, TailFacts DEF Take, TypeOK
  <2>2. Head(output).cost \in Nat /\ Head(output).id \in Nat
    BY <2>1 DEF Work
  <2>3. QED
    <3>1. pc' \in PcValue
      BY <1>2, NotifiedType DEF Take, TypeOK
    <3>2. outputBytes' \in Int
      BY <1>2, <2>2 DEF Take, TypeOK
    <3>3. taken' \subseteq Nat
      BY <1>2, <2>2 DEF Take, TypeOK
    <3>4. QED
      BY <1>2, <2>1, <3>1, <3>2, <3>3 DEF Take, TypeOK
<1>3. CASE Stop \/ NotifyAll \/ Join
  BY <1>3, NotifiedType DEF Stop, NotifyAll, Join, TypeOK
<1>4. CASE SleepInput \/ Exit \/ SleepOutput
  BY <1>4 DEF SleepInput, Exit, SleepOutput, TypeOK, PcValue
<1>5. CASE Pop
  <2>1. input' \in Seq(Work) /\ Len(input') <= QueueLimit /\ Head(input) \in Work
    BY <1>5, TailFacts DEF Pop, TypeOK
  <2>2. Head(input).cost \in Nat /\ Head(input).id \in Nat
    BY <2>1 DEF Work
  <2>3. QED
    <3>1. hand' \in Work /\ inputBytes' \in Int /\ dropped' \subseteq Nat
      BY <1>5, <2>1, <2>2, NoWorkType DEF Pop, TypeOK
    <3>2. pc' \in PcValue
      BY <1>5 DEF Pop, PcValue
    <3>3. QED
      BY <1>5, <2>1, <3>1, <3>2 DEF Pop, TypeOK
<1>6. CASE Process
  <2>1. PICK kind \in Outcome(hand.kind) : Finish(kind)
    BY <1>6 DEF Process
  <2>2. kind \in FinishedKind
    BY DEF Outcome, FinishedKind
  <2>3. QED
    BY <1>6, <2>1, <2>2, FinishType DEF Process, TypeOK, PcValue
<1>7. CASE SaveThrows
  <2>1. "Fault" \in FinishedKind /\ hand.id \in Nat
    BY DEF FinishedKind, TypeOK, Work
  <2>2. QED
    BY <1>7, <2>1, FinishType DEF SaveThrows, TypeOK, PcValue
<1>8. CASE OpenTemp \/ WriteTemp
  <2>1. hand.id \in Nat /\ hand.session \in Sessions
    BY DEF TypeOK, Work
  <2>2. temp' \in [Sessions -> Contents]
    <3>1. CASE OpenTemp
      BY <2>1, <3>1 DEF OpenTemp, TypeOK, Contents
    <3>2. CASE WriteTemp
      <4>1. [temp[hand.session] EXCEPT !.whole = TRUE] \in Contents
        BY <2>1 DEF TypeOK, Contents
      <4>2. temp' = [temp EXCEPT ![hand.session] = [temp[hand.session] EXCEPT !.whole = TRUE]]
        BY <3>2 DEF WriteTemp
      <4>3. QED
        BY <4>1, <4>2 DEF TypeOK
    <3>3. QED
      BY <1>8, <3>1, <3>2
  <2>3. QED
    BY <1>8, <2>2 DEF OpenTemp, WriteTemp, TypeOK, PcValue
<1>9. CASE Rename
  BY <1>9, NoWorkType DEF Rename, TypeOK, PcValue, Contents, Nothing, Work
<1>10. CASE Push
  <2>1. hand.cost \in Nat /\ Len(output) < QueueLimit
    BY <1>10 DEF Push, RoomFor, TypeOK, Work
  <2>2. output' \in Seq(Work) /\ Len(output') <= QueueLimit
    BY <1>10, <2>1, AppendFacts DEF Push, TypeOK
  <2>3. QED
    BY <1>10, <2>1, <2>2, NoWorkType DEF Push, TypeOK, PcValue
<1>11. CASE DropOutput
  BY <1>11, NoWorkType DEF DropOutput, TypeOK, PcValue, Work
<1>12. CASE Joined \/ UNCHANGED vars
  BY <1>12 DEF Joined, TypeOK
<1>13. QED
  BY <1>1, <1>2, <1>3, <1>4, <1>5, <1>6, <1>7, <1>8, <1>9, <1>10, <1>11, <1>12
     DEF Next, MainThread, WorkerThread

\* The worker is type correct: neither queue ever holds more than its limit.
THEOREM WorkerTypes == Spec => []TypeOK
  BY TypeInit, TypeStep, PTL DEF Spec

-----------------------------------------------------------------------------
(* Layer 2: the stop protocol and the wait predicates. *)

StopInv ==
  /\ stopping <=> main # "run"
  /\ pc = "exited" => stopping /\ input = <<>>
  /\ dropped # {} => stopping

WakeInv == StopInv /\ NoLostWakeup

LEMMA WakeInit == Init => WakeInv
  BY DEF Init, WakeInv, StopInv, NoLostWakeup

LEMMA WakeStep == TypeOK /\ WakeInv /\ [Next]_vars => WakeInv'
<1> SUFFICES ASSUME TypeOK, WakeInv, [Next]_vars PROVE WakeInv'
  OBVIOUS
<1> USE DEF vars, queues, disk, history, WakeInv, StopInv, NoLostWakeup, InputReady, OutputReady, RoomFor
<1>1. CASE SubmitAny
  <2>1. PICK work \in Work : Submit(work)
    BY <1>1, SubmitWork
  <2>2. ~stopping /\ ~stopping' /\ pc # "exited" /\ pc' # "sleepInput" /\ pc' # "sleepOutput" /\ pc' # "exited"
    BY <2>1 DEF Submit, Accepts, Notified, TypeOK, PcValue
  <2>3. QED
    BY <2>1, <2>2 DEF Submit, Accepts
<1>2. CASE Take
  <2>1. pc' # "sleepInput" /\ pc' # "sleepOutput" /\ (pc' = "exited" => pc = "exited")
    BY <1>2 DEF Take, Notified, TypeOK, PcValue
  <2>2. QED
    BY <1>2, <2>1 DEF Take
<1>3. CASE Stop
  BY <1>3 DEF Stop
<1>4. CASE NotifyAll
  <2>1. pc' # "sleepInput" /\ pc' # "sleepOutput" /\ (pc' = "exited" => pc = "exited")
    BY <1>4 DEF NotifyAll, Notified, TypeOK, PcValue
  <2>2. QED
    BY <1>4, <2>1 DEF NotifyAll
<1>5. CASE Join
  BY <1>5 DEF Join
<1>6. CASE SleepInput \/ Exit \/ SleepOutput
  BY <1>6 DEF SleepInput, Exit, SleepOutput
<1>7. CASE Pop
  BY <1>7 DEF Pop, Discards
<1>8. CASE Process \/ SaveThrows
  <2>1. pc' = "push" /\ UNCHANGED <<queues, stopping, main, dropped>>
    BY <1>8 DEF Process, SaveThrows, Finish
  <2>2. QED
    BY <2>1
<1>9. CASE OpenTemp \/ WriteTemp \/ Rename
  BY <1>9 DEF OpenTemp, WriteTemp, Rename
<1>10. CASE Push \/ DropOutput
  BY <1>10 DEF Push, DropOutput
<1>11. CASE Joined \/ UNCHANGED vars
  BY <1>11 DEF Joined
<1>12. QED
  BY <1>1, <1>2, <1>3, <1>4, <1>5, <1>6, <1>7, <1>8, <1>9, <1>10, <1>11
     DEF Next, MainThread, WorkerThread

\* No lost wakeup: the worker never sleeps on a predicate that holds, except
\* between the unlock and the notify_all of the destructor.
THEOREM WorkerWakes == Spec => []NoLostWakeup
<1>1. TypeOK /\ WakeInv /\ [Next]_vars => (TypeOK /\ WakeInv)'
  BY TypeStep, WakeStep
<1>2. Init => TypeOK /\ WakeInv
  BY TypeInit, WakeInit
<1>3. WakeInv => NoLostWakeup
  BY DEF WakeInv
<1>4. QED
  BY <1>1, <1>2, <1>3, PTL DEF Spec

-----------------------------------------------------------------------------
(* Layer 3: where the works are.  The input queue is the suffix of what was    *)
(* accepted; everything before it was popped, the last of them still in hand.  *)

Popped == Len(accepted) - Len(input)
SaveSteps == {"openTemp", "writeTemp", "rename"}

QueueInv ==
  /\ \A i \in 1 .. Len(accepted) : accepted[i].id = i /\ accepted[i].kind \in SubmitKind
  /\ Len(input) <= Len(accepted)
  /\ \A i \in 1 .. Len(input) : input[i] = accepted[Popped + i]

HandInv ==
  /\ Holding <=> pc \in SaveSteps \cup {"process", "push", "sleepOutput"}
  /\ Holding => hand.id = Popped
  /\ pc \in SaveSteps => hand = accepted[Popped] /\ hand.kind = "Save"

\* Handed back, then finished, then in hand, in the order of submission.
OrderInv ==
  /\ \A t \in taken : t <= Popped /\ (Holding => t < Popped)
  /\ \A i \in 1 .. Len(output) :
       /\ output[i].id <= Popped /\ (Holding => output[i].id < Popped)
       /\ \A t \in taken : t < output[i].id
       /\ \A j \in 1 .. Len(output) : i < j => output[i].id < output[j].id

\* A save that left the queue is done with, or is the one in hand.
SaveInv ==
  /\ stored \subseteq 1 .. Popped
  /\ pc \in SaveSteps => \A i \in stored : i < Popped
  /\ pc = "rename" => temp[hand.session] = [id |-> hand.id, whole |-> TRUE]
  /\ pc = "writeTemp" => temp[hand.session].id = hand.id
  /\ \A i \in 1 .. Popped : accepted[i].kind = "Save" =>
       i \in stored \cup failed \/ (i = Popped /\ pc \in SaveSteps)

\* Every popped work is finished, handed back, stored, dropped or in hand.
PlaceInv ==
  1 .. Popped = Ids(output) \cup (IF Holding THEN {hand.id} ELSE {}) \cup taken \cup stored \cup dropped

IInv == WakeInv /\ QueueInv /\ HandInv /\ OrderInv /\ SaveInv /\ StateFileNewest /\ PlaceInv

LEMMA IInit == Init => IInv
<1> SUFFICES ASSUME Init PROVE IInv
  OBVIOUS
<1>1. WakeInv
  BY WakeInit
<1>2. Len(accepted) = 0 /\ Len(input) = 0 /\ Len(output) = 0 /\ Popped = 0 /\ ~Holding /\ pc = "next"
  BY DEF Init, Popped, Holding, NoWork
<1>3. QueueInv /\ HandInv /\ OrderInv
  BY <1>2 DEF Init, QueueInv, HandInv, OrderInv, SaveSteps
<1>4. SaveInv
  BY <1>2 DEF Init, SaveInv, SaveSteps
<1>5. StateFileNewest
  BY DEF Init, StateFileNewest, Nothing
<1>6. PlaceInv
  <2>1. Ids(output) = {}
    BY <1>2 DEF Ids, Init
  <2>2. QED
    BY <1>2, <2>1 DEF Init, PlaceInv
<1>7. QED
  BY <1>1, <1>3, <1>4, <1>5, <1>6 DEF IInv

\* A submit adds at the tail and disturbs nothing that was popped.
LEMMA SubmitFacts ==
  ASSUME TypeOK, QueueInv, SubmitAny
  PROVE  /\ QueueInv' /\ Popped' = Popped /\ Popped \in Nat
         /\ \A i \in 1 .. Popped : accepted'[i] = accepted[i]
         /\ hand' = hand /\ (Holding' <=> Holding) /\ (pc \in SaveSteps => pc' = pc)
         /\ (pc' \in SaveSteps => pc' = pc)
         /\ pc' \in SaveSteps \cup {"process", "push", "sleepOutput"}
              <=> pc \in SaveSteps \cup {"process", "push", "sleepOutput"}
         /\ UNCHANGED <<output, file, temp, taken, stored, failed, dropped>>
<1>1. PICK work \in Work : work.id = Len(accepted) + 1 /\ work.kind \in SubmitKind /\ Submit(work)
  BY SubmitWork
<1>2. /\ accepted' = Append(accepted, work) /\ input' = Append(input, work)
      /\ accepted \in Seq(Work) /\ input \in Seq(Work)
      /\ Len(accepted) \in Nat /\ Len(input) \in Nat
  BY <1>1 DEF Submit, Queued, TypeOK
<1>3. /\ Len(accepted') = Len(accepted) + 1
      /\ \A i \in 1 .. Len(accepted) : accepted'[i] = accepted[i]
      /\ accepted'[Len(accepted) + 1] = work
  BY <1>2, AppendFacts
<1>4. /\ Len(input') = Len(input) + 1
      /\ \A i \in 1 .. Len(input) : input'[i] = input[i]
      /\ input'[Len(input) + 1] = work
  BY <1>2, AppendFacts
<1>5. Popped' = Popped /\ Popped \in Nat
  BY <1>2, <1>3, <1>4 DEF Popped, QueueInv
<1>6. QueueInv'
  <2>1. \A i \in 1 .. Len(accepted') : accepted'[i].id = i /\ accepted'[i].kind \in SubmitKind
    BY <1>1, <1>2, <1>3 DEF QueueInv
  <2>2. \A i \in 1 .. Len(input') : input'[i] = accepted'[Popped' + i]
    <3>1. ASSUME NEW i \in 1 .. Len(input) PROVE input'[i] = accepted'[Popped' + i]
      BY <1>2, <1>3, <1>4, <1>5, <3>1 DEF QueueInv, Popped
    <3>2. input'[Len(input) + 1] = accepted'[Popped' + Len(input) + 1]
      BY <1>2, <1>3, <1>4, <1>5 DEF Popped
    <3>3. \A i \in 1 .. Len(input') : i \in 1 .. Len(input) \/ i = Len(input) + 1
      BY <1>2, <1>4
    <3>4. Popped' + (Len(input) + 1) = Popped' + Len(input) + 1
      BY <1>2, <1>5
    <3>5. QED
      BY <3>1, <3>2, <3>3, <3>4
  <2>3. Len(input') <= Len(accepted')
    BY <1>2, <1>3, <1>4 DEF QueueInv
  <2>4. QED
    BY <2>1, <2>2, <2>3 DEF QueueInv
<1>7. \A i \in 1 .. Popped : accepted'[i] = accepted[i]
  BY <1>2, <1>3 DEF Popped
<1>8. /\ (pc \in SaveSteps => pc' = pc) /\ (pc' \in SaveSteps => pc' = pc)
      /\ pc' \in SaveSteps \cup {"process", "push", "sleepOutput"}
           <=> pc \in SaveSteps \cup {"process", "push", "sleepOutput"}
  BY <1>1 DEF Submit, Notified, SaveSteps, TypeOK, PcValue
<1>9. UNCHANGED <<hand, output, file, temp, taken, stored, failed, dropped>>
  BY <1>1 DEF Submit, disk
<1>10. QED
  BY <1>5, <1>6, <1>7, <1>8, <1>9 DEF Holding

\* A pop takes the work that was accepted next.
LEMMA PopFacts ==
  ASSUME TypeOK, QueueInv, Pop
  PROVE  /\ QueueInv' /\ Popped \in Nat /\ Popped' = Popped + 1 /\ Popped' <= Len(accepted)
         /\ Head(input) = accepted[Popped'] /\ Head(input).id = Popped'
         /\ Head(input).kind \in SubmitKind /\ accepted' = accepted
<1>1. accepted' = accepted /\ input' = Tail(input) /\ input # <<>>
  BY DEF Pop
<1>2. /\ Len(input) \in Nat \ {0} /\ Len(accepted) \in Nat /\ Head(input) = input[1]
      /\ Len(input') = Len(input) - 1
      /\ \A i \in 1 .. Len(input) - 1 : input'[i] = input[i + 1]
  BY <1>1, TailFacts DEF TypeOK
<1>3. Popped \in Nat /\ Popped' = Popped + 1 /\ Popped' <= Len(accepted)
  BY <1>1, <1>2 DEF Popped, QueueInv
<1>4. Head(input) = accepted[Popped + 1]
  BY <1>2, <1>3 DEF QueueInv
<1>5. \A i \in 1 .. Len(input') : input'[i] = accepted'[Popped' + i]
  <2>1. SUFFICES ASSUME NEW i \in 1 .. Len(input') PROVE input'[i] = accepted'[Popped' + i]
    OBVIOUS
  <2>2. input'[i] = input[i + 1] /\ i + 1 \in 1 .. Len(input)
    BY <1>2
  <2>3. input[i + 1] = accepted[Popped + (i + 1)]
    BY <2>2 DEF QueueInv
  <2>4. Popped + (i + 1) = Popped' + i
    BY <1>3
  <2>5. QED
    BY <1>1, <2>2, <2>3, <2>4
<1>6. QED
  BY <1>1, <1>2, <1>3, <1>4, <1>5 DEF QueueInv

\* No other step touches the input queue or the history of what was accepted.
LEMMA OtherFacts ==
  ASSUME TypeOK, QueueInv, [Next]_vars, ~SubmitAny, ~Pop
  PROVE  input' = input /\ accepted' = accepted /\ Popped' = Popped /\ Popped \in Nat /\ QueueInv'
<1>1. input' = input /\ accepted' = accepted
  BY DEF Next, MainThread, WorkerThread, vars, queues, history, disk, Take, Stop, NotifyAll, Join,
         SleepInput, Exit, Process, OpenTemp, WriteTemp, Rename, SaveThrows, SleepOutput, Push,
         DropOutput, Joined
<1>2. Len(input) \in Nat /\ Len(accepted) \in Nat
  BY DEF TypeOK
<1>3. QED
  BY <1>1, <1>2 DEF QueueInv, Popped

LEMMA QueueStep == TypeOK /\ QueueInv /\ [Next]_vars => QueueInv'
  BY SubmitFacts, PopFacts, OtherFacts

LEMMA PoppedNat == TypeOK /\ QueueInv => Popped \in Nat
  BY DEF TypeOK, QueueInv, Popped

LEMMA OutputIds == TypeOK => \A i \in 1 .. Len(output) : output[i].id \in Nat
<1> SUFFICES ASSUME TypeOK, NEW i \in 1 .. Len(output) PROVE output[i].id \in Nat
  OBVIOUS
<1>1. output[i] \in Work
  BY DEF TypeOK
<1>2. QED
  BY <1>1 DEF Work

LEMMA HandStep == TypeOK /\ QueueInv /\ HandInv /\ [Next]_vars => HandInv'
<1> SUFFICES ASSUME TypeOK, QueueInv, HandInv, [Next]_vars PROVE HandInv'
  OBVIOUS
<1> USE DEF vars, queues, disk, history, Holding, SaveSteps
<1>1. CASE SubmitAny
  <2>1. /\ Popped' = Popped /\ hand' = hand /\ (pc' \in SaveSteps => pc' = pc)
        /\ pc' \in SaveSteps \cup {"process", "push", "sleepOutput"}
             <=> pc \in SaveSteps \cup {"process", "push", "sleepOutput"}
        /\ Popped \in Nat /\ \A i \in 1 .. Popped : accepted'[i] = accepted[i]
    BY <1>1, SubmitFacts
  <2>2. hand.id \in Nat
    BY DEF TypeOK, Work
  <2>3. pc' \in SaveSteps => Popped \in 1 .. Popped
    BY <2>1, <2>2 DEF HandInv
  <2>4. QED
    BY <2>1, <2>3 DEF HandInv
<1>2. CASE Pop
  <2>1. Popped' = Popped + 1 /\ Popped \in Nat /\ Head(input) = accepted[Popped'] /\ accepted' = accepted
        /\ Head(input).id = Popped'
    BY <1>2, PopFacts
  <2>2. CASE Discards(Head(input))
    <3>1. pc' = "next" /\ hand' = NoWork
      BY <1>2, <2>2 DEF Pop, Discards
    <3>2. ~Holding'
      BY <3>1 DEF NoWork
    <3>3. QED
      BY <3>1, <3>2 DEF HandInv
  <2>3. CASE ~Discards(Head(input))
    <3>1. hand' = Head(input) /\ hand'.id # 0
          /\ pc' = IF Head(input).kind = "Save" THEN "openTemp" ELSE "process"
      BY <1>2, <2>1, <2>3 DEF Pop
    <3>2. Holding' /\ pc' \in {"openTemp", "process"} /\ hand'.id = Popped'
      BY <2>1, <3>1
    <3>3. pc' \in SaveSteps => hand' = accepted'[Popped'] /\ hand'.kind = "Save"
      BY <2>1, <3>1
    <3>4. QED
      BY <3>2, <3>3 DEF HandInv
  <2>4. QED
    BY <2>2, <2>3
<1>3. CASE ~SubmitAny /\ ~Pop
  <2>1. Popped' = Popped /\ accepted' = accepted
    BY <1>3, OtherFacts
  <2>2. CASE Process \/ SaveThrows
    <3>1. pc' = "push" /\ hand'.id = hand.id
          /\ pc \in SaveSteps \cup {"process", "push", "sleepOutput"}
      <4>1. \E kind \in FinishedKind : Finish(kind)
        BY <2>2 DEF Process, SaveThrows, FinishedKind, Outcome
      <4>2. QED
        BY <2>2, <4>1, FinishType DEF Process, SaveThrows
    <3>2. QED
      BY <2>1, <3>1 DEF HandInv
  <2>3. CASE OpenTemp \/ WriteTemp
    BY <2>1, <2>3 DEF OpenTemp, WriteTemp, HandInv
  <2>4. CASE Rename \/ Push \/ DropOutput
    BY <2>1, <2>4 DEF Rename, Push, DropOutput, HandInv, NoWork
  <2>5. CASE SleepInput \/ Exit \/ SleepOutput
    BY <2>1, <2>5 DEF SleepInput, Exit, SleepOutput, HandInv
  <2>6. CASE Take \/ NotifyAll
    <3>1. hand' = hand /\ pc' = Notified(pc)
      BY <2>6 DEF Take, NotifyAll
    <3>2. QED
      BY <2>1, <3>1 DEF Notified, HandInv, TypeOK, PcValue
  <2>7. CASE Stop \/ Join \/ Joined \/ UNCHANGED vars
    BY <2>1, <2>7 DEF Stop, Join, Joined, HandInv
  <2>8. QED
    BY <1>3, <2>2, <2>3, <2>4, <2>5, <2>6, <2>7 DEF Next, MainThread, WorkerThread
<1>4. QED
  BY <1>1, <1>2, <1>3

LEMMA OrderStep ==
  TypeOK /\ QueueInv /\ HandInv /\ HandInv' /\ OrderInv /\ [Next]_vars => OrderInv'
<1> SUFFICES ASSUME TypeOK, QueueInv, HandInv, HandInv', OrderInv, [Next]_vars PROVE OrderInv'
  OBVIOUS
<1> USE DEF vars, queues, disk, history
<1>1. CASE SubmitAny
  <2>1. Popped' = Popped /\ (Holding' <=> Holding) /\ UNCHANGED <<output, taken>>
    BY <1>1, SubmitFacts
  <2>2. QED
    BY <2>1 DEF OrderInv
<1>2. CASE Pop
  <2>1. Popped' = Popped + 1 /\ Popped \in Nat /\ UNCHANGED <<output, taken>>
    BY <1>2, PopFacts DEF Pop
  <2>2. taken \subseteq Nat
    BY DEF TypeOK
  <2>4. \A i \in 1 .. Len(output) : output[i].id \in Nat
    BY OutputIds
  <2>3. QED
    BY <2>1, <2>2, <2>4 DEF OrderInv
<1>3. CASE Take
  <2>1. Popped' = Popped /\ Holding' = Holding /\ taken' = taken \cup {Head(output).id}
    BY <1>3 DEF Take, Holding, Popped
  <2>2. /\ Len(output) \in Nat \ {0} /\ Head(output) = output[1] /\ Len(output') = Len(output) - 1
        /\ \A i \in 1 .. Len(output) - 1 : output'[i] = output[i + 1]
    BY <1>3, TailFacts DEF Take, TypeOK
  <2>3. \A i \in 1 .. Len(output') : i + 1 \in 1 .. Len(output) /\ output'[i] = output[i + 1]
                                     /\ output[1].id < output[i + 1].id
    BY <2>2 DEF OrderInv
  <2>4. \A t \in taken' : t <= Popped' /\ (Holding' => t < Popped')
    BY <2>1, <2>2 DEF OrderInv
  <2>5. \A i \in 1 .. Len(output') : output'[i].id <= Popped' /\ (Holding' => output'[i].id < Popped')
    BY <2>1, <2>3 DEF OrderInv
  <2>6. \A i \in 1 .. Len(output') : \A t \in taken' : t < output'[i].id
    BY <2>1, <2>2, <2>3 DEF OrderInv
  <2>7. \A i, j \in 1 .. Len(output') : i < j => output'[i].id < output'[j].id
    <3>1. \A i, j \in 1 .. Len(output') : i < j => i + 1 < j + 1
      BY <2>2
    <3>2. QED
      BY <2>3, <3>1 DEF OrderInv
  <2>8. QED
    BY <2>4, <2>5, <2>6, <2>7 DEF OrderInv
<1>4. CASE Push
  <2>1. Popped' = Popped /\ ~Holding' /\ taken' = taken /\ Popped \in Nat
    BY <1>4, PoppedNat DEF Push, Holding, NoWork, Popped
  <2>2. Holding /\ hand.id = Popped
    BY <1>4 DEF Push, HandInv
  <2>3. /\ Len(output) \in Nat /\ Len(output') = Len(output) + 1
        /\ \A i \in 1 .. Len(output) : output'[i] = output[i]
        /\ output'[Len(output) + 1] = hand
    BY <1>4, AppendFacts DEF Push, TypeOK
  <2>4. \A i \in 1 .. Len(output') : i \in 1 .. Len(output) \/ i = Len(output) + 1
    BY <2>3
  <2>5. \A i \in 1 .. Len(output) : output'[i].id < Popped
    BY <2>2, <2>3 DEF OrderInv
  <2>6. \A t \in taken : t < Popped
    BY <2>2 DEF OrderInv
  <2>7. \A i \in 1 .. Len(output') : output'[i].id <= Popped /\ \A t \in taken : t < output'[i].id
    <3>1. \A i \in 1 .. Len(output) : output'[i].id <= Popped /\ \A t \in taken : t < output'[i].id
      BY <2>3 DEF OrderInv
    <3>2. output'[Len(output) + 1].id = Popped
      BY <2>2, <2>3
    <3>3. QED
      BY <2>1, <2>4, <2>6, <3>1, <3>2
  <2>8. \A i, j \in 1 .. Len(output') : i < j => output'[i].id < output'[j].id
    BY <2>2, <2>3, <2>4, <2>5 DEF OrderInv
  <2>9. QED
    BY <2>1, <2>6, <2>7, <2>8 DEF OrderInv, TypeOK
<1>5. CASE ~SubmitAny /\ ~Pop /\ ~Take /\ ~Push
  <2>1. Popped' = Popped
    BY <1>5, OtherFacts
  <2>2. UNCHANGED <<output, taken>>
    BY <1>5 DEF Next, MainThread, WorkerThread, Stop, NotifyAll, Join, SleepInput, Exit, Process,
       OpenTemp, WriteTemp, Rename, SaveThrows, SleepOutput, DropOutput, Joined
  <2>3. Holding' => Holding
    <3>1. CASE Process \/ SaveThrows
      BY <3>1 DEF Process, SaveThrows, HandInv, SaveSteps
    <3>2. CASE Rename \/ DropOutput
      BY <3>2 DEF Rename, DropOutput, Holding, NoWork
    <3>3. CASE ~(Process \/ SaveThrows \/ Rename \/ DropOutput)
      BY <1>5, <3>3 DEF Next, MainThread, WorkerThread, Stop, NotifyAll, Join, SleepInput, Exit,
         OpenTemp, WriteTemp, SleepOutput, Joined, Holding
    <3>4. QED
      BY <3>1, <3>2, <3>3
  <2>4. QED
    BY <2>1, <2>2, <2>3 DEF OrderInv
<1>6. QED
  BY <1>1, <1>2, <1>3, <1>4, <1>5

\* What a save has done to its two files, and which saves are behind it.
LEMMA SaveStep ==
  TypeOK /\ QueueInv /\ HandInv /\ SaveInv /\ StateFileNewest /\ [Next]_vars
    => SaveInv' /\ StateFileNewest'
<1> SUFFICES ASSUME TypeOK, QueueInv, HandInv, SaveInv, StateFileNewest, [Next]_vars
             PROVE  SaveInv' /\ StateFileNewest'
  OBVIOUS
<1> USE DEF vars, queues, disk, history, SaveSteps
<1>0. Popped \in Nat
  BY PoppedNat
<1>1. CASE SubmitAny
  <2>1. /\ Popped' = Popped /\ hand' = hand /\ (pc' \in SaveSteps <=> pc \in SaveSteps)
        /\ (pc' \in SaveSteps => pc' = pc)
        /\ \A i \in 1 .. Popped : accepted'[i] = accepted[i]
        /\ UNCHANGED <<file, temp, stored, failed>>
    BY <1>1, SubmitFacts
  <2>2. SaveInv'
    BY <2>1 DEF SaveInv
  <2>3. StateFileNewest'
    BY <2>1 DEF SaveInv, StateFileNewest
  <2>4. QED
    BY <2>2, <2>3
<1>2. CASE Pop
  <2>1. Popped' = Popped + 1 /\ Head(input) = accepted[Popped'] /\ accepted' = accepted
        /\ UNCHANGED <<file, temp, stored, failed>>
    BY <1>2, PopFacts DEF Pop
  <2>2. /\ Head(input).kind = "Save" => pc' = "openTemp"
        /\ pc' \in {"next", "openTemp", "process"}
    BY <1>2 DEF Pop, Discards
  <2>3. pc \notin SaveSteps
    BY <1>2 DEF Pop
  <2>4. \A i \in 1 .. Popped' : accepted'[i].kind = "Save" =>
          i \in stored' \cup failed' \/ (i = Popped' /\ pc' \in SaveSteps)
    <3>1. \A i \in 1 .. Popped' : i \in 1 .. Popped \/ i = Popped'
      BY <1>0, <2>1
    <3>2. QED
      BY <2>1, <2>2, <2>3, <3>1 DEF SaveInv
  <2>5. SaveInv'
    BY <1>0, <2>1, <2>2, <2>4 DEF SaveInv
  <2>6. QED
    BY <2>1, <2>5 DEF StateFileNewest
<1>3. CASE Rename
  <2>1. /\ hand = accepted[Popped] /\ hand.kind = "Save" /\ hand.id = Popped
        /\ temp[hand.session] = [id |-> hand.id, whole |-> TRUE] /\ Popped \in 1 .. Popped
        /\ hand.session \in Sessions
    BY <1>0, <1>3 DEF Rename, HandInv, SaveInv, TypeOK, Work, Holding
  <2>2. /\ stored' = stored \cup {Popped} /\ pc' = "next" /\ failed' = failed
        /\ accepted' = accepted /\ input' = input /\ Popped' = Popped
        /\ file' = [file EXCEPT ![hand.session] = [id |-> Popped, whole |-> TRUE]]
    BY <1>3, <2>1 DEF Rename, Popped
  <2>3. \A i \in stored : i < Popped /\ i \in 1 .. Popped
    BY <1>3 DEF Rename, SaveInv
  <2>4. SaveInv'
    BY <2>1, <2>2, <2>3 DEF SaveInv
  <2>5. StateFileNewest'
    <3>1. SUFFICES ASSUME NEW s \in Sessions
                   PROVE file'[s].whole /\ \A i \in stored' : accepted[i].session = s => i <= file'[s].id
      BY <2>2 DEF StateFileNewest
    <3>2. CASE s = hand.session
      <4>1. file'[s] = [id |-> Popped, whole |-> TRUE]
        BY <2>2, <3>2 DEF TypeOK
      <4>2. \A i \in stored' : i <= Popped
        BY <1>0, <2>2, <2>3
      <4>3. QED
        BY <4>1, <4>2
    <3>3. CASE s # hand.session
      <4>1. file'[s] = file[s] /\ accepted[Popped].session # s
        BY <2>1, <2>2, <3>3 DEF TypeOK
      <4>2. QED
        BY <2>2, <4>1 DEF StateFileNewest
    <3>4. QED
      BY <3>2, <3>3
  <2>6. QED
    BY <2>4, <2>5
<1>4. CASE ~SubmitAny /\ ~Pop /\ ~Rename
  <2>1. Popped' = Popped /\ accepted' = accepted
    BY <1>4, OtherFacts
  <2>2. UNCHANGED <<file, stored>>
    BY <1>4 DEF Next, MainThread, WorkerThread, Take, Stop, NotifyAll, Join, SleepInput, Exit, Process,
       OpenTemp, WriteTemp, Push, SaveThrows, SleepOutput, DropOutput, Joined
  <2>3. StateFileNewest'
    BY <2>1, <2>2 DEF StateFileNewest
  <2>4. CASE OpenTemp
    <3>1. temp'[hand.session] = [id |-> hand.id, whole |-> FALSE] /\ hand' = hand
      BY <2>4 DEF OpenTemp, TypeOK, Work
    <3>2. pc = "openTemp" /\ pc' = "writeTemp" /\ failed' = failed
      BY <2>4 DEF OpenTemp
    <3>3. QED
      BY <2>1, <2>2, <2>3, <3>1, <3>2 DEF SaveInv
  <2>5. CASE WriteTemp
    <3>1. temp'[hand.session] = [temp[hand.session] EXCEPT !.whole = TRUE] /\ hand' = hand
      BY <2>5 DEF WriteTemp, TypeOK, Work
    <3>2. temp[hand.session].id = hand.id /\ temp[hand.session] \in Contents
      BY <2>5 DEF WriteTemp, SaveInv, TypeOK, Work
    <3>3. temp'[hand'.session] = [id |-> hand'.id, whole |-> TRUE]
      BY <3>1, <3>2 DEF Contents
    <3>4. pc = "writeTemp" /\ pc' = "rename" /\ failed' = failed
      BY <2>5 DEF WriteTemp
    <3>5. QED
      BY <2>1, <2>2, <2>3, <3>3, <3>4 DEF SaveInv
  <2>6. CASE SaveThrows
    <3>1. pc' = "push" /\ failed' = failed \cup {Popped} /\ pc \in SaveSteps
      BY <2>6 DEF SaveThrows, Finish, HandInv
    <3>2. \A i \in 1 .. Popped : accepted[i].kind = "Save" => i \in stored \cup failed'
      BY <3>1 DEF SaveInv
    <3>3. SaveInv'
      BY <2>1, <2>2, <3>1, <3>2 DEF SaveInv
    <3>4. QED
      BY <2>3, <3>3
  <2>7. CASE ~(OpenTemp \/ WriteTemp \/ SaveThrows)
    <3>1. UNCHANGED <<temp, failed>>
      BY <1>4, <2>7 DEF Next, MainThread, WorkerThread, Take, Stop, NotifyAll, Join, SleepInput, Exit,
         Process, Push, SleepOutput, DropOutput, Joined
    <3>2. (pc' \in SaveSteps <=> pc \in SaveSteps) /\ (pc' \in SaveSteps => pc' = pc /\ hand' = hand)
      BY <1>4, <2>7 DEF Next, MainThread, WorkerThread, Take, Stop, NotifyAll, Join, SleepInput, Exit,
         Process, Finish, Push, SleepOutput, DropOutput, Joined, Notified, TypeOK, PcValue
    <3>3. QED
      BY <2>1, <2>2, <2>3, <3>1, <3>2 DEF SaveInv
  <2>8. QED
    BY <2>3, <2>4, <2>5, <2>6, <2>7
<1>5. QED
  BY <1>1, <1>2, <1>3, <1>4

\* Every step leaves each popped work in some place.
LEMMA PlaceStep ==
  TypeOK /\ QueueInv /\ HandInv /\ HandInv' /\ PlaceInv /\ [Next]_vars => PlaceInv'
<1> SUFFICES ASSUME TypeOK, QueueInv, HandInv, HandInv', PlaceInv, [Next]_vars PROVE PlaceInv'
  OBVIOUS
<1> USE DEF vars, queues, disk, history
<1> DEFINE InHand == IF Holding THEN {hand.id} ELSE {}
<1>0. Popped \in Nat
  BY PoppedNat
<1>1. CASE SubmitAny
  <2>1. Popped' = Popped /\ hand' = hand /\ UNCHANGED <<output, taken, stored, dropped>>
    BY <1>1, SubmitFacts
  <2>2. QED
    BY <2>1 DEF PlaceInv, Ids, Holding
<1>2. CASE Pop
  <2>1. Popped' = Popped + 1 /\ Head(input).id = Popped' /\ 1 .. Popped' = 1 .. Popped \cup {Popped'}
    BY <1>0, <1>2, PopFacts
  <2>2. InHand = {}
    BY <1>2 DEF Pop, HandInv, SaveSteps
  <2>3. UNCHANGED <<output, taken, stored>> /\ Ids(output)' = Ids(output)
    BY <1>2 DEF Pop, Ids
  <2>4. InHand' \cup dropped' = dropped \cup {Popped'}
    <3>1. CASE Discards(Head(input))
      <4>1. hand' = NoWork /\ dropped' = dropped \cup {Popped'}
        BY <1>2, <2>1, <3>1 DEF Pop, Discards
      <4>2. QED
        BY <4>1 DEF Holding, NoWork
    <3>2. CASE ~Discards(Head(input))
      <4>1. hand' = Head(input) /\ dropped' = dropped
        BY <1>2, <3>2 DEF Pop, Discards
      <4>2. QED
        BY <1>0, <2>1, <4>1 DEF Holding
    <3>3. QED
      BY <3>1, <3>2
  <2>5. QED
    BY <2>1, <2>2, <2>3, <2>4 DEF PlaceInv
<1>3. CASE Take
  <2>1. Ids(output)' \cup {Head(output).id} = Ids(output)
    <3>1. /\ Len(output) \in Nat \ {0} /\ Head(output) = output[1] /\ Len(output') = Len(output) - 1
          /\ \A i \in 1 .. Len(output) - 1 : output'[i] = output[i + 1]
          /\ DOMAIN output = 1 .. Len(output) /\ DOMAIN output' = 1 .. Len(output')
      BY <1>3, TailFacts DEF Take, TypeOK
    <3>2. ASSUME NEW i \in DOMAIN output PROVE output[i].id \in Ids(output)' \cup {Head(output).id}
      <4>1. CASE i = 1
        BY <3>1, <4>1
      <4>2. CASE i # 1
        <5>1. i - 1 \in DOMAIN output' /\ output'[i - 1] = output[(i - 1) + 1] /\ (i - 1) + 1 = i
          BY <3>1, <3>2, <4>2
        <5>2. QED
          BY <5>1 DEF Ids
      <4>3. QED
        BY <4>1, <4>2
    <3>3. ASSUME NEW i \in DOMAIN output' PROVE output'[i].id \in Ids(output)
      <4>1. i + 1 \in DOMAIN output /\ output'[i] = output[i + 1]
        BY <3>1, <3>3
      <4>2. QED
        BY <4>1 DEF Ids
    <3>4. Head(output).id \in Ids(output)
      BY <3>1 DEF Ids
    <3>5. QED
      BY <3>2, <3>3, <3>4 DEF Ids
  <2>2. /\ Popped' = Popped /\ InHand' = InHand /\ taken' = taken \cup {Head(output).id}
        /\ UNCHANGED <<stored, dropped>>
    BY <1>3 DEF Take, Popped, Holding
  <2>3. QED
    BY <2>1, <2>2 DEF PlaceInv
<1>4. CASE Push
  <2>1. Ids(output)' = Ids(output) \cup {hand.id}
    <3>1. /\ Len(output) \in Nat /\ Len(output') = Len(output) + 1
          /\ \A i \in 1 .. Len(output) : output'[i] = output[i]
          /\ output'[Len(output) + 1] = hand
          /\ DOMAIN output = 1 .. Len(output) /\ DOMAIN output' = 1 .. Len(output')
      BY <1>4, AppendFacts DEF Push, TypeOK
    <3>2. \A i \in DOMAIN output' : i \in DOMAIN output \/ i = Len(output) + 1
      BY <3>1
    <3>3. DOMAIN output \subseteq DOMAIN output' /\ Len(output) + 1 \in DOMAIN output'
      BY <3>1
    <3>4. QED
      BY <3>1, <3>2, <3>3 DEF Ids
  <2>2. InHand = {hand.id} /\ InHand' = {}
    BY <1>4 DEF Push, HandInv, SaveSteps, Holding, NoWork
  <2>3. Popped' = Popped /\ UNCHANGED <<taken, stored, dropped>>
    BY <1>4 DEF Push, Popped
  <2>4. QED
    BY <2>1, <2>2, <2>3 DEF PlaceInv
<1>5. CASE Rename \/ DropOutput
  <2>1. InHand = {hand.id} /\ InHand' = {}
    BY <1>5 DEF Rename, DropOutput, HandInv, SaveSteps, Holding, NoWork
  <2>2. /\ stored' \cup dropped' = stored \cup dropped \cup {hand.id}
        /\ Popped' = Popped /\ UNCHANGED <<output, taken>> /\ Ids(output)' = Ids(output)
    BY <1>5 DEF Rename, DropOutput, Popped, Ids
  <2>3. QED
    BY <2>1, <2>2 DEF PlaceInv
<1>6. CASE ~SubmitAny /\ ~Pop /\ ~Take /\ ~Push /\ ~Rename /\ ~DropOutput
  <2>1. Popped' = Popped
    BY <1>6, OtherFacts
  <2>2. UNCHANGED <<output, taken, stored, dropped>>
    BY <1>6 DEF Next, MainThread, WorkerThread, Stop, NotifyAll, Join, SleepInput, Exit, Process,
       OpenTemp, WriteTemp, SaveThrows, SleepOutput, Joined
  <2>3. InHand' = InHand
    <3>1. CASE Process \/ SaveThrows
      <4>1. \E kind \in FinishedKind : Finish(kind)
        BY <3>1 DEF Process, SaveThrows, FinishedKind, Outcome
      <4>2. QED
        BY <4>1, FinishType DEF Holding
    <3>2. CASE ~(Process \/ SaveThrows)
      BY <1>6, <3>2 DEF Next, MainThread, WorkerThread, Stop, NotifyAll, Join, SleepInput, Exit,
         OpenTemp, WriteTemp, SleepOutput, Joined, Holding
    <3>3. QED
      BY <3>1, <3>2
  <2>4. QED
    BY <2>1, <2>2, <2>3 DEF PlaceInv, Ids
<1>7. QED
  BY <1>1, <1>2, <1>3, <1>4, <1>5, <1>6

LEMMA IStep == TypeOK /\ IInv /\ [Next]_vars => IInv'
  BY WakeStep, QueueStep, HandStep, OrderStep, SaveStep, PlaceStep DEF IInv

LEMMA Inductive == Spec => [](TypeOK /\ IInv)
<1>1. Init => TypeOK /\ IInv
  BY TypeInit, IInit
<1>2. TypeOK /\ IInv /\ [Next]_vars => (TypeOK /\ IInv)'
  BY TypeStep, IStep
<1>3. QED
  BY <1>1, <1>2, PTL DEF Spec

\* ~Worker never loses an accepted save: a thread that has ended has renamed it
\* into place or seen it fail.
THEOREM WorkerSavesSurviveStop == Spec => []SavesSurviveStop
<1>1. TypeOK /\ IInv => SavesSurviveStop
  <2> SUFFICES ASSUME TypeOK, IInv, pc = "exited" PROVE
        \A i \in DOMAIN accepted : accepted[i].kind = "Save" => i \in stored \cup failed
    BY DEF SavesSurviveStop
  <2>1. Len(input) = 0 /\ Len(accepted) \in Nat /\ DOMAIN accepted = 1 .. Len(accepted)
    BY DEF IInv, WakeInv, StopInv, TypeOK
  <2>2. Popped = Len(accepted)
    BY <2>1 DEF Popped
  <2>3. QED
    BY <2>1, <2>2 DEF IInv, SaveInv, SaveSteps
<1>2. QED
  BY <1>1, Inductive, PTL

\* A state file is whole at every instant and is the newest save stored.
THEOREM WorkerStateFile == Spec => []StateFileNewest
<1>1. IInv => StateFileNewest
  BY DEF IInv
<1>2. QED
  BY <1>1, Inductive, PTL

\* No accepted work is lost while the worker is not stopping.
THEOREM WorkerConserves == Spec => []Conserved
<1>1. TypeOK /\ IInv => Conserved
  <2> SUFFICES ASSUME TypeOK, IInv PROVE Conserved
    OBVIOUS
  <2>1. Popped \in Nat /\ Len(input) \in Nat /\ Len(accepted) \in Nat /\ Len(accepted) = Popped + Len(input)
        /\ DOMAIN input = 1 .. Len(input)
    BY PoppedNat DEF IInv, Popped, TypeOK
  <2>2. ASSUME NEW i \in 1 .. Len(input)
        PROVE  Popped + i \in 1 .. Len(accepted) /\ input[i].id = Popped + i
    <3>1. Popped + i \in 1 .. Len(accepted)
      BY <2>1
    <3>2. QED
      BY <3>1 DEF IInv, QueueInv
  <2>3. \A n \in 1 .. Len(accepted) : n \in 1 .. Popped \/ (n - Popped \in 1 .. Len(input) /\ Popped + (n - Popped) = n)
    BY <2>1
  <2>4. 1 .. Popped \subseteq 1 .. Len(accepted)
    BY <2>1
  <2>5. 1 .. Len(accepted) = Ids(input) \cup 1 .. Popped
    <3>1. Ids(input) \subseteq 1 .. Len(accepted)
      BY <2>1, <2>2 DEF Ids
    <3>2. ASSUME NEW n \in 1 .. Len(accepted), n \notin 1 .. Popped PROVE n \in Ids(input)
      <4>1. n - Popped \in 1 .. Len(input) /\ Popped + (n - Popped) = n
        BY <2>3, <3>2
      <4>2. input[n - Popped].id = n
        BY <2>2, <4>1
      <4>3. QED
        BY <2>1, <4>1, <4>2 DEF Ids
    <3>3. QED
      BY <2>4, <3>1, <3>2
  <2>6. QED
    BY <2>5 DEF Conserved, IInv, PlaceInv, WakeInv, StopInv
<1>2. QED
  BY <1>1, Inductive, PTL

\* Answers are handed back in the order their works were submitted.
THEOREM WorkerAnswersInOrder == Spec => AnswersInOrder
<1>1. TypeOK /\ IInv /\ [Next]_vars => [\A new \in taken' \ taken : \A old \in taken : old < new]_vars
  <2> SUFFICES ASSUME TypeOK, IInv, [Next]_vars, NEW new \in taken' \ taken, NEW old \in taken
               PROVE  old < new
    OBVIOUS
  <2>1. Take
    BY SubmitFacts DEF Next, MainThread, WorkerThread, vars, history, queues, disk, Stop, NotifyAll, Join,
       SleepInput, Exit, Pop, Process, OpenTemp, WriteTemp, Rename, SaveThrows, SleepOutput, Push,
       DropOutput, Joined, IInv
  <2>2. new = output[1].id /\ 1 \in 1 .. Len(output)
    BY <2>1, TailFacts DEF Take, TypeOK
  <2>3. QED
    BY <2>2 DEF IInv, OrderInv
<1>2. QED
  BY <1>1, Inductive, PTL DEF Spec, AnswersInOrder

\* What the worker accepted is never lost: it is somewhere, dropped by a stop, or a
\* save that was renamed into place or failed before the thread ended.
THEOREM WorkerLosesNothing == Spec => []NothingLost
<1>1. Conserved /\ SavesSurviveStop => NothingLost
  BY DEF NothingLost
<1>2. QED
  BY <1>1, WorkerConserves, WorkerSavesSurviveStop, PTL
=============================================================================
