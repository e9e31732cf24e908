------------------------- MODULE HostServiceProofs -------------------------
(***************************************************************************)
(* What the service registry guarantees for any number of services, calls, *)
(* consumers and nested callbacks.  First types and item limits, then that *)
(* nothing of a removed service stays, then that each call is in exactly   *)
(* one place: pending, in the hands of one cancellation, or answered.      *)
(***************************************************************************)
EXTENDS HostService, FiniteSetTheorems, SequenceTheorems, TLAPS

\* How the prover sees frames pushed, popped and replaced.
LEMMA PushFacts ==
  ASSUME NEW S, NEW s \in Seq(S), NEW f \in S
  PROVE  /\ <<f>> \o s \in Seq(S) /\ Len(<<f>> \o s) = Len(s) + 1
         /\ (<<f>> \o s)[1] = f
         /\ \A i \in 2 .. Len(s) + 1 : (<<f>> \o s)[i] = s[i - 1]
  OBVIOUS

LEMMA PopFacts ==
  ASSUME NEW S, NEW s \in Seq(S), s # <<>>
  PROVE  /\ Head(s) \in S /\ Head(s) = s[1] /\ Len(s) \in Nat \ {0}
         /\ Tail(s) \in Seq(S) /\ Len(Tail(s)) = Len(s) - 1
         /\ \A i \in 1 .. Len(s) - 1 : Tail(s)[i] = s[i + 1]
  BY HeadTailProperties

LEMMA ReplaceFacts ==
  ASSUME NEW S, NEW s \in Seq(S), s # <<>>, NEW f \in S
  PROVE  /\ <<f>> \o Tail(s) \in Seq(S) /\ Len(<<f>> \o Tail(s)) = Len(s)
         /\ (<<f>> \o Tail(s))[1] = f
         /\ \A i \in 2 .. Len(s) : (<<f>> \o Tail(s))[i] = s[i]
<1>1. Tail(s) \in Seq(S) /\ Len(Tail(s)) = Len(s) - 1 /\ Len(s) \in Nat
  BY PopFacts
<1>2. \A i \in 2 .. Len(s) : Tail(s)[i - 1] = s[i]
  BY PopFacts
<1>3. \A i \in 2 .. Len(s) : (<<f>> \o Tail(s))[i] = Tail(s)[i - 1]
  BY <1>1, PushFacts
<1>4. QED
  BY <1>1, <1>2, <1>3, PushFacts

LEMMA SingleFacts ==
  ASSUME NEW S, NEW f \in S
  PROVE  <<f>> \in Seq(S) /\ Len(<<f>>) = 1 /\ <<f>>[1] = f
  OBVIOUS

\* A frame that moves on to its cancellations, or is done with one of them.
LEMMA FrameCancels ==
  ASSUME NEW f \in Frame
  PROVE  /\ [f EXCEPT !.op = "cancel"] \in Frame
         /\ [f EXCEPT !.op = "cancel"].op = "cancel"
         /\ [f EXCEPT !.op = "cancel"].cause = f.cause
         /\ [f EXCEPT !.op = "cancel"].todo = f.todo
         /\ [f EXCEPT !.op = "cancel"].consumer = f.consumer
  BY DEF Frame

LEMMA FrameShrinks ==
  ASSUME NEW f \in Frame, NEW rest, rest \subseteq f.todo
  PROVE  /\ [f EXCEPT !.todo = rest] \in Frame
         /\ [f EXCEPT !.todo = rest].op = f.op
         /\ [f EXCEPT !.todo = rest].cause = f.cause
         /\ [f EXCEPT !.todo = rest].todo = rest
         /\ [f EXCEPT !.todo = rest].consumer = f.consumer
  BY DEF Frame

-----------------------------------------------------------------------------
(* Types and limits. *)

Finite == IsFiniteSet(services) /\ IsFiniteSet(pending) /\ IsFiniteSet(output)

\* The kind of callback and the reason for it go together.
FramesMatch ==
  \A i \in DOMAIN stack : stack[i].op # "request" => stack[i].cause # "call"

Typed == TypeOK /\ Finite /\ FramesMatch

\* A set that only loses members keeps its limit.
LEMMA Shrinks ==
  ASSUME NEW S, NEW T, IsFiniteSet(S), T \subseteq S, NEW n \in Nat, Cardinality(S) <= n
  PROVE  IsFiniteSet(T) /\ Cardinality(T) <= n
  BY FS_Subset, FS_CardinalityType

LEMMA Grows ==
  ASSUME NEW S, NEW x, IsFiniteSet(S), NEW n \in Nat, Cardinality(S) < n
  PROVE  IsFiniteSet(S \cup {x}) /\ Cardinality(S \cup {x}) <= n
<1>1. IsFiniteSet(S \cup {x})
      /\ (Cardinality(S \cup {x}) = Cardinality(S) \/ Cardinality(S \cup {x}) = Cardinality(S) + 1)
  BY FS_AddElement
<1>2. Cardinality(S) \in Nat
  BY FS_CardinalityType
<1>3. QED
  BY <1>1, <1>2

LEMMA Replaces ==
  ASSUME NEW S, NEW x \in S, NEW y, IsFiniteSet(S), NEW n \in Nat, Cardinality(S) <= n
  PROVE  IsFiniteSet((S \ {x}) \cup {y}) /\ Cardinality((S \ {x}) \cup {y}) <= n
<1>1. IsFiniteSet(S \ {x}) /\ Cardinality(S \ {x}) = Cardinality(S) - 1
  BY FS_RemoveElement
<1>2. Cardinality(S) \in Nat
  BY FS_CardinalityType
<1>3. PICK T : T = S \ {x}
  OBVIOUS
<1>4. IsFiniteSet(T) /\ Cardinality(T) < n
  BY <1>1, <1>2, <1>3
<1>5. QED
  BY <1>3, <1>4, Grows

\* What a reply appends.
LEMMA AnswerTyped ==
  ASSUME NEW Replies, NEW reply \in Replies, answers \in [Requests -> Seq(Replies)],
         NEW requests, Answer(requests, reply)
  PROVE  answers' \in [Requests -> Seq(Replies)]
  BY DEF Answer

LEMMA TypedInit == Init => Typed
<1> SUFFICES ASSUME Init PROVE Typed
  OBVIOUS
<1>1. IsFiniteSet({}) /\ Cardinality({}) = 0
  BY FS_EmptySet
<1>2. Finite
  BY <1>1 DEF Init, Finite
<1>3. answers \in [Requests -> Seq({"result", "refused", "unloaded", "timeout", "left"})]
  BY DEF Init
<1>4. stack = <<>> /\ stack \in Seq(Frame)
  BY DEF Init
<1>5. FramesMatch
  BY <1>4 DEF FramesMatch
<1>6. QED
  BY <1>1, <1>2, <1>3, <1>4, <1>5, HostServiceAssumption DEF Init, Typed, TypeOK

LEMMA TypedStep == Typed /\ [Next]_vars => Typed'
<1> SUFFICES ASSUME Typed, [Next]_vars PROVE Typed'
  OBVIOUS
<1> USE HostServiceAssumption
<1> USE DEF vars, registry, history
<1>0. /\ stack \in Seq(Frame) /\ Len(stack) \in Nat
      /\ services \subseteq Service /\ pending \subseteq Pending /\ output \subseteq Output
  BY DEF Typed, TypeOK
<1>1. ASSUME NEW name \in Names, Add(name) PROVE Typed'
  <2>1. services' \subseteq Service /\ nextService' \in 0 .. MaxServices
    BY <1>1 DEF Add, Typed, TypeOK, Service, Handles
  <2>2. IsFiniteSet(services') /\ Cardinality(services') <= ServiceLimit
    BY <1>1, Grows DEF Add, Typed, Finite
  <2>3. QED
    BY <1>1, <2>1, <2>2 DEF Add, Typed, TypeOK, Finite, FramesMatch
<1>2. ASSUME NEW service \in services, NEW consumer \in Consumers, Call(service, consumer) PROVE Typed'
  <2> DEFINE call == [id |-> nextRequest + 1, service |-> service.handle,
                      consumer |-> consumer, completed |-> FALSE]
  <2> DEFINE frame == [op |-> "request", cause |-> "call", todo |-> {call},
                       service |-> service.handle, consumer |-> consumer]
  <2>1. service.handle \in Handles /\ nextRequest + 1 \in Requests /\ nextRequest' \in 0 .. MaxRequests
    BY <1>0, <1>2 DEF Call, Typed, TypeOK, Service, Requests
  <2>2. call \in Pending
    BY <2>1 DEF Pending
  <2>3. frame \in Frame
    BY <2>1, <2>2 DEF Frame
  <2>4. pending' = pending \cup {call} /\ stack' = <<frame>>
    BY <1>2 DEF Call
  <2> HIDE DEF call, frame
  <2>a. Cardinality(pending) < PendingLimit
    BY <1>2 DEF Call
  <2>5. pending' \subseteq Pending /\ IsFiniteSet(pending') /\ Cardinality(pending') <= PendingLimit
    BY <1>0, <2>2, <2>4, <2>a, Grows DEF Typed, Finite
  <2>6. stack' \in Seq(Frame) /\ Len(stack') = 1 /\ stack'[1] = frame
    BY <2>3, <2>4, SingleFacts
  <2>7. frame.op = "request"
    BY DEF frame
  <2>8. FramesMatch'
    BY <2>6, <2>7 DEF FramesMatch
  <2>9. QED
    BY <1>2, <2>1, <2>5, <2>6, <2>8 DEF Call, Typed, TypeOK, Finite
<1>3. CASE RequestAccepted
  <2>1. stack' \in Seq(Frame)
    BY <1>0, <1>3, PopFacts DEF RequestAccepted
  <2>2. FramesMatch'
    BY <1>0, <1>3, PopFacts DEF RequestAccepted, Typed, FramesMatch
  <2>3. QED
    BY <1>3, <2>1, <2>2 DEF RequestAccepted, Typed, TypeOK, Finite
<1>4. CASE RequestRefused
  <2>1. stack' \in Seq(Frame)
    BY <1>0, <1>4, PopFacts DEF RequestRefused
  <2>2. FramesMatch'
    BY <1>0, <1>4, PopFacts DEF RequestRefused, Typed, FramesMatch
  <2>3. pending' \subseteq pending
    BY <1>4 DEF RequestRefused
  <2>4. IsFiniteSet(pending') /\ Cardinality(pending') <= PendingLimit
    BY <2>3, Shrinks DEF Typed, TypeOK, Finite
  <2>5. answers' \in [Requests -> Seq({"result", "refused", "unloaded", "timeout", "left"})]
    BY <1>4, AnswerTyped DEF RequestRefused, Typed, TypeOK
  <2>6. QED
    BY <1>4, <2>1, <2>2, <2>3, <2>4, <2>5 DEF RequestRefused, Typed, TypeOK, Finite
<1>5. ASSUME NEW call \in pending, NEW bytes \in Sizes, Complete(call, bytes) PROVE Typed'
  <2> DEFINE item == [at |-> posted + 1, service |-> call.service, request |-> call.id,
                      to |-> IF call.consumer \in Windows THEN call.consumer ELSE Everyone, bytes |-> bytes]
  <2>1. call \in Pending /\ call.id \in Requests
    BY <1>0 DEF Pending
  <2>2. item \in Output /\ posted' \in Nat
    BY <1>5, <2>1, SMTT(60) DEF Complete, Post, Output, Pending, Typed, TypeOK, Consumers, Handles
  <2>3. output' = output \cup {item} /\ Cardinality(output) < OutputLimit
    BY <1>5 DEF Complete, Post, HasRoom
  <2> HIDE DEF item
  <2>4. output' \subseteq Output /\ IsFiniteSet(output') /\ Cardinality(output') <= OutputLimit
    BY <2>2, <2>3, Grows DEF Typed, TypeOK, Finite
  <2>5. [call EXCEPT !.completed = TRUE] \in Pending
    BY <2>1 DEF Pending
  <2>6. pending' \subseteq Pending /\ IsFiniteSet(pending') /\ Cardinality(pending') <= PendingLimit
    BY <1>5, <2>5, Replaces DEF Complete, Typed, TypeOK, Finite
  <2>7. QED
    BY <1>5, <2>1, <2>2, <2>4, <2>6 DEF Complete, Typed, TypeOK, Finite, FramesMatch
<1>6. ASSUME NEW service \in Registered, NEW to \in Windows \cup {Everyone}, NEW bytes \in Sizes,
             Emit(service, to, bytes)
      PROVE  Typed'
  <2> DEFINE item == [at |-> posted + 1, service |-> service, request |-> 0, to |-> to, bytes |-> bytes]
  <2>1. service \in Handles
    BY <1>0 DEF Registered, Service
  <2>2. item \in Output /\ posted' \in Nat
    BY <1>6, <2>1 DEF Emit, Post, Output, Typed, TypeOK, Consumers
  <2>3. output' = output \cup {item} /\ Cardinality(output) < OutputLimit
    BY <1>6 DEF Emit, Post, HasRoom
  <2> HIDE DEF item
  <2>4. output' \subseteq Output /\ IsFiniteSet(output') /\ Cardinality(output') <= OutputLimit
    BY <2>2, <2>3, Grows DEF Typed, TypeOK, Finite
  <2>5. QED
    BY <1>6, <2>2, <2>4 DEF Emit, Typed, TypeOK, Finite, FramesMatch
<1>7. ASSUME NEW service \in services, Unregister(service) PROVE Typed'
  <2> DEFINE calls == {call \in pending : call.service = service.handle}
  <2> DEFINE frame == [op |-> "shutdown", cause |-> "unloaded", todo |-> calls,
                       service |-> service.handle, consumer |-> Everyone]
  <2>1. frame \in Frame /\ frame.cause # "call"
    BY <1>0 DEF Frame, Service
  <2>2. pending' \subseteq pending /\ services' \subseteq services /\ output' \subseteq output
        /\ stack' = <<frame>> \o stack
    BY <1>7 DEF Unregister, Erase
  <2> HIDE DEF frame
  <2>3. stack' \in Seq(Frame)
    BY <1>0, <2>1, <2>2, PushFacts
  <2>4. FramesMatch'
    BY <1>0, <2>1, <2>2, PushFacts DEF Typed, FramesMatch
  <2>5. /\ IsFiniteSet(pending') /\ Cardinality(pending') <= PendingLimit
        /\ IsFiniteSet(services') /\ Cardinality(services') <= ServiceLimit
        /\ IsFiniteSet(output') /\ Cardinality(output') <= OutputLimit
    BY <2>2, Shrinks DEF Typed, TypeOK, Finite
  <2>6. QED
    BY <1>7, <2>2, <2>3, <2>4, <2>5 DEF Unregister, Typed, TypeOK, Finite
<1>8. CASE ShutdownReturned
  <2>1. Top \in Frame /\ Top = stack[1] /\ stack # <<>> /\ 1 \in DOMAIN stack
    BY <1>0, <1>8, PopFacts DEF ShutdownReturned, Top
  <2>2. PICK frame \in Frame : frame = [Top EXCEPT !.op = "cancel"] /\ frame.cause = Top.cause
    BY <2>1, FrameCancels
  <2>a. Top.op = "shutdown" /\ Top.cause # "call"
    BY <1>8, <2>1 DEF ShutdownReturned, Typed, FramesMatch
  <2>3. stack' = <<frame>> \o Tail(stack) /\ Top.op # "request"
    BY <1>8, <2>2 DEF ShutdownReturned
  <2>4. stack' \in Seq(Frame) /\ Len(stack') = Len(stack) /\ stack'[1] = frame
        /\ \A i \in 2 .. Len(stack) : stack'[i] = stack[i]
    BY <1>0, <2>1, <2>3, ReplaceFacts
  <2>5. FramesMatch'
    <3> SUFFICES ASSUME NEW i \in DOMAIN stack', stack'[i].op # "request" PROVE stack'[i].cause # "call"
      BY DEF FramesMatch
    <3>1. i = 1 \/ (i \in 2 .. Len(stack) /\ i \in DOMAIN stack)
      BY <1>0, <2>4
    <3>2. CASE i = 1
      BY <3>2, <2>2, <2>4, <2>a
    <3>3. CASE i \in 2 .. Len(stack) /\ i \in DOMAIN stack
      BY <3>3, <2>4 DEF Typed, FramesMatch
    <3>4. QED
      BY <3>1, <3>2, <3>3
  <2>6. QED
    BY <1>8, <2>4, <2>5 DEF ShutdownReturned, Typed, TypeOK, Finite
<1>9. ASSUME NEW consumer \in Consumers, Leave(consumer) PROVE Typed'
  <2> DEFINE frame == [op |-> "cancel", cause |-> "left", todo |-> CallsOf(consumer),
                       service |-> 0, consumer |-> consumer]
  <2>1. frame \in Frame /\ frame.cause # "call"
    BY <1>0 DEF Frame, CallsOf
  <2>2. pending' \subseteq pending /\ stack' = <<frame>> \o stack
    BY <1>9 DEF Leave
  <2> HIDE DEF frame
  <2>3. stack' \in Seq(Frame)
    BY <1>0, <2>1, <2>2, PushFacts
  <2>4. FramesMatch'
    BY <1>0, <2>1, <2>2, PushFacts DEF Typed, FramesMatch
  <2>5. IsFiniteSet(pending') /\ Cardinality(pending') <= PendingLimit
    BY <2>2, Shrinks DEF Typed, TypeOK, Finite
  <2>6. {call.id : call \in CallsOf(consumer)} \subseteq Requests
    BY <1>0 DEF CallsOf, Pending
  <2>7. cancels' \in Nat /\ abandoned' \subseteq Requests
    BY <1>9, <2>6 DEF Leave, Typed, TypeOK
  <2>8. QED
    BY <1>9, <2>2, <2>3, <2>4, <2>5, <2>7 DEF Leave, Typed, TypeOK, Finite
<1>10. CASE CancelReturned
  <2>1. Top \in Frame /\ Top = stack[1] /\ stack # <<>> /\ 1 \in DOMAIN stack /\ Top.op = "cancel"
    BY <1>0, <1>10, PopFacts DEF CancelReturned, Top
  <2>2. PICK call \in Top.todo :
          /\ Answer(IF AnswersCancelled(Top.cause) THEN {call.id} ELSE {}, Top.cause)
          /\ stack' = <<[Top EXCEPT !.todo = Behind(call)]>> \o Tail(stack)
    BY <1>10 DEF CancelReturned
  <2>3. PICK frame \in Frame : frame = [Top EXCEPT !.todo = Behind(call)] /\ frame.cause = Top.cause
    <3>1. Behind(call) \subseteq Top.todo
      BY DEF Behind
    <3> DEFINE frame == [Top EXCEPT !.todo = Behind(call)]
    <3>2. frame \in Frame /\ frame.cause = Top.cause
      BY <2>1, <3>1, FrameShrinks
    <3> HIDE DEF frame
    <3>4. frame = [Top EXCEPT !.todo = Behind(call)]
      BY DEF frame
    <3>3. QED
      BY <3>2, <3>4
  <2>a. Top.cause # "call"
    BY <2>1 DEF Typed, FramesMatch
  <2>4. stack' = <<frame>> \o Tail(stack)
    BY <2>2, <2>3
  <2>5. Top.cause \in {"result", "refused", "unloaded", "timeout", "left"}
    BY <2>1 DEF Typed, FramesMatch, Frame
  <2>6. answers' \in [Requests -> Seq({"result", "refused", "unloaded", "timeout", "left"})]
    BY <2>2, <2>5, AnswerTyped DEF Typed, TypeOK
  <2>7. stack' \in Seq(Frame) /\ Len(stack') = Len(stack) /\ stack'[1] = frame
        /\ \A i \in 2 .. Len(stack) : stack'[i] = stack[i]
    BY <1>0, <2>1, <2>4, ReplaceFacts
  <2>8. FramesMatch'
    <3> SUFFICES ASSUME NEW i \in DOMAIN stack', stack'[i].op # "request" PROVE stack'[i].cause # "call"
      BY DEF FramesMatch
    <3>1. i = 1 \/ (i \in 2 .. Len(stack) /\ i \in DOMAIN stack)
      BY <1>0, <2>7
    <3>2. CASE i = 1
      BY <3>2, <2>3, <2>7, <2>a
    <3>3. CASE i \in 2 .. Len(stack) /\ i \in DOMAIN stack
      BY <3>3, <2>7 DEF Typed, FramesMatch
    <3>4. QED
      BY <3>1, <3>2, <3>3
  <2>9. QED
    BY <1>10, <2>6, <2>7, <2>8 DEF CancelReturned, Typed, TypeOK, Finite
<1>11. CASE CancelEnds
  <2>1. stack' \in Seq(Frame)
    BY <1>0, <1>11, PopFacts DEF CancelEnds
  <2>2. FramesMatch'
    BY <1>0, <1>11, PopFacts DEF CancelEnds, Typed, FramesMatch
  <2>3. output' \subseteq output
    BY <1>11 DEF CancelEnds, Erase
  <2>4. IsFiniteSet(output') /\ Cardinality(output') <= OutputLimit
    BY <2>3, Shrinks DEF Typed, TypeOK, Finite
  <2>5. QED
    BY <1>11, <2>1, <2>2, <2>3, <2>4 DEF CancelEnds, Typed, TypeOK, Finite
<1>12. ASSUME NEW item \in output, TickOutput(item) PROVE Typed'
  <2>1. output' \subseteq output /\ pending' \subseteq pending
    BY <1>12 DEF TickOutput, Erase
  <2>2. /\ IsFiniteSet(output') /\ Cardinality(output') <= OutputLimit
        /\ IsFiniteSet(pending') /\ Cardinality(pending') <= PendingLimit
    BY <2>1, Shrinks DEF Typed, TypeOK, Finite
  <2>3. answers' \in [Requests -> Seq({"result", "refused", "unloaded", "timeout", "left"})]
    BY <1>12, AnswerTyped DEF TickOutput, Typed, TypeOK
  <2>4. QED
    BY <1>12, <2>1, <2>2, <2>3 DEF TickOutput, Typed, TypeOK, Finite, FramesMatch
<1>13. ASSUME NEW call \in pending, TickExpire(call) PROVE Typed'
  <2> DEFINE frame == [op |-> "cancel", cause |-> "timeout", todo |-> {call},
                       service |-> call.service, consumer |-> Everyone]
  <2>1. frame \in Frame /\ frame.cause # "call"
    BY <1>0 DEF Frame, Pending
  <2>2. pending' \subseteq pending /\ stack' = <<frame>>
    BY <1>13 DEF TickExpire
  <2> HIDE DEF frame
  <2>3. stack' \in Seq(Frame) /\ Len(stack') = 1 /\ stack'[1] = frame
    BY <2>1, <2>2, SingleFacts
  <2>4. FramesMatch'
    BY <2>1, <2>3 DEF FramesMatch
  <2>5. IsFiniteSet(pending') /\ Cardinality(pending') <= PendingLimit
    BY <2>2, Shrinks DEF Typed, TypeOK, Finite
  <2>6. QED
    BY <1>13, <2>2, <2>3, <2>4, <2>5 DEF TickExpire, Typed, TypeOK, Finite
<1>14. CASE Elapse
  BY <1>14 DEF Elapse, Typed, TypeOK, Finite, FramesMatch
<1>15. CASE UNCHANGED vars
  BY <1>15 DEF Typed, TypeOK, Finite, FramesMatch
<1>16. QED
  BY <1>1, <1>2, <1>3, <1>4, <1>5, <1>6, <1>7, <1>8, <1>9, <1>10, <1>11, <1>12, <1>13, <1>14, <1>15
     DEF Next, Return, Deliver, Expire, Quiet

\* Types and the three item limits hold whatever the limits are.
THEOREM ServiceTypes == Spec => []TypeOK
<1>1. Spec => []Typed
  BY TypedInit, TypedStep, PTL DEF Spec
<1>2. Typed => TypeOK
  BY DEF Typed
<1>3. QED
  BY <1>1, <1>2, PTL

-----------------------------------------------------------------------------
(* What each operation does to the stack of callbacks. *)

LEMMA StackPushed ==
  ASSUME Typed, NEW frame \in Frame, stack' = <<frame>> \o stack
  PROVE  /\ Len(stack') = Len(stack) + 1 /\ Len(stack) \in Nat /\ stack'[1] = frame
         /\ DOMAIN stack = 1 .. Len(stack) /\ DOMAIN stack' = 1 .. Len(stack')
         /\ \A i \in 2 .. Len(stack) + 1 : stack'[i] = stack[i - 1] /\ i - 1 \in DOMAIN stack
<1>1. stack \in Seq(Frame) /\ Len(stack) \in Nat /\ DOMAIN stack = 1 .. Len(stack)
  BY DEF Typed, TypeOK
<1>2. stack' \in Seq(Frame) /\ Len(stack') = Len(stack) + 1 /\ stack'[1] = frame
      /\ \A i \in 2 .. Len(stack) + 1 : stack'[i] = stack[i - 1]
  BY <1>1, PushFacts
<1>3. DOMAIN stack' = 1 .. Len(stack')
  BY <1>2
<1>4. QED
  BY <1>1, <1>2, <1>3

LEMMA StackPopped ==
  ASSUME Typed, stack # <<>>, stack' = Tail(stack)
  PROVE  /\ Len(stack') = Len(stack) - 1 /\ Len(stack) \in Nat \ {0}
         /\ Top = stack[1] /\ Top \in Frame
         /\ DOMAIN stack = 1 .. Len(stack) /\ DOMAIN stack' = 1 .. Len(stack')
         /\ \A i \in DOMAIN stack' : stack'[i] = stack[i + 1] /\ i + 1 \in DOMAIN stack
<1>1. stack \in Seq(Frame) /\ Len(stack) \in Nat /\ DOMAIN stack = 1 .. Len(stack)
  BY DEF Typed, TypeOK
<1>2. stack' \in Seq(Frame) /\ Len(stack') = Len(stack) - 1 /\ Len(stack) \in Nat \ {0}
      /\ Head(stack) = stack[1] /\ Head(stack) \in Frame
      /\ \A i \in 1 .. Len(stack) - 1 : stack'[i] = stack[i + 1]
  BY <1>1, PopFacts
<1>3. DOMAIN stack' = 1 .. Len(stack')
  BY <1>2
<1>4. QED
  BY <1>1, <1>2, <1>3 DEF Top

LEMMA StackReplaced ==
  ASSUME Typed, stack # <<>>, NEW frame \in Frame, stack' = <<frame>> \o Tail(stack)
  PROVE  /\ Len(stack') = Len(stack) /\ Len(stack) \in Nat \ {0} /\ stack'[1] = frame
         /\ Top = stack[1] /\ Top \in Frame
         /\ DOMAIN stack = 1 .. Len(stack) /\ DOMAIN stack' = 1 .. Len(stack')
         /\ \A i \in 2 .. Len(stack) : stack'[i] = stack[i]
<1>1. stack \in Seq(Frame) /\ DOMAIN stack = 1 .. Len(stack)
  BY DEF Typed, TypeOK
<1>2. Len(stack) \in Nat \ {0} /\ Head(stack) = stack[1] /\ Head(stack) \in Frame
  BY <1>1, PopFacts
<1>3. stack' \in Seq(Frame) /\ Len(stack') = Len(stack) /\ stack'[1] = frame
      /\ \A i \in 2 .. Len(stack) : stack'[i] = stack[i]
  BY <1>1, ReplaceFacts
<1>4. DOMAIN stack' = 1 .. Len(stack')
  BY <1>3
<1>5. QED
  BY <1>1, <1>2, <1>3, <1>4 DEF Top

LEMMA StackSingle ==
  ASSUME NEW frame \in Frame, stack' = <<frame>>
  PROVE  DOMAIN stack' = {1} /\ stack'[1] = frame
  OBVIOUS

LEMMA CallStack ==
  ASSUME Typed, NEW service \in services, NEW consumer \in Consumers, Call(service, consumer)
  PROVE  \E call \in Pending :
           /\ call.id = nextRequest + 1 /\ call.service = service.handle
           /\ call.consumer = consumer /\ call.completed = FALSE
           /\ pending' = pending \cup {call}
           /\ DOMAIN stack = {}
           /\ DOMAIN stack' = {1} /\ stack'[1].op = "request" /\ stack'[1].cause = "call"
           /\ stack'[1].todo = {call}
<1> DEFINE call == [id |-> nextRequest + 1, service |-> service.handle,
                    consumer |-> consumer, completed |-> FALSE]
<1> DEFINE frame == [op |-> "request", cause |-> "call", todo |-> {call},
                     service |-> service.handle, consumer |-> consumer]
<1>1. service.handle \in Handles /\ nextRequest + 1 \in Requests
  BY HostServiceAssumption DEF Call, Typed, TypeOK, Service, Requests
<1>2. call \in Pending
  BY <1>1 DEF Pending
<1>3. frame \in Frame
  BY <1>1, <1>2 DEF Frame
<1>4. pending' = pending \cup {call} /\ stack' = <<frame>> /\ stack = <<>>
  BY DEF Call, Idle
<1>5. /\ call.id = nextRequest + 1 /\ call.service = service.handle
      /\ call.consumer = consumer /\ call.completed = FALSE
  OBVIOUS
<1>6. frame.op = "request" /\ frame.cause = "call" /\ frame.todo = {call}
  OBVIOUS
<1> HIDE DEF call, frame
<1>7. DOMAIN stack' = {1} /\ stack'[1] = frame
  BY <1>3, <1>4, StackSingle
<1>8. DOMAIN stack = {}
  BY <1>4
<1>9. QED
  BY <1>2, <1>4, <1>5, <1>6, <1>7, <1>8

LEMMA UnregisterStack ==
  ASSUME Typed, NEW service \in services, Unregister(service)
  PROVE  \E frame \in Frame :
           /\ stack' = <<frame>> \o stack
           /\ frame.op = "shutdown" /\ frame.cause = "unloaded"
           /\ frame.todo = {call \in pending : call.service = service.handle}
<1> DEFINE frame == [op |-> "shutdown", cause |-> "unloaded",
                     todo |-> {call \in pending : call.service = service.handle},
                     service |-> service.handle, consumer |-> Everyone]
<1>1. frame \in Frame
  BY DEF Frame, Typed, TypeOK, Service
<1>2. frame.op = "shutdown" /\ frame.cause = "unloaded"
      /\ frame.todo = {call \in pending : call.service = service.handle}
  OBVIOUS
<1>3. stack' = <<frame>> \o stack
  BY DEF Unregister
<1> HIDE DEF frame
<1>4. QED
  BY <1>1, <1>2, <1>3

LEMMA LeaveStack ==
  ASSUME Typed, NEW consumer \in Consumers, Leave(consumer)
  PROVE  \E frame \in Frame :
           /\ stack' = <<frame>> \o stack
           /\ frame.op = "cancel" /\ frame.cause = "left" /\ frame.consumer = consumer
           /\ frame.todo = CallsOf(consumer)
<1> DEFINE frame == [op |-> "cancel", cause |-> "left", todo |-> CallsOf(consumer),
                     service |-> 0, consumer |-> consumer]
<1>1. frame \in Frame
  BY DEF Frame, CallsOf, Typed, TypeOK
<1>2. frame.op = "cancel" /\ frame.cause = "left" /\ frame.consumer = consumer
      /\ frame.todo = CallsOf(consumer)
  OBVIOUS
<1>3. stack' = <<frame>> \o stack
  BY DEF Leave
<1> HIDE DEF frame
<1>4. QED
  BY <1>1, <1>2, <1>3

LEMMA ExpireStack ==
  ASSUME Typed, NEW call \in pending, TickExpire(call)
  PROVE  /\ DOMAIN stack = {} /\ DOMAIN stack' = {1}
         /\ stack'[1].op = "cancel" /\ stack'[1].cause = "timeout" /\ stack'[1].todo = {call}
<1> DEFINE frame == [op |-> "cancel", cause |-> "timeout", todo |-> {call},
                     service |-> call.service, consumer |-> Everyone]
<1>1. frame \in Frame
  BY DEF Frame, Pending, Typed, TypeOK
<1>2. frame.op = "cancel" /\ frame.cause = "timeout" /\ frame.todo = {call}
  OBVIOUS
<1>3. stack' = <<frame>> /\ stack = <<>>
  BY DEF TickExpire, Idle
<1> HIDE DEF frame
<1>4. QED
  BY <1>1, <1>2, <1>3, StackSingle

LEMMA ShutdownStack ==
  ASSUME Typed, ShutdownReturned
  PROVE  \E frame \in Frame :
           /\ stack # <<>> /\ stack' = <<frame>> \o Tail(stack)
           /\ Top.op = "shutdown" /\ frame.op = "cancel"
           /\ frame.cause = Top.cause /\ frame.todo = Top.todo /\ frame.consumer = Top.consumer
<1>1. stack # <<>> /\ Top \in Frame
  BY PopFacts DEF ShutdownReturned, Typed, TypeOK, Top
<1> DEFINE frame == [Top EXCEPT !.op = "cancel"]
<1>2. /\ frame \in Frame /\ frame.op = "cancel"
      /\ frame.cause = Top.cause /\ frame.todo = Top.todo /\ frame.consumer = Top.consumer
  BY <1>1, FrameCancels
<1>3. stack' = <<frame>> \o Tail(stack) /\ Top.op = "shutdown"
  BY DEF ShutdownReturned
<1> HIDE DEF frame
<1>4. QED
  BY <1>1, <1>2, <1>3

LEMMA CancelStack ==
  ASSUME Typed, CancelReturned
  PROVE  \E call \in Top.todo : \E frame \in Frame :
           /\ Answer(IF AnswersCancelled(Top.cause) THEN {call.id} ELSE {}, Top.cause)
           /\ stack # <<>> /\ stack' = <<frame>> \o Tail(stack)
           /\ Top.op = "cancel" /\ frame.op = "cancel"
           /\ frame.cause = Top.cause /\ frame.todo = Top.todo \ {call} /\ frame.consumer = Top.consumer
<1>1. stack # <<>> /\ Top \in Frame /\ Top.op = "cancel"
  BY PopFacts DEF CancelReturned, Typed, TypeOK, Top
<1>2. PICK call \in Top.todo :
        /\ Answer(IF AnswersCancelled(Top.cause) THEN {call.id} ELSE {}, Top.cause)
        /\ stack' = <<[Top EXCEPT !.todo = Behind(call)]>> \o Tail(stack)
  BY DEF CancelReturned
<1> DEFINE frame == [Top EXCEPT !.todo = Behind(call)]
<1>3. Behind(call) \subseteq Top.todo
  BY DEF Behind
<1>4. /\ frame \in Frame /\ frame.op = Top.op
      /\ frame.cause = Top.cause /\ frame.todo = Behind(call) /\ frame.consumer = Top.consumer
  BY <1>1, <1>3, FrameShrinks
<1>5. stack' = <<frame>> \o Tail(stack)
  BY <1>2
<1> HIDE DEF frame
<1>6. QED
  BY <1>1, <1>2, <1>4, <1>5 DEF Behind

\* What an answer and an event put into the queue.
LEMMA PostFacts ==
  ASSUME NEW service, NEW request, NEW to, NEW bytes, Post(service, request, to, bytes)
  PROVE  \E item : /\ output' = output \cup {item} /\ item.service = service
                   /\ item.request = request /\ item.to = to
<1> DEFINE item == [at |-> posted + 1, service |-> service, request |-> request, to |-> to, bytes |-> bytes]
<1>1. item.service = service /\ item.request = request /\ item.to = to
  OBVIOUS
<1>2. output' = output \cup {item}
  BY DEF Post
<1> HIDE DEF item
<1>3. QED
  BY <1>1, <1>2

LEMMA CompleteFacts ==
  ASSUME Typed, NEW call \in pending, NEW bytes \in Sizes, Complete(call, bytes)
  PROVE  \E done \in Pending :
           /\ done.id = call.id /\ done.service = call.service /\ done.consumer = call.consumer
           /\ done.completed = TRUE
           /\ pending' = (pending \ {call}) \cup {done}
<1>1. call \in Pending
  BY DEF Typed, TypeOK
<1> DEFINE done == [call EXCEPT !.completed = TRUE]
<1>2. /\ done \in Pending /\ done.completed = TRUE
      /\ done.id = call.id /\ done.service = call.service /\ done.consumer = call.consumer
  BY <1>1 DEF Pending
<1>3. pending' = (pending \ {call}) \cup {done}
  BY DEF Complete
<1> HIDE DEF done
<1>4. QED
  BY <1>2, <1>3

-----------------------------------------------------------------------------
(* Nothing of a removed service stays. *)

LEMMA AliveStep == Typed /\ ServiceAlive /\ [Next]_vars => ServiceAlive'
<1> SUFFICES ASSUME Typed, ServiceAlive, [Next]_vars PROVE ServiceAlive'
  OBVIOUS
<1> USE DEF vars, registry, history
<1>1. ASSUME NEW name \in Names, Add(name) PROVE ServiceAlive'
  <2>1. Registered \subseteq Registered'
    BY <1>1 DEF Add, Registered
  <2>2. QED
    BY <1>1, <2>1 DEF Add, ServiceAlive
<1>2. ASSUME NEW service \in services, NEW consumer \in Consumers, Call(service, consumer)
      PROVE  ServiceAlive'
  <2>1. PICK call \in Pending : call.service = service.handle /\ pending' = pending \cup {call}
    BY <1>2, CallStack
  <2>2. Registered' = Registered /\ service.handle \in Registered
    BY <1>2 DEF Call, Registered
  <2>3. QED
    BY <1>2, <2>1, <2>2 DEF Call, ServiceAlive
<1>3. ASSUME NEW call \in pending, NEW bytes \in Sizes, Complete(call, bytes) PROVE ServiceAlive'
  <2>3. Registered' = Registered
    BY <1>3 DEF Complete, Registered
  <2>4. PICK done \in Pending : done.service = call.service /\ pending' = (pending \ {call}) \cup {done}
    BY <1>3, CompleteFacts
  <2>5. PICK item : output' = output \cup {item} /\ item.service = call.service
    BY <1>3, PostFacts DEF Complete
  <2>6. QED
    BY <2>3, <2>4, <2>5 DEF ServiceAlive
<1>4. ASSUME NEW service \in Registered, NEW to \in Windows \cup {Everyone}, NEW bytes \in Sizes,
             Emit(service, to, bytes)
      PROVE  ServiceAlive'
  BY <1>4 DEF Emit, Post, ServiceAlive, Registered
<1>5. ASSUME NEW service \in services, Unregister(service) PROVE ServiceAlive'
  <2>1. \A handle \in Registered : handle # service.handle => handle \in Registered'
    BY <1>5 DEF Unregister, Registered
  <2>2. /\ \A call \in pending' : call \in pending /\ call.service # service.handle
        /\ \A item \in output' : item \in output /\ item.service # service.handle
    BY <1>5 DEF Unregister, Erase, OutputOf
  <2>3. QED
    BY <2>1, <2>2 DEF ServiceAlive
<1>6. CASE UNCHANGED services /\ pending' \subseteq pending /\ output' \subseteq output
  BY <1>6 DEF ServiceAlive, Registered
<1>7. CASE RequestAccepted \/ RequestRefused \/ ShutdownReturned \/ CancelReturned \/ CancelEnds
  BY <1>6, <1>7 DEF RequestAccepted, RequestRefused, ShutdownReturned, CancelReturned, CancelEnds, Erase
<1>8. ASSUME NEW consumer \in Consumers, Leave(consumer) PROVE ServiceAlive'
  BY <1>6, <1>8 DEF Leave
<1>9. ASSUME NEW item \in output, TickOutput(item) PROVE ServiceAlive'
  BY <1>6, <1>9 DEF TickOutput, Erase
<1>10. ASSUME NEW call \in pending, TickExpire(call) PROVE ServiceAlive'
  BY <1>6, <1>10 DEF TickExpire
<1>11. CASE Elapse \/ UNCHANGED vars
  BY <1>6, <1>11 DEF Elapse
<1>12. QED
  BY <1>1, <1>2, <1>3, <1>4, <1>5, <1>7, <1>8, <1>9, <1>10, <1>11 DEF Next, Return, Deliver, Expire, Quiet

\* tick() never meets a call of a service that is gone, whatever was
\* unregistered from inside callbacks.
THEOREM ServiceStaysAlive == Spec => []ServiceAlive
<1>1. Init => ServiceAlive
  BY DEF Init, ServiceAlive
<1>2. QED
  BY <1>1, TypedInit, TypedStep, AliveStep, PTL DEF Spec

-----------------------------------------------------------------------------
(* A completed call has its answer queued. *)

AddresseeOf(consumer) == IF consumer \in Windows THEN consumer ELSE Everyone

NumbersBound ==
  /\ \A call \in pending : call.id <= nextRequest
  /\ \A item \in output : item.request <= nextRequest

NumbersUnique ==
  \A c, d \in pending : c.id = d.id => c = d

\* A queued answer agrees with its call on the service and the addressee, so
\* that what erases it has removed the call before.
ItemsMatch ==
  \A item \in output, call \in pending :
    item.request = call.id => item.service = call.service /\ item.to = AddresseeOf(call.consumer)

\* While the callbacks of a departed page run, it has no calls: new ones start
\* from the tick only.
LeftGone ==
  \A i \in DOMAIN stack : stack[i].cause = "left" =>
    \A call \in pending : call.consumer # stack[i].consumer

Queued == NumbersBound /\ NumbersUnique /\ ItemsMatch /\ LeftGone /\ CompletedIsQueued

\* A step that only loses calls and keeps output and older frames.
LEMMA QueuedShrinks ==
  ASSUME Queued, pending' \subseteq pending, output' = output, nextRequest' = nextRequest
  PROVE  NumbersBound' /\ NumbersUnique' /\ ItemsMatch' /\ CompletedIsQueued'
  BY DEF Queued, NumbersBound, NumbersUnique, ItemsMatch, CompletedIsQueued

LEMMA QueuedStep == Typed /\ ServiceAlive /\ Queued /\ [Next]_vars => Queued'
<1> SUFFICES ASSUME Typed, ServiceAlive, Queued, [Next]_vars PROVE Queued'
  OBVIOUS
<1> USE DEF vars, registry, history
<1>0. /\ pending \subseteq Pending /\ output \subseteq Output /\ nextRequest \in Nat
      /\ \A call \in pending : call.id \in Nat
      /\ \A item \in output : item.request \in Nat
  BY HostServiceAssumption, SMTT(60) DEF Typed, TypeOK, Pending, Output, Requests
<1>1. ASSUME NEW name \in Names, Add(name) PROVE Queued'
  BY <1>1 DEF Add, Queued, NumbersBound, NumbersUnique, ItemsMatch, LeftGone, CompletedIsQueued
<1>2. ASSUME NEW service \in services, NEW consumer \in Consumers, Call(service, consumer) PROVE Queued'
  <2>1. PICK call \in Pending :
          /\ call.id = nextRequest + 1 /\ call.completed = FALSE /\ pending' = pending \cup {call}
          /\ DOMAIN stack' = {1} /\ stack'[1].cause = "call"
    BY <1>2, CallStack
  <2>2. output' = output /\ nextRequest' = nextRequest + 1
    BY <1>2 DEF Call
  <2>3. NumbersBound'
    BY <1>0, <2>1, <2>2 DEF Queued, NumbersBound
  <2>4. NumbersUnique'
    BY <1>0, <2>1, <2>2 DEF Queued, NumbersBound, NumbersUnique
  <2>5. ItemsMatch'
    BY <1>0, <2>1, <2>2 DEF Queued, NumbersBound, ItemsMatch
  <2>6. LeftGone'
    BY <2>1 DEF LeftGone
  <2>7. CompletedIsQueued'
    BY <2>1, <2>2 DEF Queued, CompletedIsQueued
  <2>8. QED
    BY <2>3, <2>4, <2>5, <2>6, <2>7 DEF Queued
<1>3. CASE RequestAccepted \/ RequestRefused
  <2>1. stack # <<>> /\ stack' = Tail(stack) /\ pending' \subseteq pending
        /\ output' = output /\ nextRequest' = nextRequest
    BY <1>3 DEF RequestAccepted, RequestRefused
  <2>2. LeftGone'
    BY <2>1, StackPopped DEF Queued, LeftGone
  <2>3. QED
    BY <2>1, <2>2, QueuedShrinks DEF Queued
<1>4. ASSUME NEW call \in pending, NEW bytes \in Sizes, Complete(call, bytes) PROVE Queued'
  <2>1. PICK done \in Pending : /\ done.id = call.id /\ done.service = call.service
                                /\ done.consumer = call.consumer
                                /\ pending' = (pending \ {call}) \cup {done}
    BY <1>4, CompleteFacts
  <2>2. nextRequest' = nextRequest /\ stack' = stack
        /\ pending' = (pending \ {call}) \cup {done}
    BY <1>4, <2>1 DEF Complete
  <2>3. PICK item : /\ output' = output \cup {item} /\ item.request = call.id
                    /\ item.service = call.service /\ item.to = AddresseeOf(call.consumer)
    <3>1. Post(call.service, call.id, AddresseeOf(call.consumer), bytes)
      BY <1>4 DEF Complete, AddresseeOf
    <3>2. QED
      BY <3>1, PostFacts
  <2>4. NumbersBound'
    BY <1>0, <2>1, <2>2, <2>3 DEF Queued, NumbersBound
  <2>5. NumbersUnique'
    BY <2>1, <2>2 DEF Queued, NumbersUnique
  <2>6. ItemsMatch'
    <3> SUFFICES ASSUME NEW i \in output', NEW c \in pending', i.request = c.id
                 PROVE  i.service = c.service /\ i.to = AddresseeOf(c.consumer)
      BY DEF ItemsMatch
    <3>1. PICK d \in pending : d.id = c.id /\ d.service = c.service /\ d.consumer = c.consumer
      BY <2>1, <2>2
    <3>2. CASE i \in output
      BY <3>1, <3>2 DEF Queued, ItemsMatch
    <3>3. CASE i = item
      BY <2>3, <3>1, <3>3 DEF Queued, NumbersUnique
    <3>4. QED
      BY <2>3, <3>2, <3>3
  <2>7. LeftGone'
    BY <2>1, <2>2 DEF Queued, LeftGone
  <2>8. CompletedIsQueued'
    BY <2>1, <2>2, <2>3 DEF Queued, CompletedIsQueued
  <2>9. QED
    BY <2>4, <2>5, <2>6, <2>7, <2>8 DEF Queued
<1>5. ASSUME NEW service \in Registered, NEW to \in Windows \cup {Everyone}, NEW bytes \in Sizes,
             Emit(service, to, bytes)
      PROVE  Queued'
  <2>1. PICK item : output' = output \cup {item} /\ item.request = 0
    <3>1. Post(service, 0, to, bytes)
      BY <1>5 DEF Emit
    <3>2. QED
      BY <3>1, PostFacts
  <2>2. pending' = pending /\ nextRequest' = nextRequest /\ stack' = stack
    BY <1>5 DEF Emit
  <2>3. \A call \in pending : call.id # 0
    BY <1>0 DEF Pending, Requests
  <2>4. ItemsMatch'
    BY <2>1, <2>2, <2>3 DEF Queued, ItemsMatch
  <2>5. NumbersBound'
    BY <1>0, <2>1, <2>2 DEF Queued, NumbersBound
  <2>6. QED
    BY <2>1, <2>2, <2>4, <2>5 DEF Queued, NumbersUnique, LeftGone, CompletedIsQueued
<1>6. ASSUME NEW service \in services, Unregister(service) PROVE Queued'
  <2>1. PICK frame \in Frame : stack' = <<frame>> \o stack /\ frame.cause = "unloaded"
    BY <1>6, UnregisterStack
  <2>2. /\ \A call \in pending' : call \in pending /\ call.service # service.handle
        /\ \A item \in output' : item \in output
        /\ \A item \in output : item.service # service.handle => item \in output'
        /\ nextRequest' = nextRequest
    BY <1>6 DEF Unregister, Erase, OutputOf
  <2>3. NumbersBound' /\ NumbersUnique' /\ ItemsMatch'
    BY <2>2 DEF Queued, NumbersBound, NumbersUnique, ItemsMatch
  <2>4. LeftGone'
    BY <2>1, <2>2, StackPushed DEF Queued, LeftGone
  <2>5. CompletedIsQueued'
    <3> SUFFICES ASSUME NEW call \in pending', call.completed
                 PROVE  \E item \in output' : item.request = call.id
      BY DEF CompletedIsQueued
    <3>1. PICK item \in output : item.request = call.id
      BY <2>2 DEF Queued, CompletedIsQueued
    <3>2. item.service = call.service
      BY <2>2, <3>1 DEF Queued, ItemsMatch
    <3>3. QED
      BY <2>2, <3>1, <3>2
  <2>6. QED
    BY <2>3, <2>4, <2>5 DEF Queued
<1>7. CASE ShutdownReturned
  <2>1. PICK frame \in Frame : /\ stack # <<>> /\ stack' = <<frame>> \o Tail(stack)
                               /\ frame.cause = Top.cause /\ frame.consumer = Top.consumer
    BY <1>7, ShutdownStack
  <2>2. pending' = pending /\ output' = output /\ nextRequest' = nextRequest
    BY <1>7 DEF ShutdownReturned
  <2>3. LeftGone'
    BY <2>1, <2>2, StackReplaced DEF Queued, LeftGone
  <2>4. QED
    BY <2>2, <2>3, QueuedShrinks DEF Queued
<1>8. ASSUME NEW consumer \in Consumers, Leave(consumer) PROVE Queued'
  <2>1. PICK frame \in Frame : /\ stack' = <<frame>> \o stack /\ frame.consumer = consumer
    BY <1>8, LeaveStack
  <2>2. pending' = pending \ CallsOf(consumer) /\ output' = output /\ nextRequest' = nextRequest
    BY <1>8 DEF Leave
  <2>3. LeftGone'
    BY <2>1, <2>2, StackPushed DEF Queued, LeftGone, CallsOf
  <2>4. QED
    BY <2>2, <2>3, QueuedShrinks DEF Queued
<1>9. CASE CancelReturned
  <2>1. PICK call \in Top.todo : \E frame \in Frame :
          /\ stack # <<>> /\ stack' = <<frame>> \o Tail(stack)
          /\ frame.cause = Top.cause /\ frame.consumer = Top.consumer
    BY <1>9, CancelStack
  <2>2. pending' = pending /\ output' = output /\ nextRequest' = nextRequest
    BY <1>9 DEF CancelReturned
  <2>3. LeftGone'
    BY <2>1, <2>2, StackReplaced DEF Queued, LeftGone
  <2>4. QED
    BY <2>2, <2>3, QueuedShrinks DEF Queued
<1>10. CASE CancelEnds
  <2>1. stack # <<>> /\ stack' = Tail(stack) /\ pending' = pending /\ nextRequest' = nextRequest
        /\ output' = output \ {item \in output : Top.cause = "left" /\ Top.consumer \in Windows /\ item.to = Top.consumer}
    BY <1>10 DEF CancelEnds, Erase
  <2>a. Top = stack[1] /\ DOMAIN stack = 1 .. Len(stack) /\ Len(stack) \in Nat \ {0}
    BY <2>1, StackPopped
  <2>2. Top = stack[1] /\ 1 \in DOMAIN stack
    BY <2>a
  <2>3. NumbersBound' /\ NumbersUnique' /\ ItemsMatch'
    BY <2>1 DEF Queued, NumbersBound, NumbersUnique, ItemsMatch
  <2>4. LeftGone'
    <3> SUFFICES ASSUME NEW i \in DOMAIN stack', stack'[i].cause = "left", NEW call \in pending'
                 PROVE  call.consumer # stack'[i].consumer
      BY DEF LeftGone
    <3>1. stack'[i] = stack[i + 1] /\ i + 1 \in DOMAIN stack
      BY <2>1, StackPopped
    <3>2. QED
      BY <3>1, <2>1 DEF Queued, LeftGone
  <2>5. CompletedIsQueued'
    <3> SUFFICES ASSUME NEW call \in pending, call.completed
                 PROVE  \E item \in output' : item.request = call.id
      BY <2>1 DEF CompletedIsQueued
    <3>1. PICK item \in output : item.request = call.id
      BY DEF Queued, CompletedIsQueued
    <3>2. item.to = AddresseeOf(call.consumer)
      BY <3>1 DEF Queued, ItemsMatch
    <3>3. Top.cause = "left" => call.consumer # Top.consumer
      BY <2>2 DEF Queued, LeftGone
    <3>4. Top.cause = "left" /\ Top.consumer \in Windows => item.to # Top.consumer
      BY <3>2, <3>3, HostServiceAssumption DEF AddresseeOf, Consumers
    <3>5. QED
      BY <2>1, <3>1, <3>4
  <2>6. QED
    BY <2>3, <2>4, <2>5 DEF Queued
<1>11. ASSUME NEW item \in output, TickOutput(item) PROVE Queued'
  <2>1. /\ output' = output \ {item} /\ pending' \subseteq pending
        /\ \A call \in pending' : ~(item.service \in Registered /\ call.id = item.request)
        /\ nextRequest' = nextRequest /\ stack' = stack
    BY <1>11 DEF TickOutput, Erase
  <2>2. NumbersBound' /\ NumbersUnique' /\ ItemsMatch'
    BY <2>1 DEF Queued, NumbersBound, NumbersUnique, ItemsMatch
  <2>3. LeftGone'
    BY <2>1 DEF Queued, LeftGone
  <2>4. item.service \in Registered
    BY DEF ServiceAlive
  <2>5. CompletedIsQueued'
    BY <2>1, <2>4 DEF Queued, CompletedIsQueued
  <2>6. QED
    BY <2>2, <2>3, <2>5 DEF Queued
<1>12. ASSUME NEW call \in pending, TickExpire(call) PROVE Queued'
  <2>1. pending' \subseteq pending /\ output' = output /\ nextRequest' = nextRequest
    BY <1>12 DEF TickExpire
  <2>2. LeftGone'
    BY <1>12, ExpireStack DEF LeftGone
  <2>3. QED
    BY <2>1, <2>2, QueuedShrinks DEF Queued
<1>13. CASE Elapse \/ UNCHANGED vars
  BY <1>13 DEF Elapse, Queued, NumbersBound, NumbersUnique, ItemsMatch, LeftGone, CompletedIsQueued
<1>14. QED
  BY <1>1, <1>2, <1>3, <1>4, <1>5, <1>6, <1>7, <1>8, <1>9, <1>10, <1>11, <1>12, <1>13
     DEF Next, Return, Deliver, Expire, Quiet

\* A call that no longer expires has its answer in the queue, through navigation,
\* unregistration and re-entered callbacks.
THEOREM ServiceQueuesCompleted == Spec => []CompletedIsQueued
<1>1. Init => ServiceAlive
  BY DEF Init, ServiceAlive
<1>2. Init => Queued
  BY DEF Init, Queued, NumbersBound, NumbersUnique, ItemsMatch, LeftGone, CompletedIsQueued
<1>3. Queued => CompletedIsQueued
  BY DEF Queued
<1>4. QED
  BY <1>1, <1>2, <1>3, TypedInit, TypedStep, AliveStep, QueuedStep, PTL DEF Spec

-----------------------------------------------------------------------------
(* Each call is in one place. *)

\* The calls frame i still has to cancel.
DoomedAt(i) == IF stack[i].op = "request" THEN {} ELSE stack[i].todo

PendingOpen ==
  \A call \in pending :
    /\ answers[call.id] = <<>> /\ call.id \notin abandoned
    /\ call.id \in finished => call.completed

DoomedOpen ==
  \A i \in DOMAIN stack : \A call \in DoomedAt(i) :
    /\ answers[call.id] = <<>> /\ call.id <= nextRequest
    /\ call.id \in abandoned <=> stack[i].cause = "left"
    /\ stack[i].cause = "timeout" => call.id \notin finished
    /\ \A other \in pending : other.id # call.id

DoomedOnce ==
  \A i, j \in DOMAIN stack : \A c \in DoomedAt(i), d \in DoomedAt(j) : c.id = d.id => i = j /\ c = d

Fresh ==
  \A r \in Requests : r > nextRequest => answers[r] = <<>> /\ r \notin abandoned \cup finished

\* Accounted in terms of the calls frames still have to cancel.
Tracked ==
  \A r \in 1 .. nextRequest :
    \/ \E call \in pending : call.id = r
    \/ \E i \in DOMAIN stack : \E call \in DoomedAt(i) : call.id = r
    \/ answers[r] # <<>>
    \/ r \in abandoned

Places == PendingOpen /\ DoomedOpen /\ DoomedOnce /\ Fresh /\ AnsweredOnce /\ ResultStands /\ Tracked

LEMMA AnswerFacts ==
  ASSUME NEW requests, NEW reply, Answer(requests, reply)
  PROVE  \A r \in Requests :
           /\ r \in requests /\ answers[r] = <<>> => answers'[r] = <<reply>>
           /\ r \notin requests => answers'[r] = answers[r]
<1>1. Append(<<>>, reply) = <<reply>>
  OBVIOUS
<1>2. QED
  BY <1>1 DEF Answer

LEMMA DoomedType ==
  ASSUME Typed
  PROVE  \A i \in DOMAIN stack : \A call \in DoomedAt(i) : call \in Pending /\ call.id \in Requests
<1> SUFFICES ASSUME NEW i \in DOMAIN stack, NEW call \in DoomedAt(i)
             PROVE  call \in Pending /\ call.id \in Requests
  OBVIOUS
<1>1. stack[i] \in Frame
  BY DEF Typed, TypeOK
<1>2. call \in Pending
  BY <1>1 DEF DoomedAt, Frame
<1>3. QED
  BY <1>2 DEF Pending

LEMMA PlacesInit == Init => Places
<1> SUFFICES ASSUME Init PROVE Places
  OBVIOUS
<1>1. Fresh /\ AnsweredOnce /\ ResultStands
  BY DEF Init, Fresh, AnsweredOnce, ResultStands
<1>2. PendingOpen /\ DoomedOpen /\ DoomedOnce
  BY DEF Init, PendingOpen, DoomedOpen, DoomedOnce
<1>3. Tracked
  BY DEF Init, Tracked
<1>4. QED
  BY <1>1, <1>2, <1>3 DEF Places

\* A frame without calls to cancel is popped.
LEMMA PlacesPop ==
  ASSUME Typed, Places, stack # <<>>, stack' = Tail(stack), DoomedAt(1) = {},
         UNCHANGED <<pending, nextRequest, answers, finished, abandoned>>
  PROVE  Places'
<1>1. /\ DOMAIN stack = 1 .. Len(stack) /\ DOMAIN stack' = 1 .. Len(stack') /\ Len(stack') = Len(stack) - 1
      /\ Len(stack) \in Nat \ {0}
      /\ \A i \in DOMAIN stack' : stack'[i] = stack[i + 1] /\ i + 1 \in DOMAIN stack
  BY StackPopped
<1>2. \A i \in DOMAIN stack' : DoomedAt(i)' = DoomedAt(i + 1)
  BY <1>1 DEF DoomedAt
<1>3. \A i \in DOMAIN stack : DoomedAt(i) # {} => i - 1 \in DOMAIN stack' /\ DoomedAt(i - 1)' = DoomedAt(i)
  <2> SUFFICES ASSUME NEW i \in DOMAIN stack, DoomedAt(i) # {}
               PROVE  i - 1 \in DOMAIN stack' /\ DoomedAt(i - 1)' = DoomedAt(i)
    OBVIOUS
  <2>1. i \in 2 .. Len(stack)
    BY <1>1
  <2>2. i - 1 \in DOMAIN stack' /\ (i - 1) + 1 = i
    BY <1>1, <2>1
  <2>3. QED
    BY <1>2, <2>2
<1>4. DoomedOpen'
  BY <1>1, <1>2 DEF Places, DoomedOpen
<1>5. DoomedOnce'
  <2> SUFFICES ASSUME NEW i \in DOMAIN stack', NEW j \in DOMAIN stack', NEW c \in DoomedAt(i)', NEW d \in DoomedAt(j)',
                      c.id = d.id
               PROVE  i = j /\ c = d
    BY DEF DoomedOnce
  <2>1. c \in DoomedAt(i + 1) /\ d \in DoomedAt(j + 1) /\ i + 1 \in DOMAIN stack /\ j + 1 \in DOMAIN stack
    BY <1>1, <1>2
  <2>2. i + 1 = j + 1 /\ c = d
    BY <2>1 DEF Places, DoomedOnce
  <2>3. QED
    BY <1>1, <2>2
<1>6. Tracked'
  <2> SUFFICES ASSUME NEW r \in 1 .. nextRequest
               PROVE  \/ \E call \in pending' : call.id = r
                      \/ \E i \in DOMAIN stack' : \E call \in DoomedAt(i)' : call.id = r
                      \/ answers'[r] # <<>>
                      \/ r \in abandoned'
    BY DEF Tracked
  <2>1. CASE \E i \in DOMAIN stack : \E call \in DoomedAt(i) : call.id = r
    BY <1>3, <2>1
  <2>2. QED
    BY <2>1 DEF Places, Tracked
<1>7. QED
  BY <1>4, <1>5, <1>6 DEF Places, PendingOpen, Fresh, AnsweredOnce, ResultStands

\* Calls move from pending_ into the hands of a new cancellation.
LEMMA PlacesPush ==
  ASSUME Typed, NumbersBound, NumbersUnique, Places, NEW frame \in Frame, frame.op # "request", frame.todo \subseteq pending,
         stack' = <<frame>> \o stack, pending' = pending \ frame.todo,
         UNCHANGED <<nextRequest, answers, finished>>,
         frame.cause = "left" => abandoned' = abandoned \cup {call.id : call \in frame.todo},
         frame.cause # "left" => abandoned' = abandoned,
         frame.cause = "timeout" => \A call \in frame.todo : ~call.completed
  PROVE  Places'
<1>1. /\ DOMAIN stack = 1 .. Len(stack) /\ DOMAIN stack' = 1 .. Len(stack')
      /\ Len(stack') = Len(stack) + 1 /\ Len(stack) \in Nat /\ stack'[1] = frame
      /\ \A i \in 2 .. Len(stack) + 1 : stack'[i] = stack[i - 1] /\ i - 1 \in DOMAIN stack
  BY StackPushed
<1>2. DoomedAt(1)' = frame.todo
  BY <1>1 DEF DoomedAt
<1>3. \A i \in 2 .. Len(stack) + 1 : DoomedAt(i)' = DoomedAt(i - 1) /\ i - 1 \in DOMAIN stack
  BY <1>1 DEF DoomedAt
<1>4. \A i \in DOMAIN stack' : i = 1 \/ i \in 2 .. Len(stack) + 1
  BY <1>1
<1>5. \A i \in DOMAIN stack : i + 1 \in DOMAIN stack' /\ DoomedAt(i + 1)' = DoomedAt(i)
  <2> SUFFICES ASSUME NEW i \in DOMAIN stack PROVE i + 1 \in DOMAIN stack' /\ DoomedAt(i + 1)' = DoomedAt(i)
    OBVIOUS
  <2>1. i + 1 \in 2 .. Len(stack) + 1 /\ (i + 1) - 1 = i
    BY <1>1
  <2>2. QED
    BY <1>1, <1>3, <2>1
<1>6. abandoned' \subseteq abandoned \cup {call.id : call \in frame.todo} /\ abandoned \subseteq abandoned'
  OBVIOUS
<1>7. \A call \in pending : call \in Pending /\ call.id \in Requests /\ call.id <= nextRequest
  BY DEF Typed, TypeOK, Pending, NumbersBound
<1>8. \A call \in pending' : \A gone \in frame.todo : call.id # gone.id
  BY DEF NumbersUnique
<1>9. PendingOpen'
  BY <1>6, <1>8 DEF Places, PendingOpen
<1>10. DoomedOpen'
  <2> SUFFICES ASSUME NEW i \in DOMAIN stack', NEW call \in DoomedAt(i)'
               PROVE  /\ answers[call.id] = <<>> /\ call.id <= nextRequest
                      /\ call.id \in abandoned' <=> stack'[i].cause = "left"
                      /\ stack'[i].cause = "timeout" => call.id \notin finished
                      /\ \A other \in pending' : other.id # call.id
    BY DEF DoomedOpen
  <2>1. CASE i = 1
    <3>1. call \in pending /\ call \in frame.todo /\ stack'[i] = frame
      BY <1>1, <1>2, <2>1
    <3>2. answers[call.id] = <<>> /\ call.id \notin abandoned /\ (call.id \in finished => call.completed)
      BY <3>1 DEF Places, PendingOpen
    <3>3. call.id \in abandoned' <=> frame.cause = "left"
      BY <3>1, <3>2
    <3>4. QED
      BY <1>7, <1>8, <3>1, <3>2, <3>3
  <2>2. CASE i \in 2 .. Len(stack) + 1
    <3>1. call \in DoomedAt(i - 1) /\ i - 1 \in DOMAIN stack /\ stack'[i] = stack[i - 1]
      BY <1>1, <1>3, <2>2
    <3>2. /\ answers[call.id] = <<>> /\ call.id <= nextRequest
          /\ call.id \in abandoned <=> stack'[i].cause = "left"
          /\ stack'[i].cause = "timeout" => call.id \notin finished
          /\ \A other \in pending : other.id # call.id
      BY <3>1 DEF Places, DoomedOpen
    <3>3. call.id \in abandoned' <=> call.id \in abandoned
      BY <1>6, <3>2
    <3>4. QED
      BY <3>2, <3>3
  <2>3. QED
    BY <1>4, <2>1, <2>2
<1>11. DoomedOnce'
  <2> SUFFICES ASSUME NEW i \in DOMAIN stack', NEW j \in DOMAIN stack', NEW c \in DoomedAt(i)', NEW d \in DoomedAt(j)',
                      c.id = d.id
               PROVE  i = j /\ c = d
    BY DEF DoomedOnce
  <2>1. CASE i = 1 /\ j = 1
    BY <1>2, <2>1 DEF NumbersUnique
  <2>2. CASE i = 1 /\ j \in 2 .. Len(stack) + 1
    <3>1. c \in pending /\ d \in DoomedAt(j - 1) /\ j - 1 \in DOMAIN stack
      BY <1>2, <1>3, <2>2
    <3>2. QED
      BY <3>1 DEF Places, DoomedOpen
  <2>3. CASE j = 1 /\ i \in 2 .. Len(stack) + 1
    <3>1. d \in pending /\ c \in DoomedAt(i - 1) /\ i - 1 \in DOMAIN stack
      BY <1>2, <1>3, <2>3
    <3>2. QED
      BY <3>1 DEF Places, DoomedOpen
  <2>4. CASE i \in 2 .. Len(stack) + 1 /\ j \in 2 .. Len(stack) + 1
    <3>1. c \in DoomedAt(i - 1) /\ d \in DoomedAt(j - 1) /\ i - 1 \in DOMAIN stack /\ j - 1 \in DOMAIN stack
      BY <1>3, <2>4
    <3>2. i - 1 = j - 1 /\ c = d
      BY <3>1 DEF Places, DoomedOnce
    <3>3. QED
      BY <2>4, <3>2
  <2>5. QED
    BY <1>4, <2>1, <2>2, <2>3, <2>4
<1>12. Fresh'
  <2> SUFFICES ASSUME NEW r \in Requests, r > nextRequest PROVE answers[r] = <<>> /\ r \notin abandoned' \cup finished
    BY DEF Fresh
  <2>1. \A call \in frame.todo : call.id # r
    BY <1>7, HostServiceAssumption DEF Requests, Typed, TypeOK
  <2>2. QED
    BY <1>6, <2>1 DEF Places, Fresh
<1>13. AnsweredOnce'
  <2>1. \A call \in frame.todo : answers[call.id] = <<>>
    BY DEF Places, PendingOpen
  <2>2. QED
    BY <1>6, <2>1 DEF Places, AnsweredOnce
<1>14. Tracked'
  <2> SUFFICES ASSUME NEW r \in 1 .. nextRequest
               PROVE  \/ \E call \in pending' : call.id = r
                      \/ \E i \in DOMAIN stack' : \E call \in DoomedAt(i)' : call.id = r
                      \/ answers'[r] # <<>>
                      \/ r \in abandoned'
    BY DEF Tracked
  <2>1. CASE \E i \in DOMAIN stack : \E call \in DoomedAt(i) : call.id = r
    BY <1>5, <2>1
  <2>2. CASE \E call \in pending : call.id = r
    <3>1. PICK call \in pending : call.id = r
      BY <2>2
    <3>2. call \in frame.todo => call \in DoomedAt(1)' /\ 1 \in DOMAIN stack'
      BY <1>1, <1>2
    <3>3. QED
      BY <3>1, <3>2
  <2>3. QED
    BY <1>6, <2>1, <2>2 DEF Places, Tracked
<1>15. QED
  BY <1>9, <1>10, <1>11, <1>12, <1>13, <1>14 DEF Places, ResultStands

\* Nothing of it moves.
LEMMA PlacesSame ==
  ASSUME Places, UNCHANGED <<pending, nextRequest, answers, finished, abandoned>>,
         DOMAIN stack' = DOMAIN stack,
         \A i \in DOMAIN stack : DoomedAt(i)' = DoomedAt(i) /\ stack'[i].cause = stack[i].cause
  PROVE  Places'
<1>1. DoomedOpen'
  BY DEF Places, DoomedOpen
<1>2. DoomedOnce'
  BY DEF Places, DoomedOnce
<1>3. Tracked'
  BY DEF Places, Tracked
<1>4. QED
  BY <1>1, <1>2, <1>3 DEF Places, PendingOpen, Fresh, AnsweredOnce, ResultStands

\* The oldest call of the innermost cancellation is told, or dropped.
LEMMA PlacesCancel ==
  ASSUME Typed, Places, CancelReturned
  PROVE  Places'
<1>1. PICK call \in Top.todo : \E frame \in Frame :
           /\ Answer(IF AnswersCancelled(Top.cause) THEN {call.id} ELSE {}, Top.cause)
           /\ stack # <<>> /\ stack' = <<frame>> \o Tail(stack)
           /\ Top.op = "cancel" /\ frame.op = "cancel"
           /\ frame.cause = Top.cause /\ frame.todo = Top.todo \ {call} /\ frame.consumer = Top.consumer
  BY CancelStack
<1>2. PICK frame \in Frame :
           /\ Answer(IF AnswersCancelled(Top.cause) THEN {call.id} ELSE {}, Top.cause)
           /\ stack # <<>> /\ stack' = <<frame>> \o Tail(stack)
           /\ Top.op = "cancel" /\ frame.op = "cancel"
           /\ frame.cause = Top.cause /\ frame.todo = Top.todo \ {call}
  BY <1>1
<1>3. /\ Len(stack') = Len(stack) /\ Len(stack) \in Nat \ {0} /\ stack'[1] = frame
      /\ Top = stack[1] /\ Top \in Frame
      /\ DOMAIN stack = 1 .. Len(stack) /\ DOMAIN stack' = 1 .. Len(stack')
      /\ \A i \in 2 .. Len(stack) : stack'[i] = stack[i]
  BY <1>2, StackReplaced
<1>4. 1 \in DOMAIN stack /\ DOMAIN stack' = DOMAIN stack
      /\ \A i \in DOMAIN stack : i = 1 \/ i \in 2 .. Len(stack)
  BY <1>3
<1>5. DoomedAt(1) = Top.todo /\ DoomedAt(1)' = Top.todo \ {call} /\ call \in DoomedAt(1)
  BY <1>1, <1>2, <1>3 DEF DoomedAt
<1>6. \A i \in 2 .. Len(stack) : DoomedAt(i)' = DoomedAt(i)
  BY <1>3 DEF DoomedAt
<1>7. \A i \in DOMAIN stack : DoomedAt(i)' \subseteq DoomedAt(i) /\ stack'[i].cause = stack[i].cause
  BY <1>2, <1>3, <1>4, <1>5, <1>6
<1>8. pending' = pending /\ nextRequest' = nextRequest /\ finished' = finished /\ abandoned' = abandoned
  BY DEF CancelReturned, registry
<1>9. call.id \in Requests /\ call.id <= nextRequest /\ answers[call.id] = <<>>
      /\ (call.id \in abandoned <=> Top.cause = "left")
      /\ (Top.cause = "timeout" => call.id \notin finished)
      /\ \A other \in pending : other.id # call.id
  BY <1>3, <1>4, <1>5, DoomedType DEF Places, DoomedOpen
<1>10. Top.cause \in {"unloaded", "timeout", "left"}
  BY <1>2, <1>3, <1>4 DEF Typed, FramesMatch, Frame
<1>11. /\ \A r \in Requests : r # call.id => answers'[r] = answers[r]
       /\ Top.cause = "left" => answers'[call.id] = answers[call.id]
       /\ Top.cause # "left" => answers'[call.id] = <<Top.cause>>
  <2>1. CASE Top.cause = "left"
    BY <1>2, <1>9, <2>1, AnswerFacts DEF AnswersCancelled
  <2>2. CASE Top.cause # "left"
    BY <1>2, <1>9, <2>2, AnswerFacts DEF AnswersCancelled
  <2>3. QED
    BY <2>1, <2>2
<1>12. \A i \in DOMAIN stack : \A other \in DoomedAt(i)' : other.id # call.id
  <2> SUFFICES ASSUME NEW i \in DOMAIN stack, NEW other \in DoomedAt(i)', other.id = call.id PROVE FALSE
    OBVIOUS
  <2>1. i = 1 /\ other = call
    BY <1>4, <1>5, <1>7 DEF Places, DoomedOnce
  <2>2. QED
    BY <1>5, <2>1
<1>13. PendingOpen'
  <2>1. \A other \in pending : answers'[other.id] = answers[other.id]
    BY <1>9, <1>11 DEF Typed, TypeOK, Pending
  <2>2. QED
    BY <1>8, <2>1 DEF Places, PendingOpen
<1>14. DoomedOpen'
  <2> SUFFICES ASSUME NEW i \in DOMAIN stack, NEW other \in DoomedAt(i)'
               PROVE  /\ answers'[other.id] = <<>> /\ other.id <= nextRequest
                      /\ other.id \in abandoned <=> stack'[i].cause = "left"
                      /\ stack'[i].cause = "timeout" => other.id \notin finished
                      /\ \A waiting \in pending : waiting.id # other.id
    BY <1>4, <1>8 DEF DoomedOpen
  <2>1. other \in DoomedAt(i) /\ other.id # call.id /\ other.id \in Requests
    BY <1>7, <1>12, DoomedType
  <2>2. answers'[other.id] = answers[other.id]
    BY <1>11, <2>1
  <2>3. QED
    BY <1>7, <2>1, <2>2 DEF Places, DoomedOpen
<1>15. DoomedOnce'
  BY <1>4, <1>7 DEF Places, DoomedOnce
<1>16. Fresh'
  <2> SUFFICES ASSUME NEW r \in Requests, r > nextRequest PROVE answers'[r] = <<>> /\ r \notin abandoned \cup finished
    BY <1>8 DEF Fresh
  <2>1. r # call.id
    BY <1>9, HostServiceAssumption DEF Typed, TypeOK, Requests
  <2>2. QED
    BY <1>11, <2>1 DEF Places, Fresh
<1>17. AnsweredOnce'
  <2> SUFFICES ASSUME NEW r \in Requests PROVE Len(answers'[r]) <= 1 /\ (r \in abandoned => answers'[r] = <<>>)
    BY <1>8 DEF AnsweredOnce
  <2>1. CASE r = call.id
    <3>1. answers'[r] = <<>> \/ (answers'[r] = <<Top.cause>> /\ r \notin abandoned)
      BY <1>9, <1>11, <2>1
    <3>2. CASE answers'[r] = <<>>
      <4>1. Len(<<>>) <= 1
        OBVIOUS
      <4>2. QED
        BY <3>2, <4>1
    <3>3. CASE answers'[r] = <<Top.cause>> /\ r \notin abandoned
      <4>1. Len(<<Top.cause>>) <= 1
        OBVIOUS
      <4>2. QED
        BY <3>3, <4>1
    <3>4. QED
      BY <3>1, <3>2, <3>3
  <2>2. CASE r # call.id
    BY <1>11, <2>2 DEF Places, AnsweredOnce
  <2>3. QED
    BY <2>1, <2>2
<1>18. ResultStands'
  <2> SUFFICES ASSUME NEW r \in finished PROVE answers'[r] \in {<<>>, <<"result">>, <<"unloaded">>}
    BY <1>8 DEF ResultStands
  <2>1. CASE r = call.id
    <3>1. Top.cause = "unloaded" \/ Top.cause = "left"
      BY <1>9, <1>10, <2>1
    <3>2. QED
      BY <1>9, <1>11, <2>1, <3>1
  <2>2. CASE r # call.id
    BY <1>11, <2>2 DEF Places, ResultStands, Typed, TypeOK
  <2>3. QED
    BY <2>1, <2>2
<1>19. Tracked'
  <2> SUFFICES ASSUME NEW r \in 1 .. nextRequest
               PROVE  \/ \E other \in pending : other.id = r
                      \/ \E i \in DOMAIN stack : \E other \in DoomedAt(i)' : other.id = r
                      \/ answers'[r] # <<>>
                      \/ r \in abandoned
    BY <1>4, <1>8 DEF Tracked
  <2>1. CASE r = call.id
    BY <1>9, <1>11, <2>1
  <2>2. CASE r # call.id
    <3>1. r \in Requests
      BY HostServiceAssumption DEF Typed, TypeOK, Requests
    <3>2. \A i \in DOMAIN stack : \A other \in DoomedAt(i) : other.id = r => other \in DoomedAt(i)'
      BY <1>4, <1>5, <1>6, <2>2
    <3>3. answers'[r] = answers[r]
      BY <1>11, <2>2, <3>1
    <3>4. QED
      BY <3>2, <3>3 DEF Places, Tracked
  <2>3. QED
    BY <2>1, <2>2
<1>20. QED
  BY <1>13, <1>14, <1>15, <1>16, <1>17, <1>18, <1>19 DEF Places

\* Pending calls are answered; `down` frames are popped in the same step.
LEMMA PlacesAnswer ==
  ASSUME Typed, NumbersBound, NumbersUnique, Places, NEW done, done \subseteq pending, NEW reply,
         pending' = pending \ done, Answer({call.id : call \in done}, reply),
         reply \in {"result", "refused"}, reply = "refused" => \A call \in done : ~call.completed,
         UNCHANGED <<nextRequest, finished, abandoned>>,
         NEW down \in Nat, DOMAIN stack' \subseteq Nat,
         \A i \in DOMAIN stack' : /\ i + down \in DOMAIN stack /\ stack'[i].cause = stack[i + down].cause
                                  /\ DoomedAt(i)' = DoomedAt(i + down),
         \A i \in DOMAIN stack : DoomedAt(i) # {} =>
           \E j \in DOMAIN stack' : DoomedAt(j)' = DoomedAt(i)
  PROVE  Places'
<1>1. \A call \in pending :
        /\ call.id \in Requests /\ call.id <= nextRequest
        /\ answers[call.id] = <<>> /\ call.id \notin abandoned
        /\ call.id \in finished => call.completed
  BY DEF Typed, TypeOK, Pending, NumbersBound, Places, PendingOpen
<1> DEFINE gone == {call.id : call \in done}
<1>2. \A r \in Requests : /\ r \in gone => answers'[r] = <<reply>>
                          /\ r \notin gone => answers'[r] = answers[r]
  BY <1>1, AnswerFacts
<1>3. \A other \in pending' : other \in pending /\ other.id \notin gone
  BY DEF NumbersUnique
<1>4. \A r \in gone : /\ r \in Requests /\ r <= nextRequest /\ r \notin abandoned
                      /\ reply = "refused" => r \notin finished
  BY <1>1
<1>a. \A r : (\E call \in pending : call.id = r) => r \in gone \/ \E call \in pending' : call.id = r
  OBVIOUS
<1> HIDE DEF gone
<1>5. PendingOpen'
  BY <1>1, <1>2, <1>3 DEF PendingOpen
<1>6. DoomedOpen'
  <2> SUFFICES ASSUME NEW i \in DOMAIN stack', NEW other \in DoomedAt(i)'
               PROVE  /\ answers'[other.id] = <<>> /\ other.id <= nextRequest
                      /\ other.id \in abandoned <=> stack'[i].cause = "left"
                      /\ stack'[i].cause = "timeout" => other.id \notin finished
                      /\ \A waiting \in pending' : waiting.id # other.id
    BY DEF DoomedOpen
  <2>1. i + down \in DOMAIN stack /\ other \in DoomedAt(i + down)
    OBVIOUS
  <2>2. /\ answers[other.id] = <<>> /\ other.id <= nextRequest
        /\ other.id \in abandoned <=> stack'[i].cause = "left"
        /\ stack'[i].cause = "timeout" => other.id \notin finished
        /\ \A waiting \in pending : waiting.id # other.id
    BY <2>1 DEF Places, DoomedOpen
  <2>3. other.id \in Requests
    BY <2>1, DoomedType
  <2>4. other.id \notin gone
    BY <2>2 DEF gone
  <2>5. QED
    BY <1>2, <1>3, <2>2, <2>3, <2>4
<1>7. DoomedOnce'
  <2> SUFFICES ASSUME NEW i \in DOMAIN stack', NEW j \in DOMAIN stack', NEW c \in DoomedAt(i)', NEW d \in DoomedAt(j)',
                      c.id = d.id
               PROVE  i = j /\ c = d
    BY DEF DoomedOnce
  <2>1. c \in DoomedAt(i + down) /\ d \in DoomedAt(j + down) /\ i + down \in DOMAIN stack /\ j + down \in DOMAIN stack
    OBVIOUS
  <2>2. i + down = j + down /\ c = d
    BY <2>1 DEF Places, DoomedOnce
  <2>3. i \in Nat /\ j \in Nat
    OBVIOUS
  <2>4. QED
    BY <2>2, <2>3
<1>8. Fresh'
  <2> SUFFICES ASSUME NEW r \in Requests, r > nextRequest PROVE answers'[r] = <<>> /\ r \notin abandoned \cup finished
    BY DEF Fresh
  <2>1. r \notin gone
    BY <1>4, HostServiceAssumption DEF Requests, Typed, TypeOK
  <2>2. QED
    BY <1>2, <2>1 DEF Places, Fresh
<1>9. AnsweredOnce'
  <2> SUFFICES ASSUME NEW r \in Requests PROVE Len(answers'[r]) <= 1 /\ (r \in abandoned => answers'[r] = <<>>)
    BY DEF AnsweredOnce
  <2>1. CASE r \in gone
    <3>1. answers'[r] = <<reply>> /\ r \notin abandoned
      BY <1>2, <1>4, <2>1
    <3>2. Len(<<reply>>) = 1
      OBVIOUS
    <3>3. QED
      BY <3>1, <3>2
  <2>2. CASE r \notin gone
    BY <1>2, <2>2 DEF Places, AnsweredOnce
  <2>3. QED
    BY <2>1, <2>2
<1>10. ResultStands'
  <2> SUFFICES ASSUME NEW r \in finished PROVE answers'[r] \in {<<>>, <<"result">>, <<"unloaded">>}
    BY DEF ResultStands
  <2>1. CASE r \in gone
    <3>1. reply = "result"
      BY <1>4, <2>1
    <3>2. QED
      BY <1>2, <1>4, <2>1, <3>1
  <2>2. CASE r \notin gone
    BY <1>2, <2>2 DEF Places, ResultStands, Typed, TypeOK
  <2>3. QED
    BY <2>1, <2>2
<1>11. Tracked'
  <2> SUFFICES ASSUME NEW r \in 1 .. nextRequest
               PROVE  \/ \E other \in pending' : other.id = r
                      \/ \E i \in DOMAIN stack' : \E other \in DoomedAt(i)' : other.id = r
                      \/ answers'[r] # <<>>
                      \/ r \in abandoned
    BY DEF Tracked
  <2>1. r \in Requests
    BY HostServiceAssumption DEF Typed, TypeOK, Requests
  <2>2. CASE r \in gone
    <3>1. <<reply>> # <<>>
      OBVIOUS
    <3>2. QED
      BY <1>2, <2>1, <2>2, <3>1
  <2>3. CASE r \notin gone
    <3>1. (\E i \in DOMAIN stack : \E other \in DoomedAt(i) : other.id = r) =>
            \E j \in DOMAIN stack' : \E other \in DoomedAt(j)' : other.id = r
      OBVIOUS
    <3>2. answers'[r] = answers[r]
      BY <1>2, <2>1, <2>3
    <3>3. (\E call \in pending : call.id = r) => \E call \in pending' : call.id = r
      BY <1>a, <2>3
    <3>4. QED
      BY <3>1, <3>2, <3>3 DEF Places, Tracked
  <2>4. QED
    BY <2>2, <2>3
<1>12. QED
  BY <1>5, <1>6, <1>7, <1>8, <1>9, <1>10, <1>11 DEF Places

LEMMA PlacesRefuse ==
  ASSUME Typed, NumbersBound, NumbersUnique, Places, RequestRefused
  PROVE  Places'
<1> DEFINE open == {call \in pending : StillOpen(call) /\ \E asked \in Top.todo : call.id = asked.id}
<1>1. /\ stack # <<>> /\ Top.op = "request" /\ stack' = Tail(stack) /\ pending' = pending \ open
      /\ Answer({call.id : call \in open}, "refused")
      /\ UNCHANGED <<nextRequest, finished, abandoned>>
  BY DEF RequestRefused
<1>2. open \subseteq pending /\ \A call \in open : ~call.completed
  BY DEF StillOpen
<1> HIDE DEF open
<1>3. /\ Top = stack[1] /\ Len(stack) \in Nat \ {0} /\ Len(stack') = Len(stack) - 1
      /\ DOMAIN stack = 1 .. Len(stack) /\ DOMAIN stack' = 1 .. Len(stack')
      /\ \A i \in DOMAIN stack' : stack'[i] = stack[i + 1] /\ i + 1 \in DOMAIN stack
  BY <1>1, StackPopped
<1>4. DOMAIN stack' \subseteq Nat
  BY <1>3
<1>5. \A i \in DOMAIN stack' : /\ i + 1 \in DOMAIN stack /\ stack'[i].cause = stack[i + 1].cause
                               /\ DoomedAt(i)' = DoomedAt(i + 1)
  BY <1>3 DEF DoomedAt
<1>6. \A i \in DOMAIN stack : DoomedAt(i) # {} => \E j \in DOMAIN stack' : DoomedAt(j)' = DoomedAt(i)
  <2> SUFFICES ASSUME NEW i \in DOMAIN stack, DoomedAt(i) # {}
               PROVE  \E j \in DOMAIN stack' : DoomedAt(j)' = DoomedAt(i)
    OBVIOUS
  <2>1. i # 1
    BY <1>1, <1>3 DEF DoomedAt
  <2>2. i - 1 \in DOMAIN stack' /\ (i - 1) + 1 = i
    BY <1>3, <2>1
  <2>3. QED
    BY <1>5, <2>2
<1>7. QED
  BY <1>1, <1>2, <1>4, <1>5, <1>6, PlacesAnswer

LEMMA PlacesCall ==
  ASSUME Typed, NumbersBound, Places, NEW service \in services, NEW consumer \in Consumers,
         Call(service, consumer)
  PROVE  Places'
<1>1. PICK call \in Pending :
        /\ call.id = nextRequest + 1 /\ call.completed = FALSE /\ pending' = pending \cup {call}
        /\ DOMAIN stack = {} /\ DOMAIN stack' = {1} /\ stack'[1].op = "request"
  BY CallStack
<1>2. nextRequest' = nextRequest + 1 /\ nextRequest \in Nat
      /\ UNCHANGED <<answers, finished, abandoned>>
  BY HostServiceAssumption DEF Call, history, Typed, TypeOK
<1>3. DoomedAt(1)' = {}
  BY <1>1 DEF DoomedAt
<1>4. call.id \in Requests /\ call.id > nextRequest
  BY <1>1, <1>2 DEF Pending, Requests
<1>5. answers[call.id] = <<>> /\ call.id \notin abandoned /\ call.id \notin finished
  BY <1>4 DEF Places, Fresh
<1>6. PendingOpen'
  BY <1>1, <1>2, <1>5 DEF Places, PendingOpen
<1>7. DoomedOpen' /\ DoomedOnce'
  BY <1>1, <1>3 DEF DoomedOpen, DoomedOnce
<1>8. Fresh'
  BY <1>2, HostServiceAssumption DEF Places, Fresh, Requests
<1>9. Tracked'
  <2> SUFFICES ASSUME NEW r \in 1 .. nextRequest + 1
               PROVE  (\E other \in pending' : other.id = r) \/ answers[r] # <<>> \/ r \in abandoned
    BY <1>2 DEF Tracked
  <2>1. CASE r = nextRequest + 1
    BY <1>1, <2>1
  <2>2. CASE r \in 1 .. nextRequest
    BY <1>1, <2>2 DEF Places, Tracked
  <2>3. QED
    BY <1>2, <2>1, <2>2
<1>10. QED
  BY <1>2, <1>6, <1>7, <1>8, <1>9 DEF Places, AnsweredOnce, ResultStands

LEMMA PlacesComplete ==
  ASSUME Typed, NumbersBound, NumbersUnique, Places, NEW call \in pending, NEW bytes \in Sizes,
         Complete(call, bytes)
  PROVE  Places'
<1>1. PICK done \in Pending : done.id = call.id /\ done.completed = TRUE /\ pending' = (pending \ {call}) \cup {done}
  BY CompleteFacts
<1>2. nextRequest' = nextRequest /\ stack' = stack /\ answers' = answers /\ abandoned' = abandoned
      /\ finished' = finished \cup {call.id}
  BY DEF Complete
<1>3. call.id \in Requests /\ call.id <= nextRequest /\ answers[call.id] = <<>>
  BY DEF Typed, TypeOK, Pending, NumbersBound, Places, PendingOpen
<1>4. PendingOpen'
  BY <1>1, <1>2 DEF Places, PendingOpen, NumbersUnique
<1>5. \A i \in DOMAIN stack : DoomedAt(i)' = DoomedAt(i)
  BY <1>2 DEF DoomedAt
<1>6. DoomedOpen'
  BY <1>1, <1>2, <1>5 DEF Places, DoomedOpen
<1>7. DoomedOnce'
  BY <1>2, <1>5 DEF Places, DoomedOnce
<1>8. Fresh'
  BY <1>2, <1>3, HostServiceAssumption DEF Places, Fresh, Requests, Typed, TypeOK
<1>9. Tracked'
  BY <1>1, <1>2, <1>5 DEF Places, Tracked
<1>10. AnsweredOnce' /\ ResultStands'
  BY <1>2, <1>3 DEF Places, AnsweredOnce, ResultStands
<1>11. QED
  BY <1>4, <1>6, <1>7, <1>8, <1>9, <1>10 DEF Places

LEMMA PlacesStep == Typed /\ ServiceAlive /\ Queued /\ Places /\ [Next]_vars => Places'
<1> SUFFICES ASSUME Typed, ServiceAlive, Queued, Places, [Next]_vars PROVE Places'
  OBVIOUS
<1> USE DEF vars, registry, history
<1>0. NumbersBound /\ NumbersUnique /\ pending \subseteq Pending
  BY DEF Queued, Typed, TypeOK
<1>1. CASE UNCHANGED <<pending, nextRequest, answers, finished, abandoned, stack>>
  BY <1>1, PlacesSame DEF DoomedAt
<1>2. ASSUME NEW name \in Names, Add(name) PROVE Places'
  BY <1>1, <1>2 DEF Add
<1>3. ASSUME NEW service \in services, NEW consumer \in Consumers, Call(service, consumer) PROVE Places'
  BY <1>0, <1>3, PlacesCall
<1>4. CASE RequestAccepted
  <2>1. stack # <<>> /\ stack' = Tail(stack) /\ UNCHANGED <<pending, nextRequest, answers, finished, abandoned>>
    BY <1>4 DEF RequestAccepted
  <2>2. DoomedAt(1) = {}
    BY <1>4, <2>1, StackPopped DEF RequestAccepted, DoomedAt
  <2>3. QED
    BY <2>1, <2>2, PlacesPop
<1>5. CASE RequestRefused
  BY <1>0, <1>5, PlacesRefuse
<1>6. ASSUME NEW call \in pending, NEW bytes \in Sizes, Complete(call, bytes) PROVE Places'
  BY <1>0, <1>6, PlacesComplete
<1>7. ASSUME NEW service \in Registered, NEW to \in Windows \cup {Everyone}, NEW bytes \in Sizes,
             Emit(service, to, bytes)
      PROVE  Places'
  BY <1>1, <1>7 DEF Emit
<1>8. ASSUME NEW service \in services, Unregister(service) PROVE Places'
  <2>1. PICK frame \in Frame : /\ stack' = <<frame>> \o stack
                               /\ frame.op = "shutdown" /\ frame.cause = "unloaded"
                               /\ frame.todo = {call \in pending : call.service = service.handle}
    BY <1>8, UnregisterStack
  <2>2. pending' = pending \ frame.todo /\ UNCHANGED <<nextRequest, answers, finished, abandoned>>
    BY <1>8, <2>1 DEF Unregister
  <2>3. QED
    BY <1>0, <2>1, <2>2, PlacesPush
<1>9. CASE ShutdownReturned
  <2>1. PICK frame \in Frame : /\ stack # <<>> /\ stack' = <<frame>> \o Tail(stack)
                               /\ Top.op = "shutdown" /\ frame.op = "cancel"
                               /\ frame.cause = Top.cause /\ frame.todo = Top.todo
    BY <1>9, ShutdownStack
  <2>2. /\ Len(stack') = Len(stack) /\ Len(stack) \in Nat \ {0} /\ stack'[1] = frame /\ Top = stack[1]
        /\ DOMAIN stack = 1 .. Len(stack) /\ DOMAIN stack' = 1 .. Len(stack')
        /\ \A i \in 2 .. Len(stack) : stack'[i] = stack[i]
    BY <2>1, StackReplaced
  <2>3. \A i \in DOMAIN stack : DoomedAt(i)' = DoomedAt(i) /\ stack'[i].cause = stack[i].cause
    <3> SUFFICES ASSUME NEW i \in DOMAIN stack PROVE DoomedAt(i)' = DoomedAt(i) /\ stack'[i].cause = stack[i].cause
      OBVIOUS
    <3>1. CASE i = 1
      BY <2>1, <2>2, <3>1 DEF DoomedAt
    <3>2. CASE i \in 2 .. Len(stack)
      BY <2>2, <3>2 DEF DoomedAt
    <3>3. QED
      BY <2>2, <3>1, <3>2
  <2>4. QED
    BY <1>9, <2>2, <2>3, PlacesSame DEF ShutdownReturned
<1>10. ASSUME NEW consumer \in Consumers, Leave(consumer) PROVE Places'
  <2>1. PICK frame \in Frame : /\ stack' = <<frame>> \o stack
                               /\ frame.op = "cancel" /\ frame.cause = "left" /\ frame.todo = CallsOf(consumer)
    BY <1>10, LeaveStack
  <2>2. pending' = pending \ frame.todo /\ UNCHANGED <<nextRequest, answers, finished>>
        /\ abandoned' = abandoned \cup {call.id : call \in frame.todo}
    BY <1>10, <2>1 DEF Leave
  <2>3. frame.todo \subseteq pending
    BY <2>1 DEF CallsOf
  <2>4. QED
    BY <1>0, <2>1, <2>2, <2>3, PlacesPush
<1>11. CASE CancelReturned
  BY <1>11, PlacesCancel
<1>12. CASE CancelEnds
  <2>1. stack # <<>> /\ stack' = Tail(stack) /\ UNCHANGED <<pending, nextRequest, answers, finished, abandoned>>
    BY <1>12 DEF CancelEnds
  <2>2. DoomedAt(1) = {}
    BY <1>12, <2>1, StackPopped DEF CancelEnds, DoomedAt
  <2>3. QED
    BY <2>1, <2>2, PlacesPop
<1>13. ASSUME NEW item \in output, TickOutput(item) PROVE Places'
  <2> DEFINE done == {call \in pending : item.service \in Registered /\ call.id = item.request}
  <2>1. pending' = pending \ done /\ Answer({call.id : call \in done}, "result")
        /\ UNCHANGED <<nextRequest, finished, abandoned, stack>>
    BY <1>13 DEF TickOutput
  <2>2. done \subseteq pending
    OBVIOUS
  <2> HIDE DEF done
  <2>3. DOMAIN stack' \subseteq Nat
    BY <2>1 DEF Typed, TypeOK
  <2>4. \A i \in DOMAIN stack' : /\ i + 0 \in DOMAIN stack /\ stack'[i].cause = stack[i + 0].cause
                                 /\ DoomedAt(i)' = DoomedAt(i + 0)
    BY <2>1, <2>3 DEF DoomedAt
  <2>5. \A i \in DOMAIN stack : DoomedAt(i) # {} => \E j \in DOMAIN stack' : DoomedAt(j)' = DoomedAt(i)
    BY <2>1 DEF DoomedAt
  <2>6. QED
    BY <1>0, <2>1, <2>2, <2>3, <2>4, <2>5, PlacesAnswer
<1>14. ASSUME NEW call \in pending, TickExpire(call) PROVE Places'
  <2> DEFINE frame == [op |-> "cancel", cause |-> "timeout", todo |-> {call},
                       service |-> call.service, consumer |-> Everyone]
  <2>1. frame \in Frame /\ frame.op = "cancel" /\ frame.cause = "timeout" /\ frame.todo = {call}
    BY <1>0 DEF Frame, Pending
  <2>2. stack = <<>> /\ stack' = <<frame>> /\ pending' = pending \ {call} /\ ~call.completed
        /\ UNCHANGED <<nextRequest, answers, finished, abandoned>>
    BY <1>14 DEF TickExpire, Idle, Expires
  <2> HIDE DEF frame
  <2>3. stack' = <<frame>> \o stack
    BY <2>2
  <2>4. QED
    BY <1>0, <2>1, <2>2, <2>3, PlacesPush
<1>15. CASE Elapse \/ UNCHANGED vars
  BY <1>1, <1>15 DEF Elapse
<1>16. QED
  BY <1>2, <1>3, <1>4, <1>5, <1>6, <1>7, <1>8, <1>9, <1>10, <1>11, <1>12, <1>13, <1>14, <1>15
     DEF Next, Return, Deliver, Expire, Quiet

LEMMA PlacesHold == Spec => []Places
<1>1. Init => ServiceAlive /\ Queued
  BY DEF Init, ServiceAlive, Queued, NumbersBound, NumbersUnique, ItemsMatch, LeftGone, CompletedIsQueued
<1>2. QED
  BY <1>1, TypedInit, TypedStep, AliveStep, QueuedStep, PlacesInit, PlacesStep, PTL DEF Spec

\* No caller is answered twice, and none after its page or client left.
THEOREM ServiceAnswersOnce == Spec => []AnsweredOnce
<1>1. Places => AnsweredOnce
  BY DEF Places
<1>2. QED
  BY <1>1, PlacesHold, PTL

\* Once complete() returned OK the caller gets that result, unless the service
\* itself is unregistered.
THEOREM ServiceResultStands == Spec => []ResultStands
<1>1. Places => ResultStands
  BY DEF Places
<1>2. QED
  BY <1>1, PlacesHold, PTL

\* No call is lost between pending_, the callbacks and the replies.
THEOREM ServiceAccounts == Spec => []Accounted
<1>1. Places => Accounted
  BY DEF Places, Tracked, Accounted, DoomedAt
<1>2. QED
  BY <1>1, PlacesHold, PTL

\* Each caller gets one answer, and the one complete() took stands.
THEOREM ServiceAnswersStand == Spec => []AnswersStand
<1>1. AnsweredOnce /\ ResultStands => AnswersStand
  BY DEF AnswersStand
<1>2. QED
  BY <1>1, ServiceAnswersOnce, ServiceResultStands, PTL

\* Whatever the callbacks do, every call is accounted for and its service exists.
THEOREM ServiceCallsAccounted == Spec => []CallsAccounted
<1>1. ServiceAlive /\ Accounted => CallsAccounted
  BY DEF CallsAccounted
<1>2. QED
  BY <1>1, ServiceStaysAlive, ServiceAccounts, PTL
=============================================================================
