------------------------- MODULE SocketsProofs -------------------------
(***************************************************************************)
(* Proofs about two protocols between the runtime and its pages, for every *)
(* value of their constants: Lifecycle.tla, and the connections and chunks *)
(* of Sockets.tla (StreamTransport.tla, JsfxTransfer.tla).                 *)
(*                                                                         *)
(* Lifecycle.  Types come first.  "Excused" says why a navigation may be   *)
(* let through, "OneAnswer" that every answer of the current document      *)
(* carries the token the page keeps; with the types each is inductive, and *)
(* the two action properties follow from them step by step.                *)
(*                                                                         *)
(* Sockets.  "LineInv" says where the packets of a connection are:         *)
(* handled, on the wire, in its socket, waiting or still in the ring, each *)
(* before all of the next, with one under way or unacknowledged.           *)
(* "ChunkInv" says that a transfer has a prefix of its resource, that      *)
(* everything under way is about a chunk of it, and that the page's        *)
(* numbers do not run out.                                                 *)
(***************************************************************************)
EXTENDS Lifecycle, Sockets, FiniteSetTheorems, SequenceTheorems, WellFoundedInduction, TLAPS

\* A navigation is let through only after a completed cleanup, or because nobody
\* listened when the reload was decided.
Excused == allowReload => settled \/ bare

\* Answers come from documents that existed, and those of this document carry the
\* one token it was told.
OneAnswer ==
  /\ \A r \in returned : r.doc <= generation
  /\ \A r \in returned : r.doc = generation => r.token = told

LEMMA InitTyped == Init => TypeOK
<1> SUFFICES ASSUME Init PROVE TypeOK
  OBVIOUS
<1>1. generation \in Documents /\ sequence \in 0 .. MaxCleanups
  BY LifecycleAssumption DEF Init, Documents
<1>2. reloading \in Nat /\ reloads \in 0 .. MaxReloads /\ listens \in 0 .. MaxListens
  BY LifecycleAssumption DEF Init
<1>3. returned \subseteq [token : Tokens, doc : Documents, taken : BOOLEAN]
  BY DEF Init
<1> QED BY <1>1, <1>2, <1>3 DEF Init, TypeOK

\* What Begin does to the variables it may change, and that it keeps their types.
LEMMA BeginTyped ==
  ASSUME TypeOK, NEW what \in {"close", "reload"}, Begin(what)
  PROVE  /\ action' \in {"none", "close", "reload"}
         /\ token' \in Tokens \union {NoToken} /\ told' \in Tokens \union {NoToken}
         /\ sequence' \in 0 .. MaxCleanups /\ late' \in BOOLEAN
         /\ action' = "none" <=> token' = NoToken
<1>1. CASE action # "none"
  BY <1>1 DEF Begin, TypeOK
<1>2. CASE action = "none"
  <2>1. sequence + 1 \in Tokens /\ sequence + 1 # NoToken
    BY <1>2, LifecycleAssumption DEF Begin, TypeOK, Tokens, NoToken
  <2>2. Tokens \subseteq 0 .. MaxCleanups
    BY DEF Tokens
  <2> QED BY <1>2, <2>1, <2>2 DEF Begin, TypeOK
<1> QED BY <1>1, <1>2

LEMMA CloseTyped == TypeOK /\ Close => TypeOK'
<1> SUFFICES ASSUME TypeOK, Close PROVE TypeOK'
  OBVIOUS
<1>1. CASE Begin("close") /\ UNCHANGED closing
  BY <1>1, BeginTyped DEF Close, TypeOK, fate, bounds
<1>2. CASE ~(Begin("close") /\ UNCHANGED closing)
  <2>1. closing' \in BOOLEAN /\ UNCHANGED <<token, sequence, late, told>>
    BY <1>2 DEF Close, TypeOK
  <2>2. action' = action \/ (action = "reload" /\ action' = "close")
    BY <1>2 DEF Close
  <2>3. action' \in {"none", "close", "reload"} /\ (action' = "none" <=> token = NoToken)
    BY <2>2 DEF TypeOK
  <2>4. /\ presenting' = FALSE /\ closeAsked' = TRUE
        /\ UNCHANGED <<ready, enabled, allowReload, failed, window, generation, reloading, returned, reloads, listens, settled, bare>>
    BY DEF Close, bounds
  <2>5. /\ ready' \in BOOLEAN /\ enabled' \in BOOLEAN /\ late' \in BOOLEAN /\ allowReload' \in BOOLEAN
        /\ failed' \in BOOLEAN /\ presenting' \in BOOLEAN /\ closeAsked' \in BOOLEAN
        /\ settled' \in BOOLEAN /\ bare' \in BOOLEAN
    BY <2>1, <2>4, Zenon DEF TypeOK
  <2>6. /\ token' \in Tokens \union {NoToken} /\ told' \in Tokens \union {NoToken} /\ sequence' \in 0 .. MaxCleanups
        /\ window' \in {"open", "gone", "erased"} /\ generation' \in Documents'
    BY <2>1, <2>4 DEF TypeOK, Tokens, NoToken, Documents
  <2>7. /\ reloading' \in Nat /\ reloads' \in 0 .. MaxReloads /\ listens' \in 0 .. MaxListens
        /\ returned' \subseteq [token : Tokens, doc : Documents, taken : BOOLEAN]
    BY <2>4 DEF TypeOK
  <2> QED BY <2>1, <2>3, <2>5, <2>6, <2>7 DEF TypeOK, Tokens, NoToken, Documents
<1> QED BY <1>1, <1>2

LEMMA AskReloadTyped == TypeOK /\ AskReload => TypeOK'
<1> SUFFICES ASSUME TypeOK, AskReload PROVE TypeOK'
  OBVIOUS
<1>0. reloads' \in 0 .. MaxReloads /\ reloading' \in Nat
  BY LifecycleAssumption DEF AskReload, TypeOK
<1>1. CASE TakesOver
  BY <1>0, <1>1, BeginTyped DEF AskReload, TypeOK, fate
<1>2. CASE ~TakesOver
  BY <1>0, <1>2 DEF AskReload, NoBegin, TypeOK, fate
<1> QED BY <1>1, <1>2

LEMMA MenuReloadTyped == TypeOK /\ MenuReload => TypeOK'
<1> SUFFICES ASSUME TypeOK, MenuReload PROVE TypeOK'
  OBVIOUS
<1>0. reloads' \in 0 .. MaxReloads /\ reloading' \in Nat
  BY LifecycleAssumption DEF MenuReload, TypeOK
<1>1. CASE Defers
  BY <1>0, <1>1, BeginTyped DEF MenuReload, TypeOK, fate, history
<1>2. CASE ~Defers
  <2>1. allowReload' = FALSE /\ UNCHANGED <<action, token, sequence, late, told>>
    BY <1>2 DEF MenuReload, NoBegin
  <2>2. /\ UNCHANGED <<ready, enabled, presenting, generation, returned, listens>>
        /\ UNCHANGED <<closing, failed, window, closeAsked, settled, bare>>
    BY DEF MenuReload, fate, history
  <2>3. /\ ready' \in BOOLEAN /\ enabled' \in BOOLEAN /\ late' \in BOOLEAN /\ allowReload' \in BOOLEAN
        /\ closing' \in BOOLEAN /\ failed' \in BOOLEAN /\ presenting' \in BOOLEAN /\ closeAsked' \in BOOLEAN
        /\ settled' \in BOOLEAN /\ bare' \in BOOLEAN
    BY <2>1, <2>2 DEF TypeOK
  <2>4. /\ action' \in {"none", "close", "reload"} /\ token' \in Tokens \union {NoToken} /\ told' \in Tokens \union {NoToken}
        /\ sequence' \in 0 .. MaxCleanups /\ window' \in {"open", "gone", "erased"} /\ generation' \in Documents
        /\ listens' \in 0 .. MaxListens /\ returned' \subseteq [token : Tokens, doc : Documents, taken : BOOLEAN]
        /\ (action' = "none" <=> token' = NoToken)
    BY <2>1, <2>2 DEF TypeOK
  <2> QED BY <1>0, <2>3, <2>4 DEF TypeOK
<1> QED BY <1>1, <1>2

LEMMA StartNavigationTyped == TypeOK /\ StartNavigation => TypeOK'
<1> SUFFICES ASSUME TypeOK, StartNavigation PROVE TypeOK'
  OBVIOUS
<1>0. reloading' \in Nat
  BY DEF StartNavigation, TypeOK
<1>1. CASE Defers
  BY <1>0, <1>1, BeginTyped DEF StartNavigation, Deferred, TypeOK, fate, bounds
<1>2. CASE ~Defers
  <2>1. generation' \in Documents
    BY <1>2, LifecycleAssumption DEF StartNavigation, Replaced, TypeOK, Documents
  <2> QED BY <1>0, <1>2, <2>1 DEF StartNavigation, Replaced, TypeOK, fate, bounds
<1> QED BY <1>1, <1>2

LEMMA ReturnTokenTyped == TypeOK /\ ReturnToken => TypeOK'
<1> SUFFICES ASSUME TypeOK, ReturnToken PROVE TypeOK'
  OBVIOUS
<1>1. [token |-> told, doc |-> generation, taken |-> FALSE]
        \in [token : Tokens, doc : Documents, taken : BOOLEAN]
  BY DEF ReturnToken, TypeOK, NoToken
<1>2. returned' \subseteq [token : Tokens, doc : Documents, taken : BOOLEAN]
  BY <1>1 DEF ReturnToken, TypeOK
<1> QED BY <1>2 DEF ReturnToken, TypeOK, native, fate, bounds, history

LEMMA CompletesTyped ==
  ASSUME TypeOK, Completes
  PROVE  /\ closing' \in BOOLEAN /\ presenting' \in BOOLEAN /\ settled' \in BOOLEAN
         /\ allowReload' \in BOOLEAN /\ reloading' \in Nat
         /\ action' = "none" /\ token' = NoToken
<1>1. CASE action = "close"
  BY <1>1 DEF Completes, TypeOK
<1>2. CASE action # "close"
  <2>1. reloading' \in Nat
    BY <1>2 DEF Completes, TypeOK
  <2> QED BY <1>2, <2>1 DEF Completes, TypeOK
<1> QED BY <1>1, <1>2

LEMMA CompleteTyped ==
  ASSUME TypeOK, NEW r \in returned, Complete(r) PROVE TypeOK'
<1>0. returned' \subseteq [token : Tokens, doc : Documents, taken : BOOLEAN]
  BY DEF Complete, TypeOK
<1>1. CASE Accepts(r)
  BY <1>0, <1>1, CompletesTyped DEF Complete, TypeOK, bounds, NoToken
<1>2. CASE ~Accepts(r)
  BY <1>0, <1>2 DEF Complete, TypeOK, bounds
<1> QED BY <1>1, <1>2

LEMMA CompleteLateTyped == TypeOK /\ CompleteLate => TypeOK'
BY CompletesTyped DEF CompleteLate, TypeOK, pageVars, bounds, NoToken

\* The types are inductive on their own.
LEMMA NextTyped == TypeOK /\ [Next]_vars => TypeOK'
<1> SUFFICES ASSUME TypeOK, [Next]_vars PROVE TypeOK'
  OBVIOUS
<1>1. CASE PageReload
  BY <1>1, LifecycleAssumption DEF PageReload, TypeOK, native, fate, pageVars, history
<1>2. CASE Greet
  BY <1>2 DEF Greet, TypeOK, fate, pageVars, bounds, history
<1>3. CASE Listen
  BY <1>3, LifecycleAssumption DEF Listen, TypeOK, fate, pageVars, history
<1>4. CASE Deadline
  BY <1>4 DEF Deadline, TypeOK, fate, pageVars, bounds, history
<1>5. CASE Present \/ Fail
  <2>1. closing' \in BOOLEAN /\ failed' \in BOOLEAN /\ presenting' \in BOOLEAN
    BY <1>5 DEF Present, Fail, TypeOK, fate
  <2>2. UNCHANGED <<native, window, generation, reloading, pageVars, bounds, history>>
    BY <1>5 DEF Present, Fail, fate
  <2> QED BY <2>1, <2>2 DEF TypeOK, native, pageVars, bounds, history
<1>6. CASE Vanish \/ Erase
  <2>1. window' \in {"open", "gone", "erased"}
    BY <1>6 DEF Vanish, Erase
  <2>2. UNCHANGED <<native, closing, failed, presenting, generation, reloading, pageVars,
                    bounds, history>>
    BY <1>6 DEF Vanish, Erase
  <2> QED BY <2>1, <2>2 DEF TypeOK, native, pageVars, bounds, history
<1>7. CASE UNCHANGED vars
  BY <1>7 DEF TypeOK, vars, native, fate, pageVars, bounds, history
<1>8. CASE \E r \in returned : Complete(r)
  BY <1>8, CompleteTyped
<1> QED
  BY <1>1, <1>2, <1>3, <1>4, <1>5, <1>6, <1>7, <1>8, CloseTyped, AskReloadTyped, MenuReloadTyped,
     StartNavigationTyped, ReturnTokenTyped, CompleteLateTyped DEF Next

\* In every reachable state the variables have their types, and there is a token
\* exactly while a cleanup is under way.
THEOREM TypesHold == Spec => []TypeOK
BY InitTyped, NextTyped, PTL DEF Spec

----------------------------------------------------------------------------

LEMMA NextExcused == Excused /\ [Next]_vars => Excused'
<1> SUFFICES ASSUME Excused, [Next]_vars PROVE Excused'
  OBVIOUS
<1> USE DEF Excused
<1>1. CASE Close
  BY <1>1 DEF Close
<1>2. CASE AskReload
  BY <1>2 DEF AskReload
<1>3. CASE MenuReload
  BY <1>3 DEF MenuReload
<1>4. CASE StartNavigation
  BY <1>4 DEF StartNavigation, Deferred, Replaced
<1>5. CASE \E r \in returned : Complete(r)
  <2>1. PICK r \in returned : Complete(r)
    BY <1>5
  <2>2. CASE Accepts(r)
    BY <2>1, <2>2 DEF Complete, Completes
  <2>3. CASE ~Accepts(r)
    BY <2>1, <2>3 DEF Complete
  <2> QED BY <2>2, <2>3
<1>6. CASE CompleteLate
  BY <1>6 DEF CompleteLate, Completes
<1>7. CASE PageReload \/ Greet \/ Listen \/ ReturnToken \/ Deadline
  BY <1>7 DEF PageReload, Greet, Listen, ReturnToken, Deadline, native, history
<1>8. CASE Present \/ Fail \/ Vanish \/ Erase
  BY <1>8 DEF Present, Fail, Vanish, Erase, native, history
<1>9. CASE UNCHANGED vars
  BY <1>9 DEF vars, native, history
<1> QED BY <1>1, <1>2, <1>3, <1>4, <1>5, <1>6, <1>7, <1>8, <1>9 DEF Next

LEMMA AlwaysExcused == Spec => []Excused
<1>1. Init => Excused
  BY DEF Init, Excused
<1> QED BY <1>1, NextExcused, PTL DEF Spec

\* What the next state must satisfy for a step to respect CleanupFirst.
CleanupFirstStep ==
  (ready /\ enabled /\ ~failed' /\ ~bare /\ window = "open"
     /\ (generation' # generation \/ (closing' /\ ~closing)))
    => settled \/ settled'

LEMMA StepCleanupFirst == TypeOK /\ Excused /\ [Next]_vars => CleanupFirstStep
<1> SUFFICES ASSUME TypeOK, Excused, [Next]_vars,
                    ready, enabled, ~failed', ~bare, window = "open",
                    generation' # generation \/ (closing' /\ ~closing)
             PROVE  settled \/ settled'
  BY DEF CleanupFirstStep
<1>1. CASE Close
  BY <1>1 DEF Close, TakesOver
<1>2. CASE StartNavigation
  <2>1. CASE Defers
    BY <1>2, <2>1 DEF StartNavigation, Deferred, fate
  <2>2. CASE ~Defers
    BY <1>2, <2>2 DEF StartNavigation, Defers, TakesOver, Excused, fate
  <2> QED BY <2>1, <2>2
<1>3. CASE \E r \in returned : Complete(r)
  BY <1>3 DEF Complete, Completes
<1>4. CASE CompleteLate
  BY <1>4 DEF CompleteLate, Completes
<1>5. CASE AskReload \/ MenuReload \/ PageReload \/ Greet \/ Listen \/ ReturnToken \/ Deadline
  BY <1>5 DEF AskReload, MenuReload, PageReload, Greet, Listen, ReturnToken, Deadline, fate
<1>6. CASE Present \/ Fail \/ Vanish \/ Erase
  BY <1>6 DEF Present, Fail, Vanish, Erase, fate
<1>7. CASE UNCHANGED vars
  BY <1>7 DEF vars, fate
<1> QED BY <1>1, <1>2, <1>3, <1>4, <1>5, <1>6, <1>7 DEF Next

\* A document that listens is cleaned up before it is replaced or closed.
THEOREM CleanupComesFirst == Spec => CleanupFirst
<1>1. CleanupFirst <=> [][CleanupFirstStep]_vars
  BY DEF CleanupFirst, CleanupFirstStep
<1> QED BY <1>1, StepCleanupFirst, TypesHold, AlwaysExcused, PTL DEF Spec

----------------------------------------------------------------------------

LEMMA BeginKeepsOneAnswer ==
  ASSUME TypeOK, OneAnswer, NEW what \in {"close", "reload"}, Begin(what),
         UNCHANGED <<returned, generation>>
  PROVE  OneAnswer'
BY DEF Begin, OneAnswer, TypeOK, Tokens, NoToken, Documents

LEMMA NextOneAnswer == TypeOK /\ OneAnswer /\ [Next]_vars => OneAnswer'
<1> SUFFICES ASSUME TypeOK, OneAnswer, [Next]_vars PROVE OneAnswer'
  OBVIOUS
<1>0. ASSUME UNCHANGED <<returned, generation, told>> PROVE OneAnswer'
  BY <1>0 DEF OneAnswer
<1>1. CASE Close
  BY <1>0, <1>1, BeginKeepsOneAnswer DEF Close
<1>2. CASE AskReload
  BY <1>0, <1>2, BeginKeepsOneAnswer DEF AskReload, NoBegin
<1>3. CASE MenuReload
  BY <1>0, <1>3, BeginKeepsOneAnswer DEF MenuReload, NoBegin
<1>4. CASE StartNavigation /\ Defers
  BY <1>4, BeginKeepsOneAnswer DEF StartNavigation, Deferred
<1>5. CASE StartNavigation /\ ~Defers
  BY <1>5 DEF StartNavigation, Replaced, OneAnswer, TypeOK, Documents
<1>6. CASE ReturnToken
  BY <1>6 DEF ReturnToken, OneAnswer, TypeOK, Documents
<1>7. CASE \E r \in returned : Complete(r)
  BY <1>7 DEF Complete, OneAnswer, TypeOK
<1>8. CASE CompleteLate
  BY <1>0, <1>8 DEF CompleteLate, pageVars
<1>9. CASE PageReload \/ Greet \/ Listen \/ Deadline \/ Present \/ Fail \/ Vanish \/ Erase
  BY <1>0, <1>9 DEF PageReload, Greet, Listen, Deadline, Present, Fail, Vanish, Erase, pageVars
<1>10. CASE UNCHANGED vars
  BY <1>0, <1>10 DEF vars, pageVars
<1> QED BY <1>1, <1>2, <1>3, <1>4, <1>5, <1>6, <1>7, <1>8, <1>9, <1>10 DEF Next

LEMMA AlwaysOneAnswer == Spec => []OneAnswer
<1>1. Init => OneAnswer
  BY DEF Init, OneAnswer
<1> QED BY <1>1, NextOneAnswer, TypesHold, PTL DEF Spec

\* What a step must satisfy to respect EndsOwnCleanup.
EndsOwnStep ==
  (token # NoToken /\ token' = NoToken /\ ~late /\ generation' = generation)
    => told = token /\ \E r \in returned : r.token = token

LEMMA StepEndsOwn == TypeOK /\ OneAnswer /\ [Next]_vars => EndsOwnStep
<1> SUFFICES ASSUME TypeOK, OneAnswer, [Next]_vars,
                    token # NoToken, token' = NoToken, ~late, generation' = generation
             PROVE  told = token /\ \E r \in returned : r.token = token
  BY DEF EndsOwnStep
<1>0. action # "none"
  BY DEF TypeOK
<1>1. CASE \E r \in returned : Complete(r)
  <2>1. PICK r \in returned : Complete(r)
    BY <1>1
  <2>2. Accepts(r)
    BY <2>1 DEF Complete
  <2> QED BY <2>1, <2>2 DEF Accepts, OneAnswer
<1>2. CASE StartNavigation
  BY <1>0, <1>2 DEF StartNavigation, Deferred, Replaced, Begin, TypeOK, Documents
<1>3. CASE Close \/ AskReload \/ MenuReload
  BY <1>0, <1>3 DEF Close, AskReload, MenuReload, Begin, NoBegin
<1>4. CASE CompleteLate
  BY <1>4 DEF CompleteLate
<1>5. CASE PageReload \/ Greet \/ Listen \/ ReturnToken \/ Deadline
  BY <1>5 DEF PageReload, Greet, Listen, ReturnToken, Deadline, native
<1>6. CASE Present \/ Fail \/ Vanish \/ Erase \/ UNCHANGED vars
  BY <1>6 DEF Present, Fail, Vanish, Erase, vars, native
<1> QED BY <1>1, <1>2, <1>3, <1>4, <1>5, <1>6 DEF Next

\* Before the deadline only the page's own answer ends a cleanup: the answer to an
\* earlier cleanup, however late it arrives, never ends a later one.
THEOREM OwnAnswerEnds == Spec => EndsOwnCleanup
<1>1. EndsOwnCleanup <=> [][EndsOwnStep]_vars
  BY DEF EndsOwnCleanup, EndsOwnStep
<1> QED BY <1>1, StepEndsOwn, TypesHold, AlwaysOneAnswer, PTL DEF Spec

LEMMA SetInduction ==
  ASSUME NEW S, 0 \in S, \A n \in Nat : n \in S => n + 1 \in S
  PROVE  Nat \subseteq S
<1> DEFINE T == Nat \ S
           R == OpToRel(<, Nat)
<1>1. SUFFICES ASSUME T # {} PROVE FALSE
  OBVIOUS
<1>2. \A x, y \in Nat : <<x, y>> \in R <=> x < y
  BY DEF OpToRel
<1>3. IsWellFoundedOn(R, Nat)
  BY NatLessThanWellFounded
<1> HIDE DEF R
<1>4. PICK m \in T : \A k \in T : ~(<<k, m>> \in R)
  BY <1>1, <1>3, WFMin
<1>5. \A k \in T : ~(k < m)
  BY <1>2, <1>4
<1>6. m \in Nat \ {0}
  BY <1>4
<1>7. m - 1 \in Nat /\ m - 1 \notin T
  BY <1>5, <1>6
<1> QED BY <1>6, <1>7

\* The value of f at 0 is "base", and each of the next n comes from the one below it.
Iterates(f, n, base, step) == f[0] = base /\ \A i \in 1 .. n : f[i] = step[i][f[i - 1]]

\* Such a function exists.
LEMMA Recursion ==
  ASSUME NEW n \in Nat, NEW V, NEW base \in V, NEW step \in [1 .. n -> [V -> V]]
  PROVE  \E f \in [0 .. n -> V] : Iterates(f, n, base, step)
<1> DEFINE Upto(k, f) == f[0] = base /\ \A i \in 1 .. k : f[i] = step[i][f[i - 1]]
           S == {k \in Nat : k <= n => \E f \in [0 .. k -> V] : Upto(k, f)}
<1>1. 0 \in S
  <2>1. PICK f : f = [i \in 0 .. 0 |-> base]
    OBVIOUS
  <2>2. f \in [0 .. 0 -> V] /\ Upto(0, f)
    <3>1. \A i \in 1 .. 0 : FALSE
      OBVIOUS
    <3> QED BY <2>1, <3>1
  <2> QED BY <2>2
<1>2. ASSUME NEW k \in Nat, k \in S PROVE k + 1 \in S
  <2>1. SUFFICES ASSUME k + 1 <= n PROVE \E f \in [0 .. k + 1 -> V] : Upto(k + 1, f)
    OBVIOUS
  <2>2. PICK f \in [0 .. k -> V] : Upto(k, f)
    BY <1>2, <2>1
  <2>3. PICK g : g = [i \in 0 .. k + 1 |-> IF i = k + 1 THEN step[i][f[k]] ELSE f[i]]
    OBVIOUS
  <2>4. step[k + 1][f[k]] \in V
    <3>1. k + 1 \in 1 .. n /\ f[k] \in V
      BY <2>1
    <3> QED BY <3>1
  <2>5. ASSUME NEW i \in 1 .. k + 1 PROVE g[i] = step[i][g[i - 1]]
    <3>1. CASE i = k + 1
      <4>1. i - 1 = k /\ i - 1 \in 0 .. k + 1 /\ i - 1 # k + 1
        BY <3>1
      <4>2. g[i - 1] = f[k] /\ g[i] = step[i][f[k]]
        BY <2>3, <3>1, <4>1
      <4> QED BY <4>2
    <3>2. CASE i # k + 1
      <4>1. i \in 1 .. k /\ i \in 0 .. k + 1 /\ i - 1 \in 0 .. k + 1 /\ i - 1 # k + 1
        BY <3>2
      <4>2. g[i] = f[i] /\ g[i - 1] = f[i - 1]
        BY <2>3, <3>2, <4>1
      <4> QED BY <2>2, <4>1, <4>2
    <3> QED BY <3>1, <3>2
  <2>6. g \in [0 .. k + 1 -> V]
    BY <2>3, <2>4
  <2>7. Upto(k + 1, g)
    <3>1. 0 \in 0 .. k + 1 /\ 0 # k + 1
      OBVIOUS
    <3>2. g[0] = base
      BY <2>2, <2>3, <3>1
    <3> QED BY <2>5, <3>2
  <2> QED BY <2>6, <2>7
<1> HIDE DEF S
<1>3. n \in S
  BY <1>1, <1>2, SetInduction
<1> QED BY <1>3 DEF S, Iterates

LEMMA KeyTail ==
  ASSUME NEW W, NEW q \in Seq(W), q # <<>>
  PROVE  /\ q[1] = Head(q) /\ Head(q) \in W /\ Tail(q) \in Seq(W) /\ Len(Tail(q)) = Len(q) - 1
         /\ DOMAIN Tail(q) = 1 .. Len(q) - 1 /\ \A i \in DOMAIN Tail(q) : i + 1 \in DOMAIN q /\ Tail(q)[i] = q[i + 1]
         /\ 1 \in DOMAIN q /\ \A j \in DOMAIN q : j > 1 => j - 1 \in DOMAIN Tail(q) /\ Tail(q)[j - 1] = q[j]
<1>1. Len(q) \in Nat \ {0} /\ DOMAIN q = 1 .. Len(q) /\ q[1] = Head(q)
  <2>1. Len(q) \in Nat /\ DOMAIN q = 1 .. Len(q) /\ Len(q) # 0
    BY EmptySeq
  <2> QED BY <2>1
<1>2. /\ Head(q) \in W /\ Tail(q) \in Seq(W) /\ Len(Tail(q)) = Len(q) - 1
      /\ \A i \in 1 .. Len(Tail(q)) : Tail(q)[i] = q[i + 1]
  BY HeadTailProperties
<1>3. DOMAIN Tail(q) = 1 .. Len(q) - 1
  BY <1>2
<1>4. \A i \in DOMAIN Tail(q) : i + 1 \in DOMAIN q /\ Tail(q)[i] = q[i + 1]
  BY <1>1, <1>2, <1>3
<1>5. ASSUME NEW j \in DOMAIN q, j > 1 PROVE j - 1 \in DOMAIN Tail(q) /\ Tail(q)[j - 1] = q[j]
  <2>1. j - 1 \in DOMAIN Tail(q) /\ (j - 1) + 1 = j
    BY <1>1, <1>3, <1>5
  <2>2. Tail(q)[j - 1] = q[(j - 1) + 1]
    BY <2>1, <1>4
  <2> QED BY <2>1, <2>2
<1> QED BY <1>1, <1>2, <1>3, <1>4, <1>5

-----------------------------------------------------------------------------
(* The chunks of a resource (JsfxTransfer).                                 *)

\* What the page asks, what the transfer answers while n chunks are there.
ChunkOffsets == 0 .. Len(Resource) - 1
ChunkValues == {Resource[i] : i \in DOMAIN Resource}
ChunkAsks == {m \in [sequence : 1 .. MaxCalls, offset : ChunkOffsets, value : ChunkValues] : m.value = Resource[m.offset + 1]}
ChunkTells(n) ==
  {x \in [sequence : 1 .. MaxCalls, offset : ChunkOffsets, code : {"ok", "TRANSFER_NOT_FOUND", "INVALID_ARGUMENT"}, value : ChunkValues] :
     x.code = "ok" => x.value = Resource[x.offset + 1] /\ (upward => x.offset < n)}
\* The transfer holds a prefix of the resource.
ChunkServer ==
  /\ upward \in BOOLEAN /\ state \in {"open", "sealed", "closed", "expired"}
  /\ data \in Seq(ChunkValues) /\ Len(data) <= Len(Resource)
  /\ \A i \in 1 .. Len(data) : data[i] = Resource[i]
  /\ latest \in [sequence : 0 .. MaxCalls, offset : ChunkOffsets \union {0}]
\* The page's numbers: one is used up by a chunk that was acknowledged, and by a call at most.
ChunkPage ==
  /\ number \in 1 .. MaxCalls + 1 /\ exchanges \in 0 .. MaxCalls /\ number - 1 <= exchanges
  /\ chunk # Chunks!NoOffset => number <= exchanges
  /\ chunk \in ChunkOffsets \union {Chunks!NoOffset} /\ attempt \in 0 .. Tries - 1
  /\ sent \in BOOLEAN /\ online \in BOOLEAN
ChunkNet ==
  /\ requests \in Seq(ChunkAsks) /\ strays \subseteq ChunkAsks
  /\ replies \in Seq(ChunkTells(Len(data))) /\ Len(replies) <= QueuedReplies
ChunkAcked ==
  /\ DOMAIN acked \subseteq ChunkOffsets
  /\ \A o \in DOMAIN acked : acked[o] = Resource[o + 1] /\ (upward => o < Len(data))
ChunkInv == ChunkServer /\ ChunkPage /\ ChunkNet /\ ChunkAcked

LEMMA ChunkSource == Resource \in Seq(ChunkValues) /\ Len(Resource) \in Nat /\ Tries \in Nat \ {0} /\ MaxCalls \in Nat /\ QueuedReplies \in Nat
BY ResourceAssumption DEF ChunkValues

LEMMA ChunkPlaces ==
  ASSUME NEW o \in ChunkOffsets
  PROVE  o \in Nat /\ o < Len(Resource) /\ o + 1 \in 1 .. Len(Resource) /\ Resource[o + 1] \in ChunkValues
<1>1. Len(Resource) \in Nat /\ DOMAIN Resource = 1 .. Len(Resource)
  BY ChunkSource
<1>2. o \in Nat /\ o < Len(Resource) /\ o + 1 \in 1 .. Len(Resource)
  BY <1>1 DEF ChunkOffsets
<1> QED BY <1>1, <1>2 DEF ChunkValues

\* What was said of fewer chunks stays true.
LEMMA ChunkMore ==
  ASSUME NEW n \in Nat, NEW k \in Nat, n <= k, NEW q \in Seq(ChunkTells(n))
  PROVE  q \in Seq(ChunkTells(k))
<1>1. ChunkTells(n) \subseteq ChunkTells(k)
  <2> SUFFICES ASSUME NEW x \in ChunkTells(n) PROVE x \in ChunkTells(k)
    OBVIOUS
  <2>1. x \in [sequence : 1 .. MaxCalls, offset : ChunkOffsets, code : {"ok", "TRANSFER_NOT_FOUND", "INVALID_ARGUMENT"}, value : ChunkValues]
    BY DEF ChunkTells
  <2>2. x.offset \in Nat
    BY <2>1, ChunkPlaces
  <2>3. x.code = "ok" => x.value = Resource[x.offset + 1] /\ (upward => x.offset < n)
    BY DEF ChunkTells
  <2>4. x.offset < n => x.offset < k
    BY <2>2
  <2> QED BY <2>1, <2>3, <2>4 DEF ChunkTells
<1> QED BY <1>1, SeqMonotonic

\* One exchange: the chunk is put at its place or not at all, and the answer is true of what is there then.
LEMMA ChunkExchange ==
  ASSUME ChunkServer, NEW m \in ChunkAsks, Chunks!Exchange(m), upward' = upward
  PROVE  /\ ChunkServer' /\ Len(data') \in Nat /\ Len(data) <= Len(data')
         /\ Chunks!Answer(m) \in ChunkTells(Len(data))'
<1> DEFINE n == m.offset
<1>1. /\ m \in [sequence : 1 .. MaxCalls, offset : ChunkOffsets, value : ChunkValues]
      /\ m.value = Resource[n + 1]
  BY DEF ChunkAsks
<1>2. n \in Nat /\ n < Len(Resource) /\ n + 1 \in 1 .. Len(Resource) /\ Resource[n + 1] \in ChunkValues
  BY <1>1, ChunkPlaces
<1>3. Len(data) \in Nat /\ Len(Resource) \in Nat
  BY ChunkSource DEF ChunkServer
<1>4. CASE ~Chunks!Accepts(m)
  <2>1. data' = data /\ latest' = latest /\ state' = state
    BY <1>4 DEF Chunks!Exchange, Chunks!serverVars
  <2>2. ChunkServer'
    BY <2>1 DEF ChunkServer
  <2>3. 1 \in DOMAIN Resource
    BY <1>2, <1>3, ChunkSource
  <2>4. \E code \in {"TRANSFER_NOT_FOUND", "INVALID_ARGUMENT"} : Chunks!Answer(m) = Chunks!Reply(m, code, Resource[1])
    BY <1>4 DEF Chunks!Answer
  <2>5. Resource[1] \in ChunkValues
    BY <2>3 DEF ChunkValues
  <2>6. Chunks!Answer(m) \in ChunkTells(Len(data))'
    <3>1. PICK code \in {"TRANSFER_NOT_FOUND", "INVALID_ARGUMENT"} : Chunks!Answer(m) = Chunks!Reply(m, code, Resource[1])
      BY <2>4
    <3>2. code # "ok"
      OBVIOUS
    <3>3. PICK v \in ChunkValues : v = Resource[1]
      BY <2>5
    <3> QED BY <1>1, <3>1, <3>2, <3>3 DEF ChunkTells, Chunks!Reply
  <2> QED BY <1>3, <2>1, <2>2, <2>6
<1>5. CASE Chunks!Accepts(m)
  <2>1. /\ data' = IF upward /\ ~Chunks!Again(m) THEN Append(data, m.value) ELSE data
        /\ latest' = [sequence |-> m.sequence, offset |-> m.offset]
        /\ state' = state
    BY <1>5 DEF Chunks!Exchange
  <2>2. Chunks!Again(m) \/ Chunks!Expected(m)
    BY <1>5 DEF Chunks!Accepts
  <2>3. latest' \in [sequence : 0 .. MaxCalls, offset : ChunkOffsets \union {0}]
    <3>1. m.sequence \in 0 .. MaxCalls /\ m.offset \in ChunkOffsets
      BY <1>1, ChunkSource
    <3> QED BY <2>1, <3>1
  <2>4. /\ data' \in Seq(ChunkValues) /\ Len(data') <= Len(Resource) /\ Len(data) <= Len(data') /\ Len(data') \in Nat
        /\ \A i \in 1 .. Len(data') : data'[i] = Resource[i]
        /\ upward => n < Len(data')
    <3>1. CASE upward /\ ~Chunks!Again(m)
      <4>1. data' = Append(data, Resource[n + 1]) /\ n = Len(data)
        BY <1>1, <2>1, <2>2, <3>1 DEF Chunks!Expected
      <4>2. data \in Seq(ChunkValues) /\ \A i \in 1 .. Len(data) : data[i] = Resource[i]
        BY DEF ChunkServer
      <4>3. /\ data' \in Seq(ChunkValues) /\ Len(data') = Len(data) + 1
            /\ \A i \in 1 .. Len(data) : data'[i] = data[i]
            /\ data'[Len(data) + 1] = Resource[n + 1]
        BY <1>2, <4>1, <4>2, AppendProperties
      <4>4. \A i \in 1 .. Len(data') : i \in 1 .. Len(data) \/ i = Len(data) + 1
        BY <1>3, <4>3
      <4>5. Len(data') <= Len(Resource) /\ Len(data) <= Len(data') /\ Len(data') \in Nat /\ n < Len(data')
        BY <1>2, <1>3, <4>1, <4>3
      <4> QED BY <4>1, <4>2, <4>3, <4>4, <4>5
    <3>2. CASE ~(upward /\ ~Chunks!Again(m))
      <4>1. data' = data
        BY <2>1, <3>2
      <4>2. upward => n < Len(data)
        BY <3>2 DEF Chunks!Again
      <4> QED BY <1>3, <4>1, <4>2 DEF ChunkServer
    <3> QED BY <3>1, <3>2
  <2>5. ChunkServer'
    <3>1. upward' \in BOOLEAN /\ state' \in {"open", "sealed", "closed", "expired"}
      BY <2>1 DEF ChunkServer
    <3> QED BY <2>3, <2>4, <3>1 DEF ChunkServer
  <2>6. Chunks!Answer(m) \in ChunkTells(Len(data))'
    <3>1. Chunks!Answer(m) = Chunks!Reply(m, "ok", Resource[n + 1])
      BY <1>5 DEF Chunks!Answer
    <3>2. PICK v \in ChunkValues : v = Resource[n + 1]
      BY <1>2
    <3>3. upward' => n < Len(data')
      BY <2>4
    <3>4. Chunks!Answer(m) = [sequence |-> m.sequence, offset |-> m.offset, code |-> "ok", value |-> v]
      BY <3>1, <3>2 DEF Chunks!Reply
    <3> QED BY <1>1, <3>2, <3>3, <3>4 DEF ChunkTells
  <2> QED BY <2>4, <2>5, <2>6
<1> QED BY <1>4, <1>5


\* What the page holds as exchanged stays so as the transfer grows.
LEMMA ChunkKept ==
  ASSUME ChunkAcked, upward' = upward, acked' = acked, Len(data) \in Nat, Len(data') \in Nat, Len(data) <= Len(data')
  PROVE  ChunkAcked'
<1> SUFFICES ASSUME NEW o \in DOMAIN acked, upward PROVE o < Len(data')
  BY DEF ChunkAcked
<1>1. o \in Nat /\ o < Len(data)
  BY ChunkPlaces DEF ChunkAcked
<1> QED BY <1>1

LEMMA ChunkServes == ASSUME ChunkInv, Chunks!Serve PROVE ChunkInv'
<1>1. /\ requests # <<>> /\ online
      /\ upward' = upward /\ number' = number /\ chunk' = chunk /\ attempt' = attempt /\ acked' = acked /\ exchanges' = exchanges
  BY DEF Chunks!Serve
<1>2. CASE Len(replies) >= QueuedReplies
  <2>1. /\ online' = FALSE /\ requests' = <<>> /\ replies' = <<>> /\ sent' = FALSE /\ strays' = strays
        /\ data' = data /\ latest' = latest /\ state' = state
    BY <1>2 DEF Chunks!Serve, Chunks!Break, Chunks!serverVars
  <2>2. ChunkServer' /\ ChunkAcked'
    BY <1>1, <2>1 DEF ChunkInv, ChunkServer, ChunkAcked
  <2>3. ChunkPage'
    BY <1>1, <2>1 DEF ChunkInv, ChunkPage
  <2>4. ChunkNet'
    <3>1. requests' \in Seq(ChunkAsks) /\ replies' \in Seq(ChunkTells(Len(data))') /\ Len(replies') = 0
      BY <2>1
    <3> QED BY <2>1, <3>1, ChunkSource DEF ChunkInv, ChunkNet
  <2> QED BY <2>2, <2>3, <2>4 DEF ChunkInv
<1>3. CASE ~(Len(replies) >= QueuedReplies)
  <2>1. PICK m : m = Head(requests)
    OBVIOUS
  <2>2. /\ Chunks!Exchange(m) /\ replies' = Append(replies, Chunks!Answer(m)) /\ requests' = Tail(requests)
        /\ online' = online /\ strays' = strays /\ sent' = sent
    BY <1>3, <2>1 DEF Chunks!Serve
  <2>3. m \in ChunkAsks /\ requests' \in Seq(ChunkAsks)
    <3>1. requests \in Seq(ChunkAsks)
      BY DEF ChunkInv, ChunkNet
    <3> QED BY <1>1, <2>1, <2>2, <3>1, HeadTailProperties
  <2>4. PICK x : x = Chunks!Answer(m)
    OBVIOUS
  <2>5. ChunkServer' /\ Len(data') \in Nat /\ Len(data) <= Len(data') /\ x \in ChunkTells(Len(data))'
    BY <1>1, <2>2, <2>3, <2>4, ChunkExchange DEF ChunkInv
  <2>6. Len(data) \in Nat
    BY DEF ChunkInv, ChunkServer
  <2>7. ChunkAcked'
    BY <1>1, <2>5, <2>6, ChunkKept DEF ChunkInv
  <2>8. ChunkPage'
    BY <1>1, <2>2 DEF ChunkInv, ChunkPage
  <2>9. replies \in Seq(ChunkTells(Len(data'))) /\ Len(replies) \in Nat /\ Len(replies) <= QueuedReplies
    <3>1. replies \in Seq(ChunkTells(Len(data))) /\ Len(replies) <= QueuedReplies
      BY DEF ChunkInv, ChunkNet
    <3>2. PICK a, b : a = Len(data) /\ b = Len(data')
      OBVIOUS
    <3>3. replies \in Seq(ChunkTells(b))
      BY <2>5, <2>6, <3>1, <3>2, ChunkMore
    <3> QED BY <3>1, <3>2, <3>3
  <2>10. x \in ChunkTells(Len(data'))
    BY <1>1, <2>5 DEF ChunkTells
  <2>11. ChunkNet'
    <3>1. replies' \in Seq(ChunkTells(Len(data'))) /\ Len(replies') = Len(replies) + 1
      BY <2>2, <2>4, <2>9, <2>10, AppendProperties
    <3>2. Len(replies') <= QueuedReplies
      BY <1>3, <2>9, <3>1, ChunkSource
    <3>3. ChunkTells(Len(data'))  = ChunkTells(Len(data))'
      BY <1>1 DEF ChunkTells
    <3> QED BY <2>2, <2>3, <3>1, <3>2, <3>3 DEF ChunkInv, ChunkNet
  <2> QED BY <2>5, <2>7, <2>8, <2>11 DEF ChunkInv
<1> QED BY <1>2, <1>3

LEMMA ChunkStray == ASSUME ChunkInv, Chunks!ServeStray PROVE ChunkInv'
<1>1. PICK m \in strays : Chunks!Exchange(m) /\ strays' = strays \ {m}
  BY DEF Chunks!ServeStray
<1>2. /\ upward' = upward /\ number' = number /\ chunk' = chunk /\ attempt' = attempt /\ sent' = sent /\ acked' = acked
      /\ exchanges' = exchanges /\ online' = online /\ requests' = requests /\ replies' = replies
  BY DEF Chunks!ServeStray, Chunks!pageVars
<1>3. m \in ChunkAsks
  BY DEF ChunkInv, ChunkNet
<1>4. ChunkServer' /\ Len(data') \in Nat /\ Len(data) <= Len(data')
  BY <1>1, <1>2, <1>3, ChunkExchange DEF ChunkInv
<1>5. Len(data) \in Nat
  BY DEF ChunkInv, ChunkServer
<1>6. ChunkAcked'
  BY <1>2, <1>4, <1>5, ChunkKept DEF ChunkInv
<1>7. ChunkPage'
  BY <1>2 DEF ChunkInv, ChunkPage
<1>8. ChunkNet'
  <2>1. PICK a, b : a = Len(data) /\ b = Len(data')
    OBVIOUS
  <2>2. replies \in Seq(ChunkTells(a))
    BY <2>1 DEF ChunkInv, ChunkNet
  <2>3. replies \in Seq(ChunkTells(b))
    BY <1>4, <1>5, <2>1, <2>2, ChunkMore
  <2>4. ChunkTells(b) = ChunkTells(Len(data))'
    BY <1>2, <2>1 DEF ChunkTells
  <2>5. replies' \in Seq(ChunkTells(Len(data))')
    BY <1>2, <2>3, <2>4
  <2> QED BY <1>1, <1>2, <2>5 DEF ChunkInv, ChunkNet
<1> QED BY <1>4, <1>6, <1>7, <1>8 DEF ChunkInv

\* The transfer is sealed, closed or forgotten.
LEMMA ChunkEnds ==
  ASSUME ChunkInv, Chunks!Seal \/ \E how \in {"closed", "expired"} : Chunks!End(how)
  PROVE  ChunkInv'
<1>1. /\ state' \in {"sealed", "closed", "expired"} /\ upward' = upward /\ data' = data /\ latest' = latest
      /\ UNCHANGED Chunks!pageVars /\ UNCHANGED Chunks!netVars
  BY DEF Chunks!Seal, Chunks!End
<1>2. /\ number' = number /\ chunk' = chunk /\ attempt' = attempt /\ sent' = sent /\ acked' = acked /\ exchanges' = exchanges
      /\ online' = online /\ requests' = requests /\ replies' = replies /\ strays' = strays
  BY <1>1 DEF Chunks!pageVars, Chunks!netVars
<1>3. ChunkServer'
  BY <1>1 DEF ChunkInv, ChunkServer
<1>4. ChunkPage'
  BY <1>2 DEF ChunkInv, ChunkPage
<1>5. ChunkNet' /\ ChunkAcked'
  BY <1>1, <1>2 DEF ChunkInv, ChunkNet, ChunkAcked, ChunkTells
<1> QED BY <1>3, <1>4, <1>5 DEF ChunkInv

\* The steps of the page leave the transfer alone.
ChunkSame == upward' = upward /\ data' = data /\ latest' = latest /\ state' = state
LEMMA ChunkAside ==
  ASSUME ChunkInv, ChunkSame
  PROVE  /\ ChunkServer' /\ ChunkTells(Len(data))' = ChunkTells(Len(data))
         /\ (acked' = acked => ChunkAcked') 
         /\ (requests' = requests /\ replies' = replies /\ strays' = strays => ChunkNet')
<1>1. ChunkServer'
  BY DEF ChunkInv, ChunkServer, ChunkSame
<1>2. ChunkTells(Len(data))' = ChunkTells(Len(data))
  BY DEF ChunkSame, ChunkTells
<1>3. acked' = acked => ChunkAcked'
  BY DEF ChunkInv, ChunkAcked, ChunkSame
<1>4. requests' = requests /\ replies' = replies /\ strays' = strays => ChunkNet'
  BY <1>2 DEF ChunkInv, ChunkNet
<1> QED BY <1>1, <1>2, <1>3, <1>4

LEMMA ChunkBegins == ASSUME ChunkInv, NEW o \in ChunkOffsets, Chunks!Begin(o) PROVE ChunkInv'
<1>1. /\ exchanges < MaxCalls /\ chunk' = o /\ attempt' = 0 /\ sent' = FALSE /\ exchanges' = exchanges + 1
      /\ upward' = upward /\ number' = number /\ acked' = acked
      /\ data' = data /\ latest' = latest /\ state' = state
      /\ online' = online /\ requests' = requests /\ replies' = replies /\ strays' = strays
  BY DEF Chunks!Begin, Chunks!serverVars, Chunks!netVars
<1>2. ChunkPage'
  <2>1. number \in 1 .. MaxCalls + 1 /\ exchanges \in 0 .. MaxCalls /\ number - 1 <= exchanges /\ online \in BOOLEAN
    BY DEF ChunkInv, ChunkPage
  <2>2. exchanges' \in 0 .. MaxCalls /\ number' - 1 <= exchanges' /\ number' <= exchanges' /\ 0 \in 0 .. Tries - 1
    BY <1>1, <2>1, ChunkSource
  <2> QED BY <1>1, <2>1, <2>2 DEF ChunkPage
<1> QED BY <1>1, <1>2, ChunkAside DEF ChunkInv, ChunkSame

LEMMA ChunkConnects == ASSUME ChunkInv, Chunks!Connect PROVE ChunkInv'
<1>1. /\ online' = TRUE /\ upward' = upward /\ data' = data /\ latest' = latest /\ state' = state
      /\ number' = number /\ chunk' = chunk /\ attempt' = attempt /\ sent' = sent /\ acked' = acked /\ exchanges' = exchanges
      /\ requests' = requests /\ replies' = replies /\ strays' = strays
  BY DEF Chunks!Connect, Chunks!serverVars, Chunks!pageVars
<1>2. ChunkPage'
  BY <1>1 DEF ChunkInv, ChunkPage
<1> QED BY <1>1, <1>2, ChunkAside DEF ChunkInv, ChunkSame

LEMMA ChunkSends == ASSUME ChunkInv, Chunks!Send PROVE ChunkInv'
<1>1. /\ chunk # Chunks!NoOffset /\ sent' = TRUE /\ requests' = Append(requests, Chunks!Request(chunk))
      /\ upward' = upward /\ data' = data /\ latest' = latest /\ state' = state
      /\ number' = number /\ chunk' = chunk /\ attempt' = attempt /\ acked' = acked /\ exchanges' = exchanges
      /\ online' = online /\ replies' = replies /\ strays' = strays
  BY DEF Chunks!Send, Chunks!serverVars
<1>2. ChunkPage'
  BY <1>1 DEF ChunkInv, ChunkPage
<1>3. chunk \in ChunkOffsets /\ number \in 1 .. MaxCalls
  <2>1. number \in 1 .. MaxCalls + 1 /\ exchanges \in 0 .. MaxCalls /\ number <= exchanges /\ chunk \in ChunkOffsets
    BY <1>1 DEF ChunkInv, ChunkPage
  <2> QED BY <2>1, ChunkSource
<1>4. Chunks!Request(chunk) \in ChunkAsks
  <2>1. PICK v \in ChunkValues : v = Resource[chunk + 1]
    BY <1>3, ChunkPlaces
  <2> QED BY <1>3, <2>1 DEF Chunks!Request, ChunkAsks
<1>5. ChunkNet'
  <2>1. requests' \in Seq(ChunkAsks)
    BY <1>1, <1>4, AppendProperties DEF ChunkInv, ChunkNet
  <2> QED BY <1>1, <2>1, ChunkAside DEF ChunkInv, ChunkNet, ChunkSame
<1> QED BY <1>1, <1>2, <1>5, ChunkAside DEF ChunkInv, ChunkSame

\* An attempt that fails leaves the page with a chunk it may send, or with none.
LEMMA ChunkFails ==
  ASSUME ChunkPage, Chunks!Failed, online' \in BOOLEAN, number' = number, exchanges' = exchanges
  PROVE  ChunkPage'
<1>1. attempt \in 0 .. Tries - 1 /\ Tries \in Nat
  BY ChunkSource DEF ChunkPage
<1>2. CASE attempt + 1 < Tries
  <2>1. sent' = FALSE /\ attempt' = attempt + 1 /\ chunk' = chunk
    BY <1>2 DEF Chunks!Failed
  <2>2. attempt' \in 0 .. Tries - 1
    BY <1>1, <1>2, <2>1
  <2> QED BY <2>1, <2>2 DEF ChunkPage
<1>3. CASE ~(attempt + 1 < Tries)
  <2>1. sent' = FALSE /\ attempt' = 0 /\ chunk' = Chunks!NoOffset
    BY <1>3 DEF Chunks!Failed
  <2>2. attempt' \in 0 .. Tries - 1
    BY <2>1, ChunkSource
  <2> QED BY <2>1, <2>2 DEF ChunkPage
<1> QED BY <1>2, <1>3

LEMMA ChunkWaits == ASSUME ChunkInv, Chunks!Timeout PROVE ChunkInv'
<1>1. /\ Chunks!Failed /\ upward' = upward /\ data' = data /\ latest' = latest /\ state' = state
      /\ number' = number /\ acked' = acked /\ exchanges' = exchanges
      /\ online' = online /\ requests' = requests /\ replies' = replies /\ strays' = strays
  BY DEF Chunks!Timeout, Chunks!serverVars, Chunks!netVars
<1>2. ChunkPage'
  <2>1. ChunkPage /\ online' \in BOOLEAN
    BY <1>1 DEF ChunkInv, ChunkPage
  <2> QED BY <1>1, <2>1, ChunkFails
<1> QED BY <1>1, <1>2, ChunkAside DEF ChunkInv, ChunkSame

LEMMA ChunkLoses == ASSUME ChunkInv, Chunks!Lose PROVE ChunkInv'
<1>1. /\ online' = FALSE /\ requests' = <<>> /\ replies' = <<>> /\ strays' = strays \cup Chunks!Range(requests)
      /\ upward' = upward /\ data' = data /\ latest' = latest /\ state' = state
      /\ number' = number /\ acked' = acked /\ exchanges' = exchanges
  BY DEF Chunks!Lose, Chunks!Break, Chunks!serverVars
<1>2. Chunks!Failed \/ (attempt' = attempt /\ chunk' = chunk /\ sent' = sent)
  BY DEF Chunks!Lose
<1>3. ChunkPage'
  <2>1. CASE Chunks!Failed
    BY <1>1, <2>1, ChunkFails DEF ChunkInv
  <2>2. CASE attempt' = attempt /\ chunk' = chunk /\ sent' = sent
    BY <1>1, <2>2 DEF ChunkInv, ChunkPage
  <2> QED BY <1>2, <2>1, <2>2
<1>4. ChunkNet'
  <2>1. requests \in Seq(ChunkAsks) /\ strays \subseteq ChunkAsks
    BY DEF ChunkInv, ChunkNet
  <2>2. Chunks!Range(requests) \subseteq ChunkAsks
    <3>1. \A i \in DOMAIN requests : requests[i] \in ChunkAsks
      BY <2>1
    <3> QED BY <3>1 DEF Chunks!Range
  <2>3. requests' \in Seq(ChunkAsks) /\ replies' \in Seq(ChunkTells(Len(data))') /\ Len(replies') = 0
    BY <1>1
  <2> QED BY <1>1, <2>1, <2>2, <2>3, ChunkSource DEF ChunkNet
<1> QED BY <1>1, <1>3, <1>4, ChunkAside DEF ChunkInv, ChunkSame

LEMMA ChunkReceives == ASSUME ChunkInv, Chunks!Receive PROVE ChunkInv'
<1>1. PICK x : x = Head(replies)
  OBVIOUS
<1>2. /\ replies # <<>> /\ replies' = Tail(replies)
      /\ upward' = upward /\ data' = data /\ latest' = latest /\ state' = state /\ attempt' = attempt /\ exchanges' = exchanges
      /\ online' = online /\ requests' = requests /\ strays' = strays
  BY DEF Chunks!Receive, Chunks!serverVars
<1>3. x \in ChunkTells(Len(data)) /\ ChunkNet'
  <2>1. replies \in Seq(ChunkTells(Len(data))) /\ Len(replies) <= QueuedReplies
    BY DEF ChunkInv, ChunkNet
  <2>2. /\ x \in ChunkTells(Len(data)) /\ replies' \in Seq(ChunkTells(Len(data)))
        /\ Len(replies) \in Nat /\ Len(replies') = Len(replies) - 1
    BY <1>1, <1>2, <2>1, HeadTailProperties
  <2>3. Len(replies') <= QueuedReplies
    BY <2>1, <2>2, ChunkSource
  <2>4. replies' \in Seq(ChunkTells(Len(data))')
    BY <1>2, <2>2, ChunkAside DEF ChunkSame
  <2> QED BY <1>2, <2>2, <2>3, <2>4 DEF ChunkInv, ChunkNet
<1>4. \/ number' = number /\ chunk' = chunk /\ sent' = sent /\ acked' = acked
      \/ /\ ~Chunks!Late(x) /\ Chunks!Matches(x) /\ x.code = "ok" /\ number' = number + 1 /\ chunk' = Chunks!NoOffset /\ sent' = FALSE
         /\ acked' = [o \in DOMAIN acked \cup {chunk} |-> IF o = chunk THEN x.value ELSE acked[o]]
      \/ chunk' = Chunks!NoOffset /\ sent' = FALSE /\ number' = number /\ acked' = acked
  <2>1. CASE Chunks!Late(x)
    BY <1>1, <2>1 DEF Chunks!Receive
  <2>2. CASE ~Chunks!Late(x) /\ Chunks!Matches(x) /\ x.code = "ok"
    BY <1>1, <2>2 DEF Chunks!Receive
  <2>3. CASE ~Chunks!Late(x) /\ ~(Chunks!Matches(x) /\ x.code = "ok")
    BY <1>1, <2>3 DEF Chunks!Receive
  <2> QED BY <2>1, <2>2, <2>3
<1>5. CASE number' = number /\ chunk' = chunk /\ sent' = sent /\ acked' = acked
  <2>1. ChunkPage'
    BY <1>2, <1>5 DEF ChunkInv, ChunkPage
  <2> QED BY <1>2, <1>3, <1>5, <2>1, ChunkAside DEF ChunkInv, ChunkSame
<1>6. CASE chunk' = Chunks!NoOffset /\ sent' = FALSE /\ number' = number /\ acked' = acked
  <2>1. ChunkPage'
    BY <1>2, <1>6 DEF ChunkInv, ChunkPage
  <2> QED BY <1>2, <1>3, <1>6, <2>1, ChunkAside DEF ChunkInv, ChunkSame
<1>7. CASE /\ ~Chunks!Late(x) /\ Chunks!Matches(x) /\ x.code = "ok" /\ number' = number + 1 /\ chunk' = Chunks!NoOffset /\ sent' = FALSE
           /\ acked' = [o \in DOMAIN acked \cup {chunk} |-> IF o = chunk THEN x.value ELSE acked[o]]
  <2>1. chunk # Chunks!NoOffset /\ x.offset = chunk
    BY <1>7 DEF Chunks!Late, Chunks!Matches
  <2>2. ChunkPage'
    <3>1. number \in 1 .. MaxCalls + 1 /\ exchanges \in 0 .. MaxCalls /\ number <= exchanges /\ online \in BOOLEAN /\ attempt \in 0 .. Tries - 1
      BY <2>1 DEF ChunkInv, ChunkPage
    <3>2. number' \in 1 .. MaxCalls + 1 /\ number' - 1 <= exchanges
      BY <1>7, <3>1, ChunkSource
    <3> QED BY <1>2, <1>7, <3>1, <3>2 DEF ChunkPage
  <2>3. chunk \in ChunkOffsets
    BY <2>1 DEF ChunkInv, ChunkPage
  <2>4. x.value = Resource[chunk + 1] /\ (upward => chunk < Len(data))
    BY <1>3, <1>7, <2>1 DEF ChunkTells
  <2>5. ChunkAcked'
    <3>1. ChunkAcked
      BY DEF ChunkInv
    <3>2. DOMAIN acked' = DOMAIN acked \cup {chunk}
      BY <1>7
    <3>3. \A o \in DOMAIN acked' : acked'[o] = IF o = chunk THEN x.value ELSE acked[o]
      BY <1>7
    <3> QED BY <1>2, <2>3, <2>4, <3>1, <3>2, <3>3 DEF ChunkAcked
  <2> QED BY <1>2, <1>3, <2>2, <2>5, ChunkAside DEF ChunkInv, ChunkSame
<1> QED BY <1>4, <1>5, <1>6, <1>7

LEMMA ChunkNext == ASSUME ChunkInv, Chunks!Next \/ UNCHANGED chunkVars PROVE ChunkInv'
<1>1. CASE UNCHANGED chunkVars
  <2>1. /\ upward' = upward /\ data' = data /\ latest' = latest /\ state' = state /\ number' = number /\ chunk' = chunk
        /\ attempt' = attempt /\ sent' = sent /\ online' = online /\ exchanges' = exchanges
    BY <1>1 DEF chunkVars
  <2>2. requests' = requests /\ replies' = replies /\ strays' = strays /\ acked' = acked
    BY <1>1 DEF chunkVars
  <2>3. ChunkPage'
    BY <2>1 DEF ChunkInv, ChunkPage
  <2> QED BY <2>1, <2>2, <2>3, ChunkAside DEF ChunkInv, ChunkSame
<1>2. CASE Chunks!Serve \/ Chunks!ServeStray \/ Chunks!Lose
  BY <1>2, ChunkServes, ChunkStray, ChunkLoses
<1>3. CASE Chunks!Seal \/ \E how \in {"closed", "expired"} : Chunks!End(how)
  BY <1>3, ChunkEnds
<1>4. CASE Chunks!Page
  <2>1. ASSUME NEW o \in ChunkOffsets, Chunks!Begin(o) PROVE ChunkInv'
    BY <2>1, ChunkBegins
  <2> QED BY <1>4, <2>1, ChunkConnects, ChunkSends, ChunkWaits, ChunkReceives DEF Chunks!Page, Chunks!total, ChunkOffsets
<1> QED BY <1>1, <1>2, <1>3, <1>4 DEF Chunks!Next

LEMMA ChunkInit == ASSUME Chunks!Init PROVE ChunkInv
<1>1. /\ upward \in BOOLEAN /\ data = <<>> /\ latest = [sequence |-> 0, offset |-> 0] /\ state = "open"
      /\ number = 1 /\ chunk = Chunks!NoOffset /\ attempt = 0 /\ sent = FALSE
      /\ online = FALSE /\ requests = <<>> /\ replies = <<>> /\ strays = {} /\ exchanges = 0
  BY DEF Chunks!Init, Chunks!Nobody
<1>2. acked = <<>>
  BY DEF Chunks!Init
<1>3. ChunkServer
  <2>1. data \in Seq(ChunkValues) /\ Len(data) = 0 /\ \A i \in 1 .. 0 : FALSE
    BY <1>1
  <2>2. latest \in [sequence : 0 .. MaxCalls, offset : ChunkOffsets \union {0}]
    BY <1>1, ChunkSource
  <2> QED BY <1>1, <2>1, <2>2, ChunkSource DEF ChunkServer
<1>4. ChunkPage
  <2>1. number \in 1 .. MaxCalls + 1 /\ exchanges \in 0 .. MaxCalls /\ number - 1 <= exchanges /\ attempt \in 0 .. Tries - 1
    BY <1>1, ChunkSource
  <2> QED BY <1>1, <2>1 DEF ChunkPage
<1>5. ChunkNet
  <2>1. requests \in Seq(ChunkAsks) /\ replies \in Seq(ChunkTells(Len(data))) /\ Len(replies) = 0
    BY <1>1
  <2> QED BY <1>1, <2>1, ChunkSource DEF ChunkNet
<1>6. DOMAIN acked = {}
  BY <1>2
<1> QED BY <1>3, <1>4, <1>5, <1>6 DEF ChunkInv, ChunkAcked

LEMMA ChunkSuffices == ASSUME ChunkInv PROVE Chunks!TypeOK /\ Chunks!ChunksInPlace
<1>1. Chunks!IsPrefix(data, Resource)
  <2>1. /\ data \in Seq(ChunkValues) /\ Len(data) <= Len(Resource) /\ Len(data) \in Nat
        /\ \A i \in 1 .. Len(data) : data[i] = Resource[i]
    BY DEF ChunkInv, ChunkServer
  <2>2. SubSeq(data, 1, Len(data)) = SubSeq(Resource, 1, Len(data))
    BY <2>1, ChunkSource
  <2> QED BY <2>1, <2>2 DEF Chunks!IsPrefix
<1>2. Chunks!ChunksInPlace
  BY <1>1 DEF Chunks!ChunksInPlace, ChunkInv, ChunkAcked
<1>3. Chunks!Offsets = ChunkOffsets /\ Chunks!Range(Resource) = ChunkValues /\ Chunks!total = Len(Resource)
  BY DEF Chunks!Offsets, Chunks!total, Chunks!Range, ChunkOffsets, ChunkValues
<1>4. ChunkAsks \subseteq Chunks!Requested
  BY <1>3 DEF ChunkAsks, Chunks!Requested
<1>5. requests \in Seq(Chunks!Requested) /\ strays \subseteq Chunks!Requested
  BY <1>4, SeqMonotonic DEF ChunkInv, ChunkNet
<1>6. \A i \in DOMAIN replies : replies[i].offset \in ChunkOffsets /\ replies[i].sequence \in 1 .. MaxCalls
  <2>1. replies \in Seq(ChunkTells(Len(data)))
    BY DEF ChunkInv, ChunkNet
  <2>2. \A i \in DOMAIN replies : replies[i] \in ChunkTells(Len(data))
    BY <2>1
  <2> QED BY <2>2 DEF ChunkTells
<1>7. latest.sequence \in 0 .. MaxCalls /\ latest.offset \in ChunkOffsets \union {0}
  BY DEF ChunkInv, ChunkServer
<1> QED BY <1>2, <1>3, <1>5, <1>6, <1>7 DEF Chunks!TypeOK, ChunkInv, ChunkServer, ChunkPage, ChunkNet, ChunkAcked

-----------------------------------------------------------------------------
(* Tickets and connections (StreamTransport), for the constants of r.       *)

LinePackets(r) == 1 .. r.published
LineMessages(r) == {<<"ack">>, <<"request">>, <<"gone">>}
                   \cup {<<"get", t, o>> : t \in r.tokens, o \in r.owners \cup r.sessions}
LineClients(r) == [token : r.tokens \cup {"no token"}, target : r.streams \cup r.transfers \cup {"none"},
                   output : 0 .. r.published + 3, waiting : Seq(0 .. r.published + 2), upgraded : BOOLEAN,
                   inflight : BOOLEAN, closing : BOOLEAN, failed : BOOLEAN]
LineTickets(r) == [owner : r.owners \cup r.sessions, target : r.streams \cup r.transfers, connected : BOOLEAN, old : BOOLEAN]
LineSays(q, what) == \E i \in DOMAIN q : q[i] = <<what>>
LineRising(q) == \A i, j \in DOMAIN q : i < j => q[i] < q[j]
LineIn(q) == {q[i] : i \in DOMAIN q}
\* A connection before its handshake: nothing has been sent, and the peer has nothing to answer.
LineQuiet(g, w, q) == g = <<>> /\ w = <<>> /\ ~LineSays(q, "ack") /\ ~LineSays(q, "request")
\* The packets a client has handled, has on the wire or has its socket busy with.
LinePast(r, k, g, w) == LineIn(g) \cup LineIn(w) \cup ({k.output} \cap LinePackets(r))
\* A client of a stream: one packet is under way at most, on its way out, on the wire or as its acknowledgement;
\* what waits comes after it.
LineStream(r, k, g, w, q) ==
  /\ ~LineSays(q, "request") /\ k.waiting \in Seq(LinePackets(r)) /\ LineRising(k.waiting)
  /\ w # <<>> => k.inflight
  /\ LineSays(q, "ack") => k.inflight /\ w = <<>>
  /\ k.output \in LinePackets(r) =>
       k.inflight /\ w = <<>> /\ ~LineSays(q, "ack") /\ \A x \in LineIn(g) : x < k.output
  /\ \A x \in LinePast(r, k, g, w), y \in LineIn(k.waiting) : x < y
\* A client of a transfer: replies alone wait for it.
LineTransfer(r, k, g, w, q) ==
  /\ g = <<>> /\ w = <<>> /\ ~LineSays(q, "ack") /\ k.output \notin LinePackets(r)
  /\ LineIn(k.waiting) \subseteq {r.published + 1}
LineClient(r, k, g, w, q) ==
  /\ k \in LineClients(r)
  /\ ~k.upgraded => k.token = "no token" /\ k.waiting = <<>> /\ ~k.inflight /\ k.output = r.published + 3 /\ LineQuiet(g, w, q)
  /\ k.upgraded =>
       /\ k.token \in r.tokens /\ k.target \in r.streams \cup r.transfers
       /\ k.target \in r.streams => LineStream(r, k, g, w, q)
       /\ k.target \in r.transfers => LineTransfer(r, k, g, w, q)
\* The packets of a stream that no client of it has been given yet.
LineComing(s) == LineIn(rings[s]) \cup {published[s] + 1}
LineAhead(r, k, g, w, Y) ==
  k.upgraded /\ k.target \in r.streams => \A x \in LinePast(r, k, g, w) \cup LineIn(k.waiting), y \in Y : x < y

LineHub(r) ==
  /\ DOMAIN tickets \subseteq issued /\ issued \subseteq r.tokens /\ ended \subseteq r.streams \cup r.transfers
  /\ \A t \in DOMAIN tickets : tickets[t] \in LineTickets(r)
LineThread(r) ==
  /\ DOMAIN clients \subseteq dialled /\ dialled \subseteq r.conns /\ DOMAIN clients \intersect hungUp = {}
  /\ phase \in {"accept", "distribute", "pump", "stopped"} /\ unserved \subseteq DOMAIN clients
  /\ serving # "none" => serving \in DOMAIN clients /\ clients[serving].upgraded
LineRings(r) ==
  /\ published \in [r.streams -> 0 .. r.published] /\ newest \in [r.streams -> 0 .. r.published]
  /\ rings \in [r.streams -> Seq(LinePackets(r))]
  /\ \A s \in r.streams : LineRising(rings[s]) /\ (\A x \in LineIn(rings[s]) : x <= published[s])
                          /\ \A y \in LineComing(s) : newest[s] < y
LineWires(r) ==
  /\ inbox \in [r.conns -> Seq(LineMessages(r))]
  /\ wire \in [r.conns -> Seq(LinePackets(r))] /\ landed \in [r.conns -> Seq(LinePackets(r))]
  /\ \A c \in r.conns :
       /\ LineRising(landed[c]) /\ Len(wire[c]) <= 1 /\ \A x \in LineIn(landed[c]), y \in LineIn(wire[c]) : x < y
       /\ c \notin DOMAIN clients \cup hungUp => LineQuiet(landed[c], wire[c], inbox[c])
LineHolds(r) ==
  /\ \A t \in DOMAIN tickets : tickets[t].connected => \E c \in DOMAIN clients : clients[c].token = t
  /\ \A c \in DOMAIN clients : clients[c].upgraded =>
       /\ clients[c].token \in issued
       /\ clients[c].token \in DOMAIN tickets => tickets[clients[c].token].connected
       /\ \A d \in DOMAIN clients : c # d => clients[c].token # clients[d].token
LineAll(r) == \A c \in DOMAIN clients :
  LineClient(r, clients[c], landed[c], wire[c], inbox[c]) /\ LineAhead(r, clients[c], landed[c], wire[c], LineComing(clients[c].target))
LineInv(r) == LineHub(r) /\ LineThread(r) /\ LineRings(r) /\ LineWires(r) /\ LineHolds(r) /\ LineAll(r)


LineRoom(r) ==
  /\ r.streams \intersect r.transfers = {} /\ "no token" \notin r.tokens /\ "none" \notin r.conns
  /\ r.ring \in Nat \ {0} /\ r.published \in Nat
LEMMA LineRooms == LineRoom(TwoPages) /\ LineRoom(TwoTickets)
BY SocketsAssumption DEF LineRoom

LEMMA LineNames ==
  ASSUME NEW r, LineRoom(r)
  PROVE  /\ Carried(r)!Client = LineClients(r) /\ Carried(r)!Ticket = LineTickets(r) /\ Carried(r)!Packets = LinePackets(r)
         /\ Carried(r)!Nothing = r.published + 3 /\ Carried(r)!Reply = r.published + 1 /\ Carried(r)!CloseFrame = r.published + 2
         /\ Carried(r)!Open = 0 /\ Carried(r)!Nobody = "none" /\ Carried(r)!NoToken = "no token"
         /\ Carried(r)!Targets = r.streams \cup r.transfers
<1>1. Carried(r)!Item \cup {r.published + 3} = 0 .. r.published + 3
  <2>1. PICK p \in Nat : p = r.published
    BY DEF LineRoom
  <2>2. Carried(r)!Item = 0 .. p + 2
    BY <2>1 DEF Carried!Item, Carried!Open, Carried!CloseFrame
  <2>3. (0 .. p + 2) \cup {p + 3} = 0 .. p + 3
    OBVIOUS
  <2> QED BY <2>1, <2>2, <2>3
<1>2. Carried(r)!Client = LineClients(r)
  BY <1>1 DEF Carried!Client, Carried!Item, Carried!Open, Carried!CloseFrame, Carried!Nothing, Carried!Nobody, Carried!NoToken,
     Carried!Targets, LineClients
<1> QED BY <1>2 DEF Carried!Ticket, Carried!Packets, Carried!Nothing, Carried!Reply, Carried!CloseFrame, Carried!Open,
     Carried!Nobody, Carried!NoToken, Carried!Targets, LineTickets, LinePackets

\* Sequences that rise.
LEMMA LineTail ==
  ASSUME NEW q \in Seq(Nat), q # <<>>, LineRising(q)
  PROVE  /\ Head(q) \in LineIn(q) /\ LineIn(Tail(q)) \subseteq LineIn(q) /\ LineIn(q) = {Head(q)} \cup LineIn(Tail(q))
         /\ LineRising(Tail(q)) /\ \A y \in LineIn(Tail(q)) : Head(q) < y
<1>1. /\ q[1] = Head(q) /\ 1 \in DOMAIN q /\ DOMAIN q = 1 .. Len(q) /\ Len(q) \in Nat
      /\ DOMAIN Tail(q) = 1 .. Len(q) - 1
      /\ \A i \in DOMAIN Tail(q) : i + 1 \in DOMAIN q /\ Tail(q)[i] = q[i + 1]
      /\ \A j \in DOMAIN q : j > 1 => j - 1 \in DOMAIN Tail(q) /\ Tail(q)[j - 1] = q[j]
  BY KeyTail
<1>2. Head(q) \in LineIn(q) /\ LineIn(Tail(q)) \subseteq LineIn(q)
  BY <1>1 DEF LineIn
<1>3. LineIn(q) \subseteq {Head(q)} \cup LineIn(Tail(q))
  <2> SUFFICES ASSUME NEW j \in DOMAIN q, j # 1 PROVE q[j] \in LineIn(Tail(q))
    BY <1>1 DEF LineIn
  <2>1. j > 1
    BY <1>1
  <2> QED BY <1>1, <2>1 DEF LineIn
<1>4. LineRising(Tail(q))
  <2> SUFFICES ASSUME NEW i \in DOMAIN Tail(q), NEW j \in DOMAIN Tail(q), i < j PROVE Tail(q)[i] < Tail(q)[j]
    BY DEF LineRising
  <2>1. i + 1 < j + 1
    BY <1>1
  <2> QED BY <1>1, <2>1 DEF LineRising
<1>5. ASSUME NEW y \in LineIn(Tail(q)) PROVE Head(q) < y
  <2>1. PICK i \in DOMAIN Tail(q) : y = Tail(q)[i]
    BY DEF LineIn
  <2>2. 1 < i + 1 /\ i + 1 \in DOMAIN q /\ y = q[i + 1]
    BY <1>1, <2>1
  <2> QED BY <1>1, <2>2 DEF LineRising
<1> QED BY <1>2, <1>3, <1>4, <1>5

LEMMA LineAppend ==
  ASSUME NEW S, NEW q \in Seq(S), NEW x \in S
  PROVE  /\ Append(q, x) \in Seq(S) /\ LineIn(Append(q, x)) = LineIn(q) \cup {x}
         /\ LineRising(q) /\ (\A y \in LineIn(q) : y < x) => LineRising(Append(q, x))
         /\ \A what : LineSays(Append(q, x), what) <=> LineSays(q, what) \/ x = <<what>>
<1>1. /\ Append(q, x) \in Seq(S) /\ DOMAIN q = 1 .. Len(q) /\ Len(q) \in Nat
      /\ Len(Append(q, x)) = Len(q) + 1 /\ Append(q, x)[Len(q) + 1] = x
      /\ \A i \in 1 .. Len(q) : Append(q, x)[i] = q[i]
  BY AppendProperties
<1>2. /\ DOMAIN Append(q, x) = 1 .. Len(q) + 1 /\ \A i \in 1 .. Len(q) + 1 : i \in 1 .. Len(q) \/ i = Len(q) + 1
      /\ Len(q) + 1 \in 1 .. Len(q) + 1 /\ \A i \in 1 .. Len(q) : i \in 1 .. Len(q) + 1
  BY <1>1
<1>3. LineIn(Append(q, x)) = LineIn(q) \cup {x}
  BY <1>1, <1>2 DEF LineIn
<1>4. ASSUME LineRising(q), \A y \in LineIn(q) : y < x PROVE LineRising(Append(q, x))
  <2> SUFFICES ASSUME NEW i \in 1 .. Len(q) + 1, NEW j \in 1 .. Len(q) + 1, i < j PROVE Append(q, x)[i] < Append(q, x)[j]
    BY <1>2 DEF LineRising
  <2>1. i \in 1 .. Len(q)
    BY <1>1
  <2>2. CASE j \in 1 .. Len(q)
    BY <1>1, <1>4, <2>1, <2>2 DEF LineRising
  <2>3. CASE j = Len(q) + 1
    <3>1. q[i] \in LineIn(q)
      BY <1>1, <2>1 DEF LineIn
    <3> QED BY <1>1, <1>4, <2>1, <2>3, <3>1
  <2> QED BY <1>2, <2>2, <2>3
<1>5. ASSUME NEW what PROVE LineSays(Append(q, x), what) <=> LineSays(q, what) \/ x = <<what>>
  BY <1>1, <1>2 DEF LineSays
<1> QED BY <1>1, <1>3, <1>4, <1>5

\* What reading the messages q may make of an upgraded client k.
LineReads(r, k, q) == {n \in LineClients(r) :
  /\ n.upgraded = k.upgraded /\ n.token = k.token /\ n.target = k.target /\ n.output = k.output
  /\ n.inflight => k.inflight
  /\ k.inflight => n.inflight \/ LineSays(q, "ack")
  /\ LineSays(q, "request") \/ n.waiting = k.waiting
  /\ LineIn(n.waiting) \subseteq LineIn(k.waiting) \cup {r.published + 1}}

LEMMA LineHandles ==
  ASSUME NEW r, LineRoom(r), NEW k, NEW q, NEW i \in DOMAIN q, NEW n \in LineReads(r, k, q)
  PROVE  Carried(r)!Handled(n, q[i]) \in LineReads(r, k, q)
<1>1. n \in LineClients(r)
  BY DEF LineReads
<1>2. r.published + 1 \in 0 .. r.published + 2 /\ Carried(r)!Reply = r.published + 1
  <2>1. PICK p \in Nat : p = r.published
    BY DEF LineRoom
  <2> QED BY <2>1 DEF Carried!Reply
<1>3. <<"ack">> # <<"request">>
  OBVIOUS
<1>4. CASE q[i] = <<"ack">>
  <2>1. LineSays(q, "ack")
    BY <1>4 DEF LineSays
  <2>2. Carried(r)!Handled(n, q[i]) = [n EXCEPT !.inflight = FALSE]
    BY <1>3, <1>4 DEF Carried!Handled
  <2>3. [n EXCEPT !.inflight = FALSE] \in LineClients(r)
    BY <1>1 DEF LineClients
  <2> QED BY <1>1, <2>1, <2>2, <2>3 DEF LineReads, LineClients
<1>5. [n EXCEPT !.failed = TRUE] \in LineReads(r, k, q)
  <2>1. [n EXCEPT !.failed = TRUE] \in LineClients(r)
    BY <1>1 DEF LineClients
  <2> QED BY <1>1, <2>1 DEF LineReads, LineClients
<1>6. CASE q[i] = <<"request">>
  <2>1. LineSays(q, "request")
    BY <1>6 DEF LineSays
  <2>2. CASE Len(n.waiting) >= r.replies
    BY <1>3, <1>5, <1>6, <2>2 DEF Carried!Handled
  <2>3. CASE ~(Len(n.waiting) >= r.replies)
    <3>1. Carried(r)!Handled(n, q[i]) = [n EXCEPT !.waiting = Append(@, r.published + 1)]
      BY <1>2, <1>3, <1>6, <2>3 DEF Carried!Handled
    <3>2. PICK a : a = Append(n.waiting, r.published + 1)
      OBVIOUS
    <3>3. n.waiting \in Seq(0 .. r.published + 2)
      BY <1>1 DEF LineClients
    <3>4. a \in Seq(0 .. r.published + 2) /\ LineIn(a) = LineIn(n.waiting) \cup {r.published + 1}
      <4>1. PICK S : S = 0 .. r.published + 2
        OBVIOUS
      <4>2. n.waiting \in Seq(S) /\ r.published + 1 \in S
        BY <1>2, <3>3, <4>1
      <4>3. Append(n.waiting, r.published + 1) \in Seq(S)
        BY <4>2, LineAppend
      <4>4. LineIn(Append(n.waiting, r.published + 1)) = LineIn(n.waiting) \cup {r.published + 1}
        BY <4>2, LineAppend
      <4> QED BY <3>2, <4>1, <4>3, <4>4
    <3>5. [n EXCEPT !.waiting = a] \in LineClients(r)
      BY <1>1, <3>4 DEF LineClients
    <3>6. [n EXCEPT !.waiting = a].waiting = a
      BY <1>1 DEF LineClients
    <3>7. [n EXCEPT !.waiting = a] \in LineReads(r, k, q)
      BY <1>1, <2>1, <3>4, <3>5, <3>6 DEF LineReads, LineClients
    <3> QED BY <3>1, <3>2, <3>7
  <2> QED BY <2>2, <2>3
<1>7. CASE q[i] # <<"ack">> /\ q[i] # <<"request">>
  BY <1>5, <1>7 DEF Carried!Handled
<1> QED BY <1>4, <1>6, <1>7

LEMMA LineRead ==
  ASSUME NEW r, LineRoom(r), NEW M, NEW q \in Seq(M), NEW k \in LineClients(r)
  PROVE  Carried(r)!Read(k, q) \in LineReads(r, k, q)
<1> DEFINE V == LineReads(r, k, q)
           body(n, i) == IF n.failed THEN n ELSE Carried(r)!Handled(n, q[i])
           step == [i \in 1 .. Len(q) |-> [n \in V |-> body(n, i)]]
           Steps(g) == g = [i \in 0 .. Len(q) |-> IF i = 0 THEN k ELSE IF g[i - 1].failed THEN g[i - 1]
                                                  ELSE Carried(r)!Handled(g[i - 1], q[i])]
<1>1. k \in V
  <2>1. LineIn(k.waiting) \subseteq LineIn(k.waiting) \cup {r.published + 1}
    OBVIOUS
  <2> QED BY <2>1 DEF LineReads
<1>2. \A i \in 1 .. Len(q), n \in V : body(n, i) \in V
  <2> SUFFICES ASSUME NEW i \in 1 .. Len(q), NEW n \in V PROVE body(n, i) \in V
    OBVIOUS
  <2>1. i \in DOMAIN q
    OBVIOUS
  <2>2. Carried(r)!Handled(n, q[i]) \in V
    BY <2>1, LineHandles
  <2> QED BY <2>2
<1> HIDE DEF V, body
<1>3. step \in [1 .. Len(q) -> [V -> V]]
  BY <1>2
<1>4. PICK f \in [0 .. Len(q) -> V] : f[0] = k /\ \A i \in 1 .. Len(q) : f[i] = step[i][f[i - 1]]
  <2>1. Len(q) \in Nat
    OBVIOUS
  <2> HIDE DEF step
  <2>2. \E f \in [0 .. Len(q) -> V] : Iterates(f, Len(q), k, step)
    BY <1>1, <1>3, <2>1, Recursion
  <2> QED BY <2>2 DEF Iterates
<1>5. \A i \in 1 .. Len(q) : f[i] = body(f[i - 1], i)
  <2> SUFFICES ASSUME NEW i \in 1 .. Len(q) PROVE f[i] = body(f[i - 1], i)
    OBVIOUS
  <2>1. i - 1 \in 0 .. Len(q)
    OBVIOUS
  <2>2. PICK n \in V : n = f[i - 1]
    BY <1>4, <2>1
  <2>3. step[i][n] = body(n, i)
    OBVIOUS
  <2> HIDE DEF step
  <2> QED BY <1>4, <2>2, <2>3
<1>6. Steps(f)
  <2>1. \A i \in 0 .. Len(q) : i # 0 => i \in 1 .. Len(q)
    OBVIOUS
  <2>2. \A i \in 0 .. Len(q) : f[i] = IF i = 0 THEN k ELSE IF f[i - 1].failed THEN f[i - 1]
                                      ELSE Carried(r)!Handled(f[i - 1], q[i])
    <3> HIDE DEF step
    <3> QED BY <1>4, <1>5, <2>1 DEF body
  <2> QED BY <2>2
<1>7. PICK g : Steps(g) /\ Carried(r)!Read(k, q) = g[Len(q)]
  BY <1>6 DEF Carried!Read
<1>8. \A i \in 0 .. Len(q) : g[i] = IF i = 0 THEN k ELSE body(g[i - 1], i)
  BY <1>7 DEF body
<1> HIDE DEF Steps, step
<1>9. g[Len(q)] \in V
  <2> DEFINE S == {i \in Nat : i <= Len(q) => g[i] \in V}
  <2>1. 0 \in S
    BY <1>1, <1>8
  <2>2. ASSUME NEW i \in Nat, i \in S PROVE i + 1 \in S
    <3>1. CASE i + 1 <= Len(q)
      <4>1. i + 1 \in 0 .. Len(q) /\ i + 1 # 0 /\ (i + 1) - 1 = i /\ i + 1 \in 1 .. Len(q) /\ i <= Len(q)
        BY <3>1
      <4>2. g[i + 1] = body(g[i], i + 1) /\ g[i] \in V
        BY <1>8, <2>2, <4>1
      <4> QED BY <1>2, <4>1, <4>2
    <3>2. CASE ~(i + 1 <= Len(q))
      BY <3>2
    <3> QED BY <3>1, <3>2
  <2> HIDE DEF S
  <2>3. Len(q) \in S
    BY <2>1, <2>2, SetInduction
  <2> QED BY <2>3 DEF S
<1> QED BY <1>7, <1>9 DEF V


\* One client: what it is given, sends and reads.
LineOne(r, k, g, w, q, Y) ==
  /\ g \in Seq(LinePackets(r)) /\ w \in Seq(LinePackets(r)) /\ q \in Seq(LineMessages(r))
  /\ LineClient(r, k, g, w, q) /\ LineAhead(r, k, g, w, Y)

LEMMA LineNumbers ==
  ASSUME NEW r, LineRoom(r), NEW q \in Seq(LinePackets(r))
  PROVE  LineIn(q) \subseteq LinePackets(r) /\ LinePackets(r) \subseteq Nat \ {0} /\ q \in Seq(Nat)
<1>1. LinePackets(r) \subseteq Nat \ {0}
  <2>1. PICK p \in Nat : p = r.published
    BY DEF LineRoom
  <2> QED BY <2>1 DEF LinePackets
<1>2. q \in Seq(Nat)
  BY <1>1, SeqMonotonic
<1> QED BY <1>1, <1>2 DEF LineIn

LEMMA LineNothing == LineIn(<<>>) = {} /\ LineRising(<<>>) /\ \A what : ~LineSays(<<>>, what)
BY DEF LineIn, LineRising, LineSays

\* A client that fails is what it was.
LEMMA LineFails ==
  ASSUME NEW r, NEW k, NEW g, NEW w, NEW q, NEW Y, LineOne(r, k, g, w, q, Y)
  PROVE  LineOne(r, [k EXCEPT !.failed = TRUE], g, w, q, Y)
<1>1. PICK n : n = [k EXCEPT !.failed = TRUE]
  OBVIOUS
<1>2. k \in LineClients(r)
  BY DEF LineOne, LineClient
<1>3. n \in LineClients(r)
  BY <1>1, <1>2 DEF LineClients
<1>4. /\ n.upgraded = k.upgraded /\ n.token = k.token /\ n.target = k.target /\ n.output = k.output
      /\ n.inflight = k.inflight /\ n.waiting = k.waiting
  BY <1>1, <1>2 DEF LineClients
<1>5. LinePast(r, n, g, w) = LinePast(r, k, g, w)
  BY <1>4 DEF LinePast
<1>6. LineStream(r, k, g, w, q) => LineStream(r, n, g, w, q)
  BY <1>4, <1>5 DEF LineStream
<1>7. LineTransfer(r, k, g, w, q) => LineTransfer(r, n, g, w, q)
  BY <1>4 DEF LineTransfer
<1>8. LineClient(r, n, g, w, q)
  BY <1>3, <1>4, <1>6, <1>7 DEF LineOne, LineClient
<1>9. LineAhead(r, n, g, w, Y)
  BY <1>4, <1>5 DEF LineOne, LineAhead
<1> QED BY <1>1, <1>8, <1>9 DEF LineOne

\* The messages of an upgraded client are read.
LEMMA LineListens ==
  ASSUME NEW r, LineRoom(r), NEW k, NEW g, NEW w, NEW q, NEW Y, LineOne(r, k, g, w, q, Y), k.upgraded, NEW n \in LineReads(r, k, q)
  PROVE  LineOne(r, n, g, w, <<>>, Y)
<1>1. n \in LineClients(r) /\ n.upgraded /\ n.token = k.token /\ n.target = k.target /\ n.output = k.output
  BY DEF LineReads
<1>2. LineClient(r, k, g, w, q) /\ LineAhead(r, k, g, w, Y)
  BY DEF LineOne
<1>3. LinePast(r, n, g, w) = LinePast(r, k, g, w)
  BY <1>1 DEF LinePast
<1>4. ASSUME n.target \in r.streams PROVE n.waiting = k.waiting /\ LineStream(r, n, g, w, <<>>)
  <2>1. LineStream(r, k, g, w, q)
    BY <1>1, <1>2, <1>4 DEF LineClient
  <2>2. n.waiting = k.waiting
    BY <2>1 DEF LineStream, LineReads
  <2>3. k.inflight /\ ~LineSays(q, "ack") => n.inflight
    BY DEF LineReads
  <2>4. ~LineSays(<<>>, "ack") /\ ~LineSays(<<>>, "request")
    BY LineNothing
  <2>5. w # <<>> => n.inflight
    BY <2>1, <2>3 DEF LineStream
  <2>6. n.output \in LinePackets(r) => n.inflight /\ w = <<>> /\ \A x \in LineIn(g) : x < n.output
    BY <1>1, <2>1, <2>3 DEF LineStream
  <2> QED BY <1>3, <2>1, <2>2, <2>4, <2>5, <2>6 DEF LineStream
<1>5. ASSUME n.target \in r.transfers PROVE LineTransfer(r, n, g, w, <<>>)
  <2>1. LineTransfer(r, k, g, w, q)
    BY <1>1, <1>2, <1>5 DEF LineClient
  <2>2. LineIn(n.waiting) \subseteq LineIn(k.waiting) \cup {r.published + 1}
    BY DEF LineReads
  <2> QED BY <1>1, <2>1, <2>2, LineNothing DEF LineTransfer
<1>6. LineClient(r, n, g, w, <<>>)
  BY <1>1, <1>2, <1>4, <1>5 DEF LineClient
<1>7. LineAhead(r, n, g, w, Y)
  BY <1>1, <1>2, <1>3, <1>4 DEF LineAhead
<1>8. <<>> \in Seq(LineMessages(r))
  OBVIOUS
<1> QED BY <1>6, <1>7, <1>8 DEF LineOne

\* The client that the pump of a connection serves: the close frame or the oldest item becomes its output.
LEMMA LineChooses ==
  ASSUME NEW r, LineRoom(r), NEW k, NEW g, NEW w, NEW q, NEW Y, LineOne(r, k, g, w, q, Y), k.upgraded
  PROVE  LET n == Carried(r)!Chosen(k) IN
         LineOne(r, n, g, w, q, Y) /\ n.upgraded /\ n.token = k.token /\ n.target = k.target
<1>1. PICK n : n = Carried(r)!Chosen(k)
  OBVIOUS
<1>2. k \in LineClients(r) /\ LineClient(r, k, g, w, q) /\ LineAhead(r, k, g, w, Y)
  BY DEF LineOne, LineClient
<1>3. \/ n = k
      \/ k.output = r.published + 3 /\ n = [k EXCEPT !.waiting = <<>>]
      \/ k.output = r.published + 3 /\ n = [k EXCEPT !.waiting = <<>>, !.output = r.published + 2, !.closing = TRUE]
      \/ /\ k.output = r.published + 3 /\ k.waiting # <<>> /\ ~k.inflight
         /\ n = [k EXCEPT !.output = Head(k.waiting), !.waiting = Tail(k.waiting), !.inflight = k.target \in r.streams]
  <2>1. Carried(r)!Nothing = r.published + 3 /\ Carried(r)!CloseFrame = r.published + 2
    BY LineNames
  <2> QED BY <1>1, <2>1 DEF Carried!Chosen
<1>4. PICK p \in Nat : p = r.published
  BY DEF LineRoom
<1>5. LinePackets(r) = 1 .. p
  BY <1>4 DEF LinePackets
<1>6. LineIn(<<>>) = {} /\ LineRising(<<>>) /\ <<>> \in Seq(LinePackets(r)) /\ <<>> \in Seq(0 .. p + 2)
  BY LineNothing
<1>7. ASSUME k.output = p + 3, n.target = k.target, n.upgraded, n.token = k.token, n.inflight = k.inflight, n.waiting = <<>>,
             n \in LineClients(r), n.output \notin LinePackets(r)
      PROVE  LineOne(r, n, g, w, q, Y)
  <2>1. LinePast(r, n, g, w) \subseteq LinePast(r, k, g, w)
    BY <1>7 DEF LinePast
  <2>2. LineStream(r, k, g, w, q) => LineStream(r, n, g, w, q)
    BY <1>6, <1>7 DEF LineStream
  <2>3. LineTransfer(r, k, g, w, q) => LineTransfer(r, n, g, w, q)
    BY <1>6, <1>7 DEF LineTransfer
  <2>4. LineClient(r, n, g, w, q)
    BY <1>2, <1>7, <2>2, <2>3 DEF LineClient
  <2>5. LineAhead(r, n, g, w, Y)
    BY <1>2, <1>6, <1>7, <2>1 DEF LineAhead
  <2> QED BY <2>4, <2>5 DEF LineOne
<1>8. CASE n = k
  BY <1>1, <1>8
<1>9. CASE k.output = r.published + 3 /\ n = [k EXCEPT !.waiting = <<>>]
  <2>1. n \in LineClients(r)
    BY <1>2, <1>4, <1>6, <1>9 DEF LineClients
  <2>2. /\ n.target = k.target /\ n.upgraded /\ n.token = k.token /\ n.inflight = k.inflight /\ n.waiting = <<>> /\ n.output = p + 3
    BY <1>2, <1>4, <1>9 DEF LineClients
  <2>3. p + 3 \notin 1 .. p
    OBVIOUS
  <2> QED BY <1>1, <1>4, <1>5, <1>7, <1>9, <2>1, <2>2, <2>3
<1>10. CASE k.output = r.published + 3 /\ n = [k EXCEPT !.waiting = <<>>, !.output = r.published + 2, !.closing = TRUE]
  <2>1. p + 2 \notin 1 .. p /\ p + 2 \in 0 .. p + 3
    OBVIOUS
  <2>2. n \in LineClients(r)
    BY <1>2, <1>4, <1>6, <1>10, <2>1 DEF LineClients
  <2>3. /\ n.target = k.target /\ n.upgraded /\ n.token = k.token /\ n.inflight = k.inflight /\ n.waiting = <<>> /\ n.output = p + 2
    BY <1>2, <1>4, <1>10 DEF LineClients
  <2> QED BY <1>1, <1>4, <1>5, <1>7, <1>10, <2>1, <2>2, <2>3
<1>11. CASE /\ k.output = r.published + 3 /\ k.waiting # <<>> /\ ~k.inflight
            /\ n = [k EXCEPT !.output = Head(k.waiting), !.waiting = Tail(k.waiting), !.inflight = k.target \in r.streams]
  <2>1. PICK x, rest : x = Head(k.waiting) /\ rest = Tail(k.waiting)
    OBVIOUS
  <2>2. k.waiting \in Seq(0 .. p + 2)
    BY <1>2, <1>4 DEF LineClients
  <2>3. x \in 0 .. p + 2 /\ rest \in Seq(0 .. p + 2)
    BY <1>11, <2>1, <2>2, HeadTailProperties
  <2>4. x \in 0 .. p + 3
    BY <2>3
  <2>5. PICK b : b = (k.target \in r.streams) /\ b \in BOOLEAN
    <3>1. (k.target \in r.streams) \in BOOLEAN
      OBVIOUS
    <3> QED BY <3>1
  <2>6. n = [k EXCEPT !.output = x, !.waiting = rest, !.inflight = b]
    BY <1>11, <2>1, <2>5
  <2>7. n \in LineClients(r)
    BY <1>2, <1>4, <2>3, <2>4, <2>5, <2>6 DEF LineClients
  <2>8. /\ n.target = k.target /\ n.upgraded = k.upgraded /\ n.token = k.token /\ n.inflight = b /\ n.waiting = rest /\ n.output = x
    BY <1>2, <2>6 DEF LineClients
  <2>9. k.output \notin LinePackets(r)
    BY <1>4, <1>5, <1>11
  <2>10. ASSUME k.target \in r.streams PROVE LineStream(r, n, g, w, q) /\ LineAhead(r, n, g, w, Y)
    <3>1. LineStream(r, k, g, w, q)
      BY <1>2, <2>10 DEF LineClient
    <3>2. k.waiting \in Seq(LinePackets(r)) /\ LineRising(k.waiting) /\ k.waiting \in Seq(Nat)
      BY <3>1, LineNumbers DEF LineStream
    <3>3. /\ x \in LineIn(k.waiting) /\ LineIn(rest) \subseteq LineIn(k.waiting)
          /\ LineRising(rest) /\ \A y \in LineIn(rest) : x < y
      BY <1>11, <2>1, <3>2, LineTail
    <3>4. x \in LinePackets(r) /\ rest \in Seq(LinePackets(r))
      BY <1>11, <2>1, <3>2, HeadTailProperties
    <3>5. w = <<>> /\ ~LineSays(q, "ack")
      BY <1>11, <3>1 DEF LineStream
    <3>6. LinePast(r, n, g, w) = LinePast(r, k, g, w) \cup {x}
      BY <2>8, <2>9, <3>4 DEF LinePast
    <3>7. \A y \in LineIn(g) : y < x
      BY <3>1, <3>3 DEF LineStream, LinePast
    <3>8. \A y \in LinePast(r, n, g, w), z \in LineIn(rest) : y < z
      BY <3>1, <3>3, <3>6 DEF LineStream
    <3>9. LineStream(r, n, g, w, q)
      BY <2>5, <2>8, <2>10, <3>1, <3>3, <3>4, <3>5, <3>7, <3>8 DEF LineStream
    <3>10. LineAhead(r, n, g, w, Y)
      BY <1>2, <2>8, <2>10, <3>3, <3>6 DEF LineAhead
    <3> QED BY <3>9, <3>10
  <2>11. ASSUME k.target \in r.transfers PROVE LineTransfer(r, n, g, w, q) /\ LineAhead(r, n, g, w, Y)
    <3>1. LineTransfer(r, k, g, w, q)
      BY <1>2, <2>11 DEF LineClient
    <3>2. x \in LineIn(k.waiting) /\ LineIn(rest) \subseteq LineIn(k.waiting)
      BY <1>11, <2>1, <2>2, KeyTail DEF LineIn
    <3>3. x = p + 1 /\ LineIn(rest) \subseteq {r.published + 1}
      BY <1>4, <3>1, <3>2 DEF LineTransfer
    <3>4. x \notin LinePackets(r)
      BY <1>5, <3>3
    <3>5. k.target \notin r.streams
      BY <2>11 DEF LineRoom
    <3> QED BY <2>8, <3>1, <3>3, <3>4, <3>5 DEF LineTransfer, LineAhead
  <2>12. k.target \in r.streams \cup r.transfers
    BY <1>2 DEF LineClient
  <2>13. LineClient(r, n, g, w, q) /\ LineAhead(r, n, g, w, Y)
    BY <1>2, <2>7, <2>8, <2>10, <2>11, <2>12 DEF LineClient
  <2> QED BY <1>1, <2>8, <2>13 DEF LineOne
<1> QED BY <1>3, <1>8, <1>9, <1>10, <1>11


\* The numbers of a client are naturals.
LEMMA LineTyped ==
  ASSUME NEW r, LineRoom(r), NEW k, NEW g, NEW w, NEW q, NEW Y, LineOne(r, k, g, w, q, Y)
  PROVE  /\ LinePast(r, k, g, w) \subseteq Nat
         /\ k.upgraded /\ k.target \in r.streams => LineIn(k.waiting) \subseteq Nat
<1>1. LineIn(g) \subseteq Nat /\ LineIn(w) \subseteq Nat /\ LinePackets(r) \subseteq Nat
  BY LineNumbers DEF LineOne
<1>2. LinePast(r, k, g, w) \subseteq Nat
  BY <1>1 DEF LinePast
<1>3. k.upgraded /\ k.target \in r.streams => k.waiting \in Seq(LinePackets(r))
  BY DEF LineOne, LineClient, LineStream
<1> QED BY <1>1, <1>2, <1>3, LineNumbers

\* More packets come, behind those that came before.
LEMMA LineLater ==
  ASSUME NEW r, LineRoom(r), NEW k, NEW g, NEW w, NEW q, NEW Y, LineOne(r, k, g, w, q, Y),
         NEW Z, Y \subseteq Nat, Z \subseteq Nat, \A z \in Z : \E y \in Y : y <= z
  PROVE  LineOne(r, k, g, w, q, Z)
<1>1. LineAhead(r, k, g, w, Z)
  <2> SUFFICES ASSUME k.upgraded, k.target \in r.streams, NEW x \in LinePast(r, k, g, w) \cup LineIn(k.waiting), NEW z \in Z
               PROVE x < z
    BY DEF LineAhead
  <2>1. PICK y \in Y : y <= z
    OBVIOUS
  <2>2. x < y
    BY DEF LineOne, LineAhead
  <2>3. x \in Nat /\ y \in Nat /\ z \in Nat
    BY LineTyped
  <2> QED BY <2>1, <2>2, <2>3
<1> QED BY <1>1 DEF LineOne

\* What goes out whole is a packet on the wire, or no packet.
LEMMA LineSends ==
  ASSUME NEW r, LineRoom(r), NEW k, NEW g, NEW w, NEW q, NEW Y, LineOne(r, k, g, w, q, Y), k.upgraded, Len(w) <= 1,
         \A x \in LineIn(g), y \in LineIn(w) : x < y
  PROVE  LET n == [k EXCEPT !.output = r.published + 3, !.failed = k.closing]
             v == IF k.output \in LinePackets(r) THEN Append(w, k.output) ELSE w IN
         /\ LineOne(r, n, g, v, q, Y) /\ n.token = k.token /\ n.upgraded
         /\ Len(v) <= 1 /\ \A x \in LineIn(g), y \in LineIn(v) : x < y
<1>1. PICK n : n = [k EXCEPT !.output = r.published + 3, !.failed = k.closing]
  OBVIOUS
<1>2. PICK v : v = IF k.output \in LinePackets(r) THEN Append(w, k.output) ELSE w
  OBVIOUS
<1>3. PICK p \in Nat : p = r.published
  BY DEF LineRoom
<1>4. p + 3 \in 0 .. p + 3 /\ p + 3 \notin LinePackets(r)
  BY <1>3 DEF LinePackets
<1>5. k \in LineClients(r) /\ LineClient(r, k, g, w, q) /\ LineAhead(r, k, g, w, Y) /\ w \in Seq(LinePackets(r))
  BY DEF LineOne, LineClient
<1>6. n \in LineClients(r)
  BY <1>1, <1>3, <1>4, <1>5 DEF LineClients
<1>7. /\ n.upgraded = k.upgraded /\ n.token = k.token /\ n.target = k.target /\ n.output = p + 3
      /\ n.inflight = k.inflight /\ n.waiting = k.waiting
  BY <1>1, <1>3, <1>5 DEF LineClients
<1>8. k.target \in r.streams \cup r.transfers
  BY <1>5 DEF LineClient
<1>9. CASE k.output \notin LinePackets(r)
  <2>1. v = w /\ LinePast(r, n, g, w) = LinePast(r, k, g, w)
    BY <1>2, <1>4, <1>7, <1>9 DEF LinePast
  <2>2. LineStream(r, k, g, w, q) => LineStream(r, n, g, w, q)
    BY <1>4, <1>7, <2>1 DEF LineStream
  <2>3. LineTransfer(r, k, g, w, q) => LineTransfer(r, n, g, w, q)
    BY <1>4, <1>7 DEF LineTransfer
  <2>4. LineClient(r, n, g, w, q)
    BY <1>5, <1>6, <1>7, <2>2, <2>3 DEF LineClient
  <2>5. LineAhead(r, n, g, w, Y)
    BY <1>5, <1>7, <2>1 DEF LineAhead
  <2> QED BY <1>1, <1>2, <1>7, <2>1, <2>4, <2>5 DEF LineOne
<1>10. CASE k.output \in LinePackets(r)
  <2>1. k.target \notin r.transfers
    BY <1>5, <1>10 DEF LineClient, LineTransfer
  <2>2. LineStream(r, k, g, w, q)
    BY <1>5, <1>8, <2>1 DEF LineClient
  <2>3. k.inflight /\ w = <<>> /\ ~LineSays(q, "ack") /\ \A x \in LineIn(g) : x < k.output
    BY <1>10, <2>2 DEF LineStream
  <2>4. v = Append(w, k.output)
    BY <1>2, <1>10
  <2>5. v \in Seq(LinePackets(r)) /\ LineIn(v) = LineIn(w) \cup {k.output}
    BY <1>5, <1>10, <2>4, LineAppend
  <2>6. LineIn(v) = {k.output}
    BY <2>3, <2>5, LineNothing
  <2>7. Len(v) = 1 /\ \A x \in LineIn(g), y \in LineIn(v) : x < y
    <3>1. v = <<k.output>>
      BY <2>3, <2>4
    <3> QED BY <3>1, <2>3, <2>6
  <2>8. LinePast(r, n, g, v) = LinePast(r, k, g, w)
    BY <1>4, <1>7, <1>10, <2>5 DEF LinePast
  <2>9. LineStream(r, n, g, v, q)
    BY <1>4, <1>7, <2>2, <2>3, <2>8 DEF LineStream
  <2>10. LineClient(r, n, g, v, q)
    BY <1>5, <1>6, <1>7, <2>1, <2>9 DEF LineClient
  <2>11. LineAhead(r, n, g, v, Y)
    BY <1>5, <1>7, <2>8 DEF LineAhead
  <2>12. LineOne(r, n, g, v, q, Y)
    BY <2>5, <2>10, <2>11 DEF LineOne
  <2>13. Len(v) <= 1
    BY <2>7
  <2> QED BY <1>1, <1>2, <1>7, <2>7, <2>12, <2>13
<1> QED BY <1>9, <1>10

\* A packet of its stream, ahead of the packets Z that remain.
LEMMA LineOffers ==
  ASSUME NEW r, LineRoom(r), NEW k, NEW g, NEW w, NEW q, NEW Y, LineOne(r, k, g, w, q, Y), k.upgraded, k.target \in r.streams,
         NEW x \in LinePackets(r), x \in Y, NEW Z, Z \subseteq Y, \A z \in Z : x < z,
         NEW n, n = Carried(r)!Offered(k.target, x, k)
  PROVE  LineOne(r, n, g, w, q, Z) /\ n.token = k.token /\ n.upgraded /\ n.target = k.target
<1>2. k \in LineClients(r) /\ LineClient(r, k, g, w, q) /\ LineAhead(r, k, g, w, Y)
  BY DEF LineOne, LineClient
<1>3. LineStream(r, k, g, w, q) /\ k.target \notin r.transfers
  BY <1>2 DEF LineClient, LineRoom
<1>4. PICK before : before = IF k.target \in r.ordered THEN k.waiting ELSE <<>>
  OBVIOUS
<1>5. PICK after : after = IF Len(before) >= r.waiting THEN before ELSE Append(before, x)
  OBVIOUS
<1>6. n = [k EXCEPT !.waiting = after]
  BY <1>4, <1>5 DEF Carried!Offered
<1>7. before \in Seq(LinePackets(r)) /\ LineRising(before) /\ LineIn(before) \subseteq LineIn(k.waiting)
  BY <1>3, <1>4, LineNothing DEF LineStream
<1>8. \A y \in LinePast(r, k, g, w) \cup LineIn(k.waiting) : y < x
  BY <1>2 DEF LineAhead
<1>9. after \in Seq(LinePackets(r)) /\ LineRising(after) /\ LineIn(after) \subseteq LineIn(k.waiting) \cup {x}
  <2>1. /\ Append(before, x) \in Seq(LinePackets(r)) /\ LineIn(Append(before, x)) = LineIn(before) \cup {x}
        /\ LineRising(Append(before, x))
    BY <1>7, <1>8, LineAppend
  <2> QED BY <1>5, <1>7, <2>1
<1>10. after \in Seq(0 .. r.published + 2)
  <2>1. PICK p \in Nat : p = r.published
    BY DEF LineRoom
  <2>2. LinePackets(r) \subseteq 0 .. p + 2
    BY <2>1 DEF LinePackets
  <2>3. after \in Seq(0 .. p + 2)
    BY <1>9, <2>2, SeqMonotonic
  <2> QED BY <2>1, <2>3
<1>11. n \in LineClients(r)
  BY <1>2, <1>6, <1>10 DEF LineClients
<1>12. /\ n.upgraded = k.upgraded /\ n.token = k.token /\ n.target = k.target /\ n.output = k.output
       /\ n.inflight = k.inflight /\ n.waiting = after
  BY <1>2, <1>6 DEF LineClients
<1>13. LinePast(r, n, g, w) = LinePast(r, k, g, w)
  BY <1>12 DEF LinePast
<1>14. \A y \in LinePast(r, k, g, w), z \in LineIn(after) : y < z
  BY <1>3, <1>8, <1>9 DEF LineStream
<1>15. LineStream(r, n, g, w, q)
  BY <1>3, <1>9, <1>12, <1>13, <1>14 DEF LineStream
<1>16. LineAhead(r, n, g, w, Z)
  <2>1. \A y \in LinePast(r, n, g, w) \cup LineIn(after), z \in Z : y < z
    BY <1>2, <1>9, <1>13 DEF LineAhead
  <2> QED BY <1>12, <2>1 DEF LineAhead
<1>17. LineClient(r, n, g, w, q)
  BY <1>2, <1>3, <1>11, <1>12, <1>15 DEF LineClient
<1> QED BY <1>12, <1>16, <1>17 DEF LineOne

\* The page takes the packet from the wire and acknowledges it.
LEMMA LineAcks ==
  ASSUME NEW r, LineRoom(r), NEW g \in Seq(LinePackets(r)), NEW w \in Seq(LinePackets(r)), w # <<>>, Len(w) <= 1,
         LineRising(g), \A x \in LineIn(g), y \in LineIn(w) : x < y
  PROVE  LET h == Append(g, Head(w)) IN
         /\ Tail(w) = <<>> /\ h \in Seq(LinePackets(r)) /\ LineRising(h) /\ LineIn(h) = LineIn(g) \cup LineIn(w)
         /\ \A x \in LineIn(h), y \in LineIn(Tail(w)) : x < y
<1>1. Head(w) \in LinePackets(r) /\ Len(w) = 1 /\ Tail(w) = <<>>
  <2>1. Len(w) \in Nat /\ Len(w) # 0
    BY EmptySeq
  <2>5. PICK n \in Nat : n = Len(w) /\ n # 0 /\ n <= 1
    BY <2>1
  <2>6. n = 1
    BY <2>5
  <2>4. Len(w) = 1
    BY <2>5, <2>6
  <2>2. Head(w) \in LinePackets(r) /\ Tail(w) \in Seq(LinePackets(r)) /\ Len(Tail(w)) = Len(w) - 1
    BY HeadTailProperties
  <2>3. Len(Tail(w)) = 0
    BY <2>2, <2>4
  <2> QED BY <2>2, <2>3, <2>4, EmptySeq
<1>2. LineIn(w) = {Head(w)}
  <2>1. DOMAIN w = {1} /\ w[1] = Head(w)
    BY <1>1, KeyTail
  <2> QED BY <2>1 DEF LineIn
<1>3. PICK x : x = Head(w)
  OBVIOUS
<1>4. x \in LinePackets(r) /\ \A y \in LineIn(g) : y < x
  BY <1>1, <1>2, <1>3
<1>5. Append(g, x) \in Seq(LinePackets(r)) /\ LineRising(Append(g, x)) /\ LineIn(Append(g, x)) = LineIn(g) \cup {x}
  BY <1>4, LineAppend
<1> QED BY <1>1, <1>2, <1>3, <1>5, LineNothing

LEMMA LineTakes ==
  ASSUME NEW r, LineRoom(r), NEW k, NEW g, NEW w, NEW q, NEW Y, LineOne(r, k, g, w, q, Y), w # <<>>,
         NEW h \in Seq(LinePackets(r)), LineIn(h) = LineIn(g) \cup LineIn(w)
  PROVE  LineOne(r, k, h, <<>>, Append(q, <<"ack">>), Y)
<1>1. k \in LineClients(r) /\ LineClient(r, k, g, w, q) /\ LineAhead(r, k, g, w, Y) /\ q \in Seq(LineMessages(r))
  BY DEF LineOne, LineClient
<1>2. k.upgraded /\ k.target \in r.streams /\ k.target \notin r.transfers
  BY <1>1 DEF LineClient, LineQuiet, LineTransfer
<1>3. LineStream(r, k, g, w, q)
  BY <1>1, <1>2 DEF LineClient
<1>4. PICK m : m = Append(q, <<"ack">>)
  OBVIOUS
<1>5. m \in Seq(LineMessages(r)) /\ (LineSays(m, "request") <=> LineSays(q, "request"))
  <2>1. <<"ack">> \in LineMessages(r) /\ <<"ack">> # <<"request">>
    BY DEF LineMessages
  <2>2. LineSays(m, "request") <=> LineSays(q, "request") \/ <<"ack">> = <<"request">>
    BY <1>1, <1>4, <2>1, LineAppend
  <2>3. m \in Seq(LineMessages(r))
    BY <1>1, <1>4, <2>1, LineAppend
  <2> QED BY <2>1, <2>2, <2>3
<1>6. k.output \notin LinePackets(r) /\ k.inflight
  BY <1>3 DEF LineStream
<1>7. LinePast(r, k, h, <<>>) = LinePast(r, k, g, w)
  BY LineNothing DEF LinePast
<1>8. LineStream(r, k, h, <<>>, m)
  BY <1>3, <1>5, <1>6, <1>7 DEF LineStream
<1>9. LineClient(r, k, h, <<>>, m)
  BY <1>1, <1>2, <1>8 DEF LineClient
<1>10. LineAhead(r, k, h, <<>>, Y)
  BY <1>1, <1>7 DEF LineAhead
<1>11. <<>> \in Seq(LinePackets(r))
  OBVIOUS
<1> QED BY <1>4, <1>5, <1>9, <1>10, <1>11 DEF LineOne

\* The peer sends a chunk of a transfer, or closes its socket.
LEMMA LineSpeaks ==
  ASSUME NEW r, LineRoom(r), NEW k, NEW g, NEW w, NEW q, NEW Y, LineOne(r, k, g, w, q, Y),
         NEW m \in {<<"request">>, <<"gone">>}, m = <<"request">> => k.upgraded /\ k.target \in r.transfers
  PROVE  LineOne(r, k, g, w, Append(q, m), Y)
<1>1. k \in LineClients(r) /\ LineClient(r, k, g, w, q) /\ LineAhead(r, k, g, w, Y) /\ q \in Seq(LineMessages(r))
  BY DEF LineOne, LineClient
<1>2. PICK v : v = Append(q, m)
  OBVIOUS
<1>3. m \in LineMessages(r) /\ m # <<"ack">>
  BY DEF LineMessages
<1>4. v \in Seq(LineMessages(r))
  BY <1>1, <1>2, <1>3, LineAppend
<1>5. LineSays(v, "ack") <=> LineSays(q, "ack")
  BY <1>1, <1>2, <1>3, LineAppend
<1>6. LineSays(v, "request") => LineSays(q, "request") \/ m = <<"request">>
  BY <1>1, <1>2, <1>3, LineAppend
<1>7. ~k.upgraded => (LineQuiet(g, w, q) => LineQuiet(g, w, v))
  BY <1>5, <1>6 DEF LineQuiet
<1>8. k.upgraded /\ k.target \in r.streams => (LineStream(r, k, g, w, q) => LineStream(r, k, g, w, v))
  <2>1. k.target \in r.streams => k.target \notin r.transfers
    BY DEF LineRoom
  <2> QED BY <1>5, <1>6, <2>1 DEF LineStream
<1>9. LineTransfer(r, k, g, w, q) => LineTransfer(r, k, g, w, v)
  BY <1>5 DEF LineTransfer
<1>10. LineClient(r, k, g, w, v)
  BY <1>1, <1>7, <1>8, <1>9 DEF LineClient
<1> QED BY <1>1, <1>2, <1>4, <1>10 DEF LineOne

\* The handshake succeeds: the client of the ticket t has its first packet at most, and has sent nothing.
LEMMA LineAdmits ==
  ASSUME NEW r, LineRoom(r), NEW k, NEW g, NEW w, NEW q, q # <<>>, NEW Y, LineOne(r, k, g, w, q, Y), ~k.upgraded,
         LineHub(r), LineRings(r), NEW t \in DOMAIN tickets
  PROVE  LET n == Carried(r)!Admitted(k, t) IN
         /\ LineOne(r, n, g, w, Tail(q), LineComing(tickets[t].target))
         /\ n.upgraded /\ n.token = t /\ n.target = tickets[t].target
<1>1. PICK n : n = Carried(r)!Admitted(k, t)
  OBVIOUS
<1>2. PICK x : x = tickets[t].target
  OBVIOUS
<1>3. x \in r.streams \cup r.transfers /\ t \in r.tokens
  BY <1>2 DEF LineHub, LineTickets
<1>4. PICK first : first = IF x \in r.streams /\ newest[x] # 0 THEN <<newest[x]>> ELSE <<>>
  OBVIOUS
<1>5. n = [k EXCEPT !.token = t, !.target = x, !.upgraded = TRUE, !.output = 0, !.waiting = first]
  BY <1>1, <1>2, <1>4 DEF Carried!Admitted, Carried!Open
<1>6. /\ k \in LineClients(r) /\ ~k.inflight /\ LineQuiet(g, w, q) /\ q \in Seq(LineMessages(r))
  BY DEF LineOne, LineClient
<1>7. PICK p \in Nat : p = r.published
  BY DEF LineRoom
<1>8. first \in Seq(LinePackets(r)) /\ LineRising(first) /\ LineIn(first) \subseteq {newest[x]} /\ (x \notin r.streams => first = <<>>)
  <2>1. CASE x \in r.streams /\ newest[x] # 0
    <3>1. PICK y : y = newest[x]
      OBVIOUS
    <3>2. y \in 0 .. p /\ y # 0
      BY <1>7, <2>1, <3>1 DEF LineRings
    <3>3. y \in LinePackets(r)
      BY <1>7, <3>2 DEF LinePackets
    <3>4. first = <<y>>
      BY <1>4, <2>1, <3>1
    <3>5. DOMAIN first = {1} /\ first[1] = y /\ first \in Seq(LinePackets(r))
      BY <3>3, <3>4
    <3>6. \A i, j \in {1} : ~(i < j)
      OBVIOUS
    <3> QED BY <2>1, <3>1, <3>5, <3>6 DEF LineIn, LineRising
  <2>2. CASE ~(x \in r.streams /\ newest[x] # 0)
    <3>1. first = <<>>
      BY <1>4, <2>2
    <3>2. first \in Seq(LinePackets(r))
      BY <3>1
    <3> QED BY <3>1, <3>2, LineNothing
  <2> QED BY <2>1, <2>2
<1>9. first \in Seq(0 .. r.published + 2)
  <2>1. LinePackets(r) \subseteq 0 .. p + 2
    BY <1>7 DEF LinePackets
  <2>2. first \in Seq(0 .. p + 2)
    BY <1>8, <2>1, SeqMonotonic
  <2> QED BY <1>7, <2>2
<1>10. 0 \in 0 .. r.published + 3 /\ 0 \notin LinePackets(r)
  BY <1>7 DEF LinePackets
<1>11. n \in LineClients(r)
  <2>1. PICK a : a = [k EXCEPT !.token = t, !.target = x, !.upgraded = TRUE]
    OBVIOUS
  <2>2. a \in LineClients(r)
    BY <1>3, <1>6, <2>1 DEF LineClients
  <2>3. n = [a EXCEPT !.output = 0, !.waiting = first]
    BY <1>5, <1>6, <2>1 DEF LineClients
  <2> QED BY <1>9, <1>10, <2>2, <2>3 DEF LineClients
<1>12. /\ n.upgraded /\ n.token = t /\ n.target = x /\ n.output = 0 /\ n.inflight = k.inflight /\ n.waiting = first
  BY <1>5, <1>6 DEF LineClients
<1>13. g = <<>> /\ w = <<>>
  BY <1>6 DEF LineQuiet
<1>14. PICK v : v = Tail(q)
  OBVIOUS
<1>15. v \in Seq(LineMessages(r)) /\ ~LineSays(v, "ack") /\ ~LineSays(v, "request")
  <2>1. v \in Seq(LineMessages(r)) /\ \A i \in DOMAIN v : i + 1 \in DOMAIN q /\ v[i] = q[i + 1]
    BY <1>6, <1>14, KeyTail
  <2> QED BY <1>6, <2>1 DEF LineQuiet, LineSays
<1>16. LinePast(r, n, g, w) = {}
  BY <1>10, <1>12, <1>13, LineNothing DEF LinePast
<1>17. x \in r.streams => LineStream(r, n, g, w, v)
  BY <1>8, <1>10, <1>12, <1>13, <1>15, <1>16 DEF LineStream
<1>18. x \in r.transfers => LineTransfer(r, n, g, w, v)
  <2>1. x \in r.transfers => x \notin r.streams
    BY DEF LineRoom
  <2> QED BY <1>8, <1>10, <1>12, <1>13, <1>15, <2>1, LineNothing DEF LineTransfer
<1>19. LineClient(r, n, g, w, v)
  BY <1>3, <1>11, <1>12, <1>17, <1>18 DEF LineClient
<1>20. LineAhead(r, n, g, w, LineComing(x))
  <2>1. x \in r.streams => \A y \in LineComing(x) : newest[x] < y
    BY DEF LineRings
  <2> QED BY <1>8, <1>12, <1>16, <2>1 DEF LineAhead
<1>21. LineOne(r, n, g, w, v, LineComing(x))
  BY <1>15, <1>19, <1>20 DEF LineOne
<1> QED BY <1>1, <1>2, <1>12, <1>14, <1>21


-----------------------------------------------------------------------------
LEMMA LineEvery ==
  ASSUME NEW r, LineInv(r), NEW c \in DOMAIN clients
  PROVE  c \in r.conns /\ LineOne(r, clients[c], landed[c], wire[c], inbox[c], LineComing(clients[c].target))
<1>1. c \in r.conns
  BY DEF LineInv, LineThread
<1>2. landed[c] \in Seq(LinePackets(r)) /\ wire[c] \in Seq(LinePackets(r)) /\ inbox[c] \in Seq(LineMessages(r))
  BY <1>1 DEF LineInv, LineWires
<1> QED BY <1>1, <1>2 DEF LineInv, LineAll, LineOne

LEMMA LineEach ==
  ASSUME NEW r, \A c \in DOMAIN clients : LineOne(r, clients[c], landed[c], wire[c], inbox[c], LineComing(clients[c].target))
  PROVE  LineAll(r)
BY DEF LineAll, LineOne

LEMMA LineComes ==
  ASSUME NEW r, LineRoom(r), LineInv(r), NEW s \in r.streams
  PROVE  LineComing(s) \subseteq Nat /\ published[s] \in Nat /\ rings[s] \in Seq(LinePackets(r)) /\ rings[s] \in Seq(Nat)
<1>1. published[s] \in 0 .. r.published /\ rings[s] \in Seq(LinePackets(r))
  BY DEF LineInv, LineRings
<1>2. LineIn(rings[s]) \subseteq Nat /\ rings[s] \in Seq(Nat)
  BY <1>1, LineNumbers
<1>3. PICK n \in Nat : n = published[s]
  BY <1>1
<1> QED BY <1>1, <1>2, <1>3 DEF LineComing

LEMMA LineHubSame == ASSUME NEW r, LineHub(r), UNCHANGED <<tickets, issued, ended>> PROVE LineHub(r)'
BY DEF LineHub
LEMMA LineThreadSame ==
  ASSUME NEW r, LineThread(r), UNCHANGED <<clients, dialled, hungUp, phase, unserved, serving>> PROVE LineThread(r)'
BY DEF LineThread
LEMMA LineRingsSame == ASSUME NEW r, LineRings(r), UNCHANGED <<published, newest, rings>> PROVE LineRings(r)'
BY DEF LineRings, LineComing
LEMMA LineWiresSame == ASSUME NEW r, LineWires(r), UNCHANGED <<inbox, wire, landed, clients, hungUp>> PROVE LineWires(r)'
BY DEF LineWires
LEMMA LineHoldsSame == ASSUME NEW r, LineHolds(r), UNCHANGED <<tickets, issued, clients>> PROVE LineHolds(r)'
BY DEF LineHolds
LEMMA LineAllSame == ASSUME NEW r, LineAll(r), UNCHANGED <<clients, inbox, wire, landed, published, rings>> PROVE LineAll(r)'
BY DEF LineAll, LineComing

\* What the main thread does to the tickets leaves the rest alone.
LEMMA LineOffice ==
  ASSUME NEW r, LineInv(r), LineHub(r)', LineHolds(r)',
         UNCHANGED <<clients, dialled, hungUp, inbox, wire, landed, phase, unserved, serving, published, rings, newest>>
  PROVE  LineInv(r)'
BY LineThreadSame, LineRingsSame, LineWiresSame, LineAllSame DEF LineInv

LEMMA LineIssues ==
  ASSUME NEW r, LineRoom(r), LineInv(r), NEW t \in r.tokens, t \notin issued, NEW o \in r.owners \cup r.sessions,
         NEW x \in r.streams \cup r.transfers, NEW K, K \subseteq DOMAIN tickets,
         tickets' = [u \in K \cup {t} |-> IF u = t THEN Carried(r)!NewTicket(o, x) ELSE tickets[u]],
         issued' = issued \cup {t},
         UNCHANGED <<ended, clients, dialled, hungUp, inbox, wire, landed, phase, unserved, serving, published, rings, newest>>
  PROVE  LineInv(r)'
<1>1. LineHub(r) /\ LineHolds(r)
  BY DEF LineInv
<1>2. PICK n : n = Carried(r)!NewTicket(o, x)
  OBVIOUS
<1>3. n \in LineTickets(r) /\ ~n.connected
  BY <1>2 DEF Carried!NewTicket, LineTickets
<1>4. DOMAIN tickets' = K \cup {t} /\ tickets'[t] = n /\ \A u \in K : u # t /\ tickets'[u] = tickets[u]
  BY <1>1, <1>2 DEF LineHub
<1>5. LineHub(r)'
  BY <1>1, <1>3, <1>4 DEF LineHub
<1>6. LineHolds(r)'
  <2>1. ASSUME NEW u \in DOMAIN tickets', tickets'[u].connected PROVE \E c \in DOMAIN clients : clients[c].token = u
    <3>1. u \in K /\ u \in DOMAIN tickets /\ tickets[u].connected
      BY <1>3, <1>4, <2>1
    <3> QED BY <1>1, <3>1 DEF LineHolds
  <2>2. ASSUME NEW c \in DOMAIN clients, clients[c].upgraded
        PROVE  /\ clients[c].token \in issued'
               /\ clients[c].token \in DOMAIN tickets' => tickets'[clients[c].token].connected
               /\ \A d \in DOMAIN clients : c # d => clients[c].token # clients[d].token
    <3>1. /\ clients[c].token \in issued /\ (clients[c].token \in DOMAIN tickets => tickets[clients[c].token].connected)
          /\ \A d \in DOMAIN clients : c # d => clients[c].token # clients[d].token
      BY <1>1, <2>2 DEF LineHolds
    <3> QED BY <1>4, <3>1
  <2> QED BY <2>1, <2>2 DEF LineHolds
<1> QED BY <1>5, <1>6, LineOffice

LEMMA LineErases ==
  ASSUME NEW r, LineInv(r), NEW K, K \subseteq DOMAIN tickets, tickets' = [u \in K |-> tickets[u]],
         UNCHANGED <<issued, ended, clients, dialled, hungUp, inbox, wire, landed, phase, unserved, serving, published, rings, newest>>
  PROVE  LineInv(r)'
<1>1. LineHub(r) /\ LineHolds(r)
  BY DEF LineInv
<1>2. LineHub(r)'
  BY <1>1 DEF LineHub
<1>3. LineHolds(r)'
  BY <1>1 DEF LineHolds
<1> QED BY <1>2, <1>3, LineOffice

LEMMA LineMain ==
  ASSUME NEW r, LineRoom(r), LineInv(r), UNCHANGED <<clients, dialled, hungUp, inbox, wire, landed, phase, unserved, serving, published, rings, newest>>,
         \/ \E t \in r.tokens, o \in r.owners \cup r.sessions, s \in r.streams : Carried(r)!Attach(t, o, s)
         \/ \E t \in r.tokens, w \in r.owners, x \in r.transfers : Carried(r)!AttachResource(t, w, x)
         \/ \E t \in r.tokens : Carried(r)!Grow(t)
         \/ \E S : Carried(r)!Erase(S)
         \/ \E x \in r.streams \cup r.transfers : Carried(r)!End(x)
  PROVE  LineInv(r)'
<1>1. ASSUME NEW t \in r.tokens, NEW o \in r.owners \cup r.sessions, NEW s \in r.streams, Carried(r)!Attach(t, o, s) PROVE LineInv(r)'
  <2>1. PICK K : K = DOMAIN tickets
    OBVIOUS
  <2>2. /\ t \notin issued /\ issued' = issued \cup {t} /\ ended' = ended
        /\ tickets' = [u \in K \cup {t} |-> IF u = t THEN Carried(r)!NewTicket(o, s) ELSE tickets[u]]
    BY <1>1, <2>1 DEF Carried!Attach
  <2> QED BY <2>1, <2>2, LineIssues
<1>2. ASSUME NEW t \in r.tokens, NEW o \in r.owners, NEW x \in r.transfers, Carried(r)!AttachResource(t, o, x) PROVE LineInv(r)'
  <2>1. PICK K : K = {u \in DOMAIN tickets : tickets[u].target # x}
    OBVIOUS
  <2>2. /\ t \notin issued /\ issued' = issued \cup {t} /\ ended' = ended
        /\ tickets' = [u \in K \cup {t} |-> IF u = t THEN Carried(r)!NewTicket(o, x) ELSE tickets[u]]
    BY <1>2, <2>1 DEF Carried!AttachResource
  <2>3. K \subseteq DOMAIN tickets
    BY <2>1
  <2> QED BY <2>2, <2>3, LineIssues
<1>3. ASSUME NEW t \in r.tokens, Carried(r)!Grow(t) PROVE LineInv(r)'
  <2>1. LineHub(r) /\ LineHolds(r)
    BY DEF LineInv
  <2>2. t \in DOMAIN tickets /\ tickets' = [tickets EXCEPT ![t].old = TRUE] /\ UNCHANGED <<issued, ended>>
    BY <1>3 DEF Carried!Grow
  <2>3. PICK n : n = [tickets[t] EXCEPT !.old = TRUE]
    OBVIOUS
  <2>4. tickets[t] \in LineTickets(r)
    BY <2>1, <2>2 DEF LineHub
  <2>5. n \in LineTickets(r) /\ n.connected = tickets[t].connected
    BY <2>3, <2>4 DEF LineTickets
  <2>6. DOMAIN tickets' = DOMAIN tickets /\ tickets'[t] = n /\ \A u \in DOMAIN tickets : u # t => tickets'[u] = tickets[u]
    BY <2>2, <2>3
  <2>7. LineHub(r)'
    BY <2>1, <2>2, <2>5, <2>6 DEF LineHub
  <2>8. \A u \in DOMAIN tickets : tickets'[u].connected = tickets[u].connected
    BY <2>5, <2>6
  <2>9. LineHolds(r)'
    BY <2>1, <2>2, <2>6, <2>8 DEF LineHolds
  <2> QED BY <2>7, <2>9, LineOffice
<1>4. ASSUME NEW S, Carried(r)!Erase(S) PROVE LineInv(r)'
  <2>1. PICK K : K = DOMAIN tickets \ S
    OBVIOUS
  <2>2. tickets' = [u \in K |-> tickets[u]] /\ UNCHANGED <<issued, ended>>
    BY <1>4, <2>1 DEF Carried!Erase, Carried!Restrict
  <2>3. K \subseteq DOMAIN tickets
    BY <2>1
  <2> QED BY <2>2, <2>3, LineErases
<1>5. ASSUME NEW x \in r.streams \cup r.transfers, Carried(r)!End(x) PROVE LineInv(r)'
  <2>1. LineHub(r) /\ LineHolds(r)
    BY DEF LineInv
  <2>2. ended' = ended \cup {x} /\ UNCHANGED <<tickets, issued>>
    BY <1>5 DEF Carried!End
  <2>3. LineHub(r)' /\ LineHolds(r)'
    BY <2>1, <2>2 DEF LineHub, LineHolds
  <2> QED BY <2>3, LineOffice
<1> QED BY <1>1, <1>2, <1>3, <1>4, <1>5


\* One peer sends, or the page behind its connection handles a packet.
LEMMA LinePeer ==
  ASSUME NEW r, LineRoom(r), LineInv(r), NEW c \in r.conns, NEW g, NEW w, NEW q, NEW D,
         dialled' = D, dialled \subseteq D, D \subseteq r.conns,
         inbox' = [inbox EXCEPT ![c] = q], wire' = [wire EXCEPT ![c] = w], landed' = [landed EXCEPT ![c] = g],
         g \in Seq(LinePackets(r)), w \in Seq(LinePackets(r)), q \in Seq(LineMessages(r)),
         LineRising(g), Len(w) <= 1, \A x \in LineIn(g), y \in LineIn(w) : x < y,
         c \notin DOMAIN clients \cup hungUp => LineQuiet(g, w, q),
         c \in DOMAIN clients => LineOne(r, clients[c], g, w, q, LineComing(clients[c].target)),
         UNCHANGED <<tickets, issued, ended, clients, hungUp, phase, unserved, serving, published, rings, newest>>
  PROVE  LineInv(r)'
<1>1. LineHub(r)' /\ LineRings(r)' /\ LineHolds(r)'
  BY LineHubSame, LineRingsSame, LineHoldsSame DEF LineInv
<1>2. LineThread(r)'
  BY DEF LineInv, LineThread
<1>3. /\ inbox \in [r.conns -> Seq(LineMessages(r))]
      /\ wire \in [r.conns -> Seq(LinePackets(r))] /\ landed \in [r.conns -> Seq(LinePackets(r))]
  BY DEF LineInv, LineWires
<1>4. /\ inbox'[c] = q /\ wire'[c] = w /\ landed'[c] = g
      /\ \A d \in r.conns : d # c => inbox'[d] = inbox[d] /\ wire'[d] = wire[d] /\ landed'[d] = landed[d]
  BY <1>3
<1>5. /\ inbox' \in [r.conns -> Seq(LineMessages(r))]
      /\ wire' \in [r.conns -> Seq(LinePackets(r))] /\ landed' \in [r.conns -> Seq(LinePackets(r))]
  BY <1>3
<1>6. LineWires(r)'
  <2>1. ASSUME NEW d \in r.conns
        PROVE  /\ LineRising(landed'[d]) /\ Len(wire'[d]) <= 1 /\ \A x \in LineIn(landed'[d]), y \in LineIn(wire'[d]) : x < y
               /\ d \notin DOMAIN clients \cup hungUp => LineQuiet(landed'[d], wire'[d], inbox'[d])
    <3>1. CASE d = c
      BY <1>4, <3>1
    <3>2. CASE d # c
      BY <1>4, <3>2 DEF LineInv, LineWires
    <3> QED BY <3>1, <3>2
  <2> QED BY <1>5, <2>1 DEF LineWires
<1>7. LineAll(r)'
  <2>1. ASSUME NEW d \in DOMAIN clients
        PROVE  LineOne(r, clients[d], landed'[d], wire'[d], inbox'[d], LineComing(clients[d].target))
    <3>1. CASE d = c
      BY <1>4, <3>1
    <3>2. CASE d # c
      BY <1>4, <2>1, <3>2, LineEvery
    <3> QED BY <3>1, <3>2
  <2> QED BY <2>1 DEF LineAll, LineOne, LineComing
<1> QED BY <1>1, <1>2, <1>6, <1>7 DEF LineInv

LEMMA LineTyping ==
  ASSUME NEW r, LineInv(r), NEW c \in r.conns
  PROVE  /\ inbox[c] \in Seq(LineMessages(r)) /\ wire[c] \in Seq(LinePackets(r)) /\ landed[c] \in Seq(LinePackets(r))
         /\ inbox = [inbox EXCEPT ![c] = inbox[c]] /\ wire = [wire EXCEPT ![c] = wire[c]] /\ landed = [landed EXCEPT ![c] = landed[c]]
         /\ LineRising(landed[c]) /\ Len(wire[c]) <= 1 /\ \A x \in LineIn(landed[c]), y \in LineIn(wire[c]) : x < y
         /\ c \notin DOMAIN clients \cup hungUp => LineQuiet(landed[c], wire[c], inbox[c])
         /\ dialled \subseteq r.conns
<1>1. dialled \subseteq r.conns
  BY DEF LineInv, LineThread
<1>2. /\ inbox \in [r.conns -> Seq(LineMessages(r))]
      /\ wire \in [r.conns -> Seq(LinePackets(r))] /\ landed \in [r.conns -> Seq(LinePackets(r))]
  BY DEF LineInv, LineWires
<1>3. /\ inbox = [inbox EXCEPT ![c] = inbox[c]] /\ wire = [wire EXCEPT ![c] = wire[c]] /\ landed = [landed EXCEPT ![c] = landed[c]]
  BY <1>2
<1>4. /\ LineRising(landed[c]) /\ Len(wire[c]) <= 1 /\ \A x \in LineIn(landed[c]), y \in LineIn(wire[c]) : x < y
      /\ c \notin DOMAIN clients \cup hungUp => LineQuiet(landed[c], wire[c], inbox[c])
  BY DEF LineInv, LineWires
<1> QED BY <1>1, <1>2, <1>3, <1>4

LEMMA LinePeers ==
  ASSUME NEW r, LineRoom(r), LineInv(r), Carried(r)!Peer
  PROVE  LineInv(r)'
<1>1. ASSUME NEW c \in r.conns, NEW t \in r.tokens, NEW o \in r.owners \cup r.sessions, Carried(r)!Dial(c, t, o) PROVE LineInv(r)'
  <2>1. PICK q : q = <<<<"get", t, o>>>>
    OBVIOUS
  <2>2. PICK g, w : g = landed[c] /\ w = wire[c]
    OBVIOUS
  <2>3. PICK D : D = dialled \cup {c}
    OBVIOUS
  <2>4. /\ c \notin dialled /\ dialled' = D /\ inbox' = [inbox EXCEPT ![c] = q] /\ UNCHANGED <<wire, landed>>
        /\ UNCHANGED <<tickets, issued, ended, clients, hungUp, phase, unserved, serving, published, rings, newest>>
    BY <1>1, <2>1, <2>3 DEF Carried!Dial, Carried!PeerUnchanged, Carried!hubVars, Carried!streamVars
  <2>5. c \notin DOMAIN clients
    BY <2>4 DEF LineInv, LineThread
  <2>6. q \in Seq(LineMessages(r)) /\ ~LineSays(q, "ack") /\ ~LineSays(q, "request")
    <3>1. PICK m : m = <<"get", t, o>>
      OBVIOUS
    <3>2. m \in LineMessages(r) /\ m # <<"ack">> /\ m # <<"request">>
      BY <3>1 DEF LineMessages
    <3>3. q = <<m>> /\ DOMAIN q = {1} /\ q[1] = m
      BY <2>1, <3>1
    <3>4. q \in Seq(LineMessages(r))
      BY <3>2, <3>3
    <3> QED BY <3>2, <3>3, <3>4 DEF LineSays
  <2>7. c \notin DOMAIN clients \cup hungUp => LineQuiet(g, w, q)
    BY <2>2, <2>6, LineTyping DEF LineQuiet
  <2>8. wire' = [wire EXCEPT ![c] = w] /\ landed' = [landed EXCEPT ![c] = g]
    BY <2>2, <2>4, LineTyping
  <2>9. dialled \subseteq D /\ D \subseteq r.conns
    BY <2>3, LineTyping
  <2>10. /\ g \in Seq(LinePackets(r)) /\ w \in Seq(LinePackets(r))
         /\ LineRising(g) /\ Len(w) <= 1 /\ \A x \in LineIn(g), y \in LineIn(w) : x < y
    BY <2>2, LineTyping
  <2> QED BY <2>4, <2>5, <2>6, <2>7, <2>8, <2>9, <2>10, LinePeer
<1>2. ASSUME NEW c \in r.conns, Carried(r)!DialSilently(c) PROVE LineInv(r)'
  <2>2. PICK g, w, q : g = landed[c] /\ w = wire[c] /\ q = inbox[c]
    OBVIOUS
  <2>3. PICK D : D = dialled \cup {c}
    OBVIOUS
  <2>4. /\ c \notin dialled /\ dialled' = D /\ UNCHANGED <<inbox, wire, landed>>
        /\ UNCHANGED <<tickets, issued, ended, clients, hungUp, phase, unserved, serving, published, rings, newest>>
    BY <1>2, <2>3 DEF Carried!DialSilently, Carried!PeerUnchanged, Carried!hubVars, Carried!streamVars
  <2>5. c \notin DOMAIN clients
    BY <2>4 DEF LineInv, LineThread
  <2>8. inbox' = [inbox EXCEPT ![c] = q] /\ wire' = [wire EXCEPT ![c] = w] /\ landed' = [landed EXCEPT ![c] = g]
    BY <2>2, <2>4, LineTyping
  <2>9. dialled \subseteq D /\ D \subseteq r.conns
    BY <2>3, LineTyping
  <2>10. /\ g \in Seq(LinePackets(r)) /\ w \in Seq(LinePackets(r)) /\ q \in Seq(LineMessages(r))
         /\ LineRising(g) /\ Len(w) <= 1 /\ \A x \in LineIn(g), y \in LineIn(w) : x < y
         /\ c \notin DOMAIN clients \cup hungUp => LineQuiet(g, w, q)
    BY <2>2, LineTyping
  <2> QED BY <2>4, <2>5, <2>8, <2>9, <2>10, LinePeer
<1>3. ASSUME NEW c \in r.conns, Carried(r)!PageHandles(c) PROVE LineInv(r)'
  <2>1. PICK g, w, q, D : g = landed[c] /\ w = wire[c] /\ q = inbox[c] /\ D = dialled
    OBVIOUS
  <2>2. PICK h, v, m : h = Append(g, Head(w)) /\ v = Tail(w) /\ m = IF c \in hungUp THEN q ELSE Append(q, <<"ack">>)
    OBVIOUS
  <2>3. /\ w # <<>> /\ dialled' = D /\ inbox' = [inbox EXCEPT ![c] = m]
        /\ wire' = [wire EXCEPT ![c] = v] /\ landed' = [landed EXCEPT ![c] = h]
        /\ UNCHANGED <<tickets, issued, ended, clients, hungUp, phase, unserved, serving, published, rings, newest>>
    <3>1. w # <<>> /\ dialled' = D
      BY <1>3, <2>1 DEF Carried!PageHandles
    <3>2. wire' = [wire EXCEPT ![c] = v] /\ landed' = [landed EXCEPT ![c] = h]
      BY <1>3, <2>1, <2>2 DEF Carried!PageHandles
    <3>3. inbox' = [inbox EXCEPT ![c] = m]
      BY <1>3, <2>1, <2>2 DEF Carried!PageHandles
    <3> QED BY <1>3, <3>1, <3>2, <3>3 DEF Carried!PageHandles, Carried!PeerUnchanged, Carried!hubVars, Carried!streamVars
  <2>4. /\ g \in Seq(LinePackets(r)) /\ w \in Seq(LinePackets(r)) /\ q \in Seq(LineMessages(r))
        /\ LineRising(g) /\ Len(w) <= 1 /\ \A x \in LineIn(g), y \in LineIn(w) : x < y
        /\ c \notin DOMAIN clients \cup hungUp => LineQuiet(g, w, q)
        /\ dialled \subseteq D /\ D \subseteq r.conns
    BY <2>1, LineTyping
  <2>5. /\ v = <<>> /\ h \in Seq(LinePackets(r)) /\ LineRising(h) /\ LineIn(h) = LineIn(g) \cup LineIn(w)
        /\ \A x \in LineIn(h), y \in LineIn(v) : x < y
    BY <2>2, <2>3, <2>4, LineAcks
  <2>6. m \in Seq(LineMessages(r))
    <3>1. <<"ack">> \in LineMessages(r)
      BY DEF LineMessages
    <3>2. Append(q, <<"ack">>) \in Seq(LineMessages(r))
      BY <2>4, <3>1, LineAppend
    <3> QED BY <2>2, <2>4, <3>2
  <2>7. c \in DOMAIN clients \cup hungUp
    BY <2>3, <2>4 DEF LineQuiet
  <2>8. c \in DOMAIN clients => LineOne(r, clients[c], h, v, m, LineComing(clients[c].target))
    <3> SUFFICES ASSUME c \in DOMAIN clients PROVE LineOne(r, clients[c], h, v, m, LineComing(clients[c].target))
      OBVIOUS
    <3>1. PICK k, Y : k = clients[c] /\ Y = LineComing(clients[c].target)
      OBVIOUS
    <3>2. LineOne(r, k, g, w, q, Y)
      BY <2>1, <3>1, LineEvery
    <3>3. m = Append(q, <<"ack">>)
      BY <2>2 DEF LineInv, LineThread
    <3>4. LineOne(r, k, h, <<>>, Append(q, <<"ack">>), Y)
      BY <2>3, <2>5, <3>2, LineTakes
    <3> QED BY <2>5, <3>1, <3>3, <3>4
  <2>9. v \in Seq(LinePackets(r)) /\ Len(v) <= 1
    <3>1. <<>> \in Seq(LinePackets(r)) /\ Len(<<>>) <= 1
      OBVIOUS
    <3> QED BY <2>5, <3>1
  <2> QED BY <2>3, <2>4, <2>5, <2>6, <2>7, <2>8, <2>9, LinePeer
<1>4. ASSUME NEW c \in r.conns, NEW m \in {<<"request">>, <<"gone">>},
             m = <<"request">> => c \in DOMAIN clients /\ clients[c].upgraded /\ clients[c].target \in r.transfers,
             inbox' = [inbox EXCEPT ![c] = Append(@, m)],
             UNCHANGED <<dialled, wire, landed, tickets, issued, ended, clients, hungUp, phase, unserved, serving, published, rings, newest>>
      PROVE  LineInv(r)'
  <2>1. PICK g, w, q, D : g = landed[c] /\ w = wire[c] /\ q = inbox[c] /\ D = dialled
    OBVIOUS
  <2>2. PICK v : v = Append(q, m)
    OBVIOUS
  <2>3. /\ g \in Seq(LinePackets(r)) /\ w \in Seq(LinePackets(r)) /\ q \in Seq(LineMessages(r))
        /\ LineRising(g) /\ Len(w) <= 1 /\ \A x \in LineIn(g), y \in LineIn(w) : x < y
        /\ c \notin DOMAIN clients \cup hungUp => LineQuiet(g, w, q)
        /\ dialled \subseteq D /\ D \subseteq r.conns /\ dialled' = D
    BY <1>4, <2>1, LineTyping
  <2>4. inbox' = [inbox EXCEPT ![c] = v] /\ wire' = [wire EXCEPT ![c] = w] /\ landed' = [landed EXCEPT ![c] = g]
    BY <1>4, <2>1, <2>2, LineTyping
  <2>5. m \in LineMessages(r) /\ m # <<"ack">>
    BY <1>4 DEF LineMessages
  <2>6. v \in Seq(LineMessages(r))
    BY <2>2, <2>3, <2>5, LineAppend
  <2>7. c \notin DOMAIN clients \cup hungUp => LineQuiet(g, w, v)
    <3>1. LineSays(v, "ack") <=> LineSays(q, "ack") \/ m = <<"ack">>
      BY <2>2, <2>3, <2>5, LineAppend
    <3>2. LineSays(v, "request") <=> LineSays(q, "request") \/ m = <<"request">>
      BY <2>2, <2>3, <2>5, LineAppend
    <3> QED BY <1>4, <2>3, <2>5, <3>1, <3>2 DEF LineQuiet
  <2>8. c \in DOMAIN clients => LineOne(r, clients[c], g, w, v, LineComing(clients[c].target))
    <3> SUFFICES ASSUME c \in DOMAIN clients PROVE LineOne(r, clients[c], g, w, v, LineComing(clients[c].target))
      OBVIOUS
    <3>1. PICK k, Y : k = clients[c] /\ Y = LineComing(clients[c].target)
      OBVIOUS
    <3>2. LineOne(r, k, g, w, q, Y)
      BY <2>1, <3>1, LineEvery
    <3>3. m = <<"request">> => k.upgraded /\ k.target \in r.transfers
      BY <1>4, <3>1
    <3>4. LineOne(r, k, g, w, Append(q, m), Y)
      BY <1>4, <3>2, <3>3, LineSpeaks
    <3> QED BY <2>2, <3>1, <3>4
  <2> QED BY <1>4, <2>3, <2>4, <2>6, <2>7, <2>8, LinePeer
<1>5. ASSUME NEW c \in r.conns, Carried(r)!PageRequests(c) PROVE LineInv(r)'
  <2>1. PICK m : m = <<"request">>
    OBVIOUS
  <2>2. /\ c \in DOMAIN clients /\ clients[c].upgraded /\ clients[c].target \in r.transfers
        /\ inbox' = [inbox EXCEPT ![c] = Append(@, m)]
    BY <1>5, <2>1 DEF Carried!PageRequests
  <2>3. UNCHANGED <<dialled, wire, landed, tickets, issued, ended, clients, hungUp, phase, unserved, serving, published, rings, newest>>
    BY <1>5 DEF Carried!PageRequests, Carried!PeerUnchanged, Carried!hubVars, Carried!streamVars, Carried!pageVars
  <2> QED BY <1>4, <2>1, <2>2, <2>3
<1>6. ASSUME NEW c \in r.conns, Carried(r)!PeerLeaves(c) PROVE LineInv(r)'
  <2>1. PICK m : m = <<"gone">>
    OBVIOUS
  <2>2. inbox' = [inbox EXCEPT ![c] = Append(@, m)]
    BY <1>6, <2>1 DEF Carried!PeerLeaves
  <2>3. UNCHANGED <<dialled, wire, landed, tickets, issued, ended, clients, hungUp, phase, unserved, serving, published, rings, newest>>
    BY <1>6 DEF Carried!PeerLeaves, Carried!PeerUnchanged, Carried!hubVars, Carried!streamVars, Carried!pageVars
  <2>4. m # <<"request">>
    BY <2>1
  <2> QED BY <1>4, <2>1, <2>2, <2>3, <2>4
<1> QED BY <1>1, <1>2, <1>3, <1>5, <1>6 DEF Carried!Peer


\* A client of no stream is ahead of nothing.
LEMMA LineShifts ==
  ASSUME NEW r, LineRoom(r), NEW k, NEW g, NEW w, NEW q, NEW Y, LineOne(r, k, g, w, q, Y), NEW Z,
         k.upgraded /\ k.target \in r.streams => Y \subseteq Nat /\ Z \subseteq Nat /\ \A z \in Z : \E y \in Y : y <= z
  PROVE  LineOne(r, k, g, w, q, Z)
<1>1. CASE k.upgraded /\ k.target \in r.streams
  BY <1>1, LineLater
<1>2. CASE ~(k.upgraded /\ k.target \in r.streams)
  BY <1>2 DEF LineOne, LineAhead
<1> QED BY <1>1, <1>2

\* A ring with the packet behind p: it is appended, or dropped, or takes the place of the oldest one.
LEMMA LineFresh ==
  ASSUME NEW r, LineRoom(r), NEW q \in Seq(LinePackets(r)), LineRising(q), NEW p \in Nat, p < r.published, \A x \in LineIn(q) : x <= p,
         NEW v, v = Append(q, p + 1) \/ v = q \/ (q # <<>> /\ v = Append(Tail(q), p + 1))
  PROVE  v \in Seq(LinePackets(r)) /\ LineRising(v) /\ LineIn(v) \subseteq LineIn(q) \cup {p + 1}
<1>1. p + 1 \in LinePackets(r)
  <2>1. PICK m \in Nat : m = r.published
    BY DEF LineRoom
  <2> QED BY <2>1 DEF LinePackets
<1>2. LineIn(q) \subseteq Nat /\ q \in Seq(Nat)
  BY LineNumbers
<1>3. \A x \in LineIn(q) : x < p + 1
  BY <1>2
<1>4. CASE v = Append(q, p + 1)
  BY <1>1, <1>3, <1>4, LineAppend
<1>5. CASE v = q
  BY <1>5
<1>6. CASE q # <<>> /\ v = Append(Tail(q), p + 1)
  <2>1. PICK u : u = Tail(q)
    OBVIOUS
  <2>2. u \in Seq(LinePackets(r))
    BY <1>6, <2>1, HeadTailProperties
  <2>3. LineRising(u) /\ LineIn(u) \subseteq LineIn(q)
    BY <1>2, <1>6, <2>1, LineTail
  <2>4. \A x \in LineIn(u) : x < p + 1
    BY <1>3, <2>3
  <2>5. Append(u, p + 1) \in Seq(LinePackets(r)) /\ LineRising(Append(u, p + 1)) /\ LineIn(Append(u, p + 1)) = LineIn(u) \cup {p + 1}
    BY <1>1, <2>2, <2>3, <2>4, LineAppend
  <2> QED BY <1>6, <2>1, <2>3, <2>5
<1> QED BY <1>4, <1>5, <1>6

LEMMA LinePublishes ==
  ASSUME NEW r, LineRoom(r), LineInv(r), NEW s \in r.streams, Carried(r)!Publish(s)
  PROVE  LineInv(r)'
<1>1. /\ published[s] < r.published /\ published' = [published EXCEPT ![s] = @ + 1]
      /\ UNCHANGED <<tickets, issued, ended, clients, dialled, hungUp, inbox, wire, landed, phase, unserved, serving, newest>>
  BY DEF Carried!Publish, Carried!hubVars, Carried!pageVars
<1>2. PICK q, p, v : q = rings[s] /\ p = published[s] /\ v = rings'[s]
  OBVIOUS
<1>3. /\ LineRings(r) /\ q \in Seq(LinePackets(r)) /\ q \in Seq(Nat) /\ p \in Nat /\ p < r.published
      /\ LineRising(q) /\ \A x \in LineIn(q) : x <= p
  BY <1>1, <1>2, LineComes DEF LineInv, LineRings
<1>4. v = Append(q, p + 1) \/ v = q \/ (q # <<>> /\ v = Append(Tail(q), p + 1))
  <2>1. v = IF Len(q) < r.ring THEN Append(q, p + 1) ELSE IF s \in r.ordered THEN q ELSE Append(Tail(q), p + 1)
    BY <1>2, <1>3 DEF Carried!Publish, LineRings
  <2>2. q = <<>> => Len(q) < r.ring
    <3>1. PICK n \in Nat \ {0} : n = r.ring
      BY DEF LineRoom
    <3>2. 0 < n
      OBVIOUS
    <3>3. q = <<>> => Len(q) = 0
      OBVIOUS
    <3> QED BY <3>1, <3>2, <3>3
  <2> QED BY <2>1, <2>2
<1>5. v \in Seq(LinePackets(r)) /\ LineRising(v) /\ LineIn(v) \subseteq LineIn(q) \cup {p + 1}
  BY <1>3, <1>4, LineFresh
<1>6. /\ published'[s] = p + 1 /\ DOMAIN published' = r.streams
      /\ \A x \in r.streams : x # s => published'[x] = published[x] /\ rings'[x] = rings[x]
  BY <1>1, <1>2, <1>3 DEF Carried!Publish, LineRings
<1>7. rings' \in [r.streams -> Seq(LinePackets(r))]
  <2>1. rings' = [rings EXCEPT ![s] = v]
    BY <1>2, <1>3 DEF Carried!Publish, LineRings
  <2> QED BY <1>3, <1>5, <2>1 DEF LineRings
<1>8. PICK Y, Z : Y = LineComing(s) /\ Z = LineComing(s)'
  OBVIOUS
<1>9. Y = LineIn(q) \cup {p + 1} /\ Z = LineIn(v) \cup {p + 2}
  <2>1. Y = LineIn(q) \cup {p + 1}
    BY <1>2, <1>8 DEF LineComing
  <2>2. Z = LineIn(v) \cup {(p + 1) + 1}
    BY <1>2, <1>6, <1>8 DEF LineComing
  <2>3. (p + 1) + 1 = p + 2
    BY <1>3
  <2> QED BY <2>1, <2>2, <2>3
<1>10. Y \subseteq Nat /\ Z \subseteq Nat /\ \A z \in Z : \E y \in Y : y <= z
  <2>1. LineIn(q) \subseteq Nat /\ LineIn(v) \subseteq Nat
    BY <1>3, <1>5, LineNumbers
  <2>2. p + 1 \in Nat /\ p + 2 \in Nat /\ p + 1 <= p + 2
    BY <1>3
  <2>3. \A z \in LineIn(v) : z \in Y
    BY <1>5, <1>9
  <2>4. \A z \in LineIn(v) : z <= z
    BY <2>1
  <2> QED BY <1>9, <2>1, <2>2, <2>3, <2>4
<1>11. \A x \in r.streams : x # s => LineComing(x)' = LineComing(x)
  BY <1>6 DEF LineComing
<1>12. LineRings(r)'
  <2>1. published' \in [r.streams -> 0 .. r.published]
    <3>1. PICK m \in Nat : m = r.published
      BY DEF LineRoom
    <3>2. p + 1 \in 0 .. r.published
      BY <1>3, <3>1
    <3>3. published' = [published EXCEPT ![s] = p + 1]
      BY <1>1, <1>2
    <3> QED BY <1>3, <3>2, <3>3 DEF LineRings
  <2>2. ASSUME NEW x \in r.streams
        PROVE  /\ LineRising(rings'[x]) /\ \A y \in LineIn(rings'[x]) : y <= published'[x]
               /\ \A y \in LineComing(x)' : newest[x] < y
    <3>1. CASE x = s
      <4>1. \A y \in LineIn(v) : y <= p + 1
        <5>1. \A y \in LineIn(v) : y \in Nat /\ (y <= p \/ y = p + 1)
          BY <1>3, <1>5, LineNumbers
        <5> QED BY <1>3, <5>1
      <4>2. \A y \in Z : newest[s] < y
        <5>1. \A y \in Y : newest[s] < y
          BY <1>3, <1>8 DEF LineRings
        <5>2. PICK n \in Nat : n = newest[s]
          <6>1. newest[s] \in 0 .. r.published
            BY <1>3 DEF LineRings
          <6> QED BY <6>1
        <5> SUFFICES ASSUME NEW z \in Z PROVE n < z
          BY <5>2
        <5>3. PICK y \in Y : y <= z
          BY <1>10
        <5>4. n < y /\ y \in Nat /\ z \in Nat
          BY <1>10, <5>1, <5>2
        <5> QED BY <5>3, <5>4
      <4> QED BY <1>2, <1>5, <1>6, <1>8, <3>1, <4>1, <4>2
    <3>2. CASE x # s
      BY <1>3, <1>6, <1>11, <3>2 DEF LineRings
    <3> QED BY <3>1, <3>2
  <2> QED BY <1>1, <1>3, <1>7, <2>1, <2>2 DEF LineRings
<1>13. LineAll(r)'
  <2>1. ASSUME NEW c \in DOMAIN clients
        PROVE  LineOne(r, clients[c], landed[c], wire[c], inbox[c], LineComing(clients[c].target)')
    <3>1. PICK k, g, w, i, A, B : k = clients[c] /\ g = landed[c] /\ w = wire[c] /\ i = inbox[c]
                                  /\ A = LineComing(k.target) /\ B = LineComing(k.target)'
      OBVIOUS
    <3>2. LineOne(r, k, g, w, i, A)
      BY <3>1, LineEvery
    <3>3. k.upgraded /\ k.target \in r.streams => A \subseteq Nat /\ B \subseteq Nat /\ \A z \in B : \E y \in A : y <= z
      <4> SUFFICES ASSUME k.target \in r.streams PROVE A \subseteq Nat /\ B \subseteq Nat /\ \A z \in B : \E y \in A : y <= z
        OBVIOUS
      <4>1. CASE k.target = s
        BY <1>8, <1>10, <3>1, <4>1
      <4>2. CASE k.target # s
        <5>1. A = B /\ A \subseteq Nat
          BY <1>11, <3>1, <4>2, LineComes
        <5>2. \A z \in A : z <= z
          BY <5>1
        <5> QED BY <5>1, <5>2
      <4> QED BY <4>1, <4>2
    <3>4. LineOne(r, k, g, w, i, B)
      BY <3>2, <3>3, LineShifts
    <3>5. B = LineComing(clients[c].target)'
      BY <1>1, <3>1
    <3> QED BY <3>1, <3>4, <3>5
  <2> QED BY <1>1, <2>1 DEF LineAll, LineOne
<1>14. LineHub(r)' /\ LineThread(r)' /\ LineWires(r)' /\ LineHolds(r)'
  BY <1>1, LineHubSame, LineThreadSame, LineWiresSame, LineHoldsSame DEF LineInv
<1> QED BY <1>12, <1>13, <1>14 DEF LineInv


\* A pass begins: connections are taken up, or closed at once, and old tickets go.
LEMMA LineStarts ==
  ASSUME NEW r, LineRoom(r), LineInv(r), Carried(r)!StartPass
  PROVE  LineInv(r)'
<1>1. PICK fresh : fresh = dialled \ (DOMAIN clients \cup hungUp)
  OBVIOUS
<1>2. PICK joined : /\ joined \in SUBSET fresh
                   /\ clients' = [c \in DOMAIN clients \cup joined |-> IF c \in joined THEN Carried(r)!NewClient ELSE clients[c]]
                   /\ hungUp' = hungUp \cup (fresh \ joined)
  BY <1>1 DEF Carried!StartPass
<1>3. PICK K : K = {t \in DOMAIN tickets : tickets[t].connected \/ ~tickets[t].old}
  OBVIOUS
<1>4. PICK n : n = Carried(r)!NewClient
  OBVIOUS
<1>5. /\ phase' = "distribute" /\ newest' = [s \in r.streams |-> IF s \in ended THEN 0 ELSE newest[s]]
      /\ tickets' = [t \in K |-> tickets[t]]
      /\ UNCHANGED <<dialled, landed, published, issued, ended, inbox, wire, unserved, serving, rings>>
  BY <1>3 DEF Carried!StartPass, Carried!Quiet, Carried!Restrict
<1>6. /\ LineHub(r) /\ LineThread(r) /\ LineRings(r) /\ LineWires(r) /\ LineHolds(r)
  BY DEF LineInv
<1>7. /\ n \in LineClients(r) /\ n.token = "no token" /\ ~n.upgraded /\ n.waiting = <<>> /\ ~n.inflight /\ n.output = r.published + 3
  <2>1. PICK p \in Nat : p = r.published
    BY DEF LineRoom
  <2>2. n = [token |-> "no token", target |-> "none", output |-> p + 3, waiting |-> <<>>,
             upgraded |-> FALSE, inflight |-> FALSE, closing |-> FALSE, failed |-> FALSE]
    BY <1>4, <2>1 DEF Carried!NewClient, Carried!NoToken, Carried!Nobody, Carried!Nothing
  <2>3. p + 3 \in 0 .. p + 3 /\ <<>> \in Seq(0 .. p + 2)
    OBVIOUS
  <2>4. n \in LineClients(r)
    BY <2>1, <2>2, <2>3 DEF LineClients
  <2> QED BY <2>1, <2>2, <2>4
<1>8. /\ DOMAIN clients' = DOMAIN clients \cup joined /\ joined \subseteq dialled /\ joined \intersect (DOMAIN clients \cup hungUp) = {}
      /\ \A c \in joined : clients'[c] = n
      /\ \A c \in DOMAIN clients : c \notin joined /\ clients'[c] = clients[c]
  BY <1>1, <1>2, <1>4
<1>9. LineHub(r)'
  BY <1>3, <1>5, <1>6 DEF LineHub
<1>10. LineThread(r)'
  <2>1. DOMAIN clients' \subseteq dialled /\ DOMAIN clients' \intersect hungUp' = {}
    BY <1>1, <1>2, <1>6, <1>8 DEF LineThread
  <2>2. serving # "none" => serving \in DOMAIN clients' /\ clients'[serving].upgraded
    BY <1>6, <1>8 DEF LineThread
  <2>3. unserved \subseteq DOMAIN clients'
    BY <1>6, <1>8 DEF LineThread
  <2> QED BY <1>5, <1>6, <2>1, <2>2, <2>3 DEF LineThread
<1>11. LineRings(r)'
  <2>1. newest' \in [r.streams -> 0 .. r.published]
    <3>1. PICK p \in Nat : p = r.published
      BY DEF LineRoom
    <3>2. 0 \in 0 .. p
      OBVIOUS
    <3>3. \A s \in r.streams : (IF s \in ended THEN 0 ELSE newest[s]) \in 0 .. p
      BY <1>6, <3>1, <3>2 DEF LineRings
    <3> QED BY <1>5, <3>1, <3>3
  <2>2. ASSUME NEW s \in r.streams PROVE \A y \in LineComing(s) : newest'[s] < y
    <3> SUFFICES ASSUME NEW y \in LineComing(s) PROVE newest'[s] < y
      OBVIOUS
    <3>1. newest[s] < y /\ newest[s] \in 0 .. r.published
      BY <1>6 DEF LineRings
    <3>2. PICK m \in Nat : m = newest[s]
      BY <3>1
    <3>3. y \in Nat
      BY LineComes
    <3>4. m < y
      BY <3>1, <3>2
    <3>5. 0 < y
      BY <3>2, <3>3, <3>4
    <3> QED BY <1>5, <3>1, <3>5
  <2>3. \A s \in r.streams : LineRising(rings[s]) /\ (\A x \in LineIn(rings[s]) : x <= published[s])
    BY <1>6 DEF LineRings
  <2> QED BY <1>5, <1>6, <2>1, <2>2, <2>3 DEF LineRings, LineComing
<1>12. LineWires(r)'
  <2>1. ASSUME NEW c \in r.conns, c \notin DOMAIN clients' \cup hungUp' PROVE c \notin DOMAIN clients \cup hungUp
    BY <1>2, <1>8, <2>1
  <2> QED BY <1>5, <1>6, <2>1 DEF LineWires
<1>13. LineHolds(r)'
  <2>1. ASSUME NEW t \in DOMAIN tickets', tickets'[t].connected PROVE \E c \in DOMAIN clients' : clients'[c].token = t
    <3>1. t \in DOMAIN tickets /\ tickets[t].connected
      BY <1>3, <1>5, <2>1
    <3>2. PICK c \in DOMAIN clients : clients[c].token = t
      BY <1>6, <3>1 DEF LineHolds
    <3> QED BY <1>8, <3>2
  <2>2. ASSUME NEW c \in DOMAIN clients', clients'[c].upgraded
        PROVE  /\ clients'[c].token \in issued
               /\ clients'[c].token \in DOMAIN tickets' => tickets'[clients'[c].token].connected
               /\ \A d \in DOMAIN clients' : c # d => clients'[c].token # clients'[d].token
    <3>1. c \in DOMAIN clients /\ clients'[c] = clients[c]
      BY <1>7, <1>8, <2>2
    <3>2. PICK k : k = clients[c]
      OBVIOUS
    <3>3. /\ k.token \in issued /\ (k.token \in DOMAIN tickets => tickets[k.token].connected)
          /\ \A d \in DOMAIN clients : c # d => k.token # clients[d].token
      BY <1>6, <2>2, <3>1, <3>2 DEF LineHolds
    <3>4. k.token # "no token"
      BY <1>6, <3>3 DEF LineHub, LineRoom
    <3>5. \A d \in DOMAIN clients' : c # d => k.token # clients'[d].token
      BY <1>7, <1>8, <3>3, <3>4
    <3>6. k.token \in DOMAIN tickets' => tickets'[k.token].connected
      BY <1>3, <1>5, <3>3
    <3> QED BY <3>1, <3>2, <3>3, <3>5, <3>6
  <2> QED BY <1>5, <2>1, <2>2 DEF LineHolds
<1>14. LineAll(r)'
  <2>1. ASSUME NEW c \in DOMAIN clients'
        PROVE  LineOne(r, clients'[c], landed[c], wire[c], inbox[c], LineComing(clients'[c].target))
    <3>1. CASE c \in DOMAIN clients
      BY <1>8, <3>1, LineEvery
    <3>2. CASE c \in joined
      <4>1. c \in r.conns /\ c \notin DOMAIN clients \cup hungUp
        BY <1>6, <1>8, <3>2 DEF LineThread
      <4>2. PICK g, w, q, Y : g = landed[c] /\ w = wire[c] /\ q = inbox[c] /\ Y = LineComing(n.target)
        OBVIOUS
      <4>3. g \in Seq(LinePackets(r)) /\ w \in Seq(LinePackets(r)) /\ q \in Seq(LineMessages(r)) /\ LineQuiet(g, w, q)
        BY <4>1, <4>2, LineTyping
      <4>4. LineOne(r, n, g, w, q, Y)
        BY <1>7, <4>3 DEF LineOne, LineClient, LineAhead
      <4> QED BY <1>8, <3>2, <4>2, <4>4
    <3> QED BY <1>8, <3>1, <3>2
  <2> QED BY <1>5, <2>1 DEF LineAll, LineOne, LineComing
<1> QED BY <1>9, <1>10, <1>11, <1>12, <1>13, <1>14 DEF LineInv

LEMMA LineDistributed ==
  ASSUME NEW r, LineRoom(r), LineInv(r), Carried(r)!Distributed
  PROVE  LineInv(r)'
<1>1. /\ phase' = "pump" /\ unserved' = DOMAIN clients
      /\ UNCHANGED <<tickets, issued, ended, clients, dialled, hungUp, inbox, wire, landed, serving, published, rings, newest>>
  BY DEF Carried!Distributed, Carried!Quiet
<1>2. LineThread(r)'
  BY <1>1 DEF LineInv, LineThread
<1> QED BY <1>1, <1>2, LineHubSame, LineRingsSame, LineWiresSame, LineHoldsSame, LineAllSame DEF LineInv

\* The clients of the connections in dead are closed, and their tickets go.
LEMMA LineDrops ==
  ASSUME NEW r, LineRoom(r), LineInv(r), NEW dead, dead \subseteq DOMAIN clients, Carried(r)!Drop(dead),
         phase' \in {"accept", "distribute", "pump", "stopped"}, unserved' = {}, serving' = "none",
         UNCHANGED <<dialled, landed, published, issued, ended, inbox, wire, rings, newest>>
  PROVE  LineInv(r)'
<1>1. PICK K : K = DOMAIN tickets \ {clients[c].token : c \in dead}
  OBVIOUS
<1>2. PICK L : L = DOMAIN clients \ dead
  OBVIOUS
<1>3. tickets' = [t \in K |-> tickets[t]] /\ clients' = [c \in L |-> clients[c]] /\ hungUp' = hungUp \cup dead
  BY <1>1, <1>2 DEF Carried!Drop, Carried!Spent, Carried!Restrict
<1>4. /\ LineHub(r) /\ LineThread(r) /\ LineRings(r) /\ LineWires(r) /\ LineHolds(r)
  BY DEF LineInv
<1>5. LineHub(r)'
  BY <1>1, <1>3, <1>4 DEF LineHub
<1>6. LineThread(r)'
  BY <1>2, <1>3, <1>4 DEF LineThread
<1>7. LineRings(r)'
  BY <1>4, LineRingsSame
<1>8. LineWires(r)'
  BY <1>2, <1>3, <1>4 DEF LineWires
<1>9. LineHolds(r)'
  <2>1. ASSUME NEW t \in DOMAIN tickets', tickets'[t].connected PROVE \E c \in DOMAIN clients' : clients'[c].token = t
    <3>1. t \in K /\ t \in DOMAIN tickets /\ tickets[t].connected
      BY <1>1, <1>3, <2>1
    <3>2. PICK c \in DOMAIN clients : clients[c].token = t
      BY <1>4, <3>1 DEF LineHolds
    <3>3. c \in L
      BY <1>1, <1>2, <3>1, <3>2
    <3> QED BY <1>3, <3>2, <3>3
  <2>2. ASSUME NEW c \in DOMAIN clients', clients'[c].upgraded
        PROVE  /\ clients'[c].token \in issued
               /\ clients'[c].token \in DOMAIN tickets' => tickets'[clients'[c].token].connected
               /\ \A d \in DOMAIN clients' : c # d => clients'[c].token # clients'[d].token
    <3>1. c \in L /\ L \subseteq DOMAIN clients /\ clients'[c] = clients[c] /\ DOMAIN clients' = L
      BY <1>2, <1>3
    <3>2. /\ clients[c].token \in issued
          /\ clients[c].token \in DOMAIN tickets => tickets[clients[c].token].connected
          /\ \A d \in DOMAIN clients : c # d => clients[c].token # clients[d].token
      BY <1>4, <2>2, <3>1 DEF LineHolds
    <3>3. \A d \in L : clients'[d] = clients[d]
      BY <1>3
    <3>4. \A t \in DOMAIN tickets' : t \in DOMAIN tickets /\ tickets'[t] = tickets[t]
      BY <1>1, <1>3
    <3> QED BY <3>1, <3>2, <3>3, <3>4
  <2> QED BY <2>1, <2>2 DEF LineHolds
<1>10. LineAll(r)'
  <2>1. DOMAIN clients' = L /\ L \subseteq DOMAIN clients /\ \A c \in L : clients'[c] = clients[c]
    BY <1>2, <1>3
  <2>2. \A c \in DOMAIN clients' : LineOne(r, clients'[c], landed[c], wire[c], inbox[c], LineComing(clients'[c].target))
    BY <2>1, LineEvery
  <2> QED BY <2>2 DEF LineAll, LineOne, LineComing
<1> QED BY <1>5, <1>6, <1>7, <1>8, <1>9, <1>10 DEF LineInv

LEMMA LineReaps ==
  ASSUME NEW r, LineRoom(r), LineInv(r), Carried(r)!Reap \/ Carried(r)!Fail
  PROVE  LineInv(r)'
<1>1. CASE Carried(r)!Reap
  <2>1. PICK dead : dead = {c \in DOMAIN clients : clients[c].failed}
    OBVIOUS
  <2>2. Carried(r)!Drop(dead) /\ phase' = "accept" /\ unserved = {} /\ serving = "none"
    BY <1>1, <2>1 DEF Carried!Reap, Carried!Nobody
  <2>3. UNCHANGED <<dialled, landed, published, issued, ended, inbox, wire, rings, newest, unserved, serving>>
    BY <1>1 DEF Carried!Reap, Carried!Quiet
  <2>4. dead \subseteq DOMAIN clients
    BY <2>1
  <2> QED BY <2>2, <2>3, <2>4, LineDrops
<1>2. CASE Carried(r)!Fail
  <2>1. PICK dead : dead = DOMAIN clients
    OBVIOUS
  <2>2. Carried(r)!Drop(dead) /\ phase' = "stopped" /\ unserved' = {} /\ serving' = "none"
    BY <1>2, <2>1 DEF Carried!Fail, Carried!Nobody
  <2>3. UNCHANGED <<dialled, landed, published, issued, ended, inbox, wire, rings, newest>>
    BY <1>2 DEF Carried!Fail, Carried!Quiet
  <2> QED BY <2>1, <2>2, <2>3, LineDrops
<1> QED BY <1>1, <1>2


\* Clients that keep their ticket, or their lack of one.
LEMMA LineKeeps ==
  ASSUME NEW r, LineInv(r), DOMAIN clients' = DOMAIN clients,
         \A c \in DOMAIN clients : clients'[c].token = clients[c].token /\ clients'[c].upgraded = clients[c].upgraded,
         UNCHANGED <<tickets, issued>>
  PROVE  LineHolds(r)'
BY DEF LineInv, LineHolds

LEMMA LineDistributes ==
  ASSUME NEW r, LineRoom(r), LineInv(r), NEW s \in r.streams, Carried(r)!Distribute(s)
  PROVE  LineInv(r)'
<1>1. /\ rings[s] # <<>> /\ rings' = [rings EXCEPT ![s] = Tail(@)]
      /\ newest' = IF s \in r.ordered THEN newest ELSE [newest EXCEPT ![s] = Head(rings[s])]
      /\ UNCHANGED <<tickets, issued, ended, dialled, hungUp, inbox, wire, landed, phase, unserved, serving, published>>
  BY DEF Carried!Distribute, Carried!Quiet
<1>2. PICK q, p, v, x : q = rings[s] /\ p = published[s] /\ v = Tail(q) /\ x = Head(q)
  OBVIOUS
<1>3. /\ LineRings(r) /\ q \in Seq(LinePackets(r)) /\ q \in Seq(Nat) /\ q # <<>> /\ p \in Nat
      /\ LineRising(q) /\ \A y \in LineIn(q) : y <= p
  BY <1>1, <1>2, LineComes DEF LineInv, LineRings
<1>4. x \in LinePackets(r) /\ v \in Seq(LinePackets(r))
  BY <1>2, <1>3, HeadTailProperties
<1>5. x \in LineIn(q) /\ LineIn(v) \subseteq LineIn(q) /\ LineRising(v) /\ \A y \in LineIn(v) : x < y
  BY <1>2, <1>3, LineTail
<1>6. PICK Y, Z : Y = LineIn(q) \cup {p + 1} /\ Z = LineIn(v) \cup {p + 1}
  OBVIOUS
<1>7. rings' = [rings EXCEPT ![s] = v] /\ rings'[s] = v /\ \A y \in r.streams : y # s => rings'[y] = rings[y]
  BY <1>1, <1>2, <1>3 DEF LineRings
<1>8. Y = LineComing(s) /\ Z = LineComing(s)' /\ \A y \in r.streams : y # s => LineComing(y)' = LineComing(y)
  <2>1. Y = LineComing(s)
    BY <1>2, <1>6 DEF LineComing
  <2>2. Z = LineComing(s)'
    BY <1>1, <1>2, <1>6, <1>7 DEF LineComing
  <2>3. \A y \in r.streams : y # s => LineComing(y)' = LineComing(y)
    BY <1>1, <1>7 DEF LineComing
  <2> QED BY <2>1, <2>2, <2>3
<1>9. Y \subseteq Nat /\ Z \subseteq Y /\ x \in Y /\ x \in Nat /\ \A z \in Z : x < z
  <2>1. Y \subseteq Nat
    BY <1>8, LineComes
  <2>2. x <= p /\ x \in Nat
    BY <1>3, <1>5, <1>6, <2>1
  <2>3. x < p + 1
    BY <1>3, <2>2
  <2> QED BY <1>5, <1>6, <2>1, <2>2, <2>3
<1>10. LineRings(r)'
  <2>1. rings' \in [r.streams -> Seq(LinePackets(r))]
    BY <1>3, <1>4, <1>7 DEF LineRings
  <2>2. newest' \in [r.streams -> 0 .. r.published] /\ newest'[s] \in {newest[s], x} /\ \A y \in r.streams : y # s => newest'[y] = newest[y]
    <3>1. newest \in [r.streams -> 0 .. r.published]
      BY <1>3 DEF LineRings
    <3>2. PICK m \in Nat : m = r.published
      BY DEF LineRoom
    <3>3. x \in 0 .. r.published
      BY <1>4, <3>2 DEF LinePackets
    <3>4. newest' = newest \/ newest' = [newest EXCEPT ![s] = x]
      BY <1>1, <1>2
    <3> QED BY <3>1, <3>3, <3>4
  <2>3. \A z \in Z : newest'[s] < z
    <3>1. \A z \in Z : newest[s] < z
      BY <1>3, <1>8, <1>9 DEF LineRings
    <3> QED BY <1>9, <2>2, <3>1
  <2>4. ASSUME NEW y \in r.streams
        PROVE  /\ LineRising(rings'[y]) /\ \A z \in LineIn(rings'[y]) : z <= published[y]
               /\ \A z \in LineComing(y)' : newest'[y] < z
    <3>1. CASE y = s
      <4>1. \A z \in LineIn(v) : z <= published[s]
        BY <1>2, <1>3, <1>5
      <4> QED BY <1>5, <1>7, <1>8, <2>3, <3>1, <4>1
    <3>2. CASE y # s
      BY <1>3, <1>7, <1>8, <2>2, <3>2 DEF LineRings
    <3> QED BY <3>1, <3>2
  <2> QED BY <1>1, <1>3, <2>1, <2>2, <2>4 DEF LineRings
<1>11. DOMAIN clients' = DOMAIN clients
  BY DEF Carried!Distribute
<1>12. ASSUME NEW c \in DOMAIN clients
       PROVE  /\ LineOne(r, clients'[c], landed[c], wire[c], inbox[c],
                         LineIn(rings'[clients'[c].target]) \cup {published'[clients'[c].target] + 1})
              /\ clients'[c].token = clients[c].token /\ clients'[c].upgraded = clients[c].upgraded
  <2>1. PICK k, n, g, w, i : k = clients[c] /\ n = clients'[c] /\ g = landed[c] /\ w = wire[c] /\ i = inbox[c]
    OBVIOUS
  <2>2. LineOne(r, k, g, w, i, LineComing(k.target))
    BY <2>1, LineEvery
  <2>3. n = IF k.upgraded /\ k.target = s /\ ~k.failed THEN Carried(r)!Offered(s, x, k) ELSE k
    BY <1>2, <2>1 DEF Carried!Distribute
  <2>4. CASE k.upgraded /\ k.target = s /\ ~k.failed
    <3>1. LineOne(r, k, g, w, i, Y) /\ k.target \in r.streams /\ k.upgraded
      BY <1>8, <2>2, <2>4
    <3>2. n = Carried(r)!Offered(k.target, x, k)
      BY <2>3, <2>4
    <3>6. x \in LinePackets(r) /\ x \in Y /\ Z \subseteq Y /\ \A z \in Z : x < z
      BY <1>4, <1>9
    <3>3. LineOne(r, n, g, w, i, Z) /\ n.token = k.token /\ n.upgraded /\ n.target = k.target
      BY <3>1, <3>2, <3>6, LineOffers
    <3>4. LineComing(n.target)' = Z
      BY <1>8, <2>4, <3>3
    <3>5. LineIn(rings'[clients'[c].target]) \cup {published'[clients'[c].target] + 1} = Z
      BY <2>1, <3>4 DEF LineComing
    <3> QED BY <2>1, <2>4, <3>3, <3>5
  <2>5. CASE ~(k.upgraded /\ k.target = s /\ ~k.failed)
    <3>1. n = k
      BY <2>3, <2>5
    <3>2. PICK A, B : A = LineComing(k.target) /\ B = LineComing(k.target)'
      OBVIOUS
    <3>3. k.upgraded /\ k.target \in r.streams => A \subseteq Nat /\ B \subseteq Nat /\ \A z \in B : \E y \in A : y <= z
      <4> SUFFICES ASSUME k.target \in r.streams PROVE A \subseteq Nat /\ B \subseteq A
        OBVIOUS
      <4>1. CASE k.target = s
        BY <1>8, <1>9, <3>2, <4>1
      <4>2. CASE k.target # s
        BY <1>8, <3>2, <4>2, LineComes
      <4> QED BY <4>1, <4>2
    <3>4. LineOne(r, k, g, w, i, A)
      BY <2>2, <3>2
    <3>5. LineOne(r, k, g, w, i, B)
      BY <3>3, <3>4, LineShifts
    <3>6. B = LineIn(rings'[clients'[c].target]) \cup {published'[clients'[c].target] + 1}
      BY <2>1, <3>1, <3>2 DEF LineComing
    <3> QED BY <2>1, <3>1, <3>5, <3>6
  <2> QED BY <2>4, <2>5
<1>13. LineAll(r)'
  BY <1>1, <1>11, <1>12 DEF LineAll, LineOne, LineComing
<1>14. LineHolds(r)'
  BY <1>1, <1>11, <1>12, LineKeeps
<1>15. LineThread(r)'
  BY <1>1, <1>11, <1>12 DEF LineInv, LineThread
<1>16. LineWires(r)'
  BY <1>1, <1>11 DEF LineInv, LineWires
<1> QED BY <1>1, <1>10, <1>13, <1>14, <1>15, <1>16, LineHubSame DEF LineInv

\* The thread reads or writes one connection.
LEMMA LineServed ==
  ASSUME NEW r, LineRoom(r), LineInv(r), NEW c \in DOMAIN clients, NEW n, NEW g, NEW w, NEW q,
         clients' = [clients EXCEPT ![c] = n], g = landed[c], wire' = [wire EXCEPT ![c] = w], inbox' = [inbox EXCEPT ![c] = q],
         LineOne(r, n, g, w, q, LineComing(n.target)), Len(w) <= 1, \A x \in LineIn(g), y \in LineIn(w) : x < y,
         unserved' \subseteq DOMAIN clients, serving' # "none" => serving' \in DOMAIN clients /\ clients'[serving'].upgraded,
         LineHub(r)', LineHolds(r)',
         UNCHANGED <<dialled, hungUp, landed, published, rings, newest, phase>>
  PROVE  LineInv(r)'
<1>1. LineThread(r) /\ LineWires(r) /\ LineRings(r)'
  BY LineRingsSame DEF LineInv
<1>2. c \in r.conns
  BY LineEvery
<1>3. DOMAIN clients' = DOMAIN clients /\ clients'[c] = n /\ \A d \in DOMAIN clients : d # c => clients'[d] = clients[d]
  OBVIOUS
<1>4. LineThread(r)'
  BY <1>1, <1>3 DEF LineThread
<1>5. w \in Seq(LinePackets(r)) /\ q \in Seq(LineMessages(r))
  BY DEF LineOne
<1>6. inbox' \in [r.conns -> Seq(LineMessages(r))] /\ wire' \in [r.conns -> Seq(LinePackets(r))]
  BY <1>1, <1>5 DEF LineWires
<1>7. wire'[c] = w /\ inbox'[c] = q /\ \A d \in r.conns : d # c => wire'[d] = wire[d] /\ inbox'[d] = inbox[d]
  BY <1>1, <1>2 DEF LineWires
<1>8. LineWires(r)'
  <2>1. ASSUME NEW d \in r.conns
        PROVE  /\ LineRising(landed[d]) /\ Len(wire'[d]) <= 1 /\ \A x \in LineIn(landed[d]), y \in LineIn(wire'[d]) : x < y
               /\ d \notin DOMAIN clients' \cup hungUp => LineQuiet(landed[d], wire'[d], inbox'[d])
    <3>1. CASE d = c
      BY <1>1, <1>3, <1>7, <3>1 DEF LineWires
    <3>2. CASE d # c
      BY <1>1, <1>3, <1>7, <3>2 DEF LineWires
    <3> QED BY <3>1, <3>2
  <2> QED BY <1>1, <1>6, <2>1 DEF LineWires
<1>9. LineAll(r)'
  <2>1. ASSUME NEW d \in DOMAIN clients
        PROVE  LineOne(r, clients'[d], landed[d], wire'[d], inbox'[d], LineComing(clients'[d].target))
    <3>1. CASE d = c
      BY <1>3, <1>7, <3>1
    <3>2. CASE d # c
      BY <1>3, <1>7, <3>2, LineEvery
    <3> QED BY <3>1, <3>2
  <2> QED BY <1>3, <2>1 DEF LineAll, LineOne, LineComing
<1> QED BY <1>1, <1>4, <1>8, <1>9 DEF LineInv


\* The thread writes to the connection it serves.
LEMMA LineServes ==
  ASSUME NEW r, LineRoom(r), LineInv(r), NEW c \in r.conns, Carried(r)!Serve(c)
  PROVE  LineInv(r)'
<1>1. /\ serving = c /\ serving' = "none" /\ unserved' = unserved \ {c}
      /\ UNCHANGED <<dialled, landed, published, issued, ended, tickets, hungUp, inbox, phase, rings, newest>>
  BY DEF Carried!Serve, Carried!Quiet, Carried!Nobody
<1>2. c \in DOMAIN clients /\ clients[c].upgraded /\ unserved' \subseteq DOMAIN clients
  BY <1>1 DEF LineInv, LineThread, LineRoom
<1>3. PICK k, g, w, q, Y : k = clients[c] /\ g = landed[c] /\ w = wire[c] /\ q = inbox[c] /\ Y = LineComing(k.target)
  OBVIOUS
<1>4. PICK m : m = Carried(r)!Chosen(k)
  OBVIOUS
<1>5. LineOne(r, k, g, w, q, Y) /\ k.upgraded /\ Len(w) <= 1 /\ (\A x \in LineIn(g), y \in LineIn(w) : x < y)
      /\ inbox' = [inbox EXCEPT ![c] = q] /\ wire = [wire EXCEPT ![c] = w]
  BY <1>1, <1>2, <1>3, LineEvery, LineTyping
<1>6. LineOne(r, m, g, w, q, Y) /\ m.upgraded /\ m.token = k.token /\ m.target = k.target
  <2>1. LineOne(r, Carried(r)!Chosen(k), g, w, q, Y)
    BY <1>5, LineChooses
  <2>2. Carried(r)!Chosen(k).upgraded /\ Carried(r)!Chosen(k).token = k.token /\ Carried(r)!Chosen(k).target = k.target
    BY <1>5, LineChooses
  <2> QED BY <1>4, <2>1, <2>2
<1>7. ASSUME NEW n, NEW v, clients' = [clients EXCEPT ![c] = n], wire' = [wire EXCEPT ![c] = v], LineOne(r, n, g, v, q, Y),
             n.target = k.target, n.token = k.token, n.upgraded, Len(v) <= 1, \A x \in LineIn(g), y \in LineIn(v) : x < y
      PROVE  LineInv(r)'
  <2>1. /\ DOMAIN clients' = DOMAIN clients
        /\ \A d \in DOMAIN clients : clients'[d].token = clients[d].token /\ clients'[d].upgraded = clients[d].upgraded
    BY <1>2, <1>3, <1>7
  <2>2. LineHolds(r)'
    BY <1>1, <2>1, LineKeeps
  <2>3. LineHub(r)'
    BY <1>1, LineHubSame DEF LineInv
  <2>4. LineOne(r, n, g, v, q, LineComing(n.target))
    BY <1>3, <1>7
  <2>5. unserved' \subseteq DOMAIN clients /\ (serving' # "none" => serving' \in DOMAIN clients /\ clients'[serving'].upgraded)
    BY <1>1, <1>2
  <2>6. UNCHANGED <<dialled, hungUp, landed, published, rings, newest, phase>> /\ g = landed[c] /\ c \in DOMAIN clients
    BY <1>1, <1>2, <1>3
  <2> QED BY <1>5, <1>7, <2>2, <2>3, <2>4, <2>5, <2>6, LineServed
<1>8. ASSUME NEW a, LineOne(r, a, g, w, q, Y), a.target = k.target, a.token = k.token, a.upgraded, UNCHANGED wire,
             clients' = [clients EXCEPT ![c] = [a EXCEPT !.failed = TRUE]]
      PROVE  LineInv(r)'
  <2>1. PICK n : n = [a EXCEPT !.failed = TRUE]
    OBVIOUS
  <2>2. LineOne(r, n, g, w, q, Y)
    BY <1>8, <2>1, LineFails
  <2>3. a \in LineClients(r)
    BY <1>8 DEF LineOne, LineClient
  <2>4. n.target = k.target /\ n.token = k.token /\ n.upgraded
    BY <1>8, <2>1, <2>3 DEF LineClients
  <2> QED BY <1>5, <1>7, <1>8, <2>1, <2>2, <2>4
<1>9. CASE ~Carried(r)!Held(k)
  <2>1. clients' = [clients EXCEPT ![c].failed = TRUE] /\ UNCHANGED wire
    BY <1>3, <1>9 DEF Carried!Serve
  <2>2. clients' = [clients EXCEPT ![c] = [k EXCEPT !.failed = TRUE]]
    BY <1>3, <2>1
  <2> QED BY <1>5, <1>8, <2>1, <2>2
<1>10. CASE Carried(r)!Held(k)
  <2>1. PICK a, v : /\ a = [m EXCEPT !.output = r.published + 3, !.failed = m.closing]
                    /\ v = IF m.output \in LinePackets(r) THEN Append(w, m.output) ELSE w
    OBVIOUS
  <2>2. \/ clients' = [clients EXCEPT ![c] = a] /\ wire' = [wire EXCEPT ![c] = v]
        \/ clients' = [clients EXCEPT ![c] = m] /\ UNCHANGED wire
        \/ clients' = [clients EXCEPT ![c] = [m EXCEPT !.failed = TRUE]] /\ UNCHANGED wire
    <3>1. Carried(r)!Nothing = r.published + 3 /\ Carried(r)!Packets = LinePackets(r)
      BY LineNames
    <3>2. wire' = [wire EXCEPT ![c] = IF m.output \in LinePackets(r) THEN Append(@, m.output) ELSE @] => wire' = [wire EXCEPT ![c] = v]
      BY <1>3, <2>1
    <3> QED BY <1>3, <1>4, <1>10, <2>1, <3>1, <3>2 DEF Carried!Serve
  <2>3. CASE clients' = [clients EXCEPT ![c] = a] /\ wire' = [wire EXCEPT ![c] = v]
    <3>1. /\ LineOne(r, a, g, v, q, Y) /\ a.token = m.token /\ a.upgraded
          /\ Len(v) <= 1 /\ \A x \in LineIn(g), y \in LineIn(v) : x < y
      BY <1>5, <1>6, <2>1, LineSends
    <3>2. m \in LineClients(r)
      BY <1>6 DEF LineOne, LineClient
    <3>3. a.target = m.target
      BY <2>1, <3>2 DEF LineClients
    <3> QED BY <1>6, <1>7, <2>3, <3>1, <3>3
  <2>4. CASE clients' = [clients EXCEPT ![c] = m] /\ UNCHANGED wire
    BY <1>5, <1>6, <1>7, <2>4
  <2>5. CASE clients' = [clients EXCEPT ![c] = [m EXCEPT !.failed = TRUE]] /\ UNCHANGED wire
    BY <1>6, <1>8, <2>5
  <2> QED BY <2>2, <2>3, <2>4, <2>5
<1> QED BY <1>9, <1>10

\* A client before its handshake forgets what its peer said.
LEMMA LineForgets ==
  ASSUME NEW r, NEW k, NEW g, NEW w, NEW q, NEW Y, LineOne(r, k, g, w, q, Y), ~k.upgraded
  PROVE  LineOne(r, k, g, w, <<>>, Y)
<1>1. LineQuiet(g, w, <<>>)
  BY LineNothing DEF LineOne, LineClient, LineQuiet
<1>2. <<>> \in Seq(LineMessages(r))
  OBVIOUS
<1> QED BY <1>1, <1>2 DEF LineOne, LineClient

\* The ticket t, used by nobody, is taken by the client n of the connection c.
LEMMA LineTaken ==
  ASSUME NEW r, LineRoom(r), LineInv(r), NEW c \in DOMAIN clients, ~clients[c].upgraded,
         NEW t \in DOMAIN tickets, ~tickets[t].connected, NEW n, n.token = t, n.upgraded,
         clients' = [clients EXCEPT ![c] = n], tickets' = [tickets EXCEPT ![t].connected = TRUE], UNCHANGED <<issued, ended>>
  PROVE  LineHub(r)' /\ LineHolds(r)'
<1>1. LineHub(r) /\ LineHolds(r)
  BY DEF LineInv
<1>2. PICK u : u = [tickets[t] EXCEPT !.connected = TRUE]
  OBVIOUS
<1>3. tickets[t] \in LineTickets(r) /\ t \in issued /\ t \in r.tokens /\ t # "no token"
  BY <1>1 DEF LineHub, LineRoom
<1>4. u \in LineTickets(r) /\ u.connected
  BY <1>2, <1>3 DEF LineTickets
<1>5. DOMAIN tickets' = DOMAIN tickets /\ tickets'[t] = u /\ \A s \in DOMAIN tickets : s # t => tickets'[s] = tickets[s]
  BY <1>2
<1>6. LineHub(r)'
  BY <1>1, <1>4, <1>5 DEF LineHub
<1>7. DOMAIN clients' = DOMAIN clients /\ clients'[c] = n /\ \A d \in DOMAIN clients : d # c => clients'[d] = clients[d]
  OBVIOUS
<1>8. clients[c].token = "no token"
  BY LineEvery DEF LineOne, LineClient
<1>9. \A d \in DOMAIN clients : clients[d].token # t
  <2> SUFFICES ASSUME NEW d \in DOMAIN clients, clients[d].token = t PROVE FALSE
    OBVIOUS
  <2>1. CASE clients[d].upgraded
    BY <1>1, <2>1 DEF LineHolds
  <2>2. CASE ~clients[d].upgraded
    <3>1. clients[d].token = "no token"
      BY <2>2, LineEvery DEF LineOne, LineClient
    <3> QED BY <1>3, <3>1
  <2> QED BY <2>1, <2>2
<1>10. LineHolds(r)'
  <2>1. ASSUME NEW s \in DOMAIN tickets', tickets'[s].connected PROVE \E d \in DOMAIN clients' : clients'[d].token = s
    <3>1. CASE s = t
      BY <1>7, <3>1
    <3>2. CASE s # t
      <4>1. s \in DOMAIN tickets /\ tickets[s].connected /\ s \in r.tokens
        BY <1>1, <1>5, <2>1, <3>2 DEF LineHub
      <4>2. PICK d \in DOMAIN clients : clients[d].token = s
        BY <1>1, <4>1 DEF LineHolds
      <4>3. d # c
        BY <1>8, <4>1, <4>2 DEF LineRoom
      <4> QED BY <1>7, <4>2, <4>3
    <3> QED BY <3>1, <3>2
  <2>2. ASSUME NEW d \in DOMAIN clients', clients'[d].upgraded
        PROVE  /\ clients'[d].token \in issued
               /\ clients'[d].token \in DOMAIN tickets' => tickets'[clients'[d].token].connected
               /\ \A e \in DOMAIN clients' : d # e => clients'[d].token # clients'[e].token
    <3>1. CASE d = c
      BY <1>3, <1>4, <1>5, <1>7, <1>9, <3>1
    <3>2. CASE d # c
      <4>1. PICK a : a = clients[d].token
        OBVIOUS
      <4>2. /\ a \in issued /\ (a \in DOMAIN tickets => tickets[a].connected)
            /\ \A e \in DOMAIN clients : d # e => a # clients[e].token
        BY <1>1, <1>7, <2>2, <3>2, <4>1 DEF LineHolds
      <4>3. a # t
        BY <1>7, <1>9, <2>2, <4>1
      <4>4. clients'[d].token = a
        BY <1>7, <2>2, <3>2, <4>1
      <4>5. \A e \in DOMAIN clients : d # e => a # clients'[e].token
        BY <1>7, <4>2, <4>3
      <4> QED BY <1>5, <1>7, <4>2, <4>3, <4>4, <4>5
    <3> QED BY <3>1, <3>2
  <2> QED BY <2>1, <2>2 DEF LineHolds
<1> QED BY <1>6, <1>10


\* The thread reads the connection c: a request line, the messages of an upgraded client, or nothing.
LEMMA LineReceives ==
  ASSUME NEW r, LineRoom(r), LineInv(r), NEW c \in r.conns, Carried(r)!Receive(c)
  PROVE  LineInv(r)'
<1>1. /\ serving = "none" /\ c \in unserved /\ inbox' = [inbox EXCEPT ![c] = <<>>]
      /\ UNCHANGED <<dialled, landed, published, issued, ended, hungUp, wire, phase, rings, newest>>
  BY DEF Carried!Receive, Carried!Quiet, Carried!Nobody
<1>2. c \in DOMAIN clients /\ unserved \subseteq DOMAIN clients
  BY <1>1 DEF LineInv, LineThread
<1>3. PICK k, g, w, q, Y : k = clients[c] /\ g = landed[c] /\ w = wire[c] /\ q = inbox[c] /\ Y = LineComing(k.target)
  OBVIOUS
<1>4. /\ LineOne(r, k, g, w, q, Y) /\ Len(w) <= 1 /\ (\A x \in LineIn(g), y \in LineIn(w) : x < y)
      /\ wire = [wire EXCEPT ![c] = w]
  BY <1>1, <1>2, <1>3, LineEvery, LineTyping
<1>5. PICK b : b \in BOOLEAN /\ b = (/\ ~k.upgraded /\ q # <<>> /\ Head(q)[1] = "get"
                                     /\ Carried(r)!Admits(Head(q)[2], Head(q)[3]))
  <2>1. (/\ ~k.upgraded /\ q # <<>> /\ Head(q)[1] = "get" /\ Carried(r)!Admits(Head(q)[2], Head(q)[3])) \in BOOLEAN
    OBVIOUS
  <2> QED BY <2>1
<1>6. PICK n :
      /\ n \in IF q = <<>> THEN {k} \cup (IF k.upgraded THEN {} ELSE {[k EXCEPT !.failed = TRUE]})
               ELSE IF b THEN {Carried(r)!Read(Carried(r)!Admitted(k, Head(q)[2]), Tail(q))}
               ELSE IF k.upgraded THEN {Carried(r)!Read(k, q)} ELSE {[k EXCEPT !.failed = TRUE]}
      /\ clients' = [clients EXCEPT ![c] = n]
      /\ tickets' = IF b THEN [tickets EXCEPT ![Head(q)[2]].connected = TRUE] ELSE tickets
      /\ IF n.failed \/ ~n.upgraded THEN unserved' = unserved \ {c} /\ UNCHANGED serving
         ELSE serving' = c /\ UNCHANGED unserved
  BY <1>3, <1>5 DEF Carried!Receive
<1>7. clients'[c] = n
  BY <1>2, <1>6
<1>8. /\ unserved' \subseteq DOMAIN clients
      /\ serving' # "none" => serving' \in DOMAIN clients /\ clients'[serving'].upgraded
  BY <1>1, <1>2, <1>6, <1>7
<1>9. ASSUME LineOne(r, n, g, w, <<>>, LineComing(n.target)), LineHub(r)', LineHolds(r)' PROVE LineInv(r)'
  <2>1. wire' = [wire EXCEPT ![c] = w]
    BY <1>1, <1>4
  <2> QED BY <1>1, <1>2, <1>3, <1>4, <1>6, <1>8, <1>9, <2>1, LineServed
<1>10. ASSUME ~b, LineOne(r, n, g, w, <<>>, Y), n.target = k.target, n.token = k.token, n.upgraded = k.upgraded PROVE LineInv(r)'
  <2>1. UNCHANGED tickets
    BY <1>6, <1>10
  <2>2. LineHub(r)'
    BY <1>1, <2>1, LineHubSame DEF LineInv
  <2>3. /\ DOMAIN clients' = DOMAIN clients
        /\ \A d \in DOMAIN clients : clients'[d].token = clients[d].token /\ clients'[d].upgraded = clients[d].upgraded
    BY <1>2, <1>3, <1>6, <1>10
  <2>4. LineHolds(r)'
    BY <1>1, <2>1, <2>3, LineKeeps
  <2>5. LineOne(r, n, g, w, <<>>, LineComing(n.target))
    BY <1>3, <1>10
  <2> QED BY <1>9, <2>2, <2>4, <2>5
<1>11. ASSUME n = [k EXCEPT !.failed = TRUE], ~k.upgraded, ~b PROVE LineInv(r)'
  <2>1. LineOne(r, k, g, w, <<>>, Y)
    BY <1>4, <1>11, LineForgets
  <2>2. LineOne(r, n, g, w, <<>>, Y)
    BY <1>11, <2>1, LineFails
  <2>3. k \in LineClients(r)
    BY <1>4 DEF LineOne, LineClient
  <2>4. n.target = k.target /\ n.token = k.token /\ n.upgraded = k.upgraded
    BY <1>11, <2>3 DEF LineClients
  <2> QED BY <1>10, <1>11, <2>2, <2>4
<1>12. CASE q = <<>>
  <2>1. ~b
    BY <1>5, <1>12
  <2>2. CASE n = k
    <3>1. LineOne(r, n, g, w, <<>>, Y)
      BY <1>4, <1>12, <2>2
    <3> QED BY <1>10, <2>1, <2>2, <3>1
  <2>3. CASE n # k
    <3>1. n = [k EXCEPT !.failed = TRUE] /\ ~k.upgraded
      BY <1>6, <1>12, <2>3
    <3> QED BY <1>11, <2>1, <3>1
  <2> QED BY <2>2, <2>3
<1>13. CASE q # <<>> /\ b
  <2>1. PICK t : t = Head(q)[2]
    OBVIOUS
  <2>2. t \in DOMAIN tickets /\ ~tickets[t].connected /\ ~k.upgraded
    BY <1>5, <1>13, <2>1 DEF Carried!Admits
  <2>3. PICK a, v, Z : a = Carried(r)!Admitted(k, t) /\ v = Tail(q) /\ Z = LineComing(tickets[t].target)
    OBVIOUS
  <2>4. LineOne(r, a, g, w, v, Z) /\ a.upgraded /\ a.token = t /\ a.target = tickets[t].target
    <3>1. LineHub(r) /\ LineRings(r)
      BY DEF LineInv
    <3>2. LineOne(r, Carried(r)!Admitted(k, t), g, w, Tail(q), LineComing(tickets[t].target))
      BY <1>4, <1>13, <2>2, <3>1, LineAdmits
    <3>3. /\ Carried(r)!Admitted(k, t).upgraded /\ Carried(r)!Admitted(k, t).token = t
          /\ Carried(r)!Admitted(k, t).target = tickets[t].target
      BY <1>4, <1>13, <2>2, <3>1, LineAdmits
    <3> QED BY <2>3, <3>2, <3>3
  <2>5. n = Carried(r)!Read(a, v)
    BY <1>6, <1>13, <2>1, <2>3
  <2>6. n \in LineReads(r, a, v)
    <3>1. a \in LineClients(r) /\ v \in Seq(LineMessages(r))
      BY <2>4 DEF LineOne, LineClient
    <3> QED BY <2>5, <3>1, LineRead
  <2>7. LineOne(r, n, g, w, <<>>, Z)
    BY <2>4, <2>6, LineListens
  <2>8. n.upgraded /\ n.token = t /\ n.target = tickets[t].target
    BY <2>4, <2>6 DEF LineReads
  <2>9. tickets' = [tickets EXCEPT ![t].connected = TRUE]
    BY <1>6, <1>13, <2>1
  <2>10. LineHub(r)' /\ LineHolds(r)'
    BY <1>1, <1>2, <1>3, <1>6, <2>2, <2>8, <2>9, LineTaken
  <2>11. LineOne(r, n, g, w, <<>>, LineComing(n.target))
    BY <2>3, <2>7, <2>8
  <2> QED BY <1>9, <2>10, <2>11
<1>14. CASE q # <<>> /\ ~b /\ k.upgraded
  <2>1. n = Carried(r)!Read(k, q)
    BY <1>6, <1>14
  <2>2. n \in LineReads(r, k, q)
    <3>1. k \in LineClients(r) /\ q \in Seq(LineMessages(r))
      BY <1>4 DEF LineOne, LineClient
    <3> QED BY <2>1, <3>1, LineRead
  <2>3. LineOne(r, n, g, w, <<>>, Y)
    BY <1>4, <1>14, <2>2, LineListens
  <2>4. n.target = k.target /\ n.token = k.token /\ n.upgraded = k.upgraded
    BY <2>2 DEF LineReads
  <2> QED BY <1>10, <1>14, <2>3, <2>4
<1>15. CASE q # <<>> /\ ~b /\ ~k.upgraded
  BY <1>6, <1>11, <1>15
<1> QED BY <1>5, <1>12, <1>13, <1>14, <1>15

LEMMA LineMoves ==
  ASSUME NEW r, LineRoom(r), LineInv(r), Carried(r)!Next \/ UNCHANGED carriedVars
  PROVE  LineInv(r)'
<1>1. CASE UNCHANGED carriedVars
  BY <1>1, LineHubSame, LineThreadSame, LineRingsSame, LineWiresSame, LineHoldsSame, LineAllSame DEF LineInv, carriedVars
<1>2. CASE Carried(r)!Main
  <2>1. CASE \E s \in r.streams : Carried(r)!Publish(s)
    BY <2>1, LinePublishes
  <2>2. CASE ~\E s \in r.streams : Carried(r)!Publish(s)
    <3>1. \/ \E t \in r.tokens, o \in r.owners \cup r.sessions, s \in r.streams : Carried(r)!Attach(t, o, s)
          \/ \E t \in r.tokens, w \in r.owners, x \in r.transfers : Carried(r)!AttachResource(t, w, x)
          \/ \E t \in r.tokens : Carried(r)!Grow(t)
          \/ \E S : Carried(r)!Erase(S)
          \/ \E x \in r.streams \cup r.transfers : Carried(r)!End(x)
      BY <1>2, <2>2 DEF Carried!Main, Carried!Detach, Carried!DetachWindow, Carried!DetachStreamWindow, Carried!DetachExternal,
         Carried!Targets
    <3>2. UNCHANGED <<clients, dialled, hungUp, inbox, wire, landed, phase, unserved, serving, published, rings, newest>>
      BY <3>1 DEF Carried!Attach, Carried!AttachResource, Carried!Grow, Carried!Erase, Carried!End, Carried!pageVars, Carried!streamVars
    <3> QED BY <3>1, <3>2, LineMain
  <2> QED BY <2>1, <2>2
<1>3. CASE Carried(r)!Peer
  BY <1>3, LinePeers
<1>4. CASE Carried(r)!Pass
  BY <1>4, LineStarts, LineDistributed, LineReaps, LineDistributes, LineReceives, LineServes DEF Carried!Pass
<1>5. CASE Carried(r)!Fail
  BY <1>5, LineReaps
<1> QED BY <1>1, <1>2, <1>3, <1>4, <1>5 DEF Carried!Next

LEMMA LineBegins ==
  ASSUME NEW r, LineRoom(r), Carried(r)!Init
  PROVE  LineInv(r)
<1>1. /\ tickets = <<>> /\ issued = {} /\ ended = {} /\ clients = <<>> /\ dialled = {} /\ hungUp = {}
      /\ phase = "accept" /\ unserved = {} /\ serving = "none"
  BY DEF Carried!Init, Carried!Nobody
<1>2. /\ inbox = [c \in r.conns |-> <<>>] /\ wire = [c \in r.conns |-> <<>>] /\ landed = [c \in r.conns |-> <<>>]
      /\ published = [s \in r.streams |-> 0] /\ rings = [s \in r.streams |-> <<>>] /\ newest = [s \in r.streams |-> 0]
  BY DEF Carried!Init
<1>3. DOMAIN tickets = {} /\ DOMAIN clients = {}
  BY <1>1
<1>4. LineHub(r) /\ LineThread(r) /\ LineHolds(r) /\ LineAll(r)
  BY <1>1, <1>3 DEF LineHub, LineThread, LineHolds, LineAll
<1>5. LineRings(r)
  <2>1. PICK p \in Nat : p = r.published
    BY DEF LineRoom
  <2>2. 0 \in 0 .. p /\ <<>> \in Seq(LinePackets(r)) /\ 0 < 0 + 1
    OBVIOUS
  <2>3. ASSUME NEW s \in r.streams
        PROVE  /\ LineRising(rings[s]) /\ (\A x \in LineIn(rings[s]) : x <= published[s])
               /\ \A y \in LineComing(s) : newest[s] < y
    <3>1. rings[s] = <<>> /\ published[s] = 0 /\ newest[s] = 0
      BY <1>2
    <3>2. LineIn(rings[s]) = {} /\ LineRising(rings[s])
      BY <3>1, LineNothing
    <3>3. LineComing(s) = {0 + 1}
      BY <3>1, <3>2 DEF LineComing
    <3> QED BY <2>2, <3>1, <3>2, <3>3
  <2> QED BY <1>2, <2>1, <2>2, <2>3 DEF LineRings
<1>6. LineWires(r)
  <2>1. <<>> \in Seq(LinePackets(r)) /\ <<>> \in Seq(LineMessages(r)) /\ Len(<<>>) <= 1
    OBVIOUS
  <2>2. \A c \in r.conns : LineQuiet(landed[c], wire[c], inbox[c]) /\ landed[c] = <<>> /\ wire[c] = <<>>
    BY <1>2, LineNothing DEF LineQuiet
  <2> QED BY <1>2, <2>1, <2>2, LineNothing DEF LineWires
<1> QED BY <1>4, <1>5, <1>6 DEF LineInv

LEMMA LineSuffices ==
  ASSUME NEW r, LineRoom(r), LineInv(r)
  PROVE  Carried(r)!TypeOK /\ Carried(r)!OneHolder /\ Carried(r)!InOrder
<1>1. /\ LineHub(r) /\ LineThread(r) /\ LineRings(r) /\ LineWires(r) /\ LineHolds(r)
  BY DEF LineInv
<1>2. Carried(r)!TypeOK
  <2>1. \A t \in DOMAIN tickets : tickets[t] \in Carried(r)!Ticket
    BY <1>1, LineNames DEF LineHub
  <2>2. \A c \in DOMAIN clients : clients[c] \in Carried(r)!Client
    BY LineEvery, LineNames DEF LineOne, LineClient
  <2>3. unserved \subseteq r.conns /\ serving \in r.conns \cup {"none"}
    BY <1>1 DEF LineThread
  <2> QED BY <1>1, <2>1, <2>2, <2>3, LineNames DEF LineHub, LineThread, LineRings, Carried!TypeOK
<1>3. Carried(r)!OneHolder
  BY <1>1 DEF LineHolds, Carried!OneHolder
<1>4. Carried(r)!InOrder
  <2>1. ASSUME NEW c \in r.conns
        PROVE  /\ \A i, j \in DOMAIN (landed[c] \o wire[c]) : i < j => (landed[c] \o wire[c])[i] < (landed[c] \o wire[c])[j]
               /\ Len(wire[c]) <= 1
    <3>1. PICK g, w : g = landed[c] /\ w = wire[c]
      OBVIOUS
    <3>2. /\ g \in Seq(LinePackets(r)) /\ w \in Seq(LinePackets(r)) /\ LineRising(g) /\ Len(w) <= 1
          /\ \A x \in LineIn(g), y \in LineIn(w) : x < y
      BY <3>1, LineTyping
    <3>3. PICK m, o \in Nat : m = Len(g) /\ o = Len(w) /\ o <= 1 /\ DOMAIN g = 1 .. m /\ DOMAIN w = 1 .. o
      BY <3>2
    <3>4. PICK h : h = g \o w
      OBVIOUS
    <3>5. /\ DOMAIN h = 1 .. m + o
          /\ \A i \in 1 .. m + o : h[i] = IF i <= m THEN g[i] ELSE w[i - m]
      <4>1. h \in Seq(LinePackets(r)) /\ Len(h) = m + o /\ \A i \in 1 .. m + o : h[i] = IF i <= m THEN g[i] ELSE w[i - m]
        BY <3>2, <3>3, <3>4, ConcatProperties
      <4> QED BY <4>1
    <3>6. ASSUME NEW i \in 1 .. m + o, NEW j \in 1 .. m + o, i < j PROVE h[i] < h[j]
      <4>1. i \in 1 .. m
        BY <3>3, <3>6
      <4>2. CASE j <= m
        <5>1. j \in 1 .. m
          BY <4>2
        <5> QED BY <3>2, <3>3, <3>5, <3>6, <4>1, <4>2, <5>1 DEF LineRising
      <4>3. CASE ~(j <= m)
        <5>1. j - m \in 1 .. o
          BY <3>3, <4>3
        <5>2. h[i] = g[i] /\ h[j] = w[j - m]
          BY <3>5, <4>1, <4>3
        <5>3. g[i] \in LineIn(g) /\ w[j - m] \in LineIn(w)
          BY <3>3, <4>1, <5>1 DEF LineIn
        <5> QED BY <3>2, <5>2, <5>3
      <4> QED BY <4>2, <4>3
    <3> QED BY <3>1, <3>2, <3>4, <3>5, <3>6
  <2> QED BY <2>1 DEF Carried!InOrder
<1> QED BY <1>2, <1>3, <1>4


-----------------------------------------------------------------------------
LEMMA SocketsStep ==
  ASSUME [SocketNext]_socketVars
  PROVE  /\ socket' = socket
         /\ socket = "shared" => Carried(TwoPages)!Next \/ UNCHANGED carriedVars
         /\ socket = "renewed" => Carried(TwoTickets)!Next \/ UNCHANGED carriedVars
         /\ socket = "chunks" => Chunks!Next \/ UNCHANGED chunkVars
BY DEF SocketNext, socketVars

\* A ticket admits one connection and stays taken no longer than that connection lives; the packets of a stream
\* reach a page in their order, each once, with one unacknowledged at most (stream_transport.cpp's handshake, pump and
\* reap, native_stream.cpp's tickets); the chunks of a resource are taken once each and an acknowledgement of one is
\* true (JsfxTransfer::request); whatever the connections, tickets, windows, rings, limits, chunks and retries.
THEOREM PacketsAreHeld == SocketSpec => []PacketsHeld
<1> DEFINE Inv == /\ socket = "shared" => LineInv(TwoPages)
                  /\ socket = "renewed" => LineInv(TwoTickets)
                  /\ socket = "chunks" => ChunkInv
<1>1. SocketInit => Inv
  BY LineRooms, LineBegins, ChunkInit DEF SocketInit
<1>2. Inv /\ [SocketNext]_socketVars => Inv'
  <2> SUFFICES ASSUME Inv, [SocketNext]_socketVars PROVE Inv'
    OBVIOUS
  <2>1. CASE socket = "shared"
    BY <2>1, SocketsStep, LineRooms, LineMoves
  <2>2. CASE socket = "renewed"
    BY <2>2, SocketsStep, LineRooms, LineMoves
  <2>3. CASE socket = "chunks"
    BY <2>3, SocketsStep, ChunkNext
  <2> QED BY <2>1, <2>2, <2>3, SocketsStep
<1>3. Inv => PacketsHeld
  BY LineRooms, LineSuffices, ChunkSuffices DEF PacketsHeld
<1> QED BY <1>1, <1>2, <1>3, PTL DEF SocketSpec
=============================================================================
