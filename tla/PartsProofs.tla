----------------------------- MODULE PartsProofs -----------------------------
(***************************************************************************)
(* Proofs about the components of Parts for every value of their constants *)
(* within the assumptions of that module: the handle tables (HandleTable), *)
(* the timers and file watches (NativeTasks), the realtime sampler         *)
(* (Realtime), the inspectors (WinDevTools, GtkDevTools, MacDevTools), the *)
(* redrawing of Dockers (WinDockRedraw), the views of the Windows back end *)
(* (WindowsViews), the operations of pages on effects (JsfxControl) and    *)
(* where windows were (WindowState).                                       *)
(* A step is one of the component that moves or none, so an invariant of a *)
(* component is one of PartSpec where that component moves.                *)
(***************************************************************************)
EXTENDS Parts, SequenceFilter, FiniteSetTheorems, SequenceTheorems, WellFoundedInduction, TLAPS

\* Each component makes a step of its own or none.
LEMMA PartsStep ==
  ASSUME [PartNext]_partVars
  PROVE  /\ part' = part
         /\ part = "handles" => Table!Next \/ UNCHANGED handleVars
         /\ part = "tasks" => Tasks!Next \/ UNCHANGED taskVars
         /\ part = "sampling" => Sampling!Next \/ UNCHANGED samplerVars
         /\ part = "gestures" => Control(Gestures)!Next \/ UNCHANGED controlVars
         /\ part = "notes" => Control(Notes)!Next \/ UNCHANGED controlVars
         /\ part = "presenting" => Views(Apps, {})!Next \/ UNCHANGED viewVars
         /\ part = "hosted" => Views(FxPages, FxPages)!Next \/ UNCHANGED viewVars
         /\ part = "redraw" => Draws(Dockers, MaxDepth)!Next \/ UNCHANGED drawVars
         /\ part = "nested" => Draws(Nested, MaxNested)!Next \/ UNCHANGED drawVars
         /\ part = "winspector" => Win!Next \/ UNCHANGED winVars
         /\ part = "gtkinspector" => Gtk!Next \/ UNCHANGED gtkVars
         /\ part = "macinspector" => Mac!Next \/ UNCHANGED macVars
         /\ part = "places" => Saved(Single, MaxSaves, MaxMoves, MaxCrashes)!Next \/ UNCHANGED placeVars
         /\ part = "slots" => Saved(Several, FewSaves, FewMoves, FewCrashes)!Next \/ UNCHANGED placeVars
BY DEF PartNext, partVars

-----------------------------------------------------------------------------
(* Numbers and sequences.                                                   *)

LEMMA SetInduction ==
  ASSUME NEW S, 0 \in S, \A n \in Nat : n \in S => n + 1 \in S
  PROVE  Nat \subseteq S
<1> DEFINE T == Nat \ S
           R == OpToRel(<, Nat)
<1>1. SUFFICES ASSUME T # {} PROVE FALSE
  OBVIOUS
<1>2. \A x, y \in Nat : <<x, y>> \in R <=> x < y
  BY DEF OpToRel
<1>3. IsWellFoundedOn(R, Nat)
  BY NatLessThanWellFounded
<1> HIDE DEF R
<1>4. PICK m \in T : \A k \in T : ~(<<k, m>> \in R)
  BY <1>1, <1>3, WFMin
<1>5. \A k \in T : ~(k < m)
  BY <1>2, <1>4
<1>6. m \in Nat \ {0}
  BY <1>4
<1>7. m - 1 \in Nat /\ m - 1 \notin T
  BY <1>5, <1>6
<1> QED BY <1>6, <1>7

\* Two functions that begin alike and go on alike are alike.
Follows(f, g, n) == \A i \in 1 .. n : f[i - 1] = g[i - 1] => f[i] = g[i]

LEMMA SameUpTo ==
  ASSUME NEW n \in Nat, NEW f, NEW g, f[0] = g[0], Follows(f, g, n)
  PROVE  f[n] = g[n]
<1> DEFINE S == {k \in Nat : k <= n => f[k] = g[k]}
<1>1. 0 \in S
  OBVIOUS
<1>2. ASSUME NEW k \in Nat, k \in S PROVE k + 1 \in S
  <2>1. CASE k + 1 <= n
    <3>1. k + 1 \in 1 .. n /\ (k + 1) - 1 = k
      BY <2>1
    <3>2. f[k + 1] = g[k + 1]
      BY <1>2, <2>1, <3>1 DEF Follows
    <3> QED BY <3>2
  <2>2. CASE ~(k + 1 <= n)
    BY <2>2
  <2> QED BY <2>1, <2>2
<1> HIDE DEF S
<1>3. n \in S
  BY <1>1, <1>2, SetInduction
<1> QED BY <1>3 DEF S

\* The value of f at 0 is "base", and each of the next n comes from the one below it.
Iterates(f, n, base, step) == f[0] = base /\ \A i \in 1 .. n : f[i] = step[i][f[i - 1]]

\* Such a function exists.
LEMMA Recursion ==
  ASSUME NEW n \in Nat, NEW V, NEW base \in V, NEW step \in [1 .. n -> [V -> V]]
  PROVE  \E f \in [0 .. n -> V] : Iterates(f, n, base, step)
<1> DEFINE Upto(k, f) == f[0] = base /\ \A i \in 1 .. k : f[i] = step[i][f[i - 1]]
           S == {k \in Nat : k <= n => \E f \in [0 .. k -> V] : Upto(k, f)}
<1>1. 0 \in S
  <2>1. PICK f : f = [i \in 0 .. 0 |-> base]
    OBVIOUS
  <2>2. f \in [0 .. 0 -> V] /\ Upto(0, f)
    <3>1. \A i \in 1 .. 0 : FALSE
      OBVIOUS
    <3> QED BY <2>1, <3>1
  <2> QED BY <2>2
<1>2. ASSUME NEW k \in Nat, k \in S PROVE k + 1 \in S
  <2>1. SUFFICES ASSUME k + 1 <= n PROVE \E f \in [0 .. k + 1 -> V] : Upto(k + 1, f)
    OBVIOUS
  <2>2. PICK f \in [0 .. k -> V] : Upto(k, f)
    BY <1>2, <2>1
  <2>3. PICK g : g = [i \in 0 .. k + 1 |-> IF i = k + 1 THEN step[i][f[k]] ELSE f[i]]
    OBVIOUS
  <2>4. step[k + 1][f[k]] \in V
    <3>1. k + 1 \in 1 .. n /\ f[k] \in V
      BY <2>1
    <3> QED BY <3>1
  <2>5. ASSUME NEW i \in 1 .. k + 1 PROVE g[i] = step[i][g[i - 1]]
    <3>1. CASE i = k + 1
      <4>1. i - 1 = k /\ i - 1 \in 0 .. k + 1 /\ i - 1 # k + 1
        BY <3>1
      <4>2. g[i - 1] = f[k] /\ g[i] = step[i][f[k]]
        BY <2>3, <3>1, <4>1
      <4> QED BY <4>2
    <3>2. CASE i # k + 1
      <4>1. i \in 1 .. k /\ i \in 0 .. k + 1 /\ i - 1 \in 0 .. k + 1 /\ i - 1 # k + 1
        BY <3>2
      <4>2. g[i] = f[i] /\ g[i - 1] = f[i - 1]
        BY <2>3, <3>2, <4>1
      <4> QED BY <2>2, <4>1, <4>2
    <3> QED BY <3>1, <3>2
  <2>6. g \in [0 .. k + 1 -> V]
    BY <2>3, <2>4
  <2>7. Upto(k + 1, g)
    <3>1. 0 \in 0 .. k + 1 /\ 0 # k + 1
      OBVIOUS
    <3>2. g[0] = base
      BY <2>2, <2>3, <3>1
    <3> QED BY <2>5, <3>2
  <2> QED BY <2>6, <2>7
<1> HIDE DEF S
<1>3. n \in S
  BY <1>1, <1>2, SetInduction
<1> QED BY <1>3 DEF S, Iterates

-----------------------------------------------------------------------------
(* The elements of a sequence that are in a set.                            *)

\* u gives what is kept of each prefix of q.
Keeping(u, q, S) ==
  /\ u[0] = <<>>
  /\ \A i \in 1 .. Len(q) : u[i] = IF q[i] \in S THEN Append(u[i - 1], q[i]) ELSE u[i - 1]
  /\ Among(q, S) = u[Len(q)]

LEMMA AmongUpTo ==
  ASSUME NEW T, NEW q \in Seq(T), NEW S
  PROVE  \E u \in [0 .. Len(q) -> Seq(T)] : Keeping(u, q, S)
<1> DEFINE Keeps(g) == g = [n \in 0 .. Len(q) |-> IF n = 0 THEN <<>>
                                                 ELSE IF q[n] \in S THEN Append(g[n - 1], q[n]) ELSE g[n - 1]]
           step == [i \in 1 .. Len(q) |-> [v \in Seq(T) |-> IF q[i] \in S THEN Append(v, q[i]) ELSE v]]
<1>1. \A i \in 1 .. Len(q) : q[i] \in T
  OBVIOUS
<1>2. step \in [1 .. Len(q) -> [Seq(T) -> Seq(T)]]
  <2>1. \A i \in 1 .. Len(q), v \in Seq(T) : Append(v, q[i]) \in Seq(T)
    BY <1>1
  <2> QED BY <2>1
<1>3. PICK u \in [0 .. Len(q) -> Seq(T)] : u[0] = <<>> /\ \A i \in 1 .. Len(q) : u[i] = step[i][u[i - 1]]
  <2>1. Len(q) \in Nat /\ <<>> \in Seq(T)
    OBVIOUS
  <2> HIDE DEF step
  <2>2. \E f \in [0 .. Len(q) -> Seq(T)] : Iterates(f, Len(q), <<>>, step)
    BY <1>2, <2>1, Recursion
  <2> QED BY <2>2 DEF Iterates
<1>4. \A i \in 1 .. Len(q) : step[i][u[i - 1]] = IF q[i] \in S THEN Append(u[i - 1], q[i]) ELSE u[i - 1]
  <2>1. \A i \in 1 .. Len(q) : i - 1 \in 0 .. Len(q)
    OBVIOUS
  <2>2. \A i \in 1 .. Len(q) : u[i - 1] \in Seq(T)
    BY <2>1
  <2> QED BY <2>2
<1>5. Keeps(u)
  <2>1. \A i \in 0 .. Len(q) : i # 0 => i \in 1 .. Len(q)
    OBVIOUS
  <2>2. \A i \in 0 .. Len(q) :
          u[i] = IF i = 0 THEN <<>> ELSE IF q[i] \in S THEN Append(u[i - 1], q[i]) ELSE u[i - 1]
    <3> HIDE DEF step
    <3> QED BY <1>3, <1>4, <2>1
  <2> QED BY <2>2
<1>6. PICK g : Keeps(g) /\ Among(q, S) = g[Len(q)]
  BY <1>5 DEF Among
<1>7. ASSUME NEW h, Keeps(h)
      PROVE  h[0] = <<>> /\ \A i \in 1 .. Len(q) : h[i] = IF q[i] \in S THEN Append(h[i - 1], q[i]) ELSE h[i - 1]
  <2>1. \A i \in 0 .. Len(q) :
          h[i] = IF i = 0 THEN <<>> ELSE IF q[i] \in S THEN Append(h[i - 1], q[i]) ELSE h[i - 1]
    BY <1>7
  <2>2. 0 \in 0 .. Len(q) /\ \A i \in 1 .. Len(q) : i \in 0 .. Len(q) /\ i # 0
    OBVIOUS
  <2> HIDE DEF Keeps
  <2> QED BY <2>1, <2>2
<1>8. u[0] = <<>> /\ \A i \in 1 .. Len(q) : u[i] = IF q[i] \in S THEN Append(u[i - 1], q[i]) ELSE u[i - 1]
  <2> HIDE DEF Keeps
  <2> QED BY <1>5, <1>7
<1>9. u[Len(q)] = g[Len(q)]
  <2> HIDE DEF Keeps
  <2>0. g[0] = <<>> /\ \A i \in 1 .. Len(q) : g[i] = IF q[i] \in S THEN Append(g[i - 1], q[i]) ELSE g[i - 1]
    BY <1>6, <1>7
  <2>1. Follows(u, g, Len(q))
    BY <2>0, <1>8 DEF Follows
  <2>2. Len(q) \in Nat /\ u[0] = g[0]
    BY <2>0, <1>8
  <2> QED BY <2>1, <2>2, SameUpTo
<1>10. Keeping(u, q, S)
  <2> HIDE DEF Keeps
  <2> QED BY <1>6, <1>8, <1>9 DEF Keeping
<1> QED BY <1>10

\* f tells where in q each element of r comes from.
Embeds(f, r, q) ==
  /\ f \in [1 .. Len(r) -> 1 .. Len(q)]
  /\ \A i, j \in 1 .. Len(r) : i < j => f[i] < f[j]
  /\ \A i \in 1 .. Len(r) : r[i] = q[f[i]]

\* What is among a set is a part of the sequence: the elements that are in the set, and all of them.
LEMMA AmongEmbeds ==
  ASSUME NEW T, NEW q \in Seq(T), NEW S
  PROVE  /\ Among(q, S) \in Seq(T)
         /\ \E f : /\ Embeds(f, Among(q, S), q)
                   /\ \A i \in 1 .. Len(Among(q, S)) : q[f[i]] \in S
                   /\ \A i \in 1 .. Len(q) : q[i] \in S => \E k \in 1 .. Len(Among(q, S)) : f[k] = i
<1>0. PICK u \in [0 .. Len(q) -> Seq(T)] : Keeping(u, q, S)
  BY AmongUpTo
<1>1. /\ u[0] = <<>>
      /\ \A i \in 1 .. Len(q) : u[i] = IF q[i] \in S THEN Append(u[i - 1], q[i]) ELSE u[i - 1]
      /\ Among(q, S) = u[Len(q)]
  BY <1>0 DEF Keeping
<1> DEFINE Good(n, f) == /\ f \in [1 .. Len(u[n]) -> 1 .. n]
                         /\ \A i, j \in 1 .. Len(u[n]) : i < j => f[i] < f[j]
                         /\ \A i \in 1 .. Len(u[n]) : u[n][i] = q[f[i]] /\ q[f[i]] \in S
                         /\ \A i \in 1 .. n : q[i] \in S => \E k \in 1 .. Len(u[n]) : f[k] = i
           Dom == {n \in Nat : n <= Len(q) => \E f : Good(n, f)}
<1>2. 0 \in Dom
  <2>1. Len(u[0]) = 0
    BY <1>1
  <2>2. Good(0, <<>>)
    BY <2>1
  <2>3. \E f : Good(0, f)
    <3> HIDE DEF Good
    <3> QED BY <2>2
  <2> HIDE DEF Good
  <2> QED BY <2>3
<1>3. ASSUME NEW n \in Nat, n \in Dom PROVE n + 1 \in Dom
  <2> HIDE DEF Good
  <2>0. SUFFICES ASSUME n + 1 <= Len(q) PROVE \E f : Good(n + 1, f)
    OBVIOUS
  <2>1. PICK f : Good(n, f)
    BY <1>3, <2>0
  <2> USE DEF Good
  <2>2. /\ n + 1 \in 1 .. Len(q) /\ n \in 0 .. Len(q) /\ (n + 1) - 1 = n
        /\ u[n] \in Seq(T) /\ q[n + 1] \in T
    OBVIOUS
  <2>3. CASE q[n + 1] \notin S
    <3>1. u[n + 1] = u[n]
      BY <1>1, <2>2, <2>3
    <3>2. f \in [1 .. Len(u[n]) -> 1 .. n + 1]
      BY <2>1
    <3>3. \A i \in 1 .. n + 1 : q[i] \in S => \E k \in 1 .. Len(u[n]) : f[k] = i
      BY <2>1, <2>3
    <3>4. Good(n + 1, f)
      BY <2>1, <3>1, <3>2, <3>3
    <3> QED BY <3>4
  <2>4. CASE q[n + 1] \in S
    <3> DEFINE m == Len(u[n])
    <3>1. u[n + 1] = Append(u[n], q[n + 1])
      BY <1>1, <2>2, <2>4
    <3>2. /\ m \in Nat /\ Len(u[n + 1]) = m + 1 /\ u[n + 1][m + 1] = q[n + 1]
          /\ \A i \in 1 .. m : u[n + 1][i] = u[n][i]
      BY <2>2, <3>1
    <3> DEFINE g == [i \in 1 .. m + 1 |-> IF i = m + 1 THEN n + 1 ELSE f[i]]
    <3> HIDE DEF m
    <3>3. /\ f \in [1 .. m -> 1 .. n] /\ (\A i, j \in 1 .. m : i < j => f[i] < f[j])
          /\ (\A i \in 1 .. m : u[n][i] = q[f[i]] /\ q[f[i]] \in S)
          /\ \A i \in 1 .. n : q[i] \in S => \E k \in 1 .. m : f[k] = i
      BY <2>1 DEF m
    <3>4. \A i \in 1 .. m + 1 : i = m + 1 \/ (i \in 1 .. m /\ i # m + 1)
      BY <3>2
    <3>4a. \A i \in 1 .. m : i \in 1 .. m + 1 /\ i # m + 1
      BY <3>2
    <3>5. /\ g[m + 1] = n + 1 /\ \A i \in 1 .. m : g[i] = f[i]
      <4>1. m + 1 \in 1 .. m + 1
        BY <3>2
      <4> QED BY <3>4a, <4>1
    <3>6. g \in [1 .. m + 1 -> 1 .. n + 1]
      <4>1. n + 1 \in 1 .. n + 1 /\ \A i \in 1 .. n : i \in 1 .. n + 1
        OBVIOUS
      <4>2. \A i \in 1 .. m + 1 : g[i] \in 1 .. n + 1
        BY <3>3, <3>4, <3>5, <4>1
      <4> QED BY <4>2
    <3> HIDE DEF g
    <3>7. \A i, j \in 1 .. m + 1 : i < j => g[i] < g[j]
      <4> SUFFICES ASSUME NEW i \in 1 .. m + 1, NEW j \in 1 .. m + 1, i < j PROVE g[i] < g[j]
        OBVIOUS
      <4>1. i \in 1 .. m
        BY <3>2
      <4>2. g[i] = f[i] /\ f[i] \in 1 .. n
        BY <3>3, <3>5, <4>1
      <4>3. CASE j = m + 1
        BY <3>5, <4>2, <4>3
      <4>4. CASE j \in 1 .. m
        <5>1. g[j] = f[j] /\ f[i] < f[j]
          BY <3>3, <3>5, <4>1, <4>4
        <5> QED BY <4>2, <5>1
      <4> QED BY <3>4, <4>3, <4>4
    <3>8. \A i \in 1 .. m + 1 : u[n + 1][i] = q[g[i]] /\ q[g[i]] \in S
      BY <2>4, <3>2, <3>3, <3>4, <3>5
    <3>9. \A i \in 1 .. n + 1 : q[i] \in S => \E k \in 1 .. m + 1 : g[k] = i
      <4> SUFFICES ASSUME NEW i \in 1 .. n + 1, q[i] \in S PROVE \E k \in 1 .. m + 1 : g[k] = i
        OBVIOUS
      <4>1. CASE i = n + 1
        <5>1. m + 1 \in 1 .. m + 1
          BY <3>2
        <5> QED BY <3>5, <4>1, <5>1
      <4>2. CASE i # n + 1
        <5>1. i \in 1 .. n
          BY <4>2
        <5>2. PICK k \in 1 .. m : f[k] = i
          BY <3>3, <5>1
        <5> QED BY <3>4a, <3>5, <5>2
      <4> QED BY <4>1, <4>2
    <3>10. Good(n + 1, g)
      BY <3>2, <3>6, <3>7, <3>8, <3>9
    <3> QED BY <3>10
  <2> QED BY <2>3, <2>4
<1>4. Len(q) \in Dom
  <2>1. Len(q) \in Nat
    OBVIOUS
  <2> HIDE DEF Dom
  <2> QED BY <1>2, <1>3, <2>1, SetInduction
<1>5. Len(q) \in 0 .. Len(q)
  OBVIOUS
<1>6. Len(q) <= Len(q) /\ u[Len(q)] \in Seq(T)
  BY <1>5
<1>7. \E f : Good(Len(q), f)
  <2> HIDE DEF Good
  <2> QED BY <1>4, <1>6
<1>8. PICK f : Good(Len(q), f)
  <2> HIDE DEF Good
  <2> QED BY <1>7
<1>9. /\ Embeds(f, Among(q, S), q)
      /\ \A i \in 1 .. Len(Among(q, S)) : q[f[i]] \in S
      /\ \A i \in 1 .. Len(q) : q[i] \in S => \E k \in 1 .. Len(Among(q, S)) : f[k] = i
  BY <1>1, <1>8 DEF Embeds
<1> HIDE DEF Good
<1>10. Among(q, S) \in Seq(T)
  BY <1>1, <1>6
<1> QED BY <1>9, <1>10

\* No more of them than there were.
LEMMA AmongLength ==
  ASSUME NEW T, NEW q \in Seq(T), NEW S
  PROVE  Len(Among(q, S)) <= Len(q)
<1>1. PICK u \in [0 .. Len(q) -> Seq(T)] : Keeping(u, q, S)
  BY AmongUpTo
<1> DEFINE Within == {n \in Nat : n <= Len(q) => Len(u[n]) <= n}
<1>2. 0 \in Within
  BY <1>1 DEF Keeping
<1>3. ASSUME NEW n \in Nat, n \in Within PROVE n + 1 \in Within
  <2>1. SUFFICES ASSUME n + 1 <= Len(q) PROVE Len(u[n + 1]) <= n + 1
    OBVIOUS
  <2>2. n + 1 \in 1 .. Len(q) /\ n \in 0 .. Len(q) /\ (n + 1) - 1 = n /\ n <= Len(q)
    BY <2>1
  <2>3. u[n + 1] = IF q[n + 1] \in S THEN Append(u[n], q[n + 1]) ELSE u[n]
    BY <1>1, <2>2 DEF Keeping
  <2>4. u[n] \in Seq(T) /\ Len(u[n]) \in Nat /\ Len(u[n]) <= n
    BY <1>3, <2>2
  <2>5. Len(u[n + 1]) \in {Len(u[n]), Len(u[n]) + 1}
    BY <2>3, <2>4
  <2> QED BY <2>4, <2>5
<1> HIDE DEF Within
<1>4. Len(q) \in Within
  BY <1>2, <1>3, SetInduction
<1>5. Len(u[Len(q)]) <= Len(q)
  BY <1>4 DEF Within
<1> QED BY <1>1, <1>5 DEF Keeping

\* Some of them come first.
LEMMA SomeFirst ==
  ASSUME NEW S \in SUBSET Nat, S # {}
  PROVE  \E i \in S : \A j \in S : i <= j
<1>1. SUFFICES ASSUME \A i \in S : \E j \in S : ~(i <= j) PROVE FALSE
  OBVIOUS
<1> DEFINE Before == {n \in Nat : \A i \in S : n <= i}
<1>2. 0 \in Before
  OBVIOUS
<1>3. ASSUME NEW n \in Nat, n \in Before PROVE n + 1 \in Before
  <2>1. ASSUME NEW i \in S PROVE n + 1 <= i
    <3>1. PICK j \in S : ~(i <= j)
      BY <1>1
    <3> QED BY <1>3, <3>1
  <2> QED BY <2>1
<1> HIDE DEF Before
<1>4. PICK i \in S : TRUE
  OBVIOUS
<1>5. i + 1 \in Before
  BY <1>2, <1>3, <1>4, SetInduction
<1>6. i + 1 <= i
  BY <1>4, <1>5 DEF Before
<1> QED BY <1>4, <1>6

-----------------------------------------------------------------------------
(* The handle tables.  A table has one handle for an address; what a        *)
(* document owns is there, used by no take and no other document's; and     *)
(* every take has a source of its own.                                      *)

OneEach(t) == \A h, g \in t : h.at = g.at => h = g
OneAt == \A c \in Contexts : OneEach(handles[c])
OwnedThere ==
  \A c \in Contexts : \A h \in handles[c] :
    h.owned => h.type # "take" /\ heap[h.at].type = h.type /\ ~Table!Attached(heap, h.at)
OneOwner ==
  \A c, d \in Contexts : \A h \in handles[c], g \in handles[d] : h.owned /\ g.owned /\ h.at = g.at => c = d
TakesApart ==
  /\ \A a \in Addresses :
       heap[a].type = "take" => heap[a].source \in Addresses /\ heap[heap[a].source].type = "source"
  /\ \A a, b \in Addresses :
       heap[a].type = "take" /\ heap[b].type = "take" /\ heap[a].source = heap[b].source => a = b
HandlesInv == Table!TypeOK /\ OneAt /\ OwnedThere /\ OneOwner /\ TakesApart

Memory == [id : 0 .. MaxObjects, type : Table!Types \union {"none"}, source : Addresses \union {NoObject}]

LEMMA HandleTypes ==
  ASSUME HandlesInv, NEW c \in Contexts
  PROVE  /\ heap \in [Addresses -> Memory] /\ handles \in [Contexts -> SUBSET Table!Handle]
         /\ scan \in [Contexts -> Seq(1 .. MaxTokens)] /\ tokens \in [Contexts -> 0 .. MaxTokens]
         /\ tokens[c] \in Nat /\ scan[c] \in Seq(1 .. tokens[c]) /\ Len(scan[c]) \in Nat
         /\ \A h \in handles[c] : /\ h \in Table!Handle /\ h.token \in 1 .. tokens[c] /\ h.at \in Addresses
                                  /\ h.type \in {"take", "source", "accessor"} /\ h.owned \in BOOLEAN
                                  /\ h.identity \in 0 .. MaxObjects
<1>1. Table!TypeOK /\ MaxTokens \in Nat
  BY HandlesAssumption DEF HandlesInv
<1>2. /\ heap \in [Addresses -> Memory] /\ handles \in [Contexts -> SUBSET Table!Handle]
      /\ scan \in [Contexts -> Seq(1 .. MaxTokens)] /\ tokens \in [Contexts -> 0 .. MaxTokens]
  BY <1>1 DEF Table!TypeOK, Memory
<1>3. \A h \in handles[c] : h \in Table!Handle /\ h.token <= tokens[c]
  BY <1>1, <1>2 DEF Table!TypeOK
<1>4. tokens[c] \in 0 .. MaxTokens /\ scan[c] \in Seq(1 .. MaxTokens)
  BY <1>2
<1>5. \A h \in Table!Handle : h.token <= tokens[c] => h.token \in 1 .. tokens[c]
  BY <1>1, <1>4 DEF Table!Handle
<1>6. scan[c] \in Seq(1 .. tokens[c])
  <2>1. \A i \in 1 .. Len(scan[c]) : scan[c][i] \in 1 .. MaxTokens /\ scan[c][i] <= tokens[c]
    BY <1>1, <1>4 DEF Table!TypeOK
  <2>2. \A i \in 1 .. Len(scan[c]) : scan[c][i] \in 1 .. tokens[c]
    BY <1>1, <1>4, <2>1
  <2> QED BY <1>4, <2>2
<1>7. \A h \in Table!Handle : /\ h.at \in Addresses /\ h.type \in {"take", "source", "accessor"}
                                /\ h.owned \in BOOLEAN /\ h.identity \in 0 .. MaxObjects
  BY DEF Table!Handle, Table!Types
<1>8. tokens[c] \in Nat /\ Len(scan[c]) \in Nat
  BY <1>1, <1>4
<1> QED BY <1>2, <1>3, <1>5, <1>6, <1>7, <1>8

NewHandle(token, a, type, identity, owned) ==
  [token |-> token, at |-> a, type |-> type, identity |-> identity, owned |-> owned]

\* What handle() leaves: handles of before and perhaps the new one, one for each address, one of the type at a.
IssuedWell(c, a, type, identity, owned, r) ==
  /\ r.tokens \in Nat /\ tokens[c] <= r.tokens /\ r.scan \in Seq(1 .. r.tokens)
  /\ \A h \in r.table : h \in handles[c] \/ (h = NewHandle(r.tokens, a, type, identity, owned) /\ r.tokens > tokens[c])
  /\ OneEach(r.table)
  /\ \E h \in r.table : h.at = a /\ h.type = type

LEMMA AmongSame == ASSUME NEW q, NEW S PROVE Table!Among(q, S) = Among(q, S)
BY DEF Table!Among, Among

LEMMA IssuedTable ==
  ASSUME HandlesInv, NEW c \in Contexts, NEW a, NEW type, NEW identity, NEW owned
  PROVE  IssuedWell(c, a, type, identity, owned, Table!Issued(c, a, type, identity, owned))
<1> DEFINE t == handles[c]
           kept == Table!Pruned(c, t \ Table!At(t, a))
           new == NewHandle(tokens[c] + 1, a, type, identity, owned)
           r == Table!Issued(c, a, type, identity, owned)
<1>1. OneEach(t) /\ tokens[c] \in Nat /\ scan[c] \in Seq(1 .. tokens[c]) /\ Len(scan[c]) \in Nat
  BY HandleTypes DEF HandlesInv, OneAt
<1>2. CASE \E h \in Table!At(t, a) : h.type = type /\ h.identity = identity
  <2>1. r = [table |-> t, scan |-> scan[c], tokens |-> tokens[c]]
    BY <1>2 DEF Table!Issued
  <2>2. r.table = t /\ r.scan = scan[c] /\ r.tokens = tokens[c]
    BY <2>1
  <2>3. \E h \in t : h.at = a /\ h.type = type
    BY <1>2 DEF Table!At
  <2> HIDE DEF r
  <2>4. /\ r.tokens \in Nat /\ tokens[c] <= r.tokens /\ r.scan \in Seq(1 .. r.tokens)
        /\ OneEach(r.table) /\ \A h \in r.table : h \in handles[c]
    BY <1>1, <2>2
  <2>5. IssuedWell(c, a, type, identity, owned, r)
    BY <2>2, <2>3, <2>4 DEF IssuedWell
  <2> QED BY <2>5 DEF r
<1>3. CASE ~\E h \in Table!At(t, a) : h.type = type /\ h.identity = identity
  <2>1. r = [table |-> kept \union {new}, scan |-> Append(Table!Turned(c, kept), tokens[c] + 1),
             tokens |-> tokens[c] + 1]
    BY <1>3 DEF Table!Issued, NewHandle
  <2>2. /\ r.table = kept \union {new} /\ r.tokens = tokens[c] + 1
        /\ r.scan = Append(Table!Turned(c, kept), tokens[c] + 1)
    BY <2>1
  <2>3. \A h \in kept : h \in t /\ h.at # a
    BY DEF Table!Pruned, Table!At
  <2>4. new.at = a /\ new.type = type
    BY DEF NewHandle
  <2>5. OneEach(kept \union {new})
    BY <1>1, <2>3, <2>4 DEF OneEach
  <2>6. Table!Turned(c, kept) \in Seq(1 .. tokens[c] + 1)
    <3> DEFINE s == scan[c]
               n == Table!Steps(c)
               first == SubSeq(s, 1, n)
               rest == SubSeq(s, n + 1, Len(s))
               left == {h.token : h \in kept}
    <3>1. s \in Seq(1 .. tokens[c] + 1)
      <4>1. \A i \in 1 .. tokens[c] : i \in 1 .. tokens[c] + 1
        BY <1>1
      <4>2. \A i \in 1 .. Len(s) : s[i] \in 1 .. tokens[c]
        BY <1>1
      <4> QED BY <1>1, <4>1, <4>2
    <3>2. n \in 0 .. Len(s)
      BY <1>1, HandlesAssumption DEF Table!Steps
    <3> HIDE DEF s, n
    <3>3. first \in Seq(1 .. tokens[c] + 1) /\ rest \in Seq(1 .. tokens[c] + 1)
      <4>1. /\ \A i \in 1 .. n : s[i] \in 1 .. tokens[c] + 1
            /\ \A i \in n + 1 .. Len(s) : s[i] \in 1 .. tokens[c] + 1
        <5>1. \A i \in 1 .. Len(s) : s[i] \in 1 .. tokens[c] + 1
          <6>1. \A T : s \in Seq(T) => \A i \in 1 .. Len(s) : s[i] \in T
            OBVIOUS
          <6> QED BY <3>1, <6>1
        <5>2. Len(s) \in Nat
          BY <3>1
        <5>3. (\A i \in 1 .. n : i \in 1 .. Len(s)) /\ \A i \in n + 1 .. Len(s) : i \in 1 .. Len(s)
          BY <3>2, <5>2
        <5> QED BY <5>1, <5>3
      <4>2. n \in Nat /\ Len(s) \in Nat /\ n + 1 \in Nat
        BY <3>1, <3>2
      <4> QED BY <3>1, <3>2, <4>1, <4>2, SubSeqProperties
    <3>4. Among(first, left) \in Seq(1 .. tokens[c] + 1)
      <4> HIDE DEF first, left
      <4> QED BY <3>3, AmongEmbeds
    <3>5. Table!Turned(c, kept) = rest \o Among(first, left)
      BY AmongSame DEF Table!Turned, s, n
    <3> HIDE DEF first, rest, left, kept
    <3> QED BY <3>3, <3>4, <3>5
  <2>7. r.scan \in Seq(1 .. r.tokens)
    BY <1>1, <2>2, <2>6
  <2>8. /\ r.tokens \in Nat /\ tokens[c] <= r.tokens /\ r.tokens > tokens[c]
        /\ new = NewHandle(r.tokens, a, type, identity, owned)
    BY <1>1, <2>2
  <2> QED BY <2>2, <2>3, <2>4, <2>5, <2>7, <2>8 DEF IssuedWell
<1> QED BY <1>2, <1>3

MemoryTyped == heap \in [Addresses -> Memory] /\ allocated \in 0 .. MaxObjects /\ resets \in 0 .. MaxResets
TablesTyped ==
  /\ tokens \in [Contexts -> 0 .. MaxTokens]
  /\ handles \in [Contexts -> SUBSET Table!Handle] /\ scan \in [Contexts -> Seq(1 .. MaxTokens)]
  /\ \A c \in Contexts :
       /\ \A i \in DOMAIN scan[c] : scan[c][i] <= tokens[c]
       /\ \A h \in handles[c] : h.token <= tokens[c]

LEMMA HandlesTyped == Table!TypeOK <=> MemoryTyped /\ TablesTyped
BY DEF Table!TypeOK, MemoryTyped, TablesTyped, Memory

\* Only REAPER's memory changes.
LEMMA MemoryStep ==
  ASSUME HandlesInv, UNCHANGED <<handles, scan, tokens>>, MemoryTyped', OwnedThere', TakesApart'
  PROVE  HandlesInv'
<1>1. TablesTyped /\ OneAt /\ OneOwner
  BY HandlesTyped DEF HandlesInv
<1>2. TablesTyped' /\ OneAt' /\ OneOwner'
  BY <1>1 DEF TablesTyped, OneAt, OneOwner
<1> QED BY <1>2, HandlesTyped DEF HandlesInv, Table!TypeOK, MemoryTyped, TablesTyped, Memory

LEMMA AddTakeStep == ASSUME HandlesInv, Table!AddTake PROVE HandlesInv'
<1>1. PICK a \in Addresses :
        \E b \in Addresses :
          /\ a # b /\ heap[a] = Table!Free /\ heap[b] = Table!Free
          /\ heap' = [heap EXCEPT ![a] = [id |-> allocated + 1, type |-> "take", source |-> b],
                                  ![b] = [id |-> allocated + 2, type |-> "source", source |-> NoObject]]
  BY DEF Table!AddTake
<1>2. PICK b \in Addresses :
        /\ a # b /\ heap[a] = Table!Free /\ heap[b] = Table!Free
        /\ heap' = [heap EXCEPT ![a] = [id |-> allocated + 1, type |-> "take", source |-> b],
                                ![b] = [id |-> allocated + 2, type |-> "source", source |-> NoObject]]
  BY <1>1
<1>3. /\ allocated + 2 <= MaxObjects /\ allocated' = allocated + 2 /\ UNCHANGED <<handles, scan, tokens, resets>>
      /\ MemoryTyped /\ OwnedThere /\ TakesApart /\ MaxObjects \in Nat
  BY HandlesTyped, HandlesAssumption DEF HandlesInv, Table!AddTake
<1>4. /\ heap'[a] = [id |-> allocated + 1, type |-> "take", source |-> b]
      /\ heap'[b] = [id |-> allocated + 2, type |-> "source", source |-> NoObject]
      /\ \A x \in Addresses : x # a /\ x # b => heap'[x] = heap[x]
      /\ heap[a].type = "none" /\ heap[b].type = "none"
  BY <1>2, <1>3 DEF MemoryTyped, Table!Free
<1>5. heap'[a].type = "take" /\ heap'[a].source = b /\ heap'[b].type = "source"
  BY <1>4
<1>6. MemoryTyped'
  <2>1. allocated + 1 \in 0 .. MaxObjects /\ allocated + 2 \in 0 .. MaxObjects
    BY <1>3 DEF MemoryTyped
  <2>2. heap'[a] \in Memory /\ heap'[b] \in Memory
    BY <1>4, <2>1 DEF Memory, Table!Types
  <2>3. heap' \in [Addresses -> Memory]
    BY <1>2, <1>3, <1>4, <2>2 DEF MemoryTyped
  <2> QED BY <1>3, <2>1, <2>3 DEF MemoryTyped
<1>7. OwnedThere'
  <2> SUFFICES ASSUME NEW c \in Contexts, NEW h \in handles'[c], h.owned
               PROVE  h.type # "take" /\ heap'[h.at].type = h.type /\ ~Table!Attached(heap', h.at)
    BY DEF OwnedThere
  <2>1. h \in handles[c] /\ h.at \in Addresses /\ h.type # "none"
    BY <1>3, HandleTypes
  <2>2. h.type # "take" /\ heap[h.at].type = h.type /\ ~Table!Attached(heap, h.at)
    BY <1>3, <2>1 DEF OwnedThere
  <2>3. h.at # a /\ h.at # b /\ heap'[h.at].type = h.type
    BY <1>4, <2>1, <2>2
  <2>4. ~Table!Attached(heap', h.at)
    BY <1>4, <1>5, <2>2, <2>3 DEF Table!Attached
  <2> QED BY <2>2, <2>3, <2>4
<1>8. TakesApart'
  <2>1. \A x \in Addresses : x # a /\ heap'[x].type = "take" =>
          x # b /\ heap[x].type = "take" /\ heap'[x].source = heap[x].source
    BY <1>4, <1>5
  <2>2. \A x \in Addresses : heap[x].type = "take" =>
          /\ heap[x].source \in Addresses /\ heap[heap[x].source].type = "source"
          /\ heap[x].source # a /\ heap[x].source # b /\ heap'[heap[x].source].type = "source"
    BY <1>3, <1>4 DEF TakesApart
  <2> QED BY <1>3, <1>5, <2>1, <2>2 DEF TakesApart
<1> QED BY <1>3, <1>6, <1>7, <1>8, MemoryStep

LEMMA DeleteTakeStep == ASSUME HandlesInv, Table!DeleteTake PROVE HandlesInv'
<1>1. PICK a \in Addresses :
        /\ heap[a].type = "take"
        /\ heap' = [b \in Addresses |-> IF b \in {a, heap[a].source} THEN Table!Free ELSE heap[b]]
  BY DEF Table!DeleteTake
<1>2. /\ UNCHANGED <<allocated, handles, scan, tokens, resets>>
      /\ MemoryTyped /\ OwnedThere /\ TakesApart /\ MaxObjects \in Nat
  BY HandlesTyped, HandlesAssumption DEF HandlesInv, Table!DeleteTake
<1>3. /\ \A x \in Addresses : x = a \/ x = heap[a].source => heap'[x] = Table!Free
      /\ \A x \in Addresses : x # a /\ x # heap[a].source => heap'[x] = heap[x]
      /\ Table!Free.type = "none" /\ Table!Free \in Memory
  BY <1>1, <1>2 DEF Table!Free, Memory
<1>4. MemoryTyped'
  <2>1. heap' \in [Addresses -> Memory]
    BY <1>1, <1>2, <1>3 DEF MemoryTyped
  <2> QED BY <1>2, <2>1 DEF MemoryTyped
<1>5. \A x \in Addresses : heap'[x].type = "take" => heap[x].type = "take" /\ heap'[x] = heap[x] /\ x # a
  BY <1>3
<1>6. OwnedThere'
  <2> SUFFICES ASSUME NEW c \in Contexts, NEW h \in handles'[c], h.owned
               PROVE  h.type # "take" /\ heap'[h.at].type = h.type /\ ~Table!Attached(heap', h.at)
    BY DEF OwnedThere
  <2>1. h \in handles[c] /\ h.at \in Addresses
    BY <1>2, HandleTypes
  <2>2. h.type # "take" /\ heap[h.at].type = h.type /\ ~Table!Attached(heap, h.at)
    BY <1>2, <2>1 DEF OwnedThere
  <2>3. h.at # a /\ h.at # heap[a].source
    BY <1>1, <2>2 DEF Table!Attached
  <2>4. heap'[h.at].type = h.type
    BY <1>3, <2>1, <2>2, <2>3
  <2>5. ~Table!Attached(heap', h.at)
    BY <1>5, <2>2 DEF Table!Attached
  <2> QED BY <2>2, <2>4, <2>5
<1>7. TakesApart'
  <2>1. ASSUME NEW x \in Addresses, heap'[x].type = "take"
        PROVE  heap'[x].source \in Addresses /\ heap'[heap'[x].source].type = "source"
    <3>1. heap[x].type = "take" /\ heap'[x].source = heap[x].source /\ x # a
      BY <1>5, <2>1
    <3>2. heap[x].source \in Addresses /\ heap[heap[x].source].type = "source"
      BY <1>2, <3>1 DEF TakesApart
    <3>3. heap[x].source # a /\ heap[x].source # heap[a].source
      BY <1>1, <1>2, <3>1, <3>2 DEF TakesApart
    <3> QED BY <1>3, <3>1, <3>2, <3>3
  <2>2. \A x, y \in Addresses :
          heap'[x].type = "take" /\ heap'[y].type = "take" /\ heap'[x].source = heap'[y].source => x = y
    BY <1>2, <1>5 DEF TakesApart
  <2> QED BY <2>1, <2>2 DEF TakesApart
<1> QED BY <1>2, <1>4, <1>6, <1>7, MemoryStep

\* A call of one document changes its table alone.
LEMMA BecomesTyped ==
  ASSUME HandlesInv, NEW c \in Contexts, NEW r, Table!Becomes(c, r),
         r.tokens \in Nat, tokens[c] <= r.tokens, r.scan \in Seq(1 .. r.tokens),
         \A h \in r.table : h \in Table!Handle /\ h.token <= r.tokens
  PROVE  TablesTyped' /\ handles'[c] = r.table /\ \A d \in Contexts \ {c} : handles'[d] = handles[d]
<1>1. TablesTyped /\ MaxTokens \in Nat
  BY HandlesTyped, HandlesAssumption DEF HandlesInv
<1>2. /\ r.tokens <= MaxTokens /\ handles' = [handles EXCEPT ![c] = r.table]
      /\ scan' = [scan EXCEPT ![c] = r.scan] /\ tokens' = [tokens EXCEPT ![c] = r.tokens]
  BY DEF Table!Becomes
<1>3. /\ handles'[c] = r.table /\ scan'[c] = r.scan /\ tokens'[c] = r.tokens
      /\ \A d \in Contexts \ {c} : handles'[d] = handles[d] /\ scan'[d] = scan[d] /\ tokens'[d] = tokens[d]
  BY <1>1, <1>2 DEF TablesTyped
<1>4. tokens' \in [Contexts -> 0 .. MaxTokens] /\ handles' \in [Contexts -> SUBSET Table!Handle]
  BY <1>1, <1>2 DEF TablesTyped
<1>5. r.scan \in Seq(1 .. MaxTokens) /\ \A i \in DOMAIN r.scan : r.scan[i] <= r.tokens
  <2>1. \A i \in 1 .. Len(r.scan) : r.scan[i] \in 1 .. r.tokens
    OBVIOUS
  <2>2. DOMAIN r.scan = 1 .. Len(r.scan)
    OBVIOUS
  <2>3. \A i \in 1 .. Len(r.scan) : r.scan[i] \in 1 .. MaxTokens /\ r.scan[i] <= r.tokens
    BY <1>1, <1>2, <2>1
  <2>4. \A s, A, B : s \in Seq(A) /\ (\A i \in 1 .. Len(s) : s[i] \in B) => s \in Seq(B)
    OBVIOUS
  <2>5. r.scan \in Seq(1 .. MaxTokens)
    BY <2>3, <2>4
  <2> QED BY <2>2, <2>3, <2>5
<1>6. scan' \in [Contexts -> Seq(1 .. MaxTokens)]
  BY <1>1, <1>2, <1>5 DEF TablesTyped
<1>7. ASSUME NEW d \in Contexts
      PROVE  (\A i \in DOMAIN scan'[d] : scan'[d][i] <= tokens'[d]) /\ \A h \in handles'[d] : h.token <= tokens'[d]
  <2>1. CASE d = c
    BY <1>3, <1>5, <2>1
  <2>2. CASE d # c
    BY <1>1, <1>3, <2>2 DEF TablesTyped
  <2> QED BY <2>1, <2>2
<1> QED BY <1>3, <1>4, <1>6, <1>7 DEF TablesTyped

LEMMA IssuedHandles ==
  ASSUME HandlesInv, NEW c \in Contexts, NEW a \in Addresses, NEW type \in Table!Types,
         NEW identity \in 0 .. MaxObjects, NEW owned \in BOOLEAN, NEW r,
         IssuedWell(c, a, type, identity, owned, r), r.tokens <= MaxTokens
  PROVE  \A h \in r.table : h \in Table!Handle /\ h.token <= r.tokens
<1>1. tokens[c] \in Nat /\ r.tokens \in Nat /\ tokens[c] <= r.tokens /\ MaxTokens \in Nat
  BY HandleTypes, HandlesAssumption DEF IssuedWell
<1>2. ASSUME NEW h \in handles[c] PROVE h \in Table!Handle /\ h.token <= r.tokens
  BY <1>1, HandleTypes
<1>3. ASSUME r.tokens > tokens[c]
      PROVE  /\ NewHandle(r.tokens, a, type, identity, owned) \in Table!Handle
             /\ NewHandle(r.tokens, a, type, identity, owned).token <= r.tokens
  <2>1. r.tokens \in 1 .. MaxTokens
    BY <1>1, <1>3
  <2> QED BY <1>1, <2>1 DEF NewHandle, Table!Handle
<1> QED BY <1>2, <1>3 DEF IssuedWell

\* No document owns more than before, and memory stays as it is.
LEMMA FewerOwned ==
  ASSUME HandlesInv, TablesTyped', OneAt', UNCHANGED <<heap, allocated, resets>>,
         \A c \in Contexts : \A h \in handles'[c] : h.owned => h \in handles[c]
  PROVE  HandlesInv'
<1>1. MemoryTyped /\ OwnedThere /\ OneOwner /\ TakesApart
  BY HandlesTyped DEF HandlesInv
<1>2. MemoryTyped' /\ TakesApart'
  BY <1>1 DEF MemoryTyped, TakesApart
<1>3. OwnedThere'
  BY <1>1 DEF OwnedThere, Table!Attached
<1>4. OneOwner'
  BY <1>1 DEF OneOwner
<1> QED BY <1>2, <1>3, <1>4 DEF HandlesInv, Table!TypeOK, MemoryTyped, TablesTyped, Memory

LEMMA ExportStep == ASSUME HandlesInv, NEW c \in Contexts, Table!Export(c) PROVE HandlesInv'
<1>1. PICK a \in Addresses :
        /\ heap[a].type = "take" \/ (heap[a].type = "source" /\ Table!Attached(heap, a))
        /\ Table!Becomes(c, Table!Issued(c, a, heap[a].type, Table!Identity(a), FALSE))
  BY DEF Table!Export
<1> DEFINE type == heap[a].type
           identity == Table!Identity(a)
           r == Table!Issued(c, a, type, identity, FALSE)
<1>2. type \in Table!Types /\ identity \in 0 .. MaxObjects
  <2>1. heap[a] \in Memory /\ MaxObjects \in Nat
    BY HandleTypes, HandlesAssumption
  <2>2. heap[a].id \in 0 .. MaxObjects
    BY <2>1 DEF Memory
  <2> QED BY <1>1, <2>1, <2>2 DEF Table!Types, Table!Identity
<1>3. IssuedWell(c, a, type, identity, FALSE, r) /\ Table!Becomes(c, r) /\ UNCHANGED <<heap, allocated, resets>>
  BY <1>1, IssuedTable DEF Table!Export
<1> HIDE DEF r, type, identity
<1>4. r.tokens <= MaxTokens
  BY <1>3 DEF Table!Becomes
<1>5. \A h \in r.table : h \in Table!Handle /\ h.token <= r.tokens
  BY <1>2, <1>3, <1>4, IssuedHandles
<1>6. TablesTyped' /\ handles'[c] = r.table /\ \A d \in Contexts \ {c} : handles'[d] = handles[d]
  BY <1>3, <1>5, BecomesTyped DEF IssuedWell
<1>7. OneAt'
  BY <1>3, <1>6 DEF OneAt, IssuedWell, HandlesInv, OneEach
<1>8. \A d \in Contexts : \A h \in handles'[d] : h.owned => h \in handles[d]
  BY <1>3, <1>6 DEF IssuedWell, NewHandle
<1> QED BY <1>3, <1>6, <1>7, <1>8, FewerOwned

LEMMA FailStep == ASSUME HandlesInv, NEW c \in Contexts, Table!Fail(c) PROVE HandlesInv'
<1>1. PICK g \in handles[c] : handles' = [handles EXCEPT ![c] = @ \ {g}]
  BY DEF Table!Fail
<1>2. UNCHANGED <<heap, allocated, scan, tokens, resets>> /\ TablesTyped /\ OneAt
  BY HandlesTyped DEF Table!Fail, HandlesInv
<1>3. handles' \in [Contexts -> SUBSET Table!Handle] /\ \A d \in Contexts : \A h \in handles'[d] : h \in handles[d]
  BY <1>1, <1>2 DEF TablesTyped
<1>4. TablesTyped'
  BY <1>2, <1>3 DEF TablesTyped
<1>5. OneAt'
  BY <1>2, <1>3 DEF OneAt, OneEach
<1> QED BY <1>2, <1>3, <1>4, <1>5, FewerOwned

LEMMA CreateStep == ASSUME HandlesInv, NEW c \in Contexts, Table!Create(c) PROVE HandlesInv'
<1>1. PICK a \in Addresses :
        \E t \in {"source", "accessor"} :
          /\ heap[a] = Table!Free
          /\ heap' = [heap EXCEPT ![a] = [id |-> allocated', type |-> t, source |-> NoObject]]
          /\ Table!Becomes(c, Table!Issued(c, a, t, 0, TRUE))
  BY DEF Table!Create
<1>2. PICK t \in {"source", "accessor"} :
        /\ heap[a] = Table!Free
        /\ heap' = [heap EXCEPT ![a] = [id |-> allocated', type |-> t, source |-> NoObject]]
        /\ Table!Becomes(c, Table!Issued(c, a, t, 0, TRUE))
  BY <1>1
<1> DEFINE r == Table!Issued(c, a, t, 0, TRUE)
<1>3. /\ MemoryTyped /\ OwnedThere /\ OneOwner /\ TakesApart /\ OneAt /\ MaxObjects \in Nat
      /\ allocated < MaxObjects /\ allocated' = allocated + 1 /\ UNCHANGED resets
  BY HandlesTyped, HandlesAssumption DEF HandlesInv, Table!Create
<1>4. t \in Table!Types /\ 0 \in 0 .. MaxObjects /\ t # "take"
  BY <1>3 DEF Table!Types
<1>5. IssuedWell(c, a, t, 0, TRUE, r) /\ Table!Becomes(c, r)
  BY <1>2, IssuedTable
<1> HIDE DEF r
<1>6. r.tokens <= MaxTokens
  BY <1>5 DEF Table!Becomes
<1>7. \A h \in r.table : h \in Table!Handle /\ h.token <= r.tokens
  BY <1>4, <1>5, <1>6, IssuedHandles
<1>8. TablesTyped' /\ handles'[c] = r.table /\ \A d \in Contexts \ {c} : handles'[d] = handles[d]
  BY <1>5, <1>7, BecomesTyped DEF IssuedWell
<1>9. OneAt'
  BY <1>3, <1>5, <1>8 DEF OneAt, IssuedWell, OneEach
<1>10. /\ heap'[a].type = t /\ heap'[a] \in Memory /\ heap[a].type = "none"
       /\ \A x \in Addresses : x # a => heap'[x] = heap[x]
  <2>1. heap'[a] = [id |-> allocated + 1, type |-> t, source |-> NoObject] /\ \A x \in Addresses : x # a => heap'[x] = heap[x]
    BY <1>2, <1>3 DEF MemoryTyped
  <2>2. allocated + 1 \in 0 .. MaxObjects
    BY <1>3 DEF MemoryTyped
  <2> QED BY <1>2, <1>4, <2>1, <2>2 DEF Memory, Table!Free, Table!Types
<1>11. MemoryTyped'
  <2>1. allocated' \in 0 .. MaxObjects
    BY <1>3 DEF MemoryTyped
  <2>2. heap' \in [Addresses -> Memory]
    BY <1>2, <1>3, <1>10 DEF MemoryTyped
  <2> QED BY <1>3, <2>1, <2>2 DEF MemoryTyped
\* What is owned now was, at another address, or is the new object.
<1>12. ASSUME NEW d \in Contexts, NEW h \in handles'[d], h.owned
       PROVE  (h \in handles[d] /\ h.at # a) \/ (d = c /\ h.at = a /\ h.type = t)
  <2>1. h \in handles[d] => h.at # a
    <3>1. h \in handles[d] => heap[h.at].type = h.type /\ h.type # "none"
      BY <1>3, <1>12, HandleTypes DEF OwnedThere
    <3> QED BY <1>10, <3>1
  <2>2. CASE d = c
    BY <1>5, <1>8, <2>1, <2>2 DEF IssuedWell, NewHandle
  <2>3. CASE d # c
    BY <1>8, <2>1, <2>3
  <2> QED BY <2>2, <2>3
<1>13. \A x \in Addresses : Table!Attached(heap', x) => Table!Attached(heap, x)
  BY <1>4, <1>10 DEF Table!Attached
<1>14. ~Table!Attached(heap, a)
  BY <1>3, <1>10 DEF Table!Attached, TakesApart
<1>15. OwnedThere'
  <2> SUFFICES ASSUME NEW d \in Contexts, NEW h \in handles'[d], h.owned
               PROVE  h.type # "take" /\ heap'[h.at].type = h.type /\ ~Table!Attached(heap', h.at)
    BY DEF OwnedThere
  <2>1. CASE h \in handles[d] /\ h.at # a
    <3>1. h.at \in Addresses /\ h.type # "take" /\ heap[h.at].type = h.type /\ ~Table!Attached(heap, h.at)
      BY <1>3, <2>1, HandleTypes DEF OwnedThere
    <3> QED BY <1>10, <1>13, <2>1, <3>1
  <2>2. CASE h.at = a /\ h.type = t
    BY <1>4, <1>10, <1>13, <1>14, <2>2
  <2> QED BY <1>12, <2>1, <2>2
<1>16. OneOwner'
  BY <1>3, <1>12 DEF OneOwner
<1>17. TakesApart'
  <2>1. \A x \in Addresses : heap'[x].type = "take" => heap[x].type = "take" /\ heap'[x] = heap[x]
    BY <1>4, <1>10
  <2>2. \A x \in Addresses : heap[x].type = "take" =>
          heap[x].source \in Addresses /\ heap[heap[x].source].type = "source" /\ heap[x].source # a
    BY <1>3, <1>10 DEF TakesApart
  <2> QED BY <1>3, <1>10, <2>1, <2>2 DEF TakesApart
<1> QED BY <1>8, <1>9, <1>11, <1>15, <1>16, <1>17 DEF HandlesInv, Table!TypeOK, MemoryTyped, TablesTyped, Memory

LEMMA DestroyStep == ASSUME HandlesInv, NEW c \in Contexts, Table!Destroy(c) PROVE HandlesInv'
<1>1. PICK g \in handles[c] :
        /\ g.type # "take" /\ g.owned /\ heap' = [heap EXCEPT ![g.at] = Table!Free]
        /\ handles' = [handles EXCEPT ![c] = Table!Invalidate(@, g.at)]
  BY DEF Table!Destroy
<1>2. /\ UNCHANGED <<allocated, scan, tokens, resets>> /\ MemoryTyped /\ TablesTyped
      /\ OneAt /\ OwnedThere /\ OneOwner /\ TakesApart
  BY HandlesTyped DEF Table!Destroy, HandlesInv
<1>3. g.at \in Addresses /\ heap[g.at].type = g.type /\ ~Table!Attached(heap, g.at)
  BY <1>1, <1>2, HandleTypes DEF OwnedThere
<1>4. /\ heap'[g.at] = Table!Free /\ \A x \in Addresses : x # g.at => heap'[x] = heap[x]
      /\ Table!Free \in Memory /\ Table!Free.type = "none" /\ MaxObjects \in Nat
  BY <1>1, <1>2, <1>3, HandlesAssumption DEF MemoryTyped, Table!Free, Memory
<1>5. MemoryTyped'
  <2>1. heap' \in [Addresses -> Memory]
    BY <1>1, <1>2, <1>4 DEF MemoryTyped
  <2> QED BY <1>2, <2>1 DEF MemoryTyped
<1>6. /\ \A h \in handles'[c] : h \in handles[c] /\ h.at # g.at
      /\ \A d \in Contexts \ {c} : handles'[d] = handles[d]
      /\ handles' \in [Contexts -> SUBSET Table!Handle]
  BY <1>1, <1>2 DEF TablesTyped, Table!Invalidate, Table!At
<1>7. \A d \in Contexts : \A h \in handles'[d] : h \in handles[d]
  BY <1>6
<1>8. TablesTyped' /\ OneAt' /\ OneOwner'
  BY <1>2, <1>6, <1>7 DEF TablesTyped, OneAt, OneEach, OneOwner
<1>9. \A x \in Addresses : heap'[x].type = "take" => heap[x].type = "take" /\ heap'[x] = heap[x]
  BY <1>4
<1>10. OwnedThere'
  <2> SUFFICES ASSUME NEW d \in Contexts, NEW h \in handles'[d], h.owned
               PROVE  h.type # "take" /\ heap'[h.at].type = h.type /\ ~Table!Attached(heap', h.at)
    BY DEF OwnedThere
  <2>1. h \in handles[d] /\ h.at \in Addresses
    BY <1>7, HandleTypes
  <2>2. h.type # "take" /\ heap[h.at].type = h.type /\ ~Table!Attached(heap, h.at)
    BY <1>2, <2>1 DEF OwnedThere
  <2>3. h.at # g.at
    BY <1>1, <1>2, <1>6, <2>1 DEF OneOwner
  <2>4. ~Table!Attached(heap', h.at)
    BY <1>9, <2>2 DEF Table!Attached
  <2> QED BY <1>4, <2>1, <2>2, <2>3, <2>4
<1>11. TakesApart'
  <2>1. \A x \in Addresses : heap[x].type = "take" =>
          heap[x].source \in Addresses /\ heap[heap[x].source].type = "source" /\ heap[x].source # g.at
    BY <1>2, <1>3 DEF TakesApart, Table!Attached
  <2> QED BY <1>2, <1>4, <1>9, <2>1 DEF TakesApart
<1> QED BY <1>5, <1>8, <1>10, <1>11 DEF HandlesInv, Table!TypeOK, MemoryTyped, TablesTyped, Memory

LEMMA ResetStep == ASSUME HandlesInv, NEW c \in Contexts, Table!Reset(c) PROVE HandlesInv'
<1> DEFINE gone == {h.at : h \in {x \in handles[c] : x.owned}}
<1>1. /\ heap' = [a \in Addresses |-> IF a \in gone THEN Table!Free ELSE heap[a]]
      /\ handles' = [handles EXCEPT ![c] = {}] /\ scan' = [scan EXCEPT ![c] = <<>>]
      /\ resets < MaxResets /\ resets' = resets + 1 /\ UNCHANGED <<allocated, tokens>>
  BY DEF Table!Reset
<1>2. /\ MemoryTyped /\ TablesTyped /\ OneAt /\ OwnedThere /\ OneOwner /\ TakesApart
      /\ MaxObjects \in Nat /\ MaxResets \in Nat
  BY HandlesTyped, HandlesAssumption DEF HandlesInv
<1>3. \A x \in gone : heap[x].type # "take" /\ ~Table!Attached(heap, x)
  BY <1>2 DEF OwnedThere
<1>4. \A d \in Contexts \ {c} : \A h \in handles[d] : h.owned => h.at \notin gone
  BY <1>2 DEF OneOwner
<1> HIDE DEF gone
<1>5. /\ \A x \in Addresses : x \in gone => heap'[x] = Table!Free
      /\ \A x \in Addresses : x \notin gone => heap'[x] = heap[x]
      /\ Table!Free \in Memory /\ Table!Free.type = "none"
  BY <1>1, <1>2 DEF Table!Free, Memory
<1>6. MemoryTyped'
  <2>1. heap' \in [Addresses -> Memory]
    BY <1>1, <1>2, <1>5 DEF MemoryTyped
  <2>2. resets' \in 0 .. MaxResets
    BY <1>1, <1>2 DEF MemoryTyped
  <2> QED BY <1>1, <1>2, <2>1, <2>2 DEF MemoryTyped
<1>7. handles'[c] = {} /\ scan'[c] = <<>> /\ \A d \in Contexts \ {c} : handles'[d] = handles[d] /\ scan'[d] = scan[d]
  BY <1>1, <1>2 DEF TablesTyped
<1>8. TablesTyped'
  <2>1. handles' \in [Contexts -> SUBSET Table!Handle] /\ scan' \in [Contexts -> Seq(1 .. MaxTokens)]
    BY <1>1, <1>2 DEF TablesTyped
  <2>2. DOMAIN <<>> = {}
    OBVIOUS
  <2> QED BY <1>1, <1>2, <1>7, <2>1, <2>2 DEF TablesTyped
<1>9. OneAt' /\ OneOwner'
  BY <1>2, <1>7 DEF OneAt, OneEach, OneOwner
<1>10. \A x \in Addresses : heap'[x].type = "take" => heap[x].type = "take" /\ heap'[x] = heap[x]
  BY <1>5
<1>11. OwnedThere'
  <2> SUFFICES ASSUME NEW d \in Contexts, NEW h \in handles'[d], h.owned
               PROVE  h.type # "take" /\ heap'[h.at].type = h.type /\ ~Table!Attached(heap', h.at)
    BY DEF OwnedThere
  <2>1. d # c /\ h \in handles[d]
    BY <1>7
  <2>2. h.at \in Addresses /\ h.type # "take" /\ heap[h.at].type = h.type /\ ~Table!Attached(heap, h.at)
    BY <1>2, <2>1, HandleTypes DEF OwnedThere
  <2>3. heap'[h.at] = heap[h.at]
    BY <1>4, <1>5, <2>1, <2>2
  <2>4. ~Table!Attached(heap', h.at)
    BY <1>10, <2>2 DEF Table!Attached
  <2> QED BY <2>2, <2>3, <2>4
<1>12. TakesApart'
  <2>1. \A x \in Addresses : heap[x].type = "take" =>
          heap[x].source \in Addresses /\ heap[heap[x].source].type = "source" /\ heap[x].source \notin gone
    BY <1>2, <1>3 DEF TakesApart, Table!Attached
  <2> QED BY <1>2, <1>5, <1>10, <2>1 DEF TakesApart
<1> QED BY <1>6, <1>8, <1>9, <1>11, <1>12 DEF HandlesInv, Table!TypeOK, MemoryTyped, TablesTyped, Memory

\* transfer() changes who owns what is at one address, and nothing else.
LEMMA Transferred ==
  ASSUME NEW t \in SUBSET Table!Handle, NEW a, NEW owned \in BOOLEAN
  PROVE  /\ OneEach(t) => OneEach(Table!Transfer(t, a, owned))
         /\ \A h \in Table!Transfer(t, a, owned) :
              /\ h \in Table!Handle
              /\ h.at = a => h.owned = owned
              /\ \E g \in t : h.at = g.at /\ h.type = g.type /\ h.token = g.token /\ (h.at # a => h = g)
<1> DEFINE Made(g) == IF g.at = a THEN [g EXCEPT !.owned = owned] ELSE g
<1>1. Table!Transfer(t, a, owned) = {Made(g) : g \in t}
  BY DEF Table!Transfer
<1>2. \A g \in Table!Handle : /\ Made(g) \in Table!Handle /\ (g.at = a => Made(g).owned = owned)
                            /\ Made(g).at = g.at /\ Made(g).type = g.type /\ Made(g).token = g.token
                                    /\ (Made(g).at # a => Made(g) = g)
  BY DEF Table!Handle
<1> HIDE DEF Made
<1>3. OneEach(t) => OneEach({Made(g) : g \in t})
  BY <1>2 DEF OneEach
<1>4. \A h \in {Made(g) : g \in t} :
        /\ h \in Table!Handle
        /\ h.at = a => h.owned = owned
        /\ \E g \in t : h.at = g.at /\ h.type = g.type /\ h.token = g.token /\ (h.at # a => h = g)
  BY <1>2
<1> QED BY <1>1, <1>3, <1>4

LEMMA SetSourceStep == ASSUME HandlesInv, NEW c \in Contexts, Table!SetSource(c) PROVE HandlesInv'
<1>1. PICK take \in handles[c] :
        \E source \in handles[c] :
          /\ take.type = "take" /\ source.type = "source" /\ Table!Valid(take) /\ heap[source.at].type = "source"
          /\ source.owned /\ heap[take.at].source # source.at
          /\ heap' = [heap EXCEPT ![take.at].source = source.at]
          /\ Table!Becomes(c, [Table!Issued(c, heap[take.at].source, "source", 0, TRUE) EXCEPT
               !.table = Table!Transfer(Table!Transfer(@, heap[take.at].source, TRUE), source.at, FALSE)])
  BY DEF Table!SetSource
<1>2. PICK source \in handles[c] :
        /\ take.type = "take" /\ source.type = "source" /\ Table!Valid(take) /\ heap[source.at].type = "source"
        /\ source.owned /\ heap[take.at].source # source.at
        /\ heap' = [heap EXCEPT ![take.at].source = source.at]
        /\ Table!Becomes(c, [Table!Issued(c, heap[take.at].source, "source", 0, TRUE) EXCEPT
             !.table = Table!Transfer(Table!Transfer(@, heap[take.at].source, TRUE), source.at, FALSE)])
  BY <1>1
<1> DEFINE old == heap[take.at].source
           new == Table!Issued(c, old, "source", 0, TRUE)
           once == Table!Transfer(new.table, old, TRUE)
           twice == Table!Transfer(once, source.at, FALSE)
           r == [new EXCEPT !.table = twice]
<1>3. /\ MemoryTyped /\ TablesTyped /\ OwnedThere /\ OneOwner /\ TakesApart /\ OneAt /\ MaxObjects \in Nat
      /\ UNCHANGED <<allocated, resets>>
  BY HandlesTyped, HandlesAssumption DEF HandlesInv, Table!SetSource
<1>4. /\ take.at \in Addresses /\ source.at \in Addresses /\ heap[take.at].type = "take"
      /\ ~Table!Attached(heap, source.at)
  <2>1. heap[take.at].type = "take"
    BY <1>2 DEF Table!Valid
  <2> QED BY <1>2, <1>3, <2>1, HandleTypes DEF OwnedThere
<1>5. old \in Addresses /\ heap[old].type = "source" /\ old # source.at /\ old # take.at /\ take.at # source.at
  BY <1>2, <1>3, <1>4 DEF TakesApart
<1>6. /\ Table!Becomes(c, r) /\ heap' = [heap EXCEPT ![take.at].source = source.at]
      /\ heap[source.at].type = "source" /\ source.owned
  BY <1>2
<1>7. IssuedWell(c, old, "source", 0, TRUE, new)
  BY IssuedTable
<1>8. r.table = twice /\ r.scan = new.scan /\ r.tokens = new.tokens
  <2>1. \E T, S, N : new = [table |-> T, scan |-> S, tokens |-> N]
    BY DEF Table!Issued
  <2> HIDE DEF new, twice
  <2> QED BY <2>1
<1> HIDE DEF new, r, old
<1>9. /\ r.tokens <= MaxTokens /\ new.tokens \in Nat /\ tokens[c] <= new.tokens /\ new.scan \in Seq(1 .. new.tokens)
      /\ OneEach(new.table)
  BY <1>6, <1>7, <1>8 DEF Table!Becomes, IssuedWell
<1>10. \A h \in new.table : h \in Table!Handle /\ h.token <= new.tokens
  <2>1. "source" \in Table!Types /\ 0 \in 0 .. MaxObjects /\ new.tokens <= MaxTokens /\ TRUE \in BOOLEAN
    BY <1>3, <1>8, <1>9 DEF Table!Types
  <2> QED BY <1>5, <1>7, <2>1, IssuedHandles
<1>11. /\ OneEach(once)
       /\ \A h \in once : /\ h \in Table!Handle /\ (h.at = old => h.owned = TRUE)
                          /\ \E g \in new.table : h.at = g.at /\ h.type = g.type /\ h.token = g.token /\ (h.at # old => h = g)
  <2>1. new.table \in SUBSET Table!Handle /\ TRUE \in BOOLEAN
    BY <1>10
  <2> QED BY <1>9, <2>1, Transferred
<1> HIDE DEF once
<1>12. /\ OneEach(twice)
       /\ \A h \in twice : /\ h \in Table!Handle /\ (h.at = source.at => h.owned = FALSE)
                           /\ \E g \in once : h.at = g.at /\ h.type = g.type /\ h.token = g.token /\ (h.at # source.at => h = g)
  <2>1. once \in SUBSET Table!Handle /\ FALSE \in BOOLEAN
    BY <1>11
  <2> QED BY <1>11, <2>1, Transferred
<1> HIDE DEF twice
<1>13. \A h \in r.table : h \in Table!Handle /\ h.token <= r.tokens
  <2>1. \A g \in once : g.token <= new.tokens
    BY <1>10, <1>11
  <2> QED BY <1>8, <1>12, <2>1
<1>14. TablesTyped' /\ handles'[c] = twice /\ \A d \in Contexts \ {c} : handles'[d] = handles[d]
  <2>1. r.tokens \in Nat /\ tokens[c] <= r.tokens /\ r.scan \in Seq(1 .. r.tokens)
    BY <1>8, <1>9
  <2> QED BY <1>6, <1>8, <1>13, <2>1, BecomesTyped
<1>15. OneAt'
  BY <1>3, <1>12, <1>14 DEF OneAt
<1>16. /\ heap'[take.at] = [heap[take.at] EXCEPT !.source = source.at]
       /\ \A x \in Addresses : x # take.at => heap'[x] = heap[x]
  BY <1>3, <1>4, <1>6 DEF MemoryTyped
<1>17. /\ heap'[take.at] \in Memory /\ heap'[take.at].type = "take" /\ heap'[take.at].source = source.at
  <2>1. heap[take.at] \in Memory
    BY <1>3, <1>4 DEF MemoryTyped
  <2> QED BY <1>4, <1>16, <2>1 DEF Memory
<1>18. MemoryTyped'
  <2>1. heap' \in [Addresses -> Memory]
    BY <1>3, <1>6, <1>16, <1>17 DEF MemoryTyped
  <2> QED BY <1>3, <2>1 DEF MemoryTyped
<1>19. \A x \in Addresses : heap'[x].type = heap[x].type
  BY <1>4, <1>16, <1>17
\* What is owned now was, and is not what the take has got, or it is what the take had.
<1>20. ASSUME NEW d \in Contexts, NEW h \in handles'[d], h.owned
       PROVE  (h \in handles[d] /\ h.at # old /\ h.at # source.at) \/ (d = c /\ h.at = old /\ h.type = "source")
  <2>1. CASE d = c
    <3>1. h.at # source.at /\ \E g \in once : h = g
      BY <1>12, <1>14, <1>20, <2>1
    <3>2. PICK g \in new.table : h.at = g.at /\ h.type = g.type /\ (h.at # old => h = g)
      BY <1>11, <3>1
    <3>3. g \in handles[c] \/ g.at = old
      BY <1>7 DEF IssuedWell, NewHandle
    <3>4. g.at = old => g.type = "source"
      BY <1>7, <1>9 DEF IssuedWell, OneEach
    <3> QED BY <2>1, <3>1, <3>2, <3>3, <3>4
  <2>2. CASE d # c
    <3>1. h \in handles[d] /\ ~Table!Attached(heap, h.at)
      BY <1>3, <1>14, <1>20, <2>2 DEF OwnedThere
    <3>2. h.at # old
      BY <1>4, <3>1 DEF Table!Attached, old
    <3>3. h.at # source.at
      BY <1>3, <1>6, <1>20, <2>2, <3>1 DEF OneOwner
    <3> QED BY <3>1, <3>2, <3>3
  <2> QED BY <2>1, <2>2
<1>21. \A x \in Addresses : Table!Attached(heap', x) => x = source.at \/ (x # old /\ Table!Attached(heap, x))
  <2> SUFFICES ASSUME NEW x \in Addresses, NEW t \in Addresses, heap'[t].type = "take", heap'[t].source = x, x # source.at
               PROVE  x # old /\ Table!Attached(heap, x)
    BY DEF Table!Attached
  <2>1. t # take.at /\ heap'[t] = heap[t]
    BY <1>16, <1>17
  <2>2. x # old
    BY <1>3, <1>4, <2>1 DEF TakesApart, old
  <2> QED BY <2>1, <2>2 DEF Table!Attached
<1>22. OwnedThere'
  <2> SUFFICES ASSUME NEW d \in Contexts, NEW h \in handles'[d], h.owned
               PROVE  h.type # "take" /\ heap'[h.at].type = h.type /\ ~Table!Attached(heap', h.at)
    BY DEF OwnedThere
  <2>1. CASE h \in handles[d] /\ h.at # old /\ h.at # source.at
    <3>1. h.at \in Addresses /\ h.type # "take" /\ heap[h.at].type = h.type /\ ~Table!Attached(heap, h.at)
      BY <1>3, <2>1, HandleTypes DEF OwnedThere
    <3> QED BY <1>19, <1>21, <2>1, <3>1
  <2>2. CASE h.at = old /\ h.type = "source"
    BY <1>5, <1>19, <1>21, <2>2
  <2> QED BY <1>20, <2>1, <2>2
<1>23. OneOwner'
  <2> SUFFICES ASSUME NEW d \in Contexts, NEW e \in Contexts, NEW h \in handles'[d], NEW g \in handles'[e],
                      h.owned, g.owned, h.at = g.at
               PROVE  d = e
    BY DEF OneOwner
  <2>1. CASE h.at = old
    BY <1>20, <2>1
  <2>2. CASE h.at # old
    <3>1. h \in handles[d] /\ g \in handles[e]
      BY <1>20, <2>2
    <3> QED BY <1>3, <3>1 DEF OneOwner
  <2> QED BY <2>1, <2>2
<1>24. TakesApart'
  <2>1. ASSUME NEW x \in Addresses, heap'[x].type = "take"
        PROVE  heap'[x].source \in Addresses /\ heap'[heap'[x].source].type = "source"
    <3>1. CASE x = take.at
      BY <1>4, <1>6, <1>17, <1>19, <3>1
    <3>2. CASE x # take.at
      BY <1>3, <1>16, <1>19, <2>1, <3>2 DEF TakesApart
    <3> QED BY <3>1, <3>2
  <2>2. ASSUME NEW x \in Addresses, NEW y \in Addresses, heap'[x].type = "take", heap'[y].type = "take",
               heap'[x].source = heap'[y].source
        PROVE  x = y
    <3>1. \A z \in Addresses : z # take.at /\ heap'[z].type = "take" => heap'[z].source # source.at
      BY <1>4, <1>16 DEF Table!Attached
    <3>2. CASE x = take.at \/ y = take.at
      BY <1>17, <2>2, <3>1, <3>2
    <3>3. CASE x # take.at /\ y # take.at
      BY <1>3, <1>16, <2>2, <3>3 DEF TakesApart
    <3> QED BY <3>2, <3>3
  <2> QED BY <2>1, <2>2 DEF TakesApart
<1> QED BY <1>14, <1>15, <1>18, <1>22, <1>23, <1>24 DEF HandlesInv, Table!TypeOK, MemoryTyped, TablesTyped, Memory

LEMMA HandlesStart == Table!Init => HandlesInv
<1> SUFFICES ASSUME Table!Init PROVE HandlesInv
  OBVIOUS
<1>1. /\ heap = [a \in Addresses |-> Table!Free] /\ allocated = 0
      /\ handles = [c \in Contexts |-> {}] /\ scan = [c \in Contexts |-> <<>>]
      /\ tokens = [c \in Contexts |-> 0] /\ resets = 0
  BY DEF Table!Init
<1>2. Table!Free \in Memory /\ Table!Free.type = "none" /\ MaxObjects \in Nat /\ MaxTokens \in Nat /\ MaxResets \in Nat
  BY HandlesAssumption DEF Table!Free, Memory
<1>3. MemoryTyped
  BY <1>1, <1>2 DEF MemoryTyped
<1>4. TablesTyped
  <2>1. DOMAIN <<>> = {} /\ <<>> \in Seq(1 .. MaxTokens)
    OBVIOUS
  <2> QED BY <1>1, <1>2, <2>1 DEF TablesTyped
<1>5. OneAt /\ OwnedThere /\ OneOwner /\ TakesApart
  BY <1>1, <1>2 DEF OneAt, OneEach, OwnedThere, OneOwner, TakesApart
<1> QED BY <1>3, <1>4, <1>5, HandlesTyped DEF HandlesInv

LEMMA HandlesStep == HandlesInv /\ (Table!Next \/ UNCHANGED handleVars) => HandlesInv'
<1> SUFFICES ASSUME HandlesInv, Table!Next \/ UNCHANGED handleVars PROVE HandlesInv'
  OBVIOUS
<1>1. CASE UNCHANGED handleVars
  BY <1>1 DEF handleVars, HandlesInv, Table!TypeOK, OneAt, OwnedThere, OneOwner, TakesApart
<1>2. CASE Table!AddTake
  BY <1>2, AddTakeStep
<1>3. CASE Table!DeleteTake
  BY <1>3, DeleteTakeStep
<1>4. ASSUME NEW c \in Contexts,
             \/ Table!Export(c) \/ Table!Create(c) \/ Table!Fail(c)
             \/ Table!Destroy(c) \/ Table!SetSource(c) \/ Table!Reset(c)
      PROVE  HandlesInv'
  BY <1>4, ExportStep, CreateStep, FailStep, DestroyStep, SetSourceStep, ResetStep
<1> QED BY <1>1, <1>2, <1>3, <1>4 DEF Table!Next

LEMMA CardinalitySame == ASSUME NEW S PROVE Table!Cardinality(S) = Cardinality(S)
BY DEF Table!Cardinality, Cardinality

\* One document owns what is owned, with one handle.
LEMMA HandlesSuffice == HandlesInv => Table!TypeOK /\ Table!OwnersReal
<1>a. SUFFICES ASSUME HandlesInv PROVE Table!OwnersReal
  BY DEF HandlesInv
<1>b. SUFFICES ASSUME NEW c \in Contexts, NEW h \in handles[c], h.owned
               PROVE  /\ heap[h.at].type = h.type /\ ~Table!Attached(heap, h.at)
                      /\ Cardinality(Table!Owners(h.at)) = 1
  BY CardinalitySame DEF Table!OwnersReal
<1>1. heap[h.at].type = h.type /\ ~Table!Attached(heap, h.at) /\ OneAt /\ OneOwner
  BY <1>a, <1>b DEF HandlesInv, OwnedThere
<1>2. Table!Owners(h.at) = {<<c, h.token>>}
  <2>1. \A d \in Contexts : \A g \in handles[d] : g.owned /\ g.at = h.at => d = c /\ g = h
    BY <1>1, <1>b DEF OneAt, OneEach, OneOwner
  <2>2. \A x : x \in Table!Owners(h.at) <=>
                 \E d \in Contexts : \E g \in handles[d] : g.owned /\ g.at = h.at /\ x = <<d, g.token>>
    BY DEF Table!Owners, Table!At
  <2>3. \A x : x \in Table!Owners(h.at) <=> x = <<c, h.token>>
    BY <1>b, <2>1, <2>2
  <2> QED BY <2>3
<1>3. Cardinality({<<c, h.token>>}) = 1
  BY FS_Singleton
<1> QED BY <1>1, <1>2, <1>3

\* What a document would destroy is there, no take uses it and no other document would destroy it too, however
\* many documents, addresses, objects and tokens there are.
THEOREM OwnersAreReal == PartSpec => []OwnersReal
<1> DEFINE Inv == part = "handles" => HandlesInv
<1>1. PartInit => Inv
  BY HandlesStart DEF PartInit
<1>2. Inv /\ [PartNext]_partVars => Inv'
  BY PartsStep, HandlesStep
<1>3. Inv => OwnersReal
  BY HandlesSuffice DEF OwnersReal
<1> QED BY <1>1, <1>2, <1>3, PTL DEF PartSpec

-----------------------------------------------------------------------------
(* The realtime sampler.                                                    *)

\* A set of subscriptions that is not empty has a fastest one.
LEMMA SomeFastest ==
  ASSUME NEW s, \A x \in s : x.rate \in Rates, s # {}
  PROVE  \E r \in {x.rate : x \in s} : \A x \in s : x.rate <= r
<1>1. SUFFICES ASSUME \A y \in s : \E x \in s : ~(x.rate <= y.rate) PROVE FALSE
  OBVIOUS
<1>2. \A x \in s : x.rate \in 1 .. 120
  BY SamplingAssumption
<1> DEFINE S == {n \in Nat : \E x \in s : x.rate > n}
<1>3. 0 \in S
  BY <1>2
<1>4. ASSUME NEW n \in Nat, n \in S PROVE n + 1 \in S
  <2>1. PICK y \in s : y.rate > n
    BY <1>4
  <2>2. PICK x \in s : ~(x.rate <= y.rate)
    BY <1>1
  <2>3. x.rate \in Nat /\ y.rate \in Nat
    BY <1>2
  <2>4. x.rate > n + 1
    BY <2>1, <2>2, <2>3
  <2> QED BY <2>4
<1> HIDE DEF S
<1>5. 120 \in S
  BY <1>3, <1>4, SetInduction
<1> QED BY <1>2, <1>5 DEF S

LEMMA FastestWell ==
  ASSUME NEW s, \A x \in s : x.rate \in Rates
  PROVE  /\ Sampling!Fastest(s) \in Rates \union {0}
         /\ s = {} <=> Sampling!Fastest(s) = 0
<1>1. CASE s = {}
  BY <1>1 DEF Sampling!Fastest
<1>2. CASE s # {}
  <2>1. \E r \in {x.rate : x \in s} : \A x \in s : x.rate <= r
    BY <1>2, SomeFastest
  <2>2. Sampling!Fastest(s) \in {x.rate : x \in s}
    BY <1>2, <2>1 DEF Sampling!Fastest
  <2>3. Sampling!Fastest(s) \in Rates
    BY <2>2
  <2>4. 0 \notin Rates
    BY SamplingAssumption
  <2> QED BY <1>2, <2>3, <2>4
<1> QED BY <1>1, <1>2

LEMMA SamplingCardinality == ASSUME NEW S PROVE Sampling!Cardinality(S) = Cardinality(S)
BY DEF Sampling!Cardinality, Cardinality

Subscription == [id : 1 .. made, window : Subscribers, rate : Rates]
SamplerTyped ==
  /\ made \in 0 .. MaxSerial /\ rate \in Rates \union {0} /\ failures \in 0 .. MaxFailures
  /\ subs \subseteq Subscription /\ IsFiniteSet(subs) /\ Cardinality(subs) <= MaxActive
  /\ thread \in {"none", "check", "try", "sample", "wait", "exited"} /\ mutex \in {"none", "main", "thread"}
  /\ call \in [at : {"idle", "join", "start", "unlock"}, next : Rates \union {0}, retry : BOOLEAN, sub : 0 .. made]
  /\ attached \subseteq streams /\ used \subseteq streams
  /\ stop \in BOOLEAN /\ shut \in BOOLEAN /\ stray \in BOOLEAN

\* The main thread has the mutex from the beginning of a call to its end, the thread while it samples.
MutexHeld == (mutex = "main" <=> call.at # "idle") /\ (mutex = "thread" <=> thread = "sample")

\* A call that waits for the thread to end told it to, and starts the next one at the rate of what is subscribed
\* by then; around it the rate is that of the thread.
CallWell ==
  /\ call.at = "idle" => call = Sampling!Idle
  /\ call.at \in {"join", "start"} =>
       stop /\ call.next = Sampling!Fastest(subs) /\ (call.retry => call.sub \notin attached)
  /\ call.at = "start" => thread = "none" /\ rate = 0 /\ call.next # 0
  /\ call.at \in {"idle", "unlock"} /\ rate = 0 => thread = "none" /\ (subs # {} => failures > 0)
  /\ call.at \in {"idle", "unlock"} /\ rate # 0 => ~stop /\ rate = Sampling!Fastest(subs)

ThreadWell == ~stop => thread \notin {"none", "exited"}

\* Every subscription has its stream.
StreamsWell ==
  /\ streams = {s.id : s \in subs} /\ (\A s, t \in subs : s.id = t.id => s = t)
  /\ shut => subs = {}
  /\ ~stray

SamplingInv == SamplerTyped /\ MutexHeld /\ CallWell /\ ThreadWell /\ StreamsWell

LEMMA SubsRates ==
  ASSUME SamplerTyped, NEW s, s \subseteq subs
  PROVE  /\ Sampling!Fastest(s) \in Rates \union {0}
         /\ s = {} <=> Sampling!Fastest(s) = 0
<1>1. \A x \in s : x.rate \in Rates
  BY DEF SamplerTyped, Subscription
<1> QED BY <1>1, FastestWell

\* reschedule() leaves the call at its end or on the way to another thread.
LEMMA Rescheduled ==
  ASSUME NEW s, NEW retry \in BOOLEAN, NEW id, Sampling!Reschedule(s, retry, id), stop \in BOOLEAN
  PROVE  \/ Sampling!Fastest(s) = rate /\ call' = [at |-> "unlock", next |-> 0, retry |-> FALSE, sub |-> 0] /\ stop' = stop
         \/ /\ Sampling!Fastest(s) # rate /\ stop' = TRUE
            /\ call' = [at |-> "join", next |-> Sampling!Fastest(s), retry |-> retry, sub |-> id]
BY DEF Sampling!Reschedule, Sampling!Idle

\* A call that begins, or one that takes a subscription back, with s left of the subscriptions.
LEMMA Adapts ==
  ASSUME SamplingInv, NEW s, NEW retry \in BOOLEAN, made' \in Nat, NEW id \in 0 .. made', Sampling!Reschedule(s, retry, id),
         subs' = s, s \subseteq [id : 1 .. made', window : Subscribers, rate : Rates],
         call.at \in {"idle", "unlock"} \/ (rate = 0 /\ thread = "none"),
         mutex' = "main", mutex # "thread", retry => id \notin attached',
         UNCHANGED <<rate, thread>>
  PROVE  /\ call' \in [at : {"idle", "join", "start", "unlock"}, next : Rates \union {0}, retry : BOOLEAN, sub : 0 .. made']
         /\ stop' \in BOOLEAN
         /\ MutexHeld' /\ CallWell' /\ ThreadWell'
<1>1. SamplerTyped /\ MutexHeld /\ CallWell /\ ThreadWell
  BY DEF SamplingInv
<1>2. Sampling!Fastest(s) \in Rates \union {0} /\ (s = {} <=> Sampling!Fastest(s) = 0)
  <2>1. \A x \in s : x.rate \in Rates
    OBVIOUS
  <2> QED BY <2>1, FastestWell
<1>3. stop \in BOOLEAN /\ thread # "sample"
  BY <1>1 DEF SamplerTyped, MutexHeld
<1>4. CASE /\ Sampling!Fastest(s) = rate /\ call' = [at |-> "unlock", next |-> 0, retry |-> FALSE, sub |-> 0]
           /\ stop' = stop
  <2>1. 0 \in 0 .. made' /\ call'.at = "unlock" /\ call'.next = 0 /\ call'.retry = FALSE /\ call'.sub = 0
    BY <1>4
  <2>2. call' \in [at : {"idle", "join", "start", "unlock"}, next : Rates \union {0}, retry : BOOLEAN, sub : 0 .. made']
    BY <1>4, <2>1
  <2>3. rate' = 0 => thread' = "none" /\ subs' = {}
    BY <1>1, <1>2, <1>4 DEF CallWell
  <2>4. rate' # 0 => ~stop' /\ rate' = Sampling!Fastest(subs')
    BY <1>1, <1>4 DEF CallWell
  <2>5. CallWell'
    BY <2>1, <2>3, <2>4 DEF CallWell, Sampling!Fastest
  <2> QED BY <1>1, <1>3, <1>4, <2>1, <2>2, <2>5 DEF MutexHeld, ThreadWell
<1>5. CASE /\ Sampling!Fastest(s) # rate /\ stop' = TRUE
           /\ call' = [at |-> "join", next |-> Sampling!Fastest(s), retry |-> retry, sub |-> id]
  <2>1. call'.at = "join" /\ call'.next = Sampling!Fastest(s) /\ call'.retry = retry /\ call'.sub = id
    BY <1>5
  <2>2. call' \in [at : {"idle", "join", "start", "unlock"}, next : Rates \union {0}, retry : BOOLEAN, sub : 0 .. made']
    BY <1>2, <1>5
  <2>3. CallWell'
    BY <1>5, <2>1 DEF CallWell, Sampling!Fastest
  <2> QED BY <1>1, <1>3, <1>5, <2>1, <2>2, <2>3 DEF MutexHeld, ThreadWell
<1> QED BY <1>3, <1>4, <1>5, Rescheduled

LEMMA SubscribeStep ==
  ASSUME SamplingInv, NEW w \in Subscribers, Sampling!Subscribe(w)
  PROVE  SamplingInv'
<1>1. PICK r \in Rates :
        /\ subs' = subs \union {[id |-> made', window |-> w, rate |-> r]}
        /\ Sampling!Reschedule(subs \union {[id |-> made', window |-> w, rate |-> r]}, TRUE, made')
  BY DEF Sampling!Subscribe
<1> DEFINE new == [id |-> made', window |-> w, rate |-> r]
<1>2. /\ call = Sampling!Idle /\ mutex = "none" /\ ~shut /\ Cardinality(subs) < MaxActive /\ made < MaxSerial
      /\ made' = made + 1 /\ streams' = streams \union {made'} /\ mutex' = "main"
      /\ UNCHANGED <<rate, thread, attached, used, failures, shut, stray>>
  BY SamplingCardinality DEF Sampling!Subscribe, Sampling!Locked
<1>3. SamplerTyped /\ MutexHeld /\ StreamsWell /\ made \in Nat /\ MaxSerial \in Nat /\ MaxActive \in Nat
  BY SamplingAssumption DEF SamplingInv, SamplerTyped
<1>4. made' \in Nat /\ made' \in 0 .. MaxSerial /\ made' \in 0 .. made' /\ made' \in 1 .. made'
  BY <1>2, <1>3
<1>5. \A x \in subs : x.id \in 1 .. made /\ x.id # made' /\ x \in [id : 1 .. made', window : Subscribers, rate : Rates]
  BY <1>2, <1>3 DEF SamplerTyped, Subscription
<1>6. new \in [id : 1 .. made', window : Subscribers, rate : Rates]
  BY <1>4
<1>7. made' \notin streams
  BY <1>3, <1>5 DEF StreamsWell
<1>8. made' \notin attached' /\ attached' \subseteq streams' /\ used' \subseteq streams'
  BY <1>2, <1>3, <1>7 DEF SamplerTyped
<1>9. IsFiniteSet(subs') /\ Cardinality(subs') <= MaxActive
  <2>1. IsFiniteSet(subs) /\ Cardinality(subs) \in Nat
    BY <1>3, FS_CardinalityType DEF SamplerTyped
  <2>2. new \notin subs
    BY <1>5
  <2>3. Cardinality(subs \union {new}) = Cardinality(subs) + 1 /\ IsFiniteSet(subs \union {new})
    BY <2>1, <2>2, FS_AddElement
  <2> QED BY <1>1, <1>2, <1>3, <2>1, <2>3
<1>10. StreamsWell'
  <2>1. streams' = {s.id : s \in subs'}
    <3>1. new.id = made' /\ streams = {s.id : s \in subs} /\ streams' = streams \union {made'}
      BY <1>2, <1>3 DEF StreamsWell
    <3>2. subs' = subs \union {new}
      BY <1>1
    <3> HIDE DEF new
    <3>3. {s.id : s \in subs \union {new}} = {s.id : s \in subs} \union {new.id}
      OBVIOUS
    <3> QED BY <3>1, <3>2, <3>3
  <2>2. \A s, t \in subs' : s.id = t.id => s = t
    BY <1>1, <1>3, <1>5 DEF StreamsWell
  <2> QED BY <1>2, <1>3, <2>1, <2>2 DEF StreamsWell
<1>11. /\ call' \in [at : {"idle", "join", "start", "unlock"}, next : Rates \union {0}, retry : BOOLEAN, sub : 0 .. made']
       /\ stop' \in BOOLEAN /\ MutexHeld' /\ CallWell' /\ ThreadWell'
  <2> DEFINE s == subs \union {new}
  <2>1. s \subseteq [id : 1 .. made', window : Subscribers, rate : Rates] /\ subs' = s /\ TRUE \in BOOLEAN
    BY <1>1, <1>5, <1>6
  <2>2. Sampling!Reschedule(s, TRUE, made') /\ call.at = "idle" /\ mutex # "thread"
    BY <1>1, <1>2 DEF Sampling!Idle
  <2> HIDE DEF s
  <2> QED BY <1>2, <1>4, <1>8, <2>1, <2>2, Adapts
<1>12. SamplerTyped'
  <2>1. subs' \subseteq Subscription'
    BY <1>1, <1>5, <1>6 DEF Subscription
  <2> QED BY <1>2, <1>3, <1>4, <1>8, <1>9, <1>11, <2>1 DEF SamplerTyped
<1> QED BY <1>10, <1>11, <1>12 DEF SamplingInv

LEMMA EndsStep ==
  ASSUME SamplingInv, NEW sub \in subs, Sampling!Ends(sub), call = Sampling!Idle, mutex = "none",
         Sampling!Locked, UNCHANGED <<made, rate, thread, failures, shut, stray>>
  PROVE  SamplingInv'
<1>1. /\ streams' = streams \ {sub.id} /\ used' = used \ {sub.id} /\ attached' = attached \ {sub.id}
      /\ subs' = subs \ {sub} /\ Sampling!Reschedule(subs \ {sub}, FALSE, 0) /\ mutex' = "main"
  BY DEF Sampling!Ends, Sampling!Locked
<1>2. SamplerTyped /\ MutexHeld /\ StreamsWell /\ made \in Nat /\ MaxActive \in Nat
  BY SamplingAssumption DEF SamplingInv, SamplerTyped
<1>3. subs' \subseteq Subscription' /\ subs' \subseteq [id : 1 .. made', window : Subscribers, rate : Rates]
  BY <1>1, <1>2 DEF SamplerTyped, Subscription
<1>4. IsFiniteSet(subs') /\ Cardinality(subs') <= MaxActive
  <2>1. IsFiniteSet(subs) /\ Cardinality(subs) \in Nat /\ Cardinality(subs) <= MaxActive
    BY <1>2, FS_CardinalityType DEF SamplerTyped
  <2>2. IsFiniteSet(subs \ {sub}) /\ Cardinality(subs \ {sub}) = Cardinality(subs) - 1
    BY <2>1, FS_RemoveElement
  <2> QED BY <1>1, <1>2, <2>1, <2>2
<1>5. StreamsWell'
  <2>1. \A x \in subs : x # sub => x.id # sub.id
    BY <1>2 DEF StreamsWell
  <2>2. streams' = {s.id : s \in subs'}
    BY <1>1, <1>2, <2>1 DEF StreamsWell
  <2> QED BY <1>1, <1>2, <2>2 DEF StreamsWell
<1>6. /\ call' \in [at : {"idle", "join", "start", "unlock"}, next : Rates \union {0}, retry : BOOLEAN, sub : 0 .. made']
      /\ stop' \in BOOLEAN /\ MutexHeld' /\ CallWell' /\ ThreadWell'
  <2>1. FALSE \in BOOLEAN /\ made' \in Nat /\ 0 \in 0 .. made' /\ call.at = "idle" /\ mutex # "thread"
    BY <1>2 DEF Sampling!Idle
  <2> DEFINE s == subs \ {sub}
  <2>2. Sampling!Reschedule(s, FALSE, 0) /\ s \subseteq [id : 1 .. made', window : Subscribers, rate : Rates] /\ subs' = s
    BY <1>1, <1>3
  <2> HIDE DEF s
  <2> QED BY <1>1, <2>1, <2>2, Adapts
<1>7. SamplerTyped'
  BY <1>1, <1>2, <1>3, <1>4, <1>6 DEF SamplerTyped
<1> QED BY <1>5, <1>6, <1>7 DEF SamplingInv

LEMMA HousekeepingStep == ASSUME SamplingInv, Sampling!Housekeeping PROVE SamplingInv'
<1>1. CASE /\ attached' = attached \union {s.id : s \in {x \in subs : x.id \in used}}
           /\ UNCHANGED <<subs, stop, mutex, call, streams, used>>
  <2>1. call = Sampling!Idle /\ UNCHANGED <<made, rate, thread, failures, shut, stray>> /\ SamplerTyped
        /\ MutexHeld /\ CallWell /\ ThreadWell /\ StreamsWell
    BY DEF Sampling!Housekeeping, SamplingInv
  <2>2. attached' \subseteq streams'
    BY <1>1, <2>1 DEF SamplerTyped
  <2>3. SamplerTyped'
    BY <1>1, <2>1, <2>2 DEF SamplerTyped, Subscription
  <2>4. CallWell'
    BY <1>1, <2>1 DEF CallWell, Sampling!Idle, Sampling!Fastest
  <2> QED BY <1>1, <2>1, <2>3, <2>4 DEF SamplingInv, MutexHeld, ThreadWell, StreamsWell
<1>2. CASE \E sub \in subs : Sampling!Ends(sub) /\ Sampling!Locked
  <2>1. call = Sampling!Idle /\ mutex = "none" /\ UNCHANGED <<made, rate, thread, failures, shut, stray>>
    BY DEF Sampling!Housekeeping
  <2> QED BY <1>2, <2>1, EndsStep
<1> QED BY <1>1, <1>2 DEF Sampling!Housekeeping

LEMMA JoinStep == ASSUME SamplingInv, Sampling!Join PROVE SamplingInv'
<1>1. /\ call.at = "join" /\ thread' = "none" /\ rate' = 0
      /\ call' = IF shut \/ call.next = 0 THEN [Sampling!Idle EXCEPT !.at = "unlock"] ELSE [call EXCEPT !.at = "start"]
      /\ UNCHANGED <<subs, made, stop, mutex, streams, attached, used, failures, shut, stray>>
      /\ thread \in {"none", "exited"}
  BY DEF Sampling!Join
<1>2. SamplerTyped /\ MutexHeld /\ CallWell /\ ThreadWell /\ StreamsWell
  BY DEF SamplingInv
<1>3. stop /\ call.next = Sampling!Fastest(subs) /\ (call.retry => call.sub \notin attached)
  BY <1>1, <1>2 DEF CallWell
<1>4. CASE shut \/ call.next = 0
  <2>1. call' = [at |-> "unlock", next |-> 0, retry |-> FALSE, sub |-> 0]
    BY <1>1, <1>4 DEF Sampling!Idle
  <2>2. subs = {}
    BY <1>2, <1>3, <1>4, SubsRates DEF StreamsWell
  <2>3. CallWell' /\ MutexHeld' /\ ThreadWell'
    BY <1>1, <1>2, <1>3, <2>1, <2>2 DEF CallWell, MutexHeld, ThreadWell
  <2>4. call' \in [at : {"idle", "join", "start", "unlock"}, next : Rates \union {0}, retry : BOOLEAN, sub : 0 .. made']
    <3>1. 0 \in 0 .. made'
      BY <1>1, <1>2 DEF SamplerTyped
    <3> QED BY <2>1, <3>1
  <2>5. SamplerTyped'
    BY <1>1, <1>2, <2>4 DEF SamplerTyped, Subscription
  <2> QED BY <1>1, <1>2, <2>3, <2>5 DEF SamplingInv, StreamsWell
<1>5. CASE ~(shut \/ call.next = 0)
  <2>1. call' = [call EXCEPT !.at = "start"]
    BY <1>1, <1>5
  <2>2. /\ call' \in [at : {"idle", "join", "start", "unlock"}, next : Rates \union {0}, retry : BOOLEAN, sub : 0 .. made']
        /\ call'.at = "start" /\ call'.next = call.next /\ call'.retry = call.retry /\ call'.sub = call.sub
    BY <1>1, <1>2, <2>1 DEF SamplerTyped
  <2>3. CallWell' /\ MutexHeld' /\ ThreadWell'
    BY <1>1, <1>2, <1>3, <2>2 DEF CallWell, MutexHeld, ThreadWell, Sampling!Fastest
  <2>4. SamplerTyped'
    BY <1>1, <1>2, <2>2 DEF SamplerTyped, Subscription
  <2> QED BY <1>1, <1>2, <2>3, <2>4 DEF SamplingInv, StreamsWell
<1> QED BY <1>4, <1>5

LEMMA StartStep == ASSUME SamplingInv, Sampling!Start PROVE SamplingInv'
<1>1. /\ call.at = "start" /\ thread' = "check" /\ stop' = FALSE /\ rate' = call.next
      /\ call' = [at |-> "unlock", next |-> 0, retry |-> FALSE, sub |-> 0]
      /\ UNCHANGED <<subs, made, mutex, streams, attached, used, failures, shut, stray>>
  BY DEF Sampling!Start, Sampling!Idle
<1>2. SamplerTyped /\ MutexHeld /\ CallWell /\ ThreadWell /\ StreamsWell
  BY DEF SamplingInv
<1>3. call.next = Sampling!Fastest(subs) /\ (subs = {} <=> Sampling!Fastest(subs) = 0) /\ call.next \in Rates \union {0}
  BY <1>1, <1>2, SubsRates DEF CallWell, SamplerTyped
<1>4. /\ call' \in [at : {"idle", "join", "start", "unlock"}, next : Rates \union {0}, retry : BOOLEAN, sub : 0 .. made']
      /\ call'.at = "unlock"
  <2>1. 0 \in 0 .. made'
    BY <1>1, <1>2 DEF SamplerTyped
  <2> QED BY <1>1, <2>1
<1>5. MutexHeld' /\ ThreadWell'
  BY <1>1, <1>2, <1>4 DEF MutexHeld, ThreadWell, CallWell
<1>6. call.next # 0
  BY <1>1, <1>2 DEF CallWell
<1>7. CallWell'
  BY <1>1, <1>3, <1>4, <1>6 DEF CallWell, Sampling!Fastest
<1>8. SamplerTyped'
  BY <1>1, <1>2, <1>3, <1>4 DEF SamplerTyped, Subscription
<1> QED BY <1>1, <1>2, <1>5, <1>7, <1>8 DEF SamplingInv, StreamsWell

LEMMA StartFailsStep == ASSUME SamplingInv, Sampling!StartFails PROVE SamplingInv'
<1>1. /\ call.at = "start" /\ failures < MaxFailures /\ failures' = failures + 1
      /\ UNCHANGED <<made, rate, thread, mutex, attached, shut, stray>>
  BY DEF Sampling!StartFails
<1>2. /\ SamplerTyped /\ MutexHeld /\ CallWell /\ ThreadWell /\ StreamsWell /\ made \in Nat
      /\ failures \in Nat /\ MaxFailures \in Nat /\ MaxActive \in Nat
  BY SamplingAssumption DEF SamplingInv, SamplerTyped
<1>3. /\ thread = "none" /\ rate = 0 /\ stop /\ mutex = "main" /\ (call.retry => call.sub \notin attached)
      /\ failures' \in 0 .. MaxFailures /\ failures' > 0
  BY <1>1, <1>2 DEF CallWell, MutexHeld
<1>4. CASE call.retry
  <2> DEFINE s == {x \in subs : x.id # call.sub}
  <2>1. subs' = s /\ streams' = streams \ {call.sub} /\ used' = used \ {call.sub} /\ Sampling!Reschedule(s, FALSE, 0)
    BY <1>4 DEF Sampling!StartFails
  <2>2. s \subseteq subs /\ s \subseteq [id : 1 .. made', window : Subscribers, rate : Rates]
    BY <1>1, <1>2 DEF SamplerTyped, Subscription
  <2>3. attached' \subseteq streams' /\ used' \subseteq streams'
    BY <1>1, <1>2, <1>3, <1>4, <2>1 DEF SamplerTyped
  <2>4. StreamsWell'
    <3>1. streams' = {x.id : x \in subs'}
      BY <1>2, <2>1 DEF StreamsWell
    <3> QED BY <1>1, <1>2, <2>1, <3>1 DEF StreamsWell
  <2> HIDE DEF s
  <2>5. /\ call' \in [at : {"idle", "join", "start", "unlock"}, next : Rates \union {0}, retry : BOOLEAN, sub : 0 .. made']
        /\ stop' \in BOOLEAN /\ MutexHeld' /\ CallWell' /\ ThreadWell'
    <3>1. FALSE \in BOOLEAN /\ made' \in Nat /\ 0 \in 0 .. made' /\ mutex # "thread" /\ mutex' = "main"
      BY <1>1, <1>2, <1>3
    <3> QED BY <1>1, <1>3, <2>1, <2>2, <3>1, Adapts
  <2>6. IsFiniteSet(s) /\ Cardinality(s) <= MaxActive
    <3>1. IsFiniteSet(subs) /\ Cardinality(subs) <= MaxActive /\ Cardinality(subs) \in Nat
      BY <1>2, FS_CardinalityType DEF SamplerTyped
    <3>2. IsFiniteSet(s) /\ Cardinality(s) <= Cardinality(subs) /\ Cardinality(s) \in Nat
      BY <2>2, <3>1, FS_Subset, FS_CardinalityType
    <3> QED BY <1>2, <3>1, <3>2
  <2>7. SamplerTyped'
    <3>1. subs' \subseteq Subscription'
      BY <2>1, <2>2 DEF Subscription
    <3> QED BY <1>1, <1>2, <1>3, <2>1, <2>3, <2>5, <2>6, <3>1 DEF SamplerTyped
  <2> QED BY <2>4, <2>5, <2>7 DEF SamplingInv
<1>5. CASE ~call.retry
  <2>1. /\ call' = [at |-> "unlock", next |-> 0, retry |-> FALSE, sub |-> 0]
        /\ UNCHANGED <<subs, streams, used, stop>>
    BY <1>5 DEF Sampling!StartFails, Sampling!Idle
  <2>2. /\ call' \in [at : {"idle", "join", "start", "unlock"}, next : Rates \union {0}, retry : BOOLEAN, sub : 0 .. made']
        /\ call'.at = "unlock"
    <3>1. 0 \in 0 .. made'
      BY <1>1, <1>2
    <3> QED BY <2>1, <3>1
  <2>3. CallWell' /\ MutexHeld' /\ ThreadWell'
    BY <1>1, <1>2, <1>3, <2>1, <2>2 DEF CallWell, MutexHeld, ThreadWell
  <2>4. SamplerTyped'
    BY <1>1, <1>2, <1>3, <2>1, <2>2 DEF SamplerTyped, Subscription
  <2> QED BY <1>1, <1>2, <2>1, <2>3, <2>4 DEF SamplingInv, StreamsWell
<1> QED BY <1>4, <1>5

LEMMA ReturnStep == ASSUME SamplingInv, Sampling!Return PROVE SamplingInv'
<1>1. /\ call.at = "unlock" /\ call' = Sampling!Idle /\ mutex' = "none"
      /\ UNCHANGED <<subs, made, rate, thread, stop, streams, attached, used, failures, shut, stray>>
  BY DEF Sampling!Return
<1>2. SamplerTyped /\ MutexHeld /\ CallWell /\ ThreadWell /\ StreamsWell
  BY DEF SamplingInv
<1>3. /\ call' \in [at : {"idle", "join", "start", "unlock"}, next : Rates \union {0}, retry : BOOLEAN, sub : 0 .. made']
      /\ call'.at = "idle"
  <2>1. 0 \in 0 .. made'
    BY <1>1, <1>2 DEF SamplerTyped
  <2> QED BY <1>1, <2>1 DEF Sampling!Idle
<1>4. CallWell' /\ MutexHeld' /\ ThreadWell'
  BY <1>1, <1>2, <1>3 DEF CallWell, MutexHeld, ThreadWell, Sampling!Fastest, Sampling!Idle
<1>5. SamplerTyped'
  BY <1>1, <1>2, <1>3 DEF SamplerTyped, Subscription
<1> QED BY <1>1, <1>2, <1>4, <1>5 DEF SamplingInv, StreamsWell

LEMMA ShutdownStep == ASSUME SamplingInv, Sampling!Shutdown PROVE SamplingInv'
<1>1. /\ call = Sampling!Idle /\ mutex = "none" /\ shut' = TRUE /\ stop' = TRUE /\ mutex' = "main"
      /\ subs' = {} /\ streams' = {} /\ used' = {} /\ attached' = {}
      /\ call' = [at |-> "join", next |-> 0, retry |-> FALSE, sub |-> 0]
      /\ UNCHANGED <<made, rate, thread, failures, stray>>
  BY DEF Sampling!Shutdown, Sampling!Locked, Sampling!Idle
<1>2. SamplerTyped /\ MutexHeld /\ CallWell /\ ThreadWell /\ StreamsWell /\ MaxActive \in Nat
  BY SamplingAssumption DEF SamplingInv
<1>3. /\ call' \in [at : {"idle", "join", "start", "unlock"}, next : Rates \union {0}, retry : BOOLEAN, sub : 0 .. made']
      /\ call'.at = "join"
  <2>1. 0 \in 0 .. made'
    BY <1>1, <1>2 DEF SamplerTyped
  <2> QED BY <1>1, <2>1
<1>4. CallWell' /\ MutexHeld' /\ ThreadWell'
  BY <1>1, <1>2, <1>3 DEF CallWell, MutexHeld, ThreadWell, Sampling!Fastest
<1>5. IsFiniteSet(subs') /\ Cardinality(subs') <= MaxActive
  BY <1>1, <1>2, FS_EmptySet
<1>6. SamplerTyped'
  BY <1>1, <1>2, <1>3, <1>5 DEF SamplerTyped, Subscription
<1>7. StreamsWell'
  BY <1>1, <1>2 DEF StreamsWell
<1> QED BY <1>4, <1>6, <1>7 DEF SamplingInv

\* The main thread waits, a page or the sampling thread moves.
LEMMA ThreadStep ==
  ASSUME SamplingInv, UNCHANGED <<subs, made, rate, stop, call, streams, attached, failures, shut, stray>>,
         used' \subseteq streams, MutexHeld', ThreadWell',
         thread' \in {"none", "check", "try", "sample", "wait", "exited"}, mutex' \in {"none", "main", "thread"},
         thread = "none" <=> thread' = "none"
  PROVE  SamplingInv'
<1>1. SamplerTyped /\ CallWell /\ StreamsWell
  BY DEF SamplingInv
<1>2. SamplerTyped'
  BY <1>1 DEF SamplerTyped, Subscription
<1>3. CallWell'
  BY <1>1 DEF CallWell, Sampling!Fastest, Sampling!Idle
<1> QED BY <1>1, <1>2, <1>3 DEF SamplingInv, StreamsWell

LEMMA SamplingStart == Sampling!Init => SamplingInv
<1> SUFFICES ASSUME Sampling!Init PROVE SamplingInv
  OBVIOUS
<1>1. /\ subs = {} /\ made = 0 /\ rate = 0 /\ thread = "none" /\ stop = TRUE /\ mutex = "none"
      /\ call = [at |-> "idle", next |-> 0, retry |-> FALSE, sub |-> 0] /\ streams = {} /\ attached = {}
      /\ used = {} /\ failures = 0 /\ shut = FALSE /\ stray = FALSE
  BY DEF Sampling!Init, Sampling!Idle
<1>2. /\ IsFiniteSet({}) /\ Cardinality({}) = 0 /\ MaxActive \in Nat /\ MaxSerial \in Nat /\ MaxFailures \in Nat
  BY FS_EmptySet, SamplingAssumption
<1>3. SamplerTyped
  <2>1. IsFiniteSet(subs) /\ Cardinality(subs) <= MaxActive
    BY <1>1, <1>2
  <2>2. 0 \in 0 .. made /\ made \in 0 .. MaxSerial /\ failures \in 0 .. MaxFailures
    BY <1>1, <1>2
  <2> QED BY <1>1, <2>1, <2>2 DEF SamplerTyped
<1>4. MutexHeld /\ CallWell /\ ThreadWell /\ StreamsWell
  BY <1>1 DEF MutexHeld, CallWell, ThreadWell, StreamsWell, Sampling!Idle
<1> QED BY <1>3, <1>4 DEF SamplingInv

LEMMA SamplingSteps == SamplingInv /\ (Sampling!Next \/ UNCHANGED samplerVars) => SamplingInv'
<1> SUFFICES ASSUME SamplingInv, Sampling!Next \/ UNCHANGED samplerVars PROVE SamplingInv'
  OBVIOUS
<1>0. SamplerTyped /\ MutexHeld /\ ThreadWell /\ StreamsWell
  BY DEF SamplingInv
<1>1. CASE UNCHANGED samplerVars
  <2>1. /\ UNCHANGED <<subs, made, rate, stop, call, streams, attached, failures, shut, stray>>
        /\ used' = used /\ thread' = thread /\ mutex' = mutex
    BY <1>1 DEF samplerVars
  <2> QED BY <1>0, <2>1, ThreadStep DEF SamplerTyped, MutexHeld, ThreadWell
<1>2. CASE \E w \in Subscribers : Sampling!Subscribe(w)
  BY <1>2, SubscribeStep
<1>3. CASE Sampling!Unsubscribe
  BY <1>3, EndsStep DEF Sampling!Unsubscribe
<1>4. CASE \/ Sampling!Housekeeping \/ Sampling!Join \/ Sampling!Start \/ Sampling!StartFails
           \/ Sampling!Return \/ Sampling!Shutdown
  BY <1>4, HousekeepingStep, JoinStep, StartStep, StartFailsStep, ReturnStep, ShutdownStep
<1>5. CASE Sampling!Consume
  <2>1. /\ UNCHANGED <<subs, made, rate, stop, call, streams, attached, failures, shut, stray>>
        /\ used' \subseteq streams /\ thread' = thread /\ mutex' = mutex
    BY <1>0, <1>5 DEF Sampling!Consume, SamplerTyped
  <2> QED BY <1>0, <2>1, ThreadStep DEF SamplerTyped, MutexHeld, ThreadWell
<1>6. CASE Sampling!Check \/ Sampling!TryLock \/ Sampling!Wait
  <2>1. /\ UNCHANGED <<subs, made, rate, stop, call, streams, attached, failures, shut, stray>> /\ used' = used
    BY <1>6 DEF Sampling!Check, Sampling!TryLock, Sampling!Wait, Sampling!Main
  <2>2. MutexHeld' /\ ThreadWell'
    BY <1>0, <1>6, <2>1 DEF Sampling!Check, Sampling!TryLock, Sampling!Wait, MutexHeld, ThreadWell, SamplerTyped
  <2>3. /\ thread' \in {"none", "check", "try", "sample", "wait", "exited"} /\ mutex' \in {"none", "main", "thread"}
        /\ thread = "none" <=> thread' = "none"
    BY <1>0, <1>6 DEF Sampling!Check, Sampling!TryLock, Sampling!Wait, SamplerTyped
  <2> QED BY <1>0, <2>1, <2>2, <2>3, ThreadStep DEF SamplerTyped
<1>7. CASE Sampling!Sample
  <2>1. /\ UNCHANGED <<subs, made, rate, stop, call, streams, attached, failures, shut>> /\ used' = used
        /\ thread = "sample" /\ mutex' = "none" /\ thread' = "wait"
        /\ stray' = (stray \/ \E s \in subs : s.id \notin streams)
    BY <1>7 DEF Sampling!Sample, Sampling!Main
  <2>2. stray' = stray
    <3>1. stray = FALSE /\ \A s \in subs : s.id \in streams
      BY <1>0 DEF StreamsWell, SamplerTyped
    <3> QED BY <2>1, <3>1
  <2>3. MutexHeld' /\ ThreadWell'
    BY <1>0, <2>1 DEF MutexHeld, ThreadWell
  <2> QED BY <1>0, <2>1, <2>2, <2>3, ThreadStep DEF SamplerTyped
<1> QED BY <1>1, <1>2, <1>3, <1>4, <1>5, <1>6, <1>7 DEF Sampling!Next

LEMMA SamplingSuffices == SamplingInv => Sampling!TypeOK /\ Sampling!OneSampler
<1> SUFFICES ASSUME SamplingInv PROVE Sampling!TypeOK /\ Sampling!OneSampler
  OBVIOUS
<1>1. SamplerTyped /\ MutexHeld /\ CallWell /\ ThreadWell /\ StreamsWell
  BY DEF SamplingInv
<1>2. streams \subseteq 1 .. made
  BY <1>1 DEF StreamsWell, SamplerTyped, Subscription
<1>3. Sampling!TypeOK
  BY <1>1, <1>2, SamplingCardinality DEF Sampling!TypeOK, SamplerTyped, Subscription, StreamsWell
<1>4. Sampling!OneSampler
  <2>1. call = Sampling!Idle => call.at = "idle"
    BY DEF Sampling!Idle
  <2> QED BY <1>1, <2>1 DEF Sampling!OneSampler, CallWell, ThreadWell, StreamsWell, MutexHeld, SamplerTyped
<1> QED BY <1>3, <1>4

-----------------------------------------------------------------------------
(* The timers and file watches.  A queue has few changes and one notice at  *)
(* most for each watch, so there is room for a notice that is not there.    *)

LEMMA TasksCardinality == ASSUME NEW S PROVE Tasks!Cardinality(S) = Cardinality(S)
BY DEF Tasks!Cardinality, Cardinality

LEMMA TasksAmong == ASSUME NEW q, NEW S PROVE Tasks!Among(q, S) = Among(q, S)
BY DEF Tasks!Among, Among

Event == [id : 1 .. MaxIds, overflow : BOOLEAN]
Plain(q) == {i \in 1 .. Len(q) : ~q[i].overflow}
Notices(q) == {i \in 1 .. Len(q) : q[i].overflow}
OneNotice(q) == \A i, j \in Notices(q) : q[i].id = q[j].id => i = j
QueueWell(q) == Cardinality(Plain(q)) <= ChangeLimit /\ OneNotice(q)
Told(q, id) == \E i \in Notices(q) : q[i].id = id

LEMMA NoticeTold == ASSUME NEW q \in Seq(Event), NEW id PROVE Tasks!Notice(q, id) <=> Told(q, id)
<1>1. DOMAIN q = 1 .. Len(q)
  OBVIOUS
<1> QED BY <1>1 DEF Tasks!Notice, Told, Notices

LEMMA PlainFinite ==
  ASSUME NEW q \in Seq(Event)
  PROVE  /\ IsFiniteSet(Plain(q)) /\ IsFiniteSet(Notices(q)) /\ Cardinality(Plain(q)) \in Nat
         /\ Cardinality(Notices(q)) \in Nat /\ Cardinality(Plain(q)) <= Len(q)
         /\ Cardinality(Plain(q)) + Cardinality(Notices(q)) = Len(q)
<1>1. Len(q) \in Nat
  OBVIOUS
<1>2. IsFiniteSet(1 .. Len(q)) /\ Cardinality(1 .. Len(q)) = Len(q)
  <2>1. 1 \in Int /\ Len(q) \in Int
    BY <1>1
  <2>2. IsFiniteSet(1 .. Len(q)) /\ Cardinality(1 .. Len(q)) = IF 1 > Len(q) THEN 0 ELSE Len(q) - 1 + 1
    BY <2>1, FS_Interval
  <2> QED BY <1>1, <2>2
<1>3. Plain(q) \subseteq 1 .. Len(q) /\ Notices(q) \subseteq 1 .. Len(q)
  BY DEF Plain, Notices
<1>4. IsFiniteSet(Plain(q)) /\ IsFiniteSet(Notices(q)) /\ Cardinality(Plain(q)) <= Cardinality(1 .. Len(q))
  BY <1>2, <1>3, FS_Subset
<1>5. Cardinality(Plain(q)) \in Nat /\ Cardinality(Notices(q)) \in Nat
  BY <1>4, FS_CardinalityType
<1>6. Plain(q) \cup Notices(q) = 1 .. Len(q) /\ Plain(q) \cap Notices(q) = {}
  BY DEF Plain, Notices
<1>7. Cardinality(Plain(q) \cup Notices(q)) = Cardinality(Plain(q)) + Cardinality(Notices(q)) - Cardinality(Plain(q) \cap Notices(q))
  BY <1>4, FS_Union
<1>8. Cardinality(Plain(q) \cap Notices(q)) = 0
  BY <1>6, FS_EmptySet
<1>9. Cardinality(Plain(q) \cup Notices(q)) = Cardinality(Plain(q)) + Cardinality(Notices(q))
  BY <1>5, <1>7, <1>8
<1>10. Cardinality(Plain(q)) + Cardinality(Notices(q)) = Len(q)
  BY <1>2, <1>6, <1>9
<1> QED BY <1>2, <1>4, <1>5, <1>10

\* A part of a queue has no more changes and no more notices.
LEMMA PartWell ==
  ASSUME NEW q \in Seq(Event), NEW r \in Seq(Event), NEW f, Embeds(f, r, q), QueueWell(q)
  PROVE  QueueWell(r) /\ Len(r) <= Len(q)
<1>1. /\ f \in [1 .. Len(r) -> 1 .. Len(q)] /\ (\A i, j \in 1 .. Len(r) : i < j => f[i] < f[j])
      /\ \A i \in 1 .. Len(r) : r[i] = q[f[i]]
  BY DEF Embeds
<1>2. \A i, j \in 1 .. Len(r) : f[i] = f[j] => i = j
  <2> SUFFICES ASSUME NEW i \in 1 .. Len(r), NEW j \in 1 .. Len(r), i # j PROVE f[i] # f[j]
    OBVIOUS
  <2>1. i < j \/ j < i
    OBVIOUS
  <2>2. f[i] \in 1 .. Len(q) /\ f[j] \in 1 .. Len(q)
    BY <1>1
  <2>3. f[i] < f[j] \/ f[j] < f[i]
    BY <1>1, <2>1
  <2> QED BY <2>2, <2>3
<1>3. Cardinality(Plain(r)) <= Cardinality(Plain(q))
  <2> DEFINE g == [i \in Plain(r) |-> f[i]]
  <2>1. \A i \in Plain(r) : i \in 1 .. Len(r) /\ f[i] \in Plain(q)
    BY <1>1 DEF Plain
  <2>2. g \in [Plain(r) -> Plain(q)] /\ \A i, j \in Plain(r) : g[i] = g[j] => i = j
    BY <1>2, <2>1
  <2>3. g \in Injection(Plain(r), Plain(q))
    BY <2>2 DEF Injection, IsInjective
  <2>4. IsFiniteSet(Plain(q))
    BY PlainFinite
  <2> HIDE DEF g
  <2> QED BY <2>3, <2>4, FS_Injection
<1>4. OneNotice(r)
  <2> SUFFICES ASSUME NEW i \in Notices(r), NEW j \in Notices(r), r[i].id = r[j].id PROVE i = j
    BY DEF OneNotice
  <2>1. i \in 1 .. Len(r) /\ j \in 1 .. Len(r) /\ f[i] \in Notices(q) /\ f[j] \in Notices(q) /\ q[f[i]].id = q[f[j]].id
    BY <1>1 DEF Notices
  <2>2. f[i] = f[j]
    BY <2>1 DEF QueueWell, OneNotice
  <2> QED BY <1>2, <2>1, <2>2
<1>5. Len(r) <= Len(q)
  <2>1. f \in Injection(1 .. Len(r), 1 .. Len(q))
    BY <1>1, <1>2 DEF Injection, IsInjective
  <2>2. Len(r) \in Nat /\ Len(q) \in Nat
    OBVIOUS
  <2>3. \A n \in Nat : IsFiniteSet(1 .. n) /\ Cardinality(1 .. n) = n
    <3> SUFFICES ASSUME NEW n \in Nat PROVE IsFiniteSet(1 .. n) /\ Cardinality(1 .. n) = n
      OBVIOUS
    <3>1. IsFiniteSet(1 .. n) /\ Cardinality(1 .. n) = IF 1 > n THEN 0 ELSE n - 1 + 1
      BY FS_Interval
    <3> QED BY <3>1
  <2>4. Cardinality(1 .. Len(r)) <= Cardinality(1 .. Len(q))
    BY <2>1, <2>2, <2>3, FS_Injection
  <2> QED BY <2>2, <2>3, <2>4
<1>6. Cardinality(Plain(r)) \in Nat /\ Cardinality(Plain(q)) \in Nat /\ ChangeLimit \in Nat
  BY PlainFinite, TasksAssumption
<1> QED BY <1>3, <1>4, <1>5, <1>6 DEF QueueWell

\* What is queued for some watches goes, and nothing else does.
LEMMA WithoutWell ==
  ASSUME NEW q \in Seq(Event), NEW ids, QueueWell(q)
  PROVE  /\ Tasks!Without(q, ids) \in Seq(Event) /\ QueueWell(Tasks!Without(q, ids))
         /\ Len(Tasks!Without(q, ids)) <= Len(q)
         /\ \A i \in 1 .. Len(Tasks!Without(q, ids)) :
              /\ Tasks!Without(q, ids)[i].id \notin ids
              /\ \E k \in 1 .. Len(q) : Tasks!Without(q, ids)[i] = q[k]
         /\ \A id : id \notin ids /\ Told(q, id) => Told(Tasks!Without(q, ids), id)
<1> DEFINE S == {q[i] : i \in {j \in DOMAIN q : q[j].id \notin ids}}
           r == Tasks!Without(q, ids)
<1>1. r = Among(q, S)
  BY TasksAmong DEF Tasks!Without
<1>2. \A i \in 1 .. Len(q) : q[i] \in S <=> q[i].id \notin ids
  OBVIOUS
<1> HIDE DEF S, r
<1>3. r \in Seq(Event)
  BY <1>1, AmongEmbeds
<1>4. PICK f : /\ Embeds(f, r, q) /\ (\A i \in 1 .. Len(r) : q[f[i]] \in S)
               /\ \A i \in 1 .. Len(q) : q[i] \in S => \E k \in 1 .. Len(r) : f[k] = i
  BY <1>1, AmongEmbeds
<1>5. QueueWell(r) /\ Len(r) <= Len(q)
  BY <1>3, <1>4, PartWell
<1>6. \A i \in 1 .. Len(r) : f[i] \in 1 .. Len(q) /\ r[i] = q[f[i]]
  BY <1>4 DEF Embeds
<1>7. \A i \in 1 .. Len(r) : r[i].id \notin ids /\ \E k \in 1 .. Len(q) : r[i] = q[k]
  BY <1>2, <1>4, <1>6
<1>8. \A id : id \notin ids /\ Told(q, id) => Told(r, id)
  <2> SUFFICES ASSUME NEW id, id \notin ids, Told(q, id) PROVE Told(r, id)
    OBVIOUS
  <2>1. PICK i \in 1 .. Len(q) : q[i].overflow /\ q[i].id = id
    BY DEF Told, Notices
  <2>2. PICK k \in 1 .. Len(r) : f[k] = i
    BY <1>2, <1>4, <2>1
  <2> QED BY <1>6, <2>1, <2>2 DEF Told, Notices
<1> QED BY <1>3, <1>5, <1>7, <1>8 DEF r

LEMMA FrontTaken ==
  ASSUME NEW q \in Seq(Event), NEW n \in 0 .. Len(q), QueueWell(q)
  PROVE  LET taken == SubSeq(q, 1, n)
             rest == SubSeq(q, n + 1, Len(q))
         IN /\ taken \in Seq(Event) /\ rest \in Seq(Event) /\ QueueWell(rest) /\ Len(rest) <= Len(q)
            /\ \A i \in 1 .. Len(rest) : \E k \in 1 .. Len(q) : rest[i] = q[k]
            /\ \A id : Told(q, id) => Told(taken, id) \/ Told(rest, id)
<1> DEFINE taken == SubSeq(q, 1, n)
           rest == SubSeq(q, n + 1, Len(q))
<1>1. Len(q) \in Nat /\ n \in Nat /\ n <= Len(q) /\ n + 1 \in Nat
  OBVIOUS
<1>2. \A i \in 1 .. Len(q) : q[i] \in Event
  OBVIOUS
<1>3. taken \in Seq(Event) /\ Len(taken) = n /\ \A i \in 1 .. n : taken[i] = q[i]
  BY <1>1, <1>2
<1>4. rest \in Seq(Event) /\ Len(rest) = Len(q) - n /\ \A i \in 1 .. Len(q) - n : rest[i] = q[i + n]
  BY <1>1, <1>2
<1> HIDE DEF taken, rest
<1> DEFINE f == [i \in 1 .. Len(q) - n |-> i + n]
<1>5. Embeds(f, rest, q)
  <2>1. \A i \in 1 .. Len(q) - n : i + n \in 1 .. Len(q)
    BY <1>1
  <2> QED BY <1>1, <1>4, <2>1 DEF Embeds
<1>6. QueueWell(rest) /\ Len(rest) <= Len(q)
  <2> HIDE DEF f
  <2> QED BY <1>4, <1>5, PartWell
<1>7. \A i \in 1 .. Len(rest) : \E k \in 1 .. Len(q) : rest[i] = q[k]
  BY <1>5 DEF Embeds
<1>8. ASSUME NEW id, Told(q, id) PROVE Told(taken, id) \/ Told(rest, id)
  <2>1. PICK i \in 1 .. Len(q) : q[i].overflow /\ q[i].id = id
    BY <1>8 DEF Told, Notices
  <2>2. CASE i <= n
    <3>1. i \in 1 .. n
      BY <2>2
    <3> QED BY <1>3, <2>1, <3>1 DEF Told, Notices
  <2>3. CASE ~(i <= n)
    <3>1. i - n \in 1 .. Len(q) - n /\ (i - n) + n = i
      BY <1>1, <2>3
    <3> QED BY <1>4, <2>1, <3>1 DEF Told, Notices
  <2> QED BY <2>2, <2>3
<1> QED BY <1>3, <1>4, <1>6, <1>7, <1>8 DEF taken, rest

\* r is a queue that begins with q, with n events of one watch behind it.
Grows(q, r, id, n) ==
  /\ r \in Seq(Event) /\ Len(r) = Len(q) + n /\ QueueWell(r)
  /\ \A i \in 1 .. Len(r) : r[i].id = id \/ \E k \in 1 .. Len(q) : r[i] = q[k]
  /\ \A x : Told(q, x) => Told(r, x)

\* Changes that fit are put behind a queue.
LEMMA ChangesQueued ==
  ASSUME NEW q \in Seq(Event), QueueWell(q), NEW n \in Nat, NEW id \in 1 .. MaxIds,
         n = 0 \/ Len(q) + n <= ChangeLimit
  PROVE  LET full == q \o [i \in 1 .. n |-> [id |-> id, overflow |-> FALSE]]
         IN Grows(q, full, id, n)
<1> DEFINE new == [i \in 1 .. n |-> [id |-> id, overflow |-> FALSE]]
           full == q \o new
<1>1. new \in Seq(Event) /\ Len(new) = n /\ \A i \in 1 .. n : new[i].id = id /\ new[i].overflow = FALSE
  <2>1. [id |-> id, overflow |-> FALSE] \in Event
    BY DEF Event
  <2> QED BY <2>1
<1>2. Len(q) \in Nat
  OBVIOUS
<1> HIDE DEF new
<1>3. /\ full \in Seq(Event) /\ Len(full) = Len(q) + n
      /\ \A i \in 1 .. Len(full) : full[i] = IF i <= Len(q) THEN q[i] ELSE new[i - Len(q)]
  BY <1>1, ConcatProperties
<1> HIDE DEF full
<1>4. /\ \A i \in 1 .. Len(q) : i \in 1 .. Len(full) /\ full[i] = q[i]
      /\ \A i \in 1 .. Len(full) : i \in 1 .. Len(q) \/ (full[i].id = id /\ full[i].overflow = FALSE)
  <2>1. \A i \in 1 .. Len(full) : ~(i <= Len(q)) => i - Len(q) \in 1 .. n
    BY <1>2, <1>3
  <2>2. \A i \in 1 .. Len(q) : i \in 1 .. Len(full) /\ i <= Len(q)
    BY <1>2, <1>3
  <2>3. \A i \in 1 .. Len(q) : full[i] = q[i]
    BY <1>3, <2>2
  <2>4. \A i \in 1 .. Len(full) : i <= Len(q) => i \in 1 .. Len(q)
    BY <1>2
  <2>5. ASSUME NEW i \in 1 .. Len(full), ~(i <= Len(q)) PROVE full[i].id = id /\ full[i].overflow = FALSE
    <3>1. i - Len(q) \in 1 .. n /\ full[i] = new[i - Len(q)]
      BY <1>3, <2>1, <2>5
    <3> QED BY <1>1, <3>1
  <2> QED BY <2>2, <2>3, <2>4, <2>5
<1>5. Notices(full) = Notices(q)
  BY <1>4 DEF Notices
<1>6. OneNotice(full) /\ \A x : Told(q, x) => Told(full, x)
  BY <1>4, <1>5 DEF QueueWell, OneNotice, Told, Notices
<1>7. Cardinality(Plain(full)) <= ChangeLimit
  <2>1. CASE n = 0
    <3>1. 1 .. Len(full) = 1 .. Len(q)
      BY <1>2, <1>3, <2>1
    <3>2. Plain(full) = Plain(q)
      BY <1>4, <3>1 DEF Plain
    <3> QED BY <3>2 DEF QueueWell
  <2>2. CASE Len(q) + n <= ChangeLimit
    <3>1. Cardinality(Plain(full)) \in Nat /\ Cardinality(Plain(full)) <= Len(full) /\ ChangeLimit \in Nat
      BY <1>3, PlainFinite, TasksAssumption
    <3> QED BY <1>2, <1>3, <2>2, <3>1
  <2> QED BY <2>1, <2>2
<1>8. \A i \in 1 .. Len(full) : full[i].id = id \/ \E k \in 1 .. Len(q) : full[i] = q[k]
  BY <1>4
<1>9. Grows(q, full, id, n)
  BY <1>3, <1>6, <1>7, <1>8 DEF Grows, QueueWell
<1> QED BY <1>9 DEF full, new

\* A notice for a watch that has none is put behind a queue.
LEMMA NoticeQueued ==
  ASSUME NEW q \in Seq(Event), QueueWell(q), NEW id \in 1 .. MaxIds, ~Told(q, id)
  PROVE  LET r == Append(q, [id |-> id, overflow |-> TRUE])
         IN Grows(q, r, id, 1) /\ Told(r, id)
<1> DEFINE new == [id |-> id, overflow |-> TRUE]
           r == Append(q, new)
<1>1. new \in Event /\ new.id = id /\ new.overflow = TRUE
  BY DEF Event
<1> HIDE DEF new
<1>2. Len(q) \in Nat /\ r \in Seq(Event) /\ Len(r) = Len(q) + 1 /\ r[Len(q) + 1] = new
      /\ \A i \in 1 .. Len(q) : r[i] = q[i]
  BY <1>1, AppendProperties
<1> HIDE DEF r
<1>3. /\ \A i \in 1 .. Len(r) : i \in 1 .. Len(q) \/ i = Len(q) + 1
      /\ \A i \in 1 .. Len(q) : i \in 1 .. Len(r) /\ i # Len(q) + 1
      /\ Len(q) + 1 \in 1 .. Len(r)
  BY <1>2
<1>4. Plain(r) = Plain(q)
  <2>1. ASSUME NEW i, i \in Plain(r) PROVE i \in Plain(q)
    BY <1>1, <1>2, <1>3, <2>1 DEF Plain
  <2>2. ASSUME NEW i, i \in Plain(q) PROVE i \in Plain(r)
    BY <1>2, <1>3, <2>2 DEF Plain
  <2> QED BY <2>1, <2>2
<1>5. \A i \in Notices(r) : i \in Notices(q) \/ i = Len(q) + 1
  BY <1>2, <1>3 DEF Notices
<1>6. \A i \in Notices(q) : i \in Notices(r) /\ r[i] = q[i] /\ q[i].id # id
  BY <1>2, <1>3 DEF Notices, Told
<1>7. OneNotice(r)
  BY <1>1, <1>2, <1>5, <1>6 DEF OneNotice, QueueWell
<1>8. Told(r, id)
  BY <1>1, <1>2, <1>3 DEF Told, Notices
<1>9. \A x : Told(q, x) => Told(r, x)
  BY <1>6 DEF Told
<1>10. \A i \in 1 .. Len(r) : r[i].id = id \/ \E k \in 1 .. Len(q) : r[i] = q[k]
  BY <1>1, <1>2, <1>3
<1>11. Grows(q, r, id, 1)
  BY <1>2, <1>4, <1>7, <1>9, <1>10 DEF Grows, QueueWell
<1> QED BY <1>8, <1>11 DEF r, new

\* While a watch has no notice, the queue has room for one: the changes are few, and each of the other watches
\* has one notice at most.
LEMMA RoomForNotice ==
  ASSUME NEW q \in Seq(Event), QueueWell(q), NEW W, IsFiniteSet(W), Cardinality(W) <= WatchLimit,
         \A i \in 1 .. Len(q) : q[i].id \in W, NEW id \in W, ~Told(q, id)
  PROVE  Len(q) < EventLimit
<1> DEFINE f == [i \in Notices(q) |-> q[i].id]
<1>1. f \in [Notices(q) -> W \ {id}] /\ \A i, j \in Notices(q) : f[i] = f[j] => i = j
  <2>1. \A i \in Notices(q) : q[i].id \in W /\ q[i].id # id
    BY DEF Notices, Told
  <2> QED BY <2>1 DEF QueueWell, OneNotice
<1>2. f \in Injection(Notices(q), W \ {id})
  BY <1>1 DEF Injection, IsInjective
<1> HIDE DEF f
<1>3. IsFiniteSet(W \ {id}) /\ Cardinality(W \ {id}) = Cardinality(W) - 1 /\ Cardinality(W) \in Nat
  BY FS_RemoveElement, FS_CardinalityType
<1>4. Cardinality(Notices(q)) <= Cardinality(W \ {id})
  BY <1>2, <1>3, FS_Injection
<1>5. /\ Cardinality(Plain(q)) + Cardinality(Notices(q)) = Len(q) /\ Cardinality(Plain(q)) \in Nat
      /\ Cardinality(Notices(q)) \in Nat /\ Cardinality(Plain(q)) <= ChangeLimit
  BY PlainFinite DEF QueueWell
<1>6. {ChangeLimit, WatchLimit, EventLimit} \subseteq Nat /\ ChangeLimit + WatchLimit <= EventLimit
  BY TasksAssumption
<1> QED BY <1>3, <1>4, <1>5, <1>6

TasksTyped ==
  /\ sequence \in 0 .. MaxIds /\ windowOf \in [1 .. MaxIds -> Windows \union {0}]
  /\ watches \subseteq 1 .. sequence /\ todo \subseteq 1 .. sequence /\ Cardinality(watches) <= WatchLimit
  /\ \A t \in timers : t.id \in 1 .. sequence /\ t.owner \in Windows \union Callers /\ t.repeats \in BOOLEAN
  /\ IsFiniteSet(timers) /\ Cardinality(timers) <= TimerLimit
  /\ found.id \in 0 .. sequence /\ found.changes \in 0 .. MaxFound

\* What is queued is for active watches, and every loss has its notice.
LossesNoticed ==
  /\ events \in Seq(Event) /\ Len(events) <= EventLimit /\ QueueWell(events)
  /\ \A i \in 1 .. Len(events) : events[i].id \in watches
  /\ lost \subseteq watches /\ \A id \in lost : Told(events, id)

\* A tick returns one event at most for each timer that was due.
TickWell ==
  \/ due = <<>> /\ output = 0
  \/ \E ts \in SUBSET (1 .. sequence) : due = <<ts>> /\ output \in Nat /\ output + Cardinality(ts) <= TimerLimit

TasksInv == TasksTyped /\ LossesNoticed /\ TickWell

LEMMA TaskBounds ==
  ASSUME TasksTyped
  PROVE  /\ sequence \in Nat /\ {MaxIds, WatchLimit, TimerLimit, ChangeLimit, EventLimit, MaxFound} \subseteq Nat
         /\ ChangeLimit + WatchLimit <= EventLimit
         /\ IsFiniteSet(1 .. sequence) /\ IsFiniteSet(watches) /\ Cardinality(watches) \in Nat
         /\ Cardinality(timers) \in Nat /\ \A i \in watches : i \in 1 .. MaxIds
<1>1. sequence \in Nat /\ sequence <= MaxIds /\ MaxIds \in Nat /\ watches \subseteq 1 .. sequence /\ IsFiniteSet(timers)
  BY TasksAssumption DEF TasksTyped
<1>2. IsFiniteSet(1 .. sequence)
  BY <1>1, FS_Interval
<1>3. IsFiniteSet(watches)
  BY <1>1, <1>2, FS_Subset
<1>4. Cardinality(watches) \in Nat /\ Cardinality(timers) \in Nat
  BY <1>1, <1>3, FS_CardinalityType
<1>5. \A i \in watches : i \in 1 .. MaxIds
  BY <1>1
<1> QED BY <1>1, <1>2, <1>3, <1>4, <1>5, TasksAssumption

LEMMA QueueKept ==
  ASSUME LossesNoticed, UNCHANGED <<events, lost>>, watches \subseteq watches'
  PROVE  LossesNoticed'
BY DEF LossesNoticed, QueueWell, OneNotice, Plain, Notices, Told, Event

LEMMA TickKept ==
  ASSUME TasksTyped, TickWell, UNCHANGED <<due, output>>, sequence' \in Nat, sequence <= sequence'
  PROVE  TickWell'
<1>1. CASE due = <<>> /\ output = 0
  BY <1>1 DEF TickWell
<1>2. CASE due # <<>>
  <2>1. PICK ts \in SUBSET (1 .. sequence) : due = <<ts>> /\ output \in Nat /\ output + Cardinality(ts) <= TimerLimit
    BY <1>2 DEF TickWell
  <2>2. \A i \in 1 .. sequence : i \in 1 .. sequence'
    BY TaskBounds
  <2> QED BY <2>1, <2>2 DEF TickWell
<1> QED BY <1>1, <1>2 DEF TickWell

LEMMA WatchStep == ASSUME TasksInv, NEW w \in Windows, Tasks!Watch(w) PROVE TasksInv'
<1>1. /\ Cardinality(watches) < WatchLimit /\ sequence < MaxIds /\ sequence' = sequence + 1
      /\ watches' = watches \union {sequence'} /\ windowOf' = [windowOf EXCEPT ![sequence'] = w]
      /\ UNCHANGED <<timers, events, todo, found, due, output, lost>>
  BY TasksCardinality DEF Tasks!Watch, Tasks!HasRoom, Tasks!NewId
<1>2. TasksTyped /\ LossesNoticed /\ TickWell
  BY DEF TasksInv
<1>3. /\ sequence \in Nat /\ {MaxIds, WatchLimit} \subseteq Nat /\ IsFiniteSet(watches) /\ Cardinality(watches) \in Nat
  BY <1>2, TaskBounds
<1>4. sequence' \in 0 .. MaxIds /\ sequence' \in 1 .. MaxIds /\ \A i \in 0 .. sequence : i \in 0 .. sequence' /\ i # sequence'
  BY <1>1, <1>3
<1>5. (\A i \in 1 .. sequence : i \in 1 .. sequence') /\ sequence' \in 1 .. sequence'
  BY <1>1, <1>3
<1>6. Cardinality(watches') <= WatchLimit
  <2>1. sequence' \notin watches
    BY <1>1, <1>2, <1>3 DEF TasksTyped
  <2>2. Cardinality(watches \union {sequence'}) = Cardinality(watches) + 1
    BY <1>3, <2>1, FS_AddElement
  <2> QED BY <1>1, <1>3, <2>2
<1>7. windowOf' \in [1 .. MaxIds -> Windows \union {0}]
  BY <1>1, <1>2, <1>4 DEF TasksTyped
<1>8. watches' \subseteq 1 .. sequence' /\ todo' \subseteq 1 .. sequence'
  BY <1>1, <1>2, <1>5 DEF TasksTyped
<1>9. TasksTyped'
  BY <1>1, <1>2, <1>4, <1>5, <1>6, <1>7, <1>8 DEF TasksTyped
<1>10. LossesNoticed'
  BY <1>1, <1>2, QueueKept
<1>11. TickWell'
  BY <1>1, <1>2, <1>3, TickKept
<1> QED BY <1>9, <1>10, <1>11 DEF TasksInv

\* Some watches go, and timers perhaps too.
LEMMA DropStep ==
  ASSUME TasksInv, NEW ids, Tasks!Drop(ids), timers' \subseteq timers, UNCHANGED <<due, output>>
  PROVE  TasksInv'
<1>1. /\ watches' = watches \ ids /\ events' = Tasks!Without(events, ids) /\ lost' = lost \ ids
      /\ UNCHANGED <<sequence, windowOf, todo, found>>
  BY DEF Tasks!Drop
<1>2. TasksTyped /\ LossesNoticed /\ TickWell
  BY DEF TasksInv
<1>3. /\ sequence \in Nat /\ {MaxIds, WatchLimit, TimerLimit, EventLimit} \subseteq Nat /\ IsFiniteSet(watches)
      /\ Cardinality(watches) \in Nat /\ IsFiniteSet(timers) /\ Cardinality(timers) \in Nat
  BY <1>2, TaskBounds DEF TasksTyped
<1>4. Cardinality(watches') <= WatchLimit
  <2>1. watches' \subseteq watches
    BY <1>1
  <2>2. Cardinality(watches') <= Cardinality(watches) /\ IsFiniteSet(watches')
    BY <1>3, <2>1, FS_Subset
  <2>3. Cardinality(watches') \in Nat /\ Cardinality(watches) <= WatchLimit
    BY <1>2, <2>2, FS_CardinalityType DEF TasksTyped
  <2> QED BY <1>3, <2>2, <2>3
<1>5. IsFiniteSet(timers') /\ Cardinality(timers') <= TimerLimit
  <2>1. Cardinality(timers') <= Cardinality(timers) /\ IsFiniteSet(timers')
    BY <1>3, FS_Subset
  <2>2. Cardinality(timers') \in Nat /\ Cardinality(timers) <= TimerLimit
    BY <1>2, <2>1, FS_CardinalityType DEF TasksTyped
  <2> QED BY <1>3, <2>1, <2>2
<1>6. TasksTyped'
  BY <1>1, <1>2, <1>4, <1>5 DEF TasksTyped
<1>7. LossesNoticed'
  <2> DEFINE r == Tasks!Without(events, ids)
  <2>1. events \in Seq(Event) /\ QueueWell(events)
    BY <1>2 DEF LossesNoticed
  <2>2. /\ r \in Seq(Event) /\ QueueWell(r) /\ Len(r) <= Len(events)
        /\ \A i \in 1 .. Len(r) : r[i].id \notin ids /\ \E k \in 1 .. Len(events) : r[i] = events[k]
        /\ \A id : id \notin ids /\ Told(events, id) => Told(r, id)
    BY <2>1, WithoutWell
  <2>3. events' = r
    BY <1>1
  <2> HIDE DEF r
  <2>4. Len(r) <= EventLimit
    BY <1>2, <1>3, <2>1, <2>2 DEF LossesNoticed
  <2>5. \A i \in 1 .. Len(r) : r[i].id \in watches'
    <3> SUFFICES ASSUME NEW i \in 1 .. Len(r) PROVE r[i].id \in watches'
      OBVIOUS
    <3>1. PICK k \in 1 .. Len(events) : r[i] = events[k]
      BY <2>2
    <3> QED BY <1>1, <1>2, <2>2, <3>1 DEF LossesNoticed
  <2>6. lost' \subseteq watches' /\ \A id \in lost' : Told(r, id)
    BY <1>1, <1>2, <2>2 DEF LossesNoticed
  <2>7. QueueWell(events') /\ \A id \in lost' : Told(events', id)
    BY <2>2, <2>3, <2>6
  <2>8. QueueWell(events)'
    BY <2>7 DEF QueueWell, OneNotice, Plain, Notices
  <2>9. \A id \in lost' : Told(events', id)
    BY <2>7
  <2> QED BY <2>2, <2>3, <2>4, <2>5, <2>6, <2>8, <2>9 DEF LossesNoticed, Told, Notices, Event
<1>8. TickWell'
  BY <1>1, <1>2, <1>3, TickKept
<1> QED BY <1>6, <1>7, <1>8 DEF TasksInv

\* The thread goes on with its scan.
LEMMA ScanStep ==
  ASSUME TasksInv, UNCHANGED <<sequence, watches, windowOf, timers, events, due, output, lost>>,
         todo' \subseteq 1 .. sequence, found'.id \in 0 .. sequence, found'.changes \in 0 .. MaxFound
  PROVE  TasksInv'
<1>1. TasksTyped /\ LossesNoticed /\ TickWell
  BY DEF TasksInv
<1>2. TasksTyped'
  BY <1>1 DEF TasksTyped
<1>3. LossesNoticed' /\ TickWell'
  BY <1>1, QueueKept, TickKept, TaskBounds
<1> QED BY <1>2, <1>3 DEF TasksInv

LEMMA QueueStep == ASSUME TasksInv, Tasks!Queue PROVE TasksInv'
<1> DEFINE id == found.id
           fits == IF Len(events) >= ChangeLimit THEN 0 ELSE ChangeLimit - Len(events)
           taken == IF found.changes < fits THEN found.changes ELSE fits
           full == events \o [i \in 1 .. taken |-> [id |-> id, overflow |-> FALSE]]
<1>1. /\ found' = Tasks!NoFind /\ UNCHANGED <<sequence, watches, windowOf, timers, todo, due, output>>
      /\ \/ id \notin watches /\ UNCHANGED <<events, lost>>
         \/ id \in watches /\ events' = full /\ UNCHANGED lost
         \/ /\ id \in watches /\ lost' = lost \union {id}
            /\ events' = IF ~Tasks!Notice(full, id) /\ Len(full) < EventLimit
                         THEN Append(full, [id |-> id, overflow |-> TRUE]) ELSE full
  BY DEF Tasks!Queue
<1>2. TasksTyped /\ LossesNoticed /\ TickWell
  BY DEF TasksInv
<1>3. /\ {MaxIds, WatchLimit, ChangeLimit, EventLimit, MaxFound} \subseteq Nat /\ ChangeLimit <= EventLimit
      /\ IsFiniteSet(watches) /\ Cardinality(watches) <= WatchLimit /\ \A i \in watches : i \in 1 .. MaxIds
      /\ found.changes \in Nat /\ sequence \in Nat
  BY <1>2, TaskBounds DEF TasksTyped
<1>4. TasksTyped' /\ TickWell'
  <2>1. found'.id \in 0 .. sequence' /\ found'.changes \in 0 .. MaxFound
    BY <1>1, <1>3 DEF Tasks!NoFind
  <2> QED BY <1>1, <1>2, <1>3, <2>1, TickKept DEF TasksTyped
<1>5. /\ events \in Seq(Event) /\ QueueWell(events) /\ Len(events) \in Nat /\ Len(events) <= EventLimit
      /\ (\A i \in 1 .. Len(events) : events[i].id \in watches) /\ lost \subseteq watches /\ \A x \in lost : Told(events, x)
  BY <1>2 DEF LossesNoticed
<1>6. CASE id \notin watches
  <2>1. UNCHANGED <<events, lost>> /\ watches \subseteq watches'
    BY <1>1, <1>6
  <2> QED BY <1>2, <1>4, <2>1, QueueKept DEF TasksInv
<1>7. CASE id \in watches
  <2>1. taken \in Nat /\ (taken = 0 \/ Len(events) + taken <= ChangeLimit) /\ id \in 1 .. MaxIds
    BY <1>3, <1>5, <1>7
  <2> HIDE DEF taken, id
  <2>2. /\ full \in Seq(Event) /\ Len(full) = Len(events) + taken /\ QueueWell(full)
        /\ \A i \in 1 .. Len(full) : full[i].id = id \/ \E k \in 1 .. Len(events) : full[i] = events[k]
        /\ \A x : Told(events, x) => Told(full, x)
    <3>1. Grows(events, full, id, taken)
      BY <1>5, <2>1, ChangesQueued
    <3> HIDE DEF full
    <3> QED BY <3>1 DEF Grows
  <2> HIDE DEF full
  <2>3. \A i \in 1 .. Len(full) : full[i].id \in watches
    <3> SUFFICES ASSUME NEW i \in 1 .. Len(full) PROVE full[i].id \in watches
      OBVIOUS
    <3>1. CASE full[i].id = id
      BY <1>7, <3>1
    <3>2. ASSUME NEW k \in 1 .. Len(events), full[i] = events[k] PROVE full[i].id \in watches
      BY <1>5, <3>2
    <3> QED BY <2>2, <3>1, <3>2
  <2>4. Len(full) <= EventLimit /\ Len(full) \in Nat
    BY <1>3, <1>5, <2>1, <2>2
\* The queue as it is left, with what is lost by then.
  <2>5. ASSUME NEW q \in Seq(Event), events' = q, QueueWell(q), Len(q) <= EventLimit,
               \A i \in 1 .. Len(q) : q[i].id \in watches, lost' \subseteq watches, \A x \in lost' : Told(q, x)
        PROVE  LossesNoticed'
    <3>1. \A x \in lost' : Told(events', x)
      BY <2>5
    <3>2. QueueWell(events')
      BY <2>5
    <3>3. QueueWell(events)'
      BY <3>2 DEF QueueWell, OneNotice, Plain, Notices
    <3> QED BY <1>1, <2>5, <3>1, <3>3 DEF LossesNoticed, Told, Notices, Event
  <2>6. CASE events' = full /\ UNCHANGED lost
    <3>1. \A x \in lost' : Told(full, x)
      BY <1>5, <2>2, <2>6
    <3>2. LossesNoticed'
      BY <1>5, <2>2, <2>3, <2>4, <2>5, <2>6, <3>1
    <3> QED BY <1>4, <3>2 DEF TasksInv
  <2>7. CASE /\ lost' = lost \union {id}
             /\ events' = IF ~Tasks!Notice(full, id) /\ Len(full) < EventLimit
                          THEN Append(full, [id |-> id, overflow |-> TRUE]) ELSE full
    <3>1. Tasks!Notice(full, id) <=> Told(full, id)
      BY <2>2, NoticeTold
    <3>2. CASE Told(full, id)
      <4>1. events' = full /\ lost' \subseteq watches /\ \A x \in lost' : Told(full, x)
        BY <1>5, <1>7, <2>2, <2>7, <3>1, <3>2
      <4>2. LossesNoticed'
        BY <2>2, <2>3, <2>4, <2>5, <4>1
      <4> QED BY <1>4, <4>2 DEF TasksInv
    <3>3. CASE ~Told(full, id)
      <4> DEFINE r == Append(full, [id |-> id, overflow |-> TRUE])
      <4>1. Len(full) < EventLimit
        BY <1>3, <1>7, <2>2, <2>3, <3>3, RoomForNotice
      <4>2. events' = r
        BY <2>7, <3>1, <3>3, <4>1
      <4>3. /\ r \in Seq(Event) /\ Len(r) = Len(full) + 1 /\ QueueWell(r) /\ Told(r, id)
            /\ \A i \in 1 .. Len(r) : r[i].id = id \/ \E k \in 1 .. Len(full) : r[i] = full[k]
            /\ \A x : Told(full, x) => Told(r, x)
        <5>1. Grows(full, r, id, 1) /\ Told(r, id)
          BY <2>1, <2>2, <3>3, NoticeQueued
        <5> HIDE DEF r
        <5> QED BY <5>1 DEF Grows
      <4> HIDE DEF r
      <4>4. \A i \in 1 .. Len(r) : r[i].id \in watches
        <5> SUFFICES ASSUME NEW i \in 1 .. Len(r) PROVE r[i].id \in watches
          OBVIOUS
        <5>1. CASE r[i].id = id
          BY <1>7, <5>1
        <5>2. ASSUME NEW k \in 1 .. Len(full), r[i] = full[k] PROVE r[i].id \in watches
          BY <2>3, <5>2
        <5> QED BY <4>3, <5>1, <5>2
      <4>5. lost' \subseteq watches /\ \A x \in lost' : Told(r, x)
        BY <1>5, <1>7, <2>2, <2>7, <4>3
      <4>6. Len(r) <= EventLimit
        BY <1>3, <2>4, <4>1, <4>3
      <4>7. LossesNoticed'
        BY <2>5, <4>2, <4>3, <4>4, <4>5, <4>6
      <4> QED BY <1>4, <4>7 DEF TasksInv
    <3> QED BY <3>2, <3>3
  <2> QED BY <1>1, <1>7, <2>6, <2>7 DEF full, taken, id
<1> QED BY <1>6, <1>7

\* Some timers go.
LEMMA FewerTimers ==
  ASSUME TasksInv, UNCHANGED <<sequence, watches, windowOf, events, todo, found, lost>>, timers' \subseteq timers, TickWell'
  PROVE  TasksInv'
<1>1. TasksTyped /\ LossesNoticed
  BY DEF TasksInv
<1>2. IsFiniteSet(timers) /\ Cardinality(timers) <= TimerLimit /\ Cardinality(timers) \in Nat /\ TimerLimit \in Nat
  BY <1>1, TaskBounds DEF TasksTyped
<1>3. IsFiniteSet(timers') /\ Cardinality(timers') <= Cardinality(timers)
  BY <1>2, FS_Subset
<1>4. Cardinality(timers') <= TimerLimit
  BY <1>2, <1>3, FS_CardinalityType
<1>5. TasksTyped'
  BY <1>1, <1>3, <1>4 DEF TasksTyped
<1> QED BY <1>1, <1>5, QueueKept DEF TasksInv

LEMMA AskStep == ASSUME TasksInv, Tasks!Ask PROVE TasksInv'
<1>1. TasksTyped /\ LossesNoticed /\ TickWell /\ UNCHANGED <<due, output>>
  BY DEF TasksInv, Tasks!Ask, Tasks!Create, Tasks!Cancel
<1>2. ASSUME NEW owner \in Windows \union Callers, Tasks!Create(owner) PROVE TasksInv'
  <2>1. /\ Cardinality(timers) < TimerLimit /\ sequence < MaxIds /\ sequence' = sequence + 1
        /\ UNCHANGED <<watches, windowOf, events, todo, found, due, output, lost>>
    BY <1>2, TasksCardinality DEF Tasks!Create, Tasks!NewId
  <2>2. PICK repeats \in BOOLEAN : timers' = timers \union {[id |-> sequence', owner |-> owner, repeats |-> repeats]}
    BY <1>2 DEF Tasks!Create
  <2> DEFINE new == [id |-> sequence', owner |-> owner, repeats |-> repeats]
  <2>3. sequence \in Nat /\ MaxIds \in Nat /\ TimerLimit \in Nat /\ Cardinality(timers) \in Nat /\ IsFiniteSet(timers)
    BY <1>1, TaskBounds DEF TasksTyped
  <2>4. /\ sequence' \in 0 .. MaxIds /\ sequence' \in 1 .. sequence'
        /\ (\A i \in 1 .. sequence : i \in 1 .. sequence' /\ i # sequence') /\ \A i \in 0 .. sequence : i \in 0 .. sequence'
    BY <2>1, <2>3
  <2>5. \A t \in timers' : t.id \in 1 .. sequence' /\ t.owner \in Windows \union Callers /\ t.repeats \in BOOLEAN
    BY <1>1, <2>2, <2>4 DEF TasksTyped
  <2>6. IsFiniteSet(timers') /\ Cardinality(timers') <= TimerLimit
    <3>1. new \notin timers
      BY <1>1, <2>4 DEF TasksTyped
    <3>2. timers' = timers \union {new}
      BY <2>2
    <3> HIDE DEF new
    <3>3. Cardinality(timers \union {new}) = Cardinality(timers) + 1 /\ IsFiniteSet(timers \union {new})
      BY <2>3, <3>1, FS_AddElement
    <3> QED BY <2>1, <2>3, <3>2, <3>3
  <2>7. watches' \subseteq 1 .. sequence' /\ todo' \subseteq 1 .. sequence'
    BY <1>1, <2>1, <2>4 DEF TasksTyped
  <2>8. TasksTyped'
    BY <1>1, <2>1, <2>4, <2>5, <2>6, <2>7 DEF TasksTyped
  <2> QED BY <1>1, <2>1, <2>3, <2>8, QueueKept, TickKept DEF TasksInv
<1>3. ASSUME NEW ts, Tasks!Cancel(ts) PROVE TasksInv'
  <2>1. timers' \subseteq timers /\ UNCHANGED <<sequence, watches, windowOf, events, todo, found, lost>>
    BY <1>3 DEF Tasks!Cancel
  <2> QED BY <1>1, <2>1, TickKept, FewerTimers, TaskBounds
<1> QED BY <1>2, <1>3 DEF Tasks!Ask

LEMMA TickBeginStep == ASSUME TasksInv, Tasks!TickBegin PROVE TasksInv'
<1>1. PICK ts \in SUBSET {t.id : t \in timers} : due' = <<ts>>
  BY DEF Tasks!TickBegin
<1>2. TasksTyped /\ LossesNoticed /\ TickWell /\ output' = 0
      /\ UNCHANGED <<sequence, watches, windowOf, timers, events, todo, found, lost>>
  BY DEF TasksInv, Tasks!TickBegin
<1>3. IsFiniteSet(timers) /\ Cardinality(timers) \in Nat /\ Cardinality(timers) <= TimerLimit /\ TimerLimit \in Nat
  BY <1>2, TaskBounds DEF TasksTyped
<1>4. Cardinality(ts) <= TimerLimit /\ Cardinality(ts) \in Nat
  <2> DEFINE ids == {t.id : t \in timers}
  <2>1. IsFiniteSet(ids) /\ Cardinality(ids) <= Cardinality(timers)
    <3> DEFINE f == [t \in timers |-> t.id]
    <3>1. f \in Surjection(timers, ids)
      BY DEF Surjection
    <3> HIDE DEF f, ids
    <3> QED BY <1>3, <3>1, FS_Surjection
  <2>2. ts \subseteq ids
    BY <1>1
  <2> HIDE DEF ids
  <2>3. Cardinality(ts) <= Cardinality(ids) /\ IsFiniteSet(ts)
    BY <2>1, <2>2, FS_Subset
  <2>4. Cardinality(ts) \in Nat /\ Cardinality(ids) \in Nat
    BY <2>1, <2>3, FS_CardinalityType
  <2> QED BY <1>3, <2>1, <2>3, <2>4
<1>5. ts \in SUBSET (1 .. sequence)
  BY <1>1, <1>2 DEF TasksTyped
<1>6. TickWell'
  <2>1. 0 \in Nat /\ 0 + Cardinality(ts) <= TimerLimit
    BY <1>4
  <2> QED BY <1>1, <1>2, <1>5, <2>1 DEF TickWell
<1> QED BY <1>2, <1>6, FewerTimers

LEMMA TickTimerStep == ASSUME TasksInv, Tasks!TickTimer PROVE TasksInv'
<1>1. PICK id \in due[1] :
        /\ due' = <<due[1] \ {id}>>
        /\ \/ UNCHANGED <<timers, output>>
           \/ timers' = {t \in timers : t.id # id \/ t.repeats} /\ output' = output + 1
           \/ timers' = {t \in timers : t.id # id \/ t.repeats} /\ output' = output
           \/ /\ \E t \in {t \in timers : t.id # id \/ t.repeats} : timers' = {x \in timers : x.id # id \/ x.repeats} \ {t}
              /\ output' = output
  BY DEF Tasks!TickTimer
<1>2. /\ TasksTyped /\ TickWell /\ due # <<>> /\ UNCHANGED <<sequence, watches, windowOf, events, todo, found, lost>>
  BY DEF TasksInv, Tasks!TickTimer, Tasks!Idle, Tasks!NoTick
<1>3. PICK ts \in SUBSET (1 .. sequence) : due = <<ts>> /\ output \in Nat /\ output + Cardinality(ts) <= TimerLimit
  BY <1>2 DEF TickWell
<1>4. timers' \subseteq timers
  BY <1>1
<1>5. due[1] = ts
  BY <1>3
<1>6. Cardinality(ts \ {id}) = Cardinality(ts) - 1 /\ Cardinality(ts) \in Nat /\ TimerLimit \in Nat
  <2>1. IsFiniteSet(1 .. sequence)
    BY <1>2, TaskBounds
  <2>2. IsFiniteSet(ts)
    BY <2>1, FS_Subset
  <2>3. id \in ts
    BY <1>5
  <2> QED BY <2>2, <2>3, FS_RemoveElement, FS_CardinalityType, TasksAssumption
<1>7. output' \in Nat /\ output' + Cardinality(ts \ {id}) <= TimerLimit
  <2>1. output' = output \/ output' = output + 1
    BY <1>1
  <2> QED BY <1>3, <1>6, <2>1
<1>8. TickWell'
  <2>1. due' = <<ts \ {id}>> /\ ts \ {id} \in SUBSET (1 .. sequence')
    BY <1>1, <1>2, <1>5
  <2> QED BY <1>7, <2>1 DEF TickWell
<1> QED BY <1>2, <1>4, <1>8, FewerTimers

LEMMA TickEventsStep == ASSUME TasksInv, Tasks!TickEvents PROVE TasksInv'
<1> DEFINE room == IF output < EventLimit THEN EventLimit - output ELSE 0
           n == IF Len(events) < room THEN Len(events) ELSE room
           taken == SubSeq(events, 1, n)
           rest == SubSeq(events, n + 1, Len(events))
<1>1. /\ events' = rest /\ lost' = {id \in lost : ~Tasks!Notice(taken, id)} /\ due' = <<>> /\ output' = 0
      /\ UNCHANGED <<sequence, watches, windowOf, timers, todo, found>>
  BY DEF Tasks!TickEvents, Tasks!NoTick
<1>2. TasksTyped /\ LossesNoticed /\ TickWell
  BY DEF TasksInv
<1>3. EventLimit \in Nat /\ output \in Nat
  BY <1>2, TasksAssumption DEF TickWell
<1>4. events \in Seq(Event) /\ QueueWell(events) /\ Len(events) \in Nat /\ Len(events) <= EventLimit
  BY <1>2 DEF LossesNoticed
<1>5. n \in 0 .. Len(events)
  BY <1>3, <1>4
<1> HIDE DEF n
<1>6. /\ taken \in Seq(Event) /\ rest \in Seq(Event) /\ QueueWell(rest) /\ Len(rest) <= Len(events)
      /\ \A i \in 1 .. Len(rest) : \E k \in 1 .. Len(events) : rest[i] = events[k]
      /\ \A id : Told(events, id) => Told(taken, id) \/ Told(rest, id)
  BY <1>4, <1>5, FrontTaken
<1> HIDE DEF taken, rest
<1>7. \A i \in 1 .. Len(rest) : rest[i].id \in watches
  <2> SUFFICES ASSUME NEW i \in 1 .. Len(rest) PROVE rest[i].id \in watches
    OBVIOUS
  <2>1. PICK k \in 1 .. Len(events) : rest[i] = events[k]
    BY <1>6
  <2> QED BY <1>2, <2>1 DEF LossesNoticed
<1>8. lost' \subseteq watches /\ \A id \in lost' : Told(rest, id)
  <2>1. \A id : Tasks!Notice(taken, id) <=> Told(taken, id)
    BY <1>6, NoticeTold
  <2> QED BY <1>1, <1>2, <1>6, <2>1 DEF LossesNoticed
<1>9. LossesNoticed'
  <2>1. \A x \in lost' : Told(events', x)
    BY <1>1, <1>8
  <2>2. QueueWell(events')
    BY <1>1, <1>6
  <2>3. QueueWell(events)'
    BY <2>2 DEF QueueWell, OneNotice, Plain, Notices
  <2>4. Len(events') <= EventLimit
    BY <1>1, <1>3, <1>4, <1>6
  <2> QED BY <1>1, <1>6, <1>7, <1>8, <2>1, <2>3, <2>4 DEF LossesNoticed, Told, Notices, Event
<1>10. TasksTyped'
  BY <1>1, <1>2 DEF TasksTyped
<1>11. TickWell'
  BY <1>1 DEF TickWell
<1> QED BY <1>9, <1>10, <1>11 DEF TasksInv

LEMMA TasksStart == Tasks!Init => TasksInv
<1> SUFFICES ASSUME Tasks!Init PROVE TasksInv
  OBVIOUS
<1>1. /\ sequence = 0 /\ watches = {} /\ windowOf = [i \in 1 .. MaxIds |-> 0] /\ timers = {} /\ events = <<>>
      /\ todo = {} /\ found.id = 0 /\ found.changes = 0 /\ due = <<>> /\ output = 0 /\ lost = {}
  BY DEF Tasks!Init, Tasks!Ids, Tasks!NoFind, Tasks!NoTick
<1>2. {MaxIds, WatchLimit, TimerLimit, ChangeLimit, EventLimit, MaxFound} \subseteq Nat /\ IsFiniteSet({}) /\ Cardinality({}) = 0
  BY TasksAssumption, FS_EmptySet
<1>3. TasksTyped
  <2>1. Cardinality(watches) <= WatchLimit /\ IsFiniteSet(timers) /\ Cardinality(timers) <= TimerLimit
    BY <1>1, <1>2
  <2> QED BY <1>1, <1>2, <2>1 DEF TasksTyped
<1>4. LossesNoticed
  <2>1. events \in Seq(Event) /\ Len(events) = 0 /\ 1 .. Len(events) = {}
    BY <1>1
  <2>2. Plain(events) = {} /\ Notices(events) = {}
    BY <2>1 DEF Plain, Notices
  <2>3. QueueWell(events)
    BY <1>2, <2>2 DEF QueueWell, OneNotice
  <2> QED BY <1>1, <1>2, <2>1, <2>3 DEF LossesNoticed
<1>5. TickWell
  BY <1>1 DEF TickWell
<1> QED BY <1>3, <1>4, <1>5 DEF TasksInv

LEMMA TasksSteps == TasksInv /\ (Tasks!Next \/ UNCHANGED taskVars) => TasksInv'
<1> SUFFICES ASSUME TasksInv, Tasks!Next \/ UNCHANGED taskVars PROVE TasksInv'
  OBVIOUS
<1>0. TasksTyped /\ LossesNoticed /\ TickWell
  BY DEF TasksInv
<1>1. CASE UNCHANGED taskVars
  <2>1. UNCHANGED <<sequence, watches, windowOf, timers, events, todo, found, due, output, lost>>
    BY <1>1 DEF taskVars
  <2>2. timers' \subseteq timers /\ TickWell'
    BY <1>0, <2>1 DEF TickWell
  <2> QED BY <2>1, <2>2, FewerTimers
<1>2. ASSUME NEW w \in Windows, Tasks!Watch(w) \/ Tasks!Unwatch(w) \/ Tasks!CancelWindow(w) PROVE TasksInv'
  <2>1. CASE Tasks!Watch(w)
    BY <2>1, WatchStep
  <2>2. CASE Tasks!Unwatch(w)
    BY <2>2, DropStep DEF Tasks!Unwatch
  <2>3. CASE Tasks!CancelWindow(w)
    BY <2>3, DropStep DEF Tasks!CancelWindow
  <2> QED BY <1>2, <2>1, <2>2, <2>3
<1>3. CASE Tasks!ScanPass
  <2>1. /\ todo' = watches /\ found' = found
        /\ UNCHANGED <<sequence, watches, windowOf, timers, events, due, output, lost>>
    BY <1>3 DEF Tasks!ScanPass
  <2> QED BY <1>0, <2>1, ScanStep DEF TasksTyped
<1>4. CASE Tasks!Scan
  <2>1. UNCHANGED <<sequence, watches, windowOf, timers, events, due, output, lost>> /\ MaxFound \in Nat
    BY <1>4, TasksAssumption DEF Tasks!Scan
  <2>2. PICK id \in todo : \E n \in 0 .. MaxFound : todo' = todo \ {id} /\ found' = [id |-> id, changes |-> n]
    BY <1>4 DEF Tasks!Scan
  <2>3. PICK n \in 0 .. MaxFound : todo' = todo \ {id} /\ found' = [id |-> id, changes |-> n]
    BY <2>2
  <2>4. todo' \subseteq 1 .. sequence /\ found'.id \in 0 .. sequence /\ found'.changes \in 0 .. MaxFound
    <3>1. id \in 1 .. sequence
      BY <1>0 DEF TasksTyped
    <3> QED BY <1>0, <2>3, <3>1 DEF TasksTyped
  <2> QED BY <2>1, <2>4, ScanStep
<1>5. CASE Tasks!Queue \/ Tasks!Ask \/ Tasks!TickBegin \/ Tasks!TickTimer \/ Tasks!TickEvents
  BY <1>5, QueueStep, AskStep, TickBeginStep, TickTimerStep, TickEventsStep
<1> QED BY <1>1, <1>2, <1>3, <1>4, <1>5 DEF Tasks!Next

LEMMA TasksSuffice == TasksInv => Tasks!TypeOK /\ Tasks!LossesTold
<1> SUFFICES ASSUME TasksInv PROVE Tasks!TypeOK /\ Tasks!LossesTold
  OBVIOUS
<1>1. TasksTyped /\ LossesNoticed /\ TickWell
  BY DEF TasksInv
<1>2. Tasks!LossesTold
  <2>1. events \in Seq(Event) /\ DOMAIN events = 1 .. Len(events)
    BY <1>1 DEF LossesNoticed
  <2>2. \A id \in lost : Tasks!Notice(events, id)
    BY <1>1, <2>1, NoticeTold DEF LossesNoticed
  <2> QED BY <1>1, <2>1, <2>2 DEF LossesNoticed, Tasks!LossesTold
<1>3. /\ Len(due) <= 1 /\ \A i \in DOMAIN due : due[i] \subseteq 1 .. sequence
      /\ output \in 0 .. TimerLimit
  <2>1. CASE due = <<>> /\ output = 0
    BY <2>1, TasksAssumption
  <2>2. CASE due # <<>>
    <3>1. PICK ts \in SUBSET (1 .. sequence) : due = <<ts>> /\ output \in Nat /\ output + Cardinality(ts) <= TimerLimit
      BY <1>1, <2>2 DEF TickWell
    <3>2. Cardinality(ts) \in Nat /\ TimerLimit \in Nat
      BY <1>1, TaskBounds, FS_Subset, FS_CardinalityType, TasksAssumption
    <3>3. Len(due) = 1 /\ DOMAIN due = {1} /\ due[1] = ts
      BY <3>1
    <3>4. output \in 0 .. TimerLimit
      BY <3>1, <3>2
    <3>5. Len(due) <= 1
      BY <3>3
    <3>6. \A i \in DOMAIN due : due[i] \subseteq 1 .. sequence
      BY <3>3
    <3> QED BY <3>4, <3>5, <3>6
  <2> QED BY <1>1, <2>1, <2>2 DEF TickWell
<1>4. Tasks!TypeOK
  BY <1>1, <1>3, TasksCardinality DEF Tasks!TypeOK, TasksTyped, LossesNoticed, Event, Tasks!Ids
<1> QED BY <1>2, <1>4

\* Every change of a watched file that does not fit is told, whatever the limits are, as long as there is room for a
\* notice for each watch; and one thread samples at the rate of the fastest subscription, has been told to end
\* before the main thread waits for it, and never publishes to a stream that was closed.
THEOREM ThreadsAreHonest == PartSpec => []ThreadsHonest
<1> DEFINE Both == (part = "tasks" => TasksInv) /\ (part = "sampling" => SamplingInv)
<1>1. PartInit => Both
  BY TasksStart, SamplingStart DEF PartInit
<1>2. Both /\ [PartNext]_partVars => Both'
  BY PartsStep, TasksSteps, SamplingSteps
<1>3. Both => ThreadsHonest
  BY TasksSuffice, SamplingSuffices DEF ThreadsHonest
<1> QED BY <1>1, <1>2, <1>3, PTL DEF PartSpec

-----------------------------------------------------------------------------
(* The inspector on Linux.                                                  *)

GtkTyped ==
  /\ webkit \in {"none", "opening", "shown"} /\ container \in {"pane", "window"}
  /\ leaving \in BOOLEAN /\ view \in BOOLEAN /\ visible \in BOOLEAN /\ pending \in BOOLEAN /\ requested \in BOOLEAN
  /\ detaching \in BOOLEAN /\ floating \in BOOLEAN /\ ownWindow \in BOOLEAN /\ hid \in BOOLEAN /\ mode \in BOOLEAN

\* The view is there while WebKit shows it, a detach is under way only then, and who hides takes the request back.
GtkInv ==
  /\ GtkTyped
  /\ view <=> webkit = "shown"
  /\ leaving => view
  /\ detaching => leaving
  /\ hid => ~requested
  /\ Gtk!InspectorKept

LEMMA GtkStart == ASSUME Gtk!Init PROVE GtkInv
BY DEF Gtk!Init, GtkInv, GtkTyped, Gtk!InspectorKept

\* Each of the three ways to show or hide the panel leaves it whole.
LEMMA GtkStep == ASSUME GtkInv, Gtk!Next PROVE GtkInv'
<1> USE DEF GtkInv, GtkTyped, Gtk!InspectorKept, Gtk!Present, Gtk!Conceal
<1>1. CASE Gtk!Open
  BY <1>1 DEF Gtk!Open
<1>2. CASE Gtk!Hide
  BY <1>2 DEF Gtk!Hide
<1>3. CASE Gtk!Toggle
  BY <1>1, <1>2, <1>3 DEF Gtk!Toggle
<1>4. CASE Gtk!Mode
  <2>1. PICK v \in BOOLEAN : Gtk!Present(v) /\ mode' = v
    BY <1>4 DEF Gtk!Mode
  <2>2. UNCHANGED <<webkit, leaving, view, requested, detaching>> /\ hid' = FALSE /\ visible
    BY <1>4 DEF Gtk!Mode
  <2> QED BY <2>1, <2>2
<1>5. CASE Gtk!Restore
  <2>1. PICK v \in BOOLEAN :
          /\ mode' = v
          /\ IF visible THEN Gtk!Present(v)
             ELSE floating' = v /\ UNCHANGED <<visible, pending, container, ownWindow>>
    BY <1>5 DEF Gtk!Restore
  <2>2. UNCHANGED <<webkit, leaving, view, requested, detaching, hid>>
    BY <1>5 DEF Gtk!Restore
  <2> QED BY <2>1, <2>2
<1>6. CASE Gtk!OpenWindow
  BY <1>6 DEF Gtk!OpenWindow, Gtk!Opened, Gtk!Shows
<1>7. CASE Gtk!AttachSignal
  BY <1>7 DEF Gtk!AttachSignal, Gtk!Shows
<1>8. CASE Gtk!DetachSignal
  BY <1>8 DEF Gtk!DetachSignal
<1>9. CASE Gtk!Raise
  BY <1>9 DEF Gtk!Raise, Gtk!Opened, Gtk!Shows
<1>10. CASE Gtk!ClosedSignal
  BY <1>10 DEF Gtk!ClosedSignal
<1> QED BY <1>1, <1>2, <1>3, <1>4, <1>5, <1>6, <1>7, <1>8, <1>9, <1>10 DEF Gtk!Next

LEMMA GtkSteps == ASSUME GtkInv, Gtk!Next \/ UNCHANGED gtkVars PROVE GtkInv'
<1>1. CASE UNCHANGED gtkVars
  BY <1>1 DEF GtkInv, GtkTyped, Gtk!InspectorKept, gtkVars
<1> QED BY <1>1, GtkStep

-----------------------------------------------------------------------------
(* The inspector on macOS.                                                  *)

MacFields == [requested : BOOLEAN, pending : BOOLEAN, preparing : BOOLEAN, prepared : BOOLEAN, frontend : 0 .. front,
              hosted : BOOLEAN, needed : BOOLEAN, seen : BOOLEAN, access : BOOLEAN, embedding : BOOLEAN, floating : BOOLEAN]
MacTyped ==
  /\ native \in {"none", "opening", "shown"} /\ front \in 0 .. MaxFronts
  /\ flights \subseteq 1 .. front /\ ready \subseteq 1 .. front
  /\ mac \in MacFields /\ where \in [1 .. MaxFronts -> {"native", "page"}]
  /\ inside \in BOOLEAN /\ window \in BOOLEAN /\ raised \in BOOLEAN

\* Whether the view is beside the page is settled except for a turn of the timer that is still to come; the window
\* is as the user wants it except for what WebKit has raised since the last one.
MacPlaced ==
  mac.prepared /\ native = "shown" /\ ~mac.needed =>
    /\ mac.hosted = (mac.embedding /\ ~mac.floating)
    /\ ~raised /\ window => mac.requested /\ ~mac.hosted

\* A view is known only where scripts are allowed and once the timer has seen it; one that was prepared while
\* another opens is looked at again.
MacInv ==
  /\ MacTyped
  /\ \A f \in 1 .. MaxFronts : where[f] = "page" <=> mac.hosted /\ mac.frontend = f
  /\ mac.prepared => mac.frontend # 0 /\ (mac.embedding => mac.frontend \in ready)
  /\ mac.preparing => mac.frontend \in flights
  /\ mac.hosted => mac.prepared
  /\ mac.frontend # 0 => mac.access /\ mac.seen
  /\ mac.prepared => native # "opening" \/ mac.needed
  /\ native = "shown" => front # 0
  /\ MacPlaced

LEMMA MacStart == ASSUME Mac!Init PROVE MacInv
<1>1. PICK access \in BOOLEAN, floats \in BOOLEAN :
        mac = [requested |-> FALSE, pending |-> FALSE, preparing |-> FALSE, prepared |-> FALSE, frontend |-> 0, hosted |-> FALSE,
               needed |-> FALSE, seen |-> FALSE, access |-> access, embedding |-> access, floating |-> floats]
  BY DEF Mac!Init
<1>2. MaxFronts \in Nat /\ front = 0
  BY InspectorsAssumption DEF Mac!Init
<1>3. mac \in MacFields
  BY <1>1, <1>2 DEF MacFields
<1>6. native = "none" /\ inside = FALSE /\ window = FALSE /\ flights = {} /\ ready = {} /\ raised = FALSE
  BY DEF Mac!Init
<1>7. where = [f \in 1 .. MaxFronts |-> "native"]
  BY DEF Mac!Init
<1>8. inside \in BOOLEAN /\ window \in BOOLEAN /\ raised \in BOOLEAN
  BY <1>6
<1>9. where \in [1 .. MaxFronts -> {"native", "page"}]
  BY <1>7
<1>10. front \in 0 .. MaxFronts /\ flights \subseteq 1 .. front /\ ready \subseteq 1 .. front
  BY <1>2, <1>6
<1>4. MacTyped
  BY <1>3, <1>6, <1>8, <1>9, <1>10 DEF MacTyped
<1>5. \A f \in 1 .. MaxFronts : where[f] = "native"
  BY DEF Mac!Init
<1> QED BY <1>1, <1>4, <1>5, <1>6 DEF MacInv, MacPlaced

\* The record of an inspector that differs from another only in what is asked for and seen.
Alike(x, y) ==
  /\ x \in MacFields
  /\ x.hosted = y.hosted /\ x.frontend = y.frontend /\ x.prepared = y.prepared /\ x.preparing = y.preparing
  /\ x.embedding = y.embedding /\ x.access = y.access /\ (y.seen => x.seen)

\* present() leaves a view that is prepared where the user wants it.
LEMMA MacPresents ==
  ASSUME MacInv, NEW x, Alike(x, mac), native = "shown", Mac!Present(x),
         UNCHANGED <<front, flights, ready>>, raised' \in BOOLEAN
  PROVE  MacInv'
<1>1. MacTyped /\ mac \in MacFields /\ x \in MacFields /\ MaxFronts \in Nat
  BY InspectorsAssumption DEF MacInv, MacTyped, Alike
<1> DEFINE y == [x EXCEPT !.needed = FALSE]
<1>2. y \in MacFields /\ MacFields' = MacFields
  BY <1>1 DEF MacFields
<1>3. CASE ~x.access
  <2>1. mac' = y /\ inside' = FALSE /\ window' = x.requested /\ native' \in {native, "none"} /\ UNCHANGED where
    BY <1>3 DEF Mac!Present
  <2>2. mac.frontend = 0 /\ ~mac.prepared /\ ~mac.hosted
    BY <1>3 DEF MacInv, Alike
  <2>3. y.frontend = 0 /\ ~y.prepared /\ ~y.hosted /\ y.preparing = mac.preparing
    BY <1>1, <2>2 DEF Alike, MacFields
  <2>4. ~mac.preparing
    BY <1>1, <2>2 DEF MacInv, MacTyped
  <2>5. MacTyped'
    BY <1>1, <1>2, <2>1 DEF MacTyped, MacFields
  <2> QED BY <2>1, <2>2, <2>3, <2>4, <2>5 DEF MacInv, MacPlaced
<1>4. CASE x.access /\ (~x.prepared \/ x.frontend = 0)
  <2>1. mac' = y /\ UNCHANGED <<native, inside, where, window>>
    BY <1>4 DEF Mac!Present
  <2>2. ~mac.prepared /\ ~mac.hosted
    BY <1>4 DEF MacInv, Alike
  <2>3. Alike(y, mac)
    BY <1>1, <1>2 DEF Alike, MacFields
  <2>4. MacTyped'
    BY <1>1, <1>2, <2>1 DEF MacTyped
  <2> QED BY <2>1, <2>2, <2>3, <2>4 DEF MacInv, MacPlaced, Alike
<1>5. CASE x.access /\ x.prepared /\ x.frontend # 0
  <2> DEFINE embed == x.embedding /\ ~x.floating
  <2>1. /\ mac' = [y EXCEPT !.hosted = embed]
        /\ where' = [where EXCEPT ![x.frontend] = IF embed THEN "page" ELSE "native"]
        /\ window' = (~embed /\ x.requested) /\ UNCHANGED <<native, inside>>
    BY <1>5 DEF Mac!Present
  <2>10. /\ y.hosted = mac.hosted /\ y.frontend = mac.frontend /\ y.prepared /\ y.preparing = mac.preparing
         /\ y.embedding = x.embedding /\ y.access = mac.access /\ y.seen = x.seen /\ y.floating = x.floating
         /\ y.requested = x.requested /\ ~y.needed
    BY <1>1, <1>5 DEF Alike, MacFields
  <2>11. embed \in BOOLEAN
    BY <1>1 DEF MacFields
  <2> HIDE DEF y, embed
  <2>2. mac' \in MacFields /\ mac'.hosted = embed /\ mac'.frontend = mac.frontend /\ mac'.prepared /\ mac'.preparing = mac.preparing
        /\ mac'.embedding = x.embedding /\ mac'.access = mac.access /\ mac'.seen = x.seen /\ mac'.floating = x.floating
        /\ mac'.requested = x.requested /\ ~mac'.needed
    BY <1>2, <2>1, <2>10, <2>11 DEF MacFields
  <2> USE DEF embed
  <2>3. x.frontend \in 1 .. MaxFronts /\ x.frontend = mac.frontend
    BY <1>1, <1>5 DEF MacTyped, Alike, MacFields
  <2>4. MacTyped'
    BY <1>1, <1>2, <2>1, <2>2 DEF MacTyped
  <2>5. \A f \in 1 .. MaxFronts : where'[f] = "page" <=> mac'.hosted /\ mac'.frontend = f
    <3>1. \A f \in 1 .. MaxFronts : where'[f] = IF f = mac.frontend THEN IF embed THEN "page" ELSE "native" ELSE where[f]
      BY <1>1, <2>1, <2>3 DEF MacTyped
    <3>2. \A f \in 1 .. MaxFronts : where[f] = "page" => f = mac.frontend
      BY DEF MacInv
    <3> QED BY <2>2, <3>1, <3>2
  <2>6. mac.prepared /\ x.embedding = mac.embedding
    BY <1>5 DEF Alike
  <2>7. native' = "shown" /\ UNCHANGED <<flights, ready>>
    BY <2>1
  <2>8. MacPlaced'
    BY <2>1, <2>2, <2>7 DEF MacPlaced
  <2>9. mac.seen => x.seen
    BY DEF Alike
  <2> QED BY <2>2, <2>4, <2>5, <2>6, <2>7, <2>8, <2>9 DEF MacInv
<1> QED BY <1>3, <1>4, <1>5

\* A view this code forgets has been given back.
LEMMA MacForgets ==
  ASSUME MacInv
  PROVE  LET x == Mac!Forgotten(mac)  w == Mac!WhereBack(mac)
         IN /\ x \in MacFields /\ ~x.hosted /\ x.frontend = 0 /\ ~x.prepared /\ ~x.preparing
            /\ w \in [1 .. MaxFronts -> {"native", "page"}] /\ \A f \in 1 .. MaxFronts : w[f] # "page"
<1>1. MacTyped /\ mac \in MacFields
  BY DEF MacInv, MacTyped
<1>2. 0 \in 0 .. front
  BY <1>1 DEF MacTyped
<1>3. CASE mac.hosted
  <2>1. mac.frontend \in 1 .. MaxFronts
    BY <1>1, <1>3, InspectorsAssumption DEF MacInv, MacTyped, MacFields
  <2>2. \A f \in 1 .. MaxFronts : where[f] = "page" => mac.frontend = f
    BY DEF MacInv
  <2> QED BY <1>1, <1>2, <1>3, <2>1, <2>2 DEF MacTyped, MacFields, Mac!Forgotten, Mac!Back,
            Mac!WhereBack
<1>4. CASE ~mac.hosted
  BY <1>1, <1>2, <1>4 DEF MacInv, MacTyped, MacFields, Mac!Forgotten, Mac!Back,
       Mac!WhereBack
<1> QED BY <1>3, <1>4

\* A change of what is asked for, of the mode or of the window that the next turn of the timer will look at.
LEMMA MacRecords ==
  ASSUME MacInv, mac' \in MacFields, Alike(mac', mac), UNCHANGED <<front, where, flights, ready>>,
         native' \in {"none", "opening", "shown"}, native' = "opening" => ~mac.prepared \/ native = "opening",
         native' = "shown" => native = "shown",
         inside' \in BOOLEAN, window' \in BOOLEAN, raised' \in BOOLEAN,
         mac.needed => mac'.needed, MacPlaced'
  PROVE  MacInv'
<1>1. MacTyped'
  BY DEF MacInv, MacTyped, MacFields
<1> QED BY <1>1 DEF MacInv, Alike

LEMMA MacStep == ASSUME MacInv, Mac!Next PROVE MacInv'
<1>0. /\ MaxFronts \in Nat /\ MacTyped /\ mac \in MacFields
      /\ native \in {"none", "opening", "shown"} /\ inside \in BOOLEAN /\ window \in BOOLEAN /\ raised \in BOOLEAN
  BY InspectorsAssumption DEF MacInv, MacTyped
<1>1. CASE Mac!Open
  <2> DEFINE x == [mac EXCEPT !.requested = TRUE]
  <2>1. Alike(x, mac)
    BY <1>0 DEF Alike, MacFields
  <2>2. UNCHANGED <<front, flights, ready, raised>>
    BY <1>1 DEF Mac!Open, Mac!Apart
  <2>3. CASE mac.prepared /\ native = "shown"
    <3>1. Mac!Present(x)
      BY <1>1, <2>3 DEF Mac!Open, Mac!Shown
    <3> QED BY <1>0, <2>1, <2>2, <2>3, <3>1, MacPresents
  <2>4. CASE ~(mac.prepared /\ native = "shown")
    <3>1. /\ mac' = [(IF mac.prepared THEN Mac!Forgotten(x) ELSE x) EXCEPT !.pending = TRUE]
          /\ where' = IF mac.prepared THEN Mac!WhereBack(mac) ELSE where
          /\ native' = (IF native = "none" THEN "opening" ELSE native)
          /\ window' = (window \/ (native = "shown" /\ ~inside)) /\ UNCHANGED inside
      BY <1>1, <2>4 DEF Mac!Open, Mac!Shown
    <3>2. native' \in {"none", "opening", "shown"} /\ window' \in BOOLEAN
      BY <1>0, <3>1
    <3>3. CASE mac.prepared
      <4>1. mac' = [Mac!Forgotten(x) EXCEPT !.pending = TRUE] /\ where' = Mac!WhereBack(mac)
        BY <3>1, <3>3
      <4>2. Mac!Forgotten(x) = [Mac!Forgotten(mac) EXCEPT !.requested = TRUE]
        BY <1>0 DEF Mac!Forgotten, Mac!Back, MacFields
      <4>3. mac' \in MacFields /\ ~mac'.hosted /\ mac'.frontend = 0 /\ ~mac'.prepared /\ ~mac'.preparing
        BY <4>1, <4>2, MacForgets DEF MacFields
      <4>4. where' \in [1 .. MaxFronts -> {"native", "page"}] /\ \A f \in 1 .. MaxFronts : where'[f] # "page"
        BY <4>1, MacForgets
      <4>5. MacTyped'
        BY <1>0, <2>2, <3>1, <3>2, <4>3, <4>4 DEF MacTyped, MacFields
      <4>6. native' = "shown" => front' # 0
        BY <2>2, <3>1 DEF MacInv
      <4> QED BY <4>3, <4>4, <4>5, <4>6 DEF MacInv, MacPlaced
    <3>4. CASE ~mac.prepared
      <4>1. mac' = [x EXCEPT !.pending = TRUE] /\ UNCHANGED where
        BY <3>1, <3>4
      <4>2. mac' \in MacFields /\ Alike(mac', mac) /\ mac'.needed = mac.needed
        BY <1>0, <4>1 DEF Alike, MacFields
      <4>3. MacPlaced'
        BY <3>4, <4>2 DEF MacPlaced, Alike
      <4> QED BY <1>0, <2>2, <3>1, <3>2, <3>4, <4>1, <4>2, <4>3, MacRecords
    <3> QED BY <3>3, <3>4
  <2> QED BY <2>3, <2>4
<1>2. CASE Mac!Hide
  <2>1. mac' = [mac EXCEPT !.requested = FALSE] /\ UNCHANGED <<front, flights, ready, inside, where, raised>>
    BY <1>2 DEF Mac!Hide, Mac!Apart
  <2>2. IF mac.access THEN window' = (window /\ mac.frontend = 0) /\ UNCHANGED native ELSE window' = FALSE /\ native' = "none"
    BY <1>2 DEF Mac!Hide
  <2>3. mac' \in MacFields /\ Alike(mac', mac) /\ mac'.needed = mac.needed /\ mac'.floating = mac.floating
    BY <1>0, <2>1 DEF Alike, MacFields
  <2>4. window' \in BOOLEAN /\ native' \in {native, "none"}
    BY <1>0, <2>2
  <2>5. mac.prepared => ~window'
    BY <2>2 DEF MacInv
  <2>6. MacPlaced'
    BY <2>1, <2>3, <2>4, <2>5 DEF MacInv, MacPlaced, Alike
  <2> QED BY <1>0, <2>1, <2>3, <2>4, <2>6, MacRecords
<1>3. CASE Mac!Mode
  <2>1. PICK v \in BOOLEAN : mac' = [mac EXCEPT !.floating = v, !.needed = TRUE]
    BY <1>3 DEF Mac!Mode
  <2>2. UNCHANGED <<front, flights, ready, native, inside, where, window, raised>>
    BY <1>3 DEF Mac!Mode, Mac!Apart
  <2>3. mac' \in MacFields /\ Alike(mac', mac) /\ mac'.needed
    BY <1>0, <2>1 DEF Alike, MacFields
  <2>4. MacPlaced'
    BY <2>3 DEF MacPlaced
  <2> QED BY <1>0, <2>2, <2>3, <2>4, MacRecords DEF MacInv
<1>4. CASE Mac!TickGone
  <2> DEFINE x == IF mac.seen THEN [Mac!Forgotten(mac) EXCEPT !.requested = FALSE, !.seen = FALSE] ELSE mac
  <2>1. /\ native # "shown" /\ where' = IF mac.seen THEN Mac!WhereBack(mac) ELSE where
        /\ raised' = FALSE /\ UNCHANGED <<front, flights, ready, inside, window>>
    BY <1>4 DEF Mac!TickGone, Mac!Shown, Mac!Apart
  <2>2. \/ mac' = x /\ UNCHANGED native
        \/ x.pending /\ mac' = [x EXCEPT !.pending = FALSE, !.requested = FALSE] /\ native' = "none"
    BY <1>4 DEF Mac!TickGone
  <2>3. x \in MacFields /\ ~x.hosted /\ x.frontend = 0 /\ ~x.prepared /\ ~x.preparing
    <3>1. CASE mac.seen
      BY <3>1, MacForgets DEF MacFields
    <3>2. CASE ~mac.seen
      <4>1. mac.frontend = 0
        BY <3>2 DEF MacInv
      <4>2. ~mac.prepared /\ ~mac.preparing /\ ~mac.hosted
        BY <1>0, <4>1 DEF MacInv, MacTyped
      <4> QED BY <1>0, <3>2, <4>1, <4>2
    <3> QED BY <3>1, <3>2
  <2>4. where' \in [1 .. MaxFronts -> {"native", "page"}] /\ \A f \in 1 .. MaxFronts : where'[f] # "page"
    <3>1. CASE mac.seen
      BY <2>1, <3>1, MacForgets
    <3>2. CASE ~mac.seen
      BY <1>0, <2>1, <2>3, <3>2 DEF MacInv, MacTyped
    <3> QED BY <3>1, <3>2
  <2> HIDE DEF x
  <2>5. mac' \in MacFields /\ ~mac'.hosted /\ mac'.frontend = 0 /\ ~mac'.prepared /\ ~mac'.preparing
    BY <2>2, <2>3 DEF MacFields
  <2>6. native' \in {"none", "opening", "shown"}
    BY <1>0, <2>2
  <2>7. MacTyped'
    BY <1>0, <2>1, <2>4, <2>5, <2>6 DEF MacTyped, MacFields
  <2>8. native' # "shown"
    BY <2>1, <2>2
  <2> QED BY <2>4, <2>5, <2>7, <2>8 DEF MacInv, MacPlaced
<1>5. CASE Mac!TickPrepares
  <2> DEFINE x == Mac!Seen
  <2>1. ~mac.prepared /\ mac.access /\ native = "shown" /\ raised' = FALSE /\ UNCHANGED <<native, where>>
    BY <1>5 DEF Mac!TickPrepares, Mac!Shown
  <2>2. Alike(x, mac) /\ x.seen /\ x.floating = mac.floating
    BY <1>0 DEF Mac!Seen, Alike, MacFields
  <2>3. CASE mac.preparing \/ inside
    <3>1. mac' = x /\ UNCHANGED <<front, flights, ready>> /\ inside' \in BOOLEAN /\ window' \in BOOLEAN
      BY <1>0, <1>5, <2>3 DEF Mac!TickPrepares, Mac!Apart
    <3>2. ~mac'.prepared /\ mac' \in MacFields /\ Alike(mac', mac)
      BY <2>1, <2>2, <3>1 DEF Alike
    <3>3. MacTyped'
      BY <1>0, <2>1, <3>1, <3>2 DEF MacTyped, MacFields
    <3>4. mac'.seen
      BY <2>2, <3>1
    <3> QED BY <2>1, <3>1, <3>2, <3>3, <3>4 DEF MacInv, MacPlaced, Alike
  <2>4. CASE ~mac.preparing /\ ~inside
    <3>1. /\ mac' = [x EXCEPT !.frontend = front, !.preparing = TRUE] /\ flights' = flights \union {front}
          /\ window' = (window /\ x.requested) /\ UNCHANGED <<front, ready, inside>>
      BY <1>5, <2>4 DEF Mac!TickPrepares
    <3>2. front # 0
      BY <2>1 DEF MacInv
    <3>3. front \in 1 .. front /\ front \in 0 .. front /\ front \in Nat
      BY <1>0, <3>2 DEF MacTyped
    <3> HIDE DEF x
    <3>4. mac' \in MacFields /\ ~mac'.prepared /\ ~mac'.hosted /\ mac'.frontend = front /\ mac'.access /\ mac'.seen
      BY <2>1, <2>2, <3>1, <3>3 DEF Alike, MacFields, MacInv
    <3>5. \A f \in 1 .. MaxFronts : where[f] # "page"
      BY <2>1 DEF MacInv
    <3>6. window' \in BOOLEAN /\ flights' \subseteq 1 .. front
      BY <1>0, <3>1, <3>3 DEF MacTyped
    <3>7. MacTyped'
      BY <1>0, <2>1, <3>1, <3>4, <3>6 DEF MacTyped, MacFields
    <3> QED BY <2>1, <3>1, <3>4, <3>5, <3>7 DEF MacInv, MacPlaced
  <2> QED BY <2>3, <2>4
<1>6. CASE Mac!TickPresents
  <2> DEFINE wanted == window /\ (mac.hosted \/ ~Mac!Seen.requested)
             x == IF mac.access /\ wanted THEN [Mac!Seen EXCEPT !.requested = TRUE, !.needed = TRUE]
                  ELSE Mac!Seen
  <2>1. /\ native = "shown" /\ raised' = FALSE /\ UNCHANGED <<front, flights, ready>>
        /\ mac.access => mac.prepared
        /\ IF x.needed THEN Mac!Present(x) ELSE mac' = x /\ UNCHANGED <<native, inside, where, window>>
    BY <1>6 DEF Mac!TickPresents, Mac!Shown, Mac!Apart
  <2>2. /\ Alike(Mac!Seen, mac) /\ Mac!Seen.floating = mac.floating
        /\ Mac!Seen.needed = (mac.needed \/ mac.pending)
    BY <1>0 DEF Mac!Seen, Alike, MacFields
  <2>3. Alike(x, mac) /\ x.floating = mac.floating
    BY <2>2 DEF Alike, MacFields
  <2>4. CASE x.needed
    BY <1>0, <2>1, <2>3, <2>4, MacPresents
  <2>5. CASE ~x.needed
    <3>1. mac' = x /\ UNCHANGED <<native, inside, where, window>>
      BY <2>1, <2>5
    <3>2. ~(mac.access /\ wanted)
      BY <2>2, <2>5 DEF Alike, MacFields
    <3>3. x = Mac!Seen /\ ~mac.needed
      BY <2>2, <2>5, <3>2
    <3>4. mac.prepared => mac.access
      BY DEF MacInv
    <3>5. mac.prepared => (window => x.requested /\ ~x.hosted)
      BY <2>2, <3>2, <3>3, <3>4 DEF Alike
    <3>6. MacPlaced'
      BY <2>1, <2>3, <3>1, <3>3, <3>5 DEF MacInv, MacPlaced, Alike
    <3>7. Alike(mac', mac) /\ mac' \in MacFields
      BY <2>3, <3>1 DEF Alike
    <3> HIDE DEF x
    <3> QED BY <1>0, <2>1, <3>1, <3>3, <3>6, <3>7, MacRecords
  <2> QED BY <2>4, <2>5
<1>7. CASE Mac!Evaluated
  <2>1. PICK f \in flights, ok \in BOOLEAN :
          /\ flights' = flights \ {f} /\ ready' = IF ok THEN ready \union {f} ELSE ready
          /\ mac' = IF mac.frontend # f THEN mac
                    ELSE [mac EXCEPT !.preparing = FALSE, !.prepared = TRUE, !.embedding = @ /\ ok, !.needed = TRUE]
    BY <1>7 DEF Mac!Evaluated
  <2>2. UNCHANGED <<native, front, inside, where, window, raised>>
    BY <1>7 DEF Mac!Evaluated
  <2>3. f \in 1 .. front /\ f # 0 /\ flights' \subseteq 1 .. front /\ ready' \subseteq 1 .. front
    BY <1>0, <2>1 DEF MacTyped
  <2>4. CASE mac.frontend # f
    <3>1. mac' = mac
      BY <2>1, <2>4
    <3>2. MacTyped'
      BY <1>0, <2>2, <2>3, <3>1 DEF MacTyped, MacFields
    <3> QED BY <2>1, <2>2, <2>4, <3>1, <3>2 DEF MacInv, MacPlaced
  <2>5. CASE mac.frontend = f
    <3>1. mac' = [mac EXCEPT !.preparing = FALSE, !.prepared = TRUE, !.embedding = @ /\ ok, !.needed = TRUE]
      BY <2>1, <2>5
    <3>2. /\ mac' \in MacFields /\ mac'.prepared /\ mac'.needed /\ ~mac'.preparing /\ mac'.frontend = f
          /\ mac'.hosted = mac.hosted /\ mac'.access = mac.access /\ mac'.seen = mac.seen
          /\ (mac'.embedding => mac.embedding /\ ok)
      BY <1>0, <2>5, <3>1 DEF MacFields
    <3>3. MacTyped'
      BY <1>0, <2>2, <2>3, <3>2 DEF MacTyped, MacFields
    <3>4. mac'.embedding => f \in ready'
      BY <2>1, <3>2
    <3> QED BY <2>2, <2>3, <2>5, <3>2, <3>3, <3>4 DEF MacInv, MacPlaced
  <2> QED BY <2>4, <2>5
<1>8. CASE Mac!Appears
  <2>1. /\ native = "opening" \/ (native = "none" /\ ~mac.seen /\ ~mac.pending)
        /\ front < MaxFronts /\ front' = front + 1 /\ native' = "shown" /\ UNCHANGED <<where, flights, ready, raised, mac>>
    BY <1>8 DEF Mac!Appears
  <2>2. inside' \in BOOLEAN /\ window' \in BOOLEAN
    BY <1>8 DEF Mac!Appears
  <2>3. front \in Nat /\ front' \in 0 .. MaxFronts /\ 1 .. front \subseteq 1 .. front' /\ 0 .. front \subseteq 0 .. front'
    BY <1>0, <2>1 DEF MacTyped
  <2>4. mac' \in MacFields'
    BY <1>0, <2>1, <2>3 DEF MacFields
  <2>5. MacTyped'
    BY <1>0, <2>1, <2>2, <2>3, <2>4 DEF MacTyped
  <2>6. mac.prepared => mac.needed
    BY <2>1 DEF MacInv
  <2>7. front' # 0
    BY <2>1, <2>3
  <2> QED BY <2>1, <2>5, <2>6, <2>7 DEF MacInv, MacPlaced
<1>9. CASE Mac!Raise
  BY <1>0, <1>9 DEF Mac!Raise, MacInv, MacTyped, MacFields, MacPlaced
<1>10. CASE Mac!Ends
  BY <1>0, <1>10 DEF Mac!Ends, MacInv, MacTyped, MacFields, MacPlaced
<1> QED BY <1>1, <1>2, <1>3, <1>4, <1>5, <1>6, <1>7, <1>8, <1>9, <1>10 DEF Mac!Next

LEMMA MacSteps == ASSUME MacInv, Mac!Next \/ UNCHANGED macVars PROVE MacInv'
<1>1. CASE UNCHANGED macVars
  BY <1>1 DEF MacInv, MacTyped, MacFields, MacPlaced, macVars
<1> QED BY <1>1, MacStep

-----------------------------------------------------------------------------
(* The inspectors on Windows.                                               *)

WinDevices == [at : {"open", "broken", "gone"}, frame : Frames \union {0}, hosted : BOOLEAN, requested : BOOLEAN,
               pending : BOOLEAN, before : SUBSET Frames, floating : BOOLEAN, fallback : {"none", "bounds", "hosting"},
               renderer : BOOLEAN]
WinFrames == [of : Windows \union {0}, by : Windows \union {0}, content : BOOLEAN, child : BOOLEAN, shown : BOOLEAN]
WinTyped ==
  /\ opening \in Windows \union {0} /\ asked \subseteq Windows /\ late = 0
  /\ dev \in [Windows -> WinDevices] /\ frame \in [Frames -> WinFrames]

WinLive(w) == dev[w].at = "open"
WinValid(w) == dev[w].frame # 0 /\ frame[dev[w].frame].by = w

\* One page waits for a frame, and WebView2 makes one for no other and none for a page that has one.
WinOpening ==
  /\ asked \subseteq {opening}
  /\ opening # 0 => dev[opening].at # "gone"
  /\ \A w \in asked : \A f \in Frames : frame[f].of # w
  /\ \A w \in Windows : WinLive(w) => (dev[w].pending <=> opening = w)
\* What appears while it waits is its own.
WinAwaits ==
  \A w \in Windows : opening = w /\ WinLive(w) =>
    \A f \in Frames : frame[f].of # 0 /\ frame[f].by = 0 /\ f \notin dev[w].before => frame[f].of = w
\* A claimed frame is its page's, which knows it.
WinClaimed ==
  \A f \in Frames : frame[f].by # 0 =>
    frame[f].of = frame[f].by /\ dev[frame[f].by].frame = f /\ dev[frame[f].by].at # "gone"
WinHeld ==
  \A w \in Windows : WinLive(w) => (dev[w].frame = 0 => ~dev[w].hosted) /\ (dev[w].pending => dev[w].frame = 0)
\* A frame inside a panel is that of a page that is there, and is where the user wants it.
WinPlaced(d, f) ==
  f.child = d.hosted /\ f.shown = d.requested /\ (d.hosted \/ d.floating \/ d.fallback # "none") /\ ~(d.hosted /\ d.floating)
WinPanels ==
  /\ \A f \in Frames : frame[f].child => frame[f].by # 0 /\ WinLive(frame[f].by)
  /\ \A w \in Windows : WinLive(w) /\ WinValid(w) => WinPlaced(dev[w], frame[dev[w].frame])
WinInv == WinTyped /\ WinOpening /\ WinAwaits /\ WinClaimed /\ WinHeld /\ WinPanels

\* A key that is held has posted one toggle at most.
WinKeys ==
  /\ key \in [down : BOOLEAN, consumed : BOOLEAN] /\ posted \in Nat /\ toggles \in [posted : Nat, presses : Nat]
  /\ toggles.posted <= toggles.presses

LEMMA WinDefs ==
  ASSUME NEW w \in Windows
  PROVE  (Win!Live(w) <=> WinLive(w)) /\ (Win!Valid(w) <=> WinValid(w))
BY DEF Win!Live, Win!Valid, WinLive, WinValid

LEMMA WinTypes ==
  ASSUME WinTyped
  PROVE  /\ 0 \notin Windows /\ 0 \notin Frames
         /\ \A w \in Windows : dev[w] \in WinDevices
         /\ \A f \in Frames : frame[f] \in WinFrames
BY InspectorsAssumption DEF WinTyped

LEMMA WinStart == ASSUME Win!Init PROVE WinInv /\ WinKeys
<1>1. dev \in [Windows -> {Win!Fresh(FALSE), Win!Fresh(TRUE)}]
      /\ frame = [f \in Frames |-> Win!NoFrame] /\ asked = {} /\ opening = 0 /\ late = 0
  BY DEF Win!Init
<1>2. Win!NoFrame \in WinFrames /\ Win!NoFrame.by = 0 /\ ~Win!NoFrame.child
      /\ Win!NoFrame.of = 0
  BY DEF Win!NoFrame, WinFrames
<1>3. \A b \in BOOLEAN : /\ Win!Fresh(b) \in WinDevices /\ Win!Fresh(b).at = "open"
        /\ Win!Fresh(b).frame = 0 /\ ~Win!Fresh(b).pending /\ ~Win!Fresh(b).hosted
  BY DEF Win!Fresh, WinDevices
<1>4. \A w \in Windows : \E b \in BOOLEAN : dev[w] = Win!Fresh(b)
  BY <1>1
<1>5. \A w \in Windows : dev[w] \in WinDevices /\ dev[w].at = "open" /\ dev[w].frame = 0 /\ ~dev[w].pending /\ ~dev[w].hosted
  BY <1>3, <1>4
<1>6. \A f \in Frames : frame[f] = Win!NoFrame
  BY <1>1
<1>7. dev \in [Windows -> WinDevices] /\ frame \in [Frames -> WinFrames]
  BY <1>1, <1>2, <1>5, <1>6
<1>8. WinTyped
  BY <1>1, <1>7 DEF WinTyped
<1>9. 0 \notin Windows
  BY InspectorsAssumption
<1>10. WinOpening /\ WinAwaits /\ WinClaimed /\ WinHeld
  BY <1>1, <1>2, <1>5, <1>6, <1>9 DEF WinOpening, WinAwaits, WinClaimed, WinHeld
<1>11. WinPanels
  BY <1>2, <1>5, <1>6 DEF WinPanels, WinValid
<1>12. WinKeys
  BY DEF Win!Init, WinKeys
<1> QED BY <1>8, <1>10, <1>11, <1>12 DEF WinInv

\* Two fields of a frame that changes along with its page.
WinPairPut(z, v, n) == [z EXCEPT !.f.child = v, !.f.shown = n]
WinFramePut(F, v, n) == [F EXCEPT !.child = v, !.shown = n]
LEMMA WinFrameSet ==
  ASSUME NEW D, NEW F, NEW v, NEW n
  PROVE  WinPairPut([d |-> D, f |-> F], v, n) = [d |-> D, f |-> WinFramePut(F, v, n)]
<1> DEFINE z == [d |-> D, f |-> F]
<1>1. WinPairPut(z, v, n) = [[z EXCEPT !.f.child = v] EXCEPT !.f.shown = n]
  BY DEF WinPairPut
<1>2. [z EXCEPT !.f.child = v] = [d |-> D, f |-> [F EXCEPT !.child = v]]
  OBVIOUS
<1>3. [[d |-> D, f |-> [F EXCEPT !.child = v]] EXCEPT !.f.shown = n]
      = [d |-> D, f |-> [[F EXCEPT !.child = v] EXCEPT !.shown = n]]
  OBVIOUS
<1>4. [[F EXCEPT !.child = v] EXCEPT !.shown = n] = WinFramePut(F, v, n)
  BY DEF WinFramePut
<1> HIDE DEF z
<1> QED BY <1>1, <1>2, <1>3, <1>4 DEF z

\* present() keeps the frame and its page in agreement, and touches nothing else of them.
WinPage(t, z) ==
  /\ t.d \in WinDevices /\ t.f \in WinFrames
  /\ t.d.at = z.d.at /\ t.d.frame = z.d.frame /\ t.d.pending = z.d.pending /\ t.d.before = z.d.before
  /\ t.f.of = z.f.of /\ t.f.by = z.f.by
LEMMA WinPresents ==
  ASSUME NEW dd \in WinDevices, NEW ff \in WinFrames, ff.child = dd.hosted,
         NEW t \in Win!Presented([d |-> dd, f |-> ff])
  PROVE  WinPage(t, [d |-> dd, f |-> ff]) /\ WinPlaced(t.d, t.f)
<1> DEFINE z == [d |-> dd, f |-> ff]
<1>1. z.d = dd /\ z.f = ff
  OBVIOUS
<1>2. CASE dd.floating /\ dd.hosted
  <2>1. PICK s \in {Win!Native(z)} : t = [s EXCEPT !.f.shown = s.d.requested]
    BY <1>1, <1>2 DEF Win!Presented
  <2>2. s = [d |-> [dd EXCEPT !.hosted = FALSE], f |-> [ff EXCEPT !.child = FALSE, !.shown = FALSE]]
    BY <1>1, <1>2, <2>1 DEF Win!Native
  <2>3. t = [d |-> [dd EXCEPT !.hosted = FALSE], f |-> [ff EXCEPT !.child = FALSE, !.shown = dd.requested]]
    BY <2>1, <2>2 DEF WinDevices, WinFrames
  <2> QED BY <1>2, <2>3 DEF WinPage, WinPlaced, WinDevices, WinFrames
<1>3. CASE ~dd.floating /\ ~dd.hosted /\ dd.fallback = "none"
  <2>1. PICK s \in Win!Attached(z) : t = [s EXCEPT !.f.shown = s.d.requested]
    BY <1>1, <1>3 DEF Win!Presented
  <2>2. \/ s = [d |-> [dd EXCEPT !.renderer = ff.content, !.fallback = "bounds"], f |-> ff]
        \/ s = [d |-> [dd EXCEPT !.renderer = ff.content, !.fallback = "hosting"], f |-> ff]
        \/ s = [d |-> [dd EXCEPT !.renderer = ff.content, !.hosted = TRUE], f |-> [ff EXCEPT !.child = TRUE, !.shown = FALSE]]
    <3> DEFINE u == [d |-> [dd EXCEPT !.renderer = ff.content], f |-> ff]
    <3>1. [z EXCEPT !.d.renderer = z.f.content] = u
      BY <1>1
    <3>2. s \in {[u EXCEPT !.d.fallback = "bounds"], [u EXCEPT !.d.fallback = "hosting"],
                 [u EXCEPT !.d.hosted = TRUE, !.f.child = TRUE, !.f.shown = FALSE]}
      BY <2>1, <3>1 DEF Win!Attached
    <3>3. [u EXCEPT !.d.fallback = "bounds"] = [d |-> [dd EXCEPT !.renderer = ff.content, !.fallback = "bounds"], f |-> ff]
      OBVIOUS
    <3>4. [u EXCEPT !.d.fallback = "hosting"] = [d |-> [dd EXCEPT !.renderer = ff.content, !.fallback = "hosting"], f |-> ff]
      OBVIOUS
    <3>5. [u EXCEPT !.d.hosted = TRUE, !.f.child = TRUE, !.f.shown = FALSE]
          = [d |-> [dd EXCEPT !.renderer = ff.content, !.hosted = TRUE], f |-> [ff EXCEPT !.child = TRUE, !.shown = FALSE]]
      <4> DEFINE D == [dd EXCEPT !.renderer = ff.content, !.hosted = TRUE]
      <4>1. [u EXCEPT !.d.hosted = TRUE] = [d |-> D, f |-> ff]
        OBVIOUS
      <4>2. [[d |-> D, f |-> ff] EXCEPT !.f.child = TRUE, !.f.shown = FALSE]
            = [d |-> D, f |-> [ff EXCEPT !.child = TRUE, !.shown = FALSE]]
        <5> HIDE DEF D
        <5>1. PICK v \in BOOLEAN, n \in BOOLEAN : v = TRUE /\ n = FALSE
          OBVIOUS
        <5>2. WinPairPut([d |-> D, f |-> ff], v, n) = [d |-> D, f |-> WinFramePut(ff, v, n)]
          BY WinFrameSet
        <5>3. WinPairPut([d |-> D, f |-> ff], TRUE, FALSE) = [d |-> D, f |-> WinFramePut(ff, TRUE, FALSE)]
          BY <5>1, <5>2
        <5> QED BY <5>3 DEF WinPairPut, WinFramePut
      <4>3. [u EXCEPT !.d.hosted = TRUE, !.f.child = TRUE, !.f.shown = FALSE]
            = [[u EXCEPT !.d.hosted = TRUE] EXCEPT !.f.child = TRUE, !.f.shown = FALSE]
        OBVIOUS
      <4> HIDE DEF D, u
      <4> QED BY <4>1, <4>2, <4>3 DEF D
    <3> HIDE DEF u
    <3> QED BY <3>2, <3>3, <3>4, <3>5
  <2>3. CASE s = [d |-> [dd EXCEPT !.renderer = ff.content, !.fallback = "bounds"], f |-> ff]
    <3>1. t = [d |-> [dd EXCEPT !.renderer = ff.content, !.fallback = "bounds"], f |-> [ff EXCEPT !.shown = dd.requested]]
      BY <2>1, <2>3 DEF WinDevices
    <3> QED BY <1>3, <3>1 DEF WinPage, WinPlaced, WinDevices, WinFrames
  <2>4. CASE s = [d |-> [dd EXCEPT !.renderer = ff.content, !.fallback = "hosting"], f |-> ff]
    <3>1. t = [d |-> [dd EXCEPT !.renderer = ff.content, !.fallback = "hosting"], f |-> [ff EXCEPT !.shown = dd.requested]]
      BY <2>1, <2>4 DEF WinDevices
    <3> QED BY <1>3, <3>1 DEF WinPage, WinPlaced, WinDevices, WinFrames
  <2>5. CASE s = [d |-> [dd EXCEPT !.renderer = ff.content, !.hosted = TRUE], f |-> [ff EXCEPT !.child = TRUE, !.shown = FALSE]]
    <3>1. t = [d |-> [dd EXCEPT !.renderer = ff.content, !.hosted = TRUE],
               f |-> [ff EXCEPT !.child = TRUE, !.shown = dd.requested]]
      BY <2>1, <2>5 DEF WinDevices, WinFrames
    <3> QED BY <1>3, <3>1 DEF WinPage, WinPlaced, WinDevices, WinFrames
  <2> QED BY <2>2, <2>3, <2>4, <2>5
<1>4. CASE ~(dd.floating /\ dd.hosted) /\ ~(~dd.floating /\ ~dd.hosted /\ dd.fallback = "none")
  <2>1. PICK s \in {z} : t = [s EXCEPT !.f.shown = s.d.requested]
    BY <1>1, <1>4 DEF Win!Presented
  <2>2. t = [d |-> dd, f |-> [ff EXCEPT !.shown = dd.requested]]
    BY <1>1, <2>1
  <2> QED BY <1>4, <2>2 DEF WinPage, WinPlaced, WinDevices, WinFrames
<1> QED BY <1>2, <1>3, <1>4

\* A frame that its page has, or claims, changes together with its page.
LEMMA WinBecomes ==
  ASSUME WinInv, NEW w \in Windows, WinLive(w), NEW f \in Frames, NEW t,
         frame[f].of = w, frame[f].by \in {0, w}, dev[w].frame \in {0, f},
         t.d \in WinDevices, t.f \in WinFrames, t.d.at = "open", t.d.frame = f, ~t.d.pending, t.f.of = w, t.f.by = w,
         WinPlaced(t.d, t.f),
         dev' = [dev EXCEPT ![w] = t.d], frame' = [frame EXCEPT ![f] = t.f],
         opening' = IF opening = w THEN 0 ELSE opening, asked' = asked, w \notin asked, late' = late
  PROVE  WinInv'
<1>1. WinTyped /\ 0 \notin Windows /\ 0 \notin Frames
  BY WinTypes DEF WinInv
<1>2. dev'[w] = t.d /\ frame'[f] = t.f /\ (\A v \in Windows : v # w => dev'[v] = dev[v])
      /\ (\A g \in Frames : g # f => frame'[g] = frame[g])
  BY <1>1 DEF WinTyped
<1>3. WinTyped'
  BY <1>1, <1>2 DEF WinTyped
<1>4. \A g \in Frames : frame[g].by = w => g = f
  BY <1>1 DEF WinInv, WinClaimed
<1>5. \A g \in Frames : frame'[g].of = frame[g].of
  BY <1>2
<1>6. WinOpening'
  <2>1. asked' \subseteq {opening'}
    BY DEF WinInv, WinOpening
  <2>2. opening' # 0 => dev'[opening'].at # "gone"
    BY <1>1, <1>2 DEF WinInv, WinOpening, WinTyped
  <2>3. \A v \in asked' : \A g \in Frames : frame'[g].of # v
    BY <1>5 DEF WinInv, WinOpening
  <2>4. ASSUME NEW v \in Windows, WinLive(v)' PROVE dev'[v].pending <=> opening' = v
    BY <1>1, <1>2, <2>4 DEF WinInv, WinOpening, WinLive
  <2> QED BY <2>1, <2>2, <2>3, <2>4 DEF WinOpening
<1>7. WinAwaits'
  <2>1. ASSUME NEW v \in Windows, opening' = v, WinLive(v)', NEW g \in Frames, frame'[g].of # 0, frame'[g].by = 0,
               g \notin dev'[v].before
        PROVE  frame'[g].of = v
    <3>1. v # w /\ opening = v /\ g # f
      BY <1>1, <1>2, <2>1
    <3>2. WinLive(v) /\ g \notin dev[v].before /\ frame[g].of # 0 /\ frame[g].by = 0
      BY <1>2, <2>1, <3>1 DEF WinLive
    <3> QED BY <1>5, <3>1, <3>2 DEF WinInv, WinAwaits
  <2> QED BY <2>1 DEF WinAwaits
<1>8. WinClaimed'
  <2>1. ASSUME NEW g \in Frames, frame'[g].by # 0
        PROVE  frame'[g].of = frame'[g].by /\ dev'[frame'[g].by].frame = g /\ dev'[frame'[g].by].at # "gone"
    <3>1. CASE g = f
      BY <1>2, <3>1
    <3>2. CASE g # f
      <4>1. frame'[g] = frame[g] /\ frame[g].by # w
        BY <1>2, <1>4, <3>2
      <4>2. frame[g].by \in Windows
        BY <1>1, <2>1, <4>1, WinTypes DEF WinFrames
      <4> QED BY <1>2, <2>1, <4>1, <4>2 DEF WinInv, WinClaimed
    <3> QED BY <3>1, <3>2
  <2> QED BY <2>1 DEF WinClaimed
<1>9. WinHeld'
  BY <1>1, <1>2 DEF WinInv, WinHeld, WinLive
<1>10. WinPanels'
  <2>1. ASSUME NEW g \in Frames, frame'[g].child PROVE frame'[g].by # 0 /\ WinLive(frame[g].by)'
    <3>1. CASE g = f
      BY <1>1, <1>2, <3>1 DEF WinLive
    <3>2. CASE g # f
      <4>1. frame'[g] = frame[g] /\ frame[g].by # 0 /\ WinLive(frame[g].by) /\ frame[g].by # w
        BY <1>2, <1>4, <2>1, <3>2 DEF WinInv, WinPanels
      <4>2. frame[g].by \in Windows
        BY <1>1, <4>1, WinTypes DEF WinFrames
      <4> QED BY <1>2, <4>1, <4>2 DEF WinLive
    <3> QED BY <3>1, <3>2
  <2>2. ASSUME NEW v \in Windows, WinLive(v)', WinValid(v)' PROVE WinPlaced(dev'[v], frame'[dev'[v].frame])
    <3>1. CASE v = w
      BY <1>2, <3>1
    <3>2. CASE v # w
      <4>1. dev'[v] = dev[v] /\ dev[v].frame # f
        BY <1>2, <2>2, <3>2 DEF WinValid
      <4>2. dev[v].frame \in Frames
        BY <1>1, <2>2, <4>1, WinTypes DEF WinValid, WinDevices
      <4>3. frame'[dev[v].frame] = frame[dev[v].frame]
        BY <1>2, <4>1, <4>2
      <4> QED BY <2>2, <4>1, <4>3 DEF WinInv, WinPanels, WinLive, WinValid
    <3> QED BY <3>1, <3>2
  <2> QED BY <2>1, <2>2 DEF WinPanels
<1> QED BY <1>3, <1>6, <1>7, <1>8, <1>9, <1>10 DEF WinInv

\* A page without a frame changes alone.
LEMMA WinAlone ==
  ASSUME WinInv, NEW w \in Windows, WinLive(w), ~WinValid(w), NEW e \in WinDevices, e.at = "open",
         e.frame \in {0, dev[w].frame}, e.frame = 0 => ~e.hosted, e.pending => e.frame = 0,
         dev' = [dev EXCEPT ![w] = e], frame' = frame, late' = late,
         opening' \in Windows \union {0}, asked' \subseteq Windows, asked' \subseteq {opening'},
         \A v \in asked' : \A f \in Frames : frame[f].of # v,
         e.pending <=> opening' = w, \A v \in Windows : v # w => (opening' = v <=> opening = v),
         opening' = w => \A f \in Frames : frame[f].of # 0 /\ frame[f].by = 0 /\ f \notin e.before => frame[f].of = w
  PROVE  WinInv'
<1>1. WinTyped /\ 0 \notin Windows /\ 0 \notin Frames
  BY WinTypes DEF WinInv
<1>2. dev'[w] = e /\ \A v \in Windows : v # w => dev'[v] = dev[v]
  BY <1>1 DEF WinTyped
<1>3. WinTyped'
  BY <1>1, <1>2 DEF WinTyped
<1>4. \A g \in Frames : frame[g].by # w
  BY <1>1 DEF WinInv, WinClaimed, WinValid
<1>5. \A g \in Frames : frame[g].by # 0 => frame[g].by \in Windows
  BY <1>1, WinTypes DEF WinFrames
<1>6. WinOpening'
  <2>1. opening' # 0 => dev'[opening'].at # "gone"
    <3>1. CASE opening' = w
      BY <1>2, <3>1
    <3>2. CASE opening' # 0 /\ opening' # w
      <4>1. opening' \in Windows /\ opening' = opening
        BY <3>2
      <4> QED BY <1>2, <3>2, <4>1 DEF WinInv, WinOpening
    <3> QED BY <3>1, <3>2
  <2>2. \A v \in Windows : WinLive(v)' => (dev'[v].pending <=> opening' = v)
    BY <1>2 DEF WinInv, WinOpening, WinLive
  <2> QED BY <2>1, <2>2 DEF WinOpening
<1>7. WinAwaits'
  BY <1>2 DEF WinInv, WinAwaits, WinLive
<1>8. WinClaimed'
  BY <1>2, <1>4, <1>5 DEF WinInv, WinClaimed
<1>9. WinHeld'
  BY <1>2 DEF WinInv, WinHeld, WinLive
<1>10. WinPanels'
  <2>1. ASSUME NEW g \in Frames, frame[g].child PROVE frame[g].by # 0 /\ WinLive(frame[g].by)'
    <3>1. frame[g].by # 0 /\ WinLive(frame[g].by) /\ frame[g].by # w /\ frame[g].by \in Windows
      BY <1>4, <1>5, <2>1 DEF WinInv, WinPanels
    <3> QED BY <1>2, <3>1 DEF WinLive
  <2>2. ASSUME NEW v \in Windows, WinLive(v)', WinValid(v)' PROVE WinPlaced(dev'[v], frame[dev'[v].frame])
    <3>1. v # w
      BY <1>1, <1>2, <1>4, <2>2 DEF WinValid
    <3> QED BY <1>2, <2>2, <3>1 DEF WinInv, WinPanels, WinLive, WinValid
  <2> QED BY <2>1, <2>2 DEF WinPanels
<1> QED BY <1>3, <1>6, <1>7, <1>8, <1>9, <1>10 DEF WinInv

\* A frame changes by itself: what is in a panel stays, and what was not there is somebody's that waits for it.
LEMMA WinMoves ==
  ASSUME WinInv, NEW f \in Frames, NEW g \in WinFrames, dev' = dev, frame' = [frame EXCEPT ![f] = g],
         opening' = opening, late' = late, asked' \subseteq asked,
         \/ g.of = frame[f].of /\ g.by = frame[f].by /\ g.child = frame[f].child /\ g.shown = frame[f].shown
         \/ g.of = 0 /\ g.by = 0 /\ ~g.child
         \/ g.of = opening /\ g.by = 0 /\ ~g.child /\ frame[f].of = 0 /\ opening \notin asked'
  PROVE  WinInv'
<1>1. WinTyped /\ 0 \notin Windows /\ 0 \notin Frames
  BY WinTypes DEF WinInv
<1>2. frame'[f] = g /\ \A h \in Frames : h # f => frame'[h] = frame[h]
  BY <1>1 DEF WinTyped
<1>3. WinTyped'
  BY <1>1, <1>2 DEF WinTyped
<1>4. WinOpening'
  <2>1. \A v \in asked' : v = opening /\ v \in Windows /\ \A h \in Frames : frame[h].of # v
    BY <1>1 DEF WinInv, WinOpening, WinTyped
  <2>2. \A v \in asked' : g.of # v
    BY <1>1, <2>1
  <2>3. \A v \in asked' : \A h \in Frames : frame'[h].of # v
    BY <1>2, <2>1, <2>2
  <2> QED BY <2>3 DEF WinInv, WinOpening, WinLive
<1>5. WinAwaits'
  <2>1. ASSUME NEW v \in Windows, opening = v, WinLive(v), NEW h \in Frames, frame'[h].of # 0, frame'[h].by = 0,
               h \notin dev[v].before
        PROVE  frame'[h].of = v
    BY <1>2, <2>1 DEF WinInv, WinAwaits
  <2> QED BY <2>1 DEF WinAwaits, WinLive
<1>6. WinClaimed'
  <2>1. ASSUME NEW h \in Frames, frame'[h].by # 0
        PROVE  frame'[h].of = frame'[h].by /\ dev[frame'[h].by].frame = h /\ dev[frame'[h].by].at # "gone"
    BY <1>2, <2>1 DEF WinInv, WinClaimed
  <2> QED BY <2>1 DEF WinClaimed
<1>7. WinHeld'
  BY DEF WinInv, WinHeld, WinLive
<1>8. WinPanels'
  <2>1. ASSUME NEW h \in Frames, frame'[h].child PROVE frame'[h].by # 0 /\ dev[frame'[h].by].at = "open"
    BY <1>2, <2>1 DEF WinInv, WinPanels, WinLive
  <2>2. ASSUME NEW v \in Windows, WinLive(v), dev[v].frame # 0, frame'[dev[v].frame].by = v
        PROVE  WinPlaced(dev[v], frame'[dev[v].frame])
    <3>1. dev[v].frame \in Frames
      BY <1>1, <2>2, WinTypes DEF WinDevices
    <3>2. frame'[dev[v].frame].by = frame[dev[v].frame].by /\ frame'[dev[v].frame].child = frame[dev[v].frame].child
          /\ frame'[dev[v].frame].shown = frame[dev[v].frame].shown
      BY <1>1, <1>2, <2>2, <3>1
    <3> QED BY <2>2, <3>2 DEF WinInv, WinPanels, WinValid, WinPlaced
  <2> QED BY <2>1, <2>2 DEF WinPanels, WinLive, WinValid
<1> QED BY <1>3, <1>4, <1>5, <1>6, <1>7, <1>8 DEF WinInv

\* Facts about a page that is there.
LEMMA WinOwn ==
  ASSUME WinInv, NEW w \in Windows, WinLive(w)
  PROVE  /\ dev[w] \in WinDevices
         /\ WinValid(w) => /\ dev[w].frame \in Frames /\ frame[dev[w].frame] \in WinFrames /\ frame[dev[w].frame].of = w
                           /\ frame[dev[w].frame].by = w /\ WinPlaced(dev[w], frame[dev[w].frame])
                           /\ ~dev[w].pending /\ opening # w /\ w \notin asked
         /\ Win!Settled(w) = IF dev[w].frame # 0 /\ ~WinValid(w) THEN Win!Lost(dev[w]) ELSE dev[w]
<1>1. dev[w] \in WinDevices /\ WinTyped /\ 0 \notin Windows
  BY WinTypes DEF WinInv
<1>2. ASSUME WinValid(w)
      PROVE  /\ dev[w].frame \in Frames /\ frame[dev[w].frame] \in WinFrames /\ frame[dev[w].frame].of = w
             /\ frame[dev[w].frame].by = w /\ WinPlaced(dev[w], frame[dev[w].frame])
             /\ ~dev[w].pending /\ opening # w /\ w \notin asked
  <2>1. dev[w].frame \in Frames /\ dev[w].frame # 0 /\ frame[dev[w].frame].by = w
    BY <1>1, <1>2 DEF WinValid, WinDevices
  <2>2. frame[dev[w].frame] \in WinFrames
    BY <1>1, <2>1, WinTypes
  <2>3. frame[dev[w].frame].of = w
    BY <1>1, <2>1 DEF WinInv, WinClaimed
  <2>4. WinPlaced(dev[w], frame[dev[w].frame])
    BY <1>2 DEF WinInv, WinPanels
  <2>5. ~dev[w].pending
    BY <2>1 DEF WinInv, WinHeld
  <2>6. opening # w /\ w \notin asked
    BY <2>5 DEF WinInv, WinOpening
  <2> QED BY <2>1, <2>2, <2>3, <2>4, <2>5, <2>6
<1>3. Win!Settled(w) = IF dev[w].frame # 0 /\ ~WinValid(w) THEN Win!Lost(dev[w]) ELSE dev[w]
  BY WinDefs DEF Win!Settled
<1> QED BY <1>1, <1>2, <1>3

\* A change of the page leaves its frame alone.
LEMMA WinWants ==
  ASSUME NEW D, NEW F, NEW v
  PROVE  [[d |-> D, f |-> F] EXCEPT !.d.requested = v] = [d |-> [D EXCEPT !.requested = v], f |-> F]
OBVIOUS
WinRendered(z, v, n) == [z EXCEPT !.d.renderer = v, !.d.fallback = n]
WinPageRendered(D, v, n) == [D EXCEPT !.renderer = v, !.fallback = n]
LEMMA WinRenders ==
  ASSUME NEW D, NEW F, NEW v, NEW n
  PROVE  WinRendered([d |-> D, f |-> F], v, n) = [d |-> WinPageRendered(D, v, n), f |-> F]
<1> DEFINE z == [d |-> D, f |-> F]
<1>1. WinRendered(z, v, n) = [[z EXCEPT !.d.renderer = v] EXCEPT !.d.fallback = n]
  BY DEF WinRendered
<1>2. [z EXCEPT !.d.renderer = v] = [d |-> [D EXCEPT !.renderer = v], f |-> F]
  OBVIOUS
<1>3. [[d |-> [D EXCEPT !.renderer = v], f |-> F] EXCEPT !.d.fallback = n]
      = [d |-> [[D EXCEPT !.renderer = v] EXCEPT !.fallback = n], f |-> F]
  OBVIOUS
<1>4. [[D EXCEPT !.renderer = v] EXCEPT !.fallback = n] = WinPageRendered(D, v, n)
  BY DEF WinPageRendered
<1> HIDE DEF z
<1>5. WinRendered(z, v, n) = [d |-> WinPageRendered(D, v, n), f |-> F]
  BY <1>1, <1>2, <1>3, <1>4
<1> QED BY <1>5 DEF z

\* A page shows or hides its frame.
LEMMA WinShows ==
  ASSUME WinInv, NEW w \in Windows, WinLive(w), WinValid(w), NEW dd \in WinDevices, dd.at = "open",
         dd.frame = dev[w].frame, ~dd.pending, dd.hosted = dev[w].hosted,
         NEW t \in Win!Presented([d |-> dd, f |-> frame[dev[w].frame]]), Win!Becomes(w, t),
         UNCHANGED <<opening, asked, late>>
  PROVE  WinInv'
<1>1. /\ dev[w].frame \in Frames /\ frame[dev[w].frame] \in WinFrames /\ frame[dev[w].frame].of = w
      /\ frame[dev[w].frame].by = w /\ WinPlaced(dev[w], frame[dev[w].frame]) /\ opening # w /\ w \notin asked
  BY WinOwn
<1>2. frame[dev[w].frame].child = dd.hosted
  BY <1>1 DEF WinPlaced
<1>3. WinPage(t, [d |-> dd, f |-> frame[dev[w].frame]]) /\ WinPlaced(t.d, t.f)
  BY <1>1, <1>2, WinPresents
<1>4. /\ t.d \in WinDevices /\ t.f \in WinFrames /\ t.d.at = "open" /\ t.d.frame = dev[w].frame /\ ~t.d.pending
      /\ t.f.of = w /\ t.f.by = w
  BY <1>1, <1>3 DEF WinPage
<1>5. dev' = [dev EXCEPT ![w] = t.d] /\ frame' = [frame EXCEPT ![dev[w].frame] = t.f]
  BY <1>4 DEF Win!Becomes
<1> QED BY <1>1, <1>3, <1>4, <1>5, WinBecomes

LEMMA WinOpens ==
  ASSUME WinInv, NEW w \in Windows, Win!Open(w), late' = late PROVE WinInv'
<1>1. WinLive(w) /\ UNCHANGED <<opening, asked>>
  BY WinDefs DEF Win!Open
<1>2. dev[w] \in WinDevices /\ WinTyped
  BY <1>1, WinOwn DEF WinInv
<1>3. CASE WinValid(w)
  <2>0. PICK v \in BOOLEAN :
          \E z \in Win!Presented([Win!Of(w) EXCEPT !.d.requested = v]) : Win!Becomes(w, z)
    BY <1>3, WinDefs DEF Win!Open
  <2> DEFINE dd == [dev[w] EXCEPT !.requested = v]
  <2>1. [Win!Of(w) EXCEPT !.d.requested = v] = [d |-> dd, f |-> frame[dev[w].frame]]
    BY WinWants DEF Win!Of
  <2>2. PICK z \in Win!Presented([d |-> dd, f |-> frame[dev[w].frame]]) : Win!Becomes(w, z)
    BY <2>0, <2>1
  <2>3. dd \in WinDevices /\ dd.at = "open" /\ dd.frame = dev[w].frame /\ ~dd.pending /\ dd.hosted = dev[w].hosted
    BY <1>1, <1>2, <1>3, WinOwn DEF WinDevices, WinLive
  <2> HIDE DEF dd
  <2> QED BY <1>1, <1>3, <2>1, <2>2, <2>3, WinShows
<1>4. CASE ~WinValid(w)
  <2> DEFINE e == [Win!Settled(w) EXCEPT !.requested = TRUE]
  <2>1. dev' = [dev EXCEPT ![w] = e] /\ frame' = frame
    BY <1>4, WinDefs DEF Win!Open
  <2>2. Win!Settled(w) = IF dev[w].frame # 0 THEN Win!Lost(dev[w]) ELSE dev[w]
    BY <1>1, <1>4, WinOwn
  <2>3. dev[w].frame # 0 => ~dev[w].pending
    BY <1>1 DEF WinInv, WinHeld
  <2>4. /\ e \in WinDevices /\ e.at = "open" /\ e.frame \in {0, dev[w].frame} /\ (e.frame = 0 => ~e.hosted)
        /\ (e.pending => e.frame = 0) /\ e.pending = dev[w].pending /\ e.before = dev[w].before
    BY <1>1, <1>2, <2>2, <2>3 DEF WinDevices, Win!Lost, WinLive, WinInv, WinHeld
  <2> HIDE DEF e
  <2>5. /\ opening \in Windows \union {0} /\ asked \subseteq Windows /\ asked \subseteq {opening}
        /\ \A v \in asked : \A f \in Frames : frame[f].of # v
        /\ (e.pending <=> opening = w)
    BY <1>1, <1>2, <2>4 DEF WinInv, WinOpening, WinTyped
  <2>6. opening = w => \A f \in Frames : frame[f].of # 0 /\ frame[f].by = 0 /\ f \notin e.before => frame[f].of = w
    BY <1>1, <2>4 DEF WinInv, WinAwaits
  <2> QED BY <1>1, <1>4, <2>1, <2>4, <2>5, <2>6, WinAlone
<1> QED BY <1>3, <1>4

LEMMA WinHides ==
  ASSUME WinInv, NEW w \in Windows, Win!Hide(w), late' = late PROVE WinInv'
<1>1. WinLive(w) /\ UNCHANGED <<opening, asked>>
  BY WinDefs DEF Win!Hide
<1>2. dev[w] \in WinDevices /\ WinTyped
  BY <1>1, WinOwn DEF WinInv
<1>3. CASE WinValid(w)
  <2> DEFINE t == Win!Hidden(Win!Of(w))
  <2>1. Win!Becomes(w, t)
    BY <1>3, WinDefs DEF Win!Hide
  <2>2. /\ dev[w].frame \in Frames /\ frame[dev[w].frame] \in WinFrames /\ frame[dev[w].frame].of = w
        /\ frame[dev[w].frame].by = w /\ WinPlaced(dev[w], frame[dev[w].frame]) /\ opening # w /\ w \notin asked
        /\ ~dev[w].pending
    BY <1>1, <1>3, WinOwn
  <2>3. t.d = [dev[w] EXCEPT !.requested = FALSE] /\ t.f = [frame[dev[w].frame] EXCEPT !.shown = FALSE]
    BY DEF Win!Hidden, Win!Of
  <2>4. /\ t.d \in WinDevices /\ t.f \in WinFrames /\ t.d.at = "open" /\ t.d.frame = dev[w].frame /\ ~t.d.pending
        /\ t.f.of = w /\ t.f.by = w
    BY <1>1, <1>2, <2>2, <2>3 DEF WinDevices, WinFrames, WinLive
  <2>5. WinPlaced(t.d, t.f)
    BY <1>2, <2>2, <2>3 DEF WinPlaced, WinDevices, WinFrames
  <2>6. dev' = [dev EXCEPT ![w] = t.d] /\ frame' = [frame EXCEPT ![dev[w].frame] = t.f]
    BY <2>1, <2>4 DEF Win!Becomes
  <2> HIDE DEF t
  <2> QED BY <1>1, <2>2, <2>4, <2>5, <2>6, WinBecomes
<1>4. CASE ~WinValid(w)
  <2> DEFINE e == [dev[w] EXCEPT !.requested = FALSE]
  <2>1. dev' = [dev EXCEPT ![w] = e] /\ frame' = frame
    BY <1>2, <1>4, WinDefs DEF Win!Hide
  <2>2. /\ e \in WinDevices /\ e.at = "open" /\ e.frame = dev[w].frame /\ (e.frame = 0 => ~e.hosted)
        /\ (e.pending => e.frame = 0) /\ e.pending = dev[w].pending /\ e.before = dev[w].before
    BY <1>1, <1>2 DEF WinDevices, WinLive, WinInv, WinHeld
  <2> HIDE DEF e
  <2>3. /\ opening \in Windows \union {0} /\ asked \subseteq Windows /\ asked \subseteq {opening}
        /\ \A v \in asked : \A f \in Frames : frame[f].of # v
        /\ (e.pending <=> opening = w)
    BY <1>1, <1>2, <2>2 DEF WinInv, WinOpening, WinTyped
  <2>4. opening = w => \A f \in Frames : frame[f].of # 0 /\ frame[f].by = 0 /\ f \notin e.before => frame[f].of = w
    BY <1>1, <2>2 DEF WinInv, WinAwaits
  <2> QED BY <1>1, <1>4, <2>1, <2>2, <2>3, <2>4, WinAlone
<1> QED BY <1>3, <1>4

LEMMA WinModes ==
  ASSUME WinInv, NEW w \in Windows, Win!Mode(w), late' = late PROVE WinInv'
<1>1. WinLive(w) /\ WinValid(w) /\ UNCHANGED <<opening, asked>>
  BY WinDefs DEF Win!Mode
<1>2. PICK v \in BOOLEAN :
        \E z \in Win!Presented([Win!Of(w) EXCEPT !.d.floating = v]) : Win!Becomes(w, z)
  BY DEF Win!Mode
<1> DEFINE dd == [dev[w] EXCEPT !.floating = v]
<1>3. [Win!Of(w) EXCEPT !.d.floating = v] = [d |-> dd, f |-> frame[dev[w].frame]]
  BY DEF Win!Of
<1>4. dd \in WinDevices /\ dd.at = "open" /\ dd.frame = dev[w].frame /\ ~dd.pending /\ dd.hosted = dev[w].hosted
  BY <1>1, WinOwn DEF WinDevices, WinLive
<1>5. PICK z \in Win!Presented([d |-> dd, f |-> frame[dev[w].frame]]) : Win!Becomes(w, z)
  BY <1>2, <1>3
<1> HIDE DEF dd
<1> QED BY <1>1, <1>4, <1>5, WinShows

LEMMA WinLooks ==
  ASSUME WinInv, NEW w \in Windows, Win!TickValid(w) PROVE WinInv'
<1>1. WinLive(w) /\ WinValid(w) /\ UNCHANGED <<opening, asked, late>>
  BY WinDefs DEF Win!TickValid, Win!Quiet
<1>2. PICK v \in BOOLEAN, n \in {"none", "bounds", "hosting"} :
        \E z \in Win!Presented(WinRendered(Win!Of(w), v, n)) : Win!Becomes(w, z)
  BY DEF Win!TickValid, WinRendered
<1>3. WinRendered(Win!Of(w), v, n) = [d |-> WinPageRendered(dev[w], v, n), f |-> frame[dev[w].frame]]
  BY WinRenders DEF Win!Of
<1> DEFINE dd == WinPageRendered(dev[w], v, n)
<1>4. dev[w] \in WinDevices /\ ~dev[w].pending
  BY <1>1, WinOwn
<1>5. dd \in WinDevices /\ dd.at = "open" /\ dd.frame = dev[w].frame /\ ~dd.pending /\ dd.hosted = dev[w].hosted
  BY <1>1, <1>4 DEF WinDevices, WinLive, WinPageRendered
<1>6. PICK z \in Win!Presented([d |-> dd, f |-> frame[dev[w].frame]]) : Win!Becomes(w, z)
  BY <1>2, <1>3
<1> HIDE DEF dd
<1> QED BY <1>1, <1>5, <1>6, WinShows

LEMMA WinLoses ==
  ASSUME WinInv, NEW w \in Windows, Win!TickLost(w) PROVE WinInv'
<1>1. WinLive(w) /\ UNCHANGED <<opening, asked, late>> /\ frame' = frame /\ Win!Settled(w) # dev[w]
      /\ dev' = [dev EXCEPT ![w] = Win!Settled(w)]
  BY WinDefs DEF Win!TickLost, Win!Quiet
<1> DEFINE e == Win!Lost(dev[w])
<1>2. dev[w].frame # 0 /\ ~WinValid(w) /\ dev' = [dev EXCEPT ![w] = e] /\ dev[w] \in WinDevices
  BY <1>1, WinOwn
<1>3. ~dev[w].pending /\ opening # w
  BY <1>1, <1>2 DEF WinInv, WinHeld, WinOpening
<1>4. e \in WinDevices /\ e.at = "open" /\ e.frame = 0 /\ ~e.hosted /\ ~e.pending
  BY <1>1, <1>2, <1>3 DEF WinDevices, Win!Lost, WinLive
<1> HIDE DEF e
<1>5. /\ opening \in Windows \union {0} /\ asked \subseteq Windows /\ asked \subseteq {opening}
      /\ \A v \in asked : \A f \in Frames : frame[f].of # v
  BY DEF WinInv, WinOpening, WinTyped
<1> QED BY <1>1, <1>2, <1>3, <1>4, <1>5, WinAlone

LEMMA WinAsks ==
  ASSUME WinInv, NEW w \in Windows, Win!TickOpens(w) PROVE WinInv'
<1>1. /\ WinLive(w) /\ ~WinValid(w) /\ Win!Settled(w) = dev[w] /\ ~dev[w].pending /\ opening = 0
      /\ frame' = frame /\ late' = late
  BY WinDefs DEF Win!TickOpens, Win!Quiet
<1>2. dev[w] \in WinDevices /\ WinTyped /\ 0 \notin Windows
  BY <1>1, WinOwn, WinTypes DEF WinInv
<1>3. dev[w].frame = 0
  <2>1. SUFFICES ASSUME dev[w].frame # 0 PROVE FALSE
    OBVIOUS
  <2>2. dev[w] = Win!Lost(dev[w])
    BY <1>1, <2>1, WinOwn
  <2>3. Win!Lost(dev[w]).frame = 0
    BY <1>2 DEF Win!Lost, WinDevices
  <2> QED BY <2>1, <2>2, <2>3
<1>4. ~dev[w].hosted
  BY <1>1, <1>3 DEF WinInv, WinHeld
<1>5. asked = {}
  BY <1>1, <1>2 DEF WinInv, WinOpening, WinTyped
<1>6. CASE /\ dev' = [dev EXCEPT ![w] = [@ EXCEPT !.before = Win!Candidates, !.pending = TRUE]] /\ opening' = w
           /\ asked' = asked \union (IF \E f \in Frames : frame[f].of = w THEN {} ELSE {w})
  <2> DEFINE e == [dev[w] EXCEPT !.before = Win!Candidates, !.pending = TRUE]
  <2>1. Win!Candidates \subseteq Frames
        /\ \A f \in Frames : frame[f].of # 0 /\ frame[f].by = 0 => f \in Win!Candidates
    BY DEF Win!Candidates
  <2>2. /\ e \in WinDevices /\ e.at = "open" /\ e.frame = 0 /\ ~e.hosted /\ e.pending
        /\ e.before = Win!Candidates
    BY <1>1, <1>2, <1>3, <1>4, <2>1 DEF WinDevices, WinLive
  <2>3. dev' = [dev EXCEPT ![w] = e]
    BY <1>6
  <2> HIDE DEF e
  <2>4. asked' \subseteq {w} /\ \A v \in asked' : \A f \in Frames : frame[f].of # v
    BY <1>5, <1>6
  <2>5. \A v \in Windows : v # w => (opening' = v <=> opening = v)
    BY <1>1, <1>2, <1>6
  <2>6. \A f \in Frames : frame[f].of # 0 /\ frame[f].by = 0 /\ f \notin e.before => frame[f].of = w
    BY <2>1, <2>2
  <2>7. /\ opening' \in Windows \union {0} /\ asked' \subseteq Windows /\ asked' \subseteq {opening'}
        /\ e.pending <=> opening' = w
    BY <1>6, <2>2, <2>4
  <2> QED BY <1>1, <2>2, <2>3, <2>4, <2>5, <2>6, <2>7, WinAlone
<1>7. CASE dev' = [dev EXCEPT ![w].requested = FALSE] /\ UNCHANGED <<opening, asked>>
  <2> DEFINE e == [dev[w] EXCEPT !.requested = FALSE]
  <2>1. e \in WinDevices /\ e.at = "open" /\ e.frame = 0 /\ ~e.hosted /\ ~e.pending
    BY <1>1, <1>2, <1>3, <1>4 DEF WinDevices, WinLive
  <2>2. dev' = [dev EXCEPT ![w] = e]
    BY <1>2, <1>7
  <2> HIDE DEF e
  <2> QED BY <1>1, <1>2, <1>5, <1>7, <2>1, <2>2, WinAlone
<1> QED BY <1>6, <1>7 DEF Win!TickOpens

LEMMA WinClaims ==
  ASSUME WinInv, NEW w \in Windows, Win!TickClaims(w) PROVE WinInv'
<1>1. WinLive(w) /\ dev[w].pending /\ opening' = 0 /\ asked' = asked /\ late' = late
  BY WinDefs DEF Win!TickClaims, Win!Quiet
<1>2. dev[w] \in WinDevices /\ WinTyped /\ 0 \notin Windows /\ 0 \notin Frames
  BY <1>1, WinOwn, WinTypes DEF WinInv
<1>3. PICK expired \in BOOLEAN : Win!Claims(w, expired)
  BY DEF Win!TickClaims
<1>4. PICK f \in Win!Claimable(w) :
        \E z \in Win!Presented([d |-> [dev[w] EXCEPT !.frame = f, !.renderer = frame[f].content,
                                                     !.pending = FALSE, !.before = {}],
                                           f |-> [frame[f] EXCEPT !.by = w]]) : Win!Becomes(w, z)
  BY <1>3 DEF Win!Claims
<1> DEFINE dd == [dev[w] EXCEPT !.frame = f, !.renderer = frame[f].content, !.pending = FALSE, !.before = {}]
           ff == [frame[f] EXCEPT !.by = w]
<1>5. PICK t \in Win!Presented([d |-> dd, f |-> ff]) : Win!Becomes(w, t)
  BY <1>4
<1>6. f \in Frames /\ frame[f].of # 0 /\ frame[f].by = 0 /\ f \notin dev[w].before
  BY DEF Win!Claimable, Win!Candidates
<1>7. opening = w
  BY <1>1 DEF WinInv, WinOpening
<1>8. frame[f] \in WinFrames /\ frame[f].of = w
  BY <1>1, <1>2, <1>6, <1>7, WinTypes DEF WinInv, WinAwaits
<1>9. ~frame[f].child /\ ~dev[w].hosted /\ dev[w].frame = 0 /\ w \notin asked
  <2>1. ~frame[f].child
    BY <1>6 DEF WinInv, WinPanels
  <2>2. dev[w].frame = 0
    BY <1>1 DEF WinInv, WinHeld
  <2>3. ~dev[w].hosted
    BY <1>1, <2>2 DEF WinInv, WinHeld
  <2>4. w \notin asked
    BY <1>6, <1>8 DEF WinInv, WinOpening
  <2> QED BY <2>1, <2>2, <2>3, <2>4
<1>10. /\ dd \in WinDevices /\ dd.at = "open" /\ dd.frame = f /\ ~dd.pending /\ ~dd.hosted
  BY <1>1, <1>2, <1>6, <1>8, <1>9 DEF WinDevices, WinFrames, WinLive
<1>11. ff \in WinFrames /\ ff.of = w /\ ff.by = w /\ ~ff.child
  BY <1>8, <1>9 DEF WinFrames
<1> HIDE DEF dd, ff
<1>12. ff.child = dd.hosted
  BY <1>10, <1>11 DEF WinDevices, WinFrames
<1>13. WinPage(t, [d |-> dd, f |-> ff]) /\ WinPlaced(t.d, t.f)
  BY <1>5, <1>10, <1>11, <1>12, WinPresents
<1>14. /\ t.d \in WinDevices /\ t.f \in WinFrames /\ t.d.at = "open" /\ t.d.frame = f /\ ~t.d.pending
       /\ t.f.of = w /\ t.f.by = w
  BY <1>10, <1>11, <1>13 DEF WinPage
<1>15. dev' = [dev EXCEPT ![w] = t.d] /\ frame' = [frame EXCEPT ![f] = t.f]
  BY <1>5, <1>14 DEF Win!Becomes
<1> QED BY <1>1, <1>6, <1>7, <1>8, <1>9, <1>13, <1>14, <1>15, WinBecomes

LEMMA WinExpires ==
  ASSUME WinInv, NEW w \in Windows, Win!TickExpires(w) PROVE WinInv'
<1> DEFINE e == [dev[w] EXCEPT !.pending = FALSE, !.requested = FALSE, !.before = {}]
<1>1. /\ WinLive(w) /\ dev[w].pending /\ late' = late + (IF w \in asked THEN 1 ELSE 0) /\ late' <= 0
      /\ dev' = [dev EXCEPT ![w] = e] /\ opening' = 0 /\ asked' = asked /\ frame' = frame
  BY WinDefs DEF Win!TickExpires
<1>2. dev[w] \in WinDevices /\ WinTyped /\ 0 \notin Windows
  BY <1>1, WinOwn, WinTypes DEF WinInv
<1>3. late = 0
  BY <1>2 DEF WinTyped
<1>4. w \notin asked /\ late' = late
  BY <1>1, <1>3
<1>5. opening = w
  BY <1>1 DEF WinInv, WinOpening
<1>6. asked = {}
  BY <1>4, <1>5 DEF WinInv, WinOpening
<1>7. dev[w].frame = 0 /\ ~dev[w].hosted
  BY <1>1 DEF WinInv, WinHeld
<1>8. e \in WinDevices /\ e.at = "open" /\ e.frame = 0 /\ ~e.hosted /\ ~e.pending
  BY <1>1, <1>2, <1>7 DEF WinDevices, WinLive
<1>9. ~WinValid(w)
  BY <1>7 DEF WinValid
<1> HIDE DEF e
<1> QED BY <1>1, <1>2, <1>4, <1>5, <1>6, <1>7, <1>8, <1>9, WinAlone

LEMMA WinFramesMove ==
  ASSUME WinInv,
         \/ \E w \in Windows : Win!Appears(w)
         \/ \E f \in Frames : Win!Content(f) \/ Win!Closes(f)
  PROVE  WinInv'
<1>1. WinTyped /\ 0 \notin Windows
  BY WinTypes DEF WinInv
<1>2. ASSUME NEW w \in Windows, Win!Appears(w) PROVE WinInv'
  <2>1. PICK f \in Frames : \E content \in BOOLEAN :
          frame[f].of = 0 /\ frame' = [frame EXCEPT ![f] = [Win!NoFrame EXCEPT !.of = w, !.content = content,
                                                                                           !.shown = TRUE]]
    BY <1>2 DEF Win!Appears
  <2>2. PICK content \in BOOLEAN :
          frame[f].of = 0 /\ frame' = [frame EXCEPT ![f] = [Win!NoFrame EXCEPT !.of = w, !.content = content,
                                                                                           !.shown = TRUE]]
    BY <2>1
  <2> DEFINE g == [Win!NoFrame EXCEPT !.of = w, !.content = content, !.shown = TRUE]
  <2>3. w \in asked /\ asked' = asked \ {w} /\ opening' = opening /\ dev' = dev /\ late' = late
    BY <1>2 DEF Win!Appears, Win!Quiet
  <2>4. w = opening
    BY <2>3 DEF WinInv, WinOpening
  <2>5. g \in WinFrames /\ g.of = w /\ g.by = 0 /\ ~g.child
    BY DEF WinFrames, Win!NoFrame
  <2>6. frame' = [frame EXCEPT ![f] = g]
    BY <2>2
  <2> HIDE DEF g
  <2> QED BY <2>2, <2>3, <2>4, <2>5, <2>6, WinMoves
<1>3. ASSUME NEW f \in Frames, Win!Content(f) PROVE WinInv'
  <2> DEFINE g == [frame[f] EXCEPT !.content = TRUE]
  <2>1. frame' = [frame EXCEPT ![f] = g] /\ UNCHANGED <<opening, dev, asked, late>>
    BY <1>3 DEF Win!Content, Win!Quiet
  <2>2. g \in WinFrames /\ g.of = frame[f].of /\ g.by = frame[f].by /\ g.child = frame[f].child /\ g.shown = frame[f].shown
    BY <1>1, WinTypes DEF WinFrames
  <2> HIDE DEF g
  <2> QED BY <2>1, <2>2, WinMoves
<1>4. ASSUME NEW f \in Frames, Win!Closes(f) PROVE WinInv'
  <2>1. frame' = [frame EXCEPT ![f] = Win!NoFrame] /\ UNCHANGED <<opening, dev, asked, late>>
    BY <1>4 DEF Win!Closes, Win!Quiet
  <2>2. Win!NoFrame \in WinFrames /\ Win!NoFrame.of = 0 /\ Win!NoFrame.by = 0
        /\ ~Win!NoFrame.child
    BY DEF Win!NoFrame, WinFrames
  <2> QED BY <2>1, <2>2, WinMoves
<1> QED BY <1>2, <1>3, <1>4

\* The window, or the page, has gone: what was inside goes too.
LEMMA WinBreaks ==
  ASSUME WinInv, NEW w \in Windows, Win!Break(w) PROVE WinInv'
<1>1. WinTyped /\ 0 \notin Windows /\ WinLive(w) /\ opening' = opening /\ asked' = asked /\ late' = late
  BY WinDefs, WinTypes DEF WinInv, Win!Break, Win!Quiet
<1> DEFINE e == [dev[w] EXCEPT !.at = "broken"]
<1>2. dev[w] \in WinDevices
  BY <1>1, WinTypes
<1>3. e \in WinDevices /\ e.at = "broken" /\ e.frame = dev[w].frame
  BY <1>2 DEF WinDevices
<1>4. dev' = [dev EXCEPT ![w] = e]
  BY <1>1 DEF Win!Break, WinTyped
<1> HIDE DEF e
<1>5. dev'[w] = e /\ \A v \in Windows : v # w => dev'[v] = dev[v]
  BY <1>1, <1>4 DEF WinTyped
<1>6. frame' = [f \in Frames |-> IF frame[f].child /\ frame[f].by = w THEN Win!NoFrame ELSE frame[f]]
  BY DEF Win!Break
<1>7. Win!NoFrame \in WinFrames /\ Win!NoFrame.of = 0 /\ Win!NoFrame.by = 0
      /\ ~Win!NoFrame.child
  BY DEF Win!NoFrame, WinFrames
<1>8. ASSUME NEW f \in Frames
      PROVE  /\ frame'[f] \in WinFrames
             /\ frame'[f] = frame[f] \/ (frame'[f].of = 0 /\ frame'[f].by = 0 /\ ~frame'[f].child)
             /\ frame'[f].child => frame[f].by # w
  BY <1>1, <1>6, <1>7, WinTypes
<1>9. WinTyped'
  <2>1. frame' \in [Frames -> WinFrames]
    BY <1>6, <1>8
  <2>2. dev' \in [Windows -> WinDevices]
    BY <1>1, <1>3, <1>4 DEF WinTyped
  <2> QED BY <1>1, <2>1, <2>2 DEF WinTyped
<1>10. WinOpening'
  <2>1. opening' # 0 => dev'[opening'].at # "gone"
    BY <1>1, <1>3, <1>5 DEF WinInv, WinOpening, WinTyped
  <2>2. \A v \in asked' : \A f \in Frames : frame'[f].of # v
    BY <1>1, <1>8 DEF WinInv, WinOpening, WinTyped
  <2>3. \A v \in Windows : WinLive(v)' => (dev'[v].pending <=> opening' = v)
    BY <1>1, <1>3, <1>5 DEF WinInv, WinOpening, WinLive
  <2> QED BY <1>1, <2>1, <2>2, <2>3 DEF WinInv, WinOpening
<1>11. WinAwaits'
  <2>1. ASSUME NEW v \in Windows, opening = v, WinLive(v)', NEW f \in Frames, frame'[f].of # 0, frame'[f].by = 0,
               f \notin dev'[v].before
        PROVE  frame'[f].of = v
    <3>1. v # w /\ dev'[v] = dev[v] /\ frame'[f] = frame[f]
      BY <1>3, <1>5, <1>8, <2>1 DEF WinLive
    <3> QED BY <2>1, <3>1 DEF WinInv, WinAwaits, WinLive
  <2> QED BY <1>1, <2>1 DEF WinAwaits
<1>12. WinClaimed'
  <2>1. ASSUME NEW f \in Frames, frame'[f].by # 0
        PROVE  frame'[f].of = frame'[f].by /\ dev'[frame'[f].by].frame = f /\ dev'[frame'[f].by].at # "gone"
    <3>1. frame'[f] = frame[f] /\ frame[f].by \in Windows
      BY <1>1, <1>8, <2>1, WinTypes DEF WinFrames
    <3>2. frame[f].of = frame[f].by /\ dev[frame[f].by].frame = f /\ dev[frame[f].by].at # "gone"
      BY <2>1, <3>1 DEF WinInv, WinClaimed
    <3> QED BY <1>3, <1>5, <3>1, <3>2
  <2> QED BY <2>1 DEF WinClaimed
<1>13. WinHeld'
  BY <1>3, <1>5 DEF WinInv, WinHeld, WinLive
<1>14. WinPanels'
  <2>1. ASSUME NEW f \in Frames, frame'[f].child PROVE frame'[f].by # 0 /\ dev'[frame'[f].by].at = "open"
    <3>1. frame'[f] = frame[f] /\ frame[f].by # w
      BY <1>8, <2>1
    <3>2. frame[f].by # 0 /\ WinLive(frame[f].by) /\ frame[f].by \in Windows
      BY <1>1, <2>1, <3>1, WinTypes DEF WinFrames, WinInv, WinPanels
    <3> QED BY <1>5, <3>1, <3>2 DEF WinLive
  <2>2. ASSUME NEW v \in Windows, WinLive(v)', WinValid(v)' PROVE WinPlaced(dev'[v], frame'[dev'[v].frame])
    <3>1. v # w /\ dev'[v] = dev[v]
      BY <1>3, <1>5, <2>2 DEF WinLive
    <3>2. dev[v].frame \in Frames /\ frame'[dev[v].frame].by = v /\ v # 0
      BY <1>1, <2>2, <3>1, WinTypes DEF WinValid, WinDevices
    <3>3. frame'[dev[v].frame] = frame[dev[v].frame]
      BY <1>8, <3>2
    <3> QED BY <2>2, <3>1, <3>3 DEF WinInv, WinPanels, WinLive, WinValid
  <2> QED BY <2>1, <2>2 DEF WinPanels, WinLive
<1> QED BY <1>9, <1>10, <1>11, <1>12, <1>13, <1>14 DEF WinInv

LEMMA WinCloses ==
  ASSUME WinInv, NEW w \in Windows, Win!Close(w) PROVE WinInv'
<1>1. /\ WinTyped /\ 0 \notin Windows /\ opening' = (IF opening = w THEN 0 ELSE opening) /\ asked' = asked \ {w}
      /\ late' = late
  BY WinTypes DEF WinInv, Win!Close, Win!OpeningAfter, Win!Quiet
<1> DEFINE e == [Win!Fresh(FALSE) EXCEPT !.at = "gone"]
<1>2. e \in WinDevices /\ e.at = "gone"
  BY DEF WinDevices, Win!Fresh
<1>3. dev' = [dev EXCEPT ![w] = e]
  BY DEF Win!Close
<1> HIDE DEF e
<1>4. dev'[w] = e /\ \A v \in Windows : v # w => dev'[v] = dev[v]
  BY <1>1, <1>3 DEF WinTyped
<1>5. \A f \in Frames : frame[f].by = w => frame[f].of = w
  BY <1>1 DEF WinInv, WinClaimed
<1>6. frame' = [f \in Frames |-> IF frame[f].of = w THEN Win!NoFrame ELSE frame[f]]
  BY <1>5 DEF Win!Close
<1>7. Win!NoFrame \in WinFrames /\ Win!NoFrame.of = 0 /\ Win!NoFrame.by = 0
      /\ ~Win!NoFrame.child
  BY DEF Win!NoFrame, WinFrames
<1>8. ASSUME NEW f \in Frames
      PROVE  /\ frame'[f] \in WinFrames /\ frame'[f].by # w
             /\ frame'[f] = frame[f] \/ (frame'[f].of = 0 /\ frame'[f].by = 0 /\ ~frame'[f].child)
  BY <1>1, <1>5, <1>6, <1>7, WinTypes
<1>9. WinTyped'
  <2>1. frame' \in [Frames -> WinFrames]
    BY <1>6, <1>8
  <2>2. dev' \in [Windows -> WinDevices]
    BY <1>1, <1>2, <1>3 DEF WinTyped
  <2> QED BY <1>1, <2>1, <2>2 DEF WinTyped
<1>10. WinOpening'
  <2>1. opening' # 0 => dev'[opening'].at # "gone"
    BY <1>1, <1>4 DEF WinInv, WinOpening, WinTyped
  <2>2. \A v \in asked' : \A f \in Frames : frame'[f].of # v
    BY <1>1, <1>8 DEF WinInv, WinOpening, WinTyped
  <2>3. \A v \in Windows : WinLive(v)' => (dev'[v].pending <=> opening' = v)
    BY <1>1, <1>2, <1>4 DEF WinInv, WinOpening, WinLive
  <2>4. asked' \subseteq {opening'}
    BY <1>1 DEF WinInv, WinOpening
  <2> QED BY <2>1, <2>2, <2>3, <2>4 DEF WinOpening
<1>11. WinAwaits'
  <2>1. ASSUME NEW v \in Windows, opening' = v, WinLive(v)', NEW f \in Frames, frame'[f].of # 0, frame'[f].by = 0,
               f \notin dev'[v].before
        PROVE  frame'[f].of = v
    <3>1. v # w /\ dev'[v] = dev[v] /\ frame'[f] = frame[f] /\ opening = v
      BY <1>1, <1>2, <1>4, <1>8, <2>1 DEF WinLive
    <3> QED BY <2>1, <3>1 DEF WinInv, WinAwaits, WinLive
  <2> QED BY <2>1 DEF WinAwaits
<1>12. WinClaimed'
  <2>1. ASSUME NEW f \in Frames, frame'[f].by # 0
        PROVE  frame'[f].of = frame'[f].by /\ dev'[frame'[f].by].frame = f /\ dev'[frame'[f].by].at # "gone"
    <3>1. frame'[f] = frame[f] /\ frame[f].by \in Windows /\ frame[f].by # w
      BY <1>1, <1>8, <2>1, WinTypes DEF WinFrames
    <3>2. frame[f].of = frame[f].by /\ dev[frame[f].by].frame = f /\ dev[frame[f].by].at # "gone"
      BY <2>1, <3>1 DEF WinInv, WinClaimed
    <3> QED BY <1>4, <3>1, <3>2
  <2> QED BY <2>1 DEF WinClaimed
<1>13. WinHeld'
  BY <1>2, <1>4 DEF WinInv, WinHeld, WinLive
<1>14. WinPanels'
  <2>1. ASSUME NEW f \in Frames, frame'[f].child PROVE frame'[f].by # 0 /\ dev'[frame'[f].by].at = "open"
    <3>1. frame'[f] = frame[f] /\ frame[f].by # w
      BY <1>8, <2>1
    <3>2. frame[f].by # 0 /\ WinLive(frame[f].by) /\ frame[f].by \in Windows
      BY <1>1, <2>1, <3>1, WinTypes DEF WinFrames, WinInv, WinPanels
    <3> QED BY <1>4, <3>1, <3>2 DEF WinLive
  <2>2. ASSUME NEW v \in Windows, WinLive(v)', WinValid(v)' PROVE WinPlaced(dev'[v], frame'[dev'[v].frame])
    <3>1. v # w /\ dev'[v] = dev[v]
      BY <1>2, <1>4, <2>2 DEF WinLive
    <3>2. dev[v].frame \in Frames /\ frame'[dev[v].frame].by = v /\ v # 0
      BY <1>1, <2>2, <3>1, WinTypes DEF WinValid, WinDevices
    <3>3. frame'[dev[v].frame] = frame[dev[v].frame]
      BY <1>8, <3>2
    <3> QED BY <2>2, <3>1, <3>3 DEF WinInv, WinPanels, WinLive, WinValid
  <2> QED BY <2>1, <2>2 DEF WinPanels, WinLive
<1> QED BY <1>9, <1>10, <1>11, <1>12, <1>13, <1>14 DEF WinInv

\* The keys post no more toggles than they are pressed.
LEMMA WinKeysStep == ASSUME WinKeys, Win!Next PROVE WinKeys'
<1>1. CASE Win!Quiet
  BY <1>1 DEF Win!Quiet, WinKeys
<1>2. CASE \E w \in Windows : Win!Toggle(w)
  BY <1>2 DEF Win!Toggle, WinKeys
<1>3. CASE \E w \in Windows : Win!TickExpires(w)
  BY <1>3 DEF Win!TickExpires, WinKeys
<1>4. CASE \E combo \in BOOLEAN : Win!KeyDown(combo)
  <2>1. PICK combo \in BOOLEAN : Win!KeyDown(combo)
    BY <1>4
  <2> DEFINE post == combo /\ ~key.consumed /\ ~key.down
  <2>2. /\ key' = [down |-> TRUE, consumed |-> key.consumed \/ combo]
        /\ posted' = posted + (IF post THEN 1 ELSE 0)
        /\ toggles' = [posted |-> toggles.posted + (IF post THEN 1 ELSE 0),
                       presses |-> toggles.presses + (IF key.down THEN 0 ELSE 1)]
    BY <2>1 DEF Win!KeyDown
  <2>3. key' \in [down : BOOLEAN, consumed : BOOLEAN]
    BY <2>2
  <2>4. posted' \in Nat /\ toggles' \in [posted : Nat, presses : Nat] /\ toggles'.posted <= toggles'.presses
    BY <2>2 DEF WinKeys
  <2> QED BY <2>3, <2>4 DEF WinKeys
<1>5. CASE Win!KeyUp
  BY <1>5 DEF Win!KeyUp, WinKeys
<1> QED
  BY <1>1, <1>2, <1>3, <1>4, <1>5
  DEF Win!Next, Win!TickValid, Win!TickLost, Win!TickOpens,
      Win!TickClaims, Win!Appears, Win!Break, Win!Close,
      Win!Content, Win!Closes

LEMMA WinUnchanged == ASSUME WinInv, UNCHANGED <<opening, dev, frame, asked, late>> PROVE WinInv'
BY DEF WinInv, WinTyped, WinOpening, WinAwaits, WinClaimed, WinHeld, WinPanels, WinPlaced, WinLive, WinValid

LEMMA WinStep == ASSUME WinInv, Win!Next PROVE WinInv'
<1>1. ASSUME NEW w \in Windows, Win!Toggle(w) PROVE WinInv'
  BY <1>1, WinOpens, WinHides DEF Win!Toggle
<1>2. ASSUME NEW w \in Windows, Win!Quiet /\ (Win!Open(w) \/ Win!Hide(w) \/ Win!Mode(w))
      PROVE  WinInv'
  BY <1>2, WinOpens, WinHides, WinModes DEF Win!Quiet
<1>3. CASE (\E combo \in BOOLEAN : Win!KeyDown(combo)) \/ Win!KeyUp
  BY <1>3, WinUnchanged DEF Win!KeyDown, Win!KeyUp
<1> QED
  BY <1>1, <1>2, <1>3, WinLooks, WinLoses, WinAsks, WinClaims, WinExpires, WinFramesMove, WinBreaks, WinCloses
  DEF Win!Next

WinWhole == WinInv /\ WinKeys
LEMMA WinSteps == ASSUME WinWhole, Win!Next \/ UNCHANGED winVars PROVE WinWhole'
<1>1. CASE UNCHANGED winVars
  BY <1>1, WinUnchanged DEF winVars, WinKeys, WinWhole
<1> QED BY <1>1, WinStep, WinKeysStep DEF WinWhole

LEMMA WinSuffices == ASSUME WinWhole PROVE Win!TypeOK /\ Win!InspectorKept
<1>1. WinTyped /\ 0 \notin Windows /\ WinInv /\ WinKeys
  BY WinTypes DEF WinWhole, WinInv
<1>2. Win!TypeOK
  BY <1>1, WinTypes DEF Win!TypeOK, WinTyped, WinDevices, WinFrames
<1>3. \A w \in Windows : Win!Live(w) => (dev[w].pending <=> opening = w)
  BY <1>1, WinDefs DEF WinInv, WinOpening
<1>4. \A w \in Windows : Win!Valid(w) => frame[dev[w].frame].of = w
  <2>1. ASSUME NEW w \in Windows, WinValid(w) PROVE frame[dev[w].frame].of = w
    <3>1. dev[w].frame \in Frames
      BY <1>1, <2>1, WinTypes DEF WinValid, WinDevices
    <3> QED BY <1>1, <2>1, <3>1 DEF WinInv, WinClaimed, WinValid
  <2> QED BY <2>1, WinDefs
<1>5. \A w \in Windows : Win!Live(w) /\ Win!Valid(w) => WinPlaced(dev[w], frame[dev[w].frame])
  BY <1>1, WinDefs DEF WinInv, WinPanels
<1>6. \A f \in Frames : frame[f].child => frame[f].by # 0 /\ Win!Live(frame[f].by)
  BY <1>1 DEF WinInv, WinPanels, WinLive, Win!Live
<1>7. (opening # 0 => dev[opening].at # "gone") /\ toggles.posted <= toggles.presses
  BY <1>1 DEF WinInv, WinOpening, WinKeys
<1> QED BY <1>2, <1>3, <1>4, <1>5, <1>6, <1>7 DEF Win!InspectorKept, WinPlaced

LEMMA GtkSuffices == ASSUME GtkInv PROVE Gtk!TypeOK /\ Gtk!InspectorKept
BY DEF GtkInv, GtkTyped, Gtk!TypeOK

LEMMA MacSuffices == ASSUME MacInv PROVE Mac!TypeOK /\ Mac!InspectorKept
<1>1. Mac!TypeOK
  BY DEF MacInv, MacTyped, MacFields, Mac!TypeOK
<1>2. Mac!InspectorKept
  BY DEF MacInv, MacPlaced, Mac!InspectorKept, Mac!Shown
<1> QED BY <1>1, <1>2

\* An inspector of each back end: on Windows a page gets its own frame and no other, on Linux WebKit's request is
\* answered once, on macOS a view beside the page is one that is still known; and each is where the user wants it.
THEOREM InspectorsAreKept == PartSpec => []InspectorKept
<1> DEFINE All == /\ part = "winspector" => WinWhole
                  /\ part = "gtkinspector" => GtkInv
                  /\ part = "macinspector" => MacInv
<1>1. PartInit => All
  BY WinStart, GtkStart, MacStart DEF PartInit, WinWhole
<1>2. All /\ [PartNext]_partVars => All'
  BY PartsStep, WinSteps, GtkSteps, MacSteps
<1>3. All => InspectorKept
  BY WinSuffices, GtkSuffices, MacSuffices DEF InspectorKept
<1> QED BY <1>1, <1>2, <1>3, PTL DEF PartSpec
-----------------------------------------------------------------------------
(* The redrawing of Dockers: a bracket that was held back inside one that   *)
(* was not leaves the Docker to the outer one.                              *)

DrawsTyped(hs, most) ==
  /\ above \in [Windows -> SUBSET hs] /\ parents \in [Windows -> SUBSET hs]
  /\ children \in [hs -> SUBSET Windows] /\ suppressed \in [hs -> BOOLEAN] /\ draws \in [hs -> BOOLEAN]
  /\ depth \in [hs -> 0 .. most]
DrawsOpen(h) ==
  /\ depth[h] = 0 => draws[h] /\ ~suppressed[h]
  /\ suppressed[h] /\ ~draws[h] => depth[h] > 1
DrawsInv(hs, most) ==
  /\ DrawsTyped(hs, most)
  /\ \A h \in hs : DrawsOpen(h)
  /\ \A h \in hs : \A c \in children[h] : h \in parents[c]

LEMMA DrawsStart == ASSUME NEW hs, NEW most \in Nat, Draws(hs, most)!Init PROVE DrawsInv(hs, most)
BY DEF Draws!Init, DrawsInv, DrawsTyped, DrawsOpen

\* A record that goes takes its mark with it.
LEMMA DrawsLeave ==
  ASSUME NEW hs, NEW most \in Nat, DrawsInv(hs, most), DrawsTyped(hs, most)', UNCHANGED <<depth, draws>>,
         \A h \in hs : suppressed'[h] => suppressed[h]
  PROVE  \A h \in hs : DrawsOpen(h)'
BY DEF DrawsInv, DrawsTyped, DrawsOpen

LEMMA DrawsSync ==
  ASSUME NEW hs, NEW most \in Nat, DrawsInv(hs, most), NEW c \in Windows, Draws(hs, most)!Sync(c)
  PROVE  DrawsInv(hs, most)'
<1>1. /\ parents' = [parents EXCEPT ![c] = above[c]] /\ UNCHANGED <<above, shown, depth, draws>>
      /\ suppressed' = [h \in hs |-> suppressed[h] /\ children'[h] # {}]
  BY DEF Draws!Sync
<1>2. PICK refused \in SUBSET hs :
        children' = [h \in hs |-> IF h \in above[c] \ refused THEN children[h] \union {c} ELSE children[h] \ {c}]
  BY DEF Draws!Sync, DrawsInv, DrawsTyped
<1>3. DrawsTyped(hs, most)'
  BY <1>1, <1>2 DEF DrawsInv, DrawsTyped
<1>4. \A h \in hs : DrawsOpen(h)'
  BY <1>1, <1>3, DrawsLeave
<1>5. \A h \in hs : \A d \in children'[h] : h \in parents'[d]
  BY <1>1, <1>2 DEF DrawsInv, DrawsTyped
<1> QED BY <1>3, <1>4, <1>5 DEF DrawsInv

LEMMA DrawsDetach ==
  ASSUME NEW hs, NEW most \in Nat, DrawsInv(hs, most), NEW c \in Windows, Draws(hs, most)!Detach(c)
  PROVE  DrawsInv(hs, most)'
<1>1. /\ parents' = [parents EXCEPT ![c] = {}] /\ above' = [above EXCEPT ![c] = {}] /\ UNCHANGED <<depth, draws>>
      /\ children' = [h \in hs |-> IF h \in parents[c] THEN children[h] \ {c} ELSE children[h]]
      /\ suppressed' = [h \in hs |-> suppressed[h] /\ ~(h \in parents[c] /\ children[h] \ {c} = {})]
  BY DEF Draws!Detach, Draws!Left
<1>2. DrawsTyped(hs, most)'
  BY <1>1 DEF DrawsInv, DrawsTyped
<1>3. \A h \in hs : DrawsOpen(h)'
  BY <1>1, <1>2, DrawsLeave
<1>4. \A h \in hs : \A d \in children'[h] : h \in parents'[d]
  BY <1>1 DEF DrawsInv, DrawsTyped
<1> QED BY <1>2, <1>3, <1>4 DEF DrawsInv

LEMMA DrawsStop ==
  ASSUME NEW hs, NEW most \in Nat, DrawsInv(hs, most), NEW h \in hs, Draws(hs, most)!Stop(h)
  PROVE  DrawsInv(hs, most)'
<1>1. depth[h] < most /\ depth' = [depth EXCEPT ![h] = depth[h] + 1] /\ UNCHANGED <<above, parents, children>>
  BY DEF Draws!Stop
<1>2. \/ suppressed' = [suppressed EXCEPT ![h] = TRUE] /\ draws' = draws
      \/ ~suppressed[h] /\ draws' = [draws EXCEPT ![h] = FALSE] /\ suppressed' = suppressed
  BY DEF Draws!Stop, Draws!HoldsBack
<1>3. depth[h] \in Nat /\ depth[h] + 1 \in 0 .. most
  BY <1>1 DEF DrawsInv, DrawsTyped
<1>4. DrawsTyped(hs, most)'
  BY <1>1, <1>2, <1>3 DEF DrawsInv, DrawsTyped
<1>5. DrawsOpen(h)'
  BY <1>1, <1>2, <1>3 DEF DrawsInv, DrawsTyped, DrawsOpen
<1>6. \A g \in hs \ {h} : DrawsOpen(g)'
  BY <1>1, <1>2 DEF DrawsInv, DrawsTyped, DrawsOpen
<1> QED BY <1>1, <1>4, <1>5, <1>6 DEF DrawsInv

LEMMA DrawsResume ==
  ASSUME NEW hs, NEW most \in Nat, DrawsInv(hs, most), NEW h \in hs, Draws(hs, most)!Resume(h)
  PROVE  DrawsInv(hs, most)'
<1>1. depth[h] > 0 /\ depth' = [depth EXCEPT ![h] = depth[h] - 1] /\ UNCHANGED <<above, parents, children>>
      /\ suppressed' = [suppressed EXCEPT ![h] = FALSE]
  BY DEF Draws!Resume, Draws!MarkAfter
<1>2. draws' = IF suppressed[h] THEN draws ELSE [draws EXCEPT ![h] = TRUE]
  BY DEF Draws!Resume
<1>3. depth[h] \in 0 .. most /\ depth[h] - 1 \in 0 .. most
  BY <1>1 DEF DrawsInv, DrawsTyped
<1>4. DrawsTyped(hs, most)'
  BY <1>1, <1>2, <1>3 DEF DrawsInv, DrawsTyped
<1>5. DrawsOpen(h)'
  BY <1>1, <1>2, <1>3 DEF DrawsInv, DrawsTyped, DrawsOpen
<1>6. \A g \in hs \ {h} : DrawsOpen(g)'
  BY <1>1, <1>2 DEF DrawsInv, DrawsTyped, DrawsOpen
<1> QED BY <1>1, <1>4, <1>5, <1>6 DEF DrawsInv

LEMMA DrawsSteps ==
  ASSUME NEW hs, NEW most \in Nat, DrawsInv(hs, most), Draws(hs, most)!Next \/ UNCHANGED drawVars
  PROVE  DrawsInv(hs, most)'
<1>1. CASE UNCHANGED drawVars
  BY <1>1 DEF drawVars, DrawsInv, DrawsTyped, DrawsOpen
<1>2. ASSUME NEW c \in Windows, Draws(hs, most)!Moves(c) \/ Draws(hs, most)!Tab(c) PROVE DrawsInv(hs, most)'
  <2>1. above' \in [Windows -> SUBSET hs] /\ UNCHANGED <<parents, children, suppressed, depth, draws>>
    BY <1>2 DEF Draws!Moves, Draws!Tab, DrawsInv, DrawsTyped
  <2> QED BY <2>1 DEF DrawsInv, DrawsTyped, DrawsOpen
<1> QED BY <1>1, <1>2, DrawsSync, DrawsDetach, DrawsStop, DrawsResume DEF Draws!Next

LEMMA DrawsSuffices ==
  ASSUME NEW hs, NEW most \in Nat, DrawsInv(hs, most)
  PROVE  Draws(hs, most)!TypeOK /\ Draws(hs, most)!DrawsAgain
<1>1. Draws(hs, most)!TypeOK
  BY DEF DrawsInv, DrawsTyped, Draws!TypeOK
<1>2. Draws(hs, most)!DrawsAgain
  BY DEF DrawsInv, DrawsOpen, Draws!DrawsAgain
<1> QED BY <1>1, <1>2

-----------------------------------------------------------------------------
(* The views of the Windows back end: a window that awaits its first frame  *)
(* is covered, or inside an FX window and not shown; one that does not was  *)
(* captured or shown explicitly.                                            *)

ViewStartups ==
  [pending : BOOLEAN, wanted : BOOLEAN, ready : BOOLEAN, cancelled : BOOLEAN, explicit : BOOLEAN, gen : 0 .. MaxNavigations]
ViewPages == {"none", "creating", "script", "navigating", "loading", "asked"}
ViewWindows ==
  [at : {"none", "open", "gone"}, closed : BOOLEAN, startup : ViewStartups, page : ViewPages,
   capture : SUBSET (0 .. MaxNavigations), requested : SUBSET (0 .. MaxNavigations),
   cloaked : BOOLEAN, region : BOOLEAN, shown : BOOLEAN, child : BOOLEAN, seen : BOOLEAN, asked : BOOLEAN]
ViewAlive(x) == x.at = "open" /\ ~x.closed
ViewWaits(x) == ViewAlive(x) /\ x.page = "none" /\ ~x.startup.cancelled
\* How a window is covered.
ViewCovered(x, hosted) ==
  /\ ~(x.cloaked /\ x.region)
  /\ x.startup.pending => IF hosted THEN ~x.cloaked /\ (x.region \/ ~x.shown) ELSE x.cloaked \/ x.region
  /\ ~x.startup.pending => ~x.cloaked /\ ~x.region /\ (x.seen \/ x.asked)
\* What is known of its frame.
ViewFramed(x) == (x.startup.ready => x.seen) /\ (x.startup.explicit => x.asked)
\* The page has asked for the capture of its document.
ViewAsked(x) ==
  x.page = "asked" => /\ x.requested = {x.startup.gen}
                      /\ x.startup.pending => x.capture # {} \/ x.startup.ready
ViewOk(x, hosted) ==
  /\ x \in ViewWindows /\ ViewFramed(x)
  /\ ViewAlive(x) => ViewCovered(x, hosted) /\ ViewAsked(x)
ViewsTyped(ws) ==
  /\ env \in {"busy", "ready", "failed"} /\ tries \in 1 .. MaxAttempts /\ waiting \subseteq ws
  /\ pool \in Seq({"preparing", "ready", "failed"}) /\ target \in Nat /\ Len(pool) <= target /\ blanks \in 0 .. MaxViews
ViewsInv(ws, fx) ==
  /\ ViewsTyped(ws) /\ win \in [ws -> ViewWindows]
  /\ \A w \in ws : ViewOk(win[w], w \in fx)
  /\ \A w \in ws : ViewWaits(win[w]) => env = "busy" /\ w \in waiting

LEMMA ViewsDefs ==
  ASSUME NEW ws, NEW fx, NEW x
  PROVE  Views(ws, fx)!Alive(x) <=> ViewAlive(x)
BY DEF Views!Alive, ViewAlive

LEMMA ViewsEmpty ==
  ASSUME NEW ws, NEW fx, NEW at \in {"none", "gone"}, NEW hosted \in BOOLEAN
  PROVE  LET x == [Views(ws, fx)!NoWindow EXCEPT !.at = at]
         IN ViewOk(x, hosted) /\ ~ViewAlive(x)
<1> DEFINE n == Views(ws, fx)!NoWindow
           x == [n EXCEPT !.at = at]
<1>1. n \in ViewWindows /\ ~n.startup.ready /\ ~n.startup.explicit
  BY ViewsAssumption DEF Views!NoWindow, Views!NewStartup, ViewWindows, ViewPages, ViewStartups
<1>2. x \in ViewWindows /\ x.startup = n.startup /\ x.at = at
  <2> HIDE DEF n
  <2> QED BY <1>1 DEF ViewWindows
<1> HIDE DEF x, n
<1>3. ViewFramed(x) /\ ~ViewAlive(x)
  BY <1>1, <1>2 DEF ViewFramed, ViewAlive
<1>4. ViewOk(x, hosted) /\ ~ViewAlive(x)
  BY <1>2, <1>3 DEF ViewOk
<1> QED BY <1>4 DEF x, n

\* A turn of the first frame.
LEMMA ViewsUncover ==
  ASSUME NEW ws, NEW fx, NEW hosted \in BOOLEAN, NEW x, ViewOk(x, hosted), ViewAlive(x)
  PROVE  ViewOk(Views(ws, fx)!Uncovered(x, hosted), hosted)
         /\ (~ViewWaits(x) => ~ViewWaits(Views(ws, fx)!Uncovered(x, hosted)))
<1> DEFINE y == Views(ws, fx)!Uncovered(x, hosted)
<1>1. CASE y = x
  BY <1>1
<1>2. CASE y # x
  <2>1. x.startup.pending /\ (x.startup.ready \/ x.startup.explicit)
    BY <1>2 DEF Views!Uncovered, Views!Presents
  <2>2. y = [x EXCEPT !.startup.pending = FALSE, !.shown = TRUE, !.region = FALSE,
              !.cloaked = IF x.region \/ hosted THEN x.cloaked ELSE FALSE]
    BY <1>2 DEF Views!Uncovered
  <2> DEFINE t == [x.startup EXCEPT !.pending = FALSE]
             c == IF x.region \/ hosted THEN x.cloaked ELSE FALSE
  <2>5. x \in ViewWindows /\ t \in ViewStartups /\ c \in BOOLEAN
    BY DEF ViewOk, ViewWindows, ViewStartups
  <2>6. y = [x EXCEPT !.startup = t, !.shown = TRUE, !.region = FALSE, !.cloaked = c]
    BY <2>2
  <2>3. y \in ViewWindows
    <3> HIDE DEF t, c, y
    <3> QED BY <2>5, <2>6 DEF ViewWindows
  <2>4. y.startup = [x.startup EXCEPT !.pending = FALSE] /\ ~y.region /\ ~y.cloaked /\ y.seen = x.seen /\ y.asked = x.asked
        /\ y.page = x.page /\ y.requested = x.requested /\ y.closed = x.closed /\ y.at = x.at
    BY <2>1, <2>2 DEF ViewOk, ViewWindows, ViewStartups, ViewCovered
  <2>7. ~y.startup.pending /\ y.startup.ready = x.startup.ready /\ y.startup.explicit = x.startup.explicit
        /\ y.startup.gen = x.startup.gen /\ y.startup.cancelled = x.startup.cancelled
    BY <2>4, <2>5 DEF ViewWindows, ViewStartups
  <2> HIDE DEF y
  <2>8. ViewFramed(y)
    BY <2>4, <2>7 DEF ViewOk, ViewFramed
  <2>9. ViewCovered(y, hosted)
    BY <2>1, <2>4, <2>7, <2>8 DEF ViewFramed, ViewCovered
  <2>10. ViewAsked(y)
    BY <2>4, <2>7 DEF ViewOk, ViewAsked
  <2>11. ~ViewWaits(x) => ~ViewWaits(y)
    BY <2>4, <2>7 DEF ViewWaits, ViewAlive
  <2>12. ViewOk(y, hosted)
    BY <2>3, <2>8, <2>9, <2>10 DEF ViewOk
  <2> QED BY <2>11, <2>12 DEF y
<1> QED BY <1>1, <1>2

LEMMA ViewsSet ==
  ASSUME NEW ws, NEW fx, ViewsInv(ws, fx), NEW w \in ws, NEW x, ViewOk(x, w \in fx), ViewWaits(x) => ViewWaits(win[w]),
         win' = [win EXCEPT ![w] = x], UNCHANGED <<env, tries, waiting, pool, target, blanks>>
  PROVE  ViewsInv(ws, fx)'
<1>1. ViewsTyped(ws)'
  BY DEF ViewsInv, ViewsTyped
<1>2. x \in ViewWindows
  BY DEF ViewOk
<1>3. win' \in [ws -> ViewWindows] /\ win'[w] = x /\ \A v \in ws \ {w} : win'[v] = win[v]
  BY <1>2 DEF ViewsInv
<1>4. \A v \in ws : ViewOk(win'[v], v \in fx)
  BY <1>3 DEF ViewsInv
<1>5. \A v \in ws : ViewWaits(win'[v]) => env' = "busy" /\ v \in waiting'
  BY <1>3 DEF ViewsInv
<1> QED BY <1>1, <1>3, <1>4, <1>5 DEF ViewsInv

LEMMA ViewsFail ==
  ASSUME NEW ws, NEW fx, NEW hosted, NEW x \in ViewWindows, ViewFramed(x)
  PROVE  ViewOk(Views(ws, fx)!Failed(x), hosted) /\ ~ViewAlive(Views(ws, fx)!Failed(x))
<1> DEFINE y == Views(ws, fx)!Failed(x)
<1>1. y \in ViewWindows /\ y.closed /\ y.startup = x.startup /\ y.seen = x.seen /\ y.asked = x.asked
  BY DEF Views!Failed, ViewWindows
<1> HIDE DEF y
<1>2. ViewFramed(y) /\ ~ViewAlive(y)
  BY <1>1 DEF ViewFramed, ViewAlive
<1>3. ViewOk(y, hosted) /\ ~ViewAlive(y)
  BY <1>1, <1>2 DEF ViewOk
<1> QED BY <1>3 DEF y

\* A page that goes on before it asks to be shown.
LEMMA ViewsGoOn ==
  ASSUME NEW hosted, NEW x, ViewOk(x, hosted), NEW p \in ViewPages \ {"none", "asked"}
  PROVE  ViewOk([x EXCEPT !.page = p], hosted) /\ ~ViewWaits([x EXCEPT !.page = p])
<1> DEFINE y == [x EXCEPT !.page = p]
<1>1. x \in ViewWindows
  BY DEF ViewOk
<1>2. /\ y \in ViewWindows /\ y.startup = x.startup /\ y.seen = x.seen /\ y.asked = x.asked /\ y.page = p /\ y.at = x.at
      /\ y.closed = x.closed /\ y.cloaked = x.cloaked /\ y.region = x.region /\ y.shown = x.shown
  BY <1>1 DEF ViewWindows
<1> HIDE DEF y
<1>3. ViewFramed(y) /\ (ViewAlive(y) => ViewAlive(x)) /\ ~ViewWaits(y) /\ ViewAsked(y)
  BY <1>2 DEF ViewOk, ViewFramed, ViewAlive, ViewWaits, ViewAsked
<1>4. ViewCovered(x, hosted) => ViewCovered(y, hosted)
  BY <1>2 DEF ViewCovered
<1>5. ViewOk(y, hosted) /\ ~ViewWaits(y)
  BY <1>2, <1>3, <1>4 DEF ViewOk
<1> QED BY <1>5 DEF y

\* A capture begins, or fails at once, or is not needed.
LEMMA ViewsCapture ==
  ASSUME NEW ws, NEW fx, NEW hosted, NEW x \in ViewWindows, ViewFramed(x), ViewCovered(x, hosted),
         NEW y \in Views(ws, fx)!Capturing(x)
  PROVE  ViewOk(y, hosted) /\ (ViewWaits(y) => ViewWaits(x))
<1> DEFINE r == [x EXCEPT !.requested = {x.startup.gen}]
           c == [r EXCEPT !.capture = {x.startup.gen}]
<1>1. x.startup \in ViewStartups /\ x.startup.gen \in 0 .. MaxNavigations
  BY DEF ViewWindows, ViewStartups
<1>2. {x.startup.gen} \in SUBSET (0 .. MaxNavigations)
  BY <1>1
<1>3. /\ r \in ViewWindows /\ r.startup = x.startup /\ r.seen = x.seen /\ r.asked = x.asked /\ r.page = x.page /\ r.at = x.at
      /\ r.closed = x.closed /\ r.cloaked = x.cloaked /\ r.region = x.region /\ r.shown = x.shown
      /\ r.requested = {x.startup.gen} /\ r.capture = x.capture
  BY <1>2 DEF ViewWindows
<1> HIDE DEF r
<1>4. /\ c \in ViewWindows /\ c.startup = x.startup /\ c.seen = x.seen /\ c.asked = x.asked /\ c.page = x.page /\ c.at = x.at
      /\ c.closed = x.closed /\ c.cloaked = x.cloaked /\ c.region = x.region /\ c.shown = x.shown
      /\ c.requested = {x.startup.gen} /\ c.capture = {x.startup.gen}
  BY <1>2, <1>3 DEF ViewWindows
<1>5. \/ y = r /\ (~x.startup.pending \/ x.capture # {})
      \/ y = Views(ws, fx)!Failed(r)
      \/ y = c
  BY <1>3 DEF Views!Capturing, r
<1> HIDE DEF c
<1>6. ViewFramed(r) /\ ViewFramed(c)
  BY <1>3, <1>4 DEF ViewFramed
<1>7. CASE y = Views(ws, fx)!Failed(r)
  BY <1>3, <1>6, <1>7, ViewsFail DEF ViewWaits
<1>8. CASE y = r /\ (~x.startup.pending \/ x.capture # {})
  <2>1. ViewCovered(r, hosted) /\ ViewAsked(r) /\ (ViewWaits(r) => ViewWaits(x))
    BY <1>3, <1>8 DEF ViewCovered, ViewAsked, ViewWaits, ViewAlive
  <2> QED BY <1>3, <1>6, <1>8, <2>1 DEF ViewOk
<1>9. CASE y = c
  <2>1. ViewCovered(c, hosted) /\ ViewAsked(c) /\ (ViewWaits(c) => ViewWaits(x))
    BY <1>4 DEF ViewCovered, ViewAsked, ViewWaits, ViewAlive
  <2> QED BY <1>4, <1>6, <1>9, <2>1 DEF ViewOk
<1> QED BY <1>5, <1>7, <1>8, <1>9

\* While the first frame is awaited only the wish is kept.
LEMMA ViewsWish ==
  ASSUME NEW ws, NEW fx, NEW hosted, NEW x, ViewOk(x, hosted), NEW v \in BOOLEAN
  PROVE  LET y == Views(ws, fx)!Visible(x, v)
         IN ViewOk(y, hosted) /\ (ViewWaits(y) => ViewWaits(x)) /\ (ViewAlive(y) <=> ViewAlive(x))
            /\ y.startup.pending = x.startup.pending /\ y.region = x.region
<1> DEFINE y == Views(ws, fx)!Visible(x, v)
           t == Views(ws, fx)!Requested(x.startup, v)
           b == IF x.startup.pending THEN x.shown ELSE v
<1>1. x \in ViewWindows /\ x.startup \in ViewStartups
  BY DEF ViewOk, ViewWindows
<1>2. /\ t \in ViewStartups /\ t.pending = x.startup.pending /\ t.ready = x.startup.ready /\ t.explicit = x.startup.explicit
      /\ t.gen = x.startup.gen /\ t.cancelled = x.startup.cancelled
  BY <1>1 DEF Views!Requested, ViewStartups
<1>3. b \in BOOLEAN /\ (x.startup.pending => b = x.shown)
  BY <1>1 DEF ViewWindows
<1>4. y = [x EXCEPT !.startup = t, !.shown = b]
  BY DEF Views!Visible
<1> HIDE DEF t, b, y
<1>5. /\ y \in ViewWindows /\ y.startup = t /\ y.seen = x.seen /\ y.asked = x.asked /\ y.page = x.page /\ y.at = x.at
      /\ y.closed = x.closed /\ y.cloaked = x.cloaked /\ y.region = x.region /\ y.shown = b
      /\ y.requested = x.requested /\ y.capture = x.capture
  BY <1>1, <1>2, <1>3, <1>4 DEF ViewWindows
<1>6. ViewFramed(y) /\ (ViewAlive(y) <=> ViewAlive(x)) /\ (ViewWaits(y) => ViewWaits(x)) /\ (ViewAsked(x) => ViewAsked(y))
  BY <1>2, <1>5 DEF ViewOk, ViewFramed, ViewAlive, ViewWaits, ViewAsked
<1>7. ViewCovered(x, hosted) => ViewCovered(y, hosted)
  BY <1>2, <1>3, <1>5 DEF ViewCovered
<1>8. ViewOk(y, hosted)
  BY <1>5, <1>6, <1>7 DEF ViewOk
<1> QED BY <1>2, <1>5, <1>6, <1>8 DEF y

\* Other fields than those of the first frame.
ViewSame(x, y) ==
  /\ y.startup = x.startup /\ y.seen = x.seen /\ y.asked = x.asked /\ y.page = x.page /\ y.at = x.at
  /\ y.closed = x.closed /\ y.requested = x.requested /\ y.capture = x.capture
LEMMA ViewsMove ==
  ASSUME NEW hosted, NEW x, ViewOk(x, hosted), NEW y \in ViewWindows, ViewSame(x, y),
         ViewAlive(x) /\ ViewCovered(x, hosted) => ViewCovered(y, hosted)
  PROVE  ViewOk(y, hosted) /\ (ViewWaits(y) => ViewWaits(x))
<1>1. ViewFramed(y) /\ (ViewAlive(y) <=> ViewAlive(x)) /\ (ViewWaits(y) => ViewWaits(x)) /\ (ViewAsked(x) => ViewAsked(y))
  BY DEF ViewOk, ViewSame, ViewFramed, ViewAlive, ViewWaits, ViewAsked
<1> QED BY <1>1 DEF ViewOk

\* Somebody shows a window whose frame is not there.
LEMMA ViewsShown ==
  ASSUME NEW ws, NEW fx, NEW hosted \in BOOLEAN, NEW x, ViewOk(x, hosted), ViewAlive(x), x.startup.pending
  PROVE  LET y == [x EXCEPT !.startup = Views(ws, fx)!ShownNow(x.startup), !.asked = TRUE]
         IN ViewOk(y, hosted) /\ ViewAlive(y) /\ (ViewWaits(y) => ViewWaits(x))
<1> DEFINE t == Views(ws, fx)!ShownNow(x.startup)
           y == [x EXCEPT !.startup = t, !.asked = TRUE]
<1>1. x \in ViewWindows /\ x.startup \in ViewStartups
  BY DEF ViewOk, ViewWindows
<1>2. /\ t \in ViewStartups /\ t.pending /\ t.ready = x.startup.ready
      /\ t.gen = x.startup.gen /\ t.cancelled = x.startup.cancelled
  BY <1>1 DEF Views!ShownNow, ViewStartups
<1> HIDE DEF t
<1>3. /\ y \in ViewWindows /\ y.startup = t /\ y.seen = x.seen /\ y.asked /\ y.page = x.page /\ y.at = x.at
      /\ y.closed = x.closed /\ y.cloaked = x.cloaked /\ y.region = x.region /\ y.shown = x.shown
      /\ y.requested = x.requested /\ y.capture = x.capture
  BY <1>1, <1>2 DEF ViewWindows
<1> HIDE DEF y
<1>4. ViewFramed(y) /\ ViewAlive(y) /\ (ViewWaits(y) => ViewWaits(x)) /\ ViewAsked(y)
  BY <1>2, <1>3 DEF ViewOk, ViewFramed, ViewAlive, ViewWaits, ViewAsked
<1>5. ViewCovered(x, hosted) => ViewCovered(y, hosted)
  BY <1>2, <1>3 DEF ViewCovered
<1>6. ViewOk(y, hosted)
  BY <1>3, <1>4, <1>5 DEF ViewOk
<1> QED BY <1>4, <1>6 DEF y, t

LEMMA ViewsCancelled ==
  ASSUME NEW ws, NEW fx, NEW hosted, NEW x, ViewOk(x, hosted)
  PROVE  LET y == [x EXCEPT !.startup = Views(ws, fx)!Cancelled(x.startup)]
         IN ViewOk(y, hosted) /\ ~ViewWaits(y)
<1> DEFINE t == Views(ws, fx)!Cancelled(x.startup)
           y == [x EXCEPT !.startup = t]
<1>1. x \in ViewWindows /\ x.startup \in ViewStartups
  BY DEF ViewOk, ViewWindows
<1>2. /\ t \in ViewStartups /\ t.pending = x.startup.pending /\ t.ready = x.startup.ready /\ t.explicit = x.startup.explicit
      /\ t.gen = x.startup.gen /\ t.cancelled
  BY <1>1 DEF Views!Cancelled, ViewStartups
<1> HIDE DEF t
<1>3. /\ y \in ViewWindows /\ y.startup = t /\ y.seen = x.seen /\ y.asked = x.asked /\ y.page = x.page /\ y.at = x.at
      /\ y.closed = x.closed /\ y.cloaked = x.cloaked /\ y.region = x.region /\ y.shown = x.shown
      /\ y.requested = x.requested /\ y.capture = x.capture
  BY <1>1, <1>2 DEF ViewWindows
<1> HIDE DEF y
<1>4. ViewFramed(y) /\ (ViewAlive(y) <=> ViewAlive(x)) /\ ~ViewWaits(y) /\ (ViewAsked(x) => ViewAsked(y))
  BY <1>2, <1>3 DEF ViewOk, ViewFramed, ViewAlive, ViewWaits, ViewAsked
<1>5. ViewCovered(x, hosted) => ViewCovered(y, hosted)
  BY <1>2, <1>3 DEF ViewCovered
<1>6. ViewOk(y, hosted)
  BY <1>3, <1>4, <1>5 DEF ViewOk
<1> QED BY <1>4, <1>6 DEF y, t

\* A new document: inside an FX window it is concealed, elsewhere what is seen stays.
LEMMA ViewsNavigate ==
  ASSUME NEW ws, NEW fx, NEW w \in ws, ViewsInv(ws, fx), Views(ws, fx)!NavigationStarting(w)
  PROVE  ViewsInv(ws, fx)'
<1> DEFINE x == win[w]
           hosted == w \in fx
           s == IF hosted THEN Views(ws, fx)!Requested(x.startup, FALSE) ELSE x.startup
           t == Views(ws, fx)!Navigated(s, hosted)
           b == IF hosted /\ ~x.startup.pending THEN FALSE ELSE x.shown
           e == x.seen /\ ~hosted
           a == x.asked /\ ~hosted
           y == [x EXCEPT !.startup = t, !.page = "loading", !.shown = b, !.seen = e, !.asked = a]
<1>1. /\ Views(ws, fx)!Alive(x) /\ x.page # "none" /\ x.startup.gen < MaxNavigations
      /\ win' = [win EXCEPT ![w] = y] /\ UNCHANGED <<env, tries, waiting, pool, target, blanks>>
  BY DEF Views!NavigationStarting, Views!Set, Views!Calm
<1>2. ViewOk(x, hosted) /\ ViewAlive(x)
  BY <1>1, ViewsDefs DEF ViewsInv
<1>3. x \in ViewWindows /\ x.startup \in ViewStartups
  BY <1>2 DEF ViewOk, ViewWindows
<1>4. /\ s \in ViewStartups /\ s.pending = x.startup.pending /\ s.ready = x.startup.ready /\ s.explicit = x.startup.explicit
      /\ s.gen = x.startup.gen
  BY <1>3 DEF Views!Requested, ViewStartups
<1>5. s.gen + 1 \in 0 .. MaxNavigations
  <2> HIDE DEF s
  <2>1. s.gen \in 0 .. MaxNavigations /\ s.gen < MaxNavigations
    BY <1>1, <1>4 DEF ViewStartups
  <2>2. \A n \in 0 .. MaxNavigations : n < MaxNavigations => n + 1 \in 0 .. MaxNavigations
    BY ViewsAssumption
  <2> QED BY <2>1, <2>2
<1> HIDE DEF s
<1>6. /\ t \in ViewStartups /\ ~t.ready
      /\ hosted => t.pending /\ ~t.explicit
      /\ ~hosted => t.pending = s.pending /\ t.explicit = s.explicit
  BY <1>4, <1>5 DEF Views!Navigated, ViewStartups
<1>7. {b, e, a} \subseteq BOOLEAN
  BY <1>3 DEF ViewWindows
<1> HIDE DEF t
<1>8. /\ y \in ViewWindows /\ y.startup = t /\ y.seen = e /\ y.asked = a /\ y.page = "loading" /\ y.at = x.at
      /\ y.closed = x.closed /\ y.cloaked = x.cloaked /\ y.region = x.region /\ y.shown = b
  <2> HIDE DEF b, e, a
  <2> QED BY <1>3, <1>6, <1>7 DEF ViewWindows, ViewPages
<1> HIDE DEF y
<1>9. ViewFramed(y) /\ ViewAsked(y) /\ ~ViewWaits(y)
  BY <1>2, <1>4, <1>6, <1>8 DEF ViewOk, ViewFramed, ViewAsked, ViewWaits
<1>10. ViewCovered(y, hosted)
  BY <1>2, <1>4, <1>6, <1>8 DEF ViewOk, ViewCovered
<1>11. ViewOk(y, w \in fx)
  BY <1>8, <1>9, <1>10 DEF ViewOk
<1> HIDE DEF x, hosted
<1> QED BY <1>1, <1>9, <1>11, ViewsSet

\* A capture comes back.
LEMMA ViewsCaptured ==
  ASSUME NEW ws, NEW fx, NEW w \in ws, ViewsInv(ws, fx), Views(ws, fx)!Captured(w)
  PROVE  ViewsInv(ws, fx)'
<1> DEFINE z == win[w]
           hosted == w \in fx
           x == [z EXCEPT !.capture = {}]
<1>1. /\ Views(ws, fx)!Alive(z) /\ z.capture # {} /\ UNCHANGED <<env, tries, waiting, pool, target, blanks>>
  BY DEF Views!Captured, Views!Calm
<1>2. ViewOk(z, hosted) /\ ViewAlive(z)
  BY <1>1, ViewsDefs DEF ViewsInv
<1>3. z \in ViewWindows /\ z.startup \in ViewStartups /\ ViewFramed(z) /\ ViewCovered(z, hosted) /\ ViewAsked(z)
  BY <1>2 DEF ViewOk, ViewWindows
<1>4. /\ x \in ViewWindows /\ x.startup = z.startup /\ x.seen = z.seen /\ x.asked = z.asked /\ x.page = z.page /\ x.at = z.at
      /\ x.closed = z.closed /\ x.cloaked = z.cloaked /\ x.region = z.region /\ x.shown = z.shown
      /\ x.requested = z.requested /\ x.capture = {}
  BY <1>3 DEF ViewWindows
<1>5. ViewFramed(x) /\ ViewAlive(x) /\ ViewCovered(x, hosted)
  BY <1>2, <1>3, <1>4 DEF ViewFramed, ViewAlive, ViewCovered
<1>6. ViewWaits(x) => ViewWaits(z)
  BY <1>4 DEF ViewWaits, ViewAlive
<1>7. CASE z.capture # {x.startup.gen}
  <2>1. PICK y \in IF Views(ws, fx)!Retakes(x) THEN Views(ws, fx)!Capturing(x) ELSE {x} : win' = [win EXCEPT ![w] = y]
    BY <1>7 DEF Views!Captured, Views!Set
  <2> HIDE DEF x
  <2>2. CASE Views(ws, fx)!Retakes(x)
    <3>1. ViewOk(y, hosted) /\ (ViewWaits(y) => ViewWaits(x))
      BY <1>4, <1>5, <2>1, <2>2, ViewsCapture
    <3> QED BY <1>1, <1>6, <2>1, <3>1, ViewsSet DEF z, hosted
  <2>3. CASE ~Views(ws, fx)!Retakes(x)
    <3>1. ViewAsked(x)
      BY <1>3, <1>4, <2>3 DEF ViewAsked, Views!Retakes
    <3>2. ViewOk(x, hosted) /\ y = x
      BY <1>4, <1>5, <2>1, <2>3, <3>1 DEF ViewOk
    <3> QED BY <1>1, <1>6, <2>1, <3>2, ViewsSet DEF z, hosted
  <2> QED BY <2>2, <2>3
<1>8. CASE z.capture = {x.startup.gen}
  <2> DEFINE t == Views(ws, fx)!Prepared(x.startup, x.startup.gen)
             y == [x EXCEPT !.startup = t, !.seen = TRUE]
  <2>1. \/ win' = [win EXCEPT ![w] = Views(ws, fx)!Failed(x)]
        \/ win' = [win EXCEPT ![w] = Views(ws, fx)!Uncovered(y, hosted)]
    BY <1>8 DEF Views!Captured, Views!Set
  <2> HIDE DEF x
  <2>2. /\ t \in ViewStartups /\ t.ready /\ t.pending = x.startup.pending /\ t.explicit = x.startup.explicit
        /\ t.gen = x.startup.gen /\ t.cancelled = x.startup.cancelled
    BY <1>3, <1>4 DEF Views!Prepared, ViewStartups
  <2> HIDE DEF t
  <2>3. /\ y \in ViewWindows /\ y.startup = t /\ y.seen /\ y.asked = x.asked /\ y.page = x.page /\ y.at = x.at
        /\ y.closed = x.closed /\ y.cloaked = x.cloaked /\ y.region = x.region /\ y.shown = x.shown
        /\ y.requested = x.requested
    BY <1>4, <2>2 DEF ViewWindows
  <2> HIDE DEF y
  <2>4. ViewFramed(y) /\ ViewAlive(y) /\ (ViewWaits(y) => ViewWaits(z))
    BY <1>4, <1>5, <2>2, <2>3 DEF ViewFramed, ViewAlive, ViewWaits
  <2>5. ViewAsked(y) /\ ViewCovered(y, hosted)
    BY <1>3, <1>4, <2>2, <2>3 DEF ViewAsked, ViewCovered
  <2>6. ViewOk(y, hosted)
    BY <2>3, <2>4, <2>5 DEF ViewOk
  <2>7. CASE win' = [win EXCEPT ![w] = Views(ws, fx)!Failed(x)]
    <3>1. ViewOk(Views(ws, fx)!Failed(x), hosted) /\ ~ViewAlive(Views(ws, fx)!Failed(x))
      BY <1>4, <1>5, ViewsFail
    <3> QED BY <1>1, <2>7, <3>1, ViewsSet DEF hosted, ViewWaits
  <2>8. CASE win' = [win EXCEPT ![w] = Views(ws, fx)!Uncovered(y, hosted)]
    <3>1. ViewOk(Views(ws, fx)!Uncovered(y, hosted), hosted)
          /\ (~ViewWaits(y) => ~ViewWaits(Views(ws, fx)!Uncovered(y, hosted)))
      <4>1. hosted \in BOOLEAN
        OBVIOUS
      <4> HIDE DEF hosted
      <4> QED BY <2>4, <2>6, <4>1, ViewsUncover
    <3> QED BY <1>1, <2>4, <2>8, <3>1, ViewsSet DEF hosted, z
  <2> QED BY <2>1, <2>7, <2>8
<1> QED BY <1>7, <1>8

-----------------------------------------------------------------------------
(* The steps of a window.                                                   *)

LEMMA ViewsFails ==
  ASSUME NEW ws, NEW fx, NEW w \in ws, ViewsInv(ws, fx), win' = [win EXCEPT ![w] = Views(ws, fx)!Failed(win[w])],
         UNCHANGED <<env, tries, waiting, pool, target, blanks>>
  PROVE  ViewsInv(ws, fx)'
<1>1. win[w] \in ViewWindows /\ ViewFramed(win[w])
  BY DEF ViewsInv, ViewOk
<1>2. ViewOk(Views(ws, fx)!Failed(win[w]), w \in fx) /\ ~ViewAlive(Views(ws, fx)!Failed(win[w]))
  BY <1>1, ViewsFail
<1> QED BY <1>2, ViewsSet DEF ViewWaits

LEMMA ViewsTick ==
  ASSUME NEW ws, NEW fx, NEW w \in ws, ViewsInv(ws, fx), Views(ws, fx)!Tick(w)
  PROVE  ViewsInv(ws, fx)'
<1>1. UNCHANGED <<env, tries, waiting, pool, target, blanks>> /\ ViewAlive(win[w])
  BY ViewsDefs DEF Views!Tick, Views!Calm
<1>2. CASE win' = [win EXCEPT ![w] = Views(ws, fx)!Failed(win[w])]
  BY <1>1, <1>2, ViewsFails
<1>3. CASE win' = [win EXCEPT ![w] = Views(ws, fx)!Uncovered(win[w], w \in fx)]
  <2> DEFINE hosted == w \in fx
  <2>1. hosted \in BOOLEAN /\ ViewOk(win[w], hosted)
    BY DEF ViewsInv
  <2> HIDE DEF hosted
  <2>2. ViewOk(Views(ws, fx)!Uncovered(win[w], hosted), hosted)
        /\ (~ViewWaits(win[w]) => ~ViewWaits(Views(ws, fx)!Uncovered(win[w], hosted)))
    BY <1>1, <2>1, ViewsUncover
  <2> QED BY <1>1, <1>3, <2>2, ViewsSet DEF hosted
<1> QED BY <1>2, <1>3 DEF Views!Tick, Views!Set

LEMMA ViewsPages ==
  ASSUME NEW ws, NEW fx, NEW w \in ws, ViewsInv(ws, fx),
         Views(ws, fx)!Created(w) \/ Views(ws, fx)!ScriptAdded(w) \/ Views(ws, fx)!Breaks(w)
  PROVE  ViewsInv(ws, fx)'
<1>1. UNCHANGED <<env, tries, waiting, pool, target, blanks>>
  BY DEF Views!Created, Views!ScriptAdded, Views!Breaks, Views!Calm
<1>2. \/ win' = [win EXCEPT ![w] = Views(ws, fx)!Failed(win[w])]
      \/ \E p \in {"script", "navigating"} : win' = [win EXCEPT ![w] = [win[w] EXCEPT !.page = p]]
  BY DEF Views!Created, Views!ScriptAdded, Views!Breaks, Views!Set
<1>3. ASSUME NEW p \in {"script", "navigating"}, win' = [win EXCEPT ![w] = [win[w] EXCEPT !.page = p]]
      PROVE  ViewsInv(ws, fx)'
  <2>1. ViewOk(win[w], w \in fx) /\ p \in ViewPages \ {"none", "asked"}
    BY DEF ViewsInv, ViewPages
  <2> DEFINE y == [win[w] EXCEPT !.page = p]
  <2>2. ViewOk(y, w \in fx) /\ ~ViewWaits(y)
    BY <2>1, ViewsGoOn
  <2> HIDE DEF y
  <2>3. win' = [win EXCEPT ![w] = y]
    BY <1>3 DEF y
  <2> QED BY <1>1, <2>2, <2>3, ViewsSet
<1> QED BY <1>1, <1>2, <1>3, ViewsFails

LEMMA ViewsAsk ==
  ASSUME NEW ws, NEW fx, NEW w \in ws, ViewsInv(ws, fx), Views(ws, fx)!PageAsks(w)
  PROVE  ViewsInv(ws, fx)'
<1> DEFINE x == [win[w] EXCEPT !.page = "asked"]
<1>1. /\ UNCHANGED <<env, tries, waiting, pool, target, blanks>> /\ ViewAlive(win[w])
      /\ \E y \in Views(ws, fx)!Capturing(x) : win' = [win EXCEPT ![w] = y]
  BY ViewsDefs DEF Views!PageAsks, Views!Calm, Views!Set
<1>2. win[w] \in ViewWindows /\ ViewFramed(win[w]) /\ ViewCovered(win[w], w \in fx)
  BY <1>1 DEF ViewsInv, ViewOk
<1>3. /\ x \in ViewWindows /\ x.startup = win[w].startup /\ x.seen = win[w].seen /\ x.asked = win[w].asked
      /\ x.page = "asked" /\ x.cloaked = win[w].cloaked /\ x.region = win[w].region /\ x.shown = win[w].shown
  BY <1>2 DEF ViewWindows, ViewPages
<1> HIDE DEF x
<1>4. ViewFramed(x) /\ ViewCovered(x, w \in fx) /\ ~ViewWaits(x)
  BY <1>2, <1>3 DEF ViewFramed, ViewCovered, ViewWaits
<1>5. PICK y \in Views(ws, fx)!Capturing(x) : win' = [win EXCEPT ![w] = y]
  BY <1>1
<1>6. ViewOk(y, w \in fx) /\ (ViewWaits(y) => ViewWaits(x))
  BY <1>3, <1>4, ViewsCapture
<1> QED BY <1>1, <1>4, <1>5, <1>6, ViewsSet

LEMMA ViewsWishes ==
  ASSUME NEW ws, NEW fx, NEW w \in ws, ViewsInv(ws, fx),
         UNCHANGED <<env, tries, waiting, pool, target, blanks>>, NEW v \in BOOLEAN,
         win' = [win EXCEPT ![w] = Views(ws, fx)!Visible(win[w], v)]
  PROVE  ViewsInv(ws, fx)'
<1> DEFINE y == Views(ws, fx)!Visible(win[w], v)
<1>1. ViewOk(win[w], w \in fx)
  BY DEF ViewsInv
<1>2. ViewOk(y, w \in fx) /\ (ViewWaits(y) => ViewWaits(win[w]))
  BY <1>1, ViewsWish
<1> HIDE DEF y
<1> QED BY <1>2, ViewsSet DEF y

LEMMA ViewsShow ==
  ASSUME NEW ws, NEW fx, NEW w \in ws, ViewsInv(ws, fx), Views(ws, fx)!Show(w)
  PROVE  ViewsInv(ws, fx)'
<1> DEFINE x == win[w]
           hosted == w \in fx
           y == [x EXCEPT !.startup = Views(ws, fx)!ShownNow(x.startup), !.asked = TRUE]
<1>1. /\ UNCHANGED <<env, tries, waiting, pool, target, blanks>> /\ ViewAlive(x)
      /\ win' = [win EXCEPT ![w] = IF x.startup.pending THEN Views(ws, fx)!Uncovered(y, hosted)
                                   ELSE Views(ws, fx)!Visible(x, TRUE)]
  BY ViewsDefs DEF Views!Show, Views!Calm, Views!Set
<1>2. CASE ~x.startup.pending
  BY <1>1, <1>2, ViewsWishes
<1>3. CASE x.startup.pending
  <2>1. hosted \in BOOLEAN /\ ViewOk(x, hosted)
    BY DEF ViewsInv
  <2> HIDE DEF hosted
  <2>2. ViewOk(y, hosted) /\ ViewAlive(y) /\ (ViewWaits(y) => ViewWaits(x))
    <3> HIDE DEF x
    <3> QED BY <1>1, <1>3, <2>1, ViewsShown
  <2> HIDE DEF y
  <2>3. ViewOk(Views(ws, fx)!Uncovered(y, hosted), hosted)
        /\ (~ViewWaits(y) => ~ViewWaits(Views(ws, fx)!Uncovered(y, hosted)))
    BY <2>1, <2>2, ViewsUncover
  <2> QED BY <1>1, <1>3, <2>2, <2>3, ViewsSet DEF hosted
<1> QED BY <1>2, <1>3

LEMMA ViewsCancel ==
  ASSUME NEW ws, NEW fx, NEW w \in ws, ViewsInv(ws, fx), Views(ws, fx)!Cancel(w)
  PROVE  ViewsInv(ws, fx)'
<1> DEFINE y == [win[w] EXCEPT !.startup = Views(ws, fx)!Cancelled(win[w].startup)]
<1>1. UNCHANGED <<env, tries, waiting, pool, target, blanks>> /\ win' = [win EXCEPT ![w] = y]
  BY DEF Views!Cancel, Views!Calm, Views!Set
<1>2. ViewOk(win[w], w \in fx)
  BY DEF ViewsInv
<1>3. ViewOk(y, w \in fx) /\ ~ViewWaits(y)
  BY <1>2, ViewsCancelled
<1> HIDE DEF y
<1> QED BY <1>1, <1>3, ViewsSet

LEMMA ViewsDestroyed ==
  ASSUME NEW ws, NEW fx, NEW w \in ws, ViewsInv(ws, fx), Views(ws, fx)!Destroyed(w)
  PROVE  ViewsInv(ws, fx)'
<1> DEFINE x == Views(ws, fx)!Failed(win[w])
           y == [x EXCEPT !.shown = FALSE]
<1>1. UNCHANGED <<env, tries, waiting, pool, target, blanks>> /\ win' = [win EXCEPT ![w] = y]
  BY DEF Views!Destroyed, Views!Calm, Views!Set
<1>2. win[w] \in ViewWindows /\ ViewFramed(win[w])
  BY DEF ViewsInv, ViewOk
<1>3. ViewOk(x, w \in fx) /\ ~ViewAlive(x)
  BY <1>2, ViewsFail
<1>4. x \in ViewWindows
  BY <1>3 DEF ViewOk
<1> HIDE DEF x
<1>5. y \in ViewWindows /\ ViewSame(x, y)
  BY <1>4 DEF ViewWindows, ViewSame
<1> HIDE DEF y
<1>6. ViewOk(y, w \in fx) /\ (ViewWaits(y) => ViewWaits(x))
  BY <1>3, <1>5, ViewsMove
<1> QED BY <1>1, <1>3, <1>6, ViewsSet DEF ViewWaits

LEMMA ViewsClose ==
  ASSUME NEW ws, NEW fx, NEW w \in ws, ViewsInv(ws, fx), Views(ws, fx)!Close(w)
  PROVE  ViewsInv(ws, fx)'
<1> DEFINE y == [Views(ws, fx)!NoWindow EXCEPT !.at = "gone"]
<1>1. win' = [win EXCEPT ![w] = y] /\ waiting' = waiting \ {w} /\ UNCHANGED <<env, tries, pool, target, blanks>>
  BY DEF Views!Close, Views!Set
<1> DEFINE hosted == w \in fx
<1>2. hosted \in BOOLEAN
  OBVIOUS
<1> HIDE DEF hosted
<1>9. ViewOk(y, hosted) /\ ~ViewAlive(y)
  BY <1>2, ViewsEmpty
<1> HIDE DEF y
<1>3. ViewOk(y, w \in fx) /\ ~ViewAlive(y)
  BY <1>9 DEF hosted
<1>4. y \in ViewWindows
  BY <1>3 DEF ViewOk
<1>5. win' \in [ws -> ViewWindows] /\ win'[w] = y /\ \A v \in ws \ {w} : win'[v] = win[v]
  BY <1>1, <1>4 DEF ViewsInv
<1>6. ViewsTyped(ws)'
  BY <1>1 DEF ViewsInv, ViewsTyped
<1>7. \A v \in ws : ViewOk(win'[v], v \in fx)
  BY <1>3, <1>5 DEF ViewsInv
<1>8. \A v \in ws : ViewWaits(win'[v]) => env' = "busy" /\ v \in waiting'
  BY <1>1, <1>3, <1>5 DEF ViewsInv, ViewWaits
<1> QED BY <1>5, <1>6, <1>7, <1>8 DEF ViewsInv

\* A window beside the FX windows, in a Docker and out of it.
LEMMA ViewsToDock ==
  ASSUME NEW ws, NEW fx, NEW hosted, ~hosted, NEW x, ViewOk(x, hosted)
  PROVE  ViewOk(Views(ws, fx)!PreparedToDock(x), hosted) /\ ViewSame(x, Views(ws, fx)!PreparedToDock(x))
<1> DEFINE y == Views(ws, fx)!PreparedToDock(x)
<1>1. x \in ViewWindows
  BY DEF ViewOk
<1>2. y = x \/ (x.startup.pending /\ y = [x EXCEPT !.region = TRUE, !.cloaked = FALSE])
  BY DEF Views!PreparedToDock
<1> HIDE DEF y
<1>3. ViewOk(y, hosted) /\ ViewSame(x, y)
  <2>1. CASE y = x
    BY <2>1 DEF ViewSame
  <2>2. CASE x.startup.pending /\ y = [x EXCEPT !.region = TRUE, !.cloaked = FALSE]
    <3>1. y \in ViewWindows /\ ViewSame(x, y) /\ y.region /\ ~y.cloaked
      BY <1>1, <2>2 DEF ViewWindows, ViewSame
    <3>2. ViewCovered(y, hosted)
      BY <2>2, <3>1 DEF ViewCovered, ViewSame
    <3> QED BY <3>1, <3>2, ViewsMove
  <2> QED BY <1>2, <2>1, <2>2
<1> QED BY <1>3 DEF y

\* What is covered may be inside a Docker and shown by it.
LEMMA ViewsPlace ==
  ASSUME NEW hosted, ~hosted, NEW x, ViewOk(x, hosted), NEW child \in BOOLEAN, NEW shown_ \in BOOLEAN
  PROVE  LET y == [x EXCEPT !.child = child, !.shown = shown_] IN ViewOk(y, hosted) /\ ViewSame(x, y)
<1> DEFINE y == [x EXCEPT !.child = child, !.shown = shown_]
<1>1. x \in ViewWindows
  BY DEF ViewOk
<1>2. y \in ViewWindows /\ ViewSame(x, y) /\ y.cloaked = x.cloaked /\ y.region = x.region
  BY <1>1 DEF ViewWindows, ViewSame
<1> HIDE DEF y
<1>3. ViewCovered(x, hosted) => ViewCovered(y, hosted)
  BY <1>2 DEF ViewCovered, ViewSame
<1>4. ViewOk(y, hosted) /\ ViewSame(x, y)
  BY <1>2, <1>3, ViewsMove
<1> QED BY <1>4 DEF y

LEMMA ViewsDock ==
  ASSUME NEW ws, NEW fx, NEW w \in ws, ViewsInv(ws, fx), Views(ws, fx)!Dock(w) \/ Views(ws, fx)!ReaperShows(w)
  PROVE  ViewsInv(ws, fx)'
<1> DEFINE x == win[w]
           z == Views(ws, fx)!PreparedToDock(x)
<1>1. UNCHANGED <<env, tries, waiting, pool, target, blanks>> /\ w \notin fx
  BY DEF Views!Dock, Views!ReaperShows, Views!Calm
<1>2. ViewOk(x, w \in fx)
  BY <1>1 DEF ViewsInv
<1>3. ViewOk(z, w \in fx) /\ ViewSame(x, z)
  <2> HIDE DEF x
  <2> QED BY <1>1, <1>2, ViewsToDock
<1> HIDE DEF z
<1>4. x \in ViewWindows /\ z \in ViewWindows /\ x.startup \in ViewStartups /\ z.startup \in ViewStartups
  BY <1>2, <1>3 DEF ViewOk, ViewWindows
<1>5. \E v \in {x, z}, child \in BOOLEAN, b \in BOOLEAN :
        win' = [win EXCEPT ![w] = [v EXCEPT !.child = child, !.shown = b]]
  <2> DEFINE up(v) == IF v.startup.pending THEN v.shown \/ v.startup.wanted ELSE TRUE
  <2>1. \A v \in {x, z} : up(v) \in BOOLEAN /\ v.shown \in BOOLEAN /\ v.child \in BOOLEAN
                          /\ Views(ws, fx)!Floating(v) = [v EXCEPT !.child = FALSE, !.shown = up(v)]
    BY <1>4 DEF ViewWindows, ViewStartups, Views!Floating
  <2>2. [z EXCEPT !.child = TRUE] = [z EXCEPT !.child = TRUE, !.shown = z.shown]
    BY <1>4 DEF ViewWindows
  <2>3. [x EXCEPT !.shown = ~x.shown] = [x EXCEPT !.child = x.child, !.shown = ~x.shown]
    BY <1>4 DEF ViewWindows
  <2>4. \/ \E v \in {x, z} : win' = [win EXCEPT ![w] = Views(ws, fx)!Floating(v)]
        \/ win' = [win EXCEPT ![w] = [z EXCEPT !.child = TRUE]]
        \/ win' = [win EXCEPT ![w] = [x EXCEPT !.shown = ~x.shown]]
    BY DEF Views!Dock, Views!ReaperShows, Views!Set, z
  <2> QED BY <2>1, <2>2, <2>3, <2>4
<1>6. PICK v \in {x, z}, child \in BOOLEAN, b \in BOOLEAN :
        win' = [win EXCEPT ![w] = [v EXCEPT !.child = child, !.shown = b]]
  BY <1>5
<1> DEFINE y == [v EXCEPT !.child = child, !.shown = b]
<1>7. ViewOk(v, w \in fx) /\ ViewSame(x, v)
  BY <1>2, <1>3 DEF ViewSame
<1>8. ViewOk(y, w \in fx) /\ ViewSame(v, y)
  <2> HIDE DEF x
  <2> QED BY <1>1, <1>7, ViewsPlace
<1> HIDE DEF y
<1>9. ViewWaits(y) => ViewWaits(x)
  BY <1>7, <1>8 DEF ViewSame, ViewWaits, ViewAlive
<1>10. win' = [win EXCEPT ![w] = y]
  BY <1>6 DEF y
<1> QED BY <1>1, <1>8, <1>9, <1>10, ViewsSet

\* A page is moved to another FX window.
LEMMA ViewsReparent ==
  ASSUME NEW ws, NEW fx, NEW w \in ws, ViewsInv(ws, fx), Views(ws, fx)!Reparent(w)
  PROVE  ViewsInv(ws, fx)'
<1> DEFINE x == Views(ws, fx)!Visible(win[w], FALSE)
<1>1. UNCHANGED <<env, tries, waiting, pool, target, blanks>> /\ w \in fx
  BY DEF Views!Reparent, Views!Calm
<1>2. PICK parked \in BOOLEAN : win' = [win EXCEPT ![w] = [x EXCEPT !.shown = ~parked /\ x.startup.pending /\ x.region]]
  BY DEF Views!Reparent, Views!Set
<1>3. ViewOk(x, w \in fx) /\ (ViewWaits(x) => ViewWaits(win[w]))
  <2>1. ViewOk(win[w], w \in fx)
    BY DEF ViewsInv
  <2> QED BY <2>1, ViewsWish
<1> HIDE DEF x
<1> DEFINE b == ~parked /\ x.startup.pending /\ x.region
           y == [x EXCEPT !.shown = b]
<1>4. x \in ViewWindows /\ b \in BOOLEAN /\ (b => x.region)
  BY <1>3 DEF ViewOk, ViewWindows
<1>5. win' = [win EXCEPT ![w] = y]
  BY <1>2
<1> HIDE DEF b
<1>6. y \in ViewWindows /\ ViewSame(x, y) /\ y.cloaked = x.cloaked /\ y.region = x.region /\ y.shown = b
  BY <1>4 DEF ViewWindows, ViewSame
<1> HIDE DEF y
<1>7. ViewCovered(x, w \in fx) => ViewCovered(y, w \in fx)
  BY <1>1, <1>4, <1>6 DEF ViewCovered, ViewSame
<1>8. ViewOk(y, w \in fx) /\ (ViewWaits(y) => ViewWaits(x))
  BY <1>3, <1>6, <1>7, ViewsMove
<1> QED BY <1>1, <1>3, <1>5, <1>8, ViewsSet

-----------------------------------------------------------------------------
(* The pool, the environment and new windows.                               *)

Blank == {"preparing", "ready", "failed"}
PoolFits(p, n) == p \in Seq(Blank) /\ Len(p) <= n

LEMMA ViewsAmong == ASSUME NEW ws, NEW fx, NEW q, NEW S PROVE Views(ws, fx)!Among(q, S) = Among(q, S)
BY DEF Views!Among, Among

LEMMA ViewsTaken ==
  ASSUME NEW ws, NEW fx, NEW n \in Nat, NEW p, PoolFits(p, n), Views(ws, fx)!Takable(p) # {}
  PROVE  PoolFits(Views(ws, fx)!WithoutTaken(p), n)
<1> DEFINE S == Views(ws, fx)!Takable(p)
           first == CHOOSE i \in S : \A j \in S : i <= j
           a == SubSeq(p, 1, first - 1)
           b == SubSeq(p, first + 1, Len(p))
<1>1. p \in Seq(Blank) /\ Len(p) \in Nat /\ Len(p) <= n
  BY DEF PoolFits
<1>2. S \in SUBSET Nat /\ S \subseteq 1 .. Len(p) /\ S # {}
  BY <1>1 DEF Views!Takable
<1> HIDE DEF S
<1>3. first \in 1 .. Len(p)
  BY <1>2, SomeFirst
<1> HIDE DEF first
<1>4. a \in Seq(Blank) /\ Len(a) = first - 1
  BY <1>1, <1>3
<1>5. b \in Seq(Blank) /\ Len(b) = Len(p) - first
  BY <1>1, <1>3
<1> HIDE DEF a, b
<1>6. a \o b \in Seq(Blank) /\ Len(a \o b) = (first - 1) + (Len(p) - first)
  BY <1>4, <1>5
<1>7. Len(a \o b) <= n
  BY <1>1, <1>3, <1>6
<1>8. Views(ws, fx)!WithoutTaken(p) = a \o b
  BY DEF Views!WithoutTaken, a, b, first, S
<1> QED BY <1>6, <1>7, <1>8 DEF PoolFits

LEMMA ViewsKept ==
  ASSUME NEW ws, NEW fx, NEW n \in Nat, NEW p, PoolFits(p, n), NEW over \in BOOLEAN
  PROVE  /\ PoolFits(Views(ws, fx)!Kept(p, over), n)
         /\ PoolFits(Views(ws, fx)!Refilled(Views(ws, fx)!Kept(p, over), n), n)
<1> DEFINE S == IF over THEN {"ready"} ELSE {"ready", "preparing"}
           k == Among(p, S)
<1>1. Views(ws, fx)!Kept(p, over) = k
  BY ViewsAmong DEF Views!Kept
<1>2. p \in Seq(Blank) /\ Len(p) \in Nat /\ Len(p) <= n
  BY DEF PoolFits
<1> HIDE DEF S
<1>3. k \in Seq(Blank) /\ Len(k) <= Len(p)
  BY <1>2, AmongEmbeds, AmongLength
<1> HIDE DEF k
<1>4. Len(k) \in Nat /\ Len(k) <= n
  BY <1>2, <1>3
<1>5. CASE Len(k) < n
  <2>1. Append(k, "preparing") \in Seq(Blank) /\ Len(Append(k, "preparing")) = Len(k) + 1
    BY <1>3 DEF Blank
  <2>2. Len(k) + 1 <= n
    BY <1>4, <1>5
  <2> QED BY <1>1, <1>3, <1>4, <2>1, <2>2 DEF PoolFits, Views!Refilled
<1>6. CASE ~(Len(k) < n)
  BY <1>1, <1>3, <1>4, <1>6 DEF PoolFits, Views!Refilled
<1> QED BY <1>5, <1>6

\* The pool changes, nothing else.
LEMMA ViewsPool ==
  ASSUME NEW ws, NEW fx, ViewsInv(ws, fx), target' \in Nat, PoolFits(pool', target'), blanks' \in 0 .. MaxViews,
         UNCHANGED <<env, tries, waiting, win>>
  PROVE  ViewsInv(ws, fx)'
BY DEF ViewsInv, ViewsTyped, PoolFits, Blank

LEMMA ViewsIdle ==
  ASSUME NEW ws, NEW fx, ViewsInv(ws, fx),
         Views(ws, fx)!Idle \/ Views(ws, fx)!Resize \/ Views(ws, fx)!ViewTurns
  PROVE  ViewsInv(ws, fx)'
<1>1. PoolFits(pool, target) /\ target \in Nat /\ blanks \in 0 .. MaxViews
  BY DEF ViewsInv, ViewsTyped, PoolFits, Blank
<1>2. CASE Views(ws, fx)!Idle
  <2>1. PICK over \in BOOLEAN :
          pool' \in {Views(ws, fx)!Kept(pool, over),
                     Views(ws, fx)!Refilled(Views(ws, fx)!Kept(pool, over), target)}
    BY <1>2 DEF Views!Idle
  <2>2. blanks' \in {blanks, blanks + 1} /\ blanks' <= MaxViews /\ UNCHANGED <<env, tries, waiting, target, win>>
    BY <1>2 DEF Views!Idle
  <2>3. PoolFits(pool', target)
    BY <1>1, <2>1, ViewsKept
  <2>4. blanks' \in 0 .. MaxViews
    BY <1>1, <2>2, ViewsAssumption
  <2> QED BY <1>1, <2>2, <2>3, <2>4, ViewsPool
<1>3. CASE Views(ws, fx)!Resize
  <2>1. PICK n \in 0 .. 2 : target' = n /\ pool' = Views(ws, fx)!Resized(pool, n)
    BY <1>3 DEF Views!Resize
  <2>2. UNCHANGED <<env, tries, waiting, blanks, win>>
    BY <1>3 DEF Views!Resize
  <2>3. pool \in Seq(Blank) /\ Len(pool) \in Nat
    BY <1>1 DEF PoolFits
  <2>4. PoolFits(pool', n)
    <3>1. CASE Len(pool) > n
      <4>1. SubSeq(pool, 1, n) \in Seq(Blank) /\ Len(SubSeq(pool, 1, n)) = n
        BY <2>3, <3>1
      <4> QED BY <2>1, <3>1, <4>1 DEF PoolFits, Views!Resized
    <3>2. CASE ~(Len(pool) > n)
      BY <2>1, <2>3, <3>2 DEF PoolFits, Views!Resized
    <3> QED BY <3>1, <3>2
  <2> QED BY <1>1, <2>1, <2>2, <2>4, ViewsPool
<1>4. CASE Views(ws, fx)!ViewTurns
  <2>1. PICK i \in 1 .. Len(pool) : \E v \in {"ready", "failed"} : pool' = [pool EXCEPT ![i] = v]
    BY <1>4 DEF Views!ViewTurns, Views!Turns
  <2>2. UNCHANGED <<env, tries, waiting, target, blanks, win>>
    BY <1>4 DEF Views!ViewTurns
  <2>3. PoolFits(pool', target)
    BY <1>1, <2>1 DEF PoolFits, Blank
  <2> QED BY <1>1, <2>2, <2>3, ViewsPool
<1> QED BY <1>2, <1>3, <1>4

LEMMA ViewsAnswers ==
  ASSUME NEW ws, NEW fx, ViewsInv(ws, fx), Views(ws, fx)!EnvironmentAnswers
  PROVE  ViewsInv(ws, fx)'
<1>1. env' \in {"ready", "failed"} /\ waiting' = {} /\ UNCHANGED <<tries, pool, target, blanks>>
  BY DEF Views!EnvironmentAnswers
<1>2. PICK failing \in SUBSET waiting :
        win' = [w \in ws |->
          IF ~Views(ws, fx)!Served(w) THEN win[w]
          ELSE IF env' = "failed" \/ w \in failing THEN Views(ws, fx)!Failed(win[w]) ELSE [win[w] EXCEPT !.page = "creating"]]
  BY DEF Views!EnvironmentAnswers
<1>3. ASSUME NEW w \in ws PROVE ViewOk(win'[w], w \in fx) /\ ~ViewWaits(win'[w])
  <2>1. ViewOk(win[w], w \in fx) /\ (ViewWaits(win[w]) => w \in waiting)
    BY DEF ViewsInv
  <2>2. win[w] \in ViewWindows /\ ViewFramed(win[w])
    BY <2>1 DEF ViewOk
  <2>3. CASE ~Views(ws, fx)!Served(w)
    <3>1. ~ViewWaits(win[w])
      BY <2>1, <2>3 DEF Views!Served, Views!WaitCancelled, ViewWaits, ViewAlive
    <3> QED BY <1>2, <2>1, <2>3, <3>1
  <2>4. CASE win'[w] = Views(ws, fx)!Failed(win[w])
    BY <2>2, <2>4, ViewsFail DEF ViewWaits
  <2>5. CASE win'[w] = [win[w] EXCEPT !.page = "creating"]
    <3>1. "creating" \in ViewPages \ {"none", "asked"}
      BY DEF ViewPages
    <3> QED BY <2>1, <2>5, <3>1, ViewsGoOn
  <2> QED BY <1>2, <2>3, <2>4, <2>5
<1>4. win' \in [ws -> ViewWindows]
  BY <1>2, <1>3 DEF ViewOk
<1>5. ViewsTyped(ws)'
  BY <1>1 DEF ViewsInv, ViewsTyped
<1> QED BY <1>3, <1>4, <1>5 DEF ViewsInv

LEMMA ViewsOpened ==
  ASSUME NEW ws, NEW fx, NEW w, NEW hides \in BOOLEAN
  PROVE  LET x == Views(ws, fx)!Opened(w, hides)
         IN ViewOk(x, w \in fx) /\ ViewAlive(x) /\ ~Views(ws, fx)!WaitCancelled(x)
<1> DEFINE n == Views(ws, fx)!NoWindow
           s == Views(ws, fx)!NewStartup(hides)
           hosted == w \in fx
           b == ~hides \/ hosted
           x == Views(ws, fx)!Opened(w, hides)
<1>1. n \in ViewWindows /\ n.page = "none" /\ ~n.closed
  BY ViewsAssumption DEF Views!NoWindow, Views!NewStartup, ViewWindows, ViewPages, ViewStartups
<1>2. s \in ViewStartups /\ s.pending /\ ~s.ready /\ ~s.cancelled /\ ~s.explicit
  BY ViewsAssumption DEF Views!NewStartup, ViewStartups
<1>11. hosted \in BOOLEAN
  OBVIOUS
<1>12. (~hosted) \in BOOLEAN
  OBVIOUS
<1>13. b \in BOOLEAN
  OBVIOUS
<1>3. hosted \in BOOLEAN /\ (~hosted) \in BOOLEAN /\ b \in BOOLEAN
  <2> HIDE DEF hosted, b
  <2> QED BY <1>11, <1>12, <1>13
<1>4. x = [n EXCEPT !.at = "open", !.startup = s, !.cloaked = ~hosted, !.region = hosted, !.shown = b, !.child = hosted]
  BY DEF Views!Opened
<1> HIDE DEF n, s, hosted, b, x
<1>5. x \in ViewWindows
  BY <1>1, <1>2, <1>3, <1>4 DEF ViewWindows
<1>6. x.at = "open" /\ x.startup = s /\ x.cloaked = ~hosted /\ x.region = hosted /\ x.page = "none" /\ ~x.closed
  BY <1>1, <1>4 DEF ViewWindows
<1>7. ViewFramed(x) /\ ViewAsked(x) /\ ViewAlive(x)
  BY <1>2, <1>6 DEF ViewFramed, ViewAsked, ViewAlive
<1>8. ViewCovered(x, hosted)
  BY <1>2, <1>3, <1>6 DEF ViewCovered
<1>9. ~Views(ws, fx)!WaitCancelled(x)
  BY <1>2, <1>6 DEF Views!WaitCancelled
<1>10. ViewOk(x, hosted)
  BY <1>5, <1>7, <1>8 DEF ViewOk
<1> QED BY <1>7, <1>9, <1>10 DEF x, hosted

LEMMA ViewsOpen ==
  ASSUME NEW ws, NEW fx, NEW w \in ws, ViewsInv(ws, fx), Views(ws, fx)!Open(w)
  PROVE  ViewsInv(ws, fx)'
<1>1. /\ \/ env # "failed" /\ UNCHANGED <<env, tries>>
         \/ env = "failed" /\ tries < MaxAttempts /\ tries' = tries + 1 /\ env' = "busy"
      /\ pool' = IF Views(ws, fx)!Takable(pool) = {} THEN pool ELSE Views(ws, fx)!WithoutTaken(pool)
      /\ waiting' = IF env' = "ready" THEN waiting ELSE waiting \union {w}
      /\ UNCHANGED <<target, blanks>>
  BY DEF Views!Open
<1>2. PICK hides \in BOOLEAN :
        LET x == Views(ws, fx)!Opened(w, hides)
        IN IF env' # "ready" THEN win' = [win EXCEPT ![w] = x]
           ELSE \/ win' = [win EXCEPT ![w] = [x EXCEPT !.page = "script"]]
                \/ \E y \in Views(ws, fx)!Initialized(x) : win' = [win EXCEPT ![w] = y]
  BY DEF Views!Open, Views!Set
<1> DEFINE x == Views(ws, fx)!Opened(w, hides)
<1>3. ViewOk(x, w \in fx) /\ ViewAlive(x) /\ ~Views(ws, fx)!WaitCancelled(x)
  BY ViewsOpened
<1> HIDE DEF x
<1>4. \E y : win' = [win EXCEPT ![w] = y] /\ ViewOk(y, w \in fx) /\ (env' = "ready" => ~ViewWaits(y))
  <2>1. CASE env' # "ready"
    BY <1>2, <1>3, <2>1 DEF x
  <2>2. CASE win' = [win EXCEPT ![w] = [x EXCEPT !.page = "script"]]
    <3>1. "script" \in ViewPages \ {"none", "asked"}
      BY DEF ViewPages
    <3> QED BY <1>3, <2>2, <3>1, ViewsGoOn
  <2>3. CASE \E y \in Views(ws, fx)!Initialized(x) : win' = [win EXCEPT ![w] = y]
    <3>1. PICK y \in {[x EXCEPT !.page = "creating"], Views(ws, fx)!Failed(x)} : win' = [win EXCEPT ![w] = y]
      BY <1>3, <2>3 DEF Views!Initialized
    <3>2. x \in ViewWindows /\ ViewFramed(x) /\ "creating" \in ViewPages \ {"none", "asked"}
      BY <1>3 DEF ViewOk, ViewPages
    <3>3. CASE y = [x EXCEPT !.page = "creating"]
      BY <1>3, <3>1, <3>2, <3>3, ViewsGoOn
    <3>4. CASE y = Views(ws, fx)!Failed(x)
      BY <3>1, <3>2, <3>4, ViewsFail DEF ViewWaits
    <3> QED BY <3>1, <3>3, <3>4
  <2>4. env' = "ready" => \/ win' = [win EXCEPT ![w] = [x EXCEPT !.page = "script"]]
                          \/ \E y \in Views(ws, fx)!Initialized(x) : win' = [win EXCEPT ![w] = y]
    BY <1>2 DEF x
  <2> QED BY <2>1, <2>2, <2>3, <2>4
<1>5. PICK y : win' = [win EXCEPT ![w] = y] /\ ViewOk(y, w \in fx) /\ (env' = "ready" => ~ViewWaits(y))
  BY <1>4
<1>6. win \in [ws -> ViewWindows] /\ y \in ViewWindows
  BY <1>5 DEF ViewsInv, ViewOk
<1>7. win' \in [ws -> ViewWindows] /\ win'[w] = y /\ \A v \in ws \ {w} : win'[v] = win[v]
  BY <1>5, <1>6
<1>8. env \in {"busy", "ready", "failed"} /\ tries \in 1 .. MaxAttempts /\ waiting \subseteq ws
  BY DEF ViewsInv, ViewsTyped
<1>9. PoolFits(pool, target) /\ target \in Nat /\ blanks \in 0 .. MaxViews
  BY DEF ViewsInv, ViewsTyped, PoolFits, Blank
<1>10. PoolFits(pool', target)
  BY <1>1, <1>9, ViewsTaken
<1>11. env' \in {"busy", "ready", "failed"} /\ tries' \in 1 .. MaxAttempts /\ waiting' \subseteq ws
  BY <1>1, <1>8, ViewsAssumption
<1>12. ViewsTyped(ws)'
  BY <1>1, <1>9, <1>10, <1>11 DEF ViewsTyped, PoolFits, Blank
<1>13. ASSUME NEW v \in ws PROVE ViewOk(win'[v], v \in fx)
  BY <1>5, <1>7 DEF ViewsInv
<1>14. ASSUME NEW v \in ws, ViewWaits(win'[v]) PROVE env' = "busy" /\ v \in waiting'
  <2>1. CASE v = w
    <3>1. env' # "ready"
      BY <1>5, <1>7, <1>14, <2>1
    <3> QED BY <1>1, <1>8, <2>1, <3>1
  <2>2. CASE v # w
    <3>1. env = "busy" /\ v \in waiting
      BY <1>7, <1>14, <2>2 DEF ViewsInv
    <3> QED BY <1>1, <3>1
  <2> QED BY <2>1, <2>2
<1> QED BY <1>7, <1>12, <1>13, <1>14 DEF ViewsInv

LEMMA ViewsStart == ASSUME NEW ws, NEW fx, Views(ws, fx)!Init PROVE ViewsInv(ws, fx)
<1> DEFINE n == Views(ws, fx)!NoWindow
<1>1. /\ env \in {"busy", "failed"} /\ tries = 1 /\ waiting = {} /\ pool = <<>> /\ target = 0 /\ blanks = 0
      /\ win = [w \in ws |-> n]
  BY DEF Views!Init
<1>2. n.at = "none" /\ n \in ViewWindows /\ ~n.startup.ready /\ ~n.startup.explicit
  BY ViewsAssumption DEF Views!NoWindow, Views!NewStartup, ViewWindows, ViewPages, ViewStartups
<1> HIDE DEF n
<1>3. ASSUME NEW hosted PROVE ViewOk(n, hosted) /\ ~ViewWaits(n)
  <2>1. ViewFramed(n) /\ ~ViewAlive(n)
    BY <1>2 DEF ViewFramed, ViewAlive
  <2> QED BY <1>2, <2>1 DEF ViewOk, ViewWaits
<1>4. ViewsTyped(ws)
  BY <1>1, ViewsAssumption DEF ViewsTyped
<1>5. \A w \in ws : ViewOk(win[w], w \in fx) /\ ~ViewWaits(win[w])
  BY <1>1, <1>3
<1> QED BY <1>1, <1>2, <1>4, <1>5 DEF ViewsInv

LEMMA ViewsSteps ==
  ASSUME NEW ws, NEW fx, ViewsInv(ws, fx), Views(ws, fx)!Next \/ UNCHANGED viewVars
  PROVE  ViewsInv(ws, fx)'
<1>1. CASE UNCHANGED viewVars
  BY <1>1 DEF viewVars, ViewsInv, ViewsTyped
<1>2. CASE Views(ws, fx)!EnvironmentAnswers
  BY <1>2, ViewsAnswers
<1>3. CASE Views(ws, fx)!Idle \/ Views(ws, fx)!Resize \/ Views(ws, fx)!ViewTurns
  BY <1>3, ViewsIdle
<1>4. ASSUME NEW w \in ws, Views(ws, fx)!Open(w) PROVE ViewsInv(ws, fx)'
  BY <1>4, ViewsOpen
<1>5. ASSUME NEW w \in ws,
             Views(ws, fx)!Created(w) \/ Views(ws, fx)!ScriptAdded(w) \/ Views(ws, fx)!Breaks(w)
      PROVE  ViewsInv(ws, fx)'
  BY <1>5, ViewsPages
<1>6. ASSUME NEW w \in ws, Views(ws, fx)!Tick(w) PROVE ViewsInv(ws, fx)'
  BY <1>6, ViewsTick
<1>7. ASSUME NEW w \in ws, Views(ws, fx)!NavigationStarting(w) PROVE ViewsInv(ws, fx)'
  BY <1>7, ViewsNavigate
<1>8. ASSUME NEW w \in ws, Views(ws, fx)!PageAsks(w) PROVE ViewsInv(ws, fx)'
  BY <1>8, ViewsAsk
<1>9. ASSUME NEW w \in ws, Views(ws, fx)!Captured(w) PROVE ViewsInv(ws, fx)'
  BY <1>9, ViewsCaptured
<1>10. ASSUME NEW w \in ws, Views(ws, fx)!SetVisible(w) PROVE ViewsInv(ws, fx)'
  <2>1. UNCHANGED <<env, tries, waiting, pool, target, blanks>>
    BY <1>10 DEF Views!SetVisible, Views!Calm
  <2>2. PICK v \in BOOLEAN : win' = [win EXCEPT ![w] = Views(ws, fx)!Visible(win[w], v)]
    BY <1>10 DEF Views!SetVisible, Views!Set
  <2> QED BY <2>1, <2>2, ViewsWishes
<1>11. ASSUME NEW w \in ws, Views(ws, fx)!Show(w) PROVE ViewsInv(ws, fx)'
  BY <1>11, ViewsShow
<1>12. ASSUME NEW w \in ws, Views(ws, fx)!Cancel(w) PROVE ViewsInv(ws, fx)'
  BY <1>12, ViewsCancel
<1>13. ASSUME NEW w \in ws, Views(ws, fx)!Destroyed(w) PROVE ViewsInv(ws, fx)'
  BY <1>13, ViewsDestroyed
<1>14. ASSUME NEW w \in ws, Views(ws, fx)!Close(w) PROVE ViewsInv(ws, fx)'
  BY <1>14, ViewsClose
<1>15. ASSUME NEW w \in ws, Views(ws, fx)!Dock(w) \/ Views(ws, fx)!ReaperShows(w) PROVE ViewsInv(ws, fx)'
  BY <1>15, ViewsDock
<1>16. ASSUME NEW w \in ws, Views(ws, fx)!Reparent(w) PROVE ViewsInv(ws, fx)'
  BY <1>16, ViewsReparent
<1> QED BY <1>1, <1>2, <1>3, <1>4, <1>5, <1>6, <1>7, <1>8, <1>9, <1>10, <1>11, <1>12, <1>13, <1>14, <1>15, <1>16
        DEF Views!Next

LEMMA ViewsSuffices ==
  ASSUME NEW ws, NEW fx, ViewsInv(ws, fx) PROVE Views(ws, fx)!TypeOK /\ Views(ws, fx)!FramesFirst
<1>1. ASSUME NEW w \in ws
      PROVE  win[w] \in ViewWindows /\ win[w].startup.gen \in 0 .. MaxNavigations /\ win[w].capture \subseteq 0 .. MaxNavigations
  BY DEF ViewsInv, ViewWindows, ViewStartups
<1>2. Views(ws, fx)!TypeOK
  BY <1>1 DEF ViewsInv, ViewsTyped, Views!TypeOK
<1>3. ASSUME NEW w \in ws PROVE Views(ws, fx)!Exposed(win[w]) => win[w].seen \/ win[w].asked
  <2> DEFINE x == win[w]
             hosted == w \in fx
  <2>1. Views(ws, fx)!Exposed(x) => ViewAlive(x) /\ x.shown /\ ~x.cloaked /\ ~x.region
    BY ViewsDefs DEF Views!Exposed
  <2>2. ViewOk(x, hosted)
    BY DEF ViewsInv
  <2> HIDE DEF x, hosted
  <2>3. ViewAlive(x) => ViewCovered(x, hosted)
    BY <2>2 DEF ViewOk
  <2>4. Views(ws, fx)!Exposed(x) => x.seen \/ x.asked
    BY <2>1, <2>3 DEF ViewCovered
  <2> QED BY <2>4 DEF x
<1>4. ASSUME NEW w \in ws, ViewAlive(win[w])
      PROVE  /\ win[w].page = "asked" /\ win[w].startup.pending => win[w].capture # {} \/ win[w].startup.ready
             /\ ~win[w].startup.pending => ~win[w].cloaked /\ ~win[w].region
             /\ win[w].page = "none" /\ ~win[w].startup.cancelled => env = "busy"
  BY <1>4 DEF ViewsInv, ViewOk, ViewCovered, ViewAsked, ViewWaits
<1>5. Views(ws, fx)!FramesFirst
  BY <1>3, <1>4, ViewsDefs DEF Views!FramesFirst
<1> QED BY <1>2, <1>5

\* Whatever windows and Dockers there are: a floating window and a page in an FX window are seen only with the frame
\* of their document or when they were shown explicitly, one that was presented stays uncovered, no window waits for
\* an environment that is there, and a Docker whose redrawing nobody holds back draws again.
THEOREM PagesAreSeen == PartSpec => []PagesSeen
<1> DEFINE All == /\ part = "presenting" => ViewsInv(Apps, {})
                  /\ part = "hosted" => ViewsInv(FxPages, FxPages)
                  /\ part = "redraw" => DrawsInv(Dockers, MaxDepth)
                  /\ part = "nested" => DrawsInv(Nested, MaxNested)
<1>1. PartInit => All
  BY ViewsStart, DrawsStart, DrawsAssumption DEF PartInit
<1>2. All /\ [PartNext]_partVars => All'
  BY PartsStep, ViewsSteps, DrawsSteps, DrawsAssumption
<1>3. All => PagesSeen
  BY ViewsSuffices, DrawsSuffices, DrawsAssumption DEF PagesSeen
<1> QED BY <1>1, <1>2, <1>3, PTL DEF PartSpec
-----------------------------------------------------------------------------
(* Operations on one effect.  Every command is given out once, to one       *)
(* operation or for one release; what is with the effect belongs to an      *)
(* operation that still waits for it.                                       *)

ControlPhases == {"run", "stage", "send", "commit", "abort"}
ControlOps ==
  [status : {"none", "queued", "succeeded", "failed", "cancelled"}, phase : ControlPhases, command : Nat, owner : Nat,
   dispatched : BOOLEAN, staged : BOOLEAN, cancelling : BOOLEAN]
ControlMarks == [command : Nat, owner : Nat, kind : ControlPhases \union {"release"}]
ControlReplies == [command : Nat, code : {0, 1, 6}]
ControlDone == [command : Nat, kind : ControlPhases \union {"release"}, owner : Nat, code : {0, 1, 6}]

Members(q) == {q[i] : i \in 1 .. Len(q)}
Distinct(q) == \A i, j \in 1 .. Len(q) : q[i].command = q[j].command => i = j
Mark(c) == [command |-> c.command, owner |-> c.owner, kind |-> c.kind]
\* What the node was given, whether it has run or not.
Issued == Members(queue) \union {Mark(c) : c \in ran}

ControlTyped(rs) ==
  /\ ops \in [rs -> ControlOps] /\ commands \in Nat /\ queue \in Seq(ControlMarks) /\ results \in Seq(ControlReplies)
  /\ Len(queue) + Len(results) <= NodeLimit /\ started \in BOOLEAN /\ (started => queue # <<>>)
  /\ documents \in 0 .. MaxDocuments /\ document \in 0 .. documents /\ releases \subseteq 1 .. documents
  /\ document \notin releases
  /\ "nobody" \notin rs /\ holder \in rs \union {"nobody"} /\ changes \in 0 .. MaxEffects /\ ran \subseteq ControlDone
\* An operation of a document takes one command; one of an upload may take four.
ControlOwn(r) ==
  /\ ops[r].command \in 0 .. commands /\ ops[r].owner \in 0 .. documents
  /\ ops[r].status = "none" <=> ops[r].command = 0
  /\ ops[r].status = "none" => ops[r].owner = 0
  /\ ops[r].owner # 0 => r \notin Uploads /\ ops[r].phase = "run" /\ ~ops[r].staged
ControlApart(rs) ==
  /\ \A r \in rs : ControlOwn(r)
  /\ \A r, q \in rs : ops[r].command = ops[q].command /\ ops[r].command # 0 => r = q
\* The release of a document is the last command of it.
ControlLast(rs, x) ==
  /\ x.owner \in (1 .. documents) \ releases /\ x.owner # document
  /\ \A r \in rs : ops[r].command # x.command /\ (ops[r].owner = x.owner => ops[r].command < x.command)
  /\ \A y \in Issued : y.owner = x.owner => y.command <= x.command
ControlIssued(rs) ==
  /\ \A x \in Issued : x.command \in 1 .. commands /\ x.owner \in 0 .. documents
  /\ \A x \in Issued : x.kind = "release" => ControlLast(rs, x)
  /\ \A r \in rs : ops[r].status = "queued" /\ ~ops[r].dispatched => \A x \in Issued : x.command # ops[r].command
ControlOnce ==
  /\ Distinct(queue) /\ Distinct(results)
  /\ \A c, d \in ran : c.command = d.command => c = d
  /\ \A a \in Members(queue), c \in ran : a.command # c.command
ControlWith(x, a) == x.status = "queued" /\ x.dispatched /\ x.command = a.command /\ x.phase = a.kind
ControlUnderWay(rs) ==
  /\ \A a \in Members(queue) : a.kind # "release" => \E r \in rs : ControlWith(ops[r], a)
  /\ \A p \in Members(results) :
       \E c \in ran : c.command = p.command /\ c.code = p.code /\ (c.kind # "release" => \E r \in rs : ControlWith(ops[r], c))
ControlHeld(rs) ==
  /\ holder # "nobody" => ops[holder].status = "queued"
  /\ \A r \in rs :
       ops[r].status = "queued" /\ ops[r].dispatched /\ r \in Undone /\ ops[r].phase \in {"run", "commit"} => holder = r
ControlDid(command) == \E c \in ran : c.command = command /\ c.kind \in {"run", "commit"} /\ c.code = 0
ControlEnded(rs) ==
  \A r \in rs : /\ ops[r].status = "succeeded" => ControlDid(ops[r].command)
                /\ ops[r].status = "cancelled" => ~ControlDid(ops[r].command)
ControlInv(rs) ==
  ControlTyped(rs) /\ ControlApart(rs) /\ ControlIssued(rs) /\ ControlOnce /\ ControlUnderWay(rs) /\ ControlHeld(rs)
  /\ ControlEnded(rs)

LEMMA MembersAppend ==
  ASSUME NEW T, NEW q \in Seq(T), NEW x \in T
  PROVE  /\ Append(q, x) \in Seq(T) /\ Len(Append(q, x)) = Len(q) + 1 /\ Members(Append(q, x)) = Members(q) \union {x}
         /\ Distinct(q) /\ (\A y \in Members(q) : y.command # x.command) => Distinct(Append(q, x))
<1> DEFINE p == Append(q, x)
<1>1. p \in Seq(T) /\ Len(p) = Len(q) + 1 /\ Len(q) \in Nat /\ p[Len(q) + 1] = x /\ \A i \in 1 .. Len(q) : p[i] = q[i]
  OBVIOUS
<1> HIDE DEF p
<1>2. \A i \in 1 .. Len(p) : i \in 1 .. Len(q) \/ i = Len(q) + 1
  BY <1>1
<1>3. Members(p) = Members(q) \union {x}
  <2>1. ASSUME NEW y \in Members(p) PROVE y \in Members(q) \union {x}
    BY <1>1, <1>2 DEF Members
  <2>2. ASSUME NEW y \in Members(q) PROVE y \in Members(p)
    <3>1. PICK i \in 1 .. Len(q) : q[i] = y
      BY DEF Members
    <3>2. i \in 1 .. Len(p) /\ p[i] = y
      BY <1>1, <3>1
    <3> QED BY <3>2 DEF Members
  <2>3. x \in Members(p)
    <3>1. Len(q) + 1 \in 1 .. Len(p)
      BY <1>1
    <3> QED BY <1>1, <3>1 DEF Members
  <2> QED BY <2>1, <2>2, <2>3
<1>4. ASSUME Distinct(q), \A y \in Members(q) : y.command # x.command PROVE Distinct(p)
  <2>1. SUFFICES ASSUME NEW i \in 1 .. Len(p), NEW j \in 1 .. Len(p), p[i].command = p[j].command PROVE i = j
    BY DEF Distinct
  <2>2. \A k \in 1 .. Len(q) : p[k] \in Members(q)
    BY <1>1 DEF Members
  <2>3. CASE i \in 1 .. Len(q) /\ j \in 1 .. Len(q)
    BY <1>1, <1>4, <2>1, <2>3 DEF Distinct
  <2>4. CASE i = Len(q) + 1 \/ j = Len(q) + 1
    BY <1>1, <1>2, <1>4, <2>1, <2>2, <2>4
  <2> QED BY <1>2, <2>3, <2>4
<1> QED BY <1>1, <1>3, <1>4 DEF p

LEMMA MembersTail ==
  ASSUME NEW T, NEW q \in Seq(T), q # <<>>, Distinct(q)
  PROVE  /\ Tail(q) \in Seq(T) /\ Len(Tail(q)) = Len(q) - 1 /\ Head(q) \in T /\ Head(q) \in Members(q)
         /\ Members(q) = Members(Tail(q)) \union {Head(q)} /\ Distinct(Tail(q))
         /\ \A y \in Members(Tail(q)) : y.command # Head(q).command
<1> DEFINE p == Tail(q)
<1>1. /\ p \in Seq(T) /\ Len(q) \in Nat /\ Len(q) > 0 /\ Len(p) = Len(q) - 1 /\ Head(q) = q[1]
      /\ \A i \in 1 .. Len(p) : p[i] = q[i + 1]
  OBVIOUS
<1> HIDE DEF p
<1>2. 1 \in 1 .. Len(q) /\ q[1] \in T /\ \A i \in 1 .. Len(p) : i + 1 \in 1 .. Len(q)
  BY <1>1
<1>3. \A i \in 1 .. Len(q) : i = 1 \/ (i - 1 \in 1 .. Len(p) /\ p[i - 1] = q[i])
  BY <1>1
<1>4. ASSUME NEW y \in Members(q) PROVE y \in Members(p) \union {Head(q)}
  BY <1>1, <1>3 DEF Members
<1>5. ASSUME NEW y \in Members(p) PROVE y \in Members(q) /\ y.command # Head(q).command
  <2>1. PICK i \in 1 .. Len(p) : p[i] = y
    BY DEF Members
  <2>2. i + 1 \in 1 .. Len(q) /\ q[i + 1] = y /\ i + 1 # 1
    BY <1>1, <1>2, <2>1
  <2> QED BY <1>1, <1>2, <2>2 DEF Members, Distinct
<1>6. Distinct(p)
  <2>1. SUFFICES ASSUME NEW i \in 1 .. Len(p), NEW j \in 1 .. Len(p), p[i].command = p[j].command PROVE i = j
    BY DEF Distinct
  <2>2. q[i + 1].command = q[j + 1].command /\ i + 1 \in 1 .. Len(q) /\ j + 1 \in 1 .. Len(q)
    BY <1>1, <1>2, <2>1
  <2>3. i + 1 = j + 1
    BY <2>2 DEF Distinct
  <2> QED BY <2>3
<1>7. Head(q) \in Members(q)
  BY <1>1, <1>2 DEF Members
<1> QED BY <1>1, <1>2, <1>4, <1>5, <1>6, <1>7 DEF p

LEMMA MembersAmong ==
  ASSUME NEW T, NEW q \in Seq(T), NEW S
  PROVE  /\ Among(q, S) \in Seq(T) /\ Len(Among(q, S)) \in Nat /\ Len(Among(q, S)) <= Len(q)
         /\ Members(Among(q, S)) = Members(q) \intersect S /\ (Distinct(q) => Distinct(Among(q, S)))
<1> DEFINE p == Among(q, S)
<1>1. p \in Seq(T) /\ Len(p) <= Len(q)
  BY AmongEmbeds, AmongLength
<1>2. PICK f : /\ Embeds(f, p, q)
               /\ \A i \in 1 .. Len(p) : q[f[i]] \in S
               /\ \A i \in 1 .. Len(q) : q[i] \in S => \E k \in 1 .. Len(p) : f[k] = i
  BY AmongEmbeds
<1> HIDE DEF p
<1>3. /\ f \in [1 .. Len(p) -> 1 .. Len(q)] /\ \A i \in 1 .. Len(p) : p[i] = q[f[i]]
      /\ \A i, j \in 1 .. Len(p) : i < j => f[i] < f[j]
  BY <1>2 DEF Embeds
<1>4. ASSUME NEW y \in Members(p) PROVE y \in Members(q) /\ y \in S
  BY <1>2, <1>3 DEF Members
<1>5. ASSUME NEW y \in Members(q), y \in S PROVE y \in Members(p)
  <2>1. PICK i \in 1 .. Len(q) : q[i] = y
    BY DEF Members
  <2>2. PICK k \in 1 .. Len(p) : f[k] = i
    BY <1>2, <1>5, <2>1
  <2> QED BY <1>3, <2>1, <2>2 DEF Members
<1>6. ASSUME Distinct(q) PROVE Distinct(p)
  <2>1. SUFFICES ASSUME NEW i \in 1 .. Len(p), NEW j \in 1 .. Len(p), p[i].command = p[j].command PROVE i = j
    BY DEF Distinct
  <2>2. f[i] \in 1 .. Len(q) /\ f[j] \in 1 .. Len(q) /\ f[i] = f[j]
    BY <1>3, <1>6, <2>1 DEF Distinct
  <2>3. ~(i < j) /\ ~(j < i)
    BY <1>3, <2>2
  <2>4. Len(p) \in Nat
    BY <1>1
  <2> QED BY <2>3, <2>4
<1>7. Members(p) = Members(q) \intersect S
  BY <1>4, <1>5
<1> QED BY <1>1, <1>6, <1>7 DEF p

LEMMA ControlPhase ==
  ASSUME NEW rs, ControlTyped(rs), NEW r \in rs
  PROVE  /\ ops[r] \in ControlOps /\ (Control(rs)!Pending(r) <=> ops[r].status = "queued")
         /\ ([q \in rs |-> IF q \in Uploads THEN "upload" ELSE IF q \in Notes THEN "continuous" ELSE "state"][r] = "upload" <=> r \in Uploads)
BY DEF ControlTyped, ControlOps, Control!Pending, Control!Terminal

LEMMA ControlStart ==
  ASSUME NEW rs, "nobody" \notin rs, Control(rs)!Init PROVE ControlInv(rs)
<1> DEFINE n == Control(rs)!NoOp
<1>1. /\ ops = [r \in rs |-> n] /\ commands = 0 /\ queue = <<>> /\ started = FALSE /\ results = <<>>
      /\ document = 0 /\ documents = 0 /\ releases = {} /\ holder = "nobody" /\ changes = 0 /\ ran = {}
  BY DEF Control!Init, Control!Nobody
<1>2. /\ n \in ControlOps /\ n.status = "none" /\ n.command = 0 /\ n.owner = 0
  BY DEF Control!NoOp, ControlOps, ControlPhases
<1> HIDE DEF n
<1>3. Members(queue) = {} /\ Members(results) = {} /\ Issued = {} /\ Distinct(queue) /\ Distinct(results)
  BY <1>1 DEF Members, Issued, Distinct
<1>4. ControlTyped(rs)
  <2>1. ops \in [rs -> ControlOps]
    BY <1>1, <1>2
  <2>2. queue \in Seq(ControlMarks) /\ results \in Seq(ControlReplies) /\ Len(queue) = 0 /\ Len(results) = 0
    BY <1>1
  <2>3. NodeLimit \in Nat /\ MaxDocuments \in Nat /\ MaxEffects \in Nat
    BY ControlAssumption
  <2>4. Len(queue) + Len(results) <= NodeLimit
    BY <2>2, <2>3
  <2>5. documents \in 0 .. MaxDocuments /\ document \in 0 .. documents /\ changes \in 0 .. MaxEffects /\ commands \in Nat
    BY <1>1, <2>3
  <2>6. releases \subseteq 1 .. documents /\ document \notin releases /\ ran \subseteq ControlDone /\ started \in BOOLEAN /\ ~started
    BY <1>1
  <2>7. holder \in rs \union {"nobody"}
    BY <1>1
  <2> QED BY <2>1, <2>2, <2>4, <2>5, <2>6, <2>7 DEF ControlTyped
<1>5. ControlApart(rs)
  BY <1>1, <1>2 DEF ControlApart, ControlOwn
<1>6. ControlIssued(rs) /\ ControlOnce /\ ControlUnderWay(rs) /\ ControlHeld(rs) /\ ControlEnded(rs)
  BY <1>1, <1>2, <1>3 DEF ControlIssued, ControlOnce, ControlUnderWay, ControlHeld, ControlEnded
<1> QED BY <1>4, <1>5, <1>6 DEF ControlInv

\* Some operations have come to their end, all in the same way; their commands are withdrawn.
ControlAlike(x, y) ==
  y.command = x.command /\ y.owner = x.owner /\ y.phase = x.phase /\ y.dispatched = x.dispatched /\ y.staged = x.staged
ControlFinal(rs, G, s) ==
  /\ ops' \in [rs -> ControlOps]
  /\ \A r \in rs : ControlAlike(ops[r], ops'[r]) /\ ops'[r].status = (IF r \in G THEN s ELSE ops[r].status)
  /\ holder' = (IF holder \in G THEN "nobody" ELSE holder)
ControlWithdrawn(G) ==
  /\ queue' \in Seq(ControlMarks) /\ Len(queue') <= Len(queue) /\ Distinct(queue') /\ (started => queue' # <<>>)
  /\ Members(queue') = {a \in Members(queue) : \A r \in G : ops[r].command # a.command}
  /\ results' \in Seq(ControlReplies) /\ Len(results') <= Len(results) /\ Distinct(results')
  /\ Members(results') \subseteq {p \in Members(results) : \A r \in G : ops[r].command # p.command}
ControlDocument ==
  \/ document' = document /\ releases' = releases
  \/ document # 0 /\ document' = 0 /\ releases' = releases \union {document}

LEMMA ControlQuits ==
  ASSUME NEW rs, ControlInv(rs), NEW G \in SUBSET rs, NEW s \in {"succeeded", "failed", "cancelled"},
         \A r \in G : ops[r].status = "queued", ControlFinal(rs, G, s), ControlWithdrawn(G), ControlDocument,
         UNCHANGED <<commands, started, documents, changes, ran>>,
         s = "succeeded" => \A r \in G : ControlDid(ops[r].command),
         s = "cancelled" => \A r \in G : ~ControlDid(ops[r].command)
  PROVE  ControlInv(rs)'
<1>1. ControlTyped(rs)'
  <2>1. ControlTyped(rs)
    BY DEF ControlInv
  <2>2. ops' \in [rs -> ControlOps] /\ holder' \in {holder, "nobody"}
    BY DEF ControlFinal
  <2>3. queue' \in Seq(ControlMarks) /\ results' \in Seq(ControlReplies) /\ (started' => queue' # <<>>)
    BY DEF ControlWithdrawn
  <2>4. Len(queue') + Len(results') <= NodeLimit
    <3>1. /\ Len(queue') \in Nat /\ Len(results') \in Nat /\ Len(queue) \in Nat /\ Len(results) \in Nat
          /\ Len(queue') <= Len(queue) /\ Len(results') <= Len(results)
      BY <2>1, <2>3 DEF ControlTyped, ControlWithdrawn
    <3>2. Len(queue) + Len(results) <= NodeLimit /\ NodeLimit \in Nat
      BY <2>1, ControlAssumption DEF ControlTyped
    <3> QED BY <3>1, <3>2
  <2>5. document' \in 0 .. documents /\ releases' \subseteq 1 .. documents /\ document' \notin releases'
    <3>1. documents \in Nat /\ document \in 0 .. documents /\ releases \subseteq 1 .. documents /\ document \notin releases
      BY <2>1, ControlAssumption DEF ControlTyped
    <3>2. CASE document' = document /\ releases' = releases
      BY <3>1, <3>2
    <3>3. CASE document # 0 /\ document' = 0 /\ releases' = releases \union {document}
      BY <3>1, <3>3
    <3> QED BY <3>2, <3>3 DEF ControlDocument
  <2> QED BY <2>1, <2>2, <2>3, <2>4, <2>5 DEF ControlTyped
<1>2. ASSUME NEW r \in rs
      PROVE  /\ ops'[r].command = ops[r].command /\ ops'[r].owner = ops[r].owner /\ ops'[r].phase = ops[r].phase
             /\ ops'[r].dispatched = ops[r].dispatched /\ ops'[r].staged = ops[r].staged
             /\ ops'[r].status = (IF r \in G THEN s ELSE ops[r].status)
             /\ ops'[r].status = "none" <=> ops[r].status = "none"
  BY DEF ControlFinal, ControlAlike
<1>3. ControlApart(rs)'
  BY <1>2 DEF ControlInv, ControlApart, ControlOwn
<1>4. Members(queue') \subseteq Members(queue) /\ Issued' \subseteq Issued
  BY DEF ControlWithdrawn, Issued
<1>5. ControlIssued(rs)'
  <2>1. ControlIssued(rs) /\ ControlTyped(rs)
    BY DEF ControlInv
  <2>2. ASSUME NEW x \in Issued', x.kind = "release" PROVE ControlLast(rs, x)'
    <3>1. ControlLast(rs, x)
      BY <1>4, <2>1, <2>2 DEF ControlIssued
    <3>2. x.owner \in (1 .. documents') \ releases' /\ x.owner # document'
      BY <2>1, <3>1 DEF ControlLast, ControlDocument, ControlTyped
    <3> QED BY <1>2, <1>4, <3>1, <3>2 DEF ControlLast
  <2>3. \A x \in Issued' : x.command \in 1 .. commands' /\ x.owner \in 0 .. documents'
    BY <1>4, <2>1 DEF ControlIssued
  <2>4. ASSUME NEW r \in rs, ops'[r].status = "queued", ~ops'[r].dispatched, NEW x \in Issued' PROVE x.command # ops'[r].command
    BY <1>2, <1>4, <2>1, <2>4 DEF ControlIssued
  <2> QED BY <2>2, <2>3, <2>4 DEF ControlIssued
<1>6. ControlOnce'
  BY <1>4 DEF ControlInv, ControlOnce, ControlWithdrawn
<1>7. ControlUnderWay(rs)'
  <2>1. ControlUnderWay(rs)
    BY DEF ControlInv
  <2>2. ASSUME NEW a, NEW r \in rs, \A g \in G : ops[g].command # a.command, ControlWith(ops[r], a) PROVE ControlWith(ops'[r], a)
    BY <1>2, <2>2 DEF ControlWith
  <2>3. ASSUME NEW a \in Members(queue'), a.kind # "release" PROVE \E r \in rs : ControlWith(ops'[r], a)
    <3>1. a \in Members(queue) /\ \A g \in G : ops[g].command # a.command
      BY <2>3 DEF ControlWithdrawn
    <3>2. PICK r \in rs : ControlWith(ops[r], a)
      BY <2>1, <2>3, <3>1 DEF ControlUnderWay
    <3> QED BY <2>2, <3>1, <3>2
  <2>4. ASSUME NEW p \in Members(results')
        PROVE  \E c \in ran : c.command = p.command /\ c.code = p.code /\ (c.kind # "release" => \E r \in rs : ControlWith(ops'[r], c))
    <3>1. p \in Members(results) /\ \A g \in G : ops[g].command # p.command
      BY <2>4 DEF ControlWithdrawn
    <3>2. PICK c \in ran : c.command = p.command /\ c.code = p.code /\ (c.kind # "release" => \E r \in rs : ControlWith(ops[r], c))
      BY <2>1, <3>1 DEF ControlUnderWay
    <3>3. ASSUME c.kind # "release" PROVE \E r \in rs : ControlWith(ops'[r], c)
      <4>1. PICK r \in rs : ControlWith(ops[r], c)
        BY <3>2, <3>3
      <4>2. \A g \in G : ops[g].command # c.command
        BY <3>1, <3>2
      <4> QED BY <2>2, <4>1, <4>2
    <3> QED BY <3>2, <3>3
  <2> QED BY <2>3, <2>4 DEF ControlUnderWay
<1>8. ControlHeld(rs)'
  <2>1. ControlHeld(rs) /\ holder \in rs \union {"nobody"} /\ holder' = (IF holder \in G THEN "nobody" ELSE holder)
    BY DEF ControlInv, ControlTyped, ControlFinal
  <2>2. ASSUME NEW r \in rs, ops'[r].status = "queued" PROVE r \notin G /\ ops[r].status = "queued"
    BY <1>2, <2>2
  <2>3. holder' # "nobody" => ops'[holder'].status = "queued"
    BY <1>2, <2>1 DEF ControlHeld
  <2>4. ASSUME NEW r \in rs, ops'[r].status = "queued", ops'[r].dispatched, r \in Undone, ops'[r].phase \in {"run", "commit"}
        PROVE  holder' = r
    BY <1>2, <2>1, <2>2, <2>4 DEF ControlHeld
  <2> QED BY <2>3, <2>4 DEF ControlHeld
<1>9. ControlEnded(rs)'
  <2>1. \A n : ControlDid(n)' <=> ControlDid(n)
    BY DEF ControlDid
  <2>2. ControlEnded(rs)
    BY DEF ControlInv
  <2>3. ASSUME NEW r \in rs
        PROVE  /\ ops'[r].status = "succeeded" => ControlDid(ops[r].command)
               /\ ops'[r].status = "cancelled" => ~ControlDid(ops[r].command)
    BY <1>2, <2>2 DEF ControlEnded
  <2> QED BY <1>2, <2>1, <2>3 DEF ControlEnded
<1> QED BY <1>1, <1>3, <1>5, <1>6, <1>7, <1>8, <1>9 DEF ControlInv

\* What was not dispatched is nowhere.
LEMMA ControlAbsent ==
  ASSUME NEW rs, ControlInv(rs), NEW r \in rs, ops[r].status = "queued", ~ops[r].dispatched
  PROVE  /\ \A a \in Members(queue) : a.command # ops[r].command
         /\ \A p \in Members(results) : p.command # ops[r].command
         /\ \A c \in ran : c.command # ops[r].command
         /\ ~ControlDid(ops[r].command)
<1>1. \A x \in Issued : x.command # ops[r].command
  BY DEF ControlInv, ControlIssued
<1>2. ASSUME NEW c \in ran PROVE c.command # ops[r].command
  <2>1. Mark(c) \in Issued /\ Mark(c).command = c.command
    BY DEF Issued, Mark
  <2> QED BY <1>1, <2>1
<1>3. ASSUME NEW p \in Members(results) PROVE p.command # ops[r].command
  <2>1. PICK c \in ran : c.command = p.command
    BY DEF ControlInv, ControlUnderWay
  <2> QED BY <1>2, <2>1
<1>4. \A a \in Members(queue) : a.command # ops[r].command
  BY <1>1 DEF Issued
<1> QED BY <1>2, <1>3, <1>4 DEF ControlDid

\* What waits in the queue is not done.
LEMMA ControlWaits ==
  ASSUME NEW rs, ControlInv(rs), NEW a \in Members(queue)
  PROVE  (\A p \in Members(results) : p.command # a.command) /\ ~ControlDid(a.command)
<1>1. \A c \in ran : a.command # c.command
  BY DEF ControlInv, ControlOnce
<1>2. ASSUME NEW p \in Members(results) PROVE p.command # a.command
  <2>1. PICK c \in ran : c.command = p.command
    BY DEF ControlInv, ControlUnderWay
  <2> QED BY <1>1, <2>1
<1> QED BY <1>1, <1>2 DEF ControlDid

LEMMA ControlRemoved ==
  ASSUME NEW rs, ControlInv(rs), NEW G \in SUBSET rs,
         \A r \in G : ops[r].status = "queued" /\ (ops[r].dispatched => Control(rs)!Removable(ops[r].command)),
         queue' = Control(rs)!Removed({ops[r].command : r \in G}), results' = results
  PROVE  ControlWithdrawn(G) /\ \A r \in G : ~ControlDid(ops[r].command)
<1> DEFINE S == {queue[i] : i \in {j \in DOMAIN queue : queue[j].command \notin {ops[r].command : r \in G}}}
<1>1. /\ queue \in Seq(ControlMarks) /\ results \in Seq(ControlReplies) /\ Distinct(queue) /\ Distinct(results)
      /\ (started => queue # <<>>)
  BY DEF ControlInv, ControlTyped, ControlOnce
<1>2. queue' = Among(queue, S)
  BY DEF Control!Removed, Control!Among, Among
<1>3. \A a : a \in S <=> a \in Members(queue) /\ \A r \in G : ops[r].command # a.command
  BY <1>1 DEF Members
<1> HIDE DEF S
<1>4. /\ queue' \in Seq(ControlMarks) /\ Len(queue') \in Nat /\ Len(queue') <= Len(queue) /\ Distinct(queue')
      /\ Members(queue') = Members(queue) \intersect S
  <2> DEFINE k == Among(queue, S)
  <2>1. /\ k \in Seq(ControlMarks) /\ Len(k) \in Nat /\ Len(k) <= Len(queue) /\ Distinct(k)
        /\ Members(k) = Members(queue) \intersect S
    BY <1>1, MembersAmong
  <2> HIDE DEF k
  <2>2. queue' = k
    BY <1>2 DEF k
  <2> QED BY <2>1, <2>2
<1>5. Members(queue') = {a \in Members(queue) : \A r \in G : ops[r].command # a.command}
  BY <1>3, <1>4
<1>6. ASSUME NEW r \in G
      PROVE  /\ (\A p \in Members(results) : p.command # ops[r].command) /\ ~ControlDid(ops[r].command)
             /\ started => queue[1].command # ops[r].command
  <2>1. CASE ~ops[r].dispatched
    <3>1. started => queue[1] \in Members(queue)
      BY <1>1 DEF Members
    <3> QED BY <2>1, <3>1, ControlAbsent
  <2>2. CASE ops[r].dispatched
    <3>1. PICK i \in 1 .. Len(queue) : queue[i].command = ops[r].command /\ ~(i = 1 /\ started)
      BY <1>1, <2>2 DEF Control!Removable, Control!At
    <3>2. queue[i] \in Members(queue)
      BY DEF Members
    <3>3. started => 1 \in 1 .. Len(queue)
      BY <1>1
    <3>4. started => queue[1].command # ops[r].command
      BY <1>1, <3>1, <3>3 DEF Distinct
    <3> QED BY <3>1, <3>2, <3>4, ControlWaits
  <2> QED BY <2>1, <2>2
<1>7. started => queue' # <<>>
  <2>1. SUFFICES ASSUME started PROVE queue' # <<>>
    OBVIOUS
  <2>2. queue[1] \in Members(queue)
    BY <1>1, <2>1 DEF Members
  <2>3. queue[1] \in Members(queue')
    BY <1>5, <1>6, <2>1, <2>2
  <2>4. PICK i \in 1 .. Len(queue') : queue'[i] = queue[1]
    BY <2>3 DEF Members
  <2> QED BY <1>4, <2>4
<1>8. Members(results') \subseteq {p \in Members(results) : \A r \in G : ops[r].command # p.command}
  BY <1>6
<1> QED BY <1>1, <1>4, <1>5, <1>6, <1>7, <1>8 DEF ControlWithdrawn

LEMMA ControlCancels ==
  ASSUME NEW rs, ControlInv(rs), NEW r \in rs, Control(rs)!CancelOperation(r) PROVE ControlInv(rs)'
<1>1. UNCHANGED <<commands, started, results, document, documents, releases, changes, ran>>
  BY DEF Control!CancelOperation, Control!Documents
<1>2. /\ ops \in [rs -> ControlOps] /\ ops[r].status = "queued" /\ holder \in rs \union {"nobody"} /\ "nobody" \notin rs
      /\ queue \in Seq(ControlMarks) /\ results \in Seq(ControlReplies) /\ Distinct(queue) /\ Distinct(results)
      /\ started => queue # <<>>
  BY ControlPhase DEF ControlInv, ControlTyped, ControlOnce, Control!CancelOperation
<1>3. \/ /\ ops' = [ops EXCEPT ![r].cancelling = TRUE] /\ holder' = holder /\ queue' = queue
      \/ /\ ~ops[r].dispatched /\ queue' = queue /\ holder' = (IF holder = r THEN "nobody" ELSE holder)
         /\ ops' = [[ops EXCEPT ![r].cancelling = TRUE] EXCEPT ![r].status = "cancelled"]
      \/ /\ ops[r].dispatched => Control(rs)!Removable(ops[r].command)
         /\ queue' = Control(rs)!Removed({ops[r].command})
         /\ ops' = [ops EXCEPT ![r].status = "cancelled"] /\ holder' = (IF holder = r THEN "nobody" ELSE holder)
  BY <1>2 DEF Control!CancelOperation, Control!Finished, Control!Nobody, ControlOps
<1>4. CASE ops' = [ops EXCEPT ![r].cancelling = TRUE] /\ holder' = holder /\ queue' = queue
  <2> DEFINE G == {x \in rs : FALSE}
  <2>1. ControlFinal(rs, G, "failed")
    BY <1>2, <1>4 DEF ControlFinal, ControlAlike, ControlOps
  <2>2. ControlWithdrawn(G)
    BY <1>1, <1>2, <1>4 DEF ControlWithdrawn
  <2>3. ControlDocument /\ \A g \in G : ops[g].status = "queued"
    BY <1>1 DEF ControlDocument
  <2> QED BY <1>1, <2>1, <2>2, <2>3, ControlQuits
<1> DEFINE G == {r}
<1>5. ASSUME ops' = [ops EXCEPT ![r].status = "cancelled"]
             \/ ops' = [[ops EXCEPT ![r].cancelling = TRUE] EXCEPT ![r].status = "cancelled"],
             holder' = (IF holder = r THEN "nobody" ELSE holder), ControlWithdrawn(G), ~ControlDid(ops[r].command)
      PROVE  ControlInv(rs)'
  <2>3. PICK x \in {ops[r], [ops[r] EXCEPT !.cancelling = TRUE]} : ops' = [ops EXCEPT ![r] = [x EXCEPT !.status = "cancelled"]]
    BY <1>2, <1>5
  <2>4. x \in ControlOps /\ ControlAlike(ops[r], x)
    BY <1>2, <2>3 DEF ControlAlike, ControlOps
  <2>5. [x EXCEPT !.status = "cancelled"] \in ControlOps /\ ControlAlike(ops[r], [x EXCEPT !.status = "cancelled"])
        /\ [x EXCEPT !.status = "cancelled"].status = "cancelled"
    BY <2>4 DEF ControlAlike, ControlOps
  <2> DEFINE y == [x EXCEPT !.status = "cancelled"]
  <2> HIDE DEF y
  <2>6. y \in ControlOps /\ ControlAlike(ops[r], y) /\ y.status = "cancelled" /\ ops' = [ops EXCEPT ![r] = y]
    BY <2>3, <2>5 DEF y
  <2>1. ControlFinal(rs, G, "cancelled")
    BY <1>2, <1>5, <2>6 DEF ControlFinal, ControlAlike
  <2>2. ControlDocument /\ \A g \in G : ops[g].status = "queued" /\ ~ControlDid(ops[g].command)
    BY <1>1, <1>2, <1>5 DEF ControlDocument
  <2> QED BY <1>1, <1>5, <2>1, <2>2, ControlQuits
<1>6. CASE /\ ~ops[r].dispatched /\ queue' = queue /\ holder' = (IF holder = r THEN "nobody" ELSE holder)
           /\ ops' = [[ops EXCEPT ![r].cancelling = TRUE] EXCEPT ![r].status = "cancelled"]
  <2>1. ControlWithdrawn(G) /\ ~ControlDid(ops[r].command)
    BY <1>1, <1>2, <1>6, ControlAbsent DEF ControlWithdrawn
  <2> QED BY <1>5, <1>6, <2>1
<1>7. CASE /\ ops[r].dispatched => Control(rs)!Removable(ops[r].command)
           /\ queue' = Control(rs)!Removed({ops[r].command})
           /\ ops' = [ops EXCEPT ![r].status = "cancelled"] /\ holder' = (IF holder = r THEN "nobody" ELSE holder)
  <2>1. {ops[r].command} = {ops[g].command : g \in G}
    OBVIOUS
  <2>2. queue' = Control(rs)!Removed({ops[g].command : g \in G})
    BY <1>7, <2>1
  <2>3. ControlWithdrawn(G) /\ ~ControlDid(ops[r].command)
    BY <1>1, <1>2, <1>7, <2>2, ControlRemoved
  <2> QED BY <1>5, <1>7, <2>3
<1> QED BY <1>3, <1>4, <1>6, <1>7

LEMMA ControlReleasesOwner ==
  ASSUME NEW rs, ControlInv(rs), Control(rs)!ReleaseOwner PROVE ControlInv(rs)'
<1>1. /\ UNCHANGED <<commands, started, results, documents, changes, ran>>
      /\ document # 0 /\ document' = 0 /\ releases' = releases \union {document}
  BY DEF Control!ReleaseOwner
<1>2. PICK gone \in SUBSET {r \in rs : Control(rs)!Pending(r) /\ ops[r].owner = document} :
        /\ \A r \in gone : ops[r].dispatched => Control(rs)!Removable(ops[r].command)
        /\ ops' = [r \in rs |-> IF r \in gone THEN [ops[r] EXCEPT !.status = "cancelled"] ELSE ops[r]]
        /\ queue' = Control(rs)!Removed({ops[r].command : r \in gone})
        /\ holder' = IF holder \in gone THEN "nobody" ELSE holder
  BY DEF Control!ReleaseOwner, Control!Nobody
<1>3. ops \in [rs -> ControlOps] /\ gone \in SUBSET rs
  BY <1>2 DEF ControlInv, ControlTyped
<1>4. \A r \in gone : ops[r].status = "queued"
  BY <1>2, <1>3, ControlPhase DEF ControlInv
<1>5. ControlWithdrawn(gone) /\ \A r \in gone : ~ControlDid(ops[r].command)
  BY <1>1, <1>2, <1>3, <1>4, ControlRemoved
<1>6. ControlFinal(rs, gone, "cancelled")
  BY <1>2, <1>3 DEF ControlFinal, ControlAlike, ControlOps
<1>7. ControlDocument
  BY <1>1 DEF ControlDocument
<1> QED BY <1>1, <1>3, <1>4, <1>5, <1>6, <1>7, ControlQuits

\* A result is that of the operation whose command has run.
LEMMA ControlReply ==
  ASSUME NEW rs, ControlInv(rs), results # <<>>, NEW r \in rs, ops[r].status = "queued",
         ops[r].command = Head(results).command
  PROVE  /\ ops[r].dispatched
         /\ \E c \in ran : /\ c.command = ops[r].command /\ c.code = Head(results).code /\ c.kind = ops[r].phase
                           /\ \A d \in ran : d.command = ops[r].command => d = c
<1>1. results \in Seq(ControlReplies) /\ Distinct(results)
  BY DEF ControlInv, ControlTyped, ControlOnce
<1>2. Head(results) \in Members(results)
  BY <1>1, MembersTail
<1>3. PICK c \in ran : /\ c.command = Head(results).command /\ c.code = Head(results).code
                       /\ c.kind # "release" => \E q \in rs : ControlWith(ops[q], c)
  BY <1>2 DEF ControlInv, ControlUnderWay
<1>4. Mark(c) \in Issued /\ Mark(c).command = c.command /\ Mark(c).kind = c.kind
  BY DEF Issued, Mark
<1>5. c.kind # "release"
  <2>1. SUFFICES ASSUME c.kind = "release" PROVE FALSE
    OBVIOUS
  <2>2. ControlLast(rs, Mark(c))
    BY <1>4, <2>1 DEF ControlInv, ControlIssued
  <2>3. ops[r].command # c.command
    BY <1>4, <2>2 DEF ControlLast
  <2> QED BY <1>3, <2>3
<1>6. PICK q \in rs : ControlWith(ops[q], c)
  BY <1>3, <1>5
<1>7. ControlOwn(r) /\ (ops[r].command = ops[q].command /\ ops[r].command # 0 => r = q)
  BY DEF ControlInv, ControlApart
<1>8. r = q
  BY <1>3, <1>6, <1>7 DEF ControlOwn, ControlWith
<1>9. \A d \in ran : d.command = ops[r].command => d = c
  BY <1>3 DEF ControlInv, ControlOnce
<1> QED BY <1>3, <1>6, <1>8, <1>9 DEF ControlWith

LEMMA ControlGoesOn ==
  ASSUME NEW rs, ControlInv(rs), results # <<>>, NEW r \in rs, ops[r].status = "queued",
         ops[r].command = Head(results).command, ops[r].owner = 0, results' = Tail(results), commands' = commands + 1,
         NEW y \in ControlOps, y.status = "queued", y.command = commands + 1, y.owner = 0, ~y.dispatched,
         ops' = [ops EXCEPT ![r] = y],
         UNCHANGED <<queue, started, document, documents, releases, holder, changes, ran>>
  PROVE  ControlInv(rs)'
<1>1. ControlTyped(rs) /\ ControlApart(rs) /\ ControlIssued(rs) /\ ControlOnce /\ ControlUnderWay(rs) /\ ControlHeld(rs)
      /\ ControlEnded(rs)
  BY DEF ControlInv
<1>2. ops \in [rs -> ControlOps] /\ results \in Seq(ControlReplies) /\ commands \in Nat /\ documents \in Nat
  BY <1>1, ControlAssumption DEF ControlTyped
<1>3. /\ results' \in Seq(ControlReplies) /\ Len(results') = Len(results) - 1 /\ Members(results') \subseteq Members(results)
      /\ Distinct(results') /\ \A p \in Members(results') : p.command # ops[r].command
  <2> DEFINE k == Tail(results)
  <2>1. /\ k \in Seq(ControlReplies) /\ Len(k) = Len(results) - 1 /\ Members(k) \subseteq Members(results)
        /\ Distinct(k) /\ \A p \in Members(k) : p.command # ops[r].command
    BY <1>1, <1>2, MembersTail DEF ControlOnce
  <2> HIDE DEF k
  <2>2. results' = k
    BY DEF k
  <2> QED BY <2>1, <2>2
<1>4. ops' \in [rs -> ControlOps] /\ ops'[r] = y /\ \A q \in rs \ {r} : ops'[q] = ops[q]
  BY <1>2
<1>5. \A q \in rs : ops[q].command \in 0 .. commands /\ ops'[q].owner = ops[q].owner
  BY <1>1, <1>4 DEF ControlApart, ControlOwn
<1>6. Issued' = Issued /\ \A x \in Issued : x.command \in 1 .. commands /\ x.command # y.command
  BY <1>1, <1>2 DEF ControlIssued, Issued, Members
<1>7. ControlTyped(rs)'
  <2>1. Len(queue) \in Nat /\ Len(results) \in Nat /\ Len(queue) + Len(results) <= NodeLimit /\ NodeLimit \in Nat
    BY <1>1, ControlAssumption DEF ControlTyped
  <2>2. Len(queue') + Len(results') <= NodeLimit
    BY <1>3, <2>1
  <2>3. commands' \in Nat
    BY <1>2
  <2> QED BY <1>1, <1>3, <1>4, <2>2, <2>3 DEF ControlTyped
<1>8. ControlApart(rs)'
  <2>1. ASSUME NEW q \in rs PROVE ControlOwn(q)'
    <3>1. CASE q = r
      BY <1>2, <1>4, <3>1 DEF ControlOwn
    <3>2. CASE q # r
      BY <1>1, <1>2, <1>4, <3>2 DEF ControlOwn, ControlApart
    <3> QED BY <3>1, <3>2
  <2>2. ASSUME NEW p \in rs, NEW q \in rs, ops'[p].command = ops'[q].command, ops'[p].command # 0 PROVE p = q
    <3>1. CASE p # r /\ q # r
      BY <1>1, <1>4, <2>2, <3>1 DEF ControlApart
    <3>2. CASE p = r \/ q = r
      BY <1>2, <1>4, <1>5, <2>2, <3>2
    <3> QED BY <3>1, <3>2
  <2> QED BY <2>1, <2>2 DEF ControlApart
<1>9. ControlIssued(rs)'
  <2>1. \A x \in Issued' : x.command \in 1 .. commands' /\ x.owner \in 0 .. documents'
    BY <1>1, <1>2, <1>6 DEF ControlIssued
  <2>2. ASSUME NEW x \in Issued', x.kind = "release" PROVE ControlLast(rs, x)'
    <3>1. ControlLast(rs, x)
      BY <1>1, <1>6, <2>2 DEF ControlIssued
    <3>2. x.owner \in 1 .. documents
      BY <3>1 DEF ControlLast
    <3>3. ASSUME NEW q \in rs PROVE ops'[q].command # x.command /\ (ops'[q].owner = x.owner => ops'[q].command < x.command)
      <4>1. CASE q = r
        BY <1>4, <1>6, <2>2, <3>2, <4>1
      <4>2. CASE q # r
        BY <1>4, <3>1, <4>2 DEF ControlLast
      <4> QED BY <4>1, <4>2
    <3> QED BY <1>6, <3>1, <3>3 DEF ControlLast
  <2>3. ASSUME NEW q \in rs, ops'[q].status = "queued", ~ops'[q].dispatched, NEW x \in Issued' PROVE x.command # ops'[q].command
    BY <1>1, <1>4, <1>6, <2>3 DEF ControlIssued
  <2> QED BY <2>1, <2>2, <2>3 DEF ControlIssued
<1>10. ControlOnce'
  BY <1>1, <1>3 DEF ControlOnce, Distinct, Members
<1>11. ControlUnderWay(rs)'
  <2>1. PICK d \in ran : d.command = ops[r].command
    BY ControlReply
  <2>2. \A a \in Members(queue) : a.command # ops[r].command
    BY <1>1, <2>1 DEF ControlOnce
  <2>3. ASSUME NEW a, NEW q \in rs, a.command # ops[r].command, ControlWith(ops[q], a) PROVE ControlWith(ops'[q], a)
    BY <1>4, <2>3 DEF ControlWith
  <2>4. ASSUME NEW a \in Members(queue), a.kind # "release" PROVE \E q \in rs : ControlWith(ops'[q], a)
    BY <1>1, <2>2, <2>3, <2>4 DEF ControlUnderWay
  <2>5. ASSUME NEW p \in Members(results')
        PROVE  \E c \in ran : c.command = p.command /\ c.code = p.code /\ (c.kind # "release" => \E q \in rs : ControlWith(ops'[q], c))
    <3>1. p \in Members(results) /\ p.command # ops[r].command
      BY <1>3
    <3>2. PICK c \in ran : c.command = p.command /\ c.code = p.code /\ (c.kind # "release" => \E q \in rs : ControlWith(ops[q], c))
      BY <1>1, <3>1 DEF ControlUnderWay
    <3>3. c.command # ops[r].command
      BY <3>1, <3>2
    <3>4. c.kind # "release" => \E q \in rs : ControlWith(ops'[q], c)
      BY <2>3, <3>2, <3>3
    <3> QED BY <3>2, <3>4
  <2>6. Members(queue') = Members(queue)
    BY DEF Members
  <2> QED BY <2>4, <2>5, <2>6 DEF ControlUnderWay
<1>12. ControlHeld(rs)'
  <2>1. holder \in rs \union {"nobody"}
    BY <1>1 DEF ControlTyped
  <2>2. holder # "nobody" => ops'[holder].status = "queued"
    BY <1>1, <1>4, <2>1 DEF ControlHeld
  <2>3. ASSUME NEW q \in rs, ops'[q].status = "queued", ops'[q].dispatched, q \in Undone, ops'[q].phase \in {"run", "commit"}
        PROVE  holder = q
    BY <1>1, <1>4, <2>3 DEF ControlHeld
  <2> QED BY <2>2, <2>3 DEF ControlHeld
<1>13. ControlEnded(rs)'
  <2>1. \A n : ControlDid(n)' <=> ControlDid(n)
    BY DEF ControlDid
  <2>2. ASSUME NEW q \in rs
        PROVE  /\ ops'[q].status = "succeeded" => ControlDid(ops'[q].command)
               /\ ops'[q].status = "cancelled" => ~ControlDid(ops'[q].command)
    BY <1>1, <1>4 DEF ControlEnded
  <2> QED BY <2>1, <2>2 DEF ControlEnded
<1> QED BY <1>7, <1>8, <1>9, <1>10, <1>11, <1>12, <1>13 DEF ControlInv

LEMMA ControlTakes ==
  ASSUME NEW rs, ControlInv(rs), Control(rs)!TakeResult PROVE ControlInv(rs)'
<1>1. /\ UNCHANGED <<queue, started, document, documents, releases, changes, ran>>
      /\ results # <<>> /\ results' = Tail(results)
  BY DEF Control!TakeResult, Control!Documents
<1>2. /\ ops \in [rs -> ControlOps] /\ holder \in rs \union {"nobody"} /\ "nobody" \notin rs
      /\ queue \in Seq(ControlMarks) /\ results \in Seq(ControlReplies) /\ Distinct(queue) /\ Distinct(results)
      /\ (started => queue # <<>>) /\ commands \in Nat
  BY DEF ControlInv, ControlTyped, ControlOnce
<1>3. /\ results' \in Seq(ControlReplies) /\ Len(results') <= Len(results) /\ Members(results') \subseteq Members(results)
      /\ Distinct(results') /\ \A p \in Members(results') : p.command # Head(results).command
  <2> DEFINE k == Tail(results)
  <2>1. /\ k \in Seq(ControlReplies) /\ Len(k) = Len(results) - 1 /\ Members(k) \subseteq Members(results)
        /\ Distinct(k) /\ \A p \in Members(k) : p.command # Head(results).command
    BY <1>1, <1>2, MembersTail
  <2>2. Len(k) <= Len(results)
    BY <1>2, <2>1
  <2> HIDE DEF k
  <2>3. results' = k
    BY <1>1 DEF k
  <2> QED BY <2>1, <2>2, <2>3
<1>4. ControlDocument /\ queue' = queue /\ Members(queue') = Members(queue)
  BY <1>1 DEF ControlDocument
<1>5. CASE UNCHANGED <<ops, holder, commands>>
  <2> DEFINE G == {r \in rs : FALSE}
  <2>1. ControlFinal(rs, G, "failed")
    BY <1>2, <1>5 DEF ControlFinal, ControlAlike
  <2>2. ControlWithdrawn(G)
    BY <1>1, <1>2, <1>3, <1>4 DEF ControlWithdrawn
  <2>3. \A g \in G : ops[g].status = "queued"
    OBVIOUS
  <2> QED BY <1>1, <1>4, <1>5, <2>1, <2>2, <2>3, ControlQuits
<1>6. CASE ~UNCHANGED <<ops, holder, commands>>
  <2> DEFINE code == Head(results).code
  <2>1. PICK r \in rs :
          /\ Control(rs)!Pending(r) /\ ops[r].command = Head(results).command
          /\ \/ /\ commands' = commands
                /\ \/ ops[r].phase = "abort" /\ \E s \in {"cancelled", "failed"} : Control(rs)!Finished(ops, r, s)
                   \/ ops[r].phase \notin {"abort", "stage", "send"} /\ code = 0 /\ Control(rs)!Finished(ops, r, "succeeded")
                   \/ code = 6 /\ Control(rs)!Finished(ops, r, "cancelled")
                   \/ Control(rs)!Finished(ops, r, "failed")
             \/ /\ ops[r].phase \in {"stage", "send"} \/ ops[r].staged
                /\ \E p \in ControlPhases : Control(rs)!Advance(r, p, TRUE)
    BY <1>6 DEF Control!TakeResult, ControlPhases
  <2>2. ops[r].status = "queued" /\ ops[r] \in ControlOps
    BY <2>1, ControlPhase DEF ControlInv
  <2>3. PICK c \in ran : /\ c.command = ops[r].command /\ c.code = code /\ c.kind = ops[r].phase
                         /\ \A d \in ran : d.command = ops[r].command => d = c
    BY <1>1, <2>1, <2>2, ControlReply
  <2> DEFINE G == {r}
  <2>4. ASSUME NEW s \in {"succeeded", "cancelled", "failed"}, commands' = commands, Control(rs)!Finished(ops, r, s),
               s = "succeeded" => ControlDid(ops[r].command), s = "cancelled" => ~ControlDid(ops[r].command)
        PROVE  ControlInv(rs)'
    <3>1. ops' = [ops EXCEPT ![r] = [ops[r] EXCEPT !.status = s]] /\ holder' = (IF holder = r THEN "nobody" ELSE holder)
      BY <2>4 DEF Control!Finished, Control!Nobody
    <3> DEFINE y == [ops[r] EXCEPT !.status = s]
    <3>2. y \in ControlOps /\ ControlAlike(ops[r], y) /\ y.status = s
      BY <2>2 DEF ControlOps, ControlAlike
    <3> HIDE DEF y
    <3>3. ops' = [ops EXCEPT ![r] = y]
      BY <3>1 DEF y
    <3>4. ControlFinal(rs, G, s)
      BY <1>2, <3>1, <3>2, <3>3 DEF ControlFinal, ControlAlike
    <3>5. \A a \in Members(queue) : a.command # ops[r].command
      BY <2>3 DEF ControlInv, ControlOnce
    <3>6. ControlWithdrawn(G)
      BY <1>1, <1>2, <1>3, <1>4, <2>1, <3>5 DEF ControlWithdrawn
    <3>7. (\A g \in G : ops[g].status = "queued") /\ (s = "succeeded" => \A g \in G : ControlDid(ops[g].command))
          /\ (s = "cancelled" => \A g \in G : ~ControlDid(ops[g].command))
      BY <2>2, <2>4
    <3> QED BY <1>1, <1>4, <2>4, <3>4, <3>6, <3>7, ControlQuits
  <2>5. CASE commands' = commands
             /\ \/ ops[r].phase = "abort" /\ \E s \in {"cancelled", "failed"} : Control(rs)!Finished(ops, r, s)
                \/ ops[r].phase \notin {"abort", "stage", "send"} /\ code = 0 /\ Control(rs)!Finished(ops, r, "succeeded")
                \/ code = 6 /\ Control(rs)!Finished(ops, r, "cancelled")
                \/ Control(rs)!Finished(ops, r, "failed")
    <3>1. CASE ops[r].phase = "abort" /\ \E s \in {"cancelled", "failed"} : Control(rs)!Finished(ops, r, s)
      <4>1. ~ControlDid(ops[r].command)
        BY <2>3, <3>1 DEF ControlDid
      <4> QED BY <2>4, <2>5, <3>1, <4>1
    <3>2. CASE ops[r].phase \notin {"abort", "stage", "send"} /\ code = 0 /\ Control(rs)!Finished(ops, r, "succeeded")
      <4>1. ops[r].phase \in {"run", "commit"}
        BY <2>2, <3>2 DEF ControlOps, ControlPhases
      <4>2. ControlDid(ops[r].command)
        BY <2>3, <3>2, <4>1 DEF ControlDid
      <4> QED BY <2>4, <2>5, <3>2, <4>2
    <3>3. CASE code = 6 /\ Control(rs)!Finished(ops, r, "cancelled")
      <4>1. ~ControlDid(ops[r].command)
        BY <2>3, <3>3 DEF ControlDid
      <4> QED BY <2>4, <2>5, <3>3, <4>1
    <3>4. CASE Control(rs)!Finished(ops, r, "failed")
      BY <2>4, <2>5, <3>4
    <3> QED BY <2>5, <3>1, <3>2, <3>3, <3>4
  <2>6. CASE (ops[r].phase \in {"stage", "send"} \/ ops[r].staged) /\ \E p \in ControlPhases : Control(rs)!Advance(r, p, TRUE)
    <3>1. PICK p \in ControlPhases : Control(rs)!Advance(r, p, TRUE)
      BY <2>6
    <3> DEFINE y == [ops[r] EXCEPT !.phase = p, !.command = commands + 1, !.dispatched = FALSE, !.staged = TRUE]
    <3>2. commands' = commands + 1 /\ holder' = holder /\ ops' = [ops EXCEPT ![r] = y]
      BY <1>2, <3>1 DEF Control!Advance
    <3>3. ops[r].owner = 0
      <4>1. ControlOwn(r)
        BY DEF ControlInv, ControlApart
      <4> QED BY <2>6, <4>1 DEF ControlOwn
    <3>5. commands + 1 \in Nat
      BY <1>2
    <3>6. y \in ControlOps
      BY <2>2, <3>5 DEF ControlOps
    <3>4. y \in ControlOps /\ y.status = "queued" /\ y.command = commands + 1 /\ y.owner = 0 /\ ~y.dispatched
      BY <2>2, <3>3, <3>6 DEF ControlOps
    <3> HIDE DEF y
    <3> QED BY <1>1, <2>1, <2>2, <3>2, <3>3, <3>4, ControlGoesOn
  <2> QED BY <2>1, <2>5, <2>6
<1> QED BY <1>5, <1>6

LEMMA ControlChanges ==
  ASSUME NEW rs, ControlInv(rs), Control(rs)!Changed PROVE ControlInv(rs)'
<1>1. ControlTyped(rs) /\ ControlApart(rs) /\ ControlIssued(rs) /\ ControlOnce
  BY DEF ControlInv
<1> DEFINE n == Control(rs)!NoOp
<1>2. /\ queue' = <<>> /\ started' = FALSE /\ results' = <<>> /\ document' = 0 /\ releases' = {} /\ holder' = "nobody"
      /\ changes' = changes + 1 /\ changes < MaxEffects /\ UNCHANGED <<commands, documents, ran>>
      /\ ops' = [r \in rs |-> IF ops[r].status = "none" THEN n ELSE [ops[r] EXCEPT !.status = "failed"]]
  BY DEF Control!Changed, Control!Nobody
<1>3. n \in ControlOps /\ n.status = "none" /\ n.command = 0 /\ n.owner = 0
  BY DEF Control!NoOp, ControlOps, ControlPhases
<1> HIDE DEF n
<1>4. ops \in [rs -> ControlOps]
  BY <1>1 DEF ControlTyped
<1>5. ASSUME NEW r \in rs
      PROVE  /\ ops'[r] \in ControlOps /\ ops'[r].command = ops[r].command /\ ops'[r].owner = ops[r].owner
             /\ ops'[r].status \in {"none", "failed"} /\ (ops'[r].status = "none" <=> ops[r].status = "none")
             /\ (ops'[r].owner # 0 => ops'[r].phase = ops[r].phase /\ ops'[r].staged = ops[r].staged)
  <2>1. ControlOwn(r)
    BY <1>1 DEF ControlApart
  <2>2. CASE ops[r].status = "none"
    BY <1>2, <1>3, <2>1, <2>2 DEF ControlOwn
  <2>3. CASE ops[r].status # "none"
    BY <1>2, <1>4, <2>3 DEF ControlOps
  <2> QED BY <2>2, <2>3
<1>6. Members(queue') = {} /\ Members(results') = {} /\ Distinct(queue') /\ Distinct(results')
  BY <1>2 DEF Members, Distinct
<1>7. Issued' \subseteq Issued
  BY <1>2, <1>6 DEF Issued
<1>8. ControlTyped(rs)'
  <2>1. queue' \in Seq(ControlMarks) /\ results' \in Seq(ControlReplies) /\ Len(queue') = 0 /\ Len(results') = 0
    BY <1>2
  <2>2. Len(queue') + Len(results') <= NodeLimit
    BY <2>1, ControlAssumption
  <2>3. ops' \in [rs -> ControlOps]
    BY <1>2, <1>5
  <2>4. changes' \in 0 .. MaxEffects /\ document' \in 0 .. documents'
    BY <1>1, <1>2, ControlAssumption DEF ControlTyped
  <2> QED BY <1>1, <1>2, <2>1, <2>2, <2>3, <2>4 DEF ControlTyped
<1>9. ControlApart(rs)'
  <2>1. ASSUME NEW r \in rs PROVE ControlOwn(r)'
    <3>1. ControlOwn(r)
      BY <1>1 DEF ControlApart
    <3> QED BY <1>2, <1>5, <3>1 DEF ControlOwn
  <2>2. ASSUME NEW r \in rs, NEW q \in rs, ops'[r].command = ops'[q].command, ops'[r].command # 0 PROVE r = q
    BY <1>1, <1>5, <2>2 DEF ControlApart
  <2> QED BY <2>1, <2>2 DEF ControlApart
<1>10. ControlIssued(rs)'
  <2>1. ASSUME NEW x \in Issued', x.kind = "release" PROVE ControlLast(rs, x)'
    <3>1. ControlLast(rs, x)
      BY <1>1, <1>7, <2>1 DEF ControlIssued
    <3>2. x.owner \in (1 .. documents') \ releases' /\ x.owner # document'
      BY <1>2, <3>1 DEF ControlLast
    <3>3. ASSUME NEW r \in rs PROVE ops'[r].command # x.command /\ (ops'[r].owner = x.owner => ops'[r].command < x.command)
      BY <1>5, <3>1 DEF ControlLast
    <3>4. \A y \in Issued' : y.owner = x.owner => y.command <= x.command
      BY <1>7, <3>1 DEF ControlLast
    <3> QED BY <3>2, <3>3, <3>4 DEF ControlLast
  <2>2. \A x \in Issued' : x.command \in 1 .. commands' /\ x.owner \in 0 .. documents'
    BY <1>1, <1>2, <1>7 DEF ControlIssued
  <2>3. \A r \in rs : ops'[r].status # "queued"
    BY <1>5
  <2> QED BY <2>1, <2>2, <2>3 DEF ControlIssued
<1>11. ControlOnce' /\ ControlUnderWay(rs)' /\ ControlHeld(rs)' /\ ControlEnded(rs)'
  BY <1>1, <1>2, <1>5, <1>6 DEF ControlOnce, ControlUnderWay, ControlHeld, ControlEnded
<1> QED BY <1>8, <1>9, <1>10, <1>11 DEF ControlInv

\* What only the queue and the first command of it depend on.
LEMMA ControlStarts ==
  ASSUME NEW rs, ControlInv(rs), Control(rs)!Start PROVE ControlInv(rs)'
<1>1. /\ queue # <<>> /\ started'
      /\ UNCHANGED <<ops, commands, queue, results, document, documents, releases, holder, changes, ran>>
  BY DEF Control!Start, Control!Documents
<1>2. started' \in BOOLEAN
  BY DEF Control!Start
<1>3. ControlTyped(rs)'
  BY <1>1, <1>2 DEF ControlInv, ControlTyped
<1>4. Members(queue') = Members(queue) /\ Members(results') = Members(results) /\ Issued' = Issued
  BY <1>1 DEF Members, Issued
<1>5. ControlApart(rs)' /\ ControlOnce'
  BY <1>1, <1>4 DEF ControlInv, ControlApart, ControlOwn, ControlOnce, Distinct
<1>6. ControlIssued(rs)'
  BY <1>1, <1>4 DEF ControlInv, ControlIssued, ControlLast
<1>7. ControlUnderWay(rs)'
  BY <1>1, <1>4 DEF ControlInv, ControlUnderWay, ControlWith
<1>8. ControlHeld(rs)' /\ ControlEnded(rs)'
  BY <1>1 DEF ControlInv, ControlHeld, ControlEnded, ControlDid
<1> QED BY <1>3, <1>5, <1>6, <1>7, <1>8 DEF ControlInv

ControlNew(rs, y, p, o, n) ==
  /\ y = [Control(rs)!NoOp EXCEPT !.status = "queued", !.command = n, !.phase = p, !.owner = o]
  /\ y.status = "queued" /\ y.command = n /\ ~y.dispatched /\ y.owner = o /\ y.phase = p /\ ~y.staged

LEMMA ControlMade ==
  ASSUME NEW rs, NEW p \in {"stage", "run"}, NEW o \in Nat, NEW n \in Nat
  PROVE  \E y \in ControlOps : ControlNew(rs, y, p, o, n)
<1> DEFINE y == [Control(rs)!NoOp EXCEPT !.status = "queued", !.command = n, !.phase = p, !.owner = o]
<1>1. /\ y \in ControlOps /\ y.status = "queued" /\ y.command = n /\ ~y.dispatched /\ y.owner = o /\ y.phase = p
      /\ ~y.staged
  BY DEF Control!NoOp, ControlOps, ControlPhases
<1>2. ControlNew(rs, y, p, o, n)
  BY <1>1 DEF ControlNew
<1> HIDE DEF y
<1> QED BY <1>1, <1>2

LEMMA ControlCalls ==
  ASSUME NEW rs, ControlInv(rs), NEW r \in rs, Control(rs)!Call(r) PROVE ControlInv(rs)'
<1>1. ControlTyped(rs) /\ ControlApart(rs) /\ ControlIssued(rs) /\ ControlOnce /\ ControlUnderWay(rs) /\ ControlHeld(rs)
      /\ ControlEnded(rs)
  BY DEF ControlInv
<1>2. /\ ops[r].status = "none" /\ commands' = commands + 1
      /\ UNCHANGED <<queue, started, results, ran, releases, holder, changes>>
  BY DEF Control!Call, Control!Dsp
<1>3. /\ ops \in [rs -> ControlOps] /\ commands \in Nat /\ documents \in Nat /\ document \in 0 .. documents
      /\ documents \in 0 .. MaxDocuments /\ MaxDocuments \in Nat /\ releases \subseteq 1 .. documents
      /\ document \notin releases
  BY <1>1, ControlAssumption DEF ControlTyped
<1>4. ControlOwn(r)
  BY <1>1 DEF ControlApart
<1>5. \/ /\ document' = document /\ documents' = documents
         /\ \E p \in {"stage", "run"} :
              ops' = [ops EXCEPT ![r] = [Control(rs)!NoOp EXCEPT !.status = "queued", !.command = commands + 1, !.phase = p, !.owner = 0]]
      \/ /\ r \notin Uploads /\ document' = (IF document = 0 THEN documents + 1 ELSE document)
         /\ documents' = documents + (IF document = 0 THEN 1 ELSE 0) /\ documents' <= MaxDocuments
         /\ ops' = [ops EXCEPT ![r] = [Control(rs)!NoOp EXCEPT !.status = "queued", !.command = commands + 1, !.phase = "run",
                                         !.owner = document']]
  <2> DEFINE kinds == [q \in rs |-> IF q \in Uploads THEN "upload" ELSE IF q \in Notes THEN "continuous" ELSE "state"]
  <2>1. kinds[r] = "upload" <=> r \in Uploads
    OBVIOUS
  <2>2. CASE kinds[r] = "continuous"
    <3>1. /\ r \notin Uploads /\ document' = (IF document = 0 THEN documents + 1 ELSE document)
          /\ documents' = documents + (IF document = 0 THEN 1 ELSE 0) /\ documents' <= MaxDocuments
      BY <1>3, <2>1, <2>2 DEF Control!Call
    <3>2. ops' = [ops EXCEPT ![r] = [Control(rs)!NoOp EXCEPT !.status = "queued", !.command = commands + 1, !.phase = "run",
                                         !.owner = document']]
      BY <1>2, <2>2, <3>1 DEF Control!Call
    <3> QED BY <3>1, <3>2
  <2>3. CASE kinds[r] # "continuous"
    <3>1. document' = document /\ documents' = documents + 0
      BY <2>3 DEF Control!Call
    <3>2. documents' = documents
      BY <1>3, <3>1
    <3>3. PICK p \in {"stage", "run"} : p = IF kinds[r] = "upload" THEN "stage" ELSE "run"
      OBVIOUS
    <3>4. ops' = [ops EXCEPT ![r] = [Control(rs)!NoOp EXCEPT !.status = "queued", !.command = commands + 1, !.phase = p, !.owner = 0]]
      BY <1>2, <2>3, <3>3 DEF Control!Call
    <3> QED BY <3>1, <3>2, <3>4
  <2> QED BY <2>2, <2>3
<1>6. PICK y \in ControlOps :
        /\ ops' = [ops EXCEPT ![r] = y] /\ y.status = "queued" /\ y.command = commands + 1 /\ ~y.dispatched
        /\ ((y.owner = 0 /\ document' = document) \/ (r \notin Uploads /\ y.owner = document' /\ y.phase = "run" /\ ~y.staged))
  <2>1. commands + 1 \in Nat /\ document' \in Nat /\ 0 \in Nat
    BY <1>3, <1>5
  <2>2. CASE /\ document' = document /\ documents' = documents
             /\ \E p \in {"stage", "run"} :
                  ops' = [ops EXCEPT ![r] = [Control(rs)!NoOp EXCEPT !.status = "queued", !.command = commands + 1, !.phase = p, !.owner = 0]]
    <3>1. PICK p \in {"stage", "run"} :
            ops' = [ops EXCEPT ![r] = [Control(rs)!NoOp EXCEPT !.status = "queued", !.command = commands + 1, !.phase = p, !.owner = 0]]
      BY <2>2
    <3>2. PICK o \in Nat : o = 0
      OBVIOUS
    <3>3. PICK y \in ControlOps : ControlNew(rs, y, p, o, commands + 1)
      BY <2>1, <3>1, <3>2, ControlMade
    <3>4. y = [Control(rs)!NoOp EXCEPT !.status = "queued", !.command = commands + 1, !.phase = p, !.owner = 0]
      BY <3>2, <3>3 DEF ControlNew
    <3>5. ops' = [ops EXCEPT ![r] = y] /\ y.owner = 0
      BY <3>1, <3>2, <3>3, <3>4 DEF ControlNew
    <3>6. document' = document
      BY <2>2
    <3>7. y \in ControlOps /\ y.status = "queued" /\ y.command = commands + 1 /\ ~y.dispatched
      BY <3>3 DEF ControlNew
    <3> QED BY <3>5, <3>6, <3>7
  <2>4. CASE /\ r \notin Uploads
             /\ ops' = [ops EXCEPT ![r] = [Control(rs)!NoOp EXCEPT !.status = "queued", !.command = commands + 1, !.phase = "run",
                                         !.owner = document']]
    <3>1. PICK p \in {"stage", "run"} : p = "run"
      OBVIOUS
    <3>2. PICK o \in Nat : o = document'
      BY <2>1
    <3>3. PICK y \in ControlOps : ControlNew(rs, y, p, o, commands + 1)
      BY <2>1, <3>1, <3>2, ControlMade
    <3>4. y = [Control(rs)!NoOp EXCEPT !.status = "queued", !.command = commands + 1, !.phase = "run", !.owner = document']
      BY <3>1, <3>2, <3>3 DEF ControlNew
    <3>5. ops' = [ops EXCEPT ![r] = y]
      BY <2>4, <3>4
    <3> QED BY <2>4, <3>1, <3>2, <3>3, <3>5 DEF ControlNew
  <2> QED BY <1>5, <2>2, <2>4
<1>7. ops' \in [rs -> ControlOps] /\ ops'[r] = y /\ \A q \in rs \ {r} : ops'[q] = ops[q]
  BY <1>3, <1>6
<1>8. /\ documents' \in 0 .. MaxDocuments /\ documents <= documents' /\ documents' \in Nat
      /\ document' \in 0 .. documents' /\ y.owner \in 0 .. documents'
      /\ (document' = document \/ document' = documents + 1) /\ (y.owner # 0 => y.owner = document')
  BY <1>3, <1>5, <1>6
<1>9. /\ Members(queue') = Members(queue) /\ Members(results') = Members(results) /\ Issued' = Issued
      /\ \A x \in Issued : x.command \in 1 .. commands /\ x.command # y.command
      /\ \A q \in rs : ops[q].command \in 0 .. commands
  BY <1>1, <1>2, <1>3, <1>6 DEF ControlIssued, Issued, Members, ControlApart, ControlOwn
<1>10. ControlTyped(rs)'
  <2>1. commands' \in Nat /\ releases' \subseteq 1 .. documents' /\ document' \notin releases'
    BY <1>2, <1>3, <1>8
  <2> QED BY <1>1, <1>2, <1>7, <1>8, <2>1 DEF ControlTyped
<1>11. ControlApart(rs)'
  <2>1. ASSUME NEW q \in rs PROVE ControlOwn(q)'
    <3>1. CASE q = r
      BY <1>2, <1>3, <1>6, <1>7, <1>8, <3>1 DEF ControlOwn
    <3>2. CASE q # r
      <4>1. ControlOwn(q) /\ ops'[q] = ops[q]
        BY <1>1, <1>7, <3>2 DEF ControlApart
      <4>2. ops[q].command \in 0 .. commands' /\ ops[q].owner \in 0 .. documents'
        BY <1>2, <1>3, <1>8, <4>1 DEF ControlOwn
      <4> QED BY <4>1, <4>2 DEF ControlOwn
    <3> QED BY <3>1, <3>2
  <2>2. ASSUME NEW p \in rs, NEW q \in rs, ops'[p].command = ops'[q].command, ops'[p].command # 0 PROVE p = q
    <3>1. CASE p # r /\ q # r
      BY <1>1, <1>7, <2>2, <3>1 DEF ControlApart
    <3>2. CASE p = r \/ q = r
      BY <1>3, <1>6, <1>7, <1>9, <2>2, <3>2
    <3> QED BY <3>1, <3>2
  <2> QED BY <2>1, <2>2 DEF ControlApart
<1>12. ControlIssued(rs)'
  <2>1. \A x \in Issued' : x.command \in 1 .. commands' /\ x.owner \in 0 .. documents'
    BY <1>1, <1>2, <1>3, <1>8, <1>9 DEF ControlIssued
  <2>2. ASSUME NEW x \in Issued', x.kind = "release" PROVE ControlLast(rs, x)'
    <3>1. ControlLast(rs, x)
      BY <1>1, <1>9, <2>2 DEF ControlIssued
    <3>2. x.owner \in (1 .. documents) \ releases /\ x.owner # document
      BY <3>1 DEF ControlLast
    <3>3. x.owner \in (1 .. documents') \ releases' /\ x.owner # document'
      BY <1>2, <1>3, <1>8, <3>2
    <3>4. ASSUME NEW q \in rs PROVE ops'[q].command # x.command /\ (ops'[q].owner = x.owner => ops'[q].command < x.command)
      <4>1. CASE q = r
        BY <1>7, <1>8, <1>9, <2>2, <3>3, <4>1
      <4>2. CASE q # r
        BY <1>7, <3>1, <4>2 DEF ControlLast
      <4> QED BY <4>1, <4>2
    <3>5. \A z \in Issued' : z.owner = x.owner => z.command <= x.command
      BY <1>9, <3>1 DEF ControlLast
    <3> QED BY <3>3, <3>4, <3>5 DEF ControlLast
  <2>3. ASSUME NEW q \in rs, ops'[q].status = "queued", ~ops'[q].dispatched, NEW x \in Issued' PROVE x.command # ops'[q].command
    BY <1>1, <1>7, <1>9, <2>3 DEF ControlIssued
  <2> QED BY <2>1, <2>2, <2>3 DEF ControlIssued
<1>13. ControlOnce'
  BY <1>1, <1>2, <1>9 DEF ControlOnce, Distinct
<1>14. ControlUnderWay(rs)'
  <2>1. ASSUME NEW a, NEW q \in rs, ControlWith(ops[q], a) PROVE ControlWith(ops'[q], a)
    BY <1>2, <1>7, <2>1 DEF ControlWith
  <2>2. ASSUME NEW a \in Members(queue), a.kind # "release" PROVE \E q \in rs : ControlWith(ops'[q], a)
    BY <1>1, <2>1, <2>2 DEF ControlUnderWay
  <2>3. ASSUME NEW p \in Members(results)
        PROVE  \E c \in ran : c.command = p.command /\ c.code = p.code /\ (c.kind # "release" => \E q \in rs : ControlWith(ops'[q], c))
    <3>1. PICK c \in ran : c.command = p.command /\ c.code = p.code /\ (c.kind # "release" => \E q \in rs : ControlWith(ops[q], c))
      BY <1>1 DEF ControlUnderWay
    <3>2. c.kind # "release" => \E q \in rs : ControlWith(ops'[q], c)
      BY <2>1, <3>1
    <3> QED BY <3>1, <3>2
  <2> QED BY <1>2, <1>9, <2>2, <2>3 DEF ControlUnderWay
<1>15. ControlHeld(rs)'
  <2>1. holder \in rs \union {"nobody"}
    BY <1>1 DEF ControlTyped
  <2>2. holder # "nobody" => ops'[holder].status = "queued"
    BY <1>1, <1>2, <1>7, <2>1 DEF ControlHeld
  <2>3. ASSUME NEW q \in rs, ops'[q].status = "queued", ops'[q].dispatched, q \in Undone, ops'[q].phase \in {"run", "commit"}
        PROVE  holder = q
    BY <1>1, <1>6, <1>7, <2>3 DEF ControlHeld
  <2> QED BY <1>2, <2>2, <2>3 DEF ControlHeld
<1>16. ControlEnded(rs)'
  <2>1. \A n : ControlDid(n)' <=> ControlDid(n)
    BY <1>2 DEF ControlDid
  <2>2. ASSUME NEW q \in rs
        PROVE  /\ ops'[q].status = "succeeded" => ControlDid(ops'[q].command)
               /\ ops'[q].status = "cancelled" => ~ControlDid(ops'[q].command)
    BY <1>1, <1>6, <1>7 DEF ControlEnded
  <2> QED BY <2>1, <2>2 DEF ControlEnded
<1> QED BY <1>10, <1>11, <1>12, <1>13, <1>14, <1>15, <1>16 DEF ControlInv

\* A command that is given out now is in the queue for the first time.
LEMMA ControlAppended ==
  ASSUME NEW rs, ControlInv(rs), NEW x \in ControlMarks, queue' = Append(queue, x), UNCHANGED ran,
         Len(queue) + Len(results) < NodeLimit, \A y \in Issued : y.command # x.command
  PROVE  /\ queue' \in Seq(ControlMarks) /\ Len(queue') + Len(results) <= NodeLimit /\ queue' # <<>>
         /\ Members(queue') = Members(queue) \union {x} /\ Issued' = Issued \union {x} /\ Distinct(queue')
         /\ \A a \in Members(queue'), c \in ran : a.command # c.command
<1>1. queue \in Seq(ControlMarks) /\ results \in Seq(ControlReplies) /\ Distinct(queue)
  BY DEF ControlInv, ControlTyped, ControlOnce
<1>2. (\A y \in Members(queue) : y.command # x.command) /\ \A c \in ran : x.command # c.command
  <2>1. ASSUME NEW c \in ran PROVE x.command # c.command
    <3>1. Mark(c) \in Issued /\ Mark(c).command = c.command
      BY DEF Issued, Mark
    <3> QED BY <3>1
  <2> QED BY <2>1 DEF Issued
<1>3. /\ queue' \in Seq(ControlMarks) /\ Len(queue') = Len(queue) + 1 /\ Members(queue') = Members(queue) \union {x}
      /\ Distinct(queue')
  <2> DEFINE k == Append(queue, x)
  <2>1. k \in Seq(ControlMarks) /\ Len(k) = Len(queue) + 1 /\ Members(k) = Members(queue) \union {x} /\ Distinct(k)
    BY <1>1, <1>2, MembersAppend
  <2> HIDE DEF k
  <2>2. queue' = k
    BY DEF k
  <2> QED BY <2>1, <2>2
<1>4. Len(queue') + Len(results) <= NodeLimit /\ queue' # <<>>
  <2>1. Len(queue) \in Nat /\ Len(results) \in Nat /\ NodeLimit \in Nat
    BY <1>1, ControlAssumption
  <2>2. Len(queue') > 0
    BY <1>3, <2>1
  <2> QED BY <1>3, <2>1, <2>2
<1>5. Issued' = Issued \union {x}
  BY <1>3 DEF Issued
<1> QED BY <1>2, <1>3, <1>4, <1>5 DEF ControlInv, ControlOnce

LEMMA ControlReleases ==
  ASSUME NEW rs, ControlInv(rs), Control(rs)!Release PROVE ControlInv(rs)'
<1>1. ControlTyped(rs) /\ ControlApart(rs) /\ ControlIssued(rs) /\ ControlOnce /\ ControlUnderWay(rs) /\ ControlHeld(rs)
      /\ ControlEnded(rs)
  BY DEF ControlInv
<1>2. PICK o \in releases :
        /\ releases' = releases \ {o} /\ commands' = commands + 1
        /\ queue' = Append(queue, [command |-> commands + 1, owner |-> o, kind |-> "release"])
  BY DEF Control!Release, Control!Enqueue
<1>3. Len(queue) + Len(results) < NodeLimit /\ UNCHANGED <<ops, started, results, document, documents, holder, changes, ran>>
  BY DEF Control!Release, Control!Room
<1>4. /\ ops \in [rs -> ControlOps] /\ commands \in Nat /\ documents \in Nat /\ document \in 0 .. documents
      /\ releases \subseteq 1 .. documents /\ document \notin releases
  BY <1>1, ControlAssumption DEF ControlTyped
<1>5. PICK x \in ControlMarks : x.command = commands + 1 /\ x.owner = o /\ x.kind = "release" /\ queue' = Append(queue, x)
  <2> DEFINE x == [command |-> commands + 1, owner |-> o, kind |-> "release"]
  <2>1. commands + 1 \in Nat /\ o \in Nat
    BY <1>2, <1>4
  <2>2. x \in ControlMarks /\ x.command = commands + 1 /\ x.owner = o /\ x.kind = "release"
    BY <2>1 DEF ControlMarks
  <2>3. queue' = Append(queue, x)
    BY <1>2
  <2> HIDE DEF x
  <2> QED BY <2>2, <2>3
<1>8. \A y \in Issued : y.command \in 1 .. commands /\ y.owner \in 0 .. documents /\ y.command # x.command
  BY <1>1, <1>4, <1>5 DEF ControlIssued
<1>9. /\ queue' \in Seq(ControlMarks) /\ Len(queue') + Len(results) <= NodeLimit /\ queue' # <<>>
      /\ Members(queue') = Members(queue) \union {x} /\ Issued' = Issued \union {x} /\ Distinct(queue')
      /\ \A a \in Members(queue'), c \in ran : a.command # c.command
  BY <1>3, <1>5, <1>8, ControlAppended
<1>10. \A q \in rs : ControlOwn(q) /\ ops[q].command \in 0 .. commands /\ ops[q].command # x.command
  BY <1>1, <1>4, <1>5 DEF ControlApart, ControlOwn
<1>11. ControlTyped(rs)'
  <2>1. commands' \in Nat /\ releases' \subseteq 1 .. documents' /\ document' \notin releases'
    BY <1>2, <1>3, <1>4
  <2> QED BY <1>1, <1>3, <1>9, <2>1 DEF ControlTyped
<1>12. ControlApart(rs)'
  <2>1. ASSUME NEW q \in rs PROVE ControlOwn(q)'
    <3>1. ControlOwn(q) /\ ops[q].command \in 0 .. commands'
      BY <1>2, <1>4, <1>10
    <3> QED BY <1>3, <3>1 DEF ControlOwn
  <2> QED BY <1>1, <1>3, <2>1 DEF ControlApart
<1>13. ControlLast(rs, x)'
  <2>1. x.owner \in (1 .. documents') \ releases'
    BY <1>2, <1>3, <1>4, <1>5
  <2>2. x.owner # document'
    BY <1>2, <1>3, <1>4, <1>5
  <2>3. ASSUME NEW q \in rs PROVE ops'[q].command # x.command /\ ops'[q].command < x.command
    BY <1>3, <1>4, <1>5, <1>10
  <2>4. ASSUME NEW y \in Issued' PROVE y.command <= x.command
    <3>1. y = x \/ y.command \in 1 .. commands
      BY <1>8, <1>9
    <3>2. commands + 1 <= commands + 1 /\ \A n \in 1 .. commands : n <= commands + 1
      BY <1>4
    <3> QED BY <1>5, <3>1, <3>2
  <2> QED BY <2>1, <2>2, <2>3, <2>4 DEF ControlLast
<1>14. ControlIssued(rs)'
  <2>1. \A y \in Issued' : y.command \in 1 .. commands' /\ y.owner \in 0 .. documents'
    BY <1>2, <1>3, <1>4, <1>5, <1>8, <1>9
  <2>2. ASSUME NEW z \in Issued', z.kind = "release" PROVE ControlLast(rs, z)'
    <3>1. CASE z = x
      BY <1>13, <3>1
    <3>2. CASE z # x
      <4>1. ControlLast(rs, z) /\ z \in Issued
        BY <1>1, <1>9, <2>2, <3>2 DEF ControlIssued
      <4>2. z.owner \in (1 .. documents') \ releases' /\ z.owner # document' /\ z.owner # x.owner
        BY <1>2, <1>3, <1>5, <4>1 DEF ControlLast
      <4>3. \A y \in Issued' : y.owner = z.owner => y.command <= z.command
        BY <1>9, <4>1, <4>2 DEF ControlLast
      <4> QED BY <1>3, <4>1, <4>2, <4>3 DEF ControlLast
    <3> QED BY <3>1, <3>2
  <2>3. ASSUME NEW q \in rs, ops'[q].status = "queued", ~ops'[q].dispatched, NEW z \in Issued' PROVE z.command # ops'[q].command
    BY <1>1, <1>3, <1>9, <1>10, <2>3 DEF ControlIssued
  <2> QED BY <2>1, <2>2, <2>3 DEF ControlIssued
<1>15. ControlOnce'
  BY <1>1, <1>3, <1>9 DEF ControlOnce, Distinct
<1>16. ControlUnderWay(rs)'
  <2>1. \A a \in Members(queue') : a.kind # "release" => \E q \in rs : ControlWith(ops'[q], a)
    BY <1>1, <1>3, <1>5, <1>9 DEF ControlUnderWay
  <2>2. Members(results') = Members(results)
    BY <1>3
  <2> QED BY <1>1, <1>3, <2>1, <2>2 DEF ControlUnderWay
<1>17. ControlHeld(rs)' /\ ControlEnded(rs)'
  BY <1>1, <1>3 DEF ControlHeld, ControlEnded, ControlDid
<1> QED BY <1>11, <1>12, <1>14, <1>15, <1>16, <1>17 DEF ControlInv

LEMMA ControlDispatches ==
  ASSUME NEW rs, ControlInv(rs), NEW r \in rs, Control(rs)!Dispatch(r) PROVE ControlInv(rs)'
<1>1. ControlTyped(rs) /\ ControlApart(rs) /\ ControlIssued(rs) /\ ControlOnce /\ ControlUnderWay(rs) /\ ControlHeld(rs)
      /\ ControlEnded(rs)
  BY DEF ControlInv
<1>2. /\ UNCHANGED <<commands, started, results, document, documents, releases, changes, ran>>
      /\ Control(rs)!Pending(r) /\ ~ops[r].dispatched
  BY DEF Control!Dispatch, Control!Documents
<1>3. /\ ops \in [rs -> ControlOps] /\ ops[r] \in ControlOps /\ ops[r].status = "queued" /\ "nobody" \notin rs
      /\ holder \in rs \union {"nobody"} /\ queue \in Seq(ControlMarks)
  BY <1>1, <1>2, ControlPhase DEF ControlTyped
<1>4. ControlOwn(r) /\ ops[r].command \in 1 .. commands
  <2>1. ControlOwn(r) /\ commands \in Nat
    BY <1>1 DEF ControlApart, ControlTyped
  <2>2. ops[r].command # 0 /\ ops[r].command \in 0 .. commands
    BY <1>3, <2>1 DEF ControlOwn
  <2> QED BY <2>1, <2>2
<1>5. PICK p \in ControlPhases :
        /\ p = ops[r].phase \/ r \in Uploads
        /\ r \in Undone /\ p \in {"run", "commit"} => holder' = r /\ holder \in {"nobody", r}
        /\ ~(r \in Undone /\ p \in {"run", "commit"}) => holder' = holder
        /\ \/ /\ Len(queue) + Len(results) < NodeLimit
              /\ queue' = Append(queue, [command |-> ops[r].command, owner |-> ops[r].owner, kind |-> p])
              /\ ops' = [ops EXCEPT ![r].phase = p, ![r].dispatched = TRUE]
           \/ ops' = [ops EXCEPT ![r].phase = p] /\ queue' = queue
  <2> DEFINE p == IF r \in Uploads /\ ops[r].cancelling THEN "abort" ELSE ops[r].phase
  <2>1. p \in ControlPhases /\ (p = ops[r].phase \/ r \in Uploads)
    BY <1>3 DEF ControlOps, ControlPhases
  <2>2. /\ r \in Undone /\ p \in {"run", "commit"} => holder' = r /\ holder \in {"nobody", r}
        /\ ~(r \in Undone /\ p \in {"run", "commit"}) => holder' = holder
    BY <1>1, ControlPhase DEF Control!Dispatch, Control!Begins, Control!Nobody
  <2>3. \/ /\ Len(queue) + Len(results) < NodeLimit
           /\ queue' = Append(queue, [command |-> ops[r].command, owner |-> ops[r].owner, kind |-> p])
           /\ ops' = [ops EXCEPT ![r].phase = p, ![r].dispatched = TRUE]
        \/ ops' = [ops EXCEPT ![r].phase = p] /\ queue' = queue
    BY <1>1, ControlPhase DEF Control!Dispatch, Control!Room, Control!Enqueue
  <2> HIDE DEF p
  <2> QED BY <2>1, <2>2, <2>3
<1>6. PICK y \in ControlOps :
        /\ ops' = [ops EXCEPT ![r] = y] /\ y.status = "queued" /\ y.command = ops[r].command /\ y.owner = ops[r].owner
        /\ y.staged = ops[r].staged /\ y.phase = p
        /\ \/ /\ y.dispatched /\ Len(queue) + Len(results) < NodeLimit
              /\ queue' = Append(queue, [command |-> ops[r].command, owner |-> ops[r].owner, kind |-> p])
           \/ ~y.dispatched /\ queue' = queue
  <2>1. CASE /\ Len(queue) + Len(results) < NodeLimit
             /\ queue' = Append(queue, [command |-> ops[r].command, owner |-> ops[r].owner, kind |-> p])
             /\ ops' = [ops EXCEPT ![r].phase = p, ![r].dispatched = TRUE]
    <3> DEFINE y == [ops[r] EXCEPT !.phase = p, !.dispatched = TRUE]
    <3>1. /\ y \in ControlOps /\ y.status = "queued" /\ y.command = ops[r].command /\ y.owner = ops[r].owner
          /\ y.staged = ops[r].staged /\ y.phase = p /\ y.dispatched
      BY <1>3, <1>5 DEF ControlOps
    <3>2. ops' = [ops EXCEPT ![r] = y]
      BY <1>3, <2>1
    <3> HIDE DEF y
    <3> QED BY <2>1, <3>1, <3>2
  <2>2. CASE ops' = [ops EXCEPT ![r].phase = p] /\ queue' = queue
    <3> DEFINE y == [ops[r] EXCEPT !.phase = p]
    <3>1. /\ y \in ControlOps /\ y.status = "queued" /\ y.command = ops[r].command /\ y.owner = ops[r].owner
          /\ y.staged = ops[r].staged /\ y.phase = p /\ ~y.dispatched
      BY <1>2, <1>3, <1>5 DEF ControlOps
    <3>2. ops' = [ops EXCEPT ![r] = y]
      BY <1>3, <2>2
    <3> HIDE DEF y
    <3> QED BY <2>2, <3>1, <3>2
  <2> QED BY <1>5, <2>1, <2>2
<1>7. ops' \in [rs -> ControlOps] /\ ops'[r] = y /\ \A q \in rs \ {r} : ops'[q] = ops[q]
  BY <1>3, <1>6
<1>8. \A x \in Issued : x.command # ops[r].command
  BY <1>1, <1>2, <1>3 DEF ControlIssued
<1>9. PICK x \in ControlMarks :
        /\ x = [command |-> ops[r].command, owner |-> ops[r].owner, kind |-> p]
        /\ x.command = ops[r].command /\ x.owner = ops[r].owner /\ x.kind = p /\ x.kind # "release"
  <2> DEFINE x == [command |-> ops[r].command, owner |-> ops[r].owner, kind |-> p]
  <2>1. x \in ControlMarks /\ x.command = ops[r].command /\ x.owner = ops[r].owner /\ x.kind = p
    BY <1>3, <1>5 DEF ControlMarks, ControlOps
  <2>2. x.kind # "release"
    BY <1>5 DEF ControlPhases
  <2> HIDE DEF x
  <2>3. x \in ControlMarks /\ x = [command |-> ops[r].command, owner |-> ops[r].owner, kind |-> p]
    BY <2>1 DEF x
  <2> QED BY <2>1, <2>2, <2>3
<1>10. /\ queue' \in Seq(ControlMarks) /\ Len(queue') + Len(results) <= NodeLimit /\ (started => queue' # <<>>)
       /\ Distinct(queue') /\ \A a \in Members(queue'), c \in ran : a.command # c.command
       /\ \/ y.dispatched /\ Members(queue') = Members(queue) \union {x} /\ Issued' = Issued \union {x}
          \/ ~y.dispatched /\ Members(queue') = Members(queue) /\ Issued' = Issued
  <2>1. CASE ~y.dispatched /\ queue' = queue
    <3>1. Members(queue') = Members(queue) /\ Issued' = Issued /\ Distinct(queue')
      BY <1>1, <1>2, <2>1 DEF Members, Issued, Distinct, ControlOnce
    <3> QED BY <1>1, <2>1, <3>1 DEF ControlTyped, ControlOnce
  <2>2. CASE /\ y.dispatched /\ Len(queue) + Len(results) < NodeLimit
             /\ queue' = Append(queue, [command |-> ops[r].command, owner |-> ops[r].owner, kind |-> p])
    <3>1. queue' = Append(queue, x)
      BY <1>9, <2>2
    <3>2. \A z \in Issued : z.command # x.command
      BY <1>8, <1>9
    <3> QED BY <1>2, <1>9, <2>2, <3>1, <3>2, ControlAppended
  <2> QED BY <1>6, <2>1, <2>2
<1>11. ControlTyped(rs)'
  <2>1. holder' \in rs \union {"nobody"}
    BY <1>3, <1>5
  <2> QED BY <1>1, <1>2, <1>7, <1>10, <2>1 DEF ControlTyped
<1>12. ControlApart(rs)'
  <2>1. ASSUME NEW q \in rs PROVE ControlOwn(q)'
    <3>1. CASE q = r
      BY <1>2, <1>3, <1>4, <1>5, <1>6, <1>7, <3>1 DEF ControlOwn
    <3>2. CASE q # r
      BY <1>1, <1>2, <1>7, <3>2 DEF ControlOwn, ControlApart
    <3> QED BY <3>1, <3>2
  <2>2. \A q \in rs : ops'[q].command = ops[q].command
    BY <1>6, <1>7
  <2> QED BY <1>1, <2>1, <2>2 DEF ControlApart
<1>13. ControlIssued(rs)'
  <2>1. \A z \in Issued' : z.command \in 1 .. commands' /\ z.owner \in 0 .. documents'
    <3>1. x.command \in 1 .. commands /\ x.owner \in 0 .. documents
      BY <1>4, <1>9 DEF ControlOwn
    <3> QED BY <1>1, <1>2, <1>10, <3>1 DEF ControlIssued
  <2>2. ASSUME NEW z \in Issued', z.kind = "release" PROVE ControlLast(rs, z)'
    <3>1. ControlLast(rs, z)
      BY <1>1, <1>9, <1>10, <2>2 DEF ControlIssued
    <3>2. \A q \in rs : ops'[q].command = ops[q].command /\ ops'[q].owner = ops[q].owner
      BY <1>6, <1>7
    <3>3. x.owner = z.owner => x.command <= z.command
      <4>1. SUFFICES ASSUME x.owner = z.owner PROVE x.command <= z.command
        OBVIOUS
      <4>2. ops[r].command < z.command
        BY <1>9, <3>1, <4>1 DEF ControlLast
      <4>3. z.command \in 1 .. commands /\ commands \in Nat
        BY <1>1, <1>2, <2>1, <2>2 DEF ControlTyped
      <4> QED BY <1>4, <1>9, <4>2, <4>3
    <3>4. \A t \in Issued' : t.owner = z.owner => t.command <= z.command
      BY <1>10, <3>1, <3>3 DEF ControlLast
    <3> QED BY <1>2, <3>1, <3>2, <3>4 DEF ControlLast
  <2>3. ASSUME NEW q \in rs, ops'[q].status = "queued", ~ops'[q].dispatched, NEW z \in Issued' PROVE z.command # ops'[q].command
    <3>1. CASE q = r
      BY <1>6, <1>7, <1>8, <1>10, <2>3, <3>1
    <3>2. CASE q # r
      <4>1. \A t \in Issued : t.command # ops[q].command
        BY <1>1, <1>7, <2>3, <3>2 DEF ControlIssued
      <4>2. x.command # ops[q].command
        BY <1>1, <1>4, <1>9, <3>2 DEF ControlApart
      <4> QED BY <1>7, <1>10, <3>2, <4>1, <4>2
    <3> QED BY <3>1, <3>2
  <2> QED BY <2>1, <2>2, <2>3 DEF ControlIssued
<1>14. ControlOnce'
  BY <1>1, <1>2, <1>10 DEF ControlOnce, Distinct
<1>15. ControlUnderWay(rs)'
  <2>1. ASSUME NEW a, NEW q \in rs, ControlWith(ops[q], a) PROVE ControlWith(ops'[q], a)
    BY <1>2, <1>7, <2>1 DEF ControlWith
  <2>2. ASSUME NEW a \in Members(queue'), a.kind # "release" PROVE \E q \in rs : ControlWith(ops'[q], a)
    <3>1. CASE a \in Members(queue)
      BY <1>1, <2>1, <2>2, <3>1 DEF ControlUnderWay
    <3>2. CASE a \notin Members(queue)
      <4>1. a = x /\ y.dispatched
        BY <1>10, <2>2, <3>2
      <4>2. ControlWith(ops'[r], a)
        BY <1>6, <1>7, <1>9, <4>1 DEF ControlWith
      <4> QED BY <4>2
    <3> QED BY <3>1, <3>2
  <2>3. ASSUME NEW g \in Members(results)
        PROVE  \E c \in ran : c.command = g.command /\ c.code = g.code /\ (c.kind # "release" => \E q \in rs : ControlWith(ops'[q], c))
    <3>1. PICK c \in ran : c.command = g.command /\ c.code = g.code /\ (c.kind # "release" => \E q \in rs : ControlWith(ops[q], c))
      BY <1>1 DEF ControlUnderWay
    <3>2. c.kind # "release" => \E q \in rs : ControlWith(ops'[q], c)
      BY <2>1, <3>1
    <3> QED BY <3>1, <3>2
  <2>4. Members(results') = Members(results)
    BY <1>2
  <2> QED BY <1>2, <2>2, <2>3, <2>4 DEF ControlUnderWay
<1>16. ControlHeld(rs)'
  <2>1. holder' # "nobody" => ops'[holder'].status = "queued"
    <3>1. CASE holder' = r
      BY <1>6, <1>7, <3>1
    <3>2. CASE holder' # r
      BY <1>1, <1>3, <1>5, <1>7, <3>2 DEF ControlHeld
    <3> QED BY <3>1, <3>2
  <2>2. ASSUME NEW q \in rs, ops'[q].status = "queued", ops'[q].dispatched, q \in Undone, ops'[q].phase \in {"run", "commit"}
        PROVE  holder' = q
    <3>1. CASE q = r
      BY <1>5, <1>6, <1>7, <2>2, <3>1
    <3>2. CASE q # r
      <4>1. holder = q
        BY <1>1, <1>7, <2>2, <3>2 DEF ControlHeld
      <4> QED BY <1>3, <1>5, <3>2, <4>1
    <3> QED BY <3>1, <3>2
  <2> QED BY <2>1, <2>2 DEF ControlHeld
<1>17. ControlEnded(rs)'
  <2>1. \A n : ControlDid(n)' <=> ControlDid(n)
    BY <1>2 DEF ControlDid
  <2>2. ASSUME NEW q \in rs
        PROVE  /\ ops'[q].status = "succeeded" => ControlDid(ops'[q].command)
               /\ ops'[q].status = "cancelled" => ~ControlDid(ops'[q].command)
    BY <1>1, <1>6, <1>7 DEF ControlEnded
  <2> QED BY <2>1, <2>2 DEF ControlEnded
<1> QED BY <1>11, <1>12, <1>13, <1>14, <1>15, <1>16, <1>17 DEF ControlInv

LEMMA ControlCompletes ==
  ASSUME NEW rs, ControlInv(rs), Control(rs)!Complete PROVE ControlInv(rs)'
<1>1. ControlTyped(rs) /\ ControlApart(rs) /\ ControlIssued(rs) /\ ControlOnce /\ ControlUnderWay(rs) /\ ControlHeld(rs)
      /\ ControlEnded(rs)
  BY DEF ControlInv
<1>2. /\ UNCHANGED <<ops, commands, document, documents, releases, holder, changes>>
      /\ started /\ started' = FALSE /\ queue' = Tail(queue)
  BY DEF Control!Complete, Control!Documents
<1>3. /\ queue \in Seq(ControlMarks) /\ results \in Seq(ControlReplies) /\ queue # <<>> /\ Distinct(queue) /\ Distinct(results)
      /\ Len(queue) + Len(results) <= NodeLimit /\ NodeLimit \in Nat /\ ran \subseteq ControlDone
  BY <1>1, <1>2, ControlAssumption DEF ControlTyped, ControlOnce
<1>4. PICK h \in ControlMarks : h = Head(queue)
  BY <1>3, MembersTail
<1>5. /\ queue' \in Seq(ControlMarks) /\ Len(queue') = Len(queue) - 1 /\ h \in Members(queue)
      /\ Members(queue) = Members(queue') \union {h} /\ Distinct(queue') /\ \A a \in Members(queue') : a.command # h.command
  <2> DEFINE k == Tail(queue)
  <2>1. /\ k \in Seq(ControlMarks) /\ Len(k) = Len(queue) - 1 /\ Head(queue) \in Members(queue)
        /\ Members(queue) = Members(k) \union {Head(queue)} /\ Distinct(k)
        /\ \A a \in Members(k) : a.command # Head(queue).command
    BY <1>3, MembersTail
  <2> HIDE DEF k
  <2>2. queue' = k
    BY <1>2 DEF k
  <2> QED BY <1>4, <2>1, <2>2
<1>6. PICK code \in {0, 1, 6} :
        /\ results' = Append(results, [command |-> h.command, code |-> code])
        /\ ran' = ran \union {[command |-> h.command, kind |-> h.kind, owner |-> h.owner, code |-> code]}
  BY <1>4 DEF Control!Complete
<1>7. PICK p \in ControlReplies : p.command = h.command /\ p.code = code /\ results' = Append(results, p)
  <2> DEFINE p == [command |-> h.command, code |-> code]
  <2>1. p \in ControlReplies /\ p.command = h.command /\ p.code = code
    BY <1>4, <1>6 DEF ControlReplies, ControlMarks
  <2>2. results' = Append(results, p)
    BY <1>6
  <2> HIDE DEF p
  <2> QED BY <2>1, <2>2
<1>8. PICK c \in ControlDone :
        c.command = h.command /\ c.kind = h.kind /\ c.owner = h.owner /\ c.code = code /\ ran' = ran \union {c}
  <2> DEFINE c == [command |-> h.command, kind |-> h.kind, owner |-> h.owner, code |-> code]
  <2>1. c \in ControlDone /\ c.command = h.command /\ c.kind = h.kind /\ c.owner = h.owner /\ c.code = code
    BY <1>4, <1>6 DEF ControlDone, ControlMarks
  <2>2. ran' = ran \union {c}
    BY <1>6
  <2> HIDE DEF c
  <2> QED BY <2>1, <2>2
<1>9. Mark(c) = h
  BY <1>4, <1>8 DEF Mark, ControlMarks
<1>10. Issued' = Issued
  <2>1. Members(queue) \union {Mark(d) : d \in ran} = (Members(queue') \union {h}) \union {Mark(d) : d \in ran}
    BY <1>5
  <2>2. {Mark(d) : d \in ran'} = {Mark(d) : d \in ran} \union {Mark(c)}
    BY <1>8
  <2>3. Issued' = Members(queue') \union {Mark(d) : d \in ran'}
    BY DEF Issued, Mark
  <2> QED BY <1>9, <2>1, <2>2, <2>3 DEF Issued
<1>11. (\A g \in Members(results) : g.command # h.command) /\ \A d \in ran : d.command # h.command
  BY <1>1, <1>5, ControlWaits DEF ControlOnce
<1>12. /\ results' \in Seq(ControlReplies) /\ Len(results') = Len(results) + 1
       /\ Members(results') = Members(results) \union {p} /\ Distinct(results')
  <2> DEFINE k == Append(results, p)
  <2>1. k \in Seq(ControlReplies) /\ Len(k) = Len(results) + 1 /\ Members(k) = Members(results) \union {p}
    BY <1>3, MembersAppend
  <2>2. Distinct(k)
    BY <1>3, <1>7, <1>11, MembersAppend
  <2> HIDE DEF k
  <2>3. results' = k
    BY <1>7 DEF k
  <2> QED BY <2>1, <2>2, <2>3
<1>13. ControlTyped(rs)'
  <2>1. Len(queue) \in Nat /\ Len(results) \in Nat
    BY <1>3
  <2>2. Len(queue') + Len(results') <= NodeLimit
    BY <1>3, <1>5, <1>12, <2>1
  <2>3. ran' \subseteq ControlDone /\ started' \in BOOLEAN /\ ~started'
    BY <1>2, <1>3, <1>8
  <2> QED BY <1>1, <1>2, <1>5, <1>12, <2>2, <2>3 DEF ControlTyped
<1>14. ControlApart(rs)' /\ ControlHeld(rs)'
  BY <1>1, <1>2 DEF ControlApart, ControlOwn, ControlHeld
<1>15. ControlIssued(rs)'
  BY <1>1, <1>2, <1>10 DEF ControlIssued, ControlLast
<1>16. ControlOnce'
  <2>1. \A d, e \in ran' : d.command = e.command => d = e
    BY <1>1, <1>8, <1>11 DEF ControlOnce
  <2>2. \A a \in Members(queue'), d \in ran' : a.command # d.command
    BY <1>1, <1>5, <1>8 DEF ControlOnce
  <2> QED BY <1>5, <1>12, <2>1, <2>2 DEF ControlOnce
<1>17. ControlUnderWay(rs)'
  <2>1. \A a \in Members(queue') : a.kind # "release" => \E r \in rs : ControlWith(ops'[r], a)
    BY <1>1, <1>2, <1>5 DEF ControlUnderWay
  <2>2. ASSUME NEW g \in Members(results')
        PROVE  \E d \in ran' : d.command = g.command /\ d.code = g.code /\ (d.kind # "release" => \E r \in rs : ControlWith(ops'[r], d))
    <3>1. CASE g \in Members(results)
      BY <1>1, <1>2, <1>8, <3>1 DEF ControlUnderWay
    <3>2. CASE g = p
      <4>1. c \in ran' /\ c.command = g.command /\ c.code = g.code
        BY <1>7, <1>8, <3>2
      <4>2. ASSUME c.kind # "release" PROVE \E r \in rs : ControlWith(ops'[r], c)
        <5>1. PICK r \in rs : ControlWith(ops[r], h)
          BY <1>1, <1>5, <1>8, <4>2 DEF ControlUnderWay
        <5>2. ControlWith(ops'[r], c)
          BY <1>2, <1>8, <5>1 DEF ControlWith
        <5> QED BY <5>1, <5>2
      <4> QED BY <4>1, <4>2
    <3> QED BY <1>12, <3>1, <3>2
  <2> QED BY <2>1, <2>2 DEF ControlUnderWay
<1>18. ControlEnded(rs)'
  <2>1. \A n : ControlDid(n) => ControlDid(n)'
    BY <1>8 DEF ControlDid
  <2>2. ASSUME NEW r \in rs, ops[r].status = "cancelled" PROVE ~ControlDid(ops[r].command)'
    <3>1. ~ControlDid(ops[r].command)
      BY <1>1, <2>2 DEF ControlEnded
    <3>2. ASSUME c.kind \in {"run", "commit"}, c.command = ops[r].command PROVE FALSE
      <4>1. PICK q \in rs : ControlWith(ops[q], h)
        BY <1>1, <1>5, <1>8, <3>2 DEF ControlUnderWay
      <4>2. ops[q].command = ops[r].command /\ ops[q].status = "queued"
        BY <1>8, <3>2, <4>1 DEF ControlWith
      <4>3. ControlOwn(r)
        BY <1>1 DEF ControlApart
      <4>4. ops[r].command # 0
        BY <2>2, <4>3 DEF ControlOwn
      <4>5. q = r
        BY <1>1, <4>2, <4>4 DEF ControlApart
      <4> QED BY <2>2, <4>2, <4>5
    <3> QED BY <1>2, <1>8, <3>1, <3>2 DEF ControlDid
  <2>3. ASSUME NEW r \in rs, ops[r].status = "succeeded" PROVE ControlDid(ops[r].command)'
    <3>1. PICK d \in ran : d.command = ops[r].command /\ d.kind \in {"run", "commit"} /\ d.code = 0
      BY <1>1, <2>3 DEF ControlEnded, ControlDid
    <3> QED BY <1>2, <1>8, <3>1 DEF ControlDid
  <2> QED BY <1>2, <2>2, <2>3 DEF ControlEnded
<1> QED BY <1>13, <1>14, <1>15, <1>16, <1>17, <1>18 DEF ControlInv

LEMMA ControlSteps ==
  ASSUME NEW rs, ControlInv(rs), Control(rs)!Next \/ UNCHANGED controlVars PROVE ControlInv(rs)'
<1>1. CASE UNCHANGED controlVars
  <2>1. ControlTyped(rs)' /\ ControlApart(rs)' /\ ControlHeld(rs)'
    BY <1>1 DEF controlVars, ControlInv, ControlTyped, ControlApart, ControlOwn, ControlHeld
  <2>2. ControlIssued(rs)'
    BY <1>1 DEF controlVars, ControlInv, ControlIssued, ControlLast, Issued, Members
  <2>3. ControlOnce' /\ ControlUnderWay(rs)' /\ ControlEnded(rs)'
    BY <1>1 DEF controlVars, ControlInv, ControlOnce, ControlUnderWay, ControlEnded, ControlDid, Members, Distinct, ControlWith
  <2> QED BY <2>1, <2>2, <2>3 DEF ControlInv
<1>2. CASE Control(rs)!Next
  <2>1. ASSUME NEW r \in rs, Control(rs)!Call(r) PROVE ControlInv(rs)'
    BY <2>1, ControlCalls
  <2>2. ASSUME NEW r \in rs, Control(rs)!CancelOperation(r) PROVE ControlInv(rs)'
    BY <2>2, ControlCancels
  <2>3. ASSUME NEW r \in rs, Control(rs)!Dispatch(r) PROVE ControlInv(rs)'
    BY <2>3, ControlDispatches
  <2>4. CASE Control(rs)!ReleaseOwner
    BY <2>4, ControlReleasesOwner
  <2>5. CASE Control(rs)!Changed
    BY <2>5, ControlChanges
  <2>6. CASE Control(rs)!TakeResult
    BY <2>6, ControlTakes
  <2>7. CASE Control(rs)!Release
    BY <2>7, ControlReleases
  <2>8. CASE Control(rs)!Start
    BY <2>8, ControlStarts
  <2>9. CASE Control(rs)!Complete
    BY <2>9, ControlCompletes
  <2> QED BY <1>2, <2>1, <2>2, <2>3, <2>4, <2>5, <2>6, <2>7, <2>8, <2>9 DEF Control!Next
<1> QED BY <1>1, <1>2

LEMMA ControlSuffices ==
  ASSUME NEW rs, ControlInv(rs) PROVE Control(rs)!TypeOK /\ Control(rs)!OperationsTrue
<1>1. ControlTyped(rs) /\ ControlApart(rs) /\ ControlIssued(rs) /\ ControlOnce /\ ControlUnderWay(rs) /\ ControlHeld(rs)
      /\ ControlEnded(rs)
  BY DEF ControlInv
<1>2. Control(rs)!Phases = ControlPhases /\ Control(rs)!Nobody = "nobody"
  BY DEF Control!Phases, ControlPhases, Control!Nobody
<1>3. queue \in Seq([command : 1 .. commands, owner : 0 .. documents, kind : ControlPhases \union {"release"}])
  <2> DEFINE T == [command : 1 .. commands, owner : 0 .. documents, kind : ControlPhases \union {"release"}]
  <2>1. queue \in Seq(ControlMarks) /\ Len(queue) \in Nat /\ queue \in [1 .. Len(queue) -> ControlMarks]
    BY <1>1 DEF ControlTyped
  <2>2. ASSUME NEW i \in 1 .. Len(queue) PROVE queue[i] \in T
    <3>1. queue[i] \in Issued /\ queue[i] \in ControlMarks
      BY <2>1 DEF Issued, Members
    <3>2. queue[i].command \in 1 .. commands /\ queue[i].owner \in 0 .. documents
      BY <1>1, <3>1 DEF ControlIssued
    <3> QED BY <3>1, <3>2 DEF ControlMarks
  <2> HIDE DEF T
  <2>3. queue \in [1 .. Len(queue) -> T]
    BY <2>1, <2>2
  <2>4. queue \in Seq(T)
    BY <2>1, <2>3, IsASeq
  <2> QED BY <2>4 DEF T
<1>4. ASSUME NEW c \in ran
      PROVE  /\ c \in ControlDone /\ c.command \in 1 .. commands /\ c.owner \in 0 .. documents
             /\ c.kind = "release" => \A x \in Issued : x.owner = c.owner => x.command <= c.command
  <2>1. Mark(c) \in Issued /\ Mark(c).command = c.command /\ Mark(c).owner = c.owner /\ Mark(c).kind = c.kind
    BY DEF Issued, Mark
  <2>2. c.kind = "release" => ControlLast(rs, Mark(c))
    BY <1>1, <2>1 DEF ControlIssued
  <2>3. c.kind = "release" => \A x \in Issued : x.owner = c.owner => x.command <= c.command
    BY <2>1, <2>2 DEF ControlLast
  <2>4. c.command \in 1 .. commands /\ c.owner \in 0 .. documents
    BY <1>1, <2>1 DEF ControlIssued
  <2>5. c \in ControlDone
    BY <1>1 DEF ControlTyped
  <2> QED BY <2>3, <2>4, <2>5
<1>5. results \in Seq([command : 1 .. commands, code : {0, 1, 6}])
  <2> DEFINE T == [command : 1 .. commands, code : {0, 1, 6}]
  <2>1. results \in Seq(ControlReplies) /\ Len(results) \in Nat /\ results \in [1 .. Len(results) -> ControlReplies]
    BY <1>1 DEF ControlTyped
  <2>2. ASSUME NEW i \in 1 .. Len(results) PROVE results[i] \in T
    <3>1. results[i] \in Members(results) /\ results[i] \in ControlReplies
      BY <2>1 DEF Members
    <3>2. PICK c \in ran : c.command = results[i].command
      BY <1>1, <3>1 DEF ControlUnderWay
    <3>3. results[i].command \in 1 .. commands
      BY <1>4, <3>2
    <3> QED BY <3>1, <3>3 DEF ControlReplies
  <2> HIDE DEF T
  <2>3. results \in [1 .. Len(results) -> T]
    BY <2>1, <2>2
  <2>4. results \in Seq(T)
    BY <2>1, <2>3, IsASeq
  <2> QED BY <2>4 DEF T
<1>6. ran \subseteq [command : 1 .. commands, kind : ControlPhases \union {"release"}, owner : 0 .. documents, code : {0, 1, 6}]
  BY <1>4 DEF ControlDone
<1>7. ASSUME NEW r \in rs
      PROVE  /\ ops[r].status \in {"none", "queued", "succeeded", "failed", "cancelled"} /\ ops[r].phase \in ControlPhases
             /\ ops[r].command \in 0 .. commands /\ ops[r].owner \in 0 .. documents
             /\ {ops[r].dispatched, ops[r].staged, ops[r].cancelling} \subseteq BOOLEAN
  <2>1. ops[r] \in ControlOps /\ ControlOwn(r)
    BY <1>1 DEF ControlTyped, ControlApart
  <2> QED BY <2>1 DEF ControlOps, ControlOwn
<1>8. Control(rs)!TypeOK
  BY <1>1, <1>2, <1>3, <1>5, <1>6, <1>7 DEF Control!TypeOK, ControlTyped
<1>9. ASSUME NEW r \in rs
      PROVE  /\ ops[r].status = "succeeded" => Control(rs)!Ran(r, 0)
             /\ ops[r].status = "cancelled" => ~Control(rs)!Ran(r, 0)
             /\ Control(rs)!Pending(r) /\ ops[r].dispatched /\ r \in Undone /\ ops[r].phase \in {"run", "commit"} => holder = r
  <2>1. Control(rs)!Ran(r, 0) <=> ControlDid(ops[r].command)
    BY DEF Control!Ran, ControlDid
  <2>2. Control(rs)!Pending(r) <=> ops[r].status = "queued"
    BY <1>1, ControlPhase
  <2> QED BY <1>1, <2>1, <2>2 DEF ControlEnded, ControlHeld
<1>10. holder # "nobody" => Control(rs)!Pending(holder)
  BY <1>1, ControlPhase DEF ControlHeld, ControlTyped
<1>11. ASSUME NEW c \in ran, c.kind = "release" PROVE Control(rs)!Later(c) = {}
  <2>1. SUFFICES ASSUME NEW d \in ran, d.owner = c.owner, d.command > c.command PROVE FALSE
    BY DEF Control!Later
  <2>2. Mark(d) \in Issued /\ Mark(d).owner = d.owner /\ Mark(d).command = d.command
    BY DEF Issued, Mark
  <2>3. d.command <= c.command /\ d.command \in 1 .. commands /\ c.command \in 1 .. commands /\ commands \in Nat
    BY <1>1, <1>4, <1>11, <2>1, <2>2 DEF ControlTyped
  <2> QED BY <2>1, <2>3
<1>12. Control(rs)!OperationsTrue
  BY <1>2, <1>9, <1>10, <1>11 DEF Control!OperationsTrue
<1> QED BY <1>8, <1>12

\* Whatever operations a page asks of an effect: one that is reported as done was done by the effect, one reported as
\* cancelled was not, what needs an Undo gesture is with the effect only while it holds the gesture, and no command of
\* a document runs after the release of it.
THEOREM OperationsAreTrue == PartSpec => []OperationsTrue
<1> DEFINE All == /\ part = "gestures" => ControlInv(Gestures)
                  /\ part = "notes" => ControlInv(Notes)
<1>1. PartInit => All
  BY ControlStart, ControlAssumption DEF PartInit
<1>2. All /\ [PartNext]_partVars => All'
  BY PartsStep, ControlSteps
<1>3. All => OperationsTrue
  BY ControlSuffices DEF OperationsTrue
<1> QED BY <1>1, <1>2, <1>3, PTL DEF PartSpec
-----------------------------------------------------------------------------
(* Where windows were.  What the file of a slot will hold is what was saved *)
(* last for it, and that is what an open window of the slot takes for saved *)
(* and what is in memory; no two windows share a slot.                      *)

PlaceNone == [place |-> 0, docked |-> FALSE]
PlaceStates == [place : Spots, docked : BOOLEAN]
PlaceGood == PlaceStates \union {PlaceNone}
PlaceSlots(ws) == 0 .. Cardinality(ws) - 1
PlaceSessions(ws) ==
  [slot : PlaceSlots(ws), saved : PlaceGood, pending : PlaceGood, place : Spots \union {0}, inDock : BOOLEAN,
   pendingDock : BOOLEAN, background : BOOLEAN, preserve : BOOLEAN, handle : BOOLEAN, closing : BOOLEAN, seen : PlaceGood]
PlaceSaves(ws) == [slot : PlaceSlots(ws), state : PlaceStates]

\* The file of slot n will hold v once what waits in q is written over f.
PlaceHolds(q, f, n, v) ==
  \/ \E k \in DOMAIN q : q[k].slot = n /\ q[k].state = v /\ \A m \in DOMAIN q : m > k => q[m].slot # n
  \/ (\A k \in DOMAIN q : q[k].slot # n) /\ v = f[n]

PlaceKnown(x) == IF x.pending # PlaceNone THEN x.pending ELSE x.saved
\* The session of an open window: the bounds last known of one that is docked or hidden are those it floated at.
PlaceWell(x) ==
  /\ x.place \in Spots
  /\ x.inDock => ~x.background /\ PlaceKnown(x) # PlaceNone
  /\ x.pendingDock => x.background
  /\ (x.inDock \/ x.background) /\ PlaceKnown(x) # PlaceNone => PlaceKnown(x).place = x.place
  /\ x.seen # PlaceNone => x.seen = x.pending
PlaceClosed(x) ==
  /\ x.slot = 0 /\ x.saved = PlaceNone /\ x.pending = PlaceNone /\ x.place = 0 /\ x.seen = PlaceNone
  /\ ~x.inDock /\ ~x.pendingDock /\ ~x.background /\ ~x.preserve /\ ~x.handle /\ ~x.closing

PlaceQueue(ws, qs) ==
  /\ cache \in [PlaceSlots(ws) -> PlaceGood] /\ files \in [PlaceSlots(ws) -> PlaceGood]
  /\ saves \in Seq(PlaceSaves(ws)) /\ Len(saves) <= qs
  /\ \A k \in DOMAIN saves : cache[saves[k].slot] # PlaceNone
  /\ \A n \in PlaceSlots(ws) : cache[n] # PlaceNone => PlaceHolds(saves, files, n, cache[n])
PlaceWindows(ws) ==
  /\ open \subseteq ws /\ session \in [ws -> PlaceSessions(ws)]
  /\ \A i \in ws \ open : PlaceClosed(session[i])
  /\ \A i \in open : PlaceWell(session[i])
  /\ \A i \in open : \A j \in open : session[i].slot = session[j].slot => i = j
PlaceKept(ws) ==
  /\ leftAs \in [PlaceSlots(ws) -> PlaceGood]
  /\ \A i \in open : PlaceHolds(saves, files, session[i].slot, session[i].saved)
  /\ \A n \in PlaceSlots(ws) :
       leftAs[n] # PlaceNone /\ (\A i \in open : session[i].slot # n) => PlaceHolds(saves, files, n, leftAs[n])
PlaceBounds(ms, cs) ==
  Cardinality(open) <= MaxSessions /\ moves \in 0 .. ms /\ crashes \in 0 .. cs
PlaceInv(ws, qs, ms, cs) ==
  PlaceQueue(ws, qs) /\ PlaceWindows(ws) /\ PlaceKept(ws) /\ PlaceBounds(ms, cs)
LEMMA PlaceNames ==
  ASSUME NEW ws, NEW qs, NEW ms, NEW cs
  PROVE  /\ Saved(ws, qs, ms, cs)!None = PlaceNone
         /\ Saved(ws, qs, ms, cs)!Slots = PlaceSlots(ws)
         /\ \A S : Saved(ws, qs, ms, cs)!Cardinality(S) = Cardinality(S)
BY DEF Saved!None, Saved!Slots, Saved!Cardinality, Cardinality, PlaceNone, PlaceSlots

\* None is no state of a window.
LEMMA PlaceStatesReal ==
  ASSUME NEW s
  PROVE  s \in PlaceStates <=> s \in PlaceGood /\ s # PlaceNone
<1>1. 0 \notin Spots
  BY PlacesAssumption
<1> QED BY <1>1 DEF PlaceStates, PlaceGood, PlaceNone

\* A save that joins the queue is what the file of its slot will hold, and changes nothing for the others.
LEMMA PlaceAppends ==
  ASSUME NEW S, NEW q \in Seq(S), NEW r \in S, NEW f, NEW n, NEW v
  PROVE  /\ PlaceHolds(Append(q, r), f, r.slot, r.state)
         /\ n # r.slot /\ PlaceHolds(q, f, n, v) => PlaceHolds(Append(q, r), f, n, v)
<1> DEFINE k == Append(q, r)
<1>1. Len(q) \in Nat /\ DOMAIN q = 1 .. Len(q)
  OBVIOUS
<1>2. /\ DOMAIN k = 1 .. Len(q) + 1 /\ k[Len(q) + 1] = r
      /\ \A i \in 1 .. Len(q) : k[i] = q[i]
  BY <1>1
<1> HIDE DEF k
<1>3. DOMAIN k = DOMAIN q \union {Len(q) + 1}
  BY <1>1, <1>2
<1>4. PlaceHolds(k, f, r.slot, r.state)
  <2>1. Len(q) + 1 \in DOMAIN k /\ \A m \in DOMAIN k : ~(m > Len(q) + 1)
    BY <1>1, <1>2
  <2> QED BY <1>2, <2>1 DEF PlaceHolds
<1>5. ASSUME n # r.slot, PlaceHolds(q, f, n, v) PROVE PlaceHolds(k, f, n, v)
  <2>1. \A i \in DOMAIN q : k[i] = q[i]
    BY <1>1, <1>2
  <2>2. k[Len(q) + 1].slot # n
    BY <1>2, <1>5
  <2>3. CASE \E i \in DOMAIN q : q[i].slot = n /\ q[i].state = v /\ \A m \in DOMAIN q : m > i => q[m].slot # n
    <3>1. PICK i \in DOMAIN q : q[i].slot = n /\ q[i].state = v /\ \A m \in DOMAIN q : m > i => q[m].slot # n
      BY <2>3
    <3>2. i \in DOMAIN k /\ k[i].slot = n /\ k[i].state = v /\ \A m \in DOMAIN k : m > i => k[m].slot # n
      BY <1>3, <2>1, <2>2, <3>1
    <3> QED BY <3>2 DEF PlaceHolds
  <2>4. CASE (\A i \in DOMAIN q : q[i].slot # n) /\ v = f[n]
    <3>1. \A i \in DOMAIN k : k[i].slot # n
      BY <1>3, <2>1, <2>2, <2>4
    <3> QED BY <2>4, <3>1 DEF PlaceHolds
  <2> QED BY <1>5, <2>3, <2>4 DEF PlaceHolds
<1> QED BY <1>4, <1>5 DEF k

\* A save that is written leaves what the files will hold.
LEMMA PlaceWrites ==
  ASSUME NEW S, NEW q \in Seq(S), q # <<>>, NEW N, NEW V, NEW f \in [N -> V], NEW n \in N, NEW v,
         PlaceHolds(q, f, n, v)
  PROVE  PlaceHolds(Tail(q), [f EXCEPT ![Head(q).slot] = Head(q).state], n, v)
<1> DEFINE k == Tail(q)
           g == [f EXCEPT ![Head(q).slot] = Head(q).state]
<1>1. Len(q) \in Nat /\ Len(q) > 0 /\ DOMAIN q = 1 .. Len(q) /\ Head(q) = q[1]
  OBVIOUS
<1>2. DOMAIN k = 1 .. Len(q) - 1 /\ \A i \in 1 .. Len(q) - 1 : k[i] = q[i + 1]
  BY <1>1
<1>3. g[n] = IF n = q[1].slot THEN q[1].state ELSE f[n]
  BY <1>1
<1>s. SUFFICES PlaceHolds(k, g, n, v)
  OBVIOUS
<1> HIDE DEF k, g
<1>4. \A m \in DOMAIN k : m + 1 \in DOMAIN q /\ m + 1 > 1 /\ k[m] = q[m + 1] /\ m \in Nat
  BY <1>1, <1>2
<1>5. CASE \E i \in DOMAIN q : q[i].slot = n /\ q[i].state = v /\ \A m \in DOMAIN q : m > i => q[m].slot # n
  <2>1. PICK i \in DOMAIN q : q[i].slot = n /\ q[i].state = v /\ \A m \in DOMAIN q : m > i => q[m].slot # n
    BY <1>5
  <2>2. CASE i = 1
    <3>1. \A m \in DOMAIN k : k[m].slot # n
      BY <1>4, <2>1, <2>2
    <3>2. g[n] = v
      BY <1>3, <2>1, <2>2
    <3> QED BY <3>1, <3>2 DEF PlaceHolds
  <2>3. CASE i # 1
    <3>1. PICK o : o = i - 1
      OBVIOUS
    <3>2. o \in DOMAIN k /\ o + 1 = i /\ k[o] = q[i]
      BY <1>1, <1>2, <2>1, <2>3, <3>1
    <3>3. ASSUME NEW m \in DOMAIN k, m > o PROVE k[m].slot # n
      <4>1. m + 1 > i /\ m + 1 \in DOMAIN q
        BY <1>1, <1>4, <2>1, <3>1, <3>3
      <4> QED BY <1>4, <2>1, <4>1
    <3> QED BY <2>1, <3>2, <3>3 DEF PlaceHolds
  <2> QED BY <2>2, <2>3
<1>6. CASE (\A i \in DOMAIN q : q[i].slot # n) /\ v = f[n]
  <2>1. \A m \in DOMAIN k : k[m].slot # n
    BY <1>4, <1>6
  <2>2. 1 \in DOMAIN q
    BY <1>1
  <2>3. g[n] = v
    BY <1>3, <1>6, <2>2
  <2> QED BY <2>1, <2>3 DEF PlaceHolds
<1> QED BY <1>5, <1>6 DEF PlaceHolds

\* What persist makes of the session of an open window, and the state it saves.
PlacePersisted(ws, x, r) ==
  /\ r[1] \in PlaceSessions(ws) /\ PlaceWell(r[1]) /\ r[1].slot = x.slot /\ r[1].place = x.place
  /\ r[1].inDock = x.inDock /\ r[1].pendingDock = x.pendingDock /\ r[1].background = x.background
  /\ r[1].preserve = x.preserve
  /\ r[2] \in PlaceGood
  /\ r[2] = PlaceNone => r[1].saved = x.saved
  /\ x.handle => PlaceKnown(r[1]) # PlaceNone /\ PlaceKnown(r[1]).place = x.place
  /\ r[2] # PlaceNone => r[1].saved = r[2]

\* The bounds that persist reads are those the user left the window in.
LEMMA PlaceState ==
  ASSUME NEW ws, NEW qs, NEW ms, NEW cs, NEW x \in PlaceSessions(ws), PlaceWell(x)
  PROVE  /\ Saved(ws, qs, ms, cs)!State(x) \in PlaceStates
         /\ Saved(ws, qs, ms, cs)!State(x).place = x.place
         /\ Saved(ws, qs, ms, cs)!Truth(x) = Saved(ws, qs, ms, cs)!State(x)
<1>1. /\ x.inDock \in BOOLEAN /\ x.pendingDock \in BOOLEAN /\ x.background \in BOOLEAN /\ x.preserve \in BOOLEAN
      /\ x.saved \in PlaceGood /\ x.pending \in PlaceGood /\ x.place \in Spots
  BY DEF PlaceSessions, PlaceWell
<1>2. x.saved.docked \in BOOLEAN
  <2>1. CASE x.saved \in PlaceStates
    BY <2>1 DEF PlaceStates
  <2>2. CASE x.saved = PlaceNone
    BY <2>2 DEF PlaceNone
  <2> QED BY <1>1, <2>1, <2>2 DEF PlaceGood
<1>3. Saved(ws, qs, ms, cs)!Known(x) = PlaceKnown(x)
  BY PlaceNames DEF Saved!Known, PlaceKnown
<1>4. Saved(ws, qs, ms, cs)!IsDocked(x) <=> x.pendingDock \/ x.inDock
  BY DEF Saved!IsDocked
<1>5. Saved(ws, qs, ms, cs)!IsDocked(x) \in BOOLEAN
  BY DEF Saved!IsDocked
<1>6. Saved(ws, qs, ms, cs)!Bounds(x) = x.place
  <2>1. Saved(ws, qs, ms, cs)!IsDocked(x) /\ PlaceKnown(x) # PlaceNone => PlaceKnown(x).place = x.place
    BY <1>4 DEF PlaceWell
  <2>2. x.inDock => Saved(ws, qs, ms, cs)!IsDocked(x) /\ PlaceKnown(x) # PlaceNone
    BY <1>4 DEF PlaceWell
  <2> QED BY <1>3, <2>1, <2>2, PlaceNames DEF Saved!Bounds
<1>7. PICK d \in BOOLEAN : d = IF x.preserve THEN x.saved.docked ELSE Saved(ws, qs, ms, cs)!IsDocked(x)
  BY <1>2, <1>5
<1>8. Saved(ws, qs, ms, cs)!State(x) = [place |-> x.place, docked |-> d]
  BY <1>6, <1>7 DEF Saved!State
<1>9. Saved(ws, qs, ms, cs)!Truth(x) = [place |-> x.place, docked |-> d]
  BY <1>7 DEF Saved!Truth
<1>10. [place |-> x.place, docked |-> d] \in PlaceStates
  BY <1>1, <1>7 DEF PlaceStates
<1> QED BY <1>8, <1>9, <1>10

PlaceSame(y, x) ==
  /\ y.slot = x.slot /\ y.place = x.place /\ y.inDock = x.inDock /\ y.pendingDock = x.pendingDock
  /\ y.background = x.background /\ y.preserve = x.preserve

\* A session in which what persist read is known.
LEMMA PlaceTakes ==
  ASSUME NEW ws, NEW x \in PlaceSessions(ws), PlaceWell(x), NEW s \in PlaceStates, s.place = x.place \/ s = x.pending,
         NEW y \in PlaceSessions(ws), PlaceSame(y, x), y.pending = s, y.seen # PlaceNone => y.seen = s
  PROVE  PlaceWell(y) /\ PlaceKnown(y) = s /\ s # PlaceNone
<1>1. s # PlaceNone
  BY PlaceStatesReal
<1>2. PlaceKnown(y) = s
  BY <1>1 DEF PlaceKnown
<1>3. s.place = x.place \/ PlaceKnown(x) = s
  BY <1>1 DEF PlaceKnown
<1> QED BY <1>1, <1>2, <1>3 DEF PlaceWell, PlaceSame

\* persist reads the state of a window, or takes what was read before, and saves it if it waited.
LEMMA PlacePersists ==
  ASSUME NEW ws, NEW qs, NEW ms, NEW cs, NEW x \in PlaceSessions(ws), PlaceWell(x), NEW force,
         NEW r \in Saved(ws, qs, ms, cs)!Persisted(x, force)
  PROVE  PlacePersisted(ws, x, r) /\ (r[2] # PlaceNone => Len(saves) < qs)
<1>1. x.handle \in BOOLEAN /\ x.seen \in PlaceGood /\ x.pending \in PlaceGood /\ PlaceNone \in PlaceGood
  BY DEF PlaceSessions, PlaceGood
<1>2. CASE ~x.handle /\ (~force \/ x.pending = PlaceNone)
  <2>1. r = <<x, PlaceNone>>
    BY <1>2, PlaceNames DEF Saved!Persisted
  <2>2. r[1] = x /\ r[2] = PlaceNone
    BY <2>1
  <2> QED BY <1>1, <1>2, <2>2 DEF PlacePersisted
<1>3. CASE x.handle \/ (force /\ x.pending # PlaceNone)
  <2>1. PICK s \in PlaceStates : /\ s = (IF x.handle THEN Saved(ws, qs, ms, cs)!State(x) ELSE x.pending)
                                 /\ s.place = x.place \/ s = x.pending
                                 /\ x.handle => s.place = x.place
    BY <1>1, <1>3, PlaceState, PlaceStatesReal
  <2>2. PICK e \in PlaceGood : /\ e = (IF x.handle THEN Saved(ws, qs, ms, cs)!Truth(x) ELSE x.seen)
                               /\ e # PlaceNone => e = s
    <3>1. CASE x.handle
      BY <2>1, <3>1, PlaceState, PlaceStatesReal
    <3>2. CASE ~x.handle
      BY <1>1, <2>1, <3>2 DEF PlaceWell
    <3> QED BY <1>1, <3>1, <3>2
  <2>3. PICK y : y = [x EXCEPT !.pending = s, !.seen = e]
    OBVIOUS
  <2>4. PICK z : z = [y EXCEPT !.saved = s]
    OBVIOUS
  <2>5. s \in PlaceGood
    BY <2>1, PlaceStatesReal
  <2>y. y \in PlaceSessions(ws) /\ PlaceSame(y, x) /\ y.pending = s /\ y.seen = e /\ y.saved = x.saved
    BY <2>2, <2>3, <2>5 DEF PlaceSessions, PlaceSame
  <2>z. z \in PlaceSessions(ws) /\ PlaceSame(z, x) /\ z.pending = s /\ z.seen = e /\ z.saved = s
    BY <2>4, <2>5, <2>y DEF PlaceSessions, PlaceSame
  <2>6. /\ PlaceWell(y) /\ PlaceKnown(y) = s /\ PlaceWell(z) /\ PlaceKnown(z) = s /\ s # PlaceNone
    BY <2>1, <2>2, <2>y, <2>z, PlaceTakes
  <2>7. y = [x EXCEPT !.pending = s, !.seen = IF x.handle THEN Saved(ws, qs, ms, cs)!Truth(x) ELSE @]
    BY <2>2, <2>3
  <2>8. r = <<y, PlaceNone>> \/ (r = <<z, s>> /\ Len(saves) < qs)
    <3>1. ~(~x.handle /\ (~force \/ s = PlaceNone))
      BY <1>3, <2>1, <2>6
    <3> QED BY <2>1, <2>4, <2>7, <3>1, PlaceNames DEF Saved!Persisted
  <2>9. CASE r = <<y, PlaceNone>>
    <3>1. r[1] = y /\ r[2] = PlaceNone
      BY <2>9
    <3> QED BY <1>1, <2>1, <2>y, <2>z, <2>6, <3>1 DEF PlacePersisted, PlaceSame
  <2>10. CASE r = <<z, s>> /\ Len(saves) < qs
    <3>1. r[1] = z /\ r[2] = s /\ s \in PlaceGood
      BY <2>10, PlaceStatesReal
    <3> QED BY <1>1, <2>1, <2>y, <2>z, <2>6, <2>10, <3>1 DEF PlacePersisted, PlaceSame
  <2> QED BY <2>8, <2>9, <2>10
<1> QED BY <1>1, <1>2, <1>3

\* A state that persist hands over, if any: it is what the file of its slot will hold, and the others hold what they held.
LEMMA PlaceSubmits ==
  ASSUME NEW ws, NEW qs \in Nat, NEW ms, NEW cs, PlaceQueue(ws, qs), NEW x, x.slot \in PlaceSlots(ws),
         NEW s \in PlaceGood, s # PlaceNone => Len(saves) < qs,
         Saved(ws, qs, ms, cs)!Submit(x, s), files' = files
  PROVE  /\ PlaceQueue(ws, qs)'
         /\ \A n \in PlaceSlots(ws) : \A v :
              (n # x.slot \/ s = PlaceNone) /\ PlaceHolds(saves, files, n, v) => PlaceHolds(saves', files', n, v)
         /\ s # PlaceNone => PlaceHolds(saves', files', x.slot, s)
<1>1. CASE s = PlaceNone
  <2>1. UNCHANGED <<cache, saves, files>>
    BY <1>1, PlaceNames DEF Saved!Submit
  <2> QED BY <1>1, <2>1 DEF PlaceQueue
<1>2. CASE s # PlaceNone
  <2>1. /\ cache' = [cache EXCEPT ![x.slot] = s]
        /\ saves' = Append(saves, [slot |-> x.slot, state |-> s])
    BY <1>2, PlaceNames DEF Saved!Submit
  <2>2. PICK r \in PlaceSaves(ws) : r = [slot |-> x.slot, state |-> s] /\ r.slot = x.slot /\ r.state = s
    <3>1. s \in PlaceStates
      BY <1>2, PlaceStatesReal
    <3>2. [slot |-> x.slot, state |-> s] \in PlaceSaves(ws)
      BY <3>1 DEF PlaceSaves
    <3> QED BY <3>2
  <2>3. saves' = Append(saves, r)
    BY <2>1, <2>2
  <2>4. /\ saves \in Seq(PlaceSaves(ws)) /\ Len(saves) \in Nat /\ cache \in [PlaceSlots(ws) -> PlaceGood]
        /\ files \in [PlaceSlots(ws) -> PlaceGood]
    BY DEF PlaceQueue
  <2>5. saves' \in Seq(PlaceSaves(ws)) /\ Len(saves') = Len(saves) + 1
    BY <2>2, <2>3, <2>4
  <2>6. Len(saves') <= qs
    BY <1>2, <2>4, <2>5
  <2>7. cache' \in [PlaceSlots(ws) -> PlaceGood] /\ \A n \in PlaceSlots(ws) : cache'[n] = IF n = x.slot THEN s ELSE cache[n]
    BY <2>1, <2>4
  <2>8. PlaceHolds(saves', files', x.slot, s)
    BY <2>2, <2>3, <2>4, PlaceAppends
  <2>9. ASSUME NEW n \in PlaceSlots(ws), NEW v, n # x.slot, PlaceHolds(saves, files, n, v)
        PROVE  PlaceHolds(saves', files', n, v)
    BY <2>2, <2>3, <2>4, <2>9, PlaceAppends
  <2>10. ASSUME NEW k \in DOMAIN saves' PROVE cache'[saves'[k].slot] # PlaceNone
    <3>1. (k \in DOMAIN saves /\ saves'[k] = saves[k]) \/ saves'[k] = r
      BY <2>3, <2>4
    <3>2. saves'[k].slot \in PlaceSlots(ws)
      <4>1. saves'[k] \in PlaceSaves(ws)
        BY <2>5, <2>10
      <4> QED BY <4>1 DEF PlaceSaves
    <3>3. saves'[k].slot = x.slot \/ cache[saves'[k].slot] # PlaceNone
      BY <2>2, <3>1 DEF PlaceQueue
    <3> QED BY <1>2, <2>7, <3>2, <3>3
  <2>11. ASSUME NEW n \in PlaceSlots(ws), cache'[n] # PlaceNone PROVE PlaceHolds(saves', files', n, cache'[n])
    <3>1. CASE n = x.slot
      BY <2>7, <2>8, <3>1
    <3>2. CASE n # x.slot
      <4>1. cache'[n] = cache[n]
        BY <2>7, <3>2
      <4>2. PlaceHolds(saves, files, n, cache[n])
        BY <2>11, <4>1 DEF PlaceQueue
      <4> QED BY <2>9, <3>2, <4>1, <4>2
    <3> QED BY <3>1, <3>2
  <2>12. PlaceQueue(ws, qs)'
    BY <2>4, <2>5, <2>6, <2>7, <2>10, <2>11 DEF PlaceQueue
  <2> QED BY <1>2, <2>8, <2>9, <2>12
<1> QED BY <1>1, <1>2

\* A step that leaves the session y in place of that of an open window.
LEMMA PlacePuts ==
  ASSUME NEW ws, NEW qs \in Nat, NEW ms, NEW cs, PlaceInv(ws, qs, ms, cs), NEW i \in open,
         NEW y \in PlaceSessions(ws), PlaceWell(y), y.slot = session[i].slot, session' = [session EXCEPT ![i] = y],
         NEW s \in PlaceGood, s # PlaceNone => Len(saves) < qs /\ y.saved = s,
         s = PlaceNone => y.saved = session[i].saved,
         Saved(ws, qs, ms, cs)!Submit(session[i], s),
         UNCHANGED <<open, files, leftAs, crashes>>, moves' \in 0 .. ms
  PROVE  PlaceInv(ws, qs, ms, cs)'
<1>1. PlaceQueue(ws, qs) /\ PlaceWindows(ws) /\ PlaceKept(ws) /\ PlaceBounds(ms, cs)
  BY DEF PlaceInv
<1>2. /\ open \subseteq ws /\ session \in [ws -> PlaceSessions(ws)] /\ i \in ws
      /\ session[i] \in PlaceSessions(ws) /\ session[i].slot \in PlaceSlots(ws)
  BY <1>1 DEF PlaceWindows, PlaceSessions
<1>3. /\ PlaceQueue(ws, qs)'
      /\ \A n \in PlaceSlots(ws) : \A v :
           (n # session[i].slot \/ s = PlaceNone) /\ PlaceHolds(saves, files, n, v) => PlaceHolds(saves', files', n, v)
      /\ s # PlaceNone => PlaceHolds(saves', files', session[i].slot, s)
  BY <1>1, <1>2, PlaceSubmits
<1>4. /\ session' \in [ws -> PlaceSessions(ws)] /\ session'[i] = y
      /\ \A j \in ws : j # i => session'[j] = session[j]
      /\ \A j \in ws : session'[j].slot = session[j].slot
  BY <1>2
<1>5. PlaceWindows(ws)'
  <2>1. \A j \in ws \ open : PlaceClosed(session'[j])
    BY <1>1, <1>4 DEF PlaceWindows
  <2>2. \A j \in open : PlaceWell(session'[j])
    BY <1>1, <1>2, <1>4 DEF PlaceWindows
  <2>3. \A j \in open : \A m \in open : session'[j].slot = session'[m].slot => j = m
    BY <1>1, <1>2, <1>4 DEF PlaceWindows
  <2> QED BY <1>2, <1>4, <2>1, <2>2, <2>3 DEF PlaceWindows
<1>6. PlaceKept(ws)'
  <2>1. ASSUME NEW j \in open PROVE PlaceHolds(saves', files', session'[j].slot, session'[j].saved)
    <3>1. PlaceHolds(saves, files, session[j].slot, session[j].saved) /\ j \in ws /\ session[j].slot \in PlaceSlots(ws)
      BY <1>1, <1>2 DEF PlaceKept, PlaceSessions
    <3>2. CASE j # i
      <4>1. session[j].slot # session[i].slot
        BY <1>1, <3>2 DEF PlaceWindows
      <4> QED BY <1>3, <1>4, <3>1, <3>2, <4>1
    <3>3. CASE j = i /\ s = PlaceNone
      BY <1>3, <1>4, <3>1, <3>3
    <3>4. CASE j = i /\ s # PlaceNone
      BY <1>3, <1>4, <3>4
    <3> QED BY <3>2, <3>3, <3>4
  <2>2. ASSUME NEW n \in PlaceSlots(ws), leftAs[n] # PlaceNone, \A j \in open : session'[j].slot # n
        PROVE  PlaceHolds(saves', files', n, leftAs[n])
    <3>1. \A j \in open : session[j].slot # n
      BY <1>2, <1>4, <2>2
    <3>2. PlaceHolds(saves, files, n, leftAs[n])
      BY <1>1, <2>2, <3>1 DEF PlaceKept
    <3> QED BY <1>3, <3>1, <3>2
  <2> QED BY <1>1, <2>1, <2>2 DEF PlaceKept
<1>7. PlaceBounds(ms, cs)'
  BY <1>1 DEF PlaceBounds
<1> QED BY <1>3, <1>5, <1>6, <1>7 DEF PlaceInv

LEMMA PlaceTicks ==
  ASSUME NEW ws, NEW qs \in Nat, NEW ms, NEW cs, PlaceInv(ws, qs, ms, cs), NEW i \in ws,
         Saved(ws, qs, ms, cs)!Tick(i)
  PROVE  PlaceInv(ws, qs, ms, cs)'
<1>1. /\ i \in open /\ UNCHANGED <<open, files, leftAs, moves, crashes>>
  BY DEF Saved!Tick, Saved!Live, Saved!Rest
<1>2. PICK r \in Saved(ws, qs, ms, cs)!Persisted(session[i], FALSE) :
        session' = [session EXCEPT ![i] = r[1]] /\ Saved(ws, qs, ms, cs)!Submit(session[i], r[2])
  BY DEF Saved!Tick
<1>3. session[i] \in PlaceSessions(ws) /\ PlaceWell(session[i]) /\ moves \in 0 .. ms
  BY <1>1 DEF PlaceInv, PlaceWindows, PlaceBounds
<1>4. PlacePersisted(ws, session[i], r) /\ (r[2] # PlaceNone => Len(saves) < qs)
  BY <1>2, <1>3, PlacePersists
<1>5. /\ r[1] \in PlaceSessions(ws) /\ PlaceWell(r[1]) /\ r[1].slot = session[i].slot /\ r[2] \in PlaceGood
      /\ r[2] # PlaceNone => r[1].saved = r[2]
      /\ r[2] = PlaceNone => r[1].saved = session[i].saved
  BY <1>4 DEF PlacePersisted
<1> QED BY <1>1, <1>2, <1>3, <1>4, <1>5, PlacePuts

\* The same when nothing is saved.
LEMMA PlaceChanges ==
  ASSUME NEW ws, NEW qs \in Nat, NEW ms, NEW cs, PlaceInv(ws, qs, ms, cs), NEW i \in open,
         NEW y \in PlaceSessions(ws), PlaceWell(y), y.slot = session[i].slot, y.saved = session[i].saved,
         session' = [session EXCEPT ![i] = y],
         UNCHANGED <<open, cache, saves, files, leftAs, crashes>>, moves' \in 0 .. ms
  PROVE  PlaceInv(ws, qs, ms, cs)'
<1>1. PICK s \in PlaceGood : s = PlaceNone
  BY DEF PlaceGood
<1>2. Saved(ws, qs, ms, cs)!Submit(session[i], s)
  BY <1>1, PlaceNames DEF Saved!Submit
<1> QED BY <1>1, <1>2, PlacePuts

LEMMA PlaceMoves ==
  ASSUME NEW ws, NEW qs \in Nat, NEW ms \in Nat, NEW cs, PlaceInv(ws, qs, ms, cs), NEW i \in ws, NEW p \in Spots,
         Saved(ws, qs, ms, cs)!Move(i, p)
  PROVE  PlaceInv(ws, qs, ms, cs)'
<1>1. /\ i \in open /\ ~session[i].inDock /\ ~session[i].background /\ moves < ms /\ moves' = moves + 1
      /\ session' = [session EXCEPT ![i].place = p] /\ UNCHANGED <<open, cache, saves, files, leftAs, crashes>>
  BY DEF Saved!Move, Saved!Live
<1>2. session \in [ws -> PlaceSessions(ws)] /\ session[i] \in PlaceSessions(ws) /\ PlaceWell(session[i]) /\ moves \in 0 .. ms
  BY <1>1 DEF PlaceInv, PlaceWindows, PlaceBounds
<1>3. PICK y : y = [session[i] EXCEPT !.place = p]
  OBVIOUS
<1>4. /\ y \in PlaceSessions(ws) /\ y.place = p /\ y.slot = session[i].slot /\ y.saved = session[i].saved
      /\ y.pending = session[i].pending /\ y.seen = session[i].seen /\ y.inDock = session[i].inDock
      /\ y.pendingDock = session[i].pendingDock /\ y.background = session[i].background
  BY <1>2, <1>3 DEF PlaceSessions
<1>5. PlaceWell(y)
  BY <1>1, <1>2, <1>4 DEF PlaceWell
<1>6. session' = [session EXCEPT ![i] = y]
  BY <1>1, <1>2, <1>3
<1>7. moves' \in 0 .. ms
  BY <1>1, <1>2
<1> QED BY <1>1, <1>4, <1>5, <1>6, <1>7, PlaceChanges

LEMMA PlaceCloses ==
  ASSUME NEW ws, NEW qs \in Nat, NEW ms, NEW cs, PlaceInv(ws, qs, ms, cs), NEW i \in ws,
         Saved(ws, qs, ms, cs)!Close(i)
  PROVE  PlaceInv(ws, qs, ms, cs)'
<1>1. i \in open /\ UNCHANGED <<open, cache, saves, files, leftAs, moves, crashes>>
  BY DEF Saved!Close, Saved!Rest
<1>2. session \in [ws -> PlaceSessions(ws)] /\ session[i] \in PlaceSessions(ws) /\ PlaceWell(session[i]) /\ moves \in 0 .. ms
  BY <1>1 DEF PlaceInv, PlaceWindows, PlaceBounds
<1>3. PICK h \in BOOLEAN : session' = [session EXCEPT ![i].closing = TRUE, ![i].handle = h]
  BY DEF Saved!Close
<1>4. PICK y : y = [session[i] EXCEPT !.closing = TRUE, !.handle = h]
  OBVIOUS
<1>5. /\ y \in PlaceSessions(ws) /\ y.place = session[i].place /\ y.slot = session[i].slot /\ y.saved = session[i].saved
      /\ y.pending = session[i].pending /\ y.seen = session[i].seen /\ y.inDock = session[i].inDock
      /\ y.pendingDock = session[i].pendingDock /\ y.background = session[i].background
  BY <1>2, <1>3, <1>4 DEF PlaceSessions
<1>6. PlaceWell(y)
  BY <1>2, <1>5 DEF PlaceWell, PlaceKnown
<1>7. session' = [session EXCEPT ![i] = y]
  BY <1>2, <1>3, <1>4
<1> QED BY <1>1, <1>2, <1>5, <1>6, <1>7, PlaceChanges

\* A window that floats and is offered to a Docker: its bounds are read before the Docker takes it.
LEMMA PlaceDocks ==
  ASSUME NEW ws, NEW qs, NEW ms, NEW cs, NEW x \in PlaceSessions(ws), PlaceWell(x), x.handle, ~x.inDock, ~x.background,
         NEW r \in Saved(ws, qs, ms, cs)!Docked(x)
  PROVE  /\ r[1] \in PlaceSessions(ws) /\ r[1].slot = x.slot /\ r[1].place = x.place
         /\ r[2] \in PlaceGood /\ (r[2] # PlaceNone => Len(saves) < qs /\ r[1].saved = r[2])
         /\ r[2] = PlaceNone => r[1].saved = x.saved
         /\ ~r[1].background /\ r[1].pendingDock = x.pendingDock
         /\ PlaceKnown(r[1]) # PlaceNone /\ PlaceKnown(r[1]).place = x.place
         /\ PlaceWell(r[1])
<1>1. PICK d \in BOOLEAN : r \in Saved(ws, qs, ms, cs)!Offered(x, d)
  BY DEF Saved!Docked
<1>2. PICK q \in Saved(ws, qs, ms, cs)!Persisted(x, FALSE) :
        r = <<[q[1] EXCEPT !.inDock = d, !.preserve = @ /\ ~d], q[2]>>
  BY <1>1 DEF Saved!Offered
<1>3. PlacePersisted(ws, x, q) /\ (q[2] # PlaceNone => Len(saves) < qs)
  BY <1>2, PlacePersists
<1>4. /\ q[1] \in PlaceSessions(ws) /\ PlaceWell(q[1]) /\ q[1].slot = x.slot /\ q[1].place = x.place
      /\ q[1].inDock = x.inDock /\ q[1].pendingDock = x.pendingDock /\ q[1].background = x.background
      /\ q[2] \in PlaceGood /\ (q[2] = PlaceNone => q[1].saved = x.saved) /\ (q[2] # PlaceNone => q[1].saved = q[2])
      /\ PlaceKnown(q[1]) # PlaceNone /\ PlaceKnown(q[1]).place = x.place
  BY <1>3 DEF PlacePersisted
<1>5. PICK y : y = [q[1] EXCEPT !.inDock = d, !.preserve = @ /\ ~d]
  OBVIOUS
<1>6. r[1] = y /\ r[2] = q[2]
  BY <1>2, <1>5
<1>7. /\ y \in PlaceSessions(ws) /\ y.slot = q[1].slot /\ y.place = q[1].place /\ y.saved = q[1].saved
      /\ y.pending = q[1].pending /\ y.seen = q[1].seen /\ y.inDock = d
      /\ y.pendingDock = q[1].pendingDock /\ y.background = q[1].background
  BY <1>1, <1>4, <1>5 DEF PlaceSessions
<1>8. PlaceKnown(y) = PlaceKnown(q[1])
  BY <1>7 DEF PlaceKnown
<1>9. PlaceWell(y)
  BY <1>4, <1>7, <1>8 DEF PlaceWell
<1> QED BY <1>3, <1>4, <1>6, <1>7, <1>8, <1>9

LEMMA PlaceSetDocked ==
  ASSUME NEW ws, NEW qs \in Nat, NEW ms, NEW cs, PlaceInv(ws, qs, ms, cs), NEW i \in ws, NEW docked \in BOOLEAN,
         Saved(ws, qs, ms, cs)!SetDocked(i, docked)
  PROVE  PlaceInv(ws, qs, ms, cs)'
<1>1. /\ i \in open /\ session[i].handle /\ UNCHANGED <<open, files, leftAs, moves, crashes>>
      /\ docked # Saved(ws, qs, ms, cs)!IsDocked(session[i])
  BY DEF Saved!SetDocked, Saved!Live, Saved!Rest
<1>2. /\ session \in [ws -> PlaceSessions(ws)] /\ session[i] \in PlaceSessions(ws) /\ PlaceWell(session[i])
      /\ moves \in 0 .. ms /\ PlaceNone \in PlaceGood
  BY <1>1 DEF PlaceInv, PlaceWindows, PlaceBounds, PlaceGood
<1>3. session[i].inDock \in BOOLEAN /\ session[i].pendingDock \in BOOLEAN /\ session[i].background \in BOOLEAN
  BY <1>2 DEF PlaceSessions
<1>4. CASE session[i].background
  <2>1. PICK y : y = [session[i] EXCEPT !.pendingDock = docked]
    OBVIOUS
  <2>2. PICK r : r = <<[session[i] EXCEPT !.pendingDock = docked], PlaceNone>> /\ session' = [session EXCEPT ![i] = r[1]]
                 /\ Saved(ws, qs, ms, cs)!Submit(session[i], r[2])
    BY <1>4, PlaceNames DEF Saved!SetDocked
  <2>3. r[1] = y /\ r[2] = PlaceNone
    BY <2>1, <2>2
  <2>4. /\ y \in PlaceSessions(ws) /\ y.place = session[i].place /\ y.slot = session[i].slot /\ y.saved = session[i].saved
        /\ y.pending = session[i].pending /\ y.seen = session[i].seen /\ y.inDock = session[i].inDock
        /\ y.pendingDock = docked /\ y.background = session[i].background
    BY <1>2, <2>1 DEF PlaceSessions
  <2>5. PlaceWell(y)
    BY <1>2, <1>4, <2>4 DEF PlaceWell, PlaceKnown
  <2> QED BY <1>1, <1>2, <2>2, <2>3, <2>4, <2>5, PlacePuts
<1>5. CASE ~session[i].background /\ docked
  <2>1. PICK r \in Saved(ws, qs, ms, cs)!Docked(session[i]) :
          session' = [session EXCEPT ![i] = r[1]] /\ Saved(ws, qs, ms, cs)!Submit(session[i], r[2])
    BY <1>5 DEF Saved!SetDocked
  <2>2. ~session[i].inDock
    BY <1>1, <1>5 DEF Saved!IsDocked
  <2>3. /\ r[1] \in PlaceSessions(ws) /\ r[1].slot = session[i].slot /\ PlaceWell(r[1])
        /\ r[2] \in PlaceGood /\ (r[2] # PlaceNone => Len(saves) < qs /\ r[1].saved = r[2])
        /\ r[2] = PlaceNone => r[1].saved = session[i].saved
    BY <1>1, <1>2, <1>5, <2>1, <2>2, PlaceDocks
  <2> QED BY <1>1, <1>2, <2>1, <2>3, PlacePuts
<1>6. CASE ~session[i].background /\ ~docked
  <2>1. PICK y : y = [session[i] EXCEPT !.inDock = FALSE, !.preserve = FALSE]
    OBVIOUS
  <2>2. PICK r : r = <<[session[i] EXCEPT !.inDock = FALSE, !.preserve = FALSE], PlaceNone>>
                 /\ session' = [session EXCEPT ![i] = r[1]] /\ Saved(ws, qs, ms, cs)!Submit(session[i], r[2])
    BY <1>6, PlaceNames DEF Saved!SetDocked
  <2>3. r[1] = y /\ r[2] = PlaceNone
    BY <2>1, <2>2
  <2>4. /\ y \in PlaceSessions(ws) /\ y.place = session[i].place /\ y.slot = session[i].slot /\ y.saved = session[i].saved
        /\ y.pending = session[i].pending /\ y.seen = session[i].seen /\ ~y.inDock
        /\ y.pendingDock = session[i].pendingDock /\ y.background = session[i].background
    BY <1>2, <2>1 DEF PlaceSessions
  <2>5. PlaceWell(y)
    BY <1>2, <1>6, <2>4 DEF PlaceWell, PlaceKnown
  <2> QED BY <1>1, <1>2, <2>2, <2>3, <2>4, <2>5, PlacePuts
<1> QED BY <1>3, <1>4, <1>5, <1>6

LEMMA PlaceShows ==
  ASSUME NEW ws, NEW qs \in Nat, NEW ms, NEW cs, PlaceInv(ws, qs, ms, cs), NEW i \in ws,
         Saved(ws, qs, ms, cs)!Show(i)
  PROVE  PlaceInv(ws, qs, ms, cs)'
<1>1. /\ i \in open /\ session[i].handle /\ session[i].background /\ UNCHANGED <<open, files, leftAs, moves, crashes>>
  BY DEF Saved!Show, Saved!Live, Saved!Rest
<1>2. /\ session \in [ws -> PlaceSessions(ws)] /\ session[i] \in PlaceSessions(ws) /\ PlaceWell(session[i])
      /\ moves \in 0 .. ms
  BY <1>1 DEF PlaceInv, PlaceWindows, PlaceBounds
<1>3. ~session[i].inDock
  BY <1>1, <1>2 DEF PlaceWell
<1>4. CASE ~session[i].pendingDock
  <2>1. session' = [session EXCEPT ![i].background = FALSE] /\ UNCHANGED <<cache, saves>>
    BY <1>4 DEF Saved!Show
  <2>2. PICK y : y = [session[i] EXCEPT !.background = FALSE]
    OBVIOUS
  <2>3. /\ y \in PlaceSessions(ws) /\ y.place = session[i].place /\ y.slot = session[i].slot /\ y.saved = session[i].saved
        /\ y.pending = session[i].pending /\ y.seen = session[i].seen /\ y.inDock = session[i].inDock
        /\ y.pendingDock = session[i].pendingDock /\ ~y.background
    BY <1>2, <2>2 DEF PlaceSessions
  <2>4. PlaceWell(y)
    BY <1>2, <1>3, <1>4, <2>3 DEF PlaceWell, PlaceKnown
  <2>5. session' = [session EXCEPT ![i] = y]
    BY <1>2, <2>1, <2>2
  <2> QED BY <1>1, <1>2, <2>1, <2>3, <2>4, <2>5, PlaceChanges
<1>5. CASE session[i].pendingDock
  <2>1. PICK x : x = [session[i] EXCEPT !.background = FALSE, !.pendingDock = FALSE]
    OBVIOUS
  <2>2. /\ x \in PlaceSessions(ws) /\ x.place = session[i].place /\ x.slot = session[i].slot /\ x.saved = session[i].saved
        /\ x.pending = session[i].pending /\ x.seen = session[i].seen /\ ~x.inDock
        /\ ~x.pendingDock /\ ~x.background /\ x.handle
    BY <1>1, <1>2, <1>3, <2>1 DEF PlaceSessions
  <2>3. PlaceWell(x)
    BY <1>2, <2>2 DEF PlaceWell
  <2> DEFINE Refused(o) == [o EXCEPT !.background = TRUE, !.pendingDock = TRUE]
  <2>4. PICK r \in Saved(ws, qs, ms, cs)!Docked(x) :
          /\ session' = [session EXCEPT ![i] = IF r[1].inDock THEN r[1] ELSE Refused(r[1])]
          /\ Saved(ws, qs, ms, cs)!Submit(session[i], r[2])
    BY <1>5, <2>1 DEF Saved!Show
  <2>5. /\ r[1] \in PlaceSessions(ws) /\ r[1].slot = x.slot /\ r[1].place = x.place
        /\ r[2] \in PlaceGood /\ (r[2] # PlaceNone => Len(saves) < qs /\ r[1].saved = r[2])
        /\ r[2] = PlaceNone => r[1].saved = x.saved
        /\ PlaceKnown(r[1]) # PlaceNone /\ PlaceKnown(r[1]).place = x.place
        /\ PlaceWell(r[1])
    BY <2>2, <2>3, <2>4, PlaceDocks
  <2>6. CASE r[1].inDock
    BY <1>1, <1>2, <2>2, <2>4, <2>5, <2>6, PlacePuts
  <2>7. CASE ~r[1].inDock
    <3>1. PICK y : y = [r[1] EXCEPT !.background = TRUE, !.pendingDock = TRUE]
      OBVIOUS
    <3>2. /\ y \in PlaceSessions(ws) /\ y.place = r[1].place /\ y.slot = r[1].slot /\ y.saved = r[1].saved
          /\ y.pending = r[1].pending /\ y.seen = r[1].seen /\ ~y.inDock /\ y.pendingDock /\ y.background
      BY <2>5, <2>7, <3>1 DEF PlaceSessions
    <3>3. PlaceWell(y)
      BY <2>5, <3>2 DEF PlaceWell, PlaceKnown
    <3>4. y = Refused(r[1])
      BY <3>1
    <3> HIDE DEF Refused
    <3>5. session' = [session EXCEPT ![i] = y]
      BY <2>4, <2>7, <3>4
    <3>6. /\ y \in PlaceSessions(ws) /\ y.slot = session[i].slot /\ r[2] \in PlaceGood
          /\ (r[2] # PlaceNone => Len(saves) < qs /\ y.saved = r[2])
          /\ r[2] = PlaceNone => y.saved = session[i].saved
      BY <2>2, <2>5, <3>2
    <3>7. Saved(ws, qs, ms, cs)!Submit(session[i], r[2])
      BY <2>4
    <3> QED BY <1>1, <1>2, <3>3, <3>5, <3>6, <3>7, PlacePuts
  <2> QED BY <2>6, <2>7
<1>6. session[i].pendingDock \in BOOLEAN
  BY <1>2 DEF PlaceSessions
<1> QED BY <1>4, <1>5

\* The session of a window that is closed.
LEMMA PlaceForgets ==
  ASSUME NEW ws, IsFiniteSet(ws), NEW i \in ws, NEW qs, NEW ms, NEW cs
  PROVE  /\ PlaceClosed(Saved(ws, qs, ms, cs)!Closed)
         /\ Saved(ws, qs, ms, cs)!Closed \in PlaceSessions(ws)
<1>1. PICK c : c = Saved(ws, qs, ms, cs)!Closed
  OBVIOUS
<1>2. 0 \in PlaceSlots(ws)
  <2>1. ws # {}
    OBVIOUS
  <2>2. Cardinality(ws) \in Nat /\ Cardinality(ws) # 0
    BY <2>1, FS_CardinalityType, FS_EmptySet
  <2> QED BY <2>2 DEF PlaceSlots
<1>3. PlaceNone \in PlaceGood
  BY DEF PlaceGood
<1>4. c = [slot |-> 0, saved |-> PlaceNone, pending |-> PlaceNone, place |-> 0, inDock |-> FALSE, pendingDock |-> FALSE,
           background |-> FALSE, preserve |-> FALSE, handle |-> FALSE, closing |-> FALSE, seen |-> PlaceNone]
  BY <1>1, PlaceNames DEF Saved!Closed
<1>5. c \in PlaceSessions(ws) /\ PlaceClosed(c)
  BY <1>2, <1>3, <1>4 DEF PlaceSessions, PlaceClosed
<1> QED BY <1>1, <1>5

\* A window goes: what is left of it is what its slot will hold.
LEMMA PlaceErases ==
  ASSUME NEW ws, IsFiniteSet(ws), NEW qs \in Nat, NEW ms, NEW cs, PlaceInv(ws, qs, ms, cs), NEW i \in ws,
         Saved(ws, qs, ms, cs)!Erase(i)
  PROVE  PlaceInv(ws, qs, ms, cs)'
<1>1. /\ i \in open /\ open' = open \ {i} /\ session' = [session EXCEPT ![i] = Saved(ws, qs, ms, cs)!Closed]
      /\ UNCHANGED <<files, moves, crashes>>
  BY DEF Saved!Erase
<1>2. PICK r \in Saved(ws, qs, ms, cs)!Persisted(session[i], TRUE) :
        /\ Saved(ws, qs, ms, cs)!Submit(session[i], r[2])
        /\ leftAs' = [leftAs EXCEPT ![session[i].slot] = IF r[1].saved = r[1].pending THEN r[1].seen
                                                         ELSE Saved(ws, qs, ms, cs)!None]
  BY DEF Saved!Erase
<1>3. PlaceQueue(ws, qs) /\ PlaceWindows(ws) /\ PlaceKept(ws) /\ PlaceBounds(ms, cs)
  BY DEF PlaceInv
<1>4. /\ open \subseteq ws /\ session \in [ws -> PlaceSessions(ws)] /\ session[i] \in PlaceSessions(ws)
      /\ PlaceWell(session[i]) /\ session[i].slot \in PlaceSlots(ws)
  BY <1>1, <1>3 DEF PlaceWindows, PlaceSessions
<1>5. PlacePersisted(ws, session[i], r) /\ (r[2] # PlaceNone => Len(saves) < qs)
  BY <1>2, <1>4, PlacePersists
<1>6. /\ r[1] \in PlaceSessions(ws) /\ PlaceWell(r[1]) /\ r[2] \in PlaceGood
      /\ r[2] = PlaceNone => r[1].saved = session[i].saved
      /\ r[2] # PlaceNone => r[1].saved = r[2]
  BY <1>5 DEF PlacePersisted
<1>7. /\ PlaceQueue(ws, qs)'
      /\ \A n \in PlaceSlots(ws) : \A v :
           (n # session[i].slot \/ r[2] = PlaceNone) /\ PlaceHolds(saves, files, n, v) => PlaceHolds(saves', files', n, v)
      /\ r[2] # PlaceNone => PlaceHolds(saves', files', session[i].slot, r[2])
  BY <1>1, <1>2, <1>3, <1>4, <1>5, <1>6, PlaceSubmits
<1>8. PlaceHolds(saves, files, session[i].slot, session[i].saved)
  BY <1>1, <1>3 DEF PlaceKept
<1>9. PlaceHolds(saves', files', session[i].slot, r[1].saved)
  BY <1>4, <1>6, <1>7, <1>8
<1>10. PICK c : c = Saved(ws, qs, ms, cs)!Closed
  OBVIOUS
<1>11. PlaceClosed(c) /\ c \in PlaceSessions(ws)
  BY <1>10, PlaceForgets
<1>12. session' = [session EXCEPT ![i] = c]
  BY <1>1, <1>10
<1>13. /\ session' \in [ws -> PlaceSessions(ws)] /\ session'[i] = c /\ \A j \in ws : j # i => session'[j] = session[j]
  BY <1>4, <1>11, <1>12
<1>14. PlaceWindows(ws)'
  <2>1. \A j \in ws \ open' : PlaceClosed(session'[j])
    BY <1>1, <1>3, <1>11, <1>13 DEF PlaceWindows
  <2>2. \A j \in open' : PlaceWell(session'[j])
    BY <1>1, <1>3, <1>4, <1>13 DEF PlaceWindows
  <2>3. \A j \in open' : \A m \in open' : session'[j].slot = session'[m].slot => j = m
    BY <1>1, <1>3, <1>4, <1>13 DEF PlaceWindows
  <2> QED BY <1>1, <1>4, <1>13, <2>1, <2>2, <2>3 DEF PlaceWindows
<1>15. PICK e \in PlaceGood : /\ leftAs' = [leftAs EXCEPT ![session[i].slot] = e]
                              /\ e # PlaceNone => e = r[1].saved
  <2>1. PICK e : e = IF r[1].saved = r[1].pending THEN r[1].seen ELSE PlaceNone
    OBVIOUS
  <2>2. e \in PlaceGood /\ (e # PlaceNone => e = r[1].saved)
    BY <1>6, <2>1 DEF PlaceWell, PlaceSessions, PlaceGood
  <2>3. leftAs' = [leftAs EXCEPT ![session[i].slot] = e]
    BY <1>2, <2>1, PlaceNames
  <2> QED BY <2>2, <2>3
<1>16. leftAs \in [PlaceSlots(ws) -> PlaceGood]
  BY <1>3 DEF PlaceKept
<1>17. /\ leftAs' \in [PlaceSlots(ws) -> PlaceGood] /\ leftAs'[session[i].slot] = e
       /\ \A n \in PlaceSlots(ws) : n # session[i].slot => leftAs'[n] = leftAs[n]
  BY <1>4, <1>15, <1>16
<1>18. PlaceKept(ws)'
  <2>1. ASSUME NEW j \in open' PROVE PlaceHolds(saves', files', session'[j].slot, session'[j].saved)
    <3>1. j \in open /\ j # i /\ j \in ws /\ session'[j] = session[j] /\ session[j].slot \in PlaceSlots(ws)
      BY <1>1, <1>4, <1>13, <2>1 DEF PlaceSessions
    <3>2. session[j].slot # session[i].slot /\ PlaceHolds(saves, files, session[j].slot, session[j].saved)
      BY <1>1, <1>3, <3>1 DEF PlaceWindows, PlaceKept
    <3> QED BY <1>7, <3>1, <3>2
  <2>2. ASSUME NEW n \in PlaceSlots(ws), leftAs'[n] # PlaceNone, \A j \in open' : session'[j].slot # n
        PROVE  PlaceHolds(saves', files', n, leftAs'[n])
    <3>1. CASE n = session[i].slot
      BY <1>9, <1>15, <1>17, <2>2, <3>1
    <3>2. CASE n # session[i].slot
      <4>1. \A j \in open : session[j].slot # n
        BY <1>1, <1>4, <1>13, <2>2, <3>2
      <4>2. leftAs'[n] = leftAs[n]
        BY <1>17, <3>2
      <4>3. PlaceHolds(saves, files, n, leftAs[n])
        BY <1>3, <2>2, <4>1, <4>2 DEF PlaceKept
      <4> QED BY <1>7, <3>2, <4>2, <4>3
    <3> QED BY <3>1, <3>2
  <2> QED BY <1>17, <2>1, <2>2 DEF PlaceKept
<1>19. PlaceBounds(ms, cs)'
  <2>1. IsFiniteSet(open)
    BY <1>4, FS_Subset
  <2>2. Cardinality(open') <= Cardinality(open) /\ Cardinality(open) \in Nat /\ Cardinality(open') \in Nat
    BY <1>1, <2>1, FS_Subset, FS_CardinalityType
  <2>3. MaxSessions \in Nat /\ Cardinality(open) <= MaxSessions
    BY <1>3, PlacesAssumption DEF PlaceBounds
  <2>4. Cardinality(open') <= MaxSessions
    BY <2>2, <2>3
  <2> QED BY <1>1, <1>3, <2>4 DEF PlaceBounds
<1> QED BY <1>7, <1>14, <1>18, <1>19 DEF PlaceInv

\* While a window is closed there is a slot that no open window has, and the lowest is taken.
LEMMA PlaceSlotFree ==
  ASSUME NEW ws, IsFiniteSet(ws), NEW qs, NEW ms, NEW cs, PlaceWindows(ws), NEW i \in ws, i \notin open
  PROVE  /\ Saved(ws, qs, ms, cs)!FreeSlot \in PlaceSlots(ws)
         /\ \A j \in open : session[j].slot # Saved(ws, qs, ms, cs)!FreeSlot
<1> DEFINE Taken == {session[j].slot : j \in open}
           Free == PlaceSlots(ws) \ Taken
<1>1. /\ open \subseteq ws /\ \A j \in open : session[j].slot \in PlaceSlots(ws)
  BY DEF PlaceWindows, PlaceSessions
<1>2. IsFiniteSet(open) /\ Cardinality(open) < Cardinality(ws)
  <2>1. open \subseteq ws \ {i} /\ IsFiniteSet(ws \ {i}) /\ Cardinality(ws \ {i}) = Cardinality(ws) - 1
    BY <1>1, FS_RemoveElement
  <2>2. IsFiniteSet(open) /\ Cardinality(open) <= Cardinality(ws \ {i})
    BY <2>1, FS_Subset
  <2>3. Cardinality(ws) \in Nat /\ Cardinality(open) \in Nat
    BY <2>2, FS_CardinalityType
  <2> QED BY <2>1, <2>2, <2>3
<1>3. IsFiniteSet(Taken) /\ Cardinality(Taken) <= Cardinality(open)
  <2>1. PICK f : f = [j \in open |-> session[j].slot]
    OBVIOUS
  <2>2. f \in [open -> Taken] /\ \A t \in Taken : \E j \in open : f[j] = t
    BY <2>1
  <2> HIDE DEF Taken
  <2>3. f \in Surjection(open, Taken)
    BY <2>2 DEF Surjection
  <2> QED BY <1>2, <2>3, FS_Surjection
<1>4. IsFiniteSet(PlaceSlots(ws)) /\ Cardinality(PlaceSlots(ws)) = Cardinality(ws)
  <2>1. Cardinality(ws) \in Nat
    BY FS_CardinalityType
  <2>2. IsFiniteSet(0 .. Cardinality(ws) - 1) /\ Cardinality(0 .. Cardinality(ws) - 1) = Cardinality(ws)
    BY <2>1, FS_Interval
  <2> QED BY <2>2 DEF PlaceSlots
<1>5. Free # {}
  <2>1. SUFFICES ASSUME PlaceSlots(ws) \subseteq Taken PROVE FALSE
    OBVIOUS
  <2> HIDE DEF Taken
  <2>2. Cardinality(PlaceSlots(ws)) <= Cardinality(Taken)
    BY <1>3, <2>1, FS_Subset
  <2>3. Cardinality(ws) \in Nat /\ Cardinality(open) \in Nat /\ Cardinality(Taken) \in Nat
    BY <1>2, <1>3, FS_CardinalityType
  <2> QED BY <1>2, <1>3, <1>4, <2>2, <2>3
<1>6. PICK n \in Free : \A m \in Free : n <= m
  <2>1. Free \in SUBSET Nat
    BY DEF PlaceSlots
  <2> HIDE DEF Free
  <2> QED BY <1>5, <2>1, SomeFirst
<1>7. n \in PlaceSlots(ws) /\ \A j \in open : session[j].slot # n
  OBVIOUS
<1>8. ASSUME NEW m \in 0 .. n - 1 PROVE \E j \in open : session[j].slot = m
  <2>1. m \in PlaceSlots(ws) /\ ~(n <= m)
    <3>1. Cardinality(ws) \in Nat
      BY FS_CardinalityType
    <3> QED BY <1>7, <3>1 DEF PlaceSlots
  <2>2. m \in Taken
    BY <1>6, <2>1
  <2> QED BY <2>2
<1> QED BY <1>7, <1>8, PlaceNames DEF Saved!FreeSlot

\* A window opens where the last one of its slot was left.
LEMMA PlaceOpens ==
  ASSUME NEW ws, IsFiniteSet(ws), NEW qs \in Nat, NEW ms, NEW cs, PlaceInv(ws, qs, ms, cs), NEW i \in ws,
         NEW hidden \in BOOLEAN, Saved(ws, qs, ms, cs)!Open(i, hidden)
  PROVE  PlaceInv(ws, qs, ms, cs)'
<1>1. /\ i \notin open /\ open' = open \union {i} /\ UNCHANGED <<cache, saves, files, leftAs, moves, crashes>>
  BY DEF Saved!Open, Saved!Rest
<1>2. Cardinality(open) < MaxSessions
  <2>1. Saved(ws, qs, ms, cs)!Cardinality(open) < MaxSessions
    BY DEF Saved!Open
  <2> QED BY <2>1 DEF Saved!Cardinality, Cardinality
<1>3. PlaceQueue(ws, qs) /\ PlaceWindows(ws) /\ PlaceKept(ws) /\ PlaceBounds(ms, cs)
  BY DEF PlaceInv
<1>4. open \subseteq ws /\ session \in [ws -> PlaceSessions(ws)]
  BY <1>3 DEF PlaceWindows
<1>5. PICK n \in PlaceSlots(ws) : n = Saved(ws, qs, ms, cs)!FreeSlot /\ \A j \in open : session[j].slot # n
  BY <1>1, <1>3, PlaceSlotFree
<1>6. PICK s : s = IF cache[n] # PlaceNone THEN cache[n] ELSE files[n]
  OBVIOUS
<1>7. s \in PlaceGood /\ PlaceHolds(saves, files, n, s)
  <2>1. cache[n] \in PlaceGood /\ files[n] \in PlaceGood
    BY <1>3 DEF PlaceQueue
  <2>2. CASE cache[n] # PlaceNone
    BY <1>3, <1>6, <2>1, <2>2 DEF PlaceQueue
  <2>3. CASE cache[n] = PlaceNone
    <3>1. \A k \in DOMAIN saves : saves[k].slot # n
      BY <1>3, <2>3 DEF PlaceQueue
    <3> QED BY <1>6, <2>1, <2>3, <3>1 DEF PlaceHolds
  <2> QED BY <2>2, <2>3
<1> DEFINE Docks(f) == i \notin Overlays /\ f.docked
           Taken(m, f, accepted) ==
             [Saved(ws, qs, ms, cs)!Closed EXCEPT
                !.slot = m, !.saved = f, !.place = IF f = Saved(ws, qs, ms, cs)!None THEN 1 ELSE f.place,
                !.background = hidden, !.preserve = i \in Overlays, !.handle = TRUE,
                !.pendingDock = Docks(f) /\ hidden, !.inDock = accepted,
                !.pending = IF Docks(f) /\ ~hidden THEN [f EXCEPT !.docked = FALSE]
                            ELSE Saved(ws, qs, ms, cs)!None]
           Slot == Saved(ws, qs, ms, cs)!FreeSlot
           Found == IF cache[Slot] # Saved(ws, qs, ms, cs)!None THEN cache[Slot] ELSE files[Slot]
           Answers(f) == IF Docks(f) /\ ~hidden THEN BOOLEAN ELSE {FALSE}
<1>8. \E accepted \in Answers(Found) : session' = [session EXCEPT ![i] = Taken(Slot, Found, accepted)]
  BY Zenon DEF Saved!Open
<1> HIDE DEF Taken, Answers
<1>9. Slot = n /\ Found = s
  BY <1>5, <1>6, PlaceNames
<1> HIDE DEF Slot, Found
<1>10. PICK accepted \in Answers(s) : session' = [session EXCEPT ![i] = Taken(n, s, accepted)]
  BY <1>8, <1>9, Zenon
<1>11. PICK docks \in BOOLEAN : docks <=> Docks(s)
  OBVIOUS
<1>12. accepted \in BOOLEAN /\ (accepted => docks /\ ~hidden)
  BY <1>10, <1>11 DEF Answers
<1>13. PICK p : p = IF docks /\ ~hidden THEN [s EXCEPT !.docked = FALSE] ELSE PlaceNone
  OBVIOUS
<1>14. docks => s \in PlaceStates
  BY <1>7, <1>11 DEF PlaceGood, PlaceNone
<1>15. p \in PlaceGood /\ (p # PlaceNone => p.place = s.place)
  <2>1. CASE docks /\ ~hidden
    BY <1>13, <1>14, <2>1 DEF PlaceGood, PlaceStates
  <2>2. CASE ~(docks /\ ~hidden)
    BY <1>13, <2>2 DEF PlaceGood
  <2> QED BY <2>1, <2>2
<1>16. PICK o : o = IF s = PlaceNone THEN 1 ELSE s.place
  OBVIOUS
<1>17. o \in Spots /\ (s # PlaceNone => o = s.place)
  BY <1>7, <1>16, PlacesAssumption DEF PlaceGood, PlaceStates
<1>18. PICK c \in PlaceSessions(ws) : c = Saved(ws, qs, ms, cs)!Closed /\ c.seen = PlaceNone
  BY PlaceForgets DEF PlaceClosed
<1>19. PICK b \in BOOLEAN : b <=> docks /\ hidden
  OBVIOUS
<1>20. PICK a \in BOOLEAN : a <=> i \in Overlays
  OBVIOUS
<1>21. PICK y : y = [c EXCEPT !.slot = n, !.saved = s, !.place = o, !.background = hidden, !.preserve = a, !.handle = TRUE,
                              !.pendingDock = b, !.inDock = accepted, !.pending = p]
  OBVIOUS
<1>22. Taken(n, s, accepted) = y
  <2>1. (Docks(s) /\ hidden) = b /\ (i \in Overlays) = a
    BY <1>11, <1>19, <1>20
  <2>2. (IF s = Saved(ws, qs, ms, cs)!None THEN 1 ELSE s.place) = o
    BY <1>16, PlaceNames
  <2>3. (IF Docks(s) /\ ~hidden THEN [s EXCEPT !.docked = FALSE] ELSE Saved(ws, qs, ms, cs)!None) = p
    BY <1>11, <1>13, PlaceNames
  <2> HIDE DEF Docks
  <2> QED BY <1>18, <1>21, <2>1, <2>2, <2>3, Zenon DEF Taken
<1>23. /\ y \in PlaceSessions(ws) /\ y.slot = n /\ y.saved = s /\ y.place = o /\ y.background = hidden
       /\ y.pendingDock = b /\ y.inDock = accepted /\ y.pending = p /\ y.seen = PlaceNone
  <2>1. o \in Spots \union {0}
    BY <1>17
  <2>2. PICK u : u = [c EXCEPT !.slot = n, !.saved = s, !.place = o, !.background = hidden]
    OBVIOUS
  <2>3. u \in PlaceSessions(ws) /\ u.slot = n /\ u.saved = s /\ u.place = o /\ u.background = hidden /\ u.seen = PlaceNone
    BY <1>5, <1>7, <1>18, <2>1, <2>2 DEF PlaceSessions
  <2>4. PICK v : v = [u EXCEPT !.preserve = a, !.handle = TRUE, !.pendingDock = b]
    OBVIOUS
  <2>5. /\ v \in PlaceSessions(ws) /\ v.slot = n /\ v.saved = s /\ v.place = o /\ v.background = hidden /\ v.seen = PlaceNone
        /\ v.pendingDock = b
    BY <1>19, <1>20, <2>3, <2>4 DEF PlaceSessions
  <2>6. y = [v EXCEPT !.inDock = accepted, !.pending = p]
    BY <1>21, <2>2, <2>4
  <2> QED BY <1>12, <1>15, <2>5, <2>6 DEF PlaceSessions
<1>24. PlaceKnown(y) # PlaceNone => PlaceKnown(y).place = y.place
  <2>1. p # PlaceNone => s # PlaceNone
    BY <1>13, <1>14, PlaceStatesReal
  <2> QED BY <1>15, <1>17, <1>23, <2>1 DEF PlaceKnown
<1>25. accepted => ~hidden /\ PlaceKnown(y) # PlaceNone
  <2>1. accepted => s # PlaceNone
    BY <1>12, <1>14, PlaceStatesReal
  <2> QED BY <1>12, <1>23, <2>1 DEF PlaceKnown
<1>26. PlaceWell(y)
  BY <1>17, <1>19, <1>23, <1>24, <1>25 DEF PlaceWell
<1>27. session' = [session EXCEPT ![i] = y]
  BY <1>10, <1>22
<1>28. /\ session' \in [ws -> PlaceSessions(ws)] /\ session'[i] = y /\ \A j \in ws : j # i => session'[j] = session[j]
  BY <1>4, <1>23, <1>27
<1>29. PlaceWindows(ws)'
  <2>1. \A j \in ws \ open' : PlaceClosed(session'[j])
    BY <1>1, <1>3, <1>28 DEF PlaceWindows
  <2>2. \A j \in open' : PlaceWell(session'[j])
    BY <1>1, <1>3, <1>4, <1>26, <1>28 DEF PlaceWindows
  <2>3. ASSUME NEW j \in open', NEW m \in open', session'[j].slot = session'[m].slot PROVE j = m
    <3>1. \A k \in open : session'[k] = session[k] /\ session'[k].slot # n /\ k \in open
      BY <1>1, <1>4, <1>5, <1>28
    <3>2. session'[i].slot = n
      BY <1>23, <1>28
    <3>3. \A k \in open : \A l \in open : session[k].slot = session[l].slot => k = l
      BY <1>3 DEF PlaceWindows
    <3>4. (j \in open \/ j = i) /\ (m \in open \/ m = i)
      BY <1>1, <2>3
    <3>5. CASE j \in open /\ m \in open
      BY <2>3, <3>1, <3>3, <3>5
    <3> QED BY <2>3, <3>1, <3>2, <3>4, <3>5
  <2> QED BY <1>1, <1>4, <1>28, <2>1, <2>2, <2>3 DEF PlaceWindows
<1>30. PlaceKept(ws)'
  <2>1. ASSUME NEW j \in open' PROVE PlaceHolds(saves', files', session'[j].slot, session'[j].saved)
    <3>1. CASE j = i
      BY <1>1, <1>7, <1>23, <1>28, <3>1
    <3>2. CASE j # i
      <4>1. j \in open /\ session'[j] = session[j]
        BY <1>1, <1>4, <1>28, <2>1, <3>2
      <4>2. PlaceHolds(saves, files, session[j].slot, session[j].saved)
        BY <1>3, <4>1 DEF PlaceKept
      <4> QED BY <1>1, <4>1, <4>2
    <3> QED BY <3>1, <3>2
  <2>2. ASSUME NEW m \in PlaceSlots(ws), leftAs[m] # PlaceNone, \A j \in open' : session'[j].slot # m
        PROVE  PlaceHolds(saves', files', m, leftAs[m])
    <3>1. \A j \in open : session[j].slot # m
      BY <1>1, <1>4, <1>28, <2>2
    <3>2. PlaceHolds(saves, files, m, leftAs[m])
      BY <1>3, <2>2, <3>1 DEF PlaceKept
    <3> QED BY <1>1, <3>2
  <2>3. leftAs' \in [PlaceSlots(ws) -> PlaceGood] /\ leftAs' = leftAs
    BY <1>1, <1>3 DEF PlaceKept
  <2> QED BY <2>1, <2>2, <2>3 DEF PlaceKept
<1>31. PlaceBounds(ms, cs)'
  <2>1. IsFiniteSet(open)
    BY <1>4, FS_Subset
  <2>2. Cardinality(open) \in Nat /\ Cardinality(open') = Cardinality(open) + 1
    BY <1>1, <2>1, FS_CardinalityType, FS_AddElement
  <2>3. Cardinality(open') <= MaxSessions
    BY <1>2, <2>2, PlacesAssumption
  <2> QED BY <1>1, <1>3, <2>3 DEF PlaceBounds
<1>32. PlaceQueue(ws, qs)'
  BY <1>1, <1>3 DEF PlaceQueue
<1> QED BY <1>29, <1>30, <1>31, <1>32 DEF PlaceInv

\* The worker writes a file.
LEMMA PlaceSavesStep ==
  ASSUME NEW ws, NEW qs \in Nat, NEW ms, NEW cs, PlaceInv(ws, qs, ms, cs), Saved(ws, qs, ms, cs)!Save
  PROVE  PlaceInv(ws, qs, ms, cs)'
<1>1. /\ saves # <<>> /\ saves' = Tail(saves) /\ files' = [files EXCEPT ![Head(saves).slot] = Head(saves).state]
      /\ UNCHANGED <<open, session, cache, leftAs, moves, crashes>>
  BY DEF Saved!Save
<1>2. PlaceQueue(ws, qs) /\ PlaceWindows(ws) /\ PlaceKept(ws) /\ PlaceBounds(ms, cs)
  BY DEF PlaceInv
<1>3. /\ saves \in Seq(PlaceSaves(ws)) /\ files \in [PlaceSlots(ws) -> PlaceGood] /\ cache \in [PlaceSlots(ws) -> PlaceGood]
      /\ Len(saves) <= qs /\ Len(saves) \in Nat
  BY <1>2 DEF PlaceQueue
<1>4. \A n \in PlaceSlots(ws) : \A v : PlaceHolds(saves, files, n, v) => PlaceHolds(saves', files', n, v)
  BY <1>1, <1>3, PlaceWrites
<1>5. /\ saves' \in Seq(PlaceSaves(ws)) /\ Len(saves') = Len(saves) - 1
      /\ \A k \in DOMAIN saves' : k + 1 \in DOMAIN saves /\ saves'[k] = saves[k + 1]
  BY <1>1, <1>3
<1>6. files' \in [PlaceSlots(ws) -> PlaceGood]
  <2>1. Head(saves) \in PlaceSaves(ws)
    BY <1>1, <1>3
  <2>2. Head(saves).state \in PlaceGood
    BY <2>1, PlaceStatesReal DEF PlaceSaves
  <2> QED BY <1>1, <1>3, <2>2
<1>7. PlaceQueue(ws, qs)'
  <2>1. \A k \in DOMAIN saves' : cache'[saves'[k].slot] # PlaceNone
    BY <1>1, <1>2, <1>5 DEF PlaceQueue
  <2>2. \A n \in PlaceSlots(ws) : cache'[n] # PlaceNone => PlaceHolds(saves', files', n, cache'[n])
    BY <1>1, <1>2, <1>4 DEF PlaceQueue
  <2>3. Len(saves') <= qs
    BY <1>3, <1>5
  <2> QED BY <1>1, <1>3, <1>5, <1>6, <2>1, <2>2, <2>3 DEF PlaceQueue
<1>8. PlaceKept(ws)'
  <2>1. \A i \in open : session[i].slot \in PlaceSlots(ws)
    BY <1>2 DEF PlaceWindows, PlaceSessions
  <2>2. \A i \in open' : PlaceHolds(saves', files', session'[i].slot, session'[i].saved)
    BY <1>1, <1>2, <1>4, <2>1 DEF PlaceKept
  <2>3. ASSUME NEW n \in PlaceSlots(ws), leftAs[n] # PlaceNone, \A i \in open : session[i].slot # n
        PROVE  PlaceHolds(saves', files', n, leftAs[n])
    <3>1. PlaceHolds(saves, files, n, leftAs[n])
      BY <1>2, <2>3 DEF PlaceKept
    <3> QED BY <1>4, <3>1
  <2>4. leftAs \in [PlaceSlots(ws) -> PlaceGood]
    BY <1>2 DEF PlaceKept
  <2> QED BY <1>1, <2>2, <2>3, <2>4 DEF PlaceKept
<1>9. PlaceWindows(ws)' /\ PlaceBounds(ms, cs)'
  BY <1>1, <1>2 DEF PlaceWindows, PlaceBounds
<1> QED BY <1>7, <1>8, <1>9 DEF PlaceInv

\* What the files will hold is one state for each slot.
LEMMA PlaceWritten ==
  ASSUME NEW ws, NEW qs, NEW ms, NEW cs, PlaceQueue(ws, qs), NEW n \in PlaceSlots(ws)
  PROVE  /\ Saved(ws, qs, ms, cs)!Written[n] \in PlaceGood
         /\ \A v : PlaceHolds(saves, files, n, v) => Saved(ws, qs, ms, cs)!Written[n] = v
<1> DEFINE N == Saved(ws, qs, ms, cs)!Newest(n)
<1>1. saves \in Seq(PlaceSaves(ws)) /\ DOMAIN saves = 1 .. Len(saves) /\ Len(saves) \in Nat /\ files[n] \in PlaceGood
  BY DEF PlaceQueue
<1>2. Saved(ws, qs, ms, cs)!Written[n] = IF N = {} THEN files[n] ELSE saves[CHOOSE k \in N : TRUE].state
  BY PlaceNames DEF Saved!Written
<1>3. \A k : k \in N <=> k \in DOMAIN saves /\ saves[k].slot = n /\ \A m \in DOMAIN saves : m > k => saves[m].slot # n
  BY DEF Saved!Newest
<1> HIDE DEF N
<1>4. ASSUME NEW k \in N PROVE (CHOOSE l \in N : TRUE) = k
  <2>1. PICK o : o = CHOOSE l \in N : TRUE
    OBVIOUS
  <2>2. o \in N
    BY <2>1
  <2>3. /\ o \in DOMAIN saves /\ saves[o].slot = n /\ (k > o => saves[k].slot # n)
        /\ k \in DOMAIN saves /\ saves[k].slot = n /\ (o > k => saves[o].slot # n)
    BY <1>3, <2>2
  <2>4. ~(k > o) /\ ~(o > k) /\ k \in Nat /\ o \in Nat
    BY <1>1, <2>3
  <2> QED BY <2>1, <2>4
<1>5. Saved(ws, qs, ms, cs)!Written[n] \in PlaceGood
  <2>1. CASE N = {}
    BY <1>1, <1>2, <2>1
  <2>2. CASE N # {}
    <3>1. PICK k \in N : TRUE
      BY <2>2
    <3>2. saves[k] \in PlaceSaves(ws)
      BY <1>1, <1>3, <3>1
    <3>3. saves[k].state \in PlaceGood
      BY <3>2, PlaceStatesReal DEF PlaceSaves
    <3> QED BY <1>2, <1>4, <2>2, <3>1, <3>3
  <2> QED BY <2>1, <2>2
<1>6. ASSUME NEW v, PlaceHolds(saves, files, n, v) PROVE Saved(ws, qs, ms, cs)!Written[n] = v
  <2>1. CASE \E k \in DOMAIN saves : saves[k].slot = n /\ saves[k].state = v /\ \A m \in DOMAIN saves : m > k => saves[m].slot # n
    <3>1. PICK k \in DOMAIN saves : saves[k].slot = n /\ saves[k].state = v /\ \A m \in DOMAIN saves : m > k => saves[m].slot # n
      BY <2>1
    <3>2. k \in N
      BY <1>3, <3>1
    <3> QED BY <1>2, <1>4, <3>1, <3>2
  <2>2. CASE (\A k \in DOMAIN saves : saves[k].slot # n) /\ v = files[n]
    <3>1. N = {}
      BY <1>3, <2>2
    <3> QED BY <1>2, <2>2, <3>1
  <2> QED BY <1>6, <2>1, <2>2 DEF PlaceHolds
<1> QED BY <1>5, <1>6

\* REAPER starts again: nothing waits and nothing is in memory.
LEMMA PlaceStartsAgain ==
  ASSUME NEW ws, NEW qs \in Nat, saves' = <<>>, files' \in [PlaceSlots(ws) -> PlaceGood],
         cache' = [n \in PlaceSlots(ws) |-> PlaceNone]
  PROVE  PlaceQueue(ws, qs)'
<1>1. cache' \in [PlaceSlots(ws) -> PlaceGood] /\ \A n \in PlaceSlots(ws) : cache'[n] = PlaceNone
  BY DEF PlaceGood
<1>2. saves' \in Seq(PlaceSaves(ws)) /\ Len(saves') = 0 /\ DOMAIN saves' = {}
  OBVIOUS
<1>3. Len(saves') <= qs
  BY <1>2
<1> QED BY <1>1, <1>2, <1>3 DEF PlaceQueue

LEMMA PlaceRestarts ==
  ASSUME NEW ws, NEW qs \in Nat, NEW ms, NEW cs \in Nat, PlaceInv(ws, qs, ms, cs),
         Saved(ws, qs, ms, cs)!Restart
  PROVE  PlaceInv(ws, qs, ms, cs)'
<1>1. /\ open = {} /\ crashes < cs /\ crashes' = crashes + 1 /\ saves' = <<>>
      /\ files' = Saved(ws, qs, ms, cs)!Written /\ UNCHANGED <<open, session, leftAs, moves>>
      /\ cache' = [n \in PlaceSlots(ws) |-> PlaceNone]
  BY PlaceNames DEF Saved!Restart
<1>2. PlaceQueue(ws, qs) /\ PlaceWindows(ws) /\ PlaceKept(ws) /\ PlaceBounds(ms, cs)
  BY DEF PlaceInv
<1>3. files' \in [PlaceSlots(ws) -> PlaceGood]
  <2>1. files' = [n \in PlaceSlots(ws) |-> files'[n]]
    BY <1>1, PlaceNames DEF Saved!Written
  <2>2. \A n \in PlaceSlots(ws) : files'[n] \in PlaceGood
    BY <1>1, <1>2, PlaceWritten
  <2> QED BY <2>1, <2>2
<1>4. PlaceQueue(ws, qs)'
  BY <1>1, <1>3, PlaceStartsAgain
<1>5. ASSUME NEW n \in PlaceSlots(ws), leftAs[n] # PlaceNone PROVE PlaceHolds(saves', files', n, leftAs[n])
  <2>1. PlaceHolds(saves, files, n, leftAs[n])
    BY <1>1, <1>2, <1>5 DEF PlaceKept
  <2>2. files'[n] = leftAs[n]
    BY <1>1, <1>2, <2>1, PlaceWritten
  <2>3. DOMAIN saves' = {}
    BY <1>1
  <2> QED BY <2>2, <2>3 DEF PlaceHolds
<1>6. PlaceKept(ws)'
  BY <1>1, <1>2, <1>5 DEF PlaceKept
<1>7. PlaceWindows(ws)'
  BY <1>1, <1>2 DEF PlaceWindows
<1>8. PlaceBounds(ms, cs)'
  <2>1. crashes' \in 0 .. cs
    BY <1>1, <1>2 DEF PlaceBounds
  <2> QED BY <1>1, <1>2, <2>1 DEF PlaceBounds
<1> QED BY <1>4, <1>6, <1>7, <1>8 DEF PlaceInv

\* No window is open and none was left.
LEMMA PlaceAllClosed ==
  ASSUME NEW ws, IsFiniteSet(ws), NEW qs, NEW ms, NEW cs, open' = {},
         session' = [i \in ws |-> Saved(ws, qs, ms, cs)!Closed], leftAs' = [n \in PlaceSlots(ws) |-> PlaceNone]
  PROVE  PlaceWindows(ws)' /\ PlaceKept(ws)'
<1>1. PICK c : c = Saved(ws, qs, ms, cs)!Closed
  OBVIOUS
<1>2. \A i \in ws : PlaceClosed(c) /\ c \in PlaceSessions(ws)
  BY <1>1, PlaceForgets
<1>3. session' \in [ws -> PlaceSessions(ws)] /\ \A i \in ws : PlaceClosed(session'[i])
  BY <1>1, <1>2
<1>4. leftAs' \in [PlaceSlots(ws) -> PlaceGood] /\ \A n \in PlaceSlots(ws) : leftAs'[n] = PlaceNone
  BY DEF PlaceGood
<1> QED BY <1>3, <1>4 DEF PlaceWindows, PlaceKept

LEMMA PlaceCrashes ==
  ASSUME NEW ws, IsFiniteSet(ws), NEW qs \in Nat, NEW ms, NEW cs \in Nat, PlaceInv(ws, qs, ms, cs),
         Saved(ws, qs, ms, cs)!Crash
  PROVE  PlaceInv(ws, qs, ms, cs)'
<1>1. /\ crashes < cs /\ crashes' = crashes + 1 /\ open' = {} /\ saves' = <<>> /\ UNCHANGED <<files, moves>>
      /\ session' = [i \in ws |-> Saved(ws, qs, ms, cs)!Closed]
      /\ cache' = [n \in PlaceSlots(ws) |-> PlaceNone] /\ leftAs' = [n \in PlaceSlots(ws) |-> PlaceNone]
  BY PlaceNames DEF Saved!Crash
<1>2. PlaceQueue(ws, qs) /\ PlaceBounds(ms, cs)
  BY DEF PlaceInv
<1>3. PlaceQueue(ws, qs)'
  BY <1>1, <1>2, PlaceStartsAgain DEF PlaceQueue
<1>4. PlaceWindows(ws)' /\ PlaceKept(ws)'
  BY <1>1, PlaceAllClosed
<1>5. PlaceBounds(ms, cs)'
  <2>1. crashes' \in 0 .. cs
    BY <1>1, <1>2 DEF PlaceBounds
  <2>2. Cardinality({}) = 0
    BY FS_EmptySet
  <2>3. Cardinality(open') <= MaxSessions
    BY <1>1, <2>2, PlacesAssumption
  <2> QED BY <1>1, <1>2, <2>1, <2>3 DEF PlaceBounds
<1> QED BY <1>3, <1>4, <1>5 DEF PlaceInv

LEMMA PlaceStart ==
  ASSUME NEW ws, IsFiniteSet(ws), NEW qs \in Nat, NEW ms \in Nat, NEW cs \in Nat,
         Saved(ws, qs, ms, cs)!Init
  PROVE  PlaceInv(ws, qs, ms, cs)
<1>1. /\ open = {} /\ session = [i \in ws |-> Saved(ws, qs, ms, cs)!Closed]
      /\ cache = [n \in PlaceSlots(ws) |-> PlaceNone] /\ files = [n \in PlaceSlots(ws) |-> PlaceNone] /\ saves = <<>>
      /\ leftAs = [n \in PlaceSlots(ws) |-> PlaceNone] /\ moves = 0 /\ crashes = 0
  BY PlaceNames DEF Saved!Init
<1>2. PICK c : c = Saved(ws, qs, ms, cs)!Closed
  OBVIOUS
<1>3. \A i \in ws : PlaceClosed(c) /\ c \in PlaceSessions(ws)
  BY <1>2, PlaceForgets
<1>4. session \in [ws -> PlaceSessions(ws)] /\ \A i \in ws : PlaceClosed(session[i])
  BY <1>1, <1>2, <1>3
<1>5. /\ cache \in [PlaceSlots(ws) -> PlaceGood] /\ files \in [PlaceSlots(ws) -> PlaceGood] /\ leftAs \in [PlaceSlots(ws) -> PlaceGood]
      /\ \A n \in PlaceSlots(ws) : cache[n] = PlaceNone /\ leftAs[n] = PlaceNone
  BY <1>1 DEF PlaceGood
<1>6. saves \in Seq(PlaceSaves(ws)) /\ Len(saves) = 0 /\ DOMAIN saves = {}
  BY <1>1
<1>7. PlaceQueue(ws, qs)
  BY <1>5, <1>6 DEF PlaceQueue
<1>8. PlaceWindows(ws) /\ PlaceKept(ws)
  BY <1>1, <1>4, <1>5 DEF PlaceWindows, PlaceKept
<1>9. PlaceBounds(ms, cs)
  <2>1. Cardinality({}) = 0
    BY FS_EmptySet
  <2>2. Cardinality(open) <= MaxSessions
    BY <1>1, <2>1, PlacesAssumption
  <2> QED BY <1>1, <2>2 DEF PlaceBounds
<1> QED BY <1>7, <1>8, <1>9 DEF PlaceInv

LEMMA PlaceSteps ==
  ASSUME NEW ws, IsFiniteSet(ws), NEW qs \in Nat, NEW ms \in Nat, NEW cs \in Nat, PlaceInv(ws, qs, ms, cs),
         Saved(ws, qs, ms, cs)!Next \/ UNCHANGED placeVars
  PROVE  PlaceInv(ws, qs, ms, cs)'
<1>1. CASE UNCHANGED placeVars
  BY <1>1 DEF placeVars, PlaceInv, PlaceQueue, PlaceWindows, PlaceKept, PlaceBounds
<1>2. ASSUME NEW i \in ws, NEW b \in BOOLEAN, Saved(ws, qs, ms, cs)!Open(i, b)
      PROVE  PlaceInv(ws, qs, ms, cs)'
  BY <1>2, PlaceOpens
<1>3. ASSUME NEW i \in ws, NEW b \in BOOLEAN, Saved(ws, qs, ms, cs)!SetDocked(i, b)
      PROVE  PlaceInv(ws, qs, ms, cs)'
  BY <1>3, PlaceSetDocked
<1>4. ASSUME NEW i \in ws, NEW p \in Spots, Saved(ws, qs, ms, cs)!Move(i, p)
      PROVE  PlaceInv(ws, qs, ms, cs)'
  BY <1>4, PlaceMoves
<1>5. ASSUME NEW i \in ws, Saved(ws, qs, ms, cs)!Tick(i) PROVE PlaceInv(ws, qs, ms, cs)'
  BY <1>5, PlaceTicks
<1>6. ASSUME NEW i \in ws, Saved(ws, qs, ms, cs)!Show(i) PROVE PlaceInv(ws, qs, ms, cs)'
  BY <1>6, PlaceShows
<1>7. ASSUME NEW i \in ws, Saved(ws, qs, ms, cs)!Close(i) PROVE PlaceInv(ws, qs, ms, cs)'
  BY <1>7, PlaceCloses
<1>8. ASSUME NEW i \in ws, Saved(ws, qs, ms, cs)!Erase(i) PROVE PlaceInv(ws, qs, ms, cs)'
  BY <1>8, PlaceErases
<1>9. CASE Saved(ws, qs, ms, cs)!Save
  BY <1>9, PlaceSavesStep
<1>10. CASE Saved(ws, qs, ms, cs)!Restart
  BY <1>10, PlaceRestarts
<1>11. CASE Saved(ws, qs, ms, cs)!Crash
  BY <1>11, PlaceCrashes
<1> QED BY <1>1, <1>2, <1>3, <1>4, <1>5, <1>6, <1>7, <1>8, <1>9, <1>10, <1>11 DEF Saved!Next

LEMMA PlaceSuffices ==
  ASSUME NEW ws, NEW qs, NEW ms, NEW cs, PlaceInv(ws, qs, ms, cs)
  PROVE  Saved(ws, qs, ms, cs)!TypeOK /\ Saved(ws, qs, ms, cs)!PlacesRemembered
<1> DEFINE T == [place : Spots \union {0}, docked : BOOLEAN]
<1>1. PlaceQueue(ws, qs) /\ PlaceWindows(ws) /\ PlaceKept(ws) /\ PlaceBounds(ms, cs)
  BY DEF PlaceInv
<1>2. PlaceGood \subseteq T /\ PlaceStates \subseteq T /\ T = Saved(ws, qs, ms, cs)!States
  <2>1. PlaceStates \subseteq T
    BY DEF PlaceStates
  <2>2. PlaceNone \in T
    BY DEF PlaceNone
  <2>3. T = Saved(ws, qs, ms, cs)!States
    BY DEF Saved!States
  <2> QED BY <2>1, <2>2, <2>3 DEF PlaceGood
<1> HIDE DEF T
<1>3. /\ cache \in [PlaceSlots(ws) -> T] /\ files \in [PlaceSlots(ws) -> T] /\ leftAs \in [PlaceSlots(ws) -> T]
  BY <1>1, <1>2 DEF PlaceQueue, PlaceKept
<1>4. saves \in Seq([slot : PlaceSlots(ws), state : T]) /\ Len(saves) <= qs
  <2> DEFINE X == [slot : PlaceSlots(ws), state : T]
  <2>1. \A r \in PlaceSaves(ws) : r \in X
    BY <1>2 DEF PlaceSaves
  <2> HIDE DEF X
  <2>2. saves \in Seq(PlaceSaves(ws)) /\ Len(saves) <= qs
    BY <1>1 DEF PlaceQueue
  <2>3. Len(saves) \in Nat /\ saves \in [1 .. Len(saves) -> X]
    BY <2>1, <2>2
  <2>4. saves \in Seq(X)
    BY <2>3, IsASeq
  <2> QED BY <2>2, <2>4 DEF X
<1>5. session \in [ws -> [slot : PlaceSlots(ws), saved : T, pending : T, place : Spots \union {0}, inDock : BOOLEAN,
                          pendingDock : BOOLEAN, background : BOOLEAN, preserve : BOOLEAN, handle : BOOLEAN,
                          closing : BOOLEAN, seen : T]]
  <2>1. PlaceSessions(ws) \subseteq [slot : PlaceSlots(ws), saved : T, pending : T, place : Spots \union {0}, inDock : BOOLEAN,
                                     pendingDock : BOOLEAN, background : BOOLEAN, preserve : BOOLEAN, handle : BOOLEAN,
                                     closing : BOOLEAN, seen : T]
    BY <1>2 DEF PlaceSessions
  <2>2. session \in [ws -> PlaceSessions(ws)]
    BY <1>1 DEF PlaceWindows
  <2> QED BY <2>1, <2>2
<1>6. open \subseteq ws /\ Saved(ws, qs, ms, cs)!Cardinality(open) <= MaxSessions
  BY <1>1 DEF PlaceWindows, PlaceBounds, Saved!Cardinality, Cardinality
<1>7. moves \in 0 .. ms /\ crashes \in 0 .. cs
  BY <1>1 DEF PlaceBounds
<1>8. Saved(ws, qs, ms, cs)!Slots = PlaceSlots(ws)
  BY PlaceNames
<1>9. Saved(ws, qs, ms, cs)!TypeOK
  BY <1>2, <1>3, <1>4, <1>5, <1>6, <1>7, <1>8 DEF Saved!TypeOK
<1>10. \A n \in PlaceSlots(ws) : cache[n] # PlaceNone => cache[n] = Saved(ws, qs, ms, cs)!Written[n]
  BY <1>1, PlaceWritten DEF PlaceQueue
<1>11. ASSUME NEW i \in open PROVE session[i].saved = Saved(ws, qs, ms, cs)!Written[session[i].slot]
  <2>1. session[i].slot \in PlaceSlots(ws)
    BY <1>1 DEF PlaceWindows, PlaceSessions
  <2>2. PlaceHolds(saves, files, session[i].slot, session[i].saved)
    BY <1>1 DEF PlaceKept
  <2> QED BY <1>1, <2>1, <2>2, PlaceWritten
<1>12. ASSUME NEW n \in PlaceSlots(ws), leftAs[n] # PlaceNone, \A i \in open : session[i].slot # n
       PROVE  Saved(ws, qs, ms, cs)!Written[n] = leftAs[n]
  <2>1. PlaceHolds(saves, files, n, leftAs[n])
    BY <1>1, <1>12 DEF PlaceKept
  <2> QED BY <1>1, <2>1, PlaceWritten
<1> QED BY <1>8, <1>9, <1>10, <1>11, <1>12, PlaceNames DEF Saved!PlacesRemembered

\* What is in memory, and what a window takes for saved, is what the file of its slot will hold, and a slot whose window
\* is gone will hold the state the user left the window in, however many windows, bounds, moves, saves and crashes there are.
THEOREM PlacesAreRemembered == PartSpec => []PlacesRemembered
<1> DEFINE All == /\ part = "places" => PlaceInv(Single, MaxSaves, MaxMoves, MaxCrashes)
                  /\ part = "slots" => PlaceInv(Several, FewSaves, FewMoves, FewCrashes)
<1>1. /\ {MaxSaves, FewSaves, MaxMoves, FewMoves, MaxCrashes, FewCrashes} \subseteq Nat
      /\ IsFiniteSet(Single) /\ IsFiniteSet(Several)
  BY PlacesAssumption
<1>2. PartInit => All
  BY <1>1, PlaceStart DEF PartInit
<1>3. All /\ [PartNext]_partVars => All'
  BY <1>1, PartsStep, PlaceSteps
<1>4. All => PlacesRemembered
  BY PlaceSuffices DEF PlacesRemembered
<1> QED BY <1>2, <1>3, <1>4, PTL DEF PartSpec
=============================================================================
