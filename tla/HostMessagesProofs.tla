------------------------- MODULE HostMessagesProofs -------------------------
(***************************************************************************)
(* Proofs about HostMessages.tla for every value of its constants within   *)
(* MessageLimits.                                                          *)
(*                                                                         *)
(* The bytes of a queue and the messages in the worker are recursive       *)
(* functions of sequences.  What they make of an appended or concatenated  *)
(* sequence is proved by induction, over sets of numbers: a nonempty set   *)
(* of naturals has a least element, since < is well founded on them.       *)
(***************************************************************************)
EXTENDS HostMessages, SequenceTheorems, WellFoundedInduction, TLAPS

LEMMA SetInduction ==
  ASSUME NEW S, 0 \in S, \A n \in Nat : n \in S => n + 1 \in S
  PROVE  Nat \subseteq S
<1> DEFINE T == Nat \ S
           R == OpToRel(<, Nat)
<1>1. SUFFICES ASSUME T # {} PROVE FALSE
  OBVIOUS
<1>2. \A x, y \in Nat : <<x, y>> \in R <=> x < y
  BY DEF OpToRel
<1>3. IsWellFoundedOn(R, Nat)
  BY NatLessThanWellFounded
<1> HIDE DEF R
<1>4. PICK m \in T : \A k \in T : ~(<<k, m>> \in R)
  BY <1>1, <1>3, WFMin
<1>5. \A k \in T : ~(k < m)
  BY <1>2, <1>4
<1>6. m \in Nat \ {0}
  BY <1>4
<1>7. m - 1 \in Nat /\ m - 1 \notin T
  BY <1>5, <1>6
<1> QED BY <1>6, <1>7

\* Two functions that begin alike and go on alike are alike.
Follows(f, g, n) == \A i \in 1 .. n : f[i - 1] = g[i - 1] => f[i] = g[i]

LEMMA SameUpTo ==
  ASSUME NEW n \in Nat, NEW f, NEW g, f[0] = g[0], Follows(f, g, n)
  PROVE  f[n] = g[n]
<1> DEFINE S == {k \in Nat : k <= n => f[k] = g[k]}
<1>1. 0 \in S
  OBVIOUS
<1>2. ASSUME NEW k \in Nat, k \in S PROVE k + 1 \in S
  <2>1. CASE k + 1 <= n
    <3>1. k + 1 \in 1 .. n /\ (k + 1) - 1 = k
      BY <2>1
    <3>2. f[k + 1] = g[k + 1]
      BY <1>2, <2>1, <3>1 DEF Follows
    <3> QED BY <3>2
  <2>2. CASE ~(k + 1 <= n)
    BY <2>2
  <2> QED BY <2>1, <2>2
<1> HIDE DEF S
<1>3. n \in S
  BY <1>1, <1>2, SetInduction
<1> QED BY <1>3 DEF S

\* The value of f at 0 is "base", and each of the next n comes from the one below it.
Iterates(f, n, base, step) == f[0] = base /\ \A i \in 1 .. n : f[i] = step[i][f[i - 1]]

\* Such a function exists.
LEMMA Recursion ==
  ASSUME NEW n \in Nat, NEW V, NEW base \in V, NEW step \in [1 .. n -> [V -> V]]
  PROVE  \E f \in [0 .. n -> V] : Iterates(f, n, base, step)
<1> DEFINE Upto(k, f) == f[0] = base /\ \A i \in 1 .. k : f[i] = step[i][f[i - 1]]
           S == {k \in Nat : k <= n => \E f \in [0 .. k -> V] : Upto(k, f)}
<1>1. 0 \in S
  <2>1. PICK f : f = [i \in 0 .. 0 |-> base]
    OBVIOUS
  <2>2. f \in [0 .. 0 -> V] /\ Upto(0, f)
    <3>1. \A i \in 1 .. 0 : FALSE
      OBVIOUS
    <3> QED BY <2>1, <3>1
  <2> QED BY <2>2
<1>2. ASSUME NEW k \in Nat, k \in S PROVE k + 1 \in S
  <2>1. SUFFICES ASSUME k + 1 <= n PROVE \E f \in [0 .. k + 1 -> V] : Upto(k + 1, f)
    OBVIOUS
  <2>2. PICK f \in [0 .. k -> V] : Upto(k, f)
    BY <1>2, <2>1
  <2>3. PICK g : g = [i \in 0 .. k + 1 |-> IF i = k + 1 THEN step[i][f[k]] ELSE f[i]]
    OBVIOUS
  <2>4. step[k + 1][f[k]] \in V
    <3>1. k + 1 \in 1 .. n /\ f[k] \in V
      BY <2>1
    <3> QED BY <3>1
  <2>5. ASSUME NEW i \in 1 .. k + 1 PROVE g[i] = step[i][g[i - 1]]
    <3>1. CASE i = k + 1
      <4>1. i - 1 = k /\ i - 1 \in 0 .. k + 1 /\ i - 1 # k + 1
        BY <3>1
      <4>2. g[i - 1] = f[k] /\ g[i] = step[i][f[k]]
        BY <2>3, <3>1, <4>1
      <4> QED BY <4>2
    <3>2. CASE i # k + 1
      <4>1. i \in 1 .. k /\ i \in 0 .. k + 1 /\ i - 1 \in 0 .. k + 1 /\ i - 1 # k + 1
        BY <3>2
      <4>2. g[i] = f[i] /\ g[i - 1] = f[i - 1]
        BY <2>3, <3>2, <4>1
      <4> QED BY <2>2, <4>1, <4>2
    <3> QED BY <3>1, <3>2
  <2>6. g \in [0 .. k + 1 -> V]
    BY <2>3, <2>4
  <2>7. Upto(k + 1, g)
    <3>1. 0 \in 0 .. k + 1 /\ 0 # k + 1
      OBVIOUS
    <3>2. g[0] = base
      BY <2>2, <2>3, <3>1
    <3> QED BY <2>5, <3>2
  <2> QED BY <2>6, <2>7
<1> HIDE DEF S
<1>3. n \in S
  BY <1>1, <1>2, SetInduction
<1> QED BY <1>3 DEF S, Iterates

-----------------------------------------------------------------------------
(* The bytes of a queue.                                                    *)

LEMMA MessageSize == ASSUME MessageLimits, NEW m \in Messages PROVE m.size \in Nat
BY DEF MessageLimits, Messages

LEMMA BytesUpTo ==
  ASSUME MessageLimits, NEW q \in Seq(Messages)
  PROVE  \E f \in [0 .. Len(q) -> Nat] :
           f[0] = 0 /\ (\A i \in 1 .. Len(q) : f[i] = f[i - 1] + q[i].size) /\ BytesIn(q) = f[Len(q)]
<1> DEFINE Sums(g) == g = [i \in 0 .. Len(q) |-> IF i = 0 THEN 0 ELSE g[i - 1] + q[i].size]
           step == [i \in 1 .. Len(q) |-> [v \in Nat |-> v + q[i].size]]
<1>1. \A i \in 1 .. Len(q) : q[i].size \in Nat
  BY MessageSize
<1>2. step \in [1 .. Len(q) -> [Nat -> Nat]]
  BY <1>1
<1>3. PICK f \in [0 .. Len(q) -> Nat] : f[0] = 0 /\ \A i \in 1 .. Len(q) : f[i] = step[i][f[i - 1]]
  <2>1. Len(q) \in Nat /\ 0 \in Nat
    OBVIOUS
  <2> HIDE DEF step
  <2>2. \E f \in [0 .. Len(q) -> Nat] : Iterates(f, Len(q), 0, step)
    BY <1>2, <2>1, Recursion
  <2> QED BY <2>2 DEF Iterates
<1>4. \A i \in 1 .. Len(q) : step[i][f[i - 1]] = f[i - 1] + q[i].size
  OBVIOUS
<1>5. Sums(f)
  <2>1. \A i \in 0 .. Len(q) : i # 0 => i \in 1 .. Len(q)
    OBVIOUS
  <2>2. \A i \in 0 .. Len(q) : f[i] = IF i = 0 THEN 0 ELSE f[i - 1] + q[i].size
    <3> HIDE DEF step
    <3> QED BY <1>3, <1>4, <2>1
  <2> QED BY <2>2
<1>6. PICK g : Sums(g) /\ BytesIn(q) = g[Len(q)]
  BY <1>5 DEF BytesIn
<1>7. ASSUME NEW h, Sums(h) PROVE h[0] = 0 /\ \A i \in 1 .. Len(q) : h[i] = h[i - 1] + q[i].size
  <2>1. \A i \in 0 .. Len(q) : h[i] = IF i = 0 THEN 0 ELSE h[i - 1] + q[i].size
    BY <1>7
  <2>2. 0 \in 0 .. Len(q) /\ \A i \in 1 .. Len(q) : i \in 0 .. Len(q) /\ i # 0
    OBVIOUS
  <2> HIDE DEF Sums
  <2> QED BY <2>1, <2>2
<1>8. f[0] = 0 /\ \A i \in 1 .. Len(q) : f[i] = f[i - 1] + q[i].size
  <2> HIDE DEF Sums
  <2> QED BY <1>5, <1>7
<1>9. f[Len(q)] = g[Len(q)]
  <2> HIDE DEF Sums
  <2>0. g[0] = 0 /\ \A i \in 1 .. Len(q) : g[i] = g[i - 1] + q[i].size
    BY <1>6, <1>7
  <2>1. Follows(f, g, Len(q))
    BY <2>0, <1>8 DEF Follows
  <2>2. Len(q) \in Nat /\ f[0] = g[0]
    BY <2>0, <1>8
  <2> QED BY <2>1, <2>2, SameUpTo
<1> QED BY <1>6, <1>8, <1>9

LEMMA BytesOfNothing == MessageLimits => BytesIn(<<>>) = 0
<1> SUFFICES ASSUME MessageLimits PROVE BytesIn(<<>>) = 0
  OBVIOUS
<1>1. <<>> \in Seq(Messages) /\ Len(<<>>) = 0
  OBVIOUS
<1> QED BY <1>1, BytesUpTo

\* The bytes of a queue are a number, and those of a concatenation are added.
LEMMA BytesNat == ASSUME MessageLimits, NEW q \in Seq(Messages) PROVE BytesIn(q) \in Nat
<1>1. PICK f \in [0 .. Len(q) -> Nat] : BytesIn(q) = f[Len(q)]
  BY BytesUpTo
<1>2. Len(q) \in 0 .. Len(q)
  OBVIOUS
<1> QED BY <1>1, <1>2

LEMMA BytesConcat ==
  ASSUME MessageLimits, NEW q \in Seq(Messages), NEW r \in Seq(Messages)
  PROVE  BytesIn(q \o r) = BytesIn(q) + BytesIn(r)
<1>0. /\ q \o r \in Seq(Messages) /\ Len(q \o r) = Len(q) + Len(r)
      /\ \A i \in 1 .. Len(q) + Len(r) : (q \o r)[i] = IF i <= Len(q) THEN q[i] ELSE r[i - Len(q)]
      /\ Len(q) \in Nat /\ Len(r) \in Nat
  BY ConcatProperties
<1>1. PICK f \in [0 .. Len(q) -> Nat] :
        f[0] = 0 /\ (\A i \in 1 .. Len(q) : f[i] = f[i - 1] + q[i].size) /\ BytesIn(q) = f[Len(q)]
  BY BytesUpTo
<1>2. PICK g \in [0 .. Len(r) -> Nat] :
        g[0] = 0 /\ (\A i \in 1 .. Len(r) : g[i] = g[i - 1] + r[i].size) /\ BytesIn(r) = g[Len(r)]
  BY BytesUpTo
<1>3. PICK h \in [0 .. Len(q) + Len(r) -> Nat] :
        /\ h[0] = 0 /\ \A i \in 1 .. Len(q) + Len(r) : h[i] = h[i - 1] + (q \o r)[i].size
        /\ BytesIn(q \o r) = h[Len(q) + Len(r)]
  BY <1>0, BytesUpTo
<1>4. h[Len(q)] = f[Len(q)]
  <2>1. ASSUME NEW i \in 1 .. Len(q), h[i - 1] = f[i - 1] PROVE h[i] = f[i]
    <3>1. i \in 1 .. Len(q) + Len(r) /\ (q \o r)[i] = q[i]
      BY <1>0, <2>1
    <3> QED BY <1>1, <1>3, <2>1, <3>1
  <2>2. Follows(h, f, Len(q)) /\ h[0] = f[0]
    BY <1>1, <1>3, <2>1 DEF Follows
  <2> QED BY <1>0, <2>2, SameUpTo
<1>5. h[Len(q) + Len(r)] = f[Len(q)] + g[Len(r)]
  <2>1. PICK k : k = [j \in 0 .. Len(r) |-> h[Len(q) + j]]
    OBVIOUS
  <2>2. PICK l : l = [j \in 0 .. Len(r) |-> f[Len(q)] + g[j]]
    OBVIOUS
  <2>3. ASSUME NEW j \in 1 .. Len(r), k[j - 1] = l[j - 1] PROVE k[j] = l[j]
    <3>1. /\ Len(q) + j \in 1 .. Len(q) + Len(r) /\ (Len(q) + j) - Len(q) = j /\ ~(Len(q) + j <= Len(q))
          /\ Len(q) + (j - 1) = (Len(q) + j) - 1 /\ j \in 0 .. Len(r) /\ j - 1 \in 0 .. Len(r)
          /\ Len(q) \in 0 .. Len(q)
      BY <1>0
    <3>n. f[Len(q)] \in Nat /\ g[j - 1] \in Nat
      BY <1>1, <1>2, <3>1
    <3>2. (q \o r)[Len(q) + j] = r[j]
      BY <1>0, <3>1
    <3>3. h[Len(q) + j] = h[Len(q) + (j - 1)] + r[j].size
      BY <1>3, <3>1, <3>2
    <3>4. k[j] = h[Len(q) + j] /\ k[j - 1] = h[Len(q) + (j - 1)]
      BY <2>1, <3>1
    <3>5. l[j] = f[Len(q)] + g[j] /\ l[j - 1] = f[Len(q)] + g[j - 1] /\ g[j] = g[j - 1] + r[j].size
      BY <1>2, <2>2, <3>1
    <3>6. r[j].size \in Nat
      BY MessageSize
    <3>7. k[j] = (f[Len(q)] + g[j - 1]) + r[j].size
      BY <2>3, <3>3, <3>4, <3>5
    <3>8. l[j] = f[Len(q)] + (g[j - 1] + r[j].size)
      BY <3>5
    <3> QED BY <3>n, <3>6, <3>7, <3>8
  <2>4. k[0] = l[0]
    <3>1. 0 \in 0 .. Len(r) /\ Len(q) + 0 = Len(q) /\ Len(q) \in 0 .. Len(q)
      BY <1>0
    <3>2. f[Len(q)] \in Nat
      BY <1>1, <3>1
    <3>3. k[0] = h[Len(q)] /\ l[0] = f[Len(q)]
      BY <1>2, <2>1, <2>2, <3>1, <3>2
    <3> QED BY <1>4, <3>3
  <2>5. k[Len(r)] = l[Len(r)]
    <3>1. Follows(k, l, Len(r))
      BY <2>3 DEF Follows
    <3> QED BY <1>0, <2>4, <3>1, SameUpTo
  <2>6. Len(r) \in 0 .. Len(r)
    BY <1>0
  <2> QED BY <2>1, <2>2, <2>5, <2>6
<1> QED BY <1>1, <1>2, <1>3, <1>5

LEMMA BytesOfOne == ASSUME MessageLimits, NEW m \in Messages PROVE BytesIn(<<m>>) = m.size
<1>1. <<m>> \in Seq(Messages) /\ Len(<<m>>) = 1 /\ <<m>>[1] = m
  OBVIOUS
<1>2. PICK f \in [0 .. 1 -> Nat] :
        f[0] = 0 /\ (\A i \in 1 .. 1 : f[i] = f[i - 1] + <<m>>[i].size) /\ BytesIn(<<m>>) = f[1]
  BY <1>1, BytesUpTo
<1>3. f[1] = f[0] + m.size
  <2>1. 1 \in 1 .. 1 /\ 1 - 1 = 0
    OBVIOUS
  <2> QED BY <1>1, <1>2, <2>1
<1> QED BY <1>2, <1>3, MessageSize

LEMMA BytesAppend ==
  ASSUME MessageLimits, NEW q \in Seq(Messages), NEW m \in Messages
  PROVE  BytesIn(Append(q, m)) = BytesIn(q) + m.size
<1>1. Append(q, m) = q \o <<m>> /\ <<m>> \in Seq(Messages)
  BY AppendIsConcat
<1> QED BY <1>1, BytesConcat, BytesOfOne

LEMMA BytesTail ==
  ASSUME MessageLimits, NEW q \in Seq(Messages), q # <<>>
  PROVE  BytesIn(q) = Head(q).size + BytesIn(Tail(q))
<1>1. Head(q) \in Messages /\ Tail(q) \in Seq(Messages) /\ q = <<Head(q)>> \o Tail(q) /\ <<Head(q)>> \in Seq(Messages)
  BY HeadTailProperties
<1> QED BY <1>1, BytesConcat, BytesOfOne

LEMMA ConcatAppend ==
  ASSUME NEW p \in Seq(Messages), NEW q \in Seq(Messages), NEW m \in Messages
  PROVE  Append(p \o q, m) = p \o Append(q, m)
<1>1. p \o q \in Seq(Messages) /\ <<m>> \in Seq(Messages)
  BY ConcatProperties
<1>2. Append(p \o q, m) = (p \o q) \o <<m>> /\ Append(q, m) = q \o <<m>>
  BY <1>1, AppendIsConcat
<1> QED BY <1>1, <1>2, ConcatAssociative

-----------------------------------------------------------------------------
(* The messages of one document in the worker.                              *)

Works == {w \in Work : w.what = "Message" => w.message \in Messages}
Counts(w, gen) == w.what = "Message" /\ w.gen = gen
Grown(q, w, gen) == IF Counts(w, gen) THEN Append(q, w.message) ELSE q

LEMMA MessagesUpTo ==
  ASSUME NEW s \in Seq(Works), NEW gen
  PROVE  \E f \in [0 .. Len(s) -> Seq(Messages)] :
           /\ f[0] = <<>> /\ \A i \in 1 .. Len(s) : f[i] = Grown(f[i - 1], s[i], gen)
           /\ MessagesIn(s, gen) = f[Len(s)]
<1> DEFINE Collects(g) == g = [i \in 0 .. Len(s) |-> IF i = 0 THEN <<>> ELSE Grown(g[i - 1], s[i], gen)]
           step == [i \in 1 .. Len(s) |-> [q \in Seq(Messages) |-> Grown(q, s[i], gen)]]
<1>0. Len(s) \in Nat /\ <<>> \in Seq(Messages)
  OBVIOUS
<1>1. \A i \in 1 .. Len(s) : s[i] \in Works
  OBVIOUS
<1>2. ASSUME NEW i \in 1 .. Len(s), NEW q \in Seq(Messages) PROVE Grown(q, s[i], gen) \in Seq(Messages)
  BY <1>1 DEF Grown, Counts, Works
<1>3. step \in [1 .. Len(s) -> [Seq(Messages) -> Seq(Messages)]]
  BY <1>2
<1>4. PICK f \in [0 .. Len(s) -> Seq(Messages)] : f[0] = <<>> /\ \A i \in 1 .. Len(s) : f[i] = step[i][f[i - 1]]
  <2> HIDE DEF step
  <2>1. \E f \in [0 .. Len(s) -> Seq(Messages)] : Iterates(f, Len(s), <<>>, step)
    BY <1>0, <1>3, Recursion
  <2> QED BY <2>1 DEF Iterates
<1>5. \A i \in 1 .. Len(s) : f[i] = Grown(f[i - 1], s[i], gen)
  <2>1. ASSUME NEW i \in 1 .. Len(s) PROVE f[i] = Grown(f[i - 1], s[i], gen)
    <3>1. f[i - 1] \in Seq(Messages)
      <4>1. i - 1 \in 0 .. Len(s)
        BY <1>0
      <4> QED BY <1>4, <4>1
    <3>2. step[i][f[i - 1]] = Grown(f[i - 1], s[i], gen)
      BY <3>1
    <3> QED BY <1>4, <3>2
  <2> QED BY <2>1
<1>6. Collects(f)
  <2>1. \A i \in 0 .. Len(s) : i # 0 => i \in 1 .. Len(s)
    BY <1>0
  <2>2. \A i \in 0 .. Len(s) : f[i] = IF i = 0 THEN <<>> ELSE Grown(f[i - 1], s[i], gen)
    BY <1>4, <1>5, <2>1
  <2> QED BY <2>2
<1>7. PICK g : Collects(g) /\ MessagesIn(s, gen) = g[Len(s)]
  BY <1>6 DEF MessagesIn, Grown, Counts
<1>8. g[0] = <<>> /\ \A i \in 1 .. Len(s) : g[i] = Grown(g[i - 1], s[i], gen)
  <2>1. \A i \in 0 .. Len(s) : g[i] = IF i = 0 THEN <<>> ELSE Grown(g[i - 1], s[i], gen)
    BY <1>7
  <2>2. 0 \in 0 .. Len(s) /\ \A i \in 1 .. Len(s) : i \in 0 .. Len(s) /\ i # 0
    BY <1>0
  <2> HIDE DEF Collects
  <2> QED BY <2>1, <2>2
<1>9. f[Len(s)] = g[Len(s)]
  <2> HIDE DEF Collects
  <2>1. Follows(f, g, Len(s)) /\ f[0] = g[0]
    BY <1>4, <1>5, <1>8 DEF Follows
  <2> QED BY <1>0, <2>1, SameUpTo
<1> QED BY <1>4, <1>5, <1>7, <1>9

LEMMA MessagesOfNone ==
  ASSUME NEW s \in Seq(Works), NEW gen, \A i \in 1 .. Len(s) : ~Counts(s[i], gen)
  PROVE  MessagesIn(s, gen) = <<>>
<1>1. PICK f \in [0 .. Len(s) -> Seq(Messages)] :
           /\ f[0] = <<>> /\ \A i \in 1 .. Len(s) : f[i] = Grown(f[i - 1], s[i], gen)
           /\ MessagesIn(s, gen) = f[Len(s)]
  BY MessagesUpTo
<1>2. PICK g : g = [i \in 0 .. Len(s) |-> <<>>]
  OBVIOUS
<1>3. Len(s) \in Nat /\ \A i \in 1 .. Len(s) : i \in 0 .. Len(s) /\ i - 1 \in 0 .. Len(s)
  OBVIOUS
<1>4. Follows(f, g, Len(s))
  BY <1>1, <1>2, <1>3 DEF Follows, Grown
<1>5. f[0] = g[0] /\ g[Len(s)] = <<>>
  BY <1>1, <1>2, <1>3
<1>6. f[Len(s)] = g[Len(s)]
  BY <1>3, <1>4, <1>5, SameUpTo
<1> QED BY <1>1, <1>5, <1>6

LEMMA MessagesTyped == ASSUME NEW s \in Seq(Works), NEW gen PROVE MessagesIn(s, gen) \in Seq(Messages)
<1>1. PICK f \in [0 .. Len(s) -> Seq(Messages)] : MessagesIn(s, gen) = f[Len(s)]
  BY MessagesUpTo
<1>2. Len(s) \in 0 .. Len(s)
  OBVIOUS
<1> QED BY <1>1, <1>2

LEMMA MessagesConcat ==
  ASSUME NEW s \in Seq(Works), NEW t \in Seq(Works), NEW gen
  PROVE  MessagesIn(s \o t, gen) = MessagesIn(s, gen) \o MessagesIn(t, gen)
<1>0. /\ s \o t \in Seq(Works) /\ Len(s \o t) = Len(s) + Len(t)
      /\ \A i \in 1 .. Len(s) + Len(t) : (s \o t)[i] = IF i <= Len(s) THEN s[i] ELSE t[i - Len(s)]
      /\ Len(s) \in Nat /\ Len(t) \in Nat
  BY ConcatProperties
<1>1. PICK f \in [0 .. Len(s) -> Seq(Messages)] :
           /\ f[0] = <<>> /\ \A i \in 1 .. Len(s) : f[i] = Grown(f[i - 1], s[i], gen)
           /\ MessagesIn(s, gen) = f[Len(s)]
  BY MessagesUpTo
<1>2. PICK g \in [0 .. Len(t) -> Seq(Messages)] :
           /\ g[0] = <<>> /\ \A i \in 1 .. Len(t) : g[i] = Grown(g[i - 1], t[i], gen)
           /\ MessagesIn(t, gen) = g[Len(t)]
  BY MessagesUpTo
<1>3. PICK h \in [0 .. Len(s) + Len(t) -> Seq(Messages)] :
           /\ h[0] = <<>> /\ \A i \in 1 .. Len(s) + Len(t) : h[i] = Grown(h[i - 1], (s \o t)[i], gen)
           /\ MessagesIn(s \o t, gen) = h[Len(s) + Len(t)]
  <2>1. \E h \in [0 .. Len(s \o t) -> Seq(Messages)] :
           /\ h[0] = <<>> /\ \A i \in 1 .. Len(s \o t) : h[i] = Grown(h[i - 1], (s \o t)[i], gen)
           /\ MessagesIn(s \o t, gen) = h[Len(s \o t)]
    BY <1>0, MessagesUpTo
  <2> QED BY <1>0, <2>1
<1>4. h[Len(s)] = f[Len(s)]
  <2>1. ASSUME NEW i \in 1 .. Len(s), h[i - 1] = f[i - 1] PROVE h[i] = f[i]
    <3>1. i \in 1 .. Len(s) + Len(t) /\ (s \o t)[i] = s[i]
      BY <1>0, <2>1
    <3> QED BY <1>1, <1>3, <2>1, <3>1
  <2>2. Follows(h, f, Len(s)) /\ h[0] = f[0]
    BY <1>1, <1>3, <2>1 DEF Follows
  <2> QED BY <1>0, <2>2, SameUpTo
<1>5. h[Len(s) + Len(t)] = f[Len(s)] \o g[Len(t)]
  <2>0. Len(s) \in 0 .. Len(s) /\ 0 \in 0 .. Len(t) /\ Len(s) + 0 = Len(s) /\ Len(t) \in 0 .. Len(t)
    BY <1>0
  <2>1. PICK k : k = [j \in 0 .. Len(t) |-> h[Len(s) + j]]
    OBVIOUS
  <2>2. PICK l : l = [j \in 0 .. Len(t) |-> f[Len(s)] \o g[j]]
    OBVIOUS
  <2>3. ASSUME NEW j \in 1 .. Len(t), k[j - 1] = l[j - 1] PROVE k[j] = l[j]
    <3>1. /\ Len(s) + j \in 1 .. Len(s) + Len(t) /\ (Len(s) + j) - Len(s) = j /\ ~(Len(s) + j <= Len(s))
          /\ Len(s) + (j - 1) = (Len(s) + j) - 1 /\ j \in 0 .. Len(t) /\ j - 1 \in 0 .. Len(t)
      BY <1>0
    <3>2. f[Len(s)] \in Seq(Messages) /\ g[j - 1] \in Seq(Messages)
      BY <1>1, <1>2, <2>0, <3>1
    <3>3. h[Len(s) + j] = Grown(h[Len(s) + (j - 1)], t[j], gen)
      <4>1. (s \o t)[Len(s) + j] = t[j]
        BY <1>0, <3>1
      <4> QED BY <1>3, <3>1, <4>1
    <3>4. k[j] = h[Len(s) + j] /\ k[j - 1] = h[Len(s) + (j - 1)]
      BY <2>1, <3>1
    <3>5. l[j] = f[Len(s)] \o g[j] /\ l[j - 1] = f[Len(s)] \o g[j - 1] /\ g[j] = Grown(g[j - 1], t[j], gen)
      BY <1>2, <2>2, <3>1
    <3>6. k[j] = Grown(f[Len(s)] \o g[j - 1], t[j], gen)
      BY <2>3, <3>3, <3>4, <3>5
    <3>7. CASE ~Counts(t[j], gen)
      BY <3>5, <3>6, <3>7 DEF Grown
    <3>8. CASE Counts(t[j], gen)
      <4>1. t[j] \in Works
        OBVIOUS
      <4>2. PICK m \in Messages : m = t[j].message
        BY <3>8, <4>1 DEF Works, Counts
      <4>3. k[j] = Append(f[Len(s)] \o g[j - 1], m) /\ l[j] = f[Len(s)] \o Append(g[j - 1], m)
        BY <3>5, <3>6, <3>8, <4>2 DEF Grown
      <4>4. Append(f[Len(s)] \o g[j - 1], m) = f[Len(s)] \o Append(g[j - 1], m)
        <5> HIDE DEF Works
        <5>1. PICK p \in Seq(Messages), q \in Seq(Messages) : p = f[Len(s)] /\ q = g[j - 1]
          BY <3>2
        <5>2. Append(p \o q, m) = p \o Append(q, m)
          BY <4>2, <5>1, ConcatAppend
        <5> QED BY <5>1, <5>2
      <4> QED BY <4>3, <4>4
    <3> QED BY <3>7, <3>8
  <2>4. k[0] = l[0]
    <3>1. f[Len(s)] \in Seq(Messages)
      BY <1>1, <2>0
    <3>2. k[0] = h[Len(s)] /\ l[0] = f[Len(s)] \o <<>>
      BY <1>2, <2>0, <2>1, <2>2
    <3> QED BY <1>4, <3>1, <3>2, ConcatEmptySeq
  <2>5. k[Len(t)] = l[Len(t)]
    <3>1. Follows(k, l, Len(t))
      BY <2>3 DEF Follows
    <3> QED BY <1>0, <2>4, <3>1, SameUpTo
  <2> QED BY <2>0, <2>1, <2>2, <2>5
<1> QED BY <1>1, <1>2, <1>3, <1>5

LEMMA MessagesOfOne ==
  ASSUME NEW w \in Works, NEW gen
  PROVE  MessagesIn(<<w>>, gen) = IF Counts(w, gen) THEN <<w.message>> ELSE <<>>
<1>1. <<w>> \in Seq(Works) /\ Len(<<w>>) = 1 /\ <<w>>[1] = w /\ 1 \in 1 .. 1 /\ 1 - 1 = 0
  OBVIOUS
<1>2. PICK f \in [0 .. 1 -> Seq(Messages)] :
        /\ f[0] = <<>> /\ \A i \in 1 .. 1 : f[i] = Grown(f[i - 1], <<w>>[i], gen)
        /\ MessagesIn(<<w>>, gen) = f[1]
  BY <1>1, MessagesUpTo
<1>3. f[1] = Grown(<<>>, w, gen)
  BY <1>1, <1>2
<1>4. Append(<<>>, w.message) = <<w.message>>
  OBVIOUS
<1> QED BY <1>2, <1>3, <1>4 DEF Grown

\* The first work, and a work that does not count.
LEMMA MessagesTail ==
  ASSUME NEW s \in Seq(Works), s # <<>>, NEW gen
  PROVE  /\ Counts(Head(s), gen) => MessagesIn(s, gen) = <<Head(s).message>> \o MessagesIn(Tail(s), gen)
         /\ ~Counts(Head(s), gen) => MessagesIn(s, gen) = MessagesIn(Tail(s), gen)
<1>1. /\ Head(s) \in Works /\ Tail(s) \in Seq(Works) /\ s = <<Head(s)>> \o Tail(s)
      /\ <<Head(s)>> \in Seq(Works)
  BY HeadTailProperties
<1>2. MessagesIn(s, gen) = MessagesIn(<<Head(s)>>, gen) \o MessagesIn(Tail(s), gen)
  <2>1. MessagesIn(<<Head(s)>> \o Tail(s), gen) = MessagesIn(<<Head(s)>>, gen) \o MessagesIn(Tail(s), gen)
    BY <1>1, MessagesConcat
  <2> QED BY <1>1, <2>1
<1>3. MessagesIn(<<Head(s)>>, gen) = IF Counts(Head(s), gen) THEN <<Head(s).message>> ELSE <<>>
  BY <1>1, MessagesOfOne
<1>4. MessagesIn(Tail(s), gen) \in Seq(Messages)
  BY <1>1, MessagesTyped
<1>5. <<>> \o MessagesIn(Tail(s), gen) = MessagesIn(Tail(s), gen)
  BY <1>4, ConcatEmptySeq
<1> QED BY <1>2, <1>3, <1>5

LEMMA MessagesPast ==
  ASSUME NEW s \in Seq(Works), NEW w \in Works, NEW gen, ~Counts(w, gen)
  PROVE  MessagesIn(Append(s, w), gen) = MessagesIn(s, gen)
<1>1. Append(s, w) = s \o <<w>> /\ <<w>> \in Seq(Works)
  BY AppendIsConcat
<1>2. MessagesIn(<<w>>, gen) = <<>>
  BY MessagesOfOne
<1>3. MessagesIn(s, gen) \in Seq(Messages)
  BY MessagesTyped
<1>4. MessagesIn(s \o <<w>>, gen) = MessagesIn(s, gen) \o MessagesIn(<<w>>, gen)
  BY <1>1, MessagesConcat
<1> QED BY <1>1, <1>2, <1>3, <1>4, ConcatEmptySeq

\* A queue splits anywhere.
LEMMA Split ==
  ASSUME NEW q \in Seq(Messages), NEW n \in 0 .. Len(q)
  PROVE  /\ q = SubSeq(q, 1, n) \o SubSeq(q, n + 1, Len(q))
         /\ SubSeq(q, 1, n) \in Seq(Messages) /\ Len(SubSeq(q, 1, n)) = n
         /\ SubSeq(q, n + 1, Len(q)) \in Seq(Messages) /\ Len(SubSeq(q, n + 1, Len(q))) = Len(q) - n
<1>1. Len(q) \in Nat /\ n \in Nat /\ n <= Len(q)
  OBVIOUS
<1>2. SubSeq(q, 1, n) \o SubSeq(q, n + 1, Len(q)) = SubSeq(q, 1, Len(q))
  <2>1. 1 \in 1 .. Len(q) + 1 /\ n \in 1 - 1 .. Len(q) /\ Len(q) \in n .. Len(q)
    BY <1>1
  <2> QED BY <2>1, ConcatAdjacentSubSeq
<1>3. SubSeq(q, 1, Len(q)) = q
  BY SubSeqFull
<1>4. SubSeq(q, 1, n) \in Seq(Messages) /\ Len(SubSeq(q, 1, n)) = n
  BY <1>1
<1>5. SubSeq(q, n + 1, Len(q)) \in Seq(Messages) /\ Len(SubSeq(q, n + 1, Len(q))) = Len(q) - n
  BY <1>1
<1> QED BY <1>2, <1>3, <1>4, <1>5

LEMMA FirstOf ==
  ASSUME NEW m \in Messages, NEW q \in Seq(Messages), NEW r \in Seq(Messages), r = <<m>> \o q
  PROVE  SubSeq(r, 1, 1) = <<m>> /\ SubSeq(r, 2, Len(r)) = q /\ 1 \in 1 .. Len(r)
<1>1. <<m>> \in Seq(Messages) /\ Len(<<m>>) = 1 /\ Len(q) \in Nat
  OBVIOUS
<1>2. Len(r) = 1 + Len(q) /\ r[1] = m /\ \A i \in 1 .. Len(q) : r[1 + i] = q[i]
  BY <1>1, ConcatProperties
<1>3. 1 \in 1 .. Len(r) /\ 2 \in Int /\ r \in Seq(Messages)
  BY <1>1, <1>2
<1>4. SubSeq(r, 1, 1) = <<m>>
  <2>1. SubSeq(r, 1, 1) \in Seq(Messages) /\ Len(SubSeq(r, 1, 1)) = 1
    BY <1>1, <1>2, <1>3
  <2>2. SubSeq(r, 1, 1)[1] = m /\ <<m>>[1] = m
    BY <1>1, <1>2, <1>3
  <2>3. \A i \in 1 .. 1 : SubSeq(r, 1, 1)[i] = <<m>>[i]
    BY <2>2
  <2> QED BY <1>1, <2>1, <2>3, SeqEqual
<1>5. SubSeq(r, 2, Len(r)) = q
  <2>1. SubSeq(r, 2, Len(r)) \in Seq(Messages) /\ Len(SubSeq(r, 2, Len(r))) = Len(q)
    BY <1>1, <1>2, <1>3
  <2>2. \A i \in 1 .. Len(q) : SubSeq(r, 2, Len(r))[i] = q[i]
    BY <1>1, <1>2, <1>3
  <2> QED BY <2>1, <2>2, SeqEqual
<1> QED BY <1>3, <1>4, <1>5

\* What flush_messages hands to the worker.
Moved(q, past, count, gen) ==
  [i \in 1 .. count |-> [what |-> "Message", gen |-> gen, message |-> q[past + i]]]

LEMMA MessagesMoved ==
  ASSUME NEW q \in Seq(Messages), NEW past \in Nat, NEW count \in Nat, past + count <= Len(q), NEW gen \in Documents
  PROVE  /\ Moved(q, past, count, gen) \in Seq(Works) /\ Len(Moved(q, past, count, gen)) = count
         /\ MessagesIn(Moved(q, past, count, gen), gen) = SubSeq(q, past + 1, past + count)
<1>1. PICK s : s = Moved(q, past, count, gen)
  OBVIOUS
<1>2. Len(q) \in Nat /\ \A i \in 1 .. count : past + i \in 1 .. Len(q)
  OBVIOUS
<1>3. ASSUME NEW i \in 1 .. count
      PROVE  s[i] \in Works /\ Counts(s[i], gen) /\ s[i].message = q[past + i]
  <2>1. q[past + i] \in Messages
    BY <1>2
  <2>2. s[i] = [what |-> "Message", gen |-> gen, message |-> q[past + i]]
    BY <1>1 DEF Moved
  <2> QED BY <2>1, <2>2 DEF Works, Work, Counts
<1>4. s \in Seq(Works) /\ Len(s) = count
  <2>1. s \in [1 .. count -> Works]
    BY <1>1, <1>3 DEF Moved
  <2> QED BY <2>1
<1>5. PICK f \in [0 .. Len(s) -> Seq(Messages)] :
           /\ f[0] = <<>> /\ \A i \in 1 .. Len(s) : f[i] = Grown(f[i - 1], s[i], gen)
           /\ MessagesIn(s, gen) = f[Len(s)]
  BY <1>4, MessagesUpTo
<1>6. PICK g : g = [i \in 0 .. count |-> SubSeq(q, past + 1, past + i)]
  OBVIOUS
<1>7. g[0] = <<>> /\ g[count] = SubSeq(q, past + 1, past + count)
  <2>1. 0 \in 0 .. count /\ count \in 0 .. count /\ past + 0 < past + 1
    OBVIOUS
  <2>2. SubSeq(q, past + 1, past + 0) = <<>>
    BY <2>1, SubSeqEmpty
  <2> QED BY <1>6, <2>1, <2>2
<1>8. ASSUME NEW i \in 1 .. count, f[i - 1] = g[i - 1] PROVE f[i] = g[i]
  <2>1. f[i] = Append(f[i - 1], q[past + i])
    BY <1>3, <1>4, <1>5 DEF Grown
  <2>2. i \in 0 .. count /\ i - 1 \in 0 .. count /\ past + (i - 1) = (past + i) - 1
    OBVIOUS
  <2>3. g[i] = SubSeq(q, past + 1, past + i) /\ g[i - 1] = SubSeq(q, past + 1, (past + i) - 1)
    BY <1>6, <2>2
  <2>4. SubSeq(q, past + 1, past + i) = SubSeq(q, past + 1, (past + i) - 1) \o <<q[past + i]>>
    <3>1. past + 1 \in 1 .. Len(q) /\ past + i \in past + 1 .. Len(q)
      BY <1>2
    <3> QED BY <3>1, SubSeqRecursiveSecond
  <2>5. f[i - 1] \in Seq(Messages) /\ q[past + i] \in Messages
    <3>1. f[i - 1] \in Seq(Messages)
      BY <1>4, <1>5, <2>2
    <3>2. past + i \in 1 .. Len(q)
      BY <1>2
    <3> QED BY <3>1, <3>2, ElementOfSeq
  <2>6. Append(f[i - 1], q[past + i]) = f[i - 1] \o <<q[past + i]>>
    BY <2>5, AppendIsConcat
  <2> QED BY <1>8, <2>1, <2>3, <2>4, <2>6
<1>9. f[count] = g[count]
  <2>1. Follows(f, g, count)
    BY <1>8 DEF Follows
  <2> QED BY <1>5, <1>7, <2>1, SameUpTo
<1> QED BY <1>1, <1>4, <1>5, <1>7, <1>9

-----------------------------------------------------------------------------
(* The invariant.                                                           *)

Shapes ==
  /\ generation \in Documents /\ ready \in BOOLEAN /\ subscribed \in BOOLEAN
  /\ closing \in BOOLEAN /\ window \in {"open", "broken", "gone", "erased"}
  /\ toWeb \in Seq(Messages) /\ toHost \in Seq(Messages) /\ requests \in Seq(Messages)
  /\ outputPending \in Nat /\ worker \in Seq(Works)
  /\ inReceive \in BOOLEAN /\ dispatched \in BOOLEAN
  /\ sent \in 0 .. MaxSends /\ posted \in 0 .. MaxPosts
  /\ pageGot \in Seq(Messages) /\ luaGot \in Seq(Messages)
  /\ lastSend \in {"none", "accepted", "full"} /\ lastPost \in {"none", "accepted", "full"}

\* The counters are exact while the window is open, and cover what Lua may still read
\* when the native window has gone.
Counted ==
  /\ messageBytes \in 0 .. ByteLimit /\ webMessages \in 0 .. QueueLimit
  /\ CountersExact
  /\ closing => toHost = <<>>
  /\ BytesIn(toHost) <= messageBytes

\* The works of the present document are the last outputPending ones.
Suffix ==
  /\ \A i \in DOMAIN worker : worker[i].gen <= generation
  /\ Alive => /\ outputPending <= Len(worker)
              /\ \A i \in DOMAIN worker : worker[i].gen = generation <=> Len(worker) - outputPending < i

IndInv == Shapes /\ Counted /\ Suffix

\* What the page has yet to get, as HostChannel sees it.
ToPage == IF IsOpen THEN Encoding \o toWeb ELSE <<>>

\* A step that the channel does not see, or takes.
Quiet == UNCHANGED <<IsOpen, ToPage, toHost, pageGot, luaGot, lastSend, lastPost>>
Simulated == Quiet \/ Channel!Next

LEMMA BytesSame == ASSUME NEW q PROVE Channel!Bytes(q) = BytesIn(q)
BY DEF Channel!Bytes, BytesIn

LEMMA EncodingTyped ==
  ASSUME Shapes PROVE Encoding \in Seq(Messages) /\ ToPage \in Seq(Messages)
<1>1. Encoding \in Seq(Messages)
  BY MessagesTyped DEF Shapes, Encoding
<1> QED BY <1>1, ConcatProperties DEF ToPage, Shapes

\* While the window is open the counters are those of the channel.
LEMMA OpenCounts ==
  ASSUME MessageLimits, IndInv, IsOpen
  PROVE  /\ ToPage = Encoding \o toWeb /\ Len(ToPage) = webMessages /\ Len(Encoding) \in Nat /\ Len(toWeb) \in Nat
         /\ webMessages = Len(Encoding) + Len(toWeb)
         /\ BytesIn(Encoding) \in Nat /\ BytesIn(toWeb) \in Nat /\ BytesIn(toHost) \in Nat
         /\ messageBytes = BytesIn(Encoding) + BytesIn(toWeb) + BytesIn(toHost)
         /\ messageBytes = BytesIn(ToPage) + BytesIn(toHost)
         /\ messageBytes \in Nat /\ webMessages \in Nat
<1>1. Encoding \in Seq(Messages) /\ toWeb \in Seq(Messages) /\ toHost \in Seq(Messages)
  BY EncodingTyped DEF IndInv, Shapes
<1>2. ToPage = Encoding \o toWeb
  BY DEF ToPage
<1>3. Len(ToPage) = Len(Encoding) + Len(toWeb) /\ Len(Encoding) \in Nat /\ Len(toWeb) \in Nat
  BY <1>1, <1>2, ConcatProperties
<1>4. BytesIn(ToPage) = BytesIn(Encoding) + BytesIn(toWeb)
  BY <1>1, <1>2, BytesConcat
<1>5. BytesIn(Encoding) \in Nat /\ BytesIn(toWeb) \in Nat /\ BytesIn(toHost) \in Nat
  BY <1>1, BytesNat
<1>6. /\ webMessages = Len(Encoding) + Len(toWeb)
      /\ messageBytes = BytesIn(Encoding) + BytesIn(toWeb) + BytesIn(toHost)
  BY DEF IndInv, Counted, CountersExact
<1> QED BY <1>2, <1>3, <1>4, <1>5, <1>6

\* With no output counted nothing of this document is being encoded.
LEMMA NothingEncoded == ASSUME Shapes, Suffix, Alive, outputPending = 0 PROVE Encoding = <<>>
<1>1. \A i \in 1 .. Len(worker) : ~Counts(worker[i], generation)
  BY DEF Shapes, Suffix, Counts
<1> QED BY <1>1, MessagesOfNone DEF Shapes, Encoding

LEMMA InitInv == ASSUME MessageLimits, Init PROVE IndInv /\ Channel!Init
<1>1. worker = <<>> /\ toWeb = <<>> /\ toHost = <<>> /\ <<>> \in Seq(Messages) /\ <<>> \in Seq(Works)
  BY DEF Init
<1>2. Shapes
  <2>1. 0 \in 0 .. MaxSends /\ 0 \in 0 .. MaxPosts /\ 1 \in 1 .. MaxNavigations /\ 0 \in Nat
    BY DEF MessageLimits
  <2>2. /\ toWeb \in Seq(Messages) /\ toHost \in Seq(Messages) /\ requests \in Seq(Messages)
        /\ pageGot \in Seq(Messages) /\ luaGot \in Seq(Messages) /\ worker \in Seq(Works)
    BY <1>1 DEF Init
  <2> QED BY <2>1, <2>2 DEF Init, Shapes, Documents
<1>3. Encoding = <<>>
  <2>1. \A i \in 1 .. Len(<<>>) : ~Counts((<<>>)[i], generation)
    OBVIOUS
  <2>2. MessagesIn(<<>>, generation) = <<>>
    BY <1>1, <2>1, MessagesOfNone
  <2> QED BY <1>1, <2>2 DEF Encoding
<1>4. Counted
  BY <1>1, <1>3, BytesOfNothing DEF Init, Counted, CountersExact, MessageLimits
<1>5. Suffix
  BY <1>1 DEF Init, Suffix
<1>6. ToPage = <<>>
  BY <1>1, <1>3 DEF ToPage
<1>7. Channel!Init
  BY <1>6 DEF Init, Channel!Init, ToPage, IsOpen, Alive
<1> QED BY <1>2, <1>4, <1>5, <1>7 DEF IndInv

\* A step that leaves the queues, the worker and the fate of the window alone.
LEMMA KeepStep ==
  ASSUME IndInv, UNCHANGED <<generation, fate, queues, outputPending, worker, got, results>>,
         ready' \in BOOLEAN, subscribed' \in BOOLEAN, requests' \in Seq(Messages),
         inReceive' \in BOOLEAN, dispatched' \in BOOLEAN,
         sent' \in 0 .. MaxSends, posted' \in 0 .. MaxPosts
  PROVE  IndInv' /\ Quiet
<1>1. UNCHANGED <<generation, closing, window, toWeb, toHost, messageBytes, webMessages, outputPending, worker,
                  pageGot, luaGot, lastSend, lastPost>>
  BY DEF fate, queues, got, results
<1>2. UNCHANGED <<IsOpen, Alive>> /\ UNCHANGED Encoding
  BY <1>1 DEF IsOpen, Alive, Encoding
<1>3. Shapes'
  BY <1>1 DEF IndInv, Shapes
<1>4. Counted'
  BY <1>1, <1>2 DEF IndInv, Counted, CountersExact
<1>5. Suffix'
  BY <1>1, <1>2 DEF IndInv, Suffix
<1>6. Quiet
  BY <1>1, <1>2 DEF Quiet, ToPage
<1> QED BY <1>3, <1>4, <1>5, <1>6 DEF IndInv

\* A step that empties the queues.
LEMMA ClearStep ==
  ASSUME MessageLimits, Clear, UNCHANGED results, IsOpen' = FALSE \/ IsOpen' = IsOpen, IsOpen' => Encoding' = <<>>
  PROVE  Counted' /\ Channel!Discard
<1>1. toWeb' = <<>> /\ toHost' = <<>> /\ messageBytes' = 0 /\ webMessages' = 0 /\ pageGot' = <<>> /\ luaGot' = <<>>
  BY DEF Clear
<1>2. BytesIn(<<>>) = 0 /\ Len(<<>>) = 0 /\ QueueLimit \in Nat /\ ByteLimit \in Nat
  BY BytesOfNothing DEF MessageLimits
<1>3. Counted'
  BY <1>1, <1>2 DEF Counted, CountersExact
<1>4. ToPage' = <<>>
  BY <1>1 DEF ToPage
<1>5. Channel!Discard
  BY <1>1, <1>4 DEF Channel!Discard, ToPage, results
<1> QED BY <1>3, <1>5

\* The worker and its count are left alone.
LEMMA SuffixKept ==
  ASSUME IndInv, UNCHANGED <<generation, outputPending, worker>>, Alive' => Alive
  PROVE  Suffix' /\ Encoding' = Encoding
<1>1. Suffix'
  BY DEF IndInv, Suffix
<1> QED BY <1>1 DEF Encoding

\* There is room in the bridge when there is in the channel.
LEMMA RoomSame ==
  ASSUME MessageLimits, IndInv, IsOpen, NEW m \in Messages
  PROVE  /\ Channel!Room(ToPage, m) <=> HasRoom(webMessages, m)
         /\ Channel!Room(toHost, m) <=> HasRoom(Len(toHost), m)
<1>1. /\ Len(ToPage) = webMessages /\ messageBytes = BytesIn(ToPage) + BytesIn(toHost)
      /\ BytesIn(toHost) \in Nat /\ messageBytes \in Nat
  BY OpenCounts
<1>2. m.size \in Nat /\ ByteLimit \in Nat
  BY MessageSize DEF MessageLimits
<1>3. BytesIn(ToPage) \in Nat
  BY EncodingTyped, BytesNat DEF IndInv
<1>4. ASSUME NEW q
      PROVE  Channel!Room(q, m) <=> (Len(q) < QueueLimit /\ m.size + BytesIn(ToPage) + BytesIn(toHost) <= ByteLimit)
  BY BytesSame DEF Channel!Room, ToPage
<1>5. m.size + BytesIn(ToPage) + BytesIn(toHost) <= ByteLimit <=> m.size <= ByteLimit - messageBytes
  BY <1>1, <1>2, <1>3
<1> QED BY <1>1, <1>4, <1>5 DEF HasRoom

LEMMA SendStep ==
  ASSUME MessageLimits, IndInv, NEW m \in Messages, Send(m)
  PROVE  IndInv' /\ Simulated
<1>1. /\ UNCHANGED <<generation, ready, subscribed, closing, window, toHost, outputPending, worker, requests,
                     inReceive, dispatched, posted, pageGot, luaGot, lastPost>>
      /\ IsOpen /\ sent < MaxSends /\ sent' = sent + 1
  BY DEF Send, page, fate, pass, got
<1>2. UNCHANGED <<IsOpen, Alive>>
  BY <1>1 DEF IsOpen, Alive
<1>3. Suffix' /\ Encoding' = Encoding
  BY <1>1, <1>2, SuffixKept
<1>4. sent' \in 0 .. MaxSends
  BY <1>1 DEF IndInv, Shapes, MessageLimits
<1>5. Encoding \in Seq(Messages) /\ ToPage = Encoding \o toWeb /\ toWeb \in Seq(Messages) /\ ToPage \in Seq(Messages)
  BY <1>1, EncodingTyped, OpenCounts DEF IndInv, Shapes
<1>6. CASE HasRoom(webMessages, m)
  <2>1. /\ toWeb' = Append(toWeb, m) /\ messageBytes' = messageBytes + m.size
        /\ webMessages' = webMessages + 1 /\ lastSend' = "accepted"
    BY <1>6 DEF Send
  <2>2. toWeb' \in Seq(Messages) /\ Len(toWeb') = Len(toWeb) + 1 /\ BytesIn(toWeb') = BytesIn(toWeb) + m.size
    <3>1. BytesIn(Append(toWeb, m)) = BytesIn(toWeb) + m.size
      BY <1>5, BytesAppend
    <3> QED BY <1>5, <2>1, <3>1, AppendProperties
  <2>3. Shapes'
    BY <1>1, <1>4, <2>1, <2>2 DEF IndInv, Shapes
  <2>4. Counted'
    <3>1. /\ m.size \in Nat /\ ByteLimit \in Nat /\ QueueLimit \in Nat
          /\ webMessages < QueueLimit /\ m.size <= ByteLimit - messageBytes
      BY <1>6, MessageSize DEF HasRoom, MessageLimits
    <3>2. /\ webMessages = Len(Encoding) + Len(toWeb) /\ Len(Encoding) \in Nat /\ Len(toWeb) \in Nat
          /\ BytesIn(Encoding) \in Nat /\ BytesIn(toWeb) \in Nat /\ BytesIn(toHost) \in Nat
          /\ messageBytes = BytesIn(Encoding) + BytesIn(toWeb) + BytesIn(toHost)
          /\ messageBytes \in Nat /\ webMessages \in Nat
      BY <1>1, OpenCounts
    <3>0. messageBytes' = messageBytes + m.size /\ webMessages' = webMessages + 1
      BY <2>1
    <3>3. webMessages' \in 0 .. QueueLimit
      <4>1. QueueLimit \in Nat /\ webMessages \in Nat /\ webMessages < QueueLimit
        BY <3>1, <3>2
      <4> QED BY <3>0, <4>1
    <3>4. messageBytes' \in 0 .. ByteLimit
      <4>1. ByteLimit \in Nat /\ messageBytes \in Nat /\ m.size \in Nat /\ m.size <= ByteLimit - messageBytes
        BY <3>1, <3>2
      <4> QED BY <3>0, <4>1
    <3>5. CountersExact'
      <4>1. webMessages' = Len(Encoding) + (Len(toWeb) + 1)
        BY <3>0, <3>2
      <4>2. messageBytes' = BytesIn(Encoding) + (BytesIn(toWeb) + m.size) + BytesIn(toHost)
        <5>1. \A a, b, c, d \in Nat : (a + b + c) + d = a + (b + d) + c
          OBVIOUS
        <5>2. /\ BytesIn(Encoding) \in Nat /\ BytesIn(toWeb) \in Nat /\ BytesIn(toHost) \in Nat
              /\ messageBytes = BytesIn(Encoding) + BytesIn(toWeb) + BytesIn(toHost) /\ m.size \in Nat
          BY <3>1, <3>2
        <5> QED BY <3>0, <5>1, <5>2
      <4> QED BY <1>1, <1>3, <2>2, <4>1, <4>2 DEF CountersExact
    <3>6. BytesIn(toHost') <= messageBytes'
      <4>1. BytesIn(toHost) <= messageBytes + m.size
        <5>1. \A a, b, h, s \in Nat : h <= (a + b + h) + s
          OBVIOUS
        <5>2. /\ BytesIn(Encoding) \in Nat /\ BytesIn(toWeb) \in Nat /\ BytesIn(toHost) \in Nat /\ m.size \in Nat
              /\ messageBytes = BytesIn(Encoding) + BytesIn(toWeb) + BytesIn(toHost)
          BY <3>1, <3>2
        <5> QED BY <5>1, <5>2
      <4> QED BY <1>1, <3>0, <4>1
    <3>7. closing' => toHost' = <<>>
      BY <1>1 DEF IndInv, Counted
    <3> QED BY <3>3, <3>4, <3>5, <3>6, <3>7 DEF Counted
  <2>5. ToPage' = Append(ToPage, m)
    <3>1. ToPage' = Encoding \o Append(toWeb, m)
      BY <1>1, <1>2, <1>3, <2>1 DEF ToPage
    <3> QED BY <1>5, <3>1, ConcatAppend
  <2>6. Channel!Room(ToPage, m)
    BY <1>1, <1>6, RoomSame
  <2>7. Channel!Send(m)
    BY <1>1, <1>2, <2>1, <2>5, <2>6 DEF Channel!Send, ToPage
  <2> QED BY <1>3, <2>3, <2>4, <2>7 DEF IndInv, Simulated, Channel!Next
<1>7. CASE ~HasRoom(webMessages, m)
  <2>1. UNCHANGED <<toWeb, messageBytes, webMessages>> /\ lastSend' = "full"
    BY <1>7 DEF Send
  <2>2. Shapes'
    BY <1>1, <1>4, <2>1 DEF IndInv, Shapes
  <2>3. Counted'
    BY <1>1, <1>2, <1>3, <2>1 DEF IndInv, Counted, CountersExact
  <2>4. ToPage' = ToPage
    BY <1>2, <1>3, <2>1 DEF ToPage
  <2>5. ~Channel!Room(ToPage, m)
    BY <1>1, <1>7, RoomSame
  <2>6. Channel!Send(m)
    BY <1>1, <1>2, <2>1, <2>4, <2>5 DEF Channel!Send, ToPage
  <2> QED BY <1>3, <2>2, <2>3, <2>6 DEF IndInv, Simulated, Channel!Next
<1> QED BY <1>6, <1>7

\* An answer through the worker is the last of the counted works, and no message.
LEMMA AnswerStep ==
  ASSUME IndInv, Alive, Answer, UNCHANGED <<generation, window>>
  PROVE  worker' \in Seq(Works) /\ outputPending' \in Nat /\ Suffix' /\ Encoding' = Encoding /\ closing' = closing
<1>1. /\ worker \in Seq(Works) /\ outputPending \in Nat /\ generation \in Documents /\ Len(worker) \in Nat
      /\ Alive' = Alive
  BY DEF IndInv, Shapes, Alive
<1>2. CASE outputPending = 0 /\ window = "open" /\ UNCHANGED <<worker, outputPending, closing>>
  BY <1>1, <1>2, SuffixKept
<1>3. CASE Len(worker) < WorkerCapacity /\ outputPending' = outputPending + 1 /\ UNCHANGED closing
           /\ worker' = Append(worker, [what |-> "Answer", gen |-> generation, message |-> NoMessage])
  <2>1. PICK w : w = [what |-> "Answer", gen |-> generation, message |-> NoMessage]
    OBVIOUS
  <2>2. w \in Works /\ w.gen = generation /\ ~Counts(w, generation)
    BY <1>1, <2>1 DEF Works, Work, Counts
  <2>3. /\ worker' = Append(worker, w) /\ worker' \in Seq(Works) /\ Len(worker') = Len(worker) + 1
        /\ \A i \in 1 .. Len(worker) : worker'[i] = worker[i]
        /\ worker'[Len(worker) + 1] = w
    BY <1>1, <1>3, <2>1, <2>2, AppendProperties
  <2>4. Encoding' = Encoding
    <3>1. MessagesIn(Append(worker, w), generation) = MessagesIn(worker, generation)
      BY <1>1, <2>2, MessagesPast
    <3> QED BY <2>3, <3>1 DEF Encoding
  <2>5. \A i \in 1 .. Len(worker) : worker[i].gen <= generation /\ (worker[i].gen = generation <=> Len(worker) - outputPending < i)
    BY <1>1 DEF IndInv, Suffix
  <2>6. outputPending <= Len(worker)
    BY DEF IndInv, Suffix
  <2>7. generation \in Nat
    BY <1>1 DEF Documents
  <2>8. ASSUME NEW i \in 1 .. Len(worker) + 1
        PROVE  worker'[i].gen <= generation /\ (worker'[i].gen = generation <=> Len(worker') - outputPending' < i)
    <3>1. CASE i = Len(worker) + 1
      BY <1>1, <1>3, <2>2, <2>3, <2>7, <3>1
    <3>2. CASE i \in 1 .. Len(worker)
      <4>1. Len(worker') - outputPending' = Len(worker) - outputPending
        BY <1>1, <1>3, <2>3
      <4> QED BY <2>3, <2>5, <3>2, <4>1
    <3> QED BY <1>1, <3>1, <3>2
  <2>9. outputPending' <= Len(worker') /\ outputPending' \in Nat
    BY <1>1, <1>3, <2>3, <2>6
  <2>10. DOMAIN worker' = 1 .. Len(worker) + 1
    BY <2>3
  <2>11. Suffix'
    BY <2>8, <2>9, <2>10 DEF Suffix
  <2> QED BY <1>3, <2>3, <2>4, <2>9, <2>11
<1> QED BY <1>2, <1>3 DEF Answer

\* A session that fails, closes or is torn down empties its queues.
LEMMA EndStep ==
  ASSUME MessageLimits, Clear, UNCHANGED results, ~IsOpen'
  PROVE  Counted' /\ Simulated
<1>1. Counted' /\ Channel!Discard
  <2>1. IsOpen' = FALSE
    BY DEF IsOpen
  <2> QED BY <2>1, ClearStep
<1> QED BY <1>1 DEF Simulated, Channel!Next

LEMMA DispatchStep ==
  ASSUME MessageLimits, IndInv, Dispatch
  PROVE  IndInv' /\ Simulated
<1>1. /\ UNCHANGED <<generation, ready, subscribed, window, inReceive, dispatched, sent, posted, lastSend>>
      /\ IsOpen /\ Alive /\ ~closing /\ requests # <<>> /\ requests' = Tail(requests)
  BY DEF Dispatch, page, pass, numbers, IsOpen
<1>2. Head(requests) \in Messages /\ requests' \in Seq(Messages)
  BY <1>1, HeadTailProperties DEF IndInv, Shapes
<1>3. PICK m \in Messages : m = Head(requests)
  BY <1>2
<1>4. CASE /\ Answer
           /\ IF HasRoom(Len(toHost), m)
              THEN /\ toHost' = Append(toHost, m)
                   /\ messageBytes' = messageBytes + m.size
                   /\ lastPost' = "accepted"
              ELSE UNCHANGED <<toHost, messageBytes>> /\ lastPost' = "full"
           /\ UNCHANGED <<toWeb, webMessages, got>>
  <2>1. worker' \in Seq(Works) /\ outputPending' \in Nat /\ Suffix' /\ Encoding' = Encoding /\ closing' = closing
    BY <1>1, <1>4, AnswerStep
  <2>2. UNCHANGED <<IsOpen, toWeb, webMessages, pageGot, luaGot>>
    BY <1>1, <1>4, <2>1 DEF IsOpen, Alive, got
  <2>3. ToPage' = ToPage
    BY <2>1, <2>2 DEF ToPage
  <2>4. toHost \in Seq(Messages)
    BY DEF IndInv, Shapes
  <2>5. CASE HasRoom(Len(toHost), m)
    <3>1. toHost' = Append(toHost, m) /\ lastPost' = "accepted"
      BY <1>4, <2>5
    <3>2. messageBytes' = messageBytes + m.size
      BY <1>4, <2>5
    <3>3. toHost' \in Seq(Messages) /\ BytesIn(toHost') = BytesIn(toHost) + m.size
      <4>1. BytesIn(Append(toHost, m)) = BytesIn(toHost) + m.size
        BY <2>4, BytesAppend
      <4> QED BY <2>4, <3>1, <4>1, AppendProperties
    <3>4. Shapes'
      BY <1>1, <1>2, <2>1, <2>2, <3>1, <3>3 DEF IndInv, Shapes
    <3>5. m.size \in Nat /\ ByteLimit \in Nat /\ messageBytes \in Nat /\ m.size <= ByteLimit - messageBytes
      BY <1>1, <2>5, MessageSize, OpenCounts DEF HasRoom, MessageLimits
    <3>6. messageBytes' \in 0 .. ByteLimit
      BY <3>2, <3>5
    <3>7. messageBytes' = BytesIn(Encoding) + BytesIn(toWeb) + BytesIn(toHost')
      <4>1. \A a, b, c, d \in Nat : (a + b + c) + d = a + b + (c + d)
        OBVIOUS
      <4>2. /\ BytesIn(Encoding) \in Nat /\ BytesIn(toWeb) \in Nat /\ BytesIn(toHost) \in Nat
            /\ messageBytes = BytesIn(Encoding) + BytesIn(toWeb) + BytesIn(toHost)
        BY <1>1, OpenCounts
      <4> QED BY <3>2, <3>3, <3>5, <4>1, <4>2
    <3>8. BytesIn(toHost') <= messageBytes'
      <4>1. \A a, b, c, d \in Nat : c + d <= (a + b + c) + d
        OBVIOUS
      <4>2. /\ BytesIn(Encoding) \in Nat /\ BytesIn(toWeb) \in Nat /\ BytesIn(toHost) \in Nat
            /\ messageBytes = BytesIn(Encoding) + BytesIn(toWeb) + BytesIn(toHost)
        BY <1>1, OpenCounts
      <4> QED BY <3>2, <3>3, <3>5, <4>1, <4>2
    <3>9. Counted'
      BY <1>1, <2>1, <2>2, <3>6, <3>7, <3>8 DEF IndInv, Counted, CountersExact
    <3>10. Channel!Room(toHost, m)
      BY <1>1, <2>5, RoomSame
    <3>11. Channel!Post(m)
      BY <1>1, <2>2, <2>3, <3>1, <3>10 DEF Channel!Post, ToPage
    <3> QED BY <2>1, <3>4, <3>9, <3>11 DEF IndInv, Simulated, Channel!Next
  <2>6. CASE ~HasRoom(Len(toHost), m)
    <3>1. UNCHANGED <<toHost, messageBytes>> /\ lastPost' = "full"
      BY <1>4, <2>6
    <3>2. Shapes'
      BY <1>1, <1>2, <2>1, <2>2, <3>1 DEF IndInv, Shapes
    <3>3. Counted'
      BY <2>1, <2>2, <3>1 DEF IndInv, Counted, CountersExact
    <3>4. ~Channel!Room(toHost, m)
      BY <1>1, <2>6, RoomSame
    <3>5. Channel!Post(m)
      BY <1>1, <2>2, <2>3, <3>1, <3>4 DEF Channel!Post, ToPage
    <3> QED BY <2>1, <3>2, <3>3, <3>5 DEF IndInv, Simulated, Channel!Next
  <2> QED BY <2>5, <2>6
<1>5. CASE Fails /\ UNCHANGED <<worker, outputPending, lastPost>>
  <2>1. /\ UNCHANGED <<worker, outputPending, lastPost, Alive>> /\ closing' = TRUE /\ Clear /\ UNCHANGED results
        /\ ~IsOpen' /\ toWeb' = <<>> /\ toHost' = <<>> /\ pageGot' = <<>> /\ luaGot' = <<>>
    BY <1>1, <1>5 DEF Fails, Clear, IsOpen, Alive, results
  <2>2. Shapes'
    BY <1>1, <1>2, <2>1 DEF IndInv, Shapes
  <2>3. Counted' /\ Simulated
    BY <2>1, EndStep
  <2>4. Suffix'
    BY <1>1, <2>1, SuffixKept
  <2> QED BY <2>2, <2>3, <2>4 DEF IndInv
<1> QED BY <1>3, <1>4, <1>5 DEF Dispatch

\* Lua reads the head of its queue.
LEMMA PopStep ==
  ASSUME MessageLimits, IndInv, Pop, inReceive' \in BOOLEAN, dispatched' \in BOOLEAN,
         UNCHANGED <<page, fate, toWeb, webMessages, outputPending, worker, requests, numbers, pageGot, results>>
  PROVE  IndInv' /\ Simulated
<1>1. UNCHANGED <<generation, ready, subscribed, closing, window, toWeb, webMessages, outputPending, worker,
                  requests, sent, posted, pageGot, lastSend, lastPost>>
  BY DEF page, fate, numbers, results
<1>2. UNCHANGED <<IsOpen, Alive>>
  BY <1>1 DEF IsOpen, Alive
<1>3. Suffix' /\ Encoding' = Encoding /\ ToPage' = ToPage
  BY <1>1, <1>2, SuffixKept DEF ToPage
<1>4. CASE toHost = <<>>
  <2>1. UNCHANGED <<toHost, messageBytes, luaGot>>
    BY <1>4 DEF Pop
  <2>2. Shapes'
    BY <1>1, <2>1 DEF IndInv, Shapes
  <2>3. Counted'
    BY <1>1, <1>2, <1>3, <2>1 DEF IndInv, Counted, CountersExact
  <2>4. Quiet
    BY <1>1, <1>2, <1>3, <2>1 DEF Quiet
  <2> QED BY <1>3, <2>2, <2>3, <2>4 DEF IndInv, Simulated
<1>5. CASE toHost # <<>>
  <2>1. toHost' = Tail(toHost) /\ luaGot' = Append(luaGot, Head(toHost))
    BY <1>5 DEF Pop
  <2>2. messageBytes' = messageBytes - Head(toHost).size
    BY <1>5 DEF Pop
  <2>3. Head(toHost) \in Messages /\ toHost' \in Seq(Messages) /\ toHost \in Seq(Messages)
    BY <1>5, <2>1, HeadTailProperties DEF IndInv, Shapes
  <2>4. luaGot' \in Seq(Messages)
    BY <2>1, <2>3, AppendProperties DEF IndInv, Shapes
  <2>5. Shapes'
    BY <1>1, <2>3, <2>4 DEF IndInv, Shapes
  <2>6. BytesIn(toHost) = Head(toHost).size + BytesIn(toHost')
    BY <1>5, <2>1, <2>3, BytesTail
  <2>7. Head(toHost).size \in Nat /\ BytesIn(toHost') \in Nat
    BY <2>3, BytesNat, MessageSize
  <2>8. messageBytes \in 0 .. ByteLimit /\ BytesIn(toHost) <= messageBytes /\ ByteLimit \in Nat
    BY DEF IndInv, Counted, MessageLimits
  <2>9. \A b, h, r, l \in Nat : h + r <= b /\ b <= l => b - h \in 0 .. l /\ r <= b - h
    OBVIOUS
  <2>10. messageBytes' \in 0 .. ByteLimit /\ BytesIn(toHost') <= messageBytes'
    BY <2>2, <2>6, <2>7, <2>8, <2>9
  <2>11. ~closing
    BY <1>5 DEF IndInv, Counted
  <2>12. CountersExact'
    <3>1. SUFFICES ASSUME IsOpen PROVE CountersExact'
      BY <1>2 DEF CountersExact
    <3>2. /\ BytesIn(Encoding) \in Nat /\ BytesIn(toWeb) \in Nat
          /\ messageBytes = BytesIn(Encoding) + BytesIn(toWeb) + BytesIn(toHost)
          /\ webMessages = Len(Encoding) + Len(toWeb)
      BY <3>1, OpenCounts
    <3>3. \A a, b, c, d \in Nat : (a + b + (d + c)) - d = a + b + c
      OBVIOUS
    <3>4. messageBytes' = BytesIn(Encoding) + BytesIn(toWeb) + BytesIn(toHost')
      BY <2>2, <2>6, <2>7, <3>2, <3>3
    <3> QED BY <1>1, <1>3, <3>2, <3>4 DEF CountersExact
  <2>13. Counted'
    BY <1>1, <2>10, <2>11, <2>12 DEF IndInv, Counted
  <2>14. Channel!Receive
    BY <1>1, <1>2, <1>3, <1>5, <2>1 DEF Channel!Receive, ToPage
  <2> QED BY <1>3, <2>5, <2>13, <2>14 DEF IndInv, Simulated, Channel!Next
<1> QED BY <1>4, <1>5

\* The worker hands over its first work, which is among the counted ones when it is
\* of this document.
LEMMA FirstTaken ==
  ASSUME IndInv, worker # <<>>, worker' = Tail(worker), UNCHANGED <<generation, window>>,
         outputPending' = IF Head(worker).gen # generation \/ ~Alive THEN outputPending ELSE Dec(outputPending)
  PROVE  Suffix' /\ worker' \in Seq(Works) /\ outputPending' \in Nat
<1>1. worker \in Seq(Works) /\ outputPending \in Nat /\ Len(worker) \in Nat \ {0} /\ Alive' = Alive
  BY DEF IndInv, Shapes, Alive
<1>2. /\ worker' \in Seq(Works) /\ Len(worker') = Len(worker) - 1 /\ Head(worker) = worker[1]
      /\ \A i \in 1 .. Len(worker') : worker'[i] = worker[i + 1]
  <2>1. Len(Tail(worker)) = Len(worker) - 1 /\ Tail(worker) \in Seq(Works)
    BY <1>1, HeadTailProperties
  <2>2. \A i \in 1 .. Len(Tail(worker)) : Tail(worker)[i] = worker[i + 1]
    BY <1>1, HeadTailProperties
  <2>3. Head(worker) = worker[1]
    BY <1>1
  <2> QED BY <2>1, <2>2, <2>3
<1>3. \A i \in 1 .. Len(worker) : worker[i].gen <= generation
  BY <1>1 DEF IndInv, Suffix
<1>4. Alive => /\ outputPending <= Len(worker)
               /\ \A i \in 1 .. Len(worker) : worker[i].gen = generation <=> Len(worker) - outputPending < i
  BY <1>1 DEF IndInv, Suffix
<1>5. outputPending' \in Nat
  BY <1>1 DEF Dec
<1>6. ASSUME Alive
      PROVE  \/ /\ outputPending' <= Len(worker')
                /\ Len(worker') - outputPending' = Len(worker) - outputPending - 1
             \/ outputPending' = Len(worker') /\ outputPending = Len(worker)
  <2>2. 1 \in 1 .. Len(worker)
    BY <1>1
  <2>3. Head(worker).gen = generation <=> Len(worker) - outputPending < 1
    BY <1>2, <1>4, <1>6, <2>2
  <2>4. CASE Head(worker).gen # generation
    <3>1. outputPending' = outputPending
      BY <2>4
    <3>2. outputPending <= Len(worker) - 1
      BY <1>1, <1>4, <1>6, <2>3, <2>4
    <3>3. Len(worker') = Len(worker) - 1 /\ Len(worker) \in Nat /\ outputPending \in Nat
      BY <1>1, <1>2
    <3>4. \A n, k \in Nat : k <= n - 1 => (n - 1) - k = n - k - 1
      OBVIOUS
    <3> QED BY <3>1, <3>2, <3>3, <3>4
  <2>5. CASE Head(worker).gen = generation
    <3>1. outputPending' = Dec(outputPending)
      BY <1>6, <2>5
    <3>2. outputPending = Len(worker)
      BY <1>1, <1>4, <1>6, <2>3, <2>5
    <3> QED BY <1>1, <1>2, <3>1, <3>2 DEF Dec
  <2> QED BY <2>4, <2>5
<1>7. ASSUME NEW i \in 1 .. Len(worker')
      PROVE  worker'[i].gen <= generation /\ (Alive => (worker'[i].gen = generation <=> Len(worker') - outputPending' < i))
  <2>1. i + 1 \in 1 .. Len(worker) /\ worker'[i] = worker[i + 1]
    BY <1>1, <1>2
  <2>2. worker'[i].gen <= generation
    BY <1>3, <2>1
  <2>3. ASSUME Alive PROVE worker'[i].gen = generation <=> Len(worker') - outputPending' < i
    <3>1. worker'[i].gen = generation <=> Len(worker) - outputPending < i + 1
      BY <1>4, <2>1, <2>3
    <3>2. Len(worker) - outputPending < i + 1 <=> Len(worker') - outputPending' < i
      <4>1. i \in Nat \ {0} /\ Len(worker) \in Nat /\ outputPending \in Nat
        BY <1>1, <1>2
      <4>2. CASE Len(worker') - outputPending' = Len(worker) - outputPending - 1
        BY <4>1, <4>2
      <4>3. CASE outputPending' = Len(worker') /\ outputPending = Len(worker)
        <5>1. Len(worker') \in Nat
          BY <1>2
        <5>2. \A n \in Nat : n - n = 0
          OBVIOUS
        <5> QED BY <4>1, <4>3, <5>1, <5>2
      <4> QED BY <1>6, <2>3, <4>2, <4>3
    <3> QED BY <3>1, <3>2
  <2> QED BY <2>2, <2>3
<1>8. Alive => outputPending' <= Len(worker')
  <2>1. Len(worker') \in Nat
    BY <1>2
  <2> QED BY <1>6, <2>1
<1>9. DOMAIN worker' = 1 .. Len(worker')
  BY <1>2
<1>10. Suffix'
  BY <1>1, <1>7, <1>8, <1>9 DEF Suffix
<1> QED BY <1>2, <1>5, <1>10

\* A work that shows nothing: its document is gone, its session closes, or it is an answer.
LEMMA NothingShown ==
  ASSUME IndInv, Suffix', worker' \in Seq(Works), outputPending' \in Nat,
         UNCHANGED <<page, fate, queues, requests, pass, numbers, got, results>>,
         IsOpen => Encoding' = Encoding
  PROVE  IndInv' /\ Simulated
<1>1. UNCHANGED <<generation, ready, subscribed, closing, window, toWeb, toHost, messageBytes, webMessages, requests,
                  inReceive, dispatched, sent, posted, pageGot, luaGot, lastSend, lastPost>>
  BY DEF page, fate, queues, pass, numbers, got, results
<1>2. UNCHANGED IsOpen
  BY <1>1 DEF IsOpen, Alive
<1>3. Shapes'
  BY <1>1 DEF IndInv, Shapes
<1>4. Counted'
  BY <1>1, <1>2 DEF IndInv, Counted, CountersExact
<1>5. ToPage' = ToPage
  BY <1>1, <1>2 DEF ToPage
<1> QED BY <1>1, <1>2, <1>3, <1>4, <1>5 DEF IndInv, Simulated, Quiet

LEMMA TakeStep ==
  ASSUME MessageLimits, IndInv, Take
  PROVE  IndInv' /\ Simulated
<1>1. /\ UNCHANGED <<generation, ready, subscribed, window, requests, inReceive, dispatched, sent, posted, lastSend, lastPost>>
      /\ worker # <<>> /\ worker' = Tail(worker)
  BY DEF Take, page, pass, numbers, results
<1>2. outputPending' = IF Head(worker).gen # generation \/ ~Alive THEN outputPending ELSE Dec(outputPending)
  BY DEF Take
<1>3. Suffix' /\ worker' \in Seq(Works) /\ outputPending' \in Nat
  BY <1>1, <1>2, FirstTaken
<1>4. worker \in Seq(Works) /\ Head(worker) \in Works
  BY <1>1, HeadTailProperties DEF IndInv, Shapes
<1>5. PICK w \in Works : w = Head(worker)
  BY <1>4
<1>6. /\ Counts(w, generation) => Encoding = <<w.message>> \o Encoding'
      /\ ~Counts(w, generation) => Encoding' = Encoding
  BY <1>1, <1>4, <1>5, MessagesTail DEF Encoding
<1>7. CASE w.gen # generation \/ ~Alive
  <2>1. UNCHANGED <<page, fate, queues, requests, pass, numbers, got, results>>
    BY <1>5, <1>7 DEF Take, fate
  <2>2. IsOpen => Encoding' = Encoding
    BY <1>6, <1>7 DEF IsOpen, Counts
  <2> QED BY <1>3, <2>1, <2>2, NothingShown
<1>8. CASE w.gen = generation /\ Alive
  <2>1. TakeCurrent(w)
    BY <1>5, <1>8 DEF Take
  <2>2. w.what \in {"Message", "Answer"} /\ (w.what = "Message" => w.message \in Messages)
    BY DEF Works, Work
  <2>3. CASE w.what = "Message" /\ closing
    <3>1. UNCHANGED <<page, fate, queues, requests, pass, numbers, got, results>>
      BY <2>1, <2>3 DEF TakeCurrent, Take, fate
    <3> QED BY <1>3, <2>3, <3>1, NothingShown DEF IsOpen
  <2>4. CASE (w.what = "Answer" \/ ~closing) /\ window = "broken"
    <3>1. Fails
      BY <2>1, <2>4 DEF TakeCurrent
    <3>2. closing' = TRUE /\ Clear /\ ~IsOpen' /\ toWeb' = <<>> /\ toHost' = <<>> /\ pageGot' = <<>> /\ luaGot' = <<>>
      BY <3>1 DEF Fails, Clear, IsOpen
    <3>3. UNCHANGED results
      BY DEF Take
    <3>4. Shapes'
      BY <1>1, <1>3, <3>2 DEF IndInv, Shapes
    <3>5. Counted' /\ Simulated
      BY <3>2, <3>3, EndStep
    <3> QED BY <1>3, <3>4, <3>5 DEF IndInv
  <2>5. CASE w.what = "Answer" /\ window # "broken"
    <3>1. UNCHANGED <<page, fate, queues, requests, pass, numbers, got, results>>
      BY <2>1, <2>5 DEF TakeCurrent, Take, fate, queues, got
    <3>2. Encoding' = Encoding
      BY <1>6, <2>5 DEF Counts
    <3> QED BY <1>3, <3>1, <3>2, NothingShown
  <2>6. CASE w.what = "Message" /\ ~closing /\ window # "broken"
    <3>1. /\ pageGot' = Append(pageGot, w.message) /\ messageBytes' = messageBytes - w.message.size
          /\ webMessages' = webMessages - 1 /\ UNCHANGED <<closing, toWeb, toHost, luaGot>>
      BY <2>1, <2>6 DEF TakeCurrent
    <3>2. PICK m \in Messages : m = w.message
      BY <2>2, <2>6
    <3>3. Encoding = <<m>> \o Encoding' /\ IsOpen /\ IsOpen'
      BY <1>1, <1>6, <1>8, <2>6, <3>1, <3>2 DEF Counts, IsOpen, Alive
    <3>4. /\ Encoding \in Seq(Messages) /\ Encoding' \in Seq(Messages) /\ <<m>> \in Seq(Messages)
          /\ toWeb \in Seq(Messages) /\ pageGot \in Seq(Messages) /\ toHost \in Seq(Messages)
      <4>1. Encoding' \in Seq(Messages)
        BY <1>3, MessagesTyped DEF Encoding
      <4> QED BY <4>1, EncodingTyped DEF IndInv, Shapes
    <3>5. Len(Encoding) = 1 + Len(Encoding') /\ BytesIn(Encoding) = m.size + BytesIn(Encoding')
      <4>1. BytesIn(<<m>> \o Encoding') = BytesIn(<<m>>) + BytesIn(Encoding')
        BY <3>4, BytesConcat
      <4>2. BytesIn(<<m>>) = m.size /\ Len(<<m>>) = 1
        BY BytesOfOne
      <4> QED BY <3>3, <3>4, <4>1, <4>2, ConcatProperties
    <3>6. /\ m.size \in Nat /\ BytesIn(Encoding') \in Nat /\ Len(Encoding') \in Nat
          /\ BytesIn(toWeb) \in Nat /\ BytesIn(toHost) \in Nat /\ Len(toWeb) \in Nat
          /\ messageBytes = BytesIn(Encoding) + BytesIn(toWeb) + BytesIn(toHost)
          /\ webMessages = Len(Encoding) + Len(toWeb)
      BY <3>3, <3>4, BytesNat, MessageSize, OpenCounts
    <3>7. messageBytes' = BytesIn(Encoding') + BytesIn(toWeb) + BytesIn(toHost)
      <4>1. \A a, b, c, d \in Nat : ((d + a) + b + c) - d = a + b + c
        OBVIOUS
      <4>2. messageBytes = (m.size + BytesIn(Encoding')) + BytesIn(toWeb) + BytesIn(toHost)
        BY <3>5, <3>6
      <4>3. messageBytes' = messageBytes - m.size
        BY <3>1, <3>2
      <4> QED BY <3>6, <4>1, <4>2, <4>3
    <3>8. webMessages' = Len(Encoding') + Len(toWeb)
      BY <3>1, <3>5, <3>6
    <3>9. CountersExact'
      BY <3>1, <3>7, <3>8 DEF CountersExact
    <3>10. messageBytes' \in 0 .. ByteLimit /\ webMessages' \in 0 .. QueueLimit /\ BytesIn(toHost) <= messageBytes'
      <4>1. \A a, b, c, d, l \in Nat : (d + a) + b + c <= l => a + b + c \in 0 .. l /\ c <= a + b + c
        OBVIOUS
      <4>2. messageBytes <= ByteLimit /\ webMessages <= QueueLimit /\ ByteLimit \in Nat /\ QueueLimit \in Nat
        BY DEF IndInv, Counted, MessageLimits
      <4>3. \A a, b, l \in Nat : (1 + a) + b <= l => a + b \in 0 .. l
        OBVIOUS
      <4>4. messageBytes' \in 0 .. ByteLimit /\ BytesIn(toHost) <= messageBytes'
        BY <3>5, <3>6, <3>7, <4>1, <4>2
      <4>5. webMessages' \in 0 .. QueueLimit
        BY <3>5, <3>6, <3>8, <4>2, <4>3
      <4> QED BY <4>4, <4>5
    <3>11. Counted'
      BY <3>1, <3>9, <3>10 DEF IndInv, Counted
    <3>12. Shapes'
      BY <1>1, <1>3, <3>1, <3>2, <3>4 DEF IndInv, Shapes
    <3>13. ToPage = <<m>> \o ToPage' /\ ToPage' \in Seq(Messages)
      <4>1. ToPage = (<<m>> \o Encoding') \o toWeb /\ ToPage' = Encoding' \o toWeb
        BY <3>1, <3>3 DEF ToPage
      <4> QED BY <3>4, <4>1, ConcatAssociative, ConcatProperties
    <3>14. SubSeq(ToPage, 1, 1) = <<m>> /\ SubSeq(ToPage, 2, Len(ToPage)) = ToPage' /\ 1 \in 1 .. Len(ToPage)
      <4>1. PICK p \in Seq(Messages), q \in Seq(Messages) : p = ToPage /\ q = ToPage'
        BY <3>13, EncodingTyped DEF IndInv
      <4>2. p = <<m>> \o q
        BY <3>13, <4>1
      <4>3. SubSeq(p, 1, 1) = <<m>> /\ SubSeq(p, 2, Len(p)) = q /\ 1 \in 1 .. Len(p)
        BY <4>2, FirstOf
      <4> QED BY <4>1, <4>3
    <3>15. Channel!Deliver(1)
      <4>1. pageGot' = pageGot \o <<m>>
        BY <3>1, <3>2, <3>4, AppendIsConcat
      <4> QED BY <1>1, <3>1, <3>3, <3>14, <4>1 DEF Channel!Deliver, ToPage
    <3>16. Simulated
      BY <3>14, <3>15 DEF Simulated, Channel!Next, ToPage
    <3> QED BY <1>3, <3>11, <3>12, <3>16 DEF IndInv
  <2> QED BY <2>2, <2>3, <2>4, <2>5, <2>6
<1> QED BY <1>7, <1>8

LEMMA Regroup ==
  ASSUME NEW p \in Seq(Messages), NEW q \in Seq(Messages), NEW r \in Seq(Messages)
  PROVE  (p \o q) \o r = p \o (q \o r)
BY ConcatAssociative

LEMMA WorksJoined ==
  ASSUME NEW s \in Seq(Works), NEW t \in Seq(Works)
  PROVE  /\ s \o t \in Seq(Works) /\ Len(s \o t) = Len(s) + Len(t) /\ Len(s) \in Nat
         /\ \A i \in 1 .. Len(s) + Len(t) : (s \o t)[i] = IF i <= Len(s) THEN s[i] ELSE t[i - Len(s)]
BY ConcatProperties

\* One turn takes the head of the queue: some messages to the page, only while nothing
\* is being encoded, and the next ones to the worker.
LEMMA MovesStep ==
  ASSUME MessageLimits, IndInv, IsOpen, NEW inline \in Nat, NEW encoded \in Nat, inline + encoded <= Len(toWeb),
         Moves(inline, encoded), UNCHANGED <<page, window, requests, pass, numbers, results>>
  PROVE  IndInv' /\ Simulated
<1> DEFINE moved == Moved(toWeb, inline, encoded, generation)
           now == SubSeq(toWeb, 1, inline)
           later == SubSeq(toWeb, inline + 1, Len(toWeb))
           next == SubSeq(toWeb, inline + 1, inline + encoded)
           rest == SubSeq(toWeb, inline + encoded + 1, Len(toWeb))
<1>1. /\ UNCHANGED <<generation, ready, subscribed, window, requests, inReceive, dispatched, sent, posted,
                     lastSend, lastPost, closing, toHost, luaGot>>
      /\ (inline > 0 => outputPending = 0) /\ toWeb' = rest /\ worker' = worker \o moved
      /\ pageGot' = pageGot \o now
  BY DEF Moves, Moved, page, pass, numbers, results
<1>2. messageBytes' = messageBytes - BytesIn(now) /\ webMessages' = webMessages - inline
      /\ outputPending' = outputPending + encoded
  BY DEF Moves
<1>3. UNCHANGED <<IsOpen, Alive>> /\ Alive /\ IsOpen'
  BY <1>1 DEF IsOpen, Alive
<1>4. /\ toWeb \in Seq(Messages) /\ toHost \in Seq(Messages) /\ pageGot \in Seq(Messages) /\ worker \in Seq(Works)
      /\ outputPending \in Nat /\ generation \in Documents /\ generation \in Nat /\ Len(toWeb) \in Nat
      /\ Encoding \in Seq(Messages) /\ Encoding = MessagesIn(worker, generation)
  BY EncodingTyped DEF IndInv, Shapes, Documents, Encoding
<1>5. moved \in Seq(Works) /\ Len(moved) = encoded /\ MessagesIn(moved, generation) = next
  BY <1>4, MessagesMoved
<1>6. /\ toWeb = now \o later /\ now \in Seq(Messages) /\ later \in Seq(Messages)
      /\ Len(now) = inline /\ Len(later) = Len(toWeb) - inline
  <2>1. inline \in 0 .. Len(toWeb)
    BY <1>4
  <2> QED BY <1>4, <2>1, Split
<1>7. /\ later = next \o rest /\ next \in Seq(Messages) /\ rest \in Seq(Messages)
  <2>1. inline + 1 \in 1 .. Len(toWeb) + 1 /\ inline + encoded \in (inline + 1) - 1 .. Len(toWeb)
        /\ Len(toWeb) \in inline + encoded .. Len(toWeb)
    BY <1>4
  <2>2. later = next \o rest
    BY <1>4, <2>1, ConcatAdjacentSubSeq
  <2>3. \A i \in inline + 1 .. inline + encoded : toWeb[i] \in Messages
    BY <1>4
  <2>4. \A i \in inline + encoded + 1 .. Len(toWeb) : toWeb[i] \in Messages
    BY <1>4
  <2>5. inline + 1 \in Int /\ inline + encoded \in Int /\ inline + encoded + 1 \in Int /\ Len(toWeb) \in Int
    BY <1>4
  <2>6. next \in Seq(Messages)
    BY <2>3, <2>5, SubSeqProperties
  <2>7. rest \in Seq(Messages)
    BY <2>4, <2>5, SubSeqProperties
  <2> QED BY <2>2, <2>6, <2>7
<1> HIDE DEF moved, now, later, next, rest
<1>8. Encoding' = Encoding \o next /\ Encoding' \in Seq(Messages)
  <2>1. MessagesIn(worker \o moved, generation) = MessagesIn(worker, generation) \o MessagesIn(moved, generation)
    BY <1>4, <1>5, MessagesConcat
  <2>2. Encoding' = MessagesIn(worker \o moved, generation)
    BY <1>1 DEF Encoding
  <2> QED BY <1>4, <1>5, <1>7, <2>1, <2>2, ConcatProperties
<1>9. ToPage = Encoding \o (now \o later) /\ ToPage' = Encoding \o later
  <2>1. ToPage' = (Encoding \o next) \o rest
    BY <1>1, <1>3, <1>8 DEF ToPage
  <2>2. (Encoding \o next) \o rest = Encoding \o (next \o rest)
    <3>1. Encoding \in Seq(Messages) /\ next \in Seq(Messages) /\ rest \in Seq(Messages)
      BY <1>4, <1>7
    <3>2. PICK p \in Seq(Messages), q \in Seq(Messages), r \in Seq(Messages) : p = Encoding /\ q = next /\ r = rest
      BY <3>1
    <3>3. (p \o q) \o r = p \o (q \o r)
      BY Regroup
    <3> QED BY <3>2, <3>3
  <2> QED BY <1>6, <1>7, <2>1, <2>2 DEF ToPage
<1>10. inline > 0 => Encoding = <<>>
  BY <1>1, <1>3, NothingEncoded DEF IndInv
<1>11. /\ Len(toWeb) = inline + Len(later) /\ Len(later) = Len(next) + Len(rest)
       /\ Len(Encoding') = Len(Encoding) + Len(next)
       /\ Len(Encoding) \in Nat /\ Len(next) \in Nat /\ Len(rest) \in Nat /\ Len(later) \in Nat
  <2>1. Len(toWeb) = inline + Len(later)
    BY <1>4, <1>6
  <2>2. Len(later) = Len(next) + Len(rest)
    BY <1>7, ConcatProperties
  <2>3. Len(Encoding') = Len(Encoding) + Len(next)
    BY <1>4, <1>7, <1>8, ConcatProperties
  <2>4. Len(Encoding) \in Nat /\ Len(next) \in Nat /\ Len(rest) \in Nat /\ Len(later) \in Nat
    BY <1>4, <1>6, <1>7
  <2> QED BY <2>1, <2>2, <2>3, <2>4
<1>12. /\ BytesIn(toWeb) = BytesIn(now) + (BytesIn(next) + BytesIn(rest))
       /\ BytesIn(Encoding') = BytesIn(Encoding) + BytesIn(next)
       /\ BytesIn(now) \in Nat /\ BytesIn(next) \in Nat /\ BytesIn(rest) \in Nat
  <2>1. BytesIn(now \o later) = BytesIn(now) + BytesIn(later)
    BY <1>6, BytesConcat
  <2>2. BytesIn(next \o rest) = BytesIn(next) + BytesIn(rest)
    BY <1>7, BytesConcat
  <2>3. BytesIn(Encoding \o next) = BytesIn(Encoding) + BytesIn(next)
    BY <1>4, <1>7, BytesConcat
  <2>4. BytesIn(now) \in Nat /\ BytesIn(next) \in Nat /\ BytesIn(rest) \in Nat
    BY <1>6, <1>7, BytesNat
  <2> QED BY <1>6, <1>7, <1>8, <2>1, <2>2, <2>3, <2>4
<1>13. /\ BytesIn(Encoding) \in Nat /\ BytesIn(toHost) \in Nat
       /\ messageBytes = BytesIn(Encoding) + BytesIn(toWeb) + BytesIn(toHost)
       /\ webMessages = Len(Encoding) + Len(toWeb)
  BY OpenCounts
<1>14. webMessages' = Len(Encoding') + Len(rest) /\ webMessages' \in 0 .. QueueLimit
  <2>1. \A e, i, n, r \in Nat : (e + (i + (n + r))) - i = (e + n) + r
    OBVIOUS
  <2>2. webMessages' = (Len(Encoding) + (inline + (Len(next) + Len(rest)))) - inline
    BY <1>2, <1>11, <1>13
  <2>3. webMessages' = (Len(Encoding) + Len(next)) + Len(rest)
    BY <1>11, <2>1, <2>2
  <2>4. webMessages <= QueueLimit /\ QueueLimit \in Nat
    BY DEF IndInv, Counted, MessageLimits
  <2>5. \A e, i, n, r, l \in Nat : e + (i + (n + r)) <= l => (e + n) + r \in 0 .. l
    OBVIOUS
  <2>6. webMessages = Len(Encoding) + (inline + (Len(next) + Len(rest)))
    BY <1>11, <1>13
  <2>7. (Len(Encoding) + Len(next)) + Len(rest) \in 0 .. QueueLimit
    BY <1>11, <2>4, <2>5, <2>6
  <2> QED BY <1>11, <2>3, <2>7
<1>15. /\ messageBytes' = BytesIn(Encoding') + BytesIn(rest) + BytesIn(toHost)
       /\ messageBytes' \in 0 .. ByteLimit /\ BytesIn(toHost) <= messageBytes'
  <2>1. \A e, i, n, r, h \in Nat : (e + (i + (n + r)) + h) - i = (e + n) + r + h
    OBVIOUS
  <2>2. messageBytes = BytesIn(Encoding) + (BytesIn(now) + (BytesIn(next) + BytesIn(rest))) + BytesIn(toHost)
    BY <1>12, <1>13
  <2>3. messageBytes' = (BytesIn(Encoding) + BytesIn(next)) + BytesIn(rest) + BytesIn(toHost)
    <3>1. messageBytes' = messageBytes - BytesIn(now)
      BY <1>2
    <3>2. /\ BytesIn(Encoding) \in Nat /\ BytesIn(now) \in Nat /\ BytesIn(next) \in Nat
          /\ BytesIn(rest) \in Nat /\ BytesIn(toHost) \in Nat
      BY <1>12, <1>13
    <3> QED BY <2>1, <2>2, <3>1, <3>2
  <2>4. messageBytes <= ByteLimit /\ ByteLimit \in Nat
    BY DEF IndInv, Counted, MessageLimits
  <2>5. \A e, i, n, r, h, l \in Nat :
          e + (i + (n + r)) + h <= l => (e + n) + r + h \in 0 .. l /\ h <= (e + n) + r + h
    OBVIOUS
  <2>6. messageBytes' \in 0 .. ByteLimit /\ BytesIn(toHost) <= messageBytes'
    <3>1. /\ BytesIn(Encoding) \in Nat /\ BytesIn(now) \in Nat /\ BytesIn(next) \in Nat
          /\ BytesIn(rest) \in Nat /\ BytesIn(toHost) \in Nat
      BY <1>12, <1>13
    <3>2. BytesIn(Encoding) + (BytesIn(now) + (BytesIn(next) + BytesIn(rest))) + BytesIn(toHost) <= ByteLimit
      BY <2>2, <2>4
    <3> QED BY <2>3, <2>4, <2>5, <3>1, <3>2
  <2> QED BY <1>12, <2>3, <2>6
<1>16. Counted'
  <2>1. CountersExact'
    BY <1>1, <1>14, <1>15 DEF CountersExact
  <2> QED BY <1>1, <1>14, <1>15, <2>1 DEF IndInv, Counted
<1>17. /\ worker' \in Seq(Works) /\ Len(worker') = Len(worker) + encoded /\ Len(worker) \in Nat
       /\ \A i \in 1 .. Len(worker) + encoded : worker'[i] = IF i <= Len(worker) THEN worker[i] ELSE moved[i - Len(worker)]
  <2>1. worker \in Seq(Works) /\ moved \in Seq(Works) /\ Len(moved) = encoded /\ worker' = worker \o moved
    BY <1>1, <1>4, <1>5
  <2>2. PICK s \in Seq(Works), r \in Seq(Works) : s = worker /\ r = moved
    BY <2>1
  <2>3. /\ s \o r \in Seq(Works) /\ Len(s \o r) = Len(s) + Len(r) /\ Len(s) \in Nat
        /\ \A i \in 1 .. Len(s) + Len(r) : (s \o r)[i] = IF i <= Len(s) THEN s[i] ELSE r[i - Len(s)]
    BY WorksJoined
  <2> QED BY <2>1, <2>2, <2>3
<1>18. Shapes'
  <2>1. pageGot' \in Seq(Messages)
    BY <1>1, <1>4, <1>6, ConcatProperties
  <2>2. outputPending' \in Nat
    BY <1>2, <1>4
  <2> QED BY <1>1, <1>7, <1>17, <2>1, <2>2 DEF IndInv, Shapes
<1>19. Suffix'
  <2>1. \A i \in 1 .. encoded : moved[i].gen = generation
    BY DEF moved, Moved
  <2>2. /\ \A i \in 1 .. Len(worker) : /\ worker[i].gen <= generation
                                       /\ worker[i].gen = generation <=> Len(worker) - outputPending < i
        /\ outputPending <= Len(worker)
    BY <1>3, <1>4 DEF IndInv, Suffix
  <2>3. Len(worker') - outputPending' = Len(worker) - outputPending /\ outputPending' <= Len(worker')
    <3>1. \A n, k, e \in Nat : (n + e) - (k + e) = n - k
      OBVIOUS
    <3> QED BY <1>2, <1>4, <1>17, <2>2, <3>1
  <2>4. ASSUME NEW i \in 1 .. Len(worker) + encoded
        PROVE  worker'[i].gen <= generation /\ (worker'[i].gen = generation <=> Len(worker') - outputPending' < i)
    <3>1. CASE i <= Len(worker)
      <4>1. i \in 1 .. Len(worker) /\ worker'[i] = worker[i]
        BY <1>17, <3>1
      <4> QED BY <2>2, <2>3, <4>1
    <3>2. CASE ~(i <= Len(worker))
      <4>1. i - Len(worker) \in 1 .. encoded /\ Len(worker) - outputPending < i
        BY <1>4, <1>17, <3>2
      <4>2. worker'[i] = moved[i - Len(worker)]
        BY <1>17, <3>2
      <4>3. worker'[i].gen = generation
        BY <2>1, <4>1, <4>2
      <4> QED BY <1>4, <2>3, <4>1, <4>3
    <3> QED BY <3>1, <3>2
  <2>5. DOMAIN worker' = 1 .. Len(worker) + encoded
    BY <1>17
  <2> QED BY <1>1, <2>3, <2>4, <2>5 DEF Suffix
<1>20. CASE inline = 0
  <2>1. now = <<>>
    BY <1>6, <1>20, EmptySeq
  <2>2. now \o later = later /\ pageGot' = pageGot
    BY <1>1, <1>4, <1>6, <2>1, ConcatEmptySeq
  <2>3. Quiet
    BY <1>1, <1>3, <1>9, <2>2 DEF Quiet
  <2> QED BY <1>16, <1>18, <1>19, <2>3 DEF IndInv, Simulated
<1>21. CASE inline > 0
  <2>1. Encoding = <<>>
    BY <1>10, <1>21
  <2>2. ToPage = toWeb /\ ToPage' = later
    BY <1>4, <1>6, <1>9, <2>1, ConcatEmptySeq
  <2>3. inline \in 1 .. Len(ToPage)
    BY <1>4, <1>21, <2>2
  <2>4. Channel!Deliver(inline)
    BY <1>1, <1>3, <2>2 DEF Channel!Deliver, ToPage, now, later
  <2>5. Simulated
    BY <2>3, <2>4 DEF Simulated, Channel!Next, ToPage
  <2> QED BY <1>16, <1>18, <1>19, <2>5 DEF IndInv
<1> QED BY <1>20, <1>21

LEMMA FlushStep ==
  ASSUME MessageLimits, IndInv, Flush
  PROVE  IndInv' /\ Simulated
<1>1. IsOpen /\ UNCHANGED <<page, window, requests, pass, numbers, results>> /\ Len(toWeb) \in Nat
  BY DEF Flush, IndInv, Shapes
<1>2. CASE \E count \in 1 .. Len(toWeb) : \E inline \in 0 .. count : Moves(inline, count - inline)
  <2>1. PICK count \in 1 .. Len(toWeb) : \E inline \in 0 .. count : Moves(inline, count - inline)
    BY <1>2
  <2>2. PICK inline \in 0 .. count : Moves(inline, count - inline)
    BY <2>1
  <2>3. inline \in Nat /\ count - inline \in Nat /\ inline + (count - inline) <= Len(toWeb)
    BY <1>1
  <2> QED BY <1>1, <2>2, <2>3, MovesStep
<1>3. CASE Fails /\ UNCHANGED <<worker, outputPending>>
  <2>1. /\ UNCHANGED <<generation, ready, subscribed, window, requests, inReceive, dispatched, sent, posted, lastSend,
                       lastPost, worker, outputPending, Alive>>
        /\ closing' = TRUE /\ Clear /\ ~IsOpen'
        /\ toWeb' = <<>> /\ toHost' = <<>> /\ pageGot' = <<>> /\ luaGot' = <<>>
    BY <1>1, <1>3 DEF Fails, Clear, IsOpen, Alive, page, pass, numbers, results
  <2>2. Shapes'
    BY <2>1 DEF IndInv, Shapes
  <2>3. Counted' /\ Simulated
    BY <1>1, <2>1, EndStep
  <2>4. Suffix'
    BY <2>1, SuffixKept
  <2> QED BY <2>2, <2>3, <2>4 DEF IndInv
<1> QED BY <1>2, <1>3 DEF Flush

\* A navigation forgets the counted output along with the queues: the works that are
\* left in the worker are all of an older document.
LEMMA NavigateStep ==
  ASSUME MessageLimits, IndInv, Navigate
  PROVE  IndInv' /\ Simulated
<1>1. /\ UNCHANGED <<closing, window, worker, inReceive, dispatched, sent, posted, lastSend, lastPost>>
      /\ generation' = generation + 1 /\ generation < MaxNavigations /\ ready' = FALSE /\ subscribed' = FALSE
      /\ requests' = <<>> /\ outputPending' = 0
      /\ Clear /\ toWeb' = <<>> /\ toHost' = <<>> /\ pageGot' = <<>> /\ luaGot' = <<>> /\ UNCHANGED results
  BY DEF Navigate, Clear, fate, pass, numbers, results
<1>2. IsOpen' = IsOpen
  BY <1>1 DEF IsOpen, Alive
<1>3. generation \in Nat \ {0} /\ generation' \in Documents /\ worker \in Seq(Works)
  BY <1>1 DEF IndInv, Shapes, Documents, MessageLimits
<1>4. \A i \in 1 .. Len(worker) : worker[i].gen <= generation /\ worker[i].gen \in Nat
  <2>1. \A i \in 1 .. Len(worker) : worker[i].gen <= generation
    BY <1>3 DEF IndInv, Suffix
  <2>2. \A i \in 1 .. Len(worker) : worker[i] \in Works
    BY <1>3
  <2>3. \A i \in 1 .. Len(worker) : worker[i].gen \in Nat
    BY <2>2 DEF Works, Work, Documents
  <2> QED BY <2>1, <2>3
<1>5. \A i \in 1 .. Len(worker) : worker[i].gen <= generation' /\ worker[i].gen # generation'
  BY <1>1, <1>3, <1>4
<1>6. Encoding' = <<>>
  <2>1. \A i \in 1 .. Len(worker) : ~Counts(worker[i], generation')
    BY <1>5 DEF Counts
  <2>2. PICK next : next = generation'
    OBVIOUS
  <2>3. MessagesIn(worker, next) = <<>>
    BY <1>3, <2>1, <2>2, MessagesOfNone
  <2> QED BY <1>1, <2>2, <2>3 DEF Encoding
<1>7. Shapes'
  <2>1. requests' \in Seq(Messages) /\ toWeb' \in Seq(Messages) /\ toHost' \in Seq(Messages)
        /\ pageGot' \in Seq(Messages) /\ luaGot' \in Seq(Messages) /\ outputPending' \in Nat
    BY <1>1
  <2> QED BY <1>1, <1>3, <2>1 DEF IndInv, Shapes
<1>8. Suffix'
  <2>1. Len(worker) \in Nat /\ \A i \in 1 .. Len(worker) : ~(Len(worker) - 0 < i)
    BY <1>3
  <2>2. DOMAIN worker = 1 .. Len(worker)
    BY <1>3
  <2> QED BY <1>1, <1>5, <2>1, <2>2 DEF Suffix
<1>9. Counted' /\ Channel!Discard
  BY <1>1, <1>2, <1>6, ClearStep
<1> QED BY <1>7, <1>8, <1>9 DEF IndInv, Simulated, Channel!Next

LEMMA CloseStep ==
  ASSUME MessageLimits, IndInv, Close
  PROVE  IndInv' /\ Simulated
<1>1. /\ UNCHANGED <<generation, ready, subscribed, window, outputPending, worker, requests, inReceive, dispatched,
                     sent, posted, lastSend, lastPost, Alive>>
      /\ closing' = TRUE /\ Clear /\ ~IsOpen' /\ UNCHANGED results
      /\ toWeb' = <<>> /\ toHost' = <<>> /\ pageGot' = <<>> /\ luaGot' = <<>>
  BY DEF Close, Fails, Clear, IsOpen, Alive, page, pass, numbers, results
<1>2. Shapes'
  BY <1>1 DEF IndInv, Shapes
<1> QED BY <1>1, <1>2, EndStep, SuffixKept DEF IndInv

LEMMA TeardownStep ==
  ASSUME MessageLimits, IndInv, Teardown
  PROVE  IndInv' /\ Simulated
<1>1. /\ UNCHANGED <<generation, ready, subscribed, closing, outputPending, worker, requests, inReceive, dispatched,
                     sent, posted, lastSend, lastPost>>
      /\ window' = "erased" /\ Clear /\ ~Alive' /\ ~IsOpen' /\ UNCHANGED results
      /\ toWeb' = <<>> /\ toHost' = <<>> /\ pageGot' = <<>> /\ luaGot' = <<>>
  BY DEF Teardown, Clear, IsOpen, Alive, page, pass, numbers, results
<1>2. Shapes'
  BY <1>1 DEF IndInv, Shapes
<1> QED BY <1>1, <1>2, EndStep, SuffixKept DEF IndInv

LEMMA BreakStep ==
  ASSUME IndInv, Break
  PROVE  IndInv' /\ Simulated
<1>1. /\ UNCHANGED <<generation, ready, subscribed, closing, toWeb, toHost, messageBytes, webMessages, outputPending,
                     worker, requests, inReceive, dispatched, sent, posted, pageGot, luaGot, lastSend, lastPost>>
      /\ window = "open" /\ window' = "broken"
  BY DEF Break, page, queues, pass, numbers, got, results
<1>2. UNCHANGED <<IsOpen, Alive>>
  BY <1>1 DEF IsOpen, Alive
<1>3. Suffix' /\ Encoding' = Encoding
  BY <1>1, <1>2, SuffixKept
<1>4. Shapes'
  BY <1>1 DEF IndInv, Shapes
<1>5. Counted'
  BY <1>1, <1>2, <1>3 DEF IndInv, Counted, CountersExact
<1> QED BY <1>1, <1>2, <1>3, <1>4, <1>5 DEF IndInv, Simulated, Quiet, ToPage

LEMMA VanishStep ==
  ASSUME IndInv, Vanish
  PROVE  IndInv' /\ Simulated
<1>1. /\ UNCHANGED <<generation, ready, subscribed, closing, toWeb, toHost, messageBytes, webMessages, outputPending,
                     worker, requests, inReceive, dispatched, sent, posted, pageGot, luaGot, lastSend, lastPost>>
      /\ window' = "gone"
  BY DEF Vanish, page, queues, pass, numbers, got, results
<1>2. IsOpen' = FALSE /\ ~Alive'
  BY <1>1 DEF IsOpen, Alive
<1>3. Suffix'
  BY <1>1, <1>2, SuffixKept
<1>4. Shapes'
  BY <1>1 DEF IndInv, Shapes
<1>5. Counted'
  BY <1>1, <1>2 DEF IndInv, Counted, CountersExact
<1>6. Channel!Gone
  BY <1>1, <1>2 DEF Channel!Gone
<1> QED BY <1>3, <1>4, <1>5, <1>6 DEF IndInv, Simulated, Channel!Next

LEMMA NextInv == ASSUME MessageLimits, IndInv, [Next]_vars PROVE IndInv' /\ Simulated
<1>1. ASSUME NEW m \in Messages, PagePost(m) PROVE IndInv' /\ Simulated
  <2>1. /\ UNCHANGED <<generation, fate, queues, outputPending, worker, got, results, ready, subscribed, inReceive, dispatched, sent>>
        /\ posted < MaxPosts /\ posted' = posted + 1 /\ requests' = Append(requests, m)
    BY <1>1 DEF PagePost, page, pass
  <2>2. requests' \in Seq(Messages) /\ posted' \in 0 .. MaxPosts
    BY <2>1, AppendProperties DEF IndInv, Shapes, MessageLimits
  <2> QED BY <2>1, <2>2, KeepStep DEF IndInv, Shapes, Simulated
<1>2. CASE ReceiveQueued
  BY <1>2, PopStep DEF ReceiveQueued, pass, IndInv, Shapes
<1>3. CASE ReceiveReturn
  BY <1>3, PopStep DEF ReceiveReturn, IndInv, Shapes
<1>4. CASE ReceivePump
  BY <1>4, KeepStep DEF ReceivePump, page, numbers, IndInv, Shapes, Simulated
<1>5. CASE NewPass
  BY <1>5, KeepStep DEF NewPass, page, numbers, IndInv, Shapes, Simulated
<1>6. CASE Greet
  BY <1>6, KeepStep DEF Greet, pass, numbers, IndInv, Shapes, Simulated
<1>7. CASE Subscribe
  BY <1>7, KeepStep DEF Subscribe, pass, numbers, IndInv, Shapes, Simulated
<1>8. CASE UNCHANGED vars
  BY <1>8, KeepStep DEF vars, page, pass, numbers, IndInv, Shapes, Simulated
<1> QED BY <1>1, <1>2, <1>3, <1>4, <1>5, <1>6, <1>7, <1>8, SendStep, DispatchStep, TakeStep, FlushStep,
           NavigateStep, CloseStep, BreakStep, VanishStep, TeardownStep DEF Next

-----------------------------------------------------------------------------
(* The theorems, of the constants within MessageLimits.                     *)

\* The variables keep their types: the two unsigned counters never pass below zero or
\* above their limits, and while the window is open they count what is queued or being
\* encoded, of this document only (enqueue_message, Runtime::receive, clear_messages).
THEOREM MessagesInType ==
  ASSUME MessageLimits
  PROVE  Spec => []TypeOK
<1>1. IndInv => TypeOK
  <2>1. SUFFICES ASSUME IndInv PROVE TypeOK
    OBVIOUS
  <2>2. worker \in Seq(Work)
    <3>1. worker \in Seq(Works)
      BY <2>1 DEF IndInv, Shapes
    <3>2. \A w \in Works : w \in Work
      BY DEF Works
    <3>3. Works \subseteq Work
      BY <3>2
    <3> QED BY <3>1, <3>3, SeqMonotonic
  <2> QED BY <2>1, <2>2 DEF IndInv, Shapes, Counted, TypeOK
<1>2. Init => IndInv
  BY InitInv
<1>3. IndInv /\ [Next]_vars => IndInv'
  BY NextInv
<1> QED BY <1>1, <1>2, <1>3, PTL DEF Spec

\* Every behaviour of the queues, the worker and the document is one of the bounded
\* channel: each direction first in first out, nothing lost, repeated or refused while
\* there is room, and nothing of an old document handed over.
THEOREM MessagesImplementChannel ==
  ASSUME MessageLimits
  PROVE  Spec => ImplementsChannel
<1>1. Init => IndInv /\ Channel!Init
  BY InitInv
<1>2. IndInv /\ [Next]_vars => IndInv' /\ [Channel!Next]_(Channel!channel)
  <2>1. SUFFICES ASSUME IndInv, [Next]_vars PROVE IndInv' /\ [Channel!Next]_(Channel!channel)
    OBVIOUS
  <2>2. IndInv' /\ Simulated
    BY <2>1, NextInv
  <2> QED BY <2>2 DEF Simulated, Quiet, ToPage, Channel!channel
<1> QED BY <1>1, <1>2, PTL DEF Spec, ImplementsChannel, Channel!Spec
=============================================================================
