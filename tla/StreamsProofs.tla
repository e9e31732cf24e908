--------------------------- MODULE StreamsProofs ---------------------------
(***************************************************************************)
(* Proofs about Streams.tla for every value of its constants, and about    *)
(* the keys of pages (KeyRouting.tla) and external clients                 *)
(* (ExternalClients.tla), components of Parts.tla.                         *)
(*                                                                         *)
(* The properties become inductive with six more conjuncts.  "HubWell"     *)
(* relates what the hub's table shows publishers to what it owns;          *)
(* "MainWell" says what the main thread is in the middle of; "CountWell"   *)
(* that the reader count of a place is the number of producers inside it,  *)
(* which is what close() relies on; "ProducersWell" that a producer which  *)
(* compares handles holds the buffer the hub owns; "LockWell" that the     *)
(* writing flag of a ring has one holder; "ReaderWell" that the transport  *)
(* works on streams of its pass, at slots that exist.  "SlotWell" is       *)
(* SlotExclusive without its cardinality.                                  *)
(*                                                                         *)
(* "KeptInv" then says of every stream where its packets are: which slots  *)
(* of an audio or MIDI ring hold the packets that are not taken yet, and   *)
(* that the newest packet of another kind is in the slot before write_     *)
(* until the transport has it, where no producer can claim it as a ring    *)
(* has two slots at least.                                                 *)
(*                                                                         *)
(* "KeyInv" follows every press: on its way to the host, in the queue of   *)
(* the tick or down in REAPER, it is in the company of its end, or of a    *)
(* page that still owns it and will send that end.                         *)
(*                                                                         *)
(* "ClientInv" says of every connection that lives where each number in    *)
(* use is: in one request, with one running call or in one response; and   *)
(* that what it was authenticated with is the token in force.              *)
(***************************************************************************)
EXTENDS Parts, Streams, FiniteSetTheorems, SequenceTheorems, TLAPS

ReaderType == [at : {"none", "pass", "next", "claim", "copy"}, buffers : SUBSET Handles,
               todo : SUBSET Handles, buffer : Handles \cup {None}, index : 0 .. Capacity,
               newest : Nat, count : 0 .. PassLimit]

LEMMA InitTyped == Init => TypeOK
<1> SUFFICES ASSUME Init PROVE TypeOK
  OBVIOUS
<1>1. 0 \in Indexes
  BY StreamsAssumption DEF Indexes
<1>2. 0 \in 0 .. Cardinality(Producers)
  BY StreamsAssumption, FS_CardinalityType
<1>3. hub \in [1 .. Places -> Slots]
  BY <1>2 DEF Init, Slots, None
<1>4. taken \in [Handles -> Seq(Nat)] /\ place \in [Handles -> 1 .. Places]
  BY StreamsAssumption DEF Init
<1>5. cursor \in [Handles -> [write : Indexes, read : Indexes, order : Nat, seen : Nat]]
  BY <1>1 DEF Init
<1>6. reader \in ReaderType
  BY StreamsAssumption DEF Init, None, ReaderType
<1>7. serial \in 0 .. MaxStreams /\ attempts \in 0 .. MaxPackets
  BY StreamsAssumption DEF Init
<1> QED BY <1>3, <1>4, <1>5, <1>6, <1>7 DEF ReaderType, Init, TypeOK, Kinds, Stations, Empty, None

\* Streams that exist have handles of the model's bound.
LEMMA Known == TypeOK => 1 .. serial \subseteq Handles
<1> SUFFICES ASSUME TypeOK PROVE 1 .. serial \subseteq Handles
  OBVIOUS
<1>1. serial \in 0 .. MaxStreams
  BY DEF TypeOK
<1> QED BY <1>1, StreamsAssumption DEF Handles

\* What the main thread is in the middle of concerns a stream the hub owns and
\* publishers do not find.
MainWell ==
  main.at # "idle" =>
    /\ main.stream \in 1 .. serial
    /\ hub[place[main.stream]].owned = main.stream /\ hub[place[main.stream]].buffer = None

LEMMA MainTyped ==
  ASSUME TypeOK, MainWell,
         \/ \E k \in Kinds, i \in 1 .. Places : Create(k, i)
         \/ \E h \in Handles : Close(h) \/ Attach(h) \/ Detach(h)
         \/ Created \/ Closed
  PROVE  TypeOK'
<1>1. ASSUME NEW k \in Kinds, NEW i \in 1 .. Places, Create(k, i) PROVE TypeOK'
  <2>0. serial \in 0 .. MaxStreams /\ serial < MaxStreams
    BY <1>1 DEF Create, TypeOK
  <2>1. serial + 1 \in Handles /\ serial + 1 \in 0 .. MaxStreams
    BY <2>0, StreamsAssumption DEF Handles
  <2>2. hub' \in [1 .. Places -> Slots]
    <3>1. hub[i] \in Slots /\ hub \in [1 .. Places -> Slots]
      BY DEF TypeOK
    <3>2. [hub[i] EXCEPT !.owned = serial + 1, !.handle = serial + 1] \in Slots
      BY <3>1, <2>1 DEF Slots
    <3>3. hub' = [hub EXCEPT ![i] = [hub[i] EXCEPT !.owned = serial + 1, !.handle = serial + 1]]
      BY <1>1, <3>1 DEF Create, Slots
    <3> QED BY <3>1, <3>2, <3>3
  <2>3. counted' \subseteq Handles
    BY <1>1, <2>1 DEF Create, TypeOK, Reaped
  <2>4. kind' \in [Handles -> Kinds] /\ place' \in [Handles -> 1 .. Places] /\ serial' \in 0 .. MaxStreams
    BY <1>1, <2>1 DEF Create, TypeOK
  <2>5. main' \in [at : {"idle", "create", "close"}, stream : Handles \cup {None}]
    BY <1>1, <2>1 DEF Create
  <2> QED BY <1>1, <2>2, <2>3, <2>4, <2>5 DEF Create, TypeOK, ringVars
<1>2. ASSUME NEW h \in Handles, Close(h) PROVE TypeOK'
  <2>1. hub' \in [1 .. Places -> Slots]
    <3>0. place[h] \in 1 .. Places
      BY <1>2 DEF TypeOK, Close
    <3>1. hub[place[h]] \in Slots /\ hub \in [1 .. Places -> Slots]
      BY <3>0 DEF TypeOK
    <3>2. [hub[place[h]] EXCEPT !.buffer = None] \in Slots
      BY <3>0, <3>1 DEF Slots, None
    <3>3. hub' = [hub EXCEPT ![place[h]] = [hub[place[h]] EXCEPT !.buffer = None]]
      BY <1>2, <3>0, <3>1 DEF Close, Slots
    <3> QED BY <3>0, <3>1, <3>2, <3>3
  <2> QED BY <1>2, <2>1 DEF Close, TypeOK, ringVars
<1>3. ASSUME NEW h \in Handles, Attach(h) PROVE TypeOK'
  <2>1. held' \subseteq Handles
    BY <1>3 DEF Attach, TypeOK
  <2>2. reader' \in ReaderType
    BY <1>3 DEF Attach, TypeOK, ReaderType
  <2> QED BY <1>3, <2>1, <2>2 DEF Attach, TypeOK, ringVars, hubVars, ReaderType
<1>4. ASSUME NEW h \in Handles, Detach(h) PROVE TypeOK'
  BY <1>4 DEF Detach, TypeOK, ringVars, hubVars
<1>5. CASE Created
  <2>0. main.stream \in Handles
    BY <1>5, Known DEF Created, MainWell
  <2>1. hub' \in [1 .. Places -> Slots]
    <3>0. place[main.stream] \in 1 .. Places
      BY <1>5, <2>0 DEF TypeOK, Created
    <3>1. hub[place[main.stream]] \in Slots /\ hub \in [1 .. Places -> Slots]
      BY <3>0 DEF TypeOK
    <3>2. [hub[place[main.stream]] EXCEPT !.buffer = main.stream] \in Slots
      BY <2>0, <3>0, <3>1 DEF Slots
    <3>3. hub' = [hub EXCEPT ![place[main.stream]] = [hub[place[main.stream]] EXCEPT !.buffer = main.stream]]
      BY <1>5, <2>0, <3>0, <3>1 DEF Created, Slots
    <3> QED BY <3>0, <3>1, <3>2, <3>3
  <2> QED BY <1>5, <2>1 DEF Created, TypeOK, ringVars
<1>6. CASE Closed
  <2>0. main.stream \in Handles
    BY <1>6, Known DEF Closed, MainWell
  <2>1. hub' \in [1 .. Places -> Slots]
    <3>0. place[main.stream] \in 1 .. Places
      BY <1>6, <2>0 DEF TypeOK, Closed
    <3>1. hub[place[main.stream]] \in Slots /\ hub \in [1 .. Places -> Slots]
      BY <3>0 DEF TypeOK
    <3>2. [hub[place[main.stream]] EXCEPT !.owned = None] \in Slots
      BY <3>0, <3>1 DEF Slots, None
    <3>3. hub' = [hub EXCEPT ![place[main.stream]] = [hub[place[main.stream]] EXCEPT !.owned = None]]
      BY <1>6, <2>0, <3>0, <3>1 DEF Closed, Slots
    <3> QED BY <3>0, <3>1, <3>2, <3>3
  <2>2. counted' \subseteq Handles
    BY <1>6 DEF Closed, TypeOK, Reaped
  <2> QED BY <1>6, <2>1, <2>2 DEF Closed, TypeOK, ringVars
<1> QED BY <1>1, <1>2, <1>3, <1>4, <1>5, <1>6

-----------------------------------------------------------------------------
(* Producers.                                                               *)

\* A producer has the handle of a stream that exists, and a buffer it found
\* together with its handle's place is the one the hub owns there.
ProducersWell ==
  \A p \in Producers :
    /\ ~At(p, "idle") => producer[p].handle \in 1 .. serial
    /\ At(p, "check") /\ producer[p].buffer # None =>
         hub[place[producer[p].handle]].owned = producer[p].buffer

\* Producers between the two updates of the reader count of place i.
Users(i) == {p \in Producers : ~At(p, "idle") /\ place[producer[p].handle] = i}

\* The reader count of a place is the number of producers inside it.
CountWell == \A i \in 1 .. Places : hub[i].readers = Cardinality(Users(i))

LEMMA UsersCount ==
  ASSUME NEW U, U \subseteq Producers
  PROVE  IsFiniteSet(U) /\ Cardinality(U) \in 0 .. Cardinality(Producers)
BY StreamsAssumption, FS_Subset, FS_CardinalityType

\* A place with a producer inside has a count above zero.
LEMMA UsedPlace ==
  ASSUME TypeOK, CountWell, ProducersWell, NEW p \in Producers, ~At(p, "idle")
  PROVE  /\ producer[p].handle \in 1 .. serial /\ producer[p].handle \in Handles
         /\ place[producer[p].handle] \in 1 .. Places
         /\ hub[place[producer[p].handle]].readers # 0
<1> DEFINE i == place[producer[p].handle]
<1>1. producer[p].handle \in 1 .. serial /\ producer[p].handle \in Handles
  BY Known DEF ProducersWell
<1>2. i \in 1 .. Places
  BY <1>1 DEF TypeOK
<1>3. p \in Users(i) /\ Users(i) \subseteq Producers
  BY DEF Users
<1>4. Cardinality(Users(i)) # 0
  BY <1>3, UsersCount, FS_EmptySet
<1> QED BY <1>1, <1>2, <1>4 DEF CountWell

LEMMA EnterSteps ==
  ASSUME TypeOK, CountWell, ProducersWell, NEW p \in Producers, NEW h \in Handles, Enter(p, h)
  PROVE  TypeOK' /\ CountWell'
<1> DEFINE one == [at |-> "load", handle |-> h, buffer |-> None]
<1>0. PICK i \in 1 .. Places : i = place[h]
  BY DEF TypeOK
<1>1. h \in 1 .. serial
  BY DEF Enter
<1>2. producer' = [producer EXCEPT ![p] = one] /\ UNCHANGED place
  BY DEF Enter
<1>3. producer' \in [Producers -> [at : Stations, handle : Handles \cup {None}, buffer : Handles \cup {None}]]
  BY <1>2 DEF TypeOK, Stations
<1>4. At(p, "idle") /\ p \notin Users(i)
  BY <1>0 DEF Enter, Users
<1>5. Users(i)' = Users(i) \cup {p}
  BY <1>0, <1>1, <1>2, <1>4 DEF Users, At, TypeOK
<1>6. \A j \in 1 .. Places : j # i => Users(j)' = Users(j)
  BY <1>0, <1>1, <1>2, <1>4 DEF Users, At, TypeOK
<1>7. Cardinality(Users(i)') = Cardinality(Users(i)) + 1
  <2>1. IsFiniteSet(Users(i))
    BY UsersCount DEF Users
  <2> QED BY <2>1, <1>4, <1>5, FS_AddElement
<1>8. hub[i] \in Slots /\ hub \in [1 .. Places -> Slots] /\ hub[i].readers = Cardinality(Users(i))
  BY DEF TypeOK, CountWell
<1>9. hub' = [hub EXCEPT ![i] = [hub[i] EXCEPT !.readers = @ + 1]]
  BY <1>0, <1>1, <1>8 DEF Enter, Slots
<1>10. hub[i].readers + 1 \in 0 .. Cardinality(Producers)
  <2>1. Users(i)' \subseteq Producers
    BY DEF Users
  <2> QED BY <2>1, <1>7, <1>8, UsersCount
<1>11. hub' \in [1 .. Places -> Slots]
  BY <1>1, <1>8, <1>9, <1>10 DEF Slots
<1>12. CountWell'
  <2> SUFFICES ASSUME NEW j \in 1 .. Places PROVE hub'[j].readers = Cardinality(Users(j)')
    BY DEF CountWell
  <2>1. CASE j = i
    BY <2>1, <1>1, <1>7, <1>8, <1>9 DEF Slots
  <2>2. CASE j # i
    <3>1. hub'[j] = hub[j] /\ Users(j)' = Users(j)
      BY <2>2, <1>1, <1>6, <1>8, <1>9
    <3>2. hub[j].readers = Cardinality(Users(j))
      BY DEF CountWell
    <3> QED BY <3>1, <3>2
  <2> QED BY <2>1, <2>2
<1>13. attempts' \in 0 .. MaxPackets
  <2>1. attempts \in 0 .. MaxPackets /\ attempts < MaxPackets /\ attempts' = attempts + 1
    BY DEF Enter, TypeOK
  <2> QED BY <2>1, StreamsAssumption
<1> QED BY <1>3, <1>11, <1>12, <1>13 DEF Enter, TypeOK, ringVars

LEMMA LeaveSteps ==
  ASSUME TypeOK, CountWell, ProducersWell, NEW p \in Producers, Leave(p)
  PROVE  TypeOK' /\ CountWell'
<1> DEFINE one == [at |-> "idle", handle |-> None, buffer |-> None]
<1>1. ~At(p, "idle")
  BY DEF Leave, At
<1>0. PICK i \in 1 .. Places : i = place[producer[p].handle]
  BY <1>1, UsedPlace
<1>2. producer' = [producer EXCEPT ![p] = one] /\ UNCHANGED place
  BY DEF Leave
<1>3. producer' \in [Producers -> [at : Stations, handle : Handles \cup {None}, buffer : Handles \cup {None}]]
  BY <1>2 DEF TypeOK, Stations
<1>4. p \in Users(i)
  BY <1>0, <1>1 DEF Users
<1>5. Users(i)' = Users(i) \ {p}
  <2>1. producer'[p].at = "idle" /\ \A q \in Producers : q # p => producer'[q] = producer[q]
    BY <1>2 DEF TypeOK
  <2>2. \A q \in Producers : q \in Users(i)' <=> q \in Users(i) /\ q # p
    BY <2>1, <1>0, <1>1, <1>2 DEF Users, At
  <2>3. Users(i)' \subseteq Producers /\ Users(i) \subseteq Producers
    BY DEF Users
  <2> QED BY <2>2, <2>3
<1>6. \A j \in 1 .. Places : j # i => Users(j)' = Users(j)
  BY <1>0, <1>1, <1>2, <1>4 DEF Users, At, TypeOK
<1>7. /\ Cardinality(Users(i)') = Cardinality(Users(i)) - 1
      /\ Cardinality(Users(i)) \in 0 .. Cardinality(Producers) /\ Cardinality(Users(i)) # 0
  <2>1. IsFiniteSet(Users(i)) /\ Cardinality(Users(i)) \in 0 .. Cardinality(Producers)
    BY UsersCount DEF Users
  <2>2. Cardinality(Users(i)) # 0
    BY <2>1, <1>4, FS_EmptySet
  <2> QED BY <2>1, <2>2, <1>4, <1>5, FS_RemoveElement
<1>8. hub[i] \in Slots /\ hub \in [1 .. Places -> Slots] /\ hub[i].readers = Cardinality(Users(i))
  BY DEF TypeOK, CountWell
<1>9. hub' = [hub EXCEPT ![i] = [hub[i] EXCEPT !.readers = @ - 1]]
  BY <1>0, <1>1, <1>8 DEF Leave, Slots
<1>10. hub[i].readers - 1 \in 0 .. Cardinality(Producers)
  <2>1. Cardinality(Producers) \in Nat
    BY StreamsAssumption, FS_CardinalityType
  <2> QED BY <2>1, <1>7, <1>8
<1>11. hub' \in [1 .. Places -> Slots]
  BY <1>1, <1>8, <1>9, <1>10 DEF Slots
<1>12. CountWell'
  <2> SUFFICES ASSUME NEW j \in 1 .. Places PROVE hub'[j].readers = Cardinality(Users(j)')
    BY DEF CountWell
  <2>1. CASE j = i
    BY <2>1, <1>1, <1>7, <1>8, <1>9 DEF Slots
  <2>2. CASE j # i
    <3>1. hub'[j] = hub[j] /\ Users(j)' = Users(j)
      BY <2>2, <1>1, <1>6, <1>8, <1>9
    <3>2. hub[j].readers = Cardinality(Users(j))
      BY DEF CountWell
    <3> QED BY <3>1, <3>2
  <2> QED BY <2>1, <2>2
<1> QED BY <1>3, <1>11, <1>12 DEF Leave, TypeOK, ringVars

\* A step that moves a producer inside publish() leaves every place's users.
LEMMA UsersKept ==
  ASSUME TypeOK, CountWell, NEW p \in Producers, ~At(p, "idle"), ~At(p, "idle")',
         producer'[p].handle = producer[p].handle,
         \A q \in Producers : q # p => producer'[q] = producer[q],
         UNCHANGED <<hub, place>>
  PROVE  CountWell'
<1> SUFFICES ASSUME NEW i \in 1 .. Places PROVE hub[i].readers = Cardinality(Users(i)')
  BY DEF CountWell
<1>1. \A q \in Producers : q \in Users(i)' <=> q \in Users(i)
  BY DEF Users, At
<1>2. Users(i)' \subseteq Producers /\ Users(i) \subseteq Producers
  BY DEF Users
<1>3. Users(i)' = Users(i)
  BY <1>1, <1>2
<1> QED BY <1>3 DEF CountWell

LEMMA ExchangeTyped ==
  ASSUME TypeOK, NEW h \in Handles, NEW i \in Indexes, NEW to \in 0 .. 3
  PROVE  Exchanged(h, i, to) \in [Handles -> [Indexes -> [state : 0 .. 3, order : Nat]]]
<1>1. ring[h] \in [Indexes -> [state : 0 .. 3, order : Nat]] /\ ring[h][i] \in [state : 0 .. 3, order : Nat]
  BY DEF TypeOK
<1>2. [ring[h][i] EXCEPT !.state = to] \in [state : 0 .. 3, order : Nat]
  BY <1>1
<1>3. [ring[h] EXCEPT ![i].state = to] \in [Indexes -> [state : 0 .. 3, order : Nat]]
  BY <1>1, <1>2
<1> QED BY <1>3 DEF TypeOK, Exchanged

LEMMA GoTyped ==
  ASSUME TypeOK, NEW p \in Producers, NEW s \in Stations, Go(p, s)
  PROVE  /\ producer' \in [Producers -> [at : Stations, handle : Handles \cup {None}, buffer : Handles \cup {None}]]
         /\ producer'[p] = [producer[p] EXCEPT !.at = s]
         /\ \A q \in Producers : q # p => producer'[q] = producer[q]
BY DEF Go, TypeOK

LEMMA InsideBuffer ==
  ASSUME TypeOK, OwnStream, NEW p \in Producers, Inside(p)
  PROVE  /\ producer[p].buffer \in Handles /\ producer[p].buffer \in 1 .. serial
         /\ cursor[producer[p].buffer].write \in Indexes
<1>1. producer[p].buffer \in 1 .. serial
  BY DEF OwnStream, Owned
<1>2. producer[p].buffer \in Handles
  BY <1>1, Known
<1> QED BY <1>1, <1>2 DEF TypeOK

LEMMA LoadSteps ==
  ASSUME TypeOK, CountWell, ProducersWell, NEW p \in Producers, Load(p)
  PROVE  TypeOK' /\ CountWell'
<1>1. ~At(p, "idle")
  BY DEF Load, At
<1>2. hub[place[producer[p].handle]].buffer \in Handles \cup {None}
  BY <1>1, UsedPlace DEF TypeOK, Slots
<1>3. producer' = [producer EXCEPT ![p] = [producer[p] EXCEPT !.at = "check", !.buffer = hub[place[producer[p].handle]].buffer]]
  BY DEF Load, TypeOK
<1>4. producer' \in [Producers -> [at : Stations, handle : Handles \cup {None}, buffer : Handles \cup {None}]]
  <2>1. producer[p] \in [at : Stations, handle : Handles \cup {None}, buffer : Handles \cup {None}]
    BY DEF TypeOK
  <2>2. [producer[p] EXCEPT !.at = "check", !.buffer = hub[place[producer[p].handle]].buffer]
           \in [at : Stations, handle : Handles \cup {None}, buffer : Handles \cup {None}]
    BY <1>2, <2>1 DEF Stations
  <2> QED BY <1>3, <2>2 DEF TypeOK
<1>5. TypeOK'
  BY <1>4 DEF Load, TypeOK, hubVars, ringVars
<1>6. CountWell'
  <2>1. ~At(p, "idle")' /\ producer'[p].handle = producer[p].handle
    BY <1>3 DEF At, TypeOK
  <2>2. \A q \in Producers : q # p => producer'[q] = producer[q]
    BY <1>3 DEF TypeOK
  <2> QED BY <1>1, <2>1, <2>2, UsersKept DEF Load, hubVars
<1> QED BY <1>5, <1>6

LEMMA InsideSteps ==
  ASSUME TypeOK, CountWell, ProducersWell, OwnStream, NEW p \in Producers,
         \/ Check(p) \/ CheckClosed(p) \/ Lock(p) \/ Claim(p)
         \/ Steal(p) \/ Store(p) \/ Unlock(p)
  PROVE  TypeOK' /\ CountWell'
<1> DEFINE b == producer[p].buffer
           away == Stations \ {"idle"}
<1>1. /\ ~At(p, "idle") /\ UNCHANGED hubVars
      /\ \E s \in away : Go(p, s)
  BY DEF Check, CheckClosed, Lock, Claim, Steal, Store, Unlock, At, Stations, hubVars
<1>2. PICK s \in away : Go(p, s)
  BY <1>1
<1>3. /\ producer' \in [Producers -> [at : Stations, handle : Handles \cup {None}, buffer : Handles \cup {None}]]
      /\ producer'[p] = [producer[p] EXCEPT !.at = s]
      /\ \A q \in Producers : q # p => producer'[q] = producer[q]
  BY <1>2, GoTyped
<1>4. CountWell'
  <2>1. ~At(p, "idle")' /\ producer'[p].handle = producer[p].handle
    BY <1>2, <1>3 DEF At, TypeOK
  <2> QED BY <1>1, <1>3, <2>1, UsersKept DEF hubVars
<1>5. CASE Check(p) \/ CheckClosed(p)
  BY <1>3, <1>4, <1>5 DEF Check, CheckClosed, TypeOK, hubVars, ringVars
<1>6. CASE Lock(p)
  <2>1. b \in Handles
    BY <1>6, InsideBuffer DEF Lock, At, Inside
  <2> QED BY <1>3, <1>4, <1>6, <2>1 DEF Lock, TypeOK, hubVars
<1>7. CASE Claim(p)
  <2>1. b \in Handles /\ cursor[b].write \in Indexes
    BY <1>7, InsideBuffer DEF Claim, At, Inside
  <2>2. ring' = Exchanged(b, cursor[b].write, Writing) \/ UNCHANGED ring
    BY <1>7 DEF Claim
  <2>3. ring' \in [Handles -> [Indexes -> [state : 0 .. 3, order : Nat]]]
    <3>1. Writing \in 0 .. 3
      BY DEF Writing
    <3>2. Exchanged(b, cursor[b].write, Writing) \in [Handles -> [Indexes -> [state : 0 .. 3, order : Nat]]]
      BY <2>1, <3>1, ExchangeTyped
    <3> QED BY <2>2, <3>2 DEF TypeOK
  <2> QED BY <1>3, <1>4, <1>7, <2>3 DEF Claim, TypeOK, hubVars
<1>8. CASE Steal(p)
  <2>1. b \in Handles /\ cursor[b].write \in Indexes
    BY <1>8, InsideBuffer DEF Steal, At, Inside
  <2>2. ring' = Exchanged(b, cursor[b].write, Writing) \/ UNCHANGED ring
    BY <1>8 DEF Steal
  <2>3. ring' \in [Handles -> [Indexes -> [state : 0 .. 3, order : Nat]]]
    <3>1. Writing \in 0 .. 3
      BY DEF Writing
    <3>2. Exchanged(b, cursor[b].write, Writing) \in [Handles -> [Indexes -> [state : 0 .. 3, order : Nat]]]
      BY <2>1, <3>1, ExchangeTyped
    <3> QED BY <2>2, <3>2 DEF TypeOK
  <2> QED BY <1>3, <1>4, <1>8, <2>3 DEF Steal, TypeOK, hubVars
<1>9. CASE Store(p)
  <2>1. b \in Handles /\ cursor[b].write \in Indexes
    BY <1>9, InsideBuffer DEF Store, At, Inside
  <2>2. cursor[b] \in [write : Indexes, read : Indexes, order : Nat, seen : Nat]
        /\ cursor \in [Handles -> [write : Indexes, read : Indexes, order : Nat, seen : Nat]]
    BY <2>1 DEF TypeOK
  <2>3. cursor[b].order + 1 \in Nat /\ (cursor[b].write + 1) % Capacity \in Indexes
    BY <2>1, <2>2, StreamsAssumption DEF Indexes
  <2>4. ring' \in [Handles -> [Indexes -> [state : 0 .. 3, order : Nat]]]
    <3>1. ring' = [ring EXCEPT ![b][cursor[b].write] = [state |-> Full, order |-> cursor[b].order + 1]]
      BY <1>9 DEF Store
    <3>2. [state |-> Full, order |-> cursor[b].order + 1] \in [state : 0 .. 3, order : Nat]
      BY <2>3 DEF Full
    <3> QED BY <2>1, <3>1, <3>2 DEF TypeOK
  <2>5. cursor' \in [Handles -> [write : Indexes, read : Indexes, order : Nat, seen : Nat]]
    <3>1. cursor' = [cursor EXCEPT ![b] = [cursor[b] EXCEPT !.order = cursor[b].order + 1,
                                                           !.write = (cursor[b].write + 1) % Capacity]]
      BY <1>9, <2>1, <2>2 DEF Store
    <3> QED BY <2>1, <2>2, <2>3, <3>1
  <2> QED BY <1>3, <1>4, <1>9, <2>4, <2>5 DEF Store, TypeOK, hubVars
<1>10. CASE Unlock(p)
  BY <1>3, <1>4, <1>10 DEF Unlock, TypeOK, hubVars
<1> QED BY <1>5, <1>6, <1>7, <1>8, <1>9, <1>10

-----------------------------------------------------------------------------
(* The transport.                                                           *)

\* The transport works on streams of its pass, and at slots that exist.
ReaderWell ==
  /\ reader.buffers \subseteq 1 .. serial /\ reader.todo \subseteq reader.buffers
  /\ reader.at \in {"claim", "copy"} => reader.buffer \in reader.todo
  /\ reader.at = "copy" /\ kind[reader.buffer] = "latest" => reader.index \in Indexes

LEMMA Zeros == 0 \in 0 .. Capacity /\ 0 \in 0 .. PassLimit /\ 0 \in Nat
BY StreamsAssumption

LEMMA ContinueSteps ==
  ASSUME TypeOK, ReaderWell, reader.at \in {"claim", "copy"}, UNCHANGED <<serial, kind>>,
         NEW d \in BOOLEAN, NEW n \in Nat, Continue(d, n)
  PROVE  reader' \in ReaderType /\ ReaderWell' /\ reader'.buffers = reader.buffers
         /\ reader'.at \in {"claim", "next"}
<1>1. reader \in ReaderType
  BY DEF TypeOK, ReaderType
<1>2. CASE d /\ reader.count + 1 < PassLimit
  <2> DEFINE r == [reader EXCEPT !.at = "claim", !.index = 0, !.newest = n, !.count = @ + 1]
  <2>1. reader.count + 1 \in 0 .. PassLimit
    BY <1>1, <1>2, StreamsAssumption DEF ReaderType
  <2>2. r \in ReaderType
    BY <1>1, <2>1, Zeros DEF ReaderType
  <2>3. reader' = r
    BY <1>2 DEF Continue
  <2>4. r.at = "claim" /\ r.buffer = reader.buffer /\ r.buffers = reader.buffers /\ r.todo = reader.todo
    BY <1>1 DEF ReaderType
  <2> QED BY <2>2, <2>3, <2>4 DEF ReaderWell
<1>3. CASE ~(d /\ reader.count + 1 < PassLimit)
  <2> DEFINE r == [reader EXCEPT !.at = "next", !.todo = @ \ {reader.buffer}, !.buffer = None,
                                 !.index = 0, !.newest = 0, !.count = 0]
  <2>0. reader.todo \ {reader.buffer} \in SUBSET Handles /\ None \in Handles \cup {None}
    BY <1>1 DEF ReaderType
  <2>1. r \in ReaderType
    BY <1>1, <2>0, Zeros DEF ReaderType
  <2>2. reader' = r
    BY <1>3 DEF Continue
  <2>3. r.at = "next" /\ r.buffers = reader.buffers /\ r.todo = reader.todo \ {reader.buffer}
    BY <1>1 DEF ReaderType
  <2> QED BY <2>1, <2>2, <2>3 DEF ReaderWell
<1> QED BY <1>2, <1>3

\* Where the transport is in the ring it works on.
LEMMA ReaderAt ==
  ASSUME TypeOK, ReaderWell, reader.at \in {"claim", "copy"}
  PROVE  /\ reader.buffer \in Handles /\ reader.buffer \in 1 .. serial /\ reader.buffer \in reader.buffers
         /\ kind[reader.buffer] \in Kinds
         /\ cursor[reader.buffer] \in [write : Indexes, read : Indexes, order : Nat, seen : Nat]
         /\ ring[reader.buffer] \in [Indexes -> [state : 0 .. 3, order : Nat]]
<1>1. reader.buffer \in 1 .. serial /\ reader.buffer \in reader.buffers
  BY DEF ReaderWell
<1>2. reader.buffer \in Handles
  BY <1>1, Known
<1> QED BY <1>1, <1>2 DEF TypeOK

LEMMA StartPassSteps == ASSUME TypeOK, ReaderWell, StartPass PROVE TypeOK' /\ ReaderWell'
<1>1. reader \in ReaderType /\ Owned \subseteq 1 .. serial /\ Owned \subseteq Handles
  BY Known DEF TypeOK, ReaderType, Owned
<1> DEFINE r == [reader EXCEPT !.at = "next", !.buffers = Owned, !.todo = Owned]
<1>2. r \in ReaderType /\ r.at = "next" /\ r.buffers = Owned /\ r.todo = Owned
  BY <1>1 DEF ReaderType
<1>3. reader' = r /\ serial' = serial
  BY DEF StartPass, hubVars
<1>4. ReaderWell'
  BY <1>1, <1>2, <1>3 DEF ReaderWell
<1> QED BY <1>2, <1>3, <1>4 DEF StartPass, TypeOK, hubVars, ringVars, ReaderType

LEMMA NextStreamSteps == ASSUME TypeOK, ReaderWell, NextStream PROVE TypeOK' /\ ReaderWell'
<1>1. reader \in ReaderType /\ UNCHANGED <<serial, kind>>
  BY DEF TypeOK, ReaderType, NextStream, hubVars
<1>2. ASSUME NEW h \in reader.todo,
             reader' = [reader EXCEPT !.at = "claim", !.buffer = h, !.index = 0,
                                      !.newest = cursor[h].seen, !.count = 0]
      PROVE  reader' \in ReaderType /\ ReaderWell'
  <2>1. h \in Handles /\ cursor[h].seen \in Nat
    BY <1>1 DEF ReaderType, TypeOK
  <2>2. reader' \in ReaderType
    BY <1>1, <1>2, <2>1, Zeros DEF ReaderType
  <2>3. reader'.at = "claim" /\ reader'.buffer = h /\ reader'.buffers = reader.buffers /\ reader'.todo = reader.todo
    BY <1>1, <1>2 DEF ReaderType
  <2> QED BY <1>1, <2>2, <2>3 DEF ReaderWell
<1>3. ASSUME reader.todo = {}, reader' = [reader EXCEPT !.at = "pass", !.buffers = {}]
      PROVE  reader' \in ReaderType /\ ReaderWell'
  <2>1. reader' \in ReaderType /\ reader'.at = "pass" /\ reader'.buffers = {} /\ reader'.todo = {}
    BY <1>1, <1>3 DEF ReaderType
  <2> QED BY <2>1 DEF ReaderWell
<1>4. reader' \in ReaderType /\ ReaderWell'
  BY <1>2, <1>3 DEF NextStream
<1> QED BY <1>4 DEF NextStream, TypeOK, hubVars, ringVars, ReaderType

LEMMA ClaimNextSteps == ASSUME TypeOK, ReaderWell, ClaimNext PROVE TypeOK' /\ ReaderWell'
<1> DEFINE h == reader.buffer
           i == cursor[h].read
<1>1. reader \in ReaderType /\ reader.at = "claim" /\ UNCHANGED <<serial, kind>> /\ kind[h] = "fifo"
  BY DEF TypeOK, ReaderType, ClaimNext, hubVars
<1>2. h \in Handles /\ i \in Indexes
  BY <1>1, ReaderAt
<1>3. CASE ring[h][i].state = Full
  <2>1. ring' = Exchanged(h, i, Reading) /\ reader' = [reader EXCEPT !.at = "copy"]
    BY <1>3 DEF ClaimNext
  <2>2. Reading \in 0 .. 3
    BY DEF Reading
  <2>3. ring' \in [Handles -> [Indexes -> [state : 0 .. 3, order : Nat]]]
    BY <1>2, <2>1, <2>2, ExchangeTyped
  <2>4. reader' \in ReaderType /\ reader'.buffer = h /\ reader'.buffers = reader.buffers /\ reader'.todo = reader.todo
    BY <1>1, <2>1 DEF ReaderType
  <2>5. ReaderWell'
    BY <1>1, <2>4 DEF ReaderWell
  <2> QED BY <2>3, <2>4, <2>5 DEF ClaimNext, TypeOK, hubVars, ReaderType
<1>4. CASE ring[h][i].state # Full
  <2>1. Continue(FALSE, 0) /\ UNCHANGED ring
    BY <1>4 DEF ClaimNext
  <2>2. reader' \in ReaderType /\ ReaderWell'
    BY <1>1, <2>1, ContinueSteps
  <2> QED BY <2>1, <2>2 DEF ClaimNext, TypeOK, hubVars, ReaderType
<1> QED BY <1>3, <1>4

LEMMA TakeNextSteps == ASSUME TypeOK, ReaderWell, TakeNext PROVE TypeOK' /\ ReaderWell'
<1> DEFINE h == reader.buffer
           i == cursor[h].read
<1>1. reader.at = "copy" /\ UNCHANGED <<serial, kind>> /\ Continue(TRUE, 0)
  BY DEF TakeNext, hubVars
<1>2. /\ h \in Handles /\ i \in Indexes
      /\ cursor[h] \in [write : Indexes, read : Indexes, order : Nat, seen : Nat]
      /\ ring[h][i].order \in Nat
  BY <1>1, ReaderAt
<1>3. reader' \in ReaderType /\ ReaderWell'
  BY <1>1, ContinueSteps
<1>4. ring' \in [Handles -> [Indexes -> [state : 0 .. 3, order : Nat]]]
  <2>1. Empty \in 0 .. 3 /\ ring' = Exchanged(h, i, Empty)
    BY DEF Empty, TakeNext
  <2> QED BY <1>2, <2>1, ExchangeTyped
<1>5. cursor' \in [Handles -> [write : Indexes, read : Indexes, order : Nat, seen : Nat]]
  <2>1. (i + 1) % Capacity \in Indexes
    BY <1>2, StreamsAssumption DEF Indexes
  <2>2. [cursor[h] EXCEPT !.read = (i + 1) % Capacity] \in [write : Indexes, read : Indexes, order : Nat, seen : Nat]
    BY <1>2, <2>1
  <2>3. cursor' = [cursor EXCEPT ![h] = [cursor[h] EXCEPT !.read = (i + 1) % Capacity]]
    BY <1>2 DEF TakeNext
  <2> QED BY <1>2, <2>2, <2>3 DEF TypeOK
<1>6. taken' \in [Handles -> Seq(Nat)]
  <2>1. taken[h] \in Seq(Nat)
    BY <1>2 DEF TypeOK
  <2>2. Append(taken[h], ring[h][i].order) \in Seq(Nat)
    BY <1>2, <2>1
  <2>3. taken' = [taken EXCEPT ![h] = Append(taken[h], ring[h][i].order)]
    BY <1>2 DEF TakeNext, TypeOK
  <2> QED BY <2>2, <2>3 DEF TypeOK
<1> QED BY <1>3, <1>4, <1>5, <1>6 DEF TakeNext, TypeOK, hubVars, ReaderType

LEMMA ClaimSlotSteps == ASSUME TypeOK, ReaderWell, ClaimSlot PROVE TypeOK' /\ ReaderWell'
<1> DEFINE h == reader.buffer
           i == reader.index
<1>1. reader \in ReaderType /\ reader.at = "claim" /\ UNCHANGED <<serial, kind>> /\ i < Capacity
  BY DEF TypeOK, ReaderType, ClaimSlot, hubVars
<1>2. h \in Handles /\ i \in Indexes /\ i + 1 \in 0 .. Capacity
  <2>1. h \in Handles /\ i \in 0 .. Capacity
    BY <1>1, ReaderAt DEF ReaderType
  <2> QED BY <1>1, <2>1, StreamsAssumption DEF Indexes
<1>3. CASE ring[h][i].state = Full
  <2>1. ring' = Exchanged(h, i, Reading) /\ reader' = [reader EXCEPT !.at = "copy"]
    BY <1>3 DEF ClaimSlot
  <2>2. Reading \in 0 .. 3
    BY DEF Reading
  <2>3. ring' \in [Handles -> [Indexes -> [state : 0 .. 3, order : Nat]]]
    BY <1>2, <2>1, <2>2, ExchangeTyped
  <2>4. /\ reader' \in ReaderType /\ reader'.buffer = h /\ reader'.buffers = reader.buffers
        /\ reader'.todo = reader.todo /\ reader'.index = i
    BY <1>1, <2>1 DEF ReaderType
  <2>5. ReaderWell'
    BY <1>1, <1>2, <2>4 DEF ReaderWell
  <2> QED BY <2>3, <2>4, <2>5 DEF ClaimSlot, TypeOK, hubVars, ReaderType
<1>4. CASE ring[h][i].state # Full
  <2>1. reader' = [reader EXCEPT !.index = i + 1] /\ UNCHANGED ring
    BY <1>4 DEF ClaimSlot
  <2>2. /\ reader' \in ReaderType /\ reader'.buffer = h /\ reader'.buffers = reader.buffers
        /\ reader'.todo = reader.todo /\ reader'.at = "claim"
    BY <1>1, <1>2, <2>1 DEF ReaderType
  <2>3. ReaderWell'
    BY <1>1, <2>2 DEF ReaderWell
  <2> QED BY <2>1, <2>2, <2>3 DEF ClaimSlot, TypeOK, hubVars, ReaderType
<1> QED BY <1>3, <1>4

LEMMA TakeSlotSteps == ASSUME TypeOK, ReaderWell, TakeSlot PROVE TypeOK' /\ ReaderWell'
<1> DEFINE h == reader.buffer
           i == reader.index
<1>1. /\ reader \in ReaderType /\ reader.at = "copy" /\ UNCHANGED <<serial, kind>> /\ i \in Indexes
  BY DEF TypeOK, ReaderType, TakeSlot, hubVars, ReaderWell
<1>2. h \in Handles /\ i + 1 \in 0 .. Capacity /\ ring[h][i].order \in Nat
  <2>1. h \in Handles /\ ring[h] \in [Indexes -> [state : 0 .. 3, order : Nat]]
    BY <1>1, ReaderAt
  <2>2. ring[h][i].order \in Nat
    BY <1>1, <2>1
  <2>3. i + 1 \in 0 .. Capacity
    BY <1>1, StreamsAssumption DEF Indexes
  <2> QED BY <2>1, <2>2, <2>3
<1>3. ring' \in [Handles -> [Indexes -> [state : 0 .. 3, order : Nat]]]
  <2>1. Empty \in 0 .. 3 /\ ring' = Exchanged(h, i, Empty)
    BY DEF Empty, TakeSlot
  <2> QED BY <1>1, <1>2, <2>1, ExchangeTyped
<1>4. /\ reader' \in ReaderType /\ reader'.buffer = h /\ reader'.buffers = reader.buffers
      /\ reader'.todo = reader.todo /\ reader'.at = "claim"
  <2>1. Newer(reader.newest, ring[h][i].order) \in Nat
    BY <1>1, <1>2 DEF Newer, ReaderType
  <2>2. reader' = [reader EXCEPT !.at = "claim", !.index = i + 1, !.newest = Newer(reader.newest, ring[h][i].order)]
    BY DEF TakeSlot
  <2> QED BY <1>1, <1>2, <2>1, <2>2 DEF ReaderType
<1>5. ReaderWell'
  BY <1>1, <1>4 DEF ReaderWell
<1> QED BY <1>3, <1>4, <1>5 DEF TakeSlot, TypeOK, hubVars, ReaderType

LEMMA EndScanSteps == ASSUME TypeOK, ReaderWell, EndScan PROVE TypeOK' /\ ReaderWell'
<1> DEFINE h == reader.buffer
           newer == reader.newest > cursor[h].seen
<1>1. reader \in ReaderType /\ reader.at = "claim" /\ UNCHANGED <<serial, kind>>
  BY DEF TypeOK, ReaderType, EndScan, hubVars
<1>2. /\ h \in Handles /\ Seen(h) \in Nat /\ newer \in BOOLEAN
      /\ cursor[h] \in [write : Indexes, read : Indexes, order : Nat, seen : Nat]
  BY <1>1, ReaderAt DEF ReaderType, Seen
<1>3. reader' \in ReaderType /\ ReaderWell' /\ reader'.buffers = reader.buffers
  <2>1. Continue(newer, Seen(h))
    BY DEF EndScan
  <2> QED BY <1>1, <1>2, <2>1, ContinueSteps
<1>4. cursor' \in [Handles -> [write : Indexes, read : Indexes, order : Nat, seen : Nat]]
  <2>1. [cursor[h] EXCEPT !.seen = Seen(h)] \in [write : Indexes, read : Indexes, order : Nat, seen : Nat]
    BY <1>2
  <2>2. cursor' = [cursor EXCEPT ![h] = [cursor[h] EXCEPT !.seen = Seen(h)]]
    BY <1>2 DEF EndScan
  <2> QED BY <1>2, <2>1, <2>2 DEF TypeOK
<1>5. taken' \in [Handles -> Seq(Nat)] /\ cached' \subseteq Handles
  <2>1. taken[h] \in Seq(Nat) /\ reader.newest \in Nat
    BY <1>1, <1>2 DEF TypeOK, ReaderType
  <2>2. Append(taken[h], reader.newest) \in Seq(Nat)
    BY <2>1
  <2>3. \/ /\ taken' = [taken EXCEPT ![h] = Append(taken[h], reader.newest)]
           /\ cached' = cached \cup {h}
        \/ UNCHANGED <<taken, cached>>
    BY <1>2 DEF EndScan, TypeOK
  <2>4. taken \in [Handles -> Seq(Nat)] /\ cached \subseteq Handles
    BY DEF TypeOK
  <2>5. CASE UNCHANGED <<taken, cached>>
    BY <2>4, <2>5
  <2>6. CASE /\ taken' = [taken EXCEPT ![h] = Append(taken[h], reader.newest)]
             /\ cached' = cached \cup {h}
    BY <1>2, <2>2, <2>4, <2>6
  <2> QED BY <2>3, <2>5, <2>6
<1> QED BY <1>3, <1>4, <1>5 DEF EndScan, TypeOK, hubVars, ReaderType

-----------------------------------------------------------------------------
(* The hub's table.                                                         *)

\* A place shows the handle and the buffer of the stream the hub owns there,
\* or none.
HubWell ==
  \A i \in 1 .. Places :
    /\ hub[i].owned # None =>
         hub[i].owned \in 1 .. serial /\ place[hub[i].owned] = i /\ hub[i].handle = hub[i].owned
    /\ hub[i].buffer # None => hub[i].owned = hub[i].buffer

HubInv == TypeOK /\ MainWell /\ HubWell /\ CountWell /\ ProducersWell /\ OwnStream /\ ReaderWell

\* Steps of the transport and of consumers leave the table alone.
LEMMA HubKept ==
  ASSUME HubInv, UNCHANGED <<serial, place, hub, main, producer>>
  PROVE  MainWell' /\ HubWell' /\ CountWell' /\ ProducersWell' /\ OwnStream'
<1>1. \A i \in 1 .. Places : Users(i)' = Users(i)
  BY DEF Users, At
<1>2. CountWell'
  BY <1>1 DEF HubInv, CountWell
<1>3. MainWell' /\ HubWell' /\ ProducersWell' /\ OwnStream'
  BY DEF HubInv, MainWell, HubWell, ProducersWell, OwnStream, Owned, Inside, At
<1> QED BY <1>2, <1>3

LEMMA CreateSteps ==
  ASSUME HubInv, NEW k \in Kinds, NEW i \in 1 .. Places, Create(k, i)
  PROVE  MainWell' /\ HubWell' /\ CountWell' /\ ProducersWell' /\ OwnStream' /\ ReaderWell'
<1> DEFINE h == serial + 1
<1>1. /\ serial \in Nat /\ 1 .. serial \subseteq Handles /\ h \in Handles /\ h \notin 1 .. serial
      /\ 1 .. serial \subseteq 1 .. h
  <2>1. serial \in 0 .. MaxStreams /\ serial < MaxStreams
    BY DEF Create, HubInv, TypeOK
  <2> QED BY <2>1, Known, StreamsAssumption DEF HubInv, Handles
<1>2. \A g \in 1 .. serial : place'[g] = place[g] /\ kind'[g] = kind[g]
  BY <1>1 DEF Create, HubInv, TypeOK
<1>3. /\ serial' = h /\ place'[h] = i /\ UNCHANGED <<producer, reader>> /\ hub[i].owned = None
      /\ main' = [at |-> "create", stream |-> h]
  BY <1>1 DEF Create, HubInv, TypeOK
<1>4. /\ \A j \in 1 .. Places : j # i => hub'[j] = hub[j]
      /\ hub'[i].owned = h /\ hub'[i].handle = h
      /\ hub'[i].buffer = hub[i].buffer /\ hub'[i].readers = hub[i].readers
  BY DEF Create, HubInv, TypeOK, Slots
<1>5. hub[i].buffer = None
  BY <1>3 DEF HubInv, HubWell, None
<1>6. MainWell'
  BY <1>1, <1>3, <1>4, <1>5 DEF MainWell
<1>7. HubWell'
  <2> SUFFICES ASSUME NEW j \in 1 .. Places
               PROVE  /\ hub'[j].owned # None =>
                           /\ hub'[j].owned \in 1 .. serial' /\ place'[hub'[j].owned] = j
                           /\ hub'[j].handle = hub'[j].owned
                      /\ hub'[j].buffer # None => hub'[j].owned = hub'[j].buffer
    BY DEF HubWell
  <2>1. CASE j = i
    BY <2>1, <1>1, <1>3, <1>4, <1>5
  <2>2. CASE j # i
    <3>1. hub'[j] = hub[j]
      BY <2>2, <1>4
    <3>2. hub[j].owned # None => /\ hub[j].owned \in 1 .. serial /\ place[hub[j].owned] = j
                                 /\ hub[j].handle = hub[j].owned
      BY DEF HubInv, HubWell
    <3>3. hub[j].buffer # None => hub[j].owned = hub[j].buffer
      BY DEF HubInv, HubWell
    <3> QED BY <3>1, <3>2, <3>3, <1>1, <1>2, <1>3
  <2> QED BY <2>1, <2>2
<1>8. \A p \in Producers : ~At(p, "idle") =>
        /\ producer[p].handle \in 1 .. serial /\ place'[producer[p].handle] = place[producer[p].handle]
  BY <1>2 DEF HubInv, ProducersWell
<1>9. CountWell'
  <2>1. \A j \in 1 .. Places : Users(j)' = Users(j)
    BY <1>3, <1>8 DEF Users, At
  <2>2. \A j \in 1 .. Places : hub'[j].readers = hub[j].readers
    BY <1>4
  <2> QED BY <2>1, <2>2 DEF HubInv, CountWell
<1>10. ProducersWell'
  <2> SUFFICES ASSUME NEW p \in Producers
               PROVE  /\ ~At(p, "idle") => producer[p].handle \in 1 .. serial'
                      /\ At(p, "check") /\ producer[p].buffer # None =>
                           hub'[place'[producer[p].handle]].owned = producer[p].buffer
    BY <1>3 DEF ProducersWell, At
  <2>1. ~At(p, "idle") => producer[p].handle \in 1 .. serial'
    BY <1>1, <1>3, <1>8
  <2>2. ASSUME At(p, "check"), producer[p].buffer # None
        PROVE  hub'[place'[producer[p].handle]].owned = producer[p].buffer
    <3>1. ~At(p, "idle")
      BY <2>2 DEF At
    <3>2. /\ place[producer[p].handle] \in 1 .. Places
          /\ hub[place[producer[p].handle]].owned = producer[p].buffer
      BY <2>2, <3>1, UsedPlace DEF HubInv, ProducersWell
    <3>3. place[producer[p].handle] # i
      BY <2>2, <3>2, <1>3
    <3> QED BY <3>1, <3>2, <3>3, <1>4, <1>8
  <2> QED BY <2>1, <2>2
<1>11. OwnStream'
  <2> SUFFICES ASSUME NEW p \in Producers, Inside(p)
               PROVE  producer[p].buffer = producer[p].handle /\ producer[p].buffer \in Owned'
    BY <1>3 DEF OwnStream, Inside
  <2>1. producer[p].buffer = producer[p].handle /\ producer[p].buffer \in Owned
    BY DEF HubInv, OwnStream
  <2>2. producer[p].buffer \in 1 .. serial /\ hub[place[producer[p].buffer]].owned = producer[p].buffer
    BY <2>1 DEF Owned
  <2>3. place[producer[p].buffer] \in 1 .. Places /\ place[producer[p].buffer] # i
    <3>1. producer[p].buffer # None
      BY <2>2 DEF None
    <3>2. producer[p].buffer \in Handles
      BY <2>2, <1>1
    <3> QED BY <3>1, <3>2, <2>2, <1>3 DEF HubInv, TypeOK
  <2>4. hub'[place'[producer[p].buffer]].owned = producer[p].buffer
    BY <2>2, <2>3, <1>2, <1>4
  <2> QED BY <2>1, <2>2, <2>4, <1>1, <1>3 DEF Owned
<1>12. ReaderWell'
  <2>1. ReaderWell
    BY DEF HubInv
  <2>2. reader.at = "copy" => kind'[reader.buffer] = kind[reader.buffer]
    BY <2>1, <1>2 DEF ReaderWell
  <2> QED BY <2>1, <2>2, <1>1, <1>3 DEF ReaderWell
<1> QED BY <1>6, <1>7, <1>9, <1>10, <1>11, <1>12

\* The store and the reset of a place's buffer leave what the hub owns, and so
\* all that producers have found.
LEMMA OwnersKept ==
  ASSUME HubInv, UNCHANGED <<serial, kind, place, producer, reader>>,
         \A j \in 1 .. Places : hub'[j].owned = hub[j].owned /\ hub'[j].readers = hub[j].readers
  PROVE  CountWell' /\ ProducersWell' /\ OwnStream' /\ ReaderWell'
<1>1. \A j \in 1 .. Places : Users(j)' = Users(j)
  BY DEF Users, At
<1>2. CountWell'
  BY <1>1 DEF HubInv, CountWell
<1>3. ProducersWell'
  <2> SUFFICES ASSUME NEW p \in Producers, At(p, "check"), producer[p].buffer # None
               PROVE  hub'[place[producer[p].handle]].owned = producer[p].buffer
    BY DEF HubInv, ProducersWell, At
  <2>1. ~At(p, "idle")
    BY DEF At
  <2>2. place[producer[p].handle] \in 1 .. Places
    BY <2>1, UsedPlace DEF HubInv
  <2> QED BY <2>2 DEF HubInv, ProducersWell
<1>4. OwnStream'
  <2>1. \A g \in 1 .. serial : place[g] \in 1 .. Places
    BY Known DEF HubInv, TypeOK
  <2>2. Owned' = Owned
    BY <2>1 DEF Owned
  <2> QED BY <2>2 DEF HubInv, OwnStream, Inside
<1>5. ReaderWell'
  BY DEF HubInv, ReaderWell
<1> QED BY <1>2, <1>3, <1>4, <1>5

LEMMA CreatedSteps ==
  ASSUME HubInv, Created
  PROVE  MainWell' /\ HubWell' /\ CountWell' /\ ProducersWell' /\ OwnStream' /\ ReaderWell'
<1>1. PICK i \in 1 .. Places : i = place[main.stream]
  BY Known DEF HubInv, Created, MainWell, TypeOK
<1>2. main.stream \in 1 .. serial /\ hub[i].owned = main.stream
  BY <1>1 DEF HubInv, Created, MainWell
<1>3. /\ \A j \in 1 .. Places : j # i => hub'[j] = hub[j]
      /\ hub'[i].owned = hub[i].owned /\ hub'[i].handle = hub[i].handle
      /\ hub'[i].buffer = main.stream /\ hub'[i].readers = hub[i].readers
  BY <1>1 DEF Created, HubInv, TypeOK, Slots
<1>4. UNCHANGED <<serial, kind, place, producer, reader>> /\ main' = [at |-> "idle", stream |-> None]
  BY DEF Created
<1>5. \A j \in 1 .. Places : hub'[j].owned = hub[j].owned /\ hub'[j].readers = hub[j].readers
  BY <1>3
<1>6. CountWell' /\ ProducersWell' /\ OwnStream' /\ ReaderWell'
  BY <1>4, <1>5, OwnersKept
<1>7. MainWell'
  BY <1>4 DEF MainWell
<1>8. HubWell'
  BY <1>2, <1>3, <1>4 DEF HubInv, HubWell
<1> QED BY <1>6, <1>7, <1>8

LEMMA CloseSteps ==
  ASSUME HubInv, NEW h \in Handles, Close(h)
  PROVE  MainWell' /\ HubWell' /\ CountWell' /\ ProducersWell' /\ OwnStream' /\ ReaderWell'
<1>1. PICK i \in 1 .. Places : i = place[h]
  BY DEF HubInv, TypeOK
<1>2. h \in 1 .. serial /\ hub[i].owned = h
  BY <1>1 DEF Close, Owned
<1>3. /\ \A j \in 1 .. Places : j # i => hub'[j] = hub[j]
      /\ hub'[i].owned = hub[i].owned /\ hub'[i].handle = hub[i].handle
      /\ hub'[i].buffer = None /\ hub'[i].readers = hub[i].readers
  BY <1>1 DEF Close, HubInv, TypeOK, Slots
<1>4. UNCHANGED <<serial, kind, place, producer, reader>> /\ main' = [at |-> "close", stream |-> h]
  BY DEF Close, ringVars
<1>5. \A j \in 1 .. Places : hub'[j].owned = hub[j].owned /\ hub'[j].readers = hub[j].readers
  BY <1>3
<1>6. CountWell' /\ ProducersWell' /\ OwnStream' /\ ReaderWell'
  BY <1>4, <1>5, OwnersKept
<1>7. MainWell'
  BY <1>1, <1>2, <1>3, <1>4 DEF MainWell
<1>8. HubWell'
  BY <1>2, <1>3, <1>4 DEF HubInv, HubWell
<1> QED BY <1>6, <1>7, <1>8

\* close() lets go of a place only when no producer is inside it: all that
\* producers have found is at other places.
LEMMA ClosedSteps ==
  ASSUME HubInv, Closed
  PROVE  MainWell' /\ HubWell' /\ CountWell' /\ ProducersWell' /\ OwnStream' /\ ReaderWell'
<1>1. PICK i \in 1 .. Places : i = place[main.stream]
  BY Known DEF HubInv, Closed, MainWell, TypeOK
<1>2. main.stream \in 1 .. serial /\ hub[i].owned = main.stream /\ hub[i].buffer = None /\ hub[i].readers = 0
  BY <1>1 DEF HubInv, Closed, MainWell
<1>3. /\ \A j \in 1 .. Places : j # i => hub'[j] = hub[j]
      /\ hub'[i].owned = None /\ hub'[i].buffer = None /\ hub'[i].readers = hub[i].readers
  BY <1>1, <1>2 DEF Closed, HubInv, TypeOK, Slots
<1>4. UNCHANGED <<serial, kind, place, producer, reader>> /\ main' = [at |-> "idle", stream |-> None]
  BY DEF Closed, ringVars
<1>5. CountWell'
  <2>1. \A j \in 1 .. Places : Users(j)' = Users(j)
    BY <1>4 DEF Users, At
  <2>2. \A j \in 1 .. Places : hub'[j].readers = hub[j].readers
    BY <1>3
  <2> QED BY <2>1, <2>2 DEF HubInv, CountWell
<1>6. \A p \in Producers : ~At(p, "idle") =>
        place[producer[p].handle] \in 1 .. Places /\ place[producer[p].handle] # i
  BY <1>2, UsedPlace DEF HubInv
<1>7. ProducersWell'
  <2> SUFFICES ASSUME NEW p \in Producers, At(p, "check"), producer[p].buffer # None
               PROVE  hub'[place[producer[p].handle]].owned = producer[p].buffer
    BY <1>4 DEF HubInv, ProducersWell, At
  <2>1. ~At(p, "idle")
    BY DEF At
  <2> QED BY <2>1, <1>3, <1>6 DEF HubInv, ProducersWell
<1>8. OwnStream'
  <2> SUFFICES ASSUME NEW p \in Producers, Inside(p)
               PROVE  producer[p].buffer = producer[p].handle /\ producer[p].buffer \in Owned'
    BY <1>4 DEF OwnStream, Inside
  <2>1. producer[p].buffer = producer[p].handle /\ producer[p].buffer \in Owned
    BY DEF HubInv, OwnStream
  <2>2. ~At(p, "idle")
    BY DEF Inside, At
  <2>3. hub'[place[producer[p].buffer]] = hub[place[producer[p].buffer]]
    BY <2>1, <2>2, <1>3, <1>6
  <2> QED BY <2>1, <2>3, <1>4 DEF Owned
<1>9. MainWell' /\ ReaderWell'
  BY <1>4 DEF HubInv, MainWell, ReaderWell
<1>10. HubWell'
  BY <1>2, <1>3, <1>4 DEF HubInv, HubWell
<1> QED BY <1>5, <1>7, <1>8, <1>9, <1>10

\* A producer's steps change nothing in the table but a reader count.
LEMMA TableShown ==
  ASSUME HubInv, UNCHANGED <<serial, kind, place, main, reader>>,
         \A j \in 1 .. Places : /\ hub'[j].owned = hub[j].owned /\ hub'[j].handle = hub[j].handle
                               /\ hub'[j].buffer = hub[j].buffer
  PROVE  MainWell' /\ HubWell' /\ ReaderWell' /\ Owned' = Owned
<1>1. \A g \in 1 .. serial : place[g] \in 1 .. Places
  BY Known DEF HubInv, TypeOK
<1>2. Owned' = Owned
  BY <1>1 DEF Owned
<1>3. MainWell'
  BY <1>1 DEF HubInv, MainWell
<1>4. HubWell' /\ ReaderWell'
  BY DEF HubInv, HubWell, ReaderWell
<1> QED BY <1>2, <1>3, <1>4

LEMMA ReadersTyped == ASSUME TypeOK, NEW i \in 1 .. Places PROVE hub[i].readers \in Nat
<1>1. Cardinality(Producers) \in Nat
  BY StreamsAssumption, FS_CardinalityType
<1>2. hub[i] \in Slots
  BY DEF TypeOK
<1> QED BY <1>1, <1>2 DEF Slots

LEMMA ProducerHub ==
  ASSUME HubInv, NEW p \in Producers, Publish(p) \/ \E h \in Handles : Enter(p, h)
  PROVE  /\ TypeOK' /\ MainWell' /\ HubWell' /\ CountWell' /\ ProducersWell' /\ OwnStream' /\ ReaderWell'
         /\ Owned' = Owned
<1>1. TypeOK' /\ CountWell'
  BY EnterSteps, LeaveSteps, LoadSteps, InsideSteps DEF HubInv, Publish
<1>2. /\ UNCHANGED <<serial, kind, place, main, reader>>
      /\ \A q \in Producers : q # p => producer'[q] = producer[q]
  BY DEF HubInv, TypeOK, Publish, Enter, Load, Check, CheckClosed, Lock, Claim, Steal, Store, Unlock, Leave,
         Go, hubVars
<1>3. \A j \in 1 .. Places : /\ hub'[j].owned = hub[j].owned /\ hub'[j].handle = hub[j].handle
                             /\ hub'[j].buffer = hub[j].buffer
  <2>1. UNCHANGED hub \/ \E i \in 1 .. Places, n \in Nat : hub' = [hub EXCEPT ![i].readers = n]
    <3>1. ASSUME NEW h \in Handles, Enter(p, h) PROVE \E i \in 1 .. Places, n \in Nat : hub' = [hub EXCEPT ![i].readers = n]
      <4>1. place[h] \in 1 .. Places /\ hub' = [hub EXCEPT ![place[h]].readers = hub[place[h]].readers + 1]
        BY <3>1 DEF Enter, HubInv, TypeOK
      <4>2. hub[place[h]].readers + 1 \in Nat
        BY <4>1, ReadersTyped DEF HubInv
      <4> QED BY <4>1, <4>2
    <3>2. CASE Leave(p)
      <4>1. ~At(p, "idle")
        BY <3>2 DEF Leave, At
      <4>2. PICK i \in 1 .. Places : i = place[producer[p].handle]
        BY <4>1, UsedPlace DEF HubInv
      <4>3. hub[i].readers \in Nat /\ hub[i].readers # 0
        BY <4>1, <4>2, UsedPlace, ReadersTyped DEF HubInv
      <4>4. hub' = [hub EXCEPT ![i].readers = hub[i].readers - 1] /\ hub[i].readers - 1 \in Nat
        BY <3>2, <4>2, <4>3 DEF Leave
      <4> QED BY <4>4
    <3>3. CASE Publish(p) /\ ~Leave(p)
      BY <3>3 DEF Publish, Load, Check, CheckClosed, Lock, Claim, Steal, Store, Unlock, hubVars
    <3> QED BY <3>1, <3>2, <3>3
  <2>2. ASSUME NEW i \in 1 .. Places, NEW n \in Nat, hub' = [hub EXCEPT ![i].readers = n], NEW j \in 1 .. Places
        PROVE  /\ hub'[j].owned = hub[j].owned /\ hub'[j].handle = hub[j].handle
               /\ hub'[j].buffer = hub[j].buffer
    <3>1. hub \in [1 .. Places -> Slots] /\ hub[j] \in Slots
      BY DEF HubInv, TypeOK
    <3> QED BY <2>2, <3>1 DEF Slots
  <2> QED BY <2>1, <2>2
<1>4. MainWell' /\ HubWell' /\ ReaderWell' /\ Owned' = Owned
  BY <1>2, <1>3, TableShown
<1>5. ProducersWell' /\ OwnStream'
  <2> SUFFICES ASSUME NEW q \in Producers
               PROVE  /\ producer'[q].at # "idle" => producer'[q].handle \in 1 .. serial
                      /\ producer'[q].at = "check" /\ producer'[q].buffer # None =>
                           hub'[place[producer'[q].handle]].owned = producer'[q].buffer
                      /\ Inside(q)' => /\ producer'[q].buffer = producer'[q].handle
                                       /\ producer'[q].buffer \in Owned
    BY <1>2, <1>4 DEF ProducersWell, OwnStream, At
  <2>0. ~At(q, "idle") => place[producer[q].handle] \in 1 .. Places
    BY UsedPlace DEF HubInv
  <2>1. CASE q # p
    <3>1. producer'[q] = producer[q]
      BY <2>1, <1>2
    <3> QED BY <3>1, <2>0, <1>3 DEF HubInv, ProducersWell, OwnStream, Inside, At
  <2>2. CASE q = p
    <3>1. ASSUME NEW h \in Handles, Enter(p, h)
          PROVE  producer'[p].at = "load" /\ producer'[p].handle = h /\ h \in 1 .. serial
      BY <3>1 DEF Enter, HubInv, TypeOK
    <3>2. CASE Load(p)
      <4>1. ~At(p, "idle")
        BY <3>2 DEF Load, At
      <4>2. /\ producer'[p].at = "check" /\ producer'[p].handle = producer[p].handle
            /\ producer'[p].buffer = hub[place[producer[p].handle]].buffer
        BY <3>2 DEF Load, HubInv, TypeOK
      <4>3. producer[p].handle \in 1 .. serial
        BY <4>1 DEF HubInv, ProducersWell
      <4>4. producer'[p].buffer # None => hub[place[producer[p].handle]].owned = producer'[p].buffer
        BY <4>1, <4>2, <2>0, <2>2 DEF HubInv, HubWell
      <4> QED BY <4>1, <4>2, <4>3, <4>4, <2>0, <2>2, <1>3 DEF Inside
    <3>3. CASE Check(p)
      <4>1. /\ ~At(p, "idle") /\ producer'[p].handle = producer[p].handle /\ producer'[p].buffer = producer[p].buffer
            /\ producer'[p].at \in {"open", "leave"}
            /\ producer'[p].at = "open" => /\ producer[p].buffer # None
                                           /\ hub[place[producer[p].handle]].handle = producer[p].handle
        BY <3>3 DEF Check, At, Go, HubInv, TypeOK
      <4>2. producer[p].handle \in 1 .. serial
        BY <4>1 DEF HubInv, ProducersWell
      <4>3. ASSUME producer'[p].at = "open"
            PROVE  producer[p].buffer = producer[p].handle /\ producer[p].buffer \in Owned
        <5>1. hub[place[producer[p].handle]].owned = producer[p].buffer
          BY <3>3, <4>1, <4>3 DEF HubInv, ProducersWell, Check
        <5>2. hub[place[producer[p].handle]].handle = hub[place[producer[p].handle]].owned
          BY <5>1, <4>1, <4>3, <2>0, <2>2 DEF HubInv, HubWell
        <5> QED BY <5>1, <5>2, <4>1, <4>2, <4>3 DEF Owned
      <4> QED BY <4>1, <4>2, <4>3, <2>2 DEF Inside
    <3>4. CASE CheckClosed(p) \/ Lock(p) \/ Claim(p) \/ Steal(p) \/ Store(p) \/ Unlock(p)
      <4>1. /\ Inside(p) /\ producer'[p].handle = producer[p].handle /\ producer'[p].buffer = producer[p].buffer
            /\ producer'[p].at \notin {"idle", "check"}
        <5>1. Inside(p) /\ \E s \in {"lock", "claim", "steal", "store", "unlock", "leave"} : Go(p, s)
          BY <3>4 DEF CheckClosed, Lock, Claim, Steal, Store, Unlock, At, Inside
        <5>2. producer \in [Producers -> [at : Stations, handle : Handles \cup {None}, buffer : Handles \cup {None}]]
          BY DEF HubInv, TypeOK
        <5> QED BY <5>1, <5>2 DEF Go
      <4>2. producer[p].handle \in 1 .. serial
        BY <4>1 DEF HubInv, OwnStream, Owned
      <4> QED BY <4>1, <4>2, <2>2 DEF HubInv, OwnStream
    <3>5. CASE Leave(p)
      <4>1. producer'[p].at = "idle"
        BY <3>5 DEF Leave, HubInv, TypeOK
      <4> QED BY <4>1, <2>2 DEF Inside
    <3> QED BY <2>2, <3>1, <3>2, <3>3, <3>4, <3>5 DEF Publish, Inside
  <2> QED BY <2>1, <2>2
<1> QED BY <1>1, <1>4, <1>5

-----------------------------------------------------------------------------
(* The rings.                                                               *)

\* Producers that have the writing flag of a ring.
Writes(p) == producer[p].at \in {"claim", "steal", "store", "unlock"}

\* The flag is set while a producer has it, and no two have the same.
LockWell ==
  /\ \A p \in Producers : Writes(p) => producer[p].buffer \in writing
  /\ \A p, q \in Producers : Writes(p) /\ Writes(q) /\ producer[p].buffer = producer[q].buffer => p = q

Stores(p, h, i) == At(p, "store") /\ producer[p].buffer = h /\ cursor[h].write = i
Reads(h, i)     == /\ reader.at = "copy" /\ reader.buffer = h
                   /\ i = IF kind[h] = "fifo" THEN cursor[h].read ELSE reader.index

\* The state of a slot tells whether a producer or the transport is at it.
SlotWell ==
  \A h \in Handles, i \in Indexes :
    /\ ring[h][i].state = Writing <=> \E p \in Producers : Stores(p, h, i)
    /\ ring[h][i].state = Reading <=> Reads(h, i)

RingInv == HubInv /\ LockWell /\ SlotWell

LEMMA LockNext ==
  ASSUME RingInv, NEW p \in Producers, Publish(p) \/ \E h \in Handles : Enter(p, h)
  PROVE  LockWell'
<1>1. /\ producer \in [Producers -> [at : Stations, handle : Handles \cup {None}, buffer : Handles \cup {None}]]
      /\ LockWell
  BY DEF RingInv, HubInv, TypeOK
<1>2. \A q \in Producers : q # p => producer'[q] = producer[q]
  BY <1>1 DEF Publish, Enter, Load, Check, CheckClosed, Lock, Claim, Steal, Store, Unlock, Leave, Go
<1>3. CASE \/ \E h \in Handles : Enter(p, h)
           \/ Load(p) \/ Check(p) \/ CheckClosed(p) \/ Leave(p)
  <2>1. ~Writes(p)' /\ UNCHANGED writing
    <3>1. CASE \E h \in Handles : Enter(p, h)
      BY <1>1, <3>1 DEF Enter, Writes, ringVars
    <3>2. CASE Load(p) \/ Leave(p)
      BY <1>1, <3>2 DEF Load, Leave, Writes, ringVars
    <3>3. CASE Check(p) \/ CheckClosed(p)
      <4>1. (Go(p, "open") \/ Go(p, "leave") \/ CheckClosed(p)) /\ UNCHANGED writing
        BY <3>3 DEF Check, CheckClosed, ringVars
      <4>2. CASE Go(p, "open") \/ Go(p, "leave")
        BY <1>1, <4>1, <4>2 DEF Go, Writes
      <4> QED BY <4>1, <4>2, <1>1 DEF CheckClosed, Go, Writes
    <3> QED BY <1>3, <3>1, <3>2, <3>3
  <2> QED BY <1>1, <1>2, <2>1 DEF LockWell, Writes
<1>4. CASE Lock(p)
  <2>1. /\ writing \subseteq writing' /\ producer'[p].buffer = producer[p].buffer
        /\ Writes(p)' => producer[p].buffer \notin writing /\ producer[p].buffer \in writing'
    BY <1>1, <1>4 DEF Lock, Go, Writes
  <2> QED BY <1>1, <1>2, <2>1 DEF LockWell, Writes
<1>5. CASE Claim(p) \/ Steal(p) \/ Store(p)
  <2>1. Writes(p) /\ producer'[p].buffer = producer[p].buffer /\ UNCHANGED writing
    BY <1>1, <1>5 DEF Claim, Steal, Store, Go, Writes, At
  <2> QED BY <1>1, <1>2, <2>1 DEF LockWell, Writes
<1>6. CASE Unlock(p)
  <2>1. Writes(p) /\ ~Writes(p)' /\ writing' = writing \ {producer[p].buffer}
    BY <1>1, <1>6 DEF Unlock, Go, Writes, At
  <2> QED BY <1>1, <1>2, <2>1 DEF LockWell, Writes
<1> QED BY <1>3, <1>4, <1>5, <1>6 DEF Publish

\* An exchange touches one slot, and only its state.
LEMMA Exchange ==
  ASSUME TypeOK, NEW h \in Handles, NEW i \in Indexes, NEW to \in 0 .. 3, ring' = Exchanged(h, i, to)
  PROVE  /\ ring'[h][i].state = to
         /\ \A g \in Handles, j \in Indexes : <<g, j>> # <<h, i>> => ring'[g][j] = ring[g][j]
<1>1. ring \in [Handles -> [Indexes -> [state : 0 .. 3, order : Nat]]]
  BY DEF TypeOK
<1>2. ring[h] \in [Indexes -> [state : 0 .. 3, order : Nat]] /\ ring[h][i] \in [state : 0 .. 3, order : Nat]
  BY <1>1
<1>3. ring' = [ring EXCEPT ![h] = [ring[h] EXCEPT ![i] = [ring[h][i] EXCEPT !.state = to]]]
  BY <1>1, <1>2 DEF Exchanged
<1> QED BY <1>1, <1>2, <1>3

\* A producer that comes to own the slot at write_.
LEMMA SlotClaimed ==
  ASSUME RingInv, NEW p \in Producers, At(p, "claim") \/ At(p, "steal"),
         slotOf(producer[p].buffer).state \in {Empty, Full},
         ring' = Exchanged(producer[p].buffer, cursor[producer[p].buffer].write, Writing),
         Go(p, "store"), UNCHANGED <<cursor, kind, reader>>
  PROVE  SlotWell'
<1> DEFINE b == producer[p].buffer
           w == cursor[b].write
<1>1. b \in Handles /\ w \in Indexes /\ Writes(p) /\ ~At(p, "store")
  BY InsideBuffer DEF RingInv, HubInv, Inside, At, Writes
<1>2. /\ producer'[p].at = "store" /\ producer'[p].buffer = b
      /\ \A q \in Producers : q # p => producer'[q] = producer[q]
  BY DEF Go, RingInv, HubInv, TypeOK
<1>3. /\ ring'[b][w].state = Writing
      /\ \A g \in Handles, j \in Indexes : <<g, j>> # <<b, w>> => ring'[g][j] = ring[g][j]
  <2>1. Writing \in 0 .. 3
    BY DEF Writing
  <2> QED BY <1>1, <2>1, Exchange DEF RingInv, HubInv
<1>4. ~Reads(b, w)
  <2>1. ring[b][w].state # Reading
    BY DEF slotOf, Empty, Full, Reading
  <2> QED BY <1>1, <2>1 DEF RingInv, SlotWell
<1> SUFFICES ASSUME NEW g \in Handles, NEW j \in Indexes
             PROVE  /\ ring'[g][j].state = Writing <=> \E q \in Producers : Stores(q, g, j)'
                    /\ ring'[g][j].state = Reading <=> Reads(g, j)'
  BY DEF SlotWell
<1>5. Reads(g, j)' <=> Reads(g, j)
  BY DEF Reads
<1>6. CASE g = b /\ j = w
  <2>1. Stores(p, g, j)'
    BY <1>2, <1>6 DEF Stores, At
  <2> QED BY <1>3, <1>4, <1>5, <1>6, <2>1 DEF Writing, Reading
<1>7. CASE ~(g = b /\ j = w)
  <2>1. ring'[g][j] = ring[g][j]
    BY <1>3, <1>7
  <2>2. \A q \in Producers : Stores(q, g, j)' <=> Stores(q, g, j)
    BY <1>1, <1>2, <1>7 DEF Stores, At
  <2> QED BY <1>5, <2>1, <2>2 DEF RingInv, SlotWell
<1> QED BY <1>6, <1>7

LEMMA SlotStored == ASSUME RingInv, NEW p \in Producers, Store(p) PROVE SlotWell'
<1> DEFINE b == producer[p].buffer
           w == cursor[b].write
           s == [state |-> Full, order |-> cursor[b].order + 1]
<1>1. b \in Handles /\ w \in Indexes /\ Writes(p) /\ At(p, "store")
  BY InsideBuffer DEF RingInv, HubInv, Inside, At, Writes, Store
<1>2. /\ producer'[p].at = "unlock"
      /\ \A q \in Producers : q # p => producer'[q] = producer[q]
  BY DEF Store, Go, RingInv, HubInv, TypeOK
<1>3. ring'[b][w].state = Full /\ \A g \in Handles, j \in Indexes : <<g, j>> # <<b, w>> => ring'[g][j] = ring[g][j]
  <2>1. ring \in [Handles -> [Indexes -> [state : 0 .. 3, order : Nat]]] /\ ring[b] \in [Indexes -> [state : 0 .. 3, order : Nat]]
    BY <1>1 DEF RingInv, HubInv, TypeOK
  <2>2. ring' = [ring EXCEPT ![b] = [ring[b] EXCEPT ![w] = s]]
    BY <1>1, <2>1 DEF Store
  <2> QED BY <1>1, <2>1, <2>2
<1>4. /\ \A g \in Handles : g # b => cursor'[g] = cursor[g]
      /\ cursor'[b].read = cursor[b].read /\ UNCHANGED <<kind, reader>>
  BY <1>1 DEF Store, RingInv, HubInv, TypeOK, hubVars
<1>5. ring[b][w].state = Writing
  BY <1>1 DEF RingInv, SlotWell, Stores
<1> SUFFICES ASSUME NEW g \in Handles, NEW j \in Indexes
             PROVE  /\ ring'[g][j].state = Writing <=> \E q \in Producers : Stores(q, g, j)'
                    /\ ring'[g][j].state = Reading <=> Reads(g, j)'
  BY DEF SlotWell
<1>6. Reads(g, j)' <=> Reads(g, j)
  BY <1>4 DEF Reads
<1>7. \A q \in Producers : q # p => ~(At(q, "store") /\ producer[q].buffer = b)
  BY <1>1 DEF RingInv, LockWell, Writes, At
<1>8. CASE g = b
  <2>1. \A q \in Producers : ~Stores(q, g, j)'
    BY <1>2, <1>7, <1>8 DEF Stores, At
  <2>2. CASE j = w
    <3>1. ~Reads(g, j)
      BY <1>5, <1>8, <2>2 DEF RingInv, SlotWell, Writing, Reading
    <3> QED BY <1>3, <1>6, <1>8, <2>1, <2>2, <3>1 DEF Full, Writing, Reading
  <2>3. CASE j # w
    <3>1. ring'[g][j] = ring[g][j]
      BY <1>3, <2>3
    <3>2. \A q \in Producers : ~Stores(q, g, j)
      BY <1>7, <1>8, <2>3 DEF Stores, At
    <3> QED BY <1>6, <2>1, <3>1, <3>2 DEF RingInv, SlotWell
  <2> QED BY <2>2, <2>3
<1>9. CASE g # b
  <2>1. ring'[g][j] = ring[g][j]
    BY <1>3, <1>9
  <2>2. \A q \in Producers : Stores(q, g, j)' <=> Stores(q, g, j)
    BY <1>1, <1>2, <1>4, <1>9 DEF Stores, At
  <2> QED BY <1>6, <2>1, <2>2 DEF RingInv, SlotWell
<1> QED BY <1>8, <1>9

LEMMA ProducerSlots ==
  ASSUME RingInv, NEW p \in Producers, Publish(p) \/ \E h \in Handles : Enter(p, h)
  PROVE  SlotWell'
<1>1. producer \in [Producers -> [at : Stations, handle : Handles \cup {None}, buffer : Handles \cup {None}]]
  BY DEF RingInv, HubInv, TypeOK
<1>2. CASE Store(p)
  BY <1>2, SlotStored
<1>3. CASE Claim(p) /\ slotOf(producer[p].buffer).state = Empty
  BY <1>3, SlotClaimed DEF Claim, hubVars
<1>4. CASE Steal(p) /\ slotOf(producer[p].buffer).state = Full
  BY <1>4, SlotClaimed DEF Steal, hubVars
<1>5. CASE \/ \E h \in Handles : Enter(p, h)
           \/ Load(p) \/ Check(p) \/ CheckClosed(p) \/ Lock(p) \/ Unlock(p) \/ Leave(p)
           \/ Claim(p) /\ slotOf(producer[p].buffer).state # Empty
           \/ Steal(p) /\ slotOf(producer[p].buffer).state # Full
  <2>1. /\ UNCHANGED <<ring, cursor, kind, reader>>
        /\ ~At(p, "store") /\ producer'[p].at # "store"
        /\ \A q \in Producers : q # p => producer'[q] = producer[q]
    <3>1. CASE \E h \in Handles : Enter(p, h)
      BY <1>1, <3>1 DEF Enter, At, ringVars
    <3>2. CASE Load(p) \/ Check(p) \/ CheckClosed(p) \/ Lock(p) \/ Unlock(p) \/ Leave(p)
      BY <1>1, <3>2 DEF Load, Check, CheckClosed, Lock, Unlock, Leave, At, Go, hubVars, ringVars
    <3>3. CASE \/ Claim(p) /\ slotOf(producer[p].buffer).state # Empty
               \/ Steal(p) /\ slotOf(producer[p].buffer).state # Full
      BY <1>1, <3>3 DEF Claim, Steal, At, Go, hubVars
    <3> QED BY <1>5, <3>1, <3>2, <3>3
  <2>2. \A g \in Handles, j \in Indexes :
          /\ \A q \in Producers : Stores(q, g, j)' <=> Stores(q, g, j)
          /\ Reads(g, j)' <=> Reads(g, j)
    BY <2>1 DEF Stores, Reads, At
  <2> QED BY <2>1, <2>2 DEF RingInv, SlotWell
<1> QED BY <1>2, <1>3, <1>4, <1>5 DEF Publish

\* Steps of the other threads do not store.
LEMMA TransportSlots == ASSUME RingInv, Transport PROVE SlotWell'
<1> DEFINE b == reader.buffer
<1>1. /\ UNCHANGED <<serial, kind, place, hub, main, producer, writing>>
      /\ TypeOK /\ ReaderWell /\ reader \in ReaderType
  BY DEF Transport, StartPass, NextStream, ClaimNext, TakeNext, ClaimSlot, TakeSlot, EndScan, hubVars, ringVars,
         RingInv, HubInv, TypeOK, ReaderType
<1>2. /\ \A g \in Handles : cursor'[g].write = cursor[g].write
      /\ ~TakeNext => \A g \in Handles : cursor'[g].read = cursor[g].read
  <2>1. cursor \in [Handles -> [write : Indexes, read : Indexes, order : Nat, seen : Nat]]
    BY <1>1 DEF TypeOK
  <2>2. CASE TakeNext
    BY <2>1, <2>2 DEF TakeNext
  <2>3. CASE EndScan
    <3>1. cursor' = [cursor EXCEPT ![b].seen = Seen(b)]
      BY <2>3 DEF EndScan
    <3> QED BY <2>1, <3>1
  <2>4. CASE ~TakeNext /\ ~EndScan
    <3>1. UNCHANGED cursor
      BY <2>4 DEF Transport, StartPass, NextStream, ClaimNext, ClaimSlot, TakeSlot, ringVars
    <3> QED BY <3>1
  <2> QED BY <2>2, <2>3, <2>4
<1>3. \A g \in Handles, j \in Indexes, p \in Producers : Stores(p, g, j)' <=> Stores(p, g, j)
  BY <1>1, <1>2 DEF Stores, At
<1>4. ASSUME UNCHANGED ring, reader.at # "copy", reader'.at # "copy" PROVE SlotWell'
  BY <1>3, <1>4 DEF RingInv, SlotWell, Reads
<1>5. ASSUME NEW i \in Indexes, b \in Handles, reader.at = "claim", ring[b][i].state = Full,
             ring' = Exchanged(b, i, Reading), reader' = [reader EXCEPT !.at = "copy"],
             i = IF kind[b] = "fifo" THEN cursor[b].read ELSE reader.index, UNCHANGED cursor
      PROVE  SlotWell'
  <2>1. /\ ring'[b][i].state = Reading
        /\ \A g \in Handles, j \in Indexes : <<g, j>> # <<b, i>> => ring'[g][j] = ring[g][j]
    <3>1. Reading \in 0 .. 3
      BY DEF Reading
    <3> QED BY <1>1, <1>5, <3>1, Exchange
  <2>2. reader'.at = "copy" /\ reader'.buffer = b /\ reader'.index = reader.index
    BY <1>1, <1>5 DEF ReaderType
  <2>3. \A g \in Handles, j \in Indexes : /\ Reads(g, j)' <=> g = b /\ j = i
                                          /\ ~Reads(g, j)
    BY <1>1, <1>5, <2>2 DEF Reads
  <2>4. \A p \in Producers : ~Stores(p, b, i)
    BY <1>5 DEF RingInv, SlotWell, Full, Writing
  <2> SUFFICES ASSUME NEW g \in Handles, NEW j \in Indexes
               PROVE  /\ ring'[g][j].state = Writing <=> \E p \in Producers : Stores(p, g, j)'
                      /\ ring'[g][j].state = Reading <=> Reads(g, j)'
    BY DEF SlotWell
  <2>5. CASE g = b /\ j = i
    BY <2>1, <2>3, <2>4, <2>5, <1>3 DEF Reading, Writing
  <2>6. CASE ~(g = b /\ j = i)
    <3>1. ring'[g][j] = ring[g][j]
      BY <2>1, <2>6
    <3> QED BY <3>1, <2>3, <2>6, <1>3 DEF RingInv, SlotWell
  <2> QED BY <2>5, <2>6
<1>6. ASSUME NEW i \in Indexes, b \in Handles, reader.at = "copy", reader'.at # "copy",
             ring' = Exchanged(b, i, Empty),
             i = IF kind[b] = "fifo" THEN cursor[b].read ELSE reader.index
      PROVE  SlotWell'
  <2>1. /\ ring'[b][i].state = Empty
        /\ \A g \in Handles, j \in Indexes : <<g, j>> # <<b, i>> => ring'[g][j] = ring[g][j]
    <3>1. Empty \in 0 .. 3
      BY DEF Empty
    <3> QED BY <1>1, <1>6, <3>1, Exchange
  <2>2. \A g \in Handles, j \in Indexes : /\ ~Reads(g, j)'
                                          /\ Reads(g, j) <=> g = b /\ j = i
    BY <1>6 DEF Reads
  <2>3. \A p \in Producers : ~Stores(p, b, i)
    <3>1. ring[b][i].state = Reading
      BY <1>6, <2>2 DEF RingInv, SlotWell
    <3> QED BY <1>6, <3>1 DEF RingInv, SlotWell, Reading, Writing
  <2> SUFFICES ASSUME NEW g \in Handles, NEW j \in Indexes
               PROVE  /\ ring'[g][j].state = Writing <=> \E p \in Producers : Stores(p, g, j)'
                      /\ ring'[g][j].state = Reading <=> Reads(g, j)'
    BY DEF SlotWell
  <2>4. CASE g = b /\ j = i
    BY <2>1, <2>2, <2>3, <2>4, <1>3 DEF Empty, Reading, Writing
  <2>5. CASE ~(g = b /\ j = i)
    <3>1. ring'[g][j] = ring[g][j]
      BY <2>1, <2>5
    <3> QED BY <3>1, <2>2, <2>5, <1>3 DEF RingInv, SlotWell
  <2> QED BY <2>4, <2>5
<1>7. ASSUME NEW d \in BOOLEAN, NEW n, Continue(d, n) PROVE reader'.at # "copy"
  BY <1>1, <1>7 DEF Continue, ReaderType
<1>8. CASE StartPass \/ NextStream
  <2>1. UNCHANGED ring /\ reader.at # "copy" /\ reader'.at # "copy"
    BY <1>1, <1>8 DEF StartPass, NextStream, ringVars, ReaderType
  <2> QED BY <2>1, <1>4
<1>9. CASE ClaimNext
  <2> DEFINE i == cursor[b].read
  <2>1. b \in Handles /\ i \in Indexes /\ reader.at = "claim" /\ kind[b] = "fifo" /\ UNCHANGED cursor
    BY <1>1, <1>9, ReaderAt DEF ClaimNext
  <2>2. CASE ring[b][i].state = Full
    BY <2>1, <2>2, <1>5, <1>9 DEF ClaimNext
  <2>3. CASE ring[b][i].state # Full
    <3>1. Continue(FALSE, 0) /\ UNCHANGED ring
      BY <1>9, <2>3 DEF ClaimNext
    <3> QED BY <2>1, <3>1, <1>4, <1>7
  <2> QED BY <2>2, <2>3
<1>10. CASE TakeNext
  <2> DEFINE i == cursor[b].read
  <2>1. /\ b \in Handles /\ i \in Indexes /\ reader.at = "copy" /\ kind[b] = "fifo"
        /\ ring' = Exchanged(b, i, Empty) /\ Continue(TRUE, 0)
    BY <1>1, <1>10, ReaderAt DEF TakeNext
  <2> QED BY <2>1, <1>6, <1>7
<1>11. CASE ClaimSlot
  <2> DEFINE i == reader.index
  <2>1. /\ b \in Handles /\ reader.at = "claim" /\ kind[b] # "fifo" /\ UNCHANGED cursor
        /\ i \in 0 .. Capacity /\ i < Capacity
    BY <1>1, <1>11, ReaderAt DEF ClaimSlot, ReaderType
  <2>2. i \in Indexes
    BY <2>1, StreamsAssumption DEF Indexes
  <2>3. CASE ring[b][i].state = Full
    BY <2>1, <2>2, <2>3, <1>5, <1>11 DEF ClaimSlot
  <2>4. CASE ring[b][i].state # Full
    <3>1. reader'.at = "claim" /\ UNCHANGED ring
      BY <1>1, <1>11, <2>1, <2>4 DEF ClaimSlot, ReaderType
    <3> QED BY <2>1, <3>1, <1>4
  <2> QED BY <2>3, <2>4
<1>12. CASE TakeSlot
  <2> DEFINE i == reader.index
  <2>1. /\ b \in Handles /\ i \in Indexes /\ reader.at = "copy" /\ kind[b] # "fifo"
        /\ ring' = Exchanged(b, i, Empty)
    BY <1>1, <1>12, ReaderAt DEF TakeSlot, ReaderWell
  <2>2. reader'.at # "copy"
    BY <1>1, <1>12 DEF TakeSlot, ReaderType
  <2> QED BY <2>1, <2>2, <1>6
<1>13. CASE EndScan
  <2>1. Continue(reader.newest > cursor[b].seen, Seen(b)) /\ (reader.newest > cursor[b].seen) \in BOOLEAN
    BY <1>13 DEF EndScan
  <2>2. reader'.at # "copy"
    BY <1>7, <2>1
  <2>3. UNCHANGED ring /\ reader.at # "copy" /\ reader'.at # "copy"
    BY <1>13, <2>2 DEF EndScan
  <2> QED BY <2>3, <1>4
<1> QED BY <1>8, <1>9, <1>10, <1>11, <1>12, <1>13 DEF Transport

LEMMA MainSlots ==
  ASSUME RingInv, UNCHANGED <<ring, cursor, producer>>,
         reader'.at = "copy" <=> reader.at = "copy", reader.at = "copy" => UNCHANGED reader,
         reader.at = "copy" => kind'[reader.buffer] = kind[reader.buffer]
  PROVE  SlotWell'
<1>1. \A g \in Handles, j \in Indexes :
        /\ \A q \in Producers : Stores(q, g, j)' <=> Stores(q, g, j)
        /\ Reads(g, j)' <=> Reads(g, j)
  BY DEF Stores, Reads, At
<1> QED BY <1>1 DEF RingInv, SlotWell

-----------------------------------------------------------------------------
(* The memory that is counted.                                              *)

LEMMA CountedKept ==
  ASSUME AllocationCovers, UNCHANGED <<serial, counted>>,
         \A h \in 1 .. serial : h \in Owned' \/ Shared(h)' => h \in Owned \/ Shared(h)
  PROVE  AllocationCovers'
BY DEF AllocationCovers

\* What reap() leaves covers what it has to, and is not more than before.
LEMMA ReapedCovers ==
  ASSUME TypeOK, AllocationCovers, NEW own
  PROVE  /\ \A h \in 1 .. serial : (h \in Owned /\ h \in own) \/ Shared(h) => h \in Reaped(own)
         /\ IsFiniteSet(Reaped(own)) /\ Cardinality(Reaped(own)) \in Nat
         /\ Cardinality(Reaped(own)) <= AllocationLimit
<1>1. IsFiniteSet(counted)
  <2>1. MaxStreams \in Nat
    BY StreamsAssumption
  <2>2. IsFiniteSet(Handles)
    BY <2>1, FS_Interval DEF Handles
  <2> QED BY <2>2, FS_Subset DEF TypeOK
<1>2. Reaped(own) \subseteq counted
  BY DEF Reaped
<1>3. /\ IsFiniteSet(Reaped(own)) /\ Cardinality(Reaped(own)) \in Nat /\ Cardinality(counted) \in Nat
      /\ Cardinality(Reaped(own)) <= Cardinality(counted)
  BY <1>1, <1>2, FS_Subset, FS_CardinalityType
<1>4. Cardinality(counted) <= AllocationLimit /\ AllocationLimit \in Nat
  BY StreamsAssumption DEF AllocationCovers
<1>5. Cardinality(Reaped(own)) <= AllocationLimit
  BY <1>3, <1>4
<1>6. \A h \in 1 .. serial : (h \in Owned /\ h \in own) \/ Shared(h) => h \in Reaped(own)
  BY DEF AllocationCovers, Reaped
<1> QED BY <1>3, <1>5, <1>6

LEMMA CreateCovers ==
  ASSUME RingInv, AllocationCovers, NEW k \in Kinds, NEW i \in 1 .. Places, Create(k, i)
  PROVE  AllocationCovers'
<1> DEFINE h == serial + 1
<1>1. serial \in Nat /\ h \in Handles /\ 1 .. serial \subseteq Handles
  <2>1. serial \in 0 .. MaxStreams /\ serial < MaxStreams
    BY DEF Create, RingInv, HubInv, TypeOK
  <2> QED BY <2>1, Known, StreamsAssumption DEF RingInv, HubInv, Handles
<1>2. /\ serial' = h /\ counted' = Reaped(Owned) \cup {h} /\ UNCHANGED <<held, cached, reader>>
      /\ Cardinality(Reaped(Owned)) < AllocationLimit
  BY DEF Create
<1>3. Cardinality(counted') <= AllocationLimit
  <2>1. IsFiniteSet(Reaped(Owned)) /\ Cardinality(Reaped(Owned)) \in Nat
    BY ReapedCovers DEF RingInv, HubInv
  <2>2. \/ Cardinality(counted') = Cardinality(Reaped(Owned))
        \/ Cardinality(counted') = Cardinality(Reaped(Owned)) + 1
    BY <1>2, <2>1, FS_AddElement
  <2> QED BY <1>2, <2>1, <2>2, StreamsAssumption
<1>4. ASSUME NEW g \in 1 .. serial, g \in Owned' PROVE g \in Owned
  <2>1. g # h /\ place'[g] = place[g] /\ place[g] \in 1 .. Places
    BY <1>1 DEF Create, RingInv, HubInv, TypeOK
  <2>2. hub'[place[g]].owned = g
    BY <1>4, <2>1 DEF Owned
  <2>3. hub'[i].owned = h /\ \A j \in 1 .. Places : j # i => hub'[j] = hub[j]
    BY DEF Create, RingInv, HubInv, TypeOK, Slots
  <2> QED BY <2>1, <2>2, <2>3 DEF Owned
<1>5. ASSUME NEW g \in 1 .. h, g \in Owned' \/ Shared(g)' PROVE g \in counted'
  <2>1. CASE g = h
    BY <2>1, <1>2
  <2>2. CASE g # h
    <3>1. g \in 1 .. serial
      BY <2>2, <1>1
    <3>2. g \in Owned \/ Shared(g)
      BY <3>1, <1>2, <1>4, <1>5 DEF Shared
    <3>3. g \in Reaped(Owned)
      BY <3>1, <3>2, ReapedCovers DEF RingInv, HubInv
    <3> QED BY <3>3, <1>2
  <2> QED BY <2>1, <2>2
<1> QED BY <1>2, <1>3, <1>5 DEF AllocationCovers

LEMMA ClosedCovers == ASSUME RingInv, AllocationCovers, Closed PROVE AllocationCovers'
<1> DEFINE own == Owned \ {main.stream}
<1>1. /\ UNCHANGED <<serial, place, held, cached, reader>> /\ counted' = Reaped(own)
      /\ hub' = [hub EXCEPT ![place[main.stream]].owned = None]
  BY DEF Closed
<1>2. Owned' \subseteq own
  <2>1. PICK i \in 1 .. Places : i = place[main.stream]
    BY Known DEF RingInv, HubInv, Closed, MainWell, TypeOK
  <2>2. hub'[i].owned = None /\ \A j \in 1 .. Places : j # i => hub'[j] = hub[j]
    BY <1>1, <2>1 DEF RingInv, HubInv, TypeOK, Slots
  <2>3. \A g \in 1 .. serial : place[g] \in 1 .. Places /\ g # None
    <3>1. 1 .. serial \subseteq Handles /\ place \in [Handles -> 1 .. Places] /\ serial \in 0 .. MaxStreams
      BY Known DEF RingInv, HubInv, TypeOK
    <3> QED BY <3>1 DEF None
  <2>4. \A g \in Owned' : g \in 1 .. serial /\ hub'[place[g]].owned = g
    BY <1>1 DEF Owned
  <2>5. \A g \in Owned' : g \in Owned /\ g # main.stream
    BY <2>1, <2>2, <2>3, <2>4 DEF Owned
  <2> QED BY <2>5
<1>3. /\ \A h \in 1 .. serial : (h \in Owned /\ h \in own) \/ Shared(h) => h \in Reaped(own)
      /\ Cardinality(Reaped(own)) <= AllocationLimit
  BY ReapedCovers DEF RingInv, HubInv
<1>4. \A h \in 1 .. serial : Shared(h)' <=> Shared(h)
  BY <1>1 DEF Shared
<1> QED BY <1>1, <1>2, <1>3, <1>4 DEF AllocationCovers

LEMMA TransportCovers == ASSUME RingInv, AllocationCovers, Transport PROVE AllocationCovers'
<1>1. /\ UNCHANGED <<serial, counted, held, hub, place>>
      /\ TypeOK /\ ReaderWell /\ reader \in ReaderType
  BY DEF Transport, StartPass, NextStream, ClaimNext, TakeNext, ClaimSlot, TakeSlot, EndScan, hubVars,
         RingInv, HubInv, TypeOK, ReaderType
<1>2. Owned' = Owned
  BY <1>1 DEF Owned
<1>3. reader'.buffers \subseteq reader.buffers \cup Owned
  <2>1. ASSUME NEW d, NEW n, Continue(d, n) PROVE reader'.buffers = reader.buffers
    BY <1>1, <2>1 DEF Continue, ReaderType
  <2>2. CASE ClaimNext \/ TakeNext \/ EndScan
    <3>1. (\E d, n : Continue(d, n)) \/ reader' = [reader EXCEPT !.at = "copy"]
      BY <2>2 DEF ClaimNext, TakeNext, EndScan
    <3> QED BY <3>1, <2>1, <1>1 DEF ReaderType
  <2>3. CASE StartPass \/ NextStream
    BY <2>3, <1>1 DEF StartPass, NextStream, ReaderType
  <2>4. CASE ClaimSlot \/ TakeSlot
    BY <2>4, <1>1 DEF ClaimSlot, TakeSlot, ReaderType
  <2> QED BY <2>2, <2>3, <2>4 DEF Transport
<1>4. cached' \subseteq cached \cup reader.buffers
  <2>1. CASE EndScan
    <3>1. reader.buffer \in reader.buffers
      BY <2>1, <1>1, ReaderAt DEF EndScan
    <3> QED BY <2>1, <3>1 DEF EndScan
  <2>2. CASE ~EndScan
    BY <2>2 DEF Transport, StartPass, NextStream, ClaimNext, TakeNext, ClaimSlot, TakeSlot
  <2> QED BY <2>1, <2>2
<1>5. \A h \in 1 .. serial : h \in Owned' \/ Shared(h)' => h \in Owned \/ Shared(h)
  BY <1>1, <1>2, <1>3, <1>4 DEF Shared
<1> QED BY <1>1, <1>5, CountedKept

-----------------------------------------------------------------------------
(* The invariant.                                                           *)

IndInv == RingInv /\ AllocationCovers

LEMMA InitInv == Init => IndInv
<1> SUFFICES ASSUME Init PROVE IndInv
  OBVIOUS
<1>1. TypeOK
  BY InitTyped
<1>2. MainWell /\ HubWell /\ ProducersWell /\ OwnStream /\ ReaderWell
  BY DEF Init, MainWell, HubWell, ProducersWell, OwnStream, ReaderWell, Inside, At
<1>3. CountWell
  <2>1. \A i \in 1 .. Places : Users(i) = {}
    BY DEF Init, Users, At
  <2> QED BY <2>1, FS_EmptySet DEF Init, CountWell
<1>4. LockWell /\ SlotWell
  BY DEF Init, LockWell, SlotWell, Writes, Stores, Reads, At, Empty, Writing, Reading
<1>5. AllocationCovers
  <2>1. counted = {} /\ serial = 0
    BY DEF Init
  <2>2. Cardinality(counted) = 0
    BY <2>1, FS_EmptySet
  <2> QED BY <2>1, <2>2, StreamsAssumption DEF AllocationCovers
<1> QED BY <1>1, <1>2, <1>3, <1>4, <1>5 DEF IndInv, RingInv, HubInv

LEMMA NextInv == IndInv /\ [Next]_vars => IndInv'
<1> SUFFICES ASSUME IndInv, [Next]_vars PROVE IndInv'
  OBVIOUS
<1>0. RingInv /\ HubInv /\ TypeOK /\ MainWell /\ ReaderWell /\ LockWell /\ AllocationCovers
  BY DEF IndInv, RingInv, HubInv
<1>1. ASSUME NEW p \in Producers, Publish(p) \/ \E h \in Handles : Enter(p, h) PROVE IndInv'
  <2>1. HubInv' /\ Owned' = Owned
    BY <1>0, <1>1, ProducerHub DEF HubInv
  <2>2. LockWell' /\ SlotWell'
    BY <1>0, <1>1, LockNext, ProducerSlots
  <2>3. UNCHANGED <<serial, counted, held, cached, reader>>
    BY <1>1 DEF Publish, Enter, Load, Check, CheckClosed, Lock, Claim, Steal, Store, Unlock, Leave, hubVars
  <2>4. AllocationCovers'
    BY <1>0, <2>1, <2>3, CountedKept DEF Shared
  <2> QED BY <2>1, <2>2, <2>4 DEF IndInv, RingInv
<1>2. CASE Transport
  <2>1. TypeOK' /\ ReaderWell'
    BY <1>0, <1>2, StartPassSteps, NextStreamSteps, ClaimNextSteps, TakeNextSteps, ClaimSlotSteps, TakeSlotSteps,
       EndScanSteps DEF Transport
  <2>2. UNCHANGED <<serial, place, hub, main, producer, writing>>
    BY <1>2 DEF Transport, StartPass, NextStream, ClaimNext, TakeNext, ClaimSlot, TakeSlot, EndScan, hubVars, ringVars
  <2>3. HubInv'
    BY <1>0, <2>1, <2>2, HubKept DEF HubInv
  <2>4. LockWell'
    BY <1>0, <2>2 DEF LockWell, Writes
  <2>5. SlotWell' /\ AllocationCovers'
    BY <1>0, <1>2, TransportSlots, TransportCovers
  <2> QED BY <2>3, <2>4, <2>5 DEF IndInv, RingInv
<1>3. ASSUME NEW k \in Kinds, NEW i \in 1 .. Places, Create(k, i) PROVE IndInv'
  <2>1. TypeOK'
    BY <1>0, <1>3, MainTyped
  <2>2. HubInv'
    BY <1>0, <1>3, <2>1, CreateSteps DEF HubInv
  <2>3. UNCHANGED <<ring, cursor, producer, reader, writing>>
    BY <1>3 DEF Create, ringVars
  <2>4. reader.at = "copy" => kind'[reader.buffer] = kind[reader.buffer]
    <3>1. ASSUME reader.at = "copy" PROVE kind'[reader.buffer] = kind[reader.buffer]
      <4>1. reader.buffer \in 1 .. serial /\ reader.buffer \in Handles /\ serial \in 0 .. MaxStreams
        BY <1>0, <3>1, ReaderAt DEF TypeOK
      <4>2. reader.buffer # serial + 1
        BY <4>1
      <4> QED BY <1>0, <1>3, <4>1, <4>2 DEF Create, TypeOK
    <3> QED BY <3>1
  <2>5. SlotWell'
    BY <1>0, <2>3, <2>4, MainSlots
  <2>6. LockWell'
    BY <1>0, <2>3 DEF LockWell, Writes
  <2>7. AllocationCovers'
    BY <1>0, <1>3, CreateCovers
  <2> QED BY <2>2, <2>5, <2>6, <2>7 DEF IndInv, RingInv
<1>4. ASSUME Created \/ Closed \/ \E h \in Handles : Close(h) PROVE IndInv'
  <2>1. TypeOK'
    BY <1>0, <1>4, MainTyped
  <2>2. HubInv'
    BY <1>0, <1>4, <2>1, CreatedSteps, ClosedSteps, CloseSteps DEF HubInv
  <2>3. UNCHANGED <<serial, place, ring, cursor, producer, reader, kind, writing, held, cached>>
    BY <1>4 DEF Created, Closed, Close, ringVars
  <2>4. SlotWell' /\ LockWell'
    BY <1>0, <2>3, MainSlots DEF LockWell, Writes
  <2>5. AllocationCovers'
    <3>1. CASE Closed
      BY <1>0, <3>1, ClosedCovers
    <3>2. CASE Created \/ \E h \in Handles : Close(h)
      <4>1. UNCHANGED counted /\ \A j \in 1 .. Places : hub'[j].owned = hub[j].owned
        <5>1. UNCHANGED counted /\ \E i, b : hub' = [hub EXCEPT ![i].buffer = b]
          BY <3>2 DEF Created, Close
        <5>2. hub \in [1 .. Places -> Slots] /\ \A j \in 1 .. Places : hub[j] \in Slots
          BY <1>0 DEF TypeOK
        <5> QED BY <5>1, <5>2 DEF Slots
      <4>2. \A g \in 1 .. serial : place[g] \in 1 .. Places
        BY <1>0, Known DEF TypeOK
      <4>3. Owned' = Owned
        BY <2>3, <4>1, <4>2 DEF Owned
      <4> QED BY <1>0, <2>3, <4>1, <4>3, CountedKept DEF Shared
    <3> QED BY <1>4, <3>1, <3>2
  <2> QED BY <2>2, <2>4, <2>5 DEF IndInv, RingInv
<1>5. ASSUME NEW h \in Handles, Attach(h) \/ Detach(h) PROVE IndInv'
  <2>1. TypeOK'
    BY <1>0, <1>5, MainTyped
  <2>2. /\ UNCHANGED <<serial, place, hub, main, ring, cursor, producer, kind, writing, counted, cached>>
        /\ reader'.buffers = reader.buffers /\ reader'.todo = reader.todo /\ reader'.buffer = reader.buffer
        /\ reader'.index = reader.index
        /\ reader'.at \in {"claim", "copy"} <=> reader.at \in {"claim", "copy"}
        /\ reader'.at = "copy" <=> reader.at = "copy"
        /\ reader.at = "copy" => UNCHANGED reader
    BY <1>0, <1>5 DEF Attach, Detach, hubVars, ringVars, TypeOK
  <2>3. ReaderWell'
    BY <1>0, <2>2 DEF ReaderWell
  <2>4. HubInv'
    BY <1>0, <2>1, <2>2, <2>3, HubKept DEF HubInv
  <2>5. SlotWell' /\ LockWell'
    BY <1>0, <2>2, MainSlots DEF LockWell, Writes
  <2>6. AllocationCovers'
    <3>1. Owned' = Owned
      BY <2>2 DEF Owned
    <3>2. \A g \in 1 .. serial : Shared(g)' => g \in Owned \/ Shared(g)
      BY <1>5, <2>2 DEF Attach, Detach, Shared
    <3> QED BY <1>0, <2>2, <3>1, <3>2, CountedKept
  <2> QED BY <2>4, <2>5, <2>6 DEF IndInv, RingInv
<1>6. CASE UNCHANGED vars
  <2>1. TypeOK' /\ ReaderWell'
    BY <1>0, <1>6 DEF vars, TypeOK, ReaderWell
  <2>2. HubInv'
    BY <1>0, <1>6, <2>1, HubKept DEF vars, HubInv
  <2>3. SlotWell' /\ LockWell'
    BY <1>0, <1>6, MainSlots DEF vars, LockWell, Writes
  <2>4. AllocationCovers'
    BY <1>0, <1>6, CountedKept DEF vars, Owned, Shared
  <2> QED BY <2>2, <2>3, <2>4 DEF IndInv, RingInv
<1> QED BY <1>1, <1>2, <1>3, <1>4, <1>5, <1>6 DEF Next

\* All of the above holds in every reachable state.
THEOREM Invariant == Spec => []IndInv
BY InitInv, NextInv, PTL DEF Spec

\* Every variable has its type: the reader count of a place never exceeds the
\* producers there are, nor does the transport leave a ring's slots.
THEOREM Typed == Spec => []TypeOK
<1>1. IndInv => TypeOK
  BY DEF IndInv, RingInv, HubInv
<1> QED BY <1>1, Invariant, PTL

\* A producer inside a buffer is inside the one its handle names, which the hub
\* owns: neither a close() nor the stream created next at the place can turn its
\* packet into freed memory or into a foreign one.
THEOREM ProducersAtTheirOwn == Spec => []OwnStream
<1>1. IndInv => OwnStream
  BY DEF IndInv, RingInv, HubInv
<1> QED BY <1>1, Invariant, PTL

\* A slot is written by one producer, or read by the transport, or neither, as
\* its state says.
THEOREM OneUserOfASlot == Spec => []SlotExclusive
<1>1. IndInv => SlotExclusive
  <2> SUFFICES ASSUME IndInv, NEW h \in Handles, NEW i \in Indexes
               PROVE  /\ Cardinality({p \in Producers : Stores(p, h, i)}) =
                           IF ring[h][i].state = Writing THEN 1 ELSE 0
                      /\ Reads(h, i) <=> ring[h][i].state = Reading
    BY DEF SlotExclusive, Stores, Reads
  <2>1. /\ ring[h][i].state = Writing <=> \E p \in Producers : Stores(p, h, i)
        /\ ring[h][i].state = Reading <=> Reads(h, i)
    BY DEF IndInv, RingInv, SlotWell
  <2>2. CASE ring[h][i].state = Writing
    <3>1. PICK p \in Producers : Stores(p, h, i)
      BY <2>1, <2>2
    <3>2. \A q \in Producers : Stores(q, h, i) => q = p
      BY <3>1 DEF IndInv, RingInv, LockWell, Writes, Stores, At
    <3>3. {q \in Producers : Stores(q, h, i)} = {p}
      BY <3>1, <3>2
    <3>4. Cardinality({p}) = 1
      BY FS_Singleton
    <3> QED BY <2>1, <2>2, <3>3, <3>4
  <2>3. CASE ring[h][i].state # Writing
    <3>1. {q \in Producers : Stores(q, h, i)} = {}
      BY <2>1, <2>3
    <3> QED BY <2>1, <2>3, <3>1, FS_EmptySet
  <2> QED BY <2>2, <2>3
<1> QED BY <1>1, Invariant, PTL

\* The memory of every buffer somebody refers to is counted, and what is counted
\* stays within the limit.
THEOREM MemoryWithinLimit == Spec => []AllocationCovers
<1>1. IndInv => AllocationCovers
  BY DEF IndInv
<1> QED BY <1>1, Invariant, PTL

-----------------------------------------------------------------------------
(* What becomes of the packets.  The packet of number n lies in the slot    *)
(* (n - 1) % Capacity; the facts about remainders it takes come first.      *)

LEMMA Division ==
  ASSUME NEW n \in Nat
  PROVE  n \div Capacity \in Nat /\ n % Capacity \in Indexes /\ n = (n \div Capacity) * Capacity + (n % Capacity)
BY StreamsAssumption DEF Indexes

\* A number has one remainder.
LEMMA Remainder ==
  ASSUME NEW n \in Nat, NEW q \in Nat, NEW r \in Indexes, n = q * Capacity + r
  PROVE  n % Capacity = r
<1> DEFINE d == n \div Capacity
           m == n % Capacity
<1>1. d \in Nat /\ m \in 0 .. Capacity - 1 /\ r \in 0 .. Capacity - 1 /\ q * Capacity + r = d * Capacity + m
  BY Division DEF Indexes
<1> HIDE DEF d, m
<1>2. CASE d = q
  <2>1. q * Capacity \in Nat
    BY StreamsAssumption
  <2> QED BY <1>1, <1>2, <2>1, StreamsAssumption DEF m
<1>3. CASE d > q
  <2>1. PICK k \in Nat : d = q + 1 + k
    <3>1. d - q - 1 \in Nat
      BY <1>1, <1>3
    <3> QED BY <1>1, <3>1
  <2>2. d * Capacity = q * Capacity + Capacity + k * Capacity
    BY <1>1, <2>1, StreamsAssumption
  <2>3. k * Capacity \in Nat /\ q * Capacity \in Nat
    BY StreamsAssumption
  <2> QED BY <1>1, <2>2, <2>3, StreamsAssumption
<1>4. CASE q > d
  <2>1. PICK k \in Nat : q = d + 1 + k
    <3>1. q - d - 1 \in Nat
      BY <1>1, <1>4
    <3> QED BY <1>1, <3>1
  <2>2. q * Capacity = d * Capacity + Capacity + k * Capacity
    BY <1>1, <2>1, StreamsAssumption
  <2>3. k * Capacity \in Nat /\ d * Capacity \in Nat
    BY <1>1, StreamsAssumption
  <2> QED BY <1>1, <2>2, <2>3, StreamsAssumption
<1> QED BY <1>1, <1>2, <1>3, <1>4

LEMMA Following ==
  ASSUME NEW n \in Nat
  PROVE  (n + 1) % Capacity = IF n % Capacity = Capacity - 1 THEN 0 ELSE (n % Capacity) + 1
<1> DEFINE q == n \div Capacity
           r == n % Capacity
<1>1. q \in Nat /\ r \in 0 .. Capacity - 1 /\ n = q * Capacity + r
  BY Division DEF Indexes
<1> HIDE DEF q, r
<1>2. CASE r = Capacity - 1
  <2>1. n + 1 = (q + 1) * Capacity + 0 /\ q + 1 \in Nat /\ 0 \in Indexes /\ n + 1 \in Nat
    BY <1>1, <1>2, StreamsAssumption DEF Indexes
  <2>2. (n + 1) % Capacity = 0
    BY <2>1, Remainder
  <2> QED BY <1>2, <2>2 DEF r
<1>3. CASE r # Capacity - 1
  <2>1. n + 1 = q * Capacity + (r + 1) /\ r + 1 \in Indexes /\ n + 1 \in Nat
    BY <1>1, <1>3, StreamsAssumption DEF Indexes
  <2>2. (n + 1) % Capacity = r + 1
    BY <1>1, <2>1, Remainder
  <2> QED BY <1>3, <2>2 DEF r
<1> QED BY <1>2, <1>3

\* Advancing a position of the ring is the next number's position.
LEMMA Around == ASSUME NEW n \in Nat PROVE ((n % Capacity) + 1) % Capacity = (n + 1) % Capacity
<1>1. n % Capacity \in 0 .. Capacity - 1 /\ n % Capacity \in Nat
  BY Division DEF Indexes
<1>2. (n % Capacity) % Capacity = n % Capacity
  BY <1>1, StreamsAssumption
<1>3. ((n % Capacity) + 1) % Capacity =
        IF (n % Capacity) % Capacity = Capacity - 1 THEN 0 ELSE ((n % Capacity) % Capacity) + 1
  BY <1>1, Following
<1> QED BY <1>2, <1>3, Following

LEMMA OneRound == ASSUME NEW n \in Nat PROVE (n + Capacity) % Capacity = n % Capacity
<1> DEFINE q == n \div Capacity
           r == n % Capacity
<1>1. q \in Nat /\ r \in Indexes /\ n = q * Capacity + r
  BY Division
<1> HIDE DEF q, r
<1>2. n + Capacity = (q + 1) * Capacity + r /\ q + 1 \in Nat /\ n + Capacity \in Nat
  BY <1>1, StreamsAssumption DEF Indexes
<1> QED BY <1>1, <1>2, Remainder DEF r

\* Numbers less than a round apart have slots of their own.
LEMMA Apart ==
  ASSUME NEW a \in Nat, NEW b \in Nat, a < b, b - a < Capacity
  PROVE  a % Capacity # b % Capacity
<1> DEFINE q == a \div Capacity
           r == a % Capacity
           k == b - a
<1>1. q \in Nat /\ r \in 0 .. Capacity - 1 /\ k \in 1 .. Capacity - 1 /\ b = q * Capacity + (r + k)
  <2>1. q \in Nat /\ r \in 0 .. Capacity - 1 /\ a = q * Capacity + r
    BY Division DEF Indexes
  <2>2. k \in 1 .. Capacity - 1 /\ b = a + k
    BY StreamsAssumption
  <2>3. q * Capacity \in Nat
    BY <2>1, StreamsAssumption
  <2> QED BY <2>1, <2>2, <2>3
<1> HIDE DEF q, r, k
<1>2. CASE r + k < Capacity
  <2>1. b % Capacity = r + k
    BY <1>1, <1>2, Remainder, StreamsAssumption DEF Indexes
  <2> QED BY <1>1, <2>1 DEF r
<1>3. CASE r + k >= Capacity
  <2>0. q * Capacity \in Nat /\ (q + 1) * Capacity = q * Capacity + Capacity
    BY <1>1, StreamsAssumption
  <2>1. b = (q + 1) * Capacity + (r + k - Capacity) /\ r + k - Capacity \in Indexes /\ q + 1 \in Nat
    BY <1>1, <1>3, <2>0, StreamsAssumption DEF Indexes
  <2>2. b % Capacity = r + k - Capacity
    BY <2>1, Remainder
  <2> QED BY <1>1, <2>2, StreamsAssumption DEF r
<1> QED BY <1>1, <1>2, <1>3, StreamsAssumption

\* The slot of the packet that comes after the first n.
Slot(h, n) == ring[h][n % Capacity]
Holds(s)   == s.state \in {Full, Reading}

\* A stream that is not created yet has an empty ring.
Fresh(h) ==
  /\ cursor[h] = [write |-> 0, read |-> 0, order |-> 0, seen |-> 0] /\ taken[h] = <<>>
  /\ \A i \in Indexes : ring[h][i] = [state |-> Empty, order |-> 0]

\* Audio and MIDI: the packets taken are the first ones, the ring holds the
\* others from read_ on, at most a round of them, and its other slots none.
FifoWell(h) ==
  LET got == Len(taken[h])  last == cursor[h].order IN
  /\ got <= last /\ last <= got + Capacity
  /\ cursor[h].read = got % Capacity
  /\ \A n \in 1 .. got : taken[h][n] = n
  /\ \A n \in got .. last - 1 : Holds(Slot(h, n)) /\ Slot(h, n).order = n + 1
  /\ \A n \in last .. got + Capacity - 1 : ~Holds(Slot(h, n))

\* Other kinds: the newest packet is taken, in the transport's hands or in the
\* slot before write_, which no producer claims next.
NewestWell(h) ==
  LET last == cursor[h].order IN
  \/ last = cursor[h].seen
  \/ reader.buffer = h /\ reader.newest = last
  \/ last >= 1 /\ Holds(Slot(h, last - 1)) /\ Slot(h, last - 1).order = last

LatestWell(h) ==
  LET last == cursor[h].order  seen == cursor[h].seen IN
  /\ Newest(h) = seen /\ seen <= last
  /\ \A n \in 2 .. Len(taken[h]) : taken[h][n - 1] < taken[h][n]
  /\ \A i \in Indexes : ring[h][i].order <= last
  /\ reader.buffer = h => seen <= reader.newest /\ reader.newest <= last
  /\ NewestWell(h)

StreamWell(h) ==
  /\ cursor[h].write = cursor[h].order % Capacity
  /\ h > serial => Fresh(h)
  /\ h <= serial => IF kind[h] = "fifo" THEN FifoWell(h) ELSE LatestWell(h)

\* Only the newest packet of a full ring gives way, and the transport has no
\* ring between two of them.
StealsLatest == \A p \in Producers : At(p, "steal") => kind[producer[p].buffer] = "latest"
ReaderFree   == reader.at \in {"none", "pass", "next"} => reader.buffer = None

KeptInv == StealsLatest /\ ReaderFree /\ \A h \in Handles : StreamWell(h)

\* The types of one stream's state.
LEMMA StreamTyped ==
  ASSUME TypeOK, NEW h \in Handles
  PROVE  /\ cursor[h] \in [write : Indexes, read : Indexes, order : Nat, seen : Nat]
         /\ cursor[h].order \in Nat /\ cursor[h].seen \in Nat
         /\ ring[h] \in [Indexes -> [state : 0 .. 3, order : Nat]]
         /\ \A i \in Indexes : ring[h][i].order \in Nat /\ ring[h][i].state \in 0 .. 3
         /\ taken[h] \in Seq(Nat) /\ Len(taken[h]) \in Nat /\ reader.newest \in Nat
         /\ kind[h] \in Kinds /\ h \in Nat /\ serial \in Nat
<1>1. taken[h] \in Seq(Nat)
  BY DEF TypeOK
<1>2. serial \in Nat /\ h \in Nat
  BY StreamsAssumption DEF TypeOK, Handles
<1> QED BY <1>1, <1>2 DEF TypeOK

LEMMA SlotIndex == ASSUME NEW n \in Nat PROVE n % Capacity \in Indexes
BY Division

\* A stream whose ring, taken packets and reader stay is well as before.
LEMMA StreamKept ==
  ASSUME TypeOK, NEW h \in Handles, StreamWell(h),
         ring'[h] = ring[h], cursor'[h] = cursor[h], taken'[h] = taken[h], kind'[h] = kind[h],
         UNCHANGED serial,
         kind[h] = "latest" => reader'.buffer = h <=> reader.buffer = h,
         reader.buffer = h /\ kind[h] = "latest" => reader'.newest = reader.newest
  PROVE  StreamWell(h)'
<1>1. cursor'[h].write = cursor'[h].order % Capacity
  BY DEF StreamWell
<1>2. h > serial => Fresh(h)'
  BY DEF StreamWell, Fresh
<1>3. kind[h] = "fifo" /\ h <= serial => FifoWell(h)'
  BY DEF StreamWell, FifoWell, Slot
<1>4. kind[h] # "fifo" /\ h <= serial => LatestWell(h)'
  <2> SUFFICES ASSUME kind[h] # "fifo", h <= serial PROVE LatestWell(h)'
    OBVIOUS
  <2>1. LatestWell(h) /\ kind[h] = "latest"
    BY StreamTyped DEF StreamWell, Kinds
  <2>2. NewestWell(h)'
    BY <2>1 DEF LatestWell, NewestWell, Slot
  <2> QED BY <2>1, <2>2 DEF LatestWell, Newest
<1> QED BY <1>1, <1>2, <1>3, <1>4 DEF StreamWell

\* What an exchange leaves of the slots.
LEMMA Exchanges ==
  ASSUME TypeOK, NEW h \in Handles, NEW i \in Indexes, NEW to \in 0 .. 3, ring' = Exchanged(h, i, to)
  PROVE  /\ \A g \in Handles : g # h => ring'[g] = ring[g]
         /\ \A j \in Indexes : /\ ring'[h][j].order = ring[h][j].order
                               /\ ring'[h][j].state = IF j = i THEN to ELSE ring[h][j].state
<1>1. ring \in [Handles -> [Indexes -> [state : 0 .. 3, order : Nat]]]
  BY DEF TypeOK
<1>2. ring[h] \in [Indexes -> [state : 0 .. 3, order : Nat]] /\ ring[h][i] \in [state : 0 .. 3, order : Nat]
  BY <1>1
<1>3. ring' = [ring EXCEPT ![h] = [ring[h] EXCEPT ![i] = [ring[h][i] EXCEPT !.state = to]]]
  BY <1>1, <1>2 DEF Exchanged
<1> QED BY <1>1, <1>2, <1>3

\* An exchange that neither fills nor empties a slot keeps an audio or MIDI ring.
LEMMA FifoExchange ==
  ASSUME TypeOK, NEW h \in Handles, NEW i \in Indexes, NEW to \in 0 .. 3, ring' = Exchanged(h, i, to),
         FifoWell(h), cursor'[h] = cursor[h], taken'[h] = taken[h],
         Holds(ring[h][i]) <=> to \in {Full, Reading}
  PROVE  FifoWell(h)'
<1>1. \A j \in Indexes : ring'[h][j].order = ring[h][j].order /\ (Holds(ring'[h][j]) <=> Holds(ring[h][j]))
  BY Exchanges DEF Holds
<1>2. Len(taken[h]) \in Nat /\ cursor[h].order \in Nat /\ Capacity \in Nat
  BY StreamTyped, StreamsAssumption
<1>3. \A n \in Nat : Slot(h, n)'.order = Slot(h, n).order /\ (Holds(Slot(h, n))' <=> Holds(Slot(h, n)))
  BY <1>1, SlotIndex DEF Slot, Holds
<1> DEFINE got == Len(taken[h])
           last == cursor[h].order
<1>4. got' = got /\ last' = last /\ got \in Nat /\ last \in Nat
  BY <1>2
<1>5. /\ got <= last /\ last <= got + Capacity /\ cursor'[h].read = got % Capacity
      /\ \A n \in 1 .. got : taken'[h][n] = n
  BY DEF FifoWell
<1>6. \A n \in got .. last - 1 : Holds(Slot(h, n)) /\ Slot(h, n).order = n + 1
  BY DEF FifoWell
<1>7. \A n \in last .. got + Capacity - 1 : ~Holds(Slot(h, n))
  BY DEF FifoWell
<1> HIDE DEF got, last
<1>8. \A n \in got .. last - 1 : Holds(Slot(h, n))' /\ Slot(h, n)'.order = n + 1
  <2> SUFFICES ASSUME NEW n \in got .. last - 1 PROVE Holds(Slot(h, n))' /\ Slot(h, n)'.order = n + 1
    OBVIOUS
  <2>1. n \in Nat
    BY <1>4
  <2> QED BY <2>1, <1>3, <1>6
<1>9. \A n \in last .. got + Capacity - 1 : ~Holds(Slot(h, n))'
  <2> SUFFICES ASSUME NEW n \in last .. got + Capacity - 1 PROVE ~Holds(Slot(h, n))'
    OBVIOUS
  <2>1. n \in Nat
    BY <1>2, <1>4
  <2> QED BY <2>1, <1>3, <1>7
<1> QED BY <1>4, <1>5, <1>8, <1>9 DEF FifoWell, got, last

\* An exchange keeps the ring of another kind unless it takes the newest packet.
LEMMA LatestExchange ==
  ASSUME TypeOK, NEW h \in Handles, NEW i \in Indexes, NEW to \in 0 .. 3, ring' = Exchanged(h, i, to),
         LatestWell(h), cursor'[h] = cursor[h], taken'[h] = taken[h],
         reader'.buffer = reader.buffer, reader'.newest = reader.newest,
         \/ to \in {Full, Reading} \/ ~Holds(ring[h][i])
         \/ cursor[h].order >= 1 => i # (cursor[h].order - 1) % Capacity
  PROVE  LatestWell(h)'
<1> DEFINE last == cursor[h].order
<1>1. last \in Nat
  BY StreamTyped
<1>2. \A j \in Indexes : ring'[h][j].order = ring[h][j].order
  BY Exchanges
<1>3. NewestWell(h)'
  <2>1. NewestWell(h)
    BY DEF LatestWell
  <2>2. CASE last = cursor[h].seen \/ (reader.buffer = h /\ reader.newest = last)
    BY <2>2 DEF NewestWell
  <2>3. CASE last >= 1 /\ Holds(Slot(h, last - 1)) /\ Slot(h, last - 1).order = last
    <3> DEFINE j == (last - 1) % Capacity
    <3>1. j \in Indexes
      BY <1>1, <2>3, SlotIndex
    <3>2. ring'[h][j].order = last
      BY <1>2, <2>3, <3>1 DEF Slot
    <3>3. Holds(ring'[h][j])
      <4>1. ring'[h][j].state = IF j = i THEN to ELSE ring[h][j].state
        BY <3>1, Exchanges
      <4>2. Holds(ring[h][j])
        BY <2>3 DEF Slot
      <4>3. j = i => to \in {Full, Reading}
        BY <2>3, <4>2
      <4> QED BY <4>1, <4>2, <4>3 DEF Holds
    <3> QED BY <2>3, <3>2, <3>3 DEF NewestWell, Slot, Holds
  <2> QED BY <2>1, <2>2, <2>3 DEF NewestWell
<1>4. \A j \in Indexes : ring'[h][j].order <= last
  BY <1>2 DEF LatestWell
<1> QED BY <1>3, <1>4 DEF LatestWell, Newest

LEMMA KeptInit == Init => KeptInv
<1> SUFFICES ASSUME Init PROVE KeptInv
  OBVIOUS
<1>1. TypeOK /\ 0 % Capacity = 0
  BY InitTyped, StreamsAssumption
<1>2. StealsLatest /\ ReaderFree
  BY DEF Init, StealsLatest, ReaderFree, At
<1>3. ASSUME NEW h \in Handles PROVE StreamWell(h)
  <2>1. Fresh(h)
    BY DEF Init, Fresh
  <2>2. serial = 0 /\ h \in Nat \ {0}
    BY StreamsAssumption DEF Init, Handles
  <2> QED BY <1>1, <2>1, <2>2 DEF StreamWell, Fresh
<1> QED BY <1>2, <1>3 DEF KeptInv

\* The ring of a new stream is well for either kind.
LEMMA FreshWell ==
  ASSUME TypeOK, NEW h \in Handles, Fresh(h), reader.buffer # h
  PROVE  FifoWell(h) /\ LatestWell(h)
<1>1. /\ cursor[h].order = 0 /\ cursor[h].seen = 0 /\ cursor[h].read = 0 /\ Len(taken[h]) = 0 /\ taken[h] = <<>>
      /\ 0 % Capacity = 0 /\ Capacity \in Nat
  BY StreamsAssumption DEF Fresh
<1>2. \A n \in Nat : ~Holds(Slot(h, n))
  BY SlotIndex DEF Fresh, Slot, Holds, Empty, Full, Reading
<1>3. FifoWell(h)
  BY <1>1, <1>2 DEF FifoWell
<1>4. Newest(h) = 0 /\ NewestWell(h)
  BY <1>1 DEF Newest, NewestWell
<1>5. \A i \in Indexes : ring[h][i].order = 0
  BY DEF Fresh
<1> QED BY <1>1, <1>3, <1>4, <1>5 DEF LatestWell

LEMMA KeptCreate ==
  ASSUME RingInv, KeptInv, NEW k \in Kinds, NEW i \in 1 .. Places, Create(k, i)
  PROVE  KeptInv'
<1> DEFINE g == serial + 1
<1>0. TypeOK /\ ReaderWell /\ serial \in Nat /\ g \in Handles
  <2>1. TypeOK /\ ReaderWell /\ serial \in 0 .. MaxStreams /\ serial < MaxStreams
    BY DEF Create, RingInv, HubInv, TypeOK
  <2> QED BY <2>1, StreamsAssumption DEF Handles
<1>1. /\ UNCHANGED <<ring, cursor, writing, producer, reader, taken>> /\ serial' = g
      /\ kind'[g] = k /\ \A h \in Handles : h # g => kind'[h] = kind[h]
  BY <1>0 DEF Create, ringVars, TypeOK
<1>2. StealsLatest'
  <2>1. ASSUME NEW p \in Producers, At(p, "steal") PROVE kind'[producer[p].buffer] = "latest"
    <3>1. producer[p].buffer \in Handles /\ producer[p].buffer \in 1 .. serial
      BY <2>1, InsideBuffer DEF RingInv, HubInv, Inside, At
    <3>2. producer[p].buffer # g
      BY <1>0, <3>1
    <3> QED BY <1>1, <2>1, <3>1, <3>2 DEF KeptInv, StealsLatest
  <2> QED BY <1>1, <2>1 DEF StealsLatest, At
<1>3. ReaderFree'
  BY <1>1 DEF KeptInv, ReaderFree
<1>4. reader.buffer # g
  <2>1. CASE reader.at \in {"claim", "copy"}
    <3>1. reader.buffer \in 1 .. serial
      BY <1>0, <2>1, ReaderAt
    <3> QED BY <1>0, <3>1
  <2>2. CASE reader.at \in {"none", "pass", "next"}
    <3>1. reader.buffer = 0
      BY <2>2 DEF KeptInv, ReaderFree, None
    <3> QED BY <1>0, <3>1
  <2> QED BY <1>0, <2>1, <2>2 DEF TypeOK
<1>5. ASSUME NEW h \in Handles PROVE StreamWell(h)'
  <2>0. StreamWell(h) /\ h \in Nat
    BY StreamTyped, <1>0 DEF KeptInv
  <2>1. cursor'[h].write = cursor'[h].order % Capacity
    BY <1>1, <2>0 DEF StreamWell
  <2>2. Fresh(h)' <=> Fresh(h)
    BY <1>1 DEF Fresh
  <2>3. (FifoWell(h)' <=> FifoWell(h)) /\ (LatestWell(h)' <=> LatestWell(h))
    BY <1>1 DEF FifoWell, LatestWell, NewestWell, Newest, Slot
  <2>4. CASE h = g
    <3>1. FifoWell(h) /\ LatestWell(h)
      BY <1>0, <1>4, <2>0, <2>4, FreshWell DEF StreamWell
    <3> QED BY <1>0, <1>1, <2>1, <2>3, <2>4, <3>1 DEF StreamWell
  <2>5. CASE h # g
    <3>1. (h > serial' => h > serial) /\ (h <= serial' => h <= serial) /\ kind'[h] = kind[h]
      BY <1>0, <1>1, <2>0, <2>5
    <3> QED BY <2>0, <2>1, <2>2, <2>3, <3>1 DEF StreamWell
  <2> QED BY <2>4, <2>5
<1> QED BY <1>2, <1>3, <1>5 DEF KeptInv

\* Steps that touch no ring, and move no producer to its second exchange.
LEMMA KeptAside ==
  ASSUME RingInv, KeptInv, UNCHANGED <<serial, kind, ring, cursor, taken>>,
         reader'.buffer = reader.buffer, reader'.newest = reader.newest,
         reader'.at \in {"none", "pass", "next"} => reader.at \in {"none", "pass", "next"},
         \A p \in Producers : At(p, "steal")' => At(p, "steal") /\ producer'[p].buffer = producer[p].buffer
  PROVE  KeptInv'
<1>1. StealsLatest' /\ ReaderFree'
  BY DEF KeptInv, StealsLatest, ReaderFree
<1>2. \A h \in Handles : StreamWell(h)'
  BY StreamKept DEF KeptInv, RingInv, HubInv
<1> QED BY <1>1, <1>2 DEF KeptInv

\* The exchanges of a producer at write_.
LEMMA KeptClaimed ==
  ASSUME RingInv, KeptInv, NEW p \in Producers, Writes(p),
         \/ slotOf(producer[p].buffer).state = Empty
         \/ slotOf(producer[p].buffer).state = Full /\ kind[producer[p].buffer] = "latest",
         ring' = Exchanged(producer[p].buffer, cursor[producer[p].buffer].write, Writing),
         UNCHANGED <<serial, kind, cursor, reader, taken>>
  PROVE  \A h \in Handles : StreamWell(h)'
<1>b. PICK b \in Handles : b = producer[p].buffer
  BY InsideBuffer DEF RingInv, HubInv, Inside, Writes
<1>w. PICK w \in Indexes : w = cursor[b].write
  BY <1>b, InsideBuffer DEF RingInv, HubInv, Inside, Writes
<1>0. TypeOK /\ b \in 1 .. serial /\ Writing \in 0 .. 3 /\ ring' = Exchanged(b, w, Writing)
  BY <1>b, <1>w, InsideBuffer DEF RingInv, HubInv, Inside, Writes, Writing
<1>1. ASSUME NEW h \in Handles, h # b PROVE StreamWell(h)'
  <2>1. ring'[h] = ring[h]
    BY <1>0, <1>1, Exchanges
  <2> QED BY <1>0, <2>1, StreamKept DEF KeptInv
<1>2. StreamWell(b)'
  <2>0. StreamWell(b) /\ w = cursor[b].order % Capacity /\ b <= serial /\ ~(b > serial) /\ cursor[b].order \in Nat
    BY <1>0, <1>w, StreamTyped DEF KeptInv, StreamWell
  <2>1. CASE kind[b] = "fifo"
    <3>1. ~Holds(ring[b][w]) /\ Writing \notin {Full, Reading}
      BY <1>b, <1>w, <2>1 DEF slotOf, Holds, Empty, Full, Reading, Writing
    <3>2. FifoWell(b)
      BY <2>0, <2>1 DEF StreamWell
    <3>3. FifoWell(b)'
      BY <1>0, <3>1, <3>2, FifoExchange
    <3> QED BY <2>0, <2>1, <3>3 DEF StreamWell
  <2>2. CASE kind[b] # "fifo"
    <3>1. LatestWell(b)
      BY <2>0, <2>2 DEF StreamWell
    <3>2. cursor[b].order >= 1 => w # (cursor[b].order - 1) % Capacity
      <4>1. ASSUME cursor[b].order >= 1 PROVE w # (cursor[b].order - 1) % Capacity
        <5>1. cursor[b].order - 1 \in Nat /\ cursor[b].order - 1 < cursor[b].order
              /\ cursor[b].order - (cursor[b].order - 1) < Capacity
          BY <2>0, <4>1, StreamsAssumption
        <5> QED BY <2>0, <5>1, Apart
      <4> QED BY <4>1
    <3>3. LatestWell(b)'
      BY <1>0, <3>1, <3>2, LatestExchange
    <3> QED BY <2>0, <2>2, <3>3 DEF StreamWell
  <2> QED BY <2>1, <2>2
<1> QED BY <1>1, <1>2

LEMMA KeptStored ==
  ASSUME RingInv, KeptInv, NEW p \in Producers, Store(p)
  PROVE  \A h \in Handles : StreamWell(h)'
<1>b. PICK b \in Handles : b = producer[p].buffer
  BY InsideBuffer DEF RingInv, HubInv, Inside, Store, At
<1>w. PICK w \in Indexes : w = cursor[b].write
  BY <1>b, InsideBuffer DEF RingInv, HubInv, Inside, Store, At
<1>l. PICK last \in Nat : last = cursor[b].order
  BY StreamTyped DEF RingInv, HubInv
<1>0. TypeOK /\ b \in 1 .. serial
  BY <1>b, InsideBuffer DEF RingInv, HubInv, Inside, Store, At
<1>1. /\ UNCHANGED <<serial, kind, taken, reader>> /\ At(p, "store")
      /\ ring' = [ring EXCEPT ![b][w] = [state |-> Full, order |-> last + 1]]
      /\ cursor' = [cursor EXCEPT ![b].order = last + 1, ![b].write = (w + 1) % Capacity]
  BY <1>b, <1>w, <1>l DEF Store, hubVars, TypeOK, RingInv, HubInv
<1>2. /\ \A h \in Handles : h # b => ring'[h] = ring[h] /\ cursor'[h] = cursor[h]
      /\ ring'[b][w] = [state |-> Full, order |-> last + 1]
      /\ \A j \in Indexes : j # w => ring'[b][j] = ring[b][j]
      /\ cursor'[b].order = last + 1 /\ cursor'[b].write = (w + 1) % Capacity
      /\ cursor'[b].read = cursor[b].read /\ cursor'[b].seen = cursor[b].seen
  <2>1. ring \in [Handles -> [Indexes -> [state : 0 .. 3, order : Nat]]] /\ ring[b] \in [Indexes -> [state : 0 .. 3, order : Nat]]
        /\ cursor \in [Handles -> [write : Indexes, read : Indexes, order : Nat, seen : Nat]]
        /\ cursor[b] \in [write : Indexes, read : Indexes, order : Nat, seen : Nat]
    BY <1>0 DEF TypeOK
  <2> QED BY <1>1, <2>1
<1>3. ASSUME NEW h \in Handles, h # b PROVE StreamWell(h)'
  BY <1>0, <1>1, <1>2, <1>3, StreamKept DEF KeptInv
<1>4. StreamWell(b) /\ w = last % Capacity /\ b <= serial /\ ~(b > serial)
  BY <1>0, <1>w, <1>l, StreamTyped DEF KeptInv, StreamWell
<1>5. cursor'[b].write = cursor'[b].order % Capacity
  BY <1>2, <1>4, <1>l, Around
<1>6. ring[b][w].state = Writing /\ ~Holds(ring[b][w])
  <2>1. Stores(p, b, w)
    BY <1>b, <1>w, <1>1 DEF Stores
  <2> QED BY <2>1 DEF RingInv, SlotWell, Holds, Writing, Full, Reading
<1>7. \A n \in Nat : n # last /\ n - last < Capacity /\ last - n < Capacity => Slot(b, n)' = Slot(b, n)
  <2> SUFFICES ASSUME NEW n \in Nat, n # last, n - last < Capacity, last - n < Capacity PROVE Slot(b, n)' = Slot(b, n)
    OBVIOUS
  <2>1. n % Capacity # w /\ n % Capacity \in Indexes
    BY <1>4, Apart, SlotIndex
  <2> QED BY <1>2, <2>1 DEF Slot
<1>8. Slot(b, last)' = [state |-> Full, order |-> last + 1] /\ Slot(b, last) = ring[b][w]
  BY <1>2, <1>4 DEF Slot
<1>9. Capacity \in Nat \ {0, 1} /\ Len(taken[b]) \in Nat
  BY <1>0, StreamTyped, StreamsAssumption
<1>10. ASSUME kind[b] = "fifo" PROVE StreamWell(b)'
  <2> DEFINE got == Len(taken[b])
  <2>1. FifoWell(b)
    BY <1>4, <1>10 DEF StreamWell
  <2>2. got <= last /\ last <= got + Capacity
    BY <2>1, <1>l DEF FifoWell
  <2>3. last # got + Capacity
    <3>1. ASSUME last = got + Capacity PROVE FALSE
      <4>1. got \in got .. last - 1
        BY <1>9, <3>1
      <4>2. Holds(Slot(b, got))
        BY <1>l, <2>1, <4>1 DEF FifoWell
      <4>3. Slot(b, got) = Slot(b, last)
        BY <1>9, <3>1, OneRound DEF Slot
      <4> QED BY <1>6, <1>8, <4>2, <4>3
    <3> QED BY <3>1
  <2>4. ASSUME NEW n \in got .. last PROVE Holds(Slot(b, n))' /\ Slot(b, n)'.order = n + 1
    <3>1. CASE n = last
      BY <1>8, <3>1 DEF Holds
    <3>2. CASE n # last
      <4>1. n \in Nat /\ n \in got .. last - 1 /\ n - last < Capacity /\ last - n < Capacity
        BY <1>9, <2>2, <2>3, <3>2
      <4>2. Slot(b, n)' = Slot(b, n)
        BY <1>7, <3>2, <4>1
      <4>3. Holds(Slot(b, n)) /\ Slot(b, n).order = n + 1
        BY <1>l, <2>1, <4>1 DEF FifoWell
      <4> QED BY <4>2, <4>3 DEF Holds
    <3> QED BY <3>1, <3>2
  <2>5. ASSUME NEW n \in last + 1 .. got + Capacity - 1 PROVE ~Holds(Slot(b, n))'
    <3>1. n \in Nat /\ n \in last .. got + Capacity - 1 /\ n # last /\ n - last < Capacity /\ last - n < Capacity
      BY <1>9, <2>2
    <3>2. Slot(b, n)' = Slot(b, n)
      BY <1>7, <3>1
    <3>3. ~Holds(Slot(b, n))
      BY <1>l, <2>1, <3>1 DEF FifoWell
    <3> QED BY <3>2, <3>3 DEF Holds
  <2>6. got <= last + 1 /\ last + 1 <= got + Capacity /\ last + 1 - 1 = last
    BY <1>9, <2>2, <2>3
  <2>7. FifoWell(b)'
    <3>1. taken'[b] = taken[b] /\ cursor'[b].order = last + 1
      BY <1>1, <1>2
    <3>2. \A n \in Len(taken'[b]) .. cursor'[b].order - 1 : Holds(Slot(b, n))' /\ Slot(b, n)'.order = n + 1
      BY <2>4, <2>6, <3>1
    <3>3. \A n \in cursor'[b].order .. Len(taken'[b]) + Capacity - 1 : ~Holds(Slot(b, n))'
      BY <2>5, <3>1
    <3>4. cursor'[b].read = Len(taken'[b]) % Capacity /\ \A n \in 1 .. Len(taken'[b]) : taken'[b][n] = n
      BY <1>2, <2>1, <3>1 DEF FifoWell
    <3>5. Len(taken'[b]) <= cursor'[b].order /\ cursor'[b].order <= Len(taken'[b]) + Capacity
      BY <2>6, <3>1
    <3> QED BY <3>2, <3>3, <3>4, <3>5 DEF FifoWell
  <2> QED BY <1>1, <1>4, <1>5, <1>10, <2>7 DEF StreamWell
<1>11. ASSUME kind[b] # "fifo" PROVE StreamWell(b)'
  <2>1. LatestWell(b) /\ cursor[b].seen \in Nat /\ reader.newest \in Nat
    BY <1>0, <1>4, <1>11, StreamTyped DEF StreamWell
  <2>2. NewestWell(b)'
    <3>1. cursor'[b].order = last + 1 /\ cursor'[b].order >= 1 /\ cursor'[b].order - 1 = last
      BY <1>2
    <3> QED BY <3>1, <1>8 DEF NewestWell, Holds
  <2>3. \A j \in Indexes : ring'[b][j].order <= last + 1
    <3>1. \A j \in Indexes : ring[b][j].order <= last /\ ring[b][j].order \in Nat
      BY <1>0, <1>l, <2>1, StreamTyped DEF LatestWell
    <3>2. \A j \in Indexes : ring'[b][j].order = last + 1 \/ ring'[b][j].order = ring[b][j].order
      BY <1>2
    <3> QED BY <3>1, <3>2
  <2>4. Newest(b)' = cursor'[b].seen /\ cursor'[b].seen <= last + 1
    BY <1>1, <1>2, <1>l, <2>1 DEF LatestWell, Newest
  <2>5. reader.buffer = b => cursor'[b].seen <= reader.newest /\ reader.newest <= last + 1
    BY <1>2, <1>l, <2>1 DEF LatestWell
  <2>6. \A n \in 2 .. Len(taken[b]) : taken[b][n - 1] < taken[b][n]
    BY <2>1 DEF LatestWell
  <2>7. LatestWell(b)'
    <3>1. \A j \in Indexes : ring'[b][j].order <= cursor'[b].order
      BY <1>2, <2>3
    <3>2. reader'.buffer = b => cursor'[b].seen <= reader'.newest /\ reader'.newest <= cursor'[b].order
      BY <1>1, <1>2, <2>5
    <3>3. Newest(b)' = cursor'[b].seen /\ cursor'[b].seen <= cursor'[b].order
      BY <1>2, <2>4
    <3>4. \A n \in 2 .. Len(taken'[b]) : taken'[b][n - 1] < taken'[b][n]
      BY <1>1, <2>6
    <3> QED BY <2>2, <3>1, <3>2, <3>3, <3>4 DEF LatestWell
  <2> QED BY <1>1, <1>4, <1>5, <1>11, <2>7 DEF StreamWell
<1> QED BY <1>3, <1>10, <1>11

\* A producer's steps.
LEMMA KeptPublish ==
  ASSUME RingInv, KeptInv, NEW p \in Producers, Publish(p) \/ \E h \in Handles : Enter(p, h)
  PROVE  KeptInv'
<1>0. producer \in [Producers -> [at : Stations, handle : Handles \cup {None}, buffer : Handles \cup {None}]]
  BY DEF RingInv, HubInv, TypeOK
<1>1. CASE \/ \E h \in Handles : Enter(p, h)
           \/ Load(p) \/ Check(p) \/ CheckClosed(p) \/ Lock(p) \/ Unlock(p) \/ Leave(p)
  <2>1. UNCHANGED <<serial, kind, ring, cursor, reader, taken>>
    BY <1>1 DEF Enter, Load, Check, CheckClosed, Lock, Unlock, Leave, hubVars, ringVars
  <2>2. ~At(p, "steal")' /\ \A q \in Producers : q # p => producer'[q] = producer[q]
    <3>1. CASE (\E h \in Handles : Enter(p, h)) \/ Load(p) \/ Leave(p)
      <4>1. CASE \E h \in Handles : Enter(p, h)
        <5>1. PICK h \in Handles : producer' = [producer EXCEPT ![p] = [at |-> "load", handle |-> h, buffer |-> None]]
          BY <4>1 DEF Enter
        <5> QED BY <1>0, <5>1 DEF At
      <4>2. CASE Load(p)
        BY <1>0, <4>2 DEF Load, At
      <4>3. CASE Leave(p)
        <5>1. producer' = [producer EXCEPT ![p] = [at |-> "idle", handle |-> None, buffer |-> None]]
          BY <4>3 DEF Leave
        <5> QED BY <1>0, <5>1 DEF At
      <4> QED BY <3>1, <4>1, <4>2, <4>3
    <3>2. CASE Check(p) \/ CheckClosed(p) \/ Lock(p) \/ Unlock(p)
      <4>1. \E s \in {"open", "leave", "lock", "claim"} : Go(p, s)
        BY <3>2 DEF Check, CheckClosed, Lock, Unlock
      <4> QED BY <1>0, <4>1 DEF Go, At
    <3> QED BY <1>1, <3>1, <3>2
  <2> QED BY <2>1, <2>2, KeptAside DEF At
<1>2. CASE Claim(p) \/ Steal(p) \/ Store(p)
  <2>1. UNCHANGED <<serial, kind, reader, taken>> /\ Writes(p)
    BY <1>2 DEF Claim, Steal, Store, hubVars, Writes, At
  <2>2. /\ \A q \in Producers : q # p => producer'[q] = producer[q]
        /\ producer'[p].buffer = producer[p].buffer
        /\ At(p, "steal")' => kind[producer[p].buffer] = "latest"
    <3>1. CASE Claim(p)
      <4>1. kind[producer[p].buffer] \in Kinds
        BY <3>1, InsideBuffer DEF Inside, Claim, At, RingInv, HubInv, TypeOK
      <4> QED BY <1>0, <3>1, <4>1 DEF Claim, Go, At, Kinds
    <3>2. CASE Steal(p) \/ Store(p)
      BY <1>0, <3>2 DEF Steal, Store, Go, At
    <3> QED BY <1>2, <3>1, <3>2
  <2>3. StealsLatest' /\ ReaderFree'
    BY <2>1, <2>2 DEF KeptInv, StealsLatest, ReaderFree, At
  <2>4. \A h \in Handles : StreamWell(h)'
    <3>1. CASE Store(p)
      BY <3>1, KeptStored
    <3>2. CASE Claim(p) /\ ring' # ring
      <4>1. /\ slotOf(producer[p].buffer).state = Empty /\ UNCHANGED cursor
            /\ ring' = Exchanged(producer[p].buffer, cursor[producer[p].buffer].write, Writing)
        BY <3>2 DEF Claim
      <4> QED BY <2>1, <4>1, KeptClaimed
    <3>3. CASE Steal(p) /\ ring' # ring
      <4>1. /\ slotOf(producer[p].buffer).state = Full /\ UNCHANGED cursor /\ At(p, "steal")
            /\ ring' = Exchanged(producer[p].buffer, cursor[producer[p].buffer].write, Writing)
        BY <3>3 DEF Steal
      <4>2. kind[producer[p].buffer] = "latest"
        BY <4>1 DEF KeptInv, StealsLatest
      <4> QED BY <2>1, <4>1, <4>2, KeptClaimed
    <3>4. CASE (Claim(p) \/ Steal(p)) /\ ring' = ring
      <4>1. UNCHANGED cursor
        BY <3>4 DEF Claim, Steal
      <4> QED BY <2>1, <3>4, <4>1, StreamKept DEF KeptInv, RingInv, HubInv
    <3> QED BY <1>2, <3>1, <3>2, <3>3, <3>4
  <2> QED BY <2>3, <2>4 DEF KeptInv
<1> QED BY <1>1, <1>2 DEF Publish

-----------------------------------------------------------------------------
(* What the transport does to the packets.                                  *)

LEMMA NoHandle == None \notin Handles
BY StreamsAssumption DEF None, Handles

\* consume() goes on with the stream from what it has seen of it, or leaves it.
LEMMA ContinueWell ==
  ASSUME TypeOK, NEW d, NEW n, Continue(d, n)
  PROVE  /\ \/ reader'.at = "claim" /\ reader'.buffer = reader.buffer /\ reader'.newest = n
            \/ reader'.at = "next" /\ reader'.buffer = None
         /\ ReaderFree'
<1>1. reader \in ReaderType
  BY DEF TypeOK, ReaderType
<1> QED BY <1>1 DEF Continue, ReaderType, ReaderFree

LEMMA KeptStartPass == ASSUME RingInv, KeptInv, StartPass PROVE KeptInv'
<1>1. reader \in ReaderType
  BY DEF RingInv, HubInv, TypeOK, ReaderType
<1>2. UNCHANGED <<serial, kind, ring, cursor, taken, producer>>
  BY DEF StartPass, hubVars, ringVars
<1>3. reader'.buffer = reader.buffer /\ reader'.newest = reader.newest /\ reader.at = "pass"
  BY <1>1 DEF StartPass, ReaderType
<1> QED BY <1>2, <1>3, KeptAside DEF At

LEMMA KeptNextStream == ASSUME RingInv, KeptInv, NextStream PROVE KeptInv'
<1>0. reader \in ReaderType /\ TypeOK /\ reader.at = "next" /\ reader.buffer = None
  BY DEF RingInv, HubInv, TypeOK, ReaderType, NextStream, KeptInv, ReaderFree
<1>1. UNCHANGED <<serial, kind, ring, cursor, taken, producer>>
  BY DEF NextStream, hubVars, ringVars
<1>2. CASE \E g \in reader.todo :
             reader' = [reader EXCEPT !.at = "claim", !.buffer = g, !.index = 0,
                                      !.newest = cursor[g].seen, !.count = 0]
  <2>1. PICK g \in Handles : reader'.at = "claim" /\ reader'.buffer = g /\ reader'.newest = cursor[g].seen
    BY <1>0, <1>2 DEF ReaderType
  <2>2. StealsLatest' /\ ReaderFree'
    BY <1>1, <2>1 DEF KeptInv, StealsLatest, ReaderFree, At
  <2>3. ASSUME NEW h \in Handles PROVE StreamWell(h)'
    <3>1. StreamWell(h) /\ reader.buffer # h /\ cursor[h].seen \in Nat
      BY <1>0, NoHandle, StreamTyped DEF KeptInv
    <3>2. CASE h # g
      BY <1>0, <1>1, <2>1, <3>1, <3>2, StreamKept
    <3>3. ASSUME LatestWell(h) PROVE LatestWell(h)'
      <4>1. NewestWell(h)'
        BY <1>1, <3>1, <3>3 DEF LatestWell, NewestWell, Slot
      <4>2. reader'.buffer = h => cursor'[h].seen <= reader'.newest /\ reader'.newest <= cursor'[h].order
        BY <1>1, <2>1, <3>1, <3>3 DEF LatestWell
      <4> QED BY <1>1, <3>3, <4>1, <4>2 DEF LatestWell, Newest
    <3>4. (Fresh(h)' <=> Fresh(h)) /\ (FifoWell(h)' <=> FifoWell(h))
      BY <1>1 DEF Fresh, FifoWell, Slot
    <3> QED BY <1>1, <3>1, <3>3, <3>4 DEF StreamWell
  <2> QED BY <2>2, <2>3 DEF KeptInv
<1>3. CASE reader' = [reader EXCEPT !.at = "pass", !.buffers = {}]
  <2>1. reader'.buffer = reader.buffer /\ reader'.newest = reader.newest
    BY <1>0, <1>3 DEF ReaderType
  <2> QED BY <1>0, <1>1, <2>1, KeptAside DEF At
<1> QED BY <1>2, <1>3 DEF NextStream

\* The transport's steps inside one stream leave the others' packets.
LEMMA OthersKept ==
  ASSUME RingInv, KeptInv, reader.at \in {"claim", "copy"}, UNCHANGED <<serial, kind>>,
         reader'.buffer \in {reader.buffer, None}, NEW h \in Handles, h # reader.buffer,
         ring'[h] = ring[h], cursor'[h] = cursor[h], taken'[h] = taken[h]
  PROVE  StreamWell(h)'
<1>1. reader.buffer # h /\ reader'.buffer # h
  BY NoHandle
<1> QED BY <1>1, StreamKept DEF KeptInv, RingInv, HubInv

LEMMA KeptClaimNext == ASSUME RingInv, KeptInv, ClaimNext PROVE KeptInv'
<1>0. /\ reader \in ReaderType /\ TypeOK /\ reader.at = "claim" /\ kind[reader.buffer] = "fifo"
      /\ UNCHANGED <<serial, kind, cursor, taken, producer>>
  BY DEF RingInv, HubInv, TypeOK, ReaderType, ClaimNext, hubVars
<1>b. PICK b \in Handles : b = reader.buffer /\ b \in 1 .. serial
  BY <1>0, ReaderAt DEF RingInv, HubInv
<1>i. PICK i \in Indexes : i = cursor[b].read
  BY <1>0 DEF TypeOK
<1>1. StealsLatest'
  BY <1>0 DEF KeptInv, StealsLatest, At
<1>2. CASE ring[b][i].state = Full
  <2>1. ring' = Exchanged(b, i, Reading) /\ reader' = [reader EXCEPT !.at = "copy"] /\ Reading \in 0 .. 3
    BY <1>b, <1>i, <1>2 DEF ClaimNext, Reading
  <2>2. reader'.buffer = reader.buffer /\ reader'.at = "copy" /\ ReaderFree'
    BY <1>0, <2>1 DEF ReaderType, ReaderFree
  <2>3. ASSUME NEW h \in Handles PROVE StreamWell(h)'
    <3>1. CASE h # b
      <4>1. ring'[h] = ring[h]
        BY <1>0, <2>1, <3>1, Exchanges
      <4> QED BY <1>0, <1>b, <2>2, <3>1, <4>1, OthersKept
    <3>2. CASE h = b
      <4>1. StreamWell(b) /\ ~(b > serial) /\ b <= serial
        BY <1>0, <1>b, StreamTyped DEF KeptInv
      <4>2. FifoWell(b)
        BY <1>0, <1>b, <4>1 DEF StreamWell
      <4>3. Holds(ring[b][i]) /\ Reading \in {Full, Reading}
        BY <1>2 DEF Holds
      <4>4. FifoWell(b)'
        BY <1>0, <2>1, <4>2, <4>3, FifoExchange
      <4> QED BY <1>0, <1>b, <3>2, <4>1, <4>4 DEF StreamWell
    <3> QED BY <3>1, <3>2
  <2> QED BY <1>1, <2>2, <2>3 DEF KeptInv
<1>3. CASE ring[b][i].state # Full
  <2>1. Continue(FALSE, 0) /\ UNCHANGED ring
    BY <1>b, <1>i, <1>3 DEF ClaimNext
  <2>2. reader'.buffer \in {reader.buffer, None} /\ ReaderFree'
    BY <1>0, <2>1, ContinueWell
  <2>3. ASSUME NEW h \in Handles PROVE StreamWell(h)'
    <3>1. CASE h # b
      BY <1>0, <1>b, <2>1, <2>2, <3>1, OthersKept
    <3>2. CASE h = b
      BY <1>0, <1>b, <2>1, <3>2, StreamKept DEF KeptInv
    <3> QED BY <3>1, <3>2
  <2> QED BY <1>1, <2>2, <2>3 DEF KeptInv
<1> QED BY <1>2, <1>3

LEMMA KeptTakeNext == ASSUME RingInv, KeptInv, TakeNext PROVE KeptInv'
<1>0. /\ reader \in ReaderType /\ TypeOK /\ reader.at = "copy" /\ kind[reader.buffer] = "fifo"
      /\ UNCHANGED <<serial, kind, producer>> /\ Continue(TRUE, 0)
  BY DEF RingInv, HubInv, TypeOK, ReaderType, TakeNext, hubVars
<1>b. PICK b \in Handles : b = reader.buffer /\ b \in 1 .. serial
  BY <1>0, ReaderAt DEF RingInv, HubInv
<1>i. PICK i \in Indexes : i = cursor[b].read
  BY <1>0 DEF TypeOK
<1>1. StealsLatest' /\ ReaderFree' /\ reader'.buffer \in {reader.buffer, None}
  BY <1>0, ContinueWell DEF KeptInv, StealsLatest, At
<1>2. /\ ring' = Exchanged(b, i, Empty) /\ Empty \in 0 .. 3
      /\ taken' = [taken EXCEPT ![b] = Append(@, ring[b][i].order)]
      /\ cursor' = [cursor EXCEPT ![b].read = (i + 1) % Capacity]
  BY <1>b, <1>i DEF TakeNext, Empty
<1>3. /\ \A h \in Handles : h # b => ring'[h] = ring[h] /\ cursor'[h] = cursor[h] /\ taken'[h] = taken[h]
      /\ taken'[b] = Append(taken[b], ring[b][i].order)
      /\ cursor'[b].order = cursor[b].order /\ cursor'[b].write = cursor[b].write
      /\ cursor'[b].read = (i + 1) % Capacity
  <2>1. \A h \in Handles : h # b => ring'[h] = ring[h]
    BY <1>0, <1>2, Exchanges
  <2>2. /\ cursor \in [Handles -> [write : Indexes, read : Indexes, order : Nat, seen : Nat]]
        /\ cursor[b] \in [write : Indexes, read : Indexes, order : Nat, seen : Nat]
        /\ taken \in [Handles -> Seq(Nat)]
    BY <1>0 DEF TypeOK
  <2> QED BY <1>2, <2>1, <2>2
<1>4. ASSUME NEW h \in Handles, h # b PROVE StreamWell(h)'
  BY <1>0, <1>b, <1>1, <1>3, <1>4, OthersKept
<1>5. StreamWell(b) /\ ~(b > serial) /\ b <= serial /\ FifoWell(b)
  BY <1>0, <1>b, StreamTyped DEF KeptInv, StreamWell
<1>g. PICK got \in Nat : got = Len(taken[b])
  BY <1>0, StreamTyped
<1>l. PICK last \in Nat : last = cursor[b].order
  BY <1>0, StreamTyped
<1>6. /\ Capacity \in Nat \ {0, 1} /\ i = got % Capacity /\ got <= last /\ last <= got + Capacity
      /\ \A n \in 1 .. got : taken[b][n] = n
      /\ \A n \in got .. last - 1 : Holds(Slot(b, n)) /\ Slot(b, n).order = n + 1
      /\ \A n \in last .. got + Capacity - 1 : ~Holds(Slot(b, n))
  BY <1>5, <1>g, <1>l, <1>i, StreamsAssumption DEF FifoWell
<1>7. Holds(Slot(b, got)) /\ Slot(b, got) = ring[b][i]
  <2>1. Reads(b, i)
    BY <1>0, <1>b, <1>i DEF Reads
  <2> QED BY <1>6, <2>1 DEF RingInv, SlotWell, Slot, Holds
<1>8. got # last
  <2>1. got = last => got \in last .. got + Capacity - 1
    BY <1>6
  <2> QED BY <1>6, <1>7, <2>1
<1>9. got < last /\ got \in got .. last - 1 /\ ring[b][i].order = got + 1
  <2>1. got < last /\ got \in got .. last - 1
    BY <1>6, <1>8
  <2> QED BY <1>6, <1>7, <2>1
<1>10. \A n \in Nat : n > got /\ n - got < Capacity =>
         Slot(b, n)'.order = Slot(b, n).order /\ (Holds(Slot(b, n))' <=> Holds(Slot(b, n)))
  <2> SUFFICES ASSUME NEW n \in Nat, n > got, n - got < Capacity
               PROVE  Slot(b, n)'.order = Slot(b, n).order /\ (Holds(Slot(b, n))' <=> Holds(Slot(b, n)))
    OBVIOUS
  <2>1. n % Capacity # i /\ n % Capacity \in Indexes
    BY <1>6, Apart, SlotIndex
  <2>2. ring'[b][n % Capacity].order = ring[b][n % Capacity].order
        /\ ring'[b][n % Capacity].state = ring[b][n % Capacity].state
    BY <1>0, <1>2, <2>1, Exchanges
  <2> QED BY <2>2 DEF Slot, Holds
<1>11. ~Holds(Slot(b, got + Capacity))'
  <2>1. (got + Capacity) % Capacity = i
    BY <1>6, OneRound
  <2>2. ring'[b][i].state = Empty
    BY <1>0, <1>2, Exchanges
  <2> QED BY <2>1, <2>2 DEF Slot, Holds, Empty, Full, Reading
<1>12. taken[b] \in Seq(Nat) /\ Len(taken'[b]) = got + 1 /\ \A n \in 1 .. got + 1 : taken'[b][n] = n
  <2>1. taken[b] \in Seq(Nat) /\ taken'[b] = Append(taken[b], got + 1)
    BY <1>0, <1>3, <1>9, StreamTyped
  <2> QED BY <1>6, <1>g, <2>1
<1>13. FifoWell(b)'
  <2>1. Len(taken'[b]) <= cursor'[b].order /\ cursor'[b].order <= Len(taken'[b]) + Capacity
    BY <1>3, <1>6, <1>9, <1>12, <1>l
  <2>2. cursor'[b].read = Len(taken'[b]) % Capacity
    BY <1>3, <1>6, <1>12, Around
  <2>3. \A n \in Len(taken'[b]) .. cursor'[b].order - 1 : Holds(Slot(b, n))' /\ Slot(b, n)'.order = n + 1
    <3> SUFFICES ASSUME NEW n \in got + 1 .. last - 1 PROVE Holds(Slot(b, n))' /\ Slot(b, n)'.order = n + 1
      BY <1>3, <1>12, <1>l
    <3>1. n \in Nat /\ n > got /\ n - got < Capacity /\ n \in got .. last - 1
      BY <1>6
    <3> QED BY <1>6, <1>10, <3>1
  <2>4. \A n \in cursor'[b].order .. Len(taken'[b]) + Capacity - 1 : ~Holds(Slot(b, n))'
    <3> SUFFICES ASSUME NEW n \in last .. got + Capacity PROVE ~Holds(Slot(b, n))'
      BY <1>3, <1>6, <1>12, <1>l
    <3>1. CASE n = got + Capacity
      BY <1>11, <3>1
    <3>2. CASE n # got + Capacity
      <4>1. n \in Nat /\ n > got /\ n - got < Capacity /\ n \in last .. got + Capacity - 1
        BY <1>6, <1>9, <3>2
      <4> QED BY <1>6, <1>10, <4>1
    <3> QED BY <3>1, <3>2
  <2>5. \A n \in 1 .. Len(taken'[b]) : taken'[b][n] = n
    BY <1>12
  <2> QED BY <2>1, <2>2, <2>3, <2>4, <2>5 DEF FifoWell
<1>14. StreamWell(b)'
  BY <1>0, <1>b, <1>3, <1>5, <1>13 DEF StreamWell
<1> QED BY <1>1, <1>4, <1>14 DEF KeptInv

LEMMA KeptClaimSlot == ASSUME RingInv, KeptInv, ClaimSlot PROVE KeptInv'
<1>0. /\ reader \in ReaderType /\ TypeOK /\ reader.at = "claim" /\ kind[reader.buffer] = "latest"
      /\ UNCHANGED <<serial, kind, cursor, taken, producer>>
      /\ reader.index \in 0 .. Capacity /\ reader.index < Capacity
  BY DEF RingInv, HubInv, TypeOK, ReaderType, ClaimSlot, hubVars
<1>b. PICK b \in Handles : b = reader.buffer /\ b \in 1 .. serial
  BY <1>0, ReaderAt DEF RingInv, HubInv
<1>i. PICK i \in Indexes : i = reader.index
  BY <1>0, StreamsAssumption DEF Indexes
<1>1. StealsLatest' /\ ReaderFree' /\ reader'.buffer = reader.buffer /\ reader'.newest = reader.newest
  <2>1. reader' = [reader EXCEPT !.at = "copy"] \/ reader' = [reader EXCEPT !.index = reader.index + 1]
    BY DEF ClaimSlot
  <2> QED BY <1>0, <2>1 DEF KeptInv, StealsLatest, ReaderFree, ReaderType, At
<1>2. CASE ring[b][i].state = Full
  <2>1. ring' = Exchanged(b, i, Reading) /\ Reading \in 0 .. 3
    BY <1>b, <1>i, <1>2 DEF ClaimSlot, Reading
  <2>2. ASSUME NEW h \in Handles PROVE StreamWell(h)'
    <3>1. CASE h # b
      <4>1. ring'[h] = ring[h]
        BY <1>0, <2>1, <3>1, Exchanges
      <4> QED BY <1>0, <1>b, <1>1, <3>1, <4>1, OthersKept
    <3>2. CASE h = b
      <4>1. StreamWell(b) /\ ~(b > serial) /\ b <= serial
        BY <1>0, <1>b, StreamTyped DEF KeptInv
      <4>2. LatestWell(b)
        BY <1>0, <1>b, <4>1 DEF StreamWell
      <4>3. LatestWell(b)'
        BY <1>0, <1>1, <2>1, <4>2, LatestExchange
      <4> QED BY <1>0, <1>b, <3>2, <4>1, <4>3 DEF StreamWell
    <3> QED BY <3>1, <3>2
  <2> QED BY <1>1, <2>2 DEF KeptInv
<1>3. CASE ring[b][i].state # Full
  <2>1. UNCHANGED ring
    BY <1>b, <1>i, <1>3 DEF ClaimSlot
  <2>2. \A h \in Handles : StreamWell(h)'
    BY <1>0, <1>1, <2>1, StreamKept DEF KeptInv
  <2> QED BY <1>1, <2>2 DEF KeptInv
<1> QED BY <1>2, <1>3

LEMMA KeptTakeSlot == ASSUME RingInv, KeptInv, TakeSlot PROVE KeptInv'
<1>0. /\ reader \in ReaderType /\ TypeOK /\ reader.at = "copy" /\ kind[reader.buffer] = "latest"
      /\ UNCHANGED <<serial, kind, cursor, taken, producer>>
  BY DEF RingInv, HubInv, TypeOK, ReaderType, TakeSlot, hubVars
<1>b. PICK b \in Handles : b = reader.buffer /\ b \in 1 .. serial
  BY <1>0, ReaderAt DEF RingInv, HubInv
<1>i. PICK i \in Indexes : i = reader.index
  BY <1>0 DEF RingInv, HubInv, ReaderWell
<1>l. PICK last \in Nat : last = cursor[b].order
  BY <1>0, StreamTyped
<1>1. /\ ring' = Exchanged(b, i, Empty) /\ Empty \in 0 .. 3
      /\ reader'.at = "claim" /\ reader'.buffer = b /\ reader'.newest = Newer(reader.newest, ring[b][i].order)
  BY <1>0, <1>b, <1>i DEF TakeSlot, Empty, ReaderType
<1>2. StealsLatest' /\ ReaderFree'
  BY <1>0, <1>1 DEF KeptInv, StealsLatest, ReaderFree, At
<1>3. \A j \in Indexes : ring'[b][j].order = ring[b][j].order /\ (j # i => ring'[b][j].state = ring[b][j].state)
  BY <1>0, <1>1, Exchanges
<1>4. ASSUME NEW h \in Handles, h # b PROVE StreamWell(h)'
  <2>1. ring'[h] = ring[h]
    BY <1>0, <1>1, <1>4, Exchanges
  <2> QED BY <1>0, <1>b, <1>1, <1>4, <2>1, OthersKept
<1>5. StreamWell(b) /\ ~(b > serial) /\ b <= serial /\ LatestWell(b)
  BY <1>0, <1>b, StreamTyped DEF KeptInv, StreamWell
<1>6. /\ reader.newest \in Nat /\ reader.newest <= last /\ ring[b][i].order \in Nat /\ ring[b][i].order <= last
      /\ cursor[b].seen \in Nat /\ cursor[b].seen <= reader.newest
  BY <1>0, <1>b, <1>l, <1>5, StreamTyped DEF LatestWell
<1>7. /\ reader'.newest \in Nat /\ cursor[b].seen <= reader'.newest /\ reader'.newest <= last
      /\ reader.newest <= reader'.newest /\ ring[b][i].order <= reader'.newest
  BY <1>1, <1>6 DEF Newer
<1>8. NewestWell(b)'
  <2>1. NewestWell(b)
    BY <1>5 DEF LatestWell
  <2>2. CASE last = cursor[b].seen
    BY <1>0, <1>l, <2>2 DEF NewestWell
  <2>3. CASE reader.newest = last \/ ring[b][i].order = last
    <3>1. reader'.newest = last
      BY <1>7, <2>3
    <3> QED BY <1>0, <1>1, <1>l, <3>1 DEF NewestWell
  <2>4. CASE last >= 1 /\ Holds(Slot(b, last - 1)) /\ Slot(b, last - 1).order = last /\ ring[b][i].order # last
    <3>1. (last - 1) % Capacity \in Indexes /\ (last - 1) % Capacity # i
      BY <2>4, SlotIndex DEF Slot
    <3>2. Holds(Slot(b, last - 1))' /\ Slot(b, last - 1)'.order = last
      BY <1>3, <2>4, <3>1 DEF Slot, Holds
    <3> QED BY <1>0, <1>l, <2>4, <3>2 DEF NewestWell
  <2> QED BY <1>l, <2>1, <2>2, <2>3, <2>4 DEF NewestWell
<1>9. LatestWell(b)'
  <2>1. \A j \in Indexes : ring'[b][j].order <= cursor'[b].order
    BY <1>0, <1>3, <1>5 DEF LatestWell
  <2>2. cursor'[b].seen <= reader'.newest /\ reader'.newest <= cursor'[b].order
    BY <1>0, <1>l, <1>7
  <2> QED BY <1>0, <1>5, <1>8, <2>1, <2>2 DEF LatestWell, Newest
<1>10. StreamWell(b)'
  BY <1>0, <1>b, <1>5, <1>9 DEF StreamWell
<1> QED BY <1>2, <1>4, <1>10 DEF KeptInv

LEMMA KeptEndScan == ASSUME RingInv, KeptInv, EndScan PROVE KeptInv'
<1> DEFINE newer == reader.newest > cursor[reader.buffer].seen
<1>0. /\ reader \in ReaderType /\ TypeOK /\ reader.at = "claim" /\ kind[reader.buffer] = "latest"
      /\ UNCHANGED <<serial, kind, ring, producer>> /\ Continue(newer, reader.newest)
  BY DEF RingInv, HubInv, TypeOK, ReaderType, EndScan, hubVars, Seen
<1>b. PICK b \in Handles : b = reader.buffer /\ b \in 1 .. serial
  BY <1>0, ReaderAt DEF RingInv, HubInv
<1>l. PICK last \in Nat : last = cursor[b].order
  BY <1>0, StreamTyped
<1>n. PICK new \in Nat : new = reader.newest
  BY <1>0, <1>b, StreamTyped
<1>1. /\ \/ reader'.buffer = b /\ reader'.newest = new
         \/ reader'.buffer = None
      /\ ReaderFree'
  BY <1>0, <1>b, <1>n, ContinueWell
<1>2. StealsLatest'
  BY <1>0 DEF KeptInv, StealsLatest, At
<1>3. /\ cursor' = [cursor EXCEPT ![b].seen = new]
      /\ IF new > cursor[b].seen THEN taken' = [taken EXCEPT ![b] = Append(@, new)] ELSE UNCHANGED taken
  BY <1>b, <1>n DEF EndScan, Seen
<1>4. /\ \A h \in Handles : h # b => cursor'[h] = cursor[h] /\ taken'[h] = taken[h]
      /\ cursor'[b].seen = new /\ cursor'[b].order = last /\ cursor'[b].write = cursor[b].write
      /\ taken'[b] = IF new > cursor[b].seen THEN Append(taken[b], new) ELSE taken[b]
  <2>1. /\ cursor \in [Handles -> [write : Indexes, read : Indexes, order : Nat, seen : Nat]]
        /\ cursor[b] \in [write : Indexes, read : Indexes, order : Nat, seen : Nat]
        /\ taken \in [Handles -> Seq(Nat)]
    BY <1>0 DEF TypeOK
  <2> QED BY <1>3, <1>l, <2>1
<1>5. ASSUME NEW h \in Handles, h # b PROVE StreamWell(h)'
  <2>1. reader'.buffer \in {reader.buffer, None} /\ ring'[h] = ring[h]
    BY <1>0, <1>b, <1>1
  <2> QED BY <1>0, <1>b, <1>4, <1>5, <2>1, OthersKept
<1>6. StreamWell(b) /\ ~(b > serial) /\ b <= serial /\ LatestWell(b)
  BY <1>0, <1>b, StreamTyped DEF KeptInv, StreamWell
<1>7. /\ cursor[b].seen \in Nat /\ cursor[b].seen <= new /\ new <= last
      /\ taken[b] \in Seq(Nat) /\ Len(taken[b]) \in Nat /\ Newest(b) = cursor[b].seen
      /\ \A n \in 2 .. Len(taken[b]) : taken[b][n - 1] < taken[b][n]
  BY <1>0, <1>b, <1>l, <1>n, <1>6, StreamTyped DEF LatestWell
<1>8. Newest(b)' = new /\ \A n \in 2 .. Len(taken'[b]) : taken'[b][n - 1] < taken'[b][n]
  <2>1. CASE new > cursor[b].seen
    <3>1. /\ taken'[b] = Append(taken[b], new) /\ Len(taken'[b]) = Len(taken[b]) + 1
          /\ taken'[b][Len(taken'[b])] = new /\ taken'[b] # <<>>
          /\ \A n \in 1 .. Len(taken[b]) : taken'[b][n] = taken[b][n]
      BY <1>4, <1>7, <2>1
    <3>2. Len(taken[b]) >= 1 => taken[b] # <<>> /\ taken[b][Len(taken[b])] = cursor[b].seen
      BY <1>7 DEF Newest
    <3>3. ASSUME NEW n \in 2 .. Len(taken'[b]) PROVE taken'[b][n - 1] < taken'[b][n]
      <4>1. CASE n = Len(taken'[b])
        <5>1. n - 1 = Len(taken[b]) /\ Len(taken[b]) >= 1 /\ n - 1 \in 1 .. Len(taken[b])
          BY <1>7, <3>1, <3>3, <4>1
        <5>2. taken'[b][n - 1] = cursor[b].seen
          BY <3>1, <3>2, <5>1
        <5> QED BY <2>1, <3>1, <4>1, <5>2
      <4>2. CASE n # Len(taken'[b])
        <5>1. n \in 2 .. Len(taken[b]) /\ n \in 1 .. Len(taken[b]) /\ n - 1 \in 1 .. Len(taken[b])
          BY <1>7, <3>1, <3>3, <4>2
        <5> QED BY <1>7, <3>1, <5>1
      <4> QED BY <4>1, <4>2
    <3> QED BY <3>1, <3>3 DEF Newest
  <2>2. CASE ~(new > cursor[b].seen)
    <3>1. taken'[b] = taken[b] /\ cursor[b].seen = new
      BY <1>4, <1>7, <2>2
    <3> QED BY <1>7, <3>1 DEF Newest
  <2> QED BY <2>1, <2>2
<1>9. NewestWell(b)'
  <2>1. NewestWell(b)
    BY <1>6 DEF LatestWell
  <2>2. CASE new = last
    BY <1>4, <2>2 DEF NewestWell
  <2>3. CASE new # last
    <3>1. cursor[b].seen # last
      BY <1>7, <2>3
    <3>2. last >= 1 /\ Holds(Slot(b, last - 1)) /\ Slot(b, last - 1).order = last
      BY <1>l, <1>n, <2>1, <2>3, <3>1 DEF NewestWell
    <3> QED BY <1>0, <1>4, <3>2 DEF NewestWell, Slot, Holds
  <2> QED BY <2>2, <2>3
<1>10. LatestWell(b)'
  <2>1. \A j \in Indexes : ring'[b][j].order <= cursor'[b].order
    BY <1>0, <1>4, <1>6, <1>l DEF LatestWell
  <2>2. reader'.buffer = b => cursor'[b].seen <= reader'.newest /\ reader'.newest <= cursor'[b].order
    BY <1>1, <1>4, <1>7, NoHandle
  <2>3. Newest(b)' = cursor'[b].seen /\ cursor'[b].seen <= cursor'[b].order
    BY <1>4, <1>7, <1>8
  <2> QED BY <1>8, <1>9, <2>1, <2>2, <2>3 DEF LatestWell
<1>11. StreamWell(b)'
  BY <1>0, <1>b, <1>4, <1>6, <1>10, <1>l DEF StreamWell
<1> QED BY <1>1, <1>2, <1>5, <1>11 DEF KeptInv

LEMMA KeptNext == IndInv /\ KeptInv /\ [Next]_vars => KeptInv'
<1> SUFFICES ASSUME IndInv, KeptInv, [Next]_vars PROVE KeptInv'
  OBVIOUS
<1>0. RingInv /\ reader \in ReaderType
  BY DEF IndInv, RingInv, HubInv, TypeOK, ReaderType
<1>1. CASE \E k \in Kinds, i \in 1 .. Places : Create(k, i)
  BY <1>0, <1>1, KeptCreate
<1>2. CASE Created \/ Closed \/ \E h \in Handles : Close(h) \/ Attach(h) \/ Detach(h)
  <2>1. UNCHANGED <<serial, kind, ring, cursor, taken, producer>>
    BY <1>2 DEF Created, Closed, Close, Attach, Detach, hubVars, ringVars
  <2>2. UNCHANGED reader \/ reader' = [reader EXCEPT !.at = IF @ = "none" THEN "pass" ELSE @]
    BY <1>2 DEF Created, Closed, Close, Attach, Detach
  <2>3. /\ reader'.buffer = reader.buffer /\ reader'.newest = reader.newest
        /\ reader'.at \in {"none", "pass", "next"} => reader.at \in {"none", "pass", "next"}
    BY <1>0, <2>2 DEF ReaderType
  <2> QED BY <1>0, <2>1, <2>3, KeptAside DEF At
<1>3. CASE \E p \in Producers : Publish(p) \/ \E h \in Handles : Enter(p, h)
  BY <1>0, <1>3, KeptPublish
<1>4. CASE Transport
  BY <1>0, <1>4, KeptStartPass, KeptNextStream, KeptClaimNext, KeptTakeNext, KeptClaimSlot, KeptTakeSlot,
     KeptEndScan DEF Transport
<1>5. CASE UNCHANGED vars
  BY <1>0, <1>5, KeptAside DEF vars, At
<1> QED BY <1>1, <1>2, <1>3, <1>4, <1>5 DEF Next

\* No accepted packet is lost against its stream's policy, whatever the size of
\* the ring and the number of producers: audio and MIDI are taken complete and
\* in order, and of the other kinds the newest packet is never lost.
THEOREM PacketsKept == Spec => []Kept
<1>1. ASSUME IndInv, KeptInv PROVE Kept
  <2> SUFFICES ASSUME NEW h \in 1 .. serial
               PROVE  IF kind[h] = "fifo"
                      THEN /\ \A n \in 1 .. Len(taken[h]) : taken[h][n] = n
                           /\ \A n \in Len(taken[h]) + 1 .. cursor[h].order :
                                LET s == ring[h][(n - 1) % Capacity] IN s.state \in {Full, Reading} /\ s.order = n
                      ELSE /\ \A n \in 2 .. Len(taken[h]) : taken[h][n - 1] < taken[h][n]
                           /\ \/ cursor[h].order = Newest(h)
                              \/ reader.buffer = h /\ reader.newest = cursor[h].order
                              \/ \E i \in Indexes : /\ ring[h][i].state \in {Full, Reading}
                                                     /\ ring[h][i].order = cursor[h].order
    BY DEF Kept
  <2>1. TypeOK /\ h \in Handles
    BY <1>1, Known DEF IndInv, RingInv, HubInv
  <2>2. StreamWell(h) /\ h <= serial /\ cursor[h].order \in Nat /\ Len(taken[h]) \in Nat
    BY <1>1, <2>1, StreamTyped DEF KeptInv
  <2>3. CASE kind[h] = "fifo"
    <3>1. FifoWell(h)
      BY <2>2, <2>3 DEF StreamWell
    <3>2. ASSUME NEW n \in Len(taken[h]) + 1 .. cursor[h].order
          PROVE  Holds(Slot(h, n - 1)) /\ Slot(h, n - 1).order = n
      <4>1. n - 1 \in Len(taken[h]) .. cursor[h].order - 1 /\ (n - 1) + 1 = n
        BY <2>2
      <4> QED BY <3>1, <4>1 DEF FifoWell
    <3> QED BY <2>3, <3>1, <3>2 DEF FifoWell, Slot, Holds
  <2>4. CASE kind[h] # "fifo"
    <3>1. LatestWell(h)
      BY <2>2, <2>4 DEF StreamWell
    <3>2. CASE cursor[h].order = cursor[h].seen \/ (reader.buffer = h /\ reader.newest = cursor[h].order)
      BY <2>4, <3>1, <3>2 DEF LatestWell
    <3>3. CASE cursor[h].order >= 1 /\ Holds(Slot(h, cursor[h].order - 1)) /\ Slot(h, cursor[h].order - 1).order = cursor[h].order
      <4>1. cursor[h].order - 1 \in Nat
        BY <2>2, <3>3
      <4>2. (cursor[h].order - 1) % Capacity \in Indexes
        BY <4>1, SlotIndex
      <4> QED BY <2>4, <3>1, <3>3, <4>2 DEF LatestWell, Slot, Holds
    <3> QED BY <3>1, <3>2, <3>3 DEF LatestWell, NewestWell
  <2> QED BY <2>3, <2>4
<1> QED BY <1>1, KeptInit, KeptNext, Invariant, PTL DEF Spec

-----------------------------------------------------------------------------
(* Keys of pages in REAPER (KeyRouting).                                    *)

KeyWires(r) == [key : r.keys, kind : {"d", "r", "u"}, doc : 0 .. r.documents]
KeyPages(r) == [doc : 1 .. r.documents, says : 0 .. r.documents, on : BOOLEAN, greeted : BOOLEAN,
                held : [r.keys -> {"none", "host", "page"}], cancelled : SUBSET r.keys]
KeyDesks(r) == [ready : BOOLEAN, doc : 0 .. r.documents, routing : BOOLEAN, current : BOOLEAN, parked : BOOLEAN,
                action : {"", "close"}, closing : BOOLEAN, closed : BOOLEAN, live : BOOLEAN,
                how : {"", "close", "completed", "failed"}]
KeyPageTyped(r) ==
  /\ page \in KeyPages(r) /\ toHost \in Seq(KeyWires(r)) /\ pressed \subseteq r.keys /\ focused \in BOOLEAN
  /\ presses \in 0 .. r.presses
  /\ toPage \in Seq([on : BOOLEAN, doc : 0 .. r.documents]) /\ Len(toPage) <= r.wire
KeyDeskTyped(r) ==
  /\ desk \in KeyDesks(r) /\ strokes \in Seq(KeyWires(r)) /\ Len(strokes) <= r.limit
  /\ down \subseteq r.keys /\ reaper \subseteq down

\* The document the host knows is the one that greeted; how a window ended is told; a page that does not route keys
\* has handed none over.
KeySession(r) ==
  /\ desk.ready => page.greeted /\ desk.doc = page.doc
  /\ page.greeted /\ ~desk.ready => page.doc < r.documents
  /\ desk.closed => desk.how \in {"failed", "completed"}
  /\ desk.how = "failed" => desk.closed
  /\ desk.closing => desk.how # ""
  /\ desk.how = "completed" => desk.closing
  /\ ~desk.live => desk.closing \/ desk.closed
  /\ ~page.on => \A k \in r.keys : page.held[k] # "host"

\* Without a document that routes its keys, none waits and none is down; nor when the window has been closed.
KeyQuiet(r) ==
  \/ strokes = <<>> /\ down = {}
  \/ /\ desk.routing /\ ~desk.parked /\ desk.ready
     /\ r.route = "shortcut" => ~(desk.closing /\ desk.how = "close")
     /\ r.route = "space" => desk.live
KeyHere(r) == r.route = "shortcut" => \A i \in DOMAIN strokes : strokes[i].doc = desk.doc

\* The page owns the press of k it told document d of; message m is its end.
KeyOwned(r, k, d) == page.held[k] = "host" /\ (r.route = "shortcut" => page.says = d)
KeyEnds(r, m, k, d) == m.key = k /\ m.kind = "u" /\ (r.route = "shortcut" => m.doc = d)
KeyEndIn(r, q, k, d) == \E j \in DOMAIN q : KeyEnds(r, q[j], k, d)
KeyEndAfter(r, q, i, k, d) == \E j \in DOMAIN q : j > i /\ KeyEnds(r, q[j], k, d)

\* A press on its way to the host is followed by its end, or the page owns it.
KeyWire(r) ==
  \A i \in DOMAIN toHost : toHost[i].kind = "d" =>
    KeyOwned(r, toHost[i].key, toHost[i].doc) \/ KeyEndAfter(r, toHost, i, toHost[i].key, toHost[i].doc)
\* The same of a press that waits for a tick and of one that is down, but in a page that failed or was asked to go.
KeyLost(r) == desk.closed \/ desk.how = "completed" \/ (r.route = "space" /\ desk.closing)
KeyComing(r, k) == KeyOwned(r, k, desk.doc) \/ KeyEndIn(r, toHost, k, desk.doc)
KeyStrokes(r) ==
  \A i \in DOMAIN strokes : strokes[i].kind = "d" =>
    KeyComing(r, strokes[i].key) \/ KeyEndAfter(r, strokes, i, strokes[i].key, desk.doc)
KeyDowns(r) == \A k \in down : KeyComing(r, k) \/ KeyEndIn(r, strokes, k, desk.doc)

KeyInv(r) ==
  /\ KeyPageTyped(r) /\ KeyDeskTyped(r) /\ KeySession(r) /\ KeyQuiet(r) /\ KeyHere(r) /\ KeyWire(r)
  /\ KeyLost(r) \/ (KeyStrokes(r) /\ KeyDowns(r))

LEMMA KeyNames ==
  ASSUME NEW r
  PROVE  /\ Routed(r)!Wire = KeyWires(r)
         /\ \A p, k, x : Routed(r)!Message(p, k, x) = [key |-> k, kind |-> x, doc |-> p.says]
         /\ \A p : Routed(r)!Owned(p) = {k \in r.keys : p.held[k] = "host"}
BY DEF Routed!Wire, KeyWires, Routed!Message, Routed!Owned

\* One message for each key, in some order.
LEMMA KeyUps ==
  ASSUME NEW r, NEW K, IsFiniteSet(K), K \subseteq r.keys, NEW p, p.says \in 0 .. r.documents
  PROVE  /\ Routed(r)!Ups(p, K) \in Seq(KeyWires(r))
         /\ \A i \in DOMAIN Routed(r)!Ups(p, K) : Routed(r)!Ups(p, K)[i].kind = "u"
         /\ \A k \in K : \E i \in DOMAIN Routed(r)!Ups(p, K) :
              Routed(r)!Ups(p, K)[i] = [key |-> k, kind |-> "u", doc |-> p.says]
<1> DEFINE n == Cardinality(K)
           f == Routed(r)!Ordered(K)
           q == Routed(r)!Ups(p, K)
<1>1. n \in Nat /\ ExistsBijection(1 .. n, K)
  BY FS_CardinalityType
<1>2. PICK g : g \in Surjection(1 .. n, K)
  BY <1>1 DEF ExistsBijection, Bijection
<1>3. g \in [1 .. n -> K] /\ \A k \in K : \E i \in DOMAIN g : g[i] = k
  BY <1>2 DEF Surjection
<1>4. f \in [1 .. n -> K] /\ \A k \in K : \E i \in DOMAIN f : f[i] = k
  BY <1>3 DEF Routed!Ordered, Routed!Cardinality, Cardinality
<1>9. q = [i \in 1 .. n |-> [key |-> f[i], kind |-> "u", doc |-> p.says]]
  BY <1>4, KeyNames DEF Routed!Ups
<1>a. \A i \in 1 .. n : [key |-> f[i], kind |-> "u", doc |-> p.says] \in KeyWires(r)
  BY <1>4 DEF KeyWires
<1>b. q \in Seq(KeyWires(r)) /\ DOMAIN q = 1 .. n
  BY <1>1, <1>9, <1>a, IsASeq
<1> QED BY <1>4, <1>9, <1>b

\* What a step of the page owes: the keys it no longer owns are given back in the messages it adds, and it owns those
\* whose presses it adds.
KeyGiven(r, new) ==
  /\ toHost' = toHost \o new
  /\ \A k \in r.keys :
       page.held[k] = "host" /\ ~(page'.held[k] = "host" /\ (r.route = "shortcut" => page'.says = page.says))
       => KeyEndIn(r, new, k, page.says)
  /\ \A i \in DOMAIN new : new[i].kind = "d" =>
       page'.held[new[i].key] = "host" /\ (r.route = "shortcut" => page'.says = new[i].doc)
KeyGives(r) == \E new \in Seq(KeyWires(r)) : KeyGiven(r, new)

\* A step of the page keeps every press in company of its end.
LEMMA KeyPaged ==
  ASSUME NEW r, KeyInv(r), KeyGives(r), KeyPageTyped(r)', KeySession(r)', UNCHANGED <<desk, strokes, down, reaper>>
  PROVE  KeyInv(r)'
<1>1. PICK new \in Seq(KeyWires(r)) : KeyGiven(r, new)
  BY DEF KeyGives
<1>2. /\ toHost \in Seq(KeyWires(r)) /\ DOMAIN toHost = 1 .. Len(toHost) /\ Len(toHost) \in Nat
      /\ DOMAIN new = 1 .. Len(new) /\ Len(new) \in Nat
      /\ strokes \in Seq(KeyWires(r)) /\ down \subseteq r.keys
  BY DEF KeyInv, KeyPageTyped, KeyDeskTyped
<1>3. /\ toHost' \in Seq(KeyWires(r)) /\ DOMAIN toHost' = 1 .. Len(toHost) + Len(new)
      /\ \A i \in 1 .. Len(toHost) : toHost'[i] = toHost[i]
      /\ \A i \in 1 .. Len(new) : toHost'[Len(toHost) + i] = new[i]
  BY <1>1, <1>2, ConcatProperties DEF KeyGiven
<1>4. \A k \in r.keys : \A d : KeyOwned(r, k, d) => KeyOwned(r, k, d)' \/ KeyEndIn(r, new, k, d)
  BY <1>1 DEF KeyGiven, KeyOwned, KeyEndIn, KeyEnds
<1>5. \A k, d : KeyEndIn(r, new, k, d) => \E j \in DOMAIN toHost' : j > Len(toHost) /\ KeyEnds(r, toHost'[j], k, d)
  <2> SUFFICES ASSUME NEW k, NEW d, KeyEndIn(r, new, k, d)
               PROVE  \E j \in DOMAIN toHost' : j > Len(toHost) /\ KeyEnds(r, toHost'[j], k, d)
    OBVIOUS
  <2>1. PICK j \in 1 .. Len(new) : KeyEnds(r, new[j], k, d)
    BY <1>2 DEF KeyEndIn
  <2>2. Len(toHost) + j \in DOMAIN toHost' /\ Len(toHost) + j > Len(toHost) /\ toHost'[Len(toHost) + j] = new[j]
    BY <1>2, <1>3
  <2> QED BY <2>1, <2>2
<1>6. KeyWire(r)'
  <2> SUFFICES ASSUME NEW i \in DOMAIN toHost', toHost'[i].kind = "d"
               PROVE  \/ KeyOwned(r, toHost[i].key, toHost[i].doc)'
                      \/ KeyEndAfter(r, toHost, i, toHost[i].key, toHost[i].doc)'
    BY DEF KeyWire
  <2>1. CASE i \in 1 .. Len(toHost)
    <3>0. toHost'[i] = toHost[i] /\ toHost[i] \in KeyWires(r)
      BY <2>1, <1>2, <1>3
    <3>1. toHost'[i] = toHost[i] /\ toHost[i].key \in r.keys
      BY <3>0 DEF KeyWires
    <3>2. KeyOwned(r, toHost[i].key, toHost[i].doc) \/ KeyEndAfter(r, toHost, i, toHost[i].key, toHost[i].doc)
      BY <2>1, <3>1, <1>2 DEF KeyInv, KeyWire
    <3>3. CASE KeyEndAfter(r, toHost, i, toHost[i].key, toHost[i].doc)
      <4>1. PICK j \in 1 .. Len(toHost) : j > i /\ KeyEnds(r, toHost[j], toHost[i].key, toHost[i].doc)
        BY <3>3, <1>2 DEF KeyEndAfter
      <4>2. j \in DOMAIN toHost' /\ toHost'[j] = toHost[j]
        BY <1>2, <1>3
      <4> QED BY <3>1, <4>1, <4>2 DEF KeyEndAfter, KeyEnds
    <3>4. CASE KeyEndIn(r, new, toHost[i].key, toHost[i].doc)
      <4>1. PICK j \in DOMAIN toHost' : j > Len(toHost) /\ KeyEnds(r, toHost'[j], toHost[i].key, toHost[i].doc)
        BY <3>4, <1>5
      <4>2. j > i
        BY <2>1, <1>2, <1>3, <4>1
      <4> QED BY <3>1, <4>1, <4>2 DEF KeyEndAfter, KeyEnds
    <3>5. CASE KeyOwned(r, toHost[i].key, toHost[i].doc)'
      BY <3>5
    <3> QED BY <3>1, <3>2, <3>3, <3>4, <3>5, <1>4 DEF KeyOwned
  <2>2. CASE i \notin 1 .. Len(toHost)
    <3>1. PICK n \in 1 .. Len(new) : i = Len(toHost) + n
      <4>1. i - Len(toHost) \in 1 .. Len(new) /\ i = Len(toHost) + (i - Len(toHost))
        BY <2>2, <1>2, <1>3
      <4> QED BY <4>1
    <3>2. toHost'[i] = new[n]
      BY <3>1, <1>3
    <3> QED BY <3>2, <1>1, <1>2 DEF KeyGiven, KeyOwned
  <2> QED BY <2>1, <2>2
<1>7. \A k \in r.keys : KeyComing(r, k) => KeyComing(r, k)'
  <2> SUFFICES ASSUME NEW k \in r.keys, KeyComing(r, k) PROVE KeyComing(r, k)'
    OBVIOUS
  <2>1. CASE KeyOwned(r, k, desk.doc)'
    BY <2>1 DEF KeyComing
  <2>2. CASE KeyEndIn(r, new, k, desk.doc)
    <3>1. PICK j \in DOMAIN toHost' : KeyEnds(r, toHost'[j], k, desk.doc)
      BY <2>2, <1>5
    <3> QED BY <3>1 DEF KeyComing, KeyEndIn, KeyEnds
  <2>3. CASE KeyEndIn(r, toHost, k, desk.doc)
    BY <2>3, <1>2, <1>3 DEF KeyComing, KeyEndIn, KeyEnds
  <2>4. KeyOwned(r, k, desk.doc) => KeyOwned(r, k, desk.doc)' \/ KeyEndIn(r, new, k, desk.doc)
    BY <1>4 DEF KeyOwned
  <2> QED BY <2>1, <2>2, <2>3, <2>4 DEF KeyComing
<1>8. KeyLost(r)' \/ (KeyStrokes(r) /\ KeyDowns(r))'
  <2>1. CASE KeyLost(r)
    BY <2>1 DEF KeyLost
  <2>2. CASE KeyStrokes(r) /\ KeyDowns(r)
    <3>0. \A i \in DOMAIN strokes : strokes[i] \in KeyWires(r)
      BY <1>2
    <3>1. \A i \in DOMAIN strokes : strokes[i].key \in r.keys
      BY <3>0 DEF KeyWires
    <3>2. KeyStrokes(r)'
      BY <2>2, <3>1, <1>7 DEF KeyStrokes, KeyEndAfter, KeyEnds
    <3>3. KeyDowns(r)'
      BY <2>2, <1>2, <1>7 DEF KeyDowns, KeyEndIn, KeyEnds
    <3> QED BY <3>2, <3>3
  <2> QED BY <2>1, <2>2 DEF KeyInv
<1>9. KeyDeskTyped(r)' /\ KeyQuiet(r)' /\ KeyHere(r)'
  BY DEF KeyInv, KeyDeskTyped, KeyQuiet, KeyHere
<1> QED BY <1>6, <1>8, <1>9 DEF KeyInv

\* What the handlers of keys leave as it is.
KeyKept(r) ==
  /\ page' \in KeyPages(r) /\ toHost' \in Seq(KeyWires(r)) /\ KeyGives(r)
  /\ page'.doc = page.doc /\ page'.on = page.on /\ page'.greeted = page.greeted
  /\ ~page.on => \A k \in r.keys : page'.held[k] # "host"

LEMMA KeyDowned ==
  ASSUME NEW r, KeyInv(r), NEW k \in r.keys, NEW repeat \in BOOLEAN, NEW eligible \in BOOLEAN,
         Routed(r)!KeyDown(k, repeat, eligible)
  PROVE  KeyKept(r)
<1> DEFINE W == KeyWires(r)
           up == [key |-> k, kind |-> "u", doc |-> page.says]
           press == [key |-> k, kind |-> IF repeat THEN "r" ELSE "d", doc |-> page.says]
           missed == Routed(r)!Missed(page, k, repeat)
           who == Routed(r)!OwnerOf(page, k, repeat, eligible)
           new == (IF missed THEN <<up>> ELSE <<>>) \o (IF who = "host" THEN <<press>> ELSE <<>>)
<1>1. page \in KeyPages(r) /\ toHost \in Seq(W) /\ (~page.on => \A l \in r.keys : page.held[l] # "host")
  BY DEF KeyInv, KeyPageTyped, KeySession
<1>2. up \in W /\ press \in W
  BY <1>1 DEF KeyWires, KeyPages
<1>3. CASE k \in page.cancelled /\ repeat
  <2>1. UNCHANGED <<page, toHost>>
    BY <1>3 DEF Routed!KeyDown
  <2>2. KeyGiven(r, <<>>)
    BY <2>1, <1>1, ConcatEmptySeq DEF KeyGiven
  <2> QED BY <2>1, <2>2, <1>1, EmptySeq DEF KeyKept, KeyGives
<1>4. CASE ~(k \in page.cancelled /\ repeat)
  <2>1. /\ page' = [page EXCEPT !.cancelled = @ \ {k}, !.held[k] = who]
        /\ toHost' = toHost \o (IF missed THEN <<up>> ELSE <<>>) \o (IF who = "host" THEN <<press>> ELSE <<>>)
    BY <1>4 DEF Routed!KeyDown, Routed!Message
  <2>2. page.held \in [r.keys -> {"none", "host", "page"}] /\ page.on \in BOOLEAN
    BY <1>1 DEF KeyPages
  <2>3. who \in {"none", "host", "page"} /\ (missed <=> r.route = "shortcut" /\ ~repeat /\ page.held[k] = "host")
    BY <2>2 DEF Routed!OwnerOf, Routed!Missed
  <2>4. page.held[k] = "host" /\ ~missed => who = "host"
    BY DEF Routed!OwnerOf
  <2>5. ~page.on => who # "host"
    BY <1>1 DEF Routed!OwnerOf
  <2>6. /\ page' \in KeyPages(r) /\ page'.held = [page.held EXCEPT ![k] = who] /\ page'.says = page.says
        /\ page'.doc = page.doc /\ page'.on = page.on /\ page'.greeted = page.greeted
    BY <1>1, <2>1, <2>2, <2>3 DEF KeyPages
  <2>7. new \in Seq(W) /\ toHost' = toHost \o new /\ toHost' \in Seq(W)
    <3> HIDE DEF up, press, missed, who
    <3>1. <<up>> \in Seq(W) /\ <<press>> \in Seq(W) /\ <<>> \in Seq(W)
      BY <1>2
    <3>2. PICK a \in Seq(W) : a = IF missed THEN <<up>> ELSE <<>>
      BY <3>1
    <3>3. PICK b \in Seq(W) : b = IF who = "host" THEN <<press>> ELSE <<>>
      BY <3>1
    <3>4. new = a \o b /\ toHost' = (toHost \o a) \o b
      BY <3>2, <3>3, <2>1
    <3> HIDE DEF new
    <3>5. (toHost \o a) \o b = toHost \o (a \o b) /\ a \o b \in Seq(W)
      BY <1>1, ConcatAssociative, ConcatProperties
    <3> QED BY <3>4, <3>5, <1>1, ConcatProperties
  <2>8. /\ missed => \E j \in DOMAIN new : new[j] = up
        /\ \A i \in DOMAIN new : new[i] = up \/ (new[i] = press /\ who = "host")
    <3> HIDE DEF up, press, missed, who
    <3>1. CASE missed /\ who = "host"
      <4>1. new = <<up>> \o <<press>>
        BY <3>1
      <4>2. <<up>> \in Seq(W) /\ <<press>> \in Seq(W) /\ Len(<<up>>) = 1 /\ Len(<<press>>) = 1
        BY <1>2
      <4>3. DOMAIN new = 1 .. 2 /\ new[1] = up /\ new[2] = press
        <5> HIDE DEF new
        <5> QED BY <4>1, <4>2, ConcatProperties
      <4> HIDE DEF new
      <4> QED BY <4>3, <3>1
    <3>2. CASE missed /\ who # "host"
      <4>1. new = <<up>>
        BY <3>2
      <4> QED BY <4>1, <3>2
    <3>3. CASE ~missed /\ who = "host"
      <4>1. new = <<press>>
        BY <3>3
      <4> QED BY <4>1, <3>3
    <3>4. CASE ~missed /\ who # "host"
      <4>1. new = <<>>
        BY <3>4
      <4> QED BY <4>1, <3>4
    <3> QED BY <3>1, <3>2, <3>3, <3>4
  <2>9. KeyGiven(r, new)
    <3>1. ASSUME NEW l \in r.keys, page.held[l] = "host",
                 ~(page'.held[l] = "host" /\ (r.route = "shortcut" => page'.says = page.says))
          PROVE  KeyEndIn(r, new, l, page.says)
      <4>1. l = k /\ missed
        BY <3>1, <2>2, <2>4, <2>6
      <4>2. PICK j \in DOMAIN new : new[j] = up
        BY <4>1, <2>8
      <4> HIDE DEF new
      <4>3. KeyEnds(r, new[j], l, page.says)
        BY <4>1, <4>2 DEF KeyEnds
      <4> QED BY <4>2, <4>3 DEF KeyEndIn
    <3>2. ASSUME NEW i \in DOMAIN new, new[i].kind = "d"
          PROVE  page'.held[new[i].key] = "host" /\ (r.route = "shortcut" => page'.says = new[i].doc)
      <4>1. new[i] = press /\ who = "host"
        BY <3>2, <2>8
      <4>2. new[i].key = k /\ new[i].doc = page.says
        BY <4>1
      <4>3. page'.held[k] = "host" /\ page'.says = page.says
        BY <4>1, <2>2, <2>6
      <4> QED BY <4>2, <4>3
    <3> HIDE DEF new
    <3> QED BY <2>7, <3>1, <3>2 DEF KeyGiven
  <2>a. ~page.on => \A l \in r.keys : page'.held[l] # "host"
    BY <1>1, <2>2, <2>5, <2>6
  <2> HIDE DEF new
  <2> QED BY <2>6, <2>7, <2>9, <2>a DEF KeyKept, KeyGives
<1> QED BY <1>3, <1>4

\* Every key the page owned is given back.
LEMMA KeyReleases ==
  ASSUME NEW r, IsFiniteSet(r.keys), page \in KeyPages(r),
         toHost' = toHost \o Routed(r)!Ups(page, Routed(r)!Owned(page))
  PROVE  KeyGives(r)
<1>1. PICK p \in KeyPages(r) : p = page
  OBVIOUS
<1>2. PICK K \in SUBSET r.keys : K = Routed(r)!Owned(page) /\ K = {k \in r.keys : page.held[k] = "host"}
  BY KeyNames
<1> DEFINE new == Routed(r)!Ups(p, K)
<1>3. /\ new \in Seq(KeyWires(r)) /\ \A i \in DOMAIN new : new[i].kind = "u"
      /\ \A k \in K : \E i \in DOMAIN new : new[i] = [key |-> k, kind |-> "u", doc |-> page.says]
  <2>1. IsFiniteSet(K) /\ p.says \in 0 .. r.documents
    BY <1>1, <1>2, FS_Subset DEF KeyPages
  <2> QED BY <1>1, <2>1, KeyUps
<1>4. toHost' = toHost \o new
  BY <1>1, <1>2
<1> HIDE DEF new
<1>5. ASSUME NEW k \in r.keys, page.held[k] = "host" PROVE KeyEndIn(r, new, k, page.says)
  <2>1. PICK i \in DOMAIN new : new[i] = [key |-> k, kind |-> "u", doc |-> page.says]
    BY <1>2, <1>3, <1>5
  <2> QED BY <2>1 DEF KeyEndIn, KeyEnds
<1>6. KeyGiven(r, new)
  BY <1>3, <1>4, <1>5 DEF KeyGiven
<1> QED BY <1>3, <1>6 DEF KeyGives

KeyRoute(r) ==
  /\ r.route \in {"shortcut", "space"} /\ (r.route = "space" => \A a, b \in r.keys : a = b) /\ IsFiniteSet(r.keys)
  /\ {r.limit, r.documents} \subseteq Nat \ {0} /\ {r.presses, r.wire} \subseteq Nat

LEMMA KeyStays ==
  ASSUME NEW r, KeyInv(r), UNCHANGED <<page, toHost>>
  PROVE  KeyKept(r)
<1>1. page \in KeyPages(r) /\ toHost \in Seq(KeyWires(r)) /\ (~page.on => \A l \in r.keys : page.held[l] # "host")
  BY DEF KeyInv, KeyPageTyped, KeySession
<1>2. KeyGiven(r, <<>>)
  BY <1>1, ConcatEmptySeq DEF KeyGiven
<1> QED BY <1>1, <1>2, EmptySeq DEF KeyKept, KeyGives

LEMMA KeyHandled ==
  ASSUME NEW r, KeyInv(r), KeyKept(r), UNCHANGED <<desk, strokes, down, reaper, toPage>>,
         pressed' \subseteq r.keys, focused' \in BOOLEAN, presses' \in 0 .. r.presses
  PROVE  KeyInv(r)'
<1>1. KeyPageTyped(r)'
  BY DEF KeyInv, KeyPageTyped, KeyKept
<1>2. KeySession(r)'
  BY DEF KeyInv, KeySession, KeyKept
<1> QED BY <1>1, <1>2, KeyPaged DEF KeyKept

LEMMA KeyUpped ==
  ASSUME NEW r, KeyInv(r), NEW k \in r.keys, Routed(r)!KeyUp(k)
  PROVE  KeyKept(r)
<1> DEFINE W == KeyWires(r)
           up == [key |-> k, kind |-> "u", doc |-> page.says]
           new == IF page.held[k] = "host" THEN <<up>> ELSE <<>>
<1>1. /\ page \in KeyPages(r) /\ toHost \in Seq(W) /\ (~page.on => \A l \in r.keys : page.held[l] # "host")
      /\ page.held \in [r.keys -> {"none", "host", "page"}]
  BY DEF KeyInv, KeyPageTyped, KeySession, KeyPages
<1>2. up \in W
  BY <1>1 DEF KeyWires, KeyPages
<1>3. page' = [page EXCEPT !.held[k] = "none", !.cancelled = @ \ {k}] /\ toHost' = toHost \o new
  BY DEF Routed!KeyUp, Routed!Message
<1>4. /\ page' \in KeyPages(r) /\ page'.held = [page.held EXCEPT ![k] = "none"] /\ page'.says = page.says
      /\ page'.doc = page.doc /\ page'.on = page.on /\ page'.greeted = page.greeted
  BY <1>1, <1>3 DEF KeyPages
<1>5. new \in Seq(W) /\ toHost' \in Seq(W)
  BY <1>1, <1>2, <1>3, ConcatProperties
<1>6. ASSUME NEW l \in r.keys, page.held[l] = "host", page'.held[l] # "host"
      PROVE  KeyEndIn(r, new, l, page.says)
  <2>1. l = k /\ new = <<up>>
    BY <1>1, <1>4, <1>6
  <2>2. 1 \in DOMAIN new /\ new[1] = up
    BY <2>1
  <2> HIDE DEF new
  <2> QED BY <2>1, <2>2 DEF KeyEndIn, KeyEnds
<1>7. \A i \in DOMAIN new : new[i].kind = "u"
  OBVIOUS
<1> HIDE DEF new
<1>8. KeyGiven(r, new)
  BY <1>3, <1>4, <1>6, <1>7 DEF KeyGiven
<1>9. \A l \in r.keys : page'.held[l] = "host" => page.held[l] = "host"
  BY <1>1, <1>4
<1> QED BY <1>1, <1>4, <1>5, <1>8, <1>9 DEF KeyKept, KeyGives

LEMMA KeyGivesBack ==
  ASSUME NEW r, KeyRoute(r), KeyInv(r), Routed(r)!GiveBack
  PROVE  KeyKept(r)
<1>1. /\ page \in KeyPages(r) /\ toHost \in Seq(KeyWires(r)) /\ IsFiniteSet(r.keys)
      /\ page' = Routed(r)!Released(page) /\ toHost' = toHost \o Routed(r)!Ups(page, Routed(r)!Owned(page))
  BY DEF KeyInv, KeyPageTyped, KeyRoute, Routed!GiveBack
<1>2. Routed(r)!Owned(page) \subseteq r.keys
  BY KeyNames
<1>3. /\ page' \in KeyPages(r) /\ page'.held = [k \in r.keys |-> "none"]
      /\ page'.doc = page.doc /\ page'.on = page.on /\ page'.greeted = page.greeted
  BY <1>1, <1>2 DEF Routed!Released, KeyPages
<1>4. KeyGives(r)
  BY <1>1, KeyReleases
<1>5. toHost' \in Seq(KeyWires(r))
  BY <1>1, <1>4, ConcatProperties DEF KeyGives, KeyGiven
<1> QED BY <1>3, <1>4, <1>5 DEF KeyKept

\* The user's keys and focus.
LEMMA KeyUser ==
  ASSUME NEW r, KeyRoute(r), KeyInv(r),
         \/ \E k \in r.keys : Routed(r)!Press(k) \/ Routed(r)!Repeat(k) \/ Routed(r)!Lift(k)
         \/ Routed(r)!Focus
  PROVE  KeyInv(r)'
<1>1. pressed \subseteq r.keys /\ focused \in BOOLEAN /\ presses \in 0 .. r.presses /\ r.presses \in Nat
  BY DEF KeyInv, KeyPageTyped, KeyRoute
<1>2. ASSUME NEW k \in r.keys, Routed(r)!Press(k) PROVE KeyInv(r)'
  <2>1. PICK eligible \in BOOLEAN : Routed(r)!KeyDown(k, FALSE, eligible)
    BY <1>2 DEF Routed!Press
  <2>2. KeyKept(r)
    BY <2>1, KeyDowned
  <2>3. /\ UNCHANGED <<desk, strokes, down, reaper, toPage, focused>> /\ pressed' = pressed \cup {k}
        /\ presses < r.presses /\ presses' = presses + 1
    BY <1>2 DEF Routed!Press, Routed!HostRest
  <2> QED BY <1>1, <2>2, <2>3, KeyHandled
<1>3. ASSUME NEW k \in r.keys, Routed(r)!Repeat(k) PROVE KeyInv(r)'
  <2>1. PICK eligible \in BOOLEAN : Routed(r)!KeyDown(k, TRUE, eligible)
    BY <1>3 DEF Routed!Repeat
  <2>2. KeyKept(r)
    BY <2>1, KeyDowned
  <2>3. UNCHANGED <<desk, strokes, down, reaper, toPage, focused, pressed, presses>>
    BY <1>3 DEF Routed!Repeat, Routed!HostRest
  <2> QED BY <1>1, <2>2, <2>3, KeyHandled
<1>4. ASSUME NEW k \in r.keys, Routed(r)!Lift(k) PROVE KeyInv(r)'
  <2>1. Routed(r)!KeyUp(k) \/ UNCHANGED <<page, toHost>>
    BY <1>4 DEF Routed!Lift
  <2>2. KeyKept(r)
    BY <2>1, KeyUpped, KeyStays
  <2>3. UNCHANGED <<desk, strokes, down, reaper, toPage, focused, presses>> /\ pressed' = pressed \ {k}
    BY <1>4 DEF Routed!Lift, Routed!HostRest
  <2> QED BY <1>1, <2>2, <2>3, KeyHandled
<1>5. ASSUME Routed(r)!Focus PROVE KeyInv(r)'
  <2>1. Routed(r)!GiveBack \/ UNCHANGED <<page, toHost>>
    BY <1>5 DEF Routed!Focus
  <2>2. KeyKept(r)
    BY <2>1, KeyGivesBack, KeyStays
  <2>3. UNCHANGED <<desk, strokes, down, reaper, toPage, pressed, presses>> /\ focused' = ~focused
    BY <1>5 DEF Routed!Focus, Routed!HostRest
  <2> QED BY <1>1, <2>2, <2>3, KeyHandled
<1> QED BY <1>2, <1>3, <1>4, <1>5

\* A script of the host reaches the page.
LEMMA KeyRunScript ==
  ASSUME NEW r, KeyRoute(r), KeyInv(r), Routed(r)!RunScript
  PROVE  KeyInv(r)'
<1> DEFINE on == Head(toPage).on
           said == Head(toPage).doc
           back == page.on /\ (~on \/ (r.route = "shortcut" /\ page.says # said))
           base == IF back THEN Routed(r)!Released(page) ELSE page
<1>1. /\ KeyPageTyped(r) /\ KeySession(r) /\ page \in KeyPages(r) /\ toHost \in Seq(KeyWires(r)) /\ IsFiniteSet(r.keys)
      /\ toPage \in Seq([on : BOOLEAN, doc : 0 .. r.documents]) /\ Len(toPage) <= r.wire
  BY DEF KeyInv, KeyPageTyped, KeyRoute
<1>2. /\ toPage # <<>> /\ toPage' = Tail(toPage)
      /\ page' = [base EXCEPT !.on = on, !.says = said]
      /\ toHost' = toHost \o (IF back THEN Routed(r)!Ups(page, Routed(r)!Owned(page)) ELSE <<>>)
      /\ UNCHANGED <<pressed, focused, presses, desk, strokes, down, reaper>>
  BY DEF Routed!RunScript, Routed!HostRest
<1>3. /\ on \in BOOLEAN /\ said \in 0 .. r.documents
      /\ toPage' \in Seq([on : BOOLEAN, doc : 0 .. r.documents]) /\ Len(toPage') <= r.wire
  <2>1. Head(toPage) \in [on : BOOLEAN, doc : 0 .. r.documents] /\ Len(Tail(toPage)) = Len(toPage) - 1
        /\ Tail(toPage) \in Seq([on : BOOLEAN, doc : 0 .. r.documents])
    BY <1>1, <1>2, HeadTailProperties
  <2>2. Len(toPage) \in Nat /\ r.wire \in Nat
    BY <1>1 DEF KeyRoute
  <2> QED BY <1>1, <1>2, <2>1, <2>2
<1>4. base \in KeyPages(r) /\ base.doc = page.doc /\ base.greeted = page.greeted
      /\ base.held = IF back THEN [k \in r.keys |-> "none"] ELSE page.held
  <2>1. Routed(r)!Owned(page) \subseteq r.keys
    BY KeyNames
  <2> QED BY <1>1, <2>1 DEF Routed!Released, KeyPages
<1> HIDE DEF base
<1>5. /\ page' \in KeyPages(r) /\ page'.doc = page.doc /\ page'.greeted = page.greeted /\ page'.on = on
      /\ page'.says = said /\ page'.held = base.held
  <2> HIDE DEF on, said
  <2> QED BY <1>2, <1>3, <1>4 DEF KeyPages
<1>6. ~page.on => \A k \in r.keys : page.held[k] # "host"
  BY <1>1 DEF KeySession
<1>7. KeyGives(r)
  <2>1. CASE back
    BY <2>1, <1>1, <1>2, KeyReleases
  <2>2. CASE ~back
    <3>1. toHost' = toHost \o <<>> /\ page'.held = page.held
      BY <2>2, <1>2, <1>4, <1>5
    <3>2. page.on => page'.on /\ (r.route = "shortcut" => page'.says = page.says)
      BY <2>2, <1>5
    <3>3. KeyGiven(r, <<>>)
      BY <3>1, <3>2, <1>6 DEF KeyGiven
    <3> QED BY <3>3, EmptySeq DEF KeyGives
  <2> QED BY <2>1, <2>2
<1>8. \A k \in r.keys : ~page'.on => page'.held[k] # "host"
  BY <1>4, <1>5, <1>6
<1>9. toHost' \in Seq(KeyWires(r))
  BY <1>1, <1>7, ConcatProperties DEF KeyGives, KeyGiven
<1>a. KeyPageTyped(r)'
  BY <1>1, <1>2, <1>3, <1>5, <1>9 DEF KeyPageTyped
<1>b. KeySession(r)'
  BY <1>1, <1>2, <1>5, <1>8 DEF KeySession
<1> QED BY <1>2, <1>7, <1>a, <1>b, KeyPaged

\* The next document takes the place of this one.
LEMMA KeyCommit ==
  ASSUME NEW r, KeyRoute(r), KeyInv(r), Routed(r)!Commit
  PROVE  KeyInv(r)'
<1>1. /\ KeyPageTyped(r) /\ KeySession(r) /\ page \in KeyPages(r) /\ toHost \in Seq(KeyWires(r)) /\ IsFiniteSet(r.keys)
      /\ toPage \in Seq([on : BOOLEAN, doc : 0 .. r.documents]) /\ Len(toPage) <= r.wire /\ r.wire \in Nat
      /\ r.documents \in Nat \ {0}
  BY DEF KeyInv, KeyPageTyped, KeyRoute
<1>2. /\ page.greeted /\ ~desk.ready /\ toPage' \in {<<>>, toPage} /\ page' = Routed(r)!NewPage(page.doc + 1)
      /\ toHost' = toHost \o Routed(r)!Ups(page, Routed(r)!Owned(page))
      /\ UNCHANGED <<pressed, focused, presses, desk, strokes, down, reaper>>
  BY DEF Routed!Commit, Routed!HostRest
<1>3. page.doc \in Nat /\ page.doc + 1 \in 1 .. r.documents
  <2>1. page.doc < r.documents
    BY <1>1, <1>2 DEF KeySession
  <2>2. page.doc \in 1 .. r.documents
    BY <1>1 DEF KeyPages
  <2> QED BY <2>1, <2>2, <1>1
<1>4. /\ page' \in KeyPages(r) /\ page'.doc = page.doc + 1 /\ ~page'.greeted /\ ~page'.on
      /\ page'.held = [k \in r.keys |-> "none"]
  BY <1>1, <1>2, <1>3 DEF Routed!NewPage, KeyPages
<1>5. KeyGives(r)
  BY <1>1, <1>2, KeyReleases
<1>6. toHost' \in Seq(KeyWires(r))
  BY <1>1, <1>5, ConcatProperties DEF KeyGives, KeyGiven
<1>7. toPage' \in Seq([on : BOOLEAN, doc : 0 .. r.documents]) /\ Len(toPage') <= r.wire
  <2>1. CASE toPage' = <<>>
    BY <2>1, <1>1
  <2>2. CASE toPage' = toPage
    BY <2>2, <1>1
  <2> QED BY <2>1, <2>2, <1>2
<1>8. KeyPageTyped(r)'
  BY <1>1, <1>2, <1>4, <1>6, <1>7 DEF KeyPageTyped
<1>9. KeySession(r)'
  BY <1>1, <1>2, <1>4 DEF KeySession
<1> QED BY <1>2, <1>5, <1>8, <1>9, KeyPaged

\* A step that forgets what waits, and lets every key go up.
LEMMA KeyEmptied ==
  ASSUME NEW r, KeyRoute(r), KeyPageTyped(r)', KeySession(r)', KeyWire(r)', desk' \in KeyDesks(r),
         strokes' = <<>>, down' = {}, reaper' = {}
  PROVE  KeyInv(r)'
<1>1. Len(strokes') <= r.limit /\ strokes' \in Seq(KeyWires(r)) /\ DOMAIN strokes' = {}
  BY DEF KeyRoute
<1> QED BY <1>1 DEF KeyInv, KeyDeskTyped, KeyQuiet, KeyHere, KeyStrokes, KeyDowns

\* A step of the host that changes the session and the scripts on their way only.
LEMMA KeySteady ==
  ASSUME NEW r, KeyInv(r), desk' \in KeyDesks(r), KeySession(r)', KeyQuiet(r)', KeyLost(r) => KeyLost(r)',
         desk'.doc = desk.doc, UNCHANGED <<page, toHost, strokes, down, reaper, pressed, focused, presses>>,
         toPage' \in Seq([on : BOOLEAN, doc : 0 .. r.documents]), Len(toPage') <= r.wire
  PROVE  KeyInv(r)'
<1>1. KeyPageTyped(r)' /\ KeyDeskTyped(r)' /\ KeyHere(r)'
  BY DEF KeyInv, KeyPageTyped, KeyDeskTyped, KeyHere
<1>2. KeyWire(r)'
  BY DEF KeyInv, KeyWire, KeyOwned, KeyEndAfter, KeyEnds
<1>3. KeyStrokes(r) => KeyStrokes(r)'
  BY DEF KeyStrokes, KeyComing, KeyOwned, KeyEndIn, KeyEndAfter, KeyEnds
<1>4. KeyDowns(r) => KeyDowns(r)'
  BY DEF KeyDowns, KeyComing, KeyOwned, KeyEndIn, KeyEnds
<1> QED BY <1>1, <1>2, <1>3, <1>4 DEF KeyInv

\* A queue without its first message: what follows what, and what it held.
LEMMA KeyTail ==
  ASSUME NEW W, NEW q \in Seq(W), q # <<>>
  PROVE  /\ q[1] = Head(q) /\ Head(q) \in W /\ Tail(q) \in Seq(W) /\ Len(Tail(q)) = Len(q) - 1
         /\ DOMAIN Tail(q) = 1 .. Len(q) - 1 /\ \A i \in DOMAIN Tail(q) : i + 1 \in DOMAIN q /\ Tail(q)[i] = q[i + 1]
         /\ 1 \in DOMAIN q /\ \A j \in DOMAIN q : j > 1 => j - 1 \in DOMAIN Tail(q) /\ Tail(q)[j - 1] = q[j]
<1>1. Len(q) \in Nat \ {0} /\ DOMAIN q = 1 .. Len(q) /\ q[1] = Head(q)
  <2>1. Len(q) \in Nat /\ DOMAIN q = 1 .. Len(q) /\ Len(q) # 0
    BY EmptySeq
  <2> QED BY <2>1
<1>2. /\ Head(q) \in W /\ Tail(q) \in Seq(W) /\ Len(Tail(q)) = Len(q) - 1
      /\ \A i \in 1 .. Len(Tail(q)) : Tail(q)[i] = q[i + 1]
  BY HeadTailProperties
<1>3. DOMAIN Tail(q) = 1 .. Len(q) - 1
  BY <1>2
<1>4. \A i \in DOMAIN Tail(q) : i + 1 \in DOMAIN q /\ Tail(q)[i] = q[i + 1]
  BY <1>1, <1>2, <1>3
<1>5. ASSUME NEW j \in DOMAIN q, j > 1 PROVE j - 1 \in DOMAIN Tail(q) /\ Tail(q)[j - 1] = q[j]
  <2>1. j - 1 \in DOMAIN Tail(q) /\ (j - 1) + 1 = j
    BY <1>1, <1>3, <1>5
  <2>2. Tail(q)[j - 1] = q[(j - 1) + 1]
    BY <2>1, <1>4
  <2> QED BY <2>1, <2>2
<1> QED BY <1>1, <1>2, <1>3, <1>4, <1>5

LEMMA KeyEndsLater ==
  ASSUME NEW r, NEW q \in Seq(KeyWires(r)), q # <<>>, NEW k, NEW d
  PROVE  /\ KeyEndIn(r, q, k, d) => KeyEnds(r, Head(q), k, d) \/ KeyEndIn(r, Tail(q), k, d)
         /\ KeyEndAfter(r, q, 1, k, d) => KeyEndIn(r, Tail(q), k, d)
         /\ \A i \in DOMAIN Tail(q) : KeyEndAfter(r, q, i + 1, k, d) => KeyEndAfter(r, Tail(q), i, k, d)
<1>0. DOMAIN q = 1 .. Len(q) /\ Len(q) \in Nat /\ DOMAIN Tail(q) = 1 .. Len(q) - 1
  BY KeyTail
<1>1. ASSUME KeyEndIn(r, q, k, d) PROVE KeyEnds(r, Head(q), k, d) \/ KeyEndIn(r, Tail(q), k, d)
  <2>1. PICK j \in DOMAIN q : KeyEnds(r, q[j], k, d)
    BY <1>1 DEF KeyEndIn
  <2>2. CASE j = 1
    BY <2>1, <2>2, KeyTail
  <2>3. CASE j > 1
    <3>1. j - 1 \in DOMAIN Tail(q) /\ Tail(q)[j - 1] = q[j]
      BY <2>3, KeyTail
    <3> QED BY <2>1, <3>1 DEF KeyEndIn
  <2> QED BY <1>0, <2>2, <2>3
<1>2. ASSUME KeyEndAfter(r, q, 1, k, d) PROVE KeyEndIn(r, Tail(q), k, d)
  <2>1. PICK j \in DOMAIN q : j > 1 /\ KeyEnds(r, q[j], k, d)
    BY <1>2 DEF KeyEndAfter
  <2>2. j - 1 \in DOMAIN Tail(q) /\ Tail(q)[j - 1] = q[j]
    BY <2>1, KeyTail
  <2> QED BY <2>1, <2>2 DEF KeyEndIn
<1>3. ASSUME NEW i \in DOMAIN Tail(q), KeyEndAfter(r, q, i + 1, k, d) PROVE KeyEndAfter(r, Tail(q), i, k, d)
  <2>1. PICK j \in DOMAIN q : j > i + 1 /\ KeyEnds(r, q[j], k, d)
    BY <1>3 DEF KeyEndAfter
  <2>2. j > 1 /\ j - 1 > i
    BY <2>1, <1>0
  <2>3. j - 1 \in DOMAIN Tail(q) /\ Tail(q)[j - 1] = q[j]
    BY <2>1, <2>2, KeyTail
  <2> QED BY <2>1, <2>2, <2>3 DEF KeyEndAfter
<1> QED BY <1>1, <1>2, <1>3

\* A message leaves the queue of the page.
LEMMA KeyTaken ==
  ASSUME NEW r, KeyInv(r), toHost # <<>>, toHost' = Tail(toHost), UNCHANGED <<page, desk>>
  PROVE  /\ KeyWire(r)' /\ toHost' \in Seq(KeyWires(r)) /\ Head(toHost) \in KeyWires(r)
         /\ \A k : KeyComing(r, k) => KeyComing(r, k)' \/ KeyEnds(r, Head(toHost), k, desk.doc)
         /\ Head(toHost).kind = "d" => \/ KeyOwned(r, Head(toHost).key, Head(toHost).doc)
                                       \/ KeyEndIn(r, Tail(toHost), Head(toHost).key, Head(toHost).doc)
<1>1. PICK q \in Seq(KeyWires(r)) : q = toHost
  BY DEF KeyInv, KeyPageTyped
<1>2. q # <<>> /\ q[1] = Head(q) /\ 1 \in DOMAIN q /\ Head(q) \in KeyWires(r) /\ Tail(q) \in Seq(KeyWires(r))
  BY <1>1, KeyTail
<1>3. \A i \in DOMAIN q : q[i].kind = "d" => KeyOwned(r, q[i].key, q[i].doc) \/ KeyEndAfter(r, q, i, q[i].key, q[i].doc)
  BY <1>1 DEF KeyInv, KeyWire
<1>4. ASSUME NEW i \in DOMAIN Tail(q), Tail(q)[i].kind = "d"
      PROVE  KeyOwned(r, Tail(q)[i].key, Tail(q)[i].doc) \/ KeyEndAfter(r, Tail(q), i, Tail(q)[i].key, Tail(q)[i].doc)
  <2>1. i + 1 \in DOMAIN q /\ Tail(q)[i] = q[i + 1]
    BY <1>2, KeyTail
  <2>2. KeyOwned(r, q[i + 1].key, q[i + 1].doc) \/ KeyEndAfter(r, q, i + 1, q[i + 1].key, q[i + 1].doc)
    BY <1>3, <1>4, <2>1
  <2>3. KeyEndAfter(r, q, i + 1, q[i + 1].key, q[i + 1].doc) => KeyEndAfter(r, Tail(q), i, q[i + 1].key, q[i + 1].doc)
    BY <1>2, KeyEndsLater
  <2> QED BY <2>1, <2>2, <2>3
<1>5. KeyWire(r)'
  BY <1>1, <1>4 DEF KeyWire, KeyOwned, KeyEndAfter, KeyEnds
<1>6. ASSUME NEW k, KeyComing(r, k) PROVE KeyComing(r, k)' \/ KeyEnds(r, Head(toHost), k, desk.doc)
  <2>1. PICK d : d = desk.doc
    OBVIOUS
  <2>2. KeyEndIn(r, q, k, d) => KeyEnds(r, Head(q), k, d) \/ KeyEndIn(r, Tail(q), k, d)
    BY <1>2, KeyEndsLater
  <2> QED BY <1>1, <1>6, <2>1, <2>2 DEF KeyComing, KeyOwned, KeyEndIn, KeyEnds
<1>7. Head(q).kind = "d" => KeyOwned(r, Head(q).key, Head(q).doc) \/ KeyEndIn(r, Tail(q), Head(q).key, Head(q).doc)
  BY <1>2, <1>3, KeyEndsLater
<1> QED BY <1>1, <1>2, <1>5, <1>6, <1>7

\* A message of the page is taken in, or not.
LEMMA KeyReceive ==
  ASSUME NEW r, KeyRoute(r), KeyInv(r), Routed(r)!Receive
  PROVE  KeyInv(r)'
<1> DEFINE m == Head(toHost)
<1>1. /\ toHost # <<>> /\ toHost' = Tail(toHost) /\ desk.live
      /\ UNCHANGED <<page, desk, toPage, pressed, focused, presses>>
  BY DEF Routed!Receive, Routed!PageRest
<1>2. /\ KeyWire(r)' /\ toHost' \in Seq(KeyWires(r)) /\ m \in KeyWires(r)
      /\ \A k : KeyComing(r, k) => KeyComing(r, k)' \/ KeyEnds(r, m, k, desk.doc)
      /\ m.kind = "d" => KeyOwned(r, m.key, m.doc) \/ KeyEndIn(r, Tail(toHost), m.key, m.doc)
  BY <1>1, KeyTaken
<1> HIDE DEF m
<1>3. /\ KeyPageTyped(r) /\ KeyDeskTyped(r) /\ KeySession(r) /\ KeyQuiet(r) /\ KeyHere(r)
      /\ strokes \in Seq(KeyWires(r)) /\ down \subseteq r.keys /\ reaper \subseteq down /\ desk \in KeyDesks(r)
  BY DEF KeyInv, KeyDeskTyped
<1>4. KeyPageTyped(r)' /\ KeySession(r)' /\ desk' \in KeyDesks(r)
  BY <1>1, <1>2, <1>3 DEF KeyPageTyped, KeySession
<1>5. CASE ~Routed(r)!Takes(m)
  <2>1. UNCHANGED <<strokes, down, reaper>>
    BY <1>5 DEF Routed!Receive, m
  <2>2. KeyDeskTyped(r)' /\ KeyQuiet(r)' /\ KeyHere(r)'
    BY <1>1, <1>3, <2>1 DEF KeyDeskTyped, KeyQuiet, KeyHere
  <2>3. CASE KeyLost(r)
    BY <2>3, <1>1, <1>2, <1>4, <2>2 DEF KeyInv, KeyLost
  <2>4. CASE strokes = <<>> /\ down = {}
    BY <2>4, <2>1, <1>2, <1>4, <2>2 DEF KeyInv, KeyStrokes, KeyDowns
  <2>5. CASE ~KeyLost(r) /\ ~(strokes = <<>> /\ down = {})
    <3>1. desk.routing /\ ~desk.parked /\ desk.ready /\ KeyStrokes(r) /\ KeyDowns(r)
      BY <2>5, <1>3 DEF KeyInv, KeyQuiet
    <3>2. ~desk.closing
      BY <2>5, <1>3 DEF KeySession, KeyQuiet, KeyLost, KeyRoute, KeyDesks
    <3>3. \A k : ~KeyEnds(r, m, k, desk.doc)
      BY <1>5, <3>1, <3>2 DEF Routed!Takes, Routed!Enabled, KeyEnds, KeyRoute
    <3>4. \A k : KeyComing(r, k) => KeyComing(r, k)'
      BY <1>2, <3>3
    <3>5. KeyStrokes(r)'
      BY <1>1, <2>1, <3>1, <3>4 DEF KeyStrokes, KeyEndAfter, KeyEnds
    <3>6. KeyDowns(r)'
      BY <1>1, <2>1, <3>1, <3>4 DEF KeyDowns, KeyEndIn, KeyEnds
    <3> QED BY <1>2, <1>4, <2>2, <3>5, <3>6 DEF KeyInv
  <2> QED BY <2>3, <2>4, <2>5
<1>6. CASE Routed(r)!Takes(m)
  <2>0. /\ ~desk.closing /\ desk.ready /\ desk.routing /\ ~desk.parked /\ (r.route = "shortcut" => m.doc = desk.doc)
        /\ Len(strokes) \in Nat /\ DOMAIN strokes = 1 .. Len(strokes)
    BY <1>3, <1>6 DEF Routed!Takes, Routed!Enabled
  <2>1. CASE Len(strokes) < r.limit
    <3>1. strokes' = Append(strokes, m) /\ UNCHANGED <<down, reaper>>
      BY <1>6, <2>1 DEF Routed!Receive, m
    <3>2. /\ strokes' \in Seq(KeyWires(r)) /\ Len(strokes') = Len(strokes) + 1 /\ strokes'[Len(strokes) + 1] = m
          /\ \A i \in 1 .. Len(strokes) : strokes'[i] = strokes[i]
      BY <1>2, <1>3, <3>1, AppendProperties
    <3>3. DOMAIN strokes' = 1 .. Len(strokes) + 1 /\ Len(strokes') <= r.limit
      BY <2>0, <2>1, <3>2 DEF KeyRoute
    <3>4. KeyDeskTyped(r)'
      BY <1>1, <1>3, <3>1, <3>2, <3>3 DEF KeyDeskTyped
    <3>5. KeyQuiet(r)'
      BY <1>1, <2>0 DEF KeyQuiet
    <3>6. KeyHere(r)'
      <4> SUFFICES ASSUME r.route = "shortcut", NEW i \in 1 .. Len(strokes) + 1 PROVE strokes'[i].doc = desk.doc
        BY <1>1, <3>3 DEF KeyHere
      <4>1. CASE i = Len(strokes) + 1
        BY <4>1, <2>0, <3>2
      <4>2. CASE i \in 1 .. Len(strokes)
        BY <4>2, <2>0, <3>2, <1>3 DEF KeyHere
      <4> QED BY <4>1, <4>2, <2>0
    <3>7. CASE KeyLost(r)
      BY <3>7, <1>1, <1>2, <1>4, <3>4, <3>5, <3>6 DEF KeyInv, KeyLost
    <3>8. CASE KeyStrokes(r) /\ KeyDowns(r)
      <4>1. ASSUME NEW k, KeyEnds(r, m, k, desk.doc)
            PROVE  \E j \in DOMAIN strokes' : j > Len(strokes) /\ KeyEnds(r, strokes'[j], k, desk.doc)
        <5>1. Len(strokes) + 1 \in DOMAIN strokes' /\ Len(strokes) + 1 > Len(strokes)
          BY <2>0, <3>3
        <5> QED BY <4>1, <5>1, <3>2
      <4>2. KeyStrokes(r)'
        <5> SUFFICES ASSUME NEW i \in DOMAIN strokes', strokes'[i].kind = "d"
                     PROVE  KeyComing(r, strokes[i].key)' \/ KeyEndAfter(r, strokes, i, strokes[i].key, desk.doc)'
          BY DEF KeyStrokes
        <5>1. CASE i \in 1 .. Len(strokes)
          <6>1. strokes'[i] = strokes[i]
            BY <5>1, <3>2
          <6>2. KeyComing(r, strokes[i].key) \/ KeyEndAfter(r, strokes, i, strokes[i].key, desk.doc)
            BY <5>1, <6>1, <2>0, <3>8 DEF KeyStrokes
          <6>3. CASE KeyComing(r, strokes[i].key)'
            BY <6>3
          <6>4. CASE KeyEnds(r, m, strokes[i].key, desk.doc)
            <7>1. PICK j \in DOMAIN strokes' : j > Len(strokes) /\ KeyEnds(r, strokes'[j], strokes[i].key, desk.doc)
              BY <6>4, <4>1
            <7>2. j > i
              BY <7>1, <5>1, <2>0, <3>3
            <7> QED BY <7>1, <7>2, <6>1, <1>1 DEF KeyEndAfter, KeyEnds
          <6>5. CASE KeyEndAfter(r, strokes, i, strokes[i].key, desk.doc)
            <7>1. PICK j \in 1 .. Len(strokes) : j > i /\ KeyEnds(r, strokes[j], strokes[i].key, desk.doc)
              BY <6>5, <2>0 DEF KeyEndAfter
            <7>2. j \in DOMAIN strokes' /\ strokes'[j] = strokes[j]
              BY <2>0, <3>2, <3>3
            <7> QED BY <7>1, <7>2, <6>1, <1>1 DEF KeyEndAfter, KeyEnds
          <6>6. KeyComing(r, strokes[i].key) => KeyComing(r, strokes[i].key)' \/ KeyEnds(r, m, strokes[i].key, desk.doc)
            <7>1. PICK k : k = strokes[i].key
              OBVIOUS
            <7>2. KeyComing(r, k) => KeyComing(r, k)' \/ KeyEnds(r, m, k, desk.doc)
              BY <1>2
            <7>3. KeyComing(r, strokes[i].key)' <=> KeyComing(r, k)'
              BY <7>1, <6>1 DEF KeyComing, KeyOwned, KeyEndIn, KeyEnds
            <7> QED BY <7>1, <7>2, <7>3
          <6> QED BY <6>2, <6>3, <6>4, <6>5, <6>6
        <5>2. CASE i = Len(strokes) + 1
          <6>1. strokes'[i] = m
            BY <5>2, <3>2
          <6>2. KeyOwned(r, m.key, m.doc) \/ KeyEndIn(r, Tail(toHost), m.key, m.doc)
            BY <6>1, <1>2
          <6>3. KeyOwned(r, m.key, desk.doc) \/ KeyEndIn(r, Tail(toHost), m.key, desk.doc)
            BY <6>2, <2>0 DEF KeyOwned, KeyEndIn, KeyEnds
          <6> QED BY <6>1, <6>3, <1>1 DEF KeyComing, KeyOwned, KeyEndIn, KeyEnds
        <5> QED BY <5>1, <5>2, <2>0, <3>3
      <4>3. KeyDowns(r)'
        <5> SUFFICES ASSUME NEW k \in down' PROVE KeyComing(r, k)' \/ KeyEndIn(r, strokes', k, desk'.doc)
          BY DEF KeyDowns, KeyEndIn, KeyEnds
        <5>1. CASE KeyEnds(r, m, k, desk.doc)
          BY <5>1, <4>1, <1>1 DEF KeyEndIn
        <5>2. CASE KeyEndIn(r, strokes, k, desk.doc)
          <6>1. PICK j \in 1 .. Len(strokes) : KeyEnds(r, strokes[j], k, desk.doc)
            BY <5>2, <2>0 DEF KeyEndIn
          <6>2. j \in DOMAIN strokes' /\ strokes'[j] = strokes[j]
            BY <2>0, <3>2, <3>3
          <6> QED BY <6>1, <6>2, <1>1 DEF KeyEndIn
        <5>3. KeyComing(r, k) \/ KeyEndIn(r, strokes, k, desk.doc)
          BY <3>1, <3>8 DEF KeyDowns
        <5> QED BY <5>1, <5>2, <5>3, <1>2
      <4> QED BY <1>2, <1>4, <3>4, <3>5, <3>6, <4>2, <4>3 DEF KeyInv
    <3> QED BY <3>7, <3>8 DEF KeyInv
  <2>2. CASE ~(Len(strokes) < r.limit) /\ r.route = "shortcut"
    <3>1. strokes' = <<>> /\ down' = {} /\ reaper' = {}
      BY <1>3, <1>6, <2>2 DEF Routed!Receive, Routed!Release, m
    <3> QED BY <3>1, <1>2, <1>4, KeyEmptied
  <2>3. CASE ~(Len(strokes) < r.limit) /\ r.route = "space"
    <3>1. strokes' = <<[m EXCEPT !.kind = "u"]>> /\ UNCHANGED <<down, reaper>>
      BY <1>6, <2>3 DEF Routed!Receive, m
    <3>2. [m EXCEPT !.kind = "u"] \in KeyWires(r) /\ [m EXCEPT !.kind = "u"].key = m.key
          /\ [m EXCEPT !.kind = "u"].kind = "u" /\ m.key \in r.keys
      BY <1>2 DEF KeyWires
    <3>3. PICK u \in KeyWires(r) : u = [m EXCEPT !.kind = "u"] /\ u.key = m.key /\ u.kind = "u"
      BY <3>2
    <3>4. strokes' = <<u>> /\ strokes' \in Seq(KeyWires(r)) /\ Len(strokes') = 1 /\ DOMAIN strokes' = {1} /\ strokes'[1] = u
      BY <3>1, <3>3
    <3>5. KeyDeskTyped(r)'
      BY <1>1, <1>3, <3>1, <3>4 DEF KeyDeskTyped, KeyRoute
    <3>6. KeyQuiet(r)' /\ KeyHere(r)'
      BY <1>1, <2>0, <2>3 DEF KeyQuiet, KeyHere
    <3>7. KeyStrokes(r)'
      BY <3>3, <3>4 DEF KeyStrokes
    <3>8. \A k \in down' : k = m.key
      BY <1>3, <2>3, <3>1, <3>2 DEF KeyRoute
    <3>9. KeyDowns(r)'
      BY <2>3, <3>3, <3>4, <3>8 DEF KeyDowns, KeyEndIn, KeyEnds
    <3> QED BY <1>2, <1>4, <3>5, <3>6, <3>7, <3>9 DEF KeyInv
  <2> QED BY <2>1, <2>2, <2>3 DEF KeyRoute
<1> QED BY <1>5, <1>6

\* One event of the queue is passed on to REAPER.
LEMMA KeyPass ==
  ASSUME NEW r, KeyRoute(r), KeyInv(r), strokes # <<>>, Routed(r)!Pass(Head(strokes)), UNCHANGED <<toHost, toPage, desk>>,
         UNCHANGED <<page, pressed, focused, presses>>
  PROVE  KeyInv(r)'
<1>1. PICK q \in Seq(KeyWires(r)) : q = strokes
  BY DEF KeyInv, KeyDeskTyped
<1> DEFINE m == Head(q)
<1>2. /\ q # <<>> /\ q[1] = m /\ 1 \in DOMAIN q /\ m \in KeyWires(r) /\ Tail(q) \in Seq(KeyWires(r))
      /\ Len(Tail(q)) = Len(q) - 1 /\ Len(q) \in Nat
      /\ \A i \in DOMAIN Tail(q) : i + 1 \in DOMAIN q /\ Tail(q)[i] = q[i + 1]
  BY <1>1, KeyTail
<1>3. /\ KeyPageTyped(r) /\ KeyDeskTyped(r) /\ KeySession(r) /\ KeyQuiet(r) /\ KeyHere(r) /\ KeyWire(r)
      /\ down \subseteq r.keys /\ reaper \subseteq down /\ desk \in KeyDesks(r) /\ Len(q) <= r.limit /\ r.limit \in Nat
  BY <1>1 DEF KeyInv, KeyDeskTyped, KeyRoute
<1>4. /\ strokes' = Tail(q)
      /\ down' = IF (m.kind = "d") = (m.key \in down) THEN down ELSE IF m.kind = "u" THEN down \ {m.key} ELSE down \cup {m.key}
      /\ reaper' \subseteq down'
  BY <1>1, <1>3 DEF Routed!Pass, Routed!Unpaired
<1>5. m.key \in r.keys
  BY <1>2 DEF KeyWires
<1> HIDE DEF m
<1>6. KeyPageTyped(r)' /\ KeySession(r)' /\ KeyWire(r)'
  BY <1>3 DEF KeyPageTyped, KeySession, KeyWire, KeyOwned, KeyEndAfter, KeyEnds
<1>7. KeyDeskTyped(r)'
  <2>1. Len(strokes') <= r.limit /\ down' \subseteq r.keys
    BY <1>2, <1>3, <1>4, <1>5
  <2> QED BY <1>2, <1>3, <1>4, <2>1 DEF KeyDeskTyped
<1>8. KeyQuiet(r)' /\ KeyHere(r)'
  <2>1. KeyQuiet(r)'
    BY <1>1, <1>2, <1>3 DEF KeyQuiet
  <2>2. KeyHere(r)'
    BY <1>1, <1>2, <1>3, <1>4 DEF KeyHere
  <2> QED BY <2>1, <2>2
<1>9. \A k : KeyComing(r, k) <=> KeyComing(r, k)'
  BY DEF KeyComing, KeyOwned, KeyEndIn, KeyEnds
<1>a. CASE KeyLost(r)
  BY <1>a, <1>6, <1>7, <1>8 DEF KeyInv, KeyLost
<1>b. CASE KeyStrokes(r) /\ KeyDowns(r)
  <2>1. PICK d : d = desk.doc
    OBVIOUS
  <2>2. \A i \in DOMAIN q : q[i].kind = "d" => KeyComing(r, q[i].key) \/ KeyEndAfter(r, q, i, q[i].key, d)
    BY <1>b, <1>1, <2>1 DEF KeyStrokes
  <2>3. KeyStrokes(r)'
    <3> SUFFICES ASSUME NEW i \in DOMAIN Tail(q), Tail(q)[i].kind = "d"
                 PROVE  KeyComing(r, Tail(q)[i].key)' \/ KeyEndAfter(r, Tail(q), i, Tail(q)[i].key, d)
      BY <1>4, <2>1 DEF KeyStrokes, KeyComing, KeyOwned, KeyEndIn, KeyEndAfter, KeyEnds
    <3>1. i + 1 \in DOMAIN q /\ Tail(q)[i] = q[i + 1]
      BY <1>2
    <3>2. PICK k : k = Tail(q)[i].key
      OBVIOUS
    <3>3. KeyComing(r, k) \/ KeyEndAfter(r, q, i + 1, k, d)
      BY <2>2, <3>1, <3>2
    <3>4. KeyEndAfter(r, q, i + 1, k, d) => KeyEndAfter(r, Tail(q), i, k, d)
      BY <1>2, KeyEndsLater
    <3> QED BY <3>2, <3>3, <3>4, <1>9
  <2>4. KeyDowns(r)'
    <3> SUFFICES ASSUME NEW k \in down' PROVE KeyComing(r, k)' \/ KeyEndIn(r, Tail(q), k, d)
      BY <1>4, <2>1 DEF KeyDowns, KeyEndIn, KeyEnds
    <3>1. CASE k \in down /\ ~(m.key = k /\ m.kind = "u")
      <4>1. KeyComing(r, k) \/ KeyEndIn(r, q, k, d)
        BY <3>1, <1>b, <1>1, <2>1 DEF KeyDowns
      <4>2. KeyEndIn(r, q, k, d) => KeyEnds(r, m, k, d) \/ KeyEndIn(r, Tail(q), k, d)
        BY <1>2, KeyEndsLater DEF m
      <4>3. ~KeyEnds(r, m, k, d)
        BY <3>1 DEF KeyEnds
      <4> QED BY <4>1, <4>2, <4>3, <1>9
    <3>2. CASE k \in down /\ m.key = k /\ m.kind = "u"
      <4>1. ((m.kind = "d") = (m.key \in down)) = FALSE
        BY <3>2
      <4>2. down' = down \ {m.key}
        BY <3>2, <4>1, <1>4
      <4> QED BY <3>2, <4>2
    <3>3. CASE k \notin down
      <4>1. m.key = k /\ m.kind = "d"
        <5>1. m.key = k /\ m.kind # "u" /\ ~((m.kind = "d") = (m.key \in down))
          BY <3>3, <1>4
        <5> QED BY <5>1, <3>3
      <4>2. KeyComing(r, k) \/ KeyEndAfter(r, q, 1, k, d)
        BY <4>1, <2>2, <1>2
      <4>3. KeyEndAfter(r, q, 1, k, d) => KeyEndIn(r, Tail(q), k, d)
        BY <1>2, KeyEndsLater
      <4> QED BY <4>2, <4>3, <1>9
    <3> QED BY <3>1, <3>2, <3>3
  <2> QED BY <1>6, <1>7, <1>8, <2>3, <2>4 DEF KeyInv
<1> QED BY <1>a, <1>b DEF KeyInv

\* What every proof about the host starts from.
LEMMA KeyFacts ==
  ASSUME NEW r, KeyRoute(r), KeyInv(r)
  PROVE  /\ KeyPageTyped(r) /\ KeyDeskTyped(r) /\ KeySession(r) /\ KeyQuiet(r) /\ KeyHere(r) /\ KeyWire(r)
         /\ page \in KeyPages(r) /\ desk \in KeyDesks(r) /\ reaper \subseteq down
         /\ toPage \in Seq([on : BOOLEAN, doc : 0 .. r.documents]) /\ Len(toPage) <= r.wire /\ r.wire \in Nat
         /\ r.route \in {"shortcut", "space"}
BY DEF KeyInv, KeyPageTyped, KeyDeskTyped, KeyRoute

LEMMA KeyWired ==
  ASSUME NEW r, KeyWire(r), toHost' = toHost, page'.held = page.held, page'.says = page.says
  PROVE  KeyWire(r)'
BY DEF KeyWire, KeyOwned, KeyEndAfter, KeyEnds

LEMMA KeyForgotten ==
  ASSUME NEW r, KeyRoute(r), KeyInv(r), Routed(r)!Release, UNCHANGED <<page, toHost, pressed, focused, presses>>,
         toPage' \in Seq([on : BOOLEAN, doc : 0 .. r.documents]), Len(toPage') <= r.wire,
         desk' \in KeyDesks(r), KeySession(r)'
  PROVE  KeyInv(r)'
<1>1. strokes' = <<>> /\ down' = {} /\ reaper' = {}
  BY KeyFacts DEF Routed!Release
<1>2. KeyPageTyped(r)'
  BY KeyFacts DEF KeyPageTyped
<1>3. KeyWire(r)'
  <2>1. KeyWire(r) /\ toHost' = toHost /\ page'.held = page.held /\ page'.says = page.says
    BY KeyFacts
  <2> QED BY <2>1, KeyWired
<1> QED BY <1>1, <1>2, <1>3, KeyEmptied

LEMMA KeyTick ==
  ASSUME NEW r, KeyRoute(r), KeyInv(r), Routed(r)!Tick
  PROVE  KeyInv(r)'
<1>1. UNCHANGED <<toHost, toPage, desk, page, pressed, focused, presses>>
  BY DEF Routed!Tick, Routed!PageRest
<1>2. CASE Routed(r)!Release
  <2>1. KeySession(r)' /\ desk' \in KeyDesks(r) /\ toPage' \in Seq([on : BOOLEAN, doc : 0 .. r.documents]) /\ Len(toPage') <= r.wire
    BY <1>1, KeyFacts DEF KeySession
  <2> QED BY <1>1, <1>2, <2>1, KeyForgotten
<1>3. CASE strokes # <<>> /\ Routed(r)!Pass(Head(strokes))
  BY <1>1, <1>3, KeyPass
<1> QED BY <1>2, <1>3 DEF Routed!Tick

\* A script is sent to the page.
LEMMA KeySent ==
  ASSUME NEW r, KeyRoute(r), KeyInv(r), Len(toPage) < r.wire, NEW on \in BOOLEAN, NEW n \in 0 .. r.documents,
         toPage' = Append(toPage, [on |-> on, doc |-> n])
  PROVE  toPage' \in Seq([on : BOOLEAN, doc : 0 .. r.documents]) /\ Len(toPage') <= r.wire
<1>1. PICK e \in [on : BOOLEAN, doc : 0 .. r.documents] : e = [on |-> on, doc |-> n]
  OBVIOUS
<1>2. /\ toPage \in Seq([on : BOOLEAN, doc : 0 .. r.documents]) /\ Len(toPage) \in Nat /\ r.wire \in Nat
      /\ toPage' = Append(toPage, e)
  BY <1>1, KeyFacts
<1> QED BY <1>2, AppendProperties

LEMMA KeySetRouting ==
  ASSUME NEW r, KeyRoute(r), KeyInv(r), NEW on \in BOOLEAN, Routed(r)!SetRouting(on)
  PROVE  KeyInv(r)'
<1>1. /\ Len(toPage) < r.wire /\ desk.live /\ desk' = [desk EXCEPT !.routing = on]
      /\ toPage' = Append(toPage, [on |-> on, doc |-> desk.doc])
      /\ UNCHANGED <<toHost, page, pressed, focused, presses>>
      /\ IF on THEN UNCHANGED <<strokes, down, reaper>> ELSE Routed(r)!Release
  BY DEF Routed!SetRouting, Routed!Evaluate, Routed!PageRest
<1>2. desk.doc \in 0 .. r.documents /\ desk \in KeyDesks(r)
  BY KeyFacts DEF KeyDesks
<1>3. PICK n \in 0 .. r.documents : n = desk.doc
  BY <1>2
<1>4. toPage' \in Seq([on : BOOLEAN, doc : 0 .. r.documents]) /\ Len(toPage') <= r.wire
  BY <1>1, <1>3, KeySent
<1>5. /\ desk' \in KeyDesks(r) /\ desk'.doc = desk.doc /\ desk'.ready = desk.ready /\ desk'.closing = desk.closing
      /\ desk'.closed = desk.closed /\ desk'.live = desk.live /\ desk'.how = desk.how /\ desk'.parked = desk.parked
      /\ desk'.routing = on
  BY <1>1, <1>2 DEF KeyDesks
<1>6. KeySession(r)'
  BY <1>1, <1>5, KeyFacts DEF KeySession
<1>7. CASE ~on
  BY <1>1, <1>4, <1>5, <1>6, <1>7, KeyForgotten
<1>8. CASE on
  <2>1. KeyQuiet(r)'
    BY <1>1, <1>5, <1>8, KeyFacts DEF KeyQuiet
  <2>2. KeyLost(r) => KeyLost(r)'
    BY <1>5 DEF KeyLost
  <2> QED BY <1>1, <1>4, <1>5, <1>6, <1>8, <2>1, <2>2, KeySteady
<1> QED BY <1>7, <1>8

LEMMA KeyNavigate ==
  ASSUME NEW r, KeyRoute(r), KeyInv(r), Routed(r)!Navigate
  PROVE  KeyInv(r)'
<1>1. /\ Routed(r)!Release /\ desk' = [desk EXCEPT !.ready = FALSE, !.doc = 0, !.routing = FALSE, !.action = ""]
      /\ page.doc < r.documents /\ UNCHANGED <<toHost, toPage, page, pressed, focused, presses>>
  BY DEF Routed!Navigate, Routed!PageRest
<1>2. /\ desk' \in KeyDesks(r) /\ ~desk'.ready /\ desk'.closing = desk.closing /\ desk'.closed = desk.closed
      /\ desk'.live = desk.live /\ desk'.how = desk.how
  <2>1. 0 \in 0 .. r.documents
    BY DEF KeyRoute
  <2> QED BY <1>1, <2>1, KeyFacts DEF KeyDesks
<1>3. KeySession(r)'
  BY <1>1, <1>2, KeyFacts DEF KeySession
<1>4. toPage' \in Seq([on : BOOLEAN, doc : 0 .. r.documents]) /\ Len(toPage') <= r.wire
  BY <1>1, KeyFacts
<1> QED BY <1>1, <1>2, <1>3, <1>4, KeyForgotten

LEMMA KeyHello ==
  ASSUME NEW r, KeyRoute(r), KeyInv(r), Routed(r)!Hello
  PROVE  KeyInv(r)'
<1>1. PICK on \in BOOLEAN :
        /\ desk' = [desk EXCEPT !.ready = TRUE, !.doc = page.doc, !.routing = on]
        /\ toPage' = IF on \/ r.route = "space" THEN Append(toPage, [on |-> on, doc |-> page.doc]) ELSE toPage
  <2>1. desk.routing \in BOOLEAN
    BY KeyFacts DEF KeyDesks
  <2> QED BY <2>1 DEF Routed!Hello
<1>2. /\ ~desk.ready /\ Len(toPage) < r.wire /\ page' = [page EXCEPT !.greeted = TRUE]
      /\ UNCHANGED <<toHost, strokes, down, reaper, pressed, focused, presses>>
  BY DEF Routed!Hello
<1>3. strokes' = <<>> /\ down' = {} /\ reaper' = {}
  BY <1>2, KeyFacts DEF KeyQuiet
<1>4. PICK n \in 1 .. r.documents : n = page.doc /\ n \in 0 .. r.documents
  <2>1. page.doc \in 1 .. r.documents
    BY KeyFacts DEF KeyPages
  <2>2. page.doc \in 0 .. r.documents
    BY <2>1 DEF KeyRoute
  <2> QED BY <2>1, <2>2
<1>5. toPage' \in Seq([on : BOOLEAN, doc : 0 .. r.documents]) /\ Len(toPage') <= r.wire
  <2>1. CASE on \/ r.route = "space"
    BY <2>1, <1>1, <1>2, <1>4, KeySent
  <2>2. CASE ~(on \/ r.route = "space")
    BY <2>2, <1>1, KeyFacts
  <2> QED BY <2>1, <2>2
<1>6. /\ page' \in KeyPages(r) /\ page'.doc = page.doc /\ page'.says = page.says /\ page'.on = page.on
      /\ page'.held = page.held /\ page'.greeted
  BY <1>2, KeyFacts DEF KeyPages
<1>7. /\ desk' \in KeyDesks(r) /\ desk'.ready /\ desk'.doc = page.doc /\ desk'.closing = desk.closing
      /\ desk'.closed = desk.closed /\ desk'.live = desk.live /\ desk'.how = desk.how
  BY <1>1, <1>4, KeyFacts DEF KeyDesks
<1>8. KeySession(r)'
  BY <1>6, <1>7, KeyFacts DEF KeySession
<1>9. KeyPageTyped(r)'
  BY <1>2, <1>5, <1>6, KeyFacts DEF KeyPageTyped
<1>a. KeyWire(r)'
  <2>1. KeyWire(r)
    BY KeyFacts
  <2> QED BY <2>1, <1>2, <1>6, KeyWired
<1> QED BY <1>3, <1>7, <1>8, <1>9, <1>a, KeyEmptied

\* Steps that only change how the window stands.
LEMMA KeyStands ==
  ASSUME NEW r, KeyRoute(r), KeyInv(r),
         \/ Routed(r)!Complete \/ Routed(r)!Fail \/ Routed(r)!Switch \/ Routed(r)!Attach
         \/ r.route = "shortcut" /\ Routed(r)!Erase
         \/ r.route = "space" /\ Routed(r)!Close
  PROVE  KeyInv(r)'
<1>1. /\ desk.live /\ UNCHANGED <<toHost, toPage, page, pressed, focused, presses, strokes, down, reaper>>
      /\ \/ desk.action = "close" /\ ~desk.closing /\ desk' = [desk EXCEPT !.action = "", !.closing = TRUE, !.how = "completed"]
         \/ desk' = [desk EXCEPT !.closed = TRUE, !.how = "failed"]
         \/ desk' = [desk EXCEPT !.current = FALSE]
         \/ desk' = [desk EXCEPT !.parked = FALSE, !.current = TRUE]
         \/ r.route = "shortcut" /\ (desk.closing \/ desk.closed) /\ desk' = [desk EXCEPT !.live = FALSE]
         \/ desk' = [desk EXCEPT !.action = "close"]
         \/ /\ r.route = "space" /\ ~desk.closing
            /\ desk' = [desk EXCEPT !.closing = TRUE, !.how = IF desk.closed THEN @ ELSE "close"]
  BY DEF Routed!Complete, Routed!Fail, Routed!Switch, Routed!Attach, Routed!Erase, Routed!Close, Routed!PageRest
<1>2. desk \in KeyDesks(r) /\ KeySession(r) /\ KeyQuiet(r)
  BY KeyFacts
<1>3. /\ desk' \in KeyDesks(r) /\ desk'.doc = desk.doc /\ desk'.ready = desk.ready /\ desk'.routing = desk.routing
      /\ desk.closing => desk'.closing
      /\ desk.closed => desk'.closed
      /\ ~desk.parked => ~desk'.parked
      /\ r.route = "space" => desk'.live = desk.live
  <2>1. desk' \in KeyDesks(r)
    <3>1. desk \in KeyDesks(r)
      BY <1>2
    <3>2. CASE \/ desk' = [desk EXCEPT !.closed = TRUE, !.how = "failed"]
               \/ desk' = [desk EXCEPT !.current = FALSE]
               \/ desk' = [desk EXCEPT !.parked = FALSE, !.current = TRUE]
      BY <3>1, <3>2 DEF KeyDesks
    <3>3. CASE \/ desk' = [desk EXCEPT !.live = FALSE]
               \/ desk' = [desk EXCEPT !.action = "close"]
      BY <3>1, <3>3 DEF KeyDesks
    <3>4. CASE \/ desk' = [desk EXCEPT !.action = "", !.closing = TRUE, !.how = "completed"]
               \/ desk' = [desk EXCEPT !.closing = TRUE, !.how = IF desk.closed THEN @ ELSE "close"]
      BY <3>1, <3>4 DEF KeyDesks
    <3> QED BY <1>1, <3>2, <3>3, <3>4
  <2>2. desk'.doc = desk.doc /\ desk'.ready = desk.ready /\ desk'.routing = desk.routing
    BY <1>1, <1>2 DEF KeyDesks
  <2>3. (desk.closing => desk'.closing) /\ (desk.closed => desk'.closed) /\ (~desk.parked => ~desk'.parked)
    BY <1>1, <1>2 DEF KeyDesks
  <2>4. r.route = "space" => desk'.live = desk.live
    BY <1>1, <1>2 DEF KeyDesks
  <2> QED BY <2>1, <2>2, <2>3, <2>4
<1>4. /\ desk'.closed => desk'.how \in {"failed", "completed"}
      /\ desk'.how = "failed" => desk'.closed
      /\ desk'.closing => desk'.how # ""
      /\ desk'.how = "completed" => desk'.closing
      /\ ~desk'.live => desk'.closing \/ desk'.closed
  BY <1>1, <1>2 DEF KeyDesks, KeySession
<1>5. KeySession(r)'
  BY <1>1, <1>2, <1>3, <1>4 DEF KeySession
<1>6. r.route = "shortcut" /\ desk'.closing /\ desk'.how = "close" => desk.closing /\ desk.how = "close"
  BY <1>1, <1>2 DEF KeyDesks, KeySession
<1>7. KeyQuiet(r)'
  BY <1>1, <1>2, <1>3, <1>6 DEF KeyQuiet
<1>8. KeyLost(r) => KeyLost(r)'
  <2>1. desk.how = "completed" => desk'.how = "completed" \/ desk'.closed
    BY <1>1, <1>2 DEF KeyDesks, KeySession
  <2> QED BY <1>3, <2>1 DEF KeyLost
<1>9. toPage' \in Seq([on : BOOLEAN, doc : 0 .. r.documents]) /\ Len(toPage') <= r.wire
  BY <1>1, KeyFacts
<1> QED BY <1>1, <1>3, <1>5, <1>7, <1>8, <1>9, KeySteady

\* Steps that change how the window stands and let every key go up.
LEMMA KeyGoes ==
  ASSUME NEW r, KeyRoute(r), KeyInv(r),
         \/ Routed(r)!Park
         \/ r.route = "shortcut" /\ Routed(r)!Close
         \/ r.route = "space" /\ Routed(r)!Erase
  PROVE  KeyInv(r)'
<1>1. /\ Routed(r)!Release /\ UNCHANGED <<toHost, toPage, page, pressed, focused, presses>>
      /\ \/ desk' = [desk EXCEPT !.parked = TRUE]
         \/ desk' = [desk EXCEPT !.action = "close"]
         \/ ~desk.closing /\ desk' = [desk EXCEPT !.closing = TRUE, !.how = IF desk.closed THEN @ ELSE "close"]
         \/ (desk.closing \/ desk.closed) /\ desk' = [desk EXCEPT !.live = FALSE]
  BY DEF Routed!Park, Routed!Erase, Routed!Close, Routed!PageRest
<1>2. desk \in KeyDesks(r) /\ KeySession(r)
  BY KeyFacts
<1>3. desk' \in KeyDesks(r) /\ desk'.doc = desk.doc /\ desk'.ready = desk.ready
  BY <1>1, <1>2 DEF KeyDesks
<1>4. /\ desk'.closed => desk'.how \in {"failed", "completed"}
      /\ desk'.how = "failed" => desk'.closed
      /\ desk'.closing => desk'.how # ""
      /\ desk'.how = "completed" => desk'.closing
      /\ ~desk'.live => desk'.closing \/ desk'.closed
  BY <1>1, <1>2 DEF KeyDesks, KeySession
<1>5. KeySession(r)'
  BY <1>1, <1>2, <1>3, <1>4 DEF KeySession
<1>6. toPage' \in Seq([on : BOOLEAN, doc : 0 .. r.documents]) /\ Len(toPage') <= r.wire
  BY <1>1, KeyFacts
<1> QED BY <1>1, <1>3, <1>5, <1>6, KeyForgotten

LEMMA KeyNext ==
  ASSUME NEW r, KeyRoute(r), KeyInv(r), Routed(r)!Next \/ UNCHANGED keyVars
  PROVE  KeyInv(r)'
<1>1. CASE UNCHANGED keyVars
  <2>1. UNCHANGED <<page, toHost, toPage, desk, strokes, down, pressed, focused, reaper, presses>>
    BY <1>1 DEF keyVars
  <2>2. KeySession(r)' /\ KeyQuiet(r)' /\ desk' \in KeyDesks(r) /\ desk'.doc = desk.doc
    BY <2>1, KeyFacts DEF KeySession, KeyQuiet
  <2>3. KeyLost(r) => KeyLost(r)'
    BY <2>1 DEF KeyLost
  <2>4. toPage' \in Seq([on : BOOLEAN, doc : 0 .. r.documents]) /\ Len(toPage') <= r.wire
    BY <2>1, KeyFacts
  <2> QED BY <2>1, <2>2, <2>3, <2>4, KeySteady
<1>2. CASE \/ \E k \in r.keys : Routed(r)!Press(k) \/ Routed(r)!Repeat(k) \/ Routed(r)!Lift(k)
           \/ Routed(r)!Focus
  BY <1>2, KeyUser
<1>3. CASE Routed(r)!RunScript
  BY <1>3, KeyRunScript
<1>4. CASE Routed(r)!Commit
  BY <1>4, KeyCommit
<1>5. CASE Routed(r)!Receive
  BY <1>5, KeyReceive
<1>6. CASE Routed(r)!Tick
  BY <1>6, KeyTick
<1>7. CASE \E on \in BOOLEAN : Routed(r)!SetRouting(on)
  BY <1>7, KeySetRouting
<1>8. CASE Routed(r)!Navigate
  BY <1>8, KeyNavigate
<1>9. CASE Routed(r)!Hello
  BY <1>9, KeyHello
<1>a. CASE Routed(r)!Complete \/ Routed(r)!Fail \/ Routed(r)!Switch \/ Routed(r)!Attach
  BY <1>a, KeyStands
<1>b. CASE Routed(r)!Park
  BY <1>b, KeyGoes
<1>c. CASE Routed(r)!Close \/ Routed(r)!Erase
  BY <1>c, KeyFacts, KeyStands, KeyGoes
<1> QED BY <1>1, <1>2, <1>3, <1>4, <1>5, <1>6, <1>7, <1>8, <1>9, <1>a, <1>b, <1>c DEF Routed!Next

LEMMA KeyInit ==
  ASSUME NEW r, KeyRoute(r), Routed(r)!Init
  PROVE  KeyInv(r)
<1>1. /\ page = Routed(r)!NewPage(1) /\ toHost = <<>> /\ toPage = <<>>
      /\ desk = [ready |-> FALSE, doc |-> 0, routing |-> FALSE, current |-> TRUE, parked |-> FALSE,
                 action |-> "", closing |-> FALSE, closed |-> FALSE, live |-> TRUE, how |-> ""]
      /\ strokes = <<>> /\ down = {} /\ pressed = {} /\ focused = TRUE /\ reaper = {} /\ presses = 0
  BY DEF Routed!Init
<1>2. 1 \in 1 .. r.documents /\ 0 \in 0 .. r.documents /\ 0 \in 0 .. r.presses /\ 0 <= r.wire /\ 0 <= r.limit
  BY DEF KeyRoute
<1>3. page \in KeyPages(r) /\ ~page.on /\ ~page.greeted /\ page.held = [k \in r.keys |-> "none"]
  BY <1>1, <1>2 DEF Routed!NewPage, KeyPages
<1>4. KeyPageTyped(r) /\ KeyDeskTyped(r)
  <2>1. KeyPageTyped(r)
    <3>0. toHost = <<>> /\ toPage = <<>>
      BY <1>1
    <3>1. toHost \in Seq(KeyWires(r)) /\ toPage \in Seq([on : BOOLEAN, doc : 0 .. r.documents]) /\ Len(toPage) <= r.wire
      BY <3>0, <1>2
    <3> QED BY <3>1, <1>1, <1>2, <1>3 DEF KeyPageTyped
  <2>2. desk \in KeyDesks(r)
    BY <1>1, <1>2 DEF KeyDesks
  <2>0. strokes = <<>> /\ down = {} /\ reaper = {}
    BY <1>1
  <2>3. strokes \in Seq(KeyWires(r)) /\ Len(strokes) <= r.limit /\ down \subseteq r.keys /\ reaper \subseteq down
    BY <2>0, <1>2
  <2> QED BY <2>1, <2>2, <2>3 DEF KeyDeskTyped
<1>5. KeySession(r) /\ KeyQuiet(r) /\ KeyHere(r)
  <2>1. ~desk.ready /\ ~desk.closing /\ ~desk.closed /\ desk.how = "" /\ desk.live
    BY <1>1
  <2>2. KeySession(r)
    BY <1>3, <2>1 DEF KeySession
  <2>3. strokes = <<>> /\ down = {}
    BY <1>1
  <2>4. DOMAIN strokes = {}
    BY <2>3
  <2> QED BY <2>2, <2>3, <2>4 DEF KeyQuiet, KeyHere
<1>6. KeyWire(r) /\ KeyStrokes(r) /\ KeyDowns(r)
  <2>0. toHost = <<>> /\ strokes = <<>> /\ down = {}
    BY <1>1
  <2>1. DOMAIN toHost = {} /\ DOMAIN strokes = {} /\ down = {}
    BY <2>0
  <2> QED BY <2>1 DEF KeyWire, KeyStrokes, KeyDowns
<1> QED BY <1>4, <1>5, <1>6 DEF KeyInv

LEMMA KeySuffices ==
  ASSUME NEW r, KeyRoute(r), KeyInv(r)
  PROVE  Routed(r)!TypeOK /\ Routed(r)!KeysComeUp
<1>1. /\ page \in KeyPages(r) /\ desk \in KeyDesks(r) /\ KeySession(r) /\ KeyQuiet(r) /\ reaper \subseteq down
      /\ KeyPageTyped(r) /\ KeyDeskTyped(r)
  BY KeyFacts
<1>2. Routed(r)!TypeOK
  <2>1. /\ page.doc \in 1 .. r.documents /\ page.says \in 0 .. r.documents /\ page.on \in BOOLEAN /\ page.greeted \in BOOLEAN
        /\ page.held \in [r.keys -> {"none", "host", "page"}] /\ page.cancelled \subseteq r.keys
    BY <1>1 DEF KeyPages
  <2> QED BY <1>1, <2>1 DEF Routed!TypeOK, Routed!Wire, KeyPageTyped, KeyDeskTyped, KeyDesks, KeyWires
<1>3. ASSUME NEW k \in reaper
      PROVE  \/ /\ desk.live /\ k \in down
                /\ \/ page.held[k] = "host" \/ Routed(r)!EndsOnItsWay(k) \/ desk.closed \/ desk.how = "completed"
                   \/ r.route = "space" /\ desk.closing
             \/ r.route = "shortcut" /\ ~desk.live /\ desk.how \in {"failed", "completed"}
  <2>1. k \in down /\ down # {}
    BY <1>1
  <2>2. /\ r.route = "shortcut" => ~(desk.closing /\ desk.how = "close")
        /\ r.route = "space" => desk.live
    BY <1>1, <2>1 DEF KeyQuiet
  <2>3. CASE ~desk.live
    <3>1. r.route = "shortcut"
      BY <2>2, <2>3, KeyFacts
    <3> QED BY <3>1, <2>2, <2>3, <1>1 DEF KeySession, KeyDesks
  <2>4. CASE desk.live /\ KeyLost(r)
    BY <2>1, <2>4 DEF KeyLost
  <2>5. CASE desk.live /\ KeyDowns(r)
    <3>1. KeyOwned(r, k, desk.doc) \/ KeyEndIn(r, toHost, k, desk.doc) \/ KeyEndIn(r, strokes, k, desk.doc)
      BY <2>1, <2>5 DEF KeyDowns, KeyComing
    <3>2. KeyOwned(r, k, desk.doc) => page.held[k] = "host"
      BY DEF KeyOwned
    <3>3. KeyEndIn(r, toHost, k, desk.doc) \/ KeyEndIn(r, strokes, k, desk.doc) => Routed(r)!EndsOnItsWay(k)
      BY DEF KeyEndIn, KeyEnds, Routed!EndsOnItsWay
    <3> QED BY <2>1, <2>5, <3>1, <3>2, <3>3
  <2> QED BY <2>3, <2>4, <2>5 DEF KeyInv
<1> QED BY <1>2, <1>3 DEF Routed!KeysComeUp

LEMMA KeyRoutes == KeyRoute(Shortcuts) /\ KeyRoute(Space)
BY RoutesAssumption DEF KeyRoute

LEMMA KeysStep ==
  ASSUME [PartNext]_partVars
  PROVE  /\ part' = part
         /\ part = "shortcuts" => Routed(Shortcuts)!Next \/ UNCHANGED keyVars
         /\ part = "space" => Routed(Space)!Next \/ UNCHANGED keyVars
BY DEF PartNext, partVars

\* No key stays down in REAPER: one it believes held is owned by the page in front of the user, or its release is on
\* its way through the messages or the queue of the tick, but in a page that failed or was cleaning up (Runtime's
\* release_shortcuts and tick_daw_keyboard, the scripts in the page); whatever the keys, bounds and documents.
THEOREM KeysAreReleased == PartSpec => []KeysComeUp
<1> DEFINE Inv == (part = "shortcuts" => KeyInv(Shortcuts)) /\ (part = "space" => KeyInv(Space))
<1>1. PartInit => Inv
  BY KeyRoutes, KeyInit DEF PartInit
<1>2. Inv /\ [PartNext]_partVars => Inv'
  <2> SUFFICES ASSUME Inv, [PartNext]_partVars PROVE Inv'
    OBVIOUS
  <2>1. CASE part = "shortcuts"
    BY <2>1, KeysStep, KeyRoutes, KeyNext
  <2>2. CASE part = "space"
    BY <2>2, KeysStep, KeyRoutes, KeyNext
  <2> QED BY <2>1, <2>2, KeysStep
<1>3. Inv => KeysComeUp
  BY KeyRoutes, KeySuffices DEF KeysComeUp
<1> QED BY <1>1, <1>2, <1>3, PTL DEF PartSpec

-----------------------------------------------------------------------------
(* External clients (ExternalClients).                                      *)

ClientRequests(r) == [id : r.ids, kind : r.kinds, epoch : 0 .. r.projects, auth : BOOLEAN, secret : 0 .. r.secrets]
ClientItems(r) == {<<"event">>} \cup {<<"response", i>> : i \in r.ids}
ClientChannels(r) ==
  [alive : BOOLEAN, closing : BOOLEAN, auth : BOOLEAN, epoch : 0 .. r.projects, requests : Seq(ClientRequests(r)),
   pending : SUBSET r.ids, output : Seq(ClientItems(r)), received : 0 .. r.requests, secret : 0 .. r.secrets]
ClientSessions(r) == [subscribed : BOOLEAN, due : BOOLEAN, calls : SUBSET r.ids]
ClientTyped(r) ==
  /\ DOMAIN channel \subseteq r.connections /\ sockets \subseteq DOMAIN channel /\ listed \subseteq DOMAIN channel
  /\ DOMAIN guests \subseteq DOMAIN channel /\ \A c \in DOMAIN guests : guests[c] \in ClientSessions(r)
  /\ settings \in 0 .. r.secrets /\ known \in 1 .. r.projects /\ project \in 1 .. r.projects
  /\ served \in 0 .. Cardinality(r.connections) /\ turn \in BOOLEAN

\* A number of channel k that is queued, answered but not written, or in C: the calls that run.
ClientAsks(k, id) == \E i \in DOMAIN k.requests : k.requests[i].id = id
ClientTells(k, id) == \E i \in DOMAIN k.output : k.output[i] = <<"response", id>>
ClientApart(r, k, C) ==
  /\ \A i, j \in DOMAIN k.requests : k.requests[i].id = k.requests[j].id => i = j
  /\ \A i, j \in DOMAIN k.output : \A id \in r.ids : k.output[i] = <<"response", id>> /\ k.output[j] = <<"response", id>> => i = j
  /\ \A id \in r.ids : /\ ClientAsks(k, id) => ~ClientTells(k, id) /\ id \notin C
                       /\ ClientTells(k, id) => id \notin C
                       /\ id \in k.pending <=> ClientAsks(k, id) \/ ClientTells(k, id) \/ id \in C
\* What it was authenticated with is token n, in its requests too.
ClientTrusted(k, n) ==
  /\ k.auth => k.secret = n
  /\ \A i \in DOMAIN k.requests : k.requests[i].auth => k.requests[i].secret = n
ClientLives(k) == k.alive /\ ~k.closing
ClientGood(r, k, C, n) == ClientLives(k) => ClientApart(r, k, C) /\ ClientTrusted(k, n)
ClientCalls(c) == IF c \in DOMAIN guests THEN guests[c].calls ELSE {}
ClientRan == reached.epoch = reached.project /\ reached.secret = reached.settings
ClientInv(r) ==
  /\ ClientTyped(r) /\ ClientRan
  /\ \A c \in DOMAIN channel : channel[c] \in ClientChannels(r) /\ (ClientLives(channel[c]) => c \in listed)
  /\ \A c \in DOMAIN channel : ClientGood(r, channel[c], ClientCalls(c), settings)

\* A queue without its n-th element.
LEMMA ClientWithout ==
  ASSUME NEW W, NEW q \in Seq(W), NEW n \in 1 .. Len(q)
  PROVE  LET rest == SubSeq(q, 1, n - 1) \o SubSeq(q, n + 1, Len(q)) IN
         /\ rest \in Seq(W) /\ DOMAIN rest = 1 .. Len(q) - 1
         /\ \A i \in 1 .. Len(q) - 1 : rest[i] = IF i < n THEN q[i] ELSE q[i + 1]
<1> DEFINE a == SubSeq(q, 1, n - 1)
           b == SubSeq(q, n + 1, Len(q))
<1>1. Len(q) \in Nat /\ n \in Nat /\ n >= 1 /\ n <= Len(q)
  OBVIOUS
<1>2. a \in Seq(W) /\ Len(a) = n - 1 /\ \A i \in 1 .. n - 1 : a[i] = q[i]
  <2>1. \A i \in 1 .. n - 1 : q[i] \in W
    BY <1>1, ElementOfSeq
  <2>2. Len(a) = n - 1 /\ \A i \in 1 .. n - 1 : a[i] = q[i]
    BY <1>1, SubSeqProperties
  <2>3. a \in Seq(W)
    BY <1>1, SubSeqProperties
  <2> QED BY <2>2, <2>3
<1>3. b \in Seq(W) /\ Len(b) = Len(q) - n /\ \A i \in 1 .. Len(q) - n : b[i] = q[n + i]
  <2>1. b \in Seq(W)
    BY <1>1, SubSeqProperties
  <2>2. Len(b) = Len(q) - n
    <3>1. CASE n + 1 <= Len(q)
      BY <3>1, <1>1, SubSeqProperties
    <3>2. CASE n = Len(q)
      BY <3>2, <1>1, SubSeqProperties
    <3> QED BY <3>1, <3>2, <1>1
  <2>3. ASSUME NEW i \in 1 .. Len(q) - n PROVE b[i] = q[n + i]
    <3>1. b[i] = q[(n + 1) + i - 1]
      BY <1>1, SubSeqProperties
    <3>2. (n + 1) + i - 1 = n + i
      BY <1>1
    <3> QED BY <3>1, <3>2
  <2> QED BY <2>1, <2>2, <2>3
<1> HIDE DEF a, b
<1>4. a \o b \in Seq(W) /\ Len(a \o b) = Len(q) - 1
  <2>1. a \o b \in Seq(W) /\ Len(a \o b) = Len(a) + Len(b)
    BY <1>2, <1>3, ConcatProperties
  <2> QED BY <2>1, <1>1, <1>2, <1>3
<1>5. ASSUME NEW i \in 1 .. Len(q) - 1 PROVE (a \o b)[i] = IF i < n THEN q[i] ELSE q[i + 1]
  <2>1. CASE i < n
    <3>1. i \in 1 .. Len(a)
      BY <2>1, <1>1, <1>2
    <3> QED BY <2>1, <3>1, <1>1, <1>2, <1>3, ConcatProperties
  <2>2. CASE ~(i < n)
    <3>1. i - (n - 1) \in 1 .. Len(q) - n /\ n + (i - (n - 1)) = i + 1
      BY <2>2, <1>1
    <3>2. (a \o b)[i] = b[i - Len(a)]
      BY <2>2, <1>1, <1>2, <1>3, ConcatProperties
    <3>3. b[i - (n - 1)] = q[n + (i - (n - 1))]
      BY <3>1, <1>3
    <3> QED BY <2>2, <3>1, <3>2, <3>3, <1>2
  <2> QED BY <2>1, <2>2
<1>6. DOMAIN (a \o b) = 1 .. Len(q) - 1
  BY <1>4
<1> QED BY <1>4, <1>5, <1>6 DEF a, b

\* What a channel is made of.
LEMMA ClientFields ==
  ASSUME NEW r, NEW k \in ClientChannels(r)
  PROVE  /\ k.alive \in BOOLEAN /\ k.closing \in BOOLEAN /\ k.auth \in BOOLEAN /\ k.epoch \in 0 .. r.projects
         /\ k.requests \in Seq(ClientRequests(r)) /\ k.pending \subseteq r.ids /\ k.output \in Seq(ClientItems(r))
         /\ k.received \in 0 .. r.requests /\ k.secret \in 0 .. r.secrets
BY DEF ClientChannels

\* A request joins the queue of its channel.
LEMMA ClientQueues ==
  ASSUME NEW r, NEW k \in ClientChannels(r), NEW C, NEW n, ClientGood(r, k, C, n), NEW id \in r.ids, id \notin k.pending,
         NEW form \in r.kinds, k.received < r.requests, r.requests \in Nat
  PROVE  LET m == [id |-> id, kind |-> form, epoch |-> k.epoch, auth |-> k.auth, secret |-> k.secret]
             next == [k EXCEPT !.requests = Append(@, m), !.pending = @ \cup {id}, !.received = @ + 1] IN
         next \in ClientChannels(r) /\ ClientGood(r, next, C, n) /\ (ClientLives(next) => ClientLives(k))
<1> DEFINE m == [id |-> id, kind |-> form, epoch |-> k.epoch, auth |-> k.auth, secret |-> k.secret]
           q == Append(k.requests, m)
           next == [k EXCEPT !.requests = Append(@, m), !.pending = @ \cup {id}, !.received = @ + 1]
<1>1. m \in ClientRequests(r) /\ m.id = id /\ m.auth = k.auth /\ m.secret = k.secret
  BY ClientFields DEF ClientRequests
<1>2. k.requests \in Seq(ClientRequests(r)) /\ Len(k.requests) \in Nat /\ DOMAIN k.requests = 1 .. Len(k.requests)
  BY ClientFields
<1> HIDE DEF m
<1>3. /\ q \in Seq(ClientRequests(r)) /\ DOMAIN q = 1 .. Len(k.requests) + 1 /\ q[Len(k.requests) + 1] = m
      /\ \A i \in DOMAIN k.requests : i \in DOMAIN q /\ q[i] = k.requests[i]
      /\ Len(k.requests) + 1 \in DOMAIN q /\ Len(k.requests) + 1 \notin DOMAIN k.requests
      /\ \A i \in DOMAIN q : i \in DOMAIN k.requests \/ i = Len(k.requests) + 1
  <2>1. q \in Seq(ClientRequests(r)) /\ Len(q) = Len(k.requests) + 1 /\ q[Len(k.requests) + 1] = m
        /\ \A i \in 1 .. Len(k.requests) : q[i] = k.requests[i]
    BY <1>1, <1>2, AppendProperties
  <2>2. DOMAIN q = 1 .. Len(k.requests) + 1
    BY <2>1
  <2> HIDE DEF q
  <2> QED BY <1>2, <2>1, <2>2
<1> HIDE DEF q
<1>4. /\ next \in ClientChannels(r) /\ next.requests = q /\ next.pending = k.pending \cup {id} /\ next.output = k.output
      /\ next.auth = k.auth /\ next.secret = k.secret /\ next.alive = k.alive /\ next.closing = k.closing
  <2>1. k.received + 1 \in 0 .. r.requests
    BY ClientFields
  <2> QED BY <1>3, <2>1, ClientFields DEF ClientChannels, q
<1> HIDE DEF next
<1>5. ASSUME ClientLives(next) PROVE ClientApart(r, next, C) /\ ClientTrusted(next, n)
  <2>1. ClientApart(r, k, C) /\ ClientTrusted(k, n)
    BY <1>4, <1>5 DEF ClientGood, ClientLives
  <2>2. ~ClientAsks(k, id) /\ ~ClientTells(k, id) /\ id \notin C
    BY <2>1 DEF ClientApart
  <2>3. \A x : ClientAsks(next, x) <=> ClientAsks(k, x) \/ x = id
    BY <1>1, <1>3, <1>4 DEF ClientAsks
  <2>4. \A x : ClientTells(next, x) <=> ClientTells(k, x)
    BY <1>4 DEF ClientTells
  <2>5. \A i, j \in DOMAIN q : q[i].id = q[j].id => i = j
    <3> SUFFICES ASSUME NEW i \in DOMAIN q, NEW j \in DOMAIN q, q[i].id = q[j].id PROVE i = j
      OBVIOUS
    <3>1. CASE i \in DOMAIN k.requests /\ j \in DOMAIN k.requests
      BY <3>1, <1>3, <2>1 DEF ClientApart
    <3>2. CASE i \in DOMAIN k.requests /\ j \notin DOMAIN k.requests
      BY <3>2, <1>1, <1>3, <2>2 DEF ClientAsks
    <3>3. CASE i \notin DOMAIN k.requests /\ j \in DOMAIN k.requests
      BY <3>3, <1>1, <1>3, <2>2 DEF ClientAsks
    <3> QED BY <3>1, <3>2, <3>3, <1>3
  <2>6. ClientApart(r, next, C)
    BY <1>4, <2>1, <2>2, <2>3, <2>4, <2>5 DEF ClientApart
  <2>7. ClientTrusted(next, n)
    BY <1>1, <1>3, <1>4, <2>1 DEF ClientTrusted
  <2> QED BY <2>6, <2>7
<1> QED BY <1>4, <1>5 DEF ClientGood, ClientLives, next, q, m

\* An item is a response of one number, or an event.
LEMMA ClientItem ==
  ASSUME NEW r, NEW x \in ClientItems(r)
  PROVE  /\ Len(x) = 2 => \E id \in r.ids : x = <<"response", id>> /\ x[2] = id
         /\ Len(x) # 2 => \A id : x # <<"response", id>>
<1>1. CASE x = <<"event">>
  BY <1>1
<1>2. ASSUME NEW i \in r.ids, x = <<"response", i>> PROVE Len(x) = 2 /\ x[2] = i
  BY <1>2
<1> QED BY <1>1, <1>2 DEF ClientItems

\* Two responses are the same when their numbers are.
LEMMA ClientPairs ==
  /\ \A a, b : <<"response", a>> = <<"response", b>> => a = b
  /\ \A a : <<"response", a>> # <<"event">>
<1>1. ASSUME NEW a, NEW b, <<"response", a>> = <<"response", b>> PROVE a = b
  <2>1. <<"response", a>>[2] = <<"response", b>>[2]
    BY <1>1
  <2> QED BY <2>1
<1>2. ASSUME NEW a, <<"response", a>> = <<"event">> PROVE FALSE
  <2>1. Len(<<"response", a>>) = Len(<<"event">>)
    BY <1>2
  <2> QED BY <2>1
<1> QED BY <1>1, <1>2

\* The first item is written; a response frees its number.
LEMMA ClientWrites ==
  ASSUME NEW r, NEW k \in ClientChannels(r), NEW C, NEW n, ClientGood(r, k, C, n), k.output # <<>>
  PROVE  LET next == [k EXCEPT !.output = Tail(@),
                               !.pending = IF Len(Head(k.output)) = 2 THEN @ \ {Head(k.output)[2]} ELSE @] IN
         next \in ClientChannels(r) /\ ClientGood(r, next, C, n) /\ (ClientLives(next) => ClientLives(k))
<1> DEFINE h == Head(k.output)
           q == Tail(k.output)
           next == [k EXCEPT !.output = Tail(@), !.pending = IF Len(Head(k.output)) = 2 THEN @ \ {Head(k.output)[2]} ELSE @]
<1>1. /\ k.output[1] = h /\ h \in ClientItems(r) /\ q \in Seq(ClientItems(r)) /\ 1 \in DOMAIN k.output
      /\ \A i \in DOMAIN q : i + 1 \in DOMAIN k.output /\ q[i] = k.output[i + 1]
      /\ \A j \in DOMAIN k.output : j > 1 => j - 1 \in DOMAIN q /\ q[j - 1] = k.output[j]
  BY ClientFields, KeyTail
<1>0. DOMAIN q \subseteq Nat \ {0} /\ DOMAIN k.output \subseteq Nat \ {0}
  BY <1>1, ClientFields
<1> HIDE DEF h, q
<1>2. next = [k EXCEPT !.output = q, !.pending = IF Len(h) = 2 THEN @ \ {h[2]} ELSE @]
  BY DEF h, q
<1> HIDE DEF next
<1>3. /\ next \in ClientChannels(r) /\ next.requests = k.requests /\ next.output = q
      /\ next.pending = (IF Len(h) = 2 THEN k.pending \ {h[2]} ELSE k.pending)
      /\ next.auth = k.auth /\ next.secret = k.secret /\ next.alive = k.alive /\ next.closing = k.closing
  BY <1>1, <1>2 DEF ClientChannels
<1>4. ASSUME ClientLives(next) PROVE ClientApart(r, next, C) /\ ClientTrusted(next, n)
  <2>1. ClientApart(r, k, C) /\ ClientTrusted(k, n)
    BY <1>3, <1>4 DEF ClientGood, ClientLives
  <2>2. \A x : ClientAsks(next, x) <=> ClientAsks(k, x)
    BY <1>3 DEF ClientAsks
  <2>3. ASSUME NEW x \in r.ids PROVE ClientTells(k, x) <=> ClientTells(next, x) \/ h = <<"response", x>>
    <3>1. ASSUME ClientTells(next, x) PROVE ClientTells(k, x)
      <4>1. PICK i \in DOMAIN q : q[i] = <<"response", x>>
        BY <3>1, <1>3 DEF ClientTells
      <4>2. i + 1 \in DOMAIN k.output /\ k.output[i + 1] = <<"response", x>>
        BY <4>1, <1>1
      <4> QED BY <4>2 DEF ClientTells
    <3>2. ASSUME h = <<"response", x>> PROVE ClientTells(k, x)
      BY <3>2, <1>1 DEF ClientTells
    <3>3. ASSUME ClientTells(k, x), h # <<"response", x>> PROVE ClientTells(next, x)
      <4>1. PICK j \in DOMAIN k.output : k.output[j] = <<"response", x>>
        BY <3>3 DEF ClientTells
      <4>2. j > 1
        <5>1. j # 1
          BY <4>1, <3>3, <1>1
        <5> QED BY <5>1, <1>0
      <4>3. j - 1 \in DOMAIN q /\ q[j - 1] = k.output[j]
        BY <4>2, <1>1
      <4> QED BY <4>1, <4>3, <1>3 DEF ClientTells
    <3> QED BY <3>1, <3>2, <3>3
  <2>4. ASSUME NEW x \in r.ids, h = <<"response", x>> PROVE ~ClientTells(next, x)
    <3>1. SUFFICES ASSUME NEW i \in DOMAIN q, q[i] = <<"response", x>> PROVE FALSE
      BY <1>3 DEF ClientTells
    <3>2. i + 1 \in DOMAIN k.output /\ k.output[i + 1] = <<"response", x>> /\ k.output[1] = <<"response", x>>
      BY <3>1, <2>4, <1>1
    <3>3. i + 1 = 1
      BY <3>2, <2>1, <1>1 DEF ClientApart
    <3> QED BY <3>3, <1>0
  <2>5. ASSUME NEW x \in r.ids PROVE x \in next.pending <=> x \in k.pending /\ h # <<"response", x>>
    <3>1. CASE Len(h) = 2
      <4>1. PICK y \in r.ids : h = <<"response", y>> /\ h[2] = y
        BY <3>1, <1>1, ClientItem
      <4>2. h = <<"response", x>> <=> x = y
        BY <4>1, ClientPairs
      <4> QED BY <3>1, <4>1, <4>2, <1>3
    <3>2. CASE Len(h) # 2
      BY <3>2, <1>1, <1>3, ClientItem
    <3> QED BY <3>1, <3>2
  <2>6. \A i, j \in DOMAIN q : \A x \in r.ids : q[i] = <<"response", x>> /\ q[j] = <<"response", x>> => i = j
    <3> SUFFICES ASSUME NEW i \in DOMAIN q, NEW j \in DOMAIN q, NEW x \in r.ids,
                        q[i] = <<"response", x>>, q[j] = <<"response", x>>
                 PROVE  i = j
      OBVIOUS
    <3>1. i + 1 = j + 1
      BY <1>1, <2>1 DEF ClientApart
    <3> QED BY <3>1, <1>0
  <2>7. ASSUME NEW x \in r.ids
        PROVE  /\ ClientAsks(next, x) => ~ClientTells(next, x) /\ x \notin C
               /\ ClientTells(next, x) => x \notin C
               /\ x \in next.pending <=> ClientAsks(next, x) \/ ClientTells(next, x) \/ x \in C
    <3>1. /\ ClientAsks(k, x) => ~ClientTells(k, x) /\ x \notin C
          /\ ClientTells(k, x) => x \notin C
          /\ x \in k.pending <=> ClientAsks(k, x) \/ ClientTells(k, x) \/ x \in C
      BY <2>1 DEF ClientApart
    <3> QED BY <3>1, <2>2, <2>3, <2>4, <2>5
  <2>8. ClientApart(r, next, C)
    BY <1>3, <2>1, <2>6, <2>7 DEF ClientApart
  <2>9. ClientTrusted(next, n)
    BY <1>3, <2>1 DEF ClientTrusted
  <2> QED BY <2>8, <2>9
<1> QED BY <1>3, <1>4 DEF ClientGood, ClientLives, next

\* What send() leaves: an event changes no number, a response ends the call of its number.
LEMMA ClientSent ==
  ASSUME NEW r, NEW k \in ClientChannels(r), NEW C, NEW n, NEW finish \in BOOLEAN, NEW x \in ClientItems(r), NEW D,
         ClientGood(r, k, C, n),
         \/ x = <<"event">> /\ D = C
         \/ \E id \in C \cap r.ids : x = <<"response", id>> /\ D = C \ {id}
  PROVE  LET next == Clients(r)!Sent(k, x, finish) IN
         next \in ClientChannels(r) /\ ClientGood(r, next, D, n) /\ (ClientLives(next) => ClientLives(k))
<1> DEFINE q == Append(k.output, x)
           next == Clients(r)!Sent(k, x, finish)
<1>1. k.output \in Seq(ClientItems(r)) /\ Len(k.output) \in Nat /\ DOMAIN k.output = 1 .. Len(k.output)
  BY ClientFields
<1>2. CASE ~ClientLives(k)
  <2>1. next = k
    BY <1>2 DEF Clients!Sent, ClientLives
  <2> QED BY <1>2, <2>1 DEF ClientGood
<1>3. CASE ClientLives(k) /\ Len(k.output) >= r.output
  <2>1. next = [k EXCEPT !.alive = FALSE]
    BY <1>3 DEF Clients!Sent, ClientLives
  <2>2. next \in ClientChannels(r) /\ ~ClientLives(next)
    BY <2>1 DEF ClientChannels, ClientLives
  <2> QED BY <2>2 DEF ClientGood
<1>4. CASE ClientLives(k) /\ ~(Len(k.output) >= r.output)
  <2>1. next = [k EXCEPT !.output = q, !.closing = finish]
    BY <1>4 DEF Clients!Sent, ClientLives
  <2>2. /\ q \in Seq(ClientItems(r)) /\ q[Len(k.output) + 1] = x /\ Len(k.output) + 1 \in DOMAIN q
        /\ Len(k.output) + 1 \notin DOMAIN k.output
        /\ \A i \in DOMAIN k.output : i \in DOMAIN q /\ q[i] = k.output[i]
        /\ \A i \in DOMAIN q : i \in DOMAIN k.output \/ i = Len(k.output) + 1
    <3>1. q \in Seq(ClientItems(r)) /\ Len(q) = Len(k.output) + 1 /\ q[Len(k.output) + 1] = x
          /\ \A i \in 1 .. Len(k.output) : q[i] = k.output[i]
      BY <1>1, AppendProperties
    <3>2. DOMAIN q = 1 .. Len(k.output) + 1
      BY <3>1
    <3> HIDE DEF q
    <3> QED BY <1>1, <3>1, <3>2
  <2> HIDE DEF q, next
  <2>3. /\ next \in ClientChannels(r) /\ next.requests = k.requests /\ next.output = q /\ next.pending = k.pending
        /\ next.auth = k.auth /\ next.secret = k.secret
    BY <2>1, <2>2 DEF ClientChannels
  <2>4. ClientApart(r, k, C) /\ ClientTrusted(k, n)
    BY <1>4 DEF ClientGood
  <2>5. ClientTrusted(next, n) /\ \A y : ClientAsks(next, y) <=> ClientAsks(k, y)
    BY <2>3, <2>4 DEF ClientTrusted, ClientAsks
  <2>6. ASSUME NEW y \in r.ids PROVE ClientTells(next, y) <=> ClientTells(k, y) \/ x = <<"response", y>>
    <3>1. ASSUME ClientTells(next, y), x # <<"response", y>> PROVE ClientTells(k, y)
      <4>1. PICK i \in DOMAIN q : q[i] = <<"response", y>>
        BY <3>1, <2>3 DEF ClientTells
      <4>2. i \in DOMAIN k.output
        BY <4>1, <3>1, <2>2
      <4> QED BY <4>1, <4>2, <2>2 DEF ClientTells
    <3>2. ASSUME ClientTells(k, y) PROVE ClientTells(next, y)
      BY <3>2, <2>2, <2>3 DEF ClientTells
    <3>3. ASSUME x = <<"response", y>> PROVE ClientTells(next, y)
      BY <3>3, <2>2, <2>3 DEF ClientTells
    <3> QED BY <3>1, <3>2, <3>3
  <2>7. ASSUME NEW y \in r.ids, x = <<"response", y>> PROVE y \in C /\ D = C \ {y} /\ ~ClientTells(k, y) /\ ~ClientAsks(k, y)
    <3>1. y \in C /\ D = C \ {y}
      BY <2>7, ClientPairs
    <3> QED BY <3>1, <2>4 DEF ClientApart
  <2>8. ASSUME NEW y \in r.ids, x # <<"response", y>> PROVE y \in D <=> y \in C
    BY <2>8
  <2>9. \A i, j \in DOMAIN q : \A y \in r.ids : q[i] = <<"response", y>> /\ q[j] = <<"response", y>> => i = j
    <3> SUFFICES ASSUME NEW i \in DOMAIN q, NEW j \in DOMAIN q, NEW y \in r.ids,
                        q[i] = <<"response", y>>, q[j] = <<"response", y>>
                 PROVE  i = j
      OBVIOUS
    <3>1. CASE i \in DOMAIN k.output /\ j \in DOMAIN k.output
      BY <3>1, <2>2, <2>4 DEF ClientApart
    <3>2. CASE i \notin DOMAIN k.output /\ j \in DOMAIN k.output
      <4>1. x = <<"response", y>> /\ ClientTells(k, y)
        BY <3>2, <2>2 DEF ClientTells
      <4> QED BY <4>1, <2>7
    <3>3. CASE i \in DOMAIN k.output /\ j \notin DOMAIN k.output
      <4>1. x = <<"response", y>> /\ ClientTells(k, y)
        BY <3>3, <2>2 DEF ClientTells
      <4> QED BY <4>1, <2>7
    <3> QED BY <3>1, <3>2, <3>3, <2>2
  <2>a. ASSUME NEW y \in r.ids
        PROVE  /\ ClientAsks(next, y) => ~ClientTells(next, y) /\ y \notin D
               /\ ClientTells(next, y) => y \notin D
               /\ y \in next.pending <=> ClientAsks(next, y) \/ ClientTells(next, y) \/ y \in D
    <3>1. /\ ClientAsks(k, y) => ~ClientTells(k, y) /\ y \notin C
          /\ ClientTells(k, y) => y \notin C
          /\ y \in k.pending <=> ClientAsks(k, y) \/ ClientTells(k, y) \/ y \in C
      BY <2>4 DEF ClientApart
    <3>2. CASE x = <<"response", y>>
      <4>1. y \in C /\ y \notin D /\ ~ClientAsks(next, y) /\ ClientTells(next, y)
        BY <3>2, <2>5, <2>6, <2>7
      <4> QED BY <4>1, <3>1, <2>3
    <3>3. CASE x # <<"response", y>>
      BY <3>1, <3>3, <2>3, <2>5, <2>6, <2>8
    <3> QED BY <3>2, <3>3
  <2>b. ClientApart(r, next, D)
    BY <2>3, <2>4, <2>9, <2>a DEF ClientApart
  <2> QED BY <1>4, <2>3, <2>5, <2>b DEF ClientGood, next
<1> QED BY <1>2, <1>3, <1>4

\* A request leaves the queue for the runtime to perform it: its number is a call of its own.
LEMMA ClientTakes ==
  ASSUME NEW r, NEW k \in ClientChannels(r), NEW C, NEW s, ClientGood(r, k, C, s), NEW n \in 1 .. Len(k.requests),
         ClientLives(k)
  PROVE  LET rest == [k EXCEPT !.requests = SubSeq(@, 1, n - 1) \o SubSeq(@, n + 1, Len(@))]
             id == k.requests[n].id IN
         /\ rest \in ClientChannels(r) /\ ClientGood(r, rest, C \cup {id}, s) /\ id \in r.ids /\ id \notin C
         /\ rest.auth = k.auth /\ rest.secret = k.secret /\ ClientLives(rest)
<1> DEFINE q == SubSeq(k.requests, 1, n - 1) \o SubSeq(k.requests, n + 1, Len(k.requests))
           rest == [k EXCEPT !.requests = SubSeq(@, 1, n - 1) \o SubSeq(@, n + 1, Len(@))]
           id == k.requests[n].id
<1>1. k.requests \in Seq(ClientRequests(r)) /\ Len(k.requests) \in Nat /\ DOMAIN k.requests = 1 .. Len(k.requests)
  BY ClientFields
<1>2. k.requests[n] \in ClientRequests(r)
  BY <1>1, ElementOfSeq
<1>3. id \in r.ids
  BY <1>2 DEF ClientRequests
<1>4. /\ q \in Seq(ClientRequests(r)) /\ DOMAIN q = 1 .. Len(k.requests) - 1
      /\ \A i \in 1 .. Len(k.requests) - 1 : q[i] = IF i < n THEN k.requests[i] ELSE k.requests[i + 1]
  BY <1>1, ClientWithout
<1> DEFINE at(i) == IF i < n THEN i ELSE i + 1
<1>5. /\ \A i \in DOMAIN q : at(i) \in DOMAIN k.requests /\ at(i) # n /\ q[i] = k.requests[at(i)]
      /\ \A i, j \in DOMAIN q : at(i) = at(j) => i = j
      /\ \A m \in DOMAIN k.requests : m # n => \E i \in DOMAIN q : at(i) = m
  <2> HIDE DEF q
  <2>1. ASSUME NEW i \in DOMAIN q PROVE at(i) \in DOMAIN k.requests /\ at(i) # n /\ q[i] = k.requests[at(i)]
    BY <1>1, <1>4
  <2>2. \A i, j \in DOMAIN q : at(i) = at(j) => i = j
    BY <1>1, <1>4
  <2>3. ASSUME NEW m \in DOMAIN k.requests, m # n PROVE \E i \in DOMAIN q : at(i) = m
    <3>1. CASE m < n
      <4>1. m \in DOMAIN q /\ at(m) = m
        BY <3>1, <1>1, <1>4
      <4> QED BY <4>1
    <3>2. CASE m > n
      <4>1. m - 1 \in DOMAIN q /\ at(m - 1) = m
        BY <3>2, <1>1, <1>4
      <4> QED BY <4>1
    <3> QED BY <3>1, <3>2, <2>3, <1>1
  <2> QED BY <2>1, <2>2, <2>3
<1> HIDE DEF at, q
<1>6. rest = [k EXCEPT !.requests = q]
  BY DEF q
<1> HIDE DEF rest
<1>7. /\ rest \in ClientChannels(r) /\ rest.requests = q /\ rest.output = k.output /\ rest.pending = k.pending
      /\ rest.auth = k.auth /\ rest.secret = k.secret /\ rest.alive = k.alive /\ rest.closing = k.closing
  BY <1>4, <1>6 DEF ClientChannels
<1>8. ClientApart(r, k, C) /\ ClientTrusted(k, s)
  BY DEF ClientGood
<1>9. ClientAsks(k, id) /\ ~ClientTells(k, id) /\ id \notin C
  <2>1. ClientAsks(k, id)
    BY <1>1 DEF ClientAsks
  <2> QED BY <2>1, <1>3, <1>8 DEF ClientApart
<1>a. \A y : ClientTells(rest, y) <=> ClientTells(k, y)
  BY <1>7 DEF ClientTells
<1>b. ASSUME NEW y PROVE ClientAsks(rest, y) <=> ClientAsks(k, y) /\ y # id
  <2>1. ASSUME ClientAsks(rest, y) PROVE ClientAsks(k, y) /\ y # id
    <3>1. PICK i \in DOMAIN q : q[i].id = y
      BY <2>1, <1>7 DEF ClientAsks
    <3>2. at(i) \in DOMAIN k.requests /\ k.requests[at(i)].id = y /\ at(i) # n
      BY <3>1, <1>5
    <3> HIDE DEF id
    <3>3. n \in DOMAIN k.requests /\ k.requests[n].id = id
      BY <1>1 DEF id
    <3> QED BY <3>2, <3>3, <1>8 DEF ClientAsks, ClientApart
  <2>2. ASSUME ClientAsks(k, y), y # id PROVE ClientAsks(rest, y)
    <3>1. PICK m \in DOMAIN k.requests : k.requests[m].id = y
      BY <2>2 DEF ClientAsks
    <3>2. m # n
      BY <3>1, <2>2
    <3>3. PICK i \in DOMAIN q : at(i) = m
      BY <3>2, <1>5
    <3>4. q[i].id = y
      BY <3>1, <3>3, <1>5
    <3> QED BY <3>4, <1>7 DEF ClientAsks
  <2> QED BY <2>1, <2>2
<1>c. \A i, j \in DOMAIN q : q[i].id = q[j].id => i = j
  BY <1>5, <1>8 DEF ClientApart
<1>d. ClientTrusted(rest, s)
  BY <1>5, <1>7, <1>8 DEF ClientTrusted
<1> HIDE DEF id
<1>e. ASSUME NEW y \in r.ids
      PROVE  /\ ClientAsks(rest, y) => ~ClientTells(rest, y) /\ y \notin C \cup {id}
             /\ ClientTells(rest, y) => y \notin C \cup {id}
             /\ y \in rest.pending <=> ClientAsks(rest, y) \/ ClientTells(rest, y) \/ y \in C \cup {id}
  <2>1. /\ ClientAsks(k, y) => ~ClientTells(k, y) /\ y \notin C
        /\ ClientTells(k, y) => y \notin C
        /\ y \in k.pending <=> ClientAsks(k, y) \/ ClientTells(k, y) \/ y \in C
    BY <1>8 DEF ClientApart
  <2> QED BY <2>1, <1>7, <1>9, <1>a, <1>b
<1>f. ClientApart(r, rest, C \cup {id})
  BY <1>7, <1>8, <1>c, <1>e DEF ClientApart
<1> QED BY <1>3, <1>7, <1>9, <1>d, <1>f DEF ClientGood, ClientLives, id, rest

ClientRoom(r) ==
  /\ IsFiniteSet(r.connections) /\ r.connections = 1 .. Cardinality(r.connections) /\ Cardinality(r.connections) \in Nat
  /\ {r.sockets, r.pending, r.output, r.requests} \subseteq Nat /\ {r.secrets, r.projects} \subseteq Nat \ {0}

\* What becomes of one channel in a step: l after k, with the calls D, under token n.
ClientKeeps(r, k, l, D, n) == l \in ClientChannels(r) /\ (ClientLives(l) => ClientLives(k)) /\ ClientGood(r, l, D, n)

\* A step that keeps each channel keeps the invariant.
LEMMA ClientStep ==
  ASSUME NEW r, ClientInv(r), ClientTyped(r)', ClientRan', DOMAIN channel' = DOMAIN channel,
         \A c \in DOMAIN channel : ClientKeeps(r, channel[c], channel'[c], ClientCalls(c)', settings'),
         \A c \in listed : ClientLives(channel'[c]) => c \in listed'
  PROVE  ClientInv(r)'
<1>1. \A c \in DOMAIN channel : channel'[c] \in ClientChannels(r) /\ ClientGood(r, channel'[c], ClientCalls(c)', settings')
  BY DEF ClientKeeps
<1>2. \A c \in DOMAIN channel : ClientLives(channel'[c]) => c \in listed'
  BY DEF ClientKeeps, ClientInv
<1> QED BY <1>1, <1>2 DEF ClientInv

\* One channel changes, or none.
LEMMA ClientOne ==
  ASSUME NEW r, ClientInv(r), NEW c \in DOMAIN channel, NEW k, channel' = [channel EXCEPT ![c] = k],
         ClientKeeps(r, channel[c], k, ClientCalls(c)', settings), ClientTyped(r)', ClientRan',
         \A d \in DOMAIN channel : d # c => ClientCalls(d)' = ClientCalls(d),
         settings' = settings, listed' = listed
  PROVE  ClientInv(r)'
<1>1. \A d \in DOMAIN channel : ClientKeeps(r, channel[d], channel'[d], ClientCalls(d)', settings')
  BY DEF ClientKeeps, ClientInv
<1> QED BY <1>1, ClientStep
LEMMA ClientNone ==
  ASSUME NEW r, ClientInv(r), channel' = channel, ClientTyped(r)', ClientRan',
         \A d \in DOMAIN channel : ClientCalls(d)' = ClientCalls(d), settings' = settings, listed' = listed
  PROVE  ClientInv(r)'
<1>1. \A d \in DOMAIN channel : ClientKeeps(r, channel[d], channel'[d], ClientCalls(d)', settings')
  BY DEF ClientKeeps, ClientInv
<1> QED BY <1>1, ClientStep

\* A channel that is given up owes nothing, and a new epoch changes no number.
LEMMA ClientEnds ==
  ASSUME NEW r, NEW k \in ClientChannels(r), NEW D, NEW n
  PROVE  ClientKeeps(r, k, [k EXCEPT !.alive = FALSE], D, n)
<1>1. [k EXCEPT !.alive = FALSE] \in ClientChannels(r) /\ ~ClientLives([k EXCEPT !.alive = FALSE])
  BY DEF ClientChannels, ClientLives
<1> QED BY <1>1 DEF ClientKeeps, ClientGood
LEMMA ClientStamped ==
  ASSUME NEW r, NEW k \in ClientChannels(r), NEW D, NEW n, ClientGood(r, k, D, n), NEW e \in 0 .. r.projects
  PROVE  ClientKeeps(r, k, [k EXCEPT !.epoch = e], D, n)
<1> DEFINE l == [k EXCEPT !.epoch = e]
<1>1. /\ l \in ClientChannels(r) /\ l.requests = k.requests /\ l.output = k.output /\ l.pending = k.pending
      /\ l.auth = k.auth /\ l.secret = k.secret /\ l.alive = k.alive /\ l.closing = k.closing
  BY DEF ClientChannels
<1> HIDE DEF l
<1>2. ClientKeeps(r, k, l, D, n)
  BY <1>1 DEF ClientKeeps, ClientGood, ClientLives, ClientApart, ClientTrusted, ClientAsks, ClientTells
<1> QED BY <1>2 DEF l

\* The socket thread.
LEMMA ClientAccept ==
  ASSUME NEW r, ClientRoom(r), ClientInv(r), NEW c \in r.connections, Clients(r)!Accept(c)
  PROVE  ClientInv(r)'
<1> DEFINE new == Clients(r)!NewChannel
<1>1. /\ c \notin DOMAIN channel /\ sockets' = sockets \cup {c} /\ listed' = listed \cup {c}
      /\ channel' = [d \in DOMAIN channel \cup {c} |-> IF d = c THEN new ELSE channel[d]]
      /\ UNCHANGED <<guests, settings, project, known, served, turn, reached>>
  BY DEF Clients!Accept, Clients!ThreadOnly
<1>2. /\ new \in ClientChannels(r) /\ new.requests = <<>> /\ new.output = <<>> /\ new.pending = {} /\ ~new.auth
  <2>1. /\ <<>> \in Seq(ClientRequests(r)) /\ <<>> \in Seq(ClientItems(r)) /\ 0 \in 0 .. r.projects /\ 0 \in 0 .. r.requests
        /\ 0 \in 0 .. r.secrets
    BY DEF ClientRoom
  <2> QED BY <2>1 DEF Clients!NewChannel, ClientChannels
<1> HIDE DEF new
<1>3. c \notin DOMAIN guests /\ ClientCalls(c)' = {}
  BY <1>1 DEF ClientInv, ClientTyped, ClientCalls
<1>4. ClientGood(r, new, {}, settings)
  <2>1. DOMAIN new.requests = {} /\ DOMAIN new.output = {}
    BY <1>2
  <2> QED BY <1>2, <2>1 DEF ClientGood, ClientApart, ClientTrusted, ClientAsks, ClientTells
<1>5. ClientTyped(r)'
  BY <1>1 DEF ClientInv, ClientTyped
<1>6. DOMAIN channel' = DOMAIN channel \cup {c} /\ channel'[c] = new /\ \A d \in DOMAIN channel : channel'[d] = channel[d]
  BY <1>1
<1>7. \A d : ClientCalls(d)' = ClientCalls(d)
  BY <1>1 DEF ClientCalls
<1>8. \A d \in DOMAIN channel' : channel'[d] \in ClientChannels(r) /\ (ClientLives(channel'[d]) => d \in listed')
  BY <1>1, <1>2, <1>6 DEF ClientInv
<1>9. ASSUME NEW d \in DOMAIN channel' PROVE ClientGood(r, channel'[d], ClientCalls(d)', settings)
  <2>1. CASE d = c
    BY <2>1, <1>3, <1>4, <1>6
  <2>2. CASE d # c
    BY <2>2, <1>6, <1>7 DEF ClientInv
  <2> QED BY <2>1, <2>2
<1>a. ClientRan'
  BY <1>1 DEF ClientInv, ClientRan
<1> QED BY <1>1, <1>5, <1>8, <1>9, <1>a DEF ClientInv

LEMMA ClientReceive ==
  ASSUME NEW r, ClientRoom(r), ClientInv(r), NEW c \in r.connections, NEW id \in r.ids, NEW form \in r.kinds,
         Clients(r)!Receive(c, id, form)
  PROVE  ClientInv(r)'
<1>1. /\ c \in DOMAIN channel /\ channel[c].received < r.requests
      /\ UNCHANGED <<guests, settings, project, known, served, turn, reached, listed>> /\ sockets' \subseteq sockets
  BY DEF Clients!Receive, Clients!ThreadOnly, Clients!Open, ClientInv, ClientTyped
<1>2. PICK k : k = channel[c]
  OBVIOUS
<1> DEFINE m == [id |-> id, kind |-> form, epoch |-> k.epoch, auth |-> k.auth, secret |-> k.secret]
           queued == [k EXCEPT !.requests = Append(@, m), !.pending = @ \cup {id}, !.received = @ + 1]
<1>3. \/ id \notin k.pending /\ channel' = [channel EXCEPT ![c] = queued]
      \/ channel' = [channel EXCEPT ![c] = [k EXCEPT !.alive = FALSE]]
  BY <1>2 DEF Clients!Receive, Clients!Admissible, Clients!SetChannel
<1>4. \A d : ClientCalls(d)' = ClientCalls(d)
  BY <1>1 DEF ClientCalls
<1>5. ClientTyped(r)' /\ ClientRan'
  BY <1>1, <1>3 DEF ClientInv, ClientTyped, ClientRan
<1>6. k \in ClientChannels(r) /\ ClientGood(r, k, ClientCalls(c)', settings) /\ r.requests \in Nat
  BY <1>1, <1>2, <1>4 DEF ClientInv, ClientRoom
<1>7. CASE id \notin k.pending /\ channel' = [channel EXCEPT ![c] = queued]
  <2>1. PICK C : C = ClientCalls(c)'
    OBVIOUS
  <2>2. PICK n : n = settings
    OBVIOUS
  <2>3. queued \in ClientChannels(r) /\ ClientGood(r, queued, C, n) /\ (ClientLives(queued) => ClientLives(k))
    BY <1>1, <1>2, <1>6, <1>7, <2>1, <2>2, ClientQueues
  <2> HIDE DEF queued
  <2>4. ClientKeeps(r, channel[c], queued, ClientCalls(c)', settings)
    BY <1>2, <2>1, <2>2, <2>3 DEF ClientKeeps
  <2> QED BY <1>1, <1>4, <1>5, <1>7, <2>4, ClientOne
<1>8. CASE channel' = [channel EXCEPT ![c] = [k EXCEPT !.alive = FALSE]]
  <2>1. ClientKeeps(r, channel[c], [k EXCEPT !.alive = FALSE], ClientCalls(c)', settings)
    BY <1>2, <1>6, ClientEnds DEF ClientKeeps, ClientGood
  <2> HIDE DEF m, queued
  <2> QED BY <1>1, <1>4, <1>5, <1>8, <2>1, ClientOne
<1> QED BY <1>3, <1>7, <1>8

LEMMA ClientOutput ==
  ASSUME NEW r, ClientInv(r), NEW c \in r.connections, Clients(r)!Output(c) \/ Clients(r)!Drop(c)
  PROVE  ClientInv(r)'
<1>1. /\ c \in DOMAIN channel /\ UNCHANGED <<guests, settings, project, known, served, turn, reached, listed>>
      /\ sockets' \subseteq sockets
  BY DEF Clients!Output, Clients!Drop, Clients!ThreadOnly, Clients!Open, ClientInv, ClientTyped
<1>2. PICK k : k = channel[c]
  OBVIOUS
<1> DEFINE next == [k EXCEPT !.output = Tail(@),
                             !.pending = IF Len(Head(k.output)) = 2 THEN @ \ {Head(k.output)[2]} ELSE @]
<1>3. \/ k.output # <<>> /\ channel' = [channel EXCEPT ![c] = next]
      \/ channel' = [channel EXCEPT ![c] = [k EXCEPT !.alive = FALSE]]
  BY <1>2 DEF Clients!Output, Clients!Drop, Clients!SetChannel
<1>4. \A d : ClientCalls(d)' = ClientCalls(d)
  BY <1>1 DEF ClientCalls
<1>5. ClientTyped(r)' /\ ClientRan'
  BY <1>1, <1>3 DEF ClientInv, ClientTyped, ClientRan
<1>6. k \in ClientChannels(r) /\ ClientGood(r, k, ClientCalls(c)', settings)
  BY <1>1, <1>2, <1>4 DEF ClientInv
<1>7. CASE k.output # <<>> /\ channel' = [channel EXCEPT ![c] = next]
  <2>1. PICK C : C = ClientCalls(c)'
    OBVIOUS
  <2>2. PICK n : n = settings
    OBVIOUS
  <2>3. next \in ClientChannels(r) /\ ClientGood(r, next, C, n) /\ (ClientLives(next) => ClientLives(k))
    BY <1>6, <1>7, <2>1, <2>2, ClientWrites
  <2> HIDE DEF next
  <2>4. ClientKeeps(r, channel[c], next, ClientCalls(c)', settings)
    BY <1>2, <2>1, <2>2, <2>3 DEF ClientKeeps
  <2> QED BY <1>1, <1>4, <1>5, <1>7, <2>4, ClientOne
<1>8. CASE channel' = [channel EXCEPT ![c] = [k EXCEPT !.alive = FALSE]]
  <2>1. ClientKeeps(r, channel[c], [k EXCEPT !.alive = FALSE], ClientCalls(c)', settings)
    BY <1>2, <1>6, ClientEnds DEF ClientKeeps, ClientGood
  <2> HIDE DEF next
  <2> QED BY <1>1, <1>4, <1>5, <1>8, <2>1, ClientOne
<1> QED BY <1>3, <1>7, <1>8

LEMMA ClientPrune ==
  ASSUME NEW r, ClientInv(r), Clients(r)!Prune
  PROVE  ClientInv(r)'
<1>1. /\ UNCHANGED <<channel, sockets, guests, settings, project, known, served, turn, reached>>
      /\ listed' = {c \in listed : channel[c].alive}
  BY DEF Clients!Prune, Clients!ThreadOnly
<1>2. ClientTyped(r)' /\ ClientRan'
  BY <1>1 DEF ClientInv, ClientTyped, ClientRan
<1>3. \A c \in DOMAIN channel : ClientKeeps(r, channel[c], channel'[c], ClientCalls(c)', settings')
  BY <1>1 DEF ClientInv, ClientKeeps, ClientCalls
<1> QED BY <1>1, <1>2, <1>3, ClientStep DEF ClientLives

\* The main thread.  Sessions end with their channels and begin with them.
LEMMA ClientSync ==
  ASSUME NEW r, ClientRoom(r), ClientInv(r), Clients(r)!Sync
  PROVE  ClientInv(r)'
<1> DEFINE kept == {c \in DOMAIN guests : ClientLives(channel[c])}
           fresh == IF settings = 0 THEN {} ELSE {c \in listed \ kept : ClientLives(channel[c])}
<1>1. /\ UNCHANGED <<sockets, listed, settings, project, known, served, turn, reached>>
      /\ guests' = [c \in kept \cup fresh |-> IF c \in kept THEN guests[c] ELSE Clients(r)!NewSession]
      /\ channel' = [c \in DOMAIN channel |-> IF c \in fresh THEN [channel[c] EXCEPT !.epoch = known] ELSE channel[c]]
  BY DEF Clients!Sync, Clients!MainOnly, Clients!Living, ClientLives
<1>2. kept \subseteq DOMAIN guests /\ fresh \subseteq listed /\ kept \cap fresh = {}
  OBVIOUS
<1>3. /\ DOMAIN guests \subseteq DOMAIN channel /\ listed \subseteq DOMAIN channel
      /\ \A c \in DOMAIN guests : guests[c] \in ClientSessions(r)
      /\ known \in 0 .. r.projects
  BY DEF ClientInv, ClientTyped, ClientRoom
<1>4. Clients(r)!NewSession \in ClientSessions(r) /\ Clients(r)!NewSession.calls = {}
  BY DEF Clients!NewSession, ClientSessions
<1>5. \A c \in DOMAIN channel : ClientLives(channel[c]) => ClientCalls(c)' = ClientCalls(c)
  <2> SUFFICES ASSUME NEW c \in DOMAIN channel, ClientLives(channel[c]) PROVE ClientCalls(c)' = ClientCalls(c)
    OBVIOUS
  <2>1. CASE c \in DOMAIN guests
    <3>1. c \in kept
      BY <2>1
    <3> HIDE DEF kept, fresh
    <3>2. guests'[c] = guests[c] /\ c \in DOMAIN guests'
      BY <3>1, <1>1
    <3> QED BY <2>1, <3>2 DEF ClientCalls
  <2>2. CASE c \notin DOMAIN guests
    <3>1. c \notin kept
      BY <2>2
    <3> HIDE DEF kept, fresh
    <3>2. c \in DOMAIN guests' => guests'[c] = Clients(r)!NewSession
      BY <3>1, <1>1
    <3> QED BY <2>2, <3>2, <1>4 DEF ClientCalls
  <2> QED BY <2>1, <2>2
<1> HIDE DEF kept, fresh
<1>6. ClientTyped(r)' /\ ClientRan'
  <2>1. DOMAIN guests' \subseteq DOMAIN channel /\ \A c \in DOMAIN guests' : guests'[c] \in ClientSessions(r)
    BY <1>1, <1>2, <1>3, <1>4
  <2>2. DOMAIN channel' = DOMAIN channel
    BY <1>1
  <2> QED BY <1>1, <2>1, <2>2 DEF ClientInv, ClientTyped, ClientRan
<1>7. ASSUME NEW c \in DOMAIN channel PROVE ClientKeeps(r, channel[c], channel'[c], ClientCalls(c)', settings')
  <2>1. PICK k \in ClientChannels(r) : k = channel[c]
    BY DEF ClientInv
  <2>2. PICK D : D = ClientCalls(c)'
    OBVIOUS
  <2>3. PICK n : n = settings /\ n = settings'
    BY <1>1
  <2>4. PICK e \in 0 .. r.projects : e = known
    BY <1>3
  <2>5. channel'[c] = k \/ channel'[c] = [k EXCEPT !.epoch = e]
    BY <1>1, <2>1, <2>4
  <2>6. ClientGood(r, k, D, n)
    <3>1. ClientGood(r, k, ClientCalls(c), n)
      BY <2>1, <2>3 DEF ClientInv
    <3> QED BY <3>1, <1>5, <2>1, <2>2 DEF ClientGood
  <2>7. ClientKeeps(r, k, k, D, n)
    BY <2>6 DEF ClientKeeps
  <2>8. ClientKeeps(r, k, [k EXCEPT !.epoch = e], D, n)
    BY <2>6, ClientStamped
  <2> QED BY <2>1, <2>2, <2>3, <2>5, <2>7, <2>8
<1>8. DOMAIN channel' = DOMAIN channel
  BY <1>1
<1> QED BY <1>1, <1>6, <1>7, <1>8, ClientStep

\* Sessions keep their calls while events come and go.
LEMMA ClientSameCalls ==
  ASSUME DOMAIN guests' = DOMAIN guests, \A c \in DOMAIN guests : guests'[c].calls = guests[c].calls
  PROVE  \A c : ClientCalls(c)' = ClientCalls(c)
BY DEF ClientCalls

LEMMA ClientObserve ==
  ASSUME NEW r, ClientRoom(r), ClientInv(r), Clients(r)!Observe
  PROVE  ClientInv(r)'
<1>1. /\ UNCHANGED <<sockets, listed, guests, settings, project, served, turn, reached>> /\ known' = project
      /\ channel' = [c \in DOMAIN channel |-> IF c \in DOMAIN guests THEN [channel[c] EXCEPT !.epoch = project] ELSE channel[c]]
  BY DEF Clients!Observe, Clients!MainOnly, Clients!Stamped
<1>2. ClientTyped(r)' /\ ClientRan' /\ project \in 0 .. r.projects
  BY <1>1 DEF ClientInv, ClientTyped, ClientRan, ClientRoom
<1>3. ASSUME NEW c \in DOMAIN channel PROVE ClientKeeps(r, channel[c], channel'[c], ClientCalls(c)', settings')
  <2>1. PICK k \in ClientChannels(r) : k = channel[c]
    BY DEF ClientInv
  <2>2. PICK D : D = ClientCalls(c)' /\ D = ClientCalls(c)
    BY <1>1 DEF ClientCalls
  <2>3. PICK n : n = settings /\ n = settings'
    BY <1>1
  <2>4. PICK e \in 0 .. r.projects : e = project
    BY <1>2
  <2>5. channel'[c] = k \/ channel'[c] = [k EXCEPT !.epoch = e]
    BY <1>1, <2>1, <2>4
  <2>6. ClientGood(r, k, D, n)
    BY <2>1, <2>2, <2>3 DEF ClientInv
  <2>7. ClientKeeps(r, k, k, D, n)
    BY <2>6 DEF ClientKeeps
  <2>8. ClientKeeps(r, k, [k EXCEPT !.epoch = e], D, n)
    BY <2>6, ClientStamped
  <2> QED BY <2>1, <2>2, <2>3, <2>5, <2>7, <2>8
<1>4. DOMAIN channel' = DOMAIN channel
  BY <1>1
<1> QED BY <1>1, <1>2, <1>3, <1>4, ClientStep

LEMMA ClientComplete ==
  ASSUME NEW r, ClientInv(r), NEW c \in r.connections, NEW id \in r.ids, Clients(r)!Complete(c, id)
  PROVE  ClientInv(r)'
<1>1. /\ c \in DOMAIN guests /\ id \in guests[c].calls /\ guests' = [guests EXCEPT ![c].calls = @ \ {id}]
      /\ channel' = [channel EXCEPT ![c] = Clients(r)!Sent(channel[c], <<"response", id>>, FALSE)]
      /\ UNCHANGED <<sockets, listed, settings, project, known, served, turn, reached>>
  BY DEF Clients!Complete, Clients!MainOnly, Clients!SetChannel
<1>2. c \in DOMAIN channel /\ \A d \in DOMAIN guests : guests[d] \in ClientSessions(r)
  BY <1>1 DEF ClientInv, ClientTyped
<1>3. DOMAIN guests' = DOMAIN guests /\ \A d \in DOMAIN guests : guests'[d] \in ClientSessions(r)
  BY <1>1, <1>2 DEF ClientSessions
<1>4. ClientCalls(c)' = ClientCalls(c) \ {id} /\ id \in ClientCalls(c)
  <2>1. guests'[c].calls = guests[c].calls \ {id}
    BY <1>1, <1>2 DEF ClientSessions
  <2> QED BY <2>1, <1>1, <1>3 DEF ClientCalls
<1>5. \A d : d # c => ClientCalls(d)' = ClientCalls(d)
  BY <1>1, <1>3 DEF ClientCalls
<1>6. PICK k \in ClientChannels(r) : k = channel[c]
  BY <1>2 DEF ClientInv
<1>7. PICK C : C = ClientCalls(c)
  OBVIOUS
<1>8. PICK n : n = settings
  OBVIOUS
<1> DEFINE x == <<"response", id>>
           next == Clients(r)!Sent(k, x, FALSE)
<1>9. next \in ClientChannels(r) /\ ClientGood(r, next, C \ {id}, n) /\ (ClientLives(next) => ClientLives(k))
  <2>1. x \in ClientItems(r) /\ id \in C \cap r.ids /\ FALSE \in BOOLEAN
    BY <1>4, <1>7 DEF ClientItems
  <2>2. ClientGood(r, k, C, n)
    BY <1>2, <1>6, <1>7, <1>8 DEF ClientInv
  <2>3. PICK D : D = C \ {id}
    OBVIOUS
  <2>4. PICK y \in ClientItems(r) : y = x
    BY <2>1
  <2>5. \E i \in C \cap r.ids : y = <<"response", i>> /\ D = C \ {i}
    BY <2>1, <2>3, <2>4
  <2>6. LET l == Clients(r)!Sent(k, y, FALSE) IN
        l \in ClientChannels(r) /\ ClientGood(r, l, D, n) /\ (ClientLives(l) => ClientLives(k))
    <3> HIDE DEF x
    <3> QED BY <2>1, <2>2, <2>5, ClientSent
  <2> QED BY <2>3, <2>4, <2>6
<1> HIDE DEF next
<1>a. ClientKeeps(r, channel[c], next, ClientCalls(c)', settings)
  BY <1>4, <1>6, <1>7, <1>8, <1>9 DEF ClientKeeps
<1>b. channel' = [channel EXCEPT ![c] = next]
  BY <1>1, <1>6 DEF next
<1>c. ClientTyped(r)' /\ ClientRan'
  <2>1. DOMAIN channel' = DOMAIN channel
    BY <1>b
  <2>2. UNCHANGED <<sockets, listed, settings, project, known, served, turn, reached>>
    BY <1>1
  <2> QED BY <1>3, <2>1, <2>2 DEF ClientInv, ClientTyped, ClientRan
<1>d. settings' = settings /\ listed' = listed
  BY <1>1
<1> HIDE DEF x
<1>e. PICK l : l = next
  OBVIOUS
<1>f. channel' = [channel EXCEPT ![c] = l] /\ ClientKeeps(r, channel[c], l, ClientCalls(c)', settings)
  BY <1>a, <1>b, <1>e
<1>g. \A d \in DOMAIN channel : d # c => ClientCalls(d)' = ClientCalls(d)
  BY <1>5
<1> QED BY <1>2, <1>c, <1>d, <1>f, <1>g, ClientOne

LEMMA ClientEvent ==
  ASSUME NEW r, ClientInv(r), Clients(r)!Event
  PROVE  ClientInv(r)'
<1>1. /\ guests' = [c \in DOMAIN guests |-> [guests[c] EXCEPT !.due = guests[c].subscribed]]
      /\ UNCHANGED <<sockets, listed, channel, settings, project, known, served, turn, reached>>
  BY DEF Clients!Event, Clients!MainOnly
<1>2. \A d \in DOMAIN guests : guests[d] \in ClientSessions(r)
  BY DEF ClientInv, ClientTyped
<1>3. DOMAIN guests' = DOMAIN guests /\ \A d \in DOMAIN guests : guests'[d] \in ClientSessions(r) /\ guests'[d].calls = guests[d].calls
  BY <1>1, <1>2 DEF ClientSessions
<1>4. ClientTyped(r)' /\ ClientRan'
  BY <1>1, <1>3 DEF ClientInv, ClientTyped, ClientRan
<1> QED BY <1>1, <1>3, <1>4, ClientSameCalls, ClientNone

LEMMA ClientFlush ==
  ASSUME NEW r, ClientInv(r), Clients(r)!Flush
  PROVE  ClientInv(r)'
<1>1. /\ channel' = [c \in DOMAIN channel |-> IF c \in DOMAIN guests /\ guests[c].due
                                              THEN Clients(r)!Sent(channel[c], <<"event">>, FALSE) ELSE channel[c]]
      /\ guests' = [c \in DOMAIN guests |-> [guests[c] EXCEPT !.due = FALSE]]
      /\ UNCHANGED <<sockets, listed, settings, project, known, served, turn, reached>>
  BY DEF Clients!Flush, Clients!MainOnly
<1>2. \A d \in DOMAIN guests : guests[d] \in ClientSessions(r)
  BY DEF ClientInv, ClientTyped
<1>3. DOMAIN guests' = DOMAIN guests /\ \A d \in DOMAIN guests : guests'[d] \in ClientSessions(r) /\ guests'[d].calls = guests[d].calls
  BY <1>1, <1>2 DEF ClientSessions
<1>4. DOMAIN channel' = DOMAIN channel
  BY <1>1
<1>5. ClientTyped(r)' /\ ClientRan'
  BY <1>1, <1>3, <1>4 DEF ClientInv, ClientTyped, ClientRan
<1>6. \A d : ClientCalls(d)' = ClientCalls(d)
  BY <1>3, ClientSameCalls
<1>7. ASSUME NEW c \in DOMAIN channel PROVE ClientKeeps(r, channel[c], channel'[c], ClientCalls(c)', settings')
  <2>1. PICK k \in ClientChannels(r) : k = channel[c]
    BY DEF ClientInv
  <2>2. PICK D : D = ClientCalls(c)' /\ D = ClientCalls(c)
    BY <1>6
  <2>3. PICK n : n = settings /\ n = settings'
    BY <1>1
  <2>4. PICK x \in ClientItems(r) : x = <<"event">>
    BY DEF ClientItems
  <2>5. channel'[c] = k \/ channel'[c] = Clients(r)!Sent(k, x, FALSE)
    BY <1>1, <2>1, <2>4
  <2>6. ClientGood(r, k, D, n)
    BY <2>1, <2>2, <2>3 DEF ClientInv
  <2>7. ClientKeeps(r, k, k, D, n)
    BY <2>6 DEF ClientKeeps
  <2>8. ClientKeeps(r, k, Clients(r)!Sent(k, x, FALSE), D, n)
    BY <2>4, <2>6, ClientSent DEF ClientKeeps
  <2> QED BY <2>1, <2>2, <2>3, <2>5, <2>7, <2>8
<1> QED BY <1>1, <1>4, <1>5, <1>7, ClientStep

\* Another token: every channel that lives is known to the main thread and is given up.
LEMMA ClientConfigure ==
  ASSUME NEW r, ClientRoom(r), ClientInv(r), NEW next, Clients(r)!Configure(next)
  PROVE  ClientInv(r)'
<1>1. /\ settings < r.secrets /\ next \in {0, settings + 1} /\ settings' = next /\ guests' = <<>> /\ sockets' \subseteq sockets
      /\ channel' = [c \in DOMAIN channel |-> IF c \in listed \cup DOMAIN guests THEN [channel[c] EXCEPT !.alive = FALSE]
                                              ELSE channel[c]]
      /\ UNCHANGED <<listed, project, known, served, turn, reached>>
  BY DEF Clients!Configure, Clients!Cut
<1>2. DOMAIN channel' = DOMAIN channel /\ DOMAIN guests' = {}
  BY <1>1
<1>3. settings' \in 0 .. r.secrets
  BY <1>1 DEF ClientInv, ClientTyped, ClientRoom
<1>4. ClientTyped(r)' /\ ClientRan'
  BY <1>1, <1>2, <1>3 DEF ClientInv, ClientTyped, ClientRan
<1>5. ASSUME NEW c \in DOMAIN channel PROVE ClientKeeps(r, channel[c], channel'[c], ClientCalls(c)', settings')
  <2>1. PICK k \in ClientChannels(r) : k = channel[c]
    BY DEF ClientInv
  <2>2. CASE c \in listed \cup DOMAIN guests
    BY <2>1, <2>2, <1>1, ClientEnds DEF ClientKeeps, ClientGood
  <2>3. CASE c \notin listed \cup DOMAIN guests
    BY <2>1, <2>3, <1>1 DEF ClientInv, ClientKeeps, ClientGood
  <2> QED BY <2>2, <2>3
<1> QED BY <1>1, <1>2, <1>4, <1>5, ClientStep

LEMMA ClientSwitch ==
  ASSUME NEW r, ClientRoom(r), ClientInv(r), Clients(r)!SwitchProject
  PROVE  ClientInv(r)'
<1>1. /\ project < r.projects /\ project' = project + 1
      /\ UNCHANGED <<channel, sockets, listed, guests, settings, known, served, turn, reached>>
  BY DEF Clients!SwitchProject
<1>2. project' \in 1 .. r.projects
  BY <1>1 DEF ClientInv, ClientTyped, ClientRoom
<1>3. ClientTyped(r)' /\ ClientRan'
  BY <1>1, <1>2 DEF ClientInv, ClientTyped, ClientRan
<1> QED BY <1>1, <1>3, ClientNone DEF ClientCalls

\* A set of numbers has a least one.
LEMMA ClientLeast ==
  ASSUME NEW S, S \subseteq Nat, S # {}
  PROVE  \E i \in S : \A j \in S : i <= j
<1> DEFINE R == OpToRel(<, Nat)
<1>0. \A x, y \in Nat : <<x, y>> \in R <=> x < y
  BY DEF OpToRel
<1>1. IsWellFoundedOn(R, Nat)
  BY NatLessThanWellFounded
<1> HIDE DEF R
<1>2. PICK i \in S : \A j \in S : ~(<<j, i>> \in R)
  BY <1>1, WFMin
<1>3. \A j \in S : i <= j
  <2> SUFFICES ASSUME NEW j \in S PROVE i <= j
    OBVIOUS
  <2>1. i \in Nat /\ j \in Nat /\ ~(<<j, i>> \in R)
    BY <1>2
  <2>2. ~(j < i)
    BY <2>1, <1>0
  <2> QED BY <2>1, <2>2
<1> QED BY <1>3

\* The session whose turn it is has a request, and the request that is taken is there.
LEMMA ClientNext ==
  ASSUME NEW r, ClientRoom(r), ClientInv(r), \E c \in DOMAIN guests : Clients(r)!Ready(c)
  PROVE  Clients(r)!NextSession \in DOMAIN guests /\ Clients(r)!Ready(Clients(r)!NextSession)
<1> DEFINE T == {d \in DOMAIN guests : Clients(r)!Ready(d)}
           S == {Clients(r)!After(d) : d \in T}
<1>1. ASSUME NEW c \in T PROVE Clients(r)!After(c) \in Nat
  <2>1. c \in 1 .. Cardinality(r.connections) /\ served \in 0 .. Cardinality(r.connections) /\ Cardinality(r.connections) \in Nat
    BY DEF ClientInv, ClientTyped, ClientRoom
  <2>2. Clients(r)!After(c) = IF c > served THEN c - served ELSE c + Cardinality(r.connections) - served
    BY DEF Clients!After, Clients!Cardinality, Cardinality
  <2> QED BY <2>1, <2>2
<1>2. S \subseteq Nat /\ S # {}
  BY <1>1
<1>3. PICK i \in S : \A j \in S : i <= j
  BY <1>2, ClientLeast
<1>4. \E c \in T : \A d \in T : Clients(r)!After(c) <= Clients(r)!After(d)
  BY <1>3
<1>5. Clients(r)!NextSession = CHOOSE c \in T : \A d \in T : Clients(r)!After(c) <= Clients(r)!After(d)
  BY DEF Clients!NextSession
<1> HIDE DEF S
<1>6. Clients(r)!NextSession \in T
  BY <1>4, <1>5
<1> QED BY <1>6

LEMMA ClientTaken ==
  ASSUME NEW r, NEW k \in ClientChannels(r), k.requests # <<>>
  PROVE  Clients(r)!Taken(k) \in 1 .. Len(k.requests)
<1> DEFINE T == {i \in DOMAIN k.requests : Clients(r)!IsInput(k.requests[i])}
<1>1. k.requests \in Seq(ClientRequests(r)) /\ Len(k.requests) \in Nat \ {0} /\ DOMAIN k.requests = 1 .. Len(k.requests)
  <2>1. k.requests \in Seq(ClientRequests(r))
    BY ClientFields
  <2> QED BY <2>1, KeyTail
<1>2. Clients(r)!Taken(k) = IF T = {} THEN 1 ELSE CHOOSE i \in T : \A j \in T : i <= j
  BY DEF Clients!Taken
<1>3. T \subseteq 1 .. Len(k.requests) /\ T \subseteq Nat
  BY <1>1
<1> HIDE DEF T
<1>4. CASE T = {}
  BY <1>1, <1>2, <1>4
<1>5. CASE T # {}
  <2>1. \E i \in T : \A j \in T : i <= j
    BY <1>3, <1>5, ClientLeast
  <2>2. Clients(r)!Taken(k) \in T
    BY <1>2, <1>5, <2>1
  <2> QED BY <2>2, <1>3
<1> QED BY <1>4, <1>5

\* The answer to the request that was taken: its number is free of calls again.
LEMMA ClientAnswers ==
  ASSUME NEW r, NEW k \in ClientChannels(r), NEW l \in ClientChannels(r), NEW C, NEW n, NEW id \in r.ids, id \notin C,
         ClientGood(r, l, C \cup {id}, n), ClientLives(k), NEW finish \in BOOLEAN
  PROVE  ClientKeeps(r, k, Clients(r)!Sent(l, <<"response", id>>, finish), C, n)
<1>1. PICK x \in ClientItems(r) : x = <<"response", id>>
  BY DEF ClientItems
<1>2. PICK B : B = C \cup {id}
  OBVIOUS
<1>3. id \in B \cap r.ids /\ C = B \ {id}
  BY <1>2
<1>4. \E i \in B \cap r.ids : x = <<"response", i>> /\ C = B \ {i}
  BY <1>1, <1>3
<1>5. ClientGood(r, l, B, n)
  BY <1>2
<1>6. LET next == Clients(r)!Sent(l, x, finish) IN next \in ClientChannels(r) /\ ClientGood(r, next, C, n)
  BY <1>4, <1>5, ClientSent
<1> QED BY <1>1, <1>6 DEF ClientKeeps

\* One request is performed.
LEMMA ClientPerform ==
  ASSUME NEW r, ClientRoom(r), ClientInv(r), NEW c \in DOMAIN guests, Clients(r)!Ready(c), Clients(r)!Perform(c),
         UNCHANGED <<sockets, listed, settings, project>>, served' \in 0 .. Cardinality(r.connections), turn' \in BOOLEAN
  PROVE  ClientInv(r)'
<1>1. /\ c \in DOMAIN channel /\ ClientLives(channel[c]) /\ channel[c].requests # <<>> /\ channel[c] \in ClientChannels(r)
      /\ ClientGood(r, channel[c], ClientCalls(c), settings) /\ ClientCalls(c) = guests[c].calls
      /\ \A d \in DOMAIN guests : guests[d] \in ClientSessions(r)
  BY DEF Clients!Ready, Clients!Living, ClientLives, ClientInv, ClientTyped, ClientCalls
<1>2. PICK k \in ClientChannels(r) : k = channel[c]
  BY <1>1
<1>3. PICK C : C = ClientCalls(c)
  OBVIOUS
<1>4. PICK s : s = settings /\ s \in 0 .. r.secrets
  BY DEF ClientInv, ClientTyped
<1>5. PICK n \in 1 .. Len(k.requests) : n = Clients(r)!Taken(k)
  BY <1>1, <1>2, ClientTaken
<1>6. k.requests[n] \in ClientRequests(r)
  <2>1. k.requests \in Seq(ClientRequests(r))
    BY ClientFields
  <2> QED BY <2>1, ElementOfSeq
<1>7. PICK m \in ClientRequests(r) : m = k.requests[n]
  BY <1>6
<1> DEFINE rest == [k EXCEPT !.requests = SubSeq(@, 1, n - 1) \o SubSeq(@, n + 1, Len(@))]
<1>8. /\ rest \in ClientChannels(r) /\ ClientGood(r, rest, C \cup {m.id}, s) /\ m.id \in r.ids /\ m.id \notin C
      /\ rest.auth = k.auth /\ rest.secret = k.secret /\ ClientLives(rest) /\ ClientLives(k)
  <2>1. ClientGood(r, k, C, s) /\ ClientLives(k)
    BY <1>1, <1>2, <1>3, <1>4
  <2>2. LET remain == [k EXCEPT !.requests = SubSeq(@, 1, n - 1) \o SubSeq(@, n + 1, Len(@))]
            num == k.requests[n].id IN
        /\ remain \in ClientChannels(r) /\ ClientGood(r, remain, C \cup {num}, s) /\ num \in r.ids /\ num \notin C
        /\ remain.auth = k.auth /\ remain.secret = k.secret /\ ClientLives(remain)
    <3> HIDE DEF rest
    <3> QED BY <2>1, ClientTakes
  <2> QED BY <1>7, <2>1, <2>2
<1>9. PICK id \in r.ids : id = m.id
  BY <1>8
<1> DEFINE x == <<"response", id>>
           said(l) == Clients(r)!Sent(l, x, FALSE)
           login == [rest EXCEPT !.auth = TRUE, !.secret = settings]
<1>a. \/ /\ channel' = [channel EXCEPT ![c] = said(login)]
         /\ UNCHANGED <<guests, known, reached>>
      \/ /\ channel' = [channel EXCEPT ![c] = Clients(r)!Sent(rest, x, TRUE)] /\ UNCHANGED <<guests, known, reached>>
      \/ /\ channel' = [channel EXCEPT ![c] = said(rest)] /\ UNCHANGED <<guests, known, reached>>
      \/ /\ m.auth /\ known' = project /\ UNCHANGED guests
         /\ channel' = Clients(r)!Stamped([channel EXCEPT ![c] = said(rest)])
         /\ \/ reached' = reached
            \/ /\ m.epoch = project
               /\ reached' = [epoch |-> m.epoch, project |-> project, secret |-> m.secret, settings |-> settings]
      \/ /\ channel' = [channel EXCEPT ![c] = rest] /\ guests' = [guests EXCEPT ![c].calls = @ \cup {id}]
         /\ UNCHANGED <<known, reached>>
      \/ /\ channel' = [channel EXCEPT ![c] = said(rest)] /\ UNCHANGED <<known, reached>>
         /\ guests' = [guests EXCEPT ![c].subscribed = @ \/ m.kind = "subscribe", ![c].due = @ \/ m.kind = "subscribe"]
  BY <1>2, <1>5, <1>7, <1>9 DEF Clients!Perform, Clients!SetChannel, Clients!Authentic, Clients!Current
<1> HIDE DEF rest
<1>b. ClientKeeps(r, k, said(rest), C, s) /\ ClientKeeps(r, k, Clients(r)!Sent(rest, x, TRUE), C, s)
  BY <1>8, <1>9, ClientAnswers
<1>c. ClientKeeps(r, k, said(login), C, s)
  <2>1. /\ login \in ClientChannels(r) /\ login.requests = rest.requests /\ login.output = rest.output
        /\ login.pending = rest.pending /\ login.alive = rest.alive /\ login.closing = rest.closing
        /\ login.auth /\ login.secret = s
    BY <1>4, <1>8 DEF ClientChannels
  <2> HIDE DEF login
  <2>2. ClientGood(r, login, C \cup {id}, s)
    <3>1. ClientApart(r, rest, C \cup {id}) /\ ClientTrusted(rest, s)
      BY <1>8, <1>9 DEF ClientGood
    <3>2. ClientApart(r, login, C \cup {id})
      <4>1. \A y : (ClientAsks(login, y) <=> ClientAsks(rest, y)) /\ (ClientTells(login, y) <=> ClientTells(rest, y))
        BY <2>1 DEF ClientAsks, ClientTells
      <4>2. ASSUME NEW i \in DOMAIN login.requests, NEW j \in DOMAIN login.requests, login.requests[i].id = login.requests[j].id
            PROVE  i = j
        BY <2>1, <3>1, <4>2 DEF ClientApart
      <4>3. ASSUME NEW i \in DOMAIN login.output, NEW j \in DOMAIN login.output, NEW y \in r.ids,
                   login.output[i] = <<"response", y>>, login.output[j] = <<"response", y>>
            PROVE  i = j
        BY <2>1, <3>1, <4>3 DEF ClientApart
      <4>4. ASSUME NEW y \in r.ids
            PROVE  /\ ClientAsks(rest, y) => ~ClientTells(rest, y) /\ y \notin C \cup {id}
                   /\ ClientTells(rest, y) => y \notin C \cup {id}
                   /\ y \in rest.pending <=> ClientAsks(rest, y) \/ ClientTells(rest, y) \/ y \in C \cup {id}
        BY <3>1 DEF ClientApart
      <4>5. ASSUME NEW y \in r.ids
            PROVE  /\ ClientAsks(login, y) => ~ClientTells(login, y) /\ y \notin C \cup {id}
                   /\ ClientTells(login, y) => y \notin C \cup {id}
                   /\ y \in login.pending <=> ClientAsks(login, y) \/ ClientTells(login, y) \/ y \in C \cup {id}
        BY <2>1, <4>1, <4>4
      <4> QED BY <4>2, <4>3, <4>5 DEF ClientApart
    <3>3. ClientTrusted(login, s)
      BY <2>1, <3>1 DEF ClientTrusted
    <3> QED BY <3>2, <3>3 DEF ClientGood
  <2>3. PICK l \in ClientChannels(r) : l = login
    BY <2>1
  <2>4. ClientKeeps(r, k, said(l), C, s)
    BY <1>8, <1>9, <2>2, <2>3, ClientAnswers
  <2> QED BY <2>3, <2>4
<1> HIDE DEF login, said, x
\* A step that changes channel c alone, and no calls.
<1>d. ASSUME NEW l, channel' = [channel EXCEPT ![c] = l], ClientKeeps(r, k, l, C, s), DOMAIN guests' = DOMAIN guests,
             \A d \in DOMAIN guests : guests'[d] \in ClientSessions(r) /\ guests'[d].calls = guests[d].calls,
             UNCHANGED <<known, reached>>
      PROVE  ClientInv(r)'
  <2>1. \A d : ClientCalls(d)' = ClientCalls(d)
    BY <1>d, ClientSameCalls
  <2>2. DOMAIN channel' = DOMAIN channel
    BY <1>d
  <2>3. ClientTyped(r)' /\ ClientRan'
    BY <1>d, <2>2 DEF ClientInv, ClientTyped, ClientRan
  <2>4. ClientKeeps(r, channel[c], l, ClientCalls(c)', settings)
    BY <1>2, <1>3, <1>4, <1>d, <2>1
  <2> QED BY <1>1, <1>d, <2>1, <2>3, <2>4, ClientOne
<1>e. guests' = guests =>
        /\ DOMAIN guests' = DOMAIN guests
        /\ \A d \in DOMAIN guests : guests'[d] \in ClientSessions(r) /\ guests'[d].calls = guests[d].calls
  BY <1>1
<1>f. ASSUME NEW l, channel' = [channel EXCEPT ![c] = l], ClientKeeps(r, k, l, C, s), UNCHANGED <<guests, known, reached>>
      PROVE  ClientInv(r)'
  BY <1>d, <1>e, <1>f
<1>g. CASE channel' = [channel EXCEPT ![c] = said(login)] /\ UNCHANGED <<guests, known, reached>>
  BY <1>c, <1>f, <1>g
<1>h. CASE channel' = [channel EXCEPT ![c] = Clients(r)!Sent(rest, x, TRUE)] /\ UNCHANGED <<guests, known, reached>>
  BY <1>b, <1>f, <1>h
<1>i. CASE channel' = [channel EXCEPT ![c] = said(rest)] /\ UNCHANGED <<guests, known, reached>>
  BY <1>b, <1>f, <1>i
<1>j. CASE /\ m.auth /\ known' = project /\ UNCHANGED guests
           /\ channel' = Clients(r)!Stamped([channel EXCEPT ![c] = said(rest)])
           /\ \/ reached' = reached
              \/ /\ m.epoch = project
                 /\ reached' = [epoch |-> m.epoch, project |-> project, secret |-> m.secret, settings |-> settings]
  <2>1. PICK mid : mid = [channel EXCEPT ![c] = said(rest)]
    OBVIOUS
  <2>2. DOMAIN mid = DOMAIN channel /\ mid[c] = said(rest) /\ \A d \in DOMAIN channel : d # c => mid[d] = channel[d]
    BY <1>1, <2>1
  <2>3. ASSUME NEW d \in DOMAIN channel PROVE ClientKeeps(r, channel[d], mid[d], ClientCalls(d), settings)
    <3>1. CASE d = c
      BY <1>2, <1>3, <1>4, <1>b, <2>2, <3>1
    <3>2. CASE d # c
      BY <2>2, <3>2 DEF ClientKeeps, ClientInv
    <3> QED BY <3>1, <3>2
  <2>4. channel' = [d \in DOMAIN channel |-> IF d \in DOMAIN guests THEN [mid[d] EXCEPT !.epoch = project] ELSE mid[d]]
    BY <1>j, <2>1, <2>2 DEF Clients!Stamped
  <2>5. \A d : ClientCalls(d)' = ClientCalls(d)
    BY <1>j, ClientSameCalls
  <2>6. PICK p \in 0 .. r.projects : p = project
    BY DEF ClientInv, ClientTyped, ClientRoom
  <2>7. ASSUME NEW d \in DOMAIN channel PROVE ClientKeeps(r, channel[d], channel'[d], ClientCalls(d)', settings')
    <3>1. PICK l : l = mid[d]
      OBVIOUS
    <3>2. PICK D : D = ClientCalls(d)
      OBVIOUS
    <3>3. l \in ClientChannels(r) /\ ClientGood(r, l, D, s) /\ (ClientLives(l) => ClientLives(channel[d]))
      BY <1>4, <2>3, <3>1, <3>2 DEF ClientKeeps
    <3>4. ClientKeeps(r, l, [l EXCEPT !.epoch = p], D, s)
      BY <3>3, ClientStamped
    <3>5. channel'[d] = [l EXCEPT !.epoch = p] \/ channel'[d] = l
      BY <2>4, <2>6, <3>1
    <3>6. ClientKeeps(r, channel[d], channel'[d], D, s)
      BY <3>3, <3>4, <3>5 DEF ClientKeeps
    <3> QED BY <1>4, <2>5, <3>2, <3>6
  <2>8. DOMAIN channel' = DOMAIN channel
    BY <2>4
  <2>9. ClientTyped(r)'
    BY <1>j, <2>8 DEF ClientInv, ClientTyped
  <2>a. m.auth => m.secret = settings
    BY <1>1, <1>2, <1>4, <1>5, <1>7 DEF ClientGood, ClientTrusted
  <2>b. ClientRan'
    BY <1>j, <2>a DEF ClientInv, ClientRan
  <2> QED BY <2>7, <2>8, <2>9, <2>b, ClientStep DEF ClientInv, ClientKeeps
<1>k. CASE /\ channel' = [channel EXCEPT ![c] = rest] /\ guests' = [guests EXCEPT ![c].calls = @ \cup {id}]
           /\ UNCHANGED <<known, reached>>
  <2>1. guests[c].calls \subseteq r.ids
    BY <1>1 DEF ClientSessions
  <2>2. /\ DOMAIN guests' = DOMAIN guests /\ guests'[c].calls = C \cup {id}
        /\ \A d \in DOMAIN guests : d # c => guests'[d] = guests[d]
        /\ \A d \in DOMAIN guests : guests'[d] \in ClientSessions(r)
    BY <1>1, <1>3, <1>9, <1>k, <2>1 DEF ClientSessions
  <2>3. ClientCalls(c)' = C \cup {id} /\ \A d \in DOMAIN channel : d # c => ClientCalls(d)' = ClientCalls(d)
    BY <2>2 DEF ClientCalls
  <2>4. ClientKeeps(r, channel[c], rest, ClientCalls(c)', settings)
    BY <1>2, <1>4, <1>8, <1>9, <2>3 DEF ClientKeeps
  <2>5. DOMAIN channel' = DOMAIN channel
    BY <1>k
  <2>6. ClientTyped(r)' /\ ClientRan'
    BY <1>k, <2>2, <2>5 DEF ClientInv, ClientTyped, ClientRan
  <2> QED BY <1>1, <1>k, <2>3, <2>4, <2>6, ClientOne
<1>l. CASE /\ channel' = [channel EXCEPT ![c] = said(rest)] /\ UNCHANGED <<known, reached>>
           /\ guests' = [guests EXCEPT ![c].subscribed = @ \/ m.kind = "subscribe", ![c].due = @ \/ m.kind = "subscribe"]
  <2>1. PICK a \in BOOLEAN : a = (guests[c].subscribed \/ m.kind = "subscribe")
    OBVIOUS
  <2>2. PICK b \in BOOLEAN : b = (guests[c].due \/ m.kind = "subscribe")
    OBVIOUS
  <2>3. guests' = [guests EXCEPT ![c] = [guests[c] EXCEPT !.subscribed = a, !.due = b]]
    BY <1>1, <1>l, <2>1, <2>2 DEF ClientSessions
  <2>4. DOMAIN guests' = DOMAIN guests
        /\ \A d \in DOMAIN guests : guests'[d] \in ClientSessions(r) /\ guests'[d].calls = guests[d].calls
    BY <1>1, <2>3 DEF ClientSessions
  <2> QED BY <1>b, <1>d, <1>l, <2>4
<1> QED BY <1>a, <1>g, <1>h, <1>i, <1>j, <1>k, <1>l

LEMMA ClientDispatch ==
  ASSUME NEW r, ClientRoom(r), ClientInv(r), Clients(r)!Dispatch
  PROVE  ClientInv(r)'
<1>1. /\ turn' = ~turn /\ UNCHANGED <<sockets, listed, settings, project>>
      /\ \/ /\ \E c \in DOMAIN guests : Clients(r)!Ready(c)
            /\ Clients(r)!Perform(Clients(r)!NextSession) /\ served' = Clients(r)!NextSession
         \/ UNCHANGED <<channel, guests, known, reached, served>>
  BY DEF Clients!Dispatch, Clients!MainOnly
<1>2. turn' \in BOOLEAN
  BY <1>1
<1>3. CASE /\ \E c \in DOMAIN guests : Clients(r)!Ready(c)
           /\ Clients(r)!Perform(Clients(r)!NextSession) /\ served' = Clients(r)!NextSession
  <2>1. Clients(r)!NextSession \in DOMAIN guests /\ Clients(r)!Ready(Clients(r)!NextSession)
    BY <1>3, ClientNext
  <2>2. PICK c : c = Clients(r)!NextSession
    OBVIOUS
  <2>3. c \in DOMAIN guests /\ Clients(r)!Ready(c) /\ Clients(r)!Perform(c) /\ served' = c
    BY <1>3, <2>1, <2>2
  <2>4. served' \in 0 .. Cardinality(r.connections)
    BY <2>3 DEF ClientInv, ClientTyped, ClientRoom
  <2> QED BY <1>1, <1>2, <2>3, <2>4, ClientPerform
<1>4. CASE UNCHANGED <<channel, guests, known, reached, served>>
  <2>1. ClientTyped(r)' /\ ClientRan'
    BY <1>1, <1>2, <1>4 DEF ClientInv, ClientTyped, ClientRan
  <2>2. \A d \in DOMAIN channel : ClientCalls(d)' = ClientCalls(d)
    BY <1>4 DEF ClientCalls
  <2> QED BY <1>1, <1>4, <2>1, <2>2, ClientNone
<1> QED BY <1>1, <1>3, <1>4

LEMMA ClientMoves ==
  ASSUME NEW r, ClientRoom(r), ClientInv(r), Clients(r)!Next \/ UNCHANGED clientVars
  PROVE  ClientInv(r)'
<1>1. CASE UNCHANGED clientVars
  <2>1. ClientTyped(r)' /\ ClientRan'
    BY <1>1 DEF clientVars, ClientInv, ClientTyped, ClientRan
  <2>2. \A d \in DOMAIN channel : ClientCalls(d)' = ClientCalls(d)
    BY <1>1 DEF clientVars, ClientCalls
  <2>3. channel' = channel /\ settings' = settings /\ listed' = listed
    BY <1>1 DEF clientVars
  <2> QED BY <2>1, <2>2, <2>3, ClientNone
<1>2. ASSUME NEW c \in r.connections, Clients(r)!Accept(c) \/ Clients(r)!Output(c) \/ Clients(r)!Drop(c) PROVE ClientInv(r)'
  BY <1>2, ClientAccept, ClientOutput
<1>3. ASSUME NEW c \in r.connections, NEW id \in r.ids, NEW form \in r.kinds, Clients(r)!Receive(c, id, form) PROVE ClientInv(r)'
  BY <1>3, ClientReceive
<1>4. ASSUME NEW c \in r.connections, NEW id \in r.ids, Clients(r)!Complete(c, id) PROVE ClientInv(r)'
  BY <1>4, ClientComplete
<1>5. CASE Clients(r)!Prune \/ Clients(r)!Sync \/ Clients(r)!Observe
  BY <1>5, ClientPrune, ClientSync, ClientObserve
<1>6. CASE Clients(r)!Dispatch \/ Clients(r)!Event \/ Clients(r)!Flush \/ Clients(r)!SwitchProject
  BY <1>6, ClientDispatch, ClientEvent, ClientFlush, ClientSwitch
<1>7. ASSUME NEW next \in 0 .. r.secrets, Clients(r)!Configure(next) PROVE ClientInv(r)'
  BY <1>7, ClientConfigure
<1> QED BY <1>1, <1>2, <1>3, <1>4, <1>5, <1>6, <1>7 DEF Clients!Next

LEMMA ClientInit ==
  ASSUME NEW r, ClientRoom(r), Clients(r)!Init
  PROVE  ClientInv(r)
<1>1. /\ channel = <<>> /\ sockets = {} /\ listed = {} /\ guests = <<>>
      /\ settings = 1 /\ project = 1 /\ known = 1 /\ served = 0 /\ turn = FALSE
      /\ reached = [epoch |-> 1, project |-> 1, secret |-> 1, settings |-> 1]
  BY DEF Clients!Init
<1>2. DOMAIN channel = {}
  <2>1. channel = <<>>
    BY <1>1
  <2> QED BY <2>1
<1>3. DOMAIN guests = {}
  <2>1. guests = <<>>
    BY <1>1
  <2> QED BY <2>1
<1>4. ClientTyped(r)
  <2>1. /\ Cardinality(r.connections) \in Nat /\ r.secrets \in Nat \ {0} /\ r.projects \in Nat \ {0}
    BY DEF ClientRoom
  <2>2. /\ settings \in 0 .. r.secrets /\ known \in 1 .. r.projects /\ project \in 1 .. r.projects
        /\ served \in 0 .. Cardinality(r.connections) /\ turn \in BOOLEAN
    <3>1. settings = 1 /\ project = 1 /\ known = 1 /\ served = 0
      BY <1>1
    <3>2. turn \in BOOLEAN
      BY <1>1
    <3>3. PICK n \in Nat : n = Cardinality(r.connections)
      BY <2>1
    <3>4. served \in 0 .. n
      BY <3>1
    <3>5. settings \in 0 .. r.secrets /\ known \in 1 .. r.projects /\ project \in 1 .. r.projects
      BY <3>1, <2>1
    <3> QED BY <3>2, <3>3, <3>4, <3>5
  <2> QED BY <1>1, <1>2, <1>3, <2>2 DEF ClientTyped
<1>5. ClientRan
  BY <1>1 DEF ClientRan
<1> QED BY <1>2, <1>4, <1>5 DEF ClientInv

\* A set with one element at most has as many as it has.
LEMMA ClientCount ==
  ASSUME NEW S, \A a, b \in S : a = b
  PROVE  Cardinality(S) = IF S = {} THEN 0 ELSE 1
<1>1. CASE S = {}
  BY <1>1, FS_EmptySet
<1>2. CASE S # {}
  <2>1. PICK a : a \in S
    BY <1>2
  <2>2. S = {a}
    BY <2>1
  <2>3. Cardinality({a}) = 1
    BY FS_Singleton
  <2> QED BY <1>2, <2>2, <2>3
<1> QED BY <1>1, <1>2

LEMMA ClientSuffices ==
  ASSUME NEW r, ClientRoom(r), ClientInv(r)
  PROVE  Clients(r)!TypeOK /\ Clients(r)!NumberedOnce /\ Clients(r)!RunsAsAccepted
<1>1. Clients(r)!TypeOK
  <2>1. Clients(r)!Channel = ClientChannels(r) /\ Clients(r)!Session = ClientSessions(r)
    BY DEF Clients!Channel, Clients!Session, Clients!Request, Clients!Item, ClientChannels, ClientSessions, ClientRequests, ClientItems
  <2> QED BY <2>1 DEF Clients!TypeOK, ClientInv, ClientTyped
<1>2. Clients(r)!RunsAsAccepted
  BY DEF Clients!RunsAsAccepted, ClientInv, ClientRan
<1>3. ASSUME NEW c \in DOMAIN guests, Clients(r)!Living(c), NEW id \in r.ids
      PROVE  Clients(r)!Copies(c, id) = IF id \in channel[c].pending THEN 1 ELSE 0
  <2>1. PICK k : k = channel[c]
    OBVIOUS
  <2>2. PICK C : C = guests[c].calls
    OBVIOUS
  <2>3. ClientApart(r, k, C)
    BY <1>3, <2>1, <2>2 DEF Clients!Living, ClientInv, ClientTyped, ClientGood, ClientLives, ClientCalls
  <2> DEFINE A == {i \in DOMAIN k.requests : k.requests[i].id = id}
             B == {i \in DOMAIN k.output : k.output[i] = <<"response", id>>}
             n == IF id \in C THEN 1 ELSE 0
  <2>4. \A i, j \in A : i = j
    BY <2>3 DEF ClientApart
  <2>5. \A i, j \in B : i = j
    BY <2>3 DEF ClientApart
  <2>6. (A # {} <=> ClientAsks(k, id)) /\ (B # {} <=> ClientTells(k, id))
    BY DEF ClientAsks, ClientTells
  <2>7. Clients(r)!Copies(c, id) = Cardinality(A) + Cardinality(B) + n
    BY <2>1, <2>2 DEF Clients!Copies, Clients!Cardinality, Cardinality
  <2> HIDE DEF A, B
  <2>8. Cardinality(A) = (IF A = {} THEN 0 ELSE 1) /\ Cardinality(B) = (IF B = {} THEN 0 ELSE 1)
    BY <2>4, <2>5, ClientCount
  <2>9. /\ ClientAsks(k, id) => ~ClientTells(k, id) /\ id \notin C
        /\ ClientTells(k, id) => id \notin C
        /\ id \in k.pending <=> ClientAsks(k, id) \/ ClientTells(k, id) \/ id \in C
    BY <2>3 DEF ClientApart
  <2> QED BY <2>1, <2>6, <2>7, <2>8, <2>9
<1> QED BY <1>1, <1>2, <1>3 DEF Clients!NumberedOnce

LEMMA ClientRooms == ClientRoom(Visitor) /\ ClientRoom(Rival)
BY ClientsAssumption, FS_CardinalityType DEF ClientRoom

LEMMA ClientsStep ==
  ASSUME [PartNext]_partVars
  PROVE  /\ part' = part
         /\ part = "client" => Clients(Visitor)!Next \/ UNCHANGED clientVars
         /\ part = "rivals" => Clients(Rival)!Next \/ UNCHANGED clientVars
BY DEF PartNext, partVars

\* In a connection that lives, a request's number names that request alone until its response is written: it is refused
\* to a second one exactly as long as the first is queued, runs in a service or waits for the socket; and an API call
\* runs in the project and under the token it was accepted with (external_transport.cpp's admission and send,
\* dispatch_external's checks, configure_external); whatever the connections, limits, tokens and projects.
THEOREM RequestsAreHonest == PartSpec => []RequestsHonest
<1> DEFINE Inv == (part = "client" => ClientInv(Visitor)) /\ (part = "rivals" => ClientInv(Rival))
<1>1. PartInit => Inv
  BY ClientRooms, ClientInit DEF PartInit
<1>2. Inv /\ [PartNext]_partVars => Inv'
  <2> SUFFICES ASSUME Inv, [PartNext]_partVars PROVE Inv'
    OBVIOUS
  <2>1. CASE part = "client"
    BY <2>1, ClientsStep, ClientRooms, ClientMoves
  <2>2. CASE part = "rivals"
    BY <2>2, ClientsStep, ClientRooms, ClientMoves
  <2> QED BY <2>1, <2>2, ClientsStep
<1>3. Inv => RequestsHonest
  BY ClientRooms, ClientSuffices DEF RequestsHonest
<1> QED BY <1>1, <1>2, <1>3, PTL DEF PartSpec
=============================================================================
