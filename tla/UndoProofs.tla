----------------------------- MODULE UndoProofs -----------------------------
(***************************************************************************)
(* Proofs about Undo.tla for every value of its constants.                 *)
(*                                                                         *)
(* The properties become inductive with four more facts.  "BlocksWell"     *)
(* says of every open project what its Undo block is: the one of the       *)
(* gesture or of the labelled batch that holds it, of depth 1 and written  *)
(* by its holder, or none; a batch and a gesture never meet.  "Placed"     *)
(* says where a gesture and a batch are: the gesture of a window in the    *)
(* project the runtime last saw, a batch in an open one.  "EpochWell"      *)
(* bounds the epochs by the changes of project, of which a stale look has  *)
(* not counted the last one yet.  "Typed" adds the types that TypeOK       *)
(* leaves out, and that only editors have an edit.                         *)
(***************************************************************************)
EXTENDS Undo, FiniteSetTheorems, TLAPS

BlockType == [Projects -> [depth : Nat, writers : SUBSET (Consumers \union {Native})]]
SeenType  == [project : Projects, loads : 0 .. MaxChanges, epoch : 1 .. MaxChanges + 1]
UndoType  == [owner : Owners, project : Projects \union {None}, doc : 0 .. MaxDocuments, late : BOOLEAN]
BatchType == [owner : Consumers \union {None}, project : Projects \union {None},
              label : BOOLEAN, left : 0 .. BatchCalls]

\* External clients have no gestures of their own.
Guarded(q) == \A c \in External : \A i \in DOMAIN q[c] : q[c][i].kind \in {"batch", "call"}

Typed ==
  /\ TypeOK
  /\ queue \in [Consumers -> Seq(Requests)]
  /\ edit \in [Windows -> 0 .. MaxGestures]
  /\ \A w \in Windows : edit[w] # 0 => w \in Effects
  /\ Guarded(queue)

\* The Undo blocks b of the open projects when "by" holds one on project "on", or
\* nobody does.
Held(by, on, b) ==
  \A p \in open : IF by # None /\ p = on
                  THEN b[p].depth = 1 /\ b[p].writers \ Effects \subseteq {by}
                  ELSE b[p] = NoBlock

BlocksWell ==
  IF batch.owner = None
  THEN Held(undo.owner, undo.project, block)
  ELSE undo.owner = None /\ Held(IF batch.label THEN batch.owner ELSE None, batch.project, block)

Placed ==
  /\ undo.owner \in Windows => undo.project = seen.project
  /\ batch.owner # None => batch.project \in open
  /\ refresh = IF batch.owner = None THEN 0 ELSE 1

EpochWell ==
  /\ seen.epoch <= changes + 1 /\ loads <= changes
  /\ Stale => seen.epoch <= changes

IndInv == Typed /\ BlocksWell /\ Placed /\ EpochWell

LEMMA Types ==
  ASSUME Typed
  PROVE  /\ current \in open /\ open \subseteq Projects /\ current \in Projects
         /\ loads \in 0 .. MaxChanges /\ changes \in 0 .. MaxChanges
         /\ block \in BlockType /\ refresh \in 0 .. 1
         /\ seen \in SeenType /\ undo \in UndoType /\ batch \in BatchType
         /\ undo.owner \in Owners /\ batch.owner \in Consumers \union {None}
         /\ undo.owner = None <=> undo.project = None
         /\ batch.owner = None <=> batch.project = None
         /\ undo.owner # None => undo.project \in Projects
         /\ batch.owner # None => batch.project \in Projects /\ batch.owner \in Consumers
         /\ sequence \in 0 .. MaxGestures
         /\ queue \in [Consumers -> Seq(Requests)] /\ Guarded(queue) /\ edit \in [Windows -> 0 .. MaxGestures]
         /\ doc \in [Windows -> 1 .. MaxDocuments]
         /\ cleaning \subseteq Windows /\ closing \subseteq Windows /\ gone \subseteq Windows
         /\ None \notin Consumers /\ None \notin Owners \ {None} /\ None \notin Projects
<1>1. TypeOK
  BY DEF Typed
<1>2. undo \in UndoType /\ batch \in BatchType
  BY <1>1 DEF TypeOK, UndoType, BatchType
<1>3. /\ undo.owner # None => undo.project \in Projects
      /\ batch.owner # None => batch.project \in Projects /\ batch.owner \in Consumers
  BY <1>1, <1>2 DEF TypeOK, UndoType, BatchType
<1>4. None \notin Consumers /\ None \notin Projects
  BY UndoAssumption DEF Consumers
<1> QED BY <1>1, <1>2, <1>3, <1>4 DEF TypeOK, Typed, BlockType, SeenType, UndoType, BatchType

\* The types after a step, as one fact to conclude.
LEMMA TypedNext ==
  ASSUME current' \in open', open' \subseteq Projects, loads' \in 0 .. MaxChanges, changes' \in 0 .. MaxChanges,
         block' \in BlockType, refresh' \in 0 .. 1, seen' \in SeenType, undo' \in UndoType, batch' \in BatchType,
         undo'.owner = None <=> undo'.project = None, batch'.owner = None <=> batch'.project = None,
         sequence' \in 0 .. MaxGestures, queue' \in [Consumers -> Seq(Requests)], Guarded(queue'),
         edit' \in [Windows -> 0 .. MaxGestures], \A w \in Windows : edit'[w] # 0 => w \in Effects,
         Guarded(queue'), doc' \in [Windows -> 1 .. MaxDocuments],
         cleaning' \subseteq Windows, closing' \subseteq Windows, gone' \subseteq Windows
  PROVE  Typed'
<1>1. \A c \in Consumers : \A i \in DOMAIN queue'[c] : queue'[c][i] \in Requests
  OBVIOUS
<1> QED BY <1>1 DEF Typed, TypeOK, BlockType, SeenType, UndoType, BatchType, Guarded

-----------------------------------------------------------------------------
(* What the operations on Undo blocks do to them.                           *)

LEMMA NothingHeld == ASSUME NEW b, NEW on, NEW p, Held(None, on, b) PROVE Held(None, p, b)
BY DEF Held

LEMMA BegunHeld ==
  ASSUME Typed, NEW b \in BlockType, NEW on, Held(None, on, b), NEW q \in open, NEW by, by # None
  PROVE  Begun(b, q) \in BlockType /\ Held(by, q, Begun(b, q))
<1>1. open \subseteq Projects /\ q \in Projects
  BY Types
<1>2. b[q] = NoBlock /\ b[q] \in [depth : Nat, writers : SUBSET (Consumers \union {Native})]
  BY <1>1 DEF Held, BlockType
<1>3. Begun(b, q) = [b EXCEPT ![q] = [b[q] EXCEPT !.depth = 1]]
  BY <1>1, <1>2 DEF Begun, BlockType, NoBlock
<1>4. Begun(b, q)[q] = [depth |-> 1, writers |-> {}] /\ \A p \in Projects : p # q => Begun(b, q)[p] = b[p]
  BY <1>1, <1>2, <1>3 DEF BlockType, NoBlock
<1>5. Begun(b, q) \in BlockType
  BY <1>1, <1>2, <1>3, <1>4 DEF BlockType, NoBlock
<1> QED BY <1>1, <1>4, <1>5 DEF Held

LEMMA EndedHeld ==
  ASSUME Typed, NEW b \in BlockType, NEW q \in open, NEW by, by # None, Held(by, q, b)
  PROVE  Ended(b, q) \in BlockType /\ Held(None, None, Ended(b, q))
<1>1. open \subseteq Projects /\ q \in Projects
  BY Types
<1>2. b[q].depth = 1
  BY DEF Held
<1>3. Ended(b, q) = [b EXCEPT ![q] = NoBlock]
  BY <1>2 DEF Ended
<1>4. NoBlock \in [depth : Nat, writers : SUBSET (Consumers \union {Native})]
  BY DEF NoBlock
<1> QED BY <1>1, <1>3, <1>4 DEF Held, BlockType

LEMMA FinishedHeld ==
  ASSUME Typed, NEW u, NEW b \in BlockType, Held(u.owner, u.project, b)
  PROVE  Finished(u, b) \in BlockType /\ Held(None, None, Finished(u, b))
<1>1. CASE u.owner # None /\ u.project \in open
  BY <1>1, EndedHeld DEF Finished
<1>2. CASE ~(u.owner # None /\ u.project \in open)
  BY <1>2 DEF Finished, Held
<1> QED BY <1>1, <1>2

LEMMA WrittenHeld ==
  ASSUME Typed, NEW b \in BlockType, NEW by, NEW on, Held(by, on, b), NEW p \in open, NEW c \in Consumers,
         by # None /\ p = on => c = by \/ c \in Effects
  PROVE  Written(b, p, c) \in BlockType /\ Held(by, on, Written(b, p, c))
<1>1. open \subseteq Projects /\ p \in Projects /\ b[p] \in [depth : Nat, writers : SUBSET (Consumers \union {Native})]
  BY Types DEF BlockType
<1>2. CASE b[p].depth = 0
  BY <1>2 DEF Written
<1>3. CASE b[p].depth # 0
  <2>1. by # None /\ p = on
    BY <1>3 DEF Held, NoBlock
  <2>2. Written(b, p, c) = [b EXCEPT ![p] = [b[p] EXCEPT !.writers = b[p].writers \union {c}]]
    BY <1>1, <1>3 DEF Written, BlockType
  <2>3. Written(b, p, c) \in BlockType
    BY <1>1, <2>2 DEF BlockType
  <2>4. Written(b, p, c)[p].depth = 1 /\ Written(b, p, c)[p].writers = b[p].writers \union {c}
    BY <1>1, <2>1, <2>2 DEF Held, BlockType
  <2>5. \A q \in open : q # p => Written(b, p, c)[q] = b[q]
    BY <1>1, <2>2 DEF BlockType
  <2> QED BY <2>1, <2>3, <2>4, <2>5 DEF Held
<1> QED BY <1>2, <1>3

\* What observe() leaves: the project is seen, and a gesture that goes on is as before.
LEMMA ObservedWell ==
  ASSUME IndInv, batch.owner = None
  PROVE  /\ Observed.seen \in SeenType /\ Observed.seen.project = current /\ Observed.seen.loads = loads
         /\ Observed.seen.epoch <= changes + 1
         /\ Observed.block \in BlockType
         /\ Observed.undo = undo \/ Observed.undo = NoUndo
         /\ ~Stale => Observed.undo = undo /\ Observed.block = block
         /\ Observed.undo \in UndoType
         /\ Observed.undo.owner = None <=> Observed.undo.project = None
         /\ Observed.undo.owner \in Windows => Observed.undo.project = current
         /\ Held(Observed.undo.owner, Observed.undo.project, Observed.block)
<1>0. Typed /\ NoUndo \in UndoType /\ NoUndo.owner = None /\ NoUndo.project = None /\ None \notin Windows
  BY UndoAssumption DEF IndInv, NoUndo, UndoType, Owners
<1>1. Held(undo.owner, undo.project, block)
  BY DEF IndInv, BlocksWell
<1>2. CASE Stale
  <2>1. /\ Observed.seen = [project |-> current, loads |-> loads, epoch |-> seen.epoch + 1]
        /\ Observed.undo = NoUndo /\ Observed.block = Finished(undo, block)
    BY <1>2 DEF Observed
  <2>2. seen.epoch <= changes /\ seen.epoch \in 1 .. MaxChanges + 1 /\ changes \in 0 .. MaxChanges
    BY <1>0, <1>2, Types DEF IndInv, EpochWell, SeenType
  <2>3. Observed.seen \in SeenType /\ Observed.seen.epoch <= changes + 1
    BY <1>0, <2>1, <2>2, Types, UndoAssumption DEF SeenType
  <2>4. Finished(undo, block) \in BlockType /\ Held(None, None, Finished(undo, block))
    BY <1>0, <1>1, Types, FinishedHeld
  <2> QED BY <1>0, <1>2, <2>1, <2>3, <2>4
<1>3. CASE ~Stale
  <2>1. Observed = [undo |-> undo, block |-> block, seen |-> seen]
    BY <1>3 DEF Observed
  <2>2. seen.project = current /\ seen.loads = loads
    BY <1>3 DEF Stale
  <2>3. /\ Observed.undo = undo /\ Observed.block = block /\ Observed.seen = seen
        /\ seen.epoch <= changes + 1 /\ (undo.owner \in Windows => undo.project = current)
    BY <2>1, <2>2 DEF IndInv, EpochWell, Placed
  <2> QED BY <1>0, <1>1, <2>2, <2>3, Types
<1> QED BY <1>2, <1>3

LEMMA InitInv == Init => IndInv
<1> SUFFICES ASSUME Init PROVE IndInv
  OBVIOUS
<1>1. /\ NoUndo \in UndoType /\ NoBatch \in BatchType /\ NoUndo.owner = None /\ NoUndo.project = None
      /\ NoBatch.owner = None /\ NoBatch.project = None
  BY UndoAssumption DEF NoUndo, NoBatch, UndoType, BatchType, Owners
<1>2. block \in BlockType /\ \A p \in Projects : block[p] = NoBlock
  BY DEF Init, BlockType, NoBlock
<1>3. seen \in SeenType /\ loads = 0 /\ changes = 0 /\ seen.epoch = 1 /\ ~Stale
  BY UndoAssumption DEF Init, SeenType, Stale
<1>4. queue \in [Consumers -> Seq(Requests)] /\ edit \in [Windows -> 0 .. MaxGestures]
      /\ doc \in [Windows -> 1 .. MaxDocuments] /\ sequence \in 0 .. MaxGestures
  BY UndoAssumption DEF Init
<1>5. TypeOK
  <2>1. \A c \in Consumers : \A i \in DOMAIN queue[c] : queue[c][i] \in Requests
    BY <1>4
  <2>2. 0 \in 0 .. MaxChanges /\ refresh \in 0 .. 1
    BY UndoAssumption DEF Init
  <2> QED BY <1>1, <1>2, <1>3, <1>4, <2>1, <2>2 DEF Init, TypeOK, BlockType, SeenType, UndoType, BatchType
<1>6. Typed
  <2>1. Guarded(queue)
    BY DEF Init, Guarded, Consumers
  <2>2. \A w \in Windows : edit[w] = 0
    BY DEF Init
  <2> QED BY <1>4, <1>5, <2>1, <2>2 DEF Typed
<1>7. BlocksWell /\ Placed
  <2>1. undo.owner = None /\ batch.owner = None /\ None \notin Windows
    BY <1>1, UndoAssumption DEF Init
  <2> QED BY <1>2, <2>1 DEF BlocksWell, Placed, Held, Init
<1>8. EpochWell
  BY <1>3 DEF EpochWell
<1> QED BY <1>6, <1>7, <1>8 DEF IndInv

-----------------------------------------------------------------------------
(* Steps.                                                                   *)

\* A step that leaves projects and the batch alone, while no batch runs, is shown
\* by what it makes of the gesture and of the blocks.
LEMMA GestureStep ==
  ASSUME IndInv, batch.owner = None, UNCHANGED <<reaper, batch, refresh>>,
         block' \in BlockType, undo' \in UndoType, undo'.owner = None <=> undo'.project = None,
         Held(undo'.owner, undo'.project, block'),
         undo'.owner \in Windows => undo'.project = seen'.project,
         UNCHANGED seen \/ seen' = Observed.seen,
         sequence' \in 0 .. MaxGestures, queue' \in [Consumers -> Seq(Requests)], Guarded(queue'),
         edit' \in [Windows -> 0 .. MaxGestures], \A w \in Windows : edit'[w] # 0 => w \in Effects,
         doc' \in [Windows -> 1 .. MaxDocuments],
         cleaning' \subseteq Windows, closing' \subseteq Windows, gone' \subseteq Windows
  PROVE  IndInv'
<1>0. Typed
  BY DEF IndInv
<1>1. UNCHANGED <<current, loads, open, changes, batch, refresh>>
  BY DEF reaper
<1>2. seen' \in SeenType /\ EpochWell'
  <2>1. CASE UNCHANGED seen
    BY <1>0, <1>1, <2>1, Types DEF IndInv, EpochWell, Stale
  <2>2. CASE seen' = Observed.seen
    <3>1. seen' \in SeenType /\ seen'.project = current /\ seen'.loads = loads /\ seen'.epoch <= changes + 1
      BY <2>2, ObservedWell
    <3>2. loads <= changes
      BY DEF IndInv, EpochWell
    <3> QED BY <1>1, <3>1, <3>2 DEF EpochWell, Stale
  <2> QED BY <2>1, <2>2
<1>3. Typed'
  BY <1>0, <1>1, <1>2, Types, TypedNext
<1>4. BlocksWell'
  BY <1>1 DEF BlocksWell, Held
<1>5. Placed'
  BY <1>1 DEF IndInv, Placed
<1> QED BY <1>2, <1>3, <1>4, <1>5 DEF IndInv

\* The user changes projects.
LEMMA ChangeProjectInv == ASSUME IndInv, ChangeProject PROVE IndInv'
<1>0. Typed /\ changes < MaxChanges /\ changes' = changes + 1 /\ changes \in 0 .. MaxChanges /\ loads \in 0 .. MaxChanges
  BY Types DEF IndInv, ChangeProject
<1>1. UNCHANGED <<refresh, seen, undo, sequence, edit, batch, queue, doc, cleaning, closing, gone>>
  BY DEF ChangeProject, windows
<1>2. PICK q \in Projects : Switch(q) \/ Load(q) \/ CloseTab(q)
  BY DEF ChangeProject
<1>3. /\ current' \in open' /\ open' \subseteq open /\ loads' \in {loads, loads + 1} /\ block' \in BlockType
      /\ batch.owner # None => open' = open
      /\ \A p \in open' : block'[p] = block[p]
  <2>0. current \in open /\ open \subseteq Projects /\ block \in BlockType
    BY <1>0, Types
  <2>1. CASE Switch(q) \/ Load(q)
    <3>1. current' = q /\ q \in open /\ UNCHANGED <<open, block>> /\ loads' \in {loads, loads + 1}
      BY <2>1 DEF Switch, Load
    <3> QED BY <2>0, <3>1
  <2>2. CASE CloseTab(q)
    <3>1. open' = open \ {q} /\ batch.owner = None /\ UNCHANGED loads
          /\ block' = [block EXCEPT ![q] = NoBlock] /\ (current' \in open' \/ (current' = current /\ current # q))
      BY <2>2 DEF CloseTab
    <3>2. NoBlock \in [depth : Nat, writers : SUBSET (Consumers \union {Native})]
      BY DEF NoBlock
    <3>3. block' \in BlockType /\ \A p \in Projects : p # q => block'[p] = block[p]
      BY <2>0, <3>1, <3>2 DEF BlockType
    <3> QED BY <2>0, <3>1, <3>3
  <2> QED BY <1>2, <2>1, <2>2
<1>4. changes' \in 0 .. MaxChanges /\ loads' \in 0 .. MaxChanges /\ loads' <= changes'
  <2>1. loads <= changes
    BY DEF IndInv, EpochWell
  <2> QED BY <1>0, <1>3, <2>1, UndoAssumption
<1>5. Typed'
  <2>1. open' \subseteq Projects
    BY <1>0, <1>3, Types
  <2>2. \A w \in Windows : edit[w] # 0 => w \in Effects
    BY <1>0 DEF Typed
  <2> QED BY <1>0, <1>1, <1>3, <1>4, <2>1, <2>2, Types, TypedNext
<1>6. BlocksWell'
  BY <1>1, <1>3 DEF IndInv, BlocksWell, Held
<1>7. Placed'
  BY <1>1, <1>3 DEF IndInv, Placed
<1>8. EpochWell'
  <2>1. seen.epoch \in Nat /\ seen.epoch <= changes + 1
    BY <1>0, Types DEF IndInv, EpochWell, SeenType
  <2>2. seen'.epoch <= changes' /\ seen'.epoch <= changes' + 1
    BY <1>0, <1>1, <2>1
  <2> QED BY <1>4, <2>2 DEF EpochWell
<1> QED BY <1>5, <1>6, <1>7, <1>8 DEF IndInv

\* What a request needs to be queued.
LEMMA ArriveInv == ASSUME IndInv, NEW c \in Consumers, Arrive(c) PROVE IndInv'
<1>0. Typed
  BY DEF IndInv
<1>1. UNCHANGED <<current, loads, open, changes, block, refresh, seen, undo, sequence, edit, batch, doc, cleaning, closing, gone>>
  BY DEF Arrive, reaper, windows
<1>2. queue' \in [Consumers -> Seq(Requests)] /\ Guarded(queue')
  <2>1. PICK r \in Requests : queue' = [queue EXCEPT ![c] = Append(@, r)] /\ (c \in External => r.kind \in {"batch", "call"})
    BY DEF Arrive
  <2>2. queue[c] \in Seq(Requests) /\ queue \in [Consumers -> Seq(Requests)] /\ Guarded(queue)
    BY <1>0, Types
  <2>3. Append(queue[c], r) \in Seq(Requests)
    BY <2>2
  <2>4. ASSUME NEW e \in External, NEW i \in DOMAIN queue'[e] PROVE queue'[e][i].kind \in {"batch", "call"}
    <3>1. CASE e # c
      BY <2>1, <2>2, <3>1 DEF Guarded, Consumers
    <3>2. CASE e = c
      <4>1. queue'[e] = Append(queue[e], r)
        BY <2>1, <2>2, <3>2 DEF Consumers
      <4>2. (i \in DOMAIN queue[e] /\ queue'[e][i] = queue[e][i]) \/ queue'[e][i] = r
        BY <2>2, <2>4, <3>2, <4>1
      <4> QED BY <2>1, <2>2, <3>2, <4>2 DEF Guarded
    <3> QED BY <3>1, <3>2
  <2> QED BY <2>1, <2>2, <2>3, <2>4 DEF Guarded
<1>3. Typed'
  <2>1. \A w \in Windows : edit'[w] # 0 => w \in Effects
    BY <1>0, <1>1 DEF Typed
  <2> QED BY <1>0, <1>1, <1>2, <2>1, Types, TypedNext
<1> QED BY <1>1, <1>3 DEF IndInv, BlocksWell, Held, Placed, EpochWell, Stale

\* One request of a queue is taken.
LEMMA TailTyped ==
  ASSUME Typed, NEW c \in Consumers, queue[c] # <<>>, queue' = [queue EXCEPT ![c] = Tail(@)]
  PROVE  /\ queue' \in [Consumers -> Seq(Requests)] /\ Guarded(queue') /\ Head(queue[c]) \in Requests
         /\ c \in External => Head(queue[c]).kind \in {"batch", "call"}
         /\ queue'[c] = Tail(queue[c])
<1>1. queue \in [Consumers -> Seq(Requests)] /\ queue[c] \in Seq(Requests) /\ Guarded(queue)
  BY Types
<1>2. Tail(queue[c]) \in Seq(Requests) /\ Head(queue[c]) \in Requests /\ Head(queue[c]) = queue[c][1] /\ 1 \in DOMAIN queue[c]
  BY <1>1
<1>3. queue'[c] = Tail(queue[c]) /\ queue' \in [Consumers -> Seq(Requests)]
  BY <1>1, <1>2
<1>4. ASSUME NEW e \in External, NEW i \in DOMAIN queue'[e] PROVE queue'[e][i].kind \in {"batch", "call"}
  <2>1. CASE e # c
    BY <1>1, <2>1 DEF Guarded, Consumers
  <2>2. CASE e = c
    <3>1. i + 1 \in DOMAIN queue[c] /\ queue'[e][i] = queue[c][i + 1]
      BY <1>1, <1>3, <1>4, <2>2
    <3> QED BY <1>1, <2>2, <3>1 DEF Guarded
  <2> QED BY <2>1, <2>2
<1> QED BY <1>1, <1>2, <1>3, <1>4 DEF Guarded

\* What dispatching a request that does not start a batch does to the gesture and
\* the blocks.
LEMMA DispatchGesture ==
  ASSUME IndInv, batch.owner = None, NEW c \in Consumers, NEW r \in Requests,
         seen' = Observed.seen, UNCHANGED <<reaper, refresh, batch>>,
         \/ Refuse(Observed)
         \/ Admitted(Observed, c, r) /\ r.kind = "end" /\ Ends(Observed, c, r) /\ EndUndo(Observed)
         \/ Admitted(Observed, c, r) /\ r.kind = "begin" /\ BeginUndo(Observed, c)
         \/ Admitted(Observed, c, r) /\ r.kind = "call" /\ Call(Observed, c),
         c \in External => r.kind # "begin"
  PROVE  /\ block' \in BlockType /\ undo' \in UndoType
         /\ undo'.owner = None <=> undo'.project = None
         /\ Held(undo'.owner, undo'.project, block')
         /\ undo'.owner \in Windows => undo'.project = seen'.project
         /\ sequence' \in 0 .. MaxGestures
<1> DEFINE now == Observed
<1>0. Typed /\ current \in open /\ current \in Projects /\ open \subseteq Projects /\ sequence \in 0 .. MaxGestures
      /\ None \notin Consumers /\ None \notin Windows
  BY Types, UndoAssumption DEF IndInv, Consumers
<1>1. /\ now.seen.project = current /\ now.block \in BlockType /\ now.undo \in UndoType
      /\ now.undo.owner = None <=> now.undo.project = None
      /\ now.undo.owner \in Windows => now.undo.project = current
      /\ Held(now.undo.owner, now.undo.project, now.block)
  BY ObservedWell
<1>n. NoUndo \in UndoType /\ NoUndo.owner = None /\ NoUndo.project = None
  BY UndoAssumption DEF NoUndo, UndoType, Owners
<1> HIDE DEF now
<1>2. CASE Refuse(now)
  BY <1>0, <1>1, <1>2 DEF Refuse, now
<1>3. CASE EndUndo(now)
  <2>1. Finished(now.undo, now.block) \in BlockType /\ Held(None, None, Finished(now.undo, now.block))
    BY <1>0, <1>1, FinishedHeld
  <2> QED BY <1>0, <1>n, <1>3, <2>1 DEF EndUndo
<1>4. CASE Admitted(now, c, r) /\ r.kind = "begin" /\ BeginUndo(now, c)
  <2>1. now.undo.owner = None /\ c \in Windows
    BY <1>4 DEF Admitted, Busy, Consumers, now
  <2>2. Begun(now.block, current) \in BlockType /\ Held(c, current, Begun(now.block, current))
    <3>1. Held(None, now.undo.project, now.block) /\ c # None
      BY <1>0, <1>1, <2>1
    <3> QED BY <1>0, <1>1, <3>1, BegunHeld
  <2>3. undo' = [owner |-> c, project |-> current, doc |-> doc[c], late |-> FALSE] /\ block' = Begun(now.block, current)
        /\ sequence < MaxGestures /\ sequence' = sequence + 1
    BY <1>4 DEF BeginUndo
  <2>4. doc[c] \in 0 .. MaxDocuments
    BY <1>0, <2>1, Types, UndoAssumption
  <2>5. undo' \in UndoType
    BY <1>0, <2>1, <2>3, <2>4 DEF UndoType, Owners
  <2>6. sequence' \in 0 .. MaxGestures
    BY <1>0, <2>3, UndoAssumption
  <2>7. undo'.owner = c /\ undo'.project = current /\ current # None
    BY <2>3, <1>0, UndoAssumption
  <2> QED BY <1>0, <1>1, <2>1, <2>2, <2>3, <2>5, <2>6, <2>7 DEF now
<1>5. CASE Admitted(now, c, r) /\ r.kind = "call" /\ Call(now, c)
  <2>1. PICK p \in open : (now.undo.owner # None => p = current) /\ block' = Written(now.block, p, c)
    BY <1>5 DEF Call
  <2>2. undo' = now.undo /\ UNCHANGED sequence
    BY <1>5 DEF Call
  <2>3. now.undo.owner # None => c = now.undo.owner
    BY <1>5 DEF Admitted, Busy, now
  <2>4. Written(now.block, p, c) \in BlockType /\ Held(now.undo.owner, now.undo.project, Written(now.block, p, c))
    BY <1>0, <1>1, <2>3, WrittenHeld
  <2> QED BY <1>0, <1>1, <2>1, <2>2, <2>4 DEF now
<1> QED BY <1>2, <1>3, <1>4, <1>5 DEF now

LEMMA DispatchInv == ASSUME IndInv, NEW c \in Consumers, Dispatch(c) PROVE IndInv'
<1> DEFINE r == Head(queue[c])
<1>0. /\ Typed /\ batch.owner = None /\ queue[c] # <<>> /\ queue' = [queue EXCEPT ![c] = Tail(@)]
      /\ seen' = Observed.seen /\ UNCHANGED <<reaper, edit, windows>>
      /\ \/ Refuse(Observed)
         \/ Admitted(Observed, c, r) /\ r.kind = "end" /\ Ends(Observed, c, r) /\ EndUndo(Observed)
         \/ Admitted(Observed, c, r) /\ r.kind = "begin" /\ BeginUndo(Observed, c)
         \/ Admitted(Observed, c, r) /\ r.kind = "call" /\ Call(Observed, c)
         \/ Admitted(Observed, c, r) /\ r.kind = "batch" /\ BeginBatch(Observed, c)
  BY DEF IndInv, Dispatch
<1>1. /\ queue' \in [Consumers -> Seq(Requests)] /\ Guarded(queue') /\ r \in Requests
      /\ c \in External => r.kind # "begin"
  <2>1. \A k \in {"batch", "call"} : k # "begin"
    OBVIOUS
  <2> QED BY <1>0, <2>1, TailTyped
<1>2. UNCHANGED <<current, loads, open, changes, edit, doc, cleaning, closing, gone>>
      /\ (\A w \in Windows : edit[w] # 0 => w \in Effects)
  BY <1>0 DEF reaper, windows, Typed
<1>3. ASSUME ~(Admitted(Observed, c, r) /\ r.kind = "batch" /\ BeginBatch(Observed, c)) PROVE IndInv'
  <2>1. UNCHANGED <<batch, refresh>>
    BY <1>0, <1>3 DEF Refuse, EndUndo, BeginUndo, Call
  <2>2. /\ block' \in BlockType /\ undo' \in UndoType
        /\ undo'.owner = None <=> undo'.project = None
        /\ Held(undo'.owner, undo'.project, block')
        /\ undo'.owner \in Windows => undo'.project = seen'.project
        /\ sequence' \in 0 .. MaxGestures
    BY <1>0, <1>1, <1>3, <2>1, DispatchGesture
  <2>3. /\ edit' \in [Windows -> 0 .. MaxGestures] /\ (\A w \in Windows : edit'[w] # 0 => w \in Effects)
        /\ doc' \in [Windows -> 1 .. MaxDocuments]
        /\ cleaning' \subseteq Windows /\ closing' \subseteq Windows /\ gone' \subseteq Windows
    BY <1>0, <1>2, Types
  <2> QED BY <1>0, <1>1, <2>1, <2>2, <2>3, GestureStep
<1>4. ASSUME Admitted(Observed, c, r), r.kind = "batch", BeginBatch(Observed, c) PROVE IndInv'
  <2>1. /\ Observed.seen \in SeenType /\ Observed.seen.project = current /\ Observed.seen.loads = loads
        /\ Observed.seen.epoch <= changes + 1 /\ Observed.block \in BlockType
        /\ Observed.undo \in UndoType /\ (Observed.undo.owner = None <=> Observed.undo.project = None)
        /\ Held(Observed.undo.owner, Observed.undo.project, Observed.block)
    BY <1>0, ObservedWell
  <2>2. Observed.undo.owner = None /\ undo' = Observed.undo /\ UNCHANGED sequence /\ refresh' = refresh + 1
    BY <1>4 DEF Admitted, Busy, BeginBatch
  <2>3. PICK label \in BOOLEAN :
          /\ batch' = [owner |-> c, project |-> current, label |-> label, left |-> BatchCalls]
          /\ block' = IF label THEN Begun(Observed.block, current) ELSE Observed.block
    BY <1>4 DEF BeginBatch
  <2>4. /\ current \in open /\ current \in Projects /\ c # None /\ current # None /\ None \notin Windows
        /\ BatchCalls \in Nat /\ refresh = 0
    BY <1>0, Types, UndoAssumption DEF IndInv, Placed
  <2>5. /\ batch' \in BatchType /\ batch'.owner = c /\ batch'.project = current
        /\ (batch'.label <=> label) /\ refresh' = 1
    BY <2>2, <2>3, <2>4 DEF BatchType
  <2>6. block' \in BlockType /\ Held(IF batch'.label THEN batch'.owner ELSE None, batch'.project, block')
    <3>1. CASE label
      BY <1>0, <2>1, <2>2, <2>3, <2>4, <2>5, <3>1, BegunHeld
    <3>2. CASE ~label
      BY <1>0, <2>1, <2>2, <2>3, <2>5, <3>2, NothingHeld
    <3> QED BY <3>1, <3>2
  <2>7. Typed'
    BY <1>0, <1>1, <1>2, <2>1, <2>2, <2>4, <2>5, <2>6, Types, TypedNext
  <2>8. BlocksWell'
    <3>1. batch'.owner # None /\ undo'.owner = None
      BY <2>2, <2>4, <2>5
    <3> QED BY <1>2, <2>6, <3>1 DEF BlocksWell, Held
  <2>9. Placed'
    BY <1>2, <2>2, <2>4, <2>5 DEF Placed
  <2>10. EpochWell'
    BY <1>0, <1>2, <2>1 DEF IndInv, EpochWell, Stale
  <2> QED BY <2>7, <2>8, <2>9, <2>10 DEF IndInv
<1> QED BY <1>3, <1>4

\* The calls and the end of a batch.
LEMMA BatchCallInv == ASSUME IndInv, BatchCall PROVE IndInv'
<1>0. /\ Typed /\ batch.owner # None /\ batch.left > 0 /\ batch \in BatchType /\ block \in BlockType
      /\ batch.owner \in Consumers /\ batch.project \in open /\ BatchCalls \in Nat
  BY Types, UndoAssumption DEF IndInv, Placed, BatchCall
<1>1. UNCHANGED <<current, loads, open, changes, refresh, seen, undo, sequence, edit, queue, doc, cleaning, closing, gone>>
  BY DEF BatchCall, reaper, windows
<1>2. batch' = [batch EXCEPT !.left = @ - 1] /\ block' = Written(block, batch.project, batch.owner)
  BY DEF BatchCall
<1>3. batch' \in BatchType /\ batch'.owner = batch.owner /\ batch'.project = batch.project /\ batch'.label = batch.label
  BY <1>0, <1>2 DEF BatchType
<1>4. undo.owner = None /\ Held(IF batch.label THEN batch.owner ELSE None, batch.project, block)
  BY <1>0 DEF IndInv, BlocksWell
<1>5. block' \in BlockType /\ Held(IF batch.label THEN batch.owner ELSE None, batch.project, block')
  <2>1. CASE batch.label
    BY <1>0, <1>2, <1>4, <2>1, WrittenHeld
  <2>2. CASE ~batch.label
    BY <1>0, <1>2, <1>4, <2>2, WrittenHeld
  <2> QED BY <2>1, <2>2
<1>6. Typed'
  <2>1. \A w \in Windows : edit'[w] # 0 => w \in Effects
    BY <1>0, <1>1 DEF Typed
  <2> QED BY <1>0, <1>1, <1>3, <1>5, <2>1, Types, TypedNext
<1>7. BlocksWell'
  BY <1>0, <1>1, <1>3, <1>4, <1>5 DEF BlocksWell, Held
<1>8. Placed' /\ EpochWell'
  BY <1>1, <1>3 DEF IndInv, Placed, EpochWell, Stale
<1> QED BY <1>6, <1>7, <1>8 DEF IndInv

LEMMA FinishBatchInv == ASSUME IndInv, FinishBatch PROVE IndInv'
<1>0. /\ Typed /\ batch.owner # None /\ block \in BlockType /\ batch.project \in open /\ refresh = 1
      /\ NoBatch \in BatchType /\ NoBatch.owner = None /\ NoBatch.project = None /\ None \notin Windows
  BY Types, UndoAssumption DEF IndInv, Placed, FinishBatch, NoBatch, BatchType
<1>1. UNCHANGED <<current, loads, open, changes, seen, undo, sequence, edit, queue, doc, cleaning, closing, gone>>
  BY DEF FinishBatch, reaper, windows
<1>2. batch' = NoBatch /\ refresh' = 0 /\ block' = IF batch.label THEN Ended(block, batch.project) ELSE block
  BY <1>0 DEF FinishBatch
<1>3. undo.owner = None /\ Held(IF batch.label THEN batch.owner ELSE None, batch.project, block)
  BY <1>0 DEF IndInv, BlocksWell
<1>4. block' \in BlockType /\ Held(None, undo.project, block')
  <2>1. CASE batch.label
    <3>1. Ended(block, batch.project) \in BlockType /\ Held(None, None, Ended(block, batch.project))
      BY <1>0, <1>3, <2>1, EndedHeld
    <3> QED BY <1>2, <2>1, <3>1, NothingHeld
  <2>2. CASE ~batch.label
    BY <1>0, <1>2, <1>3, <2>2, NothingHeld
  <2> QED BY <2>1, <2>2
<1>5. Typed'
  <2>1. \A w \in Windows : edit'[w] # 0 => w \in Effects
    BY <1>0, <1>1 DEF Typed
  <2> QED BY <1>0, <1>1, <1>2, <1>4, <2>1, Types, TypedNext
<1>6. BlocksWell'
  BY <1>0, <1>1, <1>2, <1>3, <1>4 DEF BlocksWell, Held
<1>7. Placed' /\ EpochWell'
  BY <1>0, <1>1, <1>2, <1>3 DEF IndInv, Placed, EpochWell, Stale
<1> QED BY <1>5, <1>6, <1>7 DEF IndInv

\* What holds of the gesture and the blocks while no batch runs, and after a gesture of
\* w, if there is one, has ended.
LEMMA Ungestured ==
  ASSUME IndInv, batch.owner = None
  PROVE  /\ Typed /\ block \in BlockType /\ undo \in UndoType /\ (undo.owner = None <=> undo.project = None)
         /\ Held(undo.owner, undo.project, block)
         /\ undo.owner \in Windows => undo.project = seen.project
         /\ NoUndo \in UndoType /\ NoUndo.owner = None /\ NoUndo.project = None /\ None \notin Windows
BY Types, UndoAssumption DEF IndInv, BlocksWell, Placed, NoUndo, UndoType, Owners

LEMMA EndGestureOfHeld ==
  ASSUME IndInv, batch.owner = None,
         UNCHANGED <<undo, block>> \/ (undo' = NoUndo /\ block' = Finished(undo, block))
  PROVE  /\ block' \in BlockType /\ undo' \in UndoType
         /\ undo'.owner = None <=> undo'.project = None
         /\ Held(undo'.owner, undo'.project, block')
         /\ undo'.owner \in Windows => undo'.project = seen.project
<1>1. CASE UNCHANGED <<undo, block>>
  BY <1>1, Ungestured
<1>2. CASE undo' = NoUndo /\ block' = Finished(undo, block)
  <2>1. Finished(undo, block) \in BlockType /\ Held(None, None, Finished(undo, block))
    BY Ungestured, FinishedHeld
  <2> QED BY <1>2, <2>1, Ungestured
<1> QED BY <1>1, <1>2

LEMMA EmptyTyped ==
  ASSUME Typed, NEW w \in Windows, queue' = [queue EXCEPT ![w] = <<>>]
  PROVE  queue' \in [Consumers -> Seq(Requests)] /\ Guarded(queue')
<1>1. queue \in [Consumers -> Seq(Requests)] /\ Guarded(queue) /\ w \in Consumers
  BY Types DEF Consumers
<1>2. queue'[w] = <<>> /\ \A c \in Consumers : c # w => queue'[c] = queue[c]
  BY <1>1
<1>3. queue' \in [Consumers -> Seq(Requests)]
  BY <1>1
<1> QED BY <1>1, <1>2, <1>3 DEF Guarded, Consumers

\* A step that ends the gesture or leaves it, on the part of a window.
LEMMA EndingStep ==
  ASSUME IndInv, batch.owner = None, UNCHANGED <<reaper, batch, refresh, seen, sequence>>,
         UNCHANGED <<undo, block>> \/ (undo' = NoUndo /\ block' = Finished(undo, block)),
         queue' \in [Consumers -> Seq(Requests)], Guarded(queue'),
         UNCHANGED edit \/ \E w \in Windows : edit' = [edit EXCEPT ![w] = 0],
         doc' \in [Windows -> 1 .. MaxDocuments],
         cleaning' \subseteq Windows, closing' \subseteq Windows, gone' \subseteq Windows
  PROVE  IndInv'
<1>1. /\ block' \in BlockType /\ undo' \in UndoType
      /\ undo'.owner = None <=> undo'.project = None
      /\ Held(undo'.owner, undo'.project, block')
      /\ undo'.owner \in Windows => undo'.project = seen'.project
  BY EndGestureOfHeld
<1>2. edit' \in [Windows -> 0 .. MaxGestures] /\ (\A w \in Windows : edit'[w] # 0 => w \in Effects)
  <2>1. edit \in [Windows -> 0 .. MaxGestures] /\ (\A w \in Windows : edit[w] # 0 => w \in Effects) /\ 0 \in 0 .. MaxGestures
    BY Types, UndoAssumption DEF IndInv, Typed
  <2>2. CASE UNCHANGED edit
    BY <2>1, <2>2
  <2>3. ASSUME NEW w \in Windows, edit' = [edit EXCEPT ![w] = 0]
        PROVE  edit' \in [Windows -> 0 .. MaxGestures] /\ (\A v \in Windows : edit'[v] # 0 => v \in Effects)
    BY <2>1, <2>3
  <2> QED BY <2>2, <2>3
<1>3. sequence' \in 0 .. MaxGestures
  BY Types DEF IndInv
<1> QED BY <1>1, <1>2, <1>3, GestureStep

LEMMA PassDeadlineInv == ASSUME IndInv, PassDeadline PROVE IndInv'
<1>0. Typed /\ undo.owner \in Windows /\ undo' = [undo EXCEPT !.late = TRUE] /\ None \notin Windows
  BY UndoAssumption DEF IndInv, PassDeadline
<1>1. batch.owner = None
  BY <1>0 DEF IndInv, BlocksWell
<1>2. undo' \in UndoType /\ undo'.owner = undo.owner /\ undo'.project = undo.project
  BY <1>0, Types DEF UndoType
<1>3. UNCHANGED <<reaper, block, refresh, seen, sequence, edit, batch, queue, doc, cleaning, closing, gone>>
  BY DEF PassDeadline, windows
<1>4. /\ block' \in BlockType /\ (undo'.owner = None <=> undo'.project = None)
      /\ Held(undo'.owner, undo'.project, block')
      /\ undo'.owner \in Windows => undo'.project = seen'.project
  BY <1>1, <1>2, <1>3, Ungestured
<1>5. /\ sequence' \in 0 .. MaxGestures /\ queue' \in [Consumers -> Seq(Requests)] /\ Guarded(queue')
      /\ edit' \in [Windows -> 0 .. MaxGestures] /\ (\A w \in Windows : edit'[w] # 0 => w \in Effects)
      /\ doc' \in [Windows -> 1 .. MaxDocuments]
      /\ cleaning' \subseteq Windows /\ closing' \subseteq Windows /\ gone' \subseteq Windows
  BY <1>0, <1>3, Types DEF Typed
<1> QED BY <1>1, <1>2, <1>3, <1>4, <1>5, GestureStep

LEMMA TickInv == ASSUME IndInv, Tick PROVE IndInv'
<1>0. /\ Typed /\ batch.owner = None /\ seen' = Observed.seen
      /\ UNCHANGED <<reaper, refresh, sequence, edit, batch, queue, doc, cleaning, closing, gone>>
  BY DEF IndInv, Tick, windows
<1>1. /\ Observed.block \in BlockType /\ Observed.undo \in UndoType
      /\ (Observed.undo.owner = None <=> Observed.undo.project = None)
      /\ Observed.undo.owner \in Windows => Observed.undo.project = Observed.seen.project
      /\ Held(Observed.undo.owner, Observed.undo.project, Observed.block)
  BY <1>0, ObservedWell
<1>2. /\ block' \in BlockType /\ undo' \in UndoType /\ (undo'.owner = None <=> undo'.project = None)
      /\ Held(undo'.owner, undo'.project, block')
      /\ undo'.owner \in Windows => undo'.project = seen'.project
  <2>1. CASE Observed.undo.late
    <3>1. undo' = NoUndo /\ block' = Finished(Observed.undo, Observed.block)
      BY <2>1 DEF Tick
    <3>2. Finished(Observed.undo, Observed.block) \in BlockType
          /\ Held(None, None, Finished(Observed.undo, Observed.block))
      BY <1>0, <1>1, FinishedHeld
    <3> QED BY <1>0, <3>1, <3>2, Ungestured
  <2>2. CASE ~Observed.undo.late
    <3>1. undo' = Observed.undo /\ block' = Observed.block
      BY <2>2 DEF Tick
    <3> QED BY <1>0, <1>1, <3>1
  <2> QED BY <2>1, <2>2
<1>3. /\ sequence' \in 0 .. MaxGestures /\ queue' \in [Consumers -> Seq(Requests)] /\ Guarded(queue')
      /\ edit' \in [Windows -> 0 .. MaxGestures] /\ (\A w \in Windows : edit'[w] # 0 => w \in Effects)
      /\ doc' \in [Windows -> 1 .. MaxDocuments]
      /\ cleaning' \subseteq Windows /\ closing' \subseteq Windows /\ gone' \subseteq Windows
  BY <1>0, Types DEF Typed
<1> QED BY <1>0, <1>2, <1>3, GestureStep

\* Native JSFX operations.
LEMMA NativeBeginInv == ASSUME IndInv, NativeBegin PROVE IndInv'
<1>0. /\ Typed /\ batch.owner = None /\ undo.owner = None
      /\ UNCHANGED <<reaper, refresh, seen, edit, batch, queue, doc, cleaning, closing, gone>>
      /\ Native \notin Windows /\ Native # None /\ None \notin Projects /\ MaxDocuments \in Nat
  BY UndoAssumption DEF IndInv, NativeBegin, windows
<1>1. current \in open /\ current \in Projects /\ open \subseteq Projects /\ sequence \in 0 .. MaxGestures
  BY <1>0, Types
<1>2. PICK b \in BlockType : b = Begun(block, current) /\ Held(Native, current, b)
  <2>1. block \in BlockType /\ Held(None, undo.project, block)
    BY <1>0, Ungestured
  <2> QED BY <1>0, <1>1, <2>1, BegunHeld
<1>3. block' = [b EXCEPT ![current].writers = @ \union {Native}]
  BY <1>2 DEF NativeBegin
<1>4. block' \in BlockType
  BY <1>1, <1>3 DEF BlockType
<1>5. Held(Native, current, block')
  <2>1. block'[current].depth = b[current].depth /\ block'[current].writers = b[current].writers \union {Native}
    BY <1>1, <1>3 DEF BlockType
  <2>2. \A p \in open : p # current => block'[p] = b[p]
    BY <1>1, <1>3 DEF BlockType
  <2> QED BY <1>0, <1>1, <1>2, <2>1, <2>2 DEF Held
<1>6. undo' = [owner |-> Native, project |-> current, doc |-> 0, late |-> FALSE]
      /\ sequence < MaxGestures /\ sequence' = sequence + 1
  BY DEF NativeBegin
<1>7. undo' \in UndoType /\ undo'.owner = Native /\ undo'.project = current
  BY <1>0, <1>1, <1>6 DEF UndoType, Owners
<1>8. /\ (undo'.owner = None <=> undo'.project = None)
      /\ Held(undo'.owner, undo'.project, block')
      /\ undo'.owner \in Windows => undo'.project = seen'.project
  BY <1>0, <1>1, <1>5, <1>7
<1>9. /\ sequence' \in 0 .. MaxGestures /\ queue' \in [Consumers -> Seq(Requests)] /\ Guarded(queue')
      /\ edit' \in [Windows -> 0 .. MaxGestures] /\ (\A w \in Windows : edit'[w] # 0 => w \in Effects)
      /\ doc' \in [Windows -> 1 .. MaxDocuments]
      /\ cleaning' \subseteq Windows /\ closing' \subseteq Windows /\ gone' \subseteq Windows
  <2>1. sequence' \in 0 .. MaxGestures
    BY <1>1, <1>6, UndoAssumption
  <2> QED BY <1>0, <2>1, Types DEF Typed
<1> QED BY <1>0, <1>4, <1>7, <1>8, <1>9, GestureStep

LEMMA NativeEndInv == ASSUME IndInv, NativeEnd PROVE IndInv'
<1>1. /\ batch.owner = None /\ UNCHANGED <<reaper, refresh, seen, sequence, edit, batch, queue, doc, cleaning, closing, gone>>
      /\ undo' = NoUndo /\ block' = Finished(undo, block)
  BY DEF NativeEnd, EndGesture, windows
<1>2. /\ queue' \in [Consumers -> Seq(Requests)] /\ Guarded(queue')
      /\ doc' \in [Windows -> 1 .. MaxDocuments]
      /\ cleaning' \subseteq Windows /\ closing' \subseteq Windows /\ gone' \subseteq Windows
  BY <1>1, Types DEF IndInv
<1> QED BY <1>1, <1>2, EndingStep

\* The ends of documents and of windows.
LEMMA NavigateInv == ASSUME IndInv, NEW w \in Windows, Navigate(w) PROVE IndInv'
<1>1. /\ batch.owner = None /\ UNCHANGED <<reaper, refresh, seen, sequence, batch, closing, gone>>
      /\ UNCHANGED <<undo, block>> \/ (undo' = NoUndo /\ block' = Finished(undo, block))
      /\ edit' = [edit EXCEPT ![w] = 0] /\ queue' = [queue EXCEPT ![w] = <<>>]
      /\ doc[w] < MaxDocuments /\ doc' = [doc EXCEPT ![w] = @ + 1] /\ cleaning' = cleaning \ {w}
  BY DEF Navigate, EndGestureOf, EndGesture
<1>2. queue' \in [Consumers -> Seq(Requests)] /\ Guarded(queue')
  BY <1>1, EmptyTyped DEF IndInv
<1>3. doc' \in [Windows -> 1 .. MaxDocuments]
  <2>1. doc \in [Windows -> 1 .. MaxDocuments] /\ MaxDocuments \in Nat
    BY Types, UndoAssumption DEF IndInv
  <2>2. doc[w] + 1 \in 1 .. MaxDocuments
    BY <1>1, <2>1
  <2> QED BY <1>1, <2>1, <2>2
<1>4. cleaning' \subseteq Windows /\ closing' \subseteq Windows /\ gone' \subseteq Windows
  BY <1>1, Types DEF IndInv
<1> QED BY <1>1, <1>2, <1>3, <1>4, EndingStep

LEMMA CloseInv == ASSUME IndInv, NEW w \in Windows, Close(w) PROVE IndInv'
<1>1. /\ batch.owner = None /\ UNCHANGED <<reaper, refresh, seen, sequence, edit, batch, queue, doc, gone>>
      /\ UNCHANGED <<undo, block>> \/ (undo' = NoUndo /\ block' = Finished(undo, block))
      /\ cleaning' \in {cleaning, cleaning \union {w}} /\ closing' \in {closing, closing \union {w}}
  BY DEF Close, EndGestureOf, EndGesture
<1>2. queue' \in [Consumers -> Seq(Requests)] /\ Guarded(queue') /\ doc' \in [Windows -> 1 .. MaxDocuments]
  BY <1>1, Types DEF IndInv
<1>3. cleaning' \subseteq Windows /\ closing' \subseteq Windows /\ gone' \subseteq Windows
  BY <1>1, Types DEF IndInv
<1> QED BY <1>1, <1>2, <1>3, EndingStep

LEMMA CleanedInv == ASSUME IndInv, NEW w \in Windows, Cleaned(w) PROVE IndInv'
<1>1. /\ batch.owner = None /\ UNCHANGED <<reaper, refresh, seen, sequence, edit, batch, queue, doc, gone>>
      /\ UNCHANGED <<undo, block>> \/ (undo' = NoUndo /\ block' = Finished(undo, block))
      /\ cleaning' = cleaning \ {w} /\ closing' = closing \union {w}
  BY DEF Cleaned, EndGestureOf, EndGesture
<1>2. queue' \in [Consumers -> Seq(Requests)] /\ Guarded(queue') /\ doc' \in [Windows -> 1 .. MaxDocuments]
  BY <1>1, Types DEF IndInv
<1>3. cleaning' \subseteq Windows /\ closing' \subseteq Windows /\ gone' \subseteq Windows
  BY <1>1, Types DEF IndInv
<1> QED BY <1>1, <1>2, <1>3, EndingStep

LEMMA FailInv == ASSUME IndInv, NEW w \in Windows, Fail(w) PROVE IndInv'
<1>1. /\ batch.owner = None /\ UNCHANGED <<reaper, refresh, seen, sequence, batch, queue, doc, gone>>
      /\ UNCHANGED <<undo, block>> \/ (undo' = NoUndo /\ block' = Finished(undo, block))
      /\ edit' = [edit EXCEPT ![w] = 0]
      /\ cleaning' = cleaning \ {w} /\ closing' = closing \union {w}
  BY DEF Fail, EndEditOf
<1>2. queue' \in [Consumers -> Seq(Requests)] /\ Guarded(queue') /\ doc' \in [Windows -> 1 .. MaxDocuments]
  BY <1>1, Types DEF IndInv
<1>3. cleaning' \subseteq Windows /\ closing' \subseteq Windows /\ gone' \subseteq Windows
  BY <1>1, Types DEF IndInv
<1> QED BY <1>1, <1>2, <1>3, EndingStep

LEMMA EraseInv == ASSUME IndInv, NEW w \in Windows, Erase(w) PROVE IndInv'
<1>1. /\ batch.owner = None /\ UNCHANGED <<reaper, refresh, seen, sequence, batch, doc, cleaning>>
      /\ UNCHANGED <<undo, block>> \/ (undo' = NoUndo /\ block' = Finished(undo, block))
      /\ edit' = [edit EXCEPT ![w] = 0] /\ queue' = [queue EXCEPT ![w] = <<>>]
      /\ closing' = closing \ {w} /\ gone' = gone \union {w}
  BY DEF Erase, EndGestureOf, EndGesture
<1>2. queue' \in [Consumers -> Seq(Requests)] /\ Guarded(queue')
  BY <1>1, EmptyTyped DEF IndInv
<1>3. doc' \in [Windows -> 1 .. MaxDocuments] /\ cleaning' \subseteq Windows /\ closing' \subseteq Windows /\ gone' \subseteq Windows
  BY <1>1, Types DEF IndInv
<1> QED BY <1>1, <1>2, <1>3, EndingStep

\* The parameter edits of an editor.
LEMMA BeginEditInv == ASSUME IndInv, NEW w \in Windows, BeginEdit(w) PROVE IndInv'
<1>0. /\ Typed /\ batch.owner = None /\ w \in Effects /\ sequence < MaxGestures
      /\ Observed.undo.owner = None /\ seen' = Observed.seen /\ block' = Begun(Observed.block, current)
      /\ undo' = [owner |-> w, project |-> current, doc |-> doc[w], late |-> FALSE]
      /\ sequence' = sequence + 1 /\ edit' = [edit EXCEPT ![w] = sequence']
      /\ UNCHANGED <<reaper, refresh, batch, queue, doc, cleaning, closing, gone>>
  BY DEF IndInv, BeginEdit, windows
<1>1. /\ current \in open /\ current \in Projects /\ doc[w] \in 1 .. MaxDocuments /\ sequence \in 0 .. MaxGestures
      /\ None \notin Windows /\ None \notin Projects /\ MaxGestures \in Nat /\ MaxDocuments \in Nat
  BY <1>0, Types, UndoAssumption
<1>2. sequence' \in 0 .. MaxGestures
  BY <1>0, <1>1
<1>3. /\ Observed.block \in BlockType /\ Held(None, Observed.undo.project, Observed.block)
      /\ Observed.seen.project = current
  BY <1>0, ObservedWell
<1>4. block' \in BlockType /\ Held(w, current, block')
  BY <1>0, <1>1, <1>3, BegunHeld
<1>5. undo' \in UndoType /\ undo'.owner = w /\ undo'.project = current
  <2>1. doc[w] \in 0 .. MaxDocuments
    BY <1>1
  <2> QED BY <1>0, <1>1, <2>1 DEF UndoType, Owners
<1>6. /\ undo'.owner = None <=> undo'.project = None
      /\ Held(undo'.owner, undo'.project, block')
      /\ undo'.owner \in Windows => undo'.project = seen'.project
  BY <1>0, <1>1, <1>3, <1>4, <1>5
<1>7. edit' \in [Windows -> 0 .. MaxGestures] /\ \A v \in Windows : edit'[v] # 0 => v \in Effects
  <2>1. edit \in [Windows -> 0 .. MaxGestures] /\ \A v \in Windows : edit[v] # 0 => v \in Effects
    BY <1>0, Types DEF Typed
  <2> QED BY <1>0, <1>2, <2>1
<1>8. /\ queue' \in [Consumers -> Seq(Requests)] /\ Guarded(queue') /\ doc' \in [Windows -> 1 .. MaxDocuments]
      /\ cleaning' \subseteq Windows /\ closing' \subseteq Windows /\ gone' \subseteq Windows
  BY <1>0, Types
<1> QED BY <1>0, <1>2, <1>4, <1>5, <1>6, <1>7, <1>8, GestureStep

LEMMA SetParamInv == ASSUME IndInv, NEW w \in Windows, SetParam(w) PROVE IndInv'
<1>0. /\ Typed /\ batch.owner = None /\ seen' = Observed.seen
      /\ undo' = IF Observed.undo.owner = w THEN [Observed.undo EXCEPT !.late = FALSE] ELSE Observed.undo
      /\ UNCHANGED <<reaper, refresh, sequence, edit, batch, queue, doc, cleaning, closing, gone>>
  BY DEF IndInv, SetParam, windows
<1>1. PICK p \in open : block' = Written(Observed.block, p, w)
  BY DEF SetParam
<1>2. w \in Effects /\ w \in Consumers
  BY DEF IndInv, Typed, SetParam, Consumers
<1>3. /\ Observed.block \in BlockType /\ Observed.undo \in UndoType
      /\ (Observed.undo.owner = None <=> Observed.undo.project = None)
      /\ Observed.undo.owner \in Windows => Observed.undo.project = Observed.seen.project
      /\ Held(Observed.undo.owner, Observed.undo.project, Observed.block)
  BY <1>0, ObservedWell
<1>4. block' \in BlockType /\ Held(Observed.undo.owner, Observed.undo.project, block')
  BY <1>0, <1>1, <1>2, <1>3, WrittenHeld
<1>5. undo' \in UndoType /\ undo'.owner = Observed.undo.owner /\ undo'.project = Observed.undo.project
  BY <1>0, <1>3 DEF UndoType
<1>6. /\ undo'.owner = None <=> undo'.project = None
      /\ Held(undo'.owner, undo'.project, block')
      /\ undo'.owner \in Windows => undo'.project = seen'.project
  BY <1>0, <1>3, <1>4, <1>5
<1>7. /\ sequence' \in 0 .. MaxGestures /\ queue' \in [Consumers -> Seq(Requests)] /\ Guarded(queue')
      /\ edit' \in [Windows -> 0 .. MaxGestures] /\ (\A v \in Windows : edit'[v] # 0 => v \in Effects)
      /\ doc' \in [Windows -> 1 .. MaxDocuments]
      /\ cleaning' \subseteq Windows /\ closing' \subseteq Windows /\ gone' \subseteq Windows
  BY <1>0, Types DEF Typed
<1> QED BY <1>0, <1>4, <1>5, <1>6, <1>7, GestureStep

LEMMA EndEditInv == ASSUME IndInv, NEW w \in Windows, EndEdit(w) PROVE IndInv'
<1>1. /\ batch.owner = None /\ UNCHANGED <<reaper, refresh, seen, sequence, batch, queue, doc, cleaning, closing, gone>>
      /\ UNCHANGED <<undo, block>> \/ (undo' = NoUndo /\ block' = Finished(undo, block))
      /\ edit' = [edit EXCEPT ![w] = 0]
  BY DEF EndEdit, EndEditOf, windows
<1>2. /\ queue' \in [Consumers -> Seq(Requests)] /\ Guarded(queue') /\ doc' \in [Windows -> 1 .. MaxDocuments]
      /\ cleaning' \subseteq Windows /\ closing' \subseteq Windows /\ gone' \subseteq Windows
  BY <1>1, Types DEF IndInv
<1> QED BY <1>1, <1>2, EndingStep

\* Every step of the program preserves the invariant.
LEMMA NextInv == IndInv /\ [Next]_vars => IndInv'
<1> SUFFICES ASSUME IndInv, [Next]_vars PROVE IndInv'
  OBVIOUS
<1>1. CASE UNCHANGED vars
  <2>1. UNCHANGED <<current, loads, open, changes, block, refresh, seen, undo, sequence, edit, batch, queue, doc, cleaning, closing, gone>>
    BY <1>1 DEF vars, reaper, windows
  <2> QED BY <2>1 DEF IndInv, Typed, TypeOK, Guarded, BlocksWell, Held, Placed, EpochWell, Stale
<1>2. ASSUME NEW c \in Consumers, Arrive(c) \/ Dispatch(c) PROVE IndInv'
  BY <1>2, ArriveInv, DispatchInv
<1>3. ASSUME NEW w \in Windows, Navigate(w) \/ Close(w) \/ Cleaned(w) \/ Fail(w) \/ Erase(w) PROVE IndInv'
  BY <1>3, NavigateInv, CloseInv, CleanedInv, FailInv, EraseInv
<1>4. ASSUME NEW w \in Windows, BeginEdit(w) \/ SetParam(w) \/ EndEdit(w) PROVE IndInv'
  BY <1>4, BeginEditInv, SetParamInv, EndEditInv
<1>5. CASE ChangeProject \/ BatchCall \/ FinishBatch \/ PassDeadline \/ Tick \/ NativeBegin \/ NativeEnd
  BY <1>5, ChangeProjectInv, BatchCallInv, FinishBatchInv, PassDeadlineInv, TickInv, NativeBeginInv, NativeEndInv
<1> QED BY <1>1, <1>2, <1>3, <1>4, <1>5 DEF Next

-----------------------------------------------------------------------------
(* The theorems.                                                            *)

\* Every variable keeps its type: the runtime never has a gesture without a project, or
\* a batch in none.
THEOREM UndoTypes == Spec => []TypeOK
<1>1. IndInv => TypeOK
  BY DEF IndInv, Typed
<1> QED BY InitInv, NextInv, <1>1, PTL DEF Spec

\* Every open project has a block exactly while someone holds one there.
LEMMA WellPaired == IndInv => BlocksPaired
<1> SUFFICES ASSUME IndInv, NEW p \in open PROVE block[p].depth = Cardinality(Holders(p))
  BY DEF BlocksPaired
<1>1. PICK by, on : Held(by, on, block) /\ Holders(p) = IF by # None /\ p = on THEN {by} ELSE {}
  <2>1. CASE batch.owner = None
    BY <2>1 DEF IndInv, BlocksWell, Holders
  <2>2. CASE batch.owner # None
    BY <2>2 DEF IndInv, BlocksWell, Holders
  <2> QED BY <2>1, <2>2
<1>2. CASE by # None /\ p = on
  <2>1. block[p].depth = 1 /\ Holders(p) = {by}
    BY <1>1, <1>2 DEF Held
  <2> QED BY <2>1, FS_Singleton
<1>3. CASE ~(by # None /\ p = on)
  <2>1. block[p] = NoBlock /\ Holders(p) = {}
    BY <1>1, <1>3 DEF Held
  <2> QED BY <2>1, FS_EmptySet DEF NoBlock
<1> QED BY <1>2, <1>3

\* Nobody but its holder has written into a block, the pages of JSFX editors excepted.
LEMMA WellWritten == IndInv => OneWriter
<1> SUFFICES ASSUME IndInv, NEW p \in open PROVE block[p].writers \ Effects \subseteq Holders(p)
  BY DEF OneWriter
<1>1. NoBlock.writers = {}
  BY DEF NoBlock
<1>2. CASE batch.owner = None
  BY <1>1, <1>2 DEF IndInv, BlocksWell, Held, Holders
<1>3. CASE batch.owner # None
  BY <1>1, <1>3 DEF IndInv, BlocksWell, Held, Holders
<1> QED BY <1>2, <1>3

\* Whatever projects, windows, pages and clients do, every Undo block is closed once, on
\* the project it was opened on, the refresh lock is given back, and nobody but the
\* holder of a block writes into it, the pages of JSFX editors excepted.
THEOREM UndoBlocksOwned == Spec => []BlocksOwned
<1>1. IndInv => BlocksOwned
  <2>1. IndInv => (batch.owner = None => refresh = 0)
    BY DEF IndInv, Placed
  <2> QED BY <2>1, WellPaired, WellWritten DEF BlocksOwned
<1> QED BY InitInv, NextInv, <1>1, PTL DEF Spec

\* While a gesture of a window is open and on time, and the project is the one the
\* runtime saw, only the five causes that EndsForCause lists take it away.
THEOREM UndoEndsForCause == Spec => EndsForCause
<1> DEFINE Early == (undo.owner \in Windows /\ (undo'.owner # undo.owner \/ sequence' # sequence)
                       /\ ~undo.late /\ ~Stale)
           Cause == LET w == undo.owner
                    IN \/ doc'[w] # doc[w] \/ w \in cleaning' \union closing' \union gone' \/ edit'[w] # edit[w]
                       \/ /\ queue[w] # <<>> /\ queue'[w] = Tail(queue[w])
                          /\ Head(queue[w]).kind = "end" /\ Head(queue[w]).token = sequence
<1>1. IndInv /\ [Next]_vars => [Early => Cause]_vars
  <2> SUFFICES ASSUME IndInv, [Next]_vars, Early PROVE Cause
    OBVIOUS
  <2>0. /\ undo.owner \in Windows /\ ~undo.late /\ ~Stale /\ undo.owner # None /\ undo.owner # Native
        /\ batch.owner = None /\ (undo'.owner # undo.owner \/ sequence' # sequence)
    BY UndoAssumption DEF IndInv, BlocksWell
  <2>1. Observed.undo = undo /\ Observed.block = block
    BY <2>0, ObservedWell
  <2>2. ~(UNCHANGED <<undo, sequence>>)
    BY <2>0
  <2>3. ASSUME NEW c \in Consumers, Dispatch(c) PROVE Cause
    <3>1. /\ queue[c] # <<>> /\ queue' = [queue EXCEPT ![c] = Tail(@)]
          /\ \/ Refuse(Observed)
             \/ Ends(Observed, c, Head(queue[c])) /\ Head(queue[c]).kind = "end"
             \/ Admitted(Observed, c, Head(queue[c])) /\ Head(queue[c]).kind \in {"begin", "batch"}
             \/ Call(Observed, c)
      BY <2>3 DEF Dispatch
    <3>2. ~Refuse(Observed) /\ ~Call(Observed, c)
      BY <2>1, <2>2 DEF Refuse, Call
    <3>3. ~(Admitted(Observed, c, Head(queue[c])) /\ Head(queue[c]).kind \in {"begin", "batch"})
      BY <2>0, <2>1 DEF Admitted, Busy
    <3>4. c = undo.owner /\ Head(queue[c]).token = sequence /\ Head(queue[c]).kind = "end"
      BY <2>1, <3>1, <3>2, <3>3 DEF Ends
    <3>5. queue'[c] = Tail(queue[c])
      BY <2>3, <3>1, TailTyped DEF IndInv
    <3> QED BY <3>1, <3>4, <3>5
  <2>4. ASSUME NEW w \in Windows, Navigate(w) PROVE Cause
    <3>1. undo.owner = w
      BY <2>2, <2>4 DEF Navigate, EndGestureOf
    <3>2. doc[w] \in Nat /\ doc' = [doc EXCEPT ![w] = doc[w] + 1] /\ doc \in [Windows -> 1 .. MaxDocuments]
      BY <2>4, Types DEF IndInv, Navigate
    <3>3. doc'[w] # doc[w]
      BY <3>2
    <3> QED BY <3>1, <3>3
  <2>5. ASSUME NEW w \in Windows, Close(w) \/ Cleaned(w) \/ Fail(w) \/ Erase(w) PROVE Cause
    <3>1. undo.owner = w
      BY <2>2, <2>5 DEF Close, Cleaned, Fail, Erase, EndGestureOf, EndEditOf
    <3>2. w \in cleaning' \union closing' \union gone'
      BY <2>5 DEF Close, Cleaned, Fail, Erase
    <3> QED BY <3>1, <3>2
  <2>6. ASSUME NEW w \in Windows, EndEdit(w) PROVE Cause
    <3>1. undo.owner = w /\ edit[w] # 0
      BY <2>2, <2>6 DEF EndEdit, EndEditOf
    <3>2. edit'[w] = 0
      BY <2>6, Types DEF IndInv, EndEdit
    <3> QED BY <3>1, <3>2
  <2>7. ASSUME NEW w \in Windows, BeginEdit(w) \/ SetParam(w) PROVE FALSE
    <3>1. ~BeginEdit(w)
      BY <2>0, <2>1 DEF BeginEdit
    <3>2. CASE SetParam(w)
      <4>1. UNCHANGED sequence /\ (undo' = undo \/ undo' = [undo EXCEPT !.late = FALSE])
        BY <2>1, <3>2 DEF SetParam
      <4>2. undo \in UndoType
        BY Types DEF IndInv
      <4>3. undo'.owner = undo.owner
        BY <4>1, <4>2 DEF UndoType
      <4> QED BY <2>0, <4>1, <4>3
    <3> QED BY <2>7, <3>1, <3>2
  <2>8. ~PassDeadline
    <3>1. ASSUME PassDeadline PROVE undo'.owner = undo.owner /\ UNCHANGED sequence
      BY <3>1, Types DEF IndInv, PassDeadline, UndoType
    <3> QED BY <2>0, <3>1
  <2>9. ~Tick
    BY <2>0, <2>1, <2>2 DEF Tick
  <2>10. ~(BatchCall \/ FinishBatch \/ NativeBegin \/ NativeEnd)
    BY <2>0 DEF BatchCall, FinishBatch, NativeBegin, NativeEnd
  <2>11. ~(ChangeProject \/ \E c \in Consumers : Arrive(c))
    BY <2>2 DEF ChangeProject, Arrive
  <2>12. ~(UNCHANGED vars)
    BY <2>2 DEF vars
  <2> QED BY <2>3, <2>4, <2>5, <2>6, <2>7, <2>8, <2>9, <2>10, <2>11, <2>12 DEF Next
<1> QED BY InitInv, NextInv, <1>1, PTL DEF Spec, EndsForCause
=============================================================================
