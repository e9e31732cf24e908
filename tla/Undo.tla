----------------------------- MODULE Undo -----------------------------
(***************************************************************************)
(* The managed Undo gesture, and the batch (transaction.cpp, batch.cpp,    *)
(* observe() in events.cpp, the gates of dispatch_requests() in            *)
(* runtime.cpp and of dispatch_external() in external_client.cpp).         *)
(*                                                                         *)
(* A gesture is a REAPER Undo block that one window keeps open across      *)
(* several requests.  Other windows and external clients are refused while *)
(* it lasts, and it has to be closed whatever becomes of its window, its   *)
(* page and its project.  Everything below runs on REAPER's main thread,   *)
(* but the user switches, loads and closes projects between any two steps, *)
(* and the runtime only learns of it when it next looks.  A native JSFX    *)
(* operation may also own a gesture, and the page of a JSFX editor opens   *)
(* one for its edits of parameters (jsfx_runtime.cpp).                     *)
(***************************************************************************)
EXTENDS Naturals, Sequences, FiniteSets

CONSTANTS
  Windows,       \* the windows whose pages call the host
  External,      \* the external clients
  Native,        \* the owner of a gesture of a native JSFX operation
  Effects,       \* the windows that are editors of JSFX effects
  None,          \* nobody, no project
  Projects,      \* the project tabs open at first
  MaxChanges,    \* bound on the switches, loads and closes of projects
  MaxGestures,   \* bound on undo_sequence_
  MaxDocuments,  \* bound on the documents of one window
  QueueLimit,    \* bound on the requests that wait in all queues together
  BatchCalls     \* bound on the calls of a batch (batch_limit)

ASSUME UndoAssumption ==
  /\ Effects \subseteq Windows
  /\ None \notin Windows \union External \union {Native} \union Projects
  /\ Native \notin Windows
  /\ MaxChanges \in Nat /\ MaxGestures \in Nat /\ MaxDocuments \in Nat \ {0} /\ BatchCalls \in Nat

Consumers == Windows \union External
Owners == Windows \union {Native, None}

VARIABLES
  current, loads, open, \* REAPER: the current project, its load count, the tabs
  block,      \* REAPER: Undo blocks open on each project, and who wrote into them
  refresh,    \* REAPER: depth of the refresh lock
  changes,    \* the changes of project so far
  seen,       \* project_, host_generation_ and project_epoch_
  undo,       \* undo_owner_, undo_project_, the document and the passed deadline
  sequence,   \* undo_sequence_: the token of the last gesture
  edit,       \* ui.undo: the token of the parameter edit of each window, 0 for none
  batch,      \* the batch under way
  queue,      \* requests of each consumer that the worker has delivered
  doc,        \* the current document of each window
  cleaning,   \* windows whose close waits for the page's cleanup
  closing,    \* windows that are closing
  gone        \* windows that were erased

reaper == <<current, loads, open, changes>>
windows == <<doc, cleaning, closing, gone>>
vars == <<reaper, block, refresh, seen, undo, sequence, edit, batch, queue, windows>>

NoUndo == [owner |-> None, project |-> None, doc |-> 0, late |-> FALSE]
NoBatch == [owner |-> None, project |-> None, label |-> FALSE, left |-> 0]
NoBlock == [depth |-> 0, writers |-> {}]

\* Requests: begin and end a gesture, a batch, and an API call that a gesture supports.
\* Other calls are refused during a gesture, and change nothing of this model outside.
Kinds == {"begin", "end", "batch", "call"}
Requests == [kind : Kinds, epoch : 1 .. MaxChanges + 1, doc : 0 .. MaxDocuments, token : 0 .. MaxGestures]

Init ==
  /\ current \in Projects /\ loads = 0 /\ open = Projects /\ changes = 0
  /\ block = [p \in Projects |-> NoBlock] /\ refresh = 0
  /\ seen = [project |-> current, loads |-> 0, epoch |-> 1]
  /\ undo = NoUndo /\ sequence = 0 /\ batch = NoBatch /\ edit = [w \in Windows |-> 0]
  /\ queue = [c \in Consumers |-> <<>>]
  /\ doc = [w \in Windows |-> 1] /\ cleaning = {} /\ closing = {} /\ gone = {}

-----------------------------------------------------------------------------
(* REAPER's Undo blocks, as the runtime uses them. *)

Begun(b, p) == [b EXCEPT ![p].depth = @ + 1]
Ended(b, p) == [b EXCEPT ![p] = IF @.depth = 1 THEN NoBlock ELSE [@ EXCEPT !.depth = @ - 1]]
Written(b, p, c) == IF b[p].depth = 0 THEN b ELSE [b EXCEPT ![p].writers = @ \union {c}]

\* What finish_undo() leaves of the blocks: a project that was closed took its own along.
Finished(u, b) == IF u.owner # None /\ u.project \in open THEN Ended(b, u.project) ELSE b

Stale == current # seen.project \/ loads # seen.loads

\* Mutant: the gesture is dropped when the project changes, its block is left open.
ObservedDrops ==
  IF Stale
  THEN [undo |-> NoUndo, block |-> block,
        seen |-> [project |-> current, loads |-> loads, epoch |-> seen.epoch + 1]]
  ELSE [undo |-> undo, block |-> block, seen |-> seen]

\* observe(): a switch or load since the last look ends the gesture and starts an epoch.
Observed ==
  IF Stale
  THEN [undo |-> NoUndo, block |-> Finished(undo, block),
        seen |-> [project |-> current, loads |-> loads, epoch |-> seen.epoch + 1]]
  ELSE [undo |-> undo, block |-> block, seen |-> seen]

EndGesture == undo' = NoUndo /\ block' = Finished(undo, block)
EndGestureOf(w) == IF undo.owner = w THEN EndGesture ELSE UNCHANGED <<undo, block>>

\* end_jsfx_edit(): an edit that was begun ends whatever gesture its window owns by now.
EndEditOf(w, now) ==
  IF edit[w] # 0 /\ now.undo.owner = w
  THEN undo' = NoUndo /\ block' = Finished(now.undo, now.block)
  ELSE undo' = now.undo /\ block' = now.block

-----------------------------------------------------------------------------
(* The user changes projects. *)

Switch(p) ==
  /\ p \in open \ {current}
  /\ current' = p /\ UNCHANGED <<loads, open, block>>

\* Another project is loaded into a tab, or the tab is reloaded.
Load(p) ==
  /\ p \in open
  /\ current' = p /\ loads' = loads + 1 /\ UNCHANGED <<open, block>>

CloseTab(p) ==
  /\ p \in open /\ open # {p} /\ batch.owner = None
  /\ open' = open \ {p}
  /\ IF current = p THEN current' \in open' ELSE UNCHANGED current
  /\ block' = [block EXCEPT ![p] = NoBlock]
  /\ UNCHANGED loads

ChangeProject ==
  /\ changes < MaxChanges /\ changes' = changes + 1
  /\ \E p \in Projects : Switch(p) \/ Load(p) \/ CloseTab(p)
  /\ UNCHANGED <<refresh, seen, undo, sequence, edit, batch, queue, windows>>

-----------------------------------------------------------------------------
(* Requests. *)

Alive(c) == c \notin closing \union gone

Waiting == UNION {{c} \X DOMAIN queue[c] : c \in Consumers}

\* The runtime takes a request from the worker, or from a connection.
Arrive(c) ==
  /\ Alive(c) /\ Cardinality(Waiting) < QueueLimit
  /\ \E r \in Requests :
       /\ r.epoch = seen.epoch
       /\ r.doc = IF c \in Windows THEN doc[c] ELSE 0
       /\ r.kind = "end" => r.token \in 1 .. sequence
       /\ r.kind # "end" => r.token = 0
       /\ c \in External => r.kind \in {"batch", "call"}
       /\ queue' = [queue EXCEPT ![c] = Append(@, r)]
  /\ UNCHANGED <<reaper, block, refresh, seen, undo, sequence, edit, batch, windows>>

\* UNDO_BUSY: while a gesture lasts only its owner calls, and only what a batch supports.
Busy(u, c, r) ==
  /\ u.owner # None
  /\ \/ c \in External
     \/ r.kind \in {"begin", "batch"}
     \/ r.kind = "call" /\ u.owner # c

\* A request that passes the checks of the document, the project and the gesture.
Admitted(now, c, r) ==
  /\ c \in Windows => r.doc = doc[c]
  /\ r.kind # "end" => r.epoch = now.seen.epoch
  /\ ~Busy(now.undo, c, r)

\* The request is refused, or fails before it does anything.
Refuse(now) ==
  /\ undo' = now.undo /\ block' = now.block
  /\ UNCHANGED <<refresh, sequence, batch>>

BeginUndo(now, c) ==
  /\ sequence < MaxGestures
  /\ block' = Begun(now.block, current)
  /\ undo' = [owner |-> c, project |-> current, doc |-> doc[c], late |-> FALSE]
  /\ sequence' = sequence + 1
  /\ UNCHANGED <<refresh, batch>>

\* Mutant: any token of the owner ends its gesture.
EndsOwn(now, c, r) == now.undo.owner = c

\* The token is that of the gesture that is open, and its owner asks.
Ends(now, c, r) == now.undo.owner = c /\ r.token = sequence

EndUndo(now) ==
  /\ undo' = NoUndo /\ block' = Finished(now.undo, now.block)
  /\ UNCHANGED <<refresh, sequence, batch>>

\* A supported call writes to any project through the handles it holds, but inside a
\* gesture only to the current one.
Call(now, c) ==
  /\ \E p \in open :
       /\ now.undo.owner # None => p = current
       /\ block' = Written(now.block, p, c)
  /\ undo' = now.undo
  /\ UNCHANGED <<refresh, sequence, batch>>

BeginBatch(now, c) ==
  /\ \E label \in BOOLEAN :
       /\ batch' = [owner |-> c, project |-> current, label |-> label, left |-> BatchCalls]
       /\ block' = IF label THEN Begun(now.block, current) ELSE now.block
  /\ refresh' = refresh + 1
  /\ undo' = now.undo
  /\ UNCHANGED sequence

\* One request of dispatch_requests() or dispatch_external(), after a look at the project.
Dispatch(c) ==
  /\ batch.owner = None /\ Alive(c) /\ queue[c] # <<>>
  /\ queue' = [queue EXCEPT ![c] = Tail(@)]
  /\ LET now == Observed
         r == Head(queue[c])
     IN /\ seen' = now.seen
        /\ \/ Refuse(now)
           \/ Admitted(now, c, r) /\ r.kind = "end" /\ Ends(now, c, r) /\ EndUndo(now)
           \/ /\ Admitted(now, c, r)
              /\ \/ r.kind = "begin" /\ BeginUndo(now, c)
                 \/ r.kind = "call" /\ Call(now, c)
                 \/ r.kind = "batch" /\ BeginBatch(now, c)
  /\ UNCHANGED <<reaper, edit, windows>>

\* One call of the batch.  It only goes on in the project the batch began in.
BatchCall ==
  /\ batch.owner # None /\ batch.left > 0 /\ current = batch.project
  /\ batch' = [batch EXCEPT !.left = @ - 1]
  /\ block' = Written(block, batch.project, batch.owner)
  /\ UNCHANGED <<reaper, refresh, seen, undo, sequence, edit, queue, windows>>

\* The batch is through, or one of its calls failed, or the project changed.
FinishBatch ==
  /\ batch.owner # None
  /\ batch' = NoBatch /\ refresh' = refresh - 1
  /\ block' = IF batch.label THEN Ended(block, batch.project) ELSE block
  /\ UNCHANGED <<reaper, seen, undo, sequence, edit, queue, windows>>

-----------------------------------------------------------------------------
(* The runtime's tick, native JSFX operations and the ends of windows. *)

\* Thirty seconds have passed since the gesture of a window began.
PassDeadline ==
  /\ undo.owner \in Windows /\ ~undo.late
  /\ undo' = [undo EXCEPT !.late = TRUE]
  /\ UNCHANGED <<reaper, block, refresh, seen, sequence, edit, batch, queue, windows>>

\* Mutant: a tick looks at the project only.
TickWithoutDeadline ==
  /\ batch.owner = None
  /\ undo' = Observed.undo /\ block' = Observed.block /\ seen' = Observed.seen
  /\ UNCHANGED <<reaper, refresh, sequence, edit, batch, queue, windows>>

\* A tick looks at the project, then at the deadline.
Tick ==
  /\ batch.owner = None
  /\ LET now == Observed
     IN /\ seen' = now.seen
        /\ IF now.undo.late
           THEN undo' = NoUndo /\ block' = Finished(now.undo, now.block)
           ELSE undo' = now.undo /\ block' = now.block
  /\ UNCHANGED <<reaper, refresh, sequence, edit, batch, queue, windows>>

\* A native operation opens a gesture on REAPER's current project, before the tick looks.
NativeBegin ==
  /\ batch.owner = None /\ undo.owner = None /\ sequence < MaxGestures
  /\ block' = [Begun(block, current) EXCEPT ![current].writers = @ \union {Native}]
  /\ undo' = [owner |-> Native, project |-> current, doc |-> 0, late |-> FALSE]
  /\ sequence' = sequence + 1
  /\ UNCHANGED <<reaper, refresh, seen, edit, batch, queue, windows>>

NativeEnd ==
  /\ batch.owner = None /\ undo.owner = Native /\ EndGesture
  /\ UNCHANGED <<reaper, refresh, seen, sequence, edit, batch, queue, windows>>

\* A new document: the gesture, the requests and the cleanup of the old one end.
Navigate(w) ==
  /\ batch.owner = None /\ w \notin gone /\ doc[w] < MaxDocuments
  /\ EndGestureOf(w) /\ edit' = [edit EXCEPT ![w] = 0]
  /\ doc' = [doc EXCEPT ![w] = @ + 1] /\ cleaning' = cleaning \ {w}
  /\ queue' = [queue EXCEPT ![w] = <<>>]
  /\ UNCHANGED <<reaper, refresh, seen, sequence, batch, closing, gone>>

\* Runtime::close(): the gesture ends at once, the window perhaps after a cleanup.
Close(w) ==
  /\ batch.owner = None /\ w \notin gone
  /\ EndGestureOf(w)
  /\ \/ w \notin closing /\ cleaning' = cleaning \union {w} /\ UNCHANGED closing
     \/ w \notin cleaning /\ closing' = closing \union {w} /\ UNCHANGED cleaning
  /\ UNCHANGED <<reaper, refresh, seen, sequence, edit, batch, queue, doc, gone>>

\* The cleanup is over.  The page may have begun another gesture meanwhile.
Cleaned(w) ==
  /\ batch.owner = None /\ w \in cleaning
  /\ EndGestureOf(w)
  /\ cleaning' = cleaning \ {w} /\ closing' = closing \union {w}
  /\ UNCHANGED <<reaper, refresh, seen, sequence, edit, batch, queue, doc, gone>>

\* fail(), or the native window has gone: an edit of parameters ends its gesture, any
\* other gesture waits for Erase.
Fail(w) ==
  /\ batch.owner = None /\ w \notin closing \union gone
  /\ EndEditOf(w, [undo |-> undo, block |-> block]) /\ edit' = [edit EXCEPT ![w] = 0]
  /\ closing' = closing \union {w} /\ cleaning' = cleaning \ {w}
  /\ UNCHANGED <<reaper, refresh, seen, sequence, batch, queue, doc, gone>>

Erase(w) ==
  /\ batch.owner = None /\ w \in closing
  /\ EndGestureOf(w) /\ edit' = [edit EXCEPT ![w] = 0]
  /\ closing' = closing \ {w} /\ gone' = gone \union {w}
  /\ queue' = [queue EXCEPT ![w] = <<>>]
  /\ UNCHANGED <<reaper, refresh, seen, sequence, batch, doc, cleaning>>

-----------------------------------------------------------------------------
(* The parameters a JSFX page edits.  Its requests are service calls, which pass the  *)
(* gate on gestures; the documents and the projects they belong to are left out.       *)

\* beginParamEdit: another gesture refuses it.
BeginEdit(w) ==
  /\ batch.owner = None /\ w \in Effects /\ Alive(w) /\ edit[w] = 0 /\ sequence < MaxGestures
  /\ LET now == Observed
     IN /\ now.undo.owner = None
        /\ seen' = now.seen
        /\ block' = Begun(now.block, current)
        /\ undo' = [owner |-> w, project |-> current, doc |-> doc[w], late |-> FALSE]
  /\ sequence' = sequence + 1 /\ edit' = [edit EXCEPT ![w] = sequence']
  /\ UNCHANGED <<reaper, refresh, batch, queue, windows>>

\* setParam writes into the project of its effect, whoever owns the gesture by now, and
\* puts the deadline of a gesture of its own window off.
SetParam(w) ==
  /\ batch.owner = None /\ Alive(w) /\ edit[w] # 0
  /\ LET now == Observed
     IN /\ seen' = now.seen
        /\ \E p \in open : block' = Written(now.block, p, w)
        /\ undo' = IF now.undo.owner = w THEN [now.undo EXCEPT !.late = FALSE] ELSE now.undo
  /\ UNCHANGED <<reaper, refresh, sequence, edit, batch, queue, windows>>

\* The page ends the edit, or it is thirty seconds old, or the editor is parked, switched
\* or given another session.
EndEdit(w) ==
  /\ batch.owner = None /\ w \notin gone /\ edit[w] # 0
  /\ seen' = seen /\ EndEditOf(w, [undo |-> undo, block |-> block])
  /\ edit' = [edit EXCEPT ![w] = 0]
  /\ UNCHANGED <<reaper, refresh, sequence, batch, queue, windows>>

-----------------------------------------------------------------------------
Next ==
  \/ ChangeProject
  \/ \E c \in Consumers : Arrive(c) \/ Dispatch(c)
  \/ BatchCall \/ FinishBatch
  \/ PassDeadline \/ Tick \/ NativeBegin \/ NativeEnd
  \/ \E w \in Windows : Navigate(w) \/ Close(w) \/ Cleaned(w) \/ Fail(w) \/ Erase(w)
  \/ \E w \in Windows : BeginEdit(w) \/ SetParam(w) \/ EndEdit(w)

Spec == Init /\ [][Next]_vars

\* The clock goes on and REAPER runs the extension timer; a batch is a single call of it.
Fairness == WF_vars(PassDeadline) /\ WF_vars(Tick) /\ WF_vars(FinishBatch)

FairSpec == Spec /\ Fairness

-----------------------------------------------------------------------------
(* Properties. *)

TypeOK ==
  /\ current \in open /\ open \subseteq Projects
  /\ loads \in 0 .. MaxChanges /\ changes \in 0 .. MaxChanges
  /\ block \in [Projects -> [depth : Nat, writers : SUBSET (Consumers \union {Native})]]
  /\ refresh \in 0 .. 1
  /\ seen \in [project : Projects, loads : 0 .. MaxChanges, epoch : 1 .. MaxChanges + 1]
  /\ undo \in [owner : Owners, project : Projects \union {None}, doc : 0 .. MaxDocuments, late : BOOLEAN]
  /\ undo.owner = None <=> undo.project = None
  /\ sequence \in 0 .. MaxGestures
  /\ batch \in [owner : Consumers \union {None}, project : Projects \union {None}, label : BOOLEAN, left : 0 .. BatchCalls]
  /\ batch.owner = None <=> batch.project = None
  /\ \A c \in Consumers : \A i \in DOMAIN queue[c] : queue[c][i] \in Requests
  /\ doc \in [Windows -> 1 .. MaxDocuments]
  /\ cleaning \subseteq Windows /\ closing \subseteq Windows /\ gone \subseteq Windows

\* Who holds an Undo block open on project p.
Holders(p) ==
  (IF undo.owner # None /\ undo.project = p THEN {undo.owner} ELSE {})
    \union (IF batch.owner # None /\ batch.label /\ batch.project = p THEN {batch.owner} ELSE {})

\* Every Undo block the runtime opens it closes again, on the project it opened it on
\* and once, however the gesture or the batch ends: an open project has a block exactly
\* while a gesture or a labelled batch holds one there.
BlocksPaired == \A p \in open : block[p].depth = Cardinality(Holders(p))

\* One gesture can be active across all windows: nobody but its owner writes into an
\* open Undo block through the runtime, the pages of JSFX editors excepted.
OneWriter == \A p \in open : block[p].writers \ Effects \subseteq Holders(p)

\* Undo blocks are closed once and where they were opened, only their owner writes, but
\* for the edits of parameters, which no gesture holds up, and the refresh lock of a
\* batch is given back.
BlocksOwned == BlocksPaired /\ OneWriter /\ (batch.owner = None => refresh = 0)

\* The gesture of a window nobody closes ends before its deadline only when the project
\* changes, when the document goes, with a parameter edit of its own window or by its
\* very own token; never by an earlier one.
EndsForCause ==
  [][(undo.owner \in Windows /\ (undo'.owner # undo.owner \/ sequence' # sequence)
        /\ ~undo.late /\ ~Stale)
     => LET w == undo.owner
        IN \/ doc'[w] # doc[w] \/ w \in cleaning' \union closing' \union gone' \/ edit'[w] # edit[w]
           \/ /\ queue[w] # <<>> /\ queue'[w] = Tail(queue[w])
              /\ Head(queue[w]).kind = "end" /\ Head(queue[w]).token = sequence]_vars

\* Every gesture of a window ends, also when its page never ends it.
GestureEnds == (undo.owner \in Windows) ~> (undo.owner \notin Windows)
=============================================================================
