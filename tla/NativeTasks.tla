----------------------------- MODULE NativeTasks -----------------------------
(***************************************************************************)
(* Timers and file watches (NativeTasks in native_tasks.cpp).              *)
(*                                                                         *)
(* Timers belong to the main thread; the callback of one may cancel others *)
(* while a tick goes through those that are due.  Watches are shared with  *)
(* a thread that looks at the files outside the lock and queues what it    *)
(* finds under it.  The queue takes changes up to a limit and, beyond it,  *)
(* one notice of overflow for each watch.  What has changed in a directory *)
(* is the number of changes a scan finds.                                  *)
(***************************************************************************)
EXTENDS Naturals, Sequences, FiniteSets, SequenceFilter

CONSTANTS
  Windows,      \* windows, which own watches and timers
  Owners,       \* native services, which own timers
  MaxIds,       \* bound on sequence_, the numbers of watches and timers
  WatchLimit,   \* active watches (8)
  TimerLimit,   \* active timers (256)
  ChangeLimit,  \* queued events beyond which a change is not queued (248)
  EventLimit,   \* queued events beyond which nothing is queued, and events of one tick (256)
  MaxFound      \* bound on the changes one scan finds

VARIABLES
  sequence,  \* sequence_
  watches,   \* watches_: the active watches
  windowOf,  \* the window of each number that was given to a watch
  timers,    \* timers_
  events,    \* events_
  todo,      \* watches the thread has still to scan, of those it copied
  found,     \* the watch it has scanned, and how many changes it found
  due,       \* timers the tick has still to look at
  output,    \* the number of events the tick will return
  lost       \* history: watches with a change that was not queued and no notice taken since

vars == <<sequence, watches, windowOf, timers, events, todo, found, due, output, lost>>

Ids == 1 .. MaxIds
NoFind == [id |-> 0, changes |-> 0]
NoTick == <<>>

Init ==
  /\ sequence = 0 /\ watches = {} /\ windowOf = [i \in Ids |-> 0] /\ timers = {} /\ events = <<>>
  /\ todo = {} /\ found = NoFind /\ due = NoTick /\ output = 0 /\ lost = {}

Idle == due = NoTick  \* the main thread is outside tick()
Notice(q, id) == \E i \in DOMAIN q : q[i].id = id /\ q[i].overflow
Without(q, ids) == Among(q, {q[i] : i \in {j \in DOMAIN q : q[j].id \notin ids}})
NewId == sequence < MaxIds /\ sequence' = sequence + 1

-----------------------------------------------------------------------------
(* Watches. *)

\* Mutant: one watch too many.
HasRoomForOneMore == Cardinality(watches) <= WatchLimit

HasRoom == Cardinality(watches) < WatchLimit

Watch(w) ==
  /\ Idle /\ HasRoom /\ NewId
  /\ watches' = watches \union {sequence'} /\ windowOf' = [windowOf EXCEPT ![sequence'] = w]
  /\ UNCHANGED <<timers, events, todo, found, due, output, lost>>

\* Some watches go, and what is queued for them.
Drop(ids) ==
  /\ watches' = watches \ ids /\ events' = Without(events, ids) /\ lost' = lost \ ids
  /\ UNCHANGED <<sequence, windowOf, todo, found>>

Unwatch(w) ==
  /\ Idle /\ \E id \in watches : windowOf[id] = w /\ Drop({id})
  /\ UNCHANGED <<timers, due, output>>

\* The thread copies the watches and lets go of the lock.
ScanPass ==
  /\ todo = {} /\ found = NoFind /\ watches # {}
  /\ todo' = watches
  /\ UNCHANGED <<sequence, watches, windowOf, timers, events, found, due, output, lost>>

\* It looks at the files of one of them, which may be gone by now.
Scan ==
  /\ found = NoFind /\ todo # {}
  /\ \E id \in todo, n \in 0 .. MaxFound :
       /\ \A other \in todo : id <= other
       /\ todo' = todo \ {id} /\ found' = [id |-> id, changes |-> n]
  /\ UNCHANGED <<sequence, watches, windowOf, timers, events, due, output, lost>>

\* It queues the changes, under the lock.
Queue ==
  /\ found # NoFind
  /\ LET id == found.id
         fits == IF Len(events) >= ChangeLimit THEN 0 ELSE ChangeLimit - Len(events)
         taken == IF found.changes < fits THEN found.changes ELSE fits
         changes == [i \in 1 .. taken |-> [id |-> id, overflow |-> FALSE]]
         full == events \o changes
     IN IF id \notin watches
        THEN UNCHANGED <<events, lost>>
        ELSE IF taken = found.changes
        THEN events' = full /\ UNCHANGED lost
        ELSE /\ events' = IF ~Notice(full, id) /\ Len(full) < EventLimit
                          THEN Append(full, [id |-> id, overflow |-> TRUE]) ELSE full
             /\ lost' = lost \union {id}
  /\ found' = NoFind
  /\ UNCHANGED <<sequence, watches, windowOf, timers, todo, due, output>>

-----------------------------------------------------------------------------
(* Timers, and the tick of the main thread. *)

\* timer(): of a window, which gets an event, or of a service, which gets a call.
Create(owner) ==
  /\ Cardinality(timers) < TimerLimit /\ NewId
  /\ \E repeats \in BOOLEAN : timers' = timers \union {[id |-> sequence', owner |-> owner, repeats |-> repeats]}
  /\ UNCHANGED <<watches, windowOf, events, todo, found, due, output, lost>>

\* cancel() and cancel_owner()
Cancel(ts) ==
  /\ ts # {} /\ timers' = timers \ ts
  /\ UNCHANGED <<sequence, watches, windowOf, events, todo, found, due, output, lost>>

\* What a window asks for, or a service while nothing else runs.
Ask ==
  /\ Idle
  /\ \/ \E owner \in Windows \union Owners : Create(owner)
     \/ \E t \in timers : Cancel({t})
     \/ \E owner \in Owners : Cancel({t \in timers : t.owner = owner})

\* cancel_window(): the window closes or loads another document.
CancelWindow(w) ==
  /\ Idle /\ timers' = {t \in timers : t.owner # w}
  /\ Drop({id \in watches : windowOf[id] = w})
  /\ UNCHANGED <<due, output>>

\* The tick notes the timers that are due.
TickBegin ==
  /\ Idle
  /\ \E ts \in SUBSET {t.id : t \in timers} : due' = <<ts>>
  /\ output' = 0
  /\ UNCHANGED <<sequence, watches, windowOf, timers, events, todo, found, lost>>

\* It fires the next one that is still there.  A callback may cancel timers and create some.
TickTimer ==
  /\ ~Idle /\ due[1] # {}
  /\ \E id \in due[1] :
       /\ \A other \in due[1] : id <= other
       /\ due' = <<due[1] \ {id}>>
       /\ LET fired == {t \in timers : t.id = id}
              rest == {t \in timers : t.id # id \/ t.repeats}
          IN \/ fired = {} /\ UNCHANGED <<timers, output>>
             \/ /\ \E t \in fired : t.owner \in Windows
                /\ timers' = rest /\ output' = output + 1
             \/ /\ \E t \in fired : t.owner \in Owners
                /\ \/ timers' = rest
                   \/ \E t \in rest : timers' = rest \ {t}
                /\ UNCHANGED output
  /\ UNCHANGED <<sequence, watches, windowOf, events, todo, found, lost>>

\* The time of the tick is over, or every timer that was due is through: it takes events.
TickEvents ==
  /\ ~Idle
  /\ LET room == IF output < EventLimit THEN EventLimit - output ELSE 0
         n == IF Len(events) < room THEN Len(events) ELSE room
         taken == SubSeq(events, 1, n)
     IN /\ events' = SubSeq(events, n + 1, Len(events))
        /\ lost' = {id \in lost : ~Notice(taken, id)}
  /\ due' = NoTick /\ output' = 0
  /\ UNCHANGED <<sequence, watches, windowOf, timers, todo, found>>

Next ==
  \/ \E w \in Windows : Watch(w) \/ Unwatch(w) \/ CancelWindow(w)
  \/ ScanPass \/ Scan \/ Queue
  \/ Ask \/ TickBegin \/ TickTimer \/ TickEvents

Spec == Init /\ [][Next]_vars

-----------------------------------------------------------------------------
(* Properties. *)

\* No change is lost without a trace: while the changes of a watch do not fit, a notice of
\* overflow for it waits in the queue, although eight watches share the room for notices,
\* windows come and go and the thread scans files outside the lock.  And what is queued is
\* for a watch that is still active.
LossesTold ==
  /\ \A id \in lost : Notice(events, id)
  /\ \A i \in DOMAIN events : events[i].id \in watches
  /\ Len(events) <= EventLimit

\* The values the variables take: the records, counters and queues stay within the bounds of the code.
TypeOK ==
  /\ sequence \in 0 .. MaxIds /\ windowOf \in [Ids -> Windows \union {0}]
  /\ watches \subseteq 1 .. sequence /\ todo \subseteq 1 .. sequence /\ lost \subseteq watches
  /\ \A t \in timers : t.id \in 1 .. sequence /\ t.owner \in Windows \union Owners /\ t.repeats \in BOOLEAN
  /\ Cardinality(watches) <= WatchLimit /\ Cardinality(timers) <= TimerLimit
  /\ events \in Seq([id : Ids, overflow : BOOLEAN])
  /\ found.id \in 0 .. sequence /\ found.changes \in 0 .. MaxFound
  /\ Len(due) <= 1 /\ \A i \in DOMAIN due : due[i] \subseteq 1 .. sequence
  /\ output \in 0 .. TimerLimit
=============================================================================
