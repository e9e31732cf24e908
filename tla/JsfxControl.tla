----------------------------- MODULE JsfxControl -----------------------------
(***************************************************************************)
(* Operations of pages on one effect (JsfxControl in jsfx_control.cpp).    *)
(*                                                                         *)
(* A page asks for a command, a new state or the commit of an uploaded     *)
(* resource under a number of its own, and asks again when it hears        *)
(* nothing.  Ticks of the main thread dispatch operations to the queue of  *)
(* the node, whose commands the effect runs one by one, and take the       *)
(* results.  An upload takes three commands, and one more to be undone.    *)
(* Some operations need an Undo gesture of their own.  Continuous commands *)
(* belong to a document: when it goes, a last command releases what it     *)
(* holds, such as notes.  Values, schemas, revisions and the reading of    *)
(* states and resources are left out; the queue and the effect are those   *)
(* of JsfxChannel.                                                         *)
(***************************************************************************)
EXTENDS Naturals, FiniteSets, SequenceFilter

CONSTANTS
  Requests,     \* requestId
  Kinds,        \* what each is: "command", "continuous", "state", "upload"
  Undoable,     \* requests that need an Undo gesture
  QueueLimit,   \* commands and results of the node (32)
  MaxOwners,    \* bound on the documents that own commands
  MaxChanges    \* bound on the times the effect begins anew

VARIABLES
  ops,       \* operations: status, phase, the flags of each, its command
  serial,    \* serial
  queue,     \* the commands of the node, the first of them perhaps started
  started,   \* the first one is started
  results,   \* completed
  owner,     \* the number of the document's owner, 0 for none
  owned,     \* owners made
  releases,  \* owners to be released
  held,      \* undo_operation
  changes,   \* times the effect began anew
  ran        \* history: commands the effect ran to their end, with their codes

vars == <<ops, serial, queue, started, results, owner, owned, releases, held, changes, ran>>

Nobody == "nobody"
NoOp == [status |-> "none", phase |-> "run", command |-> 0, owner |-> 0, dispatched |-> FALSE, staged |-> FALSE, cancelling |-> FALSE]
Terminal(op) == op.status \in {"succeeded", "failed", "cancelled"}
Pending(r) == ops[r].status # "none" /\ ~Terminal(ops[r])

Init ==
  /\ ops = [r \in Requests |-> NoOp] /\ serial = 0 /\ queue = <<>> /\ started = FALSE /\ results = <<>>
  /\ owner = 0 /\ owned = 0 /\ releases = {} /\ held = Nobody /\ changes = 0 /\ ran = {}

Dsp == <<queue, started, results, ran>>
Documents == <<owner, owned, releases>>

\* finish(): the operation has its final status; its Undo gesture ends.
Finished(t, r, status) ==
  /\ ops' = [t EXCEPT ![r].status = status]
  /\ held' = IF held = r THEN Nobody ELSE held

-----------------------------------------------------------------------------
(* Calls of the page. *)

\* call(): a request that is known is answered from its record, another one is queued.
Call(r) ==
  /\ ops[r].status = "none"
  /\ LET continuous == Kinds[r] = "continuous"
         document == IF continuous /\ owner = 0 THEN owned + 1 ELSE owner
         first == IF continuous /\ owner = 0 THEN 1 ELSE 0
     IN /\ owned + first <= MaxOwners /\ owned' = owned + first
        /\ owner' = IF continuous THEN document ELSE owner
        /\ serial' = serial + 1
        /\ ops' = [ops EXCEPT ![r] = [NoOp EXCEPT !.status = "queued", !.command = serial',
                     !.phase = IF Kinds[r] = "upload" THEN "stage" ELSE "run", !.owner = IF continuous THEN document ELSE 0]]
  /\ UNCHANGED <<Dsp, releases, held, changes>>

\* Node::cancel(): the queue without commands that have not started, or not: the slot may
\* be in use.
At(command) == {i \in DOMAIN queue : queue[i].command = command}
Removed(commands) == Among(queue, {queue[i] : i \in {j \in DOMAIN queue : queue[j].command \notin commands}})
Removable(command) == \E i \in At(command) : ~(i = 1 /\ started)

\* cancelOperation
CancelOperation(r) ==
  /\ Pending(r)
  /\ IF Kinds[r] = "upload"
     THEN /\ ~(ops[r].phase = "commit" /\ ops[r].dispatched)
          /\ LET t == [ops EXCEPT ![r].cancelling = TRUE]
             IN IF ops[r].dispatched \/ ops[r].staged THEN ops' = t /\ UNCHANGED held ELSE Finished(t, r, "cancelled")
          /\ UNCHANGED queue
     ELSE /\ ops[r].dispatched => Removable(ops[r].command)
          /\ queue' = Removed({ops[r].command}) /\ Finished(ops, r, "cancelled")
  /\ UNCHANGED <<serial, started, results, Documents, changes, ran>>

\* release_owner(): the document goes.  What has not started is cancelled, unless the slot
\* is in use right now; a last command follows what has been dispatched.
ReleaseOwner ==
  /\ owner # 0 /\ owner' = 0 /\ releases' = releases \union {owner}
  /\ LET mine == {r \in Requests : Pending(r) /\ ops[r].owner = owner}
     IN \E gone \in SUBSET mine :
          /\ \A r \in mine : ~ops[r].dispatched => r \in gone
          /\ \A r \in gone : ops[r].dispatched => Removable(ops[r].command)
          /\ ops' = [r \in Requests |-> IF r \in gone THEN [ops[r] EXCEPT !.status = "cancelled"] ELSE ops[r]]
          /\ queue' = Removed({ops[r].command : r \in gone})
          /\ held' = IF held \in gone THEN Nobody ELSE held
  /\ UNCHANGED <<serial, started, results, owned, changes, ran>>

-----------------------------------------------------------------------------
(* The tick. *)

\* refresh() found another effect: nothing of the old one stays.
Changed ==
  /\ changes < MaxChanges /\ changes' = changes + 1
  /\ ops' = [r \in Requests |-> IF ops[r].status = "none" THEN NoOp ELSE [ops[r] EXCEPT !.status = "failed"]]
  /\ queue' = <<>> /\ started' = FALSE /\ results' = <<>> /\ owner' = 0 /\ releases' = {} /\ held' = Nobody
  /\ UNCHANGED <<serial, owned, ran>>

\* The next command of an upload.
Advance(r, phase, staged) ==
  /\ serial' = serial + 1 /\ UNCHANGED held
  /\ ops' = [ops EXCEPT ![r].phase = phase, ![r].command = serial', ![r].dispatched = FALSE, ![r].staged = staged]

\* A result: of an upload that goes on, of an operation that is done, or of one that was
\* cancelled meanwhile.
TakeResult ==
  /\ results # <<>> /\ results' = Tail(results)
  /\ LET reply == Head(results)
         mine == {r \in Requests : Pending(r) /\ ops[r].command = reply.command}
     IN IF mine = {} THEN UNCHANGED <<ops, held, serial>>
        ELSE \E r \in mine :
          LET op == ops[r] IN
          IF op.phase = "abort" THEN Finished(ops, r, IF op.cancelling THEN "cancelled" ELSE "failed") /\ UNCHANGED serial
          ELSE IF reply.code = 0 /\ op.phase = "stage" THEN Advance(r, "send", TRUE)
          ELSE IF reply.code = 0 /\ op.phase = "send" THEN Advance(r, "commit", TRUE)
          ELSE IF reply.code = 0 THEN Finished(ops, r, "succeeded") /\ UNCHANGED serial
          ELSE IF op.staged THEN Advance(r, "abort", TRUE)
          ELSE Finished(ops, r, IF reply.code = 6 THEN "cancelled" ELSE "failed") /\ UNCHANGED serial
  /\ UNCHANGED <<queue, started, Documents, changes, ran>>

Room == Len(queue) + Len(results) < QueueLimit
Enqueue(command, owns, kind) == queue' = Append(queue, [command |-> command, owner |-> owns, kind |-> kind])

\* Owners are released before any other command is queued.
Release ==
  /\ Room
  /\ \E o \in releases : releases' = releases \ {o} /\ serial' = serial + 1 /\ Enqueue(serial', o, "release")
  /\ UNCHANGED <<ops, started, results, owner, owned, held, changes, ran>>

\* Mutant: an operation does not wait for the gesture of another one.
MayBegin(r) == TRUE

\* One gesture at a time.
Begins(r) == held \in {Nobody, r}

\* The oldest operation that can goes to the node, with its Undo gesture if it needs one.
Dispatch(r) ==
  /\ releases = {} /\ Pending(r) /\ ~ops[r].dispatched
  /\ LET phase == IF Kinds[r] = "upload" /\ ops[r].cancelling THEN "abort" ELSE ops[r].phase
         needs == r \in Undoable /\ phase \in {"run", "commit"}
     IN /\ needs => Begins(r)
        /\ held' = IF needs THEN r ELSE held
        /\ IF Room
           THEN /\ Enqueue(ops[r].command, ops[r].owner, phase)
                /\ ops' = [ops EXCEPT ![r].phase = phase, ![r].dispatched = TRUE]
           ELSE ops' = [ops EXCEPT ![r].phase = phase] /\ UNCHANGED queue
  /\ \A other \in Requests : Pending(other) /\ ~ops[other].dispatched /\ ops[other].command < ops[r].command =>
       other \in Undoable /\ ~Begins(other)
  /\ UNCHANGED <<serial, started, results, Documents, changes, ran>>

\* reap(): a record is forgotten a minute after its end; the page does not ask any more.
-----------------------------------------------------------------------------
(* The effect. *)

Start ==
  /\ queue # <<>> /\ ~started /\ started' = TRUE
  /\ UNCHANGED <<ops, serial, queue, results, Documents, held, changes, ran>>

\* It ends with a code: done, refused, or cancelled while it ran.
Complete ==
  /\ started /\ started' = FALSE /\ queue' = Tail(queue)
  /\ \E code \in {0, 1, 6} :
       /\ results' = Append(results, [command |-> Head(queue).command, code |-> code])
       /\ ran' = ran \union {[command |-> Head(queue).command, kind |-> Head(queue).kind, owner |-> Head(queue).owner, code |-> code]}
  /\ UNCHANGED <<ops, serial, Documents, held, changes>>

Next ==
  \/ \E r \in Requests : Call(r) \/ CancelOperation(r) \/ Dispatch(r)
  \/ ReleaseOwner \/ Changed \/ TakeResult \/ Release \/ Start \/ Complete

Spec == Init /\ [][Next]_vars

-----------------------------------------------------------------------------
(* Properties. *)

Ran(r, code) == \E c \in ran : c.command = ops[r].command /\ c.kind \in {"run", "commit"} /\ c.code = code
Later(c) == {d \in ran : d.owner = c.owner /\ d.command > c.command}

\* The final status of an operation tells what the effect did: what succeeded was done,
\* what was cancelled was not, through retries, cancellations that race the start of a
\* command and uploads of several commands.  The gesture that is held belongs to an
\* operation in progress, and what needs one is only with the effect while it holds it.
\* After the release of a document no command of that document runs.
OperationsTrue ==
  /\ \A r \in Requests :
       /\ ops[r].status = "succeeded" => Ran(r, 0)
       /\ ops[r].status = "cancelled" => ~Ran(r, 0)
       /\ Pending(r) /\ ops[r].dispatched /\ r \in Undoable /\ ops[r].phase \in {"run", "commit"} => held = r
  /\ held # Nobody => Pending(held)
  /\ \A c \in ran : c.kind = "release" => Later(c) = {}

\* The values the variables take: the records, counters and queues stay within the bounds of the code.
Phases == {"run", "stage", "send", "commit", "abort"}
TypeOK ==
  /\ \A r \in Requests :
       /\ ops[r].status \in {"none", "queued", "succeeded", "failed", "cancelled"} /\ ops[r].phase \in Phases
       /\ ops[r].command \in 0 .. serial /\ ops[r].owner \in 0 .. owned
       /\ {ops[r].dispatched, ops[r].staged, ops[r].cancelling} \subseteq BOOLEAN
  /\ queue \in Seq([command : 1 .. serial, owner : 0 .. owned, kind : Phases \union {"release"}])
  /\ results \in Seq([command : 1 .. serial, code : {0, 1, 6}])
  /\ Len(queue) + Len(results) <= QueueLimit /\ (started => queue # <<>>)
  /\ owned \in 0 .. MaxOwners /\ owner \in 0 .. owned /\ releases \subseteq 1 .. owned
  /\ held \in Requests \union {Nobody} /\ changes \in 0 .. MaxChanges
  /\ ran \subseteq [command : 1 .. serial, kind : Phases \union {"release"}, owner : 0 .. owned, code : {0, 1, 6}]
=============================================================================
