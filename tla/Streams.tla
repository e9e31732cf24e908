------------------------------ MODULE Streams ------------------------------
(***************************************************************************)
(* Native streams: StreamBuffer and StreamHub of native_stream.cpp, and    *)
(* how the transport thread (stream_transport.cpp) takes packets from them.*)
(*                                                                         *)
(* Producers of any thread publish into a ring of slots without a lock;    *)
(* the transport thread empties the rings; REAPER's main thread creates    *)
(* and closes streams, and a closed stream's place in the hub's table is   *)
(* used again while producers may still hold its handle.  One step below   *)
(* is one access of the code to memory that another thread uses, with what *)
(* the thread does to its own data until the next one.  Memory is          *)
(* sequentially consistent.                                                *)
(*                                                                         *)
(* A packet is the number its ring gives it (slot.order); its bytes, the   *)
(* published and dropped counters and the refusals that depend on the      *)
(* arguments alone are left out.  A handle is a serial number: the index   *)
(* it carries is place[h].                                                 *)
(***************************************************************************)
EXTENDS Integers, Sequences, FiniteSets

CONSTANTS Producers,        \* threads that publish
          Places,           \* slot_count of the hub
          Capacity,         \* slots of a ring
          PassLimit,        \* packets taken from one stream in one pass
          AllocationLimit,  \* buffers that may exist at a time
          MaxStreams,       \* bound: streams created
          MaxPackets        \* bound: attempts to publish

ASSUME StreamsAssumption ==
  /\ IsFiniteSet(Producers)
  /\ Places \in Nat \ {0} /\ Capacity \in Nat \ {0, 1} /\ PassLimit \in Nat \ {0}
  /\ AllocationLimit \in Nat \ {0} /\ MaxStreams \in Nat \ {0} /\ MaxPackets \in Nat

VARIABLES
  serial,    \* streams created so far: handles are 1 .. serial
  kind,      \* what each stream does with a full ring
  place,     \* the hub slot of each stream
  hub,       \* the hub's table: what publishers read, and what it owns
  closed,    \* streams whose closed flag is set
  counted,   \* buffers that allocated_ counts
  main,      \* what the main thread is in the middle of, with the hub's mutex
  ring,      \* the slots of each stream
  cursor,    \* per stream: write_, read_, order_ and consumed_order_
  writing,   \* streams whose writing_ flag is set
  producer,  \* each producer's position in publish()
  reader,    \* the transport thread's position in its pass
  cached,    \* streams whose last packet the transport keeps for new pages
  held,      \* streams that tickets and connections refer to
  attempts,  \* calls of publish() so far
  taken      \* history: packets the transport took, per stream

hubVars  == <<serial, kind, place, hub, closed, counted, main>>
ringVars == <<ring, cursor, writing>>
vars == <<serial, kind, place, hub, closed, counted, main, ring, cursor, writing,
          producer, reader, cached, held, attempts, taken>>

None    == 0
Handles == 1 .. MaxStreams
Kinds   == {"fifo", "latest"}       \* audio and MIDI; every other kind
Indexes == 0 .. Capacity - 1
Slots   == [buffer : Handles \cup {None}, handle : Handles \cup {None},
            owned : Handles \cup {None}, readers : 0 .. Cardinality(Producers)]
Stations == {"idle", "load", "check", "open", "lock", "claim", "steal", "store", "unlock", "leave"}

Empty == 0  Writing == 1  Full == 2  Reading == 3    \* slot.state

TypeOK ==
  /\ serial \in 0 .. MaxStreams /\ attempts \in 0 .. MaxPackets
  /\ kind \in [Handles -> Kinds] /\ place \in [Handles -> 1 .. Places]
  /\ hub \in [1 .. Places -> Slots]
  /\ closed \subseteq Handles /\ counted \subseteq Handles
  /\ main \in [at : {"idle", "create", "close"}, stream : Handles \cup {None}]
  /\ ring \in [Handles -> [Indexes -> [state : 0 .. 3, order : Nat]]]
  /\ cursor \in [Handles -> [write : Indexes, read : Indexes, order : Nat, seen : Nat]]
  /\ writing \subseteq Handles
  /\ producer \in [Producers -> [at : Stations, handle : Handles \cup {None},
                                 buffer : Handles \cup {None}]]
  /\ reader \in [at : {"none", "pass", "next", "claim", "copy"}, buffers : SUBSET Handles,
                 todo : SUBSET Handles, buffer : Handles \cup {None}, index : 0 .. Capacity, newest : Nat,
                 count : 0 .. PassLimit]
  /\ cached \subseteq Handles /\ held \subseteq Handles
  /\ taken \in [Handles -> Seq(Nat)]

Init ==
  /\ serial = 0 /\ attempts = 0
  /\ kind = [h \in Handles |-> "latest"] /\ place = [h \in Handles |-> 1]
  /\ hub = [i \in 1 .. Places |-> [buffer |-> None, handle |-> None, owned |-> None, readers |-> 0]]
  /\ closed = {} /\ counted = {}
  /\ main = [at |-> "idle", stream |-> None]
  /\ ring = [h \in Handles |-> [i \in Indexes |-> [state |-> Empty, order |-> 0]]]
  /\ cursor = [h \in Handles |-> [write |-> 0, read |-> 0, order |-> 0, seen |-> 0]]
  /\ writing = {}
  /\ producer = [p \in Producers |-> [at |-> "idle", handle |-> None, buffer |-> None]]
  /\ reader = [at |-> "none", buffers |-> {}, todo |-> {}, buffer |-> None, index |-> 0, newest |-> 0, count |-> 0]
  /\ cached = {} /\ held = {}
  /\ taken = [h \in Handles |-> <<>>]

-----------------------------------------------------------------------------
(* The main thread.  create() and close() hold the hub's mutex throughout;  *)
(* attaching and detaching consumers hold it for one step.                  *)

MutexFree == main.at = "idle"
Owned     == {h \in 1 .. serial : hub[place[h]].owned = h}

\* Somebody other than the hub has a shared pointer to the buffer of stream h.
Shared(h) == h \in held \/ h \in cached \/ h \in reader.buffers

\* What allocated_ still counts once reap() has dropped the retired buffers
\* that nobody refers to; own are the streams the hub owns.
Reaped(own) == {h \in counted : h \in own \/ Shared(h)}

\* create() up to the store of the handle: publishers with the handle of the
\* stream that had the place before cannot take the new buffer for theirs.
Create(k, i) ==
  LET h == serial + 1 IN
  /\ MutexFree /\ serial < MaxStreams
  /\ Cardinality(Reaped(Owned)) < AllocationLimit
  /\ hub[i].owned = None /\ \A j \in 1 .. i - 1 : hub[j].owned # None
  /\ serial' = h
  /\ kind' = [kind EXCEPT ![h] = k]
  /\ place' = [place EXCEPT ![h] = i]
  /\ hub' = [hub EXCEPT ![i].owned = h, ![i].handle = h]
  /\ counted' = Reaped(Owned) \cup {h}
  /\ main' = [at |-> "create", stream |-> h]
  /\ UNCHANGED <<closed, ringVars, producer, reader, cached, held, attempts, taken>>

\* ... and the store of the buffer.
Created ==
  /\ main.at = "create"
  /\ hub' = [hub EXCEPT ![place[main.stream]].buffer = main.stream]
  /\ main' = [at |-> "idle", stream |-> None]
  /\ UNCHANGED <<serial, kind, place, closed, counted, ringVars, producer, reader, cached,
                 held, attempts, taken>>

\* close() of a stream the hub owns.  With an older handle, or once more, it
\* changes nothing.
Close(h) ==
  /\ MutexFree /\ h \in Owned
  /\ closed' = closed \cup {h}
  /\ hub' = [hub EXCEPT ![place[h]].buffer = None]
  /\ main' = [at |-> "close", stream |-> h]
  /\ UNCHANGED <<serial, kind, place, counted, ringVars, producer, reader, cached, held,
                 attempts, taken>>

\* Mutant: close() does not wait for the publishers inside.
ClosedAtOnce ==
  /\ main.at = "close"
  /\ hub' = [hub EXCEPT ![place[main.stream]].owned = None]
  /\ counted' = Reaped(Owned \ {main.stream})
  /\ main' = [at |-> "idle", stream |-> None]
  /\ UNCHANGED <<serial, kind, place, closed, ringVars, producer, reader, cached, held,
                 attempts, taken>>

\* ... once the publishers that were inside have left.
Closed ==
  /\ main.at = "close" /\ hub[place[main.stream]].readers = 0
  /\ hub' = [hub EXCEPT ![place[main.stream]].owned = None]
  /\ counted' = Reaped(Owned \ {main.stream})
  /\ main' = [at |-> "idle", stream |-> None]
  /\ UNCHANGED <<serial, kind, place, closed, ringVars, producer, reader, cached, held,
                 attempts, taken>>

\* A consumer of stream h gets its ticket; the first one starts the transport.
Attach(h) ==
  /\ MutexFree /\ h \in Owned /\ h \notin held
  /\ held' = held \cup {h}
  /\ reader' = [reader EXCEPT !.at = IF @ = "none" THEN "pass" ELSE @]
  /\ UNCHANGED <<hubVars, ringVars, producer, cached, attempts, taken>>

\* The last ticket or connection of h goes away.
Detach(h) ==
  /\ MutexFree /\ h \in held
  /\ held' = held \ {h}
  /\ UNCHANGED <<hubVars, ringVars, producer, reader, cached, attempts, taken>>

-----------------------------------------------------------------------------
(* A producer: publish() of the hub, and inside it publish() of the buffer. *)

At(p, s) == producer[p].at = s
Go(p, s) == producer' = [producer EXCEPT ![p].at = s]
slotOf(h) == ring[h][cursor[h].write]

\* A handle the caller of create() already has, of a stream open or closed.
Enter(p, h) ==
  /\ At(p, "idle") /\ attempts < MaxPackets
  /\ h \in 1 .. serial /\ main # [at |-> "create", stream |-> h]
  /\ attempts' = attempts + 1
  /\ hub' = [hub EXCEPT ![place[h]].readers = @ + 1]
  /\ producer' = [producer EXCEPT ![p] = [at |-> "load", handle |-> h, buffer |-> None]]
  /\ UNCHANGED <<serial, kind, place, closed, counted, main, ringVars, reader, cached, held, taken>>

Load(p) ==
  /\ At(p, "load")
  /\ producer' = [producer EXCEPT ![p].at = "check", ![p].buffer = hub[place[producer[p].handle]].buffer]
  /\ UNCHANGED <<hubVars, ringVars, reader, cached, held, attempts, taken>>

Check(p) ==
  LET me == producer[p] IN
  /\ At(p, "check")
  /\ Go(p, IF me.buffer # None /\ hub[place[me.handle]].handle = me.handle THEN "open" ELSE "leave")
  /\ UNCHANGED <<hubVars, ringVars, reader, cached, held, attempts, taken>>

CheckClosed(p) ==
  /\ At(p, "open")
  /\ Go(p, IF producer[p].buffer \in closed THEN "leave" ELSE "lock")
  /\ UNCHANGED <<hubVars, ringVars, reader, cached, held, attempts, taken>>

\* PRODUCER_BUSY when another thread has the flag.
Lock(p) ==
  LET h == producer[p].buffer IN
  /\ At(p, "lock")
  /\ Go(p, IF h \in writing THEN "leave" ELSE "claim")
  /\ writing' = writing \cup {h}
  /\ UNCHANGED <<hubVars, ring, cursor, reader, cached, held, attempts, taken>>

\* The slots of stream h after the exchange of the one at i from state to state.
Exchanged(h, i, to) == [ring EXCEPT ![h][i].state = to]

\* The first exchange: the slot is free, or its state decides what comes next.
Claim(p) ==
  LET h == producer[p].buffer IN
  /\ At(p, "claim")
  /\ \/ /\ slotOf(h).state = Empty
        /\ ring' = Exchanged(h, cursor[h].write, Writing) /\ Go(p, "store")
     \/ /\ slotOf(h).state # Empty
        /\ Go(p, IF kind[h] = "fifo" \/ slotOf(h).state # Full THEN "unlock" ELSE "steal")
        /\ UNCHANGED ring
  /\ UNCHANGED <<hubVars, cursor, writing, reader, cached, held, attempts, taken>>

\* The second exchange: the packet in the slot gives way, if the transport has
\* not come for it meanwhile.
Steal(p) ==
  LET h == producer[p].buffer IN
  /\ At(p, "steal")
  /\ IF slotOf(h).state = Full
     THEN ring' = Exchanged(h, cursor[h].write, Writing) /\ Go(p, "store")
     ELSE Go(p, "unlock") /\ UNCHANGED ring
  /\ UNCHANGED <<hubVars, cursor, writing, reader, cached, held, attempts, taken>>

\* Mutant: the packet gets order_++ and not ++order_.
StoreOld(p) ==
  LET h == producer[p].buffer  n == cursor[h].order IN
  /\ At(p, "store")
  /\ ring' = [ring EXCEPT ![h][cursor[h].write] = [state |-> Full, order |-> n]]
  /\ cursor' = [cursor EXCEPT ![h].order = n + 1, ![h].write = (@ + 1) % Capacity]
  /\ Go(p, "unlock")
  /\ UNCHANGED <<hubVars, writing, reader, cached, held, attempts, taken>>

Store(p) ==
  LET h == producer[p].buffer  n == cursor[h].order + 1 IN
  /\ At(p, "store")
  /\ ring' = [ring EXCEPT ![h][cursor[h].write] = [state |-> Full, order |-> n]]
  /\ cursor' = [cursor EXCEPT ![h].order = n, ![h].write = (@ + 1) % Capacity]
  /\ Go(p, "unlock")
  /\ UNCHANGED <<hubVars, writing, reader, cached, held, attempts, taken>>

Unlock(p) ==
  /\ At(p, "unlock")
  /\ writing' = writing \ {producer[p].buffer}
  /\ Go(p, "leave")
  /\ UNCHANGED <<hubVars, ring, cursor, reader, cached, held, attempts, taken>>

Leave(p) ==
  /\ At(p, "leave")
  /\ hub' = [hub EXCEPT ![place[producer[p].handle]].readers = @ - 1]
  /\ producer' = [producer EXCEPT ![p] = [at |-> "idle", handle |-> None, buffer |-> None]]
  /\ UNCHANGED <<serial, kind, place, closed, counted, main, ringVars, reader, cached, held,
                 attempts, taken>>

Publish(p) == Load(p) \/ Check(p) \/ CheckClosed(p) \/ Lock(p) \/ Claim(p) \/ Steal(p)
              \/ Store(p) \/ Unlock(p) \/ Leave(p)

-----------------------------------------------------------------------------
(* The transport thread: one pass takes the streams the hub owns at its     *)
(* start and consumes at most PassLimit packets of each.                    *)

\* The cache forgets the streams that are closed.
StartPass ==
  /\ reader.at = "pass" /\ MutexFree
  /\ reader' = [reader EXCEPT !.at = "next", !.buffers = Owned, !.todo = Owned]
  /\ cached' = cached \ closed
  /\ UNCHANGED <<hubVars, ringVars, producer, held, attempts, taken>>

\* consume() of the next stream starts; after the last one the pass is over
\* and the references it took are dropped.
NextStream ==
  /\ reader.at = "next"
  /\ \/ \E h \in reader.todo :
          reader' = [reader EXCEPT !.at = "claim", !.buffer = h, !.index = 0,
                                   !.newest = cursor[h].seen, !.count = 0]
     \/ /\ reader.todo = {}
        /\ reader' = [reader EXCEPT !.at = "pass", !.buffers = {}]
  /\ UNCHANGED <<hubVars, ringVars, producer, cached, held, attempts, taken>>

\* The stream consume() works on gives a packet to the transport (delivered)
\* or has none, or none that is newer.
Continue(delivered, seen) ==
  LET h == reader.buffer IN
  reader' = IF delivered /\ reader.count + 1 < PassLimit
            THEN [reader EXCEPT !.at = "claim", !.index = 0, !.newest = seen, !.count = @ + 1]
            ELSE [reader EXCEPT !.at = "next", !.todo = @ \ {h}, !.buffer = None,
                                !.index = 0, !.newest = 0, !.count = 0]

\* Audio and MIDI: the slot at read_ is the next packet or there is none.
ClaimNext ==
  LET h == reader.buffer  i == cursor[h].read IN
  /\ reader.at = "claim" /\ kind[h] = "fifo"
  /\ IF ring[h][i].state = Full
     THEN ring' = Exchanged(h, i, Reading) /\ reader' = [reader EXCEPT !.at = "copy"]
     ELSE Continue(FALSE, 0) /\ UNCHANGED ring
  /\ UNCHANGED <<hubVars, cursor, writing, producer, cached, held, attempts, taken>>

TakeNext ==
  LET h == reader.buffer  i == cursor[h].read IN
  /\ reader.at = "copy" /\ kind[h] = "fifo"
  /\ taken' = [taken EXCEPT ![h] = Append(@, ring[h][i].order)]
  /\ ring' = Exchanged(h, i, Empty)
  /\ cursor' = [cursor EXCEPT ![h].read = (i + 1) % Capacity]
  /\ Continue(TRUE, 0)
  /\ UNCHANGED <<hubVars, writing, producer, cached, held, attempts>>

\* Mutant: the scan takes a slot whatever its state, as a plain store would.
ClaimSlotAnyway ==
  LET h == reader.buffer  i == reader.index IN
  /\ reader.at = "claim" /\ kind[h] = "latest" /\ i < Capacity
  /\ IF ring[h][i].state # Empty
     THEN ring' = Exchanged(h, i, Reading) /\ reader' = [reader EXCEPT !.at = "copy"]
     ELSE reader' = [reader EXCEPT !.index = i + 1] /\ UNCHANGED ring
  /\ UNCHANGED <<hubVars, cursor, writing, producer, cached, held, attempts, taken>>

\* Every other kind: all slots are scanned and the newest packet wins.
ClaimSlot ==
  LET h == reader.buffer  i == reader.index IN
  /\ reader.at = "claim" /\ kind[h] = "latest" /\ i < Capacity
  /\ IF ring[h][i].state = Full
     THEN ring' = Exchanged(h, i, Reading) /\ reader' = [reader EXCEPT !.at = "copy"]
     ELSE reader' = [reader EXCEPT !.index = i + 1] /\ UNCHANGED ring
  /\ UNCHANGED <<hubVars, cursor, writing, producer, cached, held, attempts, taken>>

Newer(a, b) == IF a > b THEN a ELSE b

TakeSlot ==
  LET h == reader.buffer  i == reader.index IN
  /\ reader.at = "copy" /\ kind[h] = "latest"
  /\ ring' = Exchanged(h, i, Empty)
  /\ reader' = [reader EXCEPT !.at = "claim", !.index = i + 1,
                              !.newest = Newer(@, ring[h][i].order)]
  /\ UNCHANGED <<hubVars, cursor, writing, producer, cached, held, attempts, taken>>

\* What the next scan has to exceed.
Seen(h) == reader.newest

EndScan ==
  LET h == reader.buffer  found == reader.newest > cursor[h].seen IN
  /\ reader.at = "claim" /\ kind[h] = "latest" /\ reader.index = Capacity
  /\ cursor' = [cursor EXCEPT ![h].seen = Seen(h)]
  /\ IF found
     THEN /\ taken' = [taken EXCEPT ![h] = Append(@, reader.newest)]
          /\ cached' = cached \cup {h}
     ELSE UNCHANGED <<taken, cached>>
  /\ Continue(found, Seen(h))
  /\ UNCHANGED <<hubVars, ring, writing, producer, held, attempts>>

Transport == StartPass \/ NextStream \/ ClaimNext \/ TakeNext \/ ClaimSlot \/ TakeSlot \/ EndScan

-----------------------------------------------------------------------------
Next ==
  \/ \E k \in Kinds, i \in 1 .. Places : Create(k, i)
  \/ \E h \in Handles : Close(h) \/ Attach(h) \/ Detach(h)
  \/ Created \/ Closed
  \/ \E p \in Producers : Publish(p) \/ \E h \in Handles : Enter(p, h)
  \/ Transport

\* Every thread that has begun something goes on: nothing in publish() or in a
\* pass waits for anybody but the holder of the hub's mutex, who waits only
\* for publishers to leave.
Fairness == /\ WF_vars(Created) /\ WF_vars(Closed) /\ WF_vars(Transport)
            /\ \A p \in Producers : WF_vars(Publish(p))

Spec == Init /\ [][Next]_vars /\ Fairness
-----------------------------------------------------------------------------
(* Properties.                                                              *)

Inside(p) == producer[p].at \in {"open", "lock", "claim", "steal", "store", "unlock"}

\* A producer that is inside a buffer is inside the one its handle names, and
\* the hub still owns that buffer: a place given to a new stream never takes
\* packets for the old handle, and close() frees no memory a producer writes
\* to (native_stream.cpp:145-150, 127-128, 160-163).
OwnStream ==
  \A p \in Producers : Inside(p) =>
    /\ producer[p].buffer = producer[p].handle
    /\ producer[p].buffer \in Owned

\* The state of a slot says who may touch its packet: it is 1 exactly when one
\* producer writes the slot, which is then the one at write_, and 3 exactly
\* when the transport reads it (native_stream.cpp:20-37, 42-57).
SlotExclusive ==
  \A h \in Handles, i \in Indexes :
    LET writers == {p \in Producers : At(p, "store") /\ producer[p].buffer = h /\ cursor[h].write = i}
        reads   == /\ reader.at = "copy" /\ reader.buffer = h
                   /\ i = IF kind[h] = "fifo" THEN cursor[h].read ELSE reader.index IN
    /\ Cardinality(writers) = IF ring[h][i].state = Writing THEN 1 ELSE 0
    /\ reads <=> ring[h][i].state = Reading

Newest(h) == IF taken[h] = <<>> THEN 0 ELSE taken[h][Len(taken[h])]

\* No accepted packet is lost against the stream's policy.  Audio and MIDI:
\* what the transport took and what lies between read_ and write_ are all the
\* packets ever accepted, in order.  Other kinds: the transport takes newer and
\* newer packets, and the newest one is taken, in the transport's hands or in
\* the ring (docs/native-streams.md:44-51, native_stream.cpp:46-47).
Kept ==
  \A h \in 1 .. serial :
    IF kind[h] = "fifo"
    THEN /\ \A n \in 1 .. Len(taken[h]) : taken[h][n] = n
         /\ \A n \in Len(taken[h]) + 1 .. cursor[h].order :
              LET s == ring[h][(n - 1) % Capacity] IN s.state \in {Full, Reading} /\ s.order = n
    ELSE /\ \A n \in 2 .. Len(taken[h]) : taken[h][n - 1] < taken[h][n]
         /\ \/ cursor[h].order = Newest(h)
            \/ reader.buffer = h /\ reader.newest = cursor[h].order
            \/ \E i \in Indexes : /\ ring[h][i].state \in {Full, Reading}
                                   /\ ring[h][i].order = cursor[h].order

\* The memory of every buffer anybody still refers to is counted against the
\* limit, closed streams included, so the buffers that exist never exceed it
\* (docs/native-streams.md:51, native_stream.cpp:62-67, 114, 163).
AllocationCovers ==
  /\ \A h \in 1 .. serial : h \in Owned \/ Shared(h) => h \in counted
  /\ Cardinality(counted) <= AllocationLimit
=============================================================================
