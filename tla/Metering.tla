------------------------------ MODULE Metering ------------------------------
(***************************************************************************)
(* One meter of native_producers.cpp, of the hardware or of a track.  The  *)
(* audio thread (or the tick, for a track) publishes blocks to a ring, the *)
(* analysis thread adds them up, and the main thread asks for resets       *)
(* through two atomics, the number of requests and the last block a reset  *)
(* leaves out.  What the meter has added up is the set of blocks.          *)
(***************************************************************************)
EXTENDS Naturals, Sequences

CONSTANTS
  RingSize,   \* blocks a ring holds (16)
  MaxBlocks,  \* bound on the numbers of blocks
  MaxBreaks,  \* bound on generations
  MaxResets   \* bound on reset_request

VARIABLES
  kind,     \* what the meter listens to: "hardware" or "track"
  onStart,  \* reset_on_start
  active,   \* REAPER plays
  moved,    \* the position has jumped, or the project has changed, since the last tick
  was,      \* was_playing, or TrackSource::playing
  source,   \* Capture or TrackSource: [sequence, generation, discontinuity]
  entry,    \* source_sequence and source_reset of the entry
  request,  \* reset_request and reset_after
  main,     \* what the main thread does next, and with which number
  ring,     \* the blocks that wait
  worker,   \* the analysis thread: [pc, hand, request]
  meter,    \* reset_applied, skip_through, capture_sequence, format_generation, meter_dirty
  added     \* the blocks the meter has added up, and its results are of

vars == <<kind, onStart, active, moved, was, source, entry, request, main, ring, worker, meter, added>>
play == <<kind, onStart, active, moved>>
thread == <<worker, meter, added>>

None == [sequence |-> 0, generation |-> 0]
Idle == [pc |-> "idle", after |-> 0]

Init ==
  /\ kind \in {"hardware", "track"} /\ onStart \in BOOLEAN /\ active = FALSE /\ moved = FALSE /\ was = FALSE
  /\ source = [sequence |-> 0, generation |-> 0, discontinuity |-> FALSE] /\ entry = None
  /\ request = [count |-> 1, after |-> 0] /\ main = Idle /\ ring = <<>>
  /\ worker = [pc |-> "loop", hand |-> None, request |-> 0]
  /\ meter = [applied |-> 0, skip |-> 0, last |-> 0, generation |-> 0, dirty |-> TRUE] /\ added = {}

-----------------------------------------------------------------------------
(* Blocks. *)

\* StreamBuffer::publish: a full ring refuses the block, whose number is used all the same.
Published(s) == IF Len(ring) < RingSize THEN Append(ring, [sequence |-> s.sequence, generation |-> s.generation]) ELSE ring
\* The callback of the audio device, when the format or the gap since the last one is new or not.
Capture ==
  /\ kind = "hardware" /\ source.sequence < MaxBlocks
  /\ \E broken \in BOOLEAN :
       /\ broken => source.generation < MaxBreaks
       /\ source' = [source EXCEPT !.sequence = @ + 1, !.generation = IF broken THEN @ + 1 ELSE @]
  /\ ring' = Published(source') /\ UNCHANGED <<play, was, entry, request, main, thread>>
\* The same without a buffer or a channel.
CaptureFails ==
  /\ kind = "hardware" /\ source.generation < MaxBreaks /\ source' = [source EXCEPT !.generation = @ + 1]
  /\ UNCHANGED <<play, was, entry, request, main, ring, thread>>

Broken(s) == [s EXCEPT !.generation = @ + 1, !.discontinuity = TRUE]
Advanced(s) == [s EXCEPT !.sequence = @ + (IF s.discontinuity THEN 2 ELSE 1), !.discontinuity = FALSE]
\* meter_sample() once it is known whether the position broke: no block, one, one that is no audio, or
\* one of sources that have changed.
Blocks(s) == {s} \union (IF active THEN {Advanced(s), Broken(s), Advanced(Broken(s))} ELSE {})
Breaks == moved \/ (active /\ ~was /\ onStart)

-----------------------------------------------------------------------------
(* The main thread. *)

AsksReset(after) == main' = [pc |-> "store", after |-> after]
TickHardware ==
  /\ kind = "hardware" /\ main = Idle /\ (was # active \/ moved)
  /\ IF onStart /\ active /\ ~was THEN AsksReset(source.sequence) ELSE UNCHANGED main
  /\ was' = active /\ moved' = FALSE /\ UNCHANGED <<kind, onStart, active, source, entry, request, ring, thread>>
TickTrack ==
  /\ kind = "track" /\ main = Idle
  /\ source' \in Blocks(IF Breaks THEN Broken(source) ELSE source)
  /\ source' # source \/ was # active \/ moved
  /\ source'.generation <= MaxBreaks /\ source'.sequence <= MaxBlocks
  /\ was' = active /\ moved' = FALSE
  /\ entry' = [entry EXCEPT !.generation = source'.generation]
  /\ IF entry.generation # source'.generation THEN AsksReset(entry.sequence) ELSE main' = [Idle EXCEPT !.pc = "forward"]
  /\ UNCHANGED <<kind, onStart, active, request, ring, thread>>
\* reset_meter(), for the page
ResetMeter ==
  /\ main = Idle /\ AsksReset(source.sequence)
  /\ UNCHANGED <<play, was, source, entry, request, ring, thread>>
\* request_meter_reset(): reset_after, then reset_request
StoreAfter ==
  /\ main.pc = "store" /\ request.count < MaxResets
  /\ request' = [request EXCEPT !.after = main.after] /\ main' = [main EXCEPT !.pc = "count"]
  /\ UNCHANGED <<play, was, source, entry, ring, thread>>
CountRequest ==
  /\ main.pc = "count" /\ request' = [request EXCEPT !.count = @ + 1] /\ main' = [Idle EXCEPT !.pc = "forward"]
  /\ UNCHANGED <<play, was, source, entry, ring, thread>>
\* The rest of tick(): a block a track has given since the last time.
Forward ==
  /\ main.pc = "forward" /\ main' = Idle
  /\ IF kind = "track" /\ entry.sequence # source.sequence
     THEN entry' = [entry EXCEPT !.sequence = source.sequence] /\ ring' = Published(source)
     ELSE UNCHANGED <<entry, ring>>
  /\ UNCHANGED <<play, was, source, request, thread>>

-----------------------------------------------------------------------------
(* The analysis thread. *)

Now(pc) == [worker EXCEPT !.pc = pc]
mainThread == <<play, was, source, entry, request, main>>
\* run(): the requests of the meters first, then a block
Begin ==
  /\ worker.pc = "loop" /\ request.count # meter.applied /\ worker' = [Now("check") EXCEPT !.hand = None]
  /\ UNCHANGED <<mainThread, ring, meter, added>>
Take ==
  /\ worker.pc = "loop" /\ ring # <<>> /\ worker' = [Now("check") EXCEPT !.hand = Head(ring)] /\ ring' = Tail(ring)
  /\ UNCHANGED <<mainThread, meter, added>>
\* apply_reset(): reset_request, then reset_after
LoadRequest ==
  /\ worker.pc = "check"
  /\ worker' = [Now(IF request.count = meter.applied THEN "use" ELSE "apply") EXCEPT !.request = request.count]
  /\ UNCHANGED <<mainThread, ring, meter, added>>
Forgotten(m) == [m EXCEPT !.last = 0, !.dirty = TRUE]
\* Mutant: a reset forgets what was added up, and takes the blocks that wait.
AppliedAtOnce(m) == [Forgotten(m) EXCEPT !.applied = worker.request]
Applied(m) == [Forgotten(m) EXCEPT !.skip = request.after, !.applied = worker.request]
ApplyReset ==
  /\ worker.pc = "apply" /\ worker' = Now("use") /\ meter' = Applied(meter) /\ added' = {}
  /\ UNCHANGED <<mainThread, ring>>
\* analyze_packet() after that
Interrupts(p) ==
  \/ kind = "hardware" /\ p.generation # meter.generation
  \/ meter.last # 0 /\ p.sequence # meter.last + 1
Analyze ==
  /\ worker.pc = "use" /\ worker' = Now("loop")
  /\ LET p == worker.hand IN
     IF p = None \/ p.sequence <= meter.skip THEN UNCHANGED <<meter, added>>
     ELSE /\ added' = (IF Interrupts(p) THEN {} ELSE added) \union {p}
          /\ meter' = [meter EXCEPT !.last = p.sequence, !.generation = p.generation, !.dirty = TRUE]
  /\ UNCHANGED <<mainThread, ring>>
PublishMeter ==
  /\ worker.pc = "loop" /\ meter.dirty /\ meter' = [meter EXCEPT !.dirty = FALSE]
  /\ UNCHANGED <<mainThread, ring, worker, added>>

-----------------------------------------------------------------------------
\* REAPER starts, stops and jumps.
Plays == active' = ~active /\ UNCHANGED <<kind, onStart, moved, was, source, entry, request, main, ring, thread>>
Jumps ==
  kind = "track" /\ ~moved /\ moved' = TRUE /\ UNCHANGED <<kind, onStart, active, was, source, entry, request, main, ring, thread>>

Next ==
  \/ Capture \/ CaptureFails \/ TickHardware \/ TickTrack \/ ResetMeter \/ StoreAfter \/ CountRequest \/ Forward
  \/ Begin \/ Take \/ LoadRequest \/ ApplyReset \/ Analyze \/ PublishMeter \/ Plays \/ Jumps
Spec == Init /\ [][Next]_vars

-----------------------------------------------------------------------------
TypeOK ==
  /\ Len(ring) <= RingSize /\ worker.pc \in {"loop", "check", "use", "apply"} /\ main.pc \in {"idle", "store", "count", "forward"}
  /\ meter.applied <= request.count /\ source.sequence <= MaxBlocks

\* What a meter adds up is one stretch of audio without a hole: no block is missing in the
\* middle, and none is from before a jump, a stop of the device or a change of its format
\* (native_producers.cpp:299-302, 521).
Unbroken ==
  \A p, q \in added :
    /\ p.generation = q.generation
    /\ \A n \in p.sequence .. q.sequence : \E r \in added : r.sequence = n
\* And once a reset is applied nothing from before the request is in it or comes to it,
\* whatever waited in the ring and whichever request came in the middle (line 185).
AfterReset ==
  (worker.pc = "loop" /\ main.pc \notin {"count"} /\ request.count = meter.applied) => \A p \in added : p.sequence > request.after
MetersHonest == Unbroken /\ AfterReset
=============================================================================
