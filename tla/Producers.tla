------------------------------ MODULE Producers ------------------------------
(***************************************************************************)
(* The built-in producers of native_producers.cpp: audio, spectra, meters  *)
(* and waveforms of the hardware or of a track, and the history of MIDI    *)
(* input.  The main thread makes, opens and closes them and the analysis   *)
(* thread may mark any of them, or fail as a whole, at any moment.  A      *)
(* producer makes one thing of what it hears: its kind is "audio" or       *)
(* "midi", its source one of the two sides of the hardware, or a track.    *)
(***************************************************************************)
EXTENDS Naturals, Sequences, FiniteSets

CONSTANTS
  Windows,
  Sources,    \* "input", "output" and the tracks
  Limit,      \* producers at a time (8)
  History,    \* events REAPER remembers, and a tick asks for (256)
  MaxNames,   \* bound on counter
  MaxEvents   \* bound on the events of the MIDI input

VARIABLES
  counter,    \* counter, which numbers names
  entries,    \* entries
  users,      \* Capture::users of the two sides of the hardware
  failed,     \* worker_failed
  asked,      \* what audio() has checked and not yet made
  broken,     \* TrackSource::error of the shared sources, by number
  opened,     \* the streams that are open in the hub
  consumers,  \* the streams with consumers
  events,     \* the MIDI input: the device of each event, "long" when it does not fit
  midi,       \* last_midi, midi_initialized, and (history) the events no tick has seen
  got         \* the events each MIDI stream was given

vars == <<counter, entries, users, failed, asked, broken, opened, consumers, events, midi, got>>

Hardware == {"input", "output"}
Nothing == [window |-> 0, source |-> "none"]
Init ==
  /\ counter = 0 /\ entries = {} /\ users = [s \in Hardware |-> 0] /\ failed = FALSE /\ asked = Nothing /\ broken = {}
  /\ opened = {} /\ consumers = {} /\ events = <<>> /\ midi = [last |-> 0, initialized |-> FALSE, unseen |-> {}]
  /\ got = [n \in 1 .. MaxNames |-> <<>>]

hub == <<opened, consumers>>
input == <<events, midi, got>>
Audio == {e \in entries : e.kind = "audio"}
Midi == {e \in entries : e.kind = "midi"}

-----------------------------------------------------------------------------
(* Leaving. *)

Uses(e, s) == e.kind = "audio" /\ e.source = s
\* close() of some entries
Closed(gone) ==
  /\ opened' = opened \ {e.name : e \in gone} /\ consumers' = consumers \ {e.name : e \in gone}
  /\ users' = [s \in Hardware |-> users[s] - Cardinality({e \in gone : Uses(e, s)})]
Marked(e) == [e EXCEPT !.attached = @ \/ e.name \in consumers]
Leaves(e) == e.error \/ (e.name \notin consumers /\ (e.attached \/ e.old))
\* reap()
Reaped == {Marked(e) : e \in {f \in entries : ~Leaves(f)}}
Reap == {e \in entries : Leaves(e)}
CloseWindow(w) ==
  LET mine == {e \in entries : e.window = w}
      gone == {e \in mine : e.name \notin consumers}
  IN /\ mine # {} /\ asked = Nothing /\ Closed(gone)
     /\ entries' = (entries \ mine) \union {[e EXCEPT !.window = 0] : e \in mine \ gone}
     /\ UNCHANGED <<counter, failed, asked, broken, input>>

-----------------------------------------------------------------------------
(* Coming. *)

\* audio(), up to the second look at the number of producers.  A source that is not available ends it.
AudioAsked(w, s) ==
  /\ asked = Nothing /\ ~failed /\ counter < MaxNames /\ entries' = Reaped /\ Closed(Reap)
  /\ asked' = IF Cardinality(Reaped) < Limit THEN [window |-> w, source |-> s] ELSE Nothing
  /\ UNCHANGED <<counter, failed, broken, input>>
\* A track source is shared unless it has failed.
Shared(s) == {e.shared : e \in {f \in Audio : f.source = s /\ f.shared \notin broken}}
ShareOf(s) == IF s \in Hardware THEN {0} ELSE IF Shared(s) # {} THEN Shared(s) ELSE {counter + 1}
NewEntry(kind, w, s, share) ==
  [name |-> counter + 1, kind |-> kind, window |-> w, source |-> s, shared |-> share, attached |-> FALSE, old |-> FALSE, error |-> FALSE]
NewAudio(w, s, share) == [NewEntry("audio", w, s, share) EXCEPT !.error = failed]
\* The rest of it, under the lock.
AudioMade ==
  /\ asked # Nothing /\ counter' = counter + 1 /\ asked' = Nothing /\ opened' = opened \union {counter'}
  /\ \E share \in ShareOf(asked.source) : entries' = entries \union {NewAudio(asked.window, asked.source, share)}
  /\ users' = [s \in Hardware |-> users[s] + (IF s = asked.source THEN 1 ELSE 0)]
  /\ UNCHANGED <<failed, broken, consumers, input>>
AudioRefused == asked # Nothing /\ asked' = Nothing /\ UNCHANGED <<counter, entries, users, failed, broken, hub, input>>
\* midi()
MidiMade(w, device) ==
  /\ asked = Nothing /\ counter < MaxNames /\ Cardinality(entries) < Limit /\ counter' = counter + 1
  /\ opened' = opened \union {counter'} /\ entries' = entries \union {NewEntry("midi", w, device, 0)}
  /\ UNCHANGED <<users, failed, asked, broken, consumers, input>>
\* attached(), when a page opens the stream, whose consumer comes and goes.
Attached(e) ==
  /\ ~e.attached /\ entries' = (entries \ {e}) \union {[e EXCEPT !.attached = TRUE]}
  /\ consumers' = consumers \union {e.name} /\ UNCHANGED <<counter, users, failed, asked, broken, opened, input>>
Consumer ==
  /\ \E n \in opened : consumers' = (IF n \in consumers THEN consumers \ {n} ELSE consumers \union {n})
  /\ UNCHANGED <<counter, entries, users, failed, asked, broken, opened, input>>
\* Ten seconds without a consumer.
Ages(e) ==
  /\ ~e.attached /\ ~e.old /\ entries' = (entries \ {e}) \union {[e EXCEPT !.old = TRUE]}
  /\ UNCHANGED <<counter, users, failed, asked, broken, hub, input>>

-----------------------------------------------------------------------------
(* Failing. *)

\* analyze(), for one entry
AnalysisFails(e) ==
  /\ e.kind = "audio" /\ ~e.error /\ entries' = (entries \ {e}) \union {[e EXCEPT !.error = TRUE]}
  /\ UNCHANGED <<counter, users, failed, asked, broken, hub, input>>
\* run(), under the lock
WorkerFails ==
  /\ ~failed /\ failed' = TRUE /\ entries' = Midi \union {[e EXCEPT !.error = TRUE] : e \in Audio}
  /\ UNCHANGED <<counter, users, asked, broken, hub, input>>
\* sample(): the track of a source that some page listens to is gone.
Listened == {e.shared : e \in {f \in Audio : f.attached /\ f.shared # 0}} \ broken

-----------------------------------------------------------------------------
(* tick() *)

\* The events a tick asks for, until it meets the last one it knows.
Recent == {n \in DOMAIN events : n + History > Len(events) /\ (n > midi.last)}
Fitting == {n \in Recent : events[n] # "long"}
Newest(s) == CHOOSE n \in s : \A m \in s : m <= n
Read == IF midi.initialized THEN Fitting ELSE {}
Hears(e, n) == e.kind = "midi" /\ e.source \in {"all", events[n]}
Delivered(s, name, here) ==
  LET mine == {n \in s : \E e \in here : e.name = name /\ Hears(e, n)}
  IN SelectSeq([n \in 1 .. Len(events) |-> n], LAMBDA n : n \in mine)
MidiRead(here) ==
  IF ~\E e \in here : e.kind = "midi" THEN midi' = [midi EXCEPT !.initialized = FALSE] /\ UNCHANGED got
  ELSE /\ midi' = [initialized |-> TRUE,
                   last |-> IF Read # {} THEN Newest(Read)
                            ELSE IF ~midi.initialized /\ events # <<>> THEN Len(events) ELSE midi.last,
                   unseen |-> midi.unseen \union {n \in DOMAIN events : n + History <= Len(events) /\ n > midi.last}]
       /\ got' = [name \in DOMAIN got |-> got[name] \o Delivered(Read, name, here)]
Tick ==
  /\ asked = Nothing /\ Closed(Reap)
  /\ \E gone \in SUBSET Listened :
       /\ broken' = broken \union gone
       /\ entries' = {[e EXCEPT !.error = @ \/ (e.attached /\ e.shared \in broken')] : e \in Reaped}
  /\ MidiRead(Reaped) /\ UNCHANGED <<counter, failed, asked, events>>
\* REAPER: an event of an input.
Event(device) == Len(events) < MaxEvents /\ events' = Append(events, device)
                 /\ UNCHANGED <<counter, entries, users, failed, asked, broken, hub, midi, got>>

Next ==
  \/ \E w \in Windows : CloseWindow(w) \/ (\E s \in Sources : AudioAsked(w, s)) \/ \E d \in {"all", "a"} : MidiMade(w, d)
  \/ AudioMade \/ AudioRefused \/ Consumer \/ WorkerFails \/ Tick
  \/ \E e \in entries : Attached(e) \/ Ages(e) \/ AnalysisFails(e)
  \/ \E d \in {"a", "b", "long"} : Event(d)
Spec == Init /\ [][Next]_vars

-----------------------------------------------------------------------------
TypeOK == counter <= MaxNames /\ Cardinality(entries) <= Limit /\ \A e \in entries : e.name \in 1 .. counter

\* The audio callback copies blocks exactly while something listens to that side, through every
\* failure, expiry and window that closes; and the hub has no stream without its producer.
HeardExactly ==
  /\ \A s \in Hardware : users[s] = Cardinality({e \in Audio : e.source = s})
  /\ opened = {e.name : e \in entries}
\* No producer is left waiting for an analysis that will never come, even one that was being made
\* when the thread failed (line 446).
FailureReachesAll == failed => \A e \in Audio : e.error
\* A MIDI stream has every event of its device once and in order, from its first one on, except
\* those the host had forgotten or that are too long.
EventsOnce ==
  \A e \in Midi : LET g == got[e.name] IN
    /\ \A i \in 2 .. Len(g) : g[i - 1] < g[i]
    /\ g # <<>> => \A n \in g[1] .. midi.last : n \in {g[i] : i \in DOMAIN g} \/ n \in midi.unseen \/ ~Hears(e, n) \/ events[n] = "long"
ProducersHonest == HeardExactly /\ FailureReachesAll /\ EventsOnce
=============================================================================
