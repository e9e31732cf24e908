--------------------------- MODULE AggregateSource ---------------------------
(***************************************************************************)
(* aggregate_source.cpp: what a track hears of the project, before its own *)
(* effects, is summed from the tracks that feed it, as mutes and solos     *)
(* have it.  A read is bounded in time and goes on in the next tick; the   *)
(* user changes the project meanwhile.  A track is a place in REAPER's     *)
(* memory, which another track may get; its GUID tells them apart.         *)
(***************************************************************************)
EXTENDS Naturals, FiniteSets

CONSTANTS
  Tracks,    \* 1 .. n, in the order of the project
  Root,      \* the track that listens
  ParentOf,  \* the folder of each track, 0 for none
  Sends,     \* the sends <<from, to>> there may be
  Editable,  \* what the user changes: "main", "mute", "solo", "send", "track"
  MaxGuids   \* bound on the tracks a place is given to

VARIABLES
  project,   \* [main, muted, solo, sends, guid]
  block,     \* block_included, as a set
  done,      \* the tracks that are in sum
  reading,   \* reading
  stale,     \* the project has another revision than the block
  sources,   \* sources: the accessors, each a track and the GUID it was made for
  moved,     \* generation is another than at the last whole block
  last,      \* history: the accessors of the last whole block
  told       \* history: it came from the same ones as the one before, or generation has moved

vars == <<project, block, done, reading, stale, sources, moved, last, told>>

Solos == {"no", "plain", "in place", "defeat"}
Init ==
  /\ project = [main |-> Tracks, muted |-> {}, solo |-> [t \in Tracks |-> "no"], sends |-> Sends, guid |-> [t \in Tracks |-> 1]]
  /\ block = {} /\ done = {} /\ reading = FALSE /\ stale = TRUE /\ sources = {} /\ moved = FALSE
  /\ last = {} /\ told = TRUE

-----------------------------------------------------------------------------
(* collect() *)

\* A track and the folders above it, as far as each sends to its folder.
Chain(p) ==
  LET up[t \in Tracks] == {t} \union (IF t \in p.main /\ ParentOf[t] # 0 THEN up[ParentOf[t]] ELSE {}) IN up
Muted(p) == LET up == Chain(p) IN {t \in Tracks : up[t] \cap p.muted # {}}
Connected(p) ==
  LET silent == Muted(p) IN
  {e \in {<<t, ParentOf[t]>> : t \in p.main} \union p.sends : e[2] # 0 /\ {e[1], e[2]} \cap silent = {}}
\* visit(): everything one can come to from some tracks along edges, muted ones left out.
Visited(p, from, edges) ==
  LET step[n \in 0 .. Cardinality(Tracks)] ==
        IF n = 0 THEN from \ Muted(p) ELSE LET s == step[n - 1] IN s \union {e[2] : e \in {d \in edges : d[1] \in s}}
  IN step[Cardinality(Tracks)]
Backwards(edges) == {<<e[2], e[1]>> : e \in edges}
Seeds(p) == {t \in Tracks : p.solo[t] # "no"}
Content(p) == Visited(p, Seeds(p), Backwards(Connected(p)))
InPlace(p) == Visited(p, {t \in Seeds(p) : p.solo[t] # "plain"}, Connected(p))
ParentPath(p) == LET up == Chain(p) IN UNION {up[t] : t \in {s \in Seeds(p) : p.solo[s] = "plain"} \ Muted(p)}
OpenEdges(p) ==
  LET content == Content(p)  inPlace == InPlace(p)  path == ParentPath(p) \cap p.main IN
  {e \in Connected(p) : e[2] \in content \/ e[1] \in inPlace \/ (e[1] \in path /\ ParentOf[e[1]] = e[2])}
Included(p) ==
  IF Seeds(p) = {} THEN Visited(p, {Root}, Backwards(Connected(p)))
  ELSE Visited(p, {Root}, Backwards(OpenEdges(p))) \cap Content(p)
\* The same for the layout, which no mute and no solo changes; channels() goes through it.
Bare(p) == [p EXCEPT !.muted = {}, !.solo = [t \in Tracks |-> "no"]]
Layout(p) == Included([Bare(p) EXCEPT !.sends = Sends]) \union {Root}

-----------------------------------------------------------------------------
(* read() *)

Wanted(s) == {<<t, project.guid[t]>> : t \in s}
Kept(s) == sources \cap Wanted(s)
\* The block a read goes on with, or begins.
Blocks(again) ==
  IF reading /\ ~stale /\ ~again THEN {[tracks |-> block, done |-> done, sources |-> sources]}
  ELSE {[tracks |-> t, done |-> {}, sources |-> Kept(t)] : t \in {Included(project)}}
\* The next tracks of a block in its order, to where time is up.
Steps(b) == {s \in SUBSET (b.tracks \ b.done) : \A t \in s : \A u \in b.tracks \ b.done : u < t => u \in s}
\* The accessors after that; a track whose place has one gets no other.
Made(b, s) == b.sources \union {a \in Wanted(s) : \A c \in b.sources : c[1] # a[1]}
Gone == project.guid[Root] # 1
\* heard: an accessor says that it has changed
ReadTo(b, s, heard) ==
  LET whole == b.done \union s = b.tracks
      now == moved \/ heard \/ Made(b, s) # sources
  IN /\ block' = b.tracks /\ done' = b.done \union s /\ sources' = Made(b, s) /\ reading' = ~whole /\ stale' = FALSE
     /\ moved' = (now /\ ~whole)
     /\ IF whole THEN last' = sources' /\ told' = (sources' = last \/ now) ELSE UNCHANGED <<last, told>>
Read ==
  /\ ~Gone /\ UNCHANGED project
  /\ \E again \in BOOLEAN : \E b \in Blocks(again) : \E s \in Steps(b) : \E heard \in {FALSE, s # {}} : ReadTo(b, s, heard)
\* The track that listens is gone.
ReadGone == Gone /\ reading /\ reading' = FALSE /\ UNCHANGED <<project, block, done, stale, sources, moved, last, told>>
\* REAPER makes no accessor after some of the tracks.
ReadFails ==
  /\ ~Gone /\ reading' = FALSE /\ stale' = FALSE /\ UNCHANGED <<project, last, told>>
  /\ \E b \in Blocks(FALSE) : \E s \in Steps(b) :
       /\ b.done \union s # b.tracks /\ sources' = Made(b, s) /\ done' = b.done \union s /\ block' = b.tracks
       /\ moved' = (moved \/ sources' # sources)

-----------------------------------------------------------------------------
\* The user.
Changed(what, p) == what \in Editable /\ project' = p /\ stale' = TRUE /\ UNCHANGED <<block, done, reading, sources, moved, last, told>>
Toggled(s, x) == IF x \in s THEN s \ {x} ELSE s \union {x}
Edit ==
  \/ \E t \in Tracks : Changed("main", [project EXCEPT !.main = Toggled(@, t)])
  \/ \E t \in Tracks : Changed("mute", [project EXCEPT !.muted = Toggled(@, t)])
  \/ \E t \in Tracks, s \in Solos : s # project.solo[t] /\ Changed("solo", [project EXCEPT !.solo[t] = s])
  \/ \E e \in Sends : Changed("send", [project EXCEPT !.sends = Toggled(@, e)])
  \/ \E t \in Tracks : project.guid[t] < MaxGuids /\ Changed("track", [project EXCEPT !.guid[t] = @ + 1])

Next == Read \/ ReadGone \/ ReadFails \/ Edit
Spec == Init /\ [][Next]_vars

-----------------------------------------------------------------------------
TypeOK == done \subseteq block /\ block \subseteq Tracks /\ \A a \in sources : a[2] \in 1 .. MaxGuids

\* Reference: the tracks with a way through the project to another.
Ways == UNION {[1 .. n -> Tracks] : n \in 1 .. Cardinality(Tracks)}
Feeding(p, t) ==
  LET edges == Connected(p)
      ways == {w \in Ways : \A i \in DOMAIN w \ {1} : <<w[i - 1], w[i]>> \in edges}
  IN {w[1] : w \in {v \in ways : v[Cardinality(DOMAIN v)] = t}} \ Muted(p)
\* No part of a sum is ever given, nor a sum of tracks the project no longer has together:
\* what a whole block is made of is every track that feeds the root; its accessors were made
\* for the tracks that are there now; and whoever adds blocks up is told when they come from
\* other accessors (aggregate_source.hpp:12, native_producers.cpp:90).
WholeSum ==
  /\ (~stale /\ ~reading /\ done = block) =>
       /\ Seeds(project) = {} => block = Feeding(project, Root)
       /\ last = Wanted(block)
  /\ told
\* A solo only silences: it lets nothing through that is silent without it, or that
\* feeds no soloed track, and a track that is soloed in place is heard as before; and the root has the channels for all that it hears.
SoloOnlySilences ==
  (~stale /\ ~reading /\ done = block) =>
    LET without == Included([project EXCEPT !.solo = [t \in Tracks |-> "no"]]) IN
      /\ block \subseteq without /\ block \subseteq Layout(project)
      /\ Seeds(project) # {} =>
           /\ {t \in without : project.solo[t] \in {"in place", "defeat"}} \subseteq block
           /\ block \subseteq UNION {Feeding(project, t) : t \in Seeds(project)}
SumsHonest == WholeSum /\ SoloOnlySilences
=============================================================================
