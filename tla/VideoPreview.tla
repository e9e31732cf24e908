---------------------------- MODULE VideoPreview ----------------------------
(***************************************************************************)
(* video.cpp and video/internal.cpp: the project's picture as one stream   *)
(* that all windows share.  Everything is on the main thread; between two  *)
(* ticks the user edits, plays, renders, changes the project and opens     *)
(* REAPER's own video window.  To get a picture the extension pretends     *)
(* that this window is visible: it writes REAPER's flag, and has to give   *)
(* it back.  A picture is all alike, but for its being of the present.     *)
(***************************************************************************)
EXTENDS Naturals

CONSTANTS
  MaxProjects,  \* bound on the projects and loads the user comes to
  MaxRefused    \* packets the ring may refuse, when its consumer is reading that very slot

VARIABLES
  project,    \* the project and its generation in REAPER
  moved,      \* an edit, a seek or another play state since the last tick that looked
  rendering,  \* REAPER renders
  window,     \* REAPER's video window is visible
  visible,    \* REAPER's flag for it
  module,     \* the video module is loaded, and known
  leased,     \* InternalVideo::leased
  stream,     \* handle, project, valid, discontinuity, had_consumers of the stream, sequence # 0
  consumers,  \* it has consumers
  old,        \* ten seconds since idle_at
  shown,      \* what consumers have last: "nothing", "black", "image" or "past"
  refused,    \* packets that were refused
  stopped     \* stopped

vars == <<project, moved, rendering, window, visible, module, leased, stream, consumers, old, shown, refused, stopped>>
user == <<project, rendering, window, module>>

Closed == [open |-> FALSE, project |-> 0, valid |-> FALSE, discontinuity |-> TRUE, had |-> FALSE]
Init ==
  /\ project = 1 /\ moved = TRUE /\ rendering = FALSE /\ window = FALSE /\ visible = FALSE /\ module \in BOOLEAN /\ leased = FALSE
  /\ stream = Closed /\ consumers = FALSE /\ old = FALSE /\ shown = "nothing" /\ refused = 0 /\ stopped = FALSE

-----------------------------------------------------------------------------
(* The backend: its lease and what a stream has, before and after. *)

State == [stream |-> stream, shown |-> shown, refused |-> refused, leased |-> leased, visible |-> visible]
Set(s) ==
  /\ stream' = s.stream /\ shown' = s.shown /\ refused' = s.refused /\ leased' = s.leased /\ visible' = s.visible
\* InternalVideo::stop()
Stopped(s) == IF s.leased THEN [s EXCEPT !.leased = FALSE, !.visible = IF module THEN window ELSE @] ELSE s
\* read() from where it takes the lease
Leased(s) == [s EXCEPT !.leased = TRUE, !.visible = TRUE]

\* publish(): the ring may refuse
Published(s, what) ==
  {[s EXCEPT !.shown = what]} \union (IF s.refused < MaxRefused THEN {[s EXCEPT !.refused = @ + 1]} ELSE {})
Invalid(s) == [s EXCEPT !.stream.valid = FALSE]
\* clear(): once, when there was an image
Cleared(s) == IF s.stream.valid THEN Published(Invalid(s), "black") ELSE {Invalid(s)}
\* capture()
Captured(s) == {[t EXCEPT !.stream.valid = TRUE] : t \in Published(s, "image")}
\* VideoManager's close()
Ended(s) == [Stopped(s) EXCEPT !.stream = Closed, !.shown = "nothing"]

-----------------------------------------------------------------------------
\* open(): joins the stream, or makes it with a black packet; a stream that cannot be made leaves nothing.
Open ==
  /\ ~stopped /\ module /\ old' = FALSE
  /\ IF stream.open THEN UNCHANGED <<moved, stream, shown, refused, leased, visible, consumers>>
     ELSE /\ moved' = TRUE /\ UNCHANGED consumers
          /\ \E s \in Published([State EXCEPT !.stream = [Closed EXCEPT !.open = TRUE, !.project = project]], "black") : Set(s)
  /\ UNCHANGED <<user, stopped>>
OpenFails ==
  /\ ~stopped /\ module /\ ~stream.open /\ Set(Ended(State)) /\ UNCHANGED <<user, moved, consumers, old, stopped>>

\* read(): what comes of it, and whether an image was taken.
Reads(s) ==
  IF rendering THEN {[state |-> Stopped(s), result |-> "none"]}
  ELSE {[state |-> Stopped(s), result |-> "none"],      \* a project without a frame rate
        [state |-> Leased(s), result |-> "none"],       \* nothing yet, no source, or a malformed image
        [state |-> Leased(s), result |-> "image"],
        [state |-> Leased(s), result |-> "throws"]}
Calm(s) == [s EXCEPT !.stream.discontinuity = FALSE]
After(r) ==
  CASE r.result = "image" -> Captured(Calm(r.state))
    [] r.result = "none" -> Cleared(Calm(r.state))
    [] r.result = "throws" -> {[t EXCEPT !.stream.discontinuity = TRUE] : t \in Cleared(Stopped(r.state))}
\* The rest of tick() when there are consumers: due says that the time for a picture has come.
Looked(s) == IF moved THEN Cleared([s EXCEPT !.stream.discontinuity = TRUE]) ELSE {s}
TickLooks ==
  /\ stream.open /\ stream.project = project /\ consumers /\ moved' = FALSE /\ old' = FALSE
  /\ \E s \in Looked([State EXCEPT !.stream.had = TRUE]) :
       \/ Set(s)
       \/ module /\ \E r \in Reads(s) : \E t \in After(r) : Set(t)
       \/ ~module /\ Set(Ended(s))
  /\ consumers' = (consumers /\ stream'.open) /\ UNCHANGED <<user, stopped>>
\* tick() of another project, or without consumers
TickEnds ==
  /\ stream.open /\ stream.project # project /\ Set(Ended(State)) /\ consumers' = FALSE /\ UNCHANGED <<user, moved, old, stopped>>
TickIdle ==
  /\ stream.open /\ stream.project = project /\ ~consumers
  /\ Set(IF stream.had \/ old THEN Ended(State) ELSE Stopped(State)) /\ UNCHANGED <<user, moved, consumers, old, stopped>>
Attach ==
  /\ stream.open /\ ~consumers /\ consumers' = TRUE
  /\ UNCHANGED <<user, moved, visible, leased, stream, old, shown, refused, stopped>>
\* The last one goes, close_window() among others.
Detach == consumers /\ consumers' = FALSE /\ UNCHANGED <<user, moved, visible, leased, stream, old, shown, refused, stopped>>
Ages == stream.open /\ ~old /\ old' = TRUE /\ UNCHANGED <<user, moved, visible, leased, stream, consumers, shown, refused, stopped>>
Shutdown ==
  /\ ~stopped /\ stopped' = TRUE /\ Set(Ended(State)) /\ consumers' = FALSE /\ UNCHANGED <<user, moved, old>>

-----------------------------------------------------------------------------
(* REAPER and its user. *)

Past == IF shown = "image" THEN "past" ELSE shown
Edits ==
  /\ ~moved /\ moved' = TRUE /\ shown' = Past
  /\ UNCHANGED <<user, visible, leased, stream, consumers, old, refused, stopped>>
ChangesProject ==
  /\ project < MaxProjects /\ project' = project + 1 /\ moved' = TRUE /\ shown' = Past
  /\ UNCHANGED <<rendering, window, module, visible, leased, stream, consumers, old, refused, stopped>>
Renders ==
  rendering' = ~rendering /\ UNCHANGED <<project, window, module, moved, visible, leased, stream, consumers, old, shown, refused, stopped>>
VideoWindow ==
  /\ module /\ window' = ~window /\ visible' = window'
  /\ UNCHANGED <<project, rendering, module, moved, leased, stream, consumers, old, shown, refused, stopped>>
Unloads ==
  /\ module /\ module' = FALSE
  /\ UNCHANGED <<project, rendering, window, moved, visible, leased, stream, consumers, old, shown, refused, stopped>>

Next ==
  \/ Open \/ OpenFails \/ TickLooks \/ TickEnds \/ TickIdle \/ Attach \/ Detach \/ Ages \/ Shutdown
  \/ Edits \/ ChangesProject \/ Renders \/ VideoWindow \/ Unloads
Spec == Init /\ [][Next]_vars

-----------------------------------------------------------------------------
TypeOK == /\ shown \in {"nothing", "black", "image", "past"} /\ project \in 1 .. MaxProjects /\ refused \in 0 .. MaxRefused
          /\ (consumers => stream.open)

\* A consumer's picture is of the present or not older than the last tick, and "ready" is said of a
\* picture and of nothing else (docs/video-preview.md:58-60).
PictureCurrent ==
  /\ shown = "past" => moved
  /\ stream.valid <=> shown \in {"image", "past"}
\* REAPER's flag is its own again whenever the extension has no lease, and no lease outlives its stream.
FlagReturned ==
  /\ (~leased /\ module) => visible = window
  /\ leased => stream.open
VideoHonest == PictureCurrent /\ FlagReturned
=============================================================================
