------------------------------ MODULE WinDevTools ------------------------------
(***************************************************************************)
(* The inspectors of the Windows back end (windows/win_devtools.hpp).      *)
(* WebView2 only opens an inspector; its native frame, a window of the one *)
(* browser process, appears later, and a page claims the frame that was    *)
(* not there before.  A claimed frame is embedded in the page's window or  *)
(* floats; the user hides, moves and closes it.                            *)
(***************************************************************************)
EXTENDS Naturals, FiniteSets

CONSTANTS
  Windows,     \* windows with a page, numbers above 0
  Frames,      \* native frames
  MaxLate,     \* bound on openings whose frame appears after the deadline
  MaxPresses   \* bound on presses of the shortcut

VARIABLES
  opening,  \* opening_: the page whose frame is awaited, 0 for none
  dev,      \* the WinDevTools of each page
  frame,    \* the frames; of = 0 for one that does not exist
  asked,    \* pages whose frame WebView2 still has to make
  late,     \* openings given up so far
  key,      \* down and consumed of the keyboard hook
  posted,   \* toggles on their way to a window
  toggles   \* history: toggles posted and presses of the shortcut

vars == <<opening, dev, frame, asked, late, key, posted, toggles>>

\* at is "open", "broken" (the window has been destroyed) or "gone".
Fresh(floating) ==
  [at |-> "open", frame |-> 0, hosted |-> FALSE, requested |-> FALSE, pending |-> FALSE, before |-> {},
   floating |-> floating, fallback |-> "none", renderer |-> FALSE]
NoFrame == [of |-> 0, by |-> 0, content |-> FALSE, child |-> FALSE, shown |-> FALSE]
Init ==
  /\ opening = 0 /\ dev \in [Windows -> {Fresh(FALSE), Fresh(TRUE)}] /\ frame = [f \in Frames |-> NoFrame] /\ asked = {}
  /\ late = 0 /\ key = [down |-> FALSE, consumed |-> FALSE] /\ posted = 0 /\ toggles = [posted |-> 0, presses |-> 0]

Live(w) == dev[w].at = "open"
\* valid(): the frame is there and bears the mark.
Valid(w) == dev[w].frame # 0 /\ frame[dev[w].frame].by = w
\* candidates(): frames nobody has claimed.
Candidates == {f \in Frames : frame[f].of # 0 /\ frame[f].by = 0}
Quiet == UNCHANGED <<late, key, posted, toggles>>

-----------------------------------------------------------------------------
(* A page and its frame: z.d is the WinDevTools, z.f the frame. *)

Of(w) == [d |-> dev[w], f |-> frame[dev[w].frame]]
Hidden(z) == [z EXCEPT !.d.requested = FALSE, !.f.shown = FALSE]
\* restore_native(): the frame leaves the panel.
Native(z) == IF z.d.hosted THEN [z EXCEPT !.d.hosted = FALSE, !.f.child = FALSE, !.f.shown = FALSE] ELSE z
\* attach(): the frame enters the panel, unless it has no content yet or cannot be hosted.
Attached(z) ==
  LET t == [z EXCEPT !.d.renderer = z.f.content]
  IN IF ~z.f.content THEN {[t EXCEPT !.d.fallback = "bounds"]}
     ELSE {[t EXCEPT !.d.fallback = "hosting"], [t EXCEPT !.d.hosted = TRUE, !.f.child = TRUE, !.f.shown = FALSE]}
\* present()
Presented(z) ==
  LET moved == IF z.d.floating /\ z.d.hosted THEN {Native(z)}
               ELSE IF ~z.d.floating /\ ~z.d.hosted /\ z.d.fallback = "none" THEN Attached(z) ELSE {z}
  IN {[t EXCEPT !.f.shown = t.d.requested] : t \in moved}
Becomes(w, z) == dev' = [dev EXCEPT ![w] = z.d] /\ frame' = [frame EXCEPT ![z.d.frame] = z.f]
\* lost(): the user has closed the frame.
Lost(d) ==
  [d EXCEPT !.frame = 0, !.renderer = FALSE, !.hosted = FALSE, !.requested = FALSE, !.fallback = "none"]
Settled(w) == IF dev[w].frame # 0 /\ ~Valid(w) THEN Lost(dev[w]) ELSE dev[w]

\* open() and toggle() with a hidden inspector
Open(w) ==
  /\ Live(w) /\ UNCHANGED <<opening, asked>>
  /\ IF Valid(w) THEN \E z \in Presented([Of(w) EXCEPT !.d.requested = TRUE]) : Becomes(w, z)
     ELSE dev' = [dev EXCEPT ![w] = [Settled(w) EXCEPT !.requested = TRUE]] /\ UNCHANGED frame
\* hide(), also the close button of the panel
Hide(w) ==
  /\ Live(w) /\ UNCHANGED <<opening, asked>>
  /\ IF Valid(w) THEN Becomes(w, Hidden(Of(w)))
     ELSE dev' = [dev EXCEPT ![w].requested = FALSE] /\ UNCHANGED frame
\* The message of the keyboard hook arrives.
Toggle(w) ==
  /\ posted > 0 /\ posted' = posted - 1 /\ UNCHANGED <<late, key, toggles>>
  /\ IF Settled(w).requested THEN Hide(w) ELSE Open(w)
\* perform() with Float or Embed
Mode(w) ==
  /\ Live(w) /\ Valid(w) /\ dev[w].requested /\ Of(w).f.shown /\ (dev[w].hosted \/ dev[w].fallback = "none")
  /\ \E v \in BOOLEAN : \E z \in Presented([Of(w) EXCEPT !.d.floating = v]) : Becomes(w, z)
  /\ UNCHANGED <<opening, asked>>

-----------------------------------------------------------------------------
(* tick(), and what happens to frames by themselves. *)

\* The frame is there; a floating one without content is looked at again.
TickValid(w) ==
  /\ Live(w) /\ Valid(w) /\ ~dev[w].hosted /\ ~dev[w].renderer /\ Of(w).f.content
  /\ \E z \in Presented([Of(w) EXCEPT !.d.renderer = TRUE, !.d.fallback = "none"]) : Becomes(w, z)
  /\ UNCHANGED <<opening, asked>> /\ Quiet
TickLost(w) ==
  /\ Live(w) /\ Settled(w) # dev[w] /\ dev' = [dev EXCEPT ![w] = Settled(w)]
  /\ UNCHANGED <<opening, asked, frame>> /\ Quiet
\* OpenDevToolsWindow(), which may fail; one page at a time.
TickOpens(w) ==
  /\ Live(w) /\ ~Valid(w) /\ Settled(w) = dev[w] /\ ~dev[w].pending /\ dev[w].requested /\ opening = 0
  /\ \/ /\ dev' = [dev EXCEPT ![w] = [@ EXCEPT !.before = Candidates, !.pending = TRUE]] /\ opening' = w
        /\ asked' = asked \union (IF \E f \in Frames : frame[f].of = w THEN {} ELSE {w})
     \/ dev' = [dev EXCEPT ![w].requested = FALSE] /\ UNCHANGED <<opening, asked>>
  /\ UNCHANGED frame /\ Quiet
\* The one new frame is claimed; an embedded inspector waits for its content or the deadline.
Claimable(w) == {f \in Candidates \ dev[w].before : frame[f].shown /\ Cardinality(Candidates \ dev[w].before) = 1}
Claims(w, expired) ==
  \E f \in Claimable(w) :
    /\ dev[w].floating \/ frame[f].content \/ expired
    /\ \E z \in Presented([d |-> [dev[w] EXCEPT !.frame = f, !.renderer = frame[f].content, !.pending = FALSE, !.before = {}],
                           f |-> [frame[f] EXCEPT !.by = w]]) : Becomes(w, z)
TickClaims(w) ==
  /\ Live(w) /\ dev[w].pending /\ \E expired \in BOOLEAN : Claims(w, expired)
  /\ opening' = 0 /\ UNCHANGED asked /\ Quiet
\* Ten seconds have passed and there is no such frame.
TickExpires(w) ==
  /\ Live(w) /\ dev[w].pending /\ Claimable(w) = {}
  /\ late' = late + (IF w \in asked THEN 1 ELSE 0) /\ late' <= MaxLate
  /\ dev' = [dev EXCEPT ![w] = [@ EXCEPT !.pending = FALSE, !.requested = FALSE, !.before = {}]] /\ opening' = 0
  /\ UNCHANGED <<asked, frame, key, posted, toggles>>
Appears(w) ==
  /\ w \in asked /\ asked' = asked \ {w}
  /\ \E f \in Frames : \E content \in BOOLEAN :
       frame[f].of = 0 /\ frame' = [frame EXCEPT ![f] = [NoFrame EXCEPT !.of = w, !.content = content, !.shown = TRUE]]
  /\ UNCHANGED <<opening, dev>> /\ Quiet
Content(f) ==
  frame[f].of # 0 /\ ~frame[f].content /\ frame' = [frame EXCEPT ![f].content = TRUE]
  /\ UNCHANGED <<opening, dev, asked>> /\ Quiet
\* The user closes a floating inspector.
Closes(f) ==
  frame[f].of # 0 /\ ~frame[f].child /\ frame' = [frame EXCEPT ![f] = NoFrame]
  /\ UNCHANGED <<opening, dev, asked>> /\ Quiet

-----------------------------------------------------------------------------
(* The end of a window; the shortcut. *)

\* REAPER destroys the window and what is inside.
Break(w) ==
  /\ Live(w) /\ dev' = [dev EXCEPT ![w].at = "broken"] /\ UNCHANGED <<opening, asked>> /\ Quiet
  /\ frame' = [f \in Frames |-> IF frame[f].child /\ frame[f].by = w THEN NoFrame ELSE frame[f]]
\* What the destructor leaves in opening_.
OpeningAfter(w) == IF opening = w THEN 0 ELSE opening
\* ~WinDevTools() after detach(); the page goes, and its inspector.
Close(w) ==
  /\ dev[w].at # "gone" /\ opening' = OpeningAfter(w) /\ asked' = asked \ {w} /\ Quiet
  /\ dev' = [dev EXCEPT ![w] = [Fresh(FALSE) EXCEPT !.at = "gone"]]
  /\ frame' = [f \in Frames |-> IF frame[f].of = w THEN NoFrame
                 ELSE IF frame[f].by = w THEN [Native(Of(w)).f EXCEPT !.by = 0, !.shown = FALSE] ELSE frame[f]]
\* DevToolsKeys::keyboard(): combo says that the keys are those of the shortcut and a page has the focus.
KeyDown(combo) ==
  /\ toggles.presses + (IF key.down THEN 0 ELSE 1) <= MaxPresses
  /\ key' = [down |-> TRUE, consumed |-> key.consumed \/ combo]
  /\ LET post == combo /\ ~key.consumed /\ ~key.down
     IN /\ posted' = posted + (IF post THEN 1 ELSE 0)
        /\ toggles' = [posted |-> toggles.posted + (IF post THEN 1 ELSE 0),
                       presses |-> toggles.presses + (IF key.down THEN 0 ELSE 1)]
  /\ UNCHANGED <<opening, dev, frame, asked, late>>
KeyUp == key.down /\ key' = [down |-> FALSE, consumed |-> FALSE] /\ UNCHANGED <<opening, dev, frame, asked, late, posted, toggles>>

Next ==
  \/ \E w \in Windows :
       \/ Toggle(w) \/ (Quiet /\ (Open(w) \/ Hide(w) \/ Mode(w)))
       \/ TickValid(w) \/ TickLost(w) \/ TickOpens(w) \/ TickClaims(w) \/ TickExpires(w) \/ Appears(w) \/ Break(w) \/ Close(w)
  \/ \E f \in Frames : Content(f) \/ Closes(f)
  \/ \E combo \in BOOLEAN : KeyDown(combo)
  \/ KeyUp
Spec == Init /\ [][Next]_vars

-----------------------------------------------------------------------------
TypeOK ==
  /\ opening \in Windows \union {0} /\ asked \subseteq Windows /\ late \in 0 .. MaxLate
  /\ \A w \in Windows : dev[w].frame \in Frames \union {0} /\ dev[w].before \subseteq Frames
  /\ \A f \in Frames : frame[f].of \in Windows \union {0} /\ frame[f].by \in Windows \union {0}
\* A page that opens its inspector gets its own frame and no other (win_devtools.hpp:348), as
\* long as frames appear before the deadline; the place in opening_ is given up whatever
\* happens to the page that holds it; a claimed frame is where the user wants it and seen
\* only while it is wanted; no frame stays inside a window that has gone (:149); and a key that
\* is held toggles once.
InspectorKept ==
  /\ \A w \in Windows : Live(w) => (dev[w].pending <=> opening = w)
  /\ \A w \in Windows : Valid(w) => frame[dev[w].frame].of = w
  /\ \A w \in Windows : Live(w) /\ Valid(w) =>
       LET d == dev[w] f == frame[d.frame]
       IN f.child = d.hosted /\ f.shown = d.requested /\ (d.hosted \/ d.floating \/ d.fallback # "none") /\ ~(d.hosted /\ d.floating)
  /\ \A f \in Frames : frame[f].child => frame[f].by # 0 /\ Live(frame[f].by)
  /\ opening # 0 => dev[opening].at # "gone"
  /\ toggles.posted <= toggles.presses
=============================================================================
