------------------------------ MODULE MacDevTools ------------------------------
(***************************************************************************)
(* The inspector of a page on macOS (macos/mac_devtools.hpp).  WebKit shows*)
(* its inspector in a window of its own; the timer finds the view in it,   *)
(* has a script put into it, and moves the view beside the page and back.  *)
(* The script answers later, when the view may be gone.                    *)
(***************************************************************************)
EXTENDS Naturals

CONSTANT MaxFronts   \* bound on the inspectors WebKit makes

VARIABLES
  native,   \* what WebKit does: "none", "opening", "shown"
  front,    \* the inspector views made so far; the last one is the present one
  inside,   \* WebKit has put it into the page's window by itself
  where,    \* the container of each view: "native" or "page"
  window,   \* WebKit's window is in front
  flights,  \* views whose script has not answered
  ready,    \* views the script has prepared
  raised,   \* WebKit's window has been raised since the last turn of the timer
  d         \* the MacDevTools

vars == <<native, front, inside, where, window, flights, ready, raised, d>>

Init ==
  /\ native = "none" /\ front = 0 /\ inside = FALSE /\ where = [f \in 1 .. MaxFronts |-> "native"] /\ window = FALSE
  /\ flights = {} /\ ready = {} /\ raised = FALSE
  /\ \E access, floating \in BOOLEAN :
       d = [requested |-> FALSE, pending |-> FALSE, preparing |-> FALSE, prepared |-> FALSE, frontend |-> 0, hosted |-> FALSE,
            needed |-> FALSE, seen |-> FALSE, access |-> access, embedding |-> access, floating |-> floating]

Shown == native = "shown"
\* return_to_native()
Back(x) == [x EXCEPT !.hosted = FALSE]
WhereBack(x) == IF x.hosted THEN [where EXCEPT ![x.frontend] = "native"] ELSE where
\* Mutant: a script under way is still waited for.
ForgottenWaits(x) == [Back(x) EXCEPT !.frontend = 0, !.prepared = FALSE]
\* forget_frontend()
Forgotten(x) == [Back(x) EXCEPT !.frontend = 0, !.prepared = FALSE, !.preparing = FALSE]

\* present(): the view goes beside the page or back into WebKit's window.
Present(x) ==
  LET embed == x.embedding /\ ~x.floating
      y == [x EXCEPT !.needed = FALSE]
  IN IF ~x.access
     THEN /\ d' = y /\ inside' = FALSE /\ native' = (IF x.requested THEN native ELSE "none")
          /\ window' = x.requested /\ UNCHANGED where
     ELSE IF ~x.prepared \/ x.frontend = 0 THEN d' = y /\ UNCHANGED <<native, inside, where, window>>
     ELSE /\ d' = [y EXCEPT !.hosted = embed]
          /\ where' = [where EXCEPT ![x.frontend] = IF embed THEN "page" ELSE "native"]
          /\ window' = (~embed /\ x.requested) /\ UNCHANGED <<native, inside>>
Apart == UNCHANGED <<front, flights, ready>>

-----------------------------------------------------------------------------
(* The user. *)

\* open()
Open ==
  LET x == [d EXCEPT !.requested = TRUE]
  IN /\ Apart /\ UNCHANGED raised
     /\ IF d.prepared /\ Shown THEN Present(x)
        ELSE /\ d' = [(IF d.prepared THEN Forgotten(x) ELSE x) EXCEPT !.pending = TRUE]
             /\ where' = IF d.prepared THEN WhereBack(d) ELSE where
             /\ native' = (IF native = "none" THEN "opening" ELSE native) /\ window' = (window \/ (Shown /\ ~inside))
             /\ UNCHANGED inside
\* hide()
Hide ==
  /\ d' = [d EXCEPT !.requested = FALSE] /\ Apart /\ UNCHANGED <<inside, where, raised>>
  /\ IF d.access THEN window' = (window /\ d.frontend = 0) /\ UNCHANGED native ELSE window' = FALSE /\ native' = "none"
\* perform() with Float or Embed, also asked for inside the inspector; restore()
Mode ==
  /\ (d.requested /\ Shown /\ (d.hosted \/ d.embedding)) \/ native = "none"
  /\ \E v \in BOOLEAN : d' = [d EXCEPT !.floating = v, !.needed = TRUE]
  /\ Apart /\ UNCHANGED <<native, inside, where, window, raised>>

-----------------------------------------------------------------------------
(* tick() *)

\* The inspector is not there: it was closed, or does not come within ten seconds.
TickGone ==
  LET x == IF d.seen THEN [Forgotten(d) EXCEPT !.requested = FALSE, !.seen = FALSE] ELSE d
  IN /\ ~Shown /\ where' = IF d.seen THEN WhereBack(d) ELSE where
     /\ \/ d' = x /\ UNCHANGED native
        \/ x.pending /\ d' = [x EXCEPT !.pending = FALSE, !.requested = FALSE] /\ native' = "none"
     /\ raised' = FALSE /\ Apart /\ UNCHANGED <<inside, window>>
\* The inspector is there; one that WebKit opened by itself counts as asked for.
Seen ==
  [d EXCEPT !.seen = TRUE, !.requested = @ \/ (~d.seen /\ ~d.pending), !.pending = FALSE, !.needed = @ \/ d.pending]
\* prepare_frontend(): the view has to be in a window of its own; the script is sent.
TickPrepares ==
  /\ Shown /\ d.access /\ ~d.prepared /\ raised' = FALSE
  /\ IF d.preparing THEN d' = Seen /\ Apart /\ UNCHANGED <<inside, window>>
     ELSE IF inside THEN d' = Seen /\ inside' = FALSE /\ window' = TRUE /\ Apart
     ELSE /\ d' = [Seen EXCEPT !.frontend = front, !.preparing = TRUE] /\ flights' = flights \union {front}
          /\ window' = (window /\ Seen.requested) /\ UNCHANGED <<front, ready, inside>>
  /\ UNCHANGED <<native, where>>
\* A window WebKit has raised although it is hidden or empty is wanted again.
TickPresents ==
  LET wanted == window /\ (d.hosted \/ ~Seen.requested)
      x == IF d.access /\ wanted THEN [Seen EXCEPT !.requested = TRUE, !.needed = TRUE] ELSE Seen
  IN /\ Shown /\ (d.access => d.prepared) /\ raised' = FALSE /\ Apart
     /\ IF x.needed THEN Present(x) ELSE d' = x /\ UNCHANGED <<native, inside, where, window>>
\* The script answers; embedding is given up when it could not do its work.
Evaluated ==
  \E f \in flights : \E ok \in BOOLEAN :
    /\ flights' = flights \ {f} /\ ready' = IF ok THEN ready \union {f} ELSE ready
    /\ d' = IF d.frontend # f THEN d
            ELSE [d EXCEPT !.preparing = FALSE, !.prepared = TRUE, !.embedding = @ /\ ok, !.needed = TRUE]
    /\ UNCHANGED <<native, front, inside, where, window, raised>>

-----------------------------------------------------------------------------
(* WebKit *)

\* After show(), or from Safari once the timer has seen that there is none.
Appears ==
  /\ native = "opening" \/ (native = "none" /\ ~d.seen /\ ~d.pending)
  /\ front < MaxFronts /\ front' = front + 1 /\ native' = "shown"
  /\ \E in \in BOOLEAN : inside' = in /\ window' = ~in
  /\ UNCHANGED <<where, flights, ready, raised, d>>
Raise ==
  Shown /\ ~inside /\ window' = TRUE /\ raised' = TRUE /\ UNCHANGED <<native, front, inside, where, flights, ready, d>>
Ends ==
  Shown /\ native' = "none" /\ window' = FALSE /\ inside' = FALSE /\ UNCHANGED <<front, where, flights, ready, raised, d>>

Next ==
  Open \/ Hide \/ Mode \/ TickGone \/ TickPrepares \/ TickPresents \/ Evaluated \/ Appears \/ Raise \/ Ends
Spec == Init /\ [][Next]_vars

-----------------------------------------------------------------------------
TypeOK ==
  /\ native \in {"none", "opening", "shown"} /\ front \in 0 .. MaxFronts /\ flights \subseteq 1 .. front
  /\ d.frontend \in 0 .. front
\* A view beside the page is the one this code still knows, so that it can be given back
\* before it is forgotten (mac_devtools.hpp:87); a view that may be embedded has been prepared
\* by its own script and not by the late answer of an earlier one (:118); one that is neither
\* prepared nor being prepared is looked for again, never waited for in vain; and after the
\* timer the view is where the user wants it, its old window out of sight.
InspectorKept ==
  /\ \A f \in 1 .. MaxFronts : where[f] = "page" <=> d.hosted /\ d.frontend = f
  /\ d.prepared => d.frontend # 0 /\ (d.embedding => d.frontend \in ready)
  /\ d.preparing => d.frontend \in flights
  /\ d.prepared /\ Shown /\ ~d.needed /\ ~raised =>
       d.hosted = (d.embedding /\ ~d.floating) /\ (window => d.requested /\ ~d.hosted)
=============================================================================
