------------------------------ MODULE GtkDevTools ------------------------------
(***************************************************************************)
(* The inspector of a page on Linux (linux/gtk_devtools.hpp).  WebKit makes*)
(* the inspector's view and tells by signals that it was opened, attached, *)
(* detached, raised and closed; this code keeps the view in a panel that is*)
(* beside the page or in a window of its own.  Sizes are left out.         *)
(***************************************************************************)
EXTENDS Naturals

VARIABLES
  webkit,     \* "none", "opening" (show() was called), "shown"
  leaving,    \* "detach" was signalled, its window or the end follows
  view,       \* inspector_view_ is set
  visible,    \* visible_
  pending,    \* pending_
  requested,  \* requested_
  detaching,  \* detaching_
  floating,   \* the preference
  place,      \* the container of the panel: "pane" or "window"
  window,     \* the floating window is shown
  hid,        \* history: the user has hidden the inspector and nobody has shown it since
  mode        \* history: the mode last chosen

vars == <<webkit, leaving, view, visible, pending, requested, detaching, floating, place, window, hid, mode>>

Init ==
  /\ webkit = "none" /\ leaving = FALSE /\ view = FALSE /\ visible = FALSE /\ pending = FALSE /\ requested = FALSE
  /\ detaching = FALSE /\ window = FALSE /\ hid = FALSE
  /\ floating \in BOOLEAN /\ place = "pane" /\ mode = floating

\* present(): the panel moves to its container.
Present(v) ==
  floating' = v /\ place' = (IF v THEN "window" ELSE "pane") /\ window' = v /\ visible' = TRUE /\ pending' = FALSE
\* hide()
Conceal == requested' = FALSE /\ visible' = FALSE /\ window' = FALSE
\* opened(): one that was hidden while it was being made stays hidden.
Shows == ~pending \/ requested
Opened(preferred) ==
  /\ view' = TRUE /\ detaching' = FALSE
  /\ IF Shows THEN Present(detaching \/ preferred) /\ UNCHANGED requested
     ELSE Conceal /\ pending' = FALSE /\ floating' = preferred /\ UNCHANGED place

-----------------------------------------------------------------------------
(* The user, the page and the menu. *)

\* open()
Open ==
  /\ requested' = TRUE /\ hid' = FALSE
  /\ IF view THEN Present(floating) /\ UNCHANGED webkit
     ELSE /\ pending' = TRUE /\ webkit' = IF pending THEN webkit ELSE "opening"
          /\ UNCHANGED <<visible, floating, place, window>>
  /\ UNCHANGED <<leaving, view, detaching, mode>>
\* hide() by the menu, the button and the floating window's close button
Hide == Conceal /\ hid' = TRUE /\ UNCHANGED <<webkit, leaving, view, pending, detaching, floating, place, mode>>
\* toggle()
Toggle == IF visible \/ (pending /\ requested) THEN Hide ELSE Open
\* perform() with Float or Embed, and the button in the panel
Mode ==
  /\ visible /\ \E v \in BOOLEAN : Present(v) /\ mode' = v
  /\ hid' = FALSE /\ UNCHANGED <<webkit, leaving, view, requested, detaching>>
\* restore()
Restore ==
  \E v \in BOOLEAN :
    /\ mode' = v /\ IF visible THEN Present(v) ELSE floating' = v /\ UNCHANGED <<visible, pending, place, window>>
    /\ UNCHANGED <<webkit, leaving, view, requested, detaching, hid>>

-----------------------------------------------------------------------------
(* The signals of WebKit.  Whatever the user does in the inspector itself *)
(* arrives as one of them.                                                 *)

\* "open-window", after show() or "detach"; a new inspector may also be opened by WebKit.
OpenWindow ==
  /\ webkit = "opening" \/ leaving \/ webkit = "none"
  /\ Opened(floating) /\ webkit' = "shown" /\ leaving' = FALSE
  /\ mode' = (floating \/ detaching) /\ hid' = (hid /\ pending)
\* "attach"
AttachSignal ==
  /\ webkit # "none" /\ ~leaving /\ view' = TRUE /\ detaching' = FALSE /\ webkit' = "shown" /\ mode' = FALSE
  /\ hid' = (hid /\ pending) /\ UNCHANGED leaving
  /\ IF Shows THEN Present(FALSE) /\ UNCHANGED requested
     ELSE Conceal /\ pending' = FALSE /\ floating' = FALSE /\ UNCHANGED place
\* "detach", also before the end
DetachSignal ==
  /\ webkit = "shown" /\ ~leaving /\ leaving' = TRUE /\ detaching' = TRUE
  /\ UNCHANGED <<webkit, view, visible, pending, requested, floating, place, window, hid, mode>>
\* "bring-to-front"
Raise ==
  webkit = "shown" /\ ~leaving /\ Opened(floating) /\ mode' = floating /\ hid' = FALSE /\ UNCHANGED <<webkit, leaving>>
\* "closed"
ClosedSignal ==
  /\ webkit = "shown" /\ webkit' = "none" /\ leaving' = FALSE /\ view' = FALSE /\ pending' = FALSE /\ detaching' = FALSE
  /\ Conceal /\ hid' = TRUE /\ UNCHANGED <<floating, place, mode>>

Next ==
  \/ Open \/ Hide \/ Toggle \/ Mode \/ Restore
  \/ OpenWindow \/ AttachSignal \/ DetachSignal \/ Raise \/ ClosedSignal
Spec == Init /\ [][Next]_vars

-----------------------------------------------------------------------------
TypeOK == webkit \in {"none", "opening", "shown"} /\ place \in {"pane", "window"}
\* An inspector that was hidden, also while it was being made, does not come up by itself
\* (gtk_devtools.hpp:164); a visible one has its view in the container of its mode; closing it
\* from inside does not change the mode (:141); and one that is asked for is being made.
InspectorKept ==
  /\ hid => ~visible
  /\ visible => view /\ place = (IF floating THEN "window" ELSE "pane") /\ window = floating
  /\ window => visible
  /\ floating = mode
  /\ pending => webkit = "opening" /\ ~view
  /\ requested /\ ~visible => pending
=============================================================================
