----------------------------- MODULE WinDockRedraw -----------------------------
(***************************************************************************)
(* windows/win_dock_redraw.hpp: REAPER stops a Docker from drawing while it*)
(* resizes it, which would drop the surfaces of the pages inside.  The     *)
(* windows above a docked page are subclassed and keep drawing, while pages*)
(* come, go, are shown and hidden in the middle.                           *)
(***************************************************************************)
EXTENDS Naturals

CONSTANTS
  Children,  \* windows with a page
  Hosts,     \* windows they may be inside
  MaxDepth   \* how deep REAPER nests its brackets

VARIABLES
  inside,      \* the windows above each child, in Windows' view
  shown,       \* children that are visible
  parents,     \* parents_ of each child: those above it when it last looked
  children,    \* hosts(): the children of each subclassed window, {} for none
  suppressed,  \* Host::suppressed
  depth,       \* brackets of WM_SETREDRAW REAPER has open
  draws        \* the window draws, as DefWindowProc sees it

vars == <<inside, shown, parents, children, suppressed, depth, draws>>

Init ==
  /\ inside = [c \in Children |-> {}] /\ shown = {} /\ parents = [c \in Children |-> {}]
  /\ children = [h \in Hosts |-> {}] /\ suppressed = [h \in Hosts |-> FALSE]
  /\ depth = [h \in Hosts |-> 0] /\ draws = [h \in Hosts |-> TRUE]

\* remove(): with its last child the record of a host goes.
Left(c, gone) ==
  /\ children' = [h \in Hosts |-> IF h \in gone THEN children[h] \ {c} ELSE children[h]]
  /\ suppressed' = [h \in Hosts |-> suppressed[h] /\ ~(h \in gone /\ children[h] \ {c} = {})]
\* sync(), in the tick of the page's window: a window that cannot be subclassed is passed over.
Sync(c) ==
  /\ inside[c] # parents[c] /\ parents' = [parents EXCEPT ![c] = inside[c]]
  /\ \E refused \in SUBSET {h \in inside[c] \ parents[c] : children[h] = {}} :
       /\ children' = [h \in Hosts |-> IF h \in inside[c] \ refused THEN children[h] \union {c} ELSE children[h] \ {c}]
       /\ suppressed' = [h \in Hosts |-> suppressed[h] /\ children'[h] # {}]
  /\ UNCHANGED <<inside, shown, depth, draws>>
\* detach()
Detach(c) ==
  /\ parents[c] # {} /\ Left(c, parents[c]) /\ parents' = [parents EXCEPT ![c] = {}] /\ inside' = [inside EXCEPT ![c] = {}]
  /\ shown' = shown \ {c} /\ UNCHANGED <<depth, draws>>
\* procedure() with WM_SETREDRAW and 0
HoldsBack(h) == suppressed[h] \/ \E c \in children[h] : h \in inside[c] /\ c \in shown
Stop(h) ==
  /\ depth[h] < MaxDepth /\ depth' = [depth EXCEPT ![h] = @ + 1]
  /\ IF HoldsBack(h) THEN suppressed' = [suppressed EXCEPT ![h] = TRUE] /\ UNCHANGED draws
     ELSE draws' = [draws EXCEPT ![h] = FALSE] /\ UNCHANGED suppressed
  /\ UNCHANGED <<inside, shown, parents, children>>
MarkAfter(h) == [suppressed EXCEPT ![h] = FALSE]
\* procedure() with WM_SETREDRAW and 1
Resume(h) ==
  /\ depth[h] > 0 /\ depth' = [depth EXCEPT ![h] = @ - 1] /\ suppressed' = MarkAfter(h)
  /\ draws' = IF suppressed[h] THEN draws ELSE [draws EXCEPT ![h] = TRUE]
  /\ UNCHANGED <<inside, shown, parents, children>>
\* REAPER moves a page to other windows; the user changes the tab.
Moves(c) ==
  \E s \in SUBSET Hosts : inside' = [inside EXCEPT ![c] = s] /\ s # inside[c]
                          /\ UNCHANGED <<shown, parents, children, suppressed, depth, draws>>
Tab(c) ==
  shown' = (IF c \in shown THEN shown \ {c} ELSE shown \union {c})
  /\ UNCHANGED <<inside, parents, children, suppressed, depth, draws>>

Next ==
  \/ \E c \in Children : Sync(c) \/ Detach(c) \/ Moves(c) \/ Tab(c)
  \/ \E h \in Hosts : Stop(h) \/ Resume(h)
Spec == Init /\ [][Next]_vars

-----------------------------------------------------------------------------
TypeOK ==
  /\ \A c \in Children : parents[c] \subseteq Hosts /\ inside[c] \subseteq Hosts
  /\ \A h \in Hosts : children[h] \subseteq Children /\ depth[h] \in 0 .. MaxDepth
\* When REAPER has closed its brackets, a Docker draws again, whatever was held back and
\* whoever came and went meanwhile (win_dock_redraw.hpp:26); and the record of a window
\* holds none but the children that remember it.
DrawsAgain ==
  /\ \A h \in Hosts : depth[h] = 0 => draws[h] /\ ~suppressed[h]
  /\ \A h \in Hosts : \A c \in children[h] : h \in parents[c]
=============================================================================
