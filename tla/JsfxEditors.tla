----------------------------- MODULE JsfxEditors -----------------------------
(***************************************************************************)
(* The pages of JSFX effects in REAPER's FX chain window (jsfx_editor.cpp, *)
(* jsfx_runtime.cpp).  The window shows the native editor of the selected  *)
(* effect; the extension finds it, hides its controls under a backdrop of  *)
(* its own and puts the page of the effect into the backdrop.  REAPER      *)
(* selects, exchanges and destroys these windows when it likes; the        *)
(* extension sees that in messages, in notifications and by scanning.      *)
(***************************************************************************)
EXTENDS Naturals, Sequences, FiniteSets, SequencesExt, FiniteSetsExt

CONSTANTS
  Web, Plain,  \* effects with a page of their own and effects without
  Hosts,       \* numbers for ChainHost objects
  Sessions,    \* numbers for the sessions of pages
  MaxChains,   \* times the window is opened
  MaxSwitches, \* selections the user makes
  MaxDeletes,  \* effects the user removes
  MaxFailures  \* pages that cannot be opened or are not presented in time

VARIABLES
  present,   \* the effects in the chain
  selected,  \* the effect REAPER has selected, "none" without one
  editors,   \* the native editors that exist (at most one, and it is visible)
  switching, \* REAPER has yet to exchange the editors
  chain,     \* the FX windows opened so far
  open,      \* the last of them is open
  layout,    \* ChainLayout of the open window with its Attachments
  hosts,     \* ChainHost objects
  pending,   \* hosts found between two scans (Discovery::pending_)
  found,     \* hosts this scan found, with those to be attached in front
  blocked,   \* hosts whose page failed (jsfx_blocked_)
  sessions,  \* the sessions of pages
  turn,      \* what is left of this tick
  left       \* what the bounds leave

reaper == <<present, selected, editors, switching, chain, open>>
vars == <<present, selected, editors, switching, chain, open, layout, hosts, pending, found, blocked, sessions, turn, left>>

None == "none"
NoLayout == [there |-> FALSE, backdrop |-> "none", active_fx |-> None, active_host |-> 0, callback |-> <<0, 0>>,
             watched |-> {}, prepared |-> {}]
NoSession == [state |-> "none", fx |-> None, host |-> 0, inside |-> 0, presented |-> FALSE]
NoHost == [fx |-> None, chain |-> 0, attached |-> FALSE]
Idle == <<"idle", {}>>

Init ==
  /\ present = Web \cup Plain
  /\ selected = None /\ editors = {} /\ switching = FALSE
  /\ chain = 0 /\ open = FALSE
  /\ layout = NoLayout
  /\ hosts = [h \in Hosts |-> NoHost]
  /\ pending = <<>> /\ found = <<>> /\ blocked = {}
  /\ sessions = [s \in Sessions |-> NoSession]
  /\ turn = Idle
  /\ left = [switches |-> MaxSwitches, deletes |-> MaxDeletes, failures |-> MaxFailures]

\* Somebody still holds h: its shared_ptr lives.  Kept: beyond this scan.
Kept(h) == h \in ToSet(pending) \cup blocked \/ \E s \in Sessions : sessions[s].host = h
Held(h) == Kept(h) \/ h \in ToSet(found)
\* An id no host has, nor the one the layout last knew.
Free(l, more) == {h \in Hosts \ ({l.active_host} \cup more) : ~Held(h)}
\* ChainLayout::applies: the selected effect has a page.
Applies == selected \in Web

(***************************************************************************)
(* ChainLayout and Attachment.                                             *)
(***************************************************************************)
\* The backdrop lies over the content of the native editor.
Cover(l) == [l EXCEPT !.backdrop = "shown"]
\* native_editor_ready: a visible editor none of whose controls are hidden.
NativeReady(l) == editors \ l.prepared /= {}
\* Mutant: the backdrop stays where it is.
RestoreControls(l) == [l EXCEPT !.prepared = {}]
\* restore_native for every attachment, and the backdrop is hidden.
RestoreChain(l) == [l EXCEPT !.backdrop = IF @ = "none" THEN @ ELSE "hidden", !.prepared = {}]
\* Hides the controls of the watched editors that are visible.
Conceal(l, es) == [l EXCEPT !.prepared = @ \cup (es \cap l.watched \cap editors)]

(***************************************************************************)
(* ChainHost, what a session holds of the chain window.                    *)
(***************************************************************************)
Valid(h) == h /= 0 /\ open /\ layout.there /\ hosts[h].chain = chain /\ layout.backdrop /= "none"
\* restore: only for the host and the effect the layout last gave its place to.
Restore(h, l) == IF l.there /\ l.active_host = h /\ l.active_fx = hosts[h].fx THEN RestoreChain(l) ELSE l
\* prepare: the backdrop is shown again.
Prepare(h, l) == IF Valid(h) THEN Cover(l) ELSE l
RetainDuringSwitch(h) == Valid(h) /\ selected /= None /\ ~Applies /\ ~NativeReady(layout)
\* on_destroy: one callback for the layout, whoever sets or clears it.
OnDestroy(h, l, callback) == IF l.there /\ h /= 0 /\ hosts[h].chain = chain THEN [l EXCEPT !.callback = callback] ELSE l
\* ~ChainHost: a host that never got a page gives the editor back.
Dropped(h, l) == IF ~hosts[h].attached /\ l.there /\ hosts[h].chain = chain /\ ~Kept(l.active_host) THEN RestoreChain(l) ELSE l
\* JsfxBinding::editor_matches: the effect of fx is the one its host shows.
EditorMatches(fx, h) == fx \in present /\ Valid(h) /\ selected = fx
\* sync_selection in the course of a match.
Synced(fx, h, l) == IF l.active_host = h THEN [l EXCEPT !.active_fx = fx] ELSE l

(***************************************************************************)
(* Discovery.  A result is a layout, the hosts and the one found, or 0.    *)
(***************************************************************************)
Result(l, hs, h) == [layout |-> l, hosts |-> hs, new |-> h]

\* select_chain.  `more`: the host found earlier in this search.
SelectChain(l, hs, more) ==
  IF selected = l.active_fx /\ (Held(l.active_host) \/ l.active_host \in more) THEN Result(l, hs, 0)
  ELSE IF ~Applies
    THEN IF selected /= None /\ l.backdrop = "shown" /\ ~NativeReady(l) THEN Result(l, hs, 0)
         ELSE Result([RestoreChain(l) EXCEPT !.active_fx = selected], hs, 0)
  ELSE LET h == Min(Free(l, more))
           covered == IF l.watched \cap editors = {} THEN l ELSE Cover(Conceal(l, editors))
       IN Result([covered EXCEPT !.active_fx = selected, !.active_host = h],
                 [hs EXCEPT ![h] = [fx |-> selected, chain |-> chain, attached |-> FALSE]], h)
\* chain_layout: the one of this window, made and subclassed at the first editor.
LayoutOf(l) == IF l.there THEN l ELSE [NoLayout EXCEPT !.there = TRUE]

\* inspect of the visible native editor.  It belongs to whatever is selected
\* now; without a layout the track may be hidden from the hit test.
Inspect(l, hs, more) ==
  LET unknown == {Result(l, hs, 0)}
      mine(m) == SelectChain(Cover(Conceal(m, editors)), hs, more)
      watching(m) == [m EXCEPT !.watched = @ \cup editors]
  IN IF ~open \/ editors = {} \/ ~Applies \/ editors \subseteq l.prepared THEN unknown
     ELSE IF editors \subseteq l.watched THEN {mine(l)}
     ELSE {mine(watching(LayoutOf(l)))} \cup (IF l.there THEN {} ELSE unknown)

\* Discovery::pending: a scan is due before its time.
Pending == pending /= <<>> \/ (layout.there /\ selected /= layout.active_fx)

With(seq, h) == IF h = 0 THEN seq ELSE Append(seq, h)

\* Discovery::Extended and before_paint: REAPER tells, or paints, in between.
Notified ==
  /\ turn = Idle
  /\ Cardinality(Free(layout, {})) > 1
  /\ \E r \in Inspect(layout, hosts, {}) :
       layout' = r.layout /\ hosts' = r.hosts /\ pending' = With(pending, r.new)
  /\ UNCHANGED <<reaper, found, blocked, sessions, turn, left>>

\* Discovery::scan: the layouts first, then every window.
Search ==
  LET first == IF layout.there THEN SelectChain(layout, hosts, {}) ELSE Result(layout, hosts, 0)
      more == {first.new} \ {0}
  IN {[layout |-> r.layout, hosts |-> r.hosts, new |-> With(With(<<>>, first.new), r.new)] :
        r \in Inspect(first.layout, first.hosts, more)}

(***************************************************************************)
(* Sessions (jsfx_runtime.cpp).                                            *)
(***************************************************************************)
\* release_jsfx: clears the callback and gives the editor back.
Released(s, l) == LET h == sessions[s].host IN IF h = 0 THEN l ELSE Restore(h, OnDestroy(h, l, <<0, 0>>))

\* Mutant: the page stays where it is.
ParkedInside(s) == [sessions EXCEPT ![s].host = 0, ![s].presented = FALSE]
\* park_jsfx: out of the window before REAPER destroys it; host->park()
\* gives the editor back only when nothing is selected.
Parked(s) == [sessions EXCEPT ![s].inside = 0, ![s].host = 0, ![s].presented = FALSE]
ParkedLayout(s, l) ==
  LET h == sessions[s].host  cleared == OnDestroy(h, l, <<0, 0>>)
  IN IF selected = None THEN Restore(h, cleared) ELSE cleared

\* One session in turn, as the loop of tick_jsfx treats it.
Visiting(s) == turn[1] = "visit" /\ s \in turn[2] /\ turn' = <<"visit", turn[2] \ {s}>>
VisitClosing(s) ==
  /\ Visiting(s)
  /\ sessions[s].state \in {"closing", "lost"}
  /\ layout' = Released(s, layout)
  /\ UNCHANGED <<reaper, hosts, pending, found, blocked, sessions, left>>
\* resolve() throws FX_STALE: the effect is gone.
VisitStale(s) ==
  /\ Visiting(s)
  /\ sessions[s].state = "open" /\ sessions[s].fx \notin present
  /\ layout' = Released(s, layout)
  /\ sessions' = [sessions EXCEPT ![s].state = "closing"]
  /\ UNCHANGED <<reaper, hosts, pending, found, blocked, left>>
VisitMoved(s) ==
  LET x == sessions[s]
  IN /\ Visiting(s)
     /\ x.state = "open" /\ x.fx \in present /\ x.host /= 0 /\ ~EditorMatches(x.fx, x.host)
     /\ IF RetainDuringSwitch(x.host)
          THEN UNCHANGED <<layout, sessions>>
          ELSE layout' = ParkedLayout(s, layout) /\ sessions' = Parked(s)
     /\ UNCHANGED <<reaper, hosts, pending, found, blocked, left>>
\* Without a host for 60 seconds, or beyond the four that are kept.
VisitIdle(s) ==
  /\ Visiting(s)
  /\ sessions[s].state = "open" /\ sessions[s].fx \in present /\ sessions[s].host = 0
  /\ \E end \in BOOLEAN : sessions' = IF end THEN [sessions EXCEPT ![s].state = "closing"] ELSE sessions
  /\ UNCHANGED <<reaper, layout, hosts, pending, found, blocked, left>>
\* The page is presented again, or it has not been within 15 seconds.
VisitShown(s) ==
  LET x == sessions[s]  h == x.host  shown == Prepare(h, Synced(x.fx, h, layout))
  IN /\ Visiting(s)
     /\ x.state = "open" /\ h /= 0 /\ EditorMatches(x.fx, h)
     /\ hosts' = [hosts EXCEPT ![h].attached = TRUE]
     /\ \/ layout' = shown /\ UNCHANGED <<blocked, sessions, left>>
        \/ /\ ~x.presented /\ left.failures > 0
           /\ left' = [left EXCEPT !.failures = @ - 1]
           /\ layout' = Released(s, shown)
           /\ blocked' = {h}
           /\ sessions' = [sessions EXCEPT ![s].state = "closing"]
     /\ UNCHANGED <<reaper, pending, found>>
VisitNothing(s) ==
  /\ Visiting(s)
  /\ sessions[s].state = "none"
  /\ UNCHANGED <<reaper, layout, hosts, pending, found, blocked, sessions, left>>

\* The bound on hosts is not reached: REAPER's own timer is never held up.
StartTick ==
  /\ turn = Idle
  /\ Cardinality(Free(layout, {})) > 1
  /\ turn' = <<"visit", Sessions>>
  /\ UNCHANGED <<reaper, layout, hosts, pending, found, blocked, sessions, left>>
\* The scan of the tick; without anything pending it may not be due.
Scan ==
  /\ turn = <<"visit", {}>>
  /\ blocked' = {h \in blocked : Valid(h)}
  /\ \/ /\ ~Pending
        /\ turn' = Idle
        /\ UNCHANGED <<layout, hosts, pending, found>>
     \/ \E r \in Search :
          /\ layout' = r.layout /\ hosts' = r.hosts
          /\ found' = pending \o r.new /\ pending' = <<>>
          /\ turn' = <<"attach", ToSet(pending \o r.new)>>
  /\ UNCHANGED <<reaper, sessions, left>>

\* attach_jsfx: the page moves into the backdrop and watches over its end.
Attach(s, h, l) ==
  /\ hosts' = [hosts EXCEPT ![h].attached = TRUE]
  /\ layout' = OnDestroy(h, Prepare(h, l), <<s, h>>)
  /\ sessions' = [sessions EXCEPT ![s] = [state |-> "open", fx |-> hosts[h].fx, host |-> h, inside |-> chain, presented |-> FALSE]]
\* Sessions that could take the editor: a retained one, else a new one.
Retained(fx) == {s \in Sessions : sessions[s].state = "open" /\ sessions[s].fx = fx /\ sessions[s].host = 0}
Unused == {s \in Sessions : sessions[s].state = "none"}
Chosen(fx) == Min(IF Retained(fx) /= {} THEN Retained(fx) ELSE Unused)
\* The editors of a scan, one after the other; the hosts are dropped at its end.
Take(h) ==
  /\ turn[1] = "attach" /\ h \in turn[2]
  /\ h = found[Min({i \in DOMAIN found : found[i] \in turn[2]})]
  /\ turn' = <<"attach", turn[2] \ {h}>>
  /\ LET fx == hosts[h].fx  l == Prepare(h, Synced(fx, h, layout))
     IN \/ ~EditorMatches(fx, h) /\ UNCHANGED <<layout, hosts, blocked, sessions, left>>
        \/ /\ EditorMatches(fx, h)
           /\ Retained(fx) \cup Unused /= {}
           /\ Attach(Chosen(fx), h, l)
           /\ UNCHANGED <<blocked, left>>
        \/ /\ EditorMatches(fx, h) /\ left.failures > 0
           /\ left' = [left EXCEPT !.failures = @ - 1]
           /\ layout' = Restore(h, l) /\ blocked' = {h}
           /\ UNCHANGED <<hosts, sessions>>
        \/ /\ EditorMatches(fx, h) /\ Retained(fx) \cup Unused = {}
           /\ UNCHANGED <<layout, hosts, blocked, sessions, left>>
  /\ UNCHANGED <<reaper, pending, found>>
\* The vector of this scan goes, and with it the hosts nobody took.
EndTick ==
  /\ turn = <<"attach", {}>>
  /\ turn' = Idle /\ found' = <<>>
  /\ LET gone(l, h) == IF Kept(h) THEN l ELSE Dropped(h, l)
     IN layout' = FoldLeft(gone, layout, found)
  /\ UNCHANGED <<reaper, hosts, pending, blocked, sessions, left>>

\* The page has drawn its state and acknowledges it.
Present(s) ==
  /\ turn = Idle
  /\ sessions[s].state = "open" /\ sessions[s].host /= 0 /\ ~sessions[s].presented
  /\ sessions' = [sessions EXCEPT ![s].presented = TRUE]
  /\ UNCHANGED <<reaper, layout, hosts, pending, found, blocked, turn, left>>
\* A closing session has flushed what it had to say, or 250 ms are over.
Erase(s) ==
  /\ turn = Idle
  /\ sessions[s].state \in {"closing", "lost"}
  /\ layout' = Released(s, layout)
  /\ sessions' = [sessions EXCEPT ![s] = NoSession]
  /\ UNCHANGED <<reaper, hosts, pending, found, blocked, turn, left>>

(***************************************************************************)
(* REAPER.                                                                 *)
(***************************************************************************)
\* The user opens an FX window; it comes without an editor.
OpenChain ==
  /\ turn = Idle /\ ~open /\ chain < MaxChains
  /\ open' = TRUE /\ chain' = chain + 1
  /\ selected' \in present \cup {None}
  /\ switching' = (selected' /= None)
  /\ UNCHANGED <<present, editors, layout, hosts, pending, found, blocked, sessions, turn, left>>
\* The user, who is slower than the timer that runs the ticks: two exchanges
\* within one tick give one effect two pages, of which one is then lost.
Select(e) ==
  /\ turn = Idle /\ open /\ ~switching /\ e /= selected /\ left.switches > 0
  /\ pending = <<>>
  /\ left' = [left EXCEPT !.switches = @ - 1]
  /\ selected' = e /\ switching' = TRUE
  /\ UNCHANGED <<present, editors, chain, open, layout, hosts, pending, found, blocked, sessions, turn>>
\* The old editor is destroyed, editor_proc forgets it; the new one is shown.
Exchange ==
  /\ turn = Idle /\ switching
  /\ switching' = FALSE
  /\ editors' = {selected} \ {None}
  /\ layout' = [layout EXCEPT !.watched = {}, !.prepared = {}]
  /\ UNCHANGED <<present, selected, chain, open, hosts, pending, found, blocked, sessions, turn, left>>
\* The user removes an effect; REAPER selects another one.
Delete(e) ==
  /\ turn = Idle /\ ~switching /\ e \in present /\ left.deletes > 0
  /\ left' = [left EXCEPT !.deletes = @ - 1]
  /\ present' = present \ {e}
  /\ IF selected = e /\ open
       THEN selected' \in present' \cup {None} /\ switching' = TRUE
       ELSE selected' = selected /\ UNCHANGED switching
  /\ UNCHANGED <<editors, chain, open, layout, hosts, pending, found, blocked, sessions, turn>>
\* chain_proc: a message of the window, after REAPER has handled it.
Notice ==
  /\ turn = Idle /\ open /\ layout.there
  /\ layout.backdrop /= "none" /\ ~Applies /\ NativeReady(layout)
  /\ layout' = RestoreChain(layout)
  /\ UNCHANGED <<reaper, hosts, pending, found, blocked, sessions, turn, left>>
\* chain_proc on WM_DESTROY: the callback parks its page, if that still has
\* the host it was set for; the windows in the backdrop go with it.
CloseChain ==
  LET s == layout.callback[1]
      parked == IF s \in Sessions /\ sessions[s].state = "open" /\ sessions[s].host = layout.callback[2]
                THEN Parked(s) ELSE sessions
  IN /\ turn = Idle /\ open /\ ~switching
     /\ open' = FALSE /\ editors' = {} /\ selected' = None /\ switching' = FALSE
     /\ layout' = NoLayout
     /\ sessions' = [t \in Sessions |-> IF parked[t].state = "open" /\ parked[t].inside = chain
                                       THEN [parked[t] EXCEPT !.state = "lost"] ELSE parked[t]]
     /\ UNCHANGED <<present, chain, hosts, pending, found, blocked, turn, left>>

Next ==
  \/ OpenChain \/ Exchange \/ Notice \/ CloseChain
  \/ \E e \in present \cup {None} : Select(e)
  \/ \E e \in present : Delete(e)
  \/ Notified \/ StartTick \/ Scan \/ EndTick
  \/ \E h \in Hosts : Take(h)
  \/ \E s \in Sessions : VisitClosing(s) \/ VisitStale(s) \/ VisitMoved(s) \/ VisitIdle(s) \/ VisitShown(s) \/ VisitNothing(s)
                         \/ Present(s) \/ Erase(s)
Spec == Init /\ [][Next]_vars

(***************************************************************************)
(* Properties.                                                             *)
(***************************************************************************)
\* REAPER's windows are what is selected, and no scan is due.
Settled == turn = Idle /\ open /\ ~switching /\ layout.there /\ ~Pending

\* An effect without a page shows its own controls, whatever was selected,
\* found, parked or dropped before (jsfx_editor.cpp:331, 984-992, 939).
PlainShown == Settled /\ selected \in Plain => layout.backdrop /= "shown" /\ layout.prepared = {}

\* What lies over the controls of the selected effect is its own page.
NoBlank == Settled /\ layout.backdrop = "shown" =>
  \E s \in Sessions : sessions[s].host = layout.active_host /\ sessions[s].fx = selected

\* Nobody looks at an editor without controls and without a page (while no
\* page fails: see NativeRestored).
ControlsBack == PlainShown /\ NoBlank

\* A page is out of the window before REAPER destroys it, so that it can come
\* back in the next one: docs/jsfx-webui.md:136, "Closing an editor or
\* switching FX retains up to four hidden pages".
PagesSurvive == \A s \in Sessions : sessions[s].state /= "lost"

\* docs/jsfx-webui.md:142: "Initialization failure or a 15-second presentation
\* timeout restores native content" - and it stays restored while the effect
\* whose page failed is the selected one.
NativeRestored ==
  Settled /\ blocked /= {} /\ layout.active_host \in blocked => layout.backdrop /= "shown" /\ layout.prepared = {}

\* The values the variables take: the records, counters and queues stay within the bounds of the code.
TypeOK ==
  /\ present \subseteq Web \cup Plain /\ selected \in present \cup {None} /\ editors \subseteq Web \cup Plain
  /\ Cardinality(editors) <= 1 /\ switching \in BOOLEAN /\ open \in BOOLEAN /\ chain \in 0 .. MaxChains
  /\ layout.there \in BOOLEAN /\ layout.backdrop \in {"none", "hidden", "shown"}
  /\ layout.active_fx \in Web \cup Plain \cup {None} /\ layout.active_host \in Hosts \cup {0}
  /\ layout.callback \in (Sessions \cup {0}) \X (Hosts \cup {0})
  /\ layout.watched \subseteq Web \cup Plain /\ layout.prepared \subseteq layout.watched
  /\ hosts \in [Hosts -> [fx : Web \cup {None}, chain : 0 .. chain, attached : BOOLEAN]]
  /\ ToSet(pending) \cup ToSet(found) \cup blocked \subseteq Hosts
  /\ sessions \in [Sessions -> [state : {"none", "open", "closing", "lost"}, fx : Web \cup {None},
                                host : Hosts \cup {0}, inside : 0 .. chain, presented : BOOLEAN]]
  /\ turn[1] \in {"idle", "visit", "attach"}
  /\ left \in [switches : 0 .. MaxSwitches, deletes : 0 .. MaxDeletes, failures : 0 .. MaxFailures]
==============================================================================
