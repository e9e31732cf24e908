------------------------------ MODULE KeyRouting ------------------------------
(***************************************************************************)
(* The keys a page hands to REAPER: the script in the page that decides    *)
(* which keys are REAPER's, the messages it posts, and the host that turns *)
(* them into key presses of REAPER's main section at the next tick.        *)
(* Route is "shortcut" for the keys of setShortcutRouting and "space" for  *)
(* the Space key of setDawKeyboard, whose rules differ in the details.     *)
(* One window, its documents one after the other, and the user's keyboard. *)
(***************************************************************************)
EXTENDS Integers, Sequences, FiniteSets

CONSTANTS
  Route,       \* "shortcut" or "space"
  Keys,        \* the keys, for "space" one
  Hosted,      \* TRUE: a page inside an FX window (only "space")
  Cleans,      \* TRUE: the page asks to clean up before it closes
  QueueLimit,  \* events that wait for a tick: 256, or 64 for "space"
  MaxDocs,     \* bound: documents
  MaxPresses,  \* bound: key presses, repeats not counted
  MaxWire      \* bound: messages and scripts on their way

VARIABLES
  page,        \* the document: its number, the one it says it is, its switch, whether it greeted, who owns each key
  toHost,      \* its messages on their way
  toPage,      \* scripts on their way to it
  s,           \* the session
  events,      \* shortcut_events or space_events
  down,        \* shortcut_down, or Space if space_down
  keys,        \* keys the user holds
  focused,     \* the window has the keyboard
  reaper,      \* keys REAPER believes held
  presses      \* presses so far

vars == <<page, toHost, toPage, s, events, down, keys, focused, reaper, presses>>

\* A new document: no key is its own, its routing off.
NewPage(n) == [doc |-> n, says |-> 0, on |-> FALSE, greeted |-> FALSE,
               held |-> [k \in Keys |-> "none"], cancelled |-> {}]

Init ==
  /\ page = NewPage(1) /\ toHost = <<>> /\ toPage = <<>>
  /\ s = [ready |-> FALSE, doc |-> 0, routing |-> FALSE, current |-> TRUE, parked |-> FALSE,
          action |-> "", closing |-> FALSE, closed |-> FALSE, live |-> TRUE, how |-> ""]
  /\ events = <<>> /\ down = {} /\ keys = {} /\ focused = TRUE /\ reaper = {} /\ presses = 0

-----------------------------------------------------------------------------
(* The page *)

Message(p, k, kind) == [key |-> k, kind |-> kind, doc |-> p.says]
\* The keys of a set in some order, and a release of each.
Ordered(set) == CHOOSE f \in [1 .. Cardinality(set) -> set] : \A k \in set : \E i \in DOMAIN f : f[i] = k
Ups(p, set) == [i \in DOMAIN Ordered(set) |-> Message(p, Ordered(set)[i], "u")]
Owned(p) == {k \in Keys : p.held[k] = "host"}

\* Every key the page handed over is given back, and its repeats are ignored from now on.
Released(p) == [p EXCEPT !.cancelled = @ \cup Owned(p), !.held = [k \in Keys |-> "none"]]

\* Who owns key k when it goes down: who owned it before, or whom the first press gives it to.  A release the page
\* never saw ends a press of "shortcut".
Missed(p, k, repeat) == Route = "shortcut" /\ ~repeat /\ p.held[k] = "host"
OwnerOf(p, k, repeat, eligible) ==
  IF p.held[k] # "none" /\ ~Missed(p, k, repeat) THEN p.held[k]
  ELSE IF p.on /\ ~repeat /\ eligible THEN "host"
  ELSE IF p.on \/ Route = "space" THEN "page" ELSE "none"

\* The keydown handler.
KeyDown(k, repeat, eligible) ==
  IF k \in page.cancelled /\ repeat THEN UNCHANGED <<page, toHost>>
  ELSE LET owner == OwnerOf(page, k, repeat, eligible) IN
       /\ page' = [page EXCEPT !.cancelled = @ \ {k}, !.held[k] = owner]
       /\ toHost' = toHost \o (IF Missed(page, k, repeat) THEN <<Message(page, k, "u")>> ELSE <<>>)
                           \o (IF owner = "host" THEN <<Message(page, k, IF repeat THEN "r" ELSE "d")>> ELSE <<>>)

\* The keyup handler.
KeyUp(k) ==
  /\ page' = [page EXCEPT !.held[k] = "none", !.cancelled = @ \ {k}]
  /\ toHost' = toHost \o (IF page.held[k] = "host" THEN <<Message(page, k, "u")>> ELSE <<>>)

\* blur, pagehide and a routing that is switched off.
GiveBack == page' = Released(page) /\ toHost' = toHost \o Ups(page, Owned(page))

HostRest == UNCHANGED <<s, events, down, reaper>>
Window == s.live /\ ~s.closed

\* The user presses a key, in an editable field or not, and the keyboard repeats it.
Press(k) ==
  /\ Window /\ focused /\ k \notin keys /\ presses < MaxPresses /\ Len(toHost) < MaxWire
  /\ keys' = keys \cup {k} /\ presses' = presses + 1
  /\ \E eligible \in BOOLEAN : KeyDown(k, FALSE, eligible)
  /\ UNCHANGED <<toPage, focused>> /\ HostRest
Repeat(k) ==
  /\ Window /\ focused /\ k \in keys /\ Len(toHost) < MaxWire
  /\ \E eligible \in BOOLEAN : KeyDown(k, TRUE, eligible)
  /\ UNCHANGED <<toPage, keys, focused, presses>> /\ HostRest
\* A key that goes up; the page does not hear of it without the focus, nor of some command combinations.
Lift(k) ==
  /\ k \in keys /\ keys' = keys \ {k}
  /\ \/ Window /\ focused /\ KeyUp(k)
     \/ (Window /\ focused => Route = "shortcut") /\ UNCHANGED <<page, toHost>>
  /\ UNCHANGED <<toPage, focused, presses>> /\ HostRest
Focus ==
  /\ Window /\ focused' = ~focused
  /\ IF focused THEN GiveBack ELSE UNCHANGED <<page, toHost>>
  /\ UNCHANGED <<toPage, keys, presses>> /\ HostRest

\* A script of the host switches the routing.
RunScript ==
  /\ Window /\ toPage # <<>> /\ toPage' = Tail(toPage)
  /\ LET on == Head(toPage).on
         doc == Head(toPage).doc
         back == page.on /\ (~on \/ (Route = "shortcut" /\ page.says # doc)) IN
     /\ page' = [(IF back THEN Released(page) ELSE page) EXCEPT !.on = on, !.says = doc]
     /\ toHost' = toHost \o (IF back THEN Ups(page, Owned(page)) ELSE <<>>)
  /\ UNCHANGED <<keys, focused, presses>> /\ HostRest

\* The next document takes the place of this one, some time after the host heard of the navigation: scripts that are
\* on their way still reach it, or do not.
Commit ==
  /\ Window /\ page.greeted /\ ~s.ready
  /\ \E kept \in {<<>>, toPage} : toPage' = kept
  /\ page' = NewPage(page.doc + 1)
  /\ toHost' = toHost \o Ups(page, Owned(page))
  /\ UNCHANGED <<keys, focused, presses>> /\ HostRest

-----------------------------------------------------------------------------
(* The host *)

PageRest == UNCHANGED <<page, keys, focused, presses>>
Enabled == s.routing /\ ~s.parked

\* Mutant: the events are forgotten and the keys stay down.
ReleaseEvents == events' = <<>> /\ down' = {} /\ UNCHANGED reaper
\* release_shortcuts, release_daw_space: what waits is forgotten and every key that is down goes up.
Release == events' = <<>> /\ down' = {} /\ reaper' = reaper \ down

\* A message of the page arrives; a full queue gives up.
Takes(m) == /\ ~s.closing /\ s.ready /\ Enabled /\ (Route = "shortcut" => m.doc = s.doc)
            /\ (Route = "space" => (m.kind # "r" \/ events = <<>> \/ events[Len(events)].kind # "r"))
Receive ==
  /\ s.live /\ toHost # <<>> /\ toHost' = Tail(toHost)
  /\ IF ~Takes(Head(toHost)) THEN UNCHANGED <<events, down, reaper>>
     ELSE IF Len(events) < QueueLimit
          THEN events' = Append(events, Head(toHost)) /\ UNCHANGED <<down, reaper>>
     ELSE IF Route = "shortcut" THEN Release
     ELSE events' = <<[Head(toHost) EXCEPT !.kind = "u"]>> /\ UNCHANGED <<down, reaper>>
  /\ UNCHANGED <<toPage, s>> /\ PageRest

\* tick_shortcuts, tick_daw_keyboard for one event: presses, repeats and releases of a press are passed on; no
\* new press once REAPER shows another effect.
Unpaired(m) == (m.kind = "d") = (m.key \in down)
Gone(m) == Route = "space" /\ Hosted /\ ~s.current /\ m.kind # "u" /\ ~Unpaired(m)
Pass(m) ==
  /\ events' = Tail(events)
  /\ IF Unpaired(m) THEN UNCHANGED <<down, reaper>>
     ELSE LET now == IF m.kind = "u" THEN down \ {m.key} ELSE down \cup {m.key} IN
          down' = now /\ reaper' = (reaper \ down) \cup now
Over == s.closing \/ s.closed \/ ~Enabled
Tick ==
  /\ s.live /\ (events # <<>> \/ (Route = "shortcut" /\ down # {}))
  /\ IF Over THEN Release
     ELSE /\ events # <<>>
          /\ IF Gone(Head(events)) THEN Release ELSE Pass(Head(events))
  /\ UNCHANGED <<toHost, toPage, s>> /\ PageRest

Evaluate(on) == toPage' = Append(toPage, [on |-> on, doc |-> s.doc])

\* set_shortcut_routing, setDawKeyboard.
SetRouting(on) ==
  /\ s.live /\ ~s.closing /\ ~s.closed /\ Len(toPage) < MaxWire
  /\ (Route = "space" => s.ready)
  /\ IF on THEN UNCHANGED <<events, down, reaper>> ELSE Release
  /\ s' = [s EXCEPT !.routing = on] /\ Evaluate(on)
  /\ UNCHANGED toHost /\ PageRest

\* The keys go before the document.
Navigate ==
  /\ s.live /\ ~s.closed /\ s.ready /\ page.doc < MaxDocs
  /\ Release /\ s' = [s EXCEPT !.ready = FALSE, !.doc = 0, !.routing = FALSE, !.action = ""]
  /\ UNCHANGED <<toHost, toPage>> /\ PageRest

\* The first call of a document; Space is routed as its configuration says.
Hello ==
  /\ s.live /\ ~s.closing /\ ~s.closed /\ ~s.ready /\ ~page.greeted /\ Len(toPage) < MaxWire
  /\ \E on \in IF Route = "space" THEN BOOLEAN ELSE {s.routing} :
       /\ s' = [s EXCEPT !.ready = TRUE, !.doc = page.doc, !.routing = on]
       /\ toPage' = IF on \/ Route = "space" THEN Append(toPage, [on |-> on, doc |-> page.doc]) ELSE toPage
  /\ page' = [page EXCEPT !.greeted = TRUE]
  /\ UNCHANGED <<toHost, events, down, reaper, keys, focused, presses>>

\* Runtime::close: "space" keeps its key until the window is taken away.
Close ==
  /\ s.live /\ s.action = "" /\ ~s.closing
  /\ IF Route = "shortcut" THEN Release ELSE UNCHANGED <<events, down, reaper>>
  /\ s' = IF Cleans /\ s.ready /\ ~s.closed THEN [s EXCEPT !.action = "close"]
          ELSE [s EXCEPT !.closing = TRUE, !.how = IF s.closed THEN @ ELSE "close"]
  /\ UNCHANGED <<toHost, toPage>> /\ PageRest

\* The page has cleaned up, or its time is over.
Complete ==
  /\ s.live /\ s.action = "close" /\ ~s.closing
  /\ s' = [s EXCEPT !.action = "", !.closing = TRUE, !.how = "completed"]
  /\ UNCHANGED <<toHost, toPage, events, down, reaper>> /\ PageRest

\* The page's process or its native window goes by itself.
Fail ==
  /\ s.live /\ ~s.closed
  /\ s' = [s EXCEPT !.closed = TRUE, !.how = "failed"]
  /\ UNCHANGED <<toHost, toPage, events, down, reaper>> /\ PageRest

\* The tick takes the window away; release_jsfx releases Space of every window.
Erase ==
  /\ s.live /\ (s.closing \/ s.closed)
  /\ IF Route = "space" THEN Release ELSE UNCHANGED <<events, down, reaper>>
  /\ s' = [s EXCEPT !.live = FALSE]
  /\ UNCHANGED <<toHost, toPage>> /\ PageRest

\* REAPER shows another effect; the page is parked, and taken back.
Switch ==
  /\ Hosted /\ s.live /\ ~s.closing /\ s.current /\ s' = [s EXCEPT !.current = FALSE]
  /\ UNCHANGED <<toHost, toPage, events, down, reaper>> /\ PageRest
Park ==
  /\ Hosted /\ s.live /\ ~s.closing /\ ~s.current /\ ~s.parked
  /\ Release /\ s' = [s EXCEPT !.parked = TRUE]
  /\ UNCHANGED <<toHost, toPage>> /\ PageRest
Attach ==
  /\ Hosted /\ s.live /\ ~s.closing /\ s.parked /\ s' = [s EXCEPT !.parked = FALSE, !.current = TRUE]
  /\ UNCHANGED <<toHost, toPage, events, down, reaper>> /\ PageRest

Next ==
  \/ \E k \in Keys : Press(k) \/ Repeat(k) \/ Lift(k)
  \/ Focus \/ RunScript \/ Commit
  \/ Receive \/ Tick \/ (\E on \in BOOLEAN : SetRouting(on)) \/ Navigate \/ Hello
  \/ Close \/ Complete \/ Fail \/ Erase \/ Switch \/ Park \/ Attach

Spec == Init /\ [][Next]_vars

-----------------------------------------------------------------------------

\* An end of the press of k is on its way: a message or an event that will be taken.
EndsOnItsWay(k) ==
  \/ \E i \in DOMAIN events : events[i].key = k /\ events[i].kind = "u"
  \/ \E i \in DOMAIN toHost : toHost[i].key = k /\ toHost[i].kind = "u" /\ (Route = "shortcut" => toHost[i].doc = s.doc)

\* A key REAPER believes held is one the page in front of the user still owns, or its release is on its way; a window
\* that is gone leaves none behind, except for keys of a page that failed or was cleaning up, which only the next
\* tick would have released (Runtime::release_shortcuts, Runtime::release_daw_space, the scripts in the page).
KeysComeUp ==
  \A k \in reaper :
    \/ s.live /\ k \in down /\ (page.held[k] = "host" \/ EndsOnItsWay(k) \/ s.closed \/ s.how = "completed" \/ (Route = "space" /\ s.closing))
    \/ Route = "shortcut" /\ ~s.live /\ s.how \in {"failed", "completed"}

\* The values the variables take: the records, counters and queues stay within the bounds of the code.
Wire == [key : Keys, kind : {"d", "r", "u"}, doc : 0 .. MaxDocs]
TypeOK ==
  /\ page.doc \in 1 .. MaxDocs /\ page.says \in 0 .. MaxDocs /\ page.on \in BOOLEAN /\ page.greeted \in BOOLEAN
  /\ page.held \in [Keys -> {"none", "host", "page"}] /\ page.cancelled \subseteq Keys
  /\ toHost \in Seq(Wire) /\ events \in Seq(Wire) /\ Len(events) <= QueueLimit
  /\ toPage \in Seq([on : BOOLEAN, doc : 0 .. MaxDocs]) /\ Len(toPage) <= MaxWire
  /\ s \in [ready : BOOLEAN, doc : 0 .. MaxDocs, routing : BOOLEAN, current : BOOLEAN, parked : BOOLEAN,
            action : {"", "close"}, closing : BOOLEAN, closed : BOOLEAN, live : BOOLEAN,
            how : {"", "close", "completed", "failed"}]
  /\ down \subseteq Keys /\ keys \subseteq Keys /\ reaper \subseteq Keys
  /\ focused \in BOOLEAN /\ presses \in 0 .. MaxPresses
=============================================================================
