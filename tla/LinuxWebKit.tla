----------------------------- MODULE LinuxWebKit -----------------------------
(***************************************************************************)
(* The Linux back end: the extension inside REAPER (platform_linux.cpp,    *)
(* linux_alpha.hpp) and the helper process that holds the pages            *)
(* (linux_webkit.cpp), joined by a socket (linux_channel.hpp).             *)
(*                                                                         *)
(* A page is a window of the helper inside an X11 window of REAPER.  When  *)
(* that one goes, what is still inside goes with it; so before a window is *)
(* hidden, docked or closed the page is parked, and the main thread waits  *)
(* a quarter of a second for the answer.  A transparent window is shown    *)
(* when the page has a frame for it.  Reloads ask the host first.  Calls   *)
(* to the desktop are answered, time out, or end with the process.  The    *)
(* helper may be slow and may end at any point.  Sizes, focus, icons,      *)
(* developer tools and drags are left out.                                 *)
(***************************************************************************)
EXTENDS Naturals, Sequences

CONSTANTS
  Windows,      \* windows, by their id
  Transparent,  \* those that are transparent
  MaxNatives,   \* bound on the X11 windows made
  MaxLate,      \* bound on the parks given up
  MaxReloads,   \* bound on the reloads, and on the navigations a page work
  MaxAsked      \* bound on the desktop calls

VARIABLES
  helper,    \* the helper process: "starting", "up", "gone"
  error,     \* LinuxProcess::error is set
  toHelper, toHost,  \* the two directions of the channel
  host,      \* each window in the extension
  frames,    \* alpha_frames: the X11 window the last frame of each page was made for
  call,      \* the call of the main thread that waits for a parked page
  parked,    \* parked_
  natives,   \* X11 windows made so far
  page,      \* each page in the helper
  desktop,   \* desktop_: calls without an answer
  asked,     \* next_desktop_
  work,      \* reloads asked by the host, attempts of pages to navigate, desktop calls under way in the helper
  late,      \* history: windows with a park that was given up, and how many
  history    \* history: pages lost with their window, frames shown early, answers given

vars == <<helper, error, toHelper, toHost, host, frames, call, parked, natives, page, desktop, asked, work, late, history>>

None == 0
New == [at |-> "new", native |-> None, shown |-> FALSE, wants |-> FALSE, sent |-> None, alpha |-> "none", told |-> FALSE]
NoPage == [there |-> FALSE, parent |-> None, inside |-> None, ready |-> FALSE, loaded |-> FALSE, allow |-> FALSE,
           snapshot |-> None, framed |-> None, failed |-> FALSE, navigations |-> 0, reloads |-> 0]
NoCall == [id |-> None, then |-> "none"]
Message(op, w, arg) == [op |-> op, id |-> w, arg |-> arg]

Init ==
  /\ helper = "gone" /\ error = TRUE  \* prepare_process() has not run
  /\ toHelper = <<>> /\ toHost = <<>>
  /\ host = [w \in Windows |-> New] /\ frames = [w \in Windows |-> None] /\ call = NoCall /\ parked = {}
  /\ natives = 0 /\ page = [w \in Windows |-> NoPage] /\ desktop = {} /\ asked = 0
  /\ work = [reload |-> 0, navigate |-> 0, running |-> {}] /\ late = [windows |-> {}, count |-> 0]
  /\ history = [lost |-> {}, early |-> {}, answers |-> <<>>]

Idle == call = NoCall
Listens(w) == host[w].at = "open"
Working == helper # "gone" /\ ~error
Arrived(channel) == channel # <<>>
Send(m) == toHelper' = Append(toHelper, m)

-----------------------------------------------------------------------------
(* The windows in the extension. *)

\* A new process knows nothing of the one before.
NewProcess(m) ==
  /\ helper' = "starting" /\ error' = FALSE /\ toHelper' = <<m>> /\ toHost' = <<>>
  /\ desktop' = {} /\ parked' = {} /\ page' = [x \in Windows |-> NoPage] /\ work' = [work EXCEPT !.running = {}]
\* prepare_process(): one that has failed is replaced when its last window is gone, and refuses windows before.
Prepare(m) ==
  IF error THEN (\A x \in Windows : ~Listens(x)) /\ NewProcess(m)
  ELSE Working /\ Send(m) /\ UNCHANGED <<helper, error, toHost, desktop, parked, page, work>>
Open(w) ==
  /\ Idle /\ host[w].at = "new" /\ host' = [host EXCEPT ![w].at = "open"]
  /\ Prepare(Message("open", w, 0))
  /\ UNCHANGED <<frames, call, natives, asked, late, history>>

\* A transparent window is invisible at first.
Concealed(w) == IF w \in Transparent THEN "pending" ELSE "none"
\* set_visible(true): SWELL makes an X11 window.
Show(w) ==
  /\ Idle /\ Listens(w) /\ Working /\ ~host[w].shown
  /\ host[w].native = None => natives < MaxNatives
  /\ natives' = IF host[w].native = None THEN natives + 1 ELSE natives
  /\ host' = [host EXCEPT ![w].shown = TRUE, ![w].wants = TRUE,
               ![w].native = IF @ = None THEN natives' ELSE @,
               ![w].alpha = Concealed(w)]
  /\ UNCHANGED <<helper, error, toHelper, toHost, frames, call, parked, page, desktop, asked, work, late, history>>

\* The X11 window n goes, and a page that is still inside.
Destroyed(n, excused) ==
  /\ page' = [w \in Windows |-> IF n # None /\ page[w].inside = n THEN [page[w] EXCEPT !.inside = None, !.failed = TRUE] ELSE page[w]]
  /\ history' = [history EXCEPT !.lost = @ \union {w \in Windows \ excused : n # None /\ page[w].inside = n /\ Working}]

\* sync(): a window that is shown tells the page where it is, once; a frame that was made
\* for it makes it visible.
Presents(w) == host[w].alpha = "pending" /\ frames[w] = host[w].native
Sync(w) ==
  /\ Idle /\ Listens(w) /\ Working /\ host[w].wants /\ host[w].native # None
  /\ host[w].sent # host[w].native \/ Presents(w)
  /\ host' = [host EXCEPT ![w].alpha = IF Presents(w) THEN "shown" ELSE @, ![w].sent = host[w].native]
  /\ IF host[w].sent # host[w].native THEN Send(Message("geometry", w, host[w].native)) ELSE UNCHANGED toHelper
  /\ history' = [history EXCEPT !.early = @ \union
                   {x \in {w} \ late.windows : Presents(x) /\ page[x].there /\ ~page[x].failed /\ page[x].inside # host[x].native}]
  /\ UNCHANGED <<helper, error, toHost, frames, call, parked, natives, page, desktop, asked, work, late>>

\* park(): the answer of an earlier call is forgotten, then the main thread waits.
Park(w, then) ==
  /\ parked' = parked \ {w} /\ Send(Message("park", w, 0)) /\ call' = [id |-> w, then |-> then]

\* set_visible(false): only a page that was told where it is has to be parked.
HidesNow(w, t) ==
  /\ host' = [t EXCEPT ![w].shown = FALSE, ![w].alpha = "none"]
  /\ frames' = [frames EXCEPT ![w] = IF w \in Transparent THEN None ELSE @]
Hide(w) ==
  /\ Idle /\ Listens(w) /\ Working /\ host[w].shown
  /\ LET t == [host EXCEPT ![w].wants = FALSE, ![w].sent = None]
     IN IF host[w].sent = None
        THEN HidesNow(w, t) /\ UNCHANGED <<parked, toHelper, call>>
        ELSE host' = t /\ UNCHANGED frames /\ Park(w, "hide")
  /\ UNCHANGED <<helper, error, toHost, natives, page, desktop, asked, work, late, history>>

\* prepare_dock() and prepare_undock(): the window is about to be inside another one.
Dock(w) ==
  /\ Idle /\ Listens(w) /\ Working /\ host[w].shown /\ w \notin Transparent /\ natives < MaxNatives
  /\ host[w].sent # None
  /\ host' = [host EXCEPT ![w].sent = None] /\ Park(w, "dock")
  /\ UNCHANGED <<helper, error, toHost, frames, natives, page, desktop, asked, work, late, history>>

\* The window goes, and its X11 window with it.
Gone(w, excused) ==
  /\ host' = [host EXCEPT ![w] = [New EXCEPT !.at = "closed"]] /\ frames' = [frames EXCEPT ![w] = None]
  /\ Destroyed(host[w].native, excused)
\* ~LinuxWindow(): the page is parked wherever it is; without the helper there is nothing to park.
Close(w) ==
  /\ Idle /\ Listens(w)
  /\ IF Working
     THEN Park(w, "close") /\ UNCHANGED <<host, frames, page, history>>
     ELSE Gone(w, late.windows) /\ UNCHANGED <<parked, toHelper, call>>
  /\ UNCHANGED <<helper, error, toHost, natives, desktop, asked, work, late>>

\* Mutant: the window goes on without the answer.
AnswersAtOnce(w) == TRUE

Answers(w) == w \in parked
\* The page is parked: what the call was for goes on.
ParkDone ==
  /\ ~Idle /\ Answers(call.id) /\ parked' = parked \ {call.id} /\ call' = NoCall
  /\ LET w == call.id IN
     \/ call.then = "hide" /\ HidesNow(w, host) /\ UNCHANGED <<toHelper, natives, page, history>>
     \/ /\ call.then = "dock" /\ natives' = natives + 1
        /\ host' = [host EXCEPT ![w].native = natives'] /\ Destroyed(host[w].native, late.windows)
        /\ UNCHANGED <<toHelper, frames>>
     \/ call.then = "close" /\ Send(Message("close", w, 0)) /\ Gone(w, late.windows) /\ UNCHANGED natives
  /\ UNCHANGED <<helper, error, toHost, desktop, asked, work, late>>

\* A quarter of a second is over, or the helper is: the window stays as it was; but one that
\* closes is gone, without a word to the helper.
ParkFails ==
  /\ ~Idle /\ call' = NoCall
  /\ error \/ late.count < MaxLate
  /\ late' = [windows |-> late.windows \union {call.id}, count |-> late.count + (IF error THEN 0 ELSE 1)]
  /\ LET w == call.id IN
     IF call.then = "close" THEN Gone(w, late'.windows)
     ELSE /\ host' = [host EXCEPT ![w].wants = TRUE] /\ UNCHANGED <<frames, page, history>>
  /\ UNCHANGED <<helper, error, toHelper, toHost, parked, natives, desktop, asked, work>>

\* reload()
Reload(w) ==
  /\ Idle /\ Listens(w) /\ Working /\ work.reload < MaxReloads /\ work' = [work EXCEPT !.reload = @ + 1]
  /\ Send(Message("reload", w, 0))
  /\ UNCHANGED <<helper, error, toHost, host, frames, call, parked, natives, page, desktop, asked, late, history>>

\* desktop(), and the calls whose ten seconds are over.
Ask ==
  /\ Idle /\ Working /\ asked < MaxAsked /\ asked' = asked + 1 /\ desktop' = desktop \union {asked'}
  /\ Send(Message("desktop", None, asked'))
  /\ UNCHANGED <<helper, error, toHost, host, frames, call, parked, natives, page, work, late, history>>
Answered(n) == desktop' = desktop \ {n} /\ history' = [history EXCEPT !.answers = Append(@, n)]
AskTimeout ==
  /\ ~error /\ \E n \in desktop : Answered(n)
  /\ UNCHANGED <<helper, error, toHelper, toHost, host, frames, call, parked, natives, page, asked, work, late>>

\* pump(): the next message of the helper, also while a call waits.
HostReceive ==
  /\ ~error /\ Arrived(toHost) /\ toHost' = Tail(toHost)
  /\ LET m == Head(toHost)
         w == m.id
     IN \/ m.op = "parked" /\ parked' = parked \union {w} /\ UNCHANGED <<host, frames, desktop, history, toHelper>>
        \/ /\ m.op = "result" /\ UNCHANGED <<host, frames, parked, toHelper>>
           /\ IF m.arg \in desktop THEN Answered(m.arg) ELSE UNCHANGED <<desktop, history>>
        \/ /\ m.op = "frame" /\ UNCHANGED <<host, parked, desktop, history, toHelper>>
           /\ frames' = IF Listens(w) THEN [frames EXCEPT ![w] = m.arg] ELSE frames
        \/ /\ m.op = "error" /\ UNCHANGED <<frames, parked, desktop, history, toHelper>>
           /\ host' = [host EXCEPT ![w].told = Listens(w)]
        \* on_reload() takes care of it, and reloads later or not at all; or nobody does.
        \/ /\ m.op = "reload-request" /\ UNCHANGED <<host, frames, parked, desktop, history>>
           /\ (UNCHANGED toHelper \/ (Listens(w) /\ Send(Message("reload", w, 0))))
  /\ UNCHANGED <<helper, error, call, natives, page, asked, work, late>>

\* The helper has ended, or has not begun within 15 seconds: every window is told.
HostFails ==
  /\ ~error /\ (helper = "starting" \/ (helper = "gone" /\ toHost = <<>>)) /\ error' = TRUE
  /\ host' = [w \in Windows |-> IF Listens(w) THEN [host[w] EXCEPT !.told = TRUE] ELSE host[w]]
  /\ UNCHANGED <<helper, toHelper, toHost, frames, call, parked, natives, page, desktop, asked, work, late, history>>

\* SWELL destroys the X11 window of a hidden window when its message loop runs.
SwellDestroys(w) ==
  /\ Idle /\ Listens(w) /\ ~host[w].shown /\ host[w].native # None
  /\ host' = [host EXCEPT ![w].native = None] /\ Destroyed(host[w].native, late.windows)
  /\ UNCHANGED <<helper, error, toHelper, toHost, frames, call, parked, natives, desktop, asked, work, late>>

-----------------------------------------------------------------------------
(* The helper. *)

Extension == <<error, host, frames, call, parked, natives, desktop, asked, late, history>>
Tell(m) == toHost' = Append(toHost, m)

\* prepare_alpha(): a snapshot of a page in a window without a frame.
Prepared(w, p) ==
  IF w \in Transparent /\ p.ready /\ p.parent # None /\ p.snapshot = None /\ p.framed # p.parent /\ ~p.failed
  THEN [p EXCEPT !.snapshot = p.parent] ELSE p

Start == helper = "starting" /\ helper' = "up" /\ UNCHANGED <<toHelper, toHost, page, work, Extension>>
Die == helper # "gone" /\ helper' = "gone" /\ UNCHANGED <<toHelper, toHost, page, work, Extension>>

\* park: the page leaves the window.
Parked(p) == [p EXCEPT !.parent = None, !.inside = None, !.framed = None]
\* geometry: the page moves into a window, if that is still there.
Moved(w, p, n) ==
  Prepared(w, [p EXCEPT !.parent = n, !.inside = IF n = p.parent THEN @ ELSE IF n = host[w].native THEN n ELSE None])

\* A desktop call is answered at once or later.
Perform(n) ==
  \/ Tell(Message("result", None, n)) /\ UNCHANGED work
  \/ work' = [work EXCEPT !.running = @ \union {n}] /\ UNCHANGED toHost
Performed ==
  /\ helper = "up" /\ \E n \in work.running :
       work' = [work EXCEPT !.running = @ \ {n}] /\ Tell(Message("result", None, n))
  /\ UNCHANGED <<helper, toHelper, page, Extension>>

NewPage == [NoPage EXCEPT !.there = TRUE]
Command(op, w, n) ==
  \/ op = "open" /\ page' = [page EXCEPT ![w] = NewPage] /\ UNCHANGED toHost
  \/ op = "close" /\ page' = [page EXCEPT ![w] = NoPage] /\ UNCHANGED toHost
  \/ op \notin {"open", "close"} /\ ~page[w].there /\ UNCHANGED <<page, toHost>>
  \/ /\ page[w].there
     /\ \/ op = "geometry" /\ page' = [page EXCEPT ![w] = Moved(w, @, n)] /\ UNCHANGED toHost
        \/ op = "park" /\ page' = [page EXCEPT ![w] = Parked(@)] /\ Tell(Message("parked", w, 0))
        \/ op = "reload" /\ page' = [page EXCEPT ![w].allow = TRUE, ![w].reloads = @ + 1] /\ UNCHANGED toHost

HelperReceive ==
  /\ helper = "up" /\ Arrived(toHelper) /\ toHelper' = Tail(toHelper)
  /\ LET m == Head(toHelper)
         w == m.id
     IN \/ m.op = "desktop" /\ Perform(m.arg) /\ UNCHANGED page
        \/ m.op # "desktop" /\ UNCHANGED work /\ Command(m.op, w, m.arg)
  /\ UNCHANGED <<helper, Extension>>

\* decide-policy and load-changed: the page loads, or asks the host whether it may.
Navigate(w) ==
  /\ helper = "up" /\ page[w].there /\ ~page[w].failed
  /\ work.navigate < MaxReloads /\ work' = [work EXCEPT !.navigate = @ + 1]
  /\ IF page[w].loaded /\ ~page[w].allow
     THEN Tell(Message("reload-request", w, 0)) /\ UNCHANGED page
     ELSE /\ page' = [page EXCEPT ![w].allow = FALSE, ![w].loaded = TRUE, ![w].ready = FALSE, ![w].navigations = @ + 1]
          /\ UNCHANGED toHost
  /\ UNCHANGED <<helper, toHelper, Extension>>
Finish(w) ==
  /\ helper = "up" /\ page[w].loaded /\ ~page[w].ready
  /\ page' = [page EXCEPT ![w] = Prepared(w, [@ EXCEPT !.ready = TRUE])]
  /\ UNCHANGED <<helper, toHelper, toHost, work, Extension>>

\* A snapshot counts for the window it was asked for.
Fits(p) == p.parent = p.snapshot
Snapshot(w) ==
  /\ helper = "up" /\ page[w].snapshot # None
  /\ LET p == [page[w] EXCEPT !.snapshot = None] IN
     IF p.failed THEN page' = [page EXCEPT ![w] = p] /\ UNCHANGED toHost
     ELSE IF Fits(page[w])
     THEN page' = [page EXCEPT ![w] = [p EXCEPT !.framed = page[w].snapshot]] /\ Tell(Message("frame", w, page[w].snapshot))
     ELSE page' = [page EXCEPT ![w] = Prepared(w, p)] /\ UNCHANGED toHost
  /\ UNCHANGED <<helper, toHelper, work, Extension>>

\* The content process ends, or a load fails.
Fail(w) ==
  /\ helper = "up" /\ page[w].there /\ ~page[w].failed
  /\ page' = [page EXCEPT ![w].failed = TRUE] /\ Tell(Message("error", w, 0))
  /\ UNCHANGED <<helper, toHelper, work, Extension>>

Next ==
  \/ \E w \in Windows :
       \/ Open(w) \/ Show(w) \/ Sync(w) \/ Hide(w) \/ Dock(w) \/ Close(w) \/ Reload(w) \/ SwellDestroys(w)
       \/ Navigate(w) \/ Finish(w) \/ Snapshot(w) \/ Fail(w)
  \/ ParkDone \/ ParkFails \/ Ask \/ AskTimeout \/ HostReceive \/ HostFails
  \/ Start \/ Die \/ HelperReceive \/ Performed

Spec == Init /\ [][Next]_vars

-----------------------------------------------------------------------------
(* Properties. *)

\* No page goes down with an X11 window, however hides, docks and closes follow each other,
\* as long as no park of its window was given up.  A transparent window is shown with its
\* page inside.  A page navigates once by itself and once for each reload of the host.  A
\* window without a listener has no page, or a close on its way.  When the process fails all
\* windows know.  A desktop call is answered once.
PagesKept ==
  /\ history.lost = {} /\ history.early = {}
  /\ \A w \in Windows : page[w].navigations <= 1 + page[w].reloads
  /\ \A w \in Windows \ late.windows :
       Working /\ page[w].there /\ ~Listens(w) => \E i \in DOMAIN toHelper : toHelper[i] = Message("close", w, 0)
  /\ error => \A w \in Windows : Listens(w) => host[w].told
  /\ \A i, j \in DOMAIN history.answers : history.answers[i] = history.answers[j] => i = j

\* The values the variables take: the records, counters and queues stay within the bounds of the code.
Natives == 0 .. natives
TypeOK ==
  /\ helper \in {"starting", "up", "gone"} /\ error \in BOOLEAN
  /\ natives \in 0 .. MaxNatives /\ asked \in 0 .. MaxAsked
  /\ toHelper \in Seq([op : {"open", "geometry", "park", "close", "reload", "desktop"}, id : Windows \union {None},
                       arg : Natives \union 0 .. asked])
  /\ toHost \in Seq([op : {"parked", "result", "frame", "error", "reload-request"}, id : Windows \union {None},
                     arg : Natives \union 0 .. asked])
  /\ \A w \in Windows :
       /\ host[w].at \in {"new", "open", "closed"} /\ host[w].alpha \in {"none", "pending", "shown"}
       /\ {host[w].native, host[w].sent, frames[w], page[w].parent, page[w].inside, page[w].snapshot, page[w].framed} \subseteq Natives
       /\ {host[w].shown, host[w].wants, host[w].told, page[w].there, page[w].ready, page[w].loaded, page[w].allow, page[w].failed} \subseteq BOOLEAN
       /\ page[w].reloads \in 0 .. 2 * MaxReloads + 1 /\ page[w].navigations \in 0 .. MaxReloads
  /\ call \in [id : Windows, then : {"hide", "dock", "close"}] \union {NoCall} /\ parked \subseteq Windows
  /\ desktop \subseteq 1 .. asked /\ work.running \subseteq 1 .. asked
  /\ work.reload \in 0 .. MaxReloads /\ work.navigate \in 0 .. MaxReloads
  /\ late.windows \subseteq Windows /\ late.count \in 0 .. MaxLate
  /\ history.lost \subseteq Windows /\ history.early \subseteq Windows /\ history.answers \in Seq(1 .. asked)
=============================================================================
