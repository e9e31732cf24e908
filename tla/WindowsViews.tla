----------------------------- MODULE WindowsViews -----------------------------
(***************************************************************************)
(* The Windows back end (platform_win.cpp): WebView2 environments, its     *)
(* controllers and the pool of blank ones arrive in callbacks, navigations *)
(* and captures of the first frame too.  A window is cloaked, or has an    *)
(* empty region where it cannot be cloaked, until the frame of its present *)
(* document is there or somebody has shown it explicitly; meanwhile it may *)
(* be hidden, shown, docked, undocked, moved between FX windows, reloaded  *)
(* and closed.  Geometry, styles, icons, overlays, drags, focus and        *)
(* developer tools are left out.                                           *)
(***************************************************************************)
EXTENDS Presentation

CONSTANTS
  Windows,         \* windows, each opened once
  Hosted,          \* those that hold the page of an effect inside an FX window
  MaxNavigations,  \* bound on the navigations of a window
  MaxViews,        \* bound on the blank views made
  MaxAttempts      \* bound on the environments asked for

VARIABLES
  env,       \* the status of EnvironmentState: "busy", "ready", "failed"
  attempts,  \* attempt
  waiting,   \* windows that wait for the environment
  pool,      \* idle_: the state of each blank view
  target,    \* its capacity
  made,      \* blank views made so far
  win        \* the windows

vars == <<env, attempts, waiting, pool, target, made, win>>

\* page: how far the page is; capture: the navigation whose capture is under way;
\* requested: snapshot_requested_; seen, asked: history, the present navigation was
\* captured, the window was shown explicitly.
NoWindow ==
  [at |-> "none", closed |-> FALSE, startup |-> NewStartup(FALSE), page |-> "none", capture |-> {}, requested |-> {},
   cloaked |-> FALSE, region |-> FALSE, shown |-> FALSE, child |-> FALSE, seen |-> FALSE, asked |-> FALSE]
\* The constructor asks for the environment, which may fail at once.
Init ==
  /\ env \in {"busy", "failed"} /\ attempts = 1 /\ waiting = {} /\ pool = <<>> /\ target = 0 /\ made = 0
  /\ win = [w \in Windows |-> NoWindow]

Alive(x) == x.at = "open" /\ ~x.closed
Failed(x) == [x EXCEPT !.closed = TRUE]
\* environment_wait_cancelled()
WaitCancelled(x) == x.closed \/ x.startup.cancelled
\* initialize(): a controller is asked for, unless the FX window has gone, or it fails.
Initialized(x) == IF WaitCancelled(x) THEN {x} ELSE {[x EXCEPT !.page = "creating"], Failed(x)}
Set(w, x) == win' = [win EXCEPT ![w] = x]
Calm == UNCHANGED <<env, attempts, waiting, pool, target, made>>

-----------------------------------------------------------------------------
(* The environment, the pool and new windows. *)

\* Who is initialized, or fails with the environment.
Served(w) == w \in waiting /\ ~WaitCancelled(win[w])
\* The callback of CreateCoreWebView2EnvironmentWithOptions.
EnvironmentAnswers ==
  /\ env = "busy" /\ env' \in {"ready", "failed"} /\ waiting' = {}
  /\ \E failing \in SUBSET waiting :
       win' = [w \in Windows |->
         IF ~Served(w) THEN win[w]
         ELSE IF env' = "failed" \/ w \in failing THEN Failed(win[w]) ELSE [win[w] EXCEPT !.page = "creating"]]
  /\ UNCHANGED <<attempts, pool, target, made>>
\* A new window: floating ones are cloaked, hosted ones have an empty region.
Opened(w, hidden) ==
  [NoWindow EXCEPT !.at = "open", !.startup = NewStartup(hidden), !.cloaked = w \notin Hosted,
     !.region = w \in Hosted, !.shown = ~hidden \/ w \in Hosted, !.child = w \in Hosted]
\* open(): a failed environment is asked for again, which may fail at once; a blank view is
\* taken from the pool, but attach() may refuse it.
Open(w) ==
  /\ win[w].at = "none"
  /\ \/ env # "failed" /\ UNCHANGED <<env, attempts>>
     \/ env = "failed" /\ attempts < MaxAttempts /\ attempts' = attempts + 1 /\ env' = "busy"
  /\ pool' = IF Takable(pool) = {} THEN pool ELSE WithoutTaken(pool)
  /\ waiting' = IF env' = "ready" THEN waiting ELSE waiting \union {w}
  /\ \E hidden \in BOOLEAN :
       LET x == Opened(w, hidden)
       IN IF env' # "ready" THEN Set(w, x)
          ELSE \/ Takable(pool) # {} /\ Set(w, [x EXCEPT !.page = "script"])
               \/ \E y \in Initialized(x) : Set(w, y)
  /\ UNCHANGED <<target, made>>
\* idle() and set_idle_capacity()
Idle ==
  /\ env = "ready" /\ \E late \in BOOLEAN : \E next \in {Kept(pool, late), Refilled(Kept(pool, late), target)} :
       /\ pool' = next /\ pool # next
       /\ made' = IF Len(next) > Len(Kept(pool, late)) THEN made + 1 ELSE made
  /\ made' <= MaxViews
  /\ UNCHANGED <<env, attempts, waiting, target, win>>
Resize == \E n \in 0 .. 2 : target' = n /\ pool' = Resized(pool, n) /\ UNCHANGED <<env, attempts, waiting, made, win>>
ViewTurns == Turns(pool, pool') /\ UNCHANGED <<env, attempts, waiting, target, made, win>>
\* The callback with a controller for the window; configure() may throw.
Created(w) ==
  /\ Alive(win[w]) /\ win[w].page = "creating"
  /\ \E x \in {Failed(win[w]), [win[w] EXCEPT !.page = "script"]} : Set(w, x)
  /\ Calm

-----------------------------------------------------------------------------
(* The first frame. *)

\* prepare_startup(): one capture at a time; it may fail at once.
Capturing(x) ==
  LET r == [x EXCEPT !.requested = {x.startup.gen}]
  IN IF ~x.startup.pending \/ x.capture # {} THEN {r} ELSE {Failed(r), [r EXCEPT !.capture = {x.startup.gen}]}
\* Mutant: an outdated capture is not taken again.
RetakesNot(x) == FALSE
\* The capture is of an older document; the present one has asked in the meantime.
Retakes(x) == x.requested = {x.startup.gen}
\* tick(): the window is uncovered and shown once.
Uncovered(x, hosted) ==
  IF ~Presents(x.startup) \/ x.closed THEN x
  ELSE [x EXCEPT !.startup.pending = FALSE, !.shown = TRUE, !.region = FALSE,
          !.cloaked = IF x.region \/ hosted THEN @ ELSE FALSE]
Tick(w) ==
  /\ Alive(win[w])
  /\ \/ Expires(win[w].startup) /\ Set(w, Failed(win[w]))
     \/ ~Expires(win[w].startup) /\ Presents(win[w].startup) /\ Set(w, Uncovered(win[w], w \in Hosted))
  /\ Calm
\* The bridge is injected and the page is loaded, or the window fails.
ScriptAdded(w) ==
  /\ Alive(win[w]) /\ win[w].page = "script"
  /\ \E x \in {Failed(win[w]), [win[w] EXCEPT !.page = "navigating"]} : Set(w, x)
  /\ Calm
\* NavigationStarting, the first one or a reload that on_reload() lets through.
NavigationStarting(w) ==
  LET x == win[w] hosted == w \in Hosted
  IN /\ Alive(x) /\ x.page \in {"navigating", "loading", "asked"} /\ x.startup.gen < MaxNavigations
     /\ Set(w, [x EXCEPT !.startup = Navigated(IF hosted THEN Requested(@, FALSE) ELSE @, hosted), !.page = "loading",
                  !.shown = IF hosted /\ ~x.startup.pending THEN FALSE ELSE @,
                  !.seen = @ /\ ~hosted, !.asked = @ /\ ~hosted])
     /\ Calm
\* "__reawebPresent": the page is loaded and asks to be shown.
PageAsks(w) ==
  /\ Alive(win[w]) /\ win[w].page = "loading"
  /\ \E y \in Capturing([win[w] EXCEPT !.page = "asked"]) : Set(w, y)
  /\ Calm
\* The callback of CapturePreview.
Captured(w) ==
  LET x == [win[w] EXCEPT !.capture = {}]
  IN /\ Alive(win[w]) /\ win[w].capture # {}
     /\ IF win[w].capture # {x.startup.gen}
        THEN \E y \in IF Retakes(x) THEN Capturing(x) ELSE {x} : Set(w, y)
        ELSE \/ Set(w, Failed(x))
             \/ Set(w, Uncovered([x EXCEPT !.startup = Prepared(@, x.startup.gen), !.seen = TRUE], w \in Hosted))
     /\ Calm
\* ProcessFailed, or a navigation that fails.
Breaks(w) == Alive(win[w]) /\ win[w].page # "none" /\ Set(w, Failed(win[w])) /\ Calm

-----------------------------------------------------------------------------
(* What the runtime, the user and REAPER do with a window. *)

\* set_visible(): while the first frame is awaited only the wish is kept.
Visible(x, v) == [x EXCEPT !.startup = Requested(@, v), !.shown = IF x.startup.pending THEN @ ELSE v]
SetVisible(w) == Alive(win[w]) /\ \E v \in BOOLEAN : Set(w, Visible(win[w], v)) /\ Calm
\* show() and focus(): the first frame need not be there.
Show(w) ==
  LET x == win[w]
  IN /\ Alive(x) /\ ~x.startup.cancelled
     /\ Set(w, IF x.startup.pending THEN Uncovered([x EXCEPT !.startup = ShownNow(@), !.asked = TRUE], w \in Hosted)
               ELSE Visible(x, TRUE))
     /\ Calm
\* cancel_pending_show(): the session closes or has failed.
Cancel(w) == win[w].at = "open" /\ Set(w, [win[w] EXCEPT !.startup = Cancelled(@)]) /\ Calm
\* WM_NCDESTROY: the window goes with the one it is in.
Destroyed(w) == Alive(win[w]) /\ win[w].child /\ Set(w, [Failed(win[w]) EXCEPT !.shown = FALSE]) /\ Calm
\* The runtime erases the session.
Close(w) == win[w].at = "open" /\ Set(w, [NoWindow EXCEPT !.at = "gone"]) /\ waiting' = waiting \ {w}
            /\ UNCHANGED <<env, attempts, pool, target, made>>
\* prepare_dock(): a child cannot be uncloaked, the empty region takes the cloak's place.
PreparedToDock(x) ==
  IF x.startup.pending /\ ~x.region THEN [x EXCEPT !.region = TRUE, !.cloaked = FALSE] ELSE x
\* restore_floating()
Floating(x) ==
  [x EXCEPT !.child = FALSE, !.shown = IF x.startup.pending THEN @ \/ x.startup.wanted ELSE TRUE]
\* set_docked(): REAPER takes the window or refuses it; and back.
Dock(w) ==
  /\ Alive(win[w]) /\ w \notin Hosted
  /\ IF win[w].child THEN Set(w, Floating(win[w]))
     ELSE \E accepted \in BOOLEAN :
            Set(w, IF accepted THEN [PreparedToDock(win[w]) EXCEPT !.child = TRUE] ELSE Floating(PreparedToDock(win[w])))
  /\ Calm
\* The user changes between the tabs of the Docker.
ReaperShows(w) == Alive(win[w]) /\ win[w].child /\ w \notin Hosted /\ Set(w, [win[w] EXCEPT !.shown = ~@]) /\ Calm
\* reparent_host(): to another FX window, or to the parking window.
Reparent(w) ==
  LET x == Visible(win[w], FALSE)
  IN /\ Alive(win[w]) /\ w \in Hosted
     /\ \E parked \in BOOLEAN : Set(w, [x EXCEPT !.shown = ~parked /\ x.startup.pending /\ x.region])
     /\ Calm

Next ==
  \/ EnvironmentAnswers \/ Idle \/ Resize \/ ViewTurns
  \/ \E w \in Windows :
       \/ Open(w) \/ Created(w) \/ Tick(w) \/ ScriptAdded(w) \/ NavigationStarting(w) \/ PageAsks(w) \/ Captured(w)
       \/ Breaks(w) \/ SetVisible(w) \/ Show(w) \/ Cancel(w) \/ Destroyed(w) \/ Close(w) \/ Dock(w)
       \/ ReaperShows(w) \/ Reparent(w)
Spec == Init /\ [][Next]_vars

-----------------------------------------------------------------------------
TypeOK ==
  /\ env \in {"busy", "ready", "failed"} /\ attempts \in 1 .. MaxAttempts /\ waiting \subseteq Windows
  /\ Len(pool) <= target /\ made \in 0 .. MaxViews
  /\ \A w \in Windows : win[w].startup.gen \in 0 .. MaxNavigations /\ win[w].capture \subseteq 0 .. MaxNavigations
Exposed(x) == Alive(x) /\ x.shown /\ ~x.cloaked /\ ~x.region
\* No window is seen before the frame of its document has been captured, unless it was shown
\* explicitly, however it is docked, undocked and reloaded meanwhile (docs/frontend.md:29,
\* prepare_dock()); a page that has asked to be shown is being captured or has been; a window
\* that has been presented is not covered any more; and no window waits for an environment
\* that is there.
FramesFirst ==
  \A w \in Windows :
    LET x == win[w]
    IN /\ Exposed(x) => x.seen \/ x.asked
       /\ Alive(x) /\ x.page = "asked" /\ x.startup.pending => x.capture # {} \/ x.startup.ready
       /\ Alive(x) /\ ~x.startup.pending => ~x.cloaked /\ ~x.region
       /\ Alive(x) /\ x.page = "none" /\ ~x.startup.cancelled => env = "busy"
=============================================================================
