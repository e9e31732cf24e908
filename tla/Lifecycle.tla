--------------------------- MODULE Lifecycle ---------------------------
(***************************************************************************)
(* How one window closes and reloads (lifecycle.cpp, Runtime::close in     *)
(* window.cpp, the lifecycle part of tick() and host_call() in             *)
(* runtime.cpp, runCleanup in reaper.js).                                  *)
(*                                                                         *)
(* A page may register cleanup listeners.  A close or a reload then tells  *)
(* the page, gives it a token and waits until the page returns the token   *)
(* or 2 s have passed; only then does the runtime close the session or     *)
(* reload the WebView.  A reload comes back as a navigation that is let    *)
(* through because allow_reload is set.  Every other navigation asks again.*)
(***************************************************************************)
EXTENDS Naturals

CONSTANTS
  MaxCleanups,     \* bound on the cleanups begun (lifecycle_sequence_)
  MaxNavigations,  \* bound on the documents of the window
  MaxReloads,      \* bound on the reloads asked for by the user or the page
  MaxListens       \* bound on the changes of lifecycle_enabled by the page

ASSUME LifecycleAssumption ==
  /\ MaxCleanups \in Nat /\ MaxReloads \in Nat /\ MaxListens \in Nat
  /\ MaxNavigations \in Nat \ {0}

Tokens == 1 .. MaxCleanups
NoToken == 0
Documents == 1 .. MaxNavigations

VARIABLES
  ready,       \* the document has greeted
  enabled,     \* lifecycle_enabled: it has listeners
  action,      \* lifecycle_action: "none", "close" or "reload"
  token,       \* lifecycle_token
  sequence,    \* lifecycle_sequence_
  late,        \* lifecycle_deadline has passed
  allowReload, \* the next navigation is let through
  closing, failed,
  window,      \* "open", "gone" (Window::closed()) or "erased"
  presenting,  \* presentation_pending: not yet shown for the first time
  generation,  \* the document
  reloading,   \* navigations the WebView has yet to start
  told,        \* cleanupToken of the page
  returned,    \* tokens on their way back from the page, with its document
  reloads, listens,
  closeAsked,  \* history: a close was accepted
  settled,     \* history: a cleanup of this document was completed
  bare         \* history: a reload was decided while nobody listened

native == <<ready, enabled, action, token, sequence, late, allowReload>>
fate == <<closing, failed, window>>
pageVars == <<told, returned>>
bounds == <<reloads, listens>>
history == <<closeAsked, settled, bare>>
vars == <<native, fate, presenting, generation, reloading, pageVars, bounds, history>>

\* A window whose first document is loaded, shown already or not yet.
Init ==
  /\ ready = FALSE /\ enabled = FALSE /\ action = "none" /\ token = NoToken
  /\ sequence = 0 /\ late = FALSE /\ allowReload = FALSE
  /\ closing = FALSE /\ failed = FALSE /\ window = "open"
  /\ presenting \in BOOLEAN
  /\ generation = 1 /\ reloading = 0
  /\ told = NoToken /\ returned = {}
  /\ reloads = 0 /\ listens = 0
  /\ closeAsked = FALSE /\ settled = FALSE /\ bare = FALSE

----------------------------------------------------------------------------
(* Beginning a cleanup: Runtime::lifecycle *)

\* Whether lifecycle() takes the action over; if not, the caller acts at once.
TakesOver == ready /\ enabled /\ ~failed /\ window = "open"

\* A cleanup that runs already is left alone, whatever it is for.  A page runs
\* its callbacks once: runCleanup ignores a second event.
Begin(what) ==
  IF action # "none"
  THEN UNCHANGED <<action, token, sequence, late, told>>
  ELSE /\ sequence < MaxCleanups
       /\ action' = what
       /\ token' = sequence + 1
       /\ sequence' = sequence + 1
       /\ late' = FALSE
       /\ told' = IF told = NoToken THEN sequence + 1 ELSE told

NoBegin == UNCHANGED <<action, token, sequence, late, told>>

\* Runtime::close, from the user, a script or the page.  A window that was never
\* shown turns a reload under way into a close.
Close ==
  /\ window # "erased"
  /\ closeAsked' = TRUE
  /\ presenting' = FALSE
  /\ IF ~closing /\ TakesOver
     THEN /\ UNCHANGED closing
          /\ IF presenting /\ action = "reload"
             THEN action' = "close" /\ UNCHANGED <<token, sequence, late, told>>
             ELSE Begin("close")
     ELSE /\ closing' = TRUE
          /\ action' = IF presenting /\ action = "reload" THEN "close" ELSE action
          /\ UNCHANGED <<token, sequence, late, told>>
  /\ UNCHANGED <<ready, enabled, allowReload, failed, window, generation, reloading,
                 returned, bounds, settled, bare>>

\* reaper.window.reload(): ReaWeb_Reload.
AskReload ==
  /\ ready /\ ~closing /\ window = "open"
  /\ reloads < MaxReloads /\ reloads' = reloads + 1
  /\ IF TakesOver
     THEN Begin("reload") /\ UNCHANGED <<allowReload, reloading, bare>>
     ELSE /\ NoBegin
          /\ allowReload' = TRUE /\ bare' = TRUE
          /\ reloading' = reloading + 1
  /\ UNCHANGED <<ready, enabled, fate, presenting, generation, returned, listens,
                 closeAsked, settled>>

\* Mutant: a navigation that meets a cleanup under way goes through.
DefersIdle == ~allowReload /\ TakesOver /\ action = "none"

\* defer_reload: whether a navigation has to wait.
Defers == ~allowReload /\ TakesOver

\* The window menu asks before it reloads.
MenuReload ==
  /\ window = "open"
  /\ reloads < MaxReloads /\ reloads' = reloads + 1
  /\ allowReload' = FALSE
  /\ IF Defers THEN Begin("reload") /\ UNCHANGED reloading
               ELSE NoBegin /\ reloading' = reloading + 1
  /\ UNCHANGED <<ready, enabled, fate, presenting, generation, returned, listens, history>>

\* The page or the browser's own shortcut reloads: the WebView starts to navigate.
PageReload ==
  /\ window = "open"
  /\ reloads < MaxReloads /\ reloads' = reloads + 1
  /\ reloading' = reloading + 1
  /\ UNCHANGED <<native, fate, presenting, generation, pageVars, listens, history>>

----------------------------------------------------------------------------
(* Navigation *)

\* on_reload cancelled the navigation, which begins or joins a cleanup.
Deferred ==
  /\ Begin("reload")
  /\ UNCHANGED <<ready, enabled, allowReload, generation, settled, bare>>

\* Runtime::navigate: the session starts over for a new document.
Replaced ==
  /\ generation < MaxNavigations
  /\ generation' = generation + 1
  /\ ready' = FALSE /\ enabled' = FALSE /\ allowReload' = FALSE
  /\ action' = "none" /\ token' = NoToken /\ late' = FALSE
  /\ told' = NoToken
  /\ settled' = FALSE /\ bare' = FALSE
  /\ UNCHANGED sequence

StartNavigation ==
  /\ reloading > 0 /\ window = "open"
  /\ reloading' = reloading - 1
  /\ IF Defers THEN Deferred ELSE Replaced
  /\ UNCHANGED <<fate, presenting, returned, bounds, closeAsked>>

----------------------------------------------------------------------------
(* The page *)

\* The document greets (dispatch_requests).
Greet ==
  /\ ~ready /\ ~closing /\ window = "open"
  /\ ready' = TRUE
  /\ UNCHANGED <<enabled, action, token, sequence, late, allowReload, fate, presenting,
                 generation, reloading, pageVars, bounds, history>>

\* ReaWeb_LifecycleSubscribe: the first listener comes, or the last one goes.
Listen ==
  /\ ready /\ ~closing /\ window = "open"
  /\ listens < MaxListens /\ listens' = listens + 1
  /\ enabled' = ~enabled
  /\ UNCHANGED <<ready, action, token, sequence, late, allowReload, fate, presenting,
                 generation, reloading, pageVars, reloads, history>>

\* The callbacks of the page end, and it posts ReaWeb_LifecycleComplete.
ReturnToken ==
  /\ told # NoToken
  /\ ~ \E r \in returned : r.token = told
  /\ returned' = returned \union {[token |-> told, doc |-> generation, taken |-> FALSE]}
  /\ UNCHANGED <<native, fate, presenting, generation, reloading, told, bounds, history>>

----------------------------------------------------------------------------
(* Ending a cleanup: Runtime::complete_lifecycle *)

Completes ==
  /\ IF action = "close"
     THEN closing' = TRUE /\ presenting' = FALSE /\ UNCHANGED <<allowReload, reloading>>
     ELSE /\ allowReload' = TRUE /\ reloading' = reloading + 1
          /\ UNCHANGED <<closing, presenting>>
  /\ action' = "none" /\ token' = NoToken
  /\ settled' = TRUE

\* ReaWeb_LifecycleComplete, dispatched only for the document that greeted.
Accepts(r) == r.doc = generation /\ ready /\ ~closing /\ r.token = token

Complete(r) ==
  /\ r \in returned /\ ~r.taken
  /\ returned' = (returned \ {r}) \union {[r EXCEPT !.taken = TRUE]}
  /\ IF Accepts(r) THEN Completes
     ELSE UNCHANGED <<closing, presenting, allowReload, reloading, action, token, settled>>
  /\ UNCHANGED <<ready, enabled, sequence, late, failed, window, generation, told,
                 bounds, closeAsked, bare>>

\* 2 s pass, and the timer completes the cleanup without the page.
Deadline ==
  /\ action # "none" /\ ~late
  /\ late' = TRUE
  /\ UNCHANGED <<ready, enabled, action, token, sequence, allowReload, fate, presenting,
                 generation, reloading, pageVars, bounds, history>>

\* Mutant: the deadline only ends a cleanup for a reload.
CompleteLateReload ==
  /\ action = "reload" /\ late /\ window # "erased"
  /\ Completes
  /\ UNCHANGED <<ready, enabled, sequence, late, failed, window, generation, pageVars,
                 bounds, closeAsked, bare>>

CompleteLate ==
  /\ action # "none" /\ late /\ window # "erased"
  /\ Completes
  /\ UNCHANGED <<ready, enabled, sequence, late, failed, window, generation, pageVars,
                 bounds, closeAsked, bare>>

----------------------------------------------------------------------------
(* The end of the window *)

\* The window is shown for the first time.
Present ==
  /\ presenting /\ window = "open"
  /\ presenting' = FALSE
  /\ UNCHANGED <<native, fate, generation, reloading, pageVars, bounds, history>>

\* Runtime::fail.
Fail ==
  /\ ~failed /\ window # "erased"
  /\ failed' = TRUE /\ closing' = TRUE /\ presenting' = FALSE
  /\ UNCHANGED <<native, window, generation, reloading, pageVars, bounds, history>>

\* The native window is destroyed.
Vanish ==
  /\ window = "open"
  /\ window' = "gone"
  /\ UNCHANGED <<native, closing, failed, presenting, generation, reloading, pageVars,
                 bounds, history>>

\* tick() erases the session; Bridge.tla has what it waits for.
Erase ==
  /\ window # "erased" /\ (closing \/ window = "gone")
  /\ window' = "erased"
  /\ UNCHANGED <<native, closing, failed, presenting, generation, reloading, pageVars,
                 bounds, history>>

Next ==
  \/ Close \/ AskReload \/ MenuReload \/ PageReload \/ StartNavigation
  \/ Greet \/ Listen \/ ReturnToken
  \/ (\E r \in returned : Complete(r)) \/ Deadline \/ CompleteLate
  \/ Present \/ Fail \/ Vanish \/ Erase

Spec == Init /\ [][Next]_vars

\* The clock advances, the timer runs, and the WebView starts what it was asked to.
Fairness ==
  /\ WF_vars(Deadline) /\ WF_vars(CompleteLate)
  /\ WF_vars(StartNavigation) /\ WF_vars(Erase)

FairSpec == Spec /\ Fairness

----------------------------------------------------------------------------
(* Properties *)

\* The variables have their types, and a token belongs to a cleanup under way.
TypeOK ==
  /\ ready \in BOOLEAN /\ enabled \in BOOLEAN /\ late \in BOOLEAN
  /\ allowReload \in BOOLEAN /\ closing \in BOOLEAN /\ failed \in BOOLEAN
  /\ presenting \in BOOLEAN /\ closeAsked \in BOOLEAN
  /\ settled \in BOOLEAN /\ bare \in BOOLEAN
  /\ action \in {"none", "close", "reload"}
  /\ token \in Tokens \union {NoToken} /\ told \in Tokens \union {NoToken}
  /\ sequence \in 0 .. MaxCleanups
  /\ window \in {"open", "gone", "erased"}
  /\ generation \in Documents
  /\ reloading \in Nat /\ reloads \in 0 .. MaxReloads /\ listens \in 0 .. MaxListens
  /\ returned \subseteq [token : Tokens, doc : Documents, taken : BOOLEAN]
  /\ action = "none" <=> token = NoToken

\* A document that listens is only replaced, or closed, after a cleanup of it was
\* completed by the page or by the deadline.  The exceptions are a failure and a
\* reload the page asked for before it listened.
CleanupFirst ==
  [][(ready /\ enabled /\ ~failed' /\ ~bare /\ window = "open"
        /\ (generation' # generation \/ (closing' /\ ~closing)))
       => settled \/ settled']_vars

\* Only the page's own answer to the cleanup under way ends it before the deadline:
\* an answer to an earlier cleanup, delayed until the next one, does not.
EndsOwnCleanup ==
  [][(token # NoToken /\ token' = NoToken /\ ~late /\ generation' = generation)
       => told = token /\ \E r \in returned : r.token = token]_vars

\* A close that was asked for happens: "Close cannot be vetoed".
CloseHappens == closeAsked ~> (window = "erased")

\* A close that was asked for happens, whatever the cleanup of the page does, as
\* long as nobody asks for a reload.
ClosesUnlessReloaded ==
  (closeAsked /\ reloads = 0) ~> (window = "erased" \/ reloads > 0)
=============================================================================
