------------------------------ MODULE WindowState ------------------------------
(***************************************************************************)
(* Where a window was: the bounds it had while it floated and whether it   *)
(* was docked, read at every tick, saved half a second after they changed  *)
(* and when the window goes, and given to the next window of the same page *)
(* and slot, from memory or from the file the worker writes.               *)
(***************************************************************************)
EXTENDS Integers, FiniteSets, Sequences

CONSTANTS
  Windows,     \* windows of one page, numbered in the order they open
  Floating,    \* windows that never dock: transparent ones and overlays
  MaxOpen,     \* windows that may be open at once: 32
  Places,      \* bounds a floating window may have
  QueueLimit,  \* saves that may wait for the worker
  MaxMoves,    \* bound: moves of a window by the user
  MaxCrashes   \* bound: times REAPER dies

VARIABLES
  open,        \* the windows that are open: Runtime::sessions_
  w,           \* what the session of each knows
  cache,       \* state_cache_: what was saved last for each slot
  files,       \* the state files
  queue,       \* saves that wait for the worker
  left,        \* the state in which the last window of each slot was left, if it could be saved
  moves,       \* moves so far
  crashes      \* crashes so far

vars == <<open, w, cache, files, queue, left, moves, crashes>>

None == [place |-> 0, docked |-> FALSE]   \* no state
Slots == 0 .. Cardinality(Windows) - 1
Closed == [slot |-> 0, saved |-> None, pending |-> None, place |-> 0, inDock |-> FALSE, pendingDock |-> FALSE,
           background |-> FALSE, preserve |-> FALSE, handle |-> FALSE, closing |-> FALSE, seen |-> None]
Init ==
  /\ open = {} /\ w = [i \in Windows |-> Closed]
  /\ cache = [n \in Slots |-> None] /\ files = [n \in Slots |-> None] /\ queue = <<>>
  /\ left = [n \in Slots |-> None] /\ moves = 0 /\ crashes = 0

-----------------------------------------------------------------------------

IsDocked(x) == x.pendingDock \/ x.inDock
Known(x) == IF x.pending # None THEN x.pending ELSE x.saved
Bounds(x) == IF IsDocked(x) /\ Known(x) # None THEN Known(x).place ELSE IF x.inDock THEN 0 ELSE x.place
\* What persist reads: a docked window keeps the bounds it floated at (a Docker's are 0 here) and a window that cannot
\* dock the preference it found.
State(x) ==
  [place |-> Bounds(x),
   docked |-> IF x.preserve THEN x.saved.docked ELSE IsDocked(x)]

\* The state the user left the window in.
Truth(x) == [place |-> x.place, docked |-> IF x.preserve THEN x.saved.docked ELSE IsDocked(x)]

\* persist: what is new waits half a second, what has waited, or is the last, is saved if the worker takes it.  The
\* results: the session, and the state to save.
Persisted(x, force) ==
  LET now == IF x.handle THEN State(x) ELSE x.pending
      y == [x EXCEPT !.pending = now, !.seen = IF x.handle THEN Truth(x) ELSE @]
      due == now # x.saved /\ (force \/ now = x.pending) /\ Len(queue) < QueueLimit IN
  IF ~x.handle /\ (~force \/ now = None) THEN {<<x, None>>}
  ELSE (IF due THEN {<<[y EXCEPT !.saved = now], now>>} ELSE {}) \cup (IF due /\ force THEN {} ELSE {<<y, None>>})
Submit(x, state) ==
  IF state = None THEN UNCHANGED <<cache, queue>>
  ELSE cache' = [cache EXCEPT ![x.slot] = state] /\ queue' = Append(queue, [slot |-> x.slot, state |-> state])

Live(i) == i \in open /\ ~w[i].closing /\ w[i].handle
Rest == UNCHANGED <<files, left, moves, crashes>>

\* Mutant: windows that are closing have given up their slot.
SlotOfLive == CHOOSE n \in Slots : /\ \A i \in open : w[i].closing \/ w[i].slot # n
                                   /\ \A m \in 0 .. n - 1 : \E i \in open : ~w[i].closing /\ w[i].slot = m
\* open_impl: the lowest slot no open window has, the state from memory or from the file.  A hidden window leaves its
\* Docker for later; a Docker may refuse.
FreeSlot == CHOOSE n \in Slots : /\ \A i \in open : w[i].slot # n
                                 /\ \A m \in 0 .. n - 1 : \E i \in open : w[i].slot = m
Open(i, hidden) ==
  /\ w[i].slot = 0 /\ i \notin open /\ Cardinality(open) < MaxOpen
  /\ LET n == FreeSlot
         found == IF cache[n] # None THEN cache[n] ELSE files[n]
         docks == i \notin Floating /\ found.docked IN
     \E accepted \in IF docks /\ ~hidden THEN BOOLEAN ELSE {FALSE} :
       w' = [w EXCEPT ![i] =
              [Closed EXCEPT !.slot = n, !.saved = found, !.place = IF found = None THEN 1 ELSE found.place,
                             !.background = hidden, !.preserve = i \in Floating, !.handle = TRUE,
                             !.pendingDock = docks /\ hidden, !.inDock = accepted,
                             !.pending = IF docks /\ ~hidden THEN [found EXCEPT !.docked = FALSE] ELSE None]]
  /\ open' = open \cup {i} /\ UNCHANGED <<cache, queue>> /\ Rest

\* The user moves a window that floats.
Move(i, p) ==
  /\ Live(i) /\ ~w[i].inDock /\ ~w[i].background /\ p # w[i].place /\ moves < MaxMoves
  /\ moves' = moves + 1 /\ w' = [w EXCEPT ![i].place = p]
  /\ UNCHANGED <<open, cache, files, queue, left, crashes>>

\* A tick reads the state of a window.
Tick(i) ==
  /\ Live(i)
  /\ \E r \in Persisted(w[i], FALSE) : w' = [w EXCEPT ![i] = r[1]] /\ Submit(w[i], r[2])
  /\ UNCHANGED open /\ Rest

\* set_docked: the bounds are read before the Docker takes the window, if it does.
Offered(x, in) == {<<[r[1] EXCEPT !.inDock = in, !.preserve = @ /\ ~in], r[2]>> : r \in Persisted(x, FALSE)}
Docked(x) == Offered(x, TRUE) \cup Offered(x, FALSE)
SetDocked(i, docked) ==
  /\ Live(i) /\ i \notin Floating /\ docked # IsDocked(w[i])
  /\ \E r \in IF w[i].background THEN {<<[w[i] EXCEPT !.pendingDock = docked], None>>}
              ELSE IF docked THEN Docked(w[i])
              ELSE {<<[w[i] EXCEPT !.inDock = FALSE, !.preserve = FALSE], None>>} :
       w' = [w EXCEPT ![i] = r[1]] /\ Submit(w[i], r[2])
  /\ UNCHANGED open /\ Rest

\* show and focus: attach_pending_dock; a Docker that refuses leaves the window as it was.
Show(i) ==
  /\ Live(i) /\ w[i].background
  /\ IF ~w[i].pendingDock THEN w' = [w EXCEPT ![i].background = FALSE] /\ UNCHANGED <<cache, queue>>
     ELSE \E r \in Docked([w[i] EXCEPT !.background = FALSE, !.pendingDock = FALSE]) :
            /\ w' = [w EXCEPT ![i] = IF r[1].inDock THEN r[1]
                                     ELSE [r[1] EXCEPT !.background = TRUE, !.pendingDock = TRUE]]
            /\ Submit(w[i], r[2])
  /\ UNCHANGED open /\ Rest

\* close, or the native window goes by itself.
Close(i) ==
  /\ i \in open /\ ~w[i].closing
  /\ \E handle \in {TRUE, FALSE} : w' = [w EXCEPT ![i].closing = TRUE, ![i].handle = handle]
  /\ UNCHANGED <<open, cache, queue>> /\ Rest

\* The tick takes the window away and saves its last state.
Erase(i) ==
  /\ i \in open /\ w[i].closing
  /\ \E r \in Persisted(w[i], TRUE) :
       /\ Submit(w[i], r[2])
       /\ left' = [left EXCEPT ![w[i].slot] = IF r[1].saved = r[1].pending THEN r[1].seen ELSE None]
  /\ open' = open \ {i} /\ w' = [w EXCEPT ![i] = Closed]
  /\ UNCHANGED <<files, moves, crashes>>

\* The worker writes a file.
Save ==
  /\ queue # <<>> /\ queue' = Tail(queue)
  /\ files' = [files EXCEPT ![Head(queue).slot] = Head(queue).state]
  /\ UNCHANGED <<open, w, cache, left, moves, crashes>>

\* REAPER starts again: after an exit, which saves every window and writes every file, or after it died.
Newest(n) == {k \in DOMAIN queue : queue[k].slot = n /\ \A m \in DOMAIN queue : m > k => queue[m].slot # n}
Written == [n \in Slots |-> IF Newest(n) = {} THEN files[n] ELSE queue[CHOOSE k \in Newest(n) : TRUE].state]
Restart ==
  /\ open = {} /\ crashes < MaxCrashes /\ crashes' = crashes + 1
  /\ files' = Written /\ queue' = <<>> /\ cache' = [n \in Slots |-> None]
  /\ UNCHANGED <<open, w, left, moves>>
Crash ==
  /\ crashes < MaxCrashes /\ crashes' = crashes + 1
  /\ open' = {} /\ w' = [i \in Windows |-> Closed] /\ queue' = <<>>
  /\ cache' = [n \in Slots |-> None] /\ left' = [n \in Slots |-> None]
  /\ UNCHANGED <<files, moves>>

Next ==
  \/ \E i \in Windows :
       \/ \E b \in BOOLEAN : Open(i, b) \/ SetDocked(i, b)
       \/ \E p \in Places : Move(i, p)
       \/ Tick(i) \/ Show(i) \/ Close(i) \/ Erase(i)
  \/ Save \/ Restart \/ Crash

Spec == Init /\ [][Next]_vars

-----------------------------------------------------------------------------

\* What is in memory, and what a window takes for saved, is what the file will hold; and once a window is gone its slot
\* will hold the state the user left it in, the bounds of a docked window being those it last floated at (Runtime::
\* persist, set_docked, open_impl).
PlacesRemembered ==
  /\ \A n \in Slots : cache[n] # None => cache[n] = Written[n]
  /\ \A i \in open : w[i].saved = Written[w[i].slot]
  /\ \A n \in Slots : left[n] # None /\ (\A i \in open : w[i].slot # n) => Written[n] = left[n]

\* The values the variables take: the records, counters and queues stay within the bounds of the code.
States == [place : Places \cup {0}, docked : BOOLEAN]
TypeOK ==
  /\ open \subseteq Windows /\ Cardinality(open) <= MaxOpen
  /\ w \in [Windows -> [slot : Slots, saved : States, pending : States, place : Places \cup {0}, inDock : BOOLEAN,
                        pendingDock : BOOLEAN, background : BOOLEAN, preserve : BOOLEAN, handle : BOOLEAN,
                        closing : BOOLEAN, seen : States]]
  /\ cache \in [Slots -> States] /\ files \in [Slots -> States] /\ left \in [Slots -> States]
  /\ queue \in Seq([slot : Slots, state : States]) /\ Len(queue) <= QueueLimit
  /\ moves \in 0 .. MaxMoves /\ crashes \in 0 .. MaxCrashes
=============================================================================
