----------------------------- MODULE Presentation -----------------------------
(***************************************************************************)
(* What the Windows and the macOS back end share: when a window may be     *)
(* shown for the first time (StartupPresentation in shared/startup.hpp)    *)
(* and the pool of blank web views made in advance (IdlePool in            *)
(* shared/idle_pool.hpp).  Times are choices: a wait may be over or not.   *)
(***************************************************************************)
EXTENDS Naturals, Sequences, SequenceFilter

\* A window that nobody has shown.
NewStartup(hidden) ==
  [pending |-> TRUE, wanted |-> ~hidden, ready |-> FALSE, cancelled |-> FALSE, explicit |-> FALSE, gen |-> 0]
\* request(): after cancel() nothing changes the wish.
Requested(s, visible) == IF s.cancelled THEN s ELSE [s EXCEPT !.wanted = visible]
\* show(): the frame need not be ready.
ShownNow(s) == IF s.cancelled THEN s ELSE [s EXCEPT !.wanted = TRUE, !.explicit = TRUE]
Cancelled(s) == [s EXCEPT !.cancelled = TRUE, !.wanted = FALSE]
\* navigate(): only the page in an FX window is concealed again.
Navigated(s, hosted) ==
  LET t == [s EXCEPT !.gen = @ + 1, !.ready = FALSE]
  IN IF hosted THEN [t EXCEPT !.pending = TRUE, !.explicit = FALSE, !.wanted = FALSE] ELSE t
\* prepared(): a frame of an older document counts for nothing.
Prepared(s, generation) == IF generation = s.gen THEN [s EXCEPT !.ready = TRUE] ELSE s
\* present(): once, when somebody wants it and the frame is ready or was not asked about.
Presents(s) == s.pending /\ ~s.cancelled /\ s.wanted /\ (s.ready \/ s.explicit)
\* expired(), when 15 seconds are over.
Expires(s) == s.pending /\ s.wanted /\ ~s.cancelled /\ ~s.ready /\ ~s.explicit

-----------------------------------------------------------------------------
(* The pool: a sequence of views, each preparing, ready or failed. *)

\* capacity()
Resized(pool, target) == IF Len(pool) > target THEN SubSeq(pool, 1, target) ELSE pool
\* take(): the first one that is ready.
Takable(pool) == {i \in 1 .. Len(pool) : pool[i] = "ready"}
WithoutTaken(pool) ==
  LET first == CHOOSE i \in Takable(pool) : \A j \in Takable(pool) : i <= j
  IN SubSeq(pool, 1, first - 1) \o SubSeq(pool, first + 1, Len(pool))
\* maintain(): failed views go, and, when it is late, the one that is still preparing;
\* another one is made when all are ready and some are missing.
Kept(pool, late) == Among(pool, IF late THEN {"ready"} ELSE {"ready", "preparing"})
Refilled(pool, target) ==
  IF Len(pool) < target /\ \A i \in 1 .. Len(pool) : pool[i] = "ready" THEN Append(pool, "preparing") ELSE pool
\* A view changes by itself: its blank page arrives or fails, its process ends.
Turns(pool, next) ==
  \E i \in 1 .. Len(pool) : \E v \in {"ready", "failed"} :
    (v = "ready" => pool[i] = "preparing") /\ pool[i] # v /\ next = [pool EXCEPT ![i] = v]
=============================================================================
