------------------------------- MODULE Realtime -------------------------------
(***************************************************************************)
(* Realtime subscriptions (RealtimeManager in realtime.cpp, the scheduler  *)
(* in realtime_scheduler.cpp).                                             *)
(*                                                                         *)
(* One thread samples for all subscriptions, at the rate of the fastest.   *)
(* The main thread manages them under a mutex; a change of the rate stops  *)
(* the thread and joins it while the mutex is held, so the thread may only *)
(* try to lock it.  Starting a thread may fail.  A sample goes to every    *)
(* subscription that is due and still has its stream.                      *)
(***************************************************************************)
EXTENDS Naturals, FiniteSets

CONSTANTS
  Windows,     \* windows that subscribe
  Rates,       \* rates a window may ask for
  MaxSerial,   \* bound on serial, the number of subscriptions made
  MaxActive,   \* active subscriptions (32)
  MaxFailures  \* bound on the threads that cannot be started

VARIABLES
  subs,      \* subscriptions: number, window, rate
  serial,    \* serial
  rate,      \* rate of the thread, 0 for none
  thread,    \* the thread: "none", "check", "try", "sample", "wait", "exited"
  stop,      \* stopped_, or the event that stands for it
  mutex,     \* who holds the manager's mutex
  call,      \* the call of the main thread and where it is
  streams,   \* streams that are open
  attached,  \* subscriptions that had a consumer
  used,      \* streams with a consumer
  failures,  \* threads that could not be started
  shut,      \* stopped: the manager is shut down
  stray      \* history: a sample was published to a stream that was closed

vars == <<subs, serial, rate, thread, stop, mutex, call, streams, attached, used, failures, shut, stray>>

Idle == [at |-> "idle", next |-> 0, retry |-> FALSE, sub |-> 0]

Init ==
  /\ subs = {} /\ serial = 0 /\ rate = 0 /\ thread = "none" /\ stop = TRUE /\ mutex = "none"
  /\ call = Idle /\ streams = {} /\ attached = {} /\ used = {} /\ failures = 0 /\ shut = FALSE /\ stray = FALSE

Fastest(s) == IF s = {} THEN 0 ELSE CHOOSE r \in {x.rate : x \in s} : \A x \in s : x.rate <= r
Locked == mutex' = "main"

\* The call goes on in reschedule(), which does nothing when the rate stays.
Reschedule(s, retry, id) ==
  IF Fastest(s) = rate
  THEN call' = [Idle EXCEPT !.at = "unlock"] /\ UNCHANGED stop
  ELSE /\ call' = [at |-> "join", next |-> Fastest(s), retry |-> retry, sub |-> id]
       /\ stop' = TRUE

-----------------------------------------------------------------------------
(* The main thread. *)

\* subscribe(): a stream is created, then the rate is adapted.
Subscribe(w) ==
  /\ call = Idle /\ mutex = "none" /\ ~shut /\ Cardinality(subs) < MaxActive /\ serial < MaxSerial
  /\ serial' = serial + 1 /\ streams' = streams \union {serial'}
  /\ \E r \in Rates :
       LET s == subs \union {[id |-> serial', window |-> w, rate |-> r]}
       IN subs' = s /\ Reschedule(s, TRUE, serial')
  /\ Locked
  /\ UNCHANGED <<rate, thread, attached, used, failures, shut, stray>>

\* unsubscribe(), which close_window() and housekeeping() call once for each subscription.
Ends(sub) ==
  /\ streams' = streams \ {sub.id} /\ used' = used \ {sub.id} /\ attached' = attached \ {sub.id}
  /\ subs' = subs \ {sub} /\ Reschedule(subs \ {sub}, FALSE, 0)

Unsubscribe ==
  /\ call = Idle /\ mutex = "none"
  /\ \E sub \in subs : Ends(sub)
  /\ Locked
  /\ UNCHANGED <<serial, rate, thread, failures, shut, stray>>

\* housekeeping(): who had a consumer and has none any more, or never had one, expires.
Housekeeping ==
  /\ call = Idle /\ mutex = "none"
  /\ \/ /\ attached' = attached \union {s.id : s \in {x \in subs : x.id \in used}} /\ attached' # attached
        /\ UNCHANGED <<subs, stop, mutex, call, streams, used>>
     \/ \E sub \in subs : sub.id \notin used /\ Ends(sub) /\ Locked
  /\ UNCHANGED <<serial, rate, thread, failures, shut, stray>>

\* stop() joins the thread; then another one is started, or not.
Join ==
  /\ call.at = "join" /\ thread \in {"none", "exited"}
  /\ thread' = "none" /\ rate' = 0
  /\ call' = IF shut \/ call.next = 0 THEN [Idle EXCEPT !.at = "unlock"] ELSE [call EXCEPT !.at = "start"]
  /\ UNCHANGED <<subs, serial, stop, mutex, streams, attached, used, failures, shut, stray>>

Start ==
  /\ call.at = "start"
  /\ thread' = "check" /\ stop' = FALSE /\ rate' = call.next
  /\ call' = [Idle EXCEPT !.at = "unlock"]
  /\ UNCHANGED <<subs, serial, mutex, streams, attached, used, failures, shut, stray>>

\* No thread: a new subscription is taken back and the rate adapted once more.
StartFails ==
  /\ call.at = "start" /\ failures < MaxFailures /\ failures' = failures + 1
  /\ IF call.retry
     THEN LET s == {x \in subs : x.id # call.sub}
          IN /\ subs' = s /\ streams' = streams \ {call.sub} /\ used' = used \ {call.sub}
             /\ Reschedule(s, FALSE, 0)
     ELSE call' = [Idle EXCEPT !.at = "unlock"] /\ UNCHANGED <<subs, streams, used, stop>>
  /\ UNCHANGED <<serial, rate, thread, mutex, attached, shut, stray>>

\* The guard of the mutex ends with the call.
Return ==
  /\ call.at = "unlock" /\ call' = Idle /\ mutex' = "none"
  /\ UNCHANGED <<subs, serial, rate, thread, stop, streams, attached, used, failures, shut, stray>>

\* shutdown(): no sampling from here on; the thread is joined, the streams are closed.
Shutdown ==
  /\ call = Idle /\ mutex = "none" /\ ~shut
  /\ shut' = TRUE /\ stop' = TRUE /\ Locked
  /\ subs' = {} /\ streams' = {} /\ used' = {} /\ attached' = {}
  /\ call' = [Idle EXCEPT !.at = "join"]
  /\ UNCHANGED <<serial, rate, thread, failures, stray>>

\* A page opens or closes its stream.
Consume ==
  /\ \E id \in streams : used' = (used \union {id}) \ (used \intersect {id})
  /\ UNCHANGED <<subs, serial, rate, thread, stop, mutex, call, streams, attached, failures, shut, stray>>

-----------------------------------------------------------------------------
(* The sampling thread. *)

Main == <<subs, serial, rate, stop, call, streams, attached, used, failures, shut>>

\* It looks whether it has to stop before each sample.
Check ==
  /\ thread = "check" /\ thread' = IF stop THEN "exited" ELSE "try"
  /\ UNCHANGED <<Main, mutex, stray>>

\* The mutex is taken, or this sample is skipped.
TryLock ==
  /\ thread = "try"
  /\ IF mutex = "none"
     THEN mutex' = "thread" /\ thread' = "sample"
     ELSE UNCHANGED mutex /\ thread' = "wait"
  /\ UNCHANGED <<Main, stray>>

\* Every subscription that is due gets the sample, under the mutex.
Sample ==
  /\ thread = "sample" /\ mutex' = "none" /\ thread' = "wait"
  /\ stray' = (stray \/ \E s \in subs : s.id \notin streams)
  /\ UNCHANGED Main

\* The next period begins, or the thread is told to stop.
Wait ==
  /\ thread = "wait" /\ thread' = IF stop THEN "exited" ELSE "check"
  /\ UNCHANGED <<Main, mutex, stray>>

Next ==
  \/ \E w \in Windows : Subscribe(w)
  \/ Unsubscribe \/ Housekeeping \/ Join \/ Start \/ StartFails \/ Return \/ Shutdown \/ Consume
  \/ Check \/ TryLock \/ Sample \/ Wait

Spec == Init /\ [][Next]_vars

-----------------------------------------------------------------------------
(* Properties. *)

\* Between two calls exactly one thread runs, at the rate of the fastest subscription,
\* unless none could be started; and every stream belongs to a subscription, also while a
\* sample is published.  While a call waits for the thread to end, with the mutex that the
\* thread tries to take, the thread has been told to and holds nothing itself.
OneSampler ==
  /\ call = Idle /\ rate # 0 => thread \notin {"none", "exited"} /\ rate = Fastest(subs)
  /\ call = Idle /\ rate = 0 => thread = "none" /\ (subs # {} => failures > 0)
  /\ call = Idle => streams = {s.id : s \in subs}
  /\ call.at = "join" => stop /\ mutex = "main" /\ thread # "sample"
  /\ ~stray

\* The values the variables take: the records, counters and queues stay within the bounds of the code.
TypeOK ==
  /\ serial \in 0 .. MaxSerial /\ rate \in Rates \union {0} /\ failures \in 0 .. MaxFailures
  /\ subs \subseteq [id : 1 .. serial, window : Windows, rate : Rates] /\ Cardinality(subs) <= MaxActive
  /\ thread \in {"none", "check", "try", "sample", "wait", "exited"} /\ mutex \in {"none", "main", "thread"}
  /\ call \in [at : {"idle", "join", "start", "unlock"}, next : Rates \union {0}, retry : BOOLEAN, sub : 0 .. serial]
  /\ streams \subseteq 1 .. serial /\ attached \subseteq streams /\ used \subseteq streams
  /\ stop \in BOOLEAN /\ shut \in BOOLEAN /\ stray \in BOOLEAN
=============================================================================
