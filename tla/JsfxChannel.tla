----------------------------- MODULE JsfxChannel -----------------------------
(***************************************************************************)
(* The slots through which effects and the runtime exchange commands       *)
(* (jsfx_channel.cpp, jsfx_native.cpp, runtime/jsfx/bridge.jsfx and        *)
(* runtime/jsfx/reaweb_jsfx.inc).                                          *)
(*                                                                         *)
(* Effects run on audio threads and share memory with a private helper     *)
(* effect that the runtime calls.  The node of an effect reserves a slot   *)
(* and publishes in it the epoch that the transport parameter of the       *)
(* effect shows; the effect that recognises its epoch takes the slot under *)
(* a fresh one and shows that; only then the node accepts the lease.       *)
(* Parameters can be copied from one effect to another, effects begin anew *)
(* at any time, with or without their memory, and whoever finds a slot in  *)
(* use comes back later.  Telemetry, resources and the bytes of commands   *)
(* are left out.                                                           *)
(***************************************************************************)
EXTENDS Naturals, Sequences, FiniteSets

CONSTANTS
  Effects,      \* effects, each with a node of the runtime
  Slots,        \* numbers of the slots (0 to 31)
  MaxEpoch,     \* bound on the epochs given out
  MaxTokens,    \* bound on the slots reserved
  MaxRequests,  \* bound on the commands
  MaxCopies     \* bound on the parameters copied

VARIABLES
  slots,     \* each slot: token (0: free), epoch, epoch asked for, command cell and its request
  given,     \* counters of the shared memory: epochs and tokens, and the copies made
  vm,        \* each effect: epoch, slot, token and epoch of its lease, scan, command it runs
  param,     \* the epoch the transport parameter of each effect shows, 0 for none
  lease,     \* lease of each node
  actions,   \* actions of each node, the first of them perhaps sent
  results,   \* completed, and taken
  failed,    \* error of each node
  retired,   \* leases still to be released
  started    \* history: commands the effects started, in order

vars == <<slots, given, vm, param, lease, actions, results, failed, retired, started>>

None == 0
Free == [token |-> 0, epoch |-> 0, ask |-> 0, cell |-> "empty", request |-> 0]
NoLease == [slot |-> None, token |-> 0, epoch |-> 0, response |-> 0]
NewVm == [epoch |-> 0, slot |-> None, token |-> 0, channel |-> 0, scanned |-> FALSE, runs |-> 0, replied |-> FALSE]

Init ==
  /\ slots = [s \in Slots |-> Free] /\ given = [epoch |-> 0, token |-> 0, request |-> 0, copies |-> 0]
  /\ vm = [e \in Effects |-> NewVm] /\ param = [e \in Effects |-> 0] /\ lease = [e \in Effects |-> NoLease]
  /\ actions = [e \in Effects |-> <<>>] /\ results = {} /\ failed = [e \in Effects |-> FALSE]
  /\ retired = {} /\ started = <<>>

Lowest(S) == CHOOSE s \in S : \A t \in S : s <= t
Node == <<lease, actions, results, failed, retired>>
NewEpoch == given.epoch + 1

-----------------------------------------------------------------------------
(* The effects. *)

\* reaweb_jsfx_init(): a new epoch; the lease stays if the memory of the effect does.
Begin(e) ==
  /\ NewEpoch <= MaxEpoch /\ given' = [given EXCEPT !.epoch = NewEpoch]
  /\ \E keeps \in {vm[e].epoch > 0, FALSE} :
       vm' = [vm EXCEPT ![e] = IF keeps THEN [@ EXCEPT !.epoch = NewEpoch, !.scanned = FALSE, !.runs = 0, !.replied = FALSE]
                               ELSE [NewVm EXCEPT !.epoch = NewEpoch]]
  /\ UNCHANGED <<slots, param, Node, started>>

\* acquire() finds the slot free or given to another one: the effect forgets it.
Forgotten(v) == [v EXCEPT !.slot = None, !.token = 0, !.scanned = FALSE]

\* reaweb_jsfx_renew(): the slot of the lease and the effect after it.
Owns(v) == v.slot # None /\ slots[v.slot].token = v.token /\ slots[v.slot].epoch = v.channel
Due(v) == v.slot # None /\ v.channel # v.epoch /\ slots[v.slot].token # 0
Renewed(v) ==
  IF ~Due(v) THEN [slots |-> slots, vm |-> v]
  ELSE IF ~Owns(v) THEN [slots |-> slots, vm |-> [v EXCEPT !.slot = None, !.token = 0]]
  ELSE [slots |-> [slots EXCEPT ![v.slot] = [@ EXCEPT !.epoch = v.epoch, !.cell = "empty", !.request = 0]],
        vm |-> [v EXCEPT !.channel = v.epoch]]

\* Mutant: any slot nobody has taken will do.
AskedAny(v, s) == slots[s].token # 0 /\ slots[s].epoch = 0 /\ slots[s].ask # 0

\* A slot whose node asks for this effect.
Asked(v, s) == slots[s].token # 0 /\ slots[s].epoch = 0 /\ slots[s].ask = v.epoch

\* reaweb_jsfx_handshake(): the lease is renewed, or the slots that are not in use right
\* now are searched; then the parameter shows the epoch.
Handshake(e) ==
  /\ vm[e].epoch > 0
  /\ \E seen \in SUBSET Slots :
       LET r == IF vm[e].token > 0 /\ vm[e].slot \in seen THEN Renewed(vm[e]) ELSE [slots |-> slots, vm |-> vm[e]]
           v == r.vm
           found == {s \in seen : Asked(v, s)}
           s == Lowest(found)
       IN IF v.token # 0 \/ v.scanned
          THEN /\ vm' = [vm EXCEPT ![e] = v] /\ slots' = r.slots /\ UNCHANGED given
               /\ param' = [param EXCEPT ![e] = v.epoch]
          ELSE IF found = {}
          THEN /\ vm' = [vm EXCEPT ![e] = [v EXCEPT !.scanned = seen = Slots]] /\ slots' = r.slots
               /\ param' = [param EXCEPT ![e] = v.epoch] /\ UNCHANGED given
          ELSE /\ NewEpoch <= MaxEpoch /\ given' = [given EXCEPT !.epoch = NewEpoch]
               /\ vm' = [vm EXCEPT ![e] = [v EXCEPT !.epoch = NewEpoch, !.slot = s, !.token = slots[s].token,
                           !.channel = NewEpoch, !.scanned = seen = Slots, !.replied = FALSE, !.runs = 0]]
               /\ slots' = [r.slots EXCEPT ![s].epoch = NewEpoch, ![s].ask = 0]
               /\ param' = [param EXCEPT ![e] = NewEpoch]
  /\ UNCHANGED <<Node, started>>

\* reaweb_jsfx_block() and reaweb_jsfx_poll(): the lease is renewed and checked, a reply is
\* published, or a command is started.
Block(e) ==
  /\ vm[e].slot # None
  /\ LET r == Renewed(vm[e])
         v == r.vm
         s == r.slots[v.slot]
     IN IF v.slot = None \/ s.token # v.token \/ s.epoch # v.epoch
        THEN vm' = [vm EXCEPT ![e] = Forgotten(v)] /\ slots' = r.slots /\ UNCHANGED started
        ELSE IF v.replied /\ s.cell = "running" /\ s.request = v.runs
        THEN /\ slots' = [r.slots EXCEPT ![v.slot].cell = "done"] /\ UNCHANGED started
             /\ vm' = [vm EXCEPT ![e] = [v EXCEPT !.replied = FALSE, !.runs = 0]]
        ELSE IF s.cell = "sent" /\ ~v.replied
        THEN /\ slots' = [r.slots EXCEPT ![v.slot].cell = "running"]
             /\ vm' = [vm EXCEPT ![e] = [v EXCEPT !.runs = s.request]]
             /\ started' = Append(started, <<e, s.request>>)
        ELSE vm' = [vm EXCEPT ![e] = v] /\ slots' = r.slots /\ UNCHANGED started
  /\ UNCHANGED <<given, param, Node>>

\* reaweb_jsfx_reply()
Reply(e) ==
  /\ vm[e].runs # 0 /\ ~vm[e].replied /\ vm' = [vm EXCEPT ![e].replied = TRUE]
  /\ UNCHANGED <<slots, given, param, Node, started>>

\* A copied or restored effect shows the epoch of another one, until its next handshake.
Copy(e) ==
  /\ given.copies < MaxCopies /\ given' = [given EXCEPT !.copies = @ + 1]
  /\ \E other \in Effects \ {e} : param' = [param EXCEPT ![e] = param[other]]
  /\ UNCHANGED <<slots, vm, Node, started>>

-----------------------------------------------------------------------------
(* The runtime. *)

Idle == <<vm, param, started>>  \* what the runtime leaves alone

\* release(): the slot of a lease is free, unless it is in use right now.
Released(l) == IF slots[l.slot].token = l.token THEN [slots EXCEPT ![l.slot] = Free] ELSE slots
\* reserve(): the first free slot.
Reserved(t) == LET s == Lowest({x \in Slots : t[x].token = 0})
               IN [slots |-> [t EXCEPT ![s] = [Free EXCEPT !.token = given.token + 1]],
                   lease |-> [NoLease EXCEPT !.slot = s, !.token = given.token + 1]]
NewToken == given.token < MaxTokens

\* What the node forgets with its lease.
Forget(e) ==
  /\ actions' = [actions EXCEPT ![e] = <<>>] /\ results' = {r \in results : r.node # e}
  /\ failed' = [failed EXCEPT ![e] = FALSE]

\* bind() of a lease whose slot is t[l.slot]: accepted, given back for another slot,
\* remembered, or the epoch of the parameter published.
Bind(e, l, t) ==
  LET s == t[l.slot] IN
  IF param[e] = 0 \/ s.token # l.token
  THEN lease' = [lease EXCEPT ![e] = l] /\ slots' = t /\ UNCHANGED <<given, vm>>
  ELSE IF s.epoch > 0
  THEN IF param[e] = s.epoch
       THEN lease' = [lease EXCEPT ![e] = [l EXCEPT !.epoch = s.epoch, !.response = 0]] /\ slots' = t /\ UNCHANGED <<given, vm>>
       ELSE IF l.response = s.epoch
       THEN LET r == Reserved([t EXCEPT ![l.slot] = Free])
            IN /\ NewToken /\ lease' = [lease EXCEPT ![e] = r.lease] /\ slots' = r.slots
               /\ given' = [given EXCEPT !.token = @ + 1] /\ UNCHANGED vm
       ELSE lease' = [lease EXCEPT ![e] = [l EXCEPT !.response = s.epoch]] /\ slots' = t /\ UNCHANGED <<given, vm>>
  ELSE /\ lease' = [lease EXCEPT ![e] = l] /\ slots' = [t EXCEPT ![l.slot].ask = param[e]]
       /\ vm' = IF s.ask = param[e] THEN vm ELSE [x \in Effects |-> [vm[x] EXCEPT !.scanned = FALSE]]
       /\ UNCHANGED given

\* renew(): 1 renewed, 0 wait, -1 a new lease is needed.  A parameter that shows another
\* epoch for 100 ms is not a parameter in transit.
Renewal(e, answer) ==
  LET l == lease[e]
      s == slots[l.slot]
  IN IF s.token # l.token THEN answer = "new"
     ELSE IF s.epoch = l.epoch THEN answer \in {"wait", "new"}
     ELSE IF s.epoch # param[e] THEN answer = "new"
     ELSE answer = "renewed"

\* refresh(): the lease is valid, or renewed, or given up for a new one.
Refresh(e) ==
  /\ \/ /\ lease[e].epoch = 0 /\ lease[e].slot # None
        /\ Bind(e, lease[e], slots)
        /\ UNCHANGED <<retired, actions, results, failed>>
     \/ /\ lease[e].epoch = 0 /\ lease[e].slot = None /\ NewToken
        /\ \E s \in Slots : slots[s].token = 0
        /\ LET r == Reserved(slots)
           IN /\ lease' = [lease EXCEPT ![e] = r.lease] /\ slots' = r.slots
              /\ given' = [given EXCEPT !.token = @ + 1]
        /\ UNCHANGED <<retired, actions, results, failed, vm>>
     \/ /\ lease[e].epoch # 0 /\ param[e] # lease[e].epoch /\ Renewal(e, "renewed")
        /\ lease' = [lease EXCEPT ![e].epoch = param[e], ![e].response = 0] /\ Forget(e)
        /\ UNCHANGED <<slots, given, retired, vm>>
     \/ /\ lease[e].epoch # 0 /\ param[e] # lease[e].epoch /\ Renewal(e, "new")
        /\ retired' = retired \union {[slot |-> lease[e].slot, token |-> lease[e].token]}
        /\ lease' = [lease EXCEPT ![e] = NoLease] /\ Forget(e)
        /\ UNCHANGED <<slots, given, vm>>
  /\ UNCHANGED <<param, started>>

\* The node goes, with its effect or the window, and comes back without a lease.
Destroy(e) ==
  /\ lease[e].slot # None
  /\ retired' = retired \union {[slot |-> lease[e].slot, token |-> lease[e].token]}
  /\ lease' = [lease EXCEPT ![e] = NoLease] /\ Forget(e)
  /\ UNCHANGED <<slots, given, Idle>>

\* collect(): the worker releases what nobody uses any more.
Collect ==
  /\ \E l \in retired : retired' = retired \ {l} /\ slots' = Released(l)
  /\ UNCHANGED <<given, Idle, lease, actions, results, failed>>

Enqueue(e) ==
  /\ lease[e].epoch # 0 /\ ~failed[e] /\ given.request < MaxRequests
  /\ given' = [given EXCEPT !.request = @ + 1]
  /\ actions' = [actions EXCEPT ![e] = Append(@, [request |-> given'.request, sent |-> FALSE])]
  /\ UNCHANGED <<slots, Idle, lease, results, failed, retired>>

Mine(e) == slots[lease[e].slot].token = lease[e].token /\ slots[lease[e].slot].epoch = lease[e].epoch

\* step(): the worker sends the first command, or takes its reply; a slot that is not the
\* lease's any more is an error until the node is refreshed.
Step(e) ==
  /\ lease[e].epoch # 0 /\ ~failed[e] /\ actions[e] # <<>>
  /\ LET first == Head(actions[e])
         s == slots[lease[e].slot]
         at == lease[e].slot
     IN IF ~Mine(e)
        THEN failed' = [failed EXCEPT ![e] = TRUE] /\ UNCHANGED <<slots, actions, results>>
        ELSE /\ UNCHANGED failed
             /\ IF ~first.sent
                THEN /\ s.cell = "empty" /\ UNCHANGED results
                     /\ slots' = [slots EXCEPT ![at].cell = "sent", ![at].request = first.request]
                     /\ actions' = [actions EXCEPT ![e][1].sent = TRUE]
                ELSE /\ s.cell = "done" /\ slots' = [slots EXCEPT ![at].cell = "empty"]
                     /\ IF s.request = first.request
                        THEN /\ results' = results \union {[node |-> e, request |-> s.request]}
                             /\ actions' = [actions EXCEPT ![e] = Tail(@)]
                        ELSE UNCHANGED <<actions, results>>
  /\ UNCHANGED <<given, Idle, lease, retired>>

\* cancel(): a command that has not started is taken back.
Cancel(e) ==
  /\ \E i \in DOMAIN actions[e] :
       LET action == actions[e][i]
           rest == SubSeq(actions[e], 1, i - 1) \o SubSeq(actions[e], i + 1, Len(actions[e]))
       IN /\ actions' = [actions EXCEPT ![e] = rest]
          /\ IF ~action.sent THEN UNCHANGED slots
             ELSE /\ Mine(e) /\ slots[lease[e].slot].cell = "sent" /\ slots[lease[e].slot].request = action.request
                  /\ slots' = [slots EXCEPT ![lease[e].slot].cell = "empty"]
  /\ UNCHANGED <<given, Idle, lease, results, failed, retired>>

Next ==
  \/ \E e \in Effects :
       \/ Begin(e) \/ Handshake(e) \/ Block(e) \/ Reply(e) \/ Copy(e)
       \/ Refresh(e) \/ Destroy(e) \/ Enqueue(e) \/ Step(e) \/ Cancel(e)
  \/ Collect

Spec == Init /\ [][Next]_vars

-----------------------------------------------------------------------------
(* Properties. *)

\* No two effects hold one slot; a lease that its slot still confirms is held by the effect
\* of its node; every command runs at most once and on the effect it was meant for, and a
\* result is for a command that ran: whatever effects begin anew, copied parameters show
\* and nodes give up between publication, answer and acceptance.
LeasesApart ==
  /\ \A e, f \in Effects : e # f /\ Owns(vm[e]) /\ Owns(vm[f]) => vm[e].slot # vm[f].slot
  /\ \A e, f \in Effects : lease[e].epoch # 0 /\ Mine(e) /\ Owns(vm[f]) /\ vm[f].slot = lease[e].slot => e = f
  /\ \A i, j \in DOMAIN started : started[i][2] = started[j][2] => i = j
  /\ \A r \in results : <<r.node, r.request>> \in {started[i] : i \in DOMAIN started}

\* The values the variables take: the records, counters and queues stay within the bounds of the code.
Epochs == 0 .. given.epoch
TypeOK ==
  /\ given \in [epoch : 0 .. MaxEpoch, token : 0 .. MaxTokens, request : 0 .. MaxRequests, copies : 0 .. MaxCopies]
  /\ slots \in [Slots -> [token : 0 .. given.token, epoch : Epochs, ask : Epochs,
                          cell : {"empty", "sent", "running", "done"}, request : 0 .. given.request]]
  /\ vm \in [Effects -> [epoch : Epochs, slot : Slots \union {None}, token : 0 .. given.token, channel : Epochs,
                         scanned : BOOLEAN, runs : 0 .. given.request, replied : BOOLEAN]]
  /\ param \in [Effects -> Epochs] /\ failed \in [Effects -> BOOLEAN]
  /\ lease \in [Effects -> [slot : Slots \union {None}, token : 0 .. given.token, epoch : Epochs, response : Epochs]]
  /\ actions \in [Effects -> Seq([request : 1 .. given.request, sent : BOOLEAN])]
  /\ results \subseteq [node : Effects, request : 1 .. given.request]
  /\ retired \subseteq [slot : Slots, token : 1 .. given.token]
  /\ started \in Seq(Effects \X (1 .. given.request))
=============================================================================
