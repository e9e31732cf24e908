---------------------------- MODULE ExternalClients ----------------------------
(***************************************************************************)
(* External clients: the control channel of programs outside REAPER        *)
(* (runtime/external_transport.cpp, runtime/external_client.cpp).  The     *)
(* socket thread accepts connections, queues their requests and writes     *)
(* their responses; the main thread makes a session of each connection,    *)
(* takes its requests in turn with the windows', and ends what is left of  *)
(* it.  A channel's queues are under its mutex, its three flags are        *)
(* atomic; every step below is one critical section or one main thread     *)
(* pass.  Streams and services are only named here: what an ended session  *)
(* leaves behind is cancelled in modules HostService and StreamTransport.  *)
(***************************************************************************)
EXTENDS Naturals, Sequences, FiniteSets

CONSTANTS
  Connections, \* connections ever made
  Ids,         \* request numbers a client uses
  Kinds,       \* what clients ask: auth, guess (a wrong token), api, input, invoke, subscribe
  MaxSockets,  \* 16 in the code
  MaxPending,  \* 128 requests without a written response
  MaxOutput,   \* 256 responses and events waiting for the socket
  MaxRequests, \* bound: requests of one connection
  MaxSecret,   \* bound: settings used
  MaxProject   \* bound: project switches in REAPER

VARIABLES
  channel,  \* connection -> the state both threads share
  sockets,  \* connections the socket thread serves
  listed,   \* channels the main thread can see
  sessions, \* connection -> the main thread's session of it
  settings, \* number of the access token in use, 0 when the server is off
  project,  \* the project current in REAPER
  known,    \* the project the runtime observed last; its number stands for the epoch
  cursor,   \* connection served last
  turn,     \* the next request comes from an external client
  ran       \* the API call executed last: what it was accepted under, and what it met

vars == <<channel, sockets, listed, sessions, settings, project, known, cursor, turn, ran>>

Request == [id : Ids, kind : Kinds, epoch : 0..MaxProject, auth : BOOLEAN, secret : 0..MaxSecret]
Item == {<<"event">>} \cup {<<"response", i>> : i \in Ids}
Channel == [alive : BOOLEAN, closing : BOOLEAN, auth : BOOLEAN, epoch : 0..MaxProject,
            requests : Seq(Request), pending : SUBSET Ids, output : Seq(Item), received : 0..MaxRequests,
            secret : 0..MaxSecret]
Session == [subscribed : BOOLEAN, due : BOOLEAN, calls : SUBSET Ids]
NewChannel == [alive |-> TRUE, closing |-> FALSE, auth |-> FALSE, epoch |-> 0, requests |-> <<>>,
               pending |-> {}, output |-> <<>>, received |-> 0, secret |-> 0]
NewSession == [subscribed |-> FALSE, due |-> FALSE, calls |-> {}]

\* Types: nothing else is claimed here.
TypeOK ==
  /\ DOMAIN channel \subseteq Connections /\ \A c \in DOMAIN channel : channel[c] \in Channel
  /\ sockets \subseteq DOMAIN channel /\ listed \subseteq DOMAIN channel
  /\ DOMAIN sessions \subseteq DOMAIN channel /\ \A c \in DOMAIN sessions : sessions[c] \in Session
  /\ settings \in 0..MaxSecret /\ known \in 1..MaxProject /\ project \in 1..MaxProject /\ turn \in BOOLEAN

Init ==
  /\ channel = <<>> /\ sockets = {} /\ listed = {} /\ sessions = <<>>
  /\ settings = 1 /\ project = 1 /\ known = 1 /\ cursor = 0 /\ turn = FALSE
  /\ ran = [epoch |-> 1, project |-> 1, secret |-> 1, settings |-> 1]

ThreadOnly == UNCHANGED <<sessions, settings, project, known, cursor, turn, ran>>
SetChannel(c, k) == channel' = [channel EXCEPT ![c] = k]

-----------------------------------------------------------------------------
(* The socket thread.                                                      *)

\* accept(): beyond the limit the connection is closed at once, and nothing is left of it.
Accept(c) ==
  /\ settings # 0 /\ c \notin DOMAIN channel /\ Cardinality(sockets) < MaxSockets
  /\ channel' = [d \in DOMAIN channel \cup {c} |-> IF d = c THEN NewChannel ELSE channel[d]]
  /\ sockets' = sockets \cup {c} /\ listed' = listed \cup {c}
  /\ ThreadOnly
Open(c) == c \in sockets /\ channel[c].alive
\* Mutant: a client may use a number again at once.
AdmissibleAlways(k, id) == Cardinality(k.pending) < MaxPending
\* A number is taken while its request is queued, executes, or has an unwritten response.
Admissible(k, id) == Cardinality(k.pending) < MaxPending /\ id \notin k.pending
\* A request arrives: it is queued with the epoch and the authentication of this moment, or ends the connection.
Receive(c, id, kind) ==
  /\ Open(c) /\ ~channel[c].closing /\ channel[c].received < MaxRequests
  /\ LET k == channel[c]
         r == [id |-> id, kind |-> kind, epoch |-> k.epoch, auth |-> k.auth, secret |-> k.secret] IN
     IF Admissible(k, id)
     THEN /\ SetChannel(c, [k EXCEPT !.requests = Append(@, r), !.pending = @ \cup {id}, !.received = @ + 1])
          /\ UNCHANGED sockets
     ELSE SetChannel(c, [k EXCEPT !.alive = FALSE]) /\ sockets' = sockets \ {c}
  /\ ThreadOnly /\ UNCHANGED listed
\* The next response or event leaves the queue and is written; a response frees its number.
Output(c) ==
  /\ Open(c) /\ channel[c].output # <<>>
  /\ LET k == channel[c] IN
     SetChannel(c, [k EXCEPT !.output = Tail(@),
                             !.pending = IF Len(Head(k.output)) = 2 THEN @ \ {Head(k.output)[2]} ELSE @])
  /\ ThreadOnly /\ UNCHANGED <<sockets, listed>>
\* The socket is closed: the main thread gave the channel up, a closing one is written out, five
\* seconds passed unauthenticated, or the client left, stalled or broke the protocol.
Drop(c) ==
  /\ c \in sockets
  /\ SetChannel(c, [channel[c] EXCEPT !.alive = FALSE]) /\ sockets' = sockets \ {c}
  /\ ThreadOnly /\ UNCHANGED listed
MustDrop(c) ==
  /\ c \in sockets
  /\ \/ ~channel[c].alive
     \/ channel[c].closing /\ channel[c].output = <<>>
     \/ ~channel[c].auth
  /\ Drop(c)
Prune ==
  /\ listed' = {c \in listed : channel[c].alive} /\ listed' # listed
  /\ ThreadOnly /\ UNCHANGED <<channel, sockets>>

-----------------------------------------------------------------------------
(* The main thread.                                                        *)

\* send(): nothing reaches a dead or closing channel; a full queue gives the channel up.
Sent(k, item, finish) ==
  IF ~k.alive \/ k.closing THEN k
  ELSE IF Len(k.output) >= MaxOutput THEN [k EXCEPT !.alive = FALSE]
  ELSE [k EXCEPT !.output = Append(@, item), !.closing = finish]
MainOnly == UNCHANGED <<sockets, listed>>

\* sync_external(): sessions of dead or closing channels end, listed channels get one.
Living(c) == channel[c].alive /\ ~channel[c].closing
Sync ==
  /\ LET kept == {c \in DOMAIN sessions : Living(c)}
         fresh == IF settings = 0 THEN {} ELSE {c \in listed \ kept : Living(c)} IN
     /\ sessions' = [c \in kept \cup fresh |-> IF c \in kept THEN sessions[c] ELSE NewSession]
     /\ channel' = [c \in DOMAIN channel |-> IF c \in fresh THEN [channel[c] EXCEPT !.epoch = known] ELSE channel[c]]
  /\ <<channel, sessions>>' # <<channel, sessions>>
  /\ MainOnly /\ UNCHANGED <<settings, project, known, cursor, turn, ran>>

\* The runtime notices that REAPER shows another project: every session's epoch moves on.
Stamped(k) == [c \in DOMAIN k |-> IF c \in DOMAIN sessions THEN [k[c] EXCEPT !.epoch = project] ELSE k[c]]
Observe ==
  /\ known # project /\ known' = project /\ channel' = Stamped(channel)
  /\ MainOnly /\ UNCHANGED <<sessions, settings, project, cursor, turn, ran>>

\* take(): an authenticated input comes before what was queued earlier.
IsInput(r) == r.auth /\ r.kind = "input"
Taken(k) ==
  LET inputs == {i \in DOMAIN k.requests : IsInput(k.requests[i])} IN
  IF inputs = {} THEN 1 ELSE CHOOSE i \in inputs : \A j \in inputs : i <= j
\* Mutant: the search for the next session does not begin again at the first one.
ReadyBeyond(c) == c \in DOMAIN sessions /\ Living(c) /\ channel[c].requests # <<>> /\ c > cursor
\* A session that has something to take.
Ready(c) == c \in DOMAIN sessions /\ Living(c) /\ channel[c].requests # <<>>
\* The sessions in the order of their numbers, beginning behind the one served last.
After(c) == IF c > cursor THEN c - cursor ELSE c + Cardinality(Connections) - cursor
NextSession == CHOOSE c \in {d \in DOMAIN sessions : Ready(d)} :
                 \A d \in {d \in DOMAIN sessions : Ready(d)} : After(c) <= After(d)

\* Mutant: the epoch is compared with the last one observed, without looking at REAPER first.
CurrentAsKnown(r) == r.epoch = known
\* What the checks of dispatch_external say of an API call.
Current(r) == r.epoch = project
Authentic(r) == r.auth

\* One request: it is answered, or its service will answer, or the channel closes with the answer.
Perform(c) ==
  LET k == channel[c]
      n == Taken(k)
      r == k.requests[n]
      rest == [k EXCEPT !.requests = SubSeq(@, 1, n - 1) \o SubSeq(@, n + 1, Len(@))]
      answer == <<"response", r.id>>
      set(next) == SetChannel(c, next) /\ UNCHANGED known IN
  \/ /\ r.kind = "auth" /\ UNCHANGED <<sessions, ran>>
     /\ set(Sent([rest EXCEPT !.auth = TRUE, !.secret = settings], answer, FALSE))
  \/ r.kind = "guess" /\ set(Sent(rest, answer, TRUE)) /\ UNCHANGED <<sessions, ran>>
  \/ /\ r.kind \notin {"auth", "guess"} /\ ~Authentic(r)
     /\ set(Sent(rest, answer, FALSE)) /\ UNCHANGED <<sessions, ran>>
  \/ /\ r.kind = "api" /\ Authentic(r)
     /\ known' = project
     /\ channel' = Stamped([channel EXCEPT ![c] = Sent(rest, answer, FALSE)])
     /\ ran' = IF Current(r) THEN [epoch |-> r.epoch, project |-> project, secret |-> r.secret, settings |-> settings] ELSE ran
     /\ UNCHANGED sessions
  \/ /\ r.kind = "invoke" /\ Authentic(r)
     /\ set(rest) /\ sessions' = [sessions EXCEPT ![c].calls = @ \cup {r.id}] /\ UNCHANGED ran
  \/ /\ r.kind \in {"input", "subscribe"} /\ Authentic(r)
     /\ set(Sent(rest, answer, FALSE)) /\ UNCHANGED ran
     /\ sessions' = [sessions EXCEPT ![c].subscribed = @ \/ r.kind = "subscribe", ![c].due = @ \/ r.kind = "subscribe"]
\* dispatch_requests(): windows, of which one always has a request, and external clients alternate.
Dispatch ==
  /\ turn' = ~turn
  /\ IF turn /\ \E c \in DOMAIN sessions : Ready(c)
     THEN Perform(NextSession) /\ cursor' = NextSession
     ELSE UNCHANGED <<channel, sessions, known, ran, cursor>>
  /\ MainOnly /\ UNCHANGED <<settings, project>>

\* A service answers an asynchronous call; its session may have ended, or its channel died.
Complete(c, id) ==
  /\ c \in DOMAIN sessions /\ id \in sessions[c].calls
  /\ sessions' = [sessions EXCEPT ![c].calls = @ \ {id}]
  /\ SetChannel(c, Sent(channel[c], <<"response", id>>, FALSE))
  /\ MainOnly /\ UNCHANGED <<settings, project, known, cursor, turn, ran>>
\* Events wait in the session, the newest only, and are sent at the end of a tick.
Event ==
  /\ \E c \in DOMAIN sessions : sessions[c].subscribed /\ ~sessions[c].due
  /\ sessions' = [c \in DOMAIN sessions |-> [sessions[c] EXCEPT !.due = sessions[c].subscribed]]
  /\ MainOnly /\ UNCHANGED <<channel, settings, project, known, cursor, turn, ran>>
Flush ==
  /\ \E c \in DOMAIN sessions : sessions[c].due
  /\ channel' = [c \in DOMAIN channel |-> IF c \in DOMAIN sessions /\ sessions[c].due
                                          THEN Sent(channel[c], <<"event">>, FALSE) ELSE channel[c]]
  /\ sessions' = [c \in DOMAIN sessions |-> [sessions[c] EXCEPT !.due = FALSE]]
  /\ MainOnly /\ UNCHANGED <<settings, project, known, cursor, turn, ran>>

\* configure_external() with another token or off, and stop_external(): sessions and channels are given up.
Cut(live) == [c \in DOMAIN channel |-> IF c \in live THEN [channel[c] EXCEPT !.alive = FALSE] ELSE channel[c]]
Configure(next) ==
  /\ settings < MaxSecret /\ next \in {0, settings + 1} /\ settings # 0
  /\ settings' = next
  /\ channel' = Cut(listed \cup DOMAIN sessions)
  /\ sessions' = <<>>
  /\ sockets' = IF next = 0 THEN {} ELSE sockets
  /\ UNCHANGED <<listed, project, known, cursor, turn, ran>>
\* The user shows another project; the runtime sees it only when it looks.
SwitchProject ==
  /\ project < MaxProject /\ project' = project + 1
  /\ UNCHANGED <<channel, sockets, listed, sessions, settings, known, cursor, turn, ran>>

Thread(c) == Output(c) \/ MustDrop(c)
Next ==
  \/ \E c \in Connections : Accept(c) \/ Output(c) \/ Drop(c)
  \/ \E c \in Connections, id \in Ids, kind \in Kinds : Receive(c, id, kind)
  \/ \E c \in Connections, id \in Ids : Complete(c, id)
  \/ Prune \/ Sync \/ Observe \/ Dispatch \/ Event \/ Flush \/ SwitchProject
  \/ \E next \in 0..MaxSecret : Configure(next)
Spec == Init /\ [][Next]_vars
\* The threads run; a socket that never takes a byte ends after thirty seconds.
Fairness == /\ \A c \in Connections : WF_vars(Thread(c))
            /\ WF_vars(Sync) /\ WF_vars(Dispatch) /\ WF_vars(Flush)

-----------------------------------------------------------------------------
\* A number has one request, one running call or one unwritten response, and is refused to
\* a second request exactly as long: no response can be taken for another request's.
Copies(c, id) ==
  LET k == channel[c] IN
  Cardinality({i \in DOMAIN k.requests : k.requests[i].id = id})
  + Cardinality({i \in DOMAIN k.output : k.output[i] = <<"response", id>>})
  + (IF c \in DOMAIN sessions /\ id \in sessions[c].calls THEN 1 ELSE 0)
NumberedOnce ==
  \A c \in DOMAIN sessions : Living(c) =>
    \A id \in Ids : Copies(c, id) = IF id \in channel[c].pending THEN 1 ELSE 0

\* An API call runs in the project that was current when the runtime accepted it and under the
\* access token in force: it was received on an authenticated channel that no change of the
\* settings has ended (PROJECT_CHANGED, AUTH_REQUIRED, configure_external).
RunsAsAccepted == ran.epoch = ran.project /\ ran.secret = ran.settings

\* However busy the windows and the other clients are, a client's request is taken, or its
\* session ends (dispatch_requests, dispatch_external).
Waiting(c) == c \in DOMAIN sessions /\ Living(c) /\ channel[c].requests # <<>>
Served(c) == channel[c].received - Len(channel[c].requests)
TurnComes == \A c \in Connections : \A n \in 0..MaxRequests :
  (Waiting(c) /\ Served(c) = n) ~> (~Waiting(c) \/ Served(c) > n)
=============================================================================
