---------------------------- MODULE StreamTransport ----------------------------
(***************************************************************************)
(* The local socket transport of native streams and JSFX resources         *)
(* (runtime/stream_transport.cpp) with the tickets the hub keeps for it    *)
(* (runtime/native_stream.cpp).  The main thread attaches and detaches     *)
(* consumers; one transport thread runs passes: it accepts connections,    *)
(* forgets old tickets, distributes what the rings hold and pumps every    *)
(* client once.  The hub's mutex is taken for the tickets only, so the     *)
(* main thread acts between any two of the steps below.  The rings are the *)
(* subject of module Streams; here a ring is the sequence of the packet    *)
(* numbers it holds.                                                       *)
(***************************************************************************)
EXTENDS Naturals, Sequences, FiniteSets, Functions

CONSTANTS
  Streams,     \* native streams
  Ordered,     \* those of kind audio or MIDI, whose packets wait in order
  Frames,      \* those of kind frame, whose socket waits for the last acknowledgement
  Transfers,   \* JSFX resource transfers, reached over the same sockets
  Tokens,      \* tickets ever issued: 256 random bits each
  Owners,      \* windows, whose page connects with the ticket's origin
  Sessions,    \* external sessions, whose origin is not compared
  Conns,       \* connections ever made to the listener
  MaxClients,  \* 64 in the code
  MaxTickets,  \* 64 in the code
  MaxWaiting,  \* 8 packets of an ordered stream
  MaxReplies,  \* 2 replies of a transfer
  RingSize,    \* packets a ring holds
  MaxPublished \* bound: packets published on each stream

VARIABLES
  tickets,   \* token -> ticket, for the tickets that exist
  issued,    \* tokens used up: a token is never drawn twice
  clients,   \* connection -> state, for the connections the thread keeps
  dialled,   \* connections made by now
  shut,      \* connections the thread has closed
  inbox,     \* what the peer of a connection has sent and the thread not read
  wire,      \* packets the thread has sent and the page not handled
  got,       \* packet numbers the page behind a connection has handled
  phase,     \* where the thread is in its pass
  todo,      \* clients this pass has not pumped yet
  serving,   \* the client whose pump has read its input and not written yet
  published, \* number of the newest packet of a stream
  ring,      \* packets of a stream not taken yet
  cached,    \* stream -> newest packet distributed, 0 when there is none
  ended      \* streams and transfers closed

hubVars == <<tickets, issued, ended>>
pageVars == <<dialled, wire, got>>
streamVars == <<published, ring>>
vars == <<hubVars, clients, shut, pageVars, inbox, phase, todo, serving, streamVars, cached>>

Targets == Streams \cup Transfers
Nobody == "none"
NoToken == "no token"

Ticket == [owner : Owners \cup Sessions, target : Targets, connected : BOOLEAN, old : BOOLEAN]
\* What goes over a socket besides the packets, which are their numbers.
Open == 0
Reply == MaxPublished + 1
CloseFrame == MaxPublished + 2
Nothing == MaxPublished + 3
Packets == 1..MaxPublished
Item == Open..CloseFrame
Client == [token : Tokens \cup {NoToken}, target : Targets \cup {Nobody}, output : Item \cup {Nothing},
           waiting : Seq(Item), upgraded : BOOLEAN, inflight : BOOLEAN, closing : BOOLEAN,
           failed : BOOLEAN]
NewClient == [token |-> NoToken, target |-> Nobody, output |-> Nothing, waiting |-> <<>>,
              upgraded |-> FALSE, inflight |-> FALSE, closing |-> FALSE, failed |-> FALSE]

\* Types: nothing else is claimed here.
TypeOK ==
  /\ DOMAIN tickets \subseteq issued /\ issued \subseteq Tokens
  /\ \A t \in DOMAIN tickets : tickets[t] \in Ticket
  /\ DOMAIN clients \subseteq dialled /\ dialled \subseteq Conns
  /\ \A c \in DOMAIN clients : clients[c] \in Client
  /\ phase \in {"accept", "distribute", "pump", "stopped"}
  /\ todo \subseteq Conns /\ serving \in Conns \cup {Nobody} /\ ended \subseteq Targets
  /\ cached \in [Streams -> 0..MaxPublished] /\ published \in [Streams -> 0..MaxPublished]

Init ==
  /\ tickets = <<>> /\ issued = {} /\ ended = {}
  /\ clients = <<>> /\ dialled = {} /\ shut = {} /\ inbox = [c \in Conns |-> <<>>]
  /\ wire = [c \in Conns |-> <<>>] /\ got = [c \in Conns |-> <<>>]
  /\ phase = "accept" /\ todo = {} /\ serving = Nobody
  /\ published = [s \in Streams |-> 0] /\ ring = [s \in Streams |-> <<>>] /\ cached = [s \in Streams |-> 0]

-----------------------------------------------------------------------------
(* The main thread: tickets, closing, publishing.                          *)

NewTicket(owner, target) == [owner |-> owner, target |-> target, connected |-> FALSE, old |-> FALSE]
\* A ticket for a consumer of a stream (attach_consumer); a full table or a closed stream refuses.
Attach(t, owner, s) ==
  /\ t \notin issued /\ s \notin ended /\ Cardinality(DOMAIN tickets) < MaxTickets
  /\ tickets' = [u \in DOMAIN tickets \cup {t} |-> IF u = t THEN NewTicket(owner, s) ELSE tickets[u]]
  /\ issued' = issued \cup {t}
  /\ UNCHANGED <<ended, clients, shut, pageVars, inbox, phase, todo, serving, streamVars, cached>>
\* A ticket for a transfer replaces the earlier tickets of the same transfer.
AttachResource(t, w, r) ==
  /\ t \notin issued /\ r \notin ended
  /\ LET kept == {u \in DOMAIN tickets : tickets[u].target # r} IN
       tickets' = [u \in kept \cup {t} |-> IF u = t THEN NewTicket(w, r) ELSE tickets[u]]
  /\ issued' = issued \cup {t}
  /\ UNCHANGED <<ended, clients, shut, pageVars, inbox, phase, todo, serving, streamVars, cached>>

Erase(tokens) ==
  /\ tickets' = Restrict(tickets, DOMAIN tickets \ tokens)
  /\ UNCHANGED <<issued, ended, clients, shut, pageVars, inbox, phase, todo, serving, streamVars, cached>>
\* The page gives one ticket back, with the window it came from.
Detach(t) == t \in DOMAIN tickets /\ tickets[t].owner \in Owners /\ Erase({t})
\* A window navigates or closes: all its tickets go.
DetachWindow(w) ==
  LET mine == {t \in DOMAIN tickets : tickets[t].owner = w} IN mine # {} /\ Erase(mine)
\* A window's tickets of one open stream go.
DetachStreamWindow(s, w) ==
  LET mine == {t \in DOMAIN tickets : tickets[t].owner = w /\ tickets[t].target = s} IN
  s \notin ended /\ mine # {} /\ Erase(mine)
\* An external session gives back one ticket or, when it ends, all of them.
DetachExternal(x) ==
  LET mine == {t \in DOMAIN tickets : tickets[t].owner = x} IN
  \E some \in {mine} \cup {{t} : t \in mine} : some # {} /\ Erase(some)

Publish(s) ==
  /\ s \notin ended /\ published[s] < MaxPublished
  /\ published' = [published EXCEPT ![s] = @ + 1]
  /\ ring' = [ring EXCEPT ![s] = IF Len(@) < RingSize THEN Append(@, published[s] + 1)
                                 ELSE IF s \in Ordered THEN @ ELSE Append(Tail(@), published[s] + 1)]
  /\ UNCHANGED <<hubVars, clients, shut, pageVars, inbox, phase, todo, serving, cached>>
\* close() of a stream, or of a transfer (JsfxTransfer::close, or 30 s untouched).
End(x) ==
  /\ x \notin ended /\ ended' = ended \cup {x}
  /\ UNCHANGED <<tickets, issued, clients, shut, pageVars, inbox, phase, todo, serving, streamVars, cached>>
\* Ten seconds pass for a ticket nobody has connected with.
Grow(t) ==
  /\ t \in DOMAIN tickets /\ ~tickets[t].connected /\ ~tickets[t].old
  /\ tickets' = [tickets EXCEPT ![t].old = TRUE]
  /\ UNCHANGED <<issued, ended, clients, shut, pageVars, inbox, phase, todo, serving, streamVars, cached>>

-----------------------------------------------------------------------------
(* The peers: pages, external clients and anybody else on this machine.    *)

PeerUnchanged == UNCHANGED <<hubVars, clients, shut, phase, todo, serving, streamVars, cached>>
\* Somebody connects and sends the request line with a token; origin is what the browser says.
Dial(c, t, origin) ==
  /\ c \notin dialled /\ t \in issued
  /\ dialled' = dialled \cup {c}
  /\ inbox' = [inbox EXCEPT ![c] = <<<<"get", t, origin>>>>]
  /\ PeerUnchanged /\ UNCHANGED <<wire, got>>
\* Somebody connects and sends nothing.
DialSilently(c) ==
  /\ c \notin dialled /\ dialled' = dialled \cup {c}
  /\ PeerUnchanged /\ UNCHANGED <<inbox, wire, got>>
\* The page handles the packet that arrived and acknowledges it with one byte.
PageHandles(c) ==
  /\ wire[c] # <<>>
  /\ wire' = [wire EXCEPT ![c] = Tail(@)]
  /\ got' = [got EXCEPT ![c] = Append(@, Head(wire[c]))]
  /\ inbox' = [inbox EXCEPT ![c] = IF c \in shut THEN @ ELSE Append(@, <<"ack">>)]
  /\ PeerUnchanged /\ UNCHANGED dialled
\* A page sends a chunk of a transfer; it may send it again before the reply.
PageRequests(c) ==
  /\ c \in DOMAIN clients /\ clients[c].upgraded /\ clients[c].target \in Transfers
  /\ Len(inbox[c]) < 2
  /\ inbox' = [inbox EXCEPT ![c] = Append(@, <<"request">>)]
  /\ PeerUnchanged /\ UNCHANGED pageVars
\* The peer closes its socket, or sends what the protocol does not allow.
PeerLeaves(c) ==
  /\ c \in dialled \ shut /\ <<"gone">> \notin Range(inbox[c])
  /\ inbox' = [inbox EXCEPT ![c] = Append(@, <<"gone">>)]
  /\ PeerUnchanged /\ UNCHANGED pageVars

-----------------------------------------------------------------------------
(* The transport thread: one pass.                                         *)

Quiet == UNCHANGED <<dialled, got, published, issued, ended>>
\* A pass begins: accept() takes the connections there is room for and closes the others at once;
\* then, under the mutex, the tickets nobody used in time go, and what is cached of closed streams.
StartPass ==
  /\ phase = "accept" /\ phase' = "distribute"
  /\ LET new == dialled \ (DOMAIN clients \cup shut)
         room == MaxClients - Cardinality(DOMAIN clients) IN
     \E taken \in SUBSET new :
       /\ Cardinality(taken) = (IF Cardinality(new) < room THEN Cardinality(new) ELSE room)
       /\ clients' = [c \in DOMAIN clients \cup taken |-> IF c \in taken THEN NewClient ELSE clients[c]]
       /\ shut' = shut \cup (new \ taken)
  /\ tickets' = Restrict(tickets, {t \in DOMAIN tickets : tickets[t].connected \/ ~tickets[t].old})
  /\ cached' = [s \in Streams |-> IF s \in ended THEN 0 ELSE cached[s]]
  /\ Quiet /\ UNCHANGED <<inbox, wire, todo, serving, ring>>

\* Mutant: a newer packet waits behind the older one it replaces.
OfferedBehind(s, packet, client) ==
  [client EXCEPT !.waiting = IF Len(@) >= MaxWaiting THEN @ ELSE Append(@, packet)]
\* What one packet does to the queue of one client of its stream.
Offered(s, packet, client) ==
  LET before == IF s \in Ordered THEN client.waiting ELSE <<>> IN
  [client EXCEPT !.waiting = IF Len(before) >= MaxWaiting THEN before ELSE Append(before, packet)]
Distribute(s) ==
  /\ phase = "distribute" /\ s \notin ended /\ ring[s] # <<>>
  /\ ring' = [ring EXCEPT ![s] = Tail(@)]
  /\ cached' = IF s \in Ordered THEN cached ELSE [cached EXCEPT ![s] = Head(ring[s])]
  /\ clients' = [c \in DOMAIN clients |->
       IF clients[c].upgraded /\ clients[c].target = s /\ ~clients[c].failed
       THEN Offered(s, Head(ring[s]), clients[c]) ELSE clients[c]]
  /\ Quiet /\ UNCHANGED <<tickets, shut, inbox, wire, phase, todo, serving>>
\* Up to 64 packets of a stream are taken in a pass; more may arrive behind them.
Distributed ==
  /\ phase = "distribute" /\ \A s \in Streams \ ended : ring[s] = <<>>
  /\ phase' = "pump" /\ todo' = DOMAIN clients
  /\ Quiet /\ UNCHANGED <<tickets, clients, shut, inbox, wire, serving, ring, cached>>

\* Mutant: a ticket admits a second connection.
AdmitsTwice(t, origin) ==
  /\ t \in DOMAIN tickets /\ ~tickets[t].old
  /\ tickets[t].owner \in Sessions \/ tickets[t].owner = origin
\* The answer to a request line: the ticket exists, is unused and young, and its page's origin came with it.
Admits(t, origin) ==
  /\ t \in DOMAIN tickets /\ ~tickets[t].connected /\ ~tickets[t].old
  /\ tickets[t].owner \in Sessions \/ tickets[t].owner = origin
\* The client after a successful handshake: the response goes out first, then what is cached.
Admitted(client, t) ==
  LET x == tickets[t].target IN
  [client EXCEPT !.token = t, !.target = x, !.upgraded = TRUE, !.output = Open,
                 !.waiting = IF x \in Streams /\ cached[x] # 0 THEN <<cached[x]>> ELSE <<>>]
\* One message of an upgraded client: an acknowledgement, a chunk, or the end.
Handled(client, message) ==
  CASE message = <<"ack">> -> [client EXCEPT !.inflight = FALSE]
    [] message = <<"request">> ->
         IF Len(client.waiting) >= MaxReplies THEN [client EXCEPT !.failed = TRUE]
         ELSE [client EXCEPT !.waiting = Append(@, Reply)]
    [] OTHER -> [client EXCEPT !.failed = TRUE]
Read(client, messages) ==
  LET after[n \in 0..Len(messages)] ==
        IF n = 0 THEN client ELSE IF after[n - 1].failed THEN after[n - 1] ELSE Handled(after[n - 1], messages[n])
  IN after[Len(messages)]

\* The first half of pump(): read the socket; a silent stranger may have used up its three seconds.
Receive(c) ==
  /\ phase = "pump" /\ serving = Nobody /\ c \in todo
  /\ inbox' = [inbox EXCEPT ![c] = <<>>]
  /\ LET k == clients[c]
         admitted == /\ ~k.upgraded /\ inbox[c] # <<>> /\ Head(inbox[c])[1] = "get"
                     /\ Admits(Head(inbox[c])[2], Head(inbox[c])[3]) IN
     \E next \in IF inbox[c] = <<>> THEN {k} \cup (IF k.upgraded THEN {} ELSE {[k EXCEPT !.failed = TRUE]})
                 ELSE IF admitted THEN {Read(Admitted(k, Head(inbox[c])[2]), Tail(inbox[c]))}
                 ELSE IF k.upgraded THEN {Read(k, inbox[c])} ELSE {[k EXCEPT !.failed = TRUE]} :
       /\ clients' = [clients EXCEPT ![c] = next]
       /\ tickets' = IF admitted THEN [tickets EXCEPT ![Head(inbox[c])[2]].connected = TRUE] ELSE tickets
       /\ IF next.failed \/ ~next.upgraded THEN todo' = todo \ {c} /\ UNCHANGED serving
          ELSE serving' = c /\ UNCHANGED todo
  /\ Quiet /\ UNCHANGED <<shut, wire, phase, ring, cached>>

\* Mutant: packets are sent ahead of their acknowledgements.
ChosenAhead(k) ==
  IF k.output = Nothing /\ k.waiting # <<>>
  THEN [k EXCEPT !.output = Head(k.waiting), !.waiting = Tail(k.waiting), !.inflight = k.target \in Streams] ELSE k
\* What is sent next: the close frame of an ended stream, or the oldest waiting item.
Chosen(k) ==
  IF k.output # Nothing THEN k
  ELSE IF k.target \in ended THEN
    IF k.target \in Frames /\ k.inflight THEN [k EXCEPT !.waiting = <<>>]
    ELSE [k EXCEPT !.waiting = <<>>, !.output = CloseFrame, !.closing = TRUE]
  ELSE IF k.waiting # <<>> /\ ~k.inflight THEN
    [k EXCEPT !.output = Head(k.waiting), !.waiting = Tail(k.waiting), !.inflight = k.target \in Streams]
  ELSE k
\* Mutant: a connection, once made, does not look at its ticket again.
HeldAnyway(k) == TRUE
\* The ticket of a client still exists.
Held(k) == k.token \in DOMAIN tickets
\* The second half of pump(): the ticket, the choice, and a write that may be partial, complete or refused;
\* thirty seconds without progress end a client that owes or is owed something.
Serve(c) ==
  /\ serving = c /\ serving' = Nobody /\ todo' = todo \ {c}
  /\ LET k == Chosen(clients[c])
         sent == [k EXCEPT !.output = Nothing, !.failed = k.closing]
         lost == [k EXCEPT !.failed = TRUE] IN
     IF ~Held(clients[c]) THEN clients' = [clients EXCEPT ![c].failed = TRUE] /\ UNCHANGED wire
     ELSE \/ k.output # Nothing /\ clients' = [clients EXCEPT ![c] = sent] /\ wire' = [wire EXCEPT ![c] = IF k.output \in Packets THEN Append(@, k.output) ELSE @]
          \/ k.output # Nothing /\ clients' = [clients EXCEPT ![c] = k] /\ UNCHANGED wire
          \/ (k.output # Nothing \/ k.inflight) /\ clients' = [clients EXCEPT ![c] = lost] /\ UNCHANGED wire
          \/ k.output = Nothing /\ clients' = [clients EXCEPT ![c] = k] /\ UNCHANGED wire
  /\ Quiet /\ UNCHANGED <<tickets, shut, inbox, phase, ring, cached>>

\* Failed clients are closed, and their tickets die with them.
Spent(dead) == {clients[c].token : c \in dead}
Drop(dead) ==
  /\ tickets' = Restrict(tickets, DOMAIN tickets \ Spent(dead))
  /\ clients' = Restrict(clients, DOMAIN clients \ dead)
  /\ shut' = shut \cup dead
Reap ==
  /\ phase = "pump" /\ todo = {} /\ serving = Nobody /\ phase' = "accept"
  /\ Drop({c \in DOMAIN clients : clients[c].failed})
  /\ Quiet /\ UNCHANGED <<inbox, wire, todo, serving, ring, cached>>

\* An exception ends the thread for good, as does the destructor: every client is closed first.
Fail ==
  /\ phase # "stopped" /\ phase' = "stopped"
  /\ todo' = {} /\ serving' = Nobody
  /\ Drop(DOMAIN clients)
  /\ Quiet /\ UNCHANGED <<inbox, wire, ring, cached>>

Main ==
  \/ \E t \in Tokens, o \in Owners \cup Sessions, s \in Streams : Attach(t, o, s)
  \/ \E t \in Tokens, w \in Owners, r \in Transfers : AttachResource(t, w, r)
  \/ \E t \in Tokens : Detach(t) \/ Grow(t)
  \/ \E w \in Owners : DetachWindow(w)
  \/ \E s \in Streams, w \in Owners : DetachStreamWindow(s, w)
  \/ \E x \in Sessions : DetachExternal(x)
  \/ \E s \in Streams : Publish(s)
  \/ \E x \in Targets : End(x)
Peer ==
  \/ \E c \in Conns, t \in Tokens, o \in Owners \cup Sessions : Dial(c, t, o)
  \/ \E c \in Conns : DialSilently(c) \/ PageHandles(c) \/ PageRequests(c) \/ PeerLeaves(c)
Pass == StartPass \/ Distributed \/ Reap
        \/ (\E s \in Streams : Distribute(s)) \/ (\E c \in Conns : Receive(c) \/ Serve(c))
Next == Main \/ Peer \/ Pass \/ Fail
Spec == Init /\ [][Next]_vars
Written(c) == Serve(c) /\ clients'[c].output = Nothing
\* The thread runs until it is stopped and a socket does not refuse bytes for ever; pages handle what arrives.
Fairness ==
  /\ WF_vars(Pass)
  /\ \A c \in Conns : WF_vars(PageHandles(c)) /\ SF_vars(Written(c))

-----------------------------------------------------------------------------
\* A ticket admits one connection: the connected tickets and the clients that hold a ticket
\* match one to one, so a ticket is never shared, and none stays taken after its connection.
OneHolder ==
  /\ \A t \in DOMAIN tickets : tickets[t].connected => \E c \in DOMAIN clients : clients[c].token = t
  /\ \A c, d \in DOMAIN clients : c # d /\ clients[c].upgraded => clients[c].token # clients[d].token

\* Packets reach a page in the order they were published, none twice, and at most one is
\* under way without its acknowledgement, whatever was cached for it when it connected.
InOrder ==
  \A c \in Conns :
    LET packets == got[c] \o wire[c] IN
    /\ \A i, j \in DOMAIN packets : i < j => packets[i] < packets[j]
    /\ Len(wire[c]) <= 1

\* A connection ends once its ticket is taken back: after a detach, a navigation or the end
\* of a session the thread drops the client (pump, reap).
Revoked(c) == c \in DOMAIN clients /\ clients[c].upgraded /\ clients[c].token \notin DOMAIN tickets
RevokedEnds == \A c \in Conns : Revoked(c) ~> c \notin DOMAIN clients

\* The page of a stream that keeps the latest packet catches up with the producer, packets
\* from before it connected included, unless its connection ends.
Behind(c, s, n) ==
  /\ c \in DOMAIN clients /\ clients[c].upgraded /\ clients[c].target = s
  /\ s \notin ended /\ published[s] = n /\ n > 0
CaughtUp(c, s, n) == c \notin DOMAIN clients \/ s \in ended \/ (got[c] # <<>> /\ got[c][Len(got[c])] >= n)
NewestShown ==
  \A c \in Conns, s \in Streams \ Ordered, n \in 1..MaxPublished : Behind(c, s, n) ~> CaughtUp(c, s, n)
=============================================================================
