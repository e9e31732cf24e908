------------------------------ MODULE Sockets ------------------------------
(***************************************************************************)
(* What goes over the local sockets: native streams and JSFX resources     *)
(* with the tickets that admit connections to them, twice, and the chunks  *)
(* of one resource.  The components share nothing and one of them moves;   *)
(* the run of MC_Window checks them, SocketsProofs proves about them for   *)
(* every value of the constants.                                           *)
(***************************************************************************)
EXTENDS Naturals, Sequences

CONSTANTS
  TwoPages, TwoTickets, \* two instances of StreamTransport, its constants as fields
  Resource,        \* the chunks of a resource
  Tries, QueuedReplies, MaxBroken, MaxCalls

ASSUME SocketsAssumption == \A r \in {TwoPages, TwoTickets} :
  /\ r.streams \intersect r.transfers = {} /\ "no token" \notin r.tokens /\ "none" \notin r.conns
  /\ r.ring \in Nat \ {0} /\ r.published \in Nat
ASSUME ResourceAssumption ==
  /\ Resource \in Seq({Resource[i] : i \in DOMAIN Resource})
  /\ Tries \in Nat \ {0} /\ {QueuedReplies, MaxBroken, MaxCalls} \subseteq Nat

VARIABLES
  socket,          \* the one that moves: "shared", "renewed" or "chunks"
  tickets, issued, clients, dialled, hungUp, inbox, wire, landed, phase, unserved, serving, published, rings, newest, ended,
  upward, data, latest, state, number, chunk, attempt, sent, online, requests, replies, strays, acked, breaks, exchanges

carriedVars == <<tickets, issued, clients, dialled, hungUp, inbox, wire, landed, phase, unserved, serving, published,
                 rings, newest, ended>>
chunkVars == <<upward, data, latest, state, number, chunk, attempt, sent, online, requests, replies, strays, acked,
               breaks, exchanges>>
socketVars == <<socket, carriedVars, chunkVars>>

\* Connections to streams and transfers.
Carried(r) == INSTANCE StreamTransport WITH
  shut <- hungUp, todo <- unserved, ring <- rings, cached <- newest, got <- landed, Streams <- r.streams,
  Ordered <- r.ordered, Frames <- r.frames, Transfers <- r.transfers, Tokens <- r.tokens, Owners <- r.owners,
  Sessions <- r.sessions, Conns <- r.conns, MaxClients <- r.clients, MaxTickets <- r.tickets,
  MaxWaiting <- r.waiting, MaxReplies <- r.replies, RingSize <- r.ring, MaxPublished <- r.published
\* The chunks of one transfer.
Chunks == INSTANCE JsfxTransfer WITH
  upload <- upward, sequence <- number, pending <- chunk, last <- latest, up <- online, Source <- Resource, Attempts <- Tries,
  MaxReplies <- QueuedReplies, MaxBreaks <- MaxBroken, MaxExchanges <- MaxCalls

\* A component that does not move stays at 0.
NoCarried ==
  tickets = 0 /\ issued = 0 /\ clients = 0 /\ dialled = 0 /\ hungUp = 0 /\ inbox = 0 /\ wire = 0 /\ landed = 0 /\ phase = 0
  /\ unserved = 0 /\ serving = 0 /\ published = 0 /\ rings = 0 /\ newest = 0 /\ ended = 0
NoChunks ==
  upward = 0 /\ data = 0 /\ latest = 0 /\ state = 0 /\ number = 0 /\ chunk = 0 /\ attempt = 0 /\ sent = 0 /\ online = 0
  /\ requests = 0 /\ replies = 0 /\ strays = 0 /\ acked = 0 /\ breaks = 0 /\ exchanges = 0
SocketInit ==
  /\ IF socket = "shared" THEN Carried(TwoPages)!Init ELSE IF socket = "renewed" THEN Carried(TwoTickets)!Init ELSE NoCarried
  /\ IF socket = "chunks" THEN Chunks!Init ELSE NoChunks
SocketNext ==
  \/ socket = "shared" /\ Carried(TwoPages)!Next /\ UNCHANGED <<socket, chunkVars>>
  \/ socket = "renewed" /\ Carried(TwoTickets)!Next /\ UNCHANGED <<socket, chunkVars>>
  \/ socket = "chunks" /\ Chunks!Next /\ UNCHANGED <<socket, carriedVars>>
SocketSpec == SocketInit /\ [][SocketNext]_socketVars

\* Tickets have one holder, whose packets come in order with one unacknowledged (StreamTransport), and chunks are
\* taken once and acknowledged truthfully (JsfxTransfer).
PacketsHeld ==
  /\ socket = "shared" => Carried(TwoPages)!TypeOK /\ Carried(TwoPages)!OneHolder /\ Carried(TwoPages)!InOrder
  /\ socket = "renewed" => Carried(TwoTickets)!TypeOK /\ Carried(TwoTickets)!OneHolder /\ Carried(TwoTickets)!InOrder
  /\ socket = "chunks" => Chunks!TypeOK /\ Chunks!ChunksInPlace
=============================================================================
