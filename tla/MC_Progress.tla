------------------------------ MODULE MC_Progress ------------------------------
(***************************************************************************)
(* What must eventually happen, each component alone on a small instance,  *)
(* under the fairness its own module states.  The initial state chooses    *)
(* the component; only that one moves.  The window that closes, reloads    *)
(* and navigates is the one of Lifecycle itself, with its safety.          *)
(***************************************************************************)
EXTENDS Lifecycle, Sequences

VARIABLES
  part,
  mGeneration, mReady, mClosing, mWindow, subscribed, toWeb, toHost, messageBytes, webMessages, outputPending,
  worker, requests, inReceive, dispatched, sent, posted, pageGot, luaGot, lastSend, lastPost,
  current, loads, open, block, refresh, changes, seen, undo, gestures, edit, batch, queue, doc, cleaning, uClosing, gone,
  tickets, issued, clients, dialled, shut, inbox, wire, got, phase, todo, serving, published, ring, cached, ended,
  channel, sockets, listed, sessions, settings, project, known, cursor, turn, ran

messageVars == <<mGeneration, mReady, mClosing, mWindow, subscribed, toWeb, toHost, messageBytes, webMessages,
  outputPending, worker, requests, inReceive, dispatched, sent, posted, pageGot, luaGot, lastSend, lastPost>>
undoVars == <<current, loads, open, block, refresh, changes, seen, undo, gestures, edit, batch, queue, doc, cleaning, uClosing, gone>>
socketVars == <<tickets, issued, clients, dialled, shut, inbox, wire, got, phase, todo, serving, published, ring, cached, ended>>
clientVars == <<channel, sockets, listed, sessions, settings, project, known, cursor, turn, ran>>
all == <<part, vars, messageVars, undoVars, socketVars, clientVars>>

\* Messages of one and of two bytes in turn, and more than either queue holds.
Messaging == INSTANCE HostMessages WITH
  generation <- mGeneration, ready <- mReady, closing <- mClosing, window <- mWindow,
  SizeOf <- [n \in 1 .. 3 |-> 1 + (n % 2)], MaxSends <- 3, MaxPosts <- 0, MaxNavigations <- 2, QueueLimit <- 2,
  ByteLimit <- 5, OutputGate <- 2, FlushBatch <- 2, WorkerCapacity <- 2
ASSUME MessagingLimited == Messaging!MessageLimits
\* The gestures of one window beside an external client.
Gestures == INSTANCE Undo WITH
  sequence <- gestures, closing <- uClosing, Windows <- {"w1"}, External <- {"e1"}, Native <- "native", Effects <- {}, None <- "none",
  Projects <- {"p1"}, MaxChanges <- 1, MaxGestures <- 2, MaxDocuments <- 2, QueueLimit <- 1, BatchCalls <- 1
\* One page and its stream.
Page == INSTANCE StreamTransport WITH
  Streams <- {"frames"}, Ordered <- {}, Frames <- {"frames"}, Transfers <- {}, Tokens <- {"t1"}, Owners <- {"window"},
  Sessions <- {}, Conns <- {"c1"}, MaxClients <- 1, MaxTickets <- 1, MaxWaiting <- 1, MaxReplies <- 1,
  RingSize <- 1, MaxPublished <- 2
\* Two external clients beside a window that always has a request.
Clients == INSTANCE ExternalClients WITH
  Connections <- {1, 2}, Kinds <- {"auth", "invoke"}, Ids <- {1}, MaxSockets <- 2,
  MaxPending <- 1, MaxOutput <- 1, MaxRequests <- 2, MaxSecret <- 1, MaxProject <- 1

Start ==
  /\ part \in {"lifecycle", "messages", "undo", "page", "clients"}
  /\ Init /\ Messaging!Init /\ Gestures!Init /\ Page!Init /\ Clients!Init
  /\ presenting => part = "lifecycle"

Window(A) == part = "lifecycle" /\ A /\ UNCHANGED <<part, messageVars, undoVars, socketVars, clientVars>>
Message(A) == part = "messages" /\ A /\ UNCHANGED <<part, vars, undoVars, socketVars, clientVars>>
Gesture(A) == part = "undo" /\ A /\ UNCHANGED <<part, vars, messageVars, socketVars, clientVars>>
Socket(A) == part = "page" /\ A /\ UNCHANGED <<part, vars, messageVars, undoVars, clientVars>>
Client(A) == part = "clients" /\ A /\ UNCHANGED <<part, vars, messageVars, undoVars, socketVars>>
Move ==
  \/ Window(Next) \/ Message(Messaging!Next) \/ Gesture(Gestures!Next) \/ Socket(Page!Next) \/ Client(Clients!Next)

\* The fairness of each module, with the other components at rest.
Fair ==
  /\ WF_all(Window(Deadline)) /\ WF_all(Window(CompleteLate))
  /\ WF_all(Window(StartNavigation)) /\ WF_all(Window(Erase))
  /\ SF_all(Message(Messaging!Take)) /\ SF_all(Message(Messaging!Flush)) /\ WF_all(Message(Messaging!ReceiveReturn))
  /\ WF_all(Gesture(Gestures!PassDeadline)) /\ WF_all(Gesture(Gestures!Tick)) /\ WF_all(Gesture(Gestures!FinishBatch))
  /\ WF_all(Socket(Page!Pass)) /\ WF_all(Socket(Page!PageHandles("c1"))) /\ SF_all(Socket(Page!Written("c1")))
  /\ \A c \in {1, 2} : WF_all(Client(Clients!Thread(c)))
  /\ WF_all(Client(Clients!Sync)) /\ WF_all(Client(Clients!Dispatch)) /\ WF_all(Client(Clients!Flush))
Progress == Start /\ [][Move]_all /\ Fair

\* A close that is asked for happens unless a reload is asked for (Lifecycle),
\* and every gesture of a window ends (Undo).
BothEnd == ClosesUnlessReloaded /\ Gestures!GestureEnds
\* A message for a page that listens is handed over, or its document goes (HostMessages).
PageCatchesUp == Messaging!PageCatchesUp
\* A revoked ticket ends its connection (StreamTransport).
RevokedEnds == Page!RevokedEnds
\* The newest packet reaches the page (StreamTransport).
NewestShown == part = "page" => Page!NewestShown
\* Every client has its turn (ExternalClients).
TurnComes == part = "clients" => Clients!TurnComes
===============================================================================
