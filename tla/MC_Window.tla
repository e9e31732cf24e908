------------------------------- MODULE MC_Window -------------------------------
(***************************************************************************)
(* What a window and its page go through together, component by component: *)
(* the cleanup, the messages, the gestures and the connections of the page *)
(* to the sockets.  They share no state in these models, each is on its    *)
(* own small instances; the initial state chooses one and only that one    *)
(* moves.  The properties of Undo and Sockets are those of the modules     *)
(* themselves, with the windows and clients of all instances of Undo.      *)
(***************************************************************************)
EXTENDS Undo, Sockets

VARIABLES
  part,
  ready, enabled, action, token, cleanups, late, allowReload, wClosing, failed, window, presenting, generation, reloading,
  told, returned, reloads, listens, closeAsked, settled, bare,
  mGeneration, mReady, mClosing, mWindow, subscribed, toWeb, toHost, messageBytes, webMessages, outputPending,
  worker, mRequests, inReceive, dispatched, mSent, posted, pageGot, luaGot, lastSend, lastPost

lifecycleVars == <<ready, enabled, action, token, cleanups, late, allowReload, wClosing, failed, window, presenting,
  generation, reloading, told, returned, reloads, listens, closeAsked, settled, bare>>
messageVars == <<mGeneration, mReady, mClosing, mWindow, subscribed, toWeb, toHost, messageBytes, webMessages,
  outputPending, worker, mRequests, inReceive, dispatched, mSent, posted, pageGot, luaGot, lastSend, lastPost>>

\* A window that closes, reloads and navigates.
Cleanup == INSTANCE Lifecycle WITH
  sequence <- cleanups, closing <- wClosing, MaxCleanups <- 3, MaxNavigations <- 3, MaxReloads <- 2, MaxListens <- 3
\* Messages of one and of two bytes in turn, and more than either queue holds.
Messaging == INSTANCE HostMessages WITH
  generation <- mGeneration, ready <- mReady, closing <- mClosing, window <- mWindow, requests <- mRequests, sent <- mSent,
  SizeOf <- [n \in 1 .. 5 |-> 1 + (n % 2)], MaxSends <- 3, MaxPosts <- 2, MaxNavigations <- 2, QueueLimit <- 2,
  ByteLimit <- 5, OutputGate <- 2, FlushBatch <- 2, WorkerCapacity <- 2
ASSUME MessagingLimited == Messaging!MessageLimits
\* Gestures of two windows, while the project changes once.
Rivals == INSTANCE Undo WITH
  Windows <- {"w1", "w2"}, External <- {}, Effects <- {}, MaxChanges <- 1, MaxGestures <- 2, QueueLimit <- 1
\* A window and an external client, while the project changes twice.
Guests == INSTANCE Undo WITH
  Windows <- {"w1"}, External <- {"e1"}, Effects <- {}, MaxChanges <- 2, MaxGestures <- 2, QueueLimit <- 1
\* The page of a JSFX editor, while the project changes once.
Editor == INSTANCE Undo WITH
  Windows <- {"jsfx"}, External <- {}, Effects <- {"jsfx"}, MaxChanges <- 1, MaxGestures <- 3, QueueLimit <- 2

\* Two connections for one ticket: who holds it, what each page gets.
OnePage == [streams |-> {"frames"}, ordered |-> {}, frames |-> {"frames"}, transfers |-> {}, tokens |-> {"t1"},
            owners |-> {"window"}, sessions |-> {}, conns |-> {"c1", "c2"}, clients |-> 2, tickets |-> 2, waiting |-> 1,
            replies |-> 1, ring |-> 1, published |-> 2]
\* Two tickets for one connection: renewal for a transfer, an ordered stream, an external session, every kind of
\* detach.
Renewal == [streams |-> {"audio"}, ordered |-> {"audio"}, frames |-> {}, transfers |-> {"resource"},
            tokens |-> {"t1", "t2"}, owners |-> {"window"}, sessions |-> {"external"}, conns |-> {"c1"}, clients |-> 1,
            tickets |-> 2, waiting |-> 1, replies |-> 1, ring |-> 1, published |-> 1]
\* A resource of two chunks.
TwoChunks == <<"a", "b">>

Start ==
  /\ part \in {"lifecycle", "messages", "rivals", "guests", "editor", "shared", "renewed", "chunks"}
  /\ Cleanup!Init /\ Messaging!Init /\ socket = part /\ SocketInit
  /\ CASE part = "guests" -> Guests!Init [] part = "editor" -> Editor!Init [] OTHER -> Rivals!Init
  /\ presenting => part = "lifecycle"
  /\ current = "p1"
Move ==
  \/ part = "lifecycle" /\ Cleanup!Next /\ UNCHANGED <<part, messageVars, vars, socketVars>>
  \/ part = "messages" /\ Messaging!Next /\ UNCHANGED <<part, lifecycleVars, vars, socketVars>>
  \/ part = "rivals" /\ Rivals!Next /\ UNCHANGED <<part, lifecycleVars, messageVars, socketVars>>
  \/ part = "guests" /\ Guests!Next /\ UNCHANGED <<part, lifecycleVars, messageVars, socketVars>>
  \/ part = "editor" /\ Editor!Next /\ UNCHANGED <<part, lifecycleVars, messageVars, socketVars>>
  \/ SocketNext /\ UNCHANGED <<part, lifecycleVars, messageVars, vars>>
Safety == Start /\ [][Move]_<<part, lifecycleVars, messageVars, vars, socketVars>>

\* The queues of a window are the bounded channel of the documentation (HostMessages).
ImplementsChannel == Messaging!ImplementsChannel
\* The variables have their types, and the counters of the message queues count what is in them (HostMessages).
WindowTyped ==
  /\ part = "lifecycle" => Cleanup!TypeOK
  /\ part = "messages" => Messaging!TypeOK
  /\ part = "rivals" => Rivals!TypeOK
  /\ part = "guests" => Guests!TypeOK
  /\ part = "editor" => Editor!TypeOK
===============================================================================
