-------------------------- MODULE HostChannel --------------------------
(***************************************************************************)
(* What the Lua message bridge promises (docs/host-api.md, "Lua message    *)
(* bridge"): two first-in first-out queues between a Lua script and the    *)
(* document of one window, with a limit per direction and one byte budget  *)
(* for both.  A message is refused only when there is no room, and every   *)
(* accepted message is handed over in order, unless the document goes.     *)
(***************************************************************************)
EXTENDS Integers, Sequences

CONSTANTS Messages, QueueLimit, ByteLimit

VARIABLES
  open,       \* the window exists
  toPage,     \* accepted from Lua, not handed to the page
  toLua,      \* accepted from the page, not handed to Lua
  pageGot, luaGot,    \* handed over, since the document came
  lastSend, lastPost  \* the fate of the last message of each side

channel == <<open, toPage, toLua, pageGot, luaGot, lastSend, lastPost>>

Bytes(queue) ==
  LET upTo[i \in 0 .. Len(queue)] == IF i = 0 THEN 0 ELSE upTo[i - 1] + queue[i].size
  IN upTo[Len(queue)]

Room(queue, message) ==
  /\ Len(queue) < QueueLimit
  /\ message.size + Bytes(toPage) + Bytes(toLua) <= ByteLimit

Init ==
  /\ open = TRUE /\ toPage = <<>> /\ toLua = <<>> /\ pageGot = <<>> /\ luaGot = <<>>
  /\ lastSend = "none" /\ lastPost = "none"

Send(message) ==
  /\ open
  /\ IF Room(toPage, message)
     THEN toPage' = Append(toPage, message) /\ lastSend' = "accepted"
     ELSE UNCHANGED toPage /\ lastSend' = "full"
  /\ UNCHANGED <<open, toLua, pageGot, luaGot, lastPost>>

\* Some of the oldest messages reach the page together.
Deliver(count) ==
  /\ open
  /\ pageGot' = pageGot \o SubSeq(toPage, 1, count)
  /\ toPage' = SubSeq(toPage, count + 1, Len(toPage))
  /\ UNCHANGED <<open, toLua, luaGot, lastSend, lastPost>>

Post(message) ==
  /\ open
  /\ IF Room(toLua, message)
     THEN toLua' = Append(toLua, message) /\ lastPost' = "accepted"
     ELSE UNCHANGED toLua /\ lastPost' = "full"
  /\ UNCHANGED <<open, toPage, pageGot, luaGot, lastSend>>

Receive ==
  /\ toLua # <<>>
  /\ luaGot' = Append(luaGot, Head(toLua)) /\ toLua' = Tail(toLua)
  /\ UNCHANGED <<open, toPage, pageGot, lastSend, lastPost>>

\* A new document, or a close.
Discard ==
  /\ toPage' = <<>> /\ toLua' = <<>> /\ pageGot' = <<>> /\ luaGot' = <<>>
  /\ open' \in {open, FALSE}
  /\ UNCHANGED <<lastSend, lastPost>>

\* The native window is gone: the page gets nothing more.
Gone ==
  /\ open' = FALSE /\ toPage' = <<>>
  /\ UNCHANGED <<toLua, pageGot, luaGot, lastSend, lastPost>>

Next ==
  \/ Discard \/ Gone \/ Receive
  \/ \E count \in 1 .. Len(toPage) : Deliver(count)
  \/ \E message \in Messages : Send(message) \/ Post(message)

Spec == Init /\ [][Next]_channel
=============================================================================
