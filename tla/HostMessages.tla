-------------------------- MODULE HostMessages --------------------------
(***************************************************************************)
(* The message queues of one window between Lua and its page               *)
(* (messages.cpp, the Script branch and the message turn of tick() in      *)
(* runtime.cpp).                                                           *)
(*                                                                         *)
(* Lua sends on the main thread.  The message turn of the timer moves      *)
(* messages to the page inline, or through the worker when other output is *)
(* pending, and keeps the head when the worker is full.  The page sends    *)
(* with a request.  Receiving may pump the WebView and dispatch requests   *)
(* once per timer pass, inside which the page may navigate or close.       *)
(*                                                                         *)
(* It implements HostChannel.  Requests of a document being replaced, and  *)
(* closing with cleanup listeners, are in Bridge.tla and Lifecycle.tla.    *)
(***************************************************************************)
EXTENDS Integers, Sequences

CONSTANTS
  SizeOf,          \* the size of each message, within host_message_limit
  MaxSends,        \* bound on the messages of Lua
  MaxPosts,        \* bound on the messages of the page
  MaxNavigations,  \* bound on the documents of the window
  QueueLimit,      \* host_queue_limit (256 in each direction)
  ByteLimit,       \* host_queue_bytes (16 MiB for both)
  OutputGate,      \* counted output past which no message is flushed (16)
  FlushBatch,      \* messages of one turn (16)
  WorkerCapacity   \* works the worker holds before it refuses one

\* The messages of Lua are numbered first, then those of the page.
Messages == {[n |-> n, size |-> SizeOf[n]] : n \in 1 .. MaxSends + MaxPosts}
Documents == 1 .. MaxNavigations
NoMessage == [n |-> 0, size |-> 0]

\* What the proofs need of the constants.
MessageLimits ==
  /\ MaxSends \in Nat /\ MaxPosts \in Nat /\ MaxNavigations \in Nat \ {0}
  /\ SizeOf \in [1 .. MaxSends + MaxPosts -> Nat]
  /\ QueueLimit \in Nat /\ ByteLimit \in Nat /\ OutputGate \in Nat /\ FlushBatch \in Nat /\ WorkerCapacity \in Nat

\* Counted output of the worker: the encoding of a message, or of an answer.
Work == [what : {"Message", "Answer"}, gen : Documents, message : Messages \union {NoMessage}]

VARIABLES
  generation, ready, subscribed, closing,
  window,        \* "open", "broken" (evaluate throws), "gone" or "erased"
  toWeb, toHost, \* Session::to_web, to_host
  messageBytes, webMessages, outputPending,
  worker,
  requests,      \* host.send requests of the document, not dispatched
  inReceive,     \* receive() pumps and dispatches: it holds ticking_
  dispatched,    \* receive_dispatched_
  sent, posted,  \* messages numbered so far
  pageGot, luaGot, lastSend, lastPost  \* history, as in HostChannel

page == <<generation, ready, subscribed>>
fate == <<closing, window>>
queues == <<toWeb, toHost, messageBytes, webMessages>>
pass == <<inReceive, dispatched>>
numbers == <<sent, posted>>
got == <<pageGot, luaGot>>
results == <<lastSend, lastPost>>
vars == <<page, fate, queues, outputPending, worker, requests, pass, numbers, got, results>>

Init ==
  /\ generation = 1 /\ ready = FALSE /\ subscribed = FALSE
  /\ closing = FALSE /\ window = "open"
  /\ toWeb = <<>> /\ toHost = <<>> /\ messageBytes = 0 /\ webMessages = 0
  /\ outputPending = 0 /\ worker = <<>> /\ requests = <<>>
  /\ inReceive = FALSE /\ dispatched = FALSE /\ sent = 0 /\ posted = 0
  /\ pageGot = <<>> /\ luaGot = <<>> /\ lastSend = "none" /\ lastPost = "none"

Alive == window \in {"open", "broken"}  \* Window::closed() is false
IsOpen == ~closing /\ Alive             \* Runtime::is_open
Dec(n) == IF n = 0 THEN 0 ELSE n - 1
BytesIn(queue) ==
  LET upTo[i \in 0 .. Len(queue)] == IF i = 0 THEN 0 ELSE upTo[i - 1] + queue[i].size
  IN upTo[Len(queue)]

----------------------------------------------------------------------------
(* Clearing and filling the queues *)

\* clear_messages
Clear ==
  /\ toWeb' = <<>> /\ toHost' = <<>> /\ messageBytes' = 0 /\ webMessages' = 0
  /\ pageGot' = <<>> /\ luaGot' = <<>>

Fails == closing' = TRUE /\ Clear

\* enqueue_message: what is in the worker still counts for the page's direction.
HasRoom(count, message) == count < QueueLimit /\ message.size <= ByteLimit - messageBytes

\* ReaWeb_Send
Send(message) ==
  /\ IsOpen /\ ready
  /\ sent < MaxSends /\ message.n = sent + 1
  /\ sent' = sent + 1
  /\ IF HasRoom(webMessages, message)
     THEN /\ toWeb' = Append(toWeb, message)
          /\ messageBytes' = messageBytes + message.size
          /\ webMessages' = webMessages + 1
          /\ lastSend' = "accepted"
     ELSE UNCHANGED <<toWeb, messageBytes, webMessages>> /\ lastSend' = "full"
  /\ UNCHANGED <<page, fate, toHost, outputPending, worker, requests, pass, posted, got, lastPost>>

\* reaper.host.send posts a request.
PagePost(message) ==
  /\ ready /\ window = "open"
  /\ posted < MaxPosts /\ message.n = MaxSends + posted + 1
  /\ posted' = posted + 1
  /\ requests' = Append(requests, message)
  /\ UNCHANGED <<page, fate, queues, outputPending, worker, pass, sent, got, results>>

\* The answer goes inline, or counts as output of the worker.
Answer ==
  \/ outputPending = 0 /\ window = "open" /\ UNCHANGED <<worker, outputPending, closing>>
  \/ /\ Len(worker) < WorkerCapacity
     /\ worker' = Append(worker, [what |-> "Answer", gen |-> generation, message |-> NoMessage])
     /\ outputPending' = outputPending + 1
     /\ UNCHANGED closing

\* ReaWeb_HostSend is dispatched, by tick() or inside receive().  An answer that
\* cannot be given fails the session, which empties its queues.
Dispatch ==
  /\ IsOpen /\ requests # <<>>
  /\ requests' = Tail(requests)
  /\ LET message == Head(requests) IN
     \/ /\ Answer
        /\ IF HasRoom(Len(toHost), message)
           THEN /\ toHost' = Append(toHost, message)
                /\ messageBytes' = messageBytes + message.size
                /\ lastPost' = "accepted"
           ELSE UNCHANGED <<toHost, messageBytes>> /\ lastPost' = "full"
        /\ UNCHANGED <<toWeb, webMessages, got>>
     \/ /\ window = "broken" \/ Len(worker) = WorkerCapacity
        /\ Fails
        /\ UNCHANGED <<worker, outputPending, lastPost>>
  /\ UNCHANGED <<page, window, pass, numbers, lastSend>>

----------------------------------------------------------------------------
(* Runtime::receive *)

\* Mutant: what was read stays counted.
PopCounted ==
  IF toHost = <<>> THEN UNCHANGED <<toHost, messageBytes, luaGot>>
  ELSE toHost' = Tail(toHost) /\ luaGot' = Append(luaGot, Head(toHost)) /\ UNCHANGED messageBytes
Pop ==
  IF toHost = <<>> THEN UNCHANGED <<toHost, messageBytes, luaGot>>
  ELSE /\ toHost' = Tail(toHost)
       /\ messageBytes' = messageBytes - Head(toHost).size
       /\ luaGot' = Append(luaGot, Head(toHost))

\* Lua reads what is queued, also when called back inside tick() or receive().
ReceiveQueued ==
  /\ IsOpen /\ toHost # <<>>
  /\ Pop
  /\ UNCHANGED <<page, fate, toWeb, webMessages, outputPending, worker, requests, pass,
                 numbers, pageGot, results>>

\* With nothing queued it pumps and dispatches first, once per pass ...
ReceivePump ==
  /\ IsOpen /\ ~inReceive /\ ~dispatched /\ toHost = <<>>
  /\ inReceive' = TRUE /\ dispatched' = TRUE
  /\ UNCHANGED <<page, fate, queues, outputPending, worker, requests, numbers, got, results>>

\* ... and then reads, whatever became of the window meanwhile.
ReceiveReturn ==
  /\ inReceive /\ inReceive' = FALSE
  /\ Pop
  /\ UNCHANGED <<page, fate, toWeb, webMessages, outputPending, worker, requests, dispatched,
                 numbers, pageGot, results>>

----------------------------------------------------------------------------
(* Runtime::tick, which ticking_ keeps out of receive() *)

NewPass ==
  /\ ~inReceive /\ dispatched /\ dispatched' = FALSE
  /\ UNCHANGED <<page, fate, queues, outputPending, worker, requests, inReceive, numbers,
                 got, results>>

\* A finished encoding of this document. Once the session closes its messages are
\* neither shown nor counted, since their counters were cleared.
TakeCurrent(work) ==
  IF work.what = "Answer" \/ ~closing
  THEN IF window = "broken" THEN Fails
       ELSE /\ pageGot' = IF work.what = "Message" THEN Append(pageGot, work.message) ELSE pageGot
            /\ IF work.what = "Message"
               THEN messageBytes' = messageBytes - work.message.size /\ webMessages' = webMessages - 1
               ELSE UNCHANGED <<messageBytes, webMessages>>
            /\ UNCHANGED <<closing, toWeb, toHost, luaGot>>
  ELSE UNCHANGED <<closing, queues, got>>

Take ==
  /\ ~inReceive /\ worker # <<>>
  /\ worker' = Tail(worker)
  /\ IF Head(worker).gen # generation \/ ~Alive
     THEN UNCHANGED <<closing, queues, got, outputPending>>
     ELSE TakeCurrent(Head(worker)) /\ outputPending' = Dec(outputPending)
  /\ UNCHANGED <<page, window, requests, pass, numbers, results>>

\* Mutant: a message the worker refused is forgotten.
MovesAnyway(inline, encoded) ==
  /\ inline > 0 => outputPending = 0 /\ window = "open"
  /\ inline + encoded <= FlushBatch
  /\ outputPending + encoded <= OutputGate
  /\ LET kept == IF Len(worker) + encoded <= WorkerCapacity THEN encoded ELSE WorkerCapacity - Len(worker)
         works == [i \in 1 .. kept |-> [what |-> "Message", gen |-> generation,
                                           message |-> toWeb[inline + i]]]
     IN worker' = worker \o works
  /\ outputPending' = outputPending + encoded
  /\ toWeb' = SubSeq(toWeb, inline + encoded + 1, Len(toWeb))
  /\ pageGot' = pageGot \o SubSeq(toWeb, 1, inline)
  /\ messageBytes' = messageBytes - BytesIn(SubSeq(toWeb, 1, inline))
  /\ webMessages' = webMessages - inline
  /\ UNCHANGED <<closing, toHost, luaGot>>

\* One turn moves some messages inline while no output is pending, then some to the
\* worker while it and the gate admit them; the rest stay, first in line.
Moves(inline, encoded) ==
  /\ inline > 0 => outputPending = 0 /\ window = "open"
  /\ inline + encoded <= FlushBatch
  /\ outputPending + encoded <= OutputGate
  /\ Len(worker) + encoded <= WorkerCapacity
  /\ worker' = worker \o [i \in 1 .. encoded |-> [what |-> "Message", gen |-> generation,
                                                   message |-> toWeb[inline + i]]]
  /\ outputPending' = outputPending + encoded
  /\ toWeb' = SubSeq(toWeb, inline + encoded + 1, Len(toWeb))
  /\ pageGot' = pageGot \o SubSeq(toWeb, 1, inline)
  /\ messageBytes' = messageBytes - BytesIn(SubSeq(toWeb, 1, inline))
  /\ webMessages' = webMessages - inline
  /\ UNCHANGED <<closing, toHost, luaGot>>

\* flush_messages, when it moves anything. The inline way fails on a broken WebView.
Flush ==
  /\ ~inReceive /\ IsOpen /\ ready /\ subscribed
  /\ toWeb # <<>> /\ outputPending < OutputGate
  /\ \/ \E count \in 1 .. Len(toWeb) : \E inline \in 0 .. count : Moves(inline, count - inline)
     \/ outputPending = 0 /\ window = "broken" /\ Fails /\ UNCHANGED <<worker, outputPending>>
  /\ UNCHANGED <<page, window, requests, pass, numbers, results>>

----------------------------------------------------------------------------
(* The document and the window *)

Greet ==
  /\ ~ready /\ IsOpen /\ ready' = TRUE
  /\ UNCHANGED <<generation, subscribed, fate, queues, outputPending, worker, requests, pass,
                 numbers, got, results>>

\* The page listens for "message", or stops.
Subscribe ==
  /\ ready /\ IsOpen /\ subscribed' = ~subscribed
  /\ UNCHANGED <<generation, ready, fate, queues, outputPending, worker, requests, pass,
                 numbers, got, results>>

\* Mutant: output of the old document stays counted.
NavigateKeepsOutput ==
  /\ Alive /\ generation < MaxNavigations
  /\ generation' = generation + 1 /\ ready' = FALSE /\ subscribed' = FALSE
  /\ requests' = <<>>
  /\ Clear
  /\ UNCHANGED <<fate, outputPending, worker, pass, numbers, results>>

\* Runtime::navigate, also inside receive()'s pump.
Navigate ==
  /\ Alive /\ generation < MaxNavigations
  /\ generation' = generation + 1 /\ ready' = FALSE /\ subscribed' = FALSE
  /\ requests' = <<>> /\ outputPending' = 0
  /\ Clear
  /\ UNCHANGED <<fate, worker, pass, numbers, results>>

\* Runtime::close, or Runtime::fail for a reason outside this module.
Close ==
  /\ IsOpen /\ Fails
  /\ UNCHANGED <<page, window, outputPending, worker, requests, pass, numbers, results>>

Break ==
  /\ window = "open" /\ window' = "broken"
  /\ UNCHANGED <<page, closing, queues, outputPending, worker, requests, pass, numbers,
                 got, results>>

Vanish ==
  /\ Alive /\ window' = "gone"
  /\ UNCHANGED <<page, closing, queues, outputPending, worker, requests, pass, numbers,
                 got, results>>

\* tick() erases the session.
Teardown ==
  /\ ~inReceive /\ window # "erased" /\ ~IsOpen
  /\ window' = "erased" /\ Clear
  /\ UNCHANGED <<page, closing, outputPending, worker, requests, pass, numbers, results>>

Next ==
  \/ \E message \in Messages : Send(message) \/ PagePost(message)
  \/ Dispatch \/ ReceiveQueued \/ ReceivePump \/ ReceiveReturn
  \/ NewPass \/ Take \/ Flush
  \/ Greet \/ Subscribe \/ Navigate \/ Close \/ Break \/ Vanish \/ Teardown

Spec == Init /\ [][Next]_vars

\* Every pass of the timer takes from the worker and gives the window a message
\* turn, and receive() cannot pump twice without a pass in between.
Fairness == SF_vars(Take) /\ SF_vars(Flush) /\ WF_vars(ReceiveReturn)

FairSpec == Spec /\ Fairness

----------------------------------------------------------------------------
(* Properties *)

\* Messages of one document in the worker, in order.
MessagesIn(works, gen) ==
  LET upTo[i \in 0 .. Len(works)] ==
        IF i = 0 THEN <<>>
        ELSE IF works[i].what = "Message" /\ works[i].gen = gen THEN Append(upTo[i - 1], works[i].message)
        ELSE upTo[i - 1]
  IN upTo[Len(works)]

Encoding == MessagesIn(worker, generation)

\* While the window is open the two counters are what the limits mean: the bytes
\* and messages that are queued or still being encoded, of this document only.
CountersExact ==
  IsOpen =>
    /\ webMessages = Len(Encoding) + Len(toWeb)
    /\ messageBytes = BytesIn(Encoding) + BytesIn(toWeb) + BytesIn(toHost)

\* The variables have their types, the unsigned counters never pass below zero and
\* count what they should.
TypeOK ==
  /\ generation \in Documents /\ ready \in BOOLEAN /\ subscribed \in BOOLEAN
  /\ closing \in BOOLEAN /\ window \in {"open", "broken", "gone", "erased"}
  /\ toWeb \in Seq(Messages) /\ toHost \in Seq(Messages) /\ requests \in Seq(Messages)
  /\ messageBytes \in 0 .. ByteLimit /\ webMessages \in 0 .. QueueLimit
  /\ outputPending \in Nat /\ worker \in Seq(Work)
  /\ inReceive \in BOOLEAN /\ dispatched \in BOOLEAN
  /\ sent \in 0 .. MaxSends /\ posted \in 0 .. MaxPosts
  /\ pageGot \in Seq(Messages) /\ luaGot \in Seq(Messages)
  /\ lastSend \in {"none", "accepted", "full"} /\ lastPost \in {"none", "accepted", "full"}
  /\ CountersExact

\* The bridge is the bounded channel of the documentation: first in first out in
\* each direction, nothing lost, repeated or refused without reason, and nothing of
\* an old document handed over.
Channel ==
  INSTANCE HostChannel WITH
    open <- IsOpen,
    toPage <- IF IsOpen THEN Encoding \o toWeb ELSE <<>>,
    toLua <- toHost
ImplementsChannel == Channel!Spec

\* A message for a page that listens is handed over, or its document goes.
Queued(n) == \E i \in DOMAIN (Encoding \o toWeb) : (Encoding \o toWeb)[i].n = n
PageCatchesUp ==
  \A n \in 1 .. MaxSends :
    (Queued(n) /\ IsOpen /\ subscribed) ~> (~Queued(n) \/ ~IsOpen \/ ~subscribed)
=============================================================================
