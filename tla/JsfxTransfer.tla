----------------------------- MODULE JsfxTransfer -----------------------------
(***************************************************************************)
(* One JSFX resource transfer: the chunk protocol between the page's       *)
(* resource channel (runtime/jsfx-webui.mjs) and the transfer the          *)
(* application keeps (runtime/jsfx_transfer.cpp).  The page has one chunk  *)
(* pending; it sends the chunk again when three seconds pass or the        *)
(* connection breaks, at most three times, and may have to connect anew.   *)
(* A request of a broken connection may still be read, before or after     *)
(* the first requests of the next one.  Chunks are of one length; the      *)
(* transport that carries them is module StreamTransport.                  *)
(***************************************************************************)
EXTENDS Naturals, Sequences, FiniteSets, SequencesExt

CONSTANTS
  Source,       \* the bytes, chunk by chunk: what the page uploads, or the snapshot it downloads
  Attempts,     \* 3 in the code
  MaxReplies,   \* 2 replies wait for the socket; a third request ends the connection
  MaxBreaks,    \* bound: broken connections
  MaxExchanges  \* bound: exchange() calls of the page

VARIABLES
  upload,    \* the direction
  data,      \* upload: what has been appended
  last,      \* sequence and offset of the last chunk exchanged
  state,     \* open, sealed, closed or expired
  sequence,  \* the page's number for its pending or next chunk
  pending,   \* offset of the page's pending chunk, or NoOffset
  attempt, sent,
  up,        \* the connection is open
  requests, replies, strays,
  acked,     \* offset -> what the page holds as exchanged there
  breaks, exchanges

serverVars == <<data, last, state>>
pageVars == <<sequence, pending, attempt, sent, acked, exchanges>>
netVars == <<up, requests, replies, strays, breaks>>
transferVars == <<upload, serverVars, pageVars, netVars>>

total == Len(Source)
Nobody == [sequence |-> 0, offset |-> 0]
NoOffset == 100

Init ==
  /\ upload \in BOOLEAN
  /\ data = <<>> /\ last = Nobody /\ state = "open"
  /\ sequence = 1 /\ pending = NoOffset /\ attempt = 0 /\ sent = FALSE
  /\ up = FALSE /\ requests = <<>> /\ replies = <<>> /\ strays = {}
  /\ acked = <<>> /\ breaks = 0 /\ exchanges = 0

-----------------------------------------------------------------------------
(* The application: one exchange, under the transfer's mutex.              *)

Reply(m, code, value) == [sequence |-> m.sequence, offset |-> m.offset, code |-> code, value |-> value]
\* The chunk that was exchanged last, sent again: same place and, for an upload, same content.
Again(m) ==
  /\ m.sequence = last.sequence /\ m.offset = last.offset
  /\ upload => m.offset < Len(data) /\ m.value = data[m.offset + 1]
\* Mutant: only the number of a chunk is looked at, not its place.
ExpectedNumber(m) == m.sequence = last.sequence + 1
\* The chunk the transfer expects next.
Expected(m) == m.sequence = last.sequence + 1 /\ (upload => m.offset = Len(data))
Gone == state \in {"closed", "expired"}
Accepts(m) == ~Gone /\ m.offset < total /\ (upload => state # "sealed") /\ (Again(m) \/ Expected(m))
\* What an exchange makes of the transfer, and what it answers.
Exchange(m) ==
  IF Accepts(m)
  THEN /\ data' = IF upload /\ ~Again(m) THEN Append(data, m.value) ELSE data
       /\ last' = [sequence |-> m.sequence, offset |-> m.offset]
       /\ UNCHANGED state
  ELSE UNCHANGED serverVars
Answer(m) ==
  IF Accepts(m) THEN Reply(m, "ok", Source[m.offset + 1])
  ELSE Reply(m, IF Gone THEN "TRANSFER_NOT_FOUND" ELSE "INVALID_ARGUMENT", Source[1])

Break ==
  /\ up' = FALSE /\ requests' = <<>> /\ replies' = <<>> /\ breaks' = breaks + 1
\* A request of the open connection; two replies may wait, a third request ends the connection.
Serve ==
  /\ up /\ requests # <<>>
  /\ IF Len(replies) >= MaxReplies
     THEN Break /\ sent' = FALSE /\ UNCHANGED <<serverVars, strays>>
     ELSE /\ Exchange(Head(requests))
          /\ replies' = Append(replies, Answer(Head(requests)))
          /\ requests' = Tail(requests)
          /\ UNCHANGED <<up, strays, breaks, sent>>
  /\ UNCHANGED <<upload, sequence, pending, attempt, acked, exchanges>>
\* A request read from a connection the page has given up: its answer reaches nobody.
ServeStray ==
  /\ \E m \in strays : Exchange(m) /\ strays' = strays \ {m}
  /\ UNCHANGED <<upload, pageVars, up, requests, replies, breaks>>
\* seal(): the upload is complete and its checksum is the one the page computed.
Digest(bytes) == bytes
Seal ==
  /\ upload /\ state = "open" /\ Len(data) = total
  /\ \A i \in 1..total : i - 1 \in DOMAIN acked
  /\ Digest(data) = Digest(Source)
  /\ state' = "sealed"
  /\ UNCHANGED <<upload, data, last, pageVars, netVars>>
\* The document is unloaded or the transfer aborted, or thirty seconds pass untouched.
End(how) ==
  /\ ~Gone /\ how \in {"closed", "expired"} /\ state' = how
  /\ UNCHANGED <<upload, data, last, pageVars, netVars>>

-----------------------------------------------------------------------------
(* The page: exchange(), one at a time.                                    *)

Request(offset) == [sequence |-> sequence, offset |-> offset, value |-> Source[offset + 1]]
Begin(offset) ==
  /\ pending = NoOffset /\ exchanges < MaxExchanges
  /\ pending' = offset /\ attempt' = 0 /\ sent' = FALSE /\ exchanges' = exchanges + 1
  /\ UNCHANGED <<upload, serverVars, sequence, acked, netVars>>
\* A connection with a renewed ticket; the transfer must still exist.
Connect ==
  /\ pending # NoOffset /\ ~up /\ ~Gone
  /\ up' = TRUE
  /\ UNCHANGED <<upload, serverVars, pageVars, requests, replies, strays, breaks>>
Send ==
  /\ pending # NoOffset /\ up /\ ~sent
  /\ sent' = TRUE /\ requests' = Append(requests, Request(pending))
  /\ UNCHANGED <<upload, serverVars, sequence, pending, attempt, acked, exchanges, up, replies, strays, breaks>>
\* An attempt fails: the next one follows, or the call fails and leaves the number as it is.
Failed ==
  /\ sent' = FALSE
  /\ IF attempt + 1 < Attempts THEN attempt' = attempt + 1 /\ UNCHANGED pending
     ELSE attempt' = 0 /\ pending' = NoOffset
\* No acknowledgement in three seconds, or no connection in five; an open socket stays open.
Timeout ==
  /\ pending # NoOffset /\ Failed
  /\ UNCHANGED <<upload, serverVars, sequence, acked, exchanges, netVars>>
\* The connection breaks; what it carried to the application may still be read there.
Lose ==
  /\ up /\ breaks < MaxBreaks /\ Break
  /\ strays' = strays \cup Range(requests)
  /\ IF pending # NoOffset /\ sent THEN Failed ELSE UNCHANGED <<attempt, pending, sent>>
  /\ UNCHANGED <<upload, serverVars, sequence, acked, exchanges>>
\* A reply: late ones are dropped, an error ends the call, an acknowledgement completes it.
\* A mismatch of the sequence or the offset is an error of its own.
Late(r) == pending = NoOffset \/ ~sent \/ r.sequence < sequence
Matches(r) == r.sequence = sequence /\ r.offset = pending
Receive ==
  /\ up /\ replies # <<>> /\ replies' = Tail(replies)
  /\ LET r == Head(replies) IN
     CASE Late(r) -> UNCHANGED <<sequence, pending, sent, acked>>
       [] ~Late(r) /\ Matches(r) /\ r.code = "ok" ->
            /\ sequence' = sequence + 1 /\ pending' = NoOffset /\ sent' = FALSE
            /\ acked' = [o \in DOMAIN acked \cup {pending} |-> IF o = pending THEN r.value ELSE acked[o]]
       [] OTHER -> pending' = NoOffset /\ sent' = FALSE /\ UNCHANGED <<sequence, acked>>
  /\ UNCHANGED <<upload, serverVars, attempt, exchanges, up, requests, strays, breaks>>

Page == (\E o \in 0..(total - 1) : Begin(o)) \/ Connect \/ Send \/ Timeout \/ Receive
Next == Page \/ Serve \/ ServeStray \/ Seal \/ Lose \/ (\E how \in {"closed", "expired"} : End(how))
Spec == Init /\ [][Next]_transferVars

-----------------------------------------------------------------------------
\* Every chunk is taken once, at its place, however often it was sent and over however many
\* connections; and what the page holds as exchanged is so: an acknowledged chunk has been
\* appended, a downloaded one is the snapshot's at the offset the page asked for.
ChunksInPlace ==
  /\ upload => IsPrefix(data, Source)
  /\ \A o \in DOMAIN acked : acked[o] = Source[o + 1] /\ (upload => o < Len(data))

\* The values the variables take: the records, counters and queues stay within the bounds of the code.
Offsets == 0 .. total - 1
Requested == [sequence : 1 .. MaxExchanges, offset : Offsets, value : Range(Source)]
TypeOK ==
  /\ upload \in BOOLEAN /\ sent \in BOOLEAN /\ up \in BOOLEAN
  /\ Len(data) <= total /\ last.sequence \in 0 .. MaxExchanges /\ last.offset \in Offsets \union {0}
  /\ state \in {"open", "sealed", "closed", "expired"}
  /\ sequence \in 1 .. MaxExchanges + 1 /\ sequence - 1 <= exchanges /\ exchanges \in 0 .. MaxExchanges
  /\ pending \in Offsets \union {NoOffset} /\ attempt \in 0 .. Attempts - 1
  /\ requests \in Seq(Requested) /\ strays \subseteq Requested /\ Len(replies) <= MaxReplies
  /\ \A i \in DOMAIN replies : replies[i].offset \in Offsets /\ replies[i].sequence \in 1 .. MaxExchanges
  /\ DOMAIN acked \subseteq Offsets
=============================================================================
