----------------------------- MODULE HandleTable -----------------------------
(***************************************************************************)
(* The handle tables of the documents and external clients (NativeContext  *)
(* in core/native.cpp) over the objects of REAPER.                         *)
(*                                                                         *)
(* A document never sees a pointer: it gets a token, which its own table   *)
(* maps back.  REAPER frees objects whenever the user deletes them and     *)
(* gives their addresses to others.  Takes are recognised by their GUID;   *)
(* PCM sources and audio accessors have none.  A document owns the sources *)
(* and accessors it creates until it destroys them or gives them to a      *)
(* take; what it still owns is destroyed when it goes.  Everything runs on *)
(* the main thread.  Projects and the other kinds of object are left out.  *)
(***************************************************************************)
EXTENDS Naturals, Sequences, FiniteSets, SequenceFilter

CONSTANTS
  Contexts,    \* documents and external clients, one table each
  Addresses,   \* memory REAPER allocates from
  Nothing,     \* no object, a null pointer
  MaxObjects,  \* bound on the objects ever allocated: the identity of an object is its number
  MaxTokens,   \* bound on the tokens issued by one table
  MaxResets,   \* bound on the documents that go
  PruneStep    \* handles looked at when one is issued (8)

VARIABLES
  heap,      \* what lives at each address; a take also names the address of its source
  allocated, \* objects allocated so far
  handles,   \* handles and reverse of each table
  scan,      \* scan: tokens in the order they are looked at again
  tokens,    \* sequence: tokens issued
  resets     \* documents that went

vars == <<heap, allocated, handles, scan, tokens, resets>>

Types == {"take", "source", "accessor"}
Free == [id |-> 0, type |-> "none", source |-> Nothing]

Init ==
  /\ heap = [a \in Addresses |-> Free] /\ allocated = 0
  /\ handles = [c \in Contexts |-> {}] /\ scan = [c \in Contexts |-> <<>>]
  /\ tokens = [c \in Contexts |-> 0] /\ resets = 0

\* A source is part of the project while a take uses it.
Attached(h, a) == \E t \in Addresses : h[t].type = "take" /\ h[t].source = a

-----------------------------------------------------------------------------
(* REAPER. *)

\* The user adds a take with a source of its own.
AddTake ==
  /\ allocated + 2 <= MaxObjects /\ allocated' = allocated + 2
  /\ \E a, b \in Addresses :
       /\ a # b /\ heap[a] = Free /\ heap[b] = Free
       /\ heap' = [heap EXCEPT ![a] = [id |-> allocated + 1, type |-> "take", source |-> b],
                               ![b] = [id |-> allocated + 2, type |-> "source", source |-> Nothing]]
  /\ UNCHANGED <<handles, scan, tokens, resets>>

\* The user deletes a take, and its source with it.
DeleteTake ==
  /\ \E a \in Addresses :
       /\ heap[a].type = "take"
       /\ heap' = [b \in Addresses |-> IF b \in {a, heap[a].source} THEN Free ELSE heap[b]]
  /\ UNCHANGED <<allocated, handles, scan, tokens, resets>>

-----------------------------------------------------------------------------
(* The table of one document, as a set of handles. *)

At(t, a) == {h \in t : h.at = a}
Named(t, n) == {h \in t : h.token = n}

\* identity(): the GUID of a take, nothing for the others.
Identity(a) == IF heap[a].type = "take" THEN heap[a].id ELSE 0

\* pointer(): the checks before a handle is used.
Valid(h) ==
  \/ h.type = "accessor"
  \/ h.type = "source" /\ h.owned
  \/ h.type = "source" /\ heap[h.at].type = "source" /\ Attached(heap, h.at)
  \/ h.type = "take" /\ heap[h.at].type = "take" /\ Identity(h.at) = h.identity

Steps(c) == IF Len(scan[c]) < PruneStep THEN Len(scan[c]) ELSE PruneStep
\* The tokens looked at again, what is left of a table and of the line of its tokens.
Looked(c) == {scan[c][i] : i \in 1 .. Steps(c)}
Pruned(c, t) == {h \in t : h.token \notin Looked(c) \/ Valid(h)}
Turned(c, t) ==
  SubSeq(scan[c], Steps(c) + 1, Len(scan[c]))
    \o Among(SubSeq(scan[c], 1, Steps(c)), {h.token : h \in t})

\* handle(): an entry of the same type and identity is used again, any other one at the
\* address goes; a new handle makes the table look at some of its others.
Issued(c, a, type, identity, owned) ==
  LET t == handles[c]
      kept == Pruned(c, t \ At(t, a))
      token == tokens[c] + 1
  IN IF \E h \in At(t, a) : h.type = type /\ h.identity = identity
     THEN [table |-> t, scan |-> scan[c], tokens |-> tokens[c]]
     ELSE [table |-> kept \union {[token |-> token, at |-> a, type |-> type, identity |-> identity, owned |-> owned]},
           scan |-> Append(Turned(c, kept), token), tokens |-> token]

Becomes(c, new) ==
  /\ new.tokens <= MaxTokens
  /\ handles' = [handles EXCEPT ![c] = new.table]
  /\ scan' = [scan EXCEPT ![c] = new.scan] /\ tokens' = [tokens EXCEPT ![c] = new.tokens]

\* Mutant: a source stays the document's when a take gets it.
TransferKeeps(t, a, owned) == {IF h.at = a /\ owned THEN [h EXCEPT !.owned = TRUE] ELSE h : h \in t}

\* transfer(): the document owns what is at address a, or does not any more.
Transfer(t, a, owned) == {IF h.at = a THEN [h EXCEPT !.owned = owned] ELSE h : h \in t}

\* invalidate()
Invalidate(t, a) == t \ At(t, a)

-----------------------------------------------------------------------------
(* Calls. *)

\* A call that returns a take, or the source of a take.
Export(c) ==
  /\ \E a \in Addresses :
       /\ heap[a].type = "take" \/ (heap[a].type = "source" /\ Attached(heap, a))
       /\ Becomes(c, Issued(c, a, heap[a].type, Identity(a), FALSE))
  /\ UNCHANGED <<heap, allocated, resets>>

\* PCM_Source_Create... and Create...AudioAccessor: the document owns what it made.
Create(c) ==
  /\ allocated < MaxObjects /\ allocated' = allocated + 1
  /\ \E a \in Addresses, t \in {"source", "accessor"} :
       /\ heap[a] = Free /\ heap' = [heap EXCEPT ![a] = [id |-> allocated', type |-> t, source |-> Nothing]]
       /\ Becomes(c, Issued(c, a, t, 0, TRUE))
  /\ UNCHANGED resets

\* A call with a handle whose object has gone fails and drops the handle.
Fail(c) ==
  /\ \E h \in handles[c] : ~Valid(h) /\ handles' = [handles EXCEPT ![c] = @ \ {h}]
  /\ UNCHANGED <<heap, allocated, scan, tokens, resets>>

\* PCM_Source_Destroy and DestroyAudioAccessor: a source that is not owned is refused.
Destroy(c) ==
  /\ \E h \in handles[c] :
       /\ Valid(h) /\ h.type # "take" /\ h.owned
       /\ heap' = [heap EXCEPT ![h.at] = Free]
       /\ handles' = [handles EXCEPT ![c] = Invalidate(@, h.at)]
  /\ UNCHANGED <<allocated, scan, tokens, resets>>

\* SetMediaItemTake_Source: the take owns the new source, the document the old one.  The
\* new one is the document's own, or the one the take has already.
SetSource(c) ==
  /\ \E take, source \in handles[c] :
       /\ take.type = "take" /\ source.type = "source" /\ Valid(take) /\ Valid(source)
       /\ heap[source.at].type = "source"
       /\ LET old == heap[take.at].source
              new == Issued(c, old, "source", 0, TRUE)
          IN /\ source.owned /\ old # source.at
             /\ heap' = [heap EXCEPT ![take.at].source = source.at]
             /\ Becomes(c, [new EXCEPT !.table = Transfer(Transfer(@, old, TRUE), source.at, FALSE)])
  /\ UNCHANGED <<allocated, resets>>

\* reset(): the document goes, the project is loaded again or the client leaves.
Reset(c) ==
  /\ resets < MaxResets /\ resets' = resets + 1
  /\ LET owned == {h.at : h \in {x \in handles[c] : x.owned}}
     IN heap' = [a \in Addresses |-> IF a \in owned THEN Free ELSE heap[a]]
  /\ handles' = [handles EXCEPT ![c] = {}] /\ scan' = [scan EXCEPT ![c] = <<>>]
  /\ UNCHANGED <<allocated, tokens>>

Next ==
  \/ AddTake \/ DeleteTake
  \/ \E c \in Contexts : Export(c) \/ Create(c) \/ Fail(c) \/ Destroy(c) \/ SetSource(c) \/ Reset(c)

Spec == Init /\ [][Next]_vars

-----------------------------------------------------------------------------
(* Properties. *)

Owners(a) == UNION {{<<c, h.token>> : h \in {x \in At(handles[c], a) : x.owned}} : c \in Contexts}

\* What a document would destroy is there, is not used by a take and is nobody else's: no
\* source or accessor is destroyed twice or under a take, whatever order documents create,
\* give away, replace and destroy them in while REAPER frees and reuses memory.
OwnersReal ==
  \A c \in Contexts : \A h \in handles[c] :
    h.owned => /\ heap[h.at].type = h.type /\ ~Attached(heap, h.at)
               /\ Cardinality(Owners(h.at)) = 1

Handle == [token : 1 .. MaxTokens, at : Addresses, type : Types, identity : 0 .. MaxObjects, owned : BOOLEAN]
\* The values the variables take: the records, counters and queues stay within the bounds of the code.
TypeOK ==
  /\ heap \in [Addresses -> [id : 0 .. MaxObjects, type : Types \union {"none"}, source : Addresses \union {Nothing}]]
  /\ allocated \in 0 .. MaxObjects /\ resets \in 0 .. MaxResets
  /\ tokens \in [Contexts -> 0 .. MaxTokens]
  /\ handles \in [Contexts -> SUBSET Handle] /\ scan \in [Contexts -> Seq(1 .. MaxTokens)]
  /\ \A c \in Contexts :
       /\ \A i \in DOMAIN scan[c] : scan[c][i] <= tokens[c]
       /\ \A h \in handles[c] : h.token <= tokens[c]
=============================================================================
