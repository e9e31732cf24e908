------------------------------ MODULE MC_Worker ------------------------------
(* Worker on a small instance: queues of two works and a few bytes. *)
EXTENDS Worker

MCInCost == [k \in SubmitKind |-> IF k \in {"Encode", "File"} THEN {2} ELSE {1}]

\* Parsing multiplies: a short text may become a request three times as dear.
MCOutCost ==
  [k \in FinishedKind |->
     CASE k = "Request" -> {1, 3} [] k = "Script" -> {2} [] k = "IconReady" -> {3} [] OTHER -> {1}]

\* What the limits of the code admit too: 64 MiB of short JSON values parse to a
\* request whose estimate (64 bytes a value) is above byte_limit.
MCJamCost == [MCOutCost EXCEPT !["Request"] = {1, ByteLimit + 1}]
=============================================================================
