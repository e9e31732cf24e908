---------------------------- MODULE SequenceFilter ----------------------------
(***************************************************************************)
(* The elements of a sequence that are in a set, in their order: what      *)
(* std::remove_if and the loops that keep some entries of a deque leave.   *)
(* It is a recursive function, about which the prover can reason, where    *)
(* SelectSeq takes an operator.                                            *)
(***************************************************************************)
EXTENDS Naturals, Sequences

Among(q, S) ==
  LET upTo[n \in 0 .. Len(q)] ==
        IF n = 0 THEN <<>>
        ELSE IF q[n] \in S THEN Append(upTo[n - 1], q[n]) ELSE upTo[n - 1]
  IN upTo[Len(q)]
=============================================================================
