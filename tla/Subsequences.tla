----------------------------- MODULE Subsequences -----------------------------
(***************************************************************************)
(* Queues from which entries are dropped.  SelectSeq takes an operator,    *)
(* of which nothing can be proved here; a set of entries to keep does as   *)
(* well.                                                                   *)
(***************************************************************************)
EXTENDS Naturals, Sequences

\* The entries of s that are in S, in their order.
Kept(s, S) ==
    LET kept[i \in 0..Len(s)] ==
            IF i = 0 THEN <<>>
            ELSE IF s[i] \in S THEN Append(kept[i - 1], s[i]) ELSE kept[i - 1]
    IN kept[Len(s)]
===============================================================================
