----------------------------- MODULE Selections -----------------------------
(***************************************************************************)
(* What the comprehensions and loops over a list select, and sorted().     *)
(* Recursive functions and CHOOSE, which proofs can unfold.                *)
(***************************************************************************)
EXTENDS Integers, Sequences, FiniteSets

\* [x for x in q if x in S]
Only(q, S) ==
    LET kept[i \in 0..Len(q)] ==
          IF i = 0 THEN <<>>
          ELSE IF q[i] \in S THEN Append(kept[i - 1], q[i]) ELSE kept[i - 1]
    IN kept[Len(q)]

\* sorted(S)
Sorted(S) ==
    CHOOSE q \in [1..Cardinality(S) -> S] :
        \A i, j \in 1..Cardinality(S) : i < j => q[i] < q[j]
=============================================================================
