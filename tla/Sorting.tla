------------------------------ MODULE Sorting -------------------------------
(***************************************************************************)
(* Python's sorted() and list.sort(), for orders that decide between any   *)
(* two.  A stable sort of a sequence sorts its positions.                  *)
(***************************************************************************)
EXTENDS Naturals, Sequences, FiniteSets

Sorted(set, Before(_, _)) ==
    [k \in 1..Cardinality(set) |->
        CHOOSE x \in set : Cardinality({y \in set : Before(y, x)}) = k - 1]

\* The members of a sequence at some positions, in some order.
At(seq, order) == [k \in DOMAIN order |-> seq[order[k]]]
\* A comprehension with a condition: only these positions, in their order.
Only(seq, positions) == At(seq, Sorted(positions, <))
=============================================================================
