------------------------------- MODULE Orders -------------------------------
(***************************************************************************)
(* A finite set of numbers in ascending order: SetToSortSeq of the          *)
(* community modules, but defined so that it can be reasoned about.         *)
(***************************************************************************)
EXTENDS Integers, FiniteSets

InOrder(S) ==
    [k \in 1 .. Cardinality(S) |-> CHOOSE n \in S : Cardinality({m \in S : m <= n}) = k]
\* The elements of a sequence at the given indices, in their order.
Selected(s, is) == [j \in 1 .. Cardinality(is) |-> s[InOrder(is)[j]]]
=============================================================================
