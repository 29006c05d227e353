------------------------------ MODULE Selection -------------------------------
(***************************************************************************)
(* The list comprehension of the sources, [x for x in seq if ...], and the *)
(* WHERE of a query: SelectSeq, with the set of indices in the place of    *)
(* the test.                                                               *)
(***************************************************************************)
EXTENDS Integers, FiniteSets

\* The elements of seq at the indices, in their order.
Kept(seq, indices) ==
  [n \in 1 .. Cardinality(indices) |->
     seq[CHOOSE i \in indices : Cardinality({j \in indices : j < i}) = n - 1]]
=============================================================================
