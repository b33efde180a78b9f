------------------------------ MODULE Sublists ------------------------------
(* What is left of a list when a filter has gone over it.                  *)
EXTENDS Naturals, FiniteSets

\* The elements at some positions, in their order.
Kept(list, positions) ==
    [k \in 1..Cardinality(positions) |->
        list[CHOOSE n \in positions : Cardinality({ m \in positions : m <= n }) = k]]
=============================================================================
