---------------------------- MODULE MCFulfilment ----------------------------
(* Values of the constants of Fulfilment for TLC. *)
EXTENDS Fulfilment, TLC

\* Every order asks for one unit.
OneEach == [o \in Orders |-> 1]

\* Pieces and workers are interchangeable.
Symmetry == Permutations(Pieces) \cup Permutations(Workers)
SymmetryOrders == Permutations(Pieces) \cup Permutations(Orders) \cup Permutations(Workers)
=============================================================================
