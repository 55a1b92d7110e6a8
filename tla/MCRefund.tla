------------------------------ MODULE MCRefund ------------------------------
(* Values of the constants of Refund for TLC. *)
EXTENDS Refund, TLC

\* An advance of 1 in cash, and 2 paid online later.
PaidTwice == (1 :> 1) @@ (2 :> 2)

\* All of 2 paid online.
PaidOnce == 1 :> 2

\* Return requests, refund rows and workers are interchangeable.
Symmetry == Permutations(Returns) \cup Permutations(Refunds) \cup Permutations(Workers)
=============================================================================
