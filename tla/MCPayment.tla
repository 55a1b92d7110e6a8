------------------------------ MODULE MCPayment ------------------------------
(* Values of the constants of Payment for TLC, and the two settings it is    *)
(* checked in: requests that overlap, and requests one at a time, for which  *)
(* more can be promised.                                                     *)
EXTENDS Payment, FiniteSets, TLC

VARIABLE overlap

MCInit == Init /\ overlap \in BOOLEAN
MCNext == Next /\ UNCHANGED overlap /\ (overlap \/ OneAtATime')
MCSpec == MCInit /\ [][MCNext]_<<vars, overlap>>

\* Requests are served by any worker.
Symmetry == Permutations(Workers)

\* One request at a time, an order that counts as paid has a payment to show,
\* and the remainder of an advance is collected once.
PaidOnceAlone == overlap \/ (PaidOrderHasPayment /\ RemainderOnce)
=============================================================================
