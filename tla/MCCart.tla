------------------------------- MODULE MCCart -------------------------------
(* The two settings Cart is checked in by TLC: requests that overlap and may *)
(* be stopped half way, and requests served one at a time to their end, for  *)
(* which more can be promised.                                               *)
EXTENDS Cart, Turns

\* Where requests overlap, prices can only go up first, and what customers ask
\* for, what is given up and what changes are three in all.
MCCartInit ==
  /\ CartInit /\ overlap \in BOOLEAN
  /\ overlap => \A s \in ProductSizes, p \in Prices : price[s] <= p
MCCartNext ==
  /\ CartNext /\ UNCHANGED overlap
  /\ overlap => ops' + changes' <= 3
  /\ overlap \/ (InTurn' /\ ~\E w \in Workers : Abort(w))
MCCartSpec == MCCartInit /\ [][MCCartNext]_<<cartVars, overlap>> /\ CartFairness

\* One request at a time, the stored totals are right and a higher price is
\* shown before it is paid.
ShownIsPaidAlone == overlap \/ (TotalsMatch /\ PriceSeenBeforePaid)
=============================================================================
