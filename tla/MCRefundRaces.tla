--------------------------- MODULE MCRefundRaces ---------------------------
(* Refund in two settings: an order of three units paid partly in cash and  *)
(* partly online, with requests one at a time; and one of two units paid    *)
(* online, with requests that overlap, die half-way and lose the gateway's  *)
(* answer, and three rows between return requests and refunds.              *)
EXTENDS MCRefund

VARIABLE overlap

\* With overlap the order is DELIVERED and was paid online.
PaidOnline == 2 :> 2
Races == INSTANCE Refund WITH
  Payments <- {2}, Paid <- PaidOnline, Qty <- 2,
  Start <- {"DELIVERED"}, Reports <- {}, Failures <- TRUE

\* Without it a request goes on, or the gateway does, until the request is served.
Busy == {w \in Workers : req[w] # Idle}
OneAtATime ==
  \/ Busy = {} /\ Cardinality(Busy') <= 1
  \/ \E w \in Busy : req'[w] # req[w]
  \/ \E f \in Refunds, outcome \in {"refunded", "failed"} : GatewaySettles(f, outcome)

MCInit == overlap \in BOOLEAN /\ IF overlap THEN Races!Init ELSE Init
MCNext ==
  /\ UNCHANGED overlap
  /\ IF overlap THEN Races!Next /\ Cardinality((Filed \cup Created)') <= 3 ELSE Next /\ OneAtATime
MCSpec == MCInit /\ [][MCNext]_<<vars, overlap>>

\* Without overlap the books hold: REFUNDED is said of the order only when it
\* is of every payment, no more is refunded than was paid, a return is refunded
\* once, and no more is returned than was ordered.
BooksHoldAlone ==
  overlap \/ /\ RefundedMeansAllPayments
             /\ RefundedWithinPaid
             /\ OneRefundPerReturn
             /\ ReturnedWithinOrdered

\* Without overlap, a completed refund stays as it is.
CompletedOnceAlone ==
  [][~overlap => \A f \in Created :
       refunds[f].status = "COMPLETED" =>
         /\ refunds'[f] = refunds[f]
         /\ \A w \in Workers : req'[w] # [op |-> "finalize", refund |-> f]]_vars
=============================================================================
