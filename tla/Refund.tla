------------------------------- MODULE Refund -------------------------------
(***************************************************************************)
(* Return requests and refunds of one paid order (src/refund).  The order  *)
(* has one line, for Qty units of a variant without barcodes.              *)
(*                                                                         *)
(* Every handler reads, decides, and acts in a later statement or          *)
(* transaction; req[w] holds the locals of the request worker w is         *)
(* serving between the two.                                                *)
(***************************************************************************)
EXTENDS Statuses, Functions

CONSTANTS
  Payments,     \* paid payments of the order, a later one being greater
  Paid,         \* Paid[p]: Payment.paidAmount
  Online,       \* the payments the gateway can refund
  Amounts,      \* amounts a refund may have
  Qty,          \* units the customer ordered
  Returns,      \* return requests that may ever be filed
  Refunds,      \* PaymentRefund rows that may ever be created
  Start,        \* statuses of the order to begin with
  Reports,      \* order statuses the courier may still report
  Workers,      \* requests the server can be serving at once
  Failures,     \* requests may die between two steps, and answers be lost
  None          \* no row, no return request

\* RETURNABLE_ORDER_STATUSES, and the statuses that allow a direct refund.
Returnable == {"DELIVERED", "PARTIALLY_DELIVERED"}
DirectRefundEligible == {"CANCELLED", "FAILED"}

\* enum ReturnRequestStatus; the requests that block another one, and those
\* whose units count as returned (ACTIVE_RETURN_STATUSES).
ReturnStatus == {"PENDING", "APPROVED", "REJECTED", "ITEM_RECEIVED", "REFUNDED", "CANCELLED"}
Blocking == {"PENDING", "APPROVED", "ITEM_RECEIVED"}
ActiveReturn == Blocking \cup {"REFUNDED"}

\* enum RefundStatus.
RefundStatus == {"PENDING", "PROCESSING", "COMPLETED", "FAILED"}

ReturnRow == [qty : 1 .. Qty, status : ReturnStatus, prev : Returnable]
\* ref: the gateway gave the refund a reference.
RefundRow == [payment : Payments, amount : Amounts, ret : Returns \cup {None},
              status : RefundStatus, ref : BOOLEAN]

ASSUME RefundAssumption ==
  /\ Payments \subseteq Nat
  /\ Paid \in [Payments -> Nat]
  /\ Online \subseteq Payments
  /\ Amounts \subseteq Nat \ {0}
  /\ \A p \in Payments : 1 .. Paid[p] \subseteq Amounts
  /\ Qty \in Nat \ {0}
  /\ Start \subseteq {"CONFIRMED"} \cup Returnable \cup DirectRefundEligible
  /\ Reports \subseteq OrderStatus \ {"RETURN_REQUESTED"}
  /\ Failures \in BOOLEAN
  /\ IsFiniteSet(Returns) /\ IsFiniteSet(Refunds)
  /\ None \notin Returns \cup ReturnRow \cup RefundRow
  /\ None \notin {"processing", "refunded", "failed"}

VARIABLES
  status,           \* Order.status
  stockRestored,    \* Order.stockRestored
  orderPaid,        \* Order.paymentStatus
  givenBack,        \* units of the order put back on sale (history)
  pay,              \* Payment.status
  returns,          \* the ReturnRequest table
  refunds,          \* the PaymentRefund table
  gateway,          \* what the gateway makes of each refund it accepted
  req               \* the request each worker is in the middle of

orderVars == <<status, stockRestored, orderPaid, givenBack>>
vars == <<status, stockRestored, orderPaid, givenBack, pay, returns, refunds, gateway, req>>

PaidStatus == {"PAID", "PARTIALLY_REFUNDED", "REFUNDED"}

\* A refund that is to be made: of which payment, how much.
Task == [payment : Payments, amount : Amounts]
Idle == [op |-> "idle"]
\* What the gateway says when it is asked: the refund is under way, the refund
\* is refused and has a reference, or no usable answer comes.
Answer == {"processing", "refused", "error"}
Request ==
  {Idle, [op |-> "refundAll"]}
  \cup [op : {"file"}, qty : 1 .. Qty, prev : Returnable]
  \cup [op : {"decide"}, ret : Returns, to : {"CANCELLED", "APPROVED", "REJECTED"}]
  \cup [op : {"receive"}, ret : Returns]
  \cup [op : {"courier"}, to : Reports, restore : BOOLEAN]
  \cup [op : {"refund"}, todo : SUBSET Task, ret : Returns \cup {None}]
  \cup [op : {"kick"}, refund : Refunds, todo : SUBSET Task]
  \cup [op : {"answer"}, refund : Refunds, answer : Answer, todo : SUBSET Task]
  \cup [op : {"finalize", "fail"}, refund : Refunds]
  \cup [op : {"lockPayment"}, refund : Refunds, pay : PaidStatus]
  \cup [op : {"commit"}, refund : Refunds, pay : PaidStatus, paid : PaidStatus,
         restore : BOOLEAN]

TypeOK ==
  /\ status \in OrderStatus
  /\ stockRestored \in BOOLEAN
  /\ orderPaid \in PaidStatus
  /\ givenBack \in Nat
  /\ pay \in [Payments -> PaidStatus]
  /\ returns \in [Returns -> ReturnRow \cup {None}]
  /\ refunds \in [Refunds -> RefundRow \cup {None}]
  /\ gateway \in [Refunds -> {None, "processing", "refunded", "failed"}]
  /\ req \in [Workers -> Request]

Init ==
  /\ status \in Start
  /\ stockRestored = (status \in StockRestoreStatuses)
  /\ orderPaid = "PAID"
  /\ givenBack = IF status \in StockRestoreStatuses THEN Qty ELSE 0
  /\ pay = [p \in Payments |-> "PAID"]
  /\ returns = [r \in Returns |-> None]
  /\ refunds = [f \in Refunds |-> None]
  /\ gateway = [f \in Refunds |-> None]
  /\ req = [w \in Workers |-> Idle]

Goto(w, local) == req' = [req EXCEPT ![w] = local]
Filed == {r \in Returns : returns[r] # None}
Created == {f \in Refunds : refunds[f] # None}
UnitsIn(statuses) ==
  SumFunctionOnSet([r \in Filed |-> returns[r].qty],
                   {r \in Filed : returns[r].status \in statuses})

-----------------------------------------------------------------------------
(* Return requests.                                                         *)

\* Units of the line that earlier return requests account for.
ReturnedUnits == UnitsIn(ActiveReturn)

\* createReturnRequest, before its transaction.
FileRead(w, qty) ==
  /\ req[w] = Idle
  /\ status \in Returnable
  /\ \A r \in Filed : returns[r].status \notin Blocking
  /\ ReturnedUnits + qty <= Qty
  /\ Goto(w, [op |-> "file", qty |-> qty, prev |-> status])
  /\ UNCHANGED <<orderVars, pay, returns, refunds, gateway>>

FileCommit(w, r) ==
  /\ req[w].op = "file"
  /\ returns[r] = None
  /\ returns' = [returns EXCEPT ![r] =
                   [qty |-> req[w].qty, status |-> "PENDING", prev |-> req[w].prev]]
  /\ status' = "RETURN_REQUESTED"
  /\ Goto(w, Idle)
  /\ UNCHANGED <<stockRestored, orderPaid, givenBack, pay, refunds, gateway>>

\* cancelReturnRequest by the customer and reviewReturnRequest by an admin both
\* look at the request first ...
CancelReturnRead(w, r) ==
  /\ req[w] = Idle
  /\ r \in Filed /\ returns[r].status = "PENDING"
  /\ Goto(w, [op |-> "decide", ret |-> r, to |-> "CANCELLED"])
  /\ UNCHANGED <<orderVars, pay, returns, refunds, gateway>>

ReviewRead(w, r, decision) ==
  /\ req[w] = Idle
  /\ r \in Filed /\ returns[r].status = "PENDING"
  /\ Goto(w, [op |-> "decide", ret |-> r, to |-> decision])
  /\ UNCHANGED <<orderVars, pay, returns, refunds, gateway>>

\* Fault variant: the order is not put back where it was.
DecideCommit_LeavesOrder(w) ==
  /\ req[w].op = "decide"
  /\ returns' = [returns EXCEPT ![req[w].ret] = [@ EXCEPT !.status = req[w].to]]
  /\ Goto(w, Idle)
  /\ UNCHANGED <<orderVars, pay, refunds, gateway>>

\* ... and then write without looking again: unless it is approved, the order
\* goes back to the status it had.
DecideCommit(w) ==
  /\ req[w].op = "decide"
  /\ returns' = [returns EXCEPT ![req[w].ret] = [@ EXCEPT !.status = req[w].to]]
  /\ status' = IF req[w].to = "APPROVED" THEN status ELSE returns[req[w].ret].prev
  /\ Goto(w, Idle)
  /\ UNCHANGED <<stockRestored, orderPaid, givenBack, pay, refunds, gateway>>

\* receiveReturnItems: the units go back on sale, and an order whose units have
\* all come back is RETURNED.
ReceiveRead(w, r) ==
  /\ req[w] = Idle
  /\ r \in Filed /\ returns[r].status = "APPROVED"
  /\ Goto(w, [op |-> "receive", ret |-> r])
  /\ UNCHANGED <<orderVars, pay, returns, refunds, gateway>>

ReceiveCommit(w) ==
  /\ req[w].op = "receive"
  /\ LET r == req[w].ret
         back == UnitsIn({"ITEM_RECEIVED", "REFUNDED"})
         full == back + (IF returns[r].status \in {"ITEM_RECEIVED", "REFUNDED"}
                         THEN 0 ELSE returns[r].qty) >= Qty
     IN /\ givenBack' = givenBack + returns[r].qty
        /\ returns' = [returns EXCEPT ![r] = [@ EXCEPT !.status = "ITEM_RECEIVED"]]
        /\ status' = IF full THEN "RETURNED" ELSE status
        /\ stockRestored' = (stockRestored \/ full)
  /\ Goto(w, Idle)
  /\ UNCHANGED <<orderPaid, pay, refunds, gateway>>

\* The courier reports: applyStatusChange, as a sync that only moves up in
\* ORDER_RANK calls it.
CourierRead(w, to) ==
  /\ req[w] = Idle
  /\ OrderRank[to] > OrderRank[status]
  /\ Goto(w, [op |-> "courier", to |-> to,
              restore |-> /\ to \in StockRestoreStatuses
                          /\ status \notin StockRestoreStatuses /\ ~stockRestored])
  /\ UNCHANGED <<orderVars, pay, returns, refunds, gateway>>

CourierCommit(w) ==
  /\ req[w].op = "courier"
  /\ status' = req[w].to
  /\ stockRestored' = (stockRestored \/ req[w].restore)
  /\ givenBack' = IF req[w].restore THEN givenBack + Qty ELSE givenBack
  /\ Goto(w, Idle)
  /\ UNCHANGED <<orderPaid, pay, returns, refunds, gateway>>

-----------------------------------------------------------------------------
(* Starting a refund.                                                       *)

\* finalizeRefundCompletion is not holding the refund's row.
RowFree(f) ==
  \A v \in Workers : req[v].op \in {"lockPayment", "commit"} => req[v].refund # f

AmountOf == [f \in Created |-> refunds[f].amount]

\* What remainingRefundableBalance takes off the payment: PENDING rows do not
\* count.
Refunded(p) ==
  SumFunctionOnSet(AmountOf,
    {f \in Created : /\ refunds[f].payment = p
                     /\ refunds[f].status \in {"PROCESSING", "COMPLETED"}})
Remaining(p) == Paid[p] - Refunded(p)

\* findRefundablePayments, the most recently completed one first.
Refundable ==
  {p \in Payments : pay[p] \in {"PAID", "PARTIALLY_REFUNDED"} /\ Remaining(p) > 0}
Best(p) == p \in Refundable /\ \A q \in Refundable : q <= p

\* Go on with the refunds that are still to be made.
Refunding(todo, ret) ==
  IF todo = {} THEN Idle ELSE [op |-> "refund", todo |-> todo, ret |-> ret]

\* Fault variant: a refund that is under way may be repeated.
HasRefund_Completed(r) ==
  \E f \in Created : refunds[f].ret = r /\ refunds[f].status = "COMPLETED"

\* A refund of the return request that did not fail.
HasRefund(r) == \E f \in Created : refunds[f].ret = r /\ refunds[f].status # "FAILED"

\* processReturnRefund, for an amount of up to what remains of one payment.
ReturnRefundRead(w, r, p, amount) ==
  /\ req[w] = Idle
  /\ r \in Filed /\ returns[r].status = "ITEM_RECEIVED"
  /\ ~HasRefund(r)
  /\ Best(p) /\ amount <= Remaining(p)
  /\ Goto(w, Refunding({[payment |-> p, amount |-> amount]}, r))
  /\ UNCHANGED <<orderVars, pay, returns, refunds, gateway>>

\* processDirectRefund, without a return request.
DirectRefundRead(w, p, amount) ==
  /\ req[w] = Idle
  /\ status \in DirectRefundEligible
  /\ Best(p) /\ amount <= Remaining(p)
  /\ Goto(w, Refunding({[payment |-> p, amount |-> amount]}, None))
  /\ UNCHANGED <<orderVars, pay, returns, refunds, gateway>>

\* OrderService.cancelOrder commits, and then refunds all that was paid.
CancelOrder(w) ==
  /\ req[w] = Idle
  /\ status = "CONFIRMED"
  /\ status' = "CANCELLED"
  /\ stockRestored' = TRUE
  /\ givenBack' = givenBack + Qty
  /\ Goto(w, [op |-> "refundAll"])
  /\ UNCHANGED <<orderPaid, pay, returns, refunds, gateway>>

RefundAllRead(w) ==
  /\ req[w].op = "refundAll"
  /\ Goto(w, Refunding({t \in Task : t.payment \in Refundable
                                       /\ t.amount = Remaining(t.payment)}, None))
  /\ UNCHANGED <<orderVars, pay, returns, refunds, gateway>>

\* createPendingRefund, for the most recent payment first.
CreateRefund(w, f) ==
  /\ req[w].op = "refund"
  /\ refunds[f] = None
  /\ \E t \in req[w].todo :
       /\ \A u \in req[w].todo : u.payment <= t.payment
       /\ refunds' = [refunds EXCEPT ![f] =
                        [payment |-> t.payment, amount |-> t.amount, ret |-> req[w].ret,
                         status |-> "PENDING", ref |-> FALSE]]
       /\ Goto(w, [op |-> "kick", refund |-> f, todo |-> req[w].todo \ {t}])
  /\ UNCHANGED <<orderVars, pay, returns, gateway>>

\* kickOffRefund: a manual refund waits for an admin.
KickManual(w) ==
  /\ req[w].op = "kick" /\ RowFree(req[w].refund)
  /\ LET f == req[w].refund
     IN /\ refunds[f].payment \notin Online
        /\ refunds' = [refunds EXCEPT ![f] = [@ EXCEPT !.status = "PROCESSING"]]
  /\ Goto(w, Refunding(req[w].todo, None))
  /\ UNCHANGED <<orderVars, pay, returns, gateway>>

\* The gateway is asked; when its answer is an error or an unreadable page, it
\* may have accepted the refund all the same ...
KickGateway(w, answer) ==
  /\ req[w].op = "kick"
  /\ LET f == req[w].refund
     IN /\ refunds[f].payment \in Online
        /\ \/ answer = "processing" /\ gateway' = [gateway EXCEPT ![f] = "processing"]
           \/ answer = "refused" /\ gateway' = [gateway EXCEPT ![f] = "failed"]
           \/ answer = "error" /\ UNCHANGED gateway
           \/ /\ answer = "error" /\ Failures
              /\ gateway' = [gateway EXCEPT ![f] = "processing"]
        /\ Goto(w, [op |-> "answer", refund |-> f, answer |-> answer, todo |-> req[w].todo])
  /\ UNCHANGED <<orderVars, pay, returns, refunds>>

\* ... and its answer is recorded.
KickAnswer(w) ==
  /\ req[w].op = "answer" /\ RowFree(req[w].refund)
  /\ refunds' = [refunds EXCEPT ![req[w].refund] =
                   [@ EXCEPT !.status = IF req[w].answer = "processing"
                                        THEN "PROCESSING" ELSE "FAILED",
                             !.ref = req[w].answer # "error"]]
  /\ Goto(w, Refunding(req[w].todo, None))
  /\ UNCHANGED <<orderVars, pay, returns, gateway>>

\* Sooner or later the gateway makes the refund or gives it up.
GatewaySettles(f, outcome) ==
  /\ gateway[f] = "processing"
  /\ gateway' = [gateway EXCEPT ![f] = outcome]
  /\ UNCHANGED <<orderVars, pay, returns, refunds, req>>

-----------------------------------------------------------------------------
(* Finishing a refund.                                                      *)

\* Fault variant: a refund that is done may be confirmed again.
CompleteRead_Again(w, f) ==
  /\ req[w] = Idle
  /\ f \in Created /\ refunds[f].payment \notin Online
  /\ Goto(w, [op |-> "finalize", refund |-> f])
  /\ UNCHANGED <<orderVars, pay, returns, refunds, gateway>>

\* completeManualRefund: an admin confirms that the money was sent; only a
\* COMPLETED refund is refused.
CompleteRead(w, f) ==
  /\ req[w] = Idle
  /\ f \in Created /\ refunds[f].payment \notin Online
  /\ refunds[f].status # "COMPLETED"
  /\ Goto(w, [op |-> "finalize", refund |-> f])
  /\ UNCHANGED <<orderVars, pay, returns, refunds, gateway>>

\* Fault variant: whatever is not a failure is taken for a success.
SyncRead_NotFailed(w, f) ==
  /\ req[w] = Idle
  /\ f \in Created /\ refunds[f].ref /\ refunds[f].status # "COMPLETED"
  /\ \/ gateway[f] # "failed" /\ Goto(w, [op |-> "finalize", refund |-> f])
     \/ gateway[f] = "failed" /\ Goto(w, [op |-> "fail", refund |-> f])
  /\ UNCHANGED <<orderVars, pay, returns, refunds, gateway>>

\* syncGatewayRefund, once the gateway knows.
SyncRead(w, f) ==
  /\ req[w] = Idle
  /\ f \in Created /\ refunds[f].ref /\ refunds[f].status # "COMPLETED"
  /\ \/ gateway[f] = "refunded" /\ Goto(w, [op |-> "finalize", refund |-> f])
     \/ gateway[f] = "failed" /\ Goto(w, [op |-> "fail", refund |-> f])
  /\ UNCHANGED <<orderVars, pay, returns, refunds, gateway>>

SyncFailed(w) ==
  /\ req[w].op = "fail" /\ RowFree(req[w].refund)
  /\ refunds' = [refunds EXCEPT ![req[w].refund] = [@ EXCEPT !.status = "FAILED"]]
  /\ Goto(w, Idle)
  /\ UNCHANGED <<orderVars, pay, returns, gateway>>

\* Payment.status once refund f of it is complete.
PayAfter(f) ==
  LET p == refunds[f].payment
      counted == IF refunds[f].status \in {"PROCESSING", "COMPLETED"}
                 THEN 0 ELSE refunds[f].amount
  IN IF Remaining(p) - counted <= 0 THEN "REFUNDED" ELSE "PARTIALLY_REFUNDED"

\* finalizeRefundCompletion, one transaction at READ COMMITTED.  It first
\* updates the refund's row, and so waits for another that is about to ...
FinalizeSum(w) ==
  /\ req[w].op = "finalize"
  /\ RowFree(req[w].refund)
  /\ Goto(w, [op |-> "lockPayment", refund |-> req[w].refund,
              pay |-> PayAfter(req[w].refund)])
  /\ UNCHANGED <<orderVars, pay, returns, refunds, gateway>>

\* Order.paymentStatus when payment p becomes after: REFUNDED only if every
\* payment is.
OrderPaidAfter(p, after) ==
  IF after = "REFUNDED" /\ \A q \in Payments \ {p} : pay[q] = "REFUNDED"
  THEN "REFUNDED" ELSE "PARTIALLY_REFUNDED"

\* ... then the payment's, and reads the order with its payments; an order still
\* at RETURN_REQUESTED had a partial return, and will go back to the status it
\* had ...
FinalizeRead(w) ==
  /\ req[w].op = "lockPayment"
  /\ LET f == req[w].refund
         p == refunds[f].payment
     IN /\ \A v \in Workers : req[v].op = "commit" => refunds[req[v].refund].payment # p
        /\ Goto(w, [op |-> "commit", refund |-> f, pay |-> req[w].pay,
                    paid |-> OrderPaidAfter(p, req[w].pay),
                    restore |-> refunds[f].ret # None /\ status = "RETURN_REQUESTED"])
  /\ UNCHANGED <<orderVars, pay, returns, refunds, gateway>>

\* ... and commits.
FinalizeCommit(w) ==
  /\ req[w].op = "commit"
  /\ LET f == req[w].refund
         r == refunds[f].ret
     IN /\ refunds' = [refunds EXCEPT ![f] = [@ EXCEPT !.status = "COMPLETED"]]
        /\ pay' = [pay EXCEPT ![refunds[f].payment] = req[w].pay]
        /\ orderPaid' = req[w].paid
        /\ returns' = IF r = None THEN returns
                      ELSE [returns EXCEPT ![r] = [@ EXCEPT !.status = "REFUNDED"]]
        /\ status' = IF req[w].restore THEN returns[r].prev ELSE status
  /\ Goto(w, Idle)
  /\ UNCHANGED <<stockRestored, givenBack, gateway>>

\* The process dies, or a statement fails.
Abort(w) ==
  /\ Failures
  /\ req[w] # Idle
  /\ Goto(w, Idle)
  /\ UNCHANGED <<orderVars, pay, returns, refunds, gateway>>

Serve(w) ==
  \/ \E qty \in 1 .. Qty : FileRead(w, qty)
  \/ \E r \in Returns :
       \/ FileCommit(w, r)
       \/ CancelReturnRead(w, r)
       \/ \E decision \in {"APPROVED", "REJECTED"} : ReviewRead(w, r, decision)
       \/ ReceiveRead(w, r)
       \/ \E p \in Payments, amount \in Amounts : ReturnRefundRead(w, r, p, amount)
  \/ DecideCommit(w)
  \/ ReceiveCommit(w)
  \/ \E to \in Reports : CourierRead(w, to)
  \/ CourierCommit(w)
  \/ \E p \in Payments, amount \in Amounts : DirectRefundRead(w, p, amount)
  \/ CancelOrder(w)
  \/ RefundAllRead(w)
  \/ \E f \in Refunds : CreateRefund(w, f) \/ CompleteRead(w, f) \/ SyncRead(w, f)
  \/ KickManual(w)
  \/ \E answer \in Answer : KickGateway(w, answer)
  \/ KickAnswer(w)
  \/ SyncFailed(w)
  \/ FinalizeSum(w)
  \/ FinalizeRead(w)
  \/ FinalizeCommit(w)
  \/ Abort(w)

Next ==
  \/ \E w \in Workers : Serve(w)
  \/ \E f \in Refunds, outcome \in {"refunded", "failed"} : GatewaySettles(f, outcome)

Spec == Init /\ [][Next]_vars

-----------------------------------------------------------------------------
(* What survives every interleaving of the handlers, crashes and lost answers. *)

\* "Left alone, the order would stay stuck at RETURN_REQUESTED forever": an order
\* only says RETURN_REQUESTED while a request is open, whatever order the
\* customer, the admins and the gateway act in.
RequestedHasRequest ==
  status = "RETURN_REQUESTED" => \E r \in Filed : returns[r].status \in Blocking

\* The refund of an online payment is COMPLETED only once the gateway made it.
CompletedIsBacked ==
  \A f \in Created :
    refunds[f].status = "COMPLETED" /\ refunds[f].payment \in Online =>
      gateway[f] = "refunded"

-----------------------------------------------------------------------------
(* What holds when handlers neither overlap nor die half-way.               *)

\* The order only says REFUNDED when every payment of it does.
RefundedMeansAllPayments ==
  orderPaid = "REFUNDED" => \A p \in Payments : pay[p] = "REFUNDED"

\* "refunding can never exceed the payment's real remaining balance": what is
\* refunded or under way, in the books or at the gateway, was paid.
MoneyOut(p) ==
  {f \in Created : /\ refunds[f].payment = p
                   /\ \/ refunds[f].status \in {"PROCESSING", "COMPLETED"}
                      \/ gateway[f] \in {"processing", "refunded"}}
RefundedWithinPaid ==
  \A p \in Payments : SumFunctionOnSet(AmountOf, MoneyOut(p)) <= Paid[p]

\* "A refund has already been processed for this return request": one at most
\* that did not fail.
OneRefundPerReturn ==
  \A r \in Returns :
    Cardinality({f \in Created : refunds[f].ret = r /\ refunds[f].status # "FAILED"}) <= 1

\* "prevents returning more units than were purchased across multiple historical
\* requests".
ReturnedWithinOrdered == UnitsIn(ActiveReturn) <= Qty

\* A refund that was confirmed is never confirmed again, failed or reopened.
CompletedOnce ==
  [][\A f \in Created :
       refunds[f].status = "COMPLETED" =>
         /\ refunds'[f] = refunds[f]
         /\ \A w \in Workers : req'[w] # [op |-> "finalize", refund |-> f]]_vars

-----------------------------------------------------------------------------
(* What the code's comments promise and the code does not keep.             *)

\* "A refund that fails is left as a FAILED row (retryable from the Refunds
\* page)": as long as some of the payment was not refunded, it can be.
FailedIsRetryable ==
  \A f \in Created :
    refunds[f].status = "FAILED" /\ Remaining(refunds[f].payment) > 0 =>
      refunds[f].payment \in Refundable

\* "Every caller must route status changes through applyStatusChange ... so this
\* invariant can't drift again": the order's units are given back once.
UnitsGivenBackOnce == givenBack <= Qty
=============================================================================
