---------------------------- MODULE Refund_proofs ----------------------------
(***************************************************************************)
(* What Refund guarantees for every number of payments, return requests,   *)
(* refunds and concurrent handlers, with crashes and lost answers.         *)
(***************************************************************************)
EXTENDS MCRefundRaces, Sums, FiniteSetTheorems, TLAPS

\* Operations that hold a refund's row number.
OnRefund == {"kick", "answer", "finalize", "fail", "lockPayment", "commit"}
\* Operations that finish a refund.
Finishing == {"finalize", "lockPayment", "commit"}

\* The fields a request carries are those of its operation.
LEMMA RequestFields ==
  ASSUME NEW r \in Request
  PROVE  /\ r.op = "idle" => r = Idle
         /\ r.op = "file" => r.qty \in 1 .. Qty /\ r.prev \in Returnable
         /\ r.op = "decide" => r.ret \in Returns /\ r.to \in {"CANCELLED", "APPROVED", "REJECTED"}
         /\ r.op = "receive" => r.ret \in Returns
         /\ r.op = "courier" => r.to \in Reports /\ r.restore \in BOOLEAN
         /\ r.op = "refund" => r.todo \in SUBSET Task /\ r.ret \in Returns \cup {None}
         /\ r.op \in {"kick", "answer"} => r.todo \in SUBSET Task
         /\ r.op = "answer" => r.answer \in Answer
         /\ r.op \in OnRefund => r.refund \in Refunds
         /\ r.op \in {"lockPayment", "commit"} => r.pay \in PaidStatus
         /\ r.op = "commit" => r.paid \in PaidStatus /\ r.restore \in BOOLEAN
  BY DEF Request, Idle, OnRefund

\* A step to a well-formed request leaves every request well-formed.
LEMMA GotoType ==
  ASSUME req \in [Workers -> Request], NEW w \in Workers, NEW local \in Request,
         Goto(w, local)
  PROVE  req' \in [Workers -> Request]
  BY DEF Goto

\* A refund is made for a return request that was filed.
RowsRefer ==
  \A f \in Refunds :
    refunds[f] # None /\ refunds[f].ret # None => returns[refunds[f].ret] # None

\* A handler works on rows that exist.
Refers(r) ==
  /\ r.op \in {"decide", "receive"} => returns[r.ret] # None
  /\ r.op = "refund" /\ r.ret # None => returns[r.ret] # None
  /\ r.op \in OnRefund => refunds[r.refund] # None
  /\ r.op = "commit" /\ r.restore => refunds[r.refund].ret # None
\* Every handler does.
RequestsRefer == \A w \in Workers : Refers(req[w])

\* A refund that is about to complete for this return request will not leave
\* the order at RETURN_REQUESTED.
WillRestore(r) ==
  \A w \in Workers :
    req[w].op = "commit" /\ refunds[req[w].refund].ret = r => req[w].restore

\* The order says RETURN_REQUESTED only while a request is open that can still
\* bring it back.
RequestedIsOpen ==
  status = "RETURN_REQUESTED" =>
    \E r \in Returns :
      returns[r] # None /\ returns[r].status \in Blocking /\ WillRestore(r)

\* The gateway is asked once for each refund.
AskedOnce ==
  /\ \A f \in Refunds : refunds[f] = None => gateway[f] = None
  /\ \A w \in Workers : req[w].op = "kick" => gateway[req[w].refund] = None
  /\ \A v, w \in Workers :
       req[v].op = "kick" /\ req[w].op = "kick" /\ req[v].refund = req[w].refund => v = w

\* The refund of an online payment that is, or is about to be, COMPLETED was
\* made by the gateway.
Backed(f) == refunds[f].payment \in Online => gateway[f] = "refunded"
\* So it is of every refund that has completed or is about to.
FinishedIsBacked ==
  /\ \A f \in Refunds : refunds[f] # None /\ refunds[f].status = "COMPLETED" => Backed(f)
  /\ \A w \in Workers : req[w].op \in Finishing => Backed(req[w].refund)

\* The inductive invariant.
IInv ==
  /\ TypeOK
  /\ RowsRefer
  /\ RequestsRefer
  /\ RequestedIsOpen
  /\ AskedOnce
  /\ FinishedIsBacked

\* The invariant holds at the start.
LEMMA InitInv == Init => IInv
<1> SUFFICES ASSUME Init PROVE IInv
  OBVIOUS
<1> USE RefundAssumption DEF Init
<1>1. TypeOK
  BY DEF TypeOK, RefundAssumption, Returnable, DirectRefundEligible, OrderStatus, PaidStatus,
         StockRestoreStatuses, Request
<1>2. status # "RETURN_REQUESTED"
  BY DEF RefundAssumption, Returnable, DirectRefundEligible
<1> QED
  BY <1>1, <1>2 DEF IInv, RowsRefer, RequestsRefer, Refers, RequestedIsOpen, AskedOnce,
                    FinishedIsBacked, Idle, OnRefund, Finishing

-----------------------------------------------------------------------------
(* Type correctness.                                                        *)

\* A row keeps its type when its status changes.
LEMMA RowTypes ==
  ASSUME TypeOK
  PROVE  /\ \A r \in Returns, s \in ReturnStatus :
              returns[r] # None =>
                [returns EXCEPT ![r] = [@ EXCEPT !.status = s]] \in [Returns -> ReturnRow \cup {None}]
         /\ \A f \in Refunds, s \in RefundStatus :
              refunds[f] # None =>
                [refunds EXCEPT ![f] = [@ EXCEPT !.status = s]] \in [Refunds -> RefundRow \cup {None}]
<1> USE DEF TypeOK
<1>1. ASSUME NEW r \in Returns, NEW s \in ReturnStatus, returns[r] # None
      PROVE [returns[r] EXCEPT !.status = s] \in ReturnRow
  BY <1>1 DEF ReturnRow
<1>2. ASSUME NEW f \in Refunds, NEW s \in RefundStatus, refunds[f] # None
      PROVE [refunds[f] EXCEPT !.status = s] \in RefundRow
  BY <1>2 DEF RefundRow
<1> QED BY <1>1, <1>2

\* What Refunding leaves to be done is a request.
LEMMA RefundingType ==
  ASSUME NEW todo \in SUBSET Task, NEW ret \in Returns \cup {None}
  PROVE  Refunding(todo, ret) \in Request
<1>1. [op |-> "refund", todo |-> todo, ret |-> ret] \in Request
  BY DEF Request
<1>2. Idle \in Request
  BY DEF Request
<1> QED BY <1>1, <1>2 DEF Refunding

\* The handlers of return requests keep the types.
LEMMA ReturnsTypeStep ==
  ASSUME TypeOK, RequestsRefer, NEW w \in Workers,
         \/ \E qty \in 1 .. Qty : FileRead(w, qty)
         \/ \E r \in Returns :
              \/ FileCommit(w, r)
              \/ CancelReturnRead(w, r)
              \/ \E decision \in {"APPROVED", "REJECTED"} : ReviewRead(w, r, decision)
              \/ ReceiveRead(w, r)
         \/ DecideCommit(w)
         \/ ReceiveCommit(w)
         \/ \E to \in Reports : CourierRead(w, to)
         \/ CourierCommit(w)
  PROVE  TypeOK'
<1> USE RefundAssumption DEF TypeOK, orderVars
<1>0. Idle \in Request
  BY DEF Request
<1>1. ASSUME NEW local, local \in Request, Goto(w, local) PROVE req' \in [Workers -> Request]
  BY <1>1, GotoType
<1>2. ASSUME NEW qty \in 1 .. Qty, FileRead(w, qty) PROVE TypeOK'
  <2>1. [op |-> "file", qty |-> qty, prev |-> status] \in Request
    BY <1>2 DEF FileRead, Request
  <2> QED BY <1>1, <1>2, <2>1 DEF FileRead
<1>3. ASSUME NEW r \in Returns, FileCommit(w, r) PROVE TypeOK'
  <2>1. [qty |-> req[w].qty, status |-> "PENDING", prev |-> req[w].prev] \in ReturnRow
    BY <1>3, RequestFields DEF FileCommit, ReturnRow, ReturnStatus
  <2>2. req' \in [Workers -> Request]
    BY <1>0, <1>1, <1>3 DEF FileCommit
  <2> QED BY <1>3, <2>1, <2>2 DEF FileCommit, OrderStatus
<1>4. ASSUME NEW r \in Returns, NEW to \in {"CANCELLED", "APPROVED", "REJECTED"},
             Goto(w, [op |-> "decide", ret |-> r, to |-> to])
      PROVE req' \in [Workers -> Request]
  <2>1. [op |-> "decide", ret |-> r, to |-> to] \in Request
    BY DEF Request
  <2> QED BY <1>1, <1>4, <2>1
<1>5. ASSUME NEW r \in Returns,
             CancelReturnRead(w, r) \/ \E decision \in {"APPROVED", "REJECTED"} : ReviewRead(w, r, decision)
      PROVE TypeOK'
  BY <1>4, <1>5 DEF CancelReturnRead, ReviewRead
<1>6. ASSUME NEW r \in Returns, ReceiveRead(w, r) PROVE TypeOK'
  <2>1. [op |-> "receive", ret |-> r] \in Request
    BY DEF Request
  <2> QED BY <1>1, <1>6, <2>1 DEF ReceiveRead
<1>7. CASE DecideCommit(w)
  <2>1. /\ req[w].ret \in Returns /\ returns[req[w].ret] # None
        /\ req[w].to \in ReturnStatus
    BY <1>7, RequestFields DEF DecideCommit, RequestsRefer, Refers, ReturnStatus
  <2>2. returns' \in [Returns -> ReturnRow \cup {None}]
    BY <1>7, <2>1, RowTypes DEF DecideCommit
  <2>3. returns[req[w].ret].prev \in OrderStatus
    BY <2>1 DEF ReturnRow, Returnable, OrderStatus
  <2>4. req' \in [Workers -> Request]
    BY <1>0, <1>1, <1>7 DEF DecideCommit
  <2> QED BY <1>7, <2>2, <2>3, <2>4 DEF DecideCommit
<1>8. CASE ReceiveCommit(w)
  <2>1. req[w].ret \in Returns /\ returns[req[w].ret] # None
    BY <1>8, RequestFields DEF ReceiveCommit, RequestsRefer, Refers
  <2>2. returns' \in [Returns -> ReturnRow \cup {None}]
    <3>1. "ITEM_RECEIVED" \in ReturnStatus
      BY DEF ReturnStatus
    <3>2. returns' = [returns EXCEPT ![req[w].ret] = [@ EXCEPT !.status = "ITEM_RECEIVED"]]
      BY <1>8 DEF ReceiveCommit
    <3> QED BY <2>1, <3>1, <3>2, RowTypes
  <2>3. returns[req[w].ret].qty \in Nat
    BY <2>1 DEF ReturnRow
  <2>4. givenBack' \in Nat
    BY <1>8, <2>3 DEF ReceiveCommit
  <2>5. stockRestored' \in BOOLEAN
    BY <1>8, Zenon DEF ReceiveCommit
  <2>6. status' \in OrderStatus
    BY <1>8 DEF ReceiveCommit, OrderStatus
  <2>7. req' \in [Workers -> Request]
    BY <1>0, <1>1, <1>8 DEF ReceiveCommit
  <2> QED BY <1>8, <2>2, <2>4, <2>5, <2>6, <2>7 DEF ReceiveCommit
<1>9. ASSUME NEW to \in Reports, CourierRead(w, to) PROVE TypeOK'
  <2> DEFINE restore == /\ to \in StockRestoreStatuses
                        /\ status \notin StockRestoreStatuses /\ ~stockRestored
  <2>1. restore \in BOOLEAN
    BY Zenon
  <2>2. Goto(w, [op |-> "courier", to |-> to, restore |-> restore])
    BY <1>9, Zenon DEF CourierRead
  <2> HIDE DEF restore
  <2>3. [op |-> "courier", to |-> to, restore |-> restore] \in Request
    BY <2>1 DEF Request
  <2> QED BY <1>1, <1>9, <2>2, <2>3 DEF CourierRead
<1>10. CASE CourierCommit(w)
  <2>1. req[w].to \in Reports /\ req[w].restore \in BOOLEAN
    BY <1>10, RequestFields DEF CourierCommit
  <2>2. stockRestored' \in BOOLEAN
    BY <1>10, <2>1, Zenon DEF CourierCommit
  <2>3. req' \in [Workers -> Request]
    BY <1>0, <1>1, <1>10 DEF CourierCommit
  <2>4. status' \in OrderStatus /\ givenBack' \in Nat
    BY <1>10, <2>1 DEF CourierCommit, RefundAssumption
  <2> QED BY <1>10, <2>2, <2>3, <2>4 DEF CourierCommit
<1> QED BY <1>2, <1>3, <1>5, <1>6, <1>7, <1>8, <1>9, <1>10

\* The handlers that create a refund and ask the gateway keep the types.
LEMMA StartTypeStep ==
  ASSUME TypeOK, RequestsRefer, NEW w \in Workers,
         \/ \E r \in Returns, p \in Payments, amount \in Amounts : ReturnRefundRead(w, r, p, amount)
         \/ \E p \in Payments, amount \in Amounts : DirectRefundRead(w, p, amount)
         \/ CancelOrder(w)
         \/ RefundAllRead(w)
         \/ \E f \in Refunds : CreateRefund(w, f)
         \/ KickManual(w)
         \/ \E answer \in Answer : KickGateway(w, answer)
         \/ KickAnswer(w)
  PROVE  TypeOK'
<1> USE RefundAssumption DEF TypeOK, orderVars
<1>1. ASSUME NEW local, local \in Request, Goto(w, local) PROVE req' \in [Workers -> Request]
  BY <1>1, GotoType
<1>2. ASSUME NEW ret \in Returns \cup {None}, NEW p \in Payments, NEW amount \in Amounts,
             Goto(w, Refunding({[payment |-> p, amount |-> amount]}, ret))
      PROVE req' \in [Workers -> Request]
  <2>1. {[payment |-> p, amount |-> amount]} \in SUBSET Task
    BY DEF Task
  <2> QED BY <1>1, <1>2, <2>1, RefundingType
<1>3. ASSUME NEW r \in Returns, NEW p \in Payments, NEW amount \in Amounts,
             ReturnRefundRead(w, r, p, amount)
      PROVE TypeOK'
  BY <1>2, <1>3 DEF ReturnRefundRead
<1>4. ASSUME NEW p \in Payments, NEW amount \in Amounts, DirectRefundRead(w, p, amount)
      PROVE TypeOK'
  BY <1>2, <1>4 DEF DirectRefundRead
<1>5. CASE CancelOrder(w)
  <2>1. [op |-> "refundAll"] \in Request
    BY DEF Request
  <2> QED BY <1>1, <1>5, <2>1 DEF CancelOrder, OrderStatus, RefundAssumption
<1>6. CASE RefundAllRead(w)
  <2>1. {t \in Task : t.payment \in Refundable /\ t.amount = Remaining(t.payment)} \in SUBSET Task
    OBVIOUS
  <2> QED BY <1>1, <1>6, <2>1, RefundingType DEF RefundAllRead
<1>7. ASSUME NEW f \in Refunds, CreateRefund(w, f) PROVE TypeOK'
  <2>1. PICK t \in req[w].todo :
          /\ refunds' = [refunds EXCEPT ![f] =
                           [payment |-> t.payment, amount |-> t.amount, ret |-> req[w].ret,
                            status |-> "PENDING", ref |-> FALSE]]
          /\ Goto(w, [op |-> "kick", refund |-> f, todo |-> req[w].todo \ {t}])
    BY <1>7 DEF CreateRefund
  <2>2. req[w].todo \in SUBSET Task /\ req[w].ret \in Returns \cup {None}
    BY <1>7, RequestFields DEF CreateRefund
  <2>3. [payment |-> t.payment, amount |-> t.amount, ret |-> req[w].ret,
         status |-> "PENDING", ref |-> FALSE] \in RefundRow
    BY <2>1, <2>2 DEF RefundRow, RefundStatus, Task
  <2>4. [op |-> "kick", refund |-> f, todo |-> req[w].todo \ {t}] \in Request
    BY <2>2 DEF Request
  <2> QED BY <1>1, <1>7, <2>1, <2>3, <2>4 DEF CreateRefund
<1>8. ASSUME req[w].op \in {"kick", "answer"}
      PROVE  /\ req[w].refund \in Refunds /\ refunds[req[w].refund] # None
             /\ Refunding(req[w].todo, None) \in Request
  <2>1. req[w].todo \in SUBSET Task
    BY <1>8, RequestFields
  <2> QED BY <1>8, <2>1, RequestFields, RefundingType DEF RequestsRefer, Refers, OnRefund
<1>9. CASE KickManual(w)
  <2>1. refunds' = [refunds EXCEPT ![req[w].refund] = [@ EXCEPT !.status = "PROCESSING"]]
    BY <1>9 DEF KickManual
  <2>2. "PROCESSING" \in RefundStatus
    BY DEF RefundStatus
  <2>3. refunds' \in [Refunds -> RefundRow \cup {None}]
    BY <1>8, <1>9, <2>1, <2>2, RowTypes DEF KickManual
  <2> QED BY <1>1, <1>8, <1>9, <2>3 DEF KickManual
<1>10. ASSUME NEW answer \in Answer, KickGateway(w, answer) PROVE TypeOK'
  <2>1. req[w].todo \in SUBSET Task /\ req[w].refund \in Refunds
    BY <1>10, RequestFields DEF KickGateway, OnRefund
  <2>2. [op |-> "answer", refund |-> req[w].refund, answer |-> answer, todo |-> req[w].todo] \in Request
    BY <2>1 DEF Request
  <2> QED BY <1>1, <1>10, <2>1, <2>2 DEF KickGateway
<1>11. CASE KickAnswer(w)
  <2>1. refunds' \in [Refunds -> RefundRow \cup {None}]
    <3> DEFINE f == req[w].refund
               s == IF req[w].answer = "processing" THEN "PROCESSING" ELSE "FAILED"
               b == req[w].answer # "error"
    <3>1. f \in Refunds /\ refunds[f] \in RefundRow
      BY <1>8, <1>11 DEF KickAnswer
    <3>2. s \in RefundStatus /\ b \in BOOLEAN
      BY DEF RefundStatus
    <3>3. refunds' = [refunds EXCEPT ![f] = [@ EXCEPT !.status = s, !.ref = b]]
      BY <1>11 DEF KickAnswer
    <3> HIDE DEF f, s, b
    <3>4. [refunds[f] EXCEPT !.status = s, !.ref = b] \in RefundRow
      BY <3>1, <3>2 DEF RefundRow
    <3> QED BY <3>1, <3>3, <3>4
  <2> QED BY <1>1, <1>8, <1>11, <2>1 DEF KickAnswer
<1> QED BY <1>3, <1>4, <1>5, <1>6, <1>7, <1>9, <1>10, <1>11

\* The handlers that finish a refund keep the types.
LEMMA FinishTypeStep ==
  ASSUME TypeOK, RowsRefer, RequestsRefer, NEW w \in Workers,
         \/ \E f \in Refunds : CompleteRead(w, f) \/ SyncRead(w, f)
         \/ SyncFailed(w)
         \/ FinalizeSum(w)
         \/ FinalizeRead(w)
         \/ FinalizeCommit(w)
         \/ Abort(w)
  PROVE  TypeOK'
<1> USE RefundAssumption DEF TypeOK, orderVars
<1>0. Idle \in Request
  BY DEF Request
<1>1. ASSUME NEW local, local \in Request, Goto(w, local) PROVE req' \in [Workers -> Request]
  BY <1>1, GotoType
<1>2. ASSUME NEW f \in Refunds, CompleteRead(w, f) \/ SyncRead(w, f) PROVE TypeOK'
  <2>1. [op |-> "finalize", refund |-> f] \in Request /\ [op |-> "fail", refund |-> f] \in Request
    BY DEF Request
  <2> QED BY <1>1, <1>2, <2>1 DEF CompleteRead, SyncRead
<1>3. ASSUME req[w].op \in OnRefund PROVE req[w].refund \in Refunds /\ refunds[req[w].refund] # None
  BY <1>3, RequestFields DEF RequestsRefer, Refers
<1>4. CASE SyncFailed(w)
  <2>1. refunds' = [refunds EXCEPT ![req[w].refund] = [@ EXCEPT !.status = "FAILED"]]
    BY <1>4 DEF SyncFailed
  <2>2. "FAILED" \in RefundStatus
    BY DEF RefundStatus
  <2>3. refunds' \in [Refunds -> RefundRow \cup {None}]
    BY <1>3, <1>4, <2>1, <2>2, RowTypes DEF SyncFailed, OnRefund
  <2> QED BY <1>0, <1>1, <1>4, <2>3 DEF SyncFailed
<1>5. CASE FinalizeSum(w)
  <2>1. PayAfter(req[w].refund) \in PaidStatus
    BY DEF PayAfter, PaidStatus
  <2>2. [op |-> "lockPayment", refund |-> req[w].refund, pay |-> PayAfter(req[w].refund)] \in Request
    BY <1>3, <1>5, <2>1 DEF FinalizeSum, OnRefund, Request
  <2> QED BY <1>1, <1>5, <2>2 DEF FinalizeSum
<1>6. CASE FinalizeRead(w)
  <2> DEFINE f == req[w].refund
             paid == OrderPaidAfter(refunds[f].payment, req[w].pay)
             restore == refunds[f].ret # None /\ status = "RETURN_REQUESTED"
  <2>1. paid \in PaidStatus /\ restore \in BOOLEAN
    BY DEF OrderPaidAfter, PaidStatus
  <2>2. f \in Refunds /\ req[w].pay \in PaidStatus
    BY <1>3, <1>6, RequestFields DEF FinalizeRead, OnRefund
  <2>3. Goto(w, [op |-> "commit", refund |-> f, pay |-> req[w].pay, paid |-> paid,
                 restore |-> restore])
    BY <1>6 DEF FinalizeRead
  <2> HIDE DEF f, paid, restore
  <2>4. [op |-> "commit", refund |-> f, pay |-> req[w].pay, paid |-> paid,
         restore |-> restore] \in Request
    BY <2>1, <2>2 DEF Request
  <2> QED BY <1>1, <1>6, <2>3, <2>4 DEF FinalizeRead
<1>7. CASE FinalizeCommit(w)
  <2> DEFINE f == req[w].refund
             r == refunds[f].ret
  <2>1. f \in Refunds /\ refunds[f] \in RefundRow /\ r \in Returns \cup {None}
    BY <1>3, <1>7 DEF FinalizeCommit, OnRefund, RefundRow
  <2>2. req[w].pay \in PaidStatus /\ req[w].paid \in PaidStatus
    BY <1>7, RequestFields DEF FinalizeCommit
  <2>3. refunds' \in [Refunds -> RefundRow \cup {None}]
    <3>1. "COMPLETED" \in RefundStatus
      BY DEF RefundStatus
    <3> QED BY <1>7, <2>1, <3>1, RowTypes DEF FinalizeCommit
  <2>4. r # None => returns[r] # None
    BY <1>3, <1>7, <2>1 DEF FinalizeCommit, OnRefund, RowsRefer
  <2>5. returns' \in [Returns -> ReturnRow \cup {None}]
    <3>1. "REFUNDED" \in ReturnStatus
      BY DEF ReturnStatus
    <3>2. returns' = IF r = None THEN returns
                     ELSE [returns EXCEPT ![r] = [@ EXCEPT !.status = "REFUNDED"]]
      BY <1>7 DEF FinalizeCommit
    <3> QED BY <2>1, <2>4, <3>1, <3>2, RowTypes
  <2>6. status' \in OrderStatus
    <3>1. req[w].restore => r # None
      BY <1>7 DEF FinalizeCommit, RequestsRefer, Refers
    <3>2. r # None => returns[r].prev \in OrderStatus
      BY <2>1, <2>4 DEF ReturnRow, Returnable, OrderStatus
    <3>3. status' = IF req[w].restore THEN returns[r].prev ELSE status
      BY <1>7 DEF FinalizeCommit
    <3> QED BY <3>1, <3>2, <3>3
  <2> QED BY <1>0, <1>1, <1>7, <2>1, <2>2, <2>3, <2>5, <2>6 DEF FinalizeCommit, RefundRow
<1>8. CASE Abort(w)
  BY <1>0, <1>1, <1>8 DEF Abort
<1> QED BY <1>2, <1>4, <1>5, <1>6, <1>7, <1>8

\* Every step keeps the types.
LEMMA TypeStep ==
  ASSUME TypeOK, RowsRefer, RequestsRefer, [Next]_vars
  PROVE  TypeOK'
<1>1. ASSUME NEW w \in Workers, Serve(w) PROVE TypeOK'
  BY <1>1, ReturnsTypeStep, StartTypeStep, FinishTypeStep DEF Serve
<1>2. ASSUME NEW f \in Refunds, NEW outcome \in {"refunded", "failed"}, GatewaySettles(f, outcome)
      PROVE TypeOK'
  BY <1>2 DEF GatewaySettles, TypeOK, orderVars
<1>3. CASE UNCHANGED vars
  BY <1>3 DEF vars, TypeOK
<1> QED BY <1>1, <1>2, <1>3 DEF Next

-----------------------------------------------------------------------------
(* What steps do to the tables.                                             *)

\* A row that exists stays, about the same payment and return request.
RowsStay ==
  /\ \A r \in Returns : returns[r] # None => returns'[r] # None
  /\ \A f \in Refunds :
       refunds[f] # None =>
         /\ refunds'[f] # None
         /\ refunds'[f].payment = refunds[f].payment
         /\ refunds'[f].ret = refunds[f].ret

\* Updating a row leaves a row, about the same payment and return request.
LEMMA RowUpdates ==
  ASSUME TypeOK
  PROVE  /\ \A r \in Returns, s \in ReturnStatus :
              returns[r] # None => [returns[r] EXCEPT !.status = s] # None
         /\ \A f \in Refunds, s \in RefundStatus, b \in BOOLEAN :
              refunds[f] # None =>
                /\ [refunds[f] EXCEPT !.status = s] # None
                /\ [refunds[f] EXCEPT !.status = s].payment = refunds[f].payment
                /\ [refunds[f] EXCEPT !.status = s].ret = refunds[f].ret
                /\ [refunds[f] EXCEPT !.status = s, !.ref = b] # None
                /\ [refunds[f] EXCEPT !.status = s, !.ref = b].payment = refunds[f].payment
                /\ [refunds[f] EXCEPT !.status = s, !.ref = b].ret = refunds[f].ret
<1> USE RefundAssumption DEF TypeOK, RefundAssumption
<1>1. ASSUME NEW r \in Returns, NEW s \in ReturnStatus, returns[r] # None
      PROVE [returns[r] EXCEPT !.status = s] # None
  BY <1>1 DEF ReturnRow
<1>2. ASSUME NEW f \in Refunds, NEW s \in RefundStatus, NEW b \in BOOLEAN, refunds[f] # None
      PROVE /\ [refunds[f] EXCEPT !.status = s] # None
            /\ [refunds[f] EXCEPT !.status = s].payment = refunds[f].payment
            /\ [refunds[f] EXCEPT !.status = s].ret = refunds[f].ret
            /\ [refunds[f] EXCEPT !.status = s, !.ref = b] # None
            /\ [refunds[f] EXCEPT !.status = s, !.ref = b].payment = refunds[f].payment
            /\ [refunds[f] EXCEPT !.status = s, !.ref = b].ret = refunds[f].ret
  <2>1. refunds[f] \in RefundRow
    BY <1>2
  <2>2. [refunds[f] EXCEPT !.status = s] \in RefundRow /\ [refunds[f] EXCEPT !.status = s, !.ref = b] \in RefundRow
    BY <2>1 DEF RefundRow
  <2> QED BY <2>1, <2>2 DEF RefundRow
<1> QED BY <1>1, <1>2

\* The steps that write a table, by what they write.
LEMMA ReturnWrites ==
  ASSUME TypeOK, RequestsRefer, RowsRefer, NEW w \in Workers, Serve(w)
  PROVE  \/ UNCHANGED returns
         \/ \E r \in Returns : FileCommit(w, r)
         \/ \E r \in Returns, s \in ReturnStatus :
              returns[r] # None /\ returns' = [returns EXCEPT ![r] = [@ EXCEPT !.status = s]]
<1>1. CASE DecideCommit(w)
  BY <1>1, RequestFields DEF DecideCommit, RequestsRefer, Refers, ReturnStatus, TypeOK
<1>2. CASE ReceiveCommit(w)
  BY <1>2, RequestFields DEF ReceiveCommit, RequestsRefer, Refers, ReturnStatus, TypeOK
<1>3. CASE FinalizeCommit(w)
  <2>1. req[w].refund \in Refunds /\ refunds[req[w].refund] # None
    BY <1>3, RequestFields DEF FinalizeCommit, OnRefund, RequestsRefer, Refers, TypeOK
  <2>2. refunds[req[w].refund].ret \in Returns \cup {None}
    BY <2>1 DEF TypeOK, RefundRow
  <2> QED BY <1>3, <2>1, <2>2 DEF FinalizeCommit, RowsRefer, ReturnStatus
<1> QED
  BY <1>1, <1>2, <1>3
  DEF Serve, FileRead, CancelReturnRead, ReviewRead, ReceiveRead, ReturnRefundRead, CourierRead,
      CourierCommit, DirectRefundRead, CancelOrder, RefundAllRead, CreateRefund, CompleteRead,
      SyncRead, KickManual, KickGateway, KickAnswer, SyncFailed, FinalizeSum, FinalizeRead, Abort

\* A step creates a refund, or updates the one its handler works on.
LEMMA RefundWrites ==
  ASSUME TypeOK, RequestsRefer, NEW w \in Workers, Serve(w)
  PROVE  \/ UNCHANGED refunds
         \/ \E f \in Refunds : CreateRefund(w, f)
         \/ /\ req[w].op \in {"kick", "answer", "fail", "commit"}
            /\ req[w].refund \in Refunds /\ refunds[req[w].refund] # None
            /\ \/ \E s \in {"PROCESSING", "FAILED"}, b \in BOOLEAN :
                    refunds' = [refunds EXCEPT ![req[w].refund] = [@ EXCEPT !.status = s, !.ref = b]]
               \/ \E s \in {"PROCESSING", "FAILED"} :
                    refunds' = [refunds EXCEPT ![req[w].refund] = [@ EXCEPT !.status = s]]
               \/ /\ req[w].op = "commit"
                  /\ refunds' = [refunds EXCEPT ![req[w].refund] = [@ EXCEPT !.status = "COMPLETED"]]
<1>1. ASSUME req[w].op \in OnRefund PROVE req[w].refund \in Refunds /\ refunds[req[w].refund] # None
  BY <1>1, RequestFields DEF RequestsRefer, Refers, TypeOK
<1>2. CASE KickManual(w) \/ SyncFailed(w) \/ FinalizeCommit(w)
  BY <1>1, <1>2 DEF KickManual, SyncFailed, FinalizeCommit, OnRefund
<1>3. CASE KickAnswer(w)
  <2> DEFINE s == IF req[w].answer = "processing" THEN "PROCESSING" ELSE "FAILED"
             b == req[w].answer # "error"
  <2>1. s \in {"PROCESSING", "FAILED"} /\ b \in BOOLEAN
    OBVIOUS
  <2>2. refunds' = [refunds EXCEPT ![req[w].refund] = [@ EXCEPT !.status = s, !.ref = b]]
    BY <1>3 DEF KickAnswer
  <2>3. req[w].op = "answer"
    BY <1>3 DEF KickAnswer
  <2> HIDE DEF s, b
  <2> QED BY <1>1, <2>1, <2>2, <2>3 DEF OnRefund
<1> QED
  BY <1>2, <1>3
  DEF Serve, orderVars, FileRead, FileCommit, CancelReturnRead, ReviewRead, ReceiveRead,
      ReturnRefundRead, DecideCommit, ReceiveCommit, CourierRead, CourierCommit, DirectRefundRead,
      CancelOrder, RefundAllRead, CompleteRead, SyncRead, KickGateway, FinalizeSum, FinalizeRead, Abort

\* No row is deleted.
LEMMA RowsStayStep ==
  ASSUME TypeOK, RequestsRefer, RowsRefer, NEW w \in Workers, Serve(w)
  PROVE  RowsStay
<1>1. \A r \in Returns : returns[r] # None => returns'[r] # None
  <2>1. CASE UNCHANGED returns
    BY <2>1
  <2>2. ASSUME NEW r \in Returns, FileCommit(w, r) PROVE \A q \in Returns : returns[q] # None => returns'[q] # None
    BY <2>2 DEF FileCommit, TypeOK
  <2>3. ASSUME NEW r \in Returns, NEW s \in ReturnStatus, returns[r] # None,
               returns' = [returns EXCEPT ![r] = [@ EXCEPT !.status = s]]
        PROVE \A q \in Returns : returns[q] # None => returns'[q] # None
    <3>1. [returns[r] EXCEPT !.status = s] # None
      BY <2>3, RowUpdates
    <3> QED BY <2>3, <3>1 DEF TypeOK
  <2> QED BY <2>1, <2>2, <2>3, ReturnWrites
<1>2. ASSUME NEW f \in Refunds, refunds[f] # None
      PROVE  /\ refunds'[f] # None
             /\ refunds'[f].payment = refunds[f].payment
             /\ refunds'[f].ret = refunds[f].ret
  <2>1. CASE UNCHANGED refunds
    BY <1>2, <2>1
  <2>2. ASSUME NEW g \in Refunds, CreateRefund(w, g)
        PROVE refunds'[f] = refunds[f]
    BY <1>2, <2>2 DEF CreateRefund, TypeOK
  <2>3. ASSUME NEW g \in Refunds, refunds[g] # None, NEW s \in RefundStatus, NEW b \in BOOLEAN,
               \/ refunds' = [refunds EXCEPT ![g] = [@ EXCEPT !.status = s, !.ref = b]]
               \/ refunds' = [refunds EXCEPT ![g] = [@ EXCEPT !.status = s]]
        PROVE  /\ refunds'[f] # None
               /\ refunds'[f].payment = refunds[f].payment
               /\ refunds'[f].ret = refunds[f].ret
    <3>1. CASE f = g
      <4>1. \/ refunds'[f] = [refunds[f] EXCEPT !.status = s, !.ref = b]
            \/ refunds'[f] = [refunds[f] EXCEPT !.status = s]
        BY <2>3, <3>1 DEF TypeOK
      <4>2. refunds[f] \in RefundRow
        BY <1>2 DEF TypeOK
      <4>3. [refunds[f] EXCEPT !.status = s, !.ref = b] \in RefundRow
            /\ [refunds[f] EXCEPT !.status = s] \in RefundRow
        BY <4>2 DEF RefundRow
      <4> QED BY <4>1, <4>2, <4>3, RefundAssumption DEF RefundRow, RefundAssumption
    <3>2. CASE f # g
      BY <1>2, <2>3, <3>2 DEF TypeOK
    <3> QED BY <3>1, <3>2
  <2>4. {"PROCESSING", "FAILED", "COMPLETED"} \subseteq RefundStatus /\ TRUE \in BOOLEAN
    BY DEF RefundStatus
  <2>5. CASE \E s \in {"PROCESSING", "FAILED"}, b \in BOOLEAN :
               refunds' = [refunds EXCEPT ![req[w].refund] = [@ EXCEPT !.status = s, !.ref = b]]
             /\ req[w].refund \in Refunds /\ refunds[req[w].refund] # None
    <3>1. PICK s \in {"PROCESSING", "FAILED"}, b \in BOOLEAN :
            refunds' = [refunds EXCEPT ![req[w].refund] = [@ EXCEPT !.status = s, !.ref = b]]
      BY <2>5
    <3>2. s \in RefundStatus
      BY <2>4
    <3> QED BY <2>3, <2>5, <3>1, <3>2, Zenon
  <2>6. CASE \E s \in {"PROCESSING", "FAILED", "COMPLETED"} :
               refunds' = [refunds EXCEPT ![req[w].refund] = [@ EXCEPT !.status = s]]
             /\ req[w].refund \in Refunds /\ refunds[req[w].refund] # None
    BY <2>3, <2>4, <2>6
  <2>7. \/ UNCHANGED refunds
        \/ \E g \in Refunds : CreateRefund(w, g)
        \/ \E s \in {"PROCESSING", "FAILED"}, b \in BOOLEAN :
               refunds' = [refunds EXCEPT ![req[w].refund] = [@ EXCEPT !.status = s, !.ref = b]]
             /\ req[w].refund \in Refunds /\ refunds[req[w].refund] # None
        \/ \E s \in {"PROCESSING", "FAILED", "COMPLETED"} :
               refunds' = [refunds EXCEPT ![req[w].refund] = [@ EXCEPT !.status = s]]
             /\ req[w].refund \in Refunds /\ refunds[req[w].refund] # None
    BY RefundWrites
  <2> QED BY <1>2, <2>1, <2>2, <2>5, <2>6, <2>7
<1> QED BY <1>1, <1>2 DEF RowsStay

-----------------------------------------------------------------------------
(* Rows and requests refer to rows that exist.                              *)

\* Handlers go on working on rows that exist.
LEMMA ReferStep ==
  ASSUME TypeOK, RequestsRefer, RowsRefer, NEW w \in Workers, Serve(w)
  PROVE  RequestsRefer'
<1> USE DEF TypeOK
<1>0. RowsStay
  BY RowsStayStep
<1>1. PICK local : Goto(w, local)
  BY DEF Serve, FileRead, FileCommit, CancelReturnRead, ReviewRead, ReceiveRead, ReturnRefundRead,
     DecideCommit, ReceiveCommit, CourierRead, CourierCommit, DirectRefundRead, CancelOrder,
     RefundAllRead, CreateRefund, CompleteRead, SyncRead, KickManual, KickGateway, KickAnswer,
     SyncFailed, FinalizeSum, FinalizeRead, FinalizeCommit, Abort
<1>2. \A v \in Workers \ {w} : req'[v] = req[v]
  BY <1>1 DEF Goto
<1>3. ASSUME NEW v \in Workers, v # w PROVE Refers(req[v])'
  <2>1. Refers(req[v]) /\ req[v] \in Request
    BY DEF RequestsRefer
  <2>2. req'[v] = req[v]
    BY <1>2, <1>3
  <2> QED BY <1>0, <2>1, <2>2, RequestFields DEF Refers, RowsStay, OnRefund
<1>4. Refers(req[w])'
  <2>1. req[w] \in Request /\ Refers(req[w])
    BY DEF RequestsRefer
  <2>2. ASSUME NEW r \in Returns, r \in Filed,
               \/ \E to \in ReturnStatus : Goto(w, [op |-> "decide", ret |-> r, to |-> to])
               \/ Goto(w, [op |-> "receive", ret |-> r])
        PROVE Refers(req[w])'
    BY <1>0, <2>2 DEF Goto, Filed, Refers, RowsStay, OnRefund
  <2>3. ASSUME NEW r \in Returns,
               \/ CancelReturnRead(w, r)
               \/ \E decision \in {"APPROVED", "REJECTED"} : ReviewRead(w, r, decision)
               \/ ReceiveRead(w, r)
        PROVE Refers(req[w])'
    BY <2>2, <2>3 DEF CancelReturnRead, ReviewRead, ReceiveRead, ReturnStatus
  <2>4. ASSUME NEW todo, NEW ret \in Returns \cup {None}, Goto(w, Refunding(todo, ret)),
               ret # None => returns[ret] # None
        PROVE Refers(req[w])'
    BY <1>0, <2>4 DEF Goto, Refunding, Refers, RowsStay, OnRefund, Idle
  <2>5. ASSUME NEW r \in Returns, NEW p \in Payments, NEW amount \in Amounts,
               ReturnRefundRead(w, r, p, amount)
        PROVE Refers(req[w])'
    BY <2>4, <2>5 DEF ReturnRefundRead, Filed
  <2>6. ASSUME NEW p \in Payments, NEW amount \in Amounts, DirectRefundRead(w, p, amount)
        PROVE Refers(req[w])'
    BY <2>4, <2>6 DEF DirectRefundRead
  <2>7. CASE RefundAllRead(w) \/ KickManual(w) \/ KickAnswer(w)
    BY <2>4, <2>7 DEF RefundAllRead, KickManual, KickAnswer
  <2>8. ASSUME NEW f \in Refunds, CreateRefund(w, f) PROVE Refers(req[w])'
    <3>1. req'[w].op = "kick" /\ req'[w].refund = f
      BY <2>8 DEF CreateRefund, Goto
    <3>2. refunds'[f] # None
      <4>1. PICK t \in req[w].todo :
              refunds' = [refunds EXCEPT ![f] =
                            [payment |-> t.payment, amount |-> t.amount, ret |-> req[w].ret,
                             status |-> "PENDING", ref |-> FALSE]]
        BY <2>8 DEF CreateRefund
      <4>2. t \in Task /\ req[w].ret \in Returns \cup {None}
        BY <2>8, RequestFields DEF CreateRefund
      <4>3. [payment |-> t.payment, amount |-> t.amount, ret |-> req[w].ret,
             status |-> "PENDING", ref |-> FALSE] \in RefundRow
        BY <4>2 DEF Task, RefundRow, RefundStatus
      <4> QED BY <4>1, <4>3, RefundAssumption DEF RefundAssumption
    <3> QED BY <3>1, <3>2 DEF Refers
  <2>9. ASSUME NEW f \in Refunds, CompleteRead(w, f) \/ SyncRead(w, f) PROVE Refers(req[w])'
    <3>1. req'[w].op \in {"finalize", "fail"} /\ req'[w].refund = f /\ f \in Created
      BY <2>9 DEF CompleteRead, SyncRead, Goto
    <3> QED BY <1>0, <2>9, <3>1 DEF Created, Refers, RowsStay
  <2>10. ASSUME NEW answer \in Answer, KickGateway(w, answer) PROVE Refers(req[w])'
    <3>1. req'[w].op = "answer" /\ req'[w].refund = req[w].refund
      BY <2>10 DEF KickGateway, Goto
    <3> QED BY <1>0, <2>1, <2>10, <3>1, RequestFields DEF KickGateway, Refers, RowsStay, OnRefund
  <2>11. CASE FinalizeSum(w)
    <3>1. req'[w].op = "lockPayment" /\ req'[w].refund = req[w].refund
      BY <2>11 DEF FinalizeSum, Goto
    <3> QED BY <1>0, <2>1, <2>11, <3>1, RequestFields DEF FinalizeSum, Refers, RowsStay, OnRefund
  <2>12. CASE FinalizeRead(w)
    <3>1. /\ req'[w].op = "commit" /\ req'[w].refund = req[w].refund
          /\ req'[w].restore => refunds[req[w].refund].ret # None
      BY <2>12 DEF FinalizeRead, Goto
    <3> QED BY <1>0, <2>1, <2>12, <3>1, RequestFields DEF FinalizeRead, Refers, RowsStay, OnRefund
  <2>13. ASSUME req'[w].op \in {"idle", "file", "courier", "refundAll"} PROVE Refers(req[w])'
    BY <2>13 DEF Refers, OnRefund
  <2>14. CASE \/ \E qty \in 1 .. Qty : FileRead(w, qty)
              \/ \E r \in Returns : FileCommit(w, r)
              \/ DecideCommit(w) \/ ReceiveCommit(w)
    BY <2>13, <2>14 DEF FileRead, FileCommit, DecideCommit, ReceiveCommit, Goto, Idle
  <2>15. CASE (\E to \in Reports : CourierRead(w, to)) \/ CourierCommit(w) \/ CancelOrder(w)
    BY <2>13, <2>15 DEF CourierRead, CourierCommit, CancelOrder, Goto, Idle
  <2>16. CASE SyncFailed(w) \/ FinalizeCommit(w) \/ Abort(w)
    BY <2>13, <2>16 DEF SyncFailed, FinalizeCommit, Abort, Goto, Idle
  <2> QED
    BY <2>3, <2>5, <2>6, <2>7, <2>8, <2>9, <2>10, <2>11, <2>12, <2>14, <2>15, <2>16 DEF Serve
<1> QED BY <1>3, <1>4 DEF RequestsRefer

\* Refunds go on being for return requests that exist.
LEMMA RowsReferStep ==
  ASSUME TypeOK, RequestsRefer, RowsRefer, NEW w \in Workers, Serve(w)
  PROVE  RowsRefer'
<1>0. RowsStay
  BY RowsStayStep
<1> SUFFICES ASSUME NEW f \in Refunds, refunds'[f] # None, refunds'[f].ret # None
             PROVE  returns'[refunds'[f].ret] # None
  BY DEF RowsRefer
<1>1. CASE refunds[f] # None
  <2>1. refunds'[f].ret = refunds[f].ret /\ refunds[f].ret \in Returns \cup {None}
    BY <1>0, <1>1 DEF RowsStay, TypeOK, RefundRow
  <2> QED BY <1>0, <1>1, <2>1 DEF RowsRefer, RowsStay
<1>2. CASE refunds[f] = None
  <2>1. CreateRefund(w, f)
    BY <1>2, RefundWrites DEF TypeOK, CreateRefund
  <2>2. refunds'[f].ret = req[w].ret /\ UNCHANGED returns /\ req[w].op = "refund"
    BY <2>1 DEF CreateRefund, TypeOK
  <2>3. Refers(req[w])
    BY DEF RequestsRefer
  <2> QED BY <2>2, <2>3 DEF Refers
<1> QED BY <1>1, <1>2

-----------------------------------------------------------------------------
(* An order at RETURN_REQUESTED has an open request.                        *)

\* Only FinalizeRead takes a request to its commit.
LEMMA OnlyFinalizeReadCommits ==
  ASSUME TypeOK, NEW w \in Workers, Serve(w)
  PROVE  /\ \A v \in Workers \ {w} : req'[v] = req[v]
         /\ FinalizeRead(w) \/ req'[w].op # "commit"
<1>1. ASSUME NEW local, Goto(w, local), local.op # "commit" \/ FinalizeRead(w)
      PROVE  /\ \A v \in Workers \ {w} : req'[v] = req[v]
             /\ FinalizeRead(w) \/ req'[w].op # "commit"
  BY <1>1 DEF Goto, TypeOK
<1>2. \A todo, ret : Refunding(todo, ret).op # "commit"
  BY DEF Refunding, Idle
<1>3. CASE \/ \E qty \in 1 .. Qty : FileRead(w, qty)
           \/ \E r \in Returns :
                \/ FileCommit(w, r)
                \/ CancelReturnRead(w, r)
                \/ \E decision \in {"APPROVED", "REJECTED"} : ReviewRead(w, r, decision)
                \/ ReceiveRead(w, r)
           \/ DecideCommit(w)
           \/ ReceiveCommit(w)
           \/ \E to \in Reports : CourierRead(w, to)
           \/ CourierCommit(w)
           \/ CancelOrder(w)
  BY <1>1, <1>3 DEF FileRead, FileCommit, CancelReturnRead, ReviewRead, ReceiveRead, DecideCommit,
     ReceiveCommit, CourierRead, CourierCommit, CancelOrder, Idle
<1>4. CASE \/ \E r \in Returns, p \in Payments, amount \in Amounts : ReturnRefundRead(w, r, p, amount)
           \/ \E p \in Payments, amount \in Amounts : DirectRefundRead(w, p, amount)
           \/ RefundAllRead(w)
  BY <1>1, <1>2, <1>4 DEF ReturnRefundRead, DirectRefundRead, RefundAllRead
<1>5. CASE \E f \in Refunds : CreateRefund(w, f) \/ CompleteRead(w, f) \/ SyncRead(w, f)
  BY <1>1, <1>5 DEF CreateRefund, CompleteRead, SyncRead
<1>6. CASE KickManual(w) \/ (\E answer \in Answer : KickGateway(w, answer)) \/ KickAnswer(w)
  <2>1. CASE KickManual(w)
    BY <1>1, <1>2, <2>1 DEF KickManual
  <2>2. CASE KickAnswer(w)
    BY <1>1, <1>2, <2>2 DEF KickAnswer
  <2>3. ASSUME NEW answer \in Answer, KickGateway(w, answer)
        PROVE  \E local : Goto(w, local) /\ local.op # "commit"
    BY <2>3 DEF KickGateway
  <2> QED BY <1>1, <1>6, <2>1, <2>2, <2>3
<1>7. CASE SyncFailed(w) \/ FinalizeSum(w) \/ FinalizeRead(w) \/ FinalizeCommit(w) \/ Abort(w)
  BY <1>1, <1>7 DEF SyncFailed, FinalizeSum, FinalizeRead, FinalizeCommit, Abort, Idle
<1> QED BY <1>3, <1>4, <1>5, <1>6, <1>7 DEF Serve

\* A refund about to complete goes on bringing the order back.
LEMMA WillRestoreStays ==
  ASSUME TypeOK, RequestsRefer, RowsRefer, NEW w \in Workers, Serve(w),
         NEW r \in Returns, status = "RETURN_REQUESTED", WillRestore(r)
  PROVE  WillRestore(r)'
<1>0. RowsStay /\ r # None
  BY RowsStayStep, RefundAssumption DEF RefundAssumption
<1> SUFFICES ASSUME NEW v \in Workers, req'[v].op = "commit", refunds'[req'[v].refund].ret = r
             PROVE  req'[v].restore
  BY DEF WillRestore
<1>1. CASE req'[v] = req[v]
  <2>1. req[v].refund \in Refunds /\ refunds[req[v].refund] # None
    BY <1>1, RequestFields DEF TypeOK, RequestsRefer, Refers, OnRefund
  <2> QED BY <1>0, <1>1, <2>1 DEF RowsStay, WillRestore
<1>2. CASE v = w /\ FinalizeRead(w)
  <2>1. req[w].refund \in Refunds /\ refunds[req[w].refund] # None
    BY <1>2, RequestFields DEF FinalizeRead, TypeOK, RequestsRefer, Refers, OnRefund
  <2>2. /\ req'[w].refund = req[w].refund
        /\ req'[w].restore = (refunds[req[w].refund].ret # None /\ status = "RETURN_REQUESTED")
    BY <1>2 DEF FinalizeRead, Goto, TypeOK
  <2>3. refunds[req[w].refund].ret = r
    BY <1>0, <1>2, <2>1, <2>2 DEF RowsStay
  <2> QED BY <1>0, <1>2, <2>2, <2>3
<1> QED BY <1>1, <1>2, OnlyFinalizeReadCommits

\* The order says RETURN_REQUESTED only while a request can bring it back.
LEMMA OpenStep ==
  ASSUME TypeOK, RequestsRefer, RowsRefer, RequestedIsOpen, NEW w \in Workers, Serve(w)
  PROVE  RequestedIsOpen'
<1> SUFFICES ASSUME status' = "RETURN_REQUESTED"
             PROVE  \E r \in Returns : /\ returns'[r] # None /\ returns'[r].status \in Blocking
                                       /\ WillRestore(r)'
  BY DEF RequestedIsOpen
<1>1. ASSUME NEW r \in Returns, FileCommit(w, r) PROVE WillRestore(r)' /\ returns'[r] # None /\ returns'[r].status \in Blocking
  <2>1. returns'[r] # None /\ returns'[r].status = "PENDING"
    <3>1. [qty |-> req[w].qty, status |-> "PENDING", prev |-> req[w].prev] \in ReturnRow
      BY <1>1, RequestFields DEF FileCommit, ReturnRow, ReturnStatus, TypeOK
    <3> QED BY <1>1, <3>1, RefundAssumption DEF FileCommit, TypeOK, RefundAssumption
  <2>2. ASSUME NEW v \in Workers, req'[v].op = "commit", refunds'[req'[v].refund].ret = r
        PROVE FALSE
    <3>1. req'[v] = req[v] /\ refunds' = refunds /\ returns[r] = None /\ r # None
      BY <1>1, <2>2, RefundAssumption DEF FileCommit, Goto, TypeOK, Idle, RefundAssumption
    <3>2. req[v].refund \in Refunds /\ refunds[req[v].refund] # None
      BY <2>2, <3>1, RequestFields DEF TypeOK, RequestsRefer, Refers, OnRefund
    <3> QED BY <2>2, <3>1, <3>2 DEF RowsRefer
  <2> QED BY <2>1, <2>2 DEF WillRestore, Blocking
<1>2. ASSUME status = "RETURN_REQUESTED",
             \A r \in Returns : returns[r] # None /\ returns[r].status \in Blocking /\ WillRestore(r)
               => returns'[r] # None /\ returns'[r].status \in Blocking
      PROVE \E r \in Returns : /\ returns'[r] # None /\ returns'[r].status \in Blocking
                               /\ WillRestore(r)'
  BY <1>2, WillRestoreStays DEF RequestedIsOpen
<1>3. ASSUME NEW r \in Returns, NEW s \in Blocking, returns[r] # None,
             returns' = [returns EXCEPT ![r] = [@ EXCEPT !.status = s]]
      PROVE \A q \in Returns : returns[q] # None /\ returns[q].status \in Blocking
               => returns'[q] # None /\ returns'[q].status \in Blocking
  <2>1. returns[r] \in ReturnRow
    BY <1>3 DEF TypeOK
  <2>2. [returns[r] EXCEPT !.status = s] \in ReturnRow /\ [returns[r] EXCEPT !.status = s].status = s
    BY <2>1 DEF ReturnRow, ReturnStatus, Blocking
  <2> QED BY <1>3, <2>2, RefundAssumption DEF TypeOK, RefundAssumption
<1>4. ASSUME NEW r \in Returns, returns[r] # None PROVE returns[r].prev # "RETURN_REQUESTED"
  BY <1>4 DEF TypeOK, ReturnRow, Returnable
<1>5. CASE DecideCommit(w)
  <2>1. req[w].ret \in Returns /\ returns[req[w].ret] # None
    BY <1>5, RequestFields DEF DecideCommit, TypeOK, RequestsRefer, Refers
  <2>2. req[w].to = "APPROVED" /\ status = "RETURN_REQUESTED"
    BY <1>4, <1>5, <2>1 DEF DecideCommit
  <2>3. returns' = [returns EXCEPT ![req[w].ret] = [@ EXCEPT !.status = "APPROVED"]]
    BY <1>5, <2>2 DEF DecideCommit
  <2> QED BY <1>2, <1>3, <2>1, <2>2, <2>3 DEF Blocking
<1>6. CASE ReceiveCommit(w)
  <2>1. req[w].ret \in Returns /\ returns[req[w].ret] # None
    BY <1>6, RequestFields DEF ReceiveCommit, TypeOK, RequestsRefer, Refers
  <2>2. status = "RETURN_REQUESTED"
    BY <1>6 DEF ReceiveCommit
  <2>3. returns' = [returns EXCEPT ![req[w].ret] = [@ EXCEPT !.status = "ITEM_RECEIVED"]]
    BY <1>6 DEF ReceiveCommit
  <2> QED BY <1>2, <1>3, <2>1, <2>2, <2>3 DEF Blocking
<1>7. CASE CourierCommit(w)
  BY <1>7, RequestFields, RefundAssumption DEF CourierCommit, TypeOK, RefundAssumption
<1>8. CASE FinalizeCommit(w)
  <2> DEFINE f == req[w].refund
             r == refunds[f].ret
  <2>1. f \in Refunds /\ refunds[f] # None /\ r \in Returns \cup {None}
    BY <1>8, RequestFields DEF FinalizeCommit, TypeOK, RequestsRefer, Refers, OnRefund, RefundRow
  <2>2. req[w].restore => r # None
    BY <1>8 DEF FinalizeCommit, RequestsRefer, Refers
  <2>3. ~req[w].restore /\ status = "RETURN_REQUESTED"
    BY <1>4, <1>8, <2>1, <2>2 DEF FinalizeCommit, RowsRefer
  <2>4. ASSUME NEW q \in Returns, WillRestore(q) PROVE returns'[q] = returns[q]
    <3>1. r # q
      BY <1>8, <2>3, <2>4 DEF WillRestore, FinalizeCommit
    <3> QED BY <1>8, <2>1, <3>1 DEF FinalizeCommit, TypeOK
  <2> QED BY <1>2, <2>3, <2>4
<1>9. CASE UNCHANGED <<status, returns>>
  BY <1>2, <1>9
<1>10. CASE CancelOrder(w)
  BY <1>10 DEF CancelOrder
<1> QED
  BY <1>1, <1>5, <1>6, <1>7, <1>8, <1>9, <1>10
  DEF Serve, orderVars, FileRead, CancelReturnRead, ReviewRead, ReceiveRead, ReturnRefundRead,
      CourierRead, DirectRefundRead, RefundAllRead, CreateRefund, CompleteRead, SyncRead,
      KickManual, KickGateway, KickAnswer, SyncFailed, FinalizeSum, FinalizeRead, Abort

-----------------------------------------------------------------------------
(* What is COMPLETED was made by the gateway.                               *)

\* Requests that start to kick a refund off, or to finish one.
LEMMA NewOperations ==
  ASSUME TypeOK, NEW w \in Workers, Serve(w)
  PROVE  /\ \/ req'[w].op # "kick"
            \/ \E f \in Refunds : CreateRefund(w, f) /\ req'[w].refund = f
         /\ \/ req'[w].op \notin Finishing
            \/ \E f \in Refunds : (CompleteRead(w, f) \/ SyncRead(w, f)) /\ req'[w].refund = f
            \/ (FinalizeSum(w) \/ FinalizeRead(w)) /\ req'[w].refund = req[w].refund
<1> USE DEF Finishing
<1>1. ASSUME NEW local, Goto(w, local), local.op \notin {"kick", "finalize", "lockPayment", "commit"}
      PROVE  req'[w].op # "kick" /\ req'[w].op \notin Finishing
  BY <1>1 DEF Goto, TypeOK
<1>2. \A todo, ret : Refunding(todo, ret).op \notin {"kick", "finalize", "lockPayment", "commit"}
  BY DEF Refunding, Idle
<1>3. CASE \/ \E qty \in 1 .. Qty : FileRead(w, qty)
           \/ \E r \in Returns :
                \/ FileCommit(w, r)
                \/ CancelReturnRead(w, r)
                \/ \E decision \in {"APPROVED", "REJECTED"} : ReviewRead(w, r, decision)
                \/ ReceiveRead(w, r)
           \/ DecideCommit(w)
           \/ ReceiveCommit(w)
           \/ \E to \in Reports : CourierRead(w, to)
           \/ CourierCommit(w)
           \/ CancelOrder(w)
  BY <1>1, <1>3 DEF FileRead, FileCommit, CancelReturnRead, ReviewRead, ReceiveRead, DecideCommit,
     ReceiveCommit, CourierRead, CourierCommit, CancelOrder, Idle
<1>4. CASE \/ \E r \in Returns, p \in Payments, amount \in Amounts : ReturnRefundRead(w, r, p, amount)
           \/ \E p \in Payments, amount \in Amounts : DirectRefundRead(w, p, amount)
           \/ RefundAllRead(w)
           \/ KickManual(w)
           \/ \E answer \in Answer : KickGateway(w, answer)
           \/ KickAnswer(w)
  BY <1>1, <1>2, <1>4 DEF ReturnRefundRead, DirectRefundRead, RefundAllRead, KickManual,
     KickGateway, KickAnswer
<1>5. CASE \E f \in Refunds : CreateRefund(w, f) \/ CompleteRead(w, f) \/ SyncRead(w, f)
  <2>1. ASSUME NEW local, Goto(w, local) PROVE req'[w] = local
    BY <2>1 DEF Goto, TypeOK
  <2>2. ASSUME NEW f \in Refunds, CreateRefund(w, f)
        PROVE req'[w].op = "kick" /\ req'[w].refund = f
    BY <2>1, <2>2 DEF CreateRefund
  <2>3. ASSUME NEW f \in Refunds, CompleteRead(w, f) \/ SyncRead(w, f)
        PROVE req'[w].op \in {"finalize", "fail"} /\ req'[w].refund = f
    BY <2>1, <2>3 DEF CompleteRead, SyncRead
  <2> QED BY <1>5, <2>2, <2>3
<1>6. CASE SyncFailed(w) \/ FinalizeCommit(w) \/ Abort(w)
  BY <1>1, <1>6 DEF SyncFailed, FinalizeCommit, Abort, Idle
<1>7. CASE FinalizeSum(w) \/ FinalizeRead(w)
  <2>1. req'[w].op \in {"lockPayment", "commit"} /\ req'[w].refund = req[w].refund
    BY <1>7 DEF FinalizeSum, FinalizeRead, Goto, TypeOK
  <2> QED BY <1>7, <2>1
<1> QED BY <1>3, <1>4, <1>5, <1>6, <1>7 DEF Serve

\* The gateway is asked about the refund that is being kicked off.
LEMMA GatewayWrites ==
  ASSUME TypeOK, NEW w \in Workers, Serve(w)
  PROVE  \/ UNCHANGED gateway
         \/ /\ req[w].op = "kick" /\ req'[w].op = "answer"
            /\ refunds[req[w].refund].payment \in Online
            /\ \A f \in Refunds \ {req[w].refund} : gateway'[f] = gateway[f]
<1>1. ASSUME NEW answer \in Answer, KickGateway(w, answer)
      PROVE  /\ req[w].op = "kick" /\ req'[w].op = "answer"
             /\ refunds[req[w].refund].payment \in Online
             /\ \A f \in Refunds \ {req[w].refund} : gateway'[f] = gateway[f]
  BY <1>1 DEF KickGateway, Goto, TypeOK
<1>2. CASE \/ \E qty \in 1 .. Qty : FileRead(w, qty)
           \/ \E r \in Returns :
                \/ FileCommit(w, r)
                \/ CancelReturnRead(w, r)
                \/ \E decision \in {"APPROVED", "REJECTED"} : ReviewRead(w, r, decision)
                \/ ReceiveRead(w, r)
                \/ \E p \in Payments, amount \in Amounts : ReturnRefundRead(w, r, p, amount)
           \/ DecideCommit(w)
           \/ ReceiveCommit(w)
           \/ \E to \in Reports : CourierRead(w, to)
           \/ CourierCommit(w)
           \/ \E p \in Payments, amount \in Amounts : DirectRefundRead(w, p, amount)
           \/ CancelOrder(w)
           \/ RefundAllRead(w)
           \/ \E f \in Refunds : CreateRefund(w, f) \/ CompleteRead(w, f) \/ SyncRead(w, f)
           \/ KickManual(w)
           \/ KickAnswer(w)
           \/ SyncFailed(w) \/ FinalizeSum(w) \/ FinalizeRead(w) \/ FinalizeCommit(w) \/ Abort(w)
  BY <1>2 DEF FileRead, FileCommit, CancelReturnRead, ReviewRead, ReceiveRead, DecideCommit,
     ReceiveCommit, CourierRead, CourierCommit, CancelOrder, ReturnRefundRead, DirectRefundRead,
     RefundAllRead, CreateRefund, CompleteRead, SyncRead, KickManual, KickAnswer, SyncFailed,
     FinalizeSum, FinalizeRead, FinalizeCommit, Abort
<1> QED BY <1>1, <1>2 DEF Serve

\* No step asks the gateway for a refund a second time.
LEMMA AskedStep ==
  ASSUME TypeOK, RequestsRefer, RowsRefer, AskedOnce, NEW w \in Workers, Serve(w)
  PROVE  AskedOnce'
<1>0. RowsStay /\ \A v \in Workers \ {w} : req'[v] = req[v]
  BY RowsStayStep, OnlyFinalizeReadCommits
<1>1. ASSUME NEW v \in Workers, req[v].op = "kick"
      PROVE req[v].refund \in Refunds /\ refunds[req[v].refund] # None /\ gateway[req[v].refund] = None
  BY <1>1, RequestFields DEF TypeOK, RequestsRefer, Refers, OnRefund, AskedOnce
<1>2. ASSUME NEW f \in Refunds, refunds'[f] = None PROVE gateway'[f] = None
  BY <1>0, <1>1, <1>2, GatewayWrites DEF AskedOnce, RowsStay
<1>3. ASSUME NEW v \in Workers, req'[v].op = "kick", NEW u \in Workers, req'[u].op = "kick",
             req'[v].refund = req'[u].refund
      PROVE u = v
  <2>1. ASSUME NEW x \in Workers, x # w, req[x].op = "kick", req'[w].op = "kick"
        PROVE req'[w].refund # req[x].refund
    BY <1>1, <2>1, NewOperations DEF CreateRefund
  <2> QED BY <1>0, <1>3, <2>1 DEF AskedOnce
<1>4. ASSUME NEW v \in Workers, req'[v].op = "kick" PROVE gateway'[req'[v].refund] = None
  <2>1. CASE v = w
    <3>1. PICK f \in Refunds : CreateRefund(w, f) /\ req'[w].refund = f
      BY <1>4, <2>1, NewOperations
    <3> QED BY <2>1, <3>1 DEF CreateRefund, AskedOnce
  <2>2. CASE v # w
    <3>1. req'[v] = req[v]
      BY <1>0, <2>2
    <3>2. req[w].op = "kick" => req[w].refund # req[v].refund
      BY <1>4, <2>2, <3>1 DEF AskedOnce
    <3> QED BY <1>1, <1>4, <3>1, <3>2, GatewayWrites
  <2> QED BY <2>1, <2>2
<1> QED BY <1>2, <1>3, <1>4 DEF AskedOnce

\* No refund of an online payment completes without the gateway.
LEMMA BackedStep ==
  ASSUME TypeOK, RequestsRefer, RowsRefer, AskedOnce, FinishedIsBacked, NEW w \in Workers, Serve(w)
  PROVE  FinishedIsBacked'
<1>0. RowsStay /\ \A v \in Workers \ {w} : req'[v] = req[v]
  BY RowsStayStep, OnlyFinalizeReadCommits
<1>1. ASSUME NEW f \in Refunds, refunds[f] # None, Backed(f) PROVE Backed(f)'
  <2>1. req[w].op = "kick" => gateway[req[w].refund] # "refunded"
    BY RefundAssumption DEF AskedOnce, RefundAssumption
  <2> QED BY <1>0, <1>1, <2>1, GatewayWrites DEF Backed, RowsStay
<1>2. ASSUME NEW v \in Workers, req[v].op \in Finishing
      PROVE req[v].refund \in Refunds /\ refunds[req[v].refund] # None /\ Backed(req[v].refund)
  BY <1>2, RequestFields DEF TypeOK, RequestsRefer, Refers, OnRefund, FinishedIsBacked, Finishing
<1>3. ASSUME NEW f \in Refunds, refunds'[f] # None, refunds'[f].status = "COMPLETED" PROVE Backed(f)'
  <2>1. CASE refunds[f] = None
    <3>1. CreateRefund(w, f)
      BY <1>3, <2>1, RefundWrites DEF TypeOK, CreateRefund
    <3>2. refunds'[f].status = "PENDING"
      BY <3>1 DEF CreateRefund, TypeOK
    <3> QED BY <1>3, <3>2
  <2>2. CASE refunds[f] # None /\ refunds[f].status = "COMPLETED"
    BY <1>1, <2>2 DEF FinishedIsBacked
  <2>3. CASE refunds[f] # None /\ refunds[f].status # "COMPLETED"
    <3>1. req[w].op = "commit" /\ req[w].refund = f
      <4>1. refunds[f] \in RefundRow
        BY <2>3 DEF TypeOK
      <4>3. ASSUME NEW g \in Refunds, CreateRefund(w, g) PROVE refunds'[f] = refunds[f]
        BY <2>3, <4>3 DEF CreateRefund, TypeOK
      <4>4. ASSUME NEW s \in {"PROCESSING", "FAILED"}, NEW b \in BOOLEAN,
                   \/ refunds' = [refunds EXCEPT ![req[w].refund] = [@ EXCEPT !.status = s, !.ref = b]]
                   \/ refunds' = [refunds EXCEPT ![req[w].refund] = [@ EXCEPT !.status = s]]
            PROVE refunds'[f].status # "COMPLETED"
        <5>1. refunds'[f] = refunds[f] \/ refunds'[f] = [refunds[f] EXCEPT !.status = s, !.ref = b]
                \/ refunds'[f] = [refunds[f] EXCEPT !.status = s]
          BY <4>4 DEF TypeOK
        <5>2. [refunds[f] EXCEPT !.status = s, !.ref = b].status = s
          BY <4>1 DEF RefundRow
        <5>3. [refunds[f] EXCEPT !.status = s].status = s
          BY <4>1 DEF RefundRow
        <5> QED BY <2>3, <5>1, <5>2, <5>3
      <4>5. ASSUME req[w].op = "commit",
                   refunds' = [refunds EXCEPT ![req[w].refund] = [@ EXCEPT !.status = "COMPLETED"]]
            PROVE req[w].refund = f
        BY <1>3, <2>3, <4>5 DEF TypeOK
      <4> QED BY <1>3, <2>3, <4>3, <4>4, <4>5, RefundWrites
    <3> QED BY <1>1, <1>2, <3>1 DEF Finishing
  <2> QED BY <2>1, <2>2, <2>3
<1>4. ASSUME NEW v \in Workers, req'[v].op \in Finishing PROVE Backed(req[v].refund)'
  <2>1. CASE req'[v] = req[v]
    BY <1>1, <1>2, <1>4, <2>1 DEF Backed
  <2>2. ASSUME v = w, NEW f \in Refunds, CompleteRead(w, f) \/ SyncRead(w, f), req'[w].refund = f
        PROVE Backed(f)'
    <3>1. refunds[f] # None
      BY <2>2 DEF CompleteRead, SyncRead, Created
    <3>2. CASE CompleteRead(w, f)
      BY <3>2 DEF CompleteRead, Backed
    <3>3. CASE SyncRead(w, f)
      <4>1. req'[w].op = "finalize"
        BY <1>4, <2>2, <3>3 DEF SyncRead, Goto, TypeOK, Finishing
      <4> QED BY <3>3, <4>1 DEF SyncRead, Backed, Goto, TypeOK
    <3> QED BY <2>2, <3>2, <3>3
  <2>3. CASE v = w /\ (FinalizeSum(w) \/ FinalizeRead(w)) /\ req'[w].refund = req[w].refund
    <3>1. req[w].op \in Finishing
      BY <2>3 DEF FinalizeSum, FinalizeRead, Finishing
    <3> QED BY <1>1, <1>2, <2>3, <3>1 DEF Backed
  <2>4. v = w \/ req'[v] = req[v]
    BY <1>0
  <2>5. CASE v = w /\ \E f \in Refunds : (CompleteRead(w, f) \/ SyncRead(w, f)) /\ req'[w].refund = f
    BY <2>2, <2>5 DEF Backed
  <2> QED BY <1>4, <2>1, <2>3, <2>4, <2>5, NewOperations
<1> QED BY <1>3, <1>4 DEF FinishedIsBacked

-----------------------------------------------------------------------------
(* The gateway settles a refund on its own.                                 *)

\* The gateway's own steps keep the invariant.
LEMMA GatewayStep ==
  ASSUME IInv, NEW f \in Refunds, NEW outcome \in {"refunded", "failed"}, GatewaySettles(f, outcome)
  PROVE  IInv'
<1> USE DEF IInv
<1>1. /\ UNCHANGED <<status, stockRestored, orderPaid, givenBack, pay, returns, refunds, req>>
      /\ gateway[f] = "processing" /\ gateway' = [gateway EXCEPT ![f] = outcome]
  BY DEF GatewaySettles, orderVars
<1>2. TypeOK'
  BY TypeStep DEF Next
<1>3. RowsRefer' /\ RequestsRefer' /\ RequestedIsOpen'
  BY <1>1 DEF RowsRefer, RequestsRefer, Refers, RequestedIsOpen, WillRestore
<1>4. \A g \in Refunds \ {f} : gateway'[g] = gateway[g]
  BY <1>1 DEF TypeOK
<1>5. gateway[f] # None /\ ~(gateway[f] = "refunded")
  BY <1>1, RefundAssumption DEF RefundAssumption
<1>6. \A w \in Workers : req[w].op \in OnRefund => req[w].refund \in Refunds
  BY RequestFields DEF TypeOK
<1>7. AskedOnce'
  BY <1>1, <1>4, <1>5, <1>6 DEF AskedOnce, OnRefund
<1>8. \A g \in Refunds : Backed(g) => Backed(g)'
  BY <1>1, <1>4, <1>5 DEF Backed
<1>9. FinishedIsBacked'
  <2>1. ASSUME NEW w \in Workers, req'[w].op \in Finishing PROVE Backed(req[w].refund)'
    BY <1>1, <1>6, <1>8, <2>1 DEF FinishedIsBacked, Finishing, OnRefund, Backed
  <2> QED BY <1>1, <1>8, <2>1 DEF FinishedIsBacked
<1> QED BY <1>2, <1>3, <1>7, <1>9

\* Every step keeps the invariant.
LEMMA StepInv == IInv /\ [Next]_vars => IInv'
<1> SUFFICES ASSUME IInv, [Next]_vars PROVE IInv'
  OBVIOUS
<1> USE DEF IInv
<1>1. TypeOK'
  BY TypeStep
<1>2. ASSUME NEW w \in Workers, Serve(w) PROVE IInv'
  BY <1>1, <1>2, ReferStep, RowsReferStep, OpenStep, AskedStep, BackedStep
<1>3. ASSUME NEW f \in Refunds, NEW outcome \in {"refunded", "failed"}, GatewaySettles(f, outcome)
      PROVE IInv'
  BY <1>3, GatewayStep
<1>4. CASE UNCHANGED vars
  BY <1>1, <1>4 DEF vars, RowsRefer, RequestsRefer, Refers, RequestedIsOpen, WillRestore, AskedOnce,
     FinishedIsBacked, Backed
<1> QED BY <1>2, <1>3, <1>4 DEF Next

-----------------------------------------------------------------------------

\* The strengthened invariant of the return requests and the refunds.
THEOREM Invariance == Spec => []IInv
  BY InitInv, StepInv, PTL DEF Spec

\* Whatever overlaps, dies or gets lost, every row and request stays within the
\* enums and the tables of the schema.
THEOREM TypeCorrect == Spec => []TypeOK
<1>1. IInv => TypeOK
  BY DEF IInv
<1> QED BY <1>1, Invariance, PTL

\* The order never stays at RETURN_REQUESTED without an open return request, in
\* whatever order the customer, the admins and finalizeRefundCompletion act.
THEOREM NeverStuckAtRequested == Spec => []RequestedHasRequest
<1>1. IInv => RequestedHasRequest
  BY DEF IInv, RequestedIsOpen, RequestedHasRequest, Filed
<1> QED BY <1>1, Invariance, PTL

\* The refund of an online payment is COMPLETED only if the gateway made it.
THEOREM NoUnbackedCompletion == Spec => []CompletedIsBacked
<1>1. IInv => CompletedIsBacked
  BY DEF IInv, FinishedIsBacked, Backed, CompletedIsBacked, Created
<1> QED BY <1>1, Invariance, PTL
-----------------------------------------------------------------------------
(* One request at a time, without failures: the books.                      *)

\* At most one request is being served.
Single == \A v, w \in Workers : req[v] # Idle /\ req[w] # Idle => v = w

\* The refunds of payment p that did not fail, and what they come to.
LiveOf(p) == {f \in Created : refunds[f].payment = p /\ refunds[f].status # "FAILED"}
Spent(p) == SumFunctionOnSet(AmountOf, LiveOf(p))

\* No more is refunded of a payment than was paid.
SpentWithinPaid == \A p \in Payments : Spent(p) <= Paid[p]

\* The refunds that are still to be made are of different payments, and each
\* can be afforded.
Affordable(todo) ==
  /\ \A t \in todo : Spent(t.payment) + t.amount <= Paid[t.payment]
  /\ \A t, u \in todo : t.payment = u.payment => t = u

\* The units a return request is about go back once.
ReceivedStatus == {"ITEM_RECEIVED", "REFUNDED"}

\* What a handler read before is still so.
ReadsTrue(w) ==
  LET r == req[w] IN
  /\ r.op = "file" => UnitsIn(ActiveReturn) + r.qty <= Qty
  /\ r.op = "decide" => returns[r.ret].status = "PENDING"
  /\ r.op = "receive" => returns[r.ret].status = "APPROVED"
  /\ r.op = "refund" /\ r.ret # None =>
       returns[r.ret].status \in ReceivedStatus /\ ~HasRefund(r.ret)
  /\ r.op \in {"refund", "kick", "answer"} => Affordable(r.todo)
  /\ r.op \in {"kick", "answer"} => refunds[r.refund].status = "PENDING"
  /\ r.op = "answer" => /\ refunds[r.refund].payment \in Online
                        /\ r.answer # "processing" => gateway[r.refund] \in {None, "failed"}
  /\ r.op = "fail" => /\ refunds[r.refund].payment \in Online
                      /\ refunds[r.refund].status # "COMPLETED"
                      /\ gateway[r.refund] = "failed"
  /\ r.op \in Finishing => refunds[r.refund].status = "PROCESSING"
  /\ r.op = "commit" /\ r.paid = "REFUNDED" =>
       /\ r.pay = "REFUNDED"
       /\ \A q \in Payments : pay[q] = "REFUNDED" \/ q = refunds[r.refund].payment

\* What the row of a refund says of it.
RowTells(f) ==
  /\ refunds[f].payment \notin Online => ~refunds[f].ref /\ refunds[f].status # "FAILED"
  /\ refunds[f].status = "FAILED" => gateway[f] \in {None, "failed"}
  /\ refunds[f].status = "PENDING" =>
       \E w \in Workers : req[w].op \in {"kick", "answer"} /\ req[w].refund = f

\* Only units that came back are refunded, and they are once.
ReturnsOnce ==
  /\ \A f \in Created : refunds[f].ret # None => returns[refunds[f].ret].status \in ReceivedStatus
  /\ \A f, g \in Created :
       /\ refunds[f].ret # None /\ refunds[f].ret = refunds[g].ret
       /\ refunds[f].status # "FAILED" /\ refunds[g].status # "FAILED"
       => f = g

\* The invariant while requests come one at a time.
SerialInv ==
  /\ Single
  /\ \A w \in Workers : ReadsTrue(w)
  /\ \A f \in Created : RowTells(f)
  /\ ReturnsOnce
  /\ SpentWithinPaid
  /\ ReturnedWithinOrdered
  /\ RefundedMeansAllPayments

\* The rows have their fields.
LEMMA RowFields ==
  ASSUME TypeOK
  PROVE  /\ \A f \in Created : /\ f \in Refunds /\ refunds[f] \in RefundRow
                               /\ refunds[f].payment \in Payments
                               /\ refunds[f].amount \in Nat
                               /\ refunds[f].ret \in Returns \cup {None}
                               /\ AmountOf[f] = refunds[f].amount
         /\ \A r \in Filed : r \in Returns /\ returns[r] \in ReturnRow /\ returns[r].qty \in Nat
         /\ IsFiniteSet(Created) /\ IsFiniteSet(Filed)
<1>1. IsFiniteSet(Created) /\ IsFiniteSet(Filed)
  BY RefundAssumption, FS_Subset DEF RefundAssumption, Created, Filed
<1>2. \A f \in Created : f \in Refunds /\ refunds[f] \in RefundRow
  BY DEF TypeOK, Created
<1>3. \A r \in Filed : r \in Returns /\ returns[r] \in ReturnRow
  BY DEF TypeOK, Filed
<1>4. Amounts \subseteq Nat /\ Qty \in Nat
  BY RefundAssumption DEF RefundAssumption
<1>5. \A row \in RefundRow : /\ row.payment \in Payments /\ row.amount \in Nat
                            /\ row.ret \in Returns \cup {None}
  BY <1>4 DEF RefundRow
<1>6. \A row \in ReturnRow : row.qty \in Nat
  BY <1>4 DEF ReturnRow
<1>7. \A f \in Created : AmountOf[f] = refunds[f].amount
  BY DEF AmountOf
<1> QED BY <1>1, <1>2, <1>3, <1>5, <1>6, <1>7

\* The handler that goes on is the only one.
LEMMA Alone ==
  ASSUME Single, req \in [Workers -> Request], OneAtATime, NEW w \in Workers, NEW local,
         Goto(w, local), req[w] # local
  PROVE  /\ Single' /\ req'[w] = local
         /\ \A v \in Workers : v # w => req[v] = Idle /\ req'[v] = Idle
<1>1. req'[w] = local /\ \A v \in Workers : v # w => req'[v] = req[v]
  BY DEF Goto
<1>2. ASSUME NEW v \in Workers, v # w PROVE req[v] = Idle
  <2>1. CASE Busy = {}
    BY <2>1 DEF Busy
  <2>2. CASE \E u \in Busy : req'[u] # req[u]
    BY <1>1, <1>2, <2>2 DEF Busy, Single
  <2>3. ASSUME NEW f, NEW outcome, GatewaySettles(f, outcome) PROVE FALSE
    BY <1>1, <2>3 DEF GatewaySettles
  <2> QED BY <2>1, <2>2, <2>3 DEF OneAtATime
<1>3. \A v \in Workers : v # w => req[v] = Idle /\ req'[v] = Idle
  BY <1>1, <1>2
<1> QED BY <1>1, <1>3 DEF Single

\* A worker that waits has read nothing.
LEMMA IdleReads ==
  ASSUME NEW w \in Workers, req[w] = Idle
  PROVE  ReadsTrue(w)
<1>1. req[w].op = "idle"
  BY DEF Idle
<1> QED BY <1>1 DEF ReadsTrue, Finishing

\* The same after a step.
LEMMA IdleReadsNext ==
  ASSUME NEW w \in Workers, req'[w] = Idle
  PROVE  ReadsTrue(w)'
<1>1. req'[w].op = "idle"
  BY DEF Idle
<1> QED BY <1>1 DEF ReadsTrue, Finishing

-----------------------------------------------------------------------------
(* What a step does to the sums.                                            *)

\* What was refunded of a payment is a number, and so is any part of it.
LEMMA SpentType ==
  ASSUME TypeOK, NEW p, NEW S \in SUBSET LiveOf(p)
  PROVE  /\ SumFunctionOnSet(AmountOf, S) \in Nat
         /\ Spent(p) \in Nat
         /\ SumFunctionOnSet(AmountOf, S) <= Spent(p)
<1>1. LiveOf(p) \subseteq Created
  BY DEF LiveOf
<1>2. IsFiniteSet(LiveOf(p)) /\ \A f \in LiveOf(p) : AmountOf[f] \in Nat
  BY <1>1, RowFields, FS_Subset
<1> QED BY <1>2, SumSmaller DEF Spent

\* A step that updates refunds, and brings no failed one back.
KeepsLive ==
  /\ Created' = Created
  /\ \A f \in Created :
       /\ refunds'[f].payment = refunds[f].payment
       /\ refunds'[f].amount = refunds[f].amount
       /\ refunds'[f].ret = refunds[f].ret
       /\ refunds'[f].status # "FAILED" => refunds[f].status # "FAILED"

\* After it no more is spent.
LEMMA SpentKept ==
  ASSUME TypeOK, KeepsLive, NEW p
  PROVE  Spent(p)' <= Spent(p) /\ Spent(p)' \in Nat /\ Spent(p) \in Nat
<1> DEFINE S == LiveOf(p)'
<1>1. S \in SUBSET LiveOf(p) /\ S \subseteq Created
  BY DEF LiveOf, KeepsLive
<1>2. /\ SumFunctionOnSet(AmountOf, S) \in Nat /\ Spent(p) \in Nat
      /\ SumFunctionOnSet(AmountOf, S) <= Spent(p)
  BY <1>1, SpentType
<1>3. IsFiniteSet(S)
  BY <1>1, RowFields, FS_Subset
<1>4. \A f \in S : AmountOf'[f] = AmountOf[f]
  BY <1>1 DEF KeepsLive, AmountOf
<1>5. SumFunctionOnSet(AmountOf', S) = SumFunctionOnSet(AmountOf, S)
  BY <1>3, <1>4, SumAgree
<1>6. Spent(p)' = SumFunctionOnSet(AmountOf', S)
  BY DEF Spent
<1> HIDE DEF S
<1> QED BY <1>2, <1>5, <1>6

\* So the books are kept.
LEMMA BooksKept ==
  ASSUME TypeOK, KeepsLive
  PROVE  /\ SpentWithinPaid => SpentWithinPaid'
         /\ \A todo \in SUBSET Task : Affordable(todo) => Affordable(todo)'
<1>1. \A p : Spent(p)' <= Spent(p) /\ Spent(p)' \in Nat /\ Spent(p) \in Nat
  BY SpentKept
<1>2. \A p \in Payments : Paid[p] \in Nat
  BY RefundAssumption DEF RefundAssumption
<1>3. SpentWithinPaid => SpentWithinPaid'
  BY <1>1, <1>2 DEF SpentWithinPaid
<1>4. ASSUME NEW todo \in SUBSET Task, Affordable(todo) PROVE Affordable(todo)'
  <2>1. ASSUME NEW t \in todo PROVE Spent(t.payment)' + t.amount <= Paid[t.payment]
    <3>1. t.payment \in Payments /\ t.amount \in Nat
      BY RefundAssumption DEF Task, RefundAssumption
    <3>2. Spent(t.payment) + t.amount <= Paid[t.payment]
      BY <1>4 DEF Affordable
    <3> QED BY <1>1, <1>2, <3>1, <3>2
  <2> QED BY <1>4, <2>1 DEF Affordable
<1> QED BY <1>3, <1>4

\* A refund that is created adds its amount to what its payment spent.
LEMMA SpentCreated ==
  ASSUME TypeOK, TypeOK', NEW f \in Refunds, refunds[f] = None, NEW row,
         refunds' = [refunds EXCEPT ![f] = row], row # None, row.status = "PENDING"
  PROVE  \A p : Spent(p)' = IF p = row.payment THEN Spent(p) + row.amount ELSE Spent(p)
<1>1. /\ Created' = Created \cup {f} /\ f \notin Created
      /\ refunds'[f] = row /\ \A g \in Created : refunds'[g] = refunds[g]
  BY DEF TypeOK, Created
<1>2. row.amount \in Nat /\ AmountOf'[f] = row.amount
  <2>1. row \in RefundRow /\ Amounts \subseteq Nat
    BY <1>1, RefundAssumption DEF TypeOK, RefundAssumption
  <2>2. AmountOf'[f] = refunds'[f].amount
    BY <1>1 DEF AmountOf
  <2> QED BY <1>1, <2>1, <2>2 DEF RefundRow
<1>3. ASSUME NEW p
      PROVE  Spent(p)' = IF p = row.payment THEN Spent(p) + row.amount ELSE Spent(p)
  <2> DEFINE S == LiveOf(p)
  <2>1. S \subseteq Created /\ IsFiniteSet(S) /\ f \notin S
    BY <1>1, RowFields, FS_Subset DEF LiveOf
  <2>2. LiveOf(p)' = IF p = row.payment THEN S \cup {f} ELSE S
    BY <1>1 DEF LiveOf
  <2>3. \A g \in S : AmountOf'[g] = AmountOf[g] /\ AmountOf'[g] \in Int
    <3>1. \A g \in Created : AmountOf'[g] = AmountOf[g]
      BY <1>1 DEF AmountOf
    <3>2. \A g \in Created : AmountOf[g] \in Nat
      BY RowFields
    <3> QED BY <2>1, <3>1, <3>2
  <2>4. Spent(p) = SumFunctionOnSet(AmountOf, S) /\ Spent(p)' = SumFunctionOnSet(AmountOf', LiveOf(p)')
    BY DEF Spent
  <2> HIDE DEF S
  <2>5. SumFunctionOnSet(AmountOf', S) = SumFunctionOnSet(AmountOf, S)
    BY <2>1, <2>3, SumAgree
  <2>6. SumFunctionOnSet(AmountOf', S \cup {f}) = SumFunctionOnSet(AmountOf', S) + AmountOf'[f]
    BY <1>2, <2>1, <2>3, SumAdd
  <2> QED BY <1>2, <2>2, <2>4, <2>5, <2>6
<1> QED BY <1>3

\* The units of some of the return requests.
UnitsOf == [r \in Filed |-> returns[r].qty]
\* The requests whose units count as returned.
Counted == {r \in Filed : returns[r].status \in ActiveReturn}

\* The units that count are those of these requests.
LEMMA UnitsType ==
  ASSUME TypeOK
  PROVE  /\ UnitsIn(ActiveReturn) = SumFunctionOnSet(UnitsOf, Counted)
         /\ UnitsIn(ActiveReturn) \in Nat
         /\ \A S \in SUBSET Counted : /\ SumFunctionOnSet(UnitsOf, S) \in Nat
                                    /\ SumFunctionOnSet(UnitsOf, S) <= UnitsIn(ActiveReturn)
<1>1. UnitsIn(ActiveReturn) = SumFunctionOnSet(UnitsOf, Counted)
  BY DEF UnitsIn, UnitsOf, Counted
<1>2. Counted \subseteq Filed
  BY DEF Counted
<1>3. IsFiniteSet(Counted) /\ \A r \in Counted : UnitsOf[r] \in Nat
  BY <1>2, RowFields, FS_Subset DEF UnitsOf
<1>4. SumFunctionOnSet(UnitsOf, Counted) \in Nat
  BY <1>3, SumNat
<1>5. \A S \in SUBSET Counted : /\ SumFunctionOnSet(UnitsOf, S) \in Nat
                               /\ SumFunctionOnSet(UnitsOf, S) <= SumFunctionOnSet(UnitsOf, Counted)
  BY <1>3, SumSmaller
<1> QED BY <1>1, <1>4, <1>5

\* A return request that moves on brings no units back that did not count.
LEMMA UnitsKept ==
  ASSUME TypeOK, TypeOK', Filed' = Filed, \A r \in Filed : returns'[r].qty = returns[r].qty,
         Counted' \subseteq Counted
  PROVE  ReturnedWithinOrdered => ReturnedWithinOrdered'
<1> DEFINE S == Counted'
<1>1. S \in SUBSET Counted /\ S \subseteq Filed /\ IsFiniteSet(S)
  BY RowFields, FS_Subset DEF Counted
<1>2. \A r \in S : UnitsOf'[r] = UnitsOf[r]
  BY <1>1 DEF UnitsOf
<1>3. UnitsIn(ActiveReturn)' = SumFunctionOnSet(UnitsOf', S)
  BY DEF UnitsIn, UnitsOf, Counted
<1> HIDE DEF S
<1>4. SumFunctionOnSet(UnitsOf', S) = SumFunctionOnSet(UnitsOf, S)
  BY <1>1, <1>2, SumAgree
<1>5. SumFunctionOnSet(UnitsOf, S) <= UnitsIn(ActiveReturn) /\ UnitsIn(ActiveReturn) \in Nat
  BY <1>1, UnitsType
<1>6. Qty \in Nat
  BY RefundAssumption DEF RefundAssumption
<1>7. SumFunctionOnSet(UnitsOf, S) \in Nat
  BY <1>1, UnitsType
<1> QED BY <1>3, <1>4, <1>5, <1>6, <1>7 DEF ReturnedWithinOrdered

\* One that is filed adds its units.
LEMMA UnitsFiled ==
  ASSUME TypeOK, TypeOK', NEW r \in Returns, returns[r] = None, NEW row, row # None,
         row.status = "PENDING", returns' = [returns EXCEPT ![r] = row]
  PROVE  UnitsIn(ActiveReturn)' = UnitsIn(ActiveReturn) + row.qty
<1>1. /\ Filed' = Filed \cup {r} /\ r \notin Filed
      /\ returns'[r] = row /\ \A q \in Filed : returns'[q] = returns[q]
  BY DEF TypeOK, Filed
<1>2. row.qty \in Nat /\ UnitsOf'[r] = row.qty
  <2>1. row \in ReturnRow /\ Qty \in Nat
    BY <1>1, RefundAssumption DEF TypeOK, RefundAssumption
  <2>2. UnitsOf'[r] = returns'[r].qty
    BY <1>1 DEF UnitsOf
  <2> QED BY <1>1, <2>1, <2>2 DEF ReturnRow
<1> DEFINE S == Counted
<1>3. S \subseteq Filed /\ r \notin S /\ IsFiniteSet(S)
  BY <1>1, RowFields, FS_Subset DEF Counted
<1>4. Counted' = S \cup {r}
  BY <1>1 DEF Counted, ActiveReturn, Blocking
<1>5. \A q \in S : UnitsOf'[q] = UnitsOf[q] /\ UnitsOf'[q] \in Int
  <2>1. \A q \in Filed : UnitsOf'[q] = UnitsOf[q] /\ UnitsOf[q] \in Nat
    BY <1>1, RowFields DEF UnitsOf
  <2> QED BY <1>3, <2>1
<1>6. UnitsIn(ActiveReturn) = SumFunctionOnSet(UnitsOf, S)
  BY UnitsType
<1>7. UnitsIn(ActiveReturn)' = SumFunctionOnSet(UnitsOf', Counted')
  BY DEF UnitsIn, UnitsOf, Counted
<1> HIDE DEF S
<1>8. SumFunctionOnSet(UnitsOf', S) = SumFunctionOnSet(UnitsOf, S)
  BY <1>3, <1>5, SumAgree
<1>9. SumFunctionOnSet(UnitsOf', S \cup {r}) = SumFunctionOnSet(UnitsOf', S) + UnitsOf'[r]
  BY <1>2, <1>3, <1>5, SumAdd
<1> QED BY <1>2, <1>4, <1>6, <1>7, <1>8, <1>9

-----------------------------------------------------------------------------
(* Steps that only read.                                                    *)

\* What is said of the tables stays when the tables do.
LEMMA TablesSame ==
  ASSUME UNCHANGED <<returns, refunds>>
  PROVE  /\ Created' = Created /\ Filed' = Filed
         /\ UnitsIn(ActiveReturn)' = UnitsIn(ActiveReturn)
         /\ \A r : HasRefund(r)' <=> HasRefund(r)
         /\ \A p : Spent(p)' = Spent(p)
         /\ \A todo : Affordable(todo)' <=> Affordable(todo)
<1>1. Created' = Created /\ Filed' = Filed
  BY DEF Created, Filed
<1>2. UnitsIn(ActiveReturn)' = UnitsIn(ActiveReturn)
  BY <1>1 DEF UnitsIn
<1>3. \A r : HasRefund(r)' <=> HasRefund(r)
  BY <1>1 DEF HasRefund
<1>4. \A p : Spent(p)' = Spent(p)
  BY <1>1 DEF Spent, LiveOf, AmountOf
<1>5. \A todo : Affordable(todo)' <=> Affordable(todo)
  BY <1>4 DEF Affordable
<1> QED BY <1>1, <1>2, <1>3, <1>4, <1>5

\* A step of w that leaves the tables alone, as long as what w has read is true.
LEMMA ReadStep ==
  ASSUME TypeOK, SerialInv, OneAtATime, NEW w \in Workers, NEW local,
         Goto(w, local), req[w] # local,
         UNCHANGED <<returns, refunds, gateway, pay, orderPaid>>,
         req[w].op \notin {"kick", "answer"}, ReadsTrue(w)'
  PROVE  SerialInv'
<1>1. /\ Single' /\ req'[w] = local
      /\ \A v \in Workers : v # w => req[v] = Idle /\ req'[v] = Idle
  BY Alone DEF SerialInv, TypeOK
<1>2. \A v \in Workers : ReadsTrue(v)'
  BY <1>1, IdleReadsNext
<1>3. \A f \in Created' : RowTells(f)'
  <2>1. Created' = Created
    BY TablesSame
  <2>2. ASSUME NEW f \in Created PROVE RowTells(f)'
    <3>1. RowTells(f)
      BY DEF SerialInv
    <3>2. refunds[f].status # "PENDING"
      <4>1. ASSUME NEW v \in Workers, req[v].op \in {"kick", "answer"} PROVE v = w
        BY <1>1, <4>1 DEF Idle
      <4> QED BY <3>1, <4>1 DEF RowTells
    <3> QED BY <3>1, <3>2 DEF RowTells
  <2> QED BY <2>1, <2>2
<1>4. ReturnsOnce' /\ SpentWithinPaid' /\ ReturnedWithinOrdered' /\ RefundedMeansAllPayments'
  BY TablesSame DEF SerialInv, ReturnsOnce, SpentWithinPaid, ReturnedWithinOrdered,
                    RefundedMeansAllPayments
<1> QED BY <1>1, <1>2, <1>3, <1>4 DEF SerialInv

\* When no refund is being started none is PENDING, and what is taken off a
\* payment's balance is what was spent of it.
LEMMA NonePending ==
  ASSUME TypeOK, SerialInv, NEW w \in Workers, \A v \in Workers : v # w => req[v] = Idle,
         req[w].op \notin {"kick", "answer"}
  PROVE  /\ \A f \in Created : refunds[f].status \in {"PROCESSING", "COMPLETED", "FAILED"}
         /\ \A p : Refunded(p) = Spent(p)
<1>1. ASSUME NEW f \in Created PROVE refunds[f].status \in {"PROCESSING", "COMPLETED", "FAILED"}
  <2>1. RowTells(f)
    BY DEF SerialInv
  <2>2. ASSUME NEW v \in Workers PROVE req[v].op \notin {"kick", "answer"}
    BY DEF Idle
  <2>3. refunds[f].status \in RefundStatus
    BY RowFields DEF RefundRow
  <2> QED BY <2>1, <2>2, <2>3 DEF RowTells, RefundStatus
<1>2. \A p : LiveOf(p) = {f \in Created : /\ refunds[f].payment = p
                                          /\ refunds[f].status \in {"PROCESSING", "COMPLETED"}}
  BY <1>1 DEF LiveOf
<1> QED BY <1>1, <1>2 DEF Refunded, Spent

\* The handlers of return requests that only read.
LEMMA ReturnReads ==
  ASSUME TypeOK, SerialInv, OneAtATime, NEW w \in Workers,
         \/ \E qty \in 1 .. Qty : FileRead(w, qty)
         \/ \E r \in Returns :
              \/ CancelReturnRead(w, r)
              \/ \E decision \in {"APPROVED", "REJECTED"} : ReviewRead(w, r, decision)
              \/ ReceiveRead(w, r)
         \/ \E to \in Reports : CourierRead(w, to)
         \/ CourierCommit(w)
         \/ CancelOrder(w)
  PROVE  SerialInv'
<1> USE DEF orderVars
<1>0. Idle.op = "idle" /\ req \in [Workers -> Request]
  BY DEF Idle, TypeOK
<1>1. ASSUME NEW qty \in 1 .. Qty, FileRead(w, qty) PROVE SerialInv'
  <2> DEFINE local == [op |-> "file", qty |-> qty, prev |-> status]
  <2>1. /\ Goto(w, local) /\ req[w].op = "idle" /\ req[w] # local
        /\ local.op = "file" /\ local.qty = qty
        /\ UNCHANGED <<returns, refunds, gateway, pay, orderPaid>>
        /\ UnitsIn(ActiveReturn) + qty <= Qty
    BY <1>0, <1>1 DEF FileRead, ReturnedUnits, Idle
  <2> HIDE DEF local
  <2>2. req'[w] = local
    BY <1>0, <2>1 DEF Goto
  <2>3. ReadsTrue(w)'
    BY <2>1, <2>2, TablesSame DEF ReadsTrue, Finishing
  <2> QED BY <2>1, <2>3, ReadStep
<1>2. ASSUME NEW r \in Returns, NEW to, returns[r].status = "PENDING", req[w] = Idle,
             Goto(w, [op |-> "decide", ret |-> r, to |-> to]),
             UNCHANGED <<returns, refunds, gateway, pay, orderPaid>>
      PROVE SerialInv'
  <2> DEFINE local == [op |-> "decide", ret |-> r, to |-> to]
  <2>1. Goto(w, local) /\ req[w] # local /\ local.op = "decide" /\ local.ret = r
    BY <1>0, <1>2 DEF Idle
  <2> HIDE DEF local
  <2>2. req'[w] = local
    BY <1>0, <2>1 DEF Goto
  <2>3. ReadsTrue(w)'
    BY <1>2, <2>1, <2>2 DEF ReadsTrue, Finishing
  <2> QED BY <1>0, <1>2, <2>1, <2>3, ReadStep
<1>3. ASSUME NEW r \in Returns,
             CancelReturnRead(w, r) \/ \E decision \in {"APPROVED", "REJECTED"} : ReviewRead(w, r, decision)
      PROVE SerialInv'
  BY <1>2, <1>3 DEF CancelReturnRead, ReviewRead
<1>4. ASSUME NEW r \in Returns, ReceiveRead(w, r) PROVE SerialInv'
  <2> DEFINE local == [op |-> "receive", ret |-> r]
  <2>1. /\ Goto(w, local) /\ req[w].op = "idle" /\ req[w] # local
        /\ local.op = "receive" /\ local.ret = r /\ returns[r].status = "APPROVED"
        /\ UNCHANGED <<returns, refunds, gateway, pay, orderPaid>>
    BY <1>0, <1>4 DEF ReceiveRead, Idle
  <2> HIDE DEF local
  <2>2. req'[w] = local
    BY <1>0, <2>1 DEF Goto
  <2>3. ReadsTrue(w)'
    BY <2>1, <2>2 DEF ReadsTrue, Finishing
  <2> QED BY <2>1, <2>3, ReadStep
<1>5. ASSUME NEW local, Goto(w, local), req[w] # local, req[w].op \notin {"kick", "answer"},
             local.op \in {"idle", "courier", "refundAll"},
             UNCHANGED <<returns, refunds, gateway, pay, orderPaid>>
      PROVE SerialInv'
  <2>1. req'[w] = local
    BY <1>0, <1>5 DEF Goto
  <2>2. ReadsTrue(w)'
    BY <1>5, <2>1 DEF ReadsTrue, Finishing
  <2> QED BY <1>5, <2>2, ReadStep
<1>6. ASSUME NEW to \in Reports, CourierRead(w, to) PROVE SerialInv'
  <2>1. PICK restore : Goto(w, [op |-> "courier", to |-> to, restore |-> restore])
    BY <1>6 DEF CourierRead
  <2> DEFINE local == [op |-> "courier", to |-> to, restore |-> restore]
  <2>2. local.op = "courier" /\ req[w] # local /\ Goto(w, local)
    BY <1>0, <1>6, <2>1 DEF CourierRead
  <2>3. UNCHANGED <<returns, refunds, gateway, pay, orderPaid>> /\ req[w].op = "idle"
    BY <1>0, <1>6 DEF CourierRead
  <2> HIDE DEF local
  <2> QED BY <1>5, <2>2, <2>3
<1>7. CASE CourierCommit(w)
  <2>1. /\ Goto(w, Idle) /\ req[w].op = "courier" /\ req[w] # Idle
        /\ UNCHANGED <<returns, refunds, gateway, pay, orderPaid>>
    BY <1>0, <1>7 DEF CourierCommit
  <2> QED BY <1>0, <1>5, <2>1
<1>8. CASE CancelOrder(w)
  <2> DEFINE local == [op |-> "refundAll"]
  <2>1. /\ Goto(w, local) /\ req[w].op = "idle" /\ req[w] # local /\ local.op = "refundAll"
        /\ UNCHANGED <<returns, refunds, gateway, pay, orderPaid>>
    BY <1>0, <1>8 DEF CancelOrder
  <2> HIDE DEF local
  <2> QED BY <1>5, <2>1
<1> QED BY <1>1, <1>3, <1>4, <1>6, <1>7, <1>8

\* A refund that is to be made of one payment can be afforded.
LEMMA OneTask ==
  ASSUME NEW p \in Payments, NEW amount, Spent(p) + amount <= Paid[p]
  PROVE  Affordable({[payment |-> p, amount |-> amount]})
<1> DEFINE t == [payment |-> p, amount |-> amount]
<1>1. t.payment = p /\ t.amount = amount
  OBVIOUS
<1> HIDE DEF t
<1>2. Affordable({t})
  BY <1>1 DEF Affordable
<1> QED BY <1>2 DEF t

\* A refund is begun, of what can be afforded.
LEMMA BeginRefund ==
  ASSUME TypeOK, SerialInv, OneAtATime, NEW w \in Workers, NEW todo, NEW ret,
         Goto(w, Refunding(todo, ret)), req[w].op \in {"idle", "refundAll"},
         UNCHANGED <<returns, refunds, gateway, pay, orderPaid>>,
         Affordable(todo), req[w].op = "idle" => todo # {},
         ret # None => returns[ret].status \in ReceivedStatus /\ ~HasRefund(ret)
  PROVE  SerialInv'
<1> DEFINE local == Refunding(todo, ret)
<1>1. \/ local.op = "refund" /\ local.todo = todo /\ local.ret = ret
      \/ local.op = "idle"
  BY DEF Refunding, Idle
<1>2. req[w] # local
  BY DEF Refunding, Idle
<1> HIDE DEF local
<1>3. req'[w] = local
  BY DEF Goto, TypeOK, local
<1>4. ReadsTrue(w)'
  BY <1>1, <1>3, TablesSame DEF ReadsTrue, Finishing
<1> QED BY <1>2, <1>4, ReadStep DEF local

\* The handlers that begin a refund.
LEMMA BeginReads ==
  ASSUME TypeOK, SerialInv, OneAtATime, NEW w \in Workers,
         \/ \E r \in Returns, p \in Payments, amount \in Amounts : ReturnRefundRead(w, r, p, amount)
         \/ \E p \in Payments, amount \in Amounts : DirectRefundRead(w, p, amount)
         \/ RefundAllRead(w)
  PROVE  SerialInv'
<1> USE DEF orderVars
<1>0. Idle.op = "idle" /\ Payments \subseteq Nat /\ Amounts \subseteq Nat
      /\ \A p \in Payments : Paid[p] \in Nat
  BY RefundAssumption DEF Idle, RefundAssumption
<1>1. \A p : Spent(p) \in Nat
  BY SpentType
<1>2. ASSUME NEW local, Goto(w, local), req[w] # local, req[w].op \notin {"kick", "answer"}
      PROVE  \A p \in Payments : Remaining(p) = Paid[p] - Spent(p)
  <2>1. \A v \in Workers : v # w => req[v] = Idle
    BY <1>2, Alone DEF SerialInv, TypeOK
  <2>2. \A p : Refunded(p) = Spent(p)
    BY <1>2, <2>1, NonePending
  <2> QED BY <2>2 DEF Remaining
<1>3. ASSUME NEW p \in Payments, NEW amount \in Amounts, NEW ret, req[w] = Idle,
             Goto(w, Refunding({[payment |-> p, amount |-> amount]}, ret)),
             amount <= Remaining(p), UNCHANGED <<returns, refunds, gateway, pay, orderPaid>>,
             ret # None => returns[ret].status \in ReceivedStatus /\ ~HasRefund(ret)
      PROVE SerialInv'
  <2> DEFINE todo == {[payment |-> p, amount |-> amount]}
  <2>0. todo # {}
    OBVIOUS
  <2>1. req[w] # Refunding(todo, ret) /\ todo # {}
    <3> HIDE DEF todo
    <3>1. Refunding(todo, ret).op = "refund"
      BY <2>0 DEF Refunding
    <3> QED BY <1>0, <1>3, <2>0, <3>1
  <2>2. Spent(p) + amount <= Paid[p]
    BY <1>0, <1>1, <1>2, <1>3, <2>1
  <2>3. Affordable(todo)
    BY <2>2, OneTask
  <2> HIDE DEF todo
  <2>4. Goto(w, Refunding(todo, ret))
    BY <1>3 DEF todo
  <2> QED BY <1>0, <1>3, <2>1, <2>3, <2>4, BeginRefund
<1>4. ASSUME NEW r \in Returns, NEW p \in Payments, NEW amount \in Amounts,
             ReturnRefundRead(w, r, p, amount)
      PROVE SerialInv'
  BY <1>3, <1>4 DEF ReturnRefundRead, ReceivedStatus
<1>5. ASSUME NEW p \in Payments, NEW amount \in Amounts, DirectRefundRead(w, p, amount)
      PROVE SerialInv'
  BY <1>3, <1>5 DEF DirectRefundRead
<1>6. CASE RefundAllRead(w)
  <2> DEFINE todo == {t \in Task : t.payment \in Refundable /\ t.amount = Remaining(t.payment)}
  <2>1. /\ req[w].op = "refundAll" /\ Goto(w, Refunding(todo, None))
        /\ UNCHANGED <<returns, refunds, gateway, pay, orderPaid>>
    BY <1>6 DEF RefundAllRead
  <2>2. req[w] # Refunding(todo, None)
    BY <2>1 DEF Refunding, Idle
  <2>3. \A p \in Payments : Remaining(p) = Paid[p] - Spent(p)
    BY <1>2, <2>1, <2>2
  <2>4. ASSUME NEW t \in todo
        PROVE  /\ t.payment \in Payments /\ t.amount = Remaining(t.payment)
               /\ t = [payment |-> t.payment, amount |-> t.amount]
    BY DEF Task
  <2>5. \A t \in todo : Spent(t.payment) + t.amount <= Paid[t.payment]
    BY <1>0, <1>1, <2>3, <2>4
  <2>6. \A t, u \in todo : t.payment = u.payment => t = u
    BY <2>4
  <2> HIDE DEF todo
  <2>7. Affordable(todo)
    BY <2>5, <2>6 DEF Affordable
  <2> QED BY <2>1, <2>7, BeginRefund
<1> QED BY <1>4, <1>5, <1>6

\* The handlers that are about to finish a refund.
LEMMA FinishReads ==
  ASSUME TypeOK, RequestsRefer, SerialInv, OneAtATime, NEW w \in Workers,
         \/ \E f \in Refunds : CompleteRead(w, f) \/ SyncRead(w, f)
         \/ FinalizeSum(w)
         \/ FinalizeRead(w)
  PROVE  SerialInv'
<1> USE DEF orderVars
<1>0. /\ Idle.op = "idle" /\ req \in [Workers -> Request]
      /\ None # "refunded" /\ ReadsTrue(w)
  BY RefundAssumption DEF Idle, RefundAssumption, TypeOK, SerialInv
<1>1. ASSUME NEW f \in Refunds, CompleteRead(w, f) \/ SyncRead(w, f) PROVE SerialInv'
  <2>1. PICK local : /\ Goto(w, local) /\ req[w].op = "idle" /\ req[w] # local
                     /\ local.refund = f
                     /\ \/ local.op = "fail" /\ gateway[f] = "failed" /\ refunds[f].ref
                        \/ /\ local.op = "finalize"
                           /\ refunds[f].payment \notin Online \/ gateway[f] = "refunded"
    <3>1. /\ [op |-> "finalize", refund |-> f].op = "finalize"
          /\ [op |-> "finalize", refund |-> f].refund = f
          /\ [op |-> "fail", refund |-> f].op = "fail"
          /\ [op |-> "fail", refund |-> f].refund = f
      OBVIOUS
    <3>2. CASE CompleteRead(w, f)
      BY <1>0, <3>1, <3>2 DEF CompleteRead
    <3>3. CASE SyncRead(w, f)
      BY <1>0, <3>1, <3>3 DEF SyncRead
    <3> QED BY <1>1, <3>2, <3>3
  <2>2. /\ f \in Created /\ refunds[f].status # "COMPLETED"
        /\ UNCHANGED <<returns, refunds, gateway, pay, orderPaid>>
    BY <1>1 DEF CompleteRead, SyncRead
  <2>3. /\ \A v \in Workers : v # w => req[v] = Idle
        /\ req'[w] = local
    BY <2>1, Alone DEF SerialInv, TypeOK
  <2>4. refunds[f].status \in {"PROCESSING", "FAILED"}
    BY <2>1, <2>2, <2>3, NonePending
  <2>5. RowTells(f)
    BY <2>2 DEF SerialInv
  <2>6. local.op = "finalize" => refunds[f].status = "PROCESSING"
    BY <1>0, <2>1, <2>4, <2>5 DEF RowTells
  <2>7. local.op = "fail" => refunds[f].payment \in Online
    BY <2>1, <2>5 DEF RowTells
  <2>8. ReadsTrue(w)'
    BY <2>1, <2>2, <2>3, <2>6, <2>7 DEF ReadsTrue, Finishing
  <2> QED BY <2>1, <2>2, <2>8, ReadStep
<1>2. CASE FinalizeSum(w)
  <2> DEFINE local == [op |-> "lockPayment", refund |-> req[w].refund,
                       pay |-> PayAfter(req[w].refund)]
  <2>1. /\ Goto(w, local) /\ req[w].op = "finalize" /\ req[w] # local
        /\ local.op = "lockPayment" /\ local.refund = req[w].refund
        /\ UNCHANGED <<returns, refunds, gateway, pay, orderPaid>>
    BY <1>2 DEF FinalizeSum
  <2>2. refunds[req[w].refund].status = "PROCESSING"
    BY <1>0, <2>1 DEF ReadsTrue, Finishing
  <2> HIDE DEF local
  <2>3. req'[w] = local
    BY <1>0, <2>1 DEF Goto
  <2>4. ReadsTrue(w)'
    BY <2>1, <2>2, <2>3 DEF ReadsTrue, Finishing
  <2> QED BY <2>1, <2>4, ReadStep
<1>3. CASE FinalizeRead(w)
  <2> DEFINE f == req[w].refund
             after == req[w].pay
             paid == OrderPaidAfter(refunds[f].payment, after)
  <2>1. PICK restore :
          Goto(w, [op |-> "commit", refund |-> f, pay |-> after, paid |-> paid, restore |-> restore])
    BY <1>3 DEF FinalizeRead
  <2> DEFINE local == [op |-> "commit", refund |-> f, pay |-> after, paid |-> paid,
                       restore |-> restore]
  <2>2. /\ Goto(w, local) /\ req[w].op = "lockPayment" /\ req[w] # local
        /\ local.op = "commit" /\ local.refund = f /\ local.pay = after /\ local.paid = paid
        /\ UNCHANGED <<returns, refunds, gateway, pay, orderPaid>>
    BY <1>3, <2>1 DEF FinalizeRead
  <2>3. refunds[f].status = "PROCESSING"
    BY <1>0, <2>2 DEF ReadsTrue, Finishing
  <2>4. paid = "REFUNDED" => /\ after = "REFUNDED"
                             /\ \A q \in Payments : pay[q] = "REFUNDED" \/ q = refunds[f].payment
    BY DEF OrderPaidAfter
  <2> HIDE DEF local, f, after, paid
  <2>5. req'[w] = local
    BY <1>0, <2>2 DEF Goto
  <2>6. ReadsTrue(w)'
    BY <2>2, <2>3, <2>4, <2>5 DEF ReadsTrue, Finishing
  <2> QED BY <2>2, <2>6, ReadStep
<1> QED BY <1>1, <1>2, <1>3

-----------------------------------------------------------------------------
(* Steps that write the return requests.                                    *)

\* What is said of the refunds stays when they do.
LEMMA RefundsSame ==
  ASSUME UNCHANGED refunds
  PROVE  Created' = Created /\ (SpentWithinPaid => SpentWithinPaid')
<1>1. Created' = Created
  BY DEF Created
<1>2. \A p : Spent(p)' = Spent(p)
  BY <1>1 DEF Spent, LiveOf, AmountOf
<1> QED BY <1>1, <1>2 DEF SpentWithinPaid

\* A handler of return requests that is done leaves the refunds as they are.
LEMMA RefundsRest ==
  ASSUME TypeOK, SerialInv, OneAtATime, NEW w \in Workers, Goto(w, Idle), req[w] # Idle,
         req[w].op \notin {"kick", "answer"}, UNCHANGED <<refunds, gateway, pay, orderPaid>>
  PROVE  /\ Single' /\ \A v \in Workers : ReadsTrue(v)'
         /\ \A f \in Created' : RowTells(f)'
         /\ SpentWithinPaid' /\ RefundedMeansAllPayments'
         /\ Created' = Created
<1>1. /\ Single' /\ req'[w] = Idle
      /\ \A v \in Workers : v # w => req[v] = Idle /\ req'[v] = Idle
  BY Alone DEF SerialInv, TypeOK
<1>2. \A v \in Workers : ReadsTrue(v)'
  BY <1>1, IdleReadsNext
<1>3. Created' = Created /\ SpentWithinPaid'
  BY RefundsSame DEF SerialInv
<1>4. \A f \in Created : RowTells(f)'
  <2>1. \A f \in Created : refunds[f].status # "PENDING" /\ RowTells(f)
    BY <1>1, NonePending DEF SerialInv
  <2> QED BY <2>1 DEF RowTells
<1>5. RefundedMeansAllPayments'
  BY DEF SerialInv, RefundedMeansAllPayments
<1> QED BY <1>1, <1>2, <1>3, <1>4, <1>5

\* A return request is filed.
LEMMA FileStep ==
  ASSUME TypeOK, TypeOK', RowsRefer, SerialInv, OneAtATime, NEW w \in Workers,
         NEW r \in Returns, FileCommit(w, r)
  PROVE  SerialInv'
<1> DEFINE row == [qty |-> req[w].qty, status |-> "PENDING", prev |-> req[w].prev]
<1>1. /\ Goto(w, Idle) /\ req[w].op = "file" /\ req[w] # Idle
      /\ UNCHANGED <<refunds, gateway, pay, orderPaid>>
      /\ returns[r] = None /\ returns' = [returns EXCEPT ![r] = row]
      /\ row.status = "PENDING" /\ row.qty = req[w].qty
  BY DEF FileCommit, Idle
<1>2. row \in ReturnRow
  BY <1>1, RequestFields DEF TypeOK, ReturnRow, ReturnStatus
<1> HIDE DEF row
<1>3. row # None
  BY <1>2, RefundAssumption DEF RefundAssumption
<1>4. /\ Single' /\ \A v \in Workers : ReadsTrue(v)'
      /\ \A f \in Created' : RowTells(f)'
      /\ SpentWithinPaid' /\ RefundedMeansAllPayments'
      /\ Created' = Created
  BY <1>1, RefundsRest
<1>5. ReturnedWithinOrdered'
  <2>1. UnitsIn(ActiveReturn) + req[w].qty <= Qty
    BY <1>1 DEF SerialInv, ReadsTrue
  <2>2. UnitsIn(ActiveReturn)' = UnitsIn(ActiveReturn) + req[w].qty
    BY <1>1, <1>3, UnitsFiled
  <2> QED BY <2>1, <2>2 DEF ReturnedWithinOrdered
<1>6. ReturnsOnce'
  <2>1. ASSUME NEW f \in Created, refunds[f].ret # None
        PROVE  returns'[refunds[f].ret].status \in ReceivedStatus
    <3>1. returns[refunds[f].ret].status \in ReceivedStatus
      BY <2>1 DEF SerialInv, ReturnsOnce
    <3>2. refunds[f].ret \in Returns /\ f \in Refunds /\ refunds[f] # None
      BY <2>1, RowFields DEF Created
    <3>3. returns[refunds[f].ret] # None
      BY <2>1, <3>2 DEF RowsRefer
    <3> QED BY <1>1, <3>1, <3>2, <3>3 DEF TypeOK
  <2> QED BY <1>1, <1>4, <2>1 DEF SerialInv, ReturnsOnce
<1> QED BY <1>4, <1>5, <1>6 DEF SerialInv

\* A return request is decided on, or its units are received.
LEMMA ReturnMoves ==
  ASSUME TypeOK, TypeOK', RowsRefer, SerialInv, OneAtATime, NEW w \in Workers,
         Goto(w, Idle), req[w] # Idle, req[w].op \notin {"kick", "answer"},
         UNCHANGED <<refunds, gateway, pay, orderPaid>>,
         NEW r \in Filed, returns[r].status \in {"PENDING", "APPROVED"}, NEW s \in ReturnStatus,
         returns' = [returns EXCEPT ![r] = [@ EXCEPT !.status = s]]
  PROVE  SerialInv'
<1>1. /\ Single' /\ \A v \in Workers : ReadsTrue(v)'
      /\ \A f \in Created' : RowTells(f)'
      /\ SpentWithinPaid' /\ RefundedMeansAllPayments'
      /\ Created' = Created
  BY RefundsRest
<1>2. r \in Returns /\ returns[r] \in ReturnRow
  BY RowFields
<1>3. /\ returns'[r] = [returns[r] EXCEPT !.status = s]
      /\ \A q \in Returns : q # r => returns'[q] = returns[q]
  BY <1>2 DEF TypeOK
<1>4. returns'[r].qty = returns[r].qty /\ returns'[r] \in ReturnRow
  BY <1>2, <1>3 DEF ReturnRow
<1>5. Filed' = Filed
  BY <1>2, <1>3, <1>4, RefundAssumption DEF Filed, RefundAssumption
<1>6. r \in Counted
  BY DEF Counted, ActiveReturn, Blocking
<1>7. Counted' \subseteq Counted
  BY <1>3, <1>5, <1>6 DEF Counted, Filed
<1>8. \A q \in Filed : returns'[q].qty = returns[q].qty
  BY <1>3, <1>4 DEF Filed
<1>9. ReturnedWithinOrdered'
  BY <1>5, <1>7, <1>8, UnitsKept DEF SerialInv
<1>10. ReturnsOnce'
  <2>1. ASSUME NEW f \in Created, refunds[f].ret # None
        PROVE  returns'[refunds[f].ret].status \in ReceivedStatus
    <3>1. returns[refunds[f].ret].status \in ReceivedStatus
      BY <2>1 DEF SerialInv, ReturnsOnce
    <3>2. refunds[f].ret \in Returns
      BY <2>1, RowFields
    <3>3. returns[r].status \notin ReceivedStatus
      BY DEF ReceivedStatus
    <3>4. refunds[f].ret # r
      BY <3>1, <3>3
    <3> QED BY <1>3, <3>1, <3>2, <3>4
  <2> QED BY <1>1, <2>1 DEF SerialInv, ReturnsOnce
<1> QED BY <1>1, <1>9, <1>10 DEF SerialInv

\* The handlers of return requests that write.
LEMMA ReturnsWritten ==
  ASSUME TypeOK, TypeOK', RowsRefer, RequestsRefer, SerialInv, OneAtATime, NEW w \in Workers,
         DecideCommit(w) \/ ReceiveCommit(w)
  PROVE  SerialInv'
<1>1. /\ Goto(w, Idle) /\ req[w].op \in {"decide", "receive"} /\ req[w] # Idle
      /\ UNCHANGED <<refunds, gateway, pay, orderPaid>>
  BY DEF DecideCommit, ReceiveCommit, Idle
<1>2. req[w].ret \in Filed
  BY <1>1, RequestFields DEF RequestsRefer, Refers, TypeOK, Filed
<1>3. returns[req[w].ret].status \in {"PENDING", "APPROVED"}
  BY <1>1 DEF SerialInv, ReadsTrue
<1>4. CASE DecideCommit(w)
  <2>1. req[w].to \in ReturnStatus
    BY <1>4, RequestFields DEF DecideCommit, TypeOK, ReturnStatus
  <2>2. returns' = [returns EXCEPT ![req[w].ret] = [@ EXCEPT !.status = req[w].to]]
    BY <1>4 DEF DecideCommit
  <2> QED BY <1>1, <1>2, <1>3, <2>1, <2>2, ReturnMoves
<1>5. CASE ReceiveCommit(w)
  <2>1. "ITEM_RECEIVED" \in ReturnStatus
    BY DEF ReturnStatus
  <2>2. returns' = [returns EXCEPT ![req[w].ret] = [@ EXCEPT !.status = "ITEM_RECEIVED"]]
    BY <1>5 DEF ReceiveCommit
  <2> QED BY <1>1, <1>2, <1>3, <2>1, <2>2, ReturnMoves
<1> QED BY <1>4, <1>5

-----------------------------------------------------------------------------
(* Steps that write the refunds.                                            *)

\* A refund is created.
LEMMA CreateStep ==
  ASSUME TypeOK, TypeOK', SerialInv, OneAtATime, NEW w \in Workers, NEW f \in Refunds,
         CreateRefund(w, f)
  PROVE  SerialInv'
<1>0. req \in [Workers -> Request] /\ ReadsTrue(w)
  BY DEF TypeOK, SerialInv
<1>1. PICK t \in req[w].todo :
        /\ refunds' = [refunds EXCEPT ![f] =
                         [payment |-> t.payment, amount |-> t.amount, ret |-> req[w].ret,
                          status |-> "PENDING", ref |-> FALSE]]
        /\ Goto(w, [op |-> "kick", refund |-> f, todo |-> req[w].todo \ {t}])
  BY DEF CreateRefund
<1>a. PICK todo, ret : todo = req[w].todo /\ ret = req[w].ret
  OBVIOUS
<1> DEFINE row == [payment |-> t.payment, amount |-> t.amount, ret |-> ret,
                   status |-> "PENDING", ref |-> FALSE]
           local == [op |-> "kick", refund |-> f, todo |-> todo \ {t}]
<1>b. /\ req[w].op = "refund" /\ refunds[f] = None
      /\ UNCHANGED <<returns, gateway, pay, orderPaid>>
  BY DEF CreateRefund, orderVars
<1>c. /\ local.op = "kick" /\ local.refund = f /\ local.todo = todo \ {t}
      /\ row.payment = t.payment /\ row.amount = t.amount /\ row.ret = ret
      /\ row.status = "PENDING" /\ row.ref = FALSE
  OBVIOUS
<1>2. /\ req[w].op = "refund" /\ refunds[f] = None
      /\ UNCHANGED <<returns, gateway, pay, orderPaid>>
      /\ refunds' = [refunds EXCEPT ![f] = row] /\ Goto(w, local) /\ req[w] # local
      /\ local.op = "kick" /\ local.refund = f /\ local.todo = todo \ {t}
      /\ row.payment = t.payment /\ row.amount = t.amount /\ row.ret = ret
      /\ row.status = "PENDING" /\ row.ref = FALSE
  <2>1. req[w] # local
    BY <1>b, <1>c
  <2> QED BY <1>1, <1>a, <1>b, <1>c, <2>1
<1>3. todo \in SUBSET Task /\ ret \in Returns \cup {None}
  BY <1>0, <1>2, <1>a, RequestFields
<1>4. row \in RefundRow
  BY <1>3, <1>a DEF RefundRow, RefundStatus, Task
<1> HIDE DEF row, local
<1>5. row # None
  BY <1>4, RefundAssumption DEF RefundAssumption
<1>6. /\ Single' /\ req'[w] = local
      /\ \A v \in Workers : v # w => req[v] = Idle /\ req'[v] = Idle
  BY <1>0, <1>2, Alone DEF SerialInv
<1>7. /\ Created' = Created \cup {f} /\ f \notin Created
      /\ refunds'[f] = row /\ \A g \in Created : refunds'[g] = refunds[g]
  BY <1>2, <1>5 DEF TypeOK, Created
<1>8. \A p : Spent(p)' = IF p = t.payment THEN Spent(p) + t.amount ELSE Spent(p)
  BY <1>2, <1>5, SpentCreated
<1>9. Affordable(todo) /\ t \in todo
  BY <1>0, <1>2, <1>a DEF ReadsTrue
<1>10. Affordable(todo \ {t})'
  <2>1. ASSUME NEW u \in todo \ {t} PROVE Spent(u.payment)' = Spent(u.payment)
    BY <1>8, <1>9 DEF Affordable
  <2> QED BY <1>9, <2>1 DEF Affordable
<1>11. ReadsTrue(w)'
  BY <1>2, <1>6, <1>7, <1>10 DEF ReadsTrue, Finishing
<1>12. \A v \in Workers : ReadsTrue(v)'
  BY <1>6, <1>11, IdleReadsNext
<1>13. \A g \in Created' : RowTells(g)'
  <2>1. \A g \in Created : refunds[g].status # "PENDING" /\ RowTells(g)
    BY <1>2, <1>6, NonePending DEF SerialInv
  <2>2. \A g \in Created : RowTells(g)'
    BY <1>2, <1>7, <2>1 DEF RowTells
  <2>3. RowTells(f)'
    BY <1>2, <1>6, <1>7 DEF RowTells
  <2> QED BY <1>7, <2>2, <2>3
<1>14. ReturnsOnce'
  <2>1. ret # None => /\ returns[ret].status \in ReceivedStatus
                      /\ \A g \in Created : refunds[g].ret = ret => refunds[g].status = "FAILED"
    BY <1>0, <1>2, <1>a DEF ReadsTrue, HasRefund
  <2> QED BY <1>2, <1>7, <2>1 DEF SerialInv, ReturnsOnce
<1>15. SpentWithinPaid'
  BY <1>8, <1>9 DEF SerialInv, SpentWithinPaid, Affordable
<1>16. ReturnedWithinOrdered' /\ RefundedMeansAllPayments'
  BY <1>2 DEF SerialInv, ReturnedWithinOrdered, UnitsIn, Filed, RefundedMeansAllPayments
<1> QED BY <1>6, <1>12, <1>13, <1>14, <1>15, <1>16 DEF SerialInv

\* What a step that moves a refund on keeps of it.
Moves(f, row) ==
  /\ row \in RefundRow
  /\ row.payment = refunds[f].payment /\ row.amount = refunds[f].amount
  /\ row.ret = refunds[f].ret
  /\ row.status \in {"PROCESSING", "COMPLETED", "FAILED"}
  /\ row.payment \notin Online => ~row.ref /\ row.status # "FAILED"
  /\ row.status = "FAILED" => gateway[f] \in {None, "failed"}
  /\ row.status # "FAILED" => refunds[f].status # "FAILED"

\* The request that moves a refund on keeps the refunds' books.
LEMMA MoveBooks ==
  ASSUME TypeOK, SerialInv, OneAtATime, NEW w \in Workers, NEW local, Goto(w, local),
         req[w] # local, NEW f \in Created, NEW row, Moves(f, row),
         refunds' = [refunds EXCEPT ![f] = row], UNCHANGED gateway,
         req[w].op \in {"kick", "answer"} => req[w].refund = f
  PROVE  /\ Single' /\ req'[w] = local
         /\ \A v \in Workers : v # w => req[v] = Idle /\ req'[v] = Idle
         /\ \A g \in Created' : RowTells(g)'
         /\ SpentWithinPaid'
         /\ \A todo \in SUBSET Task : Affordable(todo) => Affordable(todo)'
         /\ KeepsLive
<1>1. /\ Single' /\ req'[w] = local
      /\ \A v \in Workers : v # w => req[v] = Idle /\ req'[v] = Idle
  BY Alone DEF SerialInv, TypeOK
<1>2. f \in Refunds /\ row # None /\ refunds[f] # None
  BY RefundAssumption DEF Moves, RefundAssumption, Created
<1>3. /\ Created' = Created /\ refunds'[f] = row
      /\ \A g \in Created : g # f => refunds'[g] = refunds[g]
  BY <1>2 DEF TypeOK, Created
<1>4. KeepsLive
  BY <1>3 DEF KeepsLive, Moves
<1>5. /\ SpentWithinPaid'
      /\ \A todo \in SUBSET Task : Affordable(todo) => Affordable(todo)'
  BY <1>4, BooksKept DEF SerialInv
<1>6. ASSUME NEW g \in Created PROVE RowTells(g)'
  <2>1. CASE g = f
    BY <1>3, <2>1 DEF RowTells, Moves
  <2>2. CASE g # f
    <3>1. RowTells(g)
      BY DEF SerialInv
    <3>2. refunds[g].status # "PENDING"
      <4>1. ASSUME NEW v \in Workers, req[v].op \in {"kick", "answer"}, req[v].refund = g PROVE FALSE
        BY <1>1, <2>2, <4>1 DEF Idle
      <4> QED BY <3>1, <4>1 DEF RowTells
    <3> QED BY <1>3, <2>2, <3>1, <3>2 DEF RowTells
  <2> QED BY <2>1, <2>2
<1> QED BY <1>1, <1>3, <1>4, <1>5, <1>6

\* A refund that is moved on, in a step that leaves the return requests alone.
LEMMA MoveStep ==
  ASSUME TypeOK, SerialInv, OneAtATime, NEW w \in Workers, NEW local, Goto(w, local),
         req[w] # local, NEW f \in Created, NEW row, Moves(f, row),
         refunds' = [refunds EXCEPT ![f] = row], UNCHANGED <<gateway, returns, pay, orderPaid>>,
         req[w].op \in {"kick", "answer"} => req[w].refund = f,
         \/ local = Idle
         \/ \E todo \in SUBSET Task : Affordable(todo) /\ local = Refunding(todo, None)
  PROVE  SerialInv'
<1>1. /\ Single' /\ req'[w] = local
      /\ \A v \in Workers : v # w => req[v] = Idle /\ req'[v] = Idle
      /\ \A g \in Created' : RowTells(g)'
      /\ SpentWithinPaid'
      /\ \A todo \in SUBSET Task : Affordable(todo) => Affordable(todo)'
      /\ KeepsLive
  BY MoveBooks
<1>2. ReadsTrue(w)'
  <2>1. CASE local = Idle
    BY <1>1, <2>1, IdleReadsNext
  <2>2. ASSUME NEW todo \in SUBSET Task, Affordable(todo), local = Refunding(todo, None)
        PROVE  ReadsTrue(w)'
    <3>1. \/ local.op = "refund" /\ local.todo = todo /\ local.ret = None
          \/ local.op = "idle"
      BY <2>2 DEF Refunding, Idle
    <3>2. Affordable(todo)'
      BY <1>1, <2>2
    <3> QED BY <1>1, <3>1, <3>2 DEF ReadsTrue, Finishing
  <2> QED BY <2>1, <2>2
<1>3. \A v \in Workers : ReadsTrue(v)'
  BY <1>1, <1>2, IdleReadsNext
<1>4. ReturnsOnce'
  BY <1>1 DEF KeepsLive, SerialInv, ReturnsOnce
<1>5. ReturnedWithinOrdered' /\ RefundedMeansAllPayments'
  BY DEF SerialInv, ReturnedWithinOrdered, UnitsIn, Filed, RefundedMeansAllPayments
<1> QED BY <1>1, <1>3, <1>4, <1>5 DEF SerialInv

\* What the handler works on.
LEMMA WorksOn ==
  ASSUME TypeOK, RequestsRefer, NEW w \in Workers, req[w].op \in OnRefund
  PROVE  req[w].refund \in Created /\ refunds[req[w].refund] \in RefundRow
  BY RequestFields DEF RequestsRefer, Refers, TypeOK, Created

\* The answer of the gateway is recorded, a manual refund is left to an admin,
\* or the gateway is found to have given up.
LEMMA StatusStep ==
  ASSUME TypeOK, RequestsRefer, SerialInv, OneAtATime, NEW w \in Workers,
         KickManual(w) \/ KickAnswer(w) \/ SyncFailed(w)
  PROVE  SerialInv'
<1> USE DEF orderVars
<1>0. req \in [Workers -> Request] /\ ReadsTrue(w)
  BY DEF TypeOK, SerialInv
<1>1. PICK f, todo : f = req[w].refund /\ todo = req[w].todo
  OBVIOUS
<1>2. /\ f \in Created /\ refunds[f] \in RefundRow /\ RowTells(f)
      /\ req[w].op \in {"kick", "answer", "fail"}
      /\ UNCHANGED <<gateway, returns, pay, orderPaid>>
  <2>1. req[w].op \in {"kick", "answer", "fail"} /\ UNCHANGED <<gateway, returns, pay, orderPaid>>
    BY DEF KickManual, KickAnswer, SyncFailed
  <2>2. req[w].op \in OnRefund
    BY <2>1 DEF OnRefund
  <2> QED BY <1>1, <2>1, <2>2, WorksOn DEF SerialInv
<1>3. ASSUME NEW s \in RefundStatus, NEW b \in BOOLEAN
      PROVE  /\ [refunds[f] EXCEPT !.status = s] \in RefundRow
             /\ [refunds[f] EXCEPT !.status = s].payment = refunds[f].payment
             /\ [refunds[f] EXCEPT !.status = s].amount = refunds[f].amount
             /\ [refunds[f] EXCEPT !.status = s].ret = refunds[f].ret
             /\ [refunds[f] EXCEPT !.status = s].ref = refunds[f].ref
             /\ [refunds[f] EXCEPT !.status = s].status = s
             /\ [refunds[f] EXCEPT !.status = s, !.ref = b] \in RefundRow
             /\ [refunds[f] EXCEPT !.status = s, !.ref = b].payment = refunds[f].payment
             /\ [refunds[f] EXCEPT !.status = s, !.ref = b].amount = refunds[f].amount
             /\ [refunds[f] EXCEPT !.status = s, !.ref = b].ret = refunds[f].ret
             /\ [refunds[f] EXCEPT !.status = s, !.ref = b].ref = b
             /\ [refunds[f] EXCEPT !.status = s, !.ref = b].status = s
  BY <1>2 DEF RefundRow
<1>4. {"PROCESSING", "FAILED"} \subseteq RefundStatus
  BY DEF RefundStatus
<1>5. CASE KickManual(w)
  <2> DEFINE row == [refunds[f] EXCEPT !.status = "PROCESSING"]
             local == Refunding(todo, None)
  <2>1. /\ req[w].op = "kick" /\ refunds[f].payment \notin Online
        /\ refunds' = [refunds EXCEPT ![f] = row] /\ Goto(w, local)
    BY <1>1, <1>5 DEF KickManual
  <2>2. todo \in SUBSET Task /\ Affordable(todo) /\ refunds[f].status = "PENDING"
    BY <1>0, <1>1, <2>1, RequestFields DEF ReadsTrue
  <2>3. row.status = "PROCESSING" /\ row.ref = refunds[f].ref /\ row.payment = refunds[f].payment
        /\ row.amount = refunds[f].amount /\ row.ret = refunds[f].ret /\ row \in RefundRow
    BY <1>3, <1>4
  <2>4. Moves(f, row)
    <3> HIDE DEF row
    <3> QED BY <1>2, <2>1, <2>2, <2>3 DEF Moves, RowTells
  <2>5. req[w] # local
    BY <2>1 DEF Refunding, Idle
  <2> HIDE DEF row, local
  <2>6. \E t \in SUBSET Task : Affordable(t) /\ local = Refunding(t, None)
    BY <2>2 DEF local
  <2> QED BY <1>1, <1>2, <2>1, <2>4, <2>5, <2>6, MoveStep
<1>6. CASE KickAnswer(w)
  <2> DEFINE status1 == IF req[w].answer = "processing" THEN "PROCESSING" ELSE "FAILED"
             ref1 == req[w].answer # "error"
  <2>1. PICK s \in {"PROCESSING", "FAILED"}, b \in BOOLEAN :
          /\ refunds' = [refunds EXCEPT ![f] = [@ EXCEPT !.status = s, !.ref = b]]
          /\ s = "FAILED" => req[w].answer # "processing"
    <3>1. refunds' = [refunds EXCEPT ![f] = [@ EXCEPT !.status = status1, !.ref = ref1]]
      BY <1>1, <1>6 DEF KickAnswer
    <3>2. status1 \in {"PROCESSING", "FAILED"} /\ ref1 \in BOOLEAN
      OBVIOUS
    <3>3. status1 = "FAILED" => req[w].answer # "processing"
      OBVIOUS
    <3> HIDE DEF status1, ref1
    <3> QED BY <3>1, <3>2, <3>3
  <2> DEFINE row == [refunds[f] EXCEPT !.status = s, !.ref = b]
             local == Refunding(todo, None)
  <2>2. req[w].op = "answer" /\ refunds' = [refunds EXCEPT ![f] = row] /\ Goto(w, local)
    BY <1>1, <1>6, <2>1 DEF KickAnswer
  <2>3. /\ todo \in SUBSET Task /\ Affordable(todo) /\ refunds[f].status = "PENDING"
        /\ refunds[f].payment \in Online
        /\ s = "FAILED" => gateway[f] \in {None, "failed"}
    BY <1>0, <1>1, <2>1, <2>2, RequestFields DEF ReadsTrue
  <2>4. s \in RefundStatus
    BY <1>4, <2>1
  <2>5. /\ row.status = s /\ row.payment = refunds[f].payment
        /\ row.amount = refunds[f].amount /\ row.ret = refunds[f].ret /\ row \in RefundRow
    <3>1. PICK old \in RefundRow : old = refunds[f]
      BY <1>2
    <3>2. row = [old EXCEPT !.status = s, !.ref = b]
      BY <3>1
    <3> HIDE DEF row
    <3> QED BY <2>1, <2>4, <3>1, <3>2 DEF RefundRow
  <2> HIDE DEF row
  <2>6. Moves(f, row)
    BY <2>1, <2>3, <2>5 DEF Moves
  <2>7. req[w] # local
    BY <2>2 DEF Refunding, Idle
  <2> HIDE DEF local
  <2>8. \E t \in SUBSET Task : Affordable(t) /\ local = Refunding(t, None)
    BY <2>3 DEF local
  <2> QED BY <1>1, <1>2, <2>2, <2>6, <2>7, <2>8, MoveStep
<1>7. CASE SyncFailed(w)
  <2> DEFINE row == [refunds[f] EXCEPT !.status = "FAILED"]
  <2>1. /\ req[w].op = "fail" /\ refunds' = [refunds EXCEPT ![f] = row] /\ Goto(w, Idle)
    BY <1>1, <1>7 DEF SyncFailed
  <2>2. /\ refunds[f].payment \in Online /\ gateway[f] = "failed"
    BY <1>0, <1>1, <2>1 DEF ReadsTrue
  <2>3. row.status = "FAILED" /\ row.payment = refunds[f].payment
        /\ row.amount = refunds[f].amount /\ row.ret = refunds[f].ret /\ row \in RefundRow
    BY <1>3, <1>4
  <2> HIDE DEF row
  <2>4. Moves(f, row)
    BY <2>2, <2>3 DEF Moves
  <2>5. req[w] # Idle /\ req[w].op \notin {"kick", "answer"}
    BY <2>1 DEF Idle
  <2> QED BY <1>2, <2>1, <2>4, <2>5, MoveStep
<1> QED BY <1>5, <1>6, <1>7

\* The gateway is asked.
LEMMA AskStep ==
  ASSUME TypeOK, RequestsRefer, AskedOnce, SerialInv, OneAtATime, ~Failures, NEW w \in Workers,
         NEW answer \in Answer, KickGateway(w, answer)
  PROVE  SerialInv'
<1>0. req \in [Workers -> Request] /\ ReadsTrue(w)
  BY DEF TypeOK, SerialInv
<1>1. PICK f, todo : f = req[w].refund /\ todo = req[w].todo
  OBVIOUS
<1> DEFINE local == [op |-> "answer", refund |-> f, answer |-> answer, todo |-> todo]
<1>2. /\ req[w].op = "kick" /\ Goto(w, local)
      /\ refunds[f].payment \in Online
      /\ UNCHANGED <<refunds, returns, pay, orderPaid>>
      /\ \/ answer = "processing" /\ gateway' = [gateway EXCEPT ![f] = "processing"]
         \/ answer = "refused" /\ gateway' = [gateway EXCEPT ![f] = "failed"]
         \/ answer = "error" /\ UNCHANGED gateway
  BY <1>1 DEF KickGateway, orderVars
<1>3. /\ local.op = "answer" /\ local.refund = f /\ local.answer = answer /\ local.todo = todo
      /\ req[w] # local
  BY <1>2
<1> HIDE DEF local
<1>4. f \in Created /\ f \in Refunds
  <2>1. req[w].op \in OnRefund
    BY <1>2 DEF OnRefund
  <2> QED BY <1>1, <2>1, WorksOn DEF Created
<1>5. /\ Single' /\ req'[w] = local
      /\ \A v \in Workers : v # w => req[v] = Idle /\ req'[v] = Idle
  BY <1>0, <1>2, <1>3, Alone DEF SerialInv
<1>6. gateway[f] = None /\ gateway \in [Refunds -> {None, "processing", "refunded", "failed"}]
  BY <1>1, <1>2 DEF AskedOnce, TypeOK
<1>7. answer # "processing" => gateway'[f] \in {None, "failed"}
  BY <1>2, <1>4, <1>6
<1>8. \A g \in Refunds : g # f => gateway'[g] = gateway[g]
  BY <1>2, <1>6
<1>9. ReadsTrue(w)'
  <2>1. Affordable(todo) /\ refunds[f].status = "PENDING"
    BY <1>0, <1>1, <1>2 DEF ReadsTrue
  <2>2. Affordable(todo)'
    BY <1>2, <2>1, TablesSame
  <2> QED BY <1>2, <1>3, <1>5, <1>7, <2>1, <2>2 DEF ReadsTrue, Finishing
<1>10. \A v \in Workers : ReadsTrue(v)'
  BY <1>5, <1>9, IdleReadsNext
<1>11. \A g \in Created' : RowTells(g)'
  <2>1. Created' = Created
    BY <1>2, RefundsSame
  <2>2. ASSUME NEW g \in Created PROVE RowTells(g)'
    <3>1. RowTells(g)
      BY DEF SerialInv
    <3>2. CASE g = f
      <4>1. refunds[f].status = "PENDING"
        BY <1>0, <1>1, <1>2 DEF ReadsTrue
      <4> QED BY <1>2, <1>3, <1>5, <3>1, <3>2, <4>1 DEF RowTells
    <3>3. CASE g # f
      <4>1. refunds[g].status # "PENDING"
        <5>1. ASSUME NEW v \in Workers, req[v].op \in {"kick", "answer"}, req[v].refund = g PROVE FALSE
          BY <1>1, <1>5, <3>3, <5>1 DEF Idle
        <5> QED BY <3>1, <5>1 DEF RowTells
      <4>2. gateway'[g] = gateway[g]
        BY <1>8, <3>3 DEF Created
      <4> QED BY <1>2, <3>1, <4>1, <4>2 DEF RowTells
    <3> QED BY <3>2, <3>3
  <2> QED BY <2>1, <2>2
<1>12. ReturnsOnce' /\ SpentWithinPaid' /\ ReturnedWithinOrdered' /\ RefundedMeansAllPayments'
  BY <1>2, TablesSame DEF SerialInv, ReturnsOnce, SpentWithinPaid, ReturnedWithinOrdered,
                          RefundedMeansAllPayments
<1> QED BY <1>5, <1>10, <1>11, <1>12 DEF SerialInv

\* The gateway makes a refund it accepted, or gives it up.
LEMMA SettleStep ==
  ASSUME TypeOK, SerialInv, NEW f \in Refunds, NEW outcome \in {"refunded", "failed"},
         GatewaySettles(f, outcome)
  PROVE  SerialInv'
<1>1. /\ UNCHANGED <<refunds, returns, pay, orderPaid, req>>
      /\ gateway[f] = "processing" /\ None # "processing"
      /\ gateway' = [gateway EXCEPT ![f] = outcome]
      /\ gateway \in [Refunds -> {None, "processing", "refunded", "failed"}]
  BY RefundAssumption DEF GatewaySettles, orderVars, TypeOK, RefundAssumption
<1>2. \A g : gateway[g] \in {None, "failed"} => gateway'[g] = gateway[g]
  BY <1>1
<1>3. ASSUME NEW w \in Workers PROVE ReadsTrue(w)'
  <2>1. ReadsTrue(w)
    BY DEF SerialInv
  <2>2. None # "processing"
    BY <1>1
  <2> QED BY <1>1, <1>2, <2>1, TablesSame DEF ReadsTrue
<1>4. \A g \in Created' : RowTells(g)'
  <2>1. Created' = Created
    BY <1>1, RefundsSame
  <2> QED BY <1>1, <1>2, <2>1 DEF SerialInv, RowTells
<1>5. ReturnsOnce' /\ SpentWithinPaid' /\ ReturnedWithinOrdered' /\ RefundedMeansAllPayments'
  BY <1>1, TablesSame DEF SerialInv, ReturnsOnce, SpentWithinPaid, ReturnedWithinOrdered,
                          RefundedMeansAllPayments
<1>6. Single'
  BY <1>1 DEF SerialInv, Single
<1> QED BY <1>3, <1>4, <1>5, <1>6 DEF SerialInv

\* A refund completes.
LEMMA CommitStep ==
  ASSUME TypeOK, TypeOK', RowsRefer, RequestsRefer, SerialInv, OneAtATime, NEW w \in Workers,
         FinalizeCommit(w)
  PROVE  SerialInv'
<1>0. req \in [Workers -> Request] /\ ReadsTrue(w)
  BY DEF TypeOK, SerialInv
<1>1. PICK f, r, after : f = req[w].refund /\ r = refunds[f].ret /\ after = req[w].pay
  OBVIOUS
<1> DEFINE row == [refunds[f] EXCEPT !.status = "COMPLETED"]
<1>2. /\ req[w].op = "commit" /\ Goto(w, Idle)
      /\ refunds' = [refunds EXCEPT ![f] = row]
      /\ pay' = [pay EXCEPT ![refunds[f].payment] = after] /\ orderPaid' = req[w].paid
      /\ returns' = IF r = None THEN returns
                    ELSE [returns EXCEPT ![r] = [@ EXCEPT !.status = "REFUNDED"]]
      /\ UNCHANGED gateway
  BY <1>1 DEF FinalizeCommit
<1>3. /\ f \in Created /\ refunds[f] \in RefundRow /\ RowTells(f) /\ f \in Refunds
      /\ refunds[f].status = "PROCESSING"
  <2>1. req[w].op \in OnRefund /\ req[w].op \in Finishing
    BY <1>2 DEF OnRefund, Finishing
  <2> QED BY <1>0, <1>1, <2>1, WorksOn DEF SerialInv, ReadsTrue, Created
<1>4. /\ row \in RefundRow /\ row.status = "COMPLETED" /\ row.ref = refunds[f].ref
      /\ row.payment = refunds[f].payment /\ row.amount = refunds[f].amount
      /\ row.ret = refunds[f].ret
  <2>1. "COMPLETED" \in RefundStatus
    BY DEF RefundStatus
  <2> QED BY <1>3, <2>1 DEF RefundRow
<1> HIDE DEF row
<1>5. Moves(f, row)
  BY <1>3, <1>4 DEF Moves, RowTells
<1>6. req[w] # Idle /\ req[w].op \notin {"kick", "answer"}
  BY <1>2 DEF Idle
<1>7. /\ Single' /\ req'[w] = Idle
      /\ \A v \in Workers : v # w => req[v] = Idle /\ req'[v] = Idle
      /\ \A g \in Created' : RowTells(g)'
      /\ SpentWithinPaid'
      /\ KeepsLive
  BY <1>2, <1>3, <1>5, <1>6, MoveBooks
<1>8. \A v \in Workers : ReadsTrue(v)'
  BY <1>7, IdleReadsNext
<1>9. /\ r # None => r \in Filed /\ returns[r].status \in ReceivedStatus
      /\ r \in Returns \cup {None}
  <2>1. r \in Returns \cup {None} /\ refunds[f] # None
    BY <1>1, <1>3, RowFields DEF Created
  <2>2. r # None => returns[r] # None
    BY <1>1, <1>3, <2>1 DEF RowsRefer
  <2>3. r # None => returns[r].status \in ReceivedStatus
    BY <1>1, <1>3 DEF SerialInv, ReturnsOnce
  <2> QED BY <2>1, <2>2, <2>3 DEF Filed
<1>10. /\ Filed' = Filed /\ Counted' \subseteq Counted
       /\ \A q \in Filed : /\ returns'[q].qty = returns[q].qty
                           /\ returns[q].status \in ReceivedStatus =>
                                returns'[q].status \in ReceivedStatus
  <2>1. CASE r = None
    BY <1>2, <2>1 DEF Filed, Counted
  <2>2. CASE r # None
    <3>1. r \in Returns /\ returns[r] \in ReturnRow /\ r \in Filed
      BY <1>9, <2>2, RowFields
    <3>2. /\ returns'[r] = [returns[r] EXCEPT !.status = "REFUNDED"]
          /\ \A q \in Returns : q # r => returns'[q] = returns[q]
      BY <1>2, <2>2, <3>1 DEF TypeOK
    <3>3. returns'[r].qty = returns[r].qty /\ returns'[r] \in ReturnRow
          /\ returns'[r].status = "REFUNDED"
      BY <3>1, <3>2 DEF ReturnRow, ReturnStatus
    <3>4. Filed' = Filed
      BY <3>1, <3>2, <3>3, RefundAssumption DEF Filed, RefundAssumption
    <3>5. r \in Counted
      BY <1>9, <2>2 DEF Counted, ActiveReturn, Blocking, ReceivedStatus
    <3>6. Counted' \subseteq Counted
      BY <3>2, <3>4, <3>5 DEF Counted, Filed
    <3>7. \A q \in Filed : q # r => returns'[q] = returns[q]
      BY <3>2 DEF Filed
    <3> QED BY <3>3, <3>4, <3>6, <3>7 DEF ReceivedStatus
  <2> QED BY <2>1, <2>2
<1>11. ReturnedWithinOrdered'
  BY <1>10, UnitsKept DEF SerialInv
<1>12. ReturnsOnce'
  <2>1. ASSUME NEW g \in Created, refunds[g].ret # None
        PROVE  returns'[refunds[g].ret].status \in ReceivedStatus
    <3>1. g \in Refunds /\ refunds[g].ret \in Returns /\ refunds[g] # None
      BY <2>1, RowFields DEF Created
    <3>2. refunds[g].ret \in Filed /\ returns[refunds[g].ret].status \in ReceivedStatus
      BY <2>1, <3>1 DEF RowsRefer, Filed, SerialInv, ReturnsOnce
    <3> QED BY <1>10, <3>2
  <2> QED BY <1>7, <2>1 DEF KeepsLive, SerialInv, ReturnsOnce
<1>13. RefundedMeansAllPayments'
  <2> SUFFICES ASSUME orderPaid' = "REFUNDED", NEW q \in Payments PROVE pay'[q] = "REFUNDED"
    BY DEF RefundedMeansAllPayments
  <2>1. after = "REFUNDED" /\ (pay[q] = "REFUNDED" \/ q = refunds[f].payment)
    BY <1>0, <1>1, <1>2 DEF ReadsTrue
  <2>2. pay'[q] = IF q = refunds[f].payment THEN after ELSE pay[q]
    BY <1>2 DEF TypeOK
  <2> QED BY <2>1, <2>2
<1> QED BY <1>7, <1>8, <1>11, <1>12, <1>13 DEF SerialInv

\* Every step of requests one at a time keeps the invariant.
LEMMA SerialStep ==
  ASSUME IInv, IInv', SerialInv, Next, OneAtATime, ~Failures
  PROVE  SerialInv'
<1>0. TypeOK /\ TypeOK' /\ RowsRefer /\ RequestsRefer /\ AskedOnce
  BY DEF IInv
<1>1. ASSUME NEW w \in Workers, Serve(w) PROVE SerialInv'
  BY <1>0, <1>1, ReturnReads, BeginReads, FinishReads, FileStep, ReturnsWritten, CreateStep,
     StatusStep, AskStep, CommitStep DEF Serve, Abort
<1> QED BY <1>0, <1>1, SettleStep DEF Next

\* The invariant of both settings.
RacesInv == overlap \/ (IInv /\ SerialInv)

\* It holds at the start.
LEMMA RacesInit == MCInit => RacesInv
<1> SUFFICES ASSUME MCInit, ~overlap PROVE IInv /\ SerialInv
  BY DEF RacesInv
<1>1. Init
  BY DEF MCInit
<1>2. IInv
  BY <1>1, InitInv
<1>3. Created = {} /\ Filed = {} /\ \A w \in Workers : req[w] = Idle
  BY <1>1 DEF Init, Created, Filed
<1>4. Single /\ \A w \in Workers : ReadsTrue(w)
  BY <1>3, IdleReads DEF Single
<1>5. (\A f \in Created : RowTells(f)) /\ ReturnsOnce
  BY <1>3 DEF ReturnsOnce
<1>6. SpentWithinPaid
  <2>1. \A p \in Payments : Spent(p) = 0 /\ Paid[p] \in Nat
    <3>1. \A p : LiveOf(p) = {}
      BY <1>3 DEF LiveOf
    <3> QED BY <3>1, SumEmpty, RefundAssumption DEF Spent, RefundAssumption
  <2> QED BY <2>1 DEF SpentWithinPaid
<1>7. ReturnedWithinOrdered
  <2>1. {r \in Filed : returns[r].status \in ActiveReturn} = {}
    BY <1>3
  <2>2. UnitsIn(ActiveReturn) = 0 /\ Qty \in Nat
    BY <2>1, SumEmpty, RefundAssumption DEF UnitsIn, RefundAssumption
  <2> QED BY <2>2 DEF ReturnedWithinOrdered
<1>8. RefundedMeansAllPayments
  BY <1>1 DEF Init, RefundedMeansAllPayments
<1> QED BY <1>2, <1>4, <1>5, <1>6, <1>7, <1>8 DEF SerialInv

\* Every step keeps it, if no request fails.
LEMMA RacesStep ==
  ASSUME ~Failures, RacesInv, [MCNext]_<<vars, overlap>>
  PROVE  RacesInv'
<1> SUFFICES ASSUME ~overlap, UNCHANGED overlap, IInv, SerialInv PROVE IInv' /\ SerialInv'
  BY DEF RacesInv, MCNext
<1>1. CASE MCNext
  <2>1. Next /\ OneAtATime
    BY <1>1 DEF MCNext
  <2>2. IInv'
    BY <2>1, StepInv
  <2> QED BY <2>1, <2>2, SerialStep
<1>2. CASE UNCHANGED <<vars, overlap>>
  <2>1. IInv'
    BY <1>2, StepInv
  <2>2. UNCHANGED <<refunds, returns, pay, orderPaid, gateway, req>>
    BY <1>2 DEF vars
  <2>3. Single' /\ \A w \in Workers : ReadsTrue(w)'
    BY <2>2, TablesSame DEF SerialInv, Single, ReadsTrue
  <2>4. \A f \in Created' : RowTells(f)'
    BY <2>2, TablesSame DEF SerialInv, RowTells
  <2>5. ReturnsOnce' /\ SpentWithinPaid' /\ ReturnedWithinOrdered' /\ RefundedMeansAllPayments'
    BY <2>2, TablesSame DEF SerialInv, ReturnsOnce, SpentWithinPaid, ReturnedWithinOrdered,
                            RefundedMeansAllPayments
  <2> QED BY <2>1, <2>3, <2>4, <2>5 DEF SerialInv
<1> QED BY <1>1, <1>2

\* One request at a time and none that fails: the order says REFUNDED only when
\* each payment does, no more is refunded than was paid, in the books or at the
\* gateway, a return request is refunded once, and no more units come back than
\* were ordered, for any numbers of payments, return requests and refunds.
THEOREM BooksHold ==
  ASSUME ~Failures
  PROVE  MCSpec => []BooksHoldAlone
<1>1. RacesInv => BooksHoldAlone
  <2> SUFFICES ASSUME IInv, SerialInv
               PROVE  RefundedWithinPaid /\ OneRefundPerReturn
    BY DEF RacesInv, BooksHoldAlone, SerialInv
  <2>0. TypeOK
    BY DEF IInv
  <2>1. RefundedWithinPaid
    <3> SUFFICES ASSUME NEW p \in Payments
                 PROVE  SumFunctionOnSet(AmountOf, MoneyOut(p)) <= Paid[p]
      BY DEF RefundedWithinPaid
    <3>1. MoneyOut(p) \in SUBSET LiveOf(p)
      <4>1. \A f \in Created : refunds[f].status = "FAILED" => gateway[f] \notin {"processing", "refunded"}
        BY RefundAssumption DEF SerialInv, RowTells, RefundAssumption
      <4> QED BY <4>1 DEF MoneyOut, LiveOf
    <3>2. /\ SumFunctionOnSet(AmountOf, MoneyOut(p)) \in Nat /\ Spent(p) \in Nat
          /\ SumFunctionOnSet(AmountOf, MoneyOut(p)) <= Spent(p)
      BY <2>0, <3>1, SpentType
    <3>3. Spent(p) <= Paid[p] /\ Paid[p] \in Nat
      BY RefundAssumption DEF SerialInv, SpentWithinPaid, RefundAssumption
    <3> QED BY <3>2, <3>3
  <2>2. OneRefundPerReturn
    <3> SUFFICES ASSUME NEW r \in Returns
                 PROVE  Cardinality({f \in Created : refunds[f].ret = r /\ refunds[f].status # "FAILED"}) <= 1
      BY DEF OneRefundPerReturn
    <3> DEFINE S == {f \in Created : refunds[f].ret = r /\ refunds[f].status # "FAILED"}
    <3>1. r # None
      BY RefundAssumption DEF RefundAssumption
    <3>2. \A f, g \in S : f = g
      BY <3>1 DEF SerialInv, ReturnsOnce
    <3> HIDE DEF S
    <3>3. CASE S = {}
      <4>1. Cardinality(S) = 0
        BY <3>3, FS_EmptySet
      <4> QED BY <4>1 DEF S
    <3>4. CASE S # {}
      <4>1. PICK f \in S : TRUE
        BY <3>4
      <4>2. S = {f}
        BY <3>2, <4>1
      <4>3. Cardinality(S) = 1
        BY <4>2, FS_Singleton
      <4> QED BY <4>3 DEF S
    <3> QED BY <3>3, <3>4
  <2> QED BY <2>1, <2>2
<1> QED BY <1>1, RacesInit, RacesStep, PTL DEF MCSpec

\* One request at a time and none that fails, a refund that is COMPLETED stays
\* as it is, and no request sets out to complete it again.
THEOREM CompletesOnce ==
  ASSUME ~Failures
  PROVE  MCSpec => CompletedOnceAlone
<1> DEFINE Stays == ~overlap =>
             \A f \in Created :
               refunds[f].status = "COMPLETED" =>
                 /\ refunds'[f] = refunds[f]
                 /\ \A w \in Workers : req'[w] # [op |-> "finalize", refund |-> f]
<1>1. RacesInv /\ [MCNext]_<<vars, overlap>> => [Stays]_vars
  <2> SUFFICES ASSUME RacesInv, MCNext, ~overlap, NEW f \in Created,
                      refunds[f].status = "COMPLETED"
               PROVE  /\ refunds'[f] = refunds[f]
                      /\ \A w \in Workers : req'[w] # [op |-> "finalize", refund |-> f]
    OBVIOUS
  <2>1. /\ IInv /\ SerialInv /\ Next /\ SerialInv'
        /\ TypeOK /\ RequestsRefer
    <3>1. RacesInv'
      BY RacesStep
    <3> QED BY <3>1 DEF RacesInv, MCNext, IInv
  <2>2. refunds'[f] = refunds[f]
    <3>1. CASE UNCHANGED refunds
      BY <3>1
    <3>2. ASSUME NEW w \in Workers, NEW g \in Refunds, CreateRefund(w, g)
          PROVE  refunds'[f] = refunds[f]
      BY <2>1, <3>2 DEF CreateRefund, Created, TypeOK
    <3>3. ASSUME NEW w \in Workers, req[w].op \in {"kick", "answer", "fail", "commit"},
                 \A g \in Refunds : g # req[w].refund => refunds'[g] = refunds[g]
          PROVE  refunds'[f] = refunds[f]
      <4>1. refunds[req[w].refund].status # "COMPLETED"
        BY <2>1, <3>3 DEF SerialInv, ReadsTrue, Finishing
      <4>2. f # req[w].refund
        BY <4>1
      <4> QED BY <2>1, <3>3, <4>2 DEF Created, TypeOK
    <3>4. ASSUME NEW w \in Workers, Serve(w) PROVE refunds'[f] = refunds[f]
      <4>1. \/ UNCHANGED refunds
            \/ \E g \in Refunds : CreateRefund(w, g)
            \/ /\ req[w].op \in {"kick", "answer", "fail", "commit"}
               /\ \A g \in Refunds : g # req[w].refund => refunds'[g] = refunds[g]
        BY <2>1, <3>4, RefundWrites DEF TypeOK
      <4> QED BY <3>1, <3>2, <3>3, <4>1
    <3> QED BY <2>1, <3>1, <3>4 DEF Next, GatewaySettles
  <2>3. ASSUME NEW w \in Workers, req'[w] = [op |-> "finalize", refund |-> f] PROVE FALSE
    <3>1. req'[w].op = "finalize" /\ req'[w].refund = f
      BY <2>3
    <3>2. refunds'[f].status = "PROCESSING"
      BY <2>1, <3>1 DEF SerialInv, ReadsTrue, Finishing
    <3> QED BY <2>2, <3>2
  <2> QED BY <2>2, <2>3
<1> QED BY <1>1, RacesInit, RacesStep, PTL DEF MCSpec, CompletedOnceAlone
=============================================================================
