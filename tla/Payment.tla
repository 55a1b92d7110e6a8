------------------------------- MODULE Payment -------------------------------
(***************************************************************************)
(* How one order gets paid: SSLCommerz sessions (src/payment), cash on     *)
(* delivery (src/order-status) and the remainder of an advance             *)
(* (src/order).  Statements of src/payment run outside any transaction, so *)
(* every one of them is a step; req[w] holds the locals of the request     *)
(* worker w is serving.  Amounts are told apart only by payment phase.     *)
(***************************************************************************)
EXTENDS Statuses

\* The values of enum PaymentStatus that a gateway row takes.
PaymentStatus == {"PENDING", "PROCESSING", "PAID", "FAILED", "CANCELLED", "ON_HOLD"}

CONSTANTS
  Payments,         \* gateway payment rows the order may ever get
  Workers,          \* requests the server can be serving at once
  Cod,              \* the order is cash on delivery
  Advance,          \* ... and asks for an advance payment first
  Short,            \* the sessions a customer pays another amount in
  Moves,            \* statuses other handlers may move the order to
  QueryFails,       \* asking the gateway about a failed payment may fail
  None              \* no row, no session

ASSUME PaymentAssumption ==
  /\ {Cod, Advance, QueryFails} \subseteq BOOLEAN
  /\ Advance => Cod
  /\ Short \subseteq Payments
  /\ Moves \subseteq OrderStatus
  /\ None \notin PaymentStatus \cup {"open", "paid", "validated"}

VARIABLES
  status,           \* Order.status
  paid,             \* Order.paymentStatus
  remaining,        \* Order.remainingAmount > 0
  pay,              \* Payment.status of each gateway row
  cod,              \* number of cash Payment rows of each phase
  gateway,          \* each session at SSLCommerz; None: no page was given out
  applied,          \* times each payment was written to the order (history)
  crashed,          \* a request died half-way (history)
  req               \* the request each worker is in the middle of

orderVars == <<status, paid, remaining>>
vars == <<status, paid, remaining, pay, cod, gateway, applied, crashed, req>>

\* Order.paymentStatus, before any refund.
OrderPayment == {"PENDING", "PARTIALLY_PAID", "PAID"}

\* SETTLED_PAYMENT_STATUSES (refunds come after everything modelled here).
Settled == {"PAID", "FAILED", "CANCELLED", "ON_HOLD"}

\* ORDER_STATUSES_CLOSED_TO_PAYMENT.
ClosedToPayment == {"CANCELLED", "FAILED"}

\* Order.paymentStatus once a gateway payment came in.
OnlinePaymentStatus == IF Advance THEN "PARTIALLY_PAID" ELSE "PAID"

\* What the gateway makes of the val_id of a success callback.
Answers == {"VALID", "VALIDATED", "INVALID"}

Idle == [op |-> "idle"]
Request ==
  {Idle, [op |-> "create"]}
  \cup [op : {"open"}, payment : Payments]
  \cup [op : {"settle"}, payment : Payments, answer : Answers]
  \cup [op : {"confirm", "closed"}, payment : Payments]
  \cup [op : {"unpaid"}, payment : Payments, to : {"FAILED", "CANCELLED"}]
  \cup [op : {"move"}, to : OrderStatus, seen : OrderPayment, due : BOOLEAN]
  \cup {[op |-> "collect"]}

TypeOK ==
  /\ status \in OrderStatus
  /\ paid \in OrderPayment
  /\ remaining \in BOOLEAN
  /\ pay \in [Payments -> PaymentStatus \cup {None}]
  /\ cod \in [{"FULL", "REMAINDER"} -> Nat]
  /\ gateway \in [Payments -> {None, "open", "paid", "validated"}]
  /\ applied \in [Payments -> Nat]
  /\ crashed \in BOOLEAN
  /\ req \in [Workers -> Request]

Init ==
  /\ status = "PENDING"
  /\ paid = "PENDING"
  /\ remaining = Advance
  /\ pay = [p \in Payments |-> None]
  /\ cod = [phase \in {"FULL", "REMAINDER"} |-> 0]
  /\ gateway = [p \in Payments |-> None]
  /\ applied = [p \in Payments |-> 0]
  /\ crashed = FALSE
  /\ req = [w \in Workers |-> Idle]

Goto(w, local) == req' = [req EXCEPT ![w] = local]

-----------------------------------------------------------------------------
(* initiateSSL: open a payment page, unless there is one or it is paid.     *)

LivePayment ==
  \/ \E p \in Payments : pay[p] \in {"PENDING", "PROCESSING", "PAID"}
  \/ \E phase \in DOMAIN cod : cod[phase] > 0

InitiateRead(w) ==
  /\ req[w] = Idle
  /\ status \notin ClosedToPayment
  /\ ~LivePayment
  /\ Goto(w, [op |-> "create"])
  /\ UNCHANGED <<orderVars, pay, cod, gateway, applied>>

InitiateCreate(w, p) ==
  /\ req[w].op = "create"
  /\ pay[p] = None
  /\ pay' = [pay EXCEPT ![p] = "PENDING"]
  /\ Goto(w, [op |-> "open", payment |-> p])
  /\ UNCHANGED <<orderVars, cod, gateway, applied>>

\* The gateway answered: with a page for the customer, or an error.  Neither
\* update looks at what has become of the row while it was asked.
InitiateAnswer(w, ok) ==
  /\ req[w].op = "open"
  /\ LET p == req[w].payment
     IN \/ /\ ok
           /\ pay' = [pay EXCEPT ![p] = "PROCESSING"]
           /\ gateway' = [gateway EXCEPT ![p] = "open"]
        \/ /\ ~ok
           /\ pay' = [pay EXCEPT ![p] = "FAILED"]
           /\ UNCHANGED gateway
  /\ Goto(w, Idle)
  /\ UNCHANGED <<orderVars, cod, applied>>

\* The customer pays on the gateway's page, however old it is.
CustomerPays(p) ==
  /\ gateway[p] = "open"
  /\ gateway' = [gateway EXCEPT ![p] = "paid"]
  /\ UNCHANGED <<orderVars, pay, cod, applied, req>>

-----------------------------------------------------------------------------
(* handlePaymentSuccess, called by the browser's redirect and by the IPN.   *)
(* Anyone who knows the transactionId may call it, and initiateSSL gives it *)
(* out as soon as there is a row.                                           *)

\* The settled check, and the gateway's answer to the validation: VALID, and
\* possibly VALIDATED once it has been asked before, for the val_id of a session
\* that was paid, and INVALID for any other.
SuccessRead(w, p, answer) ==
  /\ req[w] = Idle
  /\ pay[p] # None /\ pay[p] \notin Settled
  /\ answer = "VALID" => gateway[p] \in {"paid", "validated"}
  /\ answer = "VALIDATED" => gateway[p] = "validated"
  /\ gateway' = IF answer = "VALID" THEN [gateway EXCEPT ![p] = "validated"] ELSE gateway
  /\ Goto(w, [op |-> "settle", payment |-> p, answer |-> answer])
  /\ UNCHANGED <<orderVars, pay, cod, applied>>

\* Fault variant: the claim lost its status filter.
SuccessSettle_Unconditional(w) ==
  /\ req[w].op = "settle"
  /\ LET p == req[w].payment
     IN \/ /\ req[w].answer # "VALID"
           /\ pay' = [pay EXCEPT ![p] = "FAILED"]
           /\ Goto(w, Idle)
        \/ /\ req[w].answer = "VALID" /\ p \in Short
           /\ pay' = [pay EXCEPT ![p] = "ON_HOLD"]
           /\ Goto(w, Idle)
        \/ /\ req[w].answer = "VALID" /\ p \notin Short
           /\ pay' = [pay EXCEPT ![p] = "PAID"]
           /\ Goto(w, [op |-> "confirm", payment |-> p])
  /\ UNCHANGED <<orderVars, cod, gateway, applied>>

\* What the answer does to the payment: anything but VALID fails it, another
\* amount puts it on hold, and otherwise it is claimed, if not settled by now.
SuccessSettle(w) ==
  /\ req[w].op = "settle"
  /\ LET p == req[w].payment
     IN \/ /\ req[w].answer # "VALID"
           /\ pay' = [pay EXCEPT ![p] = "FAILED"]
           /\ Goto(w, Idle)
        \/ /\ req[w].answer = "VALID" /\ p \in Short
           /\ pay' = [pay EXCEPT ![p] = "ON_HOLD"]
           /\ Goto(w, Idle)
        \/ /\ req[w].answer = "VALID" /\ p \notin Short
           /\ pay[p] \notin Settled
           /\ pay' = [pay EXCEPT ![p] = "PAID"]
           /\ Goto(w, [op |-> "confirm", payment |-> p])
        \/ /\ req[w].answer = "VALID" /\ p \notin Short
           /\ pay[p] \in Settled
           /\ Goto(w, Idle)
           /\ UNCHANGED pay
  /\ UNCHANGED <<orderVars, cod, gateway, applied>>

\* Fault variant: a payment of an order that was closed is forgotten.
SuccessConfirm_DropsClosed(w) ==
  /\ req[w].op = "confirm"
  /\ LET p == req[w].payment
     IN \/ /\ status \notin ClosedToPayment
           /\ status' = "CONFIRMED"
           /\ paid' = OnlinePaymentStatus
           /\ applied' = [applied EXCEPT ![p] = @ + 1]
        \/ /\ status \in ClosedToPayment
           /\ UNCHANGED <<status, paid, applied>>
  /\ Goto(w, Idle)
  /\ UNCHANGED <<remaining, pay, cod, gateway>>

\* The claim won: the order is confirmed, unless it was closed meanwhile.
SuccessConfirm(w) ==
  /\ req[w].op = "confirm"
  /\ LET p == req[w].payment
     IN \/ /\ status \notin ClosedToPayment
           /\ status' = "CONFIRMED"
           /\ paid' = OnlinePaymentStatus
           /\ applied' = [applied EXCEPT ![p] = @ + 1]
           /\ Goto(w, Idle)
        \/ /\ status \in ClosedToPayment
           /\ Goto(w, [op |-> "closed", payment |-> p])
           /\ UNCHANGED <<status, paid, applied>>
  /\ UNCHANGED <<remaining, pay, cod, gateway>>

\* recordPaymentOnClosedOrder: the order stays closed but is marked paid.
SuccessOnClosed(w) ==
  /\ req[w].op = "closed"
  /\ paid' = OnlinePaymentStatus
  /\ applied' = [applied EXCEPT ![req[w].payment] = @ + 1]
  /\ Goto(w, Idle)
  /\ UNCHANGED <<status, remaining, pay, cod, gateway>>

-----------------------------------------------------------------------------
(* handlePaymentFail and handlePaymentCancel, which anyone may call too.     *)

\* The settled check and the question to the gateway whether it was paid; a
\* question that fails counts as no, and so does one about a session the
\* gateway does not know yet.
UnpaidRead(w, p, to) ==
  /\ req[w] = Idle
  /\ pay[p] # None /\ pay[p] \notin Settled
  /\ gateway[p] \in {None, "open"} \/ QueryFails
  /\ Goto(w, [op |-> "unpaid", payment |-> p, to |-> to])
  /\ UNCHANGED <<orderVars, pay, cod, gateway, applied>>

\* Fault variant: the payment is put back for another attempt.
UnpaidClaim_Retry(w) ==
  /\ req[w].op = "unpaid"
  /\ pay' = [pay EXCEPT ![req[w].payment] = "PENDING"]
  /\ Goto(w, Idle)
  /\ UNCHANGED <<orderVars, cod, gateway, applied>>

\* The claim: a payment that settled meanwhile stays as it is.
UnpaidClaim(w) ==
  /\ req[w].op = "unpaid"
  /\ pay' = [pay EXCEPT ![req[w].payment] = IF @ \in Settled THEN @ ELSE req[w].to]
  /\ Goto(w, Idle)
  /\ UNCHANGED <<orderVars, cod, gateway, applied>>

-----------------------------------------------------------------------------
(* The order's own handlers, as far as money is concerned.                  *)

\* applyStatusChange reads the order: a courier's sync moves it up in ORDER_RANK.
\* (An admin's cancellation is such a move too; its row lock only joins the two
\* steps.)
MoveRead(w, to) ==
  /\ req[w] = Idle
  /\ OrderRank[to] > OrderRank[status]
  /\ Goto(w, [op |-> "move", to |-> to, seen |-> paid, due |-> remaining])
  /\ UNCHANGED <<orderVars, pay, cod, gateway, applied>>

\* ... and sets its status; the delivery of a cash order that is not paid
\* collects what is due, as read.
MoveCommit(w) ==
  /\ req[w].op = "move"
  /\ status' = req[w].to
  /\ LET collects == /\ req[w].to = "DELIVERED" /\ Cod
                     /\ req[w].seen \in {"PENDING", "PARTIALLY_PAID"}
         phase == IF Advance THEN "REMAINDER" ELSE "FULL"
         row == collects /\ (Advance => req[w].due)
     IN /\ cod' = IF row THEN [cod EXCEPT ![phase] = @ + 1] ELSE cod
        /\ paid' = IF collects THEN "PAID" ELSE paid
        /\ remaining' = IF collects THEN FALSE ELSE remaining
  /\ Goto(w, Idle)
  /\ UNCHANGED <<pay, gateway, applied>>

\* Fault variant: the outstanding balance is not checked.
CollectRead_AnyBalance(w) ==
  /\ req[w] = Idle
  /\ Advance /\ paid # "PENDING"
  /\ cod["REMAINDER"] <= 1
  /\ Goto(w, [op |-> "collect"])
  /\ UNCHANGED <<orderVars, pay, cod, gateway, applied>>

\* collectRemainder: an admin records the cash a courier collected.
CollectRead(w) ==
  /\ req[w] = Idle
  /\ paid = "PARTIALLY_PAID" /\ remaining
  /\ Goto(w, [op |-> "collect"])
  /\ UNCHANGED <<orderVars, pay, cod, gateway, applied>>

CollectCommit(w) ==
  /\ req[w].op = "collect"
  /\ cod' = [cod EXCEPT !["REMAINDER"] = @ + 1]
  /\ paid' = "PAID"
  /\ remaining' = FALSE
  /\ Goto(w, Idle)
  /\ UNCHANGED <<status, pay, gateway, applied>>

\* The process dies, or a statement fails.
Abort(w) ==
  /\ req[w] # Idle
  /\ crashed' = TRUE
  /\ Goto(w, Idle)
  /\ UNCHANGED <<orderVars, pay, cod, gateway, applied>>

Serve(w) ==
  \/ InitiateRead(w)
  \/ \E p \in Payments :
       \/ InitiateCreate(w, p)
       \/ \E answer \in Answers : SuccessRead(w, p, answer)
       \/ \E to \in {"FAILED", "CANCELLED"} : UnpaidRead(w, p, to)
  \/ \E ok \in BOOLEAN : InitiateAnswer(w, ok)
  \/ SuccessSettle(w)
  \/ SuccessConfirm(w)
  \/ SuccessOnClosed(w)
  \/ UnpaidClaim(w)
  \/ \E to \in Moves : MoveRead(w, to)
  \/ MoveCommit(w)
  \/ CollectRead(w)
  \/ CollectCommit(w)

Next ==
  \/ (\E w \in Workers : Serve(w)) /\ UNCHANGED crashed
  \/ (\E p \in Payments : CustomerPays(p)) /\ UNCHANGED crashed
  \/ \E w \in Workers : Abort(w)

Spec == Init /\ [][Next]_vars

\* No request begins before the one being served has ended.
OneAtATime == \A v, w \in Workers : req[v] # Idle /\ req[w] # Idle => v = w

-----------------------------------------------------------------------------
\* However many redirects and IPNs arrive for a payment, and whatever they race
\* with, it is written to the order at most once.
AppliedAtMostOnce == \A p \in Payments : applied[p] <= 1

\* A page is opened by one request, whose row callbacks may fail or cancel
\* meanwhile but never mark as paid; what the gateway said was paid is about a
\* session with a page; and only the request that claimed a payment is on its
\* way to write it to the order.
Opening(w, p) == req[w].op = "open" /\ req[w].payment = p
Writing(w, p) == req[w].op \in {"confirm", "closed"} /\ req[w].payment = p
Told(w, p) ==
  \/ Writing(w, p)
  \/ req[w].op = "settle" /\ req[w].payment = p /\ req[w].answer # "INVALID"
RequestsAreExclusive ==
  \A w \in Workers, p \in Payments :
    /\ Opening(w, p) => /\ pay[p] \in {"PENDING", "FAILED", "CANCELLED"} /\ gateway[p] = None
                        /\ \A v \in Workers : Opening(v, p) => v = w
    /\ Told(w, p) => gateway[p] # None
    /\ Writing(w, p) => /\ pay[p] \in Settled /\ applied[p] = 0
                        /\ \A v \in Workers : Writing(v, p) => v = w

\* Unless a request died, no payment is left PAID without the order knowing
\* once the server is quiet.
PaidIsRecorded ==
  ~crashed /\ (\A w \in Workers : req[w] = Idle) =>
    \A p \in Payments : pay[p] = "PAID" => applied[p] = 1 /\ paid # "PENDING"

\* One request at a time: an order that counts as paid, fully or partly, has a
\* paid payment row to show for it.
PaidOrderHasPayment ==
  paid # "PENDING" =>
    \/ \E p \in Payments : pay[p] = "PAID"
    \/ \E phase \in DOMAIN cod : cod[phase] > 0

\* The remainder of an advance is collected at most once, by the delivery or by
\* an admin ("This order has no outstanding advance-payment balance to collect").
RemainderOnce == cod["REMAINDER"] <= 1

\* A settled payment is in progress again only by the request that opens its
\* page, which does not look at what became of the row while the gateway was
\* asked; once that has ended it stays settled, and one that is PAID always does.
SettledStaysSettled ==
  [][\A p \in Payments :
       pay[p] \in Settled /\ pay'[p] \notin Settled =>
         pay[p] # "PAID" /\ \E w \in Workers : Opening(w, p)]_vars

-----------------------------------------------------------------------------
(* What the code's comments promise and the code does not keep.             *)

\* The first settled status stands, even before the page is opened: a callback
\* that cancels a row still PENDING is overwritten by the gateway's answer.
SettledFromTheStart ==
  [][\A p \in Payments : pay[p] \in Settled => pay'[p] \in Settled]_vars

\* "Once a payment is in one of these, none of the callback/IPN handlers should
\* mutate it further": with the page open, the first settled status stands.
SettledIsFinal ==
  [][\A p \in Payments :
       gateway[p] # None /\ pay[p] \in Settled => pay'[p] = pay[p]]_vars

\* "Check if order is already paid or has pending payment": an order never has
\* two payments that are open or paid.
OneLivePayment ==
  \A p, q \in Payments :
    {pay[p], pay[q]} \subseteq {"PENDING", "PROCESSING", "PAID"} => p = q

\* "Only confirm an order that is still live": a payment never reopens an order
\* that was delivered, returned, cancelled or failed.
OnlyLiveConfirmed ==
  [][\A p \in Payments :
       applied'[p] # applied[p] /\ status' # status => OrderRank[status] < 5]_vars
=============================================================================
