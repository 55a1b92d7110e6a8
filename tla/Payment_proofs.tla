--------------------------- MODULE Payment_proofs ---------------------------
(***************************************************************************)
(* What Payment guarantees for every number of payments and of concurrent  *)
(* callbacks.                                                              *)
(***************************************************************************)
EXTENDS MCPayment, TLAPS

\* The fields a request carries are those of its operation.
LEMMA RequestFields ==
  ASSUME NEW r \in Request
  PROVE  /\ r.op = "idle" => r = Idle
         /\ r.op \in {"open", "settle", "confirm", "closed", "unpaid"} => r.payment \in Payments
         /\ r.op = "unpaid" => r.to \in {"FAILED", "CANCELLED"}
         /\ r.op = "move" => r.to \in OrderStatus
  BY DEF Request, Idle

\* A step to a well-formed request leaves every request well-formed.
LEMMA GotoType ==
  ASSUME req \in [Workers -> Request], NEW w \in Workers, NEW local \in Request,
         Goto(w, local)
  PROVE  req' \in [Workers -> Request]
  BY DEF Goto

\* What a row, a session and a request for them say about each other.
PaymentInv(p) ==
  /\ pay[p] = None => gateway[p] = None
  /\ applied[p] \in {0, 1}
  /\ applied[p] = 1 => pay[p] \in Settled /\ paid # "PENDING" /\ gateway[p] # None
  /\ ~crashed /\ pay[p] = "PAID" =>
       applied[p] = 1 \/ \E w \in Workers : Writing(w, p)

\* The inductive invariant: RequestsAreExclusive is what makes "claimed" mean
\* that nobody else will write the payment.
IInv ==
  /\ TypeOK
  /\ RequestsAreExclusive
  /\ \A p \in Payments : PaymentInv(p)

\* The invariant holds at the start.
LEMMA InitInv == Init => IInv
<1> SUFFICES ASSUME Init PROVE IInv
  OBVIOUS
<1>1. TypeOK
  BY PaymentAssumption
  DEF Init, TypeOK, Idle, Request, PaymentAssumption, OrderPayment, PaymentStatus, OrderStatus
<1>2. RequestsAreExclusive
  BY DEF Init, RequestsAreExclusive, Writing, Opening, Told, Idle
<1>3. \A p \in Payments : PaymentInv(p)
  BY PaymentAssumption DEF Init, PaymentInv, PaymentAssumption, PaymentStatus
<1> QED BY <1>1, <1>2, <1>3 DEF IInv

\* Every step keeps the types.
LEMMA TypeStep ==
  ASSUME TypeOK, [Next]_vars
  PROVE  TypeOK'
<1> USE DEF TypeOK, orderVars
<1>a. crashed' \in BOOLEAN
  BY DEF Next, Abort, vars
<1> USE <1>a
<1>0. Idle \in Request /\ [op |-> "create"] \in Request /\ [op |-> "collect"] \in Request
  BY DEF Request
<1>1. ASSUME NEW w \in Workers, NEW local, local \in Request, Goto(w, local)
      PROVE req' \in [Workers -> Request]
  BY <1>1, GotoType
<1>2. ASSUME NEW w \in Workers, InitiateRead(w) \/ CollectRead(w) \/ Abort(w) PROVE TypeOK'
  BY <1>0, <1>1, <1>2 DEF InitiateRead, CollectRead, Abort
<1>3. ASSUME NEW w \in Workers, NEW p \in Payments, InitiateCreate(w, p) PROVE TypeOK'
  <2>1. [op |-> "open", payment |-> p] \in Request
    BY DEF Request
  <2> QED BY <1>1, <1>3, <2>1 DEF InitiateCreate, PaymentStatus
<1>4. ASSUME NEW w \in Workers, NEW ok \in BOOLEAN, InitiateAnswer(w, ok) PROVE TypeOK'
  BY <1>0, <1>1, <1>4 DEF InitiateAnswer, PaymentStatus
<1>5. ASSUME NEW w \in Workers, NEW p \in Payments, NEW answer \in Answers,
             SuccessRead(w, p, answer)
      PROVE TypeOK'
  <2>1. [op |-> "settle", payment |-> p, answer |-> answer] \in Request
    BY DEF Request
  <2> QED BY <1>1, <1>5, <2>1 DEF SuccessRead
<1>6. ASSUME NEW w \in Workers, SuccessSettle(w) PROVE TypeOK'
  <2>1. req[w].payment \in Payments
    BY <1>6, RequestFields DEF SuccessSettle
  <2>2. [op |-> "confirm", payment |-> req[w].payment] \in Request
    BY <2>1 DEF Request
  <2>3. req' \in [Workers -> Request]
    BY <1>0, <1>1, <1>6, <2>2 DEF SuccessSettle
  <2> QED BY <1>6, <2>3 DEF SuccessSettle, PaymentStatus
<1>7. ASSUME NEW w \in Workers, SuccessConfirm(w) PROVE TypeOK'
  <2>1. req[w].payment \in Payments
    BY <1>7, RequestFields DEF SuccessConfirm
  <2>2. [op |-> "closed", payment |-> req[w].payment] \in Request
    BY <2>1 DEF Request
  <2>3. req' \in [Workers -> Request]
    BY <1>0, <1>1, <1>7, <2>2 DEF SuccessConfirm
  <2>4. applied' \in [Payments -> Nat]
    BY <1>7, <2>1 DEF SuccessConfirm
  <2> QED BY <1>7, <2>3, <2>4 DEF SuccessConfirm, OnlinePaymentStatus, OrderPayment, OrderStatus
<1>8. ASSUME NEW w \in Workers, SuccessOnClosed(w) PROVE TypeOK'
  BY <1>0, <1>1, <1>8, RequestFields DEF SuccessOnClosed, OnlinePaymentStatus, OrderPayment
<1>9. ASSUME NEW w \in Workers, NEW p \in Payments, NEW to \in {"FAILED", "CANCELLED"},
             UnpaidRead(w, p, to)
      PROVE TypeOK'
  <2>1. [op |-> "unpaid", payment |-> p, to |-> to] \in Request
    BY DEF Request
  <2> QED BY <1>1, <1>9, <2>1 DEF UnpaidRead
<1>10. ASSUME NEW w \in Workers, UnpaidClaim(w) PROVE TypeOK'
  BY <1>0, <1>1, <1>10, RequestFields DEF UnpaidClaim, PaymentStatus
<1>11. ASSUME NEW w \in Workers, NEW to \in Moves, MoveRead(w, to) PROVE TypeOK'
  <2>1. [op |-> "move", to |-> to, seen |-> paid, due |-> remaining] \in Request
    BY PaymentAssumption DEF Request, PaymentAssumption
  <2> QED BY <1>1, <1>11, <2>1 DEF MoveRead
<1>12. ASSUME NEW w \in Workers, MoveCommit(w) PROVE TypeOK'
  <2>1. \E n \in Nat, phase \in {"FULL", "REMAINDER"} :
          cod' = cod \/ cod' = [cod EXCEPT ![phase] = n]
    <3>1. cod["FULL"] + 1 \in Nat /\ cod["REMAINDER"] + 1 \in Nat
      OBVIOUS
    <3> QED BY <1>12, <3>1 DEF MoveCommit
  <2>2. cod' \in [{"FULL", "REMAINDER"} -> Nat]
    BY <2>1
  <2>3. req' \in [Workers -> Request]
    BY <1>0, <1>1, <1>12 DEF MoveCommit
  <2> QED BY <1>12, <2>2, <2>3, RequestFields DEF MoveCommit, OrderPayment
<1>13. ASSUME NEW w \in Workers, CollectCommit(w) PROVE TypeOK'
  <2>1. cod["REMAINDER"] + 1 \in Nat
    OBVIOUS
  <2>2. cod' \in [{"FULL", "REMAINDER"} -> Nat]
    BY <1>13, <2>1 DEF CollectCommit
  <2> QED BY <1>0, <1>1, <1>13, <2>2 DEF CollectCommit, OrderPayment
<1>14. ASSUME NEW p \in Payments, CustomerPays(p) PROVE TypeOK'
  BY <1>14 DEF CustomerPays
<1>15. CASE UNCHANGED vars
  BY <1>15 DEF vars
<1> QED BY <1>2, <1>3, <1>4, <1>5, <1>6, <1>7, <1>8, <1>9, <1>10, <1>11, <1>12, <1>13,
           <1>14, <1>15 DEF Next, Serve

-----------------------------------------------------------------------------
(* Exclusive requests and the payments they work on.                        *)

\* Everything the invariant says of one payment.
OnPayment(p) ==
  /\ PaymentInv(p)
  /\ \A w \in Workers :
       /\ Opening(w, p) => /\ pay[p] \in {"PENDING", "FAILED", "CANCELLED"}
                           /\ gateway[p] = None
                           /\ \A v \in Workers : Opening(v, p) => v = w
       /\ Told(w, p) => gateway[p] # None
       /\ Writing(w, p) => /\ pay[p] \in Settled /\ applied[p] = 0
                           /\ \A v \in Workers : Writing(v, p) => v = w

\* The invariant is a statement about each payment by itself.
LEMMA InvIsOnPayment == IInv <=> TypeOK /\ \A p \in Payments : OnPayment(p)
  BY DEF IInv, OnPayment, RequestsAreExclusive

\* A step of a request that has nothing to do with payment p, before or after,
\* and leaves its row, its session and its count alone.
LEMMA OtherPayment ==
  ASSUME TypeOK, NEW p \in Payments, OnPayment(p), NEW w \in Workers, NEW local,
         Goto(w, local),
         pay'[p] = pay[p], gateway'[p] = gateway[p], applied'[p] = applied[p],
         paid # "PENDING" => paid' # "PENDING",
         local.op \in {"open", "settle", "unpaid", "confirm", "closed"} => local.payment # p,
         crashed => crashed',
         req[w].op \in {"confirm", "closed"} => req[w].payment # p \/ crashed'
  PROVE  OnPayment(p)'
<1>1. \A v \in Workers : req'[v] = IF v = w THEN local ELSE req[v]
  BY DEF Goto, TypeOK
<1>2. \A v \in Workers : /\ Opening(v, p)' => Opening(v, p) /\ v # w
                         /\ Writing(v, p)' => Writing(v, p) /\ v # w
                         /\ Told(v, p)' => Told(v, p) /\ v # w
  BY <1>1 DEF Opening, Writing, Told
<1>3. PaymentInv(p)'
  <2>1. ASSUME NEW v \in Workers, Writing(v, p), ~crashed' PROVE Writing(v, p)'
    BY <1>1, <2>1 DEF Writing
  <2> QED BY <2>1 DEF PaymentInv, OnPayment
<1> QED BY <1>1, <1>2, <1>3 DEF OnPayment

\* Steps that read on behalf of payment p, and nothing else.
LEMMA ReadPayment ==
  ASSUME TypeOK, NEW p \in Payments, OnPayment(p), NEW w \in Workers, NEW local,
         Goto(w, local), req[w] = Idle, local.op \in {"settle", "unpaid"},
         local.op = "settle" /\ local.answer # "INVALID" => gateway[p] # None,
         pay'[p] = pay[p], applied'[p] = applied[p], paid' = paid, crashed => crashed',
         gateway[p] = None <=> gateway'[p] = None
  PROVE  OnPayment(p)'
<1>1. \A v \in Workers : req'[v] = IF v = w THEN local ELSE req[v]
  BY DEF Goto, TypeOK
<1>2. \A v \in Workers : /\ Opening(v, p)' <=> Opening(v, p) /\ v # w
                         /\ Writing(v, p)' <=> Writing(v, p) /\ v # w
                         /\ Writing(v, p) => v # w
  BY <1>1 DEF Opening, Writing, Idle
<1>3. PaymentInv(p)'
  BY <1>2 DEF PaymentInv, OnPayment
<1>4. \A v \in Workers : Told(v, p)' => gateway'[p] # None
  BY <1>1, <1>2 DEF Told, OnPayment
<1> QED BY <1>2, <1>3, <1>4 DEF OnPayment

\* Every step keeps the invariant.
LEMMA InvStep ==
  ASSUME IInv, [Next]_vars
  PROVE  IInv'
<1> USE DEF orderVars
<1>a. TypeOK /\ TypeOK' /\ \A p \in Payments : OnPayment(p)
  BY InvIsOnPayment, TypeStep
<1> SUFFICES ASSUME NEW p \in Payments PROVE OnPayment(p)'
  BY <1>a DEF IInv, OnPayment, RequestsAreExclusive
<1>b. OnPayment(p) /\ OnlinePaymentStatus # "PENDING" /\ "PENDING" \notin Settled
  BY <1>a DEF OnlinePaymentStatus, Settled
<1>c. None \notin Settled /\ None # "PENDING" /\ None \notin {"PROCESSING", "FAILED", "ON_HOLD"}
  BY PaymentAssumption DEF PaymentAssumption, PaymentStatus, Settled
<1>d. crashed => crashed'
  BY DEF Next, Abort, vars
<1> USE <1>d
<1>1. ASSUME NEW w \in Workers,
             \/ InitiateRead(w) \/ CollectRead(w) \/ CollectCommit(w) \/ MoveCommit(w) \/ Abort(w)
      PROVE OnPayment(p)'
  <2>1. PICK local : Goto(w, local) /\ local.op \in {"idle", "create", "collect"}
    <3>1. Idle.op = "idle" /\ [op |-> "create"].op = "create" /\ [op |-> "collect"].op = "collect"
      BY DEF Idle
    <3> QED BY <1>1, <3>1 DEF InitiateRead, CollectRead, CollectCommit, MoveCommit, Abort
  <2>2. /\ UNCHANGED <<pay, gateway, applied>>
        /\ paid # "PENDING" => paid' # "PENDING"
        /\ req[w].op \in {"confirm", "closed"} => crashed'
    <3>1. InitiateRead(w) \/ CollectRead(w) \/ Abort(w) =>
            UNCHANGED <<pay, gateway, applied, paid>> /\ (req[w] # Idle => crashed')
      BY DEF InitiateRead, CollectRead, Abort
    <3>2. CollectCommit(w) \/ MoveCommit(w) =>
            /\ UNCHANGED <<pay, gateway, applied>> /\ paid' \in {paid, "PAID"}
            /\ req[w].op \in {"collect", "move"}
      BY DEF CollectCommit, MoveCommit
    <3> QED BY <1>1, <3>1, <3>2 DEF Idle
  <2> QED BY <1>a, <1>b, <2>1, <2>2, OtherPayment
<1>2. ASSUME NEW w \in Workers, NEW to \in Moves, MoveRead(w, to) PROVE OnPayment(p)'
  <2> DEFINE local == [op |-> "move", to |-> to, seen |-> paid, due |-> remaining]
  <2>1. Goto(w, local) /\ local.op = "move" /\ req[w] = Idle /\ UNCHANGED <<pay, gateway, applied, paid>>
    BY <1>2 DEF MoveRead
  <2> HIDE DEF local
  <2> QED BY <1>a, <1>b, <2>1, OtherPayment DEF Idle
<1>3. ASSUME NEW w \in Workers, NEW q \in Payments, InitiateCreate(w, q) PROVE OnPayment(p)'
  <2> DEFINE local == [op |-> "open", payment |-> q]
  <2>1. /\ Goto(w, local) /\ local.op = "open" /\ local.payment = q
        /\ req[w].op = "create" /\ pay[q] = None
        /\ pay' = [pay EXCEPT ![q] = "PENDING"]
        /\ UNCHANGED <<gateway, applied, paid>>
    BY <1>3 DEF InitiateCreate
  <2> HIDE DEF local
  <2>2. CASE q # p
    BY <1>a, <1>b, <2>1, <2>2, OtherPayment DEF TypeOK
  <2>3. CASE q = p
    <3>1. \A v \in Workers : req'[v] = IF v = w THEN local ELSE req[v]
      BY <1>a, <2>1 DEF Goto, TypeOK
    <3>2. /\ pay'[p] = "PENDING" /\ gateway[p] = None /\ applied[p] = 0
          /\ \A v \in Workers : ~Opening(v, p) /\ ~Writing(v, p)
      <4>1. pay'[p] = "PENDING" /\ pay[p] = None
        BY <1>a, <2>1, <2>3 DEF TypeOK
      <4>2. pay[p] \notin Settled /\ pay[p] \notin {"PENDING", "FAILED", "CANCELLED"}
        BY <1>c, <4>1, PaymentAssumption DEF PaymentAssumption, PaymentStatus
      <4> QED BY <1>b, <4>1, <4>2 DEF OnPayment, PaymentInv
    <3>3. \A v \in Workers : (Opening(v, p)' => v = w) /\ ~Writing(v, p)'
      BY <2>1, <3>1, <3>2 DEF Opening, Writing
    <3>4. \A v \in Workers : Told(v, p)' => gateway[p] # None
      BY <1>b, <2>1, <3>1 DEF OnPayment, Told, Writing
    <3>5. PaymentInv(p)'
      BY <1>b, <1>c, <2>1, <3>2 DEF PaymentInv, OnPayment
    <3> QED BY <2>1, <3>2, <3>3, <3>4, <3>5 DEF OnPayment
  <2> QED BY <2>2, <2>3
<1>4. ASSUME NEW w \in Workers, NEW ok \in BOOLEAN, InitiateAnswer(w, ok) PROVE OnPayment(p)'
  <2> DEFINE q == req[w].payment
  <2>1. /\ Goto(w, Idle) /\ Opening(w, q) /\ q \in Payments
        /\ UNCHANGED <<applied, paid>>
    BY <1>a, <1>4, RequestFields DEF InitiateAnswer, Opening, TypeOK
  <2>2. CASE q # p
    <3>1. pay'[p] = pay[p] /\ gateway'[p] = gateway[p]
      BY <1>a, <1>4, <2>1, <2>2 DEF InitiateAnswer, TypeOK
    <3> QED BY <1>a, <1>b, <2>1, <2>2, <3>1, OtherPayment DEF Idle, Opening
  <2>3. CASE q = p
    <3>1. /\ pay'[p] \in {"PROCESSING", "FAILED"} /\ (gateway[p] # None => gateway'[p] # None)
      BY <1>a, <1>4, <1>c, <2>1, <2>3, PaymentAssumption
      DEF InitiateAnswer, TypeOK, PaymentAssumption
    <3>2. gateway[p] = None /\ \A v \in Workers : Opening(v, p) => v = w
      BY <1>b, <2>1, <2>3 DEF OnPayment
    <3>3. applied[p] = 0 /\ \A v \in Workers : ~Told(v, p) /\ ~Writing(v, p)
      BY <1>b, <3>2 DEF OnPayment, PaymentInv, Told
    <3>4. \A v \in Workers : req'[v] = IF v = w THEN Idle ELSE req[v]
      BY <1>a, <2>1 DEF Goto, TypeOK
    <3>5. \A v \in Workers : ~Writing(v, p)' /\ ~Opening(v, p)'
      BY <3>2, <3>3, <3>4 DEF Writing, Opening, Idle
    <3>6. \A v \in Workers : ~Told(v, p)'
      BY <3>3, <3>4 DEF Told, Writing, Idle
    <3>7. PaymentInv(p)'
      BY <1>c, <2>1, <3>1, <3>3 DEF PaymentInv
    <3> QED BY <3>5, <3>6, <3>7 DEF OnPayment
  <2> QED BY <2>2, <2>3
<1>5. ASSUME NEW w \in Workers, NEW q \in Payments, NEW local,
             local.op \in {"settle", "unpaid"}, local.payment = q,
             local.op = "settle" /\ local.answer # "INVALID" => gateway[q] # None,
             Goto(w, local), req[w] = Idle, gateway[q] = None <=> gateway'[q] = None,
             \A r \in Payments : r # q => gateway'[r] = gateway[r],
             UNCHANGED <<pay, applied, paid>>
      PROVE OnPayment(p)'
  <2>1. CASE q # p
    BY <1>a, <1>b, <1>5, <2>1, OtherPayment DEF Idle
  <2>2. CASE q = p
    BY <1>a, <1>b, <1>5, <2>2, ReadPayment
  <2> QED BY <2>1, <2>2
<1>6. ASSUME NEW w \in Workers, NEW q \in Payments, NEW answer \in Answers,
             SuccessRead(w, q, answer)
      PROVE OnPayment(p)'
  <2> DEFINE local == [op |-> "settle", payment |-> q, answer |-> answer]
  <2>1. local.op = "settle" /\ local.payment = q /\ local.answer = answer
        /\ Goto(w, local) /\ req[w] = Idle
    BY <1>6 DEF SuccessRead
  <2> HIDE DEF local
  <2>2. /\ gateway[q] = None <=> gateway'[q] = None
        /\ answer # "INVALID" => gateway[q] # None
    BY <1>6, <1>a, PaymentAssumption DEF SuccessRead, TypeOK, PaymentAssumption, Answers
  <2>3. \A r \in Payments : r # q => gateway'[r] = gateway[r]
    BY <1>6, <1>a DEF SuccessRead, TypeOK
  <2> QED BY <1>5, <1>6, <2>1, <2>2, <2>3 DEF SuccessRead
<1>7. ASSUME NEW w \in Workers, NEW q \in Payments, NEW to, UnpaidRead(w, q, to)
      PROVE OnPayment(p)'
  <2> DEFINE local == [op |-> "unpaid", payment |-> q, to |-> to]
  <2>1. local.op = "unpaid" /\ local.payment = q /\ Goto(w, local) /\ req[w] = Idle
    BY <1>7 DEF UnpaidRead
  <2> HIDE DEF local
  <2> QED BY <1>5, <1>7, <2>1 DEF UnpaidRead
<1>8. ASSUME NEW w \in Workers, SuccessSettle(w) PROVE OnPayment(p)'
  <2> DEFINE q == req[w].payment
  <2>1. /\ req[w].op = "settle" /\ q \in Payments
        /\ UNCHANGED <<gateway, applied, paid>>
    BY <1>a, <1>8, RequestFields DEF SuccessSettle, TypeOK
  <2>2. CASE q = p /\ pay[p] \notin Settled /\ pay'[p] = "PAID" /\ req[w].answer = "VALID"
             /\ Goto(w, [op |-> "confirm", payment |-> p])
    <3>1. \A v \in Workers : req'[v] = IF v = w THEN [op |-> "confirm", payment |-> p] ELSE req[v]
      BY <1>a, <2>2 DEF Goto, TypeOK
    <3>2. gateway[p] # None
      BY <1>b, <2>1, <2>2 DEF OnPayment, Told
    <3>3. applied[p] = 0 /\ \A v \in Workers : ~Opening(v, p) /\ ~Writing(v, p)
      BY <1>b, <2>2, <3>2 DEF OnPayment, PaymentInv
    <3>4. \A v \in Workers : ~Opening(v, p)' /\ (Writing(v, p)' <=> v = w)
      BY <3>1, <3>3 DEF Opening, Writing
    <3>5. PaymentInv(p)'
      BY <1>c, <2>1, <2>2, <3>3, <3>4, PaymentAssumption
      DEF PaymentInv, PaymentAssumption, PaymentStatus
    <3> QED BY <2>1, <2>2, <3>2, <3>3, <3>4, <3>5 DEF OnPayment, Settled
  <2>3. CASE q = p /\ pay'[p] \in {"FAILED", "ON_HOLD"} /\ Goto(w, Idle)
             /\ (pay'[p] = "ON_HOLD" => req[w].answer = "VALID")
    <3>1. \A v \in Workers : req'[v] = IF v = w THEN Idle ELSE req[v]
      BY <1>a, <2>3 DEF Goto, TypeOK
    <3>2. \A v \in Workers : /\ Opening(v, p)' => Opening(v, p)
                             /\ Writing(v, p)' <=> Writing(v, p)
                             /\ Told(v, p)' => Told(v, p)
      BY <2>1, <3>1 DEF Opening, Writing, Told, Idle
    <3>3. pay'[p] \in Settled /\ pay'[p] # None /\ pay'[p] # "PAID"
      BY <1>c, <2>3 DEF Settled
    <3>4. pay'[p] # "FAILED" => gateway[p] # None
      BY <1>b, <2>1, <2>3 DEF OnPayment, Told
    <3>5. PaymentInv(p)'
      BY <1>b, <2>1, <3>3 DEF PaymentInv, OnPayment
    <3> QED BY <1>b, <2>1, <3>2, <3>3, <3>4, <3>5 DEF OnPayment
  <2>4. CASE pay'[p] = pay[p] /\ (Goto(w, Idle) \/ q # p)
    <3>1. PICK local : /\ Goto(w, local)
                       /\ local = Idle \/ local = [op |-> "confirm", payment |-> q]
      BY <1>8 DEF SuccessSettle
    <3>2. local.op \in {"open", "settle", "unpaid", "confirm", "closed"} => local.payment # p
      <4>1. CASE q # p
        BY <3>1, <4>1 DEF Idle
      <4>2. CASE Goto(w, Idle)
        BY <1>a, <3>1, <4>2 DEF Goto, TypeOK, Idle
      <4> QED BY <2>4, <4>1, <4>2
    <3> HIDE DEF q
    <3> QED BY <1>a, <1>b, <2>1, <2>4, <3>1, <3>2, OtherPayment
  <2>5. q = p => \/ /\ pay'[p] \in {"FAILED", "ON_HOLD"} /\ Goto(w, Idle)
                    /\ pay'[p] = "ON_HOLD" => req[w].answer = "VALID"
                 \/ pay'[p] = pay[p] /\ Goto(w, Idle)
                 \/ /\ pay[p] \notin Settled /\ pay'[p] = "PAID" /\ req[w].answer = "VALID"
                    /\ Goto(w, [op |-> "confirm", payment |-> p])
    BY <1>8, <1>a DEF SuccessSettle, TypeOK
  <2>6. q # p => pay'[p] = pay[p]
    BY <1>8, <1>a, <2>1 DEF SuccessSettle, TypeOK
  <2> QED BY <2>2, <2>3, <2>4, <2>5, <2>6
<1>9. ASSUME NEW w \in Workers, Writing(w, req[w].payment), NEW local, Goto(w, local),
             UNCHANGED <<pay, gateway>>,
             \/ local = Idle /\ paid' = OnlinePaymentStatus
                /\ applied' = [applied EXCEPT ![req[w].payment] = @ + 1]
             \/ local = [op |-> "closed", payment |-> req[w].payment] /\ UNCHANGED <<paid, applied>>
      PROVE OnPayment(p)'
  <2> DEFINE q == req[w].payment
  <2>1. \A v \in Workers : req'[v] = IF v = w THEN local ELSE req[v]
    BY <1>a, <1>9 DEF Goto, TypeOK
  <2>2. CASE q # p
    <3>1. applied'[p] = applied[p] /\ (paid # "PENDING" => paid' # "PENDING")
      BY <1>a, <1>b, <1>9, <2>2 DEF TypeOK
    <3>2. local.op \in {"open", "settle", "unpaid", "confirm", "closed"} => local.payment # p
      BY <1>9, <2>2 DEF Idle
    <3> QED BY <1>a, <1>b, <1>9, <2>2, <3>1, <3>2, OtherPayment
  <2>3. CASE q = p
    <3>1. /\ pay[p] \in Settled /\ applied[p] = 0 /\ \A v \in Workers : Writing(v, p) => v = w
          /\ gateway[p] # None /\ \A v \in Workers : ~Opening(v, p)
      BY <1>b, <1>9, <2>3 DEF OnPayment, Writing, Told
    <3>2. CASE local = Idle /\ paid' = OnlinePaymentStatus
               /\ applied' = [applied EXCEPT ![p] = @ + 1]
      <4>1. applied'[p] = 1 /\ paid' # "PENDING"
        BY <1>a, <1>b, <3>1, <3>2 DEF TypeOK
      <4>2. \A v \in Workers : ~Opening(v, p)' /\ ~Writing(v, p)'
        BY <2>1, <3>1, <3>2 DEF Opening, Writing, Idle
      <4>3. PaymentInv(p)'
        BY <1>9, <1>c, <3>1, <4>1 DEF PaymentInv
      <4> QED BY <1>9, <3>1, <4>2, <4>3 DEF OnPayment
    <3>3. CASE local = [op |-> "closed", payment |-> p] /\ UNCHANGED <<paid, applied>>
      <4>1. \A v \in Workers : ~Opening(v, p)' /\ (Writing(v, p)' <=> Writing(v, p))
        BY <1>9, <2>1, <2>3, <3>1, <3>3 DEF Opening, Writing
      <4>2. PaymentInv(p)'
        BY <1>9, <1>b, <3>3, <4>1 DEF PaymentInv, OnPayment
      <4> QED BY <1>9, <3>1, <3>3, <4>1, <4>2 DEF OnPayment
    <3> QED BY <1>9, <2>3, <3>2, <3>3
  <2> QED BY <2>2, <2>3
<1>10. ASSUME NEW w \in Workers, SuccessConfirm(w) \/ SuccessOnClosed(w) PROVE OnPayment(p)'
  <2>1. Writing(w, req[w].payment) /\ UNCHANGED <<pay, gateway>>
    BY <1>10 DEF SuccessConfirm, SuccessOnClosed, Writing
  <2>2. \/ /\ Goto(w, Idle) /\ paid' = OnlinePaymentStatus
           /\ applied' = [applied EXCEPT ![req[w].payment] = @ + 1]
        \/ /\ Goto(w, [op |-> "closed", payment |-> req[w].payment])
           /\ UNCHANGED <<paid, applied>>
    BY <1>10 DEF SuccessConfirm, SuccessOnClosed
  <2> QED BY <1>9, <2>1, <2>2
<1>11. ASSUME NEW w \in Workers, UnpaidClaim(w) PROVE OnPayment(p)'
  <2> DEFINE q == req[w].payment
  <2>1. /\ req[w].op = "unpaid" /\ q \in Payments
        /\ req[w].to \in {"FAILED", "CANCELLED"} /\ Goto(w, Idle)
        /\ UNCHANGED <<gateway, applied, paid>>
    BY <1>a, <1>11, RequestFields DEF UnpaidClaim, TypeOK
  <2>2. CASE q # p \/ pay[p] \in Settled
    <3>1. pay'[p] = pay[p]
      BY <1>a, <1>11, <2>1, <2>2 DEF UnpaidClaim, TypeOK
    <3> QED BY <1>a, <1>b, <2>1, <3>1, OtherPayment DEF Idle
  <2>3. CASE q = p /\ pay[p] \notin Settled
    <3>1. pay'[p] \in {"FAILED", "CANCELLED"}
      BY <1>a, <1>11, <2>1, <2>3 DEF UnpaidClaim, TypeOK
    <3>2. pay'[p] \in Settled /\ pay'[p] # None /\ pay'[p] # "PAID"
      BY <3>1, PaymentAssumption DEF Settled, PaymentAssumption, PaymentStatus
    <3>3. \A v \in Workers : req'[v] = IF v = w THEN Idle ELSE req[v]
      BY <1>a, <2>1 DEF Goto, TypeOK
    <3>4. \A v \in Workers : /\ Opening(v, p)' => Opening(v, p)
                             /\ Writing(v, p)' => Writing(v, p)
                             /\ Told(v, p)' => Told(v, p)
      BY <2>1, <3>3 DEF Opening, Writing, Told, Idle
    <3>5. PaymentInv(p)'
      BY <1>b, <2>1, <3>2 DEF PaymentInv, OnPayment
    <3> QED BY <1>b, <2>1, <3>1, <3>2, <3>4, <3>5 DEF OnPayment
  <2> QED BY <2>2, <2>3
<1>12. ASSUME NEW q \in Payments, CustomerPays(q) PROVE OnPayment(p)'
  <2>1. UNCHANGED <<pay, applied, paid, req>> /\ (gateway[p] # None => gateway'[p] # None)
        /\ (gateway[p] = None => gateway'[p] = None)
    BY <1>a, <1>12, PaymentAssumption DEF CustomerPays, TypeOK, PaymentAssumption
  <2>2. \A v \in Workers : /\ Opening(v, p)' <=> Opening(v, p)
                           /\ Writing(v, p)' <=> Writing(v, p)
                           /\ Told(v, p)' <=> Told(v, p)
    BY <2>1 DEF Opening, Writing, Told
  <2>3. PaymentInv(p)'
    BY <1>b, <2>1, <2>2 DEF PaymentInv, OnPayment
  <2> QED BY <1>b, <2>1, <2>2, <2>3 DEF OnPayment
<1>13. CASE UNCHANGED vars
  <2>1. UNCHANGED <<pay, gateway, applied, paid, req>>
    BY <1>13 DEF vars
  <2> QED BY <1>b, <2>1 DEF OnPayment, PaymentInv, Opening, Writing, Told
<1> QED BY <1>1, <1>2, <1>3, <1>4, <1>6, <1>7, <1>8, <1>10, <1>11, <1>12, <1>13 DEF Next, Serve

\* The inductive invariant holds in every reachable state.
THEOREM Invariance == Spec => []IInv
<1>1. IInv /\ [Next]_vars => IInv'
  BY InvStep
<1> QED BY InitInv, <1>1, PTL DEF Spec

\* Every variable keeps its type: a payment row never leaves enum PaymentStatus
\* and a request never works on a row that is not its own.
THEOREM TypeCorrect == Spec => []TypeOK
<1>1. IInv => TypeOK
  BY DEF IInv
<1> QED BY <1>1, Invariance, PTL

\* Two requests never open or write the same payment, and callbacks never mark
\* one as paid whose page is still being opened.
THEOREM ExclusiveRequests == Spec => []RequestsAreExclusive
<1>1. IInv => RequestsAreExclusive
  BY DEF IInv
<1> QED BY <1>1, Invariance, PTL

\* A payment is written to its order at most once, for any number of redirects
\* and IPNs at once.
THEOREM WrittenAtMostOnce == Spec => []AppliedAtMostOnce
<1>1. IInv => AppliedAtMostOnce
  BY DEF IInv, AppliedAtMostOnce, PaymentInv
<1> QED BY <1>1, Invariance, PTL

\* A server that does not crash leaves no payment PAID that its order does not
\* know of.
THEOREM NoPaymentLost == Spec => []PaidIsRecorded
<1>1. IInv => PaidIsRecorded
  BY DEF IInv, PaidIsRecorded, PaymentInv, Writing, Idle
<1> QED BY <1>1, Invariance, PTL

\* A settled payment goes back to being in progress only by the request that
\* opens its page, and a PAID one never.
THEOREM SettledForGood == Spec => SettledStaysSettled
<1> DEFINE Reopened(p) == pay[p] # "PAID" /\ \E w \in Workers : Opening(w, p)
<1>1. ASSUME IInv, [Next]_vars, NEW p \in Payments, pay[p] \in Settled, pay'[p] \notin Settled
      PROVE Reopened(p)
  <2> USE <1>1
  <2>0. TypeOK /\ RequestsAreExclusive
    BY DEF IInv
  <2>1. None \notin Settled
    BY PaymentAssumption DEF PaymentAssumption, PaymentStatus, Settled
  <2>2. ASSUME NEW w \in Workers, NEW q \in Payments, InitiateCreate(w, q)
        PROVE pay'[p] \in Settled
    BY <2>0, <2>1, <2>2 DEF InitiateCreate, TypeOK
  <2>3. ASSUME NEW w \in Workers, NEW ok \in BOOLEAN, InitiateAnswer(w, ok)
        PROVE Reopened(p)
    <3>1. CASE req[w].payment # p
      BY <2>0, <2>3, <3>1 DEF InitiateAnswer, TypeOK
    <3>2. CASE req[w].payment = p
      BY <2>0, <2>3, <3>2 DEF InitiateAnswer, RequestsAreExclusive, Opening
    <3> QED BY <3>1, <3>2
  <2>4. ASSUME NEW w \in Workers, SuccessSettle(w) PROVE pay'[p] \in Settled
    BY <2>0, <2>4 DEF SuccessSettle, TypeOK, Settled
  <2>5. ASSUME NEW w \in Workers, UnpaidClaim(w) PROVE pay'[p] \in Settled
    BY <2>0, <2>5 DEF UnpaidClaim, TypeOK
  <2>6. CASE UNCHANGED pay
    BY <2>6
  <2> QED BY <2>2, <2>3, <2>4, <2>5, <2>6
          DEF Next, Serve, InitiateRead, SuccessRead, UnpaidRead, SuccessConfirm,
              SuccessOnClosed, MoveRead, MoveCommit, CollectRead, CollectCommit, Abort,
              CustomerPays, vars
<1>2. IInv /\ [Next]_vars =>
        [\A p \in Payments :
           pay[p] \in Settled /\ pay'[p] \notin Settled =>
             pay[p] # "PAID" /\ \E w \in Workers : Opening(w, p)]_vars
  BY <1>1
<1> QED BY <1>2, Invariance, PTL DEF Spec, SettledStaysSettled

-----------------------------------------------------------------------------
(* One request at a time (MCSpec without overlap): what a request has read  *)
(* is still so when it writes, and a row that is PAID stays PAID.           *)

\* What the request being served has found is still so.
ReadIsTrue(w) ==
  LET r == req[w] IN
  /\ r.op \in {"confirm", "closed"} => pay[r.payment] = "PAID"
  /\ r.op = "settle" => pay[r.payment] \notin Settled
  /\ r.op = "move" => r.seen = paid /\ r.due = remaining
  /\ r.op = "collect" => remaining

\* The remainder is due until it is collected, once.
RemainderInv ==
  /\ remaining => Advance
  /\ cod["REMAINDER"] = IF Advance /\ ~remaining THEN 1 ELSE 0

\* The invariant, on top of IInv.
SerialInv ==
  /\ OneAtATime
  /\ \A w \in Workers : ReadIsTrue(w)
  /\ RemainderInv
  /\ PaidOrderHasPayment

\* A request that has ended has read nothing.
LEMMA IdleReads ==
  ASSUME NEW w \in Workers, req[w] = Idle
  PROVE  ReadIsTrue(w)
  BY DEF ReadIsTrue, Idle

\* While a request moves on no other is being served.
LEMMA OthersWait ==
  ASSUME TypeOK, OneAtATime, OneAtATime', NEW w \in Workers, NEW local, Goto(w, local),
         req[w] # Idle \/ local # Idle
  PROVE  /\ req'[w] = local
         /\ \A v \in Workers \ {w} : req[v] = Idle /\ req'[v] = Idle
<1>1. req'[w] = local /\ \A v \in Workers \ {w} : req'[v] = req[v]
  BY DEF TypeOK, Goto
<1>2. \A v \in Workers \ {w} : req[v] = Idle \/ req[w] = Idle
  BY DEF OneAtATime
<1>3. \A v \in Workers \ {w} : req'[v] = Idle \/ local = Idle
  BY <1>1 DEF OneAtATime
<1> QED
  BY <1>1, <1>2, <1>3

\* When it ends nobody has read anything.
LEMMA EndReads ==
  ASSUME TypeOK, OneAtATime, OneAtATime', NEW w \in Workers, Goto(w, Idle), req[w] # Idle
  PROVE  \A v \in Workers : ReadIsTrue(v)'
<1>1. \A v \in Workers : req'[v] = Idle
  BY OthersWait
<1> SUFFICES ASSUME NEW v \in Workers PROVE ReadIsTrue(v)'
  OBVIOUS
<1>2. req'[v].op = "idle"
  BY <1>1 DEF Idle
<1> QED
  BY <1>2 DEF ReadIsTrue

\* Evidence of a payment is kept when PAID rows and cash rows are.
LEMMA EvidenceStays ==
  ASSUME TypeOK, TypeOK', PaidOrderHasPayment, paid' = paid,
         \A p \in Payments : pay[p] = "PAID" => pay'[p] = "PAID",
         \A phase \in DOMAIN cod : cod'[phase] >= cod[phase]
  PROVE  PaidOrderHasPayment'
<1>1. DOMAIN cod' = DOMAIN cod /\ \A phase \in DOMAIN cod : cod[phase] \in Nat /\ cod'[phase] \in Nat
  BY DEF TypeOK
<1>2. \A phase \in DOMAIN cod : cod[phase] > 0 => cod'[phase] > 0
  BY <1>1
<1> QED
  BY <1>1, <1>2 DEF PaidOrderHasPayment

\* A step of the request w that leaves the order's money and the cash rows
\* alone, and no PAID row behind.
LEMMA RowStep ==
  ASSUME TypeOK, TypeOK', SerialInv, OneAtATime', NEW w \in Workers, NEW local, Goto(w, local),
         req[w] # Idle \/ local # Idle, UNCHANGED <<paid, remaining, cod>>,
         \A p \in Payments : pay[p] = "PAID" => pay'[p] = "PAID",
         ReadIsTrue(w)'
  PROVE  SerialInv'
<1>1. \A v \in Workers : ReadIsTrue(v)'
  BY OthersWait, IdleReads DEF SerialInv, ReadIsTrue, Idle
<1>2. RemainderInv'
  BY DEF SerialInv, RemainderInv
<1>3. PaidOrderHasPayment'
  BY EvidenceStays DEF SerialInv, TypeOK
<1> QED
  BY <1>1, <1>2, <1>3 DEF SerialInv

\* Requests one at a time keep the invariant.
LEMMA SerialStep ==
  ASSUME IInv, IInv', SerialInv, Next, OneAtATime'
  PROVE  SerialInv'
<1> USE DEF orderVars
<1>0. TypeOK /\ TypeOK' /\ RequestsAreExclusive /\ OneAtATime
  BY DEF IInv, SerialInv
<1>a. /\ None \notin Settled /\ None # "PAID" /\ "PAID" \in Settled /\ "PENDING" \notin Settled
      /\ OnlinePaymentStatus # "PENDING" /\ Idle.op = "idle"
  BY PaymentAssumption DEF PaymentAssumption, PaymentStatus, Settled, OnlinePaymentStatus, Idle
<1>b. \A w \in Workers : ReadIsTrue(w) /\ req[w] \in Request
  BY <1>0 DEF SerialInv, TypeOK
<1>1. ASSUME NEW w \in Workers, InitiateRead(w) PROVE SerialInv'
  <2> DEFINE local == [op |-> "create"]
  <2>1. /\ Goto(w, local) /\ local # Idle /\ local.op = "create"
        /\ UNCHANGED <<paid, remaining, cod, pay>>
    BY <1>1 DEF InitiateRead, Idle
  <2> HIDE DEF local
  <2>2. ReadIsTrue(w)'
    BY <1>0, <2>1, OthersWait DEF ReadIsTrue
  <2> QED
    BY <1>0, <2>1, <2>2, RowStep
<1>2. ASSUME NEW w \in Workers, NEW p \in Payments, InitiateCreate(w, p) PROVE SerialInv'
  <2> DEFINE local == [op |-> "open", payment |-> p]
  <2>1. /\ Goto(w, local) /\ local # Idle /\ local.op = "open"
        /\ UNCHANGED <<paid, remaining, cod>>
        /\ pay' = [pay EXCEPT ![p] = "PENDING"] /\ pay[p] = None
    BY <1>2 DEF InitiateCreate, Idle
  <2> HIDE DEF local
  <2>2. ReadIsTrue(w)'
    BY <1>0, <2>1, OthersWait DEF ReadIsTrue
  <2>3. \A q \in Payments : pay[q] = "PAID" => pay'[q] = "PAID"
    BY <1>0, <1>a, <2>1 DEF TypeOK
  <2> QED
    BY <1>0, <2>1, <2>2, <2>3, RowStep
<1>3. ASSUME NEW w \in Workers, NEW ok \in BOOLEAN, InitiateAnswer(w, ok) PROVE SerialInv'
  <2> DEFINE p == req[w].payment
  <2>1. /\ Goto(w, Idle) /\ req[w] # Idle /\ p \in Payments
        /\ UNCHANGED <<paid, remaining, cod>>
        /\ \A q \in Payments \ {p} : pay'[q] = pay[q]
    BY <1>0, <1>a, <1>b, <1>3, RequestFields DEF InitiateAnswer, TypeOK
  <2>2. pay[p] \in {"PENDING", "FAILED", "CANCELLED"}
    BY <1>0, <1>3, <2>1 DEF InitiateAnswer, RequestsAreExclusive, Opening
  <2>3. ReadIsTrue(w)'
    BY <1>0, <2>1, OthersWait DEF ReadIsTrue, Idle
  <2> QED
    BY <1>0, <2>1, <2>2, <2>3, RowStep
<1>4. ASSUME NEW w \in Workers, NEW p \in Payments, NEW answer, SuccessRead(w, p, answer)
      PROVE  SerialInv'
  <2> DEFINE local == [op |-> "settle", payment |-> p, answer |-> answer]
  <2>1. /\ Goto(w, local) /\ local # Idle /\ local.op = "settle" /\ local.payment = p
        /\ UNCHANGED <<paid, remaining, cod, pay>> /\ pay[p] \notin Settled
    BY <1>4 DEF SuccessRead, Idle
  <2> HIDE DEF local
  <2>2. ReadIsTrue(w)'
    BY <1>0, <2>1, OthersWait DEF ReadIsTrue
  <2> QED
    BY <1>0, <2>1, <2>2, RowStep
<1>5. ASSUME NEW w \in Workers, SuccessSettle(w) PROVE SerialInv'
  <2> DEFINE p == req[w].payment
             local == [op |-> "confirm", payment |-> p]
  <2>1. /\ req[w].op = "settle" /\ req[w] # Idle /\ p \in Payments
        /\ UNCHANGED <<paid, remaining, cod>> /\ pay[p] \notin Settled
        /\ local.op = "confirm" /\ local.payment = p
    BY <1>0, <1>a, <1>b, <1>5, RequestFields DEF SuccessSettle, ReadIsTrue
  <2>2. /\ \A q \in Payments \ {p} : pay'[q] = pay[q]
        /\ Goto(w, Idle) \/ (Goto(w, local) /\ pay'[p] = "PAID")
    BY <1>0, <1>5, <2>1 DEF SuccessSettle, TypeOK
  <2>3. \A q \in Payments : pay[q] = "PAID" => pay'[q] = "PAID"
    BY <1>a, <2>1, <2>2
  <2> HIDE DEF local
  <2>4. CASE Goto(w, Idle)
    <3>1. ReadIsTrue(w)'
      BY <1>0, <2>1, <2>4, OthersWait DEF ReadIsTrue, Idle
    <3> QED
      BY <1>0, <2>1, <2>3, <2>4, <3>1, RowStep
  <2>5. CASE Goto(w, local) /\ pay'[p] = "PAID"
    <3>1. ReadIsTrue(w)'
      BY <1>0, <2>1, <2>5, OthersWait DEF ReadIsTrue
    <3> QED
      BY <1>0, <2>1, <2>3, <2>5, <3>1, RowStep
  <2> QED
    BY <2>2, <2>4, <2>5
<1>6. ASSUME NEW w \in Workers, SuccessConfirm(w) \/ SuccessOnClosed(w) PROVE SerialInv'
  <2> DEFINE p == req[w].payment
             local == [op |-> "closed", payment |-> p]
  <2>1. /\ req[w].op \in {"confirm", "closed"} /\ req[w] # Idle /\ p \in Payments
        /\ pay[p] = "PAID" /\ UNCHANGED <<remaining, cod, pay>>
        /\ local.op = "closed" /\ local.payment = p
    BY <1>0, <1>a, <1>b, <1>6, RequestFields DEF SuccessConfirm, SuccessOnClosed, ReadIsTrue
  <2>2. Goto(w, Idle) \/ Goto(w, local)
    BY <1>6 DEF SuccessConfirm, SuccessOnClosed
  <2> HIDE DEF local
  <2>3. ReadIsTrue(w)'
    BY <1>0, <2>1, <2>2, OthersWait DEF ReadIsTrue, Idle
  <2>4. \A v \in Workers : ReadIsTrue(v)'
    BY <1>0, <2>1, <2>2, <2>3, OthersWait DEF ReadIsTrue, Idle
  <2>5. PaidOrderHasPayment' /\ RemainderInv'
    BY <2>1 DEF PaidOrderHasPayment, SerialInv, RemainderInv
  <2> QED
    BY <2>4, <2>5 DEF SerialInv
<1>7. ASSUME NEW w \in Workers, NEW p \in Payments, NEW to, UnpaidRead(w, p, to) PROVE SerialInv'
  <2> DEFINE local == [op |-> "unpaid", payment |-> p, to |-> to]
  <2>1. /\ Goto(w, local) /\ local # Idle /\ local.op = "unpaid"
        /\ UNCHANGED <<paid, remaining, cod, pay>>
    BY <1>7 DEF UnpaidRead, Idle
  <2> HIDE DEF local
  <2>2. ReadIsTrue(w)'
    BY <1>0, <2>1, OthersWait DEF ReadIsTrue
  <2> QED
    BY <1>0, <2>1, <2>2, RowStep
<1>8. ASSUME NEW w \in Workers, UnpaidClaim(w) PROVE SerialInv'
  <2>1. Goto(w, Idle) /\ req[w] # Idle /\ UNCHANGED <<paid, remaining, cod>>
    BY <1>a, <1>8 DEF UnpaidClaim
  <2>2. \A q \in Payments : pay[q] = "PAID" => pay'[q] = "PAID"
    BY <1>0, <1>a, <1>8 DEF UnpaidClaim, TypeOK
  <2>3. ReadIsTrue(w)'
    BY <1>0, <2>1, OthersWait DEF ReadIsTrue, Idle
  <2> QED
    BY <1>0, <2>1, <2>2, <2>3, RowStep
<1>9. ASSUME NEW w \in Workers, NEW to \in Moves, MoveRead(w, to) PROVE SerialInv'
  <2> DEFINE local == [op |-> "move", to |-> to, seen |-> paid, due |-> remaining]
  <2>1. /\ Goto(w, local) /\ local # Idle /\ local.op = "move"
        /\ local.seen = paid /\ local.due = remaining
        /\ UNCHANGED <<paid, remaining, cod, pay>>
    BY <1>9 DEF MoveRead, Idle
  <2> HIDE DEF local
  <2>2. ReadIsTrue(w)'
    BY <1>0, <2>1, OthersWait DEF ReadIsTrue
  <2> QED
    BY <1>0, <2>1, <2>2, RowStep
<1>10. ASSUME NEW w \in Workers, MoveCommit(w) PROVE SerialInv'
  <2> DEFINE collects == /\ req[w].to = "DELIVERED" /\ Cod
                         /\ req[w].seen \in {"PENDING", "PARTIALLY_PAID"}
             phase == IF Advance THEN "REMAINDER" ELSE "FULL"
             row == collects /\ (Advance => remaining)
  <2>1. /\ Goto(w, Idle) /\ req[w] # Idle /\ req[w].due = remaining
        /\ UNCHANGED pay
        /\ cod' = IF row THEN [cod EXCEPT ![phase] = @ + 1] ELSE cod
        /\ paid' = IF collects THEN "PAID" ELSE paid
        /\ remaining' = IF collects THEN FALSE ELSE remaining
    BY <1>a, <1>b, <1>10 DEF MoveCommit, ReadIsTrue
  <2> HIDE DEF collects
  <2>2. \A v \in Workers : ReadIsTrue(v)'
    BY <1>0, <2>1, EndReads
  <2>3. /\ RemainderInv /\ cod \in [{"FULL", "REMAINDER"} -> Nat] /\ remaining \in BOOLEAN
        /\ Advance \in BOOLEAN
    BY <1>0, PaymentAssumption DEF SerialInv, TypeOK, PaymentAssumption
  <2>4. RemainderInv'
    BY <2>1, <2>3 DEF RemainderInv
  <2>5. PaidOrderHasPayment'
    <3>1. CASE ~collects
      BY <1>0, <2>1, <3>1 DEF SerialInv, PaidOrderHasPayment
    <3>2. CASE collects
      <4>1. CASE row
        BY <2>1, <2>3, <4>1 DEF PaidOrderHasPayment
      <4>2. CASE ~row
        BY <2>1, <2>3, <3>2, <4>2 DEF PaidOrderHasPayment, RemainderInv
      <4> QED
        BY <4>1, <4>2
    <3> QED
      BY <3>1, <3>2
  <2> QED
    BY <2>2, <2>4, <2>5 DEF SerialInv
<1>11. ASSUME NEW w \in Workers, CollectRead(w) PROVE SerialInv'
  <2> DEFINE local == [op |-> "collect"]
  <2>1. /\ Goto(w, local) /\ local # Idle /\ local.op = "collect" /\ remaining
        /\ UNCHANGED <<paid, remaining, cod, pay>>
    BY <1>11 DEF CollectRead, Idle
  <2> HIDE DEF local
  <2>2. ReadIsTrue(w)'
    BY <1>0, <2>1, OthersWait DEF ReadIsTrue
  <2> QED
    BY <1>0, <2>1, <2>2, RowStep
<1>12. ASSUME NEW w \in Workers, CollectCommit(w) PROVE SerialInv'
  <2>1. /\ Goto(w, Idle) /\ req[w] # Idle /\ remaining = TRUE /\ UNCHANGED pay
        /\ cod' = [cod EXCEPT !["REMAINDER"] = @ + 1] /\ remaining' = FALSE
    BY <1>0, <1>a, <1>b, <1>12 DEF CollectCommit, ReadIsTrue, TypeOK
  <2>2. \A v \in Workers : ReadIsTrue(v)'
    BY <1>0, <2>1, EndReads
  <2>3. cod["REMAINDER"] = 0 /\ Advance /\ cod \in [{"FULL", "REMAINDER"} -> Nat]
    BY <1>0, <2>1 DEF SerialInv, RemainderInv, TypeOK
  <2>4. RemainderInv' /\ PaidOrderHasPayment'
    BY <2>1, <2>3 DEF RemainderInv, PaidOrderHasPayment
  <2> QED
    BY <2>2, <2>4 DEF SerialInv
<1>13. ASSUME NEW w \in Workers, Abort(w) PROVE SerialInv'
  <2>1. Goto(w, Idle) /\ req[w] # Idle /\ UNCHANGED <<paid, remaining, cod, pay>>
    BY <1>13 DEF Abort
  <2>2. ReadIsTrue(w)'
    BY <1>0, <2>1, OthersWait DEF ReadIsTrue, Idle
  <2> QED
    BY <1>0, <2>1, <2>2, RowStep
<1>14. ASSUME NEW p \in Payments, CustomerPays(p) PROVE SerialInv'
  BY <1>14 DEF CustomerPays, SerialInv, ReadIsTrue, RemainderInv, PaidOrderHasPayment
<1> QED
  BY <1>1, <1>2, <1>3, <1>4, <1>5, <1>6, <1>7, <1>8, <1>9, <1>10, <1>11, <1>12, <1>13, <1>14
  DEF Next, Serve

\* With requests one at a time, an order counts as paid only with a payment row
\* to show for it, and the remainder of its advance is collected once: by the
\* delivery or by an admin, whoever comes first.
THEOREM PaidOnce == MCSpec => []PaidOnceAlone
<1>1. MCInit => IInv /\ (overlap \/ SerialInv)
  <2> SUFFICES ASSUME MCInit PROVE IInv /\ SerialInv
    OBVIOUS
  <2>1. IInv
    BY InitInv DEF MCInit
  <2>2. \A w \in Workers : req[w] = Idle
    BY DEF MCInit, Init
  <2>3. OneAtATime /\ \A w \in Workers : ReadIsTrue(w)
    BY <2>2, IdleReads DEF OneAtATime
  <2>4. RemainderInv /\ PaidOrderHasPayment
    BY PaymentAssumption DEF MCInit, Init, RemainderInv, PaidOrderHasPayment, PaymentAssumption
  <2> QED
    BY <2>1, <2>3, <2>4 DEF SerialInv
<1>2. IInv /\ (overlap \/ SerialInv) /\ [MCNext]_<<vars, overlap>>
        => IInv' /\ (overlap' \/ SerialInv')
  <2> SUFFICES ASSUME IInv, overlap \/ SerialInv, [MCNext]_<<vars, overlap>>
               PROVE  IInv' /\ (overlap' \/ SerialInv')
    OBVIOUS
  <2>1. IInv'
    <3>1. [Next]_vars
      BY DEF MCNext
    <3> QED
      BY <3>1, InvStep
  <2>2. CASE MCNext
    BY <2>1, <2>2, SerialStep DEF MCNext
  <2>3. CASE UNCHANGED <<vars, overlap>>
    <3>1. UNCHANGED <<paid, remaining, cod, pay, req, overlap>>
      BY <2>3 DEF vars, orderVars
    <3>2. SerialInv => SerialInv'
      BY <3>1 DEF SerialInv, OneAtATime, ReadIsTrue, RemainderInv, PaidOrderHasPayment
    <3> QED
      BY <2>1, <3>1, <3>2
  <2> QED
    BY <2>1, <2>2, <2>3
<1>3. IInv /\ (overlap \/ SerialInv) => PaidOnceAlone
  <2> SUFFICES ASSUME SerialInv PROVE PaidOrderHasPayment /\ RemainderOnce
    BY DEF PaidOnceAlone
  <2>1. cod["REMAINDER"] <= 1
    BY DEF SerialInv, RemainderInv
  <2> QED
    BY <2>1 DEF SerialInv, RemainderOnce
<1> QED
  BY <1>1, <1>2, <1>3, PTL DEF MCSpec
=============================================================================
