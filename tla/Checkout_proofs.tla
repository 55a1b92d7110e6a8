--------------------------- MODULE Checkout_proofs ---------------------------
(***************************************************************************)
(* What Checkout guarantees for any number of requests, customers, carts,  *)
(* codes and orders: it implements OrderBook.  The argument is about locks:*)
(* a transaction keeps what its checks found true, because nobody else can *)
(* write a row it holds.                                                   *)
(***************************************************************************)
EXTENDS Checkout, FiniteSetTheorems, TLAPS

\* Two transactions never hold the same row.
Exclusive == \A r, q \in Requests : r # q => held[r] \cap held[q] = {}

\* A code that was sent to the customer.
SentTo(i, c) == i \in DOMAIN otps /\ otps[i].scope = Scope(c)

\* The statements after the lines'.
AfterLines == {"count", "use", "number", "commit"}
\* The statements after the coupon's.
AfterUse == {"number", "commit"}

\* What a request has established about itself.
RequestInv(r) ==
  LET q == req[r] IN
  /\ q.at \notin TxSteps => held[r] = {}
  /\ q.at # "idle" => /\ q.cart \in Carts /\ q.customer = Owner[q.cart]
                      /\ Lines[q.cart] # {}
  /\ q.at \in {"ask", "send", "find", "attempt"} => q.customer \notin Trusted
  /\ q.at \in {"idle", "ask", "send", "find"} => q.otp = 0
  /\ q.at = "attempt" => SentTo(q.otp, q.customer)
  /\ q.at \in {"guest"} \cup TxSteps =>
       IF q.customer \in Trusted THEN q.otp = 0 ELSE SentTo(q.otp, q.customer)
  /\ q.at # "idle" /\ q.coupon => q.customer \notin Guests

\* A guest's transaction has the phone to itself, with room for one order.
PhoneInv(r) ==
  LET q == req[r] IN
  q.at \in TxSteps /\ q.customer \in Guests =>
    /\ <<"phone", Phone[q.customer]>> \in held[r]
    /\ RecentGuestOrders(Phone[q.customer]) < GuestLimit

\* Its code is its own and still unused.
CodeInv(r) ==
  LET q == req[r] IN
  q.at \in TxSteps \ {"otp"} /\ q.otp # 0 =>
    <<"otp", q.otp>> \in held[r] /\ ~otps[q.otp].verified

\* The lines it is done with are its own and in stock.
LinesInv(r) ==
  LET q == req[r] IN
  /\ q.at \in {"size", "product"} => q.todo \subseteq Lines[q.cart]
  /\ q.at = "product" => /\ q.size \in q.todo
                         /\ <<"size", q.size>> \in held[r] /\ stock[q.size] > 0
  /\ q.at \in {"size", "product"} => \A s \in Lines[q.cart] \ q.todo :
                                       <<"size", s>> \in held[r] /\ stock[s] > 0
  /\ q.at \in AfterLines => \A s \in Lines[q.cart] : <<"size", s>> \in held[r] /\ stock[s] > 0

\* Its use of the coupon is its own.
CouponInv(r) ==
  LET q == req[r] IN
  q.at \in AfterUse /\ q.coupon => Coupon \in held[r] /\ used < UsageLimit

\* All that a request has established.
LocksInv(r) == RequestInv(r) /\ PhoneInv(r) /\ CodeInv(r) /\ LinesInv(r) /\ CouponInv(r)

\* A code is used when an order carries it, and no two orders carry it.
CodesMatch ==
  /\ \A i \in DOMAIN orders : orders[i].otp # 0 =>
       orders[i].otp \in DOMAIN otps /\ otps[orders[i].otp].verified
  /\ \A i, j \in DOMAIN orders : orders[i].otp = orders[j].otp /\ orders[i].otp # 0 => i = j
  /\ \A k \in DOMAIN otps : otps[k].verified => \E i \in DOMAIN orders : orders[i].otp = k

\* The coupon's count is the number of orders with it.
UsesMatch ==
  /\ used = Cardinality({i \in DOMAIN orders : orders[i].coupon})
  /\ used <= UsageLimit

\* What was sold is gone from the stock.
StockMatches == \A s \in Sizes : stock[s] + Cardinality(Sold(s)) = InitialStock[s]

\* The inductive invariant.
IInv ==
  /\ TypeOK
  /\ Exclusive
  /\ \A r \in Requests : LocksInv(r)
  /\ CodesMatch
  /\ UsesMatch
  /\ StockMatches
  /\ AttemptsWithinCap
  /\ GuestOrdersLimited

USE CheckoutAssumption

-----------------------------------------------------------------------------
(* Orders as a sequence: sets of positions are finite, and appending one    *)
(* adds its own position or nothing.                                        *)

\* A set of positions of orders is finite.
LEMMA OrderSets ==
  ASSUME orders \in Seq(Order), NEW S \in SUBSET DOMAIN orders
  PROVE  IsFiniteSet(S) /\ Cardinality(S) \in Nat
<1>1. IsFiniteSet(1 .. Len(orders))
  BY FS_Interval
<1>2. S \subseteq 1 .. Len(orders)
  OBVIOUS
<1> QED
  BY <1>1, <1>2, FS_Subset, FS_CardinalityType

\* What appending an order does.
LEMMA AppendedOrder ==
  ASSUME orders \in Seq(Order), NEW o \in Order, orders' = Append(orders, o)
  PROVE  /\ orders' \in Seq(Order)
         /\ DOMAIN orders' = DOMAIN orders \cup {Len(orders) + 1}
         /\ Len(orders) + 1 \notin DOMAIN orders
         /\ \A i \in DOMAIN orders : orders'[i] = orders[i]
         /\ orders'[Len(orders) + 1] = o
  OBVIOUS

\* Counting orders before and after one more.
LEMMA CountAppended ==
  ASSUME orders \in Seq(Order), NEW S \in SUBSET DOMAIN orders, NEW T,
         T = S \/ T = S \cup {Len(orders) + 1}
  PROVE  Cardinality(T) = IF T = S THEN Cardinality(S) ELSE Cardinality(S) + 1
<1>1. Len(orders) + 1 \notin S
  OBVIOUS
<1> QED
  BY <1>1, OrderSets, FS_AddElement

\* The count of a phone's recent orders is a number.
LEMMA RecentType ==
  ASSUME orders \in Seq(Order), NEW p
  PROVE  RecentGuestOrders(p) \in Nat
<1> DEFINE S == {i \in DOMAIN orders :
      orders[i].customer \in Guests /\ Phone[orders[i].customer] = p /\ orders[i].recent}
<1>1. S \in SUBSET DOMAIN orders
  OBVIOUS
<1> QED
  BY <1>1, OrderSets DEF RecentGuestOrders

-----------------------------------------------------------------------------
(* A step that changes one request and what it holds, and no row.           *)

\* A step that writes only a request's own variables and takes locks nobody
\* holds keeps the invariant when it keeps what the request has established.
LEMMA LocalStep ==
  ASSUME IInv, NEW r \in Requests, NEW x \in Request, NEW H \in SUBSET Resource,
         req' = [req EXCEPT ![r] = x], held' = [held EXCEPT ![r] = H],
         \A q \in Requests \ {r} : H \cap held[q] = {},
         linked' \subseteq Carts, UNCHANGED <<stock, used, couponOpen, active, otps, orders>>,
         LocksInv(r)'
  PROVE  IInv'
<1>1. TypeOK'
  BY DEF IInv, TypeOK
<1>2. /\ req'[r] = x /\ held'[r] = H
      /\ \A q \in Requests \ {r} : req'[q] = req[q] /\ held'[q] = held[q]
  BY DEF IInv, TypeOK
<1>3. Exclusive'
  BY <1>2 DEF IInv, Exclusive
<1>4. ASSUME NEW q \in Requests PROVE LocksInv(q)'
  <2>1. CASE q = r
    BY <2>1
  <2>2. CASE q # r
    <3>1. LocksInv(q)
      BY DEF IInv
    <3>2. req'[q] = req[q] /\ held'[q] = held[q]
      BY <1>2, <2>2
    <3>3. RequestInv(q)' /\ CodeInv(q)'
      BY <3>1, <3>2 DEF LocksInv, RequestInv, CodeInv, SentTo
    <3>4. PhoneInv(q)'
      BY <3>1, <3>2 DEF LocksInv, PhoneInv, RecentGuestOrders
    <3>5. LinesInv(q)' /\ CouponInv(q)'
      BY <3>1, <3>2 DEF LocksInv, LinesInv, CouponInv, Coupon
    <3> QED
      BY <3>3, <3>4, <3>5 DEF LocksInv
  <2> QED
    BY <2>1, <2>2
<1>5. CodesMatch' /\ UsesMatch' /\ StockMatches' /\ AttemptsWithinCap' /\ GuestOrdersLimited'
  BY DEF IInv, CodesMatch, UsesMatch, StockMatches, Sold, Placed, AttemptsWithinCap,
         GuestOrdersLimited, RecentGuestOrders
<1> QED
  BY <1>1, <1>3, <1>4, <1>5 DEF IInv

\* Idle is a request that holds nothing.
LEMMA IdleType == Idle \in Request /\ \A r \in Requests : req[r] = Idle => req[r].at = "idle"
  BY DEF Idle, Request, Steps

\* Answering a request, or rolling it back, leaves the others as they were.
LEMMA AnswerStep ==
  ASSUME IInv, NEW r \in Requests, req' = [req EXCEPT ![r] = Idle],
         held' = [held EXCEPT ![r] = {}],
         linked' \subseteq Carts, UNCHANGED <<stock, used, couponOpen, active, otps, orders>>
  PROVE  IInv'
<1>1. req'[r] = Idle /\ held'[r] = {}
  BY DEF IInv, TypeOK
<1>2. LocksInv(r)'
  BY <1>1 DEF LocksInv, RequestInv, PhoneInv, CodeInv, LinesInv, CouponInv, Idle, TxSteps,
              AfterLines, AfterUse
<1>3. {} \in SUBSET Resource /\ \A q \in Requests \ {r} : {} \cap held[q] = {}
  OBVIOUS
<1> QED
  BY <1>2, <1>3, LocalStep, IdleType

\* Outside the transaction nothing is held.
LEMMA NothingHeld ==
  ASSUME IInv, NEW r \in Requests, req[r].at \notin TxSteps
  PROVE  held[r] = {} /\ held = [held EXCEPT ![r] = {}]
<1>1. held[r] = {} /\ held \in [Requests -> SUBSET Resource]
  BY DEF IInv, LocksInv, RequestInv, TypeOK
<1> QED
  BY <1>1

\* A transaction that fails leaves nothing behind.
LEMMA RollbackStep ==
  ASSUME IInv, NEW r \in Requests, Rollback(r)
  PROVE  IInv'
<1>1. linked' \subseteq Carts /\ UNCHANGED <<stock, used, couponOpen, active, otps, orders>>
  BY DEF Rollback, db, IInv, TypeOK
<1>2. req' = [req EXCEPT ![r] = Idle] /\ held' = [held EXCEPT ![r] = {}]
  BY DEF Rollback
<1> QED
  BY <1>1, <1>2, AnswerStep

\* So does an answer before the transaction.
LEMMA AnswerKeeps ==
  ASSUME IInv, NEW r \in Requests, req[r].at \notin TxSteps, Answer(r),
         linked' \subseteq Carts, UNCHANGED <<stock, used, couponOpen, active, otps, orders>>
  PROVE  IInv'
  BY AnswerStep, NothingHeld DEF Answer

-----------------------------------------------------------------------------
(* The steps of a request.                                                  *)

\* Nothing but the request itself moved on, holding what it held.
LEMMA MoveStep ==
  ASSUME IInv, NEW r \in Requests, NEW x \in Request,
         req' = [req EXCEPT ![r] = x], UNCHANGED <<held, db>>, LocksInv(r)'
  PROVE  IInv'
<1>1. held \in [Requests -> SUBSET Resource] /\ Exclusive /\ linked \subseteq Carts
  BY DEF IInv, TypeOK
<1>2. held' = [held EXCEPT ![r] = held[r]] /\ held[r] \in SUBSET Resource
  BY <1>1
<1>3. \A q \in Requests \ {r} : held[r] \cap held[q] = {}
  BY <1>1 DEF Exclusive
<1>4. linked' \subseteq Carts /\ UNCHANGED <<stock, used, couponOpen, active, otps, orders>>
  BY <1>1 DEF db
<1> QED
  BY <1>2, <1>3, <1>4, LocalStep

\* ... or took one more row that was free.
LEMMA LockStep ==
  ASSUME IInv, NEW r \in Requests, NEW x \in Request, NEW l \in Resource,
         req' = [req EXCEPT ![r] = x], Free(r, l), Lock(r, l), UNCHANGED db, LocksInv(r)'
  PROVE  IInv'
<1>1. held \in [Requests -> SUBSET Resource] /\ Exclusive /\ linked \subseteq Carts
  BY DEF IInv, TypeOK
<1>2. held' = [held EXCEPT ![r] = held[r] \cup {l}] /\ held[r] \cup {l} \in SUBSET Resource
  BY <1>1 DEF Lock
<1>3. \A q \in Requests \ {r} : (held[r] \cup {l}) \cap held[q] = {}
  BY <1>1 DEF Exclusive, Free
<1>4. linked' \subseteq Carts /\ UNCHANGED <<stock, used, couponOpen, active, otps, orders>>
  BY <1>1 DEF db
<1> QED
  BY <1>2, <1>3, <1>4, LocalStep

\* A submission is read.
LEMMA SubmitStep ==
  ASSUME IInv, NEW r \in Requests, NEW c \in Customers, NEW cart \in Carts, NEW code \in Nat,
         Submit(r, c, cart, code)
  PROVE  IInv'
<1> DEFINE x ==
      [at |-> IF ~NeedsOtp(c) THEN "guest" ELSE IF code = 0 THEN "ask" ELSE "find",
       customer |-> c, cart |-> cart, code |-> code, coupon |-> cart \in linked,
       otp |-> 0, todo |-> {}, size |-> None, number |-> 0]
<1>1. req' = [req EXCEPT ![r] = x] /\ UNCHANGED <<held, db>>
  BY DEF Submit
<1>2. /\ x.at = IF c \in Trusted THEN "guest" ELSE IF code = 0 THEN "ask" ELSE "find"
      /\ x.customer = c /\ x.cart = cart /\ x.code = code /\ x.coupon = (cart \in linked)
      /\ x.otp = 0 /\ x.todo = {} /\ x.size = None /\ x.number = 0
  BY DEF NeedsOtp
<1>3. x \in Request
  <2>1. x.at \in Steps /\ (cart \in linked) \in BOOLEAN
    BY DEF Steps
  <2> QED
    BY <2>1 DEF Request
<1>4. req'[r] = x /\ held'[r] = {}
  BY <1>1, NothingHeld DEF IInv, TypeOK, Submit, At, TxSteps
<1>5. c = Owner[cart] /\ Lines[cart] # {} /\ (cart \in linked => c \notin Guests)
  BY DEF Submit, MayOrder, CouponRefused
<1>6. x.coupon => c \notin Guests
  BY <1>2, <1>5
<1> HIDE DEF x
<1>7. LocksInv(r)'
  BY <1>2, <1>4, <1>5, <1>6 DEF LocksInv, RequestInv, PhoneInv, CodeInv, LinesInv, CouponInv,
                          TxSteps, AfterLines, AfterUse
<1> QED
  BY <1>1, <1>3, <1>7, MoveStep

\* A guest who sent no code is asked for one.
LEMMA AskStep ==
  ASSUME IInv, NEW r \in Requests, AskForCode(r)
  PROVE  IInv'
<1> DEFINE x == [req[r] EXCEPT !.at = "send"]
<1>1. req[r].at = "ask" /\ req[r] \in Request /\ linked' \subseteq Carts
  BY DEF AskForCode, At, IInv, TypeOK, db
<1>2. CASE Answer(r)
  BY <1>1, <1>2, AnswerKeeps DEF AskForCode, db, TxSteps
<1>3. CASE Goto(r, "send") /\ UNCHANGED held
  <2>1. req' = [req EXCEPT ![r] = x] /\ UNCHANGED <<held, db>>
    BY <1>3 DEF Goto, AskForCode
  <2>2. x \in Request
    BY <1>1 DEF Request, Steps
  <2>3. req'[r] = x
    BY <2>1 DEF IInv, TypeOK
  <2>4. LocksInv(r)
    BY DEF IInv
  <2>5. LocksInv(r)'
    BY <1>1, <2>1, <2>3, <2>4 DEF LocksInv, RequestInv, PhoneInv, CodeInv, LinesInv, CouponInv,
                          TxSteps, AfterLines, AfterUse, Request
  <2> QED
    BY <2>1, <2>2, <2>5, MoveStep
<1> QED
  BY <1>2, <1>3 DEF AskForCode

\* The code that was sent last is looked up.
LEMMA FindStep ==
  ASSUME IInv, NEW r \in Requests, FindCode(r)
  PROVE  IInv'
<1>1. req[r].at = "find" /\ req[r] \in Request /\ linked' \subseteq Carts
  BY DEF FindCode, At, IInv, TypeOK, db
<1>2. CASE Answer(r)
  BY <1>1, <1>2, AnswerKeeps DEF FindCode, db, TxSteps
<1>3. CASE ~Answer(r)
  <2>1. PICK i \in Pending(Scope(req[r].customer)) :
          req' = [req EXCEPT ![r].at = "attempt", ![r].otp = i] /\ UNCHANGED held
    BY <1>3 DEF FindCode
  <2> DEFINE x == [req[r] EXCEPT !.at = "attempt", !.otp = i]
  <2>2. req' = [req EXCEPT ![r] = x] /\ UNCHANGED <<held, db>>
    BY <2>1, <1>1 DEF FindCode, Request, IInv, TypeOK
  <2>3. i \in Nat /\ SentTo(i, req[r].customer)
    BY DEF Pending, OfScope, SentTo, IInv, TypeOK
  <2>4. x \in Request
    BY <1>1, <2>3 DEF Request, Steps
  <2>5. req'[r] = x
    BY <2>2 DEF IInv, TypeOK
  <2>6. LocksInv(r)
    BY DEF IInv
  <2>7. LocksInv(r)'
    BY <1>1, <2>2, <2>3, <2>5, <2>6 DEF LocksInv, RequestInv, PhoneInv, CodeInv, LinesInv,
                          CouponInv, SentTo, TxSteps, AfterLines, AfterUse, Request, db
  <2> QED
    BY <2>2, <2>4, <2>7, MoveStep
<1> QED
  BY <1>2, <1>3

-----------------------------------------------------------------------------
(* Codes: whose they are and whether they were used changes only in         *)
(* TxCommit.                                                                *)

\* A step on the codes alone, that spends none, keeps the invariant.
LEMMA OtpStep ==
  ASSUME IInv, otps' \in Seq(Otp), DOMAIN otps \subseteq DOMAIN otps',
         \A i \in DOMAIN otps : /\ otps'[i].scope = otps[i].scope
                                /\ otps'[i].verified = otps[i].verified,
         \A i \in DOMAIN otps' \ DOMAIN otps : ~otps'[i].verified,
         \A i \in DOMAIN otps' : otps'[i].attempts <= MaxAttempts,
         req' \in [Requests -> Request],
         UNCHANGED <<held, stock, used, couponOpen, linked, active, orders>>,
         \A q \in Requests : req'[q] = req[q] \/ LocksInv(q)'
  PROVE  IInv'
<1>1. TypeOK' /\ Exclusive'
  BY DEF IInv, TypeOK, Exclusive
<1>2. ASSUME NEW q \in Requests PROVE LocksInv(q)'
  <2>1. CASE LocksInv(q)'
    BY <2>1
  <2>2. CASE req'[q] = req[q]
    <3>1. LocksInv(q) /\ req[q] \in Request
      BY DEF IInv, TypeOK
    <3>2. SentTo(req[q].otp, req[q].customer) => SentTo(req[q].otp, req[q].customer)'
      BY <2>2 DEF SentTo
    <3>3. RequestInv(q)'
      BY <2>2, <3>1, <3>2 DEF LocksInv, RequestInv, SentTo
    <3>4. CodeInv(q)'
      BY <2>2, <3>1 DEF LocksInv, RequestInv, CodeInv, SentTo, TxSteps
    <3>5. PhoneInv(q)'
      BY <2>2, <3>1 DEF LocksInv, PhoneInv, RecentGuestOrders
    <3>6. LinesInv(q)' /\ CouponInv(q)'
      BY <2>2, <3>1 DEF LocksInv, LinesInv, CouponInv, Coupon
    <3> QED
      BY <3>3, <3>4, <3>5, <3>6 DEF LocksInv
  <2> QED
    BY <2>1, <2>2
<1>3. CodesMatch'
  BY DEF IInv, CodesMatch
<1>4. UsesMatch' /\ StockMatches' /\ AttemptsWithinCap' /\ GuestOrdersLimited'
  BY DEF IInv, UsesMatch, StockMatches, Sold, Placed, AttemptsWithinCap, GuestOrdersLimited,
         RecentGuestOrders
<1> QED
  BY <1>1, <1>2, <1>3, <1>4 DEF IInv

\* A request that has ended has established nothing.
LEMMA IdleInv ==
  ASSUME NEW r \in Requests, req'[r] = Idle, held'[r] = {}
  PROVE  LocksInv(r)'
  BY DEF LocksInv, RequestInv, PhoneInv, CodeInv, LinesInv, CouponInv, Idle, TxSteps,
         AfterLines, AfterUse

\* A code is sent.
LEMMA SendStep ==
  ASSUME IInv, NEW r \in Requests, SendCode(r)
  PROVE  IInv'
<1> DEFINE scope == Scope(req[r].customer)
           old == [i \in DOMAIN otps |->
                     IF i \in Pending(scope) THEN [otps[i] EXCEPT !.live = FALSE] ELSE otps[i]]
           new == [scope |-> scope, attempts |-> 0, verified |-> FALSE, live |-> TRUE,
                   fresh |-> TRUE]
<1>1. /\ otps \in Seq(Otp) /\ req \in [Requests -> Request] /\ Idle \in Request
      /\ AttemptsWithinCap /\ req[r].at = "send" /\ RequestInv(r)
  BY IdleType DEF IInv, TypeOK, SendCode, At, LocksInv
<1>2. req[r].customer \in Customers
  BY <1>1 DEF RequestInv
<1>3. new \in Otp
  BY <1>2 DEF Otp
<1>4. old \in Seq(Otp) /\ Len(old) = Len(otps) /\ DOMAIN old = DOMAIN otps
  <2>1. \A i \in DOMAIN otps : otps[i] \in Otp
    BY <1>1
  <2>2. \A i \in DOMAIN otps : old[i] \in Otp
    BY <2>1 DEF Otp
  <2> QED
    BY <1>1, <2>2
<1>5. \A i \in DOMAIN otps : /\ old[i].scope = otps[i].scope
                             /\ old[i].verified = otps[i].verified
                             /\ old[i].attempts = otps[i].attempts
  <2>1. \A i \in DOMAIN otps : otps[i] \in Otp
    BY <1>1
  <2> QED
    BY <2>1 DEF Otp
<1>6. otps' = Append(old, new)
  BY DEF SendCode
<1> HIDE DEF old
<1>7. /\ otps' \in Seq(Otp) /\ DOMAIN otps' = DOMAIN otps \cup {Len(otps) + 1}
      /\ \A i \in DOMAIN otps : otps'[i] = old[i]
      /\ otps'[Len(otps) + 1] = new
  BY <1>1, <1>3, <1>4, <1>6
<1>8. \A i \in DOMAIN otps' : otps'[i].attempts <= MaxAttempts
  <2>1. new.attempts <= MaxAttempts
    BY DEF CheckoutAssumption
  <2>2. \A i \in DOMAIN otps : otps'[i].attempts <= MaxAttempts
    BY <1>1, <1>5, <1>7 DEF AttemptsWithinCap
  <2> HIDE DEF new
  <2> QED
    BY <1>7, <2>1, <2>2
<1>9. req' = [req EXCEPT ![r] = Idle] /\ UNCHANGED <<held, stock, used, couponOpen, linked, active, orders>>
  BY DEF SendCode, Answer
<1>10. held'[r] = {}
  BY <1>1, <1>9, NothingHeld DEF TxSteps
<1>11. \A q \in Requests : req'[q] = req[q] \/ LocksInv(q)'
  BY <1>1, <1>9, <1>10, IdleInv
<1>12. req' \in [Requests -> Request]
  BY <1>1, <1>9
<1> QED
  BY <1>5, <1>7, <1>8, <1>9, <1>11, <1>12, OtpStep

\* An attempt is counted and the code compared.
LEMMA TryStep ==
  ASSUME IInv, NEW r \in Requests, TryCode(r)
  PROVE  IInv'
<1> DEFINE i == req[r].otp
           open == ~otps[i].verified /\ otps[i].attempts < MaxAttempts
           x == IF open /\ req[r].code = i THEN [req[r] EXCEPT !.at = "guest"] ELSE Idle
<1>1. /\ otps \in Seq(Otp) /\ req \in [Requests -> Request] /\ Idle \in Request
      /\ AttemptsWithinCap /\ req[r].at = "attempt" /\ LocksInv(r) /\ req[r] \in Request
  BY IdleType DEF IInv, TypeOK, TryCode, At
<1>2. SentTo(i, req[r].customer) /\ held[r] = {} /\ req[r].customer \notin Trusted
  BY <1>1 DEF LocksInv, RequestInv, TxSteps
<1>3. i \in DOMAIN otps /\ otps[i] \in Otp
  BY <1>1, <1>2 DEF SentTo
<1>4. /\ otps' = IF open THEN [otps EXCEPT ![i].attempts = @ + 1] ELSE otps
      /\ req' = [req EXCEPT ![r] = x]
      /\ UNCHANGED <<held, stock, used, couponOpen, linked, active, orders>>
  BY DEF TryCode, Answer, Goto
<1>5. otps' \in Seq(Otp) /\ DOMAIN otps' = DOMAIN otps
  <2>1. [otps[i] EXCEPT !.attempts = @ + 1] \in Otp
    BY <1>3 DEF Otp
  <2> QED
    BY <1>1, <1>3, <1>4, <2>1
<1>6. \A j \in DOMAIN otps : /\ otps'[j].scope = otps[j].scope
                             /\ otps'[j].verified = otps[j].verified
                             /\ otps'[j].attempts <= MaxAttempts
  BY <1>1, <1>3, <1>4 DEF Otp, AttemptsWithinCap, CheckoutAssumption
<1>7. x \in Request
  BY <1>1 DEF Request, Steps
<1>8. req' \in [Requests -> Request] /\ req'[r] = x
  BY <1>1, <1>4, <1>7
<1>9. LocksInv(r)'
  <2>1. CASE x = Idle
    BY <1>2, <1>4, <1>8, <2>1, IdleInv
  <2>2. CASE x = [req[r] EXCEPT !.at = "guest"]
    <3>1. /\ req'[r].at = "guest" /\ req'[r].otp = i /\ req'[r].customer = req[r].customer
          /\ req'[r].cart = req[r].cart /\ req'[r].coupon = req[r].coupon /\ held'[r] = {}
      BY <1>1, <1>2, <1>4, <1>8, <2>2 DEF Request
    <3> QED
      BY <1>1, <1>2, <1>5, <1>6, <3>1 DEF LocksInv, RequestInv, PhoneInv, CodeInv, LinesInv,
                CouponInv, SentTo, TxSteps, AfterLines, AfterUse
  <2> QED
    BY <2>1, <2>2
<1>10. \A q \in Requests : req'[q] = req[q] \/ LocksInv(q)'
  BY <1>1, <1>4, <1>9
<1> QED
  BY <1>4, <1>5, <1>6, <1>8, <1>10, OtpStep

-----------------------------------------------------------------------------
(* The statements of the transaction before its commit.                     *)

\* The transaction counts the phone's active orders under its lock.
LEMMA TxGuestStep ==
  ASSUME IInv, NEW r \in Requests, TxGuest(r)
  PROVE  IInv'
<1> DEFINE c == req[r].customer
           x == [req[r] EXCEPT !.at = "otp"]
<1>1. /\ req \in [Requests -> Request] /\ req[r] \in Request /\ LocksInv(r)
      /\ req[r].at = "guest" /\ held \in [Requests -> SUBSET Resource]
      /\ orders \in Seq(Order)
  BY DEF IInv, TypeOK, TxGuest, At
<1>2. x \in Request
  BY <1>1 DEF Request, Steps, TxSteps
<1>3. CASE Rollback(r)
  BY <1>3, RollbackStep
<1>4. CASE c \in Guests /\ RecentGuestOrders(Phone[c]) < GuestLimit
           /\ Lock(r, <<"phone", Phone[c]>>) /\ Goto(r, "otp") /\ UNCHANGED db
  <2> DEFINE l == <<"phone", Phone[c]>>
  <2>1. l \in Resource
    <3>1. Phone[c] \in Phones
      BY <1>4 DEF CheckoutAssumption
    <3> QED
      BY <3>1 DEF Resource
  <2>2. /\ req' = [req EXCEPT ![r] = x] /\ Free(r, l) /\ req'[r] = x
        /\ held'[r] = held[r] \cup {l}
    BY <1>1, <1>4 DEF Goto, TxGuest, Lock
  <2>4. PhoneInv(r)'
    BY <1>4, <2>2, <1>1 DEF PhoneInv, RecentGuestOrders, Request, db
  <2>5. RequestInv(r)' /\ CodeInv(r)' /\ LinesInv(r)' /\ CouponInv(r)'
    BY <1>1, <1>4, <2>2 DEF LocksInv, RequestInv, CodeInv, LinesInv, CouponInv, SentTo, TxSteps,
                            AfterLines, AfterUse, Request, db
  <2> QED
    BY <1>2, <1>4, <2>1, <2>2, <2>4, <2>5, LockStep DEF LocksInv
<1>5. CASE c \notin Guests /\ Goto(r, "otp") /\ UNCHANGED <<held, db>>
  <2>1. req' = [req EXCEPT ![r] = x] /\ req'[r] = x
    BY <1>1, <1>5 DEF Goto
  <2>2. LocksInv(r)'
    BY <1>1, <1>5, <2>1 DEF LocksInv, RequestInv, PhoneInv, CodeInv, LinesInv, CouponInv, SentTo,
                            TxSteps, AfterLines, AfterUse, Request, db
  <2> QED
    BY <1>2, <1>5, <2>1, <2>2, MoveStep
<1> QED
  <2>1. RecentGuestOrders(Phone[c]) \in Nat /\ GuestLimit \in Nat
    BY <1>1, RecentType DEF CheckoutAssumption
  <2> QED
    BY <1>3, <1>4, <1>5, <2>1 DEF TxGuest

\* The transaction locks the code.
LEMMA TxOtpStep ==
  ASSUME IInv, NEW r \in Requests, TxOtp(r)
  PROVE  IInv'
<1> DEFINE i == req[r].otp
           x == [req[r] EXCEPT !.at = "size", !.todo = Lines[req[r].cart]]
<1>1. /\ req \in [Requests -> Request] /\ req[r] \in Request /\ LocksInv(r)
      /\ req[r].at = "otp" /\ held \in [Requests -> SUBSET Resource]
  BY DEF IInv, TypeOK, TxOtp, At
<1>2. req[r].cart \in Carts /\ Lines[req[r].cart] \in SUBSET Sizes
  BY <1>1 DEF LocksInv, RequestInv, CheckoutAssumption
<1>3. x \in Request
  BY <1>1, <1>2 DEF Request, Steps, TxSteps
<1>4. CASE Rollback(r)
  BY <1>4, RollbackStep
<1>5. CASE i # 0 /\ ~otps[i].verified /\ Lock(r, <<"otp", i>>) /\ UNCHANGED db
           /\ req' = [req EXCEPT ![r].at = "size", ![r].todo = Lines[req[r].cart]]
  <2>1. <<"otp", i>> \in Resource
    BY <1>1 DEF Resource, Request
  <2>2. /\ req' = [req EXCEPT ![r] = x] /\ Free(r, <<"otp", i>>) /\ req'[r] = x
        /\ held'[r] = held[r] \cup {<<"otp", i>>}
    BY <1>1, <1>5 DEF TxOtp, Lock
  <2>3. RequestInv(r)' /\ CodeInv(r)' /\ LinesInv(r)' /\ CouponInv(r)'
    BY <1>1, <1>5, <2>2 DEF LocksInv, RequestInv, CodeInv, LinesInv, CouponInv, SentTo, TxSteps,
                            AfterLines, AfterUse, Request, db
  <2>4. PhoneInv(r)'
    BY <1>1, <1>5, <2>2 DEF LocksInv, PhoneInv, RecentGuestOrders, Request, db, TxSteps
  <2> QED
    BY <1>3, <1>5, <2>1, <2>2, <2>3, <2>4, LockStep DEF LocksInv
<1>6. CASE i = 0 /\ UNCHANGED <<held, db>>
           /\ req' = [req EXCEPT ![r].at = "size", ![r].todo = Lines[req[r].cart]]
  <2>1. req' = [req EXCEPT ![r] = x] /\ req'[r] = x
    BY <1>1, <1>6
  <2>2. RequestInv(r)' /\ CodeInv(r)' /\ LinesInv(r)' /\ CouponInv(r)'
    BY <1>1, <1>6, <2>1 DEF LocksInv, RequestInv, CodeInv, LinesInv, CouponInv, SentTo, TxSteps,
                            AfterLines, AfterUse, Request, db
  <2>3. PhoneInv(r)'
    BY <1>1, <1>6, <2>1 DEF LocksInv, PhoneInv, RecentGuestOrders, Request, db, TxSteps
  <2> QED
    BY <1>3, <1>6, <2>1, <2>2, <2>3, MoveStep DEF LocksInv
<1> QED
  BY <1>4, <1>5, <1>6 DEF TxOtp

\* The transaction takes a line's units from the stock.
LEMMA TxSizeStep ==
  ASSUME IInv, NEW r \in Requests, NEW s \in Sizes, TxSize(r, s)
  PROVE  IInv'
<1> DEFINE x == [req[r] EXCEPT !.at = "product", !.size = s]
<1>1. /\ req \in [Requests -> Request] /\ req[r] \in Request /\ LocksInv(r)
      /\ req[r].at = "size" /\ s \in req[r].todo /\ held \in [Requests -> SUBSET Resource]
      /\ stock \in [Sizes -> Nat]
  BY DEF IInv, TypeOK, TxSize, At
<1>2. x \in Request
  BY <1>1 DEF Request, Steps, TxSteps
<1>3. CASE Rollback(r)
  BY <1>3, RollbackStep
<1>4. CASE stock[s] # 0 /\ Lock(r, <<"size", s>>) /\ UNCHANGED db
           /\ req' = [req EXCEPT ![r].at = "product", ![r].size = s]
  <2>1. <<"size", s>> \in Resource
    BY DEF Resource
  <2>2. /\ req' = [req EXCEPT ![r] = x] /\ Free(r, <<"size", s>>) /\ req'[r] = x
        /\ held'[r] = held[r] \cup {<<"size", s>>}
    BY <1>1, <1>4 DEF TxSize, Lock
  <2>0. stock[s] > 0
    BY <1>1, <1>4
  <2>3. RequestInv(r)' /\ CodeInv(r)' /\ CouponInv(r)'
    BY <1>1, <1>4, <2>2 DEF LocksInv, RequestInv, CodeInv, CouponInv, SentTo, TxSteps, AfterUse,
                            Request, db
  <2>4. LinesInv(r)'
    BY <1>1, <1>4, <2>0, <2>2 DEF LocksInv, LinesInv, AfterLines, Request, db
  <2>5. PhoneInv(r)'
    BY <1>1, <1>4, <2>2 DEF LocksInv, PhoneInv, RecentGuestOrders, Request, db, TxSteps
  <2> QED
    BY <1>2, <1>4, <2>1, <2>2, <2>3, <2>4, <2>5, LockStep DEF LocksInv
<1> QED
  BY <1>3, <1>4 DEF TxSize

\* The transaction locks the product.
LEMMA TxProductStep ==
  ASSUME IInv, NEW r \in Requests, TxProduct(r)
  PROVE  IInv'
<1> DEFINE s == req[r].size
           rest == req[r].todo \ {s}
           l == <<"product", Product[s]>>
           at == IF rest # {} THEN "size" ELSE IF req[r].coupon THEN "count" ELSE "number"
           x == [req[r] EXCEPT !.todo = rest, !.size = None, !.at = at]
<1>1. /\ req \in [Requests -> Request] /\ req[r] \in Request /\ LocksInv(r)
      /\ req[r].at = "product" /\ held \in [Requests -> SUBSET Resource]
  BY DEF IInv, TypeOK, TxProduct, At
<1>2. req' = [req EXCEPT ![r] = x] /\ Free(r, l) /\ Lock(r, l) /\ UNCHANGED db
  BY <1>1 DEF TxProduct, Request
<1>11. /\ at \in {"size", "count", "number"}
       /\ at = "size" => rest # {}
       /\ at # "size" => rest = {}
       /\ at = "number" => ~req[r].coupon
  OBVIOUS
<1> HIDE DEF at
<1>3. /\ x.at = at /\ x.todo = rest /\ x.customer = req[r].customer /\ x.cart = req[r].cart
      /\ x.otp = req[r].otp /\ x.coupon = req[r].coupon
  BY <1>1 DEF Request
<1>4. x \in Request
  <2>1. at \in Steps
    BY <1>11 DEF Steps, TxSteps
  <2> QED
    BY <1>1, <2>1 DEF Request
<1>5. l \in Resource
  <2>1. s \in Sizes
    BY <1>1 DEF LocksInv, LinesInv, Request
  <2> QED
    BY <2>1 DEF Resource
<1> HIDE DEF x
<1>6. req'[r] = x /\ held'[r] = held[r] \cup {l}
  BY <1>1, <1>2 DEF Lock
<1>7. RequestInv(r)' /\ CodeInv(r)'
  BY <1>1, <1>2, <1>3, <1>6, <1>11 DEF LocksInv, RequestInv, CodeInv, SentTo, TxSteps, Request, db
<1>8. LinesInv(r)'
  BY <1>1, <1>2, <1>3, <1>6, <1>11 DEF LocksInv, LinesInv, AfterLines, Request, db
<1>9. PhoneInv(r)'
  <2>1. \A p : RecentGuestOrders(p)' = RecentGuestOrders(p)
    BY <1>2 DEF RecentGuestOrders, db
  <2>2. req[r].customer \in Guests => /\ <<"phone", Phone[req[r].customer]>> \in held[r]
                                      /\ RecentGuestOrders(Phone[req[r].customer]) < GuestLimit
    BY <1>1 DEF LocksInv, PhoneInv, TxSteps
  <2>3. req'[r].customer = req[r].customer /\ held[r] \subseteq held'[r]
    BY <1>3, <1>6
  <2> QED
    BY <2>1, <2>2, <2>3 DEF PhoneInv
<1>10. CouponInv(r)'
  BY <1>1, <1>2, <1>3, <1>6, <1>11 DEF LocksInv, CouponInv, AfterUse, Request, db
<1> QED
  BY <1>2, <1>4, <1>5, <1>7, <1>8, <1>9, <1>10, LockStep DEF LocksInv

\* The transaction counts the customer's uses of the coupon.
LEMMA TxCountStep ==
  ASSUME IInv, NEW r \in Requests, TxCount(r)
  PROVE  IInv'
<1> DEFINE x == [req[r] EXCEPT !.at = "use"]
<1>1. /\ req \in [Requests -> Request] /\ req[r] \in Request /\ LocksInv(r)
      /\ req[r].at = "count"
  BY DEF IInv, TypeOK, TxCount, At
<1>2. CASE Rollback(r)
  BY <1>2, RollbackStep
<1>3. CASE Goto(r, "use") /\ UNCHANGED <<db, held>>
  <2>1. req' = [req EXCEPT ![r] = x] /\ req'[r] = x /\ x \in Request
    BY <1>1, <1>3 DEF Goto, Request, Steps, TxSteps
  <2>2. RequestInv(r)' /\ CodeInv(r)' /\ CouponInv(r)'
    BY <1>1, <1>3, <2>1 DEF LocksInv, RequestInv, CodeInv, CouponInv, AfterUse, SentTo, TxSteps,
                            Request, db
  <2>3. PhoneInv(r)' /\ LinesInv(r)'
    BY <1>1, <1>3, <2>1 DEF LocksInv, PhoneInv, LinesInv, AfterLines, RecentGuestOrders, Request,
                            db, TxSteps
  <2> QED
    BY <1>3, <2>1, <2>2, <2>3, MoveStep DEF LocksInv
<1> QED
  BY <1>2, <1>3 DEF TxCount

\* The transaction counts the use of the coupon.
LEMMA TxUseStep ==
  ASSUME IInv, NEW r \in Requests, TxUse(r)
  PROVE  IInv'
<1> DEFINE x == [req[r] EXCEPT !.at = "number"]
<1>1. /\ req \in [Requests -> Request] /\ req[r] \in Request /\ LocksInv(r)
      /\ req[r].at = "use" /\ held \in [Requests -> SUBSET Resource] /\ used \in Nat
  BY DEF IInv, TypeOK, TxUse, At
<1>2. CASE Rollback(r)
  BY <1>2, RollbackStep
<1>3. CASE ~(used >= UsageLimit) /\ Lock(r, Coupon) /\ Goto(r, "number") /\ UNCHANGED db
  <2>1. req' = [req EXCEPT ![r] = x] /\ req'[r] = x /\ x \in Request
    BY <1>1, <1>3 DEF Goto, Request, Steps, TxSteps
  <2>2. Coupon \in Resource /\ Free(r, Coupon) /\ held'[r] = held[r] \cup {Coupon}
    BY <1>1, <1>3 DEF Resource, Coupon, TxUse, Lock
  <2>3. used < UsageLimit
    BY <1>1, <1>3 DEF CheckoutAssumption
  <2>4. RequestInv(r)' /\ CodeInv(r)'
    BY <1>1, <1>3, <2>1, <2>2 DEF LocksInv, RequestInv, CodeInv, SentTo, TxSteps, Request, db
  <2>5. PhoneInv(r)' /\ LinesInv(r)'
    BY <1>1, <1>3, <2>1, <2>2 DEF LocksInv, PhoneInv, LinesInv, AfterLines, RecentGuestOrders,
                                  Request, db, TxSteps
  <2>6. CouponInv(r)'
    BY <1>3, <2>2, <2>3 DEF CouponInv, Coupon, db
  <2> QED
    BY <1>3, <2>1, <2>2, <2>4, <2>5, <2>6, LockStep DEF LocksInv
<1> QED
  BY <1>2, <1>3 DEF TxUse

\* The transaction draws the invoice number.
LEMMA TxNumberStep ==
  ASSUME IInv, NEW r \in Requests, TxNumber(r)
  PROVE  IInv'
<1> DEFINE x == [req[r] EXCEPT !.at = "commit", !.number = Len(orders) + 1]
<1>1. /\ req \in [Requests -> Request] /\ req[r] \in Request /\ LocksInv(r)
      /\ req[r].at = "number" /\ orders \in Seq(Order) /\ UNCHANGED <<held, db>>
  BY DEF IInv, TypeOK, TxNumber, At
<1>0. Len(orders) + 1 \in Nat
  BY <1>1
<1>2. req' = [req EXCEPT ![r] = x] /\ req'[r] = x /\ x \in Request
  <2>1. x \in Request
    BY <1>0, <1>1 DEF Request, Steps, TxSteps
  <2>2. req' = [req EXCEPT ![r] = x]
    BY <1>1 DEF TxNumber
  <2> QED
    BY <1>1, <2>1, <2>2
<1>3. RequestInv(r)' /\ CodeInv(r)' /\ CouponInv(r)'
  BY <1>1, <1>2 DEF LocksInv, RequestInv, CodeInv, CouponInv, AfterUse, SentTo, TxSteps, Request,
                    db, Coupon
<1>4. PhoneInv(r)' /\ LinesInv(r)'
  BY <1>1, <1>2 DEF LocksInv, PhoneInv, LinesInv, AfterLines, RecentGuestOrders, Request, db,
                    TxSteps
<1> QED
  BY <1>1, <1>2, <1>3, <1>4, MoveStep DEF LocksInv

-----------------------------------------------------------------------------
(* The commit of a transaction that kept its invoice number.                *)

\* The order a request places.
NewOrder(r) ==
  [customer |-> req[r].customer, cart |-> req[r].cart, coupon |-> req[r].coupon,
   otp |-> req[r].otp, recent |-> TRUE]

\* What is known when the transaction commits.
LEMMA CommitFacts ==
  ASSUME IInv, NEW r \in Requests, TxCommit(r), req[r].number = Len(orders) + 1
  PROVE  /\ req[r] \in Request /\ LocksInv(r) /\ req[r].at = "commit"
         /\ req[r].cart \in Carts /\ req[r].customer = Owner[req[r].cart]
         /\ Lines[req[r].cart] \subseteq Sizes
         /\ NewOrder(r) \in Order
         /\ orders \in Seq(Order) /\ orders' = Append(orders, NewOrder(r))
         /\ req[r].otp # 0 => SentTo(req[r].otp, req[r].customer) /\ ~otps[req[r].otp].verified
         /\ otps' = IF req[r].otp = 0 THEN otps ELSE [otps EXCEPT ![req[r].otp].verified = TRUE]
         /\ stock' = [s \in Sizes |-> IF s \in Lines[req[r].cart] THEN stock[s] - 1 ELSE stock[s]]
         /\ used' = IF req[r].coupon THEN used + 1 ELSE used
         /\ req' = [req EXCEPT ![r] = Idle] /\ held' = [held EXCEPT ![r] = {}]
         /\ active' = active \ {req[r].cart} /\ UNCHANGED <<couponOpen, linked>>
<1>1. /\ req[r] \in Request /\ LocksInv(r) /\ req[r].at = "commit" /\ orders \in Seq(Order)
  BY DEF IInv, TypeOK, TxCommit, At
<1>2. /\ req[r].cart \in Carts /\ req[r].customer = Owner[req[r].cart]
      /\ req[r].otp # 0 => SentTo(req[r].otp, req[r].customer) /\ ~otps[req[r].otp].verified
  BY <1>1 DEF LocksInv, RequestInv, CodeInv, TxSteps
<1>3. Lines[req[r].cart] \subseteq Sizes /\ req[r].customer \in Customers
  BY <1>2 DEF CheckoutAssumption
<1>4. NewOrder(r) \in Order
  BY <1>1, <1>2, <1>3 DEF NewOrder, Order, Request
<1> QED
  BY <1>1, <1>2, <1>3, <1>4 DEF TxCommit, NewOrder

\* The commit marks its own code and no other.
LEMMA CommitOtps ==
  ASSUME IInv, NEW r \in Requests, TxCommit(r), req[r].number = Len(orders) + 1
  PROVE  /\ otps' \in Seq(Otp) /\ DOMAIN otps' = DOMAIN otps
         /\ \A k \in DOMAIN otps : /\ otps'[k].scope = otps[k].scope
                                   /\ otps'[k].attempts = otps[k].attempts
                                   /\ otps'[k].verified = (otps[k].verified \/ k = req[r].otp)
<1>1. otps \in Seq(Otp)
  BY DEF IInv, TypeOK
<1>2. \A k \in DOMAIN otps : otps[k] \in Otp /\ otps[k].verified \in BOOLEAN /\ k # 0
  <2>1. \A k \in DOMAIN otps : otps[k] \in Otp /\ k # 0
    BY <1>1
  <2>2. \A o \in Otp : o.verified \in BOOLEAN
    BY DEF Otp
  <2> QED
    BY <2>1, <2>2
<1>5. /\ otps' = IF req[r].otp = 0 THEN otps ELSE [otps EXCEPT ![req[r].otp].verified = TRUE]
      /\ req[r].otp # 0 => SentTo(req[r].otp, req[r].customer)
  BY CommitFacts
<1>3. CASE req[r].otp = 0
  <2>1. otps' = otps /\ \A k \in DOMAIN otps : k # req[r].otp
    BY <1>2, <1>3, <1>5
  <2> QED
    BY <1>1, <1>2, <2>1
<1>4. CASE req[r].otp # 0
  <2>1. req[r].otp \in DOMAIN otps /\ otps' = [otps EXCEPT ![req[r].otp].verified = TRUE]
    BY <1>4, <1>5 DEF SentTo
  <2>2. [otps[req[r].otp] EXCEPT !.verified = TRUE] \in Otp
    BY <1>2, <2>1 DEF Otp
  <2>3. otps' \in Seq(Otp) /\ DOMAIN otps' = DOMAIN otps
    BY <1>1, <1>2, <2>1, <2>2
  <2>4. \A k \in DOMAIN otps : k # req[r].otp => otps'[k] = otps[k]
    BY <1>1, <2>1
  <2>5. otps'[req[r].otp] = [otps[req[r].otp] EXCEPT !.verified = TRUE]
    BY <1>1, <2>1
  <2>6. /\ otps'[req[r].otp].scope = otps[req[r].otp].scope
        /\ otps'[req[r].otp].attempts = otps[req[r].otp].attempts
        /\ otps'[req[r].otp].verified
    BY <1>2, <2>1, <2>5 DEF Otp
  <2> QED
    BY <1>2, <2>3, <2>4, <2>6
<1> QED
  BY <1>3, <1>4

\* The commit keeps the types.
LEMMA CommitType ==
  ASSUME IInv, NEW r \in Requests, TxCommit(r), req[r].number = Len(orders) + 1
  PROVE  TypeOK'
<1>1. /\ TypeOK /\ LinesInv(r) /\ req[r].at = "commit"
      /\ stock' = [s \in Sizes |-> IF s \in Lines[req[r].cart] THEN stock[s] - 1 ELSE stock[s]]
      /\ used' = IF req[r].coupon THEN used + 1 ELSE used
  BY CommitFacts DEF IInv, LocksInv
<1>6. /\ req' = [req EXCEPT ![r] = Idle] /\ held' = [held EXCEPT ![r] = {}]
      /\ active' = active \ {req[r].cart} /\ UNCHANGED <<couponOpen, linked>>
      /\ orders \in Seq(Order) /\ NewOrder(r) \in Order /\ orders' = Append(orders, NewOrder(r))
  BY CommitFacts
<1>2. \A s \in Lines[req[r].cart] : stock[s] > 0
  BY <1>1 DEF LinesInv, AfterLines
<1>3. stock' \in [Sizes -> Nat] /\ used' \in Nat
  <2>1. stock \in [Sizes -> Nat] /\ used \in Nat
    BY <1>1 DEF TypeOK
  <2> QED
    BY <1>1, <1>2, <2>1
<1>4. req' \in [Requests -> Request] /\ held' \in [Requests -> SUBSET Resource]
  <2>1. req \in [Requests -> Request] /\ held \in [Requests -> SUBSET Resource]
    BY <1>1 DEF TypeOK
  <2> QED
    BY <1>6, <2>1, IdleType
<1>5. orders' \in Seq(Order) /\ otps' \in Seq(Otp)
  BY <1>6, AppendedOrder, CommitOtps
<1> QED
  BY <1>1, <1>6, <1>3, <1>4, <1>5 DEF TypeOK

\* A phone's recent orders are one more when a guest with the phone ordered.
LEMMA CommitRecent ==
  ASSUME IInv, NEW r \in Requests, TxCommit(r), req[r].number = Len(orders) + 1, NEW p
  PROVE  RecentGuestOrders(p)' =
           IF req[r].customer \in Guests /\ Phone[req[r].customer] = p
           THEN RecentGuestOrders(p) + 1 ELSE RecentGuestOrders(p)
<1> DEFINE S == {i \in DOMAIN orders :
             orders[i].customer \in Guests /\ Phone[orders[i].customer] = p /\ orders[i].recent}
           T == {i \in DOMAIN orders' :
             orders'[i].customer \in Guests /\ Phone[orders'[i].customer] = p /\ orders'[i].recent}
<1>1. /\ orders \in Seq(Order) /\ NewOrder(r) \in Order /\ orders' = Append(orders, NewOrder(r))
      /\ NewOrder(r).customer = req[r].customer /\ NewOrder(r).recent
  BY CommitFacts DEF NewOrder
<1>2. T = IF req[r].customer \in Guests /\ Phone[req[r].customer] = p
          THEN S \cup {Len(orders) + 1} ELSE S
  BY <1>1, AppendedOrder
<1>3. S \in SUBSET DOMAIN orders /\ Len(orders) + 1 \notin S
  BY <1>1
<1> HIDE DEF S, T
<1>4. Cardinality(T) = IF T = S THEN Cardinality(S) ELSE Cardinality(S) + 1
  BY <1>1, <1>2, <1>3, CountAppended
<1>5. Cardinality(T) = IF req[r].customer \in Guests /\ Phone[req[r].customer] = p
                       THEN Cardinality(S) + 1 ELSE Cardinality(S)
  BY <1>2, <1>3, <1>4
<1> QED
  BY <1>5 DEF S, T, RecentGuestOrders

\* The commit adds a use of the coupon with its order.
LEMMA CommitUses ==
  ASSUME IInv, NEW r \in Requests, TxCommit(r), req[r].number = Len(orders) + 1
  PROVE  UsesMatch'
<1> DEFINE S == {i \in DOMAIN orders : orders[i].coupon}
           T == {i \in DOMAIN orders' : orders'[i].coupon}
<1>1. /\ orders \in Seq(Order) /\ NewOrder(r) \in Order /\ orders' = Append(orders, NewOrder(r))
      /\ NewOrder(r).coupon = req[r].coupon
  BY CommitFacts DEF NewOrder
<1>2. T = IF req[r].coupon THEN S \cup {Len(orders) + 1} ELSE S
  BY <1>1, AppendedOrder
<1>3. S \in SUBSET DOMAIN orders /\ Len(orders) + 1 \notin S
  BY <1>1
<1>4. used = Cardinality(S) /\ used <= UsageLimit /\ used \in Nat /\ UsageLimit \in Nat
  BY DEF IInv, UsesMatch, TypeOK, CheckoutAssumption
<1> HIDE DEF S, T
<1>5. Cardinality(T) = IF req[r].coupon THEN Cardinality(S) + 1 ELSE Cardinality(S)
  <2>1. T = S \/ T = S \cup {Len(orders) + 1}
    BY <1>2
  <2>2. Cardinality(T) = IF T = S THEN Cardinality(S) ELSE Cardinality(S) + 1
    BY <1>1, <1>3, <2>1, CountAppended
  <2> QED
    BY <1>2, <1>3, <2>2
<1>6. used' = IF req[r].coupon THEN used + 1 ELSE used
  BY CommitFacts
<1>7. req[r].coupon => used < UsageLimit
  BY CommitFacts DEF LocksInv, CouponInv, AfterUse
<1>8. used' = Cardinality(T) /\ used' <= UsageLimit
  BY <1>4, <1>5, <1>6, <1>7
<1> QED
  BY <1>8 DEF T, UsesMatch

\* The commit takes what its order sold.
LEMMA CommitStock ==
  ASSUME IInv, NEW r \in Requests, TxCommit(r), req[r].number = Len(orders) + 1
  PROVE  StockMatches'
<1> SUFFICES ASSUME NEW s \in Sizes
             PROVE  stock'[s] + Cardinality(Sold(s)') = InitialStock[s]
  BY DEF StockMatches
<1> DEFINE S == Sold(s)
           T == Sold(s)'
<1>1. /\ orders \in Seq(Order) /\ NewOrder(r) \in Order /\ orders' = Append(orders, NewOrder(r))
      /\ NewOrder(r).cart = req[r].cart
  BY CommitFacts DEF NewOrder
<1>2. T = IF s \in Lines[req[r].cart] THEN S \cup {Len(orders) + 1} ELSE S
  BY <1>1, AppendedOrder DEF Sold, Placed
<1>3. S \in SUBSET DOMAIN orders /\ Len(orders) + 1 \notin S
  BY <1>1 DEF Sold, Placed
<1>4. /\ stock[s] + Cardinality(S) = InitialStock[s] /\ stock[s] \in Nat
      /\ Cardinality(S) \in Nat
  BY <1>1, <1>3, OrderSets DEF IInv, StockMatches, TypeOK
<1> HIDE DEF S, T
<1>5. Cardinality(T) = IF s \in Lines[req[r].cart] THEN Cardinality(S) + 1 ELSE Cardinality(S)
  BY <1>1, <1>2, <1>3, CountAppended
<1>6. stock'[s] = IF s \in Lines[req[r].cart] THEN stock[s] - 1 ELSE stock[s]
  <2>1. stock' = [z \in Sizes |-> IF z \in Lines[req[r].cart] THEN stock[z] - 1 ELSE stock[z]]
    BY CommitFacts
  <2> QED
    BY <2>1
<1>7. stock'[s] + Cardinality(T) = InitialStock[s]
  <2>1. CASE s \in Lines[req[r].cart]
    BY <1>4, <1>5, <1>6, <2>1
  <2>2. CASE s \notin Lines[req[r].cart]
    BY <1>4, <1>5, <1>6, <2>2
  <2> QED
    BY <2>1, <2>2
<1> QED
  BY <1>7 DEF T

\* The commit spends a code no other order carries: it holds the code's lock.
LEMMA CommitCodes ==
  ASSUME IInv, NEW r \in Requests, TxCommit(r), req[r].number = Len(orders) + 1
  PROVE  CodesMatch'
<1> DEFINE n == Len(orders) + 1
           k == req[r].otp
<1>1. /\ orders \in Seq(Order) /\ NewOrder(r) \in Order /\ orders' = Append(orders, NewOrder(r))
      /\ NewOrder(r).otp = k
      /\ k # 0 => k \in DOMAIN otps /\ ~otps[k].verified
  BY CommitFacts DEF NewOrder, SentTo
<1>2. /\ DOMAIN orders' = DOMAIN orders \cup {n} /\ n \notin DOMAIN orders
      /\ \A i \in DOMAIN orders : orders'[i] = orders[i]
      /\ orders'[n].otp = k
  BY <1>1, AppendedOrder
<1>3. CodesMatch
  BY DEF IInv
<1>4. /\ DOMAIN otps' = DOMAIN otps
      /\ \A j \in DOMAIN otps : otps'[j].verified = (otps[j].verified \/ j = k)
  BY CommitOtps
<1> HIDE DEF n, k
<1>5. ASSUME NEW i \in DOMAIN orders', orders'[i].otp # 0
      PROVE  orders'[i].otp \in DOMAIN otps' /\ otps'[orders'[i].otp].verified
  <2>1. CASE i = n
    BY <1>1, <1>2, <1>4, <1>5, <2>1
  <2>2. CASE i \in DOMAIN orders
    <3>1. orders[i].otp \in DOMAIN otps /\ otps[orders[i].otp].verified
      BY <1>2, <1>3, <1>5, <2>2 DEF CodesMatch
    <3> QED
      BY <1>2, <1>4, <2>2, <3>1
  <2> QED
    BY <1>2, <2>1, <2>2
<1>6. \A i \in DOMAIN orders : k # 0 => orders[i].otp # k
  BY <1>1, <1>3 DEF CodesMatch
<1>7. \A i, j \in DOMAIN orders' : orders'[i].otp = orders'[j].otp /\ orders'[i].otp # 0 => i = j
  BY <1>2, <1>3, <1>6 DEF CodesMatch
<1>8. \A j \in DOMAIN otps' : otps'[j].verified => \E i \in DOMAIN orders' : orders'[i].otp = j
  <2>1. SUFFICES ASSUME NEW j \in DOMAIN otps', otps'[j].verified
                 PROVE  \E i \in DOMAIN orders' : orders'[i].otp = j
    OBVIOUS
  <2>2. CASE j = k
    BY <1>2, <2>2
  <2>3. CASE j # k
    <3>1. PICK i \in DOMAIN orders : orders[i].otp = j
      BY <1>3, <1>4, <2>1, <2>3 DEF CodesMatch
    <3> QED
      BY <1>2, <3>1
  <2> QED
    BY <2>2, <2>3
<1> QED
  BY <1>5, <1>7, <1>8 DEF CodesMatch

\* What the other transactions found stays true: they hold the rows it is about.
LEMMA CommitOthers ==
  ASSUME IInv, NEW r \in Requests, TxCommit(r), req[r].number = Len(orders) + 1,
         NEW q \in Requests, q # r
  PROVE  LocksInv(q)'
<1>1. /\ LocksInv(q) /\ LocksInv(r) /\ req[q] \in Request /\ req[r].at = "commit"
      /\ held[q] \cap held[r] = {} /\ stock \in [Sizes -> Nat] /\ otps \in Seq(Otp)
  BY CommitFacts DEF IInv, TypeOK, Exclusive
<1>2. req'[q] = req[q] /\ held'[q] = held[q]
  <2>1. req' = [req EXCEPT ![r] = Idle] /\ held' = [held EXCEPT ![r] = {}]
    BY CommitFacts
  <2>2. req \in [Requests -> Request] /\ held \in [Requests -> SUBSET Resource]
    BY DEF IInv, TypeOK
  <2> QED
    BY <2>1, <2>2
<1>3. RequestInv(q)'
  <2>1. \A i, c : SentTo(i, c) => SentTo(i, c)'
    BY CommitOtps DEF SentTo
  <2>2. RequestInv(q)
    BY <1>1 DEF LocksInv
  <2> HIDE DEF SentTo
  <2> QED
    BY <1>2, <2>1, <2>2 DEF RequestInv
<1>4. PhoneInv(q)'
  <2>1. SUFFICES ASSUME req[q].at \in TxSteps, req[q].customer \in Guests
                 PROVE  /\ <<"phone", Phone[req[q].customer]>> \in held[q]
                        /\ RecentGuestOrders(Phone[req[q].customer])' < GuestLimit
    BY <1>2 DEF PhoneInv
  <2>2. /\ <<"phone", Phone[req[q].customer]>> \in held[q]
        /\ RecentGuestOrders(Phone[req[q].customer]) < GuestLimit
    BY <1>1, <2>1 DEF LocksInv, PhoneInv
  <2>3. req[r].customer \in Guests => <<"phone", Phone[req[r].customer]>> \in held[r]
    BY <1>1 DEF LocksInv, PhoneInv, TxSteps
  <2>4. ~(req[r].customer \in Guests /\ Phone[req[r].customer] = Phone[req[q].customer])
    BY <1>1, <2>2, <2>3
  <2>7. PICK p : p = Phone[req[q].customer]
    OBVIOUS
  <2>5. RecentGuestOrders(p)' = RecentGuestOrders(p)
    BY <2>4, <2>7, CommitRecent
  <2>6. Phone[req'[q].customer] = p
    BY <1>2, <2>7
  <2> QED
    BY <2>2, <2>5, <2>6, <2>7
<1>5. CodeInv(q)'
  <2>1. SUFFICES ASSUME req[q].at \in TxSteps \ {"otp"}, req[q].otp # 0
                 PROVE  <<"otp", req[q].otp>> \in held[q] /\ ~otps'[req[q].otp].verified
    BY <1>2 DEF CodeInv
  <2>2. <<"otp", req[q].otp>> \in held[q] /\ ~otps[req[q].otp].verified
    BY <1>1, <2>1 DEF LocksInv, CodeInv
  <2>3. req[r].otp # 0 => <<"otp", req[r].otp>> \in held[r]
    BY <1>1 DEF LocksInv, CodeInv, TxSteps
  <2>4. req[q].otp # req[r].otp
    BY <1>1, <2>1, <2>2, <2>3
  <2>5. req[q].otp \in DOMAIN otps
    BY <1>1, <2>1 DEF LocksInv, RequestInv, SentTo
  <2> QED
    BY <2>2, <2>4, <2>5, CommitOtps
<1>6. LinesInv(q)'
  <2>1. \A s \in Sizes : <<"size", s>> \in held[q] => stock'[s] = stock[s]
    <3>1. \A s \in Lines[req[r].cart] : <<"size", s>> \in held[r]
      BY <1>1 DEF LocksInv, LinesInv, AfterLines
    <3>2. stock' = [s \in Sizes |-> IF s \in Lines[req[r].cart] THEN stock[s] - 1 ELSE stock[s]]
      BY CommitFacts
    <3> QED
      BY <1>1, <3>1, <3>2
  <2>2. LinesInv(q)
    BY <1>1 DEF LocksInv
  <2>3. req[q].at # "idle" => Lines[req[q].cart] \subseteq Sizes
    BY <1>1 DEF LocksInv, RequestInv, CheckoutAssumption
  <2> QED
    BY <1>2, <2>1, <2>2, <2>3 DEF LinesInv, AfterLines
<1>7. CouponInv(q)'
  <2>1. SUFFICES ASSUME req[q].at \in AfterUse, req[q].coupon
                 PROVE  Coupon \in held[q] /\ used' < UsageLimit
    BY <1>2 DEF CouponInv, Coupon
  <2>2. Coupon \in held[q] /\ used < UsageLimit
    BY <1>1, <2>1 DEF LocksInv, CouponInv
  <2>3. ~req[r].coupon
    BY <1>1, <2>2 DEF LocksInv, CouponInv, AfterUse
  <2> QED
    BY <2>2, <2>3, CommitFacts
<1> QED
  BY <1>3, <1>4, <1>5, <1>6, <1>7 DEF LocksInv

\* The commit keeps the invariant, whether or not its number was taken.
LEMMA TxCommitStep ==
  ASSUME IInv, NEW r \in Requests, TxCommit(r)
  PROVE  IInv'
<1>1. CASE req[r].number # Len(orders) + 1
  BY <1>1, RollbackStep DEF TxCommit
<1>2. CASE req[r].number = Len(orders) + 1
  <2>0. req' = [req EXCEPT ![r] = Idle] /\ held' = [held EXCEPT ![r] = {}]
    BY <1>2, CommitFacts
  <2>1. req'[r] = Idle /\ held'[r] = {}
    BY <2>0 DEF IInv, TypeOK
  <2>2. LocksInv(r)'
    BY <2>1, IdleInv
  <2>3. ASSUME NEW q \in Requests PROVE LocksInv(q)'
    BY <1>2, <2>2, CommitOthers
  <2>4. Exclusive'
    BY <2>0 DEF IInv, TypeOK, Exclusive
  <2>5. AttemptsWithinCap'
    BY <1>2, CommitOtps DEF IInv, AttemptsWithinCap
  <2>6. GuestOrdersLimited'
    <3>1. SUFFICES ASSUME NEW p \in Phones PROVE RecentGuestOrders(p)' <= GuestLimit
      BY DEF GuestOrdersLimited
    <3>2. RecentGuestOrders(p) <= GuestLimit /\ RecentGuestOrders(p) \in Nat /\ GuestLimit \in Nat
      BY RecentType DEF IInv, TypeOK, GuestOrdersLimited, CheckoutAssumption
    <3>3. req[r].customer \in Guests => RecentGuestOrders(Phone[req[r].customer]) < GuestLimit
      BY <1>2, CommitFacts DEF LocksInv, PhoneInv, TxSteps
    <3> QED
      BY <1>2, <3>2, <3>3, CommitRecent
  <2> QED
    BY <1>2, <2>3, <2>4, <2>5, <2>6, CommitType, CommitUses, CommitStock, CommitCodes DEF IInv
<1> QED
  BY <1>1, <1>2

-----------------------------------------------------------------------------
(* Time, and the rest of the application.                                   *)

\* Removing the coupon from a cart keeps the invariant.
LEMMA UnlinkStep ==
  ASSUME IInv, NEW c \in Customers, NEW cart \in Carts, UnlinkCoupon(c, cart)
  PROVE  IInv'
<1>1. TypeOK' /\ Exclusive'
  BY DEF IInv, TypeOK, Exclusive, UnlinkCoupon
<1>2. ASSUME NEW q \in Requests PROVE LocksInv(q)'
  <2>1. LocksInv(q)
    BY DEF IInv
  <2> QED
    BY <2>1 DEF UnlinkCoupon, LocksInv, RequestInv, PhoneInv, CodeInv, LinesInv, CouponInv, SentTo,
                RecentGuestOrders, Coupon
<1>3. UNCHANGED <<stock, used, otps, orders>>
  BY DEF UnlinkCoupon
<1>4. CodesMatch' /\ UsesMatch'
  BY <1>3 DEF IInv, CodesMatch, UsesMatch
<1>5. StockMatches'
  BY <1>3 DEF IInv, StockMatches, Sold, Placed
<1>6. AttemptsWithinCap' /\ GuestOrdersLimited'
  BY <1>3 DEF IInv, AttemptsWithinCap, GuestOrdersLimited, RecentGuestOrders
<1> QED
  BY <1>1, <1>2, <1>4, <1>5, <1>6 DEF IInv

\* Closing the coupon keeps the invariant.
LEMMA CloseStep ==
  ASSUME IInv, CouponCloses
  PROVE  IInv'
<1>1. TypeOK' /\ Exclusive'
  BY DEF IInv, TypeOK, Exclusive, CouponCloses
<1>2. ASSUME NEW q \in Requests PROVE LocksInv(q)'
  <2>1. LocksInv(q)
    BY DEF IInv
  <2> QED
    BY <2>1 DEF CouponCloses, LocksInv, RequestInv, PhoneInv, CodeInv, LinesInv, CouponInv, SentTo,
                RecentGuestOrders, Coupon
<1>3. CodesMatch' /\ UsesMatch' /\ StockMatches' /\ AttemptsWithinCap' /\ GuestOrdersLimited'
  BY DEF IInv, CodesMatch, UsesMatch, StockMatches, Sold, Placed, AttemptsWithinCap,
         GuestOrdersLimited, RecentGuestOrders, CouponCloses
<1> QED
  BY <1>1, <1>2, <1>3 DEF IInv

\* A code that expires or is no longer fresh is the same code.
LEMMA ExpiryStep ==
  ASSUME IInv, NEW i \in DOMAIN otps, CodeExpires(i) \/ CooldownEnds(i)
  PROVE  IInv'
<1>1. otps \in Seq(Otp) /\ otps[i] \in Otp /\ AttemptsWithinCap
  BY DEF IInv, TypeOK
<1>2. PICK x \in Otp : /\ otps' = [otps EXCEPT ![i] = x]
                       /\ x.scope = otps[i].scope /\ x.verified = otps[i].verified
                       /\ x.attempts = otps[i].attempts
  <2>1. CASE CodeExpires(i)
    <3>1. [otps[i] EXCEPT !.live = FALSE, !.fresh = FALSE] \in Otp
      BY <1>1 DEF Otp
    <3>2. otps' = [otps EXCEPT ![i] = [otps[i] EXCEPT !.live = FALSE, !.fresh = FALSE]]
      BY <1>1, <2>1 DEF CodeExpires, Otp
    <3> QED
      BY <1>1, <3>1, <3>2 DEF Otp
  <2>2. CASE CooldownEnds(i)
    <3>1. [otps[i] EXCEPT !.fresh = FALSE] \in Otp
      BY <1>1 DEF Otp
    <3>2. otps' = [otps EXCEPT ![i] = [otps[i] EXCEPT !.fresh = FALSE]]
      BY <1>1, <2>2 DEF CooldownEnds, Otp
    <3> QED
      BY <1>1, <3>1, <3>2 DEF Otp
  <2> QED
    BY <2>1, <2>2
<1>3. otps' \in Seq(Otp) /\ DOMAIN otps' = DOMAIN otps
  BY <1>1, <1>2
<1>4. \A j \in DOMAIN otps : /\ otps'[j].scope = otps[j].scope
                             /\ otps'[j].verified = otps[j].verified
                             /\ otps'[j].attempts <= MaxAttempts
  BY <1>1, <1>2 DEF AttemptsWithinCap
<1>5. req' = req /\ req \in [Requests -> Request]
      /\ UNCHANGED <<held, stock, used, couponOpen, linked, active, orders>>
  BY DEF CodeExpires, CooldownEnds, IInv, TypeOK
<1> QED
  BY <1>3, <1>4, <1>5, OtpStep

\* An order that is no longer recent is the same order.
LEMMA AgeStep ==
  ASSUME IInv, NEW i \in DOMAIN orders, OrderAges(i)
  PROVE  IInv'
<1>1. /\ orders \in Seq(Order) /\ orders[i] \in Order
      /\ UNCHANGED <<stock, used, couponOpen, linked, active, otps, req, held>>
  BY DEF IInv, TypeOK, OrderAges
<1>2. [orders[i] EXCEPT !.recent = FALSE] \in Order
  BY <1>1 DEF Order
<1>3. orders' = [orders EXCEPT ![i] = [orders[i] EXCEPT !.recent = FALSE]]
  BY <1>1 DEF OrderAges, Order
<1>4. orders' \in Seq(Order) /\ DOMAIN orders' = DOMAIN orders
  BY <1>1, <1>2, <1>3
<1>5. \A j \in DOMAIN orders :
        /\ orders'[j].customer = orders[j].customer /\ orders'[j].cart = orders[j].cart
        /\ orders'[j].coupon = orders[j].coupon /\ orders'[j].otp = orders[j].otp
        /\ orders'[j].recent => orders[j].recent
  <2>1. ASSUME NEW j \in DOMAIN orders, j # i PROVE orders'[j] = orders[j]
    BY <1>1, <1>3, <2>1
  <2>2. orders'[i] = [orders[i] EXCEPT !.recent = FALSE]
    BY <1>1, <1>3
  <2> QED
    BY <1>1, <2>1, <2>2 DEF Order
<1>6. \A p : RecentGuestOrders(p)' <= RecentGuestOrders(p)
          /\ RecentGuestOrders(p)' \in Nat /\ RecentGuestOrders(p) \in Nat
  <2>1. TAKE p
  <2> DEFINE S == {j \in DOMAIN orders :
               orders[j].customer \in Guests /\ Phone[orders[j].customer] = p /\ orders[j].recent}
             T == {j \in DOMAIN orders' :
               orders'[j].customer \in Guests /\ Phone[orders'[j].customer] = p /\ orders'[j].recent}
  <2>2. T \subseteq S /\ S \in SUBSET DOMAIN orders
    BY <1>4, <1>5
  <2>3. IsFiniteSet(S) /\ Cardinality(S) \in Nat
    BY <1>1, <2>2, OrderSets
  <2> HIDE DEF S, T
  <2>4. Cardinality(T) <= Cardinality(S) /\ Cardinality(T) \in Nat
    BY <2>2, <2>3, FS_Subset, FS_CardinalityType
  <2> QED
    BY <2>3, <2>4 DEF S, T, RecentGuestOrders
<1>7. TypeOK' /\ Exclusive'
  BY <1>1, <1>4 DEF IInv, TypeOK, Exclusive
<1>8. ASSUME NEW q \in Requests PROVE LocksInv(q)'
  <2>1. LocksInv(q)
    BY DEF IInv
  <2>2. RequestInv(q)' /\ CodeInv(q)' /\ LinesInv(q)' /\ CouponInv(q)'
    BY <1>1, <2>1 DEF LocksInv, RequestInv, CodeInv, LinesInv, CouponInv, SentTo, Coupon
  <2>3. PhoneInv(q)'
    <3>1. \A p : RecentGuestOrders(p) < GuestLimit => RecentGuestOrders(p)' < GuestLimit
      BY <1>6 DEF CheckoutAssumption
    <3>2. req'[q] = req[q] /\ held'[q] = held[q]
      BY <1>1
    <3>3. PICK p : p = Phone[req[q].customer]
      OBVIOUS
    <3>4. req[q].at \in TxSteps /\ req[q].customer \in Guests =>
            <<"phone", p>> \in held[q] /\ RecentGuestOrders(p) < GuestLimit
      BY <2>1, <3>3 DEF LocksInv, PhoneInv
    <3>5. RecentGuestOrders(p) < GuestLimit => RecentGuestOrders(p)' < GuestLimit
      BY <3>1
    <3>6. Phone[req'[q].customer] = p
      BY <3>2, <3>3
    <3> QED
      BY <3>2, <3>4, <3>5, <3>6 DEF PhoneInv
  <2> QED
    BY <2>2, <2>3 DEF LocksInv
<1>9. CodesMatch' /\ UsesMatch' /\ StockMatches'
  <2>1. CodesMatch'
    <3>1. CodesMatch
      BY DEF IInv
    <3>2. \A k \in DOMAIN otps : otps[k].verified => \E j \in DOMAIN orders' : orders'[j].otp = k
      BY <1>4, <1>5, <3>1 DEF CodesMatch
    <3>3. \A j \in DOMAIN orders' : orders'[j].otp = orders[j].otp
      BY <1>4, <1>5
    <3> QED
      BY <1>1, <1>4, <3>1, <3>2, <3>3 DEF CodesMatch
  <2>2. {j \in DOMAIN orders' : orders'[j].coupon} = {j \in DOMAIN orders : orders[j].coupon}
    BY <1>4, <1>5
  <2>3. \A s \in Sizes : Sold(s)' = Sold(s)
    BY <1>4, <1>5 DEF Sold, Placed
  <2> QED
    BY <1>1, <2>1, <2>2, <2>3 DEF IInv, UsesMatch, StockMatches
<1>10. AttemptsWithinCap' /\ GuestOrdersLimited'
  BY <1>1, <1>6 DEF IInv, AttemptsWithinCap, GuestOrdersLimited, CheckoutAssumption
<1> QED
  BY <1>7, <1>8, <1>9, <1>10 DEF IInv

-----------------------------------------------------------------------------
(* The invariant.                                                           *)

\* The invariant holds at the start.
LEMMA InitInv == Init => IInv
<1> SUFFICES ASSUME Init PROVE IInv
  OBVIOUS
<1>1. \A r \in Requests : req[r] = Idle /\ held[r] = {}
  BY DEF Init
<1>2. TypeOK
  BY IdleType DEF Init, TypeOK, CheckoutAssumption
<1>3. Exclusive
  BY <1>1 DEF Exclusive
<1>4. \A r \in Requests : LocksInv(r)
  BY <1>1 DEF LocksInv, RequestInv, PhoneInv, CodeInv, LinesInv, CouponInv, Idle, TxSteps,
              AfterLines, AfterUse
<1>5. orders = <<>> /\ otps = <<>> /\ DOMAIN orders = {} /\ DOMAIN otps = {}
  BY DEF Init
<1>6. CodesMatch /\ AttemptsWithinCap
  BY <1>5 DEF CodesMatch, AttemptsWithinCap
<1>7. Cardinality({}) = 0
  BY FS_EmptySet
<1>8. UsesMatch
  <2>1. {i \in DOMAIN orders : orders[i].coupon} = {}
    BY <1>5
  <2> QED
    BY <1>7, <2>1 DEF Init, UsesMatch, CheckoutAssumption
<1>9. StockMatches
  <2>1. \A s \in Sizes : Cardinality(Sold(s)) = 0
    BY <1>5, <1>7 DEF Sold, Placed
  <2>2. \A s \in Sizes : stock[s] = InitialStock[s] /\ InitialStock[s] \in Nat
    BY DEF Init, CheckoutAssumption
  <2> QED
    BY <2>1, <2>2 DEF StockMatches
<1>10. GuestOrdersLimited
  <2>1. \A p : RecentGuestOrders(p) = 0
    BY <1>5, <1>7 DEF RecentGuestOrders
  <2> QED
    BY <2>1 DEF GuestOrdersLimited, CheckoutAssumption
<1> QED
  BY <1>2, <1>3, <1>4, <1>6, <1>8, <1>9, <1>10 DEF IInv

\* Every step of a request keeps the invariant.
LEMMA ServeStep ==
  ASSUME IInv, NEW r \in Requests, Serve(r)
  PROVE  IInv'
<1>1. CASE AskForCode(r) \/ SendCode(r) \/ FindCode(r) \/ TryCode(r)
  BY <1>1, AskStep, SendStep, FindStep, TryStep
<1>2. CASE TxGuest(r) \/ TxOtp(r) \/ TxProduct(r) \/ TxCount(r)
  BY <1>2, TxGuestStep, TxOtpStep, TxProductStep, TxCountStep
<1>3. CASE TxUse(r) \/ TxNumber(r) \/ TxCommit(r)
  BY <1>3, TxUseStep, TxNumberStep, TxCommitStep
<1>4. CASE \E s \in Sizes : TxSize(r, s)
  BY <1>4, TxSizeStep
<1>5. CASE Deadlock(r)
  BY <1>5, RollbackStep DEF Deadlock
<1> QED
  BY <1>1, <1>2, <1>3, <1>4, <1>5 DEF Serve

\* Every step keeps the invariant.
LEMMA NextInv == IInv /\ [Next]_vars => IInv'
<1> SUFFICES ASSUME IInv, [Next]_vars PROVE IInv'
  OBVIOUS
<1>1. ASSUME NEW r \in Requests, Serve(r) PROVE IInv'
  BY <1>1, ServeStep
<1>2. ASSUME NEW r \in Requests, NEW c \in Customers, NEW cart \in Carts,
             NEW code \in {0, Len(otps), Len(otps) + 1}, Submit(r, c, cart, code)
      PROVE  IInv'
  <2>1. code \in Nat
    BY DEF IInv, TypeOK
  <2> QED
    BY <1>2, <2>1, SubmitStep
<1>3. ASSUME NEW c \in Customers, NEW cart \in Carts, UnlinkCoupon(c, cart) PROVE IInv'
  BY <1>3, UnlinkStep
<1>4. ASSUME NEW i \in DOMAIN otps, CodeExpires(i) \/ CooldownEnds(i) PROVE IInv'
  BY <1>4, ExpiryStep
<1>5. ASSUME NEW i \in DOMAIN orders, OrderAges(i) PROVE IInv'
  BY <1>5, AgeStep
<1>6. CASE CouponCloses
  BY <1>6, CloseStep
<1>7. CASE UNCHANGED vars
  <2>2. TypeOK' /\ Exclusive'
    BY <1>7 DEF IInv, vars, TypeOK, Exclusive
  <2>3. ASSUME NEW q \in Requests PROVE LocksInv(q)'
    <3>1. LocksInv(q)
      BY DEF IInv
    <3>2. RequestInv(q)' /\ CodeInv(q)' /\ LinesInv(q)' /\ CouponInv(q)'
      BY <1>7, <3>1 DEF vars, LocksInv, RequestInv, CodeInv, LinesInv, CouponInv, SentTo, Coupon
    <3>3. PhoneInv(q)'
      BY <1>7, <3>1 DEF vars, LocksInv, PhoneInv, RecentGuestOrders
    <3> QED
      BY <3>2, <3>3 DEF LocksInv
  <2>4. CodesMatch' /\ UsesMatch' /\ StockMatches' /\ AttemptsWithinCap' /\ GuestOrdersLimited'
    BY <1>7 DEF IInv, vars, CodesMatch, UsesMatch, StockMatches, Sold, Placed, AttemptsWithinCap,
                GuestOrdersLimited, RecentGuestOrders
  <2> QED
    BY <2>2, <2>3, <2>4 DEF IInv
<1> QED
  BY <1>1, <1>2, <1>3, <1>4, <1>5, <1>6, <1>7 DEF Next

\* The strengthening of every invariant below.
LEMMA Invariant == Spec => []IInv
<1> QED
  BY InitInv, NextInv, PTL DEF Spec

\* Every variable keeps its type: in particular no stock goes below zero.
THEOREM TypeCorrect == Spec => []TypeOK
<1>1. IInv => TypeOK
  BY DEF IInv
<1> QED
  BY <1>1, Invariant, PTL

\* Every piece ordered came off the stock, whatever the number of submissions.
THEOREM StockIsCovered == Spec => []StockCoversOrders
<1>1. ASSUME IInv PROVE StockCoversOrders
  <2>1. SUFFICES ASSUME NEW s \in Sizes
                 PROVE  /\ stock[s] + Cardinality(Sold(s)) = InitialStock[s]
                        /\ Cardinality(Sold(s)) <= InitialStock[s]
    BY DEF StockCoversOrders
  <2>2. stock[s] + Cardinality(Sold(s)) = InitialStock[s] /\ stock[s] \in Nat
    BY <1>1 DEF IInv, StockMatches, TypeOK
  <2>3. Cardinality(Sold(s)) \in Nat
    BY <1>1, OrderSets DEF IInv, TypeOK, Sold, Placed
  <2> QED
    BY <2>2, <2>3
<1> QED
  BY <1>1, Invariant, PTL

\* A coupon's count is its uses and stays within its limit.
THEOREM CouponLimitHolds == Spec => []CouponWithinLimit
<1>1. IInv => CouponWithinLimit
  BY DEF IInv, UsesMatch, CouponWithinLimit, Placed
<1> QED
  BY <1>1, Invariant, PTL

\* A code confirms at most one order, and is marked used only by one.
THEOREM CodesAreUsedOnce == Spec => []CodeUsedOnce
<1>1. ASSUME IInv PROVE CodeUsedOnce
  <2>1. SUFFICES ASSUME NEW k \in DOMAIN otps
                 PROVE  Cardinality({i \in Placed : orders[i].otp = k})
                          = IF otps[k].verified THEN 1 ELSE 0
    BY DEF CodeUsedOnce
  <2>2. CodesMatch /\ k # 0
    BY <1>1 DEF IInv, TypeOK
  <2> DEFINE S == {i \in Placed : orders[i].otp = k}
  <2>3. CASE otps[k].verified
    <3>1. PICK i \in DOMAIN orders : orders[i].otp = k
      BY <2>2, <2>3 DEF CodesMatch
    <3>2. S = {i}
      BY <2>2, <3>1 DEF CodesMatch, Placed
    <3>3. Cardinality({i}) = 1
      BY FS_Singleton
    <3> QED
      BY <2>3, <3>2, <3>3
  <2>4. CASE ~otps[k].verified
    <3>1. S = {}
      BY <2>2, <2>4 DEF CodesMatch, Placed
    <3> QED
      BY <2>4, <3>1, FS_EmptySet
  <2> QED
    BY <2>3, <2>4
<1> QED
  BY <1>1, Invariant, PTL

\* Racing requests never try one code more often than the cap.
THEOREM AttemptCapHolds == Spec => []AttemptsWithinCap
<1>1. IInv => AttemptsWithinCap
  BY DEF IInv
<1> QED
  BY <1>1, Invariant, PTL

\* A phone's recent guest orders stay within the limit.
THEOREM GuestLimitHolds == Spec => []GuestOrdersLimited
<1>1. IInv => GuestOrdersLimited
  BY DEF IInv
<1> QED
  BY <1>1, Invariant, PTL

-----------------------------------------------------------------------------
(* Checkout implements OrderBook.                                           *)

\* The commit places the order at one instant.
LEMMA CommitPlaces ==
  ASSUME IInv, NEW r \in Requests, TxCommit(r), req[r].number = Len(orders) + 1
  PROVE  Book!Next
<1>0. PICK q, c : q = req[r] /\ c = q.customer
  OBVIOUS
<1>1. /\ LocksInv(r) /\ q.at = "commit" /\ q.cart \in Carts /\ c = Owner[q.cart]
      /\ q \in Request /\ otps \in Seq(Otp)
  BY <1>0, CommitFacts DEF IInv, TypeOK
<1>2. /\ stock' = [s \in Sizes |-> IF s \in Lines[q.cart] THEN stock[s] - 1 ELSE stock[s]]
      /\ used' = IF q.coupon THEN used + 1 ELSE used
      /\ orders' = Append(orders, NewOrder(r))
  BY <1>0, CommitFacts
<1>3. Lines[q.cart] # {} /\ \A s \in Lines[q.cart] : stock[s] > 0
  BY <1>0, <1>1 DEF LocksInv, RequestInv, LinesInv, AfterLines
<1>4. q.coupon => used < UsageLimit /\ c \notin Guests
  BY <1>0, <1>1 DEF LocksInv, RequestInv, CouponInv, AfterUse
<1>5. IF c \in Trusted THEN q.otp = 0
      ELSE /\ q.otp \in DOMAIN otps /\ otps[q.otp].scope = Scope(c)
           /\ \A i \in DOMAIN orders : orders[i].otp # q.otp
  <2>1. CASE c \in Trusted
    BY <1>0, <1>1, <2>1 DEF LocksInv, RequestInv, TxSteps
  <2>2. CASE c \notin Trusted
    <3>1. q.otp \in DOMAIN otps /\ otps[q.otp].scope = Scope(c)
      BY <1>0, <1>1, <2>2 DEF LocksInv, RequestInv, SentTo, TxSteps
    <3>2. q.otp # 0
      BY <1>1, <3>1
    <3>3. ~otps[q.otp].verified
      BY <1>0, <3>2, CommitFacts
    <3> QED
      BY <2>2, <3>1, <3>2, <3>3 DEF IInv, CodesMatch
  <2> QED
    BY <2>1, <2>2
<1>6. c \in Guests => RecentGuestOrders(Phone[c]) < GuestLimit
  BY <1>0, <1>1 DEF LocksInv, PhoneInv, TxSteps
<1>7. [i \in DOMAIN otps' |-> otps'[i].scope] = [i \in DOMAIN otps |-> otps[i].scope]
  BY CommitOtps
<1>8. NewOrder(r) = [customer |-> Owner[q.cart], cart |-> q.cart, coupon |-> q.coupon,
                     otp |-> q.otp, recent |-> TRUE]
  BY <1>0, <1>1 DEF NewOrder
<1>9. Book!Place(q.cart, q.coupon, q.otp)
  <2> DEFINE sent == [i \in DOMAIN otps |-> otps[i].scope]
  <2>1. IF c \in Trusted THEN q.otp = 0
        ELSE /\ q.otp \in DOMAIN sent /\ sent[q.otp] = Scope(c)
             /\ \A i \in DOMAIN orders : orders[i].otp # q.otp
    BY <1>5
  <2>2. /\ q.coupon => used < UsageLimit /\ Owner[q.cart] \notin Guests
        /\ Owner[q.cart] \in Guests => RecentGuestOrders(Phone[Owner[q.cart]]) < GuestLimit
    BY <1>1, <1>4, <1>6
  <2>3. Book!Scope(c) = Scope(c) /\ Book!RecentGuestOrders(Phone[c]) = RecentGuestOrders(Phone[c])
    <3>1. Book!Scope(c) = Scope(c)
      BY DEF Book!Scope, Scope
    <3>2. Book!RecentGuestOrders(Phone[c]) = RecentGuestOrders(Phone[c])
      BY DEF Book!RecentGuestOrders, RecentGuestOrders, Book!Cardinality, Cardinality
    <3> QED
      BY <3>1, <3>2
  <2>4. /\ Lines[q.cart] # {} /\ \A s \in Lines[q.cart] : stock[s] > 0
        /\ q.coupon => used < UsageLimit /\ Owner[q.cart] \notin Guests
        /\ IF Owner[q.cart] \in Trusted THEN q.otp = 0
           ELSE /\ q.otp \in DOMAIN sent /\ sent[q.otp] = Book!Scope(Owner[q.cart])
                /\ \A i \in DOMAIN orders : orders[i].otp # q.otp
        /\ Owner[q.cart] \in Guests => Book!RecentGuestOrders(Phone[Owner[q.cart]]) < GuestLimit
    BY <1>1, <1>3, <2>1, <2>2, <2>3
  <2>5. /\ stock' = [s \in Sizes |-> IF s \in Lines[q.cart] THEN stock[s] - 1 ELSE stock[s]]
        /\ used' = IF q.coupon THEN used + 1 ELSE used
        /\ orders' = Append(orders, [customer |-> Owner[q.cart], cart |-> q.cart,
                                     coupon |-> q.coupon, otp |-> q.otp, recent |-> TRUE])
    BY <1>2, <1>8
  <2> HIDE DEF sent
  <2> QED
    BY <1>7, <2>4, <2>5 DEF Book!Place, sent
<1>10. q.coupon \in BOOLEAN /\ q.otp \in 0 .. Len([i \in DOMAIN otps |-> otps[i].scope])
  <2>1. q.coupon \in BOOLEAN
    BY <1>1 DEF Request
  <2>2. DOMAIN otps = 1 .. Len(otps) /\ Len(otps) \in Nat
    BY <1>1
  <2>3. Len([i \in DOMAIN otps |-> otps[i].scope]) = Len(otps)
    BY <2>2
  <2> QED
    BY <1>5, <2>1, <2>2, <2>3
<1> QED
  BY <1>1, <1>9, <1>10 DEF Book!Next

\* A new code is a code sent.
LEMMA SendSends ==
  ASSUME IInv, NEW r \in Requests, SendCode(r)
  PROVE  Book!Next
<1>0. PICK c : c = req[r].customer
  OBVIOUS
<1> DEFINE old == [i \in DOMAIN otps |->
                     IF i \in Pending(Scope(c)) THEN [otps[i] EXCEPT !.live = FALSE] ELSE otps[i]]
           new == [scope |-> Scope(c), attempts |-> 0, verified |-> FALSE, live |-> TRUE,
                   fresh |-> TRUE]
           sent == [i \in DOMAIN otps |-> otps[i].scope]
<1>1. otps \in Seq(Otp) /\ LocksInv(r) /\ req[r].at = "send"
  BY DEF IInv, TypeOK, SendCode, At
<1>2. c \in Customers
  BY <1>0, <1>1 DEF LocksInv, RequestInv, CheckoutAssumption
<1>3. otps' = Append(old, new) /\ UNCHANGED <<stock, used, orders>>
  BY <1>0 DEF SendCode
<1>4. \A i \in DOMAIN otps : old[i].scope = otps[i].scope
  <2>1. \A i \in DOMAIN otps : otps[i] \in Otp
    BY <1>1
  <2> QED
    BY <2>1 DEF Otp
<1>5. DOMAIN old = 1 .. Len(otps) /\ DOMAIN otps = 1 .. Len(otps) /\ Len(otps) \in Nat
      /\ old = [i \in 1 .. Len(otps) |-> old[i]]
  BY <1>1
<1> HIDE DEF old
<1>6. /\ DOMAIN otps' = 1 .. Len(otps) + 1
      /\ \A i \in 1 .. Len(otps) : otps'[i] = old[i]
      /\ otps'[Len(otps) + 1] = new
  BY <1>3, <1>5
<1>7. [i \in DOMAIN otps' |-> otps'[i].scope] = Append(sent, Scope(c))
  <2>1. Append(sent, Scope(c)) =
          [i \in 1 .. Len(otps) + 1 |-> IF i = Len(otps) + 1 THEN Scope(c) ELSE sent[i]]
    BY <1>5
  <2> QED
    BY <1>4, <1>5, <1>6, <2>1
<1>8. Book!Send(c)
  BY <1>3, <1>7 DEF Book!Send, Book!Scope, Scope
<1> QED
  BY <1>2, <1>8 DEF Book!Next

\* Every other step but an order's ageing leaves the book alone.
LEMMA OtherStutters ==
  ASSUME IInv, UNCHANGED <<stock, used, orders>>, DOMAIN otps' = DOMAIN otps,
         \A i \in DOMAIN otps : otps'[i].scope = otps[i].scope
  PROVE  UNCHANGED Book!vars
<1>1. [i \in DOMAIN otps' |-> otps'[i].scope] = [i \in DOMAIN otps |-> otps[i].scope]
  OBVIOUS
<1> QED
  BY <1>1 DEF Book!vars

\* These steps keep each code where it is and whose it is.
LEMMA CodesKept ==
  ASSUME IInv,
         \/ otps' = otps
         \/ \E r \in Requests : TryCode(r)
         \/ \E i \in DOMAIN otps : CodeExpires(i) \/ CooldownEnds(i)
  PROVE  DOMAIN otps' = DOMAIN otps /\ \A i \in DOMAIN otps : otps'[i].scope = otps[i].scope
<1>1. otps \in Seq(Otp) /\ \A i \in DOMAIN otps : otps[i] \in Otp
  BY DEF IInv, TypeOK
<1>2. CASE otps' = otps
  BY <1>2
<1>3. ASSUME NEW r \in Requests, TryCode(r)
      PROVE  DOMAIN otps' = DOMAIN otps /\ \A i \in DOMAIN otps : otps'[i].scope = otps[i].scope
  <2> DEFINE j == req[r].otp
  <2>1. otps' = otps \/ otps' = [otps EXCEPT ![j] = [otps[j] EXCEPT !.attempts = @ + 1]]
    BY <1>3 DEF TryCode
  <2>2. j \in DOMAIN otps => [otps[j] EXCEPT !.attempts = @ + 1].scope = otps[j].scope
    BY <1>1 DEF Otp
  <2> QED
    BY <1>1, <2>1, <2>2
<1>4. ASSUME NEW i \in DOMAIN otps, CodeExpires(i) \/ CooldownEnds(i)
      PROVE  DOMAIN otps' = DOMAIN otps /\ \A j \in DOMAIN otps : otps'[j].scope = otps[j].scope
  <2> DEFINE x == [otps[i] EXCEPT !.live = FALSE, !.fresh = FALSE]
             y == [otps[i] EXCEPT !.fresh = FALSE]
  <2>1. otps' = [otps EXCEPT ![i] = x] \/ otps' = [otps EXCEPT ![i] = y]
    BY <1>1, <1>4 DEF CodeExpires, CooldownEnds, Otp
  <2>2. x.scope = otps[i].scope /\ y.scope = otps[i].scope
    BY <1>1 DEF Otp
  <2> HIDE DEF x, y
  <2> QED
    BY <1>1, <2>1, <2>2
<1> QED
  BY <1>2, <1>3, <1>4

\* Before its commit a transaction writes nothing anyone else can see.
LEMMA ServeStutters ==
  ASSUME NEW r \in Requests, Serve(r), ~SendCode(r), ~TryCode(r), ~TxCommit(r)
  PROVE  UNCHANGED db
<1>1. CASE AskForCode(r) \/ FindCode(r) \/ TxGuest(r) \/ TxOtp(r)
  BY <1>1 DEF AskForCode, FindCode, TxGuest, TxOtp, Rollback
<1>2. CASE \E s \in Sizes : TxSize(r, s)
  BY <1>2 DEF TxSize, Rollback
<1>3. CASE TxProduct(r) \/ TxCount(r) \/ TxUse(r) \/ TxNumber(r) \/ Deadlock(r)
  BY <1>3 DEF TxProduct, TxCount, TxUse, TxNumber, Deadlock, Rollback
<1> QED
  BY <1>1, <1>2, <1>3 DEF Serve

\* Every step is a step of the order book or a stutter.
LEMMA StepImplements == IInv /\ [Next]_vars => [Book!Next]_Book!vars
<1> SUFFICES ASSUME IInv, [Next]_vars PROVE Book!Next \/ UNCHANGED Book!vars
  OBVIOUS
<1>1. ASSUME NEW r \in Requests, SendCode(r) PROVE Book!Next
  BY <1>1, SendSends
<1>2. ASSUME NEW r \in Requests, TryCode(r) PROVE UNCHANGED Book!vars
  <2>1. UNCHANGED <<stock, used, orders>>
    BY <1>2 DEF TryCode
  <2> QED
    BY <1>2, <2>1, CodesKept, OtherStutters
<1>3. ASSUME NEW r \in Requests, TxCommit(r) PROVE Book!Next \/ UNCHANGED Book!vars
  <2>1. CASE req[r].number = Len(orders) + 1
    BY <1>3, <2>1, CommitPlaces
  <2>2. CASE req[r].number # Len(orders) + 1
    <3>1. UNCHANGED db
      BY <1>3, <2>2 DEF TxCommit, Rollback
    <3> QED
      BY <3>1, CodesKept, OtherStutters DEF db
  <2> QED
    BY <2>1, <2>2
<1>4. ASSUME NEW r \in Requests, Serve(r), ~SendCode(r), ~TryCode(r), ~TxCommit(r)
      PROVE  UNCHANGED Book!vars
  <2>1. UNCHANGED db
    BY <1>4, ServeStutters
  <2> QED
    BY <2>1, CodesKept, OtherStutters DEF db
<1>5. ASSUME NEW r \in Requests, NEW c \in Customers, NEW cart \in Carts,
             NEW code \in {0, Len(otps), Len(otps) + 1}, Submit(r, c, cart, code)
      PROVE  UNCHANGED Book!vars
  <2>1. UNCHANGED db
    BY <1>5 DEF Submit
  <2> QED
    BY <2>1, CodesKept, OtherStutters DEF db
<1>6. ASSUME NEW c \in Customers, NEW cart \in Carts, UnlinkCoupon(c, cart)
      PROVE  UNCHANGED Book!vars
  <2>1. UNCHANGED <<stock, used, orders, otps>>
    BY <1>6 DEF UnlinkCoupon
  <2> QED
    BY <2>1, CodesKept, OtherStutters
<1>7. ASSUME NEW i \in DOMAIN otps, CodeExpires(i) \/ CooldownEnds(i) PROVE UNCHANGED Book!vars
  <2>1. UNCHANGED <<stock, used, orders>>
    BY <1>7 DEF CodeExpires, CooldownEnds
  <2> QED
    BY <1>7, <2>1, CodesKept, OtherStutters
<1>8. ASSUME NEW i \in DOMAIN orders, OrderAges(i) PROVE Book!Next
  <2>1. Book!Age(i)
    <3>1. UNCHANGED [k \in DOMAIN otps |-> otps[k].scope]
      BY <1>8 DEF OrderAges
    <3> QED
      BY <1>8, <3>1 DEF OrderAges, Book!Age
  <2> QED
    BY <2>1 DEF Book!Next
<1>9. CASE CouponCloses
  <2>1. UNCHANGED <<stock, used, orders, otps>>
    BY <1>9 DEF CouponCloses
  <2> QED
    BY <2>1, CodesKept, OtherStutters
<1>10. CASE UNCHANGED vars
  <2>1. UNCHANGED <<stock, used, orders, otps>>
    BY <1>10 DEF vars
  <2> QED
    BY <2>1, CodesKept, OtherStutters
<1> QED
  BY <1>1, <1>2, <1>3, <1>4, <1>5, <1>6, <1>7, <1>8, <1>9, <1>10 DEF Next

\* However many submissions interleave, the committed rows go through a history
\* of the order book: createOrder's transaction is as good as one instant.
THEOREM CheckoutImplementsOrderBook == Spec => OrdersAreAtomic
<1>1. Init => Book!Init
  <2>1. SUFFICES ASSUME Init PROVE Book!Init
    OBVIOUS
  <2>2. otps = <<>> /\ stock = InitialStock /\ used = 0 /\ orders = <<>>
    BY <2>1 DEF Init
  <2>3. [i \in DOMAIN otps |-> otps[i].scope] = <<>>
    BY <2>2
  <2> QED
    BY <2>2, <2>3 DEF Book!Init
<1> QED
  BY <1>1, Invariant, StepImplements, PTL DEF Spec, OrdersAreAtomic, Book!Spec

-----------------------------------------------------------------------------
(* Among carts with a product in common perUserLimit holds: a transaction   *)
(* keeps its products' rows until it ends, so nobody places such an order   *)
(* between its count and its commit.                                        *)

\* The lines it is done with hold their products' rows as well.
ProductsInv(r) ==
  LET q == req[r] IN
  /\ q.at \in {"size", "product"} =>
       \A s \in Lines[q.cart] \ q.todo : <<"product", Product[s]>> \in held[r]
  /\ q.at \in AfterLines => \A s \in Lines[q.cart] : <<"product", Product[s]>> \in held[r]

\* The customer's uses of the coupon on carts with a product of this one.
SharingUses(c, cart) ==
  {i \in Uses(c) : Products(orders[i].cart) \cap Products(cart) # {}}

\* What the count found stays true of them.
CountInv(r) ==
  LET q == req[r] IN
  q.at \in {"use"} \cup AfterUse /\ q.coupon =>
    Cardinality(SharingUses(q.customer, q.cart)) < PerUserLimit

\* The invariant, on top of IInv.
UserLimitInv ==
  /\ \A r \in Requests : ProductsInv(r) /\ CountInv(r)
  /\ PerUserLimitOnSharedProducts

\* No order changed whose it is, what it is of or how it was paid.
SameOrders ==
  /\ DOMAIN orders' = DOMAIN orders
  /\ \A i \in DOMAIN orders : /\ orders'[i].customer = orders[i].customer
                              /\ orders'[i].cart = orders[i].cart
                              /\ orders'[i].coupon = orders[i].coupon

\* ... so the customers' uses are the same.
LEMMA SameUses ==
  ASSUME SameOrders
  PROVE  /\ \A c : Uses(c)' = Uses(c)
         /\ \A c, cart : SharingUses(c, cart)' = SharingUses(c, cart)
         /\ PerUserLimitOnSharedProducts => PerUserLimitOnSharedProducts'
<1>1. \A c : Uses(c)' = Uses(c)
  BY DEF SameOrders, Uses
<1>2. \A c : Uses(c) \subseteq DOMAIN orders
  BY DEF Uses
<1>3. \A i \in DOMAIN orders : orders'[i].cart = orders[i].cart
  BY DEF SameOrders
<1>4. ASSUME NEW c, NEW cart PROVE SharingUses(c, cart)' = SharingUses(c, cart)
  <2>1. SharingUses(c, cart)' = {i \in Uses(c) : Products(orders'[i].cart) \cap Products(cart) # {}}
    BY <1>1 DEF SharingUses
  <2>2. \A i \in Uses(c) : orders'[i].cart = orders[i].cart
    BY <1>2, <1>3
  <2> QED
    BY <2>1, <2>2 DEF SharingUses
<1>5. ASSUME PerUserLimitOnSharedProducts PROVE PerUserLimitOnSharedProducts'
  <2>1. SUFFICES ASSUME NEW c \in Customers, NEW S \in SUBSET Uses(c),
                        \A i, j \in S : Products(orders'[i].cart) \cap Products(orders'[j].cart) # {}
                 PROVE  Cardinality(S) <= PerUserLimit
    BY <1>1 DEF PerUserLimitOnSharedProducts, Products
  <2>2. \A i \in S : orders'[i].cart = orders[i].cart
    BY <1>2, <1>3
  <2> QED
    BY <1>5, <2>1, <2>2 DEF PerUserLimitOnSharedProducts
<1> QED
  BY <1>1, <1>4, <1>5

\* A request that did not move keeps what it has established.
LEMMA UntouchedKeeps ==
  ASSUME NEW q \in Requests, ProductsInv(q), CountInv(q), req'[q] = req[q], held'[q] = held[q],
         SharingUses(req[q].customer, req[q].cart)' = SharingUses(req[q].customer, req[q].cart)
  PROVE  ProductsInv(q)' /\ CountInv(q)'
<1>1. ProductsInv(q)'
  BY DEF ProductsInv
<1>2. CountInv(q)'
  BY DEF CountInv
<1> QED
  BY <1>1, <1>2

\* A step of one request that places no order.
LEMMA QuietStep ==
  ASSUME IInv, UserLimitInv, NEW r \in Requests, SameOrders,
         \A q \in Requests \ {r} : req'[q] = req[q] /\ held'[q] = held[q],
         ProductsInv(r)' /\ CountInv(r)'
  PROVE  UserLimitInv'
<1>1. \A q \in Requests \ {r} : ProductsInv(q)' /\ CountInv(q)'
  BY SameUses, UntouchedKeeps DEF UserLimitInv
<1>2. PerUserLimitOnSharedProducts'
  BY SameUses DEF UserLimitInv
<1> QED
  BY <1>1, <1>2 DEF UserLimitInv

\* Before the lines and after the end there is nothing to keep.
LEMMA EarlyKeeps ==
  ASSUME NEW r \in Requests, req'[r].at \notin {"size", "product"} \cup AfterLines
  PROVE  ProductsInv(r)' /\ CountInv(r)'
  BY DEF ProductsInv, CountInv, AfterLines, AfterUse

\* The requests that a step writes.
LEMMA OneMoves ==
  ASSUME IInv, NEW r \in Requests, Serve(r)
  PROVE  \A q \in Requests \ {r} : req'[q] = req[q] /\ held'[q] = held[q]
<1>1. req \in [Requests -> Request] /\ held \in [Requests -> SUBSET Resource]
  BY DEF IInv, TypeOK
<1>2. ASSUME Answer(r) PROVE \A q \in Requests \ {r} : req'[q] = req[q] /\ held'[q] = held[q]
  BY <1>1, <1>2 DEF Answer
<1>3. ASSUME Rollback(r) PROVE \A q \in Requests \ {r} : req'[q] = req[q] /\ held'[q] = held[q]
  BY <1>1, <1>3 DEF Rollback
<1>4. ASSUME NEW step, Goto(r, step), UNCHANGED held
      PROVE  \A q \in Requests \ {r} : req'[q] = req[q] /\ held'[q] = held[q]
  BY <1>1, <1>4 DEF Goto
<1>5. CASE AskForCode(r) \/ SendCode(r) \/ TryCode(r)
  BY <1>2, <1>4, <1>5 DEF AskForCode, SendCode, TryCode
<1>6. CASE FindCode(r)
  BY <1>1, <1>2, <1>6 DEF FindCode
<1>7. CASE TxGuest(r) \/ TxCount(r) \/ TxUse(r) \/ Deadlock(r)
  BY <1>1, <1>3, <1>7 DEF TxGuest, TxCount, TxUse, Deadlock, Goto, Lock, db
<1>8. CASE TxOtp(r)
  BY <1>1, <1>3, <1>8 DEF TxOtp, Lock
<1>9. ASSUME NEW s \in Sizes, TxSize(r, s)
      PROVE  \A q \in Requests \ {r} : req'[q] = req[q] /\ held'[q] = held[q]
  BY <1>1, <1>3, <1>9 DEF TxSize, Lock
<1>10. CASE TxProduct(r) \/ TxNumber(r)
  BY <1>1, <1>10 DEF TxProduct, TxNumber, Lock
<1>11. CASE TxCommit(r)
  BY <1>1, <1>3, <1>11 DEF TxCommit
<1> QED
  BY <1>5, <1>6, <1>7, <1>8, <1>9, <1>10, <1>11 DEF Serve

\* A request that ends owes nothing.
LEMMA EndKeeps ==
  ASSUME IInv, NEW r \in Requests, req' = [req EXCEPT ![r] = Idle]
  PROVE  ProductsInv(r)' /\ CountInv(r)'
<1>1. req'[r].at = "idle"
  BY DEF IInv, TypeOK, Idle
<1> QED
  BY <1>1, EarlyKeeps DEF AfterLines

\* Up to the lines.
LEMMA EarlySteps ==
  ASSUME IInv, NEW r \in Requests,
         AskForCode(r) \/ SendCode(r) \/ FindCode(r) \/ TryCode(r) \/ TxGuest(r) \/ Deadlock(r)
  PROVE  ProductsInv(r)' /\ CountInv(r)'
<1>1. CASE req' = [req EXCEPT ![r] = Idle]
  BY <1>1, EndKeeps
<1>2. CASE req' # [req EXCEPT ![r] = Idle]
  <2>1. req \in [Requests -> Request] /\ req[r] \in Request
    BY DEF IInv, TypeOK
  <2>2. req'[r].at \in {"send", "attempt", "guest", "otp"}
    BY <1>2, <2>1 DEF AskForCode, SendCode, FindCode, TryCode, TxGuest, Deadlock, Rollback,
                      Answer, Goto, Request
  <2> QED
    BY <2>2, EarlyKeeps DEF AfterLines
<1> QED
  BY <1>1, <1>2

\* The lines begin: all of them are still to do.
LEMMA OtpKeeps ==
  ASSUME IInv, NEW r \in Requests, TxOtp(r)
  PROVE  ProductsInv(r)' /\ CountInv(r)'
<1>1. CASE req' = [req EXCEPT ![r] = Idle]
  BY <1>1, EndKeeps
<1>2. CASE req' # [req EXCEPT ![r] = Idle]
  <2>1. req \in [Requests -> Request] /\ req[r] \in Request
    BY DEF IInv, TypeOK
  <2>2. req'[r].at = "size" /\ req'[r].todo = Lines[req[r].cart] /\ req'[r].cart = req[r].cart
    BY <1>2, <2>1 DEF TxOtp, Rollback, Request
  <2> QED
    BY <2>2 DEF ProductsInv, CountInv, AfterLines, AfterUse
<1> QED
  BY <1>1, <1>2

\* A size is taken off the stock: no line is done yet.
LEMMA SizeKeeps ==
  ASSUME IInv, NEW r \in Requests, NEW s \in Sizes, TxSize(r, s), ProductsInv(r)
  PROVE  ProductsInv(r)' /\ CountInv(r)'
<1>1. CASE req' = [req EXCEPT ![r] = Idle]
  BY <1>1, EndKeeps
<1>2. CASE req' # [req EXCEPT ![r] = Idle]
  <2>1. req \in [Requests -> Request] /\ req[r] \in Request /\ held \in [Requests -> SUBSET Resource]
    BY DEF IInv, TypeOK
  <2>2. /\ req'[r].at = "product" /\ req'[r].todo = req[r].todo /\ req'[r].cart = req[r].cart
        /\ held[r] \subseteq held'[r] /\ req[r].at = "size"
    BY <1>2, <2>1 DEF TxSize, Rollback, Request, Lock, At
  <2> QED
    BY <2>2 DEF ProductsInv, CountInv, AfterLines, AfterUse
<1> QED
  BY <1>1, <1>2

\* A line is done when its product's row is held.
LEMMA ProductKeeps ==
  ASSUME IInv, NEW r \in Requests, TxProduct(r), ProductsInv(r)
  PROVE  ProductsInv(r)' /\ CountInv(r)'
<1> DEFINE s == req[r].size
           rest == req[r].todo \ {s}
<1>1. req \in [Requests -> Request] /\ req[r] \in Request /\ held \in [Requests -> SUBSET Resource]
  BY DEF IInv, TypeOK
<1>2. /\ req'[r].todo = rest /\ req'[r].cart = req[r].cart /\ req'[r].coupon = req[r].coupon
      /\ req'[r].at = IF rest # {} THEN "size" ELSE IF req[r].coupon THEN "count" ELSE "number"
      /\ held'[r] = held[r] \cup {<<"product", Product[s]>>} /\ req[r].at = "product"
  BY <1>1 DEF TxProduct, Request, Lock, At
<1>3. \A t \in Lines[req[r].cart] \ rest : <<"product", Product[t]>> \in held'[r]
  BY <1>2 DEF ProductsInv
<1>4. ProductsInv(r)'
  BY <1>2, <1>3 DEF ProductsInv, AfterLines
<1>5. CountInv(r)'
  BY <1>2 DEF CountInv, AfterUse
<1> QED
  BY <1>4, <1>5

\* The count: uses on carts with a product in common are uses.
LEMMA CountKeeps ==
  ASSUME IInv, NEW r \in Requests, TxCount(r), ProductsInv(r)
  PROVE  ProductsInv(r)' /\ CountInv(r)'
<1>1. CASE req' = [req EXCEPT ![r] = Idle]
  BY <1>1, EndKeeps
<1>2. CASE req' # [req EXCEPT ![r] = Idle]
  <2>1. /\ req \in [Requests -> Request] /\ req[r] \in Request /\ orders \in Seq(Order)
        /\ PerUserLimit \in Nat
    BY DEF IInv, TypeOK, CheckoutAssumption
  <2>2. /\ req'[r].at = "use" /\ req'[r].customer = req[r].customer /\ req'[r].cart = req[r].cart
        /\ held'[r] = held[r] /\ orders' = orders /\ req[r].at = "count"
        /\ ~(Cardinality(Uses(req[r].customer)) >= PerUserLimit)
    BY <1>2, <2>1 DEF TxCount, Rollback, Request, Goto, At, db
  <2> DEFINE U == Uses(req[r].customer)
             V == SharingUses(req[r].customer, req[r].cart)
  <2>3. U \in SUBSET DOMAIN orders /\ V \subseteq U
    BY DEF Uses, SharingUses
  <2>4. Cardinality(V) <= Cardinality(U) /\ Cardinality(V) \in Nat /\ Cardinality(U) \in Nat
    BY <2>1, <2>3, OrderSets, FS_Subset
  <2>5. Cardinality(V) < PerUserLimit
    BY <2>1, <2>2, <2>4
  <2>6. \A c, cart : SharingUses(c, cart)' = SharingUses(c, cart)
    BY <2>2 DEF SharingUses, Uses, Products
  <2>7. CountInv(r)'
    BY <2>2, <2>5, <2>6 DEF CountInv
  <2>8. ProductsInv(r)'
    BY <2>2 DEF ProductsInv, AfterLines
  <2> QED
    BY <2>7, <2>8
<1> QED
  BY <1>1, <1>2

\* The coupon's row and the number change nothing of it.
LEMMA LateKeeps ==
  ASSUME IInv, NEW r \in Requests, TxUse(r) \/ TxNumber(r), ProductsInv(r), CountInv(r)
  PROVE  ProductsInv(r)' /\ CountInv(r)'
<1>1. CASE req' = [req EXCEPT ![r] = Idle]
  BY <1>1, EndKeeps
<1>2. CASE req' # [req EXCEPT ![r] = Idle]
  <2>1. req \in [Requests -> Request] /\ req[r] \in Request /\ held \in [Requests -> SUBSET Resource]
    BY DEF IInv, TypeOK
  <2>2. /\ req'[r].at \in AfterUse /\ req'[r].cart = req[r].cart
        /\ req'[r].customer = req[r].customer /\ req'[r].coupon = req[r].coupon
        /\ held[r] \subseteq held'[r] /\ orders' = orders /\ req[r].at \in {"use", "number"}
    BY <1>2, <2>1 DEF TxUse, TxNumber, Rollback, Request, Goto, Lock, At, AfterUse, db
  <2>3. ProductsInv(r)'
    BY <2>2 DEF ProductsInv, AfterLines, AfterUse
  <2>4. \A c, cart : SharingUses(c, cart)' = SharingUses(c, cart)
    BY <2>2 DEF SharingUses, Uses, Products
  <2>5. CountInv(r)'
    BY <2>2, <2>4 DEF CountInv, AfterUse
  <2> QED
    BY <2>3, <2>5
<1> QED
  BY <1>1, <1>2

\* An order is placed: for everybody past the count it is on other products,
\* and the customer's own uses on these had room for it.
LEMMA CommitKeeps ==
  ASSUME IInv, UserLimitInv, NEW r \in Requests, TxCommit(r), req[r].number = Len(orders) + 1
  PROVE  UserLimitInv'
<1>0. PICK n, o : n = Len(orders) + 1 /\ o = NewOrder(r)
  OBVIOUS
<1>1. /\ orders \in Seq(Order) /\ o \in Order /\ orders' = Append(orders, o)
      /\ req[r].at = "commit" /\ req' = [req EXCEPT ![r] = Idle]
      /\ o.customer = req[r].customer /\ o.cart = req[r].cart /\ o.coupon = req[r].coupon
      /\ o.coupon \in BOOLEAN /\ Lines[o.cart] \subseteq Sizes
  BY <1>0, CommitFacts DEF NewOrder, Order
<1>2. /\ DOMAIN orders' = DOMAIN orders \cup {n} /\ n \notin DOMAIN orders
      /\ \A i \in DOMAIN orders : orders'[i] = orders[i]
      /\ orders'[n] = o
  BY <1>0, <1>1, AppendedOrder
<1>3. \A c : Uses(c)' = IF o.coupon /\ o.customer = c THEN Uses(c) \cup {n} ELSE Uses(c)
  BY <1>2 DEF Uses
<1>4. ASSUME NEW q \in Requests \ {r} PROVE ProductsInv(q)' /\ CountInv(q)'
  <2>1. req'[q] = req[q] /\ held'[q] = held[q] /\ ProductsInv(q) /\ CountInv(q)
    BY <1>4, OneMoves DEF Serve, UserLimitInv
  <2>2. ProductsInv(q)'
    BY <2>1 DEF ProductsInv
  <2>3. ASSUME req[q].at \in AfterLines
        PROVE  SharingUses(req[q].customer, req[q].cart)'
                 = SharingUses(req[q].customer, req[q].cart)
    <3>1. \A s \in Lines[req[q].cart] : <<"product", Product[s]>> \in held[q]
      BY <2>1, <2>3 DEF ProductsInv
    <3>2. \A s \in Lines[o.cart] : <<"product", Product[s]>> \in held[r]
      BY <1>1 DEF UserLimitInv, ProductsInv, AfterLines
    <3>3. held[q] \cap held[r] = {}
      BY DEF IInv, Exclusive
    <3>4. Products(o.cart) \cap Products(req[q].cart) = {}
      BY <3>1, <3>2, <3>3 DEF Products
    <3>5. \A i \in Uses(req[q].customer) : i \in DOMAIN orders
      BY DEF Uses
    <3> QED
      BY <1>2, <1>3, <2>1, <3>4, <3>5 DEF SharingUses, Products
  <2>4. CountInv(q)'
    BY <2>1, <2>3 DEF CountInv, AfterLines, AfterUse
  <2> QED
    BY <2>2, <2>4
<1>5. ProductsInv(r)' /\ CountInv(r)'
  BY <1>1, EndKeeps
<1>6. PerUserLimitOnSharedProducts'
  <2>1. SUFFICES ASSUME NEW c \in Customers, NEW S, S \subseteq Uses(c)',
                        \A i, j \in S : Products(orders'[i].cart) \cap Products(orders'[j].cart) # {}
                 PROVE  Cardinality(S) <= PerUserLimit
    BY DEF PerUserLimitOnSharedProducts, Products
  <2>2. Uses(c) \subseteq DOMAIN orders
    BY DEF Uses
  <2>3. CASE n \notin S
    <3>1. S \in SUBSET Uses(c)
      BY <1>3, <2>1, <2>3
    <3>2. \A i, j \in S : Products(orders[i].cart) \cap Products(orders[j].cart) # {}
      BY <1>2, <2>1, <2>2, <3>1
    <3> QED
      BY <3>1, <3>2 DEF UserLimitInv, PerUserLimitOnSharedProducts
  <2>4. CASE n \in S
    <3>1. o.coupon /\ o.customer = c
      BY <1>2, <1>3, <2>1, <2>2, <2>4
    <3> DEFINE T == S \ {n}
               V == SharingUses(c, o.cart)
    <3>2. T \subseteq Uses(c)
      BY <1>3, <2>1
    <3>3. \A i \in T : Products(orders[i].cart) \cap Products(o.cart) # {}
      BY <1>2, <2>1, <2>2, <2>4, <3>2
    <3>4. T \subseteq V
      BY <3>2, <3>3 DEF SharingUses
    <3>5. V \in SUBSET DOMAIN orders /\ T \in SUBSET DOMAIN orders
      BY <2>2, <3>2 DEF SharingUses
    <3>6. Cardinality(V) < PerUserLimit
      BY <1>1, <3>1 DEF UserLimitInv, CountInv, AfterUse
    <3> HIDE DEF V
    <3>7. IsFiniteSet(V) /\ Cardinality(V) \in Nat
      BY <1>1, <3>5, OrderSets
    <3>8. IsFiniteSet(T) /\ Cardinality(T) \in Nat
      BY <1>1, <3>5, OrderSets
    <3>9. Cardinality(T) <= Cardinality(V)
      BY <3>4, <3>7, FS_Subset
    <3>10. Cardinality(T \cup {n}) = Cardinality(T) + 1
      BY <3>8, FS_AddElement
    <3>11. S = T \cup {n}
      BY <2>4
    <3>12. PerUserLimit \in Nat
      BY DEF CheckoutAssumption
    <3> HIDE DEF T
    <3> QED
      BY <3>6, <3>7, <3>8, <3>9, <3>10, <3>11, <3>12
  <2> QED
    BY <2>3, <2>4
<1> QED
  BY <1>4, <1>5, <1>6 DEF UserLimitInv

\* Every step keeps the limit on shared products.
LEMMA UserLimitStep == IInv /\ UserLimitInv /\ [Next]_vars => UserLimitInv'
<1> SUFFICES ASSUME IInv, UserLimitInv, [Next]_vars PROVE UserLimitInv'
  OBVIOUS
<1>1. ASSUME NEW r \in Requests, TxCommit(r) PROVE UserLimitInv'
  <2>1. CASE req[r].number = Len(orders) + 1
    BY <1>1, <2>1, CommitKeeps
  <2>2. CASE req[r].number # Len(orders) + 1
    <3>1. SameOrders /\ req' = [req EXCEPT ![r] = Idle]
      BY <1>1, <2>2 DEF TxCommit, Rollback, db, SameOrders
    <3>2. \A q \in Requests \ {r} : req'[q] = req[q] /\ held'[q] = held[q]
      BY <1>1, OneMoves DEF Serve
    <3> QED
      BY <3>1, <3>2, EndKeeps, QuietStep
  <2> QED
    BY <2>1, <2>2
<1>2. ASSUME NEW r \in Requests, Serve(r), ~TxCommit(r) PROVE UserLimitInv'
  <2>1. ProductsInv(r) /\ CountInv(r)
    BY DEF UserLimitInv
  <2>2. SameOrders
    <3>1. CASE SendCode(r) \/ TryCode(r)
      BY <3>1 DEF SendCode, TryCode, SameOrders
    <3>2. CASE ~SendCode(r) /\ ~TryCode(r)
      BY <1>2, <3>2, ServeStutters DEF db, SameOrders
    <3> QED
      BY <3>1, <3>2
  <2>3. ProductsInv(r)' /\ CountInv(r)'
    BY <1>2, <2>1, EarlySteps, OtpKeeps, SizeKeeps, ProductKeeps, CountKeeps, LateKeeps DEF Serve
  <2>4. \A q \in Requests \ {r} : req'[q] = req[q] /\ held'[q] = held[q]
    BY <1>2, OneMoves
  <2> QED
    BY <2>2, <2>3, <2>4, QuietStep
<1>3. ASSUME NEW r \in Requests, NEW c \in Customers, NEW cart \in Carts, NEW code,
             Submit(r, c, cart, code)
      PROVE  UserLimitInv'
  <2>1. req \in [Requests -> Request]
    BY DEF IInv, TypeOK
  <2>2. SameOrders
    BY <1>3 DEF Submit, db, SameOrders
  <2>3. \A q \in Requests \ {r} : req'[q] = req[q] /\ held'[q] = held[q]
    BY <1>3, <2>1 DEF Submit
  <2>4. req'[r].at \in {"guest", "ask", "find"}
    BY <1>3, <2>1 DEF Submit
  <2> QED
    BY <2>2, <2>3, <2>4, EarlyKeeps, QuietStep DEF AfterLines
<1>4. ASSUME UNCHANGED <<req, held>>, SameOrders PROVE UserLimitInv'
  <2>1. \A q \in Requests : ProductsInv(q)' /\ CountInv(q)'
    BY <1>4, SameUses, UntouchedKeeps DEF UserLimitInv
  <2>2. PerUserLimitOnSharedProducts'
    BY <1>4, SameUses DEF UserLimitInv
  <2> QED
    BY <2>1, <2>2 DEF UserLimitInv
<1>5. ASSUME NEW i \in DOMAIN orders, OrderAges(i) PROVE UserLimitInv'
  <2>1. orders \in Seq(Order) /\ orders' = [orders EXCEPT ![i].recent = FALSE]
    BY <1>5 DEF OrderAges, IInv, TypeOK
  <2>2. orders[i] \in Order
    BY <2>1
  <2>3. SameOrders
    BY <2>1, <2>2 DEF SameOrders, Order
  <2> QED
    BY <1>4, <1>5, <2>3 DEF OrderAges
<1>6. ASSUME NEW c \in Customers, NEW cart \in Carts, UnlinkCoupon(c, cart) PROVE UserLimitInv'
  BY <1>4, <1>6 DEF UnlinkCoupon, SameOrders
<1>7. ASSUME NEW i \in DOMAIN otps, CodeExpires(i) \/ CooldownEnds(i) PROVE UserLimitInv'
  BY <1>4, <1>7 DEF CodeExpires, CooldownEnds, SameOrders
<1>8. CASE CouponCloses
  BY <1>4, <1>8 DEF CouponCloses, SameOrders
<1>9. CASE UNCHANGED vars
  BY <1>4, <1>9 DEF vars, SameOrders
<1> QED
  BY <1>1, <1>2, <1>3, <1>5, <1>6, <1>7, <1>8, <1>9 DEF Next

\* Among carts with a product in common a customer uses the coupon no more
\* often than perUserLimit, although it is counted before the order is written.
THEOREM UserLimitHolds == Spec => []PerUserLimitOnSharedProducts
<1>1. ASSUME Init PROVE UserLimitInv
  <2>1. \A r \in Requests : ProductsInv(r) /\ CountInv(r)
    BY <1>1 DEF Init, Idle, ProductsInv, CountInv, AfterLines, AfterUse
  <2>2. \A c \in Customers : Uses(c) = {}
    BY <1>1 DEF Init, Uses
  <2>3. Cardinality({}) = 0 /\ PerUserLimit \in Nat
    BY FS_EmptySet DEF CheckoutAssumption
  <2>4. PerUserLimitOnSharedProducts
    <3>1. SUFFICES ASSUME NEW c \in Customers, NEW S \in SUBSET Uses(c)
                   PROVE  Cardinality(S) <= PerUserLimit
      BY DEF PerUserLimitOnSharedProducts
    <3>2. S = {}
      BY <2>2
    <3> QED
      BY <2>3, <3>2
  <2> QED
    BY <2>1, <2>4 DEF UserLimitInv
<1>2. UserLimitInv => PerUserLimitOnSharedProducts
  BY DEF UserLimitInv
<1> QED
  BY <1>1, <1>2, Invariant, UserLimitStep, PTL DEF Spec

=============================================================================
