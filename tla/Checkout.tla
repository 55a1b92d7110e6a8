------------------------------ MODULE Checkout ------------------------------
(***************************************************************************)
(* Placing an order: createOrder of src/order with the code that confirms  *)
(* a phone (src/common/utils/otp.utils.ts), the stock of the lines and the *)
(* use of a coupon.  Statements before the transaction are steps of their  *)
(* own.  The transaction runs at READ COMMITTED: each of its statements is *)
(* a step that sees what is committed, a row written is locked until the   *)
(* end (held), and the writes become visible together in TxCommit.  A line *)
(* is one piece of a size; prices and fees only decide whether a request   *)
(* is turned away.                                                         *)
(***************************************************************************)
EXTENDS Naturals, Sequences, FiniteSets

CONSTANTS
  Requests,         \* submissions the server can be serving at once
  Customers,        \* accounts, and visitors without one
  Guests,           \* ... the visitors
  Trusted,          \* the accounts that order to the phone on their profile
  Phones,           \* phone numbers
  Phone,            \* where each customer orders to
  Carts,            \* cart rows
  Owner,            \* the customer of a cart
  Sizes,            \* ProductSize rows
  Product,          \* the Product row of a size
  Lines,            \* the sizes in a cart
  InitialStock,     \* ProductSize.quantity before any order
  Discounted,       \* carts the coupon was applied to
  UsageLimit,       \* Coupon.usageLimit
  PerUserLimit,     \* Coupon.perUserLimit
  GuestLimit,       \* guest orders one phone may place in ten minutes
  HourlyLimit,      \* OTP_HOURLY_LIMIT
  MaxAttempts,      \* OTP_MAX_ATTEMPTS
  MaxOrders,        \* bound: orders placed
  None              \* no cart, no customer, no size

ASSUME CheckoutAssumption ==
  /\ Guests \subseteq Customers
  /\ Trusted \subseteq Customers \ Guests
  /\ Phone \in [Customers -> Phones]
  /\ Owner \in [Carts -> Customers]
  /\ Lines \in [Carts -> SUBSET Sizes]
  /\ InitialStock \in [Sizes -> Nat]
  /\ Discounted \subseteq Carts
  /\ {UsageLimit, PerUserLimit, GuestLimit, HourlyLimit, MaxAttempts, MaxOrders} \subseteq Nat
  /\ None \notin Carts \cup Customers \cup Sizes

VARIABLES
  stock,            \* ProductSize.quantity
  used,             \* Coupon.usedCount
  couponOpen,       \* the coupon is active and within its window
  linked,           \* carts with the coupon on them
  active,           \* carts that are ACTIVE
  otps,             \* OTP rows, in the order they were created
  orders,           \* Order rows, in the order they were committed
  req,              \* the request each worker is in the middle of
  held              \* rows and advisory locks each transaction holds

vars == <<stock, used, couponOpen, linked, active, otps, orders, req, held>>

----------------------------------------------------------------------------
(* Rows.                                                                   *)

\* Whose code it is: an account's for one phone, or any guest's for a phone.
Scope(c) == [user |-> IF c \in Guests THEN None ELSE c, phone |-> Phone[c]]

NeedsOtp(c) == c \notin Trusted

Otp == [scope : {Scope(c) : c \in Customers}, attempts : Nat,
        verified : BOOLEAN, live : BOOLEAN, fresh : BOOLEAN]

Order == [customer : Customers, cart : Carts, coupon : BOOLEAN, otp : Nat, recent : BOOLEAN]

\* What a statement may lock.
Resource ==
  ({"phone"} \X Phones) \cup ({"otp"} \X Nat) \cup ({"size"} \X Sizes)
  \cup ({"product"} \X {Product[s] : s \in Sizes}) \cup {<<"coupon", "coupon">>}

Coupon == <<"coupon", "coupon">>

TxSteps == {"otp", "size", "product", "count", "use", "number", "commit"}
Steps == {"idle", "ask", "send", "find", "attempt", "guest"} \cup TxSteps

\* otp is 0 without a row; code is 0 without a code in the request, and may
\* be the code of no row.
Request ==
  [at : Steps, customer : Customers \cup {None}, cart : Carts \cup {None}, code : Nat,
   coupon : BOOLEAN, otp : Nat, todo : SUBSET Sizes, size : Sizes \cup {None}, number : Nat]

Idle ==
  [at |-> "idle", customer |-> None, cart |-> None, code |-> 0, coupon |-> FALSE,
   otp |-> 0, todo |-> {}, size |-> None, number |-> 0]

TypeOK ==
  /\ stock \in [Sizes -> Nat]
  /\ used \in Nat
  /\ couponOpen \in BOOLEAN
  /\ linked \subseteq Carts
  /\ active \subseteq Carts
  /\ otps \in Seq(Otp)
  /\ orders \in Seq(Order)
  /\ req \in [Requests -> Request]
  /\ held \in [Requests -> SUBSET Resource]

Init ==
  /\ stock = InitialStock
  /\ used = 0
  /\ couponOpen = TRUE
  /\ linked = Discounted
  /\ active \in SUBSET Carts
  /\ otps = <<>>
  /\ orders = <<>>
  /\ req = [r \in Requests |-> Idle]
  /\ held = [r \in Requests |-> {}]

db == <<stock, used, couponOpen, linked, active, otps, orders>>

----------------------------------------------------------------------------
(* How a request moves on.                                                 *)

At(r, step) == req[r].at = step

Goto(r, step) == req' = [req EXCEPT ![r].at = step]

\* The request is answered outside the transaction: with a page or an error.
Answer(r) == req' = [req EXCEPT ![r] = Idle] /\ UNCHANGED held

\* No other transaction has written the row.
Free(r, x) == \A q \in Requests \ {r} : x \notin held[q]

Lock(r, x) == held' = [held EXCEPT ![r] = @ \cup {x}]

\* A statement of the transaction throws: nothing it wrote was ever visible.
Rollback(r) ==
  /\ req' = [req EXCEPT ![r] = Idle]
  /\ held' = [held EXCEPT ![r] = {}]
  /\ UNCHANGED db

\* Guest orders to the phone within the last ten minutes.
RecentGuestOrders(p) ==
  Cardinality({i \in DOMAIN orders :
    orders[i].customer \in Guests /\ Phone[orders[i].customer] = p /\ orders[i].recent})

----------------------------------------------------------------------------
(* Before the transaction.                                                 *)

\* What createOrder refuses at once: a cart that is empty, not ACTIVE or
\* somebody else's.  Such a request, and one for an inactive product or size,
\* without cash on delivery, at a price that rose, with a changed delivery
\* charge or below the coupon's minimum, is answered without changing a row.
MayOrder(c, cart) == Owner[cart] = c /\ cart \in active /\ Lines[cart] # {}

\* A guest may not use a coupon, and nobody may use a closed one.
CouponRefused(c, cart) == cart \in linked /\ (c \in Guests \/ ~couponOpen)

\* ... it comes off the cart, and the request is refused.
UnlinkCoupon(c, cart) ==
  /\ MayOrder(c, cart) /\ CouponRefused(c, cart)
  /\ linked' = linked \ {cart}
  /\ UNCHANGED <<stock, used, couponOpen, active, otps, orders, req, held>>

\* The reads of createOrder up to the code, which find nothing to refuse.  The
\* code is one the customer was sent, or none, or a wrong one.
Submit(r, c, cart, code) ==
  /\ At(r, "idle")
  /\ MayOrder(c, cart) /\ ~CouponRefused(c, cart)
  /\ NeedsOtp(c) \/ code = 0
  /\ code \in DOMAIN otps => otps[code].scope = Scope(c)
  /\ req' = [req EXCEPT ![r] =
       [at |-> IF ~NeedsOtp(c) THEN "guest" ELSE IF code = 0 THEN "ask" ELSE "find",
        customer |-> c, cart |-> cart, code |-> code, coupon |-> cart \in linked,
        otp |-> 0, todo |-> {}, size |-> None, number |-> 0]]
  /\ UNCHANGED <<db, held>>

OfScope(scope) == {i \in DOMAIN otps : otps[i].scope = scope}
ToPhone(p) == {i \in DOMAIN otps : otps[i].scope.phone = p}
Pending(scope) == {i \in OfScope(scope) : ~otps[i].verified}

\* sendOrderOtp and checkOtpSend: no second message within a minute of an
\* unused code, and no more than HourlyLimit in the hour.
AskForCode(r) ==
  LET c == req[r].customer IN
  /\ At(r, "ask")
  /\ IF \/ c \in Guests /\ RecentGuestOrders(Phone[c]) >= GuestLimit
        \/ \E i \in Pending(Scope(c)) : otps[i].fresh /\ otps[i].live
        \/ Cardinality(ToPhone(Phone[c])) >= HourlyLimit
     THEN Answer(r)
     ELSE Goto(r, "send") /\ UNCHANGED held
  /\ UNCHANGED db

\* The codes still pending expire and a new one is sent.
SendCode(r) ==
  LET scope == Scope(req[r].customer) IN
  /\ At(r, "send")
  /\ \A i \in Pending(scope) : Free(r, <<"otp", i>>)
  /\ otps' = Append(
       [i \in DOMAIN otps |-> IF i \in Pending(scope) THEN [otps[i] EXCEPT !.live = FALSE] ELSE otps[i]],
       [scope |-> scope, attempts |-> 0, verified |-> FALSE, live |-> TRUE, fresh |-> TRUE])
  /\ Answer(r)
  /\ UNCHANGED <<stock, used, couponOpen, linked, active, orders>>

\* claimOtp looks up the latest code that can still be tried.
FindCode(r) ==
  LET usable == {i \in Pending(Scope(req[r].customer)) :
                   otps[i].live /\ otps[i].attempts < MaxAttempts}
  IN /\ At(r, "find")
     /\ IF usable = {} THEN Answer(r)
        ELSE \E i \in usable :
               /\ \A j \in usable : j <= i
               /\ req' = [req EXCEPT ![r].at = "attempt", ![r].otp = i]
               /\ UNCHANGED held
     /\ UNCHANGED db

\* ... and counts the attempt, right or wrong, unless the code was used or
\* tried too often meanwhile.
TryCode(r) ==
  LET i == req[r].otp
      open == ~otps[i].verified /\ otps[i].attempts < MaxAttempts
  IN /\ At(r, "attempt")
     /\ Free(r, <<"otp", i>>)
     /\ otps' = IF open THEN [otps EXCEPT ![i].attempts = @ + 1] ELSE otps
     /\ IF open /\ req[r].code = i THEN Goto(r, "guest") /\ UNCHANGED held ELSE Answer(r)
     /\ UNCHANGED <<stock, used, couponOpen, linked, active, orders>>

----------------------------------------------------------------------------
(* The transaction.                                                        *)

\* Fault variant: the recent orders are counted without the lock.
TxGuest_NoLock(r) ==
  LET c == req[r].customer IN
  /\ At(r, "guest")
  /\ IF c \in Guests /\ RecentGuestOrders(Phone[c]) >= GuestLimit
     THEN Rollback(r)
     ELSE Goto(r, "otp") /\ UNCHANGED <<db, held>>

\* One guest order at a time for a phone: the advisory lock, then the count.
TxGuest(r) ==
  LET c == req[r].customer
      lock == <<"phone", Phone[c]>>
  IN /\ At(r, "guest")
     /\ c \in Guests => Free(r, lock)
     /\ IF c \in Guests /\ RecentGuestOrders(Phone[c]) >= GuestLimit
        THEN Rollback(r)
        ELSE /\ IF c \in Guests THEN Lock(r, lock) ELSE UNCHANGED held
             /\ Goto(r, "otp")
             /\ UNCHANGED db

\* Fault variant: the code is marked used whatever happened to it meanwhile.
TxOtp_Unconditional(r) ==
  LET i == req[r].otp IN
  /\ At(r, "otp")
  /\ i # 0 => Free(r, <<"otp", i>>)
  /\ IF i # 0 THEN Lock(r, <<"otp", i>>) ELSE UNCHANGED held
  /\ req' = [req EXCEPT ![r].at = "size", ![r].todo = Lines[req[r].cart]]
  /\ UNCHANGED db

\* The code is marked used, unless another order used it.
TxOtp(r) ==
  LET i == req[r].otp IN
  /\ At(r, "otp")
  /\ i # 0 => Free(r, <<"otp", i>>)
  /\ IF i # 0 /\ otps[i].verified
     THEN Rollback(r)
     ELSE /\ IF i # 0 THEN Lock(r, <<"otp", i>>) ELSE UNCHANGED held
          /\ req' = [req EXCEPT ![r].at = "size", ![r].todo = Lines[req[r].cart]]
          /\ UNCHANGED db

\* recordAdjustment takes a piece of the size off the stock, if there is one.
\* The cart's lines come in no particular order.
TxSize(r, s) ==
  /\ At(r, "size")
  /\ s \in req[r].todo
  /\ Free(r, <<"size", s>>)
  /\ IF stock[s] = 0
     THEN Rollback(r)
     ELSE /\ Lock(r, <<"size", s>>)
          /\ req' = [req EXCEPT ![r].at = "product", ![r].size = s]
          /\ UNCHANGED db

\* ... and off the product's total; after the last line the coupon is next.
TxProduct(r) ==
  LET s == req[r].size
      rest == req[r].todo \ {s}
  IN /\ At(r, "product")
     /\ Free(r, <<"product", Product[s]>>)
     /\ Lock(r, <<"product", Product[s]>>)
     /\ req' = [req EXCEPT ![r].todo = rest, ![r].size = None,
                           ![r].at = IF rest # {} THEN "size"
                                     ELSE IF req[r].coupon THEN "count" ELSE "number"]
     /\ UNCHANGED db

\* Orders of a customer that used the coupon.
Uses(c) == {i \in DOMAIN orders : orders[i].coupon /\ orders[i].customer = c}

\* Fault variant: the customer's earlier orders are never counted.
TxCount_Skipped(r) ==
  /\ At(r, "count")
  /\ Goto(r, "use")
  /\ UNCHANGED <<db, held>>

\* perUserLimit: counted here, enforced by nothing afterwards.
TxCount(r) ==
  /\ At(r, "count")
  /\ IF Cardinality(Uses(req[r].customer)) >= PerUserLimit
     THEN Rollback(r)
     ELSE Goto(r, "use") /\ UNCHANGED <<db, held>>

\* usageLimit: the update that counts the use is conditional on it.
TxUse(r) ==
  /\ At(r, "use")
  /\ Free(r, Coupon)
  /\ IF used >= UsageLimit
     THEN Rollback(r)
     ELSE Lock(r, Coupon) /\ Goto(r, "number") /\ UNCHANGED db

\* generateInvoiceNo counts the invoices there are.
TxNumber(r) ==
  /\ At(r, "number")
  /\ req' = [req EXCEPT ![r].at = "commit", ![r].number = Len(orders) + 1]
  /\ UNCHANGED <<db, held>>

\* Fault variant: a transaction that lost its number tries again with it.
TxCommit_RetriesNumber(r) ==
  LET q == req[r] IN
  /\ At(r, "commit")
  /\ IF q.number # Len(orders) + 1
     THEN UNCHANGED vars
     ELSE /\ stock' = [s \in Sizes |-> IF s \in Lines[q.cart] THEN stock[s] - 1 ELSE stock[s]]
          /\ orders' = Append(orders, [customer |-> q.customer, cart |-> q.cart,
                                       coupon |-> q.coupon, otp |-> q.otp, recent |-> TRUE])
          /\ active' = active \ {q.cart}
          /\ req' = [req EXCEPT ![r] = Idle]
          /\ held' = [held EXCEPT ![r] = {}]
          /\ UNCHANGED <<used, otps, couponOpen, linked>>

\* The number is unique: a transaction that lost it fails.  Otherwise the
\* order, its lines, the code, the coupon and the cart are written at once.
TxCommit(r) ==
  LET q == req[r] IN
  /\ At(r, "commit")
  /\ IF q.number # Len(orders) + 1
     THEN Rollback(r)
     ELSE /\ stock' = [s \in Sizes |-> IF s \in Lines[q.cart] THEN stock[s] - 1 ELSE stock[s]]
          /\ used' = IF q.coupon THEN used + 1 ELSE used
          /\ otps' = IF q.otp = 0 THEN otps ELSE [otps EXCEPT ![q.otp].verified = TRUE]
          /\ orders' = Append(orders, [customer |-> q.customer, cart |-> q.cart,
                                       coupon |-> q.coupon, otp |-> q.otp, recent |-> TRUE])
          /\ active' = active \ {q.cart}
          /\ req' = [req EXCEPT ![r] = Idle]
          /\ held' = [held EXCEPT ![r] = {}]
          /\ UNCHANGED <<couponOpen, linked>>

\* The row a transaction waits for, if its next statement writes one.
Wanted(r) ==
  LET q == req[r] IN
  CASE q.at = "size" -> {<<"size", s>> : s \in q.todo}
    [] q.at = "product" -> {<<"product", Product[q.size]>>}
    [] q.at = "use" -> {Coupon}
    [] OTHER -> {}

\* Transactions that wait for one another: the database fails one of them.
Deadlock(r) ==
  /\ \E W \in SUBSET Requests :
       /\ r \in W
       /\ \A p \in W : \E q \in W \ {p} : Wanted(p) \cap held[q] # {}
  /\ Rollback(r)

----------------------------------------------------------------------------
(* Time, and the rest of the application.                                  *)

CodeExpires(i) ==
  /\ i \in DOMAIN otps /\ otps[i].live
  /\ otps' = [otps EXCEPT ![i].live = FALSE, ![i].fresh = FALSE]
  /\ UNCHANGED <<stock, used, couponOpen, linked, active, orders, req, held>>

\* A minute since the code was sent.
CooldownEnds(i) ==
  /\ i \in DOMAIN otps /\ otps[i].fresh
  /\ otps' = [otps EXCEPT ![i].fresh = FALSE]
  /\ UNCHANGED <<stock, used, couponOpen, linked, active, orders, req, held>>

\* Ten minutes since the order was placed.
OrderAges(i) ==
  /\ i \in DOMAIN orders /\ orders[i].recent
  /\ orders' = [orders EXCEPT ![i].recent = FALSE]
  /\ UNCHANGED <<stock, used, couponOpen, linked, active, otps, req, held>>

CouponCloses ==
  /\ couponOpen
  /\ couponOpen' = FALSE
  /\ UNCHANGED <<stock, used, linked, active, otps, orders, req, held>>

\* What the server does for the request it is serving.
Serve(r) ==
  \/ AskForCode(r) \/ SendCode(r) \/ FindCode(r) \/ TryCode(r)
  \/ TxGuest(r) \/ TxOtp(r)
  \/ \E s \in Sizes : TxSize(r, s)
  \/ TxProduct(r) \/ TxCount(r) \/ TxUse(r) \/ TxNumber(r) \/ TxCommit(r)
  \/ Deadlock(r)

\* A code that was replaced is as wrong as any other.
Next ==
  \/ \E r \in Requests : Serve(r)
  \/ \E r \in Requests, c \in Customers, cart \in Carts, code \in {0, Len(otps), Len(otps) + 1} :
       Len(orders) < MaxOrders /\ Submit(r, c, cart, code)
  \/ \E c \in Customers, cart \in Carts : UnlinkCoupon(c, cart)
  \/ \E i \in DOMAIN otps : CodeExpires(i) \/ CooldownEnds(i)
  \/ \E i \in DOMAIN orders : OrderAges(i)
  \/ CouponCloses

Spec == Init /\ [][Next]_vars

\* Every submission is served on, and a transaction that waits for a row gets
\* it: the database queues the transactions that want one.
Fairness == \A r \in Requests : SF_vars(Serve(r))
----------------------------------------------------------------------------
(* Properties.                                                             *)

Placed == DOMAIN orders

\* Orders with a line of the size.
Sold(s) == {i \in Placed : s \in Lines[orders[i].cart]}

\* Every piece ordered came off the stock, and no piece was ordered twice
\* (recordAdjustment inside createOrder's transaction).
StockCoversOrders ==
  \A s \in Sizes : /\ stock[s] + Cardinality(Sold(s)) = InitialStock[s]
                   /\ Cardinality(Sold(s)) <= InitialStock[s]

\* A coupon is used no more often than its limit, and every use is an order
\* (the conditional update "makes two customers race for the last available
\* use safe").
CouponWithinLimit ==
  /\ used = Cardinality({i \in Placed : orders[i].coupon})
  /\ used <= UsageLimit

\* "Two concurrent requests can't both place an order with one code", and a
\* code is marked used only for an order that was placed.
CodeUsedOnce ==
  \A k \in DOMAIN otps :
    Cardinality({i \in Placed : orders[i].otp = k}) = IF otps[k].verified THEN 1 ELSE 0

\* "Racing requests can't exceed the cap" on the attempts at one code
\* (claimOtp).
AttemptsWithinCap == \A i \in DOMAIN otps : otps[i].attempts <= MaxAttempts

\* A phone never has more recent guest orders than the limit, however many
\* guests submit at once.
GuestOrdersLimited == \A p \in Phones : RecentGuestOrders(p) <= GuestLimit

\* The products of a cart.
Products(cart) == {Product[s] : s \in Lines[cart]}

\* The customer's uses of the coupon are counted before the order is written,
\* so two orders at once may both be within perUserLimit; but carts with a
\* product in common are placed one after the other, because each holds its
\* product's row until the end.  Among such orders the limit holds.
PerUserLimitOnSharedProducts ==
  \A c \in Customers : \A S \in SUBSET Uses(c) :
    (\A i, j \in S : Products(orders[i].cart) \cap Products(orders[j].cart) # {})
      => Cardinality(S) <= PerUserLimit

Book == INSTANCE OrderBook WITH sent <- [i \in DOMAIN otps |-> otps[i].scope]

\* An order is placed at one instant: however many submissions interleave,
\* what the committed rows go through is a history of the order book, in
\* which each order finds its stock, its coupon's use, its own code and room
\* under the guest limit (the locks of createOrder's transaction).
OrdersAreAtomic == Book!Spec

\* Every submission is answered, although transactions wait for each other's
\* rows and may do so in a circle.
SubmissionsAreAnswered == \A r \in Requests : ~At(r, "idle") ~> At(r, "idle")
=============================================================================
