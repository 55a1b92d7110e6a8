----------------------------- MODULE OrderBook -----------------------------
(***************************************************************************)
(* What placing an order promises: it happens at one instant, on stock     *)
(* that is there, with a coupon that has a use left, with a code sent to   *)
(* that customer that no other order used, and within the limit on guests. *)
(* Checkout implements it.                                                 *)
(***************************************************************************)
EXTENDS Naturals, Sequences, FiniteSets

CONSTANTS Customers, Guests, Trusted, Phone, Carts, Owner, Sizes, Lines,
          InitialStock, UsageLimit, GuestLimit, None

VARIABLES
  stock,            \* pieces left of each size
  used,             \* uses of the coupon
  sent,             \* whom each code was sent to, in order
  orders            \* the orders placed

vars == <<stock, used, sent, orders>>

\* An account and a phone, or a phone only.
Scope(c) == [user |-> IF c \in Guests THEN None ELSE c, phone |-> Phone[c]]

\* Guest orders to the phone within the last ten minutes.
RecentGuestOrders(p) ==
  Cardinality({i \in DOMAIN orders :
    orders[i].customer \in Guests /\ Phone[orders[i].customer] = p /\ orders[i].recent})

Init == stock = InitialStock /\ used = 0 /\ sent = <<>> /\ orders = <<>>

Send(c) ==
  /\ sent' = Append(sent, Scope(c))
  /\ UNCHANGED <<stock, used, orders>>

Place(cart, coupon, otp) ==
  LET c == Owner[cart] IN
  /\ Lines[cart] # {} /\ \A s \in Lines[cart] : stock[s] > 0
  /\ coupon => used < UsageLimit /\ c \notin Guests
  /\ IF c \in Trusted THEN otp = 0
     ELSE /\ otp \in DOMAIN sent /\ sent[otp] = Scope(c)
          /\ \A i \in DOMAIN orders : orders[i].otp # otp
  /\ c \in Guests => RecentGuestOrders(Phone[c]) < GuestLimit
  /\ stock' = [s \in Sizes |-> IF s \in Lines[cart] THEN stock[s] - 1 ELSE stock[s]]
  /\ used' = IF coupon THEN used + 1 ELSE used
  /\ orders' = Append(orders, [customer |-> c, cart |-> cart, coupon |-> coupon,
                               otp |-> otp, recent |-> TRUE])
  /\ UNCHANGED sent

\* Ten minutes since the order was placed.
Age(i) ==
  /\ orders' = [orders EXCEPT ![i].recent = FALSE]
  /\ UNCHANGED <<stock, used, sent>>

Next ==
  \/ \E c \in Customers : Send(c)
  \/ \E cart \in Carts, coupon \in BOOLEAN, otp \in 0..Len(sent) : Place(cart, coupon, otp)
  \/ \E i \in DOMAIN orders : Age(i)

Spec == Init /\ [][Next]_vars
=============================================================================
