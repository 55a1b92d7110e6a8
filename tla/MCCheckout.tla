---------------------------- MODULE MCCheckout ----------------------------
(* An account with two carts and a rival for its coupon; a guest; and an   *)
(* account that orders to another phone: each submits as often as it likes *)
(* and twice at once.                                                      *)
EXTENDS Checkout, TLC

CONSTANTS u, v, w, g, home, desk, c1, c2, c3, c4, c5, s1, s2, s3, p1, p2

MCPhone == (u :> home) @@ (v :> desk) @@ (w :> home) @@ (g :> home)
MCOwner == (c1 :> u) @@ (c2 :> u) @@ (c3 :> v) @@ (c4 :> g) @@ (c5 :> w)
MCProduct == (s1 :> p1) @@ (s2 :> p2) @@ (s3 :> p1)
MCLines == (c1 :> {s1, s3}) @@ (c2 :> {s2}) @@ (c3 :> {s3}) @@ (c4 :> {s1}) @@ (c5 :> {s1})
MCStock == (s1 :> 2) @@ (s2 :> 2) @@ (s3 :> 2)

\* The carts that are still ACTIVE.
MCInit == active \in {{c1, c2, c3}, {c4}, {c5}} /\ Init
MCSpec == MCInit /\ [][Next]_vars /\ Fairness
=============================================================================
