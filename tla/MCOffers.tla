------------------------------ MODULE MCOffers ------------------------------
(* The two settings Offers is checked in: requests that overlap and may be  *)
(* stopped half way, and requests served one at a time to their end, with no *)
(* date of a coupon coming in the middle of one.                             *)
EXTENDS Offers, Turns, TLC

CONSTANTS living, dining, sofas, tables, corner, couch, lamp

MCPrice == (couch :> 1) @@ (lamp :> 3)
MCTree == (living :> Root) @@ (dining :> Unused) @@ (sofas :> living) @@ (tables :> living) @@ (corner :> tables)
MCFiling == (couch :> {corner}) @@ (lamp :> {})

\* Where requests overlap, the coupon is open, the cart has both products, and
\* there is one edit and two requests of the customer; else there are three in all.
MCOffersInit ==
  /\ OffersInit /\ overlap \in BOOLEAN
  /\ overlap => goods = Products /\ \A k \in Coupons :
       /\ Exists(k) /\ coupon[k].phase = "open"
       /\ coupon[k].type = "FIXED_AMOUNT" /\ coupon[k].value = 2
MCOffersNext ==
  /\ OffersNext /\ UNCHANGED overlap
  /\ IF overlap THEN edits' <= 1 /\ asks' <= 2 ELSE edits' + asks' <= 3
  /\ overlap \/ Busy = {} \/ \E w \in Workers : ServeOffers(w)
MCOffersSpec == MCOffersInit /\ [][MCOffersNext]_<<offersVars, overlap>> /\ OffersFairness

\* One request at a time, a live coupon stays with its cart.
LiveStaysAlone == [][overlap \/ LiveStays]_offersVars

\* One request at a time, a coupon that was shown is honoured or the order is
\* refused, unless the coupon was deleted; and it discounts no more than what
\* it was restricted to.
HonouredAlone ==
  overlap \/ /\ \A o \in orders : o.hope # None => o.coupon = o.hope \/ coupon[o.hope] = Gone
             /\ DiscountWithinMeant
=============================================================================
