------------------------------ MODULE Visitors ------------------------------
(***************************************************************************)
(* What a device does before its owner signs in, and what becomes of it:   *)
(* orders and product views of visitors and of accounts, the merge of a    *)
(* visitor into the account that signed in (mergeGuestData, src/auth), and *)
(* the deletion of accounts (src/user).  Of the rows that refer to an      *)
(* account it is said what its deletion does to them: it is refused, they  *)
(* are deleted first, they lose their user, or the database refuses.  The  *)
(* guest's cart, merged in the same transaction, is in Cart.               *)
(***************************************************************************)
EXTENDS Naturals, FiniteSets, Sequences, TLC

CONSTANTS
  Customers, Devices, Orders,
  MaxViews,         \* bound: rows of ProductView
  Servers,          \* requests served at once
  NoId            \* no customer, no device

NoRow == "no row"

ASSUME VisitorsAssumption ==
  /\ MaxViews \in Nat
  /\ NoId \notin Customers \cup Devices /\ NoRow \notin Customers \cup {NoId}

VARIABLES
  known,            \* the accounts that exist
  owns,             \* account -> rows that refer to it: "wishlist", "cart lines", "codes"
  link,             \* Visitor rows: device -> its account, NoId, or no row
  bought,           \* the orders placed: by which account, on which device
  view,             \* the views of one product
  does              \* what is being done about each request

visitorsVars == <<known, owns, link, bought, view, does>>

Rests == [op |-> "rests"]
Someone == Customers \cup {NoId}
OnDevices == Devices \cup {NoId}

VisitorsInit ==
  /\ known = Customers /\ owns = [u \in Customers |-> {}]
  /\ link = [v \in Devices |-> NoRow]
  /\ bought = <<>> /\ view = <<>>
  /\ does = [w \in Servers |-> Rests]

Starts(w, r) == does[w] = Rests /\ does' = [does EXCEPT ![w] = r]
Goes(w, r) == does' = [does EXCEPT ![w] = r]
Ends(w) == does' = [does EXCEPT ![w] = Rests]
WithRow(v) == IF v = NoId \/ link[v] # NoRow THEN link ELSE [link EXCEPT ![v] = NoId]

\* A server goes down; what a transaction has not committed is not there.
Dies(w) == does[w] # Rests /\ Ends(w) /\ UNCHANGED <<known, owns, link, bought, view>>

-----------------------------------------------------------------------------
(* Orders, and other rows of an account.                                    *)

\* createOrder, with the cart's account or its device, whose row is there
\* since the cart is.
Buys(u, v) ==
  /\ Len(bought) < Cardinality(Orders) /\ {u, v} # {NoId}
  /\ u \in known \cup {NoId}
  /\ bought' = Append(bought, [user |-> u, device |-> v, guest |-> u = NoId])
  /\ link' = WithRow(v) /\ UNCHANGED <<known, owns, view, does>>

Keeps(u, rows) ==
  /\ u \in known /\ rows \notin owns[u]
  /\ owns' = [owns EXCEPT ![u] = @ \cup {rows}]
  /\ UNCHANGED <<known, link, bought, view, does>>

-----------------------------------------------------------------------------
(* addProductView: an earlier row of the account or the device is counted   *)
(* up; else there is a new one.                                             *)

Same(u, v) ==
  {i \in DOMAIN view : \/ u # NoId /\ view[i].user = u
                       \/ v # NoId /\ view[i].device = v}

ViewLook(w, u, v) ==
  /\ {u, v} # {NoId} /\ u \in known \cup {NoId}
  /\ Starts(w, [op |-> "view", step |-> IF Same(u, v) = {} THEN "visitor" ELSE "count",
                user |-> u, device |-> v])
  /\ UNCHANGED <<known, owns, link, bought, view>>

ViewVisitor(w) ==
  /\ does[w].op = "view" /\ does[w].step = "visitor"
  /\ link' = WithRow(does[w].device)
  /\ Goes(w, [does[w] EXCEPT !.step = "create"])
  /\ UNCHANGED <<known, owns, bought, view>>

\* (productId, userId, visitorId) is unique, where none of them is null.
Twins(views) ==
  \E i, j \in DOMAIN views :
    i # j /\ views[i] = views[j] /\ NoId \notin {views[i].user, views[i].device}

\* An increment of a row's count is not told apart.
ViewWrite(w) ==
  LET r == does[w]
      new == Append(view, [user |-> r.user, device |-> r.device])
  IN /\ r.op = "view" /\ r.step \in {"create", "count"}
     /\ IF r.step = "create" /\ r.user \in known \cup {NoId} /\ ~Twins(new)
        THEN Len(new) <= MaxViews /\ view' = new
        ELSE UNCHANGED view
     /\ Ends(w) /\ UNCHANGED <<known, owns, link, bought>>

-----------------------------------------------------------------------------
(* mergeGuestData: the device's row is read, then everything is written in  *)
(* the rest of the transaction, which locks that row first.                 *)

\* Fault variant: a device that is already linked is linked again.
IsOthers_Never(v, u) == FALSE

IsOthers(v, u) == link[v] \notin {NoRow, NoId, u}

MergeLook(w, u, v) ==
  /\ u \in known
  /\ IF IsOthers(v, u) THEN does[w] = Rests /\ UNCHANGED does
     ELSE Starts(w, [op |-> "merge", user |-> u, device |-> v])
  /\ UNCHANGED <<known, owns, link, bought, view>>

Given(rows, v, u) ==
  [i \in DOMAIN rows |-> IF rows[i].device = v /\ rows[i].user = NoId
                         THEN [rows[i] EXCEPT !.user = u] ELSE rows[i]]
Collides(u, v) == Twins(Given(view, v, u))

MergeCommit(w) ==
  LET u == does[w].user
      v == does[w].device
  IN /\ does[w].op = "merge"
     /\ IF u \notin known \/ Collides(u, v)
        THEN UNCHANGED <<link, bought, view>>          \* rolled back
        ELSE /\ link' = [link EXCEPT ![v] = u]
             /\ bought' = Given(bought, v, u) /\ view' = Given(view, v, u)
     /\ Ends(w) /\ UNCHANGED <<known, owns>>

-----------------------------------------------------------------------------
(* deleteUserSafely: refused to who has orders, else what is cleaned up is, *)
(* one statement after the other, and the row is deleted.                   *)

HasOrders(u) == \E i \in DOMAIN bought : bought[i].user = u

DeleteLookUp(w, u) ==
  /\ u \in known
  /\ IF HasOrders(u) THEN does[w] = Rests /\ UNCHANGED does
     ELSE Starts(w, [op |-> "delete", step |-> "cart lines", user |-> u, had |-> owns[u]])
  /\ UNCHANGED <<known, owns, link, bought, view>>

CleanUp(w) ==
  LET r == does[w] IN
  /\ r.op = "delete" /\ r.step \in {"cart lines", "codes"}
  /\ owns' = [owns EXCEPT ![r.user] = @ \ {r.step}]
  /\ Goes(w, [r EXCEPT !.step = IF @ = "cart lines" THEN "codes" ELSE "account"])
  /\ UNCHANGED <<known, link, bought, view>>

\* A wishlist restricts the deletion; orders, views, codes, carts and devices
\* lose their user.
DeleteAccount(w) ==
  LET u == does[w].user
      freed(rows) == [i \in DOMAIN rows |->
                        IF rows[i].user = u THEN [rows[i] EXCEPT !.user = NoId] ELSE rows[i]]
  IN /\ does[w].op = "delete" /\ does[w].step = "account"
     /\ IF u \notin known \/ "wishlist" \in owns[u]
        THEN UNCHANGED <<known, owns, link, bought, view>>
        ELSE /\ known' = known \ {u} /\ owns' = [owns EXCEPT ![u] = {}]
             /\ link' = [v \in Devices |-> IF link[v] = u THEN NoId ELSE link[v]]
             /\ bought' = freed(bought) /\ view' = freed(view)
     /\ Ends(w)

VisitorsNext ==
  \/ \E u \in Someone, v \in OnDevices : Buys(u, v)
  \/ \E u \in Customers, rows \in {"wishlist", "cart lines", "codes"} : Keeps(u, rows)
  \/ \E w \in Servers :
       \/ \E u \in Someone, v \in OnDevices : ViewLook(w, u, v)
       \/ ViewVisitor(w) \/ ViewWrite(w)
       \/ \E u \in Customers, v \in Devices : MergeLook(w, u, v)
       \/ MergeCommit(w)
       \/ \E u \in Customers : DeleteLookUp(w, u)
       \/ CleanUp(w) \/ DeleteAccount(w) \/ Dies(w)

-----------------------------------------------------------------------------
(* Properties.                                                              *)

VisitorsTypeOK ==
  /\ known \subseteq Customers
  /\ \A v \in Devices : link[v] \in {NoRow, NoId} \cup known
  /\ \A i \in DOMAIN bought : bought[i].user \in known \cup {NoId} /\ bought[i].device \in OnDevices
  /\ ~Twins(view)

\* The guest orders of a device are all given to one account, the one the
\* device is linked to (auth.service.ts: a linked device "must not hand that
\* person's guest orders or cart to whoever signs in next").
GuestOrdersGoToOne ==
  \A i \in DOMAIN bought : bought[i].guest /\ bought[i].user # NoId =>
    link[bought[i].device] = bought[i].user

\* An order that has a customer keeps it, whoever is deleted.
OrdersKeepCustomer ==
  \A i \in DOMAIN bought : bought[i].user # NoId => bought'[i].user = bought[i].user

\* Giving the views of a device to an account never breaks the unique key,
\* which would fail that merge and every later one (auth.service.ts: "setting
\* userId can't collide with the account's own views").
MergeNeverCollides == \A u \in known, v \in Devices : IsOthers(v, u) \/ ~Collides(u, v)

\* Statements that TLC refutes: the three above when requests overlap, and,
\* one at a time, that a deletion which fails leaves the account's rows.
FailedDeletionKeepsRows ==
  \A w \in Servers :
    does[w].op = "delete" /\ does'[w] = Rests /\ does[w].user \in known' =>
      owns'[does[w].user] = does[w].had
=============================================================================
