------------------------------- MODULE Offers -------------------------------
(***************************************************************************)
(* Coupons (src/cms), the tree of series, categories and subcategories     *)
(* that they can be restricted to (src/category), and one customer's cart  *)
(* from the moment a code is applied to the order (src/cart, src/order).   *)
(* How often a coupon may be used is in Checkout, how the lines of a cart  *)
(* come about is in Cart; here a cart is a set of products.                *)
(***************************************************************************)
EXTENDS Integers, FiniteSets, Functions, Handling

CONSTANTS
  Series, Categories, Subs,  \* ids of the tree's rows, never used twice
  Products, Price,           \* products, and what each costs
  Tree, Filing,              \* where each row and product is at first
  Coupons, Types, Values, Minima,
  MaxEdits, MaxAsks,         \* bounds: edits of the admins, customer's requests
  Root, Unused, Gone         \* a series' parent; not yet and no more

Nodes == Series \cup Categories \cup Subs
Shelves == [Products -> SUBSET Subs]
Phases == {"before", "open", "after"}  \* of startDate .. expiryDate

ASSUME OffersAssumption ==
  /\ IsFiniteSet(Products) /\ Price \in [Products -> Nat]
  /\ Types \subseteq {"FIXED_AMOUNT", "PERCENTAGE", "FREE_DELIVERY"}
  /\ Values \subseteq Nat \ {0} /\ Minima \subseteq Nat
  /\ Tree \in [Nodes -> Nodes \cup {Root, Unused}]
  /\ Filing \in Shelves
  /\ {MaxEdits, MaxAsks} \subseteq Nat
  /\ None \notin Coupons /\ {Root, Unused, Gone} \cap Nodes = {}

VARIABLES
  parent,       \* Category.seriesId, SubCategory.categoryId
  filed,        \* ProductSubCategory: the subcategories a product is in
  coupon,       \* Coupon rows with their CouponCategory rows
  meant,        \* history: the categories its admin restricted a coupon to
  goods,        \* the products in the cart
  link,         \* Cart.couponId
  open,         \* whether Cart.status is ACTIVE
  shown,        \* history: the coupon the customer was last shown as applied
  orders,       \* the orders placed
  edits, asks   \* counts, for the bounds

treeVars == <<parent, filed>>
rules == <<coupon, meant>>
cartRow == <<goods, link, open>>
offersVars == <<treeVars, rules, cartRow, shown, orders, req, edits, asks>>

-----------------------------------------------------------------------------
(* Rows, and what a coupon does to a set of lines.                          *)

Coupon == [active : BOOLEAN, phase : Phases, only : SUBSET Categories,
           type : Types, value : Values, min : Minima]
ASSUME CouponAssumption == {Unused, Gone} \cap Coupon = {} /\ Unused # Gone

Exists(k) == coupon[k] \notin {Unused, Gone}
Live(n) == parent[n] \notin {Unused, Gone}
Children(n) == {m \in Nodes : parent[m] = n}
Below(n) == Children(n) \cup UNION {Children(m) : m \in Children(n)}
MayBeUnder(n) ==
  IF n \in Series THEN {Root}
  ELSE {m \in (IF n \in Categories THEN Series ELSE Categories) : Live(m)}

CategoriesOf == [p \in Products |-> {parent[b] : b \in filed[p]}]

Worth(lines) == SumFunctionOnSet(Price, lines)
Within(lines, cats, only) ==
  {p \in lines : only = {} \/ cats[p] \cap only # {}}

InWindow(row) == row.active /\ row.phase = "open"

Sound(row) == row.type = "PERCENTAGE" => row.value <= 100

AtMost(a, b) == IF a < b THEN a ELSE b

Discount(row, worth) ==
  CASE row.type = "FIXED_AMOUNT"  -> AtMost(row.value, worth)
    [] row.type = "PERCENTAGE"    -> AtMost((row.value * worth) \div 100, worth)
    [] row.type = "FREE_DELIVERY" -> 0

Qualifies(row, lines, cats) ==
  LET eligible == Within(lines, cats, row.only)
  IN eligible # {} /\ Worth(eligible) >= row.min

\* due: what the lines are worth that the coupon was meant for.
OrderRow == [coupon : Coupons \cup {None}, hope : Coupons \cup {None},
          discount : Nat, due : Nat, widened : BOOLEAN]

\* The database keeps every reference of a row to another.
OffersTypeOK ==
  /\ \A n \in Nodes : parent[n] \in {Unused, Gone} \cup MayBeUnder(n)
  /\ filed \in Shelves /\ \A p \in Products : \A b \in filed[p] : Live(b)
  /\ coupon \in [Coupons -> Coupon \cup {Unused, Gone}]
  /\ \A k \in Coupons : Exists(k) => \A c \in coupon[k].only : Live(c)
  /\ meant \in [Coupons -> SUBSET Categories]
  /\ goods \subseteq Products
  /\ link \in {k \in Coupons : Exists(k)} \cup {None}
  /\ open \in BOOLEAN
  /\ shown \in Coupons \cup {None}
  /\ orders \subseteq OrderRow
  /\ \A w \in Workers : req[w].at \in
       {"idle", "delete", "rows", "patch", "toggle",
        "code", "link", "unlink", "check", "order"}
  /\ edits \in 0 .. MaxEdits /\ asks \in 0 .. MaxAsks

OffersInit ==
  /\ parent = Tree /\ filed = Filing
  /\ coupon \in [Coupons -> {Unused} \cup
                   {row \in Coupon : row.active /\ Sound(row) /\ \A c \in row.only : Live(c)}]
  /\ meant = [k \in Coupons |-> IF Exists(k) THEN coupon[k].only ELSE {}]
  /\ goods \in SUBSET Products /\ link = None /\ open = TRUE /\ shown = None
  /\ orders = {}
  /\ req = [w \in Workers |-> Idle]
  /\ edits = 0 /\ asks = 0

-----------------------------------------------------------------------------
(* The tree.                                                                *)

Edit == edits < MaxEdits /\ edits' = edits + 1
NotTheCart == UNCHANGED <<cartRow, shown, orders, asks>>

\* createSeries, createCategory, createSubCategory: under a row that exists.
Create(n, up) ==
  /\ Edit
  /\ parent[n] = Unused /\ up \in MayBeUnder(n)
  /\ parent' = [parent EXCEPT ![n] = up]
  /\ UNCHANGED <<filed, rules, req>> /\ NotTheCart

\* updateCategory, updatesSubcategory: the row may go under another one.
MoveUnder(n, up) ==
  /\ Edit
  /\ n \notin Series /\ Live(n) /\ up \in MayBeUnder(n) \ {parent[n]}
  /\ parent' = [parent EXCEPT ![n] = up]
  /\ UNCHANGED <<filed, rules, req>> /\ NotTheCart

\* createProduct, updateProduct: the product is filed anew.
File(p, subs) ==
  /\ Edit
  /\ subs # filed[p] /\ \A b \in subs : Live(b)
  /\ filed' = [filed EXCEPT ![p] = subs]
  /\ UNCHANGED <<parent, rules, req>> /\ NotTheCart

\* deleteSeriesBySlug, deleteCategoryBySlug, deleteSubCategoryBySlug: refused
\* while something is under it.
InUse(n) == Children(n) # {} \/ \E p \in Products : n \in filed[p]

DeleteLook(w, n) ==
  /\ At(w, "idle") /\ Edit
  /\ Live(n) /\ ~InUse(n)
  /\ Goto(w, [at |-> "delete", node |-> n])
  /\ UNCHANGED <<treeVars, rules>> /\ NotTheCart

\* ... and deleted, with all that refers to it.
Delete(w) ==
  LET n == req[w].node
      gone == {n} \cup Below(n)
  IN /\ At(w, "delete")
     /\ IF Live(n)
        THEN /\ parent' = [m \in Nodes |-> IF m \in gone THEN Gone ELSE parent[m]]
             /\ filed' = [p \in Products |-> filed[p] \ gone]
             /\ coupon' = [k \in Coupons |->
                  IF Exists(k) THEN [coupon[k] EXCEPT !.only = @ \ gone] ELSE coupon[k]]
        ELSE UNCHANGED <<treeVars, coupon>>
     /\ Answer(w)
     /\ UNCHANGED <<meant, edits>> /\ NotTheCart

-----------------------------------------------------------------------------
(* The admin's side of coupons.                                             *)

CreateCoupon(k, row) ==
  /\ Edit
  /\ coupon[k] = Unused
  /\ Sound(row) /\ \A c \in row.only : Live(c)
  /\ coupon' = [coupon EXCEPT ![k] = row]
  /\ meant' = [meant EXCEPT ![k] = row.only]
  /\ UNCHANGED <<treeVars, req>> /\ NotTheCart

\* What an update may send: any of the fields.
Patches ==
  [active : BOOLEAN] \cup [phase : Phases] \cup [only : SUBSET Categories]
  \cup [type : Types] \cup [value : Values] \cup [type : Types, value : Values]

Patched(row, patch) ==
  [f \in DOMAIN row |-> IF f \in DOMAIN patch THEN patch[f] ELSE row[f]]

\* updateCoupon: what would result is checked against the row as it is now.
UpdateLook(w, k, patch) ==
  /\ At(w, "idle") /\ Edit
  /\ Exists(k) /\ Sound(Patched(coupon[k], patch))
  /\ Goto(w, [at |-> IF "only" \in DOMAIN patch THEN "rows" ELSE "patch",
              coupon |-> k, patch |-> patch, old |-> {}])
  /\ UNCHANGED <<treeVars, rules>> /\ NotTheCart

\* Its transaction deletes the restrictions there are ...
UpdateRows(w) ==
  LET k == req[w].coupon
  IN /\ At(w, "rows")
     /\ Goto(w, [req[w] EXCEPT !.at = "patch", !.old = IF Exists(k) THEN coupon[k].only ELSE {}])
     /\ UNCHANGED <<treeVars, rules, edits>> /\ NotTheCart

\* ... and adds the new ones; a category that is gone, or a row that somebody
\* else has added, fails it.
UpdateCommit(w) ==
  LET r == req[w]
      k == r.coupon
      restricts == "only" \in DOMAIN r.patch
      left == coupon[k].only \ r.old
      written == IF restricts
                 THEN [Patched(coupon[k], r.patch) EXCEPT !.only = left \cup r.patch.only]
                 ELSE Patched(coupon[k], r.patch)
  IN /\ At(w, "patch")
     /\ IF Exists(k) /\ (restricts => /\ \A c \in r.patch.only : Live(c)
                                      /\ left \cap r.patch.only = {})
        THEN /\ coupon' = [coupon EXCEPT ![k] = written]
             /\ meant' = IF restricts THEN [meant EXCEPT ![k] = r.patch.only] ELSE meant
        ELSE UNCHANGED rules
     /\ Answer(w)
     /\ UNCHANGED <<treeVars, edits>> /\ NotTheCart

\* toggleCouponStatus: the switch is set to the opposite of what was read.
ToggleLook(w, k) ==
  /\ At(w, "idle") /\ Edit
  /\ Exists(k)
  /\ Goto(w, [at |-> "toggle", coupon |-> k, active |-> ~coupon[k].active])
  /\ UNCHANGED <<treeVars, rules>> /\ NotTheCart

Toggle(w) ==
  LET r == req[w]
  IN /\ At(w, "toggle")
     /\ coupon' = IF Exists(r.coupon) THEN [coupon EXCEPT ![r.coupon].active = r.active]
                  ELSE coupon
     /\ Answer(w)
     /\ UNCHANGED <<treeVars, meant, edits>> /\ NotTheCart

\* deleteCoupon: a cart that has it applied is left without one.
DeleteCoupon(k) ==
  /\ Edit
  /\ Exists(k)
  /\ coupon' = [coupon EXCEPT ![k] = Gone]
  /\ link' = IF link = k THEN None ELSE link
  /\ UNCHANGED <<treeVars, meant, goods, open, shown, orders, req, asks>>

\* Its dates come.
Time(k) ==
  /\ Exists(k) /\ coupon[k].phase # "after"
  /\ coupon' = [coupon EXCEPT ![k].phase = IF @ = "before" THEN "open" ELSE "after"]
  /\ UNCHANGED <<treeVars, meant, cartRow, shown, orders, req, edits, asks>>

-----------------------------------------------------------------------------
(* The customer.                                                            *)

Asks == asks < MaxAsks /\ asks' = asks + 1
NotTheShop == UNCHANGED <<treeVars, rules, edits>>

PutIn(p) ==
  /\ Asks /\ open /\ p \notin goods
  /\ goods' = goods \cup {p}
  /\ UNCHANGED <<link, open, shown, orders, req>> /\ NotTheShop

TakeOut(p) ==
  /\ Asks /\ open /\ p \in goods
  /\ goods' = goods \ {p}
  /\ UNCHANGED <<link, open, shown, orders, req>> /\ NotTheShop

EmptyCart ==
  /\ Asks /\ open
  /\ goods' = {} /\ link' = None /\ shown' = None
  /\ UNCHANGED <<open, orders, req>> /\ NotTheShop

RemoveCoupon ==
  /\ Asks /\ open
  /\ link' = None /\ shown' = None
  /\ UNCHANGED <<goods, open, orders, req>> /\ NotTheShop

\* applyCoupon: the lines are read, ...
Apply(w, k) ==
  /\ At(w, "idle") /\ Asks
  /\ open /\ goods # {}
  /\ Goto(w, [at |-> "code", coupon |-> k, lines |-> goods, cats |-> CategoriesOf])
  /\ UNCHANGED <<cartRow, shown, orders>> /\ NotTheShop

\* ... the coupon is read and tried on them, ...
ApplyCheck(w) ==
  LET r == req[w]
      row == coupon[r.coupon]
  IN /\ At(w, "code")
     /\ IF Exists(r.coupon) /\ InWindow(row) /\ Qualifies(row, r.lines, r.cats)
        THEN Goto(w, [at |-> "link", coupon |-> r.coupon])
        ELSE Answer(w)
     /\ UNCHANGED <<cartRow, shown, orders, asks>> /\ NotTheShop

\* ... and the cart gets it, whatever the cart is now.
ApplyWrite(w) ==
  LET k == req[w].coupon
  IN /\ At(w, "link")
     /\ IF Exists(k) THEN link' = k /\ shown' = k ELSE UNCHANGED <<link, shown>>
     /\ Answer(w)
     /\ UNCHANGED <<goods, open, orders, asks>> /\ NotTheShop

\* getCartItems, resolveCartCoupon: a coupon out of its window is to go.
\* Fault variants: a dead coupon is only not shown; one that does not fit goes too.
GetCartItems_OnlyHides(w) ==
  /\ At(w, "idle") /\ open
  /\ shown' = IF link # None /\ ~InWindow(coupon[link]) THEN None ELSE link
  /\ UNCHANGED <<cartRow, orders, asks, req>> /\ NotTheShop

GetCartItems_DropsUnfit(w) ==
  /\ At(w, "idle") /\ open
  /\ IF link # None /\ (~InWindow(coupon[link]) \/ ~Qualifies(coupon[link], goods, CategoriesOf))
     THEN Goto(w, [at |-> "unlink"]) /\ UNCHANGED shown
     ELSE shown' = link /\ UNCHANGED req
  /\ UNCHANGED <<cartRow, orders, asks>> /\ NotTheShop

GetCartItems(w) ==
  /\ At(w, "idle") /\ open
  /\ IF link # None /\ ~InWindow(coupon[link])
     THEN Goto(w, [at |-> "unlink"]) /\ UNCHANGED shown
     ELSE shown' = link /\ UNCHANGED req
  /\ UNCHANGED <<cartRow, orders, asks>> /\ NotTheShop

Unlink(w) ==
  /\ At(w, "unlink")
  /\ link' = None /\ shown' = None
  /\ Answer(w)
  /\ UNCHANGED <<goods, open, orders, asks>> /\ NotTheShop

\* createOrder: the cart is read, ...
SubmitCart(w) ==
  /\ At(w, "idle") /\ Asks
  /\ open /\ goods # {}
  /\ Goto(w, [at |-> IF link = None THEN "order" ELSE "check", coupon |-> link, hope |-> shown,
              lines |-> goods, cats |-> CategoriesOf, discount |-> 0, due |-> 0,
              widened |-> FALSE])
  /\ UNCHANGED <<cartRow, shown, orders>> /\ NotTheShop

\* ... its coupon is read: one that is out of its window is unlinked and one
\* that does not fit stops the order ...
\* Fault variant: a coupon out of its window is ignored.
SubmitCheck_FullPrice(w) ==
  LET r == req[w]
      row == coupon[r.coupon]
  IN /\ At(w, "check")
     /\ IF ~Exists(r.coupon) \/ (InWindow(row) /\ ~Qualifies(row, r.lines, r.cats)) THEN Answer(w)
        ELSE IF ~InWindow(row) THEN Goto(w, [r EXCEPT !.at = "order", !.coupon = None])
        ELSE Goto(w, [r EXCEPT !.at = "order",
               !.discount = Discount(row, Worth(Within(r.lines, r.cats, row.only)))])
     /\ UNCHANGED <<cartRow, shown, orders, asks>> /\ NotTheShop

SubmitCheck(w) ==
  LET r == req[w]
      k == r.coupon
      row == coupon[k]
  IN /\ At(w, "check")
     /\ CASE ~Exists(k) -> Answer(w)
          [] Exists(k) /\ ~InWindow(row) -> Goto(w, [at |-> "unlink"])
          [] Exists(k) /\ InWindow(row) ->
               IF ~Qualifies(row, r.lines, r.cats) THEN Answer(w)
               ELSE Goto(w, [r EXCEPT !.at = "order",
                      !.discount = Discount(row, Worth(Within(r.lines, r.cats, row.only))),
                      !.due = Worth(Within(r.lines, r.cats, meant[k])),
                      !.widened = row.only = {} /\ meant[k] # {}])
     /\ UNCHANGED <<cartRow, shown, orders, asks>> /\ NotTheShop

\* ... and the order is placed, unless the coupon is gone by now.
OrderGoods(w) ==
  LET r == req[w]
  IN /\ At(w, "order")
     /\ IF r.coupon = None \/ Exists(r.coupon)
        THEN /\ orders' = orders \cup
                  {[coupon |-> r.coupon, hope |-> r.hope, discount |-> r.discount,
                    due |-> r.due, widened |-> r.widened]}
             /\ open' = FALSE /\ shown' = None
        ELSE UNCHANGED <<orders, open, shown>>
     /\ Answer(w)
     /\ UNCHANGED <<goods, link, asks>> /\ NotTheShop

\* The server is stopped in the middle of a request.
GiveUp(w) ==
  /\ ~At(w, "idle") /\ asks < MaxAsks
  /\ asks' = asks + 1
  /\ Answer(w)
  /\ UNCHANGED <<cartRow, shown, orders>> /\ NotTheShop

-----------------------------------------------------------------------------

ServeOffers(w) ==
  \/ Delete(w) \/ UpdateRows(w) \/ UpdateCommit(w) \/ Toggle(w)
  \/ ApplyCheck(w) \/ ApplyWrite(w) \/ Unlink(w) \/ SubmitCheck(w) \/ OrderGoods(w)

Admin ==
  \/ \E n \in Nodes, up \in Nodes \cup {Root} : Create(n, up) \/ MoveUnder(n, up)
  \/ \E p \in Products, subs \in SUBSET Subs : File(p, subs)
  \/ \E k \in Coupons :
       \/ \E row \in Coupon : CreateCoupon(k, row)
       \/ DeleteCoupon(k) \/ Time(k)
       \/ \E w \in Workers : ToggleLook(w, k) \/ \E patch \in Patches : UpdateLook(w, k, patch)
  \/ \E w \in Workers, n \in Nodes : DeleteLook(w, n)

Customer ==
  \/ \E p \in Products : PutIn(p) \/ TakeOut(p)
  \/ EmptyCart \/ RemoveCoupon
  \/ \E w \in Workers : GetCartItems(w) \/ SubmitCart(w) \/ \E k \in Coupons : Apply(w, k)

OffersNext ==
  \/ Admin \/ Customer
  \/ \E w \in Workers : ServeOffers(w) \/ GiveUp(w)

OffersSpec == OffersInit /\ [][OffersNext]_offersVars

\* A request that is not stopped is served to its end, and a customer with a
\* cart looks at it again.
OffersFairness ==
  /\ \A w \in Workers : WF_offersVars(ServeOffers(w))
  /\ SF_offersVars(\E w \in Workers : GetCartItems(w))

-----------------------------------------------------------------------------
(* Properties.                                                              *)

\* resolveCartCoupon: a coupon that is switched off, over or not yet valid "is
\* unlinked from the cart here, so the customer never sees a dead code
\* 'applied' and order creation can't be blocked by it".  Whatever else goes
\* on, it does not stay with an open cart for ever.
DeadCouponUnblocks ==
  \A k \in Coupons :
    (open /\ link = k /\ ~InWindow(coupon[k]))
      ~> (~open \/ link # k \/ InWindow(coupon[k]))

\* resolveCartCoupon: "A live coupon the cart just doesn't qualify for (min
\* spend, categories) stays linked": it goes only if the customer or the admin
\* takes it away.
LiveStays ==
  link # None /\ InWindow(coupon[link]) /\ link' = None =>
    RemoveCoupon \/ EmptyCart \/ DeleteCoupon(link)

\* deleteSeriesBySlug and the like: "Cannot delete ... It still has ... under
\* it".  What happens to the tree never takes a product out of a subcategory.
FiledStays == parent' # parent => filed' = filed

\* createOrder: "reject the order outright if it can no longer be honoured,
\* rather than silently charging full price".  A customer who submits a cart
\* that was shown with a coupon gets an order with that coupon or none at all.
HonouredOrRefused == \A o \in orders : o.hope # None => o.coupon = o.hope

\* create-coupon.dto: "Category ids this coupon is restricted to".  What a
\* restricted coupon takes off is never more than what the lines are worth that
\* it was restricted to.
RestrictionNotWidened ==
  \A o \in orders : o.coupon # None => o.discount <= o.due

\* The same but for a coupon whose categories were all deleted: then no row is
\* left to say that it was restricted.
DiscountWithinMeant ==
  \A o \in orders : o.coupon # None /\ ~o.widened => o.discount <= o.due

\* assertValidCouponValue: "A percentage coupon cannot exceed 100%", although
\* type and value may be updated one without the other.
AllCouponsSound == \A k \in Coupons : Exists(k) => Sound(coupon[k])
=============================================================================
