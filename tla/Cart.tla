-------------------------------- MODULE Cart --------------------------------
(***************************************************************************)
(* Carts (src/cart), the guest's cart that is taken over at a sign-in      *)
(* (mergeGuestData of src/auth, migrateVisitor of src/guest), and what     *)
(* createOrder does to a cart.  src/cart uses no transaction: what a       *)
(* statement reads is acted on by later ones.  A line remembers the price  *)
(* it was last written with.                                               *)
(***************************************************************************)
EXTENDS Integers, FiniteSets, Functions, Handling

CONSTANTS
  Users, Visitors,  \* accounts, and browsers without one
  Legacy,           \* the visitors with an id of the old form
  ProductSizes,     \* ProductSize rows
  Prices,           \* what a size may cost
  MaxCarts,         \* bound: Cart rows
  MaxItems,         \* bound: CartItem rows
  MaxStock,         \* bound: units in stock
  MaxOps,           \* bound: requests that are not plain reads, or given up
  MaxChanges,       \* bound: changes of a price or of stock
  Absent            \* no Visitor row

Carts == 1 .. MaxCarts
Items == 1 .. MaxItems
Owners == Users \cup Visitors

ASSUME CartAssumption ==
  /\ Prices \subseteq Nat
  /\ {MaxCarts, MaxItems, MaxStock, MaxOps, MaxChanges} \subseteq Nat
  /\ Users \cap Visitors = {} /\ Legacy \subseteq Visitors
  /\ {None, Absent} \cap (Owners \cup Items) = {}

VARIABLES
  visitor,          \* Visitor rows: absent, without account, or of which one
  owner,            \* Cart.userId or .visitorId
  status,           \* Cart.status
  subtotal,         \* Cart.subtotalAtAdd
  items,            \* CartItem rows
  made,             \* CartItem ids given out
  price, stock,     \* of a size now
  ops, changes      \* counts, for the bounds

carts == <<owner, status>>
lineVars == <<items, made>>
shop == <<price, stock, changes>>
cartVars == <<visitor, carts, subtotal, lineVars, shop, req, ops>>

-----------------------------------------------------------------------------
(* Rows.                                                                    *)

\* seen: the customer has been shown this price, or a higher one, for it.
Item == [cart : Carts, size : ProductSizes, qty : Nat, price : Nat, sub : Nat, seen : BOOLEAN]
ASSUME RowAssumption == None \notin Item

Line(c, s, q, p, seen) ==
  [cart |-> c, size |-> s, qty |-> q, price |-> p, sub |-> p * q, seen |-> seen]

In(c) == {i \in Items : items[i] # None /\ items[i].cart = c}
OfSize(c, s) == {i \in In(c) : items[i].size = s}
ActiveOf(o) == {c \in Carts : owner[c] = o /\ status[c] = "ACTIVE"}
LinesTotal(c) == SumFunctionOnSet([i \in In(c) |-> items[i].sub], In(c))

Least(a, b) == IF a < b THEN a ELSE b

\* What a customer starts, other than a read.
Begin(w) == At(w, "idle") /\ ops < MaxOps /\ ops' = ops + 1

CartTypeOK ==
  /\ visitor \in [Visitors -> Users \cup {None, Absent}]
  /\ owner \in [Carts -> Owners \cup {None}]
  /\ status \in [Carts -> {"ACTIVE", "ABANDONED", "CHECKED_OUT"}]
  /\ subtotal \in [Carts -> Nat]
  /\ items \in [Items -> Item \cup {None}]
  /\ made \in 0 .. MaxItems
  /\ price \in [ProductSizes -> Prices]
  /\ stock \in [ProductSizes -> 0 .. MaxStock]
  /\ \A w \in Workers : req[w].at \in
       {"idle", "create", "look", "put", "drop", "wipe", "sum", "total",
        "refresh", "reprice", "order", "link", "linked", "merge"}
  /\ ops \in 0 .. MaxOps /\ changes \in 0 .. MaxChanges

CartInit ==
  /\ visitor = [v \in Visitors |-> Absent]
  /\ owner = [c \in Carts |-> None]
  /\ status = [c \in Carts |-> "ACTIVE"]
  /\ subtotal = [c \in Carts |-> 0]
  /\ items = [i \in Items |-> None]
  /\ made = 0
  /\ price \in [ProductSizes -> Prices]
  /\ stock = [s \in ProductSizes |-> MaxStock]
  /\ req = [w \in Workers |-> Idle]
  /\ ops = 0 /\ changes = 0

-----------------------------------------------------------------------------
(* Adding a unit: addItemToCart, addItemToGuestCart.                        *)

\* The cart is looked up.  A guest's Visitor row is made if need be.
AddFind(w, o, s) ==
  /\ Begin(w)
  /\ visitor' = IF o \in Visitors /\ visitor[o] = Absent
                THEN [visitor EXCEPT ![o] = None] ELSE visitor
  /\ IF ActiveOf(o) = {}
     THEN Goto(w, [at |-> "create", who |-> o, size |-> s])
     ELSE \E c \in ActiveOf(o) : Goto(w, [at |-> "look", cart |-> c, size |-> s])
  /\ UNCHANGED <<carts, subtotal, lineVars, shop>>

\* ... and made if there was none: nothing keeps a second one out.
AddCreate(w) ==
  LET r == req[w]
      c == CHOOSE n \in Carts : owner[n] = None /\ \A m \in Carts : m < n => owner[m] # None
  IN /\ At(w, "create")
     /\ \E n \in Carts : owner[n] = None
     /\ owner' = [owner EXCEPT ![c] = r.who]
     /\ Goto(w, [at |-> "look", cart |-> c, size |-> r.size])
     /\ UNCHANGED <<visitor, status, subtotal, lineVars, shop, ops>>

\* The size and the line it may have already are read.
AddLook(w) ==
  LET r == req[w]
      old == OfSize(r.cart, r.size)
      put(i, q) == [at |-> "put", cart |-> r.cart, size |-> r.size, item |-> i,
                    qty |-> q, price |-> price[r.size]]
  IN /\ At(w, "look")
     /\ IF old = {}
        THEN IF stock[r.size] < 1 THEN Answer(w) ELSE Goto(w, put(None, 1))
        ELSE \E i \in old : IF items[i].qty + 1 > stock[r.size]
                            THEN Answer(w) ELSE Goto(w, put(i, items[i].qty + 1))
     /\ UNCHANGED <<visitor, carts, subtotal, lineVars, shop, ops>>

\* The line is written or made, unless it is gone, or there is one by now.
PutLine(w) ==
  LET r == req[w]
      sums == [at |-> "sum", cart |-> r.cart]
  IN /\ At(w, "put")
     /\ CASE r.item # None /\ items[r.item] # None ->
               /\ items' = [items EXCEPT ![r.item] =
                              Line(@.cart, r.size, r.qty, r.price, TRUE)]
               /\ Goto(w, sums) /\ UNCHANGED made
          [] r.item = None /\ OfSize(r.cart, r.size) = {} ->
               /\ made < MaxItems
               /\ made' = made + 1
               /\ items' = [items EXCEPT ![made'] =
                              Line(r.cart, r.size, r.qty, r.price, TRUE)]
               /\ Goto(w, sums)
          [] OTHER -> Answer(w) /\ UNCHANGED lineVars
     /\ UNCHANGED <<visitor, carts, subtotal, shop, ops>>

\* The lines are added up, ...
SumLines(w) ==
  /\ At(w, "sum")
  /\ Goto(w, [at |-> "total", cart |-> req[w].cart, sum |-> LinesTotal(req[w].cart)])
  /\ UNCHANGED <<visitor, carts, subtotal, lineVars, shop, ops>>

\* ... and the cart's total is written.
WriteTotal(w) ==
  /\ At(w, "total")
  /\ subtotal' = [subtotal EXCEPT ![req[w].cart] = req[w].sum]
  /\ Answer(w)
  /\ UNCHANGED <<visitor, carts, lineVars, shop, ops>>

-----------------------------------------------------------------------------
(* updateItemQuantity, removeItem, clearCart.                               *)

Mine(o) == UNION {In(c) : c \in ActiveOf(o)}

SetQuantity(w, o, i, q) ==
  /\ Begin(w)
  /\ i \in Mine(o)
  /\ q <= stock[items[i].size]
  /\ Goto(w, [at |-> "put", cart |-> items[i].cart, size |-> items[i].size, item |-> i,
              qty |-> q, price |-> price[items[i].size]])
  /\ UNCHANGED <<visitor, carts, subtotal, lineVars, shop>>

RemoveItem(w, o, i) ==
  /\ Begin(w)
  /\ i \in Mine(o)
  /\ Goto(w, [at |-> "drop", cart |-> items[i].cart, item |-> i])
  /\ UNCHANGED <<visitor, carts, subtotal, lineVars, shop>>

DropLine(w) ==
  LET r == req[w] IN
  /\ At(w, "drop")
  /\ IF items[r.item] = None
     THEN Answer(w) /\ UNCHANGED items
     ELSE /\ items' = [items EXCEPT ![r.item] = None]
          /\ Goto(w, [at |-> "sum", cart |-> r.cart])
  /\ UNCHANGED <<visitor, carts, subtotal, made, shop, ops>>

ClearCart(w, o) ==
  /\ Begin(w)
  /\ \E c \in ActiveOf(o) : Goto(w, [at |-> "wipe", cart |-> c])
  /\ UNCHANGED <<visitor, carts, subtotal, lineVars, shop>>

Wipe(w) ==
  LET c == req[w].cart IN
  /\ At(w, "wipe")
  /\ items' = [i \in Items |-> IF i \in In(c) THEN None ELSE items[i]]
  /\ Goto(w, [at |-> "total", cart |-> c, sum |-> 0])
  /\ UNCHANGED <<visitor, carts, subtotal, made, shop, ops>>

-----------------------------------------------------------------------------
(* Reading a cart: refreshCart, buildCartResponse.                          *)

\* What a line should be, by the stock and the price of its size now.
Refreshed(i) ==
  LET s == items[i].size IN
  IF stock[s] = 0 THEN None
  ELSE Line(items[i].cart, s, Least(items[i].qty, stock[s]), price[s], items[i].seen)

\* The lines are read with their sizes; those that differ are to be written.
ReadCart(w, o) ==
  /\ At(w, "idle")
  /\ \E c \in ActiveOf(o) :
       LET plan == [i \in In(c) |-> Refreshed(i)]
           kept == {i \in In(c) : plan[i] # None}
       IN Goto(w, [at |-> "refresh", cart |-> c, plan |-> plan,
                   todo |-> {i \in In(c) : plan[i] # items[i]},
                   sum |-> SumFunctionOnSet([i \in kept |-> plan[i].sub], kept)])
  /\ UNCHANGED <<visitor, carts, subtotal, lineVars, shop, ops>>

\* The line stays where it is; a higher price has not been shown yet.
Rewritten(i, q, p, sub) ==
  [items[i] EXCEPT !.qty = q, !.price = p, !.sub = sub, !.seen = @ /\ p <= items[i].price]

\* One is deleted or written.  If it is gone, the request fails.
RefreshLine(w, i) ==
  LET r == req[w] IN
  /\ At(w, "refresh") /\ i \in r.todo
  /\ IF items[i] = None
     THEN Answer(w) /\ UNCHANGED items
     ELSE /\ items' = [items EXCEPT ![i] =
               IF r.plan[i] = None THEN None
               ELSE Rewritten(i, r.plan[i].qty, r.plan[i].price, r.plan[i].sub)]
          /\ Goto(w, [r EXCEPT !.todo = @ \ {i}])
  /\ UNCHANGED <<visitor, carts, subtotal, made, shop, ops>>

\* Fault variant: the total is what it was when the cart was read.
RefreshTotal_Stored(w) ==
  LET r == req[w] IN
  /\ At(w, "refresh") /\ r.todo = {}
  /\ items' = [i \in Items |-> IF i \in In(r.cart) THEN [items[i] EXCEPT !.seen = TRUE]
                               ELSE items[i]]
  /\ Answer(w)
  /\ UNCHANGED <<visitor, carts, subtotal, made, shop, ops>>

\* The total is written, and the lines there are now are shown.
RefreshTotal(w) ==
  LET r == req[w] IN
  /\ At(w, "refresh") /\ r.todo = {}
  /\ subtotal' = [subtotal EXCEPT ![r.cart] = r.sum]
  /\ items' = [i \in Items |-> IF i \in In(r.cart) THEN [items[i] EXCEPT !.seen = TRUE]
                               ELSE items[i]]
  /\ Answer(w)
  /\ UNCHANGED <<visitor, carts, made, shop, ops>>

-----------------------------------------------------------------------------
(* Ordering: the part of createOrder that touches the cart.                 *)

\* The lines are read with the prices of now.  blind: one of them has a price
\* the customer was not shown.
Submit(w, o) ==
  /\ Begin(w)
  /\ \E c \in ActiveOf(o) :
       /\ In(c) # {}
       /\ Goto(w, [at |-> "reprice", cart |-> c, plan |-> [i \in In(c) |-> price[items[i].size]],
                   qty |-> [i \in In(c) |-> items[i].qty],
                   size |-> [i \in In(c) |-> items[i].size],
                   todo |-> {i \in In(c) : price[items[i].size] # items[i].price},
                   changed |-> \E i \in In(c) : price[items[i].size] # items[i].price,
                   raised |-> \E i \in In(c) : price[items[i].size] > items[i].price,
                   blind |-> \E i \in In(c) : ~items[i].seen])
  /\ UNCHANGED <<visitor, carts, subtotal, lineVars, shop>>

Reprice(w, i) ==
  LET r == req[w] IN
  /\ At(w, "reprice") /\ i \in r.todo
  /\ IF items[i] = None
     THEN Answer(w) /\ UNCHANGED items
     ELSE /\ items' = [items EXCEPT ![i] =
               Rewritten(i, items[i].qty, r.plan[i], r.plan[i] * r.qty[i])]
          /\ Goto(w, [r EXCEPT !.todo = @ \ {i}])
  /\ UNCHANGED <<visitor, carts, subtotal, made, shop, ops>>

\* Fault variant: a higher price does not stop the order.
Decide_AnyPrice(w) ==
  LET r == req[w] IN
  /\ At(w, "reprice") /\ r.todo = {}
  /\ Goto(w, [at |-> "order", cart |-> r.cart, qty |-> r.qty, size |-> r.size,
              blind |-> r.blind \/ r.raised])
  /\ UNCHANGED <<visitor, carts, subtotal, lineVars, shop, ops>>

\* The total follows; a higher price stops the order, and the customer is told.
Decide(w) ==
  LET r == req[w]
      sum == SumFunctionOnSet([i \in DOMAIN r.plan |-> r.plan[i] * r.qty[i]], DOMAIN r.plan)
  IN /\ At(w, "reprice") /\ r.todo = {}
     /\ subtotal' = IF r.changed THEN [subtotal EXCEPT ![r.cart] = sum] ELSE subtotal
     /\ IF r.raised
        THEN /\ items' = [i \in Items |-> IF i \in In(r.cart) THEN [items[i] EXCEPT !.seen = TRUE]
                                          ELSE items[i]]
             /\ Answer(w)
        ELSE /\ Goto(w, [at |-> "order", cart |-> r.cart, qty |-> r.qty, size |-> r.size,
                         blind |-> r.blind])
             /\ UNCHANGED items
     /\ UNCHANGED <<visitor, carts, made, shop, ops>>

Wanted(r, s) == SumFunctionOnSet(r.qty, {i \in DOMAIN r.qty : r.size[i] = s})

\* The transaction takes the stock and closes the cart.
PlaceOrder(w) ==
  LET r == req[w]
  IN /\ At(w, "order")
     /\ IF \E s \in ProductSizes : Wanted(r, s) > stock[s]
        THEN UNCHANGED <<stock, status>>
        ELSE /\ stock' = [s \in ProductSizes |-> stock[s] - Wanted(r, s)]
             /\ status' = [status EXCEPT ![r.cart] = "CHECKED_OUT"]
     /\ Answer(w)
     /\ UNCHANGED <<visitor, owner, subtotal, lineVars, price, changes, ops>>

-----------------------------------------------------------------------------
(* A guest signs in: mergeGuestData.                                        *)

\* A browser of another account keeps what it has, ...
MergeLook(w, u, v) ==
  /\ Begin(w)
  /\ visitor[v] \notin Users \ {u}
  /\ Goto(w, [at |-> "link", user |-> u, visitor |-> v])
  /\ UNCHANGED <<visitor, carts, subtotal, lineVars, shop>>

\* ... else its Visitor row is written and held until the end, so that the
\* sign-ins of one browser take turns from here on.
MergeLink(w) ==
  /\ At(w, "link")
  /\ \A x \in Workers \ {w} : At(x, "linked") \/ At(x, "merge") =>
       req[x].visitor # req[w].visitor
  /\ Goto(w, [req[w] EXCEPT !.at = "linked"])
  /\ UNCHANGED <<visitor, carts, subtotal, lineVars, shop, ops>>

\* The guest's cart and the account's are read with their lines.
MergeRead(w) ==
  LET r == req[w]
      read(c) == [i \in In(c) |-> items[i]]
      local(g, c) ==
        [at |-> "merge", user |-> r.user, visitor |-> r.visitor, guest |-> g, cart |-> c,
         theirs |-> read(g), mine |-> IF c = None THEN <<>> ELSE read(c), cap |-> stock]
  IN /\ At(w, "linked")
     /\ IF ActiveOf(r.visitor) = {}
        THEN Answer(w) /\ visitor' = [visitor EXCEPT ![r.visitor] = r.user]
        ELSE /\ \E g \in ActiveOf(r.visitor) :
                  IF ActiveOf(r.user) = {} THEN Goto(w, local(g, None))
                  ELSE \E c \in ActiveOf(r.user) : Goto(w, local(g, c))
             /\ UNCHANGED visitor
     /\ UNCHANGED <<carts, subtotal, lineVars, shop, ops>>

\* A guest's line in the account's cart: its own, or with the one of the same
\* size.  The quantity is capped at the stock.
Merged(r, i) ==
  LET t == r.theirs[i]
      cap == IF r.cap[t.size] > 1 THEN r.cap[t.size] ELSE 1
      same == {j \in DOMAIN r.mine : r.mine[j].size = t.size}
      base == IF same = {} THEN t ELSE r.mine[CHOOSE j \in same : TRUE]
      qty == Least(IF same = {} THEN t.qty ELSE base.qty + t.qty, cap)
  IN [base EXCEPT !.cart = r.cart, !.qty = qty, !.sub = base.price * qty]

\* The row that holds it afterwards.
Target(r, i) ==
  LET same == {j \in DOMAIN r.mine : r.mine[j].size = r.theirs[i].size}
  IN IF same = {} THEN i ELSE CHOOSE j \in same : TRUE

\* Fault variant: the guest's cart is taken by number, whoever has it by now.
Claims_ById(r) == TRUE

\* The cart is claimed by an update that tests it again.
Claims(r) ==
  /\ status[r.guest] = "ACTIVE"
  /\ r.cart = None => owner[r.guest] \in Visitors

\* Without a cart of its own the account takes over the guest's; else the
\* guest's is abandoned and its lines are moved.  A line that is gone, and one
\* of the same size that came in meanwhile, fail the transaction.
MergeCommit(w) ==
  LET r == req[w]
      G == DOMAIN r.theirs
      gone == \E i \in G : items[i] = None \/ items[Target(r, i)] = None
      clash == \E i \in G : Target(r, i) = i /\
                 \E j \in OfSize(r.cart, r.theirs[i].size) : j \notin DOMAIN r.mine
      moved == [i \in Items |->
        IF i \in {Target(r, j) : j \in G}
        THEN LET j == CHOOSE k \in G : Target(r, k) = i
                 m == Merged(r, j)
             IN [items[i] EXCEPT !.cart = IF i = j THEN r.cart ELSE @, !.qty = m.qty,
                                 !.sub = m.sub]
        ELSE IF i \in G THEN None ELSE items[i]]
      after == {i \in Items : moved[i] # None /\ moved[i].cart = r.cart}
  IN /\ At(w, "merge")
     /\ CASE ~Claims(r) ->
               /\ visitor' = [visitor EXCEPT ![r.visitor] = r.user]
               /\ UNCHANGED <<carts, subtotal, items>>
          [] Claims(r) /\ r.cart = None ->
               /\ visitor' = [visitor EXCEPT ![r.visitor] = r.user]
               /\ owner' = [owner EXCEPT ![r.guest] = r.user]
               /\ UNCHANGED <<status, subtotal, items>>
          [] Claims(r) /\ r.cart # None /\ (gone \/ clash) ->
               UNCHANGED <<visitor, carts, subtotal, items>>
          [] Claims(r) /\ r.cart # None /\ ~gone /\ ~clash ->
               /\ visitor' = [visitor EXCEPT ![r.visitor] = r.user]
               /\ status' = [status EXCEPT ![r.guest] = "ABANDONED"]
               /\ items' = moved
               /\ subtotal' = [subtotal EXCEPT ![r.cart] =
                              SumFunctionOnSet([i \in after |-> moved[i].sub], after)]
               /\ UNCHANGED owner
     /\ Answer(w)
     /\ UNCHANGED <<made, shop, ops>>

\* migrateVisitor: a browser gets an id in the new form, which must be unused.
MigrateVisitor(w, v, n) ==
  /\ Begin(w)
  /\ v \in Legacy /\ n \notin Legacy
  /\ visitor[n] = Absent
  /\ visitor' = [visitor EXCEPT ![n] = None]
  /\ owner' = [c \in Carts |-> IF c \in ActiveOf(v) THEN n ELSE owner[c]]
  /\ UNCHANGED <<status, subtotal, lineVars, shop, req>>

-----------------------------------------------------------------------------
(* The shop.                                                                *)

ChangePrice(s, p) ==
  /\ changes < MaxChanges /\ p # price[s]
  /\ price' = [price EXCEPT ![s] = p]
  /\ changes' = changes + 1
  /\ UNCHANGED <<visitor, carts, subtotal, lineVars, stock, req, ops>>

ChangeStock(s, n) ==
  /\ changes < MaxChanges /\ n # stock[s]
  /\ stock' = [stock EXCEPT ![s] = n]
  /\ changes' = changes + 1
  /\ UNCHANGED <<visitor, carts, subtotal, lineVars, price, req, ops>>

\* The server is stopped, or loses the database, in the middle of a request.
Abort(w) ==
  /\ ~At(w, "idle") /\ ops < MaxOps
  /\ ops' = ops + 1
  /\ Answer(w)
  /\ UNCHANGED <<visitor, carts, subtotal, lineVars, shop>>

Start(w) ==
  \/ \E o \in Owners :
       \/ \E s \in ProductSizes : AddFind(w, o, s)
       \/ \E i \in Items :
            \/ \E q \in 1 .. MaxStock : SetQuantity(w, o, i, q)
            \/ RemoveItem(w, o, i)
       \/ ClearCart(w, o) \/ Submit(w, o)
  \/ \E u \in Users, v \in Visitors : MergeLook(w, u, v)
  \/ \E v, n \in Visitors : MigrateVisitor(w, v, n)

Serve(w) ==
  \/ AddCreate(w) \/ AddLook(w) \/ PutLine(w) \/ SumLines(w) \/ WriteTotal(w)
  \/ DropLine(w) \/ Wipe(w)
  \/ \E i \in Items : RefreshLine(w, i) \/ Reprice(w, i)
  \/ RefreshTotal(w) \/ Decide(w) \/ PlaceOrder(w)
  \/ MergeLink(w) \/ MergeRead(w) \/ MergeCommit(w)

Change ==
  \E s \in ProductSizes : \/ \E p \in Prices : ChangePrice(s, p)
                   \/ \E n \in 0 .. MaxStock : ChangeStock(s, n)

CartNext ==
  \/ \E w \in Workers :
       \/ Start(w) \/ Serve(w) \/ Abort(w)
       \/ \E o \in Owners : ReadCart(w, o)
  \/ Change

CartSpec == CartInit /\ [][CartNext]_cartVars

\* A request that is not stopped is served to its end, and a customer with a
\* cart looks at it again.
CartFairness ==
  /\ \A w \in Workers : WF_cartVars(Serve(w))
  /\ \A o \in Owners : SF_cartVars(\E w \in Workers : ReadCart(w, o))

-----------------------------------------------------------------------------
(* Properties.                                                              *)

\* Nobody is in the middle of a request.
Quiet == \A w \in Workers : At(w, "idle")

\* Whatever ran at once or was stopped half way, and whatever became of prices
\* and stock: once things are calm, the total of a customer's cart is what its
\* lines cost now, none of them beyond the stock.
LiveSum(c) ==
  SumFunctionOnSet([i \in In(c) |-> price[items[i].size] * items[i].qty], In(c))
CartConverges ==
  <>[](\A o \in Owners, c \in Carts : ActiveOf(o) = {c} =>
         /\ subtotal[c] = LiveSum(c)
         /\ \A i \in In(c) : items[i].qty <= stock[items[i].size])

\* mergeGuestCart: "Claim with a conditional update so two concurrent logins
\* can't both take the same guest cart".  A cart that belongs to an account, or
\* that was ordered from or abandoned, never changes hands.
GuestCartTakenOnce ==
  [][\A c \in Carts : owner[c] \in Users \/ status[c] # "ACTIVE" =>
       owner'[c] = owner[c]]_cartVars

\* One request at a time, the stored total of an open cart is the sum of its
\* lines between any two requests: adding, changing, removing, reading,
\* ordering and signing in each leave it so.
TotalsMatch ==
  Quiet => \A c \in Carts : status[c] = "ACTIVE" => subtotal[c] = LinesTotal(c)

\* createCart: "ensure user has only one active cart".
OneActiveCart == \A o \in Owners : Cardinality(ActiveOf(o)) <= 1

\* createOrder: "an increase stops the order so the customer sees the new price
\* before paying it".
PriceSeenBeforePaid == \A w \in Workers : At(w, "order") => ~req[w].blind
=============================================================================
