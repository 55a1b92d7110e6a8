----------------------------- MODULE Catalogue -----------------------------
(***************************************************************************)
(* One product and its sizes (src/product): the rows an admin's form, the  *)
(* stock ledger, barcodes, the price job, the manual quantity sync and the *)
(* permanent delete write at the same time.                                *)
(*                                                                         *)
(* Every transaction that changes a quantity also writes the Product row,  *)
(* so those wait for one another there and a short one is one action.  The *)
(* form and the delete take several steps, between which rows the database *)
(* does not hold for them change.                                          *)
(***************************************************************************)
EXTENDS Integers, FiniteSets, Functions, Handling

CONSTANTS
  Sizes,            \* the sizes of the product
  Pricings,         \* what a size may cost: base price and discounted price
  Jobs,             \* runs of the price job at once
  MaxForms,         \* bound: forms opened
  MaxMoves,         \* bound: movements of stock
  MaxLines,         \* bound: cart lines
  MaxQuantity       \* bound: quantity an admin types into the form

ASSUME CatalogueAssumption ==
  /\ Sizes # {} /\ IsFiniteSet(Sizes)
  /\ Pricings \subseteq [base : Nat, price : Nat]
  /\ {MaxForms, MaxMoves, MaxLines, MaxQuantity} \subseteq Nat
  /\ None \notin Nat

VARIABLES
  exists,           \* the Product row is there
  quantity,         \* ProductSize.quantity
  tracked,          \* sizes in PIECE_BARCODE mode, which have barcodes printed
  pricing,          \* ProductSize.basePrice and .price
  phase,            \* where now is relative to the discount window
  stored,           \* Product.price
  total,            \* Product.totalProductQuantity
  ledger,           \* sum of the StockAdjustment rows of a size
  notes,            \* StockAdjustment rows of the product
  received,         \* pieces that came into the warehouse
  lines,            \* lines of carts that name a size of the product
  ordered,          \* the product is on a line of some order
  job,              \* the price a run of the job is about to write
  forms, moves      \* counts, for the bounds

stockVars == <<quantity, tracked, ledger, notes, received>>
derived == <<stored, total>>
bounds == <<forms, moves>>
catalogueVars == <<exists, stockVars, pricing, phase, derived, lines, ordered, req, job, bounds>>

-----------------------------------------------------------------------------
(* Prices: src/common/utils/discount.utils.ts.                              *)

\* isDiscountWindowOpen: outside the window a size costs its base price.
Effective(p, now) == IF now = "open" THEN p.price ELSE p.base

\* The sizes a listing takes its price from: those in stock, if any.
Listed(q) ==
  LET inStock == {s \in Sizes : q[s] > 0}
  IN IF inStock = {} THEN Sizes ELSE inStock

\* derivedStoredPrice: the cheapest of them.
Derived(q, p, now) ==
  LET prices == {Effective(p[s], now) : s \in Listed(q)}
  IN CHOOSE x \in prices : \A y \in prices : x <= y

UnitsOf(q) == SumFunctionOnSet(q, Sizes)

-----------------------------------------------------------------------------
(* Requests.                                                                *)

Amounts == [Sizes -> Nat]

\* What a request remembers: the form an admin has open, one being saved with
\* the sizes it saw as not tracked, a sum, and the rows a delete saw or deleted.
Request ==
  {Idle}
  \cup [at : {"form"}, form : Amounts]
  \cup [at : {"saving"}, form : Amounts, new : [Sizes -> Pricings], legacy : SUBSET Sizes]
  \cup [at : {"sync"}, sum : Nat]
  \cup [at : {"checked"}]
  \cup [at : {"labels"}, lines : Nat, tracked : SUBSET Sizes, kept : BOOLEAN]
  \cup [at : {"cleaned"}, lines : Nat, tracked : SUBSET Sizes, kept : BOOLEAN, notes : Nat]

CatalogueTypeOK ==
  /\ exists \in BOOLEAN
  /\ quantity \in Amounts
  /\ tracked \subseteq Sizes
  /\ pricing \in [Sizes -> Pricings]
  /\ phase \in {"before", "open", "after"}
  /\ stored \in Nat
  /\ total \in Int
  /\ ledger \in [Sizes -> Int]
  /\ notes \in 0 .. MaxMoves /\ received \in 0 .. MaxMoves
  /\ lines \in 0 .. MaxLines
  /\ ordered \in BOOLEAN
  /\ req \in [Workers -> Request]
  /\ job \in [Jobs -> Nat \cup {None}]
  /\ forms \in 0 .. MaxForms /\ moves \in 0 .. MaxMoves

\* createProduct: every size starts empty, tracked if barcodes were asked for.
CatalogueInit ==
  /\ exists = TRUE
  /\ quantity = [s \in Sizes |-> 0]
  /\ tracked \in SUBSET Sizes
  /\ pricing \in [Sizes -> Pricings]
  /\ phase = "before"
  /\ stored = Derived(quantity, pricing, phase)
  /\ total = 0
  /\ ledger = [s \in Sizes |-> 0]
  /\ notes = 0 /\ received = 0 /\ lines = 0 /\ ordered = FALSE
  /\ req = [w \in Workers |-> Idle]
  /\ job = [j \in Jobs |-> None]
  /\ forms = 0 /\ moves = 0

\* Fault variant: the form writes the Product row after the sizes.
Free_FormLast == TRUE

\* Nobody is between writing the Product row and the commit.
Free == \A w \in Workers : ~At(w, "saving")

\* Nobody is about to commit the deletion of the product's labels.
LabelsFree == \A w \in Workers : ~At(w, "cleaned")

-----------------------------------------------------------------------------
(* Stock: recordAdjustment, for orders, receipts and corrections.           *)

\* The size, if it has the units, the product's total, and a StockAdjustment.
Move(s, d) ==
  /\ exists /\ moves < MaxMoves /\ Free
  /\ quantity[s] + d >= 0
  /\ quantity' = [quantity EXCEPT ![s] = @ + d]
  /\ total' = total + d
  /\ ledger' = [ledger EXCEPT ![s] = @ + d]
  /\ notes' = notes + 1
  /\ moves' = moves + 1
  /\ UNCHANGED <<exists, tracked, pricing, phase, stored, req, job, forms>>

Order(s) == Move(s, -1) /\ ordered' = TRUE /\ UNCHANGED <<received, lines>>

\* A label that was printed is scanned in.
Receive(s) ==
  /\ s \in tracked /\ LabelsFree
  /\ Move(s, 1)
  /\ received' = received + 1
  /\ UNCHANGED <<lines, ordered>>

\* adjustStock: refused for a tracked size.
Correct(s, d) == s \notin tracked /\ Move(s, d) /\ UNCHANGED <<received, lines, ordered>>

\* Printing barcodes moves a size onto piece tracking.
Generate(s) ==
  /\ exists
  /\ tracked' = tracked \cup {s}
  /\ UNCHANGED <<exists, quantity, pricing, phase, derived, ledger, notes, received,
                 lines, ordered, req, job, bounds>>

-----------------------------------------------------------------------------
(* The product form: updateProduct.                                         *)

\* An admin opens the form, which shows the quantities as they are now, ...
OpenForm(w) ==
  /\ At(w, "idle") /\ exists /\ forms < MaxForms
  /\ Goto(w, [at |-> "form", form |-> quantity])
  /\ forms' = forms + 1
  /\ UNCHANGED <<exists, stockVars, pricing, phase, derived, lines, ordered, job, moves>>

\* ... types a quantity and a price for a size and saves it.  The Product row
\* is written first, then the sizes are read: a tracked one must not have
\* another quantity.
EditProduct(w, s, q, p) ==
  LET form == [req[w].form EXCEPT ![s] = q] IN
  /\ At(w, "form") /\ Free
  /\ IF ~exists \/ \E t \in tracked : form[t] # quantity[t]
     THEN Goto(w, Idle)
     ELSE Goto(w, [at |-> "saving", form |-> form, new |-> [pricing EXCEPT ![s] = p],
                   legacy |-> Sizes \ tracked])
  /\ UNCHANGED <<exists, stockVars, pricing, phase, derived, lines, ordered, job, bounds>>

\* The sizes are written, and the price and the total derived from them.
EditCommit(w) ==
  LET r == req[w] IN
  /\ At(w, "saving")
  /\ quantity' = r.form
  /\ pricing' = r.new
  /\ stored' = Derived(r.form, r.new, phase)
  /\ total' = UnitsOf(r.form)
  /\ Goto(w, Idle)
  /\ UNCHANGED <<exists, tracked, ledger, notes, received, phase, lines, ordered, job, bounds>>

\* A form whose rows another transaction holds in the other order, or whose
\* server dies, is rolled back.
EditAbort(w) ==
  /\ At(w, "saving")
  /\ Goto(w, Idle)
  /\ UNCHANGED <<exists, stockVars, pricing, phase, derived, lines, ordered, job, bounds>>

\* A form with other colours or sizes is refused if a cart or a barcode names
\* a size, by the code, or a StockAdjustment does, by the foreign key; else the
\* sizes are deleted and made anew.
Restructure(w, p, t) ==
  /\ At(w, "form") /\ Free
  /\ IF ~exists \/ lines > 0 \/ tracked # {} \/ notes > 0
     THEN UNCHANGED <<stockVars, pricing, derived>>
     ELSE /\ quantity' = [s \in Sizes |-> 0]
          /\ tracked' = t
          /\ pricing' = [s \in Sizes |-> p]
          /\ stored' = Derived(quantity', pricing', phase)
          /\ total' = 0
          /\ UNCHANGED <<ledger, notes, received>>
  /\ Goto(w, Idle)
  /\ UNCHANGED <<exists, phase, lines, ordered, job, bounds>>

-----------------------------------------------------------------------------
(* The permanent delete: deleteProductBySlug.                               *)

\* Blockers: orders, received pieces and stock.
DeleteCheck(w) ==
  /\ At(w, "idle") /\ exists
  /\ ~ordered /\ received = 0 /\ UnitsOf(quantity) <= 0
  /\ Goto(w, [at |-> "checked"])
  /\ UNCHANGED <<exists, stockVars, pricing, phase, derived, lines, ordered, job, bounds>>

\* The cart lines are deleted, and the labels that never came in are listed.
DeleteLabels(w) ==
  /\ At(w, "checked")
  /\ Goto(w, [at |-> "labels", lines |-> lines, tracked |-> tracked, kept |-> received > 0])
  /\ UNCHANGED <<exists, stockVars, pricing, phase, derived, lines, ordered, job, bounds>>

\* The listed labels are deleted, whatever they are by now, and so are the
\* StockAdjustment rows.
DeleteRows(w) ==
  LET r == req[w] IN
  /\ At(w, "labels")
  /\ Goto(w, [at |-> "cleaned", lines |-> r.lines, tracked |-> r.tracked,
              kept |-> r.kept, notes |-> notes])
  /\ UNCHANGED <<exists, stockVars, pricing, phase, derived, lines, ordered, job, bounds>>

\* Fault variant: the lines of orders go with the product.
DeleteProduct_OrdersToo(w) ==
  /\ At(w, "cleaned") /\ Free
  /\ exists' = FALSE
  /\ lines' = 0
  /\ Goto(w, Idle)
  /\ UNCHANGED <<stockVars, pricing, phase, derived, ordered, job, bounds>>

\* The product goes with its sizes.  A foreign key refuses it, and the whole
\* transaction, if an order, a piece, a StockAdjustment or a cart line that was
\* not deleted still names it.
DeleteProduct(w) ==
  LET r == req[w] IN
  /\ At(w, "cleaned") /\ Free
  /\ IF \/ ~exists \/ ordered \/ r.kept
        \/ tracked # r.tracked \/ notes # r.notes \/ lines # r.lines
     THEN UNCHANGED <<exists, lines>>
     ELSE exists' = FALSE /\ lines' = 0
  /\ Goto(w, Idle)
  /\ UNCHANGED <<stockVars, pricing, phase, derived, ordered, job, bounds>>

-----------------------------------------------------------------------------
(* Jobs, customers and time.                                                *)

\* syncProductQuantity reads all sizes, ...
SyncRead(w) ==
  /\ At(w, "idle") /\ exists
  /\ Goto(w, [at |-> "sync", sum |-> UnitsOf(quantity)])
  /\ UNCHANGED <<exists, stockVars, pricing, phase, derived, lines, ordered, job, bounds>>

\* ... and writes the total afterwards.
SyncWrite(w) ==
  /\ At(w, "sync") /\ Free
  /\ total' = IF exists THEN req[w].sum ELSE total
  /\ Goto(w, Idle)
  /\ UNCHANGED <<exists, stockVars, pricing, phase, stored, lines, ordered, job, bounds>>

\* Fault variant: a price that rose is left as it is.
JobRead_OnlyDown(j) ==
  /\ job[j] = None /\ exists
  /\ Derived(quantity, pricing, phase) < stored
  /\ job' = [job EXCEPT ![j] = Derived(quantity, pricing, phase)]
  /\ UNCHANGED <<exists, stockVars, pricing, phase, derived, lines, ordered, req, bounds>>

\* syncAllProductPrices, every minute: a price that differs is written later.
JobRead(j) ==
  /\ job[j] = None /\ exists
  /\ Derived(quantity, pricing, phase) # stored
  /\ job' = [job EXCEPT ![j] = Derived(quantity, pricing, phase)]
  /\ UNCHANGED <<exists, stockVars, pricing, phase, derived, lines, ordered, req, bounds>>

JobWrite(j) ==
  /\ job[j] # None /\ Free
  /\ stored' = IF exists THEN job[j] ELSE stored
  /\ job' = [job EXCEPT ![j] = None]
  /\ UNCHANGED <<exists, stockVars, pricing, phase, total, lines, ordered, req, bounds>>

\* A customer puts a size into a cart.
AddToCart ==
  /\ exists /\ lines < MaxLines
  /\ lines' = lines + 1
  /\ UNCHANGED <<exists, stockVars, pricing, phase, derived, ordered, req, job, bounds>>

\* The discount window opens, and closes.
WindowTurns ==
  /\ phase # "after"
  /\ phase' = IF phase = "before" THEN "open" ELSE "after"
  /\ UNCHANGED <<exists, stockVars, pricing, derived, lines, ordered, req, job, bounds>>

-----------------------------------------------------------------------------
\* What the server does for a request it is in the middle of.
Finish(w) ==
  \/ EditCommit(w) \/ EditAbort(w)
  \/ DeleteLabels(w) \/ DeleteRows(w) \/ DeleteProduct(w)
  \/ SyncWrite(w)

CatalogueNext ==
  \/ \E s \in Sizes : Order(s) \/ Receive(s) \/ Correct(s, 1) \/ Correct(s, -1) \/ Generate(s)
  \/ \E w \in Workers :
       \/ OpenForm(w) \/ DeleteCheck(w) \/ SyncRead(w)
       \/ \E s \in Sizes, q \in 0 .. MaxQuantity, p \in Pricings : EditProduct(w, s, q, p)
       \/ \E p \in Pricings, t \in {{}, Sizes} : Restructure(w, p, t)
       \/ Finish(w)
  \/ \E j \in Jobs : JobRead(j) \/ JobWrite(j)
  \/ AddToCart \/ WindowTurns

CatalogueSpec == CatalogueInit /\ [][CatalogueNext]_catalogueVars

\* A transaction ends, and the job runs every minute.  Nobody has to save a
\* form.
CatalogueFairness ==
  /\ \A w \in Workers : WF_catalogueVars(Finish(w))
  /\ \A j \in Jobs : WF_catalogueVars(JobRead(j)) /\ WF_catalogueVars(JobWrite(j))

FairCatalogue == CatalogueSpec /\ CatalogueFairness

-----------------------------------------------------------------------------
(* Properties.                                                              *)

\* Product.totalProductQuantity follows the sizes: in every transaction that
\* changes a quantity it is moved by as much or counted again, although the
\* form counts sizes that others may be changing.  Only the manual sync writes
\* a number it read earlier.
TotalFollowsSizes ==
  [][total = UnitsOf(quantity) =>
       total' = UnitsOf(quantity)' \/ \E w \in Workers : SyncWrite(w)]_catalogueVars

\* The stock of a piece-tracked size changes only with a StockAdjustment row:
\* a form that was opened before a sale never writes the old number back.  A
\* form that read the size before it became tracked is the exception.
SeenAsLegacy(s) == \E w \in Workers : At(w, "saving") /\ s \in req[w].legacy
TrackedMovesAreNoted ==
  [][\A s \in tracked \cap tracked' :
       ~SeenAsLegacy(s) => quantity'[s] - quantity[s] = ledger'[s] - ledger[s]]_catalogueVars

\* Whatever interleaves, a quantity moves together with what is kept of it.
StockMovesTogether == TotalFollowsSizes /\ TrackedMovesAreNoted

\* A product that was ordered is never deleted, whatever lands between the
\* check and the delete.
DeletedWasNeverOrdered == ~exists => ~ordered

\* "If an order or a received piece lands between the check and the delete,
\* ... the whole transaction rolls back": no received piece goes with it.
DeletedHadNoPieces == ~exists => received = 0

\* Once the window is over and nobody changes the product any more, the price
\* that listings filter and sort by becomes the price that is charged, even
\* when a job that read old rows writes after a form.
StoredPriceConverges == <>[](exists => stored = Derived(quantity, pricing, phase))
=============================================================================
