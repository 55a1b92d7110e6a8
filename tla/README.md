# Verification of the furniture shop backend

TLA+ models of the parts of this NestJS/Prisma backend whose correctness
depends on the order in which requests, courier events, gateway callbacks and
crashes happen; TLC configurations that check them on small instances; and
TLAPS proofs of what they promise for instances of every size.

Paths are relative to `src/`. One PostgreSQL database (schema in
`prisma/schema.prisma`) holds all the state except where noted; the server runs
several requests at once, and its transactions run at READ COMMITTED.

## 1. The system

| Part | State | Operations | Correct when | Module |
|---|---|---|---|---|
| Barcoded pieces, `src/piece` | `Piece.status`, one row per unit | generate, receive (good or damaged), void, scan a return | a piece moves only along its life cycle | `Fulfilment` |
| Reservations, `src/reservation` | `OrderLineReservation`, `ShipmentGroup` | reserve, release, confirm a pick, mark a group shipped, delivered, returning | a line is not overfilled; a reserved piece can be picked or released; only fully picked orders ship | `Fulfilment` |
| Order status, `src/order-status` | `Order.status`, `stockRestored` | `applyStatusChange`, which closes orders, restores stock and collects cash | stock and pieces are given back exactly once | `Fulfilment`, `Payment` |
| Stock ledger, `src/inventory` | `ProductSize.quantity`, `StockAdjustment` | one conditional increment or decrement | quantity is never negative and agrees with the pieces | `Fulfilment`, `Catalogue` |
| Couriers, `src/courier` | `CourierShipment` | book, cancel, webhook, poll, manual status | events are repeated and reordered without harm | `Fulfilment` |
| Payments, `src/payment` | `Payment`, sessions of SSLCommerz | open a page, success, fail and cancel redirects, IPN | a payment reaches its order once; none is lost; once its page has been opened a settled one stays settled | `Payment` |
| Refunds and returns, `src/refund` | `ReturnRequest`, `PaymentRefund` | file, cancel, review, receive, refund, complete, sync | no more is refunded than was paid; items come back once | `Refund` |
| Checkout, `src/order` | `Order`, one-time codes, coupon counters | `createOrder`, `sendOrderOtp` | nothing is oversold; no code or use of a coupon counts twice | `Checkout` |
| Public read cache, `src/common/cache` | per process: entries, loads in flight, generation | get or load, clear | no answer from before a write is served after the clear; bounds | `PublicReadCache` |
| Products, `src/product` | product, size and price columns | the form, permanent delete, price job, quantity sync | totals follow the sizes; sold products stay | `Catalogue` |
| Carts, `src/cart` | `Cart`, `CartItem` | add, change, remove, read, order from, take over at sign-in | totals and prices shown are those paid | `Cart` |
| Coupons and categories, `src/cms`, `src/category` | `Coupon` and its restrictions, the tree | edit, switch, delete; apply to a cart | a coupon that was shown is honoured or the order refused | `Offers` |
| Listings, recommendations, partner stock lists | none | pages, cursors, choices tier by tier | no row is skipped or repeated | `Browse` |
| Authentication, `src/auth` | accounts, codes, tokens, failed attempts | register, verify, log in, Google, refresh, log out | limits hold; signing out is final; contacts stay their owner's | `SignIn` |
| Guests, account deletion, `src/guest`, `src/user` | `Visitor`, orders, product views | look, buy, merge into an account, delete an account | what a device did goes to one account | `Visitors` |
| Support, `src/support` | `SupportTicket`, replies | reply, change status, assign | no reply is left in a ticket that counts as done | `Tickets` |
| Content, `src/cms`, `src/featured-category`, ... | palette, tiles, banners, campaigns, pages | create, edit, reorder, delete | orders are whole, campaigns run forward, limits hold | `Content` |

How they interact. Checkout takes units from the ledger; pieces are reserved for
an order's line and picked; a booking with a courier moves its pieces to SHIPPED
and the order as far as the courier's first status says; courier events arrive
by webhook or by poll and change the shipment, then the order through
`applyStatusChange`, and some of them then cascade onto the pieces; closing an
order gives back its stock and releases its pieces; a payment confirms the
order; a return or a cancellation leads to refunds. A cart, with its coupon, is
what checkout orders from; at a sign-in a device's cart, orders and views go to
the account. Writes to products and stock clear the public read cache; changes of an
order's status, reviews and discounts that begin or end leave it to expire.

What is hard. Most handlers read, decide, and only then open the transaction (or
run the single statement) that acts, with no lock between; the exceptions are
`FOR UPDATE` in `cancelOrder`, an advisory lock per guest phone, rows a
transaction has already written, and conditional `updateMany` claims. Couriers
and the gateway repeat and reorder their calls; loops over rows often have no
transaction; a process may die between any two statements. `PROJECT.json`
lists each such hazard at its line, with the properties that would notice.

## 2. The modules

| Module | Models | Run by | Proved about in |
|---|---|---|---|
| `Statuses` | enums and status tables several services share | with `Fulfilment`, `Payment`, `Refund` | |
| `PieceLifecycle` | abstract: what the warehouse is promised about one barcode | as a property of `FulfilmentSeq` | `Fulfilment_proofs` |
| `Fulfilment` | pieces, reservations, order status, ledger, bookings, courier events | `MCFulfilment`, `MCFulfilmentRaces` | `Fulfilment_proofs` |
| `Payment` | how one order is paid | `MCPayment` | `Payment_proofs` |
| `Refund` | returns and refunds of one paid order | `MCRefund`, `MCRefundRaces` | `Refund_proofs` |
| `OrderBook` | abstract: an order is placed at one instant or not at all | as a property of `Checkout` | `Checkout_proofs` |
| `Checkout` | `createOrder` statement by statement | `MCCheckout` | `Checkout_proofs` |
| `PublicReadCache` | the in-process cache | `MCPublicReadCache` | `Shop_proofs` |
| `Catalogue` | one product and its sizes | `MCCatalogue` | `Shop_proofs` |
| `Cart` | carts of accounts and of guests | `MCCart` | `Shop_proofs` |
| `Offers` | coupons, the tree, a cart with a coupon | `MCOffers` | `Shop_proofs` |
| `Browse`, `SignIn`, `Visitors`, `Tickets` | four systems that share no state | `MCStorefront` | `Storefront_proofs` |
| `Content` | what the staff edit, a fifth one | `MCStorefront` | `Content_proofs` |
| `Handling`, `Turns` | a request in the middle of its handler; requests one at a time | with `Catalogue`, `Cart`, `Offers` | |
| `Overlay` | one function laid over another | with `SignIn`, `Content` | |
| `Sums` | library: sums over finite sets | | proved there |

An `MC` module gives constants their values, names the symmetries and, where a
system is checked in several settings, adds a variable that says which (`overlap`,
`setting`, `barcodes`, `crowded`, `topic`): it is chosen at the start and never changes, so
one run explores them all. Properties named `...Alone` are those that need the
requests to be served one at a time; the same run checks the others while they
overlap. Operators named `X_Y` and marked "Fault variant" are no part of a
specification: each is what `X` would be with a plausible mistake in the code, kept
to show that a property notices it.

**Requests and steps.** `Workers` (`Requests`, `Clerks`, `Servers`, `Editors`,
`Agents`, `Readers`) are the requests that may be in progress at once, and a
function from them holds the locals a handler has read and acts on later. A handler
is split where another request can slip in: most read and check, then run a
transaction or a statement. At READ COMMITTED the conditions of a transaction's
conditional updates are evaluated when it runs them, not when the handler read; where
a transaction takes several statements that others may see between, each is a
step of its own, and the rows it wrote are held until it commits (`Checkout`,
`Content`). Reads that follow each other with no decision between that could
matter are one step. `Abort`, `GoesDown` and the like end a request at any point: a
check failed, a time-out, a deadlock's victim, or the process died.

**Fulfilment.** One barcoded variant; every order has one line of `Qty[o]` units.
`piece`, `rows`, `group`, `quantity`, `status`, `stockRestored` and `shipment` are the
columns of their names; `restocks` counts the ledger entries that closing an order
wrote. `PlaceOrder` is checkout as far as stock sees it. `cancelOrder` is one step
because `SELECT ... FOR UPDATE` holds the order's row. `ApplyStatusChange(o, new,
seen, restored)` decides on what the request has read; the courier sync, the
manual dropdown and the cancellation share it. A webhook is three steps: record the
event, sync the order, cascade onto the pieces; the cascade has no transaction and
may stop after any subset. A poll never cascades. `TimelySpec` is the system
whose couriers send no RETURNED for an order one of whose pieces has been reserved
again since: the code accepts such an event and moves the piece out of its new
order, so the statements about pieces and books hold only without it.

**Payment.** `src/payment` uses no transaction, so each statement is a step. `gateway`
is what SSLCommerz knows of a session, None while no page was given out; it may answer
VALIDATED instead of VALID once it has validated a transaction. The callbacks carry no
sign-in and ask for no session: from the moment a row exists, which is when `initiateSSL`
gives out its id, it can be failed, cancelled or sent a `val_id` the gateway does not know
(INVALID). That a `val_id` the gateway does validate is of the session it is sent for is
assumed of the gateway and the customer; the code compares amounts, not ids. `Short` are sessions paid in another amount; `Moves`
the statuses that other handlers may give the order meanwhile. `applied` counts how
often a payment was written to the order.

**Refund.** One order with one line of unscanned units. A refund is read and decided,
its row created, the gateway asked, the answer recorded. `finalizeRefundCompletion`
takes the refund's row, then the payment's, reads the order with its payments and
commits; its three steps hold those rows (`RowFree`). With `Failures = TRUE` requests
may end anywhere and an error of the gateway may hide an acceptance. Amounts are
whole units.

**Checkout** and **OrderBook.** The one-time code is claimed by a conditional update
before the transaction; in it a guest's phone is locked (`pg_advisory_xact_lock`), the
recent orders counted, sizes and products decremented one by one, the coupon's uses
counted and its counter raised, the order and its lines inserted, the cart closed.
`held` are the rows written and not committed; a request that wants one waits,
and `Deadlock` is the database failing one of a circle. `OrderBook`
places an order in one step; `CheckoutImplementsOrderBook` maps `TxCommit` to it and
everything else to a stutter or to a change of the environment.

**PublicReadCache.** A JavaScript process runs one callback at a time, so a step is
what happens between two awaits. Values are told apart by the number of
writes the database had seen when the loader read. A writer commits and calls
`clear()` some time later. `Store` is the synchronous part after the loader's answer,
eviction included; `Settle` is the `finally` and the answer to everyone who waits.

**Catalogue.** A form remembers what it was opened with; saving it rebuilds colours
and sizes. A transaction that changes a quantity also writes the Product row, so short
ones wait for each other there and are one action; the form and the delete take several.

**Cart** and **Offers.** `src/cart` uses no transaction: adding a line, the total and
the refresh of prices are separate statements. A line remembers the price it was last
written with; `blind` says that an order would be charged at a price its customer has
not been shown. In `Offers` a cart is a set of products; `hope` is the coupon its
customer was shown, `due` what its restricted lines were worth.

**Browse.** A reader walks the pages of a listing, a partner reads stock by cursor,
products are chosen tier by tier, while rows are inserted, switched, sorted elsewhere and
deleted. A write that is announced (`emitStockUpdated`, the products' own writes) is
followed by a `Clear` some time later (`dirty`); one that is not, a courier's cancellation
for example, leaves what was cached until it expires (`drift`). Two listings and two kinds of
choices are cached. A reading is `quiet` while nothing has changed since it began, and
`fresh` unless something in it came from the cache while `dirty` or `drift`. Each
`Listing(...)` names one query of the code and what matters of it: whether its order ends
with the id, its filter, its cache, the order of count and rows. **SignIn** serves each
request query by query; a code is the row it was sent by. **Visitors** has the deletion of
accounts with the rows that refuse it, and `mergeGuestData`. **Tickets** has one ticket
with its times. **Content** writes every handler as the list of its statements and
checks (`UpdateTile == <<"find", "room", "update">>`), which one set of actions executes.

## 3. The runs

Distinct states are those of an exhaustive search; a violation run stops at its
first counterexample.

| Run | Instance | Distinct states | Shows |
|---|---|---|---|
| `FulfilmentSeq` | `TimelySpec`: 3 orders of a unit, 1 piece, 1 courier, one request at a time, 3 reservation rows | 771,593 | orders compete for a piece through booking, replayed events, cancellation and returns: `PieceRowsAgree`, `BooksBalance`, `ImplementsLifecycle` |
| `FulfilmentRaces` | *overlap*: an order of one unit, 2 workers, 2 pieces; *couriers*: an order of two units, 2 couriers, the dropdown, one worker | 1,311,498 | `OverrunBounded` and `ReservedHasOpenRow` under interleaving; `OrdersAddUpAlone` for an order booked twice, reopened and closed again |
| `Payment` | 2 sessions, one paid short, cash on delivery with an advance, 3 workers, overlapping or not | 1,116,118 | `AppliedAtMostOnce`, `PaidIsRecorded`, `SettledStaysSettled`; `PaidOnceAlone` |
| `Refund` | *alone*: 3 units, paid 1 in cash and 2 online, 2 returns, 3 refunds; *overlap*: 2 units online, failures, 3 rows in all | 313,107 | `BooksHoldAlone`, `CompletedOnceAlone`; `RequestedHasRequest`, `CompletedIsBacked` |
| `Checkout` | 4 customers, 5 carts, 2 requests, 3 sizes of 2 products, 3 orders | 247,042 | `OrdersAreAtomic` (the refinement), `GuestOrdersLimited`, `PerUserLimitOnSharedProducts`, `SubmissionsAreAnswered` |
| `CacheReads` | 2 loads, 2 requests, room for 2 entries of 3 bytes in all; *crowded*: 3 keys, a write; else 2 keys, 2 writes | 209,016 | `NothingStale`, `AnswersAreFresh`, `WithinBounds`, `EveryoneIsAnswered` |
| `Catalogue` | 2 sizes, 2 workers, 1 job, with barcodes or without | 439,750 | `DeletedWasNeverOrdered`, `StockMovesTogether`, `StoredPriceConverges` |
| `Cart` | a customer, 2 visitors (one with an old id), 2 carts, 2 lines, overlapping or not | 159,427 | `GuestCartTakenOnce`, `CartConverges`; `ShownIsPaidAlone` |
| `Offers` | 2 series, 2 categories, 1 subcategory, 2 products, a coupon, overlapping or not | 217,380 | `DeadCouponUnblocks`; `HonouredAlone`, `LiveStaysAlone` |
| `Storefront` | the five systems of `MCStorefront`, each by itself | 1,233,666 | `WalksAreExact`, `ChosenAreSound`; `LimitsHoldAlone`, `SignedOutStays`, `CustomersKeepTheirs`; `GuestDataAlone`; `RepliesReopenAlone`; `ReordersAreWhole`, `ContentIsSoundAlone` |
| `PaymentReopens`, `ReturnRestockedTwice` | see section 5 | violation | the code against its own comments |

Why the bounds are enough for what they are asked:

- *Workers.* Two suffice for a race between one handler's read and commit and any
  other handler; three in `Payment` let the redirect, the IPN and a failure callback of one
  payment overlap. For what is proved their number does not matter.
- *Fulfilment.* Three rows let three orders hold one piece in turn, or one of them lose it and
  hold it again; they let an order of two be overfilled, and a piece be reserved, released and
  reserved again. At the bound `ReserveCommit` is not possible and the request can still abort. The events are one
  of each class the code tells apart: a forward one, a delivery, a closing one that
  restocks at once, and a return that waits for the scan.
- *Refund.* With overlap, a return and two refunds, or two returns and one, are enough for a
  request that acts on another's row. Two payments make "the most recent payment" and "every payment" differ from
  "this payment"; three units let partial returns add up.
- *Checkout.* Two carts of one account, one with a product of a rival's, one guest and an
  account that orders to the guest's phone: each limit is met by two submissions. Three
  orders and two sizes taken in either order give waits in a circle.
- *CacheReads.* A big value, a small one and one too big to be stored make eviction drop one
  or two entries, or store nothing; two writes let a load overlap a clear, and a newer load
  of its key overlap a second one, for which two keys are enough; *crowded*, with a third key,
  makes what is loaded push out what another request is about to find.
- *Catalogue, Cart, Offers.* A second size, cart, line or category tells "this one" from
  "all"; one change of a price or of the stock between any two statements is what a request
  can miss, a second one is like another request. Where requests overlap, what
  customers start, what is given up and what the shop changes are three in all in `Cart`, and an
  edit and two requests in `Offers`: two handlers and what comes between them; one at
  a time, edits and requests are three in all in `Offers`.
- *Storefront.* Three rows of page size two make two pages, the last one not full, with ties
  within and across them, and one row that moves between the pages; cursors and choices have
  four rows. One writer at a time is between its commit and its clear. Whether a write is
  announced is told apart for what is cached and claimed; joining a load of another reader
  is left to `PublicReadCache`. Two clerks, editors and customers overlap in
  pairs; each limit (`HourlyLimit`, `MaxChecks`, `MaxFailures`, `MaxShown`) is
  smaller than the number of requests that push against it. `Topics` cuts the requests of
  `SignIn` by the hazards they can meet together. The five systems share no variable, so a
  behaviour of all of them is one of each.

Deadlock is not checked: each of these systems may stop (all orders closed, all rows
used, all writes made) and nothing in the code says that it goes on. Symmetry is
declared where values are interchangeable and never in a run with a liveness property.
`MCSpec` of a module narrows its specification to these settings: each of its behaviours is one
of the specification that the theorems are about.

## 4. Fairness

- `PublicReadCache`: weak fairness of the steps of each load. The loader's query is
  answered or fails, and the event loop runs every callback that is ready.
- `Checkout`: strong fairness of each submission. A transaction that waits for a row is
  queued by the database, and one in a circle is failed by its deadlock detector; without
  this, `SubmissionsAreAnswered` would say nothing.
- `Catalogue`: weak fairness of transactions under way and of the price job, which a cron
  expression starts every minute. Nobody has to save a form.
- `Cart`, `Offers`: weak fairness of serving what is in progress, and strong fairness of a
  customer with a cart looking at it again, since the repair of totals and of dead
  coupons is done by that read and by nothing else.

Requests, courier events, writers and admins are never assumed to do anything. The
other components claim no liveness: no job retries a failed cascade, a payment page
without an answer or a refund whose answer was lost; a person does.

## 5. Where the code departs from its comments

| Run | The comment | The run |
|---|---|---|
| `PaymentReopens` | `src/payment/payment.service.ts:445`: "Only confirm an order that is still live" | a page left open is paid after the order was delivered; the order becomes CONFIRMED |
| `ReturnRestockedTwice` | `src/order-status/order-status.service.ts:41`: every status change goes through `applyStatusChange` | the courier's RETURNED restores the stock of an approved return, receiving the items restores it again |

Statements one would wish for are in the modules, marked, and belong to no run since TLC
refutes them. They mark where a property's hypothesis is needed:

| Module | Refuted |
|---|---|
| `Fulfilment` | `BookedOnlyWhenOpen`, `SyncOnlyForward`, `ReleaseNeverDropsPick` when requests overlap; one at a time `ClosedOrderHoldsNoPiece` (`reserve` never looks at the order's status), `ShippedRestockedOnlyByScan` (an order whose pieces are out is closed after its shipment failed), `ReplayMovesNothingElse` (a late RETURNED or DELIVERED moves a piece that another order has); `PieceRowsAgree` and `BooksBalance` without `Timely`; `BooksBalance` with two couriers |
| `Payment` | with overlap `SettledFromTheStart` (a row that a callback cancels while its opening waits for the gateway is set to PROCESSING by the answer, `src/payment/payment.service.ts:275`), `SettledIsFinal` (once the page is open: the loser of a double success callback writes FAILED over PAID), `OneLivePayment`, `RemainderOnce` |
| `Refund` | `FailedIsRetryable` (the first of two partial refunds to complete marks the payment REFUNDED; the other fails and cannot be repeated) |
| `Cart` | `PriceSeenBeforePaid` with overlap; `OneActiveCart` |
| `Catalogue` | `DeletedHadNoPieces`: labels received between the listing and the delete go with the product |
| `Offers` | `HonouredOrRefused` (a deleted coupon is unlinked by the database), `RestrictionNotWidened` (a coupon whose only category was deleted discounts every cart), `FiledStays`, and with overlap `LiveStays`, `AllCouponsSound` |
| `Browse` | `TiedWalkIsExact` (most listings are sorted by one column), `CachedWalkIsExact` (after a change that does not clear the cache, or before the clear of one that does, the first page is old and the second is not), `AdviceIsShown` (a choice from the cache has sold out), `LowStockMissesNothing` |
| `SignIn` | with overlap `CodesWithinCap`, `FailuresWithinCap`, `VerifiedKeepsDetails`; one at a time `SignedInKeepsDetails` |
| `Visitors` | with overlap `GuestOrdersGoToOne`, `MergeNeverCollides`, `OrdersKeepCustomer`; one at a time `FailedDeletionKeepsRows` |
| `Tickets` | `RepliesReopen` with overlap; one at a time `ClosingTimeFits`, `AssignedToActive` |
| `Content` | with overlap `RowsAreSound` for tiles, label sizes and reviews; one at a time `OneBannerEach`, `NothingLost` (`deleteDistrict`), `KeysAreOwn` (`updateColor`) |

Other behaviour the models reproduce and no property covers: the cart's status is not
looked at again in `createOrder`'s transaction, so a trusted account that submits twice
places two orders; `perUserLimit` is counted before the order is inserted and holds
only between carts with a product in common (proved); two orders may be given the same
invoice number and one is refused; the lines of a closed cart can be written; a line
added to a guest's cart between the read and the commit of its merge stays in the
abandoned cart; the update of a subcategory looks for its slug in the category table; two
updates of a coupon at once leave the union of their restrictions; a size that is not
tracked by barcode gets its quantity from the form without a `StockAdjustment`.

## 6. The proofs

Every theorem is `Spec => [] ...`, an action property or a refinement, for all values
of the constants under the module's named assumption (`FulfilmentAssumption`,
`PaymentAssumption`, `CacheAssumption`, `RefundAssumption`, `CheckoutAssumption`,
`CatalogueAssumption`, `SignInAssumption`, ...), which TLC evaluates in each run. Besides the
ranges of the constants these say that markers such as `None` and `Gone` are no rows
(`RowAssumption`, `CouponAssumption`) and that a shop has finitely many products. No
theorem bounds the number of workers, rows, orders or messages. The type invariants are
proved (`TypeCorrect` in each module) rather than run.

| Module | Theorems | By |
|---|---|---|
| `Fulfilment_proofs` | any interleaving: `TypeCorrect`, `RequestsValid`, `NoOrphanReservation`, `OnlyReceivedReserved`, `OverrunAtMost` | `IInv` |
| | one at a time, one courier, `TimelySpec`: `SerialInvariance`, `RowsAndPiecesAgree`, `TheBooksBalance`, `FollowsLifecycle`, `ShippedIsComplete` | `IInv`, `Serial` |
| | setting *couriers*: `OrdersAddUp` | `IInv`, `FlagTells` |
| `Payment_proofs` | `TypeCorrect`, `ExclusiveRequests`, `WrittenAtMostOnce`, `NoPaymentLost`, `SettledForGood` | `IInv`, payment by payment |
| | without overlap: `PaidOnce` | `SerialInv` |
| `Refund_proofs` | `TypeCorrect`, `NeverStuckAtRequested`, `NoUnbackedCompletion` | `IInv` |
| | without overlap or failures: `BooksHold`, `CompletesOnce` | `SerialInv` |
| `Checkout_proofs` | `TypeCorrect`, `StockIsCovered`, `CouponLimitHolds`, `CodesAreUsedOnce`, `AttemptCapHolds`, `GuestLimitHolds`, `CheckoutImplementsOrderBook` | `IInv` |
| | `UserLimitHolds` | `UserLimitInv` |
| `Shop_proofs` | the cache: `CacheTypeCorrect`, `NoStaleEntry`, `NoStaleAnswer`, `LoadsAreShared`, `BoundsAreKept` | `CacheInv` |
| | the catalogue: `CatalogueTypeCorrect`, `OrderedIsKept`, `StockStaysTogether` | `CatalogueInv` |
| | carts, any interleaving: `CartsChangeHandsOnce`; one at a time: `ShownIsPaid` | `CartInv`; with `CartAloneInv` |
| | coupons, one request at a time: `OrdersAreHonoured`, `LiveCouponsStay` | `OffersAloneInv` |
| `Storefront_proofs` | each of a system by itself and of the run's composition: `QuietWalksAreExact` / `WalksExact`, `ChoicesAreSound` / `ChosenSound`, `SignedOutForGood` / `SignedOut`, `ChecksAreCapped` and `LimitsHoldInTurn` / `LimitsHold`, `DetailsKeptInTurn` / `DetailsAreKept`, `GuestDataInTurn` / `GuestDataGoesToOne`, `RepliesReopenInTurn` / `RepliesAreAnswered` | see below |
| `Content_proofs` | any interleaving: `ReordersWhole` / `ReordersInRun`, `CampaignsForward`; one at a time: `RowsSound`; both: `ContentSound` | `ContentTells`; `AloneTells` |
| `Sums` | sums over finite sets: one element more or less, pointwise order, change at a point | minimal counterexamples |

- *Fulfilment, any interleaving.* "A reserved piece has an open row" is not inductive: a
  pending pick or release may act on a row that was meanwhile deleted and created again
  for another piece. What rules it out is that row ids are never reused, so the row a request
  has read, if it still exists, is about the same piece (`RequestsStayValid`). For the
  bound on overfilling, the requests that passed the count check are counted together with
  the rows: a commit trades one for the other.
- *Fulfilment, one at a time.* The newest row of a piece tells where it is (`RowTells`),
  the rows of an order how far its group is (`OrderTells`), and what a request
  has read is still so, since nobody else runs (`RequestTells`). A crash in a cascade
  leaves any subset of the pieces moved, which is why `RowTells` allows each piece both.
  `BooksBalance` is then a sum that each step moves on both sides by the same amount. The
  refinement of `PieceLifecycle` maps each handler to one abstract step per piece.
- *Payment.* A payment is written once because the claim is one conditional update from an
  unsettled status and everything after is done by the request whose claim succeeded. A
  settled status is left only by the request that opens the page, which holds no row and
  writes whatever the row has become; a row being opened has no page, so it was never PAID.
  The invariant says of each row what its status, its session, the times it was written and
  the requests about it say of each other.
- *Refund.* The order is at RETURN_REQUESTED only while some request is open, but that alone is
  not inductive: a completion in progress closes its request when it commits, having decided
  earlier whether to bring the order back. `RequestedIsOpen` asks for a witness whose
  pending completions have all decided to. `AskedOnce` says that a refund is sent to the
  gateway once, so that its answer is about it. The books need `~Failures`: a lost answer
  leaves a FAILED row whose refund the gateway makes anyway, and the balance is granted again.
- *Checkout.* What a transaction has written and holds (`held`) nobody else
  writes; so what it counted stays true until it commits, and the commit is the one
  instant at which `OrderBook` places the order. Without a row in common nothing keeps two
  orders of one customer apart, so `UserLimitHolds` is about orders that pairwise share a
  product.
- *PublicReadCache.* Each `clear()` answers one commit and raises the generation; a load of the
  current generation that has its value read it after the last clear. Eviction
  drops the least number of oldest entries that makes room, and the running total is the sum of
  what is left.
- *Cart.* A cart is taken over by an update that tests it again, and one that an order or a merge
  is about to close belongs to somebody (`Held`), so that it is not mistaken for a row that was
  never made. One at a time, what a handler knows is said step by step: a refresh that has
  rewritten some lines knows that the lines its plan keeps add up to the total it will
  write (`RefreshKnows`), an order that no line it read has gone up unless it will
  stop (`RepriceKnows`), a merge that its two carts are different and as it read
  them (`MergeKnows`). The other carts are settled meanwhile (`SettledBut`).
- *Offers.* The coupon that was shown is the one that is linked, unless it was deleted, which
  is for good. A coupon's restrictions are among those it was meant for: the admin's update deletes
  all there are, and a category that goes only takes itself out. What a coupon takes off
  is then bounded by the worth of a subset of the lines (`DiscountIsDue`); a request that is
  about to unlink a coupon has found it dead.
- *Catalogue.* The form that is being saved and the delete hold the Product row, so what they
  read is current (`SavingIsCurrent`); an order that lands before them makes the database refuse
  the delete.
- *Browse.* What a reader has passed of a page, a cursor or a tier is said of each reading
  (`BrowseTells`): the pages so far are a prefix of the order, which is one order as long as
  no row changes and ids break its ties (`OneOrder`, `PagesGlued`). What the cache keeps is
  as the rows are while neither `dirty` nor `drift` says otherwise (`CacheTells`), and what
  is loaded for it is so unless the load was told not to be kept; a cursor's window splits
  the rows it has seen from those to come (`WindowSplit`).
- *Storefront.* Signing out: a renewal checks the sign-in in the statement that writes the new
  token, so what carries a token of a sign-in that was left (`CarriesToken`) never
  stores it. Limits: the count a request read is still the count, as nobody else is served
  (`CodesAlone`, `FailuresAlone`); comparisons are capped by a conditional update, whatever
  runs (`CodesTell`). Details: a request that is about to take an email has found its
  owner unverified, and it still is (`DetailsAlone`). Visitors: an order's or a view's
  device is linked to one account at most (`RowsTell`). Tickets: the status a reply decided on
  is the ticket's (`TicketTells`).
- *Content.* A handler is a list of steps, so the invariant says of a request what the steps it
  has done have left (`EditTells`): a reorder has written exactly the rows it was given and
  commits them at once; an end date was compared with the start it is written with. With one
  edit at a time the row that was read is the row (`EditKnows`, table by table: `TileKnows`,
  `LabelKnows`, `ReviewKnows`, `SeasonKnows`, `LossKnows`), which is what the counts and the
  references in `RowsAreSound` need.

Every safety and action property of the passing runs is stated by a theorem. What stays
with TLC is liveness (`EveryoneIsAnswered`, `SubmissionsAreAnswered`, `StoredPriceConverges`,
`CartConverges`, `DeadCouponUnblocks`), which the prover cannot derive under fairness, and the
violations of section 5.

## 7. Not modelled

- Courier providers, fee tables, label images, mail and SMS: input and output only. What the
  couriers and the gateway answer is an input of `Fulfilment`, `Payment` and `Refund`.
- Notifications: a queue with the library's own retries that no other component reads.
- Realtime broadcasts, API keys and rate limits, settings, reports, dashboards and demo data:
  they change no state that a property is about.
- Of the modelled parts: shelf locations, the pick-slip mail, prices to the cent, delivery
  charges, `maxDiscount`, texts, pictures and links, expiry of tokens, roles of the staff,
  priorities of tickets, the seven-day window of returns. Barcoded pieces of a return are in
  `Fulfilment`, not in `Refund`.
- Lock waits inside PostgreSQL, where a transaction is one step: one that a deadlock aborts is
  a request that ends early. `Checkout`, `Content` and `finalizeRefundCompletion` wait for rows.
