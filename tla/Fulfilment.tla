----------------------------- MODULE Fulfilment -----------------------------
(***************************************************************************)
(* The fulfilment core: barcoded pieces (src/piece), their reservation for *)
(* order lines (src/reservation), the order-status chokepoint              *)
(* (src/order-status), the stock ledger (src/inventory) and the courier    *)
(* bookings and webhooks that drive orders (src/courier).                  *)
(*                                                                         *)
(* One piece-tracked variant is modelled: every order has one line, for    *)
(* Qty[o] units of it.  Transactions run at READ COMMITTED, so a handler   *)
(* is split where another request can slip in: the reads it decides on     *)
(* (kept in req[w], the locals of the request worker w is serving), and    *)
(* the transaction that acts on them, whose conditional updates are        *)
(* evaluated when it commits.  A worker may die between two steps.         *)
(***************************************************************************)
EXTENDS Statuses, Functions

CONSTANTS
  Orders,           \* orders that may be placed
  Pieces,           \* barcodes that may be generated
  Couriers,         \* active courier providers
  Workers,          \* requests the server can be serving at once
  Qty,              \* Qty[o]: units of the variant on the line of order o
  MaxRows,          \* bound: OrderLineReservation rows ever created
  CourierEvents,    \* statuses a webhook or a poll may report
  FirstShipment,    \* statuses a provider may answer a booking with
  AdminStatuses,    \* statuses of the manual dropdown ({}: switched off)
  None              \* no value

ASSUME FulfilmentAssumption ==
  /\ Qty \in [Orders -> Nat \ {0}]
  /\ MaxRows \in Nat
  /\ IsFiniteSet(Workers) /\ IsFiniteSet(Orders) /\ IsFiniteSet(Pieces)
  /\ CourierEvents \subseteq CourierStatus
  /\ FirstShipment \subseteq
       {s \in CourierStatus : CourierToOrder[s] \notin StockRestoreStatuses}
  /\ AdminStatuses \subseteq OrderStatus
  /\ None \notin PieceStatus \cup OrderStatus \cup CourierStatus \cup {"OPEN"}

VARIABLES
  piece,            \* Piece.status, None before the barcode is generated
  rows,             \* the OrderLineReservation table
  nextRow,          \* its next autoincrement id
  group,            \* ShipmentGroup.status of the order, None without a group
  quantity,         \* ProductSize.quantity of the variant
  status,           \* Order.status, None before checkout
  stockRestored,    \* Order.stockRestored
  restocks,         \* StockAdjustment rows written when the order was closed
  shipment,         \* CourierShipment.status per order and provider
  req               \* the request each worker is in the middle of

stockVars == <<quantity, restocks>>
orderVars == <<status, stockRestored>>
rowVars == <<rows, nextRow>>
vars == <<piece, rows, nextRow, group, quantity, status, stockRestored,
          restocks, shipment, req>>

Row == [id : 1 .. MaxRows, piece : Pieces, order : Orders, picked : BOOLEAN]

\* The courier events that are cascaded onto the order's pieces.
DeliveredEvents == {"DELIVERED", "PARTIALLY_DELIVERED"}
CascadeEvents == DeliveredEvents \cup {"RETURNED"}

\* Locals of a request between two of its steps.
Idle == [op |-> "idle"]
Request ==
  {Idle}
  \cup [op : {"reserve"}, order : Orders, piece : Pieces]
  \cup [op : {"release", "pick"}, row : 1 .. MaxRows, piece : Pieces]
  \cup [op : {"book"}, order : Orders, courier : Couriers]
  \cup [op : {"sync"}, order : Orders, courier : Couriers,
        event : CourierStatus \cup {None}]
  \cup [op : {"deliver"}, order : Orders]
  \cup [op : {"apply"}, order : Orders, new : OrderStatus,
        seen : OrderStatus, restored : BOOLEAN, via : {"sync", "manual"},
        event : CourierStatus \cup {None}]
  \cup [op : {"cascade"}, order : Orders, event : CascadeEvents]

TypeOK ==
  /\ piece \in [Pieces -> PieceStatus \cup {None}]
  /\ rows \subseteq Row
  /\ nextRow \in 1 .. MaxRows + 1
  /\ group \in [Orders -> {None, "OPEN", "SHIPPED"}]
  /\ quantity \in Nat
  /\ status \in [Orders -> OrderStatus \cup {None}]
  /\ stockRestored \in [Orders -> BOOLEAN]
  /\ restocks \in [Orders -> Nat]
  /\ shipment \in [Orders -> [Couriers -> CourierStatus \cup {None}]]
  /\ req \in [Workers -> Request]

Init ==
  /\ piece = [p \in Pieces |-> None]
  /\ rows = {}
  /\ nextRow = 1
  /\ group = [o \in Orders |-> None]
  /\ quantity = 0
  /\ status = [o \in Orders |-> None]
  /\ stockRestored = [o \in Orders |-> FALSE]
  /\ restocks = [o \in Orders |-> 0]
  /\ shipment = [o \in Orders |-> [c \in Couriers |-> None]]
  /\ req = [w \in Workers |-> Idle]

RowsOf(o) == {r \in rows : r.order = o}
OpenRows(p) == {r \in rows : r.piece = p /\ ~r.picked}
PiecesOf(rs) == {r.piece : r \in rs}
Goto(w, local) == req' = [req EXCEPT ![w] = local]

\* A handler that is a single step still takes a worker that is free.
FreeWorker == \E w \in Workers : req[w] = Idle

-----------------------------------------------------------------------------
(* Barcodes: src/piece/piece.service.ts.  Each of these handlers checks and *)
(* moves one piece with a single conditional update, so it is one step.     *)

Generate(p) ==
  /\ FreeWorker
  /\ piece[p] = None
  /\ piece' = [piece EXCEPT ![p] = "CREATED"]
  /\ UNCHANGED <<rowVars, group, stockVars, orderVars, shipment, req>>

\* Receiving a printed barcode: the only way new stock enters the shop.
ReceiveOne(p, outcome) ==
  /\ FreeWorker
  /\ piece[p] = "CREATED"
  /\ \/ /\ outcome = "GOOD"
        /\ piece' = [piece EXCEPT ![p] = "IN_STOCK"]
        /\ quantity' = quantity + 1
     \/ /\ outcome = "DAMAGED"
        /\ piece' = [piece EXCEPT ![p] = "DAMAGED_INCOMING"]
        /\ UNCHANGED quantity
  /\ UNCHANGED <<rowVars, group, restocks, orderVars, shipment, req>>

VoidPiece(p) ==
  /\ FreeWorker
  /\ piece[p] = "CREATED"
  /\ piece' = [piece EXCEPT ![p] = "VOID"]
  /\ UNCHANGED <<rowVars, group, stockVars, orderVars, shipment, req>>

\* Fault variant: a damaged return is put on sale as well.
ReturnReceive_RestocksDamaged(p, outcome) ==
  /\ FreeWorker
  /\ piece[p] = "RETURNING"
  /\ piece' = [piece EXCEPT ![p] =
                 IF outcome = "GOOD" THEN "RETURNED_IN_STOCK" ELSE "DAMAGED_RETURN"]
  /\ quantity' = quantity + 1
  /\ UNCHANGED <<rowVars, group, restocks, orderVars, shipment, req>>

\* Scanning a returned piece back in; a damaged one is never restocked.
ReturnReceive(p, outcome) ==
  /\ FreeWorker
  /\ piece[p] = "RETURNING"
  /\ \/ /\ outcome = "GOOD"
        /\ piece' = [piece EXCEPT ![p] = "RETURNED_IN_STOCK"]
        /\ quantity' = quantity + 1
     \/ /\ outcome = "DAMAGED"
        /\ piece' = [piece EXCEPT ![p] = "DAMAGED_RETURN"]
        /\ UNCHANGED quantity
  /\ UNCHANGED <<rowVars, group, restocks, orderVars, shipment, req>>

-----------------------------------------------------------------------------
(* Checkout, as far as fulfilment sees it: the order's transaction takes    *)
(* its units off the aggregate quantity or fails.                           *)

PlaceOrder(o) ==
  /\ FreeWorker
  /\ status[o] = None
  /\ quantity >= Qty[o]
  /\ quantity' = quantity - Qty[o]
  /\ status' = [status EXCEPT ![o] = "PENDING"]
  /\ UNCHANGED <<piece, rowVars, group, stockRestored, restocks, shipment, req>>

-----------------------------------------------------------------------------
(* Reservation: src/reservation/reservation.service.ts.                     *)

\* Fault variant: off by one in the count check.
ReserveRead_OffByOne(w, o, p) ==
  /\ req[w] = Idle
  /\ status[o] # None
  /\ piece[p] # None
  /\ Cardinality(RowsOf(o)) <= Qty[o]
  /\ Goto(w, [op |-> "reserve", order |-> o, piece |-> p])
  /\ UNCHANGED <<piece, rowVars, group, stockVars, orderVars, shipment>>

\* reserve(), before its transaction: the line must not be full yet.  The
\* order's status is not looked at.
ReserveRead(w, o, p) ==
  /\ req[w] = Idle
  /\ status[o] # None
  /\ piece[p] # None
  /\ Cardinality(RowsOf(o)) < Qty[o]
  /\ Goto(w, [op |-> "reserve", order |-> o, piece |-> p])
  /\ UNCHANGED <<piece, rowVars, group, stockVars, orderVars, shipment>>

\* reserve(), its transaction: the conditional claim decides.
ReserveCommit(w) ==
  /\ req[w].op = "reserve"
  /\ piece[req[w].piece] \in Sellable
  /\ nextRow <= MaxRows
  /\ LET o == req[w].order
         p == req[w].piece
     IN /\ piece' = [piece EXCEPT ![p] = "RESERVED"]
        /\ rows' = rows \cup
             {[id |-> nextRow, piece |-> p, order |-> o, picked |-> FALSE]}
        /\ group' = [group EXCEPT ![o] = IF @ = None THEN "OPEN" ELSE @]
  /\ nextRow' = nextRow + 1
  /\ Goto(w, Idle)
  /\ UNCHANGED <<stockVars, orderVars, shipment>>

\* release(), before its transaction: only a row that is not picked.
ReleaseRead(w) ==
  /\ req[w] = Idle
  /\ \E r \in rows :
       /\ ~r.picked
       /\ Goto(w, [op |-> "release", row |-> r.id, piece |-> r.piece])
  /\ UNCHANGED <<piece, rowVars, group, stockVars, orderVars, shipment>>

\* Fault variant: the row goes but its piece is not put back.
ReleaseCommit_KeepsPiece(w) ==
  /\ req[w].op = "release"
  /\ \E r \in rows : r.id = req[w].row /\ rows' = rows \ {r}
  /\ Goto(w, Idle)
  /\ UNCHANGED <<piece, nextRow, group, stockVars, orderVars, shipment>>

\* release(), its transaction: the piece is put back if it is still reserved,
\* the row is deleted either way; a row that is gone rolls everything back.
ReleaseCommit(w) ==
  /\ req[w].op = "release"
  /\ \E r \in rows :
       /\ r.id = req[w].row
       /\ rows' = rows \ {r}
  /\ piece' = [piece EXCEPT ![req[w].piece] =
                 IF @ = "RESERVED" THEN "IN_STOCK" ELSE @]
  /\ Goto(w, Idle)
  /\ UNCHANGED <<nextRow, group, stockVars, orderVars, shipment>>

\* pickConfirm(), before its transaction: the newest open row of the piece.
PickRead(w, p) ==
  /\ req[w] = Idle
  /\ piece[p] = "RESERVED"
  /\ \E r \in OpenRows(p) :
       /\ \A s \in OpenRows(p) : s.id <= r.id
       /\ Goto(w, [op |-> "pick", row |-> r.id, piece |-> p])
  /\ UNCHANGED <<piece, rowVars, group, stockVars, orderVars, shipment>>

PickCommit(w) ==
  /\ req[w].op = "pick"
  /\ piece[req[w].piece] = "RESERVED"
  /\ \E r \in rows :
       /\ r.id = req[w].row
       /\ rows' = (rows \ {r}) \cup {[r EXCEPT !.picked = TRUE]}
  /\ piece' = [piece EXCEPT ![req[w].piece] = "PICKED"]
  /\ Goto(w, Idle)
  /\ UNCHANGED <<nextRow, group, stockVars, orderVars, shipment>>

\* checkFullyPickedForOrder: exactly the ordered units, all of them picked.
IsFullyPicked(o) ==
  /\ Cardinality(RowsOf(o)) = Qty[o]
  /\ \A r \in RowsOf(o) : r.picked

-----------------------------------------------------------------------------
(* The chokepoint: src/order-status/order-status.service.ts.                *)

\* Fault variant: the stockRestored flag is not looked at.
ApplyStatusChange_IgnoresFlag(o, new, seen, restored) ==
  LET restore == new \in StockRestoreStatuses /\ seen \notin StockRestoreStatuses
      released == IF restore
                  THEN {r \in RowsOf(o) : piece[r.piece] \in Claimed}
                  ELSE {}
      restocked == restore /\ new # "RETURNED"
  IN /\ status' = [status EXCEPT ![o] = new]
     /\ stockRestored' = [stockRestored EXCEPT ![o] = @ \/ restore]
     /\ rows' = rows \ released
     /\ piece' = [p \in Pieces |->
                    IF p \in PiecesOf(released) THEN "IN_STOCK" ELSE piece[p]]
     /\ quantity' = IF restocked THEN quantity + Qty[o] ELSE quantity
     /\ restocks' = [restocks EXCEPT ![o] = IF restocked THEN @ + 1 ELSE @]

\* applyStatusChange(o, new), deciding on the order as it was read: its
\* status then (seen) and its stockRestored flag then (restored).  Pieces of
\* the order that are RESERVED or PICKED go back to the shelf and lose their
\* row; the units are given back, except that a RETURNED order's units wait
\* for the scan.
ApplyStatusChange(o, new, seen, restored) ==
  LET restore == /\ new \in StockRestoreStatuses
                 /\ seen \notin StockRestoreStatuses
                 /\ ~restored
      released == IF restore
                  THEN {r \in RowsOf(o) : piece[r.piece] \in Claimed}
                  ELSE {}
      restocked == restore /\ new # "RETURNED"
  IN /\ status' = [status EXCEPT ![o] = new]
     /\ stockRestored' = [stockRestored EXCEPT ![o] = @ \/ restore]
     /\ rows' = rows \ released
     /\ piece' = [p \in Pieces |->
                    IF p \in PiecesOf(released) THEN "IN_STOCK" ELSE piece[p]]
     /\ quantity' = IF restocked THEN quantity + Qty[o] ELSE quantity
     /\ restocks' = [restocks EXCEPT ![o] = IF restocked THEN @ + 1 ELSE @]

\* OrderService.updateOrderStatus: the manual dropdown, with the pick gate in
\* front of SHIPPED.
AdminStatusRead(w, o, new) ==
  /\ req[w] = Idle
  /\ status[o] # None
  /\ new = "SHIPPED" /\ status[o] # "SHIPPED" => IsFullyPicked(o)
  /\ Goto(w, [op |-> "apply", order |-> o, new |-> new, seen |-> status[o],
              restored |-> stockRestored[o], via |-> "manual", event |-> None])
  /\ UNCHANGED <<piece, rowVars, group, stockVars, orderVars, shipment>>

\* OrderService.cancelOrder: SELECT ... FOR UPDATE holds the order row from
\* the checks to the commit, so the transaction is one step.
CancelOrder(o) ==
  /\ FreeWorker
  /\ status[o] \in AdminCancellable
  /\ \A c \in Couriers : shipment[o][c] \in InactiveShipment \cup {None}
  /\ ApplyStatusChange(o, "CANCELLED", status[o], stockRestored[o])
  /\ UNCHANGED <<nextRow, group, shipment, req>>

-----------------------------------------------------------------------------
(* Couriers: src/courier/services/*.ts.                                     *)

\* createShipment, up to the provider's API call.
BookRead(w, o, c) ==
  /\ req[w] = Idle
  /\ status[o] \notin BlockedForShipment \cup {None}
  /\ IsFullyPicked(o)
  /\ shipment[o][c] = None
  /\ Goto(w, [op |-> "book", order |-> o, courier |-> c])
  /\ UNCHANGED <<piece, rowVars, group, stockVars, orderVars, shipment>>

\* createShipment, once the provider answered with status first: the shipment
\* row, the order's sync, and markShipmentGroupShipped on every row there is
\* by now.  The unique (orderId, providerId) index refuses a second row.
BookCommit(w, first) ==
  /\ req[w].op = "book"
  /\ LET o == req[w].order
         c == req[w].courier
         new == CourierToOrder[first]
     IN /\ shipment[o][c] = None
        /\ shipment' = [shipment EXCEPT ![o][c] = first]
        /\ status' = [status EXCEPT ![o] =
                        IF OrderRank[new] > OrderRank[@] THEN new ELSE @]
        /\ piece' = [p \in Pieces |->
                       IF p \in PiecesOf(RowsOf(o)) THEN "SHIPPED" ELSE piece[p]]
        /\ group' = [group EXCEPT ![o] = IF @ = None THEN None ELSE "SHIPPED"]
  /\ Goto(w, Idle)
  /\ UNCHANGED <<rowVars, stockVars, stockRestored>>

\* processWebhook records the reported status; the sync and the cascade of
\* the event onto the pieces follow.
WebhookRecord(w, o, c, event) ==
  /\ req[w] = Idle
  /\ shipment[o][c] # None
  /\ shipment' = [shipment EXCEPT ![o][c] = event]
  /\ Goto(w, [op |-> "sync", order |-> o, courier |-> c, event |-> event])
  /\ UNCHANGED <<piece, rowVars, group, stockVars, orderVars>>

\* syncShipmentStatus: the same from a poll of the provider's API, but the
\* event is never cascaded onto the pieces.
PollRecord(w, o, c, event) ==
  /\ req[w] = Idle
  /\ shipment[o][c] # None
  /\ shipment' = [shipment EXCEPT ![o][c] = event]
  /\ Goto(w, [op |-> "sync", order |-> o, courier |-> c, event |-> None])
  /\ UNCHANGED <<piece, rowVars, group, stockVars, orderVars>>

\* cancelShipment: CANCELLED locally whatever the provider answers.
CancelShipment(w, o, c) ==
  /\ req[w] = Idle
  /\ shipment[o][c] \notin {None, "CANCELLED"}
  /\ shipment' = [shipment EXCEPT ![o][c] = "CANCELLED"]
  /\ Goto(w, [op |-> "sync", order |-> o, courier |-> c, event |-> None])
  /\ UNCHANGED <<piece, rowVars, group, stockVars, orderVars>>

\* updateShipmentStatus: an admin sets the shipment; DELIVERED goes on to the
\* order without the rank check of the sync.
ManualShipmentStatus(w, o, c, event) ==
  /\ req[w] = Idle
  /\ shipment[o][c] # None
  /\ shipment' = [shipment EXCEPT ![o][c] = event]
  /\ Goto(w, IF event = "DELIVERED" THEN [op |-> "deliver", order |-> o] ELSE Idle)
  /\ UNCHANGED <<piece, rowVars, group, stockVars, orderVars>>

DeliverRead(w) ==
  /\ req[w].op = "deliver"
  /\ LET o == req[w].order
     IN Goto(w, [op |-> "apply", order |-> o, new |-> "DELIVERED",
                 seen |-> status[o], restored |-> stockRestored[o],
                 via |-> "manual", event |-> None])
  /\ UNCHANGED <<piece, rowVars, group, stockVars, orderVars, shipment>>

\* What is left of a request once the order is in sync with its shipment.
AfterSync(o, event) ==
  IF event \in CascadeEvents
  THEN [op |-> "cascade", order |-> o, event |-> event] ELSE Idle

\* syncOrderStatusFromShipment, outside any transaction: the shipment's
\* status as it is by now, only if it ranks above the order's.
SyncRead(w) ==
  /\ req[w].op = "sync"
  /\ LET o == req[w].order
         new == CourierToOrder[shipment[o][req[w].courier]]
     IN Goto(w, IF OrderRank[new] <= OrderRank[status[o]]
                THEN AfterSync(o, req[w].event)
                ELSE [op |-> "apply", order |-> o, new |-> new,
                      seen |-> status[o], restored |-> stockRestored[o],
                      via |-> "sync", event |-> req[w].event])
  /\ UNCHANGED <<piece, rowVars, group, stockVars, orderVars, shipment>>

\* The transaction around applyStatusChange, for a sync or an admin.
ApplyCommit(w) ==
  /\ req[w].op = "apply"
  /\ ApplyStatusChange(req[w].order, req[w].new, req[w].seen, req[w].restored)
  /\ Goto(w, AfterSync(req[w].order, req[w].event))
  /\ UNCHANGED <<nextRow, group, shipment>>

\* Fault variant: a replayed event moves pieces that are past it.
CascadeFrom_NoReplayGuard(event) ==
  {"SHIPPED", "DELIVERED", "RETURNING", "RETURNED_IN_STOCK"}

\* markShipmentGroupDelivered and markShipmentGroupReturning: the pieces that
\* the event moves, and where to.
CascadeFrom(event) ==
  IF event \in DeliveredEvents THEN {"SHIPPED"} ELSE {"SHIPPED", "DELIVERED"}
CascadeTo(event) ==
  IF event \in DeliveredEvents THEN "DELIVERED" ELSE "RETURNING"

\* The loop over the pieces has no transaction: a crash leaves some of them
\* (moved) done and the rest untouched.
Cascade(w) ==
  /\ req[w].op = "cascade"
  /\ LET eligible == {p \in PiecesOf(RowsOf(req[w].order)) :
                        piece[p] \in CascadeFrom(req[w].event)}
     IN \E moved \in SUBSET eligible :
          piece' = [p \in Pieces |->
                      IF p \in moved THEN CascadeTo(req[w].event) ELSE piece[p]]
  /\ Goto(w, Idle)
  /\ UNCHANGED <<rowVars, group, stockVars, orderVars, shipment>>

-----------------------------------------------------------------------------
\* A request ends early: a check in its transaction fails and rolls it back,
\* the transaction times out, or the process dies.
Abort(w) ==
  /\ req[w] # Idle
  /\ Goto(w, Idle)
  /\ UNCHANGED <<piece, rowVars, group, stockVars, orderVars, shipment>>

Warehouse ==
  \E p \in Pieces :
    \/ Generate(p)
    \/ VoidPiece(p)
    \/ \E outcome \in {"GOOD", "DAMAGED"} :
         ReceiveOne(p, outcome) \/ ReturnReceive(p, outcome)

OrderDesk == \E o \in Orders : PlaceOrder(o) \/ CancelOrder(o)

Serve(w) ==
  \/ ReserveCommit(w)
  \/ ReleaseRead(w)
  \/ ReleaseCommit(w)
  \/ PickCommit(w)
  \/ \E first \in FirstShipment : BookCommit(w, first)
  \/ DeliverRead(w)
  \/ SyncRead(w)
  \/ ApplyCommit(w)
  \/ Cascade(w)
  \/ Abort(w)
  \/ \E p \in Pieces : PickRead(w, p) \/ \E o \in Orders : ReserveRead(w, o, p)
  \/ \E o \in Orders, new \in AdminStatuses : AdminStatusRead(w, o, new)
  \/ \E o \in Orders, c \in Couriers :
       \/ BookRead(w, o, c)
       \/ CancelShipment(w, o, c)
       \/ \E event \in CourierEvents :
            \/ WebhookRecord(w, o, c, event)
            \/ PollRecord(w, o, c, event)
            \/ ManualShipmentStatus(w, o, c, event)

Next == Warehouse \/ OrderDesk \/ \E w \in Workers : Serve(w)

Spec == Init /\ [][Next]_vars

\* A courier's RETURNED is late when a piece of its order has been reserved
\* again since.  Events are delivered again and out of order, and nothing in
\* the code keeps such a one from moving the piece.  TimelySpec is the system
\* whose couriers send none.
ReservedAgain(o) == \E r \in RowsOf(o), s \in rows : s.piece = r.piece /\ s.id > r.id
Late(r) == r.op = "cascade" /\ r.event = "RETURNED" /\ ReservedAgain(r.order)
Timely == \A w \in Workers : Late(req[w]) /\ req'[w] # req[w] => UNCHANGED piece

TimelySpec == Init /\ [][Next /\ Timely]_vars

-----------------------------------------------------------------------------
(* What survives every interleaving of the handlers.                        *)

\* What a request remembers across its steps stays true whatever the others do
\* meanwhile: the row it read, while it exists, is still about the same piece
\* (row ids are never reused), and the order and the shipment it works for
\* exist.
RowsAreIdentified ==
  /\ \A r \in rows : r.id < nextRow
  /\ \A r, s \in rows : r.id = s.id => r = s
OrderRequests == {"reserve", "book", "sync", "deliver", "apply", "cascade"}
RequestValid(r) ==
  /\ r.op \in {"release", "pick"} =>
       /\ r.row < nextRow
       /\ \A s \in rows : s.id = r.row => s.piece = r.piece
  /\ r.op \in OrderRequests => status[r.order] # None
  /\ r.op = "sync" => shipment[r.order][r.courier] # None
RequestsStayValid ==
  /\ RowsAreIdentified
  /\ \A o \in Orders, c \in Couriers : shipment[o][c] # None => status[o] # None
  /\ \A w \in Workers : RequestValid(req[w])

\* A reserved piece is never orphaned: some reservation row still waits for
\* its pick, so the piece can be picked or released.  (reserve, release,
\* pickConfirm and releaseReservationsForOrder each move the piece and its row
\* in one transaction.)
ReservedHasOpenRow ==
  \A p \in Pieces : piece[p] = "RESERVED" => OpenRows(p) # {}

\* A barcode that was never received into stock (still CREATED, voided, or
\* damaged on arrival) is on no order's reservation, now or in the past.
UnreceivedNeverReserved ==
  \A r \in rows : piece[r.piece] \notin Unreceived \cup {None}

\* The count check of reserve() is read before its transaction, so requests
\* that run together can overfill a line, but by no more than the others that
\* were in flight; one at a time they never overfill it.
InFlight(o) == {w \in Workers : req[w].op = "reserve" /\ req[w].order = o}
OverrunBounded ==
  \A o \in Orders :
    Cardinality(RowsOf(o)) + Cardinality(InFlight(o))
      < Qty[o] + Cardinality(Workers)

-----------------------------------------------------------------------------
(* What holds when handlers do not overlap (one worker, crashes included),  *)
(* an order is booked with one courier and no RETURNED is late.             *)

\* pickConfirm counts on this: at most one row of a piece awaits its pick.
OneOpenRowPerPiece ==
  \A p \in Pieces : \A r, s \in OpenRows(p) : r = s

\* A piece that left the shelf can be traced: the newest of its rows is marked
\* picked and names the order it went to, and once it is with the courier or
\* the customer that order's shipment group has been shipped.  (Labels, returns
\* and the cascade of courier events all find a piece through this row.)
OutPieceIsTraceable ==
  \A p \in Pieces :
    piece[p] \in {"PICKED", "SHIPPED", "DELIVERED", "RETURNING"} =>
      \E r \in rows :
        /\ r.piece = p /\ r.picked
        /\ \A s \in rows : s.piece = p => s.id <= r.id
        /\ piece[p] # "PICKED" => group[r.order] = "SHIPPED"

\* The rows and the pieces tell one story: both of the above.
PieceRowsAgree == OneOpenRowPerPiece /\ OutPieceIsTraceable

\* The shipment group of a booked order holds exactly the ordered units, all
\* scan-confirmed, for as long as the order exists.
ShippedGroupComplete ==
  \A o \in Orders : group[o] = "SHIPPED" => IsFullyPicked(o)

\* The units of one order are put back on sale at most once.
RestockedAtMostOnce == \A o \in Orders : restocks[o] <= 1

\* The shop's books: what is on sale plus what open orders are owed is what
\* is on the shelves, except for the units of orders that were cancelled or
\* failed after their pieces had been handed to the courier, which are on
\* sale again although no scan saw them come back.
OnShelf == {p \in Pieces : piece[p] \in Sellable \cup Claimed}
Unsettled == {o \in Orders : /\ status[o] # None
                             /\ group[o] # "SHIPPED" /\ restocks[o] = 0}
SoldBack == {o \in Orders : group[o] = "SHIPPED" /\ restocks[o] > 0}
UnitsOf(S) == SumFunctionOnSet(Qty, S)
BooksBalance ==
  quantity + UnitsOf(Unsettled) = Cardinality(OnShelf) + UnitsOf(SoldBack)

\* A booking is made only for an order that is open when the booking commits.
BookedOnlyWhenOpen ==
  [][\A o \in Orders, c \in Couriers :
       shipment[o][c] = None /\ shipment'[o][c] # None =>
         status[o] \notin BlockedForShipment]_vars

\* A courier sync never moves an order back in ORDER_RANK.
SyncOnlyForward ==
  [][\A w \in Workers :
       (req[w].op = "apply" /\ req[w].via = "sync" /\ req'[w] # req[w]) =>
         \A o \in Orders :
           status'[o] # status[o] =>
             OrderRank[status'[o]] >= OrderRank[status[o]]]_vars

\* Every piece goes through the life cycle that PieceLifecycle promises, in
\* the order the warehouse works: shipped only once picked, back on the shelf
\* only when released or scanned, never back from damaged or void.
Lifecycle == INSTANCE PieceLifecycle
ImplementsLifecycle == Lifecycle!Spec

-----------------------------------------------------------------------------
(* What the code's comments promise and the code does not keep.             *)

\* "a cancelled/failed/returned order must never leave a physical piece
\* permanently locked in RESERVED/PICKED with no order to fulfill"
ClosedOrderHoldsNoPiece ==
  \A r \in rows :
    /\ status[r.order] \in StockRestoreStatuses /\ stockRestored[r.order]
    /\ \A w \in Workers : req[w] = Idle
    => piece[r.piece] \notin Claimed

\* "nothing else ... is allowed to increment ProductSize.quantity for a
\* PIECE_BARCODE variant without a scan having happened first": a change of
\* status gives back an order's units only while its pieces are in the
\* building.
ShippedRestockedOnlyByScan ==
  [][\A o \in Orders :
       restocks'[o] > restocks[o] =>
         \A r \in RowsOf(o) : piece[r.piece] \in Sellable \cup Claimed]_vars

\* release() undoes a reservation "before it's picked": it refuses a row that
\* "has already been picked".
ReleaseNeverDropsPick ==
  [][\A w \in Workers :
       (req[w].op = "release" /\ req'[w] # req[w]) =>
         \A r \in rows \ rows' : ~r.picked]_vars

\* "replaying the same webhook event is a safe no-op": a courier event moves
\* only pieces that are still out with the order it is about.
ReplayMovesNothingElse ==
  [][\A w \in Workers :
       (req[w].op = "cascade" /\ req'[w] # req[w]) =>
         \A p \in Pieces : piece'[p] # piece[p] =>
           \E r \in RowsOf(req[w].order) :
             r.piece = p /\ \A s \in rows : s.piece = p => s.id <= r.id]_vars
=============================================================================
