------------------------------ MODULE Statuses ------------------------------
(***************************************************************************)
(* The enumerations of prisma/schema.prisma the fulfilment code branches   *)
(* on, and the tables it keeps about them.  No state: every module that    *)
(* models a part of the order flow extends this one.                       *)
(***************************************************************************)
EXTENDS Integers, FiniteSets

\* enum PieceStatus: where one barcoded unit is in its life.
PieceStatus ==
  {"CREATED", "DAMAGED_INCOMING", "IN_STOCK", "RESERVED", "PICKED", "SHIPPED",
   "DELIVERED", "RETURNING", "RETURNED_IN_STOCK", "DAMAGED_RETURN", "VOID"}

\* A fault variant X_Fault is X with a plausible bug; the properties are checked
\* to notice it when it takes the place of X.
Sellable_AlsoReserved == {"IN_STOCK", "RETURNED_IN_STOCK", "RESERVED"}

\* What reserve() may claim: a good return sells like a fresh piece.
Sellable == {"IN_STOCK", "RETURNED_IN_STOCK"}

\* What releaseReservationsForOrder puts back on the shelf.
Claimed == {"RESERVED", "PICKED"}

\* Statuses of a barcode that was never received into stock.
Unreceived == {"CREATED", "DAMAGED_INCOMING", "VOID"}

\* enum OrderStatus.
OrderStatus ==
  {"PENDING", "CONFIRMED", "PROCESSING", "PACKED", "SHIPPED", "DELIVERED",
   "CANCELLED", "RETURNED", "ON_HOLD", "FAILED", "PARTIALLY_DELIVERED",
   "RETURN_REQUESTED"}

\* OrderStatusService.STOCK_RESTORE_STATUSES.
StockRestoreStatuses == {"CANCELLED", "FAILED", "RETURNED"}

\* ADMIN_CANCELLABLE_STATUSES of order.service.ts.
AdminCancellable == {"PENDING", "CONFIRMED", "PROCESSING", "PACKED", "ON_HOLD"}

\* BLOCKED_ORDER_STATUSES of CourierService.createShipment.
BlockedForShipment ==
  {"CANCELLED", "DELIVERED", "RETURNED", "FAILED", "RETURN_REQUESTED"}

\* ORDER_RANK: how far along an order is; a courier sync only moves it up.
OrderRank ==
  [s \in OrderStatus |->
    CASE s = "PENDING"                    -> 0
      [] s = "CONFIRMED"                  -> 1
      [] s \in {"PROCESSING", "ON_HOLD"}  -> 2
      [] s = "PACKED"                     -> 3
      [] s = "SHIPPED"                    -> 4
      [] s \in {"DELIVERED", "PARTIALLY_DELIVERED", "CANCELLED", "FAILED"} -> 5
      [] s = "RETURN_REQUESTED"           -> 6
      [] s = "RETURNED"                   -> 7]

\* enum CourierStatus.
CourierStatus ==
  {"PENDING", "BOOKED", "PICKUP_ASSIGNED", "PICKED_UP", "IN_TRANSIT",
   "OUT_FOR_DELIVERY", "DELIVERED", "PARTIALLY_DELIVERED", "FAILED",
   "CANCELLED", "RETURNED", "ON_HOLD"}

\* COURIER_TO_ORDER_STATUS of courier-status.map.ts.
CourierToOrder ==
  [s \in CourierStatus |->
    CASE s \in {"BOOKED", "PICKUP_ASSIGNED"}         -> "CONFIRMED"
      [] s \in {"PICKED_UP", "ON_HOLD"}              -> "PROCESSING"
      [] s \in {"IN_TRANSIT", "OUT_FOR_DELIVERY"}    -> "SHIPPED"
      [] s \in {"DELIVERED", "PARTIALLY_DELIVERED"}  -> "DELIVERED"
      [] s \in {"FAILED", "CANCELLED", "RETURNED", "PENDING"} -> s]

\* A shipment in one of these does not stop an admin from cancelling.
InactiveShipment == {"CANCELLED", "FAILED"}
=============================================================================
