-------------------------- MODULE Fulfilment_proofs --------------------------
(***************************************************************************)
(* What Fulfilment guarantees for every number of orders, pieces, couriers *)
(* and concurrent requests.                                                *)
(***************************************************************************)
EXTENDS MCFulfilmentRaces, Sums, FiniteSetTheorems, TLAPS

\* The courier tables are total: every courier status maps to an order status.
LEMMA CourierToOrderType == CourierToOrder \in [CourierStatus -> OrderStatus]
  BY DEF CourierToOrder, CourierStatus, OrderStatus

\* The fields a request carries are those of its operation.
LEMMA RequestFields ==
  ASSUME NEW r \in Request
  PROVE  /\ r.op = "idle" => r = Idle
         /\ r.op = "reserve" => r.order \in Orders /\ r.piece \in Pieces
         /\ r.op \in {"release", "pick"} => r.row \in 1 .. MaxRows /\ r.piece \in Pieces
         /\ r.op = "book" => r.order \in Orders /\ r.courier \in Couriers
         /\ r.op = "sync" => /\ r.order \in Orders /\ r.courier \in Couriers
                             /\ r.event \in CourierStatus \cup {None}
         /\ r.op = "deliver" => r.order \in Orders
         /\ r.op = "apply" => /\ r.order \in Orders /\ r.new \in OrderStatus
                              /\ r.event \in CourierStatus \cup {None}
         /\ r.op = "cascade" => r.order \in Orders /\ r.event \in CascadeEvents
  BY DEF Request, Idle

\* What is left of a request after a sync is a request.
LEMMA AfterSyncType ==
  ASSUME NEW o \in Orders, NEW event
  PROVE  /\ AfterSync(o, event) \in Request
         /\ AfterSync(o, event).op \in {"idle", "cascade"}
         /\ AfterSync(o, event).op = "cascade" => AfterSync(o, event).order = o
  BY DEF AfterSync, Request, Idle

\* A step to a well-formed request leaves every request well-formed.
LEMMA GotoType ==
  ASSUME req \in [Workers -> Request], NEW w \in Workers, NEW local \in Request,
         Goto(w, local)
  PROVE  req' \in [Workers -> Request]
  BY DEF Goto

\* Recording a courier status keeps the type of the shipments.
LEMMA ShipmentType ==
  ASSUME TypeOK, NEW o \in Orders, NEW c \in Couriers, NEW event \in CourierStatus,
         shipment' = [shipment EXCEPT ![o][c] = event]
  PROVE  shipment' \in [Orders -> [Couriers -> CourierStatus \cup {None}]]
  BY DEF TypeOK

\* The type invariant holds at the start.
LEMMA InitType == Init => TypeOK
  BY FulfilmentAssumption DEF Init, TypeOK, Request, FulfilmentAssumption

\* The chokepoint keeps the types of all it touches.
LEMMA ApplyType ==
  ASSUME TypeOK, NEW o \in Orders, NEW new \in OrderStatus, NEW seen, NEW restored,
         ApplyStatusChange(o, new, seen, restored)
  PROVE  /\ piece' \in [Pieces -> PieceStatus \cup {None}]
         /\ rows' \subseteq rows
         /\ quantity' \in Nat
         /\ status' \in [Orders -> OrderStatus \cup {None}]
         /\ stockRestored' \in [Orders -> BOOLEAN]
         /\ restocks' \in [Orders -> Nat]
<1>1. status' \in [Orders -> OrderStatus \cup {None}] /\ rows' \subseteq rows
  BY DEF TypeOK, ApplyStatusChange
<1>2. stockRestored' \in [Orders -> BOOLEAN]
  BY DEF TypeOK, ApplyStatusChange
<1>3. piece' \in [Pieces -> PieceStatus \cup {None}]
  BY DEF TypeOK, ApplyStatusChange, PieceStatus
<1>4. Qty[o] \in Nat
  BY FulfilmentAssumption DEF FulfilmentAssumption
<1>5. quantity' \in {quantity, quantity + Qty[o]}
  BY DEF ApplyStatusChange
<1>6. \E n \in {restocks[o], restocks[o] + 1} : restocks' = [restocks EXCEPT ![o] = n]
  BY DEF ApplyStatusChange
<1>7. quantity' \in Nat /\ restocks' \in [Orders -> Nat]
  BY <1>4, <1>5, <1>6 DEF TypeOK
<1> QED BY <1>1, <1>2, <1>3, <1>7

-----------------------------------------------------------------------------
\* Types are kept by every step.
LEMMA TypeStep ==
  ASSUME TypeOK, RequestsStayValid, [Next]_vars
  PROVE  TypeOK'
<1> USE DEF TypeOK, stockVars, orderVars, rowVars
<1>0. Idle \in Request
  BY DEF Request
<1>1. ASSUME NEW p \in Pieces, Generate(p) \/ VoidPiece(p) PROVE TypeOK'
  BY <1>1 DEF Generate, VoidPiece, PieceStatus
<1>2. ASSUME NEW p \in Pieces, NEW outcome, ReceiveOne(p, outcome) \/ ReturnReceive(p, outcome)
      PROVE TypeOK'
  BY <1>2 DEF ReceiveOne, ReturnReceive, PieceStatus
<1>3. ASSUME NEW o \in Orders, PlaceOrder(o) PROVE TypeOK'
  <2>1. Qty[o] \in Nat
    BY FulfilmentAssumption DEF FulfilmentAssumption
  <2>2. quantity' \in Nat
    BY <1>3, <2>1 DEF PlaceOrder
  <2> QED BY <1>3, <2>2 DEF PlaceOrder, OrderStatus
<1>4. ASSUME NEW o \in Orders, CancelOrder(o) PROVE TypeOK'
  <2>1. "CANCELLED" \in OrderStatus
    BY DEF OrderStatus
  <2> QED BY <1>4, <2>1, ApplyType DEF CancelOrder
<1>5. ASSUME NEW w \in Workers, NEW o \in Orders, NEW p \in Pieces, ReserveRead(w, o, p)
      PROVE TypeOK'
  <2>1. [op |-> "reserve", order |-> o, piece |-> p] \in Request
    BY DEF Request
  <2> QED BY <1>5, <2>1, GotoType DEF ReserveRead
<1>6. ASSUME NEW w \in Workers, ReserveCommit(w) PROVE TypeOK'
  <2>1. req[w].order \in Orders /\ req[w].piece \in Pieces /\ req[w] \in Request
    BY <1>6, RequestFields DEF ReserveCommit
  <2>2. piece' \in [Pieces -> PieceStatus \cup {None}]
    BY <1>6 DEF ReserveCommit, PieceStatus
  <2>3. nextRow \in 1 .. MaxRows /\ nextRow' \in 1 .. MaxRows + 1
    BY <1>6, FulfilmentAssumption DEF ReserveCommit, FulfilmentAssumption
  <2>5. [id |-> nextRow, piece |-> req[w].piece, order |-> req[w].order,
         picked |-> FALSE] \in Row
    BY <2>1, <2>3 DEF Row
  <2>6. rows' \subseteq Row
    BY <1>6, <2>5 DEF ReserveCommit
  <2>4. group' \in [Orders -> {None, "OPEN", "SHIPPED"}]
    BY <1>6 DEF ReserveCommit
  <2> QED BY <1>6, <1>0, <2>2, <2>3, <2>4, <2>6, GotoType DEF ReserveCommit
<1>7. ASSUME NEW w \in Workers, ReleaseRead(w) PROVE TypeOK'
  <2>1. PICK r \in rows : Goto(w, [op |-> "release", row |-> r.id, piece |-> r.piece])
    BY <1>7 DEF ReleaseRead
  <2>2. [op |-> "release", row |-> r.id, piece |-> r.piece] \in Request
    BY DEF Request, Row
  <2> QED BY <1>7, <2>1, <2>2, GotoType DEF ReleaseRead
<1>8. ASSUME NEW w \in Workers, ReleaseCommit(w) PROVE TypeOK'
  <2>1. piece' \in [Pieces -> PieceStatus \cup {None}]
    BY <1>8 DEF ReleaseCommit, PieceStatus
  <2> QED BY <1>8, <1>0, <2>1, GotoType DEF ReleaseCommit
<1>9. ASSUME NEW w \in Workers, NEW p \in Pieces, PickRead(w, p) PROVE TypeOK'
  <2>1. PICK r \in OpenRows(p) : Goto(w, [op |-> "pick", row |-> r.id, piece |-> p])
    BY <1>9 DEF PickRead
  <2>2. [op |-> "pick", row |-> r.id, piece |-> p] \in Request
    BY DEF Request, Row, OpenRows
  <2> QED BY <1>9, <2>1, <2>2, GotoType DEF PickRead
<1>10. ASSUME NEW w \in Workers, PickCommit(w) PROVE TypeOK'
  <2>1. piece' \in [Pieces -> PieceStatus \cup {None}]
    BY <1>10 DEF PickCommit, PieceStatus
  <2>2. rows' \subseteq Row
    BY <1>10 DEF PickCommit, Row
  <2> QED BY <1>10, <1>0, <2>1, <2>2, GotoType DEF PickCommit
<1>11. ASSUME NEW w \in Workers, NEW o \in Orders, NEW c \in Couriers, BookRead(w, o, c)
       PROVE TypeOK'
  <2>1. [op |-> "book", order |-> o, courier |-> c] \in Request
    BY DEF Request
  <2> QED BY <1>11, <2>1, GotoType DEF BookRead
<1>12. ASSUME NEW w \in Workers, NEW first \in FirstShipment, BookCommit(w, first)
       PROVE TypeOK'
  <2>1. first \in CourierStatus /\ CourierToOrder[first] \in OrderStatus
    BY FulfilmentAssumption, CourierToOrderType DEF FulfilmentAssumption
  <2>2. req[w].order \in Orders /\ req[w].courier \in Couriers
    BY <1>12, RequestFields DEF BookCommit
  <2>3. piece' \in [Pieces -> PieceStatus \cup {None}]
    BY <1>12 DEF BookCommit, PieceStatus
  <2>4. status' \in [Orders -> OrderStatus \cup {None}]
    BY <1>12, <2>1 DEF BookCommit
  <2>5. group' \in [Orders -> {None, "OPEN", "SHIPPED"}]
    BY <1>12 DEF BookCommit
  <2>6. shipment' \in [Orders -> [Couriers -> CourierStatus \cup {None}]]
    BY <1>12, <2>1, <2>2 DEF BookCommit
  <2> QED BY <1>12, <1>0, <2>3, <2>4, <2>5, <2>6, GotoType DEF BookCommit
<1>13. ASSUME NEW w \in Workers, NEW o \in Orders, NEW c \in Couriers,
              NEW event \in CourierEvents,
              WebhookRecord(w, o, c, event) \/ PollRecord(w, o, c, event)
       PROVE TypeOK'
  <2>1. event \in CourierStatus
    BY FulfilmentAssumption DEF FulfilmentAssumption
  <2>2. \A e \in {event, None} : [op |-> "sync", order |-> o, courier |-> c, event |-> e] \in Request
    BY <2>1 DEF Request
  <2>3. shipment' \in [Orders -> [Couriers -> CourierStatus \cup {None}]]
    BY <1>13, <2>1, ShipmentType DEF WebhookRecord, PollRecord
  <2> QED BY <1>13, <2>2, <2>3, GotoType DEF WebhookRecord, PollRecord
<1>14. ASSUME NEW w \in Workers, NEW o \in Orders, NEW c \in Couriers, CancelShipment(w, o, c)
       PROVE TypeOK'
  <2>1. [op |-> "sync", order |-> o, courier |-> c, event |-> None] \in Request
    BY DEF Request
  <2>2. shipment' \in [Orders -> [Couriers -> CourierStatus \cup {None}]]
    BY <1>14 DEF CancelShipment, CourierStatus
  <2> QED BY <1>14, <2>1, <2>2, GotoType DEF CancelShipment
<1>15. ASSUME NEW w \in Workers, NEW o \in Orders, NEW c \in Couriers,
              NEW event \in CourierEvents, ManualShipmentStatus(w, o, c, event)
       PROVE TypeOK'
  <2>1. event \in CourierStatus
    BY FulfilmentAssumption DEF FulfilmentAssumption
  <2>2. (IF event = "DELIVERED" THEN [op |-> "deliver", order |-> o] ELSE Idle) \in Request
    BY DEF Request
  <2>3. shipment' \in [Orders -> [Couriers -> CourierStatus \cup {None}]]
    BY <1>15, <2>1 DEF ManualShipmentStatus
  <2> QED BY <1>15, <2>2, <2>3, GotoType DEF ManualShipmentStatus
<1>16. ASSUME NEW w \in Workers, DeliverRead(w) PROVE TypeOK'
  <2>1. req[w].order \in Orders /\ status[req[w].order] \in OrderStatus
    BY <1>16, RequestFields DEF DeliverRead, RequestsStayValid, RequestValid, OrderRequests
  <2>2. [op |-> "apply", order |-> req[w].order, new |-> "DELIVERED",
         seen |-> status[req[w].order], restored |-> stockRestored[req[w].order],
         via |-> "manual", event |-> None] \in Request
    BY <2>1 DEF Request, OrderStatus
  <2> QED BY <1>16, <2>2, GotoType DEF DeliverRead
<1>17. ASSUME NEW w \in Workers, SyncRead(w) PROVE TypeOK'
  <2> DEFINE o == req[w].order
             new == CourierToOrder[shipment[o][req[w].courier]]
             next == IF OrderRank[new] <= OrderRank[status[o]]
                     THEN AfterSync(o, req[w].event)
                     ELSE [op |-> "apply", order |-> o, new |-> new,
                           seen |-> status[o], restored |-> stockRestored[o],
                           via |-> "sync", event |-> req[w].event]
  <2>1. /\ o \in Orders /\ req[w].courier \in Couriers
        /\ req[w].event \in CourierStatus \cup {None}
    BY <1>17, RequestFields DEF SyncRead
  <2>a. req[w].op = "sync"
    BY <1>17 DEF SyncRead
  <2>b. status[o] # None /\ shipment[o][req[w].courier] # None
    BY <2>a DEF RequestsStayValid, RequestValid, OrderRequests
  <2>2. status[o] \in OrderStatus /\ shipment[o][req[w].courier] \in CourierStatus
    BY <2>1, <2>b
  <2>3. new \in OrderStatus
    BY <2>2, CourierToOrderType
  <2>4. next \in Request
    BY <2>1, <2>2, <2>3, AfterSyncType DEF Request
  <2> HIDE DEF next
  <2>5. Goto(w, next) /\ UNCHANGED <<piece, rowVars, group, stockVars, orderVars, shipment>>
    BY <1>17 DEF SyncRead, next
  <2> QED BY <2>4, <2>5, GotoType
<1>18. ASSUME NEW w \in Workers, ApplyCommit(w) PROVE TypeOK'
  <2>1. req[w].order \in Orders /\ req[w].new \in OrderStatus
    BY <1>18, RequestFields DEF ApplyCommit
  <2>2. AfterSync(req[w].order, req[w].event) \in Request
    BY <2>1, AfterSyncType
  <2> QED BY <1>18, <2>1, <2>2, GotoType, ApplyType DEF ApplyCommit
<1>19. ASSUME NEW w \in Workers, Cascade(w) PROVE TypeOK'
  <2>1. piece' \in [Pieces -> PieceStatus \cup {None}]
    BY <1>19 DEF Cascade, CascadeTo, PieceStatus
  <2> QED BY <1>19, <1>0, <2>1, GotoType DEF Cascade
<1>20. ASSUME NEW w \in Workers, Abort(w) PROVE TypeOK'
  BY <1>20, <1>0, GotoType DEF Abort
<1>21. ASSUME NEW w \in Workers, NEW o \in Orders, NEW new \in AdminStatuses,
              AdminStatusRead(w, o, new)
       PROVE TypeOK'
  <2>1. new \in OrderStatus /\ status[o] \in OrderStatus
    BY <1>21, FulfilmentAssumption DEF AdminStatusRead, FulfilmentAssumption
  <2>2. [op |-> "apply", order |-> o, new |-> new, seen |-> status[o],
         restored |-> stockRestored[o], via |-> "manual", event |-> None] \in Request
    BY <2>1 DEF Request
  <2> QED BY <1>21, <2>2, GotoType DEF AdminStatusRead
<1>22. CASE UNCHANGED vars
  BY <1>22 DEF vars
<1> QED
  BY <1>1, <1>2, <1>3, <1>4, <1>5, <1>6, <1>7, <1>8, <1>9, <1>10, <1>11, <1>12,
     <1>13, <1>14, <1>15, <1>16, <1>17, <1>18, <1>19, <1>20, <1>21, <1>22
  DEF Next, Warehouse, OrderDesk, Serve

-----------------------------------------------------------------------------
(* What requests remember stays true.                                       *)

\* A step that takes nothing away: rows keep their id and piece, new rows get
\* new ids, placed orders and booked shipments stay so.
NothingForgotten ==
  /\ nextRow' >= nextRow
  /\ RowsAreIdentified'
  /\ \A r \in rows' : \/ r.id >= nextRow
                      \/ \E s \in rows : s.id = r.id /\ s.piece = r.piece
  /\ \A o \in Orders : status[o] # None => status'[o] # None
  /\ \A o \in Orders, c \in Couriers : /\ shipment[o][c] # None => shipment'[o][c] # None
                                       /\ shipment'[o][c] # None => status'[o] # None

\* Such a step keeps every request valid, if the ones it changes are.
LEMMA StillValid ==
  ASSUME TypeOK, TypeOK', RequestsStayValid, NothingForgotten,
         \A v \in Workers : req'[v] # req[v] => RequestValid(req[v])'
  PROVE  RequestsStayValid'
<1>1. ASSUME NEW v \in Workers PROVE RequestValid(req[v])'
  <2>1. CASE req'[v] # req[v]
    BY <2>1
  <2>2. CASE req'[v] = req[v]
    <3>1. RequestValid(req[v]) /\ req[v] \in Request
      BY DEF RequestsStayValid, TypeOK
    <3>2. ASSUME req[v].op \in {"release", "pick"}
          PROVE  /\ req[v].row < nextRow'
                 /\ \A s \in rows' : s.id = req[v].row => s.piece = req[v].piece
      <4>1. req[v].row \in Int /\ req[v].row < nextRow /\ nextRow \in Int /\ nextRow' >= nextRow
        BY <3>1, <3>2, RequestFields, FulfilmentAssumption
        DEF RequestValid, TypeOK, NothingForgotten, FulfilmentAssumption
      <4>2. ASSUME NEW s \in rows', s.id = req[v].row PROVE s.piece = req[v].piece
        <5>1. PICK t \in rows : t.id = s.id /\ t.piece = s.piece
          BY <4>1, <4>2 DEF NothingForgotten
        <5> QED BY <3>1, <3>2, <4>2, <5>1 DEF RequestValid
      <4>3. nextRow' \in Int /\ nextRow' > req[v].row
        BY <4>1, FulfilmentAssumption DEF TypeOK, FulfilmentAssumption
      <4> QED BY <4>2, <4>3
    <3>3. req[v].op \in OrderRequests => status'[req[v].order] # None
      BY <3>1, RequestFields DEF RequestValid, NothingForgotten, OrderRequests
    <3>4. req[v].op = "sync" => shipment'[req[v].order][req[v].courier] # None
      BY <3>1, RequestFields DEF RequestValid, NothingForgotten
    <3> QED BY <2>2, <3>2, <3>3, <3>4 DEF RequestValid
  <2> QED BY <2>1, <2>2
<1>2. RowsAreIdentified'
  BY DEF NothingForgotten
<1>3. \A o \in Orders, c \in Couriers : shipment'[o][c] # None => status'[o] # None
  BY DEF NothingForgotten
<1> QED BY <1>1, <1>2, <1>3 DEF RequestsStayValid

\* Deleting rows, or none, forgets nothing about the others.
LEMMA FewerRows ==
  ASSUME TypeOK, RequestsStayValid, rows' \subseteq rows, nextRow' = nextRow
  PROVE  /\ nextRow' >= nextRow
         /\ RowsAreIdentified'
         /\ \A r \in rows' : \E s \in rows : s.id = r.id /\ s.piece = r.piece
  BY FulfilmentAssumption
  DEF TypeOK, RequestsStayValid, RowsAreIdentified, FulfilmentAssumption

\* Steps that leave the rows and the orders alone forget nothing.
LEMMA OrdersKept ==
  ASSUME TypeOK, RequestsStayValid, rows' \subseteq rows, nextRow' = nextRow,
         UNCHANGED <<status, shipment>>
  PROVE  NothingForgotten
  BY FewerRows DEF NothingForgotten, RequestsStayValid

\* The chokepoint sets a status and deletes rows.
LEMMA ApplyForgetsNothing ==
  ASSUME TypeOK, RequestsStayValid, NEW o \in Orders, NEW new \in OrderStatus,
         NEW seen, NEW restored, ApplyStatusChange(o, new, seen, restored),
         UNCHANGED <<nextRow, shipment>>
  PROVE  NothingForgotten
<1>1. new # None
  BY FulfilmentAssumption DEF FulfilmentAssumption
<1>2. rows' \subseteq rows
  BY ApplyType
<1>3. \A q \in Orders : status[q] # None => status'[q] # None
  BY <1>1 DEF ApplyStatusChange, TypeOK
<1> QED BY <1>2, <1>3, FewerRows DEF NothingForgotten, RequestsStayValid

\* A request that goes back to idle remembers nothing.
LEMMA IdleValid == RequestValid(Idle)'
  BY DEF RequestValid, Idle, OrderRequests

\* No request is under way at the start.
LEMMA InitValid == Init => RequestsStayValid
  BY DEF Init, RequestsStayValid, RowsAreIdentified, RequestValid, Idle, OrderRequests

\* No step of anybody makes untrue what a waiting request has read.
LEMMA ValidStep ==
  ASSUME TypeOK, TypeOK', RequestsStayValid, [Next]_vars
  PROVE  RequestsStayValid'
<1> USE DEF stockVars, orderVars, rowVars
<1>0. ASSUME NEW w \in Workers, NEW local, Goto(w, local), NothingForgotten,
             RequestValid(local)'
      PROVE RequestsStayValid'
  BY <1>0, StillValid DEF Goto, TypeOK
<1>1. ASSUME NEW p \in Pieces,
             \/ Generate(p) \/ VoidPiece(p)
             \/ \E outcome \in {"GOOD", "DAMAGED"} :
                  ReceiveOne(p, outcome) \/ ReturnReceive(p, outcome)
      PROVE RequestsStayValid'
  <2>1. UNCHANGED <<rows, nextRow, status, shipment, req>>
    BY <1>1 DEF Generate, VoidPiece, ReceiveOne, ReturnReceive
  <2> QED BY <2>1, OrdersKept, StillValid
<1>2. ASSUME NEW o \in Orders, PlaceOrder(o) PROVE RequestsStayValid'
  <2>1. UNCHANGED <<rows, nextRow, shipment, req>>
    BY <1>2 DEF PlaceOrder
  <2>2. \A q \in Orders : status[q] # None => status'[q] # None
    BY <1>2, FulfilmentAssumption DEF PlaceOrder, TypeOK, FulfilmentAssumption, OrderStatus
  <2>3. NothingForgotten
    BY <2>1, <2>2, FewerRows DEF NothingForgotten, RequestsStayValid
  <2> QED BY <2>1, <2>3, StillValid
<1>3. ASSUME NEW o \in Orders, CancelOrder(o) PROVE RequestsStayValid'
  <2>1. "CANCELLED" \in OrderStatus
    BY DEF OrderStatus
  <2> QED BY <1>3, <2>1, ApplyForgetsNothing, StillValid DEF CancelOrder
<1>4. ASSUME NEW w \in Workers, NEW local, Goto(w, local), RequestValid(local)',
             UNCHANGED <<rows, nextRow, status, shipment>>
      PROVE RequestsStayValid'
  BY <1>4, <1>0, OrdersKept
<1>5. ASSUME NEW w \in Workers, NEW o \in Orders, NEW p \in Pieces, ReserveRead(w, o, p)
      PROVE RequestsStayValid'
  BY <1>5, <1>4 DEF ReserveRead, RequestValid, OrderRequests
<1>6. ASSUME NEW w \in Workers, ReserveCommit(w) PROVE RequestsStayValid'
  <2> DEFINE new == [id |-> nextRow, piece |-> req[w].piece, order |-> req[w].order,
                     picked |-> FALSE]
  <2>1. /\ rows' = rows \cup {new} /\ nextRow' = nextRow + 1
        /\ Goto(w, Idle) /\ UNCHANGED <<status, shipment>>
    BY <1>6 DEF ReserveCommit
  <2>2. nextRow \in Int /\ nextRow' \in Int /\ nextRow' > nextRow /\ new.id = nextRow
    BY <2>1, FulfilmentAssumption DEF TypeOK, FulfilmentAssumption
  <2> HIDE DEF new
  <2>3. \A r \in rows : r.id < nextRow /\ r.id \in Int
    BY DEF TypeOK, Row, RequestsStayValid, RowsAreIdentified
  <2>4. RowsAreIdentified'
    BY <2>1, <2>2, <2>3 DEF RequestsStayValid, RowsAreIdentified
  <2>5. NothingForgotten
    BY <2>1, <2>2, <2>4 DEF NothingForgotten, RequestsStayValid
  <2> QED BY <2>1, <2>5, <1>0, IdleValid
<1>7. ASSUME NEW w \in Workers, ReleaseRead(w) PROVE RequestsStayValid'
  <2>1. PICK r \in rows : Goto(w, [op |-> "release", row |-> r.id, piece |-> r.piece])
    BY <1>7 DEF ReleaseRead
  <2>2. RequestValid([op |-> "release", row |-> r.id, piece |-> r.piece])'
    BY <1>7 DEF ReleaseRead, RequestsStayValid, RowsAreIdentified, RequestValid, OrderRequests
  <2> QED BY <1>7, <2>1, <2>2, <1>4 DEF ReleaseRead
<1>8. ASSUME NEW w \in Workers, ReleaseCommit(w) PROVE RequestsStayValid'
  <2>1. NothingForgotten
    BY <1>8, OrdersKept DEF ReleaseCommit
  <2> QED BY <1>8, <2>1, <1>0, IdleValid DEF ReleaseCommit
<1>9. ASSUME NEW w \in Workers, NEW p \in Pieces, PickRead(w, p) PROVE RequestsStayValid'
  <2>1. PICK r \in OpenRows(p) : Goto(w, [op |-> "pick", row |-> r.id, piece |-> p])
    BY <1>9 DEF PickRead
  <2>2. RequestValid([op |-> "pick", row |-> r.id, piece |-> p])'
    BY <1>9 DEF PickRead, RequestsStayValid, RowsAreIdentified, RequestValid,
                OrderRequests, OpenRows
  <2> QED BY <1>9, <2>1, <2>2, <1>4 DEF PickRead
<1>10. ASSUME NEW w \in Workers, PickCommit(w) PROVE RequestsStayValid'
  <2>1. PICK r \in rows : rows' = (rows \ {r}) \cup {[r EXCEPT !.picked = TRUE]}
    BY <1>10 DEF PickCommit
  <2> DEFINE picked == [r EXCEPT !.picked = TRUE]
  <2>2. picked.id = r.id /\ picked.piece = r.piece
    BY DEF TypeOK, Row
  <2> HIDE DEF picked
  <2>3. UNCHANGED <<nextRow, status, shipment>> /\ Goto(w, Idle)
    BY <1>10 DEF PickCommit
  <2>4. RowsAreIdentified'
    <3>1. \A x \in rows' : x = picked \/ (x \in rows /\ x # r)
      BY <2>1 DEF picked
    <3>2. \A x \in rows : x.id < nextRow /\ (x # r => x.id # r.id)
      BY DEF RequestsStayValid, RowsAreIdentified
    <3>3. \A x, y \in rows : x.id = y.id => x = y
      BY DEF RequestsStayValid, RowsAreIdentified
    <3> QED BY <2>2, <2>3, <3>1, <3>2, <3>3 DEF RowsAreIdentified
  <2>5. nextRow' >= nextRow
    BY <2>3, FulfilmentAssumption DEF TypeOK, FulfilmentAssumption
  <2>6. NothingForgotten
    BY <2>1, <2>2, <2>3, <2>4, <2>5 DEF NothingForgotten, RequestsStayValid, picked
  <2> QED BY <2>3, <2>6, <1>0, IdleValid
<1>11. ASSUME NEW w \in Workers, NEW o \in Orders, NEW c \in Couriers, BookRead(w, o, c)
       PROVE RequestsStayValid'
  BY <1>11, <1>4 DEF BookRead, RequestValid, OrderRequests
<1>12. ASSUME NEW w \in Workers, NEW first \in FirstShipment, BookCommit(w, first)
       PROVE RequestsStayValid'
  <2>1. /\ req[w].order \in Orders /\ req[w].courier \in Couriers
        /\ req[w].op = "book"
    BY <1>12, RequestFields DEF BookCommit, TypeOK
  <2>2. status[req[w].order] # None
    BY <2>1 DEF RequestsStayValid, RequestValid, OrderRequests
  <2>3. /\ first \in CourierStatus /\ first # None
        /\ CourierToOrder[first] \in OrderStatus /\ CourierToOrder[first] # None
    BY FulfilmentAssumption, CourierToOrderType DEF FulfilmentAssumption
  <2>4. \A o \in Orders : status[o] # None => status'[o] # None
    BY <1>12, <2>3 DEF BookCommit, TypeOK
  <2>5. \A o \in Orders, c \in Couriers :
          /\ shipment[o][c] # None => shipment'[o][c] # None
          /\ shipment'[o][c] # None => shipment[o][c] # None \/ o = req[w].order
    BY <1>12, <2>1, <2>3 DEF BookCommit, TypeOK
  <2>6. NothingForgotten
    BY <1>12, <2>2, <2>4, <2>5, FewerRows DEF BookCommit, NothingForgotten, RequestsStayValid
  <2> QED BY <1>12, <2>6, <1>0, IdleValid DEF BookCommit
<1>13. ASSUME NEW w \in Workers, NEW o \in Orders, NEW c \in Couriers,
              NEW event \in CourierStatus, shipment[o][c] # None,
              shipment' = [shipment EXCEPT ![o][c] = event],
              UNCHANGED <<rows, nextRow, status>>
       PROVE /\ NothingForgotten /\ status'[o] # None /\ shipment'[o][c] # None
  <2>1. event # None
    BY FulfilmentAssumption DEF FulfilmentAssumption
  <2>2. \A q \in Orders, d \in Couriers : shipment[q][d] # None <=> shipment'[q][d] # None
    BY <1>13, <2>1 DEF TypeOK
  <2> QED BY <1>13, <2>2, FewerRows DEF NothingForgotten, RequestsStayValid
<1>14. ASSUME NEW w \in Workers, NEW o \in Orders, NEW c \in Couriers,
              NEW event \in CourierEvents,
              WebhookRecord(w, o, c, event) \/ PollRecord(w, o, c, event)
       PROVE RequestsStayValid'
  <2>1. event \in CourierStatus
    BY FulfilmentAssumption DEF FulfilmentAssumption
  <2>2. PICK e : Goto(w, [op |-> "sync", order |-> o, courier |-> c, event |-> e])
    BY <1>14 DEF WebhookRecord, PollRecord
  <2>3. NothingForgotten /\ status'[o] # None /\ shipment'[o][c] # None
    BY <1>14, <2>1, <1>13 DEF WebhookRecord, PollRecord
  <2>4. RequestValid([op |-> "sync", order |-> o, courier |-> c, event |-> e])'
    BY <2>3 DEF RequestValid
  <2> QED BY <2>2, <2>3, <2>4, <1>0
<1>15. ASSUME NEW w \in Workers, NEW o \in Orders, NEW c \in Couriers, CancelShipment(w, o, c)
       PROVE RequestsStayValid'
  <2>1. "CANCELLED" \in CourierStatus
    BY DEF CourierStatus
  <2>2. NothingForgotten /\ status'[o] # None /\ shipment'[o][c] # None
    BY <1>15, <2>1, <1>13 DEF CancelShipment
  <2>3. RequestValid([op |-> "sync", order |-> o, courier |-> c, event |-> None])'
    BY <2>2 DEF RequestValid
  <2> QED BY <1>15, <2>2, <2>3, <1>0 DEF CancelShipment
<1>16. ASSUME NEW w \in Workers, NEW o \in Orders, NEW c \in Couriers,
              NEW event \in CourierEvents, ManualShipmentStatus(w, o, c, event)
       PROVE RequestsStayValid'
  <2>1. event \in CourierStatus
    BY FulfilmentAssumption DEF FulfilmentAssumption
  <2>2. NothingForgotten /\ status'[o] # None /\ shipment'[o][c] # None
    BY <1>16, <2>1, <1>13 DEF ManualShipmentStatus
  <2>3. RequestValid(IF event = "DELIVERED" THEN [op |-> "deliver", order |-> o] ELSE Idle)'
    BY <2>2, IdleValid DEF RequestValid
  <2> QED BY <1>16, <2>2, <2>3, <1>0 DEF ManualShipmentStatus
<1>17. ASSUME NEW w \in Workers, DeliverRead(w) \/ SyncRead(w) PROVE RequestsStayValid'
  <2> DEFINE o == req[w].order
  <2>1. PICK local : /\ Goto(w, local)
                     /\ \/ local.op = "apply" /\ local.order = o
                        \/ \E e : local = AfterSync(o, e)
    <3>1. CASE DeliverRead(w)
      BY <3>1 DEF DeliverRead
    <3>2. CASE SyncRead(w)
      <4> DEFINE new == CourierToOrder[shipment[o][req[w].courier]]
                 apply == [op |-> "apply", order |-> o, new |-> new,
                           seen |-> status[o], restored |-> stockRestored[o],
                           via |-> "sync", event |-> req[w].event]
      <4>1. apply.op = "apply" /\ apply.order = o
        OBVIOUS
      <4>2. Goto(w, AfterSync(o, req[w].event)) \/ Goto(w, apply)
        BY <3>2 DEF SyncRead
      <4> QED BY <4>1, <4>2
    <3> QED BY <1>17, <3>1, <3>2
  <2>2. o \in Orders /\ status[o] # None
    BY <1>17, RequestFields
    DEF DeliverRead, SyncRead, RequestsStayValid, RequestValid, OrderRequests, TypeOK
  <2>3. local.op \in {"idle", "cascade", "apply"} /\ (local.op # "idle" => local.order = o)
    BY <2>1, <2>2, AfterSyncType
  <2>4. RequestValid(local)'
    BY <1>17, <2>2, <2>3 DEF RequestValid, DeliverRead, SyncRead, OrderRequests
  <2> QED BY <1>17, <2>1, <2>4, <1>4 DEF DeliverRead, SyncRead
<1>18. ASSUME NEW w \in Workers, ApplyCommit(w) PROVE RequestsStayValid'
  <2>0. PICK o, local : o = req[w].order /\ local = AfterSync(o, req[w].event)
    OBVIOUS
  <2>1. o \in Orders /\ req[w].new \in OrderStatus /\ status[o] # None
    BY <1>18, <2>0, RequestFields
    DEF ApplyCommit, RequestsStayValid, RequestValid, OrderRequests, TypeOK
  <2>2. NothingForgotten
    BY <1>18, <2>0, <2>1, ApplyForgetsNothing DEF ApplyCommit
  <2>3. local.op \in {"idle", "cascade"} /\ (local.op = "cascade" => local.order = o)
    BY <2>0, <2>1, AfterSyncType
  <2>4. RequestValid(local)'
    BY <2>1, <2>2, <2>3 DEF RequestValid, NothingForgotten, OrderRequests
  <2> QED BY <1>18, <2>0, <2>2, <2>4, <1>0 DEF ApplyCommit
<1>19. ASSUME NEW w \in Workers, Cascade(w) \/ Abort(w) PROVE RequestsStayValid'
  BY <1>19, <1>4, IdleValid DEF Cascade, Abort
<1>20. ASSUME NEW w \in Workers, NEW o \in Orders, NEW new \in AdminStatuses,
              AdminStatusRead(w, o, new)
       PROVE RequestsStayValid'
  BY <1>20, <1>4 DEF AdminStatusRead, RequestValid, OrderRequests
<1>21. CASE UNCHANGED vars
  BY <1>21, OrdersKept, StillValid DEF vars
<1> QED
  BY <1>1, <1>2, <1>3, <1>5, <1>6, <1>7, <1>8, <1>9, <1>10, <1>11, <1>12, <1>14,
     <1>15, <1>16, <1>17, <1>18, <1>19, <1>20, <1>21
  DEF Next, Warehouse, OrderDesk, Serve

-----------------------------------------------------------------------------
(* Reserved pieces have a row to be picked by; rows are for received pieces. *)

\* Steps that reserve nothing and touch no row keep both.
LEMMA RowsUntouched ==
  ASSUME TypeOK, ReservedHasOpenRow, UnreceivedNeverReserved, rows' = rows,
         \A q \in Pieces : piece'[q] = "RESERVED" => piece[q] = "RESERVED",
         \A r \in rows : \/ piece'[r.piece] = piece[r.piece]
                         \/ piece'[r.piece] \notin Unreceived \cup {None}
  PROVE  ReservedHasOpenRow' /\ UnreceivedNeverReserved'
<1>1. ReservedHasOpenRow'
  BY DEF ReservedHasOpenRow, OpenRows
<1>2. UnreceivedNeverReserved'
  BY DEF UnreceivedNeverReserved, Unreceived
<1> QED BY <1>1, <1>2

\* None is no piece status.
LEMMA NoneIsNoStatus == \A s \in PieceStatus : s # None
  BY FulfilmentAssumption DEF FulfilmentAssumption

\* The chokepoint puts pieces back on the shelf with the rows it deletes.
LEMMA ApplyKeepsRows ==
  ASSUME TypeOK, ReservedHasOpenRow, UnreceivedNeverReserved, NEW o \in Orders,
         NEW new, NEW seen, NEW restored, ApplyStatusChange(o, new, seen, restored)
  PROVE  ReservedHasOpenRow' /\ UnreceivedNeverReserved'
<1>1. PICK released \in SUBSET rows :
        /\ rows' = rows \ released
        /\ piece' = [p \in Pieces |->
                       IF p \in PiecesOf(released) THEN "IN_STOCK" ELSE piece[p]]
  <2> DEFINE back == IF /\ new \in StockRestoreStatuses
                        /\ seen \notin StockRestoreStatuses
                        /\ ~restored
                     THEN {r \in RowsOf(o) : piece[r.piece] \in Claimed} ELSE {}
  <2>1. back \in SUBSET rows
    BY DEF RowsOf
  <2> QED BY <2>1 DEF ApplyStatusChange
<1>2. ASSUME NEW q \in Pieces, piece'[q] = "RESERVED" PROVE OpenRows(q)' # {}
  <2>1. q \notin PiecesOf(released) /\ piece[q] = "RESERVED"
    BY <1>1, <1>2
  <2>2. PICK r \in rows : r.piece = q /\ ~r.picked
    BY <2>1 DEF ReservedHasOpenRow, OpenRows
  <2>3. r \in rows'
    BY <1>1, <2>1, <2>2 DEF PiecesOf
  <2> QED BY <2>2, <2>3 DEF OpenRows
<1>3. ASSUME NEW r \in rows' PROVE piece'[r.piece] \notin Unreceived \cup {None}
  <2>1. r \in rows /\ r.piece \in Pieces
    BY <1>1, <1>3 DEF TypeOK, Row
  <2> QED BY <1>1, <2>1, NoneIsNoStatus
          DEF UnreceivedNeverReserved, Unreceived, PieceStatus
<1> QED BY <1>2, <1>3 DEF ReservedHasOpenRow, UnreceivedNeverReserved

\* At the start nothing is reserved.
LEMMA InitRows == Init => ReservedHasOpenRow /\ UnreceivedNeverReserved
  BY NoneIsNoStatus
  DEF Init, ReservedHasOpenRow, UnreceivedNeverReserved, OpenRows, PieceStatus

\* Every step moves a reserved piece and its row together.
LEMMA RowsStep ==
  ASSUME TypeOK, RequestsStayValid, ReservedHasOpenRow, UnreceivedNeverReserved,
         [Next]_vars
  PROVE  ReservedHasOpenRow' /\ UnreceivedNeverReserved'
<1> USE DEF stockVars, orderVars, rowVars
<1> DEFINE Goal == ReservedHasOpenRow' /\ UnreceivedNeverReserved'
<1>0. ASSUME UNCHANGED <<piece, rows>> PROVE Goal
  BY <1>0, RowsUntouched
<1>1. ASSUME NEW p \in Pieces, NEW to \in PieceStatus, to # "RESERVED",
             piece' = [piece EXCEPT ![p] = to], UNCHANGED rows,
             piece[p] \in {"CREATED", None} \/ to \notin Unreceived
      PROVE Goal
  <2>1. \A q \in Pieces : piece'[q] = "RESERVED" => piece[q] = "RESERVED"
    BY <1>1 DEF TypeOK
  <2>2. \A r \in rows : r.piece \in Pieces /\ piece[r.piece] \notin {"CREATED", None}
    BY DEF TypeOK, Row, UnreceivedNeverReserved, Unreceived
  <2>3. \A r \in rows : \/ piece'[r.piece] = piece[r.piece]
                        \/ piece'[r.piece] \notin Unreceived \cup {None}
    BY <1>1, <2>2, NoneIsNoStatus DEF TypeOK
  <2> QED BY <1>1, <2>1, <2>3, RowsUntouched
<1>2. ASSUME NEW p \in Pieces, Generate(p) \/ VoidPiece(p) PROVE Goal
  BY <1>2, <1>1 DEF Generate, VoidPiece, PieceStatus
<1>3. ASSUME NEW p \in Pieces, NEW outcome, ReceiveOne(p, outcome) \/ ReturnReceive(p, outcome)
      PROVE Goal
  BY <1>3, <1>1 DEF ReceiveOne, ReturnReceive, PieceStatus, Unreceived
<1>4. ASSUME NEW o \in Orders, CancelOrder(o) PROVE Goal
  BY <1>4, ApplyKeepsRows DEF CancelOrder
<1>5. ASSUME NEW w \in Workers, ApplyCommit(w) PROVE Goal
  BY <1>5, ApplyKeepsRows, RequestFields DEF ApplyCommit, TypeOK
<1>6. ASSUME NEW w \in Workers, ReserveCommit(w) PROVE Goal
  <2> DEFINE p == req[w].piece
             new == [id |-> nextRow, piece |-> p, order |-> req[w].order, picked |-> FALSE]
  <2>1. p \in Pieces
    BY <1>6, RequestFields DEF ReserveCommit, TypeOK
  <2>2. piece' = [piece EXCEPT ![p] = "RESERVED"] /\ rows' = rows \cup {new}
    BY <1>6 DEF ReserveCommit
  <2>3. new \in rows' /\ new.piece = p /\ ~new.picked
    BY <2>2
  <2> HIDE DEF new
  <2>4. ReservedHasOpenRow'
    BY <2>1, <2>2, <2>3 DEF ReservedHasOpenRow, OpenRows, TypeOK
  <2>5. UnreceivedNeverReserved'
    BY <2>1, <2>2, <2>3, NoneIsNoStatus
    DEF UnreceivedNeverReserved, Unreceived, TypeOK, Row, PieceStatus
  <2> QED BY <2>4, <2>5
<1>7. ASSUME NEW w \in Workers, ReleaseCommit(w) PROVE Goal
  <2> DEFINE p == req[w].piece
  <2>1. PICK r \in rows : r.id = req[w].row /\ rows' = rows \ {r}
    BY <1>7 DEF ReleaseCommit
  <2>2. p \in Pieces /\ r.piece = p
    BY <1>7, <2>1, RequestFields DEF ReleaseCommit, TypeOK, RequestsStayValid, RequestValid
  <2>3. piece' = [piece EXCEPT ![p] = IF @ = "RESERVED" THEN "IN_STOCK" ELSE @]
    BY <1>7 DEF ReleaseCommit
  <2>4. ASSUME NEW q \in Pieces, piece'[q] = "RESERVED" PROVE OpenRows(q)' # {}
    <3>1. q # p /\ piece[q] = "RESERVED"
      BY <2>2, <2>3, <2>4 DEF TypeOK
    <3>2. PICK s \in rows : s.piece = q /\ ~s.picked
      BY <3>1 DEF ReservedHasOpenRow, OpenRows
    <3> QED BY <2>1, <2>2, <3>1, <3>2 DEF OpenRows
  <2>5. UnreceivedNeverReserved'
    BY <2>1, <2>2, <2>3, NoneIsNoStatus
    DEF UnreceivedNeverReserved, Unreceived, TypeOK, Row, PieceStatus
  <2> QED BY <2>4, <2>5 DEF ReservedHasOpenRow
<1>8. ASSUME NEW w \in Workers, PickCommit(w) PROVE Goal
  <2> DEFINE p == req[w].piece
  <2>1. PICK r \in rows : /\ r.id = req[w].row
                          /\ rows' = (rows \ {r}) \cup {[r EXCEPT !.picked = TRUE]}
    BY <1>8 DEF PickCommit
  <2> DEFINE picked == [r EXCEPT !.picked = TRUE]
  <2>2. p \in Pieces /\ r.piece = p /\ picked.piece = p
    BY <1>8, <2>1, RequestFields
    DEF PickCommit, TypeOK, RequestsStayValid, RequestValid, Row
  <2> HIDE DEF picked
  <2>3. piece' = [piece EXCEPT ![p] = "PICKED"]
    BY <1>8 DEF PickCommit
  <2>4. ASSUME NEW q \in Pieces, piece'[q] = "RESERVED" PROVE OpenRows(q)' # {}
    <3>1. q # p /\ piece[q] = "RESERVED"
      BY <2>2, <2>3, <2>4 DEF TypeOK
    <3>2. PICK s \in rows : s.piece = q /\ ~s.picked
      BY <3>1 DEF ReservedHasOpenRow, OpenRows
    <3> QED BY <2>1, <2>2, <3>1, <3>2 DEF OpenRows
  <2>5. ASSUME NEW s \in rows' PROVE piece'[s.piece] \notin Unreceived \cup {None}
    <3>1. s \in rows \/ s.piece = p
      BY <2>1, <2>2 DEF picked
    <3> QED BY <2>2, <2>3, <3>1, NoneIsNoStatus
            DEF UnreceivedNeverReserved, Unreceived, TypeOK, Row, PieceStatus
  <2> QED BY <2>4, <2>5 DEF ReservedHasOpenRow, UnreceivedNeverReserved
<1>9. ASSUME NEW S \in SUBSET Pieces, NEW to \in PieceStatus \ Unreceived, to # "RESERVED",
             piece' = [p \in Pieces |-> IF p \in S THEN to ELSE piece[p]], rows' = rows
      PROVE Goal
  <2>1. \A r \in rows : r.piece \in Pieces
    BY DEF TypeOK, Row
  <2> QED BY <1>9, <2>1, RowsUntouched, NoneIsNoStatus
<1>10. ASSUME NEW w \in Workers, NEW first \in FirstShipment, BookCommit(w, first) PROVE Goal
  <2>1. PiecesOf(RowsOf(req[w].order)) \in SUBSET Pieces
    BY DEF PiecesOf, RowsOf, TypeOK, Row
  <2>2. "SHIPPED" \in PieceStatus \ Unreceived
    BY DEF PieceStatus, Unreceived
  <2> QED BY <1>9, <1>10, <2>1, <2>2 DEF BookCommit
<1>11. ASSUME NEW w \in Workers, Cascade(w) PROVE Goal
  <2>1. PICK moved \in SUBSET PiecesOf(RowsOf(req[w].order)) :
          piece' = [p \in Pieces |->
                      IF p \in moved THEN CascadeTo(req[w].event) ELSE piece[p]]
    BY <1>11 DEF Cascade
  <2>2. moved \in SUBSET Pieces
    BY DEF PiecesOf, RowsOf, TypeOK, Row
  <2>3. CascadeTo(req[w].event) \in PieceStatus \ Unreceived /\ CascadeTo(req[w].event) # "RESERVED"
    BY DEF PieceStatus, Unreceived, CascadeTo
  <2> QED BY <1>9, <1>11, <2>1, <2>2, <2>3 DEF Cascade
<1>12. ASSUME NEW w \in Workers,
              \/ ReleaseRead(w) \/ DeliverRead(w) \/ SyncRead(w) \/ Abort(w)
              \/ \E p \in Pieces : PickRead(w, p) \/ \E o \in Orders : ReserveRead(w, o, p)
              \/ \E o \in Orders, new \in AdminStatuses : AdminStatusRead(w, o, new)
              \/ \E o \in Orders, c \in Couriers :
                   \/ BookRead(w, o, c) \/ CancelShipment(w, o, c)
                   \/ \E event \in CourierEvents :
                        \/ WebhookRecord(w, o, c, event) \/ PollRecord(w, o, c, event)
                        \/ ManualShipmentStatus(w, o, c, event)
       PROVE Goal
  <2>1. CASE ReleaseRead(w) \/ DeliverRead(w) \/ SyncRead(w) \/ Abort(w)
    BY <1>0, <2>1 DEF ReleaseRead, DeliverRead, SyncRead, Abort
  <2>2. CASE \E p \in Pieces : PickRead(w, p) \/ \E o \in Orders : ReserveRead(w, o, p)
    BY <1>0, <2>2 DEF PickRead, ReserveRead
  <2>3. CASE \/ \E o \in Orders, new \in AdminStatuses : AdminStatusRead(w, o, new)
             \/ \E o \in Orders, c \in Couriers : BookRead(w, o, c) \/ CancelShipment(w, o, c)
    BY <1>0, <2>3 DEF AdminStatusRead, BookRead, CancelShipment
  <2>4. CASE \E o \in Orders, c \in Couriers, event \in CourierEvents :
               \/ WebhookRecord(w, o, c, event) \/ PollRecord(w, o, c, event)
               \/ ManualShipmentStatus(w, o, c, event)
    BY <1>0, <2>4 DEF WebhookRecord, PollRecord, ManualShipmentStatus
  <2> QED BY <1>12, <2>1, <2>2, <2>3, <2>4
<1>13. ASSUME NEW o \in Orders, PlaceOrder(o) PROVE Goal
  BY <1>0, <1>13 DEF PlaceOrder
<1>14. CASE UNCHANGED vars
  BY <1>0, <1>14 DEF vars
<1> QED
  BY <1>2, <1>3, <1>4, <1>5, <1>6, <1>7, <1>8, <1>10, <1>11, <1>12, <1>13, <1>14
  DEF Next, Warehouse, OrderDesk, Serve

-----------------------------------------------------------------------------
(* The overrun of a line is bounded by the requests that raced.             *)

\* The table is finite.
RowsFinite == IsFiniteSet(rows)

\* Finite sets of rows and of workers, and their sizes.
LEMMA Sizes ==
  ASSUME RowsFinite, NEW o \in Orders
  PROVE  /\ IsFiniteSet(RowsOf(o)) /\ Cardinality(RowsOf(o)) \in Nat
         /\ IsFiniteSet(InFlight(o)) /\ Cardinality(InFlight(o)) \in Nat
         /\ Cardinality(InFlight(o)) <= Cardinality(Workers)
         /\ Cardinality(Workers) \in Nat /\ Qty[o] \in Nat
<1>1. RowsOf(o) \subseteq rows /\ InFlight(o) \subseteq Workers
  BY DEF RowsOf, InFlight
<1>2. IsFiniteSet(rows) /\ IsFiniteSet(Workers) /\ Qty[o] \in Nat
  BY FulfilmentAssumption DEF FulfilmentAssumption, RowsFinite
<1> QED BY <1>1, <1>2, FS_Subset, FS_CardinalityType

\* Fewer rows and fewer requests on a line keep its bound.
LEMMA FewerOnLine ==
  ASSUME RowsFinite, RowsFinite', OverrunBounded, NEW o \in Orders,
         Cardinality(RowsOf(o)') <= Cardinality(RowsOf(o)),
         InFlight(o)' \subseteq InFlight(o)
  PROVE  Cardinality(RowsOf(o)') + Cardinality(InFlight(o)') < Qty[o] + Cardinality(Workers)
<1>1. /\ Cardinality(InFlight(o)') <= Cardinality(InFlight(o))
      /\ Cardinality(InFlight(o)') \in Nat
  BY Sizes, FS_Subset, FS_CardinalityType
<1>2. Cardinality(RowsOf(o)') \in Nat
  <2>1. RowsOf(o)' \subseteq rows' /\ IsFiniteSet(rows')
    BY DEF RowsOf, RowsFinite
  <2> QED BY <2>1, FS_Subset, FS_CardinalityType
<1>3. Cardinality(RowsOf(o)) + Cardinality(InFlight(o)) < Qty[o] + Cardinality(Workers)
  BY DEF OverrunBounded
<1> QED BY <1>1, <1>2, <1>3, Sizes

\* Deleting rows and finishing requests fills no line.
LEMMA FewerRowsFewerOnLine ==
  ASSUME RowsFinite, OverrunBounded, rows' \subseteq rows,
         \A o \in Orders : InFlight(o)' \subseteq InFlight(o)
  PROVE  RowsFinite' /\ OverrunBounded'
<1>1. RowsFinite'
  BY FS_Subset DEF RowsFinite
<1>2. ASSUME NEW o \in Orders
      PROVE Cardinality(RowsOf(o)') <= Cardinality(RowsOf(o))
  <2>1. RowsOf(o)' \subseteq RowsOf(o)
    BY DEF RowsOf
  <2> QED BY <2>1, Sizes, FS_Subset
<1> QED BY <1>1, <1>2, FewerOnLine DEF OverrunBounded

\* A request that goes on to anything but a reservation is in flight for no line.
LEMMA InFlightShrinks ==
  ASSUME TypeOK, NEW w \in Workers, NEW local, local.op # "reserve", Goto(w, local)
  PROVE  \A o \in Orders : InFlight(o)' \subseteq InFlight(o)
  BY DEF InFlight, Goto, TypeOK

\* At the start every line is empty.
LEMMA InitOverrun ==
  Init => RowsFinite /\ OverrunBounded
<1> SUFFICES ASSUME Init PROVE RowsFinite /\ OverrunBounded
  OBVIOUS
<1>1. RowsFinite
  BY FS_EmptySet DEF Init, RowsFinite
<1>2. ASSUME NEW o \in Orders
      PROVE Cardinality(RowsOf(o)) + Cardinality(InFlight(o)) < Qty[o] + Cardinality(Workers)
  <2>1. RowsOf(o) = {} /\ InFlight(o) = {}
    BY DEF Init, RowsOf, InFlight, Idle
  <2>2. Qty[o] \in Nat \ {0}
    BY FulfilmentAssumption DEF FulfilmentAssumption
  <2> QED BY <1>1, <2>1, <2>2, Sizes, FS_EmptySet
<1> QED BY <1>1, <1>2 DEF OverrunBounded

\* A step that adds a row spends a request that was in flight; a request is let
\* in flight only while its line has room.
LEMMA OverrunStep ==
  ASSUME TypeOK, RequestsStayValid, RowsFinite, OverrunBounded, [Next]_vars
  PROVE  RowsFinite' /\ OverrunBounded'
<1> USE DEF stockVars, orderVars, rowVars
<1> DEFINE Goal == RowsFinite' /\ OverrunBounded'
<1>1. ASSUME rows' \subseteq rows, UNCHANGED req PROVE Goal
  <2>1. \A o \in Orders : InFlight(o)' = InFlight(o)
    BY <1>1 DEF InFlight
  <2> QED BY <1>1, <2>1, FewerRowsFewerOnLine
<1>2. ASSUME NEW w \in Workers, NEW local, local.op # "reserve", Goto(w, local),
             rows' \subseteq rows
      PROVE Goal
  BY <1>2, InFlightShrinks, FewerRowsFewerOnLine
<1>3. ASSUME NEW p \in Pieces,
             \/ Generate(p) \/ VoidPiece(p)
             \/ \E outcome \in {"GOOD", "DAMAGED"} :
                  ReceiveOne(p, outcome) \/ ReturnReceive(p, outcome)
      PROVE Goal
  BY <1>1, <1>3 DEF Generate, VoidPiece, ReceiveOne, ReturnReceive
<1>4. ASSUME NEW o \in Orders, PlaceOrder(o) PROVE Goal
  BY <1>1, <1>4 DEF PlaceOrder
<1>5. ASSUME NEW o \in Orders, CancelOrder(o) PROVE Goal
  BY <1>1, <1>5 DEF CancelOrder, ApplyStatusChange
<1>6. ASSUME NEW w \in Workers, NEW o \in Orders, NEW p \in Pieces, ReserveRead(w, o, p)
      PROVE Goal
  <2>1. RowsFinite' /\ UNCHANGED rows
    BY <1>6 DEF ReserveRead, RowsFinite
  <2>2. ASSUME NEW q \in Orders
        PROVE Cardinality(RowsOf(q)') + Cardinality(InFlight(q)') < Qty[q] + Cardinality(Workers)
    <3>1. RowsOf(q)' = RowsOf(q)
      BY <2>1 DEF RowsOf
    <3>2. CASE q = o
      <4>1. /\ InFlight(q)' \subseteq Workers /\ IsFiniteSet(Workers)
        BY FulfilmentAssumption DEF InFlight, FulfilmentAssumption
      <4>2. /\ Cardinality(InFlight(q)') <= Cardinality(Workers)
            /\ Cardinality(InFlight(q)') \in Nat
        BY <4>1, FS_Subset, FS_CardinalityType
      <4>3. Cardinality(RowsOf(q)) < Qty[q]
        BY <1>6, <3>2 DEF ReserveRead
      <4> QED BY <3>1, <4>2, <4>3, Sizes
    <3>3. CASE q # o
      <4>1. InFlight(q)' \subseteq InFlight(q)
        BY <1>6, <3>3 DEF ReserveRead, Goto, InFlight, TypeOK
      <4>2. Cardinality(RowsOf(q)') <= Cardinality(RowsOf(q))
        BY <3>1, Sizes
      <4> QED BY <2>1, <4>1, <4>2, FewerOnLine
    <3> QED BY <3>2, <3>3
  <2> QED BY <2>1, <2>2 DEF OverrunBounded
<1>7. ASSUME NEW w \in Workers, ReserveCommit(w) PROVE Goal
  <2>1. PICK o, new : /\ o = req[w].order /\ new.order = o
                      /\ rows' = rows \cup {new}
    BY <1>7 DEF ReserveCommit
  <2>2. /\ o \in Orders /\ w \in InFlight(o) /\ Goto(w, Idle)
    BY <1>7, <2>1, RequestFields DEF ReserveCommit, TypeOK, InFlight
  <2>3. RowsFinite'
    BY <2>1, FS_AddElement DEF RowsFinite
  <2>4. \A q \in Orders : InFlight(q)' \subseteq InFlight(q)
    BY <2>2, InFlightShrinks DEF Idle
  <2>5. ASSUME NEW q \in Orders
        PROVE Cardinality(RowsOf(q)') + Cardinality(InFlight(q)') < Qty[q] + Cardinality(Workers)
    <3>1. CASE q # o
      <4>1. RowsOf(q)' = RowsOf(q)
        BY <2>1, <3>1 DEF RowsOf
      <4>2. Cardinality(RowsOf(q)') <= Cardinality(RowsOf(q))
        BY <4>1, Sizes
      <4> QED BY <2>3, <2>4, <4>2, FewerOnLine
    <3>2. CASE q = o
      <4>1. RowsOf(q)' = RowsOf(q) \cup {new}
        BY <2>1, <3>2 DEF RowsOf
      <4>2. /\ Cardinality(RowsOf(q)') <= Cardinality(RowsOf(q)) + 1
            /\ Cardinality(RowsOf(q)') \in Nat
        <5>1. IsFiniteSet(RowsOf(q)) /\ Cardinality(RowsOf(q)) \in Nat
          BY Sizes
        <5>2. /\ Cardinality(RowsOf(q) \cup {new}) \in {Cardinality(RowsOf(q)), Cardinality(RowsOf(q)) + 1}
          BY <5>1, FS_AddElement
        <5> QED BY <4>1, <5>1, <5>2
      <4>3. InFlight(q)' \subseteq InFlight(q) \ {w}
        BY <2>2, <2>4, <3>2 DEF InFlight, Goto, TypeOK, Idle
      <4>4. /\ Cardinality(InFlight(q)') <= Cardinality(InFlight(q)) - 1
            /\ Cardinality(InFlight(q)') \in Nat
        <5>1. IsFiniteSet(InFlight(q)) /\ Cardinality(InFlight(q)) \in Nat
          BY Sizes
        <5>2. /\ IsFiniteSet(InFlight(q) \ {w})
              /\ Cardinality(InFlight(q) \ {w}) = Cardinality(InFlight(q)) - 1
          BY <2>2, <3>2, <5>1, FS_RemoveElement
        <5> QED BY <4>3, <5>1, <5>2, FS_Subset, FS_CardinalityType
      <4>5. Cardinality(RowsOf(q)) + Cardinality(InFlight(q)) < Qty[q] + Cardinality(Workers)
        BY DEF OverrunBounded
      <4> QED BY <4>2, <4>4, <4>5, Sizes
    <3> QED BY <3>1, <3>2
  <2> QED BY <2>3, <2>5 DEF OverrunBounded
<1>8. ASSUME NEW w \in Workers, PickCommit(w) PROVE Goal
  <2>1. PICK r \in rows : rows' = (rows \ {r}) \cup {[r EXCEPT !.picked = TRUE]}
    BY <1>8 DEF PickCommit
  <2> DEFINE picked == [r EXCEPT !.picked = TRUE]
  <2>2. picked.order = r.order
    BY DEF TypeOK, Row
  <2> HIDE DEF picked
  <2>3. RowsFinite'
    BY <2>1, FS_RemoveElement, FS_AddElement DEF RowsFinite, picked
  <2>4. ASSUME NEW q \in Orders
        PROVE Cardinality(RowsOf(q)') <= Cardinality(RowsOf(q))
    <3>1. IsFiniteSet(RowsOf(q)) /\ Cardinality(RowsOf(q)) \in Nat
      BY Sizes
    <3>2. CASE r.order # q
      <4>1. RowsOf(q)' = RowsOf(q)
        BY <2>1, <2>2, <3>2 DEF RowsOf, picked
      <4> QED BY <3>1, <4>1
    <3>3. CASE r.order = q
      <4>1. r \in RowsOf(q) /\ RowsOf(q)' = (RowsOf(q) \ {r}) \cup {picked}
        BY <2>1, <2>2, <3>3 DEF RowsOf, picked
      <4>2. /\ IsFiniteSet(RowsOf(q) \ {r})
            /\ Cardinality(RowsOf(q) \ {r}) = Cardinality(RowsOf(q)) - 1
        BY <3>1, <4>1, FS_RemoveElement
      <4>3. Cardinality(RowsOf(q)') \in
              {Cardinality(RowsOf(q) \ {r}), Cardinality(RowsOf(q) \ {r}) + 1}
        BY <4>1, <4>2, FS_AddElement
      <4> QED BY <3>1, <4>2, <4>3
    <3> QED BY <3>2, <3>3
  <2>5. Goto(w, Idle)
    BY <1>8 DEF PickCommit
  <2>6. \A q \in Orders : InFlight(q)' \subseteq InFlight(q)
    BY <2>5, InFlightShrinks DEF Idle
  <2> QED BY <2>3, <2>4, <2>6, FewerOnLine DEF OverrunBounded
<1>9. ASSUME NEW w \in Workers,
             \/ ReleaseRead(w) \/ ReleaseCommit(w) \/ DeliverRead(w) \/ Cascade(w) \/ Abort(w)
             \/ \E first \in FirstShipment : BookCommit(w, first)
             \/ \E p \in Pieces : PickRead(w, p)
             \/ \E o \in Orders, new \in AdminStatuses : AdminStatusRead(w, o, new)
             \/ \E o \in Orders, c \in Couriers :
                  \/ BookRead(w, o, c) \/ CancelShipment(w, o, c)
                  \/ \E event \in CourierEvents :
                       \/ WebhookRecord(w, o, c, event) \/ PollRecord(w, o, c, event)
                       \/ ManualShipmentStatus(w, o, c, event)
      PROVE Goal
  <2> DEFINE Away == \E local : Goto(w, local) /\ local.op # "reserve"
  <2>a. ASSUME \/ ReleaseCommit(w) \/ Cascade(w) \/ Abort(w)
               \/ \E first \in FirstShipment : BookCommit(w, first)
        PROVE Away
    <3>1. Goto(w, Idle) /\ Idle.op # "reserve"
      BY <2>a DEF ReleaseCommit, Cascade, Abort, BookCommit, Idle
    <3> QED BY <3>1
  <2>b. ASSUME ReleaseRead(w) \/ \E p \in Pieces : PickRead(w, p) PROVE Away
    <3>1. ASSUME NEW i, NEW p PROVE [op |-> "release", row |-> i, piece |-> p].op # "reserve"
      OBVIOUS
    <3>2. ASSUME NEW i, NEW p PROVE [op |-> "pick", row |-> i, piece |-> p].op # "reserve"
      OBVIOUS
    <3>3. ASSUME ReleaseRead(w) PROVE Away
      BY <3>1, <3>3 DEF ReleaseRead
    <3>4. ASSUME NEW p \in Pieces, PickRead(w, p) PROVE Away
      BY <3>2, <3>4 DEF PickRead
    <3> QED BY <2>b, <3>3, <3>4
  <2>c. ASSUME \/ DeliverRead(w)
               \/ \E o \in Orders, new \in AdminStatuses : AdminStatusRead(w, o, new)
        PROVE Away
    <3>1. ASSUME NEW o, NEW new, NEW seen, NEW restored
          PROVE [op |-> "apply", order |-> o, new |-> new, seen |-> seen,
                 restored |-> restored, via |-> "manual", event |-> None].op # "reserve"
      OBVIOUS
    <3>2. ASSUME DeliverRead(w) PROVE Away
      BY <3>1, <3>2 DEF DeliverRead
    <3>3. ASSUME NEW o \in Orders, NEW new \in AdminStatuses, AdminStatusRead(w, o, new)
          PROVE Away
      BY <3>1, <3>3 DEF AdminStatusRead
    <3> QED BY <2>c, <3>2, <3>3
  <2>d. ASSUME NEW o \in Orders, NEW c \in Couriers,
               \/ BookRead(w, o, c) \/ CancelShipment(w, o, c)
               \/ \E event \in CourierEvents :
                    \/ WebhookRecord(w, o, c, event) \/ PollRecord(w, o, c, event)
                    \/ ManualShipmentStatus(w, o, c, event)
        PROVE Away
    <3>1. [op |-> "book", order |-> o, courier |-> c].op # "reserve"
      OBVIOUS
    <3>2. \A e : [op |-> "sync", order |-> o, courier |-> c, event |-> e].op # "reserve"
      OBVIOUS
    <3>3. [op |-> "deliver", order |-> o].op # "reserve" /\ Idle.op # "reserve"
      BY DEF Idle
    <3>4. CASE BookRead(w, o, c)
      BY <3>1, <3>4 DEF BookRead
    <3>5. CASE CancelShipment(w, o, c)
      BY <3>2, <3>5 DEF CancelShipment
    <3>6. ASSUME NEW event \in CourierEvents,
                 WebhookRecord(w, o, c, event) \/ PollRecord(w, o, c, event)
          PROVE Away
      BY <3>2, <3>6 DEF WebhookRecord, PollRecord
    <3>7. ASSUME NEW event \in CourierEvents, ManualShipmentStatus(w, o, c, event)
          PROVE Away
      BY <3>3, <3>7 DEF ManualShipmentStatus
    <3> QED BY <2>d, <3>4, <3>5, <3>6, <3>7
  <2>1. PICK local : Goto(w, local) /\ local.op # "reserve"
    BY <1>9, <2>a, <2>b, <2>c, <2>d
  <2>2. rows' \subseteq rows
    BY <1>9
    DEF ReleaseRead, ReleaseCommit, DeliverRead, Cascade, Abort, BookCommit, PickRead,
        AdminStatusRead, BookRead, CancelShipment, WebhookRecord, PollRecord,
        ManualShipmentStatus
  <2> QED BY <2>1, <2>2, <1>2
<1>10. ASSUME NEW w \in Workers, SyncRead(w) PROVE Goal
  <2> DEFINE o == req[w].order
             apply == [op |-> "apply", order |-> o,
                       new |-> CourierToOrder[shipment[o][req[w].courier]],
                       seen |-> status[o], restored |-> stockRestored[o],
                       via |-> "sync", event |-> req[w].event]
  <2>1. Goto(w, AfterSync(o, req[w].event)) \/ Goto(w, apply)
    BY <1>10 DEF SyncRead
  <2>2. o \in Orders
    BY <1>10, RequestFields DEF SyncRead, TypeOK
  <2>3. AfterSync(o, req[w].event).op # "reserve" /\ apply.op # "reserve"
    BY <2>2, AfterSyncType
  <2>4. UNCHANGED rows
    BY <1>10 DEF SyncRead
  <2> HIDE DEF apply
  <2> QED BY <2>1, <2>3, <2>4, <1>2
<1>11. ASSUME NEW w \in Workers, ApplyCommit(w) PROVE Goal
  <2>1. AfterSync(req[w].order, req[w].event).op # "reserve"
    BY <1>11, RequestFields, AfterSyncType DEF ApplyCommit, TypeOK
  <2>2. rows' \subseteq rows
    BY <1>11 DEF ApplyCommit, ApplyStatusChange
  <2> QED BY <1>11, <2>1, <2>2, <1>2 DEF ApplyCommit
<1>12. CASE UNCHANGED vars
  BY <1>1, <1>12 DEF vars
<1> QED
  BY <1>3, <1>4, <1>5, <1>6, <1>7, <1>8, <1>9, <1>10, <1>11, <1>12
  DEF Next, Warehouse, OrderDesk, Serve

-----------------------------------------------------------------------------
\* The inductive invariant: what a request remembers (RequestsStayValid) is what
\* lets its second step trust what its first step read.
IInv ==
  /\ TypeOK
  /\ RequestsStayValid
  /\ ReservedHasOpenRow
  /\ UnreceivedNeverReserved
  /\ RowsFinite
  /\ OverrunBounded

\* The invariant holds at the start.
LEMMA InitInv == Init => IInv
  BY InitType, InitValid, InitRows, InitOverrun DEF IInv

\* Every step keeps the invariant.
LEMMA InvStep ==
  ASSUME IInv, [Next]_vars
  PROVE  IInv'
<1>1. TypeOK'
  BY TypeStep DEF IInv
<1>2. RequestsStayValid'
  BY <1>1, ValidStep DEF IInv
<1>3. ReservedHasOpenRow' /\ UnreceivedNeverReserved'
  BY RowsStep DEF IInv
<1>4. RowsFinite' /\ OverrunBounded'
  BY OverrunStep DEF IInv
<1> QED BY <1>1, <1>2, <1>3, <1>4 DEF IInv

\* The invariant of all interleavings: types, requests that are still valid,
\* reserved pieces with a row, received barcodes only, lines filled within bounds.
THEOREM Invariance == Spec => []IInv
  BY InitInv, InvStep, PTL DEF Spec

\* Type correctness, for any number of orders, pieces and requests; it includes
\* that the aggregate quantity is never oversold.
THEOREM TypeCorrect == Spec => []TypeOK
<1>1. IInv => TypeOK
  BY DEF IInv
<1> QED BY <1>1, Invariance, PTL

\* A request's second step may trust what its first step read about rows, orders
\* and shipments.
THEOREM RequestsValid == Spec => []RequestsStayValid
<1>1. IInv => RequestsStayValid
  BY DEF IInv
<1> QED BY <1>1, Invariance, PTL

\* No interleaving of reserve, release, pickConfirm, bookings, cancellations and
\* webhooks leaves a piece RESERVED without a row to pick or release it by.
THEOREM NoOrphanReservation == Spec => []ReservedHasOpenRow
<1>1. IInv => ReservedHasOpenRow
  BY DEF IInv
<1> QED BY <1>1, Invariance, PTL

\* No interleaving puts a barcode on an order that was never received.
THEOREM OnlyReceivedReserved == Spec => []UnreceivedNeverReserved
<1>1. IInv => UnreceivedNeverReserved
  BY DEF IInv
<1> QED BY <1>1, Invariance, PTL

\* Requests that race can overfill a line only by the number of the others.
THEOREM OverrunAtMost == Spec => []OverrunBounded
<1>1. IInv => OverrunBounded
  BY DEF IInv
<1> QED BY <1>1, Invariance, PTL

-----------------------------------------------------------------------------
(* One request at a time: the shop's books, and the life cycle of a piece.  *)

\* Requests are served one at a time, and every order is booked with the same
\* courier.
OneAtATime ==
  /\ \A v, w \in Workers : v = w
  /\ \A c, d \in Couriers : c = d

\* The latest row of its piece.
Newest(r) == \A s \in rows : s.piece = r.piece => s.id <= r.id

\* What a row says of its piece: reserved, picked, or out with the order it
\* names.  Once the order is restored the piece may be with a later row.
RowTells(r) ==
  \/ ~r.picked /\ Newest(r) /\ piece[r.piece] = "RESERVED"
  \/ r.picked /\ group[r.order] # "SHIPPED" /\ Newest(r) /\ piece[r.piece] = "PICKED"
  \/ /\ r.picked /\ group[r.order] = "SHIPPED"
     /\ stockRestored[r.order] \/ (Newest(r) /\ piece[r.piece] \in {"SHIPPED", "DELIVERED"})
\* So says every row.
RowsTell == \A r \in rows : RowTells(r)

\* What an order's fields say of each other: a shipped group is complete and
\* its courier is spoken for; rows are only in a group that exists; an order that
\* is closed has been restored, and once.
OrderTells(o) ==
  /\ group[o] = "SHIPPED" => /\ IsFullyPicked(o)
                             /\ \A c \in Couriers : shipment[o][c] # None
  /\ RowsOf(o) # {} => group[o] # None
  /\ status[o] \in StockRestoreStatuses => stockRestored[o]
  /\ restocks[o] \in {0, 1} /\ (restocks[o] = 1 => stockRestored[o])
  /\ status[o] = None => group[o] = None /\ restocks[o] = 0
\* So says every order.
OrdersTell == \A o \in Orders : OrderTells(o)

\* What a request has read is still so: nobody came between its steps.
RequestTells(r) ==
  /\ r.op = "reserve" => Cardinality(RowsOf(r.order)) < Qty[r.order]
  /\ r.op \in {"release", "pick"} => \A s \in rows : s.id = r.row => ~s.picked
  /\ r.op = "book" => IsFullyPicked(r.order) /\ shipment[r.order][r.courier] = None
  /\ r.op = "sync" => r.event \in {None, shipment[r.order][r.courier]}
  /\ r.op = "apply" => /\ r.seen = status[r.order] /\ r.restored = stockRestored[r.order]
                       /\ r.event = "RETURNED" => r.new = "RETURNED"
  /\ r.op = "cascade" /\ r.event = "RETURNED" => stockRestored[r.order]
\* So says every request.
RequestsTell == \A w \in Workers : RequestTells(req[w])

\* The invariant of requests served one at a time.
Serial == RowsTell /\ OutPieceIsTraceable /\ OrdersTell /\ RequestsTell /\ BooksBalance

\* The fields of a row, and the type of its piece's status.
LEMMA RowFields ==
  ASSUME IInv, NEW r \in rows
  PROVE  /\ r.id \in Int /\ r.id < nextRow /\ nextRow \in Int
         /\ r.piece \in Pieces /\ r.order \in Orders /\ r.picked \in BOOLEAN
         /\ piece[r.piece] \in PieceStatus \cup {None}
  BY FulfilmentAssumption
  DEF IInv, TypeOK, Row, RequestsStayValid, RowsAreIdentified, FulfilmentAssumption

\* None is no status of anything.
LEMMA NoneIsOther ==
  /\ None \notin PieceStatus /\ None \notin OrderStatus /\ None \notin CourierStatus
  /\ None # "OPEN" /\ None # "SHIPPED"
  BY FulfilmentAssumption DEF FulfilmentAssumption, PieceStatus

\* A piece has one newest row.
LEMMA NewestIsOne ==
  ASSUME IInv, NEW r \in rows, NEW s \in rows, r.piece = s.piece, Newest(r), Newest(s)
  PROVE  r = s
<1>1. r.id \in Int /\ s.id \in Int
  BY RowFields
<1>2. r.id = s.id
  BY <1>1 DEF Newest
<1> QED BY <1>2 DEF IInv, RequestsStayValid, RowsAreIdentified

\* Where a piece is when it has been picked and not scanned back.
Out == {"PICKED", "SHIPPED", "DELIVERED", "RETURNING"}
\* A piece's newest row was picked, and shipped once the piece is.
Traced(p) ==
  \E r \in rows :
    /\ r.piece = p /\ r.picked /\ Newest(r)
    /\ piece[p] # "PICKED" => group[r.order] = "SHIPPED"

\* OutPieceIsTraceable in these terms.
LEMMA OutIsTraced == OutPieceIsTraceable <=> \A p \in Pieces : piece[p] \in Out => Traced(p)
  BY DEF OutPieceIsTraceable, Out, Traced, Newest

\* Rows that await their pick are the newest of their piece, so there is one.
LEMMA OneOpenRow ==
  ASSUME IInv, RowsTell
  PROVE  OneOpenRowPerPiece
<1>1. ASSUME NEW p \in Pieces, NEW r \in OpenRows(p), NEW s \in OpenRows(p)
      PROVE r = s
  <2>1. r \in rows /\ s \in rows /\ r.piece = s.piece /\ Newest(r) /\ Newest(s)
    BY DEF OpenRows, RowsTell, RowTells
  <2> QED BY <2>1, NewestIsOne
<1> QED BY <1>1 DEF OneOpenRowPerPiece

-----------------------------------------------------------------------------
\* The statuses RowTells speaks of.
Tracked == {"RESERVED", "PICKED", "SHIPPED", "DELIVERED"}

\* A step that changes no row and no group, and moves no tracked piece, keeps
\* what the rows say.
LEMMA RowsTellFrame ==
  ASSUME IInv, RowsTell, OutPieceIsTraceable, UNCHANGED <<rows, group>>,
         \A o \in Orders : stockRestored[o] => stockRestored'[o],
         \A p \in Pieces : piece'[p] # piece[p] => piece[p] \notin Tracked /\ piece'[p] \notin Out
  PROVE  RowsTell' /\ OutPieceIsTraceable'
<1>1. ASSUME NEW r \in rows' PROVE RowTells(r)'
  <2>1. r \in rows /\ RowTells(r) /\ r.piece \in Pieces /\ r.order \in Orders
    BY RowFields DEF RowsTell
  <2>2. Newest(r)' <=> Newest(r)
    BY DEF Newest
  <2> QED BY <2>1, <2>2 DEF RowTells, Tracked
<1>2. ASSUME NEW p \in Pieces, piece'[p] \in Out PROVE Traced(p)'
  <2>1. piece'[p] = piece[p] /\ Traced(p)
    BY <1>2, OutIsTraced
  <2> QED BY <2>1 DEF Traced, Newest
<1>3. OutPieceIsTraceable'
  BY <1>2, OutIsTraced DEF OutPieceIsTraceable, Out, Traced, Newest
<1> QED BY <1>1, <1>3 DEF RowsTell

\* reserve() adds the newest row of a piece that was on sale.
LEMMA ReserveTells ==
  ASSUME IInv, RowsTell, OutPieceIsTraceable, NEW w \in Workers, ReserveCommit(w)
  PROVE  RowsTell' /\ OutPieceIsTraceable'
<1>0. PICK o, p, new : /\ o = req[w].order /\ p = req[w].piece
                       /\ new = [id |-> nextRow, piece |-> p, order |-> o, picked |-> FALSE]
  OBVIOUS
<1>1. p \in Pieces /\ o \in Orders /\ piece[p] \in Sellable
  BY <1>0, RequestFields DEF ReserveCommit, IInv, TypeOK
<1>2. /\ rows' = rows \cup {new} /\ UNCHANGED stockRestored
      /\ piece' = [piece EXCEPT ![p] = "RESERVED"]
      /\ group' = [group EXCEPT ![o] = IF @ = None THEN "OPEN" ELSE @]
  BY <1>0 DEF ReserveCommit, orderVars
<1>3. new.id = nextRow /\ new.piece = p /\ new.order = o /\ ~new.picked
  BY <1>0
<1>4. \A q \in Orders : group'[q] = "SHIPPED" <=> group[q] = "SHIPPED"
  BY <1>1, <1>2, NoneIsOther DEF IInv, TypeOK
<1>5. \A q \in Pieces : piece'[q] = IF q = p THEN "RESERVED" ELSE piece[q]
  BY <1>1, <1>2 DEF IInv, TypeOK
<1>6. \A r \in rows : r.piece # p => (Newest(r)' <=> Newest(r))
  BY <1>2, <1>3 DEF Newest
<1>7. Newest(new)'
  <2>1. \A s \in rows : s.id < nextRow /\ s.id \in Int /\ nextRow \in Int
    BY RowFields
  <2>2. nextRow \in Int
    BY FulfilmentAssumption DEF IInv, TypeOK, FulfilmentAssumption
  <2>3. \A s \in rows' : s.id <= nextRow
    BY <2>1, <2>2, <1>2, <1>3
  <2> QED BY <2>3, <1>3 DEF Newest
<1>8. ASSUME NEW r \in rows' PROVE RowTells(r)'
  <2>1. CASE r = new
    BY <2>1, <1>1, <1>3, <1>5, <1>7 DEF RowTells
  <2>2. CASE r # new
    <3>1. r \in rows /\ RowTells(r) /\ r.piece \in Pieces /\ r.order \in Orders
      BY <2>2, <1>2, RowFields DEF RowsTell
    <3>2. CASE r.piece # p
      BY <3>1, <3>2, <1>2, <1>4, <1>5, <1>6 DEF RowTells
    <3>3. CASE r.piece = p
      <4>1. r.picked /\ group[r.order] = "SHIPPED" /\ stockRestored[r.order]
        BY <3>1, <3>3, <1>1 DEF RowTells, Sellable
      <4> QED BY <4>1, <3>1, <1>2, <1>4 DEF RowTells
    <3> QED BY <3>2, <3>3
  <2> QED BY <2>1, <2>2
<1>9. ASSUME NEW q \in Pieces, piece'[q] \in Out PROVE Traced(q)'
  <2>1. q # p /\ piece'[q] = piece[q]
    BY <1>5, <1>9 DEF Out
  <2>2. PICK r \in rows : /\ r.piece = q /\ r.picked /\ Newest(r)
                          /\ piece[q] # "PICKED" => group[r.order] = "SHIPPED"
    BY <1>9, <2>1, OutIsTraced DEF Traced
  <2>3. r \in rows' /\ Newest(r)' /\ r.order \in Orders
    BY <2>1, <2>2, <1>2, <1>6, RowFields
  <2> QED BY <2>1, <2>2, <2>3, <1>4 DEF Traced
<1>10. OutPieceIsTraceable'
  BY <1>9 DEF OutPieceIsTraceable, Out, Traced, Newest
<1> QED BY <1>8, <1>10 DEF RowsTell

\* release() takes a row that was not picked, and its piece, back.
LEMMA ReleaseTells ==
  ASSUME IInv, RowsTell, OutPieceIsTraceable, NEW w \in Workers, RequestTells(req[w]),
         ReleaseCommit(w)
  PROVE  RowsTell' /\ OutPieceIsTraceable'
<1>0. PICK p : p = req[w].piece
  OBVIOUS
<1>1. PICK r \in rows : r.id = req[w].row /\ rows' = rows \ {r}
  BY DEF ReleaseCommit
<1>2. p \in Pieces /\ r.piece = p /\ ~r.picked
  BY <1>0, <1>1, RequestFields
  DEF ReleaseCommit, IInv, TypeOK, RequestsStayValid, RequestValid, RequestTells
<1>3. Newest(r) /\ piece[p] = "RESERVED"
  BY <1>2 DEF RowsTell, RowTells
<1>4. UNCHANGED <<group, stockRestored>>
  BY DEF ReleaseCommit, orderVars
<1>5. \A q \in Pieces : piece'[q] = IF q = p THEN "IN_STOCK" ELSE piece[q]
  BY <1>0, <1>2, <1>3 DEF ReleaseCommit, IInv, TypeOK
<1>6. \A s \in rows : s.piece # p => (Newest(s)' <=> Newest(s))
  BY <1>1, <1>2 DEF Newest
<1>7. ASSUME NEW s \in rows' PROVE RowTells(s)'
  <2>1. s \in rows /\ s # r /\ RowTells(s) /\ s.piece \in Pieces
    BY <1>1, RowFields DEF RowsTell
  <2>2. CASE s.piece # p
    BY <2>1, <2>2, <1>4, <1>5, <1>6 DEF RowTells
  <2>3. CASE s.piece = p
    <3>1. ~Newest(s)
      BY <2>1, <2>3, <1>2, <1>3, NewestIsOne
    <3> QED BY <2>1, <3>1, <1>4 DEF RowTells
  <2> QED BY <2>2, <2>3
<1>8. ASSUME NEW q \in Pieces, piece'[q] \in Out PROVE Traced(q)'
  <2>1. q # p /\ piece'[q] = piece[q]
    BY <1>5, <1>8 DEF Out
  <2>2. PICK s \in rows : /\ s.piece = q /\ s.picked /\ Newest(s)
                          /\ piece[q] # "PICKED" => group[s.order] = "SHIPPED"
    BY <1>8, <2>1, OutIsTraced DEF Traced
  <2>3. s \in rows' /\ Newest(s)'
    BY <2>1, <2>2, <1>1, <1>2, <1>6
  <2> QED BY <2>1, <2>2, <2>3, <1>4 DEF Traced
<1>9. OutPieceIsTraceable'
  BY <1>8 DEF OutPieceIsTraceable, Out, Traced, Newest
<1> QED BY <1>7, <1>9 DEF RowsTell

\* pickConfirm() marks the one row of a reserved piece.
LEMMA PickTells ==
  ASSUME IInv, RowsTell, OrdersTell, OutPieceIsTraceable, NEW w \in Workers,
         RequestTells(req[w]), PickCommit(w)
  PROVE  RowsTell' /\ OutPieceIsTraceable'
<1>0. PICK p : p = req[w].piece
  OBVIOUS
<1>a. PICK r \in rows : /\ r.id = req[w].row
                        /\ rows' = (rows \ {r}) \cup {[r EXCEPT !.picked = TRUE]}
  BY DEF PickCommit
<1>1. PICK picked : /\ r.id = req[w].row
                    /\ picked = [r EXCEPT !.picked = TRUE]
                    /\ rows' = (rows \ {r}) \cup {picked}
  BY <1>a
<1>2. p \in Pieces /\ r.piece = p /\ ~r.picked
  BY <1>0, <1>1, RequestFields
  DEF PickCommit, IInv, TypeOK, RequestsStayValid, RequestValid, RequestTells
<1>3. Newest(r) /\ piece[p] = "RESERVED"
  BY <1>2 DEF RowsTell, RowTells
<1>4. UNCHANGED <<group, stockRestored>>
  BY DEF PickCommit, orderVars
<1>5. \A q \in Pieces : piece'[q] = IF q = p THEN "PICKED" ELSE piece[q]
  BY <1>0, <1>2, <1>3 DEF PickCommit, IInv, TypeOK
<1>6. picked.id = r.id /\ picked.piece = p /\ picked.order = r.order /\ picked.picked
  BY <1>1, <1>2 DEF IInv, TypeOK, Row
<1>7. \A s \in rows : Newest(s)' <=> Newest(s)
  BY <1>1, <1>2, <1>6 DEF Newest
<1>8. Newest(picked)'
  BY <1>1, <1>2, <1>3, <1>6, RowFields DEF Newest
<1>9. group[r.order] # "SHIPPED"
  <2>1. r \in RowsOf(r.order) /\ r.order \in Orders
    BY RowFields DEF RowsOf
  <2> QED BY <1>2, <2>1 DEF OrdersTell, OrderTells, IsFullyPicked
<1>10. ASSUME NEW s \in rows' PROVE RowTells(s)'
  <2>1. CASE s = picked
    BY <2>1, <1>2, <1>4, <1>5, <1>6, <1>8, <1>9 DEF RowTells
  <2>2. CASE s # picked
    <3>1. s \in rows /\ s # r /\ RowTells(s) /\ s.piece \in Pieces
      BY <1>1, <2>2, RowFields DEF RowsTell
    <3>2. CASE s.piece # p
      BY <3>1, <3>2, <1>4, <1>5, <1>7 DEF RowTells
    <3>3. CASE s.piece = p
      <4>1. ~Newest(s)
        BY <3>1, <3>3, <1>2, <1>3, NewestIsOne
      <4> QED BY <3>1, <4>1, <1>4 DEF RowTells
    <3> QED BY <3>2, <3>3
  <2> QED BY <2>1, <2>2
<1>11. ASSUME NEW q \in Pieces, piece'[q] \in Out PROVE Traced(q)'
  <2>1. CASE q = p
    BY <2>1, <1>1, <1>5, <1>6, <1>8 DEF Traced
  <2>2. CASE q # p
    <3>1. PICK s \in rows : /\ s.piece = q /\ s.picked /\ Newest(s)
                            /\ piece[q] # "PICKED" => group[s.order] = "SHIPPED"
      BY <1>5, <1>11, <2>2, OutIsTraced DEF Traced
    <3>2. s \in rows' /\ Newest(s)'
      BY <2>2, <3>1, <1>1, <1>2, <1>7
    <3> QED BY <2>2, <3>1, <3>2, <1>4, <1>5 DEF Traced
  <2> QED BY <2>1, <2>2
<1>12. OutPieceIsTraceable'
  BY <1>11 DEF OutPieceIsTraceable, Out, Traced, Newest
<1> QED BY <1>10, <1>12 DEF RowsTell

-----------------------------------------------------------------------------
\* A closing order gives back the pieces of all its rows, or of none.
Emptied(o) ==
  /\ group[o] # "SHIPPED"
  /\ \A r \in RowsOf(o) : Newest(r) /\ piece[r.piece] \in Claimed
  /\ rows' = rows \ RowsOf(o)
  /\ piece' = [p \in Pieces |-> IF p \in PiecesOf(RowsOf(o)) THEN "IN_STOCK" ELSE piece[p]]

\* A change of status that restores an order takes back all its pieces or none:
\* the rows of an order that was not restored are all claimed or all shipped.
LEMMA ApplyEmpties ==
  ASSUME IInv, RowsTell, OrdersTell, NEW o \in Orders, NEW new,
         ApplyStatusChange(o, new, status[o], stockRestored[o])
  PROVE  UNCHANGED <<rows, piece>> \/ Emptied(o)
<1> DEFINE back == {r \in RowsOf(o) : piece[r.piece] \in Claimed}
<1>1. CASE ~(/\ new \in StockRestoreStatuses /\ status[o] \notin StockRestoreStatuses
             /\ ~stockRestored[o])
  <2>1. rows' = rows /\ piece' = [p \in Pieces |-> piece[p]]
    BY <1>1 DEF ApplyStatusChange, PiecesOf
  <2> QED BY <2>1 DEF IInv, TypeOK
<1>2. CASE /\ new \in StockRestoreStatuses /\ status[o] \notin StockRestoreStatuses
           /\ ~stockRestored[o]
  <2>1. /\ rows' = rows \ back
        /\ piece' = [p \in Pieces |-> IF p \in PiecesOf(back) THEN "IN_STOCK" ELSE piece[p]]
    BY <1>2 DEF ApplyStatusChange
  <2>2. CASE group[o] = "SHIPPED"
    <3>0. \A r \in RowsOf(o) : r.picked /\ r \in rows /\ r.order = o
      BY <2>2 DEF OrdersTell, OrderTells, IsFullyPicked, RowsOf
    <3>1. back = {}
      BY <1>2, <2>2, <3>0 DEF RowsTell, RowTells, Claimed
    <3>2. rows' = rows /\ piece' = [p \in Pieces |-> piece[p]]
      BY <2>1, <3>1 DEF PiecesOf
    <3> QED BY <3>2 DEF IInv, TypeOK
  <2>3. CASE group[o] # "SHIPPED"
    <3>1. \A r \in RowsOf(o) : Newest(r) /\ piece[r.piece] \in Claimed
      BY <2>3 DEF RowsTell, RowTells, RowsOf, Claimed
    <3>2. back = RowsOf(o)
      BY <3>1
    <3> QED BY <2>1, <2>3, <3>1, <3>2 DEF Emptied
  <2> QED BY <2>2, <2>3
<1> QED BY <1>1, <1>2

\* A change of status keeps what the rows say.
LEMMA ApplyTells ==
  ASSUME IInv, RowsTell, OrdersTell, OutPieceIsTraceable, NEW o \in Orders, NEW new,
         ApplyStatusChange(o, new, status[o], stockRestored[o]), UNCHANGED group
  PROVE  RowsTell' /\ OutPieceIsTraceable'
<1>1. \A q \in Orders : stockRestored[q] => stockRestored'[q]
  BY DEF ApplyStatusChange, IInv, TypeOK
<1>2. CASE UNCHANGED <<rows, piece>>
  BY <1>1, <1>2, RowsTellFrame
<1>3. CASE Emptied(o)
  <2>1. \A s \in rows : s \notin RowsOf(o) /\ Newest(s) => s.piece \notin PiecesOf(RowsOf(o))
    BY <1>3, NewestIsOne DEF Emptied, PiecesOf, RowsOf
  <2>2. \A s \in rows : Newest(s) => Newest(s)'
    BY <1>3 DEF Emptied, Newest
  <2>3. \A q \in Pieces : piece'[q] = IF q \in PiecesOf(RowsOf(o)) THEN "IN_STOCK" ELSE piece[q]
    BY <1>3 DEF Emptied
  <2>4. ASSUME NEW s \in rows' PROVE RowTells(s)'
    <3>1. s \in rows /\ s \notin RowsOf(o) /\ RowTells(s) /\ s.piece \in Pieces /\ s.order \in Orders
      BY <1>3, RowFields DEF RowsTell, Emptied
    <3>2. CASE Newest(s)
      BY <3>1, <3>2, <1>1, <2>1, <2>2, <2>3 DEF RowTells
    <3>3. CASE ~Newest(s)
      BY <3>1, <3>3, <1>1 DEF RowTells
    <3> QED BY <3>2, <3>3
  <2>5. ASSUME NEW q \in Pieces, piece'[q] \in Out PROVE Traced(q)'
    <3>1. q \notin PiecesOf(RowsOf(o)) /\ piece'[q] = piece[q]
      BY <2>3, <2>5 DEF Out
    <3>2. PICK s \in rows : /\ s.piece = q /\ s.picked /\ Newest(s)
                            /\ piece[q] # "PICKED" => group[s.order] = "SHIPPED"
      BY <2>5, <3>1, OutIsTraced DEF Traced
    <3>3. s \in rows' /\ Newest(s)'
      BY <3>1, <3>2, <1>3, <2>2 DEF Emptied, PiecesOf
    <3> QED BY <3>1, <3>2, <3>3 DEF Traced
  <2>6. OutPieceIsTraceable'
    BY <2>5 DEF OutPieceIsTraceable, Out, Traced, Newest
  <2> QED BY <2>4, <2>6 DEF RowsTell
<1> QED BY <1>2, <1>3, ApplyEmpties

-----------------------------------------------------------------------------
\* When a booking commits, the order's rows are its units: all picked, each the
\* newest of its piece, and none of them shipped before.
Complete(o) ==
  /\ IsFullyPicked(o)
  /\ group[o] = "OPEN"
  /\ \A r \in RowsOf(o) : Newest(r) /\ piece[r.piece] = "PICKED"

\* The order of a booking that commits has all its units picked.
LEMMA BookedIsComplete ==
  ASSUME IInv, RowsTell, OrdersTell, NEW w \in Workers, RequestTells(req[w]),
         NEW first \in FirstShipment, BookCommit(w, first)
  PROVE  req[w].order \in Orders /\ Complete(req[w].order)
<1>1. PICK o, c : o = req[w].order /\ c = req[w].courier
  OBVIOUS
<1>2. o \in Orders /\ c \in Couriers
  BY <1>1, RequestFields DEF BookCommit, IInv, TypeOK
<1>3. IsFullyPicked(o) /\ shipment[o][c] = None
  BY <1>1 DEF RequestTells, BookCommit
<1>4. group[o] # "SHIPPED"
  BY <1>2, <1>3 DEF OrdersTell, OrderTells
<1>5. RowsOf(o) # {}
  BY <1>2, <1>3, FS_EmptySet, FulfilmentAssumption DEF IsFullyPicked, FulfilmentAssumption
<1>6. group[o] = "OPEN"
  BY <1>2, <1>4, <1>5 DEF OrdersTell, OrderTells, IInv, TypeOK
<1>7. \A r \in RowsOf(o) : Newest(r) /\ piece[r.piece] = "PICKED"
  BY <1>3, <1>4 DEF RowsTell, RowTells, RowsOf, IsFullyPicked
<1> QED BY <1>1, <1>2, <1>3, <1>6, <1>7 DEF Complete

\* A booking ships exactly the picked pieces of its order.
LEMMA BookTells ==
  ASSUME IInv, RowsTell, OutPieceIsTraceable, NEW w \in Workers,
         NEW first \in FirstShipment, BookCommit(w, first),
         req[w].order \in Orders, Complete(req[w].order)
  PROVE  RowsTell' /\ OutPieceIsTraceable'
<1>1. PICK o \in Orders : o = req[w].order
  OBVIOUS
<1>2. Complete(o) /\ group[o] # None
  BY <1>1, NoneIsOther DEF Complete
<1>3. UNCHANGED <<rows, stockRestored>>
  BY DEF BookCommit, rowVars
<1>4. \A q \in Pieces : piece'[q] = IF q \in PiecesOf(RowsOf(o)) THEN "SHIPPED" ELSE piece[q]
  BY <1>1 DEF BookCommit
<1>5. \A q \in Orders : group'[q] = IF q = o THEN "SHIPPED" ELSE group[q]
  BY <1>1, <1>2 DEF BookCommit, IInv, TypeOK
<1>6. \A s \in rows : Newest(s)' <=> Newest(s)
  BY <1>3 DEF Newest
<1>7. \A s \in rows : s \notin RowsOf(o) /\ Newest(s) => s.piece \notin PiecesOf(RowsOf(o))
  BY <1>2, NewestIsOne DEF Complete, PiecesOf, RowsOf
<1>8. ASSUME NEW s \in rows' PROVE RowTells(s)'
  <2>1. s \in rows /\ RowTells(s) /\ s.piece \in Pieces /\ s.order \in Orders
    BY <1>3, RowFields DEF RowsTell
  <2>2. CASE s \in RowsOf(o)
    <3>1. s.picked /\ Newest(s) /\ s.piece \in PiecesOf(RowsOf(o)) /\ s.order = o
      BY <2>2, <1>2 DEF Complete, IsFullyPicked, PiecesOf, RowsOf
    <3> QED BY <3>1, <2>1, <1>4, <1>5, <1>6 DEF RowTells
  <2>3. CASE s \notin RowsOf(o)
    <3>1. s.order # o
      BY <2>1, <2>3 DEF RowsOf
    <3>2. CASE Newest(s)
      BY <2>1, <2>3, <3>1, <3>2, <1>3, <1>4, <1>5, <1>6, <1>7 DEF RowTells
    <3>3. CASE ~Newest(s)
      BY <2>1, <3>1, <3>3, <1>3, <1>5 DEF RowTells
    <3> QED BY <3>2, <3>3
  <2> QED BY <2>2, <2>3
<1>9. ASSUME NEW q \in Pieces, piece'[q] \in Out PROVE Traced(q)'
  <2>1. CASE q \in PiecesOf(RowsOf(o))
    <3>1. PICK r \in RowsOf(o) : r.piece = q
      BY <2>1 DEF PiecesOf
    <3>2. r \in rows /\ r.order = o /\ r.picked /\ Newest(r)
      BY <1>2 DEF Complete, IsFullyPicked, RowsOf
    <3> QED BY <3>1, <3>2, <1>3, <1>5, <1>6 DEF Traced
  <2>2. CASE q \notin PiecesOf(RowsOf(o))
    <3>1. PICK s \in rows : /\ s.piece = q /\ s.picked /\ Newest(s)
                            /\ piece[q] # "PICKED" => group[s.order] = "SHIPPED"
      BY <1>4, <1>9, <2>2, OutIsTraced DEF Traced
    <3>2. s.order \in Orders
      BY RowFields
    <3> QED BY <2>2, <3>1, <3>2, <1>3, <1>4, <1>5, <1>6 DEF Traced
  <2> QED BY <2>1, <2>2
<1>10. OutPieceIsTraceable'
  BY <1>9 DEF OutPieceIsTraceable, Out, Traced, Newest
<1> QED BY <1>8, <1>10 DEF RowsTell

-----------------------------------------------------------------------------
\* A courier event moves pieces of its own order only; a RETURNED that is not
\* late finds each of them with its newest row.
LEMMA CascadeTells ==
  ASSUME IInv, RowsTell, OutPieceIsTraceable, NEW w \in Workers, RequestTells(req[w]),
         Cascade(w), Timely
  PROVE  RowsTell' /\ OutPieceIsTraceable'
<1>1. PICK o, event : o = req[w].order /\ event = req[w].event
  OBVIOUS
<1>2. req[w].op = "cascade" /\ req'[w] # req[w] /\ UNCHANGED <<rows, group, stockRestored>>
  BY DEF Cascade, rowVars, orderVars, Goto, Idle, IInv, TypeOK
<1>3. CASE UNCHANGED piece
  BY <1>2, <1>3, RowsTellFrame
<1>4. CASE ~UNCHANGED piece
  <2>1. PICK moved \in SUBSET {p \in PiecesOf(RowsOf(o)) : piece[p] \in CascadeFrom(event)} :
          piece' = [p \in Pieces |-> IF p \in moved THEN CascadeTo(event) ELSE piece[p]]
    BY <1>1 DEF Cascade
  <2>2. \A q \in Pieces : piece'[q] = IF q \in moved THEN CascadeTo(event) ELSE piece[q]
    BY <2>1
  <2>3. \A s \in rows : Newest(s)' <=> Newest(s)
    BY <1>2 DEF Newest
  <2>4. \A q \in moved : piece[q] \in {"SHIPPED", "DELIVERED"}
    BY <2>1 DEF CascadeFrom
  <2>5. CascadeTo(event) \in {"DELIVERED", "RETURNING"}
    BY DEF CascadeTo
  <2>6. event \in CascadeEvents
    BY <1>1, <1>2, RequestFields DEF IInv, TypeOK
  <2>7. CascadeTo(event) = "RETURNING" => event = "RETURNED"
    BY <2>6 DEF CascadeTo, CascadeEvents
  <2>8. ASSUME event = "RETURNED", NEW s \in rows, s.piece \in moved
        PROVE  stockRestored[s.order]
    <3>1. CASE ~Newest(s)
      BY <3>1, <2>4, <2>8 DEF RowsTell, RowTells
    <3>2. CASE Newest(s)
      <4>1. ~ReservedAgain(o) /\ stockRestored[o]
        BY <1>1, <1>2, <1>4, <2>8 DEF Timely, Late, RequestTells
      <4>2. PICK r \in RowsOf(o) : r.piece = s.piece
        BY <2>1, <2>8 DEF PiecesOf
      <4>3. r \in rows /\ r.order = o
        BY DEF RowsOf
      <4>4. \A x \in rows : x.piece = r.piece => ~(x.id > r.id)
        BY <4>1 DEF ReservedAgain
      <4>5. \A x \in rows : x.id \in Int
        BY RowFields
      <4>6. Newest(r)
        BY <4>3, <4>4, <4>5 DEF Newest
      <4>7. r = s
        BY <3>2, <4>2, <4>3, <4>6, NewestIsOne
      <4> QED BY <4>1, <4>3, <4>7
    <3> QED BY <3>1, <3>2
  <2>9. ASSUME NEW s \in rows' PROVE RowTells(s)'
    <3>1. s \in rows /\ RowTells(s) /\ s.piece \in Pieces
      BY <1>2, RowFields DEF RowsTell
    <3>2. CASE s.piece \notin moved
      BY <3>1, <3>2, <1>2, <2>2, <2>3 DEF RowTells
    <3>3. CASE s.piece \in moved
      <4>1. s.picked /\ group[s.order] = "SHIPPED" /\ (stockRestored[s.order] \/ Newest(s))
        BY <3>1, <3>3, <2>4 DEF RowTells
      <4>2. CASE event = "RETURNED"
        BY <4>1, <4>2, <3>1, <3>3, <1>2, <2>8 DEF RowTells
      <4>3. CASE event # "RETURNED"
        <5>1. piece'[s.piece] = "DELIVERED"
          BY <4>3, <3>1, <3>3, <2>2, <2>5, <2>7
        <5> QED BY <4>1, <5>1, <1>2, <2>3 DEF RowTells
      <4> QED BY <4>2, <4>3
    <3> QED BY <3>2, <3>3
  <2>10. ASSUME NEW q \in Pieces, piece'[q] \in Out PROVE Traced(q)'
    <3>1. piece[q] \in Out /\ (piece'[q] # "PICKED" => piece[q] # "PICKED")
      BY <2>2, <2>4, <2>5, <2>10 DEF Out
    <3>2. Traced(q)
      BY <3>1, OutIsTraced
    <3> QED BY <3>1, <3>2, <1>2, <2>3 DEF Traced
  <2>11. OutPieceIsTraceable'
    BY <2>10 DEF OutPieceIsTraceable, Out, Traced, Newest
  <2> QED BY <2>9, <2>11 DEF RowsTell
<1> QED BY <1>3, <1>4

\* The steps of a request that only read, or record a courier's answer.
Reads(w) ==
  \/ ReleaseRead(w) \/ DeliverRead(w) \/ SyncRead(w) \/ Abort(w)
  \/ \E p \in Pieces : PickRead(w, p) \/ \E o \in Orders : ReserveRead(w, o, p)
  \/ \E o \in Orders, new \in AdminStatuses : AdminStatusRead(w, o, new)
  \/ \E o \in Orders, c \in Couriers :
       \/ BookRead(w, o, c) \/ CancelShipment(w, o, c)
       \/ \E event \in CourierEvents :
            \/ WebhookRecord(w, o, c, event) \/ PollRecord(w, o, c, event)
            \/ ManualShipmentStatus(w, o, c, event)

\* The steps that only read, or write a shipment, touch no piece, row or order.
LEMMA ReadsOnly ==
  ASSUME NEW w \in Workers, Reads(w)
  PROVE  UNCHANGED <<piece, rows, nextRow, group, quantity, status, stockRestored, restocks>>
  BY DEF Reads, ReleaseRead, DeliverRead, SyncRead, Abort, PickRead, ReserveRead, AdminStatusRead,
         BookRead, CancelShipment, WebhookRecord, PollRecord, ManualShipmentStatus,
         stockVars, orderVars, rowVars

\* Every step keeps what the rows say and the trace of the pieces that are out.
LEMMA RowsTellStep ==
  ASSUME OneAtATime, IInv, Serial, Next, Timely
  PROVE  RowsTell' /\ OutPieceIsTraceable'
<1> USE DEF Serial, stockVars, orderVars, rowVars
<1> DEFINE Goal == RowsTell' /\ OutPieceIsTraceable'
<1>1. ASSUME UNCHANGED <<rows, group, stockRestored, piece>> PROVE Goal
  BY <1>1, RowsTellFrame
<1>2. ASSUME UNCHANGED <<rows, group, stockRestored>>, NEW p \in Pieces, NEW to,
             piece' = [piece EXCEPT ![p] = to], piece[p] \notin Tracked, to \notin Out
      PROVE Goal
  <2>1. \A q \in Pieces : piece'[q] # piece[q] => piece[q] \notin Tracked /\ piece'[q] \notin Out
    BY <1>2 DEF IInv, TypeOK
  <2> QED BY <1>2, <2>1, RowsTellFrame
<1>3. ASSUME NEW p \in Pieces, Generate(p) PROVE Goal
  <2>1. piece[p] \notin Tracked
    BY <1>3, NoneIsOther DEF Generate, Tracked, PieceStatus
  <2> QED BY <1>2, <1>3, <2>1 DEF Generate, Out
<1>4. ASSUME NEW p \in Pieces, VoidPiece(p) PROVE Goal
  BY <1>2, <1>4 DEF VoidPiece, Out, Tracked
<1>5. ASSUME NEW p \in Pieces, NEW outcome, ReceiveOne(p, outcome) \/ ReturnReceive(p, outcome)
      PROVE Goal
  BY <1>2, <1>5 DEF ReceiveOne, ReturnReceive, Out, Tracked
<1>6. ASSUME NEW o \in Orders, PlaceOrder(o) PROVE Goal
  BY <1>1, <1>6 DEF PlaceOrder
<1>7. ASSUME NEW o \in Orders, CancelOrder(o) PROVE Goal
  BY <1>7, ApplyTells DEF CancelOrder
<1>8. ASSUME NEW w \in Workers, Reads(w) PROVE Goal
  BY <1>1, <1>8, ReadsOnly
<1>9. ASSUME NEW w \in Workers, ReserveCommit(w) PROVE Goal
  BY <1>9, ReserveTells
<1>10. ASSUME NEW w \in Workers, ReleaseCommit(w) PROVE Goal
  BY <1>10, ReleaseTells DEF RequestsTell
<1>11. ASSUME NEW w \in Workers, PickCommit(w) PROVE Goal
  BY <1>11, PickTells DEF RequestsTell
<1>12. ASSUME NEW w \in Workers, NEW first \in FirstShipment, BookCommit(w, first) PROVE Goal
  <2>1. req[w].order \in Orders /\ Complete(req[w].order)
    BY <1>12, BookedIsComplete DEF RequestsTell
  <2> QED BY <1>12, <2>1, BookTells
<1>13. ASSUME NEW w \in Workers, ApplyCommit(w) PROVE Goal
  <2>1. PICK o, new : o = req[w].order /\ new = req[w].new
    OBVIOUS
  <2>2. /\ o \in Orders /\ UNCHANGED group
        /\ ApplyStatusChange(o, new, status[o], stockRestored[o])
    BY <1>13, <2>1, RequestFields DEF ApplyCommit, RequestsTell, RequestTells, IInv, TypeOK
  <2> QED BY <2>2, ApplyTells
<1>14. ASSUME NEW w \in Workers, Cascade(w) PROVE Goal
  BY <1>14, CascadeTells DEF RequestsTell
<1> QED
  BY <1>3, <1>4, <1>5, <1>6, <1>7, <1>8, <1>9, <1>10, <1>11, <1>12, <1>13, <1>14
  DEF Next, Warehouse, OrderDesk, Serve, Reads

-----------------------------------------------------------------------------
\* An order tells the same while its rows, its group and its flags stay.
LEMMA OrdersTellFrame ==
  ASSUME OrdersTell, UNCHANGED <<rows, group, status, stockRestored, restocks>>,
         \A o \in Orders, c \in Couriers : shipment[o][c] # None => shipment'[o][c] # None
  PROVE  OrdersTell'
  BY DEF OrdersTell, OrderTells, IsFullyPicked, RowsOf

\* A shipment is never deleted.
LEMMA ShipmentsStay ==
  ASSUME IInv, NEW w \in Workers, Reads(w)
  PROVE  \A o \in Orders, c \in Couriers : shipment[o][c] # None => shipment'[o][c] # None
<1>1. CASE UNCHANGED shipment
  BY <1>1
<1>2. ASSUME NEW o \in Orders, NEW c \in Couriers, NEW event \in CourierStatus,
             shipment' = [shipment EXCEPT ![o][c] = event]
      PROVE  \A q \in Orders, d \in Couriers : shipment[q][d] # None => shipment'[q][d] # None
  BY <1>2, NoneIsOther DEF IInv, TypeOK
<1>3. \/ UNCHANGED shipment
      \/ \E o \in Orders, c \in Couriers, event \in CourierStatus :
           shipment' = [shipment EXCEPT ![o][c] = event]
  <2>1. ASSUME \/ ReleaseRead(w) \/ DeliverRead(w) \/ SyncRead(w) \/ Abort(w)
               \/ \E p \in Pieces : PickRead(w, p) \/ \E o \in Orders : ReserveRead(w, o, p)
               \/ \E o \in Orders, new \in AdminStatuses : AdminStatusRead(w, o, new)
               \/ \E o \in Orders, c \in Couriers : BookRead(w, o, c)
        PROVE UNCHANGED shipment
    BY <2>1 DEF ReleaseRead, DeliverRead, SyncRead, Abort, PickRead, ReserveRead,
                AdminStatusRead, BookRead
  <2>2. CourierEvents \subseteq CourierStatus /\ "CANCELLED" \in CourierStatus
    BY FulfilmentAssumption DEF FulfilmentAssumption, CourierStatus
  <2>3. ASSUME NEW o \in Orders, NEW c \in Couriers,
               \/ CancelShipment(w, o, c)
               \/ \E event \in CourierEvents :
                    \/ WebhookRecord(w, o, c, event) \/ PollRecord(w, o, c, event)
                    \/ ManualShipmentStatus(w, o, c, event)
        PROVE \E event \in CourierStatus : shipment' = [shipment EXCEPT ![o][c] = event]
    BY <2>2, <2>3 DEF CancelShipment, WebhookRecord, PollRecord, ManualShipmentStatus
  <2> QED BY <2>1, <2>3 DEF Reads
<1> QED BY <1>1, <1>2, <1>3

\* A shipped group keeps its rows when a row leaves that was not picked.
LEMMA OrdersTellRows ==
  ASSUME OrdersTell, UNCHANGED <<group, shipment>>,
         \A o \in Orders : group[o] = "SHIPPED" => RowsOf(o)' = RowsOf(o),
         \A o \in Orders : RowsOf(o)' # {} => RowsOf(o) # {},
         \A o \in Orders : /\ stockRestored[o] => stockRestored'[o]
                           /\ status'[o] \in StockRestoreStatuses => stockRestored'[o]
                           /\ restocks'[o] \in {0, 1} /\ (restocks'[o] = 1 => stockRestored'[o])
                           /\ status'[o] = None => status[o] = None /\ restocks'[o] = restocks[o]
  PROVE  OrdersTell'
<1> SUFFICES ASSUME NEW o \in Orders PROVE OrderTells(o)'
  BY DEF OrdersTell
<1>1. OrderTells(o)
  BY DEF OrdersTell
<1>2. group'[o] = "SHIPPED" => IsFullyPicked(o)'
  BY <1>1 DEF OrderTells, IsFullyPicked
<1> QED BY <1>1, <1>2 DEF OrderTells

\* reserve() keeps what the orders say.
LEMMA ReserveOrders ==
  ASSUME IInv, OrdersTell, NEW w \in Workers, RequestTells(req[w]), ReserveCommit(w)
  PROVE  OrdersTell'
<1>1. PICK o, new : /\ o = req[w].order /\ new.order = o /\ rows' = rows \cup {new}
  BY DEF ReserveCommit
<1>2. o \in Orders /\ status[o] # None /\ Cardinality(RowsOf(o)) < Qty[o]
  BY <1>1, RequestFields
  DEF ReserveCommit, IInv, TypeOK, RequestsStayValid, RequestValid, OrderRequests, RequestTells
<1>3. UNCHANGED <<status, stockRestored, restocks, shipment>>
  BY DEF ReserveCommit, stockVars, orderVars
<1>4. group[o] # "SHIPPED"
  <2>1. Cardinality(RowsOf(o)) # Qty[o]
    BY <1>2, Sizes DEF IInv
  <2> QED BY <1>2, <2>1 DEF OrdersTell, OrderTells, IsFullyPicked
<1>5. group'[o] # None /\ group'[o] # "SHIPPED" /\ \A q \in Orders : q # o => group'[q] = group[q]
  BY <1>1, <1>2, <1>4, NoneIsOther DEF ReserveCommit, IInv, TypeOK
<1>6. \A q \in Orders : q # o => RowsOf(q)' = RowsOf(q)
  BY <1>1 DEF RowsOf
<1>7. ASSUME NEW q \in Orders PROVE OrderTells(q)'
  <2>1. OrderTells(q)
    BY DEF OrdersTell
  <2>2. CASE q = o
    BY <2>1, <2>2, <1>2, <1>3, <1>5 DEF OrderTells
  <2>3. CASE q # o
    <3>1. IsFullyPicked(q)' <=> IsFullyPicked(q)
      BY <2>3, <1>6 DEF IsFullyPicked
    <3> QED BY <2>1, <2>3, <3>1, <1>3, <1>5, <1>6 DEF OrderTells
  <2> QED BY <2>2, <2>3
<1> QED BY <1>7 DEF OrdersTell

\* release() and pickConfirm() keep what the orders say.
LEMMA ReleasePickOrders ==
  ASSUME IInv, OrdersTell, NEW w \in Workers, RequestTells(req[w]),
         ReleaseCommit(w) \/ PickCommit(w)
  PROVE  OrdersTell'
<1>1. PICK r, picked :
        /\ r \in rows /\ r.id = req[w].row /\ picked.order = r.order
        /\ rows' = rows \ {r} \/ rows' = (rows \ {r}) \cup {picked}
  <2>1. \A r \in rows : [r EXCEPT !.picked = TRUE].order = r.order
    BY DEF IInv, TypeOK, Row
  <2>2. CASE ReleaseCommit(w)
    BY <2>1, <2>2 DEF ReleaseCommit
  <2>3. CASE PickCommit(w)
    BY <2>1, <2>3 DEF PickCommit
  <2> QED BY <2>2, <2>3
<1>2. ~r.picked
  BY <1>1 DEF RequestTells, ReleaseCommit, PickCommit
<1>3. UNCHANGED <<group, status, stockRestored, restocks, shipment>>
  BY DEF ReleaseCommit, PickCommit, stockVars, orderVars
<1>4. ASSUME NEW q \in Orders, group[q] = "SHIPPED" PROVE RowsOf(q)' = RowsOf(q)
  <2>1. r \notin RowsOf(q)
    BY <1>2, <1>4 DEF OrdersTell, OrderTells, IsFullyPicked
  <2>2. r.order # q
    BY <1>1, <2>1 DEF RowsOf
  <2> QED BY <1>1, <2>2 DEF RowsOf
<1>5. ASSUME NEW q \in Orders, RowsOf(q)' # {} PROVE RowsOf(q) # {}
  BY <1>1, <1>5 DEF RowsOf
<1> QED BY <1>3, <1>4, <1>5, OrdersTellRows DEF OrdersTell, OrderTells

\* A change of status keeps what the orders say.
LEMMA ApplyOrders ==
  ASSUME IInv, RowsTell, OrdersTell, NEW o \in Orders, NEW new \in OrderStatus,
         status[o] # None,
         ApplyStatusChange(o, new, status[o], stockRestored[o]), UNCHANGED <<group, shipment>>
  PROVE  OrdersTell'
<1> DEFINE restore == /\ new \in StockRestoreStatuses
                      /\ status[o] \notin StockRestoreStatuses
                      /\ ~stockRestored[o]
           restocked == restore /\ new # "RETURNED"
<1>1. /\ \A q \in Orders : status'[q] = IF q = o THEN new ELSE status[q]
      /\ \A q \in Orders : stockRestored'[q] = IF q = o THEN stockRestored[q] \/ restore
                                                      ELSE stockRestored[q]
      /\ \A q \in Orders : restocks'[q] = IF q = o /\ restocked THEN restocks[q] + 1
                                                             ELSE restocks[q]
  BY DEF ApplyStatusChange, IInv, TypeOK
<1>2. restore \in BOOLEAN /\ (restocked => restore)
  OBVIOUS
<1>3. restore => ~stockRestored[o]
  OBVIOUS
<1>4. new \in StockRestoreStatuses => restore \/ stockRestored[o]
  BY DEF OrdersTell, OrderTells
<1> HIDE DEF restore, restocked
<1>5. ASSUME NEW q \in Orders
      PROVE /\ stockRestored[q] => stockRestored'[q]
            /\ status'[q] \in StockRestoreStatuses => stockRestored'[q]
            /\ restocks'[q] \in {0, 1} /\ (restocks'[q] = 1 => stockRestored'[q])
            /\ status'[q] = None => status[q] = None /\ restocks'[q] = restocks[q]
  <2>1. /\ stockRestored[q] => stockRestored'[q]
        /\ status'[q] \in StockRestoreStatuses => stockRestored'[q]
    BY <1>1, <1>4 DEF OrdersTell, OrderTells
  <2>2. CASE q = o /\ restocked
    <3>1. restocks[q] = 0
      BY <2>2, <1>2, <1>3 DEF OrdersTell, OrderTells
    <3>2. restocks'[q] = 1
      BY <2>2, <3>1, <1>1
    <3>3. stockRestored'[q]
      BY <2>2, <1>1, <1>2, Zenon
    <3>4. status'[q] # None
      BY <2>2, <1>1, NoneIsOther
    <3> QED BY <3>2, <3>3, <3>4, Zenon
  <2>3. CASE ~(q = o /\ restocked)
    BY <2>1, <2>3, <1>1, NoneIsOther DEF OrdersTell, OrderTells
  <2> QED BY <2>1, <2>2, <2>3
<1>6. ASSUME NEW q \in Orders
      PROVE /\ group[q] = "SHIPPED" => RowsOf(q)' = RowsOf(q)
            /\ RowsOf(q)' # {} => RowsOf(q) # {}
  <2>1. CASE UNCHANGED <<rows, piece>>
    BY <2>1 DEF RowsOf
  <2>2. CASE Emptied(o)
    BY <2>2 DEF Emptied, RowsOf
  <2> QED BY <2>1, <2>2, ApplyEmpties
<1> QED BY <1>5, <1>6, OrdersTellRows

\* A booking keeps what the orders say.
LEMMA BookOrders ==
  ASSUME OneAtATime, IInv, OrdersTell, NEW w \in Workers, NEW first \in FirstShipment,
         BookCommit(w, first), req[w].order \in Orders, Complete(req[w].order)
  PROVE  OrdersTell'
<1>1. PICK o, c : o \in Orders /\ o = req[w].order /\ c = req[w].courier
  OBVIOUS
<1>2. c \in Couriers /\ Complete(o) /\ status[o] # None
  BY <1>1, RequestFields
  DEF BookCommit, IInv, TypeOK, RequestsStayValid, RequestValid, OrderRequests
<1>3. /\ first \in CourierStatus /\ first # None /\ CourierToOrder[first] # None
      /\ CourierToOrder[first] \notin StockRestoreStatuses
  BY FulfilmentAssumption, CourierToOrderType, NoneIsOther DEF FulfilmentAssumption
<1>4. UNCHANGED <<rows, stockRestored, restocks>>
  BY DEF BookCommit, stockVars, orderVars, rowVars
<1>5. /\ \A q \in Orders : q # o => group'[q] = group[q] /\ status'[q] = status[q]
      /\ group'[o] = "SHIPPED"
      /\ status'[o] \in {status[o], CourierToOrder[first]}
  BY <1>1, <1>2, NoneIsOther DEF BookCommit, Complete, IInv, TypeOK
<1>6. \A q \in Orders, d \in Couriers : shipment[q][d] # None => shipment'[q][d] # None
  BY <1>1, <1>2, <1>3 DEF BookCommit, IInv, TypeOK
<1>7. \A d \in Couriers : shipment'[o][d] # None
  BY <1>1, <1>2, <1>3 DEF BookCommit, IInv, TypeOK, OneAtATime
<1>8. \A q \in Orders : RowsOf(q)' = RowsOf(q) /\ (IsFullyPicked(q)' <=> IsFullyPicked(q))
  BY <1>4 DEF RowsOf, IsFullyPicked
<1>9. ASSUME NEW q \in Orders PROVE OrderTells(q)'
  <2>1. OrderTells(q)
    BY DEF OrdersTell
  <2>2. CASE q = o
    BY <2>1, <2>2, <1>2, <1>3, <1>4, <1>5, <1>7, <1>8, NoneIsOther DEF OrderTells, Complete
  <2>3. CASE q # o
    BY <2>1, <2>3, <1>4, <1>5, <1>6, <1>8 DEF OrderTells
  <2> QED BY <2>2, <2>3
<1> QED BY <1>9 DEF OrdersTell

\* Every step keeps what the orders say.
LEMMA OrdersTellStep ==
  ASSUME OneAtATime, IInv, Serial, Next
  PROVE  OrdersTell'
<1>1. ASSUME NEW w \in Workers, Reads(w) PROVE OrdersTell'
  BY <1>1, ReadsOnly, ShipmentsStay, OrdersTellFrame DEF Serial
<1>2. ASSUME NEW p \in Pieces,
             \/ Generate(p) \/ VoidPiece(p)
             \/ \E outcome \in {"GOOD", "DAMAGED"} :
                  ReceiveOne(p, outcome) \/ ReturnReceive(p, outcome)
      PROVE OrdersTell'
  BY <1>2, OrdersTellFrame
  DEF Serial, Generate, VoidPiece, ReceiveOne, ReturnReceive, stockVars, orderVars, rowVars
<1>3. ASSUME NEW o \in Orders, PlaceOrder(o) PROVE OrdersTell'
  <2>1. UNCHANGED <<rows, group, shipment, stockRestored, restocks>>
    BY <1>3 DEF PlaceOrder, rowVars
  <2>2. \A q \in Orders : RowsOf(q)' = RowsOf(q)
    BY <2>1 DEF RowsOf
  <2>3. \A q \in Orders : \/ status'[q] = status[q]
                         \/ status'[q] \notin StockRestoreStatuses \cup {None}
    BY <1>3, NoneIsOther DEF PlaceOrder, IInv, TypeOK, StockRestoreStatuses, OrderStatus
  <2> QED BY <2>1, <2>2, <2>3, OrdersTellRows DEF Serial, OrdersTell, OrderTells
<1>4. ASSUME NEW o \in Orders, CancelOrder(o) PROVE OrdersTell'
  <2>1. status[o] # None /\ "CANCELLED" \in OrderStatus
    BY <1>4, NoneIsOther DEF CancelOrder, AdminCancellable, OrderStatus
  <2> QED BY <1>4, <2>1, ApplyOrders DEF CancelOrder, Serial
<1>5. ASSUME NEW w \in Workers, ReserveCommit(w) PROVE OrdersTell'
  BY <1>5, ReserveOrders DEF Serial, RequestsTell
<1>6. ASSUME NEW w \in Workers, ReleaseCommit(w) \/ PickCommit(w) PROVE OrdersTell'
  BY <1>6, ReleasePickOrders DEF Serial, RequestsTell
<1>7. ASSUME NEW w \in Workers, NEW first \in FirstShipment, BookCommit(w, first) PROVE OrdersTell'
  <2>1. req[w].order \in Orders /\ Complete(req[w].order)
    BY <1>7, BookedIsComplete DEF Serial, RequestsTell
  <2> QED BY <1>7, <2>1, BookOrders DEF Serial
<1>8. ASSUME NEW w \in Workers, ApplyCommit(w) PROVE OrdersTell'
  <2>1. PICK o, new : o = req[w].order /\ new = req[w].new
    OBVIOUS
  <2>2. /\ o \in Orders /\ new \in OrderStatus /\ status[o] # None /\ UNCHANGED <<group, shipment>>
        /\ ApplyStatusChange(o, new, status[o], stockRestored[o])
    BY <1>8, <2>1, RequestFields
    DEF ApplyCommit, Serial, RequestsTell, RequestTells, IInv, TypeOK, RequestsStayValid,
        RequestValid, OrderRequests
  <2> QED BY <2>2, ApplyOrders DEF Serial
<1>9. ASSUME NEW w \in Workers, Cascade(w) PROVE OrdersTell'
  BY <1>9, OrdersTellFrame DEF Serial, Cascade, stockVars, orderVars, rowVars
<1> QED
  BY <1>1, <1>2, <1>3, <1>4, <1>5, <1>6, <1>7, <1>8, <1>9
  DEF Next, Warehouse, OrderDesk, Serve, Reads

-----------------------------------------------------------------------------
\* With one worker the request it goes on to is the only one.
LEMMA OneRequest ==
  ASSUME OneAtATime, IInv, NEW w \in Workers, NEW local, Goto(w, local), RequestTells(local)'
  PROVE  RequestsTell'
<1>1. \A v \in Workers : v = w
  BY DEF OneAtATime
<1>2. req'[w] = local
  BY DEF Goto, IInv, TypeOK
<1>3. ASSUME NEW v \in Workers PROVE RequestTells(req[v])'
  <2>1. req'[v] = local
    BY <1>1, <1>2
  <2> QED BY <2>1 DEF RequestTells
<1> QED BY <1>3 DEF RequestsTell

\* A request that has ended says nothing.
LEMMA IdleTells == RequestTells(Idle)'
  BY DEF RequestTells, Idle

\* An action that needs a free worker finds nobody waiting.
LEMMA NobodyBusy ==
  ASSUME OneAtATime, FreeWorker, UNCHANGED req
  PROVE  RequestsTell'
<1>1. \A v \in Workers : req'[v] = Idle
  BY DEF OneAtATime, FreeWorker
<1>2. ASSUME NEW v \in Workers PROVE RequestTells(req[v])'
  BY <1>1, IdleTells DEF RequestTells
<1> QED BY <1>2 DEF RequestsTell

\* After a sync, a RETURNED event is cascaded for an order that is RETURNED.
LEMMA AfterSyncTells ==
  ASSUME NEW o, NEW event, event = "RETURNED" => stockRestored'[o]
  PROVE  RequestTells(AfterSync(o, event))'
  BY DEF AfterSync, RequestTells, Idle

\* Only RETURNED ranks as high as RETURNED.
LEMMA ReturnedIsLast ==
  ASSUME NEW s \in OrderStatus, OrderRank["RETURNED"] <= OrderRank[s]
  PROVE  s = "RETURNED"
  BY DEF OrderRank, OrderStatus

\* A sync reads the order as it is.
LEMMA SyncTells ==
  ASSUME OneAtATime, IInv, OrdersTell, NEW w \in Workers, RequestTells(req[w]), SyncRead(w)
  PROVE  RequestsTell'
<1>1. PICK o, c, event, new, apply :
        /\ o = req[w].order /\ c = req[w].courier /\ event = req[w].event
        /\ new = CourierToOrder[shipment[o][c]]
        /\ apply = [op |-> "apply", order |-> o, new |-> new, seen |-> status[o],
                    restored |-> stockRestored[o], via |-> "sync", event |-> event]
  OBVIOUS
<1>2. /\ o \in Orders /\ c \in Couriers
      /\ status[o] \in OrderStatus /\ shipment[o][c] \in CourierStatus
  <2>1. req[w].op = "sync" /\ req[w] \in Request
    BY DEF SyncRead, IInv, TypeOK
  <2>2. o \in Orders /\ c \in Couriers
    BY <1>1, <2>1, RequestFields
  <2>3. status[o] # None /\ shipment[o][c] # None
    BY <1>1, <2>1 DEF IInv, RequestsStayValid, RequestValid, OrderRequests
  <2> QED BY <2>2, <2>3 DEF IInv, TypeOK
<1>3. UNCHANGED <<status, stockRestored>>
  BY DEF SyncRead, orderVars
<1>4. event = "RETURNED" => new = "RETURNED"
  <2>1. event \in {None, shipment[o][c]}
    BY <1>1 DEF RequestTells, SyncRead
  <2> QED BY <1>1, <1>2, <2>1, NoneIsOther DEF CourierToOrder, CourierStatus
<1>5. CASE OrderRank[new] <= OrderRank[status[o]]
  <2>1. Goto(w, AfterSync(o, event))
    BY <1>1, <1>5 DEF SyncRead
  <2>2. event = "RETURNED" => stockRestored'[o]
    <3>1. SUFFICES ASSUME event = "RETURNED" PROVE stockRestored[o]
      BY <1>3
    <3>2. status[o] = "RETURNED"
      BY <1>2, <1>4, <1>5, <3>1, ReturnedIsLast
    <3> QED BY <1>2, <3>2 DEF OrdersTell, OrderTells, StockRestoreStatuses
  <2>3. RequestTells(AfterSync(o, event))'
    BY <2>2, AfterSyncTells
  <2> QED BY <2>1, <2>3, OneRequest
<1>6. CASE ~(OrderRank[new] <= OrderRank[status[o]])
  <2>1. Goto(w, apply)
    BY <1>1, <1>6 DEF SyncRead
  <2>2. RequestTells(apply)'
    BY <1>1, <1>3, <1>4 DEF RequestTells
  <2> QED BY <2>1, <2>2, OneRequest
<1> QED BY <1>5, <1>6

\* What a change of status leaves to its request is true.
LEMMA ApplyRequests ==
  ASSUME OneAtATime, IInv, OrdersTell', NEW w \in Workers, RequestTells(req[w]), ApplyCommit(w)
  PROVE  RequestsTell'
<1>1. PICK o, event, new : o = req[w].order /\ event = req[w].event /\ new = req[w].new
  OBVIOUS
<1>2. o \in Orders /\ Goto(w, AfterSync(o, event)) /\ status'[o] = new
  BY <1>1, RequestFields DEF ApplyCommit, ApplyStatusChange, IInv, TypeOK
<1>3. event = "RETURNED" => new = "RETURNED"
  BY <1>1 DEF ApplyCommit, RequestTells
<1>4. event = "RETURNED" => stockRestored'[o]
  BY <1>2, <1>3 DEF OrdersTell, OrderTells, StockRestoreStatuses
<1> QED BY <1>2, <1>4, AfterSyncTells, OneRequest

\* Every step keeps true what requests have read.
LEMMA RequestsTellStep ==
  ASSUME OneAtATime, IInv, Serial, OrdersTell', Next
  PROVE  RequestsTell'
<1> USE DEF stockVars, orderVars, rowVars
<1>1. ASSUME NEW p \in Pieces,
             \/ Generate(p) \/ VoidPiece(p)
             \/ \E outcome \in {"GOOD", "DAMAGED"} :
                  ReceiveOne(p, outcome) \/ ReturnReceive(p, outcome)
      PROVE RequestsTell'
  BY <1>1, NobodyBusy DEF Generate, VoidPiece, ReceiveOne, ReturnReceive
<1>2. ASSUME NEW o \in Orders, PlaceOrder(o) \/ CancelOrder(o) PROVE RequestsTell'
  BY <1>2, NobodyBusy DEF PlaceOrder, CancelOrder
<1>3. ASSUME NEW w \in Workers, Goto(w, Idle) PROVE RequestsTell'
  BY <1>3, IdleTells, OneRequest
<1>4. ASSUME NEW w \in Workers,
             \/ ReserveCommit(w) \/ ReleaseCommit(w) \/ PickCommit(w) \/ Cascade(w) \/ Abort(w)
             \/ \E first \in FirstShipment : BookCommit(w, first)
      PROVE RequestsTell'
  BY <1>3, <1>4 DEF ReserveCommit, ReleaseCommit, PickCommit, Cascade, Abort, BookCommit
<1>5. ASSUME NEW w \in Workers, NEW o \in Orders, NEW p \in Pieces, ReserveRead(w, o, p)
      PROVE RequestsTell'
  <2>1. PICK local : local = [op |-> "reserve", order |-> o, piece |-> p] /\ Goto(w, local)
    BY <1>5 DEF ReserveRead
  <2>2. RequestTells(local)'
    BY <1>5, <2>1 DEF ReserveRead, RequestTells, RowsOf
  <2> QED BY <2>1, <2>2, OneRequest
<1>6. ASSUME NEW w \in Workers, ReleaseRead(w) PROVE RequestsTell'
  <2>1. PICK r \in rows : ~r.picked /\ Goto(w, [op |-> "release", row |-> r.id, piece |-> r.piece])
    BY <1>6 DEF ReleaseRead
  <2>2. RequestTells([op |-> "release", row |-> r.id, piece |-> r.piece])'
    BY <1>6, <2>1 DEF ReleaseRead, RequestTells, IInv, RequestsStayValid, RowsAreIdentified
  <2> QED BY <2>1, <2>2, OneRequest
<1>7. ASSUME NEW w \in Workers, NEW p \in Pieces, PickRead(w, p) PROVE RequestsTell'
  <2>1. PICK r \in OpenRows(p) : Goto(w, [op |-> "pick", row |-> r.id, piece |-> p])
    BY <1>7 DEF PickRead
  <2>2. RequestTells([op |-> "pick", row |-> r.id, piece |-> p])'
    BY <1>7, <2>1 DEF PickRead, OpenRows, RequestTells, IInv, RequestsStayValid, RowsAreIdentified
  <2> QED BY <2>1, <2>2, OneRequest
<1>8. ASSUME NEW w \in Workers, NEW o \in Orders, NEW c \in Couriers, BookRead(w, o, c)
      PROVE RequestsTell'
  <2>1. PICK local : local = [op |-> "book", order |-> o, courier |-> c] /\ Goto(w, local)
    BY <1>8 DEF BookRead
  <2>2. RequestTells(local)'
    BY <1>8, <2>1 DEF BookRead, RequestTells, IsFullyPicked, RowsOf
  <2> QED BY <2>1, <2>2, OneRequest
<1>9. ASSUME NEW w \in Workers, NEW o \in Orders, NEW c \in Couriers, NEW event, NEW e \in {None, event},
             shipment' = [shipment EXCEPT ![o][c] = event],
             Goto(w, [op |-> "sync", order |-> o, courier |-> c, event |-> e])
      PROVE RequestsTell'
  <2>1. shipment'[o][c] = event
    BY <1>9 DEF IInv, TypeOK
  <2>2. RequestTells([op |-> "sync", order |-> o, courier |-> c, event |-> e])'
    BY <2>1 DEF RequestTells
  <2> QED BY <1>9, <2>2, OneRequest
<1>10. ASSUME NEW w \in Workers, NEW o \in Orders, NEW c \in Couriers,
              \/ CancelShipment(w, o, c)
              \/ \E event \in CourierEvents : WebhookRecord(w, o, c, event) \/ PollRecord(w, o, c, event)
       PROVE RequestsTell'
  <2>1. CASE CancelShipment(w, o, c)
    BY <1>9, <2>1 DEF CancelShipment
  <2>2. ASSUME NEW event \in CourierEvents, WebhookRecord(w, o, c, event) PROVE RequestsTell'
    BY <1>9, <2>2 DEF WebhookRecord
  <2>3. ASSUME NEW event \in CourierEvents, PollRecord(w, o, c, event) PROVE RequestsTell'
    BY <1>9, <2>3 DEF PollRecord
  <2> QED BY <1>10, <2>1, <2>2, <2>3
<1>11. ASSUME NEW w \in Workers, NEW o \in Orders, NEW c \in Couriers, NEW event \in CourierEvents,
              ManualShipmentStatus(w, o, c, event)
       PROVE RequestsTell'
  <2>1. RequestTells([op |-> "deliver", order |-> o])'
    BY DEF RequestTells
  <2> QED BY <1>3, <1>11, <2>1, OneRequest DEF ManualShipmentStatus
<1>12. ASSUME NEW w \in Workers, NEW o \in Orders, NEW new, NEW local,
              local = [op |-> "apply", order |-> o, new |-> new, seen |-> status[o],
                       restored |-> stockRestored[o], via |-> "manual", event |-> None],
              Goto(w, local), UNCHANGED <<status, stockRestored>>
       PROVE RequestsTell'
  <2>1. None # "RETURNED"
    BY NoneIsOther DEF OrderStatus
  <2>2. RequestTells(local)'
    BY <1>12, <2>1 DEF RequestTells
  <2> QED BY <1>12, <2>2, OneRequest
<1>13. ASSUME NEW w \in Workers, DeliverRead(w) PROVE RequestsTell'
  <2>1. PICK o : o = req[w].order
    OBVIOUS
  <2>2. o \in Orders
    BY <1>13, <2>1, RequestFields DEF DeliverRead, IInv, TypeOK
  <2>3. PICK local : /\ local = [op |-> "apply", order |-> o, new |-> "DELIVERED", seen |-> status[o],
                                restored |-> stockRestored[o], via |-> "manual", event |-> None]
                     /\ Goto(w, local)
    BY <1>13, <2>1 DEF DeliverRead
  <2>4. UNCHANGED <<status, stockRestored>>
    BY <1>13 DEF DeliverRead
  <2> QED BY <2>2, <2>3, <2>4, <1>12
<1>14. ASSUME NEW w \in Workers, NEW o \in Orders, NEW new \in AdminStatuses, AdminStatusRead(w, o, new)
       PROVE RequestsTell'
  <2>1. PICK local : /\ local = [op |-> "apply", order |-> o, new |-> new, seen |-> status[o],
                                restored |-> stockRestored[o], via |-> "manual", event |-> None]
                     /\ Goto(w, local)
    BY <1>14 DEF AdminStatusRead
  <2>2. UNCHANGED <<status, stockRestored>>
    BY <1>14 DEF AdminStatusRead
  <2> QED BY <2>1, <2>2, <1>12
<1>15. ASSUME NEW w \in Workers, SyncRead(w) PROVE RequestsTell'
  BY <1>15, SyncTells DEF Serial, RequestsTell
<1>16. ASSUME NEW w \in Workers, ApplyCommit(w) PROVE RequestsTell'
  BY <1>16, ApplyRequests DEF Serial, RequestsTell
<1> QED
  BY <1>1, <1>2, <1>4, <1>5, <1>6, <1>7, <1>8, <1>10, <1>11, <1>13, <1>14, <1>15, <1>16
  DEF Next, Warehouse, OrderDesk, Serve

-----------------------------------------------------------------------------
\* The units of some orders are a number.
LEMMA UnitsType ==
  ASSUME NEW S, S \subseteq Orders
  PROVE  /\ IsFiniteSet(S) /\ UnitsOf(S) \in Int
         /\ \A o \in Orders : Qty[o] \in Int
<1>1. IsFiniteSet(Orders) /\ \A o \in Orders : Qty[o] \in Int
  BY FulfilmentAssumption DEF FulfilmentAssumption
<1>2. IsFiniteSet(S) /\ \A o \in S : Qty[o] \in Int
  BY <1>1, FS_Subset
<1> QED BY <1>1, <1>2, SumType DEF UnitsOf

\* One order more has its units more, one fewer its units fewer.
LEMMA UnitsPlus ==
  ASSUME NEW S, S \subseteq Orders, NEW o \in Orders, o \notin S
  PROVE  UnitsOf(S \cup {o}) = UnitsOf(S) + Qty[o]
<1>1. IsFiniteSet(S) /\ Qty[o] \in Int /\ \A x \in S : Qty[x] \in Int
  BY UnitsType
<1> QED BY <1>1, SumAdd DEF UnitsOf

\* The units of a set of orders without one of them.
LEMMA UnitsMinus ==
  ASSUME NEW S, S \subseteq Orders, NEW o \in S
  PROVE  UnitsOf(S \ {o}) = UnitsOf(S) - Qty[o]
<1>1. IsFiniteSet(S) /\ Qty[o] \in Int /\ \A x \in S : Qty[x] \in Int
  BY UnitsType
<1>2. UnitsOf(S) = Qty[o] + UnitsOf(S \ {o})
  BY <1>1, SumSplit DEF UnitsOf
<1>3. S \ {o} \subseteq Orders
  OBVIOUS
<1>4. UnitsOf(S \ {o}) \in Int
  BY <1>3, UnitsType
<1> QED BY <1>1, <1>2, <1>4

\* The statuses of a piece on the shelf.
OnShelfIn == Sellable \cup Claimed

\* The shelf is a finite set of pieces, told by their statuses.
LEMMA Shelf ==
  /\ OnShelf \subseteq Pieces /\ IsFiniteSet(OnShelf) /\ Cardinality(OnShelf) \in Int
  /\ \A p \in Pieces : p \in OnShelf <=> piece[p] \in OnShelfIn
<1>1. OnShelf \subseteq Pieces /\ IsFiniteSet(Pieces)
  BY FulfilmentAssumption DEF FulfilmentAssumption, OnShelf
<1>2. IsFiniteSet(OnShelf)
  BY <1>1, FS_Subset
<1>3. Cardinality(OnShelf) \in Int
  BY <1>2, FS_CardinalityType
<1> QED BY <1>1, <1>2, <1>3 DEF OnShelf, OnShelfIn

\* What the books add up.
LEMMA Numbers ==
  ASSUME IInv
  PROVE  /\ Unsettled \subseteq Orders /\ SoldBack \subseteq Orders
         /\ quantity \in Int /\ \A o \in Orders : Qty[o] \in Int
         /\ UnitsOf(Unsettled) \in Int /\ UnitsOf(SoldBack) \in Int
         /\ Cardinality(OnShelf) \in Int
<1>1. Unsettled \subseteq Orders /\ SoldBack \subseteq Orders
  BY DEF Unsettled, SoldBack
<1>2. UnitsOf(Unsettled) \in Int /\ UnitsOf(SoldBack) \in Int /\ \A o \in Orders : Qty[o] \in Int
  BY <1>1, UnitsType
<1>3. quantity \in Int
  BY DEF IInv, TypeOK
<1> QED BY <1>1, <1>2, <1>3, Shelf

\* The books do not move when nothing joins or leaves the shelf or the order book.
LEMMA BooksFrame ==
  ASSUME BooksBalance, UNCHANGED quantity,
         \A p \in Pieces : piece'[p] \in OnShelfIn <=> piece[p] \in OnShelfIn,
         \A o \in Orders : /\ status'[o] = None <=> status[o] = None
                           /\ group'[o] = "SHIPPED" <=> group[o] = "SHIPPED"
                           /\ restocks'[o] = restocks[o]
  PROVE  BooksBalance'
<1>1. OnShelf' = OnShelf
  BY DEF OnShelf, OnShelfIn
<1>2. Unsettled' = Unsettled /\ SoldBack' = SoldBack
  BY DEF Unsettled, SoldBack
<1> QED BY <1>1, <1>2 DEF BooksBalance, UnitsOf

\* A good unit that comes in is on the shelf and on sale.
LEMMA ReceiveBooks ==
  ASSUME IInv, BooksBalance, NEW p \in Pieces, NEW outcome \in {"GOOD", "DAMAGED"},
         ReceiveOne(p, outcome) \/ ReturnReceive(p, outcome)
  PROVE  BooksBalance'
<1>1. UNCHANGED <<status, group, restocks>> /\ piece[p] \notin OnShelfIn
  BY DEF ReceiveOne, ReturnReceive, orderVars, OnShelfIn, Sellable, Claimed
<1>2. CASE UNCHANGED quantity
  <2>1. PICK to \in {"DAMAGED_INCOMING", "DAMAGED_RETURN"} : piece' = [piece EXCEPT ![p] = to]
    BY <1>2 DEF ReceiveOne, ReturnReceive, IInv, TypeOK
  <2>2. \A q \in Pieces : piece'[q] \in OnShelfIn <=> piece[q] \in OnShelfIn
    BY <1>1, <2>1 DEF IInv, TypeOK, OnShelfIn, Sellable, Claimed
  <2> QED BY <1>1, <1>2, <2>2, BooksFrame
<1>3. CASE quantity' # quantity
  <2>1. PICK to \in Sellable : piece' = [piece EXCEPT ![p] = to]
    BY <1>3 DEF ReceiveOne, ReturnReceive, Sellable
  <2>2. quantity' = quantity + 1
    BY <1>3 DEF ReceiveOne, ReturnReceive
  <2>3. OnShelf' = OnShelf \cup {p} /\ p \notin OnShelf
    BY <1>1, <2>1 DEF IInv, TypeOK, OnShelf, OnShelfIn
  <2>4. Cardinality(OnShelf') = Cardinality(OnShelf) + 1
    BY <2>3, Shelf, FS_AddElement
  <2>5. Unsettled' = Unsettled /\ SoldBack' = SoldBack
    BY <1>1 DEF Unsettled, SoldBack
  <2>7. UnitsOf(Unsettled)' = UnitsOf(Unsettled) /\ UnitsOf(SoldBack)' = UnitsOf(SoldBack)
    BY <2>5 DEF UnitsOf
  <2> QED BY <2>2, <2>4, <2>7, Numbers DEF BooksBalance
<1> QED BY <1>2, <1>3

\* An order takes its units off sale and is owed them.
LEMMA PlaceBooks ==
  ASSUME IInv, OrdersTell, BooksBalance, NEW o \in Orders, PlaceOrder(o)
  PROVE  BooksBalance'
<1>1. /\ status[o] = None /\ group[o] = None /\ restocks[o] = 0
      /\ status' = [status EXCEPT ![o] = "PENDING"]
      /\ quantity' = quantity - Qty[o]
      /\ UNCHANGED <<piece, group, restocks>>
  BY DEF PlaceOrder, OrdersTell, OrderTells
<1>2. Unsettled' = Unsettled \cup {o} /\ o \notin Unsettled
  BY <1>1, NoneIsOther DEF IInv, TypeOK, Unsettled, OrderStatus
<1>3. SoldBack' = SoldBack /\ OnShelf' = OnShelf
  BY <1>1 DEF SoldBack, OnShelf
<1>4. UnitsOf(Unsettled)' = UnitsOf(Unsettled) + Qty[o]
  <2>1. UnitsOf(Unsettled)' = UnitsOf(Unsettled \cup {o})
    BY <1>2 DEF UnitsOf
  <2> QED BY <1>2, <2>1, Numbers, UnitsPlus
<1>5. UnitsOf(SoldBack)' = UnitsOf(SoldBack) /\ Cardinality(OnShelf)' = Cardinality(OnShelf)
  BY <1>3 DEF UnitsOf
<1> QED BY <1>1, <1>4, <1>5, Numbers DEF BooksBalance

\* An order that closes before it was shipped is owed nothing any more; one
\* that closes later is sold back.  Either way its units are on sale again.
LEMMA ApplyBooks ==
  ASSUME IInv, RowsTell, OrdersTell, BooksBalance, NEW o \in Orders, NEW new,
         status[o] # None, new # None,
         ApplyStatusChange(o, new, status[o], stockRestored[o]), UNCHANGED group
  PROVE  BooksBalance'
<1> DEFINE restocked == /\ new \in StockRestoreStatuses
                        /\ status[o] \notin StockRestoreStatuses
                        /\ ~stockRestored[o]
                        /\ new # "RETURNED"
<1>1. \A p \in Pieces : piece'[p] \in OnShelfIn <=> piece[p] \in OnShelfIn
  <2>1. CASE UNCHANGED <<rows, piece>>
    BY <2>1
  <2>2. CASE Emptied(o)
    <3>1. \A p \in Pieces : p \in PiecesOf(RowsOf(o)) => piece[p] \in Claimed
      BY <2>2 DEF Emptied, PiecesOf
    <3> QED BY <2>2, <3>1 DEF Emptied, OnShelfIn, Sellable
  <2> QED BY <2>1, <2>2, ApplyEmpties
<1>2. \A q \in Orders : status'[q] = None <=> status[q] = None
  BY DEF ApplyStatusChange, IInv, TypeOK
<1>3. CASE ~restocked
  <2>1. UNCHANGED quantity /\ \A q \in Orders : restocks'[q] = restocks[q]
    BY <1>3 DEF ApplyStatusChange, IInv, TypeOK
  <2> QED BY <1>1, <1>2, <2>1, BooksFrame
<1>4. CASE restocked
  <2>1. /\ quantity' = quantity + Qty[o]
        /\ \A q \in Orders : restocks'[q] = IF q = o THEN restocks[q] + 1 ELSE restocks[q]
    BY <1>4 DEF ApplyStatusChange, IInv, TypeOK
  <2>2. restocks[o] = 0 /\ restocks'[o] = 1
    BY <1>4, <2>1 DEF OrdersTell, OrderTells
  <2> HIDE DEF restocked
  <2>3. OnShelf' = OnShelf
    BY <1>1 DEF OnShelf, OnShelfIn
  <2>5. CASE group[o] = "SHIPPED"
    <3>1. Unsettled' = Unsettled
      BY <2>1, <2>5, <1>2 DEF Unsettled
    <3>2. SoldBack' = SoldBack \cup {o} /\ o \notin SoldBack
      BY <2>1, <2>2, <2>5 DEF SoldBack
    <3>3. UnitsOf(SoldBack \cup {o}) = UnitsOf(SoldBack) + Qty[o]
      BY <3>2, Numbers, UnitsPlus
    <3> QED BY <2>1, <2>3, <3>1, <3>2, <3>3, Numbers DEF BooksBalance, UnitsOf
  <2>6. CASE group[o] # "SHIPPED"
    <3>1. Unsettled' = Unsettled \ {o} /\ o \in Unsettled
      BY <2>1, <2>2, <2>6, <1>2 DEF Unsettled
    <3>2. SoldBack' = SoldBack
      BY <2>1, <2>6 DEF SoldBack
    <3>3. UnitsOf(Unsettled \ {o}) = UnitsOf(Unsettled) - Qty[o]
      BY <3>1, Numbers, UnitsMinus
    <3> QED BY <2>1, <2>3, <3>1, <3>2, <3>3, Numbers DEF BooksBalance, UnitsOf
  <2> QED BY <2>5, <2>6
<1> QED BY <1>3, <1>4

\* The rows of a complete group are of as many pieces.
LEMMA CompletePieces ==
  ASSUME IInv, NEW o \in Orders, Complete(o)
  PROVE  /\ PiecesOf(RowsOf(o)) \subseteq OnShelf
         /\ Cardinality(PiecesOf(RowsOf(o))) = Qty[o]
<1>1. \A r \in RowsOf(o) : r \in rows /\ Newest(r) /\ piece[r.piece] = "PICKED" /\ r.piece \in Pieces
  BY RowFields DEF Complete, RowsOf
<1>2. \A r, s \in RowsOf(o) : r.piece = s.piece => r = s
  BY <1>1, NewestIsOne
<1> DEFINE f == [r \in RowsOf(o) |-> r.piece]
<1>3. f \in Bijection(RowsOf(o), PiecesOf(RowsOf(o)))
  BY <1>2 DEF Bijection, Injection, Surjection, IsInjective, PiecesOf
<1>4. ExistsBijection(RowsOf(o), PiecesOf(RowsOf(o)))
  BY <1>3 DEF ExistsBijection
<1>5. Cardinality(PiecesOf(RowsOf(o))) = Cardinality(RowsOf(o))
  BY <1>4, FS_Bijection, Sizes DEF IInv
<1>6. PiecesOf(RowsOf(o)) \subseteq OnShelf
  BY <1>1 DEF PiecesOf, OnShelf, Claimed
<1> QED BY <1>5, <1>6 DEF Complete, IsFullyPicked

\* A booking takes the units of its order off the shelf and off the order book.
LEMMA BookBooks ==
  ASSUME IInv, OrdersTell, BooksBalance, NEW w \in Workers, NEW first \in FirstShipment,
         BookCommit(w, first), req[w].order \in Orders, Complete(req[w].order)
  PROVE  BooksBalance'
<1>1. PICK o \in Orders : o = req[w].order
  OBVIOUS
<1>2. Complete(o) /\ group[o] # None /\ group[o] # "SHIPPED" /\ status[o] # None
  <2>1. group[o] # None /\ group[o] # "SHIPPED"
    BY <1>1, NoneIsOther DEF Complete
  <2> QED BY <1>1, <2>1 DEF OrdersTell, OrderTells
<1>3. UNCHANGED <<quantity, restocks>>
  BY DEF BookCommit, stockVars
<1>4. \A q \in Orders : group'[q] = IF q = o THEN "SHIPPED" ELSE group[q]
  BY <1>1, <1>2 DEF BookCommit, IInv, TypeOK
<1>5. \A q \in Orders : status'[q] = None <=> status[q] = None
  <2>1. CourierToOrder[first] # None
    BY FulfilmentAssumption, CourierToOrderType, NoneIsOther DEF FulfilmentAssumption
  <2> QED BY <1>1, <1>2, <2>1 DEF BookCommit, IInv, TypeOK
<1>6. OnShelf' = OnShelf \ PiecesOf(RowsOf(o))
  BY <1>1 DEF BookCommit, OnShelf, Sellable, Claimed
<1>7. Cardinality(OnShelf') = Cardinality(OnShelf) - Qty[o]
  <2>1. OnShelf \cap PiecesOf(RowsOf(o)) = PiecesOf(RowsOf(o))
    BY <1>2, CompletePieces
  <2>2. Cardinality(OnShelf \ PiecesOf(RowsOf(o))) =
          Cardinality(OnShelf) - Cardinality(OnShelf \cap PiecesOf(RowsOf(o)))
    BY Shelf, FS_Difference
  <2> QED BY <1>2, <1>6, <2>1, <2>2, CompletePieces
<1>9. CASE restocks[o] = 0
  <2>1. Unsettled' = Unsettled \ {o} /\ o \in Unsettled
    BY <1>2, <1>3, <1>4, <1>5, <1>9 DEF Unsettled
  <2>2. SoldBack' = SoldBack
    BY <1>2, <1>3, <1>4, <1>9 DEF SoldBack
  <2>3. UnitsOf(Unsettled \ {o}) = UnitsOf(Unsettled) - Qty[o]
    BY <2>1, Numbers, UnitsMinus
  <2> QED BY <1>3, <1>7, <2>1, <2>2, <2>3, Numbers DEF BooksBalance, UnitsOf
<1>10. CASE restocks[o] = 1
  <2>1. Unsettled' = Unsettled
    BY <1>2, <1>3, <1>4, <1>5, <1>10 DEF Unsettled
  <2>2. SoldBack' = SoldBack \cup {o} /\ o \notin SoldBack
    BY <1>2, <1>3, <1>4, <1>10 DEF SoldBack
  <2>3. UnitsOf(SoldBack \cup {o}) = UnitsOf(SoldBack) + Qty[o]
    BY <2>2, Numbers, UnitsPlus
  <2> QED BY <1>3, <1>7, <2>1, <2>2, <2>3, Numbers DEF BooksBalance, UnitsOf
<1> QED BY <1>9, <1>10 DEF OrdersTell, OrderTells

\* Every step moves both sides of the books alike.
LEMMA BooksStep ==
  ASSUME IInv, Serial, Next
  PROVE  BooksBalance'
<1> USE DEF stockVars, orderVars, rowVars
<1>0. RowsTell /\ OrdersTell /\ BooksBalance /\ \A w \in Workers : RequestTells(req[w])
  BY DEF Serial, RequestsTell
<1>1. ASSUME UNCHANGED <<quantity, status, group, restocks>>,
             \A p \in Pieces : piece'[p] \in OnShelfIn <=> piece[p] \in OnShelfIn
      PROVE BooksBalance'
  BY <1>0, <1>1, BooksFrame
<1>2. ASSUME NEW p \in Pieces, Generate(p) \/ VoidPiece(p) PROVE BooksBalance'
  <2>1. UNCHANGED <<quantity, status, group, restocks>>
    BY <1>2 DEF Generate, VoidPiece
  <2>2. \A q \in Pieces : piece'[q] \in OnShelfIn <=> piece[q] \in OnShelfIn
    BY <1>2, NoneIsOther
    DEF Generate, VoidPiece, IInv, TypeOK, OnShelfIn, Sellable, Claimed, PieceStatus
  <2> QED BY <1>1, <2>1, <2>2
<1>3. ASSUME NEW p \in Pieces, NEW outcome \in {"GOOD", "DAMAGED"},
             ReceiveOne(p, outcome) \/ ReturnReceive(p, outcome)
      PROVE BooksBalance'
  BY <1>0, <1>3, ReceiveBooks
<1>4. ASSUME NEW o \in Orders, PlaceOrder(o) PROVE BooksBalance'
  BY <1>0, <1>4, PlaceBooks
<1>5. ASSUME NEW o \in Orders, CancelOrder(o) PROVE BooksBalance'
  <2>1. status[o] # None /\ "CANCELLED" # None
    BY <1>5, NoneIsOther DEF CancelOrder, AdminCancellable, OrderStatus
  <2> QED BY <1>0, <1>5, <2>1, ApplyBooks DEF CancelOrder
<1>6. ASSUME NEW w \in Workers, Reads(w) PROVE BooksBalance'
  BY <1>1, <1>6, ReadsOnly
<1>7. ASSUME NEW w \in Workers, ReserveCommit(w) PROVE BooksBalance'
  <2>1. UNCHANGED <<quantity, status, restocks>>
    BY <1>7 DEF ReserveCommit
  <2>2. \A p \in Pieces : piece'[p] \in OnShelfIn <=> piece[p] \in OnShelfIn
    BY <1>7 DEF ReserveCommit, IInv, TypeOK, OnShelfIn, Sellable, Claimed
  <2>3. \A o \in Orders : group'[o] = "SHIPPED" <=> group[o] = "SHIPPED"
    BY <1>7, NoneIsOther DEF ReserveCommit, IInv, TypeOK
  <2> QED BY <1>0, <2>1, <2>2, <2>3, BooksFrame
<1>8. ASSUME NEW w \in Workers, ReleaseCommit(w) PROVE BooksBalance'
  <2>1. UNCHANGED <<quantity, status, group, restocks>>
    BY <1>8 DEF ReleaseCommit
  <2>2. \A p \in Pieces : piece'[p] \in OnShelfIn <=> piece[p] \in OnShelfIn
    BY <1>8 DEF ReleaseCommit, IInv, TypeOK, OnShelfIn, Sellable, Claimed
  <2> QED BY <1>1, <2>1, <2>2
<1>9. ASSUME NEW w \in Workers, PickCommit(w) PROVE BooksBalance'
  <2>1. UNCHANGED <<quantity, status, group, restocks>>
    BY <1>9 DEF PickCommit
  <2>2. \A p \in Pieces : piece'[p] \in OnShelfIn <=> piece[p] \in OnShelfIn
    BY <1>9 DEF PickCommit, IInv, TypeOK, OnShelfIn, Sellable, Claimed
  <2> QED BY <1>1, <2>1, <2>2
<1>10. ASSUME NEW w \in Workers, NEW first \in FirstShipment, BookCommit(w, first)
       PROVE BooksBalance'
  <2>1. req[w].order \in Orders /\ Complete(req[w].order)
    BY <1>0, <1>10, BookedIsComplete
  <2> QED BY <1>0, <1>10, <2>1, BookBooks
<1>11. ASSUME NEW w \in Workers, ApplyCommit(w) PROVE BooksBalance'
  <2>1. PICK o, new : o = req[w].order /\ new = req[w].new
    OBVIOUS
  <2>2. /\ o \in Orders /\ new # None /\ status[o] # None /\ UNCHANGED group
        /\ ApplyStatusChange(o, new, status[o], stockRestored[o])
    BY <1>0, <1>11, <2>1, RequestFields, NoneIsOther
    DEF ApplyCommit, RequestTells, IInv, TypeOK, RequestsStayValid,
        RequestValid, OrderRequests
  <2> QED BY <1>0, <2>2, ApplyBooks
<1>12. ASSUME NEW w \in Workers, Cascade(w) PROVE BooksBalance'
  <2>1. UNCHANGED <<quantity, status, group, restocks>>
    BY <1>12 DEF Cascade
  <2>2. \A p \in Pieces : piece'[p] \in OnShelfIn <=> piece[p] \in OnShelfIn
    BY <1>12 DEF Cascade, CascadeFrom, CascadeTo, IInv, TypeOK, OnShelfIn, Sellable, Claimed
  <2> QED BY <1>1, <2>1, <2>2
<1> QED
  BY <1>2, <1>3, <1>4, <1>5, <1>6, <1>7, <1>8, <1>9, <1>10, <1>11, <1>12
  DEF Next, Warehouse, OrderDesk, Serve, Reads

-----------------------------------------------------------------------------
(* The invariant of one request at a time.                                  *)

\* At the start there is nothing to tell and the books are empty.
LEMMA InitSerial == Init => Serial
<1> SUFFICES ASSUME Init PROVE Serial
  OBVIOUS
<1>1. RowsTell /\ OutPieceIsTraceable
  BY NoneIsOther DEF Init, RowsTell, OutPieceIsTraceable, PieceStatus
<1>2. OrdersTell
  BY NoneIsOther DEF Init, OrdersTell, OrderTells, RowsOf, StockRestoreStatuses, OrderStatus
<1>3. RequestsTell
  BY DEF Init, RequestsTell, RequestTells, Idle
<1>4. BooksBalance
  <2>1. Unsettled = {} /\ SoldBack = {}
    BY NoneIsOther DEF Init, Unsettled, SoldBack
  <2>2. OnShelf = {}
    BY NoneIsOther DEF Init, OnShelf, Sellable, Claimed, PieceStatus
  <2>3. UnitsOf({}) = 0 /\ Cardinality({}) = 0
    BY SumEmpty, FS_EmptySet DEF UnitsOf
  <2> QED BY <2>1, <2>2, <2>3 DEF Init, BooksBalance
<1> QED BY <1>1, <1>2, <1>3, <1>4 DEF Serial

\* A stutter changes nothing.
LEMMA StutterSerial ==
  ASSUME IInv, Serial, UNCHANGED vars
  PROVE  Serial'
<1> USE DEF vars
<1>1. RowsTell' /\ OutPieceIsTraceable'
  BY RowsTellFrame DEF Serial
<1>2. OrdersTell'
  BY OrdersTellFrame DEF Serial
<1>3. RequestsTell'
  BY DEF Serial, RequestsTell, RequestTells, RowsOf, IsFullyPicked
<1>4. BooksBalance'
  BY BooksFrame DEF Serial
<1> QED BY <1>1, <1>2, <1>3, <1>4 DEF Serial

\* Every step keeps the serial invariant.
LEMMA SerialStep ==
  ASSUME OneAtATime, IInv, Serial, [Next /\ Timely]_vars
  PROVE  Serial'
<1>1. CASE Next /\ Timely
  BY <1>1, RowsTellStep, OrdersTellStep, RequestsTellStep, BooksStep DEF Serial
<1>2. CASE UNCHANGED vars
  BY <1>2, StutterSerial
<1> QED BY <1>1, <1>2

\* With one request at a time, one courier and no late RETURNED, rows, pieces,
\* orders and requests tell one story and the books balance (reserve, release,
\* pickConfirm, createShipment, applyStatusChange, the courier's cascade).
THEOREM SerialInvariance ==
  ASSUME OneAtATime
  PROVE  TimelySpec => [](IInv /\ Serial)
<1>1. Init => IInv /\ Serial
  BY InitInv, InitSerial
<1>2. IInv /\ Serial /\ [Next /\ Timely]_vars => (IInv /\ Serial)'
  <2> SUFFICES ASSUME IInv, Serial, [Next /\ Timely]_vars PROVE IInv' /\ Serial'
    OBVIOUS
  <2>1. [Next]_vars
    OBVIOUS
  <2> QED BY <2>1, InvStep, SerialStep
<1> QED BY <1>1, <1>2, PTL DEF TimelySpec

\* A piece awaits its pick on one row at most, as pickConfirm counts on, and
\* a piece that is out can be traced to its order by its newest row.
THEOREM RowsAndPiecesAgree ==
  ASSUME OneAtATime
  PROVE  TimelySpec => []PieceRowsAgree
<1>1. IInv /\ Serial => PieceRowsAgree
  BY OneOpenRow DEF Serial, PieceRowsAgree
<1> QED BY <1>1, SerialInvariance, PTL

\* What is on sale plus what open orders are owed is what is on the shelves,
\* but for the units of orders that were closed after their pieces had left.
THEOREM TheBooksBalance ==
  ASSUME OneAtATime
  PROVE  TimelySpec => []BooksBalance
<1>1. IInv /\ Serial => BooksBalance
  BY DEF Serial
<1> QED BY <1>1, SerialInvariance, PTL

-----------------------------------------------------------------------------
\* A step of one piece is a move of the life cycle.
LEMMA MoveOne ==
  ASSUME IInv, NEW p \in Pieces, NEW from, NEW to, piece[p] \in from,
         piece' = [piece EXCEPT ![p] = to]
  PROVE  Lifecycle!Move({p}, from, to)
  BY DEF Lifecycle!Move, IInv, TypeOK

\* The same from a status that is known.
LEMMA MoveFrom ==
  ASSUME IInv, NEW p \in Pieces, NEW from, NEW to, piece[p] = from,
         piece' = [piece EXCEPT ![p] = to]
  PROVE  Lifecycle!Move({p}, {from}, to)
  BY DEF Lifecycle!Move, IInv, TypeOK

\* A change of status takes pieces back from claimed only.
LEMMA ApplyLifecycle ==
  ASSUME IInv, RowsTell, OrdersTell, NEW o \in Orders, NEW new,
         ApplyStatusChange(o, new, status[o], stockRestored[o])
  PROVE  Lifecycle!Next \/ UNCHANGED piece
<1>1. CASE Emptied(o)
  <2>1. PiecesOf(RowsOf(o)) \in SUBSET Pieces
    BY RowFields DEF PiecesOf, RowsOf
  <2>2. Lifecycle!Unreserve(PiecesOf(RowsOf(o)))
    BY <1>1 DEF Emptied, PiecesOf, Lifecycle!Unreserve, Lifecycle!Move, Lifecycle!Claimed, Claimed
  <2> QED BY <2>1, <2>2 DEF Lifecycle!Next
<1> QED BY <1>1, ApplyEmpties

\* Every step is a step of the life cycle or leaves the pieces alone.
LEMMA LifecycleStep ==
  ASSUME IInv, Serial, Next
  PROVE  Lifecycle!Next \/ UNCHANGED piece
<1> USE DEF stockVars, orderVars, rowVars
<1> DEFINE Goal == Lifecycle!Next \/ UNCHANGED piece
<1>0. RowsTell /\ OrdersTell /\ \A w \in Workers : RequestTells(req[w])
  BY DEF Serial, RequestsTell
<1>1. ASSUME NEW p \in Pieces, Generate(p) PROVE Goal
  <2>1. Lifecycle!Move({p}, {None}, "CREATED")
    BY <1>1, MoveFrom DEF Generate
  <2> QED BY <2>1 DEF Lifecycle!Next, Lifecycle!PrintLabel
<1>2. ASSUME NEW p \in Pieces, VoidPiece(p) PROVE Goal
  <2>1. Lifecycle!Move({p}, {"CREATED"}, "VOID")
    BY <1>2, MoveFrom DEF VoidPiece
  <2> QED BY <2>1 DEF Lifecycle!Next, Lifecycle!Void
<1>3. ASSUME NEW p \in Pieces, NEW outcome, ReceiveOne(p, outcome) PROVE Goal
  <2>1. Lifecycle!Receive(p)
    BY <1>3, MoveOne DEF ReceiveOne, Lifecycle!Receive
  <2> QED BY <2>1 DEF Lifecycle!Next
<1>4. ASSUME NEW p \in Pieces, NEW outcome, ReturnReceive(p, outcome) PROVE Goal
  <2>1. Lifecycle!ScanReturn(p)
    BY <1>4, MoveOne DEF ReturnReceive, Lifecycle!ScanReturn
  <2> QED BY <2>1 DEF Lifecycle!Next
<1>5. ASSUME NEW o \in Orders, PlaceOrder(o) PROVE Goal
  BY <1>5 DEF PlaceOrder
<1>6. ASSUME NEW o \in Orders, CancelOrder(o) PROVE Goal
  BY <1>0, <1>6, ApplyLifecycle DEF CancelOrder
<1>7. ASSUME NEW w \in Workers, Reads(w) PROVE Goal
  BY <1>7, ReadsOnly
<1>8. ASSUME NEW w \in Workers, ReserveCommit(w) PROVE Goal
  <2>1. req[w].piece \in Pieces
    BY <1>8, RequestFields DEF ReserveCommit, IInv, TypeOK
  <2>2. Lifecycle!Move({req[w].piece}, Sellable, "RESERVED")
    BY <1>8, <2>1, MoveOne DEF ReserveCommit
  <2> QED BY <2>1, <2>2 DEF Lifecycle!Next, Lifecycle!Reserve, Lifecycle!Sellable, Sellable
<1>9. ASSUME NEW w \in Workers, ReleaseCommit(w) PROVE Goal
  <2>1. PICK p \in Pieces : p = req[w].piece
    BY <1>9, RequestFields DEF ReleaseCommit, IInv, TypeOK
  <2>2. CASE piece[p] = "RESERVED"
    <3>1. piece' = [piece EXCEPT ![p] = "IN_STOCK"]
      BY <1>9, <2>1, <2>2 DEF ReleaseCommit
    <3>2. piece[p] \in Claimed
      BY <2>2 DEF Claimed
    <3>3. Lifecycle!Move({p}, Claimed, "IN_STOCK")
      BY <3>1, <3>2, MoveOne
    <3> QED BY <3>3 DEF Lifecycle!Next, Lifecycle!Unreserve, Lifecycle!Claimed, Claimed
  <2>3. CASE piece[p] # "RESERVED"
    BY <1>9, <2>1, <2>3 DEF ReleaseCommit, IInv, TypeOK
  <2> QED BY <2>2, <2>3
<1>10. ASSUME NEW w \in Workers, PickCommit(w) PROVE Goal
  <2>1. req[w].piece \in Pieces
    BY <1>10, RequestFields DEF PickCommit, IInv, TypeOK
  <2>2. Lifecycle!Move({req[w].piece}, {"RESERVED"}, "PICKED")
    BY <1>10, <2>1, MoveFrom DEF PickCommit
  <2> QED BY <2>1, <2>2 DEF Lifecycle!Next, Lifecycle!Pick
<1>11. ASSUME NEW w \in Workers, NEW first \in FirstShipment, BookCommit(w, first) PROVE Goal
  <2>1. PICK o \in Orders : o = req[w].order /\ Complete(o)
    BY <1>0, <1>11, BookedIsComplete
  <2>2. PiecesOf(RowsOf(o)) \in SUBSET Pieces
    BY RowFields DEF PiecesOf, RowsOf
  <2>3. Lifecycle!Ship(PiecesOf(RowsOf(o)))
    BY <1>11, <2>1 DEF BookCommit, Complete, PiecesOf, Lifecycle!Ship, Lifecycle!Move
  <2> QED BY <2>2, <2>3 DEF Lifecycle!Next
<1>12. ASSUME NEW w \in Workers, ApplyCommit(w) PROVE Goal
  <2>1. PICK o, new : o = req[w].order /\ new = req[w].new
    OBVIOUS
  <2>2. o \in Orders /\ ApplyStatusChange(o, new, status[o], stockRestored[o])
    BY <1>0, <1>12, <2>1, RequestFields DEF ApplyCommit, RequestTells, IInv, TypeOK
  <2> QED BY <1>0, <2>2, ApplyLifecycle
<1>13. ASSUME NEW w \in Workers, Cascade(w) PROVE Goal
  <2>1. PICK event : event = req[w].event
    OBVIOUS
  <2>2. PICK moved \in SUBSET {p \in PiecesOf(RowsOf(req[w].order)) : piece[p] \in CascadeFrom(event)} :
          piece' = [p \in Pieces |-> IF p \in moved THEN CascadeTo(event) ELSE piece[p]]
    BY <1>13, <2>1 DEF Cascade
  <2>3. moved \in SUBSET Pieces
    BY <2>2, RowFields DEF PiecesOf, RowsOf
  <2>4. CASE event \in DeliveredEvents
    <3>1. Lifecycle!Deliver(moved)
      BY <2>2, <2>4 DEF CascadeFrom, CascadeTo, Lifecycle!Deliver, Lifecycle!Move
    <3> QED BY <2>3, <3>1 DEF Lifecycle!Next
  <2>5. CASE event \notin DeliveredEvents
    <3>1. Lifecycle!SendBack(moved)
      BY <2>2, <2>5 DEF CascadeFrom, CascadeTo, Lifecycle!SendBack, Lifecycle!Move
    <3> QED BY <2>3, <3>1 DEF Lifecycle!Next
  <2> QED BY <2>4, <2>5
<1> QED
  BY <1>1, <1>2, <1>3, <1>4, <1>5, <1>6, <1>7, <1>8, <1>9, <1>10, <1>11, <1>12, <1>13
  DEF Next, Warehouse, OrderDesk, Serve, Reads

\* The handlers implement PieceLifecycle: no piece is shipped that was not
\* picked, or comes back to the shelf but by a release or a scan.
THEOREM FollowsLifecycle ==
  ASSUME OneAtATime
  PROVE  TimelySpec => ImplementsLifecycle
<1>1. Init => Lifecycle!Init
  BY DEF Init, Lifecycle!Init
<1>2. IInv /\ Serial /\ [Next /\ Timely]_vars => [Lifecycle!Next]_piece
  BY LifecycleStep DEF vars
<1> QED BY <1>1, <1>2, SerialInvariance, PTL DEF TimelySpec, ImplementsLifecycle, Lifecycle!Spec

-----------------------------------------------------------------------------
(* Groups that shipped, and units that went back on sale.                   *)

\* A group that was shipped has its ordered units, all picked, for as long as
\* requests come one at a time: nothing is reserved, released or restocked out
\* of it.
THEOREM ShippedIsComplete ==
  ASSUME OneAtATime
  PROVE  TimelySpec => []ShippedGroupComplete
<1>1. IInv /\ Serial => ShippedGroupComplete
  BY DEF Serial, OrdersTell, OrderTells, ShippedGroupComplete
<1> QED BY <1>1, SerialInvariance, PTL

\* The flag remembers that the units were given back, and a request that is about
\* to change the order's status has read it as it is.
FlagTells ==
  /\ \A o \in Orders : restocks[o] \in {0, 1} /\ (restocks[o] = 1 => stockRestored[o])
  /\ req[only].op = "apply" => req[only].restored = stockRestored[req[only].order]

\* applyStatusChange gives the units back once.
LEMMA ApplyRestocks ==
  ASSUME TypeOK, FlagTells, NEW o \in Orders, NEW new, NEW seen,
         ApplyStatusChange(o, new, seen, stockRestored[o])
  PROVE  \A q \in Orders : restocks'[q] \in {0, 1} /\ (restocks'[q] = 1 => stockRestored'[q])
<1> DEFINE restore == /\ new \in StockRestoreStatuses
                      /\ seen \notin StockRestoreStatuses
                      /\ ~stockRestored[o]
           restocked == restore /\ new # "RETURNED"
<1>1. /\ stockRestored' = [stockRestored EXCEPT ![o] = @ \/ restore]
      /\ restocks' = [restocks EXCEPT ![o] = IF restocked THEN @ + 1 ELSE @]
      /\ restocked => restore
  BY DEF ApplyStatusChange
<1>2. stockRestored \in [Orders -> BOOLEAN] /\ restocks \in [Orders -> Nat]
  BY DEF TypeOK
<1>3. restore => restocks[o] = 0
  BY DEF FlagTells
<1> HIDE DEF restore, restocked
<1>4. ASSUME NEW q \in Orders
      PROVE  restocks'[q] \in {0, 1} /\ (restocks'[q] = 1 => stockRestored'[q])
  <2>1. restocks[q] \in {0, 1} /\ (restocks[q] = 1 => stockRestored[q])
    BY DEF FlagTells
  <2>2. CASE q # o
    BY <1>1, <1>2, <2>1, <2>2
  <2>3. CASE q = o
    <3>1. CASE restocked
      <4>1. restocks'[q] = 1
        BY <1>1, <1>2, <1>3, <2>3, <3>1
      <4>2. stockRestored'[q]
        BY <1>1, <1>2, <2>3, <3>1, Zenon
      <4> QED BY <4>1, <4>2
    <3>2. CASE ~restocked
      <4>1. restocks'[q] = restocks[q]
        BY <1>1, <1>2, <2>3, <3>2
      <4>2. stockRestored[q] => stockRestored'[q]
        BY <1>1, <1>2, <2>3, Zenon
      <4> QED BY <2>1, <4>1, <4>2
    <3> QED BY <3>1, <3>2
  <2> QED BY <2>2, <2>3
<1> QED BY <1>4

\* What the worker goes on with is what it does.
LEMMA OneGoes ==
  ASSUME TypeOK, NEW local, Goto(only, local)
  PROVE  req'[only] = local
  BY RacesAssumption DEF Goto, TypeOK, RacesAssumption

\* Every step keeps the flag telling.
LEMMA FlagStep ==
  ASSUME TypeOK, FlagTells, OneByOne
  PROVE  FlagTells'
<1> DEFINE Kept == \A q \in Orders : restocks'[q] \in {0, 1} /\ (restocks'[q] = 1 => stockRestored'[q])
           ReadsSo == req'[only].op = "apply" =>
                       req'[only].restored = stockRestored'[req'[only].order]
<1> SUFFICES Kept /\ ReadsSo
  BY DEF FlagTells
<1>0. /\ req[only] \in Request
      /\ Idle.op = "idle"
      /\ UNCHANGED <<restocks, stockRestored>> => Kept
  BY RacesAssumption DEF TypeOK, FlagTells, Idle, RacesAssumption
<1>1. ASSUME req[only] = Idle, NEW p \in Pieces,
             \/ Generate(p) \/ VoidPiece(p)
             \/ \E outcome \in {"GOOD", "DAMAGED"} :
                  ReceiveOne(p, outcome) \/ ReturnReceive(p, outcome)
      PROVE Kept /\ ReadsSo
  <2>1. UNCHANGED <<req, restocks, stockRestored>>
    BY <1>1 DEF Generate, VoidPiece, ReceiveOne, ReturnReceive, stockVars, orderVars
  <2> QED BY <1>0, <1>1, <2>1
<1>2. ASSUME req[only] = Idle, NEW o \in Orders, PlaceOrder(o) PROVE Kept /\ ReadsSo
  <2>1. UNCHANGED <<req, restocks, stockRestored>>
    BY <1>2 DEF PlaceOrder
  <2> QED BY <1>0, <1>2, <2>1
<1>3. ASSUME req[only] = Idle, NEW o \in Orders, CancelOrder(o) PROVE Kept /\ ReadsSo
  <2>1. UNCHANGED req /\ ApplyStatusChange(o, "CANCELLED", status[o], stockRestored[o])
    BY <1>3 DEF CancelOrder
  <2> QED BY <1>0, <1>3, <2>1, ApplyRestocks
<1>4. ASSUME ApplyCommit(only) PROVE Kept /\ ReadsSo
  <2>1. PICK o, new, seen, event :
          /\ o = req[only].order /\ new = req[only].new /\ seen = req[only].seen /\ event = req[only].event
    OBVIOUS
  <2>2. o \in Orders /\ req[only].restored = stockRestored[o]
    BY <1>0, <1>4, <2>1, RequestFields DEF ApplyCommit, FlagTells
  <2>3. ApplyStatusChange(o, new, seen, stockRestored[o]) /\ Goto(only, AfterSync(o, event))
    BY <1>4, <2>1, <2>2 DEF ApplyCommit
  <2>4. AfterSync(o, event).op # "apply"
    BY DEF AfterSync, Idle
  <2>5. Kept
    BY <2>2, <2>3, ApplyRestocks
  <2> QED BY <2>3, <2>4, <2>5, OneGoes
<1>5. ASSUME NEW o, NEW new, NEW via, NEW event,
             Goto(only, [op |-> "apply", order |-> o, new |-> new, seen |-> status[o],
                      restored |-> stockRestored[o], via |-> via, event |-> event]),
             UNCHANGED <<restocks, stockRestored>>
      PROVE Kept /\ ReadsSo
  <2>1. PICK local : /\ local = [op |-> "apply", order |-> o, new |-> new, seen |-> status[o],
                                 restored |-> stockRestored[o], via |-> via, event |-> event]
                     /\ Goto(only, local)
    BY <1>5
  <2>2. local.restored = stockRestored'[local.order]
    BY <1>5, <2>1
  <2> QED BY <1>0, <1>5, <2>1, <2>2, OneGoes
<1>6. ASSUME NEW local, Goto(only, local), local.op # "apply",
             UNCHANGED <<restocks, stockRestored>>
      PROVE Kept /\ ReadsSo
  BY <1>0, <1>6, OneGoes
<1>7. ASSUME DeliverRead(only) \/ SyncRead(only) PROVE Kept /\ ReadsSo
  <2>1. UNCHANGED <<restocks, stockRestored>>
    BY <1>7 DEF DeliverRead, SyncRead, stockVars, orderVars
  <2>2. CASE DeliverRead(only)
    BY <1>5, <2>1, <2>2 DEF DeliverRead
  <2>3. CASE SyncRead(only)
    <3>1. PICK o, event, new :
            /\ \/ Goto(only, AfterSync(o, event))
               \/ Goto(only, [op |-> "apply", order |-> o, new |-> new, seen |-> status[o],
                           restored |-> stockRestored[o], via |-> "sync", event |-> event])
      BY <2>3 DEF SyncRead
    <3>2. AfterSync(o, event).op # "apply"
      BY DEF AfterSync, Idle
    <3> QED BY <1>5, <1>6, <2>1, <3>1, <3>2
  <2> QED BY <1>7, <2>2, <2>3
<1>8. ASSUME NEW o \in Orders, NEW new \in AdminStatuses, AdminStatusRead(only, o, new)
      PROVE Kept /\ ReadsSo
  BY <1>5, <1>8 DEF AdminStatusRead, stockVars, orderVars
<1>9. ASSUME              \/ ReserveCommit(only) \/ ReleaseCommit(only) \/ PickCommit(only) \/ Cascade(only) \/ Abort(only)
             \/ \E first \in FirstShipment : BookCommit(only, first)
      PROVE Kept /\ ReadsSo
  <2>1. Goto(only, Idle) /\ UNCHANGED <<restocks, stockRestored>>
    BY <1>9 DEF ReserveCommit, ReleaseCommit, PickCommit, Cascade, Abort, BookCommit,
                stockVars, orderVars
  <2> QED BY <1>0, <1>6, <2>1
<1>10. ASSUME ReleaseRead(only) PROVE Kept /\ ReadsSo
  <2>1. PICK r \in rows : Goto(only, [op |-> "release", row |-> r.id, piece |-> r.piece])
    BY <1>10 DEF ReleaseRead
  <2>2. UNCHANGED <<restocks, stockRestored>>
    BY <1>10 DEF ReleaseRead, stockVars, orderVars
  <2>3. [op |-> "release", row |-> r.id, piece |-> r.piece].op # "apply"
    OBVIOUS
  <2> QED BY <1>6, <2>1, <2>2, <2>3
<1>11. ASSUME NEW p \in Pieces, PickRead(only, p) PROVE Kept /\ ReadsSo
  <2>1. PICK r : Goto(only, [op |-> "pick", row |-> r.id, piece |-> p])
    BY <1>11 DEF PickRead
  <2>2. UNCHANGED <<restocks, stockRestored>>
    BY <1>11 DEF PickRead, stockVars, orderVars
  <2>3. [op |-> "pick", row |-> r.id, piece |-> p].op # "apply"
    OBVIOUS
  <2> QED BY <1>6, <2>1, <2>2, <2>3
<1>12. ASSUME NEW p \in Pieces, NEW o \in Orders, ReserveRead(only, o, p)
       PROVE Kept /\ ReadsSo
  <2>1. Goto(only, [op |-> "reserve", order |-> o, piece |-> p])
    BY <1>12 DEF ReserveRead
  <2>2. UNCHANGED <<restocks, stockRestored>>
    BY <1>12 DEF ReserveRead, stockVars, orderVars
  <2>3. [op |-> "reserve", order |-> o, piece |-> p].op # "apply"
    OBVIOUS
  <2> QED BY <1>6, <2>1, <2>2, <2>3
<1>13. ASSUME NEW o \in Orders, NEW c \in Couriers, BookRead(only, o, c)
       PROVE Kept /\ ReadsSo
  <2>1. Goto(only, [op |-> "book", order |-> o, courier |-> c])
    BY <1>13 DEF BookRead
  <2>2. UNCHANGED <<restocks, stockRestored>>
    BY <1>13 DEF BookRead, stockVars, orderVars
  <2>3. [op |-> "book", order |-> o, courier |-> c].op # "apply"
    OBVIOUS
  <2> QED BY <1>6, <2>1, <2>2, <2>3
<1>14. ASSUME NEW o \in Orders, NEW c \in Couriers, NEW event,
              \/ CancelShipment(only, o, c) \/ PollRecord(only, o, c, event)
              \/ WebhookRecord(only, o, c, event)
       PROVE Kept /\ ReadsSo
  <2>1. PICK e : Goto(only, [op |-> "sync", order |-> o, courier |-> c, event |-> e])
    BY <1>14 DEF CancelShipment, WebhookRecord, PollRecord
  <2>2. UNCHANGED <<restocks, stockRestored>>
    BY <1>14 DEF CancelShipment, WebhookRecord, PollRecord, stockVars, orderVars
  <2>3. [op |-> "sync", order |-> o, courier |-> c, event |-> e].op # "apply"
    OBVIOUS
  <2> QED BY <1>6, <2>1, <2>2, <2>3
<1>15. ASSUME NEW o \in Orders, NEW c \in Couriers, NEW event,
              ManualShipmentStatus(only, o, c, event)
       PROVE Kept /\ ReadsSo
  <2>1. Goto(only, IF event = "DELIVERED" THEN [op |-> "deliver", order |-> o] ELSE Idle)
    BY <1>15 DEF ManualShipmentStatus
  <2>2. UNCHANGED <<restocks, stockRestored>>
    BY <1>15 DEF ManualShipmentStatus, stockVars, orderVars
  <2>3. (IF event = "DELIVERED" THEN [op |-> "deliver", order |-> o] ELSE Idle).op # "apply"
    BY DEF Idle
  <2> QED BY <1>6, <2>1, <2>2, <2>3
<1> QED
  BY <1>1, <1>2, <1>3, <1>4, <1>7, <1>8, <1>9, <1>10, <1>11, <1>12, <1>13,
     <1>14, <1>15
  DEF OneByOne, Warehouse, OrderDesk, Serve

\* The one order that is placed: its group is shipped with all its units picked,
\* and none of them is on the packing table again.
RowsFit ==
  /\ \A q \in Orders : q # twoUnits => status[q] = None /\ group[q] # "SHIPPED"
  /\ \A r \in rows : r.order = twoUnits
  /\ group[twoUnits] = "SHIPPED" =>
       IsFullyPicked(twoUnits) /\ \A r \in rows : piece[r.piece] # "PICKED"

\* What the worker has read of its rows is still so.
RequestFits(r) ==
  /\ r.op = "reserve" => Cardinality(RowsOf(r.order)) < Qty[r.order]
  /\ r.op \in {"release", "pick"} => \A s \in rows : s.id = r.row => ~s.picked
  /\ r.op = "book" => IsFullyPicked(r.order)

\* While the order is shipped none of its rows awaits its pick, so no piece is
\* reserved: nothing of it can be claimed.
LEMMA NothingClaimed ==
  ASSUME IInv, RowsFit, group[twoUnits] = "SHIPPED"
  PROVE  /\ \A r \in rows : r.picked
         /\ \A r \in rows : piece[r.piece] \notin Claimed
<1>1. \A r \in rows : r.picked
  BY DEF RowsFit, IsFullyPicked, RowsOf
<1>2. \A p \in Pieces : piece[p] # "RESERVED"
  BY <1>1 DEF IInv, ReservedHasOpenRow, OpenRows
<1> QED BY <1>1, <1>2, RowFields DEF RowsFit, Claimed

\* A step that touches no row and no group, and picks nothing, changes nothing
\* of this.
LEMMA FitFrame ==
  ASSUME IInv, RowsFit, PlacesOnly(twoUnits), UNCHANGED <<rows, group>>,
         \A p \in Pieces : piece'[p] = "PICKED" => piece[p] = "PICKED"
  PROVE  RowsFit'
<1>1. \A r \in rows : r.piece \in Pieces
  BY RowFields
<1>2. IsFullyPicked(twoUnits)' = IsFullyPicked(twoUnits)
  BY DEF IsFullyPicked, RowsOf
<1> QED BY <1>1, <1>2 DEF RowsFit, PlacesOnly

\* applyStatusChange releases nothing of a group that shipped.
LEMMA ApplyFits ==
  ASSUME IInv, RowsFit, PlacesOnly(twoUnits), UNCHANGED group, NEW o, NEW new, NEW seen,
         NEW restored, ApplyStatusChange(o, new, seen, restored)
  PROVE  RowsFit'
<1>1. PICK released :
        /\ released \subseteq {r \in rows : piece[r.piece] \in Claimed}
        /\ rows' = rows \ released
        /\ piece' = [p \in Pieces |-> IF p \in PiecesOf(released) THEN "IN_STOCK" ELSE piece[p]]
  <2> DEFINE cond == /\ new \in StockRestoreStatuses /\ seen \notin StockRestoreStatuses /\ ~restored
             released == IF cond THEN {r \in RowsOf(o) : piece[r.piece] \in Claimed} ELSE {}
  <2>1. /\ rows' = rows \ released
        /\ piece' = [p \in Pieces |-> IF p \in PiecesOf(released) THEN "IN_STOCK" ELSE piece[p]]
    BY DEF ApplyStatusChange
  <2>2. released \subseteq {r \in rows : piece[r.piece] \in Claimed}
    BY DEF RowsOf
  <2> HIDE DEF released
  <2> QED BY <2>1, <2>2
<1>2. \A p \in Pieces : piece'[p] = "PICKED" => piece[p] = "PICKED"
  BY <1>1
<1>3. CASE group[twoUnits] = "SHIPPED"
  <2>1. released = {}
    BY <1>1, <1>3, NothingClaimed
  <2>2. rows' = rows
    BY <1>1, <2>1
  <2> QED BY <1>2, <2>2, FitFrame
<1>4. CASE group[twoUnits] # "SHIPPED"
  BY <1>1, <1>4 DEF RowsFit, PlacesOnly
<1> QED BY <1>3, <1>4

\* Reserving, releasing, picking and booking.
LEMMA ReserveFits ==
  ASSUME IInv, RowsFit, RequestFits(req[only]), PlacesOnly(twoUnits), ReserveCommit(only)
  PROVE  RowsFit'
<1>1. PICK o, b : /\ o = req[only].order /\ b = req[only].piece
                  /\ rows' = rows \cup {[id |-> nextRow, piece |-> b, order |-> o, picked |-> FALSE]}
                  /\ group' = [group EXCEPT ![o] = IF @ = None THEN "OPEN" ELSE @]
  BY DEF ReserveCommit
<1>2. o \in Orders /\ status[o] # None
  BY <1>1, RacesAssumption, RequestFields
  DEF ReserveCommit, IInv, TypeOK, RequestsStayValid, RequestValid, OrderRequests, RacesAssumption
<1>3. o = twoUnits
  BY <1>2 DEF RowsFit
<1>4. group[twoUnits] # "SHIPPED"
  <2>1. Cardinality(RowsOf(twoUnits)) < Qty[twoUnits]
    BY <1>1, <1>3 DEF RequestFits, ReserveCommit
  <2>2. Qty[twoUnits] \in Nat
    BY <1>2, <1>3, FulfilmentAssumption DEF FulfilmentAssumption
  <2> QED BY <2>1, <2>2 DEF RowsFit, IsFullyPicked
<1>5. group \in [Orders -> {None, "OPEN", "SHIPPED"}]
  BY DEF IInv, TypeOK
<1>6. /\ group'[twoUnits] # "SHIPPED"
      /\ \A q \in Orders : q # twoUnits => group'[q] = group[q]
  BY <1>1, <1>2, <1>3, <1>4, <1>5
<1>7. \A r \in rows' : r.order = twoUnits
  BY <1>1, <1>3 DEF RowsFit
<1> QED BY <1>6, <1>7 DEF RowsFit, PlacesOnly

LEMMA ReleasePickFits ==
  ASSUME IInv, RowsFit, RequestFits(req[only]), PlacesOnly(twoUnits),
         ReleaseCommit(only) \/ PickCommit(only)
  PROVE  RowsFit'
<1>1. PICK r \in rows :
        /\ r.id = req[only].row /\ UNCHANGED group
        /\ rows' = rows \ {r} \/ rows' = (rows \ {r}) \cup {[r EXCEPT !.picked = TRUE]}
  BY DEF ReleaseCommit, PickCommit
<1>2. ~r.picked
  BY <1>1 DEF RequestFits, ReleaseCommit, PickCommit
<1>3. group[twoUnits] # "SHIPPED"
  BY <1>2, NothingClaimed
<1>4. r \in Row
  BY DEF IInv, TypeOK
<1>5. [r EXCEPT !.picked = TRUE].order = r.order
  BY <1>4 DEF Row
<1>6. \A s \in rows' : s.order = twoUnits
  BY <1>1, <1>5 DEF RowsFit
<1> QED BY <1>1, <1>3, <1>6 DEF RowsFit, PlacesOnly

LEMMA BookFits ==
  ASSUME IInv, RowsFit, RequestFits(req[only]), PlacesOnly(twoUnits),
         NEW f0 \in FirstShipment, BookCommit(only, f0)
  PROVE  RowsFit'
<1>1. PICK o : /\ o = req[only].order /\ UNCHANGED rows
               /\ piece' = [b \in Pieces |-> IF b \in PiecesOf(RowsOf(o)) THEN "SHIPPED" ELSE piece[b]]
               /\ group' = [group EXCEPT ![o] = IF @ = None THEN None ELSE "SHIPPED"]
  BY DEF BookCommit, rowVars
<1>2. o \in Orders /\ status[o] # None
  BY <1>1, RacesAssumption, RequestFields
  DEF BookCommit, IInv, TypeOK, RequestsStayValid, RequestValid, OrderRequests, RacesAssumption
<1>3. o = twoUnits
  BY <1>2 DEF RowsFit
<1>4. IsFullyPicked(twoUnits)'
  BY <1>1, <1>3 DEF RequestFits, BookCommit, IsFullyPicked, RowsOf
<1>5. \A r \in rows : piece'[r.piece] = "SHIPPED"
  BY <1>1, <1>3, RowFields DEF RowsFit, RowsOf, PiecesOf
<1>6. \A q \in Orders : q # twoUnits => group'[q] = group[q]
  BY <1>1, <1>2, <1>3 DEF IInv, TypeOK
<1> QED BY <1>1, <1>4, <1>5, <1>6 DEF RowsFit, PlacesOnly

\* A request that goes on with nothing it read of the rows.
LEMMA FitsFree ==
  ASSUME NEW local, req'[only] = local, local.op \notin {"reserve", "release", "pick", "book"}
  PROVE  RequestFits(req[only])'
  BY DEF RequestFits

\* What a handler reads is so when it has read it.
LEMMA ReadFits ==
  ASSUME IInv,
         \/ ReleaseRead(only)
         \/ \E p \in Pieces : PickRead(only, p) \/ \E o \in Orders : ReserveRead(only, o, p)
         \/ \E o \in Orders, c \in Couriers : BookRead(only, o, c)
  PROVE  RequestFits(req[only])'
<1>1. UNCHANGED <<rows, piece, group>>
  BY DEF ReleaseRead, PickRead, ReserveRead, BookRead, rowVars
<1>2. TypeOK /\ \A r, s \in rows : r.id = s.id => r = s
  BY DEF IInv, RequestsStayValid, RowsAreIdentified
<1>3. CASE ReleaseRead(only)
  <2>1. PICK r \in rows : ~r.picked /\ Goto(only, [op |-> "release", row |-> r.id, piece |-> r.piece])
    BY <1>3 DEF ReleaseRead
  <2>2. req'[only] = [op |-> "release", row |-> r.id, piece |-> r.piece]
    BY <1>2, <2>1, OneGoes
  <2> QED BY <1>1, <1>2, <2>1, <2>2 DEF RequestFits
<1>4. ASSUME NEW p \in Pieces, PickRead(only, p) PROVE RequestFits(req[only])'
  <2>1. PICK r \in rows : ~r.picked /\ Goto(only, [op |-> "pick", row |-> r.id, piece |-> p])
    BY <1>4 DEF PickRead, OpenRows
  <2>2. req'[only] = [op |-> "pick", row |-> r.id, piece |-> p]
    BY <1>2, <2>1, OneGoes
  <2> QED BY <1>1, <1>2, <2>1, <2>2 DEF RequestFits
<1>5. ASSUME NEW p \in Pieces, NEW o \in Orders, ReserveRead(only, o, p)
      PROVE  RequestFits(req[only])'
  <2>1. /\ req'[only] = [op |-> "reserve", order |-> o, piece |-> p]
        /\ Cardinality(RowsOf(o)) < Qty[o]
    BY <1>2, <1>5, OneGoes DEF ReserveRead
  <2>2. RowsOf(o)' = RowsOf(o)
    BY <1>1 DEF RowsOf
  <2> QED BY <2>1, <2>2 DEF RequestFits
<1>6. ASSUME NEW o \in Orders, NEW c \in Couriers, BookRead(only, o, c)
      PROVE  RequestFits(req[only])'
  <2>1. req'[only] = [op |-> "book", order |-> o, courier |-> c] /\ IsFullyPicked(o)
    BY <1>2, <1>6, OneGoes DEF BookRead
  <2>2. IsFullyPicked(o)'
    BY <1>1, <2>1 DEF IsFullyPicked, RowsOf
  <2> QED BY <2>1, <2>2 DEF RequestFits
<1> QED BY <1>3, <1>4, <1>5, <1>6

\* Every step keeps what the order and the worker say.
LEMMA FitStep ==
  ASSUME IInv, RowsFit, RequestFits(req[only]), OneByOne, PlacesOnly(twoUnits)
  PROVE  RowsFit' /\ RequestFits(req[only])'
<1> DEFINE Picks == \A p \in Pieces : piece'[p] = "PICKED" => piece[p] = "PICKED"
<1>0. TypeOK /\ piece \in [Pieces -> PieceStatus \cup {None}] /\ Idle.op = "idle"
  BY DEF IInv, TypeOK, Idle
<1>1. ASSUME UNCHANGED <<rows, group>>, Picks, NEW local, req'[only] = local,
             local.op \notin {"reserve", "release", "pick", "book"}
      PROVE  RowsFit' /\ RequestFits(req[only])'
  BY <1>1, FitFrame, FitsFree
<1>2. ASSUME req[only] = Idle, NEW p \in Pieces,
             \/ Generate(p) \/ VoidPiece(p)
             \/ \E outcome \in {"GOOD", "DAMAGED"} :
                  ReceiveOne(p, outcome) \/ ReturnReceive(p, outcome)
      PROVE  RowsFit' /\ RequestFits(req[only])'
  <2>1. /\ UNCHANGED <<rows, group, req>>
        /\ \E to \in {"CREATED", "VOID", "IN_STOCK", "DAMAGED_INCOMING", "RETURNED_IN_STOCK",
                      "DAMAGED_RETURN"} : piece' = [piece EXCEPT ![p] = to]
    BY <1>2 DEF Generate, VoidPiece, ReceiveOne, ReturnReceive, rowVars
  <2>2. Picks
    BY <1>0, <2>1
  <2> QED BY <1>0, <1>1, <1>2, <2>1, <2>2
<1>3. ASSUME req[only] = Idle, NEW o \in Orders, PlaceOrder(o)
      PROVE  RowsFit' /\ RequestFits(req[only])'
  <2>1. UNCHANGED <<rows, group, req, piece>>
    BY <1>3 DEF PlaceOrder, rowVars
  <2> QED BY <1>0, <1>1, <1>3, <2>1
<1>4. ASSUME req[only] = Idle, NEW o \in Orders, CancelOrder(o)
      PROVE  RowsFit' /\ RequestFits(req[only])'
  <2>1. /\ UNCHANGED <<group, req>>
        /\ ApplyStatusChange(o, "CANCELLED", status[o], stockRestored[o])
    BY <1>4 DEF CancelOrder
  <2> QED BY <1>0, <1>4, <2>1, ApplyFits, FitsFree
<1>5. CASE ReserveCommit(only) \/ ReleaseCommit(only) \/ PickCommit(only)
           \/ \E f0 \in FirstShipment : BookCommit(only, f0)
  <2>1. req'[only] = Idle
    BY <1>0, <1>5, OneGoes DEF ReserveCommit, ReleaseCommit, PickCommit, BookCommit
  <2>2. RowsFit'
    BY <1>5, ReserveFits, ReleasePickFits, BookFits
  <2> QED BY <1>0, <2>1, <2>2, FitsFree
<1>6. CASE ApplyCommit(only)
  <2>1. PICK o, event, new, seen, restored :
          /\ ApplyStatusChange(o, new, seen, restored)
          /\ Goto(only, AfterSync(o, event)) /\ UNCHANGED group
    BY <1>6 DEF ApplyCommit
  <2>2. AfterSync(o, event).op \in {"idle", "cascade"}
    BY DEF AfterSync, Idle
  <2>3. RowsFit'
    BY <2>1, ApplyFits
  <2> QED BY <1>0, <2>1, <2>2, <2>3, OneGoes, FitsFree
<1>7. CASE Cascade(only)
  <2>1. PICK moved \in SUBSET Pieces, to \in {"DELIVERED", "RETURNING"} :
          piece' = [p \in Pieces |-> IF p \in moved THEN to ELSE piece[p]]
    <3>1. \A e : CascadeTo(e) \in {"DELIVERED", "RETURNING"}
      BY DEF CascadeTo
    <3>2. \A o : PiecesOf(RowsOf(o)) \subseteq Pieces
      BY RowFields DEF PiecesOf, RowsOf
    <3> QED BY <1>7, <3>1, <3>2 DEF Cascade
  <2>2. Picks
    BY <2>1
  <2>3. req'[only] = Idle /\ UNCHANGED <<rows, group>>
    BY <1>0, <1>7, OneGoes DEF Cascade, rowVars
  <2> QED BY <1>0, <1>1, <2>2, <2>3
<1>8. CASE Abort(only)
  <2>1. req'[only] = Idle /\ UNCHANGED <<rows, group, piece>>
    BY <1>0, <1>8, OneGoes DEF Abort, rowVars
  <2> QED BY <1>0, <1>1, <2>1
<1>9. CASE DeliverRead(only) \/ SyncRead(only)
  <2>1. UNCHANGED <<rows, group, piece>>
    BY <1>9 DEF DeliverRead, SyncRead, rowVars
  <2>2. PICK local : Goto(only, local) /\ local.op \in {"idle", "cascade", "apply"}
    <3>1. \E o, new, via, event :
            \/ Goto(only, AfterSync(o, event))
            \/ Goto(only, [op |-> "apply", order |-> o, new |-> new, seen |-> status[o],
                           restored |-> stockRestored[o], via |-> via, event |-> event])
      BY <1>9 DEF DeliverRead, SyncRead
    <3>2. PICK o, new, via, event :
            \/ Goto(only, AfterSync(o, event))
            \/ Goto(only, [op |-> "apply", order |-> o, new |-> new, seen |-> status[o],
                           restored |-> stockRestored[o], via |-> via, event |-> event])
      BY <3>1
    <3>3. AfterSync(o, event).op \in {"idle", "cascade"}
      BY DEF AfterSync, Idle
    <3>4. [op |-> "apply", order |-> o, new |-> new, seen |-> status[o],
           restored |-> stockRestored[o], via |-> via, event |-> event].op = "apply"
      OBVIOUS
    <3> QED BY <3>2, <3>3, <3>4
  <2> QED BY <1>0, <1>1, <2>1, <2>2, OneGoes
<1>10. ASSUME NEW o \in Orders, NEW new \in AdminStatuses, AdminStatusRead(only, o, new)
       PROVE  RowsFit' /\ RequestFits(req[only])'
  <2>1. UNCHANGED <<rows, group, piece>>
    BY <1>10 DEF AdminStatusRead, rowVars
  <2>2. PICK local : Goto(only, local) /\ local.op = "apply"
    BY <1>10 DEF AdminStatusRead
  <2> QED BY <1>0, <1>1, <2>1, <2>2, OneGoes
<1>11. ASSUME NEW o \in Orders, NEW c \in Couriers, NEW event,
              \/ CancelShipment(only, o, c) \/ PollRecord(only, o, c, event)
              \/ WebhookRecord(only, o, c, event) \/ ManualShipmentStatus(only, o, c, event)
       PROVE  RowsFit' /\ RequestFits(req[only])'
  <2>1. UNCHANGED <<rows, group, piece>>
    BY <1>11 DEF CancelShipment, WebhookRecord, PollRecord, ManualShipmentStatus, rowVars
  <2>2. PICK local : Goto(only, local) /\ local.op \in {"sync", "deliver", "idle"}
    <3>1. \/ \E e : Goto(only, [op |-> "sync", order |-> o, courier |-> c, event |-> e])
          \/ Goto(only, [op |-> "deliver", order |-> o])
          \/ Goto(only, Idle)
      BY <1>11 DEF CancelShipment, WebhookRecord, PollRecord, ManualShipmentStatus
    <3>2. /\ \A e : [op |-> "sync", order |-> o, courier |-> c, event |-> e].op = "sync"
          /\ [op |-> "deliver", order |-> o].op = "deliver"
      OBVIOUS
    <3> QED BY <1>0, <3>1, <3>2
  <2> QED BY <1>0, <1>1, <2>1, <2>2, OneGoes
<1>12. CASE \/ ReleaseRead(only)
            \/ \E p \in Pieces : PickRead(only, p) \/ \E o \in Orders : ReserveRead(only, o, p)
            \/ \E o \in Orders, c \in Couriers : BookRead(only, o, c)
  <2>1. UNCHANGED <<rows, group, piece>>
    BY <1>12 DEF ReleaseRead, PickRead, ReserveRead, BookRead, rowVars
  <2> QED BY <1>12, <2>1, FitFrame, ReadFits
<1> QED
  BY <1>2, <1>3, <1>4, <1>5, <1>6, <1>7, <1>8, <1>9, <1>10, <1>11, <1>12
  DEF OneByOne, Warehouse, OrderDesk, Serve

\* One request at a time, whatever its couriers report and however often it is
\* cancelled and reopened: a group that was shipped has its ordered units, all
\* picked, for as long as the order exists, and the units of an order go back on
\* sale at most once.
THEOREM OrdersAddUp == MCSpec => []OrdersAddUpAlone
<1> DEFINE Inv == setting = "couriers" => /\ IInv /\ FlagTells
                                          /\ RowsFit /\ RequestFits(req[only])
<1>1. MCInit => Inv
  <2> SUFFICES ASSUME Init PROVE IInv /\ FlagTells /\ RowsFit /\ RequestFits(req[only])
    BY DEF MCInit
  <2>1. req[only].op = "idle"
    BY RacesAssumption DEF Init, Idle, RacesAssumption
  <2>2. FlagTells
    <3>1. \A o \in Orders : restocks[o] = 0
      BY DEF Init
    <3> QED BY <2>1, <3>1 DEF FlagTells
  <2>3. RequestFits(req[only])
    BY <2>1 DEF RequestFits
  <2>4. RowsFit
    BY RacesAssumption, NoneIsOther DEF Init, RowsFit, RacesAssumption
  <2> QED BY <2>2, <2>3, <2>4, InitInv
<1>2. Inv /\ [MCNext]_<<vars, setting>> => Inv'
  <2> SUFFICES ASSUME Inv, [MCNext]_<<vars, setting>>, setting' = "couriers"
               PROVE  IInv' /\ FlagTells' /\ RowsFit' /\ RequestFits(req[only])'
    OBVIOUS
  <2>1. setting = "couriers"
    BY DEF MCNext
  <2>2. CASE UNCHANGED <<vars, setting>>
    <3>1. IInv'
      BY <2>1, <2>2, InvStep
    <3>2. FlagTells' /\ RowsFit' /\ RequestFits(req[only])'
      BY <2>1, <2>2
      DEF vars, FlagTells, RowsFit, RequestFits, IsFullyPicked, RowsOf
    <3> QED BY <3>1, <3>2
  <2>3. CASE MCNext
    <3>1. OneByOne /\ PlacesOnly(twoUnits)
      BY <2>1, <2>3 DEF MCNext
    <3>2. Next
      BY <3>1, RacesAssumption DEF OneByOne, Next, RacesAssumption
    <3>3. TypeOK
      BY <2>1 DEF IInv
    <3> QED BY <2>1, <3>1, <3>2, <3>3, InvStep, FlagStep, FitStep
  <2> QED BY <2>2, <2>3
<1>3. Inv => OrdersAddUpAlone
  <2> SUFFICES ASSUME Inv, setting = "couriers" PROVE ShippedGroupComplete /\ RestockedAtMostOnce
    BY DEF OrdersAddUpAlone
  <2>1. ShippedGroupComplete
    BY DEF RowsFit, ShippedGroupComplete
  <2>2. \A o \in Orders : restocks[o] \in {0, 1}
    BY DEF FlagTells
  <2> QED BY <2>1, <2>2 DEF RestockedAtMostOnce
<1> QED BY <1>1, <1>2, <1>3, PTL DEF MCSpec
=============================================================================
