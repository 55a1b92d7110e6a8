------------------------- MODULE MCFulfilmentRaces -------------------------
(* Fulfilment in two settings: one order of one unit, whose requests        *)
(* overlap; and one order of two units with two courier providers and the   *)
(* manual dropdown, whose requests are served one at a time, although any   *)
(* may die between its steps.                                               *)
EXTENDS MCFulfilment

CONSTANTS
  oneUnit, twoUnits, own,   \* two of the orders, one of the couriers
  only                      \* the worker that serves alone

ASSUME RacesAssumption == {oneUnit, twoUnits} \subseteq Orders /\ only \in Workers

\* The order oneUnit asks for one unit, the order twoUnits for two.
OneAndTwo == (oneUnit :> 1) @@ (twoUnits :> 2)

VARIABLE setting

\* With overlap one order is served, by the courier own, and by nobody's hand.
Overlap == INSTANCE Fulfilment WITH
  Orders <- {oneUnit}, Couriers <- {own},
  CourierEvents <- {"FAILED", "RETURNED"}, FirstShipment <- {"PENDING"}, AdminStatuses <- {}

\* Without, it is the other order, and all is done by one worker: the handlers of
\* a single step find it free.
OneByOne == Serve(only) \/ (req[only] = Idle /\ (Warehouse \/ OrderDesk))
PlacesOnly(o) == \A q \in Orders \ {o} : status'[q] = None

PiecesAlike == Permutations(Pieces)

MCInit == Init /\ setting \in {"overlap", "couriers"}
MCNext ==
  /\ UNCHANGED setting
  /\ \/ /\ setting = "overlap" /\ Overlap!Next
        /\ Cardinality({p \in Pieces : piece'[p] # None}) <= 2
     \/ setting = "couriers" /\ OneByOne /\ PlacesOnly(twoUnits)
MCSpec == MCInit /\ [][MCNext]_<<vars, setting>>

\* One request at a time, a shipped group is complete and an order is restocked
\* once.
OrdersAddUpAlone ==
  setting = "couriers" => ShippedGroupComplete /\ RestockedAtMostOnce
=============================================================================
