--------------------------- MODULE PieceLifecycle ---------------------------
(***************************************************************************)
(* What the warehouse is promised about one barcoded unit, whatever the    *)
(* requests behind it: the life cycle of PieceStatus, one action per       *)
(* physical event.  A step may move several pieces of one order at once.   *)
(***************************************************************************)
EXTENDS Statuses

CONSTANTS
  Pieces,   \* barcodes
  None      \* not generated yet

VARIABLE piece

Init == piece = [p \in Pieces |-> None]

\* The pieces of S, all in one of the statuses from, move to status to.
Move(S, from, to) ==
  /\ \A p \in S : piece[p] \in from
  /\ piece' = [p \in Pieces |-> IF p \in S THEN to ELSE piece[p]]

PrintLabel(p) == Move({p}, {None}, "CREATED")
Receive(p) == \E to \in {"IN_STOCK", "DAMAGED_INCOMING"} : Move({p}, {"CREATED"}, to)
Void(p) == Move({p}, {"CREATED"}, "VOID")
Reserve(p) == Move({p}, Sellable, "RESERVED")
Pick(p) == Move({p}, {"RESERVED"}, "PICKED")
Unreserve(S) == Move(S, Claimed, "IN_STOCK")
Ship(S) == Move(S, {"PICKED", "SHIPPED"}, "SHIPPED")
Deliver(S) == Move(S, {"SHIPPED"}, "DELIVERED")
SendBack(S) == Move(S, {"SHIPPED", "DELIVERED"}, "RETURNING")
ScanReturn(p) ==
  \E to \in {"RETURNED_IN_STOCK", "DAMAGED_RETURN"} : Move({p}, {"RETURNING"}, to)

Next ==
  \/ \E p \in Pieces :
       \/ PrintLabel(p) \/ Receive(p) \/ Void(p) \/ Reserve(p) \/ Pick(p)
       \/ ScanReturn(p)
  \/ \E S \in SUBSET Pieces :
       Unreserve(S) \/ Ship(S) \/ Deliver(S) \/ SendBack(S)

Spec == Init /\ [][Next]_piece
=============================================================================
