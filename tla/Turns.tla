-------------------------------- MODULE Turns --------------------------------
(* The two settings handlers are checked in: requests that overlap, and     *)
(* requests that are served one at a time.                                  *)
EXTENDS Handling

VARIABLE overlap

Busy == {w \in Workers : ~At(w, "idle")}
InTurn == \A v, w \in Busy : v = w
=============================================================================
