------------------------------ MODULE Handling ------------------------------
(***************************************************************************)
(* What the models of request handlers have in common: the server can be   *)
(* in the middle of several requests, and remembers of each how far it is  *)
(* and what its handler has read.                                          *)
(***************************************************************************)

CONSTANTS
  Workers,  \* requests the server can be serving at once
  None      \* no row, no value

VARIABLE req  \* the request each worker is in the middle of

Idle == [at |-> "idle"]
At(w, step) == req[w].at = step
Goto(w, local) == req' = [req EXCEPT ![w] = local]
Answer(w) == req' = [req EXCEPT ![w] = Idle]
=============================================================================
