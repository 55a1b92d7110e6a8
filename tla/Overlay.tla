------------------------------ MODULE Overlay ------------------------------
(* One function laid over another.                                          *)

\* f, and where it says nothing g.
Over(f, g) ==
  [x \in DOMAIN f \cup DOMAIN g |-> IF x \in DOMAIN f THEN f[x] ELSE g[x]]
=============================================================================
