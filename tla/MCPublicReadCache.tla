-------------------------- MODULE MCPublicReadCache --------------------------
(* The two settings PublicReadCache is checked in by TLC: crowded, with more *)
(* keys than the cache has room for and one write; and with few keys and two *)
(* writes, which overlap.  Liveness is checked, so there is no symmetry.     *)
EXTENDS PublicReadCache

CONSTANT few    \* the keys that are asked for where it is not crowded

ASSUME FewAssumption == few \subseteq Keys

VARIABLE crowded

MCInit == CacheInit /\ crowded \in BOOLEAN
MCNext ==
  /\ CacheNext /\ UNCHANGED crowded
  /\ IF crowded THEN db' <= 1 ELSE \A k \in Keys \ few : inFlight'[k] = Nothing
MCSpec ==
  MCInit /\ [][MCNext]_<<cacheVars, crowded>> /\ \A l \in Loads : WF_cacheVars(LoadStep(l))
=============================================================================
