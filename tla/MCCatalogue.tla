---------------------------- MODULE MCCatalogue ----------------------------
(* Values of the constants of Catalogue for TLC, and the two settings it is  *)
(* checked in: one size has barcodes from the start and the others may get   *)
(* them, and nothing is ever tracked by barcode.  Both start at full price.  *)
(* With barcodes stock moves once.                                           *)
EXTENDS Catalogue

CONSTANTS a, b
VARIABLE barcodes

\* A size at full price, and one with a discount.
FullOrReduced == {[base |-> 2, price |-> 2], [base |-> 2, price |-> 1]}

MCInit ==
  /\ CatalogueInit
  /\ barcodes \in BOOLEAN
  /\ tracked = IF barcodes THEN {a} ELSE {}
  /\ \A s \in Sizes : pricing[s].price = pricing[s].base
MCNext ==
  /\ CatalogueNext /\ UNCHANGED barcodes
  /\ IF barcodes THEN moves' <= 1 ELSE tracked' = {}
MCSpec == MCInit /\ [][MCNext]_<<catalogueVars, barcodes>> /\ CatalogueFairness
=============================================================================
