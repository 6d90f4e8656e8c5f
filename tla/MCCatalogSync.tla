---------------------------- MODULE MCCatalogSync ----------------------------
(* Instances of CatalogSync for TLC.                                       *)
EXTENDS CatalogSync, TLC

CONSTANTS g1, n1, n2, p1, e1

MCClaims == {[userId |-> p1, role |-> "provider"], [userId |-> e1, role |-> "editor"]}
MCTrim   == [n \in {n1, n2} |-> n]
MCCreateInputs == {[gtin |-> g1, name |-> n1, status |-> None]}
MCUpdateInputs == {[Empty EXCEPT !.name = n2]}

Interchangeable == Permutations(Requests)
==============================================================================
