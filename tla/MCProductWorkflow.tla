-------------------------- MODULE MCProductWorkflow --------------------------
(* Instances of ProductWorkflow for TLC.                                   *)
EXTENDS ProductWorkflowProofs, TLC

CONSTANTS g1, g2, n1, n2, n1pad, p1, p2, e1

MCGtins  == {g1, g2}
MCNames  == {n1, n2, n1pad}
MCTrim   == [n \in MCNames |-> IF n = n1pad THEN n1 ELSE n]
MCUsers  == {p1, p2, e1}
MCClaims == {[userId |-> p1, role |-> "provider"],
             [userId |-> p2, role |-> "provider"],
             [userId |-> e1, role |-> "editor"]}
MCCreateInputs == {[gtin |-> g, name |-> n1, status |-> None] : g \in MCGtins}
MCUpdateInputs == {[Empty EXCEPT !.name = n2], [Empty EXCEPT !.name = n1pad],
                   [Empty EXCEPT !.gtin = g2]}

Interchangeable == Permutations(Requests) \union Permutations(Ids)
==============================================================================
