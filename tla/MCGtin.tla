------------------------------- MODULE MCGtin -------------------------------
(* Instances of Gtin for TLC: at most two neighbouring digits are not 0.   *)
(* A weighted sum is linear, and a slip concerns two neighbours at most.   *)
EXTENDS Gtin

Neighbours(n) ==
    {[i \in 1..n |-> IF i = p THEN d ELSE IF i = p + 1 THEN e ELSE 0] :
       p \in 1..(n - 1), d \in Digits, e \in Digits}

MCBases == UNION {Neighbours(n - 1) : n \in Lengths}
=============================================================================
