------------------------------ MODULE MCListing ------------------------------
(* Instances of Listing for TLC.                                           *)
EXTENDS Listing

MCPages  == {-1, 0, 1}
MCLimits == {-1, 0, 1, 2, 3}

Interchangeable == Permutations(Docs)
=============================================================================
