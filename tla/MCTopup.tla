------------------------------ MODULE MCTopup ------------------------------
(* The items are interchangeable.                                          *)
EXTENDS Topup, TLC

Symmetry == Permutations(Items)
=============================================================================
