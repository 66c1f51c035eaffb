---------------------------- MODULE MCCheckout ----------------------------
(* Small instances of Checkout for TLC: see the .cfg files.               *)
EXTENDS Checkout, TLC

Symmetry == Permutations(Plan)
=============================================================================
