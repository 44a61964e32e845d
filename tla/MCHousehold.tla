----------------------------- MODULE MCHousehold ----------------------------
(* Household on a small instance. The clients may send any mix of requests:  *)
(* no request is told from another, which is the symmetry.                   *)
EXTENDS Household, TLC

Symmetry == Permutations(Requests)
=============================================================================
