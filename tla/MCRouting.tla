------------------------------ MODULE MCRouting ------------------------------
(***************************************************************************)
(* The routes for model checking: two connections, one device.             *)
(***************************************************************************)
EXTENDS Routing, TLC

\* The connections are interchangeable.
Symm == Permutations(Conns)
=============================================================================
