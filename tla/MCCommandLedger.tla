-------------------------- MODULE MCCommandLedger --------------------------
(* CommandLedger on small instances: the requests are interchangeable.     *)
EXTENDS CommandLedger, TLC

Symmetry == Permutations(Requests)
=============================================================================
