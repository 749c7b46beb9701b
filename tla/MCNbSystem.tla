----------------------------- MODULE MCNbSystem -----------------------------
(* NbSystem with what a configuration file cannot express. *)
EXTENDS NbSystem, TLC

ClientSymmetry == Permutations(Clients)
=============================================================================
