-------------------------- MODULE MCSocraticClient --------------------------
(* Small instances of SocraticClient. *)
EXTENDS SocraticClient, TLC

CallerSymmetry == Permutations(Callers)
=============================================================================
