---------------------------- MODULE MCSelfUpdate ----------------------------
(* Small instances of SelfUpdate: the updaters are interchangeable. *)
EXTENDS SelfUpdate, TLC

UpdaterSymmetry == Permutations(Updaters)
=============================================================================
