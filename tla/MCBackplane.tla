---------------------------- MODULE MCBackplane -----------------------------
(* Small instances of Backplane. *)
EXTENDS Backplane
=============================================================================
