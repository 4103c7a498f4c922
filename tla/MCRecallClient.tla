--------------------------- MODULE MCRecallClient ---------------------------
(* Small instances of RecallClient: the events of one session. *)
EXTENDS RecallClient

CONSTANT s1

OneShard == [e \in Events |-> s1]
=============================================================================
