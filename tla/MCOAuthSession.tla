--------------------------- MODULE MCOAuthSession ---------------------------
(* Small instances of OAuthSession: processes, and the goroutines of all   *)
(* processes, are interchangeable.                                         *)
EXTENDS OAuthSession, TLC

OAuthSymmetry == Permutations(Processes) \cup Permutations(Threads)
=============================================================================
