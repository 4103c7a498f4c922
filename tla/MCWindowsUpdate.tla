-------------------------- MODULE MCWindowsUpdate --------------------------
(* Updates of one executable, by every choice of the requests below. *)
EXTENDS WindowsUpdate

Req(tag, check, force, yes) == [tag |-> tag, check |-> check, force |-> force, yes |-> yes]

SomeRequests ==
    [Updaters -> {Req(None, FALSE, FALSE, FALSE), Req(None, FALSE, TRUE, TRUE),
                  Req(1, FALSE, FALSE, TRUE), Req(2, FALSE, TRUE, TRUE),
                  Req(None, TRUE, FALSE, FALSE), Req(None, TRUE, TRUE, FALSE)}]
=============================================================================
