----------------------------- MODULE Backplane ------------------------------
(***************************************************************************)
(* The circuit breaker of BackplaneClient.  Callers generate through one   *)
(* HTTP client; the breaker is an atomic flag and an atomic counter that   *)
(* the callers and a probe loop load and store one at a time, with no lock *)
(* around them, so each load and store is a step.                          *)
(***************************************************************************)
EXTENDS Naturals, FiniteSets

CONSTANTS
    Requesters,
    maxConsecutiveFailures

ASSUME BackplaneAssumption ==
    /\ maxConsecutiveFailures \in Nat \ {0}
    /\ IsFiniteSet(Requesters)

VARIABLES
    up,         \* the backplane answers
    available,  \* the breaker is closed
    failures,   \* consecutiveFailures
    probeNow,   \* the channel of capacity 1 holds a token
    probe,      \* where the probe loop is, and what it found
    request        \* request[c]: where the request of c is, and which attempt it is

backplaneVars == <<up, available, failures, probeNow, probe, request>>

(* How high the counter gets: past the threshold each caller counts at     *)
(* most once before it needs the flag again, and once more in the window   *)
(* in which a probe has stored the flag and not yet reset the counter.     *)
MaxFailures == maxConsecutiveFailures - 1 + 2 * Cardinality(Requesters)

BackplaneType ==
    /\ up \in BOOLEAN /\ available \in BOOLEAN /\ probeNow \in BOOLEAN
    /\ failures \in 0..MaxFailures
    /\ probe \in [pc : {"select", "send", "store", "reset", "done"}, ok : BOOLEAN]
    /\ request \in [Requesters ->
          [pc : {"idle", "send", "count", "trip", "nudge", "reset", "wait"}, attempt : {1, 2}]]

Waiting == [pc |-> "select", ok |-> FALSE]

NoRequest == [pc |-> "idle", attempt |-> 1]

BackplaneInit ==
    /\ up \in BOOLEAN
    /\ available = TRUE
    /\ failures = 0
    /\ probeNow = FALSE
    /\ probe = Waiting
    /\ request = [c \in Requesters |-> NoRequest]

Moves(c, pc) == request' = [request EXCEPT ![c].pc = pc]
Ends(c)     == request' = [request EXCEPT ![c] = NoRequest]

-----------------------------------------------------------------------------
(* generateWithRetry and doRequest *)

(* With the breaker open the caller gets ErrBackplaneUnavailable at once. *)
Generate(c) ==
    /\ request[c].pc = "idle"
    /\ available
    /\ Moves(c, "send")
    /\ UNCHANGED <<up, available, failures, probeNow, probe>>

NetworkError(c) ==
    /\ request[c].pc = "send" /\ ~up
    /\ Moves(c, "count")
    /\ UNCHANGED <<up, available, failures, probeNow, probe>>

(* The caller's own context ends the request: nothing is counted. *)
Cancelled(c) ==
    /\ request[c].pc \in {"send", "wait"}
    /\ Ends(c)
    /\ UNCHANGED <<up, available, failures, probeNow, probe>>

CountFailure(c) ==
    /\ request[c].pc = "count"
    /\ failures' = failures + 1
    /\ Moves(c, IF failures' >= maxConsecutiveFailures THEN "trip" ELSE "nudge")
    /\ UNCHANGED <<up, available, probeNow, probe>>

Trip(c) ==
    /\ request[c].pc = "trip"
    /\ available' = FALSE
    /\ Moves(c, "nudge")
    /\ UNCHANGED <<up, failures, probeNow, probe>>

(* The send on probeNow does not block. *)
Nudge(c) ==
    /\ request[c].pc = "nudge"
    /\ probeNow' = TRUE
    /\ Ends(c)
    /\ UNCHANGED <<up, available, failures, probe>>

Answered(c) ==
    /\ request[c].pc = "send" /\ up
    /\ Moves(c, "reset")
    /\ UNCHANGED <<up, available, failures, probeNow, probe>>

(* Any answer resets the counter; a first 429 with a delay is retried. *)
ResetFailures(c) ==
    /\ request[c].pc = "reset"
    /\ failures' = 0
    /\ \/ Ends(c)
       \/ request[c].attempt = 1 /\ Moves(c, "wait")
    /\ UNCHANGED <<up, available, probeNow, probe>>

(* The second attempt does not look at the breaker again. *)
RetryAfter(c) ==
    /\ request[c].pc = "wait"
    /\ request' = [request EXCEPT ![c] = [pc |-> "send", attempt |-> 2]]
    /\ UNCHANGED <<up, available, failures, probeNow, probe>>

-----------------------------------------------------------------------------
(* probeLoop *)

(* Mutant: without a ticker, only a failed request makes it probe. *)
NoTicker ==
    /\ probe.pc = "select" /\ probeNow
    /\ probeNow' = FALSE
    /\ probe' = [probe EXCEPT !.pc = "send"]
    /\ UNCHANGED <<up, available, failures, request>>

(* The ticker or a token. *)
ProbeDue ==
    /\ probe.pc = "select"
    /\ probeNow' \in {probeNow, FALSE}
    /\ probe' = [probe EXCEPT !.pc = "send"]
    /\ UNCHANGED <<up, available, failures, request>>

ProbeAnswer ==
    /\ probe.pc = "send"
    /\ probe' = [pc |-> "store", ok |-> up]
    /\ UNCHANGED <<up, available, failures, probeNow, request>>

(* Mutant: the counter is left as it is when the backplane is back. *)
KeepsCounter ==
    /\ probe.pc = "store"
    /\ available' = probe.ok
    /\ probe' = Waiting
    /\ UNCHANGED <<up, failures, probeNow, request>>

StoreAvailable ==
    /\ probe.pc = "store"
    /\ available' = probe.ok
    /\ probe' = IF probe.ok THEN [probe EXCEPT !.pc = "reset"] ELSE Waiting
    /\ UNCHANGED <<up, failures, probeNow, request>>

ProbeResets ==
    /\ probe.pc = "reset"
    /\ failures' = 0
    /\ probe' = Waiting
    /\ UNCHANGED <<up, available, probeNow, request>>

(* The server shuts down.  A probe under way ends first. *)
Shutdown ==
    /\ probe.pc = "select"
    /\ probe' = [probe EXCEPT !.pc = "done"]
    /\ UNCHANGED <<up, available, failures, probeNow, request>>

(* The backplane starts, stops, or stops answering. *)
BackplaneChanges ==
    /\ up' = ~up
    /\ UNCHANGED <<available, failures, probeNow, probe, request>>

-----------------------------------------------------------------------------
RequestStep(c) == \/ NetworkError(c) \/ CountFailure(c) \/ Trip(c) \/ Nudge(c)
              \/ Answered(c) \/ ResetFailures(c) \/ RetryAfter(c)

Probe == ProbeDue \/ ProbeAnswer \/ StoreAvailable \/ ProbeResets

BackplaneNext == \/ \E c \in Requesters : Generate(c) \/ Cancelled(c) \/ RequestStep(c)
        \/ Probe \/ Shutdown \/ BackplaneChanges

BackplaneSpec == BackplaneInit /\ [][BackplaneNext]_backplaneVars

(* The ticker fires, probes and requests end by their timeouts. *)
BackplaneFair ==
    BackplaneSpec /\ WF_backplaneVars(Probe)
                  /\ \A c \in Requesters : WF_backplaneVars(RequestStep(c))
-----------------------------------------------------------------------------
(* The flag and the counter agree whenever nobody is between the stores to *)
(* the two: a tripped counter goes with an open breaker                    *)
(* (backplane.go:190-196, 311-313).                                        *)
BreakerConsistent ==
    available /\ failures >= maxConsecutiveFailures
        => probe.pc = "reset" \/ \E c \in Requesters : request[c].pc = "trip"

(* A backplane that is back and stays is found, and failures counted late  *)
(* do not keep the breaker open; this needs no caller, who would not send  *)
(* anything (backplane.go:163-206).                                        *)
Recovers == <>[](up /\ probe.pc # "done") => <>[]available
=============================================================================
