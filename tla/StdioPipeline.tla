---------------------------- MODULE StdioPipeline ----------------------------
(***************************************************************************)
(* StdioPipeline of stdio.go: standard output is a buffer that a Write      *)
(* fills and flushes under writeMu, standard input a reader that cancels    *)
(* the server's context once, at the end of input or when it is closed.     *)
(* A bufio.Writer that has failed fails for good.                           *)
(***************************************************************************)
EXTENDS Naturals, Sequences

CONSTANTS
    Writers,    \* goroutines that write frames, and the one that flushes last
    None

VARIABLES
    out,    \* bufferedOut with its mutex: holder, bytes buffered, sticky error
    wire,   \* the frames the peer has received
    input   \* standard input and the once of its detector

OutInit == out = [mu |-> None, buf |-> <<>>, broken |-> FALSE]
PipelineInit == OutInit /\ wire = <<>> /\ input = [state |-> "open", fired |-> FALSE]

OutType(frame) ==
    /\ out.mu \in Writers \cup {None}
    /\ out.buf \in Seq(frame) /\ Len(out.buf) <= 1
    /\ wire \in Seq(frame)
    /\ input \in [state : {"open", "eof", "closed"}, fired : BOOLEAN]

(* autoFlusher.Write: under the mutex the frame is buffered *)
Write(w, frame) ==
    /\ out.mu = None
    /\ out' = [out EXCEPT !.mu = w, !.buf = IF out.broken THEN @ ELSE Append(@, frame)]
    /\ UNCHANGED <<wire, input>>

(* Flush: the mutex is taken, or was taken by Write. *)
Lock(w) ==
    /\ out.mu = None
    /\ out' = [out EXCEPT !.mu = w]
    /\ UNCHANGED <<wire, input>>

(* Mutant: the buffer is left for a later Write to flush. *)
LeavesBuffered(w) ==
    /\ out.mu = w /\ ~out.broken
    /\ out' = [out EXCEPT !.mu = None]
    /\ UNCHANGED <<wire, input>>

(* ... and flushed: Write returns without an error *)
FlushOK(w) ==
    /\ out.mu = w /\ ~out.broken
    /\ wire' = wire \o out.buf
    /\ out' = [out EXCEPT !.mu = None, !.buf = <<>>]
    /\ UNCHANGED input

(* Mutant: the error path returns with the mutex held. *)
FailsLocked(w) ==
    /\ out.mu = w
    /\ out' = [out EXCEPT !.broken = TRUE]
    /\ UNCHANGED <<wire, input>>

(* ... or the peer is gone, and Write returns the error it surfaces. *)
FlushFails(w) ==
    /\ out.mu = w
    /\ out' = [out EXCEPT !.mu = None, !.broken = TRUE]
    /\ UNCHANGED <<wire, input>>

(* eofDetector.Read *)
ReadEOF ==
    /\ input.state = "open"
    /\ input' = [state |-> "eof", fired |-> TRUE]
    /\ UNCHANGED <<out, wire>>

(* eofDetector.Close: cancel, once, then the descriptor, so that a Read in  *)
(* progress returns.                                                        *)
CloseInput ==
    /\ input.state # "closed"
    /\ input' = [state |-> "closed", fired |-> TRUE]
    /\ UNCHANGED <<out, wire>>
=============================================================================
