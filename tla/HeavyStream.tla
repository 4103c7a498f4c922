----------------------------- MODULE HeavyStream -----------------------------
(***************************************************************************)
(* The streams of package hfsc: StreamHeavyPayload answers the tool call    *)
(* at once and leaves a goroutine that turns a reader into numbered chunks, *)
(* each a Log notification of the session, and closes with a finalizer or   *)
(* an abort.  A Log call has a beginning and an outcome; what carries the   *)
(* notification to the peer is the business of another module, which joins *)
(* its steps with Say, LogReturns and LogFails.                             *)
(***************************************************************************)
EXTENDS Naturals

CONSTANTS
    Streams,    \* the streams a process may start
    MaxChunks   \* bound: chunks a reader holds

MaxChunksAssumption == MaxChunks \in Nat

VARIABLE stream     \* stream[s]: the goroutine of s

NoMessage == [kind |-> "none", index |-> 0]
Message   == [kind : {"chunk", "abort", "finalize"}, index : 0..MaxChunks]

(* pc "say": a notification is made; "log": session.Log is called with it. *)
Goroutine ==
    [pc      : {"idle", "loop", "say", "log", "ended"},
     index   : 0..MaxChunks,
     msg     : Message \cup {NoMessage},
     read    : {"data", "eof", "fault", "panic"},   \* what the last Read reported
     expired : BOOLEAN,                             \* streamTimeout has passed
     heard   : BOOLEAN]                             \* the last Log was accepted

StreamType == stream \in [Streams -> Goroutine]

StreamInit ==
    stream = [s \in Streams |->
                 [pc |-> "idle", index |-> 0, msg |-> NoMessage, read |-> "data",
                  expired |-> FALSE, heard |-> TRUE]]

Becomes(s, r) == stream' = [stream EXCEPT ![s] = r]

(* StreamHeavyPayload under an orchestrator: the goroutine is detached      *)
(* from the context of the call that started it.                            *)
StartStream(s) ==
    /\ stream[s].pc = "idle"
    /\ Becomes(s, [stream[s] EXCEPT !.pc = "loop"])

Expire(s) ==
    /\ stream[s].pc \notin {"idle", "ended"}
    /\ ~stream[s].expired
    /\ Becomes(s, [stream[s] EXCEPT !.expired = TRUE])

Says(r, kind) == [r EXCEPT !.pc = "say", !.msg = [kind |-> kind, index |-> r.index]]

(* The context is looked at between two chunks. *)
Cancelled(s) ==
    /\ stream[s].pc = "loop" /\ stream[s].expired
    /\ Becomes(s, Says(stream[s], "abort"))

(* What the loop does once Read has reported the end of the data. *)
Fault(r) == Says(r, "abort")

Closing(r) == IF r.read = "eof" THEN Says(r, "finalize") ELSE Fault(r)

(* A Read returns data, the end, a fault, or data along with either. *)
ReadChunk(s) ==
    /\ stream[s].pc = "loop" /\ ~stream[s].expired
    /\ \/ /\ stream[s].index < MaxChunks
          /\ \E what \in {"data", "eof", "fault"} :
                Becomes(s, Says([stream[s] EXCEPT !.read = what], "chunk"))
       \/ \E what \in {"eof", "fault"} :
                Becomes(s, Closing([stream[s] EXCEPT !.read = what]))

(* The reader panics: recover logs it and the goroutine is gone. *)
ReaderPanics(s) ==
    /\ stream[s].pc = "loop" /\ ~stream[s].expired
    /\ Becomes(s, [stream[s] EXCEPT !.pc = "ended", !.read = "panic"])

(* session.Log is called with the context of the goroutine, except that an  *)
(* abort that follows a timeout is sent with one that cannot end.           *)
Say(s) ==
    /\ stream[s].pc = "say"
    /\ Becomes(s, [stream[s] EXCEPT !.pc = "log"])

(* Mutant: a chunk is numbered like the one before it. *)
KeepsIndex(r) == [r EXCEPT !.heard = TRUE]

Counted(r) == [r EXCEPT !.index = @ + 1, !.heard = TRUE]

LogReturns(s) ==
    LET r == stream[s] IN
    /\ r.pc = "log"
    /\ \/ /\ r.msg.kind = "chunk" /\ r.read = "data"
          /\ Becomes(s, [Counted(r) EXCEPT !.pc = "loop"])
       \/ /\ r.msg.kind = "chunk" /\ r.read # "data"
          /\ Becomes(s, Closing(Counted(r)))
       \/ /\ r.msg.kind # "chunk"
          /\ Becomes(s, [r EXCEPT !.pc = "ended", !.heard = TRUE])

(* A chunk, a finalizer or an abort that cannot be sent ends the stream. *)
Unheard(s) == Becomes(s, [stream[s] EXCEPT !.pc = "ended", !.heard = FALSE])

LogFails(s) == stream[s].pc = "log" /\ Unheard(s)
=============================================================================
