---------------------------- MODULE ServerProcess ----------------------------
(***************************************************************************)
(* A server process built from the pieces of the library: tool calls, the   *)
(* streams they leave behind, the stdio pipeline both write to, the log     *)
(* pipeline, and the main goroutine that connects, serves until the session *)
(* ends, flushes, and runs the deferred cleanup of the logs last.           *)
(***************************************************************************)
EXTENDS Naturals, Sequences, FiniteSets, SequencesExt

CONSTANTS
    Calls, Tools, ToolOf, Serialized, Paths, PathOf, Orchestrated,
    MaxChunks,
    Lines, Sinks, Capacity, LineSize, RingMax, RingTrim, Marker,
    Workloads,  \* bound: the calls made and lines logged together, and of the
                \* calls those with large outputs, their chunks, and those that get a
                \* temporary file
    None

ASSUME WorkloadsAssumption ==
    Workloads \subseteq [calls : SUBSET Calls, heavy : SUBSET Calls,
                         routed : SUBSET Calls, chunks : 1..MaxChunks, lines : SUBSET Lines]

VARIABLES
    call, toolMu, temp, artifact,
    stream,
    out, wire, input,
    record, begun, sink, ring, cleanup,
    reply,      \* reply[c]: the response of c: not yet, being written, written or not
    main,       \* the main goroutine
    load        \* the workload of this behaviour

Main  == <<"main", None>>
Reply(c) == <<"reply", c>>
Notice(c) == <<"notice", c>>

ASSUME NoneAssumption == \A c \in Calls : None \notin {Main, Reply(c), Notice(c)}

Streaming == INSTANCE HeavyStream WITH Streams <- Calls
Pipe == INSTANCE StdioPipeline WITH
    Writers <- {Main} \cup {Reply(c) : c \in Calls} \cup {Notice(c) : c \in Calls}
Logs == INSTANCE AsyncWriter
Tool == INSTANCE ToolCalls

ASSUME ComponentAssumptions ==
    /\ Streaming!MaxChunksAssumption
    /\ Logs!SinksAssumption /\ Logs!CapacityAssumption /\ Logs!MarkerAssumption
    /\ Logs!RingAssumption
    /\ Tool!ToolAssumption /\ Tool!PathAssumption /\ Tool!OrchestratedAssumption
    /\ Tool!CallNoneAssumption

pipeVars == <<out, wire, input>>
toolVars == <<call, toolMu, temp, artifact>>
logVars  == <<record, begun, sink, ring, cleanup>>
vars     == <<toolVars, stream, pipeVars, logVars, reply, main, load>>

Frame == [from : {Reply(c) : c \in Calls} \cup {Notice(c) : c \in Calls},
          msg  : Streaming!Message \cup {Streaming!NoMessage}]

TypeOK ==
    /\ Tool!CallType
    /\ Streaming!StreamType
    /\ Pipe!OutType(Frame)
    /\ Logs!LogType
    /\ reply \in [Calls -> {"none", "writing", "sent", "failed"}]
    /\ main \in {"connect", "serving", "closed", "flush", "cleanup", "exit"}
    /\ load \in Workloads

Init ==
    /\ Tool!CallInit
    /\ Streaming!StreamInit
    /\ Pipe!PipelineInit
    /\ Logs!LogInit
    /\ reply = [c \in Calls |-> "none"]
    /\ main = "connect"
    /\ load \in Workloads

-----------------------------------------------------------------------------
(* A request can be served before Serve has stored the session it is on. *)
Accept(c) ==
    /\ c \in load.calls /\ main \in {"connect", "serving"}
    /\ Tool!Invoke(c)
    /\ UNCHANGED <<stream, pipeVars, logVars, reply, main, load>>

ServeCall(c) ==
    /\ Tool!Serve(c)
    /\ call'[c].output \in {"large", "huge"} => c \in load.heavy
    /\ temp'[c] # "none" => c \in load.routed
    /\ UNCHANGED <<stream, pipeVars, logVars, reply, main, load>>

(* Without a session to stream on, the output is delivered inline. *)
DeliverStandalone(c) ==
    /\ main = "connect"
    /\ Tool!DeliverInline(c)
    /\ UNCHANGED <<stream, pipeVars, logVars, reply, main, load>>

NoSessionID(c) ==
    /\ Tool!LeaveWhole(c)
    /\ UNCHANGED <<stream, pipeVars, logVars, reply, main, load>>

StreamHeavyPayload(c) ==
    /\ main # "connect"
    /\ Tool!Intercept(c)
    /\ Streaming!StartStream(c)
    /\ UNCHANGED <<pipeVars, logVars, reply, main, load>>

(* The SDK writes the response, and refuses once the session has ended. *)
WriteReply(c) ==
    /\ call[c].pc = "done" /\ reply[c] = "none"
    /\ \/ /\ main \in {"connect", "serving"}
          /\ Pipe!Write(Reply(c), [from |-> Reply(c), msg |-> Streaming!NoMessage])
          /\ reply' = [reply EXCEPT ![c] = "writing"]
       \/ /\ main \notin {"connect", "serving"}
          /\ reply' = [reply EXCEPT ![c] = "failed"]
          /\ UNCHANGED pipeVars
    /\ UNCHANGED <<toolVars, stream, logVars, main, load>>

ReplyWritten(c) ==
    /\ reply[c] = "writing"
    /\ \/ Pipe!FlushOK(Reply(c)) /\ reply' = [reply EXCEPT ![c] = "sent"]
       \/ Pipe!FlushFails(Reply(c)) /\ reply' = [reply EXCEPT ![c] = "failed"]
    /\ UNCHANGED <<toolVars, stream, logVars, main, load>>

-----------------------------------------------------------------------------
RunStream(s) ==
    /\ Streaming!Cancelled(s) \/ Streaming!ReadChunk(s) \/ Streaming!ReaderPanics(s)
    /\ stream'[s].msg.kind = "chunk" => stream[s].index < load.chunks
    /\ UNCHANGED <<toolVars, pipeVars, logVars, reply, main, load>>

ExpireStream(s) ==
    /\ Streaming!Expire(s)
    /\ UNCHANGED <<toolVars, pipeVars, logVars, reply, main, load>>

Notify(s) ==
    /\ main = "serving"
    /\ Streaming!Say(s)
    /\ Pipe!Write(Notice(s), [from |-> Notice(s), msg |-> stream[s].msg])
    /\ UNCHANGED <<toolVars, logVars, reply, main, load>>

(* Mutant: it is sent with the context that has expired. *)
Attached(s) == FALSE

(* The abort of a timeout is sent with a context that cannot end. *)
Detached(s) == stream[s].msg.kind = "abort" /\ stream[s].read = "data"

(* The session refuses: it has ended, or the context of the call has. *)
Refused(s) ==
    /\ main # "serving" \/ (stream[s].expired /\ ~Detached(s))
    /\ stream[s].pc = "say"
    /\ Streaming!Unheard(s)
    /\ UNCHANGED <<toolVars, pipeVars, logVars, reply, main, load>>

Notified(s) ==
    /\ \/ Streaming!LogReturns(s) /\ Pipe!FlushOK(Notice(s))
       \/ Streaming!LogFails(s) /\ Pipe!FlushFails(Notice(s))
    /\ UNCHANGED <<toolVars, logVars, reply, main, load>>

-----------------------------------------------------------------------------
LogLine ==
    /\ \/ \E l \in load.lines : Logs!Log(l)
       \/ \E k \in 1..Sinks : Logs!Logging(k)
       \/ Logs!WriteRing
    /\ UNCHANGED <<toolVars, stream, pipeVars, reply, main, load>>

RunWorker(k) ==
    /\ Logs!Worker(k)
    /\ UNCHANGED <<toolVars, stream, pipeVars, reply, main, load>>

-----------------------------------------------------------------------------
EndOfInput ==
    /\ Pipe!ReadEOF
    /\ UNCHANGED <<toolVars, stream, logVars, reply, main, load>>

(* MCPServer.Serve: Connect, then the session is stored and waited for. *)
Connected ==
    /\ main = "connect"
    /\ main' = "serving"
    /\ UNCHANGED <<toolVars, stream, pipeVars, logVars, reply, load>>

(* The input has ended or the output is broken: the SDK closes the transport. *)
SessionEnds ==
    /\ main = "serving"
    /\ input.state = "eof" \/ out.broken
    /\ Pipe!CloseInput
    /\ main' = "closed"
    /\ UNCHANGED <<toolVars, stream, logVars, reply, load>>

(* StdioPipeline.Flush, which every server must call before it exits. *)
FinalFlush ==
    /\ main = "closed"
    /\ Pipe!Lock(Main)
    /\ main' = "flush"
    /\ UNCHANGED <<toolVars, stream, logVars, reply, load>>

Flushed ==
    /\ main = "flush"
    /\ Pipe!FlushOK(Main) \/ Pipe!FlushFails(Main)
    /\ main' = "cleanup"
    /\ UNCHANGED <<toolVars, stream, logVars, reply, load>>

CleanUpLogs ==
    /\ main = "cleanup"
    /\ \/ Logs!StartCleanup
       \/ \E k \in 1..Sinks : Logs!CloseWriter(k) \/ Logs!CloseFile(k)
    /\ UNCHANGED <<toolVars, stream, pipeVars, reply, main, load>>

Exit ==
    /\ main = "cleanup" /\ Logs!CleanedUp
    /\ main' = "exit"
    /\ UNCHANGED <<toolVars, stream, pipeVars, logVars, reply, load>>

Shutdown == SessionEnds \/ FinalFlush \/ Flushed \/ CleanUpLogs \/ Exit

Next ==
    /\ main # "exit"
    /\ \/ \E c \in Calls :
             \/ Accept(c) \/ ServeCall(c) \/ DeliverStandalone(c) \/ NoSessionID(c)
             \/ StreamHeavyPayload(c) \/ WriteReply(c) \/ ReplyWritten(c)
             \/ RunStream(c) \/ ExpireStream(c) \/ Notify(c) \/ Refused(c) \/ Notified(c)
       \/ LogLine \/ \E k \in 1..Sinks : RunWorker(k)
       \/ EndOfInput \/ Connected \/ Shutdown

Spec == Init /\ [][Next]_vars

(* The handlers of tools return, writes to standard output and to the files *)
(* of the logs end, and the main goroutine runs.  Calls and their writes    *)
(* are finitely many, so that fairness to one of them is enough.  Nothing   *)
(* is assumed of the peer, of readers or of loggers.                        *)
Serving ==
    main # "exit" /\ \E c \in Calls : ServeCall(c) \/ NoSessionID(c) \/ StreamHeavyPayload(c)
Writing == main # "exit" /\ \E c \in Calls : ReplyWritten(c) \/ Notified(c)
Draining == main # "exit" /\ \E k \in 1..Sinks : RunWorker(k)

FairSpec ==
    Spec /\ WF_vars(Serving) /\ WF_vars(Writing) /\ WF_vars(Draining)
         /\ WF_vars(Connected \/ Shutdown)

-----------------------------------------------------------------------------
Sent(s) == {i \in DOMAIN wire : wire[i].from = Notice(s)}
Told(s) == \E i \in DOMAIN wire :
              wire[i].from = Notice(s) /\ wire[i].msg.kind \in {"abort", "finalize"}

(* What a peer receives of a stream can be put together (dispatch.go): its  *)
(* chunks are numbered from 0 without a gap, whatever is written between    *)
(* them, and nothing follows the finalizer or the abort, which gives their  *)
(* number; a finalizer comes only after the reader's end.                   *)
StreamInOrder ==
    \A s \in Calls : \A i \in Sent(s) :
        LET before == {j \in Sent(s) : j < i} IN
        /\ wire[i].msg.index = Cardinality(before)
        /\ \A j \in before : wire[j].msg.kind = "chunk"
        /\ wire[i].msg.kind = "finalize" => stream[s].read = "eof"

(* What excuses a stream that leaves the peer waiting: there is no session  *)
(* to tell it on, or the time ran out in the middle of a chunk, a finalizer *)
(* or the abort of a reader that failed.                                    *)
Excused(s) ==
    \/ main # "serving" \/ out.broken
    \/ stream[s].expired /\ (stream[s].msg.kind # "abort" \/ stream[s].read # "data")

(* A stream whose goroutine has ended has told the peer so (emitAbort,      *)
(* dispatch.go:72), unless its reader panicked or its last notification was *)
(* refused for one of these reasons: a stream that finds its time is up     *)
(* between two chunks is heard, since that abort is sent with a context     *)
(* that has not expired (dispatch.go:168).                                  *)
EndAnnounced ==
    \A s \in Calls :
        stream[s].pc = "ended" /\ stream[s].read # "panic" =>
            Told(s) \/ (~stream[s].heard /\ Excused(s))

(* An artifact is all or nothing (writeArtifactAtomic, fastpath.go:94): at  *)
(* every moment, and so after a kill, the path holds no part of an output,  *)
(* and a call that reported its artifact finds it there, or finds the one a *)
(* later call for the same path reported.                                   *)
ArtifactReported ==
    /\ \A p \in Paths : artifact[p] # None => artifact[p].whole
    /\ \A c \in Calls :
          call[c].result = "written" =>
              /\ artifact[PathOf[c]] # None
              /\ call[artifact[PathOf[c]].by].result = "written"

(* The lines a cleanup accounts for (logging.go:199): when a worker is      *)
(* done, every line whose Write had returned before Close is in its file or *)
(* was counted as dropped; and the file outlives the worker.                *)
LinesAccounted ==
    \A k \in 1..Sinks :
        /\ sink[k].worker = "done" => sink[k].due \subseteq ToSet(sink[k].file) \cup sink[k].dropped
        /\ ~sink[k].open => sink[k].worker = "done"

(* The log buffer keeps its limit (logbuffer.go:83) whatever is logged, or  *)
(* holds a marker and less than the trim target, which is more than the     *)
(* limit only when the two are closer than the marker is long.              *)
RingBounded ==
    \/ Logs!Size(ring) <= RingMax
    \/ Logs!Size(ring) < LineSize[Marker] + RingTrim

(* A call returns whatever the call before it did: a handler that panics    *)
(* does not keep the mutex of its tool (hardened.go:140, 171).              *)
CallsReturn ==
    \A c \in Calls : call[c].pc = "lock" ~> call[c].pc = "done" \/ main = "exit"

(* The end of the input ends the process: every step of the shutdown comes  *)
(* to its end, whatever calls, streams and loggers are doing.               *)
ShutdownCompletes == input.state = "eof" ~> main = "exit"
=============================================================================
