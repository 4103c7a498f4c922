------------------------------ MODULE ToolCalls ------------------------------
(***************************************************************************)
(* A tool call through the middleware of hardened.go, fastpath and hfsc:    *)
(* panic recovery and the mutex of a serialized tool around the             *)
(* interception of large outputs, around the routing of an output to an     *)
(* artifact file, around the server's own handler.                          *)
(***************************************************************************)
CONSTANTS
    Calls,          \* tool calls
    Tools, ToolOf,  \* the tool each call names
    Serialized,     \* the tools registered WithSerializedCalls
    Paths, PathOf,  \* artifact files; the path a call asks for, or None
    Orchestrated,   \* MCP_ORCHESTRATOR_OWNED
    None

ToolAssumption == ToolOf \in [Calls -> Tools] /\ Serialized \subseteq Tools
PathAssumption == PathOf \in [Calls -> Paths \cup {None}]
OrchestratedAssumption == Orchestrated \in BOOLEAN

VARIABLES
    call,       \* call[c]: the goroutine that serves c
    toolMu,     \* toolMu[t]: the call that holds the mutex of t
    temp,       \* temp[c]: the temporary file c made beside its artifact
    artifact    \* artifact[p]: what the file at p holds

callVars == <<call, toolMu, temp, artifact>>

(* Bytes of an encoded output: up to 2 MB, up to 64 MB, more; a zero value  *)
(* is what a middleware returns when it has taken the output elsewhere.     *)
Output == {"none", "small", "large", "huge", "zero"}

(* What the call returns: the handler's own result or error, the result of  *)
(* a recovered panic, the notice of an artifact or of a stream, or the text *)
(* of a standalone delivery.                                                *)
Result == {"none", "own", "error", "panic", "written", "streamed", "inline"}

Content == [by : Calls, whole : BOOLEAN]

CallNoneAssumption == None \notin Calls \cup Paths \cup Content

Goroutine == [pc : {"idle", "lock", "handle", "route", "encode", "rename", "intercept", "return",
                    "done"},
              output : Output, result : Result]

CallType ==
    /\ call \in [Calls -> Goroutine]
    /\ toolMu \in [Tools -> Calls \cup {None}]
    /\ temp \in [Calls -> {"none", "partial", "whole"}]
    /\ artifact \in [Paths -> Content \cup {None}]

CallInit ==
    /\ call = [c \in Calls |-> [pc |-> "idle", output |-> "none", result |-> "none"]]
    /\ toolMu = [t \in Tools |-> None]
    /\ temp = [c \in Calls |-> "none"]
    /\ artifact = [p \in Paths |-> None]

Step(c, pc) == call' = [call EXCEPT ![c].pc = pc]
Yields(c, pc, output, result) ==
    call' = [call EXCEPT ![c] = [pc |-> pc, output |-> output, result |-> result]]

-----------------------------------------------------------------------------
Invoke(c) ==
    /\ call[c].pc = "idle"
    /\ Step(c, IF ToolOf[c] \in Serialized THEN "lock" ELSE "handle")
    /\ UNCHANGED <<toolMu, temp, artifact>>

LockTool(c) ==
    /\ call[c].pc = "lock"
    /\ toolMu[ToolOf[c]] = None
    /\ toolMu' = [toolMu EXCEPT ![ToolOf[c]] = c]
    /\ Step(c, "handle")
    /\ UNCHANGED <<temp, artifact>>

(* The handler of the server returns an output of any size, or an error. *)
Handle(c) ==
    /\ call[c].pc = "handle"
    /\ \/ \E size \in {"small", "large", "huge"} : Yields(c, "route", size, "own")
       \/ Yields(c, "return", "none", "error")
    /\ UNCHANGED <<toolMu, temp, artifact>>

Released(c) == [t \in Tools |-> IF toolMu[t] = c THEN None ELSE toolMu[t]]

(* Mutant: the mutex is not released by a deferred call. *)
PanicsLocked(c) ==
    /\ call[c].pc = "handle"
    /\ Yields(c, "done", "none", "panic")
    /\ UNCHANGED <<toolMu, temp, artifact>>

(* It panics: the mutex is released, and the recovered panic is a result. *)
Panic(c) ==
    /\ call[c].pc = "handle"
    /\ Yields(c, "done", "none", "panic")
    /\ toolMu' = Released(c)
    /\ UNCHANGED <<temp, artifact>>

-----------------------------------------------------------------------------
(* tryArtifactFastPath: no path, or one outside the two allowed directories *)
(* once symbolic links are resolved, leaves the output as it is, and so     *)
(* does a directory or a temporary file that cannot be made.                *)
NotRouted(c) ==
    /\ call[c].pc = "route"
    /\ Step(c, "intercept")
    /\ UNCHANGED <<toolMu, temp, artifact>>

(* Mutant: the temporary file is named after the artifact alone. *)
SharesTemp(c) ==
    /\ call[c].pc = "route"
    /\ Orchestrated /\ PathOf[c] # None
    /\ temp' = [d \in Calls |-> IF PathOf[d] = PathOf[c] THEN "partial" ELSE temp[d]]
    /\ Step(c, "encode")
    /\ UNCHANGED <<toolMu, artifact>>

CreateTemp(c) ==
    /\ call[c].pc = "route"
    /\ Orchestrated /\ PathOf[c] # None
    /\ temp' = [temp EXCEPT ![c] = "partial"]
    /\ Step(c, "encode")
    /\ UNCHANGED <<toolMu, artifact>>

Removed(c) == temp' \in {temp, [temp EXCEPT ![c] = "none"]}

(* Encode, Sync and Close; the first error falls back to the JSON-RPC       *)
(* result, and removes the temporary file if it can.                        *)
Encode(c) ==
    /\ call[c].pc = "encode"
    /\ \/ /\ temp' = [temp EXCEPT ![c] = "whole"]
          /\ Step(c, "rename")
       \/ /\ Removed(c)
          /\ Step(c, "intercept")
    /\ UNCHANGED <<toolMu, artifact>>

Rename(c) ==
    /\ call[c].pc = "rename"
    /\ \/ /\ artifact' = [artifact EXCEPT ![PathOf[c]] =
                             [by |-> c, whole |-> temp[c] = "whole"]]
          /\ temp' = [temp EXCEPT ![c] = "none"]
          /\ Yields(c, "intercept", "zero", "written")
       \/ /\ Removed(c)
          /\ Step(c, "intercept")
          /\ UNCHANGED artifact
    /\ UNCHANGED toolMu

-----------------------------------------------------------------------------
(* WithAutoIntercept *)
Heavy(c) == Orchestrated /\ call[c].output \in {"large", "huge"}

NotIntercepted(c) ==
    /\ call[c].pc = "intercept"
    /\ ~Heavy(c)
    /\ Step(c, "return")
    /\ UNCHANGED <<toolMu, temp, artifact>>

(* Past the ceiling the output is refused. *)
Refuse(c) ==
    /\ call[c].pc = "intercept"
    /\ Heavy(c) /\ call[c].output = "huge"
    /\ Yields(c, "return", "zero", "error")
    /\ UNCHANGED <<toolMu, temp, artifact>>

(* The stream is started, in the action that joins this one. *)
Intercept(c) ==
    /\ call[c].pc = "intercept"
    /\ Heavy(c) /\ call[c].output = "large"
    /\ Yields(c, "return", "zero", "streamed")
    /\ UNCHANGED <<toolMu, temp, artifact>>

(* No session yet: up to 16 MB are delivered inline. *)
DeliverInline(c) ==
    /\ call[c].pc = "intercept"
    /\ Heavy(c) /\ call[c].output = "large"
    /\ Yields(c, "return", "zero", "inline")
    /\ UNCHANGED <<toolMu, temp, artifact>>

(* Too much for that, or no random session ID: the output stays as it is. *)
LeaveWhole(c) ==
    /\ call[c].pc = "intercept"
    /\ Heavy(c) /\ call[c].output = "large"
    /\ Step(c, "return")
    /\ UNCHANGED <<toolMu, temp, artifact>>

(* Nil-safety and the orchestrator's signal change what is in the result;   *)
(* the deferred calls release the mutex.                                    *)
Return(c) ==
    /\ call[c].pc = "return"
    /\ Step(c, "done")
    /\ toolMu' = Released(c)
    /\ UNCHANGED <<temp, artifact>>

Serve(c) ==
    \/ LockTool(c) \/ Handle(c) \/ Panic(c) \/ NotRouted(c) \/ CreateTemp(c) \/ Encode(c)
    \/ Rename(c) \/ NotIntercepted(c) \/ Refuse(c) \/ Return(c)
=============================================================================
