---------------------------- MODULE RecallClient ----------------------------
(***************************************************************************)
(* The telemetry client of package mcplib: callers of SaveToRecall put     *)
(* events into bounded shard queues, one flusher per shard sends them to   *)
(* the recall server with retries, Start keeps the connection up, and      *)
(* Close stops all of them.                                                *)
(*                                                                         *)
(* An event is one SaveToRecall call; its shard is a hash of its session   *)
(* id, so that all events of a session share one.  The retries of a flush  *)
(* and the capacity of a queue are parameters (15 and 2048 in the code).   *)
(***************************************************************************)
EXTENDS Naturals, Sequences

CONSTANTS
    Events, Shards,
    ShardOf,     \* the shard of each event
    Capacity,    \* of a shard's queue
    Retries,     \* attempts of one flush
    None,        \* no event in the hands of a flusher
    Reliable     \* TRUE: the connection is up and calls fail only when cancelled

ASSUME RecallAssumption ==
    /\ ShardOf \in [Events -> Shards]
    /\ Capacity \in Nat \ {0} /\ Retries \in Nat \ {0}
    /\ None \notin Events
    /\ Reliable \in BOOLEAN

VARIABLES
    caller,     \* caller[e]: where the call that saves e is
    queue,      \* queue[s]: telemetryShards[s]
    worker,     \* worker[s]: the flusher of shard s
    link,       \* Start, c.session and c.recallEnabled
    ctxDone,    \* the context of Start is done
    closing,    \* where Close is
    order,      \* order[s]: the events queued in s so far, in that order
    saved,      \* the events the server has executed
    exhausted   \* the events whose every attempt failed

vars == <<caller, queue, worker, link, ctxDone, closing, order, saved, exhausted>>

Calls    == {"idle", "checked", "accepted", "shed", "refused"}
Flusher  == [pc : {"idle", "flush", "calling", "reply", "wait", "exited"},
             event : Events \cup {None}, tries : 0..Retries]
Idle     == [pc |-> "idle", event |-> None, tries |-> 0]
Link     == [pc : {"connect", "assign", "enable", "up", "pause", "returned"},
             session : {"none", "live", "dead"}, enabled : BOOLEAN]
Closing  == {"open", "rejecting", "waiting", "drained", "timedOut", "closed"}

TypeOK ==
    /\ caller \in [Events -> Calls]
    /\ queue \in [Shards -> Seq(Events)]
    /\ \A s \in Shards : Len(queue[s]) <= Capacity
    /\ worker \in [Shards -> Flusher]
    /\ link \in Link
    /\ ctxDone \in BOOLEAN
    /\ closing \in Closing
    /\ order \in [Shards -> Seq(Events)]
    /\ saved \subseteq Events
    /\ exhausted \subseteq Events

Init ==
    /\ caller = [e \in Events |-> "idle"]
    /\ queue = [s \in Shards |-> <<>>]
    /\ worker = [s \in Shards |-> Idle]
    /\ link = IF Reliable THEN [pc |-> "up", session |-> "live", enabled |-> TRUE]
                          ELSE [pc |-> "connect", session |-> "none", enabled |-> FALSE]
    /\ ctxDone = FALSE
    /\ closing = "open"
    /\ order = [s \in Shards |-> <<>>]
    /\ saved = {}
    /\ exhausted = {}

(* Close has set closed; Close has cancelled the lifecycle context. *)
Closed    == closing # "open"
Cancelled == closing \notin {"open", "rejecting"}

-----------------------------------------------------------------------------
(* SaveToRecallWithNamespace: the closed flag is read, then the event is   *)
(* offered to the queue, with no lock between the two.                     *)
CheckOpen(e) ==
    /\ caller[e] = "idle"
    /\ caller' = [caller EXCEPT ![e] = IF Closed THEN "refused" ELSE "checked"]
    /\ UNCHANGED <<queue, worker, link, ctxDone, closing, order, saved, exhausted>>

Enqueue(e) ==
    LET s == ShardOf[e] IN
    /\ caller[e] = "checked"
    /\ Len(queue[s]) < Capacity
    /\ queue' = [queue EXCEPT ![s] = Append(@, e)]
    /\ order' = [order EXCEPT ![s] = Append(@, e)]
    /\ caller' = [caller EXCEPT ![e] = "accepted"]
    /\ UNCHANGED <<worker, link, ctxDone, closing, saved, exhausted>>

Shed(e) ==
    /\ caller[e] = "checked"
    /\ Len(queue[ShardOf[e]]) = Capacity
    /\ caller' = [caller EXCEPT ![e] = "shed"]
    /\ UNCHANGED <<queue, worker, link, ctxDone, closing, order, saved, exhausted>>

-----------------------------------------------------------------------------
(* workerFlusher and flushEvent.  The loop of a live client and the drain  *)
(* of a cancelled one take the next event the same way.                    *)
Receive(s) ==
    /\ worker[s].pc = "idle"
    /\ queue[s] # <<>>
    /\ worker' = [worker EXCEPT ![s] = [pc |-> "flush", event |-> Head(queue[s]), tries |-> 1]]
    /\ queue' = [queue EXCEPT ![s] = Tail(@)]
    /\ UNCHANGED <<caller, link, ctxDone, closing, order, saved, exhausted>>

(* Mutant: the flusher ranges over its channel, which nothing closes. *)
RangesOverQueue(s) == FALSE /\ worker[s].pc = "idle" /\ UNCHANGED vars

Exit(s) ==
    /\ worker[s].pc = "idle"
    /\ Cancelled
    /\ queue[s] = <<>>
    /\ worker' = [worker EXCEPT ![s].pc = "exited"]
    /\ UNCHANGED <<caller, queue, link, ctxDone, closing, order, saved, exhausted>>

Becomes(s, pc) == worker' = [worker EXCEPT ![s].pc = pc]

(* The circuit breaker is open: the attempt fails without a call. *)
Unavailable(s) ==
    /\ worker[s].pc = "flush"
    /\ ~link.enabled
    /\ Becomes(s, "wait")
    /\ UNCHANGED <<caller, queue, link, ctxDone, closing, order, saved, exhausted>>

(* A call made under a cancelled context fails, whether or not its request *)
(* reached the server.                                                     *)
CallCancelled(s) ==
    /\ worker[s].pc = "flush"
    /\ link.enabled /\ Cancelled
    /\ saved' \in {saved} \cup (IF link.session = "live" THEN {saved \cup {worker[s].event}} ELSE {})
    /\ Becomes(s, "wait")
    /\ UNCHANGED <<caller, queue, link, ctxDone, closing, order, exhausted>>

Call(s) ==
    /\ worker[s].pc = "flush"
    /\ link.enabled /\ ~Cancelled
    /\ Becomes(s, "calling")
    /\ UNCHANGED <<caller, queue, link, ctxDone, closing, order, saved, exhausted>>

(* save_to_recall is executed by the server. *)
Served(s) ==
    /\ worker[s].pc = "calling"
    /\ link.session = "live"
    /\ saved' = saved \cup {worker[s].event}
    /\ Becomes(s, "reply")
    /\ UNCHANGED <<caller, queue, link, ctxDone, closing, order, exhausted>>

Replied(s) ==
    /\ worker[s].pc = "reply"
    /\ worker' = [worker EXCEPT ![s] = Idle]
    /\ UNCHANGED <<caller, queue, link, ctxDone, closing, order, saved, exhausted>>

(* The 30 s timeout, a lost session, a tool error, the lifecycle context. *)
CallFails(s) ==
    /\ worker[s].pc \in {"calling", "reply"}
    /\ ~Reliable \/ Cancelled
    /\ Becomes(s, "wait")
    /\ UNCHANGED <<caller, queue, link, ctxDone, closing, order, saved, exhausted>>

(* Mutant: a failed event goes to the back of the queue. *)
Requeues(s) ==
    /\ worker[s].pc = "wait"
    /\ Len(queue[s]) < Capacity
    /\ queue' = [queue EXCEPT ![s] = Append(@, worker[s].event)]
    /\ worker' = [worker EXCEPT ![s] = Idle]
    /\ UNCHANGED <<caller, link, ctxDone, closing, order, saved, exhausted>>

(* Mutant: one failure is enough to give an event up. *)
NeverRetries(s) ==
    /\ worker[s].pc = "wait"
    /\ worker' = [worker EXCEPT ![s] = Idle]
    /\ UNCHANGED <<caller, queue, link, ctxDone, closing, order, saved, exhausted>>

Retry(s) ==
    /\ worker[s].pc = "wait"
    /\ worker[s].tries < Retries
    /\ worker' = [worker EXCEPT ![s].pc = "flush", ![s].tries = @ + 1]
    /\ UNCHANGED <<caller, queue, link, ctxDone, closing, order, saved, exhausted>>

GiveUp(s) ==
    /\ worker[s].pc = "wait"
    /\ worker[s].tries = Retries
    /\ exhausted' = exhausted \cup {worker[s].event}
    /\ worker' = [worker EXCEPT ![s] = Idle]
    /\ UNCHANGED <<caller, queue, link, ctxDone, closing, order, saved>>

(* The backoff of a cancelled client ends the flush. *)
Abandon(s) ==
    /\ worker[s].pc = "wait"
    /\ Cancelled
    /\ worker' = [worker EXCEPT ![s] = Idle]
    /\ UNCHANGED <<caller, queue, link, ctxDone, closing, order, saved, exhausted>>

-----------------------------------------------------------------------------
(* Start.  Its context ends with its parent, or by an AfterFunc some time  *)
(* after Close cancelled the lifecycle context.                            *)
EndContext ==
    /\ ~ctxDone
    /\ ~Reliable \/ Cancelled
    /\ ctxDone' = TRUE
    /\ UNCHANGED <<caller, queue, worker, link, closing, order, saved, exhausted>>

flushVars == <<caller, queue, worker, order, saved, exhausted>>

Connect ==
    /\ link.pc = "connect" /\ ~ctxDone
    /\ link' \in {[link EXCEPT !.pc = "assign"],
                  [link EXCEPT !.pc = "pause", !.enabled = FALSE]}
    /\ UNCHANGED <<flushVars, ctxDone, closing>>

Assign ==
    /\ link.pc = "assign"
    /\ link' = [link EXCEPT !.pc = "enable", !.session = "live"]
    /\ UNCHANGED <<flushVars, ctxDone, closing>>

Enable ==
    /\ link.pc = "enable"
    /\ link' = [link EXCEPT !.pc = "up", !.enabled = TRUE]
    /\ UNCHANGED <<flushVars, ctxDone, closing>>

(* The server goes away. *)
Crash ==
    /\ ~Reliable
    /\ link.session = "live"
    /\ link' = [link EXCEPT !.session = "dead"]
    /\ UNCHANGED <<flushVars, ctxDone, closing>>

SessionEnds ==
    /\ link.pc = "up" /\ link.session = "dead"
    /\ link' = [link EXCEPT !.pc = "pause", !.enabled = FALSE]
    /\ UNCHANGED <<flushVars, ctxDone, closing>>

(* Mutant: a session that is up is left to the parent. *)
LeavesSession ==
    /\ link.pc = "up" /\ ctxDone
    /\ link' = [link EXCEPT !.pc = "returned"]
    /\ UNCHANGED <<flushVars, ctxDone, closing>>

StopSession ==
    /\ link.pc = "up" /\ ctxDone
    /\ link' = [pc |-> "returned", session |-> "dead", enabled |-> FALSE]
    /\ UNCHANGED <<flushVars, ctxDone, closing>>

Reconnect ==
    /\ link.pc = "pause"
    /\ link' = [link EXCEPT !.pc = "connect"]
    /\ UNCHANGED <<flushVars, ctxDone, closing>>

Return ==
    /\ link.pc \in {"connect", "pause"} /\ ctxDone
    /\ link' = [link EXCEPT !.pc = "returned"]
    /\ UNCHANGED <<flushVars, ctxDone, closing>>

-----------------------------------------------------------------------------
(* Close *)
RejectSends ==
    /\ closing = "open"
    /\ closing' = "rejecting"
    /\ UNCHANGED <<flushVars, link, ctxDone>>

CancelLifecycle ==
    /\ closing = "rejecting"
    /\ closing' = "waiting"
    /\ UNCHANGED <<flushVars, link, ctxDone>>

Drained ==
    /\ closing = "waiting"
    /\ \A s \in Shards : worker[s].pc = "exited"
    /\ closing' = "drained"
    /\ UNCHANGED <<flushVars, link, ctxDone>>

(* The two seconds are over before the flushers are. *)
TimeOut ==
    /\ closing = "waiting"
    /\ closing' = "timedOut"
    /\ UNCHANGED <<flushVars, link, ctxDone>>

CloseSession ==
    /\ closing \in {"drained", "timedOut"}
    /\ link' = [link EXCEPT !.session = IF @ = "live" THEN "dead" ELSE @]
    /\ closing' = "closed"
    /\ UNCHANGED <<flushVars, ctxDone>>

-----------------------------------------------------------------------------
Save(e) == CheckOpen(e) \/ Enqueue(e) \/ Shed(e)

Flush(s) == \/ Receive(s) \/ Exit(s) \/ Unavailable(s) \/ CallCancelled(s) \/ Call(s)
            \/ Served(s) \/ Replied(s) \/ CallFails(s)
            \/ Retry(s) \/ GiveUp(s) \/ Abandon(s)

Start == Connect \/ Assign \/ Enable \/ SessionEnds \/ StopSession \/ Reconnect \/ Return

Close == RejectSends \/ CancelLifecycle \/ Drained \/ TimeOut \/ CloseSession

Next == \/ \E e \in Events : Save(e)
        \/ \E s \in Shards : Flush(s)
        \/ EndContext \/ Start \/ Crash \/ Close

Spec == Init /\ [][Next]_vars

(* Flushers and Start keep running, calls end by their timeout, the        *)
(* AfterFunc runs once the lifecycle is cancelled.                         *)
FairSpec ==
    /\ Spec
    /\ \A s \in Shards : WF_vars(Flush(s))
    /\ WF_vars(Start)
    /\ WF_vars(Cancelled /\ EndContext)
-----------------------------------------------------------------------------
Queued(e) == \E i \in DOMAIN queue[ShardOf[e]] : queue[ShardOf[e]][i] = e

Held(e) == worker[ShardOf[e]].event = e

(* An event SaveToRecall accepted is waiting, being flushed, saved, or was *)
(* tried Retries times, until Close cancels the lifecycle                  *)
(* (recall_client.go:296-303, 364-435).                                    *)
NoSilentLoss ==
    \A e \in Events :
        caller[e] = "accepted" /\ ~Cancelled => Queued(e) \/ Held(e) \/ e \in saved \cup exhausted

(* The events of a session reach the server in the order in which they     *)
(* were accepted: none is still to come when a later one was saved.        *)
InOrder ==
    \A s \in Shards : \A j \in DOMAIN order[s] : \A i \in 1..(j - 1) :
        order[s][j] \in saved /\ order[s][i] \notin saved
            => ~Queued(order[s][i]) /\ ~Held(order[s][i])

(* After Close nothing stays connected: a connection that was being made   *)
(* when Close looked at the session is closed by Start                     *)
(* (recall_client.go:861-902, 161-165).                                    *)
ClosedDisconnects == closing = "closed" ~> [](~link.enabled /\ link.session # "live")

(* The flushers of a closed client end, whatever is queued and whether or  *)
(* not the server answers (recall_client.go:315-330, 426-428).             *)
FlushersExit == Cancelled ~> \A s \in Shards : worker[s].pc = "exited"
=============================================================================
