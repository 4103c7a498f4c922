----------------------------- MODULE AsyncWriter -----------------------------
(***************************************************************************)
(* The log pipeline of logging.go and logbuffer.go.  A record goes, under   *)
(* the lock of the slog handler, to every writer of the MultiWriter: an     *)
(* AsyncWriter per log file, then the ring buffer.  An AsyncWriter queues   *)
(* the line or drops it, and a worker writes what is queued.  The cleanup   *)
(* of SetupStandardLogging closes each AsyncWriter, waits for its worker    *)
(* and closes its file.                                                     *)
(***************************************************************************)
EXTENDS Naturals, Sequences, SequencesExt

CONSTANTS
    Lines,      \* log lines: each is logged once, by a goroutine of its own
    Sinks,      \* number of AsyncWriters, numbered in the MultiWriter's order
    Capacity,   \* of their channels
    LineSize,   \* bytes of a line, and of the truncation marker
    RingMax, RingTrim,  \* LogBuffer's maxSize and trimTarget
    Marker,
    None

SinksAssumption == Sinks \in Nat \ {0}
CapacityAssumption == Capacity \in Nat \ {0}
MarkerAssumption == Marker \notin Lines /\ None \notin Lines \cup {Marker}
RingAssumption ==
    /\ LineSize \in [Lines \cup {Marker} -> Nat \ {0}]
    /\ RingMax \in Nat /\ RingTrim \in 1..(RingMax - 1)

VARIABLES
    record,     \* the line the slog handler is writing, to which writer, how far
    begun,      \* the lines whose record has been taken by the handler
    sink,       \* sink[k]: an AsyncWriter with its file
    ring,       \* the contents of the ring buffer
    cleanup     \* the sink the cleanup function is at, 0 before it is called

Idle == [line |-> None, at |-> 0, checked |-> FALSE]
S    == 1..Sinks

Writer ==
    [ch      : Seq(Lines),
     closed  : BOOLEAN,                 \* closed, and then ctx is cancelled
     worker  : {"running", "draining", "done"},
     file    : Seq(Lines),
     open    : BOOLEAN,                 \* the file has not been closed
     dropped : SUBSET Lines,            \* the lines its counter has counted
     due     : SUBSET Lines]            \* history: the lines written before Close

LogInit ==
    /\ record = Idle
    /\ begun = {}
    /\ sink = [k \in S |->
                  [ch |-> <<>>, closed |-> FALSE, worker |-> "running", file |-> <<>>,
                   open |-> TRUE, dropped |-> {}, due |-> {}]]
    /\ ring = <<>>
    /\ cleanup = 0

Size(lines) == FoldSeq(LAMBDA l, n : LineSize[l] + n, 0, lines)

LogType ==
    /\ record \in [line : Lines \cup {None}, at : 0..(Sinks + 1), checked : BOOLEAN]
    /\ begun \subseteq Lines
    /\ sink \in [S -> Writer]
    /\ \A k \in S : Len(sink[k].ch) <= Capacity
    /\ ring \in Seq(Lines \cup {Marker})
    /\ cleanup \in 0..(Sinks + 1)

-----------------------------------------------------------------------------
(* slog: the mutex of the handler covers the writing of a record *)
Log(l) ==
    /\ l \notin begun /\ record = Idle
    /\ begun' = begun \cup {l}
    /\ record' = [line |-> l, at |-> 1, checked |-> FALSE]
    /\ UNCHANGED <<sink, ring, cleanup>>

WriteReturns == record' = [record EXCEPT !.at = @ + 1, !.checked = FALSE]

(* AsyncWriter.Write looks at closed once, then waits in its select. *)
CheckClosed(k) ==
    /\ record.at = k /\ ~record.checked
    /\ IF sink[k].closed THEN WriteReturns ELSE record' = [record EXCEPT !.checked = TRUE]
    /\ UNCHANGED <<begun, sink, ring, cleanup>>

Enqueue(k) ==
    /\ record.at = k /\ record.checked
    /\ Len(sink[k].ch) < Capacity
    /\ sink' = [sink EXCEPT ![k].ch = Append(@, record.line)]
    /\ WriteReturns
    /\ UNCHANGED <<begun, ring, cleanup>>

(* maxDuration passes; select may take this branch with room in the channel. *)
DropAfterWait(k) ==
    /\ record.at = k /\ record.checked
    /\ sink' = [sink EXCEPT ![k].dropped = @ \cup {record.line}]
    /\ WriteReturns
    /\ UNCHANGED <<begun, ring, cleanup>>

DropAtShutdown(k) ==
    /\ record.at = k /\ record.checked
    /\ sink[k].closed
    /\ WriteReturns
    /\ UNCHANGED <<begun, sink, ring, cleanup>>

-----------------------------------------------------------------------------
(* LogBuffer.Write: past maxSize, what follows the first line break after   *)
(* the trim point is kept, behind a marker: the longest suffix of whole     *)
(* lines shorter than trimTarget.                                           *)
Retained(lines) ==
    LET From == {i \in 1..Len(lines) : Size(SubSeq(lines, i, Len(lines))) < RingTrim}
    IN  IF From = {} THEN <<>> ELSE SubSeq(lines, Min(From), Len(lines))

Trimmed(lines) == <<Marker>> \o Retained(lines)

WriteRing ==
    /\ record.at = Sinks + 1
    /\ LET lines == Append(ring, record.line) IN
       ring' = IF Size(lines) > RingMax THEN Trimmed(lines) ELSE lines
    /\ record' = Idle
    /\ UNCHANGED <<begun, sink, cleanup>>

-----------------------------------------------------------------------------
(* The worker: a line that cannot be written is counted as dropped. *)
TakeLine(k, w) ==
    LET l == Head(sink[k].ch) IN
    sink' \in {[sink EXCEPT ![k] = [w EXCEPT !.ch = Tail(@), !.file = Append(@, l)]],
               [sink EXCEPT ![k] = [w EXCEPT !.ch = Tail(@), !.dropped = @ \cup {l}]]}

WorkerWrites(k) ==
    /\ sink[k].worker # "done" /\ sink[k].ch # <<>>
    /\ TakeLine(k, sink[k])
    /\ UNCHANGED <<record, begun, ring, cleanup>>

WorkerStops(k) ==
    /\ sink[k].worker = "running" /\ sink[k].closed
    /\ sink' = [sink EXCEPT ![k].worker = "draining"]
    /\ UNCHANGED <<record, begun, ring, cleanup>>

(* Mutant: the worker leaves without draining the channel. *)
WorkerLeaves(k) ==
    /\ sink[k].worker = "draining"
    /\ sink' = [sink EXCEPT ![k].worker = "done"]
    /\ UNCHANGED <<record, begun, ring, cleanup>>

WorkerDone(k) ==
    /\ sink[k].worker = "draining" /\ sink[k].ch = <<>>
    /\ sink' = [sink EXCEPT ![k].worker = "done"]
    /\ UNCHANGED <<record, begun, ring, cleanup>>

-----------------------------------------------------------------------------
(* The lines whose Write to k has returned. *)
Passed(k) == IF record = Idle \/ record.at > k THEN begun ELSE begun \ {record.line}

(* The cleanup function: Close of each AsyncWriter, then of its file. *)
CloseWriter(k) ==
    /\ cleanup = k /\ ~sink[k].closed
    /\ sink' = [sink EXCEPT ![k].closed = TRUE, ![k].due = Passed(k)]
    /\ UNCHANGED <<record, begun, ring, cleanup>>

CloseFile(k) ==
    /\ cleanup = k /\ sink[k].closed /\ sink[k].worker = "done"
    /\ sink' = [sink EXCEPT ![k].open = FALSE]
    /\ cleanup' = k + 1
    /\ UNCHANGED <<record, begun, ring>>

StartCleanup ==
    /\ cleanup = 0
    /\ cleanup' = 1
    /\ UNCHANGED <<record, begun, sink, ring>>

CleanedUp == cleanup = Sinks + 1

Logging(k) ==
    \/ CheckClosed(k) \/ Enqueue(k) \/ DropAfterWait(k) \/ DropAtShutdown(k)

Worker(k) == WorkerWrites(k) \/ WorkerStops(k) \/ WorkerDone(k)
=============================================================================
