------------------------ MODULE ServerProcessProofs ------------------------
(***************************************************************************)
(* What a server process keeps, for any calls, tools, paths, streams,      *)
(* loggers, log files and capacities.                                      *)
(*                                                                         *)
(* The pieces share only the output and the main goroutine, and the        *)
(* argument is one invariant for each.  A line that was passed to a writer *)
(* is in its channel, in its file or counted (Good).  A call holds a whole *)
(* temporary file when it renames it, and what it has yielded to an        *)
(* artifact it keeps (ArtifactInv).  A stream in a Log call holds the      *)
(* mutex of the output with its frame in the buffer, unless the output is  *)
(* broken (PipeInv), so that the flush that makes the call return puts     *)
(* that frame on the wire; and the frames it has put there are its chunks, *)
(* as many as its goroutine has counted (OrderInv).  What a ring buffer    *)
(* holds is measured by a sum over a sequence, which does not depend on    *)
(* the order it is taken in (AnyLast), so that a marker in front adds its  *)
(* own size and no more.                                                   *)
(***************************************************************************)
EXTENDS ServerProcess, FiniteSetTheorems, NaturalsInduction, WellFoundedInduction, TLAPS

-----------------------------------------------------------------------------
(* The log pipeline. *)
K == 1..Sinks

(* The lines of a writer that are in its file or counted. *)
Accounted(w) == ToSet(w.file) \cup w.dropped
Safe(w) == Accounted(w) \cup ToSet(w.ch)

(* What holds of a writer that has been passed so many lines. *)
Good(w, passed) ==
    /\ ~w.closed => passed \subseteq Safe(w)
    /\ w.closed => w.due \subseteq Safe(w)
    /\ w.worker # "running" => w.closed
    /\ w.worker = "done" => w.due \subseteq Accounted(w)
    /\ ~w.open => w.worker = "done"

LogInv ==
    /\ record \in [line : Lines \cup {None}, at : Nat, checked : BOOLEAN]
    /\ record # Logs!Idle => record.line \in begun /\ record.at > 0
    /\ begun \subseteq Lines
    /\ sink \in [K -> Logs!Writer]
    /\ \A k \in K : Good(sink[k], Logs!Passed(k))

(* What a sequence holds once an element is appended. *)
LEMMA AppendRange ==
    ASSUME NEW T, NEW s \in Seq(T), NEW e \in T
    PROVE  Append(s, e) \in Seq(T) /\ ToSet(Append(s, e)) = ToSet(s) \cup {e}
<1>1. /\ Append(s, e) \in Seq(T) /\ Len(s) \in Nat /\ DOMAIN s = 1..Len(s)
      /\ DOMAIN Append(s, e) = 1..(Len(s) + 1)
      /\ \A i \in 1..Len(s) : Append(s, e)[i] = s[i]
      /\ Append(s, e)[Len(s) + 1] = e
  OBVIOUS
<1>2. \A i \in 1..(Len(s) + 1) : i \in 1..Len(s) \/ i = Len(s) + 1
  BY <1>1
<1>3. 1..Len(s) \subseteq 1..(Len(s) + 1) /\ Len(s) + 1 \in 1..(Len(s) + 1)
  BY <1>1
<1>4. ToSet(s) \cup {e} \subseteq ToSet(Append(s, e))
  BY <1>1, <1>3 DEF ToSet
<1>5. ToSet(Append(s, e)) \subseteq ToSet(s) \cup {e}
  BY <1>1, <1>2 DEF ToSet
<1> QED
  BY <1>1, <1>4, <1>5

(* A sequence holds its head and what its tail holds. *)
LEMMA TailRange ==
    ASSUME NEW T, NEW s \in Seq(T), s # <<>>
    PROVE  /\ Head(s) \in T /\ Tail(s) \in Seq(T)
           /\ ToSet(s) = ToSet(Tail(s)) \cup {Head(s)}
<1>1. Head(s) \in T /\ Tail(s) \in Seq(T) /\ Len(s) \in Nat /\ Len(s) > 0
  OBVIOUS
<1>2. /\ DOMAIN s = 1..Len(s) /\ DOMAIN Tail(s) = 1..(Len(s) - 1)
      /\ Head(s) = s[1] /\ \A i \in 1..(Len(s) - 1) : Tail(s)[i] = s[i + 1]
  OBVIOUS
<1>3. ToSet(Tail(s)) \cup {Head(s)} \subseteq ToSet(s)
  BY <1>1, <1>2 DEF ToSet
<1>4. ASSUME NEW i \in 1..Len(s) PROVE s[i] \in ToSet(Tail(s)) \cup {Head(s)}
  <2>1. CASE i = 1
    BY <1>2, <2>1
  <2>2. CASE i # 1
    <3>1. i - 1 \in 1..(Len(s) - 1) /\ (i - 1) + 1 = i
      BY <1>1, <2>2
    <3>2. Tail(s)[i - 1] = s[i]
      BY <1>2, <3>1
    <3> QED
      BY <1>2, <3>1, <3>2 DEF ToSet
  <2> QED
    BY <2>1, <2>2
<1> QED
  BY <1>1, <1>2, <1>3, <1>4 DEF ToSet

(* Nothing has been passed to any writer. *)
LEMMA LogInitially == Init => LogInv
<1> SUFFICES ASSUME Init PROVE LogInv
  OBVIOUS
<1>1. record = Logs!Idle /\ begun = {}
  BY DEF Init, Logs!LogInit
<1>2. Logs!Idle \in [line : Lines \cup {None}, at : Nat, checked : BOOLEAN]
  BY DEF Logs!Idle
<1>3. sink \in [K -> Logs!Writer] /\ \A k \in K : Good(sink[k], Logs!Passed(k))
  BY <1>1 DEF Init, Logs!LogInit, Logs!S, K, Good, Logs!Writer, Logs!Passed
<1> QED
  BY <1>1, <1>2, <1>3 DEF LogInv

(* One writer changes, and the lines passed to it. *)
LEMMA WriterStep ==
    ASSUME LogInv, NEW k \in K, NEW w, sink' = [sink EXCEPT ![k] = w],
           record' \in [line : Lines \cup {None}, at : Nat, checked : BOOLEAN],
           record' # Logs!Idle => record'.line \in begun /\ record'.at > 0,
           begun' = begun,
           w \in Logs!Writer, Good(w, Logs!Passed(k)'),
           \A j \in K : j # k => Logs!Passed(j)' = Logs!Passed(j)
    PROVE  LogInv'
BY DEF LogInv, K

(* A write to k returns. *)
LEMMA WriteReturned ==
    ASSUME LogInv, NEW k \in K, record.at = k, record # Logs!Idle, Logs!WriteReturns,
           begun' = begun
    PROVE  /\ Logs!Passed(k)' = Logs!Passed(k) \cup {record.line}
           /\ \A j \in K : j # k => Logs!Passed(j)' = Logs!Passed(j)
           /\ record' \in [line : Lines \cup {None}, at : Nat, checked : BOOLEAN]
           /\ record'.line \in begun /\ record'.at > 0
           /\ record.line \in Lines
<1>1. record' = [line |-> record.line, at |-> record.at + 1, checked |-> FALSE]
  BY DEF LogInv, Logs!WriteReturns
<1>2. record.line \in begun /\ record.line \in Lines /\ record' # Logs!Idle
  BY <1>1 DEF LogInv, Logs!Idle, K
<1> QED
  BY <1>1, <1>2 DEF LogInv, Logs!Passed, K

(* A record is taken, and looks at a writer. *)
LEMMA LogKeeps ==
    ASSUME LogInv, NEW l \in Lines, Logs!Log(l)
    PROVE  LogInv'
<1>1. /\ record' = [line |-> l, at |-> 1, checked |-> FALSE] /\ record = Logs!Idle
      /\ l \notin begun /\ begun' = begun \cup {l} /\ sink' = sink
  BY DEF Logs!Log
<1>2. \A k \in K : Logs!Passed(k)' = Logs!Passed(k)
  BY <1>1 DEF Logs!Passed, Logs!Idle, K
<1> QED
  BY <1>1, <1>2 DEF LogInv

(* A writer has its type. *)
LEMMA SinkType ==
    ASSUME LogInv, NEW k \in K
    PROVE  /\ Good(sink[k], Logs!Passed(k)) /\ sink[k] \in Logs!Writer
           /\ sink[k].ch \in Seq(Lines) /\ sink[k].file \in Seq(Lines)
           /\ sink[k].dropped \subseteq Lines
           /\ sink = [sink EXCEPT ![k] = sink[k]]
BY DEF LogInv, Good, Logs!Writer

(* A write looks at closed, queues the line, drops it or gives it up. *)
LEMMA WriteKeeps ==
    ASSUME LogInv, NEW k \in K, Logs!Logging(k)
    PROVE  LogInv'
<1>1. record # Logs!Idle /\ record.at = k /\ begun' = begun
  BY DEF Logs!Logging, Logs!CheckClosed, Logs!Enqueue, Logs!DropAfterWait, Logs!DropAtShutdown,
         Logs!Idle, K
<1>2. CASE sink' = sink /\ record' = [record EXCEPT !.checked = TRUE]
  <2>1. record' = [line |-> record.line, at |-> record.at, checked |-> TRUE]
    BY <1>2 DEF LogInv
  <2>2. \A j \in K : Logs!Passed(j)' = Logs!Passed(j)
    BY <1>1, <2>1 DEF Logs!Passed, Logs!Idle
  <2> QED
    BY <1>1, <1>2, <2>1, <2>2 DEF LogInv
<1>3. CASE Logs!WriteReturns /\ sink' = sink /\ sink[k].closed
  <2>1. Good(sink[k], Logs!Passed(k)')
    BY <1>3, SinkType DEF Good
  <2> QED
    BY <1>1, <1>3, <2>1, SinkType, WriteReturned, WriterStep
<1>4. CASE Logs!Enqueue(k)
  <2> DEFINE w == [sink[k] EXCEPT !.ch = Append(@, record.line)]
  <2>1. record.line \in Lines /\ Logs!WriteReturns /\ sink' = [sink EXCEPT ![k] = w]
    BY <1>1, <1>4, WriteReturned DEF Logs!Enqueue
  <2>2. /\ w.ch = Append(sink[k].ch, record.line) /\ w.file = sink[k].file
        /\ w.dropped = sink[k].dropped /\ w.closed = sink[k].closed /\ w.worker = sink[k].worker
        /\ w.open = sink[k].open /\ w.due = sink[k].due
    BY SinkType DEF Logs!Writer
  <2>3. w.ch \in Seq(Lines) /\ ToSet(w.ch) = ToSet(sink[k].ch) \cup {record.line}
    BY <2>1, <2>2, SinkType, AppendRange
  <2>4. w \in Logs!Writer
    BY <2>2, <2>3, SinkType DEF Logs!Writer
  <2>5. Good(w, Logs!Passed(k)')
    BY <1>1, <2>1, <2>2, <2>3, <2>4, SinkType, WriteReturned DEF Good, Safe, Accounted
  <2> QED
    BY <1>1, <2>1, <2>4, <2>5, WriteReturned, WriterStep
<1>5. CASE Logs!DropAfterWait(k)
  <2> DEFINE w == [sink[k] EXCEPT !.dropped = @ \cup {record.line}]
  <2>1. record.line \in Lines /\ Logs!WriteReturns /\ sink' = [sink EXCEPT ![k] = w]
    BY <1>1, <1>5, WriteReturned DEF Logs!DropAfterWait
  <2>2. /\ w.ch = sink[k].ch /\ w.file = sink[k].file
        /\ w.dropped = sink[k].dropped \cup {record.line} /\ w.closed = sink[k].closed
        /\ w.worker = sink[k].worker /\ w.open = sink[k].open /\ w.due = sink[k].due
    BY SinkType DEF Logs!Writer
  <2>3. w \in Logs!Writer
    BY <2>1, <2>2, SinkType DEF Logs!Writer
  <2>4. Good(w, Logs!Passed(k)')
    BY <1>1, <2>1, <2>2, <2>3, SinkType, WriteReturned DEF Good, Safe, Accounted
  <2> QED
    BY <1>1, <2>1, <2>3, <2>4, WriteReturned, WriterStep
<1> QED
  BY <1>2, <1>3, <1>4, <1>5 DEF Logs!Logging, Logs!CheckClosed, Logs!DropAtShutdown

(* The ring buffer is the last writer of a record. *)
LEMMA RingKeeps ==
    ASSUME LogInv, Logs!WriteRing
    PROVE  LogInv'
<1>1. record' = Logs!Idle /\ begun' = begun /\ sink' = sink /\ record.at = Sinks + 1
  BY DEF Logs!WriteRing
<1>2. Sinks \in Nat
  BY ComponentAssumptions DEF Logs!SinksAssumption
<1>3. Logs!Idle \in [line : Lines \cup {None}, at : Nat, checked : BOOLEAN]
  BY DEF Logs!Idle
<1>4. \A k \in K : Logs!Passed(k)' = Logs!Passed(k)
  BY <1>1, <1>2 DEF Logs!Passed, K
<1> QED
  BY <1>1, <1>3, <1>4 DEF LogInv

(* A worker, or the cleanup, changes a writer. *)
LEMMA OwnStep ==
    ASSUME LogInv, NEW k \in K, NEW w \in Logs!Writer, Good(w, Logs!Passed(k)),
           sink' = [sink EXCEPT ![k] = w], record' = record, begun' = begun
    PROVE  LogInv'
<1>1. \A j \in K : Logs!Passed(j)' = Logs!Passed(j)
  BY DEF Logs!Passed
<1> QED
  BY <1>1 DEF LogInv

(* A worker writes a line or counts it, and leaves with nothing queued. *)
LEMMA WorkerKeeps ==
    ASSUME LogInv, NEW k \in K, Logs!Worker(k)
    PROVE  LogInv'
<1>1. record' = record /\ begun' = begun
  BY DEF Logs!Worker, Logs!WorkerWrites, Logs!WorkerStops, Logs!WorkerDone
<1>2. CASE Logs!WorkerWrites(k)
  <2> DEFINE l == Head(sink[k].ch)
             written == [sink[k] EXCEPT !.ch = Tail(@), !.file = Append(@, l)]
             lost == [sink[k] EXCEPT !.ch = Tail(@), !.dropped = @ \cup {l}]
  <2>1. sink' = [sink EXCEPT ![k] = written] \/ sink' = [sink EXCEPT ![k] = lost]
    BY <1>2 DEF Logs!WorkerWrites, Logs!TakeLine
  <2>2. /\ l \in Lines /\ Tail(sink[k].ch) \in Seq(Lines)
        /\ ToSet(sink[k].ch) = ToSet(Tail(sink[k].ch)) \cup {l}
        /\ Append(sink[k].file, l) \in Seq(Lines)
        /\ ToSet(Append(sink[k].file, l)) = ToSet(sink[k].file) \cup {l}
        /\ sink[k].worker # "done"
    BY <1>2, SinkType, AppendRange, TailRange DEF Logs!WorkerWrites
  <2>3. /\ written.ch = Tail(sink[k].ch) /\ written.file = Append(sink[k].file, l)
        /\ written.dropped = sink[k].dropped /\ written.closed = sink[k].closed
        /\ written.worker = sink[k].worker /\ written.open = sink[k].open
        /\ written.due = sink[k].due
    BY SinkType DEF Logs!Writer
  <2>4. /\ lost.ch = Tail(sink[k].ch) /\ lost.file = sink[k].file
        /\ lost.dropped = sink[k].dropped \cup {l} /\ lost.closed = sink[k].closed
        /\ lost.worker = sink[k].worker /\ lost.open = sink[k].open /\ lost.due = sink[k].due
    BY SinkType DEF Logs!Writer
  <2>5. written \in Logs!Writer /\ lost \in Logs!Writer
    BY <2>2, SinkType DEF Logs!Writer
  <2>6. Good(written, Logs!Passed(k)) /\ Good(lost, Logs!Passed(k))
    <3> HIDE DEF l, written, lost
    <3> QED
      BY <2>2, <2>3, <2>4, SinkType DEF Good, Safe, Accounted
  <2> QED
    BY <1>1, <2>1, <2>5, <2>6, OwnStep
<1>3. CASE Logs!WorkerStops(k)
  <2> DEFINE w == [sink[k] EXCEPT !.worker = "draining"]
  <2>1. /\ w.ch = sink[k].ch /\ w.file = sink[k].file /\ w.dropped = sink[k].dropped
        /\ w.closed = sink[k].closed /\ w.worker = "draining" /\ w.open = sink[k].open
        /\ w.due = sink[k].due /\ w \in Logs!Writer
    BY SinkType DEF Logs!Writer
  <2>2. sink' = [sink EXCEPT ![k] = w] /\ sink[k].closed /\ sink[k].worker = "running"
    BY <1>3 DEF Logs!WorkerStops
  <2>3. Good(w, Logs!Passed(k))
    BY <2>1, <2>2, SinkType DEF Good, Safe, Accounted
  <2> QED
    BY <1>1, <2>1, <2>2, <2>3, OwnStep
<1>4. CASE Logs!WorkerDone(k)
  <2> DEFINE w == [sink[k] EXCEPT !.worker = "done"]
  <2>1. /\ w.ch = sink[k].ch /\ w.file = sink[k].file /\ w.dropped = sink[k].dropped
        /\ w.closed = sink[k].closed /\ w.worker = "done" /\ w.open = sink[k].open
        /\ w.due = sink[k].due /\ w \in Logs!Writer
    BY SinkType DEF Logs!Writer
  <2>2. sink' = [sink EXCEPT ![k] = w] /\ sink[k].worker = "draining" /\ sink[k].ch = <<>>
    BY <1>4 DEF Logs!WorkerDone
  <2>3. ToSet(sink[k].ch) = {}
    BY <2>2 DEF ToSet
  <2>4. Good(w, Logs!Passed(k))
    BY <2>1, <2>2, <2>3, SinkType DEF Good, Safe, Accounted
  <2> QED
    BY <1>1, <2>1, <2>2, <2>4, OwnStep
<1> QED
  BY <1>2, <1>3, <1>4 DEF Logs!Worker

(* Close fixes the lines a writer has to account for. *)
LEMMA CleanupKeeps ==
    ASSUME LogInv, CleanUpLogs
    PROVE  LogInv'
<1>1. record' = record /\ begun' = begun
  BY DEF CleanUpLogs, Logs!StartCleanup, Logs!CloseWriter, Logs!CloseFile
<1>2. CASE Logs!StartCleanup
  BY <1>1, <1>2 DEF Logs!StartCleanup, LogInv, Logs!Passed
<1>3. ASSUME NEW k \in K, Logs!CloseWriter(k) PROVE LogInv'
  <2> DEFINE w == [sink[k] EXCEPT !.closed = TRUE, !.due = Logs!Passed(k)]
  <2>1. Logs!Passed(k) \subseteq Lines
    BY DEF LogInv, Logs!Passed
  <2>2. /\ w.ch = sink[k].ch /\ w.file = sink[k].file /\ w.dropped = sink[k].dropped
        /\ w.closed = TRUE /\ w.worker = sink[k].worker /\ w.open = sink[k].open
        /\ w.due = Logs!Passed(k) /\ w \in Logs!Writer
    BY <2>1, SinkType DEF Logs!Writer
  <2>3. sink' = [sink EXCEPT ![k] = w] /\ ~sink[k].closed
    BY <1>3, SinkType DEF Logs!CloseWriter, Logs!Writer
  <2>4. Good(w, Logs!Passed(k))
    BY <2>2, <2>3, SinkType DEF Good, Safe, Accounted, Logs!Writer
  <2> QED
    BY <1>1, <2>2, <2>3, <2>4, OwnStep
<1>4. ASSUME NEW k \in K, Logs!CloseFile(k) PROVE LogInv'
  <2> DEFINE w == [sink[k] EXCEPT !.open = FALSE]
  <2>1. /\ w.ch = sink[k].ch /\ w.file = sink[k].file /\ w.dropped = sink[k].dropped
        /\ w.closed = sink[k].closed /\ w.worker = sink[k].worker /\ w.open = FALSE
        /\ w.due = sink[k].due /\ w \in Logs!Writer
    BY SinkType DEF Logs!Writer
  <2>2. sink' = [sink EXCEPT ![k] = w] /\ sink[k].worker = "done"
    BY <1>4 DEF Logs!CloseFile
  <2>3. Good(w, Logs!Passed(k))
    BY <2>1, <2>2, SinkType DEF Good, Safe, Accounted
  <2> QED
    BY <1>1, <2>1, <2>2, <2>3, OwnStep
<1> QED
  BY <1>2, <1>3, <1>4 DEF CleanUpLogs, K

-----------------------------------------------------------------------------
(* Artifacts. *)
ArtifactInv ==
    /\ call \in [Calls -> Tool!Goroutine]
    /\ temp \in [Calls -> {"none", "partial", "whole"}]
    /\ artifact \in [Paths -> Tool!Content \cup {None}]
    /\ \A c \in Calls :
          /\ call[c].pc \in {"encode", "rename"} => PathOf[c] \in Paths
          /\ call[c].pc = "rename" => temp[c] = "whole"
          /\ call[c].result = "written" =>
                /\ call[c].pc \in {"intercept", "return", "done"} /\ call[c].output = "zero"
                /\ PathOf[c] \in Paths /\ artifact[PathOf[c]] # None
    /\ \A p \in Paths :
          artifact[p] # None => artifact[p].whole /\ call[artifact[p].by].result = "written"

(* There is no artifact. *)
LEMMA ArtifactInitially == Init => ArtifactInv
<1> SUFFICES ASSUME Init PROVE ArtifactInv
  OBVIOUS
<1>1. /\ call = [c \in Calls |-> [pc |-> "idle", output |-> "none", result |-> "none"]]
      /\ temp = [c \in Calls |-> "none"] /\ artifact = [p \in Paths |-> None]
  BY DEF Init, Tool!CallInit
<1>2. [pc |-> "idle", output |-> "none", result |-> "none"] \in Tool!Goroutine
  BY DEF Tool!Goroutine, Tool!Output, Tool!Result
<1> QED
  BY <1>1, <1>2 DEF ArtifactInv

(* A step of a call that leaves the artifacts alone. *)
LEMMA CallStep ==
    ASSUME ArtifactInv, NEW c \in Calls, NEW r \in Tool!Goroutine,
           call' = [call EXCEPT ![c] = r],
           artifact' = artifact,
           temp' \in [Calls -> {"none", "partial", "whole"}],
           \A d \in Calls : d # c => temp'[d] = temp[d],
           r.pc \in {"encode", "rename"} => PathOf[c] \in Paths,
           r.pc = "rename" => temp'[c] = "whole",
           r.result = "written" <=> call[c].result = "written",
           r.result = "written" =>
               r.pc \in {"intercept", "return", "done"} /\ r.output = "zero"
    PROVE  ArtifactInv'
<1>1. call'[c] = r /\ \A d \in Calls : d # c => call'[d] = call[d]
  BY DEF ArtifactInv
<1>2. call' \in [Calls -> Tool!Goroutine]
  BY DEF ArtifactInv
<1>3. ASSUME NEW p \in Paths, artifact[p] # None
      PROVE  artifact[p].whole /\ call'[artifact[p].by].result = "written"
  <2>1. artifact[p].by \in Calls
    BY <1>3 DEF ArtifactInv, Tool!Content
  <2> QED
    BY <1>1, <1>3, <2>1 DEF ArtifactInv
<1> QED
  BY <1>1, <1>2, <1>3 DEF ArtifactInv

(* A path that was asked for is a path. *)
LEMMA PathType == \A c \in Calls : PathOf[c] # None => PathOf[c] \in Paths
BY ComponentAssumptions DEF Tool!PathAssumption

(* One that moves it on, and one that makes it yield something.             *)
LEMMA MovesOn ==
    ASSUME ArtifactInv, NEW c \in Calls, NEW pc, Tool!Step(c, pc), UNCHANGED <<temp, artifact>>,
           pc \in {"lock", "handle", "route", "intercept", "return", "done"},
           call[c].result = "written" => pc \in {"intercept", "return", "done"}
    PROVE  ArtifactInv'
<1> DEFINE r == [call[c] EXCEPT !.pc = pc]
<1>1. call[c] \in Tool!Goroutine /\ call' = [call EXCEPT ![c] = r]
  BY DEF ArtifactInv, Tool!Step
<1>2. r \in Tool!Goroutine /\ r.pc = pc /\ r.output = call[c].output /\ r.result = call[c].result
  BY <1>1 DEF Tool!Goroutine
<1>3. temp \in [Calls -> {"none", "partial", "whole"}]
  BY DEF ArtifactInv
<1>4. call[c].result = "written" => call[c].output = "zero"
  BY DEF ArtifactInv
<1> HIDE DEF r
<1> QED
  BY <1>1, <1>2, <1>3, <1>4, CallStep

(* A call that yields something else than the notice of an artifact. *)
LEMMA YieldsKeeps ==
    ASSUME ArtifactInv, NEW c \in Calls, NEW pc, NEW output, NEW result,
           Tool!Yields(c, pc, output, result), UNCHANGED <<temp, artifact>>,
           pc \in {"route", "return", "done"}, output \in Tool!Output, result \in Tool!Result,
           result # "written", call[c].output # "zero" \/ call[c].pc = "handle"
    PROVE  ArtifactInv'
<1> DEFINE r == [pc |-> pc, output |-> output, result |-> result]
<1>1. call' = [call EXCEPT ![c] = r]
  BY DEF Tool!Yields
<1>2. r \in Tool!Goroutine /\ r.pc = pc /\ r.output = output /\ r.result = result
  BY DEF Tool!Goroutine
<1>3. temp \in [Calls -> {"none", "partial", "whole"}]
  BY DEF ArtifactInv
<1>4. call[c].result # "written"
  BY DEF ArtifactInv
<1> HIDE DEF r
<1> QED
  BY <1>1, <1>2, <1>3, <1>4, CallStep

(* The steps of a call that leave its temporary file alone. *)
LEMMA PlainCallsKeep ==
    ASSUME ArtifactInv, NEW c \in Calls,
           \/ Tool!Invoke(c) \/ Tool!LockTool(c) \/ Tool!Handle(c) \/ Tool!Panic(c)
           \/ Tool!NotRouted(c) \/ Tool!NotIntercepted(c) \/ Tool!Refuse(c) \/ Tool!Return(c)
           \/ Tool!Intercept(c) \/ Tool!DeliverInline(c) \/ Tool!LeaveWhole(c)
    PROVE  ArtifactInv'
<1>1. UNCHANGED <<temp, artifact>>
  BY DEF Tool!Invoke, Tool!LockTool, Tool!Handle, Tool!Panic, Tool!NotRouted,
         Tool!NotIntercepted, Tool!Refuse, Tool!Return, Tool!Intercept, Tool!DeliverInline,
         Tool!LeaveWhole
<1>2. call[c].result = "written" => call[c].pc \in {"intercept", "return", "done"}
  BY DEF ArtifactInv
<1>3. CASE Tool!Invoke(c) \/ Tool!LockTool(c) \/ Tool!NotRouted(c) \/ Tool!NotIntercepted(c)
           \/ Tool!Return(c) \/ Tool!LeaveWhole(c)
  <2>1. \E pc \in {"lock", "handle", "intercept", "return", "done"} :
            /\ Tool!Step(c, pc)
            /\ call[c].pc \in {"intercept", "return", "done"} => pc \in {"return", "done"}
    BY <1>3 DEF Tool!Invoke, Tool!LockTool, Tool!NotRouted, Tool!NotIntercepted, Tool!Return,
                Tool!LeaveWhole
  <2> QED
    BY <1>1, <1>2, <2>1, MovesOn
<1>4. CASE Tool!Handle(c) \/ Tool!Panic(c) \/ Tool!Refuse(c) \/ Tool!Intercept(c)
           \/ Tool!DeliverInline(c)
  <2>1. call[c].output # "zero" \/ call[c].pc = "handle"
    BY <1>4 DEF Tool!Handle, Tool!Panic, Tool!Refuse, Tool!Intercept, Tool!DeliverInline, Tool!Heavy
  <2>2. \E pc \in {"route", "return", "done"}, output \in Tool!Output,
           result \in Tool!Result \ {"written"} : Tool!Yields(c, pc, output, result)
    BY <1>4 DEF Tool!Handle, Tool!Panic, Tool!Refuse, Tool!Intercept, Tool!DeliverInline,
                Tool!Output, Tool!Result
  <2> QED
    BY <1>1, <2>1, <2>2, YieldsKeeps
<1> QED
  BY <1>3, <1>4

(* The temporary file of a call, and its rename. *)
LEMMA TempKeeps ==
    ASSUME ArtifactInv, NEW c \in Calls, Tool!CreateTemp(c) \/ Tool!Encode(c)
    PROVE  ArtifactInv'
<1>1. PICK pc \in {"encode", "rename", "intercept"} : Tool!Step(c, pc)
  BY DEF Tool!CreateTemp, Tool!Encode
<1> DEFINE r == [call[c] EXCEPT !.pc = pc]
<1>2. call[c] \in Tool!Goroutine /\ call' = [call EXCEPT ![c] = r]
  BY <1>1 DEF ArtifactInv, Tool!Step
<1>3. r \in Tool!Goroutine /\ r.pc = pc /\ r.output = call[c].output /\ r.result = call[c].result
  BY <1>2 DEF Tool!Goroutine
<1>4. PathOf[c] \in Paths /\ call[c].result # "written"
  BY PathType DEF ArtifactInv, Tool!CreateTemp, Tool!Encode
<1>5. /\ artifact' = artifact /\ temp' \in [Calls -> {"none", "partial", "whole"}]
      /\ \A d \in Calls : d # c => temp'[d] = temp[d]
  BY DEF ArtifactInv, Tool!CreateTemp, Tool!Encode, Tool!Removed
<1>6. r.pc = "rename" => temp'[c] = "whole"
  <2>1. call'[c].pc = pc
    BY <1>2, <1>3 DEF ArtifactInv
  <2>2. CASE Tool!CreateTemp(c)
    <3>1. call'[c].pc = "encode"
      BY <1>2, <2>2 DEF ArtifactInv, Tool!CreateTemp, Tool!Step, Tool!Goroutine
    <3> QED
      BY <1>3, <2>1, <3>1
  <2>3. CASE Tool!Encode(c)
    <3>1. call'[c].pc = "intercept" \/ temp' = [temp EXCEPT ![c] = "whole"]
      BY <1>2, <2>3 DEF ArtifactInv, Tool!Encode, Tool!Step, Tool!Goroutine
    <3> QED
      BY <1>3, <2>1, <3>1 DEF ArtifactInv
  <2> QED
    BY <2>2, <2>3
<1> HIDE DEF r
<1> QED
  BY <1>2, <1>3, <1>4, <1>5, <1>6, CallStep

(* The rename makes the artifact whole, or changes nothing. *)
LEMMA RenameKeeps ==
    ASSUME ArtifactInv, NEW c \in Calls, Tool!Rename(c)
    PROVE  ArtifactInv'
<1>1. /\ call[c].pc = "rename" /\ PathOf[c] \in Paths /\ call[c].result # "written"
      /\ temp[c] = "whole" /\ call[c] \in Tool!Goroutine
  BY DEF ArtifactInv, Tool!Rename
<1>2. /\ temp' \in [Calls -> {"none", "partial", "whole"}]
      /\ \A d \in Calls : d # c => temp'[d] = temp[d]
  BY DEF ArtifactInv, Tool!Rename, Tool!Removed
<1>3. CASE Tool!Step(c, "intercept") /\ artifact' = artifact
  <2> DEFINE r == [call[c] EXCEPT !.pc = "intercept"]
  <2>1. r \in Tool!Goroutine /\ r.pc = "intercept" /\ r.result = call[c].result
    BY <1>1 DEF Tool!Goroutine
  <2>2. call' = [call EXCEPT ![c] = r]
    BY <1>3 DEF Tool!Step
  <2> HIDE DEF r
  <2> QED
    BY <1>1, <1>2, <1>3, <2>1, <2>2, CallStep
<1>4. CASE /\ artifact' = [artifact EXCEPT ![PathOf[c]] =
                               [by |-> c, whole |-> temp[c] = "whole"]]
           /\ Tool!Yields(c, "intercept", "zero", "written")
  <2> DEFINE r == [pc |-> "intercept", output |-> "zero", result |-> "written"]
             new == [by |-> c, whole |-> temp[c] = "whole"]
  <2>1. r \in Tool!Goroutine
    BY DEF Tool!Goroutine, Tool!Output, Tool!Result
  <2>2. new \in Tool!Content /\ new.by = c /\ new.whole
    BY <1>1 DEF Tool!Content
  <2>3. new # None
    BY <2>2, ComponentAssumptions DEF Tool!CallNoneAssumption
  <2>4. /\ call' \in [Calls -> Tool!Goroutine]
        /\ call'[c].pc = "intercept" /\ call'[c].output = "zero" /\ call'[c].result = "written"
        /\ \A d \in Calls : d # c => call'[d] = call[d]
    BY <1>4, <2>1 DEF ArtifactInv, Tool!Yields
  <2>5. /\ artifact' \in [Paths -> Tool!Content \cup {None}]
        /\ artifact'[PathOf[c]] = new
        /\ \A p \in Paths : p # PathOf[c] => artifact'[p] = artifact[p]
    BY <1>1, <1>4, <2>2 DEF ArtifactInv
  <2>6. ASSUME NEW p \in Paths, artifact'[p] # None
        PROVE  artifact'[p].whole /\ call'[artifact'[p].by].result = "written"
    <3>1. CASE p = PathOf[c]
      BY <2>2, <2>4, <2>5, <3>1
    <3>2. CASE p # PathOf[c]
      <4>1. artifact[p].by \in Calls
        BY <2>5, <2>6, <3>2 DEF ArtifactInv, Tool!Content
      <4> QED
        BY <2>4, <2>5, <2>6, <3>2, <4>1 DEF ArtifactInv
    <3> QED
      BY <3>1, <3>2
  <2>7. \A d \in Calls :
            call'[d].result = "written" => PathOf[d] \in Paths /\ artifact'[PathOf[d]] # None
    <3> HIDE DEF new
    <3> QED
      BY <1>1, <2>3, <2>4, <2>5 DEF ArtifactInv
  <2> QED
    BY <1>2, <2>4, <2>5, <2>6, <2>7 DEF ArtifactInv
<1> QED
  BY <1>3, <1>4 DEF Tool!Rename
-----------------------------------------------------------------------------
(* The output: what is in the buffer is the frame of whoever holds the      *)
(* mutex.                                                                   *)
Mine(s) == [from |-> Notice(s), msg |-> stream[s].msg]

Buffer == [mu     : {Main, None} \cup {Reply(c) : c \in Calls} \cup {Notice(c) : c \in Calls},
           buf    : Seq(Frame), broken : BOOLEAN]

(* What a stream that speaks says. *)
Speaks(r) == r.msg \in Streaming!Message /\ (r.msg.kind = "chunk" => r.index < MaxChunks)

(* A stream that ended well has told the peer. *)
Announced ==
    \A s \in Calls :
        stream[s].pc = "ended" /\ stream[s].heard /\ stream[s].read # "panic" => Told(s)

PipeInv ==
    /\ stream \in [Calls -> Streaming!Goroutine]
    /\ out \in Buffer /\ wire \in Seq(Frame)
    /\ \A s \in Calls :
          /\ stream[s].pc \in {"say", "log"} => Speaks(stream[s])
          /\ stream[s].pc = "log" => out.mu = Notice(s)
          /\ stream[s].pc = "log" /\ ~out.broken => Mine(s) \in ToSet(out.buf)
    /\ Announced

(* No stream has been started. *)
LEMMA PipeInitially == Init => PipeInv
<1> SUFFICES ASSUME Init PROVE PipeInv
  OBVIOUS
<1>1. MaxChunks \in Nat
  BY ComponentAssumptions DEF Streaming!MaxChunksAssumption
<1>2. stream \in [Calls -> Streaming!Goroutine] /\ \A s \in Calls : stream[s].pc = "idle"
  BY <1>1 DEF Init, Streaming!StreamInit, Streaming!Goroutine
<1>3. out \in Buffer /\ wire = <<>>
  BY DEF Init, Pipe!PipelineInit, Pipe!OutInit, Buffer
<1> QED
  BY <1>2, <1>3 DEF PipeInv, Announced

(* What has been told stays told. *)
LEMMA StaysTold ==
    ASSUME ToSet(wire) \subseteq ToSet(wire'), NEW s \in Calls, Told(s)
    PROVE  Told(s)'
<1>1. PICK i \in DOMAIN wire :
          wire[i].from = Notice(s) /\ wire[i].msg.kind \in {"abort", "finalize"}
  BY DEF Told
<1>2. wire[i] \in ToSet(wire')
  BY DEF ToSet
<1>3. PICK j \in DOMAIN wire' : wire'[j] = wire[i]
  BY <1>2 DEF ToSet
<1> QED
  BY <1>1, <1>3 DEF Told

(* A concatenation holds what both sequences hold. *)
LEMMA ConcatRange ==
    ASSUME NEW T, NEW s \in Seq(T), NEW t \in Seq(T)
    PROVE  s \o t \in Seq(T) /\ ToSet(s) \cup ToSet(t) \subseteq ToSet(s \o t)
<1>1. /\ Len(s) \in Nat /\ Len(t) \in Nat /\ s \o t \in Seq(T)
      /\ DOMAIN s = 1..Len(s) /\ DOMAIN t = 1..Len(t)
      /\ DOMAIN (s \o t) = 1..(Len(s) + Len(t))
      /\ \A i \in 1..Len(s) : (s \o t)[i] = s[i]
  OBVIOUS
<1>2. \A i \in 1..Len(t) : (s \o t)[Len(s) + i] = t[i]
  OBVIOUS
<1>3. /\ \A i \in 1..Len(s) : i \in 1..(Len(s) + Len(t))
      /\ \A i \in 1..Len(t) : Len(s) + i \in 1..(Len(s) + Len(t))
  BY <1>1
<1>4. ToSet(s) \subseteq ToSet(s \o t)
  BY <1>1, <1>3 DEF ToSet
<1>5. ToSet(t) \subseteq ToSet(s \o t)
  BY <1>1, <1>2, <1>3 DEF ToSet
<1> QED
  BY <1>1, <1>4, <1>5

(* Streams, calls and the main goroutine have different names. *)
LEMMA Names ==
    /\ \A s, t \in Calls : Notice(s) = Notice(t) => s = t
    /\ \A s, c \in Calls : Notice(s) # Reply(c) /\ Notice(s) # Main /\ Notice(s) # None
BY NoneAssumption DEF Notice, Reply, Main

(* See Names. *)
LEMMA ReplyNamed == \A c \in Calls : Reply(c) # None
BY NoneAssumption

(* Nobody is in a Log call: the output may change. *)
LEMMA QuietOutput ==
    ASSUME PipeInv, stream' = stream, \A s \in Calls : stream[s].pc # "log",
           out' \in Buffer, wire' \in Seq(Frame), ToSet(wire) \subseteq ToSet(wire')
    PROVE  PipeInv'
<1>1. ASSUME NEW s \in Calls, Told(s) PROVE Told(s)'
  BY <1>1, StaysTold
<1> QED
  BY <1>1 DEF PipeInv, Announced

(* A stream moves on, and the output is left alone. *)
LEMMA StreamStep ==
    ASSUME PipeInv, NEW s \in Calls, NEW r \in Streaming!Goroutine,
           stream' = [stream EXCEPT ![s] = r], UNCHANGED <<out, wire>>,
           r.pc = "log" => stream[s].pc = "log" /\ r.msg = stream[s].msg,
           r.pc \in {"say", "log"} => Speaks(r),
           r.pc = "ended" /\ r.heard => r.read = "panic"
    PROVE  PipeInv'
<1>1. stream'[s] = r /\ \A t \in Calls : t # s => stream'[t] = stream[t]
  BY DEF PipeInv
<1>2. stream' \in [Calls -> Streaming!Goroutine]
  BY DEF PipeInv
<1>3. ASSUME NEW t \in Calls, stream'[t].pc = "log"
      PROVE  stream[t].pc = "log" /\ Mine(t)' = Mine(t)
  BY <1>1, <1>3 DEF Mine
<1>4. \A t \in Calls : Told(t)' = Told(t)
  BY DEF Told
<1>5. Announced'
  BY <1>1, <1>4 DEF PipeInv, Announced
<1> QED
  BY <1>1, <1>2, <1>3, <1>5 DEF PipeInv

(* A stream has its type. *)
LEMMA StreamType ==
    ASSUME PipeInv, NEW s \in Calls
    PROVE  /\ stream[s] \in Streaming!Goroutine /\ MaxChunks \in Nat
           /\ stream[s].index \in 0..MaxChunks
BY ComponentAssumptions DEF PipeInv, Streaming!Goroutine, Streaming!MaxChunksAssumption

(* What a notification is made of. *)
LEMMA SaysSomething ==
    ASSUME NEW r \in Streaming!Goroutine, NEW kind \in {"chunk", "abort", "finalize"}
    PROVE  /\ Streaming!Says(r, kind) \in Streaming!Goroutine
           /\ Streaming!Says(r, kind).pc = "say"
           /\ kind # "chunk" \/ r.index < MaxChunks => Speaks(Streaming!Says(r, kind))
<1> DEFINE m == [kind |-> kind, index |-> r.index]
<1>1. m \in Streaming!Message
  BY DEF Streaming!Goroutine, Streaming!Message
<1>2. Streaming!Says(r, kind) = [r EXCEPT !.pc = "say", !.msg = m]
  BY DEF Streaming!Says
<1>3. m.kind = kind
  OBVIOUS
<1> HIDE DEF m
<1>4. /\ Streaming!Says(r, kind) \in Streaming!Goroutine
      /\ Streaming!Says(r, kind).pc = "say" /\ Streaming!Says(r, kind).msg = m
      /\ Streaming!Says(r, kind).index = r.index
  BY <1>1, <1>2 DEF Streaming!Goroutine
<1> QED
  BY <1>1, <1>3, <1>4 DEF Speaks

(* What a stream says at the end of its reader. *)
LEMMA ClosingSays ==
    ASSUME NEW r \in Streaming!Goroutine
    PROVE  /\ Streaming!Closing(r) \in Streaming!Goroutine
           /\ Streaming!Closing(r).pc = "say" /\ Speaks(Streaming!Closing(r))
BY SaysSomething DEF Streaming!Closing, Streaming!Fault

(* A stream reads, is cancelled or panics. *)
LEMMA RunStreamKeeps ==
    ASSUME PipeInv, NEW s \in Calls, RunStream(s)
    PROVE  PipeInv'
<1>1. UNCHANGED <<out, wire>>
  BY DEF RunStream, pipeVars
<1>2. ASSUME NEW r \in Streaming!Goroutine, r.pc = "say", Speaks(r),
             Streaming!Becomes(s, r)
      PROVE  PipeInv'
  BY <1>1, <1>2, StreamStep DEF Streaming!Becomes
<1>3. CASE Streaming!Cancelled(s)
  BY <1>2, <1>3, StreamType, SaysSomething DEF Streaming!Cancelled
<1>4. CASE Streaming!ReadChunk(s)
  <2>1. ASSUME NEW what \in {"data", "eof", "fault"}
        PROVE  /\ [stream[s] EXCEPT !.read = what] \in Streaming!Goroutine
               /\ [stream[s] EXCEPT !.read = what].index = stream[s].index
    BY StreamType DEF Streaming!Goroutine
  <2> QED
    BY <1>2, <1>4, <2>1, SaysSomething, ClosingSays DEF Streaming!ReadChunk
<1>5. CASE Streaming!ReaderPanics(s)
  <2> DEFINE r == [stream[s] EXCEPT !.pc = "ended", !.read = "panic"]
  <2>1. r \in Streaming!Goroutine /\ r.pc = "ended" /\ r.read = "panic"
    BY StreamType DEF Streaming!Goroutine
  <2>2. stream' = [stream EXCEPT ![s] = r]
    BY <1>5 DEF Streaming!ReaderPanics, Streaming!Becomes
  <2> HIDE DEF r
  <2> QED
    BY <1>1, <2>1, <2>2, StreamStep
<1> QED
  BY <1>3, <1>4, <1>5 DEF RunStream

(* A stream is started, expires or is refused. *)
LEMMA OtherStreamsKeep ==
    ASSUME PipeInv, NEW s \in Calls, StreamHeavyPayload(s) \/ ExpireStream(s) \/ Refused(s)
    PROVE  PipeInv'
<1>1. UNCHANGED <<out, wire>>
  BY DEF StreamHeavyPayload, ExpireStream, Refused, pipeVars
<1>2. CASE StreamHeavyPayload(s)
  <2> DEFINE r == [stream[s] EXCEPT !.pc = "loop"]
  <2>1. r \in Streaming!Goroutine /\ r.pc = "loop"
    BY StreamType DEF Streaming!Goroutine
  <2>2. stream' = [stream EXCEPT ![s] = r]
    BY <1>2 DEF StreamHeavyPayload, Streaming!StartStream, Streaming!Becomes
  <2> HIDE DEF r
  <2> QED
    BY <1>1, <2>1, <2>2, StreamStep
<1>3. CASE ExpireStream(s)
  <2> DEFINE r == [stream[s] EXCEPT !.expired = TRUE]
  <2>1. /\ r \in Streaming!Goroutine /\ r.pc = stream[s].pc /\ r.msg = stream[s].msg
        /\ r.index = stream[s].index /\ stream[s].pc # "ended"
    BY <1>3, StreamType DEF Streaming!Goroutine, ExpireStream, Streaming!Expire
  <2>2. stream' = [stream EXCEPT ![s] = r]
    BY <1>3 DEF ExpireStream, Streaming!Expire, Streaming!Becomes
  <2> HIDE DEF r
  <2>3. r.pc \in {"say", "log"} => Speaks(r)
    BY <2>1 DEF PipeInv, Speaks
  <2> QED
    BY <1>1, <2>1, <2>2, <2>3, StreamStep
<1>4. CASE Refused(s)
  <2> DEFINE r == [stream[s] EXCEPT !.pc = "ended", !.heard = FALSE]
  <2>1. r \in Streaming!Goroutine /\ r.pc = "ended" /\ ~r.heard
    BY StreamType DEF Streaming!Goroutine
  <2>2. stream' = [stream EXCEPT ![s] = r]
    BY <1>4 DEF Refused, Streaming!Unheard, Streaming!Becomes
  <2> HIDE DEF r
  <2> QED
    BY <1>1, <2>1, <2>2, StreamStep
<1> QED
  BY <1>2, <1>3, <1>4

(* A Log call begins: its frame is buffered, and the mutex taken. *)
LEMMA NotifyKeeps ==
    ASSUME PipeInv, NEW s \in Calls, Notify(s)
    PROVE  PipeInv'
<1> DEFINE r == [stream[s] EXCEPT !.pc = "log"]
           frame == [from |-> Notice(s), msg |-> stream[s].msg]
<1>1. /\ r \in Streaming!Goroutine /\ r.pc = "log" /\ r.msg = stream[s].msg
      /\ r.index = stream[s].index /\ stream[s].pc = "say" /\ stream' = [stream EXCEPT ![s] = r]
  BY StreamType DEF Streaming!Goroutine, Notify, Streaming!Say, Streaming!Becomes
<1>2. Speaks(stream[s]) /\ frame \in Frame
  BY <1>1 DEF PipeInv, Frame, Speaks
<1>3. /\ out.mu = None /\ wire' = wire
      /\ out' = [out EXCEPT !.mu = Notice(s), !.buf = IF out.broken THEN @ ELSE Append(@, frame)]
  BY DEF Notify, Pipe!Write
<1>4. /\ out'.mu = Notice(s) /\ out'.broken = out.broken /\ out' \in Buffer
      /\ ~out.broken => out'.buf = Append(out.buf, frame)
  <2>1. out \in Buffer /\ out.buf \in Seq(Frame)
    BY DEF PipeInv, Buffer
  <2>2. Append(out.buf, frame) \in Seq(Frame)
    BY <1>2, <2>1, AppendRange
  <2> HIDE DEF frame
  <2> QED
    BY <1>3, <2>1, <2>2 DEF Buffer
<1>5. ~out.broken => frame \in ToSet(out'.buf)
  <2>1. out.buf \in Seq(Frame)
    BY DEF PipeInv, Buffer
  <2>2. frame \in Frame
    BY <1>2
  <2> HIDE DEF frame
  <2>3. frame \in ToSet(Append(out.buf, frame))
    BY <2>1, <2>2, AppendRange
  <2> QED
    BY <1>4, <2>3
<1>6. \A t \in Calls : stream[t].pc # "log"
  BY <1>3, Names DEF PipeInv
<1>7. stream'[s] = r /\ \A t \in Calls : t # s => stream'[t] = stream[t]
  BY <1>1 DEF PipeInv
<1>8. stream' \in [Calls -> Streaming!Goroutine]
  BY <1>1 DEF PipeInv
<1>9. Announced'
  <2>1. \A t \in Calls : Told(t)' = Told(t)
    BY <1>3 DEF Told
  <2> HIDE DEF r
  <2> QED
    BY <1>1, <1>7, <2>1 DEF PipeInv, Announced
<1>10. Mine(s)' = frame
  BY <1>1, <1>7 DEF Mine
<1> HIDE DEF r, frame
<1>11. Speaks(r)
  BY <1>1, <1>2 DEF Speaks
<1> QED
  BY <1>11, <1>1, <1>2, <1>3, <1>4, <1>5, <1>6, <1>7, <1>8, <1>9, <1>10 DEF PipeInv

(* A Log call returns: its frame is on the wire. *)
LEMMA FlushedFrames ==
    ASSUME PipeInv, NEW w, Pipe!FlushOK(w) \/ Pipe!FlushFails(w)
    PROVE  /\ out.mu = w /\ out' \in Buffer /\ wire' \in Seq(Frame)
           /\ ToSet(wire) \subseteq ToSet(wire')
           /\ Pipe!FlushOK(w) => ToSet(out.buf) \subseteq ToSet(wire') /\ ~out.broken
           /\ out'.mu = None
<1>1. out \in Buffer /\ out.buf \in Seq(Frame) /\ wire \in Seq(Frame)
  BY DEF PipeInv, Buffer
<1>2. CASE Pipe!FlushOK(w)
  <2>1. out.mu = w /\ ~out.broken /\ wire' = wire \o out.buf
        /\ out' = [out EXCEPT !.mu = None, !.buf = <<>>]
    BY <1>2 DEF Pipe!FlushOK
  <2>2. <<>> \in Seq(Frame)
    OBVIOUS
  <2>3. out' \in Buffer /\ out'.mu = None
    BY <1>1, <2>1, <2>2 DEF Buffer
  <2> QED
    BY <1>1, <2>1, <2>3, ConcatRange
<1>3. CASE Pipe!FlushFails(w) /\ ~Pipe!FlushOK(w)
  <2>1. out.mu = w /\ wire' = wire /\ out' = [out EXCEPT !.mu = None, !.broken = TRUE]
    BY <1>3 DEF Pipe!FlushFails
  <2>2. out' \in Buffer /\ out'.mu = None
    BY <1>1, <2>1 DEF Buffer
  <2> QED
    BY <1>1, <1>3, <2>1, <2>2
<1> QED
  BY <1>2, <1>3

(* The Log call of a stream ends. *)
LEMMA NotifiedKeeps ==
    ASSUME PipeInv, NEW s \in Calls, Notified(s)
    PROVE  PipeInv'
<1>1. Pipe!FlushOK(Notice(s)) \/ Pipe!FlushFails(Notice(s))
  BY DEF Notified
<1>2. /\ out.mu = Notice(s) /\ out' \in Buffer /\ wire' \in Seq(Frame)
      /\ ToSet(wire) \subseteq ToSet(wire')
      /\ Pipe!FlushOK(Notice(s)) => ToSet(out.buf) \subseteq ToSet(wire') /\ ~out.broken
  BY <1>1, FlushedFrames
<1>3. \A t \in Calls : t # s => stream[t].pc # "log"
  BY <1>2, Names DEF PipeInv
<1>4. \A t \in Calls : Told(t) => Told(t)'
  BY <1>2, StaysTold
<1>5. ASSUME NEW r \in Streaming!Goroutine, stream' = [stream EXCEPT ![s] = r], r.pc # "log",
             r.pc = "say" => Speaks(r),
             r.pc = "ended" /\ r.heard => Told(s)'
      PROVE  PipeInv'
  <2>1. stream'[s] = r /\ \A t \in Calls : t # s => stream'[t] = stream[t]
    BY <1>5 DEF PipeInv
  <2>2. stream' \in [Calls -> Streaming!Goroutine]
    BY <1>5 DEF PipeInv
  <2>3. Announced'
    BY <1>4, <1>5, <2>1 DEF PipeInv, Announced
  <2> QED
    BY <1>2, <1>3, <1>5, <2>1, <2>2, <2>3 DEF PipeInv
<1>6. CASE Streaming!LogFails(s) /\ Pipe!FlushFails(Notice(s))
  <2> DEFINE r == [stream[s] EXCEPT !.pc = "ended", !.heard = FALSE]
  <2>1. r \in Streaming!Goroutine /\ r.pc = "ended" /\ ~r.heard
    BY StreamType DEF Streaming!Goroutine
  <2>2. stream' = [stream EXCEPT ![s] = r]
    BY <1>6 DEF Streaming!LogFails, Streaming!Unheard, Streaming!Becomes
  <2> HIDE DEF r
  <2> QED
    BY <1>5, <2>1, <2>2
<1>7. CASE Streaming!LogReturns(s) /\ Pipe!FlushOK(Notice(s))
  <2>1. stream[s].pc = "log" /\ Speaks(stream[s])
        /\ Mine(s) \in ToSet(wire')
    BY <1>2, <1>7 DEF PipeInv, Streaming!LogReturns
  <2>2. stream[s].msg.kind # "chunk" => Told(s)'
    <3>1. stream[s].msg.kind \in {"chunk", "abort", "finalize"}
      BY <2>1 DEF Speaks, Streaming!Message
    <3>2. PICK i \in DOMAIN wire' : wire'[i] = Mine(s)
      BY <2>1 DEF ToSet
    <3>3. Mine(s).from = Notice(s) /\ Mine(s).msg = stream[s].msg
      BY DEF Mine
    <3> QED
      BY <3>1, <3>2, <3>3 DEF Told
  <2>3. CASE stream[s].msg.kind # "chunk"
    <3> DEFINE r == [stream[s] EXCEPT !.pc = "ended", !.heard = TRUE]
    <3>1. r \in Streaming!Goroutine /\ r.pc = "ended"
      BY StreamType DEF Streaming!Goroutine
    <3>2. stream' = [stream EXCEPT ![s] = r]
      BY <1>7, <2>3 DEF Streaming!LogReturns, Streaming!Becomes
    <3> HIDE DEF r
    <3> QED
      BY <1>5, <2>2, <2>3, <3>1, <3>2
  <2>4. CASE stream[s].msg.kind = "chunk"
    <3> DEFINE next == Streaming!Counted(stream[s])
    <3>1. next \in Streaming!Goroutine
      <4>1. stream[s].index + 1 \in 0..MaxChunks
        BY <2>1, <2>4, StreamType DEF Speaks
      <4> QED
        BY <4>1, StreamType DEF Streaming!Counted, Streaming!Goroutine
    <3>2. [next EXCEPT !.pc = "loop"] \in Streaming!Goroutine
          /\ [next EXCEPT !.pc = "loop"].pc = "loop"
      BY <3>1 DEF Streaming!Goroutine
    <3>3. stream' = [stream EXCEPT ![s] = [next EXCEPT !.pc = "loop"]]
          \/ stream' = [stream EXCEPT ![s] = Streaming!Closing(next)]
      BY <1>7, <2>4 DEF Streaming!LogReturns, Streaming!Becomes
    <3> HIDE DEF next
    <3> QED
      BY <1>5, <3>1, <3>2, <3>3, ClosingSays
  <2> QED
    BY <2>3, <2>4
<1> QED
  BY <1>6, <1>7 DEF Notified

(* A response, or the last flush: no Log call is under way.                 *)
LEMMA WriteOutput ==
    ASSUME PipeInv, NEW w, NEW frame \in Frame, stream' = stream,
           w \in {Reply(c) : c \in Calls}, Pipe!Write(w, frame)
    PROVE  PipeInv'
<1>1. out.mu = None /\ wire' = wire
  BY DEF Pipe!Write
<1>2. \A s \in Calls : stream[s].pc # "log"
  BY <1>1, Names DEF PipeInv
<1>3. out \in Buffer /\ out.buf \in Seq(Frame) /\ wire \in Seq(Frame)
  BY DEF PipeInv, Buffer
<1>4. Append(out.buf, frame) \in Seq(Frame)
  BY <1>3, AppendRange
<1>5. out' \in Buffer
  BY <1>3, <1>4 DEF Buffer, Pipe!Write
<1> QED
  BY <1>1, <1>2, <1>3, <1>5, QuietOutput

(* ... is flushed. *)
LEMMA FlushOutput ==
    ASSUME PipeInv, NEW w \in {Main} \cup {Reply(c) : c \in Calls}, stream' = stream,
           Pipe!FlushOK(w) \/ Pipe!FlushFails(w)
    PROVE  PipeInv'
<1>1. /\ out.mu = w /\ out' \in Buffer /\ wire' \in Seq(Frame)
      /\ ToSet(wire) \subseteq ToSet(wire')
  BY FlushedFrames
<1>2. \A s \in Calls : stream[s].pc # "log"
  BY <1>1, Names DEF PipeInv
<1> QED
  BY <1>1, <1>2, QuietOutput

-----------------------------------------------------------------------------
(* The order of a stream: what it has sent are chunks, as many as it has    *)
(* counted, until its goroutine ends; and the buffer of an output that is   *)
(* not broken holds at most the frame of the Log call under way.            *)
Ordered(s) ==
    \A i \in Sent(s) :
        LET before == {j \in Sent(s) : j < i} IN
        /\ wire[i].msg.index = Cardinality(before)
        /\ \A j \in before : wire[j].msg.kind = "chunk"
        /\ wire[i].msg.kind = "finalize" => stream[s].read = "eof"

(* What a goroutine is about to say has its number. *)
Due(r) == r.msg.index = r.index /\ (r.msg.kind = "finalize" => r.read = "eof")

Running(s) ==
    /\ Cardinality(Sent(s)) = stream[s].index
    /\ \A i \in Sent(s) : wire[i].msg.kind = "chunk"
    /\ stream[s].pc \in {"say", "log"} => Due(stream[s])

Held(f) == out.mu # None /\ \A s \in Calls : f.from = Notice(s) => stream[s].pc = "log" /\ f = Mine(s)

OrderInv ==
    /\ \A s \in Calls : Ordered(s) /\ (stream[s].pc # "ended" => Running(s))
    /\ ~out.broken => out.buf = <<>> \/ \E f \in Frame : out.buf = <<f>> /\ Held(f)

(* Nothing has been sent. *)
LEMMA OrderInitially == Init => OrderInv
<1> SUFFICES ASSUME Init PROVE OrderInv
  OBVIOUS
<1>1. wire = <<>> /\ out.buf = <<>>
  BY DEF Init, Pipe!PipelineInit, Pipe!OutInit
<1>2. \A s \in Calls : Sent(s) = {} /\ stream[s].index = 0 /\ stream[s].pc = "idle"
  BY <1>1 DEF Sent, Init, Streaming!StreamInit
<1>3. Cardinality({}) = 0
  BY FS_EmptySet
<1> QED
  BY <1>1, <1>2, <1>3 DEF OrderInv, Ordered, Running

(* The frames a stream has sent are finitely many. *)
LEMMA SentFinite ==
    ASSUME wire \in Seq(Frame), NEW s \in Calls
    PROVE  IsFiniteSet(Sent(s)) /\ Sent(s) \subseteq 1..Len(wire) /\ Len(wire) \in Nat
<1>1. Len(wire) \in Nat /\ DOMAIN wire = 1..Len(wire)
  OBVIOUS
<1>2. Sent(s) \subseteq 1..Len(wire)
  BY <1>1 DEF Sent
<1>3. IsFiniteSet(1..Len(wire))
  BY <1>1, FS_Interval
<1> QED
  BY <1>1, <1>2, <1>3, FS_Subset

(* A frame that is appended to the wire is one more of its sender, and the  *)
(* last.                                                                    *)
LEMMA OneMore ==
    ASSUME wire \in Seq(Frame), NEW f \in Frame, wire' = Append(wire, f), NEW s \in Calls
    PROVE  /\ \A i \in Sent(s) : wire'[i] = wire[i] /\ i < Len(wire) + 1
           /\ wire'[Len(wire) + 1] = f /\ Len(wire) + 1 \notin Sent(s)
           /\ f.from # Notice(s) => Sent(s)' = Sent(s)
           /\ f.from = Notice(s) =>
                 /\ Sent(s)' = Sent(s) \cup {Len(wire) + 1}
                 /\ Cardinality(Sent(s)') = Cardinality(Sent(s)) + 1
<1>1. /\ Len(wire) \in Nat /\ DOMAIN wire = 1..Len(wire)
      /\ DOMAIN wire' = 1..(Len(wire) + 1)
      /\ \A i \in 1..Len(wire) : wire'[i] = wire[i]
      /\ wire'[Len(wire) + 1] = f
  OBVIOUS
<1>2. IsFiniteSet(Sent(s)) /\ Sent(s) \subseteq 1..Len(wire)
  BY SentFinite
<1>3. \A i \in 1..Len(wire) : i < Len(wire) + 1 /\ i \in 1..(Len(wire) + 1)
  BY <1>1
<1>4. \A i \in 1..(Len(wire) + 1) : i \in 1..Len(wire) \/ i = Len(wire) + 1
  BY <1>1
<1>5. Len(wire) + 1 \in 1..(Len(wire) + 1) /\ Len(wire) + 1 \notin 1..Len(wire)
  BY <1>1
<1>6. Sent(s)' = {i \in 1..(Len(wire) + 1) : wire'[i].from = Notice(s)}
  BY <1>1 DEF Sent, Notice
<1>7. Sent(s) = {i \in 1..Len(wire) : wire[i].from = Notice(s)}
  BY <1>1 DEF Sent
<1>8. CASE f.from # Notice(s)
  BY <1>1, <1>2, <1>3, <1>4, <1>5, <1>6, <1>7, <1>8
<1>9. CASE f.from = Notice(s)
  <2>1. Sent(s)' = Sent(s) \cup {Len(wire) + 1}
    BY <1>1, <1>3, <1>4, <1>5, <1>6, <1>7, <1>9
  <2>2. Cardinality(Sent(s) \cup {Len(wire) + 1}) = Cardinality(Sent(s)) + 1
    BY <1>2, <1>5, FS_AddElement
  <2> QED
    BY <1>1, <1>2, <1>3, <1>5, <1>9, <2>1, <2>2
<1> QED
  BY <1>8, <1>9

(* A stream none of whose frames moves stays in order, wherever its reader  *)
(* has come to, as long as it has sent no finalizer.                        *)
LEMMA OrderedKept ==
    ASSUME NEW s \in Calls, Ordered(s), Sent(s)' = Sent(s),
           \A i \in Sent(s) : wire'[i] = wire[i],
           \/ stream'[s].read = stream[s].read
           \/ \A i \in Sent(s) : wire[i].msg.kind = "chunk"
    PROVE  Ordered(s)'
BY DEF Ordered

(* A stream moves on, and the output is left alone. *)
LEMMA OrderStream ==
    ASSUME PipeInv, OrderInv, NEW s \in Calls, NEW r \in Streaming!Goroutine,
           stream' = [stream EXCEPT ![s] = r], UNCHANGED <<out, wire>>,
           stream[s].pc # "ended", r.index = stream[s].index,
           r.pc \in {"say", "log"} => Due(r),
           stream[s].pc = "log" => r.pc = "log" /\ r.msg = stream[s].msg
    PROVE  OrderInv'
<1>1. stream'[s] = r /\ \A t \in Calls : t # s => stream'[t] = stream[t]
  BY DEF PipeInv
<1>2. \A t \in Calls : Sent(t)' = Sent(t)
  BY DEF Sent, Notice
<1>3. Running(s)
  BY DEF OrderInv
<1>4. Running(s)'
  BY <1>1, <1>2, <1>3 DEF Running, Due
<1>5. Ordered(s)'
  BY <1>2, <1>3, OrderedKept DEF OrderInv, Running
<1>6. ASSUME NEW t \in Calls, t # s
      PROVE  Ordered(t)' /\ (stream'[t].pc # "ended" => Running(t)')
  <2>1. Ordered(t)'
    BY <1>1, <1>2, <1>6, OrderedKept DEF OrderInv
  <2>2. ASSUME stream'[t].pc # "ended" PROVE Running(t)'
    BY <1>1, <1>2, <1>6, <2>2 DEF OrderInv, Running, Due
  <2> QED
    BY <2>1, <2>2
<1>7. ASSUME NEW f \in Frame, Held(f) PROVE Held(f)'
  <2>1. ASSUME NEW t \in Calls, f.from = Notice(t)
        PROVE  stream'[t].pc = "log" /\ f = Mine(t)'
    BY <1>1, <1>7, <2>1 DEF Held, Mine, Notice
  <2> QED
    BY <1>7, <2>1 DEF Held, Notice
<1> QED
  BY <1>4, <1>5, <1>6, <1>7 DEF OrderInv

(* What a notification is made of has its number. *)
LEMMA SaysNext ==
    ASSUME NEW r \in Streaming!Goroutine, NEW kind \in {"chunk", "abort", "finalize"},
           kind = "finalize" => r.read = "eof"
    PROVE  Due(Streaming!Says(r, kind)) /\ Streaming!Says(r, kind).index = r.index
<1> DEFINE m == [kind |-> kind, index |-> r.index]
<1>1. Streaming!Says(r, kind) = [r EXCEPT !.pc = "say", !.msg = m]
  BY DEF Streaming!Says
<1>2. m.kind = kind /\ m.index = r.index
  OBVIOUS
<1> HIDE DEF m
<1>3. /\ Streaming!Says(r, kind).msg = m /\ Streaming!Says(r, kind).index = r.index
      /\ Streaming!Says(r, kind).read = r.read
  BY <1>1 DEF Streaming!Goroutine
<1> QED
  BY <1>2, <1>3 DEF Due

(* See SaysNext. *)
LEMMA ClosingNext ==
    ASSUME NEW r \in Streaming!Goroutine
    PROVE  Due(Streaming!Closing(r)) /\ Streaming!Closing(r).index = r.index
BY SaysNext DEF Streaming!Closing, Streaming!Fault

(* A stream is started, runs, expires or is refused. *)
LEMMA StreamsOrdered ==
    ASSUME PipeInv, OrderInv, NEW s \in Calls,
           StreamHeavyPayload(s) \/ RunStream(s) \/ ExpireStream(s) \/ Refused(s)
    PROVE  OrderInv'
<1>1. UNCHANGED <<out, wire>>
  BY DEF StreamHeavyPayload, RunStream, ExpireStream, Refused, pipeVars
<1>2. stream[s] \in Streaming!Goroutine
  BY StreamType
<1>3. stream[s].pc \notin {"ended", "log"} \/ ExpireStream(s)
  BY DEF StreamHeavyPayload, Streaming!StartStream, RunStream, Streaming!Cancelled,
         Streaming!ReadChunk, Streaming!ReaderPanics, Refused
<1>4. ASSUME NEW r \in Streaming!Goroutine, Streaming!Becomes(s, r), r.index = stream[s].index,
             r.pc \in {"say", "log"} => Due(r), ~ExpireStream(s)
      PROVE  OrderInv'
  BY <1>1, <1>3, <1>4, OrderStream DEF Streaming!Becomes
<1>5. CASE StreamHeavyPayload(s)
  <2> DEFINE r == [stream[s] EXCEPT !.pc = "loop"]
  <2>1. r \in Streaming!Goroutine /\ r.pc = "loop" /\ r.index = stream[s].index
    BY <1>2 DEF Streaming!Goroutine
  <2>2. stream' = [stream EXCEPT ![s] = r] /\ stream[s].pc = "idle"
    BY <1>5 DEF StreamHeavyPayload, Streaming!StartStream, Streaming!Becomes
  <2> HIDE DEF r
  <2> QED
    BY <1>1, <2>1, <2>2, OrderStream
<1>6. CASE ExpireStream(s)
  <2> DEFINE r == [stream[s] EXCEPT !.expired = TRUE]
  <2>1. /\ r \in Streaming!Goroutine /\ r.pc = stream[s].pc /\ r.msg = stream[s].msg
        /\ r.index = stream[s].index /\ r.read = stream[s].read /\ stream[s].pc # "ended"
    BY <1>2, <1>6 DEF Streaming!Goroutine, ExpireStream, Streaming!Expire
  <2>2. stream' = [stream EXCEPT ![s] = r]
    BY <1>6 DEF ExpireStream, Streaming!Expire, Streaming!Becomes
  <2> HIDE DEF r
  <2>3. r.pc \in {"say", "log"} => Due(r)
    BY <2>1 DEF OrderInv, Running, Due
  <2> QED
    BY <1>1, <2>1, <2>2, <2>3, OrderStream
<1>7. CASE Refused(s)
  <2> DEFINE r == [stream[s] EXCEPT !.pc = "ended", !.heard = FALSE]
  <2>1. r \in Streaming!Goroutine /\ r.pc = "ended" /\ r.index = stream[s].index
    BY <1>2 DEF Streaming!Goroutine
  <2>2. stream' = [stream EXCEPT ![s] = r] /\ stream[s].pc = "say"
    BY <1>7 DEF Refused, Streaming!Unheard, Streaming!Becomes
  <2> HIDE DEF r
  <2> QED
    BY <1>1, <2>1, <2>2, OrderStream
<1>8. CASE RunStream(s)
  <2>0. stream[s].pc = "loop"
    BY <1>8 DEF RunStream, Streaming!Cancelled, Streaming!ReadChunk, Streaming!ReaderPanics
  <2>1. CASE Streaming!Cancelled(s)
    <3>1. /\ Streaming!Says(stream[s], "abort") \in Streaming!Goroutine
          /\ Due(Streaming!Says(stream[s], "abort"))
          /\ Streaming!Says(stream[s], "abort").index = stream[s].index
      BY <1>2, SaysNext, SaysSomething
    <3>2. stream' = [stream EXCEPT ![s] = Streaming!Says(stream[s], "abort")]
      BY <2>1 DEF Streaming!Cancelled, Streaming!Becomes
    <3> QED
      BY <1>1, <2>0, <3>1, <3>2, OrderStream
  <2>2. CASE Streaming!ReadChunk(s)
    <3>1. ASSUME NEW what \in {"data", "eof", "fault"}
          PROVE  /\ [stream[s] EXCEPT !.read = what] \in Streaming!Goroutine
                 /\ [stream[s] EXCEPT !.read = what].index = stream[s].index
      BY <1>2 DEF Streaming!Goroutine
    <3>2. PICK r \in Streaming!Goroutine :
              /\ r.index = stream[s].index
              /\ \/ stream' = [stream EXCEPT ![s] = Streaming!Says(r, "chunk")]
                 \/ stream' = [stream EXCEPT ![s] = Streaming!Closing(r)]
      BY <2>2, <3>1 DEF Streaming!ReadChunk, Streaming!Becomes
    <3>3. /\ Streaming!Says(r, "chunk") \in Streaming!Goroutine /\ Due(Streaming!Says(r, "chunk"))
          /\ Streaming!Says(r, "chunk").index = stream[s].index
      BY <3>2, SaysSomething, SaysNext
    <3>4. /\ Streaming!Closing(r) \in Streaming!Goroutine /\ Due(Streaming!Closing(r))
          /\ Streaming!Closing(r).index = stream[s].index
      BY <3>2, ClosingSays, ClosingNext
    <3> QED
      BY <1>1, <2>0, <3>2, <3>3, <3>4, OrderStream
  <2>3. CASE Streaming!ReaderPanics(s)
    <3> DEFINE r == [stream[s] EXCEPT !.pc = "ended", !.read = "panic"]
    <3>1. r \in Streaming!Goroutine /\ r.pc = "ended" /\ r.index = stream[s].index
      BY <1>2 DEF Streaming!Goroutine
    <3>2. stream' = [stream EXCEPT ![s] = r]
      BY <2>3 DEF Streaming!ReaderPanics, Streaming!Becomes
    <3> HIDE DEF r
    <3> QED
      BY <1>1, <2>0, <3>1, <3>2, OrderStream
  <2> QED
    BY <1>8, <2>1, <2>2, <2>3 DEF RunStream
<1> QED
  BY <1>5, <1>6, <1>7, <1>8

(* Streams whose goroutines and frames stay as they are. *)
LEMMA QuietStream ==
    ASSUME OrderInv, NEW s \in Calls, stream'[s] = stream[s], Sent(s)' = Sent(s),
           \A i \in Sent(s) : wire'[i] = wire[i]
    PROVE  Ordered(s)' /\ (stream'[s].pc # "ended" => Running(s)')
<1>1. Ordered(s)'
  BY OrderedKept DEF OrderInv
<1>2. ASSUME stream'[s].pc # "ended" PROVE Running(s)'
  BY <1>2 DEF OrderInv, Running
<1> QED
  BY <1>1, <1>2

(* A Log call begins. *)
LEMMA NotifyOrdered ==
    ASSUME PipeInv, OrderInv, NEW s \in Calls, Notify(s)
    PROVE  OrderInv'
<1> DEFINE r == [stream[s] EXCEPT !.pc = "log"]
<1>0. PICK frame : frame = [from |-> Notice(s), msg |-> stream[s].msg]
  OBVIOUS
<1>1. /\ r.pc = "log" /\ r.msg = stream[s].msg /\ r.index = stream[s].index
      /\ r.read = stream[s].read
      /\ stream[s].pc = "say" /\ stream' = [stream EXCEPT ![s] = r]
  BY StreamType DEF Streaming!Goroutine, Notify, Streaming!Say, Streaming!Becomes
<1>2. frame \in Frame /\ frame.from = Notice(s)
  BY <1>0, <1>1 DEF PipeInv, Frame, Speaks
<1>3. /\ out.mu = None /\ wire' = wire
      /\ out' = [out EXCEPT !.mu = Notice(s), !.buf = IF out.broken THEN @ ELSE Append(@, frame)]
  BY <1>0 DEF Notify, Pipe!Write
<1>4. stream'[s] = r /\ \A t \in Calls : t # s => stream'[t] = stream[t]
  BY <1>1 DEF PipeInv
<1>5. Mine(s)' = frame
  BY <1>0, <1>1, <1>4 DEF Mine, Notice
<1> HIDE DEF r
<1>6. \A t \in Calls : Sent(t)' = Sent(t)
  BY <1>3 DEF Sent, Notice
<1>7. Ordered(s)' /\ Running(s)'
  <2>1. Running(s)
    BY <1>1 DEF OrderInv
  <2>2. Running(s)'
    BY <1>1, <1>3, <1>4, <1>6, <2>1 DEF Running, Due
  <2>3. Ordered(s)'
    BY <1>3, <1>6, <2>1, OrderedKept DEF OrderInv, Running
  <2> QED
    BY <2>2, <2>3
<1>8. ASSUME NEW t \in Calls, t # s
      PROVE  Ordered(t)' /\ (stream'[t].pc # "ended" => Running(t)')
  BY <1>3, <1>4, <1>6, <1>8, QuietStream
<1>9. ASSUME ~out'.broken
      PROVE  out'.buf = <<frame>> /\ Held(frame)'
  <2>1. ~out.broken /\ out'.mu = Notice(s) /\ out'.buf = Append(out.buf, frame)
    BY <1>3, <1>9 DEF PipeInv, Buffer
  <2>2. out.buf = <<>>
    BY <1>3, <2>1 DEF OrderInv, Held
  <2>3. Held(frame)'
    BY <1>1, <1>2, <1>4, <1>5, <2>1, Names DEF Held, Notice
  <2> QED
    BY <2>1, <2>2, <2>3
<1> QED
  BY <1>2, <1>7, <1>8, <1>9 DEF OrderInv

(* A flush writes what the buffer held: nothing, or one frame. *)
LEMMA FlushWrites ==
    ASSUME PipeInv, OrderInv, NEW w, Pipe!FlushOK(w)
    PROVE  /\ out.mu = w /\ ~out.broken /\ out'.buf = <<>>
           /\ \/ wire' = wire /\ out.buf = <<>>
              \/ \E f \in Frame : out.buf = <<f>> /\ Held(f) /\ wire' = Append(wire, f)
<1>1. out.mu = w /\ ~out.broken /\ wire' = wire \o out.buf /\ out'.buf = <<>>
  BY DEF Pipe!FlushOK, PipeInv, Buffer
<1>2. wire \in Seq(Frame)
  BY DEF PipeInv
<1>3. CASE out.buf = <<>>
  BY <1>1, <1>2, <1>3
<1>4. ASSUME NEW f \in Frame, out.buf = <<f>>, Held(f)
      PROVE  wire' = Append(wire, f)
  BY <1>1, <1>2, <1>4
<1> QED
  BY <1>1, <1>3, <1>4 DEF OrderInv

(* A Log call fails, and nothing more is written. *)
LEMMA LogFailsOrdered ==
    ASSUME PipeInv, OrderInv, NEW s \in Calls, Streaming!LogFails(s), Pipe!FlushFails(Notice(s))
    PROVE  OrderInv'
<1>1. wire' = wire /\ out'.broken
  BY DEF Pipe!FlushFails, PipeInv, Buffer
<1> DEFINE r == [stream[s] EXCEPT !.pc = "ended", !.heard = FALSE]
<1>2. r.pc = "ended" /\ stream' = [stream EXCEPT ![s] = r] /\ r.read = stream[s].read
  BY StreamType DEF Streaming!LogFails, Streaming!Unheard, Streaming!Becomes, Streaming!Goroutine
<1> HIDE DEF r
<1>3. stream'[s] = r /\ \A t \in Calls : t # s => stream'[t] = stream[t]
  BY <1>2 DEF PipeInv
<1>4. \A t \in Calls : Sent(t)' = Sent(t)
  BY <1>1 DEF Sent, Notice
<1>5. Ordered(s)'
  BY <1>1, <1>2, <1>3, <1>4, OrderedKept DEF OrderInv
<1>6. ASSUME NEW t \in Calls, t # s
      PROVE  Ordered(t)' /\ (stream'[t].pc # "ended" => Running(t)')
  BY <1>1, <1>3, <1>4, <1>6, QuietStream
<1> QED
  BY <1>1, <1>2, <1>3, <1>5, <1>6 DEF OrderInv


(* A Log call returns: the frame of the stream is on the wire, and counted  *)
(* when it is a chunk.                                                      *)
LEMMA LogReturnsOrdered ==
    ASSUME PipeInv, OrderInv, NEW s \in Calls, Streaming!LogReturns(s), Pipe!FlushOK(Notice(s))
    PROVE  OrderInv'
<1>1. PICK f \in Frame : f = Mine(s) /\ wire' = Append(wire, f)
  <2>1. out.mu = Notice(s) /\ ~out.broken
    BY FlushWrites
  <2>2. Mine(s) \in ToSet(out.buf)
    BY <2>1 DEF PipeInv, Streaming!LogReturns
  <2>3. out.buf # <<>>
    BY <2>2 DEF ToSet
  <2>4. PICK f \in Frame : out.buf = <<f>> /\ wire' = Append(wire, f)
    BY <2>3, FlushWrites
  <2>5. ToSet(<<f>>) = {f}
    BY DEF ToSet
  <2> QED
    BY <2>2, <2>4, <2>5
<1>2. f.from = Notice(s) /\ f.msg = stream[s].msg
  BY <1>1 DEF Mine
<1>3. /\ stream[s] \in Streaming!Goroutine /\ stream[s].pc = "log" /\ stream[s].index \in Nat
      /\ wire \in Seq(Frame) /\ out'.buf = <<>>
  BY StreamType, FlushWrites DEF PipeInv, Streaming!LogReturns
<1>4. Running(s) /\ Due(stream[s]) /\ Speaks(stream[s])
  BY <1>3 DEF OrderInv, Running, PipeInv
<1>5. PICK r : /\ stream' = [stream EXCEPT ![s] = r]
               /\ stream[s].msg.kind = "chunk" =>
                     /\ r.index = stream[s].index + 1
                     /\ r.pc \in {"say", "log"} => Due(r)
               /\ stream[s].msg.kind # "chunk" => r.pc = "ended" /\ r.read = stream[s].read
  <2>1. CASE stream[s].msg.kind # "chunk"
    <3> DEFINE r == [stream[s] EXCEPT !.pc = "ended", !.heard = TRUE]
    <3>1. r.pc = "ended" /\ r.read = stream[s].read
      BY <1>3 DEF Streaming!Goroutine
    <3>2. stream' = [stream EXCEPT ![s] = r]
      BY <2>1 DEF Streaming!LogReturns, Streaming!Becomes
    <3> HIDE DEF r
    <3> QED
      BY <2>1, <3>1, <3>2
  <2>2. CASE stream[s].msg.kind = "chunk"
    <3> DEFINE next == Streaming!Counted(stream[s])
    <3>1. next \in Streaming!Goroutine /\ next.index = stream[s].index + 1
      <4>1. stream[s].index + 1 \in 0..MaxChunks
        BY <1>4, <2>2, StreamType DEF Speaks
      <4> QED
        BY <4>1, <1>3 DEF Streaming!Counted, Streaming!Goroutine
    <3>2. [next EXCEPT !.pc = "loop"].pc = "loop" /\ [next EXCEPT !.pc = "loop"].index = next.index
      BY <3>1 DEF Streaming!Goroutine
    <3>3. stream' = [stream EXCEPT ![s] = [next EXCEPT !.pc = "loop"]]
          \/ stream' = [stream EXCEPT ![s] = Streaming!Closing(next)]
      BY <2>2 DEF Streaming!LogReturns, Streaming!Becomes
    <3> HIDE DEF next
    <3>4. Due(Streaming!Closing(next)) /\ Streaming!Closing(next).index = next.index
      BY <3>1, ClosingNext
    <3> QED
      BY <2>2, <3>1, <3>2, <3>3, <3>4
  <2> QED
    BY <2>1, <2>2
<1>6. stream'[s] = r /\ \A t \in Calls : t # s => stream'[t] = stream[t]
  BY <1>5 DEF PipeInv
<1> DEFINE last == Len(wire) + 1
<1>7. /\ \A i \in Sent(s) : wire'[i] = wire[i] /\ i < last /\ i # last
      /\ wire'[last] = f /\ Sent(s)' = Sent(s) \cup {last}
      /\ Cardinality(Sent(s)') = stream[s].index + 1
  BY <1>1, <1>2, <1>3, <1>4, OneMore DEF Running
<1>8. last \in Nat /\ \A i \in Sent(s) : i \in Nat
  BY <1>3, SentFinite
<1> HIDE DEF last
<1>9. Ordered(s)'
  <2>1. {j \in Sent(s)' : j < last} = Sent(s)
    BY <1>7, <1>8
  <2>2. \A i \in Sent(s) : {j \in Sent(s)' : j < i} = {j \in Sent(s) : j < i}
    BY <1>7, <1>8
  <2>3. \A i \in Sent(s) : wire[i].msg.kind = "chunk" /\ wire'[i] = wire[i]
    BY <1>4, <1>7 DEF Running
  <2>4. wire'[last].msg = stream[s].msg /\ Cardinality(Sent(s)) = stream[s].index
        /\ stream[s].msg.index = stream[s].index
    BY <1>2, <1>4, <1>7 DEF Running, Due
  <2>5. stream[s].msg.kind = "finalize" => stream'[s].read = "eof"
    BY <1>4, <1>5, <1>6 DEF Due
  <2>6. ASSUME NEW i \in Sent(s)
        PROVE  LET before == {j \in Sent(s)' : j < i} IN
               /\ wire'[i].msg.index = Cardinality(before)
               /\ \A j \in before : wire'[j].msg.kind = "chunk"
               /\ wire'[i].msg.kind = "finalize" => stream'[s].read = "eof"
    BY <2>2, <2>3 DEF OrderInv, Ordered
  <2>7. LET before == {j \in Sent(s)' : j < last} IN
        /\ wire'[last].msg.index = Cardinality(before)
        /\ \A j \in before : wire'[j].msg.kind = "chunk"
        /\ wire'[last].msg.kind = "finalize" => stream'[s].read = "eof"
    BY <2>1, <2>3, <2>4, <2>5
  <2> QED
    BY <1>7, <2>6, <2>7 DEF Ordered
<1>10. stream'[s].pc # "ended" => Running(s)'
  BY <1>2, <1>4, <1>5, <1>6, <1>7 DEF Running
<1>11. ASSUME NEW t \in Calls, t # s
       PROVE  Ordered(t)' /\ (stream'[t].pc # "ended" => Running(t)')
  <2>1. f.from # Notice(t)
    BY <1>2, <1>11, Names
  <2>2. Sent(t)' = Sent(t) /\ \A i \in Sent(t) : wire'[i] = wire[i]
    BY <1>1, <1>3, <2>1, OneMore
  <2> QED
    BY <1>6, <1>11, <2>2, QuietStream
<1> QED
  BY <1>3, <1>9, <1>10, <1>11 DEF OrderInv

(* The output changes, and no frame of a stream is written. *)
LEMMA OrderOutput ==
    ASSUME PipeInv, OrderInv, stream' = stream,
           \/ \E c \in Calls : Pipe!Write(Reply(c), [from |-> Reply(c), msg |-> Streaming!NoMessage])
           \/ Pipe!Lock(Main)
           \/ \E w \in {Main} \cup {Reply(c) : c \in Calls} : Pipe!FlushOK(w) \/ Pipe!FlushFails(w)
    PROVE  OrderInv'
<1>1. ASSUME \A t \in Calls : Sent(t)' = Sent(t) /\ \A i \in Sent(t) : wire'[i] = wire[i],
             ~out'.broken => out'.buf = <<>> \/ \E f \in Frame : out'.buf = <<f>> /\ Held(f)'
      PROVE  OrderInv'
  <2>1. \A t \in Calls : Ordered(t)' /\ (stream'[t].pc # "ended" => Running(t)')
    BY <1>1, QuietStream
  <2> QED
    BY <1>1, <2>1 DEF OrderInv
<1>2. out \in Buffer /\ wire \in Seq(Frame)
  BY DEF PipeInv
<1>3. wire' = wire => \A t \in Calls : Sent(t)' = Sent(t) /\ \A i \in Sent(t) : wire'[i] = wire[i]
  BY DEF Sent, Notice
<1>4. ASSUME NEW c \in Calls, Pipe!Write(Reply(c), [from |-> Reply(c), msg |-> Streaming!NoMessage])
      PROVE  OrderInv'
  <2>1. PICK f : f = [from |-> Reply(c), msg |-> Streaming!NoMessage]
    OBVIOUS
  <2>2. f \in Frame /\ f.from = Reply(c)
    BY <2>1 DEF Frame
  <2>3. /\ out.mu = None /\ wire' = wire
        /\ out' = [out EXCEPT !.mu = Reply(c), !.buf = IF out.broken THEN @ ELSE Append(@, f)]
    BY <1>4, <2>1 DEF Pipe!Write
  <2>4. ASSUME ~out'.broken PROVE out'.buf = <<f>> /\ Held(f)'
    <3>1. ~out.broken /\ out'.mu = Reply(c) /\ out'.buf = Append(out.buf, f)
      BY <1>2, <2>3, <2>4 DEF Buffer
    <3>2. out.buf = <<>>
      BY <2>3, <3>1 DEF OrderInv, Held
    <3>3. Reply(c) # None
      BY ReplyNamed
    <3>4. \A s \in Calls : f.from # Notice(s)
      BY <2>2, Names
    <3>5. Held(f)'
      BY <3>1, <3>3, <3>4 DEF Held, Notice
    <3> QED
      BY <3>1, <3>2, <3>5
  <2> QED
    BY <1>1, <1>3, <2>2, <2>3, <2>4
<1>5. CASE Pipe!Lock(Main)
  <2>1. out.mu = None /\ wire' = wire /\ out' = [out EXCEPT !.mu = Main]
    BY <1>5 DEF Pipe!Lock
  <2>2. ~out'.broken => out'.buf = <<>>
    BY <1>2, <2>1 DEF OrderInv, Held, Buffer
  <2> QED
    BY <1>1, <1>3, <2>1, <2>2
<1>6. ASSUME NEW w \in {Main} \cup {Reply(c) : c \in Calls}, Pipe!FlushOK(w)
      PROVE  OrderInv'
  <2>1. /\ out.mu = w /\ ~out.broken /\ out'.buf = <<>>
        /\ \/ wire' = wire
           \/ \E f \in Frame : Held(f) /\ wire' = Append(wire, f)
    BY <1>6, FlushWrites
  <2>2. CASE wire' = wire
    BY <1>1, <1>3, <2>1, <2>2
  <2>3. ASSUME NEW f \in Frame, Held(f), wire' = Append(wire, f)
        PROVE  OrderInv'
    <3>1. \A t \in Calls : w # Notice(t)
      BY Names
    <3>2. \A t \in Calls : f.from # Notice(t)
      BY <2>1, <2>3, <3>1 DEF Held, PipeInv
    <3>3. \A t \in Calls : Sent(t)' = Sent(t) /\ \A i \in Sent(t) : wire'[i] = wire[i]
      BY <1>2, <2>3, <3>2, OneMore
    <3> QED
      BY <1>1, <2>1, <3>3
  <2> QED
    BY <2>1, <2>2, <2>3
<1>7. ASSUME NEW w \in {Main} \cup {Reply(c) : c \in Calls}, Pipe!FlushFails(w)
      PROVE  OrderInv'
  <2>1. wire' = wire /\ out'.broken
    BY <1>2, <1>7 DEF Pipe!FlushFails, Buffer
  <2> QED
    BY <1>1, <1>3, <2>1
<1> QED
  BY <1>4, <1>5, <1>6, <1>7

(* Steps that leave the streams and the output alone. *)
LEMMA OrderFrame == OrderInv /\ UNCHANGED <<stream, out, wire>> => OrderInv'
<1> SUFFICES ASSUME OrderInv, UNCHANGED <<stream, out, wire>> PROVE OrderInv'
  OBVIOUS
<1>1. \A s \in Calls : Sent(s)' = Sent(s)
  BY DEF Sent, Notice
<1>2. \A s \in Calls : Ordered(s)' /\ (stream'[s].pc # "ended" => Running(s)')
  BY <1>1, QuietStream
<1>3. \A f \in Frame : Held(f) => Held(f)'
  BY DEF Held, Mine, Notice
<1> QED
  BY <1>2, <1>3 DEF OrderInv

-----------------------------------------------------------------------------
IInv == load \in Workloads /\ LogInv /\ ArtifactInv /\ PipeInv /\ OrderInv

(* Steps that leave a part alone. *)
LEMMA LogFrame == LogInv /\ UNCHANGED logVars => LogInv'
BY DEF LogInv, logVars, Logs!Passed

(* See LogFrame. *)
LEMMA ArtifactFrame == ArtifactInv /\ UNCHANGED toolVars => ArtifactInv'
BY DEF ArtifactInv, toolVars

(* See LogFrame. *)
LEMMA PipeFrame == PipeInv /\ UNCHANGED <<stream, out, wire>> => PipeInv'
BY DEF PipeInv, Announced, Told, Mine

(* The steps of a call. *)
LEMMA CallsKeep ==
    ASSUME IInv, NEW c \in Calls,
           \/ Accept(c) \/ ServeCall(c) \/ DeliverStandalone(c) \/ NoSessionID(c)
           \/ StreamHeavyPayload(c)
    PROVE  IInv'
<1>1. load' = load /\ UNCHANGED logVars
  BY DEF Accept, ServeCall, DeliverStandalone, NoSessionID, StreamHeavyPayload
<1>2. ArtifactInv'
  <2>1. CASE ServeCall(c)
    BY <2>1, PlainCallsKeep, TempKeeps, RenameKeeps DEF IInv, ServeCall, Tool!Serve
  <2>2. CASE ~ServeCall(c)
    BY <2>2, PlainCallsKeep DEF IInv, Accept, DeliverStandalone, NoSessionID, StreamHeavyPayload
  <2> QED
    BY <2>1, <2>2
<1>3. PipeInv'
  <2>1. CASE StreamHeavyPayload(c)
    BY <2>1, OtherStreamsKeep DEF IInv
  <2>2. CASE ~StreamHeavyPayload(c)
    BY <2>2, PipeFrame DEF IInv, Accept, ServeCall, DeliverStandalone, NoSessionID, pipeVars
  <2> QED
    BY <2>1, <2>2
<1>4. OrderInv'
  <2>1. CASE StreamHeavyPayload(c)
    BY <2>1, StreamsOrdered DEF IInv
  <2>2. CASE ~StreamHeavyPayload(c)
    BY <2>2, OrderFrame DEF IInv, Accept, ServeCall, DeliverStandalone, NoSessionID, pipeVars
  <2> QED
    BY <2>1, <2>2
<1> QED
  BY <1>1, <1>2, <1>3, <1>4, LogFrame DEF IInv

(* The steps of responses and streams. *)
LEMMA OutputKeeps ==
    ASSUME IInv, NEW c \in Calls,
           \/ WriteReply(c) \/ ReplyWritten(c) \/ RunStream(c) \/ ExpireStream(c) \/ Notify(c)
           \/ Refused(c) \/ Notified(c)
    PROVE  IInv'
<1>1. load' = load /\ UNCHANGED logVars /\ UNCHANGED toolVars
  BY DEF WriteReply, ReplyWritten, RunStream, ExpireStream, Notify, Refused, Notified
<1>2. CASE WriteReply(c)
  <2> DEFINE frame == [from |-> Reply(c), msg |-> Streaming!NoMessage]
  <2>1. frame \in Frame
    BY DEF Frame
  <2>2. stream' = stream /\ (Pipe!Write(Reply(c), frame) \/ UNCHANGED pipeVars)
    BY <1>2 DEF WriteReply
  <2> HIDE DEF frame
  <2>3. PipeInv'
    BY <2>1, <2>2, WriteOutput, PipeFrame DEF IInv, pipeVars
  <2>4. OrderInv'
    BY <1>2, OrderOutput, OrderFrame DEF IInv, pipeVars, WriteReply
  <2> QED
    BY <1>1, <2>3, <2>4, LogFrame, ArtifactFrame DEF IInv
<1>3. CASE ReplyWritten(c)
  <2>1. PipeInv'
    BY <1>3, FlushOutput DEF IInv, ReplyWritten
  <2>2. OrderInv'
    BY <1>3, OrderOutput DEF IInv, ReplyWritten
  <2> QED
    BY <1>1, <2>1, <2>2, LogFrame, ArtifactFrame DEF IInv
<1>4. CASE RunStream(c) \/ ExpireStream(c) \/ Notify(c) \/ Refused(c) \/ Notified(c)
  <2>1. PipeInv'
    BY <1>4, RunStreamKeeps, OtherStreamsKeep, NotifyKeeps, NotifiedKeeps DEF IInv
  <2>2. OrderInv'
    BY <1>4, StreamsOrdered, NotifyOrdered, LogReturnsOrdered, LogFailsOrdered
    DEF IInv, Notified
  <2> QED
    BY <1>1, <2>1, <2>2, LogFrame, ArtifactFrame DEF IInv
<1> QED
  BY <1>2, <1>3, <1>4

(* The steps of the log pipeline. *)
LEMMA LogsKeep ==
    ASSUME IInv, LogLine \/ (\E k \in 1..Sinks : RunWorker(k)) \/ CleanUpLogs
    PROVE  IInv'
<1>1. load' = load /\ UNCHANGED <<stream, out, wire>> /\ UNCHANGED toolVars
  BY DEF LogLine, RunWorker, CleanUpLogs, pipeVars
<1>2. load.lines \subseteq Lines
  BY WorkloadsAssumption DEF IInv
<1>3. LogInv'
  BY <1>2, LogKeeps, WriteKeeps, RingKeeps, WorkerKeeps, CleanupKeeps
  DEF IInv, LogLine, RunWorker, K
<1> QED
  BY <1>1, <1>3, PipeFrame, OrderFrame, ArtifactFrame DEF IInv

(* The steps of the main goroutine, and the end of the input. *)
LEMMA MainKeeps ==
    ASSUME IInv, EndOfInput \/ Connected \/ SessionEnds \/ FinalFlush \/ Flushed \/ Exit
    PROVE  IInv'
<1>1. load' = load /\ stream' = stream /\ UNCHANGED logVars /\ UNCHANGED toolVars
  BY DEF EndOfInput, Connected, SessionEnds, FinalFlush, Flushed, Exit
<1>2. CASE UNCHANGED <<out, wire>>
  BY <1>1, <1>2, PipeFrame, OrderFrame, LogFrame, ArtifactFrame DEF IInv
<1>3. CASE Flushed
  <2>1. PipeInv'
    BY <1>1, <1>3, FlushOutput DEF IInv, Flushed
  <2>2. OrderInv'
    BY <1>1, <1>3, OrderOutput DEF IInv, Flushed
  <2> QED
    BY <1>1, <2>1, <2>2, LogFrame, ArtifactFrame DEF IInv
<1>4. CASE FinalFlush
  <2>1. out.mu = None /\ out' = [out EXCEPT !.mu = Main] /\ wire' = wire
    BY <1>4 DEF FinalFlush, Pipe!Lock
  <2>2. out' \in Buffer /\ \A s \in Calls : stream[s].pc # "log"
    BY <2>1, Names DEF IInv, PipeInv, Buffer
  <2>3. PipeInv'
    BY <1>1, <2>1, <2>2, QuietOutput DEF IInv, PipeInv
  <2>4. OrderInv'
    BY <1>1, <1>4, OrderOutput DEF IInv, FinalFlush
  <2> QED
    BY <1>1, <2>3, <2>4, LogFrame, ArtifactFrame DEF IInv
<1> QED
  BY <1>2, <1>3, <1>4
  DEF EndOfInput, Connected, SessionEnds, Exit, Pipe!ReadEOF, Pipe!CloseInput, pipeVars

(* Every step keeps the parts. *)
LEMMA StepKeeps == IInv /\ [Next]_vars => IInv'
<1> SUFFICES ASSUME IInv, [Next]_vars PROVE IInv'
  OBVIOUS
<1>1. CASE UNCHANGED vars
  BY <1>1, LogFrame, ArtifactFrame, PipeFrame, OrderFrame DEF IInv, vars, pipeVars
<1>2. CASE Next
  BY <1>2, CallsKeep, OutputKeeps, LogsKeep, MainKeeps DEF Next, Shutdown
<1> QED
  BY <1>1, <1>2

(* The parts hold in every state. *)
THEOREM Invariance == Spec => []IInv
<1>1. Init => IInv
  BY LogInitially, ArtifactInitially, PipeInitially, OrderInitially DEF IInv, Init
<1> QED
  BY <1>1, StepKeeps, PTL DEF Spec

(* The lines of every log file are accounted for when its worker is done,   *)
(* for any number of files, loggers, lines and any capacity.                *)
THEOREM LinesAccountedHolds == Spec => []LinesAccounted
<1>1. IInv => LinesAccounted
  BY DEF IInv, LogInv, Good, Accounted, LinesAccounted, K
<1> QED
  BY <1>1, Invariance, PTL

(* Artifacts are whole, and where a call reported one there is one, for any *)
(* calls that share any paths.                                              *)
THEOREM ArtifactReportedHolds == Spec => []ArtifactReported
<1>1. IInv => ArtifactReported
  BY DEF IInv, ArtifactInv, ArtifactReported
<1> QED
  BY <1>1, Invariance, PTL

(* Streams run once there is a session, and one that ended unheard had a    *)
(* reason that lasts: the session does not come back, the output stays      *)
(* broken, and the goroutine that ended changes no more.                    *)
Refusals ==
    \A s \in Calls :
        /\ stream[s].pc # "idle" => main # "connect"
        /\ stream[s].pc # "ended" => stream[s].heard
        /\ stream[s].pc = "ended" /\ ~stream[s].heard => Excused(s)

(* No stream moves. *)
LEMMA QuietRefusals ==
    ASSUME Refusals, stream' = stream, out.broken => out'.broken,
           \/ main' = main \/ main = "connect"
           \/ main' \notin {"connect", "serving"}
    PROVE  Refusals'
<1>1. ASSUME NEW s \in Calls, stream[s].pc # "idle" PROVE main' # "connect" \/ main' = main
  BY <1>1 DEF Refusals
<1>2. ASSUME NEW s \in Calls, stream[s].pc = "ended", Excused(s) PROVE Excused(s)'
  BY <1>2 DEF Refusals, Excused
<1> QED
  BY <1>1, <1>2 DEF Refusals

(* One stream moves. *)
LEMMA OneRefusal ==
    ASSUME Refusals, stream \in [Calls -> Streaming!Goroutine], NEW s \in Calls, NEW r,
           stream' = [stream EXCEPT ![s] = r], main' = main, out.broken => out'.broken,
           main # "connect", r.pc # "ended" => r.heard,
           r.pc = "ended" /\ ~r.heard => Excused(s)'
    PROVE  Refusals'
<1>1. stream'[s] = r /\ \A t \in Calls : t # s => stream'[t] = stream[t]
  OBVIOUS
<1>2. ASSUME NEW t \in Calls, t # s, Excused(t) PROVE Excused(t)'
  BY <1>1, <1>2 DEF Excused
<1> QED
  BY <1>1, <1>2 DEF Refusals

LEMMA RefusalsKeep == IInv /\ Refusals /\ [Next]_vars => Refusals'
<1> SUFFICES ASSUME IInv, Refusals, [Next]_vars PROVE Refusals'
  OBVIOUS
<1>1. stream \in [Calls -> Streaming!Goroutine]
  BY DEF IInv, PipeInv
<1>2. CASE UNCHANGED vars
  BY <1>2, QuietRefusals DEF vars, pipeVars
<1>3. ASSUME NEW c \in Calls, Accept(c) \/ ServeCall(c) \/ DeliverStandalone(c) \/ NoSessionID(c)
      PROVE  Refusals'
  <2>1. stream' = stream /\ main' = main /\ out' = out
    BY <1>3 DEF Accept, ServeCall, DeliverStandalone, NoSessionID, pipeVars
  <2> QED
    BY <2>1, QuietRefusals
<1>4. ASSUME NEW c \in Calls, WriteReply(c) \/ ReplyWritten(c) PROVE Refusals'
  <2>1. stream' = stream /\ main' = main /\ (out.broken => out'.broken)
    BY <1>4 DEF WriteReply, ReplyWritten, Pipe!Write, Pipe!FlushOK, Pipe!FlushFails, pipeVars,
       IInv, PipeInv, Buffer
  <2> QED
    BY <2>1, QuietRefusals
<1>5. ASSUME NEW s \in Calls, StreamHeavyPayload(s) PROVE Refusals'
  <2> DEFINE r == [stream[s] EXCEPT !.pc = "loop"]
  <2>1. /\ stream[s].pc = "idle" /\ stream' = [stream EXCEPT ![s] = r]
        /\ main' = main /\ main # "connect" /\ out' = out
    BY <1>5 DEF StreamHeavyPayload, Streaming!StartStream, Streaming!Becomes, pipeVars
  <2>2. r.pc = "loop" /\ r.heard
    BY <1>1, <2>1 DEF Refusals, Streaming!Goroutine
  <2> HIDE DEF r
  <2> QED
    BY <1>1, <2>1, <2>2, OneRefusal
<1>6. ASSUME NEW s \in Calls,
             RunStream(s) \/ ExpireStream(s) \/ Notify(s) \/ Refused(s) \/ Notified(s)
      PROVE  Refusals'
  <2>1. /\ main' = main /\ stream[s].pc \notin {"idle", "ended"}
        /\ stream[s] \in Streaming!Goroutine
    BY <1>1, <1>6
    DEF RunStream, ExpireStream, Notify, Refused, Notified, Streaming!Cancelled,
        Streaming!ReadChunk, Streaming!ReaderPanics, Streaming!Expire, Streaming!Say,
        Streaming!LogReturns, Streaming!LogFails
  <2>2. main # "connect" /\ stream[s].heard
    BY <2>1 DEF Refusals
  <2>3. out.broken => out'.broken
    BY <1>6 DEF RunStream, ExpireStream, Notify, Refused, Notified, pipeVars, Pipe!Write,
       Pipe!FlushOK, Pipe!FlushFails, IInv, PipeInv, Buffer
  <2>4. ASSUME NEW r, stream' = [stream EXCEPT ![s] = r], r.heard PROVE Refusals'
    BY <1>1, <2>1, <2>2, <2>3, <2>4, OneRefusal
  <2>a. \A r, kind : r \in Streaming!Goroutine /\ r.heard =>
            /\ Streaming!Says(r, kind).heard /\ Streaming!Closing(r).heard
            /\ [r EXCEPT !.pc = "loop"].heard /\ [r EXCEPT !.pc = "ended"].heard
            /\ [r EXCEPT !.pc = "ended", !.read = "panic"].heard
            /\ \A what : [r EXCEPT !.read = what].heard
    BY DEF Streaming!Says, Streaming!Closing, Streaming!Fault, Streaming!Goroutine
  <2>b. \A what \in {"data", "eof", "fault"} :
            [stream[s] EXCEPT !.read = what] \in Streaming!Goroutine
    BY <2>1 DEF Streaming!Goroutine
  <2>5. CASE RunStream(s)
    <3>1. \/ Streaming!Becomes(s, Streaming!Says(stream[s], "abort"))
          \/ \E what \in {"data", "eof", "fault"} :
                Streaming!Becomes(s, Streaming!Says([stream[s] EXCEPT !.read = what], "chunk"))
          \/ \E what \in {"data", "eof", "fault"} :
                Streaming!Becomes(s, Streaming!Closing([stream[s] EXCEPT !.read = what]))
          \/ Streaming!Becomes(s, [stream[s] EXCEPT !.pc = "ended", !.read = "panic"])
      BY <2>5 DEF RunStream, Streaming!Cancelled, Streaming!ReadChunk, Streaming!ReaderPanics
    <3>2. ASSUME NEW r, Streaming!Becomes(s, r), r.heard PROVE Refusals'
      BY <2>4, <3>2 DEF Streaming!Becomes
    <3>3. \A what \in {"data", "eof", "fault"} :
              /\ Streaming!Says([stream[s] EXCEPT !.read = what], "chunk").heard
              /\ Streaming!Closing([stream[s] EXCEPT !.read = what]).heard
      BY <2>1, <2>2, <2>a, <2>b
    <3>4. /\ Streaming!Says(stream[s], "abort").heard
          /\ [stream[s] EXCEPT !.pc = "ended", !.read = "panic"].heard
      BY <2>1, <2>2, <2>a
    <3>5. CASE Streaming!Becomes(s, Streaming!Says(stream[s], "abort"))
      BY <3>2, <3>4, <3>5
    <3>6. CASE Streaming!Becomes(s, [stream[s] EXCEPT !.pc = "ended", !.read = "panic"])
      BY <3>2, <3>4, <3>6
    <3>7. ASSUME NEW what \in {"data", "eof", "fault"},
                 \/ Streaming!Becomes(s, Streaming!Says([stream[s] EXCEPT !.read = what], "chunk"))
                 \/ Streaming!Becomes(s, Streaming!Closing([stream[s] EXCEPT !.read = what]))
          PROVE  Refusals'
      BY <3>2, <3>3, <3>7
    <3> QED
      BY <3>1, <3>5, <3>6, <3>7
  <2>6. CASE ExpireStream(s) \/ Notify(s)
    <3>1. PICK r : stream' = [stream EXCEPT ![s] = r] /\ r.heard
      BY <2>1, <2>2, <2>6
      DEF ExpireStream, Streaming!Expire, Notify, Streaming!Say, Streaming!Becomes,
          Streaming!Goroutine
    <3> QED
      BY <2>4, <3>1
  <2>7. CASE Refused(s)
    <3> DEFINE r == [stream[s] EXCEPT !.pc = "ended", !.heard = FALSE]
    <3>1. stream' = [stream EXCEPT ![s] = r]
      BY <2>7 DEF Refused, Streaming!Unheard, Streaming!Becomes
    <3>2. r.pc = "ended" /\ r.msg = stream[s].msg /\ r.read = stream[s].read
          /\ r.expired = stream[s].expired
      BY <2>1 DEF Streaming!Goroutine
    <3> HIDE DEF r
    <3>3. Excused(s)'
      BY <1>1, <2>1, <2>7, <3>1, <3>2 DEF Refused, Detached, Excused
    <3> QED
      BY <1>1, <2>1, <2>2, <2>3, <3>1, <3>2, <3>3, OneRefusal
  <2>8. CASE Streaming!LogReturns(s)
    <3> DEFINE counted == Streaming!Counted(stream[s])
    <3>1. \/ Streaming!Becomes(s, [counted EXCEPT !.pc = "loop"])
          \/ Streaming!Becomes(s, Streaming!Closing(counted))
          \/ Streaming!Becomes(s, [stream[s] EXCEPT !.pc = "ended", !.heard = TRUE])
      BY <2>8 DEF Streaming!LogReturns
    <3>2. /\ [counted EXCEPT !.pc = "loop"].heard /\ Streaming!Closing(counted).heard
          /\ [stream[s] EXCEPT !.pc = "ended", !.heard = TRUE].heard
      BY <2>1 DEF Streaming!Counted, Streaming!Closing, Streaming!Says, Streaming!Fault,
         Streaming!Goroutine
    <3> HIDE DEF counted
    <3> QED
      BY <2>4, <3>1, <3>2 DEF Streaming!Becomes
  <2>9. CASE Streaming!LogFails(s) /\ Pipe!FlushFails(Notice(s))
    <3> DEFINE r == [stream[s] EXCEPT !.pc = "ended", !.heard = FALSE]
    <3>1. stream' = [stream EXCEPT ![s] = r] /\ r.pc = "ended"
      BY <2>1, <2>9 DEF Streaming!LogFails, Streaming!Unheard, Streaming!Becomes,
         Streaming!Goroutine
    <3> HIDE DEF r
    <3>2. out'.broken
      BY <2>9 DEF Pipe!FlushFails, IInv, PipeInv, Buffer
    <3>3. Excused(s)'
      BY <3>2 DEF Excused
    <3> QED
      BY <1>1, <2>1, <2>2, <2>3, <3>1, <3>3, OneRefusal
  <2> QED
    BY <1>6, <2>5, <2>6, <2>7, <2>8, <2>9 DEF Notified
<1>7. CASE \/ LogLine \/ (\E k \in 1..Sinks : RunWorker(k)) \/ EndOfInput \/ CleanUpLogs
  <2>1. stream' = stream /\ main' = main /\ out' = out
    BY <1>7 DEF LogLine, RunWorker, EndOfInput, CleanUpLogs, Pipe!ReadEOF, pipeVars
  <2> QED
    BY <2>1, QuietRefusals
<1>8. CASE Connected \/ SessionEnds \/ FinalFlush \/ Flushed \/ Exit
  <2>1. stream' = stream /\ (out.broken => out'.broken)
    BY <1>8 DEF Connected, SessionEnds, FinalFlush, Flushed, Exit, Pipe!CloseInput, Pipe!Lock,
       Pipe!FlushOK, Pipe!FlushFails, pipeVars, IInv, PipeInv, Buffer
  <2>2. main = "connect" \/ main' \notin {"connect", "serving"}
    BY <1>8 DEF Connected, SessionEnds, FinalFlush, Flushed, Exit
  <2> QED
    BY <2>1, <2>2, QuietRefusals
<1> QED
  BY <1>2, <1>3, <1>4, <1>5, <1>6, <1>7, <1>8 DEF Next, Shutdown

(* Refusals have their reasons in every state. *)
THEOREM RefusalsInvariance == Spec => []Refusals
<1>1. Init => Refusals
  BY DEF Init, Streaming!StreamInit, Refusals
<1> QED
  BY <1>1, RefusalsKeep, Invariance, PTL DEF Spec

(* A stream that ended has told the peer, unless its reader panicked or its *)
(* last notification was refused for want of a session or of time, for any  *)
(* streams that share the output with each other and with responses; the    *)
(* abort of a stream whose time is up between two chunks is not refused.    *)
THEOREM EndAnnouncedHolds == Spec => []EndAnnounced
<1>1. IInv /\ Refusals => EndAnnounced
  BY DEF IInv, PipeInv, Announced, Refusals, EndAnnounced
<1> QED
  BY <1>1, Invariance, RefusalsInvariance, PTL

(* What the peer receives of a stream is in order and complete up to its    *)
(* end, for any streams, of any lengths, that share the output with each    *)
(* other and with responses, wherever a reader, a deadline, the session or  *)
(* the output fails.                                                        *)
THEOREM StreamInOrderHolds == Spec => []StreamInOrder
<1>1. IInv => StreamInOrder
  BY DEF IInv, OrderInv, Ordered, StreamInOrder
<1> QED
  BY <1>1, Invariance, PTL

-----------------------------------------------------------------------------
(* The size of a sequence of lines. *)

(* Sets of naturals have a least element. *)
LEMMA Smallest ==
    ASSUME NEW T \in SUBSET Nat, T # {}
    PROVE  \E n \in T : \A m \in T : n <= m
<1> DEFINE R == {ss \in Nat \X Nat : ss[1] < ss[2]}
<1>1. OpToRel(<, Nat) = R
  BY Zenon DEF OpToRel
<1>2. \E n \in T : \A m \in T : ~(<<m, n>> \in R)
  BY <1>1, NatLessThanWellFounded, WFMin
<1>3. \A m, n \in Nat : <<m, n>> \in R <=> m < n
  OBVIOUS
<1> HIDE DEF R
<1>4. PICK n \in T : \A m \in T : ~(<<m, n>> \in R)
  BY <1>2
<1>5. \A m \in T : ~(m < n)
  BY <1>3, <1>4
<1> QED
  BY <1>4, <1>5


(* A set of naturals that holds 0 and the successor of what it holds.       *)
LEMMA Induct ==
    ASSUME NEW n \in Nat, NEW S, 0 \in S, \A k \in 1..n : k - 1 \in S => k \in S
    PROVE  0..n \subseteq S
<1> DEFINE bad == (0..n) \ S
<1>1. SUFFICES ASSUME bad # {} PROVE FALSE
  OBVIOUS
<1>2. PICK k \in bad : \A m \in bad : k <= m
  <2>1. bad \in SUBSET Nat
    OBVIOUS
  <2> QED
    BY <1>1, <2>1, Smallest
<1>3. k \in 1..n /\ k - 1 \in 0..n
  BY <1>2
<1> QED
  BY <1>2, <1>3

(* f[s] is the sum of v over s, taken in some order. *)
Pick(s) == CHOOSE x \in s : TRUE
SumsUpTo(k, f, v, n) ==
    \A s \in SUBSET (1..n) :
        Cardinality(s) <= k =>
            f[s] = IF s = {} THEN 0 ELSE v[Pick(s)] + f[s \ {Pick(s)}]
Sums(f, v, n) ==
    f = [s \in SUBSET (1..n) |-> IF s = {} THEN 0 ELSE v[Pick(s)] + f[s \ {Pick(s)}]]

(* The sets that are summed over are finite, and one element fewer is one   *)
(* element fewer.                                                           *)
LEMMA Fewer ==
    ASSUME NEW n \in Nat, NEW s \in SUBSET (1..n)
    PROVE  /\ IsFiniteSet(s) /\ Cardinality(s) \in 0..n
           /\ \A x \in s : Cardinality(s \ {x}) = Cardinality(s) - 1 /\ s \ {x} \in SUBSET (1..n)
           /\ Cardinality(s) = 0 <=> s = {}
           /\ s # {} => Pick(s) \in s
<1>1. IsFiniteSet(1..n) /\ Cardinality(1..n) = n
  BY FS_Interval
<1>2. IsFiniteSet(s) /\ Cardinality(s) \in Nat /\ Cardinality(s) <= n
  BY <1>1, FS_Subset, FS_CardinalityType
<1>3. \A x \in s : Cardinality(s \ {x}) = Cardinality(s) - 1
  BY <1>2, FS_RemoveElement
<1>4. Cardinality(s) = 0 <=> s = {}
  BY <1>2, FS_EmptySet
<1> QED
  BY <1>1, <1>2, <1>3, <1>4 DEF Pick

(* There is such a sum. *)
LEMMA SumExists ==
    ASSUME NEW n \in Nat, NEW v \in [1..n -> Nat]
    PROVE  \E f \in [SUBSET (1..n) -> Nat] : Sums(f, v, n)
<1> DEFINE P == SUBSET (1..n)
           S == {k \in 0..n : \E f \in [P -> Nat] : SumsUpTo(k, f, v, n)}
<1>1. 0 \in S
  <2> DEFINE f == [s \in P |-> 0]
  <2>1. f \in [P -> Nat]
    OBVIOUS
  <2>2. \A s \in P : Cardinality(s) <= 0 => s = {} /\ f[s] = 0
    BY Fewer
  <2> HIDE DEF f
  <2>3. SumsUpTo(0, f, v, n)
    BY <2>2 DEF SumsUpTo
  <2> QED
    BY <2>1, <2>3
<1>2. ASSUME NEW k \in 1..n, k - 1 \in S PROVE k \in S
  <2>1. PICK g \in [P -> Nat] : SumsUpTo(k - 1, g, v, n)
    BY <1>2
  <2> DEFINE f == [s \in P |-> IF Cardinality(s) < k THEN g[s]
                               ELSE IF s = {} THEN 0 ELSE v[Pick(s)] + g[s \ {Pick(s)}]]
  <2>2. ASSUME NEW s \in P, s # {}
        PROVE  v[Pick(s)] \in Nat /\ g[s \ {Pick(s)}] \in Nat /\ s \ {Pick(s)} \in P
    BY <2>1, <2>2, Fewer
  <2>3. ASSUME NEW s \in P
        PROVE  (IF Cardinality(s) < k THEN g[s]
                ELSE IF s = {} THEN 0 ELSE v[Pick(s)] + g[s \ {Pick(s)}]) \in Nat
    <3>1. g[s] \in Nat
      BY <2>1
    <3>2. s # {} => v[Pick(s)] + g[s \ {Pick(s)}] \in Nat
      BY <2>2
    <3> QED
      BY <3>1, <3>2
  <2>4. f \in [P -> Nat]
    BY <2>3
  <2>5. \A s \in P : f[s] = IF Cardinality(s) < k THEN g[s]
                            ELSE IF s = {} THEN 0 ELSE v[Pick(s)] + g[s \ {Pick(s)}]
    OBVIOUS
  <2> HIDE DEF f
  <2>6. ASSUME NEW s \in P, Cardinality(s) <= k
        PROVE  f[s] = IF s = {} THEN 0 ELSE v[Pick(s)] + f[s \ {Pick(s)}]
    <3>1. CASE s = {}
      <4>1. Cardinality(s) = 0 /\ 0 < k /\ 0 <= k - 1
        BY <3>1, Fewer
      <4>2. f[s] = g[s]
        BY <2>5, <4>1
      <4> QED
        BY <2>1, <3>1, <4>1, <4>2 DEF SumsUpTo
    <3>2. CASE s # {}
      <4>1. /\ Cardinality(s \ {Pick(s)}) = Cardinality(s) - 1 /\ s \ {Pick(s)} \in P
            /\ Cardinality(s) \in Nat
        <5>1. Pick(s) \in s /\ Cardinality(s) \in 0..n
          BY <3>2, Fewer
        <5>2. Cardinality(s \ {Pick(s)}) = Cardinality(s) - 1
          BY <5>1, Fewer
        <5>3. s \ {Pick(s)} \in P
          OBVIOUS
        <5>4. Cardinality(s) \in Nat
          BY <5>1
        <5> QED
          BY ONLY <5>2, <5>3, <5>4
      <4>2. Cardinality(s \ {Pick(s)}) < k
        BY <2>6, <4>1
      <4>3. f[s \ {Pick(s)}] = g[s \ {Pick(s)}]
        BY <2>5, <4>1, <4>2
      <4>4. CASE Cardinality(s) < k
        <5>1. Cardinality(s) <= k - 1
          BY <4>1, <4>4
        <5>2. g[s] = v[Pick(s)] + g[s \ {Pick(s)}]
          BY <2>1, <3>2, <5>1 DEF SumsUpTo
        <5> QED
          BY <2>5, <3>2, <4>3, <4>4, <5>2
      <4>5. CASE ~(Cardinality(s) < k)
        BY <2>5, <3>2, <4>3, <4>5
      <4> QED
        BY <4>4, <4>5
    <3> QED
      BY <3>1, <3>2
  <2>7. SumsUpTo(k, f, v, n)
    BY <2>6 DEF SumsUpTo
  <2> QED
    BY <2>4, <2>7
<1>3. n \in S
  <2> HIDE DEF S
  <2>1. 0..n \subseteq S
    BY <1>1, <1>2, Induct
  <2> QED
    BY <2>1
<1>4. PICK f \in [P -> Nat] : SumsUpTo(n, f, v, n)
  BY <1>3
<1>5. \A s \in P : f[s] = IF s = {} THEN 0 ELSE v[Pick(s)] + f[s \ {Pick(s)}]
  <2>1. \A s \in P : Cardinality(s) <= n
    BY Fewer
  <2> QED
    BY <1>4, <2>1 DEF SumsUpTo
<1>6. Sums(f, v, n)
  BY <1>5 DEF Sums
<1> QED
  BY <1>6

(* Any element of a set can be the last one added. *)
Adds(f, v, n) ==
    \A s \in SUBSET (1..n) : f[s] \in Nat /\ \A x \in s : f[s] = v[x] + f[s \ {x}]

(* The order of a sum does not matter. *)
LEMMA AnyLast ==
    ASSUME NEW n \in Nat, NEW v \in [1..n -> Nat], NEW f, Sums(f, v, n)
    PROVE  Adds(f, v, n)
<1> DEFINE P == SUBSET (1..n)
           S == {k \in 0..n : \A s \in P : Cardinality(s) <= k =>
                                  f[s] \in Nat /\ \A x \in s : f[s] = v[x] + f[s \ {x}]}
<1>1. \A s \in P : f[s] = IF s = {} THEN 0 ELSE v[Pick(s)] + f[s \ {Pick(s)}]
  BY DEF Sums
<1>2. 0 \in S
  <2>1. \A s \in P : Cardinality(s) <= 0 => s = {}
    BY Fewer
  <2>2. f[{}] = 0
    BY <1>1
  <2>3. ASSUME NEW s \in P, Cardinality(s) <= 0
        PROVE  f[s] \in Nat /\ \A x \in s : f[s] = v[x] + f[s \ {x}]
    <3>1. s = {}
      BY <2>1, <2>3
    <3> QED
      BY <2>2, <3>1
  <2> HIDE DEF P
  <2> QED
    BY <2>3
<1>3. ASSUME NEW k \in 1..n, k - 1 \in S PROVE k \in S
  <2>1. ASSUME NEW s \in P, Cardinality(s) <= k - 1
        PROVE  f[s] \in Nat /\ \A x \in s : f[s] = v[x] + f[s \ {x}]
    BY <1>3, <2>1
  <2>2. ASSUME NEW s \in P, Cardinality(s) = k
        PROVE  f[s] \in Nat /\ \A x \in s : f[s] = v[x] + f[s \ {x}]
    <3> DEFINE c == Pick(s)
    <3>1. /\ c \in s /\ s # {} /\ \A x \in s : x \in 1..n /\ v[x] \in Nat
          /\ \A x \in s : s \ {x} \in P /\ Cardinality(s \ {x}) = k - 1
      BY <2>2, Fewer
    <3>2. f[s] = v[c] + f[s \ {c}] /\ \A x \in s : f[s \ {x}] \in Nat
      <4>1. f[s] = v[c] + f[s \ {c}]
        BY <1>1, <3>1
      <4>2. \A x \in s : f[s \ {x}] \in Nat
        BY <2>1, <3>1
      <4> QED
        BY <4>1, <4>2
    <3> HIDE DEF c
    <3>3. ASSUME NEW x \in s, x # c PROVE f[s] = v[x] + f[s \ {x}]
      <4>1. x \in s \ {c} /\ c \in s \ {x} /\ (s \ {c}) \ {x} = (s \ {x}) \ {c}
        BY <3>1, <3>3
      <4>2. f[s \ {c}] = v[x] + f[(s \ {c}) \ {x}]
        BY <2>1, <3>1, <4>1
      <4>3. f[s \ {x}] = v[c] + f[(s \ {x}) \ {c}]
        <5>1. s \ {x} \in P /\ Cardinality(s \ {x}) <= k - 1
          BY <3>1
        <5> QED
          BY <2>1, <4>1, <5>1
      <4>4. f[(s \ {x}) \ {c}] \in Nat
        <5>1. /\ (s \ {x}) \ {c} \in P
              /\ Cardinality((s \ {x}) \ {c}) = Cardinality(s \ {x}) - 1
          <6>1. s \ {x} \in P /\ c \in s \ {x}
            BY <3>1, <4>1
          <6> HIDE DEF P
          <6> QED
            BY <6>1, Fewer DEF P
        <5>2. Cardinality((s \ {x}) \ {c}) <= k - 1
          BY <3>1, <5>1
        <5> QED
          BY <2>1, <5>1, <5>2
      <4>5. v[x] \in Nat /\ v[c] \in Nat
        BY <3>1
      <4>6. f[s] = v[c] + (v[x] + f[(s \ {x}) \ {c}])
        BY ONLY <3>2, <4>1, <4>2
      <4> HIDE DEF P
      <4> QED
        BY ONLY <4>3, <4>4, <4>5, <4>6
    <3>4. f[s] \in Nat
      <4>1. v[c] \in Nat /\ f[s \ {c}] \in Nat /\ f[s] = v[c] + f[s \ {c}]
        BY <3>1, <3>2
      <4> QED
        BY ONLY <4>1
    <3> QED
      BY <3>2, <3>3, <3>4
  <2>3. \A s \in P : Cardinality(s) \in Nat
    BY Fewer
  <2> HIDE DEF P
  <2>4. \A s \in P : Cardinality(s) <= k => Cardinality(s) <= k - 1 \/ Cardinality(s) = k
    BY <2>3
  <2> QED
    BY <2>1, <2>2, <2>4
<1>4. 0..n \subseteq S
  <2> HIDE DEF S
  <2> QED
    BY <1>2, <1>3, Induct
<1> QED
  <2>1. \A s \in P : Cardinality(s) <= n
    BY Fewer
  <2> QED
    BY <1>4, <2>1 DEF Adds

Total(f, n) == f[1..n]  \* of a sum over 1..n

(* Sums over two sequences, one of which has an element more in front.      *)
LEMMA SumOfFront ==
    ASSUME NEW n \in Nat, NEW v \in [1..n -> Nat], NEW w \in [1..(n + 1) -> Nat],
           NEW f, NEW g, Sums(f, v, n), Sums(g, w, n + 1),
           \A i \in 1..n : w[i + 1] = v[i]
    PROVE  Total(f, n) \in Nat /\ Total(g, n + 1) = w[1] + Total(f, n)
<1>1. Adds(f, v, n)
  BY AnyLast
<1>2. Adds(g, w, n + 1)
  <2>1. n + 1 \in Nat
    OBVIOUS
  <2> QED
    BY <2>1, AnyLast
<1>3. f[{}] = 0 /\ g[{}] = 0
  BY DEF Sums
<1> DEFINE same == {k \in 0..n : g[2..(k + 1)] = f[1..k]}
<1>4. 0 \in same
  <2>1. 1..0 = {} /\ 2..(0 + 1) = {} /\ 0 \in 0..n
    OBVIOUS
  <2> QED
    BY <1>3, <2>1
<1>5. ASSUME NEW k \in 1..n, k - 1 \in same PROVE k \in same
  <2>1. g[2..((k - 1) + 1)] = f[1..(k - 1)]
    BY <1>5
  <2>2. /\ 1..k \in SUBSET (1..n) /\ k \in 1..k /\ (1..k) \ {k} = 1..(k - 1)
        /\ 2..(k + 1) \in SUBSET (1..(n + 1)) /\ k + 1 \in 2..(k + 1)
        /\ (2..(k + 1)) \ {k + 1} = 2..((k - 1) + 1)
    <3> HIDE DEF same
    <3>1. 1..k \in SUBSET (1..n) /\ k \in 1..k /\ (1..k) \ {k} = 1..(k - 1)
      <4>1. 1..k \in SUBSET (1..n)
        OBVIOUS
      <4>2. k \in Nat /\ k >= 1
        OBVIOUS
      <4>3. k \in 1..k /\ (1..k) \ {k} = 1..(k - 1)
        BY ONLY <4>2
      <4> QED
        BY <4>1, <4>3
    <3>2. 2..(k + 1) \in SUBSET (1..(n + 1)) /\ k + 1 \in 2..(k + 1)
      OBVIOUS
    <3>3. (k - 1) + 1 = k /\ (2..(k + 1)) \ {k + 1} = 2..k
      OBVIOUS
    <3> QED
      BY <3>1, <3>2, <3>3
  <2>3. f[1..k] = v[k] + f[1..(k - 1)]
    BY <1>1, <2>2 DEF Adds
  <2>4. g[2..(k + 1)] = w[k + 1] + g[2..((k - 1) + 1)]
    BY <1>2, <2>2 DEF Adds
  <2>5. g[2..(k + 1)] = f[1..k]
    BY <2>1, <2>3, <2>4
  <2> QED
    BY <2>5
<1>6. g[2..(n + 1)] = f[1..n]
  <2> HIDE DEF same
  <2>1. 0..n \subseteq same
    BY <1>4, <1>5, Induct
  <2>2. n \in same
    BY <2>1
  <2> QED
    BY <2>2 DEF same
<1>7. g[1..(n + 1)] = w[1] + g[2..(n + 1)]
  <2>1. 1..(n + 1) \in SUBSET (1..(n + 1)) /\ 1 \in 1..(n + 1) /\ (1..(n + 1)) \ {1} = 2..(n + 1)
    OBVIOUS
  <2> QED
    BY <1>2, <2>1 DEF Adds
<1>8. f[1..n] \in Nat
  BY <1>1 DEF Adds
<1> QED
  BY <1>6, <1>7, <1>8 DEF Total

(* Lines and the marker, and their sizes in a sequence. *)
Entries == Lines \cup {Marker}
SizesOf(s) == [i \in 1..Len(s) |-> LineSize[s[i]]]

(* The size of a sequence is the sum of the sizes of what it holds.         *)
LEMMA SizeIsSum ==
    ASSUME NEW s \in Seq(Entries)
    PROVE  /\ Len(s) \in Nat /\ SizesOf(s) \in [1..Len(s) -> Nat]
           /\ \E f : Sums(f, SizesOf(s), Len(s)) /\ Logs!Size(s) = f[1..Len(s)]
<1> DEFINE n == Len(s)
           v == SizesOf(s)
           whole == [i \in SUBSET DOMAIN s |-> i]
           iter == CHOOSE f :
                       f = [t \in SUBSET DOMAIN s |->
                               IF t = {} THEN 0
                               ELSE LineSize[s[CHOOSE x \in t : TRUE]]
                                        + f[t \ {CHOOSE x \in t : TRUE}]]
<1>1. n \in Nat /\ DOMAIN s = 1..n /\ \A i \in 1..n : s[i] \in Entries
  OBVIOUS
<1>2. v \in [1..n -> Nat] /\ \A i \in 1..n : v[i] = LineSize[s[i]]
  BY <1>1, ComponentAssumptions DEF SizesOf, Entries, Logs!RingAssumption
<1>3. Logs!Size(s) = iter[DOMAIN s]
  BY Zenon DEF Logs!Size, Logs!FoldSeq, Logs!FoldFunction, Logs!FoldFunctionOnSet, Logs!MapThenFoldSet
<1>4. PICK g \in [SUBSET (1..n) -> Nat] : Sums(g, v, n)
  BY <1>1, <1>2, SumExists
<1>5. ASSUME NEW f
      PROVE  f = [t \in SUBSET DOMAIN s |->
                     IF t = {} THEN 0
                     ELSE LineSize[s[CHOOSE x \in t : TRUE]] + f[t \ {CHOOSE x \in t : TRUE}]]
                 <=> Sums(f, v, n)
  <2> DEFINE lines == [t \in SUBSET (1..n) |->
                          IF t = {} THEN 0 ELSE LineSize[s[Pick(t)]] + f[t \ {Pick(t)}]]
             numbers == [t \in SUBSET (1..n) |->
                            IF t = {} THEN 0 ELSE v[Pick(t)] + f[t \ {Pick(t)}]]
  <2>1. ASSUME NEW t \in SUBSET (1..n), t # {} PROVE v[Pick(t)] = LineSize[s[Pick(t)]]
    <3>1. Pick(t) \in 1..n
      BY <1>1, <2>1, Fewer
    <3> QED
      BY <1>2, <3>1
  <2>2. lines = numbers
    <3> HIDE DEF v
    <3> QED
      BY <2>1
  <2>3. f = [t \in SUBSET DOMAIN s |->
                IF t = {} THEN 0
                ELSE LineSize[s[CHOOSE x \in t : TRUE]] + f[t \ {CHOOSE x \in t : TRUE}]]
            <=> f = lines
    BY <1>1, Zenon DEF Pick
  <2>4. Sums(f, v, n) <=> f = numbers
    BY Zenon DEF Sums
  <2> QED
    BY ONLY <2>2, <2>3, <2>4
<1>6. Sums(iter, v, n)
  <2>1. \E f : f = [t \in SUBSET DOMAIN s |->
                       IF t = {} THEN 0
                       ELSE LineSize[s[CHOOSE x \in t : TRUE]]
                                + f[t \ {CHOOSE x \in t : TRUE}]]
    <3> HIDE DEF v
    <3>1. Sums(g, v, n)
      BY <1>4
    <3>2. g = [t \in SUBSET DOMAIN s |->
                  IF t = {} THEN 0
                  ELSE LineSize[s[CHOOSE x \in t : TRUE]] + g[t \ {CHOOSE x \in t : TRUE}]]
      BY <1>5, <3>1
    <3> QED
      BY <3>2
  <2>2. iter = [t \in SUBSET DOMAIN s |->
                   IF t = {} THEN 0
                   ELSE LineSize[s[CHOOSE x \in t : TRUE]]
                            + iter[t \ {CHOOSE x \in t : TRUE}]]
    BY <2>1, Zenon
  <2> HIDE DEF iter, v
  <2> QED
    BY <1>5, <2>2
<1> HIDE DEF iter
<1> QED
  BY <1>1, <1>2, <1>3, <1>6

(* A line in front adds its size. *)
LEMMA SizeOfFront ==
    ASSUME NEW m \in Entries, NEW s \in Seq(Entries)
    PROVE  /\ <<m>> \o s \in Seq(Entries) /\ Logs!Size(s) \in Nat
           /\ Logs!Size(<<m>> \o s) = LineSize[m] + Logs!Size(s)
<1> DEFINE t == <<m>> \o s
<1>1. Len(s) \in Nat /\ SizesOf(s) \in [1..Len(s) -> Nat]
  BY SizeIsSum
<1>2. /\ t \in Seq(Entries) /\ Len(t) = Len(s) + 1 /\ t[1] = m
      /\ \A i \in 1..Len(s) : t[i + 1] = s[i]
  OBVIOUS
<1> HIDE DEF t
<1>3. SizesOf(t) \in [1..(Len(s) + 1) -> Nat]
  BY <1>2, SizeIsSum
<1>4. SizesOf(t)[1] = LineSize[m] /\ \A i \in 1..Len(s) : SizesOf(t)[i + 1] = SizesOf(s)[i]
  <2>1. 1 \in 1..(Len(s) + 1) /\ \A i \in 1..Len(s) : i + 1 \in 1..(Len(s) + 1)
    BY <1>1
  <2> QED
    BY <1>2, <2>1 DEF SizesOf
<1>5. PICK f : Sums(f, SizesOf(s), Len(s)) /\ Logs!Size(s) = f[1..Len(s)]
  BY SizeIsSum
<1>6. PICK g : Sums(g, SizesOf(t), Len(s) + 1) /\ Logs!Size(t) = g[1..(Len(s) + 1)]
  BY <1>2, SizeIsSum
<1>7. /\ Total(f, Len(s)) \in Nat
      /\ Total(g, Len(s) + 1) = SizesOf(t)[1] + Total(f, Len(s))
  BY <1>1, <1>3, <1>4, <1>5, <1>6, SumOfFront
<1> QED
  BY <1>2, <1>4, <1>5, <1>6, <1>7 DEF t, Total

-----------------------------------------------------------------------------
(* Types, and the limits of what is queued and buffered.                    *)
LogShape ==
    /\ record.at <= Sinks + 1
    /\ \A k \in K : Len(sink[k].ch) <= Capacity
    /\ ring \in Seq(Entries) /\ RingBounded
    /\ cleanup \in 0..(Sinks + 1)

OutShape ==
    /\ Len(out.buf) <= 1
    /\ input \in [state : {"open", "eof", "closed"}, fired : BOOLEAN]

MainShape ==
    /\ toolMu \in [Tools -> Calls \cup {None}]
    /\ reply \in [Calls -> {"none", "writing", "sent", "failed"}]
    /\ main \in {"connect", "serving", "closed", "flush", "cleanup", "exit"}

Shapes == LogShape /\ OutShape /\ MainShape

(* The sizes of the log pipeline. *)
LEMMA LogNumbers ==
    /\ Sinks \in Nat /\ Sinks > 0 /\ Capacity \in Nat /\ RingMax \in Nat /\ RingTrim \in Nat
    /\ RingTrim > 0 /\ \A l \in Entries : LineSize[l] \in Nat
BY ComponentAssumptions
DEF Logs!SinksAssumption, Logs!CapacityAssumption, Logs!RingAssumption, Entries

(* Nothing is queued, buffered or held. *)
LEMMA ShapesInitially == Init => Shapes
<1> SUFFICES ASSUME Init PROVE Shapes
  OBVIOUS
<1>1. /\ record.at = 0 /\ ring = <<>> /\ cleanup = 0
      /\ \A k \in K : sink[k].ch = <<>>
  BY DEF Init, Logs!LogInit, Logs!Idle, Logs!S, K
<1>2. Logs!Size(<<>>) \in Nat /\ <<>> \in Seq(Entries) /\ Logs!Size(<<>>) = 0
  <2>1. <<>> \in Seq(Entries) /\ Len(<<>>) = 0
    OBVIOUS
  <2>2. PICK f : Sums(f, SizesOf(<<>>), 0) /\ Logs!Size(<<>>) = f[1..0]
    BY <2>1, SizeIsSum
  <2>3. f[{}] = 0 /\ 1..0 = {}
    BY <2>2 DEF Sums
  <2> QED
    BY <2>1, <2>2, <2>3
<1>3. LogShape
  <2>1. RingBounded
    <3>1. Logs!Size(ring) = 0
      BY <1>1, <1>2, Zenon
    <3>2. 0 <= RingMax
      BY LogNumbers
    <3> QED
      BY <3>1, <3>2 DEF RingBounded
  <2>2. \A k \in K : Len(sink[k].ch) <= Capacity
    <3>1. Len(<<>>) = 0 /\ 0 <= Capacity
      BY LogNumbers
    <3> QED
      BY <1>1, <3>1
  <2>3. record.at <= Sinks + 1 /\ cleanup \in 0..(Sinks + 1)
    <3>1. record.at = 0 /\ cleanup = 0
      BY <1>1
    <3> QED
      BY <3>1, LogNumbers
  <2>4. ring \in Seq(Entries)
    BY <1>1, <1>2, Zenon
  <2> QED
    BY <2>1, <2>2, <2>3, <2>4 DEF LogShape
<1>4. OutShape
  BY DEF Init, OutShape, Pipe!PipelineInit, Pipe!OutInit
<1>5. MainShape
  BY DEF Init, MainShape, Tool!CallInit
<1> QED
  BY <1>3, <1>4, <1>5 DEF Shapes

(* A trim keeps less than its target, behind a marker.                      *)
LEMMA TrimHolds ==
    ASSUME NEW s \in Seq(Entries)
    PROVE  /\ Logs!Trimmed(s) \in Seq(Entries)
           /\ Logs!Size(Logs!Trimmed(s)) < LineSize[Marker] + RingTrim
<1> DEFINE kept == Logs!Retained(s)
           From == {i \in 1..Len(s) : Logs!Size(SubSeq(s, i, Len(s))) < RingTrim}
<1>1. kept \in Seq(Entries) /\ Logs!Size(kept) < RingTrim
  <2>1. CASE From = {}
    <3>1. kept = <<>>
      BY <2>1 DEF Logs!Retained
    <3>2. <<>> \in Seq(Entries) /\ Len(<<>>) = 0
      OBVIOUS
    <3>3. PICK f : Sums(f, SizesOf(<<>>), 0) /\ Logs!Size(<<>>) = f[1..0]
      BY <3>2, SizeIsSum
    <3>4. f[{}] = 0 /\ 1..0 = {}
      BY <3>3 DEF Sums
    <3> QED
      BY <3>1, <3>2, <3>3, <3>4, LogNumbers
  <2>2. CASE From # {}
    <3>1. \E i \in From : \A j \in From : i <= j
      <4>1. From \in SUBSET Nat
        OBVIOUS
      <4> HIDE DEF From
      <4> QED
        BY <2>2, <4>1, Smallest
    <3> DEFINE i == CHOOSE x \in From : \A y \in From : x =< y
    <3>2. i \in From
      <4> HIDE DEF From
      <4> QED
        BY <3>1
    <3>3. kept = SubSeq(s, i, Len(s))
      BY <2>2, Zenon DEF Logs!Retained, Logs!Min
    <3> HIDE DEF i
    <3>4. i \in 1..Len(s) /\ Logs!Size(SubSeq(s, i, Len(s))) < RingTrim
      BY <3>2
    <3>5. SubSeq(s, i, Len(s)) \in Seq(Entries)
      BY <3>4
    <3> QED
      BY <3>3, <3>4, <3>5
  <2> QED
    BY <2>1, <2>2
<1>2. Logs!Trimmed(s) = <<Marker>> \o kept /\ Marker \in Entries
  BY DEF Logs!Trimmed, Entries
<1> HIDE DEF kept
<1> QED
  BY <1>1, <1>2, SizeOfFront, LogNumbers

(* The ring buffer is trimmed when it is past its limit. *)
LEMMA RingShaped ==
    ASSUME LogInv, LogShape, Logs!WriteRing
    PROVE  LogShape'
<1> DEFINE lines == Append(ring, record.line)
<1>1. /\ record' = Logs!Idle /\ sink' = sink /\ cleanup' = cleanup
      /\ ring' = IF Logs!Size(lines) > RingMax THEN Logs!Trimmed(lines) ELSE lines
      /\ record.at = Sinks + 1
  BY DEF Logs!WriteRing
<1>2. record.line \in Entries
  <2>1. record # Logs!Idle
    BY <1>1, LogNumbers DEF Logs!Idle
  <2> QED
    BY <2>1 DEF LogInv, Entries
<1>3. lines \in Seq(Entries)
  BY <1>2 DEF LogShape
<1> HIDE DEF lines
<1>4. Logs!Size(lines) \in Nat
  BY <1>2, <1>3, SizeOfFront
<1>5. ring' \in Seq(Entries) /\ RingBounded'
  <2>1. CASE Logs!Size(lines) > RingMax
    BY <1>1, <1>3, <2>1, TrimHolds DEF RingBounded
  <2>2. CASE ~(Logs!Size(lines) > RingMax)
    BY <1>1, <1>3, <1>4, <2>2, LogNumbers DEF RingBounded
  <2> QED
    BY <2>1, <2>2
<1>6. record'.at <= Sinks + 1
  BY <1>1, LogNumbers DEF Logs!Idle
<1> QED
  BY <1>1, <1>5, <1>6 DEF LogShape

(* The ring is left alone. *)
LEMMA RingLeft ==
    ASSUME LogShape, ring' = ring,
           record'.at <= Sinks + 1,
           \A k \in K : Len(sink'[k].ch) <= Capacity,
           cleanup' \in 0..(Sinks + 1)
    PROVE  LogShape'
BY DEF LogShape, RingBounded

(* A record is taken or written to a file, a worker runs, logs are closed. *)
LEMMA LogsShaped ==
    ASSUME IInv, LogShape, LogLine \/ (\E k \in 1..Sinks : RunWorker(k)) \/ CleanUpLogs
    PROVE  LogShape'
<1>1. LogInv
  BY DEF IInv
<1>2. ASSUME NEW l, Logs!Log(l) PROVE LogShape'
  BY <1>2, LogNumbers, RingLeft DEF Logs!Log, LogShape
<1>3. ASSUME NEW k \in K, Logs!Logging(k) PROVE LogShape'
  <2>1. record.at = k /\ ring' = ring /\ cleanup' = cleanup
    BY <1>3 DEF Logs!Logging, Logs!CheckClosed, Logs!Enqueue, Logs!DropAfterWait,
                Logs!DropAtShutdown
  <2>2. record' = [record EXCEPT !.checked = TRUE] \/ Logs!WriteReturns
    BY <1>3 DEF Logs!Logging, Logs!CheckClosed, Logs!Enqueue, Logs!DropAfterWait,
                Logs!DropAtShutdown
  <2>3. record'.at <= Sinks + 1
    <3>1. record'.at = record.at \/ record'.at = record.at + 1
      BY <1>1, <2>2 DEF Logs!WriteReturns, LogInv
    <3>2. record.at \in 1..Sinks
      BY <2>1 DEF K
    <3> QED
      BY <3>1, <3>2, LogNumbers
  <2>4. ASSUME NEW j \in K PROVE Len(sink'[j].ch) <= Capacity
    <3>1. CASE sink' = sink
      BY <3>1 DEF LogShape
    <3>2. CASE Logs!Enqueue(k)
      <4>1. record.line \in Lines
        BY <1>1, <2>1, LogNumbers DEF LogInv, Logs!Idle, K
      <4>2. /\ sink' = [sink EXCEPT ![k].ch = Append(@, record.line)]
            /\ Len(sink[k].ch) < Capacity
        BY <3>2 DEF Logs!Enqueue
      <4>3. sink[k].ch \in Seq(Lines) /\ Len(sink[k].ch) \in Nat
        BY <1>1, SinkType
      <4>4. Len(Append(sink[k].ch, record.line)) <= Capacity
        BY <4>1, <4>2, <4>3, LogNumbers
      <4>5. sink'[j].ch = IF j = k THEN Append(sink[k].ch, record.line) ELSE sink[j].ch
        BY <1>1, <4>2 DEF LogInv, Logs!Writer
      <4> QED
        BY <4>4, <4>5 DEF LogShape
    <3>3. CASE Logs!DropAfterWait(k)
      <4>1. sink'[j].ch = sink[j].ch
        BY <1>1, <3>3 DEF Logs!DropAfterWait, LogInv, Logs!Writer
      <4> QED
        BY <4>1 DEF LogShape
    <3> QED
      BY <1>3, <3>1, <3>2, <3>3 DEF Logs!Logging, Logs!CheckClosed, Logs!DropAtShutdown
  <2> QED
    BY <2>1, <2>3, <2>4, RingLeft DEF LogShape
<1>4. ASSUME NEW k \in K, Logs!Worker(k) PROVE LogShape'
  <2>1. record' = record /\ ring' = ring /\ cleanup' = cleanup
    BY <1>4 DEF Logs!Worker, Logs!WorkerWrites, Logs!WorkerStops, Logs!WorkerDone
  <2>2. ASSUME NEW j \in K PROVE Len(sink'[j].ch) <= Capacity
    <3>1. sink[k].ch \in Seq(Lines) /\ Len(sink[k].ch) <= Capacity
      BY <1>1, SinkType DEF LogShape
    <3>2. CASE Logs!WorkerWrites(k)
      <4>1. sink[k].ch # <<>>
        BY <3>2 DEF Logs!WorkerWrites
      <4>2. Len(Tail(sink[k].ch)) <= Capacity
        BY <3>1, <4>1, LogNumbers
      <4>3. sink'[j].ch = IF j = k THEN Tail(sink[k].ch) ELSE sink[j].ch
        <5> DEFINE l == Head(sink[k].ch)
                   written == [sink[k] EXCEPT !.ch = Tail(@), !.file = Append(@, l)]
                   lost == [sink[k] EXCEPT !.ch = Tail(@), !.dropped = @ \cup {l}]
        <5>1. sink' = [sink EXCEPT ![k] = written] \/ sink' = [sink EXCEPT ![k] = lost]
          BY <3>2 DEF Logs!WorkerWrites, Logs!TakeLine
        <5>2. written.ch = Tail(sink[k].ch) /\ lost.ch = Tail(sink[k].ch)
          BY <1>1, SinkType DEF Logs!Writer
        <5> HIDE DEF written, lost
        <5> QED
          BY <1>1, <5>1, <5>2 DEF LogInv
      <4> QED
        BY <4>2, <4>3 DEF LogShape
    <3>3. CASE Logs!WorkerStops(k) \/ Logs!WorkerDone(k)
      <4>1. sink'[j].ch = sink[j].ch
        <5>1. PICK state \in {"draining", "done"} : sink' = [sink EXCEPT ![k].worker = state]
          BY <3>3 DEF Logs!WorkerStops, Logs!WorkerDone
        <5> QED
          BY <1>1, <5>1, SinkType DEF LogInv, Logs!Writer
      <4> QED
        BY <4>1 DEF LogShape
    <3> QED
      BY <1>4, <3>2, <3>3 DEF Logs!Worker
  <2> QED
    BY <2>1, <2>2, RingLeft DEF LogShape
<1>5. CASE CleanUpLogs
  <2>1. record' = record /\ ring' = ring
    BY <1>5 DEF CleanUpLogs, Logs!StartCleanup, Logs!CloseWriter, Logs!CloseFile
  <2>2. cleanup' \in 0..(Sinks + 1)
    <3>1. cleanup' = 1 \/ cleanup' = cleanup \/ \E k \in 1..Sinks : cleanup' = k + 1
      BY <1>5 DEF CleanUpLogs, Logs!StartCleanup, Logs!CloseWriter, Logs!CloseFile
    <3>2. cleanup \in 0..(Sinks + 1)
      BY DEF LogShape
    <3> QED
      BY <3>1, <3>2, LogNumbers
  <2>3. ASSUME NEW j \in K PROVE sink'[j].ch = sink[j].ch
    <3>1. CASE Logs!StartCleanup
      BY <3>1 DEF Logs!StartCleanup
    <3>2. ASSUME NEW k \in K, Logs!CloseWriter(k) PROVE sink'[j].ch = sink[j].ch
      <4> DEFINE w == [sink[k] EXCEPT !.closed = TRUE, !.due = Logs!Passed(k)]
      <4>1. sink' = [sink EXCEPT ![k] = w] /\ w.ch = sink[k].ch
        BY <1>1, <3>2, SinkType DEF Logs!CloseWriter, Logs!Writer
      <4> HIDE DEF w
      <4> QED
        BY <1>1, <4>1 DEF LogInv
    <3>3. ASSUME NEW k \in K, Logs!CloseFile(k) PROVE sink'[j].ch = sink[j].ch
      <4> DEFINE w == [sink[k] EXCEPT !.open = FALSE]
      <4>1. sink' = [sink EXCEPT ![k] = w] /\ w.ch = sink[k].ch
        BY <1>1, <3>3, SinkType DEF Logs!CloseFile, Logs!Writer
      <4> HIDE DEF w
      <4> QED
        BY <1>1, <4>1 DEF LogInv
    <3> QED
      BY <1>5, <3>1, <3>2, <3>3 DEF CleanUpLogs, K
  <2> QED
    BY <2>1, <2>2, <2>3, RingLeft DEF LogShape
<1> QED
  BY <1>1, <1>2, <1>3, <1>4, <1>5, RingShaped DEF LogLine, RunWorker, K

(* The output: a frame is buffered only when there is none. *)
LEMMA OutputShaped ==
    ASSUME IInv, OutShape, NEW w,
           \/ \E frame \in Frame : Pipe!Write(w, frame)
           \/ Pipe!Lock(w) \/ Pipe!FlushOK(w) \/ Pipe!FlushFails(w)
           \/ Pipe!ReadEOF \/ Pipe!CloseInput
    PROVE  OutShape'
<1>1. out \in Buffer /\ out.buf \in Seq(Frame)
  BY DEF IInv, PipeInv, Buffer
<1>2. ASSUME NEW frame \in Frame, Pipe!Write(w, frame) PROVE OutShape'
  <2>1. out.mu = None /\ (~out.broken => out.buf = <<>>)
    BY <1>2 DEF Pipe!Write, IInv, OrderInv, Held
  <2>2. out'.buf = IF out.broken THEN out.buf ELSE Append(out.buf, frame)
    BY <1>1, <1>2 DEF Pipe!Write, Buffer
  <2>3. ~out.broken => Len(out'.buf) <= 1
    BY <2>1, <2>2
  <2> QED
    BY <1>2, <2>2, <2>3 DEF OutShape, Pipe!Write
<1>3. CASE Pipe!Lock(w) \/ Pipe!FlushOK(w) \/ Pipe!FlushFails(w)
  <2>1. out'.buf = out.buf \/ out'.buf = <<>>
    BY <1>1, <1>3 DEF Pipe!Lock, Pipe!FlushOK, Pipe!FlushFails, Buffer
  <2> QED
    BY <1>3, <2>1 DEF OutShape, Pipe!Lock, Pipe!FlushOK, Pipe!FlushFails
<1>4. CASE Pipe!ReadEOF \/ Pipe!CloseInput
  <2>1. out' = out /\ \E state \in {"eof", "closed"} : input' = [state |-> state, fired |-> TRUE]
    BY <1>4 DEF Pipe!ReadEOF, Pipe!CloseInput
  <2> QED
    BY <2>1 DEF OutShape
<1> QED
  BY <1>2, <1>3, <1>4

(* The frames of replies and notices. *)
LEMMA FramesTyped ==
    ASSUME IInv, NEW c \in Calls
    PROVE  /\ [from |-> Reply(c), msg |-> Streaming!NoMessage] \in Frame
           /\ [from |-> Notice(c), msg |-> stream[c].msg] \in Frame
BY DEF IInv, PipeInv, Streaming!Goroutine, Frame

(* The mutex of a tool is held by a call, or free. *)
LEMMA MutexTyped ==
    ASSUME MainShape, NEW c \in Calls,
           \/ Tool!Invoke(c) \/ Tool!Serve(c) \/ Tool!DeliverInline(c) \/ Tool!LeaveWhole(c)
           \/ Tool!Intercept(c)
    PROVE  toolMu' \in [Tools -> Calls \cup {None}]
<1>1. ToolOf[c] \in Tools
  BY ComponentAssumptions DEF Tool!ToolAssumption
<1> QED
  BY <1>1
  DEF MainShape, Tool!Serve, Tool!Invoke, Tool!LockTool, Tool!Handle, Tool!Panic, Tool!Released,
      Tool!NotRouted, Tool!CreateTemp, Tool!Encode, Tool!Rename, Tool!NotIntercepted,
      Tool!Refuse, Tool!Return, Tool!Intercept, Tool!DeliverInline, Tool!LeaveWhole

(* Every step keeps the shapes. *)
LEMMA ShapesKept == IInv /\ Shapes /\ [Next]_vars => Shapes'
<1> SUFFICES ASSUME IInv, Shapes, [Next]_vars PROVE Shapes'
  OBVIOUS
<1>1. ASSUME UNCHANGED logVars PROVE LogShape'
  BY <1>1 DEF Shapes, LogShape, logVars, RingBounded
<1>2. ASSUME UNCHANGED pipeVars PROVE OutShape'
  BY <1>2 DEF Shapes, OutShape, pipeVars
<1>3. ASSUME UNCHANGED <<toolVars, reply, main>> PROVE MainShape'
  BY <1>3 DEF Shapes, MainShape, toolVars
<1>4. CASE UNCHANGED vars
  BY <1>1, <1>2, <1>3, <1>4 DEF vars, Shapes
<1>5. ASSUME NEW c \in Calls,
             \/ Accept(c) \/ ServeCall(c) \/ DeliverStandalone(c) \/ NoSessionID(c)
             \/ StreamHeavyPayload(c)
      PROVE  Shapes'
  <2>1. UNCHANGED <<pipeVars, logVars, reply, main>>
    BY <1>5 DEF Accept, ServeCall, DeliverStandalone, NoSessionID, StreamHeavyPayload
  <2>2. toolMu' \in [Tools -> Calls \cup {None}]
    BY <1>5, MutexTyped
    DEF Shapes, Accept, ServeCall, DeliverStandalone, NoSessionID, StreamHeavyPayload
  <2>3. MainShape'
    BY <2>1, <2>2 DEF Shapes, MainShape
  <2> QED
    BY <1>1, <1>2, <2>1, <2>3 DEF Shapes
<1>6. ASSUME NEW c \in Calls, WriteReply(c) \/ ReplyWritten(c) PROVE Shapes'
  <2>1. UNCHANGED <<toolVars, logVars, main>>
    BY <1>6 DEF WriteReply, ReplyWritten
  <2>2. reply' \in [Calls -> {"none", "writing", "sent", "failed"}]
    BY <1>6 DEF WriteReply, ReplyWritten, Shapes, MainShape
  <2>3. OutShape'
    BY <1>2, <1>6, OutputShaped, FramesTyped DEF Shapes, WriteReply, ReplyWritten
  <2> QED
    BY <1>1, <2>1, <2>2, <2>3 DEF Shapes, MainShape, toolVars
<1>7. ASSUME NEW c \in Calls,
             RunStream(c) \/ ExpireStream(c) \/ Notify(c) \/ Refused(c) \/ Notified(c)
      PROVE  Shapes'
  <2>1. UNCHANGED <<toolVars, logVars, reply, main>>
    BY <1>7 DEF RunStream, ExpireStream, Notify, Refused, Notified
  <2>2. OutShape'
    BY <1>2, <1>7, OutputShaped, FramesTyped
    DEF Shapes, RunStream, ExpireStream, Notify, Refused, Notified
  <2> QED
    BY <1>1, <1>3, <2>1, <2>2 DEF Shapes
<1>8. CASE LogLine \/ (\E k \in 1..Sinks : RunWorker(k)) \/ CleanUpLogs
  <2>1. UNCHANGED <<toolVars, pipeVars, reply, main>>
    BY <1>8 DEF LogLine, RunWorker, CleanUpLogs
  <2> QED
    BY <1>2, <1>3, <1>8, <2>1, LogsShaped DEF Shapes
<1>9. CASE EndOfInput \/ Connected \/ SessionEnds \/ FinalFlush \/ Flushed \/ Exit
  <2>1. UNCHANGED <<toolVars, logVars, reply>>
    BY <1>9 DEF EndOfInput, Connected, SessionEnds, FinalFlush, Flushed, Exit
  <2>2. MainShape'
    BY <1>9, <2>1
    DEF EndOfInput, Connected, SessionEnds, FinalFlush, Flushed, Exit, Shapes, MainShape, toolVars
  <2>3. OutShape'
    BY <1>2, <1>9, OutputShaped
    DEF Shapes, EndOfInput, Connected, SessionEnds, FinalFlush, Flushed, Exit
  <2> QED
    BY <1>1, <2>1, <2>2, <2>3 DEF Shapes
<1> QED
  BY <1>4, <1>5, <1>6, <1>7, <1>8, <1>9 DEF Next, Shutdown

(* In every state variables have their types, queues are within their       *)
(* capacities and at most one frame is buffered, for any calls, tools,      *)
(* lines, sizes and limits.                                                 *)
THEOREM ShapesHold == Spec => []Shapes
BY ShapesInitially, ShapesKept, Invariance, PTL DEF Spec

(* The types of the state. *)
THEOREM TypeCorrect == Spec => []TypeOK
<1>1. IInv /\ Shapes => TypeOK
  <2> SUFFICES ASSUME IInv, Shapes PROVE TypeOK
    OBVIOUS
  <2>1. Tool!CallType /\ Streaming!StreamType
    BY DEF IInv, ArtifactInv, PipeInv, Shapes, MainShape, Tool!CallType, Streaming!StreamType
  <2>2. Pipe!OutType(Frame)
    BY DEF IInv, PipeInv, Buffer, Shapes, OutShape, Pipe!OutType
  <2>3. Logs!LogType
    <3>1. record.at \in 0..(Sinks + 1)
      BY LogNumbers DEF IInv, LogInv, Shapes, LogShape
    <3>2. record = [line |-> record.line, at |-> record.at, checked |-> record.checked]
      BY DEF IInv, LogInv
    <3> QED
      BY <3>1, <3>2 DEF IInv, LogInv, Shapes, LogShape, Logs!LogType, Logs!S, K, Entries
  <2> QED
    BY <2>1, <2>2, <2>3 DEF TypeOK, IInv, Shapes, MainShape
<1> QED
  BY <1>1, Invariance, ShapesHold, PTL

(* The log buffer keeps its limit, for any lines and sizes.                 *)
THEOREM RingBoundedHolds == Spec => []RingBounded
  BY ShapesHold, PTL DEF Shapes, LogShape
=============================================================================
