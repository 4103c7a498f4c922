------------------------- MODULE RecallClientProofs -------------------------
(***************************************************************************)
(* No silent loss and order within a session, for any events, shards,      *)
(* capacity and number of attempts.                                        *)
(*                                                                         *)
(* The argument is that a shard is a sequence cut in two: order[s], all    *)
(* that was queued, is what the flusher has taken followed by queue[s].    *)
(* What the flusher holds is the last event it took, and what was saved    *)
(* lies in the part it took, so nothing that is queued or held comes       *)
(* before something saved.                                                 *)
(***************************************************************************)
EXTENDS RecallClient, SequenceTheorems, TLAPS

(* How many of the shard's events its flusher has taken. *)
Taken(s) == Len(order[s]) - Len(queue[s])

(* The queue is the rest of what was queued. *)
Rest(s) ==
    /\ Taken(s) \in Nat
    /\ \A i \in 1..Len(queue[s]) : queue[s][i] = order[s][Taken(s) + i]

(* Only accepted events of the shard are queued, each once. *)
Once(s) ==
    /\ \A i \in 1..Len(order[s]) : caller[order[s][i]] = "accepted" /\ ShardOf[order[s][i]] = s
    /\ \A i, j \in 1..Len(order[s]) : order[s][i] = order[s][j] => i = j

(* The flusher holds the last event it took, or nothing. *)
HoldsLast(s) ==
    /\ worker[s].pc \in {"idle", "exited"} => worker[s].event = None
    /\ worker[s].pc \notin {"idle", "exited"} =>
           Taken(s) > 0 /\ worker[s].event = order[s][Taken(s)]
    /\ worker[s].pc = "reply" => worker[s].event \in saved

SavedTaken ==
    \A e \in saved : \E i \in 1..Taken(ShardOf[e]) : order[ShardOf[e]][i] = e

IInv ==
    /\ TypeOK
    /\ \A s \in Shards : Rest(s) /\ Once(s) /\ HoldsLast(s)
    /\ SavedTaken
    /\ NoSilentLoss

Busy(s) == worker[s].pc \notin {"idle", "exited"}

-----------------------------------------------------------------------------
(* Positions in a sequence of length m whose last n elements are left.     *)
LEMMA Positions ==
    \A m, n \in Nat :
        /\ m - n > 0 => m - n \in 1..m
        /\ (m + 1) - (n + 1) = m - n
        /\ m - n <= m
        /\ m - n \in Nat => \A i \in 1..n : (m - n) + i \in 1..m
        /\ (m - n) + (n + 1) = m + 1
        /\ \A i \in 1..n + 1 : i \in 1..n \/ i = n + 1
OBVIOUS

(* What a busy flusher holds.                                              *)
LEMMA HeldEvent ==
    ASSUME IInv, NEW s \in Shards, Busy(s)
    PROVE  /\ Taken(s) \in 1..Len(order[s])
           /\ worker[s].event = order[s][Taken(s)]
           /\ worker[s].event \in Events /\ ShardOf[worker[s].event] = s
<1>1. Taken(s) \in Nat /\ Taken(s) > 0 /\ worker[s].event = order[s][Taken(s)]
  BY DEF IInv, Rest, HoldsLast, Busy
<1>2. order[s] \in Seq(Events) /\ queue[s] \in Seq(Events)
  BY DEF IInv, TypeOK
<1>3. Len(order[s]) \in Nat /\ Len(queue[s]) \in Nat
  BY <1>2, LenProperties
<1>4. Taken(s) \in 1..Len(order[s])
  BY <1>1, <1>3, Positions DEF Taken
<1>5. worker[s].event \in Events
  BY <1>1, <1>2, <1>4
<1> QED
  BY <1>1, <1>4, <1>5 DEF IInv, Once

(* Steps that neither queue nor take an event.                             *)
LEMMA QueuesKept ==
    ASSUME IInv, TypeOK', UNCHANGED <<queue, order>>,
           \A e \in Events : caller[e] = "accepted" <=> caller'[e] = "accepted",
           saved \subseteq saved', exhausted \subseteq exhausted', Cancelled => Cancelled',
           \A s \in Shards : HoldsLast(s)',
           \A e \in saved' : e \in saved \/ \E s \in Shards : Busy(s) /\ worker[s].event = e,
           \A s \in Shards : Busy(s) /\ worker'[s].event # worker[s].event =>
               Cancelled' \/ worker[s].event \in saved' \cup exhausted'
    PROVE  IInv'
<1>1. \A s \in Shards : Rest(s)' /\ Once(s)'
  <2> SUFFICES ASSUME NEW s \in Shards PROVE Rest(s)' /\ Once(s)'
    OBVIOUS
  <2>1. Rest(s) /\ Once(s) /\ order[s] \in Seq(Events)
    BY DEF IInv, TypeOK
  <2>2. \A i \in 1..Len(order[s]) : order[s][i] \in Events
    BY <2>1
  <2> QED
    BY <2>1, <2>2 DEF Rest, Once, Taken
<1>2. SavedTaken'
  <2> SUFFICES ASSUME NEW e \in saved'
               PROVE  \E i \in 1..Taken(ShardOf[e])' : order[ShardOf[e]][i] = e
    BY DEF SavedTaken, Taken
  <2>1. CASE e \in saved
    BY <2>1 DEF IInv, SavedTaken, Taken
  <2>2. CASE \E s \in Shards : Busy(s) /\ worker[s].event = e
    <3>1. PICK s \in Shards : Busy(s) /\ worker[s].event = e
      BY <2>2
    <3>2. Taken(s) \in 1..Len(order[s]) /\ e = order[s][Taken(s)] /\ ShardOf[e] = s
      BY <3>1, HeldEvent
    <3>3. Taken(s) \in 1..Taken(s)
      BY <3>2
    <3> QED
      BY <3>2, <3>3 DEF Taken
  <2> QED
    BY <2>1, <2>2
<1>3. NoSilentLoss'
  <2> SUFFICES ASSUME NEW e \in Events, caller[e] = "accepted", ~Cancelled'
               PROVE  (Queued(e) \/ Held(e) \/ e \in saved \cup exhausted)'
    BY DEF NoSilentLoss
  <2>1. Queued(e) \/ Held(e) \/ e \in saved \cup exhausted
    BY DEF IInv, NoSilentLoss
  <2>2. CASE Queued(e)
    BY <2>2 DEF Queued
  <2>3. CASE e \in saved \cup exhausted
    BY <2>3
  <2>4. CASE Held(e)
    <3>1. ShardOf[e] \in Shards
      BY RecallAssumption
    <3>2. Busy(ShardOf[e])
      BY <2>4, <3>1, RecallAssumption DEF Held, Busy, IInv, HoldsLast
    <3> QED
      BY <2>4, <3>1, <3>2 DEF Held
  <2> QED
    BY <2>1, <2>2, <2>3, <2>4
<1> QED
  BY <1>1, <1>2, <1>3 DEF IInv

(* Start, Close, EndContext, the server and the refusals.                  *)
LEMMA FlushersKept ==
    ASSUME IInv, TypeOK', UNCHANGED <<queue, order, worker, saved, exhausted>>,
           \A e \in Events : caller[e] = "accepted" <=> caller'[e] = "accepted",
           Cancelled => Cancelled'
    PROVE  IInv'
<1>1. \A s \in Shards : HoldsLast(s)'
  BY DEF IInv, HoldsLast, Taken
<1> QED
  BY <1>1, QueuesKept

(* A flusher that goes on with the event it holds, or is done with it.     *)
LEMMA FlusherMoves ==
    ASSUME IInv, NEW s \in Shards, UNCHANGED <<caller, queue, link, ctxDone, closing, order>>,
           Busy(s), worker' \in [Shards -> Flusher],
           \A t \in Shards : t # s => worker'[t] = worker[t],
           saved' \in {saved, saved \cup {worker[s].event}},
           exhausted' \in {exhausted, exhausted \cup {worker[s].event}},
           \/ worker'[s] = Idle /\ (Cancelled \/ worker[s].event \in saved' \cup exhausted')
           \/ /\ worker'[s].event = worker[s].event
              /\ worker'[s].pc \notin {"idle", "exited"}
              /\ worker'[s].pc = "reply" => worker[s].event \in saved'
    PROVE  IInv'
<1>1. worker[s].event \in Events
  BY HeldEvent
<1>2. TypeOK'
  <2>1. saved' \subseteq Events /\ exhausted' \subseteq Events
    BY <1>1 DEF IInv, TypeOK
  <2> QED
    BY <2>1 DEF IInv, TypeOK
<1>3. \A t \in Shards : HoldsLast(t)'
  <2> SUFFICES ASSUME NEW t \in Shards PROVE HoldsLast(t)'
    OBVIOUS
  <2>1. HoldsLast(t)
    BY DEF IInv
  <2>2. CASE t = s
    <3>1. CASE worker'[s] = Idle
      BY <2>2, <3>1 DEF HoldsLast, Idle
    <3>2. CASE worker'[s].event = worker[s].event /\ worker'[s].pc \notin {"idle", "exited"}
      <4>1. worker'[s].pc = "reply" => worker'[s].event \in saved'
        BY <3>2 DEF Idle
      <4>2. Taken(s)' = Taken(s) /\ order'[s] = order[s]
        BY DEF Taken
      <4>3. Taken(s) > 0 /\ worker[s].event = order[s][Taken(s)]
        BY <2>1, <2>2 DEF HoldsLast, Busy
      <4> QED
        BY <2>2, <3>2, <4>1, <4>2, <4>3 DEF HoldsLast
    <3> QED
      BY <3>1, <3>2
  <2>3. CASE t # s
    <3>1. worker'[t] = worker[t]
      BY <2>3
    <3> QED
      BY <2>1, <3>1 DEF HoldsLast, Taken
  <2> QED
    BY <2>2, <2>3
<1>4. /\ Cancelled' = Cancelled
      /\ \A e \in saved' : e \in saved \/ \E t \in Shards : Busy(t) /\ worker[t].event = e
  BY DEF Cancelled
<1>5. \A t \in Shards : Busy(t) /\ worker'[t].event # worker[t].event =>
          Cancelled' \/ worker[t].event \in saved' \cup exhausted'
  BY <1>4
<1> QED
  BY <1>2, <1>3, <1>4, <1>5, QueuesKept

-----------------------------------------------------------------------------
(* The steps that do change a queue.                                       *)
LEMMA EnqueueStep == ASSUME IInv, NEW e \in Events, Enqueue(e) PROVE IInv'
<1> DEFINE s == ShardOf[e]
           q == queue[s]
           o == order[s]
<1>1. s \in Shards /\ q \in Seq(Events) /\ o \in Seq(Events) /\ Len(q) \in Nat /\ Len(o) \in Nat
  <2>1. s \in Shards
    BY RecallAssumption
  <2>2. q \in Seq(Events) /\ o \in Seq(Events)
    BY <2>1 DEF IInv, TypeOK
  <2> QED
    BY <2>1, <2>2, LenProperties
<1>2. /\ queue' = [queue EXCEPT ![s] = Append(q, e)] /\ order' = [order EXCEPT ![s] = Append(o, e)]
      /\ caller' = [caller EXCEPT ![e] = "accepted"] /\ caller[e] = "checked"
      /\ Len(q) < Capacity
      /\ UNCHANGED <<worker, link, ctxDone, closing, saved, exhausted>>
  BY DEF Enqueue
<1>3. /\ queue'[s] = Append(q, e) /\ order'[s] = Append(o, e)
      /\ \A t \in Shards : t # s => queue'[t] = queue[t] /\ order'[t] = order[t]
  BY <1>1, <1>2 DEF IInv, TypeOK
<1>4. /\ Append(q, e) \in Seq(Events) /\ Len(Append(q, e)) = Len(q) + 1
      /\ \A i \in 1..Len(q) : Append(q, e)[i] = q[i]
      /\ Append(q, e)[Len(q) + 1] = e
  BY <1>1, AppendProperties
<1>5. /\ Append(o, e) \in Seq(Events) /\ Len(Append(o, e)) = Len(o) + 1
      /\ \A i \in 1..Len(o) : Append(o, e)[i] = o[i]
      /\ Append(o, e)[Len(o) + 1] = e
  BY <1>1, AppendProperties
<1>6. TypeOK'
  <2>1. queue' \in [Shards -> Seq(Events)] /\ order' \in [Shards -> Seq(Events)]
    BY <1>1, <1>2, <1>4, <1>5 DEF IInv, TypeOK
  <2>2. \A t \in Shards : Len(queue'[t]) <= Capacity
    <3> SUFFICES ASSUME NEW t \in Shards PROVE Len(queue'[t]) <= Capacity
      OBVIOUS
    <3>1. CASE t = s
      BY <1>1, <1>2, <1>3, <1>4, <3>1, RecallAssumption
    <3>2. CASE t # s
      BY <1>3, <3>2 DEF IInv, TypeOK
    <3> QED
      BY <3>1, <3>2
  <2>3. caller' \in [Events -> Calls]
    BY <1>2 DEF IInv, TypeOK, Calls
  <2> QED
    BY <1>2, <2>1, <2>2, <2>3 DEF IInv, TypeOK
<1>7. \A t \in Shards : Taken(t)' = Taken(t)
  <2> SUFFICES ASSUME NEW t \in Shards PROVE Taken(t)' = Taken(t)
    OBVIOUS
  <2>1. CASE t = s
    <3>1. Len(Append(o, e)) - Len(Append(q, e)) = Len(o) - Len(q)
      BY <1>1, <1>4, <1>5, Positions
    <3> QED
      BY <1>3, <2>1, <3>1 DEF Taken
  <2>2. CASE t # s
    BY <1>3, <2>2 DEF Taken
  <2> QED
    BY <2>1, <2>2
<1>8. /\ \A t \in Shards : \A i \in 1..Len(order[t]) : order'[t][i] = order[t][i]
      /\ \A t \in Shards : Taken(t) \in Nat /\ Taken(t) <= Len(order[t])
  <2> SUFFICES ASSUME NEW t \in Shards
               PROVE  /\ \A i \in 1..Len(order[t]) : order'[t][i] = order[t][i]
                      /\ Taken(t) \in Nat /\ Taken(t) <= Len(order[t])
    OBVIOUS
  <2>1. \A i \in 1..Len(order[t]) : order'[t][i] = order[t][i]
    BY <1>3, <1>5
  <2>2. Len(order[t]) \in Nat /\ Len(queue[t]) \in Nat
    <3>1. order[t] \in Seq(Events) /\ queue[t] \in Seq(Events)
      BY DEF IInv, TypeOK
    <3> QED
      BY <3>1, LenProperties
  <2>3. Taken(t) <= Len(order[t])
    BY <2>2, Positions DEF Taken
  <2> QED
    BY <2>1, <2>3 DEF IInv, Rest
<1>9. \A t \in Shards : Rest(t)'
  <2> SUFFICES ASSUME NEW t \in Shards PROVE Rest(t)'
    OBVIOUS
  <2>1. Rest(t)
    BY DEF IInv
  <2>2. CASE t # s
    BY <1>3, <1>7, <2>1, <2>2 DEF Rest
  <2>3. CASE t = s
    <3>1. Taken(s) = Len(o) - Len(q) /\ Taken(s) \in Nat
      BY <1>1, <1>8 DEF Taken
    <3>2. \A i \in 1..Len(q) + 1 : Append(q, e)[i] = Append(o, e)[Taken(s) + i]
      <4> SUFFICES ASSUME NEW i \in 1..Len(q) + 1
                   PROVE  Append(q, e)[i] = Append(o, e)[Taken(s) + i]
        OBVIOUS
      <4>1. CASE i \in 1..Len(q)
        <5>1. Taken(s) + i \in 1..Len(o)
          BY <1>1, <3>1, <4>1, Positions
        <5>2. q[i] = o[Taken(s) + i]
          BY <2>1, <2>3, <4>1 DEF Rest
        <5> QED
          BY <1>4, <1>5, <4>1, <5>1, <5>2
      <4>2. CASE i = Len(q) + 1
        <5>1. Taken(s) + i = Len(o) + 1
          BY <1>1, <3>1, <4>2, Positions
        <5> QED
          BY <1>4, <1>5, <4>2, <5>1
      <4> QED
        BY <1>1, <4>1, <4>2, Positions
    <3> QED
      BY <1>3, <1>4, <1>7, <1>8, <2>3, <3>2 DEF Rest
  <2> QED
    BY <2>2, <2>3
<1>10. \A t \in Shards : Once(t)'
  <2> SUFFICES ASSUME NEW t \in Shards PROVE Once(t)'
    OBVIOUS
  <2>1. /\ Once(t) /\ order[t] \in Seq(Events)
        /\ \A i \in 1..Len(order[t]) : order[t][i] \in Events
    BY DEF IInv, TypeOK
  <2>2. \A i \in 1..Len(order[t]) : order[t][i] # e /\ caller'[order[t][i]] = "accepted"
    BY <1>2, <2>1 DEF IInv, TypeOK, Once
  <2>3. CASE t # s
    BY <1>3, <2>1, <2>2, <2>3 DEF Once
  <2>4. CASE t = s
    <3>1. caller'[e] = "accepted"
      BY <1>2 DEF IInv, TypeOK
    <3>2. \A i \in 1..Len(o) + 1 :
              \/ i \in 1..Len(o) /\ Append(o, e)[i] = o[i]
              \/ i = Len(o) + 1 /\ Append(o, e)[i] = e
      BY <1>1, <1>5
    <3>3. \A i \in 1..Len(o) + 1 : /\ caller'[Append(o, e)[i]] = "accepted"
                                   /\ ShardOf[Append(o, e)[i]] = s
      BY <2>1, <2>2, <2>4, <3>1, <3>2 DEF Once
    <3>4. \A i, j \in 1..Len(o) + 1 : Append(o, e)[i] = Append(o, e)[j] => i = j
      BY <2>1, <2>2, <2>4, <3>2 DEF Once
    <3> QED
      BY <1>3, <1>5, <2>4, <3>3, <3>4 DEF Once
  <2> QED
    BY <2>3, <2>4
<1>11. \A t \in Shards : HoldsLast(t)'
  <2> SUFFICES ASSUME NEW t \in Shards PROVE HoldsLast(t)'
    OBVIOUS
  <2>1. HoldsLast(t)
    BY DEF IInv
  <2>2. Busy(t) => order'[t][Taken(t)] = order[t][Taken(t)]
    BY <1>8, HeldEvent
  <2> QED
    BY <1>2, <1>7, <2>1, <2>2 DEF HoldsLast, Busy
<1>12. SavedTaken'
  <2> SUFFICES ASSUME NEW x \in saved
               PROVE  \E i \in 1..Taken(ShardOf[x]) : order'[ShardOf[x]][i] = x
    BY <1>2, <1>7, RecallAssumption DEF SavedTaken, IInv, TypeOK
  <2>1. x \in Events /\ ShardOf[x] \in Shards
    BY RecallAssumption DEF IInv, TypeOK
  <2>2. PICK i \in 1..Taken(ShardOf[x]) : order[ShardOf[x]][i] = x
    BY DEF IInv, SavedTaken
  <2>3. i \in 1..Len(order[ShardOf[x]])
    <3>1. /\ Taken(ShardOf[x]) \in Nat /\ Taken(ShardOf[x]) <= Len(order[ShardOf[x]])
          /\ Len(order[ShardOf[x]]) \in Nat
      <4>1. order[ShardOf[x]] \in Seq(Events)
        BY <2>1 DEF IInv, TypeOK
      <4> QED
        BY <1>8, <2>1, <4>1, LenProperties
    <3> QED
      BY <2>2, <3>1
  <2> QED
    BY <1>8, <2>1, <2>2, <2>3
<1>13. NoSilentLoss'
  <2> SUFFICES ASSUME NEW x \in Events, caller'[x] = "accepted", ~Cancelled
               PROVE  (Queued(x) \/ Held(x) \/ x \in saved \cup exhausted)'
    BY <1>2 DEF NoSilentLoss, Cancelled
  <2>1. CASE x = e
    <3>1. Len(q) + 1 \in DOMAIN queue'[s] /\ queue'[s][Len(q) + 1] = e
      BY <1>1, <1>3, <1>4, LenProperties
    <3> QED
      BY <2>1, <3>1 DEF Queued
  <2>2. CASE x # e
    <3>1. caller[x] = "accepted" /\ ShardOf[x] \in Shards
      BY <1>2, <2>2, RecallAssumption DEF IInv, TypeOK
    <3>2. CASE Queued(x)
      <4>1. PICK i \in DOMAIN queue[ShardOf[x]] : queue[ShardOf[x]][i] = x
        BY <3>2 DEF Queued
      <4>2. i \in DOMAIN queue'[ShardOf[x]] /\ queue'[ShardOf[x]][i] = x
        <5>1. CASE ShardOf[x] = s
          <6>1. i \in 1..Len(q)
            BY <1>1, <4>1, <5>1, LenProperties
          <6>2. DOMAIN queue'[s] = 1..Len(q) + 1
            BY <1>3, <1>4, LenProperties
          <6> QED
            BY <1>1, <1>3, <1>4, <4>1, <5>1, <6>1, <6>2
        <5>2. CASE ShardOf[x] # s
          BY <1>3, <3>1, <4>1, <5>2
        <5> QED
          BY <5>1, <5>2
      <4> QED
        BY <4>2 DEF Queued
    <3>3. CASE Held(x) \/ x \in saved \cup exhausted
      BY <1>2, <3>3 DEF Held
    <3> QED
      BY <3>1, <3>2, <3>3 DEF IInv, NoSilentLoss
  <2> QED
    BY <2>1, <2>2
<1> QED
  BY <1>6, <1>9, <1>10, <1>11, <1>12, <1>13 DEF IInv

LEMMA ReceiveStep == ASSUME IInv, NEW s \in Shards, Receive(s) PROVE IInv'
<1> DEFINE q == queue[s]
           o == order[s]
           h == Head(q)
           w == [pc |-> "flush", event |-> h, tries |-> 1]
<1>1. q \in Seq(Events) /\ o \in Seq(Events) /\ Len(q) \in Nat /\ Len(o) \in Nat
  <2>1. q \in Seq(Events) /\ o \in Seq(Events)
    BY DEF IInv, TypeOK
  <2> QED
    BY <2>1, LenProperties
<1>2. /\ queue' = [queue EXCEPT ![s] = Tail(q)] /\ worker' = [worker EXCEPT ![s] = w]
      /\ q # <<>> /\ worker[s].pc = "idle"
      /\ UNCHANGED <<caller, link, ctxDone, closing, order, saved, exhausted>>
  BY DEF Receive
<1>3. /\ queue'[s] = Tail(q) /\ worker'[s] = w
      /\ \A t \in Shards : t # s => queue'[t] = queue[t] /\ worker'[t] = worker[t]
  BY <1>2 DEF IInv, TypeOK
<1>4. /\ h \in Events /\ h = q[1] /\ Tail(q) \in Seq(Events)
      /\ Len(q) > 0 /\ Len(Tail(q)) = Len(q) - 1 /\ Len(Tail(q)) \in Nat
      /\ \A i \in 1..Len(Tail(q)) : Tail(q)[i] = q[i + 1]
  <2>1. /\ h \in Events /\ Tail(q) \in Seq(Events) /\ Len(Tail(q)) = Len(q) - 1
        /\ \A i \in 1..Len(Tail(q)) : Tail(q)[i] = q[i + 1]
    BY <1>1, <1>2, HeadTailProperties
  <2>2. Len(q) > 0
    BY <1>1, <1>2, EmptySeq
  <2>3. h = q[1]
    BY <1>1, <1>2
  <2> QED
    BY <1>1, <2>1, <2>2, <2>3, LenProperties
<1>n. PICK n \in Nat : n = Len(q)
  BY <1>1
<1>k. PICK k \in Nat : k = Taken(s)
  BY DEF IInv, Rest
<1>5. worker[s].event = None
  BY <1>2 DEF IInv, HoldsLast
<1>6. TypeOK'
  <2>1. queue' \in [Shards -> Seq(Events)]
    BY <1>2, <1>4 DEF IInv, TypeOK
  <2>2. \A t \in Shards : Len(queue'[t]) <= Capacity
    <3> SUFFICES ASSUME NEW t \in Shards PROVE Len(queue'[t]) <= Capacity
      OBVIOUS
    <3>1. Len(queue[t]) <= Capacity
      BY DEF IInv, TypeOK
    <3>2. CASE t = s
      <4>1. n <= Capacity /\ Len(queue'[t]) = n - 1
        BY <1>3, <1>4, <1>n, <3>1, <3>2
      <4> QED
        BY <4>1, RecallAssumption
    <3> QED
      BY <1>3, <3>1, <3>2
  <2>3. worker' \in [Shards -> Flusher]
    <3>1. 1 \in 0..Retries
      BY RecallAssumption
    <3>2. w \in Flusher
      BY <1>4, <3>1 DEF Flusher
    <3> QED
      BY <1>2, <3>2 DEF IInv, TypeOK
  <2> QED
    BY <1>2, <2>1, <2>2, <2>3 DEF IInv, TypeOK
<1>7. /\ Taken(s)' = k + 1 /\ order'[s] = o
      /\ \A t \in Shards : t # s => Taken(t)' = Taken(t)
  <2>1. \A l, d \in Nat : d > 0 => l - (d - 1) = (l - d) + 1
    OBVIOUS
  <2>2. Len(o) - (n - 1) = (Len(o) - n) + 1
    BY <1>1, <1>4, <1>n, <2>1
  <2>3. Len(o) - Len(Tail(q)) = Taken(s) + 1
    BY <1>4, <1>n, <2>2 DEF Taken
  <2> QED
    BY <1>2, <1>3, <1>k, <2>3 DEF Taken
<1>8. \A t \in Shards : Rest(t)' /\ Once(t)'
  <2> SUFFICES ASSUME NEW t \in Shards PROVE Rest(t)' /\ Once(t)'
    OBVIOUS
  <2>1. Rest(t) /\ Once(t)
    BY DEF IInv
  <2>2. Once(t)'
    BY <1>2, <2>1 DEF Once
  <2>3. CASE t # s
    BY <1>2, <1>3, <1>7, <2>1, <2>2, <2>3 DEF Rest
  <2>4. CASE t = s
    <3>1. \A i \in 1..n - 1 : Tail(q)[i] = o[(k + 1) + i]
      <4> SUFFICES ASSUME NEW i \in 1..n - 1 PROVE Tail(q)[i] = o[(k + 1) + i]
        OBVIOUS
      <4>1. i + 1 \in 1..n /\ (k + 1) + i = k + (i + 1)
        OBVIOUS
      <4>2. Tail(q)[i] = q[i + 1]
        BY <1>4, <1>n
      <4>3. q[i + 1] = o[k + (i + 1)]
        BY <1>k, <1>n, <2>1, <2>4, <4>1 DEF Rest
      <4> QED
        BY <4>1, <4>2, <4>3
    <3>2. Taken(s)' \in Nat
      BY <1>7
    <3> QED
      BY <1>3, <1>4, <1>7, <1>n, <2>2, <2>4, <3>1, <3>2 DEF Rest
  <2> QED
    BY <2>3, <2>4
<1>9. \A t \in Shards : HoldsLast(t)'
  <2> SUFFICES ASSUME NEW t \in Shards PROVE HoldsLast(t)'
    OBVIOUS
  <2>1. HoldsLast(t)
    BY DEF IInv
  <2>2. CASE t # s
    BY <1>2, <1>3, <1>7, <2>1, <2>2 DEF HoldsLast
  <2>3. CASE t = s
    <3>1. 1 \in 1..n
      BY <1>4, <1>n
    <3>2. h = o[k + 1]
      BY <1>4, <1>k, <1>n, <3>1 DEF IInv, Rest
    <3>3. k + 1 > 0
      OBVIOUS
    <3> QED
      BY <1>3, <1>7, <2>3, <3>2, <3>3 DEF HoldsLast
  <2> QED
    BY <2>2, <2>3
<1>10. SavedTaken'
  <2> SUFFICES ASSUME NEW x \in saved
               PROVE  \E i \in 1..Taken(ShardOf[x])' : order[ShardOf[x]][i] = x
    BY <1>2 DEF SavedTaken, Taken
  <2>1. ShardOf[x] \in Shards
    BY RecallAssumption DEF IInv, TypeOK
  <2>2. PICK i \in 1..Taken(ShardOf[x]) : order[ShardOf[x]][i] = x
    BY DEF IInv, SavedTaken
  <2>3. i \in 1..Taken(ShardOf[x])'
    <3>1. CASE ShardOf[x] # s
      BY <1>7, <2>1, <2>2, <3>1
    <3>2. CASE ShardOf[x] = s
      <4>1. i \in 1..k
        BY <1>k, <2>2, <3>2
      <4>2. i \in 1..k + 1
        BY <4>1
      <4> QED
        BY <1>7, <3>2, <4>2
    <3> QED
      BY <3>1, <3>2
  <2> QED
    BY <2>2, <2>3
<1>11. NoSilentLoss'
  <2> SUFFICES ASSUME NEW x \in Events, caller[x] = "accepted", ~Cancelled
               PROVE  (Queued(x) \/ Held(x) \/ x \in saved \cup exhausted)'
    BY <1>2 DEF NoSilentLoss, Cancelled
  <2>1. ShardOf[x] \in Shards
    BY RecallAssumption
  <2>2. CASE Queued(x)
    <3>1. PICK i \in DOMAIN queue[ShardOf[x]] : queue[ShardOf[x]][i] = x
      BY <2>2 DEF Queued
    <3>2. CASE ShardOf[x] # s
      BY <1>3, <2>1, <3>1, <3>2 DEF Queued
    <3>3. CASE ShardOf[x] = s
      <4>1. i \in 1..Len(q) /\ DOMAIN Tail(q) = 1..Len(Tail(q))
        BY <1>1, <1>4, <3>1, <3>3, LenProperties
      <4>2. CASE i = 1
        BY <1>3, <1>4, <3>1, <3>3, <4>2 DEF Held
      <4>3. CASE i # 1
        <5>1. i - 1 \in 1..Len(q) - 1 /\ (i - 1) + 1 = i
          <6>1. i \in 1..n
            BY <1>n, <4>1
          <6>2. i - 1 \in 1..n - 1 /\ (i - 1) + 1 = i
            BY <4>3, <6>1
          <6> QED
            BY <1>n, <6>2
        <5>2. i - 1 \in DOMAIN queue'[s] /\ queue'[s][i - 1] = x
          BY <1>3, <1>4, <3>1, <3>3, <4>1, <5>1
        <5> QED
          BY <3>3, <5>2 DEF Queued
      <4> QED
        BY <4>2, <4>3
    <3> QED
      BY <3>2, <3>3
  <2>3. CASE Held(x)
    <3>1. ShardOf[x] # s
      BY <1>5, <2>3, RecallAssumption DEF Held
    <3> QED
      BY <1>3, <2>1, <2>3, <3>1 DEF Held
  <2>4. CASE x \in saved \cup exhausted
    BY <1>2, <2>4
  <2> QED
    BY <2>2, <2>3, <2>4 DEF IInv, NoSilentLoss
<1> QED
  BY <1>6, <1>8, <1>9, <1>10, <1>11 DEF IInv

-----------------------------------------------------------------------------
(* The flusher's other steps.                                              *)
LEMMA ExitStep == ASSUME IInv, NEW s \in Shards, Exit(s) PROVE IInv'
<1>1. /\ worker' \in [Shards -> Flusher]
      /\ worker'[s].pc = "exited" /\ worker'[s].event = worker[s].event /\ ~Busy(s)
      /\ \A t \in Shards : t # s => worker'[t] = worker[t]
  BY DEF Exit, Busy, IInv, TypeOK, Flusher
<1>2. TypeOK'
  BY <1>1 DEF Exit, IInv, TypeOK
<1>3. \A t \in Shards : HoldsLast(t)'
  BY <1>1 DEF Exit, Busy, HoldsLast, Taken, IInv
<1>4. Cancelled => Cancelled'
  BY DEF Exit, Cancelled
<1> QED
  BY <1>1, <1>2, <1>3, <1>4, QueuesKept DEF Exit, IInv

(* The event stays with the flusher.                                       *)
LEMMA BecomesStep ==
    ASSUME IInv, NEW s \in Shards, UNCHANGED <<caller, queue, link, ctxDone, closing, order, exhausted>>,
           NEW pc \in {"flush", "calling", "reply", "wait"}, Becomes(s, pc), Busy(s),
           saved' \in {saved, saved \cup {worker[s].event}},
           pc = "reply" => worker[s].event \in saved'
    PROVE  IInv'
<1>1. /\ worker' \in [Shards -> Flusher]
      /\ worker'[s].pc = pc /\ worker'[s].event = worker[s].event
      /\ \A t \in Shards : t # s => worker'[t] = worker[t]
  BY DEF Becomes, IInv, TypeOK, Flusher
<1> QED
  BY <1>1, FlusherMoves

(* The flusher is done with its event.                                     *)
LEMMA IdleStep ==
    ASSUME IInv, NEW s \in Shards, UNCHANGED <<caller, queue, link, ctxDone, closing, order, saved>>,
           worker' = [worker EXCEPT ![s] = Idle], Busy(s),
           exhausted' \in {exhausted, exhausted \cup {worker[s].event}},
           Cancelled \/ worker[s].event \in saved' \cup exhausted'
    PROVE  IInv'
<1>1. /\ worker' \in [Shards -> Flusher] /\ worker'[s] = Idle
      /\ \A t \in Shards : t # s => worker'[t] = worker[t]
  BY RecallAssumption DEF Idle, IInv, TypeOK, Flusher
<1> QED
  BY <1>1, FlusherMoves

LEMMA FlushStep == ASSUME IInv, NEW s \in Shards, Flush(s) PROVE IInv'
<1>1. CASE Unavailable(s) \/ Call(s) \/ CallFails(s)
  BY <1>1, BecomesStep DEF Unavailable, Call, CallFails, Busy
<1>2. CASE CallCancelled(s)
  <2>1. saved' \in {saved, saved \cup {worker[s].event}}
    BY <1>2 DEF CallCancelled
  <2> QED
    BY <1>2, <2>1, BecomesStep DEF CallCancelled, Busy
<1>3. CASE Served(s)
  BY <1>3, BecomesStep DEF Served, Busy
<1>4. CASE Replied(s)
  BY <1>4, IdleStep DEF Replied, Busy, IInv, HoldsLast
<1>5. CASE Retry(s)
  <2>1. /\ worker' \in [Shards -> Flusher]
        /\ worker'[s].pc = "flush" /\ worker'[s].event = worker[s].event
        /\ \A t \in Shards : t # s => worker'[t] = worker[t]
    <3>1. worker[s].tries + 1 \in 0..Retries
      BY <1>5, RecallAssumption DEF Retry, IInv, TypeOK, Flusher
    <3>2. [worker[s] EXCEPT !.pc = "flush", !.tries = @ + 1] \in Flusher
      BY <3>1 DEF IInv, TypeOK, Flusher
    <3> QED
      BY <1>5, <3>2 DEF Retry, IInv, TypeOK, Flusher
  <2> QED
    BY <1>5, <2>1, FlusherMoves DEF Retry, Busy
<1>6. CASE GiveUp(s)
  BY <1>6, IdleStep DEF GiveUp, Busy
<1>7. CASE Abandon(s)
  BY <1>7, IdleStep DEF Abandon, Busy
<1> QED
  BY <1>1, <1>2, <1>3, <1>4, <1>5, <1>6, <1>7, ReceiveStep, ExitStep DEF Flush

LEMMA SaveStep == ASSUME IInv, NEW e \in Events, Save(e) PROVE IInv'
<1>1. CASE CheckOpen(e) \/ Shed(e)
  <2>1. /\ caller' \in [Events -> Calls]
        /\ \A x \in Events : caller[x] = "accepted" <=> caller'[x] = "accepted"
    BY <1>1 DEF CheckOpen, Shed, IInv, TypeOK, Calls
  <2>2. TypeOK' /\ UNCHANGED <<queue, order, worker, saved, exhausted, closing>>
    BY <1>1, <2>1 DEF CheckOpen, Shed, IInv, TypeOK
  <2> QED
    BY <2>1, <2>2, FlushersKept DEF Cancelled
<1> QED
  BY <1>1, EnqueueStep DEF Save

(* The connection and Close.                                               *)
LEMMA LinkStep == IInv /\ (EndContext \/ Start \/ Crash \/ Close \/ UNCHANGED vars) => IInv'
<1> SUFFICES ASSUME IInv, EndContext \/ Start \/ Crash \/ Close \/ UNCHANGED vars PROVE IInv'
  OBVIOUS
<1>1. CASE EndContext
  BY <1>1, FlushersKept DEF EndContext, IInv, TypeOK, Cancelled
<1>2. CASE Start \/ Crash
  <2>1. link' \in Link
    <3>1. link \in Link
      BY DEF IInv, TypeOK
    <3>2. CASE Connect
      BY <3>1, <3>2 DEF Connect, Link
    <3>3. CASE Assign \/ Enable \/ Reconnect \/ Return
      BY <3>1, <3>3 DEF Assign, Enable, Reconnect, Return, Link
    <3>4. CASE Crash \/ SessionEnds
      BY <3>1, <3>4 DEF Crash, SessionEnds, Link
    <3>5. CASE StopSession
      BY <3>5 DEF StopSession, Link
    <3> QED
      BY <1>2, <3>2, <3>3, <3>4, <3>5 DEF Start
  <2>2. UNCHANGED <<flushVars, ctxDone, closing>>
    BY <1>2 DEF Start, Crash, Connect, Assign, Enable, SessionEnds, StopSession, Reconnect, Return
  <2> QED
    BY <2>1, <2>2, FlushersKept DEF flushVars, IInv, TypeOK, Cancelled
<1>3. CASE Close
  <2>1. /\ link' \in Link /\ closing' \in Closing
        /\ Cancelled => Cancelled'
        /\ UNCHANGED <<flushVars, ctxDone>>
    BY <1>3 DEF Close, RejectSends, CancelLifecycle, Drained, TimeOut, CloseSession,
                IInv, TypeOK, Link, Closing, Cancelled
  <2>2. TypeOK'
    BY <2>1 DEF flushVars, IInv, TypeOK
  <2> QED
    BY <2>1, <2>2, FlushersKept DEF flushVars
<1>4. CASE UNCHANGED vars
  BY <1>4, FlushersKept DEF vars, IInv, TypeOK, Cancelled
<1> QED
  BY <1>1, <1>2, <1>3, <1>4

LEMMA InitIInv == Init => IInv
<1> SUFFICES ASSUME Init PROVE IInv
  OBVIOUS
<1>1. TypeOK
  <2>1. \A s \in Shards : queue[s] = <<>> /\ order[s] = <<>>
    BY DEF Init
  <2>2. <<>> \in Seq(Events) /\ Len(<<>>) = 0 /\ 0 <= Capacity
    BY EmptySeq, RecallAssumption
  <2>3. Idle \in Flusher
    BY RecallAssumption DEF Idle, Flusher
  <2>4. link \in Link
    BY DEF Init, Link
  <2> QED
    BY <2>1, <2>2, <2>3, <2>4 DEF Init, TypeOK, Calls, Closing
<1>2. \A s \in Shards : Rest(s) /\ Once(s) /\ HoldsLast(s)
  <2> SUFFICES ASSUME NEW s \in Shards PROVE Rest(s) /\ Once(s) /\ HoldsLast(s)
    OBVIOUS
  <2>1. queue[s] = <<>> /\ order[s] = <<>> /\ worker[s] = Idle /\ Len(<<>>) = 0
    BY EmptySeq DEF Init
  <2> QED
    BY <2>1 DEF Rest, Once, HoldsLast, Taken, Idle
<1>3. SavedTaken /\ NoSilentLoss
  BY DEF Init, SavedTaken, NoSilentLoss
<1> QED
  BY <1>1, <1>2, <1>3 DEF IInv

(* The inductive invariant of queues and flushers.                         *)
THEOREM Invariance == Spec => []IInv
<1>1. IInv /\ [Next]_vars => IInv'
  BY FlushStep, SaveStep, LinkStep DEF Next
<1> QED
  BY <1>1, InitIInv, PTL DEF Spec

(* Every reachable state is well typed: no queue outgrows its capacity.    *)
THEOREM TypeCorrect == Spec => []TypeOK
<1>1. IInv => TypeOK
  BY DEF IInv
<1> QED
  BY <1>1, Invariance, PTL

(* Before Close no accepted event disappears without having been tried     *)
(* Retries times, for any load, capacity and server                        *)
(* (recall_client.go:296-303, 364-435).                                    *)
THEOREM NoSilentLossHolds == Spec => []NoSilentLoss
<1>1. IInv => NoSilentLoss
  BY DEF IInv
<1> QED
  BY <1>1, Invariance, PTL

(* The events of a session reach the server in the order in which they     *)
(* were accepted (recall_client.go:367).                                   *)
THEOREM InOrderHolds == Spec => []InOrder
<1>1. IInv => InOrder
  <2> SUFFICES ASSUME IInv, NEW s \in Shards, NEW j \in DOMAIN order[s], NEW i \in 1..(j - 1),
                      order[s][j] \in saved
               PROVE  ~Queued(order[s][i]) /\ ~Held(order[s][i])
    BY DEF InOrder
  <2>1. /\ order[s] \in Seq(Events) /\ queue[s] \in Seq(Events)
        /\ DOMAIN order[s] = 1..Len(order[s]) /\ DOMAIN queue[s] = 1..Len(queue[s])
        /\ Len(order[s]) \in Nat /\ Len(queue[s]) \in Nat
    <3>1. order[s] \in Seq(Events) /\ queue[s] \in Seq(Events)
      BY DEF IInv, TypeOK
    <3> QED
      BY <3>1, LenProperties
  <2>2. PICK m \in Nat : m = Len(order[s])
    BY <2>1
  <2>3. j \in 1..m /\ i \in 1..m /\ i < j
    BY <2>1, <2>2
  <2>4. Rest(s) /\ Once(s) /\ HoldsLast(s)
    BY DEF IInv
  <2>5. ShardOf[order[s][j]] = s /\ ShardOf[order[s][i]] = s
    BY <2>2, <2>3, <2>4 DEF Once
  <2>6. PICK k \in Nat : k = Taken(s)
    BY <2>4 DEF Rest
  <2>7. j <= k
    <3>1. PICK x \in 1..k : order[s][x] = order[s][j]
      BY <2>5, <2>6 DEF IInv, SavedTaken
    <3>2. x \in 1..m
      BY <2>1, <2>2, <2>6, <3>1, Positions DEF Taken
    <3>3. x = j
      BY <2>2, <2>3, <2>4, <3>1, <3>2 DEF Once
    <3> QED
      BY <3>1, <3>3
  <2>8. ~Queued(order[s][i])
    <3> SUFFICES ASSUME NEW x \in DOMAIN queue[s], queue[s][x] = order[s][i] PROVE FALSE
      BY <2>5 DEF Queued
    <3>1. k + x \in 1..m /\ k + x > k
      <4>1. PICK n \in Nat : n = Len(queue[s])
        BY <2>1
      <4>2. k = m - n
        BY <2>2, <2>6, <4>1 DEF Taken
      <4>3. x \in 1..n
        BY <2>1, <4>1
      <4> QED
        BY <4>2, <4>3
    <3>2. order[s][k + x] = order[s][i]
      BY <2>1, <2>4, <2>6 DEF Rest
    <3>3. k + x = i
      BY <2>2, <2>3, <2>4, <3>1, <3>2 DEF Once
    <3> QED
      BY <2>3, <2>7, <3>1, <3>3
  <2>9. ~Held(order[s][i])
    <3> SUFFICES ASSUME worker[s].event = order[s][i] PROVE FALSE
      BY <2>5 DEF Held
    <3>1. order[s][i] \in Events
      BY <2>1, <2>2, <2>3
    <3>2. Busy(s)
      BY <2>4, <3>1, RecallAssumption DEF HoldsLast, Busy
    <3>3. order[s][k] = order[s][i] /\ k \in 1..m
      BY <2>2, <2>6, <3>2, HeldEvent
    <3>4. k = i
      BY <2>2, <2>3, <2>4, <3>3 DEF Once
    <3> QED
      BY <2>3, <2>7, <3>4
  <2> QED
    BY <2>8, <2>9
<1> QED
  BY <1>1, Invariance, PTL
=============================================================================
