---------------------------- MODULE ClientProofs ----------------------------
(***************************************************************************)
(* The safety invariants of the clients of other servers, each on its own: *)
(* first of SocraticClient, then of the breaker of Backplane.              *)
(*                                                                         *)
(* Those of SocraticClient hold for any callers and any number             *)
(* of connections.  The argument is about the order in which Start makes   *)
(* its stores: a channel is closed when its successor is in place, which   *)
(* is when the session that goes with the successor is; so the channels    *)
(* that are closed lie below the current one, and that at or below the     *)
(* current session.                                                        *)
(*                                                                         *)
(* Those of the breaker hold for any callers and any threshold, and so     *)
(* does a bound on its counter, which no action states.                    *)
(***************************************************************************)
EXTENDS SocraticClient, Backplane, FiniteSetTheorems, TLAPS

(* Where the stores of Start are relative to the connections it has made. *)
StoresInOrder ==
    /\ session = IF start.pc = "assign" THEN start.made - 1 ELSE start.made
    /\ channel = IF start.pc \in {"assign", "swap"} THEN start.made - 1 ELSE start.made
    /\ start.pc \in {"assign", "swap", "wake", "up", "pause"} => start.made > 0
    /\ start.pc = "wake" => start.old = channel - 1

ClosedBelow ==
    /\ \A ch \in closed : ch < channel
    /\ start.pc = "wake" => start.old \notin closed

(* The breaker is closed only while a session is up. *)
StateFollows ==
    /\ state = "CONNECTED" => start.pc \in {"wake", "up"}
    /\ state = "RECONNECTING" => start.pc \notin {"wake", "up"}

(* What a caller that waited, or did not have to, may rely on. *)
Waits(k) ==
    /\ k.pc = "reconnecting" => k.since <= channel
    /\ k.pc = "waiting" => k.since <= k.ch /\ k.ch <= channel
    /\ k.pc = "proceed" => k.since < session
    /\ k.pc = "calling" => k.since < k.session
    /\ k.pc = "idle" => k.since = 0

CallsFresh == \A c \in Callers : Waits(call[c])

IInv == TypeOK /\ StoresInOrder /\ ClosedBelow /\ StateFollows /\ CallsFresh

-----------------------------------------------------------------------------
(* Start, Close and the loss of a session leave the calls alone, and only  *)
(* move sessions and channels up.                                          *)
LEMMA CallsKept ==
    ASSUME TypeOK, CallsFresh, UNCHANGED call,
           session' \in Session, channel' \in Channel, session <= session', channel <= channel'
    PROVE  CallsFresh'
BY SocraticAssumption DEF TypeOK, CallsFresh, Waits, Call, Session, Channel

LEMMA StartStep == IInv /\ Start => IInv'
<1> SUFFICES ASSUME IInv, Start PROVE IInv'
  OBVIOUS
<1> USE SocraticAssumption DEF IInv, TypeOK, Session, Channel, State,
        StoresInOrder, ClosedBelow, StateFollows
<1>1. ASSUME ConnectFails \/ ConnectCancelled PROVE IInv'
  BY <1>1, CallsKept DEF ConnectFails, ConnectCancelled
<1>2. ASSUME ConnectOK PROVE IInv'
  <2>1. TypeOK'
    <3>1. start.made \in Nat /\ start.made + 1 \in Session
      BY <1>2 DEF ConnectOK
    <3> QED
      BY <1>2, <3>1 DEF ConnectOK
  <2>2. StoresInOrder' /\ ClosedBelow' /\ StateFollows'
    BY <1>2 DEF ConnectOK
  <2>3. CallsFresh'
    BY <1>2, CallsKept DEF ConnectOK
  <2> QED
    BY <2>1, <2>2, <2>3
<1>3. ASSUME AssignSession PROVE IInv'
  BY <1>3, CallsKept DEF AssignSession
<1>4. ASSUME SwapChannel PROVE IInv'
  <2>1. TypeOK'
    BY <1>4 DEF SwapChannel
  <2>2. StoresInOrder' /\ ClosedBelow' /\ StateFollows'
    BY <1>4 DEF SwapChannel
  <2>3. CallsFresh'
    BY <1>4, CallsKept DEF SwapChannel
  <2> QED
    BY <2>1, <2>2, <2>3
<1>5. ASSUME WakeWaiters PROVE IInv'
  BY <1>5, CallsKept DEF WakeWaiters
<1>6. ASSUME Dropped \/ StopSession PROVE IInv'
  BY <1>6, CallsKept DEF Dropped, StopSession
<1>7. ASSUME Reconnect \/ Return PROVE IInv'
  BY <1>7, CallsKept DEF Reconnect, Return
<1> QED
  BY <1>1, <1>2, <1>3, <1>4, <1>5, <1>6, <1>7 DEF Start

LEMMA EnvironmentStep == IInv /\ (Close \/ SessionLost \/ EndContext \/ UNCHANGED vars) => IInv'
<1> SUFFICES ASSUME IInv, Close \/ SessionLost \/ EndContext \/ UNCHANGED vars PROVE IInv'
  OBVIOUS
<1> USE SocraticAssumption DEF IInv, TypeOK, Session, Channel, State,
        StoresInOrder, ClosedBelow, StateFollows
<1>1. ASSUME Close PROVE IInv'
  <2>1. TypeOK'
    BY <1>1 DEF Close, CancelLifecycle, CloseSession, connVars
  <2>2. StoresInOrder' /\ ClosedBelow' /\ StateFollows'
    BY <1>1 DEF Close, CancelLifecycle, CloseSession, connVars
  <2>3. CallsFresh'
    BY <1>1, CallsKept DEF Close, CancelLifecycle, CloseSession, connVars
  <2> QED
    BY <2>1, <2>2, <2>3
<1>2. ASSUME SessionLost PROVE IInv'
  <2>1. TypeOK'
    BY <1>2 DEF SessionLost
  <2>2. StoresInOrder' /\ ClosedBelow' /\ StateFollows'
    BY <1>2 DEF SessionLost
  <2>3. CallsFresh'
    BY <1>2, CallsKept DEF SessionLost
  <2> QED
    BY <2>1, <2>2, <2>3
<1>3. ASSUME EndContext PROVE IInv'
  BY <1>3, CallsKept DEF EndContext, connVars
<1>4. ASSUME UNCHANGED vars PROVE IInv'
  BY <1>4, CallsKept DEF vars
<1> QED
  BY <1>1, <1>2, <1>3, <1>4

(* A step of one Analyze changes that call only. *)
LEMMA AnalyzeStep == ASSUME IInv, NEW c \in Callers, Analyze(c) PROVE IInv'
<1>1. UNCHANGED <<connVars, closing, ctxDone>>
  BY DEF Analyze, ReadState, ReadChannel, Woken, GivesUp, ReadSession, CallTool
<1>2. \A d \in Callers : d # c => call'[d] = call[d]
  BY DEF Analyze, ReadState, ReadChannel, Woken, GivesUp, ReadSession, CallTool, Goes,
         IInv, TypeOK
<1>3. call' \in [Callers -> Call]
  <2>1. /\ call \in [Callers -> Call] /\ channel \in Channel /\ session \in Session
        /\ 0 \in Session /\ 0 \in Channel
    BY SocraticAssumption DEF IInv, TypeOK, Session, Channel
  <2>2. Ended \in Session
    BY SocraticAssumption DEF IInv, TypeOK, StoresInOrder, Session, Ended
  <2>3. CASE ReadState(c)
    BY <2>1, <2>2, <2>3 DEF ReadState, Goes, Call
  <2>4. CASE ReadChannel(c)
    BY <2>1, <2>4 DEF ReadChannel, Call
  <2>5. CASE ReadSession(c)
    BY <2>1, <2>5 DEF ReadSession, Call
  <2>6. CASE Woken(c) \/ GivesUp(c) \/ CallTool(c)
    BY <2>1, <2>6 DEF Woken, GivesUp, CallTool, Goes, Call, NoCall
  <2> QED
    BY <2>3, <2>4, <2>5, <2>6 DEF Analyze
<1>4. Waits(call[c])'
  <2> USE SocraticAssumption, <1>1
      DEF IInv, TypeOK, CallsFresh, Waits, Call, Session, Channel, connVars, Goes
  <2>1. CASE ReadState(c)
    <3>1. CASE state = "CONNECTED" /\ Goes(c, "proceed")
      BY <2>1, <3>1 DEF ReadState, StateFollows, StoresInOrder
    <3>2. CASE state = "RECONNECTING"
               /\ call' = [call EXCEPT ![c].pc = "reconnecting", ![c].since = Ended]
      <4>1. Ended <= channel
        BY <3>2 DEF StateFollows, StoresInOrder, Ended
      <4>2. call'[c].pc = "reconnecting" /\ call'[c].since = Ended
        BY <3>2
      <4> QED
        BY <4>1, <4>2
    <3> QED
      BY <2>1, <3>1, <3>2 DEF ReadState
  <2>2. CASE ReadChannel(c)
    <3>1. /\ call'[c].pc = "waiting" /\ call'[c].ch = channel
          /\ call'[c].since = call[c].since /\ call[c].since <= channel
      BY <2>2 DEF ReadChannel
    <3> QED
      BY <3>1
  <2>3. CASE Woken(c)
    BY <2>3 DEF Woken, ClosedBelow, StoresInOrder
  <2>4. CASE GivesUp(c) \/ CallTool(c)
    BY <2>4 DEF GivesUp, CallTool, NoCall
  <2>5. CASE ReadSession(c)
    BY <2>5 DEF ReadSession
  <2> QED
    BY <2>1, <2>2, <2>3, <2>4, <2>5 DEF Analyze
<1>5. CallsFresh'
  BY <1>1, <1>2, <1>4 DEF CallsFresh, Waits, IInv, connVars
<1> QED
  BY <1>1, <1>3, <1>5 DEF IInv, TypeOK, StoresInOrder, ClosedBelow, StateFollows, connVars

(* The inductive invariant of the client. *)
THEOREM Invariance == Spec => []IInv
<1>1. Init => IInv
  <2> SUFFICES ASSUME Init PROVE IInv
    OBVIOUS
  <2>1. TypeOK
    <3>1. 0 \in Session /\ 0 \in Channel
      BY SocraticAssumption DEF Session, Channel
    <3> QED
      BY <3>1 DEF Init, TypeOK, Call, NoCall, State
  <2>2. StoresInOrder /\ ClosedBelow /\ StateFollows /\ CallsFresh
    BY DEF Init, StoresInOrder, ClosedBelow, StateFollows, CallsFresh, Waits, NoCall
  <2> QED
    BY <2>1, <2>2 DEF IInv
<1>2. IInv /\ [Next]_vars => IInv'
  BY StartStep, EnvironmentStep, AnalyzeStep DEF Next
<1> QED
  BY <1>1, <1>2, PTL DEF Spec

(* Every reachable state is well typed: closed holds made channels only.   *)
THEOREM TypeCorrect == Spec => []TypeOK
<1>1. IInv => TypeOK
  BY DEF IInv
<1> QED
  BY <1>1, Invariance, PTL

(* No recovery channel is closed twice, whatever Close and the callers do  *)
(* (socratic_client.go:166-172).                                           *)
THEOREM CurrentOpenHolds == Spec => []CurrentOpen
<1>1. IInv => CurrentOpen
  BY SocraticAssumption DEF IInv, TypeOK, Channel, Session, StoresInOrder, ClosedBelow, CurrentOpen
<1> QED
  BY <1>1, Invariance, PTL

(* A caller that was woken calls through a session made after the one it   *)
(* missed, for any callers (socratic_client.go:222).                       *)
THEOREM FreshSessionHolds == Spec => []FreshSession
<1>1. IInv => FreshSession
  BY SocraticAssumption DEF IInv, TypeOK, Call, Session, Channel, CallsFresh, Waits, FreshSession
<1> QED
  BY <1>1, Invariance, PTL

(* A client whose Start has returned is not enabled                        *)
(* (socratic_client.go:188-200, 350-360).                                  *)
THEOREM StoppedNotEnabledHolds == Spec => []StoppedNotEnabled
<1>1. IInv => StoppedNotEnabled
  BY DEF IInv, StateFollows, StoppedNotEnabled
<1> QED
  BY <1>1, Invariance, PTL

-----------------------------------------------------------------------------
(* The breaker's flag and counter agree for any number of callers and any   *)
(* threshold.  BreakerConsistent is inductive once the counter is a number  *)
(* and program counters are functions and records; how high the counter     *)
(* gets plays no part.                                                      *)
RequestState ==
    [pc : {"idle", "send", "count", "trip", "nudge", "reset", "wait"}, attempt : {1, 2}]
ProbeState   == [pc : {"select", "send", "store", "reset", "done"}, ok : BOOLEAN]

Shape ==
    /\ up \in BOOLEAN
    /\ failures \in Nat
    /\ request \in [Requesters -> RequestState]
    /\ probe \in ProbeState

BreakerInv == Shape /\ BreakerConsistent

(* Only the caller itself moves in one of its steps. *)
LEMMA OtherRequests ==
    ASSUME request \in [Requesters -> RequestState], NEW c \in Requesters, request[c].pc # "trip",
           (\E pc \in {"send", "count", "reset", "wait"} : Moves(c, pc)) \/ Ends(c)
    PROVE  \A d \in Requesters : request[d].pc = "trip" => request'[d].pc = "trip"
BY DEF Moves, Ends, NoRequest, RequestState

(* The steps keep the shape of the variables. *)
LEMMA ShapeStep == Shape /\ [BackplaneNext]_backplaneVars => Shape'
<1> SUFFICES ASSUME Shape, [BackplaneNext]_backplaneVars PROVE Shape'
  OBVIOUS
<1> USE BackplaneAssumption DEF Shape, RequestState, ProbeState, Moves, Ends, NoRequest, Waiting
<1>1. ASSUME NEW c \in Requesters, Generate(c) \/ Cancelled(c) PROVE Shape'
  BY <1>1 DEF Generate, Cancelled
<1>2. ASSUME NEW c \in Requesters, NetworkError(c) \/ Trip(c) \/ Nudge(c) \/ Answered(c)
      PROVE Shape'
  BY <1>2 DEF NetworkError, Trip, Nudge, Answered
<1>3. ASSUME NEW c \in Requesters, CountFailure(c) PROVE Shape'
  BY <1>3 DEF CountFailure
<1>4. ASSUME NEW c \in Requesters, ResetFailures(c) \/ RetryAfter(c) PROVE Shape'
  BY <1>4 DEF ResetFailures, RetryAfter
<1>5. ASSUME Probe PROVE Shape'
  <2>1. CASE ProbeDue
    BY <2>1 DEF ProbeDue
  <2>2. CASE ProbeAnswer
    BY <2>2 DEF ProbeAnswer
  <2>3. CASE StoreAvailable
    BY <2>3 DEF StoreAvailable
  <2>4. CASE ProbeResets
    BY <2>4 DEF ProbeResets
  <2> QED
    BY <1>5, <2>1, <2>2, <2>3, <2>4 DEF Probe
<1>6. ASSUME Shutdown \/ BackplaneChanges PROVE Shape'
  BY <1>6 DEF Shutdown, BackplaneChanges
<1>7. ASSUME UNCHANGED backplaneVars PROVE Shape'
  BY <1>7 DEF backplaneVars
<1> QED
  BY <1>1, <1>2, <1>3, <1>4, <1>5, <1>6, <1>7 DEF BackplaneNext, RequestStep

(* A full counter goes with an open breaker, a reset or a trip to come. *)
LEMMA ConsistentStep == BreakerInv /\ [BackplaneNext]_backplaneVars => BreakerConsistent'
<1> SUFFICES ASSUME BreakerInv, [BackplaneNext]_backplaneVars PROVE BreakerConsistent'
  OBVIOUS
<1> USE BackplaneAssumption DEF BreakerInv, Shape, BreakerConsistent
<1>1. ASSUME NEW c \in Requesters, Generate(c) PROVE BreakerConsistent'
  BY <1>1, OtherRequests DEF Generate
<1>2. ASSUME NEW c \in Requesters, Cancelled(c) PROVE BreakerConsistent'
  BY <1>2, OtherRequests DEF Cancelled
<1>3. ASSUME NEW c \in Requesters, NetworkError(c) PROVE BreakerConsistent'
  BY <1>3, OtherRequests DEF NetworkError
<1>4. ASSUME NEW c \in Requesters, CountFailure(c) PROVE BreakerConsistent'
  <2>1. CASE failures' >= maxConsecutiveFailures
    <3>1. request'[c].pc = "trip"
      BY <1>4, <2>1 DEF CountFailure, Moves, RequestState
    <3> QED
      BY <3>1
  <2>2. CASE ~(failures' >= maxConsecutiveFailures)
    BY <2>2
  <2> QED
    BY <2>1, <2>2
<1>5. ASSUME NEW c \in Requesters, Trip(c) PROVE BreakerConsistent'
  BY <1>5 DEF Trip
<1>6. ASSUME NEW c \in Requesters, Nudge(c) PROVE BreakerConsistent'
  BY <1>6, OtherRequests DEF Nudge
<1>7. ASSUME NEW c \in Requesters, Answered(c) PROVE BreakerConsistent'
  BY <1>7, OtherRequests DEF Answered
<1>8. ASSUME NEW c \in Requesters, ResetFailures(c) PROVE BreakerConsistent'
  BY <1>8 DEF ResetFailures
<1>9. ASSUME NEW c \in Requesters, RetryAfter(c) PROVE BreakerConsistent'
  BY <1>9 DEF RetryAfter, RequestState
<1>10. ASSUME ProbeDue \/ ProbeAnswer PROVE BreakerConsistent'
  BY <1>10 DEF ProbeDue, ProbeAnswer
<1>11. ASSUME StoreAvailable PROVE BreakerConsistent'
  BY <1>11 DEF StoreAvailable, ProbeState
<1>12. ASSUME ProbeResets PROVE BreakerConsistent'
  BY <1>12 DEF ProbeResets
<1>13. ASSUME Shutdown \/ BackplaneChanges PROVE BreakerConsistent'
  BY <1>13 DEF Shutdown, BackplaneChanges
<1>14. ASSUME UNCHANGED backplaneVars PROVE BreakerConsistent'
  BY <1>14 DEF backplaneVars
<1> QED
  BY <1>1, <1>2, <1>3, <1>4, <1>5, <1>6, <1>7, <1>8, <1>9, <1>10, <1>11, <1>12, <1>13, <1>14
  DEF BackplaneNext, RequestStep, Probe

(* BreakerConsistent holds for any callers and any threshold: no order of  *)
(* the atomic loads and stores leaves a full counter behind a closed       *)
(* breaker (backplane.go:190-196, 311-313).                                *)
THEOREM BreakerConsistentHolds == BackplaneSpec => []BreakerConsistent
<1>1. BackplaneInit => BreakerInv
  BY BackplaneAssumption
  DEF BackplaneInit, BreakerInv, Shape, BreakerConsistent, RequestState, ProbeState, NoRequest,
      Waiting
<1>2. BreakerInv /\ [BackplaneNext]_backplaneVars => BreakerInv'
  BY ShapeStep, ConsistentStep DEF BreakerInv
<1>3. BreakerInv => BreakerConsistent
  BY DEF BreakerInv
<1> QED
  BY <1>1, <1>2, <1>3, PTL DEF BackplaneSpec
-----------------------------------------------------------------------------
(* How high the counter gets. While the flag says that the backplane is     *)
(* available every failure counted past the threshold has a caller that is  *)
(* about to take the flag down; once it is down only callers that passed it *)
(* before still count, each once. A probe that has put the flag up and not  *)
(* yet reset the counter lets every caller through once more.               *)
Uncounted == {c \in Requesters : request[c].pc \in {"send", "count", "reset", "wait"}}
Tripping  == {c \in Requesters : request[c].pc = "trip"}
Window    == IF probe.pc = "reset" THEN Cardinality(Requesters) ELSE 0

Bounded ==
    IF available
    THEN failures < maxConsecutiveFailures + Window + Cardinality(Tripping)
    ELSE failures + Cardinality(Uncounted) < maxConsecutiveFailures + Window + Cardinality(Requesters)

BoundInv == Shape /\ available \in BOOLEAN /\ probeNow \in BOOLEAN /\ Bounded

(* Callers are in one of the two sets, or in none. *)
LEMMA CallersCounted ==
    /\ IsFiniteSet(Uncounted) /\ IsFiniteSet(Tripping)
    /\ Cardinality(Uncounted) \in Nat /\ Cardinality(Tripping) \in Nat
    /\ Cardinality(Requesters) \in Nat /\ Window \in {0, Cardinality(Requesters)}
    /\ Cardinality(Uncounted) + Cardinality(Tripping) <= Cardinality(Requesters)
<1>1. IsFiniteSet(Requesters)
  BY BackplaneAssumption
<1>2. Uncounted \subseteq Requesters /\ Tripping \subseteq Requesters
  BY DEF Uncounted, Tripping
<1>3. IsFiniteSet(Uncounted) /\ IsFiniteSet(Tripping)
  BY <1>1, <1>2, FS_Subset
<1>4. Uncounted \cap Tripping = {}
  BY DEF Uncounted, Tripping
<1>5. /\ Cardinality(Uncounted) \in Nat /\ Cardinality(Tripping) \in Nat
      /\ Cardinality(Requesters) \in Nat
  BY <1>1, <1>3, FS_CardinalityType
<1>6. /\ IsFiniteSet(Uncounted \cup Tripping)
      /\ Cardinality(Uncounted \cup Tripping) = Cardinality(Uncounted) + Cardinality(Tripping)
  <2>1. /\ IsFiniteSet(Uncounted \cup Tripping)
        /\ Cardinality(Uncounted \cup Tripping) =
              Cardinality(Uncounted) + Cardinality(Tripping) - Cardinality(Uncounted \cap Tripping)
    BY <1>3, FS_Union
  <2>2. Cardinality(Uncounted \cap Tripping) = 0
    BY <1>4, FS_EmptySet
  <2> QED
    BY <1>5, <2>1, <2>2
<1>7. Cardinality(Uncounted \cup Tripping) <= Cardinality(Requesters)
  BY <1>1, <1>2, FS_Subset
<1> QED
  BY <1>3, <1>5, <1>6, <1>7 DEF Window

(* A set that gains or loses one. *)
LEMMA OneMoreOrLess ==
    ASSUME NEW S, IsFiniteSet(S), NEW c
    PROVE  /\ c \notin S => Cardinality(S \cup {c}) = Cardinality(S) + 1
           /\ c \in S => Cardinality(S \ {c}) = Cardinality(S) - 1
BY FS_AddElement, FS_RemoveElement

(* A caller that counts, or trips, leaves its set. *)
LEMMA CountKeepsBound ==
    ASSUME BoundInv, NEW c \in Requesters, CountFailure(c)
    PROVE  Bounded'
<1> USE BackplaneAssumption DEF BoundInv, Shape, RequestState
<1>1. /\ request[c].pc = "count" /\ failures' = failures + 1
      /\ UNCHANGED <<available, probe>>
      /\ Moves(c, IF failures' >= maxConsecutiveFailures THEN "trip" ELSE "nudge")
  BY DEF CountFailure
<1>2. Uncounted' = Uncounted \ {c} /\ c \in Uncounted /\ Window' = Window
  BY <1>1 DEF Uncounted, Moves, Window
<1>3. Cardinality(Uncounted') = Cardinality(Uncounted) - 1
  BY <1>2, CallersCounted, OneMoreOrLess
<1>4. CASE failures' >= maxConsecutiveFailures
  <2>1. Tripping' = Tripping \cup {c} /\ c \notin Tripping
    BY <1>1, <1>4 DEF Tripping, Moves
  <2>2. Cardinality(Tripping') = Cardinality(Tripping) + 1
    BY <2>1, CallersCounted, OneMoreOrLess
  <2> QED
    BY <1>1, <1>2, <1>3, <2>2, CallersCounted DEF Bounded
<1>5. CASE ~(failures' >= maxConsecutiveFailures)
  <2>1. Tripping' = Tripping
    BY <1>1, <1>5 DEF Tripping, Moves
  <2> QED
    BY <1>1, <1>2, <1>3, <1>5, <2>1, CallersCounted DEF Bounded
<1> QED
  BY <1>4, <1>5

(* See CountKeepsBound. *)
LEMMA TripKeepsBound ==
    ASSUME BoundInv, NEW c \in Requesters, Trip(c)
    PROVE  Bounded'
<1>1. /\ available' = FALSE /\ UNCHANGED <<failures, probe>>
      /\ Uncounted' = Uncounted
  BY DEF Trip, Moves, BoundInv, Shape, RequestState, Uncounted
<1>2. Window' = Window
  BY <1>1 DEF Window
<1> QED
  BY <1>1, <1>2, CallersCounted, BackplaneAssumption DEF BoundInv, Shape, Bounded

(* The other steps of a caller. *)
LEMMA RequestKeepsBound ==
    ASSUME BoundInv, NEW c \in Requesters,
           \/ Generate(c) \/ Cancelled(c) \/ NetworkError(c) \/ Nudge(c) \/ Answered(c)
           \/ ResetFailures(c) \/ RetryAfter(c)
    PROVE  Bounded'
<1> USE DEF BoundInv, Shape, RequestState, Moves, Ends, NoRequest
<1>1. UNCHANGED <<available, probe>> /\ Window' = Window
  BY DEF Generate, Cancelled, NetworkError, Nudge, Answered, ResetFailures, RetryAfter, Window
<1>2. Tripping' = Tripping
  BY DEF Generate, Cancelled, NetworkError, Nudge, Answered, ResetFailures, RetryAfter, Tripping
<1>3. CASE Generate(c)
  BY <1>1, <1>2, <1>3, CallersCounted DEF Generate, Bounded
<1>4. CASE Cancelled(c) \/ NetworkError(c) \/ Nudge(c) \/ Answered(c) \/ RetryAfter(c)
  <2>1. Uncounted' \subseteq Uncounted
    BY <1>4 DEF Cancelled, NetworkError, Nudge, Answered, RetryAfter, Uncounted
  <2>2. Cardinality(Uncounted') <= Cardinality(Uncounted) /\ Cardinality(Uncounted') \in Nat
    BY <2>1, CallersCounted, FS_Subset, FS_CardinalityType
  <2>3. failures' = failures
    BY <1>4 DEF Cancelled, NetworkError, Nudge, Answered, RetryAfter
  <2> QED
    BY <1>1, <1>2, <2>2, <2>3, CallersCounted, BackplaneAssumption DEF Bounded
<1>5. CASE ResetFailures(c)
  <2>1. failures' = 0
    BY <1>5 DEF ResetFailures
  <2>2. Uncounted' \subseteq Requesters
    BY DEF Uncounted
  <2>3. Cardinality(Uncounted') <= Cardinality(Requesters) /\ Cardinality(Uncounted') \in Nat
    BY <2>2, BackplaneAssumption, FS_Subset, FS_CardinalityType
  <2> QED
    BY <1>1, <1>2, <2>1, <2>3, CallersCounted, BackplaneAssumption DEF Bounded
<1> QED
  BY <1>3, <1>4, <1>5

(* The probe opens the window and closes it with the reset. *)
LEMMA ProbeKeepsBound ==
    ASSUME BoundInv, Probe \/ Shutdown \/ BackplaneChanges
    PROVE  Bounded'
<1> USE BackplaneAssumption DEF BoundInv, Shape, ProbeState
<1>1. UNCHANGED request /\ Uncounted' = Uncounted /\ Tripping' = Tripping
  BY DEF Probe, ProbeDue, ProbeAnswer, StoreAvailable, ProbeResets, Shutdown, BackplaneChanges,
         Uncounted, Tripping
<1>2. CASE ProbeDue \/ ProbeAnswer \/ Shutdown \/ BackplaneChanges
  <2>1. UNCHANGED <<available, failures>>
    BY <1>2 DEF ProbeDue, ProbeAnswer, Shutdown, BackplaneChanges
  <2>2. (probe.pc = "reset") = (probe'.pc = "reset")
    <3>1. CASE BackplaneChanges
      BY <3>1 DEF BackplaneChanges
    <3>2. CASE ProbeDue \/ ProbeAnswer \/ Shutdown
      <4>1. probe.pc # "reset" /\ probe'.pc # "reset"
        <5>1. CASE ProbeDue
          BY <5>1 DEF ProbeDue
        <5>2. CASE ProbeAnswer
          BY <5>2 DEF ProbeAnswer
        <5>3. CASE Shutdown
          BY <5>3 DEF Shutdown
        <5> QED
          BY <3>2, <5>1, <5>2, <5>3
      <4> QED
        BY <4>1
    <3> QED
      BY <1>2, <3>1, <3>2
  <2>3. Window' = Window
    BY ONLY <2>2 DEF Window
  <2> QED
    BY <1>1, <2>1, <2>3 DEF Bounded
<1>3. CASE StoreAvailable
  <2>1. /\ Window = 0 /\ failures' = failures /\ available' = probe.ok
        /\ Window' = IF probe.ok THEN Cardinality(Requesters) ELSE 0
    BY <1>3 DEF StoreAvailable, Window, Waiting
  <2> QED
    BY <1>1, <2>1, CallersCounted DEF Bounded
<1>4. CASE ProbeResets
  <2>1. Window' = 0 /\ failures' = 0 /\ available' = available
    BY <1>4 DEF ProbeResets, Window, Waiting
  <2> QED
    BY <1>1, <2>1, CallersCounted DEF Bounded
<1> QED
  BY <1>2, <1>3, <1>4 DEF Probe

(* The breaker's counter and the rest of its state stay within their types, *)
(* for any callers and any threshold: late failures take the counter past   *)
(* the threshold, but no further than two per caller, and the arithmetic of *)
(* the breaker never depends on a counter that grows with every request     *)
(* (backplane.go:190-196, 311-313).                                         *)
THEOREM BackplaneTyped == BackplaneSpec => []BackplaneType
<1>1. BackplaneInit => BoundInv
  <2> SUFFICES ASSUME BackplaneInit PROVE BoundInv
    OBVIOUS
  <2>1. Shape /\ available /\ probeNow \in BOOLEAN
    BY DEF BackplaneInit, Shape, RequestState, ProbeState, NoRequest, Waiting
  <2>2. failures = 0 /\ Window = 0
    BY DEF BackplaneInit, Window, Waiting
  <2> QED
    BY <2>1, <2>2, CallersCounted, BackplaneAssumption DEF BoundInv, Bounded
<1>2. BoundInv /\ [BackplaneNext]_backplaneVars => BoundInv'
  <2> SUFFICES ASSUME BoundInv, [BackplaneNext]_backplaneVars PROVE BoundInv'
    OBVIOUS
  <2>1. Shape'
    BY ShapeStep DEF BoundInv
  <2>2. available' \in BOOLEAN /\ probeNow' \in BOOLEAN
    BY DEF BoundInv, Shape, ProbeState, BackplaneNext, RequestStep, Probe, backplaneVars, Generate,
           Cancelled, NetworkError, CountFailure, Trip, Nudge, Answered, ResetFailures, RetryAfter,
           ProbeDue, ProbeAnswer, StoreAvailable, ProbeResets, Shutdown, BackplaneChanges
  <2>3. Bounded'
    <3>1. CASE UNCHANGED backplaneVars
      <4>1. UNCHANGED <<available, failures>> /\ Window' = Window /\ Tripping' = Tripping
            /\ Uncounted' = Uncounted
        BY <3>1 DEF backplaneVars, Window, Tripping, Uncounted
      <4> QED
        BY <4>1 DEF BoundInv, Bounded
    <3> QED
      BY <3>1, CountKeepsBound, TripKeepsBound, RequestKeepsBound, ProbeKeepsBound
      DEF BackplaneNext, RequestStep
  <2> QED
    BY <2>1, <2>2, <2>3 DEF BoundInv
<1>3. BoundInv => BackplaneType
  <2> SUFFICES ASSUME BoundInv PROVE BackplaneType
    OBVIOUS
  <2>1. failures \in Nat /\ failures <= MaxFailures
    BY CallersCounted, BackplaneAssumption DEF BoundInv, Shape, Bounded, MaxFailures
  <2>2. MaxFailures \in Nat
    BY CallersCounted, BackplaneAssumption DEF MaxFailures
  <2> QED
    BY <2>1, <2>2 DEF BoundInv, Shape, BackplaneType, RequestState, ProbeState
<1> QED
  BY <1>1, <1>2, <1>3, PTL DEF BackplaneSpec
=============================================================================
