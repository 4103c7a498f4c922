--------------------------- MODULE SocraticClient ---------------------------
(***************************************************************************)
(* The client of the socratic-thinker server: Start reconnects for ever,   *)
(* Analyze calls through whatever session is there and waits a little for  *)
(* a lost one to come back, Close ends both.                               *)
(*                                                                         *)
(* Sessions and recovery channels are numbered in the order they are made: *)
(* each connection makes one session and swaps recoveredCh once, so the    *)
(* n-th connection closes channel n - 1 and leaves channel n in place.     *)
(***************************************************************************)
EXTENDS Naturals

CONSTANTS
    Callers,        \* goroutines that call Analyze
    MaxSessions     \* bound: connections Start makes

ASSUME SocraticAssumption == MaxSessions \in Nat \ {0}

VARIABLES
    state,      \* CONNECTED, RECONNECTING or DISCONNECTED
    session,    \* c.session, 0 for nil
    lost,       \* the sessions that have ended
    channel,    \* c.recoveredCh
    closed,     \* the channels that are closed
    start,      \* where Start is, and the session and channel it has in hand
    closing,    \* where Close is
    ctxDone,    \* the context of Start is done
    call        \* call[c]: the Analyze of c

vars == <<state, session, lost, channel, closed, start, closing, ctxDone, call>>

State   == {"CONNECTED", "RECONNECTING", "DISCONNECTED"}
Session == 0..MaxSessions
Channel == 0..MaxSessions
Call    == [pc : {"idle", "reconnecting", "waiting", "proceed", "calling"},
            ch : Channel, session : Session,
            since : Session]   \* the last session Start had seen end when the state was read

TypeOK ==
    /\ state \in State
    /\ session \in Session
    /\ lost \subseteq Session
    /\ channel \in Channel
    /\ closed \subseteq Channel
    /\ start \in [pc : {"connect", "assign", "swap", "wake", "up", "pause", "returned"},
                  made : Session, old : Channel]
    /\ closing \in {"open", "cancelled", "closed"}
    /\ ctxDone \in BOOLEAN
    /\ call \in [Callers -> Call]

NoCall == [pc |-> "idle", ch |-> 0, session |-> 0, since |-> 0]

Init ==
    /\ state = "DISCONNECTED"
    /\ session = 0
    /\ lost = {}
    /\ channel = 0
    /\ closed = {}
    /\ start = [pc |-> "connect", made |-> 0, old |-> 0]
    /\ closing = "open"
    /\ ctxDone = FALSE
    /\ call = [c \in Callers |-> NoCall]

connVars == <<state, session, lost, channel, closed, start>>

-----------------------------------------------------------------------------
(* Start *)
ConnectFails ==
    /\ start.pc = "connect" /\ ~ctxDone
    /\ state' = "RECONNECTING"
    /\ UNCHANGED <<session, lost, channel, closed, start, closing, ctxDone, call>>

(* Connect is interrupted: the loop still stores RECONNECTING. *)
ConnectCancelled ==
    /\ start.pc = "connect" /\ ctxDone
    /\ state' = "RECONNECTING"
    /\ start' = [start EXCEPT !.pc = "returned"]
    /\ UNCHANGED <<session, lost, channel, closed, closing, ctxDone, call>>

ConnectOK ==
    /\ start.pc = "connect"
    /\ start.made < MaxSessions
    /\ start' = [start EXCEPT !.pc = "assign", !.made = @ + 1]
    /\ UNCHANGED <<state, session, lost, channel, closed, closing, ctxDone, call>>

AssignSession ==
    /\ start.pc = "assign"
    /\ session' = start.made
    /\ start' = [start EXCEPT !.pc = "swap"]
    /\ UNCHANGED <<state, lost, channel, closed, closing, ctxDone, call>>

(* Mutant: the channel is not replaced. *)
KeepsChannel ==
    /\ start.pc = "swap"
    /\ state' = "CONNECTED"
    /\ start' = [start EXCEPT !.pc = "wake", !.old = channel]
    /\ UNCHANGED <<session, lost, channel, closed, closing, ctxDone, call>>

SwapChannel ==
    /\ start.pc = "swap"
    /\ channel' = start.made
    /\ state' = "CONNECTED"
    /\ start' = [start EXCEPT !.pc = "wake", !.old = channel]
    /\ UNCHANGED <<session, lost, closed, closing, ctxDone, call>>

WakeWaiters ==
    /\ start.pc = "wake"
    /\ closed' = closed \cup {start.old}
    /\ start' = [start EXCEPT !.pc = "up"]
    /\ UNCHANGED <<state, session, lost, channel, closing, ctxDone, call>>

(* The server goes away. *)
SessionLost ==
    /\ session # 0 /\ session \notin lost
    /\ lost' = lost \cup {session}
    /\ UNCHANGED <<state, session, channel, closed, start, closing, ctxDone, call>>

(* The select may take this branch although the context is done too. *)
Dropped ==
    /\ start.pc = "up" /\ session \in lost
    /\ state' = "RECONNECTING"
    /\ start' = [start EXCEPT !.pc = "pause"]
    /\ UNCHANGED <<session, lost, channel, closed, closing, ctxDone, call>>

StopSession ==
    /\ start.pc = "up" /\ ctxDone
    /\ lost' = lost \cup {session}
    /\ state' = "DISCONNECTED"
    /\ start' = [start EXCEPT !.pc = "returned"]
    /\ UNCHANGED <<session, channel, closed, closing, ctxDone, call>>

Reconnect ==
    /\ start.pc = "pause" /\ ~ctxDone
    /\ start' = [start EXCEPT !.pc = "connect"]
    /\ UNCHANGED <<state, session, lost, channel, closed, closing, ctxDone, call>>

(* Neither the head of the loop nor the pauses touch the state. *)
Return ==
    /\ start.pc \in {"connect", "pause"} /\ ctxDone
    /\ start' = [start EXCEPT !.pc = "returned"]
    /\ UNCHANGED <<state, session, lost, channel, closed, closing, ctxDone, call>>

(* Mutant: the loop of Start is not tied to the lifecycle context. *)
NotTied == FALSE /\ start.pc = "up" /\ UNCHANGED vars

(* The parent's end, or the AfterFunc of the lifecycle context. *)
EndContext ==
    /\ ~ctxDone
    /\ ctxDone' = TRUE
    /\ UNCHANGED <<connVars, closing, call>>

-----------------------------------------------------------------------------
(* Close *)
CancelLifecycle ==
    /\ closing = "open"
    /\ closing' = "cancelled"
    /\ UNCHANGED <<connVars, ctxDone, call>>

CloseSession ==
    /\ closing = "cancelled"
    /\ lost' = IF session = 0 THEN lost ELSE lost \cup {session}
    /\ state' = "DISCONNECTED"
    /\ closing' = "closed"
    /\ UNCHANGED <<session, channel, closed, start, ctxDone, call>>

-----------------------------------------------------------------------------
(* Analyze; with the breaker open it returns at once, and stays idle *)
Goes(c, pc) == call' = [call EXCEPT ![c].pc = pc]

(* The last session whose end Start has noticed. *)
Ended == IF start.pc \in {"assign", "swap"} THEN start.made - 1 ELSE start.made

(* Mutant: a lost session is not waited for. *)
NeverWaits(c) ==
    /\ call[c].pc = "idle"
    /\ state # "DISCONNECTED"
    /\ call' = [call EXCEPT ![c].pc = "proceed",
                            ![c].since = IF state = "CONNECTED" THEN 0 ELSE Ended]
    /\ UNCHANGED <<connVars, closing, ctxDone>>

ReadState(c) ==
    /\ call[c].pc = "idle"
    /\ \/ /\ state = "CONNECTED"
          /\ Goes(c, "proceed")
       \/ /\ state = "RECONNECTING"
          /\ call' = [call EXCEPT ![c].pc = "reconnecting", ![c].since = Ended]
    /\ UNCHANGED <<connVars, closing, ctxDone>>

ReadChannel(c) ==
    /\ call[c].pc = "reconnecting"
    /\ call' = [call EXCEPT ![c].pc = "waiting", ![c].ch = channel]
    /\ UNCHANGED <<connVars, closing, ctxDone>>

Woken(c) ==
    /\ call[c].pc = "waiting" /\ call[c].ch \in closed
    /\ Goes(c, "proceed")
    /\ UNCHANGED <<connVars, closing, ctxDone>>

(* Two seconds, or the caller's context. *)
GivesUp(c) ==
    /\ call[c].pc = "waiting"
    /\ call' = [call EXCEPT ![c] = NoCall]
    /\ UNCHANGED <<connVars, closing, ctxDone>>

ReadSession(c) ==
    /\ call[c].pc = "proceed"
    /\ call' = [call EXCEPT ![c].pc = "calling", ![c].session = session]
    /\ UNCHANGED <<connVars, closing, ctxDone>>

(* The call is answered, or it fails with its session. *)
CallTool(c) ==
    /\ call[c].pc = "calling"
    /\ call' = [call EXCEPT ![c] = NoCall]
    /\ UNCHANGED <<connVars, closing, ctxDone>>

-----------------------------------------------------------------------------
Start == \/ ConnectFails \/ ConnectCancelled \/ ConnectOK \/ AssignSession \/ SwapChannel
         \/ WakeWaiters \/ Dropped \/ StopSession \/ Reconnect \/ Return

Close == CancelLifecycle \/ CloseSession

Analyze(c) == \/ ReadState(c) \/ ReadChannel(c) \/ Woken(c) \/ GivesUp(c)
              \/ ReadSession(c) \/ CallTool(c)

Next == Start \/ Close \/ SessionLost \/ EndContext \/ \E c \in Callers : Analyze(c)

Spec == Init /\ [][Next]_vars

(* Start keeps running, and the AfterFunc runs once Close has cancelled    *)
(* the lifecycle.                                                          *)
FairSpec == Spec /\ WF_vars(Start) /\ WF_vars(closing # "open" /\ EndContext)
-----------------------------------------------------------------------------
(* No recovery channel is closed twice, and the one callers are given to   *)
(* wait on is open: Start cannot panic (socratic_client.go:166-172).       *)
CurrentOpen ==
    /\ channel \notin closed
    /\ start.pc = "wake" => start.old \notin closed /\ start.old # channel

(* A caller that goes on has a session, and when it had to wait, not one   *)
(* that Start had seen end: being woken means reconnected, whenever the    *)
(* state, the channel and the session are read (socratic_client.go:222).   *)
FreshSession == \A c \in Callers : call[c].pc = "calling" => call[c].session > call[c].since

(* When Start has returned the breaker is not left closed, however Start   *)
(* and Close raced (socratic_client.go:188-200, 350-360).                  *)
StoppedNotEnabled == start.pc = "returned" => state # "CONNECTED"

(* Close ends the loop of Start wherever it is (socratic_client.go:111).   *)
StartReturns == closing # "open" ~> start.pc = "returned"
=============================================================================
