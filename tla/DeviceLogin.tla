----------------------------- MODULE DeviceLogin -----------------------------
(***************************************************************************)
(* LoginDeviceOAuth: the issuer hands out a code, the user enters it       *)
(* elsewhere, and the client polls until the issuer decides or the code    *)
(* expires. OpenAI is polled first and its grant exchanged for tokens;     *)
(* Grok is waited for first and may ask for slower polls.                  *)
(***************************************************************************)
EXTENDS Integers

CONSTANTS
    Second, DefaultInterval, SlowDown,  \* durations
    Expiries,                           \* bound: how long a code may live
    Intervals                           \* bound: the interval an issuer may ask for

DeviceAssumption ==
    /\ {Second, DefaultInterval, SlowDown} \subseteq Nat \ {0}
    /\ Expiries \subseteq Nat \ {0} /\ Intervals \subseteq Nat

VARIABLE device     \* the one device login of the wizard

Idle == [pc |-> "idle", openai |-> FALSE, left |-> 0, interval |-> 0, told |-> 0,
         since |-> 0, polls |-> 0, run |-> 0]

DeviceType == device \in
    [pc       : {"idle", "request", "poll", "asked", "sleep", "exchange", "granted", "failed"},
     openai   : BOOLEAN,
     left     : Nat,    \* until the deadline
     interval : Nat,    \* between polls, as the client keeps it
     told     : Nat,    \* as the issuer last asked for, or the default
     since    : Nat,    \* since the last poll
     polls    : {0, 1}, \* whether a poll was made
     run      : Nat]    \* the run of the wizard it belongs to

DeviceInit == device = Idle

DeviceStart(openai, run) ==
    device' = [Idle EXCEPT !.pc = "request", !.openai = openai, !.run = run]

End(how) == device' = [device EXCEPT !.pc = how]

(* durationFromSeconds *)
Interval(asked, floor) ==
    CASE asked = 0 -> DefaultInterval
      [] asked > 0 /\ floor /\ asked < Second -> Second
      [] OTHER -> asked

(* The code request fails, or its response is incomplete or unsafe to show. *)
CodeRefused == device.pc = "request" /\ End("failed")

CodeShown ==
    /\ device.pc = "request"
    /\ \E expiry \in Expiries, asked \in Intervals :
          device' = [device EXCEPT
              !.pc = IF device.openai THEN "poll" ELSE "sleep",
              !.left = expiry,
              !.interval = Interval(asked, ~device.openai),
              !.told = IF asked = 0 THEN DefaultInterval ELSE asked]

(* sleepBeforeDeadline: what is left caps the wait, and once it is used up *)
(* the login ends; a cancelled context ends it too.                        *)
Sleep ==
    /\ device.pc = "sleep"
    /\ LET wait == IF device.interval > device.left THEN device.left ELSE device.interval
       IN  \/ End("failed")
           \/ /\ device.left > wait
              /\ device' = [device EXCEPT !.pc = "poll", !.left = @ - wait, !.since = @ + wait]
           \/ device.left <= wait /\ End("failed")

(* OpenAI looks at the deadline before it polls. *)
Poll ==
    /\ device.pc = "poll"
    /\ IF device.openai /\ device.left = 0
       THEN End("failed")
       ELSE device' = [device EXCEPT !.pc = "asked", !.since = 0, !.polls = 1]

(* The answer takes its time, up to the deadline and past it. *)
Answered(pc, delay) ==
    device' = [device EXCEPT !.pc = pc, !.left = IF delay > @ THEN 0 ELSE @ - delay,
                             !.since = @ + delay]

Pending ==
    /\ device.pc = "asked"
    /\ \E delay \in 0..device.left : Answered("sleep", delay)

(* Mutant: the slower pace is dropped with the response that asked for it. *)
SlowDownIgnored ==
    /\ device.pc = "asked" /\ ~device.openai
    /\ \E delay \in 0..device.left :
          device' = [device EXCEPT !.pc = "sleep", !.left = @ - delay, !.since = @ + delay,
                                   !.told = @ + SlowDown]

(* The loop sleeps longer from here on. *)
SlowedDown ==
    /\ device.pc = "asked" /\ ~device.openai
    /\ \E delay \in 0..device.left :
          device' = [device EXCEPT !.pc = "sleep", !.left = @ - delay, !.since = @ + delay,
                                   !.interval = @ + SlowDown, !.told = @ + SlowDown]

(* Denied, expired, another error, a response that cannot be read. *)
Refused == device.pc = "asked" /\ End("failed")

(* Grok's answer holds the tokens, OpenAI's a code to exchange. *)
Authorized ==
    /\ device.pc = "asked"
    /\ End(IF device.openai THEN "exchange" ELSE "granted")

ExchangeEnds ==
    /\ device.pc = "exchange"
    /\ End("granted") \/ End("failed")

DeviceNext ==
    \/ CodeRefused \/ CodeShown \/ Sleep \/ Poll \/ Pending \/ SlowedDown \/ Refused
    \/ Authorized \/ ExchangeEnds

DeviceEnded == device.pc \in {"granted", "failed"}

(* A poll follows the one before by what the issuer asked for, slow-downs  *)
(* included, and none is made once the code has expired: the wait is cut   *)
(* to what is left and the login ends there (sleepBeforeDeadline).         *)
PollStep ==
    device.pc = "poll" /\ device'.pc = "asked" =>
        /\ device.left > 0
        /\ device.polls = 1 => device.since >= device.told
=============================================================================
