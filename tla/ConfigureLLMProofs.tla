------------------------ MODULE ConfigureLLMProofs ------------------------
(***************************************************************************)
(* The prompts, the polls and the result of the wizard, for any logins,    *)
(* providers, catalogs, options and answers.                               *)
(*                                                                         *)
(* The wizard only hands the prompter to the goroutines of a login while   *)
(* it waits for that login, and takes it back by draining it.  So every    *)
(* login but the one it waits for is settled: it never began, or it ended  *)
(* and was drained, and then neither of its goroutines will use the        *)
(* prompter again.  The two of one login follow each other: the pasted     *)
(* code is read once the instruction has been shown.  The polls need that  *)
(* the client's interval is no shorter than what the issuer asked for.     *)
(* The result needs what each question may rely on: the session that goes  *)
(* with the credential, lists made of ids, and fallbacks that differ, in   *)
(* lower case, from what was chosen before them (ResultInv).               *)
(* The types of the whole state come last.                                 *)
(***************************************************************************)
EXTENDS ConfigureLLM, ModelCatalogProofs, FiniteSetTheorems, TLAPS

Shows(a) == paste[a].opener = "showing"
Reads(a) == paste[a].input = "reading"

(* The goroutines of a login are made when it listens, and use the prompter *)
(* one after the other; drain runs when the login has returned.             *)
Ordered(a) ==
    /\ login[a].pc \in {"idle", "listen"} =>
          /\ paste[a].opener = "none" /\ paste[a].input = "none"
          /\ ~paste[a].shown /\ ~paste[a].done
    /\ paste[a].shown => paste[a].opener = "opened"
    /\ Reads(a) => paste[a].shown /\ paste[a].pending = "open"
    /\ paste[a].done => Browser!Ended(a)

(* A login whose goroutines leave the prompter alone from now on. *)
Settled(a) ==
    /\ ~Shows(a) /\ ~Reads(a)
    /\ login[a].pc = "idle" \/ paste[a].done

(* The wizard has taken the prompter back, and may not have been told yet   *)
(* that a pasted line was read.                                             *)
TakenBack(a) == paste[a].done /\ ~Shows(a)

(* Every login is settled but the one the wizard waits for. *)
Waited(a) ==
    \/ Settled(a)
    \/ a = wiz.run /\ wiz.pc = "browser"
    \/ a = wiz.run /\ wiz.pc = "drain" /\ TakenBack(a)

(* The fields that matter are there. *)
LoginShape ==
    /\ DOMAIN login = Attempts /\ DOMAIN paste = Attempts
    /\ \A a \in Attempts : /\ "pc" \in DOMAIN login[a]
                           /\ {"opener", "input", "shown", "done", "pending"} \subseteq DOMAIN paste[a]

Shape == {"pc", "run"} \subseteq DOMAIN wiz /\ LoginShape

-----------------------------------------------------------------------------
(* The wizard. *)
Stays == "run" \in DOMAIN wiz' /\ "pc" \in DOMAIN wiz' /\ wiz'.run = wiz.run

(* A question is asked by the wizard, and no run begins with its answer. *)
LEMMA QuestionStep ==
    ASSUME Shape, Question
    PROVE  wiz.pc \in Questions /\ Stays /\ UNCHANGED <<loginVars, device>>
<1> USE DEF Shape, Stays, Questions, At, Goto, Fail, Repeat, WithKey, WithSession, Return
<1>1. CASE ChooseProvider
  BY <1>1 DEF ChooseProvider, AskSelect, Ask
<1>2. CASE EnterBaseURL
  BY <1>2 DEF EnterBaseURL, AskInput, Ask
<1>3. CASE EndpointAgain
  BY <1>3 DEF EndpointAgain, AskConfirm, Ask
<1>4. CASE UseEnv
  BY <1>4 DEF UseEnv, AskConfirm, Ask
<1>5. CASE KeepKey
  BY <1>5 DEF KeepKey, AskConfirm, Ask
<1>6. CASE EnterKey
  BY <1>6 DEF EnterKey, AskSecret, Ask
<1>7. CASE ChooseMethod
  BY <1>7 DEF ChooseMethod, AskSelect, Ask
<1>8. CASE PasteToken
  BY <1>8 DEF PasteToken, AskSecret, Ask
<1>9. CASE UseVendorCLI
  BY <1>9 DEF UseVendorCLI, AskConfirm, Ask
<1>10. CASE KeepExistingOAuth
  BY <1>10 DEF KeepExistingOAuth, AskConfirm, Ask
<1>11. CASE EnterOnlyModel
  BY <1>11 DEF EnterOnlyModel, AskInput, Ask
<1>12. CASE EnterModelID
  BY <1>12 DEF EnterModelID, AskInput, Chosen, FallbackRound, Ask
<1>13. CASE SearchModel
  BY <1>13 DEF SearchModel, AskInput, Ask
<1>14. CASE PickMatch
  BY <1>14 DEF PickMatch, AskSelect, Chosen, FallbackRound, Ask
<1>15. CASE PickRecommended
  BY <1>15 DEF PickRecommended, AskSelect, Chosen, FallbackRound, Ask
<1>16. CASE SearchFallback
  BY <1>16 DEF SearchFallback, AskInput, Ask
<1>17. CASE PickFallbacks
  BY <1>17 DEF PickFallbacks, AskPicks, Ask
<1>18. CASE PickFallbackMatches
  BY <1>18 DEF PickFallbackMatches, AskPicks, Ask
<1>19. CASE MoreFallbacks
  BY <1>19 DEF MoreFallbacks, AskConfirm, FallbackRound, Ask
<1> QED
  BY <1>1, <1>2, <1>3, <1>4, <1>5, <1>6, <1>7, <1>8, <1>9,
     <1>10, <1>11, <1>12, <1>13, <1>14, <1>15, <1>16, <1>17, <1>18, <1>19 DEF Question

-----------------------------------------------------------------------------
(* The logins. *)
Kept ==
    /\ LoginShape'
    /\ \A a \in Attempts : /\ Ordered(a)'
                           /\ Settled(a) => Settled(a)'
                           /\ TakenBack(a) => TakenBack(a)'

(* A step of a login call, whose goroutines stand still. *)
LEMMA LoginKeeps ==
    ASSUME Shape, \A a \in Attempts : Ordered(a), NEW a \in Attempts,
           LoginStep(a) \/ Timeout(a) \/ Disturbed(a)
    PROVE  Kept
<1> USE DEF Shape, Ordered, Settled, TakenBack, Shows, Reads, Kept, LoginShape, Browser!Ended
<1>1. CASE Browser!Listens(a)
  BY <1>1 DEF Browser!Listens
<1>2. CASE Browser!ListenFails(a)
  BY <1>2 DEF Browser!ListenFails
<1>3. CASE Browser!EndpointUnusable(a)
  BY <1>3 DEF Browser!EndpointUnusable
<1>4. CASE Browser!TakeResult(a)
  BY <1>4 DEF Browser!TakeResult
<1>5. CASE Browser!GiveUp(a)
  BY <1>5 DEF Browser!GiveUp, Browser!Return
<1>6. CASE Browser!Redeem(a)
  BY <1>6 DEF Browser!Redeem
<1>7. CASE Browser!ExchangeFails(a)
  BY <1>7 DEF Browser!ExchangeFails, Browser!Return
<1>8. CASE Browser!Shutdown(a)
  BY <1>8 DEF Browser!Shutdown
<1>9. CASE Browser!Expire(a)
  BY <1>9 DEF Browser!Expire
<1>10. CASE Browser!ServeFails(a)
  BY <1>10 DEF Browser!ServeFails
<1>11. ASSUME NEW b \in Attempts, Browser!Callback(a, b) PROVE Kept
  BY <1>11 DEF Browser!Callback, Browser!Offered
<1> QED
  BY <1>1, <1>2, <1>3, <1>4, <1>5, <1>6, <1>7, <1>8, <1>9, <1>10, <1>11
  DEF LoginStep, Timeout, Disturbed

(* A step of one of the goroutines of a login. *)
LEMMA PasteKeeps ==
    ASSUME Shape, \A a \in Attempts : Ordered(a), NEW a \in Attempts,
           OpenerStep(a) \/ InputStep(a) \/ PasteLine(a)
    PROVE  Kept
<1> USE DEF Shape, Ordered, Settled, TakenBack, Shows, Reads, Kept, LoginShape, Browser!Ended,
            Browser!Locked
<1>1. CASE Browser!Show(a)
  BY <1>1 DEF Browser!Show
<1>2. CASE Browser!Shown(a)
  BY <1>2 DEF Browser!Shown
<1>3. CASE Browser!InputCancelled(a)
  BY <1>3 DEF Browser!InputCancelled
<1>4. CASE Browser!InputReads(a)
  BY <1>4 DEF Browser!InputReads
<1>5. CASE Browser!InputLine(a)
  BY <1>5 DEF Browser!InputLine
<1>6. CASE Browser!InputOffers(a)
  BY <1>6 DEF Browser!InputOffers
<1> QED
  BY <1>1, <1>2, <1>3, <1>4, <1>5, <1>6 DEF OpenerStep, InputStep, PasteLine

-----------------------------------------------------------------------------
(* The prompter has one user. *)
PromptInv == Shape /\ \A a \in Attempts : Ordered(a) /\ Waited(a)

(* Wherever the wizard goes from a step in which it waits for no login.     *)
LEMMA WizardKeeps ==
    ASSUME PromptInv, Stays, UNCHANGED loginVars, wiz.pc \notin {"browser", "drain"}
    PROVE  PromptInv'
<1>1. \A a \in Attempts : Settled(a)
  BY DEF PromptInv, Waited
<1>2. Shape'
  BY DEF PromptInv, Stays, loginVars, Shape, LoginShape
<1>3. ASSUME NEW a \in Attempts PROVE Ordered(a)' /\ Waited(a)'
  BY <1>1 DEF PromptInv, loginVars, Ordered, Waited, Settled, Shows, Reads, Browser!Ended
<1> QED
  BY <1>2, <1>3 DEF PromptInv

(* Logins and their goroutines while the wizard waits, or does not.         *)
LEMMA OthersKeep ==
    ASSUME PromptInv, Kept, UNCHANGED wiz
    PROVE  PromptInv'
<1>1. Shape'
  BY DEF PromptInv, Kept, Shape
<1>2. ASSUME NEW a \in Attempts PROVE Ordered(a)' /\ Waited(a)'
  BY DEF PromptInv, Kept, Waited
<1> QED
  BY <1>1, <1>2 DEF PromptInv

(* The wizard calls a login, and takes the prompter back. *)
LEMMA BrowserKeeps ==
    ASSUME PromptInv, StartBrowser \/ DrainPaste \/ Drained
    PROVE  PromptInv'
<1> USE DEF PromptInv, Shape, LoginShape, Ordered, Waited, Settled, TakenBack, Shows, Reads, At,
            Browser!Ended
<1>1. CASE StartBrowser
  BY <1>1 DEF StartBrowser, Browser!Start
<1>2. CASE DrainPaste
  <2>1. /\ wiz.pc = "browser" /\ Browser!Drain(wiz.run) /\ Stays
        /\ wiz'.pc = "drain" \/ paste[wiz.run].pending # "open"
    BY <1>2 DEF DrainPaste, LoginReturned, WithSession, Fail, Goto, Stays
  <2> QED
    BY <2>1 DEF Browser!Drain, Browser!Locked, Stays
<1>3. CASE Drained
  <2>1. wiz.pc = "drain" /\ Browser!Drained(wiz.run) /\ Stays /\ UNCHANGED loginVars
    BY <1>3 DEF Drained, LoginReturned, WithSession, Fail, Stays
  <2> QED
    BY <2>1 DEF Browser!Drained, Stays, loginVars
<1> QED
  BY <1>1, <1>2, <1>3

(* The other steps of the wizard. *)
LEMMA WizardStep ==
    ASSUME Shape, Begin \/ StartDevice \/ DeviceReturns \/ SaveOAuthCredential \/ ListModels
                  \/ SkipListing
    PROVE  Stays /\ UNCHANGED loginVars /\ wiz.pc \notin {"browser", "drain"}
<1> USE DEF Shape, Stays, At, Goto, Fail, WithSession, Discovered
<1>1. CASE Begin
  BY <1>1 DEF Begin
<1>2. CASE StartDevice
  BY <1>2 DEF StartDevice
<1>3. CASE DeviceReturns
  BY <1>3 DEF DeviceReturns
<1>4. CASE SaveOAuthCredential
  BY <1>4 DEF SaveOAuthCredential
<1>5. CASE ListModels
  BY <1>5 DEF ListModels
<1>6. CASE SkipListing
  BY <1>6 DEF SkipListing
<1> QED
  BY <1>1, <1>2, <1>3, <1>4, <1>5, <1>6

(* Another run begins when every login is settled. *)
LEMMA RunKeeps == ASSUME PromptInv, RunAgain PROVE PromptInv'
BY DEF PromptInv, RunAgain, NewRun, At, loginVars, Shape, LoginShape, Ordered, Waited, Settled,
       TakenBack, Shows, Reads, Browser!Ended

(* At the start no login has begun. *)
LEMMA PromptInitially == Init => PromptInv
BY DEF Init, NewRun, Browser!LoginInit, PromptInv, Shape, LoginShape, Ordered, Waited, Settled,
       Shows, Reads

(* Every step keeps the prompter with one party.                            *)
LEMMA PromptStep == PromptInv /\ [Next]_vars => PromptInv'
<1> SUFFICES ASSUME PromptInv, [Next]_vars PROVE PromptInv'
  OBVIOUS
<1> USE DEF PromptInv
<1>1. CASE Question
  BY <1>1, QuestionStep, WizardKeeps DEF Questions
<1>2. CASE Wizard
  BY <1>2, BrowserKeeps, WizardStep, WizardKeeps DEF Wizard
<1>3. CASE DeviceStep \/ UNCHANGED vars
  <2>1. UNCHANGED <<wiz, login, paste>>
    BY <1>3 DEF DeviceStep, vars, loginVars
  <2> QED
    BY <2>1 DEF Shape, LoginShape, Ordered, Waited, Settled, TakenBack, Shows, Reads, Browser!Ended
<1>4. CASE RunAgain
  BY <1>4, RunKeeps
<1>5. ASSUME NEW a \in Attempts, \/ LoginStep(a) \/ Timeout(a) \/ Disturbed(a)
                                 \/ OpenerStep(a) \/ InputStep(a) \/ PasteLine(a)
      PROVE  PromptInv'
  <2>1. UNCHANGED wiz
    BY <1>5 DEF LoginStep, Timeout, Disturbed, OpenerStep, InputStep, PasteLine
  <2> QED
    BY <1>5, <2>1, LoginKeeps, PasteKeeps, OthersKeep
<1> QED
  BY <1>1, <1>2, <1>3, <1>4, <1>5 DEF Next

(* A set whose members are all the same has at most one of them.            *)
LEMMA AtMostOne ==
    ASSUME NEW T, \A x, y \in T : x = y
    PROVE  Cardinality(T) <= 1
<1>1. CASE T = {}
  <2>1. Cardinality({}) = 0
    BY FS_EmptySet
  <2> QED
    BY <1>1, <2>1
<1>2. CASE T # {}
  <2>1. PICK x \in T : T = {x}
    BY <1>2
  <2>2. Cardinality({x}) = 1
    BY FS_Singleton
  <2> QED
    BY <2>1, <2>2
<1> QED
  BY <1>1, <1>2

(* Prompts never overlap, whatever logins leave behind (wizard/auth.go,     *)
(* pastePrompt): the goroutines of a login that the wizard no longer waits  *)
(* for do not use the prompter, and those of one login use it in turn.      *)
THEOREM OnePromptHolds == Spec => []OnePrompt
<1>1. PromptInv => OnePrompt
  <2> SUFFICES ASSUME PromptInv PROVE OnePrompt
    OBVIOUS
  <2> DEFINE users == {<<"show", a>> : a \in {a \in Attempts : paste[a].opener = "showing"}}
                      \cup {<<"input", a>> : a \in {a \in Attempts : paste[a].input = "reading"}}
                      \cup {<<"wizard", 0>> : q \in {wiz.pc} \cap Questions}
  <2>1. \A a \in Attempts : Shows(a) \/ Reads(a) => a = wiz.run /\ wiz.pc \in {"browser", "drain"}
    BY DEF PromptInv, Waited, Settled
  <2>2. \A a \in Attempts : ~(Shows(a) /\ Reads(a))
    BY DEF PromptInv, Ordered, Shows
  <2>3. wiz.pc \in Questions => wiz.pc \notin {"browser", "drain"}
    BY DEF Questions
  <2>4. \A x \in users : \/ x = <<"show", wiz.run>> /\ wiz.run \in Attempts /\ Shows(wiz.run)
                         \/ x = <<"input", wiz.run>> /\ wiz.run \in Attempts /\ Reads(wiz.run)
                         \/ x = <<"wizard", 0>> /\ wiz.pc \in Questions
    <3>1. ASSUME NEW x \in users, NEW a \in Attempts, Shows(a), x = <<"show", a>>
          PROVE  x = <<"show", wiz.run>> /\ wiz.run \in Attempts /\ Shows(wiz.run)
      BY <2>1, <3>1
    <3>2. ASSUME NEW x \in users, NEW a \in Attempts, Reads(a), x = <<"input", a>>
          PROVE  x = <<"input", wiz.run>> /\ wiz.run \in Attempts /\ Reads(wiz.run)
      BY <2>1, <3>2
    <3>3. ASSUME NEW x \in users
          PROVE  \/ \E a \in Attempts : Shows(a) /\ x = <<"show", a>>
                 \/ \E a \in Attempts : Reads(a) /\ x = <<"input", a>>
                 \/ x = <<"wizard", 0>> /\ wiz.pc \in Questions
      BY <3>3 DEF Shows, Reads
    <3>4. ASSUME NEW x \in users
          PROVE  \/ x = <<"show", wiz.run>> /\ wiz.run \in Attempts /\ Shows(wiz.run)
                 \/ x = <<"input", wiz.run>> /\ wiz.run \in Attempts /\ Reads(wiz.run)
                 \/ x = <<"wizard", 0>> /\ wiz.pc \in Questions
      BY <3>1, <3>2, <3>3
    <3> QED
      BY <3>4
  <2>5. \A x, y \in users : x = y
    BY <2>1, <2>2, <2>3, <2>4
  <2>6. Cardinality(users) <= 1
    BY <2>5, AtMostOne
  <2> QED
    BY <2>6 DEF OnePrompt
<1> QED
  BY <1>1, PromptInitially, PromptStep, PTL DEF Spec

-----------------------------------------------------------------------------
(* The polls of a device login. *)
Fields == {"pc", "openai", "left", "interval", "told", "since", "polls"}

(* The client keeps an interval no shorter than it was told, and has slept  *)
(* for it when it comes to its next poll.                                   *)
DeviceInv ==
    /\ Fields \subseteq DOMAIN device
    /\ device.left \in Nat /\ device.interval \in Nat /\ device.told \in Nat /\ device.since \in Nat
    /\ device.told <= device.interval
    /\ device.pc = "request" => device.polls = 0
    /\ device.pc = "poll" =>
          /\ device.left > 0
          /\ device.polls = 1 => device.since >= device.told

(* A step of a running device login polls only after the pause, and the     *)
(* interval stays no shorter than what the issuer asked for.                *)
LEMMA DeviceKeeps ==
    ASSUME DeviceInv, Device!DeviceNext
    PROVE  DeviceInv' /\ Device!PollStep
<1> USE DEF DeviceInv, Fields, Device!PollStep, Device!End, Device!Answered
<1>1. CASE Device!CodeRefused
  BY <1>1 DEF Device!CodeRefused
<1>2. CASE Device!CodeShown
  <2>1. PICK expiry \in Expiries, asked \in Intervals :
            device' = [device EXCEPT
                !.pc = IF device.openai THEN "poll" ELSE "sleep",
                !.left = expiry,
                !.interval = Device!Interval(asked, ~device.openai),
                !.told = IF asked = 0 THEN DefaultInterval ELSE asked]
    BY <1>2 DEF Device!CodeShown
  <2>2. /\ expiry \in Nat /\ expiry > 0 /\ asked \in Nat
        /\ Device!Interval(asked, ~device.openai) \in Nat
        /\ (IF asked = 0 THEN DefaultInterval ELSE asked) \in Nat
        /\ Device!Interval(asked, ~device.openai) >= IF asked = 0 THEN DefaultInterval ELSE asked
    BY DeviceAssumptions DEF Device!Interval, Device!DeviceAssumption
  <2>3. /\ device'.pc \in {"poll", "sleep"} /\ device'.polls = 0 /\ device'.left > 0
        /\ device'.told <= device'.interval /\ Fields \subseteq DOMAIN device'
        /\ device'.left \in Nat /\ device'.interval \in Nat /\ device'.told \in Nat
        /\ device'.since \in Nat /\ device.pc = "request"
    BY <1>2, <2>1, <2>2 DEF Device!CodeShown
  <2> QED
    BY <2>3
<1>3. CASE Device!Sleep
  <2>1. \/ Device!End("failed")
        \/ /\ device.left > device.interval
           /\ device' = [device EXCEPT !.pc = "poll", !.left = @ - device.interval,
                                       !.since = @ + device.interval]
    <3>1. CASE device.interval > device.left
      BY <1>3, <3>1 DEF Device!Sleep
    <3>2. CASE ~(device.interval > device.left)
      BY <1>3, <3>2 DEF Device!Sleep
    <3> QED
      BY <3>1, <3>2
  <2>2. device.pc = "sleep"
    BY <1>3 DEF Device!Sleep
  <2>3. CASE Device!End("failed")
    BY <2>2, <2>3
  <2>4. CASE /\ device.left > device.interval
             /\ device' = [device EXCEPT !.pc = "poll", !.left = @ - device.interval,
                                         !.since = @ + device.interval]
    BY <2>2, <2>4
  <2> QED
    BY <2>1, <2>3, <2>4
<1>4. CASE Device!Poll
  <2>1. device.pc = "poll" /\ device.left > 0
    BY <1>4 DEF Device!Poll
  <2>2. device' = [device EXCEPT !.pc = "asked", !.since = 0, !.polls = 1]
    BY <1>4, <2>1 DEF Device!Poll
  <2> QED
    BY <2>1, <2>2
<1>5. CASE Device!Pending
  BY <1>5 DEF Device!Pending
<1>6. CASE Device!SlowedDown
  <2>1. PICK delay \in 0..device.left :
            device' = [device EXCEPT !.pc = "sleep", !.left = @ - delay, !.since = @ + delay,
                                     !.interval = @ + SlowDown, !.told = @ + SlowDown]
    BY <1>6 DEF Device!SlowedDown
  <2>2. /\ device.pc = "asked" /\ SlowDown \in Nat
        /\ device.left - delay \in Nat /\ device.since + delay \in Nat
        /\ device.interval + SlowDown \in Nat /\ device.told + SlowDown \in Nat
        /\ device.told + SlowDown <= device.interval + SlowDown
    BY <1>6, DeviceAssumptions DEF Device!SlowedDown, Device!DeviceAssumption
  <2> QED
    BY <2>1, <2>2
<1>7. CASE Device!Refused
  BY <1>7 DEF Device!Refused
<1>8. CASE Device!Authorized
  BY <1>8 DEF Device!Authorized
<1>9. CASE Device!ExchangeEnds
  BY <1>9 DEF Device!ExchangeEnds
<1> QED
  BY <1>1, <1>2, <1>3, <1>4, <1>5, <1>6, <1>7, <1>8, <1>9 DEF Device!DeviceNext

(* Only a device login that is running, and the start of one, touch it.     *)
LEMMA DeviceStepKeeps == Shape /\ DeviceInv /\ [Next]_vars => DeviceInv' /\ Device!PollStep
<1> SUFFICES ASSUME Shape, DeviceInv, [Next]_vars PROVE DeviceInv' /\ Device!PollStep
  OBVIOUS
<1>1. ASSUME UNCHANGED device PROVE DeviceInv' /\ Device!PollStep
  BY <1>1 DEF DeviceInv, Device!PollStep
<1>2. CASE Question
  BY <1>1, <1>2, QuestionStep
<1>3. CASE DeviceStep
  BY <1>3, DeviceKeeps DEF DeviceStep
<1>4. CASE StartDevice
  BY <1>4 DEF StartDevice, Device!DeviceStart, Device!Idle, DeviceInv, Fields, Device!PollStep
<1>5. CASE Wizard /\ ~StartDevice
  BY <1>1, <1>5 DEF Wizard, Begin, StartBrowser, DrainPaste, Drained, DeviceReturns,
                    SaveOAuthCredential, ListModels, SkipListing
<1>6. CASE RunAgain \/ UNCHANGED vars
  BY <1>1, <1>6 DEF RunAgain, vars
<1>7. ASSUME NEW a \in Attempts, \/ LoginStep(a) \/ Timeout(a) \/ Disturbed(a)
                                 \/ OpenerStep(a) \/ InputStep(a) \/ PasteLine(a)
      PROVE  UNCHANGED device
  BY <1>7 DEF LoginStep, Timeout, Disturbed, OpenerStep, InputStep, PasteLine
<1> QED
  BY <1>1, <1>2, <1>3, <1>4, <1>5, <1>6, <1>7 DEF Next

(* No poll of a device login comes before the pause the issuer asked for,   *)
(* slow-downs included, or after the code has expired (oauth_device.go).    *)
THEOREM PollsAsToldHolds == Spec => PollsAsTold
<1>1. Init => DeviceInv
  BY DEF Init, Device!DeviceInit, Device!Idle, DeviceInv, Fields
<1>2. PromptInv => Shape
  BY DEF PromptInv
<1> QED
  BY <1>1, <1>2, PromptInitially, PromptStep, DeviceStepKeeps, PTL DEF Spec, PollsAsTold

-----------------------------------------------------------------------------
(* The result. Where the wizard is: a login is under way, the credential is *)
(* known, the catalog is, the fallbacks are being chosen, a run succeeded.  *)
LoggingIn == wiz.pc \in {"method", "token", "useVendor", "keepSession", "browser", "drain",
                         "device", "save"}
Success == wiz.pc = "returned" /\ wiz.ok
ChoosingFallbacks ==
    wiz.pc \in {"fallbackSearch", "fallbackMenu", "fallbackMatches", "moreFallbacks"}
Catalogued == wiz.pc \in {"search", "matches", "menu", "typeId"} \/ ChoosingFallbacks
Credentialed == wiz.pc \in {"discover", "typeModel"} \/ Catalogued \/ Success

WizShape ==
    {"pc", "run", "provider", "kind", "session", "kept", "catalog", "matches", "model", "how",
     "fallbacks", "patience", "ok"} \subseteq DOMAIN wiz

(* Ids that differ from those taken, and from each other. *)
Untaken(models, taken) == \A i \in DOMAIN models : Key(models[i]) \notin Names(taken)
Distinct(models) == \A i, j \in DOMAIN models : i # j => Key(models[i]) # Key(models[j])

Place ==
    /\ wiz.pc # "returned" => wiz.ok = FALSE
    /\ wiz.pc = "provider" => Offered # <<>>
    /\ wiz.pc \notin {"start", "provider", "returned"} \/ Success => p \in ToSet(Menu)
    /\ LoggingIn => p \in {"openai", "grok"}
    /\ wiz.kind = "oauth" => wiz.pc \in {"save", "returned"} \/ Credentialed
    /\ wiz.pc = "keepSession" => opts.existing.session \in Session

(* A session that was logged in is saved before it is used. *)
Held ==
    /\ saved \in [{"openai", "grok"} -> Session \cup {None}]
    /\ wiz.pc = "save" => wiz.session \in Session
    /\ Credentialed /\ wiz.kind = "oauth" =>
          /\ p \in {"openai", "grok"} /\ wiz.session \in Session /\ Valid(p, wiz.session)
          /\ wiz.kept \/ InStore(wiz.session)

(* What a ChatGPT session is offered was listed for it. *)
Listings ==
    /\ Catalogued => /\ wiz.catalog.recommended \in Seq(Ids)
                     /\ wiz.catalog.usable \in Seq(Ids)
                     /\ ChatGPT => wiz.catalog.live
    /\ wiz.pc = "matches" => wiz.matches \in Seq(Ids)
    /\ Success /\ ChatGPT /\ wiz.how = "listed" => wiz.catalog.live

(* What was chosen is not offered again. *)
ChosenOnce ==
    /\ wiz.pc # "returned" /\ ~ChoosingFallbacks => wiz.fallbacks = <<>>
    /\ ChoosingFallbacks \/ Success =>
          /\ wiz.model # None /\ wiz.fallbacks \in Seq(Ids)
          /\ Untaken(wiz.fallbacks, {wiz.model}) /\ Distinct(wiz.fallbacks)
    /\ wiz.pc \in {"fallbackMenu", "fallbackMatches"} =>
          /\ wiz.matches \in Seq(Ids)
          /\ Untaken(wiz.matches, Taken(wiz.model, wiz.fallbacks))

ResultInv == WizShape /\ opts \in Options /\ Place /\ Held /\ Listings /\ ChosenOnce

(* Its parts, for the state and for the next one. *)
LEMMA FailKeeps ==
    ASSUME ResultInv, wiz.pc # "returned", Fail, UNCHANGED <<saved, opts>>
    PROVE  ResultInv'
BY DEF ResultInv, Fail, WizShape, Place, Held, Listings, ChosenOnce, LoggingIn, Success, Catalogued,
       ChoosingFallbacks, Credentialed, p

LEMMA RepeatKeeps ==
    ASSUME ResultInv, wiz.pc # "returned", Repeat(wiz.pc), UNCHANGED <<saved, opts>>
    PROVE  ResultInv'
<1>1. /\ WizShape' /\ opts' \in Options /\ wiz'.pc = wiz.pc /\ wiz'.ok = wiz.ok
      /\ wiz'.provider = wiz.provider /\ wiz'.kind = wiz.kind /\ wiz'.session = wiz.session
      /\ wiz'.kept = wiz.kept /\ wiz'.catalog = wiz.catalog /\ wiz'.matches = wiz.matches
      /\ wiz'.model = wiz.model /\ wiz'.how = wiz.how /\ wiz'.fallbacks = wiz.fallbacks
  BY DEF ResultInv, Repeat, Goto, WizShape
<1>2. Place'
  <2>1. Offered' = Offered
    BY DEF Offered, Where
  <2> QED
    BY <1>1, <2>1
    DEF ResultInv, Place, LoggingIn, Success, Credentialed, Catalogued, ChoosingFallbacks, p
<1>3. Held'
  <2>1. InStore(wiz.session)' <=> InStore(wiz.session)
    BY <1>1 DEF InStore, p
  <2> QED
    BY <1>1, <2>1 DEF ResultInv, Held, Credentialed, Catalogued, ChoosingFallbacks, Success, p
<1>4. Listings'
  BY <1>1 DEF ResultInv, Listings, ChatGPT, Catalogued, ChoosingFallbacks, Success, p
<1>5. ChosenOnce'
  BY <1>1 DEF ResultInv, ChosenOnce, ChoosingFallbacks, Success, Untaken, Distinct
<1> QED
  BY <1>1, <1>2, <1>3, <1>4, <1>5 DEF ResultInv

LEMMA MenuIs ==
    /\ Menu \in Seq(ToSet(Menu)) /\ Offered \in Seq(ToSet(Menu))
    /\ ToSet(Menu) = {"gemini", "openai", "claude", "grok", "opencode", "opencode-go",
                      "huggingface", "kilo", "ollama"}
<1>1. Menu \in Seq(ToSet(Menu)) /\ DOMAIN Menu = 1..9
  BY DEF Menu, ToSet
<1>2. Offered \in Seq(ToSet(Menu))
  BY <1>1, PickIn DEF Offered, Where
<1> QED
  BY <1>1, <1>2 DEF Menu, ToSet

(* What a prompt answers, when it neither fails nor asks again. *)
LEMMA SelectIs ==
    ASSUME NEW line, NEW lost, NEW size, NEW default, Prompt!Select(line, lost, size, default).is = "value"
    PROVE  LET v == Prompt!Select(line, lost, size, default).value IN v = default \/ v \in 1..size
BY DEF Prompt!Select, Prompt!Flush, Prompt!Value, Prompt!Fails, Prompt!Again

LEMMA ChooseProviderKeeps == ASSUME ResultInv, ChooseProvider PROVE ResultInv'
<1>1. /\ wiz.pc = "provider" /\ UNCHANGED <<saved, opts>>
      /\ \/ Fail \/ Repeat(wiz.pc)
         \/ \E i : /\ i = DefaultProvider \/ i \in 1..Len(Offered)
                   /\ wiz' = [wiz EXCEPT !.provider = Offered[i],
                                 !.pc = IF SupportsBaseURL(Offered[i]) THEN "baseURL"
                                        ELSE CredentialQuestion(Offered[i])]
  BY SelectIs DEF ChooseProvider, AskSelect, Ask, At
<1>2. Offered # <<>> /\ DefaultProvider \in 1..Len(Offered)
  <2>1. Offered # <<>> /\ Offered \in Seq(ToSet(Menu))
    BY <1>1, MenuIs DEF ResultInv, Place
  <2>2. 1 \in DOMAIN Offered /\ DOMAIN Offered = 1..Len(Offered)
    BY <2>1
  <2> QED
    BY <2>1, <2>2 DEF DefaultProvider
<1>3. ASSUME NEW i \in 1..Len(Offered),
             wiz' = [wiz EXCEPT !.provider = Offered[i],
                        !.pc = IF SupportsBaseURL(Offered[i]) THEN "baseURL"
                               ELSE CredentialQuestion(Offered[i])]
      PROVE  ResultInv'
  <2>1. Offered[i] \in ToSet(Menu)
    BY MenuIs
  <2>2. /\ wiz'.pc \in {"baseURL", "method", "useEnv", "keepKey", "secret", "discover"}
        /\ wiz'.pc = "method" => Offered[i] \in {"openai", "grok"}
        /\ wiz'.provider = Offered[i]
    BY <1>1, <1>3 DEF CredentialQuestion, APIKeyQuestion, AuthMethods, ResultInv, WizShape
  <2> QED
    BY <1>1, <1>3, <2>1, <2>2
    DEF ResultInv, WizShape, Place, Held, Listings, ChosenOnce, LoggingIn, Success, Catalogued,
        ChoosingFallbacks, Credentialed, p
<1> QED
  BY <1>1, <1>2, <1>3, FailKeeps, RepeatKeeps

(* The answers that only lead on to another question. *)
Onward(pc) ==
    \/ pc \in {"baseURL", "endpointAgain", "useEnv", "keepKey", "secret", "discover"}
    \/ /\ pc \in {"method", "token", "useVendor", "keepSession", "browser", "device"}
       /\ p \in {"openai", "grok"}
       /\ pc = "keepSession" => opts.existing.session \in Session

LEMMA OnwardKeeps ==
    ASSUME ResultInv, UNCHANGED <<saved, opts>>,
           wiz.pc \in {"baseURL", "endpointAgain", "method", "useEnv", "keepKey", "useVendor",
                       "keepSession"},
           NEW pc, Onward(pc), Goto(pc) \/ Repeat(pc)
    PROVE  ResultInv'
<1>1. /\ wiz'.pc = pc /\ wiz'.provider = wiz.provider /\ wiz'.kind = wiz.kind
      /\ wiz'.ok = wiz.ok /\ wiz'.fallbacks = wiz.fallbacks /\ WizShape'
  BY DEF ResultInv, WizShape, Goto, Repeat
<1> QED
  BY <1>1
  DEF ResultInv, Place, Held, Listings, ChosenOnce, LoggingIn, Success, Catalogued,
      ChoosingFallbacks, Credentialed, p, Onward

LEMMA LeadKeeps ==
    ASSUME ResultInv, UNCHANGED <<saved, opts>>,
           wiz.pc \in {"baseURL", "endpointAgain", "method", "useEnv", "keepKey", "useVendor",
                       "keepSession"},
           \/ Fail \/ Repeat(wiz.pc)
           \/ \E pc : Onward(pc) /\ (Goto(pc) \/ Repeat(pc))
    PROVE  ResultInv'
BY OnwardKeeps, FailKeeps, RepeatKeeps

LEMMA CredentialQuestionIs ==
    Onward(CredentialQuestion(p)) /\ \A after : Onward(APIKeyQuestion(after, p))
BY DEF CredentialQuestion, APIKeyQuestion, AuthMethods, Onward

LEMMA EndpointKeeps == ASSUME ResultInv, EnterBaseURL \/ EndpointAgain PROVE ResultInv'
<1> USE CredentialQuestionIs
<1>1. Onward("baseURL") /\ Onward("endpointAgain")
  BY DEF Onward
<1>2. CASE EnterBaseURL
  <2>1. /\ wiz.pc = "baseURL" /\ UNCHANGED <<saved, opts>>
        /\ \/ Fail \/ Repeat(wiz.pc)
           \/ Goto(CredentialQuestion(p)) \/ Goto("endpointAgain")
    BY <1>2 DEF EnterBaseURL, AskInput, Ask, At
  <2> QED
    BY <1>1, <2>1, LeadKeeps
<1>3. CASE EndpointAgain
  <2>1. /\ wiz.pc = "endpointAgain" /\ UNCHANGED <<saved, opts>>
        /\ \/ Fail \/ Repeat(wiz.pc) \/ Repeat("baseURL") \/ Goto(CredentialQuestion(p))
    BY <1>3 DEF EndpointAgain, AskConfirm, Ask, At
  <2> QED
    BY <1>1, <2>1, LeadKeeps
<1> QED
  BY <1>2, <1>3

(* A credential that is no session. *)
LEMMA KeyKeeps ==
    ASSUME ResultInv, UNCHANGED <<saved, opts>>,
           wiz.pc \in {"useEnv", "keepKey", "secret", "token", "useVendor"},
           \/ \E key : WithKey(key)
           \/ wiz' = [wiz EXCEPT !.pc = "discover", !.kind = "vendor_cli"]
    PROVE  ResultInv'
<1>1. /\ wiz'.pc = "discover" /\ wiz'.provider = wiz.provider /\ wiz'.kind # "oauth"
      /\ wiz'.ok = wiz.ok /\ wiz'.fallbacks = wiz.fallbacks /\ WizShape'
  BY DEF ResultInv, WizShape, WithKey
<1> QED
  BY <1>1
  DEF ResultInv, Place, Held, Listings, ChosenOnce, LoggingIn, Success, Catalogued,
      ChoosingFallbacks, Credentialed, p

LEMMA APIKeyKeeps == ASSUME ResultInv, UseEnv \/ KeepKey \/ EnterKey PROVE ResultInv'
<1>1. Onward("secret")
  BY DEF Onward
<1>2. CASE UseEnv
  <2>1. /\ wiz.pc = "useEnv" /\ UNCHANGED <<saved, opts>>
        /\ Fail \/ Repeat(wiz.pc) \/ (\E key : WithKey(key)) \/ Goto(APIKeyQuestion(TRUE, p))
    BY <1>2 DEF UseEnv, AskConfirm, Ask, At
  <2> QED
    BY <2>1, CredentialQuestionIs, LeadKeeps, KeyKeeps
<1>3. CASE KeepKey
  <2>1. /\ wiz.pc = "keepKey" /\ UNCHANGED <<saved, opts>>
        /\ Fail \/ Repeat(wiz.pc) \/ (\E key : WithKey(key)) \/ Goto("secret")
    BY <1>3 DEF KeepKey, AskConfirm, Ask, At
  <2> QED
    BY <1>1, <2>1, LeadKeeps, KeyKeeps
<1>4. CASE EnterKey
  <2>1. /\ wiz.pc = "secret" /\ UNCHANGED <<saved, opts>>
        /\ Fail \/ Repeat(wiz.pc) \/ \E key : WithKey(key)
    BY <1>4 DEF EnterKey, AskSecret, Ask, At
  <2> QED
    BY <2>1, FailKeeps, RepeatKeeps, KeyKeeps
<1> QED
  BY <1>2, <1>3, <1>4

LEMMA ChooseMethodKeeps == ASSUME ResultInv, ChooseMethod PROVE ResultInv'
<1>1. /\ wiz.pc = "method" /\ UNCHANGED <<saved, opts>>
      /\ \/ Fail \/ Repeat(wiz.pc)
         \/ Goto(APIKeyQuestion(FALSE, p)) \/ Goto("token") \/ Goto("useVendor")
         \/ (CanKeepSession /\ Goto("keepSession")) \/ Goto("browser") \/ Goto("device")
  BY DEF ChooseMethod, AskSelect, Ask, At
<1>2. p \in {"openai", "grok"}
  BY <1>1 DEF ResultInv, Place, LoggingIn
<1>3. CanKeepSession => opts.existing.session \in Session
  BY DEF CanKeepSession, ResultInv, Options, Existing
<1>4. /\ Onward("token") /\ Onward("useVendor") /\ (CanKeepSession => Onward("keepSession"))
      /\ Onward("browser") /\ Onward("device")
  BY <1>2, <1>3 DEF Onward
<1> QED
  BY <1>1, <1>4, CredentialQuestionIs, LeadKeeps

(* A session that was logged in is saved next. *)
LEMMA SessionKeeps ==
    ASSUME ResultInv, UNCHANGED <<saved, opts>>,
           wiz.pc \in {"token", "browser", "drain", "device"},
           NEW session \in Session, WithSession(session, "save")
    PROVE  ResultInv'
<1>1. /\ wiz'.pc = "save" /\ wiz'.provider = wiz.provider /\ wiz'.session = session
      /\ wiz'.ok = wiz.ok /\ wiz'.fallbacks = wiz.fallbacks /\ WizShape'
  BY DEF ResultInv, WizShape, WithSession
<1> QED
  BY <1>1
  DEF ResultInv, Place, Held, Listings, ChosenOnce, LoggingIn, Success, Catalogued,
      ChoosingFallbacks, Credentialed, p

LEMMA PasteTokenKeeps == ASSUME ResultInv, PasteToken PROVE ResultInv'
<1> DEFINE session == [refresh |-> FALSE, timeless |-> TRUE, gen |-> 0]
<1>1. session \in Session
  BY DEF Session
<1>2. /\ wiz.pc = "token" /\ UNCHANGED <<saved, opts>>
      /\ Fail \/ Repeat(wiz.pc) \/ (\E key : WithKey(key)) \/ WithSession(session, "save")
  BY DEF PasteToken, AskSecret, Ask, At
<1> HIDE DEF session
<1> QED
  BY <1>1, <1>2, FailKeeps, RepeatKeeps, KeyKeeps, SessionKeeps

LEMMA UseVendorCLIKeeps == ASSUME ResultInv, UseVendorCLI PROVE ResultInv'
<1>1. /\ wiz.pc = "useVendor" /\ UNCHANGED <<saved, opts>>
      /\ \/ Fail \/ Repeat(wiz.pc)
         \/ wiz' = [wiz EXCEPT !.pc = "discover", !.kind = "vendor_cli"]
  BY DEF UseVendorCLI, AskConfirm, Ask, At
<1> QED
  BY <1>1, FailKeeps, RepeatKeeps, KeyKeeps

LEMMA KeepExistingOAuthKeeps == ASSUME ResultInv, KeepExistingOAuth PROVE ResultInv'
<1>1. /\ wiz.pc = "keepSession" /\ UNCHANGED <<saved, opts>>
      /\ \/ Fail \/ Repeat(wiz.pc) \/ Goto("browser")
         \/ /\ Valid(p, opts.existing.session)
            /\ wiz' = [wiz EXCEPT !.pc = "discover", !.kind = "oauth", !.kept = TRUE,
                                  !.session = opts.existing.session]
  BY DEF KeepExistingOAuth, AskConfirm, Ask, At
<1>2. opts.existing.session \in Session /\ p \in {"openai", "grok"}
  BY <1>1 DEF ResultInv, Place, LoggingIn
<1>3. Onward("browser")
  BY <1>2 DEF Onward
<1>4. ASSUME Valid(p, opts.existing.session),
             wiz' = [wiz EXCEPT !.pc = "discover", !.kind = "oauth", !.kept = TRUE,
                                !.session = opts.existing.session]
      PROVE  ResultInv'
  <2>1. /\ wiz'.pc = "discover" /\ wiz'.provider = wiz.provider /\ wiz'.kept
        /\ wiz'.session = opts.existing.session
        /\ wiz'.ok = wiz.ok /\ wiz'.fallbacks = wiz.fallbacks /\ WizShape'
    BY <1>4 DEF ResultInv, WizShape
  <2>2. Valid(p, opts.existing.session)' 
    BY <1>1, <1>4, <2>1 DEF Valid, p
  <2> QED
    BY <1>1, <1>2, <2>1, <2>2
    DEF ResultInv, Place, Held, Listings, ChosenOnce, LoggingIn, Success, Catalogued,
        ChoosingFallbacks, Credentialed, p
<1> QED
  BY <1>1, <1>3, <1>4, LeadKeeps

(* The sessions that the logins bring. *)
Refreshables ==
    /\ DOMAIN login = Attempts
    /\ \A a \in Attempts : {"pc", "refreshable"} \subseteq DOMAIN login[a]
                           /\ login[a].refreshable \in BOOLEAN

LEMMA LoginReturnedKeeps ==
    ASSUME ResultInv, UNCHANGED <<saved, opts>>, wiz.run \in Attempts, Refreshables,
           wiz.pc \in {"browser", "drain"}, LoginReturned
    PROVE  ResultInv'
<1> DEFINE session == [refresh |-> login[wiz.run].refreshable, timeless |-> FALSE, gen |-> 0]
<1>1. session \in Session
  BY DEF Session, Refreshables
<1>2. Fail \/ WithSession(session, "save")
  BY DEF LoginReturned
<1> HIDE DEF session
<1>3. PICK made \in Session : made = session
  BY <1>1
<1> QED
  BY <1>2, <1>3, FailKeeps, SessionKeeps

LEMMA DeviceReturnsKeeps == ASSUME ResultInv, DeviceReturns PROVE ResultInv'
<1>1. /\ wiz.pc = "device" /\ UNCHANGED <<saved, opts>>
      /\ \/ Fail
         \/ \E refresh \in BOOLEAN :
               WithSession([refresh |-> refresh, timeless |-> FALSE, gen |-> 0], "save")
  BY DEF DeviceReturns, At
<1>2. \A refresh \in BOOLEAN : [refresh |-> refresh, timeless |-> FALSE, gen |-> 0] \in Session
  BY DEF Session
<1>3. Fail \/ \E session \in Session : WithSession(session, "save")
  BY <1>1, <1>2
<1> QED
  BY <1>1, <1>3, FailKeeps, SessionKeeps

LEMMA SaveKeeps == ASSUME ResultInv, SaveOAuthCredential PROVE ResultInv'
<1>1. /\ wiz.pc = "save" /\ opts' = opts
      /\ \/ Fail /\ saved' = saved
         \/ /\ Valid(p, wiz.session) /\ saved' = [saved EXCEPT ![p] = wiz.session]
            /\ wiz' = [wiz EXCEPT !.pc = "discover"]
  BY DEF SaveOAuthCredential, At, Goto
<1>2. /\ wiz.session \in Session /\ p \in {"openai", "grok"} /\ wiz.session # None
      /\ wiz.session.gen \in Nat /\ saved \in [{"openai", "grok"} -> Session \cup {None}]
  BY <1>1, SetupAssumption DEF ResultInv, Held, Place, LoggingIn, Session
<1>3. ASSUME Valid(p, wiz.session), saved' = [saved EXCEPT ![p] = wiz.session],
             wiz' = [wiz EXCEPT !.pc = "discover"]
      PROVE  ResultInv'
  <2>1. /\ wiz'.pc = "discover" /\ wiz'.provider = wiz.provider /\ wiz'.session = wiz.session
        /\ wiz'.kind = wiz.kind /\ wiz'.ok = wiz.ok /\ wiz'.fallbacks = wiz.fallbacks /\ WizShape'
    BY <1>3 DEF ResultInv, WizShape
  <2>2. Valid(p, wiz.session)' /\ p' = p
    BY <1>3, <2>1 DEF Valid, p
  <2>3. /\ saved' \in [{"openai", "grok"} -> Session \cup {None}]
        /\ saved'[p'] = wiz'.session
    BY <1>2, <1>3, <2>1, <2>2
  <2>4. Held'
    <3>1. InStore(wiz.session)'
      BY <2>1, <2>2, <2>3 DEF InStore
    <3> QED
      BY <1>2, <2>1, <2>2, <2>3, <3>1 DEF Held
  <2>5. Place' /\ Listings' /\ ChosenOnce'
    BY <1>1, <2>1
    DEF ResultInv, Place, Listings, ChosenOnce, LoggingIn, Success, Catalogued,
        ChoosingFallbacks, Credentialed, p
  <2> QED
    BY <1>1, <2>1, <2>4, <2>5 DEF ResultInv
<1> QED
  BY <1>1, <1>3, FailKeeps

LEMMA BeginKeeps == ASSUME ResultInv, Begin PROVE ResultInv'
<1>1. /\ wiz.pc = "start" /\ UNCHANGED <<saved, opts>>
      /\ Fail \/ (Offered # <<>> /\ wiz' = [wiz EXCEPT !.pc = "provider"])
  BY DEF Begin, At, Goto
<1>2. ASSUME Offered # <<>>, wiz' = [wiz EXCEPT !.pc = "provider"] PROVE ResultInv'
  <2>1. /\ wiz'.pc = "provider" /\ wiz'.kind = wiz.kind
        /\ wiz'.ok = wiz.ok /\ wiz'.fallbacks = wiz.fallbacks /\ WizShape'
    BY <1>2 DEF ResultInv, WizShape
  <2>2. Offered' = Offered
    BY <1>1 DEF Offered, Where
  <2> QED
    BY <1>1, <1>2, <2>1, <2>2
    DEF ResultInv, Place, Held, Listings, ChosenOnce, LoggingIn, Success, Catalogued,
        ChoosingFallbacks, Credentialed
<1> QED
  BY <1>1, <1>2, FailKeeps

-----------------------------------------------------------------------------
(* The catalog, and the session that the listing may have refreshed. *)
LEMMA DiscoveredKeeps ==
    ASSUME ResultInv, wiz.pc = "discover", UNCHANGED opts, NEW catalog, Discovered(catalog),
           catalog.recommended \in Seq(Ids), catalog.usable \in Seq(Ids),
           ChatGPT /\ catalog.recommended # <<>> => catalog.live,
           \/ UNCHANGED saved
           \/ /\ wiz.kind = "oauth" /\ wiz.session.refresh /\ opts.discover
              /\ saved' = [saved EXCEPT ![p] = Refreshed(wiz.session)]
    PROVE  ResultInv'
<1>1. /\ wiz'.provider = wiz.provider /\ wiz'.session = wiz.session /\ wiz'.kept = wiz.kept
      /\ wiz'.kind = wiz.kind /\ wiz'.ok = wiz.ok /\ wiz'.fallbacks = wiz.fallbacks
      /\ wiz'.pc = (IF catalog.recommended = <<>> THEN "typeModel" ELSE "search")
      /\ wiz'.catalog = catalog /\ WizShape'
  BY DEF ResultInv, WizShape, Discovered
<1>2. p' = p /\ ChatGPT' = ChatGPT
  BY <1>1 DEF p, ChatGPT
<1>3. wiz.kind = "oauth" =>
          /\ p \in {"openai", "grok"} /\ wiz.session \in Session /\ Valid(p, wiz.session)
          /\ wiz.session # None /\ wiz.session.gen \in 0..1
          /\ wiz.kept \/ InStore(wiz.session)
  BY SetupAssumption DEF ResultInv, Held, Credentialed, Session
<1>4. /\ saved' \in [{"openai", "grok"} -> Session \cup {None}]
      /\ wiz.kind = "oauth" => wiz.kept \/ InStore(wiz.session)'
  <2>1. CASE saved' = saved
    BY <1>1, <1>2, <1>3, <2>1 DEF ResultInv, Held, InStore, Refreshed
  <2>2. CASE /\ wiz.kind = "oauth" /\ wiz.session.refresh /\ opts.discover
             /\ saved' = [saved EXCEPT ![p] = Refreshed(wiz.session)]
    <3>1. Refreshed(wiz.session) \in Session
      BY <1>3, <2>2 DEF Session, Refreshed
    <3>2. /\ saved' \in [{"openai", "grok"} -> Session \cup {None}]
          /\ saved'[p] = Refreshed(wiz.session)
      BY <1>3, <2>2, <3>1 DEF ResultInv, Held
    <3>3. InStore(wiz.session)'
      BY <1>1, <1>2, <2>2, <3>2 DEF InStore, Refreshed
    <3> QED
      BY <3>2, <3>3
  <2> QED
    BY <2>1, <2>2
<1>5. Held'
  <2>1. wiz.kind = "oauth" => Valid(p, wiz.session)'
    BY <1>1, <1>2, <1>3 DEF Valid
  <2> QED
    BY <1>1, <1>2, <1>3, <1>4, <2>1 DEF Held
<1>6. Place' /\ Listings' /\ ChosenOnce'
  BY <1>1, <1>2
  DEF ResultInv, Place, Listings, ChosenOnce, LoggingIn, Success, Catalogued,
      ChoosingFallbacks, Credentialed, p
<1> QED
  BY <1>1, <1>5, <1>6 DEF ResultInv

LEMMA FallbackIs ==
    ASSUME p \in ToSet(Menu)
    PROVE  /\ Fallback.recommended \in Seq(Ids) /\ Fallback.usable \in Seq(Ids)
           /\ ChatGPT => Fallback.recommended = <<>>
<1>1. Static[p] \in Seq(Ids) /\ <<>> \in Seq(Ids)
  BY SetupAssumption, CatalogAssumption
<1> QED
  BY <1>1 DEF Fallback, Catalog

LEMMA ListKeeps == ASSUME ResultInv, ListModels \/ SkipListing PROVE ResultInv'
<1>1. wiz.pc = "discover" /\ opts' = opts
  BY DEF ListModels, SkipListing, At
<1>2. p \in ToSet(Menu) /\ p \in DOMAIN Static /\ Answers[p] \subseteq Answer(p)
  BY <1>1, SetupAssumption DEF ResultInv, Place
<1>3. ChatGPT \in BOOLEAN /\ (ChatGPT => p = "openai")
  BY DEF ChatGPT
<1>4. CASE SkipListing
  BY <1>1, <1>2, <1>4, FallbackIs, DiscoveredKeeps DEF SkipListing
<1>5. CASE ListModels
  <2>1. PICK token \in BOOLEAN, answer \in Answers[p], section \in BOOLEAN :
            LET cat == ListModelCatalog(IF opts.capable THEN "capable" ELSE "utility",
                                        p, ChatGPT, token, answer, section)
            IN  Discovered(IF cat = NoCatalog \/ cat.recommended = <<>> THEN Fallback ELSE cat)
    BY <1>5 DEF ListModels
  <2> DEFINE cat == ListModelCatalog(IF opts.capable THEN "capable" ELSE "utility",
                                     p, ChatGPT, token, answer, section)
             catalog == IF cat = NoCatalog \/ cat.recommended = <<>> THEN Fallback ELSE cat
  <2>2. cat # NoCatalog => /\ cat.recommended \in Seq(Ids) /\ cat.usable \in Seq(Ids)
                           /\ ChatGPT => cat.live
    <3>1. cat = ListModelCatalog(IF opts.capable THEN "capable" ELSE "utility",
                                 p, ChatGPT, token, answer, section)
      OBVIOUS
    <3>2. ChatGPT \in BOOLEAN
      BY DEF ChatGPT
    <3> HIDE DEF cat
    <3>3. cat # NoCatalog => Fits(IF opts.capable THEN "capable" ELSE "utility",
                                  p, ChatGPT, section, cat)
      BY <1>2, <1>3, <3>1, <3>2, CatalogHolds
    <3> QED
      BY <3>3 DEF Fits
  <2>3. Discovered(catalog)
    BY <2>1
  <2> HIDE DEF cat
  <2>4. /\ catalog.recommended \in Seq(Ids) /\ catalog.usable \in Seq(Ids)
        /\ ChatGPT /\ catalog.recommended # <<>> => catalog.live
    BY <1>2, <2>2, FallbackIs
  <2>5. \/ UNCHANGED saved
        \/ /\ wiz.kind = "oauth" /\ wiz.session.refresh /\ opts.discover
           /\ saved' = [saved EXCEPT ![p] = Refreshed(wiz.session)]
    BY <1>5 DEF ListModels
  <2> HIDE DEF catalog
  <2>6. PICK found : found = catalog
    OBVIOUS
  <2> QED
    BY <1>1, <2>3, <2>4, <2>5, <2>6, DiscoveredKeeps
<1> QED
  BY <1>4, <1>5

-----------------------------------------------------------------------------
(* The model. What is typed, searched for and picked. *)
LEMMA InputIs ==
    ASSUME NEW texts, NEW line \in Prompt!ReadLine({Blank} \cup texts), NEW lost, NEW default,
           Prompt!Input(line, lost, default).is = "value"
    PROVE  LET v == Prompt!Input(line, lost, default).value IN v = default \/ v \in texts
<1> DEFINE asked == {Blank} \cup texts
           ends == {FALSE, prompter.piped}
<1>1. \/ line = Prompt!Line(Blank, TRUE) \/ line = Prompt!Line(Broken, FALSE)
      \/ line \in [text : asked, end : ends]
  BY DEF Prompt!ReadLine
<1> HIDE DEF asked, ends
<1>2. line.text \in {Blank, Broken} \cup asked
  BY <1>1 DEF Prompt!Line
<1> QED
  BY <1>2 DEF asked, Prompt!Input, Prompt!Value, Prompt!Fails

LEMMA WithoutHolds ==
    ASSUME NEW models \in Seq(Ids), NEW taken
    PROVE  /\ Without(models, taken) \in Seq(Ids) /\ Untaken(Without(models, taken), taken)
           /\ \A i \in DOMAIN Without(models, taken) : Without(models, taken)[i] \in ToSet(models)
<1> DEFINE P == {i \in DOMAIN models : Key(models[i]) \notin Names(taken)}
           w == Pick(models, P)
<1>1. Without(models, taken) = w
  BY Zenon DEF Without, Where
<1>2. P \in SUBSET DOMAIN models /\ \A i \in P : Key(models[i]) \notin Names(taken)
  OBVIOUS
<1> HIDE DEF P
<1>3. w \in Seq(Ids) /\ \E at \in [DOMAIN w -> P] : \A k \in DOMAIN w : w[k] = models[at[k]]
  BY <1>2, PickHolds
<1> HIDE DEF w
<1>4. PICK at \in [DOMAIN w -> P] : \A k \in DOMAIN w : w[k] = models[at[k]]
  BY <1>3
<1>5. \A k \in DOMAIN w : w[k] \in ToSet(models) /\ Key(w[k]) \notin Names(taken)
  <2> SUFFICES ASSUME NEW k \in DOMAIN w PROVE w[k] \in ToSet(models) /\ Key(w[k]) \notin Names(taken)
    OBVIOUS
  <2>1. at[k] \in P /\ w[k] = models[at[k]]
    BY <1>4
  <2> QED
    BY <1>2, <2>1 DEF ToSet
<1>6. w \in Seq(Ids) /\ Untaken(w, taken) /\ \A i \in DOMAIN w : w[i] \in ToSet(models)
  BY <1>3, <1>5 DEF Untaken
<1> QED
  BY <1>1, <1>6

LEMMA MatchesIn ==
    ASSUME NEW models \in Seq(Ids), NEW query \in DOMAIN Score
    PROVE  /\ Matches(models, query) \in Seq(Ids)
           /\ \A i \in DOMAIN Matches(models, query) : Matches(models, query)[i] \in ToSet(models)
<1> DEFINE X == ToSet(models)
           found == SearchModels(models, query)
           n == MaxSearch
<1>1. X \in SUBSET Ids /\ models \in Seq(X)
  BY DEF ToSet
<1> HIDE DEF X
<1>2. found \in Seq(X)
  BY <1>1, SearchIn
<1> HIDE DEF found
<1>3. n \in Nat
  BY SetupAssumption
<1> HIDE DEF n
<1>4. Take(found, n) \in Seq(X)
  BY <1>2, <1>3, TakeHolds
<1>5. Take(found, n) = Matches(models, query)
  BY DEF found, n, Matches
<1> QED
  BY <1>1, <1>4, <1>5 DEF X

(* The wizard with what was chosen in it, when it goes on to the fallbacks  *)
(* or returns.                                                              *)
ChosenInv(model, fallbacks) ==
    /\ model # None /\ fallbacks \in Seq(Ids)
    /\ Untaken(fallbacks, {model}) /\ Distinct(fallbacks)

LEMMA PickedKeeps ==
    ASSUME ResultInv, UNCHANGED <<saved, opts>>,
           Catalogued \/ (Credentialed /\ wiz'.pc = "returned" /\ wiz'.how = "typed"),
           NEW model, NEW fallbacks, ChosenInv(model, fallbacks), WizShape',
           \/ wiz'.pc \in {"fallbackSearch", "moreFallbacks"} /\ ~wiz'.ok
           \/ wiz'.pc = "returned" /\ wiz'.ok
           \/ /\ wiz'.pc \in {"fallbackMenu", "fallbackMatches"} /\ ~wiz'.ok
              /\ wiz'.matches \in Seq(Ids) /\ Untaken(wiz'.matches, Taken(model, fallbacks)),
           wiz'.ok \in BOOLEAN,
           wiz'.model = model, wiz'.fallbacks = fallbacks, wiz'.provider = wiz.provider,
           wiz'.session = wiz.session, wiz'.kept = wiz.kept, wiz'.kind = wiz.kind,
           wiz'.catalog = wiz.catalog
    PROVE  ResultInv'
<1>1. /\ (Valid(p, wiz.session)' <=> Valid(p, wiz.session)) /\ (ChatGPT' <=> ChatGPT) /\ p' = p
      /\ InStore(wiz.session)' <=> InStore(wiz.session)
  BY DEF Valid, ChatGPT, InStore, p
<1>2. Place'
  BY <1>1 DEF ResultInv, Place, LoggingIn, Success, Catalogued, ChoosingFallbacks, Credentialed
<1>3. Held'
  BY <1>1 DEF ResultInv, Held, Success, Catalogued, ChoosingFallbacks, Credentialed
<1>4. Listings'
  BY <1>1 DEF ResultInv, Listings, Success, Catalogued, ChoosingFallbacks
<1>5. ChosenOnce'
  BY DEF ChosenInv, ChosenOnce, Success, ChoosingFallbacks, Untaken, Distinct, Taken, Key, Names
<1> QED
  BY <1>2, <1>3, <1>4, <1>5 DEF ResultInv

(* A model that no catalog offered. *)
LEMMA EnterOnlyModelKeeps == ASSUME ResultInv, EnterOnlyModel PROVE ResultInv'
<1>1. /\ wiz.pc = "typeModel" /\ UNCHANGED <<saved, opts>>
      /\ \/ Fail \/ Repeat(wiz.pc)
         \/ \E m : /\ m # None
                   /\ wiz' = [wiz EXCEPT !.pc = "returned", !.ok = TRUE, !.model = m,
                                         !.how = "typed"]
  BY DEF EnterOnlyModel, AskInput, Ask, At
<1>2. ASSUME NEW m, m # None,
             wiz' = [wiz EXCEPT !.pc = "returned", !.ok = TRUE, !.model = m, !.how = "typed"]
      PROVE  ResultInv'
  <2>1. /\ wiz'.pc = "returned" /\ wiz'.ok /\ wiz'.ok \in BOOLEAN /\ wiz'.model = m
        /\ wiz'.how = "typed" /\ wiz'.provider = wiz.provider /\ wiz'.session = wiz.session
        /\ wiz'.kept = wiz.kept /\ wiz'.kind = wiz.kind /\ wiz'.catalog = wiz.catalog
        /\ wiz'.fallbacks = <<>> /\ WizShape'
    BY <1>1, <1>2 DEF ResultInv, WizShape, ChosenOnce, ChoosingFallbacks
  <2>2. Credentialed
    BY <1>1 DEF Credentialed
  <2>3. ChosenInv(m, <<>>)
    BY <1>2 DEF ChosenInv, Untaken, Distinct
  <2> QED
    BY <1>1, <2>1, <2>2, <2>3, PickedKeeps
<1> QED
  BY <1>1, <1>2, FailKeeps, RepeatKeeps

(* A model is chosen, or the fallbacks are, and another round begins while  *)
(* anything is left to offer.                                               *)
LEMMA RoundKeeps ==
    ASSUME ResultInv, UNCHANGED <<saved, opts>>, Catalogued,
           NEW run, DOMAIN run = DOMAIN wiz, run.provider = wiz.provider,
           run.session = wiz.session, run.kept = wiz.kept, run.kind = wiz.kind,
           run.catalog = wiz.catalog,
           NEW model, NEW chosen, ChosenInv(model, chosen), FallbackRound(run, model, chosen)
    PROVE  ResultInv'
<1> DEFINE left == Remaining(model, chosen)
           over == left.recs = <<>> /\ left.usable = <<>>
<1>1. wiz' = [run EXCEPT !.model = model, !.fallbacks = chosen,
                  !.pc = IF over THEN "returned" ELSE "fallbackSearch", !.ok = over]
  BY DEF FallbackRound
<1>2. over \in BOOLEAN
  OBVIOUS
<1> HIDE DEF over
<1>3. /\ wiz'.pc = (IF over THEN "returned" ELSE "fallbackSearch") /\ wiz'.ok = over
      /\ wiz'.model = model /\ wiz'.fallbacks = chosen /\ wiz'.provider = wiz.provider
      /\ wiz'.session = wiz.session /\ wiz'.kept = wiz.kept /\ wiz'.kind = wiz.kind
      /\ wiz'.catalog = wiz.catalog /\ WizShape'
  BY <1>1 DEF ResultInv, WizShape
<1> QED
  BY <1>2, <1>3, PickedKeeps

LEMMA ChosenKeeps ==
    ASSUME ResultInv, UNCHANGED <<saved, opts>>, wiz.pc \in {"typeId", "matches", "menu"},
           NEW model, model # None, NEW how, Chosen(model, how)
    PROVE  ResultInv'
<1>1. Catalogued
  BY DEF Catalogued
<1>2. ChosenInv(model, <<>>)
  BY DEF ChosenInv, Untaken, Distinct
<1> DEFINE started == [wiz EXCEPT !.how = how]
<1>3. PICK run : run = started
  OBVIOUS
<1>4. /\ DOMAIN run = DOMAIN wiz /\ run.provider = wiz.provider
      /\ run.session = wiz.session /\ run.kept = wiz.kept /\ run.kind = wiz.kind
      /\ run.catalog = wiz.catalog /\ run.fallbacks = <<>>
  BY <1>3 DEF ResultInv, WizShape, ChosenOnce, ChoosingFallbacks
<1>5. \/ FallbackRound(run, model, <<>>)
      \/ wiz' = [run EXCEPT !.pc = "returned", !.ok = TRUE, !.model = model]
  BY <1>3 DEF Chosen
<1> HIDE DEF started
<1>6. CASE FallbackRound(run, model, <<>>)
  BY <1>1, <1>2, <1>4, <1>6, RoundKeeps
<1>7. CASE wiz' = [run EXCEPT !.pc = "returned", !.ok = TRUE, !.model = model]
  <2>1. /\ wiz'.pc = "returned" /\ wiz'.ok = TRUE
        /\ wiz'.model = model /\ wiz'.fallbacks = <<>> /\ wiz'.provider = wiz.provider
        /\ wiz'.session = wiz.session /\ wiz'.kept = wiz.kept /\ wiz'.kind = wiz.kind
        /\ wiz'.catalog = wiz.catalog /\ WizShape'
    BY <1>4, <1>7 DEF ResultInv, WizShape
  <2> QED
    BY <1>1, <1>2, <2>1, PickedKeeps
<1> QED
  BY <1>5, <1>6, <1>7

LEMMA EnterModelIDKeeps == ASSUME ResultInv, EnterModelID PROVE ResultInv'
<1>1. /\ wiz.pc = "typeId" /\ UNCHANGED <<saved, opts>>
      /\ Fail \/ Repeat(wiz.pc) \/ \E m : m # None /\ Chosen(m, "typed")
  BY DEF EnterModelID, AskInput, Ask, At
<1> QED
  BY <1>1, FailKeeps, RepeatKeeps, ChosenKeeps

(* From one question about the model to the next. *)
LEMMA BrowseKeeps ==
    ASSUME ResultInv, UNCHANGED <<saved, opts>>, wiz.pc \in {"search", "matches", "menu"},
           NEW pc \in {"search", "matches", "menu", "typeId"},
           DOMAIN wiz' = DOMAIN wiz, wiz'.pc = pc, wiz'.provider = wiz.provider,
           wiz'.session = wiz.session, wiz'.kept = wiz.kept, wiz'.kind = wiz.kind,
           wiz'.catalog = wiz.catalog, wiz'.ok = wiz.ok, wiz'.fallbacks = wiz.fallbacks,
           pc = "matches" => wiz'.matches \in Seq(Ids)
    PROVE  ResultInv'
<1>1. /\ (Valid(p, wiz.session)' <=> Valid(p, wiz.session)) /\ (ChatGPT' <=> ChatGPT) /\ p' = p
      /\ InStore(wiz.session)' <=> InStore(wiz.session)
  BY DEF Valid, ChatGPT, InStore, p
<1>2. Place'
  BY <1>1 DEF ResultInv, Place, LoggingIn, Success, Catalogued, ChoosingFallbacks, Credentialed
<1>3. Held'
  BY <1>1 DEF ResultInv, Held, Success, Catalogued, ChoosingFallbacks, Credentialed
<1>4. Listings' /\ ChosenOnce' /\ WizShape'
  BY <1>1 DEF ResultInv, WizShape, Listings, ChosenOnce, Success, Catalogued, ChoosingFallbacks
<1> QED
  BY <1>2, <1>3, <1>4 DEF ResultInv

(* Without a step of its own: the answer that is no move. *)
LEMMA GotoBrowse ==
    ASSUME ResultInv, UNCHANGED <<saved, opts>>, wiz.pc \in {"search", "matches", "menu"},
           NEW pc \in {"search", "menu", "typeId"}, Goto(pc) \/ Repeat(pc)
    PROVE  ResultInv'
<1>1. /\ DOMAIN wiz' = DOMAIN wiz /\ wiz'.pc = pc /\ wiz'.provider = wiz.provider
      /\ wiz'.session = wiz.session /\ wiz'.kept = wiz.kept /\ wiz'.kind = wiz.kind
      /\ wiz'.catalog = wiz.catalog /\ wiz'.ok = wiz.ok /\ wiz'.fallbacks = wiz.fallbacks
  BY DEF ResultInv, WizShape, Goto, Repeat
<1> QED
  BY <1>1, BrowseKeeps

LEMMA SearchModelKeeps == ASSUME ResultInv, SearchModel PROVE ResultInv'
<1>1. /\ wiz.pc = "search" /\ UNCHANGED <<saved, opts>>
      /\ \/ Fail \/ Repeat(wiz.pc) \/ Goto("menu") \/ Repeat("search")
         \/ \E q \in Queries :
               wiz' = [wiz EXCEPT !.pc = "matches", !.matches = Matches(wiz.catalog.usable, q)]
  BY InputIs DEF SearchModel, AskInput, Ask, At
<1>2. ASSUME NEW q \in Queries,
             wiz' = [wiz EXCEPT !.pc = "matches", !.matches = Matches(wiz.catalog.usable, q)]
      PROVE  ResultInv'
  <2>1. wiz.catalog.usable \in Seq(Ids) /\ q \in DOMAIN Score
    BY <1>1, SetupAssumption DEF ResultInv, Listings, Catalogued
  <2>2. PICK found : found = Matches(wiz.catalog.usable, q)
    OBVIOUS
  <2>3. found \in Seq(Ids)
    BY <2>1, <2>2, MatchesIn
  <2>4. /\ DOMAIN wiz' = DOMAIN wiz /\ wiz'.pc = "matches" /\ wiz'.provider = wiz.provider
        /\ wiz'.session = wiz.session /\ wiz'.kept = wiz.kept /\ wiz'.kind = wiz.kind
        /\ wiz'.catalog = wiz.catalog /\ wiz'.ok = wiz.ok /\ wiz'.fallbacks = wiz.fallbacks
        /\ wiz'.matches = found
    BY <1>2, <2>2 DEF ResultInv, WizShape
  <2> QED
    BY <1>1, <2>3, <2>4, BrowseKeeps
<1> QED
  BY <1>1, <1>2, FailKeeps, RepeatKeeps, GotoBrowse

LEMMA PickMatchKeeps == ASSUME ResultInv, PickMatch PROVE ResultInv'
<1>1. /\ wiz.pc = "matches" /\ UNCHANGED <<saved, opts>>
      /\ \/ Fail \/ Repeat(wiz.pc) \/ Repeat("search") \/ Goto("typeId")
         \/ \E i : /\ i = 1 \/ i \in 1..(Len(wiz.matches) + 2)
                   /\ i <= Len(wiz.matches) /\ Chosen(wiz.matches[i], "listed")
  BY SelectIs DEF PickMatch, AskSelect, Ask, At
<1>2. wiz.matches \in Seq(Ids)
  BY <1>1 DEF ResultInv, Listings
<1>3. ASSUME NEW i, i = 1 \/ i \in 1..(Len(wiz.matches) + 2), i <= Len(wiz.matches),
             Chosen(wiz.matches[i], "listed")
      PROVE  ResultInv'
  <2>1. wiz.matches[i] # None
    BY <1>2, <1>3, CatalogAssumption
  <2>2. PICK model : model = wiz.matches[i]
    OBVIOUS
  <2> QED
    BY <1>1, <1>3, <2>1, <2>2, ChosenKeeps
<1> QED
  BY <1>1, <1>3, FailKeeps, RepeatKeeps, GotoBrowse

(* The default is a row of the menu, or the one after it. *)
LEMMA RowsAre ==
    ASSUME wiz.catalog.recommended \in Seq(Ids)
    PROVE  /\ DefaultRow \in 1..(Len(MenuRows) + 1)
           /\ \A i \in 1..Len(MenuRows) : MenuRows[i] # None
<1> DEFINE listed == wiz.catalog.recommended
           rows == MenuRows
<1>1. listed \in Seq(Ids)
  OBVIOUS
<1>2. SavedRows = {i \in DOMAIN listed : listed[i] = opts.existing.model}
  BY DEF SavedRows
<1>3. rows = listed \/ (ExistingModel # None /\ rows = Append(listed, ExistingModel))
  BY DEF MenuRows
<1>4. SavedRows # {} \/ ExistingModel = None => rows = listed
  BY DEF MenuRows
<1> HIDE DEF listed, rows
<1>5. Len(rows) \in Nat /\ Len(rows) >= Len(listed) /\ Len(listed) \in Nat
  BY <1>1, <1>3
<1>6. \A i \in 1..Len(rows) : rows[i] # None
  <2>1. \A i \in 1..Len(listed) : listed[i] # None
    BY <1>1, CatalogAssumption
  <2>2. CASE rows = listed
    BY <2>1, <2>2
  <2>3. CASE ExistingModel # None /\ rows = Append(listed, ExistingModel)
    <3>1. /\ Len(rows) = Len(listed) + 1 /\ rows[Len(listed) + 1] = ExistingModel
          /\ \A i \in 1..Len(listed) : rows[i] = listed[i]
      BY <1>1, <2>3
    <3> QED
      BY <1>5, <2>1, <2>3, <3>1
  <2> QED
    BY <1>3, <2>2, <2>3
<1>7. CASE SavedRows # {}
  <2>1. SavedRows \in SUBSET Nat /\ \A m \in SavedRows : m <= Len(listed)
    BY <1>1, <1>2
  <2>2. Max(SavedRows) \in SavedRows /\ \A m \in SavedRows : m <= Max(SavedRows)
    BY <1>5, <1>7, <2>1, MaxIs
  <2>3. DefaultRow \in SavedRows
    BY <1>7, <2>2 DEF DefaultRow
  <2> QED
    BY <1>1, <1>2, <1>5, <1>6, <2>3 DEF rows
<1>8. CASE SavedRows = {} /\ ExistingModel # None
  <2>1. DefaultRow = Len(rows) /\ rows = Append(listed, ExistingModel)
    BY <1>8 DEF DefaultRow, rows, listed, MenuRows
  <2> QED
    BY <1>1, <1>5, <1>6, <2>1 DEF rows
<1>9. CASE SavedRows = {} /\ ExistingModel = None
  <2>1. DefaultRow = 1
    BY <1>9 DEF DefaultRow
  <2> QED
    BY <1>5, <1>6, <2>1 DEF rows
<1> QED
  BY <1>7, <1>8, <1>9

LEMMA PickRecommendedKeeps == ASSUME ResultInv, PickRecommended PROVE ResultInv'
<1>1. /\ wiz.pc = "menu" /\ UNCHANGED <<saved, opts>>
      /\ \/ Fail \/ Repeat(wiz.pc) \/ Goto("typeId")
         \/ \E i, how : /\ i = DefaultRow \/ i \in 1..(Len(MenuRows) + 1)
                        /\ ~(i > Len(MenuRows)) /\ Chosen(MenuRows[i], how)
  BY SelectIs DEF PickRecommended, AskSelect, Ask, At
<1>2. wiz.catalog.recommended \in Seq(Ids)
  BY <1>1 DEF ResultInv, Listings, Catalogued
<1>3. Len(MenuRows) \in Nat
  BY <1>2 DEF MenuRows
<1>4. ASSUME NEW i, NEW how, i = DefaultRow \/ i \in 1..(Len(MenuRows) + 1),
             ~(i > Len(MenuRows)), Chosen(MenuRows[i], how)
      PROVE  ResultInv'
  <2>1. MenuRows[i] # None
    BY <1>2, <1>3, <1>4, RowsAre
  <2>2. PICK model : model = MenuRows[i]
    OBVIOUS
  <2> QED
    BY <1>1, <1>4, <2>1, <2>2, ChosenKeeps
<1> QED
  BY <1>1, <1>4, FailKeeps, RepeatKeeps, GotoBrowse

-----------------------------------------------------------------------------
(* The fallbacks. Nothing that was chosen is offered, and of what is picked *)
(* the first of each is added.                                              *)
LEMMA Chosens ==
    ASSUME ResultInv, ChoosingFallbacks
    PROVE  /\ ChosenInv(wiz.model, wiz.fallbacks) /\ Catalogued
           /\ wiz.catalog.recommended \in Seq(Ids) /\ wiz.catalog.usable \in Seq(Ids)
           /\ wiz.ok = FALSE
BY DEF ResultInv, ChosenOnce, ChosenInv, Listings, Catalogued, Place, ChoosingFallbacks

LEMMA LeftIs ==
    ASSUME ResultInv, ChoosingFallbacks
    PROVE  LET left == Remaining(wiz.model, wiz.fallbacks)
               taken == Taken(wiz.model, wiz.fallbacks)
           IN  /\ left.recs \in Seq(Ids) /\ left.usable \in Seq(Ids)
               /\ Untaken(left.recs, taken) /\ Untaken(left.usable, taken)
BY Chosens, WithoutHolds DEF Remaining

LEMMA AddedHolds ==
    ASSUME NEW model, NEW chosen, ChosenInv(model, chosen), NEW ids \in Seq(Ids),
           Untaken(ids, Taken(model, chosen)), NEW picks \in Seq(1..Len(ids))
    PROVE  ChosenInv(model, AppendPicks(chosen, ids, picks))
<1> DEFINE picked == [n \in DOMAIN picks |-> ids[picks[n]]]
           new == Without(picked, ToSet(chosen))
           added == UniqueKeys(new)
           all == chosen \o added
<1>1. picked \in Seq(Ids) /\ ToSet(picked) \subseteq ToSet(ids)
  BY DEF ToSet
<1>2. AppendPicks(chosen, ids, picks) = all
  BY DEF AppendPicks
<1> HIDE DEF picked
<1>3. /\ new \in Seq(Ids) /\ Untaken(new, ToSet(chosen))
      /\ \A i \in DOMAIN new : new[i] \in ToSet(picked)
  BY <1>1, WithoutHolds
<1> HIDE DEF new
<1>4. /\ added \in Seq(Ids) /\ \A i \in DOMAIN added : added[i] \in ToSet(new)
      /\ \A i, j \in DOMAIN added : i # j => Key(added[i]) # Key(added[j])
  BY <1>3, UniqueIn, UniqueKeysHold DEF Key
<1> HIDE DEF added
<1>5. \A i \in DOMAIN added : \E k \in DOMAIN new : added[i] = new[k]
  BY <1>3, <1>4 DEF ToSet
<1>6. \A k \in DOMAIN new : \E j \in DOMAIN ids : new[k] = ids[j]
  BY <1>1, <1>3 DEF ToSet
<1>7. chosen \in Seq(Ids) /\ Distinct(chosen) /\ model # None
      /\ \A i \in DOMAIN chosen : Key(chosen[i]) # Key(model)
  BY DEF ChosenInv, Untaken, Names, Key
<1>8. \A i \in DOMAIN added : Key(added[i]) # Key(model)
  BY <1>5, <1>6 DEF Untaken, Taken, Names, Key
<1>9. \A i \in DOMAIN added, j \in DOMAIN chosen : Key(added[i]) # Key(chosen[j])
  BY <1>3, <1>5 DEF Untaken, Names, Key, ToSet
<1>10. all \in Seq(Ids) /\ \A i \in DOMAIN all :
           \/ i \in DOMAIN chosen /\ all[i] = chosen[i]
           \/ i - Len(chosen) \in DOMAIN added /\ all[i] = added[i - Len(chosen)]
  BY <1>4, <1>7
<1> HIDE DEF all
<1>11. \A i \in DOMAIN all : i \in Int /\ Key(all[i]) # Key(model)
  BY <1>7, <1>8, <1>10
<1>12. Distinct(all)
  <2> SUFFICES ASSUME NEW i \in DOMAIN all, NEW j \in DOMAIN all, i # j
               PROVE  Key(all[i]) # Key(all[j])
    BY DEF Distinct
  <2>1. Len(chosen) \in Nat /\ i \in Int /\ j \in Int
    BY <1>7, <1>11
  <2> DEFINE k == i - Len(chosen)
             l == j - Len(chosen)
  <2>2. k # l
    BY <2>1
  <2>3. /\ \/ i \in DOMAIN chosen /\ all[i] = chosen[i]
           \/ k \in DOMAIN added /\ all[i] = added[k]
        /\ \/ j \in DOMAIN chosen /\ all[j] = chosen[j]
           \/ l \in DOMAIN added /\ all[j] = added[l]
    BY <1>10
  <2> HIDE DEF k, l
  <2>4. \A a, b \in DOMAIN chosen : a # b => Key(chosen[a]) # Key(chosen[b])
    BY <1>7 DEF Distinct
  <2> QED
    BY <1>4, <1>9, <2>2, <2>3, <2>4
<1>13. Untaken(all, {model})
  BY <1>11 DEF Untaken, Names, Key
<1> QED
  BY <1>2, <1>7, <1>10, <1>12, <1>13 DEF ChosenInv

LEMMA PicksIs ==
    ASSUME NEW line \in Prompt!ReadLine({Blank} \cup ({Unfit} \cup Picks)), NEW lost, NEW size,
           Prompt!MultiSelect(line, lost, size, <<>>).is = "value"
    PROVE  Prompt!MultiSelect(line, lost, size, <<>>).value \in Seq(1..size)
<1> DEFINE asked == {Blank} \cup ({Unfit} \cup Picks)
           ends == {FALSE, prompter.piped}
           answer == Prompt!MultiSelect(line, lost, size, <<>>)
<1>1. \/ line = Prompt!Line(Blank, TRUE) \/ line = Prompt!Line(Broken, FALSE)
      \/ line \in [text : asked, end : ends]
  BY DEF Prompt!ReadLine
<1> HIDE DEF asked, ends
<1>2. line.text \in {Blank, Broken} \cup asked
  BY <1>1 DEF Prompt!Line
<1> DEFINE bad == \E i \in DOMAIN line.text : line.text[i] \notin 1..size
           once == Prompt!Unique(line.text)
<1>3. answer = CASE line.text = Broken -> Prompt!Fails
                 [] line.text = Blank -> Prompt!Flush(lost, <<>>)
                 [] line.text = Unfit -> IF line.end THEN Prompt!Fails ELSE Prompt!Again
                 [] bad -> IF line.end THEN Prompt!Fails ELSE Prompt!Again
                 [] OTHER -> Prompt!Flush(lost, once)
  BY DEF Prompt!MultiSelect
<1>4. answer.is = "value"
  OBVIOUS
<1> HIDE DEF bad, once, answer
<1>5. \/ answer.value = <<>>
      \/ line.text \in Picks /\ ~bad /\ answer.value = once
  BY <1>2, <1>3, <1>4
  DEF asked, Prompt!Flush, Prompt!Value, Prompt!Fails, Prompt!Again
<1> DEFINE S == 1..size
<1>6. ASSUME NEW picks \in Picks, \A i \in DOMAIN picks : picks[i] \in S
      PROVE  Prompt!Unique(picks) \in Seq(S)
  <2>1. picks \in Seq(Nat)
    BY SetupAssumption
  <2> HIDE DEF S
  <2>2. picks \in Seq(S)
    BY <1>6, <2>1
  <2>3. Unique(picks) \in Seq(S)
    BY <2>2, UniqueIn DEF UniqueIDs
  <2>4. Prompt!Unique(picks) = Unique(picks)
    BY Zenon DEF Prompt!Unique, Prompt!Pick, Prompt!Arranged, Prompt!InOrder, Prompt!Smaller,
                 Prompt!Cardinality, Unique, Pick, Arranged, InOrder, Smaller, Cardinality
  <2> QED
    BY <2>3, <2>4
<1>7. ~bad => \A i \in DOMAIN line.text : line.text[i] \in S
  BY DEF bad
<1> HIDE DEF S
<1>8. answer.value \in Seq(S)
  <2>1. CASE answer.value = <<>>
    BY <2>1
  <2>2. CASE line.text \in Picks /\ ~bad /\ answer.value = once
    <3>1. PICK picks \in Picks : picks = line.text
      BY <2>2
    <3>2. once \in Seq(S)
      BY <1>6, <1>7, <2>2, <3>1 DEF once
    <3> QED
      BY <2>2, <3>2
  <2> QED
    BY <1>5, <2>1, <2>2
<1> QED
  BY <1>8 DEF answer, S

(* The wizard with the fallbacks as they are. *)
LEMMA SameFallbacks ==
    ASSUME ResultInv, UNCHANGED <<saved, opts>>, ChoosingFallbacks,
           DOMAIN wiz' = DOMAIN wiz, wiz'.provider = wiz.provider,
           wiz'.session = wiz.session, wiz'.kept = wiz.kept, wiz'.kind = wiz.kind,
           wiz'.catalog = wiz.catalog, wiz'.model = wiz.model, wiz'.fallbacks = wiz.fallbacks,
           \/ wiz'.pc = "fallbackSearch" /\ ~wiz'.ok
           \/ wiz'.pc = "returned" /\ wiz'.ok
           \/ /\ wiz'.pc \in {"fallbackMenu", "fallbackMatches"} /\ ~wiz'.ok
              /\ wiz'.matches \in Seq(Ids)
              /\ Untaken(wiz'.matches, Taken(wiz.model, wiz.fallbacks)),
           wiz'.ok \in BOOLEAN
    PROVE  ResultInv'
<1>1. ChosenInv(wiz.model, wiz.fallbacks) /\ Catalogued
  BY Chosens
<1>2. WizShape'
  BY DEF ResultInv, WizShape
<1>3. PICK model, fallbacks : model = wiz.model /\ fallbacks = wiz.fallbacks
  OBVIOUS
<1> QED
  BY <1>1, <1>2, <1>3, PickedKeeps

LEMMA SearchFallbackKeeps == ASSUME ResultInv, SearchFallback PROVE ResultInv'
<1> DEFINE left == Remaining(wiz.model, wiz.fallbacks)
           taken == Taken(wiz.model, wiz.fallbacks)
<1>1. /\ wiz.pc = "fallbackSearch" /\ UNCHANGED <<saved, opts>>
      /\ \/ Fail \/ Repeat(wiz.pc) \/ Repeat("fallbackSearch") \/ Return(wiz.fallbacks)
         \/ wiz' = [wiz EXCEPT !.pc = "fallbackMenu", !.matches = left.recs]
         \/ \E q \in Queries :
               wiz' = [wiz EXCEPT !.pc = "fallbackMatches", !.matches = Matches(left.usable, q)]
  BY InputIs DEF SearchFallback, AskInput, Ask, At
<1>2. ChoosingFallbacks
  BY <1>1 DEF ChoosingFallbacks
<1>3. /\ left.recs \in Seq(Ids) /\ left.usable \in Seq(Ids)
      /\ Untaken(left.recs, taken) /\ Untaken(left.usable, taken) /\ wiz.ok = FALSE
  BY <1>2, LeftIs, Chosens
<1> HIDE DEF left
<1>4. CASE Return(wiz.fallbacks)
  <2>1. /\ DOMAIN wiz' = DOMAIN wiz /\ wiz'.provider = wiz.provider
        /\ wiz'.session = wiz.session /\ wiz'.kept = wiz.kept /\ wiz'.kind = wiz.kind
        /\ wiz'.catalog = wiz.catalog /\ wiz'.model = wiz.model /\ wiz'.fallbacks = wiz.fallbacks
        /\ wiz'.pc = "returned" /\ wiz'.ok = TRUE
    BY <1>4 DEF ResultInv, WizShape, Return
  <2> QED
    BY <1>1, <1>2, <2>1, SameFallbacks
<1>5. ASSUME NEW found \in Seq(Ids), Untaken(found, taken),
             NEW pc \in {"fallbackMenu", "fallbackMatches"},
             wiz' = [wiz EXCEPT !.pc = pc, !.matches = found]
      PROVE  ResultInv'
  <2>1. /\ DOMAIN wiz' = DOMAIN wiz /\ wiz'.provider = wiz.provider
        /\ wiz'.session = wiz.session /\ wiz'.kept = wiz.kept /\ wiz'.kind = wiz.kind
        /\ wiz'.catalog = wiz.catalog /\ wiz'.model = wiz.model /\ wiz'.fallbacks = wiz.fallbacks
        /\ wiz'.pc = pc /\ wiz'.ok = FALSE /\ wiz'.matches = found
    BY <1>3, <1>5 DEF ResultInv, WizShape
  <2> QED
    BY <1>1, <1>2, <1>5, <2>1, SameFallbacks
<1>6. ASSUME NEW q \in Queries,
             wiz' = [wiz EXCEPT !.pc = "fallbackMatches", !.matches = Matches(left.usable, q)]
      PROVE  ResultInv'
  <2>1. PICK offered \in Seq(Ids) : offered = left.usable
    BY <1>3
  <2>2. PICK found : found = Matches(offered, q)
    OBVIOUS
  <2>3. found \in Seq(Ids) /\ \A i \in DOMAIN found : found[i] \in ToSet(offered)
    BY <2>2, SetupAssumption, MatchesIn
  <2>4. Untaken(found, taken)
    BY <1>3, <2>1, <2>3 DEF Untaken, ToSet
  <2> QED
    BY <1>5, <1>6, <2>1, <2>2, <2>3, <2>4
<1>7. CASE wiz' = [wiz EXCEPT !.pc = "fallbackMenu", !.matches = left.recs]
  <2>1. PICK found \in Seq(Ids) : found = left.recs
    BY <1>3
  <2> QED
    BY <1>3, <1>5, <1>7, <2>1
<1> QED
  BY <1>1, <1>4, <1>6, <1>7, FailKeeps, RepeatKeeps

LEMMA PickFallbacksKeeps == ASSUME ResultInv, PickFallbacks \/ PickFallbackMatches PROVE ResultInv'
<1> DEFINE Added(picks) == AppendPicks(wiz.fallbacks, wiz.matches, picks)
<1>1. /\ wiz.pc \in {"fallbackMenu", "fallbackMatches"} /\ UNCHANGED <<saved, opts>>
      /\ \/ Fail \/ Repeat(wiz.pc)
         \/ \E picks \in Seq(1..Len(wiz.matches)) :
               \/ wiz' = [wiz EXCEPT !.pc = "returned", !.ok = TRUE, !.fallbacks = Added(picks)]
               \/ wiz' = [wiz EXCEPT !.pc = "moreFallbacks", !.fallbacks = Added(picks)]
  <2>1. CASE PickFallbacks
    BY <2>1, PicksIs DEF PickFallbacks, AskPicks, Ask, At, Return
  <2>2. CASE PickFallbackMatches
    BY <2>2, PicksIs DEF PickFallbackMatches, AskPicks, Ask, At
  <2> QED
    BY <2>1, <2>2
<1>2. ChoosingFallbacks
  BY <1>1 DEF ChoosingFallbacks
<1>3. /\ ChosenInv(wiz.model, wiz.fallbacks) /\ Catalogued /\ wiz.ok = FALSE
      /\ wiz.matches \in Seq(Ids) /\ Untaken(wiz.matches, Taken(wiz.model, wiz.fallbacks))
  BY <1>1, <1>2, Chosens DEF ResultInv, ChosenOnce
<1>4. ASSUME NEW picks \in Seq(1..Len(wiz.matches)),
             \/ wiz' = [wiz EXCEPT !.pc = "returned", !.ok = TRUE, !.fallbacks = Added(picks)]
             \/ wiz' = [wiz EXCEPT !.pc = "moreFallbacks", !.fallbacks = Added(picks)]
      PROVE  ResultInv'
  <2>1. PICK model, fallbacks : model = wiz.model /\ fallbacks = Added(picks)
    OBVIOUS
  <2>2. ChosenInv(model, fallbacks)
    BY <1>3, <2>1, AddedHolds
  <2>3. \/ wiz' = [wiz EXCEPT !.pc = "returned", !.ok = TRUE, !.fallbacks = fallbacks]
        \/ wiz' = [wiz EXCEPT !.pc = "moreFallbacks", !.fallbacks = fallbacks]
    BY <1>4, <2>1
  <2> HIDE DEF Added
  <2>4. /\ DOMAIN wiz' = DOMAIN wiz /\ wiz'.provider = wiz.provider
        /\ wiz'.session = wiz.session /\ wiz'.kept = wiz.kept /\ wiz'.kind = wiz.kind
        /\ wiz'.catalog = wiz.catalog /\ wiz'.model = model /\ wiz'.fallbacks = fallbacks
        /\ \/ wiz'.pc = "returned" /\ wiz'.ok = TRUE
           \/ wiz'.pc = "moreFallbacks" /\ wiz'.ok = FALSE
    BY <1>3, <2>1, <2>3 DEF ResultInv, WizShape
  <2>5. WizShape'
    BY <2>4 DEF ResultInv, WizShape
  <2> QED
    BY <1>1, <1>3, <2>2, <2>4, <2>5, PickedKeeps
<1> QED
  BY <1>1, <1>4, FailKeeps, RepeatKeeps

LEMMA MoreFallbacksKeeps == ASSUME ResultInv, MoreFallbacks PROVE ResultInv'
<1>1. /\ wiz.pc = "moreFallbacks" /\ UNCHANGED <<saved, opts>>
      /\ \/ Fail \/ Repeat(wiz.pc) \/ Return(wiz.fallbacks)
         \/ FallbackRound([wiz EXCEPT !.patience = @ - 1], wiz.model, wiz.fallbacks)
  BY DEF MoreFallbacks, AskConfirm, Ask, At
<1>2. ChoosingFallbacks
  BY <1>1 DEF ChoosingFallbacks
<1>3. ChosenInv(wiz.model, wiz.fallbacks) /\ Catalogued
  BY <1>2, Chosens
<1>4. CASE Return(wiz.fallbacks)
  <2>1. /\ DOMAIN wiz' = DOMAIN wiz /\ wiz'.provider = wiz.provider
        /\ wiz'.session = wiz.session /\ wiz'.kept = wiz.kept /\ wiz'.kind = wiz.kind
        /\ wiz'.catalog = wiz.catalog /\ wiz'.model = wiz.model /\ wiz'.fallbacks = wiz.fallbacks
        /\ wiz'.pc = "returned" /\ wiz'.ok = TRUE
    BY <1>4 DEF ResultInv, WizShape, Return
  <2> QED
    BY <1>1, <1>2, <2>1, SameFallbacks
<1>5. CASE FallbackRound([wiz EXCEPT !.patience = @ - 1], wiz.model, wiz.fallbacks)
  <2>1. PICK run, model, chosen :
            /\ run = [wiz EXCEPT !.patience = @ - 1]
            /\ model = wiz.model /\ chosen = wiz.fallbacks
    OBVIOUS
  <2>2. /\ DOMAIN run = DOMAIN wiz /\ run.provider = wiz.provider
        /\ run.session = wiz.session /\ run.kept = wiz.kept /\ run.kind = wiz.kind
        /\ run.catalog = wiz.catalog
    BY <2>1 DEF ResultInv, WizShape
  <2>3. FallbackRound(run, model, chosen) /\ ChosenInv(model, chosen)
    BY <1>3, <1>5, <2>1
  <2> QED
    BY <1>1, <1>3, <2>2, <2>3, RoundKeeps
<1> QED
  BY <1>1, <1>4, <1>5, FailKeeps, RepeatKeeps

-----------------------------------------------------------------------------
(* The run and the logins, of which there is one for every run.             *)
RunInv == wiz.run \in Attempts /\ Refreshables

LEMMA LoginRefreshables ==
    ASSUME Refreshables, NEW a \in Attempts,
           \/ LoginStep(a) \/ Timeout(a) \/ Disturbed(a)
           \/ OpenerStep(a) \/ InputStep(a) \/ PasteLine(a)
    PROVE  Refreshables'
<1> USE DEF Refreshables
<1>1. CASE Browser!Listens(a)
  BY <1>1 DEF Browser!Listens
<1>2. CASE Browser!ListenFails(a)
  BY <1>2 DEF Browser!ListenFails
<1>3. CASE Browser!EndpointUnusable(a)
  BY <1>3 DEF Browser!EndpointUnusable
<1>4. CASE Browser!TakeResult(a)
  BY <1>4 DEF Browser!TakeResult
<1>5. CASE Browser!GiveUp(a)
  BY <1>5 DEF Browser!GiveUp, Browser!Return
<1>6. CASE Browser!Redeem(a)
  BY <1>6 DEF Browser!Redeem
<1>7. CASE Browser!ExchangeFails(a)
  BY <1>7 DEF Browser!ExchangeFails, Browser!Return
<1>8. CASE Browser!Shutdown(a)
  BY <1>8 DEF Browser!Shutdown
<1>9. CASE Browser!Expire(a)
  BY <1>9 DEF Browser!Expire
<1>10. CASE Browser!ServeFails(a)
  BY <1>10 DEF Browser!ServeFails
<1>11. ASSUME NEW b \in Attempts, Browser!Callback(a, b) PROVE Refreshables'
  BY <1>11 DEF Browser!Callback, Browser!Offered
<1>12. CASE Browser!InputOffers(a)
  BY <1>12 DEF Browser!InputOffers
<1>13. CASE UNCHANGED login
  BY <1>13
<1>14. CASE OpenerStep(a) \/ PasteLine(a)
  BY <1>13, <1>14
  DEF OpenerStep, PasteLine, Browser!Show, Browser!Shown, Browser!InputLine
<1>15. CASE InputStep(a)
  BY <1>12, <1>13, <1>15 DEF InputStep, Browser!InputCancelled, Browser!InputReads
<1> QED
  BY <1>1, <1>2, <1>3, <1>4, <1>5, <1>6, <1>7, <1>8, <1>9, <1>10, <1>11, <1>14, <1>15
  DEF LoginStep, Timeout, Disturbed

(* The runs are counted from one. *)
LEMMA AttemptsAre ==
    ASSUME NEW n \in Attempts
    PROVE  n \in Nat /\ n > 0 /\ \A m \in 1..n : m \in Attempts
<1>1. Attempts \subseteq Nat \ {0} /\ \A k \in Attempts : 1..k \subseteq Attempts
  BY Zenon, SetupAssumption
<1>2. n \in Nat \ {0} /\ 1..n \subseteq Attempts
  BY Zenon, <1>1
<1> QED
  BY <1>2

LEMMA RunInitially == Init => RunInv
<1> SUFFICES ASSUME Init PROVE RunInv
  OBVIOUS
<1>1. opts.tries \in Attempts
  <2>1. opts \in Options
    BY SetupAssumption DEF Init
  <2> QED
    BY <2>1 DEF Options
<1>2. opts.tries \in Nat /\ opts.tries > 0 /\ \A m \in 1..opts.tries : m \in Attempts
  BY <1>1, AttemptsAre
<1>3. 1 \in Attempts
  BY <1>2
<1>4. wiz.run = 1
  BY DEF Init, NewRun
<1> QED
  BY <1>3, <1>4 DEF Init, Browser!LoginInit, RunInv, Refreshables

LEMMA RunStep == PromptInv /\ ResultInv /\ RunInv /\ [Next]_vars => RunInv'
<1> SUFFICES ASSUME PromptInv, ResultInv, RunInv, [Next]_vars PROVE RunInv'
  OBVIOUS
<1> USE DEF RunInv
<1>1. Shape
  BY DEF PromptInv
<1>2. ASSUME Stays, UNCHANGED login PROVE RunInv'
  BY <1>2 DEF Stays, Refreshables
<1>3. CASE Question
  BY <1>1, <1>2, <1>3, QuestionStep DEF loginVars
<1>4. CASE StartBrowser
  BY <1>4 DEF StartBrowser, Browser!Start, Refreshables
<1>5. CASE DrainPaste \/ Drained
  BY <1>1, <1>2, <1>5
  DEF DrainPaste, Drained, Browser!Drain, loginVars, LoginReturned, WithSession, Fail, Goto, Stays,
      Shape
<1>6. CASE Wizard /\ ~(StartBrowser \/ DrainPaste \/ Drained)
  BY <1>1, <1>2, <1>6, WizardStep DEF Wizard, loginVars
<1>7. CASE DeviceStep \/ UNCHANGED vars
  BY <1>7 DEF DeviceStep, vars, loginVars, Refreshables
<1>8. CASE RunAgain
  <2>1. /\ wiz' = NewRun(wiz.run + 1) /\ wiz.run < opts.tries /\ UNCHANGED login
        /\ opts.tries \in Attempts
    BY <1>8 DEF RunAgain, loginVars, ResultInv, Options
  <2>2. wiz'.run = wiz.run + 1
    BY <2>1 DEF NewRun
  <2>3. wiz.run \in Nat /\ opts.tries \in Nat /\ \A m \in 1..opts.tries : m \in Attempts
    BY <2>1, AttemptsAre
  <2>4. wiz.run + 1 \in Attempts
    BY <2>1, <2>3
  <2> QED
    BY <2>1, <2>2, <2>4 DEF Refreshables
<1>9. ASSUME NEW a \in Attempts, \/ LoginStep(a) \/ Timeout(a) \/ Disturbed(a)
                                 \/ OpenerStep(a) \/ InputStep(a) \/ PasteLine(a)
      PROVE  RunInv'
  <2>1. UNCHANGED wiz
    BY <1>9 DEF LoginStep, Timeout, Disturbed, OpenerStep, InputStep, PasteLine
  <2> QED
    BY <1>9, <2>1, LoginRefreshables
<1> QED
  BY <1>3, <1>4, <1>5, <1>6, <1>7, <1>8, <1>9 DEF Next

-----------------------------------------------------------------------------
(* Every step keeps what the result will be consistent by. *)
LEMMA StillKeeps ==
    ASSUME ResultInv, UNCHANGED <<wiz, saved, opts>>
    PROVE  ResultInv'
<1>1. /\ p' = p /\ (ChatGPT' <=> ChatGPT) /\ Offered' = Offered /\ (LoggingIn' <=> LoggingIn)
      /\ (Success' <=> Success) /\ (Catalogued' <=> Catalogued)
      /\ (ChoosingFallbacks' <=> ChoosingFallbacks) /\ (Credentialed' <=> Credentialed)
  BY DEF p, ChatGPT, Offered, Where, LoggingIn, Success, Catalogued, ChoosingFallbacks,
         Credentialed
<1>2. /\ (Valid(p, wiz.session)' <=> Valid(p, wiz.session))
      /\ (InStore(wiz.session)' <=> InStore(wiz.session))
      /\ (Untaken(wiz.fallbacks, {wiz.model})' <=> Untaken(wiz.fallbacks, {wiz.model}))
      /\ (Distinct(wiz.fallbacks)' <=> Distinct(wiz.fallbacks))
      /\ (Untaken(wiz.matches, Taken(wiz.model, wiz.fallbacks))'
             <=> Untaken(wiz.matches, Taken(wiz.model, wiz.fallbacks)))
  BY DEF Valid, InStore, p, Untaken, Distinct, Taken, Key, Names
<1>3. WizShape' /\ Place'
  BY <1>1 DEF ResultInv, WizShape, Place
<1>4. Held'
  BY <1>1, <1>2 DEF ResultInv, Held
<1>5. Listings' /\ ChosenOnce'
  BY <1>1, <1>2 DEF ResultInv, Listings, ChosenOnce
<1> QED
  BY <1>3, <1>4, <1>5 DEF ResultInv

LEMMA RunAgainKeeps == ASSUME ResultInv, RunAgain PROVE ResultInv'
<1>1. wiz' = NewRun(wiz.run + 1) /\ UNCHANGED <<saved, opts>>
  BY DEF RunAgain
<1>2. wiz'.pc = "start" /\ wiz'.kind = "none" /\ wiz'.ok = FALSE /\ wiz'.fallbacks = <<>> /\ WizShape'
  BY <1>1 DEF NewRun, WizShape
<1> QED
  BY <1>1, <1>2
  DEF ResultInv, Place, Held, Listings, ChosenOnce, LoggingIn, Success, Catalogued,
      ChoosingFallbacks, Credentialed

LEMMA ResultInitially == Init => ResultInv
<1> SUFFICES ASSUME Init PROVE ResultInv
  OBVIOUS
<1>1. wiz.pc = "start" /\ wiz.kind = "none" /\ wiz.ok = FALSE /\ wiz.fallbacks = <<>> /\ WizShape
  BY DEF Init, NewRun, WizShape
<1>2. opts \in Options /\ saved \in [{"openai", "grok"} -> Session \cup {None}]
  BY SetupAssumption DEF Init
<1> QED
  BY <1>1, <1>2
  DEF ResultInv, Place, Held, Listings, ChosenOnce, LoggingIn, Success, Catalogued,
      ChoosingFallbacks, Credentialed

LEMMA ResultStep == RunInv /\ ResultInv /\ [Next]_vars => ResultInv'
<1> SUFFICES ASSUME RunInv, ResultInv, [Next]_vars PROVE ResultInv'
  OBVIOUS
<1>1. CASE Question
  BY <1>1, ChooseProviderKeeps, EndpointKeeps, APIKeyKeeps, ChooseMethodKeeps, PasteTokenKeeps,
     UseVendorCLIKeeps, KeepExistingOAuthKeeps, EnterOnlyModelKeeps, EnterModelIDKeeps,
     SearchModelKeeps, PickMatchKeeps, PickRecommendedKeeps, SearchFallbackKeeps,
     PickFallbacksKeeps, MoreFallbacksKeeps
  DEF Question
<1>2. CASE DrainPaste
  <2>1. wiz.pc = "browser" /\ UNCHANGED <<saved, opts>>
        /\ (wiz' = [wiz EXCEPT !.pc = "drain"] \/ LoginReturned)
    BY <1>2 DEF DrainPaste, At, Goto
  <2>2. ASSUME wiz' = [wiz EXCEPT !.pc = "drain"] PROVE ResultInv'
    <3>1. /\ wiz'.pc = "drain" /\ wiz'.provider = wiz.provider /\ wiz'.kind = wiz.kind
          /\ wiz'.ok = wiz.ok /\ wiz'.fallbacks = wiz.fallbacks /\ WizShape'
      BY <2>2 DEF ResultInv, WizShape
    <3> QED
      BY <2>1, <3>1
      DEF ResultInv, Place, Held, Listings, ChosenOnce, LoggingIn, Success, Catalogued,
          ChoosingFallbacks, Credentialed, p
  <2> QED
    BY <2>1, <2>2, LoginReturnedKeeps DEF RunInv
<1>3. CASE Drained
  BY <1>3, LoginReturnedKeeps DEF Drained, At, RunInv
<1>4. CASE StartBrowser \/ StartDevice \/ DeviceStep \/ UNCHANGED vars
  BY <1>4, StillKeeps DEF StartBrowser, StartDevice, DeviceStep, vars
<1>5. CASE Begin \/ DeviceReturns \/ SaveOAuthCredential \/ ListModels \/ SkipListing
  BY <1>5, BeginKeeps, DeviceReturnsKeeps, SaveKeeps, ListKeeps
<1>6. CASE RunAgain
  BY <1>6, RunAgainKeeps
<1>7. ASSUME NEW a \in Attempts, \/ LoginStep(a) \/ Timeout(a) \/ Disturbed(a)
                                 \/ OpenerStep(a) \/ InputStep(a) \/ PasteLine(a)
      PROVE  ResultInv'
  BY <1>7, StillKeeps DEF LoginStep, Timeout, Disturbed, OpenerStep, InputStep, PasteLine
<1> QED
  BY <1>1, <1>2, <1>3, <1>4, <1>5, <1>6, <1>7 DEF Next, Wizard

(* A run that succeeds returns a session that was valid when obtained and   *)
(* that the store holds or the run's own listing has superseded there (the  *)
(* result was copied before it), for a ChatGPT session a model that was     *)
(* listed for it, and fallbacks that differ from the model and from each    *)
(* other (ConfigureLLM, appendPicks), whatever the logins, the listings and *)
(* the user's answers are.                                                  *)
THEOREM ResultConsistentHolds == Spec => []ResultConsistent
<1>1. ResultInv => ResultConsistent
  <2> SUFFICES ASSUME ResultInv, Success PROVE ResultConsistent
    BY DEF ResultConsistent, Success, At
  <2>1. \A i \in DOMAIN wiz.fallbacks : Key(wiz.fallbacks[i]) # Key(wiz.model)
    BY DEF ResultInv, ChosenOnce, Untaken, Names, Key
  <2>2. \A i, j \in DOMAIN wiz.fallbacks : i # j => Key(wiz.fallbacks[i]) # Key(wiz.fallbacks[j])
    BY DEF ResultInv, ChosenOnce, Distinct
  <2>3. wiz.model # None
    BY DEF ResultInv, ChosenOnce
  <2>4. wiz.kind = "oauth" =>
            /\ Valid(p, wiz.session)
            /\ wiz.kept \/ InStore(wiz.session)
    BY DEF ResultInv, Held, Credentialed
  <2>5. ChatGPT /\ wiz.how = "listed" => wiz.catalog.live
    BY DEF ResultInv, Listings
  <2> QED
    BY <2>1, <2>2, <2>3, <2>4, <2>5 DEF ResultConsistent
<1> QED
  BY <1>1, PromptInitially, PromptStep, RunInitially, RunStep, ResultInitially, ResultStep, PTL
  DEF Spec
-----------------------------------------------------------------------------
(* Types. The flow of a login and its goroutines hand each other results of *)
(* one kind, and whoever asks leaves the prompter as the next one needs it. *)
Codes  == {Browser!Code(a) : a \in Attempts}
Places == Ports \cup ({"own"} \X Attempts) \cup {None}

LoginRecord ==
    [pc : {"idle", "listen", "wait", "exchange", "close", "granted", "failed"},
     openai : BOOLEAN, port : Places, slot : Codes \cup {Browser!Error, None},
     serve : BOOLEAN, late : BOOLEAN, code : Codes \cup {None}, ok : BOOLEAN,
     refreshable : BOOLEAN]

PasteRecord ==
    [opener : {"none", "ready", "showing", "opened"},
     input : {"none", "waiting", "reading", "offering", "gone"},
     offer : Codes \cup {Browser!Error, None}, shown : BOOLEAN, done : BOOLEAN,
     pending : {"none", "open", "closed"}]

LEMMA LoginTypes ==
    /\ Browser!LoginType <=> login \in [Attempts -> LoginRecord]
    /\ Browser!PasteType <=> paste \in [Attempts -> PasteRecord]
    /\ Browser!LoginType' <=> login' \in [Attempts -> LoginRecord]
    /\ Browser!PasteType' <=> paste' \in [Attempts -> PasteRecord]
BY DEF Browser!LoginType, Browser!PasteType, LoginRecord, PasteRecord, Codes, Places

(* One login takes another record of the kind. *)
LEMMA LoginBecomes ==
    ASSUME login \in [Attempts -> LoginRecord], NEW a \in Attempts, NEW l \in LoginRecord,
           login' = [login EXCEPT ![a] = l]
    PROVE  login' \in [Attempts -> LoginRecord]
OBVIOUS

LEMMA PasteBecomes ==
    ASSUME paste \in [Attempts -> PasteRecord], NEW a \in Attempts, NEW l \in PasteRecord,
           paste' = [paste EXCEPT ![a] = l]
    PROVE  paste' \in [Attempts -> PasteRecord]
OBVIOUS

(* What a login call and its environment make of its record. *)
LEMMA LoginTyped ==
    ASSUME login \in [Attempts -> LoginRecord], NEW a \in Attempts,
           LoginStep(a) \/ Timeout(a) \/ Disturbed(a)
    PROVE  login' \in [Attempts -> LoginRecord]
<1>0. PICK l \in LoginRecord : l = login[a]
  OBVIOUS
<1>1. CASE Browser!Listens(a)
  <2>1. PICK port \in Places :
            login' = [login EXCEPT ![a] = [l EXCEPT !.pc = "wait", !.port = port]]
    BY <1>0, <1>1 DEF Browser!Listens, Places
  <2>2. [l EXCEPT !.pc = "wait", !.port = port] \in LoginRecord
    BY ONLY <1>0, <2>1 DEF LoginRecord
  <2> QED
    BY <2>1, <2>2, LoginBecomes
<1>2. CASE Browser!ListenFails(a)
  <2>1. login' = [login EXCEPT ![a] = [l EXCEPT !.pc = "failed"]]
    BY <1>0, <1>2 DEF Browser!ListenFails
  <2>2. [l EXCEPT !.pc = "failed"] \in LoginRecord
    BY ONLY <1>0 DEF LoginRecord
  <2> QED
    BY <2>1, <2>2, LoginBecomes
<1>3. CASE Browser!EndpointUnusable(a)
  <2>1. PICK port \in Places :
            login' = [login EXCEPT ![a] = [l EXCEPT !.pc = "close", !.port = port]]
    BY <1>0, <1>3 DEF Browser!EndpointUnusable, Places
  <2>2. [l EXCEPT !.pc = "close", !.port = port] \in LoginRecord
    BY ONLY <1>0, <2>1 DEF LoginRecord
  <2> QED
    BY <2>1, <2>2, LoginBecomes
<1>4. CASE Browser!TakeResult(a)
  <2>1. PICK pc \in {"close", "exchange"}, code \in Codes \cup {None} :
            login' = [login EXCEPT ![a] = [l EXCEPT !.pc = pc, !.code = code, !.slot = None]]
    <3>1. l.slot \in Codes \cup {Browser!Error, None}
      BY ONLY <1>0 DEF LoginRecord
    <3> QED
      BY <1>0, <1>4, <3>1 DEF Browser!TakeResult
  <2>2. [l EXCEPT !.pc = pc, !.code = code, !.slot = None] \in LoginRecord
    BY ONLY <1>0, <2>1 DEF LoginRecord
  <2> QED
    BY <2>1, <2>2, LoginBecomes
<1>5. CASE Browser!GiveUp(a) \/ Browser!ExchangeFails(a)
  <2>1. login' = [login EXCEPT ![a] = [l EXCEPT !.pc = "close"]]
    BY <1>0, <1>5 DEF Browser!GiveUp, Browser!ExchangeFails, Browser!Return
  <2>2. [l EXCEPT !.pc = "close"] \in LoginRecord
    BY ONLY <1>0 DEF LoginRecord
  <2> QED
    BY <2>1, <2>2, LoginBecomes
<1>6. CASE Browser!Redeem(a)
  <2>1. PICK refreshable \in BOOLEAN :
            login' = [login EXCEPT ![a] =
                         [l EXCEPT !.pc = "close", !.ok = TRUE, !.refreshable = refreshable]]
    BY <1>0, <1>6 DEF Browser!Redeem
  <2>2. [l EXCEPT !.pc = "close", !.ok = TRUE, !.refreshable = refreshable] \in LoginRecord
    BY ONLY <1>0, <2>1 DEF LoginRecord
  <2> QED
    BY <2>1, <2>2, LoginBecomes
<1>7. CASE Browser!Shutdown(a)
  <2>1. PICK pc \in {"granted", "failed"} :
            login' = [login EXCEPT ![a] = [l EXCEPT !.pc = pc, !.ok = FALSE, !.slot = None,
                                             !.code = None, !.serve = FALSE, !.late = FALSE]]
    BY <1>0, <1>7 DEF Browser!Shutdown
  <2>2. [l EXCEPT !.pc = pc, !.ok = FALSE, !.slot = None, !.code = None, !.serve = FALSE,
                  !.late = FALSE] \in LoginRecord
    BY ONLY <1>0, <2>1 DEF LoginRecord
  <2> QED
    BY <2>1, <2>2, LoginBecomes
<1>8. CASE Browser!Expire(a)
  <2>1. login' = [login EXCEPT ![a] = [l EXCEPT !.late = TRUE]]
    BY <1>0, <1>8 DEF Browser!Expire
  <2>2. [l EXCEPT !.late = TRUE] \in LoginRecord
    BY ONLY <1>0 DEF LoginRecord
  <2> QED
    BY <2>1, <2>2, LoginBecomes
<1>9. CASE Browser!ServeFails(a)
  <2>1. login' = [login EXCEPT ![a] = [l EXCEPT !.serve = TRUE]]
    BY <1>0, <1>9 DEF Browser!ServeFails
  <2>2. [l EXCEPT !.serve = TRUE] \in LoginRecord
    BY ONLY <1>0 DEF LoginRecord
  <2> QED
    BY <2>1, <2>2, LoginBecomes
<1>10. ASSUME NEW b \in Attempts, Browser!Callback(a, b)
       PROVE  login' \in [Attempts -> LoginRecord]
  <2>1. PICK slot \in Codes \cup {Browser!Error, None} :
            login' = [login EXCEPT ![a] = [l EXCEPT !.slot = slot]]
    <3>1. l.slot \in Codes \cup {Browser!Error, None}
      BY ONLY <1>0 DEF LoginRecord
    <3>2. Browser!Code(b) \in Codes
      BY DEF Codes
    <3> QED
      BY <1>0, <1>10, <3>1, <3>2 DEF Browser!Callback, Browser!Offered
  <2>2. [l EXCEPT !.slot = slot] \in LoginRecord
    BY ONLY <1>0, <2>1 DEF LoginRecord
  <2> QED
    BY <2>1, <2>2, LoginBecomes
<1> QED
  BY <1>1, <1>2, <1>3, <1>4, <1>5, <1>6, <1>7, <1>8, <1>9, <1>10
  DEF LoginStep, Timeout, Disturbed

(* The prompter after a line, whatever the question, and after a note.      *)
LEMMA PromptedTyped ==
    ASSUME Prompt!PrompterType, NEW texts, NEW line \in Prompt!ReadLine(texts),
           NEW lost \in Prompt!Printed, NEW flushed, Prompt!Prompted(line, lost, flushed)
    PROVE  Prompt!PrompterType'
<1>1. line.end \in BOOLEAN
  <2>1. prompter.piped \in BOOLEAN
    BY DEF Prompt!PrompterType
  <2>2. \A l \in [text : texts, end : {FALSE, prompter.piped}] : l.end \in {FALSE, prompter.piped}
    OBVIOUS
  <2>3. line = [text |-> Blank, end |-> TRUE] \/ line = [text |-> Broken, end |-> FALSE]
        \/ line \in [text : texts, end : {FALSE, prompter.piped}]
    BY DEF Prompt!ReadLine, Prompt!Line
  <2>4. CASE line = [text |-> Blank, end |-> TRUE] \/ line = [text |-> Broken, end |-> FALSE]
    <3>1. line.end = TRUE \/ line.end = FALSE
      <4>1. line = [text |-> Blank, end |-> TRUE] => line.end = TRUE
        OBVIOUS
      <4>2. line = [text |-> Broken, end |-> FALSE] => line.end = FALSE
        OBVIOUS
      <4> QED
        BY <2>4, <4>1, <4>2
    <3> QED
      BY <3>1
  <2>5. CASE line \in [text : texts, end : {FALSE, prompter.piped}]
    BY ONLY <2>1, <2>2, <2>5
  <2> QED
    BY <2>3, <2>4, <2>5
<1>2. PICK exhausted \in BOOLEAN, writeErr \in BOOLEAN :
          prompter' = [prompter EXCEPT !.exhausted = exhausted, !.writeErr = writeErr]
  <2>1. (prompter.exhausted \/ line.end) \in BOOLEAN /\ (lost /\ ~flushed) \in BOOLEAN
    OBVIOUS
  <2> QED
    BY <2>1, Zenon DEF Prompt!Prompted
<1> QED
  BY ONLY Prompt!PrompterType, <1>2 DEF Prompt!PrompterType

LEMMA NotifyTyped ==
    ASSUME Prompt!PrompterType, Prompt!Notify
    PROVE  Prompt!PrompterType'
BY DEF Prompt!Notify, Prompt!Printed, Prompt!PrompterType

(* The prompter of the logins is the wizard's. *)
LEMMA SamePrompter ==
    /\ Browser!Prompt!Printed = Prompt!Printed
    /\ Browser!Prompt!Notify <=> Prompt!Notify
    /\ \A texts : Browser!Prompt!ReadLine(texts) = Prompt!ReadLine(texts)
    /\ \A line, lost, flushed :
          Browser!Prompt!Prompted(line, lost, flushed) <=> Prompt!Prompted(line, lost, flushed)
BY DEF Browser!Prompt!Printed, Prompt!Printed, Browser!Prompt!Notify, Prompt!Notify,
       Browser!Prompt!ReadLine, Prompt!ReadLine, Browser!Prompt!Line, Prompt!Line,
       Browser!Prompt!Prompted, Prompt!Prompted

(* What the goroutines of a login make of its prompt. *)
LEMMA PasteTyped ==
    ASSUME login \in [Attempts -> LoginRecord], paste \in [Attempts -> PasteRecord],
           Prompt!PrompterType, NEW a \in Attempts,
           OpenerStep(a) \/ InputStep(a) \/ PasteLine(a)
    PROVE  /\ login' \in [Attempts -> LoginRecord] /\ paste' \in [Attempts -> PasteRecord]
           /\ Prompt!PrompterType'
<1>0. PICK l \in PasteRecord : l = paste[a]
  OBVIOUS
<1>a. ASSUME UNCHANGED prompter PROVE Prompt!PrompterType'
  BY <1>a DEF Prompt!PrompterType
<1>1. CASE Browser!Show(a)
  <2>1. UNCHANGED <<login, prompter>> /\ \E opener \in {"opened", "showing"} :
            paste' = [paste EXCEPT ![a] = [l EXCEPT !.opener = opener]]
    BY <1>0, <1>1 DEF Browser!Show
  <2>2. \A opener \in {"opened", "showing"} : [l EXCEPT !.opener = opener] \in PasteRecord
    BY ONLY <1>0 DEF PasteRecord
  <2> QED
    BY <1>a, <2>1, <2>2, PasteBecomes
<1>2. CASE Browser!Shown(a)
  <2>1. /\ UNCHANGED login /\ Prompt!Notify
        /\ paste' = [paste EXCEPT ![a] = [l EXCEPT !.opener = "opened", !.shown = TRUE]]
    BY <1>0, <1>2, SamePrompter DEF Browser!Shown
  <2>2. [l EXCEPT !.opener = "opened", !.shown = TRUE] \in PasteRecord
    BY ONLY <1>0 DEF PasteRecord
  <2> QED
    BY <2>1, <2>2, PasteBecomes, NotifyTyped
<1>3. CASE Browser!InputCancelled(a)
  <2>1. /\ UNCHANGED <<login, prompter>>
        /\ paste' = [paste EXCEPT ![a] = [l EXCEPT !.input = "offering", !.offer = Browser!Error]]
    BY <1>0, <1>3 DEF Browser!InputCancelled
  <2>2. [l EXCEPT !.input = "offering", !.offer = Browser!Error] \in PasteRecord
    BY ONLY <1>0 DEF PasteRecord
  <2> QED
    BY <1>a, <2>1, <2>2, PasteBecomes
<1>4. CASE Browser!InputReads(a)
  <2>1. /\ UNCHANGED <<login, prompter>>
        /\ paste' = [paste EXCEPT ![a] = [l EXCEPT !.input = "reading", !.pending = "open"]]
    BY <1>0, <1>4 DEF Browser!InputReads
  <2>2. [l EXCEPT !.input = "reading", !.pending = "open"] \in PasteRecord
    BY ONLY <1>0 DEF PasteRecord
  <2> QED
    BY <1>a, <2>1, <2>2, PasteBecomes
<1>5. CASE Browser!InputLine(a)
  <2>1. PICK line \in Browser!Prompt!ReadLine(Browser!Pasted), lost \in Browser!Prompt!Printed :
            /\ Browser!Prompt!Prompted(line, lost, TRUE)
            /\ LET answer == Browser!Prompt!Input(line, lost, Blank) IN
               paste' = [paste EXCEPT ![a].input = "offering", ![a].pending = "closed",
                         ![a].offer = IF answer.is = "value"
                                      THEN Browser!ParseInput(a, answer.value) ELSE Browser!Error]
    BY <1>5, Zenon DEF Browser!InputLine
  <2>2. \A text : Browser!ParseInput(a, text) \in Codes \cup {Browser!Error, None}
    <3>1. ASSUME NEW text \in {"code", "url"} \X Attempts PROVE Browser!Code(text[2]) \in Codes
      BY DEF Codes
    <3> QED
      BY <3>1 DEF Browser!ParseInput
  <2>3. \E offer \in Codes \cup {Browser!Error, None} :
            paste' = [paste EXCEPT ![a] = [l EXCEPT !.input = "offering", !.pending = "closed",
                                             !.offer = offer]]
    BY <1>0, <2>1, <2>2
  <2>4. \A offer \in Codes \cup {Browser!Error, None} :
            [l EXCEPT !.input = "offering", !.pending = "closed", !.offer = offer] \in PasteRecord
    BY ONLY <1>0 DEF PasteRecord
  <2>5. UNCHANGED login
    BY <1>5 DEF Browser!InputLine
  <2>6. Prompt!PrompterType'
    <3>1. /\ line \in Prompt!ReadLine(Browser!Pasted) /\ lost \in Prompt!Printed
          /\ Prompt!Prompted(line, lost, TRUE)
      BY <2>1, SamePrompter
    <3> QED
      BY <3>1, PromptedTyped
  <2> QED
    BY <2>3, <2>4, <2>5, <2>6, PasteBecomes
<1>6. CASE Browser!InputOffers(a)
  <2>1. PICK m \in LoginRecord : m = login[a]
    OBVIOUS
  <2>2. /\ UNCHANGED prompter
        /\ UNCHANGED login \/ login' = [login EXCEPT ![a] = [m EXCEPT !.slot = l.offer]]
        /\ paste' = [paste EXCEPT ![a] = [l EXCEPT !.input = "gone", !.offer = None]]
    BY <1>0, <1>6, <2>1 DEF Browser!InputOffers
  <2>3. [l EXCEPT !.input = "gone", !.offer = None] \in PasteRecord
        /\ l.offer \in Codes \cup {Browser!Error, None}
    BY ONLY <1>0 DEF PasteRecord
  <2>4. [m EXCEPT !.slot = l.offer] \in LoginRecord
    BY ONLY <2>1, <2>3 DEF LoginRecord
  <2> QED
    BY <1>a, <2>2, <2>3, <2>4, PasteBecomes, LoginBecomes
<1> QED
  BY <1>1, <1>2, <1>3, <1>4, <1>5, <1>6 DEF OpenerStep, InputStep, PasteLine

(* A device login. *)
DeviceRecord ==
    [pc : {"idle", "request", "poll", "asked", "sleep", "exchange", "granted", "failed"},
     openai : BOOLEAN, left : Nat, interval : Nat, told : Nat, since : Nat, polls : {0, 1},
     run : Nat]

LEMMA DeviceTyped ==
    ASSUME device \in DeviceRecord, DeviceInv, Device!DeviceNext
    PROVE  device' \in DeviceRecord
<1>0. PICK d \in DeviceRecord : d = device
  OBVIOUS
<1>a. ASSUME NEW pc \in {"poll", "asked", "sleep", "exchange", "granted", "failed"}, Device!End(pc)
      PROVE  device' \in DeviceRecord
  <2>1. device' = [d EXCEPT !.pc = pc]
    BY <1>0, <1>a DEF Device!End
  <2> QED
    BY ONLY <1>0, <2>1, <1>a DEF DeviceRecord
<1>1. CASE Device!CodeRefused \/ Device!Refused \/ Device!Authorized \/ Device!ExchangeEnds
  BY <1>1, <1>a DEF Device!CodeRefused, Device!Refused, Device!Authorized, Device!ExchangeEnds
<1>2. CASE Device!CodeShown
  <2>1. PICK expiry \in Expiries, asked \in Intervals :
            device' = [device EXCEPT
                !.pc = IF device.openai THEN "poll" ELSE "sleep",
                !.left = expiry,
                !.interval = Device!Interval(asked, ~device.openai),
                !.told = IF asked = 0 THEN DefaultInterval ELSE asked]
    BY <1>2 DEF Device!CodeShown
  <2>2. /\ expiry \in Nat /\ Device!Interval(asked, ~device.openai) \in Nat
        /\ (IF asked = 0 THEN DefaultInterval ELSE asked) \in Nat
    BY DeviceAssumptions DEF Device!Interval, Device!DeviceAssumption
  <2>3. PICK pc \in {"poll", "sleep"}, interval \in Nat, told \in Nat :
            device' = [d EXCEPT !.pc = pc, !.left = expiry, !.interval = interval, !.told = told]
    BY <1>0, <2>1, <2>2
  <2> QED
    BY ONLY <1>0, <2>2, <2>3 DEF DeviceRecord
<1>3. CASE Device!Sleep
  <2>1. ASSUME NEW left \in Nat, NEW since \in Nat,
               device' = [d EXCEPT !.pc = "poll", !.left = left, !.since = since]
        PROVE  device' \in DeviceRecord
    BY ONLY <1>0, <2>1 DEF DeviceRecord
  <2>2. \/ Device!End("failed")
        \/ /\ device.left > device.interval
           /\ device' = [d EXCEPT !.pc = "poll", !.left = @ - device.interval,
                                  !.since = @ + device.interval]
    <3>1. CASE device.interval > device.left
      BY <1>3, <3>1 DEF Device!Sleep, DeviceInv
    <3>2. CASE ~(device.interval > device.left)
      BY <1>0, <1>3, <3>2 DEF Device!Sleep
    <3> QED
      BY <3>1, <3>2
  <2>3. device.left > device.interval =>
            d.left - device.interval \in Nat /\ d.since + device.interval \in Nat
    BY <1>0 DEF DeviceInv
  <2> QED
    BY <1>a, <2>1, <2>2, <2>3
<1>4. CASE Device!Poll
  <2>1. Device!End("failed") \/ device' = [d EXCEPT !.pc = "asked", !.since = 0, !.polls = 1]
    BY <1>0, <1>4 DEF Device!Poll
  <2>2. [d EXCEPT !.pc = "asked", !.since = 0, !.polls = 1] \in DeviceRecord
    BY ONLY <1>0 DEF DeviceRecord
  <2> QED
    BY <1>a, <2>1, <2>2
<1>5. CASE Device!Pending
  <2>1. PICK delay \in 0..device.left : Device!Answered("sleep", delay)
    BY <1>5 DEF Device!Pending
  <2>2. PICK left \in Nat, since \in Nat :
            device' = [d EXCEPT !.pc = "sleep", !.left = left, !.since = since]
    <3>1. /\ (IF delay > d.left THEN 0 ELSE d.left - delay) \in Nat
          /\ d.since + delay \in Nat
      BY <1>0 DEF DeviceInv
    <3> QED
      BY <1>0, <2>1, <3>1 DEF Device!Answered
  <2> QED
    BY ONLY <1>0, <2>2 DEF DeviceRecord
<1>6. CASE Device!SlowedDown
  <2>1. PICK delay \in 0..device.left :
            device' = [device EXCEPT !.pc = "sleep", !.left = @ - delay, !.since = @ + delay,
                                     !.interval = @ + SlowDown, !.told = @ + SlowDown]
    BY <1>6 DEF Device!SlowedDown
  <2>2. /\ d.left - delay \in Nat /\ d.since + delay \in Nat
        /\ d.interval + SlowDown \in Nat /\ d.told + SlowDown \in Nat
    BY <1>0, DeviceAssumptions DEF DeviceInv, Device!DeviceAssumption
  <2>3. PICK left \in Nat, since \in Nat, interval \in Nat, told \in Nat :
            device' = [d EXCEPT !.pc = "sleep", !.left = left, !.since = since,
                                !.interval = interval, !.told = told]
    BY <1>0, <2>1, <2>2
  <2> QED
    BY ONLY <1>0, <2>3 DEF DeviceRecord
<1> QED
  BY <1>1, <1>2, <1>3, <1>4, <1>5, <1>6 DEF Device!DeviceNext

(* The wizard goes on to one of its places. *)
Stops == Questions \cup {"start", "browser", "drain", "device", "save", "discover", "returned"}

Typical ==
    /\ wiz'.pc \in Stops /\ wiz'.run \in Attempts /\ wiz'.ok \in BOOLEAN
    /\ wiz'.patience \in 0..opts.patience /\ wiz'.kind \in {"none", "api_key", "oauth", "vendor_cli"}
    /\ wiz'.session \in Session \cup {None}

(* The ways to go on. *)
LEMMA WaysTyped ==
    ASSUME WizShape, WizType, opts \in Options
    PROVE  /\ Fail => Typical
           /\ \A pc \in Stops : Goto(pc) \/ Repeat(pc) => Typical
           /\ \A key : WithKey(key) => Typical
           /\ \A session \in Session \cup {None}, pc \in Stops :
                 WithSession(session, pc) => Typical
           /\ \A fallbacks : Return(fallbacks) => Typical
           /\ \A catalog : Discovered(catalog) => Typical
<1>1. opts.patience \in Nat /\ wiz.patience \in 0..opts.patience
  BY DEF Options, WizType
<1>2. wiz.patience > 0 => wiz.patience - 1 \in 0..opts.patience
  BY <1>1
<1> HIDE DEF Options
<1>3. Fail => Typical
  BY DEF Fail, WizShape, WizType, Typical, Stops
<1>4. ASSUME NEW pc \in Stops, Goto(pc) PROVE Typical
  BY <1>4 DEF Goto, WizShape, WizType, Typical
<1>5. ASSUME NEW pc \in Stops, Repeat(pc) PROVE Typical
  BY <1>2, <1>4, <1>5 DEF Repeat, WizShape, WizType, Typical
<1>6. ASSUME NEW key, WithKey(key) PROVE Typical
  BY <1>6 DEF WithKey, WizShape, WizType, Typical, Stops
<1>7. ASSUME NEW session \in Session \cup {None}, NEW pc \in Stops, WithSession(session, pc)
      PROVE  Typical
  BY <1>7 DEF WithSession, WizShape, WizType, Typical
<1>8. ASSUME NEW fallbacks, Return(fallbacks) PROVE Typical
  BY <1>8 DEF Return, WizShape, WizType, Typical, Stops
<1>9. ASSUME NEW catalog, Discovered(catalog) PROVE Typical
  BY <1>9 DEF Discovered, WizShape, WizType, Typical, Stops, Questions
<1> QED
  BY <1>3, <1>4, <1>5, <1>6, <1>7, <1>8, <1>9

(* A choice that ends the run or leads to a fallback round.                 *)
LEMMA ChosenTyped ==
    ASSUME WizShape, WizType, opts \in Options
    PROVE  /\ \A model, how : Chosen(model, how) => Typical
           /\ \A model, chosen :
                 wiz.patience > 0 /\ FallbackRound([wiz EXCEPT !.patience = @ - 1], model, chosen)
                 => Typical
<1>1. opts.patience \in Nat /\ wiz.patience \in 0..opts.patience
  BY DEF Options, WizType
<1>2. wiz.patience > 0 => wiz.patience - 1 \in 0..opts.patience
  BY <1>1
<1> HIDE DEF Options
<1>3. ASSUME NEW run, NEW model, NEW chosen, FallbackRound(run, model, chosen),
             {"pc", "run", "ok", "model", "fallbacks", "patience", "kind", "session"}
                 \subseteq DOMAIN run,
             run.run = wiz.run, run.patience \in 0..opts.patience, run.kind = wiz.kind,
             run.session = wiz.session
      PROVE  Typical
  <2>1. PICK none \in BOOLEAN :
            wiz' = [run EXCEPT !.model = model, !.fallbacks = chosen,
                               !.pc = IF none THEN "returned" ELSE "fallbackSearch", !.ok = none]
    BY <1>3, Zenon DEF FallbackRound
  <2> QED
    BY <1>3, <2>1 DEF WizType, Typical, Stops, Questions
<1>4. ASSUME NEW model, NEW how, Chosen(model, how) PROVE Typical
  <2>1. CASE opts.fallbacks
    <3>1. PICK run : run = [wiz EXCEPT !.how = how]
      OBVIOUS
    <3>2. FallbackRound(run, model, <<>>)
      BY <1>4, <2>1, <3>1 DEF Chosen
    <3>3. DOMAIN run = DOMAIN wiz /\ run.run = wiz.run /\ run.patience = wiz.patience
          /\ run.kind = wiz.kind /\ run.session = wiz.session
      BY <3>1 DEF WizShape
    <3> QED
      BY <1>1, <1>3, <3>2, <3>3 DEF WizShape
  <2>2. CASE ~opts.fallbacks
    <3>1. wiz' = [wiz EXCEPT !.how = how, !.pc = "returned", !.ok = TRUE, !.model = model]
      BY <1>4, <2>2 DEF Chosen, WizShape
    <3> QED
      BY <3>1 DEF WizShape, WizType, Typical, Stops
  <2> QED
    BY <2>1, <2>2
<1>5. ASSUME NEW model, NEW chosen, wiz.patience > 0,
             FallbackRound([wiz EXCEPT !.patience = @ - 1], model, chosen)
      PROVE  Typical
  <2>1. PICK run : run = [wiz EXCEPT !.patience = @ - 1]
    OBVIOUS
  <2>2. FallbackRound(run, model, chosen)
    BY <1>5, <2>1
  <2>3. DOMAIN run = DOMAIN wiz /\ run.run = wiz.run /\ run.patience = wiz.patience - 1
        /\ run.kind = wiz.kind /\ run.session = wiz.session
    BY <2>1 DEF WizShape
  <2> QED
    BY <1>2, <1>3, <1>5, <2>2, <2>3 DEF WizShape
<1> QED
  BY <1>4, <1>5

(* A question reads a line, and goes on in one of these ways. *)
Asked == \E texts : \E line \in Prompt!ReadLine(texts), lost \in Prompt!Printed :
            \E flushed : Prompt!Prompted(line, lost, flushed)

LEMMA QuestionAsks ==
    ASSUME Question
    PROVE  Asked /\ UNCHANGED opts
<1> USE DEF Asked
<1>1. CASE ChooseProvider
  BY <1>1 DEF ChooseProvider, AskSelect, Ask
<1>2. CASE EnterBaseURL
  BY <1>2 DEF EnterBaseURL, AskInput, Ask
<1>3. CASE EndpointAgain
  BY <1>3 DEF EndpointAgain, AskConfirm, Ask
<1>4. CASE UseEnv
  BY <1>4 DEF UseEnv, AskConfirm, Ask
<1>5. CASE KeepKey
  BY <1>5 DEF KeepKey, AskConfirm, Ask
<1>6. CASE EnterKey
  BY <1>6 DEF EnterKey, AskSecret, Ask
<1>7. CASE ChooseMethod
  BY <1>7 DEF ChooseMethod, AskSelect, Ask
<1>8. CASE PasteToken
  BY <1>8 DEF PasteToken, AskSecret, Ask
<1>9. CASE UseVendorCLI
  BY <1>9 DEF UseVendorCLI, AskConfirm, Ask
<1>10. CASE KeepExistingOAuth
  BY <1>10 DEF KeepExistingOAuth, AskConfirm, Ask
<1>11. CASE EnterOnlyModel
  BY <1>11 DEF EnterOnlyModel, AskInput, Ask
<1>12. CASE EnterModelID
  BY <1>12 DEF EnterModelID, AskInput, Ask
<1>13. CASE SearchModel
  BY <1>13 DEF SearchModel, AskInput, Ask
<1>14. CASE PickMatch
  BY <1>14 DEF PickMatch, AskSelect, Ask
<1>15. CASE PickRecommended
  BY <1>15 DEF PickRecommended, AskSelect, Ask
<1>16. CASE SearchFallback
  BY <1>16 DEF SearchFallback, AskInput, Ask
<1>17. CASE PickFallbacks
  BY <1>17 DEF PickFallbacks, AskPicks, Ask
<1>18. CASE PickFallbackMatches
  BY <1>18 DEF PickFallbackMatches, AskPicks, Ask
<1>19. CASE MoreFallbacks
  BY <1>19 DEF MoreFallbacks, AskConfirm, Ask
<1> QED
  BY <1>1, <1>2, <1>3, <1>4, <1>5, <1>6, <1>7, <1>8, <1>9,
     <1>10, <1>11, <1>12, <1>13, <1>14, <1>15, <1>16, <1>17, <1>18, <1>19 DEF Question

LEMMA AskedTyped == ASSUME Prompt!PrompterType, Asked PROVE Prompt!PrompterType'
BY PromptedTyped DEF Asked

(* Where the questions about the provider and the credential lead. *)
LEMMA CredentialTyped ==
    ASSUME WizShape, WizType, opts \in Options,
           \/ ChooseProvider \/ EnterBaseURL \/ EndpointAgain \/ UseEnv \/ KeepKey \/ EnterKey
           \/ ChooseMethod \/ PasteToken \/ UseVendorCLI \/ KeepExistingOAuth
    PROVE  Typical
<1>1. /\ \A after, provider : APIKeyQuestion(after, provider) \in Stops
      /\ \A provider : CredentialQuestion(provider) \in Stops
  BY DEF APIKeyQuestion, CredentialQuestion, Stops, Questions
<1>2. {"baseURL", "endpointAgain", "secret", "token", "useVendor", "keepSession", "browser", "device",
       "save", "discover"} \subseteq Stops /\ wiz.pc \in Stops
  BY DEF Stops, Questions, WizType
<1>3. CASE ChooseProvider
  <2>1. \/ Fail \/ Repeat(wiz.pc)
        \/ \E provider : wiz' = [wiz EXCEPT !.provider = provider,
              !.pc = IF SupportsBaseURL(provider) THEN "baseURL" ELSE CredentialQuestion(provider)]
    BY <1>3 DEF ChooseProvider, AskSelect, Ask
  <2>2. ASSUME NEW provider, NEW pc \in Stops, wiz' = [wiz EXCEPT !.provider = provider, !.pc = pc]
        PROVE  Typical
    BY <2>2 DEF WizShape, WizType, Typical
  <2>3. ASSUME NEW provider, wiz' = [wiz EXCEPT !.provider = provider,
              !.pc = IF SupportsBaseURL(provider) THEN "baseURL" ELSE CredentialQuestion(provider)]
        PROVE  Typical
    <3>1. PICK pc \in Stops : wiz' = [wiz EXCEPT !.provider = provider, !.pc = pc]
      BY <1>1, <1>2, <2>3
    <3> QED
      BY <2>2, <3>1
  <2> QED
    BY <1>2, <2>1, <2>3, WaysTyped
<1>4. CASE EnterBaseURL
  <2>1. \/ Fail \/ Repeat(wiz.pc) \/ Goto("endpointAgain") \/ Goto(CredentialQuestion(p))
    BY <1>4 DEF EnterBaseURL, AskInput, Ask
  <2> QED
    BY <1>1, <1>2, <2>1, WaysTyped
<1>5. CASE EndpointAgain
  <2>1. \/ Fail \/ Repeat(wiz.pc) \/ Repeat("baseURL") \/ Goto(CredentialQuestion(p))
    BY <1>5 DEF EndpointAgain, AskConfirm, Ask
  <2> QED
    BY <1>1, <1>2, <2>1, WaysTyped
<1>6. CASE UseEnv
  <2>1. \/ Fail \/ Repeat(wiz.pc) \/ (\E key : WithKey(key)) \/ Goto(APIKeyQuestion(TRUE, p))
    BY <1>6 DEF UseEnv, AskConfirm, Ask
  <2> QED
    BY <1>1, <1>2, <2>1, WaysTyped
<1>7. CASE KeepKey
  <2>1. \/ Fail \/ Repeat(wiz.pc) \/ (\E key : WithKey(key)) \/ Goto("secret")
    BY <1>7 DEF KeepKey, AskConfirm, Ask
  <2> QED
    BY <1>2, <2>1, WaysTyped
<1>8. CASE EnterKey
  <2>1. \/ Fail \/ Repeat(wiz.pc) \/ (\E key : WithKey(key))
    BY <1>8 DEF EnterKey, AskSecret, Ask
  <2> QED
    BY <1>2, <2>1, WaysTyped
<1>9. CASE ChooseMethod
  <2>1. \/ Fail \/ Repeat(wiz.pc) \/ Goto(APIKeyQuestion(FALSE, p))
        \/ \E pc \in {"token", "useVendor", "keepSession", "browser", "device"} : Goto(pc)
    BY <1>9 DEF ChooseMethod, AskSelect, Ask
  <2> QED
    BY <1>1, <1>2, <2>1, WaysTyped
<1>10. CASE PasteToken
  <2>1. [refresh |-> FALSE, timeless |-> TRUE, gen |-> 0] \in Session
    BY DEF Session
  <2>2. \/ Fail \/ Repeat(wiz.pc) \/ (\E key : WithKey(key))
        \/ WithSession([refresh |-> FALSE, timeless |-> TRUE, gen |-> 0], "save")
    BY <1>10 DEF PasteToken, AskSecret, Ask
  <2> QED
    BY <1>2, <2>1, <2>2, WaysTyped
<1>11. CASE UseVendorCLI
  <2>1. \/ Fail \/ Repeat(wiz.pc) \/ wiz' = [wiz EXCEPT !.pc = "discover", !.kind = "vendor_cli"]
    BY <1>11 DEF UseVendorCLI, AskConfirm, Ask
  <2>2. ASSUME wiz' = [wiz EXCEPT !.pc = "discover", !.kind = "vendor_cli"] PROVE Typical
    BY <1>2, <2>2 DEF WizShape, WizType, Typical
  <2> QED
    BY <1>2, <2>1, <2>2, WaysTyped
<1>12. CASE KeepExistingOAuth
  <2>1. \/ Fail \/ Repeat(wiz.pc) \/ Goto("browser")
        \/ \E session \in {opts.existing.session} :
              wiz' = [wiz EXCEPT !.pc = "discover", !.kind = "oauth", !.kept = TRUE,
                                 !.session = session]
    BY <1>12 DEF KeepExistingOAuth, AskConfirm, Ask
  <2>2. opts.existing.session \in Session \cup {None}
    BY DEF Options, Existing
  <2>3. ASSUME NEW session \in Session \cup {None},
               wiz' = [wiz EXCEPT !.pc = "discover", !.kind = "oauth", !.kept = TRUE,
                                  !.session = session]
        PROVE  Typical
    BY <1>2, <2>3 DEF WizShape, WizType, Typical
  <2> QED
    BY <1>2, <2>1, <2>2, <2>3, WaysTyped
<1> QED
  BY <1>3, <1>4, <1>5, <1>6, <1>7, <1>8, <1>9, <1>10, <1>11, <1>12

(* Where those about the model and the fallbacks lead. *)
LEMMA ModelTyped ==
    ASSUME WizShape, WizType, opts \in Options,
           \/ EnterOnlyModel \/ EnterModelID \/ SearchModel \/ PickMatch \/ PickRecommended
           \/ SearchFallback \/ PickFallbacks \/ PickFallbackMatches \/ MoreFallbacks
    PROVE  Typical
<1>1. {"typeId", "search", "matches", "menu", "fallbackSearch", "fallbackMenu", "fallbackMatches",
       "moreFallbacks"} \subseteq Stops /\ wiz.pc \in Stops
  BY DEF Stops, Questions, WizType
<1>2. ASSUME NEW pc \in Stops, NEW found, wiz' = [wiz EXCEPT !.pc = pc, !.matches = found]
      PROVE  Typical
  BY <1>2 DEF WizShape, WizType, Typical
<1>3. CASE EnterOnlyModel
  <2>1. \/ Fail \/ Repeat(wiz.pc)
        \/ \E m : wiz' = [wiz EXCEPT !.pc = "returned", !.ok = TRUE, !.model = m, !.how = "typed"]
    BY <1>3 DEF EnterOnlyModel, AskInput, Ask
  <2>2. ASSUME NEW m, wiz' = [wiz EXCEPT !.pc = "returned", !.ok = TRUE, !.model = m, !.how = "typed"]
        PROVE  Typical
    BY <2>2 DEF WizShape, WizType, Typical, Stops
  <2> QED
    BY <1>1, <2>1, <2>2, WaysTyped
<1>4. CASE EnterModelID
  <2>1. Fail \/ Repeat(wiz.pc) \/ \E m : Chosen(m, "typed")
    BY <1>4 DEF EnterModelID, AskInput, Ask
  <2> QED
    BY <1>1, <2>1, WaysTyped, ChosenTyped
<1>5. CASE SearchModel
  <2>1. \/ Fail \/ Repeat(wiz.pc) \/ Goto("menu") \/ Repeat("search")
        \/ \E found : wiz' = [wiz EXCEPT !.pc = "matches", !.matches = found]
    BY <1>5 DEF SearchModel, AskInput, Ask
  <2> QED
    BY <1>1, <1>2, <2>1, WaysTyped
<1>6. CASE PickMatch
  <2>1. Fail \/ Repeat(wiz.pc) \/ Repeat("search") \/ Goto("typeId") \/ \E m : Chosen(m, "listed")
    BY <1>6 DEF PickMatch, AskSelect, Ask
  <2> QED
    BY <1>1, <2>1, WaysTyped, ChosenTyped
<1>7. CASE PickRecommended
  <2>1. Fail \/ Repeat(wiz.pc) \/ Goto("typeId") \/ \E m, how : Chosen(m, how)
    BY <1>7 DEF PickRecommended, AskSelect, Ask
  <2> QED
    BY <1>1, <2>1, WaysTyped, ChosenTyped
<1>8. CASE SearchFallback
  <2>1. \/ Fail \/ Repeat(wiz.pc) \/ Repeat("fallbackSearch") \/ Return(wiz.fallbacks)
        \/ \E pc \in {"fallbackMenu", "fallbackMatches"} : \E found :
              wiz' = [wiz EXCEPT !.pc = pc, !.matches = found]
    BY <1>8 DEF SearchFallback, AskInput, Ask
  <2> QED
    BY <1>1, <1>2, <2>1, WaysTyped
<1>9. CASE PickFallbacks
  <2>1. Fail \/ Repeat(wiz.pc) \/ \E fallbacks : Return(fallbacks)
    BY <1>9 DEF PickFallbacks, AskPicks, Ask
  <2> QED
    BY <1>1, <2>1, WaysTyped
<1>10. CASE PickFallbackMatches
  <2>1. \/ Fail \/ Repeat(wiz.pc)
        \/ \E fallbacks : wiz' = [wiz EXCEPT !.pc = "moreFallbacks", !.fallbacks = fallbacks]
    BY <1>10 DEF PickFallbackMatches, AskPicks, Ask
  <2>2. ASSUME NEW fallbacks, wiz' = [wiz EXCEPT !.pc = "moreFallbacks", !.fallbacks = fallbacks]
        PROVE  Typical
    BY <1>1, <2>2 DEF WizShape, WizType, Typical
  <2> QED
    BY <1>1, <2>1, <2>2, WaysTyped
<1>11. CASE MoreFallbacks
  <2>1. \/ Fail \/ Repeat(wiz.pc) \/ Return(wiz.fallbacks)
        \/ wiz.patience > 0
           /\ FallbackRound([wiz EXCEPT !.patience = @ - 1], wiz.model, wiz.fallbacks)
    BY <1>11 DEF MoreFallbacks, AskConfirm, Ask
  <2> QED
    BY <1>1, <2>1, WaysTyped, ChosenTyped
<1> QED
  BY <1>3, <1>4, <1>5, <1>6, <1>7, <1>8, <1>9, <1>10, <1>11

(* The other steps of the wizard. *)
LEMMA WizardTyped ==
    ASSUME WizShape, WizType, opts \in Options, Prompt!PrompterType, RunInv,
           \/ Begin \/ DrainPaste \/ Drained \/ DeviceReturns \/ SaveOAuthCredential
           \/ ListModels \/ SkipListing
    PROVE  Typical /\ Prompt!PrompterType'
<1>1. {"provider", "drain", "save", "discover"} \subseteq Stops
  BY DEF Stops, Questions
<1>2. ASSUME UNCHANGED prompter PROVE Prompt!PrompterType'
  BY <1>2 DEF Prompt!PrompterType
<1>3. ASSUME NEW refresh \in BOOLEAN,
             WithSession([refresh |-> refresh, timeless |-> FALSE, gen |-> 0], "save")
      PROVE  Typical
  <2>1. [refresh |-> refresh, timeless |-> FALSE, gen |-> 0] \in Session
    BY DEF Session
  <2> QED
    BY <1>1, <1>3, <2>1, WaysTyped
<1>4. LoginReturned => Typical
  <2>1. login[wiz.run].refreshable \in BOOLEAN
    BY DEF RunInv, Refreshables
  <2> QED
    BY <1>3, <2>1, WaysTyped DEF LoginReturned
<1>5. CASE Begin
  <2>1. (Fail \/ Goto("provider")) /\ UNCHANGED prompter
    BY <1>5 DEF Begin
  <2> QED
    BY <1>1, <1>2, <2>1, WaysTyped
<1>6. CASE DrainPaste
  <2>1. \/ Goto("drain") /\ Prompt!Notify
        \/ LoginReturned /\ UNCHANGED prompter
    BY <1>6 DEF DrainPaste
  <2> QED
    BY <1>1, <1>2, <1>4, <2>1, WaysTyped, NotifyTyped
<1>7. CASE Drained
  <2>1. LoginReturned /\ UNCHANGED prompter
    BY <1>7 DEF Drained
  <2> QED
    BY <1>2, <1>4, <2>1
<1>8. CASE DeviceReturns
  <2>1. /\ UNCHANGED prompter
        /\ \/ Fail
           \/ \E refresh \in BOOLEAN :
                 WithSession([refresh |-> refresh, timeless |-> FALSE, gen |-> 0], "save")
    BY <1>8 DEF DeviceReturns
  <2> QED
    BY <1>2, <1>3, <2>1, WaysTyped
<1>9. CASE SaveOAuthCredential
  <2>1. (Fail \/ Goto("discover")) /\ UNCHANGED prompter
    BY <1>9 DEF SaveOAuthCredential
  <2> QED
    BY <1>1, <1>2, <2>1, WaysTyped
<1>10. CASE ListModels
  <2>1. (\E catalog : Discovered(catalog)) /\ Prompt!Notify
    BY <1>10 DEF ListModels
  <2> QED
    BY <2>1, WaysTyped, NotifyTyped
<1>11. CASE SkipListing
  <2>1. (\E catalog : Discovered(catalog)) /\ UNCHANGED prompter
    BY <1>11 DEF SkipListing
  <2> QED
    BY <1>2, <2>1, WaysTyped
<1> QED
  BY <1>5, <1>6, <1>7, <1>8, <1>9, <1>10, <1>11

(* The types of the parts, in the form their lemmas use. *)
Parts == /\ login \in [Attempts -> LoginRecord] /\ paste \in [Attempts -> PasteRecord]
         /\ device \in DeviceRecord /\ Prompt!PrompterType

LEMMA PartsAre ==
    /\ TypeOK <=> Parts /\ WizType /\ opts \in Options
    /\ TypeOK' <=> Parts' /\ WizType' /\ opts' \in Options
BY LoginTypes DEF TypeOK, Parts, Device!DeviceType, DeviceRecord

LEMMA StartsTyped ==
    ASSUME Parts, RunInv, StartBrowser \/ StartDevice
    PROVE  Parts'
<1> USE DEF Parts
<1>1. Prompt!PrompterType'
  BY DEF StartBrowser, StartDevice, Prompt!PrompterType
<1>2. CASE StartBrowser
  <2>1. PICK l \in LoginRecord : l = login[wiz.run]
    BY DEF RunInv
  <2>2. PICK openai \in BOOLEAN : 
            login' = [login EXCEPT ![wiz.run] = [l EXCEPT !.pc = "listen", !.openai = openai]]
    BY <1>2, <2>1 DEF StartBrowser, Browser!Start
  <2>3. [l EXCEPT !.pc = "listen", !.openai = openai] \in LoginRecord
    BY ONLY <2>1, <2>2 DEF LoginRecord
  <2>4. login' \in [Attempts -> LoginRecord]
    BY <2>2, <2>3, LoginBecomes DEF RunInv
  <2> QED
    BY <1>1, <1>2, <2>4 DEF StartBrowser, Browser!Start
<1>3. CASE StartDevice
  <2>1. wiz.run \in Nat
    BY AttemptsAre DEF RunInv
  <2>2. PICK openai \in BOOLEAN, run \in Nat :
            device' = [Device!Idle EXCEPT !.pc = "request", !.openai = openai, !.run = run]
    BY <1>3, <2>1 DEF StartDevice, Device!DeviceStart
  <2>3. device' \in DeviceRecord
    BY ONLY <2>2 DEF Device!Idle, DeviceRecord
  <2> QED
    BY <1>1, <1>3, <2>3 DEF StartDevice, loginVars
<1> QED
  BY <1>2, <1>3

LEMMA TypeInitially == Init => TypeOK
<1> SUFFICES ASSUME Init PROVE Parts /\ WizType /\ opts \in Options
  BY PartsAre
<1>1. opts \in Options
  BY SetupAssumption DEF Init
<1>2. opts.patience \in Nat /\ opts.piped \in BOOLEAN
  BY <1>1 DEF Options
<1>3. WizType
  <2>1. wiz.run \in Attempts
    BY RunInitially DEF RunInv
  <2> QED
    BY <1>2, <2>1 DEF Init, NewRun, WizType
<1>4. login \in [Attempts -> LoginRecord] /\ paste \in [Attempts -> PasteRecord]
  BY DEF Init, Browser!LoginInit, LoginRecord, PasteRecord, Places
<1>5. device \in DeviceRecord
  BY DEF Init, Device!DeviceInit, Device!Idle, DeviceRecord
<1>6. Prompt!PrompterType
  BY <1>2 DEF Init, Prompt!PrompterType
<1> QED
  BY <1>1, <1>3, <1>4, <1>5, <1>6 DEF Parts

LEMMA TypeStep ==
    TypeOK /\ PromptInv /\ ResultInv /\ RunInv /\ DeviceInv /\ [Next]_vars => TypeOK'
<1> SUFFICES ASSUME Parts, WizType, opts \in Options, PromptInv, ResultInv, RunInv, DeviceInv,
                    [Next]_vars
             PROVE  Parts' /\ WizType' /\ opts' \in Options
  BY PartsAre
<1>1. WizShape /\ Shape
  BY DEF ResultInv, PromptInv
<1>2. ASSUME Typical, UNCHANGED opts PROVE WizType' /\ opts' \in Options
  BY <1>2 DEF Typical, Stops, WizType
<1>3. ASSUME UNCHANGED <<wiz, opts>> PROVE WizType' /\ opts' \in Options
  BY <1>3 DEF WizType
<1>4. ASSUME UNCHANGED prompter PROVE Prompt!PrompterType'
  BY <1>4 DEF Parts, Prompt!PrompterType
<1>5. CASE Question
  <2>1. Typical
    BY <1>1, <1>5, CredentialTyped, ModelTyped DEF Question
  <2>2. Prompt!PrompterType' /\ UNCHANGED opts
    BY <1>5, QuestionAsks, AskedTyped DEF Parts
  <2>3. UNCHANGED <<login, paste, device>>
    BY <1>1, <1>5, QuestionStep DEF loginVars
  <2> QED
    BY <1>2, <2>1, <2>2, <2>3 DEF Parts
<1>6. CASE StartBrowser \/ StartDevice
  <2>1. UNCHANGED <<wiz, opts>>
    BY <1>6 DEF StartBrowser, StartDevice
  <2> QED
    BY <1>3, <1>6, <2>1, StartsTyped
<1>7. CASE DrainPaste
  <2>1. Typical /\ Prompt!PrompterType'
    BY <1>1, <1>7, WizardTyped DEF Parts
  <2>2. PICK l \in PasteRecord : l = paste[wiz.run]
    BY DEF Parts, RunInv
  <2>3. paste' = [paste EXCEPT ![wiz.run] = [l EXCEPT !.done = TRUE]] /\ UNCHANGED <<login, device, opts>>
    BY <1>7, <2>2 DEF DrainPaste, Browser!Drain
  <2>4. [l EXCEPT !.done = TRUE] \in PasteRecord
    BY ONLY <2>2 DEF PasteRecord
  <2>5. paste' \in [Attempts -> PasteRecord]
    BY <2>3, <2>4, PasteBecomes DEF Parts, RunInv
  <2> QED
    BY <1>2, <2>1, <2>3, <2>5 DEF Parts
<1>8. CASE Begin \/ Drained \/ DeviceReturns \/ SaveOAuthCredential \/ ListModels \/ SkipListing
  <2>1. Typical /\ Prompt!PrompterType'
    BY <1>1, <1>8, WizardTyped DEF Parts
  <2>2. UNCHANGED <<login, paste, device, opts>>
    BY <1>8 DEF Begin, Drained, DeviceReturns, SaveOAuthCredential, ListModels, SkipListing, loginVars
  <2> QED
    BY <1>2, <2>1, <2>2 DEF Parts
<1>9. CASE DeviceStep
  <2>1. device' \in DeviceRecord
    BY <1>9, DeviceTyped DEF DeviceStep, Parts
  <2>2. Prompt!Notify \/ UNCHANGED prompter
    BY <1>9 DEF DeviceStep
  <2>3. UNCHANGED <<wiz, login, paste, opts>>
    BY <1>9 DEF DeviceStep, loginVars
  <2> QED
    BY <1>3, <1>4, <2>1, <2>2, <2>3, NotifyTyped DEF Parts
<1>10. CASE RunAgain
  <2>1. wiz' = NewRun(wiz.run + 1) /\ UNCHANGED <<login, paste, device, prompter, opts>>
    BY <1>10 DEF RunAgain, loginVars
  <2>2. wiz'.run \in Attempts
    BY RunStep DEF RunInv
  <2>3. Typical
    BY <2>1, <2>2 DEF NewRun, Typical, Stops, Options
  <2> QED
    BY <1>2, <1>4, <2>1, <2>3 DEF Parts
<1>11. CASE UNCHANGED vars
  BY <1>3, <1>4, <1>11 DEF vars, Parts
<1>12. ASSUME NEW a \in Attempts, LoginStep(a) \/ Timeout(a) \/ Disturbed(a)
       PROVE  Parts' /\ WizType' /\ opts' \in Options
  <2>1. UNCHANGED <<wiz, device, prompter, opts>>
    BY <1>12 DEF LoginStep, Timeout, Disturbed
  <2>2. ASSUME Browser!Listens(a) PROVE paste' \in [Attempts -> PasteRecord]
    <3>1. PICK l \in PasteRecord : l = paste[a]
      BY DEF Parts
    <3>2. paste' = [paste EXCEPT ![a] = [l EXCEPT !.opener = "ready", !.input = "waiting"]]
      BY <2>2, <3>1 DEF Browser!Listens
    <3>3. [l EXCEPT !.opener = "ready", !.input = "waiting"] \in PasteRecord
      BY ONLY <3>1 DEF PasteRecord
    <3> QED
      BY <3>2, <3>3, PasteBecomes DEF Parts
  <2>3. ASSUME ~Browser!Listens(a) PROVE paste' \in [Attempts -> PasteRecord]
    BY <1>12, <2>3
    DEF LoginStep, Timeout, Disturbed, Browser!ListenFails, Browser!EndpointUnusable,
        Browser!TakeResult, Browser!GiveUp, Browser!Redeem, Browser!ExchangeFails,
        Browser!Shutdown, Browser!Expire, Browser!ServeFails, Browser!Callback, Parts
  <2>4. paste' \in [Attempts -> PasteRecord]
    BY <2>2, <2>3
  <2> QED
    BY <1>3, <1>4, <1>12, <2>1, <2>4, LoginTyped DEF Parts
<1>13. ASSUME NEW a \in Attempts, OpenerStep(a) \/ InputStep(a) \/ PasteLine(a)
       PROVE  Parts' /\ WizType' /\ opts' \in Options
  <2>1. UNCHANGED <<wiz, device, opts>>
    BY <1>13 DEF OpenerStep, InputStep, PasteLine
  <2> QED
    BY <1>3, <1>13, <2>1, PasteTyped DEF Parts
<1> QED
  BY <1>5, <1>6, <1>7, <1>8, <1>9, <1>10, <1>11, <1>12, <1>13 DEF Next, Wizard

(* The wizard, its logins, the prompter and the options keep their types,   *)
(* and the bound on the answers of a run is never passed, for any           *)
(* providers, catalogs, options, answers and number of runs.                *)
THEOREM TypeCorrect == Spec => []TypeOK
<1>1. Init => DeviceInv
  BY DEF Init, Device!DeviceInit, Device!Idle, DeviceInv, Fields
<1>2. PromptInv => Shape
  BY DEF PromptInv
<1> QED
  BY <1>1, <1>2, PromptInitially, PromptStep, DeviceStepKeeps, RunInitially, RunStep,
     ResultInitially, ResultStep, TypeInitially, TypeStep, PTL DEF Spec
=============================================================================
