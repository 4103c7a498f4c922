---------------------------- MODULE BrowserLogin ----------------------------
(***************************************************************************)
(* LoginBrowserOAuth and the paste prompt the wizard gives it. An attempt  *)
(* listens on a loopback port, has the authorize URL opened by a goroutine,*)
(* reads a pasted code in another, and takes the first result either of    *)
(* them or the callback handler offers. The browser, the user at it and    *)
(* the issuer are the environment.                                         *)
(***************************************************************************)
EXTENDS Naturals

CONSTANTS
    Attempts,       \* bound: the logins one process makes
    Ports,          \* the callback ports registered for the ChatGPT client
    Blank, Unfit, Broken, None

VARIABLES
    login,      \* login[a]: LoginBrowserOAuth
    paste,      \* paste[a]: the paste prompt and the two goroutines that use it
    prompter

Prompt == INSTANCE TextPrompter

-----------------------------------------------------------------------------
Code(a) == [code |-> a]     \* an authorization code issued for attempt a
Error   == [code |-> None]

(* What the user may paste: nothing, a code or the redirected URL of an     *)
(* attempt, a URL without a code or reporting an error.                     *)
Pasted == {Blank, Unfit} \cup ({"code", "url"} \X Attempts)

LoginType ==
    login \in [Attempts ->
        [pc     : {"idle", "listen", "wait", "exchange", "close", "granted", "failed"},
         openai : BOOLEAN,
         port   : Ports \cup ({"own"} \X Attempts) \cup {None},
         slot   : {Code(a) : a \in Attempts} \cup {Error, None},  \* the result channel
         serve  : BOOLEAN,      \* a listener reported an error
         late   : BOOLEAN,      \* the context of the flow has ended
         code   : {Code(a) : a \in Attempts} \cup {None},
         ok     : BOOLEAN,
         refreshable : BOOLEAN]]

PasteType ==
    paste \in [Attempts ->
        [opener  : {"none", "ready", "showing", "opened"},
         input   : {"none", "waiting", "reading", "offering", "gone"},
         offer   : {Code(a) : a \in Attempts} \cup {Error, None},
         shown   : BOOLEAN,
         done    : BOOLEAN,
         pending : {"none", "open", "closed"}]]

LoginInit ==
    /\ login = [a \in Attempts |->
           [pc |-> "idle", openai |-> FALSE, port |-> None, slot |-> None, serve |-> FALSE,
            late |-> FALSE, code |-> None, ok |-> FALSE, refreshable |-> FALSE]]
    /\ paste = [a \in Attempts |->
           [opener |-> "none", input |-> "none", offer |-> None, shown |-> FALSE,
            done |-> FALSE, pending |-> "none"]]

(* The port is remembered by the authorize URL after the listener is gone.  *)
Listening(a) == login[a].port # None /\ login[a].pc \in {"wait", "exchange", "close"}

Ended(a) == login[a].pc \in {"granted", "failed"}

(* inputCtx: ends with the flow's context and when the login returns. *)
Withdrawn(a) == login[a].late \/ login[a].pc \in {"close", "granted", "failed"}

-----------------------------------------------------------------------------
(* The login.                                                               *)
Start(a, openai) ==
    /\ login[a].pc = "idle"
    /\ login' = [login EXCEPT ![a].pc = "listen", ![a].openai = openai]
    /\ UNCHANGED paste

(* listenOpenAILoopback: the first registered port nobody holds; other      *)
(* providers take any free one.                                             *)
Listens(a) ==
    /\ login[a].pc = "listen"
    /\ \E port \in IF login[a].openai THEN Ports ELSE {<<"own", a>>} :
          login' = [login EXCEPT ![a].pc = "wait", ![a].port = port]
    /\ paste' = [paste EXCEPT ![a].opener = "ready", ![a].input = "waiting"]

(* The flow has no configuration or no endpoints, or no port is free. *)
ListenFails(a) ==
    /\ login[a].pc = "listen"
    /\ login' = [login EXCEPT ![a].pc = "failed"]
    /\ UNCHANGED paste

(* The discovered authorization endpoint is no URL: the deferred shutdown   *)
(* runs, and no goroutine was started.                                      *)
EndpointUnusable(a) ==
    /\ login[a].pc = "listen" /\ ~login[a].openai
    /\ login' = [login EXCEPT ![a].pc = "close", ![a].port = <<"own", a>>]
    /\ UNCHANGED paste

Return(a) == login' = [login EXCEPT ![a].pc = "close"]

TakeResult(a) ==
    /\ login[a].pc = "wait" /\ login[a].slot # None
    /\ login' = [login EXCEPT
           ![a].pc = IF login[a].slot = Error THEN "close" ELSE "exchange",
           ![a].code = IF login[a].slot = Error THEN None ELSE login[a].slot,
           ![a].slot = None]
    /\ UNCHANGED paste

GiveUp(a) ==
    /\ login[a].pc = "wait" /\ (login[a].serve \/ login[a].late)
    /\ Return(a)
    /\ UNCHANGED paste

(* The issuer redeems a code for the attempt whose verifier and redirect    *)
(* URI it was issued to, and it may refuse that too; an answer without an   *)
(* access token is an error.                                                *)
Redeem(a) ==
    /\ login[a].pc = "exchange" /\ login[a].code = Code(a) /\ ~login[a].late
    /\ \E refreshable \in BOOLEAN :
          login' = [login EXCEPT ![a].pc = "close", ![a].ok = TRUE,
                                 ![a].refreshable = refreshable]
    /\ UNCHANGED paste

ExchangeFails(a) ==
    /\ login[a].pc = "exchange"
    /\ Return(a)
    /\ UNCHANGED paste

(* The deferred inputCancel has run; the listeners are shut down, and what  *)
(* the call kept goes with it.                                              *)
Shutdown(a) ==
    /\ login[a].pc = "close"
    /\ login' = [login EXCEPT ![a].pc = IF login[a].ok THEN "granted" ELSE "failed",
           ![a].ok = FALSE, ![a].slot = None, ![a].code = None,
           ![a].serve = FALSE, ![a].late = FALSE]
    /\ UNCHANGED paste

Expire(a) ==
    /\ login[a].pc \in {"wait", "exchange"} /\ ~login[a].late
    /\ login' = [login EXCEPT ![a].late = TRUE]
    /\ UNCHANGED paste

ServeFails(a) ==
    /\ login[a].pc \in {"wait", "exchange"} /\ ~login[a].serve
    /\ login' = [login EXCEPT ![a].serve = TRUE]
    /\ UNCHANGED paste

-----------------------------------------------------------------------------
(* oauthCallbackHandler offers its result and never waits.                  *)
Offered(slot, result) == IF slot = None THEN result ELSE slot

(* The redirect of attempt b reaches whoever listens on the port it names:  *)
(* with the state of b, and a code, an error or neither. A page that cannot *)
(* be written is an error too.                                              *)
Callback(a, b) ==
    /\ paste[b].opener = "opened"
    /\ Listening(a) /\ login[a].port = login[b].port
    /\ \E result \in IF a = b THEN {Code(b), Error} ELSE {Error} :
          login' = [login EXCEPT ![a].slot = Offered(@, result)]
    /\ UNCHANGED paste

-----------------------------------------------------------------------------
(* The goroutine of openURL: pastePrompt.show, then the consumer's OpenURL, *)
(* whose end nobody waits for. show holds the lock of the prompt while it   *)
(* prints.                                                                  *)
Locked(a) == paste[a].opener = "showing"

Show(a) ==
    /\ paste[a].opener = "ready"
    /\ paste' = [paste EXCEPT ![a].opener = IF paste[a].done THEN "opened" ELSE "showing"]
    /\ UNCHANGED <<login, prompter>>

Shown(a) ==
    /\ paste[a].opener = "showing"
    /\ paste' = [paste EXCEPT ![a].opener = "opened", ![a].shown = TRUE]
    /\ Prompt!Notify
    /\ UNCHANGED login

(* Mutant: the prompt registers its read, and leaves it pending when it     *)
(* then finds the login over.                                               *)
InputForgotten(a) ==
    /\ paste[a].input = "waiting"
    /\ \/ Withdrawn(a)
       \/ paste[a].shown /\ ~Locked(a) /\ paste[a].done
    /\ paste' = [paste EXCEPT ![a].input = "offering", ![a].offer = Error,
                             ![a].pending = IF paste[a].shown THEN "open" ELSE "none"]
    /\ UNCHANGED <<login, prompter>>

(* The goroutine of inputCode. Overtaken: the wait for show ends with the   *)
(* context; or the prompt finds the login over before it reads.             *)
InputCancelled(a) ==
    /\ paste[a].input = "waiting"
    /\ \/ Withdrawn(a)
       \/ paste[a].shown /\ ~Locked(a) /\ paste[a].done
    /\ paste' = [paste EXCEPT ![a].input = "offering", ![a].offer = Error]
    /\ UNCHANGED <<login, prompter>>

InputReads(a) ==
    /\ paste[a].input = "waiting" /\ paste[a].shown /\ ~Locked(a)
    /\ ~paste[a].done /\ ~Withdrawn(a)
    /\ paste' = [paste EXCEPT ![a].input = "reading", ![a].pending = "open"]
    /\ UNCHANGED <<login, prompter>>

(* parseOAuthInput: a URL answers for the attempt its state names; a bare   *)
(* code is taken as it is.                                                  *)
ParseInput(a, text) ==
    IF text \in {"code", "url"} \X Attempts /\ (text[1] = "code" \/ text[2] = a)
    THEN Code(text[2]) ELSE Error

InputLine(a) ==
    /\ paste[a].input = "reading"
    /\ \E line \in Prompt!ReadLine(Pasted), lost \in Prompt!Printed :
          LET answer == Prompt!Input(line, lost, Blank) IN
          /\ Prompt!Prompted(line, lost, TRUE)
          /\ paste' = [paste EXCEPT
                 ![a].input = "offering", ![a].pending = "closed",
                 ![a].offer = IF answer.is = "value" THEN ParseInput(a, answer.value) ELSE Error]
    /\ UNCHANGED login

(* The result waits for the channel, or for the login to be over. *)
InputOffers(a) ==
    /\ paste[a].input = "offering"
    /\ \/ login[a].slot = None /\ ~Ended(a) /\ login' = [login EXCEPT ![a].slot = paste[a].offer]
       \/ Withdrawn(a) /\ UNCHANGED login
    /\ paste' = [paste EXCEPT ![a].input = "gone", ![a].offer = None]
    /\ UNCHANGED prompter

(* drain, run by the wizard once the login has returned. *)
Drain(a) ==
    /\ Ended(a) /\ ~Locked(a) /\ ~paste[a].done
    /\ paste' = [paste EXCEPT ![a].done = TRUE]
    /\ UNCHANGED login

Drained(a) == paste[a].done /\ paste[a].pending # "open"
=============================================================================
