---------------------------- MODULE OAuthSession ----------------------------
(***************************************************************************)
(* One mcplib-owned OAuth login shared by several processes: each process  *)
(* holds one OAuthSession over the same TokenStore, and several goroutines *)
(* of a process generate through it.  The issuer rotates refresh tokens    *)
(* and revokes the whole family when a spent one is presented.             *)
(*                                                                         *)
(* Grant number n is the n-th answer of the issuer, 1 being the login: its *)
(* access token is n and its refresh token is n too, or the one presented  *)
(* when the issuer did not rotate it.  Sessions are refreshable ones (an   *)
(* access-only ChatGPT token has nothing to refresh).                      *)
(***************************************************************************)
EXTENDS Naturals

CONSTANTS
    Processes,      \* processes sharing the token store
    Threads,        \* goroutines of each process
    Nobody,         \* no refresh in flight
    MaxGrants,      \* bound: the issuer grants no more than this
    AlwaysRotates,  \* TRUE: every grant has a new refresh token
    Faults          \* what may go wrong besides requests that are not served

FaultKind == {"response",  \* the answer to a served refresh is lost or unreadable
              "load",      \* the store cannot be read (or has no file)
              "save",      \* the store cannot be written
              "chmod",     \* the store was written, and Save reports an error
              "crash"}     \* a process is killed and started again

ASSUME OAuthAssumption ==
    /\ MaxGrants \in Nat \ {0}
    /\ AlwaysRotates \in BOOLEAN
    /\ Faults \subseteq FaultKind
    /\ Nobody \notin Processes \X Threads

VARIABLES
    issuer,    \* its current refresh token, its last grant, whether it revoked the family
    store,     \* the session the token store holds
    saved,     \* history: the grants the store has held so far
    horizon,   \* grants up to this one are expired or within oauthRefreshSkew
    mem,       \* mem[p]: OAuthSession of process p; expired: a 401 set its Expiry back
    inflight,  \* inflight[p]: the goroutine whose tokenFuture is pending, or Nobody
    pc,        \* where each goroutine is
    loc        \* its local variables

vars == <<issuer, store, saved, horizon, mem, inflight, pc, loc>>

Goroutines == Processes \X Threads
Process(c) == c[1]

oauthRefreshAttempts == 3

Grant == 1..MaxGrants
Cred  == [access : Grant, refresh : Grant]
Login == [access |-> 1, refresh |-> 1]

Refreshing == {"load", "send", "reply", "save", "publish"}
Step       == {"call", "follow", "request"} \cup Refreshing

Local == [refresh  : Grant,                    \* state.refresh
          tries    : 1..oauthRefreshAttempts,
          cred     : Cred,                     \* next
          ok       : BOOLEAN,                  \* err == nil
          tok      : Grant,                    \* the bearer token in use
          rejected : 0..MaxGrants]             \* the one a 401 answered, or 0

TypeOK ==
    /\ issuer \in [current : Grant, last : Grant, revoked : BOOLEAN]
    /\ store \in Cred
    /\ saved \subseteq Grant
    /\ horizon \in 0..MaxGrants
    /\ mem \in [Processes -> [cred : Cred, expired : BOOLEAN]]
    /\ inflight \in [Processes -> Goroutines \cup {Nobody}]
    /\ pc \in [Goroutines -> Step]
    /\ loc \in [Goroutines -> Local]

(* A goroutine that holds nothing; variables no longer read are reset to it. *)
Fresh == [refresh |-> 1, tries |-> 1, cred |-> Login, ok |-> FALSE, tok |-> 1, rejected |-> 0]

Init ==
    /\ issuer = [current |-> 1, last |-> 1, revoked |-> FALSE]
    /\ store = Login
    /\ saved = {Login.access}
    /\ horizon \in {0, 1}
    /\ mem = [p \in Processes |-> [cred |-> Login, expired |-> FALSE]]
    /\ inflight = [p \in Processes |-> Nobody]
    /\ pc = [c \in Goroutines |-> "call"]
    /\ loc = [c \in Goroutines |-> Fresh]

Moves(c, step, l) == /\ pc' = [pc EXCEPT ![c] = step]
                     /\ loc' = [loc EXCEPT ![c] = l]

(* Token, or the generation that called it, returns; any call may follow. *)
Returns(c) == Moves(c, "call", Fresh)

NotRefreshed(c) == Moves(c, "publish", Fresh)

Refreshed(c, cred) ==
    Moves(c, "publish", [Fresh EXCEPT !.cred = cred, !.ok = TRUE, !.rejected = loc[c].rejected])

Holding(c, tok) == [Fresh EXCEPT !.tok = tok, !.rejected = loc[c].rejected]

-----------------------------------------------------------------------------
(* OAuthSession.Token: everything it does under the mutex is one step *)
Due(p) == mem[p].expired \/ mem[p].cred.access <= horizon

CurrentToken(c) ==
    /\ pc[c] = "call"
    /\ ~Due(Process(c))
    /\ Moves(c, "request", Holding(c, mem[Process(c)].cred.access))
    /\ UNCHANGED <<issuer, store, saved, horizon, mem, inflight>>

Follow(c) ==
    /\ pc[c] = "call"
    /\ Due(Process(c))
    /\ inflight[Process(c)] # Nobody
    /\ Moves(c, "follow", loc[c])
    /\ UNCHANGED <<issuer, store, saved, horizon, mem, inflight>>

(* Mutant: a pending refresh of the same session is not looked for. *)
LeadsAnyway(c) ==
    /\ pc[c] = "call"
    /\ Due(Process(c))
    /\ inflight' = [inflight EXCEPT ![Process(c)] = c]
    /\ Moves(c, "load", [loc[c] EXCEPT !.refresh = mem[Process(c)].cred.refresh])
    /\ UNCHANGED <<issuer, store, saved, horizon, mem>>

Lead(c) ==
    /\ pc[c] = "call"
    /\ Due(Process(c))
    /\ inflight[Process(c)] = Nobody
    /\ inflight' = [inflight EXCEPT ![Process(c)] = c]
    /\ Moves(c, "load", [loc[c] EXCEPT !.refresh = mem[Process(c)].cred.refresh])
    /\ UNCHANGED <<issuer, store, saved, horizon, mem>>

(* The follower's own context ends first. *)
StopWaiting(c) ==
    /\ pc[c] = "follow"
    /\ Returns(c)
    /\ UNCHANGED <<issuer, store, saved, horizon, mem, inflight>>

-----------------------------------------------------------------------------
(* reloadOrRefresh, without the mutex *)

(* Mutant: the store is not read again before the refresh. *)
SkipsReload(c) ==
    /\ pc[c] = "load"
    /\ Moves(c, "send", [loc[c] EXCEPT !.tries = 1])
    /\ UNCHANGED <<issuer, store, saved, horizon, mem, inflight>>

ReloadStore(c) ==
    /\ pc[c] = "load"
    /\ \/ /\ store.refresh = loc[c].refresh \/ "load" \in Faults
          /\ Moves(c, "send", [loc[c] EXCEPT !.tries = 1])
       \/ /\ store.refresh # loc[c].refresh
          /\ store.access > horizon
          /\ Refreshed(c, store)
       \/ /\ store.refresh # loc[c].refresh
          /\ store.access <= horizon
          /\ Moves(c, "send", [loc[c] EXCEPT !.refresh = store.refresh, !.tries = 1])
    /\ UNCHANGED <<issuer, store, saved, horizon, mem, inflight>>

(* A retryable failure: once more, unless the attempts or the context are  *)
(* used up.  Every attempt presents the same refresh token.                *)
RetryOrFail(c) ==
    \/ /\ loc[c].tries < oauthRefreshAttempts
       /\ Moves(c, "send", [loc[c] EXCEPT !.tries = @ + 1])
    \/ NotRefreshed(c)

(* The request does not reach the token endpoint, or it answers 429 or 5xx. *)
NotServed(c) ==
    /\ pc[c] = "send"
    /\ RetryOrFail(c)
    /\ UNCHANGED <<issuer, store, saved, horizon, mem, inflight>>

(* Mutant: the refresh token of the answer is ignored. *)
KeepsOldRefresh(c) ==
    /\ pc[c] = "send"
    /\ ~issuer.revoked /\ loc[c].refresh = issuer.current /\ issuer.last < MaxGrants
    /\ \E rotated \in {TRUE, AlwaysRotates} :
          /\ issuer' = [issuer EXCEPT !.last = @ + 1, !.current = IF rotated THEN issuer.last + 1 ELSE @]
          /\ Moves(c, "reply", [loc[c] EXCEPT !.cred =
                   [access |-> issuer.last + 1, refresh |-> loc[c].refresh]])
    /\ UNCHANGED <<store, saved, horizon, mem, inflight>>

(* The issuer answers 200; an answer without a refresh token leaves the    *)
(* one that was presented in force.                                        *)
IssuerGrants(c) ==
    /\ pc[c] = "send"
    /\ ~issuer.revoked /\ loc[c].refresh = issuer.current /\ issuer.last < MaxGrants
    /\ \E rotated \in {TRUE, AlwaysRotates} :
          LET n == issuer.last + 1
              r == IF rotated THEN n ELSE issuer.current
          IN  /\ issuer' = [issuer EXCEPT !.last = n, !.current = r]
              /\ Moves(c, "reply", [loc[c] EXCEPT !.cred = [access |-> n, refresh |-> r]])
    /\ UNCHANGED <<store, saved, horizon, mem, inflight>>

(* refresh_token_reused: terminal, ErrAuthFailure. *)
IssuerDetectsReuse(c) ==
    /\ pc[c] = "send"
    /\ issuer.revoked \/ loc[c].refresh # issuer.current
    /\ issuer' = [issuer EXCEPT !.revoked = TRUE]
    /\ NotRefreshed(c)
    /\ UNCHANGED <<store, saved, horizon, mem, inflight>>

(* A lost answer is a transport error and retried; a body that does not    *)
(* decode or close, or has no access token, is an error at once.           *)
ReadReply(c) ==
    /\ pc[c] = "reply"
    /\ \/ Moves(c, "save", loc[c])
       \/ "response" \in Faults /\ (RetryOrFail(c) \/ NotRefreshed(c))
    /\ UNCHANGED <<issuer, store, saved, horizon, mem, inflight>>

Stores(cred) == store' = cred /\ saved' = saved \cup {cred.access}

(* Mutant: an error of Save is logged and dropped. *)
SavesBestEffort(c) ==
    /\ pc[c] = "save"
    /\ Stores(loc[c].cred) \/ ("save" \in Faults /\ UNCHANGED <<store, saved>>)
    /\ Refreshed(c, loc[c].cred)
    /\ UNCHANGED <<issuer, horizon, mem, inflight>>

(* FileTokenStore.Save: write a temporary file, rename it, then chmod *)
SaveSession(c) ==
    /\ pc[c] = "save"
    /\ \/ /\ Stores(loc[c].cred)
          /\ Refreshed(c, loc[c].cred)
       \/ /\ \/ "save" \in Faults /\ UNCHANGED <<store, saved>>
             \/ "chmod" \in Faults /\ Stores(loc[c].cred)
          /\ NotRefreshed(c)
    /\ UNCHANGED <<issuer, horizon, mem, inflight>>

-----------------------------------------------------------------------------
(* Token, back under the mutex: adopt what was saved, end the flight, and  *)
(* close the future, which gives every follower the leader's own result.   *)
Waiting(p) == {d \in Goroutines : pc[d] = "follow" /\ Process(d) = p}

Adopt(c) == [mem EXCEPT ![Process(c)] = [cred |-> loc[c].cred, expired |-> FALSE]]

(* Mutant: the future of a failed refresh is not closed. *)
WakesOnSuccess(c) ==
    LET woken == {c} \cup (IF loc[c].ok THEN Waiting(Process(c)) ELSE {}) IN
    /\ pc[c] = "publish"
    /\ mem' = IF loc[c].ok THEN Adopt(c) ELSE mem
    /\ pc' = [d \in Goroutines |-> IF d \notin woken THEN pc[d]
                                ELSE IF loc[c].ok THEN "request" ELSE "call"]
    /\ loc' = [d \in Goroutines |-> IF d \notin woken THEN loc[d]
                                 ELSE IF loc[c].ok THEN Holding(d, loc[c].cred.access) ELSE Fresh]
    /\ inflight' = [inflight EXCEPT ![Process(c)] = Nobody]
    /\ UNCHANGED <<issuer, store, saved, horizon>>

Publish(c) ==
    LET woken == {c} \cup Waiting(Process(c)) IN
    /\ pc[c] = "publish"
    /\ \/ /\ loc[c].ok
          /\ mem' = Adopt(c)
          /\ pc' = [d \in Goroutines |-> IF d \in woken THEN "request" ELSE pc[d]]
          /\ loc' = [d \in Goroutines |-> IF d \in woken
                                       THEN Holding(d, loc[c].cred.access) ELSE loc[d]]
       \/ /\ ~loc[c].ok
          /\ pc' = [d \in Goroutines |-> IF d \in woken THEN "call" ELSE pc[d]]
          /\ loc' = [d \in Goroutines |-> IF d \in woken THEN Fresh ELSE loc[d]]
          /\ UNCHANGED mem
    /\ inflight' = [inflight EXCEPT ![Process(c)] = Nobody]
    /\ UNCHANGED <<issuer, store, saved, horizon>>

-----------------------------------------------------------------------------
(* doGenerateItems: the provider request, and the one retry after a 401 *)
Answered(c) ==
    /\ pc[c] = "request"
    /\ Returns(c)
    /\ UNCHANGED <<issuer, store, saved, horizon, mem, inflight>>

(* Mutant: the session is not told of the 401. *)
RetriesUnexpired(c) ==
    /\ pc[c] = "request" /\ loc[c].rejected = 0
    /\ Moves(c, "call", [Fresh EXCEPT !.rejected = loc[c].tok])
    /\ UNCHANGED <<issuer, store, saved, horizon, mem, inflight>>

(* expireOpenAISession, expireGrokSession: whatever token the session      *)
(* holds by now is made due.                                               *)
Rejected(c) ==
    /\ pc[c] = "request" /\ loc[c].rejected = 0
    /\ mem' = [mem EXCEPT ![Process(c)].expired = TRUE]
    /\ Moves(c, "call", [Fresh EXCEPT !.rejected = loc[c].tok])
    /\ UNCHANGED <<issuer, store, saved, horizon, inflight>>

(* The retry is rejected as well: its error is the caller's. *)
RejectedAgain(c) ==
    /\ pc[c] = "request" /\ loc[c].rejected # 0
    /\ Returns(c)
    /\ UNCHANGED <<issuer, store, saved, horizon, mem, inflight>>

-----------------------------------------------------------------------------
TimePasses ==
    /\ \E n \in Grant : /\ horizon < n /\ n <= issuer.last
                        /\ horizon' = n
    /\ UNCHANGED <<issuer, store, saved, mem, inflight, pc, loc>>

(* A process is killed, and starts again from the store. *)
Crash(p) ==
    /\ "crash" \in Faults
    /\ mem' = [mem EXCEPT ![p] = [cred |-> store, expired |-> FALSE]]
    /\ inflight' = [inflight EXCEPT ![p] = Nobody]
    /\ pc' = [c \in Goroutines |-> IF Process(c) = p THEN "call" ELSE pc[c]]
    /\ loc' = [c \in Goroutines |-> IF Process(c) = p THEN Fresh ELSE loc[c]]
    /\ UNCHANGED <<issuer, store, saved, horizon>>

Refresh(c) == \/ ReloadStore(c) \/ NotServed(c) \/ IssuerGrants(c) \/ IssuerDetectsReuse(c)
              \/ ReadReply(c) \/ SaveSession(c) \/ Publish(c)

Call(c) == \/ CurrentToken(c) \/ Follow(c) \/ Lead(c) \/ StopWaiting(c)
           \/ Answered(c) \/ Rejected(c) \/ RejectedAgain(c)

Next == \/ \E c \in Goroutines : Refresh(c) \/ Call(c)
        \/ TimePasses
        \/ \E p \in Processes : Crash(p)

Spec == Init /\ [][Next]_vars

(* The leader keeps running: its HTTP client has a timeout. *)
FairSpec == Spec /\ \A c \in Goroutines : WF_vars(Refresh(c))
-----------------------------------------------------------------------------
(* One refresh in flight per session (oauth_session.go:103): the leader is *)
(* the goroutine the session knows, so no two present one refresh token.   *)
SingleFlight ==
    \A c \in Goroutines : pc[c] \in Refreshing <=> inflight[Process(c)] = c

(* Persist before use (oauth_session.go:377): every session a process works *)
(* with, and every token in use, was in the store first.                   *)
PersistBeforeUse ==
    /\ \A p \in Processes : mem[p].cred.access \in saved
    /\ \A c \in Goroutines : pc[c] = "request" => loc[c].tok \in saved

(* The store never returns to a session it has replaced, and a process     *)
(* gives up its session only once the store holds another: so none goes    *)
(* back to a session it had before, whichever processes refresh, save,     *)
(* reload and restart in whatever order (oauth_session.go:366-381,         *)
(* 121-133).                                                               *)
NeverReverts ==
    [][ /\ store' # store => store'.access \notin saved
        /\ \A p \in Processes :
              mem'[p].cred # mem[p].cred => mem[p].cred.access # store'.access ]_vars

(* The retry after a 401 carries another token than the rejected one, also *)
(* when another goroutine or process refreshed meanwhile (grok.go:165).    *)
RetryUsesNewToken ==
    \A c \in Goroutines : pc[c] = "request" => loc[c].rejected # loc[c].tok

(* The refresh token in force was rotated by a grant the store has not     *)
(* held: one under way, or one whose answer was lost, whose Save failed or *)
(* whose process was killed before it.                                     *)
Unsaved == issuer.current \notin saved

(* The issuer sees a spent refresh token only once the grant that rotated  *)
(* it is lost: a token whose successor was stored is never presented       *)
(* again, neither after a Save that reported an error nor by the next      *)
(* goroutine to lead (oauth_session.go:361-366).                           *)
NeverReuses == issuer.revoked => Unsaved

(* The store holds the refresh token in force, so that whoever comes next  *)
(* can go on, or that token has never been stored                          *)
(* (oauth_session.go:372-381).                                             *)
StoreInForce == store.refresh = issuer.current \/ Unsaved

(* A follower is always answered: every way the leader's refresh ends      *)
(* closes the future (oauth_session.go:125-131).                           *)
FollowersReturn == \A c \in Goroutines : pc[c] = "follow" ~> pc[c] # "follow"
=============================================================================
