--------------------------- MODULE ProviderProofs ---------------------------
(***************************************************************************)
(* Proofs about the providers.                                             *)
(*                                                                         *)
(* The login that processes share (OAuthSession), for any number of        *)
(* processes, goroutines and grants, any of the faults, and an issuer that *)
(* rotates the refresh token or not, as it likes.  The invariant is about  *)
(* which grants the store has held: a grant in flight is one it has not,   *)
(* and a session it has replaced can come back from nowhere.               *)
(*                                                                         *)
(* The callers (ProviderCall), for any callers, tasks, services, replies,  *)
(* delays and documents: a request is repeated only with reason.  What     *)
(* decides is the reply of the attempt before, of which the error that the *)
(* retry loop looks at is a function (Failure); so the one lemma about     *)
(* codes and statuses (FinalStops) says that an error made of a final      *)
(* reply stops the loop, and the invariant carries the reply, its error    *)
(* and the count of requests from one program counter of an attempt to the *)
(* next.  And what a listing offers is sound: a caller has nothing until   *)
(* its catalog is known (OfferInv), the lemmas of ModelCatalogProofs say   *)
(* what a catalog then is (Fits), and the probes only pick from it.        *)
(***************************************************************************)
EXTENDS OAuthSession, ProviderCall, ModelCatalogProofs, TLAPS

(* The sessions the store has replaced. *)
Gone == saved \ {store.access}

(* Of what the store has held, a process has one session, whole. *)
Stored ==
    /\ \A n \in saved : n <= issuer.last
    /\ store.access \in saved
    /\ \A p \in Processes : /\ mem[p].cred.access \in saved
                            /\ mem[p].cred.access = store.access => mem[p].cred = store

(* A leader asks the store for another session than its process has. *)
Loads == \A c \in Goroutines : pc[c] = "load" => loc[c].refresh = mem[Process(c)].cred.refresh

(* A grant on its way to the store is not there yet, and has one owner. *)
Held == {c \in Goroutines : pc[c] \in {"reply", "save"}}
Granted ==
    /\ \A c \in Held : loc[c].cred.access \notin saved /\ loc[c].cred.access <= issuer.last
    /\ \A c, d \in Held : loc[c].cred.access = loc[d].cred.access => c = d

(* What a leader is about to publish was stored, and is new to its process *)
(* and to every goroutine of it; the process's own session is replaced.    *)
Result(c) ==
    /\ loc[c].cred.access \in saved
    /\ loc[c].cred.access = store.access => loc[c].cred = store
    /\ mem[Process(c)].cred.access \notin {store.access, loc[c].cred.access}
    /\ \A d \in Goroutines : Process(d) = Process(c) =>
           /\ loc[d].rejected # loc[c].cred.access
           /\ pc[d] = "request" => loc[d].tok # loc[c].cred.access
Results == \A c \in Goroutines : pc[c] = "publish" /\ loc[c].ok => Result(c)

(* A token a goroutine of process p has used is the session's, or one the  *)
(* store has replaced.  A rejected one is not used again: if it is the     *)
(* session's, the session is due.                                          *)
Used(p, n) == n = mem[p].cred.access \/ n \in Gone
Tokens ==
    /\ \A c \in Goroutines : loc[c].rejected = 0 \/ Used(Process(c), loc[c].rejected)
    /\ \A c \in Goroutines : pc[c] = "call" /\ ~mem[Process(c)].expired =>
           loc[c].rejected # mem[Process(c)].cred.access
    /\ \A c \in Goroutines : pc[c] = "request" =>
           Used(Process(c), loc[c].tok) /\ loc[c].rejected # loc[c].tok

Parts == Stored /\ Loads /\ Granted /\ Results /\ Tokens

SessionInv == TypeOK /\ SingleFlight /\ Parts
-----------------------------------------------------------------------------
LEMMA ProcessType == \A c \in Goroutines : Process(c) \in Processes
  BY DEF Goroutines, Process

LEMMA LoginType == Login \in Cred /\ Fresh \in Local
  BY OAuthAssumption DEF Fresh, Login, Cred, Local, Grant, oauthRefreshAttempts

(* One goroutine's step keeps the types of pc and loc. *)
LEMMA AtType ==
    ASSUME TypeOK, NEW c \in Goroutines, NEW step \in Step, NEW l \in Local, Moves(c, step, l)
    PROVE  pc' \in [Goroutines -> Step] /\ loc' \in [Goroutines -> Local]
  BY DEF TypeOK, Moves

Shared == /\ issuer \in [current : Grant, last : Grant, revoked : BOOLEAN]
          /\ store \in Cred
          /\ saved \subseteq Grant
          /\ horizon \in 0..MaxGrants
          /\ mem \in [Processes -> [cred : Cred, expired : BOOLEAN]]
          /\ inflight \in [Processes -> Goroutines \cup {Nobody}]

(* Type correctness: every variable keeps its shape, and in particular the *)
(* attempts of one refresh stay within oauthRefreshAttempts.               *)
LEMMA TypeStep == TypeOK /\ [Next]_vars => TypeOK'
<1> SUFFICES ASSUME TypeOK, [Next]_vars PROVE TypeOK'
  OBVIOUS
<1>0. Shared /\ (Shared' /\ pc' \in [Goroutines -> Step] /\ loc' \in [Goroutines -> Local] => TypeOK')
  BY DEF TypeOK, Shared
<1>a. \A c \in Goroutines : loc[c] \in Local
  BY DEF TypeOK
<1>b. \A p \in Processes : mem[p] \in [cred : Cred, expired : BOOLEAN]
  BY DEF TypeOK
<1>c. ASSUME NEW c \in Goroutines, Refresh(c) \/ Call(c), ~Publish(c)
      PROVE  \E step \in Step, l \in Local : Moves(c, step, l)
  <2>1. CASE CurrentToken(c)
    <3>1. Holding(c, mem[Process(c)].cred.access) \in Local
      BY <1>a, <1>b, ProcessType, LoginType DEF Holding, Local, Cred
    <3> QED
      BY <2>1, <3>1, LoginType DEF CurrentToken, Step, Refreshing
  <2>2. CASE Follow(c)
    BY <1>a, <2>2, LoginType DEF Follow, Step, Refreshing
  <2>3. CASE Lead(c)
    <3>1. [loc[c] EXCEPT !.refresh = mem[Process(c)].cred.refresh] \in Local
      BY <1>a, <1>b, ProcessType DEF Local, Cred
    <3> QED
      BY <2>3, <3>1, LoginType DEF Lead, Step, Refreshing
  <2>4. CASE StopWaiting(c)
    BY <1>a, <2>4, LoginType DEF StopWaiting, Returns, Step, Refreshing
  <2>5. CASE ReloadStore(c)
    <3>0. store \in Cred /\ store.refresh \in Grant /\ 1 \in 1..oauthRefreshAttempts
      BY <1>0 DEF Shared, Cred, oauthRefreshAttempts
    <3>1. [loc[c] EXCEPT !.tries = 1] \in Local
      BY <1>a DEF Local, oauthRefreshAttempts
    <3>2. [loc[c] EXCEPT !.refresh = store.refresh, !.tries = 1] \in Local
      BY <1>a, <3>0 DEF Local
    <3>3. [Fresh EXCEPT !.cred = store, !.ok = TRUE, !.rejected = loc[c].rejected] \in Local
      BY <1>a, <3>0, LoginType DEF Local
    <3> QED
      BY <2>5, <3>1, <3>2, <3>3 DEF ReloadStore, Refreshed, Step, Refreshing
  <2>6. CASE NotServed(c)
    <3>1. loc[c].tries < oauthRefreshAttempts => [loc[c] EXCEPT !.tries = @ + 1] \in Local
      BY <1>a DEF Local, oauthRefreshAttempts
    <3> QED
      BY <2>6, <3>1, LoginType DEF NotServed, RetryOrFail, NotRefreshed, Step, Refreshing
  <2>7. CASE IssuerGrants(c)
    <3>1. PICK rotated \in {TRUE, AlwaysRotates} :
             Moves(c, "reply", [loc[c] EXCEPT !.cred = [access |-> issuer.last + 1,
                                refresh |-> IF rotated THEN issuer.last + 1 ELSE issuer.current]])
      BY <2>7 DEF IssuerGrants
    <3>2. issuer.last + 1 \in Grant /\ issuer.current \in Grant
      BY <1>0, <2>7, OAuthAssumption DEF Shared, IssuerGrants, Grant
    <3>3. [loc[c] EXCEPT !.cred = [access |-> issuer.last + 1,
              refresh |-> IF rotated THEN issuer.last + 1 ELSE issuer.current]] \in Local
      BY <1>a, <3>2 DEF Local, Cred
    <3> QED
      BY <3>1, <3>3 DEF Step, Refreshing
  <2>8. CASE IssuerDetectsReuse(c)
    BY <1>a, <2>8, LoginType DEF IssuerDetectsReuse, NotRefreshed, Step, Refreshing
  <2>9. CASE ReadReply(c)
    <3>1. loc[c].tries < oauthRefreshAttempts => [loc[c] EXCEPT !.tries = @ + 1] \in Local
      BY <1>a DEF Local, oauthRefreshAttempts
    <3> QED
      BY <1>a, <2>9, <3>1, LoginType DEF ReadReply, RetryOrFail, NotRefreshed, Step, Refreshing
  <2>10. CASE SaveSession(c)
    <3>1. [Fresh EXCEPT !.cred = loc[c].cred, !.ok = TRUE, !.rejected = loc[c].rejected] \in Local
      BY <1>a, LoginType DEF Local
    <3> QED
      BY <2>10, <3>1, LoginType DEF SaveSession, Refreshed, NotRefreshed, Step, Refreshing
  <2>11. CASE Answered(c)
    BY <1>a, <2>11, LoginType DEF Answered, Returns, Step, Refreshing
  <2>12. CASE Rejected(c)
    <3>1. [Fresh EXCEPT !.rejected = loc[c].tok] \in Local
      BY <1>a, OAuthAssumption, LoginType DEF Local, Grant
    <3> QED
      BY <2>12, <3>1, LoginType DEF Rejected, Step, Refreshing
  <2>13. CASE RejectedAgain(c)
    BY <1>a, <2>13, LoginType DEF RejectedAgain, Returns, Step, Refreshing
  <2> QED
    BY <1>c, <2>1, <2>2, <2>3, <2>4, <2>5, <2>6, <2>7, <2>8, <2>9, <2>10, <2>11, <2>12, <2>13 DEF Refresh, Call
<1>d. ASSUME NEW c \in Goroutines, Refresh(c) \/ Call(c), ~Publish(c) PROVE Shared'
  <2>1. CASE Lead(c)
    BY <1>0, <2>1, ProcessType DEF Lead, Shared
  <2>2. CASE IssuerGrants(c)
    <3>1. issuer.last + 1 \in Grant
      BY <1>0, <2>2, OAuthAssumption DEF IssuerGrants, Shared, Grant
    <3>2. PICK r \in Grant : issuer' = [issuer EXCEPT !.last = issuer.last + 1, !.current = r]
      BY <1>0, <2>2, <3>1 DEF IssuerGrants, Shared
    <3> QED
      BY <1>0, <2>2, <3>1, <3>2 DEF IssuerGrants, Shared
  <2>3. CASE IssuerDetectsReuse(c)
    BY <1>0, <2>3 DEF IssuerDetectsReuse, Shared
  <2>4. CASE SaveSession(c)
    <3>1. loc[c].cred \in Cred /\ loc[c].cred.access \in Grant
      BY <1>a DEF Local, Cred
    <3> QED
      BY <1>0, <2>4, <3>1 DEF SaveSession, Stores, Shared
  <2>5. CASE Rejected(c)
    BY <1>0, <2>5, ProcessType DEF Rejected, Shared
  <2>6. CASE UNCHANGED <<issuer, store, saved, horizon, mem, inflight>>
    BY <1>0, <2>6 DEF Shared
  <2> QED
    BY <1>d, <2>1, <2>2, <2>3, <2>4, <2>5, <2>6 DEF Refresh, Call, CurrentToken, Follow,
       StopWaiting, ReloadStore, NotServed, ReadReply, Answered, RejectedAgain
<1>1. ASSUME NEW c \in Goroutines, Refresh(c) \/ Call(c), ~Publish(c) PROVE TypeOK'
  BY <1>0, <1>1, <1>c, <1>d, AtType
<1>2. ASSUME NEW c \in Goroutines, Publish(c) PROVE TypeOK'
  <2>1. \A d \in Goroutines : Holding(d, loc[c].cred.access) \in Local
    BY <1>a, LoginType DEF Local, Cred, Holding
  <2>2. Adopt(c) \in [Processes -> [cred : Cred, expired : BOOLEAN]]
    <3>1. loc[c].cred \in Cred
      BY <1>a DEF Local
    <3> QED
      BY <1>0, <3>1, ProcessType DEF Adopt, Shared
  <2>3. Shared'
    BY <1>0, <1>2, <2>2, ProcessType DEF Publish, Shared
  <2>4. pc' \in [Goroutines -> Step]
    BY <1>2 DEF Publish, TypeOK, Step, Refreshing
  <2>5. loc' \in [Goroutines -> Local]
    BY <1>a, <1>2, <2>1, LoginType DEF Publish
  <2> QED
    BY <1>0, <2>3, <2>4, <2>5
<1>3. CASE TimePasses
  BY <1>3, OAuthAssumption DEF TimePasses, Grant, TypeOK
<1>4. ASSUME NEW p \in Processes, Crash(p) PROVE TypeOK'
  BY <1>4, LoginType DEF Crash, TypeOK, Step
<1>5. CASE UNCHANGED vars
  BY <1>5 DEF vars, TypeOK
<1> QED
  BY <1>1, <1>2, <1>3, <1>4, <1>5 DEF Next
LEMMA AtEffect ==
    ASSUME TypeOK, NEW c \in Goroutines, NEW step, NEW l, Moves(c, step, l)
    PROVE  /\ pc'[c] = step /\ loc'[c] = l
           /\ \A d \in Goroutines : d # c => pc'[d] = pc[d] /\ loc'[d] = loc[d]
  BY DEF TypeOK, Moves

(* A step of one goroutine that keeps what it is to its session. *)
LEMMA FlightLocal ==
    ASSUME TypeOK, SingleFlight, NEW c \in Goroutines, NEW step, NEW l, Moves(c, step, l),
           UNCHANGED inflight, step \in Refreshing <=> pc[c] \in Refreshing
    PROVE  SingleFlight'
<1>1. /\ pc'[c] = step
      /\ \A d \in Goroutines : d # c => pc'[d] = pc[d]
  BY AtEffect
<1> QED
  BY <1>1 DEF SingleFlight

(* One refresh per session needs nothing else: with the types it is inductive. *)
LEMMA FlightStep ==
    ASSUME TypeOK, SingleFlight, [Next]_vars
    PROVE  SingleFlight'
<1> USE ProcessType
<1>1. ASSUME NEW c \in Goroutines,
             \/ CurrentToken(c) \/ Follow(c) \/ StopWaiting(c)
             \/ Answered(c) \/ Rejected(c) \/ RejectedAgain(c)
      PROVE  SingleFlight'
  <2>1. PICK step, l : Moves(c, step, l) /\ step \notin Refreshing
    BY <1>1 DEF CurrentToken, Follow, StopWaiting, Answered, Rejected, RejectedAgain, Returns, Refreshing
  <2>2. pc[c] \notin Refreshing /\ UNCHANGED inflight
    BY <1>1 DEF CurrentToken, Follow, StopWaiting, Answered, Rejected, RejectedAgain, Refreshing
  <2> QED
    BY <2>1, <2>2, FlightLocal
<1>2. ASSUME NEW c \in Goroutines,
             \/ ReloadStore(c) \/ NotServed(c) \/ IssuerGrants(c) \/ IssuerDetectsReuse(c)
             \/ ReadReply(c) \/ SaveSession(c)
      PROVE  SingleFlight'
  <2>1. PICK step, l : Moves(c, step, l) /\ step \in Refreshing
    BY <1>2 DEF ReloadStore, NotServed, IssuerGrants, IssuerDetectsReuse, ReadReply, SaveSession,
                RetryOrFail, NotRefreshed, Refreshed, Refreshing
  <2>2. pc[c] \in Refreshing /\ UNCHANGED inflight
    BY <1>2 DEF ReloadStore, NotServed, IssuerGrants, IssuerDetectsReuse, ReadReply, SaveSession,
                Refreshing
  <2> QED
    BY <2>1, <2>2, FlightLocal
<1>3. ASSUME NEW c \in Goroutines, Lead(c) PROVE SingleFlight'
  <2>1. /\ pc[c] = "call" /\ inflight[Process(c)] = Nobody
        /\ Moves(c, "load", [loc[c] EXCEPT !.refresh = mem[Process(c)].cred.refresh])
        /\ inflight' = [inflight EXCEPT ![Process(c)] = c]
    BY <1>3 DEF Lead
  <2>2. pc'[c] = "load" /\ \A d \in Goroutines : d # c => pc'[d] = pc[d]
    BY <2>1, AtEffect
  <2> QED
    BY <2>1, <2>2, OAuthAssumption DEF SingleFlight, Refreshing, TypeOK, Goroutines
<1>4. ASSUME NEW c \in Goroutines, Publish(c) PROVE SingleFlight'
  <2>1. /\ pc[c] = "publish" /\ inflight'[Process(c)] = Nobody
        /\ \A p \in Processes : p # Process(c) => inflight'[p] = inflight[p]
    BY <1>4 DEF Publish, TypeOK
  <2>2. \A d \in Goroutines :
          IF d = c \/ (pc[d] = "follow" /\ Process(d) = Process(c))
          THEN pc'[d] \in {"request", "call"} ELSE pc'[d] = pc[d]
    BY <1>4 DEF Publish, Waiting
  <2>3. \A d \in Goroutines : Process(d) = Process(c) /\ pc[d] \in Refreshing => d = c
    BY <2>1 DEF SingleFlight, Refreshing
  <2> QED
    BY <2>1, <2>2, <2>3, OAuthAssumption DEF SingleFlight, Refreshing, Goroutines
<1>5. ASSUME NEW p \in Processes, Crash(p) PROVE SingleFlight'
  <2>1. /\ inflight'[p] = Nobody
        /\ \A q \in Processes : q # p => inflight'[q] = inflight[q]
    BY <1>5 DEF Crash, TypeOK
  <2>2. \A d \in Goroutines : IF Process(d) = p THEN pc'[d] = "call" ELSE pc'[d] = pc[d]
    BY <1>5 DEF Crash
  <2> QED
    BY <2>1, <2>2, OAuthAssumption DEF SingleFlight, Refreshing, Goroutines
<1>6. CASE TimePasses \/ UNCHANGED vars
  BY <1>6 DEF TimePasses, vars, SingleFlight
<1> QED
  BY <1>1, <1>2, <1>3, <1>4, <1>5, <1>6 DEF Next, Refresh, Call

(* At the start nothing is in flight. *)
LEMMA FlightInitially == Init => TypeOK /\ SingleFlight
<1> SUFFICES ASSUME Init PROVE TypeOK /\ SingleFlight
  OBVIOUS
<1>1. TypeOK
  BY LoginType, OAuthAssumption DEF Init, TypeOK, Step, Grant, Cred
<1>2. SingleFlight
  BY ProcessType, OAuthAssumption DEF Init, SingleFlight, Refreshing, Goroutines
<1> QED
  BY <1>1, <1>2

(* At most one refresh of a session is in flight, and the goroutine that   *)
(* leads it is the one the session knows (oauth_session.go:103), whether   *)
(* or not the issuer rotates and whatever fails.                           *)
THEOREM SingleFlightHolds == Spec => []SingleFlight
<1>1. TypeOK /\ SingleFlight /\ [Next]_vars => (TypeOK /\ SingleFlight)'
  BY TypeStep, FlightStep
<1> QED
  BY <1>1, FlightInitially, PTL DEF Spec

-----------------------------------------------------------------------------
(* Any number of processes. *)

LEMMA Values ==
    TypeOK => /\ saved \subseteq Nat /\ 0 \notin saved /\ issuer.last \in Nat
              /\ \A p \in Processes : 0 # mem[p].cred.access
              /\ \A c \in Goroutines : loc[c].cred.access \in Nat /\ loc[c].cred.access # 0
  BY OAuthAssumption DEF TypeOK, Cred, Grant, Local

FreshFields == Fresh.rejected = 0 /\ Fresh.ok = FALSE
LEMMA FreshValues == FreshFields
  BY DEF FreshFields, Fresh

(* A step of one goroutine that changes only its own pc and local          *)
(* variables: what the parts ask of it afterwards is all there is to show. *)
LEMMA LocalStep ==
    ASSUME TypeOK, SingleFlight, Parts, NEW c \in Goroutines, NEW step, NEW l, Moves(c, step, l),
           UNCHANGED <<issuer, store, saved, mem>>,
           step = "load" => l.refresh = mem[Process(c)].cred.refresh,
           step \in {"reply", "save"} =>
               pc[c] \in {"reply", "save"} /\ l.cred.access = loc[c].cred.access,
           step = "publish" /\ l.ok =>
               /\ pc[c] \in Refreshing
               /\ l.cred = store
               /\ mem[Process(c)].cred.access # store.access,
           l.rejected \in {0, loc[c].rejected},
           step = "call" /\ l.rejected # 0 => mem[Process(c)].expired \/ pc[c] = "call",
           step = "request" => /\ l.tok = mem[Process(c)].cred.access
                               /\ l.rejected # l.tok
    PROVE  Parts'
<1> USE Values, ProcessType
<1>0. Stored /\ Loads /\ Granted /\ Results /\ Tokens
  BY DEF Parts
<1>1. /\ pc'[c] = step /\ loc'[c] = l
      /\ \A d \in Goroutines : d # c => pc'[d] = pc[d] /\ loc'[d] = loc[d]
  BY AtEffect
<1>2. Stored' /\ Loads'
  BY <1>0, <1>1 DEF Stored, Loads
<1>3. Granted'
  BY <1>0, <1>1 DEF Granted, Held
<1>4. Tokens'
  BY <1>0, <1>1 DEF Tokens, Used, Gone
<1>5. ASSUME NEW d \in Goroutines, pc'[d] = "publish", loc'[d].ok PROVE Result(d)'
  <2>1. CASE d # c
    <3>1. Result(d)
      BY <1>0, <1>1, <1>5, <2>1 DEF Results
    <3> QED
      BY <1>1, <2>1, <3>1 DEF Result
  <2>2. CASE d = c
    <3>1. /\ l.cred = store /\ mem[Process(c)].cred.access # store.access
          /\ step = "publish" /\ loc'[c].cred = store /\ pc[c] \in Refreshing
      BY <1>1, <1>5, <2>2
    <3>2. \A e \in Goroutines : Process(e) = Process(c) =>
             /\ loc[e].rejected # store.access
             /\ pc[e] = "request" => loc[e].tok # store.access
      BY <1>0, <3>1 DEF Tokens, Used, Gone, Stored
    <3>3. \A e \in Goroutines : Process(e) = Process(c) =>
             /\ loc'[e].rejected # store.access
             /\ pc'[e] = "request" => loc'[e].tok # store.access
      BY <1>0, <1>1, <3>1, <3>2 DEF Stored
    <3> QED
      BY <1>0, <2>2, <3>1, <3>3 DEF Result, Stored
  <2> QED
    BY <2>1, <2>2
<1> QED
  BY <1>2, <1>3, <1>4, <1>5 DEF Parts, Results

(* A granted session reaches the store, whatever Save then reports. *)
LEMMA StoringStep ==
    ASSUME TypeOK, SingleFlight, Parts, NEW c \in Goroutines, pc[c] = "save",
           Stores(loc[c].cred), NEW l, Moves(c, "publish", l), UNCHANGED <<issuer, mem>>,
           l.rejected \in {0, loc[c].rejected},
           l.ok => l.cred = loc[c].cred
    PROVE  Parts'
<1> USE Values, ProcessType
<1>0. Stored /\ Loads /\ Granted /\ Results /\ Tokens
  BY DEF Parts
<1>1. /\ pc'[c] = "publish" /\ loc'[c] = l
      /\ \A d \in Goroutines : d # c => pc'[d] = pc[d] /\ loc'[d] = loc[d]
  BY AtEffect
<1> DEFINE x == loc[c].cred.access
<1>2. /\ x \notin saved /\ x <= issuer.last /\ x # 0
      /\ \A d \in Held : d # c => loc[d].cred.access # x
  BY <1>0 DEF Granted, Held
<1>3. store' = loc[c].cred /\ store'.access = x /\ saved' = saved \cup {x}
  BY DEF Stores
<1>4. Gone' = saved
  BY <1>2, <1>3 DEF Gone
<1> HIDE DEF x
<1>5. Stored' /\ Loads'
  BY <1>0, <1>1, <1>2, <1>3 DEF Stored, Loads
<1>6. Granted'
  BY <1>0, <1>1, <1>2, <1>3 DEF Granted, Held
<1>7. \A p \in Processes : \A n : Used(p, n) => n \in saved /\ Used(p, n)'
  BY <1>0, <1>4 DEF Used, Gone, Stored
<1>8. Tokens'
  BY <1>0, <1>1, <1>7 DEF Tokens
<1>9. ASSUME NEW d \in Goroutines, pc'[d] = "publish", loc'[d].ok PROVE Result(d)'
  <2>1. CASE d # c
    <3>1. Result(d)
      BY <1>0, <1>1, <1>9, <2>1 DEF Results
    <3>2. /\ loc'[d] = loc[d] /\ loc[d].cred.access # x /\ mem[Process(d)].cred.access # x
      BY <1>0, <1>1, <1>2, <2>1, <3>1 DEF Result, Stored
    <3>3. \A e \in Goroutines : Process(e) = Process(d) =>
             /\ loc'[e].rejected # loc[d].cred.access
             /\ pc'[e] = "request" => loc'[e].tok # loc[d].cred.access
      BY <1>1, <3>1 DEF Result
    <3> QED
      BY <1>3, <3>1, <3>2, <3>3 DEF Result
  <2>2. CASE d = c
    <3>1. loc'[d].cred = store' /\ mem[Process(c)].cred.access # x
      BY <1>0, <1>1, <1>2, <1>3, <1>9, <2>2 DEF Stored
    <3>2. \A e \in Goroutines :
             /\ loc'[e].rejected # x
             /\ pc'[e] = "request" => loc'[e].tok # x
      BY <1>0, <1>1, <1>2, <1>7 DEF Tokens
    <3> QED
      BY <1>3, <2>2, <3>1, <3>2 DEF Result
  <2> QED
    BY <2>1, <2>2
<1> QED
  BY <1>5, <1>6, <1>8, <1>9 DEF Parts, Results

LEMMA PartsStep ==
    ASSUME TypeOK, SingleFlight, Parts, [Next]_vars
    PROVE  Parts'
<1> USE Values, FreshValues, ProcessType DEF FreshFields
<1>a. Stored /\ Loads /\ Granted /\ Results /\ Tokens
  BY DEF Parts
<1>1. ASSUME NEW c \in Goroutines, CurrentToken(c) PROVE Parts'
  <2> DEFINE l == Holding(c, mem[Process(c)].cred.access)
  <2>1. Moves(c, "request", l) /\ pc[c] = "call" /\ ~mem[Process(c)].expired
    BY <1>1 DEF CurrentToken, Due
  <2>2. l.rejected = loc[c].rejected /\ l.tok = mem[Process(c)].cred.access
    BY DEF Holding, Fresh
  <2> HIDE DEF l
  <2> QED
    BY <1>a, <1>1, <2>1, <2>2, LocalStep DEF CurrentToken, Tokens
<1>2. ASSUME NEW c \in Goroutines, Follow(c) PROVE Parts'
  BY <1>2, LocalStep DEF Follow
<1>3. ASSUME NEW c \in Goroutines,
             StopWaiting(c) \/ Answered(c) \/ RejectedAgain(c) PROVE Parts'
  BY <1>3, LocalStep DEF StopWaiting, Answered, RejectedAgain, Returns
<1>4. ASSUME NEW c \in Goroutines, ReloadStore(c) PROVE Parts'
  <2>0. UNCHANGED <<issuer, store, saved, mem>> /\ pc[c] = "load"
    BY <1>4 DEF ReloadStore
  <2>1. CASE Moves(c, "send", [loc[c] EXCEPT !.tries = 1])
    <3> DEFINE l == [loc[c] EXCEPT !.tries = 1]
    <3>1. l.rejected = loc[c].rejected /\ Moves(c, "send", l)
      BY <2>1 DEF TypeOK, Local
    <3> HIDE DEF l
    <3> QED
      BY <2>0, <3>1, LocalStep
  <2>2. CASE Refreshed(c, store) /\ store.refresh # loc[c].refresh
    <3> DEFINE l == [Fresh EXCEPT !.cred = store, !.ok = TRUE, !.rejected = loc[c].rejected]
    <3>1. l.cred = store /\ l.rejected = loc[c].rejected
      BY DEF Fresh
    <3>2. Moves(c, "publish", l)
      BY <2>2 DEF Refreshed
    <3> HIDE DEF l
    <3>3. mem[Process(c)].cred.access # store.access
      BY <1>a, <2>0, <2>2 DEF Stored, Loads
    <3> QED
      BY <2>0, <3>1, <3>2, <3>3, LocalStep DEF Refreshing
  <2>3. CASE Moves(c, "send", [loc[c] EXCEPT !.refresh = store.refresh, !.tries = 1])
    <3> DEFINE l == [loc[c] EXCEPT !.refresh = store.refresh, !.tries = 1]
    <3>1. l.rejected = loc[c].rejected /\ Moves(c, "send", l)
      BY <2>3 DEF TypeOK, Local
    <3> HIDE DEF l
    <3> QED
      BY <2>0, <3>1, LocalStep
  <2> QED
    BY <1>4, <2>1, <2>2, <2>3 DEF ReloadStore
<1>5. ASSUME NEW c \in Goroutines, RetryOrFail(c),
             UNCHANGED <<issuer, store, saved, mem>> PROVE Parts'
  <2>1. CASE Moves(c, "send", [loc[c] EXCEPT !.tries = @ + 1])
    BY <1>5, <2>1, LocalStep DEF TypeOK, Local
  <2>2. CASE NotRefreshed(c)
    BY <1>5, <2>2, LocalStep DEF NotRefreshed
  <2> QED
    BY <1>5, <2>1, <2>2 DEF RetryOrFail
<1>6. ASSUME NEW c \in Goroutines, NotServed(c) PROVE Parts'
  BY <1>5, <1>6 DEF NotServed
<1>7. ASSUME NEW c \in Goroutines, ReadReply(c) PROVE Parts'
  <2>1. CASE Moves(c, "save", loc[c])
    BY <1>7, <2>1, LocalStep DEF ReadReply
  <2>2. CASE NotRefreshed(c)
    BY <1>7, <2>2, LocalStep DEF ReadReply, NotRefreshed
  <2> QED
    BY <1>5, <1>7, <2>1, <2>2 DEF ReadReply
<1>8. ASSUME NEW c \in Goroutines, Lead(c) PROVE Parts'
  <2> DEFINE l == [loc[c] EXCEPT !.refresh = mem[Process(c)].cred.refresh]
  <2>1. /\ l.rejected = loc[c].rejected /\ l.refresh = mem[Process(c)].cred.refresh
        /\ Moves(c, "load", l)
    BY <1>8 DEF Lead, TypeOK, Local
  <2> HIDE DEF l
  <2> QED
    BY <1>8, <2>1, LocalStep DEF Lead
<1>9. ASSUME NEW c \in Goroutines, IssuerGrants(c) PROVE Parts'
  <2>1. PICK r : /\ pc[c] = "send" /\ issuer'.last = issuer.last + 1
                 /\ Moves(c, "reply", [loc[c] EXCEPT !.cred = [access  |-> issuer.last + 1,
                                                              refresh |-> r]])
    BY <1>9 DEF IssuerGrants, TypeOK
  <2>2. /\ pc'[c] = "reply" /\ loc'[c].cred.access = issuer.last + 1
        /\ loc'[c].rejected = loc[c].rejected
        /\ \A d \in Goroutines : d # c => pc'[d] = pc[d] /\ loc'[d] = loc[d]
    BY <2>1, AtEffect DEF TypeOK, Local
  <2>3. UNCHANGED <<store, saved, mem>>
    BY <1>9 DEF IssuerGrants
  <2>4. Stored' /\ Loads' /\ Tokens'
    BY <1>a, <2>1, <2>2, <2>3 DEF Stored, Loads, Tokens, Used, Gone
  <2>5. Granted'
    BY <1>a, <2>1, <2>2, <2>3 DEF Stored, Granted, Held
  <2>6. ASSUME NEW d \in Goroutines, pc'[d] = "publish", loc'[d].ok PROVE Result(d)'
    <3>1. Result(d) /\ d # c
      BY <1>a, <2>2, <2>6 DEF Results
    <3> QED
      BY <2>1, <2>2, <2>3, <3>1 DEF Result
  <2> QED
    BY <2>4, <2>5, <2>6 DEF Parts, Results
<1>10. ASSUME NEW c \in Goroutines, IssuerDetectsReuse(c) PROVE Parts'
  <2>1. issuer'.last = issuer.last /\ UNCHANGED <<store, saved, mem>>
    BY <1>10 DEF IssuerDetectsReuse, TypeOK
  <2>2. /\ pc[c] = "send" /\ pc'[c] = "publish" /\ loc'[c] = Fresh
        /\ \A d \in Goroutines : d # c => pc'[d] = pc[d] /\ loc'[d] = loc[d]
    BY <1>10, AtEffect DEF IssuerDetectsReuse, NotRefreshed
  <2>3. Stored' /\ Loads' /\ Granted' /\ Tokens'
    BY <1>a, <2>1, <2>2 DEF Stored, Loads, Granted, Held, Tokens, Used, Gone
  <2>4. ASSUME NEW d \in Goroutines, pc'[d] = "publish", loc'[d].ok PROVE Result(d)'
    <3>1. Result(d) /\ d # c /\ loc[d].cred.access # 0
      BY <1>a, <2>2, <2>4 DEF Results
    <3> QED
      BY <2>1, <2>2, <3>1 DEF Result
  <2> QED
    BY <2>3, <2>4 DEF Parts, Results
<1>11. ASSUME NEW c \in Goroutines, SaveSession(c) PROVE Parts'
  <2> DEFINE done == [Fresh EXCEPT !.cred = loc[c].cred, !.ok = TRUE, !.rejected = loc[c].rejected]
  <2>1. done.cred = loc[c].cred /\ done.rejected = loc[c].rejected
    BY DEF Fresh
  <2>2. \/ Stores(loc[c].cred) /\ Moves(c, "publish", done)
        \/ Stores(loc[c].cred) /\ Moves(c, "publish", Fresh)
        \/ UNCHANGED <<store, saved>> /\ Moves(c, "publish", Fresh)
    BY <1>11 DEF SaveSession, NotRefreshed, Refreshed
  <2>3. pc[c] = "save" /\ UNCHANGED <<issuer, mem>>
    BY <1>11 DEF SaveSession
  <2> HIDE DEF done
  <2>4. CASE Stores(loc[c].cred) /\ Moves(c, "publish", done)
    BY <2>1, <2>3, <2>4, StoringStep
  <2>5. CASE Stores(loc[c].cred) /\ Moves(c, "publish", Fresh)
    BY <2>3, <2>5, StoringStep
  <2>6. CASE UNCHANGED <<store, saved>> /\ Moves(c, "publish", Fresh)
    BY <2>3, <2>6, LocalStep
  <2> QED
    BY <2>2, <2>4, <2>5, <2>6
<1>12. ASSUME NEW c \in Goroutines, Rejected(c) PROVE Parts'
  <2>1. /\ pc[c] = "request" /\ pc'[c] = "call" /\ loc'[c].rejected = loc[c].tok
        /\ \A d \in Goroutines : d # c => pc'[d] = pc[d] /\ loc'[d] = loc[d]
    BY <1>12, AtEffect DEF Rejected, Fresh
  <2>2. /\ UNCHANGED <<issuer, store, saved>>
        /\ mem'[Process(c)].expired
        /\ \A p \in Processes : /\ mem'[p].cred = mem[p].cred
                                /\ mem[p].expired => mem'[p].expired
    BY <1>12 DEF Rejected, TypeOK
  <2>3. Stored' /\ Loads' /\ Granted'
    BY <1>a, <2>1, <2>2 DEF Stored, Loads, Granted, Held
  <2>4. \A p \in Processes : \A n : Used(p, n)' <=> Used(p, n)
    BY <2>2 DEF Used, Gone
  <2>5. Tokens'
    BY <1>a, <2>1, <2>2, <2>4 DEF Tokens
  <2>6. ASSUME NEW d \in Goroutines, pc'[d] = "publish", loc'[d].ok PROVE Result(d)'
    <3>1. Result(d) /\ d # c
      BY <1>a, <2>1, <2>6 DEF Results
    <3> QED
      BY <2>1, <2>2, <3>1 DEF Result
  <2> QED
    BY <2>3, <2>5, <2>6 DEF Parts, Results
<1>13. ASSUME NEW c \in Goroutines, Publish(c), loc[c].ok PROVE Parts'
  <2>1. /\ pc[c] = "publish" /\ UNCHANGED <<issuer, store, saved>>
        /\ mem'[Process(c)].cred = loc[c].cred
        /\ \A p \in Processes : p # Process(c) => mem'[p] = mem[p]
    BY <1>13 DEF Publish, Adopt, TypeOK
  <2>2. \A d \in Goroutines :
          IF d = c \/ (pc[d] = "follow" /\ Process(d) = Process(c))
          THEN /\ pc'[d] = "request" /\ loc'[d].tok = loc[c].cred.access
               /\ loc'[d].rejected = loc[d].rejected
          ELSE pc'[d] = pc[d] /\ loc'[d] = loc[d]
    BY <1>13 DEF Publish, Waiting, Holding, Fresh
  <2>3. \A d \in Goroutines : Process(d) = Process(c) /\ pc[d] \in Refreshing => d = c
    BY <2>1 DEF SingleFlight, Refreshing
  <2>4. Result(c)
    BY <1>a, <1>13, <2>1 DEF Results
  <2>5. Stored' /\ Loads'
    BY <1>a, <2>1, <2>2, <2>3, <2>4 DEF Stored, Loads, Result, Refreshing
  <2>6. Granted'
    BY <1>a, <2>1, <2>2 DEF Granted, Held
  <2>7. \A n : Used(Process(c), n) => Used(Process(c), n)' /\ n \in saved
    BY <1>a, <2>1, <2>4 DEF Used, Gone, Stored, Result
  <2>8. \A p \in Processes : \A n : p # Process(c) => (Used(p, n)' <=> Used(p, n))
    BY <2>1 DEF Used, Gone
  <2>9. Tokens'
    <3>1. \A n : n = loc[c].cred.access => Used(Process(c), n)'
      BY <2>1 DEF Used
    <3>2. ASSUME NEW d \in Goroutines
          PROVE  /\ loc'[d].rejected = loc[d].rejected
                 /\ pc'[d] = "call" => pc[d] = "call"
                 /\ pc'[d] = "request" => \/ pc[d] = "request" /\ loc'[d].tok = loc[d].tok
                                          \/ /\ Process(d) = Process(c)
                                             /\ loc'[d].tok = loc[c].cred.access
      BY <2>2
    <3>3. ASSUME NEW d \in Goroutines, Process(d) = Process(c)
          PROVE  /\ loc[d].rejected # loc[c].cred.access
                 /\ pc[d] = "request" => loc[d].tok # loc[c].cred.access
      BY <2>4, <3>3 DEF Result
    <3>4. ASSUME NEW d \in Goroutines
          PROVE  (loc[d].rejected = 0 \/ Used(Process(d), loc[d].rejected))'
      BY <1>a, <2>7, <2>8, <3>2 DEF Tokens
    <3>5. ASSUME NEW d \in Goroutines, pc'[d] = "call", ~mem'[Process(d)].expired
          PROVE  loc'[d].rejected # mem'[Process(d)].cred.access
      BY <1>a, <2>1, <3>2, <3>3, <3>5 DEF Tokens
    <3>6. ASSUME NEW d \in Goroutines, pc'[d] = "request"
          PROVE  (Used(Process(d), loc[d].tok) /\ loc[d].rejected # loc[d].tok)'
      BY <1>a, <2>7, <2>8, <3>1, <3>2, <3>3, <3>6 DEF Tokens
    <3> QED
      BY <3>4, <3>5, <3>6 DEF Tokens
  <2>10. ASSUME NEW d \in Goroutines, pc'[d] = "publish", loc'[d].ok PROVE Result(d)'
    <3>1. pc[d] = "publish" /\ loc'[d] = loc[d] /\ Process(d) # Process(c)
      BY <2>1, <2>2, <2>3, <2>10 DEF Refreshing
    <3>2. Result(d)
      BY <1>a, <2>10, <3>1 DEF Results
    <3>3. \A e \in Goroutines : Process(e) = Process(d) => pc'[e] = pc[e] /\ loc'[e] = loc[e]
      BY <2>2, <3>1
    <3> QED
      BY <2>1, <3>1, <3>2, <3>3 DEF Result
  <2> QED
    BY <2>5, <2>6, <2>9, <2>10 DEF Parts, Results
<1>14. ASSUME NEW c \in Goroutines, Publish(c), ~loc[c].ok PROVE Parts'
  <2>1. pc[c] = "publish" /\ UNCHANGED <<issuer, store, saved, mem>>
    BY <1>14 DEF Publish
  <2>2. \A d \in Goroutines :
          IF d = c \/ (pc[d] = "follow" /\ Process(d) = Process(c))
          THEN pc'[d] = "call" /\ loc'[d] = Fresh
          ELSE pc'[d] = pc[d] /\ loc'[d] = loc[d]
    BY <1>14 DEF Publish, Waiting
  <2>3. Stored' /\ Loads' /\ Granted'
    BY <1>a, <2>1, <2>2 DEF Stored, Loads, Granted, Held
  <2>4. Tokens'
    <3>1. \A p \in Processes : \A n : Used(p, n) => Used(p, n)'
      BY <2>1 DEF Used, Gone
    <3>2. ASSUME NEW d \in Goroutines
          PROVE  \/ pc'[d] = pc[d] /\ loc'[d] = loc[d]
                 \/ pc'[d] = "call" /\ loc'[d].rejected = 0
      BY <2>2
    <3>3. mem' = mem
      BY <2>1
    <3>4. ASSUME NEW d \in Goroutines
          PROVE  (loc[d].rejected = 0 \/ Used(Process(d), loc[d].rejected))'
      BY <1>a, <3>1, <3>2 DEF Tokens
    <3>5. ASSUME NEW d \in Goroutines, pc'[d] = "call", ~mem'[Process(d)].expired
          PROVE  loc'[d].rejected # mem'[Process(d)].cred.access
      BY <1>a, <3>2, <3>3, <3>5 DEF Tokens
    <3>6. ASSUME NEW d \in Goroutines, pc'[d] = "request"
          PROVE  (Used(Process(d), loc[d].tok) /\ loc[d].rejected # loc[d].tok)'
      BY <1>a, <3>1, <3>2, <3>6 DEF Tokens
    <3> QED
      BY <3>4, <3>5, <3>6 DEF Tokens
  <2>5. ASSUME NEW d \in Goroutines, pc'[d] = "publish", loc'[d].ok PROVE Result(d)'
    <3>1. Result(d) /\ loc'[d] = loc[d] /\ loc[d].cred.access # 0
      BY <1>a, <2>2, <2>5 DEF Results
    <3> QED
      BY <2>1, <2>2, <3>1 DEF Result
  <2> QED
    BY <2>3, <2>4, <2>5 DEF Parts, Results
<1>15. ASSUME NEW p \in Processes, Crash(p) PROVE Parts'
  <2>1. /\ mem'[p].cred = store /\ UNCHANGED <<issuer, store, saved>>
        /\ \A q \in Processes : q # p => mem'[q] = mem[q]
    BY <1>15 DEF Crash, TypeOK
  <2>2. \A d \in Goroutines : IF Process(d) = p THEN pc'[d] = "call" /\ loc'[d] = Fresh
                           ELSE pc'[d] = pc[d] /\ loc'[d] = loc[d]
    BY <1>15 DEF Crash
  <2>3. Stored' /\ Loads' /\ Granted'
    BY <1>a, <2>1, <2>2 DEF Stored, Loads, Granted, Held
  <2>4. Tokens'
    <3>1. ASSUME NEW d \in Goroutines, Process(d) = p
          PROVE  pc'[d] = "call" /\ loc'[d].rejected = 0 /\ mem'[Process(d)].cred.access # 0
      BY <1>a, <2>1, <2>2, <3>1 DEF Stored
    <3>2. ASSUME NEW d \in Goroutines, Process(d) # p
          PROVE  /\ pc'[d] = pc[d] /\ loc'[d] = loc[d] /\ mem'[Process(d)] = mem[Process(d)]
                 /\ \A n : Used(Process(d), n) => Used(Process(d), n)'
      BY <2>1, <2>2, <3>2 DEF Used, Gone
    <3>3. ASSUME NEW d \in Goroutines
          PROVE  (loc[d].rejected = 0 \/ Used(Process(d), loc[d].rejected))'
      BY <1>a, <3>1, <3>2 DEF Tokens
    <3>4. ASSUME NEW d \in Goroutines, pc'[d] = "call", ~mem'[Process(d)].expired
          PROVE  loc'[d].rejected # mem'[Process(d)].cred.access
      BY <1>a, <3>1, <3>2, <3>4 DEF Tokens
    <3>5. ASSUME NEW d \in Goroutines, pc'[d] = "request"
          PROVE  (Used(Process(d), loc[d].tok) /\ loc[d].rejected # loc[d].tok)'
      BY <1>a, <3>1, <3>2, <3>5 DEF Tokens
    <3> QED
      BY <3>3, <3>4, <3>5 DEF Tokens
  <2>5. ASSUME NEW d \in Goroutines, pc'[d] = "publish", loc'[d].ok PROVE Result(d)'
    <3>1. Process(d) # p /\ Result(d) /\ loc'[d] = loc[d]
      BY <1>a, <2>2, <2>5 DEF Results
    <3> QED
      BY <2>1, <2>2, <3>1 DEF Result
  <2> QED
    BY <2>3, <2>4, <2>5 DEF Parts, Results
<1>16. CASE TimePasses \/ UNCHANGED vars
  <2>1. UNCHANGED <<issuer, store, saved, mem, pc, loc>>
    BY <1>16 DEF TimePasses, vars
  <2> QED
    BY <1>a, <2>1 DEF Parts, Stored, Loads, Granted, Held, Results, Result, Tokens, Used, Gone
<1> QED
  BY <1>1, <1>2, <1>3, <1>4, <1>6, <1>7, <1>8, <1>9, <1>10, <1>11, <1>12, <1>13, <1>14,
     <1>15, <1>16 DEF Next, Refresh, Call

(* The invariant is one: it holds at the start and every step keeps it.    *)
THEOREM SessionInvariance == Spec => []SessionInv
<1>1. Init => SessionInv
  <2> SUFFICES ASSUME Init PROVE SessionInv
    OBVIOUS
  <2>1. TypeOK /\ SingleFlight
    BY FlightInitially
  <2>2. Stored /\ Loads /\ Granted /\ Results /\ Tokens
    BY ProcessType, FreshValues
       DEF Init, FreshFields, Stored, Loads, Granted, Held, Results, Tokens, Used, Gone, Login
  <2> QED
    BY <2>1, <2>2 DEF SessionInv, Parts
<1>2. SessionInv /\ [Next]_vars => SessionInv'
  BY TypeStep, FlightStep, PartsStep DEF SessionInv
<1> QED
  BY <1>1, <1>2, PTL DEF Spec

(* No process works with a session that was not saved first, whatever      *)
(* calls fail, whenever a process is killed and whether or not the issuer  *)
(* rotates.                                                                *)
THEOREM PersistBeforeUseHolds == Spec => []PersistBeforeUse
<1>1. SessionInv => PersistBeforeUse
  BY ProcessType DEF SessionInv, Parts, Stored, Tokens, Used, Gone, PersistBeforeUse
<1> QED
  BY <1>1, SessionInvariance, PTL

(* The retry of a 401 never resends the rejected token, for any issuer. *)
THEOREM RetryUsesNewTokenHolds == Spec => []RetryUsesNewToken
<1>1. SessionInv => RetryUsesNewToken
  BY DEF SessionInv, Parts, Tokens, RetryUsesNewToken
<1> QED
  BY <1>1, SessionInvariance, PTL

(* Neither the store nor the memory of any process goes back to a session  *)
(* that had been replaced, with any number of processes, any of the faults *)
(* and any issuer.                                                         *)
THEOREM NeverRevertsHolds == Spec => NeverReverts
<1> DEFINE Forward == /\ store' # store => store'.access \notin saved
                      /\ \A p \in Processes :
                            mem'[p].cred # mem[p].cred => mem[p].cred.access # store'.access
<1>1. SessionInv /\ [Next]_vars => [Forward]_vars
  <2> SUFFICES ASSUME SessionInv, Next PROVE Forward
    OBVIOUS
  <2> USE ProcessType
  <2>0. TypeOK /\ Stored /\ Granted /\ Results
    BY DEF SessionInv, Parts
  <2>1. ASSUME NEW c \in Goroutines, SaveSession(c) PROVE Forward
    BY <2>0, <2>1 DEF SaveSession, Stores, Granted, Held
  <2>2. ASSUME NEW c \in Goroutines, Publish(c) PROVE Forward
    BY <2>0, <2>2 DEF Publish, Adopt, Results, Result, TypeOK
  <2>3. ASSUME NEW c \in Goroutines, Rejected(c) PROVE Forward
    BY <2>0, <2>3 DEF Rejected, TypeOK
  <2>4. ASSUME NEW p \in Processes, Crash(p) PROVE Forward
    BY <2>0, <2>4 DEF Crash, Stored, TypeOK
  <2>5. CASE UNCHANGED <<store, mem>>
    BY <2>5
  <2> QED
    BY <2>1, <2>2, <2>3, <2>4, <2>5 DEF Next, Refresh, Call, CurrentToken, Follow, Lead,
       StopWaiting, ReloadStore, NotServed, IssuerGrants, IssuerDetectsReuse, ReadReply,
       Answered, RejectedAgain, TimePasses
<1> QED
  BY <1>1, SessionInvariance, PTL DEF Spec, NeverReverts

-----------------------------------------------------------------------------
(* One process. *)

(* One process that can read its store; its requests, answers and saves    *)
(* may fail and it may be killed.                                          *)
Alone == /\ \A p, q \in Processes : p = q
         /\ "load" \notin Faults

(* What the store holds, and what a leader presents, is in force unless    *)
(* the token in force was never stored; a leader that holds a grant has    *)
(* the token in force, and nothing has been revoked.                       *)
InForce ==
    /\ NeverReuses /\ StoreInForce
    /\ \A c \in Goroutines : pc[c] \in {"send", "reply"} =>
           loc[c].refresh = issuer.current \/ Unsaved
    /\ \A c \in Held : loc[c].cred.refresh = issuer.current /\ ~issuer.revoked

ForceInv == SessionInv /\ InForce

(* One process has one leader. *)
LEMMA OneLeader ==
    ASSUME Alone, SingleFlight
    PROVE  \A c, d \in Goroutines : pc[c] \in Refreshing /\ pc[d] \in Refreshing => c = d
BY ProcessType DEF Alone, SingleFlight

(* A step of a goroutine that holds no grant after it. *)
LEMMA ForceLocal ==
    ASSUME ForceInv, NEW c \in Goroutines, NEW step, NEW l, Moves(c, step, l),
           UNCHANGED <<issuer, store, saved>>, step \notin {"reply", "save"},
           step = "send" => l.refresh = issuer.current \/ Unsaved
    PROVE  InForce'
<1>1. /\ pc'[c] = step /\ loc'[c] = l
      /\ \A d \in Goroutines : d # c => pc'[d] = pc[d] /\ loc'[d] = loc[d]
  BY AtEffect DEF ForceInv, SessionInv
<1> QED
  BY <1>1 DEF ForceInv, InForce, Held, NeverReuses, StoreInForce, Unsaved

(* Every step keeps the token in force where the next refresh looks for it, *)
(* or unknown to the store.                                                 *)
LEMMA ForceStep ==
    ASSUME Alone, ForceInv, [Next]_vars
    PROVE  ForceInv'
<1>0. /\ TypeOK /\ SingleFlight /\ Stored /\ Granted /\ InForce
      /\ "load" \notin Faults
  BY DEF ForceInv, SessionInv, Parts, Alone
<1> USE DEF InForce, Held
<1>a. ASSUME NEW c \in Goroutines, pc[c] \in Refreshing
      PROVE  \A d \in Goroutines : d # c => pc[d] \notin Refreshing
  BY <1>0, <1>a, OneLeader
<1>1. ASSUME NEW c \in Goroutines, Call(c) PROVE InForce'
  <2>1. PICK step, l : Moves(c, step, l) /\ step \notin {"send", "reply", "save"}
    BY <1>1 DEF Call, CurrentToken, Follow, Lead, StopWaiting, Answered, Rejected, RejectedAgain,
                Returns
  <2>2. UNCHANGED <<issuer, store, saved>>
    BY <1>1 DEF Call, CurrentToken, Follow, Lead, StopWaiting, Answered, Rejected, RejectedAgain
  <2> QED
    BY <2>1, <2>2, ForceLocal
<1>2. ASSUME NEW c \in Goroutines, ReloadStore(c) PROVE InForce'
  <2>1. pc[c] = "load" /\ UNCHANGED <<issuer, store, saved>>
    BY <1>2 DEF ReloadStore
  <2>2. store.refresh = issuer.current \/ Unsaved
    BY <1>0 DEF StoreInForce
  <2>3. PICK step, l : /\ Moves(c, step, l) /\ step \in {"send", "publish"}
                       /\ step = "send" => l.refresh = issuer.current \/ Unsaved
    <3>1. CASE store.refresh = loc[c].refresh /\ Moves(c, "send", [loc[c] EXCEPT !.tries = 1])
      <4>1. [loc[c] EXCEPT !.tries = 1].refresh = loc[c].refresh
        BY <1>0 DEF TypeOK, Local
      <4> QED
        BY <2>2, <3>1, <4>1
    <3>2. CASE Refreshed(c, store)
      BY <3>2 DEF Refreshed
    <3>3. CASE Moves(c, "send", [loc[c] EXCEPT !.refresh = store.refresh, !.tries = 1])
      <4>1. [loc[c] EXCEPT !.refresh = store.refresh, !.tries = 1].refresh = store.refresh
        BY <1>0 DEF TypeOK, Local
      <4> QED
        BY <2>2, <3>3, <4>1
    <3> QED
      BY <1>0, <1>2, <3>1, <3>2, <3>3 DEF ReloadStore
  <2> QED
    BY <2>1, <2>3, ForceLocal
<1>b. ASSUME NEW c \in Goroutines, pc[c] \in {"send", "reply"}, RetryOrFail(c) \/ NotRefreshed(c),
             UNCHANGED <<issuer, store, saved>>
      PROVE  InForce'
  <2>1. loc[c].refresh = issuer.current \/ Unsaved
    BY <1>0, <1>b
  <2>2. [loc[c] EXCEPT !.tries = @ + 1].refresh = loc[c].refresh
    BY <1>0 DEF TypeOK, Local
  <2>3. PICK step, l : /\ Moves(c, step, l) /\ step \in {"send", "publish"}
                       /\ step = "send" => l.refresh = issuer.current \/ Unsaved
    BY <1>b, <2>1, <2>2 DEF RetryOrFail, NotRefreshed
  <2> QED
    BY <1>b, <2>3, ForceLocal
<1>3. ASSUME NEW c \in Goroutines, NotServed(c) PROVE InForce'
  BY <1>3, <1>b DEF NotServed
<1>4. ASSUME NEW c \in Goroutines, IssuerGrants(c) PROVE InForce'
  <2> DEFINE n == issuer.last + 1
  <2>1. PICK r : /\ pc[c] = "send" /\ ~issuer.revoked /\ loc[c].refresh = issuer.current
                 /\ r \in {n, issuer.current}
                 /\ issuer' = [issuer EXCEPT !.last = n, !.current = r]
                 /\ Moves(c, "reply", [loc[c] EXCEPT !.cred = [access |-> n, refresh |-> r]])
                 /\ UNCHANGED <<store, saved>>
    BY <1>4 DEF IssuerGrants
  <2>2. /\ issuer'.current = r /\ ~issuer'.revoked
        /\ n \notin saved
    BY <1>0, <2>1, Values DEF TypeOK, Stored
  <2>3. /\ pc'[c] = "reply" /\ loc'[c].cred.refresh = r /\ loc'[c].refresh = loc[c].refresh
        /\ \A d \in Goroutines : d # c => pc'[d] = pc[d] /\ pc[d] \notin Refreshing
    BY <1>0, <1>a, <2>1, AtEffect DEF TypeOK, Local, Refreshing
  <2> HIDE DEF n
  <2>4. r = issuer.current \/ r \notin saved
    BY <2>1, <2>2
  <2> QED
    BY <1>0, <2>1, <2>2, <2>3, <2>4 DEF NeverReuses, StoreInForce, Unsaved, Refreshing
<1>5. ASSUME NEW c \in Goroutines, IssuerDetectsReuse(c) PROVE InForce'
  <2>1. /\ pc[c] = "send" /\ NotRefreshed(c) /\ UNCHANGED <<store, saved>>
        /\ issuer'.current = issuer.current /\ issuer'.revoked
        /\ issuer.revoked \/ loc[c].refresh # issuer.current
    BY <1>0, <1>5 DEF IssuerDetectsReuse, TypeOK
  <2>2. Unsaved
    BY <1>0, <2>1 DEF NeverReuses
  <2>3. /\ pc'[c] = "publish"
        /\ \A d \in Goroutines : d # c => pc'[d] = pc[d] /\ pc[d] \notin Refreshing
    BY <1>0, <1>a, <2>1, AtEffect DEF NotRefreshed, Refreshing
  <2> QED
    BY <2>1, <2>2, <2>3 DEF NeverReuses, StoreInForce, Unsaved, Refreshing
<1>6. ASSUME NEW c \in Goroutines, ReadReply(c) PROVE InForce'
  <2>1. CASE Moves(c, "save", loc[c])
    <3>1. /\ pc[c] = "reply" /\ UNCHANGED <<issuer, store, saved>>
          /\ pc'[c] = "save" /\ loc'[c] = loc[c]
          /\ \A d \in Goroutines : d # c => pc'[d] = pc[d] /\ loc'[d] = loc[d]
      BY <1>0, <1>6, <2>1, AtEffect DEF ReadReply
    <3> QED
      BY <1>0, <3>1 DEF NeverReuses, StoreInForce, Unsaved
  <2>2. CASE RetryOrFail(c) \/ NotRefreshed(c)
    BY <1>6, <1>b, <2>2 DEF ReadReply
  <2> QED
    BY <1>6, <2>1, <2>2 DEF ReadReply
<1>7. ASSUME NEW c \in Goroutines, SaveSession(c) PROVE InForce'
  <2>1. /\ pc[c] = "save" /\ UNCHANGED issuer
        /\ Stores(loc[c].cred) \/ UNCHANGED <<store, saved>>
        /\ Refreshed(c, loc[c].cred) \/ NotRefreshed(c)
    BY <1>0, <1>7 DEF SaveSession
  <2>2. /\ pc'[c] = "publish"
        /\ \A d \in Goroutines : d # c => pc'[d] = pc[d] /\ pc[d] \notin Refreshing
    BY <1>0, <1>a, <2>1, AtEffect DEF NotRefreshed, Refreshed, Refreshing
  <2>3. loc[c].cred.refresh = issuer.current /\ ~issuer.revoked
    BY <1>0, <2>1
  <2>4. NeverReuses' /\ StoreInForce'
    BY <1>0, <2>1, <2>3 DEF Stores, NeverReuses, StoreInForce, Unsaved
  <2> QED
    BY <2>2, <2>4 DEF Refreshing
<1>8. ASSUME NEW c \in Goroutines, Publish(c) PROVE InForce'
  <2>1. /\ pc[c] = "publish" /\ UNCHANGED <<issuer, store, saved>>
        /\ \A d \in Goroutines : IF pc'[d] = pc[d] THEN loc'[d] = loc[d]
                                                ELSE pc'[d] \in {"request", "call"}
    BY <1>8 DEF Publish, Waiting
  <2> QED
    BY <1>0, <2>1 DEF NeverReuses, StoreInForce, Unsaved
<1>9. ASSUME NEW p \in Processes, Crash(p) PROVE InForce'
  <2>1. /\ UNCHANGED <<issuer, store, saved>>
        /\ \A d \in Goroutines :
              IF Process(d) = p THEN pc'[d] = "call" ELSE pc'[d] = pc[d] /\ loc'[d] = loc[d]
    BY <1>9 DEF Crash
  <2> QED
    BY <1>0, <2>1 DEF NeverReuses, StoreInForce, Unsaved
<1>10. ASSUME TimePasses \/ UNCHANGED vars PROVE InForce'
  <2>1. UNCHANGED <<issuer, store, saved, pc, loc>>
    BY <1>10 DEF TimePasses, vars
  <2> QED
    BY <1>0, <2>1 DEF NeverReuses, StoreInForce, Unsaved
<1> HIDE DEF InForce
<1>11. InForce'
  BY <1>1, <1>2, <1>3, <1>4, <1>5, <1>6, <1>7, <1>8, <1>9, <1>10 DEF Next, Refresh
<1>12. SessionInv'
  BY TypeStep, FlightStep, PartsStep DEF ForceInv, SessionInv
<1> QED
  BY <1>11, <1>12 DEF ForceInv

(* The invariant for one process holds at the start and is kept. *)
THEOREM ForceInvariance == Alone => (Spec => []ForceInv)
<1> SUFFICES ASSUME Alone PROVE Spec => []ForceInv
  OBVIOUS
<1>1. Init => InForce
  BY DEF Init, InForce, Held, NeverReuses, StoreInForce, Login
<1>2. SessionInv /\ InForce /\ [Next]_vars => InForce'
  BY ForceStep DEF ForceInv
<1> QED
  BY <1>1, <1>2, SessionInvariance, PTL DEF Spec, ForceInv

(* One process never presents a refresh token whose successor was stored,  *)
(* whether or not the issuer rotates, whatever answers and saves fail and  *)
(* whenever it is killed (oauth_session.go:361-366).                       *)
THEOREM NeverReusesHolds == Alone => (Spec => []NeverReuses)
  BY ForceInvariance, PTL DEF ForceInv, InForce

(* The store of one process holds the token in force, or that token was    *)
(* never stored (oauth_session.go:372-381).                                *)
THEOREM StoreInForceHolds == Alone => (Spec => []StoreInForce)
  BY ForceInvariance, PTL DEF ForceInv, InForce

-----------------------------------------------------------------------------
(* The table of classifyAPIError. *)

(* Some row applies, and none before it does. *)
LEMMA RowChosen ==
    ASSUME NEW service, NEW r
    PROVE  \E i \in 1..8 : /\ Classify(service, r) = <<Rows(service, r)[i][2], Rows(service, r)[i][3]>>
                           /\ Applies(Rows(service, r), i)
<1> DEFINE rows == Rows(service, r)
<1>1. DOMAIN rows = 1..8 /\ rows[8][1] = TRUE
  BY DEF Rows
<1> HIDE DEF rows
<1>2. \E i \in 1..8 : Applies(rows, i)
  <2>1. ASSUME NEW i \in 1..8, rows[i][1], \A j \in 1..(i - 1) : ~rows[j][1]
        PROVE  \E k \in 1..8 : Applies(rows, k)
    BY <2>1 DEF Applies
  <2>2. CASE rows[1][1]
    BY <2>1, <2>2
  <2>3. CASE ~rows[1][1] /\ rows[2][1]
    BY <2>1, <2>3
  <2>4. CASE ~rows[1][1] /\ ~rows[2][1] /\ rows[3][1]
    BY <2>1, <2>4
  <2>5. CASE ~rows[1][1] /\ ~rows[2][1] /\ ~rows[3][1] /\ rows[4][1]
    BY <2>1, <2>5
  <2>6. CASE ~rows[1][1] /\ ~rows[2][1] /\ ~rows[3][1] /\ ~rows[4][1] /\ rows[5][1]
    BY <2>1, <2>6
  <2>7. CASE /\ ~rows[1][1] /\ ~rows[2][1] /\ ~rows[3][1] /\ ~rows[4][1] /\ ~rows[5][1]
             /\ rows[6][1]
    BY <2>1, <2>7
  <2>8. CASE /\ ~rows[1][1] /\ ~rows[2][1] /\ ~rows[3][1] /\ ~rows[4][1] /\ ~rows[5][1]
             /\ ~rows[6][1] /\ rows[7][1]
    BY <2>1, <2>8
  <2>9. CASE /\ ~rows[1][1] /\ ~rows[2][1] /\ ~rows[3][1] /\ ~rows[4][1] /\ ~rows[5][1]
             /\ ~rows[6][1] /\ ~rows[7][1]
    BY <1>1, <2>1, <2>9
  <2> QED
    BY <2>2, <2>3, <2>4, <2>5, <2>6, <2>7, <2>8, <2>9
<1> DEFINE i == CHOOSE k \in DOMAIN rows : Applies(rows, k)
<1>3. i \in 1..8 /\ Applies(rows, i)
  BY <1>1, <1>2
<1>4. Classify(service, r) = <<rows[i][2], rows[i][3]>>
  BY DEF Classify, rows
<1> HIDE DEF i
<1> QED
  BY <1>3, <1>4 DEF rows

(* A code that the table knows, a status that will not change: final. *)
LEMMA ClassifyFinal ==
    ASSUME NEW service, NEW r \in Reply
    PROVE  /\ Classify(service, r)[1] \in BOOLEAN
           /\ r.type \in Known(service) => Classify(service, r)[1]
           /\ r.status \in 400..499 /\ r.status \notin {408, 429} => Classify(service, r)[1]
           /\ r.status \in {525, 526} => Classify(service, r)[1]
<1> DEFINE rows == Rows(service, r)
           Says(type) == r.type = type /\ type \in Known(service)
<1>1. PICK i \in 1..8 : Classify(service, r) = <<rows[i][2], rows[i][3]>> /\ Applies(rows, i)
  BY RowChosen
<1>2. Classify(service, r)[1] = rows[i][2]
  BY <1>1
<1>3. /\ rows[1][2] = TRUE /\ rows[2][2] = TRUE /\ rows[3][2] = TRUE /\ rows[6][2] = TRUE
      /\ rows[8][2] = TRUE /\ rows[4][2] = FALSE /\ rows[5][2] = FALSE /\ rows[7][2] = FALSE
  BY DEF Rows
<1>4. /\ rows[1][1] = (Says("quota") \/ r.status = 402)
      /\ rows[2][1] = (Says("forbidden") \/ (service = "kilo" /\ r.status = 403))
      /\ rows[3][1] = Says("invalid")
      /\ rows[4][1] = (r.status = 429) /\ rows[5][1] = (r.status = 408)
      /\ rows[6][1] = (r.status \in {525, 526}) /\ rows[7][1] = (r.status >= 500)
  BY DEF Rows
<1>5. Known(service) \subseteq {"quota", "forbidden", "invalid"}
  BY DEF Known
<1>6. r.status \in Nat
  BY DEF Reply
<1>7. rows[i][1] /\ \A j \in 1..(i - 1) : ~rows[j][1]
  BY <1>1 DEF Applies
<1> HIDE DEF rows
<1>8. ASSUME r.type \in Known(service) PROVE i \in {1, 2, 3}
  <2>1. Says("quota") \/ Says("forbidden") \/ Says("invalid")
    BY <1>5, <1>8
  <2>2. \E j \in {1, 2, 3} : rows[j][1]
    BY <1>4, <2>1
  <2> QED
    BY <1>7, <2>2
<1>9. ASSUME r.status \in 400..499, r.status \notin {408, 429} PROVE i \notin {4, 5, 7}
  BY <1>4, <1>6, <1>7, <1>9
<1>10. ASSUME r.status \in {525, 526} PROVE i \notin {4, 5, 7}
  <2>1. i # 4 /\ i # 5
    BY <1>4, <1>7, <1>10
  <2>2. rows[6][1]
    BY <1>4, <1>10
  <2>3. i # 7
    BY <1>7, <2>2
  <2> QED
    BY <2>1, <2>3
<1>11. i \in {1, 2, 3, 4, 5, 6, 7, 8}
  OBVIOUS
<1>12. Classify(service, r)[1] \in BOOLEAN /\ (i \notin {4, 5, 7} => Classify(service, r)[1])
  BY <1>2, <1>3, <1>11
<1>13. ASSUME \/ r.type \in Known(service)
              \/ r.status \in 400..499 /\ r.status \notin {408, 429}
              \/ r.status \in {525, 526}
       PROVE  i \notin {4, 5, 7}
  BY <1>8, <1>9, <1>10, <1>13
<1> HIDE DEF Says
<1> QED
  BY <1>12, <1>13

-----------------------------------------------------------------------------
(* What an attempt fails with. *)

(* An error made of a final reply stops the loop, and an error asks for the *)
(* delay its reply did.                                                     *)
LEMMA FinalStops ==
    ASSUME NEW service, NEW r \in Reply, r.status = 0 \/ Failure(service, r) # None
    PROVE  /\ Failure(service, r).after = Asked(r) /\ Asked(r) \in Nat
           /\ LastWord(service, r) => RetryStops(Failure(service, r))
<1> DEFINE err == Failure(service, r)
<1>1. r.status \in Nat /\ r.after \in Nat /\ r.resets \in Nat /\ r.never \in BOOLEAN
  BY DEF Reply
<1>2. Asked(r) \in Nat
  BY <1>1 DEF Asked
<1>3. Cap \in Nat
  BY CallAssumption
<1>4. Known(service) \subseteq {"quota", "forbidden", "invalid"}
  BY DEF Known
<1>5. CASE r.status = 0
  <2>1. err = Plain(r.type)
    BY <1>5 DEF Failure
  <2>2. err.class = "plain" /\ err.sentinel = r.type /\ err.after = 0
    BY <2>1 DEF Plain, Err
  <2>3. LastWord(service, r) => r.type = "auth"
    BY <1>5 DEF LastWord
  <2>4. Asked(r) = 0
    BY <1>5 DEF Asked
  <2> HIDE DEF err
  <2> QED
    BY <1>2, <2>2, <2>3, <2>4 DEF RetryStops, err
<1>6. CASE r.status \notin {0, 200}
  <2> DEFINE found == Classify(service, r)
             terminal == found[1] \/ r.never
             class == IF found[2] \in {"rate", "quota"} /\ ~terminal THEN "rate" ELSE "api"
  <2>1. err = HTTPError(service, r)
    BY <1>6 DEF Failure
  <2>2. err.class = class /\ err.terminal = terminal /\ err.after = Asked(r)
    BY <1>6, <2>1 DEF HTTPError, Err, Asked
  <2>3. LastWord(service, r) => terminal \/ Asked(r) > Cap
    <3>1. \/ r.type \in Known(service)
          \/ r.status \in 400..499 /\ r.status \notin {408, 429}
          \/ r.status \in {525, 526}
          => found[1]
      BY ClassifyFinal
    <3> HIDE DEF found
    <3> QED
      BY <1>1, <1>6, <3>1 DEF LastWord
  <2>4. class = "api" \/ (class = "rate" /\ ~terminal)
    OBVIOUS
  <2> HIDE DEF err, class, terminal
  <2>5. LastWord(service, r) => RetryStops(err)
    BY <2>2, <2>3, <2>4 DEF RetryStops
  <2> QED
    BY <1>2, <2>2, <2>5 DEF err
<1>7. CASE r.status = 200 /\ r.body = "failed"
  <2> DEFINE s == [r EXCEPT !.status = 500]
             found == Classify(service, s)
  <2>1. err = StreamFailure(service, r)
    BY <1>7 DEF Failure
  <2>2. s \in Reply /\ s.type = r.type
    BY DEF Reply
  <2>3. r.type \in Known(service) => found[1]
    <3> HIDE DEF s
    <3>1. s.type \in Known(service) => Classify(service, s)[1]
      BY <2>2, ClassifyFinal
    <3> QED
      BY <2>2, <3>1
  <2>4. LastWord(service, r) => r.type = "context" \/ r.type \in Known(service)
    BY <1>7 DEF LastWord
  <2>5. Asked(r) = 0
    BY <1>7 DEF Asked
  <2> HIDE DEF found, s
  <2>6. CASE r.type = "rate"
    <3>1. err = Err("rate", FALSE, "rate", 0)
      BY <2>1, <2>6 DEF StreamFailure
    <3>2. err.after = 0
      BY <3>1 DEF Err
    <3> QED
      BY <1>2, <1>4, <2>4, <2>5, <2>6, <3>2
  <2>7. CASE r.type = "context"
    <3>1. err = Err("api", TRUE, "invalid", 0)
      BY <2>1, <2>7 DEF StreamFailure
    <3>2. err.after = 0 /\ err.class = "api" /\ err.terminal
      BY <3>1 DEF Err
    <3> HIDE DEF err
    <3> QED
      BY <1>2, <2>5, <3>2 DEF RetryStops, err
  <2>8. CASE r.type \notin {"rate", "context"}
    <3>1. err = Err("api", found[1], found[2], 0)
      BY <2>1, <2>8 DEF StreamFailure, found, s
    <3>2. err.after = 0 /\ err.class = "api" /\ err.terminal = found[1]
      BY <3>1 DEF Err
    <3> HIDE DEF err
    <3> QED
      BY <1>2, <2>3, <2>4, <2>5, <2>8, <3>2 DEF RetryStops, err
  <2> QED
    BY <2>6, <2>7, <2>8
<1>8. CASE r.status = 200 /\ r.body = "incomplete"
  <2>1. err = Plain("invalid")
    BY <1>8 DEF Failure
  <2>2. err.class = "plain" /\ err.sentinel = "invalid" /\ err.after = 0
    BY <2>1 DEF Plain, Err
  <2>3. Asked(r) = 0
    BY <1>8 DEF Asked
  <2> HIDE DEF err
  <2> QED
    BY <1>2, <2>2, <2>3 DEF RetryStops, err
<1>9. CASE r.status = 200 /\ r.body \in {"cut", "whole"}
  <2>1. r.body = "whole" => err = None
    BY <1>9 DEF Failure
  <2>2. err = Plain("unavailable")
    BY <1>9, <2>1 DEF Failure
  <2>3. err.after = 0
    BY <2>2 DEF Plain, Err
  <2>4. ~LastWord(service, r)
    BY <1>9 DEF LastWord
  <2>5. Asked(r) = 0
    BY <1>9 DEF Asked
  <2> QED
    BY <1>2, <2>3, <2>4, <2>5
<1>10. r.body \in {"whole", "incomplete", "cut", "failed"}
  BY DEF Reply
<1> QED
  BY <1>5, <1>6, <1>7, <1>8, <1>9, <1>10

(* A wait is no shorter than the delay that was asked for. *)
LEMMA WaitsEnough ==
    ASSUME NEW delay, NEW n, NEW err, err.after \in Nat
    PROVE  \A d \in Delays(delay, n, err) : d \in Nat /\ d >= err.after
<1>1. Cap \in Nat
  BY CallAssumption
<1> DEFINE shifted == Shifted(delay, n - 1)
           base == IF shifted \in 1..Cap THEN shifted ELSE Cap
<1>2. base \in Nat
  <2> HIDE DEF shifted
  <2> QED
    BY <1>1
<1>3. Delays(delay, n, err) =
          IF err.after > 0 THEN {err.after}
          ELSE IF base \div 4 > 0 THEN base..(base + base \div 4 - 1) ELSE {base}
  BY DEF Delays
<1> HIDE DEF base
<1>4. base \div 4 \in Nat
  BY <1>2
<1> QED
  BY <1>2, <1>3, <1>4

-----------------------------------------------------------------------------
(* The attempts of a generation. *)
Fields  == {"pc", "tries", "again", "requests", "waited", "reply", "err"}
Trying  == {"begin", "route", "body", "token", "asked", "wait"}
Sending == {"begin", "route", "body", "token"}

(* Two requests at most for each attempt before this one, and those of it.  *)
Counted(k, t) ==
    /\ k.tries \in 0..t.retries /\ k.requests \in Nat /\ k.again \in BOOLEAN
    /\ k.again => k.pc \in {"token", "asked"}
    /\ k.requests <= 2 * k.tries + 2
    /\ ~(k.again /\ k.pc = "asked") => k.requests <= 2 * k.tries + 1
    /\ ~k.again /\ k.pc # "asked" => k.requests <= 2 * k.tries

(* The reply before was not final, and what it asked for will have passed,  *)
(* or it refused the token of a session that can be refreshed.              *)
Reasons(k, t) ==
    /\ k.pc = "wait" =>
          /\ k.tries > 0 /\ ~LastWord(Service(t.provider), k.reply)
          /\ k.err.after \in Nat /\ k.err.after = Asked(k.reply)
    /\ k.pc \in Sending /\ ~k.again /\ k.reply # None =>
          k.tries > 0 /\ ~LastWord(Service(t.provider), k.reply) /\ k.waited >= Asked(k.reply)
    /\ k.pc \in Sending /\ k.again => k.reply.status = 401 /\ t.credential = "oauth"

Progress(k, t) ==
    /\ Fields \subseteq DOMAIN k /\ k.requests \in Nat
    /\ k.pc \in Trying => Counted(k, t) /\ Reasons(k, t)

CallInv ==
    /\ task \in [Callers -> Task]
    /\ DOMAIN call = Callers
    /\ \A c \in Callers : Progress(call[c], task[c])

(* No caller has begun. *)
LEMMA CallInitially == CallInit => CallInv
<1> SUFFICES ASSUME CallInit PROVE CallInv
  OBVIOUS
<1>1. task \in [Callers -> Task] /\ DOMAIN call = Callers
  BY TasksAssumption DEF CallInit
<1>2. ASSUME NEW c \in Callers PROVE Progress(call[c], task[c])
  <2>1. call[c] = NewCall
    BY DEF CallInit
  <2>2. /\ NewCall.pc = "begin" /\ NewCall.tries = 0 /\ NewCall.again = FALSE
        /\ NewCall.requests = 0 /\ NewCall.reply = None /\ Fields \subseteq DOMAIN NewCall
    BY DEF NewCall, Fields
  <2>3. task[c].retries \in Nat
    BY <1>1 DEF Task
  <2>4. Counted(NewCall, task[c])
    <3> HIDE DEF NewCall
    <3>1. NewCall.tries \in 0..task[c].retries /\ NewCall.requests \in Nat
      BY <2>2, <2>3
    <3>2. /\ NewCall.requests <= 2 * NewCall.tries
          /\ NewCall.requests <= 2 * NewCall.tries + 1
          /\ NewCall.requests <= 2 * NewCall.tries + 2
      BY <2>2
    <3>3. ~NewCall.again /\ NewCall.again \in BOOLEAN
      BY <2>2
    <3> QED
      BY <3>1, <3>2, <3>3 DEF Counted
  <2>5. Reasons(NewCall, task[c])
    BY <2>2 DEF Reasons
  <2> QED
    BY <2>1, <2>2, <2>4, <2>5 DEF Progress
<1> QED
  BY <1>1, <1>2 DEF CallInv

(* One caller moves. *)
LEMMA CallMoves ==
    ASSUME CallInv, NEW c \in Callers, UNCHANGED task, DOMAIN call' = DOMAIN call,
           \A d \in Callers : d # c => call'[d] = call[d],
           Progress(call'[c], task[c])
    PROVE  CallInv'
BY DEF CallInv

(* What a caller has, for the proofs of its steps. *)
LEMMA CallShape ==
    ASSUME CallInv, NEW c \in Callers
    PROVE  /\ DOMAIN call = Callers /\ Fields \subseteq DOMAIN call[c] /\ call[c].requests \in Nat
           /\ call[c].pc \in Trying => Counted(call[c], task[c]) /\ Reasons(call[c], task[c])
           /\ task[c].retries \in Nat
BY DEF CallInv, Progress, Task

(* A caller goes to a step of its attempt before the request, or of its     *)
(* listing, and nothing else of it that matters changes.                    *)
LEMMA GoesOn ==
    ASSUME CallInv, NEW c \in Callers, UNCHANGED task, DOMAIN call' = DOMAIN call,
           \A d \in Callers : d # c => call'[d] = call[d],
           Fields \subseteq DOMAIN call'[c], call'[c].requests = call[c].requests,
           \/ call'[c].pc \notin Trying
           \/ /\ call[c].pc \in {"begin", "route", "body"} /\ call'[c].pc \in {"route", "body", "token"}
              /\ \A f \in Fields \ {"pc"} : call'[c][f] = call[c][f]
    PROVE  CallInv'
<1>1. CASE call'[c].pc \notin Trying
  BY <1>1, CallShape, CallMoves DEF Progress, Counted
<1>2. CASE /\ call[c].pc \in {"begin", "route", "body"}
           /\ call'[c].pc \in {"route", "body", "token"}
           /\ \A f \in Fields \ {"pc"} : call'[c][f] = call[c][f]
  <2>1. Counted(call[c], task[c]) /\ Reasons(call[c], task[c]) /\ ~call[c].again
    BY <1>2, CallShape DEF Trying, Counted
  <2>2. /\ call'[c].tries = call[c].tries /\ call'[c].again = call[c].again
        /\ call'[c].requests = call[c].requests /\ call'[c].waited = call[c].waited
        /\ call'[c].reply = call[c].reply
    BY <1>2 DEF Fields
  <2>3. Counted(call'[c], task[c])
    BY <1>2, <2>1, <2>2 DEF Counted
  <2>4. Reasons(call'[c], task[c])
    BY <1>2, <2>1, <2>2 DEF Reasons, Sending
  <2> QED
    BY <2>3, <2>4, CallMoves DEF Progress, Counted
<1> QED
  BY <1>1, <1>2

(* The steps of an attempt before its request, and those of a listing. *)
LEMMA LooksKeep ==
    ASSUME CallInv, NEW c \in Callers, BeginAttempt(c) \/ RouteKnown(c) \/ BodyBuilt(c)
    PROVE  CallInv'
<1>1. UNCHANGED task /\ call[c].pc \in {"begin", "route", "body"}
  BY DEF BeginAttempt, RouteKnown, BodyBuilt, At
<1>2. \/ Goto(c, "route") \/ Goto(c, "token")
      \/ \E looks : call' = [call EXCEPT ![c].pc = "body", ![c].looks = looks - 1]
  BY DEF BeginAttempt, RouteKnown, BodyBuilt, LookForBody
<1>3. DOMAIN call = Callers /\ Fields \subseteq DOMAIN call[c]
  BY CallShape
<1>4. ASSUME NEW next \in {"route", "token"}, Goto(c, next)
      PROVE  CallInv'
  <2>1. /\ DOMAIN call' = DOMAIN call /\ \A d \in Callers : d # c => call'[d] = call[d]
        /\ call'[c].pc = next /\ call'[c].requests = call[c].requests /\ Fields \subseteq DOMAIN call'[c]
        /\ \A f \in Fields \ {"pc"} : call'[c][f] = call[c][f]
    BY <1>3, <1>4 DEF Goto, Fields
  <2> QED
    BY <1>1, <2>1, GoesOn
<1>5. ASSUME NEW looks, call' = [call EXCEPT ![c].pc = "body", ![c].looks = looks - 1]
      PROVE  CallInv'
  <2>1. /\ DOMAIN call' = DOMAIN call /\ \A d \in Callers : d # c => call'[d] = call[d]
        /\ call'[c].pc = "body" /\ call'[c].requests = call[c].requests /\ Fields \subseteq DOMAIN call'[c]
        /\ \A f \in Fields \ {"pc"} : call'[c][f] = call[c][f]
    BY <1>3, <1>5 DEF Fields
  <2> QED
    BY <1>1, <2>1, GoesOn
<1> QED
  BY <1>2, <1>4, <1>5

(* See LooksKeep. *)
LEMMA ListingsKeep ==
    ASSUME CallInv, NEW c \in Callers,
           BeginListing(c) \/ Listed(c) \/ CatalogKnown(c) \/ Probe(c) \/ Probed(c) \/ Cancelled(c)
    PROVE  CallInv'
<1>1. UNCHANGED task
  BY DEF BeginListing, Listed, CatalogKnown, Probe, Probed, Cancelled
<1>2. DOMAIN call = Callers /\ Fields \subseteq DOMAIN call[c]
  BY CallShape
<1>3. ASSUME DOMAIN call' = DOMAIN call, \A d \in Callers : d # c => call'[d] = call[d],
             DOMAIN call'[c] = DOMAIN call[c], call'[c].requests = call[c].requests,
             call'[c].pc \notin Trying
      PROVE  CallInv'
  BY <1>1, <1>2, <1>3, GoesOn
<1>4. CASE BeginListing(c)
  BY <1>2, <1>3, <1>4 DEF BeginListing, Goto, Fields, Trying
<1>5. CASE Listed(c)
  <2>1. PICK answer : call' = [call EXCEPT ![c].pc = "section", ![c].answer = answer]
    BY <1>5 DEF Listed
  <2> QED
    BY <1>2, <1>3, <2>1 DEF Fields, Trying
<1>6. CASE CatalogKnown(c)
  <2>1. PICK section, catalog, listed, found, next :
            /\ next \in {"probe", "returned"}
            /\ call' = [call EXCEPT ![c].section = section, ![c].catalog = catalog,
                            ![c].listed = listed, ![c].pc = next, ![c].found = found]
    BY <1>6 DEF CatalogKnown
  <2> QED
    BY <1>2, <1>3, <2>1 DEF Fields, Trying
<1>7. CASE Probe(c)
  <2>1. PICK m, how : call[c].pc = "probe" /\ call' = [call EXCEPT ![c].probed[m] = how]
    BY <1>7 DEF Probe, At
  <2> QED
    BY <1>2, <1>3, <2>1 DEF Fields, Trying
<1>8. CASE Probed(c)
  <2>1. PICK found : call' = [call EXCEPT ![c].pc = "returned", ![c].found = found]
    BY <1>8 DEF Probed
  <2> QED
    BY <1>2, <1>3, <2>1 DEF Fields, Trying
<1>9. CASE Cancelled(c)
  BY <1>2, <1>3, <1>9 DEF Cancelled, Goto, Fields, Trying
<1> QED
  BY <1>4, <1>5, <1>6, <1>7, <1>8, <1>9

(* A failed attempt is the last one, or its reply was not final. *)
LEMMA FailureKeeps ==
    ASSUME CallInv, NEW c \in Callers, UNCHANGED task, NEW r \in Reply,
           call[c].pc \in {"token", "asked"},
           r.status = 0 \/ Failure(Service(task[c].provider), r) # None,
           AttemptFails(c, r, Failure(Service(task[c].provider), r))
    PROVE  CallInv'
<1> DEFINE service == Service(task[c].provider)
           err == Failure(service, r)
           over == RetryStops(err) \/ call[c].tries = task[c].retries
<1>1. /\ DOMAIN call = Callers /\ Fields \subseteq DOMAIN call[c]
      /\ Counted(call[c], task[c]) /\ task[c].retries \in Nat
  BY CallShape DEF Trying
<1>2. call' = [call EXCEPT ![c].pc = IF over THEN "returned" ELSE "wait",
            ![c].tries = IF over THEN @ ELSE @ + 1, ![c].again = FALSE,
            ![c].reply = r, ![c].err = err]
  BY DEF AttemptFails
<1>3. /\ err.after = Asked(r) /\ Asked(r) \in Nat
      /\ LastWord(service, r) => RetryStops(err)
  BY FinalStops
<1> HIDE DEF err
<1>4. CASE over
  <2>1. /\ DOMAIN call' = DOMAIN call /\ \A d \in Callers : d # c => call'[d] = call[d]
        /\ call'[c].pc = "returned" /\ Fields \subseteq DOMAIN call'[c]
        /\ call'[c].requests = call[c].requests
    <3> HIDE DEF over
    <3> QED
      BY <1>1, <1>2, <1>4 DEF Fields
  <2> QED
    BY <2>1, GoesOn DEF Trying
<1>5. CASE ~over
  <2>1. /\ DOMAIN call' = DOMAIN call /\ \A d \in Callers : d # c => call'[d] = call[d]
        /\ Fields \subseteq DOMAIN call'[c]
        /\ call'[c].pc = "wait" /\ call'[c].tries = call[c].tries + 1
        /\ call'[c].again = FALSE /\ call'[c].reply = r /\ call'[c].err = err
        /\ call'[c].requests = call[c].requests
    <3> HIDE DEF over
    <3> QED
      BY <1>1, <1>2, <1>5 DEF Fields
  <2>2. ~LastWord(service, r) /\ call[c].tries # task[c].retries
    BY <1>3, <1>5
  <2> HIDE DEF over, service
  <2>3. call[c].tries \in Nat /\ call[c].tries < task[c].retries /\ call[c].requests \in Nat
    BY <1>1, <2>2 DEF Counted
  <2>4. call[c].requests <= 2 * call[c].tries + 2
    <3>1. call[c].requests <= 2 * call[c].tries + 1 + 1
      BY <1>1, <2>3 DEF Counted
    <3> QED
      BY <2>3, <3>1
  <2>5. Counted(call'[c], task[c])
    <3>1. /\ call'[c].tries \in 0..task[c].retries /\ call'[c].requests \in Nat
          /\ call'[c].requests <= 2 * call'[c].tries
          /\ call'[c].requests <= 2 * call'[c].tries + 1
          /\ call'[c].requests <= 2 * call'[c].tries + 2
      BY <1>1, <2>1, <2>3, <2>4
    <3>2. ~call'[c].again /\ call'[c].again \in BOOLEAN
      BY <2>1
    <3> QED
      BY <3>1, <3>2 DEF Counted
  <2>6. Reasons(call'[c], task[c])
    <3>1. call'[c].tries > 0
      BY <2>1, <2>3
    <3> QED
      BY <1>3, <2>1, <2>2, <3>1 DEF Reasons, Sending, service
  <2> QED
    BY <2>1, <2>5, <2>6, CallMoves DEF Progress, Counted
<1> QED
  BY <1>4, <1>5

(* A token is refused. *)
LEMMA RefusalKeeps ==
    ASSUME CallInv, NEW c \in Callers, TokenRefused(c)
    PROVE  CallInv'
<1>1. PICK type \in {"auth", "none"} :
          AttemptFails(c, NoReply(type), Failure(Service(task[c].provider), NoReply(type)))
  BY DEF TokenRefused
<1>2. NoReply(type) \in Reply /\ NoReply(type).status = 0 /\ NoReply(type).type = type
  BY DEF NoReply, Reply
<1> QED
  BY <1>1, <1>2, FailureKeeps DEF TokenRefused, At

(* A request goes out. *)
LEMMA SendKeeps ==
    ASSUME CallInv, NEW c \in Callers, Send(c)
    PROVE  CallInv'
<1>1. /\ UNCHANGED task /\ call[c].pc = "token"
      /\ call' = [call EXCEPT ![c].pc = "asked", ![c].requests = @ + 1]
  BY DEF Send, At
<1>2. /\ DOMAIN call = Callers /\ Fields \subseteq DOMAIN call[c]
      /\ Counted(call[c], task[c]) /\ task[c].retries \in Nat
  BY <1>1, CallShape DEF Trying
<1>3. /\ DOMAIN call' = DOMAIN call /\ \A d \in Callers : d # c => call'[d] = call[d]
      /\ call'[c].pc = "asked" /\ Fields \subseteq DOMAIN call'[c]
      /\ call'[c].requests = call[c].requests + 1 /\ call'[c].tries = call[c].tries
      /\ call'[c].again = call[c].again
  BY <1>1, <1>2 DEF Fields
<1>4. Counted(call'[c], task[c])
  <2>1. call[c].tries \in Nat /\ call[c].requests \in Nat
    BY <1>2 DEF Counted
  <2>2. /\ call[c].requests <= 2 * call[c].tries + 1 /\ call[c].again \in BOOLEAN
        /\ ~call[c].again => call[c].requests <= 2 * call[c].tries
    BY <1>1, <1>2 DEF Counted
  <2>3. /\ call'[c].requests <= 2 * call'[c].tries + 2 /\ call'[c].again \in BOOLEAN
        /\ ~call'[c].again => call'[c].requests <= 2 * call'[c].tries + 1
        /\ call'[c].requests \in Nat
    BY <1>3, <2>1, <2>2
  <2>4. call'[c].tries \in 0..task[c].retries
    BY <1>2, <1>3 DEF Counted
  <2> QED
    BY <1>3, <2>3, <2>4 DEF Counted
<1>5. Reasons(call'[c], task[c])
  BY <1>3 DEF Reasons, Sending
<1> QED
  BY <1>1, <1>3, <1>4, <1>5, CallMoves DEF Progress, Counted

(* A service answers. *)
LEMMA ReplyKeeps ==
    ASSUME CallInv, NEW c \in Callers, Replied(c)
    PROVE  CallInv'
<1>1. UNCHANGED task /\ call[c].pc = "asked"
  BY DEF Replied, At
<1>2. /\ DOMAIN call = Callers /\ Fields \subseteq DOMAIN call[c]
      /\ Counted(call[c], task[c]) /\ task[c].retries \in Nat
  BY <1>1, CallShape DEF Trying
<1>3. PICK r \in Replies :
          \/ Repeats(c, r) /\ call' = [call EXCEPT ![c].pc = "token", ![c].again = TRUE,
                                          ![c].reply = r, ![c].waited = 0]
          \/ call' = [call EXCEPT ![c].pc = "returned", ![c].reply = r, ![c].err = None]
          \/ /\ Failure(Service(task[c].provider), r) # None
             /\ AttemptFails(c, r, Failure(Service(task[c].provider), r))
  BY DEF Replied
<1>4. r \in Reply
  BY CallAssumption
<1>5. CASE Repeats(c, r) /\ call' = [call EXCEPT ![c].pc = "token", ![c].again = TRUE,
                                        ![c].reply = r, ![c].waited = 0]
  <2>1. /\ DOMAIN call' = DOMAIN call /\ \A d \in Callers : d # c => call'[d] = call[d]
        /\ call'[c].pc = "token" /\ Fields \subseteq DOMAIN call'[c]
        /\ call'[c].again = TRUE /\ call'[c].reply = r
        /\ call'[c].requests = call[c].requests /\ call'[c].tries = call[c].tries
    BY <1>2, <1>5 DEF Fields
  <2>2. r.status = 401 /\ task[c].credential = "oauth" /\ ~call[c].again
    BY <1>5 DEF Repeats
  <2>3. Counted(call'[c], task[c])
    <3>1. call[c].tries \in Nat /\ call[c].requests \in Nat
      BY <1>2 DEF Counted
    <3>2. call[c].requests <= 2 * call[c].tries + 1
      BY <1>1, <1>2, <2>2, <3>1 DEF Counted
    <3>3. call'[c].requests <= 2 * call'[c].tries + 1
      BY <2>1, <3>2
    <3> QED
      BY <1>2, <2>1, <3>1, <3>3 DEF Counted
  <2>4. Reasons(call'[c], task[c])
    BY <2>1, <2>2 DEF Reasons, Sending
  <2> QED
    BY <1>1, <2>1, <2>3, <2>4, CallMoves DEF Progress, Counted
<1>6. CASE call' = [call EXCEPT ![c].pc = "returned", ![c].reply = r, ![c].err = None]
  <2>1. /\ DOMAIN call' = DOMAIN call /\ \A d \in Callers : d # c => call'[d] = call[d]
        /\ call'[c].pc = "returned" /\ Fields \subseteq DOMAIN call'[c]
        /\ call'[c].requests = call[c].requests
    BY <1>2, <1>6 DEF Fields
  <2> QED
    BY <1>1, <2>1, GoesOn DEF Trying
<1>7. CASE /\ Failure(Service(task[c].provider), r) # None
           /\ AttemptFails(c, r, Failure(Service(task[c].provider), r))
  BY <1>1, <1>4, <1>7, FailureKeeps
<1> QED
  BY <1>3, <1>5, <1>6, <1>7

(* The wait before the next attempt is over. *)
LEMMA TimerKeeps ==
    ASSUME CallInv, NEW c \in Callers, RetryTimer(c)
    PROVE  CallInv'
<1>1. UNCHANGED task /\ call[c].pc = "wait"
  BY DEF RetryTimer, At
<1>2. /\ DOMAIN call = Callers /\ Fields \subseteq DOMAIN call[c]
      /\ Counted(call[c], task[c]) /\ Reasons(call[c], task[c])
  BY <1>1, CallShape DEF Trying
<1>3. PICK delay \in Delays(task[c].delay, call[c].tries, call[c].err) :
          call' = [call EXCEPT ![c].pc = "begin", ![c].waited = delay]
  BY DEF RetryTimer
<1>4. /\ call[c].tries > 0 /\ ~LastWord(Service(task[c].provider), call[c].reply)
      /\ call[c].err.after \in Nat /\ call[c].err.after = Asked(call[c].reply)
  BY <1>1, <1>2 DEF Reasons
<1>5. delay >= Asked(call[c].reply)
  BY <1>4, WaitsEnough
<1>6. /\ DOMAIN call' = DOMAIN call /\ \A d \in Callers : d # c => call'[d] = call[d]
      /\ call'[c].pc = "begin" /\ Fields \subseteq DOMAIN call'[c]
      /\ call'[c].again = call[c].again /\ call'[c].reply = call[c].reply
      /\ call'[c].requests = call[c].requests /\ call'[c].tries = call[c].tries
      /\ call'[c].waited = delay
  BY <1>2, <1>3 DEF Fields
<1>7. ~call[c].again
  BY <1>1, <1>2 DEF Counted
<1>8. Counted(call'[c], task[c])
  BY <1>1, <1>2, <1>6, <1>7 DEF Counted
<1>9. Reasons(call'[c], task[c])
  BY <1>4, <1>5, <1>6, <1>7 DEF Reasons
<1> QED
  BY <1>1, <1>6, <1>8, <1>9, CallMoves DEF Progress, Counted

(* No step breaks the invariant. *)
LEMMA StepKeeps == CallInv /\ [CallNext]_callVars => CallInv'
<1> SUFFICES ASSUME CallInv, [CallNext]_callVars PROVE CallInv'
  OBVIOUS
<1>1. CASE UNCHANGED <<call, task>>
  BY <1>1 DEF CallInv
<1>2. ASSUME NEW c \in Callers,
             \/ BeginAttempt(c) \/ RouteKnown(c) \/ BodyBuilt(c) \/ TokenRefused(c) \/ Send(c)
             \/ Replied(c) \/ RetryTimer(c) \/ Cancelled(c)
             \/ BeginListing(c) \/ Listed(c) \/ CatalogKnown(c) \/ Probe(c) \/ Probed(c)
      PROVE  CallInv'
  BY <1>2, LooksKeep, RefusalKeeps, SendKeeps, ReplyKeeps, TimerKeeps, ListingsKeep
<1> QED
  BY <1>1, <1>2 DEF CallNext, callVars, ClockTicks, Fetching

(* The attempts of a generation keep their count and their reasons *)
(* (retryWithBackoff, doGenerateItems).                            *)
THEOREM CallInvariance == CallSpec => []CallInv
<1> QED
  BY CallInitially, StepKeeps, PTL DEF CallSpec

-----------------------------------------------------------------------------
(* Only one step makes a request. *)
LEMMA OthersAskNothing ==
    ASSUME CallInv, NEW c \in Callers, NEW d \in Callers,
           \/ BeginAttempt(c) \/ RouteKnown(c) \/ BodyBuilt(c) \/ TokenRefused(c)
           \/ Replied(c) \/ RetryTimer(c) \/ Cancelled(c)
           \/ BeginListing(c) \/ Listed(c) \/ CatalogKnown(c) \/ Probe(c) \/ Probed(c)
    PROVE  call'[d].requests = call[d].requests
<1>1. DOMAIN call = Callers /\ Fields \subseteq DOMAIN call[c]
  BY CallShape
<1>2. ASSUME NEW next, Goto(c, next)
      PROVE  call'[d].requests = call[d].requests
  BY <1>1, <1>2 DEF Goto
<1>3. ASSUME NEW looks, LookForBody(c, looks)
      PROVE  call'[d].requests = call[d].requests
  BY <1>1, <1>3 DEF LookForBody
<1>4. ASSUME NEW r, NEW err, AttemptFails(c, r, err)
      PROVE  call'[d].requests = call[d].requests
  BY <1>1, <1>4 DEF AttemptFails
<1>5. CASE BeginAttempt(c) \/ RouteKnown(c) \/ BodyBuilt(c) \/ BeginListing(c) \/ Cancelled(c)
  BY <1>2, <1>3, <1>5 DEF BeginAttempt, RouteKnown, BodyBuilt, BeginListing, Cancelled
<1>6. CASE TokenRefused(c)
  BY <1>4, <1>6 DEF TokenRefused
<1>7. CASE Replied(c)
  <2>1. PICK r \in Replies :
            \/ call' = [call EXCEPT ![c].pc = "token", ![c].again = TRUE,
                                    ![c].reply = r, ![c].waited = 0]
            \/ call' = [call EXCEPT ![c].pc = "returned", ![c].reply = r, ![c].err = None]
            \/ AttemptFails(c, r, Failure(Service(task[c].provider), r))
    BY <1>7 DEF Replied
  <2>2. CASE AttemptFails(c, r, Failure(Service(task[c].provider), r))
    BY <1>4, <2>2
  <2>3. CASE call' = [call EXCEPT ![c].pc = "token", ![c].again = TRUE,
                                  ![c].reply = r, ![c].waited = 0]
    BY <1>1, <2>3
  <2>4. CASE call' = [call EXCEPT ![c].pc = "returned", ![c].reply = r, ![c].err = None]
    BY <1>1, <2>4
  <2> QED
    BY <2>1, <2>2, <2>3, <2>4
<1>8. CASE RetryTimer(c)
  <2>1. PICK delay : call' = [call EXCEPT ![c].pc = "begin", ![c].waited = delay]
    BY <1>8 DEF RetryTimer
  <2> QED
    BY <1>1, <2>1
<1>9. CASE Listed(c)
  <2>1. PICK answer : call' = [call EXCEPT ![c].pc = "section", ![c].answer = answer]
    BY <1>9 DEF Listed
  <2> QED
    BY <1>1, <2>1
<1>10. CASE CatalogKnown(c)
  <2>1. PICK section, catalog, listed, found, next :
            call' = [call EXCEPT ![c].section = section, ![c].catalog = catalog,
                         ![c].listed = listed, ![c].pc = next, ![c].found = found]
    BY <1>10 DEF CatalogKnown
  <2> QED
    BY <1>1, <2>1
<1>11. CASE Probe(c)
  <2>1. PICK m, how : call' = [call EXCEPT ![c].probed[m] = how]
    BY <1>11 DEF Probe
  <2> QED
    BY <1>1, <2>1
<1>12. CASE Probed(c)
  <2>1. PICK found : call' = [call EXCEPT ![c].pc = "returned", ![c].found = found]
    BY <1>12 DEF Probed
  <2> QED
    BY <1>1, <2>1
<1> QED
  BY <1>5, <1>6, <1>7, <1>8, <1>9, <1>10, <1>11, <1>12

(* See OthersAskNothing. *)
LEMMA OnlySendAsks ==
    ASSUME CallInv, [CallNext]_callVars, NEW c \in Callers, call'[c].requests > call[c].requests
    PROVE  UNCHANGED task /\ Send(c)
<1>1. DOMAIN call = Callers /\ call[c].requests \in Nat
  BY CallShape
<1>2. call'[c].requests # call[c].requests
  BY <1>1
<1>3. ~UNCHANGED call
  BY <1>2
<1>4. PICK d \in Callers : Send(d)
  BY <1>2, <1>3, OthersAskNothing DEF CallNext, callVars, ClockTicks, Fetching
<1>5. d = c
  BY <1>1, <1>2, <1>4 DEF Send
<1> QED
  BY <1>4, <1>5 DEF Send

(* A request is made again only when the answer before it was not final,    *)
(* after the delay asked for and within the retries allowed, or once more   *)
(* in an attempt for a session whose token was refused (retryWithBackoff,   *)
(* doGenerateItems).                                                        *)
THEOREM RetriesJustifiedHolds == CallSpec => RetriesJustified
<1> DEFINE Justified == \A c \in Callers :
               call'[c].requests > call[c].requests /\ call[c].reply # None =>
                   /\ call'[c].requests <= 2 * (task[c].retries + 1)
                   /\ IF call[c].again
                      THEN call[c].reply.status = 401 /\ task[c].credential = "oauth"
                      ELSE /\ call[c].tries \in 1..task[c].retries
                           /\ ~LastWord(Service(task[c].provider), call[c].reply)
                           /\ call[c].waited >= Asked(call[c].reply)
<1>1. CallInv /\ [CallNext]_callVars => Justified
  <2> SUFFICES ASSUME CallInv, [CallNext]_callVars, NEW c \in Callers,
                      call'[c].requests > call[c].requests, call[c].reply # None
               PROVE  /\ call'[c].requests <= 2 * (task[c].retries + 1)
                      /\ IF call[c].again
                         THEN call[c].reply.status = 401 /\ task[c].credential = "oauth"
                         ELSE /\ call[c].tries \in 1..task[c].retries
                              /\ ~LastWord(Service(task[c].provider), call[c].reply)
                              /\ call[c].waited >= Asked(call[c].reply)
    OBVIOUS
  <2>1. call[c].pc = "token" /\ call' = [call EXCEPT ![c].pc = "asked", ![c].requests = @ + 1]
    BY OnlySendAsks DEF Send, At
  <2>2. /\ DOMAIN call = Callers /\ Fields \subseteq DOMAIN call[c]
        /\ Counted(call[c], task[c]) /\ Reasons(call[c], task[c]) /\ task[c].retries \in Nat
    BY <2>1, CallShape DEF Trying
  <2>3. call'[c].requests = call[c].requests + 1
    BY <2>1, <2>2 DEF Fields
  <2>4. /\ call[c].tries \in 0..task[c].retries /\ call[c].requests \in Nat
        /\ call[c].requests <= 2 * call[c].tries + 1
    BY <2>1, <2>2 DEF Counted
  <2>5. call'[c].requests <= 2 * (task[c].retries + 1)
    BY <2>2, <2>3, <2>4
  <2>6. CASE call[c].again
    BY <2>1, <2>2, <2>5, <2>6 DEF Reasons, Sending
  <2>7. CASE ~call[c].again
    <3>1. /\ call[c].tries > 0 /\ ~LastWord(Service(task[c].provider), call[c].reply)
          /\ call[c].waited >= Asked(call[c].reply)
      BY <2>1, <2>2, <2>7 DEF Reasons, Sending
    <3>2. call[c].tries \in 1..task[c].retries
      BY <2>2, <2>4, <3>1
    <3> QED
      BY <2>5, <2>7, <3>1, <3>2
  <2> QED
    BY <2>6, <2>7
<1>2. CallInv /\ [CallNext]_callVars => [Justified]_callVars
  BY <1>1
<1> QED
  BY <1>2, CallInvariance, PTL DEF CallSpec, RetriesJustified
-----------------------------------------------------------------------------
(* The catalogs. Until a caller knows its catalog it has nothing, and a     *)
(* section of the metadata it has only for a catalog that is ranked by it.  *)
Drawn == {"pc", "answer", "section", "catalog", "listed", "found"}
Busy  == Trying \cup {"list", "section"}

Kept(found, listed) ==
    found = Had(listed, found) /\ (found = <<>> => listed = <<>>)

OnceOrFew(s) == (\A i, j \in DOMAIN s : s[i] = s[j] => i = j) \/ Len(s) <= MaxListed

Offering(k, t) ==
    /\ k.pc \in Busy => k.catalog = None /\ k.listed = <<>> /\ k.found = <<>>
    /\ k.pc \in {"route", "body"} => t.provider \in Open
    /\ k.pc = "section" => k.answer \in Listings[t.provider] \cup {None}
    /\ k.catalog \notin {None, NoCatalog} => Sound(t, k.section, k.catalog)
    /\ k.pc = "probe" => k.listed \in Seq(Ids) /\ OnceOrFew(k.listed)
    /\ k.pc = "returned" => Kept(k.found, k.listed)

Unlooked ==
    /\ DOMAIN lookup = Callers
    /\ \A c \in Callers : task[c].provider \notin Open => lookup[c].pc = "idle" /\ lookup[c].doc = None

OfferInv ==
    /\ task \in [Callers -> Task]
    /\ DOMAIN call = Callers
    /\ \A c \in Callers : Drawn \subseteq DOMAIN call[c] /\ Offering(call[c], task[c])
    /\ Unlooked

(* Everything is kept of a sequence, and of an empty one there is nothing. *)
LEMMA AllKept ==
    ASSUME NEW X, NEW s \in Seq(X)
    PROVE  Kept(s, s)
<1>1. {i \in DOMAIN s : s[i] \in ToSet(s)} = DOMAIN s
  BY DEF ToSet
<1>2. Pick(s, DOMAIN s) = s
  BY PickAll
<1> QED
  BY <1>1, <1>2 DEF Kept, Had

(* No caller has begun. *)
LEMMA OfferInitially == CallInit => OfferInv
<1> SUFFICES ASSUME CallInit PROVE OfferInv
  OBVIOUS
<1>1. task \in [Callers -> Task] /\ DOMAIN call = Callers
  BY TasksAssumption DEF CallInit
<1>2. Unlooked
  BY DEF CallInit, Meta!MetadataInit, Unlooked
<1>3. ASSUME NEW c \in Callers PROVE Drawn \subseteq DOMAIN call[c] /\ Offering(call[c], task[c])
  <2>1. call[c] = NewCall
    BY DEF CallInit
  <2>2. /\ NewCall.pc = "begin" /\ NewCall.catalog = None /\ NewCall.listed = <<>>
        /\ NewCall.found = <<>> /\ Drawn \subseteq DOMAIN NewCall
    BY DEF NewCall, Drawn
  <2> QED
    BY <2>1, <2>2 DEF Offering
<1> QED
  BY <1>1, <1>2, <1>3 DEF OfferInv

-----------------------------------------------------------------------------
(* A lookup is made, taken or answered for the caller alone. *)
LEMMA LookupMoves ==
    ASSUME NEW c,
           \/ Look(c) \/ Meta!Taken(c) \/ Meta!Fetched(c) \/ Meta!FetchFails(c)
    PROVE  DOMAIN lookup' = DOMAIN lookup /\ \A d \in DOMAIN lookup : d # c => lookup'[d] = lookup[d]
<1>1. ASSUME NEW doc, Meta!Answers(c, doc)
      PROVE  DOMAIN lookup' = DOMAIN lookup /\ \A d \in DOMAIN lookup : d # c => lookup'[d] = lookup[d]
  BY <1>1 DEF Meta!Answers
<1>2. CASE Look(c)
  <2>1. \/ \E doc : Meta!Answers(c, doc)
        \/ lookup' = [lookup EXCEPT ![c].pc = "fetch", ![c].held = cache]
    BY <1>2 DEF Look, Meta!Load
  <2>2. CASE lookup' = [lookup EXCEPT ![c].pc = "fetch", ![c].held = cache]
    BY <2>2
  <2> QED
    BY <1>1, <2>1, <2>2
<1>3. CASE Meta!Taken(c)
  BY <1>3 DEF Meta!Taken
<1>4. CASE Meta!Fetched(c) \/ Meta!FetchFails(c)
  BY <1>1, <1>4 DEF Meta!Fetched, Meta!FetchFails
<1> QED
  BY <1>2, <1>3, <1>4

(* A caller whose catalog the metadata does not rank never looks it up. *)
LEMMA UnlookedKeeps ==
    ASSUME OfferInv, [CallNext]_callVars
    PROVE  UNCHANGED task /\ Unlooked'
<1>1. CASE UNCHANGED lookup /\ UNCHANGED task
  BY <1>1 DEF OfferInv, Unlooked
<1>2. ASSUME NEW c \in Callers, UNCHANGED task,
             task[c].provider \in Open \/ lookup[c].pc # "idle",
             \/ Look(c) \/ Meta!Taken(c) \/ Meta!Fetched(c) \/ Meta!FetchFails(c)
      PROVE  UNCHANGED task /\ Unlooked'
  <2>1. /\ DOMAIN lookup = Callers
        /\ \A d \in Callers : task[d].provider \notin Open => lookup[d].pc = "idle" /\ lookup[d].doc = None
    BY DEF OfferInv, Unlooked
  <2>2. DOMAIN lookup' = DOMAIN lookup /\ \A d \in DOMAIN lookup : d # c => lookup'[d] = lookup[d]
    BY <1>2, LookupMoves
  <2>3. task[c].provider \in Open
    BY <1>2, <2>1
  <2> QED
    BY <1>2, <2>1, <2>2, <2>3 DEF Unlooked
<1>3. ASSUME NEW c \in Callers,
             \/ BeginAttempt(c) \/ RouteKnown(c) \/ BodyBuilt(c) \/ BeginListing(c)
             \/ CatalogKnown(c) \/ Fetching(c)
      PROVE  UNCHANGED task /\ Unlooked'
  <2>1. call[c].pc \in {"route", "body"} => task[c].provider \in Open
    BY DEF OfferInv, Offering
  <2>2. CASE BeginAttempt(c)
    <3>1. \/ task[c].provider \in Opencode /\ Look(c)
          \/ UNCHANGED lookup
      BY <2>2 DEF BeginAttempt, LookForBody, metaVars
    <3> QED
      BY <1>1, <1>2, <2>2, <3>1 DEF BeginAttempt, Opencode, Open
  <2>3. CASE RouteKnown(c) \/ BodyBuilt(c)
    <3>1. /\ call[c].pc \in {"route", "body"} /\ UNCHANGED task
          /\ Look(c) \/ Meta!Taken(c)
      BY <2>3 DEF RouteKnown, BodyBuilt, LookForBody, At
    <3> QED
      BY <1>2, <2>1, <3>1
  <2>4. CASE BeginListing(c)
    <3>1. /\ UNCHANGED task
          /\ (UsesMetadata(task[c]) /\ Look(c)) \/ UNCHANGED lookup
      BY <2>4 DEF BeginListing, metaVars
    <3> QED
      BY <1>1, <1>2, <3>1 DEF UsesMetadata, Opencode, Open
  <2>5. CASE CatalogKnown(c)
    <3>1. /\ UNCHANGED task
          /\ (UsesMetadata(task[c]) /\ Meta!Taken(c)) \/ UNCHANGED lookup
      BY <2>5 DEF CatalogKnown, Waits
    <3> QED
      BY <1>1, <1>2, <3>1 DEF UsesMetadata, Opencode, Open
  <2>6. CASE Fetching(c)
    <3>1. /\ UNCHANGED task /\ lookup[c].pc = "fetch"
          /\ Meta!Fetched(c) \/ Meta!FetchFails(c)
      BY <2>6 DEF Fetching, Meta!Fetched, Meta!FetchFails
    <3> QED
      BY <1>2, <3>1
  <2> QED
    BY <1>3, <2>2, <2>3, <2>4, <2>5, <2>6
<1>4. ASSUME NEW c \in Callers,
             \/ TokenRefused(c) \/ Send(c) \/ Replied(c) \/ RetryTimer(c) \/ Cancelled(c)
             \/ Listed(c) \/ Probe(c) \/ Probed(c)
      PROVE  UNCHANGED task /\ Unlooked'
  BY <1>1, <1>4 DEF TokenRefused, Send, Replied, RetryTimer, Cancelled, Listed, Probe, Probed, metaVars
<1>5. CASE ClockTicks
  BY <1>1, <1>5 DEF ClockTicks, Meta!Tick
<1>6. CASE UNCHANGED callVars
  BY <1>1, <1>6 DEF callVars
<1> QED
  BY <1>3, <1>4, <1>5, <1>6 DEF CallNext
-----------------------------------------------------------------------------
(* What is known to fit the listing is sound for the caller who asked. *)
LEMMA FitsSound ==
    ASSUME NEW t \in Task, NEW section \in BOOLEAN, section => t.provider \in Open, NEW catalog,
           Fits(t.profile, t.provider, ChatGPT(t), section, catalog)
    PROVE  Sound(t, section, catalog)
<1> DEFINE rec == catalog.recommended
           usable == ToSet(catalog.usable)
           ranked == t.provider = "kilo" \/ section
           offered == IF ranked THEN Admitted(t.profile, t.provider, usable)
                                ELSE {Lower[m] : m \in usable}
<1>1. rec \in Seq(Ids) /\ catalog.usable \in Seq(Ids) /\ catalog.live \in BOOLEAN
  BY DEF Fits
<1>2. MaxListed \in Nat
  BY CatalogAssumption
<1>3. CASE ~catalog.live
  BY <1>3 DEF Fits, Sound
<1>4. CASE catalog.live /\ ChatGPT(t)
  <2>1. t.provider = "openai" /\ ~ranked
    BY <1>4 DEF ChatGPT, Open
  <2>2. catalog.usable = rec /\ \A k, l \in DOMAIN rec : rec[k] = rec[l] => k = l
    BY <1>4 DEF Fits
  <2>3. Cardinality(ToSet(rec)) = Len(rec)
    BY <1>1, <2>2, DistinctCount
  <2> QED
    BY <1>4, <2>1, <2>2, <2>3 DEF Sound
<1>5. CASE catalog.live /\ ~ChatGPT(t) /\ t.provider = "ollama"
  <2>1. ~ranked
    BY <1>5 DEF Open
  <2>2. rec = Take(catalog.usable, MaxListed)
    BY <1>5 DEF Fits
  <2>3. /\ Take(catalog.usable, MaxListed) \in Seq(Ids)
        /\ Len(Take(catalog.usable, MaxListed)) =
              IF MaxListed < Len(catalog.usable) THEN MaxListed ELSE Len(catalog.usable)
        /\ \A k \in 1..Len(Take(catalog.usable, MaxListed)) :
              /\ k \in 1..Len(catalog.usable)
              /\ Take(catalog.usable, MaxListed)[k] = catalog.usable[k]
    BY <1>1, <1>2, TakeHolds
  <2>4. /\ Len(rec) = IF MaxListed < Len(catalog.usable) THEN MaxListed ELSE Len(catalog.usable)
        /\ \A k \in 1..Len(rec) : k \in 1..Len(catalog.usable) /\ rec[k] = catalog.usable[k]
    BY <2>2, <2>3
  <2>5. DOMAIN rec = 1..Len(rec) /\ DOMAIN catalog.usable = 1..Len(catalog.usable)
    BY <1>1
  <2>6. ToSet(rec) \subseteq usable
    BY <2>4, <2>5 DEF ToSet
  <2> QED
    BY <1>5, <2>1, <2>4, <2>6 DEF Sound, Fewer
<1>6. CASE catalog.live /\ ~ChatGPT(t) /\ t.provider # "ollama"
  <2>1. Recommends(t.profile, t.provider, Ranks(t.provider, section), usable, rec)
    BY <1>6 DEF Fits
  <2>2. Ranks(t.provider, section) <=> ranked
    BY DEF Ranks
  <2>3. /\ rec \in Seq(usable) /\ \A k, l \in DOMAIN rec : rec[k] = rec[l] => k = l
        /\ Len(rec) = IF MaxListed < Cardinality(offered) THEN MaxListed ELSE Cardinality(offered)
        /\ ranked => Leads(t.profile, t.provider, rec, usable) /\ ToSet(rec) \subseteq offered
    BY <2>1, <2>2 DEF Recommends, Spellings
  <2> HIDE DEF usable, offered
  <2>4. ToSet(rec) \subseteq usable
    BY <2>3 DEF ToSet
  <2>5. Cardinality(ToSet(rec)) = Len(rec)
    BY <2>3, DistinctCount
  <2> QED
    BY <1>6, <2>3, <2>4, <2>5 DEF Sound, Fewer, usable, offered
<1> QED
  BY <1>1, <1>3, <1>4, <1>5, <1>6

(* And what is offered of it is in it once, or all of it is probed. *)
LEMMA OfferFits ==
    ASSUME NEW t \in Task, NEW section, NEW catalog,
           catalog # NoCatalog => Fits(t.profile, t.provider, ChatGPT(t), section, catalog)
    PROVE  Offer(catalog, t) \in Seq(Ids) /\ OnceOrFew(Offer(catalog, t))
<1> DEFINE rec == catalog.recommended
<1>1. t.provider \in DOMAIN Static
  BY DEF Task
<1>2. Static[t.provider] \in Seq(Ids) /\ OnceOrFew(Static[t.provider])
  BY <1>1, CatalogAssumption DEF OnceOrFew
<1>3. <<>> \in Seq(Ids) /\ OnceOrFew(<<>>)
  BY DEF OnceOrFew
<1>4. ASSUME catalog # NoCatalog PROVE rec \in Seq(Ids) /\ OnceOrFew(rec)
  <2>1. Fits(t.profile, t.provider, ChatGPT(t), section, catalog)
    BY <1>4
  <2>2. rec \in Seq(Ids) /\ catalog.usable \in Seq(Ids) /\ catalog.live \in BOOLEAN
    BY <2>1 DEF Fits
  <2>3. CASE ~catalog.live
    BY <1>2, <2>1, <2>3 DEF Fits
  <2>4. CASE catalog.live /\ ChatGPT(t)
    BY <2>1, <2>2, <2>4 DEF Fits, OnceOrFew
  <2>5. CASE catalog.live /\ ~ChatGPT(t) /\ t.provider = "ollama"
    <3>1. rec = Take(catalog.usable, MaxListed)
      BY <2>1, <2>5 DEF Fits
    <3>2. Len(Take(catalog.usable, MaxListed)) =
              IF MaxListed < Len(catalog.usable) THEN MaxListed ELSE Len(catalog.usable)
      BY <2>2, TakeHolds, CatalogAssumption
    <3>3. Len(catalog.usable) \in Nat /\ MaxListed \in Nat
      BY <2>2, CatalogAssumption
    <3>4. Len(rec) <= MaxListed
      BY <3>1, <3>2, <3>3
    <3> QED
      BY <2>2, <3>4 DEF OnceOrFew
  <2>6. CASE catalog.live /\ ~ChatGPT(t) /\ t.provider # "ollama"
    BY <2>1, <2>2, <2>6 DEF Fits, Recommends, OnceOrFew
  <2> QED
    BY <2>2, <2>3, <2>4, <2>5, <2>6
<1>5. \/ Offer(catalog, t) = rec /\ catalog # NoCatalog
      \/ Offer(catalog, t) = <<>> \/ Offer(catalog, t) = Static[t.provider]
  BY DEF Offer
<1> HIDE DEF rec
<1> QED
  BY <1>2, <1>3, <1>4, <1>5

-----------------------------------------------------------------------------
(* One caller moves, alone. *)
Single(c) ==
    /\ DOMAIN call' = Callers /\ Drawn \subseteq DOMAIN call'[c]
    /\ \A d \in Callers : d # c => call'[d] = call[d]

LEMMA OfferMoves ==
    ASSUME OfferInv, [CallNext]_callVars, NEW c \in Callers, Single(c), Offering(call'[c], task[c])
    PROVE  OfferInv'
<1>1. UNCHANGED task /\ Unlooked'
  BY UnlookedKeeps
<1> QED
  BY <1>1 DEF OfferInv, Single

(* It has nothing yet, and goes on or gives up. *)
LEMMA NothingYet ==
    ASSUME OfferInv, [CallNext]_callVars, NEW c \in Callers, call[c].pc \in Busy, Single(c),
           call'[c].pc \in (Busy \ {"section"}) \cup {"returned"},
           call'[c].pc \in {"route", "body"} => task[c].provider \in Open,
           \A f \in {"catalog", "listed", "found"} : call'[c][f] = call[c][f]
    PROVE  OfferInv'
<1>1. /\ call[c].catalog = None /\ call[c].listed = <<>> /\ call[c].found = <<>>
  BY DEF OfferInv, Offering
<1>2. /\ call'[c].catalog = None /\ call'[c].listed = <<>> /\ call'[c].found = <<>>
  BY <1>1
<1>3. Kept(<<>>, <<>>)
  BY AllKept, <<>> \in Seq(Ids)
<1>4. call'[c].pc # "section" /\ call'[c].pc # "probe"
  BY DEF Busy, Trying
<1>5. Offering(call'[c], task[c])
  BY <1>2, <1>3, <1>4 DEF Offering
<1> QED
  BY <1>5, OfferMoves

(* The steps of an attempt, and those of a listing until there is an answer. *)
LEMMA AttemptOffers ==
    ASSUME OfferInv, [CallNext]_callVars, NEW c \in Callers,
           \/ BeginAttempt(c) \/ RouteKnown(c) \/ BodyBuilt(c) \/ TokenRefused(c) \/ Send(c)
           \/ Replied(c) \/ RetryTimer(c) \/ Cancelled(c) \/ BeginListing(c)
    PROVE  OfferInv'
<1>1. DOMAIN call = Callers /\ Drawn \subseteq DOMAIN call[c]
  BY DEF OfferInv
<1>2. call[c].pc \in {"route", "body"} => task[c].provider \in Open
  BY DEF OfferInv, Offering
<1>3. call[c].pc \in Busy
  BY DEF BeginAttempt, RouteKnown, BodyBuilt, TokenRefused, Send, Replied, RetryTimer, Cancelled,
         BeginListing, At, Busy, Trying
<1>4. ASSUME NEW next \in {"route", "token", "list", "returned"}, Goto(c, next),
             next = "route" => task[c].provider \in Open
      PROVE  OfferInv'
  <2>1. Single(c) /\ call'[c].pc = next /\ \A f \in {"catalog", "listed", "found"} : call'[c][f] = call[c][f]
    BY <1>1, <1>4 DEF Goto, Single, Drawn
  <2> QED
    BY <1>3, <1>4, <2>1, NothingYet DEF Busy, Trying
<1>5. ASSUME NEW looks, LookForBody(c, looks), task[c].provider \in Open
      PROVE  OfferInv'
  <2>1. /\ Single(c) /\ call'[c].pc = "body"
        /\ \A f \in {"catalog", "listed", "found"} : call'[c][f] = call[c][f]
    BY <1>1, <1>5 DEF LookForBody, Single, Drawn
  <2> QED
    BY <1>3, <1>5, <2>1, NothingYet DEF Busy, Trying
<1>6. ASSUME NEW r, NEW err, AttemptFails(c, r, err)
      PROVE  OfferInv'
  <2> DEFINE over == RetryStops(err) \/ call[c].tries = task[c].retries
             next == IF over THEN "returned" ELSE "wait"
  <2>1. call' = [call EXCEPT ![c].pc = next, ![c].tries = IF over THEN @ ELSE @ + 1,
                     ![c].again = FALSE, ![c].reply = r, ![c].err = err]
    BY <1>6 DEF AttemptFails
  <2>3. next \in {"returned", "wait"}
    OBVIOUS
  <2> HIDE DEF over, next
  <2>2. /\ Single(c) /\ call'[c].pc = next
        /\ \A f \in {"catalog", "listed", "found"} : call'[c][f] = call[c][f]
    BY <1>1, <2>1 DEF Single, Drawn
  <2> QED
    BY <1>3, <2>2, <2>3, NothingYet DEF Busy, Trying
<1>7. CASE BeginAttempt(c)
  <2>1. \/ task[c].provider \in Opencode /\ Goto(c, "route")
        \/ task[c].provider \in Opencode /\ LookForBody(c, task[c].looks)
        \/ Goto(c, "token")
    BY <1>7 DEF BeginAttempt
  <2> QED
    BY <1>4, <1>5, <2>1 DEF Opencode, Open
<1>8. CASE RouteKnown(c) \/ BodyBuilt(c)
  <2>1. /\ call[c].pc \in {"route", "body"}
        /\ (\E looks : LookForBody(c, looks)) \/ Goto(c, "token")
    BY <1>8 DEF RouteKnown, BodyBuilt, At
  <2> QED
    BY <1>2, <1>4, <1>5, <2>1
<1>9. CASE TokenRefused(c)
  BY <1>6, <1>9 DEF TokenRefused
<1>10. CASE Send(c)
  <2>1. /\ Single(c) /\ call'[c].pc = "asked"
        /\ \A f \in {"catalog", "listed", "found"} : call'[c][f] = call[c][f]
    BY <1>1, <1>10 DEF Send, Single, Drawn
  <2> QED
    BY <1>3, <2>1, NothingYet DEF Busy, Trying
<1>11. CASE Replied(c)
  <2>1. PICK r \in Replies :
            \/ call' = [call EXCEPT ![c].pc = "token", ![c].again = TRUE,
                                    ![c].reply = r, ![c].waited = 0]
            \/ call' = [call EXCEPT ![c].pc = "returned", ![c].reply = r, ![c].err = None]
            \/ AttemptFails(c, r, Failure(Service(task[c].provider), r))
    BY <1>11 DEF Replied
  <2>2. CASE AttemptFails(c, r, Failure(Service(task[c].provider), r))
    BY <1>6, <2>2
  <2>3. CASE call' = [call EXCEPT ![c].pc = "token", ![c].again = TRUE,
                                  ![c].reply = r, ![c].waited = 0]
    <3>1. /\ Single(c) /\ call'[c].pc = "token"
          /\ \A f \in {"catalog", "listed", "found"} : call'[c][f] = call[c][f]
      BY <1>1, <2>3 DEF Single, Drawn
    <3> QED
      BY <1>3, <3>1, NothingYet DEF Busy, Trying
  <2>4. CASE call' = [call EXCEPT ![c].pc = "returned", ![c].reply = r, ![c].err = None]
    <3>1. /\ Single(c) /\ call'[c].pc = "returned"
          /\ \A f \in {"catalog", "listed", "found"} : call'[c][f] = call[c][f]
      BY <1>1, <2>4 DEF Single, Drawn
    <3> QED
      BY <1>3, <3>1, NothingYet DEF Busy, Trying
  <2> QED
    BY <2>1, <2>2, <2>3, <2>4
<1>12. CASE RetryTimer(c)
  <2>1. PICK delay : call' = [call EXCEPT ![c].pc = "begin", ![c].waited = delay]
    BY <1>12 DEF RetryTimer
  <2>2. /\ Single(c) /\ call'[c].pc = "begin"
        /\ \A f \in {"catalog", "listed", "found"} : call'[c][f] = call[c][f]
    BY <1>1, <2>1 DEF Single, Drawn
  <2> QED
    BY <1>3, <2>2, NothingYet DEF Busy, Trying
<1>13. CASE Cancelled(c) \/ BeginListing(c)
  BY <1>4, <1>13 DEF Cancelled, BeginListing
<1> QED
  BY <1>7, <1>8, <1>9, <1>10, <1>11, <1>12, <1>13

(* The listing answers, or was not made. *)
LEMMA ListedOffers ==
    ASSUME OfferInv, [CallNext]_callVars, NEW c \in Callers, Listed(c)
    PROVE  OfferInv'
<1>1. DOMAIN call = Callers /\ Drawn \subseteq DOMAIN call[c] /\ Offering(call[c], task[c])
  BY DEF OfferInv
<1>2. PICK answer \in Listings[task[c].provider] \cup {None} :
          call' = [call EXCEPT ![c].pc = "section", ![c].answer = answer]
  BY DEF Listed
<1>3. /\ Single(c) /\ call'[c].pc = "section" /\ call'[c].answer = answer
      /\ call'[c].catalog = call[c].catalog /\ call'[c].listed = call[c].listed
      /\ call'[c].found = call[c].found
  BY <1>1, <1>2 DEF Single, Drawn
<1>4. call[c].catalog = None /\ call[c].listed = <<>> /\ call[c].found = <<>>
  BY <1>1 DEF Listed, At, Offering, Busy
<1>5. Offering(call'[c], task[c])
  BY <1>3, <1>4 DEF Offering
<1> QED
  BY <1>3, <1>5, OfferMoves

(* The catalog is known. *)
LEMMA KnownOffers ==
    ASSUME OfferInv, [CallNext]_callVars, NEW c \in Callers, CatalogKnown(c)
    PROVE  OfferInv'
<1> DEFINE t == task[c]
           section == lookup[c].doc # None /\ t.provider \in lookup[c].doc
           catalog == ListModelCatalog(t.profile, t.provider, ChatGPT(t),
                          call[c].answer # None, call[c].answer, section)
           listed  == Offer(catalog, t)
           found   == IF Probes(t) THEN call[c].found ELSE listed
           next    == IF Probes(t) THEN "probe" ELSE "returned"
<1>1. /\ DOMAIN call = Callers /\ Drawn \subseteq DOMAIN call[c] /\ Offering(call[c], t)
      /\ t \in Task /\ (t.provider \notin Open => lookup[c].doc = None)
  BY DEF OfferInv, Unlooked
<1>2. /\ call[c].pc = "section"
      /\ call' = [call EXCEPT ![c].section = section, ![c].catalog = catalog, ![c].listed = listed,
                      ![c].pc = next, ![c].found = IF Probes(t) THEN @ ELSE listed]
  BY DEF CatalogKnown, At
<1>3. /\ t.provider \in DOMAIN Static /\ ChatGPT(t) \in BOOLEAN
      /\ ChatGPT(t) => t.provider = "openai"
  BY <1>1 DEF Task, ChatGPT
<1>4. section \in BOOLEAN /\ (section => t.provider \in Open)
  BY <1>1
<1>5. (call[c].answer # None) => call[c].answer \in Answer(t.provider)
  BY <1>1, <1>2, <1>3, CallAssumption DEF Offering
<1>6. catalog = ListModelCatalog(t.profile, t.provider, ChatGPT(t),
                    call[c].answer # None, call[c].answer, section)
  OBVIOUS
<1> HIDE DEF catalog, section
<1>7. catalog # NoCatalog => Fits(t.profile, t.provider, ChatGPT(t), section, catalog)
  <2>1. (call[c].answer # None) \in BOOLEAN
    OBVIOUS
  <2> HIDE DEF t
  <2> QED
    BY <1>3, <1>4, <1>5, <1>6, <2>1, CatalogHolds
<1>8. catalog # NoCatalog => Sound(t, section, catalog)
  BY <1>1, <1>4, <1>7, FitsSound
<1>9. listed \in Seq(Ids) /\ OnceOrFew(listed)
  BY <1>1, <1>7, OfferFits
<1> HIDE DEF listed
<1>10. /\ Single(c) /\ call'[c].pc = next /\ call'[c].section = section
       /\ call'[c].catalog = catalog /\ call'[c].listed = listed
       /\ ~Probes(t) => call'[c].found = listed
  <2> HIDE DEF t, next
  <2> QED
    BY <1>1, <1>2 DEF Single, Drawn
<1>11. Kept(listed, listed)
  BY <1>9, AllKept
<1>12. next \in {"probe", "returned"} /\ (next = "returned" => ~Probes(t))
  OBVIOUS
<1> HIDE DEF next
<1>13. Offering(call'[c], t)
  BY <1>8, <1>9, <1>10, <1>11, <1>12 DEF Offering, Busy, Trying
<1> QED
  BY <1>10, <1>13, OfferMoves

(* The probes, and their end. *)
LEMMA ProbeOffers ==
    ASSUME OfferInv, [CallNext]_callVars, NEW c \in Callers, Probe(c)
    PROVE  OfferInv'
<1>1. DOMAIN call = Callers /\ Drawn \subseteq DOMAIN call[c] /\ Offering(call[c], task[c])
  BY DEF OfferInv
<1>2. PICK m, how : call' = [call EXCEPT ![c].probed[m] = how]
  BY DEF Probe
<1>3. /\ Single(c) /\ call'[c].pc = call[c].pc /\ call'[c].answer = call[c].answer
      /\ call'[c].section = call[c].section /\ call'[c].catalog = call[c].catalog
      /\ call'[c].listed = call[c].listed /\ call'[c].found = call[c].found
  BY <1>1, <1>2 DEF Single, Drawn
<1>4. Offering(call'[c], task[c])
  BY <1>1, <1>3 DEF Offering
<1> QED
  BY <1>3, <1>4, OfferMoves

LEMMA ProbedOffers ==
    ASSUME OfferInv, [CallNext]_callVars, NEW c \in Callers, Probed(c)
    PROVE  OfferInv'
<1> DEFINE healthy == {Lower[m] : m \in {m \in ToSet(Tried(c)) : call[c].probed[m] = "ok"}}
           ok == Where(Tried(c), LAMBDA m : Lower[m] \in healthy)
           listed == call[c].listed
           found == IF ok = <<>> THEN listed ELSE ok
<1>1. DOMAIN call = Callers /\ Drawn \subseteq DOMAIN call[c] /\ Offering(call[c], task[c])
  BY DEF OfferInv
<1>2. call[c].pc = "probe" /\ call' = [call EXCEPT ![c].pc = "returned", ![c].found = found]
  BY DEF Probed, At
<1>3. ok = Passed(Take(listed, MaxListed), healthy)
  <2> HIDE DEF healthy
  <2> QED
    BY DEF Tried, Where, Passed
<1>4. listed \in Seq(Ids) /\ OnceOrFew(listed)
  BY <1>1, <1>2 DEF Offering
<1> HIDE DEF ok, healthy
<1>5. ok = Had(listed, ok)
  BY <1>3, <1>4, ProbedHolds DEF OnceOrFew
<1>6. Kept(found, listed)
  <2>1. CASE ok = <<>>
    BY <1>4, <2>1, AllKept
  <2>2. CASE ok # <<>>
    BY <1>5, <2>2 DEF Kept
  <2> QED
    BY <2>1, <2>2
<1> HIDE DEF found
<1>7. /\ Single(c) /\ call'[c].pc = "returned" /\ call'[c].section = call[c].section
      /\ call'[c].catalog = call[c].catalog /\ call'[c].listed = listed /\ call'[c].found = found
  BY <1>1, <1>2 DEF Single, Drawn
<1>8. Offering(call'[c], task[c])
  BY <1>1, <1>6, <1>7 DEF Offering, Busy, Trying
<1> QED
  BY <1>7, <1>8, OfferMoves

(* No step breaks the invariant. *)
LEMMA OfferKeeps == OfferInv /\ [CallNext]_callVars => OfferInv'
<1> SUFFICES ASSUME OfferInv, [CallNext]_callVars PROVE OfferInv'
  OBVIOUS
<1>1. CASE UNCHANGED call
  BY <1>1, UnlookedKeeps DEF OfferInv
<1>2. ASSUME NEW c \in Callers,
             \/ BeginAttempt(c) \/ RouteKnown(c) \/ BodyBuilt(c) \/ TokenRefused(c) \/ Send(c)
             \/ Replied(c) \/ RetryTimer(c) \/ Cancelled(c)
             \/ BeginListing(c) \/ Listed(c) \/ CatalogKnown(c) \/ Probe(c) \/ Probed(c)
      PROVE  OfferInv'
  BY <1>2, AttemptOffers, ListedOffers, KnownOffers, ProbeOffers, ProbedOffers
<1> QED
  BY <1>1, <1>2 DEF CallNext, callVars, ClockTicks, Fetching

(* Whatever is listed, published and probed, in any order: a live catalog   *)
(* recommends usable models, each once, as many as there are places and the *)
(* favoured first, and a probe keeps the order and leaves no caller without *)
(* a model (catalogFrom, curateFromCatalog, rankRecommended,                *)
(* probeGenerateHealth).                                                    *)
THEOREM CatalogSoundHolds == CallSpec => []CatalogSound
<1>1. OfferInv => CatalogSound
  BY DEF OfferInv, Offering, CatalogSound, Kept, Had, Where, At
<1> QED
  BY <1>1, OfferInitially, OfferKeeps, PTL DEF CallSpec
=============================================================================
