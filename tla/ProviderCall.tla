---------------------------- MODULE ProviderCall ----------------------------
(***************************************************************************)
(* Callers of the providers: a generation with retries, or a listing of    *)
(* the models with a probe of each. An attempt of a generation picks its   *)
(* route (OpenCode), obtains a token, sends a request and classifies what  *)
(* comes back; a listing reads the model metadata alongside. The services  *)
(* are the environment.                                                    *)
(***************************************************************************)
EXTENDS Integers, Sequences, SequencesExt, ModelCatalog

CONSTANTS
    Callers, Docs, TTL, RetryAfter, Horizon,
    Tasks,          \* bound: what the callers do
    Replies,        \* bound: what a service may answer to a request
    Listings,       \* bound: Listings[provider], what its listing may answer
    Cap,            \* retryBackoffCap
    Width           \* of a duration, in bits

VARIABLES
    call,       \* call[c]
    task,       \* task[c]: one of Tasks
    cache, lookup, now

Meta == INSTANCE ModelMetadata

metaVars == <<cache, lookup, now>>
callVars == <<call, task, cache, lookup, now>>

Opencode == {"opencode", "opencode-go"}
Service(provider) == IF provider \in Opencode THEN "opencode" ELSE provider

-----------------------------------------------------------------------------
(* A reply: a status, 0 for none, and what the body and the headers tell.   *)
(* The type stands for the service's codes; "rate" and "context" are said   *)
(* in an event stream only.                                                 *)
Reply == [status : Nat, body : {"whole", "incomplete", "cut", "failed"},
          type : {"none", "quota", "forbidden", "invalid", "rate", "context", "auth"},
          after : Nat, resets : Nat, never : BOOLEAN]

ASSUME CallAssumption ==
    /\ Meta!MetadataAssumption /\ Cap \in Nat /\ Width \in Nat \ {0}
    /\ Replies \subseteq Reply
    /\ \A provider \in DOMAIN Static : Listings[provider] \subseteq Answer(provider)

(* The codes of a service that the table of classifyAPIError knows. *)
Known(service) ==
    CASE service \in {"opencode", "kilo"} -> {"quota", "forbidden", "invalid"}
      [] service = "openai" -> {"quota", "forbidden"}
      [] OTHER -> {}

StatusSentinel(status) ==
    CASE status = 429 -> "rate"
      [] status \in {401, 403} -> "auth"
      [] status >= 500 -> "unavailable"
      [] OTHER -> "invalid"

(* Mutant: a 429 is a rate limit whatever its body says. *)
ClassifyStatusFirst(service, r) ==
    LET Says(type) == r.type = type /\ type \in Known(service) IN
    CASE r.status = 429 -> <<FALSE, "rate">>
      [] r.status # 429 /\ (Says("quota") \/ r.status = 402) -> <<TRUE, "quota">>
      [] r.status # 429 /\ (Says("forbidden") \/ (service = "kilo" /\ r.status = 403)) ->
             <<TRUE, "forbidden">>
      [] OTHER -> <<r.status < 500 /\ r.status # 408, StatusSentinel(r.status)>>

(* classifyAPIError: the first row that applies. *)
Rows(service, r) ==
    LET Says(type) == r.type = type /\ type \in Known(service) IN
    <<<<Says("quota") \/ r.status = 402, TRUE, "quota">>,
      <<Says("forbidden") \/ (service = "kilo" /\ r.status = 403), TRUE, "forbidden">>,
      <<Says("invalid"), TRUE, "invalid">>,
      <<r.status = 429, FALSE, "rate">>,
      <<r.status = 408, FALSE, "unavailable">>,
      <<r.status \in {525, 526}, TRUE, "unavailable">>,
      <<r.status >= 500, FALSE, "unavailable">>,
      <<TRUE, TRUE, StatusSentinel(r.status)>>>>

Applies(rows, i) == rows[i][1] /\ \A j \in 1..(i - 1) : ~rows[j][1]

Classify(service, r) ==
    LET rows == Rows(service, r)
        row == rows[CHOOSE i \in DOMAIN rows : Applies(rows, i)]
    IN  <<row[2], row[3]>>

Err(class, terminal, sentinel, after) ==
    [class |-> class, terminal |-> terminal, sentinel |-> sentinel, after |-> after]
Plain(sentinel) == Err("plain", FALSE, sentinel, 0)

(* classifyHTTPError; a quota error is a rate limit that is final. *)
HTTPError(service, r) ==
    LET found == Classify(service, r)
        terminal == found[1] \/ r.never
        after == IF r.after = 0 THEN r.resets ELSE r.after
    IN  Err(IF found[2] \in {"rate", "quota"} /\ ~terminal THEN "rate" ELSE "api",
            terminal, found[2], after)

(* streamFailure: a failure reported inside a 200 event stream. *)
StreamFailure(service, r) ==
    LET found == Classify(service, [r EXCEPT !.status = 500]) IN
    CASE r.type = "rate" -> Err("rate", FALSE, "rate", 0)
      [] r.type = "context" -> Err("api", TRUE, "invalid", 0)
      [] OTHER -> Err("api", found[1], found[2], 0)

(* What an attempt fails with; None when it does not. *)
Failure(service, r) ==
    CASE r.status = 0 -> Plain(r.type)
      [] r.status \notin {0, 200} -> HTTPError(service, r)
      [] r.status = 200 /\ r.body = "failed" -> StreamFailure(service, r)
      [] r.status = 200 /\ r.body = "incomplete" -> Plain("invalid")
      [] r.status = 200 /\ r.body = "cut" -> Plain("unavailable")
      [] r.status = 200 /\ r.body = "whole" -> None

RetryStops(err) ==
    CASE err.class = "api" -> err.terminal \/ err.after > Cap
      [] err.class = "rate" -> err.after > Cap
      [] err.class = "plain" -> err.sentinel \in {"auth", "invalid"}

(* delay << n, a signed number of Width bits. *)
Shifted(delay, n) ==
    LET bits == (delay * 2 ^ n) % 2 ^ Width
    IN  IF bits >= 2 ^ (Width - 1) THEN bits - 2 ^ Width ELSE bits

(* The waits before attempt n + 1, with their jitter. *)
Delays(delay, n, err) ==
    LET shifted == Shifted(delay, n - 1)
        base == IF shifted \in 1..Cap THEN shifted ELSE Cap
    IN  IF err.after > 0 THEN {err.after}
        ELSE IF base \div 4 > 0 THEN base..(base + base \div 4 - 1) ELSE {base}

-----------------------------------------------------------------------------
Task == [kind : {"generate", "discover"}, provider : DOMAIN Static,
         credential : {"key", "oauth", "vendor"}, retries : Nat, delay : Nat,
         pinned : BOOLEAN, looks : 0..2, metadata : BOOLEAN,
         profile : {"utility", "capable"}]

ASSUME TasksAssumption == Tasks \subseteq [Callers -> Task]

CallType ==
    /\ task \in [Callers -> Task]
    /\ DOMAIN call = Callers
    /\ \A c \in Callers : call[c] \in
        [pc : {"begin", "route", "body", "token", "asked", "wait", "list", "section", "probe",
               "returned"},
         tries : Nat, again : BOOLEAN, requests : Nat, waited : Nat,
         reply : Reply \cup {None},
         err : [class : {"api", "rate", "plain"}, terminal : BOOLEAN, sentinel : STRING,
                after : Nat] \cup {None},
         section : BOOLEAN,
         catalog : {None, NoCatalog}
                   \cup [recommended : Seq(STRING), usable : Seq(STRING), live : BOOLEAN,
                         err : BOOLEAN],
         looks : 0..2, listed : Seq(STRING), probed : [DOMAIN Lower -> {"no", "ok", "bad"}],
         found : Seq(STRING), answer : {call[c].answer}]
    /\ \A c \in Callers : call[c].answer = None \/ call[c].answer \in Listings[task[c].provider]

NewCall == [pc |-> "begin", tries |-> 0, again |-> FALSE, requests |-> 0, waited |-> 0,
            reply |-> None, err |-> None, looks |-> 0, answer |-> None, section |-> FALSE, catalog |-> None,
            listed |-> <<>>, probed |-> [m \in DOMAIN Lower |-> "no"], found |-> <<>>]

CallInit ==
    /\ task \in Tasks
    /\ call = [c \in Callers |-> NewCall]
    /\ Meta!MetadataInit

At(c, pc) == call[c].pc = pc
Goto(c, pc) == call' = [call EXCEPT ![c].pc = pc]
ChatGPT(t) == t.provider = "openai" /\ t.credential # "key"
NeedsToken(t) == t.credential # "key"

-----------------------------------------------------------------------------
(* An attempt. requestRoute looks the route up unless it is pinned; the     *)
(* body of a Chat Completions request looks up the reasoning effort and the *)
(* field that replays reasoning, each when the request has a use for it.    *)
Look(c) == Meta!Load(c, ~task[c].metadata) /\ UNCHANGED <<cache, now>>

LookForBody(c, looks) ==
    /\ looks > 0
    /\ call' = [call EXCEPT ![c].pc = "body", ![c].looks = looks - 1]
    /\ Look(c)

BeginAttempt(c) ==
    /\ At(c, "begin") /\ task[c].kind = "generate"
    /\ \/ task[c].provider \in Opencode /\ ~task[c].pinned /\ Goto(c, "route") /\ Look(c)
       \/ task[c].provider \in Opencode /\ task[c].pinned /\ LookForBody(c, task[c].looks)
       \/ (task[c].provider \in Opencode => task[c].pinned)
          /\ Goto(c, "token") /\ UNCHANGED metaVars
    /\ UNCHANGED task

RouteKnown(c) ==
    /\ At(c, "route") /\ lookup[c].pc = "done"
    /\ \/ LookForBody(c, task[c].looks)
       \/ Goto(c, "token") /\ Meta!Taken(c) /\ UNCHANGED <<cache, now>>
    /\ UNCHANGED task

BodyBuilt(c) ==
    /\ At(c, "body") /\ lookup[c].pc = "done"
    /\ \/ LookForBody(c, call[c].looks)
       \/ call[c].looks = 0 /\ Goto(c, "token") /\ Meta!Taken(c) /\ UNCHANGED <<cache, now>>
    /\ UNCHANGED task

(* A failed attempt is the last one, or a wait follows. *)
AttemptFails(c, r, err) ==
    LET over == RetryStops(err) \/ call[c].tries = task[c].retries
    IN  call' = [call EXCEPT ![c].pc = IF over THEN "returned" ELSE "wait",
            ![c].tries = IF over THEN @ ELSE @ + 1, ![c].again = FALSE,
            ![c].reply = r, ![c].err = err]

NoReply(type) == [status |-> 0, body |-> "whole", type |-> type, after |-> 0, resets |-> 0,
                  never |-> FALSE]

(* A session that cannot be refreshed now, or for good; a vendor CLI's      *)
(* login that is gone.                                                      *)
TokenRefused(c) ==
    /\ At(c, "token") /\ NeedsToken(task[c])
    /\ \E type \in {"auth"} \cup (IF task[c].credential = "oauth" THEN {"none"} ELSE {}) :
          AttemptFails(c, NoReply(type), Failure(Service(task[c].provider), NoReply(type)))
    /\ UNCHANGED <<task, metaVars>>

Send(c) ==
    /\ At(c, "token")
    /\ call' = [call EXCEPT ![c].pc = "asked", ![c].requests = @ + 1]
    /\ UNCHANGED <<task, metaVars>>

(* A 401 expires an OAuth session, and the request is made once more.       *)
Repeats(c, r) == r.status = 401 /\ task[c].credential = "oauth" /\ ~call[c].again

Replied(c) ==
    /\ At(c, "asked")
    /\ \E r \in Replies :
          LET err == Failure(Service(task[c].provider), r) IN
          /\ r.body = "failed" => ChatGPT(task[c])
          /\ CASE Repeats(c, r) ->
                     call' = [call EXCEPT ![c].pc = "token", ![c].again = TRUE,
                                          ![c].reply = r, ![c].waited = 0]
               [] ~Repeats(c, r) /\ err = None ->
                     call' = [call EXCEPT ![c].pc = "returned", ![c].reply = r, ![c].err = None]
               [] ~Repeats(c, r) /\ err # None -> AttemptFails(c, r, err)
    /\ UNCHANGED <<task, metaVars>>

RetryTimer(c) ==
    /\ At(c, "wait")
    /\ \E delay \in Delays(task[c].delay, call[c].tries, call[c].err) :
          call' = [call EXCEPT ![c].pc = "begin", ![c].waited = delay]
    /\ UNCHANGED <<task, metaVars>>

Cancelled(c) ==
    /\ At(c, "wait")
    /\ Goto(c, "returned")
    /\ UNCHANGED <<task, metaVars>>

-----------------------------------------------------------------------------
(* DiscoverModels. The metadata is loaded by a goroutine of its own, and    *)
(* waited for only when there is something to recommend. The token of an    *)
(* OAuth session or of a vendor CLI may be refused: nothing is listed.      *)
UsesMetadata(t) == t.provider \in Opencode \cup {"huggingface"}

Waits(t, answer) ==
    /\ UsesMetadata(t) /\ answer.ok
    /\ LET listed == IF t.provider = "huggingface" THEN FetchHuggingFace(answer)
                     ELSE FetchData(t.provider, answer)
       IN  listed.ids # <<>>

BeginListing(c) ==
    /\ At(c, "begin") /\ task[c].kind = "discover"
    /\ Goto(c, "list")
    /\ IF UsesMetadata(task[c]) THEN Look(c) ELSE UNCHANGED metaVars
    /\ UNCHANGED task

Listed(c) ==
    /\ At(c, "list")
    /\ \E answer \in Listings[task[c].provider]
                     \cup (IF NeedsToken(task[c]) THEN {None} ELSE {}) :
          call' = [call EXCEPT ![c].pc = "section", ![c].answer = answer]
    /\ UNCHANGED <<task, metaVars>>

(* What was listed is probed where a generation is free of charge.          *)
Probes(t) == t.provider \in {"gemini", "claude", "grok", "ollama"}
             \/ (t.provider = "openai" /\ ~ChatGPT(t))

Offer(catalog, t) ==
    IF catalog # NoCatalog /\ catalog.recommended # <<>> THEN catalog.recommended
    ELSE IF ChatGPT(t) THEN <<>> ELSE Static[t.provider]

CatalogKnown(c) ==
    LET t == task[c]
        section == lookup[c].doc # None /\ t.provider \in lookup[c].doc
        catalog == ListModelCatalog(t.profile, t.provider, ChatGPT(t),
                       call[c].answer # None, call[c].answer, section)
        listed  == Offer(catalog, t)
    IN
    /\ At(c, "section")
    /\ Waits(t, call[c].answer) => lookup[c].pc = "done"
    /\ call' = [call EXCEPT ![c].section = section, ![c].catalog = catalog,
           ![c].listed = listed,
           ![c].pc = IF Probes(t) THEN "probe" ELSE "returned",
           ![c].found = IF Probes(t) THEN @ ELSE listed]
    /\ IF Waits(t, call[c].answer) THEN Meta!Taken(c) ELSE UNCHANGED lookup
    /\ UNCHANGED <<task, cache, now>>

(* probeGenerateHealth: one goroutine per candidate, in any order. *)
Tried(c) == Take(call[c].listed, MaxListed)

Probe(c) ==
    /\ At(c, "probe")
    /\ \E i \in DOMAIN Tried(c), how \in {"ok", "bad"} :
          /\ call[c].probed[Tried(c)[i]] = "no"
          /\ call' = [call EXCEPT ![c].probed[Tried(c)[i]] = how]
    /\ UNCHANGED <<task, metaVars>>

Probed(c) ==
    LET healthy == {Lower[m] : m \in {m \in ToSet(Tried(c)) : call[c].probed[m] = "ok"}}
        ok == Where(Tried(c), LAMBDA m : Lower[m] \in healthy)
    IN  /\ At(c, "probe")
        /\ \A m \in ToSet(Tried(c)) : call[c].probed[m] # "no"
        /\ call' = [call EXCEPT ![c].pc = "returned",
                        ![c].found = IF ok = <<>> THEN call[c].listed ELSE ok]
        /\ UNCHANGED <<task, metaVars>>

-----------------------------------------------------------------------------
Fetching(c) ==
    /\ Meta!Fetched(c) \/ Meta!FetchFails(c)
    /\ UNCHANGED <<call, task>>

ClockTicks == Meta!Tick /\ UNCHANGED <<call, task>>

CallNext ==
    \/ ClockTicks
    \/ \E c \in Callers :
          \/ BeginAttempt(c) \/ RouteKnown(c) \/ BodyBuilt(c) \/ TokenRefused(c) \/ Send(c)
          \/ Replied(c) \/ RetryTimer(c) \/ Cancelled(c)
          \/ BeginListing(c) \/ Listed(c) \/ CatalogKnown(c) \/ Probe(c) \/ Probed(c)
          \/ Fetching(c)

CallSpec == CallInit /\ [][CallNext]_callVars

CallTypeOK == CallType /\ Meta!MetadataType

-----------------------------------------------------------------------------
(* What the service said last was final: a status that will not change, a   *)
(* code for exhausted quota or a request it will never serve, its word that *)
(* there is no use in trying, or a delay nobody waits for.                  *)
Asked(r) == IF r.status \in {0, 200} THEN 0 ELSE IF r.after = 0 THEN r.resets ELSE r.after

LastWord(service, r) ==
    \/ r.status \in (400..499) \ {408, 429} \/ r.status \in {525, 526}
    \/ r.status >= 400 /\ (r.never \/ Asked(r) > Cap \/ r.type \in Known(service))
    \/ r.status = 200 /\ (\/ r.body = "incomplete"
                          \/ r.body = "failed" /\ r.type \in {"context"} \cup Known(service))
    \/ r.status = 0 /\ r.type = "auth"

(* A request is made again only when the answer before it was not final,    *)
(* after the delay the service asked for, within the retries allowed, or,   *)
(* once in an attempt, for an OAuth session whose token was refused         *)
(* (retryWithBackoff over classifyHTTPError and doGenerateItems).           *)
RetriesJustified ==
    [][\A c \in Callers :
          call'[c].requests > call[c].requests /\ call[c].reply # None =>
              /\ call'[c].requests <= 2 * (task[c].retries + 1)
              /\ IF call[c].again
                 THEN call[c].reply.status = 401 /\ task[c].credential = "oauth"
                 ELSE /\ call[c].tries \in 1..task[c].retries
                      /\ ~LastWord(Service(task[c].provider), call[c].reply)
                      /\ call[c].waited >= Asked(call[c].reply)]_callVars

(* The models a caller is offered. A live catalog recommends usable models, *)
(* each once and as many as there are places; a ranked one starts with      *)
(* those nothing known speaks against, few of each group, before any other  *)
(* fills a place, and holds none the profile leaves out. Ollama's listing   *)
(* is passed on as it is, and anything else is the static catalog. A probe  *)
(* keeps the order and leaves no caller without a model (catalogFrom,       *)
(* curateFromCatalog, rankRecommended, probeGenerateHealth).                *)
Fewer(m, n) == IF m < n THEN m ELSE n

Sound(t, section, catalog) ==
    LET rec == catalog.recommended
        usable == ToSet(catalog.usable)
        ranked == t.provider = "kilo" \/ section
        offered == IF ranked THEN Admitted(t.profile, t.provider, usable)
                             ELSE {Lower[m] : m \in usable}
    IN  IF ~catalog.live
        THEN rec = Static[t.provider] /\ catalog.usable = Static[t.provider]
        ELSE /\ ToSet(rec) \subseteq usable
             /\ t.provider # "ollama" => Cardinality(ToSet(rec)) = Len(rec)
             /\ ~ChatGPT(t) => Len(rec) = Fewer(MaxListed, IF t.provider = "ollama"
                                   THEN Len(catalog.usable) ELSE Cardinality(offered))
             /\ ranked => Leads(t.profile, t.provider, rec, usable) /\ ToSet(rec) \subseteq offered

CatalogSound ==
    \A c \in Callers :
        /\ call[c].catalog \notin {None, NoCatalog}
               => Sound(task[c], call[c].section, call[c].catalog)
        /\ At(c, "returned") =>
              /\ call[c].found = Where(call[c].listed, LAMBDA m : m \in ToSet(call[c].found))
              /\ call[c].found = <<>> => call[c].listed = <<>>
=============================================================================
