---------------------------- MODULE ConfigureLLM ----------------------------
(***************************************************************************)
(* ConfigureLLM: choose a provider, an endpoint, a credential, a model and *)
(* fallbacks, one question at a time, with the logins, the prompter and    *)
(* the model catalog it uses. wiz.pc names the question that is being      *)
(* asked or the call that has not returned. A consumer may run it again    *)
(* after an error, while goroutines of the run before are still around.    *)
(***************************************************************************)
EXTENDS Integers, Sequences, SequencesExt, ModelCatalog

CONSTANTS
    Attempts, Ports, Blank, Unfit, Broken,
    Second, DefaultInterval, SlowDown, Expiries, Intervals,
    MaxSearch,      \* the most matches shown
    Queries,        \* bound: what is searched for
    Typed,          \* bound: the ids a user types
    Answers,        \* bound: Answers[provider], what its listing may answer
    Picks,          \* bound: the picks of several choices
    Runs            \* bound: the options the process runs with, and what its user does

VARIABLES
    wiz,        \* the wizard
    login, paste, device, prompter,
    saved,      \* saved[provider]: the session in the token store
    opts        \* Options

Browser == INSTANCE BrowserLogin
Device  == INSTANCE DeviceLogin
Prompt  == INSTANCE TextPrompter

ASSUME DeviceAssumptions == Device!DeviceAssumption

loginVars == <<login, paste>>
vars == <<wiz, login, paste, device, prompter, saved, opts>>

-----------------------------------------------------------------------------
(* descriptorSpecs *)
Menu == <<"gemini", "openai", "claude", "grok", "opencode", "opencode-go",
          "huggingface", "kilo", "ollama">>
AuthMethods(p) ==
    IF p \in {"openai", "grok"} THEN <<"api_key", "browser", "device", "stdin", "vendor">> ELSE <<>>
SupportsBaseURL(p) == p \in {"opencode", "opencode-go", "huggingface", "kilo", "ollama"}
IsLocal(p)         == p = "ollama"
RequiresAPIKey(p)  == p # "ollama"

Offered == Where(Menu, LAMBDA p : opts.providers = {} \/ p \in opts.providers)

(* A session: whether it can be refreshed, whether its expiry is unknown,   *)
(* and how often its tokens were rotated.                                   *)
Session == [refresh : BOOLEAN, timeless : BOOLEAN, gen : 0..1]

Existing == [provider : ToSet(Menu) \cup {None}, session : Session \cup {None}, key : BOOLEAN,
             model : {None} \cup Typed]

Options == [providers : SUBSET (ToSet(Menu) \cup {"unknown"}), existing : Existing,
            env : BOOLEAN, discover : BOOLEAN, fallbacks : BOOLEAN, capable : BOOLEAN,
            store : BOOLEAN, orchestrated : BOOLEAN, piped : BOOLEAN,
            patience : Nat,     \* bound: the answers of a run that repeat a question
            uses : SUBSET ToSet(AuthMethods("openai")),    \* bound: the methods chosen
            tries : Attempts]                              \* bound: the runs made

ASSUME SetupAssumption ==
    /\ Attempts \subseteq Nat \ {0} /\ \A n \in Attempts : 1..n \subseteq Attempts
    /\ Runs \subseteq Options /\ None \notin Session
    /\ ToSet(Menu) \subseteq DOMAIN Static
    /\ \A provider \in ToSet(Menu) : Answers[provider] \subseteq Answer(provider)
    /\ Queries \subseteq DOMAIN Score
    /\ Picks \subseteq Seq(Nat) /\ MaxSearch \in Nat

Questions == {"provider", "baseURL", "endpointAgain", "method", "useEnv", "keepKey", "secret",
    "token", "useVendor", "keepSession", "typeModel", "search", "matches", "menu", "typeId",
    "fallbackSearch", "fallbackMenu", "fallbackMatches", "moreFallbacks"}

WizType ==
    /\ wiz.pc \in Questions \cup {"start", "browser", "drain", "device", "save", "discover",
                                  "returned"}
    /\ wiz.run \in Attempts /\ wiz.ok \in BOOLEAN /\ wiz.patience \in 0..opts.patience
    /\ wiz.kind \in {"none", "api_key", "oauth", "vendor_cli"}
    /\ wiz.session \in Session \cup {None}

TypeOK == WizType /\ Browser!LoginType /\ Browser!PasteType /\ Device!DeviceType
          /\ Prompt!PrompterType /\ opts \in Options

NewRun(n) ==
    [pc |-> "start", run |-> n, provider |-> None, kind |-> "none", session |-> None,
     kept |-> FALSE, catalog |-> None, matches |-> <<>>, model |-> None, how |-> "none",
     fallbacks |-> <<>>, patience |-> opts.patience, ok |-> FALSE]

Init ==
    /\ opts \in Runs
    /\ wiz = NewRun(1)
    /\ Browser!LoginInit /\ Device!DeviceInit
    /\ prompter = [exhausted |-> FALSE, writeErr |-> FALSE, piped |-> opts.piped]
    /\ saved = [p \in {"openai", "grok"} |-> None]

-----------------------------------------------------------------------------
p == wiz.provider
At(pc) == wiz.pc = pc
Goto(pc) == wiz' = [wiz EXCEPT !.pc = pc]
Fail == wiz' = [wiz EXCEPT !.pc = "returned"]

(* A question is asked again; only a user's own answers are bounded. *)
Repeat(pc) ==
    IF prompter.exhausted THEN Goto(pc)
    ELSE wiz.patience > 0 /\ wiz' = [wiz EXCEPT !.pc = pc, !.patience = @ - 1]

(* The prompter asks, and the flow goes on with the answer. *)
Ask(texts, flushes, Outcome(_, _), Then(_)) ==
    /\ \E line \in Prompt!ReadLine({Blank} \cup texts), lost \in Prompt!Printed :
          LET answer == Outcome(line, lost) IN
          /\ Prompt!Prompted(line, lost, flushes /\ line.text \notin {Broken, Unfit})
          /\ \/ answer.is = "fails" /\ Fail
             \/ answer.is = "again" /\ Repeat(wiz.pc)
             \/ answer.is = "value" /\ Then(answer.value)
    /\ UNCHANGED <<loginVars, device, saved, opts>>

AskSelect(size, default, Then(_)) ==
    Ask({Unfit} \cup 1..size, TRUE,
        LAMBDA line, lost : Prompt!Select(line, lost, size, default), Then)

AskPicks(size, Then(_)) ==
    Ask({Unfit} \cup Picks, TRUE,
        LAMBDA line, lost : Prompt!MultiSelect(line, lost, size, <<>>), Then)

AskConfirm(default, Then(_)) ==
    Ask(BOOLEAN, TRUE, LAMBDA line, lost : Prompt!Confirm(line, lost, default), Then)

AskInput(texts, default, Then(_)) ==
    Ask(texts, TRUE, LAMBDA line, lost : Prompt!Input(line, lost, default), Then)

AskSecret(texts, Then(_)) ==
    Ask(texts, FALSE, LAMBDA line, lost : Prompt!Secret(line), Then)

-----------------------------------------------------------------------------
(* The provider and its endpoint. *)
Begin ==
    /\ At("start")
    /\ IF opts.orchestrated \/ Offered = <<>> THEN Fail ELSE Goto("provider")
    /\ UNCHANGED <<loginVars, device, prompter, saved, opts>>

APIKeyQuestion(afterEnv, provider) ==
    IF opts.env /\ ~afterEnv THEN "useEnv"
    ELSE IF opts.existing.provider = provider /\ opts.existing.key THEN "keepKey" ELSE "secret"

CredentialQuestion(provider) ==
    IF AuthMethods(provider) # <<>> THEN "method"
    ELSE IF RequiresAPIKey(provider) THEN APIKeyQuestion(FALSE, provider) ELSE "discover"

DefaultProvider ==
    LET at == {i \in DOMAIN Offered : Offered[i] = opts.existing.provider}
    IN  IF at = {} THEN 1 ELSE CHOOSE i \in at : TRUE

ChooseProvider ==
    /\ At("provider")
    /\ AskSelect(Len(Offered), DefaultProvider, LAMBDA i :
          wiz' = [wiz EXCEPT !.provider = Offered[i],
              !.pc = IF SupportsBaseURL(Offered[i]) THEN "baseURL"
                     ELSE CredentialQuestion(Offered[i])])

(* A local endpoint that cannot be reached is asked for again, if the user wants. *)
EnterBaseURL ==
    /\ At("baseURL")
    /\ \E reachable \in IF IsLocal(p) THEN BOOLEAN ELSE {TRUE} :
          AskInput({"url"}, "default", LAMBDA url :
              Goto(IF reachable THEN CredentialQuestion(p) ELSE "endpointAgain"))

EndpointAgain ==
    /\ At("endpointAgain")
    /\ AskConfirm(TRUE, LAMBDA again :
          IF again THEN Repeat("baseURL") ELSE Goto(CredentialQuestion(p)))

-----------------------------------------------------------------------------
(* The credential. *)
WithKey(key) == wiz' = [wiz EXCEPT !.pc = "discover", !.kind = "api_key"]

UseEnv ==
    /\ At("useEnv")
    /\ AskConfirm(TRUE, LAMBDA use : IF use THEN WithKey(use) ELSE Goto(APIKeyQuestion(TRUE, p)))

KeepKey ==
    /\ At("keepKey")
    /\ AskConfirm(TRUE, LAMBDA keep : IF keep THEN WithKey(keep) ELSE Goto("secret"))

EnterKey == At("secret") /\ AskSecret({"sk"}, WithKey)

CanKeepSession ==
    opts.existing.session # None /\ opts.existing.provider = p

(* The vendor CLI's file is read before its use is offered. *)
ChooseMethod ==
    /\ At("method")
    /\ AskSelect(Len(AuthMethods(p)), 1, LAMBDA i :
          LET method == AuthMethods(p)[i] IN
          /\ method \in opts.uses
          /\ \/ method = "api_key" /\ Goto(APIKeyQuestion(FALSE, p))
             \/ method = "stdin" /\ Goto("token")
             \/ method = "vendor" /\ (Goto("useVendor") \/ Fail)
             \/ method = "browser" /\ opts.store
                /\ Goto(IF CanKeepSession THEN "keepSession" ELSE "browser")
             \/ method = "device" /\ opts.store /\ Goto("device")
             \/ method \in {"browser", "device"} /\ ~opts.store /\ Fail)

WithSession(session, pc) ==
    wiz' = [wiz EXCEPT !.pc = pc, !.kind = "oauth", !.session = session]

(* resolveTokenStdin: anything but an API key is a ChatGPT access token. *)
PasteToken ==
    /\ At("token")
    /\ AskSecret({"sk", "token"}, LAMBDA value :
          IF p # "openai" \/ value = "sk" THEN WithKey(value)
          ELSE IF ~opts.store THEN Fail
          ELSE WithSession([refresh |-> FALSE, timeless |-> TRUE, gen |-> 0], "save"))

UseVendorCLI ==
    /\ At("useVendor")
    /\ AskConfirm(TRUE, LAMBDA use :
          IF use THEN wiz' = [wiz EXCEPT !.pc = "discover", !.kind = "vendor_cli"] ELSE Fail)

(* ValidateOAuthSession *)
Valid(provider, session) ==
    session.refresh \/ (provider = "openai" /\ session.timeless)

KeepExistingOAuth ==
    /\ At("keepSession")
    /\ AskConfirm(TRUE, LAMBDA keep :
          IF ~keep THEN Goto("browser")
          ELSE IF ~Valid(p, opts.existing.session) THEN Fail
          ELSE wiz' = [wiz EXCEPT !.pc = "discover", !.kind = "oauth", !.kept = TRUE,
                                  !.session = opts.existing.session])

-----------------------------------------------------------------------------
(* The logins: a call of the wizard's, and the goroutines it leaves.        *)
StartBrowser ==
    /\ At("browser")
    /\ Browser!Start(wiz.run, p = "openai")
    /\ UNCHANGED <<wiz, device, prompter, saved, opts>>

LoginStep(a) ==
    /\ \/ Browser!Listens(a) \/ Browser!ListenFails(a) \/ Browser!EndpointUnusable(a)
       \/ Browser!TakeResult(a) \/ Browser!GiveUp(a)
       \/ Browser!Redeem(a) \/ Browser!ExchangeFails(a) \/ Browser!Shutdown(a)
    /\ UNCHANGED <<wiz, device, prompter, saved, opts>>

Timeout(a) ==
    /\ Browser!Expire(a)
    /\ UNCHANGED <<wiz, device, prompter, saved, opts>>

Disturbed(a) ==
    /\ Browser!ServeFails(a) \/ \E b \in Attempts : Browser!Callback(a, b)
    /\ UNCHANGED <<wiz, device, prompter, saved, opts>>

OpenerStep(a) ==
    /\ Browser!Show(a) \/ Browser!Shown(a)
    /\ UNCHANGED <<wiz, device, saved, opts>>

InputStep(a) ==
    /\ Browser!InputCancelled(a) \/ Browser!InputReads(a) \/ Browser!InputOffers(a)
    /\ UNCHANGED <<wiz, device, saved, opts>>

PasteLine(a) ==
    /\ Browser!InputLine(a)
    /\ UNCHANGED <<wiz, device, saved, opts>>

LoginReturned ==
    IF login[wiz.run].pc = "granted"
    THEN WithSession([refresh |-> login[wiz.run].refreshable, timeless |-> FALSE, gen |-> 0],
                     "save")
    ELSE Fail

(* Mutant: what drain finds pending is left to itself. *)
DrainLeaves ==
    /\ At("browser")
    /\ Browser!Drain(wiz.run)
    /\ LoginReturned
    /\ UNCHANGED <<prompter, device, saved, opts>>

(* drain says that the sign-in is over when a read is still pending. *)
DrainPaste ==
    /\ At("browser")
    /\ Browser!Drain(wiz.run)
    /\ IF paste[wiz.run].pending = "open"
       THEN Goto("drain") /\ Prompt!Notify
       ELSE LoginReturned /\ UNCHANGED prompter
    /\ UNCHANGED <<device, saved, opts>>

Drained ==
    /\ At("drain") /\ Browser!Drained(wiz.run)
    /\ LoginReturned
    /\ UNCHANGED <<loginVars, device, prompter, saved, opts>>

StartDevice ==
    /\ At("device") /\ device.pc \in {"idle", "granted", "failed"}
    /\ device.run # wiz.run
    /\ Device!DeviceStart(p = "openai", wiz.run)
    /\ UNCHANGED <<wiz, loginVars, prompter, saved, opts>>

(* The code is shown through the prompter. *)
DeviceStep ==
    /\ Device!DeviceNext
    /\ IF device.pc = "request" /\ device'.pc # "failed" THEN Prompt!Notify ELSE UNCHANGED prompter
    /\ UNCHANGED <<wiz, loginVars, saved, opts>>

DeviceReturns ==
    /\ At("device") /\ Device!DeviceEnded /\ device.run = wiz.run
    /\ IF device.pc = "granted"
       THEN \E refresh \in BOOLEAN :
               WithSession([refresh |-> refresh, timeless |-> FALSE, gen |-> 0], "save")
       ELSE Fail
    /\ UNCHANGED <<loginVars, device, prompter, saved, opts>>

(* saveOAuthCredential *)
SaveOAuthCredential ==
    /\ At("save")
    /\ \/ Fail /\ UNCHANGED saved
       \/ /\ Valid(p, wiz.session)
          /\ saved' = [saved EXCEPT ![p] = wiz.session]
          /\ Goto("discover")
    /\ UNCHANGED <<loginVars, device, prompter, opts>>

-----------------------------------------------------------------------------
(* The model. discoverModels falls back to the static catalog, which a      *)
(* ChatGPT session has none of.                                             *)
ChatGPT == wiz.kind \in {"oauth", "vendor_cli"} /\ p = "openai"

Fallback ==
    LET static == IF ChatGPT THEN <<>> ELSE Static[p]
    IN  Catalog(static, static, FALSE, FALSE)

Discovered(catalog) ==
    wiz' = [wiz EXCEPT !.catalog = catalog,
        !.pc = IF catalog.recommended = <<>> THEN "typeModel" ELSE "search"]

(* The session that a refresh of another makes. *)
Refreshed(session) == [session EXCEPT !.gen = 1]

(* The listing asks the source for a token: a stored session may be due and *)
(* be refreshed, a session or a file may be refused.                        *)
ListModels ==
    /\ At("discover") /\ opts.discover
    /\ \E token \in (IF wiz.kind \in {"oauth", "vendor_cli"} THEN BOOLEAN ELSE {TRUE}),
          answer \in Answers[p], section \in BOOLEAN :
          LET cat == ListModelCatalog(IF opts.capable THEN "capable" ELSE "utility",
                                             p, ChatGPT, token, answer, section)
          IN  Discovered(IF cat = NoCatalog \/ cat.recommended = <<>>
                         THEN Fallback ELSE cat)
    /\ \/ UNCHANGED saved
       \/ /\ wiz.kind = "oauth" /\ wiz.session.refresh
          /\ saved' = [saved EXCEPT ![p] = Refreshed(wiz.session)]
    /\ Prompt!Notify
    /\ UNCHANGED <<loginVars, device, opts>>

SkipListing ==
    /\ At("discover") /\ ~opts.discover
    /\ Discovered(Fallback)
    /\ UNCHANGED <<loginVars, device, prompter, saved, opts>>

Return(fallbacks) == wiz' = [wiz EXCEPT !.pc = "returned", !.ok = TRUE, !.fallbacks = fallbacks]

ExistingModel == IF opts.existing.provider = p THEN opts.existing.model ELSE None

Key(m) == Lower[m]
Names(models) == {Lower[m] : m \in models}

(* excludedIDs, without *)
Without(models, taken) == Where(models, LAMBDA m : Key(m) \notin Names(taken))
Taken(model, chosen) == {model} \cup ToSet(chosen)

Remaining(model, chosen) ==
    [recs   |-> Without(wiz.catalog.recommended, Taken(model, chosen)),
     usable |-> Without(wiz.catalog.usable, Taken(model, chosen))]

(* A fallback round, while there is something left to offer. *)
FallbackRound(run, model, chosen) ==
    LET left == Remaining(model, chosen) IN
    wiz' = [run EXCEPT !.model = model, !.fallbacks = chosen,
        !.pc = IF left.recs = <<>> /\ left.usable = <<>> THEN "returned" ELSE "fallbackSearch",
        !.ok = left.recs = <<>> /\ left.usable = <<>>]

Chosen(model, how) ==
    LET run == [wiz EXCEPT !.how = how] IN
    IF opts.fallbacks THEN FallbackRound(run, model, <<>>)
    ELSE wiz' = [run EXCEPT !.pc = "returned", !.ok = TRUE, !.model = model]

(* Without a catalog the id is typed, and no fallback is asked for. *)
EnterOnlyModel ==
    /\ At("typeModel")
    /\ AskInput(Typed, ExistingModel, LAMBDA m :
          IF m = None THEN Fail
          ELSE wiz' = [wiz EXCEPT !.pc = "returned", !.ok = TRUE, !.model = m, !.how = "typed"])

EnterModelID ==
    /\ At("typeId")
    /\ AskInput(Typed, ExistingModel, LAMBDA m : IF m = None THEN Fail ELSE Chosen(m, "typed"))

Matches(models, query) == Take(SearchModels(models, query), MaxSearch)

SearchModel ==
    /\ At("search")
    /\ AskInput(Queries, "", LAMBDA q :
          LET found == Matches(wiz.catalog.usable, q) IN
          IF q = "" THEN Goto("menu")
          ELSE IF found = <<>> THEN Repeat("search")
          ELSE wiz' = [wiz EXCEPT !.pc = "matches", !.matches = found])

(* The matches, then Search again, then Other. *)
PickMatch ==
    /\ At("matches")
    /\ AskSelect(Len(wiz.matches) + 2, 1, LAMBDA i :
          \/ i <= Len(wiz.matches) /\ Chosen(wiz.matches[i], "listed")
          \/ i = Len(wiz.matches) + 1 /\ Repeat("search")
          \/ i = Len(wiz.matches) + 2 /\ Goto("typeId"))

(* selectRecommended: the saved model is listed and the default, last when  *)
(* it is not recommended.                                                   *)
SavedRows ==
    {i \in DOMAIN wiz.catalog.recommended : wiz.catalog.recommended[i] = opts.existing.model}

MenuRows ==
    IF SavedRows = {} /\ ExistingModel # None
    THEN Append(wiz.catalog.recommended, ExistingModel) ELSE wiz.catalog.recommended

DefaultRow ==
    IF SavedRows # {} THEN CHOOSE i \in SavedRows : \A j \in SavedRows : j <= i
    ELSE IF ExistingModel # None THEN Len(MenuRows) ELSE 1

PickRecommended ==
    /\ At("menu")
    /\ AskSelect(Len(MenuRows) + 1, DefaultRow, LAMBDA i :
          IF i > Len(MenuRows) THEN Goto("typeId")
          ELSE Chosen(MenuRows[i], IF i <= Len(wiz.catalog.recommended) THEN "listed"
                                   ELSE "current"))

-----------------------------------------------------------------------------
(* The fallbacks. *)
SearchFallback ==
    LET left == Remaining(wiz.model, wiz.fallbacks) IN
    /\ At("fallbackSearch")
    /\ AskInput(Queries, "", LAMBDA q :
          LET found == Matches(left.usable, q) IN
          IF q = "" /\ left.recs = <<>> THEN Return(wiz.fallbacks)
          ELSE IF q = "" THEN wiz' = [wiz EXCEPT !.pc = "fallbackMenu", !.matches = left.recs]
          ELSE IF found = <<>> THEN Repeat("fallbackSearch")
          ELSE wiz' = [wiz EXCEPT !.pc = "fallbackMatches", !.matches = found])

(* Mutant: ids are compared as they are spelled. *)
PicksAsSpelled(chosen, ids, picks) ==
    FoldLeft(LAMBDA out, i : IF Contains(out, ids[i]) THEN out ELSE Append(out, ids[i]),
             chosen, picks)

(* appendPicks: those not chosen yet, the first of each. *)
AppendPicks(chosen, ids, picks) ==
    LET picked == [n \in DOMAIN picks |-> ids[picks[n]]]
    IN  chosen \o UniqueKeys(Without(picked, ToSet(chosen)))

PickFallbacks ==
    /\ At("fallbackMenu")
    /\ AskPicks(Len(wiz.matches), LAMBDA picks :
          Return(AppendPicks(wiz.fallbacks, wiz.matches, picks)))

PickFallbackMatches ==
    /\ At("fallbackMatches")
    /\ AskPicks(Len(wiz.matches), LAMBDA picks :
          wiz' = [wiz EXCEPT !.pc = "moreFallbacks",
                      !.fallbacks = AppendPicks(@, wiz.matches, picks)])

MoreFallbacks ==
    /\ At("moreFallbacks")
    /\ AskConfirm(FALSE, LAMBDA more :
          IF ~more THEN Return(wiz.fallbacks)
          ELSE /\ wiz.patience > 0
               /\ FallbackRound([wiz EXCEPT !.patience = @ - 1], wiz.model, wiz.fallbacks))

(* The consumer runs the wizard again after an error. *)
RunAgain ==
    /\ At("returned") /\ ~wiz.ok /\ wiz.run < opts.tries
    /\ wiz' = NewRun(wiz.run + 1)
    /\ UNCHANGED <<loginVars, device, prompter, saved, opts>>

-----------------------------------------------------------------------------
Question ==
    \/ ChooseProvider \/ EnterBaseURL \/ EndpointAgain \/ UseEnv \/ KeepKey \/ EnterKey
    \/ ChooseMethod \/ PasteToken \/ UseVendorCLI \/ KeepExistingOAuth
    \/ EnterOnlyModel \/ EnterModelID \/ SearchModel \/ PickMatch \/ PickRecommended
    \/ SearchFallback \/ PickFallbacks \/ PickFallbackMatches \/ MoreFallbacks

Wizard ==
    \/ Begin \/ StartBrowser \/ DrainPaste \/ Drained \/ StartDevice \/ DeviceReturns
    \/ SaveOAuthCredential \/ ListModels \/ SkipListing

Next ==
    \/ Question \/ Wizard \/ DeviceStep \/ RunAgain
    \/ \E a \in Attempts : \/ LoginStep(a) \/ Timeout(a) \/ Disturbed(a)
                           \/ OpenerStep(a) \/ InputStep(a) \/ PasteLine(a)

Spec == Init /\ [][Next]_vars

(* The user answers what is asked, requests are answered or time out, and   *)
(* goroutines run. Nothing makes the browser return.                        *)
FairSpec ==
    /\ Spec
    /\ WF_vars(Question) /\ WF_vars(Wizard) /\ WF_vars(DeviceStep)
    /\ \A a \in Attempts :
          /\ WF_vars(LoginStep(a)) /\ WF_vars(Timeout(a))
          /\ WF_vars(OpenerStep(a)) /\ WF_vars(InputStep(a)) /\ WF_vars(PasteLine(a))

-----------------------------------------------------------------------------
(* The goroutines of a login share the prompter with the wizard: whatever a *)
(* login leaves behind, the paste instruction is not printed and no pasted  *)
(* line is read while the wizard asks its next question, nor both at once,  *)
(* nor in a later run (pastePrompt, wizard/auth.go).                        *)
OnePrompt ==
    LET users == {<<"show", a>> : a \in {a \in Attempts : paste[a].opener = "showing"}}
                 \cup {<<"input", a>> : a \in {a \in Attempts : paste[a].input = "reading"}}
                 \cup {<<"wizard", 0>> : q \in {wiz.pc} \cap Questions}
    IN  Cardinality(users) <= 1

(* Where the session of a result is: in the store, or superseded there by   *)
(* the one the listing refreshed it to. ConfigureLLM copies the tokens into *)
(* the result before it lists, so a result may hold a refresh token that    *)
(* was spent; Token adopts the stored session when it next reloads.         *)
InStore(session) ==
    saved[p] = session \/ (opts.discover /\ session.refresh /\ saved[p] = Refreshed(session))

(* What a run that succeeds returns: an OAuth session that had a refresh    *)
(* token or no expiry when it was obtained (ValidateOAuthSession) and that  *)
(* is in the store, or was superseded there by this run's own listing,      *)
(* unless the saved one was kept; for a ChatGPT session no model of the     *)
(* built-in catalog; and fallbacks that differ from the model and from each *)
(* other, however they are spelled.                                         *)
ResultConsistent ==
    At("returned") /\ wiz.ok =>
        /\ wiz.model # None
        /\ wiz.kind = "oauth" => Valid(p, wiz.session) /\ (wiz.kept \/ InStore(wiz.session))
        /\ ChatGPT /\ wiz.how = "listed" => wiz.catalog.live
        /\ \A i, j \in DOMAIN wiz.fallbacks :
              /\ Key(wiz.fallbacks[i]) # Key(wiz.model)
              /\ i # j => Key(wiz.fallbacks[i]) # Key(wiz.fallbacks[j])

(* Every poll of a device login comes after the pause the issuer asked for, *)
(* and none after the code has expired (loginOpenAIDevice, loginGrokDevice).*)
PollsAsTold == [][Device!PollStep]_vars

(* A run that was started returns: whichever of the browser, the pasted     *)
(* line, the timeout and the listener ends the login, the wizard is not     *)
(* left waiting for a goroutine.                                            *)
WizardReturns == \A n \in Attempts : (wiz.run = n) ~> (wiz.run # n \/ At("returned"))

(* A prompter whose input is exhausted does not keep the wizard asking:     *)
(* TextPrompter reports the end of its input with the last line "so callers *)
(* can distinguish" the two, as otherwise "a re-prompting loop never        *)
(* terminates" (readLine, Secret).                                          *)
RepromptingEnds == (prompter.exhausted /\ wiz.pc \in Questions) ~> At("returned")
=============================================================================
