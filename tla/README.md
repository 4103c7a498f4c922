# Verification of mcplib

`mcplib` is a Go library shared by a family of MCP servers. It updates their
executables in place, talks to language-model providers with OAuth logins the
user owns, and connects the servers to each other: to a telemetry store
("recall"), to a reviewer ("socratic-thinker") and to a generation gateway (the
"backplane"). Most of its state is shared between goroutines, between
processes, or between a process and the file system, and most of its tests
follow one schedule. This directory holds TLA+ models of the parts where
schedules, failures and crashes matter, TLC configurations that check them on
small instances, and TLAPS proofs of the properties that must hold for every
instance.

## The system and its components

| component | state it keeps | operations | what makes it correct |
|---|---|---|---|
| **Self-update transaction** (`selfupdate/updater.go`, `session.go`, `managed.go`, `replace*.go`, `target.go`, `lock_unix.go`) | the executable, staging file, backup and lock file on disk; the session's memory of them; the managed service | `Updater.Run`: resolve, download, verify, lock, replace, reconcile, restart, commit, or recover | only verified bytes are installed; one session at a time; whatever fails, the previous program can be or has been put back; recovery restarts the service |
| **Self-update on Windows** (`replace_windows.go`, `cleanup_windows.go`, `lock_windows.go`) | the executable, a second name for the image it replaced, a receipt beside it | pending-backup cleanup at `Begin`, hard link, replace, commit or receipt | the old image is kept until the update has succeeded; a receipt never stands in the way of the next update |
| **Release selection** (`version.go`, `assets.go`, `checksums.go`) | none | validate, classify, select | exactly one asset and digest, or an error |
| **GitHub release client** (`github.go`) | none | HTTP | inputs of the updater |
| **OAuth session refresh** (`llmprovider/oauth_session.go`, `tokenstore_file.go`, the 401 retry in `grok.go`, `openai.go`) | the session in memory, the future of a refresh in flight, the session file all processes share | `Token`, `Save`, expire after a 401 | one refresh in flight; a rotated token is stored before it is used; nothing goes back; waiters are answered |
| **OAuth login and revocation** (`oauth_loopback.go`, `oauth_device.go`, `oauth_revoke.go`) | listeners, a result slot, device codes | log in, log out | one result wins, listeners are closed, a logout stays one |
| **Vendor CLI sessions** (`vendor_session.go`) | none | read a token file another program owns | never writes it |
| **Providers and transport** (`llmprovider/provider.go`, one file per provider) | none across calls | `Generate` with retries | retries only what may be retried |
| **Model discovery and ranking** (`discovery.go`, `models_catalog.go`, `model_ranking.go`, `model_metadata.go`, ...) | a metadata document cached in the process | list, curate, rank, match, probe | what is offered is usable, without repetition, and in an order the metadata justifies |
| **Recall client** (`recall_client.go`) | four shard queues, a session, an enabled flag, a lifecycle context | `SaveToRecall`, flushers, `Start`, `Close`, queries | accepted events are not lost silently, sessions keep their order, `Close` ends everything |
| **Socratic client** (`socratic_client.go`) | breaker state, session, recovery channel | `Start`, `Analyze`, `FetchLogs`, `Close` | no panic, a woken caller has a new session, a closed client is off |
| **Backplane client** (`backplane.go`) | atomic breaker flag and failure counter, probe channel | `Generate`, probe loop | flag and counter agree, the breaker follows the server |
| **Log pipeline** (`logging.go`, `logbuffer.go`, `logging/`) | a bounded channel of lines, a ring buffer | write, rotate, close | every line written before `Close` is in the file or counted as dropped |
| **HFSC streaming** (`hfsc/`) | a goroutine and its chunk counter per stream | stream, finalize, abort | chunks arrive in order and the peer learns of the end |
| **Fast-path artifacts** (`fastpath/`, the middleware in `hardened.go`) | a temporary file and an artifact | route a large output to a file | a reported artifact is there and whole |
| **Stdio server scaffolding** (`stdio.go`, `server.go`, `hardened.go`) | a buffered writer and its mutex, the `Once` of an end-of-input detector, a mutex per serialized tool | write a frame, detect the end of input, serve, shut down | calls return, frames are not mixed, the end of input ends the process |
| **Server helpers**, **schema** | none | glue | - |
| **Configuration wizard** (`wizard/`) | the prompter, the answers given so far | prompt, log in, list models, return a result | prompts do not overlap, a result is usable, a run returns |

How they interact: an application starts the recall, socratic and backplane
clients under one context, and cancels it or calls their `Close`; recall and
HFSC carry each other's payloads to the same peers; providers take bearer
tokens from an OAuth session, which shares its file with every other process of
the user; the wizard drives the login flows and returns the configuration the
providers are made from; a server's tool calls, their streams and its logs share
one process and its standard output, and end with its input; the updater
replaces the binary under all of them and restarts the service that runs it.

What is hard about it: interleavings of goroutines around fields that are read
outside the lock they were checked under (`Token`, `Analyze`, `SaveToRecall`,
the metadata cache), pairs of atomics that are not updated together (the
breakers), processes that share a file without a lock (the token store),
multi-step changes on disk that may be killed anywhere (the updater, the
artifacts), goroutines that outlive the call that made them (streams, login
helpers), several ways for one wait to end (logins, calls), and shutdown.
`hazards` in `PROJECT.json` lists each at its line with the properties that
cover it.

## Modules

Each component's module declares its constants with their assumptions, and its
actions carry the names of the functions they stand for. `MC*` modules only give
constants values. Actions that a comment calls *Mutant* are not part of any
`Next`: each is a plausible wrong version of the action above or below it, and
`PROJECT.json` records which property finds it out.

| models | of | composed in |
|---|---|---|
| `SelfUpdate` implements `Exchange` | the update transaction | - |
| `WindowsUpdate` implements `Exchange` | the same on Windows, with the choice of a release | - |
| `OAuthSession` | the refresh of a shared login | - |
| `RecallClient`, `SocraticClient`, `Backplane` | the three clients | - |
| `HeavyStream`, `StdioPipeline`, `AsyncWriter`, `ToolCalls` | the pieces of a server | `ServerProcess` |
| `TextPrompter`, `DeviceLogin`, `BrowserLogin`, `ModelCatalog` | what the wizard uses | `ConfigureLLM` |
| `ModelMetadata`, `ModelCatalog` | what a provider's listing uses | `ProviderCall` |

`Selection` has the operators on sequences that these share: what is picked from
a sequence, the first of each, stable sorts; they choose positions, not elements,
and are written without recursion so that theorems about them can be proved.

Names ending in `Proofs` hold the theorems about the module they are named for;
`ClientProofs` is about `SocraticClient` and `Backplane`, and `ProviderProofs`
about `OAuthSession` and `ProviderCall`.

### SelfUpdate (and Exchange)

Several processes run `Updater.Run` against one executable. A file is an inode
with an image; `target` is the file the executable's name leads to, `survivors`
the files it may lead to after a power failure (one, once the directory has
been synced), `staging[u]` and `backup[u]` the siblings an updater makes,
`lock` the holder of the `flock`, `svc` the service definition and the image
its process runs, `sess[u]` what the session keeps in memory. Every file-system
call and every call of the `Lifecycle` and `Reconciler` seams is one action
with a success and its failures, in the order of the code:

`ResolveTarget`, `AcquireLock`, `RevalidateTarget`, `CreateStaging`,
`DownloadBinary`, `VerifyStaging`, then for a managed session `ProbeInstalled`,
`ProbeRunning`, `StopService`, then `replaceTarget` as `BackUpTarget`,
`RenameStaging`, `SyncDirectory`, `UndoRename`, then `Reconcile`,
`StartService`, `WaitHealthy`, `Commit`, or `recover` as `RestoreDefinition`,
`RollBack`, `RestartService`, `WaitRestarted`, and last `Close`. `Crash` kills a
process anywhere in between, `PowerLoss` all of them.

Left out: `CheckOnly` and the confirmation are one early exit
(`StopBeforeBegin`), and release selection decides nothing the properties see.
A cancelled context only makes calls fail that may fail anyway.

The staging file is closed and renamed without a sync of its content, as in the
code, so a power failure may leave it `Torn`; only the backup, which `copyFile`
syncs, is `Durable`. A directory sync that succeeds may have done nothing where the
file system does not support it (`replace.go:77-95`). A `Stop` that reports an error
may have stopped the service, and a `Start` of a running service may leave the
process that runs: `Lifecycle` (`types.go:353-359`) promises neither.

`Exchange` is what an update promises: a register that actors exchange one at a
time, each only from the value it saw before it became the holder, only to its
own value, and back. `SelfUpdate!ImplementsExchange` maps the transaction to it
(the lock before revalidation is not yet *holding*), and so does
`WindowsUpdate!ImplementsExchange`, where the register is the author of the
executable's image and a session holds it once it has read its manifest.

### OAuthSession

Processes with a few goroutines each share one login. The issuer numbers its
grants; the access token of grant *n* is *n*, and its refresh token is *n* or,
for an issuer that did not rotate, the one presented. `mem[p]` is the session
object of a process, `inflight[p]` its `tokenFuture`, `store` the session
file, `saved` the history of what that file has held, `horizon` the clock (all access tokens up to it are due). `Token` under
its mutex is one action (`CurrentToken`, `Follow`, `Lead`), everything it does
without the mutex (`reloadOrRefresh`, `refreshOAuthSession`, `Save`) is one
action per store access or request, and `Publish` is its second critical
section with the closing of the future. `Rejected` and `RejectedAgain` are the
provider's 401 handling, which expires whatever session is in memory by then.
`Faults` chooses what may fail: answers, loads, saves, the `chmod` after the
rename, processes.

### RecallClient

`caller[e]` is a `SaveToRecall` call, split between its read of `closed` and
its non-blocking send. `queue[s]` and `worker[s]` are a shard and its flusher,
whose call is split into sending, being executed by the server, and the answer.
`link` is `Start` with the session and the enabled flag, stored one at a time as
in the code; `closing` is `Close`. `order`, `saved` and `exhausted` are history.
The queries of the client are calls without state of their own and left out.

### SocraticClient

`Start`'s stores of state, session and recovery channel are an action each, as
are `Analyze`'s loads. Sessions and channels are numbered in the order they are
made. `call[c].since` is history: the last session `Start` had seen end when the
caller read the state. `FetchLogs` reads state and session as `Analyze` does.

### Backplane

`available` and `failures` are two atomics; every load, store and add of the
callers (`generateWithRetry`, `doRequest`) and of `probeLoop` is an action, so
that their stores interleave. `up` is the environment.

### WindowsUpdate

`Updater.Run` with the standalone installer on Windows, from the choice of a
release on: the one asked for, or the one the repository's owner marks as the
latest, which need not be the highest. `status[v]` says whether a release of the repository is a draft,
published or immutable; `target` is the image of the executable and who put it
there; `backup[u]` the image `u` gave a second name (Windows refuses to remove a
running image); `receipt` the file beside the target that asks the next update
to remove such a backup; `lock` the holder of the lock file. `Resolve`, `Fetch`,
`Select`, `Classify`, `Confirm`, `Begin`, the two removals of the pending
cleanup, `Revalidate`, the manifest and the binary, their verification, the hard
link, the replacement, the sync, the undo, `Commit`, and the receipt in two
steps (created with `O_EXCL`, then written) are actions with their failures; a
kill may come between any two. A digest is *authentic*, *other* or *unknown*:
what parsing accepts, not how it parses. Managed services on Windows use the
same transaction as on Unix, which is `SelfUpdate`'s business.

### The server process

`ToolCalls` is a call through the middleware: panic recovery, the mutex of a
serialized tool, the handler, the routing of a large output to an artifact
(`writeArtifactAtomic`: temporary file, encode, rename), the interception of
what is still large. `HeavyStream` is the goroutine such an interception leaves
behind, with its deadline, its reader and its notifications. `StdioPipeline` is
standard output as a buffer with its mutex and a sticky error, and standard input
as a reader that cancels the server once. `AsyncWriter` is the log pipeline: the
slog handler passes a record to every writer in turn, an `AsyncWriter` queues it
or drops it, a worker writes it, and the cleanup closes the writers, waits for
their workers and closes the files. `ServerProcess` joins them: responses and
notifications contend for the output, the main goroutine connects, serves until
the session ends, flushes what is buffered and runs the cleanup of the logs.
A `Workload` fixes what a behaviour is asked to do.

### The configuration wizard

`ConfigureLLM` goes from the choice of a provider over the endpoint, the
credential (a key, a vendor's session, a device or a browser login) and the model
to fallbacks and a `Result`. `wiz.pc` names the question asked or the call that
has not returned. `TextPrompter` says what a prompt makes of a line, of the end
of the input and of a write that fails; `DeviceLogin` polls an issuer that may
ask for slower polls; `BrowserLogin` is one attempt with its two listeners, the
callback, the goroutine that opens the browser, the goroutine that reads a pasted
code, and a result slot for one. An attempt may be abandoned while its goroutines
are still there, and the wizard may be run again: `login[a]` and `paste[a]` keep
them apart, and prompter and store are shared.

### Providers

`ModelCatalog` has no state of its own: it is what each provider's listing
yields, the curation against the static catalog, the ranking of the open catalogs
from metadata, and the search. `ModelMetadata` is the cached document: whoever
finds it old fetches it without holding its lock. `ProviderCall` has callers that
generate (choose a route, obtain a token, send, classify the reply, retry after
a delay) or list and probe. Both `ConfigureLLM` and `ProviderCall` extend
`ModelCatalog`, so that the wizard and the callers see the same lists. What a name or a date parses to is a constant
(`Rank`, `Facts`, ...), so that any table of models can be given.

## What the runs check

| run | instance | shows |
|---|---|---|
| `SelfUpdateSafety` | 2 updaters, no power failure; 457,771 states | no bytes that verification refuses are installed (`Intact`); an update under way can be undone (`Recoverable`); a failed one was undone or says that it could not be (`BinaryUndone`, `DefinitionUndone`); after recovery the service runs the installed program, or the withdrawn release that its own start left running (`RecoveredRuns`); a commit is healthy (`HealthyCommit`); a service whose `Stop` succeeded is started again (`RecoveryRestarts`); refinement (`ImplementsExchange`) |
| `SelfUpdatePower` | 2 updaters, power failures; 638,890 states | a success whose rename reached the disk is not taken back to the first image (`OldNeverReturns`) |
| `Windows` | 2 updaters, each with one of 6 requests, 2 releases, 1 kill; 715,975 states | the image that was replaced is kept until the update has reported success (`OldImageKept`); a receipt is never in the way of the one to be written (`OneReceipt`); refinement (`ImplementsExchange`) |
| `OAuthSharing` | 2 processes, 4 grants, every fault, an issuer that may keep the refresh token; 1,317,842 states | what is used was stored first (`PersistBeforeUse`); the store never returns to a session it has held, and a process gives up its session only once the store holds another (`NeverReverts`) |
| `OAuthGoroutines` | 1 process x 2 goroutines, 4 grants, every fault but an unreadable store, the same issuer; 199,626 states | one refresh at a time (`SingleFlight`); a retry carries another token (`RetryUsesNewToken`); no refresh token is presented whose successor was stored (`NeverReuses`); the store holds the one in force, or that one was never stored (`StoreInForce`); followers are answered (`FollowersReturn`) |
| `Recall` | 3 events of a session, capacity 2, 2 attempts | accepted events are not lost silently (`NoSilentLoss`) and arrive in order (`InOrder`); `Close` disconnects (`ClosedDisconnects`) and ends the flushers (`FlushersExit`) |
| `Socratic` | 2 callers, 3 connections | recovery channels are closed once (`CurrentOpen`), a woken caller has a new session (`FreshSession`), `Close` ends `Start` (`StartReturns`) |
| `Backplane` | 2 callers, 3 failures trip | flag and counter agree between stores (`BreakerConsistent`), the breaker closes again when the server is back (`Recovers`) |
| `Server` | 4 workloads (below); 270,550 states | what the peer receives of a stream can be put together (`StreamInOrder`) and its end is announced, a stream that finds its time up between two chunks included (`EndAnnounced`); of two calls that write one artifact at the same time a reported one is there and whole (`ArtifactReported`); log lines are in the file or counted (`LinesAccounted`); calls return (`CallsReturn`); the end of input ends the process (`ShutdownCompletes`) |
| `Setup` | 4 providers, 3 ids, 11 kinds of run, 2 attempts; 51,049 states | prompts never overlap (`OnePrompt`); what a run returns was valid when it was obtained and is in the store or was superseded there by this run's own listing, and its models differ (`ResultConsistent`); polls keep the pace asked for (`PollsAsTold`); a run returns (`WizardReturns`) |
| `Provider` | 2 callers, 9 pairs of tasks, every provider; 297,826 states | a request is repeated only when its answer was not final and the delay has passed (`RetriesJustified`); what a listing offers is usable, without repetition, and led by what the metadata supports (`CatalogSound`) |
| `SetupExhausted` | Ollama with a piped input | *violated*: `RepromptingEnds`, see the disagreements |

### Bounds, and why they are enough

- *Updaters = 2.* The lock admits one session; the second updater stands for
  whoever holds a stale resolution, and a third would repeat it. On Windows the
  second also finds the receipt the first has left. *MaxKills = 1* leaves one
  half-done update for the other to meet; *Starts* has a local build and both
  releases.
- *MaxGrants = 4* is the login and three more: two processes can each hold a grant
  that is not saved yet while the store holds a third, so that saves race, and a
  late 401 that expires a newer session yields a third grant. The goroutines of a
  process meet in `SingleFlight`, processes meet in the store; so the runs have two
  of the one or two of the other, and the theorems have any number of both.
- *Events = 3 of one session, Capacity = 2.* Shards share nothing but the
  connection and `Close`, so one stands for all. Order is a property of pairs; a
  third event finds the queue full while the first waits for a retry, and a
  flusher may have nothing to do when `Close` comes. *Retries = 2* has a first
  and a last attempt (15 in the code, capacity 2048).
- *MaxSessions = 3* gives a caller a session lost while it waits, one it misses
  and one it gets. The loop stops making connections there, and only there.
- *maxConsecutiveFailures = 3* is the code's. The counter is not bounded in the
  guards: `BackplaneType` says how high it gets, `MaxFailures`.
- *Workloads.* Two calls that no mutex keeps apart and that write one artifact; a
  stream and a call of the same serialized tool; a stream of two chunks whose artifact failed; two loggers. A
  product of all of them would be far larger and would relate pieces that meet
  only at the output and in the shutdown, which each workload has. *Capacity* 1
  makes the second line find the channel full, *Sinks* 2 lets a record be at one
  writer while the other is closed, and *RingMax* 3 makes the ring trim. In the
  code a channel holds 1024 lines (`logging.go:147`).
- *Attempts = 2* lets a second run of the wizard meet what the first left behind;
  one callback port makes it find the port taken. *Runs* fixes the options of a
  process and what its user uses, to keep menus apart that do not interact.
  Durations keep the order of the code's: an interval longer than the default, one
  shorter than a second, and an expiry two slow polls reach.
- *Tasks* covers each provider's listing and each route of a generation at least
  once; a second caller is what makes the metadata cache race. *Horizon* passes the
  cache's TTL once. *Width* is that of the backoff's shift, scaled down with the cap.

Symmetry is used for updaters in `SelfUpdatePower` and for processes in
`OAuthSharing`, whose properties name no order among them, and in no run that
checks liveness.

### Fairness

- An updater that is alive keeps executing, and its calls end: they are local
  file operations, or take a context with a deadline.
- The leader of a refresh keeps running: its HTTP client has a timeout, and the
  retry loop is bounded. Nothing is assumed of other goroutines, of the clock or of
  kills.
- Flushers and `Start` of the clients keep running, calls end by their timeouts
  (30 s), and `context.AfterFunc` runs once the lifecycle is cancelled. No
  fairness is assumed of the server, of callers or of `Close`.
- The ticker of the backplane's probe loop fires, and requests end by their
  timeouts. Callers need not call: `Recovers` holds without traffic.
- In the server process goroutines keep running, a write to standard output ends,
  and handlers return. Nothing is assumed of the peer, of the readers that streams
  take their bytes from, or of loggers. A call may lose its tool's mutex again and
  again, but there are finitely many calls.
- In the wizard the user answers what is asked, requests are answered or time
  out, and goroutines run. The browser need not come back: the login's own
  deadline ends it, and the goroutine that reads a pasted line has a timeout.
- `Windows`, `Provider`, `OAuthSharing` and `SelfUpdatePower` check safety only
  and assume none.

Deadlock is not checked where a system really stops (all updaters done, a client
closed, a process ended, a wizard returned); it is in the OAuth runs and in
`Backplane`, whose environments always may change.

## What is proved

Each module of theorems has one inductive invariant per part, proved by one
lemma per action or group of actions, and the properties follow from it. Where an
issuer, the power or a service manager matters, the assumption is a hypothesis of
the theorem and named there.

`SelfUpdateProofs` proves, for any number of updaters and with kills and power
failures allowed, `TypeCorrect` (`Spec => []TypeOK`) and `OneSession`, from the
invariant `Invariance`. Type correctness is not
inductive by itself: `RollBack` renames `backup[u]` over the target, which is a
file only if a session that was `applied` still has its backup, and
`RenameStaging` needs the staging file. The strengthening says what each step
of a session holds (a staging file from `download` to `rename`, verified from
`install` on, a backup from `rename` to `undo` and whenever `applied`), and
that updaters between `Begin` and `Close` hold the lock. `IntactHolds` needs
that backups and surviving versions hold no image verification refuses either
(`Clean`); as `Torn` is one of these, it is proved under `~PowerFails`, and
without that it is false (see the disagreements).

Its second part proves every other safety property of the two runs.
`BinaryInv` follows the images: from revalidation to the rename the target is what
the session has seen, from the rename on it is the session's release and the
backup holds the image before it. It is not inductive without `Owed`: what a
recovery puts back may be the release of an updater that failed or was killed
earlier, so any image that is installed or may be put back carries what its
updater left behind. From it follow `RecoverableHolds`, `BinaryUndoneHolds` and,
with the mapping of the transaction to a register and its holder,
`ImplementsExchangeHolds`: initial states map to initial states, and each step to
a step of `Exchange` or a stutter. `ServiceInv` does the same for the service
definition and its receipts and for the process the service runs; from it follow
`DefinitionUndoneHolds`, `HealthyCommitHolds` and `RecoveredRunsHolds`. All of
these are under `~PowerFails`, which is what the run checks too (a power failure
may bring back any file that was not synced). `DurableInv` says that past a
directory sync that reached the disk (`synced`, which a sync that only reports
success does not set) the first image can come back neither through the name nor
through a backup that is still to be renamed; `OldNeverReturnsHolds` follows from
it with power failures. It promises nothing where directories cannot be synced,
and nothing about torn bytes.

`WindowsUpdateProofs` proves `TypeCorrect` and the three properties of its run for
any updaters, releases, requests and kills. A session holds the lock (`Locked`);
a receipt that can be read is that of an update that has reported success
(`Receipts`), so a cleanup never takes an image that is still owed (`Kept`);
between revalidation and replacement what was resolved is in place (`OwnFiles`).
For `ImplementsExchangeHolds`, `Sums` says from which step on a session has read
the manifest, as the mapping takes it for the holder then.

`ProviderProofs` proves, of the shared login, `SingleFlightHolds` for any
processes, goroutines, bound on grants, faults and issuer: with the types it is
inductive. `PersistBeforeUseHolds`, `RetryUsesNewTokenHolds` and
`NeverRevertsHolds` are as general, an issuer that keeps the refresh token
included. Their invariant is about the history of the store: every session in
memory has been in it and is whole (`Stored`), a grant on its way to the store has
not and has one owner (`Granted`), what a leader is about to publish was stored and
is new to its process (`Results`), and a token a goroutine has used is its
process's own or one the store has replaced (`Tokens`). No order among the grants
is needed, and none holds: with an issuer that keeps the refresh token a slower
process may save an older grant over a newer one, which the store has never held.
`NeverReusesHolds` and `StoreInForceHolds` are about one process that can read its
store (`Alone`), under every other fault; with more processes they may fail, see
the disagreements. Their invariant says that what the store holds and what a leader
presents is in force unless the token in force was never stored, and that a leader
which holds a grant has the token in force and nothing has been revoked.

`RecallClientProofs` proves `NoSilentLossHolds` and `InOrderHolds` for any
events, shards, capacity, attempts and server. Neither is inductive. The
invariant cuts the history of a shard in two: `order[s]` is what the flusher has
taken followed by `queue[s]` (`Rest`), the flusher holds the last event it took
(`HoldsLast`), what was saved lies in the part it took (`SavedTaken`), and no
event occurs twice (`Once`).

`ClientProofs` proves `CurrentOpenHolds`, `FreshSessionHolds` and
`StoppedNotEnabledHolds` for any callers and connections. The invariant orders
the stores of `Start`: a session is stored before the channel is swapped, and the
channel before its predecessor is closed (`StoresInOrder`), so closed channels
lie below the current one, and a caller that was woken finds a session above the
one it had missed (`CallsFresh`).

`ClientProofs` also proves `BreakerConsistentHolds` for any callers and
threshold; it is inductive once the variables have their shapes. `BackplaneTyped`
bounds the counter, for which no guard does: while the flag is up, each failure
counted past the threshold has a caller about to take the flag down; once it is
down, only callers that passed it before still count, each once; and a probe that
has put the flag up and not yet reset the counter lets every caller in once more
(`Bounded`).

`ServerProcessProofs` proves `LinesAccountedHolds`, `ArtifactReportedHolds`,
`EndAnnouncedHolds`, `StreamInOrderHolds`, `RingBoundedHolds` and `TypeCorrect`
(`Spec => []TypeOK`) for any calls, tools, paths, streams, log files, capacities
and sizes. The pieces share little, so the invariant is one
conjunct for each: a line that was passed to a writer is in its channel, in its
file or counted (`Good`); a call renames a whole temporary file and keeps what it
gave to an artifact (`ArtifactInv`); a stream in a `Log` call holds the mutex of
the output with its frame in the buffer, unless the output is broken (`PipeInv`),
so that the flush that makes the call return puts that frame on the wire. What a
refused notification means needs `Refusals`: a stream that was not heard had no
session, found the output broken, or spoke with a context that had expired, which
the abort of a stream stopped between two chunks does not. For the
order of a stream, `OrderInv` adds that the frames a stream has on the wire are
chunks numbered without a gap, as many as its goroutine has counted, that the
frame about to be said has the next number, and that a buffered frame belongs to
the stream that holds the mutex. What the log buffer holds is measured by a fold
over a sequence; `AnyLast` shows that its sum does not depend on the order it is
taken in, `SizeOfFront` that a marker in front adds its own size, and so a trim
leaves a marker and less than the trim target (`TrimHolds`). `RingBounded`, which
is proved and in no run, says no more than that: the code requires the trim target to be below the limit, not
below it by the marker's 12 bytes, and a buffer made with a closer target exceeds
its limit after every trim, with some of what it kept overwritten by the marker
(`logbuffer.go:84-92`; the bytes of a line are not modelled). The default limits
are a megabyte apart. `Shapes` has the other limits: channels, and the one frame
that may be buffered.

`ConfigureLLMProofs` proves `OnePromptHolds`, `PollsAsToldHolds` and
`ResultConsistentHolds` for any providers, catalogs, options, answers, durations
and number of runs. Every login but the one the wizard waits for is settled
(`Waited`): it never began, or it was drained and its goroutines are past the
prompter; the two goroutines of one login follow each other (`Ordered`); and
while the wizard asks something itself it waits for none. The polls need that the
client's interval is no shorter than what the issuer asked for and has passed
before each poll (`DeviceInv`). The result needs `ResultInv`, which says of each
question what the ones before it have settled: the session belongs to the
credential that was chosen and, unless it was kept, is in the store or was
superseded there by the listing that followed; the lists shown are
made of ids of the catalog (live ones for a ChatGPT session), and what is chosen
differs, in lower case, from all that was chosen before it. `TypeCorrect`
(`Spec => []TypeOK`) adds the types of the wizard, of the logins and of the
prompter.

`ModelCatalogProofs` is about the operators of `Selection` and `ModelCatalog`. Its
foundation is that a set of positions with a strict total order is enumerated by
counting predecessors (`InOrderFits`), from which follow what `Pick`, `Where`,
`Unique` and `Sorted` hold, and that a fold exists and keeps an invariant
(`FoldExists`). On these rest the lemmas about each provider's listing, the
curation (one id of every spelling, `CurateHolds`), and the ranking: the keys of
both profiles order the models totally (`PrecedesOrders`, `OrderIs`), the spread
takes at most `MaxPerGroup` of each group and omits none before that
(`SpreadHolds`), and so what it fills up with comes last (`LeadsHold`).
`CatalogHolds` puts them together for every provider and every outcome of its
listing.

`ProviderProofs` proves `RetriesJustifiedHolds` and `CatalogSoundHolds` for any
callers, tasks, services, replies, delays, tables of models and documents. A
retry is decided by the error of the attempt before, which is a function of the
reply: an error made of a final reply stops the loop (`FinalStops`, by cases over
the rows of `classifyAPIError`), a wait is no shorter than the delay asked for
whatever the overflow of the shift (`WaitsEnough`), and `CallInv` carries the
reply, the error and the count of requests through an attempt. `OfferInv` says
that a caller has nothing until its catalog is known, that a section of the
metadata is only ever found for a catalog that is ranked by it, and that a list
under probe has no repetition or is probed whole, so that the ones that pass are
where they were (`ProbedHolds`).

Assumptions on the constants are stated in the module that declares them and
evaluated by TLC in every run. Those that say something of the code:
`CatalogAssumption` has the static catalog of a provider name each id once, as
the literals of `models_catalog.go` do; `CallAssumption` has a listing answer what
its decoder yields (pages where the provider lists in pages); `SetupAssumption`
has every provider on the menu be in the static catalog. A read of
a line in `TextPrompter` (`ReadLine`) yields an answer that the question allows, a
blank line, or a failure, and the end of the input where the input is piped.

Only model-checked: the liveness properties (`RecoveryRestarts`,
`FollowersReturn`, `ClosedDisconnects`, `FlushersExit`, `StartReturns`, `Recovers`,
`CallsReturn`, `ShutdownCompletes`, `WizardReturns`), which are out of the prover's
reach under fairness. Every safety invariant and action property that a run
checks is a theorem.

## Where the code and what is said of it disagree

`SetupExhausted` has TLC find one: at the end of a piped input the wizard asks for
the URL of an Ollama endpoint that does not answer, takes the default, asks
whether to try a different one, takes the default yes, and asks again, for ever
(`wizard/configure.go:213`), though `readLine` and `Secret`
(`wizard/text_prompter.go:97-100`, `286-287`) say that the end of the input is told
apart so that no loop re-prompts for ever.

These were met while modelling. The model has each of them, and no property
claims the contrary:

- A replacement that fails unregisters the staging file and `Close` leaves it
  (`selfupdate/session.go:107`); MADR 0005 (line 560): "Every failure after
  staging removes the staging file."
- The staging file is closed but never synced (`selfupdate/updater.go:175-176`), so
  a power failure after the rename may leave torn bytes in the executable's place;
  MADR 0005 (line 636) lists "hash while streaming, sync, close, verify". `Intact`
  is checked and proved without power failures; with them TLC finds it violated.
- Recovery starts the service without stopping it (`managed.go:125`). If the
  withdrawn release was started and still runs, a `Start` that leaves a running
  process alone keeps it running; MADR 0005 (561-562): every later failure will
  "restore any changed definition, and restart the previously installed service".
  `RecoveredRuns` allows it.
- A `Stop` that reports an error ends the update without recovery (`managed.go:79`),
  and a service it has stopped all the same stays down; MADR 0005 (601-603): "any
  stop, reconcile, start, or health failure enters the common binary and definition
  rollback path". `RecoveryRestarts` speaks of a `Stop` that succeeded.
- `classifyOperation` compares the release with the version that is running
  (`version.go:100`), not with the executable, which another update may have
  replaced since: an update to the latest release may replace a newer one, where
  PLAN 0005 (line 428) has "latest cannot silently downgrade".
- Two processes may reload the store before either refreshes, and both present
  one refresh token (`llmprovider/oauth_session.go:366`); PLAN 0012 OAuth hygiene
  (line 46) speaks of "Refreshes that cannot trip reuse detection." `NeverReuses` is
  checked for one process. There an unreadable store has the same effect after a
  `Save` that wrote and reported an error, and so the run has no such fault.
- A `Save` that fails drops the rotated token, and the spent one stays stored
  (`oauth_session.go:377`); MADR 0008 (lines 553-556) rules such a loss out.
  `NeverReuses` and `StoreInForce` except a token that was never stored.
- `Close` of the recall client cancels the context under which the flushers then
  drain, so a healthy server loses what was queued (`recall_client.go:384`, `872`);
  the comment (860-861): "ensuring final payloads are flushed". `NoSilentLoss` ends
  where `Close` begins.
- `Start` of the socratic client stores RECONNECTING after `Close` stored
  DISCONNECTED (`socratic_client.go:149`, `199`); its test
  (`socratic_close_test.go:9-10`) says that `Close` leaves the client DISCONNECTED.
- On Windows a kill between removing a pending backup and removing its receipt
  makes every later `Begin` fail (`cleanup_windows.go:74`, `86`, `89`), though the
  detail reported with the backup promises that it "will be removed on the next
  apply" (`updater.go:247`).
- A metadata fetch that fails writes back the entry that was read before it began,
  and so forgets a document another caller has stored meanwhile
  (`model_metadata.go:184`); its field (line 131) says "kept when a refresh fails".

And some outcomes no text speaks of, which the model leaves open:

- a failed inline undo drops the name of the backup (`replace_unix.go:40-43`);
- a directory sync that is not supported counts as success (`replace.go:77-95`), and
  a power failure may then bring the old executable back;
- with an issuer that keeps the refresh token, the store may end with an older
  grant, that of a slower process;
- the wizard copies the tokens of a session before it lists the models
  (`configure.go:140-150`), so that a result may hold a refresh token its own listing
  has spent; `Token` finds the newer session in the store when it reloads.

## What is not modelled, and what is left

- *Server helpers* and *schema* are stateless glue over the MCP SDK.
- *Logout.* `Revoke` is one request whose result its caller gets, and `Delete`
  removes the session file. Nothing in the library calls either while a session of
  the process is in use; a logout in another process races `Save` in a way the
  library leaves to its callers.
- *Queries of the recall client* (search, get, list), `FetchLogs`: calls without
  state of their own.
- *Conversions.* Parsing of versions, manifests, dates and names, wire formats,
  redaction and masking, PKCE and URLs, prompts and answers are data, abstracted
  to what they accept or yield.
- *Transport.* Redirects, the delay of GitHub's rate limit (the updater does not
  retry), signals, the size cap of a log file at start.
- *`Import`* of the wizard reads a legacy file into the options of a run.

Left for later: logout against `Save` in `OAuthSession`; and the types of the
callers of providers (`CallTypeOK`) as a theorem, where `CallInv` and `OfferInv`
carry only the shapes they need.
