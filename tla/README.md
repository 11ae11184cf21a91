# BTXL: a TLA+ verification development

BTXL is a proxy for the APIs of AI providers. It holds many credentials (OAuth
tokens and API keys), chooses one for each request, records what the provider
said about it, refreshes the tokens in the background and shows clients which
models are served at present. A community platform (accounts, invite codes,
quotas) sits beside it.

This directory holds TLA+ models of the parts in which several goroutines,
files or database statements meet, TLC configurations that check them on small
instances, and TLAPS proofs for any size. `PROJECT.json` lists the runs, the
lines each definition models, and for each property a plausible bug ("mutant")
that breaks it. Paths below are relative to the repository.

    tlc -workers 2 -config Overlaps.cfg Overlaps
    tlapm OverlapsProofs.tla

1. [The system](#1-the-system)
2. [Modules and code](#2-modules-and-code)
3. [Runs, bounds and fairness](#3-runs-bounds-and-fairness)
4. [What is proved, and how](#4-what-is-proved-and-how)
5. [What the models found](#5-what-the-models-found)
6. [What is not modelled](#6-what-is-not-modelled)
7. [Plan](#7-plan)

## 1. The system

### The core: from a request to a provider and back

| Component | Code | State | Operations |
|---|---|---|---|
| Credential conductor | `sdk/cliproxy/auth/conductor.go`, `selector.go`, `types.go` | `auths` under one RWMutex: per credential its flags, `ModelStates` (availability, cooldown, backoff level per model), `NextRefreshAfter`; the selector's cursors | `Execute`, `ExecuteCount`, `ExecuteStream` (pick, call, retry, wait), `MarkResult`, `Update`, `Register`, `Load`, the refresh loop |
| Model registry | `internal/registry/model_registry.go` | reference counts per model and provider, the list and provider of each client, quota and suspension marks | `RegisterClient`, `UnregisterClient`, four marking calls, the queries |
| Token refresh and auth files | `conductor.go` 1861–2206, `sdk/auth/filestore.go` | refresh goroutines, the semaphore, the files | ticker pass, mark pending, refresh, save |
| File watcher | `internal/watcher/` | hashes of the files, snapshot of credentials, pending updates, a bounded queue; the configuration it holds and its timers | notice a change, compare snapshots, dispatch; reload `config.yaml`, update the server's clients |
| Service | `sdk/cliproxy/service.go` | the loop that consumes the queue; executors | apply an update, start, stop |
| API handlers | `sdk/api/handlers` | per answer: the goroutines and channels it passes | one endpoint per format; retry before the first payload |
| Executors | `internal/runtime/executor` | per call: the body, the usage record, the goroutine that reads a stream; the rate limit of Qwen, the models cached of Antigravity; websocket sessions to Codex | `Execute`, `ExecuteStream`, `CountTokens` of each provider: one or several HTTP calls, or a request in a session |
| Translators | `internal/translator` | per answer: what a streaming converter remembers between chunks; a request has no state | conversion of JSON: a request, or an answer chunk by chunk |

How they meet: a request asks the registry which providers serve its model and
the conductor for a credential; the conductor picks under its lock, **calls the
provider without it**, and records the result under the lock again
(`MarkResult`). Only after that unlock does `MarkResult` call the registry, one
call at a time. The refresh loop takes a **snapshot**, marks an entry, clones
it, calls the provider, and replaces the whole entry by the clone. Management
requests clone, change and replace in the same way. Each `Update` and each
`MarkResult` saves the auth file; the watcher sees the file change and sends
its content **back** through a queue, to be applied over whatever the manager
holds by then. Hooks of the registry run in goroutines of their own.

### The community platform and the rest

| Component | Code | Why it is hard |
|---|---|---|
| Redemption codes, templates | `internal/community/credential`, `internal/db/sqlite_*.go` | a request is a series of statements without a transaction; rollbacks by hand |
| Quota engine, limiters | `internal/community/quota`, `security/ratelimit.go` | check, serve and deduct are apart; whole rows are written back |
| Accounts, e-mail codes, tokens | `internal/community/user` | check-then-insert; a code spent before the account exists; tokens outlive the row they were made from |
| Circuit breaker, scheduler | `internal/router` | lock-free atomics; counters read before the choice |
| Websocket relay | `internal/wsrelay` | pending requests, bounded channels, cancel against deliver |
| Usage queue, statistics | `sdk/cliproxy/usage`, `internal/usage` | publish against stop and drain; exports imported again |
| OAuth sign-ins, management API | `internal/api/handlers/management` | a goroutine, a callback file and a polled session per sign-in, with expiry |
| Configuration | `internal/config`, `management/config_lists.go`, `config_basic.go` | memory is changed without a lock and saved by a merge into the file, beside reloads |
| Token stores | `internal/store` | a spool of files and a copy in a database, a bucket or a git repository: calls overlap, fail half-way, and a start fills one from the other |
| Request log | `internal/logging/request_logger.go`, `internal/api/middleware` | two goroutines and two bounded channels per streamed answer, temporary files, a limit on error logs |
| Amp, login flows, UI | see `PROJECT.json` | I/O and data |

### What makes each part correct

- **Conductor.** What is stored for the credential as a whole says what the
  states of its models say. A failing model blocks no other. A backoff is
  forgotten only by a success. A request makes boundedly many calls and ends.
- **Registry.** Counters do not drift. What is listed can be routed. One
  client's registration leaves the marks of others alone. The lock never locks
  itself up.
- **Refresh.** A token the provider has issued (and whose predecessor it may
  have revoked) is not lost. One credential has one refresh at a time. A
  credential near its expiry is tried again and again. File and manager agree.
  An operator's decision stands.
- **Redemption.** No more redemptions succeed than a code has uses, no slot of
  a template is given out twice or lost, and disabled is disabled.
- **Breaker.** An open circuit is probed eventually.
- **Watcher.** The manager's list mirrors the credentials there are: it may lag
  and skip, never step back, and it follows in the end. What `config.yaml` says
  is what watcher, service and server serve from in the end, all three alike.
- **Answers.** A client gets the payloads of one attempt in order, in the form
  its protocol allows, is told of failure, and leaves no goroutine behind.
- **Requests.** A provider is sent what the client said, in order: every result
  beside the call it answers, every tool under the name its calls use.
- **Executors.** A call is recorded once, as what became of it; what it opened
  is closed, its end is told, and it is given up only after the last upstream.
- **Sessions** (relay, Codex, sign-in). No panic, no answer of another request,
  no success that is not one, and every caller gets an end.
- **Stores.** The copy of a file is what was acknowledged last, or newer, and at
  rest it agrees with the file.
- **Request log.** A log holds the answer as it was sent; no goroutine and no
  temporary file outlives its request; error logs stay within their limit.
- **Accounts, usage.** One account per name and e-mail; a ban leaves no token; a
  record is counted, once.

The hazards behind each, with their lines, are under `hazards` in
`PROJECT.json`.

## 2. Modules and code

| Module | Models | One action is |
|---|---|---|
| `AuthConductor` | `conductor.go` 513–1446, `selector.go`: pick, call, stream, retry, wait, `MarkResult` and its registry calls | one critical section of `Manager.mu`, an answer of a provider, or a step between |
| `ModelRegistry` | the registry's maps and the queries that read them | one method under the mutex; each registry call of `MarkResult` |
| `RegistryLock` | how methods take the mutex; hooks | one lock operation |
| `AuthRefresh` | refresh loop, edits, `Update`, saves, the watcher's way back, crash and restart | one critical section, one answer, one access to a file |
| `WatcherDispatch` | file events, reloads, websocket clients, dispatch, the service's consumer | one critical section, one read of the directory, one channel operation |
| `CredentialMirror` | the promise `WatcherDispatch` implements | a change, or the mirror catching up |
| `ConfigReload` | edits of `config.yaml`, debounce, hash, reload, deferred server update, the service's callback | one timer, one read, one critical section |
| `AnswerStream` | a streamed answer: executor, conductor's relay, `ExecuteStreamWithAuthManager`, converter, the seven streaming endpoints | one channel operation or one choice of a `select` |
| `ClaudeStream` | the five streaming translators to the Claude format | one chunk, or one event handed to the client |
| `ClaudeProtocol` | what a Claude client may be told, which `ClaudeStream` implements | one event |
| `ExecutorCalls` | every operation of the eleven executors: what it sends, opens, closes, retries, records and returns | one step of the operation's list |
| `RequestTranslators` | the request translators between six formats | functions |
| `Requests` | a conversation that grows, sent to a provider turn by turn | one turn, or one request |
| `CodexSession` | a Codex websocket session, its mutex, connections and readers | one lock, dial, read, write or channel operation |
| `WsRelay` | a relay session, its requests, its reader, `NonStream`/`Stream` | one operation on the map, a channel or the connection |
| `Usage` | the usage queue, its worker, the statistics, export and import | one critical section |
| `UserAccounts` | codes, registration, login, refreshed tokens, whole-row updates | one statement or critical section |
| `OAuthSessions` | the session store, callback files, the flows, the polled status | one critical section or one access to a file |
| `ConfigTree` | the tree of `config.yaml` and the merge of a configuration into it | functions |
| `ConfigEdits` | edits of the configuration through the management API, their saves, reloads and restarts | one change in memory, or one access to the file |
| `TokenStores` | the three stores: save, delete, what the watcher persists, the fill at a start | one lock operation, one access to a file, the commit, the copy |
| `RequestLog` | the middleware's response writer, the logger's streams, error logs and their clean-up | one call of the handler, one chunk, one access to the disk |
| `Redemption` | `Redeem`, `ClaimTemplate`, `GrantBonus`, `DisableInviteCode` | one statement of the store |
| `CircuitBreaker` | `Allow`, `RecordSuccess`, `RecordFailure` | one atomic load, store, add or swap |
| `Books`, `Answers`, `Subsystems`, `Overlaps` | compositions for the runs, see section 3 | a step of one part |
| `MCAuthConductor`, `MCModelRegistry` | values for TLC | |
| `NumberLemmas` | minima, maxima, sums and counts over finite sets, for the proofs | |
| `AuthConductorProofs`, `ModelRegistryProofs`, `BooksProofs`, `AuthRefreshProofs`, `WatcherDispatchProofs`, `SubsystemsProofs`, `OverlapsProofs` | theorems | |

Where a module has a constant `Assume` (or `Apart`, `Prompt`, `prompt_handler`),
it names what the environment or the timing is taken to do. Nothing in the code
enforces it; section 5 says what happens without each.

### AuthConductor

`modelState[a][m]` is `Auth.ModelStates[m]`, `aggregate[a]` the fields of
`Auth` that `updateAggregatedAvailability` derives, `req[r]` the goroutine of
request r: where it is, what it has tried, how many attempts it has made, and
the registry calls it still owes (`notes`). Times are kept as the time still to
go; `Tick` ages all of them. `Pick`, `PickNone` are `pickNextMixed` with
`getAvailableAuths`: *which* of the ready credentials of the best priority is
taken is the selector's business and is a free choice here, so round robin and
fill-first are both covered, and the cursors are not state. The outcome of a
call is a class of error (`Errors`), as `MarkResult`'s switch tells them apart.
A token count is never marked, a stream only when it breaks or ends.
`CooldownWaits` looks at every credential, pinned or not, as
`closestCooldownWait` does. Two further variables: `regQuota` and
`regSuspended`, the registry's marks as far as the conductor sets them; `calls`
is history, for a property.

### ModelRegistry and RegistryLock

`ModelRegistry` keeps a client's list as a multiplicity per model, for a list
may name one twice, and `Reconciled` is one model's share of
`RegisterClient`'s long reconciliation. The four marking calls look for the
model, not for the client (`Marked`), as the code does. The queries (`Listed`,
`GetModelProviders`, `ClientSupportsModel`) are operators.
`CleanupExpiredQuotas` is exported and included, though nothing calls it today.
`Books` leaves the registry's clients, models, providers and lists to its
configuration, so that `BooksProofs` is about any of them.

`RegistryLock` gives each method its sequence of lock operations and models
Go's RWMutex: a waiting writer keeps new readers out. A chooser is a goroutine in
`GetFirstAvailableModel`.

### AuthRefresh

`auths[c]`, `files[c]`: an entry and its file. Token k is the k-th the provider
issued. `jobs` are refresh goroutines, `edits` management requests, each with
the clone it holds; `sync[c]` the watcher's last-seen content, the update in
the queue and the one being applied; `due` the rest of the ticker's pass.
`marks` stands for `ModelStates`, with what `Update` asks of them: none, clear,
or blocking. Edits are "enable", "disable", "fields" (what
`PatchAuthFileFields` changes matters to no property) and "renew", the
management API's own refresh of an Antigravity token. `Restart` may leave the
files of saves in progress empty (`WriteFile` truncates first) and then loads
what is there; `StopAutoRefresh` cancels the loop.

Two constants say what the environment is assumed to do, and can be switched
off:

- `Prompt`: a refresh ends within `refreshPendingBackoff` (one minute), and
  saves and file changes are through before a token of an hour's life lapses
  again.
- `Apart`: two updates of one credential do not overlap: no operator edits it
  while it is being refreshed, no second one edits it at the same time, and no
  token is asked for while the watcher's update with an older one is on its
  way. The conjunct `KeptApart` is the assumption; nothing in the code enforces
  it, which is what `refresh_disabled` is about.

### Redemption

One code, one template, users with and without a `user_quotas` row. Each
request goes through the statements of its handler; `Abort` is a statement that
fails or a client that goes away, `Rollback` runs with the request's context
and may fail as well. `redeemed`, `claimed` and `lost` are history. Statements
are atomic and one that fails has no effect.

### CircuitBreaker

The failure counter saturates at the threshold (it is only compared with it),
the clock at the timeout; `lastFailure` is cut to whole seconds (`phase`).

### WatcherDispatch, a refinement of CredentialMirror

`source` is what there is (files, websocket clients), `manager` what the
service's manager holds. Between them: the events of files with the debounce of
removals, `lastAuthHashes`, the two jobs that run `refreshAuthState` (a file
event's goroutine and a reload), each with the snapshot it took *before* the
lock and the updates it prepared *under* it and dispatches *after* it, the
pending map that merges per credential, the dispatch loop's batch, the bounded
queue and the consumer. A state carries a number `ver`, which no guard reads but
to bound it: it is the refinement mapping's material, and `changes` counts the
changes of all of them. The refinement `Mirror!Spec`, with `mirror <- manager`,
is stated in its two halves: `MirrorsInOrder`, every step of the machinery is a
stutter or a step forward of the mirror, and `MirrorFollows`, under fairness the
mirror catches up.

### ConfigReload

The content of `config.yaml` is the number of the edit; a torn file is one being
written. Each worker that calls the service's callback (`Previous`, `Apply`,
`Serve`) carries the configuration it took from the watcher; `served` is what
service and server have. `owed` is the deferred server update.

### AnswerStream

An endpoint and an executor are records of what they differ in (`peeks`,
`validates`, `converts`, `socket`; `tellsDone`, `minds`), so that several map to
one value. `base` is the goroutine of `ExecuteStreamWithAuthManager`, `errs` its
buffered error channel, whose closing comes before that of the data channel
(`BaseClosesErrs`, `BaseClosesData`). A data channel is unbuffered: the sender
holds the item. A handler that sleeps in its `select` is woken by the first
event (`Woken`); one that arrives later (`Turns`) chooses among what is there:
that is where the finding is. Keep-alives are left out.

### ClaudeStream, a refinement of ClaudeProtocol

`param` is the translator's own state, `item` the chunk under way, `out` the
events it yielded, `client` what the client has been told so far (phase, open
blocks, blocks started). The chunks a provider may send are those of its
grammar; texts and token counts are left out, except whether they are there.
`ProtocolKept` is `Protocol!Spec` over `client`.

### RequestTranslators, Requests

A message is a role and its parts; a part is a text, an image, a call of a tool
or a result, with its number and the id and name it has in that format. Ids and
names are sequences of what stands between their dashes, because translators
take a tool's name out of an id and cut or suffix names. `Requests` lets a
client of each format say the next turn as such a client would (`InClaude`,
`InGemini`, ...) and translates the whole conversation. `habit` is what may be
particular about a client: its ids, the order of its results, how it spells a
field, long names, tools a provider has built in. `RequestsCarried` compares
what was said with what is sent.

### ExecutorCalls

An operation is the list of its steps in the order of the code (`ClaudeExecute`,
`AntigravityExecuteStream`, ...), and the steps are actions all executors share;
where two do the same thing differently there are two steps. `call` is one call
with what is left of its list, the outcomes of the requests it sent, the state of
the body, its usage record and what the caller was told. Lists start again at
"send" for the next base URL or attempt. `window` is Qwen's rate limit, `models`
Antigravity's cached list.

### CodexSession, WsRelay

A connection is the number of its dial. A reader hands what it reads to the
session's active channel, whoever's it is by then. In `WsRelay` a closed channel
is a flag, and a send on one is a panic (`panicked`), as in Go; the ninth message
of a full channel is dropped (`Capacity`, which the run sets to two).

### Usage, UserAccounts, OAuthSessions

`Usage` has the queue, `Signal` after the unlock, a worker that drains after
`Stop`, the statistics with their deduplication keys and what a restart loses.
`UserAccounts` keeps of a row its name, e-mail and status, and of tokens how
long the longest-lived one of a user lasts; `decided` is the operator's last
word on a user (history). In `OAuthSessions` a flow's kind is a record of what
the seven functions of `auth_files.go` differ in.

### ConfigTree, ConfigEdits

`config.yaml` is a tree of scalars, mappings and sequences, at most `MaxDepth`
deep; what recurses through it is a function over its nodes. `ConfigTree` has
`SaveConfigPreserveComments`: the configuration is rendered and merged into the
file's tree, entries of lists are matched by name, and what is a default is not
added. A behaviour of `ConfigEdits` edits one `section`; the ten sections are
records of what their handlers and sanitizers differ in (which fields an entry
needs, which make it a duplicate, which a patch may empty to delete it, whether
the list is left out when it is empty). `mem` is what `h.cfg` points to, `file`
the document (`None` between `os.Create` and the write), `loaded` what a reload
has read and not yet handed to `SetConfig`; `promised` is the configuration by
the edits answered with success (history). An entry has its name, base URL and
headers; its other fields are handled like these.

### TokenStores

A call is the sequence of steps its store's method goes through (`PostgresSave`,
`GitDelete`, ...), and a step is an action: so the three stores share the
actions, and differ in their sequences, in what the copy of an empty file is
(`CopyOf`) and in how a start fills the spool. A step may fail and end the call;
a remote one that fails may have been done all the same. `dirty` and `allowed`
are history: which files have changed since they were read for their copy, and
what the copy of a file may be by the calls answered with success.

### RequestLog

`wrapper` is the response writer, `chunks` its channel with the goroutine that
empties it, `spool` the log writer's channel, its goroutine and its temporary
files. A full channel drops the chunk, as both `select`s with a `default` do.

## 3. Runs, bounds and fairness

| Run | Configuration | Properties | States |
|---|---|---|---|
| `auth_models` (`Books`) | 1 credential, 2 models, 2 requests, execute and stream, quota and other errors, two backoff levels. Beside it the registry: 2 clients, 2 models (one named up to twice), 2 providers, late marks. Beside both the stores: 1 credential and the configuration, 2 contents, 2 goroutines, 3 calls (the same save again included), 1 write by others, 1 restart | `TypeOK`, `AggregateTracksModels`, `BackoffForgottenOnlyBySuccess`, `FailureIsolated`, `BooksMatchClients`, `OthersKeepMarks`, `CopiesKept` | 1 290 000 |
| `auth_answers` (`Answers`) | 2 credentials with a priority, different retry settings, a limit of one credential per round, waits. Beside it one streamed answer: every endpoint and executor, up to 2 payloads, a retry with 1. Beside both the log: 2 requests, one of them perhaps a stream, 2 chunks, channels of one, 1 error log, 1 switch | `UpstreamCallsBounded`, `EveryRequestReturns`, `AnswerAsSent`, `StreamsEnd`, `LogsKept` | 412 000 |
| `watcher_mirrors` | 1 file, 1 websocket client, 3 changes, 2 events, 1 reload, a queue of one | `TypeOK`, `MirrorsInOrder`, `MirrorFollows` (the refinement, its safety and its liveness) | 669 000 |
| `overlaps` (`Overlaps`) | token refresh: 1 credential, 2 refreshes, 1 operator who disables or renews, watcher, crashes, failing saves; registration: 2 requests, 1 e-mail; sign-ins: 2 flows, of two kinds or of one, 1 callback; answers of 5 formats in up to 4 chunks; calls: 38 operations, 2 base URLs, 1 retry, 2 lines; requests: 6 formats each way, up to 5 turns and 3 calls of tools; codes: 2 workers, 3 requests, 2 users, 2 uses, 2 slots, aborts; configuration: 9 sections, 2 edits, 2 entries, 2 headers | `PartsTypeOK`, `NewestTokenKept`, `OneRefreshAtATime`, `FileIsTruth`, `NewestTokenSpent`, `OneAccountEach`, `OkMeansSaved`, `ProtocolKept` (refinement, and a proper end), `CallsRecorded`, `CallsConclude`, `RequestsCarried`, `NothingGivenTwice`, `DisabledForGood`, `EditStays` | 1 004 000 |
| `subsystems` (`Subsystems`) | registry lock: 2 queries, a caller of `GetFirstAvailableModel`, 2 registrations with hooks; breaker: 2 callers, threshold 2; refresh: 2 credentials, 1 slot; configuration: 2 reloads, 2 edits; relay: 1 request, 2 chunks; usage: 2 records, 2 imports; tokens: 1 user, 1 ban; Codex: 2 requests, 2 connections | `AllTypeOK`, `OnlyNestingLocksUp`, `OneConfigServed`, `NoPanic`, `AnswersIntact`, `RecordsCounted`; live: `TriedAgain`, `Delivered`, `SessionsServe`, `BansTakeEffect` | 45 200 |

Some properties of a composition join those of its parts: `AnswersIntact` says
of the relay that a success is complete (`SuccessIsComplete`) and of Codex that a
request hears its own answer only (`OwnAnswerOnly`); `SessionsServe`, that callers
of both return and leave nothing pending; `Delivered`, that what the usage queue
accepted is dispatched and that the configuration last written is served;
`CallsConclude` is `NothingLeftOpen` and `UpstreamsExhausted` of
`ExecutorCalls`; `NothingGivenTwice` is
`UsesCoverRedemptions` and `EverySlotOwned` of `Redemption`; `StreamsEnd` speaks of
the goroutines of a streamed answer and of those of its log.

Seven more runs end in a violation; they are in section 5.

**Why parts share a run.** Parts of `Books`, `Answers`, `Subsystems` and
`Overlaps` share no state. Their product would only multiply states without
adding a behaviour that a property could see, so a variable `part` says which
one moves in a behaviour, and the others stay in their initial states. The state
space is the sum of the parts', and the whole project is checked in minutes. In
`Subsystems` and `Answers` each part has its own module's fairness; a resting
part has nothing enabled in its initial state, except the breaker, to which
traffic may always come, and an answer that may always begin: there fairness is
guarded by `part`. Components that *do* share state are one module
(`AuthRefresh`: manager, files, watcher, operator; `WatcherDispatch`: watcher,
dispatcher, service, relay hooks; `AnswerStream`: executor, conductor, handler).

**Why the bounds are enough.** The interesting cases are races of two: two
results on one credential, a refresh and an edit, two redemptions for the last
use; the instances have two of each actor, and three where the third matters
(a disable between two redemptions). Two models tell "this model" from
"another", two backoff levels tell growing from cut, two copies in a list tell a
diff by name from a diff by count. One credential is enough for overlapping
refreshes because entries of different credentials share nothing but the
semaphore, which is what the refresh part of `subsystems` has two credentials
and one slot for. Two payloads tell order, and a payload sent before a failure
tells a late retry. Four chunks open, fill and close a block and begin another.
Five turns hold two answers with calls of tools and their results, three calls
two of one answer. In `overlaps`, kinds of sign-in, workers, sections and edits
of a credential are fewer than there are, to keep the run short: `OkMeansSaved`
and `NothingGivenTwice` are proved for every kind and any number of workers,
"enable" is among the edits of `refresh_disabled` and covered by the proofs, and
the section left out, `codex-api-key`, is handled like `openai-compatibility`.
A queue of one is full at once. `MaxToken`, `MaxRequests`, `MaxCopies`,
`MaxChanges`, `MaxChunks` and the like cut counters and are named as bounds
where they are declared. Symmetry (of requests, `auth_models`) is used only
where no liveness is checked and the set's members are interchangeable.

**Fairness.** Goroutines run and time passes (weak fairness of each request's,
caller's or refresh's steps and of `Tick`). In `AuthConductor` providers answer:
their HTTP clients and request contexts bound each call, though not with what
answer: any call may fail. In `AnswerStream` a body may hang for ever; only that
of a cancelled request is read no further (its read fails), and the program's
goroutines are scheduled. In `CodexSession` a connection that stays silent runs
into its deadline. No client has to send a request or go away, no operator to
edit, no file to change, no peer to answer. Strong fairness is assumed in three
places: `TakeSlot` (a slot of the semaphore is free again and again, and Go
serves the goroutines blocked in a channel send in the order of their arrival);
the timers and reloads of `ConfigReload`, which wait for each other under
`updates_apart`; and `Lock` of `RegistryLock` (Go's mutex does not starve a
writer; `FirstModelReturns` fails even so). `AlwaysTriedAgain` also needs the
ticker (`CheckRefreshes`, `MarkRefreshPending`). For `EventuallyProbed` a request
arrives as long as the system runs: it is about continued traffic.
`BansTakeEffect` needs only that time passes.

Deadlock is not checked in the runs whose system may stop for good: a bounded
number of changes, requests or chunks has been used up.

## 4. What is proved, and how

TLC checks the instances above; the theorems hold for all values of the
constants that satisfy the `ASSUME`s of their module (sets finite where
something is counted, waits and limits natural numbers, settings of the right
type, `None`-like values different from the real ones). Where a theorem needs
more, its statement says so: `Orderly` is a condition on the constants that names
what the environment does, the same the runs assume. What
`Books`, `Answers`, `Subsystems` and `Overlaps` fix in an `INSTANCE` (most of the
`Assume`s) is fixed in their theorems too; the sizes are not, and the timing of
configurations (`ConfigTiming`) is a constant.

Four statements that TLC checks are proved, but under assumptions that leave
out the very overlap their hazard is about; they are lemmas, not results:
`NewestKept` (`AuthRefreshProofs`, under `Orderly`), `ChannelsSound` and
`AnswersComplete` (`SubsystemsProofs`, under the `Assume`s of the relay and of
Codex), and `NeverStepsBack` (`WatcherDispatchProofs`, under `Paced`). What
happens without is in section 5.

A proof of a composition goes part by part: `PartsMove` (or its like) says that
a step moves one part and leaves the variables of the others alone, so that each
part has an invariant of its own.

**The conductor** (`AuthConductorProofs`)

- `TypeCorrect`: `[]TypeOK`. `TypeOK` is inductive. Its one surprising part is
  that a level stays in `0..MaxLevel`: the backoff stops growing when the doubled
  cooldown reaches its cut.
- `AggregateAlwaysTracks`: `[]AggregateTracksModels`. With `TypeOK` it is
  inductive, credential by credential (`Tracks`). `AggregateTracks` is the heart:
  after the sweep no state is unavailable with its moment come, so "still cooling
  down" and "has a retry time" coincide. `MinAges` says that the earliest moment
  ages as all of them do, which carries the invariant over `Tick`, where nothing
  is recomputed.
- `UpstreamAlwaysBounded`: `[]UpstreamCallsBounded`. The bound alone is not
  inductive. `CallsCovered` adds where the calls went: all calls of the earlier
  attempts, `attempt * RoundCap`, plus the credentials tried in this round; and
  that a request that waits still has an attempt some credential allows. The step
  from "waiting" to the next attempt turns one round's tries into `RoundCap`.
- `BackoffRemembered` and `FailuresIsolated`, the two action properties. Both
  follow from one statement about every credential and model, `KeptOrResult`: a
  step leaves the level and starts no cooldown (`Kept`: sweeps and time do so),
  or it is a result of a call of that credential for that model (`ResultOf`).

**Streamed answers and their logs** (`AuthConductorProofs`, on `Answers`)

- `StreamsArriveAsSent`: `[]AnswerAsSent`, for every endpoint and executor, any
  number of payloads and of retries, under `prompt_handler`. Four goroutines hold
  one payload each between the body and the client. `Numbered` says that each of
  these has the number that is next after all those before it, and that the
  executor has sent as many as there are on the way and with the client; it
  speaks of one attempt, for `InTurn` says that another attempt begins only while
  nothing has been handed on. `EndFine` is about the channels that are closed one
  after the other: an answer that is not complete (`Complete`) has left an error,
  and who looks for an error before saying "done" finds it. `MarkFine` ties the
  credential's mark to that end.
- `LogsStayKept`: `[]LogsKept`, for any number of logged requests and chunks, any
  capacity of the channels and any limit of error logs, under `kept_on`,
  `kept_off`, `early_status` and `whole_logs`. `LogInv` follows an answer from
  the handler to the file: `StageFine` and `PipeFine` tie the stages of a request
  to its goroutines and temporary files, `OrderFine` puts the chunks in the
  channel, with the carrier, in the spool and in the file in order, `CoverFine`
  says why one may be missing (only a full channel drops a chunk, and those it
  was full of have smaller numbers), `LogFine` what the file says in the end. For
  the error logs, `SomebodyCleans`: if there are too many, a request is on its
  way to remove them; `AgesApart` and `FewNewest` make that enough.

**The registry** (`ModelRegistryProofs`, carried over to the composition in
`BooksProofs`)

- `BooksMatch`: `[]BooksMatchClients`. A counter is a sum over the clients'
  lists, for each model and each provider. `RInv` is the types and `AllMatch`:
  counters match. Each step is a statement about one entry, `Shifted`: what
  `Reconciled`, `Added` and `Removed` take from the old provider and give to the
  new one, which entry is gone when nothing is left. `ClientSums` is its
  counterpart for the sums. Induction over a set is not to be had from the
  library here (its theorem takes an operator); `NumberLemmas` proves what is
  needed of sums (`SumStep`, `SumChange`, `SumPart`, `SumApart`) with a smallest
  set for which it fails.
- `OtherMarksKept`: `OthersKeepMarks`, by `MarksKept`, through the three stages
  of `Reconciled`.

**The stores** (`BooksProofs`)

- `CopiesStayKept`: `[]CopiesKept`, for any backend, files, contents and number
  of goroutines, calls, foreign writes and restarts. It promises nothing of a call
  that found the file as wanted while the file's last copy was missing
  (`Unkept`): such a call answers "saved" and copies nothing (section 5).
  The property speaks only of a service at rest; `StoresInv` says what holds
  while calls are under way. `WayInv`: the steps a call has before it are a rest
  of those of its operation. `LockInv`: one call is between taking the store's
  lock and giving it up. `CallInv`: what a call is about to copy is allowed to be
  there, and is what the spool holds, or the file is marked dirty. `CopyInv`: a
  file that is not dirty agrees with its copy, or the call under the lock is
  about to copy it. `CleanInv` says from which steps on a call owes no copy any
  more. `StoresStep` takes the steps one by one.

**Token refresh** (`AuthRefreshProofs`)

- `TypeCorrect`: `[]TypeOK`, without `Prompt` and `Apart` or with them. The
  invariant `IInv` adds that whoever works on a credential works on an entry that
  exists (for every handler replaces, none removes), and that clones wait no
  longer than entries do.
- `OneRefresh`: `Orderly => (Spec => []OneRefreshAtATime)`, where `Orderly` is
  `Prompt` and `Apart`. The invariant `AInv` says of each credential who is at
  work on it (`Alone`), and what keeps a second refresh from starting while one
  runs (`Marked`): the pending mark until the answer is stored, and after that
  the new token, which is not due.
- `FileStaysTruth`: `FileIsTruth` under `Orderly`: the older updates of the
  watcher that come between an edit, its save and the next edit are all in it.
  `KInv` adds to `AInv` where the newest token is (in the goroutine that got it,
  in the entry, in the save) and how manager and file agree: the entry's content
  was seen last by the watcher, is being saved, or is in the file; so an older
  update of the watcher is followed by a newer one.

**The watcher** (`WatcherDispatchProofs`)

- `TypeCorrect`: `[]TypeOK`, under none of the assumptions. `TInv` adds what
  bounds the numbers of the states (all changes together are counted) and in
  which state a websocket client is by what its goroutines have told.

**Eight subsystems** (`SubsystemsProofs`)

- `LocksUpOnlyByNesting`: `[]OnlyNestingLocksUp` for any number of queries,
  callers of `GetFirstAvailableModel` and registrations with hooks: when
  everybody waits for the lock, somebody is inside `GetFirstAvailableModel` and
  asks for its second read lock with a writer before it. So the nested lock is
  the only way to lock up; hooks that call the registry are none. `LockInv` says
  where each kind of goroutine can be and what it holds there.
- `TypeCorrect`: `[]BreakerTypeOK`.
- `ServedTogether`: `[]OneConfigServed`, for any number of reloading goroutines
  and edits and whatever the timing: `ConfigTiming` is any set of assumptions,
  the empty one included. Configurations that were taken early and overtaken,
  deferred updates and a stop are all in it; the one thing the property leaves
  out is a callback that has begun while another ran (`crossed`). `ConfigInv`:
  the callbacks under way are one (`Together`), and what has been served by each
  of its steps so far (`ServedSoFar`).
- `StatisticsExact`: `[]RecordsCounted`. `UsageInv`: a record is in one place,
  the queue, the worker, or the counts and exports; counts and sums over what
  there was and what is new add up (`CountApart`, `SumApart`).

**The overlaps** (`OverlapsProofs`)

- `AccountsUnique`: `[]OneAccountEach`. `AccountsInv` adds what a registration
  carries and that an update under way has the name and e-mail of the row it
  will write, for a row never changes them.
- `OkIsSaved`: `[]OkMeansSaved`, for every kind of sign-in and any number of
  flows, several of one provider at a time included: a front end that hears "ok"
  has its flow's credential saved, or its session expired, or another flow of
  the same provider has succeeded and ended it. `SInv` adds where a flow stands
  when its session is open.
- `UsesAndSlotsOwned` and `DisabledStaysDisabled`: `[]NothingGivenTwice` and
  `DisabledForGood`. `RedeemInv` is the types and the two counting statements,
  with what each position of a request implies (`RedeemPlaced`); a step moves one
  request, and `CountChange` says what that does to the number of requests in a
  position.
- `CallsAlwaysRecorded` and `CallsAlwaysConclude`: `[]CallsRecorded` and
  `[]CallsConclude`, for every operation of every executor and any number of base
  URLs, attempts, lines and calls in a minute, under `decodable_errors`.
  `CallFine` starts from what the 38 lists of steps have in common: `Goes` says
  which step follows which and `Fits` which operation has it, each list satisfies
  both (`OperationsInOrder`), and so does every rest of one (`RestInOrder`), also
  after a call has gone back to "send" for the next base URL. So the step a call
  is at tells what may follow, and with it when its record counts (`RecordFine`),
  who still closes its body (`BodyFine`), what its channel holds (`OutFine`),
  that an answer is there to be looked at (`HeardFine`) and why the upstreams
  before this one were given up (`UpFine`). `StepTaken` and `GivenUp` are the two
  things a step can be, one further in the list or the end of the call; the
  lemmas on them carry the parts over, and each action cites them.

**Only model-checked.** Liveness (`MirrorFollows`, `EveryRequestReturns`,
`StreamsEnd`, `TriedAgain`, `Delivered`, `SessionsServe`, `BansTakeEffect`, the
proper end in `ProtocolKept`), since fairness and ENABLED are out of the
provers' reach. What translators and the merge of a configuration compute
(`RequestsCarried`, `EditStays`): folds over sequences and recursion over trees
of any shape, which would need induction over data. The refinement of
`ClaudeProtocol` has no proof yet. The combined type invariants (`PartsTypeOK`, `AllTypeOK`) hold
those of `AuthRefresh`, `CircuitBreaker`, `ConfigReload`, `WsRelay`, `Usage` and
`CodexSession`, and of `UserAccounts`, `OAuthSessions` and `Redemption`, that
the invariants above establish.

## 5. What the models found

### Disagreements with what the code says of itself

| Run | Property | What happens |
|---|---|---|
| `refresh_disabled` | `DisabledStays` | A refresh reads the credential; an operator disables it and gets "ok"; the refresh ends and replaces the entry by its clone (`conductor.go` 2205): the credential is enabled again, in memory and in its file. `types.go` 65: "intentionally disabled by operator". |
| `registry_listed` | `AvailableIsListed` | `MarkResult`'s suspension arrives after its client has been unregistered; it is recorded all the same (`model_registry.go` 642) and subtracted from the clients that remain, so a model with an available client is not listed. |
| `registry_first_model` | `FirstModelReturns` | `GetFirstAvailableModel` takes the read lock again while it holds it (`model_registry.go` 1140). If a registration asks for the lock in between, both sleep for ever, and every query behind them. |
| `stream_failure` | `FailureIsTold` | An answer fails before its first chunk: its goroutine puts the error into `errChan`, closes it and closes `dataChan` (`handlers.go` 621). A handler that comes to its `select` only then may take the closed `dataChan` first and report an empty answer with status 200 (`code_handlers.go` 258, and the same look in the openai, gemini and responses handlers). The other branch says "Upstream failed immediately. Return proper error status and JSON." (250) `ForwardStream` looks again for a pending error. |
| `codex_upgrade` | `SessionServes` | A streamed request whose websocket upgrade is refused falls back to HTTP and keeps the session's mutex (`codex_websockets_executor.go` 429): the next request of the session waits for ever. |
| `redeem_oversold` | `CodeNeverOversold` | Disabling a code writes the whole row back, an old `used_count` included (`admin/handler.go` 951); two redemptions that passed their checks before both succeed on a one-use code. |
| `config_cleared` | `ClearedStays` | `DELETE` of all `ampcode.upstream-api-keys` is answered with "ok", but the field is `omitempty` (`config.go` 220): the rendered configuration has no such key, and the merge leaves the file's list as it is. A restart, or a reload after another edit, brings the keys back. `config_lists.go` 1285: "clears all entries". |

### Behaviours of the models worth knowing

They are what the code does; no run is spent on them.

- *Update against update* (`AuthRefresh` with `Apart = FALSE`). Model states
  recorded while a clone is out are lost when it is stored, unless the clone
  has none (`conductor.go` 471; `conductor_update_test.go` 8 covers that case
  only). Two updates of one credential save outside the lock and may save in
  the opposite order, so that the file keeps the older token. The watcher
  does not correct it: it compares the file with the last hash it saw, not with
  what the manager holds. And an update of the watcher made from an older file,
  applied after a refresh, puts the old token back in memory, from where the
  next save of a `MarkResult` takes it to the file.
- *Prompt switched off.* The pending mark lasts one minute (2156) whatever the
  refresh does: a slower one, or one that waits that long for a slot, is started
  a second time, and the older answer may be stored last. Storing a clone clears
  `NextRefreshAfter` (2204), a backoff set in between included.
- `refreshAuth` clones the entry after it has given up the read lock (2175)
  while `MarkResult` changes the entry's maps in place. The models clone
  atomically.
- A burst of failures of requests already under way raises the backoff level
  once each (1311), and a later failure may replace a longer cooldown by a
  shorter one (1286). `isAuthBlockedForModel` reports an earlier quota's
  recovery time for a later error (`selector.go` 391), and
  `closestCooldownWait` counts credentials the request could not use: a retry
  may be in vain, but is still bounded.
- `GetModelCount` subtracts a client over quota twice, for its quota mark and
  for its suspension (`model_registry.go` 887–915). The list endpoint separates
  the two.
- Two requests of one user may both redeem a code: the check and the record are
  two statements and the table has no unique constraint
  (`001_init_sqlite.sql` 39–44). Claims are never counted:
  `CountTemplateClaimsByUser` looks for codes with the template's bonus, and a
  claim inserts one without (`template.go` 118, `sqlite_template.go` 157), so a
  user may claim until the slots are gone. A user without a `user_quotas` row
  can neither redeem nor claim, and the use is spent (`engine.go` 115,
  `sqlite_quota.go` 201): the only write that could create the row comes after
  a read that fails without it. `Seeded` are rows an administrator put there.
  A rollback whose client has gone away fails (`template.go` 132–136).
- A half-open breaker admits every caller (`health.go` 99–101, against its own
  comment and line 15), and a caller that compared an old `lastFailure` may
  half-open a breaker that has just failed (90). Neither the breaker nor the
  scheduler is used outside tests today.

- *A repeated save of `TokenStores`.* A save whose copy failed, or was cut off by
  a crash, leaves the new content in the spool; the next save of the same content
  finds the file as it should be and is answered with success without a copy
  (`postgresstore.go` 226, `objectstore.go` 196, `gitstore.go` 257), and the next
  start brings the old credential back. This is in the runs and in the proof:
  `AnswerAtOnce` expects nothing of such an answer. Git's `Delete` of a file that
  is gone and a commit with nothing staged return before the push. (After a
  failed commit git's index keeps what was staged; the model has no index.)
- *Two sign-ins of one provider.* A flow that succeeds ends every session of its
  provider, and the front end of another flow hears "ok" (`auth_files.go` 1540)
  though nothing of its own was saved. This too is in the run; `OkMeansSaved`
  says that there is no other way to hear a wrong "ok".

### What the assumptions keep out

Each can be taken out of `Assume` in the configuration or the composition, and
TLC shows what follows.

- *`WatcherDispatch`.* Without `refreshes_apart` or `connected_first` the mirror
  steps back: an update computed from an older snapshot, or the leave of a
  session that is told before its arrival, is applied last (`dispatcher.go` 79,
  89). Without `removals_apart` (a file removed, written and removed again
  within a second), `lasting_files`, `steady_reload` (a file that goes while a
  reload has cut `currentAuths`) or `fresh_content` (a file rewritten with the
  content it had) it never converges.
- *`ConfigReload`.* Without `updates_apart` two callbacks may run at once and
  leave service and server with different configurations, and one after the
  other may leave an old one: a change of an auth file takes the configuration
  before the credentials are refreshed (`clients.go` 147). `Delivered` assumes
  neither happens; `OneConfigServed` holds without (TLC: 458 000 states with 2
  reloads and 1 edit, 629 000 with 1 and 2; the theorem for any number) as long
  as no callback begins in another. Without `edits_apart` an edit during a reload is lost: the hash kept is that
  of the newer file (`config_reload.go` 67).
- *`WsRelay`.* Without `lookups_apart` a reader may send on a channel that
  another goroutine closes (`session.go` 109), a panic. Without
  `callers_keep_up` the ninth message is dropped, and a `NonStream` answer with
  a piece missing is returned as a success.
- *`CodexSession`.* Without `readers_apart` two readers, the old connection's
  and the new one's, hold one active channel and one closes it under the other.
  Without `steady_writes` or `patience` a request hears what is left of an
  earlier one's answer. `response.failed` and `response.incomplete` do not end an
  answer.
- *`UserAccounts`* with `Apart = FALSE` and two updates: a whole-row write that
  was read before a ban undoes it.
- *`ClaudeStream`.* Without `named_once` a tool's block starts twice; without
  `one_usage` a second `message_delta` follows the message's stop; without
  `no_empty_text` or `signed_thoughts` the antigravity translator writes to a
  block it has not opened (`antigravity_claude_response.go` 195–218). Without
  `counted` or `unbroken` the end is not told.
- *`ConfigEdits`.* Without `headers_whole` a header that is taken away from an
  entry that keeps others comes back: `pruneMissingMapKeys` looks at the keys of
  the entry, not at those of its `headers` (`config.go` 1191). Without
  `limit_listed`, `error-logs-max-files: 0` ("disable cleanup", 60) is a zero
  value and not added to a file that does not name it; it is 10 after a restart.
  Without `saves_whole` a crash between `os.Create` and the write (1001) leaves
  an empty file, a configuration of defaults. Without `edits_apart` a reload's
  `SetConfig` between an edit's change and its save loses the edit, which is
  answered with success. A change that could not be saved stays in memory, is
  served, and goes into the file with the next one.
- *`ExecutorCalls`* without `decodable_errors`: the Claude executor leaves the
  body of an error open that its Content-Encoding does not decode
  (`claude_executor.go` 183).
- *`RequestLog`.* Without `kept_on`, a configuration that switches the log off
  under a stream makes `Finalize` return (`response_writer.go` 281) before it
  closes anything: two goroutines and two temporary files stay. Without
  `early_status` a status set in the middle of a stream (`code_handlers.go` 301)
  opens a stream's log late, and what was buffered before is not in it. Without
  `whole_logs` an error log whose writing fails is not followed by a clean-up.
- *`AnswerStream`* without `prompt_handler`: the finding `stream_failure`.

### More, of the newer models

- An executor that translates "[DONE]" after the body (gemini, vertex, gemini-cli,
  antigravity, kimi, qwen) does so after a broken one too, before it tells the
  error: a payload is sent first, and no retry happens. Kimi and Qwen pass
  "[DONE]" without "data:", which the openai translator ignores.
- The completions endpoint's converting goroutine may be stopped with a chunk in
  hand when an error comes: the last chunks before it are lost.
- When a client leaves in the middle of a stream the executor's read fails and
  the credential is marked as failed (without a status, so it is not blocked);
  the paths that are not streams look at the context first. `ForwardStream`
  turns in its loop while the error channel is closed and data are to come.
- An executor's goroutine may append to the log of a pooled `gin.Context` after
  the handler has returned (`logging_helpers.go` 151, with the request log), and
  the usage plugin reads such a context after the request (`logger_plugin.go`
  422).
- `manager.go` 80 says `Stop` drains the queue; nobody waits for the worker, so
  what it has not dispatched when the process ends is lost.
- An account without an e-mail address is inserted with "", and the column is
  unique: only one can register. A code is spent before an insert that may fail
  (`handler_auth.go` 56), and what spends it may delete a newer one. A refreshed
  token carries the role of the old one (149).
- The error of a failed sign-in expires like a session, and a front end that asks
  later hears "ok". A callback file written after its flow has given up stays.
  One that is read while it is written (`oauth_sessions.go` 268) fails the flow.
- The executors of Claude, Codex, Gemini, Vertex, Gemini CLI, AI Studio, Kimi and
  Qwen record a call that succeeds only if the answer tells its usage; those of
  Antigravity, iFlow and OpenAI-compatible providers record an empty one
  (`ensurePublished`). An answer without usage is not counted with the former.
- *Requests.* What the translators do not carry, and the tables of `Requests`
  (`ResultTroubles`, `SpeechTroubles`, `ToolTroubles`, `LeftOut`) leave aside, each
  entry for one pair of formats and one habit: with parallel calls of tools,
  gemini and gemini-cli to openai give every result the id of the last call
  (`openai_gemini_request.go` 245), and so do responses to openai; a tool's name
  that is taken from an id Claude's client got elsewhere is wrong for gemini and
  antigravity, and an id that is used again pairs with the wrong call; of
  gemini-cli's own ids, which have two suffixes, one is cut off; results in
  another order than the calls are swapped from gemini to claude and codex. Text
  beside a `functionResponse` is lost to gemini-cli and antigravity, a developer's
  message to claude, and a system prompt that is a string to codex
  (`codex_claude_request.go` 46). A developer's message becomes an invalid role of
  gemini. `systemInstruction`, `inlineData` and `function_declarations` are read
  in one of their two spellings only, depending on the pair. Built-in tools become
  ordinary ones without a schema (openai) or without a name (claude).
- The quota engine writes whole rows (`engine.go` 125), and an enabled user
  without a row is an error in `GetUserQuota`.

## 6. What is not modelled

Every part is listed in `PROJECT.json` with its reason. In short:

- *Data*: answers in one piece (JSON to JSON), texts and parameters of requests,
  what executors send beside them (headers, cloaking, payload rules), the comparison of configurations, JSON of models, thinking budgets,
  statistics reports, UI. No state that actors share, and nothing a model
  checker would see that a unit test would not.
- *I/O*: the main log and its rotation, login dialogues, SQL text.
- *Unused code*: `QuotaMiddleware`, `ResetExpiredQuotas`, referrals, the health
  checker and the scheduler have no caller outside tests.
- *Parts of modelled components*: in `AuthRefresh`, uploads
  (`registerAuthFromFile`), removal of a credential, virtual Gemini credentials;
  a save of `MarkResult` cut short by a crash; what exactly `ModelStates` hold.
  In `AuthConductor`, model aliases and what the selector remembers. In
  `ModelRegistry`, the model infos and their versions per provider. In
  `Redemption`, creating codes, the `RequireEmail` check. In `AnswerStream`,
  keep-alives and the headers of a failing answer. In `UserAccounts`, listing,
  deleting, API keys. In `ClaudeStream`, the translators to other formats.

The models stand for about a fifth of the repository's lines. Most of the rest is of
the kinds above: the user interfaces, converters between the formats of six
providers, the dressing of requests, YAML and SQL. Mapping those lines would
mean models that restate conversions and hold by construction.

## 7. Plan

Done: the conductor, the registry and its lock, token refresh, redemption, the
breaker, the watcher and its mirror, configuration reload, the relay, the usage
queue, accounts, sign-ins, Codex sessions, the Claude translators, streamed
answers, edits of the configuration, the token stores, the request log, the
request translators, the executors' calls.

1. `ResponsesStream`: the streaming converters to the Responses format
   (`internal/translator/*/openai/responses`), which number items and open and
   close parts as those to the Claude format do, against an abstract protocol.
2. The quota engine (`Check`, `Deduct`, `GrantBonus` over whole rows, the sliding
   window, risk marks), once something calls the middleware; the scheduler
   (`scheduler.go` 110, 157) likewise.
3. Uploads and removal of credentials in `AuthRefresh`.
4. Theorems: the safety of `ProtocolKept`, translator by translator, and the
   combined type invariants.
