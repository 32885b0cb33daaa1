# Toche: a verification project

Toche is a local gateway between a coding assistant (Claude Code, Codex) and the provider of its
model. It merges identical requests that are in flight, replays responses from a persistent cache,
shortens tool outputs, records usage in a ledger, and edits the configuration of its clients so
that they talk to it. This directory holds TLA+ models of the parts where order, failure and
sharing matter, the TLC runs that check them on small instances, and TLAPS proofs of the
properties that matter most, for every value of the constants.

Paths below are relative to the repository (`src/...` is the Rust crate). `PROJECT.json` lists every
component, run, finding and hazard, and the source lines each definition stands for.

## 1. Inventory

| component | state | operations | interacts with |
|---|---|---|---|
| Request shield (`shield/coalesce.rs`) | a mutex around a map: flight key -> sender of a broadcast channel | `try_acquire`, `complete`, `cancel`, the waiter's `recv()` | the message handler and the ledger task call it |
| Request path (`gateway/routes.rs`, `server.rs`) | per request: its handler, a detached ledger task; shared: the upstream semaphore, `AppState` | POST `/v1/messages`, POST `/v1/responses`, GET `/health` `/ready` `/status` | shield, safe cache, reducer, ledger, upstream |
| Safe cache and blobs (`safe_cache/`, `reduce/storage.rs`, `cli/storage.rs`, `cli/cache.rs`) | SQLite tables `safe_cache`, `cas_known`, `cas_cache_refs`; a directory of content-addressed files | lookup, reduction storage, limit checks, insert and its undo; `toche cache clear`, `toche cleanup --orphans` from other processes | handlers of the gateway, the command line, the file system |
| Ledger and usage (`meter/`, `cli/stats.rs`) | `ledger.db`: a table and `schema_version` | open and migrate; record a request; `toche stats` query by query; delete old rows | opened by every ledger task, by `/status`, by `toche stats`; a cleanup deletes from it |
| Configuration directory (`setup/`, `config/`) | `config.toml`, `config.tmp`, `profiles.toml`, its backup, the rollback copy, `setup.lock`, `ownership.toml` | `toche setup`; every other command loads, and migrates | several processes, no lock but that of setup |
| Claude Code connection (`integrations/mod.rs`, `integrations/claude/config.rs`, `cli/connect.rs`, `cli/disconnect.rs`) | `settings.json` (of the user), its backup, the noted URL | `toche connect`, `toche disconnect` | the user and Claude Code edit the same file |
| Codex connection (`integrations/codex/config.rs`, `discovery.rs`) | `config.toml` of Codex, its backup beside it, the noted URL | `toche connect codex`, `toche disconnect codex` | the user edits the file; a connect asks the runtime whether it is ready |
| Managed launch (`integrations/*/launch.rs`, `cli/run.rs`) | a child process that serves the port, a client | `toche run` | other launches, a runtime that is there, other programs on the port |
| Output reduction (`reduce/transform.rs`, `reduce/rtk/`) | none; blobs go to the safe cache's directory | eight filter stages over one text; finding the command of a tool result and replacing its text | called by the message handler |
| Flight key, policy, trust domain (`shield/fingerprint.rs`, `identity/`) | the file `runtime_id` | hashes over request and configuration; the identity of a runtime | the handler builds the key of the shield and of the cache |
| Breakpoints and instructions (`cache/`, `efficiency/`) | none | where `cache_control` and the instruction are put | the message handler, after the reducer |
| Reading bodies, inspecting answers (`gateway/bounded_body.rs`, `safe_cache/inspect.rs`) | none | reads chunk by chunk against a limit; decides whether an answer may be stored | both handlers; the safe cache |
| Observer and checkpoints (`continuity/`, `cli/checkpoint.rs`) | a static per process; a table of checkpoints | observes an answer, drains into a checkpoint; save, show, list, delete | the gateway observes, a command drains; a save reads the project while it is worked on |
| Configuration resolution (`config/resolver.rs`, `config/migration.rs`, `profiles/`) | none | profiles to configuration, configuration to the default integration and its secret | every command, the gateway when it starts |
| Protocol routing (`protocol/`) | none | model, stream flag, fingerprint of a body | the handlers |
| Preview, graph, doctor, status, argument parsing, packaging | see section 6 | | |

How they interact: a handler computes the flight key, calls `try_acquire`, and either waits on a
receiver or leads. A leader looks into the safe cache, lets the reducer rewrite the body (which
stores raw outputs as blobs), waits for a permit, calls upstream, writes the safe cache *while it
still holds the permit* (the comment at `routes.rs:535` speaks of the provider request only), spawns the
ledger task, and returns. The ledger task, not the handler, completes the flight. Commands of the
command line run in other processes and share files and databases with the gateway, without locks
beyond those of SQLite and `setup.lock`.

What is hard here, and which property is for it:

- *Flights that nobody ends.* Every way out of a handler (error, timeout, disconnect, panic,
  ledger failure) must be looked at for what it leaves in the map: `OwnerResolves`,
  `HandlersFinish`, and the refuted `WaitersWake`, `NoStaleFlight`.
- *A lost wake-up* between the map lookup and `recv()`: `NoDeafWaiter`, `ImplementsSingleFlight`.
- *Permits* over seven ways out: `PermitConservation`.
- *Two stores of one content*, database and directory without a common transaction, cleanups in
  another process: `ReductionKept`, `RowsBacked`, `TornIsBeingWritten`, `MadeByOne`, `EntriesBounded`.
- *Schema migration by racing connections*, each statement its own transaction: `OpenIsComplete`,
  `GapOwned`, `Migrated`.
- *Rollback* that must survive failing operations, kills, and the setups that come after:
  `RollbackIsFound`, `TornHasRollback`, `FailedSetupRestores`, `AppliedIsInstalled`.
- *Migration without a lock*: `LegacyKept`, `MigrationSettles`.
- *A file of the user* that is changed and must be changed back: `UrlsAreMine`, `OtherIsKept`,
  `DisconnectedIsDirect`; for Codex `CodexGivesBack`, `CodexOwnsOneKey`.
- *Processes that start each other* and race for one port: `NoOrphan`, `OwnRuntimeStays`, `LaunchSettles`.
- *Numbers at their boundary*: limits of a filter that are zero or overlap (`LossIsTold`), a body of one
  byte more or less in any chunks (`LimitsAreExact`).
- *Several rewrites of one body* by steps that do not know of each other, one of which may fail:
  `MarkersRestore`, `CachedPrefixStable`, `SharedAnswerFits`.
- *What half an answer looks like*: `ReplayIsSafe`.
- *A report of several queries* while rows come and go: `StatsAddUp`; *a save of several reads* while the
  project is worked on, and ids that come again: `LatestIsCurrent`.
- *Names and identities* over a migration, an edit, a restart: `MigrationResolves`, `IdentitySurvives`.

All hazards, at their lines, are in `PROJECT.json`. A hazard without a property, or with a note, is one
the code meets: the note names the formula that TLC refutes (section 3).

## 2. The modules

| module | models | composed of |
|---|---|---|
| `SingleFlight` | what the shield promises: one call leads per key, all that waited get its answer in one step | |
| `CoalesceStore` | the registry: a map, channels, receivers | implements `SingleFlight` |
| `Gateway` | both POST handlers, permits, ledger tasks | EXTENDS `CoalesceStore`, whose actions are conjuncts of its own |
| `SafeCache` | rows, registries, blobs, handlers, cleanup | |
| `LedgerSchema` | `LedgerDb::open` | |
| `ConfigStore` | setup, load, migration | |
| `ClientConnect` | connect and disconnect for Claude Code, and the user | |
| `ManagedLaunch` | `toche run`, the runtimes it starts or joins, other programs on the port, kills | |
| `CodexConnect` | connect and disconnect for Codex, and the user | EXTENDS `ManagedLaunch`: a connect asks the runtime on the port |
| `LineFilter` | a filter definition applied to the lines of one output | |
| `Resolution` | migrated profiles, edited, resolved to the default integration | |
| `RequestBody` | the pure functions over a request body: reduction, fingerprint, keys, instruction, breakpoints | EXTENDS `LineFilter`, `Resolution` |
| `RequestPath` | the way of a request through those functions, turn after turn | EXTENDS `RequestBody` |
| `AnswerPath` | a body read chunk by chunk, the look of the cache at it, the observer | |
| `RuntimeIdentity` | starts of a gateway and the file `runtime_id` | |
| `Usage` | rows of the ledger from the answer on, the report, the retention | |
| `Checkpoints` | saves, deletes, what is shown, and the user who works on the projects | |
| `Request` | the parts above from `LineFilter` on, side by side | EXTENDS `RequestPath`, `AnswerPath`, `RuntimeIdentity`, `Usage`, `Checkpoints` |

`MC*` modules instantiate them for TLC and only add symmetry sets and values; `*Proofs` modules hold
the theorems.

### CoalesceStore and SingleFlight

`try_acquire`, `complete` and `cancel` hold the mutex from beginning to end, so each is one step
(`Forward`/`Subscribe`, `Complete`, `Cancel`); `recv()` is `Receive`, and a dropped waiter is
`Unsubscribe`. A sender is created by one caller, so the leader names its channel, and `sent[l]` is
what went over it. `ImplementsSingleFlight` is the refinement: a message on a channel counts as
delivered to everyone who holds a receiver, at the moment it is sent. A caller that walks away is
`Leave` in the abstract service.

### Gateway

`phase[r]` is the place of a handler between two shared accesses or awaits. `mode[r]` says which
way it goes: *shielded* (a message without streaming and bypass), *direct* (a message that streams
or bypasses the shield), *responses* (POST `/v1/responses`, which has neither shield nor cache).
`ClientGone` drops a handler at any of its awaits, with the destructors that then run: the receiver
and the permit go back, the entry of the map does not. `PermitTimeout` needs `permits = 0`, since the
timer polls `acquire()` before it looks at the clock and a freed permit goes to a queued waiter at
once. The safe cache is only its verdict here. The panic is the unsigned subtraction in
`reduce_body_at` when a filter makes a text longer (`transform.rs:135`), which panics in builds that
check overflow. `carry[r]` is `shield_key_for_complete`: a cache hit completes its flight in the
handler, an upstream answer in the ledger task.

### SafeCache

Every SQL statement and every file operation is a step; the handlers of the gateway, a cleanup and
commands that open the database interleave between any two. Abstractions: one tool output is
reduced per request; the limits on bytes and free disk are a refusal that may come at any check
(`OverLimit`); `Expire` makes rows old without a clock; digests of outputs and of answers may
overlap, because the two share a directory and a tool output may equal a response; hit counts,
`cache_rejects` and ledger retention change nothing here. `attached` are the writers whose open file
is still the one in the directory: a deleted file may be written on without anyone seeing it.
`raw`, `legacy` and the trust domain in a row are history. `may` is what may happen in a behaviour:
one of the sets in `Scenarios`, chosen at the start. It lets one run ask different questions of
different circumstances, and properties that need one say so: `RowsBacked` speaks of scenarios
where no cleanup overlaps a store, `TornIsBeingWritten` of those without kills and write errors, `MadeByOne` of those where
no cleanup overlaps a store, failing statements included. What `MadeByOne` does not say is that nobody has come to
use the blob an undo deletes: the code does not look (`UndoSparesOthers`, section 3), which is why `RowsBacked` and
`ReductionKept` except failing statements and inserts under way.
`Idle` picks a slot with CHOOSE for a job that is not looked at; the choice is overwritten by `Begin`, and
symmetry is sound because no guard reads it.

### LedgerSchema

An open reads the version once, then applies version after version: its ALTERs, then the INSERT of
its number, each a transaction. Versions 8 and 9 belonged to tables that moved elsewhere and add no
columns. `Init` covers every database whose versions were marked in order, an empty one, and that of
a newer release.

### ConfigStore

Files are inodes, because `config.tmp` is shared by all writers of `config.toml`: a rename installs
whatever inode has the name, also one another process is writing. The content of a configuration
is what the program tells apart: name of the default integration, number of integrations, URL.
`Fill` may leave `Torn` when two texts of different length end up in one inode. `Read` is check and read
in one: `config.toml` is never removed (`StoreInv` proves what that needs). A `Torn` file does not parse: one
that was truncated and not written is empty, and `schema_version` has no default (`toche_config.rs:14`). A copy or write
cut off at the end of a line could leave a prefix that does parse, as a configuration without its last sections; that
is abstracted away: files of this size are, as a rule, written in one call. `remove_file` failing and
file permissions are not modelled. The confirmation prompt is not there: once the questions are
answered everything is resolved and setup does not ask. `--force` is not there: it is never read.
`ClearLock` is the user following the message that setup prints about a stale lock. `scene`, chosen at
the start from `Scenes`, is the kind of directory and what may go wrong there; the properties of
setup speak of directories without `profiles.toml` (`NoMigration`), `LegacyKept` of those of 1.0.x.

### ClientConnect

The settings are the two URLs Toche owns and one value for everything else. `backup` is copied in
place, `noted` is `pre_toche_url.txt`. The user, and Claude Code, edit in place (`EditOther`,
`EditUrls`), between commands or in the middle of one, as the scenario `may` of the behaviour says.
`mine` is history: the URLs the user chose last. The env object holds only the URL; comments of a JSONC file (lost by every
rewrite) are not modelled; the user does not remove `settings.json`. `Begin` of a connect comes after
the gateway has answered `/ready`. `AtOnce` bounds the commands that run at the same time.

### ManagedLaunch and CodexConnect

A launcher `l` asks 8743 for `/health` and either joins what answers or goes on to `port_is_occupied`,
which asks twice more and then binds the port itself (`TryBind`, `DropProbe`): for that moment the probe
is an occupant that other launchers and runtimes meet. `Poll` is one of the 30 rounds; `MaxPolls` is
small because nothing but their number depends on it. `launch[l].child` is the handle with
`kill_on_drop`, so every error return after `Spawn` goes through `Bail`, which ends the child. A killed
launcher runs no destructor (`LauncherDies`). `server[r]` loads the configuration twice, as `build_router`
and `serve` do, so an edit in between is seen by the second. Strangers on the port differ by how far
they answer: they never do (`mute`), not in HTTP (`raw`), not `/health` (`http`), everything (`impostor`).
Requests are one step, since what they read is the occupant of the port at one moment; a mute occupant
keeps a request waiting, for the client has no timeout.

`CodexConnect` says of `config.toml` what the program tells apart in its text: the key it owns, the first
URL of a table (which the search for the original URL also finds, `codex/discovery.rs`), whether the
gateway's address is mentioned anywhere, whether it parses, and the rest. Commands run one at a time
there: what two at once do to a backup is the question `ClientConnect` asks of the same steps. `top` and
`table` are history: what the user chose last.

### LineFilter, RequestBody, RequestPath, Resolution

A line is the word that the regular expressions tell apart, its length, its escape sequences and
whether it was cut: that is all a filter looks at. `ApplyFilter` is the pipeline in its order, and
`LossIsTold` compares its report with the lines the selection stage had, which is a definition of loss
that does not know of limits. A body is its messages with their blocks; a text part is a sequence of
lines, so that the reducer works on what the filters return. `ReduceBody` takes the number of the blob
that cannot be stored, and gives the whole body back then, as the caller of `reduce_body_at` does. SHA-256 is
injective. `Percent` is integer arithmetic; the code divides as f64 and may be one less. The wording of an
instruction is one line. `RequestPath` has a step for each stretch of the handler that can fail by
itself; between two turns everything stored stays, and the later turn is compared with the earlier.

`Resolution` keeps of a name what makes two names equal: its base, capitals and outer space. `Edit` is
the user who removes an upstream or a policy from the migrated file, or moves a secret to the
environment.

### AnswerPath

A body is chunks with a size and what they contain. `CheckLength` is the only use of a Content-Length;
`ReadChunk` compares before it appends. `BreakOff` may come before any chunk; for a request it is an
error, for an answer the end (`routes.rs:100`). The look at an answer is a look at its text, so a chunk has a form:
whether an `event: ` line is there, whether it begins with `data:`, whether its data follow `data: ` with a space,
whether its JSON is compact, whether the type comes first in its block. `LooksLikeSse` takes any text with "event: " or
beginning with `data:` for a stream (`inspect.rs:36`); `ShowsTool` sees a tool call only after `data: `, in compact
JSON, with the type first (`inspect.rs:51`, `62`, `67`); `ShowsText` takes compact JSON of a text block anywhere
(`inspect.rs:84`). So a stream written otherwise hides its tool calls, and `ReplayIsSafe` claims nothing of it: it
speaks of tool calls as the Messages API writes them (`Documented`), whatever the other chunks look like, and of JSON
answers, which are parsed. A chunk is a whole block with its lines; what is cut off in the middle of one counts as
not come. `facts` has a
static for each of the two processes, as `continuity/observer.rs` has when the gateway and the command
are not the same one.

### RuntimeIdentity

`LookForIdentity` is the read; `CreateIdentity` and `FillIdentity` are the two halves of `std::fs::write`,
which truncates first. Nothing keeps starts apart (the port is bound later), so a scene may let them
overlap (`together`), be killed (`crash`) or meet a file that cannot be read or written (`io`), which the
code ignores.

### Usage

`AnswerCall` is the end of a handler: how the answer was found decides the columns of the row, whose time is
that of the task (`routes.rs:821`). `RecordRequest` is the INSERT; `RecordIsLost` every way not to get there.
`QueryTotal` to `QueryEntries` are the queries of `toche stats` in their order, one action each and `QueryModel` once
for each model that was listed; the ledger changes between any two. `stats.changed` remembers what happened
in between and is only there for the property. Days stand for times: a cutoff lies somewhere in its day.

### Checkpoints

`ReadHead`, `ReadWatched` and `InsertCheckpoint` are the three steps of `CheckpointDb::insert`; `EditProject` commits, switches the
branch, edits a watched file or another. A tree is what was done to it, counted, so that nothing returns to
what it was. `then` and `nth` of a row are not stored and only there for the property.

`Request` puts these side by side: a behaviour follows one of them and leaves the others idle. They share
no state that matters here (what concurrent requests do to shield, cache and blobs is in `Gateway` and
`SafeCache`), and a sum of their states is much smaller than the product.

## 3. Runs

Passing runs, which also fire every action between them:

| run | shows | bounds |
|---|---|---|
| `store` | no lost wake-up, one message per channel, refinement of `SingleFlight` | 5 callers, 2 keys, 2 responses: two flights, each with a leader and a waiter, and one caller that comes late |
| `gateway_safety` | permits, one upstream call per key, whose answer a waiter gets, who ends a flight | 3 requests, 2 keys, 2 responses, 1 permit, all faults: leader, waiter and a request of the other key compete for the permit |
| `gateway_live` | every admitted request ends, save the waiters of a leader that failed | 3 requests on one key, 1 permit, all faults |
| `cache` | a blob of the reducer is never deleted or taken over; every row has its blob when cleanups do not overlap stores; without kills and write errors a file is incomplete only while it is written; a failed insert deletes the file it created and no other insert's; rows never exceed `max_entries - 1 + permits` | 2 handlers, 3 slots, limit 1, 2 permits (the overshoot happens), one digest that is output and answer, 2 workspaces; five scenarios: kills and failing writes without and with cleanups while the gateway runs (rows expire in the first), failing statements with them, failing statements with kills, and an edit of the project (`Edits`; rows of the edited project are there from the start, so an edit also makes a stale row valid again) |
| `schema` | an open ledger has every column, a newer one is never used; while nothing has failed a partly applied version has its owner, and if nothing ever fails version 11 is reached | 3 connections, up to 2 failing statements or kills |
| `config` | rollback copy, restoring, success, profiles that are never lost, and a migration that gets done | 2 setups and a command, failing operations and kills, on an empty directory, one with `config.toml`, and one of 1.0.x, where the copy back may fail too; for the migration 3 fair commands without faults, without and with a backup of an earlier one |
| `connect` | settings that do not route through Toche are the user's last; nothing else is lost | 4 commands in turn, 2 edits, 2 URLs; six scenarios: kills and failures without and with edits of the rest, all edits without faults, the backup removed, edits in the middle of a command or of a connection |
| `clients` | a launch ends and leaves neither runtime nor probe; the runtime of a launcher stays while its client runs; Codex gets its URL back, and nothing else of its file is touched | 2 launches at once with strangers and missing executables or with kills; 1 launch beside a runtime of the user, an impostor, edits and kills; 4 commands for Codex with 2 edits under five sets of faults and edits; `MaxPolls` 2 |
| `request` | the report of a filter is its loss; markers give the original back; one flight key, one question; cached prefixes stay; limits to the byte; what is stored of a stream has no tool call as the Messages API writes it, and of a JSON answer none at all and the whole; a migrated default resolves to what it was; one identity over restarts; the tables of a report add up; the checkpoint shown is the last, and stale if it says so | every mixture of limits 0, 1, 2 or none on texts of up to 4 lines; conversations of up to 3 turns and pairs of like requests, under the modes, bypass headers, and a failing store or ledger; bodies of up to 4 chunks against limits around their length, breaking off anywhere; answers in JSON with and without spaces, streams as documented, without the space after `data:` or `event:`, with spaces in the JSON or another key order, in all chunks or only in those with tool calls; 2 profiles in all spellings; 3 starts under every set of `together`, `io`, `crash`; 3 calls of 2 models in a report, or 2 calls over 3 days with a retention of 1; 3 overlapping saves in 2 projects with 2 edits, deletes or a git that fails |

Why the bounds are enough: the hazards are between two actors and a third that comes later, and
each instance has those. Keys, URLs and responses come in twos so that a wrong one can be told from
the right one. Steps of three processes are bounded by the programs themselves, so no counter is
cut except `MaxFaults` (LedgerSchema), `MaxEdits` (ClientConnect), `MaxCommands` and `MaxChanges`
(CodexConnect) and `Edits` (SafeCache). The limits of a filter interact by pairs (head with tail, either with the
maximum), so 0, 1, 2 and absent on four lines has every order of them and of the length. CHECK_DEADLOCK is
off where all processes may be done.

The types of `Gateway`, `SafeCache`, `LedgerSchema`, `ConfigStore`, `ClientConnect` and `CodexConnect`, and `PendingIsUnsent`, `SendOnce` and
`NewerRefused`, are theorems (section 5) and no longer in a run.

Three runs find a violation. Each checks one sentence that the documentation or a comment says and
the code does not do; the findings in `PROJECT.json` quote it:

- `waiters_wake`: a leader whose upstream call fails leaves its flight behind; its waiters, and every
  later identical request, wait for ever.
- `cache_orphans`: a cleanup that scans between two statements of an insert deletes the blob of the new
  row.
- `schema_partial`: a kill between ALTER TABLE and the INSERT of its version leaves a ledger that no later
  open accepts.

More sentences that the code contradicts were met on the way. Those below are formulas at the end of
their module, each with an instance in which TLC refutes it (`tlc -config <cfg> <MC module>`):

| formula | instance | what the source says, and what happens |
|---|---|---|
| `NoStaleFlight` | `MCGatewayStaleFlight.cfg` | `CHANGELOG.md:104` "Leader panic in the flight registry no longer leaves a stale flight entry": no guard removes the entry when the handler unwinds |
| `StampedAsAsked` | `MCSafeCacheStamp.cfg` | `README.md:104` reuse "when the project and workspace fingerprint match": the fingerprint of a new entry is taken after the response has arrived (`routes.rs:711`) |
| `ReplaySameDomain` | `MCSafeCacheDomains.cfg` | `docs/ARCHITECTURE.md:207` "Different trust domains never share: ... Persistent safe-cache entries": the lookup (`cache_db.rs:193`) has no trust domain |
| `ReplayWhole` | `MCSafeCacheShared.cfg` with it | `evidence/M17-sonnet-verification.md:323` "never partial": `AlreadyExists` (`storage.rs:69`) is taken for complete |
| `RawRecoverable` | `MCSafeCacheShared.cfg` with it | `docs/TOCHE_CONSOLIDATED_PLAN.md:271` "Every reduced result can recover its byte-identical original": storing it again truncates it first (`storage.rs:40`) |
| `SharedIsNoCandidate` | `MCSafeCacheShared.cfg` | the test comment at `cache_db.rs:976`: a blob the cache stored first and the reducer second becomes deletable |
| `LegacyKept` (SafeCache) | `MCSafeCacheShared.cfg` with it | `README.md:229` legacy blobs are "protected from automatic deletion": not once the cache has stored the same content (`cache_db.rs:218`) |
| `UndoSparesOthers` | `MCSafeCache.cfg` with it (as PROPERTY) | `docs/TOCHE_CONSOLIDATED_PLAN.md:271` again: a failed insert deletes the blob it created (`routes.rs:735`), which the reducer, or another insert that met `AlreadyExists`, has come to use |
| `ConfigWhole` | `MCConfigStoreShared.cfg` | `config/utils.rs:15` "Atomically write": all writers share one temporary file |
| `MigrationAllOrNothing` | `MCConfigStoreHalfMigrated.cfg` | `M03_CONFIG_DESIGN.md:174` "either config.toml is written AND backup created, or neither": a kill between the two (`migration.rs:52`) |
| `MigrationKeepsConfig` | `MCConfigStoreOverwrite.cfg` | the comment at `migration.rs:41`: a migration that has looked for `config.toml` before a setup wrote it replaces what the setup has just applied |
| `BackupIsUpstream` | `MCClientConnectTwoAtOnce.cfg` | `CHANGELOG.md:214` "preserves original upstream config": two connects at once, and the backup is of connected settings |
| `DisconnectWorks` | `MCClientConnectTornBackup.cfg` | `README.md:199` "Restore direct upstream configuration": not from a backup that a kill has left half-copied (`integrations/mod.rs:108`) |
| `EveryEditIsKept` | `MCClientConnect.cfg` with it (as PROPERTY) | nothing promises it, but `OtherIsKept` excepts it: an edit of the settings in the middle of a command is overwritten by what the command read before (`integrations/mod.rs:93`) |
| `CodexAlwaysGivesBack` | `MCClientsTornBackup.cfg` | `README.md:309` "to restore direct client configuration": the same copy in `codex/config.rs:86` |
| `ClientIsServed` | `MCClientsServed.cfg` | `README.md:161` "can use the same Toche runtime": the one that was started by a launch ends with it |
| `ReadyServes` | `MCClientsReady.cfg` | `server.rs:152` "verifies the gateway can actually serve traffic": `/ready` reads the configuration again, requests use the one read at the start |

For the formulas of `Request` the instance is `MCRequest.cfg` with that formula in place of the
properties listed there (`FactsReachCheckpoint` as PROPERTY, the others as INVARIANT):

| formula | what the source says, and what happens |
|---|---|
| `FactsReachCheckpoint` | `observer.rs:12` "CLI commands drain facts via `drain_facts`": the static they drain is that of another process |
| `StoredHasNoTools` | `inspect.rs:13`: an answer with a tool call is not cacheable. A stream written `data:{...}` without the space is taken for one (`inspect.rs:36`), but its lines are not looked at (`:51`); with spaces in the JSON, or the type as a later key, no tool call is found in it (`:62`, `:67`); a JSON answer whose text contains "event: " is inspected as an event stream, which it is not. Each is stored if compact JSON of a text block is anywhere in it (`:84`) |
| `StoredIsWhole` | a stream that broke off is stored like a whole one (`routes.rs:100`) |
| `SharedAnswerFitsAlways` | the flight key leaves the efficiency bypass out (`routes.rs:184`): a request that asked for no instruction may get the answer to one that carries it |
| `PercentIsShare` | the saved percentage of a filter that lengthens a short text (`transform.rs:135`) |
| `GroupsAddUp` | `docs/TOCHE_CONSOLIDATED_PLAN.md:243` "Explicit counters for coalesced, replayed, and forwarded requests": the groups by protocol and integration count a coalesced request as one of the upstream too (`stats.rs:80`) |
| `ModelsAddUp` | a request for the model "" has a table of its own with the sums of all models (`db.rs:318`) |
| `SavedIsNotNegative` | "Tokens saved" subtracts without a check (`stats.rs:183`): it wraps or panics after a filter that lengthened its text |
| `FilterFindsRows` | `CHANGELOG.md:75` "Stats accept `--protocol`": the filter chooses from the last rows only, and the totals ignore it (`stats.rs:45`) |
| `EveryEditIsMarked` | `docs/TOCHE_CONSOLIDATED_PLAN.md:330` "marks stale facts after conflicting workspace changes": only a commit and an edit of five files are seen (`workspace.rs:17`) |
| `DefaultIsKept` | a default whose name is padded is dropped by the migration, and of two names that differ in capitals the first is taken (`migration.rs:217`) |

`IdentityAlwaysSurvives` (`identity/mod.rs:88` "so it survives gateway restarts") is refuted the same way, by two
starts that both find no file, or by one read that fails.

And these follow from reading the code next to the sentence: `/status` reports one waiter too few
(`server.rs:205` subtracts the leader, which holds no receiver); `/v1/responses` is not coalesced, as
`docs/ARCHITECTURE.md:160` has it; failed requests have no ledger row, against `docs/ARCHITECTURE.md:290`;
`max_entries` is no ceiling (`toche_config.rs:152`); token counts are estimates from the length of a text
(`recorder.rs:36`) and classified as measured or provider-reported (`stats.rs:11`, against `CHANGELOG.md:77`); a coalesced or
replayed request has a cost of its own in the sums (`recorder.rs:46`); checkpoints are shown and deleted by their id
from any project, and a deleted last id comes again (`checkpoint.rs:85`); with a `profiles.toml.v1.bak` in place `profiles.toml` is
removed without a backup (`docs/ARCHITECTURE.md:413`); a dry run migrates (`main.rs:39`); setup replaces
all integrations by one (`evidence/M04-setup-transaction.md:133`) and ignores an answer that only
changes a URL (`configs_equivalent`); a failed copy back is reported as a restoration
(`setup/mod.rs:211`); a connect without an original URL reports "already connected"
(`claude/config.rs:25`); an empty env object stays after a disconnect (`CHANGELOG.md:216`); a
connection that the user ends by hand leaves a backup that the next disconnect restores
(`integrations/mod.rs:107`).

## 4. Fairness

- `Gateway`: weak fairness of `Handler(r)` and `LedgerTask(r)`. Tokio polls every ready task, the
  permit wait and the upstream exchange are bounded by timeouts, and the code between awaits runs
  to its end. Clients need not send anything and nothing makes them leave: `Admit` and `ClientGone`
  are not fair. Waiting in `recv()` has no timeout, which is why `HandlersFinish` has to exclude the
  waiters of an abandoned flight.
- `LedgerSchema`: weak fairness of `Step(o)`. An open is one synchronous call; `Connect` is in it,
  because the ledger is opened again for every request.
- `ConfigStore`: weak fairness of `Step(p)`: none of the steps waits for anything, and a process that
  is not killed goes on.
- `CodexConnect` (`LaunchFairness`): weak fairness of `RunServer(r)`, and of `RunManaged(l)` once `l` has been
  started: between its requests a launcher only sleeps for a bounded time. Nothing makes a user start
  one, a client end, or a stranger leave, and a mute stranger may hold a request for ever, which
  `LaunchSettles` says.
- `CoalesceStore`, `SafeCache`, `ClientConnect` and `Request` are checked for safety only.

## 5. What is proved

tlapm checks these for every value of the constants that the ASSUMEs of the modules allow: any number
of requests, keys, permits, handlers, slots, connections, setups, launches, commands, URLs, any texts,
conversations and filters, and any set of faults. Every invariant and every action property of a passing
run is a theorem; what is left to TLC is liveness (section 6).

- `CoalesceStoreProofs`: `StoreInv` (types, `PendingIsUnsent`, `NoDeafWaiter`, and that a call has one
  role) is inductive. From it `SendOnce` and the refinement of `SingleFlight`, step by step: the
  interesting case is `Resolve`, where all receivers of a channel land at once.
- `GatewayProofs`: the inductive invariant `IInv` joins the registry's invariant with `ProgressInv` (how
  far a request is decides what it has), `FlightInv` (the map holds exactly the flights of requests
  that led, and none goes missing before its owner completes it) and `AnswerInv` (what travels
  through a channel is the response of its leader). `OneUpstreamPerKey` alone is not inductive: it
  is true because a leader owns the entry of its key, which is `FlightInv`. `GatewaySingleFlight` carries
  the refinement over to the gateway, whose steps on the registry are actions of `CoalesceStore`
  (`GatewayIsStore`).
- `SafeCacheProofs`: `JobInv` (what a handler knows at each step) makes types inductive; `CleanerInv`
  (after its last scan a cleanup only has hashes the cache introduced) gives `ReductionKept` with every
  fault; `LimitInv` counts an insert from the moment it has passed the check, and bounds the rows
  for any limit and any number of permits; `BackedInv`, in every scenario where cleanups do not
  overlap stores and statements do not fail (`Offline`), gives `RowsBacked`; `WritersInv` (whose open file
  is in the directory is at its write) gives `TornIsBeingWritten`, whatever is deleted or created twice; `MakersInv` (while a cleanup runs nothing is stored,
  where they do not overlap) gives `MadeByOne`.
- `LedgerSchemaProofs`: `SchemaInv` (versions marked in order, each after its columns; what is there
  before each place of an open), then `OpenIsComplete` and `NewerRefused` for any faults, and `GapOwned`
  for as long as nothing has failed.
- `ConfigStoreProofs`: `StoreInv` (what is known of a process by where it is, that a setup under way
  made the lock file, that its rollback copy stays) holds always. In a directory without
  `profiles.toml` (`NoMigration`) nobody but the setup that holds the lock writes; `PrivateInv` says what that
  setup may therefore rely on at each step, above all that what it found is what is there, and what
  it wrote is what it reads back. From it `RollbackIsFound` and `AppliedIsInstalled`, and, where the copy back
  does not fail (`Undisturbed`), `TornHasRollback` and `FailedSetupRestores`. In a directory of 1.0.x
  `LegacyInv` (whoever removes `profiles.toml` has seen the backup) gives `LegacyKept` with any number of
  commands and setups that migrate at once, any faults and kills. That setup's properties need
  their conditions is what `MCConfigStoreOverwrite.cfg` and `MCConfigStoreShared.cfg` show.
- `ClientsProofs` is about `ManagedLaunch` and `CodexConnect` together, since they are one specification.
  `LaunchersInv` says of each launcher, by the request it waits for, which of its child, its runtime
  and its probe can exist; with it `NoOrphan` for any number of launchers and strangers, and
  `OwnRuntimeStays`, an action property, from what each step may do to the port (`PortIsLeft`).
  For Codex, `DocInv` relates the text that a command holds to the file under it, which gives the types
  and `CodexOwnsOneKey` with all faults. `CodexGivesBack` has three circumstances and no invariant
  that fits all of them: `FaultsInv` (the user keeps to the URLs; whatever fails, the backup or the
  file has the URL), `EditsInv` (nothing fails, but the URLs change: a backup that is left over from a
  file that broke has to be taken for what it is), `RemovalInv` (the backup may go: the note has
  what to put back, which may be the URL of a table). Each is inductive together with `DocInv`, one step
  per action, over lemmas that say once what an action does (`BeginsIs` to `UserIs`).
- `ClientConnectProofs`: `TypeInv` holds for any number of commands at once. The rest is for commands that
  do not overlap (`AtOnce = 1`, which is what the property needs: two overlapping connects refute
  `BackupIsUpstream`). `SoleInv` says what a process may then rely on: the temporary file is its own and
  holds what it wanted, the settings are still direct when a connect replaces them, what a disconnect
  writes does not route through Toche, and what is written has the rest of the settings as it is
  (`Intact`). From it `DisconnectedIsDirect`, `OtherIsKept` and `BackupIsUpstream`, with any faults and
  edits. `UrlsInv` adds, for the circumstances that `UrlsAreMine` names (`Failing`, `Editing`, `Removing`),
  where the URLs of the user are while the settings do not show them: in the backup, in the note, or
  there are none; and that backup and note are gone when nothing routes through Toche, unless something
  failed. Crashes leave either behind, and it is harmless only because the user then keeps to the URLs.
- `RequestProofs` has its own invariant for each part of `Request`, which the steps of the others
  leave alone. `IdentityInv` (one start at a time is on its way, and writes only where no identity is)
  gives `IdentitySurvives` for any number of starts. `DeskInv` (ids are in the order of the saves and have
  a highest; what was read of a tree is no further than the tree was at the insert, nor that than the
  tree is now) gives `LatestIsCurrent`. `AnswerInv` (what has been read is how the body begins, and what is
  kept has passed the look) gives `ReplayIsSafe` for any chunks in any form: it is not about a stream being read well,
  which it is not, but about what can get past the look, broken off or taken for something else. `LoadingInv` (each upstream and policy of the configuration comes from one
  profile, identifiers are distinct if the names are, nothing is missing but what the user took out) gives
  `MigrationResolves` for any profiles; ids need no more of SHA-256 than that it is injective.
  Six more of its theorems are about what is folded over lines, blocks, chunks or rows:
  - `LossIsTold`. `FilterInv` only says that the result is that of `ApplyFilter`; the work is in the stages,
    each of which is shown to keep lines lines and to report what it omits (`LossOf`), for any limits,
    overlapping ones too. `FilterAssumption` says that a limit is a number or absent.
  - `LimitsAreExact`. `LimitsInv` adds to `AnswerInv` that what was read fits, and that whoever was refused has
    sent too much: a prefix of the chunks is no longer than the body (`SizeOfMore`). `LengthAssumption`
    is that a Content-Length is that of the body, which the HTTP library sees to.
  - `MarkersRestore` and `SharedAnswerFits`. `PathInv` says at each place of the handler how the body relates to
    the one that came: with its markers expanded it reads the same (`ReadsAsBefore`), then the same with the
    instruction put in (`ReadsAsInstructed`), and the blobs it names are stored, and at the end registered. What a
    failing step leaves is covered because the relation holds of the original too. Two requests with one key then
    have one normal form of the client's body and one policy, and so read alike.
  - `CachedPrefixStable`. `CacheInv`, beside `PathInv`, keeps for each turn how its body was made: a reduction that
    went through or failed as a whole, one instruction for the conversation, marks up to the first tool
    interaction. Before that no block is reducible, so a failure makes no difference, as long as results are in
    messages of the user (`ResultsFromUser`; nothing else is searched for them, `breakpoint.rs:69`). Beyond it a
    block becomes the same in both turns because it belongs to the same tool use: the last use of an identifier
    decides the command (`transform.rs:221`), so no message that is added may use a tool under the identifier of a
    result that is there (`UsesAreNew`).
  - `StatsAddUp`. `UsageInv` says in the middle of a report what its finished tables count of the ledger
    (`HalfDone`): all rows that were there, if none has been deleted, no others, if none has come. The
    sums over a partition of the rows are the sum over all of them.

  `TurnAssumption` and `UsageAssumption` only give types to what comes from outside: the bodies of a conversation
  name no blob when they come, and calls have numbers of tokens.

  What such a definition computes for every sequence is induction over data. The library's induction theorems cannot
  be instantiated here, so these lemmas argue by the smallest counterexample instead: a set of numbers that is
  not empty has a least element (`NatLessThanWellFounded`, `WFMin`), and the fold at that number follows from the
  one before. For that the models fold with recursive functions over the length of a sequence (`Those`, `Rewritten`)
  or with `SumFunction`.

## 6. What is only model-checked, and what is not modelled

Only model-checked:

- liveness (`HandlersFinish`, `Migrated`, `MigrationSettles`, `LaunchSettles`), which needs fairness and
  ENABLED and is out of reach of the provers used;
- the refutations of section 3: a counterexample is an instance.

Not modelled:

- *Averages and prices* of the report, in floating point; the filters by integration and trust domain, which are
  like the one by protocol.
- *Text formats* (JSON, JSONC, TOML, SSE) beyond what the properties tell apart; the clock; the wording
  of messages. A hash is taken as injective.
- *Validation* of numbers and paths in the configuration: `ConfigStore` takes its verdict as a value.
- *Usage headers* of an upstream answer.
- *Graph, doctor, status, preview, argument parsing, packaging, benchmarks*: they print what they read
  or start one other program, and keep no state.

## 7. Plan

Done, in this order: shield and request path; safe cache; ledger schema; configuration directory; Claude
Code connection; output reduction and flight key; reading and judging answers; managed launch and the
Codex connection; configuration resolution; runtime identity; usage records and checkpoints; the theorems of section 5.

Next:

1. *Codex, operation by operation*: two connects at once over the shared temporary file, as
   `ClientConnect` has it for Claude Code.
