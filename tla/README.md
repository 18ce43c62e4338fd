# Wingman: a verification development in TLA+

Wingman is a daemon that runs agent sessions: clients admit messages to a
session over HTTP, the daemon executes them one run at a time against a model
provider and local tools, and everything a client may see is durable in one
SQLite database and streamed as session events. This directory models the parts
of that daemon whose correctness depends on interleavings, lost replies, crashes
and restarts, and the algorithms a wrong answer of which would go unnoticed. The
specifications are checked with TLC on small instances; the ones marked below are
also proved with TLAPS for every value of their constants.

Line numbers in this file are of the commit that `PROJECT.json` maps.

## 1. The system

| Part | State | Operations | Talks to | Modelled in |
|---|---|---|---|---|
| store (`store/sqlite.go`, `store/aggregate.go`) | tables of sessions, runs, events, requests, grants, tool uses, model calls, messages; an append-only stream per session and its projections | one BEGIN IMMEDIATE transaction per operation on a single connection | everybody | `RunStore`, `SessionAggregate`, `SQLiteSessions` |
| memory store (`store/memory/memory.go`) | the same in maps under one mutex | the same | embedders | `MemorySessions` |
| opening and migrations (`store/migrate.go`) | `schema_migrations`, default rows | open, migrate, seed | other processes on the file | `StoreOpening` |
| session run manager (`server/session_runs.go`) | `active`, `runCancel`, `pending`, `done` under one mutex; a goroutine per active session | wake, drain, claim, execute, settle, abort, stopAndWait, resumeQueued, stop | store, handlers, broker, agent session | `SessionRuns` |
| session handlers (`server/handlers_sessions.go`) | none between requests | admit, abort session, abort run, delete | run manager, store, broker | `SessionRuns` |
| session events (`server/session_events.go`) | subscriptions per session, each with a bounded channel and an overflow signal | append and publish, subscribe, replay, follow, resync, closeSession | store, SSE clients | `SessionEvents` |
| permission requests (`server/permission_requests.go`) | `waiters`: one channel per request that is being waited for | Request, resolve, notify, reply, startup interruption | store, run loop, handlers | `PermissionRequests` |
| permission rules (`permission/permission.go`) | none | decode, merge, match, evaluate | run loop | `PermissionRules` |
| agent run loop (`agent/run/run.go`) | history, turn, message, tool uses | model calls with retries, checkpoints, tools in sequence or in parallel, hooks | models, tools, plugins, store | `ModelTurn`, `ToolTurn`, `PluginHooks` |
| agent session (`agent/session`) | history and its indexes, plugin generation, `runMu` | Run, RunStream, SetPlugins, Close | run loop, store | `AgentSession`, `AgentHistory`, `RunStreams` |
| compaction (`plugins/compaction`) | none | trigger, cut, summarise, mark | history hooks, model | `AgentHistory` |
| models (`models/*.go`, `models/providers`) | stream of parts, parse state | parse, push, merge, lower the history to a request | providers | `ModelStreams`, `ModelRequests` |
| plugin host (`pluginhost`) | processes, pending calls, health, published generation | start, call, progress, reload, retire | plugins over JSON-RPC, runs | `PluginHost` |
| MCP manager (`mcp`) | connections, tool lists | connect, list, call, disconnect, close | MCP servers, runs | `McpConnections` |
| execution scopes (`execution/scope.go`) | a scope per directory, leases, timers | acquire, release, evict, close | plugin host, MCP manager, sessions | `ExecutionScopes` |
| file tools (`tool/edit.go`, `write.go`, `apply_patch.go`) | the file system | edit, write, patch | run loop | `FileTools` |
| provider credentials (`server/codex_oauth.go`, `handlers_providers.go`) | one row, OAuth attempts | log in, complete, cancel, refresh, set, delete | issuer, store | `ProviderCredentials` |
| catalog (`server/handlers_*.go`, store) | clients, workspaces, agents | create, update, delete | store | `StoreCatalog` |
| daemon (`cmd/wingman`, `app`, `server/server.go`, `internal/daemonstate`, `internal/daemonclient`) | lock, registration, readiness, in-flight requests | serve, discover, shut down | all of the above | `DaemonLifecycle` and the phases of `SessionRuns` |
| managed service (`cmd/wingman/service.go`, `update.go`) | binary, unit, `service.env` | start, stop, restart, update | systemd | `ManagedService` |
| client SDK (`client/stream.go`) | cursor, reader | follow a session, run and read | SSE handlers | in `SessionEvents` and `RunStreams` |
| web console, generated client, remaining handlers and tools | | | | section 6 |

What is hard here, and what tests hardly reach:

* *Interleaving.* Workers, handlers, the reconciler's ticker, SSE handlers,
  permission prompters, drain goroutines, readers of plugin processes and timers of
  scopes act on the same state. Each store operation is atomic, but every reaction to
  it (publish, wake, notify, closeSession, stopAndWait) happens later and without a
  lock, and several handlers read a row, work, and write it back.
* *Lost replies.* Transactions run under the caller's context. A context that ends
  while `COMMIT` executes makes the caller see an error for a transaction that took
  effect, and the reaction never happens.
* *Crash and restart.* A run is claimed in one transaction and settled in another;
  a file is created before it is seeded; a tool has its effect before the row says so.
* *Two copies of one fact.* The stream of a session and its tables; the history in
  memory and in the store; the SQLite and the memory store; the live message and the
  final one; the published plugin and the processes.
* *Bounds.* Claims give up after `claimRetryLimit` attempts; channels overflow or
  stall; prompts, retirements and shutdowns have deadlines that race what they wait
  for.
* *Retries without a limit.* `settle` retries every error for ever, so correctness
  depends on no conflict ever reaching it.

`PROJECT.json` lists forty hazards at their lines with the properties that cover
them.

## 2. Modules

| Module | Models | Extends |
|---|---|---|
| `RunStore` | the durable run queue: `AdmitSessionRun`, `ClaimNextSessionRun`, `SettleSessionRun`, `PurgeSession`, the two listings | |
| `RunQueue` | what the daemon promises about runs: one line per session, served one at a time in order (abstract specification) | |
| `SessionRuns` | `sessionRunManager`, the message, abort and delete handlers, the reconciler, shutdown, crash, `recoverStartup` | `RunStore` |
| `SessionEvents` | the event log of a session, the broker, the SSE handler, reconnecting clients | |
| `PermissionRequests` | the prompter, its waiters, the reply handler, deadlines, grants, startup interruption | |
| `ToolTurn` | the tool calls of one assistant turn in `runTurn` and `executeOne`, the rows of `tool_uses`, the message's final checkpoint, startup repair | |
| `ModelTurn` | one run: turns, attempts and retries, checkpoints, the sink, what `runWith` persists | |
| `SessionAggregate` | the events of a session's stream and their projection | |
| `SQLiteSessions` | the write transactions of the SQLite store on a session | `SessionAggregate` |
| `MemorySessions` | the same operations of the memory store | `SQLiteSessions` |
| `SessionStores` | both stores given the same calls by handlers, runs, prompter and recovery | `MemorySessions` |
| `ModelStreams` | one streamed answer: parser of each protocol, event stream, live message, final merge | |
| `ModelRequests` | the history as it is sent to each provider | |
| `AgentHistory` | the history of a session over runs with compaction, its saves and its hydration | |
| `PluginHost` | plugin processes, their transport, health, generations | |
| `PluginHooks` | a seam of the loop with the hooks of plugins and the user | |
| `ExecutionScopes` | scopes of working directories: construction, leases, expiry, close | |
| `McpConnections` | connections to MCP servers, tool lists, calls | |
| `AgentSession` | runs, replacements of plugins and close of one session | |
| `RunStreams` | `POST /run`: loop, drain, handler, frames, reading client | |
| `ProviderCredentials` | OAuth attempts, refresh, and the settings handlers that write the same row | |
| `StoreCatalog` | clients, workspaces, agents in both stores under concurrent requests | |
| `StoreOpening` | creation, migration and seeding of the database file by processes of several builds | |
| `DaemonLifecycle` | lock, registration, serving, shutdown, discovery | |
| `ManagedService` | `wingman service` and `wingman update` on Linux | |
| `PermissionRules` | decoding, merge, the matcher, the check of a call | |
| `FileTools` | `edit`, `write`, `apply_patch`, alone and side by side | |
| `Machine` | which component a behaviour is about | |
| `Lifetimes` | `ExecutionScopes`, `McpConnections`, `AgentSession` and `RunStreams` side by side | `Machine` (INSTANCE) |
| `Ownership` | `DaemonLifecycle`, `ManagedService` and `PluginHost` side by side | `Machine` (INSTANCE) |
| `Records` | `ProviderCredentials`, `StoreCatalog` and `StoreOpening` side by side | `Machine` (INSTANCE) |
| `LoopParts` | `AgentHistory`, `PermissionRules`, `PluginHooks`, `FileTools` and `ModelRequests` side by side | `Machine` (INSTANCE) |
| `Components` | these four groups and `ModelStreams` | `Lifetimes`, `Ownership`, `Records`, `LoopParts` (INSTANCE) |
| `MCSessionRuns`, `MCPermissionRequests`, `MCSessionStores`, `MCComponents`, `MCFileTools` | instances for TLC | |
| `SessionRunsProofs`, `ModelTurnProofs`, `SessionStoresProofs`, `OwnershipRecordsProofs` | theorems | the modules they name |
| `SessionProofs` | theorems about what a session shows and keeps | `SessionEvents`, `LoopParts` (the history) |
| `LifetimesProofs` | theorems | `Lifetimes`, `PermissionRequests` |
| `FilesRequestsProofs`, `AgentLoopProofs` | theorems about the files and the requests; about tool turns, rules and hooks | `LoopParts`; `ToolTurn` and `FilesRequestsProofs` |

### RunStore and SessionRuns

`status` and `sequence` are the columns of `session_runs`; `"none"` and `"gone"`
stand for a row that does not exist yet and one the purge deleted. The agent, the
message and the schema of a run never change after admission and are left out.
`IsNextSequence` is the `COALESCE(MAX(sequence), 0) + 1` of the admission.

`worker[s]` is the place of `drain(s)` in its loop (`"idle"`: the session is not in
`m.active`), `current`, `attempt` and `target` its local variables, `cancelled` its
own context, `runCancel` and `runAborted` the registered cancel function and whether
it was called, `pending` the map of the same name. A handler that has committed and
still has to react is recorded in `wakes`, `aborting` or `deleting`. One action is one
critical section of `m.mu`, one transaction, or one look at a context. The actions
named `...ReplyLost` are the commits whose caller saw a cancelled context. `missed`
is a history variable: the sessions whose wake-up the daemon itself threw away.
A run's stream (`RunStream` until it ends) is the single action `Execute` with any
outcome the code can reach from the state of its context.

`phase` is the process: `serving`; `draining` once the root context is cancelled and
HTTP is drained; `stopped` once `runs.stop()` ran; `down`; then `recovering` and
`resuming` for `Server.Start`. A crash is possible in every phase, recovery included.

### SessionEvents

An event is its sequence number, 0 a live-only event. `log` is `MAX(seq)`;
`unpublished` holds the events whose appender has committed and not yet published,
so `Publish(n)` may take them in any order; `unheard` those that will never be
published because their appender failed after the commit or the daemon stopped.
`place`, `last` and `through` are the position, `lastSeq` and the target of
`handleSessionEvents` and `replaySessionEvents`; `buffer`, `overflow`, `done` are the
subscription. A client processes a frame when it is written and reconnects from the
last sequence it processed; a resync makes it reconnect. `ConnectAhead` is the
cursor of another database. `Limit` and `Capacity` are the page size and the channel
capacity.

### PermissionRequests

`request` is the row (one value for the pair of status and response, which
`legalPermissionResolution` ties together), `grants` the grants of the session,
`place` the position in `permissionPrompter.Request`, `waiter` its one-element
channel, `want` the resolution the prompter itself asks for, `notifying` the replies
that committed and have not yet called `notify`. `orphans` is a history variable: the
requests whose own prompter gave up on them.

### ToolTurn

`use` and `input` are `status` and `input_json` of the rows of `tool_uses`, `message`
and `part` the stored assistant message and the states of its tool parts, `run` the
row of the run. `turn` and `next` are the place of `runTurn` (its proposal loop, the
interruption of what was proposed, the batch, `finalizeToolTurn`), `place[c]` that of
`executeOne` for call `c`, `args` and `verdict` its `call.Args` and the status
`settleToolUse` is called with, `reported` the entries of `results`, `failing` whether
`runErr` is set. Inputs are the model's or a hook's; what a tool or a hook answers,
and what the rules and the prompter decide, is any answer they can give. Writes under
the run's context can succeed, fail, or commit with the reply lost; writes under
`context.WithoutCancel` can succeed or fail. A same-status write cannot occur (no
status is written twice by one call) and revisions of the message only grow, so
neither is modelled. `executed` is a history variable, the effects of the tools;
`found` another, whether recovery found the run running.

### ModelTurn

One run. `pc` is the place of the goroutine in `runTurn`, `callModel` and `runWith`
(`"first"` the first checkpoint, `"start"` to `"wait"` the attempts, `"stream"` to
`"assembled"` the answer, `"retain"` the failed message, `"closing"` and `"persist"` the
end), `then` what follows `retain`. `rows` and `calls` are the stored messages and model
calls, `messages` what the history holds, `events` the queue to the sink. A store call
returns nothing, an error of its own (at most `Faults`), or the cancellation, in which
case it may have committed (`lost`). The execution of the tools is one step; `ToolTurn`
has it in detail. `limit` is `Config.MaxSteps`, and 0 no limit: a session sets none
(`runWith`, `session.go` 735 to 761), so its run goes on while the model proposes tools. A
run without a limit that has had `MaxTurns` turns stays at the top of its loop, where it
can still be cancelled.

### SessionAggregate, SQLiteSessions, MemorySessions, SessionStores

An event is a record of its kind and the snapshot that it carries; the fields that the
projection compares are kept: of a message its run, index, role, revision and parts, of
a model call its run and its place (step and attempt), of a tool use its run, part and place
(step and ordinal). So a message that takes another's index, a revision that changes the
role, a second call or use at one place are states the models have, and both the
transactions (`SaveMessage`, `UpsertModelCall`, `SaveToolUse`) and the projection ask about
them as the code does. `ProjectSessionAggregate` is `project...` of
`aggregate.go`, a fold over the stream; `Projects` is whether it succeeds. Each
transaction is a function from the database before to the database after, and a refused
call returns the database unchanged. What one transaction or call writes event by event
(`insertEvents`, `memAppendEvents`) skips a grant that is there: the SQLite store looks for
it at each event, the memory store where the call began. The work that recovery interrupts
comes in a list, of which nothing but the requests' order is known. `SessionStores` hands
every call to both stores, with a client's stale version (`seen`), a worker that goes on
after the purge, and recovery. A part belongs to the message it was made
for: the SQLite store refuses a part of another message (`PartsAreFree`), the memory store
does not ask for it in a later revision (`memory.go` 1116 to 1136), and no caller does it, so
`Checkpoint` names no such part. Bounds are those of the constants and the length of the
stream (`Limit` in `MCSessionStores`, per mix of callers).

### The sixteen component machines

Each of these modules has its own state, `Init`, one action per operation, handler,
callback or goroutine step, and its properties. They meet the rest only through calls
that return, so `Components` puts them side by side and one run checks them: `machine`
says which component a behaviour is about, and the variables of the others are 0. The
constants and variables of a component carry its name there (`ScopeCallers`,
`scpOwned`), and the INSTANCE says which is which. `Lifetimes`, `Ownership`, `Records` and
`LoopParts` are the groups about which theorems are proved. The headers say what each
variable stands for. In short:

* `ModelStreams`: a provider says any sequence of events that its protocol allows; the
  parser (`parse...` of `httpmodel/model.go`) turns them into parts, the channel into
  the live message; `End` merges the final message. A text is the sequence of the
  fragments it came in.
* `ModelRequests`: a history grows by turns, settlements and legacy messages;
  `NormalizeMessages` and the four `Body` operators lower it.
* `AgentHistory`: `messages` is the runner's history, `stored` the rows by index; a
  checkpoint, a compaction marker (saved by the drain), a failed save, a cancellation, a
  crash and a new session that hydrates are actions. A summary is the set of messages it
  tells of.
* `PluginHost`: reader, exit watcher, health loop, tool calls, reload and close. Staging
  starts one process after the other and may fail after any of them; what was staged
  (`lifecycle.staged`) is in service only once it is published.
* `PluginHooks`: a behaviour is one pass through one seam; a value is the sequence of
  the names of what was there and of the hooks that wrote.
* `ExecutionScopes`: an object is one `ownedScope`; it outlives its place in the map.
* `McpConnections`: generations of connections; the holder of `lifecycleMu` is explicit.
* `AgentSession`: `runMu`, `mu` and the staging outside of both are explicit, and so are the
  callbacks of sinks, which may time out and still run (`dispatch`).
* `RunStreams`: loop, drain goroutine, handler with its defers, frames, client.
* `ProviderCredentials`: refresh tokens are numbers in the order of issue; `disturbed`
  and `reused` are history variables.
* `StoreCatalog`: requests stop between their statements; `backend` picks the store.
* `StoreOpening`: a migration is its version and checksum. A process reads the applied rows
  at once, then compares them one by one and writes the checksums that are missing. In the
  run there are three processes, of a release and of two later builds that differ.
* `DaemonLifecycle`: processes, the lock, the registration, one client that waits.
* `ManagedService`: commands interleave at each file operation and `systemctl` call;
  the unit is known by the command that wrote it.
* `PermissionRules`: the matcher turn by turn with its indexes (`turn`), which is also what
  `match` and so each rule uses; configurations are records of the three forms that the
  decoder accepts.
* `FileTools`: each read and write of a file is a step, which may fail once; a file is
  a sequence of lines, the last of which may lack its end.

## 3. Runs

| Run | Question | Properties |
|---|---|---|
| `session_runs` | two runs of a session, a worker, all handlers, lost replies, one shutdown or crash, recovery, with fairness | `TypeOK`, `OneRunning`, `StartedInOrder`, `RunningIsOwned`, `SettleCanCommit`, `NoLostWakeup`, `ImplementsRunQueue`, `EveryRunSettles`, `DeleteReturns` |
| `session_runs_abort` | does an abort of a named run reach that run? (violated) | `AbortNamesItsRun` |
| `session_events` | three events in any order of publication, overflow, gaps, two breaks or restarts, a cursor of another database, a purge | `InOrderOnce`, `NothingBetween`, `SynchronizedIsTrue`, `EventsArrive`, `StreamsEnd` |
| `permissions` | two requests with overlapping resources, every race | `OutcomeIsStored`, `ConsentBeforeUse`, `GrantsWereGiven`, `PendingIsAwaited`, `PromptReturns` |
| `tool_turn` | two calls in both modes, hooks, refusals, cancellation, a store error, two crashes | `EffectIsRecorded`, `CompletedIsSettled`, `NothingOutlivesTurn`, `RecoveredIsSettled`, `RunSettles` |
| `tool_turn_declined` | does a declined call settle as declined? (violated) | `DeclinedSettles` |
| `model_turn` | two turns with two attempts, one store fault, a cancellation at any point, a limit of one turn, of two, or none | `RetriesAreRecorded`, `NothingUnderWay`, `HistoryIsStored`, `SuccessIsWhole`, `RunReturns` |
| `session_stores` | what runs, clients, prompts and recovery do to a session in both stores | `StreamReplays`, `TablesMatchStream`, `StoresAgree`, `NoLostRename` |
| `components` | the sixteen component machines | see below |
| `plugin_progress` | can a progress callback outlive its run? (violated) | `ProgressFindsRunOpen` |
| `hydrated_history` | are the rows of a session its history once a compaction's marker is saved? (violated) | `HydratesHistory` |
| `parallel_edits` | do edits that the loop runs side by side and that succeed all take effect? (violated) | `NoEditIsLost` |

The properties of `components`, each a conjunction over the machines it names:

| Property | Conjuncts |
|---|---|
| `PartsKeepIdentity` | `ModelStreams`: when the final message of an answer that was not cancelled replaces the live one, each part of the live one is in it, at some place, under its id and of its kind, with what was shown of it as a prefix; no two parts have one id; a tool call has the arguments that were streamed for it |
| `HistoryIsKept` | `AgentHistory`: as long as a run lasts, no turn and no compaction makes the model forget what it was shown or told; after runs that all ended well the rows are all messages, without a gap and, but for the markers of compactions, in order |
| `RetiredForGood` | `PluginHost`: a plugin that left service does not come back, takes no new call, and is stopped under none |
| `AnswersAreRight` | `ModelRequests`: each call of a request, also of an answer with several, has its one result; `PermissionRules`: the last rule that covers a resource decides; `FileTools`: what edits and patches that succeed report is what the files say; `PluginHooks`: the value of a seam is what all of its hooks wrote. The exceptions are below |
| `UsersKeepTheirs` | `ExecutionScopes`: a leased scope is open, an idle one is evicted; `McpConnections`: a connection is published, in the hands of one operation, or closed, and a running call keeps it until the deadline of its retirement; `AgentSession`: a run keeps its plugins, which are cleaned up once; `RunStreams`: the stream of a run has one end, after all of its events, and the session closes after its loop. The exceptions are below |
| `RecordsAreSound` | `ProviderCredentials`: a stored credential came from a login that completed, and its refresh token is spent once; `StoreCatalog`: names are unique, references hold, and what was deleted stays deleted; `StoreOpening`: a migration is committed once, an open store has those of its build, and the default agents if its opener found no file. The exceptions are below |
| `DaemonIsOwner` | `DaemonLifecycle`: the registration is the lock holder's, the store closes after its work; `ManagedService`: binary, unit, credentials and service agree with the commands that reported success |

What these properties leave out, by name, because the code does not do it:

* *Rules.* The matcher compares a character of the pattern with the value before it looks
  whether it is a `*` (`permission.go:216`). In a value that holds a `*` the first `*` of the
  pattern is therefore spent on it, and the rule `rm *` does not cover `rm *.txt`. Of such a
  value, action or resource, a rule covers what the matcher takes (`Meets`).
* *Hooks.* The nil of the user's hook, the nil of a lone hook of a plugin, and a rewritten
  history as long as the one before it (`NilPassedOn`, `Leaves`, `TakenForUnchanged`).
* *Files.* A patch that moves a file onto itself writes it, writes it again, removes it and
  succeeds (`apply_patch.go` 299 to 308, against its Description, 26 to 29): `MovesAway` says
  that a patch has no such section. Calls side by side on one file are the run
  `parallel_edits`.
* *Scopes.* A scope that is stored after its last waiter gave up (`scope.go:333`) is in no map
  any more: `abandon` has cancelled its context, and nothing ever closes it.
* *Sessions.* A callback of a sink that timed out may still run when its generation is
  cleaned up, against `session.go` 306 to 308; any other is waited for
  (`CallbacksAreWaitedFor`).
* *Credentials.* The settings handlers write the row they have read without the manager's
  lock: `disturbed` marks the behaviours in which one wrote over a row that had changed.
* *Catalog.* Of two updates of one agent or workspace that read the same row, the later one
  wins with all its fields. Nothing promises more: the rows have no version.
* *Opening.* A process that dies after the migrations and before the seeding leaves a
  database without default agents, and two first openings can seed twice.

### The violated runs

`AbortNamesItsRun` states what the API reference says of
`POST /sessions/{id}/runs/{runID}/abort`: it aborts the run that is named. The
handler reads the run as running, then calls `runs.abort(sessionID)`, which cancels
whatever run is registered by then. If the named run settles and the next one is
claimed and registered in between, that one is cancelled, and the handler answers
202 for a run that had ended.

`DeclinedSettles` states what `concepts/tools.md` says: hooks can rewrite the input,
validation and permissions run after that, and calls that are unknown, invalid or
denied settle as `declined`. `executeOne` settles such a call with the rewritten
arguments, and `SaveToolUse` accepts a changed input only with the status
`authorized`. The write is refused, the row stays `proposed` until the next start
interrupts it, and the whole run fails although the call was only declined.

`ProgressFindsRunOpen` states the comment on `emit` (`run.go:1401`), safe to call from
any goroutine. The reader of a plugin process takes the progress callback of a pending
call under its lock and runs it without; if the call is cancelled in between and its run
ends, the callback sends on the closed channel.

`HydratesHistory` states the comment on the event of a compaction's marker
(`compaction.go` 333 to 338): without it the transcript on disk drifts from the one in
memory. With it, it still does. In memory the marker stands before the tail it keeps; on
disk it has the next free index when the drain saves it, after messages that were
checkpointed before it. A session that hydrates these rows has the tail before the marker,
and `modelFacingMessages` hides it from the model. One compaction in one run that ends
well is enough.

`NoEditIsLost` states the comment on `Tool` (`tool.go` 33 to 37): tools that mutate shared
resources, the file system among them, should opt into sequential execution. None of
`edit`, `write` and `apply_patch` does, so two edits of one file in one answer run side by
side, both read, both write, both succeed, and the first write is lost.

### Bounds

Sessions share nothing but the store and the phase of the process, so the runs use
one session; the proofs cover any number. Two runs are the least with which order,
overtaking and a wake-up during the drain of another run matter. `ClaimRetryLimit`
is 2 (3 in the code): one retry and one giving up. One stop is enough for a
shutdown or a crash at every point followed by a recovery; a crash during that
recovery is the crash of a state with the same tables. In `session_runs` only the first
run can be aborted by its name (`Abortable`): which of the two is admitted first is open, so
both places in the line meet an abort. No symmetry is used there, since the run checks
liveness. In `model_turn` the limit is none, one or two steps, chosen at the start. The event run uses a channel of 2,
pages of 1 and three events, so that an overflow, a gap and a replay of several pages all
occur. Two requests that share a resource are the least with which a grant of one covers
part of the other. Two tool calls are the least with which a sibling can fail first or
never begin; one store error separates any two writes, and two crashes put one into
recovery itself. Two turns show what the next turn finds, two attempts one retry and the
last one; the loop treats all later ones alike. The proofs need none of these bounds.

`session_stores` bounds the stream by mix of callers (`Limit` in `MCSessionStores`): before the
last call seven events of messages and tool uses, seven of model calls, eight of two requests
asked and answered, five of two clients that rename, move and purge, and five of all callers
at once. Two messages, parts, calls and uses compete for places: an index of each role and one
index that both roles may take, two attempts of one step, two ordinals of one step. The ids of
messages, calls and uses are interchangeable, and the symmetry over them is sound there, as
nothing temporal but action properties is checked.
The components are bounded in `Components.cfg` and `MCComponents`: two or three
actors that can race (callers, processes, commands, requests), objects enough for one to
be replaced twice, and sequences of three or four elements where the code compares
neighbours (patterns and values of three characters, four events of an answer). The requests
to providers have two calls, in one answer or in two, whose ids are interchangeable
(`CallSymmetry`).
`ManagedService` was also checked with three commands.

### Fairness

Goroutines that can run do run. The stream of a run ends: model calls and tools are
bounded by their timeouts or by the cancellation of the context. `Claim` is strongly
fair: a claim may fail, and the reconciler wakes the session again for as long as a
run is queued, so the store answers some attempt. `Settle` is weakly fair: its retries
have no limit. The reconciler's ticker fires, and a supervisor starts the daemon
again. A client is obliged to nothing, except that in `SessionEvents` it reconnects
when its stream ends, which is what the SDK's comment asks of it. In
`PermissionRequests` only the prompter is fair: it has a deadline of its own.
In `ToolTurn` the goroutines of the turn and the recovery are fair: tools have
timeouts or heed the context, and a prompt has its deadline; crashes and
cancellations are not obliged to happen. In `ModelTurn` the loop and the sink are fair:
a provider's stream ends or is cancelled with the context. The component machines state
safety only.
`CHECK_DEADLOCK FALSE` is set where a behaviour may end: an event stream
with all its events delivered and nobody connecting, permission calls that have
all returned, a turn whose run is settled, a stream of a session at its bound, a
component that is closed or has done its one pass. The run queue never stops: its
reconciler ticks.

## 4. Proofs

The proofs about the run queue hold for any sets of sessions and (finitely many) runs,
any `SessionOf`, any `ClaimRetryLimit > 0`, any number of stops. Their assumptions are
the named `ASSUME`s of `RunStore` and `SessionRuns`.

`SessionRunsProofs` begins with the store alone. `StoreStep` is the disjunction of the
operations that change the tables; `StoreInv` is `OneRunning`, `StartedInOrder` and
what they need to be inductive: a run has a positive sequence exactly when it was
admitted, no two runs of a session share one, and the runs of a purged session are
gone. `StoreStepPreserves` is the induction step, with one lemma per operation.
`StoreStepIsQueueStep` shows that each operation is a step of `RunQueue` under the
mapping of section 2 (or leaves the mapped state alone).

The rest of `SessionRunsProofs` lifts this to the daemon.

* `TypeCorrect`: `Spec => []TypeOK`.
* `RunsAreSerial`, `RunsAreOrdered`: `OneRunning` and `StartedInOrder`. Every step of
  the daemon is a `StoreStep` or leaves the tables alone.
* `SettlementsCommit`, `RunsAreOwned`: `SettleCanCommit` and `RunningIsOwned` need
  `WorkerInv`: a worker holds a run exactly in the places from `claimed` to
  `settling`; the run it holds is running or its session is purged;
  a cancelled worker belongs to a purged session; nobody works while the process is
  down or recovering; outside shutdown and recovery each running run is held. The
  properties alone are not inductive: `SettleCanCommit` says nothing of a worker
  that has claimed and not begun to settle, nor that an abort of a queued run
  cannot hit the run it holds.
* `WakeupsAreKept`: `NoLostWakeup`, from the invariant that a session with queued
  runs has a worker that will look again or a wake-up on its way in every phase in
  which wake-ups count.
* `DaemonImplementsQueue`: `Spec => ImplementsRunQueue`.

The invariant `IInv` these rest on was checked with TLC on the instance of
`session_runs` before it was proved.

`AgentLoopProofs` proves the four safety properties of `ToolTurn` for any number of
calls, store errors and crashes, from `TurnAssumption` alone: `EffectsAreRecorded`,
`CompletedMessagesAreSettled`, `TurnOutlivesCalls`, `RecoveryIsComplete`, and
`TypeCorrect`. They speak of durable records, and none of them is inductive: that a
row says `started` when `Execute` is called depends on the place of the goroutine
(`StartedIsRecorded`), that a completed message has terminal rows on the calls being
done when the batch ends without an error (`DoneIsTerminal`, `LeftIsDone`), that
proposals, interruptions and recovery disturb nothing on the batch being idle then
(`Order`), and that recovery is complete on what each of its steps has established
(`RecoveryInv`). `SafetyStep` has one step per action. `IInv` was checked with TLC on
the instance of `tool_turn` first.

`SessionProofs` proves the delivery of events for any set of clients, any
capacity, page size, number of events, breaks and restarts, from `EventsAssumption`. The
three properties speak of what a client processed; to keep them, the invariant says where
each handler stands: cursors, targets and what is in a channel are committed
(`Committed`), `last` is the client's cursor while the handler streams and on the right
side of `through` in a replay (`Position`), and a handler that has read its watermark
subscribed before (`Subscribed`), which is what leaves no room between replay and channel.
`Invariance` gives `InOrder` and `Between`; `Synchronized` is the
action property, from the same invariant.

`LifetimesProofs` begins with the permission requests. It proves that prompters and repliers agree, for any requests,
resources and crashes, from `CallsAssumption`. `OutcomeIsStored`, `ConsentBeforeUse` and
`GrantsWereGiven` become inductive with: a call that has not asked has no row (`NotYet`),
a notification in flight and a value in a channel say what the row says (`TrueNews`), a
prompter that resolves its own request wants no approval and fetches only a resolved row
(`OwnResolution`), and `PendingIsAwaited` holds also during shutdown (`PendingIsHeld`). `ResolutionIsFinal` is an action property that no run checks:
it is what every one of them rests on.

`ModelTurnProofs` proves the four safety properties of a run for any number of steps,
attempts, stream parts and faults, from `BoundsAreNatural`. Each promises something of a
run that has returned, so the invariant follows the goroutine: what was not begun left
nothing (`Fresh`), an attempt follows a failed one and a wait follows a recorded failure
(`Retries`), the turns that `runWith` writes again are of different steps and of the
last attempt of each (`Turns`, without which writing one could overwrite a retry), the
steps before the current one worked (`Success`), and without a fault the history and the
rows part in the current step only (`Agreement`). `UpsertStep` and `CheckpointStep` say
what the two kinds of store call do; `NextInv` has one lemma for each kind of step.

`SessionStoresProofs` proves the four properties of `session_stores` for any runs,
messages, parts, calls, uses, requests, resources and clients and a stream of any length,
from `StoresAssumption`: the ids are finitely many, `None` is no row, and what a request
asks for is a list of resources. The replay of a stream is a function on its positions, so
no induction theorem with an operator is needed: `IntervalInduction` follows from the least
element of a set of naturals (`LeastNat`), and `ReplayOfAppend` says that a longer stream
replays as the shorter one did and one step more.

* A database is `Sound` if its rows are the projection of its stream but for a workspace
  that is gone, its version is the length of the stream, and the stream projects. `SqlInv`
  says that the database is empty or sound, and that a client whose version is the present
  one read the present title. There is one lemma for each transaction (`MoveFits` to
  `RebuildFits`): from a sound database it leads to a sound one (`Fits`), which is what the
  checks of the code are for: of a message, a call and a use the transaction asks for the same
  identity and the same free place that the projection asks for. `RunMovesFits` needs that the transition is legal,
  `SaveUseFits` the identity and the status of the stored use, `ResolveFits` that a grant
  follows an answer that allows it, `SaveMessageFits` that a checkpoint drops no part that a
  use stands for, which is what `Checkpoint` assumes of its caller. `StreamsReplay`,
  `TablesFollowStream` and `NoRenameIsLost` follow from `SqlInvariant`.
* `StoresStayInStep`: the two stores are in step (`InStep`: both sound, the same rows, the
  same events) until a request names a resource twice, and from then on one of the stores
  remembers that request or its session is purged (`MemInv`). In step, the memory store's
  way to append, which projects the whole stream again, is the other's (`MemAppendIs`, from
  `ProjectOfAppend` and because every workspace is there), interrupted work may come in two
  orders (`SameSaved`), and a list without repetition gets the same grants (`MemGrants`).
  After a repetition `Recalls` still says that no call forgets a request, without which
  `StoresAgree` could come to promise something again.

The rest of `LifetimesProofs` proves `UsersKeepTheirs` (`UsersAlwaysKeepTheirs`), from
`ScopesAssumption`, `McpAssumption`, `SessionAssumption` and `RunStreamAssumption`: the
set of callers of the scopes is finite, there is an object, `None` is no name and no
event, and the error of a run is none of its other events. No number of callers,
directories, servers, calls, generations, pages or events is bounded, and no capacity of
a channel. It has four parts.

* *Scopes.* `ScopesIInv` counts: before `storeScope` the waiters of an object are exactly
  the callers that have it (`UnstoredIsEmpty`), after it its `refs` are exactly its leases
  and one for the daemon (`RefsAreHolders`), which is why a lease and an eviction cannot
  both go through. A count of waiters that an `abandon` has made too low can only arm
  the timer early; what keeps an unleased scope from staying open for ever is
  `IdleExpires`, which says who will look at it again. `MoveOfOne` and `CountsKept` say how
  the cardinalities change when one caller moves. After `CloseContext` begins, the
  properties promise nothing and the invariant says nothing.
* *Connections.* What the holder of `lifecycleMu` has opened or taken out of service is
  open, serves nobody and takes no call (`InHand`); a connection takes calls only while
  it is open (`AcceptingIsOpen`), and a call runs only over one that was published
  (`RunningIsPublished`).
* *Sessions.* `runMu` is held by exactly the caller that runs, swaps or closes
  (`RunMuIsHeld`), a callback that is still called then is one that timed out
  (`CallbacksAreWaitedFor`), one caller replaces and one closes (`OneReplaces`, `OneCloses`), and a
  generation that was not cleaned up has exactly one owner, the session or one caller,
  while one that was has none (`OneOwns`): so no cleanup runs twice or is forgotten,
  whichever of `Run`, `SetPlugins` and `Close` meet.
* *Run streams.* Until an event is dropped, the number of events that the handler has
  taken (`TakenEvents`) says where each of the others is, in either channel or in the
  sink's hand (`PassedInOrder`), and a frame on the wire has the number of its event
  (`FramesAreEvents`). An error is the last event (`EmittedInOrder`) and a loop that has
  returned was drained (`LoopIsAhead`), so whichever of the loop and the handler writes
  the end, everything was before it. `FrameOfEvent` says that every event, also one the
  daemon does not know, is decoded as what it holds.

`OwnershipRecordsProofs` proves `DaemonIsOwner` (`DaemonIsAlwaysOwner`) and `RetiredForGood`
(`PluginsAreRetiredForGood`), from `DaemonAssumption`, `ServiceAssumption` and
`HostAssumption`.

* *Daemons.* A process that has registered holds the lock from before it listens until
  it is over (`LockIsHeld`), so the registration of one that published its own cannot be
  another's (`PublishedIsRegistered`); a client asks only who was registered
  (`AskedWasRegistered`); and the order of the shutdown leaves a handler only if its
  deadline passed (`WorkEnds`).
* *Service commands.* Any number of commands, in any order and with reboots and crashes,
  keep the numbers of binary, installation and service in order (`InstallsAreInOrder`) and
  extract only what they verified (`VerifiedIsPublished`). That a command that reported
  success is in effect holds for one that met no other: `AloneIsAlone` says what that
  means for the others, `StartsInEffect` and `StopsInEffect` what it has done at each of
  its steps.
* *Plugins.* A staged process is published or killed, and was in nobody's hands before
  (`StagedIsNew`, `UnusedIsUnknown`); what is being retired was published and is in no
  generation that follows (`OldIsOut`); a plugin closed within its deadline has drained
  (`ClosedHasDrained`). `RetiresForGood` is an action property: the states it compares
  need all four.

The same module proves `RecordsAreSound` (`RecordsAreAlwaysSound`), from
`CredentialsAssumption`, `CatalogAssumption` and `OpeningAssumption`, for any number of
attempts, refreshers, writers, requests, records, builds and histories.

* *Credentials.* The manager's lock is held by exactly the refresher or attempt that is
  between its read and its write (`MutexHeld`), and a stored token was consented to or
  refreshed from one that was (`Consented`). The hard case is the login that meets a
  refresh: the token that an attempt or a refresher has received is fresh and nowhere else
  until it is saved (`TokensOfRefresh`, `HeldIsFresh`), so a save outside of the settings
  handlers never brings back a spent one.
* *Catalog.* `CatalogIsSound` is inductive with `CatalogTyped`; `WorkspaceWritten` says once
  what any write of a workspace keeps, in either store, and the rest are the requests that
  stopped between two statements.
* *Opening.* The applied rows of a database that some build has opened fit that build
  (`AppliedFits`, `OpenHasApplied`), what a process read is still there when it compares
  (`ReadIsKept`), and a row without a checksum is one the history began with
  (`OnlyUnchecked`, `BeginsWithNone`). `OpeningAssumption` is needed for the last two: the
  UPDATE that writes a missing checksum does not ask that it still be missing, so two
  builds that differ in such a migration, and race, would both be trusted (TLC finds it as
  soon as one build of the run's instance has another first migration). Builds may differ in every
  migration that has a checksum: refusing those is what the checksums are for.

`SessionProofs` also proves `HistoryIsKept` (`HistoryIsAlwaysKept`), from `HistoryAssumption`,
for any budgets and failures. `KeepsHistory` compares the context before and after a step, and
the rows with the history when a run has returned and no run yet has reported an error. The
rows of a session whose runs went well are its history because every index below `nextIdx` has
its row or is reserved (`RowsAreHistory`), by the step of the loop, an event on its way or a
save in progress (`IndexesAreMessages`), and a run returns only when nothing waits
(`NothingWaitsWhenIdle`); what waits are rows already or markers (`EventsAreRows`), and what is
not a marker has its rows in the order of the history (`RowsTold`). `NothingForgotten` is the
other half: a message is in the context from the latest marker on or in the summary of that
marker, a message that is appended changes neither (`AppendKeepsContext`), and a new marker
tells of all that is before the place where it is put, and is put after the latest one.

`AgentLoopProofs` also proves `AnswersAreRight` (`AnswersAreAlwaysRight`), from
`RuleAssumption`, `HookAssumption`, `FilesAssumption` and `RequestAssumption`, for any
patterns, values, rulesets, hooks, files, batches, patches and histories. What it needs of the
files and the requests is in `FilesRequestsProofs`, a module of its own because of its length.

* *Rules.* The matcher goes back to its last `*` only. It misses no match because a star
  that has been passed cannot be part of one that the last star is not: each match ends
  the last star at `mark` or later (`NoMatchBefore`), where what the first characters of
  the pattern can take of the value is a relation defined without the matcher
  (`Reaches`). A check has asked of the resources it has passed what the last rule that
  covers them says (`CheckIsRight`), since overwriting the effect rule by rule is to
  take the last that covers (`Evaluates`). That covers is `Meets`: what the pattern means
  for a value without a `*`, and what the matcher's scan takes for one with it.
* *Hooks.* A pass calls the hooks in order (`CalledInOrder`, `NextIsCalled`), an error or a
  skip is the last thing it does (`ErrorsAreLast`), and each hook sees what the one before
  it left (`ValueCarries`); from these the value at the end holds what every hook wrote.
* *Files.* What a tool does is a function of a tree, computed section by section and call by
  call; `StepsExist` says that such a function is defined and `UpTo` takes a fact along it.
  What a call has done so far is what its program does up to its present section, to the
  paths that it names and to no others, and a call that has not been served has done nothing
  (`Alone`, `OneAtATime`, `InTurn`). Calls side by side on files of their own leave what
  they would leave one after the other (`SideBySide`, `ServedApart`), and a file that differs
  from before was asked for in a check that was passed (`ChangedOnly`).
* *Requests.* The only invariant is that the history consists of messages with content
  (`RequestsIInv`); the property is about what the request makes of any such history.
  Normalization gives each call one result, behind it and in the order of the calls
  (`NormalIsCanonical`), and changes nothing the second time (`NormalOnce`). The body is put
  together message by message (`ExpandAppend`, `SentAppend`), and a message keeps what was
  matched before it (`MatchedAppend`).

The conjunct of a component is proved from an invariant of its own (`ScopesIInv`,
`McpIInv`, `SessionIInv`, `StreamIInv`, `DaemonIInv`, `ServiceIInv`, `HostIInv`, `CredentialsIInv`,
`CatalogIInv`, `OpeningIInv`, `HistoryIInv`, `RulesIInv`, `HooksIInv`, `FilesIInv`,
`RequestsIInv`), with one lemma per action. `LifetimesIInv`, `OwnershipIInv`, `RecordsIInv` and `LoopPartsIInv` put them
together, since one component moves at a time. The theorems are about `LifetimesSpec`,
`OwnershipSpec`, `RecordsSpec` and `LoopPartsSpec`. `Components` allows the variables
of a group no other step than these do, so they say of its behaviours what the run
checks; the groups are modules of their own to keep what the provers see small.

Each `IInv` was checked with TLC before it was proved.

Only model-checked: the liveness properties (out of the prover's reach), the five violated
runs, and `PartsKeepIdentity`, which counts parts and calls through four parsers.

## 5. Where the models found the code weaker than it looks

Besides the five violated runs, modelling showed the following. None contradicts a
sentence of the repository strongly enough for a run of its own; the properties are
stated so that they hold with them, and say so.

* *Stores.* The memory store projects the deleted workspace of a session again, and
  records a resource that a request names twice twice (`StoresAgree` excludes both).
  `DeleteWorkspace` leaves the stream naming the workspace, so `RebuildSessionProjections`
  fails on the foreign key. The memory store does not ask in a later revision of a message
  whether its parts are another's (`memory.go` 1116 to 1136). A model call may be settled twice, `completed` and then
  `aborted`, by `runWith` (`session.go:839`).
* *Model streams.* A second text block of an Anthropic answer has deltas without a start
  and is missing from the live message; several reasoning items of a Responses answer
  become one; `error` and `response.failed` events inside a stream are ignored.
* *Requests.* Anthropic and Gemini drop images that have only an address, and resend
  reasoning that another provider sealed; Gemini's call ids repeat from turn to turn.
* *History.* Beside the place of the marker (the run `hydrated_history`): a crash, a cancellation or a failed save between the assignment of the
  marker's index and its save leaves a gap, after which the index of the next user
  message of a hydrated session is taken. The daemon does not install this plugin by
  default.
* *Hooks.* A user's history hook that returns nil discards what the plugins rewrote; a
  lone plugin hook that returns nil hands the user's hook a nil slice; a skip by a later
  `before_tool` hook and an error of a later `after_tool_call` hook lose what earlier
  ones rewrote. `runTurn` takes a history that a hook rewrote for unchanged if it is as long
  as before (`run.go:275`), against the comment on `TransformHistory` (`types.go:376`).
* *Scopes.* If the last waiter gives up between the construction and its storing, the
  scope is neither leased nor evicted; acquiring an idle scope that is being evicted
  returns "manager is closed"; an `abandon` of a caller that did not wait takes away
  another's wait.
* *MCP.* `CloseContext` waits for a `Connect` in progress whatever its context says;
  tool names of two servers can collide after they are sanitised.
* *Agent session.* A sink callback that timed out can be in flight when the cleanups of
  its generation run, against `session.go` 306 to 308; a hook that calls `SetPlugins` in
  a run deadlocks; `Close` during a lazy activation returns an error.
* *Credentials.* The settings handlers and `importEnvironmentCredentials` read and write
  the row without the manager's lock: they can restore a spent refresh token or lose a
  key (`TokensSpentOnce` excludes what a settings request disturbed). A cancelled
  attempt still exchanges its code.
* *Daemon.* An unregistered `wingman serve` takes no lock, and its recovery aborts the
  runs of a live daemon on the same database; handlers whose deadline passed may use
  the store while it closes.
* *Service.* `stop` ignores a failed `disable --now` and reports success; a start and a
  stop that meet can leave a running service without a unit; `restart` takes any error
  of `is-active` for "not running"; two updates that meet can end on the older release.
* *Catalog.* Concurrent updates of an agent lose fields; updating a record deleted
  meanwhile answers 500; a workspace name taken between check and write is a raw index
  error. *Opening.* A crash between creating and seeding leaves a database without
  default agents; two first openers may both seed.
* *Run stream.* The handler's in-flight count is released while the goroutine of the
  run may still be at its cleanup; after a cancellation events may be missing before
  the terminal one.
* *Rules.* A value that contains `*` can be matched wrongly. *File tools.* "Move to" the
  same path deletes the file and reports success; a line added after a last line without
  an end runs together with it; a failed patch leaves its earlier sections applied; what
  parallel edits of one file lose is the run `parallel_edits`.

Hazards without a property: a client that goes away while the purge commits
(`handlers_sessions.go:317`), an abort between claim and registration or after the
worker's last look (`session_runs.go` 176, 212), calls a sequential error leaves unbegun
and a last checkpoint that fails (`run.go` 544, 869). They are actions of the models, and
no document promises more than what happens. The loss of committed transactions by a
power failure (`synchronous=NORMAL`, `sqlite.go:95`) is below them.

## 6. Not modelled, and why

* *Payloads and formats.* Provider headers and options, SSE bytes, OpenAPI, JSON, the
  text of prompts. Nothing a property here distinguishes depends on them.
* *SQLite.* A transaction is an atomic step that commits or does not.
* *Reads.* Listings, searches, diagnostics and the catalog of models change nothing.
* *Tools that do one call.* The shell, the searches and the web tools.
* *Operating systems.* `launchd` and the parsing of arguments; `systemd` is modelled as
  the commands use it.
* *Generated code.* `client.gen.go`, more than a quarter of the lines, is one request
  per function.
* *Presentation.* The console and the terminal interface.

## 7. Plan

What is left, in the order in which it would add most:

1. A refinement of `ModelTurn` and `ToolTurn` by one module `AgentRun`, so that the
   abstract run (a history that only grows and alternates) is checked with tools in
   detail and across a crash.
2. The console's recovery from a resync, composed with `SessionEvents`.
3. Liveness of the component machines: a waiter of a scope returns, a retirement ends,
   a shutdown ends.
4. The theorem about the component that `Components` still has alone: the counting of
   `ModelStreams` (`KeepsIdentity`).
