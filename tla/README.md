# Cleo: TLA+ models and proofs

Cleo is a desktop AI workspace: a Python backend (`cleo/`) that keeps every
conversation as files, drives coding harnesses (Codex, Claude, ACP agents) for
development conversations, lets the user steer a working run, and distils finished
conversations into memory; an Electron shell (`ui/`) shows it.  This directory
models the parts in which several actors, failures and restarts meet: how a
conversation is stored, moved between projects, projected, shown and searched; how it
moves from one harness to another and how an earlier message of it is edited; how a
turn is relayed, waits for what it left in the background and is steered while it
works; how runs, switches, deletions and undos keep out of each other's way; how
subtasks are delegated and permissions asked for and chosen; how settings, routing
policy, sandbox passwords, the screen, files under git and timing records are shared
with other processes and with the user; and how finished conversations become memory.
Paths below are relative to the
repository root.

## 1. Inventory

| Component | State | Operations | What makes it hard | What correct means |
|---|---|---|---|---|
| **Session store** `cleo/sessions/store.py`, `event_log.py`, `manifests.py`, `files.py` | `events.jsonl` (append-only truth), `manifest.json` (atomically replaced projection), `sessions.sqlite3` (rebuildable index) | `create_session`, `append_events`, `update_manifest`, `refresh_compact`, `move_session`, `delete_session`, `rebuild_index` | three files change in turn; writes fail half way; some records are fsynced and some not; repeated calls with the same event ids | numbered without holes, no id twice, acknowledged records stay, projections never claim too much, a move is all or nothing |
| **Compact projection and index** `cleo/sessions/compact.py`, `index.py`, `cleo/memory/compaction.py`, `compact_file.py`, `reader.py`, `store.py` | `compact.json` in batches, the rows of `conversation_chunks`, the cursor of the last refresh, receipts of validation | incremental and full projection, index update, validation, search, legacy export, repair of stale projections | state carried between refreshes, a batch that ends between a call and its result, two files that are not written together, stale hashes | what batches were put together is the projection of the whole log; a search shows only the present one |
| **Harness handoff** `cleo/harnesses/service.py`, `handoff.py`, `context.py` | live routes, native sessions at providers, switch/submitted/delivered records | create, prompt, switch, restore, rewind, delegate, close | awaits between reading the history and committing, half-committed switches, lost answers, restarts | the harness that works knows the whole conversation; nothing unconfirmed counts as delivered |
| **Run supervisor and turns** `cleo/desktop/service.py`, `runs.py`, `turn_hooks.py` | `tasks`, `workspaces`, `workspace_guard`, `runtime_locks`, `harness_switches` | `stream_turn`, `cancel`, `switch_harness`, `delete`, `shutdown` | checks before awaits, starts after them; cancellation of tasks | one run per conversation, none lost, cancellation really ends it |
| **Steering** `cleo/desktop/steering.py`, `service.py:1505-1566` | receipts in the log and in memory, queue, lock, delivery worker | `steer_run`, `_deliver`, `next_boundary`, `boundary_received`, `close`, `recover_steers` | client retries, failed saves, cancellation between "sending" and the answer, crashes | an instruction goes out at most once and its receipt never lies |
| **Turn relay** `cleo/harnesses/service.py:500-736` | queue of notifications | `emit`, record, finish | concurrent producers, errors in a consumer, late arrivals | arrival order in log and client; a completed turn is there as a whole |
| **Rewind** `cleo/sessions/rewind.py`, `cleo/harnesses/rewind.py`, `cleo/desktop/service.py:1568` | rewind records, native history | `rewind_thread`, the harness's `rewind` | native side first, log second; a run may begin meanwhile | both histories end at the same turn |
| **Timeline** `cleo/desktop/timeline.py`, `projection.py` | items, turns, relations, cursor | index new lines, rewind, live items, pages | items replaced in place, removal of turns, late results | what is shown is what was not taken back, live and after a reload |
| **Claude turns** `cleo/integrations/harnesses/claude.py` | background tasks, owed wake-ups | `prompt`, `cancel` | stage results are not the end of a turn; a ceiling on waiting; a stream with a tail | each prompt gets its own reply and ends when nothing is owed |
| **Claude sessions** `cleo/integrations/harnesses/claude.py` | one runtime, the CLI process behind it, options, native conversation | create, resume, update options, prompt, rewind, cancel, close | options that only a new process takes, replacements that fail half way or meet a close | the process is the session's, in its options and its conversation |
| **Codex, ACP adapters** `cleo/integrations/harnesses/codex.py`, `codex_approvals.py`, `acp.py` | SDK connections, turn task, pending requests; agent processes with their options and approval mode | prompt, cancel, close, archive, probe, change of options and of the approval mode | a reader thread that a request blocks, answers that race cancellations, two clients during an exchange, an agent that changes one option as another is set | one decision per approval, an answer is given after it is logged, one writer per thread, a cancelled turn ends, requests are decided in the mode that was chosen |
| **Questions and approvals** `cleo/harnesses/questions.py`, `approvals.py` | pending requests | ask, answer, cancel | answers after cancellation, several deciders | each request decided once, nobody waits for ever |
| **Memory state and dream** `cleo/memory/state.py`, `consolidation.py`, `cleo/agents/dream.py` | per-source status, pending batch checkpoint | prepare, check, publish, commit of progress, reconcile | sources change while the model works | progress is never ahead of what was published; what was taken back stays out |
| **Memory repository** `cleo/memory/repository.py` | files, embedded git, journal | publish, recover | crash inside a publication, a user with an editor | all of a publication or nothing |
| **Background memory** `cleo/desktop/background_memory.py` | timers, attempts, failures | tick, retry, pause, manual review | foreground runs cancel it, other processes share the sources | retries are counted and bounded, work resumes |
| **Routing and delegated workers** `cleo/routing/execution.py`, `approvals.py`, `permissions.py`, `cleo/desktop/routing_settings.py` | task records, request files, policy files, the preset a turn captured | delegate, ask, resolve, upgrade, save the policy | two processes that meet only in files, a record and a request that outlive their writer | user and worker hear the same, no effect twice, no save over what was not shown |
| **Projects, threads and permissions** `cleo/desktop/service.py`, `cleo/runtime/state.py` | `runtime.json`, resident sessions, queued options | create, move, delete, restore, add and remove; choose, queue, apply | awaits between check and writes, turns that begin meanwhile | every thread is in one place; a turn runs with what its user was told |
| **Undo of a turn** `cleo/integrations/git.py` | trees, commits, `refs/cleo/undo` | checkpoint, finalize, undo, discard | the user edits, stages and commits between two git commands | the turn's edits and no others are taken back |
| **Configuration** `cleo/config/service.py`, `settings.py`, `cleo/desktop/configuration.py` | two files, a snapshot, agents and providers built from it | refresh, reload, save, bind a run | other programs edit the files, runs outlive a snapshot | what works is not replaced by what does not; a run keeps its settings |
| **Computer use** `cleo/computer/host.py` | lock, generation, held keys, baseline of the user's input | run, mark, stop | threads against a loop, the user's own hands | nothing after a stop, nothing left pressed, the user goes first |
| **Sandbox credentials** `cleo/integrations/codex_sandbox_credentials.py` | users files, state, backups | reconcile, restore | two processes and two installations change one password | a password that works is not lost |
| **Runtime timing, task ledger** `cleo/runtime/timing.py`, `task_tracking.py`, `task_ledger.py`, `task_usage.py` | spans, a database; boundaries in the log | measure, tick, flush; classify, bind, read back | cancellations of the final save; counters that start again | the record of a turn is whole; a task is charged what it spent |
| **Native migration** `cleo/integrations/harness_migration.py` | retired and native home, a report | migrate, check | harness and older clients write meanwhile | what the harness wrote is only continued |
| **Chat agent and tools** `cleo/agents/` | LangGraph messages | stream, tools | model I/O | - |
| **Electron shell** `ui/electron/evolution.mjs`, `updater.mjs`, `online-runtime.mjs` | installed versions | build, apply, accept, roll back | crash between steps | some version always starts |
| **User interface** `ui/src/useCleoWorkspace.ts` | drafts, locks per request | calls of the above | - | a request id has one call under way |

Interactions.  The desktop service is one asyncio loop; a client's RPC calls, the
run tasks, the steering worker and hooks interleave at every `await`.  The harness
service records everything through `SessionStore.append_events` under the store's
`RLock`; memory workers read the same logs from other threads, and a reader that
meets a stale projection refreshes it.  `SteeringRun` sits between the client's
calls, the run's task and the harness, and its receipts go through the same log.
A rewind changes the harness's conversation, then the log; the timeline, the compact
projection and the dream agent each read the marker in their own way.
A delegation runs in the process of a harness's tool server and meets the desktop only
in the files of its task, its requests and the parent's manifest.  Settings and policy
files are read at the start of a turn and by those processes, whoever wrote them.
The Electron shell restarts the backend, so every state between two writes is one a
new process may find.

## 2. Modules

| Module | Models | Role |
|---|---|---|
| `DurableLog` | nothing in the code: what callers rely on | abstract specification of the store |
| `SessionLog` | one session of `SessionStore` with its disk | detailed specification, implements `DurableLog` |
| `SessionLogProofs` | - | inductive invariant and safety theorems of `SessionLog`, and the proof that it implements `DurableLog` |
| `Handoff` | `AgentService` routes, switch, restore, turns | uses the store as `SessionLog` establishes it: an append happens, or a prefix of it |
| `Steering` | `SteeringRun`, `steer_run`, the run's life cycle | uses the store in the same way |
| `SessionMove` | one session's directories, index row and source states | several files per operation, where `SessionLog` has one write in detail |
| `Runs` | `RunSupervisor` and the service operations that consult it | the runs of several conversations; of a turn only when it works on the files |
| `TurnRelay` | `AgentService._prompt`, the ACP client host, `PermissionBroker` | the events of one turn on their way to log and client |
| `ClaudeTurn` | `ClaudeProvider.prompt` | one prompt against a process that goes on after its first result |
| `Timeline` | `TimelineIndex`, the items of the live stream, `locate_turn` | operators: what the window makes of a log |
| `Rewinding` | `rewind_thread` with Codex's and Claude's `rewind` | extends `Timeline`; relates the log, the window and the harness's conversation |
| `CompactProjection` | `CompactProjection.refresh`, the chunk index, searches | incremental against whole projection of one log |
| `MemoryQueue` | `memory/state.py` and `BackgroundMemory` | who reviews which source and when; takes a review as a few steps |
| `Dream` | `DreamAgent._consolidate`, `MemoryRepository.publish` | a review in detail; takes the scheduling as any interleaving |
| `Snapshots` | `ConversationContext`, the lease, the switches of several processes | the history a switch hands over, of which `Handoff` knows only whether it is complete |
| `Delegation` | `RoutingService.delegate`, `routing/approvals.py` | one delegated subtask and its requests, between two processes |
| `RoutingPolicy` | `RoutingControls.save`, `load_policy`, `routing/permissions.py` | the policy as several files, captured by turns and read by workers |
| `Permissions` | the permission options of a conversation | who may have what in the next turn |
| `CodexSession` | `CodexProvider`, `CodexApprovalBroker`, `QuestionBroker` | one Codex session with its reader thread, brokers and clients |
| `ClaudeSession` | `ClaudeProvider` but for the inside of a turn | one session over the processes that are replaced behind it |
| `AcpSession` | `AcpProvider` but for the inside of a turn | one conversation and the agents started for it, probes included |
| `GitCheckpoint` | `integrations/git.py` | an undo command by command, where `Runs` has when one may begin |
| `Workspace` | projects and threads of the desktop | `runtime.json` against the store and the resident sessions |
| `Configuration` | `ConfigService`, `desktop/configuration.py`, `sync_providers` | settings files against the snapshot and what is built from it |
| `HostControl` | `HostController` | one machine's screen and keyboard, with its user |
| `SandboxCredentials` | `codex_sandbox_credentials.py` | the passwords of the sandbox accounts |
| `Timing` | `TimingRecorder`, `measure`, `TimingStore` | the timing record of one turn |
| `TaskLedger` | task boundaries, bindings and counters | what each task is charged with |
| `NativeMigration` | `harness_migration.py` | transcripts moved from the retired home |
| `RunsProofs`, `DelegationProofs`, `SteeringProofs`, `TurnRelayProofs`, `DreamProofs` | - | inductive invariants and theorems of `Runs`, `Delegation`, `Steering`, `TurnRelay` and `Dream` |
| `ConversationProofs` | - | the same for `Handoff`, `SessionMove`, `Snapshots`, `Permissions` and `RoutingPolicy`; extends `MCConversation`, whose constants are any |
| `MachineProofs` | - | the same for `GitCheckpoint`, `SandboxCredentials` and `Timing`; extends `MCMachine` |
| `Adapters` | `create_provider` | extends `ClaudeTurn`, instantiates `CodexSession`, `ClaudeSession` and `AcpSession`: a conversation has one adapter, and of Claude's it looks at a turn or at the session |
| `MCConversation`, `MCMachine` | - | each a choice of several modules: `part` says of which one a behaviour is; the modules that are proved about have variables of their own, which the others take as slots |

`MCConversation` extends `Handoff` and instantiates `SessionMove`, `Snapshots`,
`TaskLedger`, `NativeMigration`, `Permissions` and `RoutingPolicy`; `MCMachine`
instantiates `HostControl`, `SandboxCredentials`, `Timing`, `GitCheckpoint`,
`Workspace` and `Configuration`.  These parts meet only through what each models of the
others (a switch through its records, a policy through its files), so one run explores
each of them by itself and nothing of their product.

### SessionLog

`log`, `torn`, `manifest` are the files; `synced` and `surviving` are what a power
loss may leave of them (a prefix of the log not shorter than the last fsync; any
manifest renamed into place since the last manifest fsync); `pc`, `request`,
`fresh`, `target` are the running operation; `acked` and `durable` are what callers
were told.  The store's lock makes operations of one process sequential, so an
operation is a chain of steps and only `Interrupt` (an `OSError` in a step, or the
death of the process) and `PowerLoss` come in between.

| Action | Code |
|---|---|
| `BeginAppend` | `append_events` up to the write: `_state`, the base of the numbering, `prepare`, the check "Session event log changed before append" |
| `BeginRepeat` | the same when every id is in the log: only the manifest is written |
| `WriteLog`, `FsyncLog` | `JsonlEventStore.append`, with fsync for handoff, steer and rewind records |
| `WriteManifest`, `FsyncManifest` | the manifest's replacement, with fsync for handoffs |
| `Return` | the index row and the caller's answer |
| `BeginRefresh` | `refresh_compact` as far as log and manifest see it |
| `Interrupt`, `PowerLoss` | the environment; the code's part is that a reader refuses a fragment (`Readable`) and that records must continue the log (`ContinuesLog`) |

Payloads, timestamps, titles, hashes and the index are left out: an event is its id
and number.  The index and the directory are what `SessionMove` is about.

### Handoff

`log` holds the kinds of record the handoff code reads (user requests, answers, ends
of turns, switch, submitted, delivered, and a `note` for anything else); `manifest`
its provider, native session and sequence; `natives` the native sessions and the
turns each has been told; `route` is `AgentService._sessions[...]` with the owed
context; `adopted` is the desktop's `_productivity_sessions`; `step` and `cand` the
running operation, which an `await` splits.

`BeginSwitch`/`SwitchRefused`/`CandidateFails`/`CommitSwitch`/`CommitFails`/`Recover`/
`RecoverAborted`/`FinishSwitch` are the stages of `_switch_session`; `OpenNative` and
`OpenPending` are `_ensure_productivity_session` with `restore_session` after a
restart; `BeginTurn` to `RefreshTurn` are `_prompt`; `Refresh` and `AppendNote` are
writers that do not hold the session lock; `Restart` is the death of the process at
any step.  `Pending`, `Unresolved` and `Reconciled` are `pending_handoff`,
`unresolved_submissions` and `ConversationContext.reconcile`.  Not modelled: the
draft conversation whose native session was never found.  Of session options it has
only that applying them may fail; snapshot files, options, delegation and rewind are
the subjects of `Snapshots`, `Permissions`, `Delegation` and `Rewinding`.

### Steering

`stored` is the newest receipt of each request in the log, `records`, `queue`,
`batch`, `closed`, `ready`, `holder`, `worker` are the `SteeringRun`; `calls` are the
`steer_run` calls, which read (`Ask`, `Read`), decide on what they read (`Settle`,
`Admit`) and enter the run (`Lock`, then `Answer` or `Accept`); `run` is the stage of
`_stream_turn`; `given` counts how often the harness took each instruction and is
what the receipts are measured against.  `Pick`, `Check`, `Deliver`, `Report` are the
native worker; `NextBoundary`, `Prompt`, `BoundaryReceived` the boundary mode;
`Close` is `close`, `Cancel` is `RunSupervisor.cancel`, `Crash` and `Recover` the
death of the process and `recover_steers`.  Every save may fail before or after its
record reached the log (`SaveFails`).  `mode`, one of `Modes`, is how the run's harness
takes instructions.  `again` of a call says that it was made while another call for its
request was under way.  The shipped client never does that (`steeringLocks` in
`useCleoWorkspace.ts`), other clients of the RPC may.

### SessionMove

`dirs` has for each project the session's directory: whether it exists, its manifest,
its log and how much of the log was fsynced; `row` is the project whose manifest the
row of `sessions.sqlite3` points to (`Loads` is when `load_manifest` finds it);
`sources` is what `memory/state.py` says of the session as a source of each project;
`op` is the running operation with what it has computed so far.  `reviews` are the
projects whose session a review of memory has read and not yet finished, `late` those in
which it wrote a source state when the directory was gone: a review takes the lock of the
project (`consolidation.py`), a move only the store's, so its steps lie between any two
steps of a move.  `half`, `lost` and `doomed` record that a move was cut short, that a
power loss took records, and that the session was deleted.

| Action | Code |
|---|---|
| `BeginCreate`, `CreatedEvent` | `create_session`: directory and manifest, then the first event |
| `BeginAppend`, `BeginUpdate`, `BeginRefresh` | `append_events`, `update_manifest`, `refresh_compact` as far as they say where things are |
| `WriteManifest`, `UpsertRow` | the manifest's replacement and the index row after it, of every operation |
| `BeginMove`, `Rewrite`, `Discard`, `MovedRefresh` | `move_session`: checks and rename; log and manifest rewritten; the compact projection and source state of the old project dropped; the refresh in the new one |
| `BeginDelete`, `RemoveFile`, `RemoveDir`, `DeleteRow` | `delete_session`: `rmtree` file by file, then the row |
| `Rebuild`, `RebuildFails` | `rebuild_index`, which clears first |
| `BeginReview`, `Register`, `Consolidate`, `EndReview` | a review, in this or another process and during any operation: `read_dream_source`, `register_dream_source`, `mark_consolidated`, a failure or the end of its process |
| `Interrupt`, `PowerLoss` | the environment: an `OSError` in a step, the death of the process, the loss of what was not fsynced |

`NumberedByOne` excepts histories with a power loss because `append_events` numbers
from the manifest when it is ahead of the log, which a loss of log lines makes it,
and histories with a move cut short because the log may then have moved without its
manifest.  `EventsKept` does hold across moves cut short.  `Rename` is the replacement
of the directory, the one step in which two entries of `dirs` change.

### Runs

`tasks`, `claims` (`workspaces`), `guard` (`workspace_guard`), `lock` (the runtime
locks) and `switch` (all but "none" are in `harness_switches`) are the
`RunSupervisor`; `stage`, `of`, `cancelling` and `snap` are the calls of
`stream_turn`, their conversations, and the trees they captured; `checkpoint` and
`shared` are two fields of the manifests; `tree` is the files, as the set of edits in
them; `op` and `applying` are a deletion, and an undo or reset, past its checks.

| Action | Code |
|---|---|
| `Start` | `_stream_turn` from its checks to `RunSupervisor.start`.  The hooks in between are coroutines that do not suspend, which is why the checks are still true at the start |
| `LockRuntime`, `ApplyPermissions` | pending permissions under the runtime lock |
| `LockWorkspace`, `Claim` | the guard, `claim_workspace`, and the marks on every run that shares the directory |
| `Open`, `Edit`, `Capture`, `Record` | `_stream_productivity`: the tree before the turn, the agent, the tree after it, the record |
| `Command` | a slash command: a run without a claim |
| `Fail` | the store cannot load a conversation that was deleted |
| `Leave`, `TakeGuard`, `Finish`, `FinishFails` | the finally clause: wait for the guard, drop a shared record, `finish`; or a store call raises before it |
| `Cancel` | `RunSupervisor.cancel`: what a `CancelledError` does at each place where a run can be suspended |
| `BeginSwitch`, `RunEnded`, `LockSwitch`, `EndSwitch` | `switch_harness`: marked, the run in progress awaited, the exchange under the runtime lock (what it does is `Handoff`'s subject) |
| `BeginDelete`, `Delete` | `_delete_thread`: between its check and `delete_session` it closes the harness session and discards the undo record |
| `TakeGuardFor`, `UndoPasses`, `Undo`, `ResetPasses`, `Reset`, `Refuse` | `undo_changes` and `reset_workspace` |

All conversations work in one directory: two that do not never meet in the claims.
Moves and permission updates ask the same questions of the supervisor and are not
modelled; rewinds are `Rewinding`'s subject.  Between taking the guard and forgetting the run the finally clause
suspends only to discard a shared record, which is where `Cancel` can meet it.

### TurnRelay

`task` is the task of each notification or permission request, `captured` what the
agent produced up to its answer, `accepted` what `relay` took, `queue` and `consumer`
the FIFO and its one reader, `log` and `shown` what was stored and what the client got;
`pending`, `resolving`, `answer` the broker; `sweep` the two places that run
`end_turn`; `active`, `bound` the host's flags; `svc`, `acp`, `outcome` the two
coroutines of the turn.  A step is what a task does between two awaits.

| Action | Code |
|---|---|
| `HandleUpdate`, `NextEvent` | `session_update`: one event, and for a plan update a second one |
| `HandleRequest`, `Withdraw`, `Decided` | `request_permission` and `PermissionBroker.ask`, also when its delivery failed |
| `Decide`, `BeginResolve`, `EndResolve` | `resolve`: the claim, the record, the future |
| `BeginEnd`, `SweepNext`, `SweepSet`, `Swept` | `end_turn`: `cancel_all` over a snapshot of the pending requests |
| `SideCancel`, `SideCancelled` | `AgentService.cancel` from another task |
| `PromptReturns`, `CancelPrompt`, `TurnSwept` | `AcpProvider.prompt`, returning or cancelled |
| `Take`, `StoreAndShow`, `StoreFails`, `ShowFails`, `ConsumerEnds` | the consumer of `_prompt` |
| `StartFinalize`, `EndTurn` | `finalize`: sentinel, left-overs, terminal event |

Message chunks, which are joined and not stored one by one, are left out; a
cancellation that arrives during `finalize` is swallowed by the code and does nothing
here; `approval_mode` is "user".

### ClaudeTurn

`rt` is `_ClaudeRuntime`, `loop` the local state of `prompt`, `ceiling` whether
`wait_ceiling` is not 0; `cli` and `stream` are external: a process that starts tasks in
a turn, announces them and their end, and answers each notification with one result, as
the recorded sequences of `tests/integrations/test_claude_background_turns.py` do.

| Action | Code |
|---|---|
| `Prompt`, `ReconnectFails`, `Close` | the beginning of `prompt` with its reconnect; `close` |
| `Receive`, `Timeout`, `StreamEnds` | the two ways `prompt` reads, and the ceiling |
| `HandleTurn`, `HandleStarted`, `HandleSnapshot`, `HandleNotification` | an `init` frame and `_track_background` |
| `HandleStage`, `HandleLast`, `HandleAbandoned` | a result while something is owed, the last one, and one after which waiting is given up |
| `Cancel`, `CancelTask`, `Interrupted` | `cancel` and the cancellation of the task, with what they do while waiting |
| `Cli...` | the process |

### Timeline and Rewinding

An event is its type, the turn it names, the tool or receipt it is about, and what it
says.  `Resume` is `TimelineIndex` reading new lines, `Rewind` its removal of turns,
`Visible` a page, `LiveTools` the live stream, `Locate` is `locate_turn` on the
harness's entries, newest first.  In `Rewinding`, `transcripts` are the conversations
the harness keeps, `session` the native id of the live runtime, `client` the
conversation its process is in, `reconnect` that the next prompt connects first, `kept`
the native id in the manifest; `run` and `edit` are the turn and the edit under way.
`odd` collects what lets log and harness differ, and each property names what it
excepts: a run that began during an edit ("overlapped"), an edit cut short between the
cut and the marker ("unrecorded"), a turn that was located at an earlier one of the
same text because it never reached the harness itself ("mistaken"), and a cut copy that
was never connected to ("forked").

| Action | Code |
|---|---|
| `Ask`, `Deliver`, `NotDelivered`, `Speak`, `Finish`, `Break` | a turn as the log and the harness see it |
| `Queue`, `Settle` | receipts of instructions |
| `BeginEdit`, `ReadEdit`, `RefuseEdit` | `rewind_thread`: the check, the turns read in a thread, the refusals |
| `CutCodex`, `CutClaude`, `CutFails` | `rewind` of the harness: revert in place, or fork and reconnect at the next prompt |
| `RecordEdit`, `RecordFails` | the marker, with the cache of native ids |
| `Crash` | the end of the process, at any step |

Left out: thoughts, plans, questions and approvals among the items, attachments, the
reset of the index when the file or the language changes, and the clause of
`editable_turns` that ends editing at a handoff: the log is what follows the last one.
`locate_turn` compares the end of the harness's text with the prompt (the harness may
see context before it); here texts are equal or not.

### CompactProjection

`Project` is the projection of a list of events with the first visible position it
counts from; `Whole(n)` that of a prefix.  `file` is `compact.json` with its batches,
`index` the rows, `cache` the cursor of the last refresh, `refresh` the call under way
(its steps are the store's writes), `receipt` what was validated for the present
revision of log, manifest and file, `search` a search.

| Action | Code |
|---|---|
| `AppendEvent`, `ForeignAppend` | `append_events` by this and by another process |
| `BeginRefresh`, `WriteFile`, `AppendRefused`, `WriteFileFails` | `refresh` up to and with the file: nothing, a batch or everything |
| `UpdateIndex`, `RebuildIndex`, `UpdateIndexFails`, `WriteManifest` | the table, the rebuild when it was lost, the manifest |
| `ExportLegacy`, `Crash`, `LoseFile`, `LoseIndex` | an older format; the environment |
| `ReadRows`, `CheckRows`, `EndSearch`, `Validate` | `search_conversation_history`: rows first, validation after; other readers |

### MemoryQueue

`src` are the entries of the state file, `saved` the snapshot a checkpoint holds, `job`
the batch's review, a manual one, and the dream of another process, with their stage;
`attempted`, `since`, `resumeDue` are the scheduler's, in intervals.  `Tick`,
`StartIfDue`, `PickSource`, `EndBatch` are `BackgroundMemory`; `Attempt` to
`MarkComplete` a review's marks; `Fail`, `Cancelled` how it ends otherwise; `StartRun`,
`EndRun`, `SaveSchedule`, `SaveDream`, `Disable`, `RequestCancel`, `Provider` what users
and the world do; `OtherStarts`, `OtherDies`, `Crash` other processes and the worker's.

### Dream

`ckpt` is `dream.json` (what is committed, and the batch in progress), `file` and `head`
`MEMORY.md` in the directory and at HEAD, `journal` the publication's.  A preference is
named by the event that states it.  `Start`, `RecoverFirst`, `Prepare`, `Extract`,
`Verify`, `Check` are `_consolidate` up to `publish`; `Baseline`, `WriteJournal`,
`WriteFile`, `Commit`, `RemoveJournal`, `PublishFails` are `publish`, and `Recover` its
recovery; `Finish`, `Mark` the progress; `Converse`, `Rewind`,
`UserEdit` what goes on meanwhile; `Interrupt`, `Crash` the environment.  `Visible` is
`active_events`, which goes through the log and lets each marker take back the last
message that is left; said by counting, a message is taken back where some stretch after
it has more markers than messages, which is the form that can be proved about.

### Delegation

`run`, `runId`, `poll`, `observed`, `cards`, `desk` are the desktop's: the parent's run,
the run its manifest names, the watcher's round and what its last one found, the
requests shown, and a decision between its checks and its write.  `job`, `task`,
`waiter` are the delegation's process; `saved` and `item` the files they share.
`given` and `told` are what the user's side gave a receipt for and what the worker heard.

| Action | Code |
|---|---|
| `StartRun`, `NextPrompt`, `Leave`, `Refuse`, `FinishRun` | the parent's run, which names itself in the manifest and refuses what is left at its end |
| `Poll`, `EmitRequest`, `EmitResolved`, `EndPoll` | `watch_worker_approvals` |
| `Resolve`, `Claim` | `resolve_worker_approval`: checks, then the write that does not look again |
| `Write`, `Read`, `Wait`, `Take`, `Tell`, `CancelWorker` | `worker_approval` |
| `Delegate`, `NoAttempt`, `Choose`, `Fingerprint`, `Create`, `Prepare`, `UseTool`, `Ask`, `EndPrompt`, `Verify`, `Raise`, `CancelUncaught`, `Close`, `Upgrade`, `Return` | `delegate`, attempt by attempt |
| `Edit`, `Dies`, `Expire` | the environment |

### The parts of MCConversation

`Snapshots`: `log`, the texts and snapshots on disk, the `lease`, and for each process
its operation and route.  `BeginSwitch`, `Publish`, `Compare`, `Commit` are a switch as
far as the history goes, `Resume` and `BeginTurn` give it, `Unleased` and `Rewind` are
the writers that take no lease.  `Projected` is `project`: user requests and final
answers, later fragments joined, what a rewind hid left out.

`TaskLedger`: `log` has the boundaries and counters, `bound` the manifest's task, `jobs`
the workers with the task they took along; `spent` is what really happened.
`BeginTurn`, `Decide`, `Manifest` are `begin_task_turn`; `ScopedUsage` is what
`task_usage` and `scoped_usage` read back.

`NativeMigration`: the files of the `retired` and the `native` home, the `report`, and
processes at `Begin`, `Look`, `Publish`, `Reported`, `Check`, `Resume`.

`Permissions`: `saved` and `pending` options, `live` ones of the native session, the
`policy`'s preset, the runtime `lock`, a `request` of the user, a `turn`; the actions are
the awaits of `_update_runtime`, `_apply_pending_permissions`,
`_apply_routing_permissions` and `switch_harness`.

`RoutingPolicy`: the `files`, what each window was `shown`, its save (`Submit`, `Compare`,
`Load`, `Write`), and turns and workers that read the files (`Capture`, `Constrain`).

### The parts of MCMachine

`HostControl`: an operation is its `Script` of checks and inputs, run between `Arrive`
and its end under the `lock`; `BeginStop` to `StopEnds` are `_stop`; `UserActs` is the
user's own input, which the hooks count in `activity`.

`SandboxCredentials`: setups that change passwords one account after the other, and
`Begin` to `Save` of a coordinator, whose every write may be its last (`Crash`).
`CheckStore` and `CheckRecord` try the records of a file, `Remember` forgets the oldest
when too many are known to fail, `Write` keeps the file that the run read before it had
the mutex (`current`), and between `Protect` and `Reread` Codex may delete the file.

`Timing`: `span`, `dirty` and `phase` of the recorder, the `ticker`, the `thread` that
writes a snapshot, the `store`; `Exit`, `Final`, `CancelDrain` are the end of `measure`.

`GitCheckpoint`: a tree is the set of edits in each file, so that a patch takes out the
edits of a turn; `BeginTurn` to `SaveCheckpoint` and `BeginUndo` to `Undone` are one git
command each, with the user's edits, staging and commits in between.

`Workspace`: `rt` is `runtime.json`, `store` the manifests, `resident` the directory of
each open session; an operation is at one of its awaits, where turns begin.

`Configuration`: the two files with a stamp for each write, the snapshot `snap` and the
`signature` it was read at, `loop` the synchronous work under way; `Refresh`, `Look`,
`ReadCleo`, `Apply` are a reload, `Save` to `Write` a save of the settings page,
`StartRun`, `UseAgent`, `BuildAdapter` what is built from a snapshot.

### CodexSession and Adapters

`prompt` is where `prompt()` is, `task` its turn task, `reader` the request that blocks
the reader thread, `asks`, `response`, `done`, `recorded`, `given`, `told` a request's
course through broker, log, server and client, `client` and `life` the app-server
clients, `update` a change of the approval mode, `side` and `op` a close, cancel or
archive from another task.  The server is external.  `Adapters` chooses the adapter at the
beginning, as `create_provider` does.

### ClaudeSession and AcpSession

Both are one session, the processes started for it and two coroutines that use it.  A
step is what a coroutine does between two awaits; an await that raises stands for a
cancellation there as well, and the death of a process is its own action.  A turn is a
step to begin and one to end, whose inside is `ClaudeTurn`'s and `TurnRelay`'s subject.

| `ClaudeSession` | Code |
|---|---|
| `Create`, `Created`, `ConnectFails`, `LookUp` | `create_session`, `resume_session`; a call that finds the session |
| `BeginUpdate`, `Sets`, `SetFails`, `Updated` | `update_options`: `set_model`, `set_permission_mode`, or a replacement where `RelaunchEntering` or `Relaunch` asks for one |
| `Connected`, `Swapped`, `SwapFails` | `_replace_client`: the new process connects before the old one goes |
| `BeginPrompt`, `TurnEnds`, `TurnBreaks` | `prompt`, with the reconnect after a dropped stream |
| `BeginRewind`, `Fork`, `ForkFails` | `rewind` |
| `Cancel`, `Close`, `Closed`, `ClientDies` | the rest |

`rt` is `_ClaudeRuntime`, `clients` how each process was started and what it works with;
`unsure`, `last`, `cut` and `overtaken` are ghosts: options a failed update may have left
in the process, the conversation of the last turn that counts, a rewind that failed after
it named the copy (the case of section 6), and a close under an operation.

| `AcpSession` | Code |
|---|---|
| `Open`, `Connected`, `Opened`, `Probed`, `OpenFails` | `create_session`, `resume_session`, `test_connection` and the model probe: start, initialise, open, register or exit |
| `BeginUpdate`, `Sets`, `SetFails`, `Updated` | `update_options`, of which the agent may take the effort for another when the model is set |
| `EnableUserApprovals` | the desktop's `enable_user_approvals`, which takes no lock |
| `BeginPrompt`, `EndPrompt`, `Cancel`, `Close`, `Closed`, `CloseFails`, `AgentDies` | the rest |

`rts` are `_AcpRuntime` and its host per process, forgotten once closed; the operation a
waiting coroutine performs is chosen as it takes the lock.  `lost` collects agents that
nothing refers to any more: two resumes of one conversation that cross register one over
the other, and a close whose `cancel` raises leaves its agent running.  `AgentsHeld` says
that there are no others.

## 3. Runs

An invariant named for several parts is their conjunction, for one place to look: which
part fails is seen in the counterexample.  All runs pass.

| Run | Instance | Distinct states | Shows |
|---|---|---|---|
| `session_log` | a handoff, a steer, an ordinary id; batches of 2 | 161,193 | `Recorded` (types, `AckedInLog`, `DurableInLog`), `LogWellFormed`, `ManifestAheadOnlyAfterLoss`, `HandoffInManifest`, `FragmentPreserved`, and that the store implements `DurableLog` |
| `conversation` | each part by itself, below | 1,970,242 | `ContextComplete`, `Confirmed`, `Accounted`, `ConsolidatedStays`, `ContextKept`, `LedgerTrue`, `NativeKept`, `PermissionsAsChosen`, `PolicyHolds` |
| `machine` | each part by itself, below | 2,376,164 | `InputControlled`, `CredentialsKept`, `TimedWhole`, `CheckpointHolds`, `WorkspaceKept`, `ConfigurationHolds` |
| `adapters` | Claude: 2 prompts, 2 tasks, 3 unread frames, 2 events (113,770 states); Codex: 1 turn, 1 approval, 1 question, 3 clients, 2 faults (277,362); Claude's session: 2 coroutines, 3 processes, 3 updates, 1 fault, and ACP's: 2 coroutines, 2 agents, 2 models, 1 fault (259,605 together) | 650,737 | `TurnTrue` (`OwnReply`, `CompletedIsWhole`, `ItemsClosed`), `SessionHolds` (of Codex types, `DecisionsTrue`, `ClientHeld` with `Decidable`; of Claude `ProcessesHeld`, `OptionsTrue`, `BypassLaunched`, `Continues`; of ACP `AgentsHeld`, `OptionsTrue`, `ApprovalTrue`, `TurnAttended`), `TurnsEnd` |
| `steering` | 2 instructions, 2 calls, 1 fault, native and boundary mode | 215,955 | `ReceiptsTrue` (types, `GivenOnce`, `NotGivenMeansNot`, `ReceivedWasGiven`, `NothingLeftOpen`), `SettledForGood` (`SettledIsFinal`, `EventuallySettled`) |
| `runs` | 2 conversations, 2 runs, 2 events | 233,971 | `RunsExclude` (types, `OneRunPerThread`, `SwitchedWhenIdle`), `FilesHold` (`UndoesOwnChanges`, `FilesChangedAlone`), `EventuallySwitched` |
| `turn_relay` | 2 notifications, one with a plan, 1 approval, 1 failure, 2 cancellations | 542,201 | `RelayedWhole` (types, `ArrivalOrder`, `CompletedIsWhole`, `DecidedOnce`), `RelayEnds` (`TerminalIsLast`, `EveryTaskEnds`) |
| `rewinding` | 2 turns, 2 texts, 1 tool id, 1 receipt, 1 edit, 2 faults, log of 6 | 745,764 | `WindowTrue` (types, `ShownIsActive`, `CursorsStayGood`, `ReloadedAsShown`), `HarnessTrue` (`HarnessRemembersShown`, `HiddenIsForgotten`) |
| `compact_projection` | 4 events, 1 tool call id, 1 fault, 1 search | 1,443,845 | `ProjectionHolds` (types, `FileIsWholeProjection`, `IndexIsWholeProjection`, `PublishedIsComplete`, `FoundIsCurrent`) |
| `memory_queue` | 1 source, 2 revisions, 2 failures, 3 events | 526,037 | `RetryBudget` (types, `FailuresCounted`, `AutomaticBounded`), `Retried` (`CancelKeepsLiveWorker`, `FailedIsRetried`) |
| `dream` | 2 conversations, 3 messages or rewinds in all, 1 edit, 2 faults | 1,865,156 | `Published` (types, `ProgressIsPublished`, `OwnEntryKept`, `ReadableIsCommitted`), `RewoundStaysOut` |
| `delegation` | 1 request, 2 prompts of the parent, 1 change of the files, 1 fault | 737,974 | `AnswersTrue` (types, `GrantedInItsRun`, `ReceiptTrue`, `NothingToDecide`, `EndIsRecorded`), `Delegated` (`NothingDoneTwice`, `CardsGo`) |

| Part of `conversation` | Instance | States | Property |
|---|---|---|---|
| `Handoff` | 2 harnesses, 2 turns, 3 native sessions, 1 note | 114,077 | `ContextComplete`; `Confirmed` (types, `ResumeOnlyAcknowledged`, `NoFalseAcknowledgement`, `ManifestCommitted`, `WarnedOfUnconfirmed`) |
| `SessionMove` | 2 projects, 2 events, 2 faults | 163,480 | `Accounted` (types, `EventsKept`, `MovesTogether`, `NumberedByOne`), `ConsolidatedStays` |
| `Snapshots` | 2 processes, 4 events, 1 record inline, 1 fault | 463,476 | `ContextKept` (`SnapshotWhole`, `HistoryGiven`) |
| `TaskLedger` | 2 tasks, 2 workers, 4 events, 2 native threads, 1 fault | 130,136 | `LedgerTrue` |
| `NativeMigration` | 2 processes, 1 transcript and 1 text, 2 writes or 1 write and 1 fault | 199,133 | `NativeKept` (`ResumedWhole`, `VerifiedIsThere`, `Keeps`) |
| `Permissions` | 2 providers, 2 options of 2 values, 3 choices, 2 turns, 1 fault | 343,016 | `PermissionsAsChosen` (`NextRunAsTold`, `RunsAsChosen`, `NotUnderTheRun`) |
| `RoutingPolicy` | 2 windows, 2 presets, 2 saves, 1 turn, 1 fault | 556,924 | `PolicyHolds` (`NoBlindSave`, `WorkersAsCaptured`) |

| Part of `machine` | Instance | States | Property |
|---|---|---|---|
| `HostControl` | 2 operations of 4 kinds, 1 stop, 1 input of the user, 1 fault | 252,469 | `InputControlled` (`StopIsFinal`, `NothingLeftDown`, `PausesForUser`) |
| `SandboxCredentials` | 2 processes, 2 setups, 3 runs, 3 records known to fail, 1 fault | 483,444 | `CredentialsKept` (`RemembersTruly`, `NeverWorse`, `OneFailedLogon`) |
| `Timing` | 2 spans, 3 cancellations, 1 fault, 2 ticks | 282,258 | `TimedWhole` (`NothingForgotten`, `StoredWhole`) |
| `GitCheckpoint` | 2 files, 2 edits, 1 turn, 1 fault | 305,794 | `CheckpointHolds` (`UserEditsStay`, `UndoneExactly`, `StagedStays`, `CheckpointKept`) |
| `Workspace` | 1 chat, 1 task, 1 backup, 2 folders of one name, 3 operations, 1 turn, 1 fault | 158,855 | `WorkspaceKept` (`NavigationKnown`, `WorksWhereItBelongs`, `UndoInOwnDirectory`, `RestoredOnce`, `RemovedIsHidden`) |
| `Configuration` | 2 connections, 2 models, 1 chat, 1 outside edit, 1 save, 2 runs, 3 of these in all | 893,344 | `ConfigurationHolds` (`SnapshotWorks`, `NotStale`, `RunKeepsItsSettings`, `SavedTrue`, `ProvidersCurrent`) |

Bounds.  `Ids` of three members give one of each class the code tells apart, and an
append of one with a repetition of another in one batch; the log never grows beyond
three lines because no id is written twice, so the run is complete for three ids.
Three native sessions allow a switch there and back and a restore in between, the
shortest history in which a stale native session could be mistaken for a
conversation; two turns are needed for a harness to miss one.  Two requests and two
calls give one instruction in delivery while another is queued, and a repetition of
either.  One fault is a failed save or a death of the process; two of them add only
histories of which each half is already covered, and the native run with two is past
the time a run is given.  Two projects and two events allow a move there and back with
a review of either place under way, and two faults a move cut short followed by a
rebuild cut short; three projects (2,378,872 states of the part) showed nothing that two
do not.  Two setups make four records that may fail: with three remembered one is
forgotten.  An event of `Runs` is a cancellation, a failed
store call, or the beginning of a switch, a deletion, an undo or a reset: two of them
meet two runs that overlap or follow one another, the shortest history in which what
one run leaves behind can mislead another.
The calls of `stream_turn` are alike and are therefore made in a fixed order; a third
run (3.3 million states, safety only) showed nothing that two do not.

Two notifications, one of which yields two events, and one request interleave every
pair of kinds of task of a turn; two cancellations are one of the turn and one that
strikes its unwinding.  Two prompts let the second meet the tail of the first, and two
tasks give a notification that is answered together with another.  Two turns of equal
or different texts are what `locate_turn` can confuse, one edit with two faults is an
edit cut short and a restart after it; six lines hold a turn that is edited with a tool
of it and the marker, and what a second turn says.  Four events hold a call, its
result, and a rewind over both, in any batches.  One source suffices for its retries,
because sources meet only in the order a batch takes them; two revisions let it
change under a review.  Three messages in two conversations let one batch of one
conversation go on over a publication of the other.

One request and two prompts let a decision, the end of the run and the end of the worker
meet, and the request be answered in a later prompt of the same run or in another run;
two attempts are all `delegate` makes.  Two processes, windows or operations are what a
lease, a comparison or a lock keeps apart, and a second fault would add histories of
which each half is there already.  The operations on the screen are one of each kind
that differs in what it holds down and when it looks: a grab, a drag, a combination of
keys and the baseline's mark; a click is a drag without the way.  An edit, a save and a
run, or an edit or a save and two runs, are what a cached agent or provider can outlive.
Three operations on threads are a creation, a move and a deletion of one; three choices of permissions one before, one under and one after
a turn's reservation.  Three processes of a Claude session are the first one, its
replacement and the replacement of that; its three updates are one a process takes, one
that needs a new process because of the effort and the mode, and one back.  Two agents let
a probe or a second resume cross an opening.  One turn of `GitCheckpoint` leaves out that
a checkpoint replaces an earlier one, which `CheckpointIsTrue` covers for any turns.

Deadlock is checked in `session_log`, where something can always happen.  Elsewhere it
is off, because the counted events run out and a turn, a run or an edit that is over
really stops; that nothing stops too early is what the liveness properties of
`steering`, `runs`, `turn_relay`, `adapters`, `delegation` and `memory_queue` say.

`NotGivenMeansNot` in boundary mode and `SettledIsFinal` in both except histories in
which calls for one request overlapped (`Overlapped`): there they do fail, because a
call that found no run settles or refuses a receipt another call has just queued.  The
shipped client never makes such calls, so this is recorded as a hazard of
`service.py:1533`.  `GivenOnce`, and `NotGivenMeansNot` in native mode, hold with them.

Each property has mutants (the operators marked "Mutant" in the modules) that change
one mapped definition the way a plausible slip would, and which it detects.

## 4. Fairness

Safety needs none.  `Steering` has `WF(Worker)`, `WF(Run)` and weak fairness for each
call once it was made, because these are tasks of one asyncio loop that runs every
ready task, and a harness ends its turn or is cancelled by its own timeouts; `Lock` has
strong fairness because `asyncio.Lock` wakes its waiters in order, while in the model
the lock becomes free and is taken again in between.  Nobody owes a call, a
cancellation, a crash or a visit to the conversation (`Recover`).  `EventuallySettled`
excepts histories with a fault: a receipt whose save failed or whose process died is
settled only when the conversation is opened again.

`Runs` has weak fairness for the steps of each run's task, which includes that a turn
ends, strong fairness for its waiting on the guard (the same first-in first-out
`asyncio.Lock`), and weak fairness for a switch that waits and for the end of an undo
or reset, which are tasks too.  Nobody owes a call, an edit, a cancellation or the end
of a call its caller abandons.

`TurnRelay` has weak fairness for the consumer, for each task that waits on something
that has happened, for the sweeps and for the end of the turn: tasks of one loop.  The
agent owes nothing, the user no decision; that tasks end all the same once the turn is
over is what `EveryTaskEnds` shows.  `ClaudeTurn` has it for the reading loop and its
timeout, and for a process ending the turn it began; it owes no wake-up, which is what
the ceiling is for.  `MemoryQueue` has it for the clock, the scheduler and the steps of a
review; `FailedIsRetried` asks further that the provider answers, the settings are on
and no run holds the scheduler off, from some time on.

`CodexSession` has it for the reader thread, the tasks of prompt, close and update, a
server that starts the turn it was asked for, and the broker's own steps; the server
owes no end of a turn and the user no decision.  `Delegation` has it for the watcher, the
end of a run that is leaving and a claim, which are tasks of the desktop's loop, and for
the death of a worker's request (`Expire`), which is a clock; strong fairness for the
steps of the delegation and its time limit, because its process is busy for a moment
between a read and what follows from it.  Nobody owes the end of a prompt or of the
parent's turn.  The other modules have safety properties only.

## 5. Proofs

All theorems hold for every value of the constants, the bounds included, from the
assumptions named in the modules (that bounds are numbers, that the ids of different
things differ); TLC evaluates these in the runs.

### SessionLog

`IInv` is the inductive invariant.  None of the properties is inductive by itself:
`LogWellFormed` needs to know, between the preparation of records and their writing,
that they continue the log and are new to it (`FreshContinues`); `AckedInLog` that a
call that reached its manifest step has its request in the log (`RequestWritten`);
`DurableInLog` that durable ids are below the fsynced length (`DurableSynced`,
`WrittenSynced`), which is why the cut of a power loss cannot reach them;
`HandoffInManifest` and `ManifestAheadOnlyAfterLoss` that the manifest about to be
written covers the log and no more (`TargetCoversLog`, `TargetWithinLog`).  One lemma
per action shows that it keeps `IInv`; `PreparedRecords`, `WrittenPart` and `CutLog`
say what preparing, writing a part and cutting do to a log.

| Theorem | States |
|---|---|
| `Inductive` | `Spec => []IInv` |
| `EverythingRecorded` | the invariant `Recorded` of the run: types, `AckedInLog`, `DurableInLog` |
| `TypeCorrect`, `LogAlwaysWellFormed`, `AcknowledgedIsRecorded`, `DurableIsRecorded`, `ManifestNeverAhead`, `HandoffsCovered` | its parts and the other invariants of the run `session_log` |
| `FragmentsAreKept` | the action property `FragmentPreserved` |
| `Refinement` | `Spec => ImplementsDurableLog`: writes record, returns acknowledge, power losses cut, everything else stutters. `RInv` adds that prepared records were asked for and that durable ids are acknowledged |

### Runs

For any conversations, calls and number of events.  `OneRunPerThread` needs that a run
is registered under its own conversation (`RegisteredHere`) and, for a switch, that the
run it waits for is the only one (`SwitchWaits`).  That files change under one writer
rests on the guard: who is at a place that needs it holds it (`HoldsGuard`), who works
has claimed (`Claimed`), and an undo past its check has seen no claim (`Unclaimed`).
That an undo takes back the edits of one run follows from two facts about sharing: two
runs that work at once are both marked as sharing, unless their conversation is deleted
(`SharingKnown`), so whoever is not marked has made every change since its first tree
(`ChangesAreOwn`), and a checkpoint is written of such a run only (`CheckpointsAreOwn`).

| Theorem | States |
|---|---|
| `InvHolds` | `Spec => []IInv` |
| `RunsAreExclusive` | `Spec => []RunsExclude` |
| `FilesAreSafe` | `Spec => []FilesHold` |

### Handoff

For any harnesses and any number of turns, native sessions and other records.  What the
code reads back from the log (`Pending`, `Reconciled`, `Unresolved`) picks the newest
record of a kind; `LatestIs`, `PendingIs` and `ReconciledIs` put that in terms of places
in the log, and `QuietlyAdded`, `SwitchAdded` and `TurnRecorded` say what one more record,
or the part of a batch that a failed append left, does to it.  `StepIs` sorts the actions
by what they do to manifest, route and natives (nothing, learn from the log, resume,
switch, complete, fail, clear, receive), and each part of the invariant is shown once for
each sort.

The invariant relates three places that change one after the other.  The route goes to a
session that knows what was completed or is owed it (`RouteCovered`); the manifest names
such a session, unless its harness is owed a handoff (`ManifestCovered`); and so does a
delivery the manifest does not know of yet (`AckCovered`), since reconcile will take it
over.  Manifest and route name the same session unless a switch to another is pending
(`RouteNamed`), and what is ahead of the manifest in the log belongs to the one it names
(`AckKnown`, `SwitchKnown`).  A route that is not confirmed still owes the history
(`RouteOwes`) and is cleared only after the confirmation is recorded (`ClearedLast`).
`Committed`, `SubmittedFirst` and `KnowersRecorded` say that whoever is named was switched
to, and whoever was told of a request without confirming it is on record, from which a new
candidate is warned (`Prepared`, `RouteWarned`).

| Theorem | States |
|---|---|
| `InvHolds` | `Spec => []IInv` |
| `WorksWithContext` | `Spec => []ContextComplete` |
| `ConfirmedHolds` | `Spec => []Confirmed` |

These are about `Handoff`'s own `Spec`; the run `conversation` checks the same
definitions, of which the parts beside `Handoff` know nothing.

### Delegation

For any requests, prompts, changes of files and faults.  The heart of it is that the two
processes share nothing but files, and each writes on what it read before.  The desktop
decides a request only in the run the worker works for, which cannot end before the
write (`Deciding`), and only where there is no receipt yet (`Undecided`), so there is one
(`OneReceipt`), and file and worker have nothing but what it says (`FileTrue`,
`HeardTrue`).  A worker that finds its request inactive refuses by itself: since one that
still waits is at work with its record running and not expired (`AskedAtWork`,
`Recording`, `DeadExpire`), inactive means the run is over, for good, because numbers of
runs only grow (`RunsNumbered`).  That nothing is done twice rests on what an attempt
reports: an effect was announced as a tool, or was a check's that may change files
(`Noticed`).  `Step` sorts the actions by what they do to the requests.

| Theorem | States |
|---|---|
| `InvHolds` | `Spec => []IInv` |
| `AnswersHold` | `Spec => []AnswersTrue` |
| `DoneOnce` | `Spec => NothingDoneTwice`, the safety part of the run's `Delegated`; its other part, `CardsGo`, is liveness |

### Steering

For any instructions, calls and faults.  Receipts are written by calls that found no run,
by calls inside it, by the worker, by the run and by recovery, and each writes what
follows from what it remembers.  What makes that safe is the id of a record, made of
request and revision: whatever anybody remembers is the newest receipt of the log or an
older one (`Remembered`), and who remembers an older one writes nothing (`PersistIs`).

That nothing is given twice is said of the places an instruction can be at: what is
queued, in the worker's hand or in the prompt is at one of them only and was not given
(`Queued`, `OnItsWay`, `Prompted`), and neither was what may be queued again
(`Unsents`), not even where log and memory differ (`Behind`).  They differ after a write
that failed and after writes from outside, so what a call in `submit` has found need not
be what the log says by now (`Decides`).  `NotGiven`, `Truthful` and `Tracked` are the
parts of `ReceiptsTrue` as they are kept.  If calls for one instruction do not overlap, a
call that found no run is about one the run does not know (`Alone`), so only failed
writes set log and memory apart (`Orderly`); `SettledIsFinal`, and for an instruction that
becomes a prompt also that "not given" is true, rest on that.

| Theorem | States |
|---|---|
| `InvHolds` | `Spec => []IInv` |
| `ReceiptsHold` | `Spec => []ReceiptsTrue` |
| `SettledStays` | `Spec => SettledIsFinal`, the safety part of the run's `SettledForGood`; its other part, `EventuallySettled`, is liveness |

### TurnRelay

For any notifications and permission requests.  The order of a turn is said in terms of
`accepted`, what the relay took: its first `Taken` events were stored or failed and the
rest are the queue, with the sentinel behind them once it is closed (`Queued`), and log
and client have what was relayed in that order (`Logged`, with `Ordered`).  A turn the
log calls completed is over, without a failed delivery, and all that was captured and
accepted is in the log.  That a request has one decision although the user, the sweep, the
cancellation of its own task and a failed delivery may each take it rests on the claim: a
request is pending only until its response is produced, which is produced once
(`Emitted`), and what is being delivered, and what the asker was given, was produced
(`Agreed`).

| Theorem | States |
|---|---|
| `Invariant` | `Spec => []IInv` |
| `TurnIsRelayedWhole` | `Spec => []RelayedWhole` |
| `NothingAfterTheEnd` | `Spec => TerminalIsLast`, the safety part of the run's `RelayEnds`; its other part, `EveryTaskEnds`, is liveness |

### Dream

For any sessions, events, edits and faults.  A preference can be at three places, and the
invariant says how it gets from one to the next: what HEAD, the file and the base of a
batch hold was committed, or is in the publication whose journal is there (`Committed`);
what is to be published is the base and the blocks since, none of them taken back
(`Composed`); the journal names exactly that, and the checkpoint advances only over what
is committed (`Journaled`).  So a recovery finds in the journal a state that was readable
before or is committed (`Settles`), whatever was cut short.  File and HEAD differ only by
what the user edited or by a publication whose journal is there (`Reading`), and what a
publication starts from has the user's entry (`Owning`).  The lemmas about `Visible`
say what one more event, or reading only a part of the log, does to what was taken back.

| Theorem | States |
|---|---|
| `Invariant` | `Spec => []IInv` |
| `MemoryIsPublished` | `Spec => []Published` |
| `TakenBackStaysOut` | the action property `RewoundStaysOut` |

### The parts of a conversation and of the machine

`MCConversation` and `MCMachine` leave the constants of these parts open, so that what a
run checks on one instance is a theorem for all of them: each is about one part, first
as a module by itself (`Spec`; not for `SessionMove`) and then as the run has it
(`SuiteSpec`, in which the part never changes).  What it takes the constants to be is its antecedent (`MoveValues`, `PermValues`,
`PolicyValues`, `GitValues`, `CredentialValues`, `TimeValues`): that bounds are numbers,
that `None` and the marks of a free lock are no provider, option, process or snapshot, that the presets are
made of the values there are.

`Snapshots` (`HistoryInv`): a snapshot that is published was made of what the log began
with, and appends only go after that (`Made`); the one a switch is about to commit is of
the log as it is, unless something slipped in after the comparison (`Switching`); a
route that still owes its history points at such a snapshot (`Owing`).

`SessionMove` (`MoveInv`): an event is in one directory (`EventsOnce`), and one that is
acknowledged or about to be is in some (`EventsHeld`), because a rename carries a whole
log and a target that exists is refused.  Everything is at one place, or in a move at
which each step has done its share (`Placed`, `UnderWay`, `TogetherAt`), until one is cut
short.  That events are numbered by one across moves needs that no manifest is ahead of
its log and that a move appends the next number of the log it took along (`Numbered`);
that a consolidated session stays, that between a move's check and its last step only a
late review consolidates the place it leaves (`MovesFresh`): that one's mark is lost.

`Permissions` (`PermInv`): who holds the lock knows what waits (`PermLocks`), and a turn
on its way to run, if nothing was chosen since it was reserved, is at each of its stages
where it will have what its user was told (`PermTurn`).

`RoutingPolicy` (`PolicyInv`): a save that no other overlaps goes on from what its
window was shown (`SavesSeen`); a worker is of a turn that has begun, and before it runs
it has compared its preset with the one captured for that turn (`WorkersBound`).

`GitCheckpoint` (`GitInv`): edits are numbered as they are made, so one of the user's
between the turn's end and the undo is in neither tree of the checkpoint, and one he
made before is in both (`Spares`); where he has not been since the comparison, the files
and the index are still what the undo read (`AsCompared`).

`SandboxCredentials` (`CredentialInv`): who holds the mutex keeps setups out, so the
passwords are those he reads (`Excluded`); a setup gives a number that nothing has seen,
which is why no record known to fail works again (`Numbered`, `Remembered`); what is
about to be written works in every role in which the file it replaces does
(`Improves`); a logon that failed is known to the run that tried it until its state is
saved, or is forgotten for newer ones (`TriedOnce`).

`Timing` (`TimeInv`): what a thread writes is as the record was when it was taken, and a
span that changed since is marked to be saved again (`AsTaken`); a flush and its thread
are of one snapshot, the last one begins when the ticker is done and no span is open
(`Flushing`, `Measured`), and after it nothing changes (`FinalHolds`), so what it leaves
in the store is the record; "completed" is in no snapshot before the end (`NoEarlyEnd`).

| Theorem | States |
|---|---|
| `NothingIsLostByMoves` | `SuiteSpec => []Accounted` |
| `ConsolidatedSessionsStay` | `SuiteSpec => ConsolidatedStays`, an action property |
| `HistoryIsGivenWhole`, `SwitchesGiveHistory` | `Spec => []ContextKept`, of the part and of the suite |
| `PermissionsAreAsChosen`, `TurnsRunAsChosen` | the same of `PermissionsAsChosen` |
| `RoutingPolicyHolds`, `WorkersFollowThePolicy` | the same of `PolicyHolds` |
| `CheckpointIsTrue`, `UndoTakesTheTurnAlone` | the same of `CheckpointHolds` |
| `CredentialsAreKept`, `PasswordsAreKept` | the same of `CredentialsKept` |
| `TheRecordIsWhole`, `RecordsAreWhole` | the same of `TimedWhole` |

Only model-checked: liveness, which is out of the prover's reach (`EventuallySettled`,
`EventuallySwitched`, `EveryTaskEnds`, `FailedIsRetried`, `TurnsEnd`, `CardsGo`); what a
fold or a recursion over a log computes for every log (`Project` of
`CompactProjection`, the timeline of `Rewinding`, the counters of `TaskLedger`), which
needs induction with an operator as a parameter; and the invariants of the modules
without a proof module.

## 6. Statements that do not hold

Stated in the modules, beside the properties that hold, and in no run; TLC refutes each
of them on the instance of its module's run.

| Statement | What it quotes | What the code does |
|---|---|---|
| `SessionLog.AckedCommandsSurvive` | "Handoff and steer/rewind events are fsynced" (`cleo/sessions/store.py:221`) | a repeated append whose id is in the log fsyncs nothing, also when the first write was never fsynced |
| `Handoff.CommittedSwitchHonoured` | "Recover it before any later user request" (`cleo/harnesses/service.py:353`) | the recovery comes after an `await` of the candidate's close and is skipped when that raises or is cancelled |
| `Handoff.PublishedHasRoute` | "Initialize a returned harness route before publishing it to desktop callers" (`cleo/desktop/service.py:3122`) | a recovered half-committed switch drops the route of a session that stays published |
| `Runs.CancelledIsCleanedUp` | "Cancel the thread's run and wait until it has cleaned up" (`cleo/desktop/runs.py:112`) | a run cancelled while its finally clause waits for the guard (`service.py:1472`) is over without having been forgotten; its conversation and directory count as busy until it runs again |
| `Runs.RunningIsNotDeleted` | "A thread that is running ... cannot be deleted" (`cleo/locales.json:522`) | the check (`service.py:399`) comes before awaits during which a run may start |
| `ClaudeTurn.StoppedIsNotCompleted` | a turn stopped while it waits is cancelled and without a response (`tests/integrations/test_claude_background_turns.py:174`); a stream that ends early "must not pass the stage result off as final" (`claude.py:542`) | when the cancellation meets a frame that has arrived and is not yet handled, `waiting` is false already, the other way of reading (`claude.py:527`) does not look at `wait_abandoned`, and the prompt returns completed with the reply of its stage |
| `CodexSession.CancelledEndsAlone` | a cancelled prompt withdraws its requests and interrupts (`codex.py:342-349`) | a request that comes between the two blocks the reader thread, which then cannot read the answer to the interrupt: without the user the prompt does not end |
| `ClaudeSession.OptionsAlwaysTrue` | "Return the model and effort currently applied" (`claude.py:266`) | an update whose second step fails leaves the process with what it took; the next one compares with the old options and may skip what would repair it |
| `ClaudeSession.NoneLeft` | "and removes the session" after it disconnected the process (`claude.py:860-876`) | a session closed while an operation replaces its process leaves the new one running |
| `AcpSession.OptionsAlwaysTrue` | "Return the model and effort exposed by the ACP session" (`acp.py:634`) | an update that sets the model and then finds no such effort raises, and the options still name the old model |
| `CodexSession.NoLeak` | a closed session's client is closed (`codex.py:836-884`) | a session closed while its client is replaced keeps the new client |
| `Delegation.RequestsForgotten` | "Delete transient commands/tool arguments after the decision or cancellation" (`cleo/routing/approvals.py:77`) | the desktop's write may come after the worker removed the file, and stays |
| `Delegation.CancelledIsTerminal` | "Retain pre-execution cancellation.  Output: terminal task record" (`cleo/routing/execution.py:204`) | a cancellation while the files are read before an attempt is met by no handler; the record says "running" |
| `Delegation.CardsGoAlways` | a request goes from the window when it is decided or withdrawn (`routing/approvals.py:122`) | the watcher may be stopped after it showed a request and before it noted that; when the run goes on with another prompt, the card stays |
| `MemoryQueue.AutomaticAttemptsBounded` | a persistent failure costs at most three automatic attempts (`docs/adr/0001`) | a manual review that is cancelled, or another process, puts a source that used them up back as pending, which is not counted |
| `MemoryQueue.NewerEventsGetAPass` | "newer events still need a pass" (`background_memory.py:132`) | a revision that was attempted here, and that a cancelled manual review put back as pending, counts as passed over (`_suppressed`) and waits for further events or another manual review |
| `Dream.ExternalChangeKept` | changes made elsewhere may not be overwritten (`docs/MEMORY_MARKDOWN_GIT.md:17`) | between the last comparison and the replacement of the file an editor's save is lost |
| `Permissions.RunsAsDue` | "Changes made after this run was reserved belong to the following run" (`service.py:1775-1779`) | such a change makes the queue differ from the one that was reserved, and then nothing of it is applied: the turn has neither what was due nor what was chosen last |
| `Workspace.WorksWhereItBelongsAlways`, `RunningIsShown`, `RunningExists`, `PathsStay`, `HiddenUntilOpened`, `ListedWhereRegistered` | checks before the awaits of move, delete and remove (`service.py:399`, `457`, `498-499`, `635`) | a turn that begins at one of these awaits works in the old directory, in a hidden project or in no thread; two folders of one name take each other's path |
| `HostControl.NeverLeftDown`, `SentBeforeIsStopped`, `NothingOverlooked` | a stop releases what is pressed (`host.py:660-690`) and ends what was sent before it (`tests/integrations/test_computer_host.py:349`) | a stop that gave up waiting clears the list while a drag presses its button; an operation sent before a stop may read the generation after it; input between the last look and the new baseline is overlooked (`host.py:651-652`) |
| `SandboxCredentials.OneFailedLogonEver` | "each stale record costs at most one failed logon" (`codex_sandbox_credentials.py:25-26`) | a run that dies, or whose file Codex deletes between the look at its protection and the last read (587, 594), saves nothing and forgets the failure; the 65th failing record pushes out the oldest (294), which is tried again |
| `SandboxCredentials.ReplacedIsKept` | "previous users files, restorable with `restore`" (`codex_sandbox_credentials.py:29`) | the backup is of what was read before the setup's mutex was taken (537, 584): of a file a setup wrote in between there is none |
| `SandboxCredentials.CurrentWorks`, `AlwaysProtected` | "no password change since they last logged on" (`codex_sandbox_credentials.py:546`); "Never leave working secrets readable" (588) | two setups within the tolerance of the times look like one; a run that dies after its write, or a restore, leaves the file unprotected |
| `SessionMove.ConsolidatedStaysEver` | "A session already consolidated into its project cannot move" (`cleo/sessions/store.py:395`) | a move takes no project lock: a review that finishes between its look (404) and the unconditional discard (452) has its mark thrown away, and one that registers after that leaves a source state of the old project behind |
| `CodexSession.AnsweredIsGiven` | "Persist/display the answer before releasing the waiting agent" (`cleo/harnesses/questions.py:152`) | the answer is logged and shown first (155) and only then it is seen that the question was withdrawn meanwhile (156): the log says "answered", the server was told otherwise |

Other behaviour met while modelling, which the properties except by name:

- `Rewinding`: a run may begin during an edit, which only checks that none is under way;
  its turn is then hidden by the marker while the harness keeps it.  Claude's `rewind`
  sets `native_session_id` before it reconnects (`claude.py:366`), so after a failed
  reconnect the next resume goes on in the cut copy.  An edit cut short before its
  marker leaves the harness with less than the window shows.  A turn the harness never
  got, with the text of an earlier one, is located at the earlier one.  Editing the
  first message leaves the manifest without a native session, and a restart before the
  next turn then finds nothing to resume (`service.py:3156`).
- `TurnRelay`: a cancellation that strikes during the last sweep of `end_turn` leaves
  the other requests pending and the host marked as in a turn.
- `MemoryQueue`: the dream of another process reads events, waits, and then registers
  them, which can put back an older revision; a source left running by a process that
  died is not tried again by a desktop that already tried that revision.
- `Timeline`: the index keeps no state between events for errors seen before
  (`projection.py:171`), so an error and the failed end of the session with the same
  text are both shown after a reload; a receipt updated inside turns that are later
  rewound keeps the later status.
- `Configuration`: saving a connection again without the model dreaming uses makes a
  file that `settings.py:656-664` refuses (`desktop/configuration.py:49-101`); an edit
  between the first reading and its signature is not seen (`config/service.py:68-74`); a
  turn bound to an older snapshot may build the adapter from it (`service.py:3196-3209`);
  a save loses an outside edit made between its reading and its write.
- `GitCheckpoint`: what the user stages between the comparison and `read-tree` is lost
  (`git.py:392`); a crash between the ref and the manifest (`service.py:2350`, `2354`)
  leaves a checkpoint git may collect, and one between `apply` and `read-tree` an undo
  half done.
- `RoutingPolicy`: another process may write between the comparison of a save and its
  writes (`routing_settings.py:221-280`), a reader between two files sees a mixed policy,
  and a manual turn after a routed one keeps the native preset.
- `Snapshots`: `compact_session` and `rewind` append without the lease, and so may slip
  in between the comparison of a switch and its commit (`harnesses/service.py:315-323`).
- `TaskLedger`: work delegated while the application had lost its binding counts as
  history; a worker bound by an older version, when it delegates, binds to the task of
  the moment; a provider's counter that starts again can hide what was spent.
- `Timing`: a second cancellation during the drain reaches the bare `await saving`
  (`timing.py:234-235`), and the final state may then not be in the store.

## 7. Plan

Done: the modules of section 2, and the proofs of section 5.

Next, proofs, in this order: that a session of `SessionMove` that is not moved implements
`DurableLog` as well; `Workspace` and `HostControl`; the other parts of `MCConversation`
and `MCMachine` that have no theorem yet.

Then the transactions of `ui/electron/evolution.mjs` and `updater.mjs` (build, apply,
accept, roll back over restarts), and the rewriting of transcripts by ACP's session
management.

## 8. Not modelled

The chat agent and its tools, the views of the user interface, parsing and validation
of single settings, scoring and discovery of routing candidates, the labels and
missing-call accounting of the task ledger: I/O, parsing and data, in which a state
space says little that a test does not.  The protocol server in front of the desktop
service passes calls through.  `SubscriptionLogins` and the import of external sessions
are called by nothing but their tests.  Two processes that change `memory_state.json` at
once, whose lock is of one process, can lose one of the changes (`memory/state.py`); the
models take a change of that file as one step.  The Electron shell's transactions are
planned.
These, with protocol types and the formatting of results, are most of the lines that no
definition maps.
