# A TLA+ verification project for Clanky

Clanky is a Bun/TypeScript server that runs coding agents on software tasks. A
user describes a task; a task engine runs an external agent (Codex, Copilot,
OpenCode, Claude Code, ...) in turns on a git branch of its own until the agent
says it is done, while users watch, interrupt, add messages, accept plans, stop
and delete. Around the tasks there are chats, scheduled agents, remote workers
(the mesh), terminals, previews and a web UI. Paths below are relative to the
repository root; the server is under `src/` of it, so `src/core/...` here is
`src/src/core/...` in PROJECT.json.

The project models the parts in which a mistake costs the user most and a test
reaches least: the run loop of a task, the durability of its state, the way a
user's message travels to the agent, the operations of the task's lifecycle
around them, the runs of scheduled agents, the messages and turns of a chat, the
coordinator of interruptible operations, and the broker that connects a
controller with its workers. All of it is one JavaScript thread, so
nothing is ever preempted, but every `await` lets other callbacks run: requests
of users, answers of the agent, the abort of an earlier operation. The modules
therefore take as one action the code between two awaits. Calls into SQLite are
synchronous behind their promises: a handler that awaits nothing else runs
through in one turn of the event loop and is one action.

Contents: 1 inventory, 2 plan, 3 modules and how they correspond to the code,
4 runs, bounds and fairness, 5 proofs, 6 findings, 7 what is not modelled.

## 1. Inventory

For each component: its state, its operations, whom it talks to, what is hard
about it, and the properties that make it correct. PROJECT.json lists the same
components with their files, and every hazard at its line.

### Task engine persistence (modelled, its policies excepted)

`core/memory-first-persistence-queue.ts`, `core/engine/engine-persistence.ts`,
`core/transcript-change-tracker.ts`, `persistence/tasks/updates.ts`.

- State: the task in memory, a dirty flag with a version number, the version of
  the harness inputs, the pending change of each transcript entry, the one
  drain in flight, and the row with its transcript rows in SQLite.
- Operations: mutate and mark dirty, record a transcript entry, request a
  checkpoint, flush inputs, disable, delete the row, restart from the row.
- Interactions: the engine mutates and asks; the task lifecycle deletes the row
  under it; everything that must survive a crash before it may go on (a prompt,
  a steering claim) awaits the promise of a request.
- Hard: callers share the promise of a drain that took its snapshot before they
  mutated; mutations arrive during a write; writes fail; the process dies.
- Correct when: no mutation is forgotten, a resolved promise is durable, the
  row never goes back, every caller gets an answer.

### Task engine run loop (modelled in part)

`core/engine/engine-core.ts`, `engine-prompt-executor.ts`,
`engine-session-lifecycle.ts`, `engine-prompt.ts`, `core/task-state-machine.ts`,
`core/task/task-plan-mode.ts`, `task-pending-engine.ts`.

- State: the task's status, plan mode, iteration counter, streak of errors and
  pending input; the engine's `aborted`, `injectionPending`, `isTaskRunning`,
  `isStarting`; the session, its stream and the interrupts in flight.
- Operations: start, the iteration loop, evaluation of a turn, retry, failsafe,
  iteration limit, injection of a message, plan feedback, plan acceptance,
  stop, stop for deletion, completion follow-up.
- Interactions: the agent through a harness backend, the task manager above,
  the persistence queue and the mailbox beside it.
- Hard: an injection and a stop raise the same flag; the loop is parked at any
  of a dozen awaits when either comes; some of them wait for the agent; the
  status read before a wait is used after it; counters are rolled back.
- Correct when: a stop is final and ends the loop, a message injected is
  served, a running task has somebody running it, planning turns stay in
  planning, the failsafe and the iteration limit count right.

### Task input mailbox (modelled, its capacity excepted)

`core/engine/engine-inputs.ts`, `core/harness-input-ledger.ts`,
`core/task/task-input.ts`, `task-jumpstart.ts`, `task-follow-up.ts`.

- State: the pending message with its id and attachments, the receipt of every
  message that was steered, the transcript, and the same in the row.
- Operations: set, set attachments, clear, build a prompt from it, steer,
  reconcile, and the takeovers by jumpstart and follow-up.
- Interactions: two consumers, the next prompt and the native steering RPC;
  the persistence queue; the lifecycle queue that serialises steering.
- Hard: both consumers read, await and read again; the RPC's answer may be lost
  or arrive after a restart; the checkpoint after it may fail; a takeover edits
  the row directly.
- Correct when: a message reaches the agent at most once, what reached it is on
  record, and what a user was told is stored is not lost.

### Task lifecycle and TaskManager (modelled in part)

`core/task/*.ts`, `utils/keyed-operation-queue.ts`.

- State: the map of engines, one FIFO queue of operations per task (128
  waiting, 1000 over all), the rows' status and logical deletion, deferred
  cleanups.
- Operations: create, start, plan, draft, stop, delete, purge, accept, push,
  jumpstart, follow-up, revive, manual completion, idle cleanup, shutdown. All
  but the calls on the pending message go through the queue; `markMerged` and
  `forceResetAll` do not.
- Hard: a deletion marks the row, takes the engine out of the map and defers
  stopping it to a slot it reserved behind itself, which may be refused at
  capacity; a stop gives up waiting after 30 s; an engine that settles its
  completion is still writing when its successor is built; the two operations
  beside the queue overlap all others.
- Correct when: at most one loop executes, every loop can be stopped, Git is
  cleaned up under none, a row that says it runs has a loop, the queue drains,
  a deleted task's loop ends.

### Task git, push, review and PR flow (push and follow-up as operations only)

`core/task/task-git-*.ts`, `core/engine/engine-git.ts`,
`core/pushed-task-monitor.ts`, `core/automatic-pr-flow-github.ts`.

- State: branch and worktree of a task, review cycles, the monitoring state of
  a pushed task and its pull request.
- Operations: commit, merge, push with conflict resolution by a further engine
  run, accept locally, address review comments, poll pull requests.
- Hard: the push waits for an engine to resolve conflicts and then goes on with
  a state it read before; the monitor polls while users act.
- Correct when: a push happens once and only of what was accepted; the monitor
  never overwrites a newer state.

### Agent runs (modelled in part)

`core/agent-manager.ts`, `agent-scheduler.ts`, `agent-runner.ts`,
`agent-run-stream-persistence.ts`.

- State: the agent's row with its next run time and its active run, the rows of
  the runs, the active runs in memory with their abort controllers, their chats.
- Operations: tick, run now, execute, interrupt, edit, delete a run, delete the
  agent, reconcile after a restart.
- Hard: four places say that a run is active (the agent's row, the run's row,
  the map, the chat) and are updated apart; requests write back an agent they
  loaded before a wait; the executor finds its run interrupted or deleted when it
  returns; its last checkpoint may fail.
- Correct when: one run executes at a time, no slot runs twice, an interruption
  is final, and nothing blocks the schedule without a run.

### Interruptible operations (modelled)

`core/interruptible-operation.ts`, with its clients `promptDeterministicAgent`
and `generateDeterministicAgentCode`.

- State: the active phase, the cancellation with the phase it captured, the
  first and the late interrupt.
- Operations: construction, the abort signal, `runPhase`, the check between
  phases, `dispose`.
- Hard: a message may be accepted after the interrupt that should have stopped
  it and needs a second one; the wait for it is bounded by 5 s; a signal may
  have aborted before the coordinator exists.
- Correct when: a cancelled client leaves no turn running and always returns.

### Agent streams and quiescence (not modelled)

`core/agent-stream-controller.ts`, `harness-quiescence.ts`. Subscribe, prompt,
consume, close; `TaskEngine` and `Chats` have what their clients see of it: a
stream that is open, closed, cut off, or ends without a final event.

### Chats (modelled in part)

`core/chat-conversation-service.ts`, `chat-interaction-service.ts`,
`chat-state-service.ts`, `chat-session-service.ts`, `chat-manager.ts`,
`chat-lifecycle-service.ts`, `chat-worktree-service.ts`.

- State: the row with its status, queued messages and transcript; in memory the
  operation queue of the chat, the startup of a turn, the active stream, the
  interruptions under way.
- Operations: send, enqueue, remove, drain, dispatch a turn, consume its events,
  interrupt, mark done, recover after a restart, and for native backends
  steering, questions and permissions.
- Hard: an interruption does not queue: it meets the startup it wants to stop at
  any of its awaits; a drain takes messages off the row before the agent has
  them; a turn that ends has to start the next one; the waits of an interruption
  are bounded by timers.
- Correct when: no message is sent twice or lost, a busy chat has somebody who
  will end the turn, a waiting queue is served.

### Harness backends (external to the models)

`backends/acp`, `backends/codex`, `backends/copilot`, `backends/opencode2`,
`core/backend-manager.ts`, `core/harness-activity-service.ts`.

Protocol adapters of external agents: processes, sessions, event translation,
capabilities. They appear in the modules by what they can do to the server: any
answer, an error at any time, a lost reply, a dropped session, a cancellation
that arrives late. Two families behave differently, ACP agents and native ones;
`TaskEngine` and `TaskInputs` keep both, `Chats` has ACP only.

### Mesh: relay, gateway and workers (the broker modelled)

`core/mesh-manager.ts`, `mesh-relay-broker.ts`, `mesh-relay-connector.ts`,
`mesh-relay-data-stream.ts`, `mesh-execution-gateway.ts`,
`mesh-command-executor-client.ts`, `controller-relay-service.ts`.

- State: control connections of one controller and its workers, the snapshot of
  authorized workers, tickets, reservations, data connections and live streams
  of the broker; queue, pending reader and close state of a data stream;
  executions on a worker.
- Operations of the broker: open, authenticate, replace, close, stage and commit
  an authorization, issue, cancel, expire and redeem a ticket, pair, close.
- Hard: half a dozen maps describe one stream and are updated apart; a
  connection is replaced by a successor while its own close event is still to
  come; a worker returns with another key, or is revoked, while it has tickets.
- Correct when: the tables name the latest connections, no ticket or stream
  outlives the trust it was given, no socket is left open that nothing closes,
  the limits hold.

### Worker update and worker lifecycle (not modelled)

`cli/worker-service.ts`, `core/worker-update/runner.ts`,
`core/worker-update-manager.ts`.

Jobs of two steps (update, restart) whose state survives the server,
persisted before and after each step; the worker replaces its own binary and may
not answer the restart. Correct when a job that died is resumed or failed, a
lost restart response is not taken for a failed restart, and one job runs per
worker.

### Terminals, previews and code servers (not modelled)

`core/terminal/*`, `core/terminal-session-manager.ts`,
`core/preview-session-manager.ts`, `core/mesh-terminal-gateway.ts`.

Tables of sessions over operating system processes and sockets, with
reconciliation of stale rows at startup. Mostly I/O; the close-once and
register-once maps of the preview manager are the part worth a model.

### Collaboration client (not modelled)

`client-sdk/collaboration/*`. Connections of a browser or another controller to
shared workspaces: leases, single flights, a serial tail of lifecycle
operations.

### Provisioning, workspaces and files (not modelled)

`core/provisioning-manager.ts`, `core/file-explorer-service.ts`,
`core/file-system-locks.ts`. Sequential workflows over ssh, containers and the
file system. The lock table with expiry is small and self-contained.

### Persistence of other entities and migrations (not modelled)

`persistence/**`. Synchronous SQLite statements; each is atomic by construction
and has no interleaving of its own.

### HTTP API, realtime and web UI (not modelled)

`server.ts`, `realtime.ts`, `App.tsx` and the routes. Routing, rendering and
notifications over the components above.

## 2. Plan

The order is that of what a user loses when it breaks. Done, in this order:

1. `TaskPersistence`, with the abstract `DurableStore` it implements; proved.
2. `TaskStatus` and `TaskEngine`; every safety property proved, the action
   properties included.
3. `TaskInputs`, with the abstract `MessageDelivery` it implements; proved.
4. `TaskLifecycle`: the queue of operations that `TaskEngine` and `TaskInputs`
   take for granted; its four safety invariants proved.
5. `InterruptibleOperation`, `AgentRuns`, and `RelayBroker` with the abstract
   `StreamTickets` it implements; their safety proved.
6. `Chats`, a second implementation of `MessageDelivery`; its safety proved.

Left, in this order:

7. Task lifecycle: plan mode and reviews, local acceptance, conflict resolution
   with the push that waits for it, shutdown; then the monitor of pushed tasks.
8. The capacity of the receipt ledger behind `TaskInputs`.
9. Native backends of a chat: steering, questions, recovery from history.
10. `RelayDataStream` (queue, pending read, close and flush meeting in one turn)
    and the connector, beside `RelayBroker`.
11. Worker update: two persisted steps over a restart of the worker.

Compositions left: `TaskInputs` over the queue of `TaskPersistence` (today it
relies on `PromisesAreDurable`, which is proved), and `TaskLifecycle` with
`TaskEngine` in the place of its engines of four phases.

## 3. Modules and how they correspond to the code

A step of a module is the code between two awaits. What an awaited call outside
the module can do (return, throw, never return) is a choice of the step after
the await. The history variables of a module are named in its VARIABLES; no
guard of a modelled operation reads one, except to bound what users do. An
operator commented "Mutant" is no part of the specification: it is a plausible
bug of the operation that follows it, and PROJECT.json lists which property
fails when it takes that operation's place.

### CheckpointContent, DurableStore

`CheckpointContent` says what a checkpoint carries: versions of the state, of
the harness inputs and of each transcript entry, and when one content covers
another. `DurableStore` is the abstract specification: memory runs ahead of the
store, the store moves only forward and never beyond memory, only what the store
holds is acknowledged to a caller, and a crash takes memory back to the store.

### MessageDelivery

The abstract specification of what a user may expect of a message, whatever
carries it. A message is unsent, then held, and has one end: given to the agent
(once), shown in the transcript although the agent may not have got it,
withdrawn or replaced by the user, or refused. `fate` is where it is, `copies` how
often it was given. `TaskInputs` and `Chats` each define `FateOf`, the fate of a
message in their own state, and implement it: `ImplementsDelivery`. A fate of
`"lost"` is no state of the abstract specification, so the refinement also says
that no message has it.

### StreamTickets

The abstract specification of a ticket of the relay: issued once, redeemed once by
each side, joined by the socket of a side that has redeemed it, a stream when
both have joined, and ended with both sockets in one step, for good.
`RelayBroker` implements it with its tables, reservations and sockets:
`ImplementsTickets`.

### TaskPersistence

| Module | Code |
| --- | --- |
| `version`, `dirty` | the operational state, one version per mutation, and its dirty flag |
| `inputVersion`, `persistedInputVersion` | the harness inputs in memory and as last written |
| `entry`, `changes`, `nextVersion` | transcript entries and the tracker's pending changes |
| `drain`, `snapshot`, `requested` | the drain in flight, what its pass captured, the flag a joining caller sets |
| `enabled`, `row`, `db` | `onPersistState`, the row (live, deleted, missing) and what its columns hold |
| `Trigger`, `UpdateState`, `PersistEntry`, `FlushInputs` | the callers of the engine: mutate, mark, request |
| `Request`, `Pass`, `LoopAgain`, `Resolve`, `Reject` | the loop of `MemoryFirstPersistenceQueue` |
| `Written` | `updateTaskState`, including the answer `false` for a missing row, which the engine does not treat as an error |
| `Disable`, `DeleteRow`, `Restart` | a deletion in two steps, and a crash at any point |

Left out: the byte thresholds that decide when a checkpoint is due (a request is
always possible), the limits of the transcript and its import from a snapshot.

### TaskStatus, TaskEngine

`TaskStatus` is the transition table of `task-state-machine.ts`. `TaskEngine`
has one `loop` place per await of `runTask` and of the turn it runs, one
`starter` place per await of `start()`, one `op` place per await of the lifecycle
operation that holds the task's queue, and counters for the interrupts that
requests have in flight.

| Module | Code |
| --- | --- |
| `Start`, `SetupDone`, `SetupFails` | `start`, `startOwned`, workspace and session setup |
| `Connect`, `Build`, `OpenStream`, `SendPrompt` | the executor up to the prompt |
| `AgentAnswers`, `TurnFails`, `TurnCancelled`, `CancelledByAbort`, `StreamCut` | how a turn can end: an answer with or without a marker, an error, a cancellation (which an abort that has come by its evaluation turns into a cut), a cut stream |
| `HandleResult`, `HandleSingleTurn`, `HandleError`, `Failsafe`, `HandleInterrupted`, `Counted` | the evaluation of a turn, the streak of errors, retries |
| `FinishCompletion`, `AnnouncePlan`, `RetryCheckpointed`, `NextRound`, `AtLimit` | the loop between turns |
| `Inject`, `GiveFeedback`, `InjectPlanFeedback`, `ClearPending` | the requests of users on a live engine |
| `AcceptBegins`, `AcceptPlan`, `AcceptTimesOut`, `SyncFails`, `ContinueExecution` | acceptance of a plan |
| `StopBegins` ... `StopReturns`, `StopTimesOut` | `stop` and `stopForDeletion`, whose waits are bounded by timers |
| `RequestAbort`, `CloseStream`, `AbortDelivered`, `QueuedAbortBegins`, `DisconnectDelivered` | the interrupts and their arrival |
| `FollowUpRuns` | the completion follow-up (commit, push) |

Both families of adapters are kept, because an ACP agent is cut off by an abort
while a native one answers it. Error codes matter as far as the code compares
them with the previous one. A message is only `"context"` (plan feedback) or
`"user"`: its text and its delivery are `TaskInputs`'s subject. Left out:
attachments, conflict resolution, pending model changes, the details of
commits, shutdown and the forced reset.

### TaskInputs

`mem` holds the pending input, the receipts and the transcript, `row` the same
in SQLite, `op` the steer or reconcile in flight (one at most: they run in the
task's lifecycle queue), `prompt` the prompt the loop is building.

| Module | Code |
| --- | --- |
| `Set`, `SetAttachments`, `Clear`, `Peek`, `Admitted` | `set`, `setAttachments`, `clear`, `peek`, `assertMutable` |
| `BuildPrompt`, `ConsumePrompt`, `CheckpointPrompt`, `SendPrompt`, `DropPrompt` | `buildPrompt` on both sides of its await, the checkpoint before the prompt, the send |
| `Steer`, `Claim`, `FlushClaim`, `Submit`, `Finish`, `FlushFinish` | `steer`: preparation, the claim, its flush, the RPC, its answer, the second flush |
| `Reconcile` | `reconcile` by the provider's history |
| `LoopEnds`, `Stop`, `Release` | the end of the loop, a stop, the cleanup of an idle engine |
| `Jumpstart`, `Resume`, `FollowUp`, `TakeOver` | the takeovers, which edit the loaded row and start an engine from it |
| `Crash` | a restart: memory, prompt and operation are gone, the row is what is left |

An input is known by the message that minted its id; its attachments array is
known by whether it is still the one that was read. A reconciliation may find an
input in history whenever the provider has it, and may always fail to tell:
that is a superset of what the three native adapters do. `handed` counts what the
provider was really given, lost replies included.

For `MessageDelivery` a message is held while memory or the row has it pending, a
prompt was built from it, or only memory shows it in the transcript (`Open`): until
the row agrees a crash can still bring it back. A message that was overwritten by a
takeover or a later one counts as withdrawn, one whose call failed as refused.

Left out: the capacity of the ledger (800 unresolved, 199 settled receipts),
input history found invalid, and a session binding that changes under an
operation. A prompt that is sent again after `acp_session_not_found` counts as one:
that error is taken to mean that the agent refused the first and never ran it. An
engine that is taken over has ended: late checkpoints of one that still settles, or
whose stop timed out, are the subject of `TaskLifecycle`, which has no mailbox.

### TaskLifecycle

One task. `row` is its status in the tasks table, `engines` the entry of
`ctx.engines`, `eng` every engine ever built, `queue` the requests in their order
(the first one runs), `run` the await that one is parked at with what it read
before, `deferred` what a deletion handed to the slot behind it, `side` the
operation beside the queue.

| Module | Code |
| --- | --- |
| `Submit`, `SubmitDeletion`, `InjectStale`, `AskIdle` | `enqueue` of `TaskLifecycleOperations`, with the reservation of the cleanup's slot and the refusals at capacity; an injection into a task without an engine |
| `Begin`, `Complete`, `Settle`, `End`, `EndUnsaved`, `Unwind`, `Save` | what a loop does to the row and to itself, as far as the operations see it |
| `StartLoad`, `StartBuild`, `Fail` | `startTask`: load, build, start; an operation that throws |
| `Stop`, `StopMarks`, `StopAtOnce`, `StopSettles`, `StopTimesOut`, `StopRecords` | `stopTask` over `engine.stop`, with its 30 s wait |
| `Delete`, `Purge`, `Defer`, `Cleanup` ... `CleanupGit` | `deleteTask`, `purgeTask`, and the cleanup in the reserved slot: stop the engine, then the worktree and the branch |
| `Jumpstart`, `JumpstartBuilds`, `JumpstartRestarts`, `Revive` | `jumpstartTask` on a live and on a settled engine, `reviveTask` |
| `FollowUp`, `FollowUpDrops`, `FollowUpRuns`, `Push`, `PushWrites`, `PushFinishes` | follow-up turns and the push |
| `ManualComplete*`, `OpenTerminal`, `Idle*` | manual completion, a terminal that takes its turn in the queue, the cleanup of idle engines |
| `Merge*`, `Reset*` | `markMerged`, `forceResetAll`: beside the queue |
| `Crash` | a restart: only the row is left; a stale status in it is dealt with by the request that meets it |

An engine has a phase (executing its loop, settling its completion, idle), the
status it holds, its abort flag, and `keeps`: whether it may still write the row.
The first checkpoint of an engine is synchronous and so part of the start; a row
says `completed` before the final commit of the loop. `planning` to `planning` is
not in the transition table, so a jumpstart of a planning task without an engine
throws; the model has that through `TaskStatus`.

`lost` is a history variable: how an engine first left the map, or the right to
its row, while it was executing. The code has six ways (a stop that times out, a
refused slot, a completion that is still settling, `markMerged`,
`forceResetAll`, a cleanup that times out); `Intact` says that none of the first
five has happened, and the invariants are about loops that were not lost. They
say so because the code does lose engines: section 6 lists the ways.

Left out: plan mode and reviews, local acceptance, conflict resolution,
recovery of native engines, shutdown; the bound over all tasks.

### InterruptibleOperation

| Module | Code |
| --- | --- |
| `Abort` | the signal, at any moment, before the construction as well |
| `InitialInterrupt`, `LateInterruptStarts`, `LateInterrupt` | `requestInterrupt` for the phase under way, and again after a send that was accepted late |
| `CancellationSettles`, `SettlementTimeout`, `LateDroppedAtTimeout` | `cancelActivePhase` and its 5 s |
| `RunPhase`, `RunPhaseAborted`, `StartOperation`, `OperationSettles`, `PhaseEnds`, `AbortErrorThrown` | `runPhase` and its race |
| `TurnStarts`, `TurnEnds` | the chat accepts the message of a send; its turn ends |
| `Poll`, `ProgramEnds`, `Dispose`, `Finish` | the clients between phases, `dispose` |

A program is the sequence of sends, waits and polls a client makes; the module
is a parameterised family, the run has the two programs of the code.

### AgentRuns

| Module | Code |
| --- | --- |
| `SkipDue`, `RunDue`, `Tock` | the tick of the scheduler, and time passing a slot |
| `RunNow`, `StartRun`, `StartFails` | `runAgentNow`, `startRun` |
| `ChatCreated`, `ChatNotCreated`, `TurnEnds`, `RunEnds`, `RunEndsUnsaved` | `executeRun` between its waits: the chat is made, the turn ends, the outcome is recorded or its last checkpoint fails |
| `Edit` | `updateAgent` without code, `pauseAgent`, `resumeAgent`: load and save in one turn of the event loop |
| `EditBegins`, `EditSaves`, `EditFails` | `updateAgent` with code: it computes the agent it will save, the due time included, waits for a file, and saves that |
| `InterruptBegins` ... `InterruptEnds` | `interruptAgent`: the row, the abort, the chat |
| `DeleteRunBegins`, `DeleteRun`, `DeleteAgentBegins`, `DeleteAgent` | the deletions, on both sides of the waits in them |
| `Restart`, `Reconciled` | a restart: runs that were active are recorded as failed, the agent is free again |

The due time an edit computes is the one the agent had, any later than the clock,
or one the request names, which may be past. `backdated` records the past times
that requests named; a slot that runs again because of one is no fault of the code,
and `NoSlotTwice` excepts it.

`intact` is a history variable: FALSE once an edit or an interruption saved an agent,
an active run or a due time that was over by then, a run was deleted under its
executor, or the last checkpoint of a run failed. The
safety properties hold until then; what happens after is section 6. Left out: the
purge of old runs, the chat that generates an agent's code, streamed events of a
run between start and end.

### Chats

| Module | Code |
| --- | --- |
| `Call` | a send, a removal, or the automatic drain, put into `inputOperations` |
| `Enqueue`, `SendDirectly`, `SendQueued`, `RemoveQueued`, `DrainNothing` | the operations when their turn has come |
| `SessionCreated`, `Prompt`, `Started`, `StartedClosed`, `StartInterrupted`, `StartFails`, `StartOvertaken` | the dispatch of a turn: workspace and session (which outlives a dispatch that fails later), the prompt, and how it can end |
| `TurnCompletes`, `TurnFails`, `TurnEndsUnmarked` | the consumer of events, at the end of a turn |
| `Interrupt`, `Disconnected`, `SettleTimeout`, `MarkDone` | `interruptActiveTurn` with its two bounded waits, `markDone`; interruptions that share one disconnection end together |
| `Restart` | a restart and the recovery of the row |

The adapter is that of ACP. A drain sends a batch whose boundary depends on
attachments and options: it is any prefix of the queue. `lost` is a history
variable with four values: `unmarked` (a stream closed without a final event),
`timeout` (a startup did not settle within 5 s of an interruption), `overtaken`
(an interruption completed over a newer startup), `forgotten` (a restart
schedules no drain for a queue that waits). Each is in section 6; the properties
name the ones they except. For `MessageDelivery` a message is held while its
sender waits, while it is queued, and while a startup has it in its batch; a
message in the transcript after a startup that ended badly is shown.
Left out: native backends, deletion and the trash, worktrees, chats on execution
hosts; `reconnectSession` and `continueFromHistory`, which run as startups of their
own; a permission reply that fails and marks the chat failed; the drain of a batch
that is empty, or whose attachments are too large, which clears it or marks the chat
failed without a dispatch.

### RelayBroker

| Module | Code |
| --- | --- |
| `OpenControl`, `ControlLost`, `AuthenticateController`, `AuthenticateWorker` | the control socket: limit of connections, replacement of a predecessor, `closeControl` |
| `BeginAuthorization`, `StageAuthorization`, `DiscardAuthorization`, `CommitAuthorization` | the snapshot of authorized workers, staged in pages, and what a commit revokes |
| `RequestStream`, `CancelRequest`, `TicketExpires` | a ticket: limits, ends, timer |
| `ReserveDataSocket`, `CloseData`, `AttachDataSocket`, `Pair`, `StreamFails` | redemption by both sides, from the upgrade to the live stream |
| `Stop` | shutdown |

Every handler of the broker is synchronous, so an action is a handler; what can
go wrong is what a sequence of them leaves behind. A send that fails is the
handler followed by `ControlLost` or `StreamFails`. Frames that arrive before the
pairing are dropped: both clients wait for `stream.ready`. The broker checks some
conditions which its own invariants exclude; those branches are not modelled.
Limits are checked when a ticket is issued and not when it becomes a stream, so a
node may have up to `MaxStreams + MaxTickets - 1` of both: `LoadIsBounded` states
that bound. Left out: the client role, admission nonces, signatures,
routes and headers, byte counts, the audit, `setStreamStatus`.

## 4. Runs, bounds and fairness

| Run | Shows | Bounds |
| --- | --- | --- |
| `checkpoints` | the checkpoint queue implements the durable store (the row never goes back); nothing is lost, promises are durable, every caller gets an answer | two transcript entries, four mutations: one before, one during and one after a write, and one more for a second caller to join with |
| `task_engine` | plan mode, no stranded task, failsafe, iteration limit, finality of a stop, feedback before acceptance | below |
| `task_engine_liveness` | a stop drains the engine, an injected message is served | no faults, no iteration limit, two turns, two inputs |
| `task_inputs` | at most once, on record, nothing acknowledged lost; the mailbox implements `MessageDelivery` | two messages, two restarts, one fault |
| `task_lifecycle` | one loop, within reach of a stop; Git cleaned up alone; active rows have loops; the queue drains, a deleted task's loop ends | queue of three, two engines, four requests, one timeout, one restart |
| `interruptible_operation` | a cancelled client leaves no turn and returns | the two client programs |
| `agent_runs` | runs exclude each other, only runs block, slots run once (but for stale saves and requests that name a past time), interruptions are final, nothing blocks for ever | two clients, two runs, two slots, two requests, one fault |
| `chats` | nothing lost, busy rows and waiting queues have somebody to serve them, queued messages are served; the chat implements `MessageDelivery` | three messages, two users, a queue of two, two interruptions, one fault |
| `relay_broker` | current peers, trusted ends, owned sockets, bounded load; the broker implements `StreamTickets` | three connections, three tickets, one node, two keys, two snapshots; limits 6, 1, 2 and 1 |
| `stop_during_injection`, `admitted_input_replaced`, `skipped_for_no_run` | the findings of section 6 | the smallest that reach them |

`task_engine` uses two codes, a limit of two and a failsafe of two: a streak can
grow, break by another kind of error and grow again, and both thresholds are hit
exactly, missed by one, and rolled back by an error. Three turns are one before,
one during and one after an injection; two inputs let an injection meet an
acceptance, a stop or another injection. One checkpoint may fail, at any of the
places that write one. `MaxTurns`, `MaxInputs` and `MaxFaults` bound the
environment only: users act `MaxInputs` times, `MaxFaults` checkpoints fail, and
from turn `MaxTurns` on the agent neither fails nor asks to continue. The
server's own steps are never held back by a bound, so the liveness run is not
about a loop that ran out of turns.

In `task_inputs` a second message is needed for replacement, takeover and for a
claim of one during the other; a third only repeats a pair. Two restarts allow
one inside the RPC and one inside the reconciliation that follows it.

`task_lifecycle`: a loop in trouble needs a second engine to meet; four requests
are a start, a deletion, a revival and a jumpstart, which is the sequence the
reserved slot exists for; three places in the queue let the slot be refused and
granted. `agent_runs`: an edit that waits, an interruption or a deletion, and a
tick between them are two clients and two slots. `chats`: three messages are one
in a turn and two in the queue, so that a batch has more than one and capacity is
reached. `relay_broker`: a controller, a worker, and a successor of either; two
keys so that the successor may be another worker under the same name; three
tickets make the limits of two and one bind.

Messages, entries and keys are interchangeable: symmetry is declared in
`task_inputs` and `relay_broker` only, whose properties are all safety
properties. Deadlock checking is off where a system at rest is the
normal end: users make a bounded number of requests, and a task, a chat, an
agent or a client that is done waits for nothing. Where it matters that the
system does not rest too early, a liveness property says so.

Fairness, module by module:

- `TaskPersistence`: the drain goes on (`WF(Drain)`). SQLite writes are
  synchronous and the queue's loop has no other wait. Callers stop asking because
  mutations are bounded, which is an assumption and named so: with requests
  during every write the drain need not end.
- `TaskEngine`: weak fairness of the server's own steps, that is the loop between
  awaits, `start()`, the handling of results, interrupts, and the stop operation.
  None of the agent (`AgentStep`), of the users, of the timers of acceptance and
  stop, or of deletions. An aborted stream is presumed to wake up its reader. A
  stop closes the stream, so there the code sees to it. An injection only asks the
  agent to cancel (`closeStream: false`): an ACP stream that yields nothing more is
  ended by its activity timeout, a native stream has none. For native adapters
  `InjectionIsServed` therefore assumes that an agent which acknowledges an
  interrupt ends its turn.
- `TaskLifecycle`: operations and the steps of the two beside the queue go on,
  without counting on a timeout; an aborted loop unwinds and a completion
  settles. Nothing makes an agent finish by itself.
- `InterruptibleOperation`: microtasks, the settlement timer, the clients,
  scheduled operations, the bounded calls that interrupt a chat, and sends whose
  message was accepted. An operation need not ever settle otherwise, nor a turn
  end by itself.
- `AgentRuns`: every executor goes on; the turn it waits for ends by itself or by
  its inactivity timeout.
- `Chats`: what is queued runs, the waits of a startup end, a turn ends (by its
  inactivity timeout at the latest), closing a connection ends.
- `RelayBroker` has no liveness property: each handler completes at once, and
  what must eventually happen there is a timer firing.

## 5. Proofs

| Module | Theorems | Inductive invariant |
| --- | --- | --- |
| `TaskPersistenceProofs` | `TypeCorrect`, `NoMutationIsLost`, `ResolvedMeansDurable`, `RowOnlyAdvances`, `QueueImplementsStore` | `TypeOK`, `MemoryAhead`, `NoLostMutation`, `SnapshotWritten`, `JoinedServed`, `PromisesAreDurable` |
| `TaskEngineProofs` | `TypeCorrect`, `PlanModeHolds`, `StopHoldsForGood`, `FailsafeIsFinal`, `IterationsAreBudgeted`, `NobodyIsStranded`, `FeedbackIsSeen` | `TypeOK`, `Parked`, `PlanTurnsStayInPlanning`, `StopHolds`; for the limits also `LoopStatus`, `FailInv`, `Budget`, `Works`; for feedback `FeedbackInv` |
| `TaskInputsProofs` | `TypeCorrect`, `SentAtMostOnce`, `SentIsOnRecord`, `AcknowledgedIsKept`, `DeliveryIsImplemented` | `TypeOK`, `AtMostOnce`, `Authored`, `Sound(mem)`, `Sound(row)`, `Engines`, `Claims`, `Prompts`; for the refinement `Behind` |
| `TaskLifecycleProofs` | `TypeCorrect`, `OneLoop`, `LoopsAreReachable`, `CleanupUndisturbed`, `ActiveRowsHaveLoops` | `TypeOK`, `Parked`, `Phases`, and while nothing was lost `Held`, then `Worked` |
| `InterruptibleOperationProofs` | `TypeCorrect`, `CancelledTurnEndedHolds` | `TypeOK`, `Stages`, `UnderWay`, `TurnWillBeInterrupted`, `CancellationDone` |
| `AgentRunsProofs` | `TypeCorrect`, `RunsExclude`, `NothingElseBlocks`, `SlotsRunOnce`, `InterruptedRunsStay` | `TypeOK`, `NamesSound`, `MarksSound`, and while intact `RowsSound`, `SlotsSound` |
| `RelayBrokerProofs` | `TypeCorrect`, `PeersCurrent`, `EndsTrusted`, `SocketsOwned`, `LoadBounded`, `TicketsAreImplemented` | `TypeOK`, `PeersInv`, `EndsAreTrusted`, `StreamsInv`, `LoadInv` |
| `ChatsProofs` | `TypeCorrect`, `PromptsAreSentOnce`, `AcceptedIsKept`, `BusyRowIsServed`, `QueueIsNotStranded`, `DeliveryIsImplemented` | `TypeOK`, `InputsInv`, `StartupInv`, `MessageInv`, `StatusInv`, `WaitInv`, `QueueInv` |

They hold for every set of entries, codes, messages, programs, clients,
connections, tickets, nodes and keys, and for every bound and limit, under the
assumptions on the constants: bounds and limits are natural numbers, capacities
and the limits of tickets and streams not zero (`BoundAssumption`,
`ConfigAssumption`, `BoundsAssumption`, `LifecycleBounds`, `LimitAssumption`);
the values the models add to a set are not in it (`ConfigAssumption`, each
`NoneAssumption`); a program is a sequence of sends, waits and polls
(`ProgramsAssumption`). All of these are evaluated by the runs. The type
invariants of the modules with proofs are proved, and not also run.

*TaskPersistence.* `NoLostMutation` is not inductive: what a pass snapshot left
out is only safe because the dirty flag is cleared against the version that
snapshot carried (`SnapshotWritten`), and memory only grows (`MemoryAhead`). A
promise that was joined in the middle of a pass is only durable because joining
sets the flag that makes the drain go round again (`JoinedServed`). With these, every step
of the queue is a step of `DurableStore` or a stutter under the mapping in
`TaskPersistence`; the proof goes action by action.

*TaskEngine.* The finality of a stop is an action property; it needs the state
fact `StopHolds`, that after a stop which overlaps no injection the abort flag is
up, no injection is left to lower it, and the lifecycle operation is still the
stop, and `Parked`, that the places of the loop, of the start and of the
operation agree. The limits need to know what the status can be at each await
(`LoopStatus`). The failsafe holds because the loop that has reached it is
leaving with a status from which no turn starts (`FailInv`). The iteration budget
is a count of promises: `Owed` are the rounds somebody has already been granted
but which have not begun, and `Budget` bounds the counter with them by the limit
and what users asked for, although errors and interruptions roll the counter
back. `Works` names, for each place, who is going to move a running task on.
`FeedbackInv` says why a plan announced while feedback on it is being injected is
not accepted: unread feedback keeps the loop from ending in `planning`, either
because the loop has yet to build its next prompt or because the injection brings it
back; a loop that ends there all the same is at its limit or belongs to a stop.

*TaskInputs.* The invariants concern what was sent; what makes them inductive
is what may still be sent. `Sound(s)` says of memory and of the row alike, since
a restart makes the row memory: a pending message that was handed over is barred
by its receipt, and what was handed over is on record. `Claims` says it of the
steer in flight, and that at the RPC the claim is already in the row; `Prompts` of
the prompt in flight, that its input has left the mailbox, and at the send the
row too. The claim flushed before the RPC and the checkpoint before the prompt
are what the two rest on; an RPC submitted before its claim is flushed breaks `AtMostOnce`.
For the refinement the question is what may come back: `Behind` says that the
transcript of the row is part of memory's, and one lemma (`AnyStep`) says for every
step that a mailbox, in memory or in the row, holds as pending only what an earlier one
held or what is new, and drops from the transcript nothing the row has. From it a
message that was settled stays settled, a crash included.

*TaskLifecycle.* The question at every await is what the operation parked there
may still rely on. `Parked` says which operation can be at which place and that a
deletion between its two halves leaves the map empty and the row deleted.
`Held` says that every loop is in the map or in the hands of a deletion, and that
a place from which an engine will be put into the map still finds it empty; the
queue is what keeps it so, and `Intact` excepts what the queue does not hold back.
`Phases` ties the status an engine holds to what it does. For the active row,
`Worked` adds that the loop of the map may write its row, and that a loop aborted
there belongs to a stop or a reset which will write the row itself.

*InterruptibleOperation.* Before the abort only the operation of the active phase
can be under way; after it only the one the cancellation captured, and while a
turn of the client runs, an interrupt is still to come (`TurnWillBeInterrupted`).

*AgentRuns.* What excludes a second run is spread over four places. `NamesSound`
says that whoever is named has started, `MarksSound` that an interrupted run
finds the mark when it returns, `RowsSound` that nobody has written old values over
the runs. `SlotsSound` says that the due time lies beyond every slot that has run,
or was named by a request when it was past; a save that was computed before a wait
keeps it because what such a save could put back is what `PutsBack` records.

*RelayBroker.* `PeersInv` relates the connections, the tables of peers and the
snapshot; `StreamsInv` the tickets, reservations, data connections and sockets.
`EndsAreTrusted` is where both meet, and a lemma each says what closing a set of
connections leaves. For the limits, `LoadInv` adds that finitely many connections,
tickets and sockets are in use, whatever the sets they come from, so that a step
which adds one adds one to a count; a pairing trades one attached socket for two
data connections of the same ticket, and only an open, a reservation and the issue of a
ticket, each behind its check, let a count grow.

A ticket's promise needs no further invariant: `NoOrphanSocket` makes "open" and
"attached" the same thing, so a set of tickets dropped with whatever they had is an
`End` of `StreamTickets` (`DropEnds`), which every closing handler comes down to. The
close of a data socket that is in no map is a stutter because such a socket is not
open, and a socket whose ticket is gone cannot join because its reservation went too.

*Chats.* Nothing the runs check is inductive alone, because a message moves through
three places (the queue of the row, the batch of a startup, the transcript)
which different handlers write. `StartupInv` ties the startup to the head of the
operation queue: the messages of a drain are still in the row until the prompt is
prepared, and none of a batch has been given. `MessageInv` then says where a
message can be, by what its sender was told. `InputsInv` (no operation is queued
twice) is what makes the head the only one that works. A busy row is served because
of `StatusInv` and `WaitInv`, which say what each status implies of the startup, the
stream and the interruptions, and who waits for an interrupted startup; `QueueInv`
builds on them, since a drain is dropped when one is queued already. The refinement
is read off `MessageInv`: with it, a step is followed per message by where it was
and where it is.

Only model-checked: the liveness properties `EveryRequestSettles`, `StopDrains`,
`InjectionIsServed`, `QueueDrains`, `DeletionEndsLoop`, `OrphanTurnEnds`,
`CallerReturns`, `NeverBlocked` and `QueuedIsServed`, which depend on fairness and
ENABLED and are out of the prover's reach. Every safety invariant and action
property of a passing run is a theorem, each refinement included.

## 6. Findings

Each is a disagreement of the code with a text of the repository, shown by a run
that violates the one property that states the text.

1. `stop_during_injection` (`engine-core.ts:1318`). `stop()` that overlaps an
   injection leaves `injectionPending` set. `runTask` takes the abort for the
   injection's, clears it and starts another turn; the flag's comment says it
   marks an abort that is "not a user stop".
2. `admitted_input_replaced` (`task-jumpstart.ts:62`). A jumpstart overwrites
   the text of an input that was admitted and keeps its id; `assertMutable`
   says an admitted input cannot be replaced. `taken` records these messages, and the
   invariants except them.
3. `skipped_for_no_run` (`agent-manager.ts:397`). An edit waits for the agent's
   file and writes back the whole agent it loaded, with the run that has ended
   since as its active one. The scheduler then skips every slot; it gives as its
   reason "Previous agent run is still active" (`agent-scheduler.ts:148`).

Found while modelling, each a disagreement with a text that no run of the
project repeats; the models contain the behaviour:

- In plan mode the transition to `max_iterations` is illegal: `updateState`
  throws and the task stays in planning (`engine-core.ts:1681`). The comment
  above it promises the update.
- A message injected into the single turn of a follow-up ends the loop and stays
  pending on a task that is still `running` (`engine-core.ts:792`); docs/API.md
  says it is applied on the next iteration.
- A reconciliation that cannot tell turns an accepted receipt into an unknown one
  after its input was consumed (`engine-inputs.ts:135`); docs/harnesses.md
  says an unknown admission retains its input.
- A loop that is still executing when `markMerged` runs writes its own status
  over `merged` (`task-lifecycle.ts:504`), from which the table of
  `task-state-machine.ts` lets nothing but a deletion go.
- A run deleted while its executor waits for its chat is written again when that
  returns (`agent-runner.ts:579`); `api/agents/runs.ts:579` describes the request
  as "Permanently deletes the agent run and its history".

Seen while modelling, contradicted by no document:

- *Task engine.* Errors of alternating kinds never reach the failsafe, which
  counts identical ones; feedback given while a plan is being announced starts
  another planning turn; the execution prompt of an accepted plan replaces a
  message the user set since; a task that failed while its acceptance waited is
  accepted all the same; the streak of errors survives a stop and a restart; a
  retry loses the feedback the failed turn had consumed; a failed flush of a
  claim leaves a receipt that is unknown although nothing was submitted.
- *Task lifecycle.* A stop that times out takes the engine out of the map with
  its checkpoints enabled, so it goes on writing the row; a push queued before a
  completion does not wait for the engine to settle; at capacity a deletion is
  performed although its cleanup's slot is refused; `forceResetAll` overwrites
  rows that operations of the queue are about to write.
- *Agent runs.* An edit with code computes the due time before it waits for the
  agent's file (`agent-manager.ts:354`) and saves it afterwards (399): begun before
  a slot and saved after that slot has run, it puts the slot back and it runs again.
  The save of `interruptAgent` (453) does the same with the agent it loaded. A
  request may name a due time in the past (`contracts/schemas/agent.ts:29`), which
  runs at the next tick. A run started while the deletion of its agent interrupts older
  ones survives the agent; a final checkpoint that fails leaves the agent busy
  until a restart.
- *Chats.* An interruption may complete over a startup newer than the one it
  stopped (`chat-conversation-service.ts:687`); one that waits 5 s for a startup
  in vain settles the row without it; a stream that closes without a final event
  leaves the row `streaming`; a restart schedules no drain for a queue that waits.

## 7. What is not modelled

The repository has well over a thousand source files; the modules translate the
few thousand lines in which several actors share state that outlives a step.
Most of the rest is rendering, routing, adapters to external programs, single
SQLite statements and straight-line workflows, where a model would restate the
code. That share is small by choice of subject and not because the modules are
loose: what a module leaves out is named in its comment and in section 3.

Of the parts with state of that kind, these are not modelled yet, and are in the
plan: reviews, plan mode within the lifecycle, local acceptance and conflict
resolution, shutdown, the monitor of pushed tasks, native chat backends, the
relay's data stream and connector, the execution gateway, worker updates.

Not planned: terminals, previews, the collaboration client, provisioning, file
access, the persistence of other entities, HTTP, realtime and the UI. They are I/O,
sequential workflows, or single synchronous statements, with little state that
two actors share. Git commands, agents and their protocols are external: they
appear as the choice of their outcomes.
