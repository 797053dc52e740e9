# Verification of Robyx

TLA+ modules, TLC configurations and TLAPS proofs about Robyx, a chat bot that
runs AI agents, scheduled tasks and long-running "continuous" tasks for its
owner (`src/bot`, Python, one asyncio event loop). The modules are translated
from the source; `PROJECT.json` maps every definition to the lines it stands
for.

Contents: [the system](#the-system), [modules](#modules), [runs](#runs),
[bounds](#bounds), [fairness](#fairness), [proofs](#proofs),
[seen while modelling](#seen-while-modelling), [not modelled](#not-modelled),
[plan](#plan).

To check: `tlc -config <cfg> <module>` for the pairs in the table of runs,
`tlapm <module>Proofs.tla` for the proofs (`ChatProofs` is about `TopicRecovery` and
`Collaborative`, `DiskProofs` about `TaskStore` and `Journal`).

## The system

One process (`bot.py`), one event loop. Platform adapters deliver messages,
commands and gateway events to handlers, concurrently
(`concurrent_updates(True)`). A handler runs an agent turn: it starts the CLI of
an AI backend as a child process and acts on the macros in its answer (create a
task, stop it, update its plan, remind me). Independently, a job runs a
scheduler cycle every 60 s. Between two awaits no other coroutine runs; all
races are between the pieces of code that awaits delimit, with child processes
that write the same files, and with a crash at any point.

Everything durable is a JSON file that is replaced whole (`os.replace`):
`queue.json`, one `state.json` with a `lock` and an `output.log` per task, the
agents' `state.json`, `active-pids.json`, the updater's markers; or a file of
lines that is appended to (the journal, the transcripts). What a coroutine read
before an await may be stale after it.

| Component | State it keeps | Operations | Interacts with | What is hard | Correct when | Module |
|---|---|---|---|---|---|---|
| Queue and scheduler cycle (`scheduler.py`) | `queue.json`: entries with status, claim token, claim time, attempts | add, claim due, send or spawn, reconcile, reset stale, cancel by name or file, restore | deliveries, lifecycle macros, workspaces | outcome merged after awaits, crash with claims held, two bots on one file, uncertain sends | one holder per claim; effects bounded by recorded attempts; settled entries stay settled; every reminder settles | `TaskQueue`, `JobPromise` |
| Maintenance gate (`maintenance.py`) | reader depths, writer, intent, handoffs, poison, deferred events | shared, handoff, exclusive, defer, poison, cancel | every handler, cycle, watcher, updater | re-entrance, lost wake-up, handing over a lease, deadline, events that queue behind a writer | work and updates never overlap; no event lost or run twice; the gate reopens | `MaintenanceGate`, `UpdateExclusion` |
| Continuous tasks (`scheduler.py`, `continuous.py`, `scheduled_delivery.py`, `lifecycle_macros.py`) | queue entry, `state.json`, `lock`, step process, watcher | pass: sync title, decide, spawn, commit; orphan recovery; heartbeat; delivery; stop, complete, delete, resume, plan update | step agents (write state, remove lock), topics, queue | snapshots saved after awaits, lock removed by several parties, request during a spawn, zombies after a restart | no step without a licence; abandoned steps are reclaimed; licensed tasks proceed | `ContinuousTask`, `StepLicence` |
| Agent turns (`ai_invoke.py`, `agents.py`, `session_lifecycle.py`) and supervisor (`runtime_supervisor.py`, `orphan_tracker.py`, `process.py`) | session id, started flag, lock, busy; tracked processes, terminations, `active-pids.json` | message, interrupt, spawn, read, retry, reap; reset; track, terminate, shutdown, start-up clean-up | backends, handlers | a message interrupts a turn that is waiting; reset during a turn; a termination that fails; reused pids | one process tree per agent; only sessions that ran are resumed; children are in the registry; every turn ends | `AgentTurn` |
| Update transaction (`updater.py`, `_bootstrap.py`), migrations (`migrations/`) | git tree, stash, branch, data snapshot, packages, marker file, record of migrations | the phases of `_apply_update_transaction`, rollback, boot gate, pip, migration chain | gate, agents, git and pip | failure, cancellation or crash at every phase, failing rollback | what boots is whole; a failed update is undone; local changes survive | `UpdateTransaction` |
| Collaborative groups (`collaborative.py`, `authorization.py`, `handlers.py`, Telegram and Discord adapters) | registry of groups, agents, instruction files | announce, bind, set up, promote, demote, remove, migrate, claim, close | gateway updates, AI turns | updates that overtake each other, crash between the three stores | a group is answered by its own agent on its own instructions; only while the bot is in it | `Collaborative` |
| Creation of tasks, closing of workspaces (`continuous_macro.py`, `topics.py`) | branch, files, topic, state, queue entry, agent | create with compensation; close with concurrent drains, compensation | queue, platform, git, lifecycle commands | failure or cancellation at each await; two requests for one name; others' commits | all or nothing; one task per name; a closed workspace is quiet | `Workspaces`; the queue's side in `TaskQueue` |
| Topic recovery (`topic_recovery.py`) | attempts, unreachable flag, pending text, alert claim | recover, retry, resend, alert, mark reachable | platform, scheduler, delivery, lifecycle lock | uncertain sends, crash between claim and send, saves of older copies | one alert per episode; state and queue name one topic; every episode settles | `TopicRecovery` |
| Persistence recovery (`persistence_recovery.py`), programs and plans (`continuous.py`, `update_plan_macro.py`) | state, program sidecar, `plan.md`, two markers per file, quarantine, snapshots | load with recovery, guarded write, program update, overlay | step agents, every JSON store | crash between marker, quarantine and install; stale writer; sidecar ahead of state | a corrupt file is never taken for missing; the accepted program wins; stale writers are refused | `TaskStore` |
| Event journal, conversations (`events.py`, `conversations.py`) | hot file and hourly shards; current log and archives; the session | append, rotate, merge, prune, query; append, archive, renew | scheduler, turns | cut lines, crash between copy and removal, boundaries of hours | nothing lost, nothing twice, sessions not split | `Journal` |
| Message handlers (`handlers.py`) | none of their own | commands, messages, gateway events | all of the above | run concurrently | covered by the components they call | parts in `MaintenanceGate`, `AgentTurn`, `Collaborative`, `Journal` |
| Configuration (`config_updates.py`, `config*.py`, `model_preferences.py`) | `.env` | transactional rewrite | `/config` | crash during the preflight | an unchecked file never boots | not modelled |
| Memory (`memory.py`, `memory_store.py`) | SQLite | one transaction per operation | turns | - | SQLite's | not modelled |
| Single instance, boot (`bot.py`) | pid file with `flock` | start, shutdown | all | order of start-up | one bot | restarts are in every module |
| Adapters, backends, scope, media, i18n | - | I/O, pure conversions | - | - | - | external or not modelled |

## Modules

Each component has a module with its state as variables and one action per
section of code between two awaits (or, where files are written one after the
other without an await, per write that a crash can follow). The MC modules give
functions and symmetry sets that a cfg cannot write. Operators with an
underscore (`StillWanted_StateOnly`) are plausible bugs: each property is
violated when the operator before the underscore is replaced by one of them.

Variables under "history" record what happened; no guard of the code reads them.
They serve two ends: to say what a property is about (`sends`, `ran`,
`accepted`), and to name, as narrowly as could be, the cases in which the code
gives a guarantee up (`torn`, `stubborn`, `excused`). Each such case is listed
under [seen while modelling](#seen-while-modelling), and the comment of the
property says it. What a property asserts is that nothing else breaks it.

### TaskQueue (implements JobPromise)

`queue` is `queue.json` by entry id. Every queue operation of the code runs under
`_queue_mutex`, a thread lock and a file lock, and replaces the file, so it is
one action. A cycle is a bot's `phase`, the claims it has still to dispatch
(`todo`) and the outcomes it has not merged (`results`); they are memory and
`Crash` loses them. Claim tokens are fresh uuids in the code and counters per
entry here (`issued`). Time is relative: `wait` is the time left, `age` the age
of a claim, and `Tick` moves both.

Actions: `AddReminder`, `AddTask`; `ClaimDueEntries` (with
`_reset_stale_claims`); `SendReminder`, `SendReminderUnconfirmed` (delivered or
not, not confirmed), `SkipLockedTask`, `SpawnAgentTask`, `SpawnAgentTaskFails`
(a started process whose lock file cannot be written counts as failed);
`ReconcileReminderResults`, `ReconcileTaskResults`; `AbandonBatch` (an exception
ends the cycle); `Crash`, `Boot`; `CancelTasksForAgentFile`,
`CloseWorkspaceSucceeds`, `RestoreTasksCanceled` (the queue's side of closing a
workspace); `CancelTaskByName`; `Tick`. Two bot processes on one file are the
case the file lock is for (a rolling restart).

`sends`, `starts`, `resets` and `overdue` (the claims that were found stale) are
history. `JobPromise` has a job that is handed out, takes effect and
is reported; `KeepsPromise` is its `Spec` under the mapping `JobState`.

### MaintenanceGate (implements UpdateExclusion)

The fields of the gate under their own names; `step` is where a task is in
`exclusive()`, `watcher` and `event` are the lives of a delivery watcher and of a
gateway event. `_condition` is never held across an await other than its own
`wait`, so the sections between awaits are atomic; `wait` is `asleep` and a
notification puts the writer back to `waiting`. `HandoffCancelled` cannot await,
so its notification is a task of its own (`notices`). A writer that fails to
quiesce or meets its deadline still takes the lease (`BackOut`) to run the events
that queued behind it.

`UpdateExclusion` has work and updates that never overlap, and nothing after a
failed recovery; a deferred event counts as work and runs after the update.

### ContinuousTask (implements StepLicence)

One task. `entry` is its queue entry, `disk` its state file, `lock` the pid in its
lock file, `proc` the step processes (one pid per spawn), `watch` the delivery
watchers. `cyc` is where the scheduler stands in `_handle_continuous_entries`,
with the snapshot of the state it carries over its awaits: the unpin and the
title edit of `_sync_continuous_topic_marker`, the kill of a zombie, the spawn,
the termination of an uncommitted child. `op` is the request that holds the
task's lifecycle lock (`_lifecycle_task_lock`), with its own snapshot. The
scheduler does not take that lock. Actions with a guard `LoopFree` start a new
section of code; those at `cyc.at = "decide"` go on in the scheduler's current
one, so nothing else of the bot runs before them.

Step agents are external, modelled from `templates/CONTINUOUS_STEP.md`: write the
result, remove the lock, exit, or die at any point. They write the legacy
spellings (`awaiting-input`), which `Load` normalises like `load_state`.

`StepLicence` has a licence, the steps started under it and the request in hand.
A stop, complete or delete revokes the licence in the very section that takes the
request; only a resume grants it. The licence is `entry = "pending"`.

### AgentTurn

The turns of one agent. `agent` is the `Agent` object, `holder` and `line` its
asyncio lock (first come, first served), `turn` where each turn stands, with the
child it waits for; `child` is what the operating system knows of the processes
(the leader, or a group that outlived it), `tracked` and `killing` are the
supervisor's, `registry` is `active-pids.json`. `Message` decides at once, as the
code does before its first await, whether to refuse, interrupt or queue;
`InterruptReturns` then clears fields that may be those of another turn, since the
lock is not held. `Launch`, `SpawnReturns`, `OutputEnds`, `Answers`, `Fails`,
`Retries`, `RetireReturns`, `RetryBegins`, `ReapReturns` and `Unwinds` are the
sections of `_invoke_ai_locked`; `Finally` is what its finally block does without
an await. `ResetSession` (/reset, /clear) and `InvalidateSessions` (a change of
instructions) come from other handlers at any time. `TerminationEnds` may fail.
`Shutdown`, `BotEnds` and `Boot` end and start the bot, a child may survive, and
its pid may be another process's by then (`PidReused`).

### UpdateTransaction

One `apply_update` with the boot that may follow. `tx` is the coroutine: the phase
it is in and its local flags. An action is one child process (git, pip, a
migration step of the release, the smoke test) or one durable write. The way forward is
`Begin`, `Stash`, `Attach`, `Resolve` (from here on a rollback restores the data),
`Replace`, `Checkout` (from here on the code too), `Migrate`, `Install`, `Smoke`, `Pop`,
`Verify`, `Commit`; the way back `UndoCode`, `UndoData`, `Swap`, `BringBackups`,
`UndoBranch`, `UndoStash`. `Throws` is an exception or cancellation that starts a
rollback, `Escapes` an exception of git that nothing catches (of the stash, which comes
before the `try`, or of a rollback that an exception had started), `Dies` a death of the
bot between any two.
`tree`, `wip`, `data`, `aside`, `venv` and `marker` are the checkout, where the
user's local changes are, `DATA_DIR` and its copy during a restore, the packages
and their fingerprint, and `active-update.json`. `Boot`, `BootInstalls`, `Upgrade`,
`RecordStep` and `ComesUp` are the next start: the gate on the marker, pip when the
fingerprint differs, and the chain of migrations, each recorded after it has run.
The exclusion of other work is `MaintenanceGate`'s and is not repeated.

### Collaborative

`store` is the registry of groups, in the order written; `agents`, `link` and
`file` the agent manager, the agents' back link and their instruction files: three
stores a handler writes one after the other. `updates` are gateway updates on their
way. The platform delivers them in order, but the handler of a Discord join first
looks up its inviter and may be overtaken (`Handle`); a crash loses those in
flight. Flow A: `Announce`, then `BotAddedAnnounced`. Flow B: `BotAddedSetup` (cut
by a crash between two writes: `BotAddedCut`), an AI turn (`Message`, `EndTurn`
with `SetupComplete`). `BotAddedUnauthorised` and `RefuseAndLeave` refuse an adder;
the removal from a guild closes its groups one by one with a message to headquarters in
between: `BotRemoved` closes the first, `CloseNext` each of those in `closing`, and
`CloseFails` is a registry that cannot be written, which leaves the rest open. (`CloseNext`
takes them in any order, which allows more than the code does.) `BotMigrated`,
`ImTheOwner`, `Promote`, `Demote`, `CloseGroup` and `CloseWorkspace` are the other
handlers.

### Workspaces

`op` holds the handlers under way: a creation goes through the name lock, git
(`GitRead`, `GitCheckout`, `GitDone`), files, topic (`TopicMade`) and the writes of
`Created`, or fails anywhere (`CreateFails`) and compensates (`Archive`,
`GitCheck`, `GitBack`, `GitDrop`). A closing (`BeginClose`) cancels the workspace's
own entry and drains the children at once (`DrainBegins`, `DrainEnds`,
`DrainCommits`, `DrainRaises`, `DrainCut`), waits for the drains (`Gathered`) and
closes the channel. A creation's generation stands for its topic and texts, so
"whose plan is this" is a comparison of numbers. Commands, steps and commits of
others interleave.

### TopicRecovery

One task's dedicated topic. `disk` is the state, `route` the queue entry's thread;
`job` says where the tick, the delivery watcher and the user's handler are, each
with the copy it will save. `EnterRecovery` takes the lifecycle lock;
`CreateSucceeds`, `SendPending`, `Undo` and `Alert` are the awaits of
`recover_unreachable_topic`. `EditTitle`, `Pin` and `SendReminder`/`Reminded` save
without the lock.

### TaskStore

The state and the program of one task on disk. `op.todo` is what is left of the
call of the bot that runs (a call has no await, so there is one), each element a
guarded read or write of one file; the bot may die or fail between any two durable
writes. Reads: `ReadValid`, `ReadMissing`, `FindCorrupt`, `Quarantine`, `Install`,
`ReadRestored`, `SpoiltAgain`; writes: `GuardPasses`, `GuardRefuses`,
`GuardRecovered`, `WriteState`, `InitProgram`, `EditProgram`. `mem` are the copies
that coroutines keep across an await, `agent` the step agent's.

### Journal

Two kinds of records. `hot` and `shards` are the journal's files as sequences of
lines, `at` when each event was made; `Rotate` is one cycle's rotation (a rename,
or a merge line by line) and pruning, with its failures. `log`, `archives` and
`session` are one agent's transcript; `Clear` is /clear with a failure at any of
its steps, `ClearDies` a death in it, `Reset` /reset. A line may be cut; the next
one is glued to it and both are unreadable. Queries are not actions: `Told` is what
`query` returns, and the invariant quantifies over it.

## Runs

| Run | Module | Checks | Shows |
|---|---|---|---|
| `TaskQueue_bots` | `MCTaskQueue` | `OneShotRunsAccountedFor`, `NoDoubleClaim`, `ClaimRespected`, `KeepsPromise` | two bots on one file, a reminder, a one-shot task, a closing of its workspace, crashes: an entry in a bot's hands is not handed out again, under any token, before its claim is stale; until then neither its status nor its token changes except by its holder's report or a cancellation; a one-shot runs again only after a stale claim was reset, the queue implements `JobPromise` |
| `TaskQueue_reminders` | `MCTaskQueue` | `SendsWithinAttempts`, `EntriesSettle` | a reminder and a periodic task, crashes and unconfirmed sends: deliveries never exceed recorded attempts, every reminder is sent or failed in the end, no claim is held for ever |
| `MaintenanceGate` | `MCMaintenanceGate` | `NoLostWakeup`, `NothingStranded`, `KeepsApart`, `GateReopens` | three tasks that read or update, two watchers, two events: no wake-up is lost, no event waits for nobody, work and updates never overlap, an update ends and the deferred events settle |
| `ContinuousTask_licence` | `MCContinuousTask` | `KeepsLicence` | two requests at any points of the passes over two steps, lock files that cannot be written: no step starts without a licence |
| `ContinuousTask_progress` | `ContinuousTask` | `AbandonedStepIsRecovered`, `LicensedTaskProceeds` | two steps, a crash, title edits and spawns that fail: a step nobody watches is reclaimed, a pending or rate limited task gets on |
| `AgentTurn` | `AgentTurn` | `OneTreePerAgent`, `ResumesOnlyWhatRan`, `ChildrenAreListed`, `SparesOthers`, `EveryTurnEnds` | two messages that meet, a retry of each, a reset or a restart: two trees never work for the agent at once, a resumed session has run, a living child is in the registry, nobody kills what is not his, every turn ends |
| `UpdateTransaction` | `UpdateTransaction` | `BootsAreWhole`, `FailureRestores`, `LocalWorkSurvives`, `EveryUpdateEnds` | updates, one after the other, with a failure, cancellation or death at any point: the bot never comes up on a mixture, a failed update has put everything back or, after a failure that the code does not compensate, has left the marker that stops the next boot, local changes are not lost, every update ends |
| `Collaborative` | `MCCollaborative` | `GroupsKnowTheirAgent`, `NoPhantomGroups`, `PurposeIsKept`, `SetupByExecutives` | two groups, two chats, two people, Telegram or Discord, a guild whose groups are closed one after the other, a crash, a lost update or a failed write: a routed group has its own agent and its own instructions, is one the bot is in, and is set up by an executive only |
| `Workspaces` | `MCWorkspaces` | `OneTaskPerName`, `NoWorkLost`, `ClosedIsQuiet`, `PartialIsCoherent`, `FailureLeavesNoTrace` | creations and closings that meet, fail and are canceled: one generation per name is scheduled, a failed creation leaves no trace and deletes nobody's commit, a closed workspace is quiet, a closing that stops half way says so |
| `TopicRecovery` | `TopicRecovery` | `AlertsOnce`, `RoutesMeet`, `DeletedStays`, `EveryEpisodeSettles` | a topic that may fail at any call: one alert per episode, state and queue name the same topic, a deleted task stays deleted, every episode ends in a topic or an alert |
| `TaskStore` | `TaskStore` | `NeverTakenForNew`, `AcceptedProgramWins`, `RefusedUntilRead` | three faults (corruption, failed write, death), two holders of copies, an agent: a lost file is never taken for one not yet created, the accepted program wins over every stale copy, a refused writer stays refused until it reads |
| `Journal` | `Journal` | `EventsAreFoundOnce`, `TranscriptsAreTrue` | two hours, two errors: a young event is found once by every query that reaches it, a turn is kept in exactly one place, two archives do not share a session |

Every run is passing: it ends without an error. `TypeOK` is stated in every module;
seven are proved below, the others were checked with their runs' constants; the runs
leave them out, since each of the remaining properties says more.

Deadlock is checked except where the system really may stop: a poisoned gate lets
nothing start again until a restart (`MaintenanceGate`, `UpdateTransaction`), a
stopped or deleted task does nothing once the requests are used up
(`ContinuousTask_licence`), and in `AgentTurn`, `Collaborative`, `Workspaces` and
`Journal` the environment's bounded supply of messages, updates, requests or time
comes to an end.

## Bounds

- `MaxClaims` 2: claims a task goes through. Two holders of one entry, the second
  after a stale claim, are what a token is for; a third repeats the second.
  Reminders are bounded by the code itself (`MAX_REMINDER_ATTEMPTS`; 2, so that
  "one more try" and "given up" both occur).
- `MaxLate`: entries count as overdue up to this, one tick more than the age at
  which a reminder is dropped; nothing in the code tells later times apart.
  `ClaimTimeout` 1 and ages up to 2 keep "fresh", "at the limit" and "stale" apart.
- `Delays` {0, 1}: due at once, due later.
- `MaxDepth` 2: a nested lease exists; deeper nesting repeats it. Three tasks: one
  that updates, one that reads, one that wants to.
- `Pids` 2 (`ContinuousTask`): a process per spawn, so also the bound on spawns: a
  step and its successor, which share the lock, the state and the title.
- `MaxRequests` 2: a stop and a resume of it, or two requests that compete, in one
  pass of the scheduler. `MaxCrashes` 1 where crashes matter. `NoOrphans` ends the
  search for `KeepsLicence` where a step has died without a result; the run for liveness
  goes on there, and so does the theorem.
- `Threshold` 2 instead of the code's 3: one detection that retries, one that
  escalates. `DistantOrphans`: detections may be so far apart that the count
  starts again.
- `MaxTurns` 2 (`AgentTurn`): the victim and its interrupter. `MaxSpawns` 3: a tree,
  the one of its retry and the one of the other turn. (Three turns, the last one waiting
  while an interrupt clears its fields, were checked for the safety properties with two
  spawns, and are in the theorems.) `MaxRetries` 1, the code's. `MaxUpsets` 1: a reset or
  an end of the bot; each breaks a guarantee, if at all, on its own.
- `Chain` 2 (`UpdateTransaction`): a migration that is recorded, one that has run and
  is not. Updates are not bounded; the state space is finite because every field
  tells only old from new.
- `Collaborative`: two names, chats, groups, so that a title is taken and a guild
  has another channel; two people, the owner and one other; two updates in flight,
  so that one can overtake the other; one crash, lost update or failed
  write. `Names` bounds the agents:
  a group is not set up on the spot once every name is taken (the code makes up another).
  The new chat of a supergroup is one that nothing concerns, since its id is new.
- `Workspaces`: two names and two handlers meet in every pair (creation and creation,
  creation and closing, closing and closing); `MaxStarts` 3 generations: one before,
  one for each handler. One commit of somebody else's or one crash. `NothingGivenUp`
  ends the search in the states where the code has given something up for good (a topic
  that could not be archived, a branch nobody claims, a commit nobody saw, closings that
  overlap); they are checked, what comes after them is left to the theorems.
- `TopicRecovery`: two topics, the first and its replacement; `MaxActs` 2, a step and a
  command or a crash; `MaxAttempts` 1 (the code's is 3), so that each attempt but the
  first that fails is the last. Two attempts were checked for the safety properties, which
  the theorems have for any number.
- `TaskStore`: two edits tell an accepted program from an older one; three faults let
  a fault meet the recovery from a fault and again; one snapshot (two were checked
  too and add nothing).
- `Journal`: `MaxTime` 3 half-hours are two hours, `Retention` 2 lets the first one
  expire within the second; five events, turns and sessions together, the first session
  among them, two errors (`MaxErrors`).

The theorems below hold without these bounds.

## Fairness

Safety runs assume none. The liveness runs assume:

- `TaskQueue`: time passes (`WF Tick`); the job queue keeps starting cycles and
  every await in one ends, sends after `SEND_TIMEOUT_SECONDS` (`SF Cycle(b)`,
  strong because a crash disables it; a bot that always crashes before its next
  step would defeat any queue); the service manager restarts the bot
  (`WF Boot(b)`). Nothing of users, or of what a send or a spawn answers.
- `MaintenanceGate`: `exclusive()` has a deadline (`WF BackOut or
  AcquireExclusive`); an update's git, pip and smoke-test children have timeouts
  of 60 to 600 s, so that its body ends (`SF EndUpdate`; strong because a nested
  lease disables it); a ready task runs. Nothing of readers, which may hold a
  lease for ever.
- `ContinuousTask`: the cycle runs every 60 s and each of its awaits ends (`WF
  SchedulerStep`), so do requests, deliveries and restarts. Of the outcomes of an
  await that the environment picks, these occur again and again rather than never:
  the retry time of a rate limit passes (`SF LoadState(TRUE)`), a heartbeat nobody
  refreshes gets old (`SF FindZombie`), a kill works (`SF ZombieTerminated`), a
  spawn is committed (`SF CommitStep`). Nothing of step agents, which may never
  write, exit or unlock, and nothing of the topic, whose edits may all fail.
- `AgentTurn`: the event loop runs what is ready, reading a child's output ends
  after `AI_TIMEOUT` at the latest (`WF TurnStep(t)`), and a termination is bounded
  by its two waits (`WF TerminationEnds(p)`). Nothing of children, which may live
  for ever.
- `UpdateTransaction`: every child of the updater runs under a timeout (`WF Step`).
- `TopicRecovery`: the scheduler ticks (`WF Tick`), calls of the delivery and of the
  user's handler return (`WF Delivery`, `WF Archive`), time passes (`WF Elapse`).
  Nothing of the platform: every call may fail every time.

`Collaborative`, `Workspaces`, `TaskStore` and `Journal` promise nothing that must
happen eventually without the user's or the platform's help, and assume nothing.

## Proofs

All for any number of bots, tasks, watchers, steps, requests and crashes, from
the named assumptions in the modules (finite sets of bots and watchers, kinds
of ids disjoint, limits that are numbers).

`TaskQueueProofs`. `Inv` is `TypeOK` with: `KindsOK` (reminders and tasks keep to
their statuses and outcomes), `BatchOK` (a bot between cycles holds nothing, and
has one claim per entry), `TokensOK` (every token was issued), `ReportsOK` (what a
bot is about to report happened), `AttemptsOK` (a reminder's attempts are its
claims) and `BudgetOK` (effects so far plus bots that may still add one never
exceed the claims issued). The last is what `SendsWithinAttempts` needs: on its
own it is not inductive, since a bot with a claim can send at any time. Theorems:
`TypeCorrect`, `ReportsAreTrue`, `SendsAreBounded`,
`SettledIsFinal` (an action property: no outcome in a bot's hands fits a settled
entry, since only claimed and canceled entries have tokens), and `Refinement`:
the queue implements `JobPromise`. `OneShotsRunOnce` needs an account of its own
(`StartsOK`): starts so far, plus the claims that may still lead to one, plus one as
long as the entry can be claimed again, never exceed one more than the stale claims
that were reset. `NoDoubleClaims` rests on `HeldOK`: a claim in a bot's hands either
carries the token of its entry or was found stale. Two holders of one entry that are not
stale therefore hold one token, and `TokensOK` leaves a token one holder. That no entry
changes its token under a holder is what each action has to show. `ClaimsAreRespected` is
an action property: as long as a claim is not stale neither status nor token of its entry
changes, unless the bot that holds this token reconciles it in that step, or a
cancellation, which keeps the token, comes.

`MaintenanceGateProofs`. `Inv` adds to `TypeOK` which task the writer and the
intent name at each `step`, that handoffs count the live watchers, that a writer
inside has no reader beside it, and that a deferred event is queued once. Theorems:
`TypeCorrect`, `NoWakeupIsLost`, `NoEventIsStranded`, `EventsRunExactlyOnce`,
`IntentIsRespected` and `Refinement`: the gate implements `UpdateExclusion`.

`ContinuousTaskProofs`. `TypeOK` is inductive as it stands. It carries the two
facts the refinement needs: snapshots have canonical statuses, and a coroutine
that waits for a process knows which one and for which request. Theorems:
`TypeCorrect`, and `StartsAreLicensed`: the task implements `StepLicence`. Every
action but the commits, the requests and the crash leaves entry, request and
started steps alone; a commit reads the entry in its own section
(`StillWanted`), so it is a licensed start; a request cancels the entry before
its first await. It does not depend on the state file, which stale snapshots
overwrite: the entry is what makes a stop effective.

`DiskProofs`, first part: `TaskStore`. `Inv` adds to the types of the files (`DataOK`) and of the call
under way (`CallOK`) what a recovery owes at each point: from the marker to the
install the file is marked, from the install on it is there (`RecoveryOK`).
`NeverTakenForNew` needs it because `SpoiltAgain` takes the marker away with nothing
but the phase to say that the file is there. `BarrierOK` is the invariant of the
refused writers: while there are any a marker stands, every write in a call comes
right after the guard of the state (`Guarded`), and who has passed it met no marker.
`ProgramOK` is the invariant of the program: the one on disk is the last accepted or
was taken from a snapshot, and before the first edit is accepted neither the program,
nor a snapshot of it, nor the plan shows one (`AcceptedOK`); a document without a
revision carries no edit, which is why the first record, made of such a state, is
harmless (`CopiesOK`); and in the list of a call a copy is taken right after the program
was read, with the plan, or first made (`ListOK`). What it does not say is as telling: the
program that `state.json`, the agent or a holder's copy carries may be of any edit.
Theorems: `FilesAreNeverForgotten`, `RefusedWritersWait` and
`HoldersGetTheAcceptedProgram` (two action properties), for any number of holders,
edits, faults and snapshots. The proof of the second is what brought the case of a
failed recovery up (below): it takes four faults, one more than the run has.

`DiskProofs`, second part: `Journal`. Everything rests on what an append does to a file
(`Joined`): it loses no record but the one it glues, doubles none, and leaves the first
line in place or unreadable. For the events (`EventsOK`) neither half of
`EventsAreFoundOnce` is inductive. An event is in the hot file, or in a shard no older
than its hour, or it has expired (`FoundOK`); that this survives a rotation needs the hour
of the hot file's first line to be no older than that of any event in the file that is
not `late` (`HotOK`), since all of them go to that hour's shard, which retention drops
whole. An event is in one file, once, unless a failed merge copied it (`OnceOK`). For the
transcript (`TalkOK`), `KeptOK` puts a turn into the log or into one archive, and
`SessionsAreNotSplit` is inductive only with `OverOK`: the session of an archived turn is
older than the agent's and not the running turn's, and nothing in the log belongs to it,
unless a /clear cut it. No archive is overwritten because `archive_and_clear` tries one
name more than there are archives (`FreeNameIsFree`). Theorems: `JournalTypeCorrect`,
`EventsAreFound`, `TranscriptsKept`, for any retention and any number of events, turns,
sessions, half-hours and errors.

`AgentTurnProofs`. `Inv` is `TypeOK`, `ChildrenAreListed` and: who waits for the lock
is in line once, who is past it has it (`LineOK`, `LockOK`); a child that is shown was
started, and is tracked as long as its tree lives (`ProcOK`); the session is one that
ran, or was issued by a reset during a turn (`SessionOK`); every living tree without
an excuse is in the charge of the turn that has the lock, which is starting it,
reading it, or waiting for its end (`ChargeOK`); and what the agent shows is that
turn's child (`ShownOK`). `OneTreePerAgent` is not inductive, since nothing in it says
who may start the next tree: `ChargeOK` says that nobody but the lock's holder, and
not before its last tree is gone. Theorems: `TypeCorrect`, `OneTree`, `SessionsRan`,
`ChildrenListed`, `OthersSpared`, for any number of turns, children, retries and
upsets.

`UpdateTransactionProofs`. `Inv` lists what each phase finds on disk: on the way forward
what the phases before it have left (`ForwardOK`), on the way back what is undone or
known to have failed (`BackOK`), between two updates an installation of one release, or
a marker that keeps it from starting (`IdleOK`), during one the old release's process
under its marker (`ActiveOK`), and where the local changes are (`WipOK`). Theorems:
`TypeCorrect`, `WholeBoots`, `RollbacksRestore`, `WorkSurvives`, for migration chains of
any length. `RollbacksRestore` has two cases. Either everything is put back and the marker
is gone; or the failure is one that the code does not compensate (`left`), and then the
marker is there, since the only steps that remove it come after everything else.

`ChatProofs`, first part: `TopicRecovery`. `Inv` is `torn \/ Untorn`: until a save puts older fields back
the lock has one holder (`OneInside`), a copy held over an await has the claim as it is
on disk (`InSync`), an alert was claimed before it was sent (`ClaimOK`), a task deleted
or about to be has neither step nor entry (`GoneOK`), and route and state name one topic.
Nothing clears `torn`, so the disjunction is inductive and each theorem has `torn` as
its exception, as its property does. Theorems: `OneAlertPerEpisode`, `OneRoute`,
`DeletedForGood`, and, without that exception, `LifecycleIsExclusive`.

`ChatProofs`, second part: `Collaborative`. `RegistryInv` relates the three stores: what
is pending was announced (`AnnouncedOK`); an agent's link names a group of its name
(`LinkOK`), and of two groups of one name the one without it was overwritten by an
announcement (`NamesakesOK`); the instruction file is the group's own, and says what its
status says (`InstructionsOK`), for every group that is not closed: a property about
routed groups only says nothing of those that will be routed next. `RoutingOK` is for
`NoPhantomGroups`, which is about the routed groups that no removal is closing
(`Staying`) and is not inductive: a removal that is still in flight leaves a
group routed whose chat the bot has left, and what excuses it is the order of the updates.
So the invariant follows the times a chat is entered and left, a routed group counting as
the first entry and the updates in flight as later ones: after the last entry the bot is
there, or an update that closes or moves the group is on its way (`PresenceOK`); on
Telegram, between two entries there is a leaving, and a chat has one routed group
(`OrderOK`), so that a removal has nothing left to close there (`ClosingOK`); a move
goes to another chat (`MigrationsOK`). For `SetupByExecutives` the
agent of a group in set-up is linked to it and to no other (`SetupIsItsOwn`). Theorems:
`CollabTypeCorrect`, `AgentsAreKnown`, `PurposesAreKept`, `NoPhantoms`, and
`ExecutivesFinish` (an action property), for any people, chats, names and crashes. The
attempt showed that the model let two groups move to one new chat, which needs three
chats and so was beyond the run; a supergroup's id is new, and the guard now says so.

`WorkspacesProofs`. `Inv` binds the place of every handler to what it has written.
- `LockOK`, `GensOK`: a creation past its lock is alone with its name, which no agent
  has; generations are given out once.
- `StoreOK`, `BeforeOK`: a name is registered with one entry of its generation or nowhere
  to be seen; what a creation has not written yet is as it found it, so that putting
  back what it found restores the present and not the past.
- `AloneOK`: alone in the repository, it knows where HEAD is at each place.
- `SafeOK`: every commit is on a branch that nobody under way may still remove
  (`Doomed`). `NoWorkLost` alone is not inductive: the commit may be on a branch that is
  about to go.
- `QuietOK`: a child that a closing has drained stays so; `CoherentOK`: a task that
  believes itself live and is not scheduled is in the hands of a closing that will write
  it down; `PlainOK`: so is the workspace's own entry.

Theorems: `OneGeneration`, `CommitsSurvive`, `Quiet`, `Coherent`, and `Untraced` (an
action property: only at its looks at the repository, or before it has written anything,
does a creation end without its task, and there nothing is left), for any tasks, any
number of handlers, generations, commits and crashes.

Only model-checked: liveness (`EntriesSettle`, `GateReopens`,
`AbandonedStepIsRecovered`, `LicensedTaskProceeds`, `EveryTurnEnds`,
`EveryUpdateEnds`, `EveryEpisodeSettles`), which the prover does not reach. Every safety
invariant and action property of a run is stated by a theorem.

## Seen while modelling

Differences between the code and what its documents and comments say, and losses
that nothing documents. The models have the code's behaviour, so each of these is
a behaviour of a model; where a property would exclude it, the property's
exception is named in brackets. No run is set up to fail for them.

Queue.
- Closing a workspace cancels only entries that are pending when it starts. One that
  is being dispatched is reconciled to pending afterwards, one added during the
  close's awaits stays; both fire later. `docs/scheduler.md:110`: "closing a
  workspace cancels all its pending queue entries"; line 21: a periodic task "keeps
  firing until the workspace is closed or paused".
- `cancel_task_by_name` leaves the claim token of an entry it cancels, and
  reconciliation matches id and token without looking at the status: an entry stopped
  while it is being dispatched comes back (`scheduler.py:767-797`, 1102-1166).

Continuous tasks.
- `_sync_continuous_topic_marker` saves the state it loaded before awaiting the title
  edit (`scheduler.py:1938`), without the lifecycle lock. A complete or delete saved
  meanwhile is overwritten, a result the agent wrote is taken back.
  `lifecycle_macros.py:844`: "A concurrent complete/delete that won while drain
  yielded is authoritative and must never be overwritten with a resumable state".
- Neither the agent's `rm` nor the watcher's final unlink (`scheduled_delivery.py:717`)
  looks at whose lock it removes. The running successor is taken for an orphan and a
  third step starts beside it; a stop in that window does not find the running step.
  `docs/scheduler.md:102`: "PID lock files under `data/<task>/lock` prevent duplicate
  runs".
- Every committed start clears the orphan count (`scheduler.py:2251`), so a step that
  starts and dies never escalates. `specs/006-continuous-task-robustness/spec.md:174`:
  "exactly one incident message in its dedicated topic after 3 consecutive orphan
  detections"; `data-model.md:33` of the same specification asks for the reset.
- The demotion of on-demand tasks compares with `awaiting-input`
  (`scheduler.py:1869`), which `load_state` has normalised away: it never fires.
- `output.log` is truncated for the next step while the watcher of the last one may
  not have read it; a crash between the cancel of the entry and the final save of a
  stop leaves a task that resume refuses; the transition table of
  `continuous_state_machine.py` is never consulted and has no `pending` to
  `completed`, which a complete request does; the awaiting reminder needs
  `awaiting_since_ts`, which nothing that runs sets.

Agent turns.
- A /reset or /clear during a turn issues a session that the end of that turn marks as
  started; the next turn resumes a session that never ran [`torn`].
- `invoke` ignores the result of `interrupt()`: the evidence of a tree that survived is
  overwritten by the next child's, though `agents.py:96-101` says it is kept
  [`stubborn`]; and the fields an interrupt clears may be the next child's [`hidden`].

Update.
- An exception or cancellation after the stash has been popped is compensated by a hard
  reset that takes the local changes with it (`updater.py:2167`) [`torn`].
- A `git stash` that takes more than its 60 s, cannot be started or is canceled raises
  outside the `try` (`updater.py:1796`, 885); so does git in a rollback that an exception
  had started (`updater.py:2158-2167`). The gate opens unpoisoned; the marker, and possibly the stash or a
  replaced tree, stays until the next start, which then refuses [`left`].
  `docs/updates.md:57`: "If any of those checks fail, the recovery marker remains and the
  maintenance gate fails stopped".
- A rollback canceled at its final stash pop starts again and may leave HEAD on main; a
  pip cut short, or a fingerprint that cannot be written, leaves old code on mixed
  packages (`README.md:80`: "atomic rollback on failure"); a failing second stash
  leaves the new release with the gate open [`left`].
- The restore of the data moves `DATA_DIR` aside with the marker in it
  (`updater.py:687-700`): a death before it is back leaves a boot that finds no marker
  [`aside`]. `updater.py:1655`: "A hard process death anywhere after the marker commit
  therefore makes the next bootstrap fail closed".

Collaborative groups.
- Flow A never registers the agent (`handlers.py`, around 2553, drops its messages with
  "references unknown agent"); `specs/003-external-group-wiring/spec.md:77` (FR-004)
  requires it. `GroupsKnowTheirAgent` is therefore about groups set up on the spot.
- A bot added again to a known group gets a new record (spec.md:61 wants the old one
  back), and /im-the-owner can bind a channel that is already routed: the older record
  stays routable. `telegram.py:641-665` ignores `restricted`, so a bot restricted first
  and removed then is not noticed (`contracts/lifecycle-events.md:12`) [`strayed`].
- A refused second announcement overwrites, then unlinks, the instruction file of the
  live group of that name (`handlers.py:1128-1300`) [`clobbered`]. Announcing does not
  check reserved or used agent names.
- A Discord join overtaken by the guild's removal during the audit-log lookup
  (`discord.py:639-700`) leaves an active record [`strayed`]; so does a crash, or a registry that cannot be
  written, between the closes of a guild's groups (`handlers.py:3323-3342`), which nothing
  resumes [`strayed`]; closing the agent from
  headquarters leaves its group silent [`agentless`]; `/promote` never finds a person who is
  not a member already; `purge_closed` and `remove` have no caller.

Workspaces [each is a member of `excused`].
- Git is left on an existing branch when a cancellation hits the reads after
  `checkout <existing>` (`topics.py:590-609`). Somebody's commit is deleted with the
  branch in three windows: between `checkout -b` and the reading of the tip, between the
  compensation's look and its checkout, and between its checkout and its deletion, when
  another creation's compensation has gone back to that branch. The third takes three
  creations, more than the run has; it came up when `CommitsSurvive` could not be proved.
- Of two closings at once the later failure restores entries of a workspace the other
  has closed. The first failing drain leaves its siblings draining unobserved. A tree
  that does not drain, or a cancellation while waiting for the lock, leaves a child live
  in its state, canceled in the queue and unmarked. A resume during the drain is
  overwritten.
- A crash between the queue entry and the registration of the agent lets a second
  creation overwrite a live task; a crash during a closing leaves ordinary entries
  canceled; a child created during a closing is not drained; a topic that cannot be
  archived stays.

Topic recovery.
- The reminder's save after a recovery (`scheduler.py:2453`) reverts the new thread and
  the pending text; stale saves can lose the alert's claim (a second alert) or resurrect
  a deleted task [`torn`]. `topic_recovery.py:3`: "All mutations for one task run under
  the same lifecycle lock".
- A candidate topic whose pin fails gets the text again each tick [`reached`]; a failed
  first send to a recreated topic forgets that the event was actionable; once a
  candidate fails no other is made; `mark_topic_reachable` drops an undelivered text; the
  one pending slot holds the last chunk only; the manager's `agent.thread_id` is never
  repointed; an error of a stopped task's episode ends the retry loop for later tasks.

Persistence.
- The unavailable marker is the file's, not the writer's: another caller's read clears
  it, and the stale writer's retry overwrites what was recovered. A recovery that a read
  triggers sets none. (For `RefusedUntilRead` any read of the state ends the refusals.)
- A recovery takes the recovery marker away before it reads what it has installed
  (`persistence_recovery.py:346-348`). If the marker was the fallback that kept writers
  off and the file is spoilt once more in between, the load fails and the barrier is
  gone. (`RefusedUntilRead` ends the refusals there too, in `SpoiltAgain`.)
  When neither marker can be written the next stale write goes through.
- An update whose state write is refused is reported as rejected although the program
  has been accepted. `persistence_recovery.py:114` calls a stale marker "harmless": the
  next write is refused because of it.

Records.
- Events recorded between the change of the hour and the cycle's rotation land in the
  older shard, which queries that begin later in that hour skip [`late`]
  (`specs/006.../spec.md:176`). Retention compares the beginning of a shard, so an event
  lives up to an hour less than the seven days of spec.md:97.
- A cut line swallows the next one; a corrupt first line stops rotation; a cut merge
  records events twice [`cut`]; after long downtime the first cycle prunes a shard that
  new events were just added to [`late`].
- /clear during a turn logs that turn in the new log [`straddled`]; a log that cannot be
  read passes for one without a readable line and is deleted unarchived
  (`conversations.py:116-123`) [`lost`]; a log that cannot be removed is archived again
  [`twice`]; a failed archive still renews the session. A cut inside a multi-byte
  character raises `UnicodeDecodeError`, which none of the handlers expect (not in the
  model: cuts fall between characters).

## Not modelled

Contents of messages, prompts, plans and logs; formatting; the platforms' APIs (a send
succeeds, fails, or succeeds without confirmation).

- `ContinuousTask`: one task (tasks share nothing but the queue file, whose merges are
  `TaskQueue`'s), `output.log`, the awaiting reminder (`TopicRecovery` has its saves).
  The step counter is left out: no decision reads it. A pending state is taken to
  describe its next step, as the template asks (`continuous.py:820-821` refuses one that
  does not). The writes of a commit come apart in the run for the licence only
  (`CommitFails`); in the run for progress a commit is one step.
- `TaskQueue`: pruning of old entries and corruption of the queue file (`TaskStore` has
  the recovery, on a task's files).
- `MaintenanceGate`: the shutdown of the process (`cancel_active_writer` is the
  cancellation that `BackOut` and `DrainedOne` cover); a handoff by the writer itself
  (`maintenance.py:157`), which nothing calls for.
- `AgentTurn`: the participant probe, native session ids of other backends, failures of
  `save_state`, cancellation of a handler, the directives of an answer. The session on
  disk is taken to be the one in memory. Pids are reused only across restarts.
- `UpdateTransaction`: the search for a release, a second update over what a failed one
  left behind. The agents' reload that fails
  poisons the gate at once (`updater.py:1680`), here only when the rollback is at its
  branch.
- `Collaborative`: invite links, the interaction mode, inheritance, messages to
  headquarters.
- `Workspaces`: commands of a compensation that fail (`checkout`, `branch -D`),
  `git init`, uncommitted changes, creation of plain workspaces and
  specialists, healing of detached topics.
- `TopicRecovery`: texts of several chunks; completed and rate-limited are one status. A
  deleted task always has `archived_at`: the one writer of the status sets both.
- `Journal`: the clamp marker of a query, limits and filters, clock jumps, shards that
  cannot be removed.
- Configuration: `config_updates` rewrites `.env` for one command at a time; a crash
  during its preflight is the one case worth a model, see the plan. Memory: each
  operation is one SQLite transaction. Single instance: `flock` is the operating
  system's. Backends, scope, media, voice, translations, `setup.py`: I/O, conversions
  and a dialogue, without concurrent state.

## Plan

Done: `TaskQueue` with `JobPromise`, `MaintenanceGate` with `UpdateExclusion`,
`ContinuousTask` with `StepLicence`, `TaskStore`, `AgentTurn`, `UpdateTransaction`,
`TopicRecovery`, `Workspaces`, `Collaborative` and `Journal`, with their proofs.

Next, in this order:

1. Abstract specifications for the modules that have none: an installation that is old,
   new or refuses to boot (`UpdateTransaction`); a document that is only replaced by a
   newer one (`TaskStore`).
2. `config_updates` with its preflight; `healing` of topics.
