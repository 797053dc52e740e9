---------------------------- MODULE ContinuousTask ---------------------------
(***************************************************************************)
(* One continuous task: the scheduler's pass over it, the step processes it *)
(* spawns, the watchers that relay their output and keep their lock alive,  *)
(* and the user's stop, complete, delete and resume                         *)
(* (src/bot/scheduler.py, continuous.py, scheduled_delivery.py,             *)
(* lifecycle_macros.py).                                                    *)
(*                                                                          *)
(* The bot is one event loop: between two awaits of a coroutine no other    *)
(* coroutine runs, so each action is the code from one await to the next.   *)
(* Step processes are separate: they write the state file and remove the    *)
(* lock at any time.  A coroutine that loads the state file, awaits and     *)
(* saves keeps its copy in "snap" meanwhile.                                *)
(***************************************************************************)
EXTENDS Integers, FiniteSets

CONSTANTS
    Pids,             \* step processes, one per spawn; bounds the spawns
    Threshold,        \* ORPHAN_INCIDENT_THRESHOLD
    OnDemand,         \* the checkpoint policy is on-demand
    LockFaults,       \* writing the lock file may fail
    DistantOrphans,   \* two detections may be over 2 scheduler intervals apart
    MaxRequests,      \* bound: stop, complete, delete and resume requests
    MaxCrashes        \* bound: crashes of the bot

NoPid == "none"

ASSUME PidsAssumption == NoPid \notin Pids /\ IsFiniteSet(Pids)
ASSUME ThresholdAssumption == Threshold \in Nat \ {0}
ASSUME OptionsAssumption == {OnDemand, LockFaults, DistantOrphans} \subseteq BOOLEAN
ASSUME BoundsAssumption == MaxRequests \in Nat /\ MaxCrashes \in Nat

VARIABLES
    entry,      \* status of the task's entry in queue.json
    disk,       \* the state file
    lock,       \* the pid in data/<task>/lock
    proc,       \* the step processes
    watch,      \* the delivery watcher of each process
    cyc,        \* where the scheduler is in its pass over the task
    op,         \* the request that holds the task's lifecycle lock
    up,         \* the bot process is running
    requests,   \* requests taken so far
    crashes,    \* crashes so far
    deaths,     \* history: orphans since the last result or request
    started     \* history: the processes that were committed to

vars == <<entry, disk, lock, proc, watch, cyc, op, up, requests, crashes, deaths, started>>
files == <<entry, disk, lock>>
bot == <<watch, cyc, op, up>>
counters == <<requests, crashes, deaths, started>>

\* ContinuousStatus, and the two spellings step agents still write.
Canonical == {"pending", "running", "awaiting_input", "rate_limited",
              "stopped", "completed", "error", "deleted"}
Status == Canonical \cup {"awaiting-input", "rate-limited"}
Terminal == {"completed", "deleted"}
Blocked == {"completed", "deleted", "error", "stopped", "awaiting_input"}
Resumable == {"stopped", "rate_limited", "awaiting_input", "error"}

\* orphans: orphan_detect_count; marker: topic_marker_status; pinned:
\* awaiting_pinned_msg_id is set.
StateWith(statuses) == [status : statuses, orphans : Nat,
                        marker : Canonical \cup {"none"}, pinned : BOOLEAN]
State == StateWith(Status)
Snap == StateWith(Canonical)
NoSnap == [status |-> "pending", orphans |-> 0, marker |-> "none", pinned |-> FALSE]

CycleAt(at, then, s) == [at |-> at, then |-> then, snap |-> s, pid |-> NoPid]
IdleCycle == CycleAt("idle", "done", NoSnap)
IdleOp == [at |-> "idle", kind |-> "stop", snap |-> NoSnap, pid |-> NoPid]
WatchAt(at, s) == [at |-> at, snap |-> s]
NoWatch == WatchAt("none", NoSnap)

\* "spawned": created, not yet committed to; "wrote": has written its result;
\* "unlocked": has removed the lock too, still alive; "stray": an uncommitted
\* process that is not being terminated any more.
Alive == {p \in Pids : proc[p] \notin {"free", "dead"}}
Watched == {p \in Pids : watch[p].at # "none"}

-----------------------------------------------------------------------------
(***************************************************************************)
(* The state file.                                                          *)
(***************************************************************************)

\* load_state: the legacy spellings are normalised in memory.
Load ==
    [disk EXCEPT !.status = CASE @ = "awaiting-input" -> "awaiting_input"
                              [] @ = "rate-limited" -> "rate_limited"
                              [] OTHER -> @]

\* resume_task
Resumed(s) == [s EXCEPT !.status = "pending", !.orphans = 0, !.pinned = FALSE]

\* is_ready_for_next_step: whether the retry time has passed is an input; a pending
\* state describes its next step, as the agent is told to write it (CONTINUOUS_STEP.md).
Ready(s, recovered) ==
    s.status = "pending" \/ (s.status = "rate_limited" /\ recovered)

\* _maybe_demote_on_demand_awaiting_input, on a loaded state.
Demoted(s) ==
    IF OnDemand /\ s.status = "awaiting-input" THEN [s EXCEPT !.status = "pending"]
                                               ELSE s

\* _handle_continuous_orphan
Orphaned(s, distant) ==
    LET count == (IF distant THEN 0 ELSE s.orphans) + 1
    IN  [s EXCEPT !.status = IF count < Threshold THEN "pending" ELSE "error",
                  !.orphans = count]

-----------------------------------------------------------------------------
Init ==
    /\ entry = "pending"
    /\ disk = NoSnap
    /\ lock = NoPid
    /\ proc = [p \in Pids |-> "free"]
    /\ watch = [p \in Pids |-> NoWatch]
    /\ cyc = IdleCycle
    /\ op = IdleOp
    /\ up = TRUE
    /\ requests = 0
    /\ crashes = 0
    /\ deaths = 0
    /\ started = {}

\* No coroutine of the bot is between two awaits.
LoopFree == up /\ cyc.at # "decide"

-----------------------------------------------------------------------------
(***************************************************************************)
(* The scheduler's pass: _handle_continuous_entries for this entry.         *)
(***************************************************************************)

\* What follows the two awaits of _sync_continuous_topic_marker: "decide", or
\* the end of the pass ("done").  "again": a second sync comes before.
AfterSync(s, then) ==
    IF then = "done" THEN IdleCycle
                     ELSE CycleAt("decide", "done", s)

\* The title edit, awaited when the marker differs from the status.
SyncMarkerOf(s, then) ==
    IF s.marker # s.status
    THEN CycleAt("mark", then, s)
    ELSE AfterSync(s, IF then = "again" THEN "decide" ELSE then)

\* The unpin, awaited when a pinned question was answered, then the edit.
SyncOf(s, then) ==
    IF s.pinned /\ s.status # "awaiting_input"
    THEN CycleAt("unpin", then, s)
    ELSE SyncMarkerOf(s, then)

\* Mutant: a sync that fails ends the pass.
Resync_GivesUp(s, then) == IdleCycle

\* A sync that failed; after a rate limit recovery there is a second one.
Resync(s, then) ==
    IF then = "again" THEN SyncOf(s, "decide") ELSE AfterSync(s, then)

\* load_queue at the start of the loop over the entries.
ReadEntry ==
    /\ LoopFree
    /\ cyc.at = "idle"
    /\ entry = "pending"
    /\ cyc' = CycleAt("entry", "done", NoSnap)
    /\ UNCHANGED <<files, proc, watch, op, up, counters>>

\* load_state, the rate limit check and the demotion, up to the first await.
LoadState(recovered) ==
    /\ up
    /\ cyc.at = "entry"
    /\ LET limited == Load.status = "rate_limited"
           s == IF limited /\ recovered THEN Resumed(Load) ELSE Demoted(Load)
       IN  /\ disk' = IF s # Load THEN s ELSE disk
           /\ cyc' = SyncOf(s, IF ~limited THEN "decide"
                               ELSE IF recovered THEN "again" ELSE "done")
    /\ UNCHANGED <<entry, lock, proc, watch, op, up, counters>>

\* unpin_awaiting_message returns true, and the snapshot is saved.
SyncUnpinned ==
    /\ LoopFree
    /\ cyc.at = "unpin"
    /\ LET s == [cyc.snap EXCEPT !.pinned = FALSE]
       IN  disk' = s /\ cyc' = SyncMarkerOf(s, cyc.then)
    /\ UNCHANGED <<entry, lock, proc, watch, op, up, counters>>

\* The unpin fails, or the topic is unreachable and the edit is given up.
SyncUnpinFails ==
    /\ LoopFree
    /\ cyc.at = "unpin"
    /\ \/ cyc' = SyncMarkerOf(cyc.snap, cyc.then)
       \/ cyc' = Resync(cyc.snap, cyc.then)
    /\ UNCHANGED <<files, proc, watch, op, up, counters>>

\* The title is edited, and the snapshot is saved with the new marker.
SyncMarked ==
    /\ LoopFree
    /\ cyc.at = "mark"
    /\ LET s == [cyc.snap EXCEPT !.marker = cyc.snap.status]
       IN  /\ disk' = s
           /\ cyc' = AfterSync(s, IF cyc.then = "again" THEN "decide" ELSE cyc.then)
    /\ UNCHANGED <<entry, lock, proc, watch, op, up, counters>>

SyncMarkFails ==
    /\ LoopFree
    /\ cyc.at = "mark"
    /\ cyc' = Resync(cyc.snap, cyc.then)
    /\ UNCHANGED <<files, proc, watch, op, up, counters>>

\* The snapshot says the task may not run.
SkipBlocked ==
    /\ up
    /\ cyc.at = "decide"
    /\ cyc.snap.status \in Blocked
    /\ cyc' = IdleCycle
    /\ UNCHANGED <<files, proc, watch, op, up, counters>>

\* LockStatus.ALIVE: the process lives and its heartbeat is fresh.
SkipAlive ==
    /\ up
    /\ cyc.at = "decide"
    /\ cyc.snap.status = "running"
    /\ lock \in Alive
    /\ cyc' = IdleCycle
    /\ UNCHANGED <<files, proc, watch, op, up, counters>>

\* The orphan path: the lock goes, the orphaned snapshot is saved, and an
\* incident is shown in the topic.
RecoverOrphan ==
    /\ lock' = NoPid
    /\ deaths' = deaths + 1
    /\ \E distant \in {FALSE, DistantOrphans} :
         LET s == Orphaned(cyc.snap, distant)
         IN  /\ disk' = s
             /\ cyc' = IF s.status = "error" THEN SyncOf(s, "done") ELSE IdleCycle

\* Mutant: a lock whose process is dead is not recovered.
RecoverLock_MissingOnly ==
    /\ up
    /\ cyc.at = "decide"
    /\ cyc.snap.status = "running"
    /\ lock = NoPid
    /\ RecoverOrphan
    /\ UNCHANGED <<entry, proc, watch, op, up, requests, crashes, started>>

\* LockStatus.MISSING or STALE_DEAD_PID
RecoverLock ==
    /\ up
    /\ cyc.at = "decide"
    /\ cyc.snap.status = "running"
    /\ lock \notin Alive
    /\ RecoverOrphan
    /\ UNCHANGED <<entry, proc, watch, op, up, requests, crashes, started>>

\* LockStatus.STALE_ZOMBIE: alive, and nobody refreshes its heartbeat.
FindZombie ==
    /\ up
    /\ cyc.at = "decide"
    /\ cyc.snap.status = "running"
    /\ lock \in Alive \ Watched
    /\ cyc' = [cyc EXCEPT !.at = "zombie", !.pid = lock]
    /\ UNCHANGED <<files, proc, watch, op, up, counters>>

\* terminate_process_by_pid returns true.
ZombieTerminated ==
    /\ LoopFree
    /\ cyc.at = "zombie"
    /\ proc' = [proc EXCEPT ![cyc.pid] = "dead"]
    /\ RecoverOrphan
    /\ UNCHANGED <<entry, watch, op, up, requests, crashes, started>>

\* It returns false: the lock is retained.
ZombieSurvives ==
    /\ LoopFree
    /\ cyc.at = "zombie"
    /\ cyc' = IdleCycle
    /\ UNCHANGED <<files, proc, watch, op, up, counters>>

\* create_subprocess_exec is awaited.  Nothing looks at the lock: the process
\* of the step before may still live.  Free pids are interchangeable: one of
\* them is taken.
SpawnStep(p) ==
    /\ up
    /\ cyc.at = "decide"
    /\ cyc.snap.status = "pending"
    /\ proc[p] = "free"
    /\ p = CHOOSE q \in Pids : proc[q] = "free"
    /\ proc' = [proc EXCEPT ![p] = "spawned"]
    /\ cyc' = [at |-> "spawn", then |-> "done", snap |-> NoSnap, pid |-> p]
    /\ UNCHANGED <<entry, disk, lock, watch, op, up, counters>>

\* The bound on spawns is reached.
SpawnsExhausted ==
    /\ up
    /\ cyc.at = "decide"
    /\ cyc.snap.status = "pending"
    /\ \A p \in Pids : proc[p] # "free"
    /\ cyc' = IdleCycle
    /\ UNCHANGED <<files, proc, watch, op, up, counters>>

\* The spawn raises; a child that was created has been terminated.
SpawnFails ==
    /\ LoopFree
    /\ cyc.at = "spawn"
    /\ proc' = [proc EXCEPT ![cyc.pid] = "free"]
    /\ cyc' = IdleCycle
    /\ UNCHANGED <<entry, disk, lock, watch, op, up, counters>>

\* Mutant: the queue is not read again after the spawn.
StillWanted_StateOnly(recovered) == Ready(Load, recovered)

\* Both authorities are read again after the spawn.
StillWanted(recovered) == entry = "pending" /\ Ready(Load, recovered)

Working(p) == IF proc[p] = "spawned" THEN "working" ELSE proc[p]

\* state = running is saved, then the lock is written, then the orphan count
\* of the previous episode is cleared, then the watcher starts.
CommitStep ==
    /\ LoopFree
    /\ cyc.at = "spawn"
    /\ \E recovered \in BOOLEAN : StillWanted(recovered)
    /\ disk' = [Load EXCEPT !.status = "running", !.orphans = 0]
    /\ lock' = cyc.pid
    /\ proc' = [proc EXCEPT ![cyc.pid] = Working(cyc.pid)]
    /\ watch' = [watch EXCEPT ![cyc.pid] = WatchAt("waiting", NoSnap)]
    /\ cyc' = IdleCycle
    /\ started' = started \cup {cyc.pid}
    /\ UNCHANGED <<entry, op, up, requests, crashes, deaths>>

\* Writing the lock, or clearing the orphan count after it, raises: the step
\* runs on without a watcher.
CommitFails ==
    /\ LockFaults
    /\ LoopFree
    /\ cyc.at = "spawn"
    /\ \E recovered \in BOOLEAN : StillWanted(recovered)
    /\ disk' = [Load EXCEPT !.status = "running"]
    /\ lock' \in {lock} \cup {p \in {cyc.pid} : disk.orphans > 0}
    /\ proc' = [proc EXCEPT ![cyc.pid] = Working(cyc.pid)]
    /\ cyc' = IdleCycle
    /\ started' = started \cup {cyc.pid}
    /\ UNCHANGED <<entry, watch, op, up, requests, crashes, deaths>>

\* A request won during the spawn: the child is terminated.
AbortStep ==
    /\ LoopFree
    /\ cyc.at = "spawn"
    /\ \E recovered \in BOOLEAN : ~StillWanted(recovered)
    /\ cyc' = [cyc EXCEPT !.at = "abort"]
    /\ UNCHANGED <<files, proc, watch, op, up, counters>>

\* The termination succeeds, or fails and the child is left to itself.
StepAborted ==
    /\ LoopFree
    /\ cyc.at = "abort"
    /\ \E outcome \in {"dead", "stray"} :
         proc' = [proc EXCEPT ![cyc.pid] = IF @ = "dead" THEN "dead" ELSE outcome]
    /\ cyc' = IdleCycle
    /\ UNCHANGED <<files, watch, op, up, counters>>

SchedulerStep ==
    \/ ReadEntry \/ (\E recovered \in BOOLEAN : LoadState(recovered))
    \/ SyncUnpinned \/ SyncUnpinFails \/ SyncMarked \/ SyncMarkFails
    \/ SkipBlocked \/ SkipAlive \/ RecoverLock
    \/ FindZombie \/ ZombieTerminated \/ ZombieSurvives
    \/ (\E p \in Pids : SpawnStep(p)) \/ SpawnsExhausted \/ SpawnFails
    \/ CommitStep \/ CommitFails \/ AbortStep \/ StepAborted

-----------------------------------------------------------------------------
(***************************************************************************)
(* The step process, an agent that follows templates/CONTINUOUS_STEP.md.    *)
(***************************************************************************)

\* The agent reloads the state file and writes its result into it.
ReportStep(p) ==
    /\ proc[p] \in {"working", "stray"}
    /\ \E status \in {"pending", "completed", "awaiting-input", "rate-limited", "error"} :
         disk' = [disk EXCEPT !.status = status]
    /\ proc' = [proc EXCEPT ![p] = "wrote"]
    /\ deaths' = 0
    /\ UNCHANGED <<entry, lock, bot, requests, crashes, started>>

\* It removes the lock file, whoever's it is.
UnlockStep(p) ==
    /\ proc[p] = "wrote"
    /\ lock' = NoPid
    /\ proc' = [proc EXCEPT ![p] = "unlocked"]
    /\ UNCHANGED <<entry, disk, bot, counters>>

\* It exits, or is killed, at any point.
ExitStep(p) ==
    /\ p \in Alive
    /\ proc' = [proc EXCEPT ![p] = "dead"]
    /\ UNCHANGED <<files, bot, counters>>

-----------------------------------------------------------------------------
(***************************************************************************)
(* The delivery watcher of a process.                                       *)
(***************************************************************************)

\* refresh_heartbeat: another process's lock is left alone, a missing one is
\* written again.
Heartbeat(p) ==
    /\ LoopFree
    /\ p \in Watched
    /\ lock = NoPid
    /\ lock' = p
    /\ UNCHANGED <<entry, disk, proc, watch, cyc, op, up, counters>>

\* The process is gone: state and output.log are read, and sending begins.
DeliverOutput(p) ==
    /\ LoopFree
    /\ watch[p].at = "waiting"
    /\ proc[p] = "dead"
    /\ \E at \in {IF Load.status = "awaiting_input" THEN "question" ELSE "sent"} :
         watch' = [watch EXCEPT ![p] = WatchAt(at, NoSnap)]
    /\ UNCHANGED <<files, proc, cyc, op, up, counters>>

\* The question was sent: the state is loaded again, the pin and the title
\* edit are awaited.
PinQuestion(p) ==
    /\ LoopFree
    /\ watch[p].at = "question"
    /\ watch' = [watch EXCEPT ![p] = WatchAt("pin", Load)]
    /\ UNCHANGED <<files, proc, cyc, op, up, counters>>

\* Both succeeded, and that state is saved.
QuestionPinned(p) ==
    /\ LoopFree
    /\ watch[p].at = "pin"
    /\ disk' = [watch[p].snap EXCEPT !.pinned = TRUE, !.marker = watch[p].snap.status]
    /\ watch' = [watch EXCEPT ![p] = WatchAt("sent", NoSnap)]
    /\ UNCHANGED <<entry, lock, proc, cyc, op, up, counters>>

\* The delivery is over or has failed: the lock is removed unconditionally.
EndWatch(p) ==
    /\ LoopFree
    /\ watch[p].at \in {"question", "pin", "sent"}
    /\ lock' = NoPid
    /\ watch' = [watch EXCEPT ![p] = NoWatch]
    /\ UNCHANGED <<entry, disk, proc, cyc, op, up, counters>>

WatcherStep(p) ==
    DeliverOutput(p) \/ PinQuestion(p) \/ QuestionPinned(p) \/ EndWatch(p)

-----------------------------------------------------------------------------
(***************************************************************************)
(* Stop (pause), complete, delete and resume, one at a time under           *)
(* _lifecycle_task_lock, each on a state loaded under it.                   *)
(***************************************************************************)

Request ==
    /\ LoopFree
    /\ op.at = "idle"
    /\ requests < MaxRequests
    /\ requests' = requests + 1
    /\ deaths' = 0

Outcome == [stop |-> "stopped", complete |-> "completed", delete |-> "deleted"]

\* What the request finally saves over the state it holds.
Final(kind, s) ==
    IF kind = "resume" THEN Resumed(s) ELSE [s EXCEPT !.status = Outcome[kind]]

\* The awaits between the last load and the final save: clearing the pin, and
\* for a delete also the notice and the archiving of the topic.
Awaits(kind, s) == kind = "delete" \/ s.pinned

\* The rest of a stop, complete or delete once the step is terminated, on the
\* state loaded then.  A terminal state that won meanwhile is left alone.
Conclude(kind, pid) ==
    IF kind # "delete" /\ Load.status \in Terminal
    THEN op' = IdleOp /\ UNCHANGED disk
    ELSE IF Awaits(kind, Load)
    THEN /\ op' = [at |-> "await", kind |-> kind, snap |-> Load, pid |-> pid]
         /\ UNCHANGED disk
    ELSE op' = IdleOp /\ disk' = Final(kind, Load)

\* The task is in that state already: the entry is canceled again.
RepeatRequest ==
    /\ Request
    /\ Load.status \in {"stopped", "deleted"}
    /\ entry' = "canceled"
    /\ UNCHANGED <<disk, lock, proc, watch, cyc, op, up, crashes, started>>

Accepts(kind) ==
    CASE kind = "stop" -> Load.status \notin Terminal \cup {"stopped"}
      [] kind = "complete" -> Load.status \notin Terminal
      [] kind = "delete" -> Load.status # "deleted"

\* drain_and_cancel_continuous_task: the entry is canceled before anything is
\* awaited; a step in the lock file is terminated first.
BeginRequest(kind) ==
    /\ Request
    /\ Accepts(kind)
    /\ entry' = "canceled"
    /\ IF lock \in Alive
       THEN /\ op' = [at |-> "terminate", kind |-> kind, snap |-> NoSnap, pid |-> lock]
            /\ disk' = IF kind = "delete" THEN Load ELSE disk
       ELSE Conclude(kind, NoPid)
    /\ UNCHANGED <<lock, proc, watch, cyc, up, crashes, started>>

\* terminate_process_by_pid returns true.
StepTerminated ==
    /\ LoopFree
    /\ op.at = "terminate"
    /\ proc' = [proc EXCEPT ![op.pid] = "dead"]
    /\ op' = [op EXCEPT !.at = "drain"]
    /\ UNCHANGED <<files, watch, cyc, up, counters>>

\* It returns false: the request fails and its entry stays canceled.
StepSurvives ==
    /\ LoopFree
    /\ op.at = "terminate"
    /\ op' = IdleOp
    /\ UNCHANGED <<files, proc, watch, cyc, up, counters>>

\* The watcher has finished, or 5 s have passed: the lock goes, the state is
\* loaded again.
ConcludeDrain ==
    /\ LoopFree
    /\ op.at = "drain"
    /\ lock' = NoPid
    /\ Conclude(op.kind, op.pid)
    /\ UNCHANGED <<entry, proc, watch, cyc, up, counters>>

\* _resume_task: the entry is reactivated just before the state is saved.
BeginResume ==
    /\ Request
    /\ Load.status \in Resumable
    /\ IF Load.pinned
       THEN /\ op' = [at |-> "await", kind |-> "resume", snap |-> Load, pid |-> NoPid]
            /\ UNCHANGED <<entry, disk>>
       ELSE entry' = "pending" /\ disk' = Final("resume", Load) /\ op' = IdleOp
    /\ UNCHANGED <<lock, proc, watch, cyc, up, crashes, started>>

\* The final save of the snapshot; the unpin may have failed.
CommitRequest ==
    /\ LoopFree
    /\ op.at = "await"
    /\ \E unpinned \in BOOLEAN :
         disk' = Final(op.kind, [op.snap EXCEPT !.pinned = @ /\ ~unpinned])
    /\ entry' = CASE op.kind = "resume" -> "pending"
                  [] op.kind = "delete" -> "canceled"
                  [] OTHER -> entry
    /\ op' = IdleOp
    /\ UNCHANGED <<lock, proc, watch, cyc, up, counters>>

\* apply_update_plan, one section under the same lock: new instructions make
\* an open question obsolete; its pin stays.
UpdatePlan ==
    /\ LoopFree
    /\ op.at = "idle"
    /\ entry = "pending"
    /\ disk' = IF Load.status = "awaiting_input"
               THEN [Load EXCEPT !.status = "pending"] ELSE Load
    /\ disk' # disk
    /\ UNCHANGED <<entry, lock, proc, watch, cyc, op, up, counters>>

RequestStep == StepTerminated \/ StepSurvives \/ ConcludeDrain \/ CommitRequest

-----------------------------------------------------------------------------
(***************************************************************************)
(* The bot process.                                                         *)
(***************************************************************************)

\* Coroutines and their snapshots are lost; files and processes remain.
Crash ==
    /\ up
    /\ crashes < MaxCrashes
    /\ crashes' = crashes + 1
    /\ up' = FALSE
    /\ cyc' = IdleCycle
    /\ op' = IdleOp
    /\ watch' = [p \in Pids |-> NoWatch]
    /\ proc' = [p \in Pids |-> IF proc[p] = "spawned" THEN "stray" ELSE proc[p]]
    /\ UNCHANGED <<files, requests, deaths, started>>

\* cleanup_stale_locks_on_startup: the process in the lock is dead.
StaleLock(processes) == lock \in Pids /\ processes[lock] = "dead"

\* cleanup_on_startup kills the registered survivors it can, and the first
\* cycle removes a lock whose process is dead.
Boot ==
    /\ ~up
    /\ up' = TRUE
    /\ \E killed \in SUBSET Alive :
         proc' = [p \in Pids |-> IF p \in killed THEN "dead" ELSE proc[p]]
    /\ lock' = IF StaleLock(proc') THEN NoPid ELSE lock
    /\ UNCHANGED <<entry, disk, watch, cyc, op, counters>>

-----------------------------------------------------------------------------
Next ==
    \/ SchedulerStep
    \/ \E p \in Pids : ReportStep(p) \/ UnlockStep(p) \/ ExitStep(p)
    \/ \E p \in Pids : Heartbeat(p) \/ WatcherStep(p)
    \/ RepeatRequest \/ BeginResume \/ UpdatePlan
    \/ \E kind \in {"stop", "complete", "delete"} : BeginRequest(kind)
    \/ RequestStep
    \/ Crash \/ Boot

\* The scheduler runs every 60 s and every await of its pass ends; so do the
\* deliveries and the requests.  A rate limit ends; a kill and a spawn succeed
\* now and then; a heartbeat nobody refreshes gets stale.
Fairness ==
    /\ WF_vars(SchedulerStep)
    /\ WF_vars(RequestStep)
    /\ WF_vars(Boot)
    /\ SF_vars(LoadState(TRUE))
    /\ SF_vars(FindZombie)
    /\ SF_vars(ZombieTerminated)
    /\ SF_vars(CommitStep)
    /\ \A p \in Pids : WF_vars(WatcherStep(p))

Spec == Init /\ [][Next]_vars
FairSpec == Spec /\ Fairness

-----------------------------------------------------------------------------
(***************************************************************************)
(* Properties.                                                              *)
(***************************************************************************)

CycleAts == {"idle", "entry", "unpin", "mark", "decide", "zombie", "spawn", "abort"}
OpAts == {"idle", "terminate", "drain", "await"}
Kinds == {"stop", "complete", "delete", "resume"}
ProcStates == {"free", "spawned", "working", "stray", "wrote", "unlocked", "dead"}
WatchAts == {"none", "waiting", "question", "pin", "sent"}

\* Every file, process, coroutine position and snapshot has its type, and a
\* coroutine that waits for a process knows which.
TypeOK ==
    /\ entry \in {"pending", "canceled"}
    /\ disk \in State
    /\ lock \in Pids \cup {NoPid}
    /\ proc \in [Pids -> ProcStates]
    /\ watch \in [Pids -> [at : WatchAts, snap : Snap]]
    /\ cyc \in [at : CycleAts, then : {"again", "decide", "done"},
                snap : Snap, pid : Pids \cup {NoPid}]
    /\ cyc.at \in {"zombie", "spawn", "abort"} => cyc.pid \in Pids
    /\ op \in [at : OpAts, kind : Kinds, snap : Snap, pid : Pids \cup {NoPid}]
    /\ op.at \in {"terminate", "drain"} => op.pid \in Pids /\ op.kind # "resume"
    /\ up \in BOOLEAN
    /\ requests \in Nat /\ crashes \in Nat /\ deaths \in Nat
    /\ started \subseteq Pids

Asked == IF op.at = "idle" THEN "none"
         ELSE IF op.kind = "resume" THEN "grant" ELSE "revoke"

Licence == INSTANCE StepLicence WITH
    Steps <- Pids, licensed <- entry = "pending", asked <- Asked

\* A task that was stopped, completed or deleted starts no step until it is
\* resumed, whatever the scheduler was doing when the request came: the task
\* implements StepLicence.
KeepsLicence == Licence!Spec

\* A step that is recorded as running nobody keeps alive: every process that
\* lives has lost its watcher.
Abandoned ==
    /\ entry = "pending"
    /\ disk.status = "running"
    /\ Alive \cap Watched = {}

\* A task that is running with no process, or with one that lost its watcher
\* in a restart, does not stay so: the scheduler reclaims the lock and the
\* task gets out of "running", unless it is stopped (check_lock_status and
\* the orphan path).
AbandonedStepIsRecovered == Abandoned ~> ~Abandoned

\* A licensed task that is pending, or limited by a rate that ends, starts a
\* step or leaves that state in another way, whatever the topic does.
Waiting ==
    /\ entry = "pending"
    /\ disk.status \in {"pending", "rate_limited", "rate-limited"}
    /\ \E p \in Pids : proc[p] = "free"
LicensedTaskProceeds == Waiting ~> ~Waiting

=============================================================================
