------------------------- MODULE ContinuousTaskProofs ------------------------
(***************************************************************************)
(* Theorems about ContinuousTask, for any number of step processes,         *)
(* requests and crashes and any threshold.                                  *)
(***************************************************************************)
EXTENDS ContinuousTask, TLAPS

-----------------------------------------------------------------------------
(***************************************************************************)
(* What the operators on states and on the cycle return.                    *)
(***************************************************************************)

Thens == {"again", "decide", "done"}
Cycle == [at : CycleAts, then : Thens, snap : Snap, pid : Pids \cup {NoPid}]
OpType == [at : OpAts, kind : Kinds, snap : Snap, pid : Pids \cup {NoPid}]

\* A snapshot can be saved.
LEMMA SnapIsState == Snap \subseteq State
    BY DEF Snap, State, StateWith, Status

LEMMA NoSnapTyped == NoSnap \in Snap
    BY DEF NoSnap, Snap, StateWith, Canonical

\* load_state returns a canonical status.
LEMMA LoadTyped ==
    ASSUME disk \in State
    PROVE  Load \in Snap
<1>1. CASE disk.status = "awaiting-input"
    BY <1>1 DEF Load, State, Snap, StateWith, Status, Canonical
<1>2. CASE disk.status = "rate-limited"
    BY <1>2 DEF Load, State, Snap, StateWith, Status, Canonical
<1>3. CASE disk.status \notin {"awaiting-input", "rate-limited"}
    BY <1>3 DEF Load, State, Snap, StateWith, Status, Canonical
<1>4. QED BY <1>1, <1>2, <1>3

LEMMA ResumedTyped ==
    ASSUME NEW s \in Snap
    PROVE  Resumed(s) \in Snap
    BY DEF Resumed, Snap, StateWith, Canonical

LEMMA DemotedTyped ==
    ASSUME NEW s \in Snap
    PROVE  Demoted(s) \in Snap
    BY DEF Demoted, Snap, StateWith, Canonical

LEMMA OrphanedTyped ==
    ASSUME NEW s \in Snap, NEW distant \in BOOLEAN
    PROVE  Orphaned(s, distant) \in Snap
<1>1. (IF distant THEN 0 ELSE s.orphans) + 1 \in Nat
    BY DEF Snap, StateWith
<1>2. QED BY <1>1 DEF Orphaned, Snap, StateWith, Canonical

LEMMA FinalTyped ==
    ASSUME NEW kind \in Kinds, NEW s \in Snap
    PROVE  Final(kind, s) \in Snap
<1>1. CASE kind = "resume" BY <1>1, ResumedTyped DEF Final
<1>2. CASE kind # "resume"
  <2>1. Outcome[kind] \in Canonical
    BY <1>2 DEF Outcome, Kinds, Canonical
  <2>2. Final(kind, s) = [s EXCEPT !.status = Outcome[kind]]
    BY <1>2 DEF Final
  <2>3. \A status \in Canonical : [s EXCEPT !.status = status] \in Snap
    BY DEF Snap, StateWith
  <2>4. QED BY <2>1, <2>2, <2>3
<1>3. QED BY <1>1, <1>2

\* Between two awaits of a sync the pass holds a state and waits for no process.
LEMMA IdleTyped == IdleCycle \in Cycle /\ IdleCycle.at = "idle"
    BY NoSnapTyped DEF IdleCycle, CycleAt, Cycle, CycleAts, Thens

SyncCycle == {c \in Cycle : c.at \notin {"zombie", "spawn", "abort"}}

LEMMA CycleAtTyped ==
    ASSUME NEW s \in Snap, NEW then \in Thens,
           NEW at \in CycleAts \ {"zombie", "spawn", "abort"}
    PROVE  CycleAt(at, then, s) \in SyncCycle
    BY DEF CycleAt, SyncCycle, Cycle

LEMMA AfterSyncTyped ==
    ASSUME NEW s \in Snap, NEW then \in Thens
    PROVE  AfterSync(s, then) \in SyncCycle
    BY CycleAtTyped, IdleTyped DEF AfterSync, SyncCycle, CycleAts, Thens

LEMMA SyncMarkerTyped ==
    ASSUME NEW s \in Snap, NEW then \in Thens
    PROVE  SyncMarkerOf(s, then) \in SyncCycle
<1>1. CASE s.marker # s.status
    BY <1>1, CycleAtTyped DEF SyncMarkerOf, CycleAts
<1>2. CASE s.marker = s.status
    BY <1>2, AfterSyncTyped DEF SyncMarkerOf, Thens
<1>3. QED BY <1>1, <1>2

LEMMA SyncTyped ==
    ASSUME NEW s \in Snap, NEW then \in Thens
    PROVE  SyncOf(s, then) \in SyncCycle
<1>1. CASE s.pinned /\ s.status # "awaiting_input"
    BY <1>1, CycleAtTyped DEF SyncOf, CycleAts
<1>2. CASE ~(s.pinned /\ s.status # "awaiting_input")
    BY <1>2, SyncMarkerTyped DEF SyncOf
<1>3. QED BY <1>1, <1>2

LEMMA ResyncTyped ==
    ASSUME NEW s \in Snap, NEW then \in Thens
    PROVE  Resync(s, then) \in SyncCycle
<1>1. CASE then = "again"
    BY <1>1, SyncTyped DEF Resync, Thens
<1>2. CASE then # "again"
    BY <1>2, AfterSyncTyped DEF Resync
<1>3. QED BY <1>1, <1>2

-----------------------------------------------------------------------------
(***************************************************************************)
(* TypeOK is inductive: one lemma per action.                               *)
(***************************************************************************)

LEMMA ConcludeTyped ==
    ASSUME TypeOK, NEW kind \in Kinds \ {"resume"}, NEW pid \in Pids \cup {NoPid},
           Conclude(kind, pid)
    PROVE  /\ disk' \in State
           /\ op' \in OpType
           /\ op'.at \in {"idle", "await"}
           /\ op'.at = "await" => op'.kind = kind
<1>1. Load \in Snap /\ disk \in State
    BY LoadTyped DEF TypeOK
<1>2. Final(kind, Load) \in State
    BY <1>1, FinalTyped, SnapIsState
<1>3. IdleOp \in OpType /\ IdleOp.at = "idle"
    BY NoSnapTyped DEF IdleOp, OpType, OpAts, Kinds
<1>4. LET o == [at |-> "await", kind |-> kind, snap |-> Load, pid |-> pid]
      IN  o \in OpType /\ o.at = "await" /\ o.kind = kind
    BY <1>1 DEF OpType, OpAts
<1>5. QED BY <1>1, <1>2, <1>3, <1>4 DEF Conclude

LEMMA ReadEntryTyped ==
    ASSUME TypeOK, ReadEntry
    PROVE  TypeOK'
    BY IdleTyped, NoSnapTyped, CycleAtTyped DEF TypeOK, ReadEntry, SyncCycle, Cycle, CycleAts, Thens, files, bot, counters

LEMMA SyncUnpinFailsTyped ==
    ASSUME TypeOK, SyncUnpinFails
    PROVE  TypeOK'
    BY SyncMarkerTyped, ResyncTyped DEF TypeOK, SyncUnpinFails, SyncCycle, Cycle, CycleAts, Thens, files, bot, counters

LEMMA SyncMarkFailsTyped ==
    ASSUME TypeOK, SyncMarkFails
    PROVE  TypeOK'
    BY ResyncTyped DEF TypeOK, SyncMarkFails, SyncCycle, Cycle, Thens, files, bot, counters

LEMMA SkipBlockedTyped ==
    ASSUME TypeOK, SkipBlocked
    PROVE  TypeOK'
    BY IdleTyped DEF TypeOK, SkipBlocked, Cycle, Thens, files, bot, counters

LEMMA SkipAliveTyped ==
    ASSUME TypeOK, SkipAlive
    PROVE  TypeOK'
    BY IdleTyped DEF TypeOK, SkipAlive, Cycle, Thens, files, bot, counters

LEMMA FindZombieTyped ==
    ASSUME TypeOK, FindZombie
    PROVE  TypeOK'
    BY DEF TypeOK, FindZombie, CycleAts, Alive, files, bot, counters

LEMMA ZombieSurvivesTyped ==
    ASSUME TypeOK, ZombieSurvives
    PROVE  TypeOK'
    BY IdleTyped DEF TypeOK, ZombieSurvives, Cycle, Thens, files, bot, counters

LEMMA SpawnsExhaustedTyped ==
    ASSUME TypeOK, SpawnsExhausted
    PROVE  TypeOK'
    BY IdleTyped DEF TypeOK, SpawnsExhausted, Cycle, Thens, files, bot, counters

LEMMA SpawnFailsTyped ==
    ASSUME TypeOK, SpawnFails
    PROVE  TypeOK'
    BY IdleTyped DEF TypeOK, SpawnFails, Cycle, Thens, ProcStates, files, bot, counters

LEMMA AbortStepTyped ==
    ASSUME TypeOK, AbortStep
    PROVE  TypeOK'
    BY DEF TypeOK, AbortStep, CycleAts, files, bot, counters

LEMMA StepAbortedTyped ==
    ASSUME TypeOK, StepAborted
    PROVE  TypeOK'
    BY IdleTyped DEF TypeOK, StepAborted, Cycle, Thens, ProcStates, files, bot, counters

LEMMA ExitStepTyped ==
    ASSUME TypeOK, NEW p \in Pids, ExitStep(p)
    PROVE  TypeOK'
    BY DEF TypeOK, ExitStep, Alive, ProcStates, files, bot, counters

LEMMA UnlockStepTyped ==
    ASSUME TypeOK, NEW p \in Pids, UnlockStep(p)
    PROVE  TypeOK'
    BY DEF TypeOK, UnlockStep, ProcStates, files, bot, counters

LEMMA HeartbeatTyped ==
    ASSUME TypeOK, NEW p \in Pids, Heartbeat(p)
    PROVE  TypeOK'
    BY DEF TypeOK, Heartbeat, Watched, files, bot, counters

LEMMA StepTerminatedTyped ==
    ASSUME TypeOK, StepTerminated
    PROVE  TypeOK'
    BY DEF TypeOK, StepTerminated, OpAts, ProcStates, files, bot, counters

\* The state a rate limit recovery or the demotion leaves.
LEMMA LoadStateTyped ==
    ASSUME TypeOK, NEW recovered \in BOOLEAN, LoadState(recovered)
    PROVE  TypeOK'
<1>1. Load \in Snap /\ disk \in State
    BY LoadTyped DEF TypeOK
<1> DEFINE limited == Load.status = "rate_limited"
           s == IF limited /\ recovered THEN Resumed(Load) ELSE Demoted(Load)
           then == IF ~limited THEN "decide" ELSE IF recovered THEN "again" ELSE "done"
<1>2. s \in Snap
    BY <1>1, ResumedTyped, DemotedTyped
<1>3. then \in Thens
    BY DEF Thens
<1>4. cyc' = SyncOf(s, then) /\ disk' = IF s # Load THEN s ELSE disk
    BY DEF LoadState
<1> HIDE DEF s, then
<1>5. cyc' \in SyncCycle
    BY <1>2, <1>3, <1>4, SyncTyped
<1>6. disk' \in State
    BY <1>1, <1>2, <1>4, SnapIsState
<1>7. QED BY <1>5, <1>6 DEF TypeOK, LoadState, SyncCycle, Cycle, Thens, counters

LEMMA SyncUnpinnedTyped ==
    ASSUME TypeOK, SyncUnpinned
    PROVE  TypeOK'
<1> DEFINE s == [cyc.snap EXCEPT !.pinned = FALSE]
<1>1. s \in Snap /\ cyc.then \in Thens
    BY DEF TypeOK, Thens, Snap, StateWith
<1>2. disk' = s /\ cyc' = SyncMarkerOf(s, cyc.then)
    BY DEF SyncUnpinned
<1> HIDE DEF s
<1>3. cyc' \in SyncCycle /\ disk' \in State
    BY <1>1, <1>2, SyncMarkerTyped, SnapIsState
<1>4. QED BY <1>3 DEF TypeOK, SyncUnpinned, SyncCycle, Cycle, Thens, counters

LEMMA SyncMarkedTyped ==
    ASSUME TypeOK, SyncMarked
    PROVE  TypeOK'
<1> DEFINE s == [cyc.snap EXCEPT !.marker = cyc.snap.status]
           then == IF cyc.then = "again" THEN "decide" ELSE cyc.then
<1>1. s \in Snap
  <2>1. cyc.snap \in Snap /\ cyc.snap.status \in Canonical
      BY DEF TypeOK, Snap, StateWith
  <2>2. \A t \in Snap, m \in Canonical : [t EXCEPT !.marker = m] \in Snap
      BY DEF Snap, StateWith
  <2>3. QED BY <2>1, <2>2
<1>2. then \in Thens
    BY DEF TypeOK, Thens
<1>3. disk' = s /\ cyc' = AfterSync(s, then)
    BY DEF SyncMarked
<1> HIDE DEF s, then
<1>4. cyc' \in SyncCycle /\ disk' \in State
    BY <1>1, <1>2, <1>3, AfterSyncTyped, SnapIsState
<1>5. QED BY <1>4 DEF TypeOK, SyncMarked, SyncCycle, Cycle, Thens, counters

\* Both orphan paths.
LEMMA RecoverOrphanTyped ==
    ASSUME TypeOK, RecoverOrphan
    PROVE  lock' = NoPid /\ disk' \in State /\ cyc' \in SyncCycle /\ deaths' \in Nat
<1>1. PICK distant \in {FALSE, DistantOrphans} :
         LET s == Orphaned(cyc.snap, distant)
         IN  /\ disk' = s
             /\ cyc' = IF s.status = "error" THEN SyncOf(s, "done") ELSE IdleCycle
    BY DEF RecoverOrphan
<1>2. distant \in BOOLEAN
    BY OptionsAssumption
<1>3. Orphaned(cyc.snap, distant) \in Snap
    BY <1>2, OrphanedTyped DEF TypeOK
<1>4. disk' \in State
    BY <1>1, <1>3, SnapIsState
<1>5. cyc' \in SyncCycle
    BY <1>1, <1>3, SyncTyped, IdleTyped DEF SyncCycle, Thens
<1>6. deaths' \in Nat /\ lock' = NoPid
    BY DEF RecoverOrphan, TypeOK
<1>7. QED BY <1>4, <1>5, <1>6

LEMMA RecoverLockTyped ==
    ASSUME TypeOK, RecoverLock
    PROVE  TypeOK'
    BY RecoverOrphanTyped DEF TypeOK, RecoverLock, SyncCycle, Cycle, Thens

LEMMA ZombieTerminatedTyped ==
    ASSUME TypeOK, ZombieTerminated
    PROVE  TypeOK'
    BY RecoverOrphanTyped DEF TypeOK, ZombieTerminated, SyncCycle, Cycle, Thens, ProcStates

LEMMA SpawnStepTyped ==
    ASSUME TypeOK, NEW p \in Pids, SpawnStep(p)
    PROVE  TypeOK'
    BY NoSnapTyped DEF TypeOK, SpawnStep, CycleAts, ProcStates, counters

\* The watcher of the committed step holds no state yet.
LEMMA CommitStepTyped ==
    ASSUME TypeOK, CommitStep
    PROVE  TypeOK'
<1>1. Load \in Snap /\ cyc.pid \in Pids
    BY LoadTyped DEF TypeOK, CommitStep
<1>2. disk' \in State
  <2>1. \A s \in Snap : [s EXCEPT !.status = "running", !.orphans = 0] \in Snap
      BY DEF Snap, StateWith, Canonical
  <2>2. QED BY <1>1, <2>1, SnapIsState DEF CommitStep
<1>3. Working(cyc.pid) \in ProcStates
    BY <1>1 DEF TypeOK, Working, ProcStates
<1>4. proc' \in [Pids -> ProcStates]
    BY <1>1, <1>3 DEF TypeOK, CommitStep
<1>5. watch' \in [Pids -> [at : WatchAts, snap : Snap]]
    BY <1>1, NoSnapTyped DEF TypeOK, CommitStep, WatchAt, WatchAts
<1>6. cyc' \in Cycle /\ cyc'.at = "idle"
    BY IdleTyped DEF CommitStep
<1>7. QED BY <1>1, <1>2, <1>4, <1>5, <1>6 DEF TypeOK, CommitStep, Cycle, Thens

LEMMA CommitFailsTyped ==
    ASSUME TypeOK, CommitFails
    PROVE  TypeOK'
<1>1. Load \in Snap /\ cyc.pid \in Pids
    BY LoadTyped DEF TypeOK, CommitFails
<1>2. disk' \in State
  <2>1. \A s \in Snap : [s EXCEPT !.status = "running"] \in Snap
      BY DEF Snap, StateWith, Canonical
  <2>2. QED BY <1>1, <2>1, SnapIsState DEF CommitFails
<1>3. Working(cyc.pid) \in ProcStates
    BY <1>1 DEF TypeOK, Working, ProcStates
<1>4. proc' \in [Pids -> ProcStates] /\ lock' \in Pids \cup {NoPid}
    BY <1>1, <1>3 DEF TypeOK, CommitFails
<1>5. cyc' \in Cycle /\ cyc'.at = "idle"
    BY IdleTyped DEF CommitFails
<1>6. QED BY <1>1, <1>2, <1>4, <1>5 DEF TypeOK, CommitFails, Cycle, Thens

LEMMA ReportStepTyped ==
    ASSUME TypeOK, NEW p \in Pids, ReportStep(p)
    PROVE  TypeOK'
<1>1. disk' \in State
  <2>1. PICK status \in {"pending", "completed", "awaiting-input", "rate-limited", "error"} :
           disk' = [disk EXCEPT !.status = status]
      BY DEF ReportStep
  <2>2. status \in Status /\ disk \in State
      BY DEF TypeOK, Status, Canonical
  <2>3. \A s \in State, st \in Status : [s EXCEPT !.status = st] \in State
      BY DEF State, StateWith
  <2>4. QED BY <2>1, <2>2, <2>3
<1>2. QED BY <1>1 DEF TypeOK, ReportStep, ProcStates, bot

LEMMA DeliverOutputTyped ==
    ASSUME TypeOK, NEW p \in Pids, DeliverOutput(p)
    PROVE  TypeOK'
<1>1. watch' \in [Pids -> [at : WatchAts, snap : Snap]]
    BY NoSnapTyped DEF TypeOK, DeliverOutput, WatchAt, WatchAts
<1>2. QED BY <1>1 DEF TypeOK, DeliverOutput, files, counters

LEMMA PinQuestionTyped ==
    ASSUME TypeOK, NEW p \in Pids, PinQuestion(p)
    PROVE  TypeOK'
<1>1. Load \in Snap
    BY LoadTyped DEF TypeOK
<1>2. watch' \in [Pids -> [at : WatchAts, snap : Snap]]
    BY <1>1 DEF TypeOK, PinQuestion, WatchAt, WatchAts
<1>3. QED BY <1>2 DEF TypeOK, PinQuestion, files, counters

LEMMA QuestionPinnedTyped ==
    ASSUME TypeOK, NEW p \in Pids, QuestionPinned(p)
    PROVE  TypeOK'
<1>1. watch' \in [Pids -> [at : WatchAts, snap : Snap]]
    BY NoSnapTyped DEF TypeOK, QuestionPinned, WatchAt, WatchAts
<1>2. disk' \in State
  <2>1. watch[p].snap \in Snap
      BY DEF TypeOK
  <2>2. \A s \in Snap, m \in Canonical : [s EXCEPT !.pinned = TRUE, !.marker = m] \in Snap
      BY DEF Snap, StateWith
  <2>3. watch[p].snap.status \in Canonical
      BY <2>1 DEF Snap, StateWith
  <2>4. QED BY <2>1, <2>2, <2>3, SnapIsState DEF QuestionPinned
<1>3. QED BY <1>1, <1>2 DEF TypeOK, QuestionPinned, counters

LEMMA EndWatchTyped ==
    ASSUME TypeOK, NEW p \in Pids, EndWatch(p)
    PROVE  TypeOK'
<1>1. watch' \in [Pids -> [at : WatchAts, snap : Snap]]
    BY NoSnapTyped DEF TypeOK, EndWatch, WatchAt, NoWatch, WatchAts
<1>2. QED BY <1>1 DEF TypeOK, EndWatch, counters

LEMMA RepeatRequestTyped ==
    ASSUME TypeOK, RepeatRequest
    PROVE  TypeOK'
    BY DEF TypeOK, RepeatRequest, Request

LEMMA BeginRequestTyped ==
    ASSUME TypeOK, NEW kind \in {"stop", "complete", "delete"}, BeginRequest(kind)
    PROVE  TypeOK'
<1>1. kind \in Kinds \ {"resume"}
    BY DEF Kinds
<1>2. Load \in Snap /\ disk \in State
    BY LoadTyped DEF TypeOK
<1>3. CASE lock \in Alive
  <2>1. op' = [at |-> "terminate", kind |-> kind, snap |-> NoSnap, pid |-> lock]
      BY <1>3 DEF BeginRequest
  <2>2. lock \in Pids
      BY <1>3 DEF Alive
  <2>3. op' \in OpType /\ op'.at = "terminate" /\ op'.pid \in Pids /\ op'.kind # "resume"
      BY <1>1, <2>1, <2>2, NoSnapTyped DEF OpType, OpAts
  <2>4. disk' \in State
      BY <1>2, <1>3, SnapIsState DEF BeginRequest
  <2>5. QED BY <2>3, <2>4 DEF TypeOK, BeginRequest, Request, OpType
<1>4. CASE lock \notin Alive
  <2>1. Conclude(kind, NoPid)
      BY <1>4 DEF BeginRequest
  <2>2. disk' \in State /\ op' \in OpType /\ op'.at \in {"idle", "await"}
      BY <1>1, <2>1, ConcludeTyped
  <2>3. QED BY <2>2 DEF TypeOK, BeginRequest, Request, OpType
<1>5. QED BY <1>3, <1>4

LEMMA StepSurvivesTyped ==
    ASSUME TypeOK, StepSurvives
    PROVE  TypeOK'
    BY NoSnapTyped DEF TypeOK, StepSurvives, IdleOp, OpAts, Kinds, files, counters

LEMMA ConcludeDrainTyped ==
    ASSUME TypeOK, ConcludeDrain
    PROVE  TypeOK'
<1>1. op.kind \in Kinds \ {"resume"} /\ op.pid \in Pids \cup {NoPid}
    BY DEF TypeOK, ConcludeDrain
<1>2. disk' \in State /\ op' \in OpType /\ op'.at \in {"idle", "await"}
    BY <1>1, ConcludeTyped DEF ConcludeDrain
<1>3. QED BY <1>2 DEF TypeOK, ConcludeDrain, OpType, counters

LEMMA BeginResumeTyped ==
    ASSUME TypeOK, BeginResume
    PROVE  TypeOK'
<1>1. Load \in Snap
    BY LoadTyped DEF TypeOK
<1>2. Final("resume", Load) \in State
    BY <1>1, FinalTyped, SnapIsState DEF Kinds
<1>3. /\ entry' \in {"pending", "canceled"}
      /\ disk' \in State
      /\ op' \in OpType
      /\ op'.at \in {"idle", "await"}
  <2>1. CASE Load.pinned
      BY <1>1, <2>1 DEF TypeOK, BeginResume, OpType, OpAts, Kinds
  <2>2. CASE ~Load.pinned
      BY <1>2, <2>2, NoSnapTyped DEF BeginResume, IdleOp, OpType, OpAts, Kinds
  <2>3. QED BY <2>1, <2>2
<1>4. QED BY <1>3 DEF TypeOK, BeginResume, Request, OpType

LEMMA CommitRequestTyped ==
    ASSUME TypeOK, CommitRequest
    PROVE  TypeOK'
<1>1. PICK unpinned \in BOOLEAN :
         disk' = Final(op.kind, [op.snap EXCEPT !.pinned = @ /\ ~unpinned])
    BY DEF CommitRequest
<1>2. [op.snap EXCEPT !.pinned = @ /\ ~unpinned] \in Snap
  <2>1. op.snap \in Snap /\ op.snap.pinned \in BOOLEAN
      BY DEF TypeOK, Snap, StateWith
  <2>2. (op.snap.pinned /\ ~unpinned) \in BOOLEAN
      OBVIOUS
  <2>3. \A s \in Snap, b \in BOOLEAN : [s EXCEPT !.pinned = b] \in Snap
      BY DEF Snap, StateWith
  <2>4. QED BY <2>1, <2>2, <2>3
<1>3. disk' \in State
    BY <1>1, <1>2, FinalTyped, SnapIsState DEF TypeOK
<1>4. entry' \in {"pending", "canceled"}
    BY DEF TypeOK, CommitRequest
<1>5. op' \in OpType /\ op'.at = "idle"
    BY NoSnapTyped DEF CommitRequest, IdleOp, OpType, OpAts, Kinds
<1>6. QED BY <1>3, <1>4, <1>5 DEF TypeOK, CommitRequest, OpType, counters

LEMMA UpdatePlanTyped ==
    ASSUME TypeOK, UpdatePlan
    PROVE  TypeOK'
<1>1. Load \in Snap
    BY LoadTyped DEF TypeOK
<1>2. disk' \in State
  <2>1. \A s \in Snap : [s EXCEPT !.status = "pending"] \in Snap
      BY DEF Snap, StateWith, Canonical
  <2>2. QED BY <1>1, <2>1, SnapIsState DEF UpdatePlan
<1>3. QED BY <1>2 DEF TypeOK, UpdatePlan, counters

LEMMA CrashTyped ==
    ASSUME TypeOK, Crash
    PROVE  TypeOK'
<1>1. watch' \in [Pids -> [at : WatchAts, snap : Snap]]
    BY NoSnapTyped DEF Crash, WatchAt, NoWatch, WatchAts
<1>2. proc' \in [Pids -> ProcStates]
    BY DEF TypeOK, Crash, ProcStates
<1>3. cyc' \in Cycle /\ cyc'.at = "idle"
    BY IdleTyped DEF Crash
<1>4. op' \in OpType /\ op'.at = "idle"
    BY NoSnapTyped DEF Crash, IdleOp, OpType, OpAts, Kinds
<1>5. up' \in BOOLEAN /\ crashes' \in Nat
  <2>1. up' \in BOOLEAN
      BY DEF Crash
  <2>2. crashes \in Nat /\ crashes' = crashes + 1
      BY DEF TypeOK, Crash
  <2>3. QED BY <2>1, <2>2
<1>6. UNCHANGED <<entry, disk, lock, requests, deaths, started>>
    BY DEF Crash, files
<1>7. QED BY <1>1, <1>2, <1>3, <1>4, <1>5, <1>6 DEF TypeOK, Cycle, Thens, OpType

LEMMA BootTyped ==
    ASSUME TypeOK, Boot
    PROVE  TypeOK'
<1>1. proc' \in [Pids -> ProcStates]
    BY DEF TypeOK, Boot, ProcStates
<1>2. QED BY <1>1 DEF TypeOK, Boot, counters

-----------------------------------------------------------------------------
\* TypeOK holds initially.
LEMMA InitTyped ==
    ASSUME Init
    PROVE  TypeOK
<1>1. NoSnap \in State
    BY NoSnapTyped, SnapIsState
<1>2. watch \in [Pids -> [at : WatchAts, snap : Snap]]
    BY NoSnapTyped DEF Init, WatchAt, NoWatch, WatchAts
<1>3. cyc \in Cycle /\ cyc.at = "idle"
    BY IdleTyped DEF Init
<1>4. op \in OpType /\ op.at = "idle"
    BY NoSnapTyped DEF Init, IdleOp, OpType, OpAts, Kinds
<1>5. QED BY <1>1, <1>2, <1>3, <1>4 DEF Init, TypeOK, Cycle, Thens, OpType, ProcStates

\* Every step keeps it.
LEMMA NextTyped ==
    ASSUME TypeOK, [Next]_vars
    PROVE  TypeOK'
<1>1. CASE SchedulerStep
    BY <1>1, ReadEntryTyped, LoadStateTyped, SyncUnpinnedTyped, SyncUnpinFailsTyped,
       SyncMarkedTyped, SyncMarkFailsTyped, SkipBlockedTyped, SkipAliveTyped,
       RecoverLockTyped, FindZombieTyped, ZombieTerminatedTyped, ZombieSurvivesTyped,
       SpawnStepTyped, SpawnsExhaustedTyped, SpawnFailsTyped, CommitStepTyped,
       CommitFailsTyped, AbortStepTyped, StepAbortedTyped
       DEF SchedulerStep
<1>2. CASE \E p \in Pids : ReportStep(p) \/ UnlockStep(p) \/ ExitStep(p)
    BY <1>2, ReportStepTyped, UnlockStepTyped, ExitStepTyped
<1>3. CASE \E p \in Pids : Heartbeat(p) \/ WatcherStep(p)
    BY <1>3, HeartbeatTyped, DeliverOutputTyped, PinQuestionTyped, QuestionPinnedTyped,
       EndWatchTyped
       DEF WatcherStep
<1>4. CASE RepeatRequest \/ BeginResume \/ UpdatePlan
    BY <1>4, RepeatRequestTyped, BeginResumeTyped, UpdatePlanTyped
<1>5. CASE \E kind \in {"stop", "complete", "delete"} : BeginRequest(kind)
    BY <1>5, BeginRequestTyped
<1>6. CASE RequestStep
    BY <1>6, StepTerminatedTyped, StepSurvivesTyped, ConcludeDrainTyped, CommitRequestTyped
       DEF RequestStep
<1>7. CASE Crash \/ Boot
    BY <1>7, CrashTyped, BootTyped
<1>8. CASE UNCHANGED vars
    BY <1>8 DEF vars, TypeOK
<1>9. QED BY <1>1, <1>2, <1>3, <1>4, <1>5, <1>6, <1>7, <1>8 DEF Next

\* The files, processes, coroutines and snapshots keep their types, and a
\* coroutine that waits for a process knows which.
THEOREM TypeCorrect == Spec => []TypeOK
    BY InitTyped, NextTyped, PTL DEF Spec

-----------------------------------------------------------------------------
(***************************************************************************)
(* ContinuousTask implements StepLicence: what each step does to the        *)
(* licence, the started steps and the request in hand.                      *)
(***************************************************************************)

Idles == UNCHANGED <<entry, op, started>>

LEMMA IdleStutters ==
    ASSUME Idles
    PROVE  UNCHANGED Licence!vars
    BY DEF Idles, Licence!vars, Asked

\* A step that is committed to was not committed to before, and the entry is
\* pending in the very section that commits: both authorities are read again.
LEMMA CommitStarts ==
    ASSUME TypeOK, CommitStep \/ CommitFails
    PROVE  Licence!Start \/ UNCHANGED Licence!vars
<1>1. entry = "pending" /\ UNCHANGED <<entry, op>>
    BY DEF CommitStep, CommitFails, StillWanted
<1>2. cyc.pid \in Pids /\ started' = started \cup {cyc.pid}
    BY DEF TypeOK, CommitStep, CommitFails
<1>3. Asked' = Asked
    BY <1>1 DEF Asked
<1>4. CASE cyc.pid \in started
    BY <1>1, <1>2, <1>3, <1>4 DEF Licence!vars
<1>5. CASE cyc.pid \notin started
    BY <1>1, <1>2, <1>3, <1>5 DEF Licence!Start
<1>6. QED BY <1>4, <1>5

\* A stop, complete or delete has canceled the entry when its section ends.
LEMMA RequestRevokes ==
    ASSUME TypeOK, NEW kind \in {"stop", "complete", "delete"}, BeginRequest(kind)
    PROVE  Licence!Revoke
<1>1. Asked = "none" /\ entry' = "canceled" /\ started' = started
    BY DEF BeginRequest, Request, Asked
<1>2. op'.at = "idle" \/ op'.kind = kind
  <2>1. CASE lock \in Alive
      BY <2>1 DEF BeginRequest
  <2>2. CASE lock \notin Alive
      BY <2>2 DEF BeginRequest, Conclude, IdleOp
  <2>3. QED BY <2>1, <2>2
<1>3. Asked' \in {"none", "revoke"}
    BY <1>2 DEF Asked
<1>4. QED BY <1>1, <1>3 DEF Licence!Revoke

LEMMA RepeatRevokes ==
    ASSUME RepeatRequest
    PROVE  Licence!Revoke
    BY DEF RepeatRequest, Request, Asked, Licence!Revoke

\* Only a resume makes the entry pending.
LEMMA ResumeGrants ==
    ASSUME BeginResume
    PROVE  Licence!Grant
<1>1. op.at = "idle" /\ started' = started
    BY DEF BeginResume, Request
<1>2. CASE Load.pinned
    BY <1>1, <1>2 DEF BeginResume, Asked, Licence!Grant
<1>3. CASE ~Load.pinned
    BY <1>1, <1>3 DEF BeginResume, IdleOp, Asked, Licence!Grant
<1>4. QED BY <1>2, <1>3

\* The rest of a request settles it, or leaves it in hand.
LEMMA RequestSettles ==
    ASSUME TypeOK, RequestStep
    PROVE  Licence!Settle \/ UNCHANGED Licence!vars
<1>1. CASE StepTerminated
  <2>1. op'.at = "drain" /\ op'.kind = op.kind
      BY <1>1 DEF TypeOK, StepTerminated
  <2>2. op.at = "terminate" /\ entry' = entry /\ started' = started
      BY <1>1 DEF StepTerminated, files, counters
  <2>3. QED BY <2>1, <2>2 DEF Asked, Licence!vars
<1>2. CASE StepSurvives
    BY <1>2 DEF StepSurvives, IdleOp, Asked, Licence!Settle, files, counters
<1>3. CASE ConcludeDrain
  <2>1. op.at = "drain" /\ op.kind # "resume" /\ entry' = entry /\ started' = started
      BY <1>3 DEF TypeOK, ConcludeDrain, counters
  <2>2. Asked = "revoke"
      BY <2>1 DEF Asked
  <2>3. op'.at = "idle" \/ (op'.at = "await" /\ op'.kind = op.kind)
      BY <1>3 DEF ConcludeDrain, Conclude, IdleOp
  <2>4. Asked' \in {"none", "revoke"}
      BY <2>1, <2>3 DEF Asked
  <2>5. QED BY <2>1, <2>2, <2>4 DEF Licence!Settle, Licence!vars
<1>4. CASE CommitRequest
  <2>1. op.at = "await" /\ started' = started /\ Asked' = "none"
      BY <1>4 DEF CommitRequest, IdleOp, Asked, counters
  <2>2. Asked = IF op.kind = "resume" THEN "grant" ELSE "revoke"
      BY <2>1 DEF Asked
  <2>3. CASE op.kind = "resume"
    <3>1. entry' = "pending"
        BY <1>4, <2>3 DEF CommitRequest
    <3>2. QED BY <2>1, <2>2, <2>3, <3>1 DEF Licence!Settle
  <2>4. CASE op.kind = "delete"
    <3>1. entry' = "canceled"
        BY <1>4, <2>4 DEF CommitRequest
    <3>2. QED BY <2>1, <2>2, <2>4, <3>1 DEF Licence!Settle
  <2>5. CASE op.kind \notin {"resume", "delete"}
    <3>1. entry' = entry
        BY <1>4, <2>5 DEF CommitRequest
    <3>2. QED BY <2>1, <2>2, <2>5, <3>1 DEF Licence!Settle
  <2>6. QED BY <2>3, <2>4, <2>5
<1>5. QED BY <1>1, <1>2, <1>3, <1>4 DEF RequestStep

\* A crash loses the request in hand.
LEMMA CrashSettles ==
    ASSUME TypeOK, Crash
    PROVE  Licence!Settle \/ UNCHANGED Licence!vars
<1>1. entry' = entry /\ started' = started /\ Asked' = "none"
    BY DEF Crash, files, IdleOp, Asked
<1>2. CASE Asked = "none"
    BY <1>1, <1>2 DEF Licence!vars
<1>3. CASE Asked # "none"
    BY <1>1, <1>3 DEF Licence!Settle
<1>4. QED BY <1>2, <1>3

LEMMA SchedulerRefines ==
    ASSUME TypeOK, SchedulerStep
    PROVE  [Licence!Next]_(Licence!vars)
<1>1. CASE CommitStep \/ CommitFails
    BY <1>1, CommitStarts DEF Licence!Next
<1>2. CASE ~(CommitStep \/ CommitFails)
  <2>1. Idles
      BY <1>2 DEF SchedulerStep, Idles, ReadEntry, LoadState, SyncUnpinned,
         SyncUnpinFails, SyncMarked, SyncMarkFails, SkipBlocked, SkipAlive, RecoverLock,
         FindZombie, ZombieTerminated, ZombieSurvives, SpawnStep, SpawnsExhausted,
         SpawnFails, AbortStep, StepAborted, files, counters
  <2>2. QED BY <2>1, IdleStutters
<1>3. QED BY <1>1, <1>2

LEMMA NextRefines ==
    ASSUME TypeOK, [Next]_vars
    PROVE  [Licence!Next]_(Licence!vars)
<1>1. CASE SchedulerStep
    BY <1>1, SchedulerRefines
<1>2. CASE \E p \in Pids : ReportStep(p) \/ UnlockStep(p) \/ ExitStep(p)
  <2>1. Idles
      BY <1>2 DEF Idles, ReportStep, UnlockStep, ExitStep, files, bot, counters
  <2>2. QED BY <2>1, IdleStutters
<1>3. CASE \E p \in Pids : Heartbeat(p) \/ WatcherStep(p)
  <2>1. Idles
      BY <1>3 DEF Idles, Heartbeat, WatcherStep, DeliverOutput, PinQuestion,
         QuestionPinned, EndWatch, files, counters
  <2>2. QED BY <2>1, IdleStutters
<1>4. CASE RepeatRequest \/ BeginResume \/ UpdatePlan
  <2>1. UpdatePlan => Idles
      BY DEF Idles, UpdatePlan, counters
  <2>2. QED BY <1>4, <2>1, IdleStutters, RepeatRevokes, ResumeGrants DEF Licence!Next
<1>5. CASE \E kind \in {"stop", "complete", "delete"} : BeginRequest(kind)
    BY <1>5, RequestRevokes DEF Licence!Next
<1>6. CASE RequestStep
    BY <1>6, RequestSettles DEF Licence!Next
<1>7. CASE Crash
    BY <1>7, CrashSettles DEF Licence!Next
<1>8. CASE Boot
  <2>1. Idles
      BY <1>8 DEF Idles, Boot, counters
  <2>2. QED BY <2>1, IdleStutters
<1>9. CASE UNCHANGED vars
    BY <1>9, IdleStutters DEF vars, Idles
<1>10. QED BY <1>1, <1>2, <1>3, <1>4, <1>5, <1>6, <1>7, <1>8, <1>9 DEF Next

LEMMA InitRefines ==
    ASSUME Init
    PROVE  Licence!Init
    BY DEF Init, IdleOp, Asked, Licence!Init

\* A task starts steps only while it is licensed: a stop, complete or delete
\* revokes the licence in the section that takes it, and only a resume grants
\* it again, whatever snapshot the scheduler, a watcher or a step agent saves.
THEOREM StartsAreLicensed == Spec => KeepsLicence
<1>1. Init => Licence!Init
    BY InitRefines
<1>2. TypeOK /\ [Next]_vars => [Licence!Next]_(Licence!vars)
    BY NextRefines
<1>3. QED BY <1>1, <1>2, TypeCorrect, PTL DEF Spec, KeepsLicence, Licence!Spec
=============================================================================
