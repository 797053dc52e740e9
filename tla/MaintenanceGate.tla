--------------------------- MODULE MaintenanceGate ---------------------------
(***************************************************************************)
(* The process-wide reader/writer gate (src/bot/maintenance.py) that keeps  *)
(* ordinary work and updates apart: shared leases, re-entrant per asyncio   *)
(* task; leases handed to a delivery watcher before it runs; the exclusive  *)
(* lease with its intent, its deadline and its two ways out; gateway events *)
(* deferred behind it; and the fail-stop after a failed recovery.           *)
(*                                                                          *)
(* One action is the code between two awaits.  The lock of _condition is    *)
(* never held across an await other than Condition.wait, so taking it does  *)
(* not yield.                                                               *)
(***************************************************************************)
EXTENDS Naturals, Sequences, FiniteSets

CONSTANTS
    Tasks,     \* asyncio tasks: handlers, scheduler cycles, updates
    Watchers,  \* delivery watchers a reader may spawn under its lease
    Events,    \* gateway events (a bot added to or removed from a group)
    MaxDepth   \* bound: nested leases of one task

NoTask == "no task"

ASSUME TasksAssumption == NoTask \notin Tasks /\ IsFiniteSet(Watchers)
ASSUME KindsAssumption ==
    /\ Tasks \cap Watchers = {}
    /\ Tasks \cap Events = {}
    /\ Watchers \cap Events = {}
ASSUME DepthAssumption == MaxDepth \in Nat

VARIABLES
    readers,        \* _readers: lease depth of each task, 0 if it has none
    writer,         \* _writer
    pendingWriter,  \* _pending_writer; _writer_pending is pendingWriter # NoTask
    writerDepth,    \* _writer_depth
    handoffs,       \* _handoffs
    poisoned,       \* _poisoned_reason is not None
    deferred,       \* _deferred: the events queued behind the writer
    step,           \* where a task is in exclusive()
    watcher,        \* where a watcher is in its life
    event,          \* where an event is in its life
    notices,        \* _notify_waiters tasks that were created and did not run
    runs            \* history: times the callback of an event was started

vars == <<readers, writer, pendingWriter, writerDepth, handoffs, poisoned,
          deferred, step, watcher, event, notices, runs>>

leases == <<readers, handoffs, watcher, notices>>
events == <<deferred, event, runs>>
exclusion == <<writer, pendingWriter, writerDepth, poisoned>>

active == poisoned \/ pendingWriter # NoTask \/ writer # NoTask

Drained == (\A t \in Tasks \cup Events : readers[t] = 0) /\ handoffs = 0

\* notify_all: a writer that waits on the condition looks again.
Woken == [t \in Tasks |-> IF step[t] = "asleep" THEN "waiting" ELSE step[t]]

-----------------------------------------------------------------------------
Init ==
    /\ readers = [t \in Tasks \cup Events |-> 0]
    /\ writer = NoTask
    /\ pendingWriter = NoTask
    /\ writerDepth = 0
    /\ handoffs = 0
    /\ poisoned = FALSE
    /\ deferred = <<>>
    /\ step = [t \in Tasks |-> "outside"]
    /\ watcher = [w \in Watchers |-> "unborn"]
    /\ event = [e \in Events |-> "unseen"]
    /\ notices = 0
    /\ runs = [e \in Events |-> 0]

-----------------------------------------------------------------------------
(***************************************************************************)
(* Shared leases.                                                           *)
(***************************************************************************)

\* shared(): the first lease of a task; refused once an intent is declared.
AcquireShared(t) ==
    /\ step[t] = "outside"
    /\ readers[t] = 0
    /\ ~active
    /\ readers' = [readers EXCEPT ![t] = 1]
    /\ UNCHANGED <<exclusion, handoffs, step, watcher, notices, events>>

\* shared() in a task that has a lease: granted whatever a writer intends.
ReenterShared(t) ==
    /\ readers[t] > 0 /\ readers[t] < MaxDepth
    /\ ~poisoned
    /\ readers' = [readers EXCEPT ![t] = @ + 1]
    /\ UNCHANGED <<exclusion, handoffs, step, watcher, notices, events>>

\* Leaving shared(): the last lease of a task wakes a waiting writer.
ReleaseShared(t) ==
    /\ readers[t] > 0
    /\ readers' = [readers EXCEPT ![t] = @ - 1]
    /\ step' = IF readers[t] = 1 THEN Woken ELSE step
    /\ UNCHANGED <<exclusion, handoffs, watcher, notices, events>>

\* handoff_shared(): a scheduler cycle spawns a watcher that is a reader from
\* now on, whether or not it has run.  A writer may ask for one too, and none does:
\* the deliveries that hand their lease off are all started by scheduler cycles.
HandOffShared(t, w) ==
    /\ readers[t] > 0
    /\ watcher[w] = "unborn"
    /\ watcher' = [watcher EXCEPT ![w] = "spawned"]
    /\ handoffs' = handoffs + 1
    /\ UNCHANGED <<exclusion, readers, step, notices, events>>

\* SharedLeaseHandoff.__aenter__.
WatcherStarts(w) ==
    /\ watcher[w] = "spawned"
    /\ watcher' = [watcher EXCEPT ![w] = "running"]
    /\ UNCHANGED <<exclusion, readers, handoffs, notices, step, events>>

\* SharedLeaseHandoff.__aexit__: the delivery is done.
WatcherEnds(w) ==
    /\ watcher[w] = "running"
    /\ watcher' = [watcher EXCEPT ![w] = "gone"]
    /\ handoffs' = handoffs - 1
    /\ step' = Woken
    /\ UNCHANGED <<exclusion, readers, notices, events>>

\* Mutant: the release of a cancelled handoff is not announced.
HandoffCancelled_Silent(w) ==
    /\ watcher[w] = "spawned"
    /\ watcher' = [watcher EXCEPT ![w] = "gone"]
    /\ handoffs' = handoffs - 1
    /\ UNCHANGED <<exclusion, readers, step, notices, events>>

\* SharedLeaseHandoff.cancel, when the supervisor refuses the spawn: the
\* waiting writer is told by a task of its own.  (Its caller cancels at once;
\* the class allows it until the watcher runs, which is what is modelled.)
HandoffCancelled(w) ==
    /\ watcher[w] = "spawned"
    /\ watcher' = [watcher EXCEPT ![w] = "gone"]
    /\ handoffs' = handoffs - 1
    /\ notices' = notices + 1
    /\ UNCHANGED <<exclusion, readers, step, events>>

NotifyWaiters ==
    /\ notices > 0
    /\ notices' = notices - 1
    /\ step' = Woken
    /\ UNCHANGED <<exclusion, readers, handoffs, watcher, events>>

-----------------------------------------------------------------------------
(***************************************************************************)
(* Gateway events (_maintenance_event_only): run under a shared lease, or   *)
(* deferred behind the writer, or refused on a poisoned tree.               *)
(***************************************************************************)

EventRuns(e) ==
    /\ event[e] = "unseen" /\ ~active
    /\ event' = [event EXCEPT ![e] = "running"]
    /\ readers' = [readers EXCEPT ![e] = 1]
    /\ runs' = [runs EXCEPT ![e] = @ + 1]
    /\ UNCHANGED <<exclusion, handoffs, watcher, notices, step, deferred>>

\* The callback of an event that has a lease of its own ends.
EventReturns(e) ==
    /\ event[e] = "running" /\ readers[e] = 1
    /\ event' = [event EXCEPT ![e] = "settled"]
    /\ readers' = [readers EXCEPT ![e] = 0]
    /\ step' = Woken
    /\ UNCHANGED <<exclusion, handoffs, watcher, notices, deferred, runs>>

\* defer(): between the refusal of the lease and here nothing else runs.
EventDeferred(e) ==
    /\ event[e] = "unseen" /\ active /\ ~poisoned
    /\ event' = [event EXCEPT ![e] = "queued"]
    /\ deferred' = Append(deferred, e)
    /\ UNCHANGED <<leases, exclusion, step, runs>>

EventRefused(e) ==
    /\ event[e] = "unseen" /\ poisoned
    /\ event' = [event EXCEPT ![e] = "refused"]
    /\ UNCHANGED <<leases, exclusion, deferred, step, runs>>

-----------------------------------------------------------------------------
(***************************************************************************)
(* The exclusive lease.                                                     *)
(***************************************************************************)

\* exclusive(): refused to a reader, and while another writer is about.
DeclareIntent(t) ==
    /\ step[t] = "outside"
    /\ readers[t] = 0
    /\ ~active
    /\ pendingWriter' = t
    /\ step' = [step EXCEPT ![t] = "waiting"]
    /\ UNCHANGED <<leases, writer, writerDepth, poisoned, events>>

\* Mutant: the watchers that have a lease handed to them are not waited for.
AcquireExclusive_IgnoresHandoffs(t) ==
    /\ step[t] = "waiting"
    /\ \A r \in Tasks \cup Events : readers[r] = 0
    /\ writer' = t
    /\ writerDepth' = 1
    /\ pendingWriter' = NoTask
    /\ step' = [step EXCEPT ![t] = "inside"]
    /\ UNCHANGED <<leases, poisoned, events>>

\* The runtime is quiet: the writer is in.
AcquireExclusive(t) ==
    /\ step[t] = "waiting"
    /\ Drained
    /\ writer' = t
    /\ writerDepth' = 1
    /\ pendingWriter' = NoTask
    /\ step' = [step EXCEPT ![t] = "inside"]
    /\ UNCHANGED <<leases, poisoned, events>>

\* It is not: wait on the condition,
WaitForReaders(t) ==
    /\ step[t] = "waiting"
    /\ ~Drained
    /\ step' = [step EXCEPT ![t] = "asleep"]
    /\ UNCHANGED <<leases, exclusion, events>>

\* and quiesce again when the poll interval of a forced update ends.
PollAgain(t) ==
    /\ step[t] = "asleep"
    /\ step' = [step EXCEPT ![t] = "waiting"]
    /\ UNCHANGED <<leases, exclusion, events>>

\* Quiescing failed, the deadline passed, or the update was cancelled: the
\* task becomes the writer all the same, beside the readers that are left, so
\* as to run the events that queued behind its intent.
BackOut(t) ==
    /\ step[t] \in {"waiting", "asleep"}
    /\ writer' = t
    /\ writerDepth' = 1
    /\ pendingWriter' = NoTask
    /\ step' = [step EXCEPT ![t] = "backing out"]
    /\ UNCHANGED <<leases, poisoned, events>>

\* exclusive() inside exclusive(), and out of it again.
ReenterExclusive(t) ==
    /\ step[t] = "inside"
    /\ writerDepth < MaxDepth
    /\ writerDepth' = writerDepth + 1
    /\ UNCHANGED <<leases, writer, pendingWriter, poisoned, step, events>>

LeaveReentrant(t) ==
    /\ step[t] = "inside"
    /\ writerDepth > 1
    /\ writerDepth' = writerDepth - 1
    /\ UNCHANGED <<leases, writer, pendingWriter, poisoned, step, events>>

\* poison(): the update could not be rolled back.
Poison(t) ==
    /\ step[t] = "inside" /\ ~poisoned
    /\ poisoned' = TRUE
    /\ UNCHANGED <<leases, writer, pendingWriter, writerDepth, step, events>>

\* The update committed, or was rolled back, or neither.
EndUpdate(t) ==
    /\ step[t] = "inside" /\ writerDepth = 1
    /\ step' = [step EXCEPT ![t] = "closing"]
    /\ UNCHANGED <<leases, exclusion, events>>

Leaving(t) == step[t] \in {"closing", "backing out"}
Draining == \E e \in Events : event[e] = "running" /\ readers[e] = 0

\* _drain_deferred: the events run one by one in the writer's own task, whose
\* shared() is a pass-through,
DrainNext(t) ==
    /\ Leaving(t) /\ ~poisoned /\ ~Draining
    /\ deferred # <<>>
    /\ deferred' = Tail(deferred)
    /\ event' = [event EXCEPT ![Head(deferred)] = "running"]
    /\ runs' = [runs EXCEPT ![Head(deferred)] = @ + 1]
    /\ UNCHANGED <<leases, exclusion, step>>

\* and an exception of one of them, or the cancellation of the update while it
\* runs, is only reported to the event.
DrainedOne(t, e) ==
    /\ Leaving(t)
    /\ event[e] = "running" /\ readers[e] = 0
    /\ event' = [event EXCEPT ![e] = "settled"]
    /\ UNCHANGED <<leases, exclusion, step, deferred, runs>>

\* Mutant: the queue of a poisoned tree is waited for.
ReleaseExclusive_WaitsForQueue(t) ==
    /\ Leaving(t) /\ ~Draining
    /\ deferred = <<>>
    /\ writerDepth' = writerDepth - 1
    /\ writer' = IF writerDepth = 1 THEN NoTask ELSE writer
    /\ step' = [Woken EXCEPT ![t] = "outside"]
    /\ UNCHANGED <<leases, pendingWriter, poisoned, events>>
ReleaseExclusive_OnePass(t) ==
    /\ Leaving(t) /\ ~Draining
    /\ writerDepth' = writerDepth - 1
    /\ writer' = IF writerDepth = 1 THEN NoTask ELSE writer
    /\ step' = [Woken EXCEPT ![t] = "outside"]
    /\ UNCHANGED <<leases, pendingWriter, poisoned, events>>

\* The queue is empty, or is refused as a whole because recovery failed;
\* finalize and the release follow without an await.
ReleaseExclusive(t) ==
    /\ Leaving(t) /\ ~Draining
    /\ poisoned \/ deferred = <<>>
    /\ event' = [e \in Events |-> IF event[e] = "queued" THEN "refused" ELSE event[e]]
    /\ deferred' = <<>>
    /\ writerDepth' = writerDepth - 1
    /\ writer' = IF writerDepth = 1 THEN NoTask ELSE writer
    /\ step' = [Woken EXCEPT ![t] = "outside"]
    /\ UNCHANGED <<leases, pendingWriter, poisoned, runs>>

-----------------------------------------------------------------------------
Leave(t) == DrainNext(t) \/ (\E e \in Events : DrainedOne(t, e)) \/ ReleaseExclusive(t)

Reader ==
    \/ \E t \in Tasks : AcquireShared(t) \/ ReenterShared(t) \/ ReleaseShared(t)
    \/ \E w \in Watchers : \/ \E t \in Tasks : HandOffShared(t, w)
                           \/ WatcherStarts(w)
                           \/ WatcherEnds(w)
                           \/ HandoffCancelled(w)
    \/ NotifyWaiters

Gateway ==
    \E e \in Events : EventRuns(e) \/ EventReturns(e) \/ EventDeferred(e) \/ EventRefused(e)

Writer ==
    \E t \in Tasks :
       \/ DeclareIntent(t) \/ AcquireExclusive(t) \/ WaitForReaders(t) \/ PollAgain(t)
       \/ BackOut(t) \/ ReenterExclusive(t) \/ LeaveReentrant(t) \/ Poison(t)
       \/ EndUpdate(t) \/ Leave(t)

Next == Reader \/ Gateway \/ Writer

Spec == Init /\ [][Next]_vars

\* The deadline of exclusive() ends the wait; an update's git and pip children
\* have timeouts, so that its body ends; a ready task runs.  Nothing is
\* assumed of readers, which may keep their lease for ever.
Fairness ==
    \A t \in Tasks : /\ WF_vars(BackOut(t) \/ AcquireExclusive(t))
                     /\ WF_vars(LeaveReentrant(t))
                     /\ SF_vars(EndUpdate(t))
                     /\ WF_vars(Leave(t))

FairSpec == Spec /\ Fairness

-----------------------------------------------------------------------------
(***************************************************************************)
(* Properties.                                                              *)
(***************************************************************************)

\* Every variable stays in its domain; in particular the count of handed-off
\* leases never goes below zero.
TypeOK ==
    /\ readers \in [Tasks \cup Events -> Nat]
    /\ writer \in Tasks \cup {NoTask}
    /\ pendingWriter \in Tasks \cup {NoTask}
    /\ writerDepth \in Nat
    /\ handoffs \in Nat
    /\ poisoned \in BOOLEAN
    /\ deferred \in Seq(Events)
    /\ step \in [Tasks -> {"outside", "waiting", "asleep", "inside", "closing", "backing out"}]
    /\ watcher \in [Watchers -> {"unborn", "spawned", "running", "gone"}]
    /\ event \in [Events -> {"unseen", "queued", "running", "settled", "refused"}]
    /\ notices \in Nat
    /\ runs \in [Events -> Nat]

\* A writer asleep on the condition is woken when the last lease goes: as long
\* as it sleeps a lease is out, or a notification is on its way.
NoLostWakeup ==
    \A t \in Tasks : step[t] = "asleep" => ~Drained \/ notices > 0

\* "never drop": events wait only while somebody is there to run them.
NothingStranded == deferred # <<>> => \E t \in Tasks : step[t] # "outside"

\* _drain_deferred: "Execute every event queued before exclusive release,
\* exactly once": however an event got to run, it ran once.
EventsRunOnce ==
    \A e \in Events : runs[e] = IF event[e] \in {"running", "settled"} THEN 1 ELSE 0

\* "Once a writer declares intent, new readers are rejected": the writer waits
\* only for work that was there before it, and for what that work spawns.
IntentBlocksNewWork ==
    [][pendingWriter # NoTask /\ pendingWriter' # NoTask =>
          \A t \in Tasks \cup Events : readers[t] = 0 => readers'[t] = 0]_vars

\* An update that was asked for ends and the gate is free again, whatever the
\* readers do, and every event that was deferred is run or refused in the end.
GateReopens ==
    /\ (\E t \in Tasks : step[t] # "outside") ~> (pendingWriter = NoTask /\ writer = NoTask)
    /\ \A e \in Events : event[e] = "queued" ~> event[e] \in {"settled", "refused"}

-----------------------------------------------------------------------------
(***************************************************************************)
(* The gate implements the exclusion of work and updates (UpdateExclusion). *)
(* A deferred event works in the writer's task, after the update.           *)
(***************************************************************************)

Working ==
    {t \in Tasks : readers[t] > 0}
        \cup {w \in Watchers : watcher[w] \in {"spawned", "running"}}
        \cup {e \in Events : event[e] = "running"}
Updating == {t \in Tasks : step[t] = "inside"}

Exclusion == INSTANCE UpdateExclusion WITH
    Workers <- Tasks \cup Watchers \cup Events,
    Updaters <- Tasks,
    working <- Working,
    updating <- Updating,
    stopped <- poisoned

\* Messages, scheduler cycles, deliveries and events never overlap an update,
\* and a poisoned gate lets neither work nor updates start.
KeepsApart == Exclusion!Spec
=============================================================================
