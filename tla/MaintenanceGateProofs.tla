------------------------ MODULE MaintenanceGateProofs ------------------------
(***************************************************************************)
(* Theorems about MaintenanceGate, for any number of tasks, watchers and    *)
(* events and any nesting depth.                                            *)
(***************************************************************************)
EXTENDS MaintenanceGate, FiniteSetTheorems, SequenceTheorems, TLAPS

-----------------------------------------------------------------------------
(***************************************************************************)
(* The inductive invariant.                                                 *)
(***************************************************************************)

\* The fields of the gate say where the one writer is.
OwnersOK ==
    /\ \A t \in Tasks : (pendingWriter = t) <=> (step[t] \in {"waiting", "asleep"})
    /\ \A t \in Tasks : (writer = t) <=> (step[t] \in {"inside", "closing", "backing out"})
    /\ writer # NoTask => pendingWriter = NoTask

\* It leaves with the depth it came with.
DepthOK ==
    /\ \A t \in Tasks : step[t] \in {"closing", "backing out"} => writerDepth = 1
    /\ writer # NoTask => writerDepth > 0
    /\ writer = NoTask => writerDepth = 0

\* The watchers that have a lease handed to them, and the count of leases.
Live == {w \in Watchers : watcher[w] \in {"spawned", "running"}}
HandoffsOK == handoffs = Cardinality(Live)

\* A task with a lease is not in exclusive(); an event has at most one lease,
\* and it has it or runs in the task of a writer that leaves.
LeasesOK ==
    /\ \A t \in Tasks : readers[t] > 0 => step[t] = "outside"
    /\ \A e \in Events : readers[e] > 0 => readers[e] = 1 /\ event[e] = "running"
    /\ \A e \in Events : event[e] = "running" /\ readers[e] = 0
                            => writer # NoTask /\ \A t \in Tasks : step[t] # "inside"

\* Inside, and on a poisoned tree, nobody else works.
Quiet == Drained /\ \A e \in Events : event[e] # "running"
QuietOK ==
    /\ poisoned \/ (\E t \in Tasks : step[t] = "inside") => Quiet
    /\ poisoned => pendingWriter = NoTask

\* The queue holds the queued events, each once.
QueueOK ==
    /\ \A i \in 1..Len(deferred) : event[deferred[i]] = "queued"
    /\ \A i, j \in 1..Len(deferred) : deferred[i] = deferred[j] => i = j

Inv ==
    /\ TypeOK /\ OwnersOK /\ DepthOK /\ HandoffsOK /\ LeasesOK /\ QuietOK /\ QueueOK
    /\ EventsRunOnce /\ NothingStranded /\ NoLostWakeup

-----------------------------------------------------------------------------
LEMMA NatFacts ==
    /\ \A n \in Nat : n + 1 \in Nat /\ n + 1 > 0 /\ n + 1 # 0
    /\ \A n \in Nat : n > 0 => n - 1 \in Nat
    /\ \A n \in Nat : n > 1 => n - 1 > 0 /\ n - 1 \in Nat
    /\ 0 \in Nat /\ 1 \in Nat /\ 1 > 0 /\ ~(0 > 0) /\ 1 # 0 /\ 1 - 1 = 0
    OBVIOUS

LEMMA HeadIsFirst ==
    ASSUME NEW S, NEW s \in Seq(S), s # <<>>
    PROVE  Head(s) = s[1] /\ 1 \in 1..Len(s)
<1>1. Head(s) = s[1]
    BY HeadTailProperties
<1>2. 1 \in 1..Len(s)
    BY EmptySeq
<1> QED
    BY <1>1, <1>2

LEMMA InitInv == Init => Inv
<1> SUFFICES ASSUME Init PROVE Inv
    OBVIOUS
<1> USE TasksAssumption DEF Init
<1>1. TypeOK
    <2>1. <<>> \in Seq(Events)
        BY EmptySeq
    <2>2. deferred \in Seq(Events)
        BY <2>1
    <2> QED
        BY <2>2 DEF TypeOK
<1>2. OwnersOK /\ DepthOK
    BY DEF OwnersOK, DepthOK
<1>3. HandoffsOK
    <2>1. Live = {}
        BY DEF Live
    <2> QED
        BY <2>1, FS_EmptySet DEF HandoffsOK
<1>4. LeasesOK /\ QuietOK /\ QueueOK
    BY DEF LeasesOK, QuietOK, QueueOK
<1>5. EventsRunOnce /\ NothingStranded /\ NoLostWakeup
    BY DEF EventsRunOnce, NothingStranded, NoLostWakeup
<1> QED
    BY <1>1, <1>2, <1>3, <1>4, <1>5 DEF Inv

-----------------------------------------------------------------------------
(***************************************************************************)
(* Preservation, one part of the invariant at a time, one step per action.  *)
(***************************************************************************)

LEMMA TypeStep ==
    ASSUME TypeOK, \A w \in Live : handoffs > 0, \A t \in Tasks : Leaving(t) => writerDepth = 1, Next
    PROVE  TypeOK'
<1> USE TasksAssumption, KindsAssumption
<1>1. ASSUME NEW t \in Tasks, AcquireShared(t) PROVE TypeOK'
    BY <1>1 DEF AcquireShared, events, exclusion, active, TypeOK
<1>2. ASSUME NEW t \in Tasks, ReenterShared(t) PROVE TypeOK'
    <2>1. readers[t] + 1 \in Nat
        BY NatFacts DEF TypeOK
    <2> QED
        BY <1>2, <2>1 DEF ReenterShared, events, exclusion, TypeOK
<1>3. ASSUME NEW t \in Tasks, ReleaseShared(t) PROVE TypeOK'
    <2>1. readers[t] - 1 \in Nat
        BY <1>3, NatFacts DEF TypeOK, ReleaseShared
    <2>2. readers' \in [Tasks \cup Events -> Nat]
        BY <1>3, <2>1 DEF ReleaseShared, TypeOK
    <2> QED
        BY <1>3, <2>2 DEF ReleaseShared, events, exclusion, Woken, TypeOK
<1>4. ASSUME NEW t \in Tasks, NEW w \in Watchers, HandOffShared(t, w) PROVE TypeOK'
    <2>1. handoffs + 1 \in Nat
        BY NatFacts DEF TypeOK
    <2> QED
        BY <1>4, <2>1 DEF HandOffShared, events, exclusion, TypeOK
<1>5. ASSUME NEW w \in Watchers, WatcherStarts(w) PROVE TypeOK'
    BY <1>5 DEF WatcherStarts, events, exclusion, TypeOK
<1>6. ASSUME NEW w \in Watchers, WatcherEnds(w) PROVE TypeOK'
    <2>1. handoffs - 1 \in Nat
        BY <1>6, NatFacts DEF WatcherEnds, Live, TypeOK
    <2> QED
        BY <1>6, <2>1 DEF WatcherEnds, events, exclusion, Woken, TypeOK
<1>7. ASSUME NEW w \in Watchers, HandoffCancelled(w) PROVE TypeOK'
    <2>1. handoffs - 1 \in Nat /\ notices + 1 \in Nat
        BY <1>7, NatFacts DEF HandoffCancelled, Live, TypeOK
    <2> QED
        BY <1>7, <2>1 DEF HandoffCancelled, events, exclusion, TypeOK
<1>8. ASSUME NotifyWaiters PROVE TypeOK'
    <2>1. notices - 1 \in Nat
        BY <1>8, NatFacts DEF NotifyWaiters, TypeOK
    <2> QED
        BY <1>8, <2>1 DEF NotifyWaiters, events, exclusion, Woken, TypeOK
<1>9. ASSUME NEW e \in Events, EventRuns(e) PROVE TypeOK'
    <2>1. runs[e] + 1 \in Nat
        BY NatFacts DEF TypeOK
    <2> QED
        BY <1>9, <2>1 DEF EventRuns, exclusion, TypeOK
<1>10. ASSUME NEW e \in Events, EventReturns(e) PROVE TypeOK'
    BY <1>10 DEF EventReturns, exclusion, Woken, TypeOK
<1>11. ASSUME NEW e \in Events, EventDeferred(e) PROVE TypeOK'
    <2>1. Append(deferred, e) \in Seq(Events)
        BY AppendProperties DEF TypeOK
    <2> QED
        BY <1>11, <2>1 DEF EventDeferred, leases, exclusion, TypeOK
<1>12. ASSUME NEW e \in Events, EventRefused(e) PROVE TypeOK'
    BY <1>12 DEF EventRefused, leases, exclusion, TypeOK
<1>13. ASSUME NEW t \in Tasks, DeclareIntent(t) PROVE TypeOK'
    BY <1>13 DEF DeclareIntent, leases, events, active, TypeOK
<1>14. ASSUME NEW t \in Tasks, AcquireExclusive(t) PROVE TypeOK'
    BY <1>14 DEF AcquireExclusive, leases, events, Drained, TypeOK
<1>15. ASSUME NEW t \in Tasks, WaitForReaders(t) PROVE TypeOK'
    BY <1>15 DEF WaitForReaders, leases, events, exclusion, Drained, TypeOK
<1>16. ASSUME NEW t \in Tasks, PollAgain(t) PROVE TypeOK'
    BY <1>16 DEF PollAgain, leases, events, exclusion, TypeOK
<1>17. ASSUME NEW t \in Tasks, BackOut(t) PROVE TypeOK'
    BY <1>17 DEF BackOut, leases, events, TypeOK
<1>18. ASSUME NEW t \in Tasks, ReenterExclusive(t) PROVE TypeOK'
    <2>1. writerDepth + 1 \in Nat
        BY NatFacts DEF TypeOK
    <2> QED
        BY <1>18, <2>1 DEF ReenterExclusive, leases, events, TypeOK
<1>19. ASSUME NEW t \in Tasks, LeaveReentrant(t) PROVE TypeOK'
    <2>1. writerDepth - 1 \in Nat
        BY <1>19, NatFacts DEF LeaveReentrant, TypeOK
    <2> QED
        BY <1>19, <2>1 DEF LeaveReentrant, leases, events, TypeOK
<1>20. ASSUME NEW t \in Tasks, Poison(t) PROVE TypeOK'
    BY <1>20 DEF Poison, leases, events, TypeOK
<1>21. ASSUME NEW t \in Tasks, EndUpdate(t) PROVE TypeOK'
    BY <1>21 DEF EndUpdate, leases, events, exclusion, TypeOK
<1>22. ASSUME NEW t \in Tasks, DrainNext(t) PROVE TypeOK'
    <2>1. Tail(deferred) \in Seq(Events) /\ Head(deferred) \in Events
        BY <1>22, HeadTailProperties DEF DrainNext, TypeOK
    <2>2. runs[Head(deferred)] + 1 \in Nat
        BY <2>1, NatFacts DEF TypeOK
    <2> QED
        BY <1>22, <2>1, <2>2 DEF DrainNext, leases, exclusion, TypeOK
<1>23. ASSUME NEW t \in Tasks, NEW e \in Events, DrainedOne(t, e) PROVE TypeOK'
    BY <1>23 DEF DrainedOne, leases, exclusion, Leaving, TypeOK
<1>24. ASSUME NEW t \in Tasks, ReleaseExclusive(t) PROVE TypeOK'
    <2>0. writerDepth = 1
        BY <1>24 DEF ReleaseExclusive
    <2>1. writerDepth \in Nat /\ writerDepth > 0
        BY <2>0, NatFacts
    <2>3. writerDepth - 1 \in Nat
        BY <2>1, NatFacts
    <2>2. <<>> \in Seq(Events)
        BY EmptySeq
    <2> QED
        BY <1>24, <2>2, <2>3 DEF ReleaseExclusive, leases, Woken, TypeOK
<1> QED
    BY <1>1, <1>2, <1>3, <1>4, <1>5, <1>6, <1>7, <1>8, <1>9, <1>10, <1>11,
           <1>12, <1>13, <1>14, <1>15, <1>16, <1>17, <1>18, <1>19, <1>20, <1>21,
           <1>22, <1>23, <1>24
       DEF Next, Reader, Gateway, Writer, Leave

\* A woken writer still waits; only one task gets in, and the same gets out.
LEMMA OwnersStep ==
    ASSUME TypeOK, OwnersOK, DepthOK, Next
    PROVE  OwnersOK'
<1> USE TasksAssumption, KindsAssumption
<1>1. ASSUME NEW t \in Tasks, AcquireShared(t) PROVE OwnersOK'
    BY <1>1 DEF AcquireShared, events, exclusion, active, OwnersOK, TypeOK
<1>2. ASSUME NEW t \in Tasks, ReenterShared(t) PROVE OwnersOK'
    BY <1>2 DEF ReenterShared, events, exclusion, OwnersOK, TypeOK
<1>3. ASSUME NEW t \in Tasks, ReleaseShared(t) PROVE OwnersOK'
    BY <1>3 DEF ReleaseShared, events, exclusion, Woken, OwnersOK, TypeOK
<1>4. ASSUME NEW t \in Tasks, NEW w \in Watchers, HandOffShared(t, w) PROVE OwnersOK'
    BY <1>4 DEF HandOffShared, events, exclusion, OwnersOK, TypeOK
<1>5. ASSUME NEW w \in Watchers, WatcherStarts(w) PROVE OwnersOK'
    BY <1>5 DEF WatcherStarts, events, exclusion, OwnersOK, TypeOK
<1>6. ASSUME NEW w \in Watchers, WatcherEnds(w) PROVE OwnersOK'
    BY <1>6 DEF WatcherEnds, events, exclusion, Woken, OwnersOK, TypeOK
<1>7. ASSUME NEW w \in Watchers, HandoffCancelled(w) PROVE OwnersOK'
    BY <1>7 DEF HandoffCancelled, events, exclusion, OwnersOK, TypeOK
<1>8. ASSUME NotifyWaiters PROVE OwnersOK'
    BY <1>8 DEF NotifyWaiters, events, exclusion, Woken, OwnersOK, TypeOK
<1>9. ASSUME NEW e \in Events, EventRuns(e) PROVE OwnersOK'
    BY <1>9 DEF EventRuns, exclusion, active, OwnersOK, TypeOK
<1>10. ASSUME NEW e \in Events, EventReturns(e) PROVE OwnersOK'
    BY <1>10 DEF EventReturns, exclusion, Woken, OwnersOK, TypeOK
<1>11. ASSUME NEW e \in Events, EventDeferred(e) PROVE OwnersOK'
    BY <1>11 DEF EventDeferred, leases, exclusion, active, OwnersOK, TypeOK
<1>12. ASSUME NEW e \in Events, EventRefused(e) PROVE OwnersOK'
    BY <1>12 DEF EventRefused, leases, exclusion, OwnersOK, TypeOK
<1>13. ASSUME NEW t \in Tasks, DeclareIntent(t) PROVE OwnersOK'
    BY <1>13 DEF DeclareIntent, leases, events, active, OwnersOK, TypeOK
<1>14. ASSUME NEW t \in Tasks, AcquireExclusive(t) PROVE OwnersOK'
    BY <1>14 DEF AcquireExclusive, leases, events, Drained, OwnersOK, TypeOK
<1>15. ASSUME NEW t \in Tasks, WaitForReaders(t) PROVE OwnersOK'
    BY <1>15 DEF WaitForReaders, leases, events, exclusion, Drained, OwnersOK,
           TypeOK
<1>16. ASSUME NEW t \in Tasks, PollAgain(t) PROVE OwnersOK'
    BY <1>16 DEF PollAgain, leases, events, exclusion, OwnersOK, TypeOK
<1>17. ASSUME NEW t \in Tasks, BackOut(t) PROVE OwnersOK'
    BY <1>17 DEF BackOut, leases, events, OwnersOK, TypeOK
<1>18. ASSUME NEW t \in Tasks, ReenterExclusive(t) PROVE OwnersOK'
    BY <1>18 DEF ReenterExclusive, leases, events, OwnersOK, TypeOK
<1>19. ASSUME NEW t \in Tasks, LeaveReentrant(t) PROVE OwnersOK'
    BY <1>19 DEF LeaveReentrant, leases, events, OwnersOK, TypeOK
<1>20. ASSUME NEW t \in Tasks, Poison(t) PROVE OwnersOK'
    BY <1>20 DEF Poison, leases, events, OwnersOK, TypeOK
<1>21. ASSUME NEW t \in Tasks, EndUpdate(t) PROVE OwnersOK'
    BY <1>21 DEF EndUpdate, leases, events, exclusion, OwnersOK, TypeOK
<1>22. ASSUME NEW t \in Tasks, DrainNext(t) PROVE OwnersOK'
    BY <1>22 DEF DrainNext, leases, exclusion, Leaving, Draining, OwnersOK,
           TypeOK
<1>23. ASSUME NEW t \in Tasks, NEW e \in Events, DrainedOne(t, e) PROVE OwnersOK'
    BY <1>23 DEF DrainedOne, leases, exclusion, Leaving, OwnersOK, TypeOK
<1>24. ASSUME NEW t \in Tasks, ReleaseExclusive(t) PROVE OwnersOK'
    <2>1. writerDepth = 1 /\ writer = t
        BY <1>24 DEF ReleaseExclusive, Leaving, DepthOK, OwnersOK
    <2>2. writer' = NoTask /\ pendingWriter' = pendingWriter
        BY <1>24, <2>1 DEF ReleaseExclusive
    <2> QED
        BY <1>24, <2>1, <2>2 DEF ReleaseExclusive, Woken, OwnersOK, TypeOK
<1> QED
    BY <1>1, <1>2, <1>3, <1>4, <1>5, <1>6, <1>7, <1>8, <1>9, <1>10, <1>11,
           <1>12, <1>13, <1>14, <1>15, <1>16, <1>17, <1>18, <1>19, <1>20, <1>21,
           <1>22, <1>23, <1>24
       DEF Next, Reader, Gateway, Writer, Leave

LEMMA DepthStep ==
    ASSUME TypeOK, OwnersOK, DepthOK, Next
    PROVE  DepthOK'
<1> USE TasksAssumption, KindsAssumption
<1>1. ASSUME NEW t \in Tasks, AcquireShared(t) PROVE DepthOK'
    BY <1>1 DEF AcquireShared, events, exclusion, active, DepthOK, OwnersOK,
           TypeOK
<1>2. ASSUME NEW t \in Tasks, ReenterShared(t) PROVE DepthOK'
    BY <1>2 DEF ReenterShared, events, exclusion, DepthOK, OwnersOK, TypeOK
<1>3. ASSUME NEW t \in Tasks, ReleaseShared(t) PROVE DepthOK'
    BY <1>3 DEF ReleaseShared, events, exclusion, Woken, DepthOK, OwnersOK,
           TypeOK
<1>4. ASSUME NEW t \in Tasks, NEW w \in Watchers, HandOffShared(t, w) PROVE DepthOK'
    BY <1>4 DEF HandOffShared, events, exclusion, DepthOK, OwnersOK, TypeOK
<1>5. ASSUME NEW w \in Watchers, WatcherStarts(w) PROVE DepthOK'
    BY <1>5 DEF WatcherStarts, events, exclusion, DepthOK, OwnersOK, TypeOK
<1>6. ASSUME NEW w \in Watchers, WatcherEnds(w) PROVE DepthOK'
    BY <1>6 DEF WatcherEnds, events, exclusion, Woken, DepthOK, OwnersOK, TypeOK
<1>7. ASSUME NEW w \in Watchers, HandoffCancelled(w) PROVE DepthOK'
    BY <1>7 DEF HandoffCancelled, events, exclusion, DepthOK, OwnersOK, TypeOK
<1>8. ASSUME NotifyWaiters PROVE DepthOK'
    BY <1>8 DEF NotifyWaiters, events, exclusion, Woken, DepthOK, OwnersOK,
           TypeOK
<1>9. ASSUME NEW e \in Events, EventRuns(e) PROVE DepthOK'
    BY <1>9 DEF EventRuns, exclusion, active, DepthOK, OwnersOK, TypeOK
<1>10. ASSUME NEW e \in Events, EventReturns(e) PROVE DepthOK'
    BY <1>10 DEF EventReturns, exclusion, Woken, DepthOK, OwnersOK, TypeOK
<1>11. ASSUME NEW e \in Events, EventDeferred(e) PROVE DepthOK'
    BY <1>11 DEF EventDeferred, leases, exclusion, active, DepthOK, OwnersOK,
           TypeOK
<1>12. ASSUME NEW e \in Events, EventRefused(e) PROVE DepthOK'
    BY <1>12 DEF EventRefused, leases, exclusion, DepthOK, OwnersOK, TypeOK
<1>13. ASSUME NEW t \in Tasks, DeclareIntent(t) PROVE DepthOK'
    BY <1>13 DEF DeclareIntent, leases, events, active, DepthOK, OwnersOK,
           TypeOK
<1>14. ASSUME NEW t \in Tasks, AcquireExclusive(t) PROVE DepthOK'
    BY <1>14, NatFacts DEF AcquireExclusive, DepthOK, OwnersOK, TypeOK
<1>15. ASSUME NEW t \in Tasks, WaitForReaders(t) PROVE DepthOK'
    BY <1>15 DEF WaitForReaders, leases, events, exclusion, Drained, DepthOK,
           OwnersOK, TypeOK
<1>16. ASSUME NEW t \in Tasks, PollAgain(t) PROVE DepthOK'
    BY <1>16 DEF PollAgain, leases, events, exclusion, DepthOK, OwnersOK, TypeOK
<1>17. ASSUME NEW t \in Tasks, BackOut(t) PROVE DepthOK'
    BY <1>17, NatFacts DEF BackOut, DepthOK, OwnersOK, TypeOK
<1>18. ASSUME NEW t \in Tasks, ReenterExclusive(t) PROVE DepthOK'
    <2>1. writerDepth' \in Nat /\ writerDepth' > 0
        BY <1>18, NatFacts DEF ReenterExclusive, TypeOK
    <2> QED
        BY <1>18, <2>1 DEF ReenterExclusive, OwnersOK, DepthOK
<1>19. ASSUME NEW t \in Tasks, LeaveReentrant(t) PROVE DepthOK'
    <2>1. writerDepth' > 0
        BY <1>19, NatFacts DEF LeaveReentrant, TypeOK
    <2> QED
        BY <1>19, <2>1 DEF LeaveReentrant, OwnersOK, DepthOK
<1>20. ASSUME NEW t \in Tasks, Poison(t) PROVE DepthOK'
    BY <1>20 DEF Poison, leases, events, DepthOK, OwnersOK, TypeOK
<1>21. ASSUME NEW t \in Tasks, EndUpdate(t) PROVE DepthOK'
    BY <1>21 DEF EndUpdate, leases, events, exclusion, DepthOK, OwnersOK, TypeOK
<1>22. ASSUME NEW t \in Tasks, DrainNext(t) PROVE DepthOK'
    BY <1>22 DEF DrainNext, leases, exclusion, Leaving, Draining, DepthOK,
           OwnersOK, TypeOK
<1>23. ASSUME NEW t \in Tasks, NEW e \in Events, DrainedOne(t, e) PROVE DepthOK'
    BY <1>23 DEF DrainedOne, leases, exclusion, Leaving, DepthOK, OwnersOK,
           TypeOK
<1>24. ASSUME NEW t \in Tasks, ReleaseExclusive(t) PROVE DepthOK'
    <2>1. writerDepth = 1
        BY <1>24 DEF ReleaseExclusive, Leaving, DepthOK
    <2>2. writerDepth' = 0 /\ writer' = NoTask
        BY <1>24, <2>1 DEF ReleaseExclusive
    <2>3. \A s \in Tasks : step'[s] \notin {"closing", "backing out"}
        BY <1>24 DEF ReleaseExclusive, Leaving, Woken, OwnersOK, TypeOK
    <2> QED
        BY <2>2, <2>3 DEF DepthOK
<1> QED
    BY <1>1, <1>2, <1>3, <1>4, <1>5, <1>6, <1>7, <1>8, <1>9, <1>10, <1>11,
           <1>12, <1>13, <1>14, <1>15, <1>16, <1>17, <1>18, <1>19, <1>20, <1>21,
           <1>22, <1>23, <1>24
       DEF Next, Reader, Gateway, Writer, Leave

\* Only a drained gate lets a writer inside, and nobody after it.
LEMMA LeasesStep ==
    ASSUME TypeOK, OwnersOK, LeasesOK, QuietOK, Next
    PROVE  LeasesOK'
<1> USE TasksAssumption, KindsAssumption
<1>1. ASSUME NEW t \in Tasks, AcquireShared(t) PROVE LeasesOK'
    <2>1. /\ \A s \in (Tasks \cup Events) \ {t} : readers'[s] = readers[s]
          /\ t \notin Events /\ step[t] = "outside"
        BY <1>1 DEF AcquireShared, TypeOK
    <2>2. step' = step /\ event' = event /\ writer' = writer
        BY <1>1 DEF AcquireShared, events, exclusion
    <2> QED
        BY <2>1, <2>2 DEF LeasesOK
<1>2. ASSUME NEW t \in Tasks, ReenterShared(t) PROVE LeasesOK'
    <2>1. readers[t] > 0 /\ t \notin Events
        BY <1>2 DEF ReenterShared, TypeOK
    <2>2. \A s \in (Tasks \cup Events) \ {t} : readers'[s] = readers[s]
        BY <1>2 DEF ReenterShared, TypeOK
    <2> QED
        BY <1>2, <2>1, <2>2 DEF ReenterShared, events, exclusion, LeasesOK, TypeOK
<1>3. ASSUME NEW t \in Tasks, ReleaseShared(t) PROVE LeasesOK'
    BY <1>3, ZenonT(40) DEF ReleaseShared, events, exclusion, Woken, TypeOK, OwnersOK,
           LeasesOK, QuietOK, Quiet
<1>4. ASSUME NEW t \in Tasks, NEW w \in Watchers, HandOffShared(t, w) PROVE LeasesOK'
    BY <1>4 DEF HandOffShared, events, exclusion, TypeOK, OwnersOK, LeasesOK,
           QuietOK, Quiet
<1>5. ASSUME NEW w \in Watchers, WatcherStarts(w) PROVE LeasesOK'
    BY <1>5 DEF WatcherStarts, events, exclusion, TypeOK, OwnersOK, LeasesOK,
           QuietOK, Quiet
<1>6. ASSUME NEW w \in Watchers, WatcherEnds(w) PROVE LeasesOK'
    BY <1>6 DEF WatcherEnds, events, exclusion, Woken, TypeOK, OwnersOK,
           LeasesOK, QuietOK, Quiet
<1>7. ASSUME NEW w \in Watchers, HandoffCancelled(w) PROVE LeasesOK'
    BY <1>7 DEF HandoffCancelled, events, exclusion, TypeOK, OwnersOK, LeasesOK,
           QuietOK, Quiet
<1>8. ASSUME NotifyWaiters PROVE LeasesOK'
    BY <1>8 DEF NotifyWaiters, events, exclusion, Woken, TypeOK, OwnersOK,
           LeasesOK, QuietOK, Quiet
<1>9. ASSUME NEW e \in Events, EventRuns(e) PROVE LeasesOK'
    <2>1. /\ \A s \in (Tasks \cup Events) \ {e} : readers'[s] = readers[s]
          /\ readers'[e] = 1
          /\ \A f \in Events \ {e} : event'[f] = event[f]
          /\ event'[e] = "running"
        BY <1>9 DEF EventRuns, TypeOK
    <2>2. step' = step /\ writer' = writer /\ e \notin Tasks
        BY <1>9 DEF EventRuns, exclusion
    <2>3. \A s \in Tasks : readers'[s] > 0 => step'[s] = "outside"
        BY <2>1, <2>2 DEF LeasesOK
    <2>4. \A f \in Events : readers'[f] > 0 => readers'[f] = 1 /\ event'[f] = "running"
        BY <2>1 DEF LeasesOK
    <2>5. \A f \in Events : event'[f] = "running" /\ readers'[f] = 0
                            => writer' # NoTask /\ \A s \in Tasks : step'[s] # "inside"
        <3>1. readers'[e] # 0
            BY <2>1
        <3> QED
            BY <2>1, <2>2, <3>1 DEF LeasesOK
    <2> QED
        BY <2>3, <2>4, <2>5 DEF LeasesOK
<1>10. ASSUME NEW e \in Events, EventReturns(e) PROVE LeasesOK'
    <2>1. /\ \A s \in (Tasks \cup Events) \ {e} : readers'[s] = readers[s]
          /\ readers'[e] = 0
          /\ \A f \in Events \ {e} : event'[f] = event[f]
          /\ event'[e] = "settled"
          /\ \A s \in Tasks : step'[s] = "outside" <=> step[s] = "outside"
          /\ \A s \in Tasks : step'[s] = "inside" <=> step[s] = "inside"
        BY <1>10 DEF EventReturns, TypeOK, Woken
    <2>2. writer' = writer /\ e \notin Tasks
        BY <1>10 DEF EventReturns, exclusion
    <2>3. \A s \in Tasks : readers'[s] > 0 => step'[s] = "outside"
        BY <2>1, <2>2 DEF LeasesOK
    <2>4. \A f \in Events : readers'[f] > 0 => readers'[f] = 1 /\ event'[f] = "running"
        <3>1. ~(readers'[e] > 0)
            BY <2>1, NatFacts
        <3> QED
            BY <2>1, <3>1 DEF LeasesOK
    <2>5. \A f \in Events : event'[f] = "running" /\ readers'[f] = 0
                            => writer' # NoTask /\ \A s \in Tasks : step'[s] # "inside"
        BY <2>1, <2>2 DEF LeasesOK
    <2> QED
        BY <2>3, <2>4, <2>5 DEF LeasesOK
<1>11. ASSUME NEW e \in Events, EventDeferred(e) PROVE LeasesOK'
    BY <1>11 DEF EventDeferred, leases, exclusion, active, TypeOK, OwnersOK,
           LeasesOK, QuietOK, Quiet
<1>12. ASSUME NEW e \in Events, EventRefused(e) PROVE LeasesOK'
    BY <1>12 DEF EventRefused, leases, exclusion, TypeOK, OwnersOK, LeasesOK,
           QuietOK, Quiet
<1>13. ASSUME NEW t \in Tasks, DeclareIntent(t) PROVE LeasesOK'
    <2>1. \A s \in Tasks \ {t} : step'[s] = step[s]
        BY <1>13 DEF DeclareIntent, TypeOK
    <2>2. step'[t] = "waiting" /\ ~(readers[t] > 0)
        BY <1>13, NatFacts DEF DeclareIntent, TypeOK
    <2> QED
        BY <1>13, <2>1, <2>2 DEF DeclareIntent, leases, events, active, LeasesOK
<1>14. ASSUME NEW t \in Tasks, AcquireExclusive(t) PROVE LeasesOK'
    <2>1. /\ \A s \in Tasks \cup Events : readers[s] = 0
          /\ readers' = readers /\ event' = event
        BY <1>14 DEF AcquireExclusive, leases, events, Drained
    <2>2. \A s \in Tasks \cup Events : ~(readers'[s] > 0)
        BY <2>1, NatFacts
    <2>3. ASSUME NEW e \in Events, event[e] = "running" PROVE FALSE
        <3>1. writer # NoTask
            BY <2>1, <2>3 DEF LeasesOK
        <3>2. writer = NoTask
            BY <1>14 DEF AcquireExclusive, OwnersOK, TypeOK
        <3> QED
            BY <3>1, <3>2
    <2> QED
        BY <2>1, <2>2, <2>3 DEF LeasesOK
<1>15. ASSUME NEW t \in Tasks, WaitForReaders(t) PROVE LeasesOK'
    BY <1>15 DEF WaitForReaders, leases, events, exclusion, Drained, TypeOK,
           OwnersOK, LeasesOK, QuietOK, Quiet
<1>16. ASSUME NEW t \in Tasks, PollAgain(t) PROVE LeasesOK'
    BY <1>16 DEF PollAgain, leases, events, exclusion, TypeOK, OwnersOK,
           LeasesOK, QuietOK, Quiet
<1>17. ASSUME NEW t \in Tasks, BackOut(t) PROVE LeasesOK'
    BY <1>17 DEF BackOut, leases, events, TypeOK, OwnersOK, LeasesOK, QuietOK,
           Quiet
<1>18. ASSUME NEW t \in Tasks, ReenterExclusive(t) PROVE LeasesOK'
    BY <1>18 DEF ReenterExclusive, leases, events, TypeOK, OwnersOK, LeasesOK,
           QuietOK, Quiet
<1>19. ASSUME NEW t \in Tasks, LeaveReentrant(t) PROVE LeasesOK'
    BY <1>19 DEF LeaveReentrant, leases, events, TypeOK, OwnersOK, LeasesOK,
           QuietOK, Quiet
<1>20. ASSUME NEW t \in Tasks, Poison(t) PROVE LeasesOK'
    BY <1>20 DEF Poison, leases, events, TypeOK, OwnersOK, LeasesOK, QuietOK,
           Quiet
<1>21. ASSUME NEW t \in Tasks, EndUpdate(t) PROVE LeasesOK'
    BY <1>21 DEF EndUpdate, leases, events, exclusion, TypeOK, OwnersOK,
           LeasesOK, QuietOK, Quiet
<1>22. ASSUME NEW t \in Tasks, DrainNext(t) PROVE LeasesOK'
    <2>1. writer = t /\ \A s \in Tasks : step[s] # "inside"
        BY <1>22 DEF DrainNext, Leaving, OwnersOK
    <2>2. \A e \in Events : event'[e] = event[e] \/ event'[e] = "running"
        BY <1>22 DEF DrainNext, TypeOK
    <2> QED
        BY <1>22, <2>1, <2>2 DEF DrainNext, leases, exclusion, LeasesOK
<1>23. ASSUME NEW t \in Tasks, NEW e \in Events, DrainedOne(t, e) PROVE LeasesOK'
    <2>1. \A f \in Events \ {e} : event'[f] = event[f]
        BY <1>23 DEF DrainedOne, TypeOK
    <2>2. event'[e] = "settled" /\ ~(readers[e] > 0)
        BY <1>23, NatFacts DEF DrainedOne, TypeOK
    <2> QED
        BY <1>23, <2>1, <2>2 DEF DrainedOne, leases, exclusion, LeasesOK
<1>24. ASSUME NEW t \in Tasks, ReleaseExclusive(t) PROVE LeasesOK'
    BY <1>24 DEF ReleaseExclusive, leases, Woken, Leaving, Draining, TypeOK,
           OwnersOK, LeasesOK, QuietOK, Quiet
<1> QED
    BY <1>1, <1>2, <1>3, <1>4, <1>5, <1>6, <1>7, <1>8, <1>9, <1>10, <1>11,
           <1>12, <1>13, <1>14, <1>15, <1>16, <1>17, <1>18, <1>19, <1>20, <1>21,
           <1>22, <1>23, <1>24
       DEF Next, Reader, Gateway, Writer, Leave

\* A gate that is not drained is neither poisoned nor updated.
LEMMA QuietStep ==
    ASSUME TypeOK, OwnersOK, LeasesOK, QuietOK, \A w \in Live : handoffs > 0, Next
    PROVE  QuietOK'
<1> USE TasksAssumption, KindsAssumption
<1>1. ASSUME NEW t \in Tasks, AcquireShared(t) PROVE QuietOK'
    <2>1. ~poisoned' /\ \A s \in Tasks : step'[s] # "inside"
        BY <1>1 DEF AcquireShared, active, exclusion, OwnersOK
    <2> QED
        BY <2>1 DEF QuietOK
<1>2. ASSUME NEW t \in Tasks, ReenterShared(t) PROVE QuietOK'
    <2>1. ~Drained
        BY <1>2, NatFacts DEF ReenterShared, Drained, TypeOK
    <2>2. poisoned' = poisoned /\ step' = step
        BY <1>2 DEF ReenterShared, exclusion
    <2> QED
        BY <2>1, <2>2 DEF QuietOK, Quiet
<1>3. ASSUME NEW t \in Tasks, ReleaseShared(t) PROVE QuietOK'
    <2>1. ~Drained
        BY <1>3, NatFacts DEF ReleaseShared, Drained, TypeOK
    <2>2. poisoned' = poisoned /\ \A s \in Tasks : step'[s] = "inside" => step[s] = "inside"
        BY <1>3 DEF ReleaseShared, exclusion, Woken, TypeOK
    <2> QED
        BY <2>1, <2>2 DEF QuietOK, Quiet
<1>4. ASSUME NEW t \in Tasks, NEW w \in Watchers, HandOffShared(t, w) PROVE QuietOK'
    <2>1. ~Drained
        BY <1>4, NatFacts DEF HandOffShared, Drained, TypeOK
    <2>2. poisoned' = poisoned /\ step' = step
        BY <1>4 DEF HandOffShared, exclusion
    <2> QED
        BY <2>1, <2>2 DEF QuietOK, Quiet
<1>5. ASSUME NEW w \in Watchers, WatcherStarts(w) PROVE QuietOK'
    BY <1>5 DEF WatcherStarts, events, exclusion, TypeOK, OwnersOK, LeasesOK,
           QuietOK, Quiet, Drained
<1>6. ASSUME NEW w \in Watchers, WatcherEnds(w) PROVE QuietOK'
    <2>1. ~Drained
        BY <1>6, NatFacts DEF WatcherEnds, Drained, Live
    <2>2. poisoned' = poisoned /\ \A s \in Tasks : step'[s] = "inside" => step[s] = "inside"
        BY <1>6 DEF WatcherEnds, exclusion, Woken, TypeOK
    <2> QED
        BY <2>1, <2>2 DEF QuietOK, Quiet
<1>7. ASSUME NEW w \in Watchers, HandoffCancelled(w) PROVE QuietOK'
    <2>1. ~Drained
        BY <1>7, NatFacts DEF HandoffCancelled, Drained, Live
    <2>2. poisoned' = poisoned /\ step' = step
        BY <1>7 DEF HandoffCancelled, exclusion
    <2> QED
        BY <2>1, <2>2 DEF QuietOK, Quiet
<1>8. ASSUME NotifyWaiters PROVE QuietOK'
    BY <1>8 DEF NotifyWaiters, events, exclusion, Woken, TypeOK, OwnersOK,
           LeasesOK, QuietOK, Quiet, Drained
<1>9. ASSUME NEW e \in Events, EventRuns(e) PROVE QuietOK'
    <2>1. ~poisoned' /\ \A s \in Tasks : step'[s] # "inside"
        BY <1>9 DEF EventRuns, active, exclusion, OwnersOK
    <2> QED
        BY <2>1 DEF QuietOK
<1>10. ASSUME NEW e \in Events, EventReturns(e) PROVE QuietOK'
    BY <1>10 DEF EventReturns, exclusion, Woken, TypeOK, OwnersOK, LeasesOK,
           QuietOK, Quiet, Drained
<1>11. ASSUME NEW e \in Events, EventDeferred(e) PROVE QuietOK'
    BY <1>11 DEF EventDeferred, leases, exclusion, active, TypeOK, OwnersOK,
           LeasesOK, QuietOK, Quiet, Drained
<1>12. ASSUME NEW e \in Events, EventRefused(e) PROVE QuietOK'
    BY <1>12 DEF EventRefused, leases, exclusion, TypeOK, OwnersOK, LeasesOK,
           QuietOK, Quiet, Drained
<1>13. ASSUME NEW t \in Tasks, DeclareIntent(t) PROVE QuietOK'
    BY <1>13 DEF DeclareIntent, leases, events, active, TypeOK, OwnersOK,
           LeasesOK, QuietOK, Quiet, Drained
<1>14. ASSUME NEW t \in Tasks, AcquireExclusive(t) PROVE QuietOK'
    BY <1>14, ZenonT(40) DEF AcquireExclusive, leases, events, Drained, TypeOK, OwnersOK,
           LeasesOK, QuietOK, Quiet
<1>15. ASSUME NEW t \in Tasks, WaitForReaders(t) PROVE QuietOK'
    BY <1>15 DEF WaitForReaders, leases, events, exclusion, Drained, TypeOK,
           OwnersOK, LeasesOK, QuietOK, Quiet
<1>16. ASSUME NEW t \in Tasks, PollAgain(t) PROVE QuietOK'
    BY <1>16 DEF PollAgain, leases, events, exclusion, TypeOK, OwnersOK,
           LeasesOK, QuietOK, Quiet, Drained
<1>17. ASSUME NEW t \in Tasks, BackOut(t) PROVE QuietOK'
    BY <1>17 DEF BackOut, leases, events, TypeOK, OwnersOK, LeasesOK, QuietOK,
           Quiet, Drained
<1>18. ASSUME NEW t \in Tasks, ReenterExclusive(t) PROVE QuietOK'
    BY <1>18 DEF ReenterExclusive, leases, events, TypeOK, OwnersOK, LeasesOK,
           QuietOK, Quiet, Drained
<1>19. ASSUME NEW t \in Tasks, LeaveReentrant(t) PROVE QuietOK'
    BY <1>19 DEF LeaveReentrant, leases, events, TypeOK, OwnersOK, LeasesOK,
           QuietOK, Quiet, Drained
<1>20. ASSUME NEW t \in Tasks, Poison(t) PROVE QuietOK'
    <2>1. writer = t /\ t # NoTask
        BY <1>20 DEF Poison, OwnersOK
    <2>2. pendingWriter' = NoTask
        BY <1>20, <2>1 DEF Poison, OwnersOK
    <2> QED
        BY <1>20, <2>2 DEF Poison, leases, events, QuietOK, Quiet, Drained
<1>21. ASSUME NEW t \in Tasks, EndUpdate(t) PROVE QuietOK'
    BY <1>21 DEF EndUpdate, leases, events, exclusion, TypeOK, OwnersOK,
           LeasesOK, QuietOK, Quiet, Drained
<1>22. ASSUME NEW t \in Tasks, DrainNext(t) PROVE QuietOK'
    <2>1. ~poisoned' /\ \A s \in Tasks : step'[s] # "inside"
        BY <1>22 DEF DrainNext, Leaving, exclusion, OwnersOK
    <2> QED
        BY <2>1 DEF QuietOK
<1>23. ASSUME NEW t \in Tasks, NEW e \in Events, DrainedOne(t, e) PROVE QuietOK'
    BY <1>23 DEF DrainedOne, leases, exclusion, Leaving, TypeOK, OwnersOK,
           LeasesOK, QuietOK, Quiet, Drained
<1>24. ASSUME NEW t \in Tasks, ReleaseExclusive(t) PROVE QuietOK'
    BY <1>24 DEF ReleaseExclusive, leases, Woken, Leaving, Draining, TypeOK,
           OwnersOK, LeasesOK, QuietOK, Quiet, Drained
<1> QED
    BY <1>1, <1>2, <1>3, <1>4, <1>5, <1>6, <1>7, <1>8, <1>9, <1>10, <1>11,
           <1>12, <1>13, <1>14, <1>15, <1>16, <1>17, <1>18, <1>19, <1>20, <1>21,
           <1>22, <1>23, <1>24
       DEF Next, Reader, Gateway, Writer, Leave

LEMMA QueueStep ==
    ASSUME TypeOK, QueueOK, Next
    PROVE  QueueOK'
<1> USE TasksAssumption, KindsAssumption
<1>1. ASSUME NEW t \in Tasks, AcquireShared(t) PROVE QueueOK'
    BY <1>1, ZenonT(40) DEF AcquireShared, events, exclusion, active, TypeOK, QueueOK
<1>2. ASSUME NEW t \in Tasks, ReenterShared(t) PROVE QueueOK'
    BY <1>2 DEF ReenterShared, events, exclusion, TypeOK, QueueOK
<1>3. ASSUME NEW t \in Tasks, ReleaseShared(t) PROVE QueueOK'
    BY <1>3 DEF ReleaseShared, events, exclusion, Woken, TypeOK, QueueOK
<1>4. ASSUME NEW t \in Tasks, NEW w \in Watchers, HandOffShared(t, w) PROVE QueueOK'
    BY <1>4 DEF HandOffShared, events, exclusion, TypeOK, QueueOK
<1>5. ASSUME NEW w \in Watchers, WatcherStarts(w) PROVE QueueOK'
    BY <1>5 DEF WatcherStarts, events, exclusion, TypeOK, QueueOK
<1>6. ASSUME NEW w \in Watchers, WatcherEnds(w) PROVE QueueOK'
    BY <1>6 DEF WatcherEnds, events, exclusion, Woken, TypeOK, QueueOK
<1>7. ASSUME NEW w \in Watchers, HandoffCancelled(w) PROVE QueueOK'
    BY <1>7 DEF HandoffCancelled, events, exclusion, TypeOK, QueueOK
<1>8. ASSUME NotifyWaiters PROVE QueueOK'
    BY <1>8 DEF NotifyWaiters, events, exclusion, Woken, TypeOK, QueueOK
<1>9. ASSUME NEW e \in Events, EventRuns(e) PROVE QueueOK'
    <2>1. /\ deferred' = deferred
          /\ \A f \in Events : event[f] = "queued" => event'[f] = "queued"
        BY <1>9 DEF EventRuns, TypeOK
    <2>2. \A i \in 1..Len(deferred) : deferred[i] \in Events
        BY ElementOfSeq DEF TypeOK
    <2> QED
        BY <2>1, <2>2 DEF QueueOK
<1>10. ASSUME NEW e \in Events, EventReturns(e) PROVE QueueOK'
    <2>1. /\ deferred' = deferred
          /\ \A f \in Events : event[f] = "queued" => event'[f] = "queued"
        BY <1>10 DEF EventReturns, TypeOK
    <2>2. \A i \in 1..Len(deferred) : deferred[i] \in Events
        BY ElementOfSeq DEF TypeOK
    <2> QED
        BY <2>1, <2>2 DEF QueueOK
<1>11. ASSUME NEW e \in Events, EventDeferred(e) PROVE QueueOK'
    <2>0. deferred \in Seq(Events) /\ deferred' = Append(deferred, e)
        BY <1>11 DEF EventDeferred, TypeOK
    <2>1. /\ Len(deferred') = Len(deferred) + 1 /\ Len(deferred) \in Nat
          /\ \A i \in 1..Len(deferred) : deferred'[i] = deferred[i]
          /\ deferred'[Len(deferred) + 1] = e
        BY <2>0, AppendProperties, LenProperties
    <2>2. \A i \in 1..(Len(deferred) + 1) : i \in 1..Len(deferred) \/ i = Len(deferred) + 1
        BY <2>1
    <2>3. \A i \in 1..Len(deferred) : deferred[i] # e
        BY <1>11 DEF EventDeferred, QueueOK
    <2>4. \A f \in Events : event[f] = "queued" => event'[f] = "queued"
        BY <1>11 DEF EventDeferred, TypeOK
    <2>5. event'[e] = "queued" /\ \A i \in 1..Len(deferred) : deferred[i] \in Events
        BY <1>11, ElementOfSeq DEF EventDeferred, TypeOK
    <2> QED
        BY <2>1, <2>2, <2>3, <2>4, <2>5 DEF QueueOK
<1>12. ASSUME NEW e \in Events, EventRefused(e) PROVE QueueOK'
    <2>1. /\ deferred' = deferred
          /\ \A f \in Events : event[f] = "queued" => event'[f] = "queued"
        BY <1>12 DEF EventRefused, TypeOK
    <2>2. \A i \in 1..Len(deferred) : deferred[i] \in Events
        BY ElementOfSeq DEF TypeOK
    <2> QED
        BY <2>1, <2>2 DEF QueueOK
<1>13. ASSUME NEW t \in Tasks, DeclareIntent(t) PROVE QueueOK'
    BY <1>13, ZenonT(40) DEF DeclareIntent, leases, events, active, TypeOK, QueueOK
<1>14. ASSUME NEW t \in Tasks, AcquireExclusive(t) PROVE QueueOK'
    BY <1>14 DEF AcquireExclusive, leases, events, Drained, TypeOK, QueueOK
<1>15. ASSUME NEW t \in Tasks, WaitForReaders(t) PROVE QueueOK'
    BY <1>15 DEF WaitForReaders, leases, events, exclusion, Drained, TypeOK,
           QueueOK
<1>16. ASSUME NEW t \in Tasks, PollAgain(t) PROVE QueueOK'
    BY <1>16 DEF PollAgain, leases, events, exclusion, TypeOK, QueueOK
<1>17. ASSUME NEW t \in Tasks, BackOut(t) PROVE QueueOK'
    BY <1>17 DEF BackOut, leases, events, TypeOK, QueueOK
<1>18. ASSUME NEW t \in Tasks, ReenterExclusive(t) PROVE QueueOK'
    BY <1>18 DEF ReenterExclusive, leases, events, TypeOK, QueueOK
<1>19. ASSUME NEW t \in Tasks, LeaveReentrant(t) PROVE QueueOK'
    BY <1>19 DEF LeaveReentrant, leases, events, TypeOK, QueueOK
<1>20. ASSUME NEW t \in Tasks, Poison(t) PROVE QueueOK'
    BY <1>20 DEF Poison, leases, events, TypeOK, QueueOK
<1>21. ASSUME NEW t \in Tasks, EndUpdate(t) PROVE QueueOK'
    BY <1>21 DEF EndUpdate, leases, events, exclusion, TypeOK, QueueOK
<1>22. ASSUME NEW t \in Tasks, DrainNext(t) PROVE QueueOK'
    <2> DEFINE n == Len(deferred)
    <2>0. deferred \in Seq(Events) /\ deferred # <<>> /\ deferred' = Tail(deferred)
        BY <1>22 DEF DrainNext, TypeOK
    <2>1. /\ n \in Nat /\ n > 0 /\ Len(deferred') = n - 1
          /\ \A i \in 1..(n - 1) : deferred'[i] = deferred[i + 1]
          /\ Head(deferred) = deferred[1] /\ Head(deferred) \in Events
        BY <2>0, HeadTailProperties, LenProperties, EmptySeq, HeadIsFirst
    <2>2. \A i \in 1..(n - 1) : i + 1 \in 1..n /\ i + 1 # 1
        BY <2>1
    <2>3. 1 \in 1..n
        BY <2>1
    <2>4. \A i \in 1..(n - 1) : deferred'[i] # Head(deferred)
        BY <2>1, <2>2, <2>3 DEF QueueOK
    <2>5. \A i \in 1..n : deferred[i] \in Events
        BY ElementOfSeq DEF TypeOK
    <2>6. \A f \in Events \ {Head(deferred)} : event'[f] = event[f]
        BY <1>22, <2>1 DEF DrainNext, TypeOK
    <2>7. \A i \in 1..(n - 1) : event'[deferred'[i]] = "queued"
        BY <2>1, <2>2, <2>4, <2>5, <2>6 DEF QueueOK
    <2>8. ASSUME NEW i \in 1..(n - 1), NEW j \in 1..(n - 1), deferred'[i] = deferred'[j]
          PROVE  i = j
        <3>1. i + 1 = j + 1
            BY <2>1, <2>2, <2>8 DEF QueueOK
        <3> QED
            BY <2>1, <3>1
    <2> QED
        BY <2>1, <2>7, <2>8 DEF QueueOK
<1>23. ASSUME NEW t \in Tasks, NEW e \in Events, DrainedOne(t, e) PROVE QueueOK'
    <2>1. /\ deferred' = deferred
          /\ \A f \in Events : event[f] = "queued" => event'[f] = "queued"
        BY <1>23 DEF DrainedOne, TypeOK
    <2>2. \A i \in 1..Len(deferred) : deferred[i] \in Events
        BY ElementOfSeq DEF TypeOK
    <2> QED
        BY <2>1, <2>2 DEF QueueOK
<1>24. ASSUME NEW t \in Tasks, ReleaseExclusive(t) PROVE QueueOK'
    <2>1. Len(deferred') = 0
        BY <1>24, EmptySeq DEF ReleaseExclusive
    <2> QED
        BY <2>1 DEF QueueOK
<1> QED
    BY <1>1, <1>2, <1>3, <1>4, <1>5, <1>6, <1>7, <1>8, <1>9, <1>10, <1>11,
           <1>12, <1>13, <1>14, <1>15, <1>16, <1>17, <1>18, <1>19, <1>20, <1>21,
           <1>22, <1>23, <1>24
       DEF Next, Reader, Gateway, Writer, Leave

LEMMA RunOnceStep ==
    ASSUME TypeOK, QueueOK, EventsRunOnce, Next
    PROVE  EventsRunOnce'
<1> USE TasksAssumption, KindsAssumption
<1>1. ASSUME NEW t \in Tasks, AcquireShared(t) PROVE EventsRunOnce'
    BY <1>1 DEF AcquireShared, events, exclusion, active, TypeOK, EventsRunOnce
<1>2. ASSUME NEW t \in Tasks, ReenterShared(t) PROVE EventsRunOnce'
    BY <1>2 DEF ReenterShared, events, exclusion, TypeOK, EventsRunOnce
<1>3. ASSUME NEW t \in Tasks, ReleaseShared(t) PROVE EventsRunOnce'
    BY <1>3 DEF ReleaseShared, events, exclusion, Woken, TypeOK, EventsRunOnce
<1>4. ASSUME NEW t \in Tasks, NEW w \in Watchers, HandOffShared(t, w) PROVE EventsRunOnce'
    BY <1>4 DEF HandOffShared, events, exclusion, TypeOK, EventsRunOnce
<1>5. ASSUME NEW w \in Watchers, WatcherStarts(w) PROVE EventsRunOnce'
    BY <1>5 DEF WatcherStarts, events, exclusion, TypeOK, EventsRunOnce
<1>6. ASSUME NEW w \in Watchers, WatcherEnds(w) PROVE EventsRunOnce'
    BY <1>6 DEF WatcherEnds, events, exclusion, Woken, TypeOK, EventsRunOnce
<1>7. ASSUME NEW w \in Watchers, HandoffCancelled(w) PROVE EventsRunOnce'
    BY <1>7 DEF HandoffCancelled, events, exclusion, TypeOK, EventsRunOnce
<1>8. ASSUME NotifyWaiters PROVE EventsRunOnce'
    BY <1>8 DEF NotifyWaiters, events, exclusion, Woken, TypeOK, EventsRunOnce
<1>9. ASSUME NEW e \in Events, EventRuns(e) PROVE EventsRunOnce'
    <2>3. runs[e] = 0
        BY <1>9 DEF EventRuns, EventsRunOnce
    <2>4. 0 + 1 = 1
        OBVIOUS
    <2>1. runs'[e] = 1 /\ event'[e] = "running"
        BY <1>9, <2>3, <2>4 DEF EventRuns, TypeOK
    <2>2. \A f \in Events \ {e} : runs'[f] = runs[f] /\ event'[f] = event[f]
        BY <1>9 DEF EventRuns, TypeOK
    <2> QED
        BY <2>1, <2>2 DEF EventsRunOnce
<1>10. ASSUME NEW e \in Events, EventReturns(e) PROVE EventsRunOnce'
    BY <1>10 DEF EventReturns, exclusion, Woken, TypeOK, EventsRunOnce
<1>11. ASSUME NEW e \in Events, EventDeferred(e) PROVE EventsRunOnce'
    BY <1>11 DEF EventDeferred, leases, exclusion, active, TypeOK, EventsRunOnce
<1>12. ASSUME NEW e \in Events, EventRefused(e) PROVE EventsRunOnce'
    BY <1>12 DEF EventRefused, leases, exclusion, TypeOK, EventsRunOnce
<1>13. ASSUME NEW t \in Tasks, DeclareIntent(t) PROVE EventsRunOnce'
    BY <1>13 DEF DeclareIntent, leases, events, active, TypeOK, EventsRunOnce
<1>14. ASSUME NEW t \in Tasks, AcquireExclusive(t) PROVE EventsRunOnce'
    BY <1>14 DEF AcquireExclusive, leases, events, Drained, TypeOK,
           EventsRunOnce
<1>15. ASSUME NEW t \in Tasks, WaitForReaders(t) PROVE EventsRunOnce'
    BY <1>15 DEF WaitForReaders, leases, events, exclusion, Drained, TypeOK,
           EventsRunOnce
<1>16. ASSUME NEW t \in Tasks, PollAgain(t) PROVE EventsRunOnce'
    BY <1>16 DEF PollAgain, leases, events, exclusion, TypeOK, EventsRunOnce
<1>17. ASSUME NEW t \in Tasks, BackOut(t) PROVE EventsRunOnce'
    BY <1>17 DEF BackOut, leases, events, TypeOK, EventsRunOnce
<1>18. ASSUME NEW t \in Tasks, ReenterExclusive(t) PROVE EventsRunOnce'
    BY <1>18 DEF ReenterExclusive, leases, events, TypeOK, EventsRunOnce
<1>19. ASSUME NEW t \in Tasks, LeaveReentrant(t) PROVE EventsRunOnce'
    BY <1>19 DEF LeaveReentrant, leases, events, TypeOK, EventsRunOnce
<1>20. ASSUME NEW t \in Tasks, Poison(t) PROVE EventsRunOnce'
    BY <1>20 DEF Poison, leases, events, TypeOK, EventsRunOnce
<1>21. ASSUME NEW t \in Tasks, EndUpdate(t) PROVE EventsRunOnce'
    BY <1>21 DEF EndUpdate, leases, events, exclusion, TypeOK, EventsRunOnce
<1>22. ASSUME NEW t \in Tasks, DrainNext(t) PROVE EventsRunOnce'
    <2> DEFINE h == Head(deferred)
    <2>0. deferred \in Seq(Events) /\ deferred # <<>>
        BY <1>22 DEF DrainNext, TypeOK
    <2>1. h \in Events /\ h = deferred[1] /\ 1 \in 1..Len(deferred)
        BY <2>0, HeadTailProperties, HeadIsFirst
    <2>2. event[h] = "queued"
        BY <2>1 DEF QueueOK
    <2>3. runs[h] = 0
        BY <2>1, <2>2 DEF EventsRunOnce
    <2>5. 0 + 1 = 1
        OBVIOUS
    <2>6. runs'[h] = 1 /\ event'[h] = "running"
        BY <1>22, <2>1, <2>3, <2>5 DEF DrainNext, TypeOK
    <2>4. \A f \in Events \ {h} : runs'[f] = runs[f] /\ event'[f] = event[f]
        BY <1>22, <2>1 DEF DrainNext, TypeOK
    <2> QED
        BY <2>6, <2>4 DEF EventsRunOnce
<1>23. ASSUME NEW t \in Tasks, NEW e \in Events, DrainedOne(t, e) PROVE EventsRunOnce'
    BY <1>23 DEF DrainedOne, leases, exclusion, Leaving, TypeOK, EventsRunOnce
<1>24. ASSUME NEW t \in Tasks, ReleaseExclusive(t) PROVE EventsRunOnce'
    BY <1>24 DEF ReleaseExclusive, leases, Woken, Leaving, Draining, TypeOK,
           EventsRunOnce
<1> QED
    BY <1>1, <1>2, <1>3, <1>4, <1>5, <1>6, <1>7, <1>8, <1>9, <1>10, <1>11,
           <1>12, <1>13, <1>14, <1>15, <1>16, <1>17, <1>18, <1>19, <1>20, <1>21,
           <1>22, <1>23, <1>24
       DEF Next, Reader, Gateway, Writer, Leave

LEMMA StrandedStep ==
    ASSUME TypeOK, OwnersOK, NothingStranded, Next
    PROVE  NothingStranded'
<1> USE TasksAssumption, KindsAssumption
<1>1. ASSUME NEW t \in Tasks, AcquireShared(t) PROVE NothingStranded'
    BY <1>1 DEF AcquireShared, events, exclusion, active, TypeOK, OwnersOK,
           NothingStranded
<1>2. ASSUME NEW t \in Tasks, ReenterShared(t) PROVE NothingStranded'
    BY <1>2 DEF ReenterShared, events, exclusion, TypeOK, OwnersOK,
           NothingStranded
<1>3. ASSUME NEW t \in Tasks, ReleaseShared(t) PROVE NothingStranded'
    BY <1>3 DEF ReleaseShared, events, exclusion, Woken, TypeOK, OwnersOK,
           NothingStranded
<1>4. ASSUME NEW t \in Tasks, NEW w \in Watchers, HandOffShared(t, w) PROVE NothingStranded'
    BY <1>4 DEF HandOffShared, events, exclusion, TypeOK, OwnersOK,
           NothingStranded
<1>5. ASSUME NEW w \in Watchers, WatcherStarts(w) PROVE NothingStranded'
    BY <1>5 DEF WatcherStarts, events, exclusion, TypeOK, OwnersOK,
           NothingStranded
<1>6. ASSUME NEW w \in Watchers, WatcherEnds(w) PROVE NothingStranded'
    BY <1>6 DEF WatcherEnds, events, exclusion, Woken, TypeOK, OwnersOK,
           NothingStranded
<1>7. ASSUME NEW w \in Watchers, HandoffCancelled(w) PROVE NothingStranded'
    BY <1>7 DEF HandoffCancelled, events, exclusion, TypeOK, OwnersOK,
           NothingStranded
<1>8. ASSUME NotifyWaiters PROVE NothingStranded'
    BY <1>8 DEF NotifyWaiters, events, exclusion, Woken, TypeOK, OwnersOK,
           NothingStranded
<1>9. ASSUME NEW e \in Events, EventRuns(e) PROVE NothingStranded'
    BY <1>9 DEF EventRuns, exclusion, active, TypeOK, OwnersOK, NothingStranded
<1>10. ASSUME NEW e \in Events, EventReturns(e) PROVE NothingStranded'
    BY <1>10 DEF EventReturns, exclusion, Woken, TypeOK, OwnersOK,
           NothingStranded
<1>11. ASSUME NEW e \in Events, EventDeferred(e) PROVE NothingStranded'
    BY <1>11 DEF EventDeferred, leases, exclusion, active, TypeOK, OwnersOK,
           NothingStranded
<1>12. ASSUME NEW e \in Events, EventRefused(e) PROVE NothingStranded'
    BY <1>12 DEF EventRefused, leases, exclusion, TypeOK, OwnersOK,
           NothingStranded
<1>13. ASSUME NEW t \in Tasks, DeclareIntent(t) PROVE NothingStranded'
    BY <1>13 DEF DeclareIntent, leases, events, active, TypeOK, OwnersOK,
           NothingStranded
<1>14. ASSUME NEW t \in Tasks, AcquireExclusive(t) PROVE NothingStranded'
    BY <1>14 DEF AcquireExclusive, leases, events, Drained, TypeOK, OwnersOK,
           NothingStranded
<1>15. ASSUME NEW t \in Tasks, WaitForReaders(t) PROVE NothingStranded'
    BY <1>15 DEF WaitForReaders, leases, events, exclusion, Drained, TypeOK,
           OwnersOK, NothingStranded
<1>16. ASSUME NEW t \in Tasks, PollAgain(t) PROVE NothingStranded'
    BY <1>16 DEF PollAgain, leases, events, exclusion, TypeOK, OwnersOK,
           NothingStranded
<1>17. ASSUME NEW t \in Tasks, BackOut(t) PROVE NothingStranded'
    BY <1>17 DEF BackOut, leases, events, TypeOK, OwnersOK, NothingStranded
<1>18. ASSUME NEW t \in Tasks, ReenterExclusive(t) PROVE NothingStranded'
    BY <1>18 DEF ReenterExclusive, leases, events, TypeOK, OwnersOK,
           NothingStranded
<1>19. ASSUME NEW t \in Tasks, LeaveReentrant(t) PROVE NothingStranded'
    BY <1>19 DEF LeaveReentrant, leases, events, TypeOK, OwnersOK,
           NothingStranded
<1>20. ASSUME NEW t \in Tasks, Poison(t) PROVE NothingStranded'
    BY <1>20 DEF Poison, leases, events, TypeOK, OwnersOK, NothingStranded
<1>21. ASSUME NEW t \in Tasks, EndUpdate(t) PROVE NothingStranded'
    BY <1>21 DEF EndUpdate, leases, events, exclusion, TypeOK, OwnersOK,
           NothingStranded
<1>22. ASSUME NEW t \in Tasks, DrainNext(t) PROVE NothingStranded'
    BY <1>22 DEF DrainNext, leases, exclusion, Leaving, Draining, TypeOK,
           OwnersOK, NothingStranded
<1>23. ASSUME NEW t \in Tasks, NEW e \in Events, DrainedOne(t, e) PROVE NothingStranded'
    BY <1>23 DEF DrainedOne, leases, exclusion, Leaving, TypeOK, OwnersOK,
           NothingStranded
<1>24. ASSUME NEW t \in Tasks, ReleaseExclusive(t) PROVE NothingStranded'
    BY <1>24 DEF ReleaseExclusive, leases, Woken, Leaving, Draining, TypeOK,
           OwnersOK, NothingStranded
<1> QED
    BY <1>1, <1>2, <1>3, <1>4, <1>5, <1>6, <1>7, <1>8, <1>9, <1>10, <1>11,
           <1>12, <1>13, <1>14, <1>15, <1>16, <1>17, <1>18, <1>19, <1>20, <1>21,
           <1>22, <1>23, <1>24
       DEF Next, Reader, Gateway, Writer, Leave

\* What makes the gate drained wakes the writer, or announces that it will.
LEMMA WakeupStep ==
    ASSUME TypeOK, OwnersOK, NoLostWakeup, \A w \in Live : handoffs > 0, Next
    PROVE  NoLostWakeup'
<1> USE TasksAssumption, KindsAssumption
<1>1. ASSUME NEW t \in Tasks, AcquireShared(t) PROVE NoLostWakeup'
    BY <1>1 DEF AcquireShared, events, exclusion, active, TypeOK, OwnersOK,
           NoLostWakeup, Drained
<1>2. ASSUME NEW t \in Tasks, ReenterShared(t) PROVE NoLostWakeup'
    <2>1. readers'[t] > 0 /\ readers'[t] # 0 /\ t \in Tasks
        BY <1>2, NatFacts DEF ReenterShared, TypeOK
    <2> QED
        BY <1>2, <2>1 DEF ReenterShared, events, exclusion, Drained, NoLostWakeup
<1>3. ASSUME NEW t \in Tasks, ReleaseShared(t) PROVE NoLostWakeup'
    <2>1. CASE readers[t] = 1
        <3>1. \A s \in Tasks : step'[s] # "asleep"
            BY <1>3, <2>1 DEF ReleaseShared, Woken, TypeOK
        <3> QED
            BY <3>1 DEF NoLostWakeup
    <2>2. CASE readers[t] # 1
        <3>1. readers[t] \in Nat /\ readers[t] > 0
            BY <1>3 DEF ReleaseShared, TypeOK
        <3>2. readers[t] - 1 # 0
            BY <2>2, <3>1
        <3>3. readers'[t] # 0
            BY <1>3, <3>2 DEF ReleaseShared, TypeOK
        <3> QED
            BY <3>3 DEF Drained, NoLostWakeup
    <2> QED
        BY <2>1, <2>2
<1>4. ASSUME NEW t \in Tasks, NEW w \in Watchers, HandOffShared(t, w) PROVE NoLostWakeup'
    <2>1. handoffs' # 0
        BY <1>4, NatFacts DEF HandOffShared, TypeOK
    <2> QED
        BY <2>1 DEF Drained, NoLostWakeup
<1>5. ASSUME NEW w \in Watchers, WatcherStarts(w) PROVE NoLostWakeup'
    BY <1>5 DEF WatcherStarts, events, exclusion, TypeOK, OwnersOK,
           NoLostWakeup, Drained
<1>6. ASSUME NEW w \in Watchers, WatcherEnds(w) PROVE NoLostWakeup'
    BY <1>6 DEF WatcherEnds, events, exclusion, Woken, TypeOK, OwnersOK,
           NoLostWakeup, Drained
<1>7. ASSUME NEW w \in Watchers, HandoffCancelled(w) PROVE NoLostWakeup'
    <2>1. notices' > 0
        BY <1>7, NatFacts DEF HandoffCancelled, TypeOK
    <2> QED
        BY <2>1 DEF NoLostWakeup
<1>8. ASSUME NotifyWaiters PROVE NoLostWakeup'
    BY <1>8 DEF NotifyWaiters, events, exclusion, Woken, TypeOK, OwnersOK,
           NoLostWakeup, Drained
<1>9. ASSUME NEW e \in Events, EventRuns(e) PROVE NoLostWakeup'
    BY <1>9 DEF EventRuns, exclusion, active, TypeOK, OwnersOK, NoLostWakeup,
           Drained
<1>10. ASSUME NEW e \in Events, EventReturns(e) PROVE NoLostWakeup'
    BY <1>10 DEF EventReturns, exclusion, Woken, TypeOK, OwnersOK, NoLostWakeup,
           Drained
<1>11. ASSUME NEW e \in Events, EventDeferred(e) PROVE NoLostWakeup'
    BY <1>11 DEF EventDeferred, leases, exclusion, active, TypeOK, OwnersOK,
           NoLostWakeup, Drained
<1>12. ASSUME NEW e \in Events, EventRefused(e) PROVE NoLostWakeup'
    BY <1>12 DEF EventRefused, leases, exclusion, TypeOK, OwnersOK,
           NoLostWakeup, Drained
<1>13. ASSUME NEW t \in Tasks, DeclareIntent(t) PROVE NoLostWakeup'
    BY <1>13 DEF DeclareIntent, leases, events, active, TypeOK, OwnersOK,
           NoLostWakeup, Drained
<1>14. ASSUME NEW t \in Tasks, AcquireExclusive(t) PROVE NoLostWakeup'
    BY <1>14 DEF AcquireExclusive, leases, events, Drained, TypeOK, OwnersOK,
           NoLostWakeup
<1>15. ASSUME NEW t \in Tasks, WaitForReaders(t) PROVE NoLostWakeup'
    BY <1>15 DEF WaitForReaders, leases, events, exclusion, Drained, TypeOK,
           OwnersOK, NoLostWakeup
<1>16. ASSUME NEW t \in Tasks, PollAgain(t) PROVE NoLostWakeup'
    BY <1>16 DEF PollAgain, leases, events, exclusion, TypeOK, OwnersOK,
           NoLostWakeup, Drained
<1>17. ASSUME NEW t \in Tasks, BackOut(t) PROVE NoLostWakeup'
    BY <1>17 DEF BackOut, leases, events, TypeOK, OwnersOK, NoLostWakeup,
           Drained
<1>18. ASSUME NEW t \in Tasks, ReenterExclusive(t) PROVE NoLostWakeup'
    BY <1>18 DEF ReenterExclusive, leases, events, TypeOK, OwnersOK,
           NoLostWakeup, Drained
<1>19. ASSUME NEW t \in Tasks, LeaveReentrant(t) PROVE NoLostWakeup'
    BY <1>19 DEF LeaveReentrant, leases, events, TypeOK, OwnersOK, NoLostWakeup,
           Drained
<1>20. ASSUME NEW t \in Tasks, Poison(t) PROVE NoLostWakeup'
    BY <1>20 DEF Poison, leases, events, TypeOK, OwnersOK, NoLostWakeup, Drained
<1>21. ASSUME NEW t \in Tasks, EndUpdate(t) PROVE NoLostWakeup'
    BY <1>21 DEF EndUpdate, leases, events, exclusion, TypeOK, OwnersOK,
           NoLostWakeup, Drained
<1>22. ASSUME NEW t \in Tasks, DrainNext(t) PROVE NoLostWakeup'
    BY <1>22 DEF DrainNext, leases, exclusion, Leaving, Draining, TypeOK,
           OwnersOK, NoLostWakeup, Drained
<1>23. ASSUME NEW t \in Tasks, NEW e \in Events, DrainedOne(t, e) PROVE NoLostWakeup'
    BY <1>23 DEF DrainedOne, leases, exclusion, Leaving, TypeOK, OwnersOK,
           NoLostWakeup, Drained
<1>24. ASSUME NEW t \in Tasks, ReleaseExclusive(t) PROVE NoLostWakeup'
    BY <1>24 DEF ReleaseExclusive, leases, Woken, Leaving, Draining, TypeOK,
           OwnersOK, NoLostWakeup, Drained
<1> QED
    BY <1>1, <1>2, <1>3, <1>4, <1>5, <1>6, <1>7, <1>8, <1>9, <1>10, <1>11,
           <1>12, <1>13, <1>14, <1>15, <1>16, <1>17, <1>18, <1>19, <1>20, <1>21,
           <1>22, <1>23, <1>24
       DEF Next, Reader, Gateway, Writer, Leave

\* The count follows the watchers.
LEMMA HandoffsStep ==
    ASSUME TypeOK, HandoffsOK, [Next]_vars
    PROVE  HandoffsOK'
<1> USE TasksAssumption, KindsAssumption
<1>1. IsFiniteSet(Live)
    BY TasksAssumption, FS_Subset DEF Live
<1>2. CASE UNCHANGED <<watcher, handoffs>>
    BY <1>2 DEF HandoffsOK, Live
<1>3. ASSUME NEW t \in Tasks, NEW w \in Watchers, HandOffShared(t, w) PROVE HandoffsOK'
    <2>1. Live' = Live \cup {w} /\ w \notin Live
        BY <1>3 DEF HandOffShared, Live, TypeOK
    <2>2. Cardinality(Live') = Cardinality(Live) + 1
        BY <1>1, <2>1, FS_AddElement
    <2> QED
        BY <1>3, <2>2 DEF HandOffShared, HandoffsOK
<1>4. ASSUME NEW w \in Watchers, WatcherStarts(w) PROVE HandoffsOK'
    <2>1. Live' = Live
        BY <1>4 DEF WatcherStarts, Live, TypeOK
    <2> QED
        BY <1>4, <2>1 DEF WatcherStarts, HandoffsOK
<1>5. ASSUME NEW w \in Watchers, WatcherEnds(w) \/ HandoffCancelled(w) PROVE HandoffsOK'
    <2>1. Live' = Live \ {w} /\ w \in Live /\ handoffs' = handoffs - 1
        BY <1>5 DEF WatcherEnds, HandoffCancelled, Live, TypeOK
    <2>2. Cardinality(Live') = Cardinality(Live) - 1
        BY <1>1, <2>1, FS_RemoveElement
    <2> QED
        BY <2>1, <2>2 DEF HandoffsOK
<1>6. CASE \E t \in Tasks : AcquireShared(t) \/ ReenterShared(t) \/ ReleaseShared(t)
    BY <1>2, <1>6 DEF AcquireShared, ReenterShared, ReleaseShared
<1>7. CASE NotifyWaiters \/ UNCHANGED vars
    BY <1>2, <1>7 DEF NotifyWaiters, vars
<1>8. CASE Gateway
    BY <1>2, <1>8 DEF Gateway, EventRuns, EventReturns, EventDeferred, EventRefused, leases
<1>9. CASE Writer
    BY <1>2, <1>9 DEF Writer, Leave, DeclareIntent, AcquireExclusive, WaitForReaders,
       PollAgain, BackOut, ReenterExclusive, LeaveReentrant, Poison, EndUpdate, DrainNext,
       DrainedOne, ReleaseExclusive, leases
<1> QED
    BY <1>3, <1>4, <1>5, <1>6, <1>7, <1>8, <1>9 DEF Next, Reader

\* No lease is out when the count is zero, and one is when a watcher lives.
LEMMA HandoffCount ==
    ASSUME HandoffsOK
    PROVE  /\ handoffs = 0 => Live = {}
           /\ \A w \in Live : handoffs > 0
<1>1. IsFiniteSet(Live)
    BY TasksAssumption, FS_Subset DEF Live
<1>2. handoffs \in Nat /\ (handoffs = 0 <=> Live = {})
    BY <1>1, FS_CardinalityType, FS_EmptySet DEF HandoffsOK
<1> QED
    BY <1>2

LEMMA NextInv ==
    ASSUME Inv, [Next]_vars
    PROVE  Inv'
<1>1. CASE UNCHANGED vars
    <2>1. TypeOK' /\ HandoffsOK'
        BY <1>1 DEF Inv, TypeOK, HandoffsOK, Live, vars
    <2>2. OwnersOK' /\ DepthOK' /\ LeasesOK' /\ QuietOK' /\ QueueOK'
        BY <1>1, ZenonT(40) DEF Inv, OwnersOK, DepthOK, LeasesOK, QuietOK, Quiet, Drained, QueueOK, vars
    <2>3. EventsRunOnce' /\ NothingStranded' /\ NoLostWakeup'
        BY <1>1 DEF Inv, EventsRunOnce, NothingStranded, NoLostWakeup, Drained, vars
    <2> QED
        BY <2>1, <2>2, <2>3 DEF Inv
<1>2. CASE Next
    <2>1. \A t \in Tasks : Leaving(t) => writerDepth = 1
        BY DEF Inv, DepthOK, Leaving
    <2>2. TypeOK' /\ OwnersOK' /\ DepthOK'
        BY <1>2, <2>1, HandoffCount, TypeStep, OwnersStep, DepthStep DEF Inv
    <2>3. LeasesOK' /\ QuietOK' /\ QueueOK'
        BY <1>2, HandoffCount, LeasesStep, QuietStep, QueueStep DEF Inv
    <2>4. EventsRunOnce' /\ NothingStranded' /\ NoLostWakeup'
        BY <1>2, HandoffCount, RunOnceStep, StrandedStep, WakeupStep DEF Inv
    <2>5. HandoffsOK'
        BY <1>2, HandoffsStep DEF Inv
    <2> QED
        BY <2>2, <2>3, <2>4, <2>5 DEF Inv
<1> QED
    BY <1>1, <1>2

LEMMA Invariance == Spec => []Inv
<1>1. Inv /\ [Next]_vars => Inv'
    BY NextInv
<1> QED
    BY <1>1, InitInv, PTL DEF Spec

(* Every variable keeps its type; the count of handed-off leases never goes *)
(* below zero, however watchers start, end and are cancelled.               *)
THEOREM TypeCorrect == Spec => []TypeOK
<1>1. Inv => TypeOK
    BY DEF Inv
<1> QED
    BY <1>1, Invariance, PTL

(* A writer never sleeps on a gate that nobody will wake it from.           *)
THEOREM NoWakeupIsLost == Spec => []NoLostWakeup
<1>1. Inv => NoLostWakeup
    BY DEF Inv
<1> QED
    BY <1>1, Invariance, PTL

(* No gateway event waits in the queue of a gate without a writer.          *)
THEOREM NoEventIsStranded == Spec => []NothingStranded
<1>1. Inv => NothingStranded
    BY DEF Inv
<1> QED
    BY <1>1, Invariance, PTL

(* A gateway event runs exactly once if it runs at all.                     *)
THEOREM EventsRunExactlyOnce == Spec => []EventsRunOnce
<1>1. Inv => EventsRunOnce
    BY DEF Inv
<1> QED
    BY <1>1, Invariance, PTL

(* Once a writer declared its intent no task or event gets a first lease.   *)
THEOREM IntentIsRespected == Spec => IntentBlocksNewWork
<1>1. ASSUME Inv, [Next]_vars, pendingWriter # NoTask, pendingWriter' # NoTask,
             NEW r \in Tasks \cup Events, readers[r] = 0
      PROVE  readers'[r] = 0
    <2> USE TasksAssumption, KindsAssumption
    <2>1. active
        BY <1>1 DEF active
    <2>2. readers \in [Tasks \cup Events -> Nat]
        BY <1>1 DEF Inv, TypeOK
    <2>3. CASE UNCHANGED readers
        BY <1>1, <2>3
    <2>4. ASSUME NEW t \in Tasks, ReenterShared(t) \/ ReleaseShared(t) PROVE readers'[r] = 0
        <3>1. t # r
            BY <1>1, <2>2, <2>4, NatFacts DEF ReenterShared, ReleaseShared
        <3> QED
            BY <1>1, <2>2, <2>4, <3>1 DEF ReenterShared, ReleaseShared
    <2>5. ASSUME NEW e \in Events, EventReturns(e) PROVE readers'[r] = 0
        BY <1>1, <2>2, <2>5 DEF EventReturns
    <2>6. CASE Reader
        BY <2>1, <2>3, <2>4, <2>6 DEF Reader, AcquireShared, HandOffShared, WatcherStarts,
           WatcherEnds, HandoffCancelled, NotifyWaiters
    <2>7. CASE Gateway
        BY <2>1, <2>3, <2>5, <2>7 DEF Gateway, EventRuns, EventDeferred, EventRefused, leases
    <2>8. CASE Writer
        BY <2>3, <2>8 DEF Writer, Leave, DeclareIntent, AcquireExclusive, WaitForReaders,
           PollAgain, BackOut, ReenterExclusive, LeaveReentrant, Poison, EndUpdate, DrainNext,
           DrainedOne, ReleaseExclusive, leases
    <2>9. CASE UNCHANGED vars
        BY <2>3, <2>9 DEF vars
    <2> QED
        BY <1>1, <2>6, <2>7, <2>8, <2>9 DEF Next
<1>2. Inv /\ [Next]_vars =>
        [pendingWriter # NoTask /\ pendingWriter' # NoTask =>
            \A t \in Tasks \cup Events : readers[t] = 0 => readers'[t] = 0]_vars
    BY <1>1
<1> QED
    BY <1>2, Invariance, PTL DEF Spec, IntentBlocksNewWork

-----------------------------------------------------------------------------
(***************************************************************************)
(* Every step, seen by UpdateExclusion.                                     *)
(***************************************************************************)

Same == UNCHANGED <<Working, Updating, poisoned>>
Starts(x) ==
    /\ ~poisoned /\ Updating = {}
    /\ Working' = Working \cup {x}
    /\ UNCHANGED <<Updating, poisoned>>
Ends(x) == Working' = Working \ {x} /\ UNCHANGED <<Updating, poisoned>>
Begins(t) ==
    /\ ~poisoned /\ Working = {} /\ Updating = {}
    /\ Updating' = {t}
    /\ UNCHANGED <<Working, poisoned>>
Finishes == Updating' = {} /\ UNCHANGED <<Working, poisoned>>
Fails == Updating # {} /\ poisoned' = TRUE /\ UNCHANGED <<Working, Updating>>

WorkStep ==
    \/ Same \/ Finishes \/ Fails
    \/ \E x \in Tasks \cup Watchers \cup Events : Starts(x) \/ Ends(x)
    \/ \E t \in Tasks : Begins(t)

LEMMA RefineStep ==
    ASSUME TypeOK, OwnersOK, LeasesOK, QuietOK, handoffs = 0 => Live = {}, \A w \in Live : handoffs > 0, Next
    PROVE  WorkStep
<1> USE TasksAssumption, KindsAssumption
<1>1. ASSUME NEW t \in Tasks, AcquireShared(t) PROVE WorkStep
    <2>1. Working' = Working \cup {t} /\ Updating' = Updating /\ poisoned' = poisoned
        BY <1>1, NatFacts DEF AcquireShared, events, exclusion, Working, Updating, TypeOK
    <2>2. ~poisoned /\ Updating = {}
        BY <1>1 DEF AcquireShared, Updating, active, OwnersOK
    <2> QED
        BY <2>1, <2>2 DEF Starts, WorkStep
<1>2. ASSUME NEW t \in Tasks, ReenterShared(t) PROVE WorkStep
    <2>1. readers'[t] > 0 /\ readers[t] > 0
        BY <1>2, NatFacts DEF ReenterShared, TypeOK
    <2>2. \A s \in Tasks : readers'[s] > 0 <=> readers[s] > 0
        BY <1>2, <2>1 DEF ReenterShared, TypeOK
    <2> QED
        BY <1>2, <2>2 DEF ReenterShared, events, exclusion, Same, WorkStep, Working, Updating
<1>3. ASSUME NEW t \in Tasks, ReleaseShared(t) PROVE WorkStep
    <2>1. \A s \in Tasks \ {t} : readers'[s] = readers[s]
        BY <1>3 DEF ReleaseShared, TypeOK
    <2>2. /\ Updating' = Updating /\ poisoned' = poisoned
          /\ UNCHANGED <<watcher, event>>
        BY <1>3 DEF ReleaseShared, events, exclusion, Updating, Woken, TypeOK
    <2>3. CASE readers[t] = 1
        <3>1. ~(readers'[t] > 0)
            BY <1>3, <2>3, NatFacts DEF ReleaseShared, TypeOK
        <3>2. Working' = Working \ {t}
            BY <2>1, <2>2, <3>1 DEF Working
        <3> QED
            BY <2>2, <3>2 DEF Ends, WorkStep
    <2>4. CASE readers[t] # 1
        <3>1. readers[t] \in Nat /\ readers[t] > 0
            BY <1>3 DEF ReleaseShared, TypeOK
        <3>2. readers[t] - 1 > 0
            BY <2>4, <3>1
        <3>3. readers'[t] > 0
            BY <1>3, <3>2 DEF ReleaseShared, TypeOK
        <3> QED
            BY <2>1, <2>2, <3>1, <3>3 DEF Same, WorkStep, Working
    <2> QED
        BY <2>3, <2>4
<1>4. ASSUME NEW t \in Tasks, NEW w \in Watchers, HandOffShared(t, w) PROVE WorkStep
    <2>1. Working' = Working \cup {w} /\ Updating' = Updating /\ poisoned' = poisoned
        BY <1>4 DEF HandOffShared, events, exclusion, Working, Updating, TypeOK
    <2>2. ~poisoned /\ Updating = {}
        BY <1>4, NatFacts DEF HandOffShared, Updating, Drained, QuietOK, Quiet
    <2> QED
        BY <2>1, <2>2 DEF Starts, WorkStep
<1>5. ASSUME NEW w \in Watchers, WatcherStarts(w) PROVE WorkStep
    BY <1>5 DEF WatcherStarts, events, exclusion, WorkStep, Same, Working,
           Updating, TypeOK
<1>6. ASSUME NEW w \in Watchers, WatcherEnds(w) PROVE WorkStep
    <2>1. Working' = Working \ {w} /\ Updating' = Updating /\ poisoned' = poisoned
        BY <1>6 DEF WatcherEnds, events, exclusion, Woken, Working, Updating, TypeOK
    <2> QED
        BY <2>1 DEF Ends, WorkStep
<1>7. ASSUME NEW w \in Watchers, HandoffCancelled(w) PROVE WorkStep
    <2>1. Working' = Working \ {w} /\ Updating' = Updating /\ poisoned' = poisoned
        BY <1>7 DEF HandoffCancelled, events, exclusion, Working, Updating, TypeOK
    <2> QED
        BY <2>1 DEF Ends, WorkStep
<1>8. ASSUME NotifyWaiters PROVE WorkStep
    BY <1>8 DEF NotifyWaiters, events, exclusion, Woken, WorkStep, Same,
           Working, Updating, TypeOK
<1>9. ASSUME NEW e \in Events, EventRuns(e) PROVE WorkStep
    <2>1. Working' = Working \cup {e} /\ Updating' = Updating /\ poisoned' = poisoned
        BY <1>9 DEF EventRuns, exclusion, Working, Updating, TypeOK
    <2>2. ~poisoned /\ Updating = {}
        BY <1>9 DEF EventRuns, Updating, active, OwnersOK
    <2> QED
        BY <2>1, <2>2 DEF Starts, WorkStep
<1>10. ASSUME NEW e \in Events, EventReturns(e) PROVE WorkStep
    <2>1. Working' = Working \ {e} /\ Updating' = Updating /\ poisoned' = poisoned
        BY <1>10, NatFacts DEF EventReturns, exclusion, Woken, Working, Updating, TypeOK
    <2> QED
        BY <2>1 DEF Ends, WorkStep
<1>11. ASSUME NEW e \in Events, EventDeferred(e) PROVE WorkStep
    BY <1>11 DEF EventDeferred, leases, exclusion, active, WorkStep, Same,
           Working, Updating, TypeOK
<1>12. ASSUME NEW e \in Events, EventRefused(e) PROVE WorkStep
    BY <1>12 DEF EventRefused, leases, exclusion, WorkStep, Same, Working,
           Updating, TypeOK
<1>13. ASSUME NEW t \in Tasks, DeclareIntent(t) PROVE WorkStep
    BY <1>13 DEF DeclareIntent, leases, events, active, WorkStep, Same, Working,
           Updating, TypeOK
<1>14. ASSUME NEW t \in Tasks, AcquireExclusive(t) PROVE WorkStep
    <2>1. writer = NoTask /\ pendingWriter = t
        BY <1>14 DEF AcquireExclusive, OwnersOK
    <2>2. ~poisoned
        BY <2>1 DEF QuietOK
    <2>3. Live = {}
        BY <1>14, NatFacts DEF AcquireExclusive, Drained
    <2>4. \A e \in Events : event[e] # "running"
        BY <1>14, <2>1 DEF AcquireExclusive, Drained, LeasesOK
    <2>5. Working = {}
        BY <1>14, <2>3, <2>4, NatFacts DEF AcquireExclusive, Drained, Live, Working
    <2>6. Updating = {}
        BY <2>1 DEF Updating, OwnersOK
    <2>7. Working' = Working /\ poisoned' = poisoned
        BY <1>14 DEF AcquireExclusive, leases, events, Working
    <2>8. Updating' = {t}
        <3>1. step'[t] = "inside" /\ \A s \in Tasks \ {t} : step'[s] = step[s]
            BY <1>14 DEF AcquireExclusive, TypeOK
        <3> QED
            BY <2>6, <3>1 DEF Updating
    <2> QED
        BY <2>2, <2>5, <2>6, <2>7, <2>8 DEF Begins, WorkStep
<1>15. ASSUME NEW t \in Tasks, WaitForReaders(t) PROVE WorkStep
    BY <1>15 DEF WaitForReaders, leases, events, exclusion, Drained, WorkStep,
           Same, Working, Updating, TypeOK
<1>16. ASSUME NEW t \in Tasks, PollAgain(t) PROVE WorkStep
    BY <1>16 DEF PollAgain, leases, events, exclusion, WorkStep, Same, Working,
           Updating, TypeOK
<1>17. ASSUME NEW t \in Tasks, BackOut(t) PROVE WorkStep
    BY <1>17 DEF BackOut, leases, events, WorkStep, Same, Working, Updating,
           TypeOK
<1>18. ASSUME NEW t \in Tasks, ReenterExclusive(t) PROVE WorkStep
    BY <1>18 DEF ReenterExclusive, leases, events, WorkStep, Same, Working,
           Updating, TypeOK
<1>19. ASSUME NEW t \in Tasks, LeaveReentrant(t) PROVE WorkStep
    BY <1>19 DEF LeaveReentrant, leases, events, WorkStep, Same, Working,
           Updating, TypeOK
<1>20. ASSUME NEW t \in Tasks, Poison(t) PROVE WorkStep
    <2>1. Updating # {}
        BY <1>20 DEF Poison, Updating
    <2> QED
        BY <1>20, <2>1 DEF Poison, leases, events, Fails, WorkStep, Working, Updating
<1>21. ASSUME NEW t \in Tasks, EndUpdate(t) PROVE WorkStep
    <2>1. writer = t
        BY <1>21 DEF EndUpdate, OwnersOK
    <2>2. \A s \in Tasks \ {t} : step[s] # "inside"
        BY <2>1 DEF OwnersOK
    <2>3. Updating' = {}
        BY <1>21, <2>2 DEF EndUpdate, Updating, TypeOK
    <2>4. Working' = Working /\ poisoned' = poisoned
        BY <1>21 DEF EndUpdate, leases, events, exclusion, Working
    <2> QED
        BY <2>3, <2>4 DEF Finishes, WorkStep
<1>22. ASSUME NEW t \in Tasks, DrainNext(t) PROVE WorkStep
    <2> DEFINE h == Head(deferred)
    <2>1. h \in Events
        BY <1>22, HeadTailProperties DEF DrainNext, TypeOK
    <2>2. Working' = Working \cup {h} /\ Updating' = Updating /\ poisoned' = poisoned
        BY <1>22, <2>1 DEF DrainNext, leases, exclusion, Working, Updating, TypeOK
    <2>3. ~poisoned /\ Updating = {}
        BY <1>22 DEF DrainNext, Leaving, Updating, OwnersOK
    <2> QED
        BY <2>1, <2>2, <2>3 DEF Starts, WorkStep
<1>23. ASSUME NEW t \in Tasks, NEW e \in Events, DrainedOne(t, e) PROVE WorkStep
    <2>1. Working' = Working \ {e} /\ Updating' = Updating /\ poisoned' = poisoned
        BY <1>23 DEF DrainedOne, leases, exclusion, Working, Updating, TypeOK
    <2> QED
        BY <2>1 DEF Ends, WorkStep
<1>24. ASSUME NEW t \in Tasks, ReleaseExclusive(t) PROVE WorkStep
    <2>1. Updating' = Updating
        BY <1>24 DEF ReleaseExclusive, Leaving, Woken, Updating, TypeOK
    <2>2. \A e \in Events : event'[e] = "running" <=> event[e] = "running"
        BY <1>24 DEF ReleaseExclusive, TypeOK
    <2> QED
        BY <1>24, <2>1, <2>2 DEF ReleaseExclusive, leases, Same, WorkStep, Working
<1> QED
    BY <1>1, <1>2, <1>3, <1>4, <1>5, <1>6, <1>7, <1>8, <1>9, <1>10, <1>11,
           <1>12, <1>13, <1>14, <1>15, <1>16, <1>17, <1>18, <1>19, <1>20, <1>21,
           <1>22, <1>23, <1>24
       DEF Next, Reader, Gateway, Writer, Leave

LEMMA InitRefines == Init => Exclusion!Init
<1> SUFFICES ASSUME Init PROVE Exclusion!Init
    OBVIOUS
<1>1. Working = {} /\ Updating = {}
    BY NatFacts DEF Init, Working, Updating
<1> QED
    BY <1>1 DEF Init, Exclusion!Init

LEMMA StepRefines ==
    ASSUME Inv, [Next]_vars
    PROVE  [Exclusion!Next]_(Exclusion!vars)
<1>1. WorkStep
    <2>1. CASE UNCHANGED vars
        BY <2>1 DEF vars, WorkStep, Same, Working, Updating
    <2>2. CASE Next
        BY <2>2, RefineStep, HandoffCount DEF Inv
    <2> QED
        BY <2>1, <2>2
<1>2. CASE Same
    BY <1>2 DEF Same, Exclusion!vars
<1>3. CASE Finishes \/ Fails
    BY <1>3 DEF Finishes, Fails, Exclusion!Next, Exclusion!EndUpdate, Exclusion!FailRecovery
<1>4. ASSUME NEW x \in Tasks \cup Watchers \cup Events, Starts(x) \/ Ends(x)
      PROVE  Exclusion!Next
    BY <1>4 DEF Starts, Ends, Exclusion!Next, Exclusion!StartWork, Exclusion!EndWork
<1>5. ASSUME NEW t \in Tasks, Begins(t) PROVE Exclusion!Next
    BY <1>5 DEF Begins, Exclusion!Next, Exclusion!StartUpdate
<1> QED
    BY <1>1, <1>2, <1>3, <1>4, <1>5 DEF WorkStep

(* Messages, scheduler cycles, deliveries and gateway events never overlap  *)
(* an update, and nothing starts on a tree whose recovery failed.           *)
THEOREM Refinement == Spec => KeepsApart
<1>1. Init => Exclusion!Init
    BY InitRefines
<1>2. Inv /\ [Next]_vars => [Exclusion!Next]_(Exclusion!vars)
    BY StepRefines
<1> QED
    BY <1>1, <1>2, Invariance, PTL DEF Spec, KeepsApart, Exclusion!Spec
=============================================================================
