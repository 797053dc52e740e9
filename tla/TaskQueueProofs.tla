--------------------------- MODULE TaskQueueProofs ---------------------------
(***************************************************************************)
(* Theorems about TaskQueue, for any number of bots, reminders, tasks and   *)
(* closings and any limits.                                                 *)
(***************************************************************************)
EXTENDS TaskQueue, FiniteSetTheorems, TLAPS

USE DEF NoToken, NoClosing

-----------------------------------------------------------------------------
(***************************************************************************)
(* The inductive invariant.                                                 *)
(***************************************************************************)

\* Reminders and tasks keep to their own statuses and outcomes.
KindsOK ==
    /\ \A i \in Reminders : queue[i].status \in ReminderStatus
    /\ \A i \in Tasks : queue[i].status \in TaskStatus
    /\ \A i \in Ids : queue[i].status = "absent" => queue[i] = Absent
    /\ \A b \in Bots : \A r \in results[b] :
          /\ r.id \in Reminders => r.outcome \in {"sent", "pending"}
          /\ r.id \in Tasks => r.outcome \in {"pending", "dispatched", "error"}

\* A bot between two cycles holds nothing; a cycle is first about reminders,
\* then about tasks, and has at most one claim of an entry.
BatchOK ==
    \A b \in Bots :
       /\ phase[b] \in {"idle", "down"} => todo[b] = {} /\ results[b] = {}
       /\ phase[b] = "reminders" => \A r \in results[b] : r.id \in Reminders
       /\ phase[b] = "tasks" => /\ \A c \in todo[b] : c.id \in Tasks
                                /\ \A r \in results[b] : r.id \in Tasks
       /\ \A c, d \in todo[b] : c.id = d.id => c = d

\* A claim is in the hands of one bot, to dispatch or to reconcile.
ClaimsApart ==
    /\ \A b \in Bots : Unsent(b) \cap Undecided(b) = {}
    /\ \A a, b \in Bots : a # b => InHands(a) \cap InHands(b) = {}

\* Every token in the queue or in a bot's hands was issued.
TokensOK ==
    /\ \A i \in Ids : queue[i].token <= issued[i]
    /\ \A b \in Bots : \A c \in todo[b] : c.token <= issued[c.id]
    /\ \A b \in Bots : \A r \in results[b] : r.token <= issued[r.id]

\* Only a claimed entry has a token, or one canceled by name while it was
\* claimed; only a canceled entry is tagged with a closing attempt.
EntryOK(e) ==
    /\ e.token # NoToken => /\ e.status \in {"sending", "dispatching", "canceled"}
                            /\ e.closing = NoClosing
    /\ e.status # "canceled" => e.closing = NoClosing

\* What a bot is about to report happened.
ReportsOK ==
    /\ \A i \in Ids : EntryOK(queue[i])
    /\ \A b \in Bots : \A r \in results[b] :
          /\ r.outcome = "sent" => sends[r.id] >= 1
          /\ r.outcome = "dispatched" => starts[r.id] >= 1

\* A reminder's attempts are its claims.
AttemptsOK ==
    \A i \in Reminders : /\ queue[i].attempts = issued[i]
                         /\ issued[i] <= MaxReminderAttempts

\* The effects of an entry and the bots that may still add one.
Outstanding(i) == {b \in Bots : \E c \in todo[b] : c.id = i}
BudgetOK ==
    \A i \in Ids : Effects[i] + Cardinality(Outstanding(i)) <= issued[i]

Inv ==
    /\ TypeOK /\ KindsOK /\ BatchOK /\ TokensOK /\ ClaimsApart
    /\ ReportsOK /\ SettledTruthfully /\ AttemptsOK /\ BudgetOK

-----------------------------------------------------------------------------
(***************************************************************************)
(* Operators over one entry.                                                *)
(***************************************************************************)

(* _next_run_after returns a number, strictly in the future, whatever the   *)
(* overdue time was.                                                        *)
LEMMA NextRunAfterFuture ==
    ASSUME NEW w \in Int, NEW n \in Nat, n > 0
    PROVE  NextRunAfter(w, n) \in Int /\ NextRunAfter(w, n) > 0
<1>1. CASE w > 0
    BY <1>1 DEF NextRunAfter
<1>2. CASE ~(w > 0)
    <2>1. (-w) % n \in 0..(n - 1)
        OBVIOUS
    <2> QED
        BY <1>2, <2>1 DEF NextRunAfter
<1> QED
    BY <1>1, <1>2

(* What each operation makes of one entry is an entry.                      *)
LEMMA EntryOperators ==
    ASSUME NEW e \in Entry
    PROVE  /\ ClearClaim(e) \in Entry
           /\ ResetStale(e) \in Entry
           /\ Aged(e) \in Entry
           /\ \A k \in Nat, s \in Claimed : Reserve(e, k, s) \in Entry
<1> DEFINE Ages == 0..(ClaimTimeout + 1)
<1>0. 0 \in Ages /\ \A a \in Ages : a <= ClaimTimeout => a + 1 \in Ages
    BY TimesAssumption
<1>1. \A a \in Ages, k \in Nat : [e EXCEPT !.token = k, !.age = a] \in Entry
    BY DEF Entry
<1>2. ClearClaim(e) \in Entry
    BY <1>0, <1>1 DEF ClearClaim
<1>3. ResetStale(e) \in Entry
    BY <1>2 DEF ResetStale, Entry, ReminderStatus
<1>4. \A w \in Int, a \in Ages : [e EXCEPT !.wait = w, !.age = a] \in Entry
    BY DEF Entry
<1>5. e.wait \in Int /\ e.wait - 1 \in Int /\ e.age \in Ages
    BY DEF Entry
<1>6. Aged(e) \in Entry
    BY <1>0, <1>4, <1>5 DEF Aged
<1>7. \A k \in Nat, s \in Claimed :
         [e EXCEPT !.status = s, !.token = k, !.age = 0] \in Entry
    BY <1>0 DEF Entry, Claimed, ReminderStatus, TaskStatus
<1> HIDE DEF Ages
<1> QED
    BY <1>2, <1>3, <1>6, <1>7 DEF Reserve

LEMMA AfterClaimType ==
    ASSUME TypeOK, NEW i \in Ids
    PROVE  AfterClaim(i) \in Entry
<1> DEFINE e == ResetStale(queue[i])
<1>1. e \in Entry
    BY EntryOperators DEF TypeOK
<1>2. issued[i] + 1 \in Nat
    BY DEF TypeOK
<1>3. /\ Reserve(e, issued[i] + 1, "sending") \in Entry
      /\ Reserve(e, issued[i] + 1, "dispatching") \in Entry
    BY <1>1, <1>2, EntryOperators DEF Claimed
<1>4. [Reserve(e, issued[i] + 1, "sending") EXCEPT !.attempts = @ + 1] \in Entry
    BY <1>3 DEF Entry
<1>5. [e EXCEPT !.status = "failed"] \in Entry
    BY <1>1 DEF Entry, ReminderStatus
<1> QED
    BY <1>1, <1>3, <1>4, <1>5 DEF AfterClaim

LEMMA ReconciledType ==
    ASSUME TypeOK, NEW b \in Bots, NEW i \in Ids, Owns(b, i)
    PROVE  /\ Outcome(b, i) \in {"sent", "pending", "dispatched", "error"}
           /\ ReconciledReminder(queue[i], Outcome(b, i)) \in Entry
           /\ i \in Tasks => ReconciledTask(queue[i], Outcome(b, i), Interval[i]) \in Entry
<1>1. PICK r \in results[b] : r.id = i /\ r.token = queue[i].token
    BY DEF Owns
<1>2. \E r0 \in results[b] : /\ r0.id = i /\ r0.token = queue[i].token
                             /\ Outcome(b, i) = r0.outcome
    BY <1>1 DEF Outcome
<1>3. Outcome(b, i) \in {"sent", "pending", "dispatched", "error"}
    BY <1>2 DEF TypeOK, Results
<1>4. ClearClaim(queue[i]) \in Entry /\ queue[i] \in Entry
    BY EntryOperators DEF TypeOK
<1>5. ReconciledReminder(queue[i], Outcome(b, i)) \in Entry
    BY <1>4 DEF ReconciledReminder, Entry, ReminderStatus
<1>6. ASSUME i \in Tasks
      PROVE  ReconciledTask(queue[i], Outcome(b, i), Interval[i]) \in Entry
    <2>1. CASE Interval[i] > 0
        <3>1. NextRunAfter(queue[i].wait, Interval[i]) \in Int
            BY <1>4, <1>6, <2>1, NextRunAfterFuture, TasksAssumption DEF Entry
        <3> QED
            BY <1>3, <1>4, <1>6, <3>1 DEF ReconciledTask, Entry, ReminderStatus, TaskStatus
    <2>2. CASE ~(Interval[i] > 0)
        BY <1>3, <1>4, <1>6, <2>2 DEF ReconciledTask, Entry, ReminderStatus, TaskStatus
    <2> QED
        BY <2>1, <2>2
<1> QED
    BY <1>3, <1>5, <1>6

-----------------------------------------------------------------------------
(***************************************************************************)
(* The invariant holds initially.                                           *)
(***************************************************************************)

LEMMA InitInv == Init => Inv
<1> SUFFICES ASSUME Init PROVE Inv
    OBVIOUS
<1> USE DEF Init
<1>1. Absent \in Entry
    BY TimesAssumption DEF Absent, Entry, ReminderStatus
<1>2. TypeOK
    BY <1>1 DEF TypeOK
<1>3. KindsOK /\ BatchOK /\ ReportsOK /\ SettledTruthfully
    BY DEF KindsOK, BatchOK, ReportsOK, EntryOK, SettledTruthfully, Absent, Ids,
           ReminderStatus, TaskStatus
<1>4. TokensOK /\ ClaimsApart
    BY DEF TokensOK, ClaimsApart, InHands, Unsent, Undecided, Absent
<1>5. AttemptsOK
    BY LimitsAssumption DEF AttemptsOK, Absent, Ids
<1>6. BudgetOK
    <2> SUFFICES ASSUME NEW i \in Ids
                 PROVE  Effects[i] + Cardinality(Outstanding(i)) <= issued[i]
        BY DEF BudgetOK
    <2>1. Outstanding(i) = {}
        BY DEF Outstanding
    <2>2. Effects[i] = 0
        BY DEF Effects, Ids
    <2> QED
        BY <2>1, <2>2, FS_EmptySet
<1> QED
    BY <1>2, <1>3, <1>4, <1>5, <1>6 DEF Inv

-----------------------------------------------------------------------------
(***************************************************************************)
(* Steps that change nothing but the queue, and leave every claim alone:    *)
(* additions, cancellations, restorations and the clock.                    *)
(***************************************************************************)

Benign(i, e, f) ==
    /\ EntryOK(e) => EntryOK(f)
    /\ f.token = e.token
    /\ f.attempts = e.attempts
    /\ \/ f.status = e.status /\ e.status \notin {"absent", "sent", "failed", "dispatched"}
             /\ f.closing \in {e.closing, NoClosing}
       \/ f = e
       \/ f.status = "pending" /\ e.status = "absent"
       \/ f.status = "pending" /\ e.status = "canceled" /\ e.closing # NoClosing
       \/ /\ f.status = "canceled" /\ i \in Tasks /\ e.status \in {"pending", "dispatching", "error"}
          /\ f.closing # NoClosing => e.status = "pending"

QuietStep ==
    /\ TypeOK'
    /\ UNCHANGED <<issued, phase, todo, results, sends, starts, resets, overdue>>
    /\ \A i \in Ids : Benign(i, queue[i], queue'[i])

LEMMA QuietInv ==
    ASSUME Inv, QuietStep
    PROVE  Inv'
<1> USE DEF Inv, QuietStep, Benign
<1>1. KindsOK'
    BY IdsAssumption DEF KindsOK, Ids, ReminderStatus, TaskStatus, Absent
<1>2. BatchOK' /\ ClaimsApart'
    BY DEF BatchOK, ClaimsApart, InHands, Unsent, Undecided
<1>3. TokensOK'
    BY DEF TokensOK
<1>4. ReportsOK'
    BY DEF ReportsOK
<1>5. SettledTruthfully'
    BY DEF SettledTruthfully, Ids
<1>6. AttemptsOK'
    BY DEF AttemptsOK, Ids
<1>7. BudgetOK'
    BY DEF BudgetOK, Outstanding, Effects
<1> QED
    BY <1>1, <1>2, <1>3, <1>4, <1>5, <1>6, <1>7

LEMMA AddQuiet ==
    ASSUME Inv, NEW i \in Ids, NEW w \in Delays,
           AddReminder(i, w) \/ AddTask(i, w)
    PROVE  QuietStep
<1> DEFINE new == [Absent EXCEPT !.status = "pending", !.wait = w]
<1>1. /\ queue[i] = Absent
      /\ queue' = [queue EXCEPT ![i] = new]
      /\ UNCHANGED <<issued, phase, todo, results, closing, sends, starts, resets, overdue>>
    BY DEF AddReminder, AddTask, Inv, KindsOK, cycle, history
<1>2. new \in Entry
    <2>1. Absent \in Entry /\ w \in Int
        BY TimesAssumption DEF Absent, Entry, ReminderStatus
    <2> QED
        BY <2>1 DEF Entry, ReminderStatus
<1>3. TypeOK'
    BY <1>1, <1>2 DEF Inv, TypeOK
<1>4. \A j \in Ids : Benign(j, queue[j], queue'[j])
    BY <1>1 DEF Benign, EntryOK, Absent, Inv, TypeOK
<1> QED
    BY <1>1, <1>3, <1>4 DEF QuietStep

LEMMA LifecycleQuiet ==
    ASSUME Inv,
           \/ \E b \in Bots, x \in Closings :
                 \/ CancelTasksForAgentFile(b, x)
                 \/ CloseWorkspaceSucceeds(b, x)
                 \/ \E excluded \in SUBSET TaskNames : RestoreTasksCanceled(b, x, excluded)
           \/ \E n \in TaskNames : CancelTaskByName(n)
    PROVE  QuietStep
<1> USE DEF Inv, cycle, history
<1>0. \A e \in Entry, y \in Closings \cup {NoClosing} :
         /\ [e EXCEPT !.status = "canceled", !.closing = y] \in Entry
         /\ [e EXCEPT !.status = "canceled"] \in Entry
         /\ \A s \in {e.status, "pending"} : [e EXCEPT !.status = s, !.closing = y] \in Entry
    BY DEF Entry, ReminderStatus, TaskStatus
<1>1. ASSUME NEW b \in Bots, NEW x \in Closings, CancelTasksForAgentFile(b, x)
      PROVE  QuietStep
    <2>1. TypeOK'
        BY <1>0, <1>1 DEF CancelTasksForAgentFile, TypeOK
    <2>2. \A j \in Ids : Benign(j, queue[j], queue'[j])
        <3> SUFFICES ASSUME NEW j \in Ids PROVE Benign(j, queue[j], queue'[j])
            OBVIOUS
        <3>1. \/ queue'[j] = queue[j]
              \/ /\ j \in Tasks /\ queue[j].status = "pending"
                 /\ queue'[j] = [queue[j] EXCEPT !.status = "canceled", !.closing = x]
            BY <1>1 DEF CancelTasksForAgentFile
        <3>2. queue[j] \in Entry
            BY DEF TypeOK
        <3> QED
            BY <3>1, <3>2, IdsAssumption DEF Benign, EntryOK, Entry
    <2> QED
        BY <1>1, <2>1, <2>2 DEF QuietStep, CancelTasksForAgentFile
<1>2. ASSUME NEW b \in Bots, NEW x \in Closings, CloseWorkspaceSucceeds(b, x)
      PROVE  QuietStep
    <2>1. TypeOK'
        BY <1>2 DEF CloseWorkspaceSucceeds, TypeOK
    <2>2. \A j \in Ids : Benign(j, queue[j], queue'[j])
        BY <1>2 DEF CloseWorkspaceSucceeds, Benign
    <2> QED
        BY <1>2, <2>1, <2>2 DEF QuietStep, CloseWorkspaceSucceeds
<1>3. ASSUME NEW b \in Bots, NEW x \in Closings, NEW excluded \in SUBSET TaskNames,
             RestoreTasksCanceled(b, x, excluded)
      PROVE  QuietStep
    <2>1. TypeOK'
        BY <1>0, <1>3 DEF RestoreTasksCanceled, TypeOK
    <2>2. \A j \in Ids : Benign(j, queue[j], queue'[j])
        <3> SUFFICES ASSUME NEW j \in Ids PROVE Benign(j, queue[j], queue'[j])
            OBVIOUS
        <3>1. \/ queue'[j] = queue[j]
              \/ /\ queue[j].status = "canceled" /\ queue[j].closing = x
                 /\ \E t \in {"canceled", "pending"} :
                       queue'[j] = [queue[j] EXCEPT !.status = t, !.closing = NoClosing]
            BY <1>3 DEF RestoreTasksCanceled
        <3>2. queue[j] \in Entry
            BY DEF TypeOK
        <3> QED
            BY <3>1, <3>2, IdsAssumption DEF Benign, EntryOK, Entry
    <2> QED
        BY <1>3, <2>1, <2>2 DEF QuietStep, RestoreTasksCanceled
<1>4. ASSUME NEW n \in TaskNames, CancelTaskByName(n)
      PROVE  QuietStep
    <2>1. TypeOK'
        BY <1>0, <1>4 DEF CancelTaskByName, TypeOK
    <2>2. \A j \in Ids : Benign(j, queue[j], queue'[j])
        <3> SUFFICES ASSUME NEW j \in Ids PROVE Benign(j, queue[j], queue'[j])
            OBVIOUS
        <3>1. \/ queue'[j] = queue[j]
              \/ /\ j \in Tasks /\ queue[j].status \notin {"absent", "canceled", "dispatched"}
                 /\ queue'[j] = [queue[j] EXCEPT !.status = "canceled"]
            BY <1>4 DEF CancelTaskByName
        <3>2. /\ queue[j] \in Entry /\ EntryOK(queue[j])
              /\ j \in Tasks => queue[j].status \in TaskStatus
            BY DEF TypeOK, KindsOK, ReportsOK
        <3> QED
            BY <3>1, <3>2 DEF Benign, EntryOK, Entry, TaskStatus
    <2> QED
        BY <1>4, <2>1, <2>2 DEF QuietStep, CancelTaskByName
<1> QED
    BY <1>1, <1>2, <1>3, <1>4

LEMMA TickQuiet ==
    ASSUME Inv, Tick
    PROVE  QuietStep
<1> USE DEF Inv, Tick, cycle, history
<1>1. TypeOK'
    BY EntryOperators DEF TypeOK
<1>2. \A j \in Ids : Benign(j, queue[j], queue'[j])
    <2> SUFFICES ASSUME NEW j \in Ids PROVE Benign(j, queue[j], Aged(queue[j]))
        OBVIOUS
    <2>1. queue[j] \in Entry /\ (queue[j].status = "absent" => queue[j] = Absent)
        BY DEF TypeOK, KindsOK
    <2>2. /\ Aged(queue[j]).status = queue[j].status
          /\ Aged(queue[j]).token = queue[j].token
          /\ Aged(queue[j]).attempts = queue[j].attempts
          /\ Aged(queue[j]).closing = queue[j].closing
        BY <2>1 DEF Aged, Entry
    <2>3. queue[j].status \in {"absent", "sent", "failed", "dispatched"}
             => Aged(queue[j]) = queue[j]
        BY <2>1 DEF Aged, Claimed, Entry
    <2> QED
        BY <2>2, <2>3 DEF Benign, EntryOK
<1> QED
    BY <1>1, <1>2 DEF QuietStep

-----------------------------------------------------------------------------
(***************************************************************************)
(* Steps of a cycle.                                                        *)
(***************************************************************************)

\* A bot whose batch is thrown away: a crash, an abandoned cycle; and a boot.
LEMMA DropStep ==
    ASSUME Inv, NEW b \in Bots, AbandonBatch(b) \/ Crash(b) \/ Boot(b)
    PROVE  Inv'
<1> USE DEF Inv
<1>1. /\ UNCHANGED <<queue, issued, sends, starts, resets, overdue>>
      /\ todo' = [todo EXCEPT ![b] = {}]
      /\ results' = [results EXCEPT ![b] = {}]
      /\ phase' \in {[phase EXCEPT ![b] = "idle"], [phase EXCEPT ![b] = "down"]}
    BY DEF AbandonBatch, Crash, Boot, history, TypeOK, BatchOK
<1>2. closing' \in [Closings -> {"unused", "committed", "restored", "interrupted"} \cup Bots]
    BY DEF AbandonBatch, Crash, Boot, TypeOK
<1>3. TypeOK'
    BY <1>1, <1>2 DEF TypeOK
<1>4. \A a \in Bots : todo'[a] \subseteq todo[a] /\ results'[a] \subseteq results[a]
    BY <1>1 DEF TypeOK
<1>5. KindsOK'
    BY <1>1, <1>4 DEF KindsOK
<1>6. BatchOK'
    BY <1>1, <1>4 DEF BatchOK, TypeOK
<1>7. TokensOK' /\ ReportsOK'
    BY <1>1, <1>4 DEF TokensOK, ReportsOK
<1>8. ClaimsApart'
    BY <1>1, <1>4 DEF ClaimsApart, InHands, Unsent, Undecided
<1>9. SettledTruthfully' /\ AttemptsOK'
    BY <1>1 DEF SettledTruthfully, AttemptsOK
<1>10. BudgetOK'
    <2> SUFFICES ASSUME NEW i \in Ids
                 PROVE  (Effects[i] + Cardinality(Outstanding(i)) <= issued[i])'
        BY DEF BudgetOK
    <2>1. Outstanding(i)' \subseteq Outstanding(i)
        BY <1>4 DEF Outstanding
    <2>2. IsFiniteSet(Outstanding(i))
        BY BotsAssumption, FS_Subset DEF Outstanding
    <2>3. /\ Cardinality(Outstanding(i)') \in Nat /\ Cardinality(Outstanding(i)) \in Nat
          /\ Cardinality(Outstanding(i)') <= Cardinality(Outstanding(i))
        BY <2>1, <2>2, FS_Subset, FS_CardinalityType
    <2>4. Effects'[i] = Effects[i] /\ Effects[i] \in Nat
        BY <1>1 DEF Effects, TypeOK, Ids
    <2>5. Effects[i] + Cardinality(Outstanding(i)) <= issued[i]
        BY DEF BudgetOK
    <2> QED
        BY <1>1, <2>3, <2>4, <2>5 DEF TypeOK
<1> QED
    BY <1>3, <1>5, <1>6, <1>7, <1>8, <1>9, <1>10
\* A claim dealt with: it goes from todo to results, with at most one effect.
LEMMA DispatchStep ==
    ASSUME Inv, NEW b \in Bots, NEW c \in todo[b],
           \/ SendReminder(b, c)
           \/ SendReminderUnconfirmed(b, c)
           \/ SkipLockedTask(b, c)
           \/ SpawnAgentTask(b, c)
           \/ SpawnAgentTaskFails(b, c)
    PROVE  Inv'
<1> USE DEF Inv
<1>0. c \in Claims /\ c.id \in Ids /\ c.token \in Nat \ {0}
    BY DEF TypeOK, Claims
<1>1. PICK o \in {"sent", "pending", "dispatched", "error"} :
         /\ Handled(b, c, o)
         /\ \/ /\ phase[b] = "reminders" /\ c.id \in Reminders /\ UNCHANGED starts
               /\ o \in {"sent", "pending"}
               /\ \E k \in {0, 1} : /\ sends' = [sends EXCEPT ![c.id] = @ + k]
                                    /\ o = "sent" => k = 1
            \/ /\ phase[b] = "tasks" /\ c.id \in Tasks /\ UNCHANGED sends
               /\ o \in {"pending", "dispatched", "error"}
               /\ \E k \in {0, 1} : /\ starts' = [starts EXCEPT ![c.id] = @ + k]
                                    /\ o = "dispatched" => k = 1
    <2>1. CASE SendReminder(b, c) \/ SendReminderUnconfirmed(b, c)
        BY <2>1 DEF SendReminder, SendReminderUnconfirmed
    <2>2. CASE SkipLockedTask(b, c)
        <3>1. c.id \in Tasks /\ starts' = [starts EXCEPT ![c.id] = @ + 0]
            BY <2>2 DEF SkipLockedTask, BatchOK, TypeOK, history
        <3> QED
            BY <2>2, <3>1 DEF SkipLockedTask, history
    <2>3. CASE SpawnAgentTask(b, c) \/ SpawnAgentTaskFails(b, c)
        BY <2>3 DEF SpawnAgentTask, SpawnAgentTaskFails, BatchOK
    <2> QED
        BY <2>1, <2>2, <2>3
<1> DEFINE r == [id |-> c.id, token |-> c.token, outcome |-> o]
<1>2. /\ UNCHANGED <<queue, issued, phase, closing, resets, overdue>>
      /\ todo' = [todo EXCEPT ![b] = @ \ {c}]
      /\ results' = [results EXCEPT ![b] = @ \cup {r}]
    BY <1>1 DEF SendReminder, SendReminderUnconfirmed, SkipLockedTask, SpawnAgentTask,
           SpawnAgentTaskFails, Handled, history
<1>3. PICK k \in {0, 1} :
         \/ /\ phase[b] = "reminders" /\ c.id \in Reminders /\ UNCHANGED starts
            /\ o \in {"sent", "pending"}
            /\ sends' = [sends EXCEPT ![c.id] = @ + k] /\ (o = "sent" => k = 1)
         \/ /\ phase[b] = "tasks" /\ c.id \in Tasks /\ UNCHANGED sends
            /\ o \in {"pending", "dispatched", "error"}
            /\ starts' = [starts EXCEPT ![c.id] = @ + k] /\ (o = "dispatched" => k = 1)
    BY <1>1
<1>4. TypeOK'
    BY <1>0, <1>2, <1>3 DEF TypeOK, Results
<1>5. \A a \in Bots : /\ todo'[a] \subseteq todo[a]
                      /\ a # b => results'[a] = results[a]
                      /\ results'[a] \subseteq results[a] \cup {r}
                      /\ c \notin todo'[b]
    BY <1>2 DEF TypeOK
<1>6. KindsOK'
    BY <1>2, <1>3, <1>5, IdsAssumption DEF KindsOK
<1>7. BatchOK'
    BY <1>2, <1>3, <1>5, IdsAssumption DEF BatchOK
<1>8. TokensOK'
    BY <1>0, <1>2, <1>5 DEF TokensOK
<1>9. /\ \A i \in Reminders : sends'[i] >= sends[i]
      /\ \A i \in Tasks : starts'[i] >= starts[i]
    BY <1>3 DEF TypeOK
<1>10. ReportsOK'
    <2>1. (o = "sent" => sends'[c.id] >= 1) /\ (o = "dispatched" => starts'[c.id] >= 1)
        BY <1>3 DEF TypeOK
    <2>2. \A a \in Bots : \A q \in results[a] :
             /\ q.outcome = "sent" => sends'[q.id] >= 1
             /\ q.outcome = "dispatched" => starts'[q.id] >= 1
        <3> SUFFICES ASSUME NEW a \in Bots, NEW q \in results[a]
                     PROVE  /\ q.outcome = "sent" => sends'[q.id] >= 1
                            /\ q.outcome = "dispatched" => starts'[q.id] >= 1
            OBVIOUS
        <3>1. q.id \in Ids /\ q.outcome \in {"sent", "pending", "dispatched", "error"}
            BY DEF TypeOK, Results
        <3>2. CASE q.id \in Reminders
            <4>1. sends[q.id] \in Nat /\ sends'[q.id] \in Nat /\ sends'[q.id] >= sends[q.id]
                BY <1>4, <1>9, <3>2 DEF TypeOK
            <4>2. q.outcome \in {"sent", "pending"} /\ (q.outcome = "sent" => sends[q.id] >= 1)
                BY <3>2 DEF KindsOK, ReportsOK
            <4> QED
                BY <4>1, <4>2
        <3>3. CASE q.id \in Tasks
            <4>1. starts[q.id] \in Nat /\ starts'[q.id] \in Nat /\ starts'[q.id] >= starts[q.id]
                BY <1>4, <1>9, <3>3 DEF TypeOK
            <4>2. q.outcome # "sent" /\ (q.outcome = "dispatched" => starts[q.id] >= 1)
                BY <3>3 DEF KindsOK, ReportsOK
            <4> QED
                BY <4>1, <4>2
        <3> QED
            BY <3>1, <3>2, <3>3 DEF Ids
    <2> QED
        BY <1>2, <1>5, <2>1, <2>2 DEF ReportsOK
<1>11. ClaimsApart'
    <2>1. Undecided(b)' = Undecided(b) \cup {c}
        <3>1. c = [id |-> r.id, token |-> r.token]
            BY <1>0 DEF Claims
        <3>2. results'[b] = results[b] \cup {r}
            BY <1>2 DEF TypeOK
        <3> HIDE DEF r
        <3> QED
            BY <3>1, <3>2 DEF Undecided
    <2>2. \A a \in Bots : a # b => Undecided(a)' = Undecided(a)
        BY <1>5 DEF Undecided
    <2>3. \A a \in Bots : a # b => todo'[a] = todo[a]
        BY <1>2 DEF TypeOK
    <2>4. todo'[b] = todo[b] \ {c}
        BY <1>2 DEF TypeOK
    <2> QED
        BY <2>1, <2>2, <2>3, <2>4 DEF ClaimsApart, InHands, Unsent
<1>12. SettledTruthfully' /\ AttemptsOK'
    <2>1. \A i \in Reminders : sends[i] \in Nat /\ sends'[i] \in Nat
        BY <1>4 DEF TypeOK
    <2>2. \A i \in Tasks : starts[i] \in Nat /\ starts'[i] \in Nat
        BY <1>4 DEF TypeOK
    <2> QED
        BY <1>2, <1>9, <2>1, <2>2 DEF SettledTruthfully, AttemptsOK
<1>13. BudgetOK'
    <2> SUFFICES ASSUME NEW i \in Ids
                 PROVE  (Effects[i] + Cardinality(Outstanding(i)) <= issued[i])'
        BY DEF BudgetOK
    <2>1. /\ IsFiniteSet(Outstanding(i)) /\ Cardinality(Outstanding(i)) \in Nat
          /\ Effects[i] \in Nat /\ issued[i] \in Nat
          /\ Effects[i] + Cardinality(Outstanding(i)) <= issued[i]
        BY BotsAssumption, FS_Subset, FS_CardinalityType
           DEF Outstanding, BudgetOK, Effects, TypeOK, Ids
    <2>2. CASE i # c.id
        <3>1. Outstanding(i)' = Outstanding(i)
            BY <1>2, <2>2 DEF Outstanding, TypeOK
        <3>2. Effects'[i] = Effects[i]
            BY <1>3, <2>2 DEF Effects, TypeOK, Ids
        <3> QED
            BY <1>2, <2>1, <3>1, <3>2
    <2>3. CASE i = c.id
        <3>1. b \in Outstanding(i) /\ Outstanding(i)' = Outstanding(i) \ {b}
            BY <1>2, <2>3 DEF Outstanding, TypeOK, BatchOK
        <3>2. Cardinality(Outstanding(i)') = Cardinality(Outstanding(i)) - 1
            BY <2>1, <3>1, FS_RemoveElement
        <3>3. Effects'[i] <= Effects[i] + 1 /\ Effects'[i] \in Nat
            BY <1>3, <2>3, IdsAssumption DEF Effects, TypeOK, Ids
        <3> QED
            BY <1>2, <2>1, <3>2, <3>3
    <2> QED
        BY <2>2, <2>3
<1> QED
    BY <1>4, <1>6, <1>7, <1>8, <1>10, <1>11, <1>12, <1>13
\* A reconciliation: the entries the bot still owns lose their claim and take
\* the outcome; the batch is over.
LEMMA ReconcileStep ==
    ASSUME Inv, NEW b \in Bots,
           ReconcileReminderResults(b) \/ ReconcileTaskResults(b)
    PROVE  Inv'
<1> USE DEF Inv
<1> DEFINE Merged(i) ==
        /\ queue'[i] \in Entry
        /\ EntryOK(queue'[i])
        /\ \/ queue'[i] = queue[i]
           \/ /\ queue'[i].token = NoToken
              /\ queue'[i].attempts = queue[i].attempts
              /\ \E r \in results[b] :
                    /\ r.id = i /\ r.token = queue[i].token
                    /\ \/ /\ i \in Reminders
                          /\ queue'[i].status \in {"sent", "pending"}
                          /\ queue'[i].status = "sent" => r.outcome = "sent"
                       \/ /\ i \in Tasks
                          /\ queue'[i].status \in {"pending", "dispatched", "error"}
                          /\ queue'[i].status = "dispatched" => r.outcome = "dispatched"
<1>1. /\ UNCHANGED <<issued, todo, closing, sends, starts, resets, overdue>>
      /\ results' = [results EXCEPT ![b] = {}]
      /\ queue' \in [Ids -> Entry]
      /\ \/ phase[b] = "reminders" /\ phase' = [phase EXCEPT ![b] = "tasks"]
            /\ \A c \in todo[b] : c.id \in Tasks
         \/ phase[b] = "tasks" /\ phase' = [phase EXCEPT ![b] = "idle"] /\ todo[b] = {}
    <2>1. /\ UNCHANGED <<issued, todo, closing, sends, starts, resets, overdue>>
          /\ results' = [results EXCEPT ![b] = {}]
          /\ \/ phase[b] = "reminders" /\ phase' = [phase EXCEPT ![b] = "tasks"]
                /\ \A c \in todo[b] : c.id \in Tasks
             \/ phase[b] = "tasks" /\ phase' = [phase EXCEPT ![b] = "idle"] /\ todo[b] = {}
        BY DEF ReconcileReminderResults, ReconcileTaskResults, history, TypeOK, Claims, Ids
    <2>2. queue' \in [Ids -> Entry]
        BY ReconciledType DEF ReconcileReminderResults, ReconcileTaskResults, TypeOK
    <2> QED
        BY <2>1, <2>2
<1>2. \A i \in Ids : Merged(i)
    <2> SUFFICES ASSUME NEW i \in Ids PROVE Merged(i)
        OBVIOUS
    <2>0. queue[i] \in Entry /\ queue'[i] \in Entry /\ EntryOK(queue[i])
        BY <1>1 DEF TypeOK, ReportsOK
    <2>1. CASE ~Owns(b, i)
        BY <2>0, <2>1 DEF ReconcileReminderResults, ReconcileTaskResults
    <2>2. CASE Owns(b, i)
        <3>1. PICK r \in results[b] : /\ r.id = i /\ r.token = queue[i].token
                                      /\ Outcome(b, i) = r.outcome
            BY <2>2 DEF Owns, Outcome
        <3>0. queue[i].closing = NoClosing
            BY <2>0, <3>1 DEF EntryOK, TypeOK, Results
        <3>2. CASE i \in Reminders /\ ReconcileReminderResults(b)
            <4>1. queue'[i] = ReconciledReminder(queue[i], r.outcome)
                BY <2>2, <3>1, <3>2 DEF ReconcileReminderResults
            <4> QED
                BY <2>0, <3>0, <3>1, <3>2, <4>1 DEF ReconciledReminder, ClearClaim, Entry, EntryOK
        <3>3. CASE i \in Tasks /\ ReconcileTaskResults(b)
            <4>1. queue'[i] = ReconciledTask(queue[i], r.outcome, Interval[i])
                BY <2>2, <3>1, <3>3 DEF ReconcileTaskResults
            <4>2. r.outcome \in {"pending", "dispatched", "error"}
                BY <3>1, <3>3 DEF KindsOK
            <4> QED
                BY <2>0, <3>0, <3>1, <3>3, <4>1, <4>2 DEF ReconciledTask, ClearClaim, Entry, EntryOK
        <3>4. CASE i \notin Reminders /\ ReconcileReminderResults(b)
            BY <2>0, <3>4 DEF ReconcileReminderResults
        <3>5. CASE i \notin Tasks /\ ReconcileTaskResults(b)
            BY <2>0, <3>5 DEF ReconcileTaskResults
        <3> QED
            BY <3>2, <3>3, <3>4, <3>5
    <2> QED
        BY <2>1, <2>2
<1> HIDE DEF Merged
<1>3. TypeOK'
    BY <1>1 DEF TypeOK
<1>4. \A a \in Bots : results'[a] \subseteq results[a]
    BY <1>1 DEF TypeOK
<1>5. KindsOK'
    <2>1. \A i \in Ids : queue'[i] = queue[i] \/
             /\ i \in Reminders => queue'[i].status \in {"sent", "pending"}
             /\ i \in Tasks => queue'[i].status \in {"pending", "dispatched", "error"}
        BY <1>2, IdsAssumption DEF Merged
    <2> QED
        BY <1>4, <2>1 DEF KindsOK, Ids, ReminderStatus, TaskStatus, Absent
<1>6. BatchOK'
    BY <1>1, <1>4 DEF BatchOK, TypeOK
<1>7. TokensOK'
    <2>1. \A i \in Ids : queue'[i].token = NoToken \/ queue'[i].token = queue[i].token
        BY <1>2 DEF Merged
    <2> QED
        BY <1>1, <1>4, <2>1 DEF TokensOK, TypeOK
<1>8. ReportsOK'
    <2>1. \A i \in Ids : EntryOK(queue'[i])
        BY <1>2 DEF Merged
    <2> QED
        BY <1>1, <1>4, <2>1 DEF ReportsOK
<1>9. ClaimsApart'
    BY <1>1, <1>4 DEF ClaimsApart, InHands, Unsent, Undecided
<1>10. SettledTruthfully'
    <2>1. ASSUME NEW i \in Reminders, queue'[i].status = "sent"
          PROVE  sends[i] >= 1
        <3>1. queue'[i] = queue[i] \/ \E r \in results[b] : r.id = i /\ r.outcome = "sent"
            BY <1>2, <2>1, IdsAssumption DEF Merged, Ids
        <3> QED
            BY <2>1, <3>1 DEF SettledTruthfully, ReportsOK
    <2>2. ASSUME NEW i \in Tasks, queue'[i].status = "dispatched"
          PROVE  starts[i] >= 1
        <3>1. queue'[i] = queue[i] \/ \E r \in results[b] : r.id = i /\ r.outcome = "dispatched"
            BY <1>2, <2>2, IdsAssumption DEF Merged, Ids
        <3> QED
            BY <2>2, <3>1 DEF SettledTruthfully, ReportsOK
    <2> QED
        BY <1>1, <2>1, <2>2 DEF SettledTruthfully
<1>11. AttemptsOK'
    <2>1. \A i \in Ids : queue'[i].attempts = queue[i].attempts
        BY <1>2 DEF Merged
    <2> QED
        BY <1>1, <2>1 DEF AttemptsOK, Ids
<1>12. BudgetOK'
    BY <1>1 DEF BudgetOK, Outstanding, Effects
<1> QED
    BY <1>3, <1>5, <1>6, <1>7, <1>8, <1>9, <1>10, <1>11, <1>12
(* What resetting a stale claim leaves of one entry.                        *)
LEMMA ResetEffect ==
    ASSUME NEW d \in Entry, EntryOK(d)
    PROVE  /\ ResetStale(d).attempts = d.attempts
           /\ \/ ResetStale(d) = d
              \/ /\ d.status \in Claimed
                 /\ ResetStale(d).status = "pending"
                 /\ ResetStale(d).token = NoToken
           /\ EntryOK(ResetStale(d))
<1>1. CASE IsStale(d)
    <2> DEFINE r == [ClearClaim(d) EXCEPT !.status = "pending"]
    <2>1. ResetStale(d) = r
        BY <1>1 DEF ResetStale
    <2>2. /\ r.status = "pending" /\ r.token = NoToken
          /\ r.attempts = d.attempts /\ r.closing = d.closing
        BY DEF Entry, ClearClaim
    <2>3. d.status \in Claimed
        BY <1>1 DEF IsStale
    <2>4. d.closing = NoClosing
        BY <2>3 DEF EntryOK, Claimed
    <2>5. EntryOK(r)
        BY <2>2, <2>4 DEF EntryOK
    <2> QED
        BY <2>1, <2>2, <2>3, <2>5
<1>2. CASE ~IsStale(d)
    BY <1>2 DEF ResetStale
<1> QED
    BY <1>1, <1>2

\* What the claim pass does to one entry.
Hit(i) ==
    /\ EntryOK(queue'[i])
    /\ queue'[i].token = issued[i] + 1
    /\ queue[i].status \in Claimed \cup {"pending"}
    /\ queue'[i].status \in Claimed
    /\ i \in Reminders => /\ queue'[i].status = "sending"
                          /\ queue'[i].attempts = queue[i].attempts + 1
                          /\ queue[i].attempts < MaxReminderAttempts
    /\ i \in Tasks => queue'[i].status = "dispatching"
Miss(i) ==
    /\ EntryOK(queue'[i])
    /\ queue'[i].attempts = queue[i].attempts
    /\ \/ queue'[i] = queue[i]
       \/ /\ queue'[i].token = NoToken
          /\ \/ queue[i].status \in Claimed /\ queue'[i].status = "pending"
             \/ i \in Reminders /\ queue'[i].status = "failed"
                /\ queue[i].status \in Claimed \cup {"pending"}

LEMMA ClaimEffect ==
    ASSUME Inv, NEW b \in Bots, ClaimDueEntries(b), NEW i \in Ids
    PROVE  (i \in ClaimedNow => Hit(i)) /\ (i \notin ClaimedNow => Miss(i))
<1> USE DEF Inv, ClaimDueEntries, Hit, Miss
<1> DEFINE N == ClaimedNow
<1> DEFINE e == ResetStale(queue[i])
<1>1. /\ e \in Entry /\ queue[i] \in Entry /\ issued[i] \in Nat
      /\ e.attempts = queue[i].attempts
      /\ \/ e = queue[i]
         \/ queue[i].status \in Claimed /\ e.status = "pending" /\ e.token = NoToken
      /\ EntryOK(e)
    <2>1. queue[i] \in Entry /\ issued[i] \in Nat
        BY DEF TypeOK
    <2>2. EntryOK(queue[i])
        BY DEF ReportsOK
    <2> HIDE DEF Inv, ClaimDueEntries, Hit, Miss
    <2>3. ResetStale(queue[i]) \in Entry
        BY <2>1, EntryOperators
    <2> QED
        BY <2>1, <2>2, <2>3, ResetEffect
<1>2. queue'[i] = AfterClaim(i)
    OBVIOUS
<1>3. CASE i \in Reminders
    <2>1. i \in N <=> ClaimsReminder(e)
        BY <1>3 DEF ClaimedNow
    <2>2. CASE i \in N
        <3>1. queue'[i] = [Reserve(e, issued[i] + 1, "sending") EXCEPT !.attempts = @ + 1]
            BY <1>2, <1>3, <2>1, <2>2 DEF AfterClaim
        <3>2. e.attempts < MaxReminderAttempts /\ e.status = "pending"
            BY <1>1, <2>1, <2>2, LimitsAssumption DEF ClaimsReminder, Expired, Due, Entry
        <3> QED
            BY <1>1, <1>3, <2>2, <3>1, <3>2, IdsAssumption DEF Reserve, Entry, Claimed, EntryOK
    <2>3. CASE i \notin N
        <3>1. queue'[i] = IF Due(e) THEN [e EXCEPT !.status = "failed"] ELSE e
            BY <1>2, <1>3, <2>1, <2>3 DEF AfterClaim
        <3>2. Due(e) => e.status = "pending"
            BY DEF Due
        <3>3. e.status = "pending" => e.token = NoToken
            BY <1>1 DEF EntryOK
        <3> HIDE DEF e
        <3> QED
            BY <1>1, <1>3, <2>3, <3>1, <3>2, <3>3 DEF Entry, EntryOK
    <2> QED
        BY <2>2, <2>3
<1>4. CASE i \notin Reminders
    <2>1. i \in N <=> ClaimsTask(e, issued[i])
        BY <1>4 DEF ClaimedNow
    <2>2. CASE i \in N
        <3>1. queue'[i] = Reserve(e, issued[i] + 1, "dispatching")
            BY <1>2, <1>4, <2>1, <2>2 DEF AfterClaim
        <3>2. e.status = "pending"
            BY <2>1, <2>2 DEF ClaimsTask, Due
        <3> QED
            BY <1>1, <1>4, <2>2, <3>1, <3>2 DEF Reserve, Entry, Claimed, EntryOK
    <2>3. CASE i \notin N
        <3>1. queue'[i] = e
            BY <1>2, <1>4, <2>1, <2>3 DEF AfterClaim
        <3> QED
            BY <1>1, <2>3, <3>1
    <2> QED
        BY <2>2, <2>3
<1> QED
    BY <1>3, <1>4

\* The claim pass: what is due gets a token never seen before, the bot gets
\* one claim for each, and nothing else changes hands.
LEMMA ClaimStep ==
    ASSUME Inv, NEW b \in Bots, ClaimDueEntries(b)
    PROVE  Inv'
<1> USE DEF Inv, ClaimDueEntries
<1> DEFINE New(i) == [id |-> i, token |-> issued[i] + 1]
           N == ClaimedNow
<1>1. /\ UNCHANGED <<results, closing, sends, starts>>
      /\ phase[b] = "idle" /\ phase' = [phase EXCEPT ![b] = "reminders"]
      /\ todo[b] = {} /\ results[b] = {}
      /\ todo' = [todo EXCEPT ![b] = {New(i) : i \in N}]
      /\ issued' = [i \in Ids |-> IF i \in N THEN issued[i] + 1 ELSE issued[i]]
      /\ N \subseteq Ids
    BY DEF BatchOK, ClaimedNow
<1>2. \A i \in Ids : (i \in N => Hit(i)) /\ (i \notin N => Miss(i))
    BY ClaimEffect
<1> HIDE DEF N, ClaimDueEntries
<1> USE DEF Hit, Miss
<1>3. TypeOK'
    <2>1. \A i \in Ids : AfterClaim(i) \in Entry
        BY AfterClaimType
    <2>2. {New(i) : i \in N} \subseteq Claims
        BY <1>1 DEF Claims, TypeOK
    <2>3. resets' \in [Ids -> Nat]
        BY DEF TypeOK, ClaimDueEntries
    <2>4. queue' \in [Ids -> Entry]
        BY <2>1 DEF ClaimDueEntries
    <2>5. overdue' \subseteq [id : Ids, token : Nat]
        <3>1. \A i \in Ids : queue[i].token \in Nat
            BY DEF TypeOK, Entry
        <3>2. StaleClaims \subseteq [id : Ids, token : Nat]
            BY <3>1 DEF StaleClaims
        <3> QED
            BY <3>2 DEF ClaimDueEntries, TypeOK
    <2> QED
        BY <1>1, <2>2, <2>3, <2>4, <2>5 DEF TypeOK
<1>4. \A a \in Bots : /\ a # b => todo'[a] = todo[a] /\ phase'[a] = phase[a]
                      /\ results'[a] = results[a]
                      /\ a = b => todo'[a] = {New(i) : i \in N} /\ phase'[a] = "reminders"
    BY <1>1 DEF TypeOK
<1>5. KindsOK'
    <2>1. \A i \in Reminders : queue'[i].status \in ReminderStatus
        BY <1>2 DEF KindsOK, Ids, ReminderStatus
    <2>2. \A i \in Tasks : queue'[i].status \in TaskStatus
        BY <1>2, IdsAssumption DEF KindsOK, Ids, TaskStatus
    <2>3. \A i \in Ids : queue'[i].status = "absent" => queue'[i] = queue[i]
        BY <1>2 DEF Claimed
    <2> QED
        BY <1>1, <2>1, <2>2, <2>3 DEF KindsOK, Absent
<1>6. BatchOK'
    <2>1. \A c, d \in todo'[b] : c.id = d.id => c = d
        BY <1>4
    <2> QED
        BY <1>1, <1>4, <2>1 DEF BatchOK
<1>7. /\ \A i \in Ids : issued[i] \in Nat /\ issued'[i] \in Nat /\ issued'[i] >= issued[i]
      /\ \A i \in N : issued'[i] = issued[i] + 1
    BY <1>1 DEF TypeOK
<1>8. TokensOK'
    <2>1. \A i \in Ids : queue'[i].token <= issued'[i]
        <3> SUFFICES ASSUME NEW i \in Ids PROVE queue'[i].token <= issued'[i]
            OBVIOUS
        <3>1. queue[i].token \in Nat /\ queue[i].token <= issued[i]
            BY DEF TokensOK, TypeOK, Entry
        <3> QED
            BY <1>2, <1>7, <3>1
    <2>2. \A a \in Bots : \A c \in todo'[a] : c.token <= issued'[c.id]
        <3> SUFFICES ASSUME NEW a \in Bots, NEW c \in todo'[a]
                     PROVE  c.token <= issued'[c.id]
            OBVIOUS
        <3>1. CASE a = b
            BY <1>1, <1>4, <1>7, <3>1
        <3>2. CASE a # b
            <4>1. c \in todo[a] /\ c.id \in Ids /\ c.token \in Nat /\ c.token <= issued[c.id]
                BY <1>4, <3>2 DEF TokensOK, TypeOK, Claims
            <4> QED
                BY <1>7, <4>1
        <3> QED
            BY <3>1, <3>2
    <2>3. \A a \in Bots : \A r \in results'[a] : r.token <= issued'[r.id]
        <3> SUFFICES ASSUME NEW a \in Bots, NEW r \in results[a]
                     PROVE  r.token <= issued'[r.id]
            BY <1>1
        <3>1. r.id \in Ids /\ r.token \in Nat /\ r.token <= issued[r.id]
            BY DEF TokensOK, TypeOK, Results
        <3> QED
            BY <1>7, <3>1
    <2> QED
        BY <2>1, <2>2, <2>3 DEF TokensOK
<1>9. ReportsOK'
    <2>1. \A i \in Ids : EntryOK(queue'[i])
        BY <1>2
    <2> QED
        BY <1>1, <2>1 DEF ReportsOK
\* The new tokens are larger than every token handed out before.
<1>10. ClaimsApart'
    <2>1. \A a \in Bots : Undecided(a)' = Undecided(a)
        BY <1>4 DEF Undecided
    <2>2. \A a \in Bots : \A c \in Unsent(a) \cup Undecided(a) :
             c.id \in Ids /\ c.token \in Nat /\ c.token <= issued[c.id]
        BY DEF Unsent, Undecided, TokensOK, TypeOK, Claims, Results
    <2>3. \A c \in todo'[b] : c.id \in Ids /\ c.token = issued[c.id] + 1
        BY <1>1, <1>4
    <2>4. \A a \in Bots : \A c \in todo'[b] : c \notin Unsent(a) \cup Undecided(a)
        BY <1>7, <2>2, <2>3
    <2>5. \A a \in Bots : a # b => Unsent(a)' = Unsent(a)
        BY <1>4 DEF Unsent
    <2>6. Unsent(b)' = todo'[b]
        BY DEF Unsent
    <2>7. Undecided(b) = {}
        BY <1>1 DEF Undecided
    <2> QED
        BY <2>1, <2>4, <2>5, <2>6, <2>7 DEF ClaimsApart, InHands
<1>11. SettledTruthfully'
    <2>1. \A i \in Ids : queue'[i].status \in {"sent", "dispatched"} => queue'[i] = queue[i]
        BY <1>2 DEF Claimed
    <2> QED
        BY <1>1, <2>1 DEF SettledTruthfully, Ids
<1>12. AttemptsOK'
    <2> SUFFICES ASSUME NEW i \in Reminders
                 PROVE  queue'[i].attempts = issued'[i] /\ issued'[i] <= MaxReminderAttempts
        BY DEF AttemptsOK
    <2>1. i \in Ids /\ queue[i].attempts = issued[i] /\ issued[i] <= MaxReminderAttempts
        BY DEF AttemptsOK, Ids
    <2>2. issued'[i] = IF i \in N THEN issued[i] + 1 ELSE issued[i]
        BY <1>1, <2>1
    <2> QED
        BY <1>2, <1>7, <2>1, <2>2, LimitsAssumption
<1>13. BudgetOK'
    <2> SUFFICES ASSUME NEW i \in Ids
                 PROVE  (Effects[i] + Cardinality(Outstanding(i)) <= issued[i])'
        BY DEF BudgetOK
    <2>1. /\ IsFiniteSet(Outstanding(i)) /\ Cardinality(Outstanding(i)) \in Nat
          /\ Effects[i] \in Nat /\ issued[i] \in Nat
          /\ Effects[i] + Cardinality(Outstanding(i)) <= issued[i]
          /\ b \notin Outstanding(i)
        BY <1>1, BotsAssumption, FS_Subset, FS_CardinalityType
           DEF Outstanding, BudgetOK, Effects, TypeOK, Ids
    <2>2. Effects'[i] = Effects[i]
        BY <1>1 DEF Effects
    <2>3. CASE i \in N
        <3>1. New(i) \in todo'[b] /\ New(i).id = i
            BY <1>4, <2>3
        <3>2. Outstanding(i)' = Outstanding(i) \cup {b}
            <4> HIDE DEF New
            <4> QED
                BY <1>4, <3>1 DEF Outstanding
        <3>3. Cardinality(Outstanding(i)') = Cardinality(Outstanding(i)) + 1
            BY <2>1, <3>2, FS_AddElement
        <3> QED
            BY <1>7, <2>1, <2>2, <2>3, <3>3
    <2>4. CASE i \notin N
        <3>1. Outstanding(i)' = Outstanding(i)
            BY <1>4, <2>1, <2>4 DEF Outstanding
        <3> QED
            BY <1>7, <2>1, <2>2, <3>1
    <2> QED
        BY <2>3, <2>4
<1> QED
    BY <1>3, <1>5, <1>6, <1>8, <1>9, <1>10, <1>11, <1>12, <1>13
-----------------------------------------------------------------------------
(***************************************************************************)
(* The invariant holds in every reachable state.                            *)
(***************************************************************************)

LEMMA NextInv == Inv /\ [Next]_vars => Inv'
<1> SUFFICES ASSUME Inv, [Next]_vars PROVE Inv'
    OBVIOUS
<1>1. CASE \E b \in Bots : Cycle(b)
    <2> PICK b \in Bots : Cycle(b)
        BY <1>1
    <2> QED
        BY ClaimStep, DispatchStep, ReconcileStep, DropStep DEF Cycle
<1>2. CASE \E b \in Bots : Crash(b) \/ Boot(b)
    BY <1>2, DropStep
<1>3. CASE User
    BY <1>3, AddQuiet, LifecycleQuiet, QuietInv DEF User, Ids
<1>4. CASE Tick
    BY <1>4, TickQuiet, QuietInv
<1>5. CASE UNCHANGED vars
    <2>1. QuietStep
        BY <1>5 DEF vars, QuietStep, Benign, Inv, TypeOK
    <2> QED
        BY <2>1, QuietInv
<1> QED
    BY <1>1, <1>2, <1>3, <1>4, <1>5 DEF Next

LEMMA Invariance == Spec => []Inv
<1>1. Init => Inv
    BY InitInv
<1>2. Inv /\ [Next]_vars => Inv'
    BY NextInv
<1> QED
    BY <1>1, <1>2, PTL DEF Spec

(* Every variable keeps its type.                                           *)
THEOREM TypeCorrect == Spec => []TypeOK
<1>1. Inv => TypeOK
    BY DEF Inv
<1> QED
    BY <1>1, Invariance, PTL

(* The queue never reports as sent or dispatched what did not happen.       *)
THEOREM ReportsAreTrue == Spec => []SettledTruthfully
<1>1. Inv => SettledTruthfully
    BY DEF Inv
<1> QED
    BY <1>1, Invariance, PTL

(* A reminder is delivered at most once per durable attempt and at most     *)
(* MAX_REMINDER_ATTEMPTS times in all, however often a bot crashes.         *)
THEOREM SendsAreBounded == Spec => []SendsWithinAttempts
<1>1. Inv => SendsWithinAttempts
    <2> SUFFICES ASSUME Inv, NEW i \in Reminders
                 PROVE  /\ sends[i] <= queue[i].attempts
                        /\ queue[i].attempts <= MaxReminderAttempts
        BY DEF SendsWithinAttempts
    <2>1. /\ Cardinality(Outstanding(i)) \in Nat /\ sends[i] \in Nat /\ issued[i] \in Nat
          /\ sends[i] + Cardinality(Outstanding(i)) <= issued[i]
        BY BotsAssumption, FS_Subset, FS_CardinalityType
           DEF Inv, Outstanding, BudgetOK, Effects, TypeOK, Ids
    <2> QED
        BY <2>1 DEF Inv, AttemptsOK
<1> QED
    BY <1>1, Invariance, PTL
-----------------------------------------------------------------------------
(***************************************************************************)
(* Every step, seen from the entries: a quiet step, a claim pass, a         *)
(* dispatch or a reconciliation.                                            *)
(***************************************************************************)

DispatchEffect ==
    /\ UNCHANGED <<queue, issued>>
    /\ \E j \in Ids, k \in {0, 1} :
          /\ Effects[j] < issued[j]
          /\ Effects'[j] = Effects[j] + k
          /\ \A i \in Ids \ {j} : Effects'[i] = Effects[i]

\* What a reconciliation makes of entry i.
Settled(i) ==
    \/ queue'[i] = queue[i]
    \/ /\ queue[i].status \in {"sending", "dispatching", "canceled"}
       /\ \/ i \in Reminders /\ queue'[i].status \in {"sent", "pending"}
          \/ i \in Tasks /\ queue'[i].status \in {"pending", "dispatched", "error"}

LEMMA DispatchEffectStep ==
    ASSUME Inv, NEW b \in Bots, NEW c \in todo[b],
           \/ SendReminder(b, c)
           \/ SendReminderUnconfirmed(b, c)
           \/ SkipLockedTask(b, c)
           \/ SpawnAgentTask(b, c)
           \/ SpawnAgentTaskFails(b, c)
    PROVE  DispatchEffect
<1> USE DEF Inv
<1>1. c.id \in Ids
    BY DEF TypeOK, Claims
<1>2. PICK k \in {0, 1} :
         \/ c.id \in Reminders /\ UNCHANGED starts /\ sends' = [sends EXCEPT ![c.id] = @ + k]
         \/ c.id \in Tasks /\ UNCHANGED sends /\ starts' = [starts EXCEPT ![c.id] = @ + k]
    <2>1. CASE SendReminder(b, c) \/ SendReminderUnconfirmed(b, c)
        BY <2>1 DEF SendReminder, SendReminderUnconfirmed
    <2>2. CASE SkipLockedTask(b, c)
        <3>1. c.id \in Tasks /\ starts' = [starts EXCEPT ![c.id] = @ + 0]
            BY <2>2 DEF SkipLockedTask, BatchOK, TypeOK, history
        <3> QED
            BY <2>2, <3>1 DEF SkipLockedTask, history
    <2>3. CASE SpawnAgentTask(b, c) \/ SpawnAgentTaskFails(b, c)
        BY <2>3 DEF SpawnAgentTask, SpawnAgentTaskFails, BatchOK
    <2> QED
        BY <2>1, <2>2, <2>3
<1>3. UNCHANGED <<queue, issued>>
    BY DEF SendReminder, SendReminderUnconfirmed, SkipLockedTask, SpawnAgentTask,
           SpawnAgentTaskFails
<1>4. /\ Effects'[c.id] = Effects[c.id] + k
      /\ \A i \in Ids \ {c.id} : Effects'[i] = Effects[i]
    BY <1>1, <1>2, IdsAssumption DEF Effects, TypeOK, Ids
<1>5. Effects[c.id] < issued[c.id]
    <2>1. /\ IsFiniteSet(Outstanding(c.id)) /\ Cardinality(Outstanding(c.id)) \in Nat
          /\ Effects[c.id] \in Nat /\ issued[c.id] \in Nat
          /\ Effects[c.id] + Cardinality(Outstanding(c.id)) <= issued[c.id]
        BY <1>1, BotsAssumption, FS_Subset, FS_CardinalityType
           DEF Outstanding, BudgetOK, Effects, TypeOK, Ids
    <2>2. b \in Outstanding(c.id)
        BY DEF Outstanding
    <2>3. Cardinality(Outstanding(c.id)) # 0
        BY <2>1, <2>2, FS_EmptySet
    <2> QED
        BY <2>1, <2>3
<1> QED
    BY <1>1, <1>3, <1>4, <1>5 DEF DispatchEffect

LEMMA ReconcileEffectStep ==
    ASSUME Inv, NEW b \in Bots,
           ReconcileReminderResults(b) \/ ReconcileTaskResults(b)
    PROVE  /\ UNCHANGED <<issued, sends, starts>>
           /\ \A i \in Ids : Settled(i)
<1> USE DEF Inv
<1>1. UNCHANGED <<issued, sends, starts>>
    BY DEF ReconcileReminderResults, ReconcileTaskResults, history
<1>2. ASSUME NEW i \in Ids PROVE Settled(i)
    <2>1. CASE ~Owns(b, i)
        BY <2>1 DEF ReconcileReminderResults, ReconcileTaskResults, Settled
    <2>2. CASE Owns(b, i)
        <3>1. PICK r \in results[b] : /\ r.id = i /\ r.token = queue[i].token
                                      /\ Outcome(b, i) = r.outcome
            BY <2>2 DEF Owns, Outcome
        <3>2. queue[i] \in Entry /\ queue[i].status \in {"sending", "dispatching", "canceled"}
            BY <3>1 DEF TypeOK, Results, ReportsOK, EntryOK
        <3>3. CASE i \in Reminders /\ ReconcileReminderResults(b)
            <4>1. queue'[i] = ReconciledReminder(queue[i], r.outcome)
                BY <2>2, <3>1, <3>3 DEF ReconcileReminderResults
            <4> QED
                BY <3>2, <3>3, <4>1 DEF ReconciledReminder, ClearClaim, Entry, Settled
        <3>4. CASE i \in Tasks /\ ReconcileTaskResults(b)
            <4>1. queue'[i] = ReconciledTask(queue[i], r.outcome, Interval[i])
                BY <2>2, <3>1, <3>4 DEF ReconcileTaskResults
            <4>2. r.outcome \in {"pending", "dispatched", "error"}
                BY <3>1, <3>4 DEF KindsOK
            <4> QED
                BY <3>2, <3>4, <4>1, <4>2 DEF ReconciledTask, ClearClaim, Entry, Settled
        <3>5. CASE i \notin Reminders /\ ReconcileReminderResults(b)
            BY <3>5 DEF ReconcileReminderResults, Settled
        <3>6. CASE i \notin Tasks /\ ReconcileTaskResults(b)
            BY <3>6 DEF ReconcileTaskResults, Settled
        <3> QED
            BY <3>3, <3>4, <3>5, <3>6
    <2> QED
        BY <2>1, <2>2
<1> QED
    BY <1>1, <1>2

LEMMA StepKinds ==
    ASSUME Inv, [Next]_vars
    PROVE  \/ UNCHANGED <<queue, issued, sends, starts>>
           \/ QuietStep
           \/ /\ issued' = [i \in Ids |-> IF i \in ClaimedNow THEN issued[i] + 1 ELSE issued[i]]
              /\ UNCHANGED <<sends, starts>>
              /\ \A i \in Ids : (i \in ClaimedNow => Hit(i)) /\ (i \notin ClaimedNow => Miss(i))
           \/ DispatchEffect
           \/ UNCHANGED <<issued, sends, starts>> /\ \A i \in Ids : Settled(i)
<1>1. ASSUME NEW b \in Bots, ClaimDueEntries(b)
      PROVE  /\ issued' = [i \in Ids |-> IF i \in ClaimedNow THEN issued[i] + 1 ELSE issued[i]]
             /\ UNCHANGED <<sends, starts>>
             /\ \A i \in Ids : (i \in ClaimedNow => Hit(i)) /\ (i \notin ClaimedNow => Miss(i))
    BY <1>1, ClaimEffect DEF ClaimDueEntries
<1>2. ASSUME NEW b \in Bots, AbandonBatch(b) \/ Crash(b) \/ Boot(b)
      PROVE  UNCHANGED <<queue, issued, sends, starts>>
    BY <1>2 DEF AbandonBatch, Crash, Boot, history
<1>3. CASE \E b \in Bots : Cycle(b)
    <2> PICK b \in Bots : Cycle(b)
        BY <1>3
    <2> QED
        BY <1>1, <1>2, DispatchEffectStep, ReconcileEffectStep DEF Cycle
<1>4. CASE User \/ Tick
    BY <1>4, AddQuiet, LifecycleQuiet, TickQuiet DEF User, Ids
<1>5. CASE UNCHANGED vars
    BY <1>5 DEF vars
<1> QED
    BY <1>2, <1>3, <1>4, <1>5 DEF Next

(* A sent or failed reminder and a dispatched one-shot are never touched    *)
(* again, whatever results come in late.                                    *)
THEOREM SettledIsFinal == Spec => SettledStays
<1>1. ASSUME Inv, [Next]_vars, NEW i \in Ids,
             queue[i].status \in {"sent", "failed", "dispatched"}
      PROVE  queue'[i] = queue[i]
    <2>2. CASE QuietStep
        BY <1>1, <2>2 DEF QuietStep, Benign
    <2>3. CASE (i \in ClaimedNow => Hit(i)) /\ (i \notin ClaimedNow => Miss(i))
        BY <1>1, <2>3 DEF Hit, Miss, Claimed
    <2>4. CASE Settled(i)
        BY <1>1, <2>4 DEF Settled
    <2> QED
        BY <1>1, <2>2, <2>3, <2>4, StepKinds DEF DispatchEffect
<1>2. Inv /\ [Next]_vars =>
         [\A i \in Ids : queue[i].status \in {"sent", "failed", "dispatched"}
                            => queue'[i] = queue[i]]_vars
    BY <1>1
<1> QED
    BY <1>2, Invariance, PTL DEF Spec, SettledStays
-----------------------------------------------------------------------------
(***************************************************************************)
(* The starts of a one-shot.  A claim may become a start; an entry that is  *)
(* free may become a claim; and only a reset makes a claimed entry free     *)
(* without an outcome that says the task was not started.                   *)
(***************************************************************************)

\* Nothing stands between entry i and its next claim: it is not claimed, or a
\* closing attempt may restore it, or the outcome that still owns it is "skipped".
Free(i) ==
    \/ queue[i].status \in {"absent", "pending"}
    \/ queue[i].status = "canceled" /\ queue[i].closing # NoClosing
    \/ \E b \in Bots : \E r \in results[b] :
          r.id = i /\ r.token = queue[i].token /\ r.outcome = "pending"

Credit(i) == IF Free(i) THEN 1 ELSE 0

StartsOK ==
    \A i \in Tasks : ~Periodic(i) =>
        starts[i] + Cardinality(Outstanding(i)) + Credit(i) <= 1 + resets[i]

LEMMA StartsTypes ==
    ASSUME TypeOK, NEW i \in Tasks
    PROVE  /\ i \in Ids /\ starts[i] \in Nat /\ resets[i] \in Nat /\ issued[i] \in Nat
           /\ IsFiniteSet(Outstanding(i)) /\ Cardinality(Outstanding(i)) \in Nat
           /\ Credit(i) \in {0, 1}
    BY BotsAssumption, FS_Subset, FS_CardinalityType DEF Outstanding, TypeOK, Ids, Credit

\* A step that starts nothing, resets nothing, adds no claim and frees nothing.
LEMMA NoNewStart ==
    ASSUME TypeOK, TypeOK', StartsOK, UNCHANGED <<starts, resets, overdue>>,
           \A a \in Bots : todo'[a] \subseteq todo[a],
           \A i \in Tasks : ~Periodic(i) /\ Free(i)' => Free(i)
    PROVE  StartsOK'
<1> SUFFICES ASSUME NEW i \in Tasks, ~Periodic(i)
             PROVE  (starts[i] + Cardinality(Outstanding(i)) + Credit(i) <= 1 + resets[i])'
    BY DEF StartsOK, Periodic
<1>1. Outstanding(i)' \subseteq Outstanding(i)
    BY DEF Outstanding
<1>2. IsFiniteSet(Outstanding(i)) /\ Cardinality(Outstanding(i)) \in Nat
    BY StartsTypes
<1>3. Cardinality(Outstanding(i)') <= Cardinality(Outstanding(i)) /\ Cardinality(Outstanding(i)') \in Nat
    BY <1>1, <1>2, FS_Subset, FS_CardinalityType
<1>4. Credit(i)' <= Credit(i) /\ Credit(i)' \in {0, 1} /\ Credit(i) \in {0, 1}
    BY DEF Credit
<1>5. starts[i] + Cardinality(Outstanding(i)) + Credit(i) <= 1 + resets[i]
    BY DEF StartsOK
<1> QED
    BY <1>2, <1>3, <1>4, <1>5, StartsTypes

LEMMA QuietStarts ==
    ASSUME Inv, QuietStep, StartsOK
    PROVE  StartsOK'
<1>1. \A i \in Tasks : Free(i)' => Free(i)
    <2> SUFFICES ASSUME NEW i \in Tasks, Free(i)' PROVE Free(i)
        OBVIOUS
    <2>1. Benign(i, queue[i], queue'[i]) /\ results' = results /\ EntryOK(queue[i])
        BY DEF QuietStep, Ids, Inv, ReportsOK
    <2> QED
        BY <2>1 DEF Benign, Free, EntryOK
<1> QED
    BY <1>1, NoNewStart DEF QuietStep, Inv

LEMMA DropStarts ==
    ASSUME Inv, StartsOK, NEW b \in Bots, AbandonBatch(b) \/ Crash(b) \/ Boot(b)
    PROVE  StartsOK'
<1>1. /\ UNCHANGED <<queue, starts, resets, overdue>>
      /\ todo' = [todo EXCEPT ![b] = {}]
      /\ results' = [results EXCEPT ![b] = {}]
    BY DEF AbandonBatch, Crash, Boot, history, Inv, TypeOK, BatchOK
<1>2. \A a \in Bots : todo'[a] \subseteq todo[a] /\ results'[a] \subseteq results[a]
    BY <1>1 DEF Inv, TypeOK
<1>3. \A i \in Tasks : Free(i)' => Free(i)
    BY <1>1, <1>2 DEF Free
<1>4. TypeOK /\ TypeOK'
    BY DropStep DEF Inv
<1> QED
    BY <1>1, <1>2, <1>3, <1>4, NoNewStart

\* Only a skipped one-shot goes back to pending, and only one result has its token.
LEMMA ReconcileStarts ==
    ASSUME Inv, StartsOK, NEW b \in Bots,
           ReconcileReminderResults(b) \/ ReconcileTaskResults(b)
    PROVE  StartsOK'
<1>1. /\ UNCHANGED <<todo, starts, resets, overdue>>
      /\ results' = [results EXCEPT ![b] = {}]
    BY DEF ReconcileReminderResults, ReconcileTaskResults, history
<1>2. \A a \in Bots : results'[a] \subseteq results[a]
    BY <1>1 DEF Inv, TypeOK
<1>3. ASSUME NEW i \in Tasks, ~Periodic(i), Free(i)' PROVE Free(i)
    <2>0. i \notin Reminders /\ i \in Ids /\ queue[i] \in Entry
        BY IdsAssumption DEF Ids, Inv, TypeOK
    <2>1. CASE queue'[i] = queue[i]
        BY <1>2, <1>3, <2>1 DEF Free
    <2>2. CASE queue'[i] # queue[i]
        <3>1. ReconcileTaskResults(b) /\ Owns(b, i)
            BY <2>0, <2>2 DEF ReconcileReminderResults, ReconcileTaskResults
        <3>2. PICK r \in results[b] : /\ r.id = i /\ r.token = queue[i].token
                                      /\ Outcome(b, i) = r.outcome
            BY <3>1 DEF Owns, Outcome
        <3>3. queue'[i] = ReconciledTask(queue[i], r.outcome, Interval[i])
            BY <2>0, <3>1, <3>2 DEF ReconcileTaskResults
        <3>4. queue'[i].status = r.outcome /\ queue'[i].token = NoToken
            BY <1>3, <2>0, <3>3 DEF ReconciledTask, Periodic, ClearClaim, Entry
        <3>5. r.outcome \in {"pending", "dispatched", "error"}
            BY <3>2 DEF Inv, KindsOK
        <3>6. \A a \in Bots : \A q \in results'[a] : q.token # NoToken
            BY <1>2 DEF Inv, TypeOK, Results
        <3>7. r.outcome = "pending"
            BY <1>3, <3>4, <3>5, <3>6 DEF Free
        <3> QED
            BY <3>2, <3>7 DEF Free
    <2> QED
        BY <2>1, <2>2
<1>4. TypeOK /\ TypeOK'
    BY ReconcileStep DEF Inv
<1>5. \A a \in Bots : todo'[a] \subseteq todo[a]
    BY <1>1
<1> QED
    BY <1>1, <1>3, <1>4, <1>5, NoNewStart

\* A claim dealt with becomes a start, or a credit, or neither.
LEMMA DispatchStarts ==
    ASSUME Inv, StartsOK, NEW b \in Bots, NEW c \in todo[b],
           \/ SendReminder(b, c)
           \/ SendReminderUnconfirmed(b, c)
           \/ SkipLockedTask(b, c)
           \/ SpawnAgentTask(b, c)
           \/ SpawnAgentTaskFails(b, c)
    PROVE  StartsOK'
<1>0. TypeOK /\ TypeOK' /\ BatchOK
    BY DispatchStep DEF Inv
<1>1. PICK o \in {"sent", "pending", "dispatched", "error"}, k \in {0, 1} :
         /\ Handled(b, c, o)
         /\ c.id \in Tasks => starts' = [starts EXCEPT ![c.id] = @ + k]
         /\ c.id \notin Tasks => starts' = starts
         /\ o = "pending" /\ c.id \in Tasks => k = 0
    <2>1. CASE SendReminder(b, c) \/ SendReminderUnconfirmed(b, c)
        BY <2>1, IdsAssumption DEF SendReminder, SendReminderUnconfirmed
    <2>2. CASE SkipLockedTask(b, c)
        <3>1. starts' = starts
            BY <2>2 DEF SkipLockedTask, history
        <3>2. c.id \in Tasks => starts' = [starts EXCEPT ![c.id] = @ + 0]
            BY <1>0, <3>1 DEF TypeOK
        <3>3. Handled(b, c, "pending")
            BY <2>2 DEF SkipLockedTask
        <3> QED
            BY <3>1, <3>2, <3>3
    <2>3. CASE SpawnAgentTask(b, c) \/ SpawnAgentTaskFails(b, c)
        BY <1>0, <2>3 DEF SpawnAgentTask, SpawnAgentTaskFails, BatchOK
    <2> QED
        BY <2>1, <2>2, <2>3
<1> DEFINE r == [id |-> c.id, token |-> c.token, outcome |-> o]
<1>2. /\ UNCHANGED <<queue, resets, overdue>>
      /\ todo' = [todo EXCEPT ![b] = @ \ {c}]
      /\ results' = [results EXCEPT ![b] = @ \cup {r}]
    BY <1>1 DEF SendReminder, SendReminderUnconfirmed, SkipLockedTask, SpawnAgentTask,
           SpawnAgentTaskFails, Handled, history
<1>3. \A a \in Bots : /\ todo'[a] \subseteq todo[a]
                      /\ results'[a] \subseteq results[a] \cup {r}
    BY <1>0, <1>2 DEF TypeOK
<1>4. \A i \in Tasks : Free(i)' => Free(i) \/ (i = c.id /\ o = "pending")
    <2> HIDE DEF r
    <2>1. r.id = c.id /\ r.outcome = o
        BY DEF r
    <2> QED
        BY <1>2, <1>3, <2>1 DEF Free
<1> SUFFICES ASSUME NEW i \in Tasks, ~Periodic(i)
             PROVE  (starts[i] + Cardinality(Outstanding(i)) + Credit(i) <= 1 + resets[i])'
    BY DEF StartsOK, Periodic
<1>5. starts[i] + Cardinality(Outstanding(i)) + Credit(i) <= 1 + resets[i]
    BY DEF StartsOK
<1>6. /\ starts[i] \in Nat /\ resets'[i] = resets[i] /\ resets[i] \in Nat
      /\ IsFiniteSet(Outstanding(i)) /\ Cardinality(Outstanding(i)) \in Nat
      /\ Credit(i) \in {0, 1}
    BY <1>0, <1>2, StartsTypes
<1>7. CASE i # c.id
    <2>1. Outstanding(i)' = Outstanding(i)
        BY <1>0, <1>2, <1>7 DEF Outstanding, TypeOK
    <2>2. starts'[i] = starts[i]
        BY <1>0, <1>1, <1>7 DEF TypeOK
    <2>3. Credit(i)' <= Credit(i) /\ Credit(i)' \in {0, 1}
        BY <1>4, <1>7 DEF Credit
    <2> QED
        BY <1>5, <1>6, <2>1, <2>2, <2>3
<1>8. CASE i = c.id
    <2>1. b \in Outstanding(i) /\ Outstanding(i)' = Outstanding(i) \ {b}
        BY <1>0, <1>2, <1>8 DEF Outstanding, TypeOK, BatchOK
    <2>2. Cardinality(Outstanding(i)') = Cardinality(Outstanding(i)) - 1
        BY <1>6, <2>1, FS_RemoveElement
    <2>3. starts'[i] = starts[i] + k
        BY <1>0, <1>1, <1>8 DEF TypeOK
    <2>4. k + Credit(i)' <= Credit(i) + 1 /\ Credit(i)' \in {0, 1}
        BY <1>1, <1>4, <1>8 DEF Credit
    <2> QED
        BY <1>5, <1>6, <2>2, <2>3, <2>4
<1> QED
    BY <1>7, <1>8

\* A claim takes the credit, or the one a reset has just given.
LEMMA ClaimStarts ==
    ASSUME Inv, StartsOK, NEW b \in Bots, ClaimDueEntries(b)
    PROVE  StartsOK'
<1>0. TypeOK /\ TypeOK'
    BY ClaimStep DEF Inv
<1> SUFFICES ASSUME NEW i \in Tasks, ~Periodic(i)
             PROVE  (starts[i] + Cardinality(Outstanding(i)) + Credit(i) <= 1 + resets[i])'
    BY DEF StartsOK, Periodic
<1> DEFINE N == ClaimedNow
           New(j) == [id |-> j, token |-> issued[j] + 1]
<1>1. /\ UNCHANGED <<results, starts>>
      /\ todo[b] = {}
      /\ todo' = [todo EXCEPT ![b] = {New(j) : j \in N}]
      /\ resets'[i] = IF IsStale(queue[i]) THEN resets[i] + 1 ELSE resets[i]
      /\ queue'[i] = AfterClaim(i)
    BY StartsTypes, <1>0 DEF Inv, BatchOK, ClaimDueEntries
<1>2. (i \in N => Hit(i)) /\ (i \notin N => Miss(i))
    BY <1>0, StartsTypes, ClaimEffect
<1> HIDE DEF N
<1>3. /\ starts[i] + Cardinality(Outstanding(i)) + Credit(i) <= 1 + resets[i]
      /\ starts[i] \in Nat /\ resets[i] \in Nat /\ issued[i] \in Nat /\ i \in Ids
      /\ IsFiniteSet(Outstanding(i)) /\ Cardinality(Outstanding(i)) \in Nat
      /\ Credit(i) \in {0, 1} /\ Credit(i)' \in {0, 1}
    BY <1>0, StartsTypes DEF StartsOK, Credit
<1>4. b \notin Outstanding(i) /\ i \notin Reminders
    BY <1>1, IdsAssumption DEF Outstanding
<1>5. \A a \in Bots : /\ a # b => todo'[a] = todo[a]
                      /\ a = b => todo'[a] = {New(j) : j \in N}
    BY <1>0, <1>1 DEF TypeOK
<1>6. CASE i \in N
    <2>1. New(i) \in todo'[b] /\ New(i).id = i
        BY <1>5, <1>6
    <2>2. Outstanding(i)' = Outstanding(i) \cup {b}
        <3> HIDE DEF New
        <3> QED
            BY <1>5, <2>1 DEF Outstanding
    <2>3. Cardinality(Outstanding(i)') = Cardinality(Outstanding(i)) + 1
        BY <1>3, <1>4, <2>2, FS_AddElement
    <2>4. \A a \in Bots : \A r \in results[a] : r.id = i => r.token <= issued[i] /\ r.token \in Nat
        BY <1>0 DEF Inv, TokensOK, TypeOK, Results
    <2>5. queue'[i].token = issued[i] + 1 /\ queue'[i].status = "dispatching"
        BY <1>2, <1>6 DEF Hit
    <2>6. ~Free(i)'
        BY <1>1, <1>3, <2>4, <2>5 DEF Free
    <2>7. IsStale(queue[i]) \/ queue[i].status = "pending"
        <3>1. ClaimsTask(ResetStale(queue[i]), issued[i])
            BY <1>4, <1>6 DEF N, ClaimedNow
        <3> QED
            BY <3>1 DEF ClaimsTask, Due, ResetStale
    <2>8. CASE IsStale(queue[i])
        BY <1>1, <1>3, <2>3, <2>6, <2>8 DEF Credit
    <2>9. CASE ~IsStale(queue[i])
        <3>1. Free(i)
            BY <2>7, <2>9 DEF Free
        <3> QED
            BY <1>1, <1>3, <2>3, <2>6, <2>9, <3>1 DEF Credit
    <2> QED
        BY <2>8, <2>9
<1>7. CASE i \notin N
    <2>1. Outstanding(i)' = Outstanding(i)
        BY <1>4, <1>5, <1>7 DEF Outstanding
    <2>2. CASE IsStale(queue[i])
        BY <1>1, <1>3, <2>1, <2>2
    <2>3. CASE ~IsStale(queue[i])
        <3>1. queue'[i] = queue[i]
            <4>1. ~ClaimsTask(ResetStale(queue[i]), issued[i])
                BY <1>3, <1>4, <1>7 DEF N, ClaimedNow
            <4> QED
                BY <1>1, <1>4, <2>3, <4>1 DEF AfterClaim, ResetStale
        <3>2. Credit(i)' = Credit(i)
            BY <1>1, <3>1 DEF Credit, Free
        <3> QED
            BY <1>1, <1>3, <2>1, <2>3, <3>2
    <2> QED
        BY <2>2, <2>3
<1> QED
    BY <1>6, <1>7

(* A one-shot is started once, and once more only for each stale claim of   *)
(* it that was reset, whatever is skipped, lost, canceled or restored.      *)
THEOREM OneShotsRunOnce == Spec => []OneShotRunsAccountedFor
<1>1. Init => StartsOK
    <2> SUFFICES ASSUME Init, NEW i \in Tasks
                 PROVE  starts[i] + Cardinality(Outstanding(i)) + Credit(i) <= 1 + resets[i]
        BY DEF StartsOK
    <2>1. Outstanding(i) = {}
        BY DEF Init, Outstanding
    <2>2. starts[i] = 0 /\ resets[i] = 0
        BY DEF Init, Ids
    <2>3. Cardinality(Outstanding(i)) = 0
        BY <2>1, FS_EmptySet
    <2> QED
        BY <2>2, <2>3 DEF Credit
<1>2. Inv /\ StartsOK /\ [Next]_vars => StartsOK'
    <2> SUFFICES ASSUME Inv, StartsOK, [Next]_vars PROVE StartsOK'
        OBVIOUS
    <2>1. CASE \E b \in Bots : Cycle(b)
        <3> PICK b \in Bots : Cycle(b)
            BY <2>1
        <3> QED
            BY ClaimStarts, DispatchStarts, ReconcileStarts, DropStarts DEF Cycle
    <2>2. CASE \E b \in Bots : Crash(b) \/ Boot(b)
        BY <2>2, DropStarts
    <2>3. CASE User
        BY <2>3, AddQuiet, LifecycleQuiet, QuietStarts DEF User, Ids
    <2>4. CASE Tick
        BY <2>4, TickQuiet, QuietStarts
    <2>5. CASE UNCHANGED vars
        BY <2>5 DEF vars, StartsOK, Outstanding, Credit, Free
    <2> QED
        BY <2>1, <2>2, <2>3, <2>4, <2>5 DEF Next
<1>3. Inv /\ StartsOK => OneShotRunsAccountedFor
    <2> SUFFICES ASSUME Inv, StartsOK, NEW i \in Tasks, ~Periodic(i)
                 PROVE  starts[i] <= 1 + resets[i]
        BY DEF OneShotRunsAccountedFor
    <2>1. starts[i] + Cardinality(Outstanding(i)) + Credit(i) <= 1 + resets[i]
        BY DEF StartsOK
    <2> QED
        BY <2>1, StartsTypes DEF Inv
<1> QED
    BY <1>1, <1>2, <1>3, Invariance, PTL DEF Spec

-----------------------------------------------------------------------------
(***************************************************************************)
(* No entry is dispatched twice before its claim is stale.                  *)
(***************************************************************************)

\* The inductive part: a claim in a bot's hands is the entry's current one,
\* whatever became of the entry, or it was found stale.
HeldOK ==
    \A a \in Bots : \A c \in InHands(a) :
       c \in overdue \/ c.token = queue[c.id].token

LEMMA HandTypes ==
    ASSUME TypeOK, NEW a \in Bots, NEW c \in InHands(a)
    PROVE  c \in Claims /\ c.id \in Ids /\ c.token \in Nat \ {0}
<1>1. CASE c \in todo[a]
    BY <1>1 DEF TypeOK, Claims
<1>2. CASE c \in Undecided(a)
    BY <1>2 DEF Undecided, TypeOK, Claims, Results
<1> QED
    BY <1>1, <1>2 DEF InHands, Unsent

\* A step that leaves the tokens alone and hands out nothing.
LEMMA SameTokens ==
    ASSUME TypeOK, HeldOK, UNCHANGED overdue,
           \A i \in Ids : queue'[i].token = queue[i].token,
           \A a \in Bots : InHands(a)' \subseteq InHands(a)
    PROVE  HeldOK'
<1> SUFFICES ASSUME NEW a \in Bots, NEW c \in InHands(a)'
             PROVE  c \in overdue' \/ c.token = queue'[c.id].token
    BY DEF HeldOK
<1>1. c \in InHands(a) /\ c.id \in Ids
    BY HandTypes
<1> QED
    BY <1>1 DEF HeldOK

LEMMA DropHeld ==
    ASSUME Inv, HeldOK, NEW b \in Bots, AbandonBatch(b) \/ Crash(b) \/ Boot(b)
    PROVE  HeldOK'
<1>1. /\ UNCHANGED <<queue, overdue>>
      /\ \A a \in Bots : todo'[a] \subseteq todo[a] /\ results'[a] \subseteq results[a]
    BY DEF AbandonBatch, Crash, Boot, history, Inv, TypeOK
<1>2. \A a \in Bots : InHands(a)' \subseteq InHands(a)
    BY <1>1 DEF InHands, Unsent, Undecided
<1> QED
    BY <1>1, <1>2, SameTokens DEF Inv

LEMMA DispatchHeld ==
    ASSUME Inv, HeldOK, NEW b \in Bots, NEW c \in todo[b],
           \/ SendReminder(b, c)
           \/ SendReminderUnconfirmed(b, c)
           \/ SkipLockedTask(b, c)
           \/ SpawnAgentTask(b, c)
           \/ SpawnAgentTaskFails(b, c)
    PROVE  HeldOK'
<1>1. /\ UNCHANGED <<queue, overdue>>
      /\ \E o \in {"sent", "pending", "dispatched", "error"} : Handled(b, c, o)
    BY DEF SendReminder, SendReminderUnconfirmed, SkipLockedTask, SpawnAgentTask,
           SpawnAgentTaskFails, history
<1>2. PICK o \in {"sent", "pending", "dispatched", "error"} : Handled(b, c, o)
    BY <1>1
<1> DEFINE r == [id |-> c.id, token |-> c.token, outcome |-> o]
<1>3. \A a \in Bots : /\ todo'[a] \subseteq todo[a]
                      /\ results'[a] \subseteq results[a] \cup {r}
                      /\ a # b => results'[a] = results[a]
    BY <1>2 DEF Handled, Inv, TypeOK
<1>4. [id |-> r.id, token |-> r.token] = c
    BY DEF Inv, TypeOK, Claims
<1>5. \A a \in Bots : InHands(a)' \subseteq InHands(a)
    <2> SUFFICES ASSUME NEW a \in Bots, NEW d \in InHands(a)' PROVE d \in InHands(a)
        OBVIOUS
    <2>1. CASE d \in todo'[a]
        BY <1>3, <2>1 DEF InHands, Unsent
    <2>2. CASE d \in Undecided(a)'
        <3>1. PICK q \in results'[a] : d = [id |-> q.id, token |-> q.token]
            BY <2>2 DEF Undecided
        <3>2. CASE q \in results[a]
            BY <3>1, <3>2 DEF InHands, Undecided
        <3>3. CASE q \notin results[a]
            BY <1>3, <1>4, <3>1, <3>3 DEF InHands, Unsent
        <3> QED
            BY <3>2, <3>3
    <2> QED
        BY <2>1, <2>2 DEF InHands, Unsent
<1> QED
    BY <1>1, <1>5, SameTokens DEF Inv

\* A reconciliation ends the claims the bot still owns, which nobody else has.
LEMMA ReconcileHeld ==
    ASSUME Inv, HeldOK, NEW b \in Bots,
           ReconcileReminderResults(b) \/ ReconcileTaskResults(b)
    PROVE  HeldOK'
<1>1. /\ UNCHANGED <<todo, overdue>>
      /\ \A a \in Bots : /\ results'[a] \subseteq results[a]
                         /\ results'[b] = {}
      /\ \A i \in Ids : queue'[i] = queue[i] \/ Owns(b, i)
    BY DEF ReconcileReminderResults, ReconcileTaskResults, history, Inv, TypeOK
<1> SUFFICES ASSUME NEW a \in Bots, NEW c \in InHands(a)', c \notin overdue
             PROVE  c.token = queue'[c.id].token
    BY <1>1 DEF HeldOK
<1>2. c \in InHands(a)
    BY <1>1 DEF InHands, Unsent, Undecided
<1>3. c \in Claims /\ c.id \in Ids /\ c.token = queue[c.id].token
    BY <1>2, HandTypes DEF HeldOK, Inv
<1>4. ~Owns(b, c.id)
    <2> SUFFICES ASSUME NEW r \in results[b], r.id = c.id, r.token = c.token
                 PROVE  FALSE
        BY <1>3 DEF Owns
    <2>1. c = [id |-> r.id, token |-> r.token]
        BY <1>3 DEF Claims
    <2>2. c \in Undecided(b)
        BY <2>1 DEF Undecided
    <2>3. a = b
        BY <1>2, <2>2 DEF Inv, ClaimsApart, InHands
    <2>4. c \in Unsent(b)
        BY <1>1, <2>3 DEF InHands, Unsent, Undecided
    <2> QED
        BY <2>2, <2>4 DEF Inv, ClaimsApart
<1> QED
    BY <1>1, <1>3, <1>4

\* A claim pass gives a new token only to an entry that was pending, which
\* nobody has a current claim of, or whose claim was stale, which it records.
LEMMA ClaimHeld ==
    ASSUME Inv, HeldOK, NEW b \in Bots, ClaimDueEntries(b)
    PROVE  HeldOK'
<1>1. /\ results' = results
      /\ todo' = [todo EXCEPT ![b] = {[id |-> i, token |-> issued[i] + 1] : i \in ClaimedNow}]
      /\ overdue' = overdue \cup StaleClaims
      /\ ClaimedNow \subseteq Ids
    BY DEF ClaimDueEntries, ClaimedNow
<1> SUFFICES ASSUME NEW a \in Bots, NEW c \in InHands(a)', c \notin overdue'
             PROVE  c.token = queue'[c.id].token
    BY DEF HeldOK
<1>2. CASE c \in InHands(a)
    <2>1. c \in Claims /\ c.id \in Ids /\ c.token # 0 /\ c.token = queue[c.id].token
        BY <1>1, <1>2, HandTypes DEF HeldOK, Inv
    <2>2. queue[c.id].status # "pending" /\ EntryOK(queue[c.id])
        BY <2>1 DEF Inv, ReportsOK, EntryOK
    <2>3. ~IsStale(queue[c.id])
        <3> SUFFICES ASSUME IsStale(queue[c.id]) PROVE FALSE
            OBVIOUS
        <3>1. c = [id |-> c.id, token |-> queue[c.id].token]
            BY <2>1 DEF Claims
        <3> QED
            BY <1>1, <2>1, <3>1 DEF StaleClaims
    <2>4. ResetStale(queue[c.id]) = queue[c.id] /\ ~Due(queue[c.id])
        BY <2>2, <2>3 DEF ResetStale, Due
    <2>5. queue'[c.id] = queue[c.id]
        BY <2>1, <2>4 DEF ClaimDueEntries, AfterClaim, ClaimsReminder, ClaimsTask
    <2> QED
        BY <2>1, <2>5
<1>3. CASE c \notin InHands(a)
    <2>1. c \in todo'[b]
        BY <1>1, <1>3 DEF InHands, Unsent, Undecided, Inv, TypeOK
    <2>2. PICK i \in ClaimedNow : c = [id |-> i, token |-> issued[i] + 1]
        BY <1>1, <2>1 DEF Inv, TypeOK
    <2>3. queue'[i].token = issued[i] + 1
        BY <1>1, ClaimEffect DEF Hit
    <2> QED
        BY <2>2, <2>3
<1> QED
    BY <1>2, <1>3

(* For any number of bots on one queue file and any limits: while a bot has  *)
(* an entry to dispatch or to reconcile nobody gets it again, unless its     *)
(* claim was found stale.                                                   *)
THEOREM NoDoubleClaims == Spec => []NoDoubleClaim
<1>1. Init => HeldOK
    BY DEF Init, HeldOK, InHands, Unsent, Undecided
<1>2. Inv /\ HeldOK /\ [Next]_vars => HeldOK'
    <2> SUFFICES ASSUME Inv, HeldOK, [Next]_vars PROVE HeldOK'
        OBVIOUS
    <2>0. QuietStep => HeldOK'
        BY SameTokens DEF QuietStep, Benign, InHands, Unsent, Undecided, Inv
    <2>1. CASE \E b \in Bots : Cycle(b)
        <3> PICK b \in Bots : Cycle(b)
            BY <2>1
        <3> QED
            BY ClaimHeld, DispatchHeld, ReconcileHeld, DropHeld DEF Cycle
    <2>2. CASE \E b \in Bots : Crash(b) \/ Boot(b)
        BY <2>2, DropHeld
    <2>3. CASE User
        BY <2>0, <2>3, AddQuiet, LifecycleQuiet DEF User, Ids
    <2>4. CASE Tick
        BY <2>0, <2>4, TickQuiet
    <2>5. CASE UNCHANGED vars
        BY <2>5 DEF vars, HeldOK, InHands, Unsent, Undecided
    <2> QED
        BY <2>1, <2>2, <2>3, <2>4, <2>5 DEF Next
<1>3. Inv /\ HeldOK => NoDoubleClaim
    <2> SUFFICES ASSUME Inv, HeldOK, NEW a \in Bots, NEW b \in Bots,
                        NEW c \in InHands(a), NEW d \in InHands(b),
                        c.id = d.id, {c, d} \cap overdue = {}
                 PROVE  a = b /\ c = d
        BY DEF NoDoubleClaim, Inv, ClaimsApart
    <2>1. c \in Claims /\ d \in Claims /\ c.token = d.token
        BY HandTypes DEF Inv, HeldOK
    <2>2. c = d
        BY <2>1 DEF Claims
    <2> QED
        BY <2>2 DEF Inv, ClaimsApart
<1> QED
    BY <1>1, <1>2, <1>3, Invariance, PTL DEF Spec

-----------------------------------------------------------------------------
(***************************************************************************)
(* The end of a claim.                                                      *)
(***************************************************************************)

(* As long as a claim is not stale, neither status nor token of the entry    *)
(* changes, unless the bot that holds this very token reconciles it in this  *)
(* step, or the user cancels the entry, and then the token stays.            *)
THEOREM ClaimsAreRespected == Spec => ClaimRespected
<1> DEFINE Ended(i) == /\ queue[i].status \in Claimed /\ ~IsStale(queue[i])
                       /\ \/ queue'[i].status # queue[i].status
                          \/ queue'[i].token # queue[i].token
           Explained(i) ==
              \/ queue'[i].status = "canceled" /\ queue'[i].token = queue[i].token
              \/ \E b \in Bots : \E r \in results[b] \ results'[b] :
                    /\ r.id = i /\ r.token = queue[i].token
                    /\ queue'[i].token = NoToken
                    /\ queue'[i].status \in {r.outcome, "pending"}
<1>1. ASSUME Inv, NEW i \in Ids, QuietStep, Ended(i) PROVE Explained(i)
    <2>1. Benign(i, queue[i], queue'[i])
        BY <1>1 DEF QuietStep
    <2> QED
        BY <1>1, <2>1 DEF Benign, Claimed
\* A claim pass leaves it alone.
<1>2. ASSUME Inv, NEW i \in Ids, NEW b \in Bots, ClaimDueEntries(b), Ended(i) PROVE Explained(i)
    <2>1. ResetStale(queue[i]) = queue[i] /\ ~Due(queue[i])
        BY <1>2 DEF ResetStale, Due, Claimed
    <2>2. queue'[i] = queue[i]
        BY <1>2, <2>1 DEF ClaimDueEntries, AfterClaim, ClaimsReminder, ClaimsTask
    <2> QED
        BY <1>2, <2>2
<1>3. ASSUME Inv, NEW i \in Ids, NEW b \in Bots, Ended(i),
             ReconcileReminderResults(b) \/ ReconcileTaskResults(b)
      PROVE  Explained(i)
    <2>1. Owns(b, i) /\ results'[b] = {} /\ queue[i] \in Entry
        BY <1>3 DEF ReconcileReminderResults, ReconcileTaskResults, Inv, TypeOK
    <2>2. PICK r \in results[b] : /\ r.id = i /\ r.token = queue[i].token
                                  /\ Outcome(b, i) = r.outcome
        BY <2>1 DEF Owns, Outcome
    <2>3. \/ queue'[i] = ReconciledReminder(queue[i], r.outcome)
             /\ r.outcome \in {"sent", "pending"}
          \/ queue'[i] = ReconciledTask(queue[i], r.outcome, Interval[i])
        <3>1. CASE i \in Reminders /\ ReconcileReminderResults(b)
            <4>1. queue'[i] = ReconciledReminder(queue[i], Outcome(b, i))
                BY <2>1, <3>1 DEF ReconcileReminderResults
            <4>2. r.outcome \in {"sent", "pending"}
                BY <1>3, <2>2, <3>1 DEF Inv, KindsOK
            <4> QED
                BY <2>2, <4>1, <4>2
        <3>2. CASE i \in Tasks /\ ReconcileTaskResults(b)
            BY <2>1, <2>2, <3>2 DEF ReconcileTaskResults
        <3>3. CASE i \notin Reminders /\ ReconcileReminderResults(b)
            BY <1>3, <3>3 DEF ReconcileReminderResults
        <3>4. CASE i \notin Tasks /\ ReconcileTaskResults(b)
            BY <1>3, <3>4 DEF ReconcileTaskResults
        <3> QED
            BY <1>3, <3>1, <3>2, <3>3, <3>4
    <2>4. queue'[i].token = NoToken /\ queue'[i].status \in {r.outcome, "pending"}
        BY <2>1, <2>3 DEF ReconciledReminder, ReconciledTask, ClearClaim, Entry
    <2> QED
        BY <2>1, <2>2, <2>4
<1>4. ASSUME NEW i \in Ids, Ended(i), queue' = queue PROVE FALSE
    BY <1>4
<1> HIDE DEF Ended, Explained
<1>5. ASSUME Inv, NEW i \in Ids, [Next]_vars, Ended(i) PROVE Explained(i)
    <2>1. ASSUME NEW b \in Bots, Cycle(b) PROVE Explained(i)
        <3>1. ASSUME NEW c \in todo[b],
                     \/ SendReminder(b, c)
                     \/ SendReminderUnconfirmed(b, c)
                     \/ SkipLockedTask(b, c)
                     \/ SpawnAgentTask(b, c)
                     \/ SpawnAgentTaskFails(b, c)
              PROVE  queue' = queue
            BY <3>1 DEF SendReminder, SendReminderUnconfirmed, SkipLockedTask, SpawnAgentTask,
                   SpawnAgentTaskFails
        <3>2. AbandonBatch(b) => queue' = queue
            BY DEF AbandonBatch
        <3> QED
            BY <1>2, <1>3, <1>4, <1>5, <2>1, <3>1, <3>2 DEF Cycle
    <2>2. ASSUME NEW b \in Bots, Crash(b) \/ Boot(b) PROVE FALSE
        BY <1>4, <1>5, <2>2 DEF Crash, Boot
    <2>3. CASE User \/ Tick
        BY <1>1, <1>5, <2>3, AddQuiet, LifecycleQuiet, TickQuiet DEF User, Ids
    <2>4. CASE UNCHANGED vars
        BY <1>4, <1>5, <2>4 DEF vars
    <2> QED
        BY <1>5, <2>1, <2>2, <2>3, <2>4 DEF Next
<1>6. Inv /\ [Next]_vars =>
         [\A i \in Ids :
             /\ queue[i].status \in Claimed /\ ~IsStale(queue[i])
             /\ \/ queue'[i].status # queue[i].status
                \/ queue'[i].token # queue[i].token
             => \/ queue'[i].status = "canceled" /\ queue'[i].token = queue[i].token
                \/ \E b \in Bots : \E r \in results[b] \ results'[b] :
                      /\ r.id = i /\ r.token = queue[i].token
                      /\ queue'[i].token = NoToken
                      /\ queue'[i].status \in {r.outcome, "pending"}]_vars
    BY <1>5 DEF Ended, Explained
<1> QED
    BY <1>6, Invariance, PTL DEF Spec, ClaimRespected
-----------------------------------------------------------------------------
(***************************************************************************)
(* The refinement of JobPromise.                                            *)
(***************************************************************************)

LEMMA InitRefines == Init => Promise!Init
    BY DEF Init, Promise!Init, JobState, Absent, Effects, Claimed, Ids

\* What a step is to one job.
JobStep(i) ==
    Promise!HandOut(i) \/ Promise!TakeEffect(i) \/ Promise!Report(i) \/ Promise!Stay(i)

\* The same, without the instance.
LEMMA JobStepByStatus ==
    ASSUME NEW i \in Ids, NEW s, NEW t, NEW k, NEW l,
           s = JobState(queue[i].status), t = JobState(queue'[i].status),
           k = Effects[i], l = Effects'[i]
    PROVE  /\ s \in {"open", "held"} /\ t = "held" /\ issued'[i] = issued[i] + 1 /\ l = k
                 => JobStep(i)
           /\ k < issued[i] /\ l = k + 1 /\ issued'[i] = issued[i] /\ s = t => JobStep(i)
           /\ <<s, t>> \in Promise!Moves /\ (t = "done" => k > 0) /\ issued'[i] = issued[i] /\ l = k
                 => JobStep(i)
           /\ s = t /\ issued'[i] = issued[i] /\ l = k => JobStep(i)
    BY DEF JobStep, Promise!HandOut, Promise!TakeEffect, Promise!Report, Promise!Stay

LEMMA StepRefines ==
    ASSUME Inv, Inv', [Next]_vars
    PROVE  [Promise!Next]_(Promise!vars)
<1>1. CASE UNCHANGED <<queue, issued, sends, starts>>
    BY <1>1 DEF Promise!vars, Effects
<1>2. ASSUME NEW i \in Ids, QuietStep PROVE JobStep(i)
    <2>1. /\ issued'[i] = issued[i] /\ Effects'[i] = Effects[i]
          /\ Benign(i, queue[i], queue'[i])
        BY <1>2 DEF QuietStep, Effects
    <2>2. CASE queue'[i].status = queue[i].status
        BY <2>1, <2>2, JobStepByStatus
    <2>3. CASE queue'[i].status = "pending" /\ queue[i].status \in {"absent", "canceled"}
        <3>1. JobState(queue'[i].status) = "open" /\ JobState(queue[i].status) \in {"absent", "shelved"}
            BY <2>3 DEF JobState, Claimed
        <3> QED
            BY <2>1, <3>1, JobStepByStatus DEF Promise!Moves
    <2>4. CASE queue'[i].status = "canceled" /\ queue[i].status \in {"pending", "dispatching", "error"}
        <3>1. /\ JobState(queue'[i].status) = "shelved"
              /\ JobState(queue[i].status) \in {"open", "held", "failed"}
            BY <2>4 DEF JobState, Claimed
        <3> QED
            BY <2>1, <3>1, JobStepByStatus DEF Promise!Moves
    <2> QED
        BY <2>1, <2>2, <2>3, <2>4 DEF Benign
<1>3. ASSUME NEW i \in Ids, UNCHANGED <<sends, starts>>, i \in ClaimedNow => Hit(i),
             i \notin ClaimedNow => Miss(i),
             issued'[i] = IF i \in ClaimedNow THEN issued[i] + 1 ELSE issued[i]
      PROVE  JobStep(i)
    <2>1. Effects'[i] = Effects[i]
        BY <1>3 DEF Effects
    <2>2. CASE i \in ClaimedNow
        <3>1. JobState(queue'[i].status) = "held" /\ JobState(queue[i].status) \in {"open", "held"}
            BY <1>3, <2>2 DEF Hit, JobState, Claimed
        <3> QED
            BY <1>3, <2>1, <2>2, <3>1, JobStepByStatus
    <2>3. CASE i \notin ClaimedNow /\ queue'[i] = queue[i]
        BY <1>3, <2>1, <2>3, JobStepByStatus
    <2>4. CASE i \notin ClaimedNow /\ queue'[i] # queue[i]
        <3>1. \/ JobState(queue[i].status) = "held" /\ JobState(queue'[i].status) = "open"
              \/ JobState(queue[i].status) \in {"held", "open"} /\ JobState(queue'[i].status) = "failed"
            BY <1>3, <2>4 DEF Miss, JobState, Claimed
        <3> QED
            BY <1>3, <2>1, <2>4, <3>1, JobStepByStatus DEF Promise!Moves
    <2> QED
        BY <2>2, <2>3, <2>4
<1>4. ASSUME NEW i \in Ids, DispatchEffect PROVE JobStep(i)
    <2>1. PICK j \in Ids, k \in {0, 1} : /\ Effects[j] < issued[j]
                                         /\ Effects'[j] = Effects[j] + k
                                         /\ \A h \in Ids \ {j} : Effects'[h] = Effects[h]
        BY <1>4 DEF DispatchEffect
    <2>2. queue' = queue /\ issued' = issued
        BY <1>4 DEF DispatchEffect
    <2>3. Effects[i] \in Nat
        BY DEF Effects, Inv, TypeOK, Ids
    <2>4. \/ Effects'[i] = Effects[i]
          \/ Effects[i] < issued[i] /\ Effects'[i] = Effects[i] + 1
        BY <2>1, <2>3
    <2> QED
        BY <2>2, <2>4, JobStepByStatus
<1>5. ASSUME NEW i \in Ids, UNCHANGED <<issued, sends, starts>>, Settled(i)
      PROVE  JobStep(i)
    <2>1. Effects'[i] = Effects[i] /\ issued'[i] = issued[i]
        BY <1>5 DEF Effects
    <2>2. CASE queue'[i] = queue[i]
        BY <2>1, <2>2, JobStepByStatus
    <2>3. CASE queue'[i] # queue[i]
        <3>1. JobState(queue[i].status) \in {"held", "shelved"}
            BY <1>5, <2>3 DEF Settled, JobState, Claimed
        <3>2. CASE queue'[i].status \in {"pending", "error"}
            <4>1. JobState(queue'[i].status) \in {"open", "failed"}
                BY <3>2 DEF JobState, Claimed
            <4> QED
                BY <2>1, <3>1, <4>1, JobStepByStatus DEF Promise!Moves
        <3>3. CASE queue'[i].status \notin {"pending", "error"}
            <4>1. \/ i \in Reminders /\ queue'[i].status = "sent"
                  \/ i \in Tasks /\ queue'[i].status = "dispatched"
                BY <1>5, <2>3, <3>3 DEF Settled
            <4>2. Effects'[i] > 0
                BY <4>1, IdsAssumption DEF Effects, Inv, SettledTruthfully, TypeOK
            <4>3. JobState(queue'[i].status) = "done"
                BY <4>1 DEF JobState, Claimed
            <4> QED
                BY <2>1, <3>1, <4>2, <4>3, JobStepByStatus DEF Promise!Moves
        <3> QED
            BY <3>2, <3>3
    <2> QED
        BY <2>2, <2>3
<1>6. CASE \A i \in Ids : JobStep(i)
    <2>1. DOMAIN issued' = Ids /\ DOMAIN Effects' = Ids
        BY DEF Inv, TypeOK, Effects
    <2> QED
        BY <1>6, <2>1 DEF Promise!Next, JobStep
<1>7. CASE QuietStep
    BY <1>2, <1>6, <1>7
<1>8. CASE /\ issued' = [i \in Ids |-> IF i \in ClaimedNow THEN issued[i] + 1 ELSE issued[i]]
           /\ UNCHANGED <<sends, starts>>
           /\ \A i \in Ids : (i \in ClaimedNow => Hit(i)) /\ (i \notin ClaimedNow => Miss(i))
    BY <1>3, <1>6, <1>8
<1>9. CASE DispatchEffect
    BY <1>4, <1>6, <1>9
<1>10. CASE UNCHANGED <<issued, sends, starts>> /\ \A i \in Ids : Settled(i)
    BY <1>5, <1>6, <1>10
<1> QED
    BY <1>1, <1>7, <1>8, <1>9, <1>10, StepKinds

(* The queue keeps the promise of JobPromise, whatever crashes, lost        *)
(* batches, stale claims and cancellations do to it: an entry takes effect  *)
(* at most once per claim, and done means it did and is final.              *)
THEOREM Refinement == Spec => KeepsPromise
<1>1. Init => Promise!Init
    BY InitRefines
<1>2. Inv /\ Inv' /\ [Next]_vars => [Promise!Next]_(Promise!vars)
    BY StepRefines
<1> QED
    BY <1>1, <1>2, Invariance, PTL DEF Spec, KeepsPromise, Promise!Spec
=============================================================================
