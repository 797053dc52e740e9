------------------------------ MODULE TaskQueue ------------------------------
(***************************************************************************)
(* The scheduler's queue, data/queue.json: reminders, one-shot and periodic *)
(* tasks, the claim tokens that reserve them, and the 60 s cycle that       *)
(* claims due entries, sends or spawns them across awaits, and merges the   *)
(* outcomes back (src/bot/scheduler.py).                                    *)
(*                                                                          *)
(* Every queue operation of the code runs under _queue_mutex (a thread lock *)
(* and a file lock) and replaces the file with os.replace, so it is one     *)
(* atomic action here.  Everything a cycle keeps between two operations     *)
(* lives in the memory of its bot process and is lost when it crashes.      *)
(*                                                                          *)
(* Time is relative: an entry holds the time left until it is due and the   *)
(* age of its claim, and Tick moves both.                                   *)
(***************************************************************************)
EXTENDS Integers, FiniteSets

CONSTANTS
    Bots,                 \* bot processes sharing the queue file
    Reminders,            \* ids of reminder entries
    Tasks,                \* ids of one-shot and periodic entries
    Interval,             \* interval_seconds of a task; 0: one-shot
    Name,                 \* the name of a task; several tasks may share one
    File,                 \* the agent_file of a task
    Closings,             \* attempts to close a workspace (transaction ids)
    ClosingOf,            \* the agent file a closing attempt is about
    Delays,               \* times to the first run an entry is added with
    ClaimTimeout,         \* CLAIM_TIMEOUT_SECONDS
    ReminderMaxAge,       \* REMINDER_MAX_AGE_SECONDS
    MaxReminderAttempts,  \* MAX_REMINDER_ATTEMPTS
    MaxLate,              \* bound: an entry is never more overdue than this
    MaxClaims             \* bound: claims a task may go through

NoClosing == "none"   \* the mark of an entry no closing attempt canceled
NoToken == 0

ASSUME BotsAssumption == Bots # {} /\ IsFiniteSet(Bots)
ASSUME IdsAssumption ==
    /\ Reminders \cap Tasks = {}
    /\ Bots \cap {"unused", "committed", "restored", "interrupted"} = {}
    /\ NoClosing \notin Closings
ASSUME TasksAssumption ==
    /\ Interval \in [Tasks -> Nat]
    /\ DOMAIN Name = Tasks
    /\ DOMAIN File = Tasks
    /\ DOMAIN ClosingOf = Closings
ASSUME TimesAssumption ==
    /\ Delays \subseteq Nat
    /\ ClaimTimeout \in Nat
    /\ ReminderMaxAge \in Nat
    /\ MaxLate \in Nat /\ MaxLate > ReminderMaxAge
ASSUME LimitsAssumption == MaxReminderAttempts \in Nat /\ MaxClaims \in Nat

VARIABLES
    queue,    \* the entries of queue.json, by id
    issued,   \* claim tokens generated so far, by id (a token is a fresh uuid)
    phase,    \* where each bot process is in its cycle
    todo,     \* the claims a bot still has to dispatch in this cycle
    results,  \* the outcomes a bot has not reconciled yet
    closing,  \* where each closing attempt stands; the bot that is running it
    sends,    \* history: deliveries of a reminder that reached the user
    starts,   \* history: processes started for a task
    resets,   \* history: how often a stale claim of an entry was reset
    overdue   \* history: the claims that were found stale

vars == <<queue, issued, phase, todo, results, closing, sends, starts, resets, overdue>>
cycle == <<phase, todo, results>>
history == <<sends, starts, resets, overdue>>

Ids == Reminders \cup Tasks
TaskNames == {Name[t] : t \in Tasks}

ReminderStatus == {"absent", "pending", "sending", "sent", "failed"}
TaskStatus == {"absent", "pending", "dispatching", "dispatched", "error", "canceled"}
Claimed == {"dispatching", "sending"}

Absent == [status |-> "absent", token |-> NoToken, age |-> 0, wait |-> 0,
           attempts |-> 0, closing |-> NoClosing]

Periodic(t) == Interval[t] > 0

-----------------------------------------------------------------------------
(***************************************************************************)
(* Operators over one entry.                                                *)
(***************************************************************************)

\* _next_run_after: advance by whole intervals until strictly in the future.
NextRunAfter(wait, interval) ==
    IF wait > 0 THEN wait ELSE interval - ((-wait) % interval)

ClearClaim(e) == [e EXCEPT !.token = NoToken, !.age = 0]

\* Mutant: a claim never gets stale.
IsStale_Never(e) == FALSE

\* _reset_stale_claims, for one entry.
IsStale(e) == e.status \in Claimed /\ e.age > ClaimTimeout

\* Mutant: a claim is reset whatever its age.
ResetStale_AnyAge(e) ==
    IF e.status \in Claimed THEN [ClearClaim(e) EXCEPT !.status = "pending"] ELSE e

ResetStale(e) ==
    IF IsStale(e) THEN [ClearClaim(e) EXCEPT !.status = "pending"] ELSE e

\* Mutant: an entry another bot has claimed is due as well.
Due_WhateverStatus(e) == e.status \in Claimed \cup {"pending"} /\ e.wait <= 0

Due(e) == e.status = "pending" /\ e.wait <= 0

Expired(e) == -e.wait > ReminderMaxAge \/ e.attempts >= MaxReminderAttempts

\* The entries _claim_due_entries reserves, after the stale claims are reset.
ClaimsReminder(e) == Due(e) /\ ~Expired(e)
ClaimsTask(e, n) == Due(e) /\ n < MaxClaims

Reserve(e, token, status) ==
    [e EXCEPT !.status = status, !.token = token, !.age = 0]

-----------------------------------------------------------------------------
Init ==
    /\ queue = [i \in Ids |-> Absent]
    /\ issued = [i \in Ids |-> 0]
    /\ phase = [b \in Bots |-> "idle"]
    /\ todo = [b \in Bots |-> {}]
    /\ results = [b \in Bots |-> {}]
    /\ closing = [x \in Closings |-> "unused"]
    /\ sends = [i \in Reminders |-> 0]
    /\ starts = [i \in Tasks |-> 0]
    /\ resets = [i \in Ids |-> 0]
    /\ overdue = {}

SomeBotUp == \E b \in Bots : phase[b] # "down"
Closed(file) ==
    \E x \in Closings : ClosingOf[x] = file /\ closing[x] = "committed"

\* add_reminder: a user's reminder is appended as pending.
AddReminder(i, wait) ==
    /\ SomeBotUp
    /\ queue[i].status = "absent"
    /\ queue' = [queue EXCEPT ![i] = [Absent EXCEPT !.status = "pending", !.wait = wait]]
    /\ UNCHANGED <<issued, cycle, closing, history>>

\* add_task: a one-shot or periodic task of a workspace that is still open.
AddTask(i, wait) ==
    /\ SomeBotUp
    /\ queue[i].status = "absent"
    /\ ~Closed(File[i])
    /\ queue' = [queue EXCEPT ![i] = [Absent EXCEPT !.status = "pending", !.wait = wait]]
    /\ UNCHANGED <<issued, cycle, closing, history>>

-----------------------------------------------------------------------------
(***************************************************************************)
(* The scheduler cycle of bot b.                                            *)
(***************************************************************************)

\* Mutant: the attempt is counted when the send is reconciled, not when claimed.
AfterClaim_CountedLater(i) ==
    LET e == ResetStale(queue[i])
    IN  IF i \in Reminders
        THEN IF ClaimsReminder(e) THEN Reserve(e, issued[i] + 1, "sending")
             ELSE IF Due(e) THEN [e EXCEPT !.status = "failed"] ELSE e
        ELSE IF ClaimsTask(e, issued[i])
             THEN Reserve(e, issued[i] + 1, "dispatching")
             ELSE e

\* What _claim_due_entries makes of entry i.
AfterClaim(i) ==
    LET e == ResetStale(queue[i])
    IN  IF i \in Reminders
        THEN IF ClaimsReminder(e)
             THEN [Reserve(e, issued[i] + 1, "sending") EXCEPT !.attempts = @ + 1]
             ELSE IF Due(e) THEN [e EXCEPT !.status = "failed"] ELSE e
        ELSE IF ClaimsTask(e, issued[i])
             THEN Reserve(e, issued[i] + 1, "dispatching")
             ELSE e

ClaimedNow ==
    {i \in Ids : LET e == ResetStale(queue[i])
                 IN  IF i \in Reminders THEN ClaimsReminder(e)
                                        ELSE ClaimsTask(e, issued[i])}

\* The claims a claim pass finds stale.
StaleClaims == {[id |-> i, token |-> queue[i].token] : i \in {j \in Ids : IsStale(queue[j])}}

\* _claim_due_entries: reset stale claims, expire old reminders, reserve what
\* is due under a fresh token; one atomic rewrite of the queue.
ClaimDueEntries(b) ==
    /\ phase[b] = "idle"
    /\ queue' = [i \in Ids |-> AfterClaim(i)]
    /\ issued' = [i \in Ids |-> IF i \in ClaimedNow THEN issued[i] + 1 ELSE issued[i]]
    /\ resets' = [i \in Ids |-> IF IsStale(queue[i]) THEN resets[i] + 1 ELSE resets[i]]
    /\ overdue' = overdue \cup StaleClaims
    /\ todo' = [todo EXCEPT ![b] = {[id |-> i, token |-> issued[i] + 1] : i \in ClaimedNow}]
    /\ phase' = [phase EXCEPT ![b] = "reminders"]
    /\ UNCHANGED <<results, closing, sends, starts>>

\* Mutant: the claim stays on the list.
Handled_KeepsClaim(b, c, outcome) ==
    /\ results' = [results EXCEPT ![b] =
                       @ \cup {[id |-> c.id, token |-> c.token, outcome |-> outcome]}]
    /\ UNCHANGED todo

\* The cycle has dealt with claim c and remembers the outcome.
Handled(b, c, outcome) ==
    /\ todo' = [todo EXCEPT ![b] = @ \ {c}]
    /\ results' = [results EXCEPT ![b] =
                       @ \cup {[id |-> c.id, token |-> c.token, outcome |-> outcome]}]

\* _dispatch_reminders: the platform took the message and returned its ref.
SendReminder(b, c) ==
    /\ phase[b] = "reminders"
    /\ c \in todo[b] /\ c.id \in Reminders
    /\ sends' = [sends EXCEPT ![c.id] = @ + 1]
    /\ Handled(b, c, "sent")
    /\ UNCHANGED <<queue, issued, phase, closing, starts, resets, overdue>>

\* No ref, an exception, no destination, or the 30 s timeout: the user may
\* have got the message all the same.
SendReminderUnconfirmed(b, c) ==
    /\ phase[b] = "reminders"
    /\ c \in todo[b] /\ c.id \in Reminders
    /\ \E got \in {0, 1} : sends' = [sends EXCEPT ![c.id] = @ + got]
    /\ Handled(b, c, "pending")
    /\ UNCHANGED <<queue, issued, phase, closing, starts, resets, overdue>>

\* The result of bot b that still owns its entry: same id and same token.  The
\* entry's status is not looked at.
Owns(b, i) == \E r \in results[b] : r.id = i /\ r.token = queue[i].token
Outcome(b, i) ==
    (CHOOSE r \in results[b] : r.id = i /\ r.token = queue[i].token).outcome

ReconciledReminder(e, outcome) ==
    [ClearClaim(e) EXCEPT !.status = IF outcome = "sent" THEN "sent" ELSE "pending"]

\* Mutant: a dispatched one-shot is left pending.
ReconciledTask_Recurs(e, outcome, interval) ==
    [ClearClaim(e) EXCEPT !.status = IF outcome = "error" THEN "error" ELSE "pending"]

ReconciledTask(e, outcome, interval) ==
    IF outcome = "dispatched" /\ interval > 0
    THEN [ClearClaim(e) EXCEPT !.status = "pending",
                               !.wait = NextRunAfter(e.wait, interval)]
    ELSE [ClearClaim(e) EXCEPT !.status = outcome]

\* _reconcile_reminder_results: once, after the last reminder of the batch.
ReconcileReminderResults(b) ==
    /\ phase[b] = "reminders"
    /\ \A c \in todo[b] : c.id \notin Reminders
    /\ queue' = [i \in Ids |-> IF i \in Reminders /\ Owns(b, i)
                               THEN ReconciledReminder(queue[i], Outcome(b, i))
                               ELSE queue[i]]
    /\ results' = [results EXCEPT ![b] = {}]
    /\ phase' = [phase EXCEPT ![b] = "tasks"]
    /\ UNCHANGED <<issued, todo, closing, history>>

\* check_lock found a live process of that name: skipped, back to pending.
SkipLockedTask(b, c) ==
    /\ phase[b] = "tasks"
    /\ c \in todo[b]
    /\ Handled(b, c, "pending")
    /\ UNCHANGED <<queue, issued, phase, closing, history>>

\* _spawn_agent_task: the process runs and its lock is written.
SpawnAgentTask(b, c) ==
    /\ phase[b] = "tasks"
    /\ c \in todo[b]
    /\ starts' = [starts EXCEPT ![c.id] = @ + 1]
    /\ Handled(b, c, "dispatched")
    /\ UNCHANGED <<queue, issued, phase, closing, sends, resets, overdue>>

\* OSError or ValueError (or a missing agent file): no pid, outcome "error".
\* The write of the lock file can fail after the process has started.
SpawnAgentTaskFails(b, c) ==
    /\ phase[b] = "tasks"
    /\ c \in todo[b]
    /\ \E ran \in {0, 1} : starts' = [starts EXCEPT ![c.id] = @ + ran]
    /\ Handled(b, c, "error")
    /\ UNCHANGED <<queue, issued, phase, closing, sends, resets, overdue>>

\* _reconcile_task_results: once, after the last task of the batch.
ReconcileTaskResults(b) ==
    /\ phase[b] = "tasks"
    /\ todo[b] = {}
    /\ queue' = [i \in Ids |-> IF i \in Tasks /\ Owns(b, i)
                               THEN ReconciledTask(queue[i], Outcome(b, i), Interval[i])
                               ELSE queue[i]]
    /\ results' = [results EXCEPT ![b] = {}]
    /\ phase' = [phase EXCEPT ![b] = "idle"]
    /\ UNCHANGED <<issued, todo, closing, history>>

\* The cycle ends without reconciling: the queue file is unavailable at a
\* reconciliation, or a spawn raises something else than OSError/ValueError
\* (the runtime supervisor is closing).
AbandonBatch(b) ==
    /\ \/ phase[b] = "reminders" /\ \A c \in todo[b] : c.id \notin Reminders
       \/ phase[b] = "tasks"
    /\ results[b] # {} \/ (phase[b] = "tasks" /\ todo[b] # {})
    /\ phase' = [phase EXCEPT ![b] = "idle"]
    /\ todo' = [todo EXCEPT ![b] = {}]
    /\ results' = [results EXCEPT ![b] = {}]
    /\ UNCHANGED <<queue, issued, closing, history>>

\* The bot process dies at any point of its cycle, and of a close it is
\* running, and is started again.
Crash(b) ==
    /\ phase[b] # "down"
    /\ phase' = [phase EXCEPT ![b] = "down"]
    /\ todo' = [todo EXCEPT ![b] = {}]
    /\ results' = [results EXCEPT ![b] = {}]
    /\ closing' = [x \in Closings |-> IF closing[x] = b THEN "interrupted" ELSE closing[x]]
    /\ UNCHANGED <<queue, issued, history>>

Boot(b) ==
    /\ phase[b] = "down"
    /\ phase' = [phase EXCEPT ![b] = "idle"]
    /\ UNCHANGED <<queue, issued, todo, results, closing, history>>

-----------------------------------------------------------------------------
(***************************************************************************)
(* Lifecycle operations, run by message handlers between a cycle's awaits.  *)
(***************************************************************************)

\* cancel_tasks_for_agent_file, the first step of close_workspace: only the
\* pending entries are canceled, tagged with the attempt.  Nothing keeps two
\* attempts apart; the workspace is known until one of them succeeds.
CancelTasksForAgentFile(b, x) ==
    /\ phase[b] # "down"
    /\ closing[x] = "unused"
    /\ ~Closed(ClosingOf[x])
    /\ queue' = [i \in Ids |->
                    IF i \in Tasks /\ File[i] = ClosingOf[x] /\ queue[i].status = "pending"
                    THEN [queue[i] EXCEPT !.status = "canceled", !.closing = x]
                    ELSE queue[i]]
    /\ closing' = [closing EXCEPT ![x] = b]
    /\ UNCHANGED <<issued, cycle, history>>

\* The children of the workspace drained and the channel was closed, over
\* several awaits: the workspace is removed, the queue is not touched again.
CloseWorkspaceSucceeds(b, x) ==
    /\ closing[x] = b
    /\ closing' = [closing EXCEPT ![x] = "committed"]
    /\ UNCHANGED <<queue, issued, cycle, history>>

\* restore_tasks_canceled_by_transaction, when a step of the close failed:
\* what this attempt canceled, and still owns, goes back to pending, except
\* the names of the children that were already drained.
RestoreTasksCanceled(b, x, excluded) ==
    /\ closing[x] = b
    /\ queue' = [i \in Ids |->
                    IF i \in Tasks /\ File[i] = ClosingOf[x]
                       /\ queue[i].status = "canceled" /\ queue[i].closing = x
                    THEN [queue[i] EXCEPT
                             !.status = IF Name[i] \in excluded THEN @ ELSE "pending",
                             !.closing = NoClosing]
                    ELSE queue[i]]
    /\ closing' = [closing EXCEPT ![x] = "restored"]
    /\ UNCHANGED <<issued, cycle, history>>

\* cancel_task_by_name, reached through _handle_mutating: the name is found
\* through an entry that is pending or failed, and every entry of that name
\* that is not terminal is canceled, a claimed one with its token.
CancelTaskByName(name) ==
    /\ SomeBotUp
    /\ \E i \in Tasks : Name[i] = name /\ queue[i].status \in {"pending", "error"}
    /\ queue' = [i \in Ids |->
                    IF i \in Tasks /\ Name[i] = name
                       /\ queue[i].status \notin {"absent", "canceled", "dispatched"}
                    THEN [queue[i] EXCEPT !.status = "canceled"]
                    ELSE queue[i]]
    /\ UNCHANGED <<issued, cycle, closing, history>>

Aged(e) ==
    [e EXCEPT !.wait = IF e.status \in Claimed \cup {"pending", "canceled"} /\ @ > -MaxLate
                       THEN @ - 1 ELSE @,
              !.age = IF e.status \in Claimed /\ @ <= ClaimTimeout THEN @ + 1 ELSE @]

\* The clock moves; ages stop counting where no test tells them apart.
Tick ==
    /\ queue' = [i \in Ids |-> Aged(queue[i])]
    /\ UNCHANGED <<issued, cycle, closing, history>>

-----------------------------------------------------------------------------
Cycle(b) ==
    \/ ClaimDueEntries(b)
    \/ \E c \in todo[b] :
          \/ SendReminder(b, c)
          \/ SendReminderUnconfirmed(b, c)
          \/ SkipLockedTask(b, c)
          \/ SpawnAgentTask(b, c)
          \/ SpawnAgentTaskFails(b, c)
    \/ ReconcileReminderResults(b)
    \/ ReconcileTaskResults(b)
    \/ AbandonBatch(b)

User ==
    \/ \E i \in Reminders, w \in Delays : AddReminder(i, w)
    \/ \E i \in Tasks, w \in Delays : AddTask(i, w)
    \/ \E b \in Bots, x \in Closings :
          \/ CancelTasksForAgentFile(b, x)
          \/ CloseWorkspaceSucceeds(b, x)
          \/ \E excluded \in SUBSET TaskNames : RestoreTasksCanceled(b, x, excluded)
    \/ \E n \in TaskNames : CancelTaskByName(n)

Next ==
    \/ \E b \in Bots : Cycle(b) \/ Crash(b) \/ Boot(b)
    \/ User
    \/ Tick

Spec == Init /\ [][Next]_vars

\* Time passes, the platform's job queue keeps starting cycles, an await of a
\* cycle returns (send_message is bounded by SEND_TIMEOUT_SECONDS), and the
\* service manager restarts a dead bot.  A bot may crash any number of times,
\* but not forever before its next step.  Nothing is assumed of the user, or
\* of what a send or a spawn answers.
Fairness ==
    /\ WF_vars(Tick)
    /\ \A b \in Bots : SF_vars(Cycle(b)) /\ WF_vars(Boot(b))

FairSpec == Spec /\ Fairness

-----------------------------------------------------------------------------
(***************************************************************************)
(* Properties.                                                              *)
(***************************************************************************)

Entry ==
    [status : ReminderStatus \cup TaskStatus, token : Nat, age : 0..(ClaimTimeout + 1), wait : Int,
     attempts : Nat, closing : Closings \cup {NoClosing}]
Claims == [id : Ids, token : Nat \ {0}]
Results == [id : Ids, token : Nat \ {0},
            outcome : {"sent", "pending", "dispatched", "error"}]

\* Every variable stays in its domain: queue.json keeps entries of a known
\* status, a bot's batch is made of claims and outcomes.
TypeOK ==
    /\ queue \in [Ids -> Entry]
    /\ issued \in [Ids -> Nat]
    /\ phase \in [Bots -> {"down", "idle", "reminders", "tasks"}]
    /\ todo \in [Bots -> SUBSET Claims]
    /\ results \in [Bots -> SUBSET Results]
    /\ closing \in [Closings -> {"unused", "committed", "restored", "interrupted"} \cup Bots]
    /\ sends \in [Reminders -> Nat]
    /\ starts \in [Tasks -> Nat]
    /\ resets \in [Ids -> Nat]
    /\ overdue \subseteq [id : Ids, token : Nat]

Unsent(b) == todo[b]
Undecided(b) == {[id |-> r.id, token |-> r.token] : r \in results[b]}

InHands(b) == Unsent(b) \cup Undecided(b)

\* The claim system: a bot has a claim to dispatch or to reconcile and never
\* both, and while it is in its hands nobody, not even a later cycle of the
\* same bot, gets the entry again under any token, unless the first claim was
\* found stale (docs: the lock "prevents two bot processes from
\* double-claiming the same entry").
NoDoubleClaim ==
    /\ \A b \in Bots : Unsent(b) \cap Undecided(b) = {}
    /\ \A a, b \in Bots : \A c \in InHands(a), d \in InHands(b) :
          c.id = d.id => \/ a = b /\ c = d
                         \/ {c, d} \cap overdue # {}

\* A reminder reaches the user at most once per recorded attempt and there are
\* never more than MAX_REMINDER_ATTEMPTS of those, whatever is lost to a crash
\* or to a timed out send: the attempt is durable before the send starts.
SendsWithinAttempts ==
    \A i \in Reminders : /\ sends[i] <= queue[i].attempts
                         /\ queue[i].attempts <= MaxReminderAttempts

\* "sent" and "dispatched" are never claimed of something that did not happen.
SettledTruthfully ==
    /\ \A i \in Reminders : queue[i].status = "sent" => sends[i] >= 1
    /\ \A i \in Tasks : queue[i].status = "dispatched" => starts[i] >= 1

\* A one-shot task runs once, and once more only for each time a stale claim
\* of it was reset (its holder crashed, or took longer than the timeout).
OneShotRunsAccountedFor ==
    \A i \in Tasks : ~Periodic(i) => starts[i] <= 1 + resets[i]

\* What the queue has settled stays settled, whatever result comes in late: no
\* action takes a sent or failed reminder or a dispatched one-shot back.
SettledStays ==
    [][\A i \in Ids : queue[i].status \in {"sent", "failed", "dispatched"}
                         => queue'[i] = queue[i]]_vars

\* A claim is taken from its holder only after the timeout: as long as the
\* entry is claimed and not stale, neither its status nor its token changes,
\* unless the user cancels it, or the bot that holds this very token reconciles
\* it in this step: the claim is gone and the status is the outcome's.
ClaimRespected ==
    [][\A i \in Ids :
          /\ queue[i].status \in Claimed /\ ~IsStale(queue[i])
          /\ \/ queue'[i].status # queue[i].status
             \/ queue'[i].token # queue[i].token
          => \/ queue'[i].status = "canceled" /\ queue'[i].token = queue[i].token
             \/ \E b \in Bots : \E r \in results[b] \ results'[b] :
                   /\ r.id = i /\ r.token = queue[i].token
                   /\ queue'[i].token = NoToken
                   /\ queue'[i].status \in {r.outcome, "pending"}]_vars

\* Every reminder is sent or given up as failed in the end, and no claim is
\* kept for ever: its holder reconciles it, or it goes stale and a later cycle
\* takes it back.
ReminderSettles ==
    \A i \in Reminders :
        queue[i].status # "absent" ~> queue[i].status \in {"sent", "failed"}
ClaimsReleased ==
    \A i \in Ids : \A n \in 1..(MaxClaims + MaxReminderAttempts) :
        (queue[i].status \in Claimed /\ queue[i].token = n)
            ~> ~(queue[i].status \in Claimed /\ queue[i].token = n)
EntriesSettle == ReminderSettles /\ ClaimsReleased

-----------------------------------------------------------------------------
(***************************************************************************)
(* The queue implements the promise made about one job (JobPromise).        *)
(***************************************************************************)

JobState(status) ==
    CASE status \in {"sent", "dispatched"} -> "done"
      [] status \in {"failed", "error"} -> "failed"
      [] status \in Claimed -> "held"
      [] status = "canceled" -> "shelved"
      [] status = "pending" -> "open"
      [] OTHER -> "absent"

Effects == [i \in Ids |-> IF i \in Reminders THEN sends[i] ELSE starts[i]]

Promise == INSTANCE JobPromise WITH
    Jobs <- Ids,
    state <- [i \in Ids |-> JobState(queue[i].status)],
    opened <- issued,
    effects <- Effects

\* The queue, with its crashes, its lost batches and its stale claims, makes
\* the promise of JobPromise for every entry: effects never outnumber claims,
\* done means it happened, and done is final.
KeepsPromise == Promise!Spec
=============================================================================
