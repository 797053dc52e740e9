--------------------------- MODULE TopicRecovery ---------------------------
(***************************************************************************)
(* The dedicated topic of one continuous task, and what happens when it      *)
(* cannot be reached (src/bot/topic_recovery.py, with its callers in         *)
(* scheduler.py and scheduled_delivery.py).  A failed send, title, pin or    *)
(* reminder opens an episode in the task's state: the topic is recreated a   *)
(* bounded number of times, the text that failed is kept and sent again, and *)
(* an event somebody must act on goes to the control room once when the      *)
(* window has passed.  Recovery holds the task's lifecycle lock; the title,  *)
(* the pin and the reminder are saved without it, from a copy read before    *)
(* an await, and so is whatever the step's agent writes.                     *)
(*                                                                          *)
(* A step of the model runs from one await to the next.  Every platform call *)
(* may fail at any time.  A text is one chunk; the commands of the user are  *)
(* one step each, but for the deletion (ContinuousTask and Workspaces have   *)
(* them in full), and so are a title and the pin that goes with it.          *)
(***************************************************************************)
EXTENDS Naturals

CONSTANTS
    MaxAttempts,    \* MAX_RECOVERY_ATTEMPTS
    MaxTopics,      \* bound: topics ever made, the first included
    MaxActs         \* bound: steps dispatched, commands given and deaths of the bot, together

ASSUME RecoveryAssumption ==
    /\ MaxAttempts \in Nat /\ MaxTopics \in Nat \ {0}
    /\ MaxActs \in Nat

VARIABLES
    disk,       \* state.json
    route,      \* thread_id of the queue entry
    canceled,   \* the entry is canceled
    live,       \* the step's process runs
    job,        \* where the tick, the delivery watcher and the user's handler are
    topics,     \* topics made
    acts,
    alerts,     \* history: alerts that may have reached the control room since the
                \* last time the topic was known to work
    reached,    \* history: the waiting text has just reached the topic, its pin has not
    torn        \* history: a save put older fields back, or a death fell between two

counters == <<topics, acts>>
history == <<alerts, reached, torn>>
vars == <<disk, route, canceled, live, job, counters, history>>

Actors == {"tick", "delivery", "user"}
Statuses == {"ready", "running", "awaiting", "error", "stopped", "deleted"}
Idle == [at |-> "idle"]
\* A copy of which no more than the status is used, and none.
Glance(s) == [status |-> s.status]
NoCopy == [status |-> "none"]
Inside == {"resend", "create", "undo", "send", "alert", "archive"}

At(a, where) == job[a].at = where
Copy(a) == job[a].copy
\* _lifecycle_task_lock
Locked == \E a \in Actors : job[a].at \in Inside

\* A save of what was read just before, and one of what "a" has made of its copy: that
\* one is torn when the file has moved on.
Stores(s) == disk' = s /\ UNCHANGED torn
Saves(a, s) == disk' = s /\ torn' = (torn \/ disk # Copy(a))
Reads == UNCHANGED <<disk, torn>>

Goes(a, where) == job' = [job EXCEPT ![a] = [at |-> where]]
Ends(a) == job' = [job EXCEPT ![a] = Idle]
Holds(a, where, by, why, s) ==
    job' = [job EXCEPT ![a] = [at |-> where, by |-> by, why |-> why, pend |-> FALSE,
                               copy |-> s, mine |-> NoCopy]]
Moves(a, where, s) ==
    job' = [job EXCEPT ![a].at = where, ![a].copy = s, ![a].why = FALSE, ![a].pend = FALSE]

\* The caller of a recovery: who it is, whether somebody must act on the event, whether
\* a text waits, and the caller's own copy, which it takes up again afterwards.
Calls(a, by, why, pend, mine) ==
    job' = [job EXCEPT ![a] = [at |-> "lock", by |-> by, why |-> why, pend |-> pend,
                               copy |-> NoCopy, mine |-> mine]]

-----------------------------------------------------------------------------
(***************************************************************************)
(* The state.                                                               *)
(***************************************************************************)
\* _actionable_event
Actionable(s, why) == why \/ s.status \in {"awaiting", "error"}

\* Mutant: each failure opens the episode again.
Noted_Again(s, why, pend) ==
    [s EXCEPT !.since = "young", !.attempts = IF s.since = "none" THEN 0 ELSE @,
              !.event = @ \/ Actionable(s, why), !.pending = @ \/ pend]
\* The failure is written down: an episode keeps its beginning and its attempts.
Noted(s, why, pend) ==
    [s EXCEPT !.since = IF @ = "none" THEN "young" ELSE @,
              !.attempts = IF s.since = "none" THEN 0 ELSE @,
              !.event = @ \/ Actionable(s, why), !.pending = @ \/ pend]

\* The topic works: the end of an episode but for the text.
Reachable(s) == [s EXCEPT !.since = "none", !.event = FALSE, !.attempts = 0, !.sent = FALSE]
\* ... and nothing waits.
Settled(s) == [Reachable(s) EXCEPT !.pending = FALSE, !.candidate = FALSE]
\* A topic has been made; a text that waits makes it a candidate.
Recreated(s, t) == [Reachable(s) EXCEPT !.topic = t, !.candidate = s.pending]

\* Mutant: the state of a topic nothing routes to stays.
Uncommitted_Kept(s, t) == Recreated(s, t)
\* The queue refused the new topic: the state as it was.
Uncommitted(s, t) == s

\* _restore_awaiting_visuals
Shown(s) == IF s.status = "awaiting" THEN [s EXCEPT !.title = s.status] ELSE s

\* The control room hears of it when the window has passed.
Due(s) == s.event /\ s.since = "old" /\ ~s.sent

\* Mutant: the claim is not written down.
Claimed_Not(s) == s
\* The claim precedes the message.
Claimed(s) == [s EXCEPT !.sent = TRUE]

-----------------------------------------------------------------------------
(***************************************************************************)
(* recover_unreachable_topic, for each of its callers.                      *)
(***************************************************************************)
\* What the tick needs of its copy once the title is done: all of it, to write down the
\* death of a step.
Kept(s) == IF s.status = "running" THEN s ELSE Glance(s)

\* Back in the caller, which learns whether its text was delivered.
Returns(a, delivered) ==
    LET j == job[a] IN
    CASE j.by = "title" -> Holds(a, "dispatch", "title", FALSE, j.mine)
      [] j.by = "death" -> Goes(a, "incident")
      [] j.by = "incident" -> Goes(a, "retry")
      [] j.by = "retry" -> Goes(a, "reminder")
      [] j.by = "reminder" /\ delivered -> Holds(a, "reminded", "reminder", TRUE, j.mine)
      [] a = "delivery" /\ delivered -> Goes(a, "reach")
      [] OTHER -> Ends(a)

\* An exception: each caller is cut short where its own handler catches it.  Only a pin
\* tries again, and only when the topic is the reason.
Raises(a, unreachable) ==
    LET j == job[a] IN
    CASE j.by \in {"title", "death", "incident"} -> Goes(a, "retry")
      [] j.by = "retry" -> Goes(a, "reminder")
      [] j.by = "pin" /\ unreachable -> Calls(a, "pin again", TRUE, TRUE, NoCopy)
      [] j.by = "pin" /\ ~unreachable -> Goes(a, "reach")
      [] OTHER -> Ends(a)

\* The fallback to the control room, once nothing else is left in this call.
GivesUp(a, s) == IF Due(s) THEN Moves(a, "alert", NoCopy) ELSE Returns(a, FALSE)
GivenUp(s, fresh) == IF Due(s) THEN Claimed(fresh) ELSE fresh

\* Mutant: a deleted task is recovered, too.
Gone_Never == FALSE
Gone == disk.status = "deleted"

EnterRecovery(a) ==
    /\ At(a, "lock") /\ ~Locked
    /\ LET s == Noted(disk, job[a].why, job[a].pend) IN
       \/ Gone /\ Returns(a, FALSE) /\ Reads
       \/ /\ ~Gone /\ s.pending /\ s.candidate
          /\ Moves(a, "resend", s) /\ Stores(s)
       \/ /\ ~Gone /\ ~(s.pending /\ s.candidate) /\ s.attempts < MaxAttempts
          /\ LET tried == [s EXCEPT !.attempts = @ + 1] IN
                Moves(a, "create", tried) /\ Stores(tried)
       \/ /\ ~Gone /\ ~(s.pending /\ s.candidate) /\ s.attempts >= MaxAttempts
          /\ GivesUp(a, s) /\ Stores(GivenUp(s, s))
    /\ reached' = FALSE
    /\ UNCHANGED <<route, canceled, live, counters, alerts>>

\* The text goes to the candidate again; where that fails no other topic is made.
Resend(a) ==
    /\ At(a, "resend")
    /\ \/ /\ Saves(a, Shown(Settled(Copy(a)))) /\ alerts' = 0
          /\ Returns(a, TRUE) /\ UNCHANGED reached
       \/ /\ Copy(a).status = "awaiting"          \* sent, but the pin raised
          /\ Reads /\ Raises(a, TRUE) /\ reached' = TRUE /\ UNCHANGED alerts
       \/ /\ GivesUp(a, Copy(a)) /\ Saves(a, GivenUp(Copy(a), Copy(a)))
          /\ UNCHANGED <<alerts, reached>>
    /\ UNCHANGED <<route, canceled, live, counters>>

\* create_channel returned nothing, and so left nothing to save, or raised.
CreateFails(a) ==
    /\ At(a, "create")
    /\ GivesUp(a, Copy(a))
    /\ \/ Stores(GivenUp(Copy(a), disk))
       \/ Saves(a, GivenUp(Copy(a), Copy(a)))
    /\ UNCHANGED <<route, canceled, live, counters, alerts, reached>>

\* repoint_continuous_topic: a canceled entry has no route to change, and refuses.
CreateSucceeds(a) ==
    /\ At(a, "create") /\ topics < MaxTopics
    /\ topics' = topics + 1
    /\ LET s == Recreated(Copy(a), topics + 1) IN
       IF canceled
       THEN /\ Saves(a, Uncommitted(Copy(a), topics + 1))
            /\ Moves(a, "undo", NoCopy) /\ UNCHANGED <<route, alerts>>
       ELSE /\ Saves(a, s) /\ alerts' = 0
            /\ route' = topics + 1
            /\ IF s.pending THEN Moves(a, "send", Glance(s)) ELSE Returns(a, TRUE)
    /\ UNCHANGED <<canceled, live, acts, reached>>

\* _compensate_created_topic, archived or not: then the refusal goes up.
Undo(a) ==
    /\ At(a, "undo") /\ Raises(a, FALSE)
    /\ UNCHANGED <<disk, route, canceled, live, counters, history>>

\* The text goes to the new topic.  Where it fails the episode begins again, without
\* the event.
SendPending(a) ==
    /\ At(a, "send")
    /\ \/ /\ Stores(Shown([disk EXCEPT !.pending = FALSE, !.candidate = FALSE]))
          /\ Returns(a, TRUE)
       \/ Copy(a).status = "awaiting" /\ Reads /\ Raises(a, TRUE)
       \/ Stores([disk EXCEPT !.since = "young"]) /\ Returns(a, FALSE)
    /\ UNCHANGED <<route, canceled, live, counters, alerts, reached>>

\* The message to the control room: only a plain refusal gives the claim back.
Alert(a) ==
    /\ At(a, "alert")
    /\ \/ Stores([disk EXCEPT !.sent = FALSE]) /\ UNCHANGED alerts
       \/ Reads /\ alerts' \in {alerts, IF alerts < 2 THEN alerts + 1 ELSE alerts}
    /\ Returns(a, FALSE)
    /\ UNCHANGED <<route, canceled, live, counters, reached>>

-----------------------------------------------------------------------------
(***************************************************************************)
(* One tick of the scheduler: the entry, the open episode, the reminder.    *)
(***************************************************************************)
\* _handle_continuous_entries: the title follows the status.
TickLooks ==
    /\ At("tick", "idle")
    /\ LET asks == disk.status \in {"awaiting", "error"} IN
       \/ canceled /\ Goes("tick", "retry")
       \/ ~canceled /\ disk.title # disk.status /\ Holds("tick", "title", "title", asks, disk)
       \/ ~canceled /\ disk.title = disk.status /\ Holds("tick", "dispatch", "title", FALSE, Kept(disk))
    /\ UNCHANGED <<disk, route, canceled, live, counters, history>>

\* _sync_continuous_topic_marker
EditTitle ==
    /\ At("tick", "title")
    /\ LET j == job["tick"]  shown == [j.copy EXCEPT !.title = j.copy.status] IN
       \/ /\ Saves("tick", shown)
          /\ IF j.by = "death" THEN Goes("tick", "incident")
             ELSE Holds("tick", "dispatch", "title", FALSE, Kept(shown))
       \/ Reads /\ Calls("tick", j.by, j.why, FALSE, IF j.by = "death" THEN NoCopy ELSE Kept(j.copy))
    /\ UNCHANGED <<route, canceled, live, counters, alerts, reached>>

\* The step is dispatched from a fresh state; a step found dead is written down from
\* the copy, as one to try again or as an incident.
Dispatch ==
    /\ At("tick", "dispatch")
    /\ LET s == Copy("tick")
           ready == s.status = "ready" /\ disk.status = "ready" /\ ~canceled /\ acts < MaxActs
           dead == s.status = "running" /\ ~live /\ At("delivery", "idle")
           died == [s EXCEPT !.status = "error"] IN
       \/ /\ ready /\ Stores([disk EXCEPT !.status = "running"])
          /\ live' = TRUE /\ acts' = acts + 1 /\ Goes("tick", "retry")
       \/ /\ dead /\ Saves("tick", [s EXCEPT !.status = "ready"])
          /\ Goes("tick", "retry") /\ UNCHANGED <<live, acts>>
       \/ /\ dead /\ Saves("tick", died)
          /\ Holds("tick", "title", "death", TRUE, died) /\ UNCHANGED <<live, acts>>
       \/ ~ready /\ ~dead /\ Reads /\ Goes("tick", "retry") /\ UNCHANGED <<live, acts>>
    /\ UNCHANGED <<route, canceled, topics, alerts, reached>>

\* _deliver_orphan_incident
Incident ==
    /\ At("tick", "incident")
    /\ \/ Goes("tick", "retry")
       \/ Calls("tick", "incident", TRUE, TRUE, NoCopy)
    /\ UNCHANGED <<disk, route, canceled, live, counters, history>>

\* retry_unreachable_topics
Retry ==
    /\ At("tick", "retry")
    /\ IF disk.since # "none" THEN Calls("tick", "retry", disk.event, FALSE, NoCopy)
       ELSE Goes("tick", "reminder")
    /\ UNCHANGED <<disk, route, canceled, live, counters, history>>

\* _dispatch_awaiting_reminders, when the question is old enough or not.
Remind ==
    /\ At("tick", "reminder")
    /\ \/ Ends("tick")
       \/ /\ disk.status = "awaiting" /\ ~disk.reminded
          /\ Holds("tick", "remind", "reminder", TRUE, disk)
    /\ UNCHANGED <<disk, route, canceled, live, counters, history>>

SendReminder ==
    /\ At("tick", "remind")
    /\ \/ Moves("tick", "reminded", Copy("tick"))
       \/ Calls("tick", "reminder", TRUE, TRUE, Copy("tick"))
       \/ Ends("tick")
    /\ UNCHANGED <<disk, route, canceled, live, counters, history>>

\* Saved from the copy read before the reminder went out and the topic was recovered.
Reminded ==
    /\ At("tick", "reminded")
    /\ Saves("tick", [Copy("tick") EXCEPT !.reminded = TRUE])
    /\ Ends("tick")
    /\ UNCHANGED <<route, canceled, live, counters, alerts, reached>>

-----------------------------------------------------------------------------
(***************************************************************************)
(* The step and the watcher that delivers its output.                       *)
(***************************************************************************)
\* The agent writes how the step went, or dies first.
StepEnds ==
    /\ live /\ At("delivery", "idle")
    /\ live' = FALSE
    /\ \E status \in {disk.status, "ready", "awaiting"} :
          Stores([disk EXCEPT !.status = status, !.reminded = @ /\ status # "awaiting"])
    /\ Goes("delivery", "exited")
    /\ UNCHANGED <<route, canceled, counters, alerts, reached>>

\* deliver_task_output: nothing goes to a topic that is being archived or has been (the
\* one write of "deleted" sets archived_at with it), nor does a silent step's output.
DeliverLooks ==
    /\ At("delivery", "exited")
    /\ \/ Ends("delivery")
       \/ /\ ~disk.deleting /\ disk.status # "deleted"
          /\ \E failed \in BOOLEAN :
                LET asks == disk.status = "awaiting" IN
                Holds("delivery", "deliver", IF asks THEN "question" ELSE "delivery",
                      failed \/ asks, NoCopy)
    /\ UNCHANGED <<disk, route, canceled, live, counters, history>>

Deliver ==
    /\ At("delivery", "deliver")
    /\ LET j == job["delivery"] IN
       \/ j.by = "question" /\ Holds("delivery", "pin", "pin", TRUE, disk)
       \/ j.by # "question" /\ Goes("delivery", "reach")
       \/ Calls("delivery", "delivery", j.why, TRUE, NoCopy)
       \/ Ends("delivery")
    /\ UNCHANGED <<disk, route, canceled, live, counters, history>>

\* pin_awaiting_message and the title, saved together.
Pin ==
    /\ At("delivery", "pin")
    /\ \/ /\ Saves("delivery", [Copy("delivery") EXCEPT !.title = Copy("delivery").status])
          /\ Goes("delivery", "reach")
       \/ /\ Reads
          /\ \/ Goes("delivery", "reach")
             \/ Calls("delivery", "pin", TRUE, TRUE, NoCopy)
             \/ Calls("delivery", "pin again", TRUE, TRUE, NoCopy)
    /\ UNCHANGED <<route, canceled, live, counters, alerts, reached>>

\* mark_topic_reachable
MarkReachable ==
    /\ At("delivery", "reach")
    /\ LET open == disk.since # "none" \/ disk.sent \/ disk.pending IN
       \/ ~open /\ Reads /\ UNCHANGED alerts
       \/ open /\ ~Locked /\ Stores(Settled(disk)) /\ alerts' = 0
    /\ Ends("delivery")
    /\ UNCHANGED <<route, canceled, live, counters, reached>>

-----------------------------------------------------------------------------
(***************************************************************************)
(* The user's commands.                                                     *)
(***************************************************************************)
\* The drain: the entry is canceled and a running step ends, to be delivered.
Drained ==
    /\ canceled' = TRUE /\ live' = FALSE
    /\ (live => At("delivery", "idle"))
    /\ acts < MaxActs /\ acts' = acts + 1
Exited == IF live THEN [at |-> "exited"] ELSE job["delivery"]

Stop ==
    /\ At("user", "idle") /\ ~Locked
    /\ disk.status \notin {"stopped", "deleted"}
    /\ Drained /\ job' = [job EXCEPT !["delivery"] = Exited]
    /\ Stores([disk EXCEPT !.status = "stopped"])
    /\ UNCHANGED <<route, topics, alerts, reached>>

Resume ==
    /\ At("user", "idle") /\ ~Locked /\ acts < MaxActs
    /\ disk.status \in {"stopped", "awaiting", "error"}
    /\ canceled' = FALSE /\ acts' = acts + 1
    /\ Stores([disk EXCEPT !.status = "ready"])
    /\ UNCHANGED <<route, live, job, topics, alerts, reached>>

\* _delete_task writes its intent and drains ...
Delete ==
    /\ At("user", "idle") /\ ~Locked /\ disk.status # "deleted"
    /\ Drained
    /\ LET s == [disk EXCEPT !.deleting = TRUE] IN
          /\ Stores(s)
          /\ job' = [job EXCEPT !["delivery"] = Exited,
                                !["user"] = [at |-> "archive", copy |-> s]]
    /\ UNCHANGED <<route, topics, alerts, reached>>

\* ... and leaves a tombstone once the topic has been archived, or could not be.
Archive ==
    /\ At("user", "archive")
    /\ Saves("user", [Copy("user") EXCEPT !.status = "deleted", !.deleting = FALSE])
    /\ Ends("user")
    /\ UNCHANGED <<route, canceled, live, counters, alerts, reached>>

-----------------------------------------------------------------------------
\* The window passes, in the file and in every copy of it.
Aged(s) == IF "since" \notin DOMAIN s THEN s ELSE [s EXCEPT !.since = IF @ = "young" THEN "old" ELSE @]
Elapse ==
    /\ disk.since = "young"
    /\ disk' = Aged(disk)
    /\ job' = [a \in Actors |->
                 IF "mine" \in DOMAIN job[a]
                 THEN [job[a] EXCEPT !.copy = Aged(@), !.mine = Aged(@)]
                 ELSE IF "copy" \in DOMAIN job[a] THEN [job[a] EXCEPT !.copy = Aged(@)]
                 ELSE job[a]]
    /\ UNCHANGED <<route, canceled, live, counters, history>>

\* The bot dies and is started again: what it was doing is lost, steps are killed, and
\* the state may have been saved without the route.
Crash ==
    /\ acts < MaxActs /\ acts' = acts + 1
    /\ job' = [a \in Actors |-> Idle] /\ live' = FALSE
    /\ \/ UNCHANGED <<disk, topics, history>>
       \/ \E a \in Actors :
             /\ At(a, "create") /\ topics < MaxTopics
             /\ topics' = topics + 1
             /\ disk' = Recreated(Copy(a), topics + 1)
             /\ torn' = TRUE /\ alerts' = 0 /\ UNCHANGED reached
    /\ UNCHANGED <<route, canceled>>

-----------------------------------------------------------------------------
Recovers(a) ==
    \/ EnterRecovery(a) \/ Resend(a) \/ CreateFails(a) \/ CreateSucceeds(a)
    \/ Undo(a) \/ SendPending(a) \/ Alert(a)
Tick ==
    \/ TickLooks \/ EditTitle \/ Dispatch \/ Incident \/ Retry
    \/ Remind \/ SendReminder \/ Reminded \/ Recovers("tick")
Delivery == DeliverLooks \/ Deliver \/ Pin \/ MarkReachable \/ Recovers("delivery")
User == Stop \/ Resume \/ Delete \/ Archive

First == [status |-> "ready", topic |-> 1, title |-> "running", since |-> "none",
          attempts |-> 0, pending |-> FALSE, candidate |-> FALSE, event |-> FALSE,
          sent |-> FALSE, reminded |-> FALSE, deleting |-> FALSE]

Init ==
    /\ disk = First
    /\ route = 1 /\ canceled = FALSE /\ live = FALSE
    /\ job = [a \in Actors |-> Idle]
    /\ topics = 1 /\ acts = 0
    /\ alerts = 0 /\ reached = FALSE /\ torn = FALSE

Next == Tick \/ Delivery \/ User \/ StepEnds \/ Elapse \/ Crash

\* The scheduler ticks, its calls and the watcher's return, and time passes.
Fairness == WF_vars(Tick) /\ WF_vars(Delivery) /\ WF_vars(Archive) /\ WF_vars(Elapse)

Spec == Init /\ [][Next]_vars /\ Fairness

-----------------------------------------------------------------------------
(***************************************************************************)
(* Properties.                                                              *)
(***************************************************************************)
State == [status : Statuses, topic : 1..MaxTopics, title : Statuses,
          since : {"none", "young", "old"}, attempts : 0..MaxAttempts,
          pending : BOOLEAN, candidate : BOOLEAN, event : BOOLEAN, sent : BOOLEAN,
          reminded : BOOLEAN, deleting : BOOLEAN]

\* What the variables hold.
TypeOK ==
    /\ disk \in State /\ route \in 1..MaxTopics
    /\ canceled \in BOOLEAN /\ live \in BOOLEAN
    /\ \A a \in Actors : "copy" \in DOMAIN job[a] => Copy(a) \in State \cup [status : Statuses \cup {"none"}]
    /\ topics \in 1..MaxTopics /\ acts \in 0..MaxActs
    /\ alerts \in 0..2 /\ reached \in BOOLEAN /\ torn \in BOOLEAN

\* The control room hears of one episode once, through retries, lost answers and
\* restarts: the claim precedes the message and only a sure refusal gives it back.  A
\* save made from an old copy can lose the claim (topic_recovery.py:324-386).
AlertsOnce == torn \/ alerts <= 1

\* The state and the queue name the same topic, whoever recovers it and whatever the
\* user does meanwhile: a topic the queue refuses is not kept (topic_recovery.py:249-275).
RoutesMeet == torn \/ route = disk.topic

\* Nothing a recovery, a delivery or a reminder still has in hand revives a task that
\* has been deleted, makes a topic for it or alerts the control room about it
\* (topic_recovery.py:162-165); again but for saves of old copies.
DeletedStays ==
    [][disk.status = "deleted" =>
          \/ disk'.status = "deleted" /\ topics' = topics /\ alerts' <= alerts
          \/ torn']_vars

\* An event somebody must act on is told: as long as it lasts, either the topic is found
\* to work again, the text reaches it, or the control room's alert is claimed
\* (topic_recovery.py:300-331).
EveryEpisodeSettles ==
    disk.since # "none" /\ disk.event
        ~> disk.since = "none" \/ ~disk.event \/ disk.sent \/ reached \/ disk.status = "deleted"
=============================================================================
