----------------------------- MODULE Workspaces -----------------------------
(***************************************************************************)
(* Creation of continuous tasks and closing of workspaces (src/bot/topics.py *)
(* with the queue operations of scheduler.py they call).  A creation sets up *)
(* a git branch, files, a topic, a state, a queue entry and an agent, under  *)
(* the task's lifecycle lock, and undoes what it did when a step fails.  A   *)
(* closing cancels the workspace's own entries, drains all its continuous    *)
(* children at once, archives the channel and only then forgets the agent.   *)
(* Both hold nothing while they wait but that lock, so they meet each other, *)
(* the tasks' steps, the user's lifecycle commands and other people's work   *)
(* in the repository.                                                        *)
(*                                                                          *)
(* A step of the model runs from one await to the next.  A generation of a   *)
(* task, its topic and its texts are one number.  The lifecycle commands are *)
(* one step each (ContinuousTask has them in full); the four files are the   *)
(* state and the texts; uncommitted changes are not told apart.              *)
(***************************************************************************)
EXTENDS Naturals, FiniteSets

CONSTANTS
    Names,         \* continuous tasks
    Ops,           \* handlers that may run at one time
    MaxStarts,     \* bound: generations, the first included
    MaxUpsets      \* bound: commits made by others and deaths of the bot, together

\* The first two keep a task's name and a handler apart from the model's own words.
ASSUME WorkspacesAssumption ==
    /\ Names \cap {"main", "topic", "switch", "unseen commit", "overlap", "crash"} = {}
    /\ Ops \cap {"pending", "canceled"} = {}
    /\ MaxStarts \in Nat /\ MaxUpsets \in Nat

VARIABLES
    home,       \* the workspace: "open" or "closed"
    plain,      \* its own scheduled entry: "pending", the closing that canceled it
                \* or, after a crash, "canceled"
    agents,     \* tasks registered with the agent manager
    state,      \* state.json of each task
    texts,      \* generation of the plan, with the agent's file, and of the program
    queue,      \* continuous entries of each name
    topics,     \* dedicated topics that are open
    proc,       \* tasks whose step runs
    repo,       \* the work_dir all tasks share
    op,         \* the handlers under way
    starts,     \* generations given out: a creation or a closing takes one
    crashes,
    revived,    \* history: tasks created or resumed after a closing looked
    excused     \* history: what the code gives up on

task == <<agents, state, texts, queue>>
history == <<revived, excused>>
vars == <<home, plain, task, topics, proc, repo, op, starts, crashes, history>>

NoState == [gen |-> 0, status |-> "none", child |-> FALSE, partial |-> FALSE]
NoTexts == [plan |-> 0, program |-> 0]
Idle == [at |-> "idle"]
NoGit == [kind |-> "none", prev |-> "main", tip |-> {}]

At(o, where) == op[o].at = where
Creates(o) == "name" \in DOMAIN op[o]
Closes(o) == ~At(o, "idle") /\ ~Creates(o)
Calm == crashes + repo.made < MaxUpsets
Excuse(what) == excused' = excused \cup what
\* Only a closing asks.
Revives(n) == revived' = IF home = "closed" \/ \E o \in Ops : Closes(o) THEN revived \cup {n} ELSE revived

-----------------------------------------------------------------------------
(***************************************************************************)
(* The stores.                                                              *)
(***************************************************************************)
Live(n) == {e \in queue[n] : e.status = "pending"}
Canceled(entries) == {[e EXCEPT !.status = "canceled"] : e \in entries}

\* Mutant: two requests may both validate before either registers the agent.
Locked_Never(n) == FALSE
\* _lifecycle_task_lock: held by a creation from its snapshot to its end.
Locked(n) == \E o \in Ops : Creates(o) /\ op[o].name = n /\ op[o].at # "lock"

\* add_task: a new entry replaces the canceled ones of its name.
WithEntry(n, g) == Live(n) \cup {[gen |-> g, status |-> "pending"]}

\* create_continuous_task: what a new generation begins with.
NewState(o) == [gen |-> op[o].gen, status |-> "live", child |-> op[o].child, partial |-> FALSE]

\* What is written in one go at the end of a creation, in its order.
Written(o, upto) ==
    LET n == op[o].name  g == op[o].gen IN
    /\ texts' = [texts EXCEPT ![n].program = g]
    /\ state' = IF upto >= 2 THEN [state EXCEPT ![n] = NewState(o)] ELSE state
    /\ queue' = IF upto >= 3 THEN [queue EXCEPT ![n] = WithEntry(n, g)] ELSE queue
    /\ agents' = IF upto >= 4 THEN agents \cup {n} ELSE agents

\* rollback_continuous_creation
QueueSlice(o) == [queue EXCEPT ![op[o].name] = op[o].before.queue]

\* Mutant: an entry that was written stays.
Restored_Queue(o, upto) ==
    LET n == op[o].name  b == op[o].before IN
    /\ queue' = IF upto = 3 THEN [queue EXCEPT ![n] = WithEntry(n, op[o].gen)] ELSE queue
    /\ agents' = agents \ {n}
    /\ state' = [state EXCEPT ![n] = b.state] /\ texts' = [texts EXCEPT ![n] = b.texts]
\* The rollback up to its first await, after "upto" of those writes: the name's queue
\* slice, its agent and its files as they were.
Restored(o, upto) ==
    LET n == op[o].name  b == op[o].before IN
    /\ queue' = QueueSlice(o)
    /\ agents' = agents \ {n}
    /\ state' = [state EXCEPT ![n] = b.state] /\ texts' = [texts EXCEPT ![n] = b.texts]

-----------------------------------------------------------------------------
(***************************************************************************)
(* Creating a continuous task.                                              *)
(***************************************************************************)
Goes(o, where) == op' = [op EXCEPT ![o].at = where]
Ends(o) == op' = [op EXCEPT ![o] = Idle]

\* _resolve_parent_workspace: the workspace whose thread asked, robyx where it is gone.
Parent(child) == child => home = "open"

\* apply_continuous_macros, when the macro passes its gates; one that does not is
\* answered and changes nothing.
BeginCreate(o, n, child) ==
    /\ At(o, "idle") /\ starts < MaxStarts
    /\ Parent(child)
    /\ starts' = starts + 1
    /\ op' = [op EXCEPT ![o] = [at |-> "lock", name |-> n, gen |-> starts + 1, child |-> child,
                                before |-> [state |-> NoState, texts |-> NoTexts,
                                            queue |-> {}, branch |-> FALSE],
                                git |-> NoGit, topic |-> FALSE]]
    /\ UNCHANGED <<home, plain, task, topics, proc, repo, crashes, history>>

\* _validate_new_agent_name
Taken(n) == n \in agents

\* The snapshot, then the validation of the name: a taken one changes nothing.
Reserve(o) ==
    /\ At(o, "lock") /\ ~Locked(op[o].name)
    /\ LET n == op[o].name IN
          IF Taken(n) THEN Ends(o)
          ELSE op' = [op EXCEPT ![o].at = "git",
                                ![o].before = [state |-> state[n], texts |-> texts[n],
                                               queue |-> queue[n],
                                               branch |-> n \in repo.branches]]
    /\ UNCHANGED <<home, plain, task, topics, proc, repo, starts, crashes, history>>

\* _setup_git_branch reads where HEAD is before it creates the branch.
GitRead(o) ==
    /\ At(o, "git")
    /\ op' = [op EXCEPT ![o].at = "checkout", ![o].git.prev = repo.head,
                        ![o].git.tip = repo.tip[repo.head]]
    /\ UNCHANGED <<home, plain, task, topics, proc, repo, starts, crashes, history>>

\* checkout -b, or checkout of a branch that is there already.
GitCheckout(o) ==
    /\ At(o, "checkout")
    /\ LET n == op[o].name IN
          /\ repo' = [repo EXCEPT !.head = n, !.branches = @ \cup {n},
                                  !.tip[n] = IF n \in repo.branches THEN @ ELSE repo.tip[repo.head]]
          /\ Goes(o, IF n \in repo.branches THEN "switched" ELSE "made")
    /\ UNCHANGED <<home, plain, task, topics, proc, starts, crashes, history>>

\* _render_plan_markdown, write_plan_md
PlanWritten(o) == [texts EXCEPT ![op[o].name].plan = op[o].gen]

Planned(o, git) ==
    /\ op' = [op EXCEPT ![o].at = "topic", ![o].git = git]
    /\ texts' = PlanWritten(o)

\* The branch is claimed as it is now; the agent's file and the plan are written.
GitDone(o) ==
    /\ op[o].at \in {"made", "switched"}
    /\ Planned(o, IF At(o, "made") THEN [op[o].git EXCEPT !.kind = "made", !.tip = repo.tip[op[o].name]]
                  ELSE IF op[o].git.prev = op[o].name THEN NoGit
                  ELSE [op[o].git EXCEPT !.kind = "switched", !.tip = repo.tip[op[o].name]])
    /\ UNCHANGED <<home, plain, agents, state, queue, topics, proc, repo, starts, crashes, history>>

\* Without git, without the branch, or when the looks after a switch time out, the
\* task goes on unversioned; the last of these leaves HEAD where it is, unclaimed.
GitGivesUp(o) ==
    /\ op[o].at \in {"git", "checkout", "switched"}
    /\ Planned(o, NoGit)
    /\ Excuse(IF At(o, "switched") THEN {"switch"} ELSE {})
    /\ UNCHANGED <<home, plain, agents, state, queue, topics, proc, repo, starts, crashes, revived>>

TopicMade(o) ==
    /\ At(o, "topic")
    /\ topics' = topics \cup {op[o].gen}
    /\ op' = [op EXCEPT ![o].at = "title", ![o].topic = TRUE]
    /\ UNCHANGED <<home, plain, task, proc, repo, starts, crashes, history>>

Created(o) ==
    /\ At(o, "title")
    /\ Written(o, 4)
    /\ Ends(o)
    /\ Revives(op[o].name)
    /\ UNCHANGED <<home, plain, topics, proc, repo, starts, crashes, excused>>

\* An await of the creation fails or is canceled, or one of its last writes fails.
\* Inside the git set-up that module compensates itself, except where a branch was
\* there already.
CreateFails(o) ==
    /\ Creates(o)
    /\ \/ op[o].at \in {"lock", "git", "checkout"} /\ Ends(o) /\ UNCHANGED <<task, excused>>
       \/ At(o, "switched") /\ Ends(o) /\ Excuse({"switch"}) /\ UNCHANGED task
       \/ /\ At(o, "made")
          /\ op' = [op EXCEPT ![o].at = "check", ![o].git.kind = "made"]
          /\ UNCHANGED <<task, excused>>
       \/ /\ op[o].at \in {"topic", "title"}
          /\ \E upto \in 0..(IF At(o, "title") THEN 3 ELSE 0) : Restored(o, upto)
          /\ Goes(o, IF op[o].topic THEN "archive" ELSE "check")
          /\ UNCHANGED excused
    /\ UNCHANGED <<home, plain, topics, proc, repo, starts, crashes, revived>>

\* A topic that cannot be archived is logged and left.
Archive(o) ==
    /\ At(o, "archive")
    /\ \/ topics' = topics \ {op[o].gen} /\ UNCHANGED excused
       \/ UNCHANGED topics /\ Excuse({"topic"})
    /\ Goes(o, "check")
    /\ UNCHANGED <<home, plain, task, proc, repo, starts, crashes, revived>>

\* Mutant: the branch alone is looked at.
Untouched_Branch(o) == repo.head = op[o].name
\* _compensate_git_setup: HEAD is still on the branch, with the commits it had.
Untouched(o) == repo.head = op[o].name /\ repo.tip[op[o].name] = op[o].git.tip

GitCheck(o) ==
    /\ At(o, "check")
    /\ IF op[o].git.kind # "none" /\ Untouched(o) THEN Goes(o, "back") ELSE Ends(o)
    /\ UNCHANGED <<home, plain, task, topics, proc, repo, starts, crashes, history>>

GitBack(o) ==
    /\ At(o, "back")
    /\ IF op[o].git.prev \in repo.branches
       THEN /\ repo' = [repo EXCEPT !.head = op[o].git.prev]
            /\ IF op[o].git.kind = "made" THEN Goes(o, "drop") ELSE Ends(o)
       ELSE UNCHANGED repo /\ Ends(o)
    /\ UNCHANGED <<home, plain, task, topics, proc, starts, crashes, history>>

\* branch -D refuses the branch HEAD is on.
GitDrop(o) ==
    /\ At(o, "drop")
    /\ repo' = IF repo.head = op[o].name THEN repo
               ELSE [repo EXCEPT !.branches = @ \ {op[o].name}, !.tip[op[o].name] = {}]
    /\ Ends(o)
    /\ UNCHANGED <<home, plain, task, topics, proc, starts, crashes, history>>

-----------------------------------------------------------------------------
(***************************************************************************)
(* Closing the workspace.                                                   *)
(***************************************************************************)
\* Mutant: a task that waits for its user is passed over.
Children_Live == {n \in Names : state[n].child /\ state[n].status = "live"}
Children == {n \in Names : state[n].child /\ state[n].status \in {"live", "waiting"}}

\* cancel_tasks_for_agent_file: what is pending is canceled in this closing's name.
PlainCanceled(o) == IF plain = "pending" THEN o ELSE plain

\* The workspace's own entry is canceled, then every child is looked at once.
BeginClose(o) ==
    /\ At(o, "idle") /\ starts < MaxStarts
    /\ home = "open"
    /\ starts' = starts + 1
    /\ plain' = PlainCanceled(o)
    /\ op' = [op EXCEPT ![o] = [at |-> IF Children = {} THEN "channel" ELSE "drain",
                                child |-> [n \in Names |-> IF n \in Children THEN "lock" ELSE "done"],
                                gen |-> [n \in Names |-> 0]]]
    /\ IF \E p \in Ops : Closes(p)
       THEN Excuse({"overlap"}) /\ UNCHANGED revived
       ELSE revived' = {} /\ UNCHANGED excused
    /\ UNCHANGED <<home, task, topics, proc, repo, crashes>>

Child(o, n, where) == op[o].at \in {"drain", "failed"} /\ op[o].child[n] = where
ChildGoes(o, n, where) == op' = [op EXCEPT ![o].child[n] = where]

\* The generation is noted under the lock, and the entry canceled before anything
\* is waited for.
DrainBegins(o, n) ==
    /\ Child(o, n, "lock") /\ ~Locked(n)
    /\ op' = [op EXCEPT ![o].child[n] = "wait", ![o].gen[n] = state[n].gen]
    /\ queue' = [queue EXCEPT ![n] = Canceled(@)]
    /\ revived' = revived \ {n}
    /\ UNCHANGED <<home, plain, agents, state, texts, topics, proc, repo, starts, crashes, excused>>

\* The step ends by itself or is terminated; a tree that will not die fails the child.
DrainEnds(o, n) ==
    /\ Child(o, n, "wait")
    /\ \/ n \notin proc /\ ChildGoes(o, n, "final") /\ UNCHANGED <<proc, excused>>
       \/ n \in proc /\ proc' = proc \ {n} /\ ChildGoes(o, n, "final") /\ UNCHANGED excused
       \/ n \in proc /\ ChildGoes(o, n, "broken") /\ Excuse({n}) /\ UNCHANGED proc
    /\ UNCHANGED <<home, plain, task, topics, repo, starts, crashes, revived>>

\* Mutant: the failure is not written down.
Marked_Not(s) == s
\* _record_partial_close
Marked(s) == IF s.gen = 0 THEN s ELSE [s EXCEPT !.partial = TRUE]

\* The drain raises, or the closing is canceled: recorded under the lock.
DrainRaises(o, n) ==
    /\ Child(o, n, "wait") /\ ~Locked(n)
    /\ state' = [state EXCEPT ![n] = Marked(@)]
    /\ ChildGoes(o, n, "broken")
    /\ UNCHANGED <<home, plain, agents, texts, queue, topics, proc, repo, starts, crashes, history>>

\* A closing canceled while one of its children waits for the lock.
DrainCut(o, n) ==
    /\ Child(o, n, "lock") \/ Child(o, n, "final")
    /\ ChildGoes(o, n, "broken")
    /\ Excuse(IF Child(o, n, "final") THEN {n} ELSE {})
    /\ UNCHANGED <<home, plain, task, topics, proc, repo, starts, crashes, revived>>

SameGeneration(o, n) == state[n].gen = op[o].gen[n]

\* Reloaded after the drain: another generation fails the child, a terminal one is
\* left, anything else is stopped.
DrainCommits(o, n) ==
    /\ Child(o, n, "final") /\ ~Locked(n)
    /\ \/ ~SameGeneration(o, n) /\ ChildGoes(o, n, "broken") /\ UNCHANGED state
       \/ /\ SameGeneration(o, n) /\ ChildGoes(o, n, "done")
          /\ state' = IF state[n].status = "deleted" THEN state
                      ELSE [state EXCEPT ![n].status = "stopped", ![n].partial = FALSE]
    /\ UNCHANGED <<home, plain, agents, texts, queue, topics, proc, repo, starts, crashes, history>>

\* restore_tasks_canceled_by_transaction
Uncanceled(o) == IF plain = o THEN "pending" ELSE plain

\* gather: all drained, or the first failure, the rest going on unobserved.
Gathered(o) ==
    /\ At(o, "drain")
    /\ \/ /\ \A n \in Names : op[o].child[n] = "done"
          /\ Goes(o, "channel") /\ UNCHANGED plain
       \/ /\ \E n \in Names : op[o].child[n] = "broken"
          /\ Goes(o, "failed") /\ plain' = Uncanceled(o)
    /\ UNCHANGED <<home, task, topics, proc, repo, starts, crashes, history>>

\* The last of the unobserved drains is over.
Unobserved(o) ==
    /\ At(o, "failed")
    /\ \A n \in Names : op[o].child[n] \in {"done", "broken"}
    /\ Ends(o)
    /\ UNCHANGED <<home, plain, task, topics, proc, repo, starts, crashes, history>>

\* The platform closes the channel, or refuses.
CloseChannel(o) ==
    /\ At(o, "channel")
    /\ \/ home' = "closed" /\ UNCHANGED plain
       \/ UNCHANGED home /\ plain' = Uncanceled(o)
    /\ Ends(o)
    /\ UNCHANGED <<task, topics, proc, repo, starts, crashes, history>>

-----------------------------------------------------------------------------
(***************************************************************************)
(* The tasks, their user, the repository and the process.                   *)
(***************************************************************************)
StepStarts(n) ==
    /\ n \notin proc /\ Live(n) # {} /\ state[n].status = "live"
    /\ proc' = proc \cup {n}
    /\ UNCHANGED <<home, plain, task, topics, repo, op, starts, crashes, history>>

\* A step leaves the task as it was, or waiting for its user.
StepEnds(n) ==
    /\ n \in proc
    /\ proc' = proc \ {n}
    /\ \/ state[n].status = "live" /\ state' = [state EXCEPT ![n].status = "waiting"]
       \/ UNCHANGED state
    /\ UNCHANGED <<home, plain, agents, texts, queue, topics, repo, op, starts, crashes, history>>

StopTask(n) ==
    /\ ~Locked(n) /\ state[n].status \in {"live", "waiting"}
    /\ proc' = proc \ {n}
    /\ queue' = [queue EXCEPT ![n] = Canceled(@)]
    /\ state' = [state EXCEPT ![n].status = "stopped"]
    /\ UNCHANGED <<home, plain, agents, texts, topics, repo, op, starts, crashes, history>>

\* reactivate_continuous_task_by_name takes every canceled entry of the name.
ResumeTask(n) ==
    /\ ~Locked(n) /\ state[n].status \in {"stopped", "waiting"}
    /\ queue' = [queue EXCEPT ![n] = {[e EXCEPT !.status = "pending"] : e \in @}]
    /\ state' = [state EXCEPT ![n].status = "live", ![n].partial = FALSE]
    /\ Revives(n)
    /\ UNCHANGED <<home, plain, agents, texts, topics, proc, repo, op, starts, crashes, excused>>

DeleteTask(n) ==
    /\ ~Locked(n) /\ state[n].status \notin {"none", "deleted"}
    /\ proc' = proc \ {n}
    /\ queue' = [queue EXCEPT ![n] = Canceled(@)]
    /\ state' = [state EXCEPT ![n].status = "deleted"]
    /\ agents' = agents \ {n}
    /\ topics' = topics \ {state[n].gen}
    /\ UNCHANGED <<home, plain, texts, repo, op, starts, crashes, history>>

\* Somebody commits to whatever is checked out, during a creation.  Three windows are blind
\* to that: between checkout -b and the look that records its tip, between the
\* compensation's look and its checkout, and from there to its branch -D, when another
\* creation's compensation goes back to the branch.
Commits ==
    /\ Calm /\ \E o \in Ops : Creates(o)
    /\ repo' = [repo EXCEPT !.made = @ + 1, !.tip[repo.head] = @ \cup {repo.made + 1}]
    /\ Excuse(IF \E o \in Ops : op[o].at \in {"made", "back", "drop"} /\ op[o].name = repo.head THEN {"unseen commit"} ELSE {})
    /\ UNCHANGED <<home, plain, task, topics, proc, op, starts, crashes, revived>>

\* The bot dies: between two awaits, or between two of a creation's last writes.
Crash ==
    /\ Calm /\ crashes' = crashes + 1
    /\ \E o \in Ops : ~At(o, "idle")
    /\ op' = [o \in Ops |-> Idle]
    /\ proc' = {}
    /\ plain' = IF plain \in Ops THEN "canceled" ELSE plain
    /\ Excuse({"crash"} \cup {op[o].name : o \in {p \in Ops : Creates(p)}}
                        \cup {n \in Names : \E o \in Ops : Closes(o) /\ ~At(o, "channel")
                                                /\ op[o].child[n] \in {"wait", "final"}})
    /\ \/ \E o \in Ops, upto \in 1..3 : At(o, "title") /\ Written(o, upto)
       \/ UNCHANGED task
    /\ UNCHANGED <<home, topics, repo, starts, revived>>

-----------------------------------------------------------------------------
\* Any of the names may be a child of the workspace, of generation 1, already.
Init ==
    /\ home = "open" /\ plain = "pending"
    /\ agents \in SUBSET Names
    /\ topics = {} /\ proc = {}
    /\ state = [n \in Names |-> IF n \in agents
                   THEN [gen |-> 1, status |-> "live", child |-> TRUE, partial |-> FALSE] ELSE NoState]
    /\ texts = [n \in Names |-> IF n \in agents
                   THEN [plan |-> 1, program |-> 1] ELSE NoTexts]
    /\ queue = [n \in Names |-> IF n \in agents THEN {[gen |-> 1, status |-> "pending"]} ELSE {}]
    /\ repo = [head |-> "main", branches |-> {"main"} \cup agents, made |-> 0,
               tip |-> [b \in Names \cup {"main"} |-> {}]]
    /\ op = [o \in Ops |-> Idle]
    /\ starts = 1 /\ crashes = 0
    /\ revived = {} /\ excused = {}

Create(o) ==
    \/ Reserve(o) \/ GitRead(o) \/ GitCheckout(o) \/ GitDone(o) \/ GitGivesUp(o) \/ TopicMade(o)
    \/ Created(o) \/ Archive(o) \/ GitCheck(o) \/ GitBack(o) \/ GitDrop(o)

Close(o) ==
    \/ Gathered(o) \/ Unobserved(o) \/ CloseChannel(o)
    \/ \E n \in Names : DrainBegins(o, n) \/ DrainEnds(o, n) \/ DrainCommits(o, n)

Next ==
    \/ \E o \in Ops :
          \/ \E n \in Names, child \in BOOLEAN : BeginCreate(o, n, child)
          \/ BeginClose(o)
          \/ Create(o) \/ CreateFails(o)
          \/ Close(o) \/ \E n \in Names : DrainRaises(o, n) \/ DrainCut(o, n)
    \/ \E n \in Names : StepStarts(n) \/ StepEnds(n) \/ StopTask(n) \/ ResumeTask(n) \/ DeleteTask(n)
    \/ Commits \/ Crash

Spec == Init /\ [][Next]_vars

-----------------------------------------------------------------------------
TypeOK ==
    /\ home \in {"open", "closed"} /\ plain \in {"pending", "canceled"} \cup Ops
    /\ agents \subseteq Names /\ proc \subseteq Names /\ revived \subseteq Names
    /\ topics \subseteq 1..starts
    /\ \A n \in Names :
          /\ state[n].gen \in 0..starts
          /\ state[n].status \in {"none", "live", "waiting", "stopped", "deleted"}
          /\ state[n].gen = 0 <=> state[n].status = "none"
          /\ texts[n] \in [{"plan", "program"} -> 0..starts]
          /\ queue[n] \subseteq [gen : 1..starts, status : {"pending", "canceled"}]
    /\ repo.head \in repo.branches /\ repo.branches \subseteq Names \cup {"main"}
    /\ excused \subseteq Names \cup {"topic", "switch", "unseen commit", "overlap", "crash"}

\* However requests for one name meet, one generation of it is ever scheduled, and
\* that is the one its state, its plan and its program are of.
OneTaskPerName ==
    \A n \in Names \ excused :
       Live(n) # {} => /\ Cardinality(queue[n]) = 1
                       /\ \A e \in queue[n] : e.gen = state[n].gen
                       /\ n \in agents
                       /\ state[n].gen = texts[n].program

\* A creation that ends without its task leaves the name as it found it, and its
\* topic closed; alone in the repository, it leaves that too.
FailureLeavesNoTrace ==
    [][\A o \in Ops :
         Creates(o) /\ At(o, "idle")' /\ crashes' = crashes
            /\ state'[op[o].name].gen # op[o].gen /\ ~At(o, "lock")
            /\ op[o].name \notin excused =>
            LET n == op[o].name  b == op[o].before IN
            /\ queue'[n] = b.queue /\ state'[n] = b.state /\ texts'[n] = b.texts
            /\ n \notin agents'
            /\ op[o].gen \in topics' => "topic" \in excused
            /\ starts' = 2 /\ repo'.made = 0 /\ "switch" \notin excused' =>
                  repo'.head = "main" /\ (n \in repo'.branches <=> b.branch)]_vars

\* Undoing a creation never throws away what somebody committed.
NoWorkLost ==
    "unseen commit" \in excused
    \/ \A c \in 1..repo.made : \E b \in repo.branches : c \in repo.tip[b]

\* Once a workspace is closed none of its children runs again, but those created or
\* resumed after the closing had looked at them.
ClosedIsQuiet ==
    home = "closed" =>
       \A n \in Names \ (revived \cup excused) :
          state[n].child /\ state[n].status \in {"live", "waiting"} => Live(n) = {}

\* A closing that stops half way leaves nothing that contradicts itself.  When nothing
\* is under way a task that believes itself live is scheduled, or says that a closing
\* stopped half way; and, closings one at a time, the workspace's own entry is canceled
\* with it and is back when the closing has failed.
PartialIsCoherent ==
    /\ (\A o \in Ops : At(o, "idle")) =>
          \A n \in Names \ excused :
             state[n].status \in {"live", "waiting"} => Live(n) # {} \/ state[n].partial
    /\ (\A o \in Ops : ~Closes(o)) /\ excused \cap {"overlap", "crash"} = {} =>
          (home = "open" <=> plain = "pending")
=============================================================================
