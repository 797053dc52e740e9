------------------------------ MODULE AgentTurn -----------------------------
(***************************************************************************)
(* The turns of one agent (src/bot/ai_invoke.py, agents.py): a message      *)
(* interrupts the turn that runs, waits for the agent's lock, starts the    *)
(* CLI as a child process on the agent's session, retries once the session  *)
(* is renewed, and reaps the child in a finally block.  With it the         *)
(* supervisor that tracks and terminates the children                       *)
(* (runtime_supervisor.py) and the registry of pids that outlives a crash   *)
(* (orphan_tracker.py).                                                     *)
(*                                                                          *)
(* An action is the code between two awaits.  A turn that waits for a       *)
(* termination has its pid in "wait"; the termination's result reaches it   *)
(* in "ok", and it goes on in an action of its own, later: others may run   *)
(* in between.                                                              *)
(***************************************************************************)
EXTENDS Integers, Sequences

CONSTANTS
    MaxTurns,      \* bound: invocations of the agent, numbered as they come
    MaxSpawns,     \* bound: child processes, numbered as they are forked
    MaxRetries,    \* MAX_AI_RETRIES
    MaxUpsets      \* bound: session resets and ends of the bot, together

ASSUME BoundsAssumption ==
    {MaxTurns, MaxSpawns, MaxRetries, MaxUpsets} \subseteq Nat

Turns == 1..MaxTurns
NoTurn == 0
Pids == 1..MaxSpawns
NoPid == 0

VARIABLES
    agent,      \* the Agent object: session, busy, running_proc, profile
    holder,     \* the turn that holds agent.lock
    line,       \* the turns that wait for agent.lock, first come first served
    turn,       \* where each turn is
    child,      \* the child processes and the operating system's view of them
    tracked,    \* RuntimeSupervisor._processes
    killing,    \* RuntimeSupervisor._terminations
    registry,   \* active-pids.json: with a start fingerprint, without, absent
    bot,        \* the bot process
    upsets,     \* how many of these there were
    ran,        \* history: sessions a child was started on
    torn,       \* history: sessions a reset issued while a turn held the lock
    blind,      \* history: sessions resumed though no child had run on them
    hidden,     \* history: children whose evidence an interrupt of another erased
    stubborn,   \* history: children that outlived a termination
    unlisted    \* history: children whose spawn or registration was cut short

agentState == <<agent, holder, line>>
system == <<child, tracked, killing, registry>>
history == <<ran, torn, blind, hidden, stubborn, unlisted>>
vars == <<agent, holder, line, turn, child, tracked, killing, registry, bot,
          upsets, ran, torn, blind, hidden, stubborn, unlisted>>

Profiles == {"executive", "participant"}
NoProfile == "no profile"

-----------------------------------------------------------------------------
\* A fresh uuid: sessions are numbered in the order they are issued.
Fresh(a) == [a EXCEPT !.sid = @ + 1, !.started = FALSE]

\* Mutant: the new session inherits the mark of the old one.
Fresh_StillStarted(a) == [a EXCEPT !.sid = @ + 1]

\* _prepare_session_retry: participants have no session of their own.
RenewSession_KeepsStarted(profile) == IF profile = "participant" THEN agent ELSE Fresh_StillStarted(agent)
RenewSession(profile) == IF profile = "participant" THEN agent ELSE Fresh(agent)

\* What interrupt() and the finally block leave behind once the tree stopped.
Cleared(a) == [a EXCEPT !.proc = NoPid, !.busy = FALSE, !.profile = NoProfile]
Settled(a) == [Cleared(a) EXCEPT !.interrupted = FALSE]

\* _process_tree_alive: the leader, or a descendant in its process group.
InTree == {"leader", "group"}

\* Mutant: only the leader is looked at.
TreeAlive_LeaderOnly(p) == p \in tracked /\ child[p].is = "leader"

\* process_tree_alive: a pid the supervisor does not know counts as dead.
TreeAlive(p) == p \in tracked /\ child[p].is \in InTree

NextPid == {p \in Pids : child[p].is = "unused" /\ \A q \in 1..(p - 1) : child[q].is # "unused"}

\* The turn is over; nothing of it is left.
Over == [at |-> "done", profile |-> NoProfile, pid |-> NoPid, wait |-> NoPid,
         ok |-> FALSE, retry |-> 0]

\* terminate_process: terminations of one pid coalesce.
Await(t, p, at) ==
    /\ killing' = killing \cup {p}
    /\ turn' = [turn EXCEPT ![t].at = at, ![t].wait = p]

\* track_process: the pid enters the registry before the turn goes on, with a
\* fingerprint if one can be read.
Track(p, listed) ==
    /\ tracked' = tracked \cup {p}
    /\ registry' = [registry EXCEPT ![p] = listed]

\* untrack_process, for a tree that is gone.
Untrack(p) ==
    /\ tracked' = tracked \ {p}
    /\ registry' = [registry EXCEPT ![p] = "absent"]

-----------------------------------------------------------------------------
(***************************************************************************)
(* The front of a turn: _invoke_ai_with_maintenance_lease.                  *)
(***************************************************************************)
\* A participant must not stop what an executive started.
MayInterrupt_Always(profile) == TRUE
MayInterrupt(profile) == profile = "executive" \/ agent.profile = "participant"

Refused(t, profile) ==
    /\ agent.busy /\ agent.proc # NoPid
    /\ ~MayInterrupt(profile)
    /\ turn' = [turn EXCEPT ![t] = Over]
    /\ UNCHANGED <<agentState, killing>>

Interrupts(t, profile) ==
    /\ agent.busy /\ agent.proc # NoPid
    /\ MayInterrupt(profile)
    /\ agent' = [agent EXCEPT !.interrupted = TRUE]
    /\ killing' = killing \cup {agent.proc}
    /\ turn' = [turn EXCEPT ![t].at = "interrupting", ![t].profile = profile,
                            ![t].wait = agent.proc]
    /\ UNCHANGED <<holder, line>>

Queues(t, profile) ==
    /\ ~(agent.busy /\ agent.proc # NoPid)
    /\ line' = Append(line, t)
    /\ turn' = [turn EXCEPT ![t].at = "queued", ![t].profile = profile]
    /\ UNCHANGED <<agent, holder, killing>>

\* handle_message routes a message to the agent, the next in order.  Only an owner's is
\* routed as an executive turn; the role of a collaborative sender gives the other profile.
Arrives(t) == turn[t].at = "new" /\ bot # "down" /\ \A u \in 1..(t - 1) : turn[u].at # "new"

Message(t, profile) ==
    /\ Arrives(t)
    /\ Refused(t, profile) \/ Interrupts(t, profile) \/ Queues(t, profile)
    /\ UNCHANGED <<child, tracked, registry, bot, upsets, history>>

\* interrupt() goes on: if the tree stopped it clears the agent's fields, which
\* by now may be those of the next turn.
InterruptReturns(t) ==
    /\ turn[t].at = "interrupting" /\ turn[t].wait = NoPid
    /\ agent' = IF turn[t].ok THEN Cleared(agent) ELSE agent
    /\ hidden' = IF turn[t].ok /\ agent.proc # NoPid /\ child[agent.proc].is \in InTree
                 THEN hidden \cup {agent.proc} ELSE hidden
    /\ line' = Append(line, t)
    /\ turn' = [turn EXCEPT ![t].at = "queued", ![t].ok = FALSE]
    /\ UNCHANGED <<holder, system, bot, upsets, ran, torn, blind, stubborn, unlisted>>

-----------------------------------------------------------------------------
(***************************************************************************)
(* The turn proper: _invoke_ai_locked, under the lock.                      *)
(***************************************************************************)
Resumes(a) == a.started

KeepsLock(t) == holder' = IF turn'[t].at = "done" THEN NoTurn ELSE t

\* The finally block, with the agent as the turn leaves it: a tree that lives is
\* terminated, one that is gone forgotten.
Reap(t, a) ==
    /\ a.proc # NoPid /\ TreeAlive(a.proc)
    /\ Await(t, a.proc, "reaping")
    /\ agent' = a
    /\ UNCHANGED <<tracked, registry>>

Settle(t, a) ==
    /\ a.proc = NoPid \/ ~TreeAlive(a.proc)
    /\ IF a.proc = NoPid THEN UNCHANGED <<tracked, registry>> ELSE Untrack(a.proc)
    /\ agent' = Settled(a)
    /\ turn' = [turn EXCEPT ![t] = Over]
    /\ UNCHANGED killing

\* Mutant: the finally block forgets the child whether or not its tree lives.
Finally_NoReap(t, a) ==
    /\ IF a.proc = NoPid THEN UNCHANGED <<tracked, registry>> ELSE Untrack(a.proc)
    /\ agent' = Settled(a)
    /\ turn' = [turn EXCEPT ![t] = Over]
    /\ UNCHANGED killing

Finally(t, a) == Reap(t, a) \/ Settle(t, a)

\* The command is built on the agent's session, and the child forked; then
\* create_subprocess_exec takes some iterations of the event loop to return.
Fork(t, p) ==
    /\ bot = "up"
    /\ child' = [child EXCEPT ![p] = [is |-> "leader", profile |-> turn[t].profile, old |-> FALSE]]
    /\ agent' = [agent EXCEPT !.busy = TRUE, !.profile = turn[t].profile]
    /\ turn' = [turn EXCEPT ![t].at = "spawning", ![t].pid = p]
    /\ IF turn[t].profile = "participant"
       THEN UNCHANGED <<ran, blind>>
       ELSE /\ ran' = ran \cup {agent.sid}
            /\ blind' = IF Resumes(agent) THEN blind \cup ({agent.sid} \ ran) ELSE blind
    /\ UNCHANGED <<tracked, killing, registry>>

\* reject_if_closing, or the program cannot be started.
CannotFork(t) ==
    /\ Finally(t, [agent EXCEPT !.busy = TRUE, !.profile = turn[t].profile])
    /\ UNCHANGED <<child, ran, blind>>

Launch(t) ==
    /\ (\E p \in NextPid : Fork(t, p)) \/ CannotFork(t)
    /\ KeepsLock(t)
    /\ UNCHANGED <<bot, upsets, torn, hidden, stubborn, unlisted>>

\* The lock is free and t is next; from the lock to the fork there is no await.
BeginTurn(t) ==
    /\ line # <<>> /\ Head(line) = t /\ holder = NoTurn
    /\ line' = Tail(line)
    /\ Launch(t)

\* The subprocess object is there.  If the registry cannot be written, or the
\* supervisor is closing, the child is terminated and the turn fails.
SpawnReturns(t, listed) ==
    LET p == turn[t].pid IN
    /\ turn[t].at = "spawning"
    /\ agent' = [agent EXCEPT !.proc = p]
    /\ Track(p, listed)
    /\ unlisted' = IF listed = "absent" THEN unlisted \cup {p} ELSE unlisted
    /\ IF listed = "absent" \/ bot = "closing"
       THEN Await(t, p, "aborting")
       ELSE turn' = [turn EXCEPT ![t].at = "running"] /\ UNCHANGED killing
    /\ UNCHANGED <<holder, line, child, bot, upsets, ran, torn, blind, hidden, stubborn>>

\* _read_stream reads to the end of the output and waits for the leader.
OutputEnds(t) == child[turn[t].pid].is # "leader"

\* The output is an answer.  The session counts as started.
Answers(t) ==
    /\ turn[t].at = "running" /\ OutputEnds(t)
    /\ Finally(t, IF turn[t].profile = "executive"
                  THEN [agent EXCEPT !.started = TRUE] ELSE agent)
    /\ KeepsLock(t)
    /\ UNCHANGED <<line, child, bot, upsets, history>>

\* Mutant: a turn waits for its child as long as that runs.
Fails_NoTimeout(t) ==
    /\ turn[t].at = "running" /\ OutputEnds(t)
    /\ Finally(t, agent)
    /\ KeepsLock(t)
    /\ UNCHANGED <<line, child, bot, upsets, history>>

\* It ends without one: interrupted, or an error that is reported; or nothing
\* was heard for AI_IDLE_TIMEOUT, or AI_TIMEOUT is over.
Fails(t) ==
    /\ turn[t].at = "running"
    /\ Finally(t, agent)
    /\ KeepsLock(t)
    /\ UNCHANGED <<line, child, bot, upsets, history>>

MayRetry(t) == ~agent.interrupted /\ turn[t].retry < MaxRetries

\* It ends with a session collision or a broken stream: the session is renewed
\* and the turn tries again, once the tree of the old child is gone.
Retries(t) ==
    LET a == RenewSession(turn[t].profile) IN
    /\ turn[t].at = "running" /\ OutputEnds(t)
    /\ MayRetry(t)
    /\ IF TreeAlive(turn[t].pid)
       THEN /\ Await(t, turn[t].pid, "retiring")
            /\ agent' = a
            /\ UNCHANGED <<tracked, registry>>
       ELSE /\ Untrack(turn[t].pid)
            /\ agent' = [a EXCEPT !.proc = NoPid, !.busy = FALSE]
            /\ turn' = [turn EXCEPT ![t].at = "sleeping", ![t].ok = FALSE, ![t].retry = @ + 1]
            /\ UNCHANGED killing
    /\ UNCHANGED <<holder, line, child, bot, upsets, history>>

RetireReturns(t) ==
    /\ turn[t].at = "retiring" /\ turn[t].wait = NoPid
    /\ IF turn[t].ok
       THEN /\ agent' = [agent EXCEPT !.proc = NoPid, !.busy = FALSE]
            /\ turn' = [turn EXCEPT ![t].at = "sleeping", ![t].ok = FALSE, ![t].retry = @ + 1]
            /\ UNCHANGED <<killing, tracked, registry>>
       ELSE Finally(t, agent)
    /\ KeepsLock(t)
    /\ UNCHANGED <<line, child, bot, upsets, history>>

\* The pause before a retry is over; the lock was held throughout.
RetryBegins(t) ==
    /\ turn[t].at = "sleeping"
    /\ \/ \E p \in NextPid : Fork(t, p)
       \/ CannotFork(t)
    /\ KeepsLock(t)
    /\ UNCHANGED <<line, bot, upsets, torn, hidden, stubborn, unlisted>>

ReapReturns(t) ==
    /\ turn[t].at = "reaping" /\ turn[t].wait = NoPid
    /\ \/ /\ turn[t].ok \/ turn[t].retry = 0
          /\ agent' = IF turn[t].ok THEN Settled(agent) ELSE [agent EXCEPT !.busy = TRUE]
          /\ turn' = [turn EXCEPT ![t] = Over]
          /\ UNCHANGED <<killing, tracked, registry>>
       \/ \* the finally block of the try before runs as well
          /\ ~turn[t].ok /\ turn[t].retry > 0
          /\ agent' = [agent EXCEPT !.busy = TRUE]
          /\ turn' = [turn EXCEPT ![t].at = "unwinding", ![t].retry = @ - 1]
          /\ UNCHANGED <<killing, tracked, registry>>
    /\ KeepsLock(t)
    /\ UNCHANGED <<line, child, bot, upsets, history>>

\* The exception of an aborted spawn, or a failed reaping, reaches the next
\* finally block.
Unwinds(t) ==
    /\ turn[t].at \in {"aborting", "unwinding"} /\ turn[t].wait = NoPid
    /\ Finally(t, agent)
    /\ KeepsLock(t)
    /\ UNCHANGED <<line, child, bot, upsets, history>>

-----------------------------------------------------------------------------
(***************************************************************************)
(* Children and their supervisor.                                           *)
(***************************************************************************)
\* A child exits, by itself or by a signal; its descendants may live on.
ChildExits(p) ==
    /\ child[p].is \in InTree
    /\ \E s \in {"group", "gone"} \ {child[p].is} : child' = [child EXCEPT ![p].is = s]
    /\ UNCHANGED <<agentState, turn, tracked, killing, registry, bot, upsets, history>>

\* _terminate_process_impl ends: TERM, then KILL, each with a wait.  A tree that
\* is still there stays tracked and registered.
TerminationEnds(p) ==
    LET stopped == child[p].is \notin InTree IN
    /\ p \in killing
    /\ killing' = killing \ {p}
    /\ turn' = [t \in Turns |-> IF turn[t].wait = p
                                THEN [turn[t] EXCEPT !.wait = NoPid, !.ok = stopped]
                                ELSE turn[t]]
    /\ IF stopped THEN Untrack(p) ELSE UNCHANGED <<tracked, registry>>
    /\ stubborn' = IF stopped THEN stubborn ELSE stubborn \cup {p}
    /\ UNCHANGED <<agentState, child, bot, upsets, ran, torn, blind, hidden, unlisted>>

\* shutdown: nothing starts any more, and every tracked tree is terminated.
Shutdown ==
    /\ bot = "up" /\ upsets < MaxUpsets
    /\ bot' = "closing"
    /\ killing' = killing \cup tracked
    /\ UNCHANGED <<agentState, turn, child, tracked, registry, upsets, history>>

\* The process ends: by itself after a shutdown, or in a crash.  What was in its
\* memory is lost, its children live on.
BotEnds ==
    /\ bot # "down" /\ upsets < MaxUpsets
    /\ upsets' = upsets + 1
    /\ bot' = "down"
    /\ agent' = Settled(agent) /\ holder' = NoTurn /\ line' = <<>>
    /\ turn' = [t \in Turns |-> IF turn[t].at = "new" THEN turn[t]
                                ELSE Over]
    /\ tracked' = {} /\ killing' = {}
    /\ child' = [p \in Pids |-> [child[p] EXCEPT !.old = child[p].is \in InTree]]
    /\ unlisted' = unlisted \cup {turn[t].pid : t \in {u \in Turns : turn[u].at = "spawning"}}
    /\ UNCHANGED <<registry, ran, torn, blind, hidden, stubborn>>

\* While the bot is down the system may give the pid of a dead child away.
PidReused(p) ==
    /\ bot = "down" /\ registry[p] # "absent" /\ child[p].is \notin InTree
    /\ child' = [child EXCEPT ![p].is = "stranger"]
    /\ UNCHANGED <<agentState, turn, tracked, killing, registry, bot, upsets, history>>

\* process_identity_matches: the fingerprint taken at the spawn is that of the
\* process which has the pid now.
Ours(p) == registry[p] = "identified" /\ child[p].is = "leader"

\* cleanup_on_startup: kill what is ours, drop what is gone, keep the rest.
Boot ==
    /\ bot = "down"
    /\ bot' = "up"
    /\ \E killed \in SUBSET {p \in Pids : Ours(p)} :
          /\ child' = [p \in Pids |-> IF p \in killed THEN [child[p] EXCEPT !.is = "gone"]
                                      ELSE child[p]]
          /\ registry' = [p \in Pids |->
                            IF p \notin killed /\ child[p].is \in {"leader", "stranger"}
                            THEN registry[p] ELSE "absent"]
    /\ UNCHANGED <<agentState, turn, tracked, killing, upsets, history>>

\* /reset and /clear, at any time.
ResetSession ==
    /\ bot = "up" /\ upsets < MaxUpsets
    /\ upsets' = upsets + 1
    /\ agent' = Fresh(agent)
    /\ torn' = IF holder = NoTurn THEN torn ELSE torn \cup {agent.sid + 1}
    /\ UNCHANGED <<holder, line, turn, system, bot, ran, blind, hidden,
                   stubborn, unlisted>>

\* The new release has other prompts: its sessions are renewed before the restart, when
\* the update has waited for all turns to end.
InvalidateSessions ==
    /\ bot = "up" /\ upsets < MaxUpsets
    /\ \A t \in Turns : turn[t].at \in {"new", "done"}
    /\ upsets' = upsets + 1
    /\ agent' = Fresh(agent)
    /\ UNCHANGED <<holder, line, turn, system, bot, ran, torn, blind, hidden,
                   stubborn, unlisted>>

-----------------------------------------------------------------------------
\* The agent has had turns before; a reset makes it a new one.
Init ==
    /\ agent = [sid |-> 0, started |-> TRUE, busy |-> FALSE, interrupted |-> FALSE,
                proc |-> NoPid, profile |-> NoProfile]
    /\ holder = NoTurn /\ line = <<>>
    /\ turn = [t \in Turns |-> [at |-> "new", profile |-> NoProfile, pid |-> NoPid,
                                wait |-> NoPid, ok |-> FALSE, retry |-> 0]]
    /\ child = [p \in Pids |-> [is |-> "unused", profile |-> NoProfile, old |-> FALSE]]
    /\ tracked = {} /\ killing = {} /\ registry = [p \in Pids |-> "absent"]
    /\ bot = "up" /\ upsets = 0
    /\ ran = {0} /\ torn = {} /\ blind = {}
    /\ hidden = {} /\ stubborn = {} /\ unlisted = {}

TurnEnds(t) == Answers(t) \/ Fails(t) \/ Retries(t)

TurnStep(t) ==
    \/ BeginTurn(t) \/ TurnEnds(t) \/ RetryBegins(t)
    \/ \E listed \in {"identified", "bare", "absent"} : SpawnReturns(t, listed)
    \/ InterruptReturns(t) \/ RetireReturns(t) \/ ReapReturns(t) \/ Unwinds(t)

Next ==
    \/ \E t \in Turns : TurnStep(t) \/ \E profile \in Profiles : Message(t, profile)
    \/ \E p \in Pids : ChildExits(p) \/ TerminationEnds(p) \/ PidReused(p)
    \/ Shutdown \/ BotEnds \/ Boot \/ ResetSession \/ InvalidateSessions

Spec == Init /\ [][Next]_vars

\* The event loop runs what is ready; a turn's reading ends, after AI_TIMEOUT at
\* the latest; a termination is bounded by its two waits.
FairSpec ==
    /\ Spec
    /\ \A t \in Turns : WF_vars(TurnStep(t))
    /\ \A p \in Pids : WF_vars(TerminationEnds(p))

-----------------------------------------------------------------------------
(***************************************************************************)
(* Properties.                                                              *)
(***************************************************************************)
Wherever == {"new", "interrupting", "queued", "spawning", "running", "retiring",
             "sleeping", "reaping", "aborting", "unwinding", "done"}

\* Every variable stays in its domain; a turn retries at most MAX_AI_RETRIES times.
TypeOK ==
    /\ agent \in [sid : Nat, started : BOOLEAN, busy : BOOLEAN, interrupted : BOOLEAN,
                  proc : Pids \cup {NoPid}, profile : Profiles \cup {NoProfile}]
    /\ holder \in Turns \cup {NoTurn}
    /\ line \in Seq(Turns)
    /\ turn \in [Turns -> [at : Wherever, profile : Profiles \cup {NoProfile},
                           pid : Pids \cup {NoPid}, wait : Pids \cup {NoPid},
                           ok : BOOLEAN, retry : 0..MaxRetries]]
    /\ child \in [Pids -> [is : {"unused", "leader", "group", "gone", "stranger"},
                           profile : Profiles \cup {NoProfile}, old : BOOLEAN]]
    /\ tracked \subseteq Pids /\ killing \subseteq Pids
    /\ registry \in [Pids -> {"identified", "bare", "absent"}]
    /\ bot \in {"up", "closing", "down"}
    /\ upsets \in 0..MaxUpsets
    /\ ran \subseteq Nat /\ torn \subseteq Nat /\ blind \subseteq Nat
    /\ hidden \subseteq Pids /\ stubborn \subseteq Pids /\ unlisted \subseteq Pids

\* Two process trees never work for the agent at once (lock, interrupt, retry and
\* finally block together), unless one outlived a termination, or the end of an
\* interrupt erased the evidence of the child that came after its victim.
OneTreePerAgent ==
    \A p, q \in {r \in Pids : child[r].is \in InTree /\ ~child[r].old} :
        p # q => {p, q} \cap (stubborn \cup hidden) # {}

\* A session is resumed only if a child was started on it before (otherwise the
\* CLI answers that it does not exist), except one that a /reset or /clear issued
\* while a turn was in hand: that turn's end marks it as started.
ResumesOnlyWhatRan == blind \subseteq torn

\* A living child is in the registry, where the next start finds it, but for the
\* time of its spawn and when the spawn or the registration was cut short.
ChildrenAreListed ==
    \A p \in Pids :
        child[p].is = "leader" /\ registry[p] = "absent"
            => p \in unlisted \/ \E t \in Turns : turn[t].at = "spawning" /\ turn[t].pid = p

\* Nobody's process is killed by one who may not: the turn of a participant never
\* interrupts a child that an executive started, unless it is one that could not be
\* stopped before; the clean-up at start-up never kills a process that was given the
\* pid of a dead child.
SparesOthers ==
    [][/\ \A t \in Turns :
             turn'[t].at = "interrupting" /\ turn[t].at = "new" /\ turn'[t].profile = "participant"
                 => \/ child[turn'[t].wait].profile = "participant"
                    \/ turn'[t].wait \in stubborn
       /\ \A p \in Pids : child[p].is = "stranger" => child'[p].is = "stranger"]_vars

\* Every message is answered, refused, or lost with the process: when no more of
\* them come every turn ends, whatever its child does.
EveryTurnEnds ==
    LET Idle == \A t \in Turns : turn[t].at \in {"new", "done"} IN ~Idle ~> Idle
=============================================================================
