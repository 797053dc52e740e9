---------------------------- MODULE AgentTurnProofs ----------------------------
(***************************************************************************)
(* Theorems about AgentTurn, for any number of turns, children, retries and *)
(* upsets.                                                                  *)
(***************************************************************************)
EXTENDS AgentTurn, TLAPS

USE DEF NoTurn, NoPid, NoProfile

-----------------------------------------------------------------------------
(***************************************************************************)
(* The inductive invariant.                                                 *)
(***************************************************************************)
\* The turns that have the lock.
Locked == {"spawning", "running", "retiring", "sleeping", "reaping", "aborting", "unwinding"}
Ending == {"retiring", "reaping", "aborting"}

\* Whoever waits for the lock is in line once; whoever is past it has it.
LineOK ==
    /\ \A k \in 1..Len(line) : turn[line[k]].at = "queued"
    /\ \A j, k \in 1..Len(line) : line[j] = line[k] => j = k
LockOK ==
    /\ \A t \in Turns : turn[t].at \in Locked => holder = t
    /\ holder # NoTurn => turn[holder].at \in Locked
    /\ \A t \in Turns : turn[t].at = "retiring" => turn[t].retry < MaxRetries

\* A child that is known was started, and is tracked as long as its tree lives.
ProcOK ==
    /\ agent.proc # NoPid => /\ child[agent.proc].is # "unused"
                             /\ child[agent.proc].is \in InTree => agent.proc \in tracked
    /\ \A t \in Turns : turn[t].at = "spawning" =>
          /\ turn[t].pid # NoPid /\ child[turn[t].pid].is # "unused"
          /\ agent.profile \in {NoProfile, child[turn[t].pid].profile}

\* The session is one a child ran on, or a reset issued it in the middle of a turn.
SessionOK ==
    /\ agent.started => agent.sid \in ran \cup torn
    /\ \A t \in Turns : turn[t].at \in {"spawning", "running"} /\ turn[t].profile = "executive"
          => agent.sid \in ran \cup torn
    /\ ResumesOnlyWhatRan

\* The trees nobody has an excuse for.
Unexcused == {p \in Pids : child[p].is \in InTree /\ ~child[p].old} \ (stubborn \cup hidden)
\* They are in the charge of the turn that has the lock.
ChargeOK ==
    \A p \in Unexcused :
       /\ holder # NoTurn /\ turn[holder].pid = p
       /\ \/ turn[holder].at = "spawning"
          \/ agent.proc = p /\ turn[holder].at = "running"
          \/ agent.proc = p /\ turn[holder].at \in Ending /\ turn[holder].wait = p

\* The child the agent shows is that of the turn that has the lock, whose profile it
\* shows, or one that could not be stopped.
ShownOK ==
    /\ agent.proc # NoPid /\ agent.proc \notin stubborn =>
          /\ holder # NoTurn /\ turn[holder].pid = agent.proc
          /\ turn[holder].at \in Ending \cup {"running"}
          /\ agent.profile \in {NoProfile, child[agent.proc].profile}
    /\ \A t \in Turns : turn[t].at = "running" => agent.proc \in {NoPid, turn[t].pid}
    /\ \A t \in Turns : turn[t].at \in Ending /\ agent.proc # NoPid =>
          \/ turn[t].wait = agent.proc
          \/ turn[t].wait = NoPid /\ (~turn[t].ok => agent.proc \in stubborn)

Inv == /\ TypeOK /\ LineOK /\ LockOK /\ ProcOK /\ SessionOK /\ ChargeOK /\ ShownOK
       /\ ChildrenAreListed

-----------------------------------------------------------------------------
(***************************************************************************)
(* The parts about the line and the lock.                                   *)
(***************************************************************************)
AgentType ==
    [sid : Nat, started : BOOLEAN, busy : BOOLEAN, interrupted : BOOLEAN,
     proc : Pids \cup {NoPid}, profile : Profiles \cup {NoProfile}]
TurnType ==
    [at : Wherever, profile : Profiles \cup {NoProfile}, pid : Pids \cup {NoPid},
     wait : Pids \cup {NoPid}, ok : BOOLEAN, retry : 0..MaxRetries]
ChildType ==
    [is : {"unused", "leader", "group", "gone", "stranger"},
     profile : Profiles \cup {NoProfile}, old : BOOLEAN]

LEMMA Numbers == NoTurn \notin Turns /\ NoPid \notin Pids
    BY DEF Turns, Pids

OthersStay(t) == \A u \in Turns \ {t} : turn'[u] = turn[u]

\* The updates of one turn, which TurnType allows.
LEMMA TurnRecords ==
    ASSUME NEW x \in TurnType
    PROVE  /\ x.retry \in 0..MaxRetries
           /\ x.pid \in Pids \cup {NoPid} /\ x.profile \in Profiles \cup {NoProfile}
           /\ \A at \in Wherever, w \in Pids : [x EXCEPT !.at = at, !.wait = w] \in TurnType
           /\ \A at \in Wherever : [x EXCEPT !.at = at] \in TurnType
           /\ \A at \in Wherever, n \in 0..MaxRetries :
                 /\ [x EXCEPT !.at = at, !.ok = FALSE, !.retry = n] \in TurnType
                 /\ [x EXCEPT !.at = at, !.retry = n] \in TurnType
    BY DEF TurnType

LEMMA OverIsTurn == Over \in TurnType /\ Over.at = "done"
    BY BoundsAssumption DEF Over, TurnType, Wherever

\* The updates of one turn.
Goes(t, at) == turn' \in [Turns -> TurnType] /\ OthersStay(t) /\ turn'[t].at = at
Same(t) == turn'[t].pid = turn[t].pid /\ turn'[t].profile = turn[t].profile /\ turn'[t].retry = turn[t].retry

LEMMA TurnUpdates ==
    ASSUME turn \in [Turns -> TurnType], NEW t \in Turns, NEW at \in Wherever
    PROVE  /\ \A w \in Pids : turn' = [turn EXCEPT ![t].at = at, ![t].wait = w] =>
                 Goes(t, at) /\ Same(t) /\ turn'[t].wait = w
           /\ turn' = [turn EXCEPT ![t].at = at] => Goes(t, at) /\ turn'[t].pid = turn[t].pid
                                                    /\ turn'[t].profile = turn[t].profile
           /\ turn' = [turn EXCEPT ![t] = Over] => Goes(t, "done")
           /\ turn[t].retry < MaxRetries
              /\ turn' = [turn EXCEPT ![t].at = at, ![t].ok = FALSE, ![t].retry = @ + 1] => Goes(t, at)
           /\ turn[t].retry > 0
              /\ turn' = [turn EXCEPT ![t].at = at, ![t].retry = @ - 1] => Goes(t, at)
<1>1. MaxRetries \in Nat /\ turn[t] \in TurnType
    BY BoundsAssumption
<1> DEFINE r == turn[t].retry
<1>2. r \in 0..MaxRetries
    BY <1>1, TurnRecords
<1>3. (r < MaxRetries => r + 1 \in 0..MaxRetries) /\ (r > 0 => r - 1 \in 0..MaxRetries)
    BY <1>1, <1>2
<1>4. ASSUME NEW x \in TurnType, turn' = [turn EXCEPT ![t] = x] PROVE turn' \in [Turns -> TurnType] /\ OthersStay(t) /\ turn'[t] = x
    BY <1>4 DEF OthersStay
<1>5. ASSUME NEW w \in Pids, turn' = [turn EXCEPT ![t].at = at, ![t].wait = w]
      PROVE  Goes(t, at) /\ Same(t) /\ turn'[t].wait = w
    <2> DEFINE x == [turn[t] EXCEPT !.at = at, !.wait = w]
    <2>1. turn' = [turn EXCEPT ![t] = x]
        BY <1>5
    <2>2. x \in TurnType
        BY <1>1, TurnRecords
    <2>3. /\ x.at = at /\ x.wait = w /\ x.pid = turn[t].pid
          /\ x.profile = turn[t].profile /\ x.retry = turn[t].retry
        BY <1>1 DEF TurnType
    <2> HIDE DEF x
    <2>4. turn' \in [Turns -> TurnType] /\ OthersStay(t) /\ turn'[t] = x
        BY <1>4, <2>1, <2>2
    <2> QED
        BY <2>3, <2>4 DEF Goes, Same
<1>6. ASSUME turn' = [turn EXCEPT ![t].at = at]
      PROVE  Goes(t, at) /\ turn'[t].pid = turn[t].pid /\ turn'[t].profile = turn[t].profile
    <2> DEFINE x == [turn[t] EXCEPT !.at = at]
    <2>1. turn' = [turn EXCEPT ![t] = x]
        BY <1>6
    <2>2. x \in TurnType
        BY <1>1, TurnRecords
    <2>3. x.at = at /\ x.pid = turn[t].pid /\ x.profile = turn[t].profile
        BY <1>1 DEF TurnType
    <2> HIDE DEF x
    <2>4. turn' \in [Turns -> TurnType] /\ OthersStay(t) /\ turn'[t] = x
        BY <1>4, <2>1, <2>2
    <2> QED
        BY <2>3, <2>4 DEF Goes, Same
<1>7. ASSUME r < MaxRetries,
             turn' = [turn EXCEPT ![t].at = at, ![t].ok = FALSE, ![t].retry = @ + 1]
      PROVE  Goes(t, at)
    <2> DEFINE x == [turn[t] EXCEPT !.at = at, !.ok = FALSE, !.retry = r + 1]
    <2>1. turn' = [turn EXCEPT ![t] = x]
        BY <1>7
    <2>2. x \in TurnType
        BY <1>1, <1>3, <1>7, TurnRecords
    <2>3. x.at = at
        BY <1>1 DEF TurnType
    <2> HIDE DEF x
    <2>4. turn' \in [Turns -> TurnType] /\ OthersStay(t) /\ turn'[t] = x
        BY <1>4, <2>1, <2>2
    <2> QED
        BY <2>3, <2>4 DEF Goes, Same
<1>8. ASSUME r > 0, turn' = [turn EXCEPT ![t].at = at, ![t].retry = @ - 1]
      PROVE  Goes(t, at)
    <2> DEFINE x == [turn[t] EXCEPT !.at = at, !.retry = r - 1]
    <2>1. turn' = [turn EXCEPT ![t] = x]
        BY <1>8
    <2>2. x \in TurnType
        BY <1>1, <1>3, <1>8, TurnRecords
    <2>3. x.at = at
        BY <1>1 DEF TurnType
    <2> HIDE DEF x
    <2>4. turn' \in [Turns -> TurnType] /\ OthersStay(t) /\ turn'[t] = x
        BY <1>4, <2>1, <2>2
    <2> QED
        BY <2>3, <2>4 DEF Goes, Same
<1> QED
    BY <1>4, <1>5, <1>6, <1>7, <1>8, OverIsTurn DEF Goes

LEMMA AwaitUpdate ==
    ASSUME TypeOK, NEW t \in Turns, NEW at \in Wherever, NEW p \in Pids, Await(t, p, at)
    PROVE  Goes(t, at) /\ Same(t) /\ turn'[t].wait = p /\ killing' \subseteq Pids
<1>1. turn \in [Turns -> TurnType] /\ killing \subseteq Pids
    BY DEF TypeOK, TurnType
<1>2. turn' = [turn EXCEPT ![t].at = at, ![t].wait = p] /\ killing' = killing \cup {p}
    BY DEF Await
<1>3. Goes(t, at) /\ Same(t) /\ turn'[t].wait = p
    BY <1>1, <1>2, TurnUpdates
<1> QED
    BY <1>1, <1>2, <1>3

\* t has the lock, or takes it as the first in line.
Enters(t) ==
    \/ holder = NoTurn /\ line # <<>> /\ Head(line) = t /\ line' = Tail(line)
    \/ turn[t].at \in Locked /\ line' = line

LEMMA LineEntered ==
    ASSUME line \in Seq(Turns), LineOK, NEW t \in Turns, Enters(t), OthersStay(t)
    PROVE  line' \in Seq(Turns) /\ LineOK'
<1>1. CASE line # <<>> /\ Head(line) = t /\ line' = Tail(line)
    <2>1. line' \in Seq(Turns) /\ Len(line) \in Nat /\ Len(line) > 0 /\ Len(line') = Len(line) - 1
        BY <1>1
    <2>2. \A k \in 1..Len(line') : line'[k] = line[k + 1] /\ k + 1 \in 1..Len(line)
        BY <1>1, <2>1
    <2>3. line[1] = t /\ 1 \in 1..Len(line)
        BY <1>1, <2>1
    <2>4. \A k \in 1..Len(line') : line'[k] # t /\ line'[k] \in Turns
        BY <2>1, <2>2, <2>3 DEF LineOK
    <2>5. \A k \in 1..Len(line') : turn'[line'[k]].at = "queued"
        BY <2>2, <2>4 DEF OthersStay, LineOK
    <2>6. \A j, k \in 1..Len(line') : line'[j] = line'[k] => j = k
        <3> SUFFICES ASSUME NEW j \in 1..Len(line'), NEW k \in 1..Len(line'), line'[j] = line'[k]
                     PROVE  j = k
            OBVIOUS
        <3>1. j + 1 = k + 1
            BY <2>2 DEF LineOK
        <3> QED
            BY <3>1, <2>1
    <2> QED
        BY <2>1, <2>5, <2>6 DEF LineOK
<1>2. CASE turn[t].at \in Locked /\ line' = line
    <2>1. \A k \in 1..Len(line) : line[k] \in Turns /\ line[k] # t
        BY <1>2 DEF LineOK, Locked
    <2> QED
        BY <1>2, <2>1 DEF LineOK, OthersStay
<1> QED
    BY <1>1, <1>2 DEF Enters

LEMMA LineJoined ==
    ASSUME line \in Seq(Turns), LineOK, NEW t \in Turns, turn[t].at # "queued",
           turn'[t].at = "queued", OthersStay(t), line' = Append(line, t)
    PROVE  line' \in Seq(Turns) /\ LineOK'
<1>1. /\ line' \in Seq(Turns) /\ Len(line) \in Nat /\ Len(line') = Len(line) + 1
      /\ \A k \in 1..Len(line) : line'[k] = line[k] /\ line[k] # t /\ line[k] \in Turns
      /\ line'[Len(line) + 1] = t
    BY DEF LineOK
<1>2. \A k \in 1..Len(line') : k \in 1..Len(line) \/ k = Len(line) + 1
    BY <1>1
<1>3. \A k \in 1..Len(line') : turn'[line'[k]].at = "queued"
    BY <1>1, <1>2 DEF LineOK, OthersStay
<1>4. \A j, k \in 1..Len(line') : line'[j] = line'[k] => j = k
    BY <1>1, <1>2 DEF LineOK
<1> QED
    BY <1>1, <1>3, <1>4 DEF LineOK

LEMMA LineStays ==
    ASSUME line \in Seq(Turns), LineOK, line' = line,
           \A t \in Turns : turn[t].at = "queued" => turn'[t].at = "queued"
    PROVE  line' \in Seq(Turns) /\ LineOK'
<1>1. \A k \in 1..Len(line) : line[k] \in Turns
    OBVIOUS
<1> QED
    BY <1>1 DEF LineOK

\* Only one turn is past the lock, and the one who enters is it.
LEMMA EnterFacts ==
    ASSUME Inv, NEW t \in Turns, Enters(t)
    PROVE  /\ holder \in {NoTurn, t}
           /\ \A u \in Turns \ {t} : turn[u].at \notin Locked
           /\ holder = NoTurn => turn[t].at = "queued"
           /\ turn[t].at \in Locked => holder = t
<1>1. holder \in {NoTurn, t} /\ (turn[t].at \in Locked => holder = t)
    BY DEF Enters, Inv, LockOK
<1>2. \A u \in Turns \ {t} : turn[u].at \notin Locked
    BY <1>1, Numbers DEF Inv, LockOK
<1>3. holder = NoTurn => turn[t].at = "queued"
    <2> SUFFICES ASSUME holder = NoTurn PROVE turn[t].at = "queued"
        OBVIOUS
    <2>1. line # <<>> /\ Head(line) = t
        BY <1>1, Numbers DEF Enters
    <2>0. line \in Seq(Turns)
        BY DEF Inv, TypeOK
    <2>2. line[1] = t /\ 1 \in 1..Len(line)
        BY <2>0, <2>1
    <2> QED
        BY <2>2 DEF Inv, LineOK
<1> QED
    BY <1>1, <1>2, <1>3

LEMMA LockKept ==
    ASSUME Inv, NEW t \in Turns, Enters(t), OthersStay(t), KeepsLock(t),
           turn'[t].at \in Locked \cup {"done"},
           turn'[t].at = "retiring" => turn'[t].retry < MaxRetries
    PROVE  /\ LockOK' /\ holder' \in Turns \cup {NoTurn}
           /\ turn'[t].at = "done" => holder' = NoTurn
           /\ turn'[t].at # "done" => holder' = t
<1>1. \A u \in Turns \ {t} : turn'[u].at \notin Locked
    BY EnterFacts DEF OthersStay
<1> QED
    BY <1>1 DEF KeepsLock, LockOK, Locked

\* What the steps of others leave alone.
LEMMA LockUntouched ==
    ASSUME LockOK, holder \in Turns \cup {NoTurn}, holder' = holder,
           \A t \in Turns : \/ turn'[t].at = turn[t].at /\ turn'[t].retry = turn[t].retry
                            \/ turn[t].at \notin Locked /\ turn'[t].at \notin Locked
    PROVE  LockOK'
    BY DEF LockOK, Locked

\* With no turn in the charge of a tree, every tree has its excuse.
LEMMA NobodyInCharge ==
    ASSUME Inv, \/ holder = NoTurn
                \/ turn[holder].at \in {"sleeping", "unwinding"}
                \/ turn[holder].at \in Ending /\ turn[holder].wait = NoPid
    PROVE  /\ Unexcused = {}
           /\ turn[holder].at \in {"sleeping", "unwinding"} \/ holder = NoTurn
                 => agent.proc = NoPid \/ agent.proc \in stubborn
<1>1. Unexcused \subseteq Pids
    BY DEF Unexcused
<1> QED
    BY <1>1, Numbers DEF Inv, ChargeOK, Ending, ShownOK

-----------------------------------------------------------------------------
(***************************************************************************)
(* The turn that has the lock.                                              *)
(***************************************************************************)

\* A child is forked: until its process object is there nobody else can know of it.
LEMMA ForkStep ==
    ASSUME Inv, NEW t \in Turns, NEW p \in NextPid, Enters(t),
           turn[t].at \in Locked => turn[t].at = "sleeping",
           Fork(t, p), KeepsLock(t),
           UNCHANGED <<bot, upsets, torn, hidden, stubborn, unlisted>>
    PROVE  Inv'
<1>1. /\ TypeOK /\ p \in Pids /\ child[p].is = "unused"
      /\ agent \in AgentType /\ turn \in [Turns -> TurnType] /\ child \in [Pids -> ChildType]
    BY DEF Inv, TypeOK, NextPid, AgentType, TurnType, ChildType
<1>2. /\ child' \in [Pids -> ChildType]
      /\ child'[p].is = "leader" /\ child'[p].profile = turn[t].profile
      /\ \A q \in Pids \ {p} : child'[q] = child[q]
    <2>1. turn[t].profile \in Profiles \cup {NoProfile}
        BY <1>1 DEF TurnType
    <2>2. child' = [child EXCEPT ![p] = [is |-> "leader", profile |-> turn[t].profile, old |-> FALSE]]
        BY DEF Fork
    <2>3. [is |-> "leader", profile |-> turn[t].profile, old |-> FALSE] \in ChildType
        BY <2>1 DEF ChildType
    <2> QED
        BY <1>1, <2>2, <2>3
<1>3. /\ agent' \in AgentType /\ agent'.proc = agent.proc /\ agent'.sid = agent.sid
      /\ agent'.started = agent.started /\ agent'.profile = turn[t].profile
    BY <1>1 DEF Fork, AgentType, TurnType
<1>4. /\ turn' \in [Turns -> TurnType] /\ OthersStay(t)
      /\ turn'[t].at = "spawning" /\ turn'[t].pid = p /\ turn'[t].profile = turn[t].profile
    BY <1>1, ZenonT(40) DEF Fork, TurnType, OthersStay, Wherever
<1>5. /\ UNCHANGED <<tracked, killing, registry, bot, upsets, torn, hidden, stubborn, unlisted>>
      /\ ran \subseteq ran' /\ ran' \subseteq ran \cup {agent.sid}
      /\ turn[t].profile = "executive" => agent.sid \in ran'
      /\ blind' \subseteq blind \cup {agent.sid}
      /\ agent.sid \in blind' /\ agent.sid \notin blind => agent.started /\ agent.sid \notin ran
    BY DEF Fork, Resumes
<1>6. LineOK' /\ line' \in Seq(Turns)
    BY <1>1, <1>4, LineEntered DEF Inv, TypeOK
<1>7. LockOK' /\ holder' = t
    BY <1>4, LockKept DEF Locked
<1>8. TypeOK'
    <2>1. ran' \subseteq Nat /\ blind' \subseteq Nat
        BY <1>1, <1>5 DEF TypeOK, AgentType
    <2> QED
        BY <1>1, <1>2, <1>3, <1>4, <1>5, <1>6, <1>7, <2>1 DEF TypeOK, AgentType, TurnType, ChildType
<1>9. /\ holder = NoTurn \/ turn[holder].at = "sleeping"
      /\ \A u \in Turns \ {t} : turn[u].at \notin Locked /\ turn'[u] = turn[u]
      /\ turn[t].at # "spawning"
    BY <1>4, EnterFacts DEF Enters, OthersStay, Locked
<1>10. Unexcused = {} /\ (agent.proc = NoPid \/ agent.proc \in stubborn)
    BY <1>9, NobodyInCharge
<1>11. ProcOK'
    <2>1. agent.proc # NoPid => /\ agent.proc \in Pids /\ agent.proc # p
                                /\ child'[agent.proc] = child[agent.proc]
        BY <1>1, <1>2 DEF Inv, ProcOK, AgentType
    <2>2. \A u \in Turns : turn'[u].at = "spawning" => u = t
        BY <1>9 DEF Locked
    <2>3. p # NoPid
        BY <1>1, Numbers
    <2> QED
        BY <1>2, <1>3, <1>4, <1>5, <2>1, <2>2, <2>3 DEF Inv, ProcOK
<1>12. SessionOK'
    <2>1. \A u \in Turns : turn'[u].at \in {"spawning", "running"} => u = t
        BY <1>9 DEF Locked
    <2> QED
        BY <1>3, <1>4, <1>5, <2>1 DEF Inv, SessionOK, ResumesOnlyWhatRan
<1>13. ChargeOK'
    <2>1. Unexcused' \subseteq {p}
        BY <1>2, <1>5, <1>10 DEF Unexcused
    <2>2. holder' # NoTurn
        BY <1>7, Numbers
    <2> QED
        BY <1>4, <1>7, <2>1, <2>2 DEF ChargeOK
<1>14. ShownOK'
    <2>1. \A u \in Turns : turn'[u].at \notin Ending \cup {"running"}
        BY <1>4, <1>9 DEF Locked, Ending
    <2> QED
        BY <1>3, <1>5, <1>10, <2>1 DEF ShownOK
<1>15. ChildrenAreListed'
    <2> SUFFICES ASSUME NEW q \in Pids, child'[q].is = "leader", registry'[q] = "absent"
                 PROVE  q \in unlisted' \/ \E u \in Turns : turn'[u].at = "spawning" /\ turn'[u].pid = q
        BY DEF ChildrenAreListed
    <2>1. CASE q = p
        BY <1>4, <2>1
    <2>2. CASE q # p
        <3>1. q \in unlisted \/ \E u \in Turns : turn[u].at = "spawning" /\ turn[u].pid = q
            BY <1>2, <1>5, <2>2 DEF Inv, ChildrenAreListed
        <3>2. \A u \in Turns : turn[u].at # "spawning"
            BY <1>9 DEF Locked
        <3> QED
            BY <1>5, <3>1, <3>2
    <2> QED
        BY <2>1, <2>2
<1> QED
    BY <1>6, <1>7, <1>8, <1>11, <1>12, <1>13, <1>14, <1>15 DEF Inv

\* The finally block, whoever runs it: it reaps the tree that is left, or lets go.
LEMMA FinallyStep ==
    ASSUME Inv, NEW t \in Turns, Enters(t), NEW a \in AgentType,
           a.proc = agent.proc, a.sid = agent.sid,
           a.started => agent.sid \in ran \cup torn,
           a.profile = agent.profile \/ agent.proc \in stubborn \cup {NoPid},
           turn[t].at \in Locked => turn[t].at # "spawning",
           turn[t].at = "running" \/ Unexcused = {},
           Finally(t, a), KeepsLock(t),
           UNCHANGED <<child, bot, upsets, history>>
    PROVE  Inv'
<1>1. /\ TypeOK /\ agent \in AgentType /\ turn \in [Turns -> TurnType]
      /\ a.proc \in Pids \cup {NoPid}
    BY DEF Inv, TypeOK, AgentType, TurnType
<1>2. /\ holder \in {NoTurn, t}
      /\ \A u \in Turns \ {t} : turn[u].at \notin Locked
      /\ \A u \in Turns : turn[u].at # "spawning"
      /\ holder = NoTurn => turn[t].at = "queued"
      /\ turn[t].at = "running" => holder = t
    BY EnterFacts DEF Locked
<1>3. UNCHANGED <<child, bot, upsets, ran, torn, blind, hidden, stubborn, unlisted>>
    BY DEF history
<1>4. Unexcused' = Unexcused
    BY <1>3 DEF Unexcused
<1>5. CASE Reap(t, a)
    <2>1. /\ a.proc \in Pids /\ a.proc \in tracked
          /\ agent' = a /\ UNCHANGED <<tracked, registry>>
          /\ killing' = killing \cup {a.proc}
        BY <1>1, <1>5 DEF Reap, TreeAlive, Await
    <2>2. /\ turn' \in [Turns -> TurnType] /\ OthersStay(t)
          /\ turn'[t].at = "reaping" /\ turn'[t].wait = a.proc /\ turn'[t].pid = turn[t].pid
        BY <1>1, <1>5, <2>1, ZenonT(40) DEF Reap, Await, TurnType, OthersStay, Wherever
    <2>3. LineOK' /\ line' \in Seq(Turns)
        BY <1>1, <2>2, LineEntered DEF Inv, TypeOK
    <2>4. LockOK' /\ holder' = t
        BY <2>2, LockKept DEF Locked
    <2>5. TypeOK'
        BY <1>1, <1>3, <2>1, <2>2, <2>3, <2>4 DEF TypeOK, AgentType, TurnType
    <2>6. \A u \in Turns \ {t} : turn'[u] = turn[u] /\ turn'[u].at \notin Locked
        BY <1>2, <2>2 DEF OthersStay
    <2>7. ProcOK'
        BY <1>3, <2>1, <2>2, <2>6 DEF Inv, ProcOK, Locked
    <2>8. SessionOK'
        BY <1>3, <2>1, <2>2, <2>6 DEF Inv, SessionOK, ResumesOnlyWhatRan, Locked
    <2>9. ChargeOK'
        <3> SUFFICES ASSUME NEW p \in Unexcused
                     PROVE  turn[t].pid = p /\ a.proc = p
            BY <1>4, <2>1, <2>2, <2>4, Numbers DEF ChargeOK, Ending
        <3> QED
            BY <1>2 DEF Inv, ChargeOK, Ending
    <2>10. ShownOK'
        <3>1. ASSUME a.proc \notin stubborn
              PROVE  turn[t].pid = a.proc /\ a.profile \in {NoProfile, child[a.proc].profile}
            BY <1>2, <2>1, <3>1, Numbers DEF Inv, ShownOK
        <3> QED
            BY <1>3, <2>1, <2>2, <2>4, <2>6, <3>1, Numbers DEF ShownOK, Locked, Ending
    <2>11. ChildrenAreListed'
        BY <1>2, <1>3, <2>1 DEF Inv, ChildrenAreListed
    <2> QED
        BY <2>3, <2>4, <2>5, <2>7, <2>8, <2>9, <2>10, <2>11 DEF Inv
<1>6. CASE Settle(t, a)
    <2>1. /\ agent' \in AgentType /\ agent'.proc = NoPid /\ agent'.sid = agent.sid
          /\ agent'.started = a.started /\ killing' = killing
        BY <1>1, <1>6 DEF Settle, Settled, Cleared, AgentType
    <2>2. turn' \in [Turns -> TurnType] /\ OthersStay(t) /\ turn'[t].at = "done"
        BY <1>1, <1>6, OverIsTurn DEF Settle, OthersStay
    <2>3. LineOK' /\ line' \in Seq(Turns)
        BY <1>1, <2>2, LineEntered DEF Inv, TypeOK
    <2>4. LockOK' /\ holder' = NoTurn
        BY <2>2, LockKept DEF Locked
    <2>5. /\ tracked' \subseteq tracked /\ registry' \in [Pids -> {"identified", "bare", "absent"}]
          /\ \A q \in Pids : q # a.proc => registry'[q] = registry[q]
        BY <1>1, <1>6 DEF Settle, Untrack, TypeOK
    <2>6. TypeOK'
        BY <1>1, <1>3, <2>1, <2>2, <2>3, <2>4, <2>5 DEF TypeOK, AgentType, TurnType
    <2>7. \A u \in Turns : turn'[u].at \notin Locked
        BY <1>2, <2>2 DEF OthersStay, Locked
    <2>8. ProcOK' /\ SessionOK'
        BY <1>3, <2>1, <2>7 DEF Inv, ProcOK, SessionOK, ResumesOnlyWhatRan, Locked
    <2>9. a.proc # NoPid => child[a.proc].is \notin InTree
        BY <1>6 DEF Settle, TreeAlive, Inv, ProcOK
    <2>10. ChargeOK'
        <3>1. ASSUME NEW p \in Unexcused PROVE FALSE
            <4>1. turn[t].at = "running" /\ holder = t
                BY <1>2, <3>1
            <4>2. agent.proc = p /\ p \in Pids /\ child[p].is \in InTree
                BY <4>1 DEF Inv, ChargeOK, Unexcused, Ending
            <4> QED
                BY <2>9, <4>2, Numbers
        <3> QED
            BY <1>4, <3>1 DEF ChargeOK
    <2>11. ShownOK'
        BY <2>1, <2>7 DEF ShownOK, Locked, Ending
    <2>12. ChildrenAreListed'
        <3> SUFFICES ASSUME NEW q \in Pids, child'[q].is = "leader", registry'[q] = "absent"
                     PROVE  q \in unlisted'
            BY DEF ChildrenAreListed
        <3>1. q # a.proc
            BY <1>3, <2>9, Numbers DEF InTree
        <3> QED
            BY <1>2, <1>3, <2>5, <3>1 DEF Inv, ChildrenAreListed
    <2> QED
        BY <2>3, <2>4, <2>6, <2>8, <2>10, <2>11, <2>12 DEF Inv
<1> QED
    BY <1>5, <1>6 DEF Finally

\* The process object arrives: the child is shown, tracked and in the registry, or the
\* registration failed.
LEMMA SpawnReturnsStep ==
    ASSUME Inv, NEW t \in Turns, NEW listed \in {"identified", "bare", "absent"},
           SpawnReturns(t, listed)
    PROVE  Inv'
<1> DEFINE p == turn[t].pid
<1>1. /\ TypeOK /\ agent \in AgentType /\ turn \in [Turns -> TurnType]
      /\ turn[t].at = "spawning" /\ p \in Pids /\ child[p].is # "unused"
      /\ agent.profile \in {NoProfile, child[p].profile}
    BY DEF Inv, TypeOK, ProcOK, AgentType, TurnType, SpawnReturns
<1>2. holder = t /\ \A u \in Turns \ {t} : turn[u].at \notin Locked
    BY <1>1 DEF Inv, LockOK, Locked
<1>3. /\ UNCHANGED <<holder, line, child, bot, upsets, ran, torn, blind, hidden, stubborn>>
      /\ agent' = [agent EXCEPT !.proc = p]
      /\ tracked' = tracked \cup {p}
      /\ registry' = [registry EXCEPT ![p] = listed]
      /\ unlisted' = IF listed = "absent" THEN unlisted \cup {p} ELSE unlisted
    BY DEF SpawnReturns, Track
<1>4. /\ agent' \in AgentType /\ agent'.proc = p /\ agent'.sid = agent.sid
      /\ agent'.started = agent.started /\ agent'.profile = agent.profile
    BY <1>1, <1>3 DEF AgentType
<1>5. /\ turn' \in [Turns -> TurnType] /\ OthersStay(t) /\ killing' \subseteq Pids
      /\ turn'[t].pid = p /\ turn'[t].profile = turn[t].profile
      /\ \/ turn'[t].at = "running"
         \/ turn'[t].at = "aborting" /\ turn'[t].wait = p
    <2>1. CASE listed = "absent" \/ bot = "closing"
        <3>1. Await(t, p, "aborting")
            BY <2>1 DEF SpawnReturns
        <3> QED
            BY <1>1, <3>1, AwaitUpdate DEF Goes, Same, Wherever
    <2>2. CASE ~(listed = "absent" \/ bot = "closing")
        <3>1. turn' = [turn EXCEPT ![t].at = "running"] /\ killing' = killing
            BY <2>2 DEF SpawnReturns
        <3> QED
            BY <1>1, <3>1, TurnUpdates DEF TypeOK, Goes, Same, Wherever
    <2> QED
        BY <2>1, <2>2
<1> HIDE DEF p
<1>6. \A u \in Turns \ {t} : turn'[u] = turn[u] /\ turn'[u].at \notin Locked
    BY <1>2, <1>5 DEF OthersStay
<1>7. LineOK' /\ line' \in Seq(Turns)
    <2>1. Enters(t)
        BY <1>1, <1>3 DEF Enters, Locked
    <2> QED
        BY <1>1, <1>5, <2>1, LineEntered DEF Inv, TypeOK
<1>8. LockOK'
    BY <1>2, <1>3, <1>5, <1>6 DEF LockOK, Locked
<1>9. TypeOK'
    <2>1. registry' \in [Pids -> {"identified", "bare", "absent"}] /\ tracked' \subseteq Pids
        BY <1>1, <1>3 DEF TypeOK
    <2> QED
        BY <1>1, <1>3, <1>4, <1>5, <1>7, <2>1 DEF TypeOK, AgentType, TurnType
<1>10. ProcOK'
    <2>1. \A u \in Turns : turn'[u].at # "spawning"
        BY <1>5, <1>6 DEF Locked
    <2>2. agent'.proc = p /\ p \in tracked' /\ child'[p].is # "unused"
        BY <1>1, <1>3, <1>4
    <2> QED
        BY <2>1, <2>2 DEF ProcOK
<1>11. SessionOK'
    BY <1>1, <1>3, <1>4, <1>5, <1>6 DEF Inv, SessionOK, ResumesOnlyWhatRan, Locked
<1>12. ChargeOK'
    <2> SUFFICES ASSUME NEW q \in Unexcused' PROVE q = p
        BY <1>2, <1>3, <1>4, <1>5, Numbers DEF ChargeOK, Ending
    <2>1. q \in Unexcused
        BY <1>3 DEF Unexcused
    <2> QED
        BY <1>2, <2>1 DEF Inv, ChargeOK, p
<1>13. ShownOK'
    BY <1>1, <1>2, <1>3, <1>4, <1>5, <1>6, Numbers DEF ShownOK, Ending, Locked
<1>14. ChildrenAreListed'
    <2> SUFFICES ASSUME NEW q \in Pids, child'[q].is = "leader", registry'[q] = "absent"
                 PROVE  q \in unlisted'
        BY DEF ChildrenAreListed
    <2>1. CASE q = p
        BY <1>1, <1>3, <2>1 DEF TypeOK
    <2>2. CASE q # p
        <3>1. registry[q] = "absent"
            BY <1>1, <1>3, <2>2 DEF TypeOK
        <3>2. \A u \in Turns : turn[u].at = "spawning" => turn[u].pid = p
            BY <1>2 DEF Locked, p
        <3> QED
            BY <1>3, <2>2, <3>1, <3>2 DEF Inv, ChildrenAreListed
    <2> QED
        BY <2>1, <2>2
<1> QED
    BY <1>7, <1>8, <1>9, <1>10, <1>11, <1>12, <1>13, <1>14 DEF Inv

\* The retried turn forgets its child, whose tree is gone.
LEMMA SleepStep ==
    ASSUME Inv, NEW t \in Turns, turn[t].at \in {"running", "retiring"}, turn[t].retry < MaxRetries,
           Unexcused = {}, NEW a \in AgentType, a.proc = NoPid,
           a.started => a.sid \in ran \cup torn,
           agent' = a,
           turn' = [turn EXCEPT ![t].at = "sleeping", ![t].ok = FALSE, ![t].retry = @ + 1],
           UNCHANGED <<holder, line, child, killing, bot, upsets, history>>,
           \/ UNCHANGED <<tracked, registry>>
           \/ Untrack(turn[t].pid) /\ (turn[t].pid \in Pids => child[turn[t].pid].is # "leader")
    PROVE  Inv'
<1>1. TypeOK /\ turn \in [Turns -> TurnType]
    BY DEF Inv, TypeOK, TurnType
<1>2. holder = t /\ \A u \in Turns \ {t} : turn[u].at \notin Locked
    BY DEF Inv, LockOK, Locked
<1>3. UNCHANGED <<holder, line, child, killing, bot, upsets, ran, torn, blind, hidden, stubborn, unlisted>>
    BY DEF history
<1>4. /\ turn' \in [Turns -> TurnType] /\ OthersStay(t) /\ turn'[t].at = "sleeping"
    BY <1>1, TurnUpdates DEF Goes, Same, Wherever
<1>5. \A u \in Turns \ {t} : turn'[u] = turn[u] /\ turn'[u].at \notin Locked
    BY <1>2, <1>4 DEF OthersStay
<1>6. LineOK' /\ line' \in Seq(Turns)
    <2>1. Enters(t)
        BY <1>3 DEF Enters, Locked
    <2> QED
        BY <1>1, <1>4, <2>1, LineEntered DEF Inv, TypeOK
<1>7. LockOK'
    BY <1>2, <1>3, <1>4, <1>5 DEF LockOK, Locked
<1>8. /\ registry' \in [Pids -> {"identified", "bare", "absent"}] /\ tracked' \subseteq tracked
      /\ \A q \in Pids : registry'[q] = registry[q] \/ child[q].is # "leader"
    BY <1>1 DEF Untrack, TypeOK
<1>9. TypeOK'
    BY <1>1, <1>3, <1>4, <1>6, <1>8 DEF TypeOK, AgentType, TurnType
<1>10. ProcOK' /\ SessionOK' /\ ShownOK'
    BY <1>3, <1>4, <1>5 DEF Inv, ProcOK, SessionOK, ResumesOnlyWhatRan, ShownOK, Locked, Ending
<1>11. ChargeOK'
    BY <1>3 DEF ChargeOK, Unexcused
<1>12. ChildrenAreListed'
    <2>1. \A u \in Turns : turn[u].at # "spawning"
        BY <1>2 DEF Locked
    <2> QED
        BY <1>3, <1>8, <2>1 DEF Inv, ChildrenAreListed
<1> QED
    BY <1>6, <1>7, <1>9, <1>10, <1>11, <1>12 DEF Inv

\* The retry waits for the old tree first.
LEMMA RetireStep ==
    ASSUME Inv, NEW t \in Turns, turn[t].at = "running", turn[t].retry < MaxRetries,
           TreeAlive(turn[t].pid), NEW a \in AgentType,
           a.proc = agent.proc, a.profile = agent.profile,
           a.started => a.sid \in ran \cup torn,
           agent' = a, Await(t, turn[t].pid, "retiring"),
           UNCHANGED <<holder, line, child, tracked, registry, bot, upsets, history>>
    PROVE  Inv'
<1> DEFINE p == turn[t].pid
<1>1. TypeOK /\ turn \in [Turns -> TurnType] /\ agent \in AgentType /\ p \in Pids
    BY DEF Inv, TypeOK, TurnType, AgentType, TreeAlive
<1>2. holder = t /\ \A u \in Turns \ {t} : turn[u].at \notin Locked
    BY DEF Inv, LockOK, Locked
<1>3. UNCHANGED <<holder, line, child, tracked, registry, bot, upsets, ran, torn, blind, hidden,
                  stubborn, unlisted>>
    BY DEF history
<1>4. /\ turn' \in [Turns -> TurnType] /\ OthersStay(t) /\ killing' \subseteq Pids
      /\ turn'[t].at = "retiring" /\ turn'[t].wait = p /\ turn'[t].pid = p
      /\ turn'[t].retry = turn[t].retry
    BY <1>1, AwaitUpdate DEF Goes, Same, Wherever
<1>5. \A u \in Turns \ {t} : turn'[u] = turn[u] /\ turn'[u].at \notin Locked
    BY <1>2, <1>4 DEF OthersStay
<1>6. LineOK' /\ line' \in Seq(Turns)
    <2>1. Enters(t)
        BY <1>3 DEF Enters, Locked
    <2> QED
        BY <1>1, <1>4, <2>1, LineEntered DEF Inv, TypeOK
<1>7. LockOK'
    BY <1>2, <1>3, <1>4, <1>5 DEF LockOK, Locked
<1>8. TypeOK'
    BY <1>1, <1>3, <1>4, <1>6 DEF TypeOK, AgentType, TurnType
<1>9. ProcOK' /\ SessionOK'
    BY <1>3, <1>4, <1>5 DEF Inv, ProcOK, SessionOK, ResumesOnlyWhatRan, Locked
<1>10. ChargeOK'
    <2> SUFFICES ASSUME NEW q \in Unexcused PROVE q = p /\ agent.proc = q
        BY <1>2, <1>3, <1>4, Numbers DEF ChargeOK, Unexcused, Ending
    <2> QED
        BY <1>2 DEF Inv, ChargeOK, Ending
<1>11. ShownOK'
    <2>1. agent.proc \in {NoPid, p}
        BY DEF Inv, ShownOK
    <2>2. agent.proc # NoPid /\ agent.proc \notin stubborn =>
             agent.profile \in {NoProfile, child[agent.proc].profile}
        BY DEF Inv, ShownOK
    <2> QED
        BY <1>2, <1>3, <1>4, <1>5, <2>1, <2>2, Numbers DEF ShownOK, Ending, Locked
<1>12. ChildrenAreListed'
    <2>1. \A u \in Turns : turn[u].at # "spawning"
        BY <1>2 DEF Locked
    <2> QED
        BY <1>3, <2>1 DEF Inv, ChildrenAreListed
<1> QED
    BY <1>6, <1>7, <1>8, <1>9, <1>10, <1>11, <1>12 DEF Inv

\* The reaping is over: the tree is gone, or what is left of it could not be stopped.
LEMMA ReapReturnsStep ==
    ASSUME Inv, NEW t \in Turns, ReapReturns(t)
    PROVE  Inv'
<1>1. /\ TypeOK /\ turn \in [Turns -> TurnType] /\ agent \in AgentType
      /\ turn[t].at = "reaping" /\ turn[t].wait = NoPid
    BY DEF Inv, TypeOK, TurnType, AgentType, ReapReturns
<1>2. holder = t /\ \A u \in Turns \ {t} : turn[u].at \notin Locked
    BY <1>1 DEF Inv, LockOK, Locked
<1>3. UNCHANGED <<line, child, tracked, registry, killing, bot, upsets, ran, torn, blind, hidden,
                  stubborn, unlisted>>
    BY DEF ReapReturns, history
<1>4. /\ agent' \in AgentType /\ agent'.sid = agent.sid /\ agent'.started = agent.started
      /\ agent'.proc \in {NoPid, agent.proc} /\ (turn[t].ok => agent'.proc = NoPid)
    BY <1>1 DEF ReapReturns, Settled, Cleared, AgentType
<1>5. turn' \in [Turns -> TurnType] /\ OthersStay(t) /\ turn'[t].at \in {"done", "unwinding"}
    BY <1>1, TurnUpdates DEF ReapReturns, Goes, Same, Wherever
<1>6. Enters(t)
    BY <1>1, <1>3 DEF Enters, Locked
<1>7. LineOK' /\ line' \in Seq(Turns)
    BY <1>1, <1>5, <1>6, LineEntered DEF Inv, TypeOK
<1>8. LockOK' /\ holder' \in Turns \cup {NoTurn}
    BY <1>5, <1>6, LockKept DEF Locked, ReapReturns
<1>9. TypeOK'
    BY <1>1, <1>3, <1>4, <1>5, <1>7, <1>8 DEF TypeOK, AgentType, TurnType
<1>10. \A u \in Turns : turn'[u].at \notin Locked \/ turn'[u].at = "unwinding"
    BY <1>2, <1>5 DEF OthersStay, Locked
<1>11. Unexcused = {}
    BY <1>1, <1>2, NobodyInCharge DEF Ending
<1>12. agent'.proc = NoPid \/ agent'.proc \in stubborn
    BY <1>1, <1>4, Numbers DEF Inv, ShownOK, Ending
<1>13. ProcOK' /\ SessionOK'
    BY <1>3, <1>4, <1>10 DEF Inv, ProcOK, SessionOK, ResumesOnlyWhatRan, Locked
<1>14. ChargeOK'
    BY <1>3, <1>11 DEF ChargeOK, Unexcused
<1>15. ShownOK'
    BY <1>3, <1>10, <1>12 DEF ShownOK, Locked, Ending
<1>16. ChildrenAreListed'
    <2>1. \A u \in Turns : turn[u].at # "spawning"
        BY <1>1, <1>2 DEF Locked
    <2> QED
        BY <1>3, <2>1 DEF Inv, ChildrenAreListed
<1> QED
    BY <1>7, <1>8, <1>9, <1>13, <1>14, <1>15, <1>16 DEF Inv

-----------------------------------------------------------------------------
(***************************************************************************)
(* Turns outside the lock, the children and the bot.                        *)
(***************************************************************************)

\* A message arrives, or the termination it waited for is over: it may clear what the
\* agent shows, and if a tree still lives under that, the tree is hidden by it.
LEMMA OutsiderStep ==
    ASSUME Inv, NEW t \in Turns, turn[t].at \notin Locked, turn'[t].at \notin Locked,
           turn' \in [Turns -> TurnType], OthersStay(t), LineOK', line' \in Seq(Turns),
           agent' \in AgentType, agent'.sid = agent.sid, agent'.started = agent.started,
           hidden \subseteq hidden', hidden' \subseteq Pids, killing' \subseteq Pids,
           \/ agent'.proc = agent.proc /\ agent'.profile = agent.profile
           \/ /\ agent'.proc = NoPid /\ agent'.profile = NoProfile
              /\ agent.proc # NoPid /\ child[agent.proc].is \in InTree => agent.proc \in hidden',
           UNCHANGED <<holder, child, tracked, registry, bot, upsets, ran, torn, blind, stubborn,
                       unlisted>>
    PROVE  Inv'
<1>1. TypeOK'
    BY DEF Inv, TypeOK, AgentType, TurnType
<1>2. \A u \in Turns : turn'[u].at \in Locked => turn'[u] = turn[u]
    BY DEF OthersStay
<1>3. LockOK'
    BY LockUntouched DEF Inv, TypeOK, OthersStay
<1>4. ProcOK' /\ SessionOK'
    BY <1>2 DEF Inv, ProcOK, SessionOK, ResumesOnlyWhatRan, Locked
<1>5. holder # NoTurn => holder \in Turns /\ turn'[holder] = turn[holder]
    BY DEF Inv, TypeOK, LockOK, OthersStay
<1>6. ChargeOK'
    <2> SUFFICES ASSUME NEW p \in Unexcused'
                 PROVE  /\ holder # NoTurn /\ turn[holder].pid = p
                        /\ \/ turn[holder].at = "spawning"
                           \/ agent'.proc = p /\ turn[holder].at = "running"
                           \/ /\ agent'.proc = p /\ turn[holder].at \in Ending
                              /\ turn[holder].wait = p
        BY <1>5 DEF ChargeOK
    <2>1. p \in Unexcused /\ p \in Pids /\ child[p].is \in InTree /\ p \notin hidden'
        BY DEF Unexcused
    <2>2. /\ holder # NoTurn /\ turn[holder].pid = p
          /\ \/ turn[holder].at = "spawning"
             \/ agent.proc = p /\ turn[holder].at = "running"
             \/ agent.proc = p /\ turn[holder].at \in Ending /\ turn[holder].wait = p
        BY <2>1 DEF Inv, ChargeOK
    <2>3. agent.proc = p => agent'.proc = p
        BY <2>1, Numbers
    <2> QED
        BY <2>2, <2>3
<1>7. ShownOK'
    <2>1. agent'.proc # NoPid => agent'.proc = agent.proc /\ agent'.profile = agent.profile
        OBVIOUS
    <2>2. \A u \in Turns : turn'[u].at \in Ending \cup {"running"} => turn'[u] = turn[u]
        BY <1>2 DEF Ending, Locked
    <2> QED
        BY <1>5, <2>1, <2>2 DEF Inv, ShownOK
<1>8. ChildrenAreListed'
    <2>1. \A u \in Turns : turn[u].at = "spawning" => turn'[u] = turn[u]
        BY DEF OthersStay, Locked
    <2>2. child' = child /\ registry' = registry /\ unlisted' = unlisted
        OBVIOUS
    <2> SUFFICES ASSUME NEW p \in Pids, child[p].is = "leader", registry[p] = "absent"
                 PROVE  p \in unlisted \/ \E u \in Turns : turn'[u].at = "spawning" /\ turn'[u].pid = p
        BY <2>2 DEF ChildrenAreListed
    <2>3. p \in unlisted \/ \E u \in Turns : turn[u].at = "spawning" /\ turn[u].pid = p
        BY DEF Inv, ChildrenAreListed
    <2> QED
        BY <2>1, <2>3
<1> QED
    BY <1>1, <1>3, <1>4, <1>6, <1>7, <1>8 DEF Inv

LEMMA MessageStep ==
    ASSUME Inv, NEW t \in Turns, NEW profile \in Profiles, Message(t, profile)
    PROVE  Inv'
<1>1. /\ TypeOK /\ turn \in [Turns -> TurnType] /\ agent \in AgentType /\ line \in Seq(Turns)
      /\ turn[t].at = "new" /\ LineOK
    BY DEF Inv, TypeOK, TurnType, AgentType, Message, Arrives
<1>2. /\ UNCHANGED <<holder, child, tracked, registry, bot, upsets, ran, torn, blind, hidden, stubborn, unlisted>>
    BY DEF Message, Refused, Interrupts, Queues, history, agentState
<1>3. CASE Refused(t, profile)
    <2>1. agent' = agent /\ line' = line /\ killing' = killing /\ turn' = [turn EXCEPT ![t] = Over]
        BY <1>3 DEF Refused, agentState
    <2>2. turn' \in [Turns -> TurnType] /\ OthersStay(t) /\ turn'[t].at = "done"
        BY <1>1, <2>1, OverIsTurn DEF OthersStay
    <2>3. LineOK'
        BY <1>1, <2>1, <2>2, LineStays DEF OthersStay
    <2>4. killing \subseteq Pids /\ hidden \subseteq Pids
        BY <1>1 DEF TypeOK
    <2>5. turn[t].at \notin Locked /\ turn'[t].at \notin Locked
        BY <1>1, <2>2 DEF Locked
    <2> QED
        BY <1>1, <1>2, <2>1, <2>2, <2>3, <2>4, <2>5, OutsiderStep
<1>4. CASE Interrupts(t, profile)
    <2>1. /\ agent' = [agent EXCEPT !.interrupted = TRUE] /\ line' = line
          /\ agent.proc \in Pids /\ killing' = killing \cup {agent.proc}
          /\ turn' = [turn EXCEPT ![t].at = "interrupting", ![t].profile = profile, ![t].wait = agent.proc]
        BY <1>1, <1>4 DEF Interrupts, AgentType
    <2>2. turn' \in [Turns -> TurnType] /\ OthersStay(t) /\ turn'[t].at = "interrupting"
        <3>1. [turn[t] EXCEPT !.at = "interrupting", !.profile = profile, !.wait = agent.proc] \in TurnType
            BY <1>1, <2>1 DEF TurnType, Wherever
        <3> QED
            BY <1>1, <2>1, <3>1 DEF OthersStay, TurnType
    <2>3. LineOK'
        BY <1>1, <2>1, <2>2, LineStays DEF OthersStay
    <2>4. killing' \subseteq Pids /\ hidden \subseteq Pids
        BY <1>1, <2>1 DEF TypeOK
    <2>5. turn[t].at \notin Locked /\ turn'[t].at \notin Locked
        BY <1>1, <2>2 DEF Locked
    <2>6. /\ agent' \in AgentType /\ agent'.sid = agent.sid /\ agent'.started = agent.started
          /\ agent'.proc = agent.proc /\ agent'.profile = agent.profile
        BY <1>1, <2>1 DEF AgentType
    <2> QED
        BY <1>1, <1>2, <2>1, <2>2, <2>3, <2>4, <2>5, <2>6, OutsiderStep
<1>5. CASE Queues(t, profile)
    <2>1. /\ agent' = agent /\ line' = Append(line, t) /\ killing' = killing
          /\ turn' = [turn EXCEPT ![t].at = "queued", ![t].profile = profile]
        BY <1>5 DEF Queues
    <2>2. turn' \in [Turns -> TurnType] /\ OthersStay(t) /\ turn'[t].at = "queued"
        <3>1. [turn[t] EXCEPT !.at = "queued", !.profile = profile] \in TurnType
            BY <1>1 DEF TurnType, Wherever
        <3> QED
            BY <1>1, <2>1, <3>1 DEF OthersStay, TurnType
    <2>3. LineOK' /\ line' \in Seq(Turns)
        BY <1>1, <2>1, <2>2, LineJoined
    <2>4. killing \subseteq Pids /\ hidden \subseteq Pids
        BY <1>1 DEF TypeOK
    <2>5. turn[t].at \notin Locked /\ turn'[t].at \notin Locked
        BY <1>1, <2>2 DEF Locked
    <2> QED
        BY <1>1, <1>2, <2>1, <2>2, <2>3, <2>4, <2>5, OutsiderStep
<1> QED
    BY <1>3, <1>4, <1>5 DEF Message

LEMMA InterruptReturnsStep ==
    ASSUME Inv, NEW t \in Turns, InterruptReturns(t)
    PROVE  Inv'
<1>1. /\ TypeOK /\ turn \in [Turns -> TurnType] /\ agent \in AgentType /\ line \in Seq(Turns)
      /\ turn[t].at = "interrupting" /\ LineOK /\ hidden \subseteq Pids /\ killing \subseteq Pids
    BY DEF Inv, TypeOK, TurnType, AgentType, InterruptReturns
<1>2. /\ UNCHANGED <<holder, child, tracked, killing, registry, bot, upsets, ran, torn, blind, stubborn, unlisted>>
      /\ line' = Append(line, t)
      /\ turn' = [turn EXCEPT ![t].at = "queued", ![t].ok = FALSE]
    BY DEF InterruptReturns, system
<1>3. turn' \in [Turns -> TurnType] /\ OthersStay(t) /\ turn'[t].at = "queued"
    <2>1. [turn[t] EXCEPT !.at = "queued", !.ok = FALSE] \in TurnType
        BY <1>1 DEF TurnType, Wherever
    <2> QED
        BY <1>1, <1>2, <2>1 DEF OthersStay, TurnType
<1>4. LineOK' /\ line' \in Seq(Turns)
    BY <1>1, <1>2, <1>3, LineJoined
<1>5. turn[t].at \notin Locked /\ turn'[t].at \notin Locked
    BY <1>1, <1>3 DEF Locked
<1>6. /\ agent' \in AgentType /\ agent'.sid = agent.sid /\ agent'.started = agent.started
      /\ \/ turn[t].ok /\ agent'.proc = NoPid /\ agent'.profile = NoProfile
         \/ agent' = agent
    BY <1>1 DEF InterruptReturns, Cleared, AgentType
<1>7. /\ hidden \subseteq hidden' /\ hidden' \subseteq Pids
      /\ turn[t].ok /\ agent.proc # NoPid /\ child[agent.proc].is \in InTree => agent.proc \in hidden'
    BY <1>1 DEF InterruptReturns, AgentType
<1> QED
    BY <1>1, <1>2, <1>3, <1>4, <1>5, <1>6, <1>7, OutsiderStep

\* Children exit, die at a boot, or leave their pid to a stranger: none comes to life,
\* and none that lives leaves the registry.
LEMMA ChildrenStep ==
    ASSUME Inv, TypeOK',
           UNCHANGED <<agent, holder, line, turn, tracked, ran, torn, blind, hidden, stubborn, unlisted>>,
           \A p \in Pids : /\ child'[p].is = "unused" => child[p].is = "unused"
                           /\ child'[p].is \in InTree => child[p].is \in InTree
                           /\ child'[p].is = "leader" => child[p].is = "leader"
                           /\ child'[p].is = "leader" /\ registry'[p] = "absent" => registry[p] = "absent"
                           /\ child'[p].profile = child[p].profile /\ child'[p].old = child[p].old
    PROVE  Inv'
<1>1. LineOK' /\ LockOK' /\ SessionOK'
    BY DEF Inv, LineOK, LockOK, SessionOK, ResumesOnlyWhatRan
<1>2. /\ agent.proc \in Pids \cup {NoPid}
      /\ \A t \in Turns : turn[t].pid \in Pids \cup {NoPid}
    BY DEF Inv, TypeOK
<1>3. ProcOK'
    BY <1>2 DEF Inv, ProcOK
<1>4. ChargeOK'
    <2>1. Unexcused' \subseteq Unexcused
        BY DEF Unexcused
    <2> QED
        BY <2>1 DEF Inv, ChargeOK
<1>5. ShownOK'
    BY <1>2 DEF Inv, ShownOK
<1>6. ChildrenAreListed'
    BY DEF Inv, ChildrenAreListed
<1> QED
    BY <1>1, <1>3, <1>4, <1>5, <1>6 DEF Inv

LEMMA ChildExitsStep ==
    ASSUME Inv, NEW p \in Pids, ChildExits(p) \/ PidReused(p)
    PROVE  Inv'
<1>1. UNCHANGED <<agent, holder, line, turn, tracked, killing, registry, bot, upsets,
                  ran, torn, blind, hidden, stubborn, unlisted>>
    BY DEF ChildExits, PidReused, agentState, history
<1>2. child \in [Pids -> ChildType]
    BY DEF Inv, TypeOK, ChildType
<1>3. PICK s \in {"group", "gone", "stranger"} :
         /\ child' = [child EXCEPT ![p].is = s]
         /\ s = "group" => child[p].is \in InTree
         /\ s = "stranger" => child[p].is \notin InTree
         /\ child[p].is = "unused" => s = "stranger" /\ registry[p] # "absent"
    BY DEF ChildExits, PidReused, InTree
<1>4. child' \in [Pids -> ChildType]
    BY <1>2, <1>3 DEF ChildType
<1>5. TypeOK'
    BY <1>1, <1>4 DEF Inv, TypeOK, ChildType
<1>6. \A q \in Pids : /\ child'[q].profile = child[q].profile /\ child'[q].old = child[q].old
                      /\ child'[q].is = IF q = p THEN s ELSE child[q].is
    BY <1>2, <1>3 DEF ChildType
<1> QED
    BY <1>1, <1>3, <1>5, <1>6, ChildrenStep DEF InTree

LEMMA BootStep ==
    ASSUME Inv, Boot
    PROVE  Inv'
<1>1. /\ UNCHANGED <<agent, holder, line, turn, tracked, killing, upsets,
                     ran, torn, blind, hidden, stubborn, unlisted>>
      /\ bot' = "up"
    BY DEF Boot, agentState, history
<1>2. child \in [Pids -> ChildType] /\ registry \in [Pids -> {"identified", "bare", "absent"}]
    BY DEF Inv, TypeOK, ChildType
<1>3. PICK killed \in SUBSET {p \in Pids : Ours(p)} :
         /\ child' = [p \in Pids |-> IF p \in killed THEN [child[p] EXCEPT !.is = "gone"] ELSE child[p]]
         /\ registry' = [p \in Pids |->
                IF p \notin killed /\ child[p].is \in {"leader", "stranger"} THEN registry[p] ELSE "absent"]
    BY DEF Boot
<1>4. child' \in [Pids -> ChildType] /\ registry' \in [Pids -> {"identified", "bare", "absent"}]
    BY <1>2, <1>3 DEF ChildType
<1>5. TypeOK'
    BY <1>1, <1>4 DEF Inv, TypeOK, ChildType
<1>6. \A q \in Pids : /\ child'[q].profile = child[q].profile /\ child'[q].old = child[q].old
                      /\ child'[q].is = IF q \in killed THEN "gone" ELSE child[q].is
    BY <1>2, <1>3 DEF ChildType
<1>7. \A q \in Pids : child'[q].is = "leader" => registry'[q] = registry[q]
    BY <1>3, <1>6
<1> QED
    BY <1>1, <1>5, <1>6, <1>7, ChildrenStep DEF InTree

LEMMA ShutdownStep ==
    ASSUME Inv, Shutdown
    PROVE  Inv'
<1>1. /\ UNCHANGED <<agent, holder, line, turn, child, tracked, registry, upsets,
                     ran, torn, blind, hidden, stubborn, unlisted>>
      /\ bot' = "closing" /\ killing' = killing \cup tracked
    BY DEF Shutdown, agentState, history
<1>2. TypeOK'
    BY <1>1 DEF Inv, TypeOK
<1> QED
    BY <1>1, <1>2, ChildrenStep

\* The termination of a tree ends: it is gone, or on record as one that could not be
\* stopped, and whoever waited learns which.
LEMMA TerminationStep ==
    ASSUME Inv, NEW p \in Pids, TerminationEnds(p)
    PROVE  Inv'
<1> DEFINE stopped == child[p].is \notin InTree
<1>1. TypeOK /\ turn \in [Turns -> TurnType]
    BY DEF Inv, TypeOK, TurnType
<1>2. /\ UNCHANGED <<agent, holder, line, child, bot, upsets, ran, torn, blind, hidden, unlisted>>
      /\ killing' = killing \ {p}
      /\ stubborn' = IF stopped THEN stubborn ELSE stubborn \cup {p}
      /\ turn' = [t \in Turns |-> IF turn[t].wait = p
                                  THEN [turn[t] EXCEPT !.wait = NoPid, !.ok = stopped] ELSE turn[t]]
    BY DEF TerminationEnds, agentState
<1>3. /\ tracked' \subseteq tracked /\ registry' \in [Pids -> {"identified", "bare", "absent"}]
      /\ \A q \in Pids : \/ q \in tracked' <=> q \in tracked
                         \/ child[q].is \notin InTree
      /\ \A q \in Pids : registry'[q] = registry[q] \/ child[q].is \notin InTree
    BY <1>1 DEF TerminationEnds, Untrack, TypeOK
<1>4. turn' \in [Turns -> TurnType]
    BY <1>1, <1>2, ZenonT(40) DEF TurnType
<1>5. \A t \in Turns : /\ turn'[t].at = turn[t].at /\ turn'[t].pid = turn[t].pid
                       /\ turn'[t].profile = turn[t].profile /\ turn'[t].retry = turn[t].retry
                       /\ turn[t].wait # p => turn'[t] = turn[t]
                       /\ turn[t].wait = p => turn'[t].wait = NoPid /\ turn'[t].ok = stopped
    BY <1>1, <1>2 DEF TurnType
<1>6. stopped \in BOOLEAN /\ (~stopped => p \in stubborn')
    BY <1>2
<1>7. stubborn \subseteq stubborn' /\ stubborn' \subseteq Pids
    BY <1>1, <1>2 DEF TypeOK
<1>8. stopped => p \notin Unexcused
    BY DEF Unexcused
<1>9. Unexcused' \subseteq Unexcused \ {p}
    BY <1>2, <1>6, <1>7, <1>8 DEF Unexcused
<1> HIDE DEF stopped
<1>10. LineOK' /\ line' \in Seq(Turns)
    BY <1>1, <1>2, <1>5, LineStays DEF Inv, TypeOK
<1>11. LockOK'
    BY <1>1, <1>2, <1>5, LockUntouched DEF Inv, TypeOK
<1>12. TypeOK'
    BY <1>1, <1>2, <1>3, <1>4, <1>7, <1>10 DEF TypeOK, TurnType
<1>13. ProcOK' /\ SessionOK'
    <2>1. agent.proc \in Pids \cup {NoPid}
        BY <1>1 DEF TypeOK
    <2>2. SessionOK'
        BY <1>2, <1>5 DEF Inv, SessionOK, ResumesOnlyWhatRan
    <2>3. \A t \in Turns : turn'[t].at = "spawning" =>
             /\ turn'[t].pid # NoPid /\ child'[turn'[t].pid].is # "unused"
             /\ agent'.profile \in {NoProfile, child'[turn'[t].pid].profile}
        <3>1. agent' = agent /\ child' = child
            BY <1>2
        <3>2. \A t \in Turns : turn[t].at = "spawning" =>
                 /\ turn[t].pid # NoPid /\ child[turn[t].pid].is # "unused"
                 /\ agent.profile \in {NoProfile, child[turn[t].pid].profile}
            BY DEF Inv, ProcOK
        <3>3. \A t \in Turns : turn'[t].at = turn[t].at /\ turn'[t].pid = turn[t].pid
            BY <1>5
        <3> QED
            BY <3>1, <3>2, <3>3
    <2>4. agent'.proc # NoPid => /\ child'[agent'.proc].is # "unused"
                                 /\ child'[agent'.proc].is \in InTree => agent'.proc \in tracked'
        BY <1>2, <1>3, <2>1 DEF Inv, ProcOK
    <2> QED
        BY <2>2, <2>3, <2>4 DEF ProcOK
<1>14. holder # NoTurn => holder \in Turns
    BY <1>1 DEF TypeOK
<1>15. ChargeOK'
    BY <1>2, <1>5, <1>9, <1>14 DEF Inv, ChargeOK
<1>16. ShownOK'
    <2>1. agent' = agent /\ holder' = holder /\ child' = child
        BY <1>2
    <2>2. agent.proc # NoPid /\ agent.proc \notin stubborn =>
             /\ holder # NoTurn /\ turn'[holder].pid = agent.proc
             /\ turn'[holder].at \in Ending \cup {"running"}
             /\ agent.profile \in {NoProfile, child[agent.proc].profile}
        BY <1>5, <1>14 DEF Inv, ShownOK
    <2>3. \A t \in Turns : turn'[t].at = "running" => agent.proc \in {NoPid, turn'[t].pid}
        BY <1>5 DEF Inv, ShownOK
    <2>4. ASSUME NEW t \in Turns, turn'[t].at \in Ending, agent.proc # NoPid
          PROVE  \/ turn'[t].wait = agent.proc
                 \/ turn'[t].wait = NoPid /\ (~turn'[t].ok => agent.proc \in stubborn')
        <3>1. \/ turn[t].wait = agent.proc
              \/ turn[t].wait = NoPid /\ (~turn[t].ok => agent.proc \in stubborn)
            BY <1>5, <2>4 DEF Inv, ShownOK
        <3>2. turn[t].wait = p \/ turn'[t] = turn[t]
            BY <1>5
        <3>3. p # NoPid
            BY Numbers
        <3>4. turn[t].wait = p => turn'[t].wait = NoPid /\ turn'[t].ok = stopped
            BY <1>5
        <3> QED
            BY <1>6, <1>7, <3>1, <3>2, <3>3, <3>4
    <2> QED
        BY <1>7, <2>1, <2>2, <2>3, <2>4 DEF ShownOK
<1>17. ChildrenAreListed'
    <2> SUFFICES ASSUME NEW q \in Pids, child[q].is = "leader", registry'[q] = "absent"
                 PROVE  q \in unlisted \/ \E u \in Turns : turn'[u].at = "spawning" /\ turn'[u].pid = q
        BY <1>2 DEF ChildrenAreListed
    <2>1. registry[q] = "absent"
        BY <1>3 DEF InTree
    <2>2. q \in unlisted \/ \E u \in Turns : turn[u].at = "spawning" /\ turn[u].pid = q
        BY <2>1 DEF Inv, ChildrenAreListed
    <2> QED
        BY <1>5, <2>2
<1> QED
    BY <1>10, <1>11, <1>12, <1>13, <1>15, <1>16, <1>17 DEF Inv

LEMMA UpsetsCounted ==
    ASSUME TypeOK, upsets < MaxUpsets
    PROVE  upsets + 1 \in 0..MaxUpsets
<1>1. upsets \in 0..MaxUpsets /\ MaxUpsets \in Nat
    BY BoundsAssumption DEF TypeOK
<1> QED
    BY <1>1

\* The bot dies: no turn is left, and every tree becomes one of an earlier life.
LEMMA BotEndsStep ==
    ASSUME Inv, BotEnds
    PROVE  Inv'
<1>1. /\ TypeOK /\ turn \in [Turns -> TurnType] /\ agent \in AgentType
      /\ child \in [Pids -> ChildType]
    BY DEF Inv, TypeOK, TurnType, AgentType, ChildType
<1>2. /\ UNCHANGED <<registry, ran, torn, blind, hidden, stubborn>>
      /\ agent' = Settled(agent) /\ holder' = NoTurn /\ line' = <<>>
      /\ turn' = [t \in Turns |-> IF turn[t].at = "new" THEN turn[t] ELSE Over]
      /\ tracked' = {} /\ killing' = {}
      /\ child' = [p \in Pids |-> [child[p] EXCEPT !.old = child[p].is \in InTree]]
      /\ unlisted' = unlisted \cup {turn[t].pid : t \in {u \in Turns : turn[u].at = "spawning"}}
      /\ bot' = "down" /\ upsets' = upsets + 1 /\ upsets < MaxUpsets
    BY DEF BotEnds
<1>3. /\ agent' \in AgentType /\ agent'.proc = NoPid /\ agent'.sid = agent.sid
      /\ agent'.started = agent.started
    BY <1>1, <1>2 DEF Settled, Cleared, AgentType
<1>4. turn' \in [Turns -> TurnType] /\ \A t \in Turns : turn'[t].at \in {"new", "done"}
    BY <1>1, <1>2, OverIsTurn
<1>5. /\ child' \in [Pids -> ChildType]
      /\ \A p \in Pids : child'[p].is = child[p].is /\ (child[p].is \in InTree => child'[p].old)
    <2>1. child' = [p \in Pids |-> [child[p] EXCEPT !.old = child[p].is \in InTree]]
        BY <1>2
    <2>2. ASSUME NEW x \in ChildType
          PROVE  LET y == [x EXCEPT !.old = x.is \in InTree] IN
                 y \in ChildType /\ y.is = x.is /\ (x.is \in InTree => y.old)
        <3>1. ASSUME NEW b \in BOOLEAN
              PROVE  LET y == [x EXCEPT !.old = b] IN y \in ChildType /\ y.is = x.is /\ y.old = b
            BY DEF ChildType
        <3>2. CASE x.is \in InTree
            <4>1. (x.is \in InTree) = TRUE
                BY <3>2
            <4> QED
                BY <3>1, <3>2, <4>1, Zenon
        <3>3. CASE x.is \notin InTree
            <4>1. (x.is \in InTree) = FALSE
                BY <3>3
            <4> QED
                BY <3>1, <3>3, <4>1, Zenon
        <3> QED
            BY <3>2, <3>3
    <2>3. \A p \in Pids : child[p] \in ChildType
        BY <1>1
    <2> QED
        BY <2>1, <2>2, <2>3
<1>6. unlisted' \subseteq Pids
    <2>1. \A t \in Turns : turn[t].at = "spawning" => turn[t].pid \in Pids
        <3>1. \A t \in Turns : turn[t].pid \in Pids \cup {NoPid}
            BY <1>1 DEF TurnType
        <3> QED
            BY <3>1 DEF Inv, ProcOK
    <2>2. unlisted \subseteq Pids
        BY <1>1 DEF TypeOK
    <2> QED
        BY <1>2, <2>1, <2>2
<1>7. upsets' \in 0..MaxUpsets
    BY <1>1, <1>2, UpsetsCounted
<1>8. line' \in Seq(Turns) /\ LineOK'
    <2>1. line' \in Seq(Turns) /\ Len(line') = 0
        BY <1>2
    <2> QED
        BY <2>1 DEF LineOK
<1>9. TypeOK'
    BY <1>1, <1>2, <1>3, <1>4, <1>5, <1>6, <1>7, <1>8 DEF TypeOK, AgentType, TurnType, ChildType
<1>10. LockOK' /\ ProcOK' /\ SessionOK' /\ ShownOK'
    BY <1>2, <1>3, <1>4
       DEF Inv, LockOK, ProcOK, SessionOK, ResumesOnlyWhatRan, ShownOK, Locked, Ending
<1>11. ChargeOK'
    BY <1>5 DEF ChargeOK, Unexcused
<1>12. ChildrenAreListed'
    BY <1>2, <1>5 DEF Inv, ChildrenAreListed
<1> QED
    BY <1>8, <1>9, <1>10, <1>11, <1>12 DEF Inv

LEMMA FreshSession ==
    ASSUME NEW a \in AgentType
    PROVE  /\ Fresh(a) \in AgentType /\ Fresh(a).sid = a.sid + 1 /\ a.sid + 1 \in Nat
           /\ ~Fresh(a).started /\ Fresh(a).proc = a.proc /\ Fresh(a).profile = a.profile
<1>1. a.sid \in Nat
    BY DEF AgentType
<1>2. Fresh(a) = [a EXCEPT !.sid = a.sid + 1, !.started = FALSE]
    BY DEF Fresh, AgentType
<1>3. a.sid + 1 \in Nat
    BY <1>1
<1> DEFINE n == a.sid + 1
<1>4. Fresh(a) = [a EXCEPT !.sid = n, !.started = FALSE] /\ n \in Nat
    BY <1>2, <1>3
<1> HIDE DEF n
<1>5. /\ Fresh(a) \in AgentType /\ Fresh(a).sid = n
      /\ ~Fresh(a).started /\ Fresh(a).proc = a.proc /\ Fresh(a).profile = a.profile
    BY <1>4 DEF AgentType
<1> QED
    BY <1>3, <1>5 DEF n

\* A new session is one nobody can resume; the one a reset gives to a turn in hand is
\* on record as such.
LEMMA SessionStep ==
    ASSUME Inv, ResetSession \/ InvalidateSessions
    PROVE  Inv'
<1>1. /\ TypeOK /\ agent \in AgentType
      /\ UNCHANGED <<holder, line, turn, child, tracked, killing, registry, bot, ran, blind,
                     hidden, stubborn, unlisted>>
      /\ agent' = Fresh(agent) /\ upsets' = upsets + 1 /\ upsets < MaxUpsets
      /\ torn \subseteq torn' /\ torn' \subseteq torn \cup {agent.sid + 1}
    BY DEF Inv, TypeOK, AgentType, ResetSession, InvalidateSessions, system
<1>2. /\ agent' \in AgentType /\ agent'.sid = agent.sid + 1 /\ ~agent'.started
      /\ agent'.proc = agent.proc /\ agent'.profile = agent.profile
    BY <1>1, FreshSession
<1>3. upsets' \in 0..MaxUpsets
    BY <1>1, UpsetsCounted
<1>4. TypeOK'
    <2>0. torn \subseteq Nat /\ agent.sid + 1 \in Nat
        BY <1>1, FreshSession DEF TypeOK
    <2>1. torn' \subseteq Nat
        BY <1>1, <2>0
    <2> QED
        BY <1>1, <1>2, <1>3, <2>1 DEF TypeOK, AgentType
<1>5. LineOK' /\ LockOK' /\ ProcOK' /\ ShownOK'
    BY <1>1, <1>2 DEF Inv, LineOK, LockOK, ProcOK, ShownOK
<1>6. SessionOK'
    <2>1. ASSUME NEW t \in Turns, turn[t].at \in {"spawning", "running"}
          PROVE  agent.sid + 1 \in torn'
        <3>1. holder = t
            BY <2>1 DEF Inv, LockOK, Locked
        <3> QED
            BY <2>1, <3>1, Numbers DEF ResetSession, InvalidateSessions
    <2> QED
        BY <1>1, <1>2, <2>1 DEF Inv, SessionOK, ResumesOnlyWhatRan
<1>7. ChargeOK' /\ ChildrenAreListed'
    BY <1>1, <1>2 DEF Inv, ChargeOK, Unexcused, ChildrenAreListed
<1> QED
    BY <1>4, <1>5, <1>6, <1>7 DEF Inv

-----------------------------------------------------------------------------
(***************************************************************************)
(* The actions of a turn that has the lock.                                 *)
(***************************************************************************)

\* With the lock, and nobody in charge of a tree: the child is forked, or cannot be.
LEMMA StartStep ==
    ASSUME Inv, NEW t \in Turns, Enters(t), turn[t].at \in Locked => turn[t].at = "sleeping",
           (\E p \in NextPid : Fork(t, p)) \/ CannotFork(t),
           KeepsLock(t), UNCHANGED <<bot, upsets, torn, hidden, stubborn, unlisted>>
    PROVE  Inv'
<1>1. CASE \E p \in NextPid : Fork(t, p)
    BY <1>1, ForkStep
<1>2. CASE CannotFork(t)
    <2> DEFINE a == [agent EXCEPT !.busy = TRUE, !.profile = turn[t].profile]
    <2>1. holder = NoTurn \/ turn[holder].at = "sleeping"
        BY EnterFacts DEF Enters
    <2>2. Unexcused = {} /\ (agent.proc = NoPid \/ agent.proc \in stubborn)
        BY <2>1, NobodyInCharge
    <2>3. agent \in AgentType /\ turn[t].profile \in Profiles \cup {NoProfile}
        BY DEF Inv, TypeOK, AgentType
    <2>4. a \in AgentType /\ a.proc = agent.proc /\ a.sid = agent.sid /\ a.started = agent.started
        BY <2>3 DEF AgentType
    <2>5. a.started => agent.sid \in ran \cup torn
        BY <2>4 DEF Inv, SessionOK
    <2>6. Finally(t, a) /\ UNCHANGED <<child, bot, upsets, history>>
        BY <1>2 DEF CannotFork, history
    <2> HIDE DEF a
    <2> QED
        BY <2>2, <2>4, <2>5, <2>6, FinallyStep
<1> QED
    BY <1>1, <1>2

LEMMA BeginTurnStep ==
    ASSUME Inv, NEW t \in Turns, BeginTurn(t)
    PROVE  Inv'
<1>1. Enters(t) /\ holder = NoTurn
    BY DEF BeginTurn, Enters
<1>2. turn[t].at \notin Locked
    BY <1>1, EnterFacts DEF Locked
<1> QED
    BY <1>1, <1>2, StartStep DEF BeginTurn, Launch

LEMMA RetryBeginsStep ==
    ASSUME Inv, NEW t \in Turns, RetryBegins(t)
    PROVE  Inv'
<1>1. Enters(t) /\ turn[t].at = "sleeping"
    BY DEF RetryBegins, Enters, Locked
<1> QED
    BY <1>1, StartStep DEF RetryBegins

LEMMA AnswersStep ==
    ASSUME Inv, NEW t \in Turns, Answers(t)
    PROVE  Inv'
<1> DEFINE a == IF turn[t].profile = "executive" THEN [agent EXCEPT !.started = TRUE] ELSE agent
<1>1. agent \in AgentType /\ turn[t].at = "running" /\ Enters(t)
    BY DEF Inv, TypeOK, AgentType, Answers, Enters, Locked
<1>2. /\ a \in AgentType /\ a.proc = agent.proc /\ a.sid = agent.sid /\ a.profile = agent.profile
      /\ a.started => agent.started \/ turn[t].profile = "executive"
    BY <1>1 DEF AgentType
<1>3. a.started => agent.sid \in ran \cup torn
    BY <1>1, <1>2 DEF Inv, SessionOK
<1>4. Finally(t, a) /\ KeepsLock(t) /\ UNCHANGED <<child, bot, upsets, history>>
    BY DEF Answers
<1> HIDE DEF a
<1> QED
    BY <1>1, <1>2, <1>3, <1>4, FinallyStep

LEMMA FailsStep ==
    ASSUME Inv, NEW t \in Turns, Fails(t)
    PROVE  Inv'
<1>1. agent \in AgentType /\ turn[t].at = "running" /\ Enters(t)
    BY DEF Inv, TypeOK, AgentType, Fails, Enters, Locked
<1>2. agent.started => agent.sid \in ran \cup torn
    BY DEF Inv, SessionOK
<1> QED
    BY <1>1, <1>2, FinallyStep DEF Fails

LEMMA RetriesStep ==
    ASSUME Inv, NEW t \in Turns, Retries(t)
    PROVE  Inv'
<1> DEFINE a == RenewSession(turn[t].profile)
           b == [a EXCEPT !.proc = NoPid, !.busy = FALSE]
           p == turn[t].pid
<1>1. agent \in AgentType /\ turn[t].at = "running" /\ turn[t].retry < MaxRetries
    BY DEF Inv, TypeOK, AgentType, Retries, MayRetry
<1>2. agent.started => agent.sid \in ran \cup torn
    BY DEF Inv, SessionOK
<1>3. /\ a \in AgentType /\ a.proc = agent.proc /\ a.profile = agent.profile
      /\ a.started => a.sid \in ran \cup torn
    BY <1>1, <1>2, FreshSession DEF RenewSession
<1>4. b \in AgentType /\ b.proc = NoPid /\ b.started = a.started /\ b.sid = a.sid
    <2> HIDE DEF a
    <2> QED
        BY <1>3 DEF AgentType
<1>5. UNCHANGED <<holder, line, child, bot, upsets, history>>
    BY DEF Retries
<1>6. CASE TreeAlive(p)
    <2>1. agent' = a /\ Await(t, p, "retiring") /\ UNCHANGED <<tracked, registry>>
        BY <1>6 DEF Retries
    <2> HIDE DEF a, b
    <2> QED
        BY <1>1, <1>3, <1>5, <1>6, <2>1, RetireStep
<1>7. CASE ~TreeAlive(p)
    <2>1. /\ agent' = b /\ Untrack(p) /\ killing' = killing
          /\ turn' = [turn EXCEPT ![t].at = "sleeping", ![t].ok = FALSE, ![t].retry = @ + 1]
          /\ child[p].is # "leader"
        BY <1>7 DEF Retries, OutputEnds
    <2> HIDE DEF a, b
    <2>2. ASSUME NEW q \in Unexcused PROVE FALSE
        <3>1. holder = t
            BY <1>1 DEF Inv, LockOK, Locked
        <3>2. q = p /\ agent.proc = p
            BY <1>1, <3>1 DEF Inv, ChargeOK, Ending
        <3>3. q \in Pids /\ child[q].is \in InTree
            BY DEF Unexcused
        <3>4. p \in tracked
            BY <3>2, <3>3, Numbers DEF Inv, ProcOK
        <3> QED
            BY <1>7, <3>2, <3>3, <3>4 DEF TreeAlive
    <2> QED
        BY <1>1, <1>3, <1>4, <1>5, <2>1, <2>2, SleepStep
<1> QED
    BY <1>6, <1>7

LEMMA RetireReturnsStep ==
    ASSUME Inv, NEW t \in Turns, RetireReturns(t)
    PROVE  Inv'
<1>1. /\ agent \in AgentType /\ turn \in [Turns -> TurnType] /\ turn[t].at = "retiring" /\ turn[t].wait = NoPid
      /\ turn[t].retry < MaxRetries /\ holder = t /\ line' = line /\ Enters(t)
    BY DEF Inv, TypeOK, LockOK, AgentType, TurnType, RetireReturns, Enters, Locked
<1>2. agent.started => agent.sid \in ran \cup torn
    BY DEF Inv, SessionOK
<1>3. Unexcused = {}
    BY <1>1, NobodyInCharge DEF Ending
<1>4. KeepsLock(t) /\ UNCHANGED <<child, bot, upsets, history>>
    BY DEF RetireReturns
<1>5. CASE turn[t].ok
    <2> DEFINE a == [agent EXCEPT !.proc = NoPid, !.busy = FALSE]
    <2>1. a \in AgentType /\ a.proc = NoPid /\ a.started = agent.started /\ a.sid = agent.sid
        BY <1>1 DEF AgentType
    <2>2. /\ agent' = a /\ UNCHANGED <<killing, tracked, registry>>
          /\ turn' = [turn EXCEPT ![t].at = "sleeping", ![t].ok = FALSE, ![t].retry = @ + 1]
        BY <1>5 DEF RetireReturns
    <2>3. holder' = holder
        <3>1. Goes(t, "sleeping")
            BY <1>1, <2>2, TurnUpdates DEF Wherever
        <3> QED
            BY <1>1, <1>4, <3>1 DEF Goes, KeepsLock
    <2> HIDE DEF a
    <2> QED
        BY <1>1, <1>2, <1>3, <1>4, <2>1, <2>2, <2>3, SleepStep
<1>6. CASE ~turn[t].ok
    <2>1. Finally(t, agent)
        BY <1>6 DEF RetireReturns
    <2> QED
        BY <1>1, <1>2, <1>3, <1>4, <2>1, FinallyStep
<1> QED
    BY <1>5, <1>6

LEMMA UnwindsStep ==
    ASSUME Inv, NEW t \in Turns, Unwinds(t)
    PROVE  Inv'
<1>1. /\ agent \in AgentType /\ turn[t].at \in {"aborting", "unwinding"} /\ turn[t].wait = NoPid
      /\ holder = t /\ Enters(t)
    BY DEF Inv, TypeOK, LockOK, AgentType, Unwinds, Enters, Locked
<1>2. agent.started => agent.sid \in ran \cup torn
    BY DEF Inv, SessionOK
<1>3. Unexcused = {}
    BY <1>1, NobodyInCharge DEF Ending
<1> QED
    BY <1>1, <1>2, <1>3, FinallyStep DEF Unwinds

-----------------------------------------------------------------------------
(***************************************************************************)
(* The invariant holds.                                                     *)
(***************************************************************************)
LEMMA InitInv == Init => Inv
<1> SUFFICES ASSUME Init PROVE Inv
    OBVIOUS
<1>1. TypeOK
    <2>0. MaxRetries \in Nat /\ MaxUpsets \in Nat
        BY BoundsAssumption
    <2>1. agent \in AgentType /\ turn \in [Turns -> TurnType] /\ child \in [Pids -> ChildType]
        <3>1. 0 \in 0..MaxRetries /\ 0 \in Nat
            BY <2>0
        <3>2. agent \in AgentType
            BY <3>1 DEF Init, AgentType
        <3>3. [at |-> "new", profile |-> NoProfile, pid |-> NoPid, wait |-> NoPid,
               ok |-> FALSE, retry |-> 0] \in TurnType
            BY <3>1 DEF TurnType, Wherever
        <3>4. child \in [Pids -> ChildType]
            BY DEF Init, ChildType
        <3> QED
            BY <3>2, <3>3, <3>4 DEF Init
    <2>2. upsets \in 0..MaxUpsets
        <3>1. upsets = 0
            BY DEF Init
        <3> QED
            BY <2>0, <3>1
    <2>3. line \in Seq(Turns)
        <3>1. <<>> \in Seq(Turns)
            OBVIOUS
        <3> QED
            BY <3>1 DEF Init
    <2> QED
        BY <2>1, <2>2, <2>3 DEF Init, TypeOK, AgentType, TurnType, ChildType
<1>2. LineOK
    <2>1. line = <<>>
        BY DEF Init
    <2>2. 1..Len(line) = {}
        BY <2>1
    <2> QED
        BY <2>2 DEF LineOK
<1>3. LockOK /\ ProcOK /\ SessionOK /\ ShownOK
    BY DEF Init, LockOK, ProcOK, SessionOK, ResumesOnlyWhatRan, ShownOK, Locked, Ending
<1>4. ChargeOK
    BY DEF Init, ChargeOK, Unexcused, InTree
<1>5. ChildrenAreListed
    BY DEF Init, ChildrenAreListed
<1> QED
    BY <1>1, <1>2, <1>3, <1>4, <1>5 DEF Inv

LEMMA NextInv == Inv /\ [Next]_vars => Inv'
<1> SUFFICES ASSUME Inv, [Next]_vars PROVE Inv'
    OBVIOUS
<1>1. ASSUME NEW t \in Turns, TurnStep(t) PROVE Inv'
    BY <1>1, BeginTurnStep, AnswersStep, FailsStep, RetriesStep, RetryBeginsStep, SpawnReturnsStep,
       InterruptReturnsStep, RetireReturnsStep, ReapReturnsStep, UnwindsStep DEF TurnStep, TurnEnds
<1>2. ASSUME NEW t \in Turns, NEW profile \in Profiles, Message(t, profile) PROVE Inv'
    BY <1>2, MessageStep
<1>3. ASSUME NEW p \in Pids, ChildExits(p) \/ TerminationEnds(p) \/ PidReused(p) PROVE Inv'
    BY <1>3, ChildExitsStep, TerminationStep
<1>4. CASE Shutdown \/ BotEnds \/ Boot \/ ResetSession \/ InvalidateSessions
    BY <1>4, ShutdownStep, BotEndsStep, BootStep, SessionStep
<1>5. CASE UNCHANGED vars
    <2>1. UNCHANGED <<agent, holder, line, turn, child, tracked, killing, registry, bot, upsets,
                      ran, torn, blind, hidden, stubborn, unlisted>>
        BY <1>5 DEF vars
    <2>2. TypeOK'
        BY <2>1 DEF Inv, TypeOK
    <2> QED
        BY <2>1, <2>2, ChildrenStep
<1> QED
    BY <1>1, <1>2, <1>3, <1>4, <1>5 DEF Next

LEMMA Invariance == Spec => []Inv
<1> QED
    BY InitInv, NextInv, PTL DEF Spec

-----------------------------------------------------------------------------
(***************************************************************************)
(* What follows.                                                            *)
(***************************************************************************)

\* Every variable stays in its domain, and a turn retries at most MAX_AI_RETRIES times
\* (_invoke_ai_locked).
THEOREM TypeCorrect == Spec => []TypeOK
<1>1. Inv => TypeOK
    BY DEF Inv
<1> QED
    BY <1>1, Invariance, PTL

\* Two process trees never work for the agent at once: lock, interrupt, retry and the
\* finally block of ai_invoke.py leave no gap, but for a tree that outlived its
\* termination and one whose evidence the end of an interrupt erased.
THEOREM OneTree == Spec => []OneTreePerAgent
<1>1. Inv => OneTreePerAgent
    <2> SUFFICES ASSUME Inv, NEW p \in Pids, NEW q \in Pids, p # q,
                        child[p].is \in InTree /\ ~child[p].old,
                        child[q].is \in InTree /\ ~child[q].old
                 PROVE  {p, q} \cap (stubborn \cup hidden) # {}
        BY DEF OneTreePerAgent
    <2>1. ASSUME p \in Unexcused, q \in Unexcused PROVE FALSE
        BY <2>1 DEF Inv, ChargeOK
    <2> QED
        BY <2>1 DEF Unexcused
<1> QED
    BY <1>1, Invariance, PTL

\* The CLI is never told to resume a session no child ran on (_prepare_session_retry,
\* AgentManager.reset_sessions), but one that was issued in the middle of a turn.
THEOREM SessionsRan == Spec => []ResumesOnlyWhatRan
<1>1. Inv => ResumesOnlyWhatRan
    BY DEF Inv, SessionOK
<1> QED
    BY <1>1, Invariance, PTL

\* A child that runs can be found by the next start (track_process, orphan_tracker.py),
\* but for the time of its spawn and when the spawn or the registration was cut short.
THEOREM ChildrenListed == Spec => []ChildrenAreListed
<1>1. Inv => ChildrenAreListed
    BY DEF Inv
<1> QED
    BY <1>1, Invariance, PTL

-----------------------------------------------------------------------------
\* A turn on its way moves no other, and forks at most the child that was not there.
LEMMA TurnMovesAlone ==
    ASSUME Inv, NEW t \in Turns, TurnStep(t)
    PROVE  turn[t].at # "new" /\ OthersStay(t)
<1>1. turn \in [Turns -> TurnType] /\ line \in Seq(Turns) /\ LineOK
    BY DEF Inv, TypeOK, TurnType
<1>2. ASSUME NEW a, Finally(t, a) PROVE OthersStay(t)
    BY <1>1, <1>2 DEF Finally, Reap, Settle, Await, OthersStay
<1>3. ASSUME NEW p \in NextPid, Fork(t, p) PROVE OthersStay(t)
    BY <1>1, <1>3 DEF Fork, OthersStay
<1>4. ASSUME (\E p \in NextPid : Fork(t, p)) \/ CannotFork(t) PROVE OthersStay(t)
    BY <1>2, <1>3, <1>4 DEF CannotFork
<1>5. CASE BeginTurn(t)
    <2>1. Enters(t) /\ holder = NoTurn
        BY <1>5 DEF BeginTurn, Enters
    <2>2. turn[t].at = "queued"
        BY <2>1, EnterFacts
    <2> QED
        BY <1>4, <1>5, <2>2 DEF BeginTurn, Launch
<1>6. CASE Answers(t) \/ Fails(t)
    BY <1>2, <1>6 DEF Answers, Fails
<1>7. CASE Retries(t)
    BY <1>1, <1>7 DEF Retries, Await, OthersStay
<1>8. CASE RetryBegins(t)
    BY <1>4, <1>8 DEF RetryBegins
<1>9. CASE \E listed \in {"identified", "bare", "absent"} : SpawnReturns(t, listed)
    BY <1>1, <1>9 DEF SpawnReturns, Await, OthersStay
<1>10. CASE InterruptReturns(t)
    BY <1>1, <1>10 DEF InterruptReturns, OthersStay
<1>11. CASE RetireReturns(t)
    BY <1>1, <1>2, <1>11 DEF RetireReturns, OthersStay
<1>12. CASE ReapReturns(t)
    BY <1>1, <1>12 DEF ReapReturns, OthersStay
<1>13. CASE Unwinds(t)
    BY <1>2, <1>13 DEF Unwinds
<1> QED
    BY <1>5, <1>6, <1>7, <1>8, <1>9, <1>10, <1>11, <1>12, <1>13 DEF TurnStep, TurnEnds

LEMMA StrangersStay ==
    ASSUME Inv, [Next]_vars, NEW p \in Pids, child[p].is = "stranger"
    PROVE  child'[p].is = "stranger"
<1>1. child \in [Pids -> ChildType]
    BY DEF Inv, TypeOK, ChildType
<1>2. ASSUME NEW t \in Turns, NEW q \in NextPid, Fork(t, q) PROVE child'[p] = child[p]
    BY <1>1, <1>2 DEF Fork, NextPid
<1>3. ASSUME NEW t \in Turns, (\E q \in NextPid : Fork(t, q)) \/ CannotFork(t)
      PROVE  child'[p] = child[p]
    BY <1>2, <1>3 DEF CannotFork
<1>4. ASSUME NEW t \in Turns, TurnStep(t) PROVE child'[p] = child[p]
    BY <1>3, <1>4 DEF TurnStep, TurnEnds, BeginTurn, Launch, Answers, Fails, Retries, RetryBegins,
       SpawnReturns, InterruptReturns, RetireReturns, ReapReturns, Unwinds, system
<1>5. ASSUME NEW t \in Turns, NEW profile \in Profiles, Message(t, profile) PROVE child'[p] = child[p]
    BY <1>5 DEF Message
<1>6. ASSUME NEW q \in Pids, ChildExits(q) PROVE child'[p] = child[p]
    BY <1>1, <1>6 DEF ChildExits, InTree
<1>7. ASSUME NEW q \in Pids, PidReused(q) PROVE child'[p].is = "stranger"
    BY <1>1, <1>7 DEF PidReused, ChildType
<1>8. ASSUME NEW q \in Pids, TerminationEnds(q) PROVE child'[p] = child[p]
    BY <1>8 DEF TerminationEnds
<1>9. CASE BotEnds
    <2>1. child' = [q \in Pids |-> [child[q] EXCEPT !.old = child[q].is \in InTree]]
        BY <1>9 DEF BotEnds
    <2> QED
        BY <1>1, <2>1 DEF ChildType
<1>10. CASE Boot
    <2>1. p \notin {q \in Pids : Ours(q)}
        BY DEF Ours
    <2> QED
        BY <1>10, <2>1 DEF Boot
<1>11. CASE Shutdown \/ ResetSession \/ InvalidateSessions \/ UNCHANGED vars
    BY <1>11 DEF Shutdown, ResetSession, InvalidateSessions, system, vars
<1> QED
    BY <1>4, <1>5, <1>6, <1>7, <1>8, <1>9, <1>10, <1>11 DEF Next

\* The turn that a participant's message interrupts is a participant's.
LEMMA InterruptsItsOwn ==
    ASSUME Inv, [Next]_vars, NEW t \in Turns,
           turn'[t].at = "interrupting", turn[t].at = "new", turn'[t].profile = "participant"
    PROVE  child[turn'[t].wait].profile = "participant" \/ turn'[t].wait \in stubborn
<1>1. turn \in [Turns -> TurnType]
    BY DEF Inv, TypeOK, TurnType
<1>2. ASSUME NEW u \in Turns, TurnStep(u) PROVE FALSE
    BY <1>2, TurnMovesAlone DEF OthersStay
<1>3. ASSUME NEW u \in Turns, NEW profile \in Profiles, Message(u, profile)
      PROVE  child[turn'[t].wait].profile = "participant" \/ turn'[t].wait \in stubborn
    <2>1. u = t
        <3>1. u # t => turn'[t] = turn[t]
            BY <1>1, <1>3 DEF Message, Refused, Interrupts, Queues
        <3> QED
            BY <3>1
    <2>2. Interrupts(t, profile)
        <3>1. turn[t] \in TurnType
            BY <1>1
        <3>2. ASSUME turn' = [turn EXCEPT ![t] = Over] PROVE FALSE
            BY <1>1, <3>2, OverIsTurn
        <3>3. ASSUME turn' = [turn EXCEPT ![t].at = "queued", ![t].profile = profile] PROVE FALSE
            <4>1. turn'[t] = [turn[t] EXCEPT !.at = "queued", !.profile = profile]
                BY <1>1, <3>3
            <4> QED
                BY <3>1, <4>1 DEF TurnType
        <3> QED
            BY <1>3, <2>1, <3>2, <3>3 DEF Message, Refused, Queues
    <2>3. /\ agent.proc # NoPid /\ MayInterrupt(profile)
          /\ turn'[t].profile = profile /\ turn'[t].wait = agent.proc
        <3>1. turn[t] \in TurnType
            BY <1>1
        <3>2. turn'[t] = [turn[t] EXCEPT !.at = "interrupting", !.profile = profile, !.wait = agent.proc]
            BY <1>1, <2>2 DEF Interrupts
        <3>3. turn'[t].profile = profile /\ turn'[t].wait = agent.proc
            BY <3>1, <3>2 DEF TurnType
        <3> QED
            BY <2>2, <3>3 DEF Interrupts
    <2>4. agent.profile = "participant"
        BY <2>3 DEF MayInterrupt
    <2> QED
        BY <2>3, <2>4 DEF Inv, ShownOK
<1>4. ASSUME NEW p \in Pids, ChildExits(p) \/ PidReused(p) PROVE FALSE
    BY <1>4 DEF ChildExits, PidReused
<1>5. ASSUME NEW p \in Pids, TerminationEnds(p) PROVE FALSE
    <2>1. turn'[t].at = turn[t].at
        BY <1>1, <1>5 DEF TerminationEnds, TurnType
    <2> QED
        BY <2>1
<1>6. CASE BotEnds
    BY <1>6, OverIsTurn DEF BotEnds
<1>7. CASE Shutdown \/ Boot \/ ResetSession \/ InvalidateSessions \/ UNCHANGED vars
    BY <1>7 DEF Shutdown, Boot, ResetSession, InvalidateSessions, vars
<1> QED
    BY <1>2, <1>3, <1>4, <1>5, <1>6, <1>7 DEF Next

\* A participant's turn interrupts no child an executive started (_invoke_ai_with_maintenance_lease,
\* ai_invoke.py), and the clean-up at start-up (orphan_tracker.py) kills no process that
\* was given the pid of a dead child.
THEOREM OthersSpared == Spec => SparesOthers
<1>1. Inv /\ [Next]_vars =>
        [/\ \A t \in Turns :
               turn'[t].at = "interrupting" /\ turn[t].at = "new" /\ turn'[t].profile = "participant"
                   => \/ child[turn'[t].wait].profile = "participant"
                      \/ turn'[t].wait \in stubborn
         /\ \A p \in Pids : child[p].is = "stranger" => child'[p].is = "stranger"]_vars
    BY InterruptsItsOwn, StrangersStay
<1> QED
    BY <1>1, Invariance, PTL DEF Spec, SparesOthers
=============================================================================
