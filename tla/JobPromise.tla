----------------------------- MODULE JobPromise ------------------------------
(***************************************************************************)
(* What the scheduler promises about a queued job, without its queue, its   *)
(* tokens, its processes and its clock: an effect (a reminder delivered, a  *)
(* task process started) happens at most once for each time the job was     *)
(* opened, and a job reported done had its effect and is never reopened.    *)
(***************************************************************************)
EXTENDS Naturals

CONSTANT Jobs

VARIABLES
    state,    \* what the queue says of a job
    opened,   \* how many times the job was handed out
    effects   \* how many times it took effect

vars == <<state, opened, effects>>

States == {"absent", "open", "held", "shelved", "failed", "done"}

\* The moves the queue may report.  A held job may be handed out again when
\* its holder is lost; "shelved" is a canceled job, which can be taken back.
\* (A late result brings a shelved job back too: see README.)
Moves ==
    {<<"absent", "open">>, <<"open", "failed">>, <<"open", "shelved">>,
     <<"held", "open">>, <<"held", "done">>, <<"held", "failed">>, <<"held", "shelved">>,
     <<"shelved", "open">>, <<"shelved", "failed">>, <<"shelved", "done">>,
     <<"failed", "shelved">>}

Init ==
    /\ state = [j \in Jobs |-> "absent"]
    /\ opened = [j \in Jobs |-> 0]
    /\ effects = [j \in Jobs |-> 0]

\* The job is handed out (again).
HandOut(j) ==
    /\ state[j] \in {"open", "held"}
    /\ state'[j] = "held"
    /\ opened'[j] = opened[j] + 1
    /\ effects'[j] = effects[j]

\* A holder makes it happen; there are never more of these than hand-outs.
TakeEffect(j) ==
    /\ effects[j] < opened[j]
    /\ effects'[j] = effects[j] + 1
    /\ opened'[j] = opened[j]
    /\ state'[j] = state[j]

Report(j) ==
    /\ <<state[j], state'[j]>> \in Moves
    /\ state'[j] = "done" => effects[j] > 0
    /\ opened'[j] = opened[j]
    /\ effects'[j] = effects[j]

Stay(j) ==
    /\ state'[j] = state[j]
    /\ opened'[j] = opened[j]
    /\ effects'[j] = effects[j]

\* One rewrite of the queue moves several jobs at once.
Next ==
    /\ DOMAIN state' = Jobs
    /\ DOMAIN opened' = Jobs
    /\ DOMAIN effects' = Jobs
    /\ \A j \in Jobs : HandOut(j) \/ TakeEffect(j) \/ Report(j) \/ Stay(j)

Spec == Init /\ [][Next]_vars
=============================================================================
