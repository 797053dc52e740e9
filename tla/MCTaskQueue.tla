----------------------------- MODULE MCTaskQueue -----------------------------
(* Instances of TaskQueue for TLC: a one-shot o and a periodic p that share   *)
(* their name and their agent file, and reminders.                            *)
EXTENDS TaskQueue, TLC

CONSTANTS o, p, work, agent

MCInterval == [t \in Tasks |-> IF t = p THEN 2 ELSE 0]
MCName == [t \in Tasks |-> work]
MCFile == [t \in Tasks |-> agent]
MCClosingOf == [x \in Closings |-> agent]

BotSymmetry == Permutations(Bots)
=============================================================================
