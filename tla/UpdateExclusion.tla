--------------------------- MODULE UpdateExclusion ---------------------------
(***************************************************************************)
(* What the maintenance gate promises, without leases, intents or queues:   *)
(* ordinary work and an update never touch the data tree at the same time,  *)
(* and after a failed recovery nothing touches it again.                    *)
(***************************************************************************)
CONSTANTS Workers, Updaters

VARIABLES
    working,   \* ordinary work that may be changing the tree
    updating,  \* updates that may be changing the tree
    stopped    \* recovery failed: nothing starts again

vars == <<working, updating, stopped>>

Init == working = {} /\ updating = {} /\ stopped = FALSE

StartWork(w) ==
    /\ ~stopped /\ updating = {}
    /\ working' = working \cup {w}
    /\ UNCHANGED <<updating, stopped>>

EndWork(w) ==
    /\ working' = working \ {w}
    /\ UNCHANGED <<updating, stopped>>

StartUpdate(u) ==
    /\ ~stopped /\ working = {} /\ updating = {}
    /\ updating' = {u}
    /\ UNCHANGED <<working, stopped>>

\* The update committed or was rolled back, or its rollback failed.
EndUpdate ==
    /\ updating' = {}
    /\ UNCHANGED <<working, stopped>>

FailRecovery ==
    /\ updating # {}
    /\ stopped' = TRUE
    /\ UNCHANGED <<working, updating>>

Next ==
    \/ \E w \in Workers : StartWork(w) \/ EndWork(w)
    \/ \E u \in Updaters : StartUpdate(u)
    \/ EndUpdate
    \/ FailRecovery

Spec == Init /\ [][Next]_vars
=============================================================================
