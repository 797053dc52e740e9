----------------------------- MODULE StepLicence -----------------------------
(***************************************************************************)
(* What stop, complete, delete and resume promise about the steps of a      *)
(* continuous task, without its files, locks, processes and cycles: a step  *)
(* starts only while the task is licensed to run, a stop, complete or       *)
(* delete revokes the licence the moment it is taken, and nothing but a     *)
(* resume gives it back.                                                    *)
(***************************************************************************)

CONSTANT Steps

VARIABLES
    licensed,   \* the task may start steps
    started,    \* the steps that were started
    asked       \* the request being carried out

vars == <<licensed, started, asked>>

Init ==
    /\ licensed = TRUE
    /\ started = {}
    /\ asked = "none"

Start ==
    /\ licensed
    /\ \E s \in Steps \ started : started' = started \cup {s}
    /\ UNCHANGED <<licensed, asked>>

\* Taken and perhaps carried out later, but the licence is gone at once.
Revoke ==
    /\ asked = "none"
    /\ asked' \in {"none", "revoke"}
    /\ licensed' = FALSE
    /\ UNCHANGED started

\* Taken, to be carried out later or at once.
Grant ==
    /\ asked = "none"
    /\ \/ asked' = "grant" /\ UNCHANGED licensed
       \/ asked' = "none" /\ licensed' = TRUE
    /\ UNCHANGED started

\* The request is carried out, or it fails or is lost in a crash.
Settle ==
    /\ asked # "none"
    /\ asked' = "none"
    /\ licensed' \in {licensed, asked = "grant"}
    /\ UNCHANGED started

Next == Start \/ Revoke \/ Grant \/ Settle

Spec == Init /\ [][Next]_vars
=============================================================================
