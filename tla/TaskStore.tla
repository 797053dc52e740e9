----------------------------- MODULE TaskStore -----------------------------
(***************************************************************************)
(* The files of one continuous task and how they survive (src/bot/           *)
(* continuous.py over src/bot/persistence_recovery.py).  state.json holds the *)
(* progress, program.json the revisioned program, which wins over any copy   *)
(* of it that a state carries; plan.md follows the program.  A file found    *)
(* corrupt is marked, set aside and restored from the newest snapshot that   *)
(* has a usable copy.  A write that found it so is refused, and writes stay  *)
(* refused until the file has been read again.                               *)
(*                                                                          *)
(* A call of the bot runs without an await, one durable write per step of    *)
(* the model, and dies or fails between any two.  The step's agent writes    *)
(* state.json from its own process whenever it likes, with a copy as old as  *)
(* it likes.  Snapshots hold both files as they were before an update.       *)
(***************************************************************************)
EXTENDS Naturals, Sequences

CONSTANTS
    Holders,        \* coroutines that keep a copy of the state over an await
    MaxEdits,       \* bound: program updates
    MaxFaults,      \* bound: corruptions, failed writes and deaths, together
    MaxSnapshots    \* bound: snapshots

ASSUME StoreAssumption ==
    MaxEdits \in Nat /\ MaxFaults \in Nat /\ MaxSnapshots \in Nat

VARIABLES
    file,       \* what each file holds
    pend,       \* files with a recovery-pending marker
    unav,       \* files with an unavailable marker
    plan,       \* the edit plan.md shows
    snaps,      \* snapshots, newest first
    mem,        \* each holder's copy of the state
    agent,      \* the agent's
    op,         \* the call under way
    edits,      \* edits begun
    faults,
    accepted,   \* history: the last edit written to the program
    born,       \* history: files that have been there
    restored,   \* history: files taken from a snapshot, the program until its next edit
    refused     \* history: holders whose write found the state recovered, until it is read

disk == <<file, pend, unav, plan, snaps>>
memory == <<mem, agent>>
history == <<accepted, born, restored, refused>>
vars == <<disk, memory, op, edits, faults, history>>

Files == {"state", "program"}
\* A document: a program, its revision, and whether it can be read.
Doc(rev, edit) == [is |-> "valid", rev |-> rev, edit |-> edit]
Missing == [is |-> "missing"]
Corrupt == [is |-> "corrupt"]
Nothing == Doc(0, 0)
Idle == [kind |-> "idle"]

Verb == Head(op.todo)[1]
File == Head(op.todo)[2]
Busy == op.kind # "idle"
Does(verbs, phase) == Busy /\ Verb \in verbs /\ op.phase = phase
Fault == faults < MaxFaults /\ faults' = faults + 1
NoFault == UNCHANGED faults

Ends == op' = Idle
Goes(phase) == op' = [op EXCEPT !.phase = phase]
Continues(st, todo) ==
    op' = IF todo = <<>> THEN Idle
          ELSE [op EXCEPT !.st = st, !.todo = todo, !.phase = "start"]

-----------------------------------------------------------------------------
(***************************************************************************)
(* The calls.                                                               *)
(***************************************************************************)
Begins(kind, h, st, todo) ==
    /\ ~Busy
    /\ op' = [kind |-> kind, by |-> h, st |-> st, todo |-> todo, phase |-> "start"]
    /\ UNCHANGED <<disk, memory, faults, history>>

\* load_state
Load(h) ==
    /\ Begins("load", h, Nothing, <<<<"read", "state">>, <<"read", "program">>, <<"take", "state">>>>)
    /\ UNCHANGED edits

\* save_state, of the copy the holder has kept.
Save(h) ==
    /\ mem[h] # Missing
    /\ Begins("save", h, mem[h], <<<<"read", "program">>, <<"guard", "state">>, <<"write", "state">>>>)
    /\ UNCHANGED edits

\* apply_update_plan_macros and update_program: the state is read, the program goes first.
Update(h) ==
    /\ edits < MaxEdits /\ edits' = edits + 1
    /\ Begins("update", h, Nothing,
              <<<<"read", "state">>, <<"read", "program">>, <<"guard", "program">>,
                <<"edit", "program">>, <<"read", "program">>, <<"guard", "state">>,
                <<"write", "state">>>>)

-----------------------------------------------------------------------------
(***************************************************************************)
(* Reading: load_json_with_recovery, on its own or within guard_json_write.  *)
(***************************************************************************)
\* Mutant: the state keeps the program it came with.
Overlaid_Not(st, rec) == st
\* _overlay_authoritative_program
Overlaid(st, rec) == [st EXCEPT !.rev = rec.rev, !.edit = rec.edit]

\* The file could be read.
Found(doc) ==
    LET rest == Tail(op.todo) IN
    IF File = "state" THEN Continues(doc, rest) /\ UNCHANGED plan
    ELSE /\ Continues(Overlaid(op.st, doc), rest)
         /\ plan' = IF doc.edit > 0 THEN doc.edit ELSE plan      \* _repair_authoritative_plan

\* The read removes both markers; one that cannot be removed is only logged.
Cleared(f) ==
    \/ pend' = pend \ {f} /\ unav' = unav \ {f} /\ NoFault
    \/ /\ pend' \in {pend, pend \ {f}} /\ unav' \in {unav, unav \ {f}}
       /\ f \in pend' \cup unav' /\ Fault
\* ... and the writers that were refused are no longer: nothing on disk says so.
Heard(f) == refused' = IF f = "state" THEN {} ELSE refused

ReadValid ==
    /\ Does({"read"}, "start") /\ file[File].is = "valid"
    /\ Found(file[File]) /\ Cleared(File) /\ Heard(File)
    /\ UNCHANGED <<file, snaps, memory, edits, accepted, born, restored>>

\* plan.md cannot be written: the call fails, and the next one tries again.
PlanFails ==
    /\ Does({"read"}, "start") /\ File = "program" /\ file[File].is = "valid"
    /\ file[File].edit \notin {0, plan}
    /\ pend' = pend \ {File} /\ unav' = unav \ {File} /\ Fault /\ Ends
    /\ UNCHANGED <<file, plan, snaps, memory, edits, history>>

\* A state that is not there is no task; a program that is not there is made of the
\* state's, but never once it has had a revision.
ReadMissing ==
    /\ Does({"read"}, "start") /\ file[File] = Missing /\ File \notin pend
    /\ IF File = "program" /\ File \notin unav /\ op.st.rev = 0
       THEN op' = [op EXCEPT !.todo = <<<<"guard", "program">>, <<"init", "program">>>> \o Tail(@)]
       ELSE Ends
    /\ UNCHANGED <<disk, memory, edits, faults, history>>

\* Mutant: the file is set aside before the marker is there.
Marked_Late(f) == pend
\* A corrupt file is marked first ...
Marked(f) == pend \cup {f}

FindCorrupt ==
    /\ Does({"read", "guard"}, "start") /\ file[File] = Corrupt
    /\ Verb = "guard" => File \notin unav
    /\ \/ /\ pend' = Marked(File) /\ NoFault
          /\ Goes("marked")
       \/ pend' = pend /\ Fault /\ Ends
    /\ UNCHANGED <<file, unav, plan, snaps, memory, edits, history>>

\* ... then set aside ...
Quarantine ==
    /\ Does({"read", "guard"}, "marked")
    /\ \/ file' = [file EXCEPT ![File] = Missing] /\ Goes("gone") /\ NoFault
       \/ file' = file /\ Ends /\ Fault
    /\ UNCHANGED <<pend, unav, plan, snaps, memory, edits, history>>

\* A call that finds a marker and no file takes the recovery up where it was left.
Resume ==
    /\ Does({"read", "guard"}, "start") /\ file[File] = Missing /\ File \in pend
    /\ Verb = "guard" => File \notin unav
    /\ Goes("gone")
    /\ UNCHANGED <<disk, memory, edits, faults, history>>

\* ... and taken from the newest snapshot that has it.
Usable(f) == {i \in DOMAIN snaps : snaps[i][f].is = "valid"}
Newest(f) == CHOOSE i \in Usable(f) : \A j \in Usable(f) : i <= j
Install ==
    /\ Does({"read", "guard"}, "gone")
    /\ \/ /\ Usable(File) # {} /\ NoFault
          /\ file' = [file EXCEPT ![File] = snaps[Newest(File)][File]]
          /\ restored' = restored \cup {File}
          /\ Goes("installed")
       \/ Usable(File) = {} /\ Ends /\ NoFault /\ UNCHANGED <<file, restored>>
       \/ Usable(File) # {} /\ Ends /\ Fault /\ UNCHANGED <<file, restored>>
    /\ UNCHANGED <<pend, unav, plan, snaps, memory, edits, accepted, born, refused>>

\* A read goes on with what was restored.
ReadRestored ==
    /\ Does({"read"}, "installed") /\ file[File].is = "valid"
    /\ Found(file[File]) /\ Cleared(File) /\ Heard(File)
    /\ UNCHANGED <<file, snaps, memory, edits, accepted, born, restored>>

\* The file was spoilt once more before it could be read: the call fails, and the marker
\* it has removed tells nobody any more.
SpoiltAgain ==
    /\ Does({"read", "guard"}, "installed") /\ file[File].is # "valid"
    /\ \/ pend' = pend \ {File} /\ NoFault
          /\ IF File \in unav THEN UNCHANGED refused ELSE Heard(File)
       \/ pend' = pend /\ Fault /\ UNCHANGED refused
    /\ Ends
    /\ UNCHANGED <<file, unav, plan, snaps, memory, edits, accepted, born, restored>>

-----------------------------------------------------------------------------
(***************************************************************************)
(* Writing.                                                                 *)
(***************************************************************************)
GuardRefuses ==
    /\ Does({"guard"}, "start") /\ File \in unav /\ Ends
    /\ UNCHANGED <<disk, memory, edits, faults, history>>

\* Nothing is there, or what is there is sound.
GuardPasses ==
    /\ Does({"guard"}, "start") /\ File \notin unav /\ File \notin pend
    /\ file[File] = Missing \/ file[File].is = "valid"
    /\ Continues(op.st, Tail(op.todo))
    /\ UNCHANGED <<disk, memory, edits, faults, history>>

\* Mutant: nothing stands in for a marker that could not be written.
FallsBack_Not == pend \ {File}
\* The unavailable marker could not be written: the recovery marker again.
FallsBack == pend \cup {File}

\* What the write found has been recovered, or an older recovery ended only now: the
\* write is refused, and so are those that follow, if either marker can be written.
GuardRecovered ==
    LET told == IF File = "state" THEN refused \cup {op.by} ELSE refused IN
    /\ \/ Does({"guard"}, "installed") /\ file[File].is = "valid"
       \/ Does({"guard"}, "start") /\ File \notin unav /\ File \in pend /\ file[File].is = "valid"
    /\ \/ pend' = pend \ {File} /\ unav' = unav \cup {File} /\ NoFault /\ refused' = told
       \/ pend' = pend /\ unav' = unav \cup {File} /\ Fault /\ refused' = told
       \/ pend' = FallsBack /\ unav' = unav /\ Fault /\ refused' = told
       \/ pend' = pend \ {File} /\ unav' = unav /\ Fault /\ Heard(File)
    /\ Ends
    /\ UNCHANGED <<file, plan, snaps, memory, edits, accepted, born, restored>>

\* The copy the holder goes on with.
Take ==
    /\ Does({"take"}, "start")
    /\ mem' = [mem EXCEPT ![op.by] = op.st] /\ Ends
    /\ UNCHANGED <<disk, agent, edits, faults, history>>

Writes(doc) ==
    /\ file' = [file EXCEPT ![File] = doc] /\ born' = born \cup {File}

\* save_state ends, atomically or not at all.
WriteState ==
    /\ Does({"write"}, "start")
    /\ \/ Writes(op.st) /\ mem' = [mem EXCEPT ![op.by] = op.st] /\ NoFault
       \/ Fault /\ UNCHANGED <<file, born, mem>>
    /\ Ends
    /\ UNCHANGED <<pend, unav, plan, snaps, agent, edits, accepted, restored, refused>>

\* The first record of a program, taken from its state.
InitProgram ==
    /\ Does({"init"}, "start")
    /\ \/ Writes(op.st) /\ Continues(op.st, Tail(op.todo)) /\ NoFault
       \/ Fault /\ Ends /\ UNCHANGED <<file, born>>
    /\ UNCHANGED <<pend, unav, plan, snaps, memory, edits, accepted, restored, refused>>

\* update_program: one revision on.
NextRecord == Doc(op.st.rev + 1, edits)

\* The new program is accepted with this write; plan.md follows with the next read.
EditProgram ==
    /\ Does({"edit"}, "start")
    /\ \/ /\ Writes(NextRecord) /\ Continues(op.st, Tail(op.todo)) /\ NoFault
          /\ accepted' = edits /\ restored' = restored \ {"program"}
       \/ Fault /\ Ends /\ UNCHANGED <<file, born, accepted, restored>>
    /\ UNCHANGED <<pend, unav, plan, snaps, memory, edits, refused>>

-----------------------------------------------------------------------------
(***************************************************************************)
(* The rest of the world.                                                   *)
(***************************************************************************)
\* The agent of a step reads the state when it starts ...
AgentReads ==
    /\ file["state"].is = "valid" /\ agent' = file["state"]
    /\ UNCHANGED <<disk, mem, op, edits, faults, history>>
\* ... and writes the whole of it, with the program it knows.
AgentWrites ==
    /\ agent # Missing
    /\ file' = [file EXCEPT !["state"] = agent]
    /\ UNCHANGED <<pend, unav, plan, snaps, memory, op, edits, faults, history>>

Spoil(f) ==
    /\ file[f].is = "valid" /\ Fault
    /\ file' = [file EXCEPT ![f] = Corrupt]
    /\ UNCHANGED <<pend, unav, plan, snaps, memory, op, edits, history>>

\* An update of the bot archives the data, between calls, spoilt files included.
Snapshot ==
    /\ ~Busy /\ Len(snaps) < MaxSnapshots
    /\ snaps' = <<file>> \o snaps
    /\ UNCHANGED <<file, pend, unav, plan, memory, op, edits, faults, history>>

\* The bot dies: what was in memory is gone.  The agent may live on.
Crash ==
    /\ Fault
    /\ mem' = [h \in Holders |-> Missing] /\ Ends /\ refused' = {}
    /\ UNCHANGED <<disk, agent, edits, accepted, born, restored>>

-----------------------------------------------------------------------------
\* A task with its program record, or one from before there were any.
Init ==
    /\ born \in {{"state"}, Files}
    /\ file = [f \in Files |-> IF f \in born THEN Nothing ELSE Missing]
    /\ pend = {} /\ unav = {} /\ plan = 0 /\ snaps = <<>>
    /\ mem = [h \in Holders |-> Missing] /\ agent = Missing
    /\ op = Idle /\ edits = 0 /\ faults = 0
    /\ accepted = 0 /\ restored = {} /\ refused = {}

Next ==
    \/ \E h \in Holders : Load(h) \/ Save(h) \/ Update(h)
    \/ ReadValid \/ PlanFails \/ ReadMissing \/ FindCorrupt \/ Quarantine \/ Resume \/ Install
    \/ ReadRestored \/ SpoiltAgain
    \/ GuardRefuses \/ GuardPasses \/ GuardRecovered
    \/ Take \/ WriteState \/ InitProgram \/ EditProgram
    \/ AgentReads \/ AgentWrites \/ (\E f \in Files : Spoil(f)) \/ Snapshot \/ Crash

Spec == Init /\ [][Next]_vars

-----------------------------------------------------------------------------
(***************************************************************************)
(* Properties.                                                              *)
(***************************************************************************)
Docs == {Missing, Corrupt} \cup [is : {"valid"}, rev : 0..MaxEdits, edit : 0..MaxEdits]

\* What the variables hold.
TypeOK ==
    /\ file \in [Files -> Docs] /\ pend \subseteq Files /\ unav \subseteq Files
    /\ plan \in 0..MaxEdits /\ snaps \in Seq([Files -> Docs]) /\ Len(snaps) <= MaxSnapshots
    /\ mem \in [Holders -> Docs] /\ agent \in Docs
    /\ edits \in 0..MaxEdits /\ faults \in 0..MaxFaults
    /\ accepted \in 0..MaxEdits /\ born \subseteq Files /\ restored \subseteq Files
    /\ refused \subseteq Holders
    /\ Busy => op.todo # <<>> /\ op.st \in Docs

\* A file that has been there is never taken for one that was not created yet, wherever
\* a recovery was cut short: who finds none finds a marker (persistence_recovery.py:294-330).
NeverTakenForNew ==
    \A f \in born : file[f] = Missing => f \in pend \cup unav

\* The program a holder gets is the last one accepted, whatever state the agent or a
\* stale holder has written and wherever the update died; only a program restored from
\* a snapshot is older.  plan.md shows the same (continuous.py:392-426).
AcceptedProgramWins ==
    [][Take => \/ "program" \in restored
               \/ mem'[op.by].edit = accepted /\ plan = accepted]_vars

\* A write that found the state recovered is refused, and so is each later write of that
\* holder until the state has been read again, as long as one of the two markers that say
\* so could be written and no recovery that then failed took it away
\* (persistence_recovery.py:346-348, 394-421).
RefusedUntilRead ==
    [][Does({"write"}, "start") /\ file' # file => op.by \notin refused]_vars
=============================================================================
