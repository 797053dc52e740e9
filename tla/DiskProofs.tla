----------------------------- MODULE DiskProofs -----------------------------
(***************************************************************************)
(* Theorems about what the bot keeps on disk: TaskStore, for any number of   *)
(* holders, edits, faults and snapshots, and Journal, for any retention and  *)
(* any number of events, turns, sessions, half-hours and errors.  The two    *)
(* specifications have no variable in common.                                *)
(***************************************************************************)
EXTENDS TaskStore, Journal, FiniteSetTheorems, WellFoundedInduction, SequenceTheorems, TLAPS

-----------------------------------------------------------------------------
(***************************************************************************)
(* TaskStore: the inductive invariant.                                      *)
(***************************************************************************)
ValidDocs == [is : {"valid"}, rev : Nat, edit : Nat]
AnyDocs == {Missing, Corrupt} \cup ValidDocs
Copies == {Missing} \cup ValidDocs
Steps == {"read", "guard", "take", "write", "init", "edit"} \X Files
Calls == [kind : {"load", "save", "update"}, by : Holders, st : ValidDocs,
          todo : Seq(Steps), phase : {"start", "marked", "gone", "installed"}]

\* What the files, the snapshots and the copies hold.
DataOK ==
    /\ file \in [Files -> AnyDocs] /\ snaps \in Seq([Files -> AnyDocs])
    /\ mem \in [Holders -> Copies] /\ agent \in Copies
    /\ edits \in Nat /\ born \subseteq Files

\* A call under way has a step to go on with.
CallOK == Busy => op \in Calls /\ op.todo # <<>>

\* From the marker to the install the file is marked; then it is there.
RecoveryOK ==
    Busy => /\ op.phase \in {"marked", "gone"} => File \in pend
            /\ op.phase = "installed" => file[File] # Missing

Inv == DataOK /\ CallOK /\ RecoveryOK /\ NeverTakenForNew

-----------------------------------------------------------------------------
(***************************************************************************)
(* Documents and calls.                                                     *)
(***************************************************************************)
LEMMA DocFacts ==
    /\ Nothing \in ValidDocs
    /\ \A d \in AnyDocs : d.is = "valid" => d \in ValidDocs
    /\ \A d \in ValidDocs : d # Missing /\ d.is = "valid" /\ d.rev \in Nat /\ d.edit \in Nat
    /\ Corrupt # Missing /\ Corrupt.is # "valid" /\ Missing.is # "valid"
    /\ ValidDocs \subseteq AnyDocs /\ Copies \subseteq AnyDocs
    /\ \A r, e \in Nat : Doc(r, e) \in ValidDocs
    /\ \A d, e \in ValidDocs : Overlaid(d, e) \in ValidDocs
<1>1. Missing.is = "missing" /\ Corrupt.is = "corrupt"
    BY DEF Missing, Corrupt
<1>2. Corrupt # Missing /\ Corrupt.is # "valid" /\ Missing.is # "valid"
    BY <1>1
<1>3. \A d \in ValidDocs : d.is = "valid" /\ d.rev \in Nat /\ d.edit \in Nat
    BY DEF ValidDocs
<1>4. \A d \in ValidDocs : d # Missing
    BY <1>1, <1>3
<1>5. \A r, e \in Nat : Doc(r, e) \in ValidDocs
    BY DEF Doc, ValidDocs
<1>6. \A d, e \in ValidDocs : Overlaid(d, e) \in ValidDocs
    BY DEF Overlaid, ValidDocs
<1>7. \A d \in AnyDocs : d.is = "valid" => d \in ValidDocs
    BY <1>2 DEF AnyDocs
<1>8. ValidDocs \subseteq AnyDocs /\ Copies \subseteq AnyDocs
    BY DEF AnyDocs, Copies
<1> QED
    BY <1>2, <1>3, <1>4, <1>5, <1>6, <1>7, <1>8 DEF Nothing

LEMMA CallFacts ==
    ASSUME CallOK, Busy
    PROVE  /\ File \in Files /\ op.st \in ValidDocs /\ op.by \in Holders
           /\ op.todo \in Seq(Steps) /\ Tail(op.todo) \in Seq(Steps)
<1>1. op \in Calls /\ op.todo # <<>>
    BY DEF CallOK
<1>2. op.todo \in Seq(Steps) /\ op.st \in ValidDocs /\ op.by \in Holders
    BY <1>1 DEF Calls
<1>3. Head(op.todo) \in Steps /\ Tail(op.todo) \in Seq(Steps)
    BY <1>1, <1>2, HeadTailProperties
<1>4. File \in Files
    BY <1>3 DEF File, Steps
<1> QED
    BY <1>2, <1>3, <1>4

LEMMA EndsFacts ==
    ASSUME Ends
    PROVE  ~Busy' /\ CallOK' /\ RecoveryOK'
<1>1. ~Busy'
    BY DEF Ends, Busy, Idle
<1> QED
    BY <1>1 DEF CallOK, RecoveryOK

LEMMA GoesFacts ==
    ASSUME CallOK, Busy, NEW p \in {"start", "marked", "gone", "installed"}, Goes(p)
    PROVE  CallOK' /\ File' = File /\ op'.phase = p
<1>1. op \in Calls /\ op.todo # <<>>
    BY DEF CallOK
<1>2. op' \in Calls /\ op'.todo = op.todo /\ op'.phase = p
    BY <1>1 DEF Goes, Calls
<1> QED
    BY <1>1, <1>2 DEF CallOK, File

LEMMA ContinuesFacts ==
    ASSUME CallOK, Busy, NEW st \in ValidDocs, NEW todo \in Seq(Steps), Continues(st, todo)
    PROVE  CallOK' /\ RecoveryOK'
<1>1. CASE todo = <<>>
    BY <1>1, EndsFacts DEF Continues, Ends
<1>2. CASE todo # <<>>
    <2>1. op \in Calls
        BY DEF CallOK
    <2>2. op' \in Calls /\ op'.todo = todo /\ op'.phase = "start"
        BY <1>2, <2>1 DEF Continues, Calls
    <2> QED
        BY <1>2, <2>2 DEF CallOK, RecoveryOK
<1> QED
    BY <1>1, <1>2

\* The newest usable copy of a snapshot is a document.
LEMMA NewestIsValid ==
    ASSUME snaps \in Seq([Files -> AnyDocs]), NEW f \in Files, Usable(f) # {}
    PROVE  Newest(f) \in DOMAIN snaps /\ snaps[Newest(f)][f] \in ValidDocs
<1>1. Usable(f) \subseteq Nat
    BY LenProperties DEF Usable
<1>2. \E i \in Usable(f) : \A j \in Usable(f) : i <= j
    <2>1. PICK i \in Usable(f) : \A j \in Usable(f) : ~ (<<j, i>> \in OpToRel(<, Nat))
        BY <1>1, NatLessThanWellFounded, WFMin, Zenon
    <2>2. \A j \in Usable(f) : i \in Nat /\ j \in Nat /\ ~ (j < i)
        BY <1>1, <2>1 DEF OpToRel
    <2> QED
        BY <2>2
<1>3. Newest(f) \in Usable(f)
    BY <1>2 DEF Newest
<1>4. /\ Newest(f) \in DOMAIN snaps /\ snaps[Newest(f)] \in [Files -> AnyDocs]
      /\ snaps[Newest(f)][f].is = "valid"
    BY <1>3, LenProperties DEF Usable
<1> QED
    BY <1>4, DocFacts

-----------------------------------------------------------------------------
(***************************************************************************)
(* What the actions share.                                                  *)
(***************************************************************************)
\* Only the call moves on: data and files stay.
LEMMA DataKept ==
    ASSUME DataOK, UNCHANGED <<file, snaps, mem, agent, edits, born>>
    PROVE  DataOK'
    BY DEF DataOK

\* A marker may only go from a file that is there.
LEMMA MarkersKept ==
    ASSUME NeverTakenForNew, UNCHANGED <<file, born>>, NEW f, file[f] # Missing,
           pend \ {f} \subseteq pend', unav \ {f} \subseteq unav'
    PROVE  NeverTakenForNew'
    BY DEF NeverTakenForNew

LEMMA MarkersStay ==
    ASSUME NeverTakenForNew, UNCHANGED <<file, born>>,
           pend \subseteq pend', unav \subseteq unav'
    PROVE  NeverTakenForNew'
    BY DEF NeverTakenForNew

\* A write leaves a document where it writes, and nothing else changes.
LEMMA WritesFacts ==
    ASSUME DataOK, NeverTakenForNew, NEW f \in Files, NEW d \in AnyDocs, d # Missing,
           file' = [file EXCEPT ![f] = d], born' \subseteq born \cup {f},
           UNCHANGED <<pend, unav>>
    PROVE  file' \in [Files -> AnyDocs] /\ born' \subseteq Files /\ NeverTakenForNew'
           /\ \A g \in Files : file[g] # Missing => file'[g] # Missing
<1>1. file \in [Files -> AnyDocs] /\ born \subseteq Files
    BY DEF DataOK
<1>2. file' \in [Files -> AnyDocs] /\ born' \subseteq Files
    BY <1>1
<1>3. \A g \in Files : file'[g] = IF g = f THEN d ELSE file[g]
    BY <1>1
<1>4. \A g \in born' : file'[g] = Missing => g \in born /\ file[g] = Missing
    BY <1>2, <1>3
<1>5. NeverTakenForNew'
    BY <1>4 DEF NeverTakenForNew
<1> QED
    BY <1>2, <1>3, <1>5

\* A call begins with a whole task list.
LEMMA BeginsFacts ==
    ASSUME NEW k \in {"load", "save", "update"}, NEW h \in Holders, NEW st \in ValidDocs,
           NEW todo \in Seq(Steps), todo # <<>>, Begins(k, h, st, todo)
    PROVE  CallOK' /\ RecoveryOK'
<1>1. op' = [kind |-> k, by |-> h, st |-> st, todo |-> todo, phase |-> "start"]
    BY DEF Begins
<1>2. op' \in Calls /\ op'.todo # <<>> /\ op'.phase = "start"
    BY <1>1 DEF Calls
<1> QED
    BY <1>2 DEF CallOK, RecoveryOK

\* What was read is what the call goes on with.
LEMMA FoundFacts ==
    ASSUME CallOK, Busy, NEW d \in ValidDocs, Found(d)
    PROVE  CallOK' /\ RecoveryOK'
<1>1. Tail(op.todo) \in Seq(Steps) /\ op.st \in ValidDocs
    BY CallFacts
<1>2. Overlaid(op.st, d) \in ValidDocs
    BY <1>1, DocFacts
<1>3. \/ Continues(d, Tail(op.todo))
      \/ Continues(Overlaid(op.st, d), Tail(op.todo))
    BY DEF Found
<1> QED
    BY <1>1, <1>2, <1>3, ContinuesFacts

LEMMA ClearedFacts ==
    ASSUME NEW f, Cleared(f)
    PROVE  pend \ {f} \subseteq pend' /\ unav \ {f} \subseteq unav'
    BY DEF Cleared

-----------------------------------------------------------------------------
(***************************************************************************)
(* The invariant holds, one step per action.                                *)
(***************************************************************************)
LEMMA InitInv == Init => Inv
<1> SUFFICES ASSUME Init PROVE Inv
    OBVIOUS
<1>1. ~Busy
    BY DEF Init, Busy, Idle
<1>2. born \subseteq Files /\ \A f \in Files : file[f] = IF f \in born THEN Nothing ELSE Missing
    BY DEF Init, Files
<1>3. file \in [Files -> AnyDocs]
    BY DocFacts DEF Init, AnyDocs
<1>4. DataOK
    BY <1>2, <1>3 DEF Init, DataOK, Copies
<1>5. NeverTakenForNew
    BY <1>2, DocFacts DEF NeverTakenForNew
<1> QED
    BY <1>1, <1>4, <1>5 DEF Inv, CallOK, RecoveryOK

LEMMA BeginsInv ==
    ASSUME Inv, NEW h \in Holders, Load(h) \/ Save(h) \/ Update(h)
    PROVE  Inv'
<1> USE DEF Inv, disk, memory, history
<1>1. DataOK
    OBVIOUS
<1>2. Nothing \in ValidDocs
    BY DocFacts
<1>3. CASE Load(h)
    <2>1. <<<<"read", "state">>, <<"read", "program">>, <<"take", "state">>>> \in Seq(Steps)
        BY DEF Steps, Files
    <2>2. CallOK' /\ RecoveryOK'
        BY <1>2, <1>3, <2>1, BeginsFacts DEF Load
    <2>3. UNCHANGED <<disk, memory, history, edits>>
        BY <1>3 DEF Load, Begins
    <2> QED
        BY <2>2, <2>3, DataKept, MarkersStay
<1>4. CASE Save(h)
    <2>1. <<<<"read", "program">>, <<"guard", "state">>, <<"write", "state">>>> \in Seq(Steps)
        BY DEF Steps, Files
    <2>2. mem[h] \in ValidDocs
        BY <1>1, <1>4 DEF DataOK, Save, Copies
    <2>3. CallOK' /\ RecoveryOK'
        BY <1>4, <2>1, <2>2, BeginsFacts DEF Save
    <2>4. UNCHANGED <<disk, memory, history, edits>>
        BY <1>4 DEF Save, Begins
    <2> QED
        BY <2>3, <2>4, DataKept, MarkersStay
<1>5. CASE Update(h)
    <2>1. <<<<"read", "state">>, <<"read", "program">>, <<"guard", "program">>,
            <<"edit", "program">>, <<"read", "program">>, <<"guard", "state">>,
            <<"write", "state">>>> \in Seq(Steps)
        BY DEF Steps, Files
    <2>2. CallOK' /\ RecoveryOK'
        BY <1>2, <1>5, <2>1, BeginsFacts DEF Update
    <2>3. UNCHANGED <<disk, memory, history>> /\ edits' = edits + 1
        BY <1>5 DEF Update, Begins
    <2>4. DataOK'
        BY <1>1, <2>3 DEF DataOK
    <2> QED
        BY <2>2, <2>3, <2>4, MarkersStay
<1> QED
    BY <1>3, <1>4, <1>5

LEMMA ReadingInv ==
    ASSUME Inv,
           ReadValid \/ PlanFails \/ ReadMissing \/ ReadRestored
    PROVE  Inv'
<1> USE DEF Inv, disk, memory, history
<1>1. DataOK /\ CallOK /\ NeverTakenForNew
    OBVIOUS
<1>2. Busy
    BY DEF ReadValid, PlanFails, ReadMissing, ReadRestored, Does
<1>3. File \in Files /\ op.st \in ValidDocs /\ Tail(op.todo) \in Seq(Steps)
    BY <1>1, <1>2, CallFacts
<1>4. ASSUME file[File].is = "valid"
      PROVE  file[File] \in ValidDocs /\ file[File] # Missing
    BY <1>1, <1>3, <1>4, DocFacts DEF DataOK
<1>5. CASE ReadValid \/ ReadRestored
    <2>1. file[File] \in ValidDocs /\ file[File] # Missing
        BY <1>4, <1>5 DEF ReadValid, ReadRestored
    <2>2. Found(file[File]) /\ Cleared(File) /\ UNCHANGED <<file, snaps, mem, agent, edits, born>>
        BY <1>5 DEF ReadValid, ReadRestored
    <2>3. CallOK' /\ RecoveryOK'
        BY <1>1, <1>2, <2>1, <2>2, FoundFacts
    <2>4. NeverTakenForNew'
        BY <1>1, <2>1, <2>2, ClearedFacts, MarkersKept
    <2> QED
        BY <1>1, <2>2, <2>3, <2>4, DataKept
<1>6. CASE PlanFails
    <2>1. file[File] # Missing
        BY <1>4, <1>6 DEF PlanFails
    <2>2. UNCHANGED <<file, snaps, mem, agent, edits, born>> /\ Ends
          /\ pend' = pend \ {File} /\ unav' = unav \ {File}
        BY <1>6 DEF PlanFails
    <2>3. NeverTakenForNew'
        BY <1>1, <2>1, <2>2, MarkersKept
    <2> QED
        BY <1>1, <2>2, <2>3, DataKept, EndsFacts
<1>7. CASE ReadMissing
    <2>1. UNCHANGED <<file, pend, unav, snaps, mem, agent, edits, born>>
        BY <1>7 DEF ReadMissing
    <2>2. CallOK' /\ RecoveryOK'
        <3>1. CASE Ends
            BY <3>1, EndsFacts
        <3>2. CASE op' = [op EXCEPT !.todo = <<<<"guard", "program">>, <<"init", "program">>>>
                                               \o Tail(@)]
            <4> DEFINE two == <<<<"guard", "program">>, <<"init", "program">>>>
            <4>1. op \in Calls /\ op.phase = "start"
                BY <1>1, <1>2, <1>7 DEF CallOK, ReadMissing, Does
            <4>2. two \in Seq(Steps) /\ two # <<>>
                BY DEF Steps, Files
            <4>3. two \o Tail(op.todo) \in Seq(Steps) /\ two \o Tail(op.todo) # <<>>
                BY <1>3, <4>2, ConcatProperties, ConcatEqualIffEmpty
            <4> HIDE DEF two
            <4>4. op' = [op EXCEPT !.todo = two \o Tail(op.todo)]
                BY <3>2 DEF two
            <4>5. op' \in Calls /\ op'.todo # <<>> /\ op'.phase = "start"
                BY <4>1, <4>3, <4>4 DEF Calls
            <4> QED
                BY <4>5 DEF CallOK, RecoveryOK
        <3> QED
            BY <1>7, <3>1, <3>2 DEF ReadMissing
    <2> QED
        BY <1>1, <2>1, <2>2, DataKept, MarkersStay
<1> QED
    BY <1>5, <1>6, <1>7

LEMMA RecoveringInv ==
    ASSUME Inv,
           FindCorrupt \/ Quarantine \/ Resume \/ Install \/ SpoiltAgain
    PROVE  Inv'
<1> USE DEF Inv, disk, memory, history
<1>1. DataOK /\ CallOK /\ RecoveryOK /\ NeverTakenForNew
    OBVIOUS
<1>2. Busy
    BY DEF FindCorrupt, Quarantine, Resume, Install, SpoiltAgain, Does
<1>3. File \in Files
    BY <1>1, <1>2, CallFacts
<1>4. CASE FindCorrupt
    <2>1. UNCHANGED <<file, unav, snaps, mem, agent, edits, born>> /\ pend \subseteq pend'
        BY <1>4 DEF FindCorrupt, Marked
    <2>2. CASE Ends
        BY <1>1, <2>1, <2>2, DataKept, MarkersStay, EndsFacts
    <2>3. CASE Goes("marked") /\ File \in pend'
        <3>1. CallOK' /\ File' = File /\ op'.phase = "marked"
            BY <1>1, <1>2, <2>3, GoesFacts
        <3>2. RecoveryOK'
            BY <2>3, <3>1 DEF RecoveryOK
        <3> QED
            BY <1>1, <2>1, <3>1, <3>2, DataKept, MarkersStay
    <2> QED
        BY <1>4, <2>2, <2>3 DEF FindCorrupt, Marked
<1>5. CASE Quarantine
    <2>1. UNCHANGED <<pend, unav, snaps, mem, agent, edits, born>> /\ File \in pend
        BY <1>1, <1>2, <1>5 DEF Quarantine, Does, RecoveryOK
    <2>2. CASE file' = file /\ Ends
        BY <1>1, <2>1, <2>2, DataKept, MarkersStay, EndsFacts
    <2>3. CASE file' = [file EXCEPT ![File] = Missing] /\ Goes("gone")
        <3>1. CallOK' /\ File' = File /\ op'.phase = "gone"
            BY <1>1, <1>2, <2>3, GoesFacts
        <3>2. RecoveryOK'
            BY <2>1, <3>1 DEF RecoveryOK
        <3>3. file' \in [Files -> AnyDocs]
            BY <1>1, <2>3 DEF DataOK, AnyDocs
        <3>4. DataOK'
            BY <1>1, <2>1, <3>3 DEF DataOK
        <3>5. \A f \in Files : f = File \/ file'[f] = file[f]
            BY <1>1, <2>3 DEF DataOK
        <3>6. NeverTakenForNew'
            BY <1>1, <2>1, <3>5 DEF NeverTakenForNew, DataOK
        <3> QED
            BY <3>1, <3>2, <3>4, <3>6
    <2> QED
        BY <1>5, <2>2, <2>3 DEF Quarantine
<1>6. CASE Resume
    <2>1. UNCHANGED <<file, pend, unav, snaps, mem, agent, edits, born>> /\ File \in pend
        BY <1>6 DEF Resume
    <2>2. CallOK' /\ File' = File /\ op'.phase = "gone"
        BY <1>1, <1>2, <1>6, GoesFacts DEF Resume
    <2>3. RecoveryOK'
        BY <2>1, <2>2 DEF RecoveryOK
    <2> QED
        BY <1>1, <2>1, <2>2, <2>3, DataKept, MarkersStay
<1>7. CASE Install
    <2>1. UNCHANGED <<pend, unav, snaps, mem, agent, edits, born>>
        BY <1>7 DEF Install
    <2>2. CASE file' = file /\ Ends
        BY <1>1, <2>1, <2>2, DataKept, MarkersStay, EndsFacts
    <2>3. CASE /\ Usable(File) # {} /\ Goes("installed")
               /\ file' = [file EXCEPT ![File] = snaps[Newest(File)][File]]
        <3>1. snaps[Newest(File)][File] \in ValidDocs
            BY <1>1, <1>3, <2>3, NewestIsValid DEF DataOK
        <3>2. snaps[Newest(File)][File] \in AnyDocs /\ snaps[Newest(File)][File] # Missing
            BY <3>1, DocFacts
        <3>3. file' \in [Files -> AnyDocs] /\ NeverTakenForNew'
            BY <1>1, <1>3, <2>1, <2>3, <3>2, WritesFacts
        <3>4. CallOK' /\ File' = File /\ op'.phase = "installed"
            BY <1>1, <1>2, <2>3, GoesFacts
        <3>5. file'[File] # Missing
            BY <1>1, <1>3, <2>3, <3>2 DEF DataOK
        <3>6. RecoveryOK'
            BY <3>4, <3>5 DEF RecoveryOK
        <3>7. DataOK'
            BY <1>1, <2>1, <3>3 DEF DataOK
        <3> QED
            BY <3>3, <3>4, <3>6, <3>7
    <2> QED
        BY <1>7, <2>2, <2>3 DEF Install
<1>8. CASE SpoiltAgain
    <2>1. UNCHANGED <<file, unav, snaps, mem, agent, edits, born>> /\ Ends
          /\ pend \ {File} \subseteq pend'
        BY <1>8 DEF SpoiltAgain
    <2>2. file[File] # Missing
        BY <1>1, <1>2, <1>8 DEF SpoiltAgain, Does, RecoveryOK
    <2>3. NeverTakenForNew'
        BY <1>1, <2>1, <2>2, MarkersKept
    <2> QED
        BY <1>1, <2>1, <2>3, DataKept, EndsFacts
<1> QED
    BY <1>4, <1>5, <1>6, <1>7, <1>8

LEMMA WritingInv ==
    ASSUME Inv,
           \/ GuardRefuses \/ GuardPasses \/ GuardRecovered
           \/ Take \/ WriteState \/ InitProgram \/ EditProgram
    PROVE  Inv'
<1> USE DEF Inv, disk, memory, history
<1>1. DataOK /\ CallOK /\ RecoveryOK /\ NeverTakenForNew
    OBVIOUS
<1>2. Busy
    BY DEF GuardRefuses, GuardPasses, GuardRecovered, Take, WriteState, InitProgram,
           EditProgram, Does
<1>3. File \in Files /\ op.st \in ValidDocs /\ op.by \in Holders /\ Tail(op.todo) \in Seq(Steps)
    BY <1>1, <1>2, CallFacts
<1>4. op.st \in AnyDocs /\ op.st # Missing
    BY <1>3, DocFacts
<1>5. CASE GuardRefuses
    <2>1. UNCHANGED <<file, pend, unav, snaps, mem, agent, edits, born>> /\ Ends
        BY <1>5 DEF GuardRefuses
    <2> QED
        BY <1>1, <2>1, DataKept, MarkersStay, EndsFacts
<1>6. CASE GuardPasses
    <2>1. UNCHANGED <<file, pend, unav, snaps, mem, agent, edits, born>>
          /\ Continues(op.st, Tail(op.todo))
        BY <1>6 DEF GuardPasses
    <2> QED
        BY <1>1, <1>2, <1>3, <2>1, DataKept, MarkersStay, ContinuesFacts
<1>7. CASE GuardRecovered
    <2>1. UNCHANGED <<file, snaps, mem, agent, edits, born>> /\ Ends
          /\ pend \ {File} \subseteq pend' /\ unav \subseteq unav'
        BY <1>7 DEF GuardRecovered, FallsBack
    <2>2. file[File].is = "valid"
        BY <1>7 DEF GuardRecovered
    <2>3. file[File] # Missing
        BY <2>2, DocFacts
    <2>4. NeverTakenForNew'
        BY <1>1, <2>1, <2>3, MarkersKept
    <2> QED
        BY <1>1, <2>1, <2>4, DataKept, EndsFacts
<1>8. CASE Take
    <2>1. UNCHANGED <<file, pend, unav, snaps, agent, edits, born>> /\ Ends
          /\ mem' = [mem EXCEPT ![op.by] = op.st]
        BY <1>8 DEF Take
    <2>2. mem' \in [Holders -> Copies]
        BY <1>1, <1>3, <2>1 DEF DataOK, Copies
    <2>3. DataOK'
        BY <1>1, <2>1, <2>2 DEF DataOK
    <2> QED
        BY <1>1, <2>1, <2>3, MarkersStay, EndsFacts
<1>9. CASE WriteState
    <2>1. UNCHANGED <<pend, unav, snaps, agent, edits>> /\ Ends
        BY <1>9 DEF WriteState
    <2>2. CASE UNCHANGED <<file, born, mem>>
        BY <1>1, <2>1, <2>2, DataKept, MarkersStay, EndsFacts
    <2>3. CASE Writes(op.st) /\ mem' = [mem EXCEPT ![op.by] = op.st]
        <3>1. file' \in [Files -> AnyDocs] /\ born' \subseteq Files /\ NeverTakenForNew'
            BY <1>1, <1>3, <1>4, <2>1, <2>3, WritesFacts DEF Writes
        <3>2. mem' \in [Holders -> Copies]
            BY <1>1, <1>3, <2>3 DEF DataOK, Copies
        <3>3. DataOK'
            BY <1>1, <2>1, <3>1, <3>2 DEF DataOK
        <3> QED
            BY <2>1, <3>1, <3>3, EndsFacts
    <2> QED
        BY <1>9, <2>2, <2>3 DEF WriteState
<1>10. CASE InitProgram
    <2>1. UNCHANGED <<pend, unav, snaps, mem, agent, edits>>
        BY <1>10 DEF InitProgram
    <2>2. CASE UNCHANGED <<file, born>> /\ Ends
        BY <1>1, <2>1, <2>2, DataKept, MarkersStay, EndsFacts
    <2>3. CASE Writes(op.st) /\ Continues(op.st, Tail(op.todo))
        <3>1. file' \in [Files -> AnyDocs] /\ born' \subseteq Files /\ NeverTakenForNew'
            BY <1>1, <1>3, <1>4, <2>1, <2>3, WritesFacts DEF Writes
        <3>2. DataOK'
            BY <1>1, <2>1, <3>1 DEF DataOK
        <3> QED
            BY <1>1, <1>2, <1>3, <2>3, <3>1, <3>2, ContinuesFacts
    <2> QED
        BY <1>10, <2>2, <2>3 DEF InitProgram
<1>11. CASE EditProgram
    <2>1. UNCHANGED <<pend, unav, snaps, mem, agent, edits>>
        BY <1>11 DEF EditProgram
    <2>2. CASE UNCHANGED <<file, born>> /\ Ends
        BY <1>1, <2>1, <2>2, DataKept, MarkersStay, EndsFacts
    <2>3. CASE Writes(NextRecord) /\ Continues(op.st, Tail(op.todo))
        <3>1. op.st.rev + 1 \in Nat /\ edits \in Nat
            BY <1>1, <1>3, DocFacts DEF DataOK
        <3>2. NextRecord \in ValidDocs
            BY <3>1, DocFacts DEF NextRecord
        <3>3. NextRecord \in AnyDocs /\ NextRecord # Missing
            BY <3>2, DocFacts
        <3>4. file' \in [Files -> AnyDocs] /\ born' \subseteq Files /\ NeverTakenForNew'
            BY <1>1, <1>3, <2>1, <2>3, <3>3, WritesFacts DEF Writes
        <3>5. DataOK'
            BY <1>1, <2>1, <3>4 DEF DataOK
        <3> QED
            BY <1>1, <1>2, <1>3, <2>3, <3>4, <3>5, ContinuesFacts
    <2> QED
        BY <1>11, <2>2, <2>3 DEF EditProgram
<1> QED
    BY <1>5, <1>6, <1>7, <1>8, <1>9, <1>10, <1>11

\* A document written or spoilt from outside does not disturb the call under way.
LEMMA OutsideWrite ==
    ASSUME Inv, NEW f \in Files, NEW d \in AnyDocs, d # Missing,
           file' = [file EXCEPT ![f] = d],
           UNCHANGED <<pend, unav, snaps, mem, agent, op, edits, born>>
    PROVE  Inv'
<1>1. DataOK /\ CallOK /\ RecoveryOK /\ NeverTakenForNew
    BY DEF Inv
<1>2. /\ file' \in [Files -> AnyDocs] /\ NeverTakenForNew'
      /\ \A g \in Files : file[g] # Missing => file'[g] # Missing
    BY <1>1, WritesFacts
<1>3. DataOK'
    BY <1>1, <1>2 DEF DataOK
<1>4. CallOK'
    BY <1>1 DEF CallOK, Busy
<1>5. Busy => File \in Files
    BY <1>1, CallFacts
<1>6. RecoveryOK'
    BY <1>1, <1>2, <1>5 DEF RecoveryOK, Busy, File
<1> QED
    BY <1>2, <1>3, <1>4, <1>6 DEF Inv

LEMMA WorldInv ==
    ASSUME Inv,
           \/ AgentReads \/ AgentWrites \/ (\E f \in Files : Spoil(f)) \/ Snapshot \/ Crash
    PROVE  Inv'
<1> USE DEF disk, memory, history
<1>1. DataOK /\ CallOK /\ RecoveryOK /\ NeverTakenForNew
    BY DEF Inv
<1>2. CASE AgentReads
    <2>1. UNCHANGED <<file, pend, unav, snaps, mem, op, edits, born>> /\ agent' = file["state"]
          /\ file["state"].is = "valid"
        BY <1>2 DEF AgentReads
    <2>2. agent' \in Copies
        BY <1>1, <2>1, DocFacts DEF DataOK, Files, Copies
    <2>3. DataOK'
        BY <1>1, <2>1, <2>2 DEF DataOK
    <2>4. CallOK' /\ RecoveryOK'
        BY <1>1, <2>1 DEF CallOK, RecoveryOK, Busy, File
    <2> QED
        BY <1>1, <2>1, <2>3, <2>4, MarkersStay DEF Inv
<1>3. CASE AgentWrites
    <2>1. agent \in AnyDocs /\ agent # Missing /\ "state" \in Files
        BY <1>1, <1>3, DocFacts DEF DataOK, AgentWrites, Files
    <2> QED
        BY <1>3, <2>1, OutsideWrite DEF AgentWrites
<1>4. ASSUME NEW f \in Files, Spoil(f)
      PROVE  Inv'
    <2>1. Corrupt \in AnyDocs /\ Corrupt # Missing
        BY DocFacts DEF AnyDocs
    <2> QED
        BY <1>4, <2>1, OutsideWrite DEF Spoil
<1>5. CASE Snapshot
    <2>1. UNCHANGED <<file, pend, unav, mem, agent, op, edits, born>> /\ snaps' = <<file>> \o snaps
        BY <1>5 DEF Snapshot
    <2>2. <<file>> \in Seq([Files -> AnyDocs])
        BY <1>1 DEF DataOK
    <2>3. snaps' \in Seq([Files -> AnyDocs])
        BY <1>1, <2>1, <2>2, ConcatProperties DEF DataOK
    <2>4. DataOK'
        BY <1>1, <2>1, <2>3 DEF DataOK
    <2>5. CallOK' /\ RecoveryOK'
        BY <1>1, <2>1 DEF CallOK, RecoveryOK, Busy, File
    <2> QED
        BY <1>1, <2>1, <2>4, <2>5, MarkersStay DEF Inv
<1>6. CASE Crash
    <2>1. UNCHANGED <<file, pend, unav, snaps, agent, edits, born>> /\ Ends
          /\ mem' = [h \in Holders |-> Missing]
        BY <1>6 DEF Crash
    <2>2. DataOK'
        BY <1>1, <2>1 DEF DataOK, Copies
    <2> QED
        BY <1>1, <2>1, <2>2, MarkersStay, EndsFacts DEF Inv
<1> QED
    BY <1>2, <1>3, <1>4, <1>5, <1>6

LEMMA NextInv == Inv /\ [Next]_vars => Inv'
<1> SUFFICES ASSUME Inv, [Next]_vars PROVE Inv'
    OBVIOUS
<1>1. CASE UNCHANGED vars
    BY <1>1 DEF vars, disk, memory, history, Inv, DataOK, CallOK, RecoveryOK,
                NeverTakenForNew, Busy, File
<1>2. CASE Next
    BY <1>2, BeginsInv, ReadingInv, RecoveringInv, WritingInv, WorldInv DEF Next
<1> QED
    BY <1>1, <1>2

-----------------------------------------------------------------------------
(***************************************************************************)
(* The barrier that holds writers off after a recovery.                     *)
(***************************************************************************)
\* A write comes right after the guard of the state.
Guarded(todo) ==
    \A i \in 1..Len(todo) : i < Len(todo) /\ todo[i + 1][1] = "write"
                              => todo[i] = <<"guard", "state">>

\* A marker tells the writers that were refused, and who is about to write has seen none.
BarrierOK ==
    /\ refused # {} => "state" \in pend \cup unav
    /\ Busy => Guarded(op.todo) /\ (Verb = "write" => refused = {})

LEMMA BarrierAtEnd ==
    ASSUME Ends, refused' # {} => "state" \in (pend \cup unav)'
    PROVE  BarrierOK'
    BY EndsFacts DEF BarrierOK

\* Within a step of the call: it is not the write, and its list stays.
LEMMA BarrierStays ==
    ASSUME BarrierOK, Busy, Verb # "write", op'.todo = op.todo,
           refused' # {} => "state" \in (pend \cup unav)'
    PROVE  BarrierOK'
    BY DEF BarrierOK, Verb

\* The next step of the call is a write only when this was the guard of the state.
LEMMA BarrierGoesOn ==
    ASSUME CallOK, BarrierOK, Busy, NEW st, Continues(st, Tail(op.todo)),
           refused' # {} => "state" \in (pend \cup unav)',
           Verb = "guard" /\ File = "state" => refused' = {}
    PROVE  BarrierOK'
<1>1. CASE Tail(op.todo) = <<>>
    BY <1>1, BarrierAtEnd DEF Continues, Ends
<1>2. CASE Tail(op.todo) # <<>>
    <2> DEFINE rest == Tail(op.todo)
    <2>1. op \in Calls /\ op.todo # <<>> /\ op.todo \in Seq(Steps) /\ rest \in Seq(Steps)
        BY CallFacts DEF CallOK
    <2>2. op'.todo = rest
        BY <1>2, <2>1 DEF Continues, Calls
    <2>3. /\ Len(op.todo) \in Nat /\ Len(rest) \in Nat /\ Len(rest) = Len(op.todo) - 1
          /\ \A i \in 1..Len(rest) : rest[i] = op.todo[i + 1]
        BY <2>1, HeadTailProperties, LenProperties
    <2>4. Len(rest) > 0
        BY <1>2, <2>1, <2>3, EmptySeq
    <2>5. Head(rest) = op.todo[2] /\ Head(op.todo) = op.todo[1]
        BY <1>2, <2>1, <2>3, <2>4
    <2>6. Guarded(op.todo)
        BY DEF BarrierOK
    <2> HIDE DEF rest
    <2>7. Guarded(rest)
        <3>1. SUFFICES ASSUME NEW i \in 1..Len(rest), i < Len(rest), rest[i + 1][1] = "write"
                       PROVE  rest[i] = <<"guard", "state">>
            BY DEF Guarded
        <3>2. /\ i + 1 \in 1..Len(op.todo) /\ i + 1 < Len(op.todo) /\ i + 1 \in 1..Len(rest)
              /\ rest[i] = op.todo[i + 1] /\ rest[i + 1] = op.todo[(i + 1) + 1]
            BY <2>3, <3>1
        <3> QED
            BY <2>6, <3>1, <3>2 DEF Guarded
    <2>8. Head(rest)[1] = "write" => refused' = {}
        <3>1. SUFFICES ASSUME Head(rest)[1] = "write" PROVE refused' = {}
            OBVIOUS
        <3>2. 1 \in 1..Len(op.todo) /\ 1 < Len(op.todo) /\ op.todo[1 + 1][1] = "write"
            BY <2>3, <2>4, <2>5, <3>1
        <3>3. op.todo[1] = <<"guard", "state">>
            BY <2>6, <3>2 DEF Guarded
        <3> QED
            BY <2>5, <3>3 DEF Verb, File
    <2> QED
        BY <2>2, <2>7, <2>8 DEF BarrierOK, Verb
<1> QED
    BY <1>1, <1>2

LEMMA InitBarrier == Init => BarrierOK
    BY DEF Init, BarrierOK, Busy, Idle

LEMMA BeginsBarrier ==
    ASSUME BarrierOK, NEW h \in Holders, Load(h) \/ Save(h) \/ Update(h)
    PROVE  BarrierOK'
<1>1. UNCHANGED <<pend, unav, refused>>
    BY DEF Load, Save, Update, Begins, disk, history
<1>2. CASE Load(h)
    <2> DEFINE todo == <<<<"read", "state">>, <<"read", "program">>, <<"take", "state">>>>
    <2>1. Guarded(todo) /\ Head(todo)[1] = "read"
        BY DEF Guarded
    <2>2. op'.todo = todo
        BY <1>2 DEF Load, Begins
    <2> QED
        BY <1>1, <2>1, <2>2 DEF BarrierOK, Verb
<1>3. CASE Save(h)
    <2> DEFINE todo == <<<<"read", "program">>, <<"guard", "state">>, <<"write", "state">>>>
    <2>1. Guarded(todo) /\ Head(todo)[1] = "read"
        BY DEF Guarded
    <2>2. op'.todo = todo
        BY <1>3 DEF Save, Begins
    <2> QED
        BY <1>1, <2>1, <2>2 DEF BarrierOK, Verb
<1>4. CASE Update(h)
    <2> DEFINE todo == <<<<"read", "state">>, <<"read", "program">>, <<"guard", "program">>,
                         <<"edit", "program">>, <<"read", "program">>, <<"guard", "state">>,
                         <<"write", "state">>>>
    <2>1. Guarded(todo) /\ Head(todo)[1] = "read"
        BY DEF Guarded
    <2>2. op'.todo = todo
        BY <1>4 DEF Update, Begins
    <2> QED
        BY <1>1, <2>1, <2>2 DEF BarrierOK, Verb
<1> QED
    BY <1>2, <1>3, <1>4

LEMMA ReadingBarrier ==
    ASSUME Inv, BarrierOK,
           ReadValid \/ PlanFails \/ ReadMissing \/ ReadRestored
    PROVE  BarrierOK'
<1> USE DEF disk, memory, history
<1>1. CallOK /\ Busy /\ Verb = "read"
    BY DEF Inv, ReadValid, PlanFails, ReadMissing, ReadRestored, Does
<1>2. refused # {} => "state" \in pend \cup unav
    BY DEF BarrierOK
<1>3. CASE ReadValid \/ ReadRestored
    <2>1. Heard(File) /\ Cleared(File) /\ Found(file[File])
        BY <1>3 DEF ReadValid, ReadRestored
    <2>2. refused' # {} => "state" \in (pend \cup unav)'
        BY <1>2, <2>1, ClearedFacts DEF Heard
    <2>3. PICK st : Continues(st, Tail(op.todo))
        BY <2>1 DEF Found
    <2> QED
        BY <1>1, <2>2, <2>3, BarrierGoesOn
<1>4. CASE PlanFails
    <2>1. /\ pend' = pend \ {"program"} /\ unav' = unav \ {"program"} /\ Ends
          /\ refused' = refused
        BY <1>4 DEF PlanFails
    <2> QED
        BY <1>2, <2>1, BarrierAtEnd
<1>5. CASE ReadMissing
    <2>1. UNCHANGED <<pend, unav, refused>>
        BY <1>5 DEF ReadMissing
    <2>2. CASE Ends
        BY <1>2, <2>1, <2>2, BarrierAtEnd
    <2>3. CASE op' = [op EXCEPT !.todo = <<<<"guard", "program">>, <<"init", "program">>>>
                                           \o Tail(@)]
        <3> DEFINE two == <<<<"guard", "program">>, <<"init", "program">>>>
                   rest == Tail(op.todo)
                   all == two \o rest
        <3>1. op \in Calls /\ op.todo # <<>> /\ op.todo \in Seq(Steps) /\ rest \in Seq(Steps)
            BY <1>1, CallFacts DEF CallOK
        <3>2. two \in Seq(Steps) /\ Len(two) = 2
            BY DEF Steps, Files
        <3>3. /\ Len(op.todo) \in Nat /\ Len(rest) \in Nat /\ Len(rest) = Len(op.todo) - 1
              /\ \A i \in 1..Len(rest) : rest[i] = op.todo[i + 1]
            BY <3>1, HeadTailProperties, LenProperties
        <3>4. Head(op.todo) = op.todo[1] /\ op.todo[1][1] = "read"
            BY <1>1, <3>1 DEF Verb
        <3>5. Guarded(op.todo)
            BY <1>1 DEF BarrierOK
        <3>6. two[1] = <<"guard", "program">> /\ two[2] = <<"init", "program">>
            OBVIOUS
        <3> HIDE DEF two, rest
        <3>7. /\ all \in Seq(Steps) /\ Len(all) = Len(rest) + 2
              /\ \A i \in 1..(2 + Len(rest)) : all[i] = IF i <= 2 THEN two[i] ELSE rest[i - 2]
            <4>1. /\ all \in Seq(Steps) /\ Len(all) = Len(two) + Len(rest)
                  /\ \A i \in 1..(Len(two) + Len(rest)) :
                        all[i] = IF i <= Len(two) THEN two[i] ELSE rest[i - Len(two)]
                BY <3>1, <3>2, ConcatProperties
            <4> HIDE DEF all
            <4> QED
                BY <3>2, <3>3, <4>1
        <3>8. all # <<>> /\ Head(all) = two[1]
            BY <3>3, <3>7
        <3>9. op'.todo = all
            <4>1. op' = [op EXCEPT !.todo = all]
                BY <2>3 DEF two, rest
            <4> QED
                BY <3>1, <4>1 DEF Calls
        <3> HIDE DEF all
        <3>10. Guarded(all)
            <4>1. SUFFICES ASSUME NEW i \in 1..Len(all), i < Len(all), all[i + 1][1] = "write"
                           PROVE  all[i] = <<"guard", "state">>
                BY DEF Guarded
            <4>2. CASE i = 1
                BY <3>3, <3>6, <3>7, <4>1, <4>2
            <4>3. CASE i = 2
                <5>1. all[3] = rest[1] /\ 1 \in 1..Len(rest)
                    BY <3>3, <3>7, <4>1, <4>3
                <5>2. op.todo[1 + 1][1] = "write" /\ 1 \in 1..Len(op.todo) /\ 1 < Len(op.todo)
                    BY <3>3, <4>1, <4>3, <5>1
                <5>3. op.todo[1] = <<"guard", "state">>
                    BY <3>5, <5>2 DEF Guarded
                <5> QED
                    BY <3>4, <5>3
            <4>4. CASE i > 2
                <5>1. /\ i - 1 \in 1..Len(op.todo) /\ i - 1 < Len(op.todo)
                      /\ all[i] = op.todo[i - 1] /\ all[i + 1] = op.todo[(i - 1) + 1]
                    <6>1. i \in Nat /\ i < Len(rest) + 2 /\ i + 1 > 2 /\ ~ (i <= 2)
                        BY <3>3, <3>7, <4>1, <4>4
                    <6>2. i - 2 \in 1..Len(rest) /\ (i + 1) - 2 \in 1..Len(rest)
                        BY <3>3, <4>4, <6>1
                    <6>3. all[i] = rest[i - 2] /\ all[i + 1] = rest[(i + 1) - 2]
                        <7>1. /\ i \in 1..(2 + Len(rest)) /\ i + 1 \in 1..(2 + Len(rest))
                              /\ ~ (i <= 2) /\ ~ (i + 1 <= 2)
                            BY <3>3, <6>1
                        <7>2. \A j \in 1..(2 + Len(rest)) : ~ (j <= 2) => all[j] = rest[j - 2]
                            BY <3>7
                        <7> QED
                            BY <7>1, <7>2, Zenon
                    <6>4. (i - 2) + 1 = i - 1 /\ ((i + 1) - 2) + 1 = (i - 1) + 1
                        BY <6>1
                    <6>5. /\ rest[i - 2] = op.todo[(i - 2) + 1]
                          /\ rest[(i + 1) - 2] = op.todo[((i + 1) - 2) + 1]
                        BY <3>3, <6>2
                    <6>6. i - 1 \in 1..Len(op.todo) /\ i - 1 < Len(op.todo)
                        BY <3>3, <4>4, <6>1
                    <6> QED
                        BY <6>3, <6>4, <6>5, <6>6
                <5> QED
                    BY <3>5, <4>1, <5>1 DEF Guarded
            <4> QED
                BY <3>3, <3>7, <4>1, <4>2, <4>3, <4>4
        <3>11. Verb' = "guard"
            BY <3>6, <3>8, <3>9 DEF Verb
        <3> QED
            BY <1>2, <2>1, <3>9, <3>10, <3>11 DEF BarrierOK
    <2> QED
        BY <1>5, <2>2, <2>3 DEF ReadMissing
<1> QED
    BY <1>3, <1>4, <1>5

LEMMA RecoveringBarrier ==
    ASSUME Inv, BarrierOK,
           FindCorrupt \/ Quarantine \/ Resume \/ Install \/ SpoiltAgain
    PROVE  BarrierOK'
<1> USE DEF disk, memory, history
<1>1. CallOK /\ Busy /\ Verb # "write"
    BY DEF Inv, FindCorrupt, Quarantine, Resume, Install, SpoiltAgain, Does
<1>2. refused # {} => "state" \in pend \cup unav
    BY DEF BarrierOK
<1>3. CASE SpoiltAgain
    <2>1. Ends /\ unav' = unav
        BY <1>3 DEF SpoiltAgain
    <2>2. refused' # {} => "state" \in (pend \cup unav)'
        BY <1>2, <1>3 DEF SpoiltAgain, Heard
    <2> QED
        BY <2>1, <2>2, BarrierAtEnd
<1>4. CASE FindCorrupt \/ Quarantine \/ Resume \/ Install
    <2>1. pend \subseteq pend' /\ unav' = unav /\ refused' = refused
        BY <1>4 DEF FindCorrupt, Quarantine, Resume, Install, Marked
    <2>2. Ends \/ Goes("marked") \/ Goes("gone") \/ Goes("installed")
        BY <1>4 DEF FindCorrupt, Quarantine, Resume, Install
    <2>3. Ends \/ op'.todo = op.todo
        BY <1>1, <2>2 DEF Goes, CallOK, Calls
    <2> QED
        BY <1>1, <1>2, <2>1, <2>3, BarrierAtEnd, BarrierStays
<1> QED
    BY <1>3, <1>4

LEMMA WritingBarrier ==
    ASSUME Inv, BarrierOK,
           \/ GuardRefuses \/ GuardPasses \/ GuardRecovered
           \/ Take \/ WriteState \/ InitProgram \/ EditProgram
    PROVE  BarrierOK'
<1> USE DEF disk, memory, history
<1>1. CallOK /\ Busy
    BY DEF Inv, GuardRefuses, GuardPasses, GuardRecovered, Take, WriteState, InitProgram,
           EditProgram, Does
<1>2. refused # {} => "state" \in pend \cup unav
    BY DEF BarrierOK
<1>3. CASE GuardRefuses \/ Take \/ WriteState
    <2>1. UNCHANGED <<pend, unav, refused>> /\ Ends
        BY <1>3 DEF GuardRefuses, Take, WriteState
    <2> QED
        BY <1>2, <2>1, BarrierAtEnd
<1>4. CASE GuardPasses
    <2>1. UNCHANGED <<pend, unav, refused>> /\ Continues(op.st, Tail(op.todo))
          /\ File \notin pend \cup unav
        BY <1>4 DEF GuardPasses
    <2> QED
        BY <1>1, <1>2, <2>1, BarrierGoesOn
<1>5. CASE GuardRecovered
    <2>1. Ends
        BY <1>5 DEF GuardRecovered
    <2>2. refused' # {} => "state" \in (pend \cup unav)'
        BY <1>2, <1>5 DEF GuardRecovered, FallsBack, Heard
    <2> QED
        BY <2>1, <2>2, BarrierAtEnd
<1>6. CASE InitProgram \/ EditProgram
    <2>1. UNCHANGED <<pend, unav, refused>> /\ Verb \in {"init", "edit"}
          /\ (Ends \/ Continues(op.st, Tail(op.todo)))
        BY <1>6 DEF InitProgram, EditProgram, Does
    <2> QED
        BY <1>1, <1>2, <2>1, BarrierAtEnd, BarrierGoesOn
<1> QED
    BY <1>3, <1>4, <1>5, <1>6

LEMMA WorldBarrier ==
    ASSUME BarrierOK,
           \/ AgentReads \/ AgentWrites \/ (\E f \in Files : Spoil(f)) \/ Snapshot \/ Crash
    PROVE  BarrierOK'
<1> USE DEF disk, memory, history
<1>1. CASE Crash
    BY <1>1, BarrierAtEnd DEF Crash
<1>2. CASE AgentReads \/ AgentWrites \/ (\E f \in Files : Spoil(f)) \/ Snapshot
    <2>1. UNCHANGED <<pend, unav, refused, op>>
        BY <1>2 DEF AgentReads, AgentWrites, Spoil, Snapshot
    <2> QED
        BY <2>1 DEF BarrierOK, Busy, Verb
<1> QED
    BY <1>1, <1>2

LEMMA NextBarrier == Inv /\ BarrierOK /\ [Next]_vars => BarrierOK'
<1> SUFFICES ASSUME Inv, BarrierOK, [Next]_vars PROVE BarrierOK'
    OBVIOUS
<1>1. CASE UNCHANGED vars
    BY <1>1 DEF vars, disk, memory, history, BarrierOK, Busy, Verb
<1>2. CASE Next
    BY <1>2, BeginsBarrier, ReadingBarrier, RecoveringBarrier, WritingBarrier, WorldBarrier
    DEF Next
<1> QED
    BY <1>1, <1>2

\* Who is about to write has been refused by nobody since the state was read.
LEMMA WritersAreClear ==
    Inv /\ BarrierOK /\ [Next]_vars
        => [Does({"write"}, "start") /\ file' # file => op.by \notin refused]_vars
    BY DEF BarrierOK, Does

-----------------------------------------------------------------------------
(***************************************************************************)
(* The program that a holder gets.                                          *)
(***************************************************************************)
\* What has no revision yet is no edit's: Nothing, and the copies of it.
Unedited(d) == d.is = "valid" /\ d.rev = 0 => d.edit = 0
CopiesOK ==
    /\ \A f \in Files : Unedited(file[f])
    /\ \A i \in DOMAIN snaps, f \in Files : Unedited(snaps[i][f])
    /\ \A h \in Holders : Unedited(mem[h])
    /\ Unedited(agent)

\* The program on disk is the last one accepted, or was restored; before the first is
\* accepted there is none of an edit.
First(d) == d.is = "valid" => d.edit = 0
AcceptedOK ==
    /\ "program" \in restored \/ (file["program"].is = "valid" => file["program"].edit = accepted)
    /\ accepted # 0 => "program" \in born
    /\ accepted = 0 => /\ plan = 0 /\ First(file["program"])
                       /\ \A i \in DOMAIN snaps : First(snaps[i]["program"])

\* A copy is taken right after its program, and a first record is made only where there
\* has been none.
Lawful(todo, e) ==
    \A i \in 1..Len(todo) :
       /\ todo[i][1] = "take" /\ i > 1 => todo[i - 1] \in {<<"read", "program">>, <<"init", "program">>}
       /\ todo[i][1] \in {"init", "edit"} => todo[i][2] = "program"
       /\ todo[i][1] = "write" => todo[i][2] = "state"
       /\ todo[i][1] = "edit" => e # 0
       /\ todo[i][1] = "init" => i = 1 \/ (i = 2 /\ todo[1][1] = "guard")
Inits(todo) == \E i \in 1..Len(todo) : todo[i][1] = "init"
Fresh(d) == "program" \in restored \/ (d.edit = accepted /\ plan = accepted)
ListOK ==
    Busy => /\ Lawful(op.todo, edits) /\ Unedited(op.st)
            /\ Inits(op.todo) => accepted = 0 /\ op.st.edit = 0
            /\ Verb = "take" => Fresh(op.st)

ProgramOK == CopiesOK /\ AcceptedOK /\ ListOK

LEMMA ListFacts ==
    ASSUME CallOK, Busy
    PROVE  /\ Len(op.todo) \in Nat /\ Len(op.todo) >= 1
           /\ Verb = op.todo[1][1] /\ File = op.todo[1][2]
<1>1. op.todo \in Seq(Steps) /\ op.todo # <<>>
    BY CallFacts DEF CallOK
<1> QED
    BY <1>1, EmptySeq, LenProperties DEF Verb, File

\* What is left of the list is as lawful as the list.
LEMMA RestIsLawful ==
    ASSUME NEW todo \in Seq(Steps), todo # <<>>, Tail(todo) # <<>>, NEW e, Lawful(todo, e)
    PROVE  LET rest == Tail(todo) IN
           /\ Lawful(rest, e) /\ Head(rest) = todo[2] /\ Head(todo) = todo[1]
           /\ Inits(rest) => todo[1][1] = "guard" /\ Inits(todo)
           /\ todo[2][1] = "take" => todo[1] \in {<<"read", "program">>, <<"init", "program">>}
<1> DEFINE rest == Tail(todo)
<1>1. /\ Len(todo) \in Nat /\ Len(rest) \in Nat /\ Len(rest) = Len(todo) - 1
      /\ \A i \in 1..Len(rest) : rest[i] = todo[i + 1]
    BY HeadTailProperties, LenProperties
<1>2. Len(rest) > 0 /\ Len(todo) > 1
    <2>1. rest \in Seq(Steps)
        BY HeadTailProperties
    <2> QED
        BY <1>1, <2>1, EmptySeq
<1>3. Head(rest) = todo[2] /\ Head(todo) = todo[1]
    BY <1>1, <1>2
<1> HIDE DEF rest
<1>4. \A i \in 1..Len(rest) : i + 1 \in 1..Len(todo) /\ i + 1 > 1
    BY <1>1
<1>5. ASSUME NEW i \in 1..Len(rest), rest[i][1] = "init" PROVE i = 1 /\ todo[1][1] = "guard"
    <2>1. i + 1 \in 1..Len(todo) /\ todo[i + 1][1] = "init" /\ i \in Nat
        BY <1>1, <1>4, <1>5
    <2>2. i + 1 = 1 \/ (i + 1 = 2 /\ todo[1][1] = "guard")
        BY <2>1 DEF Lawful
    <2> QED
        BY <2>1, <2>2
<1>6. ASSUME NEW i \in 1..Len(rest), rest[i][1] = "take", i > 1
      PROVE  rest[i - 1] \in {<<"read", "program">>, <<"init", "program">>}
    <2>1. i + 1 \in 1..Len(todo) /\ i + 1 > 1 /\ todo[i + 1][1] = "take" /\ (i + 1) - 1 = i
        BY <1>1, <1>4, <1>6
    <2>2. todo[(i + 1) - 1] \in {<<"read", "program">>, <<"init", "program">>}
        BY <2>1 DEF Lawful
    <2>3. i - 1 \in 1..Len(rest) /\ (i - 1) + 1 = i
        BY <1>1, <1>6
    <2>4. rest[i - 1] = todo[(i - 1) + 1]
        BY <1>1, <2>3
    <2> QED
        BY <2>1, <2>2, <2>3, <2>4
<1>7. ASSUME NEW i \in 1..Len(rest)
      PROVE  /\ rest[i][1] \in {"init", "edit"} => rest[i][2] = "program"
             /\ rest[i][1] = "write" => rest[i][2] = "state"
             /\ rest[i][1] = "edit" => e # 0
    BY <1>1, <1>4 DEF Lawful
<1>8. Lawful(rest, e)
    BY <1>5, <1>6, <1>7 DEF Lawful
<1>9. Inits(rest) => todo[1][1] = "guard" /\ Inits(todo)
    <2> SUFFICES ASSUME NEW i \in 1..Len(rest), rest[i][1] = "init"
                 PROVE  todo[1][1] = "guard" /\ Inits(todo)
        BY DEF Inits
    <2>1. i + 1 \in 1..Len(todo) /\ todo[i + 1][1] = "init"
        BY <1>1, <1>4
    <2> QED
        BY <1>5, <2>1 DEF Inits
<1>10. todo[2][1] = "take" => todo[1] \in {<<"read", "program">>, <<"init", "program">>}
    <2>1. 2 \in 1..Len(todo) /\ 2 > 1 /\ 2 - 1 = 1
        BY <1>1, <1>2
    <2> QED
        BY <2>1 DEF Lawful
<1> QED
    BY <1>3, <1>8, <1>9, <1>10 DEF rest

\* The call goes on with the rest of its list.
LEMMA ListGoesOn ==
    ASSUME CallOK, ListOK, Busy, edits' = edits, NEW st \in ValidDocs, Unedited(st),
           Continues(st, Tail(op.todo)),
           Verb = "guard" /\ Inits(op.todo) => accepted' = 0 /\ st.edit = 0,
           Verb \in {"read", "init"} /\ File = "program" => Fresh(st)'
    PROVE  ListOK'
<1>1. CASE Tail(op.todo) = <<>>
    BY <1>1, EndsFacts DEF Continues, Ends, ListOK
<1>2. CASE Tail(op.todo) # <<>>
    <2>1. op \in Calls /\ op.todo # <<>> /\ op.todo \in Seq(Steps)
        BY CallFacts DEF CallOK
    <2>2. op'.todo = Tail(op.todo) /\ op'.st = st
        BY <1>2, <2>1 DEF Continues, Calls
    <2> DEFINE todo == op.todo
               rest == Tail(todo)
    <2>3. /\ Lawful(rest, edits) /\ Head(rest) = todo[2] /\ Head(todo) = todo[1]
          /\ Inits(rest) => todo[1][1] = "guard" /\ Inits(todo)
          /\ todo[2][1] = "take" => todo[1] \in {<<"read", "program">>, <<"init", "program">>}
        <3>1. todo \in Seq(Steps) /\ todo # <<>> /\ Tail(todo) # <<>> /\ Lawful(todo, edits)
            BY <1>2, <2>1 DEF ListOK
        <3> QED
            BY ONLY <3>1, RestIsLawful
    <2>4. Lawful(op.todo, edits)' /\ Unedited(op.st)'
        BY <2>2, <2>3 DEF Lawful, Unedited
    <2>5. Inits(op.todo)' => accepted' = 0 /\ st.edit = 0
        <3>1. Inits(op.todo)' => Inits(rest)
            BY <2>2 DEF Inits
        <3> QED
            BY <2>3, <3>1 DEF Verb
    <2>6. Verb' = "take" => Fresh(st)'
        <3>1. Verb' = todo[2][1]
            BY <2>2, <2>3 DEF Verb
        <3>2. todo[1] \in {<<"read", "program">>, <<"init", "program">>} =>
                 Verb \in {"read", "init"} /\ File = "program"
            BY <2>3 DEF Verb, File
        <3> QED
            BY <2>3, <3>1, <3>2
    <2>7. Fresh(op.st)' <=> Fresh(st)'
        BY <2>2 DEF Fresh
    <2> QED
        BY <2>2, <2>4, <2>5, <2>6, <2>7 DEF ListOK
<1> QED
    BY <1>1, <1>2

\* Or stays where it is, or ends.
LEMMA ListStays ==
    ASSUME ListOK, UNCHANGED <<accepted, edits>>,
           \/ UNCHANGED <<op, plan, restored>>
           \/ Busy /\ Verb # "take" /\ op'.todo = op.todo /\ op'.st = op.st
    PROVE  ListOK'
<1>1. CASE UNCHANGED <<op, plan, restored>>
    BY <1>1 DEF ListOK, Busy, Lawful, Inits, Fresh, Verb, Unedited
<1>2. CASE Busy /\ Verb # "take" /\ op'.todo = op.todo /\ op'.st = op.st
    BY <1>2 DEF ListOK, Lawful, Inits, Verb, Unedited
<1> QED
    BY <1>1, <1>2

LEMMA GoesKeepsList ==
    ASSUME CallOK, Busy, NEW p, Goes(p)
    PROVE  op'.todo = op.todo /\ op'.st = op.st
<1>1. op \in Calls
    BY DEF CallOK
<1> QED
    BY <1>1 DEF Goes, Calls

LEMMA ListEnds == Ends => ListOK'
    BY EndsFacts DEF ListOK

\* Nothing of the program changes.
LEMMA ProgramStays ==
    ASSUME CopiesOK, AcceptedOK,
           UNCHANGED <<file, snaps, mem, agent, accepted, plan, restored, born>>
    PROVE  CopiesOK' /\ AcceptedOK'
    BY DEF CopiesOK, AcceptedOK, Unedited, First

LEMMA InitProgramOK == Init => ProgramOK
<1> SUFFICES ASSUME Init PROVE ProgramOK
    OBVIOUS
<1>1. /\ Nothing.edit = 0 /\ Missing.is # "valid"
      /\ \A f \in Files : file[f] \in {Nothing, Missing}
      /\ snaps = <<>> /\ DOMAIN snaps = {} /\ plan = 0 /\ accepted = 0 /\ restored = {}
      /\ mem = [h \in Holders |-> Missing] /\ agent = Missing /\ ~Busy
    BY DEF Init, Nothing, Doc, Missing, Busy, Idle
<1>2. \A f \in Files : Unedited(file[f]) /\ First(file[f])
    BY <1>1 DEF Unedited, First
<1>3. CopiesOK
    BY <1>1, <1>2 DEF CopiesOK, Unedited
<1>4. AcceptedOK
    BY <1>1, <1>2 DEF AcceptedOK, First, Files
<1> QED
    BY <1>1, <1>3, <1>4 DEF ProgramOK, ListOK

LEMMA BeginsProgramOK ==
    ASSUME Inv, ProgramOK, NEW h \in Holders, Load(h) \/ Save(h) \/ Update(h)
    PROVE  ProgramOK'
<1>1. CopiesOK' /\ AcceptedOK'
    BY ProgramStays DEF ProgramOK, Load, Save, Update, Begins, disk, memory, history
<1>2. Nothing.edit = 0 /\ Unedited(Nothing)
    BY DEF Nothing, Doc, Unedited
<1>3. CASE Load(h)
    <2> DEFINE todo == <<<<"read", "state">>, <<"read", "program">>, <<"take", "state">>>>
    <2>1. Lawful(todo, edits') /\ ~Inits(todo) /\ Head(todo)[1] = "read"
        BY DEF Lawful, Inits
    <2>2. op'.todo = todo /\ op'.st = Nothing
        BY <1>3 DEF Load, Begins
    <2>3. ListOK'
        BY <1>2, <2>1, <2>2 DEF ListOK, Lawful, Inits, Verb, Unedited
    <2> QED
        BY <1>1, <2>3 DEF ProgramOK
<1>4. CASE Save(h)
    <2> DEFINE todo == <<<<"read", "program">>, <<"guard", "state">>, <<"write", "state">>>>
    <2>1. Lawful(todo, edits') /\ ~Inits(todo) /\ Head(todo)[1] = "read"
        BY DEF Lawful, Inits
    <2>2. op'.todo = todo /\ op'.st = mem[h]
        BY <1>4 DEF Save, Begins
    <2>3. Unedited(mem[h])
        BY DEF ProgramOK, CopiesOK
    <2>4. ListOK'
        BY <2>1, <2>2, <2>3 DEF ListOK, Lawful, Inits, Verb, Unedited
    <2> QED
        BY <1>1, <2>4 DEF ProgramOK
<1>5. CASE Update(h)
    <2> DEFINE todo == <<<<"read", "state">>, <<"read", "program">>, <<"guard", "program">>,
                         <<"edit", "program">>, <<"read", "program">>, <<"guard", "state">>,
                         <<"write", "state">>>>
    <2>1. edits' # 0
        BY <1>5 DEF Update, Inv, DataOK
    <2>2. Lawful(todo, edits') /\ ~Inits(todo) /\ Head(todo)[1] = "read"
        BY <2>1 DEF Lawful, Inits
    <2>3. op'.todo = todo /\ op'.st = Nothing
        BY <1>5 DEF Update, Begins
    <2>4. ListOK'
        BY <1>2, <2>2, <2>3 DEF ListOK, Lawful, Inits, Verb, Unedited
    <2> QED
        BY <1>1, <2>4 DEF ProgramOK
<1> QED
    BY <1>3, <1>4, <1>5

\* What was read is what the call goes on with: of the program, the last one accepted.
LEMMA FoundProgram ==
    ASSUME Inv, ProgramOK, Busy, Verb = "read", NEW d \in ValidDocs, d = file[File], Found(d),
           UNCHANGED <<file, snaps, mem, agent, accepted, restored, born, edits>>
    PROVE  ProgramOK'
<1>1. CallOK /\ ListOK /\ File \in Files /\ op.st \in ValidDocs
    BY CallFacts DEF Inv, ProgramOK
<1>2. Unedited(d) /\ d.is = "valid" /\ d.edit \in Nat
    BY <1>1, DocFacts DEF ProgramOK, CopiesOK
<1>3. CASE File = "state"
    <2>1. Continues(d, Tail(op.todo)) /\ plan' = plan
        BY <1>3 DEF Found
    <2>2. CopiesOK' /\ AcceptedOK'
        BY <2>1, ProgramStays DEF ProgramOK
    <2>3. ListOK'
        BY <1>1, <1>2, <1>3, <2>1, ListGoesOn
    <2> QED
        BY <2>2, <2>3 DEF ProgramOK
<1>4. CASE File = "program"
    <2> PICK st \in ValidDocs : st = Overlaid(op.st, d)
        BY <1>1, DocFacts
    <2>1. Continues(st, Tail(op.todo)) /\ plan' = IF d.edit > 0 THEN d.edit ELSE plan
        BY <1>4 DEF Found
    <2>2. st.rev = d.rev /\ st.edit = d.edit /\ Unedited(st)
        <3>1. st.rev = d.rev /\ st.edit = d.edit
            BY <1>1 DEF Overlaid, ValidDocs
        <3> QED
            BY <1>2, <3>1 DEF Unedited
    <2>3. "program" \in restored \/ d.edit = accepted
        BY <1>2, <1>4 DEF ProgramOK, AcceptedOK
    <2>4. accepted = 0 => d.edit = 0 /\ plan = 0 /\ plan' = 0
        BY <1>2, <1>4, <2>1 DEF ProgramOK, AcceptedOK, First
    <2>5. "program" \in restored \/ (d.edit = accepted /\ plan' = accepted)
        BY <1>2, <2>1, <2>3, <2>4
    <2>6. Fresh(st)'
        BY <2>2, <2>5 DEF Fresh
    <2>7. ListOK'
        BY <1>1, <2>1, <2>2, <2>6, ListGoesOn
    <2>8. CopiesOK'
        BY DEF ProgramOK, CopiesOK, Unedited
    <2>9. AcceptedOK'
        BY <2>4 DEF ProgramOK, AcceptedOK, First
    <2> QED
        BY <2>7, <2>8, <2>9 DEF ProgramOK
<1> QED
    BY <1>1, <1>3, <1>4 DEF Files

\* The list with the first record put before the rest.
LEMMA FirstRecord ==
    ASSUME CallOK, Busy, Verb = "read", Lawful(op.todo, edits), NEW two,
           two = <<<<"guard", "program">>, <<"init", "program">>>>, File = "program"
    PROVE  LET all == two \o Tail(op.todo) IN
           all \in Seq(Steps) /\ Lawful(all, edits) /\ Head(all)[1] = "guard"
<1> DEFINE rest == Tail(op.todo)
           all == two \o rest
<1>1. op.todo \in Seq(Steps) /\ op.todo # <<>> /\ rest \in Seq(Steps)
    BY CallFacts DEF CallOK
<1>2. two \in Seq(Steps) /\ Len(two) = 2 /\ two[1] = <<"guard", "program">> /\ two[2] = <<"init", "program">>
    BY DEF Steps, Files
<1>3. Len(rest) \in Nat
    BY <1>1, LenProperties
<1>4. /\ all \in Seq(Steps) /\ Len(all) = Len(rest) + 2
      /\ \A i \in 1..(2 + Len(rest)) : all[i] = IF i <= 2 THEN two[i] ELSE rest[i - 2]
    <2>1. /\ all \in Seq(Steps) /\ Len(all) = Len(two) + Len(rest)
          /\ \A i \in 1..(Len(two) + Len(rest)) :
                all[i] = IF i <= Len(two) THEN two[i] ELSE rest[i - Len(two)]
        BY <1>1, <1>2, ConcatProperties
    <2> HIDE DEF all, rest
    <2> QED
        BY <1>2, <1>3, <2>1
<1>5. rest # <<>> => Lawful(rest, edits) /\ ~Inits(rest)
    <2> SUFFICES ASSUME rest # <<>> PROVE Lawful(rest, edits) /\ ~Inits(rest)
        OBVIOUS
    <2>1. Lawful(rest, edits) /\ (Inits(rest) => op.todo[1][1] = "guard")
        BY <1>1, RestIsLawful
    <2> QED
        BY <2>1, ListFacts
<1>6. Head(all)[1] = "guard"
    <2> HIDE DEF all
    <2>1. Head(all) = all[1] /\ all[1] = two[1]
        BY <1>3, <1>4
    <2> QED
        BY <1>2, <2>1
<1>7. rest = <<>> => Len(rest) = 0
    BY <1>1, EmptySeq, Zenon
<1> HIDE DEF all, rest
<1>8. ASSUME NEW i \in 1..Len(all)
      PROVE  /\ all[i][1] = "take" /\ i > 1 => all[i - 1] \in {<<"read", "program">>, <<"init", "program">>}
             /\ all[i][1] \in {"init", "edit"} => all[i][2] = "program"
             /\ all[i][1] = "write" => all[i][2] = "state"
             /\ all[i][1] = "edit" => edits # 0
             /\ all[i][1] = "init" => i = 1 \/ (i = 2 /\ all[1][1] = "guard")
    <2>1. CASE i = 1
        <3>1. all[i] = <<"guard", "program">>
            BY <1>2, <1>3, <1>4, <2>1
        <3>2. all[i][1] = "guard" /\ ~(i > 1)
            BY <2>1, <3>1
        <3> QED
            BY ONLY <3>2
    <2>2. CASE i = 2
        <3>1. all[1] = <<"guard", "program">> /\ all[i] = <<"init", "program">>
            BY <1>2, <1>3, <1>4, <2>2
        <3>2. all[1][1] = "guard" /\ all[i][1] = "init" /\ all[i][2] = "program"
            BY <3>1
        <3> QED
            BY ONLY <2>2, <3>2
    <2>3. CASE i > 2
        <3>1. i - 2 \in 1..Len(rest) /\ all[i] = rest[i - 2] /\ rest # <<>>
            BY <1>3, <1>4, <1>7, <2>3
        <3>2. /\ all[i][1] \in {"init", "edit"} => all[i][2] = "program"
              /\ all[i][1] = "write" => all[i][2] = "state"
              /\ all[i][1] = "edit" => edits # 0
            BY <1>5, <3>1 DEF Lawful
        <3>3. all[i][1] # "init"
            BY <1>5, <3>1 DEF Inits
        <3>4. all[i][1] = "take" => all[i - 1] \in {<<"read", "program">>, <<"init", "program">>}
            <4>1. CASE i = 3
                <5>1. all[2] = two[2] /\ i - 1 = 2
                    BY <1>3, <1>4, <4>1
                <5> QED
                    BY <1>2, <5>1
            <4>2. CASE i > 3
                <5>1. i - 1 \in 1..(2 + Len(rest)) /\ ~(i - 1 <= 2) /\ (i - 1) - 2 = (i - 2) - 1 /\ i - 2 > 1
                    BY <1>3, <1>4, <4>2
                <5>2. all[i - 1] = rest[(i - 1) - 2]
                    BY <1>4, <5>1, Zenon
                <5>3. rest[i - 2][1] = "take" => rest[(i - 2) - 1] \in {<<"read", "program">>, <<"init", "program">>}
                    BY <1>5, <3>1, <5>1 DEF Lawful
                <5> QED
                    BY <3>1, <5>1, <5>2, <5>3
            <4> QED
                BY <1>3, <1>4, <2>3, <4>1, <4>2
        <3> QED
            BY <3>2, <3>3, <3>4
    <2> QED
        BY <1>3, <1>4, <2>1, <2>2, <2>3
<1>9. Lawful(all, edits)
    BY <1>8 DEF Lawful
<1> QED
    BY <1>4, <1>6, <1>9 DEF all, rest

LEMMA ReadingProgramOK ==
    ASSUME Inv, ProgramOK,
           ReadValid \/ PlanFails \/ ReadMissing \/ ReadRestored
    PROVE  ProgramOK'
<1>1. CallOK /\ Busy /\ Verb = "read" /\ File \in Files /\ file \in [Files -> AnyDocs]
    BY CallFacts DEF Inv, DataOK, ReadValid, PlanFails, ReadMissing, ReadRestored, Does
<1>2. CASE ReadValid \/ ReadRestored
    <2>1. /\ file[File] \in ValidDocs /\ Found(file[File])
          /\ UNCHANGED <<file, snaps, mem, agent, accepted, restored, born, edits>>
        BY <1>1, <1>2, DocFacts DEF ReadValid, ReadRestored, memory
    <2> QED
        BY <1>1, <2>1, FoundProgram
<1>3. CASE PlanFails
    <2>1. Ends /\ UNCHANGED <<file, snaps, mem, agent, accepted, plan, restored, born>>
        BY <1>3 DEF PlanFails, memory, history
    <2> QED
        BY <2>1, ListEnds, ProgramStays DEF ProgramOK
<1>4. CASE ReadMissing
    <2>1. UNCHANGED <<file, snaps, mem, agent, accepted, plan, restored, born, edits>>
        BY <1>4 DEF ReadMissing, disk, memory, history
    <2>2. CASE Ends
        BY <2>1, <2>2, ListEnds, ProgramStays DEF ProgramOK
    <2>3. CASE ~Ends
        <3> DEFINE two == <<<<"guard", "program">>, <<"init", "program">>>>
                   all == two \o Tail(op.todo)
        <3>1. /\ File = "program" /\ File \notin unav \cup pend /\ file[File] = Missing /\ op.st.rev = 0
              /\ op' = [op EXCEPT !.todo = all]
            BY <1>4, <2>3 DEF ReadMissing
        <3>2. "program" \notin born
            BY <3>1 DEF Inv, NeverTakenForNew
        <3>3. accepted = 0
            BY <3>2 DEF ProgramOK, AcceptedOK
        <3>4. op.st \in ValidDocs /\ op \in Calls /\ Unedited(op.st)
            BY <1>1, CallFacts DEF CallOK, ProgramOK, ListOK
        <3>5. op.st.edit = 0
            BY <3>1, <3>4, DocFacts DEF Unedited
        <3>6. all \in Seq(Steps) /\ Lawful(all, edits) /\ Head(all)[1] = "guard"
            <4>1. Lawful(op.todo, edits)
                BY <1>1 DEF ProgramOK, ListOK
            <4> QED
                BY <1>1, <3>1, <4>1, FirstRecord
        <3> HIDE DEF all
        <3>7. op'.todo = all /\ op'.st = op.st
            BY <3>1, <3>4 DEF Calls
        <3>8. ListOK'
            BY <2>1, <3>3, <3>4, <3>5, <3>6, <3>7 DEF ListOK, Lawful, Inits, Verb, Unedited
        <3> QED
            BY <2>1, <3>8, ProgramStays DEF ProgramOK
    <2> QED
        BY <2>2, <2>3
<1> QED
    BY <1>2, <1>3, <1>4


LEMMA RecoveringProgramOK ==
    ASSUME Inv, ProgramOK,
           FindCorrupt \/ Quarantine \/ Resume \/ Install \/ SpoiltAgain
    PROVE  ProgramOK'
<1>1. /\ CallOK /\ Busy /\ Verb \in {"read", "guard"} /\ File \in Files
      /\ CopiesOK /\ AcceptedOK /\ ListOK /\ file \in [Files -> AnyDocs]
    BY CallFacts DEF Inv, DataOK, ProgramOK, FindCorrupt, Quarantine, Resume, Install, SpoiltAgain, Does
<1>2. UNCHANGED <<accepted, edits, plan, snaps, mem, agent, born>>
    BY DEF FindCorrupt, Quarantine, Resume, Install, SpoiltAgain, disk, memory, history
<1>3. ListOK'
    <2>1. Ends \/ Goes("marked") \/ Goes("gone") \/ Goes("installed")
        BY DEF FindCorrupt, Quarantine, Resume, Install, SpoiltAgain
    <2>2. ASSUME NEW p, Goes(p) PROVE ListOK'
        <3>1. op'.todo = op.todo /\ op'.st = op.st
            BY <1>1, <2>2, GoesKeepsList
        <3> QED
            BY <1>1, <1>2, <3>1, ListStays
    <2> QED
        BY <2>1, <2>2, ListEnds
<1>4. CASE UNCHANGED <<file, restored>>
    BY <1>1, <1>2, <1>3, <1>4, ProgramStays DEF ProgramOK
<1>5. CASE file' = [file EXCEPT ![File] = Missing] /\ UNCHANGED restored
    <2>1. /\ Missing.is # "valid" /\ file'[File] = Missing
          /\ \A f \in Files : f # File => file'[f] = file[f]
        BY <1>1, <1>5, DocFacts
    <2>2. CopiesOK'
        BY <1>1, <1>2, <2>1 DEF CopiesOK, Unedited
    <2>3. AcceptedOK'
        BY <1>1, <1>2, <1>5, <2>1 DEF AcceptedOK, First, Files
    <2> QED
        BY <1>3, <2>2, <2>3 DEF ProgramOK
<1>6. CASE /\ Usable(File) # {} /\ restored' = restored \cup {File}
           /\ file' = [file EXCEPT ![File] = snaps[Newest(File)][File]]
    <2> PICK i \in DOMAIN snaps : i = Newest(File)
        BY <1>1, <1>6, NewestIsValid DEF Inv, DataOK
    <2>1. /\ file'[File] = snaps[i][File]
          /\ \A f \in Files : f # File => file'[f] = file[f]
        BY <1>1, <1>6
    <2>2. CopiesOK'
        BY <1>1, <1>2, <2>1 DEF CopiesOK, Unedited
    <2>3. AcceptedOK'
        BY <1>1, <1>2, <1>6, <2>1 DEF AcceptedOK, First, Files
    <2> QED
        BY <1>3, <2>2, <2>3 DEF ProgramOK
<1> QED
    BY <1>4, <1>5, <1>6 DEF FindCorrupt, Quarantine, Resume, Install, SpoiltAgain, disk, history

\* The step that comes next is lawful.
LEMMA NextIsLawful ==
    ASSUME CallOK, Busy, ListOK
    PROVE  /\ Verb \in {"init", "edit"} => File = "program"
           /\ Verb = "write" => File = "state"
           /\ Verb = "edit" => edits # 0
           /\ Verb = "init" => accepted = 0 /\ op.st.edit = 0
           /\ Unedited(op.st)
<1>1. 1 \in 1..Len(op.todo) /\ Verb = op.todo[1][1] /\ File = op.todo[1][2]
    BY ListFacts
<1>2. Verb = "init" => Inits(op.todo)
    BY <1>1 DEF Inits
<1> QED
    BY <1>1, <1>2 DEF ListOK, Lawful

LEMMA GuardingProgramOK ==
    ASSUME Inv, ProgramOK, GuardRefuses \/ GuardPasses \/ GuardRecovered
    PROVE  ProgramOK'
<1>1. /\ CallOK /\ Busy /\ Verb = "guard" /\ ListOK /\ op.st \in ValidDocs
      /\ Unedited(op.st)
    BY CallFacts, NextIsLawful
       DEF Inv, ProgramOK, GuardRefuses, GuardPasses, GuardRecovered, Does
<1>2. UNCHANGED <<file, snaps, mem, agent, accepted, plan, restored, born, edits>>
    BY DEF GuardRefuses, GuardPasses, GuardRecovered, disk, memory, history
<1>3. CASE Ends
    BY <1>2, <1>3, ListEnds, ProgramStays DEF ProgramOK
<1>4. CASE Continues(op.st, Tail(op.todo))
    <2>1. Inits(op.todo) => accepted' = 0 /\ op.st.edit = 0
        BY <1>1, <1>2 DEF ListOK
    <2>2. ListOK'
        BY <1>1, <1>2, <1>4, <2>1, ListGoesOn
    <2> QED
        BY <1>2, <2>2, ProgramStays DEF ProgramOK
<1> QED
    BY <1>3, <1>4 DEF GuardRefuses, GuardPasses, GuardRecovered

LEMMA WritingProgramOK ==
    ASSUME Inv, ProgramOK, Take \/ WriteState \/ InitProgram \/ EditProgram
    PROVE  ProgramOK'
<1>1. /\ CallOK /\ Busy /\ CopiesOK /\ AcceptedOK /\ ListOK
      /\ file \in [Files -> AnyDocs] /\ File \in Files
      /\ mem \in [Holders -> Copies] /\ op.by \in Holders /\ op.st \in ValidDocs
    BY CallFacts DEF Inv, DataOK, ProgramOK, Take, WriteState, InitProgram, EditProgram, Does
<1>2. Unedited(op.st)
    BY <1>1, NextIsLawful
<1>3. UNCHANGED <<snaps, agent, plan, edits>>
    BY DEF Take, WriteState, InitProgram, EditProgram, disk, memory
<1>4. CASE Take
    <2>1. /\ UNCHANGED <<file, accepted, restored, born>> /\ Ends
          /\ mem' = [mem EXCEPT ![op.by] = op.st]
        BY <1>4 DEF Take, disk, history
    <2>2. CopiesOK'
        BY <1>1, <1>2, <1>3, <2>1 DEF CopiesOK, Unedited
    <2>3. AcceptedOK'
        BY <1>1, <1>3, <2>1 DEF AcceptedOK, First
    <2> QED
        BY <2>1, <2>2, <2>3, ListEnds DEF ProgramOK
<1>5. CASE WriteState
    <2>1. File = "state"
        BY <1>1, <1>5, NextIsLawful DEF WriteState, Does
    <2>2. UNCHANGED <<accepted, restored>> /\ Ends
        BY <1>5 DEF WriteState
    <2>3. CASE UNCHANGED <<file, born, mem>>
        BY <1>1, <1>3, <2>2, <2>3, ProgramStays, ListEnds DEF ProgramOK
    <2>4. CASE Writes(op.st) /\ mem' = [mem EXCEPT ![op.by] = op.st]
        <3>1. /\ file'["state"] = op.st /\ file'["program"] = file["program"]
              /\ born \subseteq born'
            BY <1>1, <2>1, <2>4 DEF Writes, Files
        <3>2. CopiesOK'
            BY <1>1, <1>2, <1>3, <2>4, <3>1 DEF CopiesOK, Unedited, Files
        <3>3. AcceptedOK'
            BY <1>1, <1>3, <2>2, <3>1 DEF AcceptedOK, First
        <3> QED
            BY <2>2, <3>2, <3>3, ListEnds DEF ProgramOK
    <2> QED
        BY <1>5, <2>3, <2>4 DEF WriteState
<1>6. CASE InitProgram
    <2>1. Verb = "init" /\ UNCHANGED <<mem, accepted, restored>>
        BY <1>6 DEF InitProgram, Does, memory
    <2>2. File = "program" /\ accepted = 0 /\ op.st.edit = 0 /\ plan = 0
        BY <1>1, <2>1, NextIsLawful DEF AcceptedOK
    <2>3. CASE Ends /\ UNCHANGED <<file, born>>
        BY <1>1, <1>3, <2>1, <2>3, ProgramStays, ListEnds DEF ProgramOK
    <2>4. CASE Writes(op.st) /\ Continues(op.st, Tail(op.todo))
        <3>1. /\ file'["program"] = op.st /\ file'["state"] = file["state"]
              /\ born \subseteq born'
            BY <1>1, <2>2, <2>4 DEF Writes, Files
        <3>2. CopiesOK'
            BY <1>1, <1>2, <1>3, <2>1, <3>1 DEF CopiesOK, Unedited, Files
        <3>3. AcceptedOK'
            BY <1>1, <1>3, <2>1, <2>2, <3>1 DEF AcceptedOK, First
        <3> PICK st \in ValidDocs : st = op.st
            BY <1>1
        <3>4. Fresh(st)'
            BY <1>3, <2>1, <2>2 DEF Fresh
        <3>5. Unedited(st) /\ Continues(st, Tail(op.todo))
            BY <1>2, <2>4
        <3>6. ListOK'
            BY <1>1, <1>3, <2>1, <3>4, <3>5, ListGoesOn
        <3> QED
            BY <3>2, <3>3, <3>6 DEF ProgramOK
    <2> QED
        BY <1>6, <2>3, <2>4 DEF InitProgram
<1>7. CASE EditProgram
    <2>1. Verb = "edit" /\ UNCHANGED mem
        BY <1>7 DEF EditProgram, Does, memory
    <2>2. File = "program" /\ edits # 0
        BY <1>1, <2>1, NextIsLawful
    <2>3. CASE Ends /\ UNCHANGED <<file, born, accepted, restored>>
        BY <1>1, <1>3, <2>1, <2>3, ProgramStays, ListEnds DEF ProgramOK
    <2>4. CASE Writes(NextRecord) /\ Continues(op.st, Tail(op.todo)) /\ accepted' = edits
        <3>1. NextRecord.rev # 0 /\ NextRecord.edit = edits /\ NextRecord.is = "valid"
            <4>1. op.st.rev \in Nat
                BY <1>1, DocFacts
            <4>2. op.st.rev + 1 # 0
                BY <4>1
            <4> QED
                BY <4>2 DEF NextRecord, Doc
        <3>2. /\ file'["program"] = NextRecord /\ file'["state"] = file["state"]
              /\ "program" \in born'
            BY <1>1, <2>2, <2>4 DEF Writes, Files
        <3>3. CopiesOK'
            BY <1>1, <1>3, <2>1, <3>1, <3>2 DEF CopiesOK, Unedited, Files
        <3>4. AcceptedOK'
            BY <2>2, <2>4, <3>1, <3>2 DEF AcceptedOK
        <3>5. ListOK'
            BY <1>1, <1>2, <1>3, <2>1, <2>4, ListGoesOn
        <3> QED
            BY <3>3, <3>4, <3>5 DEF ProgramOK
    <2> QED
        BY <1>7, <2>3, <2>4 DEF EditProgram
<1> QED
    BY <1>4, <1>5, <1>6, <1>7

\* A snapshot is a copy of the files now or of an earlier one.
LEMMA CopiesOfSnapshot ==
    ASSUME snaps \in Seq([Files -> AnyDocs]), file \in [Files -> AnyDocs], snaps' = <<file>> \o snaps
    PROVE  \A i \in DOMAIN snaps' : snaps'[i] = file \/ \E j \in DOMAIN snaps : snaps'[i] = snaps[j]
<1>1. <<file>> \in Seq([Files -> AnyDocs]) /\ Len(<<file>>) = 1 /\ <<file>>[1] = file
    OBVIOUS
<1>2. Len(snaps) \in Nat /\ DOMAIN snaps = 1..Len(snaps)
    BY LenProperties
<1>3. /\ snaps' \in Seq([Files -> AnyDocs]) /\ Len(snaps') = 1 + Len(snaps)
      /\ \A i \in 1..(1 + Len(snaps)) : snaps'[i] = IF i <= 1 THEN <<file>>[i] ELSE snaps[i - 1]
    <2>1. ASSUME NEW s \in Seq([Files -> AnyDocs]), NEW t \in Seq([Files -> AnyDocs]), Len(s) = 1
          PROVE  /\ s \o t \in Seq([Files -> AnyDocs]) /\ Len(s \o t) = 1 + Len(t)
                 /\ \A i \in 1..(1 + Len(t)) : (s \o t)[i] = IF i <= 1 THEN s[i] ELSE t[i - 1]
        <3>1. /\ s \o t \in Seq([Files -> AnyDocs]) /\ Len(s \o t) = Len(s) + Len(t)
              /\ \A i \in 1..(Len(s) + Len(t)) :
                    (s \o t)[i] = IF i <= Len(s) THEN s[i] ELSE t[i - Len(s)]
            BY ConcatProperties
        <3>2. Len(t) \in Nat
            BY LenProperties
        <3> QED
            BY ONLY <2>1, <3>1, <3>2
    <2> QED
        BY <1>1, <2>1
<1>4. DOMAIN snaps' = 1..(1 + Len(snaps))
    BY <1>3, LenProperties
<1> SUFFICES ASSUME NEW i \in 1..(1 + Len(snaps))
             PROVE  snaps'[i] = file \/ \E j \in 1..Len(snaps) : snaps'[i] = snaps[j]
    BY <1>2, <1>4
<1>5. CASE i = 1
    BY <1>1, <1>2, <1>3, <1>5
<1>6. CASE i # 1
    <2>1. i - 1 \in 1..Len(snaps) /\ snaps'[i] = snaps[i - 1]
        BY <1>2, <1>3, <1>6
    <2> QED
        BY <2>1
<1> QED
    BY <1>5, <1>6

LEMMA WorldProgramOK ==
    ASSUME Inv, ProgramOK,
           AgentReads \/ AgentWrites \/ (\E f \in Files : Spoil(f)) \/ Snapshot \/ Crash
    PROVE  ProgramOK'
<1>1. /\ CopiesOK /\ AcceptedOK /\ ListOK /\ file \in [Files -> AnyDocs]
      /\ snaps \in Seq([Files -> AnyDocs])
    BY DEF Inv, DataOK, ProgramOK
<1>2. UNCHANGED <<plan, edits, accepted, born, restored>>
    BY DEF AgentReads, AgentWrites, Spoil, Snapshot, Crash, disk, history
<1>3. ListOK'
    <2>1. UNCHANGED op \/ Ends
        BY DEF AgentReads, AgentWrites, Spoil, Snapshot, Crash
    <2> QED
        BY <1>1, <1>2, <2>1, ListStays, ListEnds
<1>4. CASE AgentReads
    <2>1. UNCHANGED <<file, snaps, mem>> /\ agent' = file["state"]
        BY <1>4 DEF AgentReads, disk
    <2>2. CopiesOK' /\ AcceptedOK'
        BY <1>1, <1>2, <2>1 DEF CopiesOK, AcceptedOK, Unedited, First, Files
    <2> QED
        BY <1>3, <2>2 DEF ProgramOK
<1>5. CASE AgentWrites
    <2>1. UNCHANGED <<snaps, mem, agent>> /\ file'["state"] = agent /\ file'["program"] = file["program"]
        BY <1>1, <1>5 DEF AgentWrites, memory, Files
    <2>2. CopiesOK' /\ AcceptedOK'
        BY <1>1, <1>2, <2>1 DEF CopiesOK, AcceptedOK, Unedited, First, Files
    <2> QED
        BY <1>3, <2>2 DEF ProgramOK
<1>6. CASE \E f \in Files : Spoil(f)
    <2>1. PICK f \in Files : Spoil(f)
        BY <1>6
    <2>2. UNCHANGED <<snaps, mem, agent>>
          /\ \A g \in Files : file'[g] = file[g] \/ file'[g].is # "valid"
        BY <1>1, <2>1, DocFacts DEF Spoil, memory
    <2>3. CopiesOK' /\ AcceptedOK'
        BY <1>1, <1>2, <2>2 DEF CopiesOK, AcceptedOK, Unedited, First, Files
    <2> QED
        BY <1>3, <2>3 DEF ProgramOK
<1>7. CASE Snapshot
    <2>1. UNCHANGED <<file, mem, agent>> /\ snaps' = <<file>> \o snaps
        BY <1>7 DEF Snapshot, memory
    <2>2. \A i \in DOMAIN snaps' : snaps'[i] = file \/ \E j \in DOMAIN snaps : snaps'[i] = snaps[j]
        BY <1>1, <2>1, CopiesOfSnapshot
    <2>3. CopiesOK'
        BY <1>1, <2>1, <2>2 DEF CopiesOK, Unedited
    <2>4. AcceptedOK'
        BY <1>1, <1>2, <2>1, <2>2 DEF AcceptedOK, First
    <2> QED
        BY <1>3, <2>3, <2>4 DEF ProgramOK
<1>8. CASE Crash
    <2>1. UNCHANGED <<file, snaps, agent>> /\ mem' = [h \in Holders |-> Missing] /\ Missing.is # "valid"
        BY <1>8, DocFacts DEF Crash, disk
    <2>2. CopiesOK' /\ AcceptedOK'
        BY <1>1, <1>2, <2>1 DEF CopiesOK, AcceptedOK, Unedited, First
    <2> QED
        BY <1>3, <2>2 DEF ProgramOK
<1> QED
    BY <1>4, <1>5, <1>6, <1>7, <1>8

LEMMA NextProgramOK == Inv /\ ProgramOK /\ [Next]_vars => ProgramOK'
<1> SUFFICES ASSUME Inv, ProgramOK, [Next]_vars PROVE ProgramOK'
    OBVIOUS
<1>1. CASE UNCHANGED vars
    <2>1. ListOK' /\ CopiesOK' /\ AcceptedOK'
        BY <1>1, ListStays, ProgramStays DEF ProgramOK, vars, disk, memory, history
    <2> QED
        BY <2>1 DEF ProgramOK
<1> QED
    BY <1>1, BeginsProgramOK, ReadingProgramOK, RecoveringProgramOK, GuardingProgramOK,
       WritingProgramOK, WorldProgramOK DEF Next

\* What is taken is what was read of the program last.
LEMMA TakenIsAccepted ==
    Inv /\ ProgramOK /\ [Next]_vars
        => [Take => \/ "program" \in restored
                    \/ mem'[op.by].edit = accepted /\ plan = accepted]_vars
<1> SUFFICES ASSUME Inv, ProgramOK, Take
             PROVE  \/ "program" \in restored
                    \/ mem'[op.by].edit = accepted /\ plan = accepted
    OBVIOUS
<1>1. Busy /\ Verb = "take" /\ mem' = [mem EXCEPT ![op.by] = op.st]
    BY DEF Take, Does
<1>2. Fresh(op.st)
    BY <1>1 DEF ProgramOK, ListOK
<1>3. mem'[op.by] = op.st
    BY <1>1, CallFacts DEF Inv, DataOK
<1> QED
    BY <1>2, <1>3 DEF Fresh

-----------------------------------------------------------------------------
(***************************************************************************)
(* The theorems.                                                            *)
(***************************************************************************)
\* However a recovery of a task's file is cut short - between the marker, the quarantine
\* and the install, by a death or a failed write, with the agent writing meanwhile - no
\* file that has been there is found neither there nor marked
\* (persistence_recovery.py:294-421): the bot never starts a task's program anew.
THEOREM FilesAreNeverForgotten == Spec => []NeverTakenForNew
<1>1. Init => Inv
    BY InitInv
<1>2. Inv /\ [Next]_vars => Inv'
    BY NextInv
<1>3. Inv => NeverTakenForNew
    BY DEF Inv
<1> QED
    BY <1>1, <1>2, <1>3, PTL DEF Spec

\* The writer whose write met a recovery does not get another one through before the
\* state has been read: the marker that the refusal left stays until a read takes it away,
\* and no write goes past a marker (persistence_recovery.py:394-421), whichever calls,
\* deaths, failed writes and agent's writes come between.
THEOREM RefusedWritersWait == Spec => RefusedUntilRead
<1>1. Init => Inv /\ BarrierOK
    BY InitInv, InitBarrier
<1>2. Inv /\ BarrierOK /\ [Next]_vars => (Inv /\ BarrierOK)'
    BY NextInv, NextBarrier
<1>3. Inv /\ BarrierOK /\ [Next]_vars
          => [Does({"write"}, "start") /\ file' # file => op.by \notin refused]_vars
    BY WritersAreClear
<1> QED
    BY <1>1, <1>2, <1>3, PTL DEF Spec, RefusedUntilRead

\* Whoever reads the task gets the program that was accepted last, and plan.md shows it:
\* an agent or a coroutine that saves a state with an older copy never brings that one
\* back, and an update that died is read as done or as not begun.  Only a program taken
\* from a snapshot may be older, until the next edit (continuous.py:187-235, 396-446).
THEOREM HoldersGetTheAcceptedProgram == Spec => AcceptedProgramWins
<1>1. Init => Inv /\ ProgramOK
    BY InitInv, InitProgramOK
<1>2. Inv /\ ProgramOK /\ [Next]_vars => (Inv /\ ProgramOK)'
    BY NextInv, NextProgramOK
<1>3. Inv /\ ProgramOK /\ [Next]_vars
          => [Take => \/ "program" \in restored
                      \/ mem'[op.by].edit = accepted /\ plan = accepted]_vars
    BY TakenIsAccepted
<1> QED
    BY <1>1, <1>2, <1>3, PTL DEF Spec, AcceptedProgramWins

-----------------------------------------------------------------------------
(***************************************************************************)
(* Journal: files of lines.                                                 *)
(***************************************************************************)
\* Where the lines of a file are after a write: its own stay, but for a torn end, and the
\* new ones follow, but for the first if it was glued to that end.
Follows(text, lines, all, d) ==
    /\ d = 1 => EndsTorn(text) /\ lines # <<>>
    /\ \A i \in DOMAIN all :
          \/ all[i] \in {Torn, Garbled}
          \/ i \in DOMAIN text /\ all[i] = text[i]
          \/ i - Len(text) + d \in DOMAIN lines /\ all[i] = lines[i - Len(text) + d]
    /\ \A i \in DOMAIN text :
          i \in DOMAIN all /\ (all[i] = text[i] \/ {text[i], all[i]} \subseteq {Torn, Garbled})
    /\ \A p \in DOMAIN lines :
          (d = 1 /\ p = 1) \/ (Len(text) + p - d \in DOMAIN all /\ all[Len(text) + p - d] = lines[p])

LEMMA JoinedLines ==
    ASSUME NEW text \in Seq(Int), NEW lines \in Seq(Int), NEW all, all = Joined(text, lines)
    PROVE  /\ all \in Seq(Int) /\ (text # <<>> => all # <<>>)
           /\ \E d \in {0, 1} : Follows(text, lines, all, d)
<1>1. PICK n \in Nat : n = Len(text) /\ DOMAIN text = 1 .. n /\ (text # <<>> => n > 0)
    BY LenProperties, EmptySeq
<1>2. PICK m \in Nat : m = Len(lines) /\ DOMAIN lines = 1 .. m /\ (lines # <<>> => m > 0)
    BY LenProperties, EmptySeq
<1>3. \A i \in 1 .. n : text[i] \in Int
    BY <1>1, ElementOfSeq
<1>4. CASE ~(EndsTorn(text) /\ lines # <<>>)
    <2>1. all = text \o lines
        BY <1>4 DEF Joined
    <2>2. /\ all \in Seq(Int) /\ Len(all) = n + m
          /\ \A i \in 1 .. n + m : all[i] = IF i <= n THEN text[i] ELSE lines[i - n]
        BY <1>1, <1>2, <2>1, ConcatProperties
    <2>3. DOMAIN all = 1 .. n + m
        BY <2>2, LenProperties
    <2>4. ASSUME NEW p \in 1 .. m
          PROVE  n + p - 0 \in 1 .. n + m /\ all[n + p - 0] = lines[p]
        <3>1. n + p - 0 \in 1 .. n + m /\ ~(n + p - 0 <= n) /\ (n + p - 0) - n = p
            OBVIOUS
        <3> QED
            BY <2>2, <3>1
    <2>5. ASSUME NEW i \in 1 .. n
          PROVE  i \in 1 .. n + m /\ all[i] = text[i]
        BY <2>2
    <2>6. ASSUME NEW i \in 1 .. n + m
          PROVE  \/ i \in 1 .. n /\ all[i] = text[i]
                 \/ i - n + 0 \in 1 .. m /\ all[i] = lines[i - n + 0]
        <3>1. CASE i <= n
            BY <2>2, <3>1
        <3>2. CASE ~(i <= n)
            <4>1. i - n + 0 \in 1 .. m /\ i - n + 0 = i - n
                BY <3>2
            <4> QED
                BY <2>2, <3>2, <4>1
        <3> QED
            BY <3>1, <3>2
    <2>7. Follows(text, lines, all, 0)
        <3>1. \A i \in DOMAIN all : \/ i \in DOMAIN text /\ all[i] = text[i]
                                    \/ i - Len(text) + 0 \in DOMAIN lines /\ all[i] = lines[i - Len(text) + 0]
            BY <1>1, <1>2, <2>3, <2>6
        <3>2. \A i \in DOMAIN text : i \in DOMAIN all /\ all[i] = text[i]
            BY <1>1, <2>3, <2>5
        <3>3. \A p \in DOMAIN lines : Len(text) + p - 0 \in DOMAIN all /\ all[Len(text) + p - 0] = lines[p]
            BY <1>1, <1>2, <2>3, <2>4
        <3> QED
            BY <3>1, <3>2, <3>3 DEF Follows
    <2>8. text # <<>> => all # <<>>
        BY <1>1, <2>2, EmptySeq
    <2> QED
        BY <2>2, <2>7, <2>8
<1>5. CASE EndsTorn(text) /\ lines # <<>>
    <2>1. text # <<>> /\ text[n] = Torn /\ n > 0 /\ m > 0
        BY <1>1, <1>2, <1>5 DEF EndsTorn, Last
    <2>2. PICK x \in {Torn, Garbled} : x = IF Head(lines) = Torn THEN Torn ELSE Garbled
        OBVIOUS
    <2>3. all = Front(text) \o <<x>> \o Tail(lines)
        BY <1>5, <2>2 DEF Joined
    <2>4. PICK a \in Seq(Int) : a = Front(text) /\ Len(a) = n - 1 /\ \A i \in 1 .. n - 1 : a[i] = text[i]
        <3>1. 1 \in Int /\ n - 1 \in Int /\ \A i \in 1 .. n - 1 : text[i] \in Int
            BY <1>3
        <3>2. /\ SubSeq(text, 1, n - 1) \in Seq(Int)
              /\ Len(SubSeq(text, 1, n - 1)) = IF 1 <= n - 1 THEN n - 1 - 1 + 1 ELSE 0
              /\ \A i \in 1 .. n - 1 - 1 + 1 : SubSeq(text, 1, n - 1)[i] = text[1 + i - 1]
            BY <3>1, SubSeqProperties
        <3>3. Front(text) = SubSeq(text, 1, n - 1)
            BY <1>1 DEF Front
        <3>4. Len(Front(text)) = n - 1
            BY <2>1, <3>2, <3>3
        <3>5. ASSUME NEW i \in 1 .. n - 1
              PROVE  Front(text)[i] = text[i]
            <4>1. i \in 1 .. n - 1 - 1 + 1 /\ 1 + i - 1 = i
                OBVIOUS
            <4> QED
                BY <3>2, <3>3, <4>1
        <3> QED
            BY <3>2, <3>3, <3>4, <3>5
    <2>5. PICK b \in Seq(Int) : b = Append(a, x) /\ Len(b) = n /\ (\A i \in 1 .. n - 1 : b[i] = text[i]) /\ b[n] = x
        <3>1. x \in Int
            BY DEF Torn, Garbled
        <3>2. /\ Append(a, x) \in Seq(Int) /\ Len(Append(a, x)) = Len(a) + 1
              /\ \A i \in 1 .. Len(a) : Append(a, x)[i] = a[i]
              /\ Append(a, x)[Len(a) + 1] = x
            BY <3>1, AppendProperties
        <3>3. Len(a) + 1 = n
            BY <2>4
        <3> QED
            BY <2>4, <3>2, <3>3
    <2>6. PICK c \in Seq(Int) : c = Tail(lines) /\ Len(c) = m - 1 /\ \A i \in 1 .. m - 1 : c[i] = lines[i + 1]
        <3>1. /\ Tail(lines) \in Seq(Int) /\ Len(Tail(lines)) = Len(lines) - 1
              /\ \A i \in 1 .. Len(Tail(lines)) : Tail(lines)[i] = lines[i + 1]
            BY <1>5, HeadTailProperties
        <3>2. Len(Tail(lines)) = m - 1
            BY <1>2, <3>1
        <3> QED
            BY <3>1, <3>2
    <2>7. all = b \o c
        <3>1. x \in Int
            BY DEF Torn, Garbled
        <3>2. a \o <<x>> = b
            BY <2>5, <3>1, AppendIsConcat
        <3> QED
            BY <2>3, <2>4, <2>6, <3>2
    <2>8. PICK l \in Nat : l = n + m - 1
        BY <2>1
    <2>9. /\ all \in Seq(Int) /\ Len(all) = l /\ DOMAIN all = 1 .. l
          /\ \A i \in 1 .. l : all[i] = IF i <= n THEN b[i] ELSE c[i - n]
        <3>1. /\ all \in Seq(Int) /\ Len(all) = Len(b) + Len(c)
              /\ \A i \in 1 .. Len(b) + Len(c) : all[i] = IF i <= Len(b) THEN b[i] ELSE c[i - Len(b)]
            BY <2>7, ConcatProperties
        <3>2. Len(b) + Len(c) = l /\ Len(b) = n
            BY <2>5, <2>6, <2>8
        <3> QED
            BY <3>1, <3>2, LenProperties
    <2>10. ASSUME NEW p \in 1 .. m, p # 1
           PROVE  n + p - 1 \in 1 .. l /\ all[n + p - 1] = lines[p]
        <3>1. /\ n + p - 1 \in 1 .. l /\ ~(n + p - 1 <= n) /\ (n + p - 1) - n = p - 1
              /\ p - 1 \in 1 .. m - 1 /\ (p - 1) + 1 = p
            BY <2>8, <2>10
        <3>2. c[p - 1] = lines[p]
            BY <2>6, <3>1
        <3> QED
            BY <2>9, <3>1, <3>2
    <2>11. ASSUME NEW i \in 1 .. n
           PROVE  i \in 1 .. l /\ (all[i] = text[i] \/ {text[i], all[i]} \subseteq {Torn, Garbled})
        <3>1. CASE i = n
            <4>1. n \in 1 .. l /\ n <= n
                BY <2>1, <2>8
            <4> QED
                BY <2>1, <2>5, <2>9, <3>1, <4>1
        <3>2. CASE i # n
            <4>1. i \in 1 .. l /\ i <= n /\ i \in 1 .. n - 1
                BY <2>1, <2>8, <3>2
            <4> QED
                BY <2>5, <2>9, <4>1
        <3> QED
            BY <3>1, <3>2
    <2>12. ASSUME NEW i \in 1 .. l
           PROVE  \/ all[i] \in {Torn, Garbled}
                  \/ i \in 1 .. n /\ all[i] = text[i]
                  \/ i - n + 1 \in 1 .. m /\ all[i] = lines[i - n + 1]
        <3>1. CASE i = n
            BY <2>5, <2>9, <3>1
        <3>2. CASE i < n
            <4>1. i \in 1 .. n /\ i \in 1 .. n - 1 /\ i <= n
                BY <3>2
            <4> QED
                BY <2>5, <2>9, <4>1
        <3>3. CASE i > n
            <4>1. i - n + 1 \in 1 .. m /\ ~(i <= n) /\ i - n \in 1 .. m - 1
                BY <2>8, <3>3
            <4> QED
                BY <2>6, <2>9, <4>1
        <3> QED
            BY <3>1, <3>2, <3>3
    <2>13. Follows(text, lines, all, 1)
        BY <1>1, <1>2, <1>5, <2>9, <2>10, <2>11, <2>12 DEF Follows
    <2>14. all # <<>>
        BY <2>1, <2>8, <2>9, EmptySeq
    <2> QED
        BY <2>9, <2>13, <2>14
<1> QED
    BY <1>4, <1>5

\* Nothing is read in a file that was not written to it, and only a glued line is not.
LEMMA JoinedReadable ==
    ASSUME NEW text \in Seq(Int), NEW lines \in Seq(Int), NEW all, all = Joined(text, lines)
    PROVE  /\ all \in Seq(Int)
           /\ Readable(all) \subseteq Readable(text) \cup Readable(lines)
           /\ Readable(text) \subseteq Readable(all)
           /\ Readable(lines) \ Glued(text, lines) \subseteq Readable(all)
<1>1. all \in Seq(Int)
    BY JoinedLines
<1>2. PICK d \in {0, 1} : Follows(text, lines, all, d)
    BY JoinedLines
<1>3. Readable(all) \subseteq Readable(text) \cup Readable(lines)
    BY <1>2 DEF Follows, Readable
<1>4. Readable(text) \subseteq Readable(all)
    BY <1>2 DEF Follows, Readable
<1>5. ASSUME NEW e \in Readable(lines), e \notin Glued(text, lines)
      PROVE  e \in Readable(all)
    <2>1. PICK p \in DOMAIN lines : lines[p] = e /\ e \notin {Torn, Garbled}
        BY DEF Readable
    <2>2. ASSUME d = 1, p = 1
          PROVE  FALSE
        <3>1. Glued(text, lines) = Readable(<<Head(lines)>>) /\ lines # <<>>
            BY <1>2, <2>2 DEF Follows, Glued
        <3>2. Head(lines) = e
            BY <2>1, <2>2, <3>1
        <3>3. e \in Readable(<<e>>)
            BY <2>1 DEF Readable
        <3> QED
            BY <1>5, <3>1, <3>2, <3>3
    <2>3. Len(text) + p - d \in DOMAIN all /\ all[Len(text) + p - d] = e
        BY <1>2, <2>1, <2>2 DEF Follows
    <2> QED
        BY <2>1, <2>3 DEF Readable
<1> QED
    BY <1>1, <1>3, <1>4, <1>5

OnceIn(text, e) == \A i, j \in DOMAIN text : text[i] = e /\ text[j] = e => i = j

\* Writing does not double a record.
LEMMA JoinedOnce ==
    ASSUME NEW text \in Seq(Int), NEW lines \in Seq(Int), NEW all, all = Joined(text, lines),
           NEW e, e \notin {Torn, Garbled}, OnceIn(text, e), OnceIn(lines, e),
           e \notin Readable(text) \/ e \notin Readable(lines)
    PROVE  OnceIn(all, e)
<1>1. PICK d \in {0, 1} : Follows(text, lines, all, d)
    BY JoinedLines
<1>2. Len(text) \in Nat /\ all \in Seq(Int) /\ DOMAIN all = 1 .. Len(all)
    BY JoinedLines, LenProperties
<1>3. ASSUME NEW i \in DOMAIN all, all[i] = e
      PROVE  \/ i \in DOMAIN text /\ text[i] = e /\ e \in Readable(text)
             \/ i - Len(text) + d \in DOMAIN lines /\ lines[i - Len(text) + d] = e /\ e \in Readable(lines)
    <2>1. \/ i \in DOMAIN text /\ text[i] = e
          \/ i - Len(text) + d \in DOMAIN lines /\ lines[i - Len(text) + d] = e
        BY <1>1, <1>3 DEF Follows
    <2> QED
        BY <2>1 DEF Readable
<1>4. ASSUME NEW i \in DOMAIN all, NEW j \in DOMAIN all, all[i] = e, all[j] = e
      PROVE  i = j
    <2>1. CASE e \notin Readable(text)
        <3>1. i - Len(text) + d \in DOMAIN lines /\ lines[i - Len(text) + d] = e
            BY <1>3, <1>4, <2>1
        <3>2. j - Len(text) + d \in DOMAIN lines /\ lines[j - Len(text) + d] = e
            BY <1>3, <1>4, <2>1
        <3>3. i - Len(text) + d = j - Len(text) + d
            BY <3>1, <3>2 DEF OnceIn
        <3>4. i \in Int /\ j \in Int
            BY <1>2
        <3> QED
            BY <1>2, <3>3, <3>4
    <2>2. CASE e \notin Readable(lines)
        <3>1. i \in DOMAIN text /\ text[i] = e
            BY <1>3, <1>4, <2>2
        <3>2. j \in DOMAIN text /\ text[j] = e
            BY <1>3, <1>4, <2>2
        <3> QED
            BY <3>1, <3>2 DEF OnceIn
    <2> QED
        BY <2>1, <2>2
<1> QED
    BY <1>4 DEF OnceIn

\* The first line of a file that is not empty stays, or stays unreadable.
LEMMA JoinedHead ==
    ASSUME NEW text \in Seq(Int), NEW lines \in Seq(Int), text # <<>>
    PROVE  /\ Joined(text, lines) # <<>>
           /\ \/ Head(Joined(text, lines)) = Head(text)
              \/ {Head(text), Head(Joined(text, lines))} \subseteq {Torn, Garbled}
<1>1. PICK all : all = Joined(text, lines)
    OBVIOUS
<1>2. all \in Seq(Int) /\ all # <<>>
    BY <1>1, JoinedLines
<1>3. PICK d \in {0, 1} : Follows(text, lines, all, d)
    BY <1>1, JoinedLines
<1>4. 1 \in DOMAIN text
    BY LenProperties, EmptySeq
<1>5. all[1] = text[1] \/ {text[1], all[1]} \subseteq {Torn, Garbled}
    BY <1>3, <1>4 DEF Follows
<1>6. Head(text) = text[1] /\ Head(all) = all[1]
    BY <1>2
<1> QED
    BY <1>1, <1>2, <1>5, <1>6

\* What an interrupted write leaves of the lines was among them.
LEMMA CutLines ==
    ASSUME NEW lines \in Seq(Int), NEW part \in Cuts(lines)
    PROVE  part \in Seq(Int) /\ Readable(part) \subseteq Readable(lines)
<1>1. PICK m \in Nat : m = Len(lines) /\ DOMAIN lines = 1 .. m
    BY LenProperties
<1>2. \A i \in 1 .. m : lines[i] \in Int
    BY <1>1, ElementOfSeq
<1>3. ASSUME NEW n \in 0 .. m
      PROVE  /\ SubSeq(lines, 1, n) \in Seq(Int) /\ Readable(SubSeq(lines, 1, n)) \subseteq Readable(lines)
    <2>1. 1 \in Int /\ n \in Int /\ \A i \in 1 .. n : lines[i] \in Int
        BY <1>2
    <2>2. /\ SubSeq(lines, 1, n) \in Seq(Int)
          /\ Len(SubSeq(lines, 1, n)) = IF 1 <= n THEN n - 1 + 1 ELSE 0
          /\ \A i \in 1 .. n - 1 + 1 : SubSeq(lines, 1, n)[i] = lines[1 + i - 1]
        BY <2>1, SubSeqProperties
    <2>3. Len(SubSeq(lines, 1, n)) = n
        BY <2>2
    <2>4. DOMAIN SubSeq(lines, 1, n) = 1 .. n
        BY <2>2, <2>3, LenProperties
    <2>5. ASSUME NEW i \in 1 .. n
          PROVE  i \in DOMAIN lines /\ SubSeq(lines, 1, n)[i] = lines[i]
        <3>1. i \in 1 .. n - 1 + 1 /\ 1 + i - 1 = i /\ i \in 1 .. m
            OBVIOUS
        <3> QED
            BY <1>1, <2>2, <3>1
    <2> QED
        BY <2>2, <2>4, <2>5 DEF Readable
<1>4. ASSUME NEW n \in 0 .. m - 1, part = Append(SubSeq(lines, 1, n), Torn)
      PROVE  part \in Seq(Int) /\ Readable(part) \subseteq Readable(lines)
    <2>1. PICK a \in Seq(Int) : a = SubSeq(lines, 1, n) /\ Readable(a) \subseteq Readable(lines)
        <3>1. n \in 0 .. m
            BY <1>1
        <3> QED
            BY <1>3, <3>1
    <2>2. /\ part \in Seq(Int) /\ Len(part) = Len(a) + 1
          /\ (\A i \in 1 .. Len(a) : part[i] = a[i]) /\ part[Len(a) + 1] = Torn
        BY <1>4, <2>1, AppendProperties DEF Torn
    <2>3. DOMAIN part = 1 .. Len(a) + 1 /\ DOMAIN a = 1 .. Len(a) /\ Len(a) \in Nat
        BY <2>2, LenProperties
    <2>4. ASSUME NEW i \in 1 .. Len(a) + 1, part[i] # Torn
          PROVE  i \in DOMAIN a /\ part[i] = a[i]
        BY <2>2, <2>3, <2>4
    <2>5. Readable(part) \subseteq Readable(a)
        BY <2>3, <2>4 DEF Readable
    <2> QED
        BY <2>1, <2>2, <2>5
<1> QED
    BY <1>1, <1>3, <1>4 DEF Cuts

\* One line.
LEMMA OneLine ==
    ASSUME NEW x \in Int
    PROVE  /\ <<x>> \in Seq(Int) /\ Readable(<<x>>) = {x} \ {Torn, Garbled}
           /\ \A e : OnceIn(<<x>>, e)
           /\ Joined(<<>>, <<x>>) = <<x>> /\ Head(<<x>>) = x
<1>1. Joined(<<>>, <<x>>) = <<>> \o <<x>>
    BY DEF Joined, EndsTorn
<1>2. <<>> \o <<x>> = <<x>>
    BY ConcatEmptySeq
<1> QED
    BY <1>1, <1>2 DEF Readable, OnceIn

LEMMA HourFacts ==
    ASSUME NEW t \in Nat
    PROVE  Hour(t) \in Nat /\ 2 * Hour(t) <= t /\ t <= 2 * Hour(t) + 1
<1> QED
    BY DEF Hour

-----------------------------------------------------------------------------
(***************************************************************************)
(* The inductive invariant of the events.                                   *)
(***************************************************************************)
\* The hot file goes to a shard that is no older than its events.
HotOK == \A e \in Readable(hot) \ late : \A h \in HotHour : Hour(at[e]) <= h

\* An event is in the hot file or a shard no older than it, unless it has expired.
FoundOK ==
    \A e \in DOMAIN at \ (late \cup lost[1]) :
        \/ e \in Readable(hot)
        \/ \E h \in Hours : Hour(at[e]) <= h /\ e \in Readable(shards[h])
        \/ Expired(Hour(at[e]))

\* Only a failed merge doubles it.
OnceOK ==
    \A e \in DOMAIN at \ cut :
        /\ OnceIn(hot, e)
        /\ \A h \in Hours :
              /\ OnceIn(shards[h], e)
              /\ e \in Readable(shards[h]) =>
                    /\ e \notin Readable(hot)
                    /\ \A k \in Hours : e \in Readable(shards[k]) => k = h

EventsOK == EventsTypeOK /\ HotOK /\ FoundOK /\ OnceOK

LEMMA EventsFacts ==
    ASSUME EventsTypeOK
    PROVE  /\ now \in Nat /\ Retention \in Nat /\ MaxTime \in Nat /\ now <= MaxTime
           /\ Len(at) \in Nat /\ DOMAIN at = 1 .. Len(at)
           /\ \A e \in DOMAIN at : at[e] \in Nat
           /\ \A h \in Hours : h \in Nat
           /\ \A t \in 0 .. now : Hour(t) \in Hours /\ Hour(t) <= Hour(now)
<1>1. now \in Nat /\ Retention \in Nat /\ MaxTime \in Nat /\ now <= MaxTime
    BY JournalAssumption DEF EventsTypeOK
<1>2. Len(at) \in Nat /\ DOMAIN at = 1 .. Len(at) /\ \A e \in DOMAIN at : at[e] \in Nat
    BY LenProperties, ElementOfSeq DEF EventsTypeOK
<1>3. ASSUME NEW t \in 0 .. now
      PROVE  Hour(t) \in Hours /\ Hour(t) <= Hour(now)
    BY <1>1 DEF Hour, Hours
<1>4. \A h \in Hours : h \in Nat
    BY <1>1 DEF Hours
<1> QED
    BY <1>1, <1>2, <1>3, <1>4

LEMMA HotHourFacts ==
    ASSUME EventsTypeOK
    PROVE  /\ HotHour \subseteq Hours /\ Target \in Hours
           /\ HotHour # {} => Target \in HotHour
           /\ HotHour = {} => Target = Hour(now)
           /\ \A h, k \in HotHour : h = k
           /\ \A h \in HotHour : hot # <<>> /\ Head(hot) \in DOMAIN at /\ h = Hour(at[Head(hot)])
<1>1. \A e \in DOMAIN at : at[e] \in 0 .. now
    BY EventsFacts DEF EventsTypeOK
<1>2. \A h \in HotHour : hot # <<>> /\ Head(hot) \in DOMAIN at /\ h = Hour(at[Head(hot)])
    BY EventsFacts DEF HotHour
<1>3. HotHour \subseteq Hours /\ \A h, k \in HotHour : h = k
    BY <1>1, <1>2, EventsFacts
<1>4. HotHour # {} => Target \in HotHour
    BY DEF Target
<1>5. HotHour = {} => Target = Hour(now)
    BY DEF Target
<1>6. now \in 0 .. now
    BY EventsFacts
<1> QED
    BY <1>2, <1>3, <1>4, <1>5, <1>6, EventsFacts

\* Time passes, and what is not about events happens.
LEMMA EventsKept ==
    ASSUME EventsOK, UNCHANGED events, lost'[1] = lost[1], now' \in now .. MaxTime
    PROVE  EventsOK'
<1>1. /\ at' = at /\ hot' = hot /\ shards' = shards /\ late' = late /\ cut' = cut
    BY DEF events
<1>2. EventsTypeOK
    BY DEF EventsOK
<1>3. now \in Nat /\ now' \in 0 .. MaxTime /\ now <= now' /\ \A e \in DOMAIN at : at[e] \in Nat
    BY <1>2, EventsFacts
<1>4. \A e \in DOMAIN at : at[e] <= now'
    BY <1>2, <1>3 DEF EventsTypeOK
<1>5. EventsTypeOK'
    BY <1>1, <1>2, <1>3, <1>4 DEF EventsTypeOK
<1>6. HotHour' = HotHour
    BY <1>1 DEF HotHour
<1>7. HotOK'
    BY <1>1, <1>6 DEF EventsOK, HotOK
<1>8. \A e \in DOMAIN at : Expired(Hour(at[e])) => Expired(Hour(at[e]))'
    <2>1. ASSUME NEW e \in DOMAIN at
          PROVE  Hour(at[e]) \in Nat
        BY <1>3, HourFacts
    <2> QED
        BY <1>1, <1>2, <1>3, <2>1, EventsFacts DEF Expired
<1>9. FoundOK'
    BY <1>1, <1>8 DEF EventsOK, FoundOK
<1>10. OnceOK'
    BY <1>1 DEF EventsOK, OnceOK
<1> QED
    BY <1>5, <1>7, <1>9, <1>10 DEF EventsOK

LEMMA RecordEvents ==
    ASSUME EventsOK, Record
    PROVE  EventsOK'
<1>1. now' = now /\ shards' = shards /\ cut' = cut
    BY DEF Record, clock
<1>2. EventsTypeOK
    BY DEF EventsOK
<1>3. /\ hot \in Seq(Int) /\ Readable(hot) \subseteq DOMAIN at /\ at \in Seq(Nat)
      /\ late \subseteq DOMAIN at /\ cut \subseteq DOMAIN at /\ lost[1] \subseteq DOMAIN at
    BY <1>2 DEF EventsTypeOK
<1>4. CASE /\ hot' = Joined(hot, <<Torn>>)
           /\ UNCHANGED <<at, late, lost>>
    <2>1. /\ <<Torn>> \in Seq(Int) /\ Readable(<<Torn>>) = {} /\ \A e : OnceIn(<<Torn>>, e)
          /\ Joined(<<>>, <<Torn>>) = <<Torn>> /\ Head(<<Torn>>) = Torn
        <3>1. Torn \in Int
            BY DEF Torn
        <3> QED
            BY <3>1, OneLine
    <2>2. hot' \in Seq(Int) /\ Readable(hot') = Readable(hot)
        <3>1. /\ hot' \in Seq(Int) /\ Readable(hot) \subseteq Readable(hot')
              /\ Readable(hot') \subseteq Readable(hot) \cup Readable(<<Torn>>)
            BY <1>3, <1>4, <2>1, JoinedReadable
        <3>2. Readable(hot') \subseteq Readable(hot)
            BY <2>1, <3>1, Zenon
        <3> QED
            BY <3>1, <3>2, Zenon
    <2>3. \A e \in DOMAIN at : OnceIn(hot, e) => OnceIn(hot', e)
        <3>1. \A e \in DOMAIN at : e \notin {Torn, Garbled}
            BY <1>2, EventsFacts DEF Torn, Garbled
        <3> QED
            BY <1>3, <1>4, <2>1, <3>1, JoinedOnce
    <2>4. HotHour' \subseteq HotHour
        <3>1. CASE hot = <<>>
            <4>1. Head(hot') = Torn /\ Torn \notin 1 .. Len(at)
                BY <1>2, <1>4, <2>1, <3>1, EventsFacts DEF Torn
            <4> QED
                BY <1>4, <4>1 DEF HotHour
        <3>2. CASE hot # <<>>
            <4>1. Head(hot') = Head(hot) \/ Head(hot') \in {Torn, Garbled}
                BY <1>3, <1>4, <2>1, <3>2, JoinedHead
            <4>2. Torn \notin 1 .. Len(at) /\ Garbled \notin 1 .. Len(at)
                BY <1>2, EventsFacts DEF Torn, Garbled
            <4> QED
                BY <1>4, <3>2, <4>1, <4>2 DEF HotHour
        <3> QED
            BY <3>1, <3>2
    <2>5. EventsTypeOK'
        BY <1>1, <1>2, <1>4, <2>2 DEF EventsTypeOK
    <2>6. HotOK'
        BY <1>4, <2>2, <2>4 DEF EventsOK, HotOK
    <2>7. FoundOK'
        BY <1>1, <1>4, <2>2 DEF EventsOK, FoundOK, Expired
    <2>8. OnceOK'
        BY <1>1, <1>4, <2>2, <2>3 DEF EventsOK, OnceOK
    <2> QED
        BY <2>5, <2>6, <2>7, <2>8 DEF EventsOK
<1>5. CASE /\ at' = Append(at, now)
           /\ hot' = Joined(hot, <<Len(at')>>)
           /\ late' = IF HotHour \subseteq {Hour(now)} THEN late ELSE late \cup {Len(at')}
           /\ Loses(Glued(hot, <<Len(at')>>), {})
    <2>1. PICK e \in Nat \ {0} : e = Len(at) + 1
        BY <1>2, EventsFacts
    <2>2. /\ at' \in Seq(Nat) /\ Len(at') = e /\ DOMAIN at' = DOMAIN at \cup {e} /\ e \notin DOMAIN at
          /\ at'[e] = now /\ \A x \in DOMAIN at : at'[x] = at[x]
        <3>1. now \in Nat /\ Len(at) \in Nat /\ DOMAIN at = 1 .. Len(at)
            BY <1>2, EventsFacts
        <3>2. /\ at' \in Seq(Nat) /\ Len(at') = Len(at) + 1
              /\ \A i \in 1 .. Len(at) : at'[i] = at[i]
              /\ at'[Len(at) + 1] = now
            BY <1>3, <1>5, <3>1, AppendProperties
        <3>3. DOMAIN at' = 1 .. Len(at')
            BY <3>2, LenProperties
        <3> QED
            BY <2>1, <3>1, <3>2, <3>3
    <2>3. e \notin {Torn, Garbled} /\ e \in Int
        BY DEF Torn, Garbled
    <2>4. /\ <<e>> \in Seq(Int) /\ Readable(<<e>>) = {e} /\ \A x : OnceIn(<<e>>, x)
          /\ Joined(<<>>, <<e>>) = <<e>> /\ Head(<<e>>) = e
        BY <2>3, OneLine
    <2>5. hot' = Joined(hot, <<e>>) /\ lost'[1] = lost[1] \cup Glued(hot, <<e>>)
        BY <1>5, <2>2 DEF Loses
    <2>6. /\ hot' \in Seq(Int) /\ Readable(hot) \subseteq Readable(hot')
          /\ Readable(hot') \subseteq Readable(hot) \cup {e}
          /\ e \in Readable(hot') \/ e \in lost'[1]
        BY <1>3, <2>4, <2>5, JoinedReadable
    <2>7. lost'[1] \subseteq lost[1] \cup {e} /\ lost[1] \subseteq lost'[1]
        BY <2>4, <2>5 DEF Glued
    <2>8. /\ late \subseteq late' /\ late' \subseteq late \cup {e}
          /\ e \notin late' => HotHour \subseteq {Hour(now)}
        BY <1>5, <2>2
    <2>9. /\ HotHour' \subseteq HotHour \cup {Hour(now)}
          /\ hot # <<>> => HotHour' \subseteq HotHour
        <3>1. CASE hot = <<>>
            <4>1. Head(hot') = e
                BY <2>4, <2>5, <3>1
            <4> QED
                BY <2>2, <3>1, <4>1 DEF HotHour
        <3>2. CASE hot # <<>>
            <4>1. Head(hot') = Head(hot) \/ Head(hot') \in {Torn, Garbled}
                BY <1>3, <2>4, <2>5, <3>2, JoinedHead
            <4>2. Torn \notin 1 .. e /\ Garbled \notin 1 .. e
                BY DEF Torn, Garbled
            <4>3. Head(hot) \in {Torn, Garbled} \cup DOMAIN at
                <5>1. Head(hot) \in Range(hot)
                    <6>1. 1 \in DOMAIN hot /\ Head(hot) = hot[1]
                        BY <1>3, <3>2, LenProperties, EmptySeq
                    <6> QED
                        BY <6>1 DEF Range
                <5> QED
                    BY <1>3, <5>1 DEF Readable, Range
            <4>4. DOMAIN at = 1 .. Len(at)
                BY <1>2, EventsFacts
            <4>5. ASSUME NEW h \in HotHour'
                  PROVE  h \in HotHour
                <5>1. Head(hot') \in 1 .. e /\ h = Hour(at'[Head(hot')])
                    BY <2>2 DEF HotHour
                <5>2. Head(hot') = Head(hot) /\ Head(hot) \in DOMAIN at
                    BY <4>1, <4>2, <4>3, <5>1
                <5> QED
                    BY <2>2, <3>2, <4>4, <5>1, <5>2 DEF HotHour
            <4> QED
                BY <3>2, <4>5
        <3> QED
            BY <3>1, <3>2
    <2>10. EventsTypeOK'
        <3>1. \A x \in DOMAIN at' : at'[x] <= now
            <4>1. now \in Nat /\ \A x \in DOMAIN at : at[x] <= now
                BY <1>2, EventsFacts DEF EventsTypeOK
            <4>2. now <= now
                BY <4>1
            <4> QED
                BY <2>2, <4>1, <4>2, Zenon
        <3>2. late' \cup cut' \cup lost'[1] \subseteq DOMAIN at'
            <4>1. late' \subseteq DOMAIN at'
                BY <1>3, <2>2, <2>8, Zenon
            <4>2. cut' \subseteq DOMAIN at'
                BY <1>1, <1>3, <2>2, Zenon
            <4>3. lost'[1] \subseteq DOMAIN at'
                BY <1>3, <2>2, <2>7, Zenon
            <4> QED
                BY <4>1, <4>2, <4>3, Zenon
        <3>3. Readable(hot') \subseteq DOMAIN at' /\ \A h \in Hours : Readable(shards[h]) \subseteq DOMAIN at'
            BY <1>2, <1>3, <2>2, <2>6 DEF EventsTypeOK
        <3> QED
            BY <1>1, <1>2, <2>2, <2>6, <3>1, <3>2, <3>3 DEF EventsTypeOK
    <2>11. HotOK'
        <3>1. ASSUME NEW x \in Readable(hot'), x \notin late', NEW h \in HotHour'
              PROVE  Hour(at'[x]) <= h
            <4>1. Hour(now) \in Nat
                BY <1>2, EventsFacts, HourFacts
            <4>2. CASE x = e
                <5>1. HotHour \subseteq {Hour(now)}
                    BY <2>8, <3>1, <4>2, Zenon
                <5>2. h = Hour(now)
                    BY <2>9, <5>1, Zenon
                <5> QED
                    BY <2>2, <4>1, <4>2, <5>2
            <4>3. CASE x # e
                <5>1. x \in Readable(hot) /\ x \notin late /\ x \in DOMAIN at
                    BY <1>3, <2>6, <2>8, <3>1, <4>3, Zenon
                <5>2. hot # <<>>
                    BY <5>1 DEF Readable
                <5> QED
                    BY <2>2, <2>9, <5>1, <5>2 DEF EventsOK, HotOK
            <4> QED
                BY <4>2, <4>3
        <3> QED
            BY <3>1 DEF HotOK
    <2>12. FoundOK'
        <3>1. ASSUME NEW x \in DOMAIN at', x \notin late', x \notin lost'[1]
              PROVE  \/ x \in Readable(hot')
                     \/ \E h \in Hours : Hour(at'[x]) <= h /\ x \in Readable(shards[h])
                     \/ Expired(Hour(at'[x]))
            <4>1. CASE x = e
                BY <2>6, <3>1, <4>1
            <4>2. CASE x # e
                <5>1. x \in DOMAIN at \ (late \cup lost[1]) /\ at'[x] = at[x]
                    BY <2>2, <2>7, <2>8, <3>1, <4>2, Zenon
                <5> QED
                    BY <2>6, <5>1 DEF EventsOK, FoundOK
            <4> QED
                BY <4>1, <4>2
        <3> QED
            BY <1>1, <3>1 DEF FoundOK, Expired
    <2>13. OnceOK'
        <3>1. ASSUME NEW x \in DOMAIN at', x \notin cut
              PROVE  OnceIn(hot', x)
            <4>1. CASE x = e
                <5>1. e \notin Readable(hot)
                    BY <1>3, <2>2
                <5>2. OnceIn(hot, e)
                    BY <2>3, <5>1 DEF OnceIn, Readable
                <5> QED
                    BY <1>3, <2>3, <2>4, <2>5, <4>1, <5>1, <5>2, JoinedOnce
            <4>2. CASE x # e
                <5>1. x \in DOMAIN at /\ x \notin Readable(<<e>>) /\ OnceIn(hot, x)
                    BY <2>2, <2>4, <3>1, <4>2 DEF EventsOK, OnceOK
                <5>2. x \notin {Torn, Garbled}
                    BY <1>2, <5>1, EventsFacts DEF Torn, Garbled
                <5> QED
                    BY <1>3, <2>4, <2>5, <5>1, <5>2, JoinedOnce
            <4> QED
                BY <4>1, <4>2
        <3>2. ASSUME NEW h \in Hours
              PROVE  e \notin Readable(shards[h]) /\ OnceIn(shards[h], e)
            <4>1. e \notin Readable(shards[h])
                BY <1>2, <2>2 DEF EventsTypeOK
            <4> QED
                BY <2>3, <4>1 DEF OnceIn, Readable
        <3>3. ASSUME NEW x \in DOMAIN at', x \notin cut, NEW h \in Hours
              PROVE  /\ OnceIn(shards[h], x)
                     /\ x \in Readable(shards[h]) =>
                           /\ x \notin Readable(hot')
                           /\ \A k \in Hours : x \in Readable(shards[k]) => k = h
            <4>1. CASE x = e
                BY <3>2, <4>1
            <4>2. CASE x # e
                BY <2>2, <2>6, <3>3, <4>2 DEF EventsOK, OnceOK
            <4> QED
                BY <4>1, <4>2
        <3> QED
            BY <1>1, <3>1, <3>3 DEF OnceOK
    <2> QED
        BY <2>10, <2>11, <2>12, <2>13 DEF EventsOK
<1> QED
    BY <1>4, <1>5 DEF Record

\* What a rotation leaves in the shards.
LEMMA Filing ==
    ASSUME EventsTypeOK, NEW part \in Seq(Int), shards' = Pruned(Filed(part))
    PROVE  /\ shards' \in [Hours -> Seq(Int)]
           /\ \A h \in Hours :
                 \/ shards'[h] = shards[h] /\ ~Expired(h) /\ h # Target
                 \/ shards'[h] = <<>> /\ Expired(h)
                 \/ shards'[h] = Joined(shards[Target], part) /\ ~Expired(h) /\ h = Target
<1>1. Target \in Hours /\ shards \in [Hours -> Seq(Int)]
    BY HotHourFacts DEF EventsTypeOK
<1>2. PICK all \in Seq(Int) : all = Joined(shards[Target], part)
    BY <1>1, JoinedLines
<1>3. /\ Filed(part) \in [Hours -> Seq(Int)]
      /\ \A h \in Hours : Filed(part)[h] = IF h = Target THEN all ELSE shards[h]
    BY <1>1, <1>2 DEF Filed
<1>4. /\ shards' \in [Hours -> Seq(Int)]
      /\ \A h \in Hours : shards'[h] = IF Expired(h) THEN <<>> ELSE Filed(part)[h]
    BY <1>3 DEF Pruned
<1> QED
    BY <1>2, <1>3, <1>4

LEMMA RotateEvents ==
    ASSUME EventsOK, NEW part \in Seq(Int), Readable(part) \subseteq Readable(hot),
           shards' = Pruned(Filed(part)), lost'[1] = lost[1] \cup Glued(shards[Target], part),
           UNCHANGED <<now, at, late>>, cut \subseteq cut', cut' \subseteq cut \cup Readable(hot),
           \/ hot' = hot /\ (part = <<>> \/ Readable(hot) \subseteq cut')
           \/ hot' = <<>> /\ part = hot
    PROVE  EventsOK'
<1>1. EventsTypeOK
    BY DEF EventsOK
<1>2. /\ hot \in Seq(Int) /\ Readable(hot) \subseteq DOMAIN at /\ lost[1] \subseteq DOMAIN at
      /\ late \subseteq DOMAIN at /\ cut \subseteq DOMAIN at
      /\ shards \in [Hours -> Seq(Int)] /\ \A h \in Hours : Readable(shards[h]) \subseteq DOMAIN at
    BY <1>1 DEF EventsTypeOK
<1>3. Target \in Hours /\ shards[Target] \in Seq(Int)
    BY <1>1, <1>2, HotHourFacts
<1>4. PICK g \in Seq(Int) : g = Joined(shards[Target], part)
    BY <1>3, JoinedLines
<1>5. /\ Readable(g) \subseteq Readable(shards[Target]) \cup Readable(part)
      /\ Readable(shards[Target]) \subseteq Readable(g)
      /\ Readable(part) \ Glued(shards[Target], part) \subseteq Readable(g)
    BY <1>3, <1>4, JoinedReadable
<1>6. /\ shards' \in [Hours -> Seq(Int)]
      /\ \A h \in Hours :
            \/ shards'[h] = shards[h] /\ ~Expired(h) /\ h # Target
            \/ shards'[h] = <<>> /\ Expired(h)
            \/ shards'[h] = g /\ ~Expired(h) /\ h = Target
    BY <1>1, <1>4, Filing
<1>7. Readable(<<>>) = {} /\ (\A x : OnceIn(<<>>, x)) /\ <<>> \in Seq(Int)
    BY DEF Readable, OnceIn
<1>8. Glued(shards[Target], part) \subseteq Readable(part)
    <2>1. CASE part = <<>>
        BY <2>1 DEF Glued
    <2>2. CASE part # <<>>
        <3>1. 1 \in DOMAIN part /\ Head(part) = part[1]
            BY <2>2, LenProperties, EmptySeq
        <3>2. Head(part) \in Int
            BY <3>1, ElementOfSeq
        <3>3. Readable(<<Head(part)>>) = {Head(part)} \ {Torn, Garbled}
            BY <3>2, OneLine
        <3> QED
            BY <3>1, <3>3 DEF Glued, Readable
    <2> QED
        BY <2>1, <2>2
<1>9. ASSUME NEW h \in Hours, NEW x \in Readable(shards'[h])
      PROVE  x \in Readable(shards[h]) \/ (h = Target /\ x \in Readable(part))
    BY <1>5, <1>6, <1>7, Zenon
<1>10. EventsTypeOK'
    <2>1. hot' \in Seq(Int) /\ Readable(hot') \subseteq DOMAIN at
        BY <1>2, <1>7
    <2>2. \A h \in Hours : Readable(shards'[h]) \subseteq DOMAIN at
        BY <1>2, <1>9, Zenon
    <2>3. late' \cup cut' \cup lost'[1] \subseteq DOMAIN at
        <3>1. cut' \subseteq DOMAIN at
            BY <1>2, Zenon
        <3>2. lost'[1] \subseteq DOMAIN at
            BY <1>2, <1>8, Zenon
        <3> QED
            BY <1>2, <3>1, <3>2
    <2> QED
        BY <1>1, <1>6, <2>1, <2>2, <2>3 DEF EventsTypeOK
<1>11. HotOK'
    <2>1. CASE hot' = <<>>
        BY <1>7, <2>1 DEF HotOK
    <2>2. CASE hot' = hot
        <3>1. HotHour' = HotHour
            BY <2>2 DEF HotHour
        <3> QED
            BY <2>2, <3>1 DEF EventsOK, HotOK
    <2> QED
        BY <2>1, <2>2
<1>12. ASSUME NEW e \in DOMAIN at
       PROVE  Hour(at[e]) \in Nat /\ Hour(at[e]) <= Hour(now)
    <2>1. at[e] \in 0 .. now
        BY <1>1, EventsFacts DEF EventsTypeOK
    <2> QED
        BY <1>1, <2>1, EventsFacts
<1>13. ASSUME NEW e \in DOMAIN at, NEW h \in Hours, Hour(at[e]) <= h, Expired(h)
       PROVE  Expired(Hour(at[e]))
    BY <1>1, <1>12, <1>13, EventsFacts DEF Expired
<1>14. FoundOK'
    <2>1. ASSUME NEW e \in DOMAIN at, e \notin late, e \notin lost'[1]
          PROVE  \/ e \in Readable(hot')
                 \/ \E h \in Hours : Hour(at[e]) <= h /\ e \in Readable(shards'[h])
                 \/ Expired(Hour(at[e]))
        <3>1. CASE e \in Readable(hot) /\ hot' # hot
            <4>1. part = hot /\ e \in Readable(g)
                BY <1>5, <2>1, <3>1
            <4>2. Hour(at[e]) <= Target
                <5>1. CASE HotHour = {}
                    <6>1. Target = Hour(now)
                        BY <1>1, <5>1, HotHourFacts
                    <6> QED
                        BY <1>12, <6>1
                <5>2. CASE HotHour # {}
                    <6>1. Target \in HotHour
                        BY <1>1, <5>2, HotHourFacts
                    <6> QED
                        BY <2>1, <3>1, <6>1 DEF EventsOK, HotOK
                <5> QED
                    BY <5>1, <5>2
            <4>3. CASE Expired(Target)
                BY <1>3, <1>13, <4>2, <4>3
            <4>4. CASE ~Expired(Target)
                <5>1. shards'[Target] = g
                    BY <1>3, <1>6, <4>4
                <5> QED
                    BY <1>3, <4>1, <4>2, <5>1
            <4> QED
                BY <4>3, <4>4
        <3>2. CASE e \in Readable(hot) /\ hot' = hot
            BY <3>2
        <3>3. CASE \E h \in Hours : Hour(at[e]) <= h /\ e \in Readable(shards[h])
            <4>1. PICK h \in Hours : Hour(at[e]) <= h /\ e \in Readable(shards[h])
                BY <3>3
            <4>2. CASE Expired(h)
                BY <1>13, <4>1, <4>2
            <4>3. CASE ~Expired(h)
                <5>1. e \in Readable(shards'[h])
                    BY <1>5, <1>6, <4>1, <4>3
                <5> QED
                    BY <4>1, <5>1
            <4> QED
                BY <4>2, <4>3
        <3>4. CASE Expired(Hour(at[e]))
            BY <3>4
        <3>5. e \in DOMAIN at \ (late \cup lost[1])
            BY <2>1
        <3> QED
            BY <3>1, <3>2, <3>3, <3>4, <3>5 DEF EventsOK, FoundOK
    <2> QED
        BY <2>1 DEF FoundOK, Expired
<1>15. OnceOK'
    <2>1. ASSUME NEW x \in DOMAIN at, x \notin cut'
          PROVE  OnceIn(hot', x)
        BY <1>7, <2>1 DEF EventsOK, OnceOK
    <2>2. ASSUME NEW x \in DOMAIN at, x \notin cut', x \in Readable(part)
          PROVE  hot' = <<>> /\ x \in Readable(hot) /\ x \notin cut
        BY <1>7, <2>2
    <2>3. ASSUME NEW x \in DOMAIN at, x \notin cut'
          PROVE  OnceIn(g, x)
        <3>1. x \notin {Torn, Garbled} /\ x \notin cut
            BY <1>1, <2>3, EventsFacts DEF Torn, Garbled
        <3>2. OnceIn(shards[Target], x)
            BY <1>3, <3>1 DEF EventsOK, OnceOK
        <3>3. CASE x \in Readable(part)
            <4>1. hot' = <<>> /\ x \in Readable(hot)
                BY <2>2, <2>3, <3>3
            <4>2. x \notin Readable(shards[Target])
                BY <1>3, <3>1, <4>1 DEF EventsOK, OnceOK
            <4>3. part = hot
                BY <2>3, <3>3, <4>1, <1>7
            <4>4. OnceIn(part, x)
                BY <3>1, <4>3 DEF EventsOK, OnceOK
            <4> QED
                BY <1>3, <1>4, <3>1, <3>2, <4>2, <4>4, JoinedOnce
        <3>4. CASE x \notin Readable(part)
            <4>1. OnceIn(part, x)
                BY <3>1, <3>4 DEF OnceIn, Readable
            <4> QED
                BY <1>3, <1>4, <3>1, <3>2, <3>4, <4>1, JoinedOnce
        <3> QED
            BY <3>3, <3>4
    <2>4. ASSUME NEW x \in DOMAIN at, x \notin cut', NEW h \in Hours
          PROVE  OnceIn(shards'[h], x)
        <3>1. OnceIn(shards[h], x)
            BY <2>4 DEF EventsOK, OnceOK
        <3> QED
            BY <1>6, <1>7, <2>3, <2>4, <3>1
    <2>5. ASSUME NEW x \in DOMAIN at, x \notin cut', NEW h \in Hours, x \in Readable(shards'[h])
          PROVE  x \notin Readable(hot') /\ \A k \in Hours : x \in Readable(shards'[k]) => k = h
        <3>1. /\ OnceIn(hot, x)
              /\ \A k \in Hours :
                    x \in Readable(shards[k]) =>
                        x \notin Readable(hot) /\ \A j \in Hours : x \in Readable(shards[j]) => j = k
            <4>1. x \notin cut
                BY <2>5, Zenon
            <4> QED
                BY <4>1 DEF EventsOK, OnceOK
        <3>2. CASE x \in Readable(part)
            <4>1. hot' = <<>> /\ x \in Readable(hot)
                BY <2>2, <2>5, <3>2
            <4>2. \A k \in Hours : x \notin Readable(shards[k])
                BY <3>1, <4>1
            <4>3. \A k \in Hours : x \in Readable(shards'[k]) => k = Target
                BY <1>9, <4>2
            <4> QED
                BY <1>7, <2>5, <4>1, <4>3
        <3>3. CASE x \notin Readable(part)
            <4>1. \A k \in Hours : x \in Readable(shards'[k]) => x \in Readable(shards[k])
                BY <1>9, <3>3
            <4>2. x \notin Readable(hot) /\ \A k \in Hours : x \in Readable(shards[k]) => k = h
                BY <2>5, <3>1, <4>1
            <4> QED
                BY <1>7, <4>1, <4>2
        <3> QED
            BY <3>2, <3>3
    <2> QED
        BY <2>1, <2>4, <2>5 DEF OnceOK
<1> QED
    BY <1>10, <1>11, <1>14, <1>15 DEF EventsOK

LEMMA RotateKeeps ==
    ASSUME EventsOK, Rotate
    PROVE  EventsOK'
<1>1. UNCHANGED <<now, at, late>>
    BY DEF Rotate
<1>2. EventsTypeOK
    BY DEF EventsOK
<1>3. hot \in Seq(Int) /\ shards \in [Hours -> Seq(Int)] /\ Target \in Hours
    BY <1>2, HotHourFacts DEF EventsTypeOK
<1>4. shards[Target] \in Seq(Int)
    BY <1>3
<1>5. <<>> \in Seq(Int) /\ Readable(<<>>) \subseteq Readable(hot)
    BY DEF Readable
<1>6. Glued(shards[Target], <<>>) = {}
    BY DEF Glued
<1>7. CASE /\ shards' = Pruned(shards)
           /\ UNCHANGED <<hot, cut, lost>>
    <2>1. Joined(shards[Target], <<>>) = shards[Target]
        <3>1. Joined(shards[Target], <<>>) = shards[Target] \o <<>>
            BY DEF Joined
        <3> QED
            BY <1>4, <3>1, ConcatEmptySeq
    <2>2. Filed(<<>>) = shards
        BY <1>3, <2>1 DEF Filed
    <2>3. shards' = Pruned(Filed(<<>>))
        BY <1>7, <2>2
    <2>4. lost'[1] = lost[1] \cup Glued(shards[Target], <<>>) /\ hot' = hot /\ cut' = cut
        BY <1>6, <1>7
    <2> QED
        BY <1>1, <1>5, <2>3, <2>4, RotateEvents
<1>8. CASE /\ shards' = Pruned(Filed(hot))
           /\ hot' = Emptied
           /\ Loses(Glued(shards[Target], hot), {})
           /\ UNCHANGED cut
    <2>1. hot' = <<>> /\ lost'[1] = lost[1] \cup Glued(shards[Target], hot) /\ cut' = cut
        BY <1>8 DEF Emptied, Loses
    <2> QED
        BY <1>1, <1>3, <1>8, <2>1, RotateEvents
<1>9. CASE /\ \E part \in IF shards[Target] = <<>> THEN {<<>>} ELSE Cuts(hot) :
                 /\ shards' = Pruned(Filed(part))
                 /\ Loses(Glued(shards[Target], part), {})
           /\ cut' = cut \cup Readable(hot)
           /\ UNCHANGED hot
    <2>1. PICK part \in IF shards[Target] = <<>> THEN {<<>>} ELSE Cuts(hot) :
                 /\ shards' = Pruned(Filed(part))
                 /\ lost'[1] = lost[1] \cup Glued(shards[Target], part)
        BY <1>9 DEF Loses
    <2>2. part = <<>> \/ part \in Cuts(hot)
        OBVIOUS
    <2>3. part \in Seq(Int) /\ Readable(part) \subseteq Readable(hot)
        BY <1>3, <1>5, <2>2, CutLines
    <2>4. hot' = hot /\ cut \subseteq cut' /\ cut' \subseteq cut \cup Readable(hot) /\ Readable(hot) \subseteq cut'
        BY <1>9, Zenon
    <2> QED
        BY <1>1, <2>1, <2>3, <2>4, RotateEvents
<1> QED
    BY <1>7, <1>8, <1>9 DEF Rotate

\* Where a query finds an event.
LEMMA ToldPlaces ==
    ASSUME NEW e \in DOMAIN at, NEW since \in 0 .. at[e], at[e] \in Nat
    PROVE  /\ \A i \in DOMAIN hot : hot[i] = e => <<-1, i>> \in Told(e, since)
           /\ \A h \in Hours : \A i \in DOMAIN shards[h] :
                 Candidate(h, since) /\ shards[h][i] = e => <<h, i>> \in Told(e, since)
           /\ \A z \in Told(e, since) :
                 \/ \E i \in DOMAIN hot : hot[i] = e /\ z = <<-1, i>>
                 \/ \E h \in Hours : \E i \in DOMAIN shards[h] : shards[h][i] = e /\ z = <<h, i>>
<1> DEFINE In(text) == {i \in DOMAIN text : text[i] = e}
<1>1. ~(at[e] < since)
    OBVIOUS
<1>2. Told(e, since) = ({-1} \X In(hot))
                       \cup UNION {{h} \X In(shards[h]) : h \in {k \in Hours : Candidate(k, since)}}
    BY <1>1 DEF Told
<1> QED
    BY <1>2

LEMMA EventsAreThere == EventsOK => EventsAreFoundOnce
<1> SUFFICES ASSUME EventsOK, NEW e \in DOMAIN at, e \notin late, e \notin lost[1],
                    now - at[e] < Retention, NEW since \in 0 .. at[e]
             PROVE  /\ Told(e, since) # {}
                    /\ e \notin cut => Cardinality(Told(e, since)) = 1
    BY DEF EventsAreFoundOnce
<1>1. EventsTypeOK
    BY DEF EventsOK
<1>2. /\ now \in Nat /\ Retention \in Nat /\ at[e] \in Nat /\ (\A h \in Hours : h \in Nat)
      /\ Hour(at[e]) \in Nat /\ 2 * Hour(at[e]) <= at[e] /\ at[e] <= 2 * Hour(at[e]) + 1
    BY <1>1, EventsFacts, HourFacts
<1>3. ~Expired(Hour(at[e]))
    BY <1>2 DEF Expired
<1>4. e \notin {Torn, Garbled}
    BY <1>1, EventsFacts DEF Torn, Garbled
<1>5. Told(e, since) # {}
    <2>1. CASE e \in Readable(hot)
        <3>1. PICK i \in DOMAIN hot : hot[i] = e
            BY <2>1 DEF Readable
        <3> QED
            BY <1>2, <3>1, ToldPlaces
    <2>2. CASE \E h \in Hours : Hour(at[e]) <= h /\ e \in Readable(shards[h])
        <3>1. PICK h \in Hours : Hour(at[e]) <= h /\ e \in Readable(shards[h])
            BY <2>2
        <3>2. PICK i \in DOMAIN shards[h] : shards[h][i] = e
            BY <3>1 DEF Readable
        <3>3. h \in Nat /\ Candidate(h, since)
            BY <1>2, <3>1 DEF Candidate
        <3> QED
            BY <1>2, <3>2, <3>3, ToldPlaces
    <2> QED
        BY <1>3, <2>1, <2>2 DEF EventsOK, FoundOK
<1>6. ASSUME e \notin cut
      PROVE  Cardinality(Told(e, since)) = 1
    <2>1. /\ OnceIn(hot, e)
          /\ \A h \in Hours :
                /\ OnceIn(shards[h], e)
                /\ e \in Readable(shards[h]) =>
                      /\ e \notin Readable(hot)
                      /\ \A k \in Hours : e \in Readable(shards[k]) => k = h
        BY <1>6 DEF EventsOK, OnceOK
    <2>2. ASSUME NEW y \in Told(e, since), NEW z \in Told(e, since)
          PROVE  y = z
        <3>1. \/ \E i \in DOMAIN hot : hot[i] = e /\ y = <<-1, i>>
              \/ \E h \in Hours : \E i \in DOMAIN shards[h] : shards[h][i] = e /\ y = <<h, i>>
            BY <1>2, ToldPlaces
        <3>2. \/ \E i \in DOMAIN hot : hot[i] = e /\ z = <<-1, i>>
              \/ \E h \in Hours : \E i \in DOMAIN shards[h] : shards[h][i] = e /\ z = <<h, i>>
            BY <1>2, ToldPlaces
        <3>3. CASE e \in Readable(hot)
            <4>1. \A h \in Hours : \A i \in DOMAIN shards[h] : shards[h][i] # e
                BY <1>4, <2>1, <3>3 DEF Readable
            <4> QED
                BY <2>1, <3>1, <3>2, <4>1 DEF OnceIn
        <3>4. CASE e \notin Readable(hot)
            <4>1. \A i \in DOMAIN hot : hot[i] # e
                BY <1>4, <3>4 DEF Readable
            <4>2. PICK h \in Hours : \E i \in DOMAIN shards[h] : shards[h][i] = e /\ y = <<h, i>>
                BY <3>1, <4>1
            <4>3. PICK i \in DOMAIN shards[h] : shards[h][i] = e /\ y = <<h, i>>
                BY <4>2
            <4>4. PICK k \in Hours : \E j \in DOMAIN shards[k] : shards[k][j] = e /\ z = <<k, j>>
                BY <3>2, <4>1
            <4>5. PICK j \in DOMAIN shards[k] : shards[k][j] = e /\ z = <<k, j>>
                BY <4>4
            <4>6. e \in Readable(shards[h]) /\ e \in Readable(shards[k])
                BY <1>4, <4>3, <4>5 DEF Readable
            <4>7. h = k
                BY <2>1, <4>6
            <4>8. i = j
                BY <2>1, <4>3, <4>5, <4>7 DEF OnceIn
            <4> QED
                BY <4>3, <4>5, <4>7, <4>8
        <3> QED
            BY <3>3, <3>4
    <2>3. PICK y : y \in Told(e, since)
        BY <1>5
    <2>4. Told(e, since) = {y}
        BY <2>2, <2>3
    <2> QED
        BY <2>4, FS_Singleton
<1> QED
    BY <1>5, <1>6

-----------------------------------------------------------------------------
(***************************************************************************)
(* The inductive invariant of the transcript.                               *)
(***************************************************************************)
\* A turn logged is in the log once, or in an archive, and only an unlink that failed
\* leaves it in both.
KeptOK ==
    \A t \in DOMAIN ran :
        /\ OnceIn(log, t)
        /\ t \notin lost[2] => t \in Readable(log) \/ \E name \in DOMAIN archives : t \in archives[name]
        /\ t \notin twice =>
              \A name \in DOMAIN archives : t \in archives[name] =>
                  /\ t \notin Readable(log)
                  /\ \A other \in DOMAIN archives : t \in archives[other] => other = name

\* The session of a turn in an archive is over: nothing of it is logged, nor runs.
OverOK ==
    \A name \in DOMAIN archives : \A t \in archives[name] \ twice :
        ran[t] \notin straddled =>
            /\ ran[t] < session /\ turn # ran[t]
            /\ \A u \in Readable(log) \ twice : ran[u] # ran[t]

TalkOK == TalkTypeOK /\ KeptOK /\ OverOK /\ SessionsAreNotSplit

LEMMA TalkFacts ==
    ASSUME TalkTypeOK
    PROVE  /\ Len(ran) \in Nat /\ DOMAIN ran = 1 .. Len(ran)
           /\ session \in Nat /\ turn \in Nat /\ turn <= session
           /\ \A t \in DOMAIN ran : t \notin {Torn, Garbled} /\ ran[t] \in Nat /\ 1 <= ran[t] /\ ran[t] <= session
<1>1. Len(ran) \in Nat /\ DOMAIN ran = 1 .. Len(ran)
    BY LenProperties DEF TalkTypeOK
<1>2. session \in Nat /\ turn \in Nat /\ turn <= session
    BY DEF TalkTypeOK
<1>3. ASSUME NEW t \in DOMAIN ran
      PROVE  ran[t] \in Nat /\ 1 <= ran[t] /\ ran[t] <= session
    <2>1. ran[t] \in 1 .. session
        BY DEF TalkTypeOK
    <2> QED
        BY <1>2, <2>1
<1>4. \A t \in 1 .. Len(ran) : t \notin {Torn, Garbled}
    BY <1>1 DEF Torn, Garbled
<1> QED
    BY <1>1, <1>2, <1>3, <1>4

\* Whatever does not log a turn and archives none: the log may lose what counts as lost,
\* sessions only begin, and a turn that begins belongs to the last.
LEMMA TalkGoesOn ==
    ASSUME TalkOK, UNCHANGED <<archives, ran, twice>>,
           log' \in Seq(Int), Readable(log') \subseteq Readable(log),
           Readable(log) \ lost'[2] \subseteq Readable(log'), \A t \in DOMAIN ran : OnceIn(log', t),
           lost[2] \subseteq lost'[2], lost'[2] \subseteq DOMAIN ran,
           session' \in Nat, session <= session', turn' \in 0 .. session',
           straddled \subseteq straddled', straddled' \subseteq 1 .. session',
           \A s \in 1 .. session : s < session /\ turn # s /\ s \notin straddled' => turn' # s
    PROVE  TalkOK'
<1>1. TalkTypeOK
    BY DEF TalkOK
<1>2. session \in Nat \ {0}
    BY <1>1 DEF TalkTypeOK
<1>3. ASSUME NEW t \in DOMAIN ran
      PROVE  ran[t] \in 1 .. session'
    BY <1>1, <1>2, TalkFacts
<1>4. \A name \in DOMAIN archives : archives[name] \subseteq DOMAIN ran
    BY <1>1 DEF TalkTypeOK
<1>5. TalkTypeOK'
    <2>1. session' \in Nat \ {0}
        BY <1>2
    <2>2. Readable(log') \subseteq DOMAIN ran /\ twice \cup lost'[2] \subseteq DOMAIN ran
        BY <1>1 DEF TalkTypeOK
    <2> QED
        BY <1>1, <1>3, <2>1, <2>2 DEF TalkTypeOK
<1>6. KeptOK'
    BY DEF TalkOK, KeptOK
<1>7. OverOK'
    <2>1. ASSUME NEW name \in DOMAIN archives, NEW t \in archives[name], t \notin twice, ran[t] \notin straddled'
          PROVE  /\ ran[t] < session' /\ turn' # ran[t]
                 /\ \A u \in Readable(log') \ twice : ran[u] # ran[t]
        <3>1. /\ ran[t] < session /\ turn # ran[t]
              /\ \A u \in Readable(log) \ twice : ran[u] # ran[t]
            BY <2>1 DEF TalkOK, OverOK
        <3>2. ran[t] \in 1 .. session /\ ran[t] \in Nat
            BY <1>1, <1>4, TalkFacts
        <3>3. turn' # ran[t]
            BY <2>1, <3>1, <3>2
        <3>4. ran[t] < session'
            BY <1>2, <3>1, <3>2
        <3> QED
            BY <3>1, <3>3, <3>4
    <2> QED
        BY <2>1 DEF OverOK
<1>8. SessionsAreNotSplit'
    <2>1. archives' = archives /\ ran' = ran /\ twice' = twice
        OBVIOUS
    <2>2. ASSUME NEW a \in DOMAIN archives, NEW b \in DOMAIN archives, a # b,
                 NEW t \in archives[a], NEW u \in archives[b], ran[t] = ran[u]
          PROVE  ran[t] \in straddled' \/ {t, u} \cap twice # {}
        <3>1. ran[t] \in straddled \/ {t, u} \cap twice # {}
            BY <2>2 DEF TalkOK, SessionsAreNotSplit
        <3> QED
            BY <3>1, Zenon
    <2> QED
        BY <2>1, <2>2 DEF SessionsAreNotSplit
<1> QED
    BY <1>5, <1>6, <1>7, <1>8 DEF TalkOK

\* An answer is logged.
LEMMA TalkLogged ==
    ASSUME TalkOK, turn # 0, turn' = 0, ran' = Append(ran, turn),
           log' = Joined(log, <<Len(ran')>>), lost'[2] = lost[2] \cup Glued(log, <<Len(ran')>>),
           UNCHANGED <<session, archives, twice, straddled>>
    PROVE  TalkOK'
<1>1. TalkTypeOK
    BY DEF TalkOK
<1>2. /\ log \in Seq(Int) /\ Readable(log) \subseteq DOMAIN ran /\ ran \in Seq(Nat) /\ turn \in 1 .. session
      /\ session \in Nat \ {0} /\ twice \subseteq DOMAIN ran /\ lost[2] \subseteq DOMAIN ran
      /\ \A name \in DOMAIN archives : archives[name] \subseteq DOMAIN ran
    BY <1>1 DEF TalkTypeOK
<1>3. PICK n \in Nat \ {0} : n = Len(ran) + 1
    BY <1>1, TalkFacts
<1>4. /\ ran' \in Seq(Nat) /\ Len(ran') = n /\ DOMAIN ran' = DOMAIN ran \cup {n} /\ n \notin DOMAIN ran
      /\ ran'[n] = turn /\ \A t \in DOMAIN ran : ran'[t] = ran[t]
    <2>1. turn \in Nat /\ Len(ran) \in Nat /\ DOMAIN ran = 1 .. Len(ran)
        BY <1>1, TalkFacts
    <2>2. /\ ran' \in Seq(Nat) /\ Len(ran') = Len(ran) + 1
          /\ \A i \in 1 .. Len(ran) : ran'[i] = ran[i]
          /\ ran'[Len(ran) + 1] = turn
        BY <1>2, <2>1, AppendProperties
    <2>3. DOMAIN ran' = 1 .. Len(ran')
        BY <2>2, LenProperties
    <2> QED
        BY <1>3, <2>1, <2>2, <2>3
<1>5. n \in Int /\ n \notin {Torn, Garbled}
    BY DEF Torn, Garbled
<1>6. <<n>> \in Seq(Int) /\ Readable(<<n>>) = {n} /\ \A t : OnceIn(<<n>>, t)
    BY <1>5, OneLine
<1>7. log' = Joined(log, <<n>>) /\ lost'[2] = lost[2] \cup Glued(log, <<n>>)
    BY <1>4
<1>8. /\ log' \in Seq(Int) /\ Readable(log) \subseteq Readable(log')
      /\ Readable(log') \subseteq Readable(log) \cup {n}
      /\ n \in Readable(log') \/ n \in lost'[2]
    BY <1>2, <1>6, <1>7, JoinedReadable
<1>9. lost'[2] \subseteq lost[2] \cup {n} /\ lost[2] \subseteq lost'[2]
    BY <1>6, <1>7 DEF Glued
<1>10. TalkTypeOK'
    <2>1. \A t \in DOMAIN ran' : ran'[t] \in 1 .. session
        BY <1>1, <1>2, <1>4 DEF TalkTypeOK
    <2>2. Readable(log') \subseteq DOMAIN ran' /\ twice \subseteq DOMAIN ran'
        BY <1>2, <1>4, <1>8, Zenon
    <2>3. lost'[2] \subseteq DOMAIN ran'
        BY <1>2, <1>4, <1>9, Zenon
    <2>4. \A name \in DOMAIN archives : archives[name] \subseteq DOMAIN ran'
        BY <1>2, <1>4, Zenon
    <2>5. IsFiniteSet(DOMAIN archives) /\ straddled \subseteq 1 .. session /\ 0 \in 0 .. session
        BY <1>1, <1>2 DEF TalkTypeOK
    <2>6. twice \cup lost'[2] \subseteq DOMAIN ran'
        BY <2>2, <2>3, Zenon
    <2> QED
        BY <1>2, <1>4, <1>8, <2>1, <2>2, <2>4, <2>5, <2>6 DEF TalkTypeOK
<1>11. KeptOK'
    <2>1. ASSUME NEW t \in DOMAIN ran
          PROVE  /\ OnceIn(log', t)
                 /\ t \notin lost'[2] => t \in Readable(log') \/ \E name \in DOMAIN archives : t \in archives[name]
                 /\ t \notin twice =>
                       \A name \in DOMAIN archives : t \in archives[name] =>
                           /\ t \notin Readable(log')
                           /\ \A other \in DOMAIN archives : t \in archives[other] => other = name
        <3>1. t \notin {Torn, Garbled} /\ t # n
            BY <1>1, <1>4, TalkFacts
        <3>2. /\ OnceIn(log, t)
              /\ t \notin lost[2] => t \in Readable(log) \/ \E name \in DOMAIN archives : t \in archives[name]
              /\ t \notin twice =>
                    \A name \in DOMAIN archives : t \in archives[name] =>
                        /\ t \notin Readable(log)
                        /\ \A other \in DOMAIN archives : t \in archives[other] => other = name
            BY DEF TalkOK, KeptOK
        <3>3. t \notin Readable(<<n>>)
            BY <1>6, <3>1
        <3>4. OnceIn(log', t)
            BY <1>2, <1>6, <1>7, <3>1, <3>2, <3>3, JoinedOnce
        <3>5. t \in Readable(log') <=> t \in Readable(log)
            BY <1>8, <3>1, Zenon
        <3>6. t \notin lost'[2] => t \notin lost[2]
            BY <1>9, Zenon
        <3> QED
            BY <3>2, <3>4, <3>5, <3>6
    <2>2. OnceIn(log', n)
        <3>1. n \notin Readable(log)
            BY <1>2, <1>4
        <3>2. OnceIn(log, n)
            BY <1>5, <3>1 DEF OnceIn, Readable
        <3> QED
            BY <1>2, <1>5, <1>6, <1>7, <3>1, <3>2, JoinedOnce
    <2>3. n \notin lost'[2] => n \in Readable(log')
        BY <1>8
    <2>4. \A name \in DOMAIN archives : n \notin archives[name]
        BY <1>2, <1>4
    <2> QED
        BY <1>4, <2>1, <2>2, <2>3, <2>4 DEF KeptOK
<1>12. OverOK'
    <2>1. ASSUME NEW name \in DOMAIN archives, NEW t \in archives[name], t \notin twice, ran[t] \notin straddled
          PROVE  /\ ran[t] < session /\ 0 # ran[t]
                 /\ \A u \in Readable(log') \ twice : ran'[u] # ran[t]
        <3>1. /\ ran[t] < session /\ turn # ran[t]
              /\ \A u \in Readable(log) \ twice : ran[u] # ran[t]
            BY <2>1 DEF TalkOK, OverOK
        <3>2. 0 # ran[t]
            <4>1. t \in DOMAIN ran
                BY <1>2
            <4> QED
                BY <1>1, <4>1, TalkFacts
        <3>3. ASSUME NEW u \in Readable(log'), u \notin twice
              PROVE  ran'[u] # ran[t]
            <4>1. CASE u = n
                BY <1>4, <3>1, <4>1
            <4>2. CASE u # n
                <5>1. u \in Readable(log) /\ u \in DOMAIN ran
                    BY <1>2, <1>8, <4>2, Zenon
                <5> QED
                    BY <1>4, <3>1, <3>3, <5>1
            <4> QED
                BY <4>1, <4>2
        <3> QED
            BY <3>1, <3>2, <3>3
    <2>2. \A name \in DOMAIN archives : \A t \in archives[name] : ran'[t] = ran[t]
        BY <1>2, <1>4
    <2>3. archives' = archives /\ twice' = twice /\ straddled' = straddled /\ session' = session /\ turn' = 0
        OBVIOUS
    <2>4. ASSUME NEW name \in DOMAIN archives', NEW t \in archives'[name] \ twice', ran'[t] \notin straddled'
          PROVE  /\ ran'[t] < session' /\ turn' # ran'[t]
                 /\ \A u \in Readable(log') \ twice' : ran'[u] # ran'[t]
        <3>1. name \in DOMAIN archives /\ t \in archives[name] /\ t \notin twice
            BY <2>3, <2>4, Zenon
        <3>2. ran'[t] = ran[t] /\ ran[t] \notin straddled
            BY <2>2, <2>3, <2>4, <3>1
        <3>3. /\ ran[t] < session /\ 0 # ran[t]
              /\ \A u \in Readable(log') \ twice : ran'[u] # ran[t]
            BY <2>1, <3>1, <3>2
        <3> QED
            BY <2>3, <3>2, <3>3
    <2> QED
        BY <2>4 DEF OverOK
<1>13. SessionsAreNotSplit'
    <2>1. \A name \in DOMAIN archives : \A t \in archives[name] : ran'[t] = ran[t]
        BY <1>2, <1>4
    <2>2. archives' = archives /\ twice' = twice /\ straddled' = straddled
        OBVIOUS
    <2>3. ASSUME NEW a \in DOMAIN archives', NEW b \in DOMAIN archives',
                 NEW t \in archives'[a], NEW u \in archives'[b]
          PROVE  a # b /\ ran'[t] = ran'[u] => ran'[t] \in straddled' \/ {t, u} \cap twice' # {}
        <3>1. /\ a \in DOMAIN archives /\ b \in DOMAIN archives
              /\ t \in archives[a] /\ u \in archives[b]
            BY <2>2, <2>3, Zenon
        <3>2. ran'[t] = ran[t] /\ ran'[u] = ran[u]
            BY <2>1, <3>1
        <3>3. a # b /\ ran[t] = ran[u] => ran[t] \in straddled \/ {t, u} \cap twice # {}
            BY <3>1 DEF TalkOK, SessionsAreNotSplit
        <3> QED
            BY <2>2, <3>2, <3>3
    <2> QED
        BY <2>3, Zenon DEF SessionsAreNotSplit
<1> QED
    BY <1>10, <1>11, <1>12, <1>13 DEF TalkOK

\* One of the names that archive_and_clear tries is free: there are more of them than archives.
LEMMA FreeNameIsFree ==
    ASSUME IsFiniteSet(DOMAIN archives)
    PROVE  FreeName \notin DOMAIN archives
<1>1. PICK n \in Nat : n = Cardinality(DOMAIN archives)
    BY FS_CardinalityType
<1>2. PICK S : S = {k \in 0 .. n : <<now, k>> \notin DOMAIN archives}
    OBVIOUS
<1>3. S # {}
    <2>1. ASSUME \A k \in 0 .. n : <<now, k>> \in DOMAIN archives
          PROVE  FALSE
        <3>1. IsFiniteSet(0 .. n) /\ Cardinality(0 .. n) = n + 1
            BY FS_Interval
        <3>2. PICK f : f = [k \in 0 .. n |-> <<now, k>>]
            OBVIOUS
        <3>3. f \in [0 .. n -> DOMAIN archives]
            BY <2>1, <3>2
        <3>4. Cardinality(DOMAIN archives) < Cardinality(0 .. n)
            BY <1>1, <3>1
        <3>5. PICK x, y \in 0 .. n : x # y /\ f[x] = f[y]
            BY <3>1, <3>3, <3>4, FS_PigeonHole
        <3> QED
            BY <3>2, <3>5
    <2> QED
        BY <1>2, <2>1
<1>4. PICK k \in S : \A j \in S : k <= j
    <2>1. S \subseteq Nat
        BY <1>2
    <2>2. PICK x \in S : \A y \in S : ~ (<<y, x>> \in OpToRel(<, Nat))
        BY <1>3, <2>1, NatLessThanWellFounded, WFMin, Zenon
    <2>3. \A y \in S : x \in Nat /\ y \in Nat /\ ~ (y < x)
        BY <2>1, <2>2 DEF OpToRel
    <2> QED
        BY <2>3
<1>5. k \in 0 .. n /\ <<now, k>> \notin DOMAIN archives
    BY <1>2
<1>6. \A j \in 0 .. k - 1 : <<now, j>> \in DOMAIN archives
    <2>1. ASSUME NEW j \in 0 .. k - 1, <<now, j>> \notin DOMAIN archives
          PROVE  FALSE
        <3>1. j \in S
            BY <1>2, <1>5, <2>1
        <3> QED
            BY <1>4, <1>5, <3>1
    <2> QED
        BY <2>1
<1>7. \E name \in {now} \X (0 .. Cardinality(DOMAIN archives)) :
          /\ name \notin DOMAIN archives
          /\ \A j \in 0 .. name[2] - 1 : <<now, j>> \in DOMAIN archives
    <2>1. <<now, k>> \in {now} \X (0 .. Cardinality(DOMAIN archives)) /\ <<now, k>>[2] = k
        BY <1>1, <1>5
    <2> QED
        BY <1>5, <1>6, <2>1
<1> QED
    BY <1>7 DEF FreeName

LEMMA ArchiveFacts ==
    ASSUME TalkTypeOK, Archived
    PROVE  /\ FreeName \notin DOMAIN archives
           /\ DOMAIN archives' = DOMAIN archives \cup {FreeName} /\ IsFiniteSet(DOMAIN archives')
           /\ archives'[FreeName] = Readable(log)
           /\ \A name \in DOMAIN archives : archives'[name] = archives[name]
<1>1. IsFiniteSet(DOMAIN archives)
    BY DEF TalkTypeOK
<1>2. PICK free : free = FreeName /\ free \notin DOMAIN archives
    BY <1>1, FreeNameIsFree
<1>3. IsFiniteSet(DOMAIN archives \cup {free})
    BY <1>1, FS_AddElement
<1>4. archives' = [name \in DOMAIN archives \cup {free} |->
                      IF name = free THEN Readable(log) ELSE archives[name]]
    BY <1>2 DEF Archived
<1> QED
    BY <1>2, <1>3, <1>4

\* The log is archived, and removed or not.
LEMMA TalkArchived ==
    ASSUME TalkOK, Archived, ran' = ran, lost'[2] = lost[2],
           \/ log' = <<>> /\ twice' = twice
           \/ log' = log /\ twice' = twice \cup Readable(log),
           session' \in Nat, session <= session', turn' \in 0 .. session',
           straddled \subseteq straddled', straddled' \subseteq 1 .. session',
           \A s \in 1 .. session : s \notin straddled' => s < session' /\ turn' # s
    PROVE  TalkOK'
<1>1. TalkTypeOK
    BY DEF TalkOK
<1>2. PICK free :
          /\ free \notin DOMAIN archives
          /\ DOMAIN archives' = DOMAIN archives \cup {free} /\ IsFiniteSet(DOMAIN archives')
          /\ archives'[free] = Readable(log)
          /\ \A name \in DOMAIN archives : archives'[name] = archives[name]
    BY <1>1, ArchiveFacts
<1>3. /\ log \in Seq(Int) /\ Readable(log) \subseteq DOMAIN ran
      /\ twice \subseteq DOMAIN ran /\ lost[2] \subseteq DOMAIN ran
      /\ \A name \in DOMAIN archives : archives[name] \subseteq DOMAIN ran
    BY <1>1 DEF TalkTypeOK
<1>4. Readable(<<>>) = {} /\ (\A x : OnceIn(<<>>, x)) /\ <<>> \in Seq(Int)
    BY DEF Readable, OnceIn
<1>5. \A name \in DOMAIN archives' : archives'[name] \subseteq DOMAIN ran
    BY <1>2, <1>3
<1>6. twice \subseteq twice' /\ twice' \subseteq DOMAIN ran /\ Readable(log') \subseteq twice'
    <2>1. CASE log' = <<>> /\ twice' = twice
        BY <1>3, <1>4, <2>1
    <2>2. CASE log' = log /\ twice' = twice \cup Readable(log)
        <3>1. twice' \subseteq DOMAIN ran
            BY <1>3, <2>2, Zenon
        <3> QED
            BY <2>2, <3>1
    <2> QED
        BY <2>1, <2>2
<1>7. \A t \in DOMAIN ran : ran[t] \in 1 .. session /\ ran[t] \in 1 .. session'
    <2>1. ASSUME NEW t \in DOMAIN ran
          PROVE  ran[t] \in 1 .. session /\ ran[t] \in 1 .. session'
        BY <1>1, TalkFacts
    <2> QED
        BY <2>1
<1>8. TalkTypeOK'
    <2>1. log' \in Seq(Int) /\ Readable(log') \subseteq DOMAIN ran
        BY <1>3, <1>4
    <2>2. session' \in Nat \ {0}
        BY <1>1 DEF TalkTypeOK
    <2>3. twice' \cup lost'[2] \subseteq DOMAIN ran
        BY <1>3, <1>6
    <2> QED
        BY <1>1, <1>2, <1>5, <1>7, <2>1, <2>2, <2>3 DEF TalkTypeOK
<1>9. ASSUME NEW t \in DOMAIN ran
      PROVE  /\ OnceIn(log, t)
             /\ t \notin lost[2] => t \in Readable(log) \/ \E name \in DOMAIN archives : t \in archives[name]
             /\ t \notin twice =>
                   \A name \in DOMAIN archives : t \in archives[name] =>
                       /\ t \notin Readable(log)
                       /\ \A other \in DOMAIN archives : t \in archives[other] => other = name
    BY DEF TalkOK, KeptOK
<1>10. KeptOK'
    <2>1. ASSUME NEW t \in DOMAIN ran
          PROVE  OnceIn(log', t)
        BY <1>4, <1>9
    <2>2. ASSUME NEW t \in DOMAIN ran, t \notin lost[2]
          PROVE  \E name \in DOMAIN archives' : t \in archives'[name]
        BY <1>2, <1>9, <2>2
    <2>3. ASSUME NEW t \in DOMAIN ran, t \notin twice', NEW name \in DOMAIN archives', t \in archives'[name]
          PROVE  /\ t \notin Readable(log')
                 /\ \A other \in DOMAIN archives' : t \in archives'[other] => other = name
        <3>1. t \notin twice /\ t \notin Readable(log')
            BY <1>6, <2>3, Zenon
        <3>2. ASSUME NEW other \in DOMAIN archives', t \in archives'[other]
              PROVE  other = name
            <4>1. CASE t \in Readable(log)
                <5>1. \A old \in DOMAIN archives : t \notin archives[old]
                    BY <1>9, <3>1, <4>1
                <5> QED
                    BY <1>2, <2>3, <3>2, <5>1
            <4>2. CASE t \notin Readable(log)
                <5>1. /\ name \in DOMAIN archives /\ t \in archives[name]
                      /\ other \in DOMAIN archives /\ t \in archives[other]
                    BY <1>2, <2>3, <3>2, <4>2
                <5> QED
                    BY <1>9, <3>1, <5>1
            <4> QED
                BY <4>1, <4>2
        <3> QED
            BY <3>1, <3>2
    <2>4. DOMAIN ran' = DOMAIN ran /\ lost'[2] = lost[2]
        OBVIOUS
    <2> QED
        BY <2>1, <2>2, <2>3, <2>4 DEF KeptOK
<1>11. OverOK'
    <2>1. ASSUME NEW name \in DOMAIN archives', NEW t \in archives'[name] \ twice', ran'[t] \notin straddled'
          PROVE  /\ ran'[t] < session' /\ turn' # ran'[t]
                 /\ \A u \in Readable(log') \ twice' : ran'[u] # ran'[t]
        <3>1. ran[t] \in 1 .. session /\ ran[t] \notin straddled'
            BY <1>5, <1>7, <2>1
        <3>2. Readable(log') \ twice' = {}
            BY <1>6, Zenon
        <3> QED
            BY <3>1, <3>2
    <2> QED
        BY <2>1 DEF OverOK
<1>12. ASSUME NEW old \in DOMAIN archives, NEW u \in archives[old], NEW t \in Readable(log), ran[u] = ran[t]
       PROVE  ran[u] \in straddled' \/ u \in twice' \/ t \in twice'
    <2>1. CASE u \in twice \/ t \in twice
        BY <1>6, <2>1
    <2>2. CASE u \notin twice /\ t \notin twice
        <3>1. ran[u] \in straddled
            BY <1>12, <2>2 DEF TalkOK, OverOK
        <3> QED
            BY <3>1
    <2> QED
        BY <2>1, <2>2
<1>13. SessionsAreNotSplit'
    <2>1. ASSUME NEW a \in DOMAIN archives', NEW b \in DOMAIN archives',
                 NEW t \in archives'[a], NEW u \in archives'[b]
          PROVE  a # b /\ ran'[t] = ran'[u] => ran'[t] \in straddled' \/ {t, u} \cap twice' # {}
        <3> SUFFICES ASSUME a # b, ran[t] = ran[u]
                     PROVE  ran[t] \in straddled' \/ t \in twice' \/ u \in twice'
            OBVIOUS
        <3>1. CASE a = free
            <4>1. t \in Readable(log) /\ b \in DOMAIN archives /\ u \in archives[b]
                BY <1>2, <2>1, <3>1
            <4> QED
                BY <1>12, <4>1
        <3>2. CASE b = free
            <4>1. u \in Readable(log) /\ a \in DOMAIN archives /\ t \in archives[a]
                BY <1>2, <2>1, <3>2
            <4> QED
                BY <1>12, <4>1
        <3>3. CASE a # free /\ b # free
            <4>1. a \in DOMAIN archives /\ t \in archives[a] /\ b \in DOMAIN archives /\ u \in archives[b]
                BY <1>2, <2>1, <3>3
            <4>2. ran[t] \in straddled \/ {t, u} \cap twice # {}
                BY <4>1 DEF TalkOK, SessionsAreNotSplit
            <4>3. ran[t] \in straddled \/ t \in twice \/ u \in twice
                BY <4>2
            <4> QED
                BY <1>6, <4>3, Zenon
        <3> QED
            BY <3>1, <3>2, <3>3
    <2> QED
        BY <2>1, Zenon DEF SessionsAreNotSplit
<1> QED
    BY <1>8, <1>10, <1>11, <1>13 DEF TalkOK

LEMMA LogFacts ==
    ASSUME TalkOK
    PROVE  /\ log \in Seq(Int) /\ Readable(log) \subseteq DOMAIN ran /\ (\A t \in DOMAIN ran : OnceIn(log, t))
           /\ <<>> \in Seq(Int) /\ Readable(<<>>) = {} /\ (\A t : OnceIn(<<>>, t))
           /\ lost[2] \subseteq DOMAIN ran /\ session \in Nat \ {0} /\ turn \in 0 .. session
           /\ straddled \subseteq 1 .. session
    BY DEF TalkOK, KeptOK, TalkTypeOK, Readable, OnceIn

\* What is not about turns and sessions happens.
LEMMA TalkKept ==
    ASSUME TalkOK, UNCHANGED talk, lost'[2] = lost[2]
    PROVE  TalkOK'
<1>1. /\ session' = session /\ turn' = turn /\ log' = log /\ straddled' = straddled
      /\ UNCHANGED <<archives, ran, twice>>
    BY DEF talk
<1> QED
    BY <1>1, LogFacts, TalkGoesOn

LEMMA BeginTalk == TalkOK /\ Begin => TalkOK'
<1> SUFFICES ASSUME TalkOK, Begin
             PROVE  TalkOK'
    OBVIOUS
<1>1. /\ turn' = session /\ session' = session /\ log' = log /\ straddled' = straddled
      /\ UNCHANGED <<archives, ran, twice>> /\ lost' = lost
    BY DEF Begin
<1>2. turn' \in 0 .. session' /\ \A s \in 1 .. session : s < session => turn' # s
    BY <1>1, LogFacts
<1> QED
    BY <1>1, <1>2, LogFacts, TalkGoesOn

LEMMA AnswerTalk == TalkOK /\ Answer => TalkOK'
<1> SUFFICES ASSUME TalkOK, Answer
             PROVE  TalkOK'
    OBVIOUS
<1>1. turn # 0 /\ turn' = 0 /\ UNCHANGED <<session, archives, twice, straddled>>
    BY DEF Answer
<1>2. CASE /\ ran' = Append(ran, turn)
           /\ log' = Joined(log, <<Len(ran')>>)
           /\ Loses({}, Glued(log, <<Len(ran')>>))
    <2>1. lost'[2] = lost[2] \cup Glued(log, <<Len(ran')>>)
        BY <1>2 DEF Loses
    <2> QED
        BY <1>1, <1>2, <2>1, TalkLogged
<1>3. CASE /\ log' \in {log, Joined(log, <<Torn>>)}
           /\ UNCHANGED <<ran, lost>>
    <2>1. /\ log' \in Seq(Int) /\ Readable(log') = Readable(log)
          /\ \A t \in DOMAIN ran : OnceIn(log', t)
        <3>1. CASE log' = log
            BY <3>1, LogFacts
        <3>2. CASE log' = Joined(log, <<Torn>>)
            <4>1. Torn \in Int
                BY DEF Torn
            <4>2. <<Torn>> \in Seq(Int) /\ Readable(<<Torn>>) = {} /\ \A t : OnceIn(<<Torn>>, t)
                BY <4>1, OneLine
            <4>3. log \in Seq(Int) /\ \A t \in DOMAIN ran : OnceIn(log, t)
                BY LogFacts
            <4>4. /\ log' \in Seq(Int) /\ Readable(log) \subseteq Readable(log')
                  /\ Readable(log') \subseteq Readable(log) \cup Readable(<<Torn>>)
                BY <3>2, <4>2, <4>3, JoinedReadable
            <4>5. Readable(log') \subseteq Readable(log)
                BY <4>2, <4>4, Zenon
            <4>6. \A t \in DOMAIN ran : t \notin {Torn, Garbled}
                BY TalkFacts DEF TalkOK
            <4>7. \A t \in DOMAIN ran : OnceIn(log', t)
                BY <3>2, <4>2, <4>3, <4>6, JoinedOnce
            <4> QED
                BY <4>4, <4>5, <4>7, Zenon
        <3> QED
            BY <1>3, <3>1, <3>2
    <2>2. turn' \in 0 .. session' /\ \A s \in 1 .. session : turn' # s
        BY <1>1, LogFacts
    <2>3. session' = session /\ straddled' = straddled /\ lost' = lost /\ UNCHANGED <<archives, ran, twice>>
        BY <1>1, <1>3
    <2> QED
        BY <2>1, <2>2, <2>3, LogFacts, TalkGoesOn
<1> QED
    BY <1>2, <1>3 DEF Answer

LEMMA ResetTalk == TalkOK /\ Reset => TalkOK'
<1> SUFFICES ASSUME TalkOK, Reset
             PROVE  TalkOK'
    OBVIOUS
<1>1. /\ turn' = turn /\ session' = session + 1 /\ log' = log /\ straddled' = straddled
      /\ UNCHANGED <<archives, ran, twice>> /\ lost' = lost
    BY DEF Reset, Renewed
<1>2. session' \in Nat /\ session <= session' /\ turn' \in 0 .. session' /\ straddled' \subseteq 1 .. session'
    BY <1>1, LogFacts
<1> QED
    BY <1>1, <1>2, LogFacts, TalkGoesOn

LEMMA DieTalk == TalkOK /\ Die => TalkOK'
<1> SUFFICES ASSUME TalkOK, Die
             PROVE  TalkOK'
    OBVIOUS
<1>1. /\ turn' = 0 /\ session' = session /\ log' = log /\ straddled' = straddled
      /\ UNCHANGED <<archives, ran, twice>> /\ lost' = lost
    BY DEF Die
<1>2. turn' \in 0 .. session' /\ \A s \in 1 .. session : turn' # s
    BY <1>1, LogFacts
<1> QED
    BY <1>1, <1>2, LogFacts, TalkGoesOn

LEMMA ClearTalk == TalkOK /\ Clear => TalkOK'
<1> SUFFICES ASSUME TalkOK, Clear
             PROVE  TalkOK'
    OBVIOUS
<1>1. /\ session' = session + 1 /\ turn' = turn /\ ran' = ran
      /\ straddled' = straddled \cup ({turn} \ {0})
    BY DEF Clear, Renewed
<1>2. /\ session' \in Nat /\ session <= session' /\ turn' \in 0 .. session'
      /\ straddled \subseteq straddled'
    BY <1>1, LogFacts
<1>3. straddled' \subseteq 1 .. session'
    <2>1. \A s \in straddled \cup ({turn} \ {0}) : s \in 1 .. session + 1
        BY LogFacts
    <2> QED
        BY <1>1, <2>1
<1>4. \A s \in 1 .. session : s \notin straddled' => s < session' /\ turn' # s
    <2>1. ASSUME NEW s \in 1 .. session, s \notin straddled'
          PROVE  s < session' /\ turn' # s
        BY <1>1, <2>1, LogFacts
    <2> QED
        BY <2>1
<1>5. CASE /\ \/ log' = log /\ lost' = lost
              \/ log' = <<>> /\ lost' = lost /\ Readable(log) = {}
              \/ log' = <<>> /\ Loses({}, Readable(log))
           /\ UNCHANGED <<archives, twice>>
    <2>1. /\ log' \in Seq(Int) /\ Readable(log') \subseteq Readable(log)
          /\ \A t \in DOMAIN ran : OnceIn(log', t)
        BY <1>5, LogFacts
    <2>2. /\ lost[2] \subseteq lost'[2] /\ lost'[2] \subseteq DOMAIN ran
          /\ Readable(log) \ lost'[2] \subseteq Readable(log')
        <3>1. CASE log' = log /\ lost' = lost
            BY <3>1, LogFacts
        <3>2. CASE log' = <<>> /\ lost' = lost /\ Readable(log) = {}
            BY <3>2, LogFacts
        <3>3. CASE log' = <<>> /\ Loses({}, Readable(log))
            <4>1. lost'[2] = lost[2] \cup Readable(log)
                BY <3>3 DEF Loses
            <4>2. lost[2] \cup Readable(log) \subseteq DOMAIN ran
                BY LogFacts
            <4> QED
                BY <4>1, <4>2
        <3> QED
            BY <1>5, <3>1, <3>2, <3>3
    <2>3. \A s \in 1 .. session : s < session /\ turn # s /\ s \notin straddled' => turn' # s
        BY <1>1
    <2>4. UNCHANGED <<archives, ran, twice>>
        BY <1>1, <1>5
    <2> QED
        BY <1>2, <1>3, <2>1, <2>2, <2>3, <2>4, TalkGoesOn
<1>6. CASE /\ Archived
           /\ \/ log' = <<>> /\ twice' = twice
              \/ log' = log /\ twice' = twice \cup Readable(log)
           /\ lost' = lost
    BY <1>1, <1>2, <1>3, <1>4, <1>6, TalkArchived
<1> QED
    BY <1>5, <1>6 DEF Clear

LEMMA ClearDiesTalk == TalkOK /\ ClearDies => TalkOK'
<1> SUFFICES ASSUME TalkOK, ClearDies
             PROVE  TalkOK'
    OBVIOUS
<1>1. /\ session' = session /\ turn' = 0 /\ ran' = ran /\ lost' = lost
      /\ straddled' = straddled \cup {session}
      /\ Archived
      /\ \/ log' = <<>> /\ twice' = twice
         \/ log' = log /\ twice' = twice \cup Readable(log)
    BY DEF ClearDies
<1>2. session' \in Nat /\ session <= session' /\ turn' \in 0 .. session' /\ straddled \subseteq straddled'
    BY <1>1, LogFacts
<1>3. straddled' \subseteq 1 .. session'
    <2>1. \A s \in straddled \cup {session} : s \in 1 .. session
        BY LogFacts
    <2> QED
        BY <1>1, <2>1
<1>4. \A s \in 1 .. session : s \notin straddled' => s < session' /\ turn' # s
    <2>1. ASSUME NEW s \in 1 .. session, s \notin straddled'
          PROVE  s < session' /\ turn' # s
        BY <1>1, <2>1, LogFacts
    <2> QED
        BY <2>1
<1> QED
    BY <1>1, <1>2, <1>3, <1>4, TalkArchived

-----------------------------------------------------------------------------
(***************************************************************************)
(* The steps together.                                                      *)
(***************************************************************************)
RunOK == up \in BOOLEAN /\ cycled \in BOOLEAN /\ errors \in 0 .. MaxErrors
JournalInv == RunOK /\ EventsOK /\ TalkOK

LEMMA JournalInitInv == JournalInit => JournalInv
<1> SUFFICES ASSUME JournalInit
             PROVE  JournalInv
    OBVIOUS
<1>1. /\ now = 0 /\ hot = <<>> /\ shards = [h \in Hours |-> <<>>] /\ at = <<>>
      /\ late = {} /\ cut = {} /\ lost[1] = {}
    BY DEF JournalInit
<1>2. /\ session = 1 /\ turn = 0 /\ log = <<>> /\ archives = <<>> /\ ran = <<>>
      /\ twice = {} /\ straddled = {} /\ lost[2] = {}
    BY DEF JournalInit
<1>3. Readable(<<>>) = {} /\ (\A x : OnceIn(<<>>, x)) /\ DOMAIN <<>> = {}
    BY DEF Readable, OnceIn
<1>4. RunOK
    <2>1. up = TRUE /\ cycled = FALSE /\ errors = 0
        BY DEF JournalInit
    <2>2. MaxErrors \in Nat
        BY JournalAssumption
    <2>3. errors \in 0 .. MaxErrors
        BY <2>1, <2>2
    <2>4. up \in BOOLEAN /\ cycled \in BOOLEAN
        BY <2>1, Zenon
    <2> QED
        BY <2>3, <2>4 DEF RunOK
<1>5. EventsTypeOK
    BY <1>1, <1>3, JournalAssumption DEF EventsTypeOK
<1>6. EventsOK
    BY <1>1, <1>3, <1>5 DEF EventsOK, HotOK, FoundOK, OnceOK
<1>7. IsFiniteSet(DOMAIN archives)
    BY <1>2, <1>3, FS_EmptySet
<1>8. TalkTypeOK
    BY <1>2, <1>3, <1>7 DEF TalkTypeOK
<1>9. TalkOK
    BY <1>2, <1>3, <1>8 DEF TalkOK, KeptOK, OverOK, SessionsAreNotSplit
<1> QED
    BY <1>4, <1>6, <1>9 DEF JournalInv

LEMMA JournalNextInv == JournalInv /\ [JournalNext]_journalVars => JournalInv'
<1> SUFFICES ASSUME JournalInv, [JournalNext]_journalVars
             PROVE  JournalInv'
    OBVIOUS
<1>1. RunOK /\ EventsOK /\ TalkOK
    BY DEF JournalInv
<1>2. now \in 0 .. MaxTime /\ now \in Nat /\ MaxTime \in Nat /\ now \in now .. MaxTime
    BY <1>1, EventsFacts DEF EventsOK
<1>3. RunOK'
    <2>1. UNCHANGED <<up, cycled, errors>> => RunOK'
        BY <1>1 DEF RunOK
    <2>2. NoError \/ Fails \/ UNCHANGED errors => errors' \in 0 .. MaxErrors
        BY <1>1, JournalAssumption DEF RunOK, NoError, Fails
    <2>3. UNCHANGED journalVars => UNCHANGED <<up, cycled, errors>>
        BY DEF journalVars, clock
    <2>4. Record => UNCHANGED <<up, cycled>> /\ (NoError \/ Fails)
        BY DEF Record, clock
    <2>5. Rotate => up' = up /\ cycled' = TRUE /\ (NoError \/ Fails)
        BY DEF Rotate
    <2>6. Begin \/ Reset => UNCHANGED <<up, cycled, errors>>
        BY DEF Begin, Reset, clock
    <2>7. Answer => UNCHANGED <<up, cycled>> /\ (NoError \/ Fails)
        BY DEF Answer, clock
    <2>8. Clear => UNCHANGED <<up, cycled>> /\ (UNCHANGED errors \/ Fails)
        BY DEF Clear, clock
    <2>9. ClearDies \/ Die => up' = FALSE /\ cycled' = cycled /\ Fails
        BY DEF ClearDies, Die
    <2>10. Boot => up' = TRUE /\ cycled' = FALSE /\ errors' = errors
        BY DEF Boot
    <2>11. Elapse => up' = up /\ cycled' = FALSE /\ errors' = errors
        BY DEF Elapse
    <2> QED
        BY <1>1, <2>1, <2>2, <2>3, <2>4, <2>5, <2>6, <2>7, <2>8, <2>9, <2>10, <2>11
        DEF RunOK, JournalNext
<1>4. CASE Record
    <2>1. UNCHANGED talk /\ lost'[2] = lost[2]
        BY <1>4 DEF Record, Loses
    <2> QED
        BY <1>1, <1>3, <1>4, <2>1, RecordEvents, TalkKept DEF JournalInv
<1>5. CASE Rotate
    <2>1. UNCHANGED talk /\ lost'[2] = lost[2]
        BY <1>5 DEF Rotate, Loses
    <2> QED
        BY <1>1, <1>3, <1>5, <2>1, RotateKeeps, TalkKept DEF JournalInv
<1>6. CASE Begin \/ Answer \/ Reset \/ Clear \/ ClearDies \/ Die
    <2>1. UNCHANGED events /\ now' = now
        BY <1>6 DEF Begin, Answer, Reset, Clear, ClearDies, Die, clock
    <2>2. lost'[1] = lost[1]
        BY <1>6 DEF Begin, Answer, Reset, Clear, ClearDies, Die, Loses
    <2>3. EventsOK'
        BY <1>1, <1>2, <2>1, <2>2, EventsKept
    <2>4. TalkOK'
        BY <1>1, <1>6, BeginTalk, AnswerTalk, ResetTalk, ClearTalk, ClearDiesTalk, DieTalk
    <2> QED
        BY <1>3, <2>3, <2>4 DEF JournalInv
<1>7. CASE Boot \/ Elapse \/ UNCHANGED journalVars
    <2>1. UNCHANGED <<events, talk, lost>>
        BY <1>7 DEF Boot, Elapse, journalVars
    <2>2. now' \in now .. MaxTime
        BY <1>2, <1>7 DEF Boot, Elapse, journalVars, clock
    <2>3. EventsOK'
        BY <1>1, <2>1, <2>2, EventsKept
    <2>4. TalkOK'
        BY <1>1, <2>1, TalkKept
    <2> QED
        BY <1>3, <2>3, <2>4 DEF JournalInv
<1> QED
    BY <1>4, <1>5, <1>6, <1>7 DEF JournalNext

\* A turn that is in one place is there once.
LEMMA TurnsAreThere == TalkOK => TurnsAreKeptOnce
<1> SUFFICES ASSUME TalkOK, NEW t \in DOMAIN ran, t \notin lost[2]
             PROVE  LET places == {name \in DOMAIN archives : t \in archives[name]}
                        copies == Cardinality(places) + Cardinality({i \in DOMAIN log : log[i] = t})
                    IN copies >= 1 /\ (t \notin twice => copies = 1)
    BY DEF TurnsAreKeptOnce
<1>1. PICK places : places = {name \in DOMAIN archives : t \in archives[name]}
    OBVIOUS
<1>2. PICK lines : lines = {i \in DOMAIN log : log[i] = t}
    OBVIOUS
<1>3. IsFiniteSet(DOMAIN archives) /\ t \notin {Torn, Garbled}
    BY TalkFacts DEF TalkOK, TalkTypeOK
<1>4. IsFiniteSet(places) /\ Cardinality(places) \in Nat
    <2>1. places \in SUBSET (DOMAIN archives)
        BY <1>1
    <2>2. IsFiniteSet(places)
        BY <1>3, <2>1, FS_Subset
    <2> QED
        BY <2>2, FS_CardinalityType
<1>5. /\ OnceIn(log, t)
      /\ t \in Readable(log) \/ \E name \in DOMAIN archives : t \in archives[name]
      /\ t \notin twice =>
            \A name \in DOMAIN archives : t \in archives[name] =>
                /\ t \notin Readable(log)
                /\ \A other \in DOMAIN archives : t \in archives[other] => other = name
    BY DEF TalkOK, KeptOK
<1>6. t \in Readable(log) => Cardinality(lines) = 1
    <2>1. ASSUME t \in Readable(log)
          PROVE  Cardinality(lines) = 1
        <3>1. PICK i \in DOMAIN log : log[i] = t
            BY <2>1 DEF Readable
        <3>2. lines = {i}
            BY <1>2, <1>5, <3>1 DEF OnceIn
        <3> QED
            BY <3>2, FS_Singleton
    <2> QED
        BY <2>1
<1>7. t \notin Readable(log) => Cardinality(lines) = 0
    <2>1. ASSUME t \notin Readable(log)
          PROVE  Cardinality(lines) = 0
        <3>1. lines = {}
            BY <1>2, <1>3, <2>1 DEF Readable
        <3> QED
            BY <3>1, FS_EmptySet
    <2> QED
        BY <2>1
<1>8. places # {} => Cardinality(places) >= 1
    <2>1. Cardinality(places) = 0 <=> places = {}
        BY <1>4, FS_EmptySet
    <2> QED
        BY <1>4, <2>1
<1>9. t \notin twice /\ places # {} => Cardinality(places) = 1 /\ t \notin Readable(log)
    <2>1. ASSUME t \notin twice, places # {}
          PROVE  Cardinality(places) = 1 /\ t \notin Readable(log)
        <3>1. PICK name \in DOMAIN archives : t \in archives[name]
            BY <1>1, <2>1
        <3>2. places = {name} /\ t \notin Readable(log)
            BY <1>1, <1>5, <2>1, <3>1
        <3> QED
            BY <3>2, FS_Singleton
    <2> QED
        BY <2>1
<1>10. places = {} => Cardinality(places) = 0 /\ t \in Readable(log)
    <2>1. ASSUME places = {}
          PROVE  Cardinality(places) = 0 /\ t \in Readable(log)
        <3>1. Cardinality(places) = 0
            BY <2>1, FS_EmptySet
        <3> QED
            BY <1>1, <1>5, <2>1, <3>1
    <2> QED
        BY <2>1
<1>11. /\ Cardinality(places) + Cardinality(lines) >= 1
       /\ t \notin twice => Cardinality(places) + Cardinality(lines) = 1
    <2>1. CASE places = {}
        BY <1>6, <1>10, <2>1
    <2>2. CASE places # {}
        <3>1. Cardinality(lines) \in Nat
            BY <1>6, <1>7
        <3> QED
            BY <1>4, <1>7, <1>8, <1>9, <2>2, <3>1
    <2> QED
        BY <2>1, <2>2
<1> QED
    BY <1>1, <1>2, <1>11

-----------------------------------------------------------------------------
(***************************************************************************)
(* The theorems.                                                            *)
(***************************************************************************)
LEMMA JournalSafe == JournalSpec => []JournalInv
<1>1. JournalInit => JournalInv
    BY JournalInitInv
<1>2. JournalInv /\ [JournalNext]_journalVars => JournalInv'
    BY JournalNextInv
<1> QED
    BY <1>1, <1>2, PTL DEF JournalSpec

\* Every variable of Journal has its type, and files and histories name only what has been
\* recorded: the reading of a file (events.query, conversations._read_jsonl) yields no record
\* that nobody wrote.
THEOREM JournalTypeCorrect == JournalSpec => []JournalTypeOK
<1>1. JournalInv => JournalTypeOK
    BY DEF JournalInv, RunOK, EventsOK, TalkOK, JournalTypeOK
<1> QED
    BY <1>1, JournalSafe, PTL

\* Whatever rotation, merge, death or retention does to the files, an event younger than the
\* retention is found by a query that reaches back to it, and only a merge that failed lets
\* it be found twice (events.append, rotate_if_needed, prune_retention, query).
THEOREM EventsAreFound == JournalSpec => []EventsAreFoundOnce
<1>1. JournalInv => EventsAreFoundOnce
    BY EventsAreThere DEF JournalInv
<1> QED
    BY <1>1, JournalSafe, PTL

\* A turn logged stays in the log or in exactly one archive whatever fails within a /clear,
\* and no two archives share a session but one that a /clear cut (append_turn,
\* archive_and_clear, cmd_clear).
THEOREM TranscriptsKept == JournalSpec => []TranscriptsAreTrue
<1>1. JournalInv => TranscriptsAreTrue
    BY TurnsAreThere DEF JournalInv, TalkOK, TranscriptsAreTrue
<1> QED
    BY <1>1, JournalSafe, PTL
=============================================================================
