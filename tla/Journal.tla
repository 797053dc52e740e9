------------------------------ MODULE Journal ------------------------------
(***************************************************************************)
(* The bot's append-only records: the event journal (src/bot/events.py), a    *)
(* hot file that each cycle may rotate into hourly shards and prune, and one  *)
(* agent's transcript (src/bot/conversations.py), which /clear turns into an  *)
(* archive before it renews the session.  Both are lines appended without a   *)
(* temporary file, so a write may stop in the middle of a line, and the next  *)
(* line is then glued to it and lost.                                         *)
(*                                                                          *)
(* Time is in half-hours.  While the bot is up a cycle runs in each of them;  *)
(* it may also be down for as long as it likes.  A call that meets an error   *)
(* leaves what it had done so far; the bot may die right after it.            *)
(***************************************************************************)
EXTENDS Integers, Sequences, SequencesExt, FiniteSets

CONSTANTS
    Retention,      \* half-hours an event is kept
    MaxTime,        \* bound: half-hours
    MaxActs,        \* bound: events, turns and sessions, together
    MaxErrors       \* bound: errors and deaths, together

ASSUME JournalAssumption ==
    {Retention, MaxTime, MaxActs, MaxErrors} \subseteq Nat

VARIABLES
    now, up, cycled,    \* whether the bot runs, and whether a cycle has run in this half-hour
    hot, shards,        \* the event files, a sequence of lines each, <<>> one that is missing
    at,                 \* when each event was appended
    late, cut,          \* history: events written to a file begun in an earlier hour, or in a failed merge
    session, turn,      \* the agent's session, and the one its turn began in (0: no turn)
    log, archives,      \* current.jsonl and the archives, by name
    ran,                \* the session of each turn logged
    twice, straddled,   \* history: turns an unlink left behind, sessions a /clear cut in two
    lost,               \* history: <<events, turns>> glued to a torn line or deleted unread
    errors

clock == <<now, up, cycled>>
events == <<hot, shards, at, late, cut>>
talk == <<session, turn, log, archives, ran, twice, straddled>>
journalVars == <<clock, events, talk, lost, errors>>

Hours == 0 .. MaxTime \div 2
Hour(t) == t \div 2

\* A line is the number of a record, or unreadable: without its end, or glued.
Torn == 0
Garbled == -1
Readable(file) == {file[i] : i \in DOMAIN file} \ {Torn, Garbled}
EndsTorn(file) == file # <<>> /\ Last(file) = Torn

\* What is written to a file goes right after its last byte.
Joined(file, lines) ==
    IF EndsTorn(file) /\ lines # <<>>
    THEN Front(file) \o <<IF Head(lines) = Torn THEN Torn ELSE Garbled>> \o Tail(lines)
    ELSE file \o lines
\* The records among them that cannot be read for it.
Glued(file, lines) == IF EndsTorn(file) /\ lines # <<>> THEN Readable(<<Head(lines)>>) ELSE {}
\* What an interrupted write of them leaves.
Cuts(lines) == {SubSeq(lines, 1, n) : n \in 0 .. Len(lines)}
               \cup {Append(SubSeq(lines, 1, n), Torn) : n \in 0 .. Len(lines) - 1}

Acts == Len(at) + Len(ran) + session
Fails == errors < MaxErrors /\ errors' = errors + 1
NoError == UNCHANGED errors
Loses(es, ts) == lost' = <<lost[1] \cup es, lost[2] \cup ts>>

-----------------------------------------------------------------------------
(***************************************************************************)
(* The event journal.                                                       *)
(***************************************************************************)
\* _hot_hour_key: the hour of the first line, none if it cannot be read.
HotHour == IF hot = <<>> \/ Head(hot) \notin 1 .. Len(at) THEN {} ELSE {Hour(at[Head(hot)])}

\* append: an error drops the event, and may leave the beginning of its line.
Record ==
    /\ up
    /\ \/ /\ Acts < MaxActs
          /\ at' = Append(at, now)
          /\ hot' = Joined(hot, <<Len(at')>>)
          /\ late' = IF HotHour \subseteq {Hour(now)} THEN late ELSE late \cup {Len(at')}
          /\ Loses(Glued(hot, <<Len(at')>>), {})
          /\ NoError
       \/ /\ hot' = Joined(hot, <<Torn>>)
          /\ UNCHANGED <<at, late, lost>>
          /\ Fails
    /\ UNCHANGED <<clock, shards, cut, talk>>

\* _shard_path of the first line's hour, or of this one.
Target == IF HotHour = {} THEN Hour(now) ELSE CHOOSE h \in HotHour : TRUE

\* Mutant: a merge leaves the hot file as it was.
Emptied_NotMerged == IF shards[Target] = <<>> THEN <<>> ELSE hot
\* The hot file once its lines are in the shard.
Emptied == <<>>

\* prune_retention compares the hour the shard began at.
Expired(h) == 2 * h + Retention < now
Pruned(sh) == [h \in Hours |-> IF Expired(h) THEN <<>> ELSE sh[h]]
Filed(lines) == [shards EXCEPT ![Target] = Joined(@, lines)]

\* The part of a cycle that looks after the journal: rotate_if_needed renames the hot
\* file, or appends it line by line to a shard that is there already.
Rotate ==
    /\ up
    /\ cycled' = TRUE
    /\ \/ /\ HotHour \subseteq {Hour(now)}
          /\ shards' = Pruned(shards)
          /\ UNCHANGED <<hot, cut, lost>> /\ NoError
       \* Begun in another hour, or grown too big.
       \/ /\ hot # <<>>
          /\ shards' = Pruned(Filed(hot))
          /\ hot' = Emptied
          /\ Loses(Glued(shards[Target], hot), {})
          /\ UNCHANGED cut /\ NoError
       \* The rename, the merge or the unlink after it fails: the hot file is still there.
       \/ /\ hot # <<>>
          /\ \E part \in IF shards[Target] = <<>> THEN {<<>>} ELSE Cuts(hot) :
                /\ shards' = Pruned(Filed(part))
                /\ Loses(Glued(shards[Target], part), {})
          /\ cut' = cut \cup Readable(hot)
          /\ UNCHANGED hot /\ Fails
    /\ UNCHANGED <<now, up, at, late, talk>>

\* query: the shards whose hour reaches into the window, and the hot file.
Candidate(h, since) == 2 * h + 2 >= since
\* The places it finds the event in.
Told(e, since) ==
    LET In(file) == {i \in DOMAIN file : file[i] = e} IN
    IF at[e] < since THEN {}
    ELSE ({-1} \X In(hot)) \cup UNION {{h} \X In(shards[h]) : h \in {k \in Hours : Candidate(k, since)}}

-----------------------------------------------------------------------------
(***************************************************************************)
(* The transcript.                                                          *)
(***************************************************************************)
\* invoke_ai takes the session the agent has now.
Begin ==
    /\ up /\ turn = 0 /\ Acts < MaxActs
    /\ turn' = session
    /\ UNCHANGED <<clock, events, session, log, archives, ran, twice, straddled, lost, errors>>

\* The turn answers and append_turn logs it; a turn that fails is not logged.
Answer ==
    /\ up /\ turn # 0
    /\ turn' = 0
    /\ \/ /\ ran' = Append(ran, turn)
          /\ log' = Joined(log, <<Len(ran')>>)
          /\ Loses({}, Glued(log, <<Len(ran')>>))
          /\ NoError
       \/ /\ log' \in {log, Joined(log, <<Torn>>)}
          /\ UNCHANGED <<ran, lost>>
          /\ Fails
    /\ UNCHANGED <<clock, events, session, archives, twice, straddled>>

Renewed == Acts < MaxActs /\ session' = session + 1

\* /reset: another session, the same log.
Reset ==
    /\ up /\ Renewed
    /\ UNCHANGED <<clock, events, turn, log, archives, ran, twice, straddled, lost, errors>>

\* Mutant: the name is taken without a look at what is there.
FreeName_Unchecked == <<now, 0>>
\* The time, and a counter when another archive was made in the same second.
FreeName ==
    CHOOSE name \in {now} \X (0 .. Cardinality(DOMAIN archives)) :
        /\ name \notin DOMAIN archives
        /\ \A n \in 0 .. name[2] - 1 : <<now, n>> \in DOMAIN archives
\* The archive is written beside and renamed.
Archived ==
    archives' = [name \in DOMAIN archives \cup {FreeName} |->
                    IF name = FreeName THEN Readable(log) ELSE archives[name]]

\* /clear: archive_and_clear, then another session.
Clear ==
    /\ up
    /\ \/ /\ Readable(log) = {}                 \* nothing, or nothing readable, which is removed
          /\ log' = <<>>
          /\ UNCHANGED <<archives, twice, lost, errors>>
       \* A log that cannot be read passes for one without a readable line.
       \/ /\ log # <<>>
          /\ log' = <<>>
          /\ Loses({}, Readable(log))
          /\ UNCHANGED <<archives, twice>> /\ Fails
       \/ /\ Readable(log) # {}
          /\ Archived
          /\ log' = <<>>
          /\ UNCHANGED <<twice, lost, errors>>
       \* The archive cannot be written, or the unreadable log not removed.
       \/ /\ log # <<>>
          /\ UNCHANGED <<log, archives, twice, lost>> /\ Fails
       \* The log cannot be removed.
       \/ /\ Readable(log) # {}
          /\ Archived
          /\ twice' = twice \cup Readable(log)
          /\ UNCHANGED <<log, lost>> /\ Fails
    /\ Renewed                                   \* whatever became of the archive
    /\ straddled' = straddled \cup ({turn} \ {0})
    /\ UNCHANGED <<clock, events, turn, ran>>

\* The bot dies within /clear: the archive is there, the log may be, the session goes on.
ClearDies ==
    /\ up /\ up' = FALSE
    /\ Readable(log) # {}
    /\ Archived
    /\ \/ log' = <<>> /\ UNCHANGED twice
       \/ twice' = twice \cup Readable(log) /\ UNCHANGED log
    /\ turn' = 0
    /\ straddled' = straddled \cup {session}
    /\ Fails
    /\ UNCHANGED <<now, cycled, events, session, ran, lost>>

-----------------------------------------------------------------------------
Die ==
    /\ up /\ up' = FALSE
    /\ turn' = 0
    /\ Fails
    /\ UNCHANGED <<now, cycled, events, session, log, archives, ran, twice, straddled, lost>>

Boot ==
    /\ ~up /\ up' = TRUE
    /\ cycled' = FALSE
    /\ UNCHANGED <<now, events, talk, lost, errors>>

Elapse ==
    /\ now < MaxTime
    /\ up => cycled
    /\ now' = now + 1 /\ cycled' = FALSE
    /\ UNCHANGED <<up, events, talk, lost, errors>>

JournalInit ==
    /\ now = 0 /\ up = TRUE /\ cycled = FALSE
    /\ hot = <<>> /\ shards = [h \in Hours |-> <<>>] /\ at = <<>> /\ late = {} /\ cut = {}
    /\ session = 1 /\ turn = 0 /\ log = <<>> /\ archives = <<>> /\ ran = <<>>
    /\ twice = {} /\ straddled = {}
    /\ lost = <<{}, {}>> /\ errors = 0

JournalNext ==
    \/ Record \/ Rotate
    \/ Begin \/ Answer \/ Reset \/ Clear \/ ClearDies
    \/ Die \/ Boot \/ Elapse

JournalSpec == JournalInit /\ [][JournalNext]_journalVars

-----------------------------------------------------------------------------
(***************************************************************************)
(* Properties.                                                              *)
(***************************************************************************)
EventsTypeOK ==
    /\ now \in 0 .. MaxTime
    /\ at \in Seq(Nat) /\ \A e \in DOMAIN at : at[e] <= now
    /\ hot \in Seq(Int) /\ Readable(hot) \subseteq DOMAIN at
    /\ shards \in [Hours -> Seq(Int)] /\ \A h \in Hours : Readable(shards[h]) \subseteq DOMAIN at
    /\ late \cup cut \cup lost[1] \subseteq DOMAIN at
TalkTypeOK ==
    /\ session \in Nat \ {0} /\ turn \in 0 .. session
    /\ ran \in Seq(Nat) /\ \A t \in DOMAIN ran : ran[t] \in 1 .. session
    /\ log \in Seq(Int) /\ Readable(log) \subseteq DOMAIN ran
    /\ IsFiniteSet(DOMAIN archives) /\ \A name \in DOMAIN archives : archives[name] \subseteq DOMAIN ran
    /\ twice \cup lost[2] \subseteq DOMAIN ran /\ straddled \subseteq 1 .. session
\* Every variable has its type, and what files and histories name has been recorded.
JournalTypeOK ==
    /\ up \in BOOLEAN /\ cycled \in BOOLEAN /\ errors \in 0 .. MaxErrors
    /\ EventsTypeOK /\ TalkTypeOK

\* Whatever rotation, merge, crash or retention has done to the files, an event as young
\* as the retention, less the length of a shard, is found, once, by every query whose
\* window reaches back to it.  An event written to a file begun in an earlier hour or
\* glued to a torn line may be missed, one that a failed merge has copied may be found again.
EventsAreFoundOnce ==
    \A e \in DOMAIN at \ (late \cup lost[1]) :
        now - at[e] < Retention =>
            \A since \in 0 .. at[e] :
                /\ Told(e, since) # {}
                /\ e \notin cut => Cardinality(Told(e, since)) = 1

\* A turn that was logged stays on disk: in the log until a /clear, in exactly one archive
\* after it, whatever fails in between and however fast they come.  Only one glued to a torn
\* line, or in a log that could not be read, is gone, and a log that could not be removed
\* is archived again.  No two archives share a session: one that a /clear has archived is
\* over.  Only a turn under way at the /clear, or a death within it, may put it into both.
TurnsAreKeptOnce ==
    \A t \in DOMAIN ran \ lost[2] :
        LET places == {name \in DOMAIN archives : t \in archives[name]}
            copies == Cardinality(places) + Cardinality({i \in DOMAIN log : log[i] = t})
        IN copies >= 1 /\ (t \notin twice => copies = 1)
SessionsAreNotSplit ==
    \A a, b \in DOMAIN archives :
        \A t \in archives[a], u \in archives[b] :
            a # b /\ ran[t] = ran[u] => ran[t] \in straddled \/ {t, u} \cap twice # {}
TranscriptsAreTrue == TurnsAreKeptOnce /\ SessionsAreNotSplit
=============================================================================
