-------------------------- MODULE WorkspacesProofs --------------------------
(***************************************************************************)
(* Theorems about Workspaces, for any tasks, any number of handlers, and    *)
(* any number of generations, commits and deaths of the bot.                *)
(***************************************************************************)
EXTENDS Workspaces, FiniteSetTheorems, TLAPS

-----------------------------------------------------------------------------
(***************************************************************************)
(* The inductive invariant.                                                 *)
(***************************************************************************)
Branches == Names \cup {"main"}
Statuses == {"none", "live", "waiting", "stopped", "deleted"}
StateType == [gen : Nat, status : Statuses, child : BOOLEAN, partial : BOOLEAN]
TextsType == [plan : Nat, program : Nat]
Entry == [gen : Nat, status : {"pending", "canceled"}]
GitType == [kind : {"none", "made", "switched"}, prev : Branches, tip : SUBSET Nat]
BeforeType == [state : StateType, texts : TextsType, queue : SUBSET Entry, branch : BOOLEAN]
CreateAts == {"lock", "git", "checkout", "made", "switched", "topic", "title", "archive",
              "check", "back", "drop"}
Creation ==
    [at : CreateAts, name : Names, gen : Nat, child : BOOLEAN, before : BeforeType,
     git : GitType, topic : BOOLEAN]
Closing ==
    [at : {"drain", "channel", "failed"},
     child : [Names -> {"lock", "wait", "final", "broken", "done"}], gen : [Names -> Nat]]
Handler == {Idle} \cup Creation \cup Closing
RepoType == [head : Branches, branches : SUBSET Branches, made : Nat, tip : [Branches -> SUBSET Nat]]

Domains ==
    /\ home \in {"open", "closed"} /\ plain \in {"pending", "canceled"} \cup Ops
    /\ agents \subseteq Names /\ proc \subseteq Names /\ revived \subseteq Names
    /\ state \in [Names -> StateType] /\ texts \in [Names -> TextsType]
    /\ queue \in [Names -> SUBSET Entry]
    /\ op \in [Ops -> Handler]
    /\ repo \in RepoType
    /\ starts \in Nat /\ crashes \in Nat

\* A creation past its lock.
Past(o) == Creates(o) /\ ~At(o, "lock")
\* It has the lock of its name, which no agent has.
LockOK ==
    /\ \A o, p \in Ops : Past(o) /\ Past(p) /\ op[o].name = op[p].name => o = p
    /\ \A o \in Ops : Past(o) => op[o].name \notin agents

\* Every generation is given out once; a topic is there when its creation made it.
GensOK ==
    /\ starts >= 1 /\ \A g \in topics : g \in 1..starts
    /\ \A o \in Ops : Creates(o) => op[o].gen \in 2..starts
    /\ \A o, p \in Ops : Creates(o) /\ Creates(p) /\ op[o].gen = op[p].gen => o = p
    /\ \A o \in Ops : Creates(o) =>
          /\ op[o].gen \in topics => op[o].at \in {"title", "archive"} \/ "topic" \in excused
          /\ op[o].at \in {"title", "archive"} => op[o].topic
          /\ op[o].at \in {"lock", "git", "checkout", "made", "switched", "topic"} => ~op[o].topic

\* One task per name: either it is registered, with one entry of its generation, or it
\* is nowhere to be seen.
StoreOK ==
    \A n \in Names \ excused :
       IF n \in agents
       THEN /\ state[n].status \in {"live", "waiting", "stopped"}
            /\ state[n].gen = texts[n].program /\ state[n].gen # 0
            /\ \E e \in queue[n] : queue[n] = {e} /\ e.gen = state[n].gen
       ELSE state[n].status \in {"none", "deleted"} /\ Live(n) = {}

\* What a creation has not written yet is as it found it.
BeforeOK ==
    \A o \in Ops : Past(o) /\ op[o].name \notin excused =>
       LET n == op[o].name  b == op[o].before IN
       /\ state[n] = b.state /\ queue[n] = b.queue
       /\ IF op[o].at \in {"topic", "title"} THEN texts[n].program = b.texts.program
                                             ELSE texts[n] = b.texts

\* Alone in the repository, a creation knows where HEAD is: x of the record, r of the repo.
There(x, r) == x.name \in r.branches <=> x.before.branch
On(x, r) ==
    /\ r.head = x.name /\ x.git.prev = "main" /\ x.git.tip = r.tip[x.name]
    /\ x.name \in r.branches
Placed(x, r) ==
    /\ x.at \in {"lock", "git", "checkout", "drop"} => r.head = "main"
    /\ x.at \in {"git", "checkout"} => There(x, r)
    /\ x.at = "checkout" => x.git.prev = "main" /\ x.git.tip = r.tip["main"]
    /\ x.at = "made" => On(x, r) /\ ~x.before.branch
    /\ x.at = "switched" => /\ r.head = x.name /\ x.git.prev = "main"
                            /\ x.name \in r.branches /\ x.before.branch
    /\ x.at \in {"topic", "title", "archive", "check", "back"} =>
          IF x.git.kind = "none" THEN r.head = "main" /\ There(x, r)
                                 ELSE On(x, r) /\ (x.git.kind = "switched" <=> x.before.branch)
    /\ x.at = "drop" => ~x.before.branch
Alone == starts = 2 /\ repo.made = 0 /\ "switch" \notin excused
AloneOK ==
    /\ starts = 1 => repo.head = "main" /\ \A o \in Ops : op[o] = Idle
    /\ Alone => \A o \in Ops : Creates(o) => /\ Placed(op[o], repo)
                                            /\ \A p \in Ops : p # o => op[p] = Idle

\* The branches a creation may yet remove.
Removes(x, r) ==
    \/ x.at = "made"
    \/ x.git.kind = "made" /\ (x.at \in {"back", "drop"} \/ r.tip[x.name] = x.git.tip)
Doomed(b) == \E o \in Ops : Creates(o) /\ op[o].name = b /\ Removes(op[o], repo)
\* Every commit is on a branch none will remove.
SafeOK ==
    /\ repo.head \in repo.branches /\ "main" \in repo.branches
    /\ \A b \in Branches : repo.tip[b] \subseteq 1..repo.made
    /\ \A o \in Ops : Creates(o) =>
          /\ op[o].git.tip \subseteq 1..repo.made
          /\ op[o].at \in {"lock", "git", "checkout", "made", "switched"} => op[o].git.kind = "none"
          /\ op[o].at \in {"back", "drop"} => op[o].git.kind # "none"
          /\ op[o].at = "drop" => op[o].git.kind = "made"
    /\ "unseen commit" \in excused
       \/ \A c \in 1..repo.made : \E b \in repo.branches : c \in repo.tip[b] /\ ~Doomed(b)

\* A child a closing has drained stays quiet until it ends, and after; it has a state.
Runs(n) == state[n].child /\ state[n].status \in {"live", "waiting"} /\ Live(n) # {}
QuietOK ==
    /\ \A o \in Ops : Closes(o) =>
          \A n \in Names \ (revived \cup excused) :
             Runs(n) => op[o].child[n] \in {"lock", "broken"}
    /\ \A o \in Ops : Closes(o) =>
          \A n \in Names \ excused : op[o].child[n] # "done" => state[n].status # "none"
    /\ \A o \in Ops : At(o, "channel") => \A n \in Names : op[o].child[n] = "done"
    /\ ClosedIsQuiet

\* A task that is not scheduled is in the hands of a closing that will write it down.
Stranded(n) == state[n].status \in {"live", "waiting"} /\ Live(n) = {} /\ ~state[n].partial
CoherentOK ==
    \A n \in Names \ excused : Stranded(n) =>
       \E o \in Ops : /\ Closes(o) /\ op[o].at \in {"drain", "failed"}
                      /\ op[o].child[n] \in {"wait", "final"} /\ op[o].gen[n] = state[n].gen

\* Closings one at a time, the workspace's own entry is in the hands of the one under way.
PlainOK ==
    excused \cap {"overlap", "crash"} = {} =>
       /\ \A o, p \in Ops : Closes(o) /\ Closes(p) => o = p
       /\ \A o \in Ops : Closes(o) =>
             home = "open" /\ plain = IF op[o].at = "failed" THEN "pending" ELSE o
       /\ (\A o \in Ops : ~Closes(o)) => (home = "open" <=> plain = "pending")

Inv == /\ Domains /\ LockOK /\ GensOK /\ StoreOK /\ BeforeOK /\ AloneOK /\ SafeOK
       /\ QuietOK /\ CoherentOK /\ PlainOK

-----------------------------------------------------------------------------
(***************************************************************************)
(* The records of the handlers.                                             *)
(***************************************************************************)
IsCreation(x) == "name" \in DOMAIN x

LEMMA Kinds ==
    /\ Idle.at = "idle" /\ ~IsCreation(Idle)
    /\ \A x \in Creation : IsCreation(x) /\ x.at \in CreateAts /\ x.at # "idle"
    /\ \A x \in Closing : ~IsCreation(x) /\ x.at \in {"drain", "channel", "failed"} /\ x.at # "idle"
<1>1. Idle.at = "idle" /\ ~IsCreation(Idle)
    BY DEF Idle, IsCreation
<1>2. ASSUME NEW x \in Creation PROVE IsCreation(x) /\ x.at \in CreateAts /\ x.at # "idle"
    <2>1. IsCreation(x)
        BY DEF Creation, IsCreation
    <2>2. x.at \in CreateAts
        BY DEF Creation
    <2> QED
        BY <2>1, <2>2 DEF CreateAts
<1>3. ASSUME NEW x \in Closing
      PROVE  ~IsCreation(x) /\ x.at \in {"drain", "channel", "failed"} /\ x.at # "idle"
    <2>1. ~IsCreation(x)
        BY DEF Closing, IsCreation
    <2>2. x.at \in {"drain", "channel", "failed"}
        BY DEF Closing
    <2> QED
        BY <2>1, <2>2
<1> QED
    BY <1>1, <1>2, <1>3

\* Where a handler is says what it is.
LEMMA WhatItIs ==
    ASSUME op \in [Ops -> Handler], NEW o \in Ops
    PROVE  /\ op[o] \in Handler
           /\ Creates(o) <=> op[o] \in Creation
           /\ Closes(o) <=> op[o] \in Closing
           /\ At(o, "idle") <=> op[o] = Idle
           /\ op[o].at \in CreateAts => op[o] \in Creation
           /\ op[o].at \in {"drain", "channel", "failed"} => op[o] \in Closing
<1>1. op[o] \in Handler
    OBVIOUS
<1>2. Creates(o) <=> IsCreation(op[o])
    BY DEF Creates, IsCreation
<1>3. op[o] = Idle \/ op[o] \in Creation \/ op[o] \in Closing
    BY <1>1 DEF Handler
<1> QED
    BY <1>1, <1>2, <1>3, Kinds DEF Closes, At, CreateAts

LEMMA CreationFields ==
    ASSUME NEW x \in Creation
    PROVE  /\ x.at \in CreateAts /\ x.name \in Names /\ x.gen \in Nat /\ x.topic \in BOOLEAN
           /\ x.before \in BeforeType /\ x.git \in GitType /\ x \in Handler
    BY DEF Creation, Handler

LEMMA GitFields ==
    ASSUME NEW g \in GitType
    PROVE  g.kind \in {"none", "made", "switched"} /\ g.prev \in Branches /\ g.tip \in SUBSET Nat
    BY DEF GitType

LEMMA BeforeFields ==
    ASSUME NEW b \in BeforeType
    PROVE  /\ b.state \in StateType /\ b.texts \in TextsType /\ b.queue \in SUBSET Entry
           /\ b.branch \in BOOLEAN
    BY DEF BeforeType

LEMMA RepoFields ==
    ASSUME repo \in RepoType
    PROVE  /\ repo.head \in Branches /\ repo.branches \in SUBSET Branches /\ repo.made \in Nat
           /\ repo.tip \in [Branches -> SUBSET Nat]
    BY DEF RepoType

LEMMA NoGitFacts == NoGit \in GitType /\ NoGit.kind = "none" /\ NoGit.tip = {}
    BY DEF NoGit, GitType, Branches

\* y is x, further on.
SameTask(x, y) == y.name = x.name /\ y.gen = x.gen

Looks(x, at, b) == [x EXCEPT !.at = at, !.before = b]
Versions(x, at, g) == [x EXCEPT !.at = at, !.git = g]
HasTopic(x, at) == [x EXCEPT !.at = at, !.topic = TRUE]
HeadNoted(g, prev, tip) == [g EXCEPT !.prev = prev, !.tip = tip]
Claimed(g, kind, tip) == [g EXCEPT !.kind = kind, !.tip = tip]

LEMMA CreationGoes ==
    ASSUME NEW x \in Creation, NEW at \in CreateAts, NEW y, y = [x EXCEPT !.at = at]
    PROVE  /\ y \in Creation /\ y.at = at /\ SameTask(x, y)
           /\ y.before = x.before /\ y.git = x.git /\ y.topic = x.topic
    BY DEF Creation, SameTask

LEMMA CreationLooks ==
    ASSUME NEW x \in Creation, NEW at \in CreateAts, NEW b \in BeforeType
    PROVE  LET y == Looks(x, at, b) IN
           /\ y \in Creation /\ y.at = at /\ SameTask(x, y)
           /\ y.before = b /\ y.git = x.git /\ y.topic = x.topic
    BY DEF Looks, Creation, SameTask

LEMMA CreationVersions ==
    ASSUME NEW x \in Creation, NEW at \in CreateAts, NEW g \in GitType
    PROVE  LET y == Versions(x, at, g) IN
           /\ y \in Creation /\ y.at = at /\ SameTask(x, y)
           /\ y.before = x.before /\ y.git = g /\ y.topic = x.topic
    BY DEF Versions, Creation, SameTask

LEMMA CreationHasTopic ==
    ASSUME NEW x \in Creation, NEW at \in CreateAts
    PROVE  LET y == HasTopic(x, at) IN
           /\ y \in Creation /\ y.at = at /\ SameTask(x, y)
           /\ y.before = x.before /\ y.git = x.git /\ y.topic = TRUE
    BY DEF HasTopic, Creation, SameTask

LEMMA GitLooks ==
    ASSUME NEW g \in GitType, NEW prev \in Branches, NEW tip \in SUBSET Nat,
           NEW h, h = HeadNoted(g, prev, tip)
    PROVE  h \in GitType /\ h.kind = g.kind /\ h.prev = prev /\ h.tip = tip
    BY DEF HeadNoted, GitType

LEMMA GitClaims ==
    ASSUME NEW g \in GitType, NEW kind \in {"made", "switched"}, NEW tip \in SUBSET Nat,
           NEW h, h = Claimed(g, kind, tip)
    PROVE  h \in GitType /\ h.kind = kind /\ h.prev = g.prev /\ h.tip = tip
    BY DEF Claimed, GitType

LEMMA GitMade ==
    ASSUME NEW g \in GitType, NEW h, h = [g EXCEPT !.kind = "made"]
    PROVE  h \in GitType /\ h.kind = "made" /\ h.prev = g.prev /\ h.tip = g.tip
    BY DEF GitType

LEMMA CreateAtsAre ==
    /\ "lock" \in CreateAts /\ "git" \in CreateAts /\ "checkout" \in CreateAts
    /\ "made" \in CreateAts /\ "switched" \in CreateAts /\ "topic" \in CreateAts
    /\ "title" \in CreateAts /\ "archive" \in CreateAts /\ "check" \in CreateAts
    /\ "back" \in CreateAts /\ "drop" \in CreateAts
    BY DEF CreateAts

ChildPlaces == {"lock", "wait", "final", "broken", "done"}
ChildAt(x, n, w) == [x EXCEPT !.child[n] = w]
ChildNoted(x, n, w, g) == [x EXCEPT !.child[n] = w, !.gen[n] = g]

LEMMA ClosingFields ==
    ASSUME NEW x \in Closing
    PROVE  /\ x.child \in [Names -> ChildPlaces]
           /\ x.gen \in [Names -> Nat] /\ x \in Handler
    BY DEF Closing, Handler, ChildPlaces

LEMMA ClosingGoes ==
    ASSUME NEW x \in Closing, NEW at \in {"drain", "channel", "failed"}
    PROVE  LET y == [x EXCEPT !.at = at] IN
           y \in Closing /\ y.at = at /\ y.child = x.child /\ y.gen = x.gen
    BY DEF Closing

LEMMA ChildMoved ==
    ASSUME NEW x \in Closing, NEW n \in Names, NEW w \in ChildPlaces
    PROVE  LET y == ChildAt(x, n, w) IN
           /\ y \in Closing /\ y.at = x.at /\ y.gen = x.gen
           /\ y.child = [x.child EXCEPT ![n] = w]
    BY DEF ChildAt, Closing, ChildPlaces

LEMMA ChildLookedAt ==
    ASSUME NEW x \in Closing, NEW n \in Names, NEW w \in ChildPlaces,
           NEW g \in Nat
    PROVE  LET y == ChildNoted(x, n, w, g) IN
           /\ y \in Closing /\ y.at = x.at /\ y.gen = [x.gen EXCEPT ![n] = g]
           /\ y.child = [x.child EXCEPT ![n] = w]
    BY DEF ChildNoted, Closing, ChildPlaces

\* One handler moves.
OpsStay(o) == \A p \in Ops \ {o} : op'[p] = op[p]

LEMMA OpUpdate ==
    ASSUME op \in [Ops -> Handler], NEW o \in Ops, NEW y \in Handler, op' = [op EXCEPT ![o] = y]
    PROVE  op' \in [Ops -> Handler] /\ op'[o] = y /\ OpsStay(o)
    BY DEF OpsStay

LEMMA IdleHandler == Idle \in Handler
    BY DEF Handler

\* The same facts of the next state.
LEMMA WhatItIsNext ==
    ASSUME op' \in [Ops -> Handler], NEW o \in Ops
    PROVE  /\ op'[o] \in Handler
           /\ Creates(o)' <=> op'[o] \in Creation
           /\ Closes(o)' <=> op'[o] \in Closing
           /\ At(o, "idle")' <=> op'[o] = Idle
           /\ op'[o].at \in CreateAts => op'[o] \in Creation
           /\ op'[o].at \in {"drain", "channel", "failed"} => op'[o] \in Closing
<1>1. op'[o] \in Handler
    OBVIOUS
<1>2. Creates(o)' <=> IsCreation(op'[o])
    BY DEF Creates, IsCreation
<1>3. op'[o] = Idle \/ op'[o] \in Creation \/ op'[o] \in Closing
    BY <1>1 DEF Handler
<1> QED
    BY <1>1, <1>2, <1>3, Kinds DEF Closes, At, CreateAts

-----------------------------------------------------------------------------
(***************************************************************************)
(* What a step of one part leaves of the others.                            *)
(***************************************************************************)
\* For a name that has no excuse, the stores say the same.
SameStores(n) ==
    /\ state'[n] = state[n] /\ queue'[n] = queue[n]
    /\ texts'[n].program = texts[n].program /\ (n \in agents' <=> n \in agents)

\* A creation that writes nothing new leaves tasks, closings and workspace as they were.
LEMMA TasksKept ==
    ASSUME Inv, Domains', NEW o \in Ops, OpsStay(o), ~Closes(o), ~Closes(o)',
           \A n \in Names \ excused' : SameStores(n),
           home' = home, plain' = plain, revived' = revived,
           excused \subseteq excused', excused' \cap {"overlap", "crash"} \subseteq excused
    PROVE  StoreOK' /\ QuietOK' /\ CoherentOK' /\ PlainOK'
<1>1. \A p \in Ops : Closes(p)' <=> Closes(p)
    BY DEF OpsStay, Closes, Creates, At
<1>2. \A p \in Ops : Closes(p) => op'[p] = op[p]
    BY DEF OpsStay
<1>3. \A n \in Names \ excused' : Live(n)' = Live(n)
    BY DEF SameStores, Live
<1>4. StoreOK'
    <2> SUFFICES ASSUME NEW n \in Names \ excused'
                 PROVE  IF n \in agents'
                        THEN /\ state'[n].status \in {"live", "waiting", "stopped"}
                             /\ state'[n].gen = texts'[n].program /\ state'[n].gen # 0
                             /\ \E e \in queue'[n] : queue'[n] = {e} /\ e.gen = state'[n].gen
                        ELSE state'[n].status \in {"none", "deleted"} /\ Live(n)' = {}
        BY DEF StoreOK
    <2>1. SameStores(n) /\ n \notin excused /\ Live(n)' = Live(n)
        BY <1>3
    <2> QED
        BY <2>1 DEF Inv, StoreOK, SameStores
<1>5. QuietOK'
    <2>1. \A n \in Names \ excused' : Runs(n)' <=> Runs(n)
        BY <1>3 DEF Runs, SameStores
    <2>2. \A p \in Ops : Closes(p)' =>
             \A n \in Names \ (revived' \cup excused') : Runs(n)' => op'[p].child[n] \in {"lock", "broken"}
        BY <1>1, <1>2, <2>1 DEF Inv, QuietOK
    <2>3. \A p \in Ops : At(p, "channel")' => \A n \in Names : op'[p].child[n] = "done"
        <3>1. \A p \in Ops : At(p, "channel")' => Closes(p)'
            BY WhatItIsNext DEF Domains, At
        <3> QED
            BY <1>1, <1>2, <3>1 DEF Inv, QuietOK, At
    <2>4. ClosedIsQuiet'
        <3> SUFFICES ASSUME home' = "closed", NEW n \in Names \ (revived' \cup excused'),
                            state'[n].child, state'[n].status \in {"live", "waiting"}
                     PROVE  Live(n)' = {}
            BY DEF ClosedIsQuiet
        <3>1. SameStores(n) /\ n \notin revived \cup excused
            OBVIOUS
        <3> QED
            BY <1>3, <3>1 DEF Inv, QuietOK, ClosedIsQuiet, SameStores
    <2>5. \A p \in Ops : Closes(p)' =>
             \A n \in Names \ excused' : op'[p].child[n] # "done" => state'[n].status # "none"
        BY <1>1, <1>2 DEF Inv, QuietOK, SameStores
    <2> QED
        BY <2>2, <2>3, <2>4, <2>5 DEF QuietOK
<1>6. CoherentOK'
    <2> SUFFICES ASSUME NEW n \in Names \ excused', Stranded(n)'
                 PROVE  \E p \in Ops : /\ Closes(p)' /\ op'[p].at \in {"drain", "failed"}
                                       /\ op'[p].child[n] \in {"wait", "final"}
                                       /\ op'[p].gen[n] = state'[n].gen
        BY DEF CoherentOK
    <2>1. SameStores(n) /\ n \notin excused
        OBVIOUS
    <2>2. Stranded(n)
        BY <1>3, <2>1 DEF Stranded, SameStores
    <2> QED
        BY <1>1, <1>2, <2>1, <2>2 DEF Inv, CoherentOK, SameStores
<1>7. PlainOK'
    <2> SUFFICES ASSUME excused' \cap {"overlap", "crash"} = {} PROVE PlainOK'
        BY DEF PlainOK
    <2>1. excused \cap {"overlap", "crash"} = {}
        OBVIOUS
    <2> QED
        BY <1>1, <1>2, <2>1 DEF Inv, PlainOK
<1> QED
    BY <1>4, <1>5, <1>6, <1>7

\* What closings, tasks and their user do leaves the creations as they were.
LEMMA CreationsKept ==
    ASSUME Inv, Domains', \A p \in Ops : Creates(p) \/ Creates(p)' => op'[p] = op[p],
           repo' = repo, topics' \subseteq topics, agents' \subseteq agents,
           excused \subseteq excused', "switch" \in excused' => "switch" \in excused,
           \A p \in Ops : Past(p) /\ op[p].name \notin excused' =>
               LET n == op[p].name IN
               state'[n] = state[n] /\ queue'[n] = queue[n] /\ texts'[n] = texts[n],
           \/ starts' = starts /\ \A p \in Ops : op[p] = Idle => op'[p] = Idle
           \/ starts' = starts + 1
    PROVE  LockOK' /\ GensOK' /\ BeforeOK' /\ AloneOK' /\ SafeOK'
<1>1. \A p \in Ops : Creates(p)' <=> Creates(p)
    BY DEF Creates
<1>2. \A p \in Ops : Creates(p) => op'[p] = op[p]
    OBVIOUS
<1>3. \A p \in Ops : Past(p)' <=> Past(p)
    BY <1>1, <1>2 DEF Past, At
<1>4. LockOK'
    BY <1>1, <1>2, <1>3 DEF Inv, LockOK, Past
<1>5. starts \in Nat /\ starts' \in Nat /\ starts <= starts' /\ starts >= 1
    BY DEF Inv, Domains, GensOK
<1>6. GensOK'
    <2>1. starts' >= 1 /\ \A g \in topics' : g \in 1..starts'
        BY <1>5 DEF Inv, GensOK
    <2>2. \A p \in Ops : Creates(p)' => op'[p].gen \in 2..starts'
        BY <1>1, <1>2, <1>5 DEF Inv, GensOK
    <2> QED
        BY <1>1, <1>2, <2>1, <2>2 DEF Inv, GensOK
<1>7. BeforeOK'
    <2> SUFFICES ASSUME NEW p \in Ops, Past(p), op[p].name \notin excused'
                 PROVE  LET n == op[p].name  b == op[p].before IN
                        /\ state'[n] = b.state /\ queue'[n] = b.queue
                        /\ IF op[p].at \in {"topic", "title"} THEN texts'[n].program = b.texts.program
                                                              ELSE texts'[n] = b.texts
        BY <1>2, <1>3 DEF BeforeOK, Past
    <2> QED
        BY DEF Inv, BeforeOK
<1>8. AloneOK'
    <2>1. CASE starts' = starts /\ \A p \in Ops : op[p] = Idle => op'[p] = Idle
        <3>1. Alone' => Alone
            BY <2>1 DEF Alone
        <3> QED
            BY <1>1, <1>2, <2>1, <3>1 DEF Inv, AloneOK
    <2>2. CASE starts' = starts + 1
        <3>1. starts' # 1 /\ (starts' = 2 => starts = 1)
            BY <1>5, <2>2
        <3>2. \A p \in Ops : op[p] = Idle => ~Creates(p)
            BY Kinds DEF Creates, IsCreation
        <3> QED
            BY <1>1, <3>1, <3>2 DEF Inv, AloneOK, Alone
    <2> QED
        BY <2>1, <2>2
<1>9. SafeOK'
    <2>1. \A b \in Branches : Doomed(b)' <=> Doomed(b)
        BY <1>1, <1>2 DEF Doomed
    <2>2. repo.branches \subseteq Branches
        BY RepoFields DEF Inv, Domains
    <2> QED
        BY <1>1, <1>2, <2>1, <2>2 DEF Inv, SafeOK
<1> QED
    BY <1>4, <1>6, <1>7, <1>8, <1>9

-----------------------------------------------------------------------------
(***************************************************************************)
(* A creation moves.                                                        *)
(***************************************************************************)
Topical(x) ==
    /\ x.at \in {"title", "archive"} => x.topic
    /\ x.at \in {"lock", "git", "checkout", "made", "switched", "topic"} => ~x.topic

LEMMA CreationMoved ==
    ASSUME Inv, Domains', NEW o \in Ops, op[o] \in Creation, OpsStay(o),
           \/ op'[o] = Idle
           \/ /\ op'[o] \in Creation /\ SameTask(op[o], op'[o]) /\ op'[o].at # "lock"
              /\ Past(o) \/ (~Locked(op[o].name) /\ op[o].name \notin agents),
           agents' \subseteq agents \cup (IF op'[o] = Idle /\ Past(o) THEN {op[o].name} ELSE {}),
           starts' = starts, repo'.made = repo.made, excused \subseteq excused',
           \/ topics' \subseteq topics
           \/ op'[o] # Idle /\ op'[o].at = "title" /\ topics' \subseteq topics \cup {op[o].gen},
           op'[o] \in Creation =>
              /\ op[o].gen \in topics' => op'[o].at \in {"title", "archive"} \/ "topic" \in excused'
              /\ Topical(op'[o]),
           \A m \in Names : m # op[o].name \/ ~Past(o) =>
              state'[m] = state[m] /\ queue'[m] = queue[m] /\ texts'[m] = texts[m],
           op'[o] \in Creation /\ op[o].name \notin excused' =>
              LET n == op[o].name  b == op'[o].before IN
              /\ state'[n] = b.state /\ queue'[n] = b.queue
              /\ IF op'[o].at \in {"topic", "title"} THEN texts'[n].program = b.texts.program
                                                     ELSE texts'[n] = b.texts,
           Alone' /\ op'[o] \in Creation => Placed(op'[o], repo')
    PROVE  LockOK' /\ GensOK' /\ BeforeOK' /\ AloneOK'
<1> DEFINE n == op[o].name
<1>1. op \in [Ops -> Handler] /\ op' \in [Ops -> Handler] /\ n \in Names /\ Creates(o)
    BY CreationFields, WhatItIs DEF Inv, Domains
<1>2. \A p \in Ops \ {o} : (Creates(p)' <=> Creates(p)) /\ op'[p] = op[p] /\ (Past(p)' <=> Past(p))
    BY DEF OpsStay, Creates, Past, At
<1>3. Creates(o)' <=> op'[o] \in Creation
    BY <1>1, WhatItIsNext
<1>4. op'[o] \in Creation => op'[o].name = n /\ op'[o].gen = op[o].gen /\ op'[o] # Idle
    BY Kinds DEF SameTask
<1>5. \A p \in Ops \ {o} : Past(p) /\ (Past(o) \/ op'[o] \in Creation) => op[p].name # n
    <2> SUFFICES ASSUME NEW p \in Ops \ {o}, Past(p), op[p].name = n PROVE ~Past(o) /\ op'[o] \notin Creation
        OBVIOUS
    <2>1. ~Past(o)
        BY DEF Inv, LockOK
    <2>2. Locked(n)
        BY DEF Locked, Past, At
    <2> QED
        BY <1>4, <2>1, <2>2
<1>6. Past(o)' => op'[o] \in Creation
    BY <1>3 DEF Past
<1> HIDE DEF n
<1>7. LockOK'
    <2>1. ASSUME NEW p \in Ops, NEW q \in Ops, Past(p)', Past(q)', op'[p].name = op'[q].name
          PROVE  p = q
        <3>1. CASE p # o /\ q # o
            BY <1>2, <2>1, <3>1 DEF Inv, LockOK
        <3>2. CASE p = o /\ q # o
            BY <1>2, <1>4, <1>5, <1>6, <2>1, <3>2
        <3>3. CASE p # o /\ q = o
            BY <1>2, <1>4, <1>5, <1>6, <2>1, <3>3
        <3> QED
            BY <3>1, <3>2, <3>3
    <2>2. ASSUME NEW p \in Ops, Past(p)' PROVE op'[p].name \notin agents'
        <3>1. CASE p # o
            BY <1>2, <1>5, <2>2, <3>1 DEF Inv, LockOK, n
        <3>2. CASE p = o
            BY <1>4, <1>6, <2>2, <3>2 DEF Inv, LockOK, n
        <3> QED
            BY <3>1, <3>2
    <2> QED
        BY <2>1, <2>2 DEF LockOK
<1>8. GensOK'
    <2>1. starts' >= 1 /\ op[o].gen \in 2..starts' /\ \A g \in topics' : g \in 1..starts'
        <3>1. starts >= 1 /\ op[o].gen \in 2..starts /\ \A g \in topics : g \in 1..starts
            BY <1>1 DEF Inv, GensOK
        <3>2. starts \in Nat
            BY DEF Inv, Domains
        <3> QED
            BY <3>1, <3>2
    <2>2. \A p \in Ops : Creates(p)' => op'[p].gen = op[p].gen /\ Creates(p)
        BY <1>1, <1>2, <1>3, <1>4
    <2>3. \A p \in Ops : Creates(p)' => op'[p].gen \in 2..starts'
        BY <2>2 DEF Inv, GensOK
    <2>4. \A p, q \in Ops : Creates(p)' /\ Creates(q)' /\ op'[p].gen = op'[q].gen => p = q
        BY <2>2 DEF Inv, GensOK
    <2>5. ASSUME NEW p \in Ops, Creates(p)'
          PROVE  /\ op'[p].gen \in topics' => op'[p].at \in {"title", "archive"} \/ "topic" \in excused'
                 /\ op'[p].at \in {"title", "archive"} => op'[p].topic
                 /\ op'[p].at \in {"lock", "git", "checkout", "made", "switched", "topic"} => ~op'[p].topic
        <3>1. CASE p = o
            BY <1>3, <1>4, <2>5, <3>1 DEF Topical
        <3>2. CASE p # o
            <4>1. Creates(p) /\ op'[p] = op[p] /\ op[p].gen # op[o].gen
                BY <1>1, <2>2, <2>5, <1>2, <3>2 DEF Inv, GensOK
            <4>2. op[p].gen \in topics' => op[p].gen \in topics
                BY <4>1
            <4> QED
                BY <4>1, <4>2 DEF Inv, GensOK
        <3> QED
            BY <3>1, <3>2
    <2> QED
        BY <2>1, <2>3, <2>4, <2>5 DEF GensOK
<1>9. BeforeOK'
    <2> SUFFICES ASSUME NEW p \in Ops, Past(p)', op'[p].name \notin excused'
                 PROVE  LET m == op'[p].name  b == op'[p].before IN
                        /\ state'[m] = b.state /\ queue'[m] = b.queue
                        /\ IF op'[p].at \in {"topic", "title"} THEN texts'[m].program = b.texts.program
                                                               ELSE texts'[m] = b.texts
        BY DEF BeforeOK
    <2>1. CASE p = o
        BY <1>4, <1>6, <2>1 DEF n
    <2>2. CASE p # o
        <3>1. Past(p) /\ op'[p] = op[p] /\ op[p] \in Creation
            BY <1>1, <1>2, <2>2, WhatItIs DEF Past
        <3>2. op[p].name \in Names /\ (op[p].name # n \/ ~Past(o))
            BY <1>5, <2>2, <3>1, CreationFields
        <3>3. LET m == op[p].name IN
              state'[m] = state[m] /\ queue'[m] = queue[m] /\ texts'[m] = texts[m]
            BY <3>2 DEF n
        <3> QED
            BY <3>1, <3>3 DEF Inv, BeforeOK
    <2> QED
        BY <2>1, <2>2
<1>10. AloneOK'
    <2>1. starts' # 1
        BY <1>1, Kinds DEF Inv, AloneOK
    <2>2. Alone' => Alone
        BY DEF Alone
    <2>3. Alone => \A p \in Ops \ {o} : op[p] = Idle
        BY <1>1 DEF Inv, AloneOK
    <2>4. \A p \in Ops \ {o} : op[p] = Idle => ~Creates(p)'
        BY <1>2, Kinds DEF Creates, IsCreation
    <2> QED
        BY <1>2, <1>3, <2>1, <2>2, <2>3, <2>4 DEF AloneOK
<1> QED
    BY <1>7, <1>8, <1>9, <1>10

\* A creation that leaves the repository alone endangers no branch it did not before.
GitSane(x) ==
    /\ x.at \in {"lock", "git", "checkout", "made", "switched"} => x.git.kind = "none"
    /\ x.at \in {"back", "drop"} => x.git.kind # "none"
    /\ x.at = "drop" => x.git.kind = "made"

LEMMA SafeKept ==
    ASSUME Inv, Domains', NEW o \in Ops, op[o] \in Creation, OpsStay(o),
           repo' = repo, excused \subseteq excused',
           \/ op'[o] = Idle
           \/ /\ op'[o] \in Creation /\ SameTask(op[o], op'[o]) /\ GitSane(op'[o])
              /\ op'[o].git.tip \subseteq 1..repo.made
              /\ Removes(op'[o], repo) => Removes(op[o], repo)
    PROVE  SafeOK'
<1>1. op \in [Ops -> Handler] /\ op' \in [Ops -> Handler] /\ Creates(o)
    BY WhatItIs DEF Inv, Domains
<1>2. \A p \in Ops \ {o} : (Creates(p)' <=> Creates(p)) /\ op'[p] = op[p]
    BY DEF OpsStay, Creates
<1>3. Creates(o)' => op'[o] \in Creation /\ op'[o] # Idle
    BY <1>1, WhatItIsNext, Kinds
<1>4. ASSUME NEW b, Doomed(b)' PROVE Doomed(b)
    <2>1. PICK p \in Ops : Creates(p)' /\ op'[p].name = b /\ Removes(op'[p], repo)
        BY <1>4 DEF Doomed
    <2>2. CASE p = o
        BY <1>1, <1>3, <2>1, <2>2 DEF Doomed, SameTask
    <2>3. CASE p # o
        BY <1>2, <2>1, <2>3 DEF Doomed
    <2> QED
        BY <2>2, <2>3
<1>5. \A p \in Ops : Creates(p)' =>
         /\ op'[p].git.tip \subseteq 1..repo.made
         /\ op'[p].at \in {"lock", "git", "checkout", "made", "switched"} => op'[p].git.kind = "none"
         /\ op'[p].at \in {"back", "drop"} => op'[p].git.kind # "none"
         /\ op'[p].at = "drop" => op'[p].git.kind = "made"
    <2> SUFFICES ASSUME NEW p \in Ops, Creates(p)'
                 PROVE  op'[p].git.tip \subseteq 1..repo.made /\ GitSane(op'[p])
        BY DEF GitSane
    <2>1. CASE p = o
        BY <1>3, <2>1
    <2>2. CASE p # o
        BY <1>2, <2>2 DEF Inv, SafeOK, GitSane
    <2> QED
        BY <2>1, <2>2
<1> QED
    BY <1>4, <1>5 DEF Inv, SafeOK

\* A creation moves in its own record and on its own name; the repository stays.
LEMMA CreationStep ==
    ASSUME Inv, NEW o \in Ops, op[o] \in Creation, op' \in [Ops -> Handler], OpsStay(o),
           \/ op'[o] = Idle
           \/ /\ op'[o] \in Creation /\ SameTask(op[o], op'[o]) /\ op'[o].at # "lock"
              /\ Past(o) \/ (~Locked(op[o].name) /\ op[o].name \notin agents)
              /\ op[o].gen \in topics' => op'[o].at \in {"title", "archive"} \/ "topic" \in excused'
              /\ Topical(op'[o]) /\ GitSane(op'[o])
              /\ op'[o].git.tip \subseteq 1..repo.made
              /\ Removes(op'[o], repo) => Removes(op[o], repo)
              /\ op[o].name \notin excused' =>
                    LET n == op[o].name  b == op'[o].before IN
                    /\ state'[n] = b.state /\ queue'[n] = b.queue
                    /\ IF op'[o].at \in {"topic", "title"} THEN texts'[n].program = b.texts.program
                                                           ELSE texts'[n] = b.texts
              /\ Alone' => Placed(op'[o], repo),
           UNCHANGED <<home, plain, proc, repo, starts, crashes, revived>>,
           state' \in [Names -> StateType], texts' \in [Names -> TextsType],
           queue' \in [Names -> SUBSET Entry],
           excused \subseteq excused', excused' \cap {"overlap", "crash"} \subseteq excused,
           \/ topics' \subseteq topics
           \/ op'[o] # Idle /\ op'[o].at = "title" /\ topics' \subseteq topics \cup {op[o].gen},
           \A m \in Names : m # op[o].name \/ ~Past(o) =>
              state'[m] = state[m] /\ queue'[m] = queue[m] /\ texts'[m] = texts[m],
           agents' \subseteq agents, \A n \in Names \ excused' : SameStores(n)
    PROVE  Inv'
<1>1. Domains'
    BY DEF Inv, Domains
<1>2. ~Closes(o) /\ ~Closes(o)'
    BY Kinds DEF Closes, Creates, IsCreation, At
<1>3. StoreOK' /\ QuietOK' /\ CoherentOK' /\ PlainOK'
    BY <1>1, <1>2, TasksKept
<1>4. SafeOK'
    BY <1>1, SafeKept
<1>5. op'[o] \in Creation => op'[o] # Idle
    BY Kinds
<1>6. LockOK' /\ GensOK' /\ BeforeOK' /\ AloneOK'
    <2>1. /\ agents' \subseteq agents \cup (IF op'[o] = Idle /\ Past(o) THEN {op[o].name} ELSE {})
          /\ starts' = starts /\ repo'.made = repo.made /\ repo' = repo
        OBVIOUS
    <2>2. \/ op'[o] = Idle
          \/ /\ op'[o] \in Creation /\ SameTask(op[o], op'[o]) /\ op'[o].at # "lock"
             /\ Past(o) \/ (~Locked(op[o].name) /\ op[o].name \notin agents)
        OBVIOUS
    <2>3. op'[o] \in Creation =>
             /\ op[o].gen \in topics' => op'[o].at \in {"title", "archive"} \/ "topic" \in excused'
             /\ Topical(op'[o])
        BY <1>5
    <2>4. op'[o] \in Creation /\ op[o].name \notin excused' =>
             LET n == op[o].name  b == op'[o].before IN
             /\ state'[n] = b.state /\ queue'[n] = b.queue
             /\ IF op'[o].at \in {"topic", "title"} THEN texts'[n].program = b.texts.program
                                                    ELSE texts'[n] = b.texts
        BY <1>5
    <2>5. Alone' /\ op'[o] \in Creation => Placed(op'[o], repo')
        BY <1>5, <2>1
    <2>6. \/ topics' \subseteq topics
          \/ op'[o] # Idle /\ op'[o].at = "title" /\ topics' \subseteq topics \cup {op[o].gen}
        OBVIOUS
    <2>7. \A m \in Names : m # op[o].name \/ ~Past(o) =>
             state'[m] = state[m] /\ queue'[m] = queue[m] /\ texts'[m] = texts[m]
        OBVIOUS
    <2> QED
        BY ONLY Inv, o \in Ops, op[o] \in Creation, OpsStay(o), excused \subseteq excused',
           <1>1, <2>1, <2>2, <2>3, <2>4, <2>5, <2>6, <2>7, CreationMoved
<1> QED
    BY <1>1, <1>3, <1>4, <1>6 DEF Inv

\* What is known of the creation that moves.
LEMMA CreationFacts ==
    ASSUME Inv, NEW o \in Ops, op[o].at \in CreateAts
    PROVE  /\ op[o] \in Creation /\ Creates(o) /\ op[o].name \in Names /\ op[o].git \in GitType
           /\ op[o].before \in BeforeType /\ op \in [Ops -> Handler]
           /\ GitSane(op[o]) /\ op[o].git.tip \subseteq 1..repo.made /\ Topical(op[o])
           /\ op[o].at # "lock" => Past(o) /\ op[o].name \notin agents
           /\ op[o].gen \in topics => op[o].at \in {"title", "archive"} \/ "topic" \in excused
           /\ Alone => Placed(op[o], repo)
           /\ op[o].at # "lock" /\ op[o].name \notin excused =>
                    LET n == op[o].name  b == op[o].before IN
                    /\ state[n] = b.state /\ queue[n] = b.queue
                    /\ IF op[o].at \in {"topic", "title"} THEN texts[n].program = b.texts.program
                                                          ELSE texts[n] = b.texts
<1>1. op \in [Ops -> Handler]
    BY DEF Inv, Domains
<1>2. op[o] \in Creation /\ Creates(o)
    BY <1>1, WhatItIs
<1>3. op[o].at # "lock" => Past(o)
    BY <1>2 DEF Past, At
<1> QED
    BY <1>1, <1>2, <1>3, CreationFields
       DEF Inv, LockOK, GensOK, AloneOK, SafeOK, BeforeOK, GitSane, Topical

\* A creation ends, or is put aside, with nothing written and the repository as it is.
LEMMA EndStep ==
    ASSUME Inv, NEW o \in Ops, op[o].at \in CreateAts, op' = [op EXCEPT ![o] = Idle],
           UNCHANGED <<home, plain, agents, state, texts, queue, topics, proc, repo, starts,
                       crashes, revived>>,
           excused \subseteq excused', excused' \cap {"overlap", "crash"} \subseteq excused
    PROVE  Inv'
<1>1. op[o] \in Creation /\ op \in [Ops -> Handler]
    BY CreationFacts
<1>2. op' \in [Ops -> Handler] /\ op'[o] = Idle /\ OpsStay(o)
    BY <1>1, IdleHandler, OpUpdate
<1>3. \A n \in Names : SameStores(n)
    BY DEF SameStores
<1>4. state \in [Names -> StateType] /\ texts \in [Names -> TextsType] /\ queue \in [Names -> SUBSET Entry]
    BY DEF Inv, Domains
<1> QED
    BY <1>1, <1>2, <1>3, <1>4, CreationStep

\* It goes on with its record alone.
LEMMA WalkStep ==
    ASSUME Inv, NEW o \in Ops, op[o].at \in CreateAts, op[o].at # "lock",
           NEW y \in Creation, op' = [op EXCEPT ![o] = y],
           SameTask(op[o], y), y.before = op[o].before, y.at # "lock",
           y.at \notin {"topic", "title"} => op[o].at \notin {"topic", "title"},
           Topical(y), GitSane(y), y.git.tip \subseteq 1..repo.made,
           Removes(y, repo) => Removes(op[o], repo),
           Alone' /\ Placed(op[o], repo) => Placed(y, repo),
           UNCHANGED <<home, plain, agents, state, texts, queue, proc, repo, starts, crashes, revived>>,
           \/ y.at = "title" /\ topics' \subseteq topics \cup {op[o].gen}
           \/ topics' \subseteq topics /\ (op[o].gen \in topics' /\ op[o].at \in {"title", "archive"} =>
                 y.at \in {"title", "archive"} \/ "topic" \in excused'),
           excused \subseteq excused', excused' \cap {"overlap", "crash"} \subseteq excused
    PROVE  Inv'
<1>1. op[o] \in Creation /\ op \in [Ops -> Handler] /\ Past(o)
    BY CreationFacts
<1>2. y \in Handler /\ y # Idle
    BY CreationFields, Kinds
<1>3. op' \in [Ops -> Handler] /\ op'[o] = y /\ OpsStay(o)
    BY <1>1, <1>2, OpUpdate
<1>4. \A n \in Names : SameStores(n)
    BY DEF SameStores
<1>5. state \in [Names -> StateType] /\ texts \in [Names -> TextsType] /\ queue \in [Names -> SUBSET Entry]
    BY DEF Inv, Domains
<1>6. op[o].gen \in topics' => y.at \in {"title", "archive"} \/ "topic" \in excused'
    BY CreationFacts
<1>7. op[o].name \notin excused' =>
         LET n == op[o].name  b == y.before IN
         /\ state'[n] = b.state /\ queue'[n] = b.queue
         /\ IF y.at \in {"topic", "title"} THEN texts'[n].program = b.texts.program
                                           ELSE texts'[n] = b.texts
    BY CreationFacts
<1>8. Alone' => Placed(y, repo)
    <2>1. Alone' => Alone
        BY DEF Alone
    <2> QED
        BY <2>1, CreationFacts
<1> QED
    BY <1>1, <1>2, <1>3, <1>4, <1>5, <1>6, <1>7, <1>8, CreationStep

LEMMA ReserveStep ==
    ASSUME Inv, NEW o \in Ops, Reserve(o)
    PROVE  Inv'
<1> DEFINE n == op[o].name
           b == [state |-> state[n], texts |-> texts[n], queue |-> queue[n],
                 branch |-> n \in repo.branches]
           y == [op[o] EXCEPT !.at = "git", !.before = b]
<1>1. op[o].at = "lock" /\ op[o].at \in CreateAts /\ ~Locked(n)
    BY DEF Reserve, At, CreateAts
<1>2. UNCHANGED <<home, plain, agents, state, texts, queue, topics, proc, repo, starts, crashes,
                  revived, excused>>
    BY DEF Reserve, task, history
<1>3. CASE Taken(n)
    BY <1>1, <1>2, <1>3, EndStep DEF Reserve, Ends
<1>4. CASE ~Taken(n)
    <2>1. /\ op[o] \in Creation /\ n \in Names /\ op \in [Ops -> Handler] /\ Topical(op[o])
          /\ GitSane(op[o]) /\ op[o].git.tip \subseteq 1..repo.made
          /\ op[o].gen \in topics => "topic" \in excused
          /\ Alone => Placed(op[o], repo)
        BY <1>1, CreationFacts
    <2>2. /\ b \in BeforeType /\ b.state = state[n] /\ b.texts = texts[n] /\ b.queue = queue[n]
          /\ b.branch <=> n \in repo.branches
        <3>1. /\ state[n] \in StateType /\ texts[n] \in TextsType /\ queue[n] \in SUBSET Entry
            BY <2>1 DEF Inv, Domains
        <3>2. ASSUME NEW c \in BOOLEAN
              PROVE  [state |-> state[n], texts |-> texts[n], queue |-> queue[n], branch |-> c] \in BeforeType
            BY <3>1 DEF BeforeType
        <3>3. (n \in repo.branches) \in BOOLEAN
            OBVIOUS
        <3>4. b \in BeforeType
            BY <3>2, <3>3
        <3> QED
            BY <3>4
    <2>3. n \notin agents /\ op' = [op EXCEPT ![o] = y]
        BY <1>4 DEF Reserve, Taken
    <2> HIDE DEF b
    <2>y. y = Looks(op[o], "git", b)
        BY DEF Looks
    <2> HIDE DEF y
    <2>4. /\ y \in Creation /\ y.at = "git" /\ SameTask(op[o], y) /\ y.before = b
          /\ y.git = op[o].git /\ y.topic = op[o].topic
        <3>1. op[o] \in Creation /\ b \in BeforeType /\ "git" \in CreateAts
            BY <2>1, <2>2, CreateAtsAre
        <3> QED
            BY ONLY <2>y, <3>1, CreationLooks
    <2>5. op' \in [Ops -> Handler] /\ op'[o] = y /\ OpsStay(o)
        BY <2>1, <2>3, <2>4, CreationFields, OpUpdate
    <2>6. y.git.kind = "none" /\ Topical(y) /\ GitSane(y) /\ ~Removes(y, repo)
        BY <1>1, <2>1, <2>4 DEF Topical, GitSane, Removes
    <2>7. Alone' => Placed(y, repo)
        <3>1. Alone' => repo.head = "main"
            BY <1>1, <1>2, <2>1 DEF Alone, Placed
        <3>2. There(y, repo)
            BY <2>2, <2>4 DEF There, SameTask
        <3> QED
            BY <2>4, <3>1, <3>2 DEF Placed
    <2>8. \A m \in Names : SameStores(m)
        BY <1>2 DEF SameStores
    <2>9. state \in [Names -> StateType] /\ texts \in [Names -> TextsType] /\ queue \in [Names -> SUBSET Entry]
        BY DEF Inv, Domains
    <2>10. ~Past(o)
        BY <1>1 DEF Past, At
    <2> HIDE DEF n
    <2>11. LET c == y.before IN
           /\ state'[n] = c.state /\ queue'[n] = c.queue
           /\ IF y.at \in {"topic", "title"} THEN texts'[n].program = c.texts.program
                                             ELSE texts'[n] = c.texts
        BY <1>2, <2>2, <2>4
    <2> QED
        BY <1>1, <1>2, <2>1, <2>3, <2>4, <2>5, <2>6, <2>7, <2>8, <2>9, <2>10, <2>11, CreationStep DEF n
<1> QED
    BY <1>3, <1>4

LEMMA GitReadStep ==
    ASSUME Inv, NEW o \in Ops, GitRead(o)
    PROVE  Inv'
<1> DEFINE g == [op[o].git EXCEPT !.prev = repo.head, !.tip = repo.tip[repo.head]]
           y == [op[o] EXCEPT !.at = "checkout", !.git = g]
<1>1. op[o].at = "git" /\ op[o].at \in CreateAts
    BY DEF GitRead, At, CreateAts
<1>2. UNCHANGED <<home, plain, agents, state, texts, queue, topics, proc, repo, starts, crashes,
                  revived, excused>>
    BY DEF GitRead, task, history
<1>3. /\ op[o] \in Creation /\ op \in [Ops -> Handler] /\ Topical(op[o]) /\ op[o].git \in GitType
      /\ GitSane(op[o])
    BY <1>1, CreationFacts
<1>4. op' = [op EXCEPT ![o] = y]
    BY <1>3 DEF GitRead, Creation, GitType
<1>5. repo.head \in Branches /\ repo.tip[repo.head] \in SUBSET Nat /\ repo.tip[repo.head] \subseteq 1..repo.made
    <2>1. repo.head \in Branches /\ repo.tip \in [Branches -> SUBSET Nat]
        BY RepoFields DEF Inv, Domains
    <2> QED
        BY <2>1 DEF Inv, SafeOK
<1>g. g = HeadNoted(op[o].git, repo.head, repo.tip[repo.head])
    BY DEF HeadNoted
<1> HIDE DEF g
<1>6. g \in GitType /\ g.kind = "none" /\ g.prev = repo.head /\ g.tip = repo.tip[repo.head]
    BY <1>1, <1>3, <1>5, <1>g, GitLooks DEF GitSane
<1>y. y = Versions(op[o], "checkout", g)
    BY DEF Versions
<1> HIDE DEF y
<1>7. /\ y \in Creation /\ y.at = "checkout" /\ SameTask(op[o], y) /\ y.before = op[o].before
      /\ y.git = g /\ y.topic = op[o].topic
    <2>1. op[o] \in Creation /\ g \in GitType /\ "checkout" \in CreateAts
        BY <1>3, <1>6, CreateAtsAre
    <2> QED
        BY ONLY <1>y, <2>1, CreationVersions
<1>8. Topical(y) /\ GitSane(y) /\ ~Removes(y, repo) /\ y.git.tip \subseteq 1..repo.made
    BY <1>1, <1>3, <1>5, <1>6, <1>7 DEF Topical, GitSane, Removes
<1>9. Placed(op[o], repo) => Placed(y, repo)
    BY <1>1, <1>6, <1>7 DEF Placed, There, SameTask
<1> QED
    BY <1>1, <1>2, <1>4, <1>7, <1>8, <1>9, WalkStep

LEMMA TopicMadeStep ==
    ASSUME Inv, NEW o \in Ops, TopicMade(o)
    PROVE  Inv'
<1> DEFINE y == [op[o] EXCEPT !.at = "title", !.topic = TRUE]
<1>1. op[o].at = "topic" /\ op[o].at \in CreateAts
    BY DEF TopicMade, At, CreateAts
<1>2. /\ UNCHANGED <<home, plain, agents, state, texts, queue, proc, repo, starts, crashes, revived, excused>>
      /\ topics' = topics \cup {op[o].gen}
    BY DEF TopicMade, task, history
<1>3. /\ op[o] \in Creation /\ op \in [Ops -> Handler] /\ GitSane(op[o])
      /\ op[o].git.tip \subseteq 1..repo.made
    BY <1>1, CreationFacts
<1>4. op' = [op EXCEPT ![o] = y]
    BY DEF TopicMade
<1>y. y = HasTopic(op[o], "title")
    BY DEF HasTopic
<1> HIDE DEF y
<1>5. /\ y \in Creation /\ y.at = "title" /\ SameTask(op[o], y) /\ y.before = op[o].before
      /\ y.git = op[o].git /\ y.topic = TRUE
    BY <1>3, <1>y, CreationHasTopic, CreateAtsAre
<1>6. Topical(y) /\ GitSane(y) /\ (Removes(y, repo) => Removes(op[o], repo))
    BY <1>1, <1>3, <1>5 DEF Topical, GitSane, Removes, SameTask
<1>7. Placed(op[o], repo) => Placed(y, repo)
    BY <1>1, <1>5 DEF Placed, There, On, SameTask
<1> QED
    BY <1>1, <1>2, <1>3, <1>4, <1>5, <1>6, <1>7, WalkStep

LEMMA ArchiveStep ==
    ASSUME Inv, NEW o \in Ops, Archive(o)
    PROVE  Inv'
<1> DEFINE y == [op[o] EXCEPT !.at = "check"]
<1>1. op[o].at = "archive" /\ op[o].at \in CreateAts
    BY DEF Archive, At, CreateAts
<1>2. /\ UNCHANGED <<home, plain, agents, state, texts, queue, proc, repo, starts, crashes, revived>>
      /\ topics' \subseteq topics /\ (op[o].gen \in topics' => "topic" \in excused')
      /\ excused \subseteq excused' /\ excused' \subseteq excused \cup {"topic"}
    BY DEF Archive, task, Excuse
<1>3. /\ op[o] \in Creation /\ op \in [Ops -> Handler] /\ GitSane(op[o])
      /\ op[o].git.tip \subseteq 1..repo.made
    BY <1>1, CreationFacts
<1>4. op' = [op EXCEPT ![o] = y]
    BY DEF Archive, Goes
<1>5. /\ y \in Creation /\ y.at = "check" /\ SameTask(op[o], y) /\ y.before = op[o].before
      /\ y.git = op[o].git /\ y.topic = op[o].topic
    BY <1>3, CreationGoes, CreateAtsAre
<1> HIDE DEF y
<1>6. Topical(y) /\ GitSane(y) /\ (Removes(y, repo) => Removes(op[o], repo))
    BY <1>1, <1>3, <1>5 DEF Topical, GitSane, Removes, SameTask
<1>7. Placed(op[o], repo) => Placed(y, repo)
    BY <1>1, <1>5 DEF Placed, There, On, SameTask
<1>8. excused' \cap {"overlap", "crash"} \subseteq excused
    BY <1>2
<1> QED
    BY <1>1, <1>2, <1>3, <1>4, <1>5, <1>6, <1>7, <1>8, WalkStep

LEMMA GitCheckStep ==
    ASSUME Inv, NEW o \in Ops, GitCheck(o)
    PROVE  Inv'
<1> DEFINE y == [op[o] EXCEPT !.at = "back"]
<1>1. op[o].at = "check" /\ op[o].at \in CreateAts
    BY DEF GitCheck, At, CreateAts
<1>2. UNCHANGED <<home, plain, agents, state, texts, queue, topics, proc, repo, starts, crashes,
                  revived, excused>>
    BY DEF GitCheck, task, history
<1>3. /\ op[o] \in Creation /\ op \in [Ops -> Handler] /\ GitSane(op[o])
      /\ op[o].git.tip \subseteq 1..repo.made
    BY <1>1, CreationFacts
<1>4. CASE op[o].git.kind # "none" /\ Untouched(o)
    <2>1. op' = [op EXCEPT ![o] = y]
        BY <1>4 DEF GitCheck, Goes
    <2>2. /\ y \in Creation /\ y.at = "back" /\ SameTask(op[o], y) /\ y.before = op[o].before
          /\ y.git = op[o].git /\ y.topic = op[o].topic
        BY <1>3, CreationGoes, CreateAtsAre
    <2> HIDE DEF y
    <2>3. Topical(y) /\ GitSane(y)
        BY <1>4, <2>2 DEF Topical, GitSane
    <2>4. Removes(y, repo) => Removes(op[o], repo)
        BY <1>4, <2>2 DEF Removes, SameTask, Untouched
    <2>5. Placed(op[o], repo) => Placed(y, repo)
        BY <1>1, <2>2 DEF Placed, There, On, SameTask
    <2> QED
        BY <1>1, <1>2, <1>3, <2>1, <2>2, <2>3, <2>4, <2>5, WalkStep
<1>5. CASE ~(op[o].git.kind # "none" /\ Untouched(o))
    BY <1>1, <1>2, <1>5, EndStep DEF GitCheck, Ends
<1> QED
    BY <1>4, <1>5

\* It moves in the repository.
LEMMA RepoStep ==
    ASSUME Inv, NEW o \in Ops, op[o].at \in CreateAts, op[o].at \notin {"lock", "title", "archive"},
           op' \in [Ops -> Handler], OpsStay(o),
           \/ op'[o] = Idle
           \/ /\ op'[o] \in Creation /\ SameTask(op[o], op'[o]) /\ op'[o].before = op[o].before
              /\ op'[o].at \in {"made", "switched", "drop"} /\ Topical(op'[o])
              /\ op[o].at \notin {"topic", "title"}
              /\ Alone' => Placed(op'[o], repo'),
           repo' \in RepoType, repo'.made = repo.made, Domains' => SafeOK',
           UNCHANGED <<home, plain, agents, state, texts, queue, topics, proc, starts, crashes,
                       revived, excused>>
    PROVE  Inv'
<1>1. op[o] \in Creation /\ op \in [Ops -> Handler] /\ Past(o) /\ Creates(o)
    BY CreationFacts
<1>2. Domains'
    BY DEF Inv, Domains
<1>3. ~Closes(o) /\ ~Closes(o)'
    BY <1>1, Kinds DEF Closes, Creates, IsCreation, At
<1>4. \A n \in Names : SameStores(n)
    BY DEF SameStores
<1>5. StoreOK' /\ QuietOK' /\ CoherentOK' /\ PlainOK'
    BY <1>2, <1>3, <1>4, TasksKept
<1>6. op'[o] \in Creation => op'[o] # Idle
    BY Kinds
<1>7. LockOK' /\ GensOK' /\ BeforeOK' /\ AloneOK'
    <2>1. /\ agents' \subseteq agents \cup (IF op'[o] = Idle /\ Past(o) THEN {op[o].name} ELSE {})
          /\ starts' = starts /\ repo'.made = repo.made /\ excused \subseteq excused'
        OBVIOUS
    <2>2. \/ op'[o] = Idle
          \/ /\ op'[o] \in Creation /\ SameTask(op[o], op'[o]) /\ op'[o].at # "lock"
             /\ Past(o) \/ (~Locked(op[o].name) /\ op[o].name \notin agents)
        BY <1>1
    <2>3. op'[o] \in Creation =>
             /\ op[o].gen \in topics' => op'[o].at \in {"title", "archive"} \/ "topic" \in excused'
             /\ Topical(op'[o])
        BY <1>6, CreationFacts
    <2>4. op'[o] \in Creation /\ op[o].name \notin excused' =>
             LET n == op[o].name  b == op'[o].before IN
             /\ state'[n] = b.state /\ queue'[n] = b.queue
             /\ IF op'[o].at \in {"topic", "title"} THEN texts'[n].program = b.texts.program
                                                    ELSE texts'[n] = b.texts
        BY <1>6, CreationFacts
    <2>5. Alone' /\ op'[o] \in Creation => Placed(op'[o], repo')
        BY <1>6
    <2>6. \/ topics' \subseteq topics
          \/ op'[o] # Idle /\ op'[o].at = "title" /\ topics' \subseteq topics \cup {op[o].gen}
        OBVIOUS
    <2>7. \A m \in Names : m # op[o].name \/ ~Past(o) =>
             state'[m] = state[m] /\ queue'[m] = queue[m] /\ texts'[m] = texts[m]
        OBVIOUS
    <2> QED
        BY ONLY Inv, o \in Ops, OpsStay(o),
           <1>1, <1>2, <2>1, <2>2, <2>3, <2>4, <2>5, <2>6, <2>7, CreationMoved
<1> QED
    BY <1>2, <1>5, <1>7 DEF Inv

\* Nobody new endangers a branch whose tip has not moved.
LEMMA SafeMoved ==
    ASSUME Inv, Domains', NEW o \in Ops, op[o] \in Creation, OpsStay(o),
           excused' = excused, repo'.made = repo.made, repo' \in RepoType,
           repo'.head \in repo'.branches, "main" \in repo'.branches,
           \A b \in Branches : b # op[o].name => repo'.tip[b] = repo.tip[b],
           \A b \in repo.branches : b # op[o].name => b \in repo'.branches,
           repo'.tip[op[o].name] \subseteq 1..repo.made,
           \/ Doomed(op[o].name)
           \/ /\ op[o].name \in repo.branches =>
                    /\ op[o].name \in repo'.branches /\ repo'.tip[op[o].name] = repo.tip[op[o].name]
                    /\ op'[o] \in Creation => ~Removes(op'[o], repo')
              /\ \A p \in Ops \ {o} :
                    Creates(p) /\ op[p].name = op[o].name /\ Removes(op[p], repo') =>
                       Removes(op[p], repo) \/ op[o].name \notin repo.branches,
           \/ op'[o] = Idle
           \/ /\ op'[o] \in Creation /\ SameTask(op[o], op'[o]) /\ GitSane(op'[o])
              /\ op'[o].git.tip \subseteq 1..repo.made
    PROVE  SafeOK'
<1>0. PICK n \in Names : n = op[o].name
    BY CreationFields
<1>1. op \in [Ops -> Handler] /\ op' \in [Ops -> Handler] /\ Creates(o)
    BY WhatItIs DEF Inv, Domains
<1>2. \A p \in Ops \ {o} : (Creates(p)' <=> Creates(p)) /\ op'[p] = op[p]
    BY DEF OpsStay, Creates
<1>3. Creates(o)' => op'[o] \in Creation /\ op'[o] # Idle
    BY <1>1, WhatItIsNext, Kinds
<1>4. ASSUME NEW b \in Branches, b # n, Doomed(b)' PROVE Doomed(b)
    <2>1. PICK p \in Ops : Creates(p)' /\ op'[p].name = b /\ Removes(op'[p], repo')
        BY <1>4 DEF Doomed
    <2>2. p # o
        BY <1>0, <1>3, <1>4, <2>1 DEF SameTask
    <2>3. Creates(p) /\ op'[p] = op[p] /\ repo'.tip[b] = repo.tip[b]
        BY <1>0, <1>2, <1>4, <2>1, <2>2
    <2> QED
        BY <2>1, <2>3 DEF Doomed, Removes
<1>5. ASSUME ~Doomed(n), n \in repo.branches
      PROVE  ~Doomed(n)' /\ n \in repo'.branches /\ repo'.tip[n] = repo.tip[n]
    <2>1. n \in repo'.branches /\ repo'.tip[n] = repo.tip[n] /\ (op'[o] \in Creation => ~Removes(op'[o], repo'))
        BY <1>0, <1>5
    <2>2. ASSUME NEW p \in Ops, Creates(p)', op'[p].name = n, Removes(op'[p], repo') PROVE FALSE
        <3>1. p # o
            BY <1>3, <2>1, <2>2
        <3>2. Creates(p) /\ op[p].name = n /\ Removes(op[p], repo)
            BY <1>0, <1>2, <1>5, <2>2, <3>1
        <3> QED
            BY <1>5, <3>2 DEF Doomed
    <2> QED
        BY <2>1, <2>2 DEF Doomed
<1>6. \A p \in Ops : Creates(p)' =>
         /\ op'[p].git.tip \subseteq 1..repo.made
         /\ op'[p].at \in {"lock", "git", "checkout", "made", "switched"} => op'[p].git.kind = "none"
         /\ op'[p].at \in {"back", "drop"} => op'[p].git.kind # "none"
         /\ op'[p].at = "drop" => op'[p].git.kind = "made"
    <2> SUFFICES ASSUME NEW p \in Ops, Creates(p)'
                 PROVE  op'[p].git.tip \subseteq 1..repo.made /\ GitSane(op'[p])
        BY DEF GitSane
    <2>1. CASE p = o
        BY <1>3, <2>1
    <2>2. CASE p # o
        BY <1>2, <2>2 DEF Inv, SafeOK, GitSane
    <2> QED
        BY <2>1, <2>2
<1>7. ASSUME "unseen commit" \notin excused', NEW c \in 1..repo.made
      PROVE  \E b \in repo'.branches : c \in repo'.tip[b] /\ ~Doomed(b)'
    <2>1. PICK b \in repo.branches : c \in repo.tip[b] /\ ~Doomed(b)
        BY <1>7 DEF Inv, SafeOK
    <2>2. b \in Branches
        BY RepoFields DEF Inv, Domains
    <2>3. CASE b = n
        BY <1>5, <2>1, <2>3
    <2>4. CASE b # n
        BY <1>0, <1>4, <2>1, <2>2, <2>4
    <2> QED
        BY <2>3, <2>4
<1>8. \A b \in Branches : repo'.tip[b] \subseteq 1..repo'.made
    BY DEF Inv, SafeOK
<1> QED
    BY <1>6, <1>7, <1>8 DEF SafeOK

LEMMA GitCheckoutStep ==
    ASSUME Inv, NEW o \in Ops, GitCheckout(o)
    PROVE  Inv'
<1> DEFINE n == op[o].name
           at == IF n \in repo.branches THEN "switched" ELSE "made"
           y == [op[o] EXCEPT !.at = at]
<1>1. op[o].at = "checkout" /\ op[o].at \in CreateAts /\ at \in CreateAts
    BY DEF GitCheckout, At, CreateAts
<1>2. UNCHANGED <<home, plain, agents, state, texts, queue, topics, proc, starts, crashes,
                  revived, excused>>
    BY DEF GitCheckout, task, history
<1>3. /\ op[o] \in Creation /\ op \in [Ops -> Handler] /\ Topical(op[o]) /\ op[o].git \in GitType
      /\ GitSane(op[o]) /\ op[o].git.tip \subseteq 1..repo.made /\ n \in Names
      /\ Alone => Placed(op[o], repo)
    BY <1>1, CreationFacts
<1>4. op' = [op EXCEPT ![o] = y]
    BY DEF GitCheckout, Goes
<1>5. n \in Branches /\ repo.head \in Branches /\ n # "main"
    BY <1>3, RepoFields, WorkspacesAssumption DEF Branches, Inv, Domains
<1>6. /\ repo' \in RepoType /\ repo'.head = n /\ repo'.branches = repo.branches \cup {n}
      /\ repo'.made = repo.made
      /\ repo'.tip[n] = IF n \in repo.branches THEN repo.tip[n] ELSE repo.tip[repo.head]
      /\ \A b \in Branches : b # n => repo'.tip[b] = repo.tip[b]
    <2>1. repo \in RepoType
        BY DEF Inv, Domains
    <2>2. repo' = [repo EXCEPT !.head = n, !.branches = @ \cup {n},
                               !.tip[n] = IF n \in repo.branches THEN @ ELSE repo.tip[repo.head]]
        BY DEF GitCheckout
    <2> HIDE DEF n
    <2> QED
        BY <1>5, <2>1, <2>2 DEF RepoType
<1>7. /\ y \in Creation /\ y.at = at /\ SameTask(op[o], y) /\ y.before = op[o].before
      /\ y.git = op[o].git /\ y.topic = op[o].topic
    BY <1>1, <1>3, CreationGoes
<1> HIDE DEF y
<1>8. op' \in [Ops -> Handler] /\ op'[o] = y /\ OpsStay(o)
    BY <1>3, <1>4, <1>7, CreationFields, OpUpdate
<1>9. Topical(y) /\ GitSane(y) /\ (n \in repo.branches => ~Removes(y, repo'))
    BY <1>1, <1>3, <1>7 DEF Topical, GitSane, Removes
<1>10. Alone' => Placed(y, repo')
    <2>1. SUFFICES ASSUME Alone' PROVE Placed(y, repo')
        OBVIOUS
    <2>2. Alone /\ Placed(op[o], repo)
        BY <1>2, <1>3, <1>6, <2>1 DEF Alone
    <2>3. /\ repo.head = "main" /\ (n \in repo.branches <=> op[o].before.branch)
          /\ op[o].git.prev = "main" /\ op[o].git.tip = repo.tip["main"]
        BY <1>1, <2>2 DEF Placed, There
    <2> QED
        BY <1>6, <1>7, <2>3 DEF Placed, On, SameTask
<1>11. Domains' => SafeOK'
    <2>1. SUFFICES ASSUME Domains' PROVE SafeOK'
        OBVIOUS
    <2>2. /\ "main" \in repo.branches /\ repo'.tip[n] \subseteq 1..repo.made
        BY <1>5, <1>6 DEF Inv, SafeOK
    <2>3. n \in repo.branches =>
             /\ n \in repo'.branches /\ repo'.tip[n] = repo.tip[n]
             /\ op'[o] \in Creation => ~Removes(op'[o], repo')
        BY <1>6, <1>8, <1>9
    <2>4. \A p \in Ops \ {o} : Creates(p) /\ op[p].name = n /\ Removes(op[p], repo') =>
             Removes(op[p], repo) \/ n \notin repo.branches
        BY <1>6 DEF Removes
    <2>5. \A b \in repo.branches : b # n => b \in repo'.branches
        BY <1>6
    <2>6. /\ op'[o] \in Creation /\ SameTask(op[o], op'[o]) /\ GitSane(op'[o])
          /\ op'[o].git.tip \subseteq 1..repo.made
        BY <1>3, <1>7, <1>8, <1>9
    <2>7. repo'.head \in repo'.branches /\ "main" \in repo'.branches /\ excused' = excused
        BY <1>2, <1>6, <2>2
    <2> QED
        BY ONLY Inv, o \in Ops, <1>3, <1>6, <1>8, <2>1, <2>2, <2>3, <2>4, <2>5, <2>6, <2>7, SafeMoved
<1>12. op'[o].at \in {"made", "switched", "drop"} /\ Topical(op'[o]) /\ op'[o] \in Creation
       /\ SameTask(op[o], op'[o]) /\ op'[o].before = op[o].before
    BY <1>7, <1>8, <1>9
<1> QED
    BY <1>1, <1>2, <1>6, <1>8, <1>10, <1>11, <1>12, RepoStep

LEMMA GitBackStep ==
    ASSUME Inv, NEW o \in Ops, GitBack(o)
    PROVE  Inv'
<1> DEFINE y == [op[o] EXCEPT !.at = "drop"]
<1>0. PICK n \in Names : n = op[o].name
    BY CreationFacts, CreateAtsAre DEF GitBack, At
<1>1. op[o].at = "back" /\ op[o].at \in CreateAts
    BY DEF GitBack, At, CreateAts
<1>2. UNCHANGED <<home, plain, agents, state, texts, queue, topics, proc, starts, crashes,
                  revived, excused>>
    BY DEF GitBack, task, history
<1>3. /\ op[o] \in Creation /\ op \in [Ops -> Handler] /\ Topical(op[o]) /\ op[o].git \in GitType
      /\ GitSane(op[o]) /\ op[o].git.tip \subseteq 1..repo.made /\ Creates(o)
      /\ Alone => Placed(op[o], repo)
    BY <1>1, CreationFacts
<1>4. CASE op[o].git.prev \notin repo.branches
    BY <1>1, <1>2, <1>4, EndStep DEF GitBack, Ends
<1>5. CASE op[o].git.prev \in repo.branches
    <2>1. op[o].git.prev \in Branches
        BY <1>3, GitFields
    <2>2. /\ repo' \in RepoType /\ repo'.head = op[o].git.prev /\ repo'.branches = repo.branches
          /\ repo'.made = repo.made /\ repo'.tip = repo.tip
        <3>1. repo \in RepoType
            BY DEF Inv, Domains
        <3>2. repo' = [repo EXCEPT !.head = op[o].git.prev]
            BY <1>5 DEF GitBack
        <3> QED
            BY <2>1, <3>1, <3>2 DEF RepoType
    <2>3. /\ "main" \in repo'.branches /\ repo'.head \in repo'.branches
          /\ \A b \in Branches : b # n => repo'.tip[b] = repo.tip[b]
          /\ \A b \in repo.branches : b # n => b \in repo'.branches
          /\ repo'.tip[n] \subseteq 1..repo.made
          /\ \A p \in Ops \ {o} : Creates(p) /\ op[p].name = n /\ Removes(op[p], repo') =>
                Removes(op[p], repo) \/ n \notin repo.branches
        <3>1. "main" \in repo.branches /\ repo.tip[n] \subseteq 1..repo.made
            BY DEF Inv, SafeOK, Branches
        <3>2. \A x : Removes(x, repo') <=> Removes(x, repo)
            BY <2>2 DEF Removes
        <3> QED
            BY <1>5, <2>2, <3>1, <3>2
    <2>4. CASE op[o].git.kind = "made"
        <3>1. op' = [op EXCEPT ![o] = y]
            BY <1>5, <2>4 DEF GitBack, Goes
        <3>2. /\ y \in Creation /\ y.at = "drop" /\ SameTask(op[o], y) /\ y.before = op[o].before
              /\ y.git = op[o].git /\ y.topic = op[o].topic
            BY <1>3, CreationGoes, CreateAtsAre
        <3> HIDE DEF y
        <3>3. op' \in [Ops -> Handler] /\ op'[o] = y /\ OpsStay(o)
            BY <1>3, <3>1, <3>2, CreationFields, OpUpdate
        <3>4. Topical(y) /\ GitSane(y)
            BY <2>4, <3>2 DEF Topical, GitSane
        <3>5. Alone' => Placed(y, repo')
            <4>1. Alone' => Alone
                BY <1>2, <2>2 DEF Alone
            <4>2. Placed(op[o], repo) => ~op[o].before.branch /\ op[o].git.prev = "main"
                BY <1>1, <2>4 DEF Placed, On
            <4> QED
                BY <1>3, <2>2, <3>2, <4>1, <4>2 DEF Placed
        <3>6. Doomed(n)
            BY <1>0, <1>1, <1>3, <2>4 DEF Doomed, Removes
        <3>7. Domains' => SafeOK'
            <4>1. SUFFICES ASSUME Domains' PROVE SafeOK'
                OBVIOUS
            <4>2. /\ op'[o] \in Creation /\ SameTask(op[o], op'[o]) /\ GitSane(op'[o])
                  /\ op'[o].git.tip \subseteq 1..repo.made
                BY <1>3, <3>2, <3>3, <3>4
            <4> QED
                BY ONLY Inv, o \in Ops, <4>1, <1>0, <1>2, <1>3, <2>2, <2>3, <3>3, <3>6, <4>2, SafeMoved
        <3>8. op'[o].at \in {"made", "switched", "drop"} /\ Topical(op'[o]) /\ op'[o] \in Creation
              /\ SameTask(op[o], op'[o]) /\ op'[o].before = op[o].before
            BY <3>2, <3>3, <3>4
        <3> QED
            BY <1>1, <1>2, <2>2, <3>3, <3>5, <3>7, <3>8, RepoStep
    <2>5. CASE op[o].git.kind # "made"
        <3>1. op' = [op EXCEPT ![o] = Idle]
            BY <1>5, <2>5 DEF GitBack, Ends
        <3>2. op' \in [Ops -> Handler] /\ op'[o] = Idle /\ OpsStay(o)
            BY <1>3, <3>1, IdleHandler, OpUpdate
        <3>3. Domains' => SafeOK'
            <4>1. SUFFICES ASSUME Domains' PROVE SafeOK'
                OBVIOUS
            <4>2. op'[o] \notin Creation
                BY <3>2, Kinds
            <4>3. n \in repo.branches => n \in repo'.branches /\ repo'.tip[n] = repo.tip[n]
                BY <2>2
            <4> QED
                BY ONLY Inv, o \in Ops, <4>1, <1>0, <1>2, <1>3, <2>2, <2>3, <3>2, <4>2, <4>3, SafeMoved
        <3> QED
            BY <1>1, <1>2, <2>2, <3>2, <3>3, RepoStep
    <2> QED
        BY <2>4, <2>5
<1> QED
    BY <1>4, <1>5

LEMMA GitDropStep ==
    ASSUME Inv, NEW o \in Ops, GitDrop(o)
    PROVE  Inv'
<1>0. PICK n \in Names : n = op[o].name
    BY CreationFacts, CreateAtsAre DEF GitDrop, At
<1>1. op[o].at = "drop" /\ op[o].at \in CreateAts
    BY DEF GitDrop, At, CreateAts
<1>2. /\ UNCHANGED <<home, plain, agents, state, texts, queue, topics, proc, starts, crashes,
                     revived, excused>>
      /\ op' = [op EXCEPT ![o] = Idle]
    BY DEF GitDrop, task, history, Ends
<1>3. /\ op[o] \in Creation /\ op \in [Ops -> Handler] /\ GitSane(op[o]) /\ Creates(o)
    BY <1>1, CreationFacts
<1>4. CASE repo.head = n
    BY <1>0, <1>1, <1>2, <1>4, EndStep DEF GitDrop
<1>5. CASE repo.head # n
    <2>1. n \in Branches /\ n # "main"
        BY WorkspacesAssumption DEF Branches
    <2>2. /\ repo' \in RepoType /\ repo'.head = repo.head /\ repo'.branches = repo.branches \ {n}
          /\ repo'.made = repo.made /\ repo'.tip[n] = {}
          /\ \A b \in Branches : b # n => repo'.tip[b] = repo.tip[b]
        <3>1. repo \in RepoType
            BY DEF Inv, Domains
        <3>2. repo' = [repo EXCEPT !.branches = @ \ {n}, !.tip[n] = {}]
            BY <1>0, <1>5 DEF GitDrop
        <3> QED
            BY <2>1, <3>1, <3>2 DEF RepoType
    <2>3. op' \in [Ops -> Handler] /\ op'[o] = Idle /\ OpsStay(o)
        BY <1>2, <1>3, IdleHandler, OpUpdate
    <2>4. Doomed(n)
        BY <1>0, <1>1, <1>3 DEF Doomed, Removes, GitSane
    <2>5. Domains' => SafeOK'
        <3>1. SUFFICES ASSUME Domains' PROVE SafeOK'
            OBVIOUS
        <3>2. "main" \in repo'.branches /\ repo'.head \in repo'.branches
            BY <1>5, <2>1, <2>2 DEF Inv, SafeOK
        <3>4. \A b \in repo.branches : b # n => b \in repo'.branches
            BY <2>2
        <3> QED
            BY ONLY Inv, o \in Ops, <3>1, <1>0, <1>2, <1>3, <2>2, <2>3, <2>4, <3>2, <3>4, SafeMoved
    <2> QED
        BY <1>1, <1>2, <2>2, <2>3, <2>5, RepoStep
<1> QED
    BY <1>4, <1>5

\* The set-up of the branch is over: the plan is written.
LEMMA PlannedStep ==
    ASSUME Inv, NEW o \in Ops, op[o].at \in {"git", "checkout", "made", "switched"},
           NEW g \in GitType, Planned(o, g), g.tip \subseteq 1..repo.made,
           g.kind = "made" => op[o].at = "made",
           Alone' /\ Placed(op[o], repo) =>
              IF g.kind = "none" THEN repo.head = "main" /\ There(op[o], repo)
              ELSE /\ repo.head = op[o].name /\ op[o].name \in repo.branches
                   /\ g.prev = "main" /\ g.tip = repo.tip[op[o].name]
                   /\ g.kind = "switched" <=> op[o].before.branch,
           UNCHANGED <<home, plain, agents, state, queue, topics, proc, repo, starts, crashes, revived>>,
           excused \subseteq excused', excused' \subseteq excused \cup {"switch"}
    PROVE  Inv'
<1> DEFINE y == [op[o] EXCEPT !.at = "topic", !.git = g]
<1>1. op[o].at \in CreateAts /\ op[o].at # "lock"
    BY DEF CreateAts
<1>2. /\ op[o] \in Creation /\ op \in [Ops -> Handler] /\ Topical(op[o]) /\ Past(o)
      /\ Alone => Placed(op[o], repo)
      /\ op[o].gen \in topics => "topic" \in excused
    BY <1>1, CreationFacts
<1>3. op' = [op EXCEPT ![o] = y]
    BY <1>2 DEF Planned, Creation
<1>y. y = Versions(op[o], "topic", g)
    BY DEF Versions
<1> HIDE DEF y
<1>4. /\ y \in Creation /\ y.at = "topic" /\ SameTask(op[o], y) /\ y.before = op[o].before
      /\ y.git = g /\ y.topic = op[o].topic
    <2>1. op[o] \in Creation /\ g \in GitType /\ "topic" \in CreateAts
        BY <1>2, CreateAtsAre
    <2> QED
        BY ONLY <1>y, <2>1, CreationVersions
<1>5. op' \in [Ops -> Handler] /\ op'[o] = y /\ OpsStay(o)
    BY <1>2, <1>3, <1>4, CreationFields, OpUpdate
<1>6. Topical(y) /\ GitSane(y) /\ (Removes(y, repo) => Removes(op[o], repo))
    BY <1>2, <1>4 DEF Topical, GitSane, Removes
<1>7. Alone' => Placed(y, repo)
    <2>1. Alone' => Alone
        BY DEF Alone
    <2> QED
        BY <1>2, <1>4, <2>1 DEF Placed, There, On, SameTask
<1>8. PICK n \in Names : n = op[o].name
    BY <1>2, CreationFields
<1>9. /\ texts' \in [Names -> TextsType] /\ texts'[n].program = texts[n].program
      /\ \A m \in Names : m # n => texts'[m] = texts[m]
    <2>1. texts \in [Names -> TextsType] /\ op[o].gen \in Nat
        BY <1>2, CreationFields DEF Inv, Domains
    <2>2. texts' = [texts EXCEPT ![n].plan = op[o].gen]
        BY <1>8 DEF Planned, PlanWritten
    <2> QED
        BY <2>1, <2>2 DEF TextsType
<1>10. \A m \in Names : SameStores(m)
    BY <1>9 DEF SameStores
<1>11. state \in [Names -> StateType] /\ queue \in [Names -> SUBSET Entry]
    BY DEF Inv, Domains
<1>12. op[o].name \notin excused' =>
          LET c == y.before IN
          /\ state'[n] = c.state /\ queue'[n] = c.queue
          /\ IF y.at \in {"topic", "title"} THEN texts'[n].program = c.texts.program
                                            ELSE texts'[n] = c.texts
    BY <1>1, <1>4, <1>8, <1>9, CreationFacts
<1>13. \A m \in Names : m # op[o].name \/ ~Past(o) =>
          state'[m] = state[m] /\ queue'[m] = queue[m] /\ texts'[m] = texts[m]
    BY <1>2, <1>8, <1>9
<1>14. excused' \cap {"overlap", "crash"} \subseteq excused
    OBVIOUS
<1> QED
    BY <1>2, <1>4, <1>5, <1>6, <1>7, <1>8, <1>9, <1>10, <1>11, <1>12, <1>13, <1>14, CreationStep

LEMMA GitDoneStep ==
    ASSUME Inv, NEW o \in Ops, GitDone(o)
    PROVE  Inv'
<1> DEFINE n == op[o].name
<1>1. op[o].at \in {"made", "switched"} /\ op[o].at \in CreateAts
    BY DEF GitDone, At, CreateAts
<1>2. UNCHANGED <<home, plain, agents, state, queue, topics, proc, repo, starts, crashes, revived, excused>>
    BY DEF GitDone, history
<1>3. op[o] \in Creation /\ op[o].git \in GitType /\ n \in Names
    BY <1>1, CreationFacts
<1>4. n \in Branches /\ n # "main" /\ repo.tip[n] \in SUBSET Nat /\ repo.tip[n] \subseteq 1..repo.made
    <2>1. n \in Branches /\ n # "main"
        BY <1>3, WorkspacesAssumption DEF Branches
    <2>2. repo.tip \in [Branches -> SUBSET Nat]
        BY RepoFields DEF Inv, Domains
    <2> QED
        BY <2>1, <2>2 DEF Inv, SafeOK
<1>5. Alone' => Alone
    BY <1>2 DEF Alone
<1> HIDE DEF n
<1>6. CASE op[o].at = "made"
    <2> DEFINE g == [op[o].git EXCEPT !.kind = "made", !.tip = repo.tip[n]]
    <2>1. Planned(o, g)
        BY <1>6 DEF GitDone, At, n
    <2>g. g = Claimed(op[o].git, "made", repo.tip[n])
        BY DEF Claimed
    <2> HIDE DEF g
    <2>2. g \in GitType /\ g.kind = "made" /\ g.tip = repo.tip[n] /\ g.prev = op[o].git.prev
        BY <1>3, <1>4, <2>g, GitClaims
    <2>3. Placed(op[o], repo) =>
             /\ repo.head = n /\ n \in repo.branches /\ g.prev = "main" /\ ~op[o].before.branch
        BY <1>6, <2>2 DEF Placed, On, n
    <2> QED
        BY <1>2, <1>4, <1>6, <2>1, <2>2, <2>3, PlannedStep DEF n
<1>7. CASE op[o].at = "switched" /\ op[o].git.prev # n
    <2> DEFINE g == [op[o].git EXCEPT !.kind = "switched", !.tip = repo.tip[n]]
    <2>1. Planned(o, g)
        BY <1>7 DEF GitDone, At, n
    <2>g. g = Claimed(op[o].git, "switched", repo.tip[n])
        BY DEF Claimed
    <2> HIDE DEF g
    <2>2. g \in GitType /\ g.kind = "switched" /\ g.tip = repo.tip[n] /\ g.prev = op[o].git.prev
        BY <1>3, <1>4, <2>g, GitClaims
    <2>3. Placed(op[o], repo) =>
             /\ repo.head = n /\ n \in repo.branches /\ g.prev = "main" /\ op[o].before.branch
        BY <1>7, <2>2 DEF Placed, On, n
    <2> QED
        BY <1>2, <1>4, <1>7, <2>1, <2>2, <2>3, PlannedStep DEF n
<1>8. CASE op[o].at = "switched" /\ op[o].git.prev = n
    <2>1. Planned(o, NoGit)
        BY <1>8 DEF GitDone, At, n
    <2>2. ~Placed(op[o], repo)
        BY <1>4, <1>8 DEF Placed
    <2> QED
        BY <1>2, <1>8, <2>1, <2>2, NoGitFacts, PlannedStep
<1> QED
    BY <1>1, <1>6, <1>7, <1>8

LEMMA GitGivesUpStep ==
    ASSUME Inv, NEW o \in Ops, GitGivesUp(o)
    PROVE  Inv'
<1>1. op[o].at \in {"git", "checkout", "switched"} /\ Planned(o, NoGit)
    BY DEF GitGivesUp
<1>2. /\ UNCHANGED <<home, plain, agents, state, queue, topics, proc, repo, starts, crashes, revived>>
      /\ excused \subseteq excused' /\ excused' \subseteq excused \cup {"switch"}
      /\ op[o].at = "switched" => "switch" \in excused'
    BY DEF GitGivesUp, Excuse, At
<1>3. Alone' /\ Placed(op[o], repo) => repo.head = "main" /\ There(op[o], repo)
    BY <1>1, <1>2 DEF Alone, Placed
<1> QED
    BY <1>1, <1>2, <1>3, NoGitFacts, PlannedStep

LEMMA CreateFailsStep ==
    ASSUME Inv, NEW o \in Ops, CreateFails(o)
    PROVE  Inv'
<1>1. UNCHANGED <<home, plain, topics, proc, repo, starts, crashes, revived>>
    BY DEF CreateFails
<1>2. CASE op[o].at \in {"lock", "git", "checkout"} /\ Ends(o) /\ UNCHANGED <<task, excused>>
    <2>1. op[o].at \in CreateAts
        BY <1>2 DEF CreateAts
    <2> QED
        BY <1>1, <1>2, <2>1, EndStep DEF task, Ends
<1>3. CASE At(o, "switched") /\ Ends(o) /\ Excuse({"switch"}) /\ UNCHANGED task
    <2>1. op[o].at \in CreateAts
        BY <1>3 DEF At, CreateAts
    <2>2. excused \subseteq excused' /\ excused' \cap {"overlap", "crash"} \subseteq excused
        BY <1>3 DEF Excuse
    <2> QED
        BY <1>1, <1>3, <2>1, <2>2, EndStep DEF task, Ends
<1>4. CASE /\ At(o, "made")
           /\ op' = [op EXCEPT ![o].at = "check", ![o].git.kind = "made"]
           /\ UNCHANGED <<task, excused>>
    <2> DEFINE g == [op[o].git EXCEPT !.kind = "made"]
               y == [op[o] EXCEPT !.at = "check", !.git = g]
    <2>1. op[o].at = "made" /\ op[o].at \in CreateAts
        BY <1>4 DEF At, CreateAts
    <2>2. UNCHANGED <<agents, state, texts, queue, excused>>
        BY <1>4 DEF task
    <2>3. /\ op[o] \in Creation /\ op \in [Ops -> Handler] /\ Topical(op[o]) /\ op[o].git \in GitType
          /\ GitSane(op[o]) /\ op[o].git.tip \subseteq 1..repo.made
        BY <2>1, CreationFacts
    <2>4. op' = [op EXCEPT ![o] = y]
        BY <1>4, <2>3 DEF Creation, GitType
    <2>5. g \in GitType /\ g.kind = "made" /\ g.prev = op[o].git.prev /\ g.tip = op[o].git.tip
        BY <2>3, GitMade
    <2> HIDE DEF g
    <2>y. y = Versions(op[o], "check", g)
        BY DEF Versions
    <2> HIDE DEF y
    <2>6. /\ y \in Creation /\ y.at = "check" /\ SameTask(op[o], y) /\ y.before = op[o].before
          /\ y.git = g /\ y.topic = op[o].topic
        <3>1. op[o] \in Creation /\ g \in GitType /\ "check" \in CreateAts
            BY <2>3, <2>5, CreateAtsAre
        <3> QED
            BY ONLY <2>y, <3>1, CreationVersions
    <2>7. Topical(y) /\ GitSane(y) /\ Removes(op[o], repo)
        BY <2>1, <2>3, <2>6 DEF Topical, GitSane, Removes
    <2>8. Placed(op[o], repo) => Placed(y, repo)
        BY <2>1, <2>5, <2>6 DEF Placed, There, On, SameTask
    <2> QED
        BY <1>1, <2>1, <2>2, <2>3, <2>4, <2>5, <2>6, <2>7, <2>8, WalkStep
<1>5. CASE /\ op[o].at \in {"topic", "title"}
           /\ \E upto \in 0..(IF At(o, "title") THEN 3 ELSE 0) : Restored(o, upto)
           /\ Goes(o, IF op[o].topic THEN "archive" ELSE "check")
           /\ UNCHANGED excused
    <2> DEFINE at == IF op[o].topic THEN "archive" ELSE "check"
               y == [op[o] EXCEPT !.at = at]
    <2>1. op[o].at \in CreateAts /\ at \in CreateAts /\ op[o].at # "lock"
        BY <1>5 DEF CreateAts
    <2>2. /\ op[o] \in Creation /\ op \in [Ops -> Handler] /\ Topical(op[o]) /\ op[o].git \in GitType
          /\ op[o].git.tip \subseteq 1..repo.made /\ op[o].before \in BeforeType
          /\ op[o].name \in Names /\ Past(o) /\ op[o].name \notin agents
          /\ op[o].gen \in topics => op[o].at \in {"title", "archive"} \/ "topic" \in excused
          /\ Alone => Placed(op[o], repo)
        BY <2>1, CreationFacts
    <2>3. op' = [op EXCEPT ![o] = y]
        BY <1>5 DEF Goes
    <2>4. /\ y \in Creation /\ y.at = at /\ SameTask(op[o], y) /\ y.before = op[o].before
          /\ y.git = op[o].git /\ y.topic = op[o].topic
        BY <2>1, <2>2, CreationGoes
    <2> HIDE DEF y
    <2>5. op' \in [Ops -> Handler] /\ op'[o] = y /\ OpsStay(o)
        BY <2>2, <2>3, <2>4, CreationFields, OpUpdate
    <2>6. Topical(y) /\ GitSane(y) /\ (Removes(y, repo) => Removes(op[o], repo))
        BY <2>4 DEF Topical, GitSane, Removes, SameTask
    <2>7. op[o].gen \in topics => y.at \in {"title", "archive"} \/ "topic" \in excused
        BY <1>5, <2>2, <2>4 DEF Topical
    <2>8. Alone' => Placed(y, repo)
        <3>1. Alone' => Alone
            BY <1>1, <1>5 DEF Alone
        <3> QED
            BY <1>5, <2>2, <2>4, <3>1 DEF Placed, There, On, SameTask
    <2>9. PICK n \in Names : n = op[o].name
        BY <2>2
    <2>10. /\ state' = [state EXCEPT ![n] = op[o].before.state]
           /\ texts' = [texts EXCEPT ![n] = op[o].before.texts]
           /\ queue' = [queue EXCEPT ![n] = op[o].before.queue]
           /\ agents' = agents \ {n}
        BY <1>5, <2>9 DEF Restored, QueueSlice
    <2>11. state \in [Names -> StateType] /\ texts \in [Names -> TextsType] /\ queue \in [Names -> SUBSET Entry]
        BY DEF Inv, Domains
    <2>12. /\ op[o].before.state \in StateType /\ op[o].before.texts \in TextsType
           /\ op[o].before.queue \in SUBSET Entry
        BY <2>2, BeforeFields
    <2>13. state' \in [Names -> StateType] /\ texts' \in [Names -> TextsType] /\ queue' \in [Names -> SUBSET Entry]
        BY <2>10, <2>11, <2>12
    <2>14. /\ state'[n] = op[o].before.state /\ texts'[n] = op[o].before.texts
           /\ queue'[n] = op[o].before.queue /\ agents' = agents
           /\ \A m \in Names : m # n => state'[m] = state[m] /\ texts'[m] = texts[m] /\ queue'[m] = queue[m]
        BY <2>2, <2>9, <2>10, <2>11
    <2>15. \A m \in Names \ excused' : SameStores(m)
        <3>1. n \notin excused => /\ state[n] = op[o].before.state /\ queue[n] = op[o].before.queue
                                  /\ texts[n].program = op[o].before.texts.program
            BY <1>5, <2>1, <2>9, CreationFacts
        <3> QED
            BY <1>5, <2>14, <3>1 DEF SameStores
    <2>16. LET c == y.before IN
           /\ state'[n] = c.state /\ queue'[n] = c.queue
           /\ IF y.at \in {"topic", "title"} THEN texts'[n].program = c.texts.program
                                             ELSE texts'[n] = c.texts
        BY <2>4, <2>14
    <2> QED
        BY <1>1, <1>5, <2>1, <2>2, <2>4, <2>5, <2>6, <2>7, <2>8, <2>9, <2>13, <2>14, <2>15, <2>16, CreationStep
<1> QED
    BY <1>2, <1>3, <1>4, <1>5 DEF CreateFails

-----------------------------------------------------------------------------
(***************************************************************************)
(* A task moves.                                                            *)
(***************************************************************************)
\* What the stores say of one task.
OneTask(n) ==
    IF n \in agents
    THEN /\ state[n].status \in {"live", "waiting", "stopped"}
         /\ state[n].gen = texts[n].program /\ state[n].gen # 0
         /\ \E e \in queue[n] : queue[n] = {e} /\ e.gen = state[n].gen
    ELSE state[n].status \in {"none", "deleted"} /\ Live(n) = {}

LEMMA TaskMoved ==
    ASSUME Inv, Domains', NEW n \in Names,
           \A m \in Names \ excused' : m # n => SameStores(m),
           \A p \in Ops : (Closes(p)' <=> Closes(p)) /\ (Closes(p) => op'[p] = op[p]),
           home' = home, plain' = plain, revived \subseteq revived',
           excused \subseteq excused', excused' \cap {"overlap", "crash"} \subseteq excused,
           n \notin excused' => OneTask(n)',
           n \notin excused' /\ state'[n].status = "none" => state[n].status = "none",
           n \notin revived' \cup excused' /\ Runs(n)' =>
              Runs(n) \/ (home = "open" /\ \A p \in Ops : ~Closes(p)),
           n \notin excused' /\ Stranded(n)' => Stranded(n) /\ state'[n].gen = state[n].gen
    PROVE  StoreOK' /\ QuietOK' /\ CoherentOK' /\ PlainOK'
<1>1. \A m \in Names \ excused' : m # n =>
         /\ Live(m)' = Live(m) /\ state'[m] = state[m]
         /\ Runs(m)' <=> Runs(m)
         /\ Stranded(m)' <=> Stranded(m)
         /\ OneTask(m)' <=> OneTask(m)
    BY DEF SameStores, Live, Runs, Stranded, OneTask
<1>2. StoreOK'
    <2>1. \A m \in Names \ excused : OneTask(m)
        BY DEF Inv, StoreOK, OneTask
    <2>2. \A m \in Names \ excused' : OneTask(m)'
        BY <1>1, <2>1
    <2> QED
        BY <2>2 DEF StoreOK, OneTask
<1>3. QuietOK'
    <2>1. ASSUME NEW p \in Ops, Closes(p)', NEW m \in Names \ (revived' \cup excused'), Runs(m)'
          PROVE  op'[p].child[m] \in {"lock", "broken"}
        BY <1>1, <2>1 DEF Inv, QuietOK
    <2>2. \A p \in Ops : At(p, "channel")' => \A m \in Names : op'[p].child[m] = "done"
        <3>1. \A p \in Ops : At(p, "channel")' => Closes(p)'
            BY WhatItIsNext DEF Domains, At
        <3> QED
            BY <3>1 DEF Inv, QuietOK, At
    <2>3. ASSUME home' = "closed", NEW m \in Names \ (revived' \cup excused')
          PROVE  ~Runs(m)'
        <3>1. home = "closed" /\ home # "open"
            BY <2>3
        <3>2. ~Runs(m)
            BY <3>1 DEF Inv, QuietOK, ClosedIsQuiet, Runs
        <3> QED
            BY <1>1, <3>1, <3>2
    <2>4. ClosedIsQuiet'
        BY <2>3 DEF ClosedIsQuiet, Runs
    <2>5. ASSUME NEW p \in Ops, Closes(p)', NEW m \in Names \ excused', op'[p].child[m] # "done"
          PROVE  state'[m].status # "none"
        BY <1>1, <2>5 DEF Inv, QuietOK
    <2> QED
        BY <2>1, <2>2, <2>4, <2>5 DEF QuietOK
<1>4. CoherentOK'
    <2> SUFFICES ASSUME NEW m \in Names \ excused', Stranded(m)'
                 PROVE  \E p \in Ops : /\ Closes(p)' /\ op'[p].at \in {"drain", "failed"}
                                       /\ op'[p].child[m] \in {"wait", "final"}
                                       /\ op'[p].gen[m] = state'[m].gen
        BY DEF CoherentOK
    <2>1. Stranded(m) /\ state'[m].gen = state[m].gen
        BY <1>1
    <2> QED
        BY <2>1 DEF Inv, CoherentOK
<1>5. PlainOK'
    <2> SUFFICES ASSUME excused' \cap {"overlap", "crash"} = {} PROVE PlainOK'
        BY DEF PlainOK
    <2>1. excused \cap {"overlap", "crash"} = {}
        OBVIOUS
    <2> QED
        BY <2>1 DEF Inv, PlainOK
<1> QED
    BY <1>2, <1>3, <1>4, <1>5

LEMMA StateUpdates ==
    ASSUME NEW s \in StateType
    PROVE  /\ s.gen \in Nat /\ s.status \in Statuses /\ s.child \in BOOLEAN /\ s.partial \in BOOLEAN
           /\ \A status \in Statuses : LET t == [s EXCEPT !.status = status] IN
                 t \in StateType /\ t.status = status /\ t.gen = s.gen
                 /\ t.child = s.child /\ t.partial = s.partial
           /\ LET t == [s EXCEPT !.partial = TRUE] IN
                 t \in StateType /\ t.status = s.status /\ t.gen = s.gen
                 /\ t.child = s.child /\ t.partial
    BY DEF StateType

\* A task that moves in its own stores, whoever holds its lock.
LEMMA TaskStep ==
    ASSUME Inv, NEW n \in Names,
           UNCHANGED <<home, plain, repo, op, starts, crashes, excused>>,
           proc' \subseteq Names, revived \subseteq revived', revived' \subseteq Names,
           topics' \subseteq topics, agents' \subseteq agents,
           state' \in [Names -> StateType], texts' = texts, queue' \in [Names -> SUBSET Entry],
           \A m \in Names \ {n} : SameStores(m),
           n \in excused \/ ~Locked(n) \/ (state'[n] = state[n] /\ queue'[n] = queue[n]),
           n \notin excused => OneTask(n)',
           n \notin excused /\ state'[n].status = "none" => state[n].status = "none",
           n \notin revived' \cup excused /\ Runs(n)' =>
              Runs(n) \/ (home = "open" /\ \A p \in Ops : ~Closes(p)),
           n \notin excused /\ Stranded(n)' => Stranded(n) /\ state'[n].gen = state[n].gen
    PROVE  Inv'
<1>1. Domains'
    BY DEF Inv, Domains
<1>2. \A p \in Ops : Closes(p)' <=> Closes(p)
    BY DEF Closes, Creates, At
<1>3. StoreOK' /\ QuietOK' /\ CoherentOK' /\ PlainOK'
    <2>1. /\ \A m \in Names \ excused' : m # n => SameStores(m)
          /\ \A p \in Ops : (Closes(p)' <=> Closes(p)) /\ (Closes(p) => op'[p] = op[p])
          /\ home' = home /\ plain' = plain /\ revived \subseteq revived'
          /\ excused \subseteq excused' /\ excused' \cap {"overlap", "crash"} \subseteq excused
          /\ n \notin excused' => OneTask(n)'
          /\ n \notin excused' /\ state'[n].status = "none" => state[n].status = "none"
        BY <1>2
    <2>2. n \notin revived' \cup excused' /\ Runs(n)' =>
             Runs(n) \/ (home = "open" /\ \A p \in Ops : ~Closes(p))
        OBVIOUS
    <2>3. n \notin excused' /\ Stranded(n)' => Stranded(n) /\ state'[n].gen = state[n].gen
        OBVIOUS
    <2> QED
        BY ONLY Inv, n \in Names, <1>1, <2>1, <2>2, <2>3, TaskMoved
<1>4. LockOK' /\ GensOK' /\ BeforeOK' /\ AloneOK' /\ SafeOK'
    <2>1. \A p \in Ops : Past(p) /\ op[p].name \notin excused' =>
             LET m == op[p].name IN
             state'[m] = state[m] /\ queue'[m] = queue[m] /\ texts'[m] = texts[m]
        <3> SUFFICES ASSUME NEW p \in Ops, Past(p), op[p].name \notin excused'
                     PROVE  LET m == op[p].name IN state'[m] = state[m] /\ queue'[m] = queue[m]
            OBVIOUS
        <3>1. op[p].name \in Names
            BY WhatItIs, CreationFields DEF Past, Inv, Domains
        <3>2. op[p].name = n => Locked(n)
            BY DEF Locked, Past, At
        <3> QED
            BY <3>1, <3>2 DEF SameStores
    <2> QED
        BY <1>1, <2>1, CreationsKept
<1> QED
    BY <1>1, <1>3, <1>4 DEF Inv

LEMMA StepStartsStep ==
    ASSUME Inv, NEW n \in Names, StepStarts(n)
    PROVE  Inv'
<1>1. UNCHANGED <<home, plain, agents, state, texts, queue, topics, repo, op, starts, crashes, revived, excused>>
    BY DEF StepStarts, task, history
<1>2. Domains'
    BY <1>1 DEF StepStarts, Inv, Domains
<1>3. \A p \in Ops : Closes(p)' <=> Closes(p)
    BY <1>1 DEF Closes, Creates, At
<1>4. \A m \in Names : SameStores(m) /\ (OneTask(m)' <=> OneTask(m)) /\ (Runs(m)' <=> Runs(m))
                       /\ (Stranded(m)' <=> Stranded(m))
    BY <1>1 DEF SameStores, OneTask, Runs, Stranded, Live
<1>5. n \notin excused => OneTask(n)
    BY DEF Inv, StoreOK, OneTask
<1>6. proc' \subseteq Names /\ revived' \subseteq Names
    BY <1>2 DEF Domains
<1>7. state' \in [Names -> StateType] /\ queue' \in [Names -> SUBSET Entry]
    BY <1>2 DEF Domains
<1> QED
    BY <1>1, <1>4, <1>5, <1>6, <1>7, TaskStep

LEMMA StepEndsStep ==
    ASSUME Inv, NEW n \in Names, StepEnds(n)
    PROVE  Inv'
<1>1. /\ UNCHANGED <<home, plain, agents, texts, queue, topics, repo, op, starts, crashes, revived, excused>>
      /\ proc' \subseteq Names
    BY DEF StepEnds, history, Inv, Domains
<1>2. state \in [Names -> StateType] /\ queue \in [Names -> SUBSET Entry] /\ revived \subseteq Names
    BY DEF Inv, Domains
<1>3. /\ state' \in [Names -> StateType]
      /\ \A m \in Names \ {n} : state'[m] = state[m]
      /\ state'[n].gen = state[n].gen /\ state'[n].child = state[n].child
      /\ state'[n].partial = state[n].partial
      /\ \/ state'[n] = state[n]
         \/ state[n].status = "live" /\ state'[n].status = "waiting"
    <2>1. state[n] \in StateType /\ "waiting" \in Statuses
        BY <1>2 DEF Statuses
    <2>2. CASE state[n].status = "live" /\ state' = [state EXCEPT ![n].status = "waiting"]
        <3> DEFINE t == [state[n] EXCEPT !.status = "waiting"]
        <3>1. t \in StateType /\ t.status = "waiting" /\ t.gen = state[n].gen
              /\ t.child = state[n].child /\ t.partial = state[n].partial
            BY <2>1, StateUpdates
        <3>2. state' = [state EXCEPT ![n] = t]
            BY <2>2
        <3> HIDE DEF t
        <3> QED
            BY <1>2, <2>2, <3>1, <3>2
    <2>3. CASE UNCHANGED state
        BY <1>2, <2>3
    <2> QED
        BY <2>2, <2>3 DEF StepEnds
<1>4. Live(n)' = Live(n) /\ \A m \in Names \ {n} : SameStores(m)
    BY <1>1, <1>3 DEF Live, SameStores
<1>5. (Runs(n)' => Runs(n)) /\ (Stranded(n)' => Stranded(n))
    BY <1>3, <1>4 DEF Runs, Stranded
<1>6. n \notin excused => OneTask(n)
    BY DEF Inv, StoreOK, OneTask
<1>7. n \notin excused => OneTask(n)'
    BY <1>1, <1>3, <1>4, <1>6 DEF OneTask
<1>8. n \in excused \/ ~Locked(n) \/ (state'[n] = state[n] /\ queue'[n] = queue[n])
    <2>1. Locked(n) => n \notin agents
        <3>1. \A p \in Ops : Creates(p) /\ op[p].at # "lock" => Past(p)
            BY DEF Past, At
        <3> QED
            BY <3>1 DEF Locked, Inv, LockOK
    <2>2. n \notin excused /\ n \notin agents => state[n].status # "live"
        BY <1>6 DEF OneTask
    <2> QED
        BY <1>1, <1>3, <2>1, <2>2
<1> QED
    BY <1>1, <1>2, <1>3, <1>4, <1>5, <1>7, <1>8, TaskStep

LEMMA CanceledEntries ==
    ASSUME NEW entries \in SUBSET Entry
    PROVE  /\ Canceled(entries) \subseteq Entry
           /\ {e \in Canceled(entries) : e.status = "pending"} = {}
           /\ \A e \in entries : entries = {e} =>
                 \E c \in Canceled(entries) : Canceled(entries) = {c} /\ c.gen = e.gen
<1>1. \A e \in Entry : LET c == [e EXCEPT !.status = "canceled"] IN
         c \in Entry /\ c.status = "canceled" /\ c.gen = e.gen
    BY DEF Entry
<1>2. ASSUME NEW c \in Canceled(entries) PROVE c \in Entry /\ c.status = "canceled"
    <2>1. PICK e \in entries : c = [e EXCEPT !.status = "canceled"]
        BY DEF Canceled
    <2> QED
        BY <1>1, <2>1
<1>3. ASSUME NEW e \in entries, entries = {e}
      PROVE  \E c \in Canceled(entries) : Canceled(entries) = {c} /\ c.gen = e.gen
    <2> DEFINE c == [e EXCEPT !.status = "canceled"]
    <2>1. c.gen = e.gen
        BY <1>1
    <2>2. Canceled(entries) = {c}
        BY <1>3 DEF Canceled
    <2> HIDE DEF c
    <2> QED
        BY <2>1, <2>2
<1> QED
    BY <1>2, <1>3

Pending(entries) == {[e EXCEPT !.status = "pending"] : e \in entries}

LEMMA PendingEntries ==
    ASSUME NEW entries \in SUBSET Entry
    PROVE  /\ Pending(entries) \subseteq Entry
           /\ \A e \in entries : entries = {e} =>
                 \E c \in Pending(entries) :
                    Pending(entries) = {c} /\ c.gen = e.gen /\ c.status = "pending"
<1>1. \A e \in Entry : LET c == [e EXCEPT !.status = "pending"] IN
         c \in Entry /\ c.status = "pending" /\ c.gen = e.gen
    BY DEF Entry
<1>2. \A c \in Pending(entries) : c \in Entry
    BY <1>1 DEF Pending
<1>3. ASSUME NEW e \in entries, entries = {e}
      PROVE  \E c \in Pending(entries) :
                Pending(entries) = {c} /\ c.gen = e.gen /\ c.status = "pending"
    <2> DEFINE c == [e EXCEPT !.status = "pending"]
    <2>1. c.gen = e.gen /\ c.status = "pending"
        BY <1>1
    <2>2. Pending(entries) = {c}
        BY <1>3 DEF Pending
    <2> HIDE DEF c
    <2> QED
        BY <2>1, <2>2
<1> QED
    BY <1>2, <1>3

Made(s, status) == [s EXCEPT !.status = status, !.partial = FALSE]

LEMMA MadeState ==
    ASSUME NEW s \in StateType, NEW status \in Statuses
    PROVE  LET t == Made(s, status) IN
           t \in StateType /\ t.status = status /\ t.gen = s.gen /\ t.child = s.child /\ ~t.partial
    BY DEF Made, StateType

LEMMA StopTaskStep ==
    ASSUME Inv, NEW n \in Names, StopTask(n)
    PROVE  Inv'
<1>1. /\ UNCHANGED <<home, plain, agents, texts, topics, repo, op, starts, crashes, revived, excused>>
      /\ proc' \subseteq Names /\ ~Locked(n) /\ state[n].status \in {"live", "waiting"}
    BY DEF StopTask, history, Inv, Domains
<1>2. /\ state \in [Names -> StateType] /\ queue \in [Names -> SUBSET Entry] /\ revived \subseteq Names
      /\ state[n] \in StateType
    BY DEF Inv, Domains
<1>3. /\ state' \in [Names -> StateType] /\ queue' \in [Names -> SUBSET Entry]
      /\ state'[n].gen = state[n].gen /\ state'[n].status = "stopped"
      /\ queue'[n] = Canceled(queue[n])
      /\ \A m \in Names \ {n} : state'[m] = state[m] /\ queue'[m] = queue[m]
    <2> DEFINE t == [state[n] EXCEPT !.status = "stopped"]
    <2>1. t \in StateType /\ t.status = "stopped" /\ t.gen = state[n].gen
        BY <1>2, StateUpdates DEF Statuses
    <2>2. state' = [state EXCEPT ![n] = t] /\ queue' = [queue EXCEPT ![n] = Canceled(queue[n])]
        BY DEF StopTask
    <2>3. Canceled(queue[n]) \subseteq Entry
        BY <1>2, CanceledEntries
    <2> HIDE DEF t
    <2> QED
        BY <1>2, <2>1, <2>2, <2>3
<1>4. \A m \in Names \ {n} : SameStores(m)
    BY <1>1, <1>3 DEF SameStores
<1>5. ~Runs(n)' /\ ~Stranded(n)'
    BY <1>3 DEF Runs, Stranded
<1>6. n \notin excused => OneTask(n)'
    <2> SUFFICES ASSUME n \notin excused PROVE OneTask(n)'
        OBVIOUS
    <2>1. OneTask(n)
        BY DEF Inv, StoreOK, OneTask
    <2>2. n \in agents
        BY <1>1, <2>1 DEF OneTask
    <2>3. \E c \in queue'[n] : queue'[n] = {c} /\ c.gen = state'[n].gen
        BY <1>2, <1>3, <2>1, <2>2, CanceledEntries DEF OneTask
    <2> QED
        BY <1>1, <1>3, <2>1, <2>2, <2>3 DEF OneTask
<1> QED
    BY <1>1, <1>2, <1>3, <1>4, <1>5, <1>6, TaskStep

LEMMA DeleteTaskStep ==
    ASSUME Inv, NEW n \in Names, DeleteTask(n)
    PROVE  Inv'
<1>1. /\ UNCHANGED <<home, plain, texts, repo, op, starts, crashes, revived, excused>>
      /\ proc' \subseteq Names /\ ~Locked(n) /\ topics' \subseteq topics /\ agents' = agents \ {n}
    BY DEF DeleteTask, history, Inv, Domains
<1>2. /\ state \in [Names -> StateType] /\ queue \in [Names -> SUBSET Entry] /\ revived \subseteq Names
      /\ state[n] \in StateType
    BY DEF Inv, Domains
<1>3. /\ state' \in [Names -> StateType] /\ queue' \in [Names -> SUBSET Entry]
      /\ state'[n].status = "deleted" /\ queue'[n] = Canceled(queue[n])
      /\ \A m \in Names \ {n} : state'[m] = state[m] /\ queue'[m] = queue[m]
    <2> DEFINE t == [state[n] EXCEPT !.status = "deleted"]
    <2>1. t \in StateType /\ t.status = "deleted"
        BY <1>2, StateUpdates DEF Statuses
    <2>2. state' = [state EXCEPT ![n] = t] /\ queue' = [queue EXCEPT ![n] = Canceled(queue[n])]
        BY DEF DeleteTask
    <2>3. Canceled(queue[n]) \subseteq Entry
        BY <1>2, CanceledEntries
    <2> HIDE DEF t
    <2> QED
        BY <1>2, <2>1, <2>2, <2>3
<1>4. \A m \in Names \ {n} : SameStores(m)
    BY <1>1, <1>3 DEF SameStores
<1>5. ~Runs(n)' /\ ~Stranded(n)'
    BY <1>3 DEF Runs, Stranded
<1>6. OneTask(n)'
    <2>1. Live(n)' = {}
        BY <1>2, <1>3, CanceledEntries DEF Live
    <2> QED
        BY <1>1, <1>3, <2>1 DEF OneTask
<1> QED
    BY <1>1, <1>2, <1>3, <1>4, <1>5, <1>6, TaskStep

LEMMA ResumeTaskStep ==
    ASSUME Inv, NEW n \in Names, ResumeTask(n)
    PROVE  Inv'
<1>1. /\ UNCHANGED <<home, plain, agents, texts, topics, proc, repo, op, starts, crashes, excused>>
      /\ ~Locked(n) /\ state[n].status \in {"stopped", "waiting"} /\ Revives(n)
    BY DEF ResumeTask
<1>2. /\ state \in [Names -> StateType] /\ queue \in [Names -> SUBSET Entry] /\ revived \subseteq Names
      /\ state[n] \in StateType /\ proc \subseteq Names /\ home \in {"open", "closed"}
    BY DEF Inv, Domains
<1>3. /\ state' \in [Names -> StateType] /\ queue' \in [Names -> SUBSET Entry]
      /\ state'[n].gen = state[n].gen /\ state'[n].status = "live"
      /\ queue'[n] = Pending(queue[n])
      /\ \A m \in Names \ {n} : state'[m] = state[m] /\ queue'[m] = queue[m]
    <2> DEFINE t == Made(state[n], "live")
    <2>1. t \in StateType /\ t.status = "live" /\ t.gen = state[n].gen
        BY <1>2, MadeState DEF Statuses
    <2>2. state' = [state EXCEPT ![n] = t] /\ queue' = [queue EXCEPT ![n] = Pending(queue[n])]
        BY <1>2 DEF ResumeTask, Pending, Made, StateType
    <2>3. Pending(queue[n]) \subseteq Entry
        BY <1>2, PendingEntries
    <2> HIDE DEF t
    <2> QED
        BY <1>2, <2>1, <2>2, <2>3
<1>4. \A m \in Names \ {n} : SameStores(m)
    BY <1>1, <1>3 DEF SameStores
<1>5. /\ revived \subseteq revived' /\ revived' \subseteq Names
      /\ n \in revived' \/ (home = "open" /\ \A p \in Ops : ~Closes(p))
    BY <1>1, <1>2 DEF Revives
<1>6. ASSUME n \notin excused PROVE OneTask(n)' /\ ~Stranded(n)'
    <2>1. OneTask(n)
        BY <1>6 DEF Inv, StoreOK, OneTask
    <2>2. n \in agents
        BY <1>1, <2>1 DEF OneTask
    <2>3. \E c \in queue'[n] : queue'[n] = {c} /\ c.gen = state'[n].gen /\ c.status = "pending"
        BY <1>2, <1>3, <2>1, <2>2, PendingEntries DEF OneTask
    <2>4. OneTask(n)'
        BY <1>1, <1>3, <2>1, <2>2, <2>3 DEF OneTask
    <2>5. ~Stranded(n)'
        BY <2>3 DEF Stranded, Live
    <2> QED
        BY <2>4, <2>5
<1> QED
    BY <1>1, <1>2, <1>3, <1>4, <1>5, <1>6, TaskStep

LEMMA BeginCreateStep ==
    ASSUME Inv, NEW o \in Ops, NEW n \in Names, NEW child \in BOOLEAN, BeginCreate(o, n, child)
    PROVE  Inv'
<1> DEFINE y == [at |-> "lock", name |-> n, gen |-> starts + 1, child |-> child,
                 before |-> [state |-> NoState, texts |-> NoTexts, queue |-> {}, branch |-> FALSE],
                 git |-> NoGit, topic |-> FALSE]
<1>1. /\ UNCHANGED <<home, plain, agents, state, texts, queue, topics, proc, repo, crashes, revived, excused>>
      /\ starts' = starts + 1 /\ op[o].at = "idle" /\ op' = [op EXCEPT ![o] = y]
    BY DEF BeginCreate, task, history, At
<1>2. starts \in Nat /\ starts >= 1 /\ op \in [Ops -> Handler]
    BY DEF Inv, Domains, GensOK
<1>3. /\ y \in Creation /\ y.at = "lock" /\ y.gen = starts + 1 /\ y.git = NoGit /\ ~y.topic
      /\ y.name = n
    <2>1. [state |-> NoState, texts |-> NoTexts, queue |-> {}, branch |-> FALSE] \in BeforeType
        <3>1. NoState \in StateType /\ NoTexts \in TextsType
            BY DEF NoState, StateType, NoTexts, TextsType, Statuses
        <3>2. {} \in SUBSET Entry
            OBVIOUS
        <3> QED
            BY <3>1, <3>2 DEF BeforeType
    <2>2. NoGit \in GitType /\ "lock" \in CreateAts /\ starts + 1 \in Nat
        BY <1>2, NoGitFacts, CreateAtsAre
    <2>3. ASSUME NEW b \in BeforeType, NEW at \in CreateAts, NEW g \in GitType, NEW k \in Nat
          PROVE  LET z == [at |-> at, name |-> n, gen |-> k, child |-> child, before |-> b, git |-> g,
                           topic |-> FALSE] IN
                 /\ z \in Creation /\ z.at = at /\ z.gen = k /\ z.git = g /\ ~z.topic /\ z.name = n
        BY DEF Creation
    <2> QED
        BY <2>1, <2>2, <2>3
<1> HIDE DEF y
<1>4. op[o] = Idle
    BY <1>1, <1>2, WhatItIs DEF At
<1>5. op' \in [Ops -> Handler] /\ op'[o] = y /\ OpsStay(o)
    BY <1>1, <1>2, <1>3, CreationFields, OpUpdate
<1>6. Domains'
    BY <1>1, <1>2, <1>5 DEF Inv, Domains
<1>7. ~Closes(o) /\ ~Closes(o)' /\ ~Past(o) /\ ~Past(o)' /\ Creates(o)' /\ ~Creates(o)
    BY <1>3, <1>4, <1>5, Kinds DEF Closes, Creates, IsCreation, At, Past
<1>8. StoreOK' /\ QuietOK' /\ CoherentOK' /\ PlainOK'
    <2>1. \A m \in Names : SameStores(m)
        BY <1>1 DEF SameStores
    <2> QED
        BY <1>1, <1>5, <1>6, <1>7, <2>1, TasksKept
<1>9. \A p \in Ops \ {o} : (Creates(p)' <=> Creates(p)) /\ op'[p] = op[p] /\ (Past(p)' <=> Past(p))
    BY <1>5 DEF OpsStay, Creates, Past, At
<1>10. LockOK'
    <2>1. \A p \in Ops : Past(p)' => p # o /\ Past(p) /\ op'[p] = op[p]
        BY <1>7, <1>9
    <2> QED
        BY <1>1, <2>1 DEF Inv, LockOK
<1>11. GensOK'
    <2>1. \A g \in topics : g \in 1..starts
        BY DEF Inv, GensOK
    <2>2. starts' >= 1 /\ \A g \in topics' : g \in 1..starts' /\ g # starts + 1
        BY <1>1, <1>2, <2>1
    <2>3. ASSUME NEW p \in Ops, Creates(p)', p # o
          PROVE  /\ op'[p].gen \in 2..starts' /\ op'[p].gen # starts + 1
                 /\ op'[p].gen \in topics' => op'[p].at \in {"title", "archive"} \/ "topic" \in excused'
                 /\ op'[p].at \in {"title", "archive"} => op'[p].topic
                 /\ op'[p].at \in {"lock", "git", "checkout", "made", "switched", "topic"} => ~op'[p].topic
        <3>1. op'[p] = op[p] /\ Creates(p)
            BY <1>9, <2>3
        <3>2. op[p].gen \in 2..starts
            BY <3>1 DEF Inv, GensOK
        <3>3. op'[p].gen \in 2..starts' /\ op'[p].gen # starts + 1
            BY <1>1, <1>2, <3>1, <3>2
        <3> QED
            BY <1>1, <3>1, <3>3 DEF Inv, GensOK
    <2>4. op'[o].gen \in 2..starts' /\ op'[o].gen = starts + 1 /\ op'[o].at = "lock" /\ ~op'[o].topic
        BY <1>1, <1>2, <1>3, <1>5
    <2>5. \A p, q \in Ops : Creates(p)' /\ Creates(q)' /\ op'[p].gen = op'[q].gen => p = q
        <3>1. ASSUME NEW p \in Ops, NEW q \in Ops, Creates(p)', Creates(q)', op'[p].gen = op'[q].gen
              PROVE  p = q
            <4>1. p = o <=> q = o
                BY <2>3, <2>4, <3>1
            <4>2. CASE p # o /\ q # o
                BY <1>9, <3>1, <4>2 DEF Inv, GensOK
            <4> QED
                BY <4>1, <4>2
        <3> QED
            BY <3>1
    <2>6. ASSUME NEW p \in Ops, Creates(p)'
          PROVE  /\ op'[p].gen \in 2..starts'
                 /\ op'[p].gen \in topics' => op'[p].at \in {"title", "archive"} \/ "topic" \in excused'
                 /\ op'[p].at \in {"title", "archive"} => op'[p].topic
                 /\ op'[p].at \in {"lock", "git", "checkout", "made", "switched", "topic"} => ~op'[p].topic
        <3>1. CASE p = o
            BY <2>2, <2>4, <3>1
        <3>2. CASE p # o
            BY <2>3, <2>6, <3>2
        <3> QED
            BY <3>1, <3>2
    <2> QED
        BY <2>2, <2>5, <2>6 DEF GensOK
<1>12. BeforeOK'
    <2>1. \A p \in Ops : Past(p)' => p # o /\ Past(p) /\ op'[p] = op[p]
        BY <1>7, <1>9
    <2> QED
        BY <1>1, <2>1 DEF Inv, BeforeOK
<1>13. AloneOK'
    <2>1. starts' # 1
        BY <1>1, <1>2
    <2>2. ASSUME Alone' PROVE repo'.head = "main" /\ \A p \in Ops \ {o} : op'[p] = Idle
        <3>1. starts = 1
            BY <1>1, <1>2, <2>2 DEF Alone
        <3> QED
            BY <1>1, <1>9, <3>1 DEF Inv, AloneOK
    <2>3. \A p \in Ops : op'[p] = Idle => ~Creates(p)'
        BY Kinds DEF Creates, IsCreation
    <2>4. Alone' => Placed(op'[o], repo')
        BY <1>3, <1>5, <2>2 DEF Placed
    <2> QED
        BY <2>1, <2>2, <2>3, <2>4 DEF AloneOK
<1>14. SafeOK'
    <2>1. GitSane(y) /\ ~Removes(y, repo) /\ y.git.tip \subseteq 1..repo.made
        BY <1>3, NoGitFacts DEF GitSane, Removes
    <2>2. \A b \in Branches : Doomed(b)' => Doomed(b)
        BY <1>1, <1>5, <1>9, <2>1 DEF Doomed
    <2>3. ASSUME NEW p \in Ops, Creates(p)'
          PROVE  op'[p].git.tip \subseteq 1..repo.made /\ GitSane(op'[p])
        <3>1. CASE p = o
            BY <1>5, <2>1, <3>1
        <3>2. CASE p # o
            BY <1>9, <2>3, <3>2 DEF Inv, SafeOK, GitSane
        <3> QED
            BY <3>1, <3>2
    <2>4. repo.branches \subseteq Branches
        BY RepoFields DEF Inv, Domains
    <2> QED
        BY <1>1, <2>2, <2>3, <2>4 DEF Inv, SafeOK, GitSane
<1> QED
    BY <1>6, <1>8, <1>10, <1>11, <1>12, <1>13, <1>14 DEF Inv

LEMMA CreatedStep ==
    ASSUME Inv, NEW o \in Ops, Created(o)
    PROVE  Inv'
<1>1. op[o].at = "title" /\ op[o].at \in CreateAts
    BY DEF Created, At, CreateAts
<1>2. /\ UNCHANGED <<home, plain, topics, proc, repo, starts, crashes, excused>>
      /\ op' = [op EXCEPT ![o] = Idle]
    BY DEF Created, Ends
<1>3. /\ op[o] \in Creation /\ op \in [Ops -> Handler] /\ Past(o)
      /\ op[o].name \notin agents /\ Creates(o)
    BY <1>1, CreationFacts
<1>4. PICK n \in Names : n = op[o].name
    BY <1>3, CreationFields
<1>5. PICK g \in Nat : g = op[o].gen /\ g # 0
    <2>1. op[o].gen \in Nat /\ op[o].gen \in 2..starts /\ starts \in Nat
        BY <1>3, CreationFields DEF Inv, Domains, GensOK
    <2> QED
        BY <2>1
<1>6. /\ state \in [Names -> StateType] /\ texts \in [Names -> TextsType]
      /\ queue \in [Names -> SUBSET Entry] /\ agents \subseteq Names /\ revived \subseteq Names
      /\ home \in {"open", "closed"}
    BY DEF Inv, Domains
<1>7. op' \in [Ops -> Handler] /\ op'[o] = Idle /\ OpsStay(o)
    BY <1>2, <1>3, IdleHandler, OpUpdate
<1>8. /\ texts' = [texts EXCEPT ![n].program = g] /\ state' = [state EXCEPT ![n] = NewState(o)]
      /\ queue' = [queue EXCEPT ![n] = WithEntry(n, g)] /\ agents' = agents \cup {n}
    BY <1>4, <1>5 DEF Created, Written
<1>9. NewState(o) \in StateType /\ NewState(o).gen = g /\ NewState(o).status = "live"
    <2>1. op[o].child \in BOOLEAN
        BY <1>3 DEF Creation
    <2> QED
        BY <1>5, <2>1 DEF NewState, StateType, Statuses
<1>10. PICK e : e = [gen |-> g, status |-> "pending"]
    OBVIOUS
<1>11. e \in Entry /\ e.gen = g /\ e.status = "pending" /\ WithEntry(n, g) = Live(n) \cup {e}
    BY <1>10 DEF Entry, WithEntry
<1>12. WithEntry(n, g) \subseteq Entry
    BY <1>6, <1>11 DEF Live
<1>13. /\ state' \in [Names -> StateType] /\ texts' \in [Names -> TextsType]
       /\ queue' \in [Names -> SUBSET Entry] /\ agents' \subseteq Names
       /\ state'[n].gen = g /\ state'[n].status = "live" /\ texts'[n].program = g
       /\ queue'[n] = Live(n) \cup {e} /\ n \in agents'
    <2>1. texts' \in [Names -> TextsType] /\ texts'[n].program = g
        BY <1>5, <1>6, <1>8 DEF TextsType
    <2> QED
        BY <1>6, <1>8, <1>9, <1>11, <1>12, <2>1
<1>14. \A m \in Names \ {n} : /\ state'[m] = state[m] /\ queue'[m] = queue[m] /\ texts'[m] = texts[m]
                              /\ SameStores(m)
    BY <1>6, <1>8 DEF SameStores
<1>15. /\ revived \subseteq revived' /\ revived' \subseteq Names
       /\ n \in revived' \/ (home = "open" /\ \A p \in Ops : ~Closes(p))
    BY <1>4, <1>6 DEF Created, Revives
<1>16. Domains'
    BY <1>2, <1>7, <1>13, <1>15 DEF Inv, Domains
<1>17. StoreOK' /\ QuietOK' /\ CoherentOK' /\ PlainOK'
    <2>1. \A p \in Ops : (Closes(p)' <=> Closes(p)) /\ (Closes(p) => op'[p] = op[p])
        BY <1>3, <1>7, Kinds DEF OpsStay, Closes, Creates, IsCreation, At
    <2>2. n \notin excused => OneTask(n)'
        <3> SUFFICES ASSUME n \notin excused PROVE OneTask(n)'
            OBVIOUS
        <3>1. Live(n) = {}
            BY <1>3, <1>4 DEF Inv, StoreOK
        <3>2. queue'[n] = {e} /\ e \in queue'[n]
            BY <1>13, <3>1
        <3> QED
            BY <1>5, <1>11, <1>13, <3>2 DEF OneTask
    <2>3. ~Stranded(n)'
        BY <1>11, <1>13 DEF Stranded, Live
    <2>4. state'[n].status # "none"
        BY <1>13
    <2> QED
        BY <1>2, <1>14, <1>15, <1>16, <2>1, <2>2, <2>3, <2>4, TaskMoved
<1>18. SafeOK'
    BY <1>2, <1>3, <1>7, <1>16, SafeKept
<1>19. LockOK' /\ GensOK' /\ BeforeOK' /\ AloneOK'
    <2>1. op'[o] \notin Creation
        BY <1>7, Kinds
    <2>2. \A m \in Names : m # op[o].name \/ ~Past(o) =>
             state'[m] = state[m] /\ queue'[m] = queue[m] /\ texts'[m] = texts[m]
        BY <1>3, <1>4, <1>14
    <2>3. /\ agents' \subseteq agents \cup (IF op'[o] = Idle /\ Past(o) THEN {op[o].name} ELSE {})
          /\ starts' = starts /\ repo'.made = repo.made /\ excused \subseteq excused' /\ topics' \subseteq topics
        BY <1>2, <1>3, <1>4, <1>7, <1>8
    <2> QED
        BY ONLY Inv, o \in Ops, <1>3, <1>7, <1>16, <2>1, <2>2, <2>3, CreationMoved
<1> QED
    BY <1>16, <1>17, <1>18, <1>19 DEF Inv

-----------------------------------------------------------------------------
(***************************************************************************)
(* A closing moves.                                                         *)
(***************************************************************************)
\* What a closing does to one child leaves the creations, the other children and the
\* other closings as they were.
LEMMA ChildStep ==
    ASSUME Inv, NEW o \in Ops, op[o] \in Closing, op[o].at \in {"drain", "failed"}, NEW n \in Names,
           NEW y \in Closing, op' = [op EXCEPT ![o] = y], y.at = op[o].at,
           \A m \in Names : m # n => y.child[m] = op[o].child[m] /\ y.gen[m] = op[o].gen[m],
           UNCHANGED <<home, plain, agents, texts, topics, repo, starts, crashes>>,
           proc' \subseteq Names, revived' \subseteq revived, revived \subseteq revived' \cup {n},
           excused \subseteq excused', excused' \subseteq excused \cup {n},
           state' \in [Names -> StateType], queue' \in [Names -> SUBSET Entry],
           \A m \in Names \ {n} : state'[m] = state[m] /\ queue'[m] = queue[m],
           n \in excused' \/ ~Locked(n) \/ (state'[n] = state[n] /\ queue'[n] = queue[n]),
           n \notin excused' => OneTask(n)',
           n \notin excused' /\ state'[n].status = "none" => state[n].status = "none",
           op[o].child[n] # "done",
           n \notin revived' \cup excused' /\ Runs(n)' =>
              n \notin revived /\ Runs(n) /\ y.child[n] \in {"lock", "broken"},
           n \notin excused' /\ Stranded(n)' =>
              \/ y.child[n] \in {"wait", "final"} /\ y.gen[n] = state'[n].gen
              \/ /\ Stranded(n) /\ state'[n].gen = state[n].gen
                 /\ ~(op[o].child[n] \in {"wait", "final"} /\ op[o].gen[n] = state[n].gen)
    PROVE  Inv'
<1>1. y \in Handler /\ op \in [Ops -> Handler]
    BY ClosingFields DEF Inv, Domains
<1>2. op' \in [Ops -> Handler] /\ op'[o] = y /\ OpsStay(o)
    BY <1>1, OpUpdate
<1>3. Domains'
    BY <1>2 DEF Inv, Domains
<1>4. Closes(o) /\ Closes(o)' /\ ~Creates(o) /\ ~Creates(o)' /\ y # Idle /\ op[o] # Idle
    BY <1>2, Kinds DEF Closes, Creates, IsCreation, At
<1>5. \A p \in Ops \ {o} : op'[p] = op[p] /\ (Closes(p)' <=> Closes(p)) /\ (Creates(p)' <=> Creates(p))
    BY <1>2 DEF OpsStay, Closes, Creates, At
<1>6. \A m \in Names \ {n} : SameStores(m) /\ Live(m)' = Live(m) /\ (Runs(m)' <=> Runs(m))
                             /\ (Stranded(m)' <=> Stranded(m)) /\ (OneTask(m)' <=> OneTask(m))
    BY DEF SameStores, Live, Runs, Stranded, OneTask
<1>7. LockOK' /\ GensOK' /\ BeforeOK' /\ AloneOK' /\ SafeOK'
    <2>1. \A p \in Ops : Past(p) /\ op[p].name \notin excused' =>
             LET m == op[p].name IN
             state'[m] = state[m] /\ queue'[m] = queue[m] /\ texts'[m] = texts[m]
        <3> SUFFICES ASSUME NEW p \in Ops, Past(p), op[p].name \notin excused'
                     PROVE  LET m == op[p].name IN state'[m] = state[m] /\ queue'[m] = queue[m]
            OBVIOUS
        <3>1. op[p].name \in Names
            BY WhatItIs, CreationFields DEF Past, Inv, Domains
        <3>2. op[p].name = n => Locked(n)
            BY DEF Locked, Past, At
        <3> QED
            BY <3>1, <3>2
    <2>2. "switch" \in excused' => "switch" \in excused
        BY WorkspacesAssumption
    <2>3. \A p \in Ops : Creates(p) \/ Creates(p)' => op'[p] = op[p]
        BY <1>4, <1>5
    <2>4. \A p \in Ops : op[p] = Idle => op'[p] = Idle
        BY <1>4, <1>5
    <2> QED
        BY <1>3, <2>1, <2>2, <2>3, <2>4, CreationsKept
<1>8. StoreOK'
    <2>1. \A m \in Names \ excused : OneTask(m)
        BY DEF Inv, StoreOK, OneTask
    <2>2. \A m \in Names \ excused' : OneTask(m)'
        BY <1>6, <2>1
    <2> QED
        BY <2>2 DEF StoreOK, OneTask
<1>9. QuietOK'
    <2>1. ASSUME NEW p \in Ops, Closes(p)', NEW m \in Names \ (revived' \cup excused'), Runs(m)'
          PROVE  op'[p].child[m] \in {"lock", "broken"}
        <3>1. Closes(p) /\ m \notin revived \cup excused /\ Runs(m)
            BY <1>4, <1>5, <1>6, <2>1
        <3>2. op[p].child[m] \in {"lock", "broken"}
            BY <3>1 DEF Inv, QuietOK
        <3>3. CASE p # o
            BY <1>5, <3>2, <3>3
        <3>4. CASE p = o /\ m # n
            BY <1>2, <3>2, <3>4
        <3>5. CASE p = o /\ m = n
            BY <1>2, <2>1, <3>5
        <3> QED
            BY <3>3, <3>4, <3>5
    <2>2. ASSUME NEW p \in Ops, At(p, "channel")' PROVE \A m \in Names : op'[p].child[m] = "done"
        <3>1. p # o
            BY <1>2, <2>2 DEF At
        <3> QED
            BY <1>5, <2>2, <3>1 DEF Inv, QuietOK, At
    <2>3. ASSUME home' = "closed", NEW m \in Names \ (revived' \cup excused') PROVE ~Runs(m)'
        <3>1. home = "closed"
            BY <2>3
        <3>2. m \notin revived => ~Runs(m)
            BY <3>1 DEF Inv, QuietOK, ClosedIsQuiet, Runs
        <3> QED
            BY <1>6, <3>2
    <2>4. ClosedIsQuiet'
        BY <2>3 DEF ClosedIsQuiet, Runs
    <2>5. ASSUME NEW p \in Ops, Closes(p)', NEW m \in Names \ excused', op'[p].child[m] # "done"
          PROVE  state'[m].status # "none"
        <3>1. Closes(p)
            BY <1>4, <1>5, <2>5
        <3>2. op[p].child[m] # "done"
            BY <1>2, <1>5, <2>5
        <3>3. state[m].status # "none"
            BY <3>1, <3>2 DEF Inv, QuietOK
        <3> QED
            BY <3>3
    <2> QED
        BY <2>1, <2>2, <2>4, <2>5 DEF QuietOK
<1>10. CoherentOK'
    <2> SUFFICES ASSUME NEW m \in Names \ excused', Stranded(m)'
                 PROVE  \E p \in Ops : /\ Closes(p)' /\ op'[p].at \in {"drain", "failed"}
                                       /\ op'[p].child[m] \in {"wait", "final"}
                                       /\ op'[p].gen[m] = state'[m].gen
        BY DEF CoherentOK
    <2>1. CASE m = n /\ y.child[n] \in {"wait", "final"} /\ y.gen[n] = state'[n].gen
        BY <1>2, <1>4, <2>1
    <2>2. CASE m # n \/ ~(y.child[n] \in {"wait", "final"} /\ y.gen[n] = state'[n].gen)
        <3>1. Stranded(m) /\ state'[m].gen = state[m].gen
            BY <1>6, <2>2
        <3>2. PICK p \in Ops : /\ Closes(p) /\ op[p].at \in {"drain", "failed"}
                               /\ op[p].child[m] \in {"wait", "final"}
                               /\ op[p].gen[m] = state[m].gen
            BY <3>1 DEF Inv, CoherentOK
        <3>3. CASE p # o
            BY <1>5, <3>1, <3>2, <3>3
        <3>4. CASE p = o /\ m # n
            BY <1>2, <1>4, <3>1, <3>2, <3>4
        <3>5. ~(p = o /\ m = n)
            BY <2>2, <3>2
        <3> QED
            BY <3>3, <3>4, <3>5
    <2> QED
        BY <2>1, <2>2
<1>11. PlainOK'
    <2> SUFFICES ASSUME excused' \cap {"overlap", "crash"} = {} PROVE PlainOK'
        BY DEF PlainOK
    <2>1. excused \cap {"overlap", "crash"} = {}
        OBVIOUS
    <2>2. \A p \in Ops : (Closes(p)' <=> Closes(p)) /\ op'[p].at = op[p].at
        BY <1>2, <1>4, <1>5
    <2> QED
        BY <2>1, <2>2 DEF Inv, PlainOK
<1> QED
    BY <1>3, <1>7, <1>8, <1>9, <1>10, <1>11 DEF Inv

\* The child's new place, and the generation noted for it.
LEMMA ChildGoesOn ==
    ASSUME op \in [Ops -> Handler], NEW o \in Ops, NEW n \in Names, NEW from, Child(o, n, from),
           NEW where \in ChildPlaces
    PROVE  /\ op[o] \in Closing /\ op[o].at \in {"drain", "failed"} /\ op[o].child[n] = from
           /\ op[o].gen[n] \in Nat
           /\ ChildGoes(o, n, where) =>
                 \E y \in Closing :
                    /\ op' = [op EXCEPT ![o] = y] /\ y.at = op[o].at /\ y.child[n] = where
                    /\ y.gen = op[o].gen
                    /\ \A m \in Names : m # n => y.child[m] = op[o].child[m]
<1>1. op[o] \in Closing /\ op[o].at \in {"drain", "failed"} /\ op[o].child[n] = from
    BY WhatItIs DEF Child
<1>2. /\ op[o].child \in [Names -> ChildPlaces]
      /\ op[o].gen \in [Names -> Nat]
    BY <1>1, ClosingFields
<1>3. ASSUME ChildGoes(o, n, where)
      PROVE  \E y \in Closing :
                /\ op' = [op EXCEPT ![o] = y] /\ y.at = op[o].at /\ y.child[n] = where
                /\ y.gen = op[o].gen
                /\ \A m \in Names : m # n => y.child[m] = op[o].child[m]
    <2> DEFINE y == ChildAt(op[o], n, where)
    <2>1. y \in Closing /\ y.at = op[o].at /\ y.gen = op[o].gen /\ y.child = [op[o].child EXCEPT ![n] = where]
        BY <1>1, ChildMoved
    <2>2. op' = [op EXCEPT ![o] = y]
        BY <1>3 DEF ChildGoes, ChildAt
    <2> HIDE DEF y
    <2> QED
        BY <1>2, <2>1, <2>2
<1> QED
    BY <1>1, <1>2, <1>3

LEMMA DrainBeginsStep ==
    ASSUME Inv, NEW o \in Ops, NEW n \in Names, DrainBegins(o, n)
    PROVE  Inv'
<1>1. /\ UNCHANGED <<home, plain, agents, state, texts, topics, proc, repo, starts, crashes, excused>>
      /\ Child(o, n, "lock") /\ ~Locked(n) /\ revived' = revived \ {n}
      /\ queue' = [queue EXCEPT ![n] = Canceled(queue[n])]
    BY DEF DrainBegins
<1>2. /\ state \in [Names -> StateType] /\ queue \in [Names -> SUBSET Entry] /\ proc \subseteq Names
      /\ op \in [Ops -> Handler] /\ state[n] \in StateType
    BY DEF Inv, Domains
<1>3. op[o] \in Closing /\ op[o].at \in {"drain", "failed"} /\ op[o].child[n] = "lock"
    BY <1>1, <1>2, WhatItIs DEF Child
<1>4. PICK y \in Closing :
         /\ op' = [op EXCEPT ![o] = y] /\ y.at = op[o].at /\ y.child[n] = "wait" /\ y.gen[n] = state[n].gen
         /\ \A m \in Names : m # n => y.child[m] = op[o].child[m] /\ y.gen[m] = op[o].gen[m]
    <2> DEFINE y == ChildNoted(op[o], n, "wait", state[n].gen)
    <2>1. /\ op[o].child \in [Names -> ChildPlaces]
          /\ op[o].gen \in [Names -> Nat] /\ state[n].gen \in Nat
        BY <1>2, <1>3, ClosingFields, StateUpdates
    <2>w. "wait" \in ChildPlaces
        BY DEF ChildPlaces
    <2>2. /\ y \in Closing /\ y.at = op[o].at /\ y.gen = [op[o].gen EXCEPT ![n] = state[n].gen]
          /\ y.child = [op[o].child EXCEPT ![n] = "wait"]
        BY <1>3, <2>1, <2>w, ChildLookedAt
    <2>3. op' = [op EXCEPT ![o] = y]
        BY <1>3 DEF DrainBegins, ChildNoted, Closing
    <2> HIDE DEF y
    <2> QED
        BY <2>1, <2>2, <2>3
<1>5. /\ queue' \in [Names -> SUBSET Entry] /\ queue'[n] = Canceled(queue[n])
      /\ \A m \in Names \ {n} : queue'[m] = queue[m]
    BY <1>1, <1>2, CanceledEntries
<1>6. Live(n)' = {}
    BY <1>2, <1>5, CanceledEntries DEF Live
<1>7. n \notin excused => OneTask(n)'
    <2> SUFFICES ASSUME n \notin excused PROVE OneTask(n)'
        OBVIOUS
    <2>1. OneTask(n)
        BY DEF Inv, StoreOK, OneTask
    <2>2. n \in agents => \E c \in queue'[n] : queue'[n] = {c} /\ c.gen = state'[n].gen
        BY <1>1, <1>2, <1>5, <2>1, CanceledEntries DEF OneTask
    <2> QED
        BY <1>1, <1>6, <2>1, <2>2 DEF OneTask
<1>8. ~Runs(n)'
    BY <1>6 DEF Runs
<1>9. /\ revived' \subseteq revived /\ revived \subseteq revived' \cup {n}
      /\ state' \in [Names -> StateType] /\ \A m \in Names \ {n} : state'[m] = state[m]
    BY <1>1, <1>2
<1>10. /\ UNCHANGED <<home, plain, agents, texts, topics, repo, starts, crashes>>
       /\ proc' \subseteq Names /\ revived' \subseteq revived /\ revived \subseteq revived' \cup {n}
       /\ excused \subseteq excused' /\ excused' \subseteq excused \cup {n}
       /\ state' \in [Names -> StateType] /\ queue' \in [Names -> SUBSET Entry]
       /\ \A m \in Names \ {n} : state'[m] = state[m] /\ queue'[m] = queue[m]
       /\ n \in excused' \/ ~Locked(n) \/ (state'[n] = state[n] /\ queue'[n] = queue[n])
       /\ n \notin excused' => OneTask(n)'
       /\ n \notin excused' /\ state'[n].status = "none" => state[n].status = "none"
       /\ op[o].child[n] # "done"
    BY <1>1, <1>2, <1>3, <1>5, <1>7, <1>9
<1>11. /\ n \notin revived' \cup excused' /\ Runs(n)' =>
             n \notin revived /\ Runs(n) /\ y.child[n] \in {"lock", "broken"}
       /\ n \notin excused' /\ Stranded(n)' =>
             \/ y.child[n] \in {"wait", "final"} /\ y.gen[n] = state'[n].gen
             \/ /\ Stranded(n) /\ state'[n].gen = state[n].gen
                /\ ~(op[o].child[n] \in {"wait", "final"} /\ op[o].gen[n] = state[n].gen)
    BY <1>1, <1>4, <1>8
<1> QED
    BY ONLY Inv, o \in Ops, n \in Names, <1>3, <1>10, <1>4, <1>11, ChildStep

\* What a child's part of a closing may write: s is the child's new state.
Drained(o, n, from, where, s) ==
    /\ s.gen = state[n].gen /\ s.child = state[n].child
    /\ s = state[n] \/ ~Locked(n)
    /\ s.status = state[n].status \/ (s.status = "stopped" /\ state[n].status # "deleted")
    /\ state[n].partial => s.partial \/ s.status = "stopped"
    /\ from = "lock" => where = "broken" /\ s = state[n]
    /\ from = "final" => where # "final"
    /\ where = "done" => s.status \in {"stopped", "deleted"}
    /\ from \in {"wait", "final"} /\ where = "broken" =>
          n \in excused' \/ s.partial \/ s.gen = 0 \/ state[n].gen # op[o].gen[n]

LEMMA DrainStep ==
    ASSUME Inv, NEW o \in Ops, NEW n \in Names,
           NEW from \in {"lock", "wait", "final"}, Child(o, n, from),
           NEW where \in {"final", "broken", "done"}, ChildGoes(o, n, where),
           UNCHANGED <<home, plain, agents, texts, queue, topics, repo, starts, crashes, revived>>,
           proc' \subseteq Names, excused \subseteq excused', excused' \subseteq excused \cup {n},
           NEW s \in StateType, state' = [state EXCEPT ![n] = s], Drained(o, n, from, where, s)
    PROVE  Inv'
<1> USE DEF Drained
<1>1. /\ state \in [Names -> StateType] /\ queue \in [Names -> SUBSET Entry] /\ revived \subseteq Names
      /\ op \in [Ops -> Handler] /\ state[n] \in StateType
    BY DEF Inv, Domains
<1>2. op[o] \in Closing /\ op[o].at \in {"drain", "failed"} /\ op[o].child[n] = from
    BY <1>1, WhatItIs DEF Child
<1>3. PICK y \in Closing :
         /\ op' = [op EXCEPT ![o] = y] /\ y.at = op[o].at /\ y.child[n] = where /\ y.gen = op[o].gen
         /\ \A m \in Names : m # n => y.child[m] = op[o].child[m]
    <2>1. where \in ChildPlaces
        BY DEF ChildPlaces
    <2> QED
        BY <1>1, <2>1, ChildGoesOn
<1>4. /\ state' \in [Names -> StateType] /\ state'[n] = s
      /\ \A m \in Names \ {n} : state'[m] = state[m]
    BY <1>1
<1>5. Live(n)' = Live(n)
    BY DEF Live
<1>6. Closes(o)
    BY <1>1, <1>2, WhatItIs
<1>7. n \notin excused => OneTask(n) /\ state[n].status # "none"
    BY <1>2, <1>6 DEF Inv, StoreOK, OneTask, QuietOK
<1>8. n \notin excused' => OneTask(n)'
    <2> SUFFICES ASSUME n \notin excused' PROVE OneTask(n)'
        OBVIOUS
    <2>1. OneTask(n) /\ state[n].status # "none"
        BY <1>7
    <2>2. CASE s.status = state[n].status
        BY <1>4, <1>5, <2>1, <2>2 DEF OneTask
    <2>3. CASE s.status = "stopped" /\ state[n].status # "deleted"
        BY <1>4, <1>5, <2>1, <2>3 DEF OneTask
    <2> QED
        BY <2>2, <2>3
<1>9. n \notin excused' /\ state'[n].status = "none" => state[n].status = "none"
    BY <1>4
<1>10. Runs(n)' => Runs(n) /\ where # "done"
    BY <1>4, <1>5 DEF Runs
<1>11. n \notin revived' \cup excused' /\ Runs(n)' =>
          n \notin revived /\ Runs(n) /\ y.child[n] \in {"lock", "broken"}
    <2> SUFFICES ASSUME n \notin revived' \cup excused', Runs(n)'
                 PROVE  n \notin revived /\ Runs(n) /\ y.child[n] \in {"lock", "broken"}
        OBVIOUS
    <2>1. Runs(n) /\ n \notin revived \cup excused
        BY <1>10
    <2>2. op[o].child[n] \in {"lock", "broken"}
        BY <1>6, <2>1 DEF Inv, QuietOK
    <2> QED
        BY <1>2, <1>3, <2>1, <2>2
<1>12. n \notin excused' /\ Stranded(n)' =>
          \/ y.child[n] \in {"wait", "final"} /\ y.gen[n] = state'[n].gen
          \/ /\ Stranded(n) /\ state'[n].gen = state[n].gen
             /\ ~(op[o].child[n] \in {"wait", "final"} /\ op[o].gen[n] = state[n].gen)
    <2> SUFFICES ASSUME n \notin excused', Stranded(n)',
                        \/ op[o].child[n] \in {"wait", "final"} /\ op[o].gen[n] = state[n].gen
                        \/ ~Stranded(n)
                 PROVE  y.child[n] \in {"wait", "final"} /\ y.gen[n] = state'[n].gen
        BY <1>4
    <2>1. s.status \in {"live", "waiting"} /\ ~s.partial /\ Live(n) = {} /\ s.status = state[n].status
        BY <1>4, <1>5 DEF Stranded
    <2>2. Stranded(n)
        BY <2>1 DEF Stranded
    <2>3. s.gen # 0
        BY <1>4, <1>7, <2>1 DEF OneTask
    <2>4. from \in {"wait", "final"} /\ state[n].gen = op[o].gen[n]
        BY <1>2, <2>2
    <2>5. where = "final"
        BY <2>1, <2>3, <2>4
    <2> QED
        BY <1>3, <1>4, <2>4, <2>5
<1>13. /\ revived' \subseteq revived /\ revived \subseteq revived' \cup {n}
       /\ queue' \in [Names -> SUBSET Entry]
       /\ \A m \in Names \ {n} : state'[m] = state[m] /\ queue'[m] = queue[m]
       /\ n \in excused' \/ ~Locked(n) \/ (state'[n] = state[n] /\ queue'[n] = queue[n])
       /\ op[o].child[n] # "done"
    BY <1>1, <1>2, <1>4
<1>14. \A m \in Names : m # n => y.child[m] = op[o].child[m] /\ y.gen[m] = op[o].gen[m]
    BY <1>3
<1>15. y.at = op[o].at /\ op' = [op EXCEPT ![o] = y]
    BY <1>3
<1>16. /\ UNCHANGED <<home, plain, agents, texts, topics, repo, starts, crashes>>
       /\ proc' \subseteq Names /\ excused \subseteq excused' /\ excused' \subseteq excused \cup {n}
    OBVIOUS
<1> QED
    BY ONLY Inv, o \in Ops, n \in Names, y \in Closing, <1>2, <1>4, <1>8, <1>9, <1>11, <1>12, <1>13,
       <1>14, <1>15, <1>16, ChildStep

\* One that writes nothing at all.
LEMMA DrainLeaves ==
    ASSUME Inv, NEW o \in Ops, NEW n \in Names,
           NEW from \in {"lock", "wait", "final"}, Child(o, n, from),
           NEW where \in {"final", "broken", "done"}, ChildGoes(o, n, where),
           UNCHANGED <<home, plain, agents, texts, queue, topics, repo, starts, crashes, revived>>,
           state' = state, proc' \subseteq Names,
           excused \subseteq excused', excused' \subseteq excused \cup {n},
           from = "lock" => where = "broken",
           where = "done" => state[n].status = "deleted",
           from \in {"wait", "final"} /\ where = "broken" =>
              n \in excused' \/ state[n].gen # op[o].gen[n],
           from = "final" => where # "final"
    PROVE  Inv'
<1>1. state \in [Names -> StateType] /\ state[n] \in StateType
    BY DEF Inv, Domains
<1>2. PICK s \in StateType : s = state[n]
    BY <1>1
<1>3. state' = [state EXCEPT ![n] = s]
    BY <1>1, <1>2
<1>4. Drained(o, n, from, where, s)
    <2>1. state[n].partial => s.partial \/ s.status = "stopped"
        BY <1>2, Zenon
    <2>2. from \in {"wait", "final"} /\ where = "broken" =>
             n \in excused' \/ s.partial \/ s.gen = 0 \/ state[n].gen # op[o].gen[n]
        OBVIOUS
    <2>3. where = "done" => s.status \in {"stopped", "deleted"}
        BY <1>2
    <2> QED
        BY <1>2, <2>1, <2>2, <2>3 DEF Drained
<1>5. /\ UNCHANGED <<home, plain, agents, texts, queue, topics, repo, starts, crashes, revived>>
      /\ proc' \subseteq Names /\ excused \subseteq excused' /\ excused' \subseteq excused \cup {n}
      /\ Child(o, n, from) /\ ChildGoes(o, n, where)
    OBVIOUS
<1> QED
    BY ONLY Inv, o \in Ops, n \in Names, s \in StateType, from \in {"lock", "wait", "final"},
       where \in {"final", "broken", "done"}, <1>3, <1>4, <1>5, DrainStep

LEMMA DrainEndsStep ==
    ASSUME Inv, NEW o \in Ops, NEW n \in Names, DrainEnds(o, n)
    PROVE  Inv'
<1>1. /\ UNCHANGED <<home, plain, agents, texts, queue, topics, repo, starts, crashes, revived>>
      /\ Child(o, n, "wait") /\ proc' \subseteq Names /\ state' = state
      /\ excused \subseteq excused' /\ excused' \subseteq excused \cup {n}
    BY DEF DrainEnds, task, Excuse, Inv, Domains
<1>2. \/ ChildGoes(o, n, "final")
      \/ ChildGoes(o, n, "broken") /\ n \in excused'
    BY DEF DrainEnds, Excuse
<1>3. CASE ChildGoes(o, n, "final")
    BY ONLY Inv, o \in Ops, n \in Names, <1>1, <1>3, DrainLeaves
<1>4. CASE ChildGoes(o, n, "broken") /\ n \in excused'
    BY ONLY Inv, o \in Ops, n \in Names, <1>1, <1>4, DrainLeaves
<1> QED
    BY <1>2, <1>3, <1>4

LEMMA DrainCutStep ==
    ASSUME Inv, NEW o \in Ops, NEW n \in Names, DrainCut(o, n)
    PROVE  Inv'
<1>1. /\ UNCHANGED <<home, plain, agents, texts, queue, topics, repo, starts, crashes, revived>>
      /\ proc' \subseteq Names /\ state' = state /\ ChildGoes(o, n, "broken")
      /\ excused \subseteq excused' /\ excused' \subseteq excused \cup {n}
    BY DEF DrainCut, task, Excuse, Inv, Domains
<1>2. Child(o, n, "lock") \/ (Child(o, n, "final") /\ n \in excused')
    BY DEF DrainCut, Excuse
<1>3. CASE Child(o, n, "lock")
    BY ONLY Inv, o \in Ops, n \in Names, <1>1, <1>3, DrainLeaves
<1>4. CASE Child(o, n, "final") /\ n \in excused'
    BY ONLY Inv, o \in Ops, n \in Names, <1>1, <1>4, DrainLeaves
<1> QED
    BY <1>2, <1>3, <1>4

LEMMA DrainRaisesStep ==
    ASSUME Inv, NEW o \in Ops, NEW n \in Names, DrainRaises(o, n)
    PROVE  Inv'
<1>1. /\ UNCHANGED <<home, plain, agents, texts, queue, topics, repo, starts, crashes, revived>>
      /\ proc' \subseteq Names /\ ~Locked(n) /\ Child(o, n, "wait") /\ ChildGoes(o, n, "broken")
      /\ excused \subseteq excused' /\ excused' \subseteq excused \cup {n}
    BY DEF DrainRaises, history, Inv, Domains
<1>2. state \in [Names -> StateType] /\ state[n] \in StateType
    BY DEF Inv, Domains
<1>3. PICK s \in StateType : s = Marked(state[n])
    BY <1>2, StateUpdates DEF Marked
<1>4. /\ s.gen = state[n].gen /\ s.child = state[n].child /\ s.status = state[n].status
      /\ s.partial \/ s.gen = 0
      /\ state[n].partial => s.partial \/ s.status = "stopped"
    BY <1>2, <1>3, StateUpdates DEF Marked
<1>5. state' = [state EXCEPT ![n] = s]
    BY <1>3 DEF DrainRaises
<1>6. Drained(o, n, "wait", "broken", s)
    BY <1>1, <1>4 DEF Drained
<1> QED
    BY ONLY Inv, o \in Ops, n \in Names, s \in StateType, <1>1, <1>5, <1>6, DrainStep

LEMMA DrainCommitsStep ==
    ASSUME Inv, NEW o \in Ops, NEW n \in Names, DrainCommits(o, n)
    PROVE  Inv'
<1>1. /\ UNCHANGED <<home, plain, agents, texts, queue, topics, repo, starts, crashes, revived>>
      /\ proc' \subseteq Names /\ ~Locked(n) /\ Child(o, n, "final")
      /\ excused \subseteq excused' /\ excused' \subseteq excused \cup {n}
    BY DEF DrainCommits, history, Inv, Domains
<1>2. state \in [Names -> StateType] /\ state[n] \in StateType
    BY DEF Inv, Domains
<1>3. CASE ~SameGeneration(o, n)
    <2>1. ChildGoes(o, n, "broken") /\ state' = state /\ state[n].gen # op[o].gen[n]
        BY <1>3 DEF DrainCommits, SameGeneration
    <2> QED
        BY ONLY Inv, o \in Ops, n \in Names, <1>1, <2>1, DrainLeaves
<1>4. CASE SameGeneration(o, n) /\ state[n].status = "deleted"
    <2>1. ChildGoes(o, n, "done") /\ state' = state
        BY <1>4 DEF DrainCommits
    <2> QED
        BY ONLY Inv, o \in Ops, n \in Names, <1>1, <1>4, <2>1, DrainLeaves
<1>5. CASE SameGeneration(o, n) /\ state[n].status # "deleted"
    <2>1. PICK s : s = Made(state[n], "stopped")
        OBVIOUS
    <2>2. /\ s \in StateType /\ s.status = "stopped" /\ s.gen = state[n].gen
          /\ s.child = state[n].child
        BY <1>2, <2>1, MadeState DEF Statuses
    <2>3. ChildGoes(o, n, "done") /\ state' = [state EXCEPT ![n] = s]
        BY <1>2, <1>5, <2>1 DEF DrainCommits, Made
    <2>4. Drained(o, n, "final", "done", s)
        BY <1>1, <1>5, <2>2 DEF Drained
    <2> QED
        BY ONLY Inv, o \in Ops, n \in Names, <1>1, <2>2, <2>3, <2>4, DrainStep
<1> QED
    BY <1>3, <1>4, <1>5

\* A closing begins, ends or is done with its children: nothing of a task moves.
LEMMA ClosingMoved ==
    ASSUME Inv, NEW o \in Ops, ~Creates(o), ~Creates(o)', op' \in [Ops -> Handler], OpsStay(o),
           UNCHANGED <<agents, state, texts, queue, topics, proc, repo, crashes>>,
           home' \in {"open", "closed"}, plain' \in {"pending", "canceled"} \cup Ops,
           revived' \subseteq Names, excused \subseteq excused', excused' \subseteq excused \cup {"overlap"},
           (starts' = starts /\ op[o] # Idle) \/ starts' = starts + 1
    PROVE  /\ Domains' /\ LockOK' /\ GensOK' /\ StoreOK' /\ BeforeOK' /\ AloneOK' /\ SafeOK'
           /\ \A n \in Names : (Runs(n)' <=> Runs(n)) /\ (Stranded(n)' <=> Stranded(n))
           /\ \A p \in Ops \ {o} : op'[p] = op[p] /\ (Closes(p)' <=> Closes(p))
<1>1. \A p \in Ops \ {o} : op'[p] = op[p] /\ (Closes(p)' <=> Closes(p)) /\ (Creates(p)' <=> Creates(p))
    BY DEF OpsStay, Closes, Creates, At
<1>2. Domains'
    BY DEF Inv, Domains
<1>3. \A n \in Names : (Runs(n)' <=> Runs(n)) /\ (Stranded(n)' <=> Stranded(n)) /\ (OneTask(n)' <=> OneTask(n))
    BY DEF Runs, Stranded, OneTask, Live
<1>4. StoreOK'
    BY <1>3 DEF Inv, StoreOK, OneTask
<1>5. LockOK' /\ GensOK' /\ BeforeOK' /\ AloneOK' /\ SafeOK'
    <2>1. \A p \in Ops : Creates(p) \/ Creates(p)' => op'[p] = op[p]
        BY <1>1
    <2>2. \/ starts' = starts /\ \A p \in Ops : op[p] = Idle => op'[p] = Idle
          \/ starts' = starts + 1
        BY <1>1
    <2> QED
        BY <1>2, <2>1, <2>2, CreationsKept
<1> QED
    BY <1>1, <1>2, <1>3, <1>4, <1>5

LEMMA BeginCloseStep ==
    ASSUME Inv, NEW o \in Ops, BeginClose(o)
    PROVE  Inv'
<1> DEFINE y == [at |-> IF Children = {} THEN "channel" ELSE "drain",
                 child |-> [n \in Names |-> IF n \in Children THEN "lock" ELSE "done"],
                 gen |-> [n \in Names |-> 0]]
<1>1. /\ UNCHANGED <<home, agents, state, texts, queue, topics, proc, repo, crashes>>
      /\ op[o].at = "idle" /\ home = "open" /\ starts' = starts + 1 /\ op' = [op EXCEPT ![o] = y]
      /\ plain' = (IF plain = "pending" THEN o ELSE plain)
      /\ excused \subseteq excused' /\ excused' \subseteq excused \cup {"overlap"}
      /\ (\E p \in Ops : Closes(p)) => "overlap" \in excused' /\ revived' = revived
      /\ revived' = revived \/ revived' = {}
    BY DEF BeginClose, task, At, PlainCanceled, Excuse
<1>2. op \in [Ops -> Handler] /\ plain \in {"pending", "canceled"} \cup Ops /\ revived \subseteq Names
    BY DEF Inv, Domains
<1>3. y \in Closing
    BY DEF Closing
<1>4. /\ y.at = (IF Children = {} THEN "channel" ELSE "drain")
      /\ \A n \in Names : y.child[n] = IF n \in Children THEN "lock" ELSE "done"
    OBVIOUS
<1> HIDE DEF y
<1>5. op' \in [Ops -> Handler] /\ op'[o] = y /\ OpsStay(o)
    BY <1>1, <1>2, <1>3, ClosingFields, OpUpdate
<1>6. ~Creates(o) /\ ~Closes(o) /\ ~Creates(o)' /\ Closes(o)'
    BY <1>1, <1>2, <1>3, <1>5, WhatItIs, WhatItIsNext, Kinds DEF At
<1>7. /\ Domains' /\ LockOK' /\ GensOK' /\ StoreOK' /\ BeforeOK' /\ AloneOK' /\ SafeOK'
      /\ \A n \in Names : (Runs(n)' <=> Runs(n)) /\ (Stranded(n)' <=> Stranded(n))
      /\ \A p \in Ops \ {o} : op'[p] = op[p] /\ (Closes(p)' <=> Closes(p))
    <2>1. /\ home' \in {"open", "closed"} /\ plain' \in {"pending", "canceled"} \cup Ops
          /\ revived' \subseteq Names
        BY <1>1, <1>2
    <2> QED
        BY <1>1, <1>5, <1>6, <2>1, ClosingMoved
<1>8. QuietOK'
    <2>1. ASSUME NEW p \in Ops, Closes(p)', NEW n \in Names \ (revived' \cup excused'), Runs(n)'
          PROVE  op'[p].child[n] \in {"lock", "broken"}
        <3>1. CASE p = o
            <4>1. n \in Children
                BY <1>7, <2>1 DEF Runs, Children
            <4> QED
                BY <1>4, <1>5, <3>1, <4>1
        <3>2. CASE p # o
            BY <1>1, <1>7, <2>1, <3>2 DEF Inv, QuietOK
        <3> QED
            BY <3>1, <3>2
    <2>2. ASSUME NEW p \in Ops, Closes(p)', NEW n \in Names \ excused', op'[p].child[n] # "done"
          PROVE  state'[n].status # "none"
        <3>1. CASE p = o
            <4>1. n \in Children
                BY <1>4, <1>5, <2>2, <3>1
            <4> QED
                BY <1>1, <4>1 DEF Children
        <3>2. CASE p # o
            BY <1>1, <1>7, <2>2, <3>2 DEF Inv, QuietOK
        <3> QED
            BY <3>1, <3>2
    <2>3. ASSUME NEW p \in Ops, At(p, "channel")' PROVE \A n \in Names : op'[p].child[n] = "done"
        <3>1. CASE p = o
            BY <1>4, <1>5, <2>3, <3>1 DEF At
        <3>2. CASE p # o
            BY <1>7, <2>3, <3>2 DEF Inv, QuietOK, At
        <3> QED
            BY <3>1, <3>2
    <2>4. ClosedIsQuiet'
        BY <1>1 DEF ClosedIsQuiet
    <2> QED
        BY <2>1, <2>2, <2>3, <2>4 DEF QuietOK
<1>9. CoherentOK'
    BY <1>1, <1>6, <1>7 DEF Inv, CoherentOK
<1>10. PlainOK'
    <2> SUFFICES ASSUME excused' \cap {"overlap", "crash"} = {} PROVE PlainOK'
        BY DEF PlainOK
    <2>1. excused \cap {"overlap", "crash"} = {} /\ \A p \in Ops : ~Closes(p)
        BY <1>1
    <2>2. plain' = o
        BY <1>1, <2>1 DEF Inv, PlainOK
    <2>3. \A p \in Ops : Closes(p)' <=> p = o
        BY <1>6, <1>7, <2>1
    <2>4. op'[o].at # "failed" /\ home' = "open"
        BY <1>1, <1>4, <1>5
    <2> QED
        BY <2>2, <2>3, <2>4 DEF PlainOK
<1> QED
    BY <1>7, <1>8, <1>9, <1>10 DEF Inv

\* It goes on with no child under its hand, or fails, or ends.
LEMMA ClosingStep ==
    ASSUME Inv, NEW o \in Ops, Closes(o), op' \in [Ops -> Handler], OpsStay(o),
           \/ op'[o] = Idle
           \/ /\ op'[o] \in Closing /\ op'[o].at # "drain"
              /\ op'[o].child = op[o].child /\ op'[o].gen = op[o].gen
              /\ op'[o].at = "channel" => \A n \in Names : op[o].child[n] = "done",
           op'[o] = Idle \/ op'[o].at = "channel" =>
              \A n \in Names : op[o].child[n] \in {"done", "broken"},
           UNCHANGED <<agents, state, texts, queue, topics, proc, repo, starts, crashes, revived, excused>>,
           home' \in {"open", "closed"}, plain' \in {"pending", "canceled"} \cup Ops,
           home' = "closed" => home = "closed" \/ op[o].at = "channel",
           PlainOK'
    PROVE  Inv'
<1>1. op[o] \in Closing /\ op \in [Ops -> Handler] /\ op[o] # Idle /\ ~Creates(o)
    BY WhatItIs, Kinds DEF Inv, Domains, Closes
<1>2. ~Creates(o)' /\ (Closes(o)' => op'[o] \in Closing) /\ (op'[o] \in Closing => Closes(o)')
    BY WhatItIsNext, Kinds DEF Creates, IsCreation
<1>3. /\ Domains' /\ LockOK' /\ GensOK' /\ StoreOK' /\ BeforeOK' /\ AloneOK' /\ SafeOK'
      /\ \A n \in Names : (Runs(n)' <=> Runs(n)) /\ (Stranded(n)' <=> Stranded(n))
      /\ \A p \in Ops \ {o} : op'[p] = op[p] /\ (Closes(p)' <=> Closes(p))
    <2>1. revived' \subseteq Names
        BY DEF Inv, Domains
    <2> QED
        BY <1>1, <1>2, <2>1, ClosingMoved
<1>4. op'[o] \in Closing => op'[o] # Idle
    BY Kinds
<1>5. QuietOK'
    <2>1. ASSUME NEW p \in Ops, Closes(p)', NEW n \in Names \ (revived' \cup excused'), Runs(n)'
          PROVE  op'[p].child[n] \in {"lock", "broken"}
        BY <1>2, <1>3, <1>4, <2>1 DEF Inv, QuietOK
    <2>2. ASSUME NEW p \in Ops, Closes(p)', NEW n \in Names \ excused', op'[p].child[n] # "done"
          PROVE  state'[n].status # "none"
        BY <1>2, <1>3, <1>4, <2>2 DEF Inv, QuietOK
    <2>3. ASSUME NEW p \in Ops, At(p, "channel")' PROVE \A n \in Names : op'[p].child[n] = "done"
        <3>1. Closes(p)'
            BY <1>3, <2>3, WhatItIsNext DEF Domains, At
        <3> QED
            BY <1>2, <1>3, <1>4, <2>3, <3>1 DEF Inv, QuietOK, At
    <2>4. ASSUME home' = "closed", NEW n \in Names \ (revived' \cup excused') PROVE ~Runs(n)'
        <3>1. CASE home = "closed"
            BY <1>3, <3>1 DEF Inv, QuietOK, ClosedIsQuiet, Runs
        <3>2. CASE op[o].at = "channel"
            BY <1>3, <3>2 DEF Inv, QuietOK, At
        <3> QED
            BY <2>4, <3>1, <3>2
    <2>5. ClosedIsQuiet'
        BY <2>4 DEF ClosedIsQuiet, Runs
    <2> QED
        BY <2>1, <2>2, <2>3, <2>5 DEF QuietOK
<1>6. CoherentOK'
    <2> SUFFICES ASSUME NEW n \in Names \ excused', Stranded(n)'
                 PROVE  \E p \in Ops : /\ Closes(p)' /\ op'[p].at \in {"drain", "failed"}
                                       /\ op'[p].child[n] \in {"wait", "final"}
                                       /\ op'[p].gen[n] = state'[n].gen
        BY DEF CoherentOK
    <2>1. PICK p \in Ops : /\ Closes(p) /\ op[p].at \in {"drain", "failed"}
                           /\ op[p].child[n] \in {"wait", "final"}
                           /\ op[p].gen[n] = state[n].gen
        BY <1>3 DEF Inv, CoherentOK
    <2>2. CASE p # o
        BY <1>3, <2>1, <2>2
    <2>3. CASE p = o
        <3>1. op'[o] \in Closing /\ op'[o].at # "channel"
            BY <2>1, <2>3
        <3>2. op'[o].at \in {"drain", "channel", "failed"}
            BY <3>1, Kinds
        <3> QED
            BY <1>2, <1>4, <2>1, <2>3, <3>1, <3>2
    <2> QED
        BY <2>2, <2>3
<1> QED
    BY <1>3, <1>5, <1>6 DEF Inv

\* Closings one at a time, this is the one.
LEMMA OnlyClosing ==
    ASSUME Inv, NEW o \in Ops, Closes(o), excused \cap {"overlap", "crash"} = {}
    PROVE  /\ \A p \in Ops : Closes(p) => p = o
           /\ home = "open" /\ plain = IF op[o].at = "failed" THEN "pending" ELSE o
    BY DEF Inv, PlainOK

LEMMA GatheredStep ==
    ASSUME Inv, NEW o \in Ops, Gathered(o)
    PROVE  Inv'
<1>1. /\ UNCHANGED <<home, agents, state, texts, queue, topics, proc, repo, starts, crashes, revived, excused>>
      /\ op[o].at = "drain"
    BY DEF Gathered, task, history, At
<1>2. op[o] \in Closing /\ op \in [Ops -> Handler] /\ Closes(o)
      /\ plain \in {"pending", "canceled"} \cup Ops /\ home \in {"open", "closed"}
    BY <1>1, WhatItIs DEF Inv, Domains
<1>3. PICK at \in {"channel", "failed"} :
         /\ op' = [op EXCEPT ![o].at = at]
         /\ at = "channel" => plain' = plain /\ \A n \in Names : op[o].child[n] = "done"
         /\ at = "failed" => plain' = IF plain = o THEN "pending" ELSE plain
    BY DEF Gathered, Goes, Uncanceled
<1> DEFINE y == [op[o] EXCEPT !.at = at]
<1>4. y \in Closing /\ y.at = at /\ y.child = op[o].child /\ y.gen = op[o].gen
    <2>1. op[o] \in Closing /\ at \in {"drain", "channel", "failed"}
        BY <1>2
    <2> QED
        BY ONLY <2>1, ClosingGoes
<1>5. op' = [op EXCEPT ![o] = y]
    BY <1>3
<1> HIDE DEF y
<1>6. op' \in [Ops -> Handler] /\ op'[o] = y /\ OpsStay(o)
    BY <1>2, <1>4, <1>5, ClosingFields, OpUpdate
<1>7. PlainOK'
    <2> SUFFICES ASSUME excused \cap {"overlap", "crash"} = {} PROVE PlainOK'
        BY <1>1 DEF PlainOK
    <2>1. (\A p \in Ops : Closes(p) => p = o) /\ home = "open" /\ plain = o
        BY <1>1, <1>2, OnlyClosing
    <2>2. \A p \in Ops : Closes(p)' <=> p = o
        <3>1. Closes(o)'
            BY <1>4, <1>6, WhatItIsNext
        <3>2. \A p \in Ops \ {o} : Closes(p)' <=> Closes(p)
            BY <1>6 DEF OpsStay, Closes, Creates, At
        <3> QED
            BY <2>1, <3>1, <3>2
    <2>3. plain' = IF op'[o].at = "failed" THEN "pending" ELSE o
        BY <1>3, <1>4, <1>6, <2>1
    <2> QED
        BY <1>1, <2>1, <2>2, <2>3 DEF PlainOK
<1>8. plain' \in {"pending", "canceled"} \cup Ops
    BY <1>2, <1>3
<1> QED
    BY <1>1, <1>2, <1>3, <1>4, <1>6, <1>7, <1>8, Kinds, ClosingStep

\* Nothing is under way when the only closing ends.
LEMMA LastEnds ==
    ASSUME Inv, NEW o \in Ops, Closes(o), op' = [op EXCEPT ![o] = Idle], excused' = excused,
           excused \cap {"overlap", "crash"} = {} => (home' = "open" <=> plain' = "pending")
    PROVE  PlainOK' /\ op' \in [Ops -> Handler] /\ op'[o] = Idle /\ OpsStay(o)
<1>1. op' \in [Ops -> Handler] /\ op'[o] = Idle /\ OpsStay(o)
    BY IdleHandler, OpUpdate DEF Inv, Domains
<1>2. PlainOK'
    <2> SUFFICES ASSUME excused \cap {"overlap", "crash"} = {} PROVE PlainOK'
        BY DEF PlainOK
    <2>1. \A p \in Ops : Closes(p) => p = o
        BY OnlyClosing
    <2>2. \A p \in Ops \ {o} : Closes(p)' <=> Closes(p)
        BY <1>1 DEF OpsStay, Closes, Creates, At
    <2>3. ~Closes(o)'
        BY <1>1, Kinds DEF Closes, At
    <2> QED
        BY <2>1, <2>2, <2>3 DEF PlainOK
<1> QED
    BY <1>1, <1>2

LEMMA UnobservedStep ==
    ASSUME Inv, NEW o \in Ops, Unobserved(o)
    PROVE  Inv'
<1>1. /\ UNCHANGED <<home, plain, agents, state, texts, queue, topics, proc, repo, starts, crashes, revived, excused>>
      /\ op[o].at = "failed" /\ op' = [op EXCEPT ![o] = Idle]
      /\ \A n \in Names : op[o].child[n] \in {"done", "broken"}
    BY DEF Unobserved, task, history, At, Ends
<1>2. Closes(o) /\ plain \in {"pending", "canceled"} \cup Ops /\ home \in {"open", "closed"}
    BY <1>1, WhatItIs DEF Inv, Domains
<1>3. excused \cap {"overlap", "crash"} = {} => (home' = "open" <=> plain' = "pending")
    BY <1>1, <1>2, OnlyClosing
<1>4. PlainOK' /\ op' \in [Ops -> Handler] /\ op'[o] = Idle /\ OpsStay(o)
    BY <1>1, <1>2, <1>3, LastEnds
<1> QED
    BY <1>1, <1>2, <1>4, ClosingStep

LEMMA CloseChannelStep ==
    ASSUME Inv, NEW o \in Ops, CloseChannel(o)
    PROVE  Inv'
<1>1. /\ UNCHANGED <<agents, state, texts, queue, topics, proc, repo, starts, crashes, revived, excused>>
      /\ op[o].at = "channel" /\ op' = [op EXCEPT ![o] = Idle]
      /\ \/ home' = "closed" /\ plain' = plain
         \/ home' = home /\ plain' = IF plain = o THEN "pending" ELSE plain
    BY DEF CloseChannel, task, history, At, Ends, Uncanceled
<1>2. Closes(o) /\ plain \in {"pending", "canceled"} \cup Ops /\ home \in {"open", "closed"}
    BY <1>1, WhatItIs DEF Inv, Domains
<1>3. \A n \in Names : op[o].child[n] = "done"
    BY <1>1 DEF Inv, QuietOK, At
<1>4. excused \cap {"overlap", "crash"} = {} => (home' = "open" <=> plain' = "pending")
    <2> SUFFICES ASSUME excused \cap {"overlap", "crash"} = {} PROVE home' = "open" <=> plain' = "pending"
        OBVIOUS
    <2>1. home = "open" /\ plain = o
        BY <1>1, <1>2, OnlyClosing
    <2>2. o # "pending"
        BY WorkspacesAssumption
    <2> QED
        BY <1>1, <2>1, <2>2
<1>5. PlainOK' /\ op' \in [Ops -> Handler] /\ op'[o] = Idle /\ OpsStay(o)
    BY <1>1, <1>2, <1>4, LastEnds
<1>6. home' \in {"open", "closed"} /\ plain' \in {"pending", "canceled"} \cup Ops
    BY <1>1, <1>2
<1>7. op'[o].at # "channel"
    BY <1>5, Kinds
<1> QED
    BY <1>1, <1>2, <1>3, <1>5, <1>6, <1>7, ClosingStep

-----------------------------------------------------------------------------
(***************************************************************************)
(* The repository and the process.                                          *)
(***************************************************************************)
Committed(r, h) == [r EXCEPT !.made = @ + 1, !.tip[h] = @ \cup {r.made + 1}]

LEMMA CommittedRepo ==
    ASSUME NEW r \in RepoType, NEW h \in Branches
    PROVE  LET s == Committed(r, h) IN
           /\ s \in RepoType /\ s.head = r.head /\ s.branches = r.branches
           /\ s.made = r.made + 1 /\ s.tip = [r.tip EXCEPT ![h] = @ \cup {r.made + 1}]
<1>1. /\ r.head \in Branches /\ r.branches \in SUBSET Branches /\ r.made \in Nat
      /\ r.tip \in [Branches -> SUBSET Nat]
    BY DEF RepoType
<1>2. /\ r.made + 1 \in Nat
      /\ [r.tip EXCEPT ![h] = @ \cup {r.made + 1}] \in [Branches -> SUBSET Nat]
    BY <1>1
<1> QED
    BY <1>1, <1>2 DEF Committed, RepoType

LEMMA CommitsStep ==
    ASSUME Inv, Commits
    PROVE  Inv'
<1>1. /\ UNCHANGED <<home, plain, agents, state, texts, queue, topics, proc, op, starts, crashes, revived>>
      /\ repo' = [repo EXCEPT !.made = @ + 1, !.tip[repo.head] = @ \cup {repo.made + 1}]
      /\ excused \subseteq excused' /\ excused' \subseteq excused \cup {"unseen commit"}
      /\ \/ "unseen commit" \in excused'
         \/ ~\E o \in Ops : op[o].at \in {"made", "back", "drop"} /\ op[o].name = repo.head
    BY DEF Commits, task, Excuse
<1>2. repo \in RepoType /\ repo.head \in Branches /\ repo.made \in Nat /\ repo.tip \in [Branches -> SUBSET Nat]
    BY RepoFields DEF Inv, Domains
<1>3. /\ repo' \in RepoType /\ repo'.head = repo.head /\ repo'.branches = repo.branches
      /\ repo'.made = repo.made + 1 /\ repo'.tip[repo.head] = repo.tip[repo.head] \cup {repo.made + 1}
      /\ \A b \in Branches : b # repo.head => repo'.tip[b] = repo.tip[b]
    <2>1. repo' = Committed(repo, repo.head)
        BY <1>1 DEF Committed
    <2>2. repo' \in RepoType /\ repo'.head = repo.head /\ repo'.branches = repo.branches
          /\ repo'.made = repo.made + 1
          /\ repo'.tip = [repo.tip EXCEPT ![repo.head] = @ \cup {repo.made + 1}]
        BY <1>2, <2>1, CommittedRepo
    <2> QED
        BY <1>2, <2>2
<1>4. Domains'
    BY <1>1, <1>3 DEF Inv, Domains
<1>5. \A o \in Ops : (Creates(o)' <=> Creates(o)) /\ (Closes(o)' <=> Closes(o)) /\ (Past(o)' <=> Past(o))
    BY <1>1 DEF Creates, Closes, Past, At
<1>6. StoreOK' /\ QuietOK' /\ CoherentOK' /\ PlainOK'
    <2>1. \A n \in Names : /\ Live(n)' = Live(n) /\ (Runs(n)' <=> Runs(n)) /\ (Stranded(n)' <=> Stranded(n))
        BY <1>1 DEF Live, Runs, Stranded
    <2>2. StoreOK'
        BY <1>1, <2>1 DEF Inv, StoreOK
    <2>3. QuietOK'
        BY <1>1, <1>5, <2>1, ZenonT(40) DEF Inv, QuietOK, ClosedIsQuiet, At
    <2>4. CoherentOK'
        BY <1>1, <1>5, <2>1 DEF Inv, CoherentOK
    <2>5. PlainOK'
        <3>1. excused' \cap {"overlap", "crash"} = {} => excused \cap {"overlap", "crash"} = {}
            BY <1>1
        <3> QED
            BY <1>1, <1>5, <3>1 DEF Inv, PlainOK
    <2> QED
        BY <2>2, <2>3, <2>4, <2>5
<1>7. LockOK' /\ GensOK' /\ BeforeOK'
    BY <1>1, <1>5 DEF Inv, LockOK, GensOK, BeforeOK
<1>8. AloneOK'
    <2>1. repo'.made # 0
        BY <1>2, <1>3
    <2> QED
        BY <1>1, <1>3, <2>1 DEF Inv, AloneOK, Alone
<1>9. SafeOK'
    <2>1. /\ repo.head \in repo.branches /\ "main" \in repo.branches
          /\ \A b \in Branches : repo.tip[b] \subseteq 1..repo.made
          /\ \A o \in Ops : Creates(o) =>
                op[o].git.tip \subseteq 1..repo.made /\ GitSane(op[o])
        BY DEF Inv, SafeOK, GitSane
    <2>2. 1..repo.made \subseteq 1..repo'.made /\ repo.made + 1 \in 1..repo'.made
        BY <1>2, <1>3
    <2>3. \A b \in Branches : repo'.tip[b] \subseteq 1..repo'.made
        BY <1>3, <2>1, <2>2
    <2>4. \A o \in Ops : Creates(o)' =>
             op'[o].git.tip \subseteq 1..repo'.made /\ GitSane(op'[o])
        BY <1>1, <1>5, <2>1, <2>2
    <2>5. ASSUME "unseen commit" \notin excused', NEW c \in 1..repo'.made
          PROVE  \E b \in repo'.branches : c \in repo'.tip[b] /\ ~Doomed(b)'
        <3>1. PICK h \in Branches : h = repo.head
            BY <1>2
        <3>2. ASSUME NEW o \in Ops, Creates(o), op[o].name = h, Removes(op[o], repo')
              PROVE  FALSE
            <4>1. op[o].git.tip = repo'.tip[h]
                BY <1>1, <2>5, <3>1, <3>2 DEF Removes
            <4>2. repo.made + 1 \in repo'.tip[h] /\ repo.made + 1 \notin 1..repo.made
                BY <1>2, <1>3, <3>1
            <4> QED
                BY <2>1, <3>2, <4>1, <4>2
        <3>3. ~Doomed(h)'
            BY <1>1, <1>5, <3>2 DEF Doomed
        <3>4. CASE c = repo.made + 1
            BY <1>3, <2>1, <3>1, <3>3, <3>4
        <3>5. CASE c \in 1..repo.made
            <4>1. "unseen commit" \notin excused
                BY <1>1, <2>5
            <4>2. PICK b \in repo.branches : c \in repo.tip[b] /\ ~Doomed(b)
                BY <3>5, <4>1 DEF Inv, SafeOK
            <4>3. b \in Branches
                BY RepoFields DEF Inv, Domains
            <4>4. CASE b = h
                BY <1>3, <3>1, <3>3, <4>2, <4>4
            <4>5. CASE b # h
                <5>0. repo'.tip[b] = repo.tip[b]
                    BY <1>3, <3>1, <4>3, <4>5
                <5>1. ~Doomed(b)'
                    <6>1. ASSUME NEW o \in Ops, op[o].name = b, Removes(op[o], repo')
                          PROVE  Removes(op[o], repo)
                        BY <5>0, <6>1 DEF Removes
                    <6> QED
                        BY <1>1, <1>5, <4>2, <6>1 DEF Doomed
                <5> QED
                    BY <1>3, <4>2, <5>0, <5>1
            <4> QED
                BY <4>4, <4>5
        <3>6. c = repo.made + 1 \/ c \in 1..repo.made
            <4>1. repo.made \in Nat /\ c \in 1..(repo.made + 1)
                BY <1>2, <1>3
            <4> QED
                BY ONLY <4>1
        <3> QED
            BY <3>4, <3>5, <3>6
    <2> QED
        BY <1>1, <1>3, <2>1, <2>3, <2>4, <2>5 DEF SafeOK, GitSane
<1> QED
    BY <1>4, <1>6, <1>7, <1>8, <1>9 DEF Inv

LEMMA CrashStep ==
    ASSUME Inv, Crash
    PROVE  Inv'
<1>1. /\ UNCHANGED <<home, topics, repo, starts, revived, agents>>
      /\ crashes' = crashes + 1 /\ proc' = {} /\ op' = [o \in Ops |-> Idle]
      /\ plain' = (IF plain \in Ops THEN "canceled" ELSE plain)
      /\ excused \subseteq excused' /\ "crash" \in excused'
      /\ \A o \in Ops : Creates(o) => op[o].name \in excused'
      /\ \A o \in Ops, n \in Names :
            Closes(o) /\ ~At(o, "channel") /\ op[o].child[n] \in {"wait", "final"} => n \in excused'
    <2>1. \/ \E o \in Ops, upto \in 1..3 : At(o, "title") /\ Written(o, upto)
          \/ UNCHANGED task
        BY DEF Crash
    <2>2. UNCHANGED agents
        <3>1. ASSUME NEW o \in Ops, NEW upto \in 1..3, Written(o, upto) PROVE UNCHANGED agents
            <4>1. ~(upto >= 4)
                OBVIOUS
            <4> QED
                BY <3>1, <4>1 DEF Written
        <3>2. ASSUME UNCHANGED task PROVE UNCHANGED agents
            BY <3>2 DEF task
        <3> QED
            BY <2>1, <3>1, <3>2
    <2> QED
        BY <2>2 DEF Crash, Excuse
<1>2. /\ state \in [Names -> StateType] /\ texts \in [Names -> TextsType]
      /\ queue \in [Names -> SUBSET Entry] /\ op \in [Ops -> Handler]
      /\ plain \in {"pending", "canceled"} \cup Ops /\ starts \in Nat /\ crashes \in Nat
    BY DEF Inv, Domains
\* What is written at the end of a creation is in its own name.
<1>3. /\ state' \in [Names -> StateType] /\ texts' \in [Names -> TextsType]
      /\ queue' \in [Names -> SUBSET Entry]
      /\ \A m \in Names \ excused' : state'[m] = state[m] /\ texts'[m] = texts[m] /\ queue'[m] = queue[m]
    <2>1. CASE UNCHANGED task
        BY <1>2, <2>1 DEF task
    <2>2. ASSUME NEW o \in Ops, NEW upto \in 1..3, At(o, "title"), Written(o, upto)
          PROVE  /\ state' \in [Names -> StateType] /\ texts' \in [Names -> TextsType]
                 /\ queue' \in [Names -> SUBSET Entry]
                 /\ \A m \in Names \ excused' :
                       state'[m] = state[m] /\ texts'[m] = texts[m] /\ queue'[m] = queue[m]
        <3>1. op[o] \in Creation /\ Creates(o)
            BY <1>2, <2>2, WhatItIs DEF At, CreateAts
        <3>2. PICK n \in Names : n = op[o].name
            BY <3>1, CreationFields
        <3>3. PICK g \in Nat : g = op[o].gen
            BY <3>1, CreationFields
        <3>4. texts' = [texts EXCEPT ![n].program = g]
            BY <2>2, <3>2, <3>3 DEF Written
        <3>5. state' = state \/ state' = [state EXCEPT ![n] = NewState(o)]
            BY <2>2, <3>2 DEF Written
        <3>6. queue' = queue \/ queue' = [queue EXCEPT ![n] = WithEntry(n, g)]
            BY <2>2, <3>2, <3>3 DEF Written
        <3>7. n \in excused'
            BY <1>1, <3>1, <3>2
        <3>8. NewState(o) \in StateType
            <4>1. op[o].child \in BOOLEAN
                BY <3>1 DEF Creation
            <4> QED
                BY <3>3, <4>1 DEF NewState, StateType, Statuses
        <3>9. WithEntry(n, g) \subseteq Entry
            <4>1. [gen |-> g, status |-> "pending"] \in Entry
                BY DEF Entry
            <4>2. Live(n) \subseteq Entry
                BY <1>2 DEF Live
            <4> QED
                BY <4>1, <4>2 DEF WithEntry
        <3>10. /\ texts' \in [Names -> TextsType] /\ \A m \in Names \ excused' : texts'[m] = texts[m]
            BY <1>2, <3>4, <3>7 DEF TextsType
        <3>11. /\ state' \in [Names -> StateType] /\ \A m \in Names \ excused' : state'[m] = state[m]
            BY <1>2, <3>5, <3>7, <3>8
        <3>12. /\ queue' \in [Names -> SUBSET Entry] /\ \A m \in Names \ excused' : queue'[m] = queue[m]
            BY <1>2, <3>6, <3>7, <3>9
        <3> QED
            BY <3>10, <3>11, <3>12
    <2> QED
        BY <2>1, <2>2 DEF Crash
<1>4. \A o \in Ops : op'[o] = Idle /\ ~Creates(o)' /\ ~Closes(o)' /\ ~Past(o)' /\ ~At(o, "channel")'
    <2>1. \A o \in Ops : op'[o] = Idle
        BY <1>1
    <2> QED
        BY <2>1, Kinds DEF Creates, IsCreation, Closes, At, Past
<1>5. Domains'
    <2>1. op' \in [Ops -> Handler]
        BY <1>1, IdleHandler
    <2>2. crashes' \in Nat /\ proc' \subseteq Names /\ plain' \in {"pending", "canceled"} \cup Ops
        BY <1>1, <1>2
    <2> QED
        BY <1>1, <1>3, <2>1, <2>2 DEF Inv, Domains
<1>6. \A m \in Names \ excused' : /\ m \notin excused /\ Live(m)' = Live(m) /\ (Runs(m)' <=> Runs(m))
                                  /\ (Stranded(m)' <=> Stranded(m)) /\ (OneTask(m)' <=> OneTask(m))
    BY <1>1, <1>3 DEF Live, Runs, Stranded, OneTask
<1>7. StoreOK'
    BY <1>6 DEF Inv, StoreOK, OneTask
<1>8. QuietOK'
    <2>1. ASSUME home' = "closed", NEW m \in Names \ (revived' \cup excused') PROVE ~Runs(m)'
        BY <1>1, <1>6, <2>1 DEF Inv, QuietOK, ClosedIsQuiet, Runs
    <2>2. ClosedIsQuiet'
        BY <2>1 DEF ClosedIsQuiet, Runs
    <2> QED
        BY <1>4, <2>2 DEF QuietOK
<1>9. CoherentOK'
    <2>1. ASSUME NEW m \in Names \ excused', Stranded(m)' PROVE FALSE
        <3>1. PICK p \in Ops : /\ Closes(p) /\ op[p].at \in {"drain", "failed"}
                               /\ op[p].child[m] \in {"wait", "final"}
            BY <1>6, <2>1 DEF Inv, CoherentOK
        <3> QED
            BY <1>1, <2>1, <3>1 DEF At
    <2> QED
        BY <2>1 DEF CoherentOK
<1>10. LockOK' /\ GensOK' /\ BeforeOK'
    BY <1>1, <1>4 DEF Inv, LockOK, GensOK, BeforeOK
<1>11. AloneOK'
    BY <1>1, <1>4 DEF Inv, AloneOK
<1>12. SafeOK'
    <2>1. \A b : ~Doomed(b)'
        BY <1>4 DEF Doomed
    <2> QED
        BY <1>1, <1>4, <2>1 DEF Inv, SafeOK
<1>13. PlainOK'
    BY <1>1 DEF PlainOK
<1> QED
    BY <1>5, <1>7, <1>8, <1>9, <1>10, <1>11, <1>12, <1>13 DEF Inv

LEMMA InitInv == Init => Inv
<1> SUFFICES ASSUME Init PROVE Inv
    OBVIOUS
<1>1. /\ home = "open" /\ plain = "pending" /\ agents \subseteq Names /\ topics = {} /\ proc = {}
      /\ op = [o \in Ops |-> Idle] /\ starts = 1 /\ crashes = 0 /\ revived = {} /\ excused = {}
      /\ \A n \in Names :
            /\ state[n] = IF n \in agents
                  THEN [gen |-> 1, status |-> "live", child |-> TRUE, partial |-> FALSE] ELSE NoState
            /\ texts[n] = IF n \in agents THEN [plan |-> 1, program |-> 1] ELSE NoTexts
            /\ queue[n] = IF n \in agents THEN {[gen |-> 1, status |-> "pending"]} ELSE {}
      /\ repo.head = "main" /\ repo.branches = {"main"} \cup agents /\ repo.made = 0
      /\ \A b \in Branches : repo.tip[b] = {}
    BY DEF Init, Branches
<1>2. \A o \in Ops : op[o] = Idle /\ ~Creates(o) /\ ~Closes(o) /\ ~Past(o) /\ ~At(o, "channel")
    <2>1. \A o \in Ops : op[o] = Idle
        BY <1>1
    <2> QED
        BY <2>1, Kinds DEF Creates, IsCreation, Closes, At, Past
<1>3. Domains
    <2>1. state \in [Names -> StateType]
        BY DEF Init, StateType, NoState, Statuses
    <2>2. texts \in [Names -> TextsType]
        BY DEF Init, TextsType, NoTexts
    <2>3. queue \in [Names -> SUBSET Entry]
        BY DEF Init, Entry
    <2>4. op \in [Ops -> Handler]
        BY IdleHandler DEF Init
    <2>5. repo \in RepoType
        BY DEF Init, RepoType, Branches
    <2> QED
        BY <1>1, <2>1, <2>2, <2>3, <2>4, <2>5 DEF Domains
<1>4. StoreOK
    <2> SUFFICES ASSUME NEW n \in Names PROVE OneTask(n)
        BY DEF StoreOK, OneTask
    <2>1. CASE n \in agents
        <3>1. PICK e : e = [gen |-> 1, status |-> "pending"]
            OBVIOUS
        <3>2. e \in queue[n] /\ queue[n] = {e} /\ e.gen = 1
            BY <1>1, <2>1, <3>1
        <3>3. state[n].gen = 1 /\ state[n].status = "live" /\ texts[n].program = 1
            BY <1>1, <2>1
        <3> QED
            BY <2>1, <3>2, <3>3 DEF OneTask
    <2>2. CASE n \notin agents
        BY <1>1, <2>2 DEF OneTask, Live, NoState
    <2> QED
        BY <2>1, <2>2
<1>5. LockOK /\ GensOK /\ BeforeOK
    BY <1>1, <1>2 DEF LockOK, GensOK, BeforeOK
<1>6. AloneOK
    BY <1>1, <1>2 DEF AloneOK
<1>7. SafeOK
    <2>1. \A b \in Branches : repo.tip[b] \subseteq 1..repo.made
        BY <1>1
    <2>2. 1..repo.made = {}
        BY <1>1
    <2> QED
        BY <1>1, <1>2, <2>1, <2>2 DEF SafeOK
<1>8. QuietOK
    BY <1>1, <1>2 DEF QuietOK, ClosedIsQuiet
<1>9. CoherentOK
    <2>1. ASSUME NEW n \in Names PROVE ~Stranded(n)
        <3>1. CASE n \in agents
            <4>1. PICK e : e = [gen |-> 1, status |-> "pending"]
                OBVIOUS
            <4>2. e \in Live(n)
                BY <1>1, <3>1, <4>1 DEF Live
            <4> QED
                BY <4>2 DEF Stranded
        <3>2. CASE n \notin agents
            BY <1>1, <3>2 DEF Stranded, NoState
        <3> QED
            BY <3>1, <3>2
    <2> QED
        BY <2>1 DEF CoherentOK
<1>10. PlainOK
    BY <1>1, <1>2 DEF PlainOK
<1> QED
    BY <1>3, <1>4, <1>5, <1>6, <1>7, <1>8, <1>9, <1>10 DEF Inv

LEMMA StutterInv == Inv /\ UNCHANGED vars => Inv'
<1> SUFFICES ASSUME Inv, UNCHANGED vars PROVE Inv'
    OBVIOUS
<1>1. /\ UNCHANGED <<home, plain, agents, state, texts, queue, topics, proc>>
      /\ UNCHANGED <<repo, op, starts, crashes, revived, excused>>
    BY DEF vars, task, history
<1>2. Domains' /\ LockOK' /\ GensOK'
    BY <1>1 DEF Inv, Domains, LockOK, GensOK, Past, Creates, At
<1>3. StoreOK' /\ CoherentOK' /\ PlainOK'
    BY <1>1 DEF Inv, StoreOK, CoherentOK, PlainOK, Live, Stranded, Closes, Creates, At
<1>4. BeforeOK'
    BY <1>1 DEF Inv, BeforeOK, Past, Creates, At
<1>5. AloneOK'
    BY <1>1 DEF Inv, AloneOK, Alone, Creates
<1>6. SafeOK'
    BY <1>1, ZenonT(40) DEF Inv, SafeOK, Doomed, Creates
<1>7. QuietOK'
    BY <1>1 DEF Inv, QuietOK, Runs, Live, ClosedIsQuiet, Closes, Creates, At
<1> QED
    BY <1>2, <1>3, <1>4, <1>5, <1>6, <1>7 DEF Inv

LEMMA NextInv == Inv /\ Next => Inv'
<1> SUFFICES ASSUME Inv, Next PROVE Inv'
    OBVIOUS
<1>1. ASSUME NEW o \in Ops, NEW n \in Names, NEW child \in BOOLEAN, BeginCreate(o, n, child) PROVE Inv'
    BY <1>1, BeginCreateStep
<1>2. ASSUME NEW o \in Ops, BeginClose(o) PROVE Inv'
    BY <1>2, BeginCloseStep
<1>3. ASSUME NEW o \in Ops, Create(o) PROVE Inv'
    BY <1>3, ReserveStep, GitReadStep, GitCheckoutStep, GitDoneStep, GitGivesUpStep, TopicMadeStep,
       CreatedStep, ArchiveStep, GitCheckStep, GitBackStep, GitDropStep DEF Create
<1>4. ASSUME NEW o \in Ops, CreateFails(o) PROVE Inv'
    BY <1>4, CreateFailsStep
<1>5. ASSUME NEW o \in Ops, Close(o) PROVE Inv'
    BY <1>5, GatheredStep, UnobservedStep, CloseChannelStep, DrainBeginsStep, DrainEndsStep,
       DrainCommitsStep DEF Close
<1>6. ASSUME NEW o \in Ops, NEW n \in Names, DrainRaises(o, n) \/ DrainCut(o, n) PROVE Inv'
    BY <1>6, DrainRaisesStep, DrainCutStep
<1>7. ASSUME NEW n \in Names,
             StepStarts(n) \/ StepEnds(n) \/ StopTask(n) \/ ResumeTask(n) \/ DeleteTask(n)
      PROVE  Inv'
    BY <1>7, StepStartsStep, StepEndsStep, StopTaskStep, ResumeTaskStep, DeleteTaskStep
<1>8. ASSUME Commits \/ Crash PROVE Inv'
    BY <1>8, CommitsStep, CrashStep
<1> QED
    BY <1>1, <1>2, <1>3, <1>4, <1>5, <1>6, <1>7, <1>8 DEF Next

THEOREM Invariance == Spec => []Inv
<1>1. Inv /\ [Next]_vars => Inv'
    BY NextInv, StutterInv
<1> QED
    BY <1>1, InitInv, PTL DEF Spec

-----------------------------------------------------------------------------
(***************************************************************************)
(* How a creation ends.                                                     *)
(***************************************************************************)
Handles(p) ==
    \/ \E n \in Names, child \in BOOLEAN : BeginCreate(p, n, child)
    \/ BeginClose(p) \/ Create(p) \/ CreateFails(p) \/ Close(p)
    \/ \E n \in Names : DrainRaises(p, n) \/ DrainCut(p, n)

LEMMA OthersStay ==
    ASSUME op \in [Ops -> Handler], NEW p \in Ops, Handles(p)
    PROVE  OpsStay(p)
<1> SUFFICES ASSUME NEW q \in Ops, q # p PROVE op'[q] = op[q]
    BY DEF OpsStay
<1>1. ASSUME NEW n \in Names, NEW child \in BOOLEAN, BeginCreate(p, n, child) PROVE op'[q] = op[q]
    BY <1>1 DEF BeginCreate
<1>2. ASSUME BeginClose(p) PROVE op'[q] = op[q]
    BY <1>2 DEF BeginClose
<1>3. ASSUME Create(p) PROVE op'[q] = op[q]
    <2>1. CASE Reserve(p)
        BY <2>1 DEF Reserve, Ends
    <2>2. CASE GitRead(p)
        BY <2>2 DEF GitRead
    <2>3. CASE GitCheckout(p) \/ TopicMade(p) \/ Created(p)
        BY <2>3 DEF GitCheckout, TopicMade, Created, Goes, Ends
    <2>4. CASE GitDone(p) \/ GitGivesUp(p)
        BY <2>4 DEF GitDone, GitGivesUp, Planned
    <2>5. CASE Archive(p) \/ GitCheck(p) \/ GitBack(p) \/ GitDrop(p)
        BY <2>5 DEF Archive, GitCheck, GitBack, GitDrop, Goes, Ends
    <2> QED
        BY <1>3, <2>1, <2>2, <2>3, <2>4, <2>5 DEF Create
<1>4. ASSUME CreateFails(p) PROVE op'[q] = op[q]
    BY <1>4 DEF CreateFails, Goes, Ends
<1>5. ASSUME Close(p) PROVE op'[q] = op[q]
    <2>1. CASE Gathered(p) \/ Unobserved(p) \/ CloseChannel(p)
        BY <2>1 DEF Gathered, Unobserved, CloseChannel, Goes, Ends
    <2>2. ASSUME NEW n \in Names, DrainBegins(p, n) \/ DrainEnds(p, n) \/ DrainCommits(p, n)
          PROVE  op'[q] = op[q]
        BY <2>2 DEF DrainBegins, DrainEnds, DrainCommits, ChildGoes
    <2> QED
        BY <1>5, <2>1, <2>2 DEF Close
<1>6. ASSUME NEW n \in Names, DrainRaises(p, n) \/ DrainCut(p, n) PROVE op'[q] = op[q]
    BY <1>6 DEF DrainRaises, DrainCut, ChildGoes
<1> QED
    BY <1>1, <1>2, <1>3, <1>4, <1>5, <1>6 DEF Handles

\* Only where it looks at the repository, or fails before it has written anything, does a
\* creation end without its task.
LEMMA WhoEnds ==
    ASSUME Inv, Next, NEW o \in Ops, Creates(o), At(o, "idle")', crashes' = crashes,
           ~At(o, "lock"), state'[op[o].name].gen # op[o].gen
    PROVE  \/ op[o].at \in {"git", "checkout"} /\ CreateFails(o)
           \/ op[o].at = "switched" /\ CreateFails(o) /\ "switch" \in excused'
           \/ GitCheck(o) \/ GitBack(o) \/ GitDrop(o)
<1>1. /\ op \in [Ops -> Handler] /\ state \in [Names -> StateType] /\ crashes \in Nat
      /\ op[o] \in Creation /\ op[o].at \in CreateAts /\ op[o].name \in Names
    <2>1. op \in [Ops -> Handler]
        BY DEF Inv, Domains
    <2>2. op[o] \in Creation
        BY <2>1, WhatItIs
    <2> QED
        BY <2>1, <2>2, CreationFields DEF Inv, Domains
<1>2. op'[o] # op[o]
    BY <1>1, Kinds DEF At
<1>3. Handles(o)
    <2>1. ASSUME NEW p \in Ops, Handles(p) PROVE p = o
        BY <1>1, <1>2, <2>1, OthersStay DEF OpsStay
    <2>2. ASSUME NEW n \in Names,
                 StepStarts(n) \/ StepEnds(n) \/ StopTask(n) \/ ResumeTask(n) \/ DeleteTask(n)
          PROVE  FALSE
        BY <1>2, <2>2 DEF StepStarts, StepEnds, StopTask, ResumeTask, DeleteTask
    <2>3. ~Commits
        BY <1>2 DEF Commits
    <2>4. ~Crash
        BY <1>1 DEF Crash
    <2> QED
        BY <2>1, <2>2, <2>3, <2>4 DEF Next, Handles
<1>4. op[o].at \notin {"idle", "drain", "channel", "failed"} /\ ~Closes(o)
    BY <1>1, Kinds DEF Closes, CreateAts
<1>5. CASE Create(o)
    <2>1. ~Reserve(o)
        BY DEF Reserve
    <2>2. ~GitRead(o)
        BY <1>1 DEF GitRead, At, Creation
    <2>3. ~GitCheckout(o) /\ ~TopicMade(o) /\ ~Archive(o)
        BY <1>1 DEF GitCheckout, TopicMade, Archive, Goes, At, Creation
    <2>4. ~GitDone(o) /\ ~GitGivesUp(o)
        BY <1>1 DEF GitDone, GitGivesUp, Planned, At, Creation
    <2>5. ~Created(o)
        <3>1. PICK n \in Names : n = op[o].name
            BY <1>1
        <3>2. Created(o) => state' = [state EXCEPT ![n] = NewState(o)]
            BY <3>1 DEF Created, Written
        <3> QED
            BY <1>1, <3>1, <3>2 DEF NewState
    <2> QED
        BY <1>5, <2>1, <2>2, <2>3, <2>4, <2>5 DEF Create
<1>6. CASE CreateFails(o)
    <2>1. op[o].at \in {"made"} => op'[o].at = "check"
        BY <1>1, <1>6 DEF CreateFails, At, Creation
    <2>2. op[o].at \in {"topic", "title"} => op'[o].at \in {"archive", "check"}
        BY <1>1, <1>6 DEF CreateFails, Goes, At, Creation
    <2>3. op[o].at = "switched" => "switch" \in excused'
        BY <1>6 DEF CreateFails, Excuse, At
    <2> QED
        BY <1>6, <2>1, <2>2, <2>3 DEF CreateFails, At
<1>7. ~BeginClose(o) /\ \A n \in Names, child \in BOOLEAN : ~BeginCreate(o, n, child)
    BY <1>4 DEF BeginClose, BeginCreate, At
<1>8. ~Close(o) /\ \A n \in Names : ~DrainRaises(o, n) /\ ~DrainCut(o, n)
    BY <1>4 DEF Close, Gathered, Unobserved, CloseChannel, DrainBegins, DrainEnds, DrainCommits,
                DrainRaises, DrainCut, Child, At
<1> QED
    BY <1>3, <1>5, <1>6, <1>7, <1>8 DEF Handles

\* Ending there it has nothing left to undo.
LEMMA NothingWritten ==
    ASSUME Inv, NEW o \in Ops, Creates(o), op[o].at \notin {"lock", "topic", "title", "archive"},
           op[o].name \notin excused, UNCHANGED task, UNCHANGED topics
    PROVE  LET n == op[o].name  b == op[o].before IN
           /\ queue'[n] = b.queue /\ state'[n] = b.state /\ texts'[n] = b.texts
           /\ n \notin agents'
           /\ op[o].gen \in topics' => "topic" \in excused
<1>1. op[o].at \in CreateAts
    BY WhatItIs, Kinds DEF Inv, Domains
<1> QED
    BY <1>1, CreationFacts DEF task

\* Nor, alone, in the repository.
LEMMA NothingChecked ==
    ASSUME Inv, NEW o \in Ops, Creates(o), At(o, "idle")', Alone,
           \/ op[o].at \in {"git", "checkout"} /\ UNCHANGED repo
           \/ GitCheck(o) \/ GitBack(o) \/ GitDrop(o)
    PROVE  repo'.head = "main" /\ (op[o].name \in repo'.branches <=> op[o].before.branch)
<1>1. /\ op[o].at \in CreateAts /\ op[o] \in Creation /\ Placed(op[o], repo) /\ op \in [Ops -> Handler]
      /\ GitSane(op[o]) /\ op[o].name \in Names /\ repo \in RepoType
      /\ "main" \in repo.branches /\ op[o].before.branch \in BOOLEAN
    <2>1. op[o].at \in CreateAts
        BY WhatItIs, Kinds DEF Inv, Domains
    <2> QED
        BY <2>1, CreationFacts, BeforeFields DEF Inv, Domains, SafeOK
<1>2. CASE op[o].at \in {"git", "checkout"} /\ UNCHANGED repo
    BY <1>1, <1>2 DEF Placed, There
<1>3. CASE GitCheck(o)
    <2>1. op[o].at = "check" /\ UNCHANGED repo
        BY <1>3 DEF GitCheck, At
    <2>2. ~(op[o].git.kind # "none" /\ Untouched(o))
        BY <1>1, <1>3 DEF GitCheck, Goes, At, Creation
    <2> QED
        BY <1>1, <2>1, <2>2 DEF Placed, There, On, Untouched
<1>4. CASE GitBack(o)
    <2>1. /\ op[o].at = "back" /\ On(op[o], repo) /\ (op[o].git.kind = "switched" <=> op[o].before.branch)
        BY <1>1, <1>4 DEF GitBack, At, Placed, GitSane
    <2>2. op[o].git.prev = "main" /\ op[o].name \in repo.branches
        BY <2>1 DEF On
    <2>3. op[o].git.kind # "made"
        BY <1>1, <1>4, <2>2 DEF GitBack, Goes, At, Creation
    <2>4. op[o].git.kind \in {"made", "switched"}
        <3>1. op[o].git.kind \in {"none", "made", "switched"}
            BY <1>1, CreationFields, GitFields
        <3> QED
            BY <1>1, <2>1, <3>1 DEF GitSane
    <2>5. repo' = [repo EXCEPT !.head = "main"]
        BY <1>1, <1>4, <2>2 DEF GitBack
    <2>6. repo'.head = "main" /\ repo'.branches = repo.branches
        BY <1>1, <2>5 DEF RepoType
    <2> QED
        BY <2>1, <2>2, <2>3, <2>4, <2>6
<1>5. CASE GitDrop(o)
    <2>1. op[o].at = "drop" /\ repo.head = "main" /\ ~op[o].before.branch
        BY <1>1, <1>5 DEF GitDrop, At, Placed
    <2>2. op[o].name # "main"
        BY <1>1, WorkspacesAssumption
    <2>3. repo' = [repo EXCEPT !.branches = @ \ {op[o].name}, !.tip[op[o].name] = {}]
        BY <1>5, <2>1, <2>2 DEF GitDrop
    <2>4. repo'.head = repo.head /\ repo'.branches = repo.branches \ {op[o].name}
        BY <1>1, <2>3 DEF RepoType
    <2> QED
        BY <2>1, <2>4
<1> QED
    BY <1>2, <1>3, <1>4, <1>5

\* What FailureLeavesNoTrace says of one handler.
NoTrace(o) ==
    Creates(o) /\ At(o, "idle")' /\ crashes' = crashes
       /\ state'[op[o].name].gen # op[o].gen /\ ~At(o, "lock")
       /\ op[o].name \notin excused =>
       LET n == op[o].name  b == op[o].before IN
       /\ queue'[n] = b.queue /\ state'[n] = b.state /\ texts'[n] = b.texts
       /\ n \notin agents'
       /\ op[o].gen \in topics' => "topic" \in excused
       /\ starts' = 2 /\ repo'.made = 0 /\ "switch" \notin excused' =>
             repo'.head = "main" /\ (n \in repo'.branches <=> b.branch)

LEMMA EndsWithoutTrace ==
    ASSUME Inv, [Next]_vars, NEW o \in Ops
    PROVE  NoTrace(o)
<1> SUFFICES ASSUME Creates(o), At(o, "idle")', crashes' = crashes,
                    state'[op[o].name].gen # op[o].gen, ~At(o, "lock"), op[o].name \notin excused
             PROVE  LET n == op[o].name  b == op[o].before IN
                    /\ queue'[n] = b.queue /\ state'[n] = b.state /\ texts'[n] = b.texts
                    /\ n \notin agents'
                    /\ op[o].gen \in topics' => "topic" \in excused
                    /\ starts' = 2 /\ repo'.made = 0 /\ "switch" \notin excused' =>
                          repo'.head = "main" /\ (n \in repo'.branches <=> b.branch)
    BY DEF NoTrace
<1>1. op[o].at # "idle"
    BY WhatItIs, Kinds DEF Inv, Domains
<1>2. Next
    BY <1>1 DEF vars, At
<1>3. \/ op[o].at \in {"git", "checkout"} /\ CreateFails(o)
      \/ op[o].at = "switched" /\ CreateFails(o) /\ "switch" \in excused'
      \/ GitCheck(o) \/ GitBack(o) \/ GitDrop(o)
    BY <1>2, WhoEnds
<1>4. op[o].at \in {"git", "checkout", "switched", "check", "back", "drop"}
    BY <1>3 DEF GitCheck, GitBack, GitDrop, At
<1>5. UNCHANGED task /\ UNCHANGED <<topics, starts>> /\ excused \subseteq excused'
    BY <1>3 DEF CreateFails, GitCheck, GitBack, GitDrop, At, Excuse, history
<1>6. LET n == op[o].name  b == op[o].before IN
      /\ queue'[n] = b.queue /\ state'[n] = b.state /\ texts'[n] = b.texts
      /\ n \notin agents'
      /\ op[o].gen \in topics' => "topic" \in excused
    BY <1>4, <1>5, NothingWritten
<1>7. ASSUME starts' = 2, repo'.made = 0, "switch" \notin excused'
      PROVE  repo'.head = "main" /\ (op[o].name \in repo'.branches <=> op[o].before.branch)
    <2>1. repo'.made = repo.made
        <3>1. CASE UNCHANGED repo
            BY <3>1
        <3>2. repo \in RepoType
            BY DEF Inv, Domains
        <3>3. CASE GitBack(o)
            BY <3>1, <3>2, <3>3 DEF GitBack, RepoType
        <3>4. CASE GitDrop(o)
            BY <3>1, <3>2, <3>4 DEF GitDrop, RepoType
        <3> QED
            BY <1>3, <3>1, <3>3, <3>4 DEF CreateFails, GitCheck
    <2>2. Alone
        BY <1>5, <1>7, <2>1 DEF Alone
    <2>3. \/ op[o].at \in {"git", "checkout"} /\ UNCHANGED repo
          \/ GitCheck(o) \/ GitBack(o) \/ GitDrop(o)
        BY <1>3, <1>7 DEF CreateFails
    <2> QED
        BY <2>2, <2>3, NothingChecked
<1> QED
    BY <1>6, <1>7

-----------------------------------------------------------------------------
(***************************************************************************)
(* The theorems.                                                            *)
(***************************************************************************)
\* A name that has no excuse is registered with one entry, of the generation that its
\* state and its texts are of, or is not scheduled at all (create_continuous_task,
\* add_task and the lifecycle lock).
THEOREM OneGeneration == Spec => []OneTaskPerName
<1>1. Inv => OneTaskPerName
    <2> SUFFICES ASSUME Inv, NEW n \in Names \ excused, Live(n) # {}
                 PROVE  /\ Cardinality(queue[n]) = 1
                        /\ \A e \in queue[n] : e.gen = state[n].gen
                        /\ n \in agents /\ state[n].gen = texts[n].program
        BY DEF OneTaskPerName
    <2>1. /\ n \in agents /\ state[n].gen = texts[n].program
          /\ \E e \in queue[n] : queue[n] = {e} /\ e.gen = state[n].gen
        BY DEF Inv, StoreOK
    <2>2. PICK e \in queue[n] : queue[n] = {e} /\ e.gen = state[n].gen
        BY <2>1
    <2>3. Cardinality({e}) = 1
        BY FS_Singleton
    <2> QED
        BY <2>1, <2>2, <2>3
<1> QED
    BY <1>1, Invariance, PTL

\* However creations meet in one repository, with whoever commits to it, what a
\* compensation removes is no branch that alone holds a commit, but for the windows that
\* Commits names (_setup_git_branch, _compensate_git_setup).
THEOREM CommitsSurvive == Spec => []NoWorkLost
<1>1. Inv => NoWorkLost
    BY DEF Inv, SafeOK, NoWorkLost
<1> QED
    BY <1>1, Invariance, PTL

\* No child of a closed workspace is scheduled, but those created or resumed after the
\* closing had looked at it (close_workspace, _quiesce_continuous_children).
THEOREM Quiet == Spec => []ClosedIsQuiet
<1>1. Inv => ClosedIsQuiet
    BY DEF Inv, QuietOK
<1> QED
    BY <1>1, Invariance, PTL

\* A closing that fails or is cut half way leaves no task that believes itself live and is
\* not scheduled, unless it says so; and one closing at a time hands the workspace's own
\* entry back (_record_partial_close, restore_tasks_canceled_by_transaction).
THEOREM Coherent == Spec => []PartialIsCoherent
<1>1. Inv => PartialIsCoherent
    <2>1. ASSUME Inv, \A o \in Ops : At(o, "idle"), NEW n \in Names \ excused,
                 state[n].status \in {"live", "waiting"}, Live(n) = {}, ~state[n].partial
          PROVE  FALSE
        <3>1. \A o \in Ops : ~Closes(o)
            BY <2>1 DEF Closes
        <3> QED
            BY <2>1, <3>1 DEF Inv, CoherentOK, Stranded
    <2>2. ASSUME Inv, \A o \in Ops : ~Closes(o), excused \cap {"overlap", "crash"} = {}
          PROVE  home = "open" <=> plain = "pending"
        BY <2>2 DEF Inv, PlainOK
    <2> QED
        BY <2>1, <2>2 DEF PartialIsCoherent
<1> QED
    BY <1>1, Invariance, PTL

\* A creation that ends without its task has put back what it found: the entries, the
\* state and the texts of its name, its topic and, alone in the repository, where HEAD is
\* and which branches there are (rollback_continuous_creation, _compensate_git_setup).
THEOREM Untraced == Spec => FailureLeavesNoTrace
<1>1. Inv /\ [Next]_vars =>
         [\A o \in Ops :
            Creates(o) /\ At(o, "idle")' /\ crashes' = crashes
               /\ state'[op[o].name].gen # op[o].gen /\ ~At(o, "lock")
               /\ op[o].name \notin excused =>
               LET n == op[o].name  b == op[o].before IN
               /\ queue'[n] = b.queue /\ state'[n] = b.state /\ texts'[n] = b.texts
               /\ n \notin agents'
               /\ op[o].gen \in topics' => "topic" \in excused
               /\ starts' = 2 /\ repo'.made = 0 /\ "switch" \notin excused' =>
                     repo'.head = "main" /\ (n \in repo'.branches <=> b.branch)]_vars
    BY EndsWithoutTrace DEF NoTrace
<1> QED
    BY <1>1, Invariance, PTL DEF Spec, FailureLeavesNoTrace
=============================================================================
