----------------------------- MODULE ChatProofs -----------------------------
(***************************************************************************)
(* Theorems about what the bot keeps of its chats: the topic of a task      *)
(* (TopicRecovery), for any number of attempts, topics and acts, and the    *)
(* groups of collaborative workspaces (Collaborative), for any people,      *)
(* chats, names and bounds.  The two specifications have no variable in     *)
(* common.                                                                  *)
(***************************************************************************)
EXTENDS TopicRecovery, Collaborative, WellFoundedInduction, SequenceTheorems, TLAPS

-----------------------------------------------------------------------------
(***************************************************************************)
(* The inductive invariant.  It holds until a save puts older fields back:  *)
(* from then on nothing is claimed, and torn stays.                         *)
(***************************************************************************)
Recovering == {"resend", "create", "undo", "send", "alert"}
Fields == {"status", "topic", "title", "since", "attempts", "pending", "candidate", "event",
           "sent", "reminded", "deleting"}

\* Whoever recovers, or waits to, has a place for his copy.
ShapesOK ==
    /\ DOMAIN disk = Fields /\ DOMAIN job = Actors
    /\ \A a \in Actors :
          /\ "at" \in DOMAIN job[a]
          /\ job[a].at \in Recovering \cup {"lock"} => "copy" \in DOMAIN job[a]

\* The lifecycle lock.
OneInside ==
    \A a, b \in Actors : job[a].at \in Inside /\ job[b].at \in Inside => a = b

\* Others save while a recovery waits for the platform, but never the claim.
InSync ==
    \A a \in Actors : job[a].at \in {"resend", "create"} =>
        DOMAIN Copy(a) = Fields /\ (Copy(a).sent <=> disk.sent)

\* An alert that may have arrived has been claimed, and one under way is the first.
ClaimOK ==
    /\ alerts \in Nat /\ alerts <= 1
    /\ alerts > 0 => disk.sent
    /\ (\E a \in Actors : job[a].at = "alert") => disk.sent /\ alerts = 0

\* A task that is deleted, or about to be, has no step and no entry that could start one,
\* and nobody recovers its topic.
GoneOK ==
    /\ disk.status = "deleted" \/ job["user"].at = "archive" => ~live /\ canceled
    /\ disk.status = "deleted" => \A a \in Actors : job[a].at \notin Recovering

Untorn == ShapesOK /\ OneInside /\ InSync /\ ClaimOK /\ GoneOK /\ route = disk.topic

Inv == torn \/ Untorn

-----------------------------------------------------------------------------
(***************************************************************************)
(* What becomes of an actor's job.                                          *)
(***************************************************************************)
\* "a" goes on outside the lock, and nobody else moves.
Outward(a) ==
    /\ DOMAIN job' = Actors
    /\ \A b \in Actors \ {a} : job'[b] = job[b]
    /\ "at" \in DOMAIN job'[a] /\ job'[a].at \notin Inside
    /\ job'[a].at = "lock" => "copy" \in DOMAIN job'[a]

\* It goes on, or stays, inside.
Inward(a, where) ==
    /\ DOMAIN job' = Actors
    /\ \A b \in Actors \ {a} : job'[b] = job[b]
    /\ {"at", "copy"} \subseteq DOMAIN job'[a] /\ job'[a].at = where

LEMMA GoesOutward ==
    ASSUME DOMAIN job = Actors, NEW a \in Actors, NEW w, w \notin Inside, w # "lock", Goes(a, w)
    PROVE  Outward(a)
    BY DEF Goes, Outward, Inside

LEMMA EndsOutward ==
    ASSUME DOMAIN job = Actors, NEW a \in Actors, Ends(a)
    PROVE  Outward(a)
    BY DEF Ends, Idle, Outward, Inside

LEMMA HoldsOutward ==
    ASSUME DOMAIN job = Actors, NEW a \in Actors, NEW w, w \notin Inside, w # "lock",
           NEW by, NEW why, NEW s, Holds(a, w, by, why, s)
    PROVE  Outward(a)
    BY DEF Holds, Outward, Inside

LEMMA CallsOutward ==
    ASSUME DOMAIN job = Actors, NEW a \in Actors,
           NEW by, NEW why, NEW pend, NEW mine, Calls(a, by, why, pend, mine)
    PROVE  Outward(a)
    BY DEF Calls, Outward, Inside

LEMMA MovesFacts ==
    ASSUME ShapesOK, NEW a \in Actors, job[a].at \in Recovering \cup {"lock"},
           NEW w, NEW s, Moves(a, w, s)
    PROVE  Inward(a, w) /\ job'[a].copy = s
    BY DEF Moves, Inward, ShapesOK

LEMMA ReturnsOutward ==
    ASSUME DOMAIN job = Actors, NEW a \in Actors, NEW d \in BOOLEAN, Returns(a, d)
    PROVE  Outward(a)
<1>1. \/ \E by, why, s : Holds(a, "dispatch", by, why, s) \/ Holds(a, "reminded", by, why, s)
      \/ Goes(a, "incident") \/ Goes(a, "retry") \/ Goes(a, "reminder") \/ Goes(a, "reach")
      \/ Ends(a)
    BY DEF Returns
<1> QED
    BY <1>1, GoesOutward, EndsOutward, HoldsOutward DEF Inside

LEMMA RaisesOutward ==
    ASSUME DOMAIN job = Actors, NEW a \in Actors, NEW u \in BOOLEAN, Raises(a, u)
    PROVE  Outward(a)
<1>1. \/ \E by, why, pend, mine : Calls(a, by, why, pend, mine)
      \/ Goes(a, "retry") \/ Goes(a, "reminder") \/ Goes(a, "reach")
      \/ Ends(a)
    BY DEF Raises
<1> QED
    BY <1>1, GoesOutward, EndsOutward, CallsOutward DEF Inside

-----------------------------------------------------------------------------
(***************************************************************************)
(* What a step needs to show, by where it leaves its actor.                 *)
(***************************************************************************)
\* The file keeps what the invariant says of it.
Keeps ==
    /\ DOMAIN disk' = Fields /\ disk'.topic = disk.topic /\ disk'.sent = disk.sent
    /\ disk'.status = "deleted" <=> disk.status = "deleted"

\* No step of an actor outside the lock disturbs one inside.
LEMMA Outside ==
    ASSUME Untorn, NEW a \in Actors, job[a].at \notin Inside, Outward(a), Keeps,
           alerts' = alerts, route' = route,
           disk.status = "deleted" \/ job["user"].at = "archive" => ~live' /\ canceled'
    PROVE  Untorn'
<1>1. \A b \in Actors : \/ job'[b] = job[b]
                        \/ b = a /\ job'[b].at \notin Inside /\ job[b].at \notin Inside
    BY DEF Outward
<1>2. ShapesOK'
    BY DEF Untorn, ShapesOK, Keeps, Outward, Recovering, Inside
<1>3. OneInside'
    BY <1>1 DEF Untorn, OneInside
<1>4. InSync'
    BY <1>1 DEF Untorn, InSync, Keeps, Inside, Copy
<1>5. ClaimOK'
    BY <1>1 DEF Untorn, ClaimOK, Keeps, Inside
<1>6. GoneOK'
    BY <1>1 DEF Untorn, GoneOK, Keeps, Inside, Recovering, Actors
<1> QED
    BY <1>2, <1>3, <1>4, <1>5, <1>6 DEF Untorn, Keeps

\* Whoever leaves the lock leaves nobody inside.
LEMMA Leaves ==
    ASSUME Untorn, NEW a \in Actors, job[a].at \in Inside, Outward(a), DOMAIN disk' = Fields,
           alerts' \in Nat, alerts' <= 1, alerts' > 0 => disk'.sent, route' = disk'.topic,
           disk'.status = "deleted" => ~live' /\ canceled'
    PROVE  Untorn'
<1>1. \A b \in Actors : job'[b].at \notin Inside
    BY DEF Outward, Untorn, OneInside
<1>2. ShapesOK'
    BY DEF Untorn, ShapesOK, Outward, Recovering, Inside
<1>3. OneInside' /\ InSync'
    BY <1>1 DEF OneInside, InSync, Inside
<1>4. ClaimOK'
    BY <1>1 DEF ClaimOK, Inside
<1>5. GoneOK'
    BY <1>1 DEF GoneOK, Inside, Recovering, Actors
<1> QED
    BY <1>2, <1>3, <1>4, <1>5 DEF Untorn

\* Whoever goes in, or on, is alone there.
LEMMA Inner ==
    ASSUME Untorn, NEW a \in Actors, job[a].at \in Inside \/ ~Locked,
           NEW w \in Recovering, Inward(a, w),
           w \in {"resend", "create"} => job'[a].copy = disk',
           DOMAIN disk' = Fields, disk'.status # "deleted",
           alerts' \in Nat, alerts' <= 1, alerts' > 0 => disk'.sent,
           w = "alert" => disk'.sent /\ alerts' = 0, route' = disk'.topic
    PROVE  Untorn'
<1>1. \A b \in Actors : b = a \/ (job'[b] = job[b] /\ job'[b].at \notin Inside)
    BY DEF Inward, Untorn, OneInside, Locked
<1>2. ShapesOK'
    BY DEF Untorn, ShapesOK, Inward, Recovering
<1>3. OneInside'
    BY <1>1 DEF OneInside
<1>4. InSync'
    BY <1>1 DEF InSync, Inside, Copy, Inward
<1>5. ClaimOK'
    BY <1>1 DEF ClaimOK, Inside, Inward
<1>6. GoneOK'
    BY <1>1 DEF GoneOK, Inside, Inward, Recovering, Actors
<1> QED
    BY <1>2, <1>3, <1>4, <1>5, <1>6 DEF Untorn

-----------------------------------------------------------------------------
(***************************************************************************)
(* What the helpers leave of the state they are given.                      *)
(***************************************************************************)
Like(s, t) == DOMAIN s = Fields /\ s.status = t.status /\ s.topic = t.topic

LEMMA StateFacts ==
    ASSUME NEW s, DOMAIN s = Fields
    PROVE  /\ \A why, pend : Like(Noted(s, why, pend), s) /\ Noted(s, why, pend).sent = s.sent
           /\ Like(Settled(s), s) /\ Like(Shown(s), s) /\ Shown(s).sent = s.sent
           /\ Like(Shown(Settled(s)), s) /\ Like(Claimed(s), s) /\ Claimed(s).sent
           /\ Like(Aged(s), s) /\ Aged(s).sent = s.sent
           /\ \A t : /\ DOMAIN Recreated(s, t) = Fields /\ Recreated(s, t).topic = t
                     /\ Recreated(s, t).status = s.status
           /\ \A n : Like([s EXCEPT !.attempts = n], s) /\ [s EXCEPT !.attempts = n].sent = s.sent
<1> USE DEF Like, Fields
<1>1. \A why, pend : Like(Noted(s, why, pend), s) /\ Noted(s, why, pend).sent = s.sent
    BY DEF Noted
<1>2. \A t : DOMAIN t = Fields => Like(Shown(t), t) /\ Shown(t).sent = t.sent
    BY DEF Shown
<1>3. Like(Settled(s), s)
    BY DEF Settled, Reachable
<1>4. Like(Shown(Settled(s)), s)
    BY <1>2, <1>3
<1>5. Like(Claimed(s), s) /\ Claimed(s).sent
    BY DEF Claimed
<1>6. Like(Aged(s), s) /\ Aged(s).sent = s.sent
    BY DEF Aged
<1>7. \A t : /\ DOMAIN Recreated(s, t) = Fields /\ Recreated(s, t).topic = t
             /\ Recreated(s, t).status = s.status
    BY DEF Recreated, Reachable
<1>8. \A n : Like([s EXCEPT !.attempts = n], s) /\ [s EXCEPT !.attempts = n].sent = s.sent
    OBVIOUS
<1> QED
    BY <1>1, <1>2, <1>3, <1>4, <1>5, <1>6, <1>7, <1>8

\* The caller hears that nothing came of it, or the claim is written and the alert is next.
LEMMA GivesUpFacts ==
    ASSUME ShapesOK, NEW a \in Actors, job[a].at \in Recovering \cup {"lock"},
           NEW s, DOMAIN s = Fields, NEW fresh, DOMAIN fresh = Fields, GivesUp(a, s)
    PROVE  \/ /\ Inward(a, "alert") /\ ~s.sent
              /\ GivenUp(s, fresh).sent /\ Like(GivenUp(s, fresh), fresh)
           \/ Outward(a) /\ GivenUp(s, fresh) = fresh
<1>1. CASE Due(s)
    BY <1>1, MovesFacts, StateFacts DEF GivesUp, GivenUp, Due
<1>2. CASE ~Due(s)
    BY <1>2, ReturnsOutward DEF GivesUp, GivenUp, ShapesOK
<1> QED
    BY <1>1, <1>2

-----------------------------------------------------------------------------
(***************************************************************************)
(* Every step of a recovery keeps the invariant.                            *)
(***************************************************************************)
LEMMA EnterRecoveryStep ==
    ASSUME Untorn, NEW a \in Actors, EnterRecovery(a)
    PROVE  Untorn'
<1> DEFINE s == Noted(disk, job[a].why, job[a].pend)
           tried == [s EXCEPT !.attempts = @ + 1]
<1>0. /\ job[a].at = "lock" /\ ~Locked /\ alerts' = alerts /\ route' = route
      /\ live' = live /\ canceled' = canceled
      /\ ShapesOK /\ DOMAIN disk = Fields /\ DOMAIN job = Actors /\ route = disk.topic
    BY DEF EnterRecovery, At, Untorn, ShapesOK
<1>1. DOMAIN s = Fields /\ s.topic = disk.topic /\ s.status = disk.status /\ s.sent = disk.sent
    BY <1>0, StateFacts DEF Like
<1>2. DOMAIN tried = Fields /\ tried.topic = disk.topic /\ tried.status = disk.status /\ tried.sent = disk.sent
    BY <1>1, StateFacts DEF Like
<1>3. job["user"].at # "archive"
    BY <1>0 DEF Locked, Inside, Actors
<1>4. CASE Gone /\ Returns(a, FALSE) /\ Reads
  <2>1. Outward(a) /\ Keeps
    BY <1>0, <1>4, ReturnsOutward DEF Reads, Keeps
  <2> QED
    BY <1>0, <1>3, <2>1, Outside DEF Inside, Untorn, GoneOK
<1>5. CASE ~Gone /\ Moves(a, "resend", s) /\ disk' = s
  <2>1. Inward(a, "resend") /\ job'[a].copy = s
    BY <1>0, <1>5, MovesFacts
  <2> QED
    BY <1>0, <1>1, <1>5, <2>1, Inner DEF Recovering, Gone, Untorn, ClaimOK
<1>6. CASE ~Gone /\ Moves(a, "create", tried) /\ disk' = tried
  <2>1. Inward(a, "create") /\ job'[a].copy = tried
    BY <1>0, <1>6, MovesFacts
  <2> QED
    BY <1>0, <1>2, <1>6, <2>1, Inner DEF Recovering, Gone, Untorn, ClaimOK
<1>7. CASE ~Gone /\ GivesUp(a, s) /\ disk' = GivenUp(s, s)
  <2>1. CASE Inward(a, "alert") /\ ~s.sent /\ GivenUp(s, s).sent /\ Like(GivenUp(s, s), s)
    <3>1. alerts = 0
      BY <1>1, <2>1 DEF Untorn, ClaimOK
    <3> QED
      BY <1>0, <1>1, <1>7, <2>1, <3>1, Inner DEF Recovering, Gone, Untorn, ClaimOK, Like
  <2>2. CASE Outward(a) /\ GivenUp(s, s) = s
    BY <1>0, <1>1, <1>3, <1>7, <2>2, Outside DEF Inside, Keeps, Untorn, GoneOK
  <2> QED
    BY <1>0, <1>1, <1>7, <2>1, <2>2, GivesUpFacts
<1> HIDE DEF s, tried
<1>8. \/ Gone /\ Returns(a, FALSE) /\ Reads
      \/ ~Gone /\ Moves(a, "resend", s) /\ disk' = s
      \/ ~Gone /\ Moves(a, "create", tried) /\ disk' = tried
      \/ ~Gone /\ GivesUp(a, s) /\ disk' = GivenUp(s, s)
    BY DEF EnterRecovery, Stores, s, tried
<1> QED
    BY <1>4, <1>5, <1>6, <1>7, <1>8

\* What somebody inside knows of the rest.
LEMMA InsideFacts ==
    ASSUME Untorn, NEW a \in Actors, job[a].at \in Recovering
    PROVE  /\ job[a].at \in Inside /\ ShapesOK /\ DOMAIN job = Actors /\ DOMAIN disk = Fields
           /\ disk.status # "deleted" /\ route = disk.topic
           /\ alerts \in Nat /\ alerts <= 1 /\ (alerts > 0 => disk.sent)
           /\ job[a].at \in {"resend", "create"} =>
                 DOMAIN Copy(a) = Fields /\ (Copy(a).sent <=> disk.sent)
    BY DEF Untorn, GoneOK, ClaimOK, InSync, ShapesOK, Recovering, Inside

LEMMA ResendStep ==
    ASSUME Untorn, NEW a \in Actors, Resend(a), ~torn'
    PROVE  Untorn'
<1>0. job[a].at = "resend" /\ route' = route /\ live' = live /\ canceled' = canceled
    BY DEF Resend, At
<1>1. job[a].at \in Recovering
    BY <1>0 DEF Recovering
<1>2. CASE Saves(a, Shown(Settled(Copy(a)))) /\ alerts' = 0 /\ Returns(a, TRUE)
  <2>1. disk = Copy(a) /\ disk' = Shown(Settled(disk))
    BY <1>2 DEF Saves
  <2>2. Like(disk', disk)
    BY <1>1, <2>1, InsideFacts, StateFacts
  <2>3. Outward(a)
    BY <1>1, <1>2, InsideFacts, ReturnsOutward
  <2> QED
    BY <1>0, <1>1, <1>2, <2>2, <2>3, InsideFacts, Leaves DEF Like
<1>3. CASE Reads /\ Raises(a, TRUE) /\ alerts' = alerts
  <2>1. Outward(a)
    BY <1>1, <1>3, InsideFacts, RaisesOutward
  <2> QED
    BY <1>0, <1>1, <1>3, <2>1, InsideFacts, Leaves DEF Reads
<1>4. CASE GivesUp(a, Copy(a)) /\ Saves(a, GivenUp(Copy(a), Copy(a))) /\ alerts' = alerts
  <2>1. disk = Copy(a) /\ disk' = GivenUp(disk, disk)
    BY <1>4 DEF Saves
  <2>2. CASE Inward(a, "alert") /\ ~disk.sent /\ disk'.sent /\ Like(disk', disk)
    <3>1. alerts = 0
      BY <1>1, <2>2, InsideFacts
    <3> QED
      BY <1>0, <1>1, <1>4, <2>2, <3>1, InsideFacts, Inner DEF Like, Recovering
  <2>3. CASE Outward(a) /\ disk' = disk
    BY <1>0, <1>1, <1>4, <2>3, InsideFacts, Leaves
  <2> QED
    BY <1>1, <1>4, <2>1, <2>2, <2>3, InsideFacts, GivesUpFacts
<1> QED
    BY <1>2, <1>3, <1>4 DEF Resend

LEMMA CreateFailsStep ==
    ASSUME Untorn, NEW a \in Actors, CreateFails(a), ~torn'
    PROVE  Untorn'
<1>0. /\ job[a].at = "create" /\ route' = route /\ live' = live /\ canceled' = canceled
      /\ alerts' = alerts /\ GivesUp(a, Copy(a))
    BY DEF CreateFails, At
<1>1. job[a].at \in Recovering
    BY <1>0 DEF Recovering
<1>2. disk' = GivenUp(Copy(a), disk)
    BY DEF CreateFails, Stores, Saves
<1>3. CASE Inward(a, "alert") /\ ~Copy(a).sent /\ disk'.sent /\ Like(disk', disk)
  <2>1. alerts = 0
    BY <1>0, <1>1, <1>3, InsideFacts
  <2> QED
    BY <1>0, <1>1, <1>3, <2>1, InsideFacts, Inner DEF Like, Recovering
<1>4. CASE Outward(a) /\ disk' = disk
    BY <1>0, <1>1, <1>4, InsideFacts, Leaves
<1> QED
    BY <1>0, <1>1, <1>2, <1>3, <1>4, InsideFacts, GivesUpFacts

LEMMA CreateSucceedsStep ==
    ASSUME Untorn, NEW a \in Actors, CreateSucceeds(a), ~torn'
    PROVE  Untorn'
<1>0. job[a].at = "create" /\ live' = live /\ canceled' = canceled
    BY DEF CreateSucceeds, At
<1>1. job[a].at \in Recovering
    BY <1>0 DEF Recovering
<1>2. CASE canceled
  <2>1. disk' = disk /\ Moves(a, "undo", NoCopy) /\ route' = route /\ alerts' = alerts
    BY <1>2 DEF CreateSucceeds, Saves, Uncommitted
  <2>2. Inward(a, "undo")
    BY <1>1, <2>1, InsideFacts, MovesFacts
  <2> QED
    BY <1>1, <2>1, <2>2, InsideFacts, Inner DEF Recovering
<1>3. CASE ~canceled
  <2> DEFINE s == Recreated(disk, topics + 1)
  <2>1. disk = Copy(a) /\ disk' = s /\ alerts' = 0 /\ route' = topics + 1
    BY <1>3 DEF CreateSucceeds, Saves
  <2>2. DOMAIN s = Fields /\ s.topic = topics + 1 /\ s.status = disk.status
    BY <1>1, InsideFacts, StateFacts
  <2>3. CASE Moves(a, "send", Glance(s))
    <3>1. Inward(a, "send")
      BY <1>1, <2>3, InsideFacts, MovesFacts
    <3> QED
      BY <1>1, <2>1, <2>2, <3>1, InsideFacts, Inner DEF Recovering
  <2>4. CASE Returns(a, TRUE)
    <3>1. Outward(a)
      BY <1>1, <2>4, InsideFacts, ReturnsOutward
    <3> QED
      BY <1>0, <1>1, <2>1, <2>2, <3>1, InsideFacts, Leaves
  <2> QED
    BY <1>3, <2>1, <2>3, <2>4 DEF CreateSucceeds
<1> QED
    BY <1>2, <1>3

LEMMA UndoStep ==
    ASSUME Untorn, NEW a \in Actors, Undo(a)
    PROVE  Untorn'
<1>1. job[a].at \in Recovering
    BY DEF Undo, At, Recovering
<1>2. Outward(a)
    BY <1>1, InsideFacts, RaisesOutward DEF Undo
<1> QED
    BY <1>1, <1>2, InsideFacts, Leaves DEF Undo, history

LEMMA SendPendingStep ==
    ASSUME Untorn, NEW a \in Actors, SendPending(a)
    PROVE  Untorn'
<1>0. /\ job[a].at = "send" /\ route' = route /\ live' = live /\ canceled' = canceled
      /\ alerts' = alerts
    BY DEF SendPending, At
<1>1. job[a].at \in Recovering
    BY <1>0 DEF Recovering
<1>2. Outward(a)
    BY <1>1, InsideFacts, RaisesOutward, ReturnsOutward DEF SendPending
<1>3. Like(disk', disk) /\ disk'.sent = disk.sent
  <2> DEFINE s == [disk EXCEPT !.pending = FALSE, !.candidate = FALSE]
             y == [disk EXCEPT !.since = "young"]
  <2>1. DOMAIN disk = Fields
    BY <1>1, InsideFacts
  <2>2. Like(s, disk) /\ s.sent = disk.sent /\ Like(y, disk) /\ y.sent = disk.sent /\ Like(disk, disk)
    BY <2>1 DEF Like, Fields
  <2>3. Like(Shown(s), s) /\ Shown(s).sent = s.sent
    BY <2>2, StateFacts DEF Like
  <2>4. disk' = Shown(s) \/ disk' = y \/ disk' = disk
    BY DEF SendPending, Stores, Reads
  <2> HIDE DEF s, y
  <2> QED
    BY <2>2, <2>3, <2>4 DEF Like
<1> QED
    BY <1>0, <1>1, <1>2, <1>3, InsideFacts, Leaves DEF Like

LEMMA AlertStep ==
    ASSUME Untorn, NEW a \in Actors, Alert(a)
    PROVE  Untorn'
<1>0. job[a].at = "alert" /\ route' = route /\ live' = live /\ canceled' = canceled
    BY DEF Alert, At
<1>1. job[a].at \in Recovering
    BY <1>0 DEF Recovering
<1>2. Outward(a)
    BY <1>1, InsideFacts, ReturnsOutward DEF Alert
<1>3. disk.sent /\ alerts = 0
    BY <1>0 DEF Untorn, ClaimOK
<1>4. CASE disk' = [disk EXCEPT !.sent = FALSE] /\ alerts' = alerts
  <2>1. DOMAIN disk' = Fields /\ disk'.topic = disk.topic /\ disk'.status = disk.status
    BY <1>1, <1>4, InsideFacts DEF Fields
  <2> QED
    BY <1>0, <1>1, <1>2, <1>3, <1>4, <2>1, InsideFacts, Leaves
<1>5. CASE disk' = disk /\ alerts' \in {0, 1}
    BY <1>0, <1>1, <1>2, <1>3, <1>5, InsideFacts, Leaves
<1> QED
    BY <1>3, <1>4, <1>5 DEF Alert, Stores, Reads

-----------------------------------------------------------------------------
(***************************************************************************)
(* Every step of the tick and of the delivery keeps it.                     *)
(***************************************************************************)
\* The common case: the queue entry and the process are left alone, too.
LEMMA OutsideCalm ==
    ASSUME Untorn, NEW a \in Actors, job[a].at \notin Inside, Outward(a), Keeps,
           alerts' = alerts, route' = route, live' = live, canceled' = canceled
    PROVE  Untorn'
<1>1. disk.status = "deleted" \/ job["user"].at = "archive" => ~live' /\ canceled'
    BY DEF Untorn, GoneOK
<1> QED
    BY <1>1, Outside

LEMMA KeptFacts ==
    ASSUME Untorn
    PROVE  /\ DOMAIN disk = Fields /\ DOMAIN job = Actors
           /\ Reads => Keeps
           /\ \A a \in Actors, f \in {"title", "reminded"} : \A v :
                 disk = Copy(a) /\ disk' = [Copy(a) EXCEPT ![f] = v] => Keeps
           /\ \A st : st # "deleted" /\ disk.status # "deleted" /\ disk' = [disk EXCEPT !.status = st] => Keeps
    BY DEF Untorn, ShapesOK, Reads, Keeps, Fields

LEMMA TickLooksStep ==
    ASSUME Untorn, TickLooks
    PROVE  Untorn'
<1>1. job["tick"].at \notin Inside /\ Keeps
    BY KeptFacts DEF TickLooks, At, Inside, Reads, history
<1>2. Outward("tick")
    BY KeptFacts, GoesOutward, HoldsOutward DEF TickLooks, Inside, Actors
<1> QED
    BY <1>1, <1>2, OutsideCalm DEF TickLooks, Actors, history

LEMMA EditTitleStep ==
    ASSUME Untorn, EditTitle, ~torn'
    PROVE  Untorn'
<1>1. job["tick"].at \notin Inside
    BY DEF EditTitle, At, Inside
<1>2. Outward("tick")
    BY KeptFacts, GoesOutward, HoldsOutward, CallsOutward DEF EditTitle, Inside, Actors
<1>3. Keeps
  <2>1. CASE Reads
    BY <2>1, KeptFacts
  <2>2. CASE Saves("tick", [job["tick"].copy EXCEPT !.title = job["tick"].copy.status])
    BY <2>2, KeptFacts DEF Saves, Copy, Actors
  <2> QED
    BY <2>1, <2>2 DEF EditTitle
<1> QED
    BY <1>1, <1>2, <1>3, OutsideCalm DEF EditTitle, Actors

LEMMA DispatchStep ==
    ASSUME Untorn, Dispatch, ~torn'
    PROVE  Untorn'
<1>0. job["tick"].at \notin Inside /\ "tick" \in Actors /\ alerts' = alerts /\ route' = route /\ canceled' = canceled
    BY DEF Dispatch, At, Inside, Actors
<1>1. Outward("tick")
    BY KeptFacts, GoesOutward, HoldsOutward DEF Dispatch, Inside, Actors
<1>2. CASE disk.status = "ready" /\ ~canceled /\ disk' = [disk EXCEPT !.status = "running"]
  <2>1. Keeps
    BY <1>2, KeptFacts
  <2> QED
    BY <1>0, <1>1, <1>2, <2>1, Outside DEF Untorn, GoneOK
<1>3. CASE /\ disk = Copy("tick") /\ disk.status = "running" /\ live' = live
           /\ \E st \in {"ready", "error"} : disk' = [disk EXCEPT !.status = st]
  <2>1. Keeps
    BY <1>3, KeptFacts
  <2> QED
    BY <1>0, <1>1, <1>3, <2>1, OutsideCalm
<1>4. CASE Reads /\ live' = live
    BY <1>0, <1>1, <1>4, KeptFacts, OutsideCalm
<1> QED
    BY <1>2, <1>3, <1>4 DEF Dispatch, Saves, Stores

LEMMA TickOtherSteps ==
    ASSUME Untorn, Incident \/ Retry \/ Remind
    PROVE  Untorn'
<1>1. job["tick"].at \notin Inside /\ Keeps
    BY KeptFacts DEF Incident, Retry, Remind, At, Inside, Reads, history
<1>2. Outward("tick")
    BY KeptFacts, GoesOutward, EndsOutward, HoldsOutward, CallsOutward
       DEF Incident, Retry, Remind, Inside, Actors
<1> QED
    BY <1>1, <1>2, OutsideCalm DEF Incident, Retry, Remind, Actors, history

LEMMA SendReminderStep ==
    ASSUME Untorn, SendReminder
    PROVE  Untorn'
<1>1. job["tick"].at \notin Inside /\ Keeps
    BY KeptFacts DEF SendReminder, At, Inside, Reads, history
<1>2. Outward("tick")
  <2>1. CASE Moves("tick", "reminded", Copy("tick"))
    BY <2>1 DEF Untorn, ShapesOK, Moves, Outward, Inside, Actors
  <2> QED
    BY <2>1, KeptFacts, EndsOutward, CallsOutward DEF SendReminder, Actors
<1> QED
    BY <1>1, <1>2, OutsideCalm DEF SendReminder, Actors, history

LEMMA RemindedStep ==
    ASSUME Untorn, Reminded, ~torn'
    PROVE  Untorn'
<1>1. job["tick"].at \notin Inside /\ Outward("tick")
    BY KeptFacts, EndsOutward DEF Reminded, At, Inside, Actors
<1>2. Keeps
    BY KeptFacts DEF Reminded, Saves, Actors
<1> QED
    BY <1>1, <1>2, OutsideCalm DEF Reminded, Actors

LEMMA DeliverySteps ==
    ASSUME Untorn, DeliverLooks \/ Deliver
    PROVE  Untorn'
<1>1. job["delivery"].at \notin Inside /\ Keeps
    BY KeptFacts DEF DeliverLooks, Deliver, At, Inside, Reads, history
<1>2. Outward("delivery")
    BY KeptFacts, GoesOutward, EndsOutward, HoldsOutward, CallsOutward
       DEF DeliverLooks, Deliver, Inside, Actors
<1> QED
    BY <1>1, <1>2, OutsideCalm DEF DeliverLooks, Deliver, Actors, history

LEMMA PinStep ==
    ASSUME Untorn, Pin, ~torn'
    PROVE  Untorn'
<1>1. job["delivery"].at \notin Inside
    BY DEF Pin, At, Inside
<1>2. Outward("delivery")
    BY KeptFacts, GoesOutward, CallsOutward DEF Pin, Inside, Actors
<1>3. Keeps
  <2>1. CASE Reads
    BY <2>1, KeptFacts
  <2>2. CASE Saves("delivery", [Copy("delivery") EXCEPT !.title = Copy("delivery").status])
    BY <2>2, KeptFacts DEF Saves, Actors
  <2> QED
    BY <2>1, <2>2 DEF Pin
<1> QED
    BY <1>1, <1>2, <1>3, OutsideCalm DEF Pin, Actors

LEMMA MarkReachableStep ==
    ASSUME Untorn, MarkReachable
    PROVE  Untorn'
<1>1. job["delivery"].at \notin Inside /\ Outward("delivery") /\ "delivery" \in Actors
    BY KeptFacts, EndsOutward DEF MarkReachable, At, Inside, Actors
<1>2. CASE Reads /\ alerts' = alerts
    BY <1>1, <1>2, KeptFacts, OutsideCalm DEF MarkReachable
<1>3. CASE ~Locked /\ disk' = Settled(disk) /\ alerts' = 0
  <2>1. Like(disk', disk)
    BY <1>3, KeptFacts, StateFacts
  <2>2. \A b \in Actors : job[b].at \notin Inside /\ job'[b].at \notin Inside
    BY <1>1, <1>3 DEF Locked, Outward
  <2>3. ShapesOK'
    BY <1>1, <2>1, <2>2 DEF Untorn, ShapesOK, Outward, Like, Inside, Recovering
  <2>4. OneInside' /\ InSync' /\ ClaimOK'
    BY <1>3, <2>2 DEF OneInside, InSync, ClaimOK, Inside
  <2>5. GoneOK'
    BY <2>1, <2>2 DEF MarkReachable, Untorn, GoneOK, Like, Inside, Recovering, Actors
  <2> QED
    BY <2>1, <2>3, <2>4, <2>5 DEF Untorn, MarkReachable, Like
<1> QED
    BY <1>2, <1>3 DEF MarkReachable, Stores

LEMMA StepEndsStep ==
    ASSUME Untorn, StepEnds
    PROVE  Untorn'
<1>1. /\ job["delivery"].at \notin Inside /\ Outward("delivery") /\ "delivery" \in Actors
      /\ live /\ live' = FALSE /\ canceled' = canceled
    BY KeptFacts, GoesOutward DEF StepEnds, At, Inside, Actors
<1>2. disk.status # "deleted"
    BY <1>1 DEF Untorn, GoneOK
<1>3. PICK st \in {disk.status, "ready", "awaiting"} :
          disk' = [disk EXCEPT !.status = st, !.reminded = @ /\ st # "awaiting"]
    BY DEF StepEnds, Stores
<1>4. Keeps
    BY <1>2, <1>3, KeptFacts DEF Keeps, Fields
<1> QED
    BY <1>1, <1>4, Outside DEF StepEnds, Untorn, GoneOK

-----------------------------------------------------------------------------
(***************************************************************************)
(* So does every command of the user, the clock and a death of the bot.     *)
(***************************************************************************)
\* Nobody is inside, before and after.
LEMMA NobodyInside ==
    ASSUME Untorn, ~Locked, DOMAIN job' = Actors,
           \A b \in Actors : /\ "at" \in DOMAIN job'[b] /\ job'[b].at \notin Inside
                             /\ job'[b].at = "lock" => "copy" \in DOMAIN job'[b],
           Keeps, alerts' = alerts, route' = route, disk'.status = "deleted" => ~live' /\ canceled'
    PROVE  Untorn'
<1>1. ShapesOK'
    BY DEF ShapesOK, Keeps, Inside, Recovering
<1>2. OneInside' /\ InSync' /\ GoneOK'
    BY DEF OneInside, InSync, GoneOK, Inside, Recovering, Actors
<1>3. ClaimOK'
    BY DEF Untorn, ClaimOK, Keeps, Inside
<1> QED
    BY <1>1, <1>2, <1>3 DEF Untorn, Keeps

LEMMA QuietFacts ==
    ASSUME Untorn, ~Locked
    PROVE  \A b \in Actors : /\ "at" \in DOMAIN job[b] /\ job[b].at \notin Inside
                             /\ job[b].at = "lock" => "copy" \in DOMAIN job[b]
    BY DEF Untorn, ShapesOK, Locked

LEMMA StopStep ==
    ASSUME Untorn, Stop
    PROVE  Untorn'
<1>1. /\ ~Locked /\ disk.status # "deleted" /\ disk' = [disk EXCEPT !.status = "stopped"]
      /\ job' = [job EXCEPT !["delivery"] = Exited]
    BY DEF Stop, Stores
<1>2. DOMAIN job' = Actors /\ job'["delivery"] \in {[at |-> "exited"], job["delivery"]}
    BY <1>1, KeptFacts DEF Exited, Actors
<1>3. \A b \in Actors : /\ "at" \in DOMAIN job'[b] /\ job'[b].at \notin Inside
                        /\ job'[b].at = "lock" => "copy" \in DOMAIN job'[b]
    BY <1>1, <1>2, QuietFacts DEF Inside, Actors
<1>4. Keeps
    BY <1>1, KeptFacts
<1> QED
    BY <1>1, <1>2, <1>3, <1>4, NobodyInside DEF Stop, Drained

LEMMA ResumeStep ==
    ASSUME Untorn, Resume
    PROVE  Untorn'
<1>1. ~Locked /\ disk.status # "deleted" /\ disk' = [disk EXCEPT !.status = "ready"] /\ job' = job
    BY DEF Resume, Stores
<1>2. DOMAIN job' = Actors /\ Keeps
    BY <1>1, KeptFacts
<1>3. disk'.status # "deleted"
    BY <1>1, <1>2 DEF Keeps
<1> QED
    BY <1>1, <1>2, <1>3, NobodyInside, QuietFacts DEF Resume

LEMMA DeleteStep ==
    ASSUME Untorn, Delete
    PROVE  Untorn'
<1> DEFINE s == [disk EXCEPT !.deleting = TRUE]
<1>1. /\ ~Locked /\ disk.status # "deleted" /\ disk' = s
      /\ live' = FALSE /\ canceled' = TRUE /\ alerts' = alerts /\ route' = route
      /\ job' = [job EXCEPT !["delivery"] = Exited, !["user"] = [at |-> "archive", copy |-> s]]
    BY DEF Delete, Drained, Stores
<1>2. /\ DOMAIN disk' = Fields /\ disk'.topic = disk.topic /\ disk'.status = disk.status
      /\ disk'.sent = disk.sent
    BY <1>1, KeptFacts DEF Fields
<1>3. /\ DOMAIN job' = Actors /\ job'["delivery"] \in {[at |-> "exited"], job["delivery"]}
      /\ job'["user"] = [at |-> "archive", copy |-> s] /\ job'["tick"] = job["tick"]
    BY <1>1, KeptFacts DEF Exited, Actors
<1> HIDE DEF s
<1>4. \A b \in Actors : /\ "at" \in DOMAIN job'[b] /\ (b = "user" \/ job'[b].at \notin Inside)
                        /\ job'[b].at = "lock" => "copy" \in DOMAIN job'[b]
    BY <1>1, <1>3, QuietFacts DEF Inside, Actors
<1>5. ShapesOK'
    BY <1>2, <1>3, <1>4 DEF ShapesOK, Inside, Recovering
<1>6. OneInside'
    BY <1>4 DEF OneInside
<1>7. InSync' /\ ClaimOK'
    BY <1>1, <1>2, <1>3, <1>4 DEF Untorn, InSync, ClaimOK, Inside
<1>8. GoneOK'
    BY <1>1, <1>2 DEF GoneOK
<1> QED
    BY <1>1, <1>2, <1>5, <1>6, <1>7, <1>8 DEF Untorn

LEMMA ArchiveStep ==
    ASSUME Untorn, Archive, ~torn'
    PROVE  Untorn'
<1>1. /\ job["user"].at = "archive" /\ "user" \in Actors /\ disk = Copy("user")
      /\ disk' = [disk EXCEPT !.status = "deleted", !.deleting = FALSE]
    BY DEF Archive, At, Saves, Actors
<1>2. Outward("user") /\ job["user"].at \in Inside
    BY <1>1, KeptFacts, EndsOutward DEF Archive, Inside
<1>3. DOMAIN disk' = Fields /\ disk'.topic = disk.topic /\ disk'.sent = disk.sent
    BY <1>1, KeptFacts DEF Fields
<1>4. ~live' /\ canceled'
    BY <1>1 DEF Untorn, GoneOK, Archive
<1> QED
    BY <1>1, <1>2, <1>3, <1>4, Leaves DEF Archive, Untorn, ClaimOK

LEMMA ElapseStep ==
    ASSUME Untorn, Elapse
    PROVE  Untorn'
<1>1. Like(disk', disk) /\ disk'.sent = disk.sent
    BY KeptFacts, StateFacts DEF Elapse
<1>2. DOMAIN job' = Actors /\ DOMAIN job = Actors
    BY KeptFacts DEF Elapse
<1>3. ASSUME NEW a \in Actors
      PROVE  /\ DOMAIN job'[a] = DOMAIN job[a]
             /\ "at" \in DOMAIN job[a] => job'[a].at = job[a].at
             /\ "copy" \in DOMAIN job[a] => job'[a].copy = Aged(job[a].copy)
  <2>1. CASE "mine" \in DOMAIN job[a]
    <3>1. job'[a] = [job[a] EXCEPT !.copy = Aged(job[a].copy), !.mine = Aged(job[a].mine)]
      BY <2>1 DEF Elapse
    <3> QED
      BY <3>1
  <2>2. CASE "mine" \notin DOMAIN job[a] /\ "copy" \in DOMAIN job[a]
    <3>1. job'[a] = [job[a] EXCEPT !.copy = Aged(job[a].copy)]
      BY <2>2 DEF Elapse
    <3> QED
      BY <2>2, <3>1
  <2>3. CASE "mine" \notin DOMAIN job[a] /\ "copy" \notin DOMAIN job[a]
    BY <2>3 DEF Elapse
  <2> QED
    BY <2>1, <2>2, <2>3
<1>4. \A a \in Actors : job'[a].at = job[a].at
    BY <1>3 DEF Untorn, ShapesOK
<1>5. ShapesOK'
    BY <1>1, <1>2, <1>3, <1>4 DEF Untorn, ShapesOK, Like
<1>6. OneInside' /\ ClaimOK' /\ GoneOK'
    BY <1>1, <1>4 DEF Untorn, OneInside, ClaimOK, GoneOK, Elapse, history, Like, Actors
<1>7. InSync'
  <2>1. ASSUME NEW a \in Actors, job'[a].at \in {"resend", "create"}
        PROVE  DOMAIN job'[a].copy = Fields /\ (job'[a].copy.sent <=> disk'.sent)
    <3>1. job[a].at \in {"resend", "create"} /\ "copy" \in DOMAIN job[a]
      BY <1>4, <2>1 DEF Untorn, ShapesOK, Recovering
    <3>2. DOMAIN job[a].copy = Fields /\ (job[a].copy.sent <=> disk.sent)
      BY <3>1 DEF Untorn, InSync, Copy
    <3> QED
      BY <1>1, <1>3, <3>1, <3>2, StateFacts DEF Like
  <2> QED
    BY <2>1 DEF InSync, Copy
<1> QED
    BY <1>1, <1>5, <1>6, <1>7 DEF Untorn, Elapse, Like

LEMMA CrashStep ==
    ASSUME Untorn, Crash, ~torn'
    PROVE  Untorn'
<1>1. /\ disk' = disk /\ alerts' = alerts /\ route' = route /\ canceled' = canceled /\ live' = FALSE
      /\ job' = [a \in Actors |-> Idle]
    BY DEF Crash, history
<1>2. \A a \in Actors : job'[a].at = "idle" /\ "at" \in DOMAIN job'[a]
    BY <1>1 DEF Idle
<1>3. ShapesOK'
    BY <1>1, <1>2 DEF Untorn, ShapesOK, Recovering
<1>4. OneInside' /\ InSync' /\ GoneOK'
    BY <1>1, <1>2 DEF Untorn, OneInside, InSync, GoneOK, Inside, Recovering, Actors
<1>5. ClaimOK'
    BY <1>1, <1>2 DEF Untorn, ClaimOK
<1> QED
    BY <1>1, <1>3, <1>4, <1>5 DEF Untorn

-----------------------------------------------------------------------------
(***************************************************************************)
(* The theorems.                                                            *)
(***************************************************************************)
LEMMA InvInit == Init => Inv
<1> SUFFICES ASSUME Init
             PROVE  Untorn
    BY DEF Inv
<1>1. ShapesOK
    BY DEF Init, First, Idle, ShapesOK, Fields, Recovering
<1>2. OneInside /\ InSync /\ ClaimOK /\ GoneOK
    BY DEF Init, First, Idle, OneInside, InSync, ClaimOK, GoneOK, Inside, Recovering, Actors
<1> QED
    BY <1>1, <1>2 DEF Untorn, Init, First

\* A torn save is not forgotten.
LEMMA TornStays == torn /\ [Next]_vars => torn'
    BY DEF Next, Tick, Delivery, User, Recovers, EnterRecovery, Resend, CreateFails, CreateSucceeds,
           Undo, SendPending, Alert, TickLooks, EditTitle, Dispatch, Incident, Retry, Remind,
           SendReminder, Reminded, StepEnds, DeliverLooks, Deliver, Pin, MarkReachable, Stop, Resume,
           Delete, Archive, Elapse, Crash, Stores, Saves, Reads, history, vars

LEMMA InvNext == Inv /\ [Next]_vars => Inv'
<1> SUFFICES ASSUME Untorn, [Next]_vars, ~torn'
             PROVE  Untorn'
    BY TornStays DEF Inv
<1>1. CASE UNCHANGED vars
    BY <1>1 DEF Untorn, ShapesOK, OneInside, InSync, ClaimOK, GoneOK, Copy, vars, history
<1>2. ASSUME NEW a \in Actors, Recovers(a)
      PROVE  Untorn'
    BY <1>2, EnterRecoveryStep, ResendStep, CreateFailsStep, CreateSucceedsStep, UndoStep,
       SendPendingStep, AlertStep DEF Recovers
<1>3. CASE Tick
    BY <1>2, <1>3, TickLooksStep, EditTitleStep, DispatchStep, TickOtherSteps, SendReminderStep,
       RemindedStep DEF Tick, Actors
<1>4. CASE Delivery
    BY <1>2, <1>4, DeliverySteps, PinStep, MarkReachableStep DEF Delivery, Actors
<1>5. CASE User
    BY <1>5, StopStep, ResumeStep, DeleteStep, ArchiveStep DEF User
<1> QED
    BY <1>1, <1>3, <1>4, <1>5, StepEndsStep, ElapseStep, CrashStep DEF Next

THEOREM InvAlways == Spec => []Inv
    BY InvInit, InvNext, PTL DEF Spec

\* The control room hears of an episode once, through retries, lost answers and restarts,
\* as long as no save has put older fields back (topic_recovery.py:324-386).
THEOREM OneAlertPerEpisode == Spec => []AlertsOnce
<1>1. Inv => AlertsOnce
    BY DEF Inv, Untorn, ClaimOK, AlertsOnce
<1> QED
    BY <1>1, InvAlways, PTL

\* Until then the state and the queue never part over the topic of the task, whatever is
\* canceled, resumed or deleted meanwhile (topic_recovery.py:249-275).
THEOREM OneRoute == Spec => []RoutesMeet
<1>1. Inv => RoutesMeet
    BY DEF Inv, Untorn, RoutesMeet
<1> QED
    BY <1>1, InvAlways, PTL

-----------------------------------------------------------------------------
(***************************************************************************)
(* The lock, which no torn save touches.                                    *)
(***************************************************************************)
JobOK == DOMAIN job = Actors /\ (\A a \in Actors : "at" \in DOMAIN job[a]) /\ OneInside

\* Whoever moves goes on outside, or was inside, or found nobody there.
LEMMA OneMoves ==
    ASSUME JobOK, NEW a \in Actors,
           \/ Outward(a)
           \/ /\ DOMAIN job' = Actors /\ \A b \in Actors \ {a} : job'[b] = job[b]
              /\ "at" \in DOMAIN job'[a] /\ (job[a].at \in Inside \/ ~Locked)
    PROVE  JobOK'
    BY DEF JobOK, OneInside, Outward, Locked

LEMMA RecoversKeepsLock ==
    ASSUME JobOK, NEW a \in Actors, Recovers(a)
    PROVE  JobOK'
<1>1. job[a].at \in Inside \/ ~Locked
    BY DEF Recovers, EnterRecovery, Resend, CreateFails, CreateSucceeds, Undo, SendPending, Alert,
           At, Inside
<1>2. \/ \E d \in BOOLEAN : Returns(a, d) \/ Raises(a, d)
      \/ \E w, s : Moves(a, w, s)
    BY DEF Recovers, EnterRecovery, Resend, CreateFails, CreateSucceeds, Undo, SendPending, Alert, GivesUp
<1>3. ASSUME NEW w, NEW s, Moves(a, w, s)
      PROVE  DOMAIN job' = Actors /\ "at" \in DOMAIN job'[a] /\ \A b \in Actors \ {a} : job'[b] = job[b]
    BY <1>3 DEF Moves, JobOK
<1> QED
    BY <1>1, <1>2, <1>3, ReturnsOutward, RaisesOutward, OneMoves DEF JobOK

LEMMA LockNext == JobOK /\ [Next]_vars => JobOK'
<1> SUFFICES ASSUME JobOK, [Next]_vars
             PROVE  JobOK'
    OBVIOUS
<1>0. DOMAIN job = Actors
    BY DEF JobOK
<1>1. CASE UNCHANGED job
    BY <1>1 DEF JobOK, OneInside
<1>2. CASE Tick
  <2>1. CASE Recovers("tick")
    BY <2>1, RecoversKeepsLock DEF Actors
  <2>2. CASE SendReminder /\ Moves("tick", "reminded", Copy("tick"))
    BY <2>2 DEF JobOK, OneInside, Moves, Inside, Actors
  <2>3. CASE Outward("tick")
    BY <2>3, OneMoves DEF Actors
  <2>4. \/ Recovers("tick") \/ Outward("tick")
        \/ SendReminder /\ Moves("tick", "reminded", Copy("tick"))
    BY <1>0, <1>2, GoesOutward, EndsOutward, HoldsOutward, CallsOutward
       DEF Tick, TickLooks, EditTitle, Dispatch, Incident, Retry, Remind, SendReminder, Reminded,
           Inside, Actors
  <2> QED
    BY <2>1, <2>2, <2>3, <2>4
<1>3. CASE Delivery \/ StepEnds
  <2>1. \/ Recovers("delivery") \/ Outward("delivery")
    BY <1>0, <1>3, GoesOutward, EndsOutward, HoldsOutward, CallsOutward
       DEF Delivery, DeliverLooks, Deliver, Pin, MarkReachable, StepEnds, Inside, Actors
  <2> QED
    BY <2>1, RecoversKeepsLock, OneMoves DEF Actors
<1>4. CASE User
  <2>1. CASE Archive
    BY <1>0, <2>1, EndsOutward, OneMoves DEF Archive, Actors
  <2>2. CASE Stop \/ Delete
    <3>1. \A b \in Actors : job[b].at \notin Inside
      BY <2>2 DEF Stop, Delete, Locked
    <3>2. /\ DOMAIN job' = Actors /\ job'["tick"] = job["tick"] /\ "at" \in DOMAIN job'["user"]
          /\ job'["delivery"] \in {[at |-> "exited"], job["delivery"]}
      BY <1>0, <2>2 DEF Stop, Delete, Exited, Actors, JobOK
    <3> QED
      BY <3>1, <3>2 DEF JobOK, OneInside, Actors, Inside
  <2> QED
    BY <1>1, <1>4, <2>1, <2>2 DEF User, Resume
<1>5. CASE Elapse
  <2>1. \A a \in Actors : "at" \in DOMAIN job'[a] /\ job'[a].at = job[a].at
    <3> SUFFICES ASSUME NEW a \in Actors
                 PROVE  "at" \in DOMAIN job'[a] /\ job'[a].at = job[a].at
        OBVIOUS
    <3>1. \/ job'[a] = [job[a] EXCEPT !.copy = Aged(job[a].copy), !.mine = Aged(job[a].mine)]
          \/ job'[a] = [job[a] EXCEPT !.copy = Aged(job[a].copy)]
          \/ job'[a] = job[a]
      BY <1>5 DEF Elapse
    <3> QED
      BY <3>1 DEF JobOK
  <2>2. DOMAIN job' = Actors
    BY <1>5 DEF Elapse
  <2> QED
    BY <2>1, <2>2 DEF JobOK, OneInside
<1>6. CASE Crash
    BY <1>6 DEF Crash, Idle, JobOK, OneInside, Inside
<1> QED
    BY <1>1, <1>2, <1>3, <1>4, <1>5, <1>6 DEF Next, vars

\* At most one of the tick, the delivery and the user is in the task's lifecycle section,
\* whatever saves are torn (topic_recovery.py:162, lifecycle_macros.py:160).
THEOREM LifecycleIsExclusive == Spec => []OneInside
<1>1. Init => JobOK
    BY DEF Init, Idle, JobOK, OneInside, Inside, Actors
<1>2. JobOK => OneInside
    BY DEF JobOK
<1> QED
    BY <1>1, <1>2, LockNext, PTL DEF Spec

-----------------------------------------------------------------------------
(***************************************************************************)
(* A deleted task.                                                          *)
(***************************************************************************)
\* What a step may do once the task is deleted.
Rests == disk'.status = "deleted" /\ topics' = topics /\ alerts' <= alerts

LEMMA RestsWhenKept ==
    ASSUME Untorn, Untorn', disk.status = "deleted", Keeps, topics' = topics,
           alerts' = alerts \/ alerts' = 0
    PROVE  Rests
    BY DEF Rests, Keeps, Untorn, ClaimOK

\* Nobody recovers the topic of a deleted task: whoever comes for it goes away.
LEMMA RecoversRests ==
    ASSUME Untorn, disk.status = "deleted", NEW a \in Actors, Recovers(a), ~torn'
    PROVE  Rests
<1>1. job[a].at \notin Recovering
    BY DEF Untorn, GoneOK
<1>2. EnterRecovery(a)
    BY <1>1 DEF Recovers, Resend, CreateFails, CreateSucceeds, Undo, SendPending, Alert, At, Recovering
<1>3. Reads /\ alerts' = alerts /\ topics' = topics
    BY <1>2 DEF EnterRecovery, Gone, counters
<1> QED
    BY <1>3 DEF Reads, Rests, Untorn, ClaimOK

LEMMA TickRests ==
    ASSUME Untorn, Untorn', disk.status = "deleted", Tick, ~torn'
    PROVE  Rests
<1>1. CASE TickLooks \/ Incident \/ Retry \/ Remind \/ SendReminder
    BY <1>1, KeptFacts, RestsWhenKept
       DEF TickLooks, Incident, Retry, Remind, SendReminder, Reads, history, counters
<1>2. CASE EditTitle
  <2>1. Keeps
    BY <1>2, KeptFacts DEF EditTitle, Saves, Copy, Actors
  <2> QED
    BY <1>2, <2>1, RestsWhenKept DEF EditTitle, counters
<1>3. CASE Dispatch
  <2>1. Reads
    BY <1>3 DEF Dispatch, Saves
  <2> QED
    BY <1>3, <2>1, KeptFacts, RestsWhenKept DEF Dispatch
<1>4. CASE Reminded
  <2>1. Keeps
    BY <1>4, KeptFacts DEF Reminded, Saves, Actors
  <2> QED
    BY <1>4, <2>1, RestsWhenKept DEF Reminded, counters
<1> QED
    BY <1>1, <1>2, <1>3, <1>4, RecoversRests DEF Tick, Actors

LEMMA DeliveryRests ==
    ASSUME Untorn, Untorn', disk.status = "deleted", Delivery, ~torn'
    PROVE  Rests
<1>1. CASE DeliverLooks \/ Deliver
    BY <1>1, KeptFacts, RestsWhenKept DEF DeliverLooks, Deliver, Reads, history, counters
<1>2. CASE Pin
  <2>1. Keeps
    BY <1>2, KeptFacts DEF Pin, Saves, Actors
  <2> QED
    BY <1>2, <2>1, RestsWhenKept DEF Pin, counters
<1>3. CASE MarkReachable
  <2>1. disk' = disk \/ Like(disk', disk)
    BY <1>3, KeptFacts, StateFacts DEF MarkReachable, Reads, Stores
  <2> QED
    BY <1>3, <2>1 DEF MarkReachable, counters, Like, Rests, Untorn, ClaimOK
<1> QED
    BY <1>1, <1>2, <1>3, RecoversRests DEF Delivery, Actors

LEMMA OthersRest ==
    ASSUME Untorn, Untorn', disk.status = "deleted", User \/ StepEnds \/ Elapse \/ Crash, ~torn'
    PROVE  Rests
<1>1. ~live
    BY DEF Untorn, GoneOK
<1>2. CASE Archive
  <2>1. disk'.status = "deleted"
    BY <1>2, KeptFacts DEF Archive, Saves, Fields, Actors
  <2> QED
    BY <1>2, <2>1 DEF Archive, counters, Rests, Untorn, ClaimOK
<1>3. CASE Elapse
  <2>1. Like(disk', disk)
    BY <1>3, KeptFacts, StateFacts DEF Elapse
  <2>2. topics' = topics /\ alerts' = alerts
    BY <1>3 DEF Elapse, counters, history
  <2> QED
    BY <2>1, <2>2 DEF Like, Rests, Untorn, ClaimOK
<1>4. CASE Crash
    BY <1>4 DEF Crash, history, Rests, Untorn, ClaimOK
<1> QED
    BY <1>1, <1>2, <1>3, <1>4 DEF User, Stop, Resume, Delete, StepEnds

\* A deleted task stays deleted: no topic is made for it any more and nobody is alerted
\* about it, whatever was in hand when it was deleted (topic_recovery.py:162-165).
THEOREM DeletedForGood == Spec => DeletedStays
<1> DEFINE Step == disk.status = "deleted" => Rests \/ torn'
<1>1. Inv /\ Inv' /\ [Next]_vars => [Step]_vars
  <2> SUFFICES ASSUME Untorn, Untorn', Next, disk.status = "deleted", ~torn'
               PROVE  Rests
    BY TornStays DEF Inv
  <2> QED
    BY TickRests, DeliveryRests, OthersRest DEF Next
<1>2. [Step]_vars => [disk.status = "deleted" =>
                         \/ disk'.status = "deleted" /\ topics' = topics /\ alerts' <= alerts
                         \/ torn']_vars
    BY DEF Rests
<1> HIDE DEF Step
<1> QED
    BY <1>1, <1>2, InvAlways, PTL DEF Spec, DeletedStays

-----------------------------------------------------------------------------
(***************************************************************************)
(* What the operators return.                                               *)
(***************************************************************************)
\* A set of numbers has a least one.
LEMMA LeastNumber ==
    ASSUME NEW S, S \subseteq Nat, S # {}
    PROVE  Min(S) \in S /\ \A x \in S : Min(S) <= x
<1>1. PICK x \in S : \A y \in S : ~ (<<y, x>> \in OpToRel(<, Nat))
    BY NatLessThanWellFounded, WFMin, Zenon
<1>2. \A y \in S : x \in Nat /\ y \in Nat /\ ~ (y < x)
    BY <1>1 DEF OpToRel
<1>3. \E z \in S : \A y \in S : z =< y
    BY <1>2
<1> QED
    BY <1>3 DEF Min

\* A set of numbers with a bound has a greatest one: the least distance to the bound.
LEMMA GreatestNumber ==
    ASSUME NEW n \in Nat, NEW S, S \subseteq 0 .. n, S # {}
    PROVE  Max(S) \in S /\ \A x \in S : x <= Max(S)
<1> DEFINE gaps == {n - x : x \in S}
<1>1. gaps \subseteq Nat /\ gaps # {}
    <2>1. \A x \in S : x \in Nat /\ n - x \in Nat
        OBVIOUS
    <2>2. \A g \in gaps : g \in Nat
        BY <2>1
    <2> QED
        BY <2>2
<1>2. Min(gaps) \in gaps /\ \A g \in gaps : Min(gaps) <= g
    BY <1>1, LeastNumber
<1>3. PICK m \in S : Min(gaps) = n - m
    BY <1>2
<1>4. \A x \in S : n - m <= n - x
    BY <1>2, <1>3
<1>5. \A x \in S : m >= x
    BY <1>4
<1>6. \E z \in S : \A y \in S : z >= y
    BY <1>5
<1> QED
    BY <1>6 DEF Max

\* Taking the k-th update: the ones behind it move up.
LEMMA OneTaken ==
    ASSUME NEW S, NEW s \in Seq(S), NEW k \in 1 .. Len(s)
    PROVE  /\ RemoveAt(s, k) \in Seq(S)
           /\ Len(RemoveAt(s, k)) = Len(s) - 1
           /\ \A j \in 1 .. Len(s) - 1 : RemoveAt(s, k)[j] = IF j < k THEN s[j] ELSE s[j + 1]
<1>1. Len(s) \in Nat /\ \A j \in 1 .. Len(s) : s[j] \in S
    BY LenProperties, ElementOfSeq
<1> DEFINE before == SubSeq(s, 1, k - 1)
           after == SubSeq(s, k + 1, Len(s))
<1>2. /\ before \in Seq(S) /\ Len(before) = k - 1
      /\ \A j \in 1 .. k - 1 : before[j] = s[j]
    <2>1. 1 \in Int /\ k - 1 \in Int /\ \A j \in 1 .. k - 1 : s[j] \in S
        BY <1>1
    <2>2. /\ before \in Seq(S) /\ Len(before) = IF 1 <= k - 1 THEN k - 1 - 1 + 1 ELSE 0
          /\ \A j \in 1 .. k - 1 - 1 + 1 : before[j] = s[1 + j - 1]
        BY <2>1, SubSeqProperties
    <2> QED
        BY <2>2, <1>1
<1>3. /\ after \in Seq(S) /\ Len(after) = Len(s) - k
      /\ \A j \in 1 .. Len(s) - k : after[j] = s[k + j]
    <2>1. k + 1 \in Int /\ Len(s) \in Int /\ \A j \in k + 1 .. Len(s) : s[j] \in S
        BY <1>1
    <2>2. /\ after \in Seq(S)
          /\ Len(after) = IF k + 1 <= Len(s) THEN Len(s) - (k + 1) + 1 ELSE 0
          /\ \A j \in 1 .. Len(s) - (k + 1) + 1 : after[j] = s[k + 1 + j - 1]
        BY <2>1, SubSeqProperties
    <2> QED
        BY <2>2, <1>1
<1> HIDE DEF before, after
<1>4. /\ before \o after \in Seq(S) /\ Len(before \o after) = Len(before) + Len(after)
      /\ \A j \in 1 .. Len(before) + Len(after) :
            (before \o after)[j] = IF j <= Len(before) THEN before[j] ELSE after[j - Len(before)]
    BY <1>2, <1>3, ConcatProperties
<1>5. PICK rest : /\ rest = RemoveAt(s, k) /\ rest \in Seq(S) /\ Len(rest) = k - 1 + Len(s) - k
                  /\ \A j \in 1 .. k - 1 + Len(s) - k :
                        rest[j] = IF j <= k - 1 THEN before[j] ELSE after[j - (k - 1)]
    <2>1. RemoveAt(s, k) = before \o after
        BY DEF RemoveAt, before, after
    <2>2. Len(before) + Len(after) = k - 1 + Len(s) - k
        BY <1>1, <1>2, <1>3
    <2> QED
        BY <1>2, <1>4, <2>1, <2>2
<1>6. ASSUME NEW j \in 1 .. Len(s) - 1
      PROVE  rest[j] = IF j < k THEN s[j] ELSE s[j + 1]
    <2>1. CASE j < k
        <3>1. j \in 1 .. k - 1 + Len(s) - k /\ j <= k - 1 /\ j \in 1 .. k - 1
            BY <2>1, <1>1
        <3> QED
            BY <2>1, <3>1, <1>2, <1>5
    <2>2. CASE ~ (j < k)
        <3>1. /\ j \in 1 .. k - 1 + Len(s) - k /\ ~ (j <= k - 1)
              /\ j - (k - 1) \in 1 .. Len(s) - k /\ k + (j - (k - 1)) = j + 1
            BY <2>2, <1>1
        <3> QED
            BY <2>2, <3>1, <1>3, <1>5
    <2> QED
        BY <2>1, <2>2
<1>7. k - 1 + Len(s) - k = Len(s) - 1
    BY <1>1
<1> QED
    BY <1>5, <1>6, <1>7

\* Flow B finds a name that no agent has.
LEMMA FreshIsFree ==
    ASSUME agents \subseteq Names, agents # Names
    PROVE  FreshName \in Names \ agents
<1>1. Names \ agents \subseteq Nat /\ Names \ agents # {}
    BY CollaborativeAssumption
<1> QED
    BY <1>1, LeastNumber DEF FreshName

\* The record a chat is routed to is one bound to it, if there is any.
LEMMA RoutedIsBound ==
    ASSUME store \in Seq(Record), NEW c
    PROVE  /\ Routed(c) \in Routable \cup {0}
           /\ Routed(c) # 0 => store[Routed(c)].chat = c
           /\ \A i \in Routable : store[i].chat = c => i <= Routed(c)
<1> DEFINE bound == {i \in Routable : store[i].chat = c} \cup {0}
<1>1. Len(store) \in Nat /\ Groups = 1 .. Len(store)
    BY LenProperties DEF Groups
<1>2. bound \subseteq 0 .. Len(store) /\ bound # {}
    BY <1>1 DEF Routable
<1>3. Max(bound) \in bound /\ \A x \in bound : x <= Max(bound)
    BY <1>1, <1>2, GreatestNumber
<1> QED
    BY <1>3 DEF Routed

-----------------------------------------------------------------------------
(***************************************************************************)
(* What the updates of the registry change.                                 *)
(***************************************************************************)
LEMMA RecordsFacts ==
    ASSUME CollabTypeOK
    PROVE  /\ Len(store) \in Nat /\ Groups = 1 .. Len(store)
           /\ \A i \in Groups : store[i] \in Record
<1> QED
    BY LenProperties, ElementOfSeq DEF CollabTypeOK, Groups

LEMMA OwnersAreRoles ==
    ASSUME NEW u \in Users
    PROVE  OwnedBy(u) \in [Users -> Roles]
<1> QED
    BY DEF OwnedBy, Roles

\* A record replaced by another.
LEMMA OneReplaced ==
    ASSUME CollabTypeOK, NEW i \in Groups, NEW r \in Record, store' = [store EXCEPT ![i] = r]
    PROVE  /\ store' \in Seq(Record) /\ Groups' = Groups
           /\ store'[i] = r /\ \A j \in Groups \ {i} : store'[j] = store[j]
<1>1. /\ store' \in Seq(Record) /\ Len(store') = Len(store)
      /\ \A j \in 1 .. Len(store) : store'[j] = IF j = i THEN r ELSE store[j]
    BY RecordsFacts, ExceptSeq DEF CollabTypeOK
<1>2. Groups' = 1 .. Len(store')
    BY <1>1, LenProperties DEF Groups
<1> QED
    BY <1>1, <1>2, RecordsFacts

\* A record added.
LEMMA OneAppended ==
    ASSUME CollabTypeOK, NEW r \in Record, store' = Append(store, r)
    PROVE  /\ store' \in Seq(Record) /\ Groups' = Groups \cup {Len(store) + 1}
           /\ Len(store) + 1 \in Nat \ Groups
           /\ store'[Len(store) + 1] = r /\ \A j \in Groups : store'[j] = store[j]
<1>1. /\ store' \in Seq(Record) /\ Len(store') = Len(store) + 1
      /\ \A j \in 1 .. Len(store) : store'[j] = store[j]
      /\ store'[Len(store) + 1] = r
    BY AppendProperties DEF CollabTypeOK
<1>2. Groups' = 1 .. Len(store')
    BY <1>1, LenProperties DEF Groups
<1> QED
    BY <1>1, <1>2, RecordsFacts

LEMMA BoundRecord ==
    ASSUME CollabTypeOK, NEW i \in Groups, NEW c \in Chats, NEW u \in Users, UpdateChatId(i, c, u)
    PROVE  /\ store' \in Seq(Record) /\ Groups' = Groups
           /\ \A j \in Groups \ {i} : store'[j] = store[j]
           /\ store'[i].name = store[i].name /\ store'[i].announced = store[i].announced
           /\ store'[i].chat = c /\ store'[i].status = "active"
<1>1. Bound(i, c, u) \in Record
    BY RecordsFacts DEF Bound, Record, Roles
<1>2. /\ store' \in Seq(Record) /\ Groups' = Groups
      /\ store'[i] = Bound(i, c, u) /\ \A j \in Groups \ {i} : store'[j] = store[j]
    BY <1>1, OneReplaced DEF UpdateChatId
<1> QED
    BY <1>2 DEF Bound

LEMMA ClosedRecords ==
    ASSUME CollabTypeOK, NEW ids, CloseGroups(ids)
    PROVE  /\ store' \in Seq(Record) /\ Groups' = Groups
           /\ \A j \in Groups \ ids : store'[j] = store[j]
           /\ \A j \in Groups : store'[j].name = store[j].name
           /\ \A j \in Groups \cap ids : store'[j].status = "closed" /\ store'[j].chat = NoChat
<1>1. \A j \in Groups : Archived(j) \in Record
    BY RecordsFacts, OwnersAreRoles, CollaborativeAssumption DEF Archived, Record
<1>2. store' \in [1 .. Len(store) -> Record]
    BY <1>1, RecordsFacts DEF CloseGroups
<1>3. store' \in Seq(Record)
    BY <1>2, RecordsFacts
<1> QED
    BY <1>3, RecordsFacts DEF CloseGroups, Archived, Groups

LEMMA RoleRecord ==
    ASSUME CollabTypeOK, NEW i \in Groups, NEW u \in Users, NEW role \in Roles, SetRole(i, u, role)
    PROVE  /\ store' \in Seq(Record) /\ Groups' = Groups
           /\ \A j \in Groups : /\ store'[j].name = store[j].name /\ store'[j].chat = store[j].chat
                                /\ store'[j].status = store[j].status
                                /\ store'[j].announced = store[j].announced
<1> DEFINE r == [store[i] EXCEPT !.roles[u] = role]
<1>1. r \in Record /\ r.name = store[i].name /\ r.chat = store[i].chat
      /\ r.status = store[i].status /\ r.announced = store[i].announced
    BY RecordsFacts DEF Record
<1>2. store' = [store EXCEPT ![i] = r]
    BY DEF SetRole
<1> HIDE DEF r
<1> QED
    BY <1>1, <1>2, OneReplaced

LEMMA MovedRecord ==
    ASSUME CollabTypeOK, NEW i \in Groups, NEW c \in Chats, store' = [store EXCEPT ![i].chat = c]
    PROVE  /\ store' \in Seq(Record) /\ Groups' = Groups
           /\ \A j \in Groups \ {i} : store'[j] = store[j]
           /\ store'[i].name = store[i].name /\ store'[i].announced = store[i].announced
           /\ store'[i].status = store[i].status /\ store'[i].chat = c
<1> DEFINE r == [store[i] EXCEPT !.chat = c]
<1>1. r \in Record /\ r.name = store[i].name /\ r.chat = c
      /\ r.status = store[i].status /\ r.announced = store[i].announced
    BY RecordsFacts DEF Record
<1>2. store' = [store EXCEPT ![i] = r]
    OBVIOUS
<1> HIDE DEF r
<1> QED
    BY <1>1, <1>2, OneReplaced

LEMMA FinishedRecord ==
    ASSUME CollabTypeOK, NEW i \in Groups, store' = [store EXCEPT ![i].status = "active"]
    PROVE  /\ store' \in Seq(Record) /\ Groups' = Groups
           /\ \A j \in Groups \ {i} : store'[j] = store[j]
           /\ store'[i].name = store[i].name /\ store'[i].announced = store[i].announced
           /\ store'[i].chat = store[i].chat /\ store'[i].status = "active"
<1> DEFINE r == [store[i] EXCEPT !.status = "active"]
<1>1. r \in Record /\ r.name = store[i].name /\ r.chat = store[i].chat
      /\ r.status = "active" /\ r.announced = store[i].announced
    BY RecordsFacts DEF Record
<1>2. store' = [store EXCEPT ![i] = r]
    OBVIOUS
<1> HIDE DEF r
<1> QED
    BY <1>1, <1>2, OneReplaced

-----------------------------------------------------------------------------
(***************************************************************************)
(* The inductive invariant of the registry.                                 *)
(***************************************************************************)
\* Only an announced group waits for its chat.
AnnouncedOK == \A i \in Groups : store[i].status = "pending" => store[i].announced

\* An agent is linked to a group that has its name,
LinkOK == \A n \in Names : link[n] # 0 => link[n] \in Groups /\ store[link[n]].name = n

\* and whoever else has that name has lost the file to it.
NamesakesOK == \A j \in Groups : link[store[j].name] \notin {0, j} => j \in clobbered

\* PurposeIsKept, from the announcement on.
InstructionsOK ==
    \A i \in Groups \ clobbered :
        store[i].status # "closed" =>
            /\ file[store[i].name].of = i
            /\ store[i].status # "setup" => file[store[i].name].text = "purpose"

RegistryOK == AnnouncedOK /\ LinkOK /\ NamesakesOK /\ InstructionsOK /\ GroupsKnowTheirAgent

LEMMA RegistryFacts ==
    ASSUME CollabTypeOK
    PROVE  /\ \A i \in Groups : store[i].name \in Names
           /\ Routable \subseteq Groups
           /\ \A i \in Groups : i \in Routable <=> store[i].chat # NoChat
<1> QED
    BY RecordsFacts DEF CollabTypeOK, Record, Routable

\* Groups that are closed, moved or get other roles: nothing is said of them anew.
LEMMA RegistryKept ==
    ASSUME CollabTypeOK, RegistryOK, Groups' = Groups, Routable' \subseteq Routable,
           UNCHANGED <<agents, link, file, agentless, clobbered>>,
           \A i \in Groups :
              /\ store'[i].name = store[i].name
              /\ \/ store'[i].status = store[i].status /\ store'[i].announced = store[i].announced
                 \/ store'[i].status = "closed"
    PROVE  RegistryOK'
<1>1. AnnouncedOK'
    BY DEF RegistryOK, AnnouncedOK
<1>2. LinkOK'
    BY DEF RegistryOK, LinkOK
<1>3. NamesakesOK'
    BY DEF RegistryOK, NamesakesOK
<1>4. InstructionsOK'
    BY DEF RegistryOK, InstructionsOK
<1>5. GroupsKnowTheirAgent'
    BY RegistryFacts DEF RegistryOK, GroupsKnowTheirAgent, Routable
<1> QED
    BY <1>1, <1>2, <1>3, <1>4, <1>5 DEF RegistryOK

\* A pending group is bound to its chat.
LEMMA BoundKeepsRegistry ==
    ASSUME CollabTypeOK, RegistryOK, NEW i \in Groups, NEW c \in Chats, NEW u \in Users,
           store[i].status = "pending", UpdateChatId(i, c, u),
           UNCHANGED <<agents, link, file, agentless, clobbered>>
    PROVE  RegistryOK'
<1>1. /\ Groups' = Groups
      /\ \A j \in Groups \ {i} : store'[j] = store[j]
      /\ store'[i].name = store[i].name /\ store'[i].announced = store[i].announced
      /\ store'[i].chat = c /\ store'[i].status = "active"
    BY BoundRecord
<1>2. AnnouncedOK'
    BY <1>1 DEF RegistryOK, AnnouncedOK
<1>3. LinkOK'
    BY <1>1 DEF RegistryOK, LinkOK
<1>4. NamesakesOK'
    BY <1>1 DEF RegistryOK, NamesakesOK
<1>5. InstructionsOK'
    BY <1>1 DEF RegistryOK, InstructionsOK
<1>6. GroupsKnowTheirAgent'
    BY <1>1, RegistryFacts DEF RegistryOK, AnnouncedOK, GroupsKnowTheirAgent, Routable
<1> QED
    BY <1>2, <1>3, <1>4, <1>5, <1>6 DEF RegistryOK

\* A group is set up, or its agent registered without it.
LEMMA SetupKeepsRegistry ==
    ASSUME CollabTypeOK, RegistryOK, NEW n \in Names \ agents, NEW c \in Chats, NEW u \in Users,
           NEW i, i = Len(store) + 1,
           store' = Append(store, SetupRecord(n, c, u)),
           WriteFile(n, i, "setup"),
           \/ Register(n, i) /\ UNCHANGED agentless
           \/ Register(n, 0) /\ agentless' = agentless \cup {i}
    PROVE  RegistryOK'
<1>1. SetupRecord(n, c, u) \in Record
    BY OwnersAreRoles DEF SetupRecord, Record
<1>2. /\ Groups' = Groups \cup {i} /\ i \in Nat \ Groups /\ i # 0
      /\ store'[i] = SetupRecord(n, c, u) /\ \A j \in Groups : store'[j] = store[j]
    BY <1>1, OneAppended, RecordsFacts
<1>3. /\ store'[i].name = n /\ store'[i].status = "setup" /\ ~store'[i].announced
    BY <1>2 DEF SetupRecord
<1>4. agents' = agents \cup {n} /\ agentless \subseteq agentless'
    BY DEF Register
<1>5. /\ link'[n] \in {0, i} /\ \A m \in Names \ {n} : link'[m] = link[m]
      /\ i \notin agentless' => link'[n] = i
    BY DEF Register, CollabTypeOK
<1>6. /\ clobbered' = clobbered \cup (GroupsNamed(n) \ {i})
      /\ file'[n].of = i /\ file'[n].text = "setup"
      /\ \A m \in Names \ {n} : file'[m] = file[m]
    BY DEF WriteFile, CollabTypeOK
<1>7. /\ \A j \in Groups : store[j].name = n => j \in clobbered'
      /\ clobbered \subseteq clobbered'
    BY <1>2, <1>6 DEF GroupsNamed
<1>8. \A j \in Groups : store[j].name \in Names
    BY RegistryFacts
<1>9. AnnouncedOK'
    BY <1>2, <1>3 DEF RegistryOK, AnnouncedOK
<1>10. LinkOK'
    <2>1. ASSUME NEW m \in Names, link'[m] # 0
          PROVE  link'[m] \in Groups' /\ store'[link'[m]].name = m
        <3>1. CASE m = n
            BY <2>1, <3>1, <1>2, <1>3, <1>5
        <3>2. CASE m # n
            <4>1. link'[m] = link[m] /\ link[m] \in Groups /\ store[link[m]].name = m
                BY <2>1, <3>2, <1>5 DEF RegistryOK, LinkOK
            <4> QED
                BY <4>1, <1>2
        <3> QED
            BY <3>1, <3>2
    <2> QED
        BY <2>1 DEF LinkOK
<1>11. NamesakesOK'
    BY <1>2, <1>3, <1>5, <1>7, <1>8 DEF RegistryOK, NamesakesOK
<1>12. InstructionsOK'
    <2>1. ASSUME NEW j \in Groups', j \notin clobbered', store'[j].status # "closed"
          PROVE  /\ file'[store'[j].name].of = j
                 /\ store'[j].status # "setup" => file'[store'[j].name].text = "purpose"
        <3>1. CASE j = i
            BY <2>1, <3>1, <1>3, <1>6
        <3>2. CASE j # i
            <4>1. j \in Groups /\ store'[j] = store[j] /\ j \notin clobbered
                BY <2>1, <3>2, <1>2, <1>7
            <4>2. file'[store[j].name] = file[store[j].name]
                BY <2>1, <4>1, <1>6, <1>7, <1>8
            <4> QED
                BY <2>1, <4>1, <4>2 DEF RegistryOK, InstructionsOK
        <3> QED
            BY <3>1, <3>2
    <2> QED
        BY <2>1 DEF InstructionsOK
<1>13. GroupsKnowTheirAgent'
    <2>1. ASSUME NEW j \in Routable', j \notin agentless', ~store'[j].announced
          PROVE  store'[j].name \in agents' /\ link'[store'[j].name] = j
        <3>1. CASE j = i
            BY <2>1, <3>1, <1>3, <1>4, <1>5
        <3>2. CASE j # i
            <4>1. j \in Groups /\ store'[j] = store[j] /\ j \in Routable \ agentless
                BY <2>1, <3>2, <1>2, <1>4 DEF Routable
            <4> QED
                BY <2>1, <4>1, <1>4, <1>5, <1>8 DEF RegistryOK, GroupsKnowTheirAgent
        <3> QED
            BY <3>1, <3>2
    <2> QED
        BY <2>1 DEF GroupsKnowTheirAgent
<1> QED
    BY <1>9, <1>10, <1>11, <1>12, <1>13 DEF RegistryOK

\* The set-up is cut short before the record: the agent has no group, and whoever had
\* its name no file.
LEMMA HalfSetupKeepsRegistry ==
    ASSUME CollabTypeOK, RegistryOK, NEW n \in Names \ agents, Register(n, 0),
           \/ UNCHANGED <<store, file, agentless, clobbered>>
           \/ WriteFile(n, 0, "setup") /\ UNCHANGED <<store, agentless>>
    PROVE  RegistryOK'
<1>1. agents' = agents \cup {n} /\ store' = store /\ agentless' = agentless
    BY DEF Register
<1>2. link'[n] = 0 /\ \A m \in Names \ {n} : link'[m] = link[m]
    BY DEF Register, CollabTypeOK
<1>3. /\ clobbered \subseteq clobbered'
      /\ \A m \in Names \ {n} : file'[m] = file[m]
      /\ \A j \in Groups \ clobbered' : store[j].name = n => file' = file
    BY RecordsFacts DEF WriteFile, CollabTypeOK, GroupsNamed
<1>4. Groups' = Groups /\ Routable' = Routable /\ \A j \in Groups : store[j].name \in Names
    BY <1>1, RegistryFacts DEF Groups, Routable
<1>5. AnnouncedOK'
    BY <1>1, <1>4 DEF RegistryOK, AnnouncedOK
<1>6. LinkOK'
    BY <1>1, <1>2, <1>4 DEF RegistryOK, LinkOK
<1>7. NamesakesOK'
    BY <1>1, <1>2, <1>3, <1>4 DEF RegistryOK, NamesakesOK
<1>8. InstructionsOK'
    BY <1>1, <1>3, <1>4 DEF RegistryOK, InstructionsOK
<1>9. GroupsKnowTheirAgent'
    BY <1>1, <1>2, <1>4, RegistryFacts DEF RegistryOK, GroupsKnowTheirAgent
<1> QED
    BY <1>5, <1>6, <1>7, <1>8, <1>9 DEF RegistryOK

\* A group is announced, or the name is taken and its file removed.
LEMMA AnnounceKeepsRegistry ==
    ASSUME CollabTypeOK, RegistryOK, NEW n \in Names, NEW u \in Users,
           NEW target \in {"telegram", "discord"}, Announce(n, u, target)
    PROVE  RegistryOK'
<1> DEFINE r == [name |-> n, chat |-> NoChat, status |-> "pending", by |-> u,
                 announced |-> TRUE, target |-> target, roles |-> OwnedBy(u)]
<1>1. CASE GroupsNamed(n) = {} /\ WriteFile(n, Len(store) + 1, "purpose") /\ store' = Append(store, r)
    <2>1. PICK i : i = Len(store) + 1
        OBVIOUS
    <2>2. r \in Record
        BY OwnersAreRoles DEF Record
    <2>3. /\ Groups' = Groups \cup {i} /\ i \in Nat \ Groups /\ i # 0
          /\ store'[i] = r /\ \A j \in Groups : store'[j] = store[j]
        BY <1>1, <2>1, <2>2, OneAppended, RecordsFacts
    <2>4. /\ store'[i].name = n /\ store'[i].status = "pending" /\ store'[i].announced
          /\ store'[i].chat = NoChat
        BY <2>3
    <2>5. /\ file'[n].of = i /\ file'[n].text = "purpose" /\ clobbered' = clobbered
          /\ \A m \in Names \ {n} : file'[m] = file[m]
        BY <1>1, <2>1 DEF WriteFile, CollabTypeOK
    <2>6. agents' = agents /\ link' = link /\ agentless' = agentless
        BY DEF Announce
    <2>7. /\ \A j \in Groups : store[j].name \in Names /\ store[j].name # n
          /\ link[n] = 0
        BY <1>1, RegistryFacts DEF GroupsNamed, RegistryOK, LinkOK
    <2>8. Routable' \subseteq Routable
        BY <2>3, <2>4 DEF Routable
    <2>9. AnnouncedOK'
        BY <2>3, <2>4 DEF RegistryOK, AnnouncedOK
    <2>10. LinkOK'
        BY <2>3, <2>6 DEF RegistryOK, LinkOK
    <2>11. NamesakesOK'
        BY <2>3, <2>4, <2>5, <2>6, <2>7 DEF RegistryOK, NamesakesOK
    <2>12. InstructionsOK'
        <3>1. ASSUME NEW j \in Groups', j \notin clobbered', store'[j].status # "closed"
              PROVE  /\ file'[store'[j].name].of = j
                     /\ store'[j].status # "setup" => file'[store'[j].name].text = "purpose"
            <4>1. CASE j = i
                BY <4>1, <2>4, <2>5
            <4>2. CASE j # i
                BY <3>1, <4>2, <2>3, <2>5, <2>7 DEF RegistryOK, InstructionsOK
            <4> QED
                BY <4>1, <4>2
        <3> QED
            BY <3>1 DEF InstructionsOK
    <2>13. GroupsKnowTheirAgent'
        BY <2>3, <2>6, <2>8, RegistryFacts DEF RegistryOK, GroupsKnowTheirAgent
    <2> QED
        BY <2>9, <2>10, <2>11, <2>12, <2>13 DEF RegistryOK
<1>2. CASE /\ file' = [file EXCEPT ![n] = [of |-> 0, text |-> "none"]]
           /\ clobbered' = clobbered \cup GroupsNamed(n) /\ store' = store
    <2>1. agents' = agents /\ link' = link /\ agentless' = agentless
        BY DEF Announce
    <2>2. /\ \A m \in Names \ {n} : file'[m] = file[m]
          /\ \A j \in Groups \ clobbered' : store[j].name # n
        BY <1>2 DEF CollabTypeOK, GroupsNamed
    <2>3. Groups' = Groups /\ Routable' = Routable /\ \A j \in Groups : store[j].name \in Names
        BY <1>2, RegistryFacts DEF Groups, Routable
    <2>4. AnnouncedOK'
        BY <1>2, <2>3 DEF RegistryOK, AnnouncedOK
    <2>5. LinkOK'
        BY <1>2, <2>1, <2>3 DEF RegistryOK, LinkOK
    <2>6. NamesakesOK'
        BY <1>2, <2>1, <2>3 DEF RegistryOK, NamesakesOK
    <2>7. InstructionsOK'
        BY <1>2, <2>2, <2>3 DEF RegistryOK, InstructionsOK
    <2>8. GroupsKnowTheirAgent'
        BY <1>2, <2>1, <2>3 DEF RegistryOK, GroupsKnowTheirAgent
    <2> QED
        BY <2>4, <2>5, <2>6, <2>7, <2>8 DEF RegistryOK
<1> QED
    BY <1>1, <1>2 DEF Announce

\* Headquarters closes an agent by its name.
LEMMA CloseKeepsRegistry ==
    ASSUME CollabTypeOK, RegistryOK, NEW n \in Names, CloseWorkspace(n)
    PROVE  RegistryOK'
<1>1. /\ store' = store /\ file' = file /\ clobbered' = clobbered
      /\ agents' = agents \ {n}
      /\ agentless' = agentless \cup {i \in Routable : store[i].name = n}
    BY DEF CloseWorkspace
<1>2. link'[n] = 0 /\ \A m \in Names \ {n} : link'[m] = link[m]
    BY DEF CloseWorkspace, CollabTypeOK
<1>3. Groups' = Groups /\ Routable' = Routable /\ \A j \in Groups : store[j].name \in Names
    BY <1>1, RegistryFacts DEF Groups, Routable
<1>4. AnnouncedOK'
    BY <1>1, <1>3 DEF RegistryOK, AnnouncedOK
<1>5. LinkOK'
    BY <1>1, <1>2, <1>3 DEF RegistryOK, LinkOK
<1>6. NamesakesOK'
    BY <1>1, <1>2, <1>3 DEF RegistryOK, NamesakesOK
<1>7. InstructionsOK'
    BY <1>1, <1>3 DEF RegistryOK, InstructionsOK
<1>8. GroupsKnowTheirAgent'
    BY <1>1, <1>2, <1>3, RegistryFacts DEF RegistryOK, GroupsKnowTheirAgent
<1> QED
    BY <1>4, <1>5, <1>6, <1>7, <1>8 DEF RegistryOK

\* Who completes a set-up is the agent of the group it is linked to.
LEMMA SetupIsItsOwn ==
    ASSUME CollabTypeOK, RegistryOK, NEW t \in turns, SetupComplete(t)
    PROVE  /\ link[t.agent] \in Groups /\ store[link[t.agent]].status = "setup"
           /\ store[link[t.agent]].name = t.agent /\ t.agent \in Names /\ t.exec
           /\ Groups' = Groups /\ store' \in Seq(Record)
           /\ \A j \in Groups : /\ store'[j].name = store[j].name
                                /\ store'[j].chat = store[j].chat
                                /\ store'[j].announced = store[j].announced
                                /\ store'[j].status # store[j].status => j = link[t.agent] /\ store'[j].status = "active"
           /\ Routable' = Routable
<1>1. t \in [agent : Names, exec : BOOLEAN]
    BY DEF CollabTypeOK
<1>2. PICK i : i = link[t.agent]
    OBVIOUS
<1>3. i \in Groups /\ store[i].status = "setup" /\ t.exec
    BY <1>2 DEF SetupComplete, Dispatches
<1>4. store[i].name = t.agent
    <2>1. i # 0
        BY <1>3, RecordsFacts
    <2> QED
        BY <1>1, <1>2, <2>1 DEF RegistryOK, LinkOK
<1>5. store' = [store EXCEPT ![i].status = "active"] \/ store' = store
    BY <1>2 DEF SetupComplete, SetupCut
<1>6. /\ Groups' = Groups /\ store' \in Seq(Record)
      /\ \A j \in Groups : /\ store'[j].name = store[j].name
                           /\ store'[j].chat = store[j].chat
                           /\ store'[j].announced = store[j].announced
                           /\ store'[j].status # store[j].status => j = i /\ store'[j].status = "active"
    <2>1. CASE store' = [store EXCEPT ![i].status = "active"]
        BY <1>3, <2>1, FinishedRecord
    <2>2. CASE store' = store
        BY <2>2 DEF CollabTypeOK, Groups
    <2> QED
        BY <1>5, <2>1, <2>2
<1>7. Routable' = Routable
    BY <1>3, <1>6 DEF Routable
<1> QED
    BY <1>1, <1>2, <1>3, <1>4, <1>6, <1>7

\* It writes the purpose before it says so.
LEMMA FinishKeepsRegistry ==
    ASSUME CollabTypeOK, RegistryOK, NEW t \in turns, SetupComplete(t),
           UNCHANGED <<agents, link, agentless>>
    PROVE  RegistryOK'
<1>1. PICK i : i = link[t.agent]
    OBVIOUS
<1>2. /\ i \in Groups /\ store[i].status = "setup" /\ store[i].name = t.agent /\ t.agent \in Names
      /\ Groups' = Groups /\ Routable' = Routable
      /\ \A j \in Groups : /\ store'[j].name = store[j].name
                           /\ store'[j].announced = store[j].announced
                           /\ store'[j].status # store[j].status => j = i /\ store'[j].status = "active"
    BY <1>1, SetupIsItsOwn
<1>3. /\ file'[store[i].name].of = i /\ file'[store[i].name].text = "purpose"
      /\ \A m \in Names \ {store[i].name} : file'[m] = file[m]
      /\ clobbered \subseteq clobbered'
    BY <1>1, <1>2 DEF SetupComplete, SetupCut, WriteFile, CollabTypeOK
<1>4. \A j \in Groups \ {i} : store[j].name = store[i].name => j \in clobbered
    <2>1. link[store[i].name] = i /\ i # 0
        BY <1>1, <1>2, RecordsFacts
    <2> QED
        BY <2>1 DEF RegistryOK, NamesakesOK
<1>5. \A j \in Groups : store[j].name \in Names
    BY RegistryFacts
<1>6. AnnouncedOK'
    BY <1>2 DEF RegistryOK, AnnouncedOK
<1>7. LinkOK'
    BY <1>2 DEF RegistryOK, LinkOK
<1>8. NamesakesOK'
    BY <1>2, <1>3 DEF RegistryOK, NamesakesOK
<1>9. InstructionsOK'
    <2>1. ASSUME NEW j \in Groups, j \notin clobbered', store'[j].status # "closed"
          PROVE  /\ file'[store'[j].name].of = j
                 /\ store'[j].status # "setup" => file'[store'[j].name].text = "purpose"
        <3>1. CASE j = i
            BY <3>1, <1>2, <1>3
        <3>2. CASE j # i
            <4>1. /\ j \notin clobbered /\ store'[j].status = store[j].status
                  /\ store'[j].name = store[j].name
                BY <2>1, <3>2, <1>2, <1>3
            <4>2. file'[store[j].name] = file[store[j].name]
                BY <2>1, <3>2, <4>1, <1>3, <1>4, <1>5
            <4> QED
                BY <2>1, <4>1, <4>2 DEF RegistryOK, InstructionsOK
        <3> QED
            BY <3>1, <3>2
    <2> QED
        BY <2>1, <1>2 DEF InstructionsOK
<1>10. GroupsKnowTheirAgent'
    BY <1>2, RegistryFacts DEF RegistryOK, GroupsKnowTheirAgent
<1> QED
    BY <1>6, <1>7, <1>8, <1>9, <1>10 DEF RegistryOK

\* What stays with the registry.
LEMMA RegistryUnchanged ==
    ASSUME CollabTypeOK, RegistryOK, UNCHANGED <<registry, agentless, clobbered>>
    PROVE  RegistryOK' /\ Groups' = Groups /\ Routable' = Routable
<1>1. UNCHANGED <<store, agents, link, file, agentless, clobbered>>
    BY DEF registry
<1>2. Groups' = Groups /\ Routable' = Routable
    BY <1>1 DEF Groups, Routable
<1> QED
    BY <1>1, <1>2, RegistryKept

\* An update that is taken.
LEMMA DispatchedFacts ==
    ASSUME CollabTypeOK, NEW k, Dispatched(k)
    PROVE  /\ Len(updates) \in Nat /\ k \in 1 .. Len(updates) /\ updates[k] \in Update
           /\ updates' \in Seq(Update) /\ Len(updates') = Len(updates) - 1
           /\ \A j \in 1 .. Len(updates) - 1 : updates'[j] = IF j < k THEN updates[j] ELSE updates[j + 1]
           /\ k # 1 => platform = "discord"
<1>1. updates \in Seq(Update) /\ k \in DOMAIN updates /\ updates' = RemoveAt(updates, k)
    BY DEF Dispatched, CollabTypeOK
<1>2. Len(updates) \in Nat /\ k \in 1 .. Len(updates) /\ updates[k] \in Update
    BY <1>1, LenProperties, ElementOfSeq
<1>3. /\ updates' \in Seq(Update) /\ Len(updates') = Len(updates) - 1
      /\ \A j \in 1 .. Len(updates) - 1 : updates'[j] = IF j < k THEN updates[j] ELSE updates[j + 1]
    BY <1>1, <1>2, OneTaken
<1>4. k # 1 => platform = "discord"
    <2>1. k # 1 => 1 \in 1 .. (k - 1)
        BY <1>2
    <2> QED
        BY <2>1 DEF Dispatched
<1> QED
    BY <1>2, <1>3, <1>4

LEMMA TakenFacts ==
    ASSUME CollabTypeOK, NEW k, Taken(k)
    PROVE  /\ Dispatched(k) /\ strayed \cup Overtaken(k) \subseteq strayed' /\ strayed' \subseteq Chats
           /\ k \in 1 .. Len(updates) /\ updates[k] \in Update /\ updates' \in Seq(Update)
           /\ k # 1 => platform = "discord"
<1> QED
    BY DispatchedFacts DEF Taken, Overtaken, CollabTypeOK

\* Closing, moving and roles are the registry's only uses of groups that are bound.
LEMMA CloseGroupsKeeps ==
    ASSUME CollabTypeOK, RegistryOK, NEW ids, CloseGroups(ids),
           UNCHANGED <<agents, link, file, agentless, clobbered>>
    PROVE  /\ RegistryOK' /\ store' \in Seq(Record) /\ Groups' = Groups
           /\ \A i \in Groups : (store'[i].status \in {"setup", "active"}) = (store'[i].chat # NoChat)
           /\ Routable' = Routable \ ids /\ \A i \in Routable' : store'[i] = store[i]
<1>1. /\ store' \in Seq(Record) /\ Groups' = Groups
      /\ \A j \in Groups \ ids : store'[j] = store[j]
      /\ \A j \in Groups : store'[j].name = store[j].name
      /\ \A j \in Groups \cap ids : store'[j].status = "closed" /\ store'[j].chat = NoChat
    BY ClosedRecords
<1>2. Routable' = Routable \ ids
    BY <1>1 DEF Routable
<1>3. RegistryOK'
    BY <1>1, <1>2, RegistryKept
<1>4. ASSUME NEW i \in Groups
      PROVE  (store'[i].status \in {"setup", "active"}) = (store'[i].chat # NoChat)
    <2>1. CASE i \in ids
        BY <2>1, <1>1
    <2>2. CASE i \notin ids
        BY <2>2, <1>1 DEF CollabTypeOK
    <2> QED
        BY <2>1, <2>2
<1>5. \A i \in Routable' : store'[i] = store[i]
    BY <1>1, <1>2 DEF Routable
<1> QED
    BY <1>1, <1>2, <1>3, <1>4, <1>5

LEMMA SetRoleKeeps ==
    ASSUME CollabTypeOK, RegistryOK, NEW i \in Groups, NEW u \in Users, NEW role \in Roles,
           SetRole(i, u, role), UNCHANGED <<agents, link, file, agentless, clobbered>>
    PROVE  /\ RegistryOK' /\ store' \in Seq(Record) /\ Groups' = Groups
           /\ \A j \in Groups : (store'[j].status \in {"setup", "active"}) = (store'[j].chat # NoChat)
           /\ Routable' = Routable /\ \A j \in Groups : store'[j].chat = store[j].chat
<1>1. /\ store' \in Seq(Record) /\ Groups' = Groups
      /\ \A j \in Groups : /\ store'[j].name = store[j].name /\ store'[j].chat = store[j].chat
                           /\ store'[j].status = store[j].status
                           /\ store'[j].announced = store[j].announced
    BY RoleRecord
<1>2. Routable' = Routable
    BY <1>1 DEF Routable
<1>3. RegistryOK'
    BY <1>1, <1>2, RegistryKept
<1> QED
    BY <1>1, <1>2, <1>3 DEF CollabTypeOK

-----------------------------------------------------------------------------
(***************************************************************************)
(* Every action keeps the types and the registry.                           *)
(***************************************************************************)
RegistryInv == CollabTypeOK /\ RegistryOK

LEMMA ArriveRegistry ==
    ASSUME RegistryInv, NEW u \in Users \cup {Unknown}, NEW c \in Chats, Arrive(u, c)
    PROVE  RegistryInv'
<1>1. RegistryOK' /\ Groups' = Groups
    BY RegistryUnchanged DEF RegistryInv, Arrive
<1>2. [kind |-> "added", chat |-> c, to |-> c, by |-> u] \in Update
    BY DEF Update
<1>3. updates' \in Seq(Update)
    BY <1>2, AppendProperties DEF Arrive, RegistryInv, CollabTypeOK
<1>4. present' \subseteq Chats /\ strayed' \subseteq Chats
    BY DEF Arrive, Everywhere, RegistryInv, CollabTypeOK
<1> QED
    BY <1>1, <1>3, <1>4 DEF Arrive, registry, RegistryInv, CollabTypeOK

LEMMA DepartRegistry ==
    ASSUME RegistryInv, NEW c \in Chats, Depart(c)
    PROVE  RegistryInv'
<1>1. RegistryOK' /\ Groups' = Groups
    BY RegistryUnchanged DEF RegistryInv, Depart
<1>2. [kind |-> "removed", chat |-> c, to |-> c, by |-> Unknown] \in Update
    BY DEF Update
<1>3. updates' \in Seq(Update)
    BY <1>2, AppendProperties DEF Depart, RegistryInv, CollabTypeOK
<1> QED
    BY <1>1, <1>3 DEF Depart, registry, RegistryInv, CollabTypeOK

LEMMA DepartRestrictedRegistry ==
    ASSUME RegistryInv, NEW c \in Chats, DepartRestricted(c)
    PROVE  RegistryInv'
<1>1. RegistryOK' /\ Groups' = Groups
    BY RegistryUnchanged DEF RegistryInv, DepartRestricted
<1> QED
    BY <1>1 DEF DepartRestricted, registry, RegistryInv, CollabTypeOK

LEMMA SupergroupRegistry ==
    ASSUME RegistryInv, NEW c \in Chats, NEW d \in Chats, Supergroup(c, d)
    PROVE  RegistryInv'
<1>1. RegistryOK' /\ Groups' = Groups
    BY RegistryUnchanged DEF RegistryInv, Supergroup
<1>2. [kind |-> "migrated", chat |-> c, to |-> d, by |-> Unknown] \in Update
    BY DEF Update
<1>3. updates' \in Seq(Update)
    BY <1>2, AppendProperties DEF Supergroup, RegistryInv, CollabTypeOK
<1> QED
    BY <1>1, <1>3 DEF Supergroup, registry, RegistryInv, CollabTypeOK

\* A group that is routed is bound to a chat.
LEMMA BoundInChats ==
    ASSUME CollabTypeOK
    PROVE  StillBound \subseteq Chats /\ \A i \in Routable : store[i].chat \in Chats
<1> QED
    BY RecordsFacts, RegistryFacts DEF StillBound, Record

LEMMA RestartRegistry ==
    ASSUME RegistryInv, Restart
    PROVE  RegistryInv'
<1>1. RegistryOK' /\ Groups' = Groups
    BY RegistryUnchanged DEF RegistryInv, Restart
<1>2. PICK lost \in {{}, DOMAIN updates} :
          /\ updates' = IF lost = {} THEN updates ELSE <<>>
          /\ strayed' = strayed \cup StillBound
                \cup UNION {Everywhere(updates[k].chat) \cup {updates[k].to} : k \in lost}
    BY DEF Restart
<1>3. updates' \in Seq(Update)
    BY <1>2, EmptySeq DEF RegistryInv, CollabTypeOK
<1>4. \A k \in lost : Everywhere(updates[k].chat) \cup {updates[k].to} \subseteq Chats
    <2>1. \A k \in DOMAIN updates : updates[k] \in Update
        BY LenProperties, ElementOfSeq DEF RegistryInv, CollabTypeOK
    <2> QED
        BY <2>1 DEF Update, Everywhere
<1>5. strayed' \subseteq Chats
    BY <1>2, <1>4, BoundInChats DEF RegistryInv, CollabTypeOK
<1> QED
    BY <1>1, <1>3, <1>5 DEF Restart, registry, RegistryInv, CollabTypeOK

LEMMA BotAddedUnauthorisedRegistry ==
    ASSUME RegistryInv, NEW k, BotAddedUnauthorised(k)
    PROVE  RegistryInv'
<1>1. RegistryOK' /\ Groups' = Groups
    BY RegistryUnchanged DEF RegistryInv, BotAddedUnauthorised
<1>2. updates[k] \in Update /\ updates' \in Seq(Update) /\ strayed' \subseteq Chats
    BY TakenFacts DEF RegistryInv, BotAddedUnauthorised
<1> QED
    BY <1>1, <1>2 DEF BotAddedUnauthorised, registry, RegistryInv, CollabTypeOK, Update

\* The parts of an authorised addition that are the same in every outcome.
LEMMA AddedFacts ==
    ASSUME CollabTypeOK, NEW k, Taken(k), IsAuthorisedAdder(updates[k].by)
    PROVE  /\ updates[k].by \in Users /\ updates[k].chat \in Chats
           /\ updates' \in Seq(Update) /\ strayed' \subseteq Chats
<1> QED
    BY TakenFacts DEF Update, IsAuthorisedAdder

LEMMA PendingFacts ==
    ASSUME CollabTypeOK, NEW u, PendingFor(u) # {}
    PROVE  /\ Max(PendingFor(u)) \in Groups
           /\ store[Max(PendingFor(u))].status = "pending"
           /\ Max(PendingFor(u)) \notin Routable
<1>1. Len(store) \in Nat /\ PendingFor(u) \subseteq 0 .. Len(store)
    BY RecordsFacts DEF PendingFor
<1>2. Max(PendingFor(u)) \in PendingFor(u)
    BY <1>1, GreatestNumber
<1> QED
    BY <1>2 DEF PendingFor, Routable

LEMMA BotAddedAnnouncedRegistry ==
    ASSUME RegistryInv, NEW k, BotAddedAnnounced(k)
    PROVE  RegistryInv'
<1>1. /\ updates[k].by \in Users /\ updates[k].chat \in Chats
      /\ updates' \in Seq(Update) /\ strayed' \subseteq Chats
    BY AddedFacts DEF RegistryInv, BotAddedAnnounced
<1>2. PICK i \in Groups : store[i].status = "pending" /\ UpdateChatId(i, updates[k].chat, updates[k].by)
    BY PendingFacts DEF RegistryInv, BotAddedAnnounced
<1>3. UNCHANGED <<platform, agents, link, file, present, closing, refusing, turns, agentless, clobbered>>
    BY DEF BotAddedAnnounced
<1>4. RegistryOK'
    BY <1>1, <1>2, <1>3, BoundKeepsRegistry DEF RegistryInv
<1>5. /\ store' \in Seq(Record) /\ Groups' = Groups
      /\ \A j \in Groups \ {i} : store'[j] = store[j]
      /\ store'[i].chat = updates[k].chat /\ store'[i].status = "active"
    BY <1>1, <1>2, BoundRecord DEF RegistryInv
<1>6. updates[k].chat # NoChat
    BY <1>1, CollaborativeAssumption
<1> QED
    BY <1>1, <1>3, <1>4, <1>5, <1>6 DEF RegistryInv, CollabTypeOK

\* The record of a set-up, appended.
LEMMA SetupAppended ==
    ASSUME CollabTypeOK, NEW n \in Names, NEW c \in Chats, NEW u \in Users,
           store' = Append(store, SetupRecord(n, c, u))
    PROVE  /\ store' \in Seq(Record) /\ Len(store) + 1 \in Nat \ Groups
           /\ Groups' = Groups \cup {Len(store) + 1}
           /\ \A j \in Groups : store'[j] = store[j]
           /\ store'[Len(store) + 1].chat = c
           /\ \A j \in Groups' : (store'[j].status \in {"setup", "active"}) = (store'[j].chat # NoChat)
<1>1. SetupRecord(n, c, u) \in Record
    BY OwnersAreRoles DEF SetupRecord, Record
<1>2. PICK i : i = Len(store) + 1
    OBVIOUS
<1>3. /\ store' \in Seq(Record) /\ Groups' = Groups \cup {i} /\ i \in Nat \ Groups
      /\ store'[i] = SetupRecord(n, c, u) /\ \A j \in Groups : store'[j] = store[j]
    BY <1>1, <1>2, OneAppended
<1>4. store'[i].chat = c /\ store'[i].status = "setup" /\ c # NoChat
    <2>1. SetupRecord(n, c, u).chat = c /\ SetupRecord(n, c, u).status = "setup"
        BY DEF SetupRecord
    <2> QED
        BY <1>3, <2>1, CollaborativeAssumption
<1>5. \A j \in Groups' : (store'[j].status \in {"setup", "active"}) = (store'[j].chat # NoChat)
    BY <1>3, <1>4 DEF CollabTypeOK
<1> QED
    BY <1>2, <1>3, <1>4, <1>5

\* What an addition registers has its type.
LEMMA RegisteredTypes ==
    ASSUME CollabTypeOK, NEW n \in Names, NEW i \in Nat
    PROVE  /\ Register(n, i) => agents' \subseteq Names /\ link' \in [Names -> Nat]
           /\ \A text \in {"setup", "purpose"} :
                 WriteFile(n, i, text) =>
                     /\ file' \in [Names -> [of : Nat, text : {"none", "setup", "purpose"}]]
                     /\ clobbered' \subseteq Nat
           /\ Welcome(n) => turns' \subseteq [agent : Names, exec : BOOLEAN]
<1>1. Register(n, i) => agents' \subseteq Names /\ link' \in [Names -> Nat]
    BY DEF Register, CollabTypeOK
<1>2. ASSUME NEW text \in {"setup", "purpose"}, WriteFile(n, i, text)
      PROVE  /\ file' \in [Names -> [of : Nat, text : {"none", "setup", "purpose"}]]
             /\ clobbered' \subseteq Nat
    <2>1. GroupsNamed(n) \subseteq Nat
        BY RecordsFacts DEF GroupsNamed
    <2> QED
        BY <1>2, <2>1 DEF WriteFile, CollabTypeOK
<1>3. Welcome(n) => turns' \subseteq [agent : Names, exec : BOOLEAN]
    <2>1. PICK t : t = [agent |-> n, exec |-> TRUE]
        OBVIOUS
    <2>2. t \in [agent : Names, exec : BOOLEAN]
        BY <2>1
    <2>3. Welcome(n) => turns' = turns \cup {t}
        BY <2>1 DEF Welcome
    <2>4. turns \subseteq [agent : Names, exec : BOOLEAN]
        BY DEF CollabTypeOK
    <2> QED
        BY <2>2, <2>3, <2>4
<1> QED
    BY <1>1, <1>2, <1>3

LEMMA BotAddedSetupRegistry ==
    ASSUME RegistryInv, NEW k, BotAddedSetup(k)
    PROVE  RegistryInv'
<1>1. /\ updates[k].by \in Users /\ updates[k].chat \in Chats
      /\ updates' \in Seq(Update) /\ strayed' \subseteq Chats
    BY AddedFacts DEF RegistryInv, BotAddedSetup
<1>2. PICK n \in Names \ agents : n = FreshName
    BY FreshIsFree DEF RegistryInv, CollabTypeOK, BotAddedSetup
<1>3. PICK i \in Nat : i = Len(store) + 1
    BY RecordsFacts DEF RegistryInv
<1>4. /\ store' = Append(store, SetupRecord(n, updates[k].chat, updates[k].by))
      /\ WriteFile(n, i, "setup") /\ Register(n, i) /\ Welcome(n)
      /\ UNCHANGED <<platform, present, closing, refusing, agentless>>
    BY <1>2, <1>3 DEF BotAddedSetup
<1>5. RegistryOK'
    BY <1>1, <1>3, <1>4, SetupKeepsRegistry DEF RegistryInv
<1>6. /\ store' \in Seq(Record)
      /\ \A j \in Groups' : (store'[j].status \in {"setup", "active"}) = (store'[j].chat # NoChat)
    BY <1>1, <1>4, SetupAppended DEF RegistryInv
<1>7. /\ agents' \subseteq Names /\ link' \in [Names -> Nat]
      /\ file' \in [Names -> [of : Nat, text : {"none", "setup", "purpose"}]]
      /\ clobbered' \subseteq Nat /\ turns' \subseteq [agent : Names, exec : BOOLEAN]
    BY <1>4, RegisteredTypes DEF RegistryInv
<1> QED
    BY <1>1, <1>4, <1>5, <1>6, <1>7 DEF RegistryInv, CollabTypeOK

LEMMA BotAddedCutRegistry ==
    ASSUME RegistryInv, NEW k, BotAddedCut(k)
    PROVE  RegistryInv'
<1>1. /\ updates[k].by \in Users /\ updates[k].chat \in Chats
      /\ updates' \in Seq(Update) /\ strayed' \subseteq Chats
    BY AddedFacts DEF RegistryInv, BotAddedCut
<1>2. PICK n \in Names \ agents : n = FreshName
    BY FreshIsFree DEF RegistryInv, CollabTypeOK, BotAddedCut
<1>3. PICK i \in Nat : i = Len(store) + 1
    BY RecordsFacts DEF RegistryInv
<1>4. UNCHANGED <<platform, present, closing, refusing, turns>>
    BY DEF BotAddedCut
<1>5. CASE UNCHANGED <<registry, agentless, clobbered>>
    <2>1. RegistryOK' /\ Groups' = Groups
        BY <1>5, RegistryUnchanged DEF RegistryInv
    <2> QED
        BY <1>1, <1>4, <1>5, <2>1 DEF registry, RegistryInv, CollabTypeOK
<1>6. CASE /\ Register(n, 0)
           /\ \/ UNCHANGED <<store, file, agentless, clobbered>>
              \/ WriteFile(n, 0, "setup") /\ UNCHANGED <<store, agentless>>
    <2>1. RegistryOK'
        BY <1>6, HalfSetupKeepsRegistry DEF RegistryInv
    <2>2. /\ agents' \subseteq Names /\ link' \in [Names -> Nat]
          /\ WriteFile(n, 0, "setup") =>
                /\ file' \in [Names -> [of : Nat, text : {"none", "setup", "purpose"}]]
                /\ clobbered' \subseteq Nat
        BY <1>6, RegisteredTypes DEF RegistryInv
    <2>3. store' = store /\ agentless' = agentless /\ Groups' = Groups
        BY <1>6 DEF Groups
    <2> QED
        BY <1>1, <1>4, <1>6, <2>1, <2>2, <2>3 DEF RegistryInv, CollabTypeOK
<1>7. CASE /\ Register(n, 0) /\ WriteFile(n, i, "setup")
           /\ store' = Append(store, SetupRecord(n, updates[k].chat, updates[k].by))
           /\ agentless' = agentless \cup {i}
    <2>1. RegistryOK'
        BY <1>1, <1>3, <1>7, SetupKeepsRegistry DEF RegistryInv
    <2>2. /\ store' \in Seq(Record)
          /\ \A j \in Groups' : (store'[j].status \in {"setup", "active"}) = (store'[j].chat # NoChat)
        BY <1>1, <1>7, SetupAppended DEF RegistryInv
    <2>3. agents' \subseteq Names /\ link' \in [Names -> Nat]
        BY <1>7, RegisteredTypes DEF RegistryInv
    <2>4. /\ file' \in [Names -> [of : Nat, text : {"none", "setup", "purpose"}]]
          /\ clobbered' \subseteq Nat
        BY <1>7, RegisteredTypes DEF RegistryInv
    <2> QED
        BY <1>1, <1>4, <1>7, <2>1, <2>2, <2>3, <2>4 DEF RegistryInv, CollabTypeOK
<1> QED
    BY <1>2, <1>3, <1>5, <1>6, <1>7 DEF BotAddedCut

LEMMA RefuseAndLeaveRegistry ==
    ASSUME RegistryInv, NEW c \in Chats, RefuseAndLeave(c)
    PROVE  RegistryInv'
<1>1. RegistryOK' /\ Groups' = Groups
    BY RegistryUnchanged DEF RegistryInv, RefuseAndLeave
<1>2. [kind |-> "removed", chat |-> c, to |-> c, by |-> Unknown] \in Update
    BY DEF Update
<1>3. updates' \in Seq(Update)
    <2>1. updates \in Seq(Update)
        BY DEF RegistryInv, CollabTypeOK
    <2>2. Append(updates, [kind |-> "removed", chat |-> c, to |-> c, by |-> Unknown]) \in Seq(Update)
        BY <1>2, <2>1, AppendProperties
    <2> QED
        BY <2>1, <2>2 DEF RefuseAndLeave
<1>4. present' \subseteq Chats /\ refusing' \subseteq Chats
    BY DEF RefuseAndLeave, RegistryInv, CollabTypeOK
<1> QED
    BY <1>1, <1>3, <1>4 DEF RefuseAndLeave, registry, RegistryInv, CollabTypeOK

LEMMA AffectedAreGroups ==
    ASSUME CollabTypeOK, NEW c
    PROVE  Affected(c) \subseteq Nat /\ Affected(c) \subseteq Routable \cup {0}
<1>1. Routed(c) \in Routable \cup {0}
    BY RoutedIsBound DEF CollabTypeOK
<1> QED
    BY <1>1, RecordsFacts, RegistryFacts DEF Affected, Peers

LEMMA BotRemovedRegistry ==
    ASSUME RegistryInv, NEW k, BotRemoved(k)
    PROVE  RegistryInv'
<1>1. updates' \in Seq(Update) /\ strayed' \subseteq Chats
    BY TakenFacts DEF RegistryInv, BotRemoved
<1>2. PICK ids : CloseGroups(Earliest(ids)) /\ closing' = closing \cup (ids \ Earliest(ids))
                 /\ ids = Affected(updates[k].chat)
    BY DEF BotRemoved
<1>3. UNCHANGED <<platform, agents, link, file, present, refusing, turns, agentless, clobbered>>
    BY DEF BotRemoved
<1>5. ids \subseteq Nat
    BY <1>2, AffectedAreGroups DEF RegistryInv
<1>4. /\ RegistryOK' /\ store' \in Seq(Record) /\ Groups' = Groups
      /\ \A i \in Groups : (store'[i].status \in {"setup", "active"}) = (store'[i].chat # NoChat)
    BY <1>2, <1>3, CloseGroupsKeeps DEF RegistryInv
<1>6. agentless' \cup clobbered' \cup closing' \subseteq Nat
    BY <1>2, <1>3, <1>5 DEF RegistryInv, CollabTypeOK
<1> QED
    BY <1>1, <1>3, <1>4, <1>6 DEF RegistryInv, CollabTypeOK

LEMMA CloseNextRegistry ==
    ASSUME RegistryInv, NEW i \in closing, CloseNext(i)
    PROVE  RegistryInv'
<1>1. /\ UNCHANGED <<platform, agents, link, file, present, updates, refusing, turns, strayed,
                     agentless, clobbered>>
      /\ CloseGroups({i}) /\ closing' \subseteq closing
    BY DEF CloseNext
<1>2. /\ RegistryOK' /\ store' \in Seq(Record) /\ Groups' = Groups
      /\ \A j \in Groups : (store'[j].status \in {"setup", "active"}) = (store'[j].chat # NoChat)
    BY <1>1, CloseGroupsKeeps DEF RegistryInv
<1> QED
    BY <1>1, <1>2 DEF RegistryInv, CollabTypeOK

LEMMA CloseFailsRegistry ==
    ASSUME RegistryInv, CloseFails
    PROVE  RegistryInv'
<1>1. RegistryOK' /\ Groups' = Groups
    BY RegistryUnchanged DEF RegistryInv, CloseFails
<1>2. updates' \in Seq(Update) /\ strayed' \subseteq Chats /\ closing' \subseteq closing
    <2>1. CASE \E k \in DOMAIN updates :
                  /\ Dispatched(k)
                  /\ strayed' = strayed \cup Overtaken(k)
                        \cup {store[i].chat : i \in Affected(updates[k].chat) \cap Routable}
                  /\ closing' = closing
        BY <2>1, DispatchedFacts, BoundInChats DEF Overtaken, RegistryInv, CollabTypeOK
    <2>2. CASE closing' = {} /\ strayed' = strayed \cup StillBound /\ updates' = updates
        BY <2>2, BoundInChats DEF RegistryInv, CollabTypeOK
    <2> QED
        BY <2>1, <2>2 DEF CloseFails
<1> QED
    BY <1>1, <1>2 DEF CloseFails, registry, RegistryInv, CollabTypeOK

\* The record of a chat moves with it.
LEMMA MovedKeeps ==
    ASSUME CollabTypeOK, RegistryOK, NEW i \in Routable, NEW c \in Chats,
           store' = [store EXCEPT ![i].chat = c],
           UNCHANGED <<agents, link, file, agentless, clobbered>>
    PROVE  /\ RegistryOK' /\ store' \in Seq(Record) /\ Groups' = Groups /\ Routable' = Routable
           /\ \A j \in Groups : (store'[j].status \in {"setup", "active"}) = (store'[j].chat # NoChat)
           /\ store'[i].chat = c /\ \A j \in Groups \ {i} : store'[j] = store[j]
<1>1. i \in Groups /\ c # NoChat
    BY CollaborativeAssumption DEF Routable
<1>2. /\ store' \in Seq(Record) /\ Groups' = Groups
      /\ \A j \in Groups \ {i} : store'[j] = store[j]
      /\ store'[i].name = store[i].name /\ store'[i].announced = store[i].announced
      /\ store'[i].status = store[i].status /\ store'[i].chat = c
    BY <1>1, MovedRecord
<1>3. Routable' = Routable
    BY <1>1, <1>2 DEF Routable
<1>4. RegistryOK'
    BY <1>2, <1>3, RegistryKept
<1>5. \A j \in Groups : (store'[j].status \in {"setup", "active"}) = (store'[j].chat # NoChat)
    BY <1>1, <1>2 DEF CollabTypeOK, Routable
<1> QED
    BY <1>2, <1>3, <1>4, <1>5

LEMMA BotMigratedRegistry ==
    ASSUME RegistryInv, NEW k, BotMigrated(k)
    PROVE  RegistryInv'
<1>1. updates' \in Seq(Update) /\ strayed' \subseteq Chats /\ updates[k] \in Update
    BY TakenFacts DEF RegistryInv, BotMigrated
<1>2. UNCHANGED <<platform, agents, link, file, present, closing, refusing, turns, agentless, clobbered>>
    BY DEF BotMigrated
<1>3. PICK i : i = Routed(updates[k].chat)
    OBVIOUS
<1>4. i \in Routable \cup {0}
    BY <1>3, RoutedIsBound DEF RegistryInv, CollabTypeOK
<1>5. /\ RegistryOK' /\ store' \in Seq(Record)
      /\ \A j \in Groups' : (store'[j].status \in {"setup", "active"}) = (store'[j].chat # NoChat)
    <2>1. CASE i = 0
        <3>1. store' = store
            BY <1>3, <2>1 DEF BotMigrated
        <3>2. RegistryOK' /\ Groups' = Groups
            BY <1>2, <3>1, RegistryUnchanged DEF registry, RegistryInv
        <3> QED
            BY <3>1, <3>2 DEF RegistryInv, CollabTypeOK
    <2>2. CASE i # 0
        <3>1. PICK d \in Chats : store' = [store EXCEPT ![i].chat = d]
            BY <1>1, <1>3, <2>2 DEF BotMigrated, Update
        <3>2. i \in Routable
            BY <1>4, <2>2
        <3>3. UNCHANGED <<agents, link, file, agentless, clobbered>>
            BY <1>2
        <3>4. /\ RegistryOK' /\ store' \in Seq(Record) /\ Groups' = Groups
              /\ \A j \in Groups : (store'[j].status \in {"setup", "active"}) = (store'[j].chat # NoChat)
            BY <3>1, <3>2, <3>3, MovedKeeps DEF RegistryInv
        <3> QED
            BY <3>4
    <2> QED
        BY <2>1, <2>2
<1> QED
    BY <1>1, <1>2, <1>5 DEF RegistryInv, CollabTypeOK

LEMMA AnnounceRegistry ==
    ASSUME RegistryInv, NEW n \in Names, NEW u \in Users,
           NEW target \in {"telegram", platform}, Announce(n, u, target)
    PROVE  RegistryInv'
<1>1. target \in {"telegram", "discord"}
    BY DEF RegistryInv, CollabTypeOK
<1>2. RegistryOK'
    BY <1>1, AnnounceKeepsRegistry DEF RegistryInv
<1> DEFINE r == [name |-> n, chat |-> NoChat, status |-> "pending", by |-> u,
                 announced |-> TRUE, target |-> target, roles |-> OwnedBy(u)]
<1>3. r \in Record /\ r.status = "pending" /\ r.chat = NoChat
    BY <1>1, OwnersAreRoles DEF Record
<1>4. UNCHANGED <<platform, agents, link, present, updates, closing, refusing, turns, strayed, agentless>>
    BY DEF Announce
<1>5. CASE WriteFile(n, Len(store) + 1, "purpose") /\ store' = Append(store, r)
    <2> HIDE DEF r
    <2>1. PICK i : i = Len(store) + 1
        OBVIOUS
    <2>2. /\ store' \in Seq(Record) /\ Groups' = Groups \cup {i} /\ i \in Nat
          /\ store'[i] = r /\ \A j \in Groups : store'[j] = store[j]
        BY <1>3, <1>5, <2>1, OneAppended DEF RegistryInv
    <2>3. ASSUME NEW j \in Groups'
          PROVE  (store'[j].status \in {"setup", "active"}) = (store'[j].chat # NoChat)
        <3>1. CASE j = i
            <4>1. store'[j].status = "pending" /\ store'[j].chat = NoChat
                BY <1>3, <2>2, <3>1
            <4> QED
                BY <4>1
        <3>2. CASE j # i
            BY <2>2, <3>2 DEF RegistryInv, CollabTypeOK
        <3> QED
            BY <3>1, <3>2
    <2>4. /\ file' \in [Names -> [of : Nat, text : {"none", "setup", "purpose"}]]
          /\ clobbered' \subseteq Nat
        BY <1>5, <2>1, <2>2, RegisteredTypes DEF RegistryInv
    <2> QED
        BY <1>2, <1>4, <2>2, <2>3, <2>4 DEF RegistryInv, CollabTypeOK
<1>6. CASE /\ file' = [file EXCEPT ![n] = [of |-> 0, text |-> "none"]]
           /\ clobbered' = clobbered \cup GroupsNamed(n) /\ store' = store
    <2>1. GroupsNamed(n) \subseteq Nat /\ Groups' = Groups
        BY <1>6, RecordsFacts DEF RegistryInv, GroupsNamed, Groups
    <2>2. file' \in [Names -> [of : Nat, text : {"none", "setup", "purpose"}]]
        BY <1>6 DEF RegistryInv, CollabTypeOK
    <2> QED
        BY <1>2, <1>4, <1>6, <2>1, <2>2 DEF RegistryInv, CollabTypeOK
<1> QED
    BY <1>5, <1>6 DEF Announce

LEMMA ImTheOwnerRegistry ==
    ASSUME RegistryInv, NEW u \in Users, NEW c \in Chats, NEW i \in Groups, ImTheOwner(u, c, i)
    PROVE  RegistryInv'
<1>1. /\ store[i].status = "pending" /\ UpdateChatId(i, c, u)
      /\ UNCHANGED <<platform, agents, link, file, present, updates, closing, refusing, turns, strayed,
                     agentless, clobbered>>
    BY DEF ImTheOwner
<1>2. RegistryOK'
    BY <1>1, BoundKeepsRegistry DEF RegistryInv
<1>3. /\ store' \in Seq(Record) /\ Groups' = Groups
      /\ \A j \in Groups \ {i} : store'[j] = store[j]
      /\ store'[i].chat = c /\ store'[i].status = "active"
    BY <1>1, BoundRecord DEF RegistryInv
<1>4. c # NoChat
    BY CollaborativeAssumption
<1> QED
    BY <1>1, <1>2, <1>3, <1>4 DEF RegistryInv, CollabTypeOK

LEMMA CloseWorkspaceRegistry ==
    ASSUME RegistryInv, NEW n \in Names, CloseWorkspace(n)
    PROVE  RegistryInv'
<1>1. RegistryOK'
    BY CloseKeepsRegistry DEF RegistryInv
<1>2. agentless' \subseteq Nat /\ Groups' = Groups
    BY RecordsFacts DEF CloseWorkspace, RegistryInv, CollabTypeOK, Routable, Groups
<1>3. link' \in [Names -> Nat]
    BY DEF CloseWorkspace, RegistryInv, CollabTypeOK
<1>4. turns' \subseteq turns
    BY DEF CloseWorkspace
<1> QED
    BY <1>1, <1>2, <1>3, <1>4 DEF CloseWorkspace, RegistryInv, CollabTypeOK

LEMMA SaysFacts ==
    ASSUME CollabTypeOK, NEW u, NEW c, Says(u, c)
    PROVE  Routed(c) \in Routable /\ Routed(c) \in Groups /\ store[Routed(c)].name \in Names
<1> QED
    BY RoutedIsBound, RegistryFacts DEF Says, CollabTypeOK

LEMMA RolesRegistry ==
    ASSUME RegistryInv, NEW u \in Users, NEW v \in Users, NEW c \in Chats,
           Promote(u, v, c) \/ Demote(u, v, c)
    PROVE  RegistryInv'
<1>1. PICK i \in Groups : \E role \in Roles : SetRole(i, v, role)
    BY SaysFacts DEF Promote, Demote, RegistryInv, Roles
<1>2. UNCHANGED <<platform, agents, link, file, present, updates, closing, refusing, turns, strayed,
                  agentless, clobbered>>
    BY DEF Promote, Demote
<1>3. /\ RegistryOK' /\ store' \in Seq(Record) /\ Groups' = Groups
      /\ \A j \in Groups : (store'[j].status \in {"setup", "active"}) = (store'[j].chat # NoChat)
    BY <1>1, <1>2, SetRoleKeeps DEF RegistryInv
<1> QED
    BY <1>2, <1>3 DEF RegistryInv, CollabTypeOK

LEMMA CloseGroupRegistry ==
    ASSUME RegistryInv, NEW u \in Users, NEW c \in Chats, CloseGroup(u, c)
    PROVE  RegistryInv'
<1>1. CloseGroups({Routed(c)})
    BY DEF CloseGroup
<1>2. UNCHANGED <<platform, agents, link, file, present, updates, closing, refusing, turns, strayed,
                  agentless, clobbered>>
    BY DEF CloseGroup
<1>3. /\ RegistryOK' /\ store' \in Seq(Record) /\ Groups' = Groups
      /\ \A i \in Groups : (store'[i].status \in {"setup", "active"}) = (store'[i].chat # NoChat)
    BY <1>1, <1>2, CloseGroupsKeeps DEF RegistryInv
<1> QED
    BY <1>2, <1>3 DEF RegistryInv, CollabTypeOK

LEMMA MessageRegistry ==
    ASSUME RegistryInv, NEW u \in Users, NEW c \in Chats, Message(u, c)
    PROVE  RegistryInv'
<1>1. RegistryOK' /\ Groups' = Groups
    BY RegistryUnchanged DEF RegistryInv, Message
<1>2. turns' \subseteq [agent : Names, exec : BOOLEAN]
    <2>1. PICK n \in Names : n = store[Routed(c)].name
        BY SaysFacts DEF Message, RegistryInv
    <2>2. PICK e : e = (RoleOf(u, Routed(c)) \in Executive)
        OBVIOUS
    <2>3. e \in BOOLEAN
        BY <2>2
    <2>4. turns' = {[agent |-> n, exec |-> e]}
        BY <2>1, <2>2, Zenon DEF Message
    <2> QED
        BY <2>3, <2>4
<1> QED
    BY <1>1, <1>2 DEF Message, registry, RegistryInv, CollabTypeOK

LEMMA EndTurnRegistry ==
    ASSUME RegistryInv, NEW t \in turns, EndTurn(t)
    PROVE  RegistryInv'
<1>1. /\ UNCHANGED <<platform, agents, link, present, updates, closing, refusing, strayed, agentless>>
      /\ turns' \subseteq turns
    BY DEF EndTurn
<1>2. CASE SetupComplete(t)
    <2>1. RegistryOK'
        BY <1>1, <1>2, FinishKeepsRegistry DEF RegistryInv
    <2>2. PICK i \in Groups : i = link[t.agent]
        BY <1>2, SetupIsItsOwn DEF RegistryInv
    <2>3. /\ store[i].status = "setup" /\ store' \in Seq(Record) /\ Groups' = Groups
          /\ \A j \in Groups : /\ store'[j].chat = store[j].chat
                               /\ store'[j].status # store[j].status => j = i /\ store'[j].status = "active"
        BY <1>2, <2>2, SetupIsItsOwn DEF RegistryInv
    <2>4. \A j \in Groups : (store'[j].status \in {"setup", "active"}) = (store'[j].chat # NoChat)
        BY <2>3 DEF RegistryInv, CollabTypeOK
    <2>5. /\ file' \in [Names -> [of : Nat, text : {"none", "setup", "purpose"}]]
          /\ clobbered' \subseteq Nat
        <3>1. i \in Nat /\ store[i].name \in Names
            BY RecordsFacts, RegistryFacts DEF RegistryInv
        <3>2. \/ WriteFile(store[i].name, i, "purpose")
              \/ /\ file' = [file EXCEPT ![store[i].name] = [of |-> i, text |-> "purpose"]]
                 /\ clobbered' = clobbered
            BY <1>2, <2>2 DEF SetupComplete, SetupCut
        <3>3. CASE WriteFile(store[i].name, i, "purpose")
            BY <3>1, <3>3, RegisteredTypes DEF RegistryInv
        <3>4. CASE /\ file' = [file EXCEPT ![store[i].name] = [of |-> i, text |-> "purpose"]]
                   /\ clobbered' = clobbered
            BY <3>1, <3>4 DEF RegistryInv, CollabTypeOK
        <3> QED
            BY <3>2, <3>3, <3>4
    <2> QED
        BY <1>1, <2>1, <2>3, <2>4, <2>5 DEF RegistryInv, CollabTypeOK
<1>3. CASE UNCHANGED <<store, file, clobbered>>
    <2>1. RegistryOK' /\ Groups' = Groups
        BY <1>1, <1>3, RegistryUnchanged DEF registry, RegistryInv
    <2> QED
        BY <1>1, <1>3, <2>1 DEF RegistryInv, CollabTypeOK
<1> QED
    BY <1>2, <1>3 DEF EndTurn

-----------------------------------------------------------------------------
(***************************************************************************)
(* The inductive invariant of the chats.  A chat nothing was missed of goes *)
(* in and out in turns: a group that is bound to it counts as the first     *)
(* time in, the updates in flight are the later ones.                       *)
(***************************************************************************)
\* The groups that no removal is about to close.
Staying == Routable \ closing

InAt(k, c) ==
    IF k = 0 THEN \E i \in Staying : store[i].chat = c
    ELSE \/ updates[k].kind = "added" /\ updates[k].chat = c
         \/ updates[k].kind = "migrated" /\ updates[k].to = c

OutAt(k, c) == updates[k].kind \in {"removed", "migrated"} /\ c \in Everywhere(updates[k].chat)

MigrationsOK ==
    \A k \in 1 .. Len(updates) :
        updates[k].kind = "migrated" => platform = "telegram" /\ updates[k].to # updates[k].chat

\* After the last time in the bot is there, or its leaving is on its way.
PresenceOK ==
    \A c \in Chats \ strayed : \A k \in 0 .. Len(updates) :
        InAt(k, c) => c \in present \/ \E j \in k + 1 .. Len(updates) : OutAt(j, c)

\* On Telegram there is a time out between two times in, and a removal concerns one group.
\* A Discord removal closes every group there is, and needs no such order.
ClosingOK == platform = "telegram" => closing = {}
OneBound == \A c \in Chats \ strayed : \A i, j \in Staying : store[i].chat = c /\ store[j].chat = c => i = j
InsApart ==
    \A c \in Chats \ strayed : \A k, l \in 0 .. Len(updates) :
        k < l /\ InAt(k, c) /\ InAt(l, c) => \E j \in k + 1 .. l - 1 : OutAt(j, c)
OrderOK == platform = "telegram" => OneBound /\ InsApart

RoutingOK == MigrationsOK /\ PresenceOK /\ OrderOK /\ ClosingOK

LEMMA UpdatesFacts ==
    ASSUME CollabTypeOK
    PROVE  /\ Len(updates) \in Nat /\ DOMAIN updates = 1 .. Len(updates)
           /\ \A k \in 1 .. Len(updates) : updates[k] \in Update
<1> QED
    BY LenProperties, ElementOfSeq DEF CollabTypeOK

\* Groups stay bound where they are, or are closed, or their chats are strayed.
LEMMA StayingKept ==
    ASSUME CollabTypeOK, RoutingOK, UNCHANGED <<platform, updates, present>>,
           closing' \subseteq closing, strayed \subseteq strayed',
           \A i \in Staying' : \/ store'[i].chat \in strayed'
                               \/ i \in Staying /\ store'[i].chat = store[i].chat
    PROVE  RoutingOK'
<1>1. ASSUME NEW k, NEW c, c \notin strayed', InAt(k, c)'
      PROVE  InAt(k, c)
    <2>1. CASE k = 0
        BY <1>1, <2>1 DEF InAt
    <2>2. CASE k # 0
        BY <1>1, <2>2 DEF InAt
    <2> QED
        BY <2>1, <2>2
<1>2. \A k, c : OutAt(k, c)' <=> OutAt(k, c)
    BY DEF OutAt, Everywhere
<1>3. MigrationsOK' /\ ClosingOK'
    BY DEF RoutingOK, MigrationsOK, ClosingOK
<1>4. PresenceOK'
    BY <1>1, <1>2 DEF RoutingOK, PresenceOK
<1>5. platform = "telegram" => OneBound'
    BY DEF RoutingOK, OrderOK, OneBound
<1>6. platform = "telegram" => InsApart'
    BY <1>1, <1>2 DEF RoutingOK, OrderOK, InsApart
<1> QED
    BY <1>3, <1>4, <1>5, <1>6 DEF RoutingOK, OrderOK

LEMMA RoutingKept ==
    ASSUME CollabTypeOK, RoutingOK, UNCHANGED <<platform, updates, present, strayed, closing>>,
           \A i \in Routable' : i \in Routable /\ store'[i].chat = store[i].chat
    PROVE  RoutingOK'
<1>1. \A i \in Staying' : i \in Staying /\ store'[i].chat = store[i].chat
    BY DEF Staying
<1> QED
    BY <1>1, StayingKept

\* An update in flight behind the others.
LEMMA OneMore ==
    ASSUME CollabTypeOK, NEW m \in Update, updates' = Append(updates, m),
           UNCHANGED <<platform, store, closing>>, NEW size, size = Len(updates)
    PROVE  /\ size \in Nat /\ Len(updates') = size + 1 /\ updates'[size + 1] = m
           /\ \A k \in 1 .. size : updates'[k] = updates[k]
           /\ Staying' = Staying
           /\ \A c : /\ \A k \in 0 .. size : InAt(k, c)' <=> InAt(k, c)
                     /\ \A k \in 1 .. size : OutAt(k, c)' <=> OutAt(k, c)
<1>1. /\ size \in Nat /\ Len(updates') = size + 1 /\ updates'[size + 1] = m
      /\ \A k \in 1 .. size : updates'[k] = updates[k]
    BY UpdatesFacts, AppendProperties DEF CollabTypeOK
<1>2. Staying' = Staying
    BY DEF Staying, Routable, Groups
<1>3. \A c : \A k \in 0 .. size : InAt(k, c)' <=> InAt(k, c)
    <2>1. ASSUME NEW c, NEW k \in 0 .. size
          PROVE  InAt(k, c)' <=> InAt(k, c)
        <3>1. CASE k = 0
            BY <3>1, <1>2 DEF InAt
        <3>2. CASE k # 0
            <4>1. updates'[k] = updates[k]
                BY <1>1, <3>2
            <4> QED
                BY <3>2, <4>1 DEF InAt
        <3> QED
            BY <3>1, <3>2
    <2> QED
        BY <2>1
<1>4. \A c : \A k \in 1 .. size : OutAt(k, c)' <=> OutAt(k, c)
    BY <1>1 DEF OutAt, Everywhere
<1> QED
    BY <1>1, <1>2, <1>3, <1>4

\* Times in and out that an update adds at the end keep the order, if the bot is there
\* after it comes, and gone or going after it leaves.
LEMMA InAgain ==
    ASSUME RoutingOK, NEW size \in Nat, size = Len(updates), Len(updates') = size + 1,
           Staying' = Staying, UNCHANGED <<platform, store, closing>>,
           \A d : /\ \A k \in 0 .. size : InAt(k, d)' <=> InAt(k, d)
                  /\ \A k \in 1 .. size : OutAt(k, d)' <=> OutAt(k, d),
           MigrationsOK',
           \A d \in Chats \ strayed' : d \notin strayed \/ \A k \in 0 .. size : ~InAt(k, d),
           \A d \in Chats \ strayed' : InAt(size + 1, d)' => d \in present' /\ d \notin present,
           \A d \in Chats \ strayed' : d \in present => d \in present' \/ OutAt(size + 1, d)'
    PROVE  RoutingOK'
<1>1. PresenceOK'
    <2>1. ASSUME NEW d \in Chats \ strayed', NEW k \in 0 .. size + 1, InAt(k, d)'
          PROVE  d \in present' \/ \E j \in k + 1 .. size + 1 : OutAt(j, d)'
        <3>1. CASE k = size + 1
            BY <2>1, <3>1
        <3>2. CASE k # size + 1
            <4>1. k \in 0 .. size /\ size + 1 \in k + 1 .. size + 1
                BY <3>2
            <4>2. InAt(k, d) /\ d \notin strayed
                BY <2>1, <4>1
            <4>3. d \in present \/ \E j \in k + 1 .. size : OutAt(j, d)
                BY <4>1, <4>2 DEF RoutingOK, PresenceOK
            <4>4. CASE d \in present
                BY <4>1, <4>4
            <4>5. CASE \E j \in k + 1 .. size : OutAt(j, d)
                BY <4>1, <4>5
            <4> QED
                BY <4>3, <4>4, <4>5
        <3> QED
            BY <3>1, <3>2
    <2> QED
        BY <2>1 DEF PresenceOK
<1>2. ASSUME platform = "telegram"
      PROVE  OneBound'
    <2>1. ASSUME NEW d \in Chats \ strayed', NEW i \in Staying, NEW j \in Staying,
                 store[i].chat = d, store[j].chat = d
          PROVE  i = j
        <3>1. InAt(0, d)
            BY <2>1 DEF InAt
        <3>2. d \notin strayed
            BY <3>1
        <3> QED
            BY <1>2, <2>1, <3>2 DEF RoutingOK, OrderOK, OneBound
    <2> QED
        BY <2>1 DEF OneBound
<1>3. ASSUME platform = "telegram"
      PROVE  InsApart'
    <2>1. ASSUME NEW d \in Chats \ strayed', NEW k \in 0 .. size + 1, NEW l \in 0 .. size + 1,
                 k < l, InAt(k, d)', InAt(l, d)'
          PROVE  \E j \in k + 1 .. l - 1 : OutAt(j, d)'
        <3>1. k \in 0 .. size
            BY <2>1
        <3>2. InAt(k, d) /\ d \notin strayed
            BY <2>1, <3>1
        <3>3. CASE l = size + 1
            <4>1. d \notin present
                BY <2>1, <3>3
            <4>2. \E j \in k + 1 .. size : OutAt(j, d)
                BY <3>1, <3>2, <4>1 DEF RoutingOK, PresenceOK
            <4> QED
                BY <3>1, <3>3, <4>2
        <3>4. CASE l # size + 1
            <4>1. l \in 0 .. size
                BY <3>4
            <4>2. InAt(l, d)
                BY <2>1, <4>1
            <4>3. \E j \in k + 1 .. l - 1 : OutAt(j, d)
                BY <1>3, <2>1, <3>1, <3>2, <4>1, <4>2 DEF RoutingOK, OrderOK, InsApart
            <4> QED
                BY <3>1, <4>1, <4>3
        <3> QED
            BY <3>3, <3>4
    <2> QED
        BY <2>1 DEF InsApart
<1> QED
    BY <1>1, <1>2, <1>3 DEF RoutingOK, OrderOK, ClosingOK

\* The bot leaves, or is sent away: everywhere at once on Discord.
LEMMA LeavingKeepsRouting ==
    ASSUME CollabTypeOK, RoutingOK, NEW c \in Chats,
           NEW m \in Update, m.kind = "removed", m.chat = c, updates' = Append(updates, m),
           present' = present \ Everywhere(c), UNCHANGED <<platform, store, closing, strayed>>
    PROVE  RoutingOK'
<1>1. PICK size : size = Len(updates)
    OBVIOUS
<1>2. /\ size \in Nat /\ Len(updates') = size + 1 /\ updates'[size + 1] = m
      /\ \A k \in 1 .. size : updates'[k] = updates[k]
      /\ Staying' = Staying
      /\ \A d : /\ \A k \in 0 .. size : InAt(k, d)' <=> InAt(k, d)
                /\ \A k \in 1 .. size : OutAt(k, d)' <=> OutAt(k, d)
    BY <1>1, OneMore
<1>3. \A d : ~InAt(size + 1, d)' /\ (OutAt(size + 1, d)' <=> d \in Everywhere(c))
    BY <1>2 DEF InAt, OutAt, Everywhere
<1>4. MigrationsOK'
    BY <1>1, <1>2 DEF RoutingOK, MigrationsOK
<1> QED
    BY <1>1, <1>2, <1>3, <1>4, InAgain

\* A chat that nothing concerns is not on its way in.
LEMMA NothingComes ==
    ASSUME CollabTypeOK, NEW c \in Chats, \A i \in Routable : store[i].chat # c, ~Concerned(c)
    PROVE  \A k \in 0 .. Len(updates) : ~InAt(k, c)
<1>1. ~InAt(0, c)
    BY DEF InAt, Staying
<1>2. ASSUME NEW k \in 1 .. Len(updates)
      PROVE  ~InAt(k, c)
    BY UpdatesFacts DEF InAt, Concerned, Everywhere
<1> QED
    BY <1>1, <1>2, UpdatesFacts

LEMMA ArriveRouting ==
    ASSUME RegistryInv, RoutingOK, NEW u \in Users \cup {Unknown}, NEW c \in Chats, Arrive(u, c)
    PROVE  RoutingOK'
<1>1. PICK m \in Update : m = [kind |-> "added", chat |-> c, to |-> c, by |-> u]
    BY DEF Update
<1>2. m.kind = "added" /\ m.chat = c
    BY <1>1
<1>3. PICK size : size = Len(updates)
    OBVIOUS
<1>4. /\ c \notin present /\ present' = present \cup Everywhere(c) /\ c \in Everywhere(c)
      /\ updates' = Append(updates, m) /\ UNCHANGED <<platform, store, closing>>
      /\ strayed' = strayed \ {d \in Everywhere(c) : Routed(d) = 0 /\ ~Concerned(d)}
    BY <1>1 DEF Arrive, Everywhere, registry
<1>5. CollabTypeOK
    BY DEF RegistryInv
<1>6. /\ size \in Nat /\ Len(updates') = size + 1 /\ updates'[size + 1] = m
      /\ \A k \in 1 .. size : updates'[k] = updates[k]
      /\ Staying' = Staying
      /\ \A d : /\ \A k \in 0 .. size : InAt(k, d)' <=> InAt(k, d)
                /\ \A k \in 1 .. size : OutAt(k, d)' <=> OutAt(k, d)
    BY <1>3, <1>4, <1>5, OneMore
<1>7. \A d : InAt(size + 1, d)' <=> d = c
    BY <1>2, <1>6 DEF InAt
<1>8. ASSUME NEW d \in Chats \ strayed'
      PROVE  d \notin strayed \/ \A k \in 0 .. size : ~InAt(k, d)
    <2>1. CASE Routed(d) = 0 /\ ~Concerned(d)
        <3>1. \A i \in Routable : store[i].chat = d => i <= 0 /\ i \in Groups
            BY <1>5, <2>1, RoutedIsBound, RegistryFacts DEF CollabTypeOK
        <3>2. \A i \in Routable : store[i].chat # d
            BY <1>5, <3>1, RecordsFacts
        <3> QED
            BY <1>3, <1>5, <2>1, <3>2, NothingComes
    <2> QED
        BY <2>1, <1>4
<1>9. MigrationsOK'
    BY <1>2, <1>3, <1>4, <1>6 DEF RoutingOK, MigrationsOK
<1>10. \A d \in Chats \ strayed' : InAt(size + 1, d)' => d \in present' /\ d \notin present
    BY <1>4, <1>7
<1>11. \A d \in Chats \ strayed' : d \in present => d \in present'
    BY <1>4
<1>12. UNCHANGED <<platform, store, closing>>
    BY <1>4
<1> QED
    BY <1>3, <1>6, <1>8, <1>9, <1>10, <1>11, <1>12, InAgain

LEMMA DepartRestrictedRouting ==
    ASSUME RegistryInv, RoutingOK, NEW c \in Chats, DepartRestricted(c)
    PROVE  RoutingOK'
<1>1. /\ UNCHANGED <<platform, store, closing, updates>>
      /\ present' = present \ {c} /\ strayed' = strayed \cup {c}
    BY DEF DepartRestricted, registry
<1>2. /\ Staying' = Staying
      /\ \A k, d : (InAt(k, d)' <=> InAt(k, d)) /\ (OutAt(k, d)' <=> OutAt(k, d))
    BY <1>1 DEF Staying, Routable, Groups, InAt, OutAt, Everywhere
<1>3. MigrationsOK'
    BY <1>1 DEF RoutingOK, MigrationsOK
<1>4. PresenceOK'
    BY <1>1, <1>2 DEF RoutingOK, PresenceOK
<1>5. OrderOK'
    BY <1>1, <1>2 DEF RoutingOK, OrderOK, OneBound, InsApart
<1> QED
    BY <1>1, <1>3, <1>4, <1>5 DEF RoutingOK, ClosingOK

LEMMA SupergroupRouting ==
    ASSUME RegistryInv, RoutingOK, NEW c \in Chats, NEW d \in Chats, Supergroup(c, d)
    PROVE  RoutingOK'
<1>1. PICK m \in Update : m = [kind |-> "migrated", chat |-> c, to |-> d, by |-> Unknown]
    BY DEF Update
<1>2. m.kind = "migrated" /\ m.chat = c /\ m.to = d /\ c # d /\ platform = "telegram"
    BY <1>1 DEF Supergroup
<1>3. PICK size : size = Len(updates)
    OBVIOUS
<1>4. /\ d \notin present /\ present' = (present \ {c}) \cup {d}
      /\ updates' = Append(updates, m) /\ UNCHANGED <<platform, store, closing>>
      /\ strayed' = IF c \in strayed THEN strayed \cup {d} ELSE strayed \ {d}
      /\ ~Concerned(d) /\ \A i \in Groups : store[i].chat # d
    BY <1>1 DEF Supergroup, registry
<1>5. CollabTypeOK
    BY DEF RegistryInv
<1>6. /\ size \in Nat /\ Len(updates') = size + 1 /\ updates'[size + 1] = m
      /\ \A k \in 1 .. size : updates'[k] = updates[k]
      /\ Staying' = Staying
      /\ \A e : /\ \A k \in 0 .. size : InAt(k, e)' <=> InAt(k, e)
                /\ \A k \in 1 .. size : OutAt(k, e)' <=> OutAt(k, e)
    BY <1>3, <1>4, <1>5, OneMore
<1>7. \A e : (InAt(size + 1, e)' <=> e = d) /\ (e = c => OutAt(size + 1, e)')
    BY <1>2, <1>6 DEF InAt, OutAt, Everywhere
<1>8. ASSUME NEW e \in Chats \ strayed'
      PROVE  e \notin strayed \/ \A k \in 0 .. size : ~InAt(k, e)
    <2>1. CASE e = d
        <3>1. \A i \in Routable : store[i].chat # e
            BY <1>4, <1>5, <2>1, RegistryFacts
        <3> QED
            BY <1>3, <1>4, <1>5, <2>1, <3>1, NothingComes
    <2> QED
        BY <2>1, <1>4
<1>9. MigrationsOK'
    BY <1>2, <1>3, <1>4, <1>6 DEF RoutingOK, MigrationsOK
<1>10. \A e \in Chats \ strayed' : InAt(size + 1, e)' => e \in present' /\ e \notin present
    BY <1>4, <1>7
<1>11. \A e \in Chats \ strayed' : e \in present => e \in present' \/ OutAt(size + 1, e)'
    BY <1>4, <1>7
<1>12. UNCHANGED <<platform, store, closing>>
    BY <1>4
<1> QED
    BY <1>3, <1>6, <1>8, <1>9, <1>10, <1>11, <1>12, InAgain

\* What was in flight is lost: chats it concerned are strayed.
LEMMA RestartRouting ==
    ASSUME RegistryInv, RoutingOK, Restart
    PROVE  RoutingOK'
<1>1. PICK lost \in {{}, DOMAIN updates} :
          /\ platform = "discord" => lost = DOMAIN updates
          /\ updates' = IF lost = {} THEN updates ELSE <<>>
          /\ strayed' = strayed \cup StillBound
                \cup UNION {Everywhere(updates[k].chat) \cup {updates[k].to} : k \in lost}
    BY DEF Restart
<1>2. UNCHANGED <<platform, store, present>> /\ Routable' = Routable /\ closing' = {}
    BY DEF Restart, registry, Routable, Groups
<1>3. CollabTypeOK /\ DOMAIN updates = 1 .. Len(updates) /\ Len(updates) \in Nat
    BY UpdatesFacts DEF RegistryInv
<1>4. \A i \in Staying' : store'[i].chat \in strayed' \/ (i \in Staying /\ store'[i].chat = store[i].chat)
    BY <1>1, <1>2 DEF Staying, StillBound
<1>5. CASE lost = {}
    <2>1. updates' = updates /\ strayed \subseteq strayed'
        BY <1>1, <1>5
    <2> QED
        BY <1>2, <1>3, <1>4, <2>1, StayingKept
<1>6. CASE lost # {}
    <2>1. lost = DOMAIN updates /\ updates' = <<>> /\ Len(updates') = 0
        BY <1>1, <1>6
    <2>2. ASSUME NEW c \in Chats \ strayed'
          PROVE  c \notin strayed /\ \A j \in 1 .. Len(updates) : ~OutAt(j, c)
        BY <1>1, <1>3, <2>1 DEF OutAt
    <2>3. \A c \in Chats \ strayed' : InAt(0, c)' => InAt(0, c)
        BY <1>4 DEF InAt
    <2>4. MigrationsOK' /\ ClosingOK'
        BY <1>2, <2>1 DEF MigrationsOK, ClosingOK
    <2>5. PresenceOK'
        <3>1. ASSUME NEW c \in Chats \ strayed', InAt(0, c)
              PROVE  c \in present
            BY <1>3, <2>2, <3>1 DEF RoutingOK, PresenceOK
        <3> QED
            BY <1>2, <2>1, <2>3, <3>1 DEF PresenceOK
    <2>6. OrderOK'
        <3>1. platform = "telegram" => OneBound'
            BY <1>2, <1>4, <2>2 DEF RoutingOK, OrderOK, OneBound
        <3>2. InsApart'
            BY <2>1 DEF InsApart
        <3> QED
            BY <1>2, <3>1, <3>2 DEF OrderOK
    <2> QED
        BY <2>4, <2>5, <2>6 DEF RoutingOK
<1> QED
    BY <1>5, <1>6

\* The first update is taken: what was in before it and is not out by it, or comes in by
\* it, is in now.
LEMMA TakingKeepsRouting ==
    ASSUME CollabTypeOK, RoutingOK, NEW k, Dispatched(k), strayed \cup Overtaken(k) \subseteq strayed',
           UNCHANGED <<platform, present>>, ClosingOK',
           k = 1 =>
               \A c \in Chats \ strayed' :
                  /\ InAt(0, c)' => (InAt(0, c) /\ ~OutAt(1, c)) \/ InAt(1, c)
                  /\ platform = "telegram" =>
                        \A i, j \in Staying' : store'[i].chat = c /\ store'[j].chat = c => i = j
    PROVE  RoutingOK'
<1>1. PICK size : size = Len(updates)
    OBVIOUS
<1>2. /\ size \in Nat /\ k \in 1 .. size /\ Len(updates') = size - 1
      /\ \A j \in 1 .. size - 1 : updates'[j] = IF j < k THEN updates[j] ELSE updates[j + 1]
      /\ k # 1 => platform = "discord" /\ Chats \subseteq strayed'
    BY <1>1, DispatchedFacts DEF Overtaken
<1>3. MigrationsOK'
    BY <1>1, <1>2 DEF RoutingOK, MigrationsOK
<1>4. CASE k # 1
    BY <1>2, <1>3, <1>4 DEF RoutingOK, PresenceOK, OrderOK
<1>5. CASE k = 1
    <2>1. \A j \in 1 .. size - 1 : updates'[j] = updates[j + 1]
        BY <1>2, <1>5
    <2>2. ASSUME NEW c, NEW j \in 1 .. size - 1
          PROVE  (InAt(j, c)' <=> InAt(j + 1, c)) /\ (OutAt(j, c)' <=> OutAt(j + 1, c))
        <3>1. updates'[j] = updates[j + 1] /\ j # 0 /\ j + 1 # 0
            BY <1>2, <2>1
        <3> QED
            BY <3>1 DEF InAt, OutAt, Everywhere
    <2>3. ASSUME NEW c \in Chats \ strayed', NEW j \in 0 .. size - 1, InAt(j, c)'
          PROVE  InAt(j + 1, c) \/ (j = 0 /\ InAt(0, c) /\ ~OutAt(1, c))
        BY <1>5, <2>2, <2>3
    <2>4. PresenceOK'
        <3>1. ASSUME NEW c \in Chats \ strayed', NEW j \in 0 .. size - 1, InAt(j, c)'
              PROVE  c \in present \/ \E l \in j + 1 .. size - 1 : OutAt(l, c)'
            <4>1. CASE InAt(j + 1, c)
                <5>1. j + 1 \in 0 .. size
                    BY <1>2
                <5>2. c \in present \/ \E l \in j + 2 .. size : OutAt(l, c)
                    BY <1>1, <4>1, <5>1 DEF RoutingOK, PresenceOK
                <5>3. ASSUME NEW l \in j + 2 .. size, OutAt(l, c)
                      PROVE  \E x \in j + 1 .. size - 1 : OutAt(x, c)'
                    <6>1. l - 1 \in j + 1 .. size - 1 /\ l - 1 \in 1 .. size - 1 /\ (l - 1) + 1 = l
                        BY <1>2
                    <6> QED
                        BY <2>2, <5>3, <6>1
                <5> QED
                    BY <5>2, <5>3
            <4>2. CASE j = 0 /\ InAt(0, c) /\ ~OutAt(1, c)
                <5>1. c \in present \/ \E l \in 1 .. size : OutAt(l, c)
                    BY <1>1, <1>2, <4>2 DEF RoutingOK, PresenceOK
                <5>2. ASSUME NEW l \in 1 .. size, OutAt(l, c)
                      PROVE  \E x \in 1 .. size - 1 : OutAt(x, c)'
                    <6>1. l # 1
                        BY <4>2, <5>2
                    <6>2. l - 1 \in 1 .. size - 1 /\ (l - 1) + 1 = l
                        BY <1>2, <6>1
                    <6> QED
                        BY <2>2, <5>2, <6>2
                <5> QED
                    BY <4>2, <5>1, <5>2
            <4> QED
                BY <2>3, <3>1, <4>1, <4>2
        <3> QED
            BY <1>2, <1>5, <3>1 DEF PresenceOK
    <2>5. ASSUME platform = "telegram"
          PROVE  InsApart'
        <3>1. ASSUME NEW c \in Chats \ strayed', NEW j \in 0 .. size - 1, NEW l \in 0 .. size - 1,
                     j < l, InAt(j, c)', InAt(l, c)'
              PROVE  \E x \in j + 1 .. l - 1 : OutAt(x, c)'
            <4>1. l \in 1 .. size - 1 /\ l + 1 \in 0 .. size
                BY <1>2, <3>1
            <4>2. InAt(l + 1, c)
                BY <2>2, <3>1, <4>1
            <4>3. ASSUME NEW x \in j + 2 .. l, OutAt(x, c)
                  PROVE  \E y \in j + 1 .. l - 1 : OutAt(y, c)'
                <5>1. x - 1 \in j + 1 .. l - 1 /\ x - 1 \in 1 .. size - 1 /\ (x - 1) + 1 = x
                    BY <1>2, <3>1
                <5> QED
                    BY <2>2, <4>3, <5>1
            <4>4. CASE InAt(j + 1, c)
                <5>1. j + 1 \in 0 .. size /\ j + 1 < l + 1
                    BY <1>2, <3>1
                <5>2. \E x \in j + 2 .. l : OutAt(x, c)
                    BY <1>1, <2>5, <4>1, <4>2, <4>4, <5>1 DEF RoutingOK, OrderOK, InsApart
                <5> QED
                    BY <4>3, <5>2
            <4>5. CASE j = 0 /\ InAt(0, c) /\ ~OutAt(1, c)
                <5>1. \E x \in 1 .. l : OutAt(x, c)
                    BY <1>1, <1>2, <2>5, <4>1, <4>2, <4>5 DEF RoutingOK, OrderOK, InsApart
                <5>2. \E x \in 2 .. l : OutAt(x, c)
                    BY <4>5, <5>1
                <5> QED
                    BY <4>3, <4>5, <5>2
            <4> QED
                BY <2>3, <3>1, <4>4, <4>5
        <3> QED
            BY <1>2, <1>5, <3>1 DEF InsApart
    <2>6. platform = "telegram" => OneBound'
        BY <1>2, <1>5 DEF OneBound
    <2> QED
        BY <1>3, <2>4, <2>5, <2>6 DEF RoutingOK, OrderOK
<1> QED
    BY <1>4, <1>5

\* The bot is in: the update binds a group that was not routed before, if any.
LEMMA BindingKeepsRouting ==
    ASSUME CollabTypeOK, RoutingOK, NEW k, Taken(k), UNCHANGED <<platform, present, closing>>,
           updates[k].kind = "added", NEW i, i \notin Routable, Routable' \subseteq Routable \cup {i},
           i \in Routable' => store'[i].chat = updates[k].chat,
           \A j \in Routable : store'[j].chat = store[j].chat
    PROVE  RoutingOK'
<1>1. Dispatched(k) /\ strayed \cup Overtaken(k) \subseteq strayed' /\ ClosingOK'
    BY TakenFacts DEF RoutingOK, ClosingOK
<1>2. /\ i \notin Staying /\ Staying' \subseteq Staying \cup {i}
      /\ i \in Staying' => store'[i].chat = updates[k].chat
      /\ \A j \in Staying : store'[j].chat = store[j].chat
    BY DEF Staying
<1>3. CASE k # 1
    BY <1>1, <1>3, TakingKeepsRouting
<1>4. CASE k = 1
    <2>1. 1 \in 0 .. Len(updates) /\ 0 \in 0 .. Len(updates) /\ updates[1].kind = "added"
        BY <1>1, <1>4, DispatchedFacts
    <2>2. ASSUME NEW c \in Chats \ strayed', InAt(0, c)'
          PROVE  (InAt(0, c) /\ ~OutAt(1, c)) \/ InAt(1, c)
        <3>1. PICK j \in Staying' : store'[j].chat = c
            BY <2>2 DEF InAt
        <3>2. CASE j = i
            BY <1>2, <1>4, <2>1, <3>1, <3>2 DEF InAt
        <3>3. CASE j # i
            <4>1. j \in Staying /\ store[j].chat = c
                BY <1>2, <3>1, <3>3
            <4> QED
                BY <2>1, <4>1 DEF InAt, OutAt
        <3> QED
            BY <3>2, <3>3
    <2>3. ASSUME platform = "telegram", NEW c \in Chats \ strayed', NEW j \in Staying, store[j].chat = c
          PROVE  c # updates[1].chat
        <3>1. InAt(0, c)
            BY <2>3 DEF InAt
        <3>2. ~InAt(1, c)
            BY <1>1, <2>1, <2>3, <3>1 DEF RoutingOK, OrderOK, InsApart
        <3> QED
            BY <2>1, <3>2 DEF InAt
    <2>4. ASSUME platform = "telegram", NEW c \in Chats \ strayed', NEW j \in Staying', NEW l \in Staying',
                 store'[j].chat = c, store'[l].chat = c
          PROVE  j = l
        <3>1. CASE j \in Staying /\ l \in Staying
            BY <1>1, <1>2, <2>4, <3>1 DEF RoutingOK, OrderOK, OneBound
        <3>2. CASE j \in Staying /\ l = i
            BY <1>2, <1>4, <2>3, <2>4, <3>2
        <3>3. CASE j = i /\ l \in Staying
            BY <1>2, <1>4, <2>3, <2>4, <3>3
        <3> QED
            BY <1>2, <2>4, <3>1, <3>2, <3>3
    <2> QED
        BY <1>1, <2>2, <2>4, TakingKeepsRouting
<1> QED
    BY <1>3, <1>4

LEMMA BotAddedUnauthorisedRouting ==
    ASSUME RegistryInv, RoutingOK, NEW k, BotAddedUnauthorised(k)
    PROVE  RoutingOK'
<1>1. Taken(k) /\ updates[k].kind = "added" /\ UNCHANGED <<platform, present, closing, store>>
    BY DEF BotAddedUnauthorised, registry
<1>2. Routable' = Routable /\ 0 \notin Routable
    BY <1>1, RecordsFacts DEF Routable, Groups, RegistryInv
<1> QED
    BY <1>1, <1>2, BindingKeepsRouting DEF RegistryInv

LEMMA BotAddedAnnouncedRouting ==
    ASSUME RegistryInv, RoutingOK, NEW k, BotAddedAnnounced(k)
    PROVE  RoutingOK'
<1>1. PICK u : u = updates[k].by
    OBVIOUS
<1>2. PICK c : c = updates[k].chat
    OBVIOUS
<1>3. PICK i : i = Max(PendingFor(u))
    OBVIOUS
<1>4. /\ Taken(k) /\ updates[k].kind = "added" /\ IsAuthorisedAdder(u) /\ PendingFor(u) # {}
      /\ UpdateChatId(i, c, u) /\ UNCHANGED <<platform, present, closing>> /\ CollabTypeOK
    BY <1>1, <1>2, <1>3 DEF BotAddedAnnounced, RegistryInv
<1>5. u \in Users /\ c \in Chats /\ i \in Groups /\ i \notin Routable
    BY <1>1, <1>2, <1>3, <1>4, AddedFacts, PendingFacts
<1>6. /\ Groups' = Groups /\ \A j \in Groups \ {i} : store'[j] = store[j]
      /\ store'[i].chat = c
    BY <1>4, <1>5, BoundRecord
<1>7. Routable' \subseteq Routable \cup {i} /\ \A j \in Routable : store'[j].chat = store[j].chat
    BY <1>5, <1>6 DEF Routable
<1> QED
    BY <1>2, <1>4, <1>5, <1>6, <1>7, BindingKeepsRouting

\* The group set up on the spot, whole or cut short.
LEMMA SetupKeepsRouting ==
    ASSUME CollabTypeOK, RoutingOK, NEW k, Taken(k), UNCHANGED <<platform, present, closing>>,
           updates[k].kind = "added", NEW n \in Names, NEW u \in Users, updates[k].chat \in Chats,
           store' = Append(store, SetupRecord(n, updates[k].chat, u))
    PROVE  RoutingOK'
<1>1. PICK c \in Chats : c = updates[k].chat
    OBVIOUS
<1>2. PICK i : i = Len(store) + 1
    OBVIOUS
<1>3. /\ i \notin Groups /\ Groups' = Groups \cup {i}
      /\ \A j \in Groups : store'[j] = store[j]
      /\ store'[i].chat = c
    BY <1>1, <1>2, SetupAppended
<1>4. /\ i \notin Routable /\ Routable' \subseteq Routable \cup {i}
      /\ \A j \in Routable : store'[j].chat = store[j].chat
    BY <1>3 DEF Routable
<1> QED
    BY <1>1, <1>3, <1>4, BindingKeepsRouting

LEMMA BotAddedSetupRouting ==
    ASSUME RegistryInv, RoutingOK, NEW k, BotAddedSetup(k) \/ BotAddedCut(k)
    PROVE  RoutingOK'
<1>1. PICK u : u = updates[k].by
    OBVIOUS
<1>2. PICK n : n = FreshName
    OBVIOUS
<1>3. /\ Taken(k) /\ updates[k].kind = "added" /\ IsAuthorisedAdder(u) /\ agents # Names
      /\ UNCHANGED <<platform, present, closing>> /\ CollabTypeOK
      /\ \/ store' = store
         \/ store' = Append(store, SetupRecord(n, updates[k].chat, u))
    BY <1>1, <1>2 DEF BotAddedSetup, BotAddedCut, registry, RegistryInv
<1>4. u \in Users /\ updates[k].chat \in Chats /\ n \in Names
    BY <1>1, <1>2, <1>3, AddedFacts, FreshIsFree DEF CollabTypeOK
<1>5. CASE store' = store
    <2>1. Routable' = Routable /\ 0 \notin Routable
        BY <1>3, <1>5, RecordsFacts DEF Routable, Groups
    <2> QED
        BY <1>3, <1>5, <2>1, BindingKeepsRouting
<1>6. CASE store' = Append(store, SetupRecord(n, updates[k].chat, u))
    BY <1>3, <1>4, <1>6, SetupKeepsRouting
<1> QED
    BY <1>3, <1>5, <1>6

\* On Telegram a removal concerns one group, the one its chat is routed to.
LEMMA RoutedIsAffected ==
    ASSUME CollabTypeOK, platform # "discord", NEW c, NEW i \in Routable, store[i].chat = c
    PROVE  Routed(c) \in Affected(c) \cap Routable /\ store[Routed(c)].chat = c
<1>1. i \in Nat /\ i # 0 /\ i <= Routed(c) /\ Routed(c) \in Routable \cup {0}
    BY RoutedIsBound, RecordsFacts, RegistryFacts DEF CollabTypeOK
<1>2. Routed(c) # 0
    BY <1>1
<1> QED
    BY <1>1, <1>2, RoutedIsBound DEF CollabTypeOK, Affected

\* On Telegram it is closed at once, and nothing is left for later.
LEMMA OneIsEarliest ==
    ASSUME CollabTypeOK, platform # "discord", NEW c
    PROVE  Earliest(Affected(c)) = {Routed(c)} /\ Affected(c) = {Routed(c)}
<1>1. Affected(c) = {Routed(c)}
    BY DEF Affected
<1>2. Routed(c) \in Nat
    BY <1>1, AffectedAreGroups
<1>3. Routed(c) <= Routed(c)
    BY <1>2
<1> QED
    BY <1>1, <1>3 DEF Earliest

LEMMA BotRemovedRouting ==
    ASSUME RegistryInv, RoutingOK, NEW k, BotRemoved(k)
    PROVE  RoutingOK'
<1>1. PICK ids : /\ ids = Affected(updates[k].chat) /\ CloseGroups(Earliest(ids))
                 /\ closing' = closing \cup (ids \ Earliest(ids))
    BY DEF BotRemoved
<1>2. /\ Taken(k) /\ updates[k].kind = "removed" /\ CollabTypeOK /\ RegistryOK
      /\ UNCHANGED <<platform, present, agents, link, file, agentless, clobbered>>
    BY DEF BotRemoved, RegistryInv
<1>3. Routable' = Routable \ Earliest(ids) /\ \A i \in Routable' : store'[i] = store[i]
    BY <1>1, <1>2, CloseGroupsKeeps
<1>4. Dispatched(k) /\ strayed \cup Overtaken(k) \subseteq strayed'
    BY <1>2, TakenFacts
<1>5. CASE platform = "discord"
    <2>1. Staying' = {}
        BY <1>1, <1>3, <1>5 DEF Staying, Affected, Peers
    <2>2. ClosingOK'
        BY <1>2, <1>5 DEF ClosingOK
    <2> QED
        BY <1>2, <1>4, <1>5, <2>1, <2>2, TakingKeepsRouting DEF InAt
<1>6. CASE platform # "discord"
    <2>1. platform = "telegram" /\ closing = {}
        BY <1>2, <1>6 DEF CollabTypeOK, RoutingOK, ClosingOK
    <2>2. k = 1
        BY <1>2, <1>6, TakenFacts
    <2>3. Earliest(ids) = {Routed(updates[1].chat)} /\ ids = Earliest(ids)
        BY <1>1, <1>2, <1>6, <2>2, OneIsEarliest
    <2>4. closing' = {} /\ ClosingOK'
        BY <1>1, <2>1, <2>3 DEF ClosingOK
    <2>5. \A i \in Staying' : i \in Staying /\ i # Routed(updates[1].chat) /\ store'[i] = store[i]
        BY <1>3, <2>1, <2>3, <2>4 DEF Staying
    <2>6. OneBound
        BY <2>1 DEF RoutingOK, OrderOK
    <2>7. ASSUME NEW c \in Chats \ strayed', InAt(0, c)'
          PROVE  InAt(0, c) /\ ~OutAt(1, c)
        <3>1. PICK i \in Staying' : store'[i].chat = c
            BY <2>7 DEF InAt
        <3>2. i \in Staying /\ i # Routed(updates[1].chat) /\ store[i].chat = c /\ c \notin strayed
            BY <1>4, <2>5, <3>1
        <3>3. ASSUME c = updates[1].chat
              PROVE  FALSE
            <4>1. Routed(c) \in Staying /\ store[Routed(c)].chat = c
                BY <1>2, <1>6, <2>1, <3>2, RoutedIsAffected DEF Staying
            <4> QED
                BY <2>6, <3>2, <3>3, <4>1 DEF OneBound
        <3> QED
            BY <1>6, <3>2, <3>3 DEF InAt, OutAt, Everywhere
    <2>8. ASSUME NEW c \in Chats \ strayed', NEW i \in Staying', NEW j \in Staying',
                 store'[i].chat = c, store'[j].chat = c
          PROVE  i = j
        BY <1>4, <2>5, <2>6, <2>8 DEF OneBound
    <2> QED
        BY <1>2, <1>4, <2>4, <2>7, <2>8, TakingKeepsRouting
<1> QED
    BY <1>5, <1>6

\* The next group of a removal is closed: it did not count any more.
LEMMA CloseNextRouting ==
    ASSUME RegistryInv, RoutingOK, NEW i \in closing, CloseNext(i)
    PROVE  RoutingOK'
<1>1. /\ UNCHANGED <<platform, updates, present, strayed, agents, link, file, agentless, clobbered>>
      /\ CloseGroups({i}) /\ closing' = closing \ {i} /\ CollabTypeOK /\ RegistryOK
    BY DEF CloseNext, RegistryInv
<1>2. Routable' = Routable \ {i} /\ \A j \in Routable' : store'[j] = store[j]
    BY <1>1, CloseGroupsKeeps
<1>3. \A j \in Staying' : j \in Staying /\ store'[j].chat = store[j].chat
    BY <1>1, <1>2 DEF Staying
<1> QED
    BY <1>1, <1>3, StayingKept

\* The groups a removal could not close are strayed with their chats.
LEMMA CloseFailsRouting ==
    ASSUME RegistryInv, RoutingOK, CloseFails
    PROVE  RoutingOK'
<1>1. /\ UNCHANGED <<platform, store, present>> /\ CollabTypeOK
      /\ Routable' = Routable
    BY DEF CloseFails, registry, RegistryInv, Routable, Groups
<1>2. ASSUME NEW k \in DOMAIN updates, Dispatched(k), updates[k].kind = "removed",
             strayed' = strayed \cup Overtaken(k)
                 \cup {store[i].chat : i \in Affected(updates[k].chat) \cap Routable},
             closing' = closing
      PROVE  RoutingOK'
    <2>1. Staying' = Staying /\ ClosingOK'
        BY <1>1, <1>2 DEF Staying, RoutingOK, ClosingOK
    <2>2. ASSUME k = 1, NEW c \in Chats \ strayed', InAt(0, c)'
          PROVE  InAt(0, c) /\ ~OutAt(1, c)
        <3>1. PICK i \in Routable : i \in Staying /\ store[i].chat = c
            BY <1>1, <2>1, <2>2 DEF InAt, Staying
        <3>2. platform # "discord"
            BY <1>2, <2>2, <3>1 DEF Affected, Peers
        <3>3. c # updates[1].chat
            <4>1. ASSUME c = updates[1].chat
                  PROVE  FALSE
                <5>1. Routed(c) \in Affected(c) \cap Routable /\ store[Routed(c)].chat = c
                    BY <1>1, <3>1, <3>2, RoutedIsAffected
                <5> QED
                    BY <1>2, <2>2, <4>1, <5>1
            <4> QED
                BY <4>1
        <3> QED
            BY <3>1, <3>2, <3>3 DEF InAt, OutAt, Everywhere
    <2>3. ASSUME platform = "telegram", NEW c \in Chats \ strayed', NEW i \in Staying', NEW j \in Staying',
                 store'[i].chat = c, store'[j].chat = c
          PROVE  i = j
        BY <1>1, <1>2, <2>1, <2>3 DEF RoutingOK, OrderOK, OneBound
    <2>4. strayed \cup Overtaken(k) \subseteq strayed'
        BY <1>2
    <2> QED
        BY <1>1, <1>2, <2>1, <2>2, <2>3, <2>4, TakingKeepsRouting
<1>3. CASE closing' = {} /\ strayed' = strayed \cup StillBound /\ updates' = updates
    <2>1. \A i \in Staying' : store'[i].chat \in strayed' \/ (i \in Staying /\ store'[i].chat = store[i].chat)
        BY <1>1, <1>3 DEF Staying, StillBound
    <2> QED
        BY <1>1, <1>3, <2>1, StayingKept
<1> QED
    BY <1>2, <1>3 DEF CloseFails

LEMMA BotMigratedRouting ==
    ASSUME RegistryInv, RoutingOK, NEW k, BotMigrated(k)
    PROVE  RoutingOK'
<1>1. PICK from : from = updates[k].chat
    OBVIOUS
<1>2. PICK to : to = updates[k].to
    OBVIOUS
<1>3. PICK i : i = Routed(from)
    OBVIOUS
<1>4. /\ Taken(k) /\ updates[k].kind = "migrated" /\ CollabTypeOK /\ RegistryOK
      /\ UNCHANGED <<platform, present, closing, agents, link, file, agentless, clobbered>>
      /\ store' = IF i = 0 THEN store ELSE [store EXCEPT ![i].chat = to]
    BY <1>1, <1>2, <1>3 DEF BotMigrated, RegistryInv
<1>5. k \in 1 .. Len(updates) /\ updates[k] \in Update /\ Len(updates) \in Nat
    BY <1>4, TakenFacts
<1>6. platform = "telegram" /\ from # to /\ from \in Chats /\ to \in Chats
    BY <1>1, <1>2, <1>4, <1>5 DEF RoutingOK, MigrationsOK, Update
<1>7. /\ k = 1 /\ 1 \in 0 .. Len(updates) /\ 0 \in 0 .. Len(updates)
      /\ Dispatched(k) /\ strayed \cup Overtaken(k) \subseteq strayed'
      /\ closing = {} /\ ClosingOK' /\ Staying = Routable /\ Staying' = Routable'
    BY <1>4, <1>5, <1>6, TakenFacts DEF RoutingOK, ClosingOK, Staying
<1>8. \A c : (InAt(1, c) <=> c = to) /\ (OutAt(1, c) <=> c = from)
    BY <1>1, <1>2, <1>4, <1>6, <1>7 DEF InAt, OutAt, Everywhere
<1>9. \A j \in Routable : store[j].chat = from => i # 0 /\ i \in Routable /\ store[i].chat = from
    <2>1. ASSUME NEW j \in Routable, store[j].chat = from
          PROVE  i # 0
        <3>1. j \in Nat /\ j # 0 /\ j <= i
            BY <1>3, <1>4, <2>1, RoutedIsBound, RecordsFacts, RegistryFacts DEF CollabTypeOK
        <3> QED
            BY <3>1
    <2>2. i \in Routable \cup {0} /\ (i # 0 => store[i].chat = from)
        BY <1>3, <1>4, RoutedIsBound DEF CollabTypeOK
    <2> QED
        BY <2>1, <2>2
<1>10. \A c \in Chats \ strayed' : \A j, l \in Routable : store[j].chat = c /\ store[l].chat = c => j = l
    BY <1>6, <1>7 DEF RoutingOK, OrderOK, OneBound
<1>11. ASSUME NEW c \in Chats \ strayed', NEW j \in Routable, store[j].chat = c
       PROVE  c # to
    <2>1. InAt(0, c)
        BY <1>7, <1>11 DEF InAt
    <2> QED
        BY <1>6, <1>7, <1>8, <2>1 DEF RoutingOK, OrderOK, InsApart
<1>12. CASE i = 0
    <2>1. Routable' = Routable /\ store' = store
        BY <1>4, <1>12 DEF Routable, Groups
    <2>2. ASSUME NEW c \in Chats \ strayed', InAt(0, c)'
          PROVE  InAt(0, c) /\ ~OutAt(1, c)
        <3>1. InAt(0, c)
            BY <1>7, <2>1, <2>2 DEF InAt
        <3>2. \E j \in Routable : store[j].chat = c
            BY <1>7, <3>1 DEF InAt
        <3> QED
            BY <1>8, <1>9, <1>12, <3>1, <3>2
    <2>3. \A c \in Chats \ strayed' : \A j, l \in Routable' : store'[j].chat = c /\ store'[l].chat = c => j = l
        BY <1>10, <2>1
    <2> QED
        BY <1>4, <1>7, <2>2, <2>3, TakingKeepsRouting
<1>13. CASE i # 0
    <2>1. i \in Routable
        BY <1>3, <1>4, <1>13, RoutedIsBound DEF CollabTypeOK
    <2>2. /\ Routable' = Routable /\ Routable \subseteq Groups
          /\ store'[i].chat = to /\ \A j \in Groups \ {i} : store'[j] = store[j]
        BY <1>4, <1>6, <1>13, <2>1, MovedKeeps, RegistryFacts
    <2>3. ASSUME NEW c \in Chats \ strayed', NEW j \in Routable', store'[j].chat = c
          PROVE  \/ j = i /\ c = to
                 \/ j \in Routable \ {i} /\ store[j].chat = c
        BY <2>2, <2>3
    <2>4. ASSUME NEW c \in Chats \ strayed', InAt(0, c)'
          PROVE  (InAt(0, c) /\ ~OutAt(1, c)) \/ InAt(1, c)
        <3>1. PICK j \in Routable' : store'[j].chat = c
            BY <1>7, <2>4 DEF InAt
        <3>2. CASE j = i /\ c = to
            BY <1>8, <3>2
        <3>3. CASE j \in Routable \ {i} /\ store[j].chat = c
            <4>1. InAt(0, c)
                BY <1>7, <3>3 DEF InAt
            <4>2. c # from
                BY <1>9, <1>10, <3>3
            <4> QED
                BY <1>8, <4>1, <4>2
        <3> QED
            BY <2>3, <3>1, <3>2, <3>3
    <2>5. ASSUME NEW c \in Chats \ strayed', NEW j \in Routable', NEW l \in Routable',
                 store'[j].chat = c, store'[l].chat = c
          PROVE  j = l
        <3>1. (j = i /\ c = to) \/ (j \in Routable \ {i} /\ store[j].chat = c)
            BY <2>3, <2>5
        <3>2. (l = i /\ c = to) \/ (l \in Routable \ {i} /\ store[l].chat = c)
            BY <2>3, <2>5
        <3> QED
            BY <1>10, <1>11, <3>1, <3>2
    <2> QED
        BY <1>4, <1>7, <2>4, <2>5, TakingKeepsRouting
<1> QED
    BY <1>12, <1>13

LEMMA DepartRouting ==
    ASSUME RegistryInv, RoutingOK, NEW c \in Chats, Depart(c) \/ RefuseAndLeave(c)
    PROVE  RoutingOK'
<1>1. PICK m \in Update : m = [kind |-> "removed", chat |-> c, to |-> c, by |-> Unknown]
    BY DEF Update
<1>2. m.kind = "removed" /\ m.chat = c
    BY <1>1
<1>3. CollabTypeOK /\ UNCHANGED <<platform, store, strayed, closing>>
    BY DEF Depart, RefuseAndLeave, registry, RegistryInv
<1>4. \/ UNCHANGED <<present, updates>>
      \/ present' = present \ Everywhere(c) /\ updates' = Append(updates, m)
    BY <1>1 DEF Depart, RefuseAndLeave
<1>5. CASE UNCHANGED <<present, updates>>
    <2>1. Routable' = Routable
        BY <1>3 DEF Routable, Groups
    <2> QED
        BY <1>3, <1>5, <2>1, RoutingKept
<1>6. CASE present' = present \ Everywhere(c) /\ updates' = Append(updates, m)
    BY <1>2, <1>3, <1>6, LeavingKeepsRouting
<1> QED
    BY <1>4, <1>5, <1>6

LEMMA AnnounceRouting ==
    ASSUME RegistryInv, RoutingOK, NEW n \in Names, NEW u \in Users,
           NEW target \in {"telegram", platform}, Announce(n, u, target)
    PROVE  RoutingOK'
<1>1. PICK r : r = [name |-> n, chat |-> NoChat, status |-> "pending", by |-> u,
                    announced |-> TRUE, target |-> target, roles |-> OwnedBy(u)]
    OBVIOUS
<1>2. r \in Record /\ r.chat = NoChat
    BY <1>1, OwnersAreRoles DEF Record, RegistryInv, CollabTypeOK
<1>3. CollabTypeOK /\ UNCHANGED <<platform, updates, present, strayed, closing>>
    BY DEF Announce, RegistryInv
<1>4. store' = store \/ store' = Append(store, r)
    BY <1>1 DEF Announce
<1>5. CASE store' = store
    <2>1. Routable' = Routable
        BY <1>5 DEF Routable, Groups
    <2> QED
        BY <1>3, <1>5, <2>1, RoutingKept
<1>6. CASE store' = Append(store, r)
    <2>1. PICK i : i = Len(store) + 1
        OBVIOUS
    <2>2. /\ i \notin Groups /\ Groups' = Groups \cup {i} /\ store'[i] = r
          /\ \A j \in Groups : store'[j] = store[j]
        BY <1>2, <1>3, <1>6, <2>1, OneAppended
    <2>3. \A j \in Routable' : j \in Routable /\ store'[j].chat = store[j].chat
        BY <1>2, <2>2 DEF Routable
    <2> QED
        BY <1>3, <2>3, RoutingKept
<1> QED
    BY <1>4, <1>5, <1>6

LEMMA RolesRouting ==
    ASSUME RegistryInv, RoutingOK, NEW u \in Users, NEW v \in Users, NEW c \in Chats,
           Promote(u, v, c) \/ Demote(u, v, c)
    PROVE  RoutingOK'
<1>1. PICK i : i = Routed(c)
    OBVIOUS
<1>2. PICK role \in Roles : SetRole(i, v, role)
    BY <1>1 DEF Promote, Demote, Roles
<1>3. /\ UNCHANGED <<platform, updates, present, strayed, closing, agents, link, file, agentless, clobbered>>
      /\ CollabTypeOK /\ RegistryOK /\ Says(u, c)
    BY DEF Promote, Demote, RegistryInv
<1>4. i \in Groups
    BY <1>1, <1>3, SaysFacts
<1>5. Routable' = Routable /\ \A j \in Groups : store'[j].chat = store[j].chat
    BY <1>2, <1>3, <1>4, SetRoleKeeps
<1>6. Routable \subseteq Groups
    BY <1>3, RegistryFacts
<1> QED
    BY <1>3, <1>5, <1>6, RoutingKept

LEMMA CloseGroupRouting ==
    ASSUME RegistryInv, RoutingOK, NEW u \in Users, NEW c \in Chats, CloseGroup(u, c)
    PROVE  RoutingOK'
<1>1. PICK ids : CloseGroups(ids)
    BY DEF CloseGroup
<1>2. /\ UNCHANGED <<platform, updates, present, strayed, closing, agents, link, file, agentless, clobbered>>
      /\ CollabTypeOK /\ RegistryOK
    BY DEF CloseGroup, RegistryInv
<1>3. Routable' = Routable \ ids /\ \A i \in Routable' : store'[i] = store[i]
    BY <1>1, <1>2, CloseGroupsKeeps
<1> QED
    BY <1>2, <1>3, RoutingKept

\* Closing an agent, a message and the end of a turn bind nothing.
LEMMA TurnsRouting ==
    ASSUME RegistryInv, RoutingOK,
           \/ \E n \in Names : CloseWorkspace(n)
           \/ \E u \in Users, c \in Chats : Message(u, c)
           \/ \E t \in turns : EndTurn(t)
    PROVE  RoutingOK'
<1>1. UNCHANGED <<platform, updates, present, strayed, closing>> /\ CollabTypeOK /\ RegistryOK
    BY DEF CloseWorkspace, Message, EndTurn, registry, RegistryInv
<1>2. store' = store \/ \E t \in turns : SetupComplete(t)
    BY DEF CloseWorkspace, Message, EndTurn, registry
<1>3. CASE store' = store
    <2>1. Routable' = Routable
        BY <1>3 DEF Routable, Groups
    <2> QED
        BY <1>1, <1>3, <2>1, RoutingKept
<1>4. CASE \E t \in turns : SetupComplete(t)
    <2>1. PICK t \in turns : SetupComplete(t)
        BY <1>4
    <2>2. Routable' = Routable /\ \A j \in Groups : store'[j].chat = store[j].chat
        BY <1>1, <2>1, SetupIsItsOwn
    <2>3. Routable \subseteq Groups
        BY <1>1, RegistryFacts
    <2> QED
        BY <1>1, <2>2, <2>3, RoutingKept
<1> QED
    BY <1>2, <1>3, <1>4

LEMMA ImTheOwnerRouting ==
    ASSUME RegistryInv, RoutingOK, NEW u \in Users, NEW c \in Chats, NEW i \in Groups,
           ImTheOwner(u, c, i)
    PROVE  RoutingOK'
<1>1. /\ platform = "discord" /\ c \in present /\ store[i].status = "pending"
      /\ UpdateChatId(i, c, u) /\ UNCHANGED <<platform, updates, present, strayed, closing>>
      /\ CollabTypeOK
    BY DEF ImTheOwner, RegistryInv
<1>2. /\ Groups' = Groups /\ \A j \in Groups \ {i} : store'[j] = store[j]
      /\ store'[i].chat = c
    BY <1>1, BoundRecord
<1>3. \A k, d : OutAt(k, d)' <=> OutAt(k, d)
    BY <1>1 DEF OutAt, Everywhere
<1>4. ASSUME NEW k, NEW d, InAt(k, d)'
      PROVE  InAt(k, d) \/ d = c
    <2>1. CASE k = 0
        <3>1. PICK j \in Staying' : store'[j].chat = d
            BY <1>4, <2>1 DEF InAt
        <3>2. CASE j # i
            <4>1. j \in Staying /\ store[j].chat = d
                BY <1>1, <1>2, <3>1, <3>2 DEF Staying, Routable
            <4> QED
                BY <2>1, <4>1 DEF InAt
        <3> QED
            BY <1>2, <3>1, <3>2
    <2>2. CASE k # 0
        BY <1>1, <1>4, <2>2 DEF InAt
    <2> QED
        BY <2>1, <2>2
<1>5. MigrationsOK'
    BY <1>1 DEF RoutingOK, MigrationsOK
<1>6. PresenceOK'
    BY <1>1, <1>3, <1>4 DEF RoutingOK, PresenceOK
<1>7. OrderOK' /\ ClosingOK'
    BY <1>1 DEF OrderOK, ClosingOK
<1> QED
    BY <1>5, <1>6, <1>7 DEF RoutingOK

-----------------------------------------------------------------------------
(***************************************************************************)
(* Every reachable state.                                                   *)
(***************************************************************************)
CollabInv == RegistryInv /\ RoutingOK

\* A registry that is empty, or holds the one group of an earlier release.
LEMMA CollabStarts == CollabInit => CollabInv
<1> SUFFICES ASSUME CollabInit
             PROVE  CollabInv
    OBVIOUS
<1>1. /\ platform \in {"telegram", "discord"} /\ updates = <<>> /\ refusing = {} /\ turns = {}
      /\ closing = {} /\ strayed = {} /\ agentless = {} /\ clobbered = {}
    BY DEF CollabInit
<1>2. Len(updates) = 0 /\ updates \in Seq(Update)
    BY <1>1, EmptySeq
<1>3. CASE /\ store = <<>> /\ agents = {} /\ present = {}
           /\ link = [n \in Names |-> 0]
           /\ file = [n \in Names |-> [of |-> 0, text |-> "none"]]
    <2>1. store \in Seq(Record) /\ Groups = {} /\ Routable = {}
        BY <1>3, EmptySeq DEF Groups, Routable
    <2>2. CollabTypeOK
        BY <1>1, <1>2, <1>3, <2>1 DEF CollabTypeOK
    <2>3. RegistryOK
        BY <1>1, <1>3, <2>1 DEF RegistryOK, AnnouncedOK, LinkOK, NamesakesOK, InstructionsOK, GroupsKnowTheirAgent
    <2>4. RoutingOK
        BY <1>1, <1>2, <2>1
           DEF RoutingOK, MigrationsOK, PresenceOK, OrderOK, OneBound, InsApart, ClosingOK, InAt, Staying
    <2> QED
        BY <2>2, <2>3, <2>4 DEF CollabInv, RegistryInv
<1>4. ASSUME NEW c \in Chats, NEW v \in Users, NEW n, n = Min(Names), NEW r,
             r = [name |-> n, chat |-> c, status |-> "active", by |-> Owner,
                  announced |-> FALSE, target |-> "telegram",
                  roles |-> [OwnedBy(Owner) EXCEPT ![v] = "participant"]],
             store = <<r>>, agents = {n}, present = Everywhere(c),
             link = [m \in Names |-> IF m = n THEN 1 ELSE 0],
             file = [m \in Names |-> IF m = n THEN [of |-> 1, text |-> "purpose"]
                                              ELSE [of |-> 0, text |-> "none"]]
      PROVE  CollabInv
    <2>1. n \in Names
        BY <1>4, LeastNumber, CollaborativeAssumption
    <2>2. r \in Record
        <3>1. [OwnedBy(Owner) EXCEPT ![v] = "participant"] \in [Users -> Roles]
            BY OwnersAreRoles, CollaborativeAssumption DEF Roles
        <3> QED
            BY <1>4, <2>1, <3>1, CollaborativeAssumption DEF Record
    <2>3. r.name = n /\ r.chat = c /\ r.status = "active" /\ r.announced = FALSE /\ c # NoChat
        BY <1>4, CollaborativeAssumption
    <2>4. store \in Seq(Record) /\ Groups = {1} /\ store[1] = r
        BY <1>4, <2>2 DEF Groups
    <2>5. Routable = {1}
        BY <2>3, <2>4 DEF Routable
    <2>6. CollabTypeOK
        BY <1>1, <1>2, <1>4, <2>1, <2>3, <2>4 DEF CollabTypeOK, Everywhere
    <2>7. RegistryOK
        BY <1>1, <1>4, <2>1, <2>3, <2>4, <2>5
           DEF RegistryOK, AnnouncedOK, LinkOK, NamesakesOK, InstructionsOK, GroupsKnowTheirAgent
    <2>8. \A d : InAt(0, d) => d = c
        BY <2>3, <2>4, <2>5 DEF InAt, Staying
    <2>9. RoutingOK
        BY <1>1, <1>2, <1>4, <2>5, <2>8
           DEF RoutingOK, MigrationsOK, PresenceOK, OrderOK, OneBound, InsApart, ClosingOK, Staying, Everywhere
    <2> QED
        BY <2>6, <2>7, <2>9 DEF CollabInv, RegistryInv
<1> QED
    BY <1>3, <1>4 DEF CollabInit

\* Every step of the bot and of the chats keeps the invariant.
LEMMA CollabStep == CollabInv /\ [CollabNext]_collabVars => CollabInv'
<1> SUFFICES ASSUME CollabInv, [CollabNext]_collabVars
             PROVE  CollabInv'
    OBVIOUS
<1>1. RegistryInv /\ RoutingOK
    BY DEF CollabInv
<1>2. CASE Handle
    <2>1. CASE \E k \in 1 .. MaxUpdates : BotAddedUnauthorised(k)
        BY <1>1, <2>1, BotAddedUnauthorisedRegistry, BotAddedUnauthorisedRouting DEF CollabInv
    <2>2. CASE \E k \in 1 .. MaxUpdates : BotAddedAnnounced(k)
        BY <1>1, <2>2, BotAddedAnnouncedRegistry, BotAddedAnnouncedRouting DEF CollabInv
    <2>3. CASE \E k \in 1 .. MaxUpdates : BotAddedSetup(k)
        BY <1>1, <2>3, BotAddedSetupRegistry, BotAddedSetupRouting DEF CollabInv
    <2>4. CASE \E k \in 1 .. MaxUpdates : BotAddedCut(k)
        BY <1>1, <2>4, BotAddedCutRegistry, BotAddedSetupRouting DEF CollabInv
    <2>5. CASE \E k \in 1 .. MaxUpdates : BotRemoved(k)
        BY <1>1, <2>5, BotRemovedRegistry, BotRemovedRouting DEF CollabInv
    <2>6. CASE \E k \in 1 .. MaxUpdates : BotMigrated(k)
        BY <1>1, <2>6, BotMigratedRegistry, BotMigratedRouting DEF CollabInv
    <2>7. CASE \E c \in Chats : RefuseAndLeave(c)
        BY <1>1, <2>7, RefuseAndLeaveRegistry, DepartRouting DEF CollabInv
    <2>8. CASE \E i \in closing : CloseNext(i)
        BY <1>1, <2>8, CloseNextRegistry, CloseNextRouting DEF CollabInv
    <2>9. CASE CloseFails
        BY <1>1, <2>9, CloseFailsRegistry, CloseFailsRouting DEF CollabInv
    <2> QED
        BY <1>2, <2>1, <2>2, <2>3, <2>4, <2>5, <2>6, <2>7, <2>8, <2>9 DEF Handle
<1>3. CASE \E u \in Users \cup {Unknown}, c \in Chats : Arrive(u, c)
    BY <1>1, <1>3, ArriveRegistry, ArriveRouting DEF CollabInv
<1>4. CASE \E c \in Chats : Depart(c)
    BY <1>1, <1>4, DepartRegistry, DepartRouting DEF CollabInv
<1>5. CASE \E c \in Chats : DepartRestricted(c)
    BY <1>1, <1>5, DepartRestrictedRegistry, DepartRestrictedRouting DEF CollabInv
<1>6. CASE \E c, d \in Chats : Supergroup(c, d)
    BY <1>1, <1>6, SupergroupRegistry, SupergroupRouting DEF CollabInv
<1>7. CASE \E n \in Names, u \in Users, p \in {"telegram", platform} : Announce(n, u, p)
    BY <1>1, <1>7, AnnounceRegistry, AnnounceRouting DEF CollabInv
<1>8. CASE \E n \in Names : CloseWorkspace(n)
    BY <1>1, <1>8, CloseWorkspaceRegistry, TurnsRouting DEF CollabInv
<1>9. CASE \E u \in Users, c \in Chats : CloseGroup(u, c)
    BY <1>1, <1>9, CloseGroupRegistry, CloseGroupRouting DEF CollabInv
<1>10. CASE \E u \in Users, c \in Chats : Message(u, c)
    BY <1>1, <1>10, MessageRegistry, TurnsRouting DEF CollabInv
<1>11. CASE \E u \in Users, c \in Chats, i \in Groups : ImTheOwner(u, c, i)
    BY <1>1, <1>11, ImTheOwnerRegistry, ImTheOwnerRouting DEF CollabInv
<1>12. CASE \E u, v \in Users, c \in Chats : Promote(u, v, c) \/ Demote(u, v, c)
    BY <1>1, <1>12, RolesRegistry, RolesRouting DEF CollabInv
<1>13. CASE \E t \in turns : EndTurn(t)
    BY <1>1, <1>13, EndTurnRegistry, TurnsRouting DEF CollabInv
<1>14. CASE Restart
    BY <1>1, <1>14, RestartRegistry, RestartRouting DEF CollabInv
<1>15. CASE UNCHANGED collabVars
    <2>1. UNCHANGED <<platform, store, agents, link, file, present, updates, closing, refusing, turns,
                      strayed, agentless, clobbered>>
        BY <1>15 DEF collabVars
    <2>2. CollabTypeOK /\ RegistryOK
        BY <1>1 DEF RegistryInv
    <2>3. RegistryOK' /\ Routable' = Routable
        BY <2>1, <2>2, RegistryUnchanged DEF registry
    <2>4. CollabTypeOK'
        BY <2>1, <2>2 DEF CollabTypeOK, Groups
    <2>5. RoutingOK'
        BY <1>1, <2>1, <2>2, <2>3, RoutingKept
    <2> QED
        BY <2>3, <2>4, <2>5 DEF CollabInv, RegistryInv
<1> QED
    BY <1>2, <1>3, <1>4, <1>5, <1>6, <1>7, <1>8, <1>9, <1>10, <1>11, <1>12, <1>13, <1>14, <1>15
       DEF CollabNext

LEMMA CollabReachable == CollabSpec => []CollabInv
<1> QED
    BY CollabStarts, CollabStep, PTL DEF CollabSpec

\* Nothing but the end of a turn takes a group out of set-up into service.
Unfinished == \A i \in Groups : store[i].status = "setup" => store'[i].status # "active"

LEMMA UpdatesFinishNothing ==
    ASSUME RegistryInv,
           NEW k, BotAddedUnauthorised(k) \/ BotAddedAnnounced(k) \/ BotAddedSetup(k) \/ BotAddedCut(k)
                  \/ BotRemoved(k) \/ BotMigrated(k)
    PROVE  Unfinished
<1>1. CollabTypeOK
    BY DEF RegistryInv
<1>2. CASE store' = store
    BY <1>2 DEF Unfinished
<1>3. CASE BotAddedAnnounced(k)
    <2>1. PICK u : u = updates[k].by
        OBVIOUS
    <2>2. PICK i : i = Max(PendingFor(u))
        OBVIOUS
    <2>3. /\ Taken(k) /\ IsAuthorisedAdder(u) /\ PendingFor(u) # {}
          /\ UpdateChatId(i, updates[k].chat, u)
        BY <1>3, <2>1, <2>2 DEF BotAddedAnnounced
    <2>4. u \in Users /\ updates[k].chat \in Chats /\ i \in Groups /\ store[i].status = "pending"
        BY <1>1, <2>1, <2>2, <2>3, AddedFacts, PendingFacts
    <2>5. \A j \in Groups \ {i} : store'[j] = store[j]
        BY <1>1, <2>3, <2>4, BoundRecord
    <2> QED
        BY <2>4, <2>5 DEF Unfinished
<1>4. CASE BotAddedSetup(k) \/ BotAddedCut(k)
    <2>1. PICK u : u = updates[k].by
        OBVIOUS
    <2>2. PICK n : n = FreshName
        OBVIOUS
    <2>3. /\ Taken(k) /\ IsAuthorisedAdder(u) /\ agents # Names
          /\ store' = store \/ store' = Append(store, SetupRecord(n, updates[k].chat, u))
        BY <1>4, <2>1, <2>2 DEF BotAddedSetup, BotAddedCut, registry
    <2>4. u \in Users /\ updates[k].chat \in Chats /\ n \in Names
        BY <1>1, <2>1, <2>2, <2>3, AddedFacts, FreshIsFree DEF CollabTypeOK
    <2>5. CASE store' = Append(store, SetupRecord(n, updates[k].chat, u))
        <3>1. \A j \in Groups : store'[j] = store[j]
            BY <1>1, <2>4, <2>5, SetupAppended
        <3> QED
            BY <3>1 DEF Unfinished
    <2> QED
        BY <1>2, <2>3, <2>5
<1>5. CASE BotRemoved(k)
    <2>1. PICK ids : CloseGroups(ids)
        BY <1>5 DEF BotRemoved
    <2> QED
        BY <1>1, <2>1, ClosedRecords DEF Unfinished
<1>6. CASE BotMigrated(k)
    <2>1. PICK i : i = Routed(updates[k].chat)
        OBVIOUS
    <2>2. /\ Taken(k)
          /\ store' = IF i = 0 THEN store ELSE [store EXCEPT ![i].chat = updates[k].to]
        BY <1>6, <2>1 DEF BotMigrated
    <2>3. CASE i # 0
        <3>1. i \in Groups /\ updates[k].to \in Chats
            BY <1>1, <2>1, <2>2, <2>3, RoutedIsBound, RegistryFacts, TakenFacts DEF CollabTypeOK, Update
        <3>2. \A j \in Groups : store'[j].status = store[j].status
            BY <1>1, <2>2, <2>3, <3>1, MovedRecord
        <3> QED
            BY <3>2 DEF Unfinished
    <2> QED
        BY <1>2, <2>2, <2>3
<1>7. CASE BotAddedUnauthorised(k)
    BY <1>2, <1>7 DEF BotAddedUnauthorised, registry
<1> QED
    BY <1>3, <1>4, <1>5, <1>6, <1>7

LEMMA MembersFinishNothing ==
    ASSUME RegistryInv,
           \/ \E n \in Names, u \in Users, p \in {"telegram", platform} : Announce(n, u, p)
           \/ \E u \in Users, c \in Chats : CloseGroup(u, c)
           \/ \E u \in Users, c \in Chats, i \in Groups : ImTheOwner(u, c, i)
           \/ \E u, v \in Users, c \in Chats : Promote(u, v, c) \/ Demote(u, v, c)
    PROVE  Unfinished
<1>1. CollabTypeOK
    BY DEF RegistryInv
<1>2. ASSUME NEW n \in Names, NEW u \in Users, NEW p \in {"telegram", platform}, Announce(n, u, p)
      PROVE  Unfinished
    <2>1. PICK r : r = [name |-> n, chat |-> NoChat, status |-> "pending", by |-> u,
                        announced |-> TRUE, target |-> p, roles |-> OwnedBy(u)]
        OBVIOUS
    <2>2. r \in Record
        BY <1>1, <2>1, OwnersAreRoles DEF Record, CollabTypeOK
    <2>3. store' = store \/ store' = Append(store, r)
        BY <1>2, <2>1 DEF Announce
    <2>4. \A j \in Groups : store'[j] = store[j]
        BY <1>1, <2>2, <2>3, OneAppended
    <2> QED
        BY <2>4 DEF Unfinished
<1>3. ASSUME NEW u \in Users, NEW c \in Chats, CloseGroup(u, c)
      PROVE  Unfinished
    <2>1. PICK ids : CloseGroups(ids)
        BY <1>3 DEF CloseGroup
    <2> QED
        BY <1>1, <2>1, ClosedRecords DEF Unfinished
<1>4. ASSUME NEW u \in Users, NEW c \in Chats, NEW i \in Groups, ImTheOwner(u, c, i)
      PROVE  Unfinished
    <2>1. store[i].status = "pending" /\ \A j \in Groups \ {i} : store'[j] = store[j]
        BY <1>1, <1>4, BoundRecord DEF ImTheOwner
    <2> QED
        BY <2>1 DEF Unfinished
<1>5. ASSUME NEW u \in Users, NEW v \in Users, NEW c \in Chats, Promote(u, v, c) \/ Demote(u, v, c)
      PROVE  Unfinished
    <2>1. PICK i : i = Routed(c)
        OBVIOUS
    <2>2. PICK role \in Roles : SetRole(i, v, role)
        BY <1>5, <2>1 DEF Promote, Demote, Roles
    <2>3. i \in Groups
        BY <1>1, <1>5, <2>1, SaysFacts DEF Promote, Demote
    <2>4. \A j \in Groups : store'[j].status = store[j].status
        BY <1>1, <2>2, <2>3, RoleRecord
    <2> QED
        BY <2>4 DEF Unfinished
<1> QED
    BY <1>2, <1>3, <1>4, <1>5

Finished ==
    \A i \in Groups : store[i].status = "setup" /\ store'[i].status = "active" =>
        \E t \in turns \ turns' : t.exec /\ t.agent = store[i].name

LEMMA SetupFinished == CollabInv /\ [CollabNext]_collabVars => Finished
<1> SUFFICES ASSUME CollabInv, [CollabNext]_collabVars
             PROVE  Finished
    OBVIOUS
<1>1. RegistryInv /\ CollabTypeOK /\ RegistryOK
    BY DEF CollabInv, RegistryInv
<1>2. CASE Unfinished
    BY <1>2 DEF Unfinished, Finished
<1>3. CASE store' = store
    BY <1>3 DEF Finished
<1>4. ASSUME NEW t \in turns, EndTurn(t)
      PROVE  Finished
    <2>1. CASE SetupComplete(t)
        <3>1. t \in turns \ turns'
            BY <1>4 DEF EndTurn
        <3>2. PICK j : /\ j = link[t.agent] /\ store[j].name = t.agent /\ t.exec
                       /\ \A i \in Groups : store'[i].status # store[i].status => i = j
            BY <1>1, <2>1, SetupIsItsOwn
        <3>3. ASSUME NEW i \in Groups, store[i].status = "setup", store'[i].status = "active"
              PROVE  t.exec /\ t.agent = store[i].name
            BY <3>2, <3>3
        <3> QED
            BY <3>1, <3>3 DEF Finished
    <2> QED
        BY <1>3, <1>4, <2>1 DEF EndTurn
<1>5. CASE Handle
    <2>1. CASE \E c \in Chats : RefuseAndLeave(c)
        BY <1>3, <2>1 DEF RefuseAndLeave, registry
    <2>2. CASE \E i \in closing : CloseNext(i)
        <3>1. PICK ids : CloseGroups(ids)
            BY <2>2 DEF CloseNext
        <3>2. Unfinished
            BY <1>1, <3>1, ClosedRecords DEF Unfinished
        <3> QED
            BY <1>2, <3>2
    <2>3. CASE CloseFails
        BY <1>3, <2>3 DEF CloseFails, registry
    <2> QED
        BY <1>1, <1>2, <1>5, <2>1, <2>2, <2>3, UpdatesFinishNothing DEF Handle
<1>6. CASE \/ \E u \in Users \cup {Unknown}, c \in Chats : Arrive(u, c)
           \/ \E c \in Chats : Depart(c) \/ DepartRestricted(c)
           \/ \E c, d \in Chats : Supergroup(c, d)
           \/ \E n \in Names : CloseWorkspace(n)
           \/ \E u \in Users, c \in Chats : Message(u, c)
           \/ Restart
           \/ UNCHANGED collabVars
    BY <1>3, <1>6
       DEF Arrive, Depart, DepartRestricted, Supergroup, CloseWorkspace, Message, Restart, registry, collabVars
<1> QED
    BY <1>1, <1>2, <1>4, <1>5, <1>6, MembersFinishNothing DEF CollabNext

-----------------------------------------------------------------------------
\* Whatever is announced, set up, moved and closed, in whatever order the updates come,
\* every variable has its type and a record is bound to a chat exactly while it is set up
\* or active (the statuses of collaborative.py).
THEOREM CollabTypeCorrect == CollabSpec => []CollabTypeOK
<1>1. CollabInv => CollabTypeOK
    BY DEF CollabInv, RegistryInv
<1> QED
    BY <1>1, CollabReachable, PTL

\* A group set up on the spot is answered by its own agent, linked back to it, unless a
\* crash cut its set-up or headquarters closed the agent (the name loop of
\* collab_bot_added looks at every agent; an announced group has none of its own).
THEOREM AgentsAreKnown == CollabSpec => []GroupsKnowTheirAgent
<1>1. CollabInv => GroupsKnowTheirAgent
    BY DEF CollabInv, RegistryInv, RegistryOK
<1> QED
    BY <1>1, CollabReachable, PTL

\* A routed group's instruction file is its own, and holds the purpose agreed on once the
\* group is active, wherever the process died (finalize_setup writes the file first).
THEOREM PurposesAreKept == CollabSpec => []PurposeIsKept
<1>1. CollabInv => PurposeIsKept
    BY RegistryFacts DEF CollabInv, RegistryInv, RegistryOK, InstructionsOK, PurposeIsKept, Routable
<1> QED
    BY <1>1, CollabReachable, PTL

\* No group is routed whose chat the bot has left, unless the update that closes or moves
\* it is on its way or being handled, or one about the chat was missed, overtaken or cut
\* short, wherever others join between the closes of a guild (collab_bot_removed).
THEOREM NoPhantoms == CollabSpec => []NoPhantomGroups
<1>1. CollabInv => NoPhantomGroups
    <2> SUFFICES ASSUME CollabInv, NEW i \in Routable \ closing, NEW c, c = store[i].chat,
                        c \notin present \cup strayed
                 PROVE  InFlight("removed", c) \/ InFlight("migrated", c)
        BY DEF NoPhantomGroups
    <2>1. CollabTypeOK /\ PresenceOK
        BY DEF CollabInv, RegistryInv, RoutingOK
    <2>2. c \in Chats
        BY <2>1, RecordsFacts, RegistryFacts DEF Record
    <2>3. InAt(0, c) /\ 0 \in 0 .. Len(updates)
        BY <2>1, UpdatesFacts DEF InAt, Staying
    <2>4. PICK j \in 1 .. Len(updates) : OutAt(j, c)
        BY <2>1, <2>2, <2>3 DEF PresenceOK
    <2> QED
        BY <2>1, <2>4, UpdatesFacts DEF OutAt, InFlight
<1> QED
    BY <1>1, CollabReachable, PTL

\* A group goes from set-up into service only at the end of a turn of its own agent that
\* an executive started (may_dispatch_side_effects, _handle_collab_setup_complete).
THEOREM ExecutivesFinish == CollabSpec => SetupByExecutives
<1>1. CollabInv /\ [CollabNext]_collabVars =>
          [\A i \in Groups : store[i].status = "setup" /\ store'[i].status = "active" =>
              \E t \in turns \ turns' : t.exec /\ t.agent = store[i].name]_collabVars
    BY SetupFinished DEF Finished
<1> QED
    BY <1>1, CollabReachable, PTL DEF CollabSpec, SetupByExecutives
=============================================================================
