--------------------------- MODULE Collaborative ---------------------------
(***************************************************************************)
(* Collaborative workspaces: groups outside headquarters that the bot is    *)
(* added to (src/bot/collaborative.py, authorization.py and the collab_*    *)
(* handlers of handlers.py).  A group is announced from headquarters and    *)
(* bound when its creator adds the bot (flow A), or set up on the spot by   *)
(* an AI turn (flow B); it is archived when the bot is removed.  The        *)
(* registry, the agents and their instruction files are three stores that   *)
(* are written one after the other, driven by gateway updates that come     *)
(* late, overtake each other, or are lost with the process.                 *)
(*                                                                          *)
(* The store's mutators have no await and are actions; a handler is split   *)
(* at its awaits and where the process can die between two writes.  Wording, *)
(* invite links, the interaction mode, inheritance and messages to          *)
(* headquarters are left out.                                               *)
(***************************************************************************)
EXTENDS Naturals, Sequences, FiniteSetsExt, SequencesExt

CONSTANTS
    Users, Owner,      \* people; the bot's global owner
    Chats,             \* Telegram groups, or the channels of one Discord guild
    Names,             \* agent names, in the order flow B tries them
    MaxGroups,         \* bound: records ever written
    MaxUpdates,        \* bound: gateway updates in flight
    MaxUpsets          \* bound: chats and groups that met a crash or a lost update

NoChat == "no chat"
Unknown == "unknown"

ASSUME CollaborativeAssumption ==
    /\ Owner \in Users
    /\ Names \subseteq Nat /\ Names # {}
    /\ NoChat \notin Chats
    /\ MaxGroups \in Nat /\ MaxUpdates \in Nat /\ MaxUpsets \in Nat

VARIABLES
    platform,   \* the one this installation runs on
    store,      \* the registry: records in the order they were written
    agents,     \* names registered with the agent manager
    link,       \* collab_workspace_id of each agent, 0 for none
    file,       \* data/agents/<name>.md: whose instructions, how far they got
    present,    \* chats the bot is a member of
    updates,    \* gateway updates not handled yet
    closing,    \* groups that a removal being handled has still to close
    refusing,   \* chats told that their adder is not authorised
    turns,      \* AI turns of group agents
    strayed,    \* history: chats of which an update was missed, cut short or overtaken
    agentless,  \* history: groups whose agent was lost to a crash or to HQ
    clobbered   \* history: groups whose file was written under another's name

registry == <<store, agents, link, file>>
collabVars == <<platform, store, agents, link, file, present, updates, closing, refusing,
                turns, strayed, agentless, clobbered>>

-----------------------------------------------------------------------------
(***************************************************************************)
(* The registry.                                                            *)
(***************************************************************************)
Roles == {"none", "participant", "operator", "owner"}
Executive == {"owner", "operator"}

Groups == DOMAIN store

\* A mutant's idea of what is routable: a group in setup is forgotten.
Routable_Active == {i \in Groups : store[i].status = "active" /\ store[i].chat # NoChat}
\* _ROUTABLE_STATUSES with a chat: what _rebuild_chat_map puts in the map.
Routable == {i \in Groups : store[i].status \in {"setup", "active"} /\ store[i].chat # NoChat}

\* get_by_chat_id: of two records on one chat the later entry wins.
Routed(c) == Max({i \in Routable : store[i].chat = c} \cup {0})

GroupsNamed(n) == {i \in Groups : store[i].name = n}

OwnedBy(u) == [v \in Users |-> IF v = u THEN "owner" ELSE "none"]

\* get_user_role: the owner everywhere, others by the record, strangers nothing.
RoleOf(u, i) == IF u = Owner THEN "owner" ELSE store[i].roles[u]

\* is_authorised_adder: fails closed on an unknown inviter.
IsAuthorisedAdder(u) ==
    /\ u # Unknown
    /\ \/ u = Owner
       \/ \E i \in Groups : store[i].status # "closed" /\ store[i].roles[u] \in Executive

\* list_pending_for_creator
PendingFor(u) ==
    {i \in Groups : /\ store[i].status = "pending" /\ store[i].chat = NoChat
                    /\ store[i].by = u
                    /\ store[i].target \in {"telegram", platform}}

\* update_chat_id, then update_roles: the creator's own record, still unlinked.
Bound(i, c, u) ==
    [name |-> store[i].name, chat |-> c, status |-> "active", by |-> store[i].by,
     announced |-> store[i].announced, target |-> store[i].target,
     roles |-> [store[i].roles EXCEPT ![u] = "owner"]]
UpdateChatId(i, c, u) == store' = [store EXCEPT ![i] = Bound(i, c, u)]

\* An archived record: nothing but its name is looked at again.
Archived(i) ==
    [name |-> store[i].name, chat |-> NoChat, status |-> "closed", by |-> Owner,
     announced |-> FALSE, target |-> "telegram", roles |-> OwnedBy(Owner)]

CloseGroups(ids) ==
    store' = [i \in Groups |-> IF i \in ids THEN Archived(i) ELSE store[i]]

SetRole(i, u, role) == store' = [store EXCEPT ![i].roles[u] = role]

\* Mutant: the status is flipped before the file is written.
SetupCut_Flipped(i) == [store |-> [store EXCEPT ![i].status = "active"], file |-> file]
\* What a death inside the setup's completion leaves: the file is written first.
SetupCut(i) ==
    [store |-> store, file |-> [file EXCEPT ![store[i].name] = [of |-> i, text |-> "purpose"]]]

-----------------------------------------------------------------------------
(***************************************************************************)
(* The outside world.  Telegram reports updates in their order; on Discord  *)
(* a join first looks its inviter up in the audit log, for seconds, and     *)
(* what happens meanwhile is handled before it.                             *)
(***************************************************************************)
Everywhere(c) == IF platform = "discord" THEN Chats ELSE {c}

InFlight(kind, c) ==
    \E k \in DOMAIN updates : updates[k].kind = kind /\ c \in Everywhere(updates[k].chat)

Concerned(c) ==
    \E k \in DOMAIN updates : c \in Everywhere(updates[k].chat) \cup {updates[k].to}

Coming == Cardinality({k \in DOMAIN updates : updates[k].kind = "added"})
\* Within the bound on what goes wrong.
Calm == Cardinality(strayed) + Cardinality(agentless) < MaxUpsets
Room == Len(store) + Coming < MaxGroups /\ Cardinality(Names \ agents) > Coming

Arrive(u, c) ==
    /\ Len(updates) < MaxUpdates /\ Room
    /\ c \notin present
    /\ u = Unknown => platform = "discord"
    /\ present' = present \cup Everywhere(c)
    /\ updates' = Append(updates, [kind |-> "added", chat |-> c, to |-> c, by |-> u])
    /\ strayed' = strayed \ {d \in Everywhere(c) : Routed(d) = 0 /\ ~Concerned(d)}
    /\ UNCHANGED <<platform, registry, closing, refusing, turns, agentless, clobbered>>

Depart(c) ==
    /\ Len(updates) < MaxUpdates
    /\ c \in present
    /\ present' = present \ Everywhere(c)
    /\ updates' = Append(updates, [kind |-> "removed", chat |-> c, to |-> c, by |-> Unknown])
    /\ UNCHANGED <<platform, registry, closing, refusing, turns, strayed, agentless, clobbered>>

\* Restricted first and removed then: neither transition is one the adapter reports.
DepartRestricted(c) ==
    /\ platform = "telegram" /\ Calm
    /\ c \in present
    /\ present' = present \ {c}
    /\ strayed' = strayed \cup {c}
    /\ UNCHANGED <<platform, registry, updates, closing, refusing, turns, agentless, clobbered>>

\* A group becomes a supergroup: a chat nobody has heard of takes its place.
Supergroup(c, d) ==
    /\ platform = "telegram"
    /\ Len(updates) < MaxUpdates
    /\ c \in present /\ d \notin present \cup {c}
    /\ \A i \in Groups : store[i].chat # d
    /\ ~Concerned(d) /\ ~InFlight("migrated", c)
    /\ present' = (present \ {c}) \cup {d}
    /\ strayed' = IF c \in strayed THEN strayed \cup {d} ELSE strayed \ {d}
    /\ updates' = Append(updates, [kind |-> "migrated", chat |-> c, to |-> d, by |-> Unknown])
    /\ UNCHANGED <<platform, registry, closing, refusing, turns, agentless, clobbered>>

\* The chats whose groups a removal has yet to close.
StillBound == {store[i].chat : i \in closing \cap Routable}

\* The bot dies and starts again; what it had fetched and not handled is gone.
Restart ==
    /\ turns # {} \/ updates # <<>> \/ refusing # {} \/ closing # {}
    /\ \E lost \in {{}, DOMAIN updates} :
          /\ platform = "discord" => lost = DOMAIN updates
          /\ Calm \/ (lost = {} /\ closing = {})
          /\ updates' = IF lost = {} THEN updates ELSE <<>>
          /\ strayed' = strayed \cup StillBound
                \cup UNION {Everywhere(updates[k].chat) \cup {updates[k].to} : k \in lost}
    /\ turns' = {} /\ refusing' = {} /\ closing' = {}
    /\ UNCHANGED <<platform, registry, present, agentless, clobbered>>

-----------------------------------------------------------------------------
(***************************************************************************)
(* Gateway updates.                                                         *)
(***************************************************************************)
\* The k-th update is next: the ones before it still look up their inviter.
Dispatched(k) ==
    /\ k \in DOMAIN updates
    /\ \A j \in 1..(k - 1) : platform = "discord" /\ updates[j].kind = "added"
    /\ updates' = RemoveAt(updates, k)

Overtaken(k) == IF k = 1 THEN {} ELSE Chats

Taken(k) == Dispatched(k) /\ strayed' = strayed \cup Overtaken(k)

\* Mutant: no look at the names in use.
FreshName_Base == Min(Names)
\* Flow B: the first free name among the title's variants.
FreshName == Min(Names \ agents)

SetupRecord(n, c, u) ==
    [name |-> n, chat |-> c, status |-> "setup", by |-> u, announced |-> FALSE,
     target |-> "telegram", roles |-> OwnedBy(u)]

Register(n, i) == agents' = agents \cup {n} /\ link' = [link EXCEPT ![n] = i]

\* The file of name n now belongs to group i: whoever shared the name has lost it.
WriteFile(n, i, text) ==
    /\ file' = [file EXCEPT ![n] = [of |-> i, text |-> text]]
    /\ clobbered' = clobbered \cup (GroupsNamed(n) \ {i})

Welcome(agent) == turns' = turns \cup {[agent |-> agent, exec |-> TRUE]}

\* The adder may not: told so first, and the bot leaves only then.
BotAddedUnauthorised(k) ==
    /\ Taken(k) /\ updates[k].kind = "added"
    /\ ~IsAuthorisedAdder(updates[k].by)
    /\ refusing' = IF updates[k].by = Unknown THEN refusing ELSE refusing \cup {updates[k].chat}
    /\ UNCHANGED <<platform, registry, present, closing, turns, agentless, clobbered>>

\* Flow A: the newest announcement of the person who added the bot.
BotAddedAnnounced(k) ==
    /\ Taken(k) /\ updates[k].kind = "added"
    /\ LET u == updates[k].by IN
          /\ IsAuthorisedAdder(u)
          /\ PendingFor(u) # {}
          /\ UpdateChatId(Max(PendingFor(u)), updates[k].chat, u)
    /\ UNCHANGED <<platform, agents, link, file, present, closing, refusing, turns, agentless,
                   clobbered>>

\* Flow B: agent, file, record, link, then the first AI turn.
BotAddedSetup(k) ==
    /\ Taken(k) /\ updates[k].kind = "added"
    /\ LET u == updates[k].by  n == FreshName  i == Len(store) + 1 IN
          /\ IsAuthorisedAdder(u) /\ PendingFor(u) = {} /\ agents # Names
          /\ Register(n, i)
          /\ WriteFile(n, i, "setup")
          /\ store' = Append(store, SetupRecord(n, updates[k].chat, u))
          /\ Welcome(n)
    /\ UNCHANGED <<platform, present, closing, refusing, agentless>>

\* The same cut short: by a file or a registry that cannot be written (the agent
\* is taken back or stays), or by the process dying before the link is saved.
BotAddedCut(k) ==
    /\ Taken(k) /\ updates[k].kind = "added"
    /\ LET u == updates[k].by  n == FreshName  i == Len(store) + 1 IN
          /\ IsAuthorisedAdder(u) /\ PendingFor(u) = {} /\ agents # Names /\ Calm
          /\ \/ UNCHANGED <<registry, agentless, clobbered>>
             \/ Register(n, 0) /\ UNCHANGED <<store, file, agentless, clobbered>>
             \/ Register(n, 0) /\ WriteFile(n, 0, "setup") /\ UNCHANGED <<store, agentless>>
             \/ /\ Register(n, 0) /\ WriteFile(n, i, "setup")
                /\ store' = Append(store, SetupRecord(n, updates[k].chat, u))
                /\ agentless' = agentless \cup {i}
    /\ UNCHANGED <<platform, present, closing, refusing, turns>>

\* Mutant: groups in setup do not count.
Peers_Active == Routable_Active
\* find_active_in_guild: the guild's groups, looked up after the refusal was sent.
Peers == Routable

\* leave_chat evicts the bot from every channel of a guild.
RefuseAndLeave(c) ==
    /\ c \in refusing
    /\ refusing' = refusing \ {c}
    /\ \/ /\ c \in present /\ (platform = "discord" => Peers = {})
          /\ Len(updates) < MaxUpdates
          /\ present' = present \ Everywhere(c)
          /\ updates' = Append(updates, [kind |-> "removed", chat |-> c, to |-> c, by |-> Unknown])
       \/ UNCHANGED <<present, updates>>
    /\ UNCHANGED <<platform, registry, closing, turns, strayed, agentless, clobbered>>

\* A Discord removal names the guild, a Telegram one the chat.
Affected(c) == IF platform = "discord" THEN Peers ELSE {Routed(c)}

Earliest(ids) == {i \in ids : \A j \in ids : i <= j}

\* One record is closed, and headquarters are told before the next is.
BotRemoved(k) ==
    /\ Taken(k) /\ updates[k].kind = "removed"
    /\ LET ids == Affected(updates[k].chat) IN
          /\ CloseGroups(Earliest(ids))
          /\ closing' = closing \cup (ids \ Earliest(ids))
    /\ UNCHANGED <<platform, agents, link, file, present, refusing, turns, agentless, clobbered>>

\* The groups are those the removal found, whatever has come since.
CloseNext(i) ==
    /\ i \in closing
    /\ CloseGroups({i})
    /\ closing' = closing \ {i}
    /\ UNCHANGED <<platform, agents, link, file, present, updates, refusing, turns, strayed,
                   agentless, clobbered>>

\* The registry cannot be written: the record stays open, and so do those after it.
CloseFails ==
    /\ Calm
    /\ \/ \E k \in DOMAIN updates :
             /\ Dispatched(k) /\ updates[k].kind = "removed"
             /\ strayed' = strayed \cup Overtaken(k)
                   \cup {store[i].chat : i \in Affected(updates[k].chat) \cap Routable}
             /\ UNCHANGED closing
       \/ /\ closing # {} /\ closing' = {}
          /\ strayed' = strayed \cup StillBound
          /\ UNCHANGED updates
    /\ UNCHANGED <<platform, registry, present, refusing, turns, agentless, clobbered>>

\* migrate_chat_id: the routed record moves, its status stays.
BotMigrated(k) ==
    /\ Taken(k) /\ updates[k].kind = "migrated"
    /\ LET i == Routed(updates[k].chat) IN
          store' = IF i = 0 THEN store ELSE [store EXCEPT ![i].chat = updates[k].to]
    /\ UNCHANGED <<platform, agents, link, file, present, closing, refusing, turns, agentless,
                   clobbered>>

-----------------------------------------------------------------------------
(***************************************************************************)
(* Headquarters and the groups' members.                                    *)
(***************************************************************************)
\* [COLLAB_ANNOUNCE]: the file first, then the record; a taken name unlinks the file.
Announce(n, u, target) ==
    /\ target = "telegram" => u = Owner    \* no creator_id given
    /\ \/ /\ GroupsNamed(n) = {} /\ Room
          /\ WriteFile(n, Len(store) + 1, "purpose")
          /\ store' = Append(store, [name |-> n, chat |-> NoChat, status |-> "pending", by |-> u,
                                     announced |-> TRUE, target |-> target, roles |-> OwnedBy(u)])
       \/ /\ GroupsNamed(n) # {}
          /\ file' = [file EXCEPT ![n] = [of |-> 0, text |-> "none"]]
          /\ clobbered' = clobbered \cup GroupsNamed(n)
          /\ UNCHANGED store
    /\ UNCHANGED <<platform, agents, link, present, updates, closing, refusing, turns, strayed,
                   agentless>>

\* /im-the-owner in a Discord channel: the announced record is bound by hand.
ImTheOwner(u, c, i) ==
    /\ platform = "discord" /\ c \in present
    /\ store[i].status = "pending" /\ store[i].target = "discord" /\ store[i].by = u
    /\ UpdateChatId(i, c, u)
    /\ UNCHANGED <<platform, agents, link, file, present, updates, closing, refusing, turns,
                   strayed, agentless, clobbered>>

\* [CLOSE_WORKSPACE] from headquarters takes any agent by its name.
CloseWorkspace(n) ==
    /\ n \in agents /\ Calm
    /\ agents' = agents \ {n} /\ link' = [link EXCEPT ![n] = 0]
    /\ agentless' = agentless \cup {i \in Routable : store[i].name = n}
    /\ turns' = {t \in turns : t.agent # n}
    /\ UNCHANGED <<platform, store, file, present, updates, closing, refusing, strayed, clobbered>>

Says(u, c) == c \in present /\ Routed(c) # 0

Promote(u, v, c) ==
    /\ Says(u, c) /\ RoleOf(u, Routed(c)) = "owner"
    /\ store[Routed(c)].roles[v] = "participant"
    /\ SetRole(Routed(c), v, "operator")
    /\ UNCHANGED <<platform, agents, link, file, present, updates, closing, refusing, turns,
                   strayed, agentless, clobbered>>

Demotable(role) == role = "operator"

Demote(u, v, c) ==
    /\ Says(u, c) /\ RoleOf(u, Routed(c)) = "owner"
    /\ Demotable(store[Routed(c)].roles[v])
    /\ SetRole(Routed(c), v, "participant")
    /\ UNCHANGED <<platform, agents, link, file, present, updates, closing, refusing, turns,
                   strayed, agentless, clobbered>>

\* can_close_workspace: whoever created it, and the bot's owner.
CloseGroup(u, c) ==
    /\ Says(u, c)
    /\ u \in {store[Routed(c)].by, Owner}
    /\ CloseGroups({Routed(c)})
    /\ UNCHANGED <<platform, agents, link, file, present, updates, closing, refusing, turns,
                   strayed, agentless, clobbered>>

\* A message starts a turn of the group's agent, with the authority its sender has
\* now; where there is no such agent it is dropped.
Message(u, c) ==
    /\ Says(u, c) /\ turns = {}
    /\ store[Routed(c)].name \in agents
    /\ turns' = {[agent |-> store[Routed(c)].name, exec |-> RoleOf(u, Routed(c)) \in Executive]}
    /\ UNCHANGED <<platform, registry, present, updates, closing, refusing, strayed, agentless,
                   clobbered>>

\* Mutant: markers of every turn are obeyed.
Dispatches_All(t) == TRUE
\* may_dispatch_side_effects, by the context the turn was started with.
Dispatches(t) == t.exec

\* finalize_setup after the file: [COLLAB_SETUP_COMPLETE] of a group still in setup.
SetupComplete(t) ==
    LET i == link[t.agent] IN
    /\ Dispatches(t)
    /\ i \in Groups /\ store[i].status = "setup"
    /\ \/ /\ WriteFile(store[i].name, i, "purpose")
          /\ store' = [store EXCEPT ![i].status = "active"]
       \/ /\ store' = SetupCut(i).store /\ file' = SetupCut(i).file
          /\ UNCHANGED clobbered

EndTurn(t) ==
    /\ turns' = turns \ {t}
    /\ SetupComplete(t) \/ UNCHANGED <<store, file, clobbered>>
    /\ UNCHANGED <<platform, agents, link, present, updates, closing, refusing, strayed, agentless>>

-----------------------------------------------------------------------------
CollabInit ==
    /\ platform \in {"telegram", "discord"}
    /\ \/ /\ store = <<>> /\ agents = {} /\ present = {}
          /\ link = [n \in Names |-> 0]
          /\ file = [n \in Names |-> [of |-> 0, text |-> "none"]]
       \/ \E c \in Chats, v \in Users \ {Owner} :
          \* A group of an earlier release, with a member in its record.
          LET n == Min(Names) IN
          /\ store = <<[name |-> n, chat |-> c, status |-> "active", by |-> Owner,
                        announced |-> FALSE, target |-> "telegram",
                        roles |-> [OwnedBy(Owner) EXCEPT ![v] = "participant"]]>>
          /\ agents = {n}
          /\ present = Everywhere(c)
          /\ link = [m \in Names |-> IF m = n THEN 1 ELSE 0]
          /\ file = [m \in Names |-> IF m = n THEN [of |-> 1, text |-> "purpose"]
                                              ELSE [of |-> 0, text |-> "none"]]
    /\ updates = <<>> /\ closing = {} /\ refusing = {} /\ turns = {}
    /\ strayed = {} /\ agentless = {} /\ clobbered = {}

Handle ==
    \/ \E k \in 1..MaxUpdates :
          \/ BotAddedUnauthorised(k) \/ BotAddedAnnounced(k) \/ BotAddedSetup(k) \/ BotAddedCut(k)
          \/ BotRemoved(k) \/ BotMigrated(k)
    \/ \E c \in Chats : RefuseAndLeave(c)
    \/ \E i \in closing : CloseNext(i)
    \/ CloseFails

CollabNext ==
    \/ Handle
    \/ \E u \in Users \cup {Unknown}, c \in Chats : Arrive(u, c)
    \/ \E c \in Chats : Depart(c) \/ DepartRestricted(c)
    \/ \E c, d \in Chats : Supergroup(c, d)
    \/ \E n \in Names, u \in Users, p \in {"telegram", platform} : Announce(n, u, p)
    \/ \E n \in Names : CloseWorkspace(n)
    \/ \E u \in Users, c \in Chats : CloseGroup(u, c) \/ Message(u, c)
    \/ \E u \in Users, c \in Chats, i \in Groups : ImTheOwner(u, c, i)
    \/ \E u, v \in Users, c \in Chats : Promote(u, v, c) \/ Demote(u, v, c)
    \/ \E t \in turns : EndTurn(t)
    \/ Restart

CollabSpec == CollabInit /\ [][CollabNext]_collabVars

-----------------------------------------------------------------------------
(***************************************************************************)
(* Properties.                                                              *)
(***************************************************************************)
\* Every variable has its type; a record is bound to a chat exactly while it is set
\* up or active.
Record ==
    [name : Names, chat : Chats \cup {NoChat}, status : {"pending", "setup", "active", "closed"},
     by : Users, announced : BOOLEAN, target : {"telegram", "discord"}, roles : [Users -> Roles]]
Update ==
    [kind : {"added", "removed", "migrated"}, chat : Chats, to : Chats, by : Users \cup {Unknown}]
CollabTypeOK ==
    /\ platform \in {"telegram", "discord"}
    /\ store \in Seq(Record)
    /\ \A i \in Groups : (store[i].status \in {"setup", "active"}) = (store[i].chat # NoChat)
    /\ agents \subseteq Names /\ link \in [Names -> Nat]
    /\ file \in [Names -> [of : Nat, text : {"none", "setup", "purpose"}]]
    /\ updates \in Seq(Update)
    /\ present \subseteq Chats /\ refusing \subseteq Chats /\ strayed \subseteq Chats
    /\ agentless \cup clobbered \cup closing \subseteq Nat
    /\ turns \subseteq [agent : Names, exec : BOOLEAN]

\* A group that is set up on the spot is answered by its own agent, linked back to
\* it, unless a crash cut its set-up or headquarters closed the agent: two groups
\* never share one (get_by_name and the name loop of collab_bot_added).
GroupsKnowTheirAgent ==
    \A i \in Routable \ agentless :
        ~store[i].announced => store[i].name \in agents /\ link[store[i].name] = i

\* A group the bot has left is not answered: its record is closed, or the update
\* that closes it is on its way or being handled, whoever joins and whatever is set up
\* meanwhile; or an update was missed, overtaken, or cut short by a death or a registry
\* that could not be written (collab_bot_removed).
NoPhantomGroups ==
    \A i \in Routable \ closing :
        LET c == store[i].chat IN
        \/ c \in present \cup strayed
        \/ InFlight("removed", c) \/ InFlight("migrated", c)

\* The instructions of a routed group are its own, and those of an active one that
\* was set up by conversation are the purpose agreed on, whatever process died
\* between the file and the record (finalize_setup).
PurposeIsKept ==
    \A i \in Routable \ clobbered :
        /\ file[store[i].name].of = i
        /\ store[i].status = "active" => file[store[i].name].text = "purpose"

\* A group leaves set-up only by an executive's turn of its own agent
\* (may_dispatch_side_effects, _handle_collab_setup_complete).
SetupByExecutives ==
    [][\A i \in Groups : store[i].status = "setup" /\ store'[i].status = "active" =>
          \E t \in turns \ turns' : t.exec /\ t.agent = store[i].name]_collabVars
=============================================================================
