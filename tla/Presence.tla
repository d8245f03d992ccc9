------------------------------ MODULE Presence ------------------------------
(***************************************************************************)
(* Who is there (bullfight/playercenter.lua): the players the center       *)
(* knows, the list of them it offers to one who asks, their friends, and   *)
(* the players an administrator has blocked.  A login is the first one of  *)
(* its player; what a second one does is in Login.                         *)
(*                                                                         *)
(* Agents, the administrator's watchdog, the center and the database are   *)
(* services with a queue each.  A handler that sends to two services does  *)
(* so in two steps, because another service may send between them.         *)
(***************************************************************************)
EXTENDS Common, Sequences, FiniteSets
LOCAL INSTANCE SequencesExt

CONSTANTS
    Person,         \* players
    Robot,          \* the players between robot.min and robot.max
    Girls,          \* what SQL_GET_ALL_GIRLS returns: a sequence of players
    MaxList,        \* 100
    MaxGirls        \* 35

VARIABLES
    allPlayer,      \* all_player: [room, friends], friends nil or a set
    agentOf,        \* the agents: [lock, seat, kick], kick: an EVENT_KICK to handle
    blockedPlayer,  \* blocked_player: until when
    blacklist,      \* dt_member_blacklist: until when
    friendRows,     \* dt_member_friend: pairs of players
    hour,           \* os.time()
    toCenter, toMysql,      \* queues
    unsent,         \* what is still to be sent to the center, by player
    asked,          \* coroutines of the center that wait for the database
    states,         \* the last SMSG_UPDATE_FRIEND_STATE: friends and whether in a room
    shown,          \* the last answer: who asked, the list, and who was there
    crossed,        \* history: pairs whose requests came to the services in different orders
    failed          \* history: players and pairs of which a statement failed

presenceVars == <<allPlayer, agentOf, blockedPlayer, blacklist, friendRows, hour, toCenter, toMysql, unsent, asked,
                  states, shown, crossed, failed>>

Online  == DOMAIN allPlayer
InRoom(p) == p \in Online /\ allPlayer[p].room
NobodyShown == [uid |-> Void, list |-> <<>>, there |-> {}, roomed |-> {}]

PresenceInit ==
    /\ allPlayer = <<>> /\ agentOf = <<>> /\ blockedPlayer = <<>> /\ blacklist = <<>> /\ friendRows = {} /\ hour = 0
    /\ toCenter = <<>> /\ toMysql = <<>> /\ unsent = [p \in Person |-> <<>>] /\ asked = {}
    /\ shown = NobodyShown /\ states = {} /\ crossed = {} /\ failed = {}

-----------------------------------------------------------------------------
(* Players come, go, enter rooms and sit down *)

Blocked(p) == p \in DOMAIN blockedPlayer /\ blockedPlayer[p] > hour

\* EVENT_LOGIN of a player that is not there.
Come(p) ==
    /\ p \notin Online /\ Use("come")
    /\ IF Blocked(p)
       THEN UNCHANGED <<allPlayer, agentOf>>
       ELSE /\ allPlayer' = Put(allPlayer, p, [room |-> FALSE, friends |-> Void])
            /\ agentOf' = Put(agentOf, p, [lock |-> FALSE, seat |-> FALSE, kick |-> FALSE])
    /\ UNCHANGED <<blockedPlayer, blacklist, friendRows, hour, toCenter, toMysql, unsent, asked, states, shown, crossed, failed>>

\* Exit, and EVENT_LOGIN_OUT in the center.
Go(p) ==
    /\ p \in Online /\ ~agentOf[p].lock /\ unsent[p] = <<>> /\ Use("go")
    /\ allPlayer' = Drop(allPlayer, p) /\ agentOf' = Drop(agentOf, p)
    /\ UNCHANGED <<blockedPlayer, blacklist, friendRows, hour, toCenter, toMysql, unsent, asked, states, shown, crossed, failed>>

\* EVENT_SOME_ONE_ENTER
SomeOneEnter(p) ==
    /\ p \in Online /\ ~InRoom(p) /\ Use("enter")
    /\ allPlayer' = [allPlayer EXCEPT ![p].room = TRUE]
    /\ \E s \in BOOLEAN : agentOf' = [agentOf EXCEPT ![p].seat = s]
    /\ UNCHANGED <<blockedPlayer, blacklist, friendRows, hour, toCenter, toMysql, unsent, asked, states, shown, crossed, failed>>

\* EVENT_SOME_ONE_QUIT
SomeOneQuit(p) ==
    /\ InRoom(p) /\ Use("quit")
    /\ allPlayer' = [allPlayer EXCEPT ![p].room = FALSE] /\ agentOf' = [agentOf EXCEPT ![p].seat = FALSE]
    /\ UNCHANGED <<blockedPlayer, blacklist, friendRows, hour, toCenter, toMysql, unsent, asked, states, shown, crossed, failed>>

-----------------------------------------------------------------------------
(* The list of those who are online.  st: [list, all, girls], the list so   *)
(* far, the copy of all_player and the girls that are left.                 *)

Takes(st, p) == [list |-> Append(st.list, p), all |-> st.all \ {p}, girls |-> st.girls \ {p}]

\* The other girls are left out when the list has enough.
Enough(st) == IF Len(st.list) = MaxGirls THEN [st EXCEPT !.all = @ \ st.girls] ELSE st

\* The loop without girls: players in rooms.
RoomFirst(uid, order, st) ==
    FoldLeft(LAMBDA t, p : IF Len(t.list) = MaxList THEN t
                           ELSE IF p = uid THEN [t EXCEPT !.all = @ \ {p}]
                           ELSE IF InRoom(p) THEN Takes(t, p) ELSE t, st, order)

\* Girls in rooms.
GirlsInRooms(uid, st) ==
    FoldLeft(LAMBDA t, g : IF Len(t.list) = MaxGirls THEN t
                           ELSE IF g = uid THEN [t EXCEPT !.all = @ \ {g}, !.girls = @ \ {g}]
                           ELSE IF g \in t.all /\ InRoom(g) THEN Enough(Takes(t, g)) ELSE t, st, Girls)

\* Mutant: the girls that are left stay in the copy.
GirlsElsewhereAll(st) ==
    FoldLeft(LAMBDA t, g : IF Len(t.list) = MaxGirls \/ g \notin t.all THEN t ELSE Takes(t, g), st, Girls)

\* Girls that are not in a room.
GirlsElsewhere(st) ==
    FoldLeft(LAMBDA t, g : IF Len(t.list) = MaxGirls \/ g \notin t.all THEN t ELSE Enough(Takes(t, g)), st, Girls)

\* Whoever is left.
TheOthers(uid, order, st) ==
    FoldLeft(LAMBDA t, p : IF Len(t.list) >= MaxList \/ p \notin t.all \/ p = uid THEN t ELSE Takes(t, p), st, order)

Onlines(uid, order) ==
    LET st    == [list |-> <<>>, all |-> Online \ Robot, girls |-> Range(Girls)]
        first == IF Girls = <<>> THEN RoomFirst(uid, order, st) ELSE GirlsElsewhere(GirlsInRooms(uid, st))
    IN TheOthers(uid, order, first).list

\* GetOnline, UpdateFriend and GetOnlineInfo: one message to the center.
Ask(p, m) ==
    /\ p \in Online /\ Use(m.t)
    /\ toCenter' = Append(toCenter, m)
    /\ UNCHANGED <<allPlayer, agentOf, blockedPlayer, blacklist, friendRows, hour, toMysql, unsent, asked, states, shown, crossed, failed>>

\* CMSG_GET_ONLINE: the list is made at once, the names are read one by one.
GetOnline(m) ==
    /\ m.t = "online"
    /\ \E order \in SetToSeqs(Online \ Robot) :
          asked' = asked \cup {[t |-> "online", uid |-> m.uid, todo |-> Onlines(m.uid, order), list |-> Onlines(m.uid, order),
                                there |-> Online \ (Robot \cup {m.uid}), roomed |-> {p \in Online : InRoom(p)}]}
    /\ UNCHANGED <<allPlayer, agentOf, states, shown, blockedPlayer>>

\* CMSG_GET_ONLINEINFO: answered at once for one who is not there.
GetOnlineInfo(m) ==
    /\ m.t = "info"
    /\ asked' = IF m.of \in Online THEN asked \cup {[t |-> "info", uid |-> m.uid, of |-> m.of]} ELSE asked
    /\ UNCHANGED <<allPlayer, agentOf, states, shown, blockedPlayer>>

\* UpdateFriendState: those of the list that are online.
UpdateFriendState(m) ==
    /\ m.t = "friends"
    /\ \E s \in SUBSET (m.fids \cap Online) :
          /\ Cardinality(s) = IF Cardinality(m.fids \cap Online) < MaxList THEN Cardinality(m.fids \cap Online) ELSE MaxList
          /\ states' = {<<f, InRoom(f)>> : f \in s}
          /\ UNCHANGED <<allPlayer, agentOf, asked, shown, blockedPlayer>>

\* The database answers SQL_GET_ONLINE_INFO or SQL_GET_ONLINE_GAMEINFO.  The
\* handler of the second reads the player again, who may have gone: it fails
\* and nothing is answered.
Answered(a) ==
    /\ asked' = (asked \ {a}) \cup (IF a.t = "online" /\ Len(a.todo) > 1 THEN {[a EXCEPT !.todo = Tail(@)]} ELSE {})
    /\ UNCHANGED states
    /\ shown' = IF a.t = "online" /\ Len(a.todo) <= 1 /\ a.uid \in Online
                THEN [uid |-> a.uid, list |-> a.list, there |-> a.there, roomed |-> a.roomed] ELSE shown
    /\ UNCHANGED <<allPlayer, agentOf, blockedPlayer, blacklist, friendRows, hour, toCenter, toMysql, unsent, crossed, failed>>

-----------------------------------------------------------------------------
(* Friends *)

\* AddFriend, DelFriend: to the database, then to the center.
Friend(p, f, op) ==
    /\ p \in Online /\ unsent[p] = <<>> /\ Use("friend")
    /\ toMysql' = Append(toMysql, [t |-> op, uid |-> p, fid |-> f])
    /\ unsent' = [unsent EXCEPT ![p] = <<[t |-> op, uid |-> p, fid |-> f]>>]
    /\ UNCHANGED <<allPlayer, agentOf, blockedPlayer, blacklist, friendRows, hour, toCenter, asked, states, shown, crossed, failed>>

Pair(m) == {m.uid, m.fid}

\* A request of the same pair that the database gets later is before it.
FriendSent(p) ==
    /\ unsent[p] # <<>>
    /\ toCenter' = Append(toCenter, Head(unsent[p]))
    /\ unsent' = [unsent EXCEPT ![p] = <<>>]
    /\ crossed' = crossed \cup {Pair(Head(unsent[p])) : q \in {q \in Person \ {p} : unsent[q] # <<>> /\ Pair(Head(unsent[q])) = Pair(Head(unsent[p]))}}
    /\ UNCHANGED <<allPlayer, agentOf, blockedPlayer, blacklist, friendRows, hour, toMysql, asked, states, shown, failed>>

BefriendedWith(all, p, f) ==
    IF p \notin DOMAIN all THEN all
    ELSE [all EXCEPT ![p].friends = IF @ = Void THEN {f} ELSE @ \cup {f}]

\* EVENT_ADD_FRIEND
AddFriend(m) ==
    /\ m.t = "add"
    /\ allPlayer' = BefriendedWith(BefriendedWith(allPlayer, m.uid, m.fid), m.fid, m.uid)
    /\ UNCHANGED <<agentOf, asked, states, shown, blockedPlayer>>

ForgottenBy(all, p, f) ==
    IF p \notin DOMAIN all \/ all[p].friends = Void THEN all ELSE [all EXCEPT ![p].friends = @ \ {f}]

\* EVENT_DEL_FRIEND
DelFriend(m) ==
    /\ m.t = "del"
    /\ allPlayer' = ForgottenBy(ForgottenBy(allPlayer, m.uid, m.fid), m.fid, m.uid)
    /\ UNCHANGED <<agentOf, asked, states, shown, blockedPlayer>>

\* SQL_ADD_FRIEND, SQL_DEL_FRIEND: two statements, either of which may fail.
DbFriend(m, ok) ==
    /\ m.t \in {"add", "del"}
    /\ LET rows == {<<m.uid, m.fid>> : i \in {i \in {1} : ok[i]}} \cup {<<m.fid, m.uid>> : i \in {i \in {2} : ok[i]}}
       IN friendRows' = IF m.t = "add" THEN friendRows \cup rows ELSE friendRows \ rows
    /\ failed' = IF ok[1] /\ ok[2] THEN failed ELSE failed \cup {Pair(m)}
    /\ UNCHANGED <<blacklist, toCenter>>

-----------------------------------------------------------------------------
(* The administrator *)

\* ADMIN_BLOCKED_PLAYER of the watchdog: it calls the database and goes on
\* with the answer.
Block(p, until) ==
    /\ Use("block")
    /\ toMysql' = Append(toMysql, [t |-> "block", uid |-> p, until |-> until])
    /\ UNCHANGED <<allPlayer, agentOf, blockedPlayer, blacklist, friendRows, hour, toCenter, unsent, asked, states, shown, crossed, failed>>

\* SQL_BLOCKED_PLAYER.  The center is told whether it succeeds or not.
DbBlock(m, ok) ==
    /\ m.t = "block"
    /\ blacklist' = IF ok THEN Put(blacklist, m.uid, m.until) ELSE blacklist
    /\ failed' = IF ok THEN failed ELSE failed \cup {{m.uid}}
    /\ toCenter' = Append(toCenter, m)
    /\ UNCHANGED friendRows

\* The next message of the database.
Mysql ==
    /\ toMysql # <<>>
    /\ \E ok \in [1..2 -> BOOLEAN] :
          /\ IF ok[1] /\ ok[2] THEN UNCHANGED left ELSE Use("fail")
          /\ DbFriend(Head(toMysql), ok) \/ DbBlock(Head(toMysql), ok[1])
    /\ toMysql' = Tail(toMysql)
    /\ UNCHANGED <<allPlayer, agentOf, blockedPlayer, hour, unsent, asked, states, shown, crossed>>

\* ADMIN_BLOCKED_PLAYER of the center.
AdminBlocked(m) ==
    /\ m.t = "block"
    /\ blockedPlayer' = IF m.until = 0 THEN Drop(blockedPlayer, m.uid) ELSE Put(blockedPlayer, m.uid, m.until)
    /\ agentOf' = IF m.until # 0 /\ m.uid \in Online THEN [agentOf EXCEPT ![m.uid].kick = TRUE] ELSE agentOf
    /\ UNCHANGED <<allPlayer, asked, states, shown>>

\* The next message of the center.
Center ==
    /\ toCenter # <<>>
    /\ LET m == Head(toCenter)
       IN GetOnline(m) \/ GetOnlineInfo(m) \/ UpdateFriendState(m) \/ AddFriend(m) \/ DelFriend(m) \/ AdminBlocked(m)
    /\ toCenter' = Tail(toCenter)
    /\ UNCHANGED <<blacklist, friendRows, hour, toMysql, unsent, crossed, failed>>

\* Kick.  The identifier of the message is a variable of the handler, and
\* BeKicked looks at another one, which is always 0: nobody is sent away, and
\* one who does not sit keeps the lock that Exit asks for.
Kick(p) ==
    /\ p \in DOMAIN agentOf /\ agentOf[p].kick
    /\ \E stood \in BOOLEAN :
          agentOf' = [agentOf EXCEPT ![p].kick = FALSE,
                                     ![p].lock = @ \/ ~agentOf[p].seat,
                                     ![p].seat = @ /\ (agentOf[p].lock \/ ~stood)]
    /\ UNCHANGED <<allPlayer, blockedPlayer, blacklist, friendRows, hour, toCenter, toMysql, unsent, asked, states, shown, crossed, failed>>

GetBlockedPlayer == [p \in {q \in DOMAIN blacklist : blacklist[q] > hour} |-> blacklist[p]]

\* The servers stop and start again: only the database remains.
RestartServer ==
    /\ toMysql = <<>> /\ toCenter = <<>> /\ \A p \in Person : unsent[p] = <<>>
    /\ Use("restart")
    /\ blockedPlayer' = GetBlockedPlayer
    /\ allPlayer' = <<>> /\ agentOf' = <<>> /\ asked' = {} /\ shown' = NobodyShown /\ states' = {}
    /\ UNCHANGED <<blacklist, friendRows, hour, toCenter, toMysql, unsent, crossed, failed>>

Hour ==
    /\ Use("hour")
    /\ hour' = hour + 1
    /\ UNCHANGED <<allPlayer, agentOf, blockedPlayer, blacklist, friendRows, toCenter, toMysql, unsent, asked, states, shown, crossed, failed>>

PresenceNext ==
    \/ \E p \in Person : \/ Come(p) \/ Go(p) \/ SomeOneEnter(p) \/ SomeOneQuit(p)
                         \/ Ask(p, [t |-> "online", uid |-> p]) \/ (FriendSent(p) /\ UNCHANGED left) \/ (Kick(p) /\ UNCHANGED left)
                         \/ \E q \in Person \ {p} : \/ Ask(p, [t |-> "info", uid |-> p, of |-> q])
                                                    \/ Ask(p, [t |-> "friends", uid |-> p, fids |-> Person \ {p, q}])
                                                    \/ \E op \in {"add", "del"} : Friend(p, q, op)
                         \/ \E t \in {0, 1, 2} : Block(p, t)
    \/ \E a \in asked : Answered(a) /\ UNCHANGED left
    \/ Mysql
    \/ Center /\ UNCHANGED left
    \/ RestartServer
    \/ Hour

-----------------------------------------------------------------------------
(* Properties *)

Least(a, b) == IF a < b THEN a ELSE b

\* The list that CMSG_GET_ONLINE answers: nobody twice, neither the one who
\* asks nor a robot, as many girls as there are up to the limit for girls, as
\* many players as there are up to the limit of the list, and a girl outside
\* the rooms only if those in rooms are all on it.
OnlineRight ==
    LET listed == Range(shown.list)
        girls  == Range(Girls) \cap shown.there
    IN /\ Cardinality(listed) = Len(shown.list)
       /\ listed \subseteq shown.there
       /\ Cardinality(listed \cap girls) = Least(MaxGirls, Cardinality(girls))
       /\ Len(shown.list) = Least(MaxList, Cardinality(shown.there \ girls) + Least(MaxGirls, Cardinality(girls)))
       /\ (listed \cap girls) \ shown.roomed # {} => girls \cap shown.roomed \subseteq listed

\* When every message is handled, the friends the center knows of a player
\* are friends in the database, unless both players of the pair asked at the
\* same time or a statement failed.
FriendsAgree ==
    toCenter = <<>> /\ toMysql = <<>> /\ (\A p \in Person : unsent[p] = <<>>) =>
        \A p \in Online : allPlayer[p].friends # Void =>
            \A f \in allPlayer[p].friends : <<p, f>> \in friendRows \/ {p, f} \in crossed \cup failed

\* When every message is handled, the center refuses the players that the
\* database holds blocked at this time and no others, after a restart too,
\* unless the statement failed.
BlockedAgree ==
    toCenter = <<>> /\ toMysql = <<>> =>
        \A p \in Person : {p} \notin failed => (Blocked(p) <=> (p \in DOMAIN blacklist /\ blacklist[p] > hour))
=============================================================================
