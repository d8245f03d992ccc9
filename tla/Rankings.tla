------------------------------ MODULE Rankings ------------------------------
(***************************************************************************)
(* The rankings (bullfight/myredis.lua).  Agents report their players      *)
(* after every match; the service keeps four lists in memory, writes them  *)
(* to the database every five minutes and loads them when it starts.  The  *)
(* honour of a day and of a week is cleared when the player center says    *)
(* that a day begins, and the list of a week goes to it for the rewards.   *)
(*                                                                         *)
(* Every call of the database yields.  There is one connection, so calls   *)
(* are done, and the coroutines that made them go on, in the order of the  *)
(* calls; a report that comes late is one whose first call is done late.   *)
(***************************************************************************)
EXTENDS Common, Sequences, FiniteSets
LOCAL INSTANCE SequencesExt
LOCAL INSTANCE TLC

CONSTANTS
    Reporter,       \* players
    TopSize,        \* 50
    LastSize,       \* 20
    Result          \* what a match adds: [score, money, honor]

VARIABLES
    player,         \* the fields of the agents: [score, money, dayhonor, weekhonor]
    notice,         \* agents that have not handled EVENT_A_NEW_DAY
    sunday,         \* the day is the first of a week
    clock,          \* os.time()
    week,           \* number of the week
    top,            \* top_score, top_money, top_dayhonor, top_weekhonor
    last,           \* lastw_playerinfos
    db,             \* [uinfo, lists, lastweek, games] of the database
    co,             \* coroutines that wait for the database
    latest,         \* history: the last report of each player in the lists
    rewarded,       \* history: player and week of the rewards
    again,          \* history: players rewarded twice for a week
    late,           \* history: players whose honour of a week came into the next
    torn,           \* history: a list changed while it was written
    games, raced    \* history: games recorded; two of them at once

rankVars == <<player, notice, sunday, clock, week, top, last, db, co, latest, rewarded, again, late, torn, games, raced>>

Lists  == <<"score", "money", "dayhonor", "weekhonor">>
Names  == Range(Lists)
Fields == <<"money", "score", "dayhonor", "weekhonor", "time">>

NoInfo(u) == [uid |-> u, score |-> 0, money |-> 0, dayhonor |-> 0, weekhonor |-> 0, time |-> 0, of |-> 0]

RankInit ==
    /\ player = [u \in Reporter |-> [score |-> 0, money |-> 0, dayhonor |-> 0, weekhonor |-> 0]]
    /\ notice = {} /\ sunday = FALSE /\ clock = 0 /\ week = 1 /\ last = <<>> /\ co = <<>>
    /\ top = [l \in Names |-> <<>>]
    /\ db = [uinfo |-> [u \in Reporter |-> NoInfo(u)], lists |-> [l \in Names |-> <<>>], lastweek |-> <<>>, games |-> 0]
    /\ latest = [u \in Reporter |-> NoInfo(u)] /\ rewarded = {} /\ again = {} /\ late = {} /\ torn = FALSE
    /\ games = 0 /\ raced = FALSE

-----------------------------------------------------------------------------
(* The lists *)

\* CompareScore, CompareMoney, CompareDayhonor, CompareWeekhonor
Better(l, a, b) ==
    \/ a[l] > b[l]
    \/ l \in {"dayhonor", "weekhonor"} /\ a[l] = b[l] /\ a.time < b.time

InOrder(l, s) == \A i, j \in DOMAIN s : i < j => ~Better(l, s[j], s[i])

\* table.sort, and SORT of the database: entries that are equal in any order.
Sorted(l, s) ==
    {t \in {[i \in DOMAIN s |-> s[p[i]]] : p \in Permutations(DOMAIN s)} : InOrder(l, t)}

\* The loop goes on with the next place after it removed an entry.
Without(s, uid) ==
    FoldLeft(LAMBDA t, i : IF i <= Len(t) /\ t[i].uid = uid THEN RemoveAt(t, i) ELSE t, s, [i \in 1..TopSize |-> i])

\* What UpdateTopList may make of list l.
Updated(l, info) ==
    {IF Len(t) > TopSize THEN Front(t) ELSE t : t \in Sorted(l, Append(Without(top[l], info.uid), info))}

Writes(c) == c.op = "save" /\ c.at = "push"

UpdateTopList(info) ==
    /\ \E s \in Updated("score", info), m \in Updated("money", info),
          d \in Updated("dayhonor", info), w \in Updated("weekhonor", info) :
         top' = [score |-> s, money |-> m, dayhonor |-> d, weekhonor |-> w]
    /\ latest' = [latest EXCEPT ![info.uid] = info]
    /\ late' = IF info.of # week THEN late \cup {info.uid} ELSE late
    /\ torn' = (torn \/ \E c \in Range(co) : Writes(c))

-----------------------------------------------------------------------------
(* Requests to the service *)

SameLists == UNCHANGED <<top, last, latest, rewarded, again, late, torn>>

\* PlayOneMatch and UpdateInfo of the agent; the first call of "update_info".
Report(u) ==
    /\ Use("report")
    /\ \E r \in Result, tick \in {0, 1} :
         LET p == [score |-> player[u].score + r.score, money |-> player[u].money + r.money,
                   dayhonor |-> player[u].dayhonor + r.honor, weekhonor |-> player[u].weekhonor + r.honor]
         IN  /\ player' = [player EXCEPT ![u] = p]
             /\ clock' = clock + tick
             /\ co' = Append(co, [op |-> "info", at |-> 1,
                                  info |-> [NoInfo(u) EXCEPT !.score = p.score, !.money = p.money, !.dayhonor = p.dayhonor,
                                            !.weekhonor = p.weekhonor, !.time = clock + tick, !.of = week - IF sunday /\ u \in notice THEN 1 ELSE 0]])
    /\ UNCHANGED <<notice, sunday, week, db, games, raced>> /\ SameLists

\* What a new day leaves of a player's honour, with the agent and in MySQL.
Fresh(p) == [p EXCEPT !.dayhonor = 0, !.weekhonor = IF sunday THEN 0 ELSE @]

\* NoticeTime
Notice(u) ==
    /\ u \in notice /\ notice' = notice \ {u}
    /\ player' = [player EXCEPT ![u] = Fresh(@)]
    /\ UNCHANGED <<sunday, clock, week, db, co, games, raced, left>> /\ SameLists

\* The timer of UpdateTopListToRedis: the first list from the k-th on that
\* is not empty.
Saves(k) ==
    LET full == {j \in k..4 : top[Lists[j]] # <<>>}
    IN  IF full = {} THEN <<>>
        ELSE LET j == CHOOSE j \in full : \A i \in full : j <= i
             IN  <<[op |-> "save", at |-> "exists", k |-> j, i |-> 0, uid |-> Void, on |-> Void]>>

UpdateTopListToRedis ==
    /\ \A c \in Range(co) : c.op # "save"
    /\ Use("save") /\ co' = co \o Saves(1)
    /\ UNCHANGED <<player, notice, sunday, clock, week, db, games, raced>> /\ SameLists

\* command["record_game_num"]
RecordGameNum ==
    /\ Use("game") /\ games' = games + 1
    /\ raced' = (raced \/ \E c \in Range(co) : c.op = "game")
    /\ co' = Append(co, [op |-> "game", at |-> "exists"])
    /\ UNCHANGED <<player, notice, sunday, clock, week, db>> /\ SameLists

\* Of a day that is not the first of a week; in its place, a mutant.
FlushedDayOnly(t) == [t EXCEPT !["dayhonor"] = <<>>]
Flushed(t) == [t EXCEPT !["dayhonor"] = <<>>, !["weekhonor"] = <<>>]

\* A save that has begun to write a list goes on with the old table.
Detached(lists) ==
    [i \in DOMAIN co |-> IF Writes(co[i]) /\ co[i].on = Void /\ Lists[co[i].k] \in lists
                         THEN [co[i] EXCEPT !.on = top[Lists[co[i].k]]] ELSE co[i]]

\* The center finds that a day has begun: EVENT_A_NEW_DAY for the agents,
\* which have handled that of the day before, and FlushHonor.
NewDay(first) ==
    /\ notice = {} /\ notice' = Reporter /\ sunday' = first
    /\ UNCHANGED <<player, clock, db, latest, rewarded, again, late, torn, games, raced>>

FlushDay ==
    /\ Use("day") /\ NewDay(FALSE)
    /\ top' = FlushedDayOnly(top) /\ co' = Detached({"dayhonor"})
    /\ UNCHANGED <<week, last>>

\* At the beginning of a week, up to its first call.
FlushHonor ==
    /\ Use("week") /\ NewDay(TRUE)
    /\ week' = week + 1
    /\ top' = Flushed(top)
    /\ LET list == top["weekhonor"]
       IN  /\ last' = [i \in 1..Cardinality({j \in DOMAIN list : list[j].weekhonor > 0}) |-> list[i].uid]
           /\ co' = Append(Detached({"dayhonor", "weekhonor"}),
                           [op |-> "week", at |-> "exists", i |-> 0, list |-> list, names |-> last'])

-----------------------------------------------------------------------------
(* The database does a call, and the coroutine goes on *)

Do(d, c) ==
    CASE c.op = "info" -> [d EXCEPT !.uinfo[c.info.uid] =
                             IF Fields[c.at] = "weekhonor" THEN [@ EXCEPT !.weekhonor = c.info.weekhonor, !.of = c.info.of]
                             ELSE [@ EXCEPT ![Fields[c.at]] = c.info[Fields[c.at]]]]
      [] c.op = "save" /\ c.at = "del" -> [d EXCEPT !.lists[Lists[c.k]] = <<>>]
      [] c.op = "save" /\ c.at = "push" -> [d EXCEPT !.lists[Lists[c.k]] = <<c.uid>> \o @]
      [] c.op = "week" /\ c.at = "del" -> [d EXCEPT !.lastweek = <<>>]
      [] c.op = "week" /\ c.at = "push" -> [d EXCEPT !.lastweek = <<c.names[c.i]>> \o @]
      [] c.op = "game" /\ c.at = "incr" -> [d EXCEPT !.games = @ + 1]
      [] c.op = "game" /\ c.at = "set" -> [d EXCEPT !.games = 1]
      [] OTHER -> d

Goes(cs) == co' = Tail(co) \o cs

\* The next entry of a list that is written: pairs reads the table as it is.
Pushes(c) ==
    LET t == IF c.on = Void THEN top[Lists[c.k]] ELSE c.on
    IN  IF c.i < Len(t) THEN <<[c EXCEPT !.at = "push", !.i = @ + 1, !.uid = t[c.i + 1].uid]>> ELSE Saves(c.k + 1)

SaveGoes(c) ==
    /\ Goes(IF c.at = "exists" /\ db.lists[Lists[c.k]] # <<>> THEN <<[c EXCEPT !.at = "del"]>> ELSE Pushes(c))
    /\ SameLists

\* UpdateLastWeekList, UpdateOneTime, and the list for the center.
WeekGoes(c) ==
    /\ Goes(IF c.at = "exists" /\ db.lastweek # <<>> THEN <<[c EXCEPT !.at = "del"]>>
            ELSE IF c.at = "onetime" THEN <<>>
            ELSE IF c.i < Len(c.names) THEN <<[c EXCEPT !.at = "push", !.i = @ + 1]>>
            ELSE <<[c EXCEPT !.at = "onetime"]>>)
    /\ IF c.at = "onetime"
       THEN LET new == {<<e.uid, e.of>> : e \in {e \in Range(c.list) : e.weekhonor > 0}}
            IN  rewarded' = rewarded \cup new /\ again' = again \cup {r[1] : r \in new \cap rewarded}
       ELSE UNCHANGED <<rewarded, again>>
    /\ UNCHANGED <<top, last, latest, late, torn>>

InfoGoes(c) ==
    IF c.at < Len(Fields) THEN Goes(<<[c EXCEPT !.at = @ + 1]>>) /\ SameLists
    ELSE Goes(<<>>) /\ UpdateTopList(c.info) /\ UNCHANGED <<last, rewarded, again>>

GameGoes(c) ==
    /\ Goes(IF c.at = "exists" THEN <<[c EXCEPT !.at = IF db.games > 0 THEN "incr" ELSE "set"]>> ELSE <<>>)
    /\ SameLists

Answer ==
    /\ co # <<>> /\ db' = Do(db, Head(co))
    /\ \E c \in {Head(co)} :
         \/ c.op = "info" /\ InfoGoes(c)
         \/ c.op = "save" /\ SaveGoes(c)
         \/ c.op = "week" /\ WeekGoes(c)
         \/ c.op = "game" /\ GameGoes(c)
    /\ UNCHANGED <<player, notice, sunday, clock, week, games, raced, left>>

\* GetTopList and GetTopList1
Loaded(d, l) == Sorted(l, [i \in DOMAIN d.lists[l] |-> d.uinfo[d.lists[l][i]]])

\* The server stops, when the database has done some of the calls, and is
\* started: Init.  Players come back with what MySQL has of them.
Restart ==
    /\ Use("restart")
    /\ \E n \in 0..Len(co) :
         LET d == FoldLeft(Do, db, SubSeq(co, 1, n))
         IN  /\ db' = d
             /\ \E s \in Loaded(d, "score"), m \in Loaded(d, "money"), h \in Loaded(d, "dayhonor"), w \in Loaded(d, "weekhonor") :
                  /\ top' = [score |-> s, money |-> m, dayhonor |-> h, weekhonor |-> w]
                  /\ late' = late \cup {e.uid : e \in {e \in Range(w) : e.of # week}}
             /\ last' = SelectSeq([i \in 1..LastSize |-> IF i <= Len(d.lastweek) THEN d.lastweek[i] ELSE Void], LAMBDA x : x # Void)
             /\ latest' = d.uinfo
             /\ games' = d.games
    /\ co' = <<>> /\ notice' = {}
    /\ player' = [u \in Reporter |-> IF u \in notice THEN Fresh(player[u]) ELSE player[u]]
    /\ UNCHANGED <<sunday, clock, week, rewarded, again, torn, raced>>

RankNext ==
    \/ \E u \in Reporter : Report(u) \/ Notice(u)
    \/ UpdateTopListToRedis \/ RecordGameNum \/ FlushDay \/ FlushHonor
    \/ Answer \/ Restart

-----------------------------------------------------------------------------
\* A player is in a list at one place, with what was reported of him last,
\* and the lists are in order and never too long, over restarts too, unless
\* a list changed while it was written.
Ranked ==
    \A l \in Names :
      /\ InOrder(l, top[l]) /\ (torn \/ Len(top[l]) <= TopSize)
      /\ torn \/ (IsInjective([i \in DOMAIN top[l] |-> top[l][i].uid]) /\ \A e \in Range(top[l]) : e[l] = latest[e.uid][l])

\* The honour of a week is rewarded once, unless a report of the old week
\* came into the lists of the next, or a restart brought the old list back.
RewardedOnce == again \subseteq late

\* The count of a day's games is right when none is under way, unless two
\* were recorded at once.
GamesCounted == raced \/ db.games + Len(SelectSeq(co, LAMBDA c : c.op = "game")) = games
=============================================================================
