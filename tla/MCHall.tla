-------------------------------- MODULE MCHall --------------------------------
(***************************************************************************)
(* The services around the games, for TLC: login, presence, rankings,      *)
(* ledger, safe box, purse, shop, tasks and logs.  A behaviour follows one *)
(* of them, the one its mix of operations names, while the others rest:    *)
(* the run explores the sum of their state spaces, not the product.        *)
(***************************************************************************)
EXTENDS Common, Sequences, TLC

CONSTANTS
    Session, Ptype, Account,                          \* Login
    Person, Robot, Girls, MaxList, MaxGirls,          \* Presence
    Reporter, TopSize, LastSize, Result,              \* Rankings
    Platform, Stake, Payment, Learner, Threshold, Score,   \* Records: the database
    Password, Secret,                                 \* SafeBox
    Player, Purse, NoBox, BoxMax, Amount, Gift, MinGift, Fee, Packet, Price, Worth,
    Week,                                             \* Purse
    Orders, Counts, Goods, FaceCard, Day, MaxDayLogin,
    MaxTime,                                          \* Shop
    Count, Once, Times, PacketTime, PlayAt, HonorAt, DayLength, MonthLength,
    LastTime,                                         \* Tasks
    MaxNum, LogSize, LogNum                           \* Records: the log files

VARIABLES
    conn, agent_all, forward, all_player, server_close, aborted, toWatchdog, evicted,
    loginAgentOf, loginToCenter, loginToAgent,
    allPlayer, agentOf, blockedPlayer, blacklist, friendRows, hour, toCenter, toMysql,
    unsent, presenceAsked, states, shown, presenceCrossed, presenceFailed,
    player, notice, sunday, clock, week, top, last, db, co, latest, rankRewarded, again, late,
    torn, games, raced,
    backmoney, bakcount, ledgerPaid, failed, coincount, active, stale, mission, rewarded,
    unrecorded, title,
    boxRow, kept, session, dbBox, toAgent, change, boxTold, crossing, unwritten,
    row, agent, online, mail, told, logged, lost, excused, unsaved,
    now, rows, paid, lasttime, loginnum, in, tools, vip, viptime, score, sql, calls,
    replies, delivered, seen, unclosed, blind, gifts, crossed,
    taskClock, taskconf, userlog, ptypes, member, self, news, asked, answers, given,
    withheld, matches, needed, taskExcused,
    disk, normalLog, adminLog, adminDisk, playerLog, playerDisk, logDay, serverRun, line,
    oldFiles

loginVars ==
    <<conn, agent_all, forward, all_player, server_close, aborted, toWatchdog, evicted,
      loginAgentOf, loginToCenter, loginToAgent>>
presenceVars ==
    <<allPlayer, agentOf, blockedPlayer, blacklist, friendRows, hour, toCenter, toMysql,
      unsent, presenceAsked, states, shown, presenceCrossed, presenceFailed>>
rankVars ==
    <<player, notice, sunday, clock, week, top, last, db, co, latest, rankRewarded, again, late,
      torn, games, raced>>
ledgerVars ==
    <<backmoney, bakcount, ledgerPaid, failed, coincount, active, stale, mission, rewarded,
      unrecorded, title>>
safeBoxVars == <<boxRow, kept, session, dbBox, toAgent, change, boxTold, crossing, unwritten>>
purseVars == <<row, agent, online, mail, told, logged, lost, excused, unsaved>>
shopVars ==
    <<now, rows, paid, lasttime, loginnum, in, tools, vip, viptime, score, sql, calls,
      replies, delivered, seen, unclosed, blind, gifts, crossed>>
tasksVars ==
    <<taskClock, taskconf, userlog, ptypes, member, self, news, asked, answers, given,
      withheld, matches, needed, taskExcused>>
logVars ==
    <<disk, normalLog, adminLog, adminDisk, playerLog, playerDisk, logDay, serverRun, line,
      oldFiles>>

L == INSTANCE Login WITH
    Player <- Account, agentOf <- loginAgentOf, toCenter <- loginToCenter,
    toAgent <- loginToAgent
P == INSTANCE Presence WITH
    asked <- presenceAsked, crossed <- presenceCrossed, failed <- presenceFailed
R == INSTANCE Rankings WITH rewarded <- rankRewarded
D == INSTANCE Records WITH paid <- ledgerPaid
B == INSTANCE SafeBox WITH told <- boxTold
M == INSTANCE Purse
S == INSTANCE Shop
T == INSTANCE Tasks WITH clock <- taskClock, excused <- taskExcused

rest == <<loginVars, presenceVars, rankVars, ledgerVars, safeBoxVars,
          purseVars, shopVars, tasksVars, logVars>>

(* The mixes name the part they are for.                                   *)
Of(part, mixes) == {(part :> 1) @@ mix : mix \in mixes}

HallMixes ==
    Of("Login", {
        [open |-> 2, data |-> 3, close |-> 1],
        [open |-> 2, data |-> 2, heart |-> 1, close |-> 1],
        [open |-> 3, data |-> 2, close |-> 1],
        [open |-> 2, data |-> 2, shut |-> 1, stay |-> 1],
        [open |-> 2, data |-> 2, noconf |-> 1, close |-> 1, stay |-> 1]}) \cup
    Of("Presence", {
        [come |-> 5, enter |-> 2, online |-> 1],
        [come |-> 2, go |-> 1, enter |-> 1, quit |-> 1, info |-> 1],
        [come |-> 2, friends |-> 1, enter |-> 1],
        [come |-> 2, friend |-> 2],
        [come |-> 2, friend |-> 1, go |-> 1],
        [come |-> 2, friend |-> 1, fail |-> 1],
        [come |-> 1, block |-> 1, hour |-> 1, enter |-> 1, quit |-> 1, restart |-> 1, go |-> 1],
        [come |-> 1, block |-> 2, restart |-> 1],
        [block |-> 2, hour |-> 1, restart |-> 1, fail |-> 1]}) \cup
    Of("Rankings", {
        [report |-> 3],
        [report |-> 2, save |-> 1, restart |-> 1],
        [report |-> 1, week |-> 1, restart |-> 1, save |-> 1],
        [report |-> 2, week |-> 1],
        [report |-> 1, day |-> 1, save |-> 1, restart |-> 1],
        [report |-> 2, day |-> 1],
        [report |-> 1, day |-> 1, week |-> 1, save |-> 1],
        [report |-> 1, week |-> 2, restart |-> 1],
        [report |-> 1, week |-> 1, save |-> 2],
        [game |-> 3, restart |-> 1]}) \cup
    Of("Ledger", {
        [pay |-> 4],
        [pay |-> 4, sqlfails |-> 1],
        [active |-> 5, sqlfails |-> 1],
        [learn |-> 4, sqlfails |-> 1],
        [title |-> 2]}) \cup
    Of("SafeBox", {
        [session |-> 2, open |-> 1, deal |-> 1, admin |-> 1, change |-> 1, nosql |-> 1],
        [session |-> 2, create |-> 1, forgot |-> 1, admin |-> 1, open |-> 1],
        [session |-> 1, create |-> 1, open |-> 2, change |-> 1, question |-> 1, admin |-> 1]}) \cup
    Of("Purse", {
        [login |-> 2, exit |-> 1, admin |-> 1],
        [login |-> 2, exit |-> 1, box |-> 2, sqlfail |-> 1],
        [login |-> 1, sit |-> 1, lose |-> 1, admin |-> 1, packet |-> 1, win |-> 1],
        [login |-> 2, gift |-> 1, exit |-> 1, sqlfail |-> 1],
        [login |-> 1, order |-> 1, exchange |-> 1, sqlfail |-> 1, exit |-> 1],
        [login |-> 1, week |-> 1, exchange |-> 1, save |-> 1],
        [login |-> 1, takeover |-> 1, admin |-> 1, exit |-> 1, sqlfail |-> 1],
        [login |-> 1, boxlogin |-> 1, create |-> 1, box |-> 2, vip |-> 1, save |-> 1, sqlfail |-> 1],
        [login |-> 1, sit |-> 1, fee |-> 1, exit |-> 1, daily |-> 1],
        [login |-> 1, sit |-> 2, lose |-> 1, box |-> 1, boxlogin |-> 1, exit |-> 1]}) \cup
    Of("Shop", {
        [order |-> 3, sqlfail |-> 1],
        [send |-> 2, tick |-> 3],
        [order |-> 1, login |-> 2, exit |-> 1, tick |-> 1],
        [order |-> 1, login |-> 1, tick |-> 4],
        [send |-> 1, login |-> 1, use |-> 1, broadcast |-> 1],
        [login |-> 3, exit |-> 2, tick |-> 2, send |-> 1]}) \cup
    Of("Tasks", {
        [login |-> 2, exit |-> 1, protect |-> 3, demand |-> 1],
        [login |-> 1, protect |-> 2, lock |-> 1, tick |-> 3],
        [login |-> 1, protect |-> 2, demand |-> 1, packet |-> 2, packettask |-> 1, tick |-> 1],
        [login |-> 2, exit |-> 1, sit |-> 2, scratch |-> 2, tick |-> 3, enter |-> 1],
        [login |-> 1, sit |-> 1, scratch |-> 3, tick |-> 6],
        [login |-> 1, sit |-> 1, scratch |-> 2, tick |-> 2, lock |-> 1],
        [login |-> 1, sit |-> 1, enter |-> 1, match |-> 3, tick |-> 2],
        [login |-> 1, relogin |-> 1, sit |-> 1, enter |-> 1, match |-> 2],
        [login |-> 1, sit |-> 1, enter |-> 1, lock |-> 1, match |-> 2],
        [login |-> 1, reward |-> 3, tick |-> 4]}) \cup
    Of("LogFiles", {
        [log |-> 14, restart |-> 1, noopen |-> 1],
        [admin |-> 4, restart |-> 1],
        [login |-> 8, restart |-> 2, midnight |-> 1]})

-----------------------------------------------------------------------------
Part(p) == p \in DOMAIN left

(* A part that rests has one initial state.                                *)
Init ==
    /\ MixInit
    /\ L!LoginInit /\ P!PresenceInit /\ R!RankInit /\ D!LedgerInit
    /\ B!SafeBoxInit /\ M!PurseInit /\ S!ShopInit /\ T!TasksInit /\ D!LogInit
    /\ Part("SafeBox") \/ boxRow = Void

Next ==
    \/ Part("Login") /\ L!LoginNext
       /\ UNCHANGED <<presenceVars, rankVars, ledgerVars, safeBoxVars,
                      purseVars, shopVars, tasksVars, logVars>>
    \/ Part("Presence") /\ P!PresenceNext
       /\ UNCHANGED <<loginVars, rankVars, ledgerVars, safeBoxVars,
                      purseVars, shopVars, tasksVars, logVars>>
    \/ Part("Rankings") /\ R!RankNext
       /\ UNCHANGED <<loginVars, presenceVars, ledgerVars, safeBoxVars,
                      purseVars, shopVars, tasksVars, logVars>>
    \/ Part("Ledger") /\ D!LedgerNext
       /\ UNCHANGED <<loginVars, presenceVars, rankVars, safeBoxVars,
                      purseVars, shopVars, tasksVars, logVars>>
    \/ Part("SafeBox") /\ B!SafeBoxNext
       /\ UNCHANGED <<loginVars, presenceVars, rankVars, ledgerVars,
                      purseVars, shopVars, tasksVars, logVars>>
    \/ Part("Purse") /\ M!PurseNext
       /\ UNCHANGED <<loginVars, presenceVars, rankVars, ledgerVars,
                      safeBoxVars, shopVars, tasksVars, logVars>>
    \/ Part("Shop") /\ S!ShopNext
       /\ UNCHANGED <<loginVars, presenceVars, rankVars, ledgerVars,
                      safeBoxVars, purseVars, tasksVars, logVars>>
    \/ Part("Tasks") /\ T!TasksNext
       /\ UNCHANGED <<loginVars, presenceVars, rankVars, ledgerVars,
                      safeBoxVars, purseVars, shopVars, logVars>>
    \/ Part("LogFiles") /\ D!LogNext
       /\ UNCHANGED <<loginVars, presenceVars, rankVars, ledgerVars,
                      safeBoxVars, purseVars, shopVars, tasksVars>>

Spec == Init /\ [][Next]_<<rest, left>>

-----------------------------------------------------------------------------
(* The constants.                                                          *)
HallPtype == <<"S", "S", "W">>
HallGirls == <<2, 4, 1>>
HallResult == {[score |-> 2, money |-> -1, honor |-> 1]}
HallThreshold == <<0, 3, 5>>
HallScore == -1 .. 6
HallPurse == [p1 |-> [money |-> 3, dt |-> 2, box |-> 1], p2 |-> [money |-> 1, dt |-> 0, box |-> NoBox]]
HallBoxMax == 0 :> 2 @@ 1 :> 4
HallOrders == <<[good |-> "vip", count |-> 2], [good |-> "coin", count |-> 1]>>
Article(k, u, l, m, d, v) ==
    [typeid |-> k, ucount |-> u, lasts |-> l, money |-> m, dmoney |-> d, vip |-> v]
HallGoods ==
    "vip" :> Article(1, 0, 3, 1, 1, 1) @@ "coin" :> Article(3, 3, 0, 1, 1, 0) @@
    "clear" :> Article(2, 1, 0, 0, 0, 0) @@ "loud" :> Article(4, 1, 0, 0, 0, 0) @@
    "score" :> Article(5, 1, 2, 0, 0, 0) @@ "face" :> Article(6, 1, 2, 0, 0, 0) @@
    "money" :> Article(3, 1, 0, 1, 0, 0)
HallCount ==
    "protect" :> 2 @@ "friend_send" :> 2 @@ "redpacket" :> 2 @@ "scratch" :> 2 @@
    "play" :> 1 @@ "honor" :> 1 @@ "day_login" :> 1 @@ "learn_course" :> 1
HallTimes == <<1, 2>>

-----------------------------------------------------------------------------
(* agent.lua, playercenter.lua, watchdog.lua and the gate: one agent serves *)
(* a player, everybody agrees which and on what connection, and the server *)
(* stops when nobody is left (OneLogin, SessionsAgree, NobodyLost of Login). *)
LoginRight == Part("Login") => L!OneLogin /\ L!SessionsAgree /\ L!NobodyLost

(* playercenter.lua, database.lua and agent.lua: the list of players       *)
(* online is as long and as mixed as promised, and friends and blocked     *)
(* players are those of the database (OnlineRight, FriendsAgree and        *)
(* BlockedAgree of Presence).                                              *)
PresenceRight == Part("Presence") => P!OnlineRight /\ P!FriendsAgree /\ P!BlockedAgree


(* What is written down: database.lua counts the payments, the active      *)
(* players and the first lessons once (LedgerRight of Records), the safe   *)
(* box keeps the password that was told last, unless its statement failed  *)
(* or an old one crossed it (PasswordKept of SafeBox),                     *)
(* and log.lua keeps the newest files in order and numbers the logins of   *)
(* a day (NewestKept and LoginsNumbered of Records).                       *)
RecordsRight ==
    /\ Part("Ledger") => D!LedgerRight
    /\ Part("SafeBox") => B!PasswordKept
    /\ Part("LogFiles") => D!NewestKept /\ D!LoginsNumbered


(* shop.lua, database.lua and agent.lua: orders are delivered once, tools  *)
(* bought one after the other last one after the other, and a card gives   *)
(* what it has (DeliveredOnce, PeriodsApart and CardsCounted of Shop);     *)
(* orders of which a failed statement left a part undone stay apart.       *)
ShopRight == Part("Shop") => S!DeliveredOnce /\ S!PeriodsApart /\ S!CardsCounted

(* agent.lua, playercenter.lua and database.lua: a task is rewarded as     *)
(* often as the day allows and for what was done (TasksCounted,            *)
(* PlayedForIt and TicketsTimed of Tasks).                                 *)
TasksRight == Part("Tasks") => T!TasksCounted /\ T!PlayedForIt /\ T!TicketsTimed
=============================================================================
