-------------------------------- MODULE Purse -------------------------------
(***************************************************************************)
(* The money of a player: the row of the database service (database.lua),  *)
(* what the agent of a player who is online counts on its own (agent.lua), *)
(* the player center (playercenter.lua), which sends the administrator's   *)
(* money and what was bought to the agent or to the database, and the shop *)
(* (shop.lua).  The agent writes what changed to the row, and never reads  *)
(* the row again before the next login.  dt is the second currency         *)
(* (dtmoney), box the safe box.                                            *)
(*                                                                         *)
(* Every service handles its messages in order; an agent that waits for    *)
(* the answer to a call goes on with others.  The log tables are what they *)
(* are once the messages on their way are handled.                         *)
(***************************************************************************)
EXTENDS Common, Sequences
LOCAL INSTANCE SequencesExt

CONSTANTS
    Player,         \* players
    Purse,          \* player -> what the row holds at first: money, dt and box (or NoBox)
    NoBox,          \* a player without a safe box
    BoxMax,         \* vip level -> SAFE_BOX_MAX_MONEY
    Amount,         \* what the administrator adds and takes, a match wins, a player moves
    Gift,           \* reward_money[friend_send]
    MinGift,        \* who has less may not help a friend
    Fee,            \* of a match
    Packet,         \* reward_money[redpacket]
    Price,          \* of a good, in dt
    Worth,          \* what a good adds to the money
    Week            \* the reward of the week, in dt

VARIABLES
    row,            \* player -> money, dt and box in the database
    agent,          \* player -> what the agent counts
    online,         \* the center's all_player: player -> out, in or lock
    mail,           \* service -> the messages it has not handled
    told,           \* player -> how often the client learned of a friend's gift
    logged,         \* player -> sums of the rows of the two logs, safe box rows aside
    lost,           \* player -> what was logged and is in no row and with no agent
    excused,        \* players to whom something happened that may lose money
    unsaved         \* players whose box was not written, and not read since

purseVars == <<row, agent, online, mail, told, logged, lost, excused, unsaved>>

Nothing == [money |-> 0, dt |-> 0]

\* The game lets nobody leave the table before the loser has paid.
InMatch(p) == \E i \in DOMAIN mail[p] : mail[p][i].op = "result"

\* An agent before its player has logged in.
NoAgent == [phase |-> "none", login |-> FALSE, lock |-> FALSE, lockmoney |-> FALSE, seated |-> FALSE, vip |-> 0,
            money |-> 0, upmoney |-> 0, dtmoney |-> 0, updtmoney |-> 0, safebox |-> NoBox, boxlogin |-> FALSE]

PurseInit ==
    /\ row = Purse
    /\ agent = [p \in Player |-> NoAgent]
    /\ online = [p \in Player |-> "out"]
    /\ mail = [s \in Player \cup {"mysql", "center", "shop"} |-> <<>>]
    /\ told = [p \in Player |-> 0]
    /\ logged = [p \in Player |-> Nothing] /\ lost = [p \in Player |-> Nothing]
    /\ excused = {} /\ unsaved = {}

-----------------------------------------------------------------------------
(* Messages, and the books of an agent *)

\* A message for an agent that is gone is dropped.
Posted(box, to, m) ==
    IF to \in Player /\ agent[to].phase = "none" THEN box ELSE [box EXCEPT ![to] = Append(@, m)]

Post(to, m)    == mail' = Posted(mail, to, m)
Taken(s)       == [mail EXCEPT ![s] = Tail(@)]
Answer(s, to, m) == mail' = Posted(Taken(s), to, m)
Set(p, a)      == agent' = [agent EXCEPT ![p] = a]

\* The handlers of an agent start when it has loaded its player.
Loaded(p) == agent[p].phase \in {"boxing", "online", "leaving"}

\* MoneyLog and DtmoneyLog.
Log(p, m, d) == logged' = [logged EXCEPT ![p] = [money |-> @.money + m, dt |-> @.dt + d]]

\* The money of an agent changes that has written its changes and is about to go.
Late(p, a) == excused' = IF agent[p].phase = "leaving" /\ a # agent[p] THEN excused \cup {p} ELSE excused

AddMoney(a, m) == [a EXCEPT !.money = @ + m, !.upmoney = @ + m]
\* More than the player has is refused.
LoseMoney(a, m) == IF m > a.money THEN a ELSE AddMoney(a, -m)
AddDtmoney(a, d) == [a EXCEPT !.dtmoney = @ + d, !.updtmoney = @ + d]

\* A handler that changes the money of its player, and logs it.
Earn(p, a) ==
    /\ Set(p, a) /\ Late(p, a)
    /\ Log(p, a.money - agent[p].money, a.dtmoney - agent[p].dtmoney)
    /\ UNCHANGED <<row, online, told, lost>>

\* One that changes nothing that is logged.
Keep(p, a) == Set(p, a) /\ UNCHANGED <<row, online, told, logged, lost, excused>>

-----------------------------------------------------------------------------
(* Logging in and out *)

Login(p) ==
    /\ Use("login")
    /\ agent[p].phase = "none" /\ online[p] = "out"
    /\ mail' = [mail EXCEPT !["center"] = Append(@, [op |-> "login", p |-> p])]
    /\ Keep(p, [NoAgent EXCEPT !.phase = "asked"])

LoggedIn(p, m) ==
    /\ Answer(p, "mysql", [op |-> "playerconf", p |-> p])
    /\ Keep(p, [agent[p] EXCEPT !.phase = "loading"])

\* GetSelfGameConf, and LoginSucc: the day's gift of a vip card, the safe box.
GetSelfGameConf(p, m) ==
    \E gift \in {0} \cup IF May("daily") THEN Amount ELSE {}, v \in DOMAIN BoxMax :
    LET a == [agent[p] EXCEPT !.phase = "boxing", !.money = m.money, !.dtmoney = m.dt, !.login = TRUE, !.vip = v]
    IN  /\ mail' = [Taken(p) EXCEPT !["mysql"] = @ \o <<[op |-> "cowdung", p |-> p, dt |-> m.dt, add |-> 0],
                                                        [op |-> "safebox", p |-> p]>>]
        /\ Set(p, AddMoney(a, gift)) /\ Log(p, gift, 0)
        /\ UNCHANGED <<row, online, told, lost, excused>>

\* The row of the box, for LoginSucc and for LoginSafeBox.
GetSafeBox(p, m) ==
    /\ mail' = Taken(p)
    /\ Keep(p, [agent[p] EXCEPT !.safebox = IF m.box = NoBox THEN @ ELSE m.box,
                                !.boxlogin = IF m.box = NoBox THEN @ ELSE agent[p].phase # "boxing",
                                !.phase = IF @ = "boxing" THEN "online" ELSE @])

\* UpdateToDB: the changes go to the row.
UpdateToDB(box, p) ==
    LET a == agent[p] IN
    IF a.login /\ (a.upmoney # 0 \/ a.updtmoney # 0)
    THEN Posted(box, "mysql", [op |-> "update", p |-> p, money |-> a.upmoney, dt |-> a.updtmoney]) ELSE box

Written(a) == IF a.login THEN [a EXCEPT !.upmoney = 0, !.updtmoney = 0] ELSE a

\* At the end of a match (PlayOneMatch).
Save(p) ==
    /\ Use("save")
    /\ agent[p].phase = "online"
    /\ mail' = UpdateToDB(mail, p)
    /\ Keep(p, Written(agent[p]))

\* Exit writes the changes first and asks the center for the lock then.
Exit(p) ==
    /\ Use("exit")
    /\ agent[p].phase = "online" /\ ~agent[p].lock
    /\ mail' = Posted(UpdateToDB(mail, p), "center", [op |-> "lock", p |-> p])
    /\ Keep(p, [Written(agent[p]) EXCEPT !.lock = TRUE, !.phase = "leaving"])

\* The lock is refused, or the game does not let the player go, or the box
\* is written and the center forgets the player; nothing else is handled
\* until it answers (blockcall).
ExitLocked(p, m) ==
    LET a == agent[p] stay == [a EXCEPT !.lock = FALSE, !.phase = "online"] IN
    \/ ~m.ok /\ mail' = Taken(p) /\ Keep(p, stay)
    \/ m.ok /\ a.seated /\ Answer(p, "center", [op |-> "unlock", p |-> p]) /\ Keep(p, stay)
    \/ /\ m.ok /\ ~InMatch(p)
       /\ mail' = Posted(IF a.safebox = NoBox THEN Taken(p)
                         ELSE Posted(Taken(p), "mysql", [op |-> "updatebox", p |-> p, box |-> a.safebox, up |-> 0]),
                         "center", [op |-> "logout", p |-> p])
       /\ Keep(p, [a EXCEPT !.phase = "gone", !.login = FALSE, !.seated = FALSE])

\* The agent is gone with what it did not write.
Gone(p, m) ==
    /\ mail' = [mail EXCEPT ![p] = <<>>]
    /\ Set(p, NoAgent)
    /\ lost' = [lost EXCEPT ![p] = [money |-> @.money + agent[p].upmoney, dt |-> @.dt + agent[p].updtmoney]]
    /\ UNCHANGED <<row, online, told, logged, excused>>

-----------------------------------------------------------------------------
(* The table: a match takes a fee, and what the losers have *)

SitDown(p) ==
    /\ Use("sit")
    /\ agent[p].phase = "online" /\ ~InMatch(p)
    /\ Keep(p, [agent[p] EXCEPT !.seated = ~@]) /\ UNCHANGED mail

EventAddMoney(p) ==
    /\ Use("win")
    /\ Loaded(p) /\ agent[p].seated
    /\ \E m \in Amount : Earn(p, AddMoney(agent[p], m))
    /\ UNCHANGED mail

TakeFee(p) ==
    /\ Use("fee")
    /\ Loaded(p) /\ agent[p].seated
    /\ Earn(p, LoseMoney(agent[p], Fee)) /\ UNCHANGED mail

\* The game answers with no more than the loser said it has.
LoserGetResult(p) ==
    /\ Use("lose")
    /\ Loaded(p) /\ agent[p].seated
    /\ Post(p, [op |-> "result", p |-> p, lose |-> agent[p].money])
    /\ Keep(p, [agent[p] EXCEPT !.lockmoney = TRUE])

LoserPaid(p, m) ==
    /\ mail' = Taken(p)
    /\ Earn(p, [LoseMoney(agent[p], m.lose) EXCEPT !.lockmoney = FALSE])

\* RedPacket holds lockmoney as well, and lets go of it in any case.
RedPacket(p) ==
    /\ Use("packet")
    /\ Loaded(p)
    /\ \/ Post(p, [op |-> "packet", p |-> p]) /\ Keep(p, [agent[p] EXCEPT !.lockmoney = TRUE])
       \/ UNCHANGED mail /\ Keep(p, [agent[p] EXCEPT !.lockmoney = FALSE])

GetRedPacketReward(p, m) ==
    /\ mail' = Taken(p)
    /\ \E ret \in BOOLEAN :
         Earn(p, [AddMoney(agent[p], IF ret THEN Packet ELSE 0) EXCEPT !.lockmoney = FALSE])

-----------------------------------------------------------------------------
(* The safe box *)


\* UpdateSafeBoxToDB sends the box with the change and forgets the change.
SafeBoxMessage(p, m) == [op |-> "updatebox", p |-> p, box |-> agent[p].safebox + m, up |-> m]

MoveToBox(p, m) ==
    LET a == [LoseMoney(agent[p], m) EXCEPT !.safebox = @ + m] IN
    /\ Post("mysql", SafeBoxMessage(p, m))
    /\ Set(p, a) /\ Late(p, a)
    /\ UNCHANGED <<row, online, told, logged, lost>>

\* What is over the limit stays with the player; a box that is over the limit
\* (a vip card ended) gives back instead.
DealSafeBoxCoin(p) ==
    LET a == agent[p] IN
    /\ Use("box")
    /\ Loaded(p) /\ a.login /\ a.safebox # NoBox /\ a.boxlogin
    /\ \E m \in Amount :
         \/ m <= a.safebox /\ MoveToBox(p, -m)
         \/ /\ ~a.seated /\ a.money >= m
            /\ MoveToBox(p, IF a.safebox + m < BoxMax[a.vip] THEN m ELSE BoxMax[a.vip] - a.safebox)

CreatSafeBox(p) ==
    /\ Use("create")
    /\ agent[p].phase \in {"online", "leaving"} /\ agent[p].login /\ agent[p].safebox = NoBox
    /\ Post("mysql", [op |-> "updatebox", p |-> p, box |-> 0, up |-> 0])
    /\ Keep(p, [agent[p] EXCEPT !.safebox = 0, !.boxlogin = TRUE])

\* Only a box that is not loaded is read.
LoginSafeBox(p) ==
    /\ Use("boxlogin")
    /\ agent[p].phase \in {"online", "leaving"} /\ agent[p].login
    /\ IF agent[p].safebox = NoBox
       THEN Post("mysql", [op |-> "safebox", p |-> p]) /\ Keep(p, agent[p])
       ELSE UNCHANGED mail /\ \E right \in BOOLEAN : Keep(p, [agent[p] EXCEPT !.boxlogin = @ \/ right])

\* GetSelfVip: the card has ended.
VipEnds(p) ==
    /\ Use("vip")
    /\ Loaded(p) /\ agent[p].vip # 0
    /\ Keep(p, [agent[p] EXCEPT !.vip = 0]) /\ UNCHANGED mail

-----------------------------------------------------------------------------
(* Friends *)

\* Reply1: the money goes to the row of the friend, and the friend's client is told.
Reply1(p, q) ==
    LET a == agent[p] IN
    /\ Use("gift")
    /\ Loaded(p) /\ a.login /\ ~a.lock /\ ~a.lockmoney /\ a.money >= MinGift
    /\ Post("mysql", [op |-> "send", p |-> q, from |-> p])
    /\ Earn(p, [LoseMoney(a, Gift) EXCEPT !.lock = TRUE])

MoneySent(p, m) ==
    /\ Answer(p, "center", [op |-> "another", p |-> m.to])
    /\ Keep(p, [agent[p] EXCEPT !.lock = FALSE])

\* The friend's client answers each notice with a request to count the money.
GetSelfDataAgain(p) ==
    /\ told[p] > 0 /\ Loaded(p) /\ agent[p].login
    /\ told' = [told EXCEPT ![p] = @ - 1]
    /\ Set(p, [agent[p] EXCEPT !.money = IF agent[p].lockmoney \/ agent[p].lock THEN @ ELSE @ + Gift])
    /\ UNCHANGED <<row, online, mail, logged, lost, excused, left>>

-----------------------------------------------------------------------------
(* The administrator *)

Admin(p) ==
    /\ Use("admin")
    /\ \E m \in Amount \cup {-x : x \in Amount}, kind \in {"adminmoney", "admindtmoney"} :
         Post("center", [op |-> kind, p |-> p, add |-> m])
    /\ UNCHANGED <<row, agent, online, told, logged, lost, excused>>

\* An agent that has not loaded its player stops with an error and never answers.
AdminAddMoney(p, m) ==
    LET a == agent[p]
        ok == Loaded(p) /\ (m.add >= 0 \/ (~a.lockmoney /\ a.money >= -m.add))
    IN  mail' = Taken(p) /\ Earn(p, IF ok THEN AddMoney(a, m.add) ELSE a)

AdminAddDtmoney(p, m) ==
    LET a == agent[p]
        ok == Loaded(p) /\ (m.add >= 0 \/ (~a.lockmoney /\ a.dtmoney >= -m.add))
    IN  mail' = Taken(p) /\ Earn(p, IF ok THEN AddDtmoney(a, m.add) ELSE a)

-----------------------------------------------------------------------------
(* The shop *)

Order(p) ==
    /\ Use("order")
    /\ Post("shop", [op |-> "buy", p |-> p, from |-> "order"])
    /\ UNCHANGED <<row, agent, online, told, logged, lost, excused>>

\* The price is taken before the shop is asked, and given back if it refuses.
CowExchangeMoney(p) ==
    /\ Use("exchange")
    /\ Loaded(p) /\ agent[p].login /\ agent[p].dtmoney >= Price
    /\ Post("shop", [op |-> "buy", p |-> p, from |-> "agent"])
    /\ Earn(p, AddDtmoney(agent[p], -Price))

Exchanged(p, m) ==
    /\ mail' = Taken(p)
    /\ Earn(p, IF m.ok THEN agent[p] ELSE AddDtmoney(agent[p], Price))

\* The row has the money already.
GetShopResult(p, m) ==
    /\ mail' = Taken(p)
    /\ Keep(p, IF Loaded(p) THEN [agent[p] EXCEPT !.money = @ + Worth] ELSE agent[p])

Shop(m) ==
    /\ \/ m.op = "buy" /\ Answer("shop", "mysql", [m EXCEPT !.op = "shop"])
       \/ /\ m.op = "bought"
          /\ LET done == IF m.ok THEN Posted(Taken("shop"), "center", [op |-> "shop", p |-> m.p]) ELSE Taken("shop")
             IN  mail' = IF m.from = "agent" THEN Posted(done, m.p, [op |-> "exchanged", p |-> m.p, ok |-> m.ok]) ELSE done
    /\ UNCHANGED <<row, agent, online, told, logged, lost, excused, left>>

-----------------------------------------------------------------------------
(* The center *)

Record(p, s) == online' = [online EXCEPT ![p] = s]

CenterLogin(p)  == Record(p, "in") /\ Answer("center", p, [op |-> "loggedin", p |-> p])
CenterLock(p) ==
    /\ Record(p, IF online[p] = "in" THEN "lock" ELSE online[p])
    /\ Answer("center", p, [op |-> "locked", p |-> p, ok |-> online[p] = "in"])
CenterUnlock(p) == Record(p, "in") /\ mail' = Taken("center")
CenterLogout(p) == Record(p, "out") /\ Answer("center", p, [op |-> "gone", p |-> p])

\* The agent of a player who is there, else the database.
CenterAdmin(p, m) == Answer("center", IF online[p] = "in" THEN p ELSE "mysql", m) /\ UNCHANGED online

\* Nobody is told about a purchase while the record is locked.
CenterShop(p, m) ==
    /\ mail' = IF online[p] = "in" THEN Posted(Taken("center"), p, m) ELSE Taken("center")
    /\ UNCHANGED online

AddMoneyAnother(p) ==
    /\ told' = [told EXCEPT ![p] = IF online[p] = "out" THEN @ ELSE @ + 1]
    /\ mail' = Taken("center") /\ UNCHANGED online

CenterWeek(p, m) ==
    /\ Answer("center", "mysql", [op |-> "cowdung", p |-> p, dt |-> m.dt + Week, add |-> Week])
    /\ UNCHANGED online

Center(m) ==
    /\ \/ /\ \/ m.op = "login" /\ CenterLogin(m.p)
             \/ m.op = "lock" /\ CenterLock(m.p)
             \/ m.op \in {"unlock", "taken"} /\ CenterUnlock(m.p)
             \/ m.op = "logout" /\ CenterLogout(m.p)
             \/ m.op \in {"adminmoney", "admindtmoney"} /\ CenterAdmin(m.p, m)
             \/ m.op = "shop" /\ CenterShop(m.p, m)
             \/ m.op = "week" /\ CenterWeek(m.p, m)
          /\ UNCHANGED told
       \/ m.op = "another" /\ AddMoneyAnother(m.p)
    /\ UNCHANGED <<row, agent, logged, lost, excused, left>>

\* The player logs in elsewhere: the center locks the record while the
\* watchdogs swap the connections; the agent stays.
Takeover(p) ==
    /\ Use("takeover")
    /\ online[p] = "in"
    /\ Record(p, "lock") /\ Post("center", [op |-> "taken", p |-> p])
    /\ excused' = excused \cup {p}
    /\ UNCHANGED <<row, agent, told, logged, lost>>

\* send_weekreward reads the row and writes the sum.
WeekReward(p) ==
    /\ Use("week")
    /\ Post("mysql", [op |-> "getcow", p |-> p])
    /\ excused' = excused \cup {p}
    /\ UNCHANGED <<row, agent, online, told, logged, lost>>

-----------------------------------------------------------------------------
(* The database: one service, which waits for each statement *)

Change(p, m, d) == row' = [row EXCEPT ![p].money = @ + m, ![p].dt = @ + d]
Lose(p, m, d) == lost' = [lost EXCEPT ![p] = [money |-> @.money + m, dt |-> @.dt + d]]

\* A statement fails: nobody is told, and whoever sent it has forgotten what
\* it wanted to write and has logged it.
Fails(p) == Use("sqlfail") /\ excused' = excused \cup {p}
Works    == UNCHANGED <<left, excused>>

DbUpdatePlayerconf(m) ==
    /\ mail' = Taken("mysql") /\ UNCHANGED <<logged, unsaved>>
    /\ \/ Works /\ Change(m.p, m.money, m.dt) /\ UNCHANGED lost
       \/ Fails(m.p) /\ Lose(m.p, m.money, m.dt) /\ UNCHANGED row

\* SQL_UPDATE_COWDUNG sets dt, whatever it is by now.
DbUpdateCowdung(m) ==
    /\ mail' = Taken("mysql") /\ Log(m.p, 0, m.add) /\ UNCHANGED unsaved
    /\ \/ Works /\ row' = [row EXCEPT ![m.p].dt = m.dt] /\ Lose(m.p, 0, row[m.p].dt + m.add - m.dt)
       \/ Fails(m.p) /\ Lose(m.p, 0, m.add) /\ UNCHANGED row

BoxOf(r) == IF r.box = NoBox THEN 0 ELSE r.box

\* The first time the box is created, then the change is added.
BoxAfter(b, m) == IF b = NoBox THEN m.box ELSE b + m.up

\* What a statement that failed did not add comes in with the first one that
\* creates the box, and never into a box that is there.
DbUpdateSafeBox(m) ==
    LET new == BoxAfter(row[m.p].box, m) IN
    /\ mail' = Taken("mysql") /\ UNCHANGED logged
    /\ \/ /\ Works /\ UNCHANGED unsaved
          /\ row' = [row EXCEPT ![m.p].box = new]
          /\ Lose(m.p, m.up - (new - BoxOf(row[m.p])), 0)
       \/ Fails(m.p) /\ unsaved' = unsaved \cup {m.p} /\ Lose(m.p, m.up, 0) /\ UNCHANGED row

\* SQL_ADMIN_ADD_MONEY, SQL_ADMIN_ADD_DTMONEY: not below nothing.
DbAdmin(m) ==
    LET dt == IF m.op = "admindtmoney" THEN m.add ELSE 0
        money == m.add - dt
    IN  /\ mail' = Taken("mysql") /\ UNCHANGED <<lost, unsaved>>
        /\ \/ /\ row[m.p].money >= -money /\ row[m.p].dt >= -dt
              /\ Works /\ Change(m.p, money, dt) /\ Log(m.p, money, dt)
           \/ /\ ~(row[m.p].money >= -money /\ row[m.p].dt >= -dt)
              /\ Works /\ UNCHANGED <<row, logged>>
           \/ Fails(m.p) /\ UNCHANGED <<row, logged>>

\* SQL_SHOP adds the money and logs it.
DbShop(m) ==
    /\ \/ Works /\ Change(m.p, Worth, 0) /\ Log(m.p, Worth, 0)
          /\ Answer("mysql", "shop", [op |-> "bought", p |-> m.p, from |-> m.from, ok |-> TRUE])
       \/ Fails(m.p) /\ UNCHANGED <<row, logged>>
          /\ Answer("mysql", "shop", [op |-> "bought", p |-> m.p, from |-> m.from, ok |-> FALSE])
    /\ UNCHANGED <<lost, unsaved>>

\* SQL_SEND_MONEY and SQL_GET_MONEY_VALUE, which the sender waits for: it
\* logs the gift whether it was written or not.  The two statements name the
\* table without a number, which is taken for all the numbered ones in one.
DbSendMoney(m) ==
    /\ Log(m.p, Gift, 0) /\ UNCHANGED unsaved
    /\ Answer("mysql", m.from, [op |-> "sent", p |-> m.from, to |-> m.p])
    /\ \/ Works /\ Change(m.p, Gift, 0) /\ UNCHANGED lost
       \/ Fails(m.p) /\ Lose(m.p, Gift, 0) /\ UNCHANGED row

DbRead(m) ==
    /\ \/ m.op = "playerconf" /\ Answer("mysql", m.p, [op |-> "conf", p |-> m.p, money |-> row[m.p].money, dt |-> row[m.p].dt])
       \/ m.op = "safebox" /\ Answer("mysql", m.p, [op |-> "box", p |-> m.p, box |-> row[m.p].box])
       \/ m.op = "getcow" /\ Answer("mysql", "center", [op |-> "week", p |-> m.p, dt |-> row[m.p].dt])
    /\ unsaved' = IF m.op = "safebox" THEN unsaved \ {m.p} ELSE unsaved
    /\ Works /\ UNCHANGED <<row, logged, lost>>

Database(m) ==
    /\ \/ m.op = "update" /\ DbUpdatePlayerconf(m)
       \/ m.op = "cowdung" /\ DbUpdateCowdung(m)
       \/ m.op = "updatebox" /\ DbUpdateSafeBox(m)
       \/ m.op \in {"adminmoney", "admindtmoney"} /\ DbAdmin(m)
       \/ m.op = "shop" /\ DbShop(m)
       \/ m.op = "send" /\ DbSendMoney(m)
       \/ m.op \in {"playerconf", "safebox", "getcow"} /\ DbRead(m)
    /\ UNCHANGED <<agent, online, told>>

-----------------------------------------------------------------------------
AgentHandles(p, m) ==
    /\ \/ m.op = "loggedin" /\ LoggedIn(p, m)
       \/ m.op = "conf" /\ GetSelfGameConf(p, m)
       \/ m.op = "box" /\ GetSafeBox(p, m)
       \/ m.op = "locked" /\ ExitLocked(p, m)
       \/ m.op = "gone" /\ Gone(p, m)
       \/ m.op = "result" /\ LoserPaid(p, m)
       \/ m.op = "packet" /\ GetRedPacketReward(p, m)
       \/ m.op = "sent" /\ MoneySent(p, m)
       \/ m.op = "adminmoney" /\ AdminAddMoney(p, m)
       \/ m.op = "admindtmoney" /\ AdminAddDtmoney(p, m)
       \/ m.op = "shop" /\ GetShopResult(p, m)
       \/ m.op = "exchanged" /\ Exchanged(p, m)
    /\ UNCHANGED left

\* An agent that has asked the center to forget it waits for that answer alone.
AgentStep(p) ==
    LET ready == IF agent[p].phase = "gone" THEN SelectSeq(mail[p], LAMBDA m : m.op = "gone") ELSE mail[p]
    IN  ready # <<>> /\ AgentHandles(p, Head(ready))

PurseNext ==
    \/ /\ \/ \E p \in Player :
               \/ Login(p) \/ Save(p) \/ Exit(p) \/ AgentStep(p)
               \/ SitDown(p) \/ EventAddMoney(p) \/ TakeFee(p) \/ LoserGetResult(p) \/ RedPacket(p)
               \/ DealSafeBoxCoin(p) \/ CreatSafeBox(p) \/ LoginSafeBox(p) \/ VipEnds(p)
               \/ \E q \in Player \ {p} : Reply1(p, q)
               \/ GetSelfDataAgain(p) \/ Admin(p) \/ Order(p) \/ CowExchangeMoney(p)
               \/ Takeover(p) \/ WeekReward(p)
          \/ mail["center"] # <<>> /\ Center(Head(mail["center"]))
          \/ mail["shop"] # <<>> /\ Shop(Head(mail["shop"]))
       /\ UNCHANGED unsaved
    \/ mail["mysql"] # <<>> /\ Database(Head(mail["mysql"]))

-----------------------------------------------------------------------------
Coming(p, F(_)) == FoldLeft(LAMBDA s, m : IF m.p = p THEN s + F(m) ELSE s, 0, mail["mysql"])

\* What a player has in the row and in the box, what is on its way there and
\* what the agent has to write yet.
ComingMoney(p) == Coming(p, LAMBDA m : IF m.op = "update" THEN m.money ELSE IF m.op = "updatebox" THEN m.up ELSE 0)
ComingDt(p)    == Coming(p, LAMBDA m : IF m.op = "update" THEN m.dt ELSE 0)

\* The logs explain what every player has, in the row, in the safe box, on
\* its way to the database and still with the agent: whatever the agent, the
\* administrator, the shop, a friend or a match adds or takes is logged once
\* and counted once, whoever writes it and whenever it is written.  What a
\* statement that failed did not write is counted as lost.
LogsBalance ==
    \A p \in Player :
        /\ row[p].money + BoxOf(row[p]) + ComingMoney(p) + agent[p].upmoney + lost[p].money
             = Purse[p].money + BoxOf(Purse[p]) + logged[p].money
        /\ row[p].dt + ComingDt(p) + agent[p].updtmoney + lost[p].dt = Purse[p].dt + logged[p].dt

\* The safe box of a player who is online is the row once what is on its way
\* is there, so that a deposit or a withdrawal is never counted twice; until a
\* statement for it fails, which the agent does not learn, and from the next
\* time the row is read.
BoxBacked ==
    \A p \in Player \ unsaved :
        agent[p].phase \in {"online", "leaving"} /\ agent[p].safebox # NoBox =>
            agent[p].safebox = FoldLeft(LAMBDA b, m : IF m.p = p /\ m.op = "updatebox" THEN BoxAfter(b, m) ELSE b,
                                        row[p].box, mail["mysql"])

\* While lockmoney holds, a loser still has what the match will take: the
\* administrator and a friend's request wait.
LoserPays ==
    \A p \in Player : \A i \in DOMAIN mail[p] :
        mail[p][i].op = "result" /\ agent[p].lockmoney => mail[p][i].lose <= agent[p].money

\* Money that was logged is lost only when it comes to an agent that has
\* written its changes and waits for the lock, when a statement fails (a
\* withdrawal from the box is doubled then, a deposit gone), or
\* when the second currency is set while others add to it (a takeover during
\* the login, the reward of the week).
LossesExplained == \A p \in Player : lost[p] # Nothing => p \in excused
=============================================================================
