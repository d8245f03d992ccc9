--------------------------------- MODULE Shop -------------------------------
(***************************************************************************)
(* Orders and tools: the administrator's watchdog (adminwatchdog.lua),     *)
(* which is notified of a paid order, the shop (shop.lua), the tool rows   *)
(* and the orders of the database service (database.lua), and the tools an *)
(* agent has loaded (agent.lua), for one player.  A vip card (kind 1), a   *)
(* score card (5) and a face card (6) last some time from their utime on,  *)
(* a coin card (3) gives money on the first login of num days, a clearing  *)
(* card (2) and a loudspeaker (4) are used once.  Each statement of a       *)
(* purchase may fail, one in a purchase; those that write what an agent     *)
(* has loaded, and read it, do not.                                         *)
(***************************************************************************)
EXTENDS Common, Sequences, FiniteSets, Bags
LOCAL INSTANCE SequencesExt

CONSTANTS
    Orders,         \* order -> the good that was paid, and how many of it
    Counts,         \* how many of a good the administrator may give
    Goods,          \* good -> typeid, ucount, lasts (udays), money (fmoney + dmoney), dmoney, vip
    FaceCard,       \* the good of kind 6 that comes with a purchase
    Day,            \* the length of a day
    MaxDayLogin,    \* task.MaxDayLoginCount()
    MaxTime         \* bound: time stands still

VARIABLES
    now,            \* os.time()
    rows,           \* dt_member_tool: the rows of the player, by id
    paid,           \* the orders with responsestatus 3
    lasttime,       \* dt_member: of the last login
    loginnum,       \* dt_member: days logged in one after the other
    in,             \* the agent has loaded its player
    tools,          \* the agent: id -> a loaded tool
    vip, viptime,   \* the agent: level and end
    score,          \* the agent
    sql,            \* messages to the database
    calls,          \* a bag: what the watchdog, the shop and the agent have yet to receive
    replies,        \* the database's answers to the agent, in order
    delivered,      \* order -> how often it was delivered
    seen,           \* order -> how many notices found it unpaid
    unclosed,       \* history: orders of which something was delivered before a statement failed
    blind,          \* history: rows written when the periods could not be read
    gifts,          \* row -> how often a coin card gave its money
    crossed         \* history: a gift was made while the tools were being read again

tables   == <<rows, paid, lasttime, loginnum>>
agent    == <<in, tools, vip, viptime, score>>
history  == <<delivered, seen, unclosed, blind, gifts, crossed>>
shopVars == <<now, tables, agent, sql, calls, replies, history>>

ShopInit ==
    /\ now = Day /\ rows = <<>> /\ paid = {} /\ lasttime = 0 /\ loginnum = 0
    /\ in = FALSE /\ tools = <<>> /\ vip = 0 /\ viptime = 0 /\ score = -3
    /\ sql = <<>> /\ calls = EmptyBag /\ replies = <<>>
    /\ delivered = [o \in DOMAIN Orders |-> 0] /\ seen = delivered
    /\ unclosed = {} /\ blind = {} /\ gifts = <<>> /\ crossed = FALSE

Today == (now \div Day) * Day      \* midnight

Reload == -1    \* the days of a reading that no login made

Told(b, cs) == b (+) SetToBag(cs)
Without(c)  == calls (-) SetToBag({c})

-----------------------------------------------------------------------------
(* A notice of an order, and the shop *)

\* ADMIN_SOMEONE_SHOP, for a web server that may send it again.
SomeoneShop(o) ==
    /\ Use("order")
    /\ sql' = Append(sql, [op |-> "getorder", order |-> o])
    /\ UNCHANGED <<now, tables, agent, calls, replies, history>>

\* ADMIN_SEND_TOOL, and the exchange of an agent: no order.
SendTool(g, n) ==
    /\ Use("send")
    /\ calls' = Told(calls, {[op |-> "shop", good |-> g, count |-> n, order |-> 0, free |-> FALSE]})
    /\ UNCHANGED <<now, tables, agent, sql, replies, history>>

\* EVENT_SHOP: what is written depends on the kind.  Only vip and score cards
\* are told how long they last; a coin card without a daily gift has no row.
Conf(c) ==
    LET g == Goods[c.good] IN
    [op |-> "sqlshop", good |-> c.good, count |-> c.count, order |-> c.order, free |-> c.free, kind |-> g.typeid,
     todb |-> g.typeid # 3 \/ g.dmoney # 0,
     money |-> g.typeid \in {1, 3} /\ g.money # 0,
     num |-> CASE g.typeid = 1 -> 0 [] g.typeid = 3 /\ g.ucount # 0 -> g.ucount - 1 [] OTHER -> g.ucount,
     status |-> IF g.typeid \in {2, 4} THEN 0 ELSE 1,
     stime |-> IF g.typeid = 2 THEN 0 ELSE now,
     lasttime |-> IF g.typeid \in {1, 5} \/ c.free THEN g.lasts ELSE 0]

EventShop(c) ==
    /\ sql' = Append(sql, Conf(c))
    /\ calls' = Without(c)
    /\ UNCHANGED <<tables, agent, replies, history>>

\* The center tells an agent that is there; a free face card follows an order
\* for anything but a vip card.
Bought(c) ==
    /\ calls' = Told(Without(c),
                    (IF c.ok /\ in THEN {[op |-> "result", todb |-> c.todb]} ELSE {})
                    \cup (IF c.order # 0 /\ ~c.free /\ Goods[c.good].typeid # 1
                          THEN {[op |-> "shop", good |-> FaceCard, count |-> c.count, order |-> 0, free |-> TRUE]} ELSE {}))
    /\ UNCHANGED <<tables, agent, sql, replies, history>>

-----------------------------------------------------------------------------
(* The database *)

SqlGetOrder(m) ==
    /\ seen' = [seen EXCEPT ![m.order] = IF m.order \in paid THEN @ ELSE @ + 1]
    /\ calls' = IF m.order \in paid THEN calls
                ELSE Told(calls, {[op |-> "shop", good |-> Orders[m.order].good, count |-> Orders[m.order].count,
                                   order |-> m.order, free |-> FALSE]})
    /\ UNCHANGED <<tables, delivered, unclosed, blind, replies, gifts, crossed>>

\* The last period of this tool that has not ended, else 0.
LastPeriod(m) ==
    LET current == {rows[i].utime : i \in {j \in DOMAIN rows :
                        rows[j].tid = m.good /\ rows[j].status = 1 /\ rows[j].utime + m.lasttime > now}}
    IN  IF current = {} THEN 0 ELSE CHOOSE t \in current : \A u \in current : u <= t

\* Mutant: the order stays open.
PaidNot(m) == paid

\* A new period begins when the last one ends; when they cannot be read, now.
Starts(m, read) == IF ~read \/ LastPeriod(m) = 0 THEN now ELSE LastPeriod(m) + m.lasttime

Paid(m) == IF m.order = 0 THEN paid ELSE paid \cup {m.order}

\* The k-th row of a purchase; an insert that fails takes no time.
NewRow(m, k, read) ==
    [tid |-> m.good, status |-> m.status, num |-> m.num,
     utime |-> IF m.kind \in {1, 5, 6} THEN Starts(m, read) + (k - 1) * m.lasttime ELSE m.stime]

\* n rows are written, and the money, or not.
Writes(m, n, read, money) ==
    LET some == m.order # 0 /\ (n > 0 \/ money) IN
    /\ rows' = rows \o [k \in 1 .. n |-> NewRow(m, k, read)]
    /\ gifts' = gifts \o [k \in 1 .. n |-> 0]
    /\ blind' = IF read THEN blind ELSE blind \cup (DOMAIN rows' \ DOMAIN rows)
    /\ delivered' = IF some THEN [delivered EXCEPT ![m.order] = @ + 1] ELSE delivered
    /\ unclosed' = IF some /\ paid' # Paid(m) THEN unclosed \cup {m.order} ELSE unclosed

Tells(m, ok) ==
    calls' = Told(calls, {[op |-> "bought", good |-> m.good, count |-> m.count, order |-> m.order,
                           free |-> m.free, todb |-> m.todb, ok |-> ok]})

\* The player is not found; an insert fails; the money is not written; the
\* order stays open.  What was written before that stays, and the handler
\* raises an error when it logs a failed insert or an order: no answer then.
SqlShop(m) ==
    LET all == IF m.todb THEN m.count ELSE 0 IN
    /\ \/ Tells(m, TRUE) /\ paid' = Paid(m) /\ Writes(m, all, TRUE, m.money) /\ UNCHANGED left
       \/ /\ Use("sqlfail")
          /\ \/ m.kind \in {1, 5, 6} /\ Tells(m, TRUE) /\ paid' = Paid(m) /\ Writes(m, all, FALSE, m.money)
             \/ /\ paid' = paid
                /\ \/ Tells(m, FALSE) /\ Writes(m, 0, TRUE, FALSE)
                   \/ calls' = calls /\ \E n \in 0 .. all - 1 : Writes(m, n, TRUE, FALSE)
                   \/ m.money /\ Tells(m, FALSE) /\ Writes(m, all, TRUE, FALSE)
                   \/ m.order # 0 /\ calls' = calls /\ Writes(m, all, TRUE, m.money)
    /\ UNCHANGED <<lasttime, loginnum, seen, replies, crossed>>

SqlGetSelfTools(m) ==
    /\ replies' = Append(replies, [op |-> "tools", first |-> m.first, days |-> m.days,
                                   tools |-> [i \in {j \in DOMAIN rows : rows[j].status # 2} |-> rows[i]]])
    /\ UNCHANGED <<tables, calls, history>>

\* SQL_UPDATE_TOOLS writes status and num of every loaded tool.
SqlUpdateTools(m) ==
    /\ rows' = [i \in DOMAIN rows |-> IF i \in DOMAIN m.tools
                                      THEN [rows[i] EXCEPT !.status = m.tools[i].status, !.num = m.tools[i].num]
                                      ELSE rows[i]]
    /\ UNCHANGED <<paid, lasttime, loginnum, calls, replies, history>>

\* SQL_USE_TOOL names the row for a loudspeaker; the message of UseTool has no
\* id and the statement fails.
SqlUseTool(m) ==
    /\ rows' = IF m.named THEN [rows EXCEPT ![m.id].status = 2, ![m.id].utime = now] ELSE rows
    /\ UNCHANGED <<paid, lasttime, loginnum, calls, replies, history>>

SqlLoginConf(m) ==
    /\ \/ m.op = "getlogin" /\ UNCHANGED <<lasttime, loginnum>>
          /\ replies' = Append(replies, [op |-> "login", lasttime |-> lasttime, loginnum |-> loginnum])
       \/ m.op = "setlogin" /\ lasttime' = m.lasttime /\ loginnum' = m.loginnum /\ UNCHANGED replies
    /\ UNCHANGED <<rows, paid, calls, history>>

Sql(m) ==
    /\ sql' = Tail(sql)
    /\ \/ m.op = "getorder" /\ SqlGetOrder(m) /\ UNCHANGED left
       \/ m.op = "sqlshop" /\ SqlShop(m)
       \/ m.op = "gettools" /\ SqlGetSelfTools(m) /\ UNCHANGED left
       \/ m.op = "updatetools" /\ SqlUpdateTools(m) /\ UNCHANGED left
       \/ m.op = "usetool" /\ SqlUseTool(m) /\ UNCHANGED left
       \/ m.op \in {"getlogin", "setlogin"} /\ SqlLoginConf(m) /\ UNCHANGED left
    /\ UNCHANGED <<now, in, tools, vip, viptime, score>>

-----------------------------------------------------------------------------
(* The agent *)

LoginPlayer ==
    /\ Use("login")
    /\ ~in /\ in' = TRUE
    /\ sql' = Append(sql, [op |-> "getlogin"])
    /\ UNCHANGED <<now, tables, tools, vip, viptime, score, calls, replies, history>>

\* LoginSucc: the first login of a day comes after yesterday's or after a
\* longer pause.  The last login at midnight sharp counts as neither.
LoginSucc(c) ==
    LET yesterday == c.lasttime > Today - Day /\ c.lasttime < Today
        before    == c.lasttime < Today - Day
    IN  /\ sql' = Append(sql, [op |-> "gettools", first |-> yesterday \/ before,
                               days |-> IF yesterday THEN IF c.loginnum < MaxDayLogin THEN c.loginnum + 1 ELSE MaxDayLogin
                                        ELSE IF ~before THEN c.loginnum ELSE IF c.lasttime = 0 THEN 0 ELSE 1])
        /\ UNCHANGED <<tools, vip, viptime, calls>>

\* The end of a login, when the tools are loaded; a reload has no days.
LoginWritten(c) == IF c.days = Reload THEN <<>> ELSE <<[op |-> "setlogin", lasttime |-> now, loginnum |-> c.days]>>

\* InitSelfTools: the tools are replaced, and the shop is asked for their kinds.
InitSelfTools(c) ==
    /\ vip' = 0 /\ viptime' = 0
    /\ tools' = IF DOMAIN c.tools = {} THEN tools ELSE c.tools
    /\ calls' = IF DOMAIN c.tools = {} THEN calls ELSE Told(calls, {[op |-> "kinds", first |-> c.first, days |-> c.days]})
    /\ sql' = IF DOMAIN c.tools = {} THEN sql \o LoginWritten(c) ELSE sql

Ends(t)  == t.utime + Goods[t.tid].lasts
Gives(t, first) == Goods[t.tid].typeid = 3 /\ t.status # 2 /\ t.num # 0 /\ first

\* UpdateToolsConf, for one tool: what has ended or is used up is marked.
Updated(t, first) ==
    LET kind == Goods[t.tid].typeid num == IF Gives(t, first) THEN t.num - 1 ELSE t.num IN
    IF t.status = 2 THEN t
    ELSE IF kind \in {1, 5, 6} THEN [t EXCEPT !.status = IF Ends(t) > now THEN @ ELSE 2]
    ELSE IF kind = 3 THEN [t EXCEPT !.num = num, !.status = IF num = 0 THEN 2 ELSE @]
    ELSE t

VipTools(ts) == {i \in DOMAIN ts : Goods[ts[i].tid].typeid = 1 /\ ts[i].status # 2 /\ Ends(ts[i]) > now}
BestVip(ts)  == CHOOSE i \in VipTools(ts) : \A j \in VipTools(ts) : Goods[ts[j].tid].vip <= Goods[ts[i].tid].vip

Reading == replies # <<>> \/ \E k \in DOMAIN sql : sql[k].op = "gettools"
Given(c) == {i \in DOMAIN tools : Gives(tools[i], c.first)}

\* It works on what is loaded when the shop has answered.
UpdateToolsConf(c) ==
    LET after == [i \in DOMAIN tools |-> Updated(tools[i], c.first)] IN
    /\ tools' = after
    /\ gifts' = [i \in DOMAIN gifts |-> IF i \in Given(c) THEN gifts[i] + 1 ELSE gifts[i]]
    /\ sql' = (IF after = tools THEN sql ELSE Append(sql, [op |-> "updatetools", tools |-> after])) \o LoginWritten(c)
    /\ IF VipTools(after) = {} THEN UNCHANGED <<vip, viptime>>
       ELSE vip' = Goods[after[BestVip(after)].tid].vip /\ viptime' = Ends(after[BestVip(after)])
    /\ calls' = Without(c)
    /\ crossed' = (crossed \/ (Given(c) # {} /\ Reading))
    /\ UNCHANGED <<tables, in, score, replies, delivered, seen, unclosed, blind>>

\* GetShopResult (ToolBought) loads the tools again.
ToolBought(c) ==
    /\ calls' = Without(c)
    /\ sql' = IF c.todb THEN Append(sql, [op |-> "gettools", first |-> FALSE, days |-> Reload]) ELSE sql
    /\ UNCHANGED <<tables, agent, replies, history>>

\* GetSelfVip, whenever the level is asked for after it has ended.
GetSelfVip ==
    /\ in /\ viptime # 0 /\ viptime < now
    /\ IF VipTools(tools) = {} THEN vip' = 0 /\ viptime' = 0
       ELSE vip' = Goods[tools[BestVip(tools)].tid].vip /\ viptime' = Ends(tools[BestVip(tools)])
    /\ UNCHANGED <<now, tables, in, tools, score, sql, calls, replies, history, left>>

\* UseTool asks the shop before it uses the tool.
UseTool(i) ==
    /\ Use("use")
    /\ in /\ i \in DOMAIN tools /\ tools[i].status = 0
    /\ calls' = Told(calls, {[op |-> "using", id |-> i]})
    /\ UNCHANGED <<now, tables, agent, sql, replies, history>>

\* A clearing card lifts a score below nothing.
Used(c) ==
    /\ calls' = Without(c)
    /\ IF c.id \in DOMAIN tools /\ Goods[tools[c.id].tid].typeid = 2
       THEN /\ score' = IF score < 0 THEN 0 ELSE score
            /\ tools' = [tools EXCEPT ![c.id].status = 2]
            /\ sql' = Append(sql, [op |-> "usetool", id |-> c.id, named |-> FALSE])
       ELSE UNCHANGED <<score, tools, sql>>
    /\ UNCHANGED <<tables, in, vip, viptime, replies, history>>

\* PlayerBroadcast: a loudspeaker is used at once.
PlayerBroadcast(i) ==
    /\ Use("broadcast")
    /\ in /\ i \in DOMAIN tools /\ tools[i].status = 0 /\ Goods[tools[i].tid].typeid = 4
    /\ tools' = [tools EXCEPT ![i].status = 2]
    /\ sql' = Append(sql, [op |-> "usetool", id |-> i, named |-> TRUE])
    /\ UNCHANGED <<now, tables, in, vip, viptime, score, calls, replies, history>>

\* Exit writes the tools; what the agent still waits for reaches nobody.
ExitPlayer ==
    /\ Use("exit")
    /\ in /\ in' = FALSE /\ tools' = <<>>
    /\ sql' = Append(SelectSeq(sql, LAMBDA m : m.op \notin {"gettools", "getlogin"}), [op |-> "updatetools", tools |-> tools])
    /\ replies' = <<>>
    /\ calls' = [c \in {d \in DOMAIN calls : d.op \notin {"kinds", "using", "result"}} |-> calls[c]]
    /\ UNCHANGED <<now, tables, vip, viptime, score, history>>

Tick ==
    /\ Use("tick")
    /\ now < MaxTime /\ now' = now + 1
    /\ UNCHANGED <<tables, agent, sql, calls, replies, history>>

ShopAnswer(c) ==
    /\ \/ c.op = "shop" /\ EventShop(c)
       \/ c.op = "bought" /\ Bought(c)
       \/ c.op = "kinds" /\ UpdateToolsConf(c)
       \/ c.op = "result" /\ ToolBought(c)
       \/ c.op = "using" /\ Used(c)
    /\ UNCHANGED <<now, left>>

DatabaseAnswer(c) ==
    /\ replies' = Tail(replies)
    /\ \/ c.op = "login" /\ LoginSucc(c)
       \/ c.op = "tools" /\ InitSelfTools(c)
    /\ UNCHANGED <<now, left, tables, in, score, history>>

ShopNext ==
    \/ \E o \in DOMAIN Orders : SomeoneShop(o)
    \/ \E g \in DOMAIN Goods, n \in Counts : SendTool(g, n)
    \/ sql # <<>> /\ Sql(Head(sql))
    \/ \E c \in DOMAIN calls : ShopAnswer(c)
    \/ replies # <<>> /\ DatabaseAnswer(Head(replies))
    \/ LoginPlayer \/ ExitPlayer \/ GetSelfVip \/ Tick
    \/ \E i \in DOMAIN tools : UseTool(i) \/ PlayerBroadcast(i)

-----------------------------------------------------------------------------
\* Whatever is delivered was paid once: an order is delivered no more often
\* than it was read before its first delivery was written, and from then on
\* it is paid and delivers nothing more.  Only an order of which something
\* was written before a statement failed may be delivered and still open
\* (database.lua, SQL_SHOP), and every notice of it delivers again.
DeliveredOnce ==
    \A o \in DOMAIN Orders :
        /\ delivered[o] <= seen[o]
        /\ o \in paid => delivered[o] > 0
        /\ delivered[o] > 0 => o \in paid \cup unclosed

\* Vip and score cards bought one after the other last one after the other,
\* whatever was in flight when they were bought, unless the later one was
\* written when the periods of the others could not be read.
PeriodsApart ==
    \A j \in DOMAIN rows \ blind : \A i \in 1 .. j - 1 :
        rows[i].tid = rows[j].tid /\ Goods[rows[i].tid].typeid \in {1, 5} =>
            Ends(rows[i]) <= rows[j].utime \/ Ends(rows[j]) <= rows[i].utime

\* A coin card gives its money no more often than it has days, however often
\* the tools are loaded again: what is left and what was given is the same
\* sum, in the row once what is on its way is written.
CardsCounted ==
    crossed \/ \A i \in DOMAIN rows : Goods[rows[i].tid].typeid = 3 =>
        gifts[i] + FoldLeft(LAMBDA n, m : IF m.op = "updatetools" /\ i \in DOMAIN m.tools THEN m.tools[i].num ELSE n,
                            rows[i].num, sql)
            = Goods[rows[i].tid].ucount - 1
=============================================================================
