-------------------------------- MODULE Tasks -------------------------------
(***************************************************************************)
(* The tasks of a day: the table taskconf of the database service          *)
(* (database.lua), which counts what a player was rewarded for, and the    *)
(* agent (agent.lua), which asks it before it gives a reward and keeps     *)
(* counters of its own.  Both read the clock when they need it; the player *)
(* center tells the agents of a new day some time after midnight.  The     *)
(* scratch ticket of a seated player needs playing time, the tasks of a    *)
(* day need matches.  One player, in rooms of one type.                    *)
(***************************************************************************)
EXTENDS Common, Sequences, Integers
LOCAL INSTANCE SequencesExt
LOCAL INSTANCE FiniteSetsExt

CONSTANTS
    Count,          \* task -> task.count
    Once,           \* tasks rewarded once in a player's life
    Times,          \* reward_money[scratch]: the times before each ticket
    PacketTime,     \* reward_money[redpacket][2]
    PlayAt,         \* matches of a day that are rewarded
    HonorAt,        \* hands of a kind that are rewarded
    DayLength, MonthLength,   \* of a day, in time; of a month, in days
    LastTime        \* bound: the clock stops

VARIABLES
    clock,          \* os.time()
    taskconf,       \* task -> date -> num, 0 without a row
    userlog,        \* date -> matches, as the agent wrote them
    ptypes,         \* date -> hands of a kind
    member,         \* the columns gametime, redpackettime and date of the player's row
    self,           \* the agent
    news,           \* EVENT_A_NEW_DAY is on its way
    asked,          \* messages to the database
    answers,        \* its answers
    given,          \* history: task -> date of the answer -> rewards
    withheld,       \* history: counted, and not given under lockmoney
    matches,        \* history: date -> matches counted
    needed,         \* history: the time the tickets given so far needed
    excused         \* history: what happened that the counts do not survive

tasksVars == <<clock, taskconf, userlog, ptypes, member, self, news, asked, answers, given, withheld, matches, needed, excused>>
database  == <<taskconf, userlog, ptypes, member>>
histories == <<given, withheld, matches, needed, excused>>

Task  == DOMAIN Count
Dates == 0..(LastTime \div DayLength)
Date  == clock \div DayLength       \* os.date("%Y%m%d")
Month(d) == d \div MonthLength
Tickets  == Len(Times)

NoPlayer == [in |-> FALSE, ready |-> FALSE, seated |-> FALSE, lockmoney |-> FALSE, date |-> 0,
             protect |-> 0, demand |-> 0, redpacket |-> 0, scratch |-> 0, scratchflag |-> FALSE,
             gametime |-> 0, starttime |-> 0, redtime |-> 0, redstart |-> 0, playnum |-> 0, ptypenum |-> 0, fresh |-> FALSE]

TasksInit ==
    /\ clock = 1
    /\ taskconf = [t \in Task |-> [d \in Dates |-> 0]]
    /\ userlog = [d \in Dates |-> 0] /\ ptypes = userlog
    /\ member = [gametime |-> 0, redtime |-> 0, date |-> 0]
    /\ self = NoPlayer /\ news = FALSE
    /\ asked = <<>> /\ answers = <<>>
    /\ given = taskconf /\ withheld = taskconf
    /\ matches = userlog /\ needed = 0 /\ excused = {}

-----------------------------------------------------------------------------
(* The clock, and the center's notice *)

Passes ==
    /\ Use("tick")
    /\ clock < LastTime /\ clock' = clock + 1
    /\ news' = (news \/ (self.in /\ Date' # Date))
    /\ UNCHANGED <<database, self, asked, answers, histories>>

\* The time of the last ticket is kept, and there are tickets again.
FullAgain ==
    /\ excused' = IF self.scratch = Tickets /\ self'.scratch < Tickets THEN excused \cup {"full"} ELSE excused
    /\ UNCHANGED <<given, withheld, matches, needed>>

\* NoticeTime: the counters of the day start again, but not the red packets,
\* the playing time and the date.
NoticeTime ==
    /\ news /\ news' = FALSE
    /\ self' = [self EXCEPT !.protect = 0, !.demand = 0, !.scratch = 0, !.playnum = 0]
    /\ FullAgain
    /\ UNCHANGED <<clock, database, asked, answers, left>>

-----------------------------------------------------------------------------
(* The database *)

Answered(m) == answers' = Append(answers, m)

\* What is known of the task: for a task of a day, on the day of the request.
Found(m) ==
    IF m.task \in Once THEN Max({taskconf[m.task][d] : d \in Dates}) ELSE taskconf[m.task][m.date]

\* A mutant: one reward more than the task has.
AllowsMore(m) == Found(m) <= Count[m.task]

Allows(m) == Found(m) = 0 \/ (m.task \notin Once /\ Found(m) < Count[m.task])

\* SQL_COMPLETE_TASK writes the number to the row of the day on which it
\* runs: a row there was none of is created, one that exists is changed.
\* The table may refuse a second row for that day, or take it.
CompleteTask(m) ==
    LET n == Found(m) + 1 was == taskconf[m.task][Date]
        write(v) == taskconf' = [taskconf EXCEPT ![m.task][Date] = v]
        reply(ret) == Answered([op |-> m.for, task |-> m.task, time |-> m.time, ret |-> ret, served |-> Date])
    IN  /\ \/ Allows(m) /\ (n > 1 \/ was = 0) /\ write(IF n > 1 /\ was = 0 THEN 0 ELSE n) /\ reply(TRUE)
           \/ Allows(m) /\ n = 1 /\ was > 0 /\ UNCHANGED taskconf /\ \E ret \in BOOLEAN : reply(ret)
           \/ ~Allows(m) /\ UNCHANGED taskconf /\ reply(FALSE)
        /\ excused' = IF m.date # Date THEN excused \cup {"midnight"} ELSE excused
        /\ UNCHANGED <<userlog, ptypes, member>>

\* The rest: rows are read on the day of the database or of the request, and
\* written on the day of the request.
Query(m) ==
    /\ \/ m.op = "player" /\ Answered([op |-> "player", row |-> member])
       \/ m.op = "taskconf" /\ Answered([op |-> "taskconf", num |-> [t \in Task |-> taskconf[t][Date]]])
       \/ m.op = "playnum" /\ Answered([op |-> "playnum", num |-> userlog[Date]])
       \/ m.op = "getptype" /\ Answered([op |-> "ptype", num |-> ptypes[m.date]])
    /\ UNCHANGED database

Update(m) ==
    /\ \/ m.op = "updateplay" /\ userlog' = [userlog EXCEPT ![m.date] = m.num] /\ UNCHANGED <<ptypes, member>>
       \/ m.op = "updateptype" /\ ptypes' = [ptypes EXCEPT ![m.date] = m.num] /\ UNCHANGED <<userlog, member>>
       \/ m.op = "member" /\ member' = m.row /\ UNCHANGED <<userlog, ptypes>>
    /\ UNCHANGED <<taskconf, answers>>

TaskDatabase(m) ==
    /\ asked' = Tail(asked)
    /\ \/ m.op = "complete" /\ CompleteTask(m)
       \/ m.op \in {"player", "taskconf", "playnum", "getptype"} /\ Query(m) /\ UNCHANGED excused
       \/ m.op \in {"updateplay", "updateptype", "member"} /\ Update(m) /\ UNCHANGED excused
    /\ UNCHANGED <<clock, self, news, given, withheld, matches, needed, left>>

-----------------------------------------------------------------------------
(* Requests of the agent *)

Send(ms)     == asked' = asked \o ms
Sends(m)     == Send(<<m>>)
Complete(t)  == [op |-> "complete", task |-> t, for |-> t, date |-> Date, time |-> 0]
Agent(a)     == self' = a /\ UNCHANGED <<clock, database, news, answers>>

\* AddMoney ends the wait for a red packet when the player is no longer poor.
AddMoney(a) == {a, [a EXCEPT !.redtime = 0, !.redstart = 0]}

LoginTasks ==
    /\ Use("login")
    /\ ~self.in /\ Agent([NoPlayer EXCEPT !.in = TRUE])
    /\ Sends([op |-> "player"])
    /\ UNCHANGED histories

\* GetSelfGameConf: another day than that of the row.
PlayerLoaded(m) ==
    /\ self' = IF m.row.date # Date THEN [self EXCEPT !.date = Date]
               ELSE [self EXCEPT !.date = Date, !.gametime = m.row.gametime, !.redtime = m.row.redtime]
    /\ Sends([op |-> "taskconf"])
    /\ UNCHANGED histories

\* CurTaskconf reads the counters of the tasks, and leaves in playnum the
\* matches of whatever room type it asked for last.
CurTaskconf(m) ==
    /\ \E other \in {0, PlayAt} :
         self' = [self EXCEPT !.ready = TRUE, !.protect = m.num["protect"], !.demand = m.num["friend_send"],
                              !.redpacket = m.num["redpacket"], !.scratch = m.num["scratch"],
                              !.playnum = other, !.fresh = FALSE]
    /\ FullAgain /\ UNCHANGED asked

\* Relogin: the tasks are read again, at the table too.
Relogin ==
    /\ Use("relogin")
    /\ self.ready /\ Agent(self)
    /\ Sends([op |-> "taskconf"])
    /\ UNCHANGED histories

\* CheckGameTime: no more time than the next ticket needs, and as much as the
\* last one needs when there is none left.
CheckGameTime(a) ==
    IF a.scratch < Tickets
    THEN IF a.gametime < Times[a.scratch + 1] THEN a
         ELSE [a EXCEPT !.scratchflag = TRUE, !.gametime = Times[a.scratch + 1]]
    ELSE [a EXCEPT !.gametime = Times[Tickets]]

\* EnterRoom and EnterResp: a player who is seated comes back.
EnterRoom ==
    /\ Use("enter")
    /\ self.ready
    /\ Agent(CheckGameTime(IF self.seated THEN [self EXCEPT !.gametime = @ + clock - self.starttime, !.starttime = clock] ELSE self))
    /\ Sends([op |-> "playnum"])
    /\ UNCHANGED histories

GetPlayNum(m) ==
    /\ self' = [self EXCEPT !.playnum = m.num, !.fresh = TRUE]
    /\ UNCHANGED <<asked, histories>>

SitStand ==
    /\ Use("sit")
    /\ self.ready
    /\ Agent(IF ~self.seated THEN [self EXCEPT !.seated = TRUE, !.starttime = clock]
             ELSE [self EXCEPT !.seated = FALSE, !.starttime = 0,
                               !.gametime = IF self.scratchflag THEN @ ELSE @ + clock - self.starttime])
    /\ UNCHANGED <<asked, histories>>

\* A match takes money: lockmoney is held until the game has answered.
Match ==
    /\ Use("lock")
    /\ self.ready /\ Agent([self EXCEPT !.lockmoney = ~@])
    /\ UNCHANGED <<asked, histories>>

ExitTasks ==
    /\ Use("exit")
    /\ self.ready /\ answers = <<>>
    /\ self' = NoPlayer /\ news' = FALSE
    /\ LET a == CheckGameTime(IF self.seated /\ ~self.scratchflag THEN [self EXCEPT !.gametime = @ + clock - self.starttime] ELSE self)
           red == IF self.redstart = 0 THEN self.redtime ELSE self.redtime + clock - self.redstart
       IN  asked' = Append(SelectSeq(asked, LAMBDA m : m.op \in {"updateplay", "updateptype"}),
                           [op |-> "member", row |-> [gametime |-> a.gametime, date |-> self.date,
                                                      redtime |-> IF red > PacketTime THEN PacketTime ELSE red]])
    /\ UNCHANGED <<clock, database, answers, histories>>

-----------------------------------------------------------------------------
(* Rewards *)

\* The answer to a request: the reward is given, or held back under lockmoney.
Rewarded(m, locked) ==
    /\ given' = IF m.ret /\ ~locked THEN [given EXCEPT ![m.task][m.served] = @ + 1] ELSE given
    /\ withheld' = IF m.ret /\ locked THEN [withheld EXCEPT ![m.task][m.served] = @ + 1] ELSE withheld

Ask(t) ==
    /\ Sends(Complete(t)) /\ Agent(self) /\ UNCHANGED histories

\* BreakProtect, of a player who has too little: it asks whatever it counts.
BreakProtect == Use("protect") /\ self.ready /\ Ask("protect")
Protected(m) ==
    /\ \E a \in AddMoney([self EXCEPT !.protect = @ + 1]) : self' = IF m.ret /\ ~self.lockmoney THEN a ELSE self
    /\ Rewarded(m, self.lockmoney) /\ UNCHANGED <<asked, matches, needed, excused>>

\* DemandWindown counts a request to friends in the table, and shows the
\* window when the agent's own counters say so.
DemandWindown == Use("demand") /\ self.ready /\ Ask("friend_send")
Demanded(m) ==
    /\ self' = IF self.protect >= Count["protect"] /\ self.demand < Count["friend_send"] THEN [self EXCEPT !.demand = @ + 1] ELSE self
    /\ Rewarded(m, FALSE) /\ UNCHANGED <<asked, matches, needed, excused>>

CheckRedPacketTime(a) ==
    IF a.redtime < PacketTime /\ a.redpacket < Count["redpacket"] THEN a ELSE [a EXCEPT !.redtime = PacketTime]

RedPacketTask ==
    /\ Use("packettask") /\ self.ready
    /\ Agent([CheckRedPacketTime(self) EXCEPT !.redstart = clock])
    /\ UNCHANGED <<asked, histories>>

\* RedPacket: of a player who is poor, and whatever the time says.
RedPacket ==
    LET a == CheckRedPacketTime([self EXCEPT !.redtime = @ + clock - self.redstart]) IN
    /\ Use("packet") /\ self.ready
    /\ IF self.redpacket < Count["redpacket"] /\ self.protect >= Count["protect"]
       THEN Sends(Complete("redpacket")) /\ Agent([a EXCEPT !.lockmoney = TRUE])
       ELSE UNCHANGED asked /\ Agent([a EXCEPT !.lockmoney = FALSE])
    /\ UNCHANGED histories

GetRedPacketReward(m) ==
    /\ \E poor \in BOOLEAN :
         self' = [self EXCEPT !.redpacket = @ + 1, !.redtime = 0, !.redstart = IF poor THEN clock ELSE 0, !.lockmoney = FALSE]
    /\ Rewarded(m, FALSE) /\ UNCHANGED <<asked, matches, needed, excused>>

\* The wait for the next ticket starts, seated or not.
NextTicket(a) == IF a.scratch < Tickets /\ ~a.scratchflag THEN [a EXCEPT !.starttime = clock, !.gametime = 0] ELSE a

\* Scratch: a ticket that has been waited for.  The agent goes on while the
\* database counts it; another request then finds the same time.
Scratch ==
    LET a == CheckGameTime([self EXCEPT !.gametime = @ + clock - self.starttime])
        due == a.scratch < Tickets /\ a.gametime = Times[a.scratch + 1]
        pending == \E k \in DOMAIN (asked \o answers) : (asked \o answers)[k].op \in {"complete", "scratch"} /\ (asked \o answers)[k].task = "scratch"
    IN  /\ Use("scratch") /\ self.ready
        /\ ~(self.starttime = 0 /\ self.scratch < Tickets /\ self.gametime < Times[self.scratch + 1])
        /\ IF due THEN Sends([Complete("scratch") EXCEPT !.time = Times[a.scratch + 1]]) /\ Agent(a)
           ELSE UNCHANGED asked
                /\ Agent(NextTicket(a))
        /\ excused' = excused \cup IF due /\ pending THEN {"overlap"} ELSE {}
        /\ UNCHANGED <<given, withheld, matches, needed>>

GetScratchReward(m) ==
    LET won == m.ret /\ ~self.lockmoney
        b == IF won THEN [self EXCEPT !.scratch = @ + 1, !.scratchflag = FALSE] ELSE self
    IN  /\ \E a \in AddMoney(b) :
             self' = NextTicket(a)
        /\ needed' = IF won THEN needed + m.time ELSE needed
        /\ Rewarded(m, self.lockmoney) /\ UNCHANGED <<asked, matches, excused>>

\* GetTaskReward and TaskNewPlayer: a reward the client asks for.
GetTaskReward(t) == Use("reward") /\ self.ready /\ Ask(t)
TaskReward(m) ==
    /\ self' \in AddMoney(self)
    /\ Rewarded(m, FALSE) /\ UNCHANGED <<asked, matches, needed, excused>>

-----------------------------------------------------------------------------
(* PlayOneMatch: the end of a match *)

PlayOneMatch ==
    /\ Use("match")
    /\ self.ready /\ self.seated /\ Agent(self)
    /\ Sends([op |-> "getptype", date |-> Date])
    /\ UNCHANGED histories

\* The end of PlayOneMatch: another hand of the kind.
HandCounted(a) == [a EXCEPT !.ptypenum = @ + 1]
HandMessages(a) ==
    <<[op |-> "updateptype", date |-> Date, num |-> a.ptypenum + 1]>> \o IF a.ptypenum + 1 = HonorAt THEN <<Complete("honor")>> ELSE <<>>

\* A match of another day starts the count again, but not in a new month.
NewDate(a) ==
    IF Month(a.date) # Month(Date) THEN [a EXCEPT !.date = Date]
    ELSE IF a.date # Date THEN [a EXCEPT !.date = Date, !.playnum = 0] ELSE a

MatchCounted(m) ==
    LET a == [NewDate([self EXCEPT !.ptypenum = m.num]) EXCEPT !.playnum = @ + 1]
        log == [op |-> "updateplay", date |-> Date, num |-> a.playnum]
    IN  /\ IF a.playnum = PlayAt
           THEN self' = a /\ Send(<<log, Complete("play")>>)
           ELSE self' = HandCounted(a) /\ Send(<<log>> \o HandMessages(a))
        /\ excused' = excused \cup (IF Month(self.date) # Month(Date) THEN {"month"} ELSE {})
                              \cup (IF ~self.fresh THEN {"other"} ELSE {})
        /\ matches' = [matches EXCEPT ![Date] = @ + 1]
        /\ UNCHANGED <<given, withheld, needed>>

DayPlayTask(m) ==
    /\ \E a \in AddMoney(self) : self' = HandCounted(a)
    /\ Send(HandMessages(self))
    /\ Rewarded(m, self.lockmoney) /\ UNCHANGED <<matches, needed, excused>>

DayHonorTask(m) == UNCHANGED <<self, asked, matches, needed, excused>> /\ Rewarded(m, self.lockmoney)

TaskAnswer(m) ==
    /\ answers' = Tail(answers)
    /\ \/ m.op = "player" /\ PlayerLoaded(m)
       \/ m.op = "taskconf" /\ CurTaskconf(m)
       \/ m.op = "playnum" /\ GetPlayNum(m)
       \/ m.op = "ptype" /\ MatchCounted(m)
       \/ m.op = "protect" /\ Protected(m)
       \/ m.op = "friend_send" /\ Demanded(m)
       \/ m.op = "redpacket" /\ GetRedPacketReward(m)
       \/ m.op = "scratch" /\ GetScratchReward(m)
       \/ m.op \in {"day_login", "learn_course"} /\ TaskReward(m)
       \/ m.op = "play" /\ DayPlayTask(m)
       \/ m.op = "honor" /\ DayHonorTask(m)
    /\ UNCHANGED <<clock, database, news, left>>

TasksNext ==
    \/ Passes \/ NoticeTime
    \/ asked # <<>> /\ TaskDatabase(Head(asked))
    \/ answers # <<>> /\ TaskAnswer(Head(answers))
    \/ LoginTasks \/ Relogin \/ EnterRoom \/ SitStand \/ Match \/ ExitTasks
    \/ BreakProtect \/ DemandWindown \/ RedPacketTask \/ RedPacket \/ Scratch \/ PlayOneMatch
    \/ \E t \in {"day_login", "learn_course"} : GetTaskReward(t)

-----------------------------------------------------------------------------
Coming(t, d) ==
    FoldLeft(LAMBDA n, m : IF m.op = t /\ m.served = d /\ m.ret THEN n + 1 ELSE n, 0,
             SelectSeq(answers, LAMBDA m : m.op \in Task))

\* The table counts what a player was rewarded for: what it holds for a day
\* was given, was held back while a match took money, or is being answered,
\* and no task is rewarded more often than it may be, unless a request was
\* on its way at midnight.
TasksCounted ==
    "midnight" \in excused \/ \A t \in Task, d \in Dates :
        /\ given[t][d] + withheld[t][d] + Coming(t, d) = taskconf[t][d]
        /\ given[t][d] <= Count[t]

\* The reward for the matches of a day is given on a day of that many
\* matches, whenever midnight passes and the center's notice comes, unless
\* the request was on its way at midnight, the month ended, or a match ended
\* before a player who logged in again had entered the room.
PlayedForIt ==
    excused \cap {"midnight", "month", "other"} # {} \/ \A d \in Dates : given["play"][d] > 0 => matches[d] >= PlayAt

\* The tickets took the time they need, one after the other, through
\* leaving, logging out and a new day, unless two requests for one ticket
\* were on their way together or a day followed on which all were given.
TicketsTimed == excused \cap {"overlap", "full"} # {} \/ needed <= clock - 1
=============================================================================
