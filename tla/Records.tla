------------------------------- MODULE Records ------------------------------
(***************************************************************************)
(* What the services keep for those who run the house.                     *)
(*                                                                         *)
(* The database service (bullfight/database.lua) counts the money the      *)
(* players have paid (SQL_BACK_MONEY), the players that were active on a   *)
(* day (SQL_UPDATE_ACTIVER), the reward for the first lesson               *)
(* (SQL_TASK_NEW_PLAYER) and the titles of the scores (GetTitle).  Every   *)
(* handler runs to its end before the next message is taken; each of its   *)
(* statements may fail.                                                    *)
(*                                                                         *)
(* The log service (bullfight/log.lua) writes the log of the server, which *)
(* is renamed when it is large, the log of the administrators, and the log *)
(* of logins, a file a day whose lines are numbered.  Lines are numbers,   *)
(* in the order in which they are written.  What is written to a file that *)
(* is open reaches the disk when the file is closed, so a crash loses it.  *)
(***************************************************************************)
EXTENDS Common, Integers, Sequences, FiniteSets

LOCAL INSTANCE FiniteSetsExt
LOCAL INSTANCE SequencesExt

CONSTANTS
    Platform,       \* pfid
    Stake,          \* moneytype, the basebet of the room
    Payment,        \* sums paid
    Learner,        \* players that take the first lesson
    Threshold,      \* the scores of the titles, in the order of the table
    Score,          \* scores that are asked for

    MaxNum,         \* maxnum: lines after which a file is closed, 10
    LogSize,        \* logsize, in lines
    LogNum          \* lognum: how many old files there are, 10

VARIABLES
    backmoney,      \* moneytype -> [money, pfid], collected and not written
    bakcount,       \* rows of dt_bakcount: a sequence of [stake, money, pfid]
    paid,           \* history: <<platform, moneytype>> -> money sent
    failed,         \* history: a row of dt_bakcount could not be written
    coincount,      \* rows of dt_coincount of the day: pfid -> ucactive; 0 is the sum
    active,         \* history: pfid -> players counted
    stale,          \* history: the sum could not be read or written
    mission,        \* players whose miguide is 1
    rewarded,       \* history: player -> rewards
    unrecorded,     \* history: players whose miguide could not be written
    title,          \* the last answer of GetTitle: [score, place]

    disk,           \* the log of the server, 0, and the old ones, 1..LogNum: nil or lines
    normalLog,      \* normal_log: the lines since it was opened
    adminLog,       \* admin_log.log
    adminDisk,      \* the file of the administrators
    playerLog,      \* player_log: [number, filename, lines], lines since the file was opened
    playerDisk,     \* day -> the file: lines [number, run]
    logDay,         \* os.date
    serverRun,      \* history: how often the server has started
    line,           \* history: how many lines have been logged
    oldFiles        \* history: the files that were renamed

-----------------------------------------------------------------------------
(* The database service *)

ledgerVars == <<backmoney, bakcount, paid, failed, coincount, active, stale, mission, rewarded, unrecorded, title>>

LedgerInit ==
    /\ backmoney = <<>> /\ bakcount = <<>> /\ failed = FALSE
    /\ paid = [k \in Platform \X Stake |-> 0]
    /\ coincount = <<>> /\ active = [p \in Platform |-> 0] /\ stale = FALSE
    /\ mission = {} /\ rewarded = [l \in Learner |-> 0] /\ unrecorded = {}
    /\ title = [score |-> Void, place |-> Void]

\* A statement is executed, or fails.
Executions == {TRUE} \cup IF May("sqlfails") THEN {FALSE} ELSE {}

-----------------------------------------------------------------------------

\* The row of what was collected for the stake.
Written(s, b) == [stake |-> s, money |-> b[s].money, pfid |-> b[s].pfid]

\* What was written is not collected any more.
WrittenOut(b, done) == [s \in DOMAIN b |-> IF s \in done THEN [b[s] EXCEPT !.money = 0] ELSE b[s]]

\* SQL_BACK_MONEY.  All that was collected is written; the first statement
\* that fails ends the handler, because its message cannot be formatted.
BackMoney(p, s, money) ==
    /\ Use("pay")
    /\ \E b \in {Put(backmoney, s, [money |-> money + (IF s \in DOMAIN backmoney THEN backmoney[s].money ELSE 0), pfid |-> p])} :
       \E due \in {{t \in DOMAIN b : b[t].money # 0}} :
       \E done \in SUBSET due :
         /\ done # due => May("sqlfails")
         /\ backmoney' = WrittenOut(b, done)
         /\ bakcount' = bakcount \o [i \in 1..Cardinality(done) |-> Written(SetToSeq(done)[i], b)]
         /\ failed' = (failed \/ done # due)
    /\ paid' = [paid EXCEPT ![<<p, s>>] = @ + money]
    /\ UNCHANGED <<coincount, active, stale, mission, rewarded, unrecorded, title>>

\* The sum of the platforms' rows.
SumActive(c) == MapThenSumSet(LAMBDA p : c[p], DOMAIN c \ {0})

\* SQL_UPDATE_ACTIVER: the platform's row, then the row of the sum.
UpdateActiver(p) ==
    /\ Use("active")
    /\ \E ok \in Executions, read \in Executions :
       \E c \in {IF ok THEN Put(coincount, p, 1 + (IF p \in DOMAIN coincount THEN coincount[p] ELSE 0)) ELSE coincount} :
         /\ coincount' = IF read /\ DOMAIN c # {} THEN Put(c, 0, SumActive(c)) ELSE c
         /\ active' = IF ok THEN [active EXCEPT ![p] = @ + 1] ELSE active
         /\ stale' = ~read
    /\ UNCHANGED <<backmoney, bakcount, paid, failed, mission, rewarded, unrecorded, title>>

\* TaskNewPlayer of the agent and SQL_TASK_NEW_PLAYER: who has not learnt yet
\* is rewarded, whether or not that could be written.
TaskNewPlayer(l) ==
    /\ Use("learn")
    /\ \E read \in Executions, ok \in Executions :
         IF read /\ l \notin mission
         THEN /\ rewarded' = [rewarded EXCEPT ![l] = @ + 1]
              /\ mission' = IF ok THEN mission \cup {l} ELSE mission
              /\ unrecorded' = IF ok THEN unrecorded ELSE unrecorded \cup {l}
         ELSE UNCHANGED <<rewarded, mission, unrecorded>>
    /\ UNCHANGED <<backmoney, bakcount, paid, failed, coincount, active, stale, title>>

\* GetTitle: the first title below the table, the last above, else the one
\* whose interval has the score.
TitleOf(score) ==
    LET n == Len(Threshold)
        between == {i \in 1..n - 1 : score >= Threshold[i] /\ score < Threshold[i + 1]}
    IN  IF score >= Threshold[n] THEN n
        ELSE IF score < Threshold[1] THEN 1
        ELSE IF between = {} THEN Void ELSE Max(between)

GetTitle(score) ==
    /\ Use("title")
    /\ title' = [score |-> score, place |-> TitleOf(score)]
    /\ UNCHANGED <<backmoney, bakcount, paid, failed, coincount, active, stale, mission, rewarded, unrecorded>>

LedgerNext ==
    \/ \E p \in Platform, s \in Stake, m \in Payment : BackMoney(p, s, m)
    \/ \E p \in Platform : UpdateActiver(p)
    \/ \E l \in Learner : TaskNewPlayer(l)
    \/ \E s \in Score : GetTitle(s)

-----------------------------------------------------------------------------
(* The log service *)

logVars == <<disk, normalLog, adminLog, adminDisk, playerLog, playerDisk, logDay, serverRun, line, oldFiles>>

LogInit ==
    /\ disk = [i \in 0..LogNum |-> Void] /\ normalLog = <<>> /\ adminLog = <<>> /\ adminDisk = <<>>
    /\ playerLog = [number |-> 1, filename |-> 1, lines |-> <<>>]
    /\ playerDisk = <<>> /\ logDay = 1 /\ serverRun = 1 /\ line = 0 /\ oldFiles = <<>>

LinesOf(f) == IF f = Void THEN <<>> ELSE f

-----------------------------------------------------------------------------
(* The log of the server *)

\* os.rename: nothing happens to a file that is not there.
Rename(d, from, to) == IF d[from] = Void THEN d ELSE [d EXCEPT ![to] = d[from], ![from] = Void]

\* The last one is removed and the others are renamed, from the first one on:
\* each renaming replaces the file that the next one should have moved.
Rotate(d) ==
    Rename(FoldLeft(LAMBDA e, i : Rename(e, i, i + 1), [d EXCEPT ![LogNum] = Void], [i \in 1..LogNum - 1 |-> i]), 0, 1)

\* WriteLog.  If the file cannot be opened the line is only printed.
WriteLog ==
    /\ Use("log")
    /\ line' = line + 1
    /\ \/ normalLog = <<>> /\ May("noopen") /\ UNCHANGED <<disk, normalLog, oldFiles>>
       \/ LET lines == Append(normalLog, line + 1)
              file  == LinesOf(disk[0]) \o lines
          IN IF Len(lines) < MaxNum
             THEN normalLog' = lines /\ UNCHANGED <<disk, oldFiles>>
             ELSE /\ normalLog' = <<>>
                  /\ disk' = IF Len(file) >= LogSize THEN Rotate([disk EXCEPT ![0] = file]) ELSE [disk EXCEPT ![0] = file]
                  /\ oldFiles' = IF Len(file) >= LogSize THEN Append(oldFiles, file) ELSE oldFiles
    /\ UNCHANGED <<adminLog, adminDisk, playerLog, playerDisk, logDay, serverRun>>

-----------------------------------------------------------------------------
(* The log of the administrators *)

\* WriteAdminLog: a line for every message that was kept, each with the text
\* of the last one.
WriteAdminLog ==
    /\ Use("admin")
    /\ line' = line + 1
    /\ LET kept == Append(adminLog, line + 1) IN
       IF Len(kept) < MaxNum
       THEN adminLog' = kept /\ UNCHANGED adminDisk
       ELSE adminLog' = <<>> /\ adminDisk' = adminDisk \o [i \in DOMAIN kept |-> line + 1]
    /\ UNCHANGED <<disk, normalLog, playerLog, playerDisk, logDay, serverRun, oldFiles>>

-----------------------------------------------------------------------------
(* The log of logins *)

\* InitPlayerLog.  The number after the last but one line end is read: that
\* of the last line, and none if the file has one line.
InitPlayerLog(day, files) ==
    LET f == LinesOf(Entry(files, day))
    IN [number   |-> CASE Len(f) = 0 -> 1 [] Len(f) = 1 -> Void [] OTHER -> Last(f).number,
        filename |-> day, lines |-> <<>>]

\* A file that is closed is complete on the disk.
Closed(l) == Put(playerDisk, l.filename, LinesOf(Entry(playerDisk, l.filename)) \o l.lines)

\* WriteLoginLog: the file of another day is closed.
OfToday ==
    IF playerLog.filename = logDay THEN playerLog
    ELSE [number |-> 1, filename |-> logDay, lines |-> <<>>]

\* UpdateLog
UpdateLog(l) ==
    LET lines == Append(l.lines, [number |-> l.number, run |-> serverRun])
        next  == [l EXCEPT !.number = @ + 1, !.lines = lines]
        base  == IF playerLog.filename # l.filename THEN Closed(playerLog) ELSE playerDisk
        day   == LinesOf(Entry(base, l.filename))
    IN IF Len(lines) < MaxNum
       THEN playerLog' = next /\ playerDisk' = Put(base, l.filename, day)
       ELSE playerLog' = [next EXCEPT !.lines = <<>>] /\ playerDisk' = Put(base, l.filename, day \o lines)

\* A number that is nil cannot be written: the handler fails.
WriteLoginLog ==
    /\ Use("login")
    /\ IF OfToday.number = Void THEN UNCHANGED <<playerLog, playerDisk>> ELSE UpdateLog(OfToday)
    /\ UNCHANGED <<disk, normalLog, adminLog, adminDisk, logDay, serverRun, line, oldFiles>>

Midnight ==
    /\ Use("midnight")
    /\ logDay' = logDay + 1
    /\ UNCHANGED <<disk, normalLog, adminLog, adminDisk, playerLog, playerDisk, serverRun, line, oldFiles>>

\* The server starts again after it ended, which closes the files, or was
\* killed.  Nobody sends this service EVENT_SERVER_CLOSE.
ServerRestart ==
    /\ Use("restart")
    /\ normalLog' = <<>> /\ adminLog' = <<>>
    /\ \/ UNCHANGED <<disk, playerDisk>> /\ playerLog' = InitPlayerLog(logDay, playerDisk)
       \/ /\ disk' = IF normalLog = <<>> THEN disk ELSE [disk EXCEPT ![0] = LinesOf(@) \o normalLog]
          /\ playerDisk' = Closed(playerLog)
          /\ playerLog' = InitPlayerLog(logDay, Closed(playerLog))
    /\ serverRun' = serverRun + 1
    /\ UNCHANGED <<adminDisk, logDay, line, oldFiles>>

LogNext == WriteLog \/ WriteAdminLog \/ WriteLoginLog \/ Midnight \/ ServerRestart

-----------------------------------------------------------------------------
(* Properties *)

Recorded(p, s) ==
    MapThenSumSet(LAMBDA i : bakcount[i].money,
                  {i \in DOMAIN bakcount : bakcount[i].stake = s /\ bakcount[i].pfid = p})

\* Every score has a title, the highest whose threshold it reaches.
Titled ==
    title.score # Void => /\ title.place # Void
                          /\ title.place = 1 \/ Threshold[title.place] <= title.score
                          /\ title.place = Len(Threshold) \/ Threshold[title.place + 1] > title.score

\* Every payment of the players reaches the account of the house once,
\* however often writing it fails; and the platform's account, as long as no
\* failure has left money to be written with a later payment of another
\* platform (SQL_BACK_MONEY).  The sum of the active players is that of the
\* platforms (SQL_UPDATE_ACTIVER), and a player is rewarded once for the
\* first lesson if that could be written (SQL_TASK_NEW_PLAYER).  Every score
\* gets the title it has reached (GetTitle, of a table in the order of the
\* scores, which the query does not ask for).
LedgerRight ==
    /\ \A s \in Stake :
         LET collected == IF s \in DOMAIN backmoney THEN backmoney[s].money ELSE 0
         IN  MapThenSumSet(LAMBDA p : Recorded(p, s), Platform) + collected
             = MapThenSumSet(LAMBDA p : paid[<<p, s>>], Platform)
    /\ ~failed => \A p \in Platform, s \in Stake : Recorded(p, s) = paid[<<p, s>>]
    /\ ~stale /\ 0 \in DOMAIN coincount => coincount[0] = MapThenSumSet(LAMBDA p : active[p], Platform)
    /\ \A l \in Learner \ unrecorded : rewarded[l] <= 1
    /\ Titled

Rising(s) == \A i, j \in DOMAIN s : i < j => s[i] < s[j]

\* The log of the server and the newest old file are there whatever was
\* renamed, and the old files are older the higher their number is: read from
\* the last one to the first one they give the lines in order.
NewestKept ==
    /\ oldFiles # <<>> => disk[1] = Last(oldFiles)
    /\ Rising(FoldLeft(LAMBDA s, i : s \o LinesOf(disk[LogNum - i]), <<>>, [i \in 1..LogNum + 1 |-> i - 1]) \o normalLog)

\* The numbers of the lines of a day never fall, after a restart too, and the
\* lines that one server has written have different numbers.
LoginsNumbered ==
    \A d \in DOMAIN playerDisk : \A i, j \in DOMAIN playerDisk[d] :
        LET a == playerDisk[d][i]
            b == playerDisk[d][j]
        IN i < j => a.number <= b.number /\ (a.run = b.run => a.number < b.number)
=============================================================================
