------------------------------ MODULE SafeBox -------------------------------
(***************************************************************************)
(* The password of a player's safe box (bullfight/agent.lua,               *)
(* playercenter.lua, database.lua).  The agent keeps the box while the     *)
(* player is online and writes all of it, the password too, with every     *)
(* change of its money; an administrator changes the password in the       *)
(* database and the agent is told afterwards.  What the box holds is in    *)
(* module Purse.                                                           *)
(***************************************************************************)
EXTENDS Common, Sequences

CONSTANTS
    Password,       \* passwords
    Secret          \* questions with their answers

VARIABLES
    boxRow,         \* the row of dt_safe_box: nil or [pwd, secret]
    kept,           \* self.safebox: nil or [pwd, secret, login]
    session,        \* "off", "loading" or "on"
    dbBox,          \* messages on the way to the database
    toAgent,        \* and to the agent
    change,         \* ADMIN_CHANGE_SF_PWD of the player center: nil or [pwd, done, succ]
    told,           \* history: the last password somebody was told is the new one
    crossing,       \* history: the agent wrote the box while an administrator changed it
    unwritten       \* history: a new password failed to be written, and still is not

safeBoxVars == <<boxRow, kept, session, dbBox, toAgent, change, told, crossing, unwritten>>

Keeps(row) == [pwd |-> row.pwd, secret |-> row.secret, login |-> FALSE]

SafeBoxInit ==
    /\ \E p \in Password, s \in Secret :
         /\ boxRow \in {Void, [pwd |-> p, secret |-> s]}
         /\ told = IF boxRow = Void THEN Void ELSE p
    /\ kept = Void /\ session = "off"
    /\ dbBox = <<>> /\ toAgent = <<>> /\ change = Void /\ crossing = FALSE
    /\ unwritten = FALSE

-----------------------------------------------------------------------------
(* The agent *)

\* The administrator's change is made and the agent does not know it.
Unheard == change # Void \/ \E i \in DOMAIN toAgent : toAgent[i].op = "admin"

\* UpdateSafeBoxToDB, after the messages q.
SavesAfter(q, b) ==
    /\ dbBox' = Append(q, [op |-> "save", pwd |-> b.pwd, secret |-> b.secret])
    /\ crossing' = (crossing \/ Unheard)

Saves(b) == SavesAfter(dbBox, b)

\* LoginSucc asks for the box, and so do LoginSafeBox and GetSafeBoxPwd when
\* there is none.
Asks(what, value) == dbBox' = Append(dbBox, [op |-> "get", what |-> what, value |-> value])

LoginSucc ==
    /\ Use("session") /\ session = "off"
    /\ session' = "loading" /\ Asks("login", Void)
    /\ UNCHANGED <<boxRow, kept, toAgent, change, told, crossing>>

\* CreatSafeBox
Creat ==
    /\ Use("create") /\ session = "on" /\ kept = Void
    /\ \E p \in Password, s \in Secret :
         /\ kept' = [pwd |-> p, secret |-> s, login |-> TRUE]
         /\ Saves(kept') /\ told' = p
    /\ UNCHANGED <<boxRow, session, toAgent, change>>

\* The end of LoginSafeBox and of GetSafeBoxPwd, with the box b: the password
\* opens the box, and the secret brings a new password.
Checked(b, what, value) ==
    \/ what = "open" /\ kept' = (IF b # Void /\ b.pwd = value THEN [b EXCEPT !.login = TRUE] ELSE b)
       /\ UNCHANGED <<dbBox, told, crossing>>
    \/ what = "forgot" /\ b # Void /\ b.secret = value
       /\ \E p \in Password : kept' = [b EXCEPT !.pwd = p] /\ told' = p
       /\ Saves(kept')
    \/ (what = "login" \/ (what = "forgot" /\ ~(b # Void /\ b.secret = value)))
       /\ kept' = b /\ UNCHANGED <<dbBox, told, crossing>>

\* LoginSafeBox and GetSafeBoxPwd
Opens(what, value) ==
    /\ Use(what) /\ session = "on"
    /\ IF kept # Void THEN Checked(kept, what, value)
       ELSE Asks(what, value) /\ UNCHANGED <<kept, told, crossing>>
    /\ UNCHANGED <<boxRow, session, toAgent, change>>

ChangeSafeBoxPWD(new, old) ==
    /\ Use("change") /\ session = "on" /\ kept # Void /\ kept.login
    /\ IF kept.pwd = old
       THEN kept' = [kept EXCEPT !.pwd = new] /\ Saves(kept') /\ told' = new
       ELSE UNCHANGED <<kept, dbBox, told, crossing>>
    /\ UNCHANGED <<boxRow, session, toAgent, change>>

\* The new secret is not written now.
ChangeSafeBoxQuestion(s, new) ==
    /\ Use("question") /\ session = "on" /\ kept # Void /\ kept.login
    /\ kept' = IF kept.secret = s THEN [kept EXCEPT !.secret = new] ELSE kept
    /\ UNCHANGED <<boxRow, session, dbBox, toAgent, change, told, crossing>>

\* DealSafeBoxCoin: the money is in module Purse.
Deals ==
    /\ Use("deal") /\ session = "on" /\ kept # Void /\ kept.login
    /\ Saves(kept)
    /\ UNCHANGED <<boxRow, kept, session, toAgent, change, told>>

\* Exit; nobody hears the answers to what the agent has asked.
Leaves ==
    /\ session = "on"
    /\ session' = "off" /\ kept' = Void /\ toAgent' = <<>>
    /\ \E q \in {SelectSeq(dbBox, LAMBDA m : m.op # "get")} :
         IF kept # Void THEN SavesAfter(q, kept) ELSE dbBox' = q /\ UNCHANGED crossing
    /\ UNCHANGED <<boxRow, change, told, left>>

\* Mutant: the agent keeps the old password.
AdminChangeNot(m) == kept
\* AdminChangeSafeBoxPWD
AdminChangeSafeBoxPWD(m) == IF kept # Void THEN [kept EXCEPT !.pwd = m.pwd] ELSE kept

\* The agent takes its next message: the row, or the administrator's change.
Hears ==
    /\ toAgent # <<>>
    /\ toAgent' = Tail(toAgent)
    /\ \E m \in {Head(toAgent)} :
         \/ m.op = "row" /\ Checked(IF m.row = Void THEN kept ELSE Keeps(m.row), m.what, m.value)
            /\ session' = "on"
         \/ m.op = "admin" /\ kept' = AdminChangeSafeBoxPWD(m) /\ UNCHANGED <<session, dbBox, told, crossing>>
    /\ UNCHANGED <<boxRow, change, left>>

-----------------------------------------------------------------------------
(* The player center and the database *)

Admin(p) ==
    /\ Use("admin") /\ change = Void
    /\ change' = [pwd |-> p, done |-> FALSE, succ |-> FALSE]
    /\ dbBox' = Append(dbBox, [op |-> "admin", pwd |-> p])
    /\ UNCHANGED <<boxRow, kept, session, toAgent, told, crossing>>

\* The center has its answer: it tells the agent, and the administrator.
AdminTold ==
    /\ change # Void /\ change.done
    /\ toAgent' = IF session # "off" /\ change.succ THEN Append(toAgent, [op |-> "admin", pwd |-> change.pwd]) ELSE toAgent
    /\ change' = Void
    /\ UNCHANGED <<boxRow, kept, session, dbBox, told, crossing, left>>

Row(m) == [pwd |-> m.pwd, secret |-> m.secret]

\* The database takes its next message; a query, the box or a change may
\* fail to be written, and the agent never learns of its box.
BoxDatabase ==
    /\ dbBox # <<>>
    /\ dbBox' = Tail(dbBox)
    /\ \E m \in {Head(dbBox)} :
         \/ /\ m.op = "get"
            /\ \E r \in {boxRow} \cup IF May("nosql") THEN {Void} ELSE {} :
                 toAgent' = Append(toAgent, [op |-> "row", row |-> r, what |-> m.what, value |-> m.value])
            /\ UNCHANGED <<boxRow, change, told, unwritten>>
         \/ /\ m.op = "save"
            /\ \/ boxRow' = Row(m) /\ unwritten' = (unwritten /\ m.pwd # told)
               \/ /\ May("nosql") /\ UNCHANGED boxRow
                  /\ unwritten' = (unwritten \/ boxRow = Void \/ boxRow.pwd # m.pwd)
            /\ UNCHANGED <<toAgent, change, told>>
         \/ /\ m.op = "admin"
            /\ \E succ \in {TRUE} \cup IF May("nosql") THEN {FALSE} ELSE {} :
                 /\ change' = [change EXCEPT !.done = TRUE, !.succ = succ]
                 /\ boxRow' = IF succ /\ boxRow # Void THEN [boxRow EXCEPT !.pwd = m.pwd] ELSE boxRow
                 /\ told' = IF succ /\ boxRow # Void THEN m.pwd ELSE told
                 /\ unwritten' = (unwritten /\ ~(succ /\ boxRow # Void))
            /\ UNCHANGED toAgent
    /\ UNCHANGED <<kept, session, crossing, left>>

SafeBoxNext ==
    \/ BoxDatabase
    \/ /\ \/ LoginSucc \/ Creat \/ Deals \/ Leaves \/ Hears \/ AdminTold
          \/ \E p \in Password : Opens("open", p) \/ Admin(p) \/ \E q \in Password : ChangeSafeBoxPWD(p, q)
          \/ \E s \in Secret : Opens("forgot", s) \/ \E t \in Secret : ChangeSafeBoxQuestion(s, t)
       /\ UNCHANGED unwritten

-----------------------------------------------------------------------------
(* Properties *)

\* When nothing is under way the database has the password somebody was last
\* told is the new one, and so has the agent, in spite of the agent writing
\* the password it has with every change of the money and of administrators
\* changing it behind the agent's back (agent.lua, UpdateSafeBoxToDB;
\* playercenter.lua, ADMIN_CHANGE_SF_PWD).  Two ways to break this are in the
\* code, and told apart here: a box the agent writes between the change and
\* the notice of it brings the old password back, and a new password whose
\* statement fails is lost without a word (database.lua, SQL_UPDATE_SAFE_BOX)
\* until a later one writes it.
PasswordKept ==
    dbBox = <<>> /\ toAgent = <<>> /\ change = Void /\ boxRow # Void /\ ~crossing /\ ~unwritten =>
        /\ boxRow.pwd = told
        /\ kept # Void => kept.pwd = told
=============================================================================
