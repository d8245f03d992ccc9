-------------------------------- MODULE Login -------------------------------
(***************************************************************************)
(* Logging in and out: the watchdogs (watchdog.lua), which start an agent  *)
(* for every connection and tell the gate where its data goes, the player  *)
(* center (playercenter.lua), which knows the agent and the connection of  *)
(* every player, and the agents (agent.lua).  A player who logs in a       *)
(* second time gets the agent of the first login back: the watchdog swaps  *)
(* the agents of the two connections and the second agent goes away with   *)
(* the first connection.  Every service handles its messages in order, and *)
(* goes on with others while it waits for the answer to a call.            *)
(* An agent has the name of the connection it was started for.             *)
(***************************************************************************)
EXTENDS Common, Sequences

CONSTANTS
    Session,        \* connections, numbered in the order they are made, over all gates
    Player,         \* players
    Ptype           \* connection -> the kind of packets it speaks, which has a watchdog

VARIABLES
    conn,           \* connection -> new, open or closed, at the gate
    agent_all,      \* the watchdogs: connection -> its agent and state
    forward,        \* the gate: connection -> agent its data goes to
    agentOf,        \* agent -> what it knows; Void before it starts and after it is gone
    all_player,     \* the center: player -> agent, connection, lock
    server_close,   \* the center refuses logins
    aborted,        \* the center has stopped the server
    toCenter,       \* messages to the center
    toWatchdog,     \* messages to the watchdogs
    toAgent,        \* agent -> messages to it
    evicted         \* players whose record was removed by an agent that was not theirs

loginVars == <<conn, agent_all, forward, agentOf, all_player, server_close, aborted,
               toCenter, toWatchdog, toAgent, evicted>>

LoginInit ==
    /\ conn = [s \in Session |-> "new"] /\ agent_all = <<>> /\ forward = <<>>
    /\ agentOf = [a \in Session |-> Void]
    /\ all_player = <<>>
    /\ server_close = FALSE /\ aborted = FALSE
    /\ toCenter = <<>> /\ toWatchdog = <<>>
    /\ toAgent = [a \in Session |-> <<>>]
    /\ evicted = {}

\* A started agent: client and sid are the connection it talks to.
StartedAgent(s) == [uid |-> Void, sid |-> s, login |-> FALSE, lock |-> FALSE, connected |-> TRUE,
                    state |-> "connected", blocked |-> FALSE]

SetAgent(a, r)  == agentOf' = [agentOf EXCEPT ![a] = r]
ToCenter(m)     == toCenter' = Append(toCenter, m)
ToWatchdog(m)   == toWatchdog' = Append(toWatchdog, m)
Deliver(a, m)   == IF a \in Session /\ agentOf[a] # Void THEN [toAgent EXCEPT ![a] = Append(@, m)] ELSE toAgent
ToAgent(a, m)   == toAgent' = Deliver(a, m)

-----------------------------------------------------------------------------
(* The gate: connections and their data *)

Open(s) ==
    /\ Use("open")
    /\ conn[s] = "new" /\ \A t \in Session : t < s => conn[t] # "new"
    /\ conn' = [conn EXCEPT ![s] = "open"]
    /\ ToWatchdog([op |-> "open", sid |-> s])
    /\ UNCHANGED <<agent_all, forward, agentOf, all_player, server_close, aborted, toCenter, toAgent, evicted>>

\* A login packet: to the agent the gate knows, else through the watchdog.
Data(s, u) ==
    /\ Use("data")
    /\ conn[s] = "open"
    /\ \/ s \in DOMAIN forward /\ ToAgent(forward[s], [op |-> "LOGIN", uid |-> u]) /\ UNCHANGED toWatchdog
       \/ s \notin DOMAIN forward /\ ToWatchdog([op |-> "data", sid |-> s, uid |-> u]) /\ UNCHANGED toAgent
    /\ UNCHANGED <<conn, agent_all, forward, agentOf, all_player, server_close, aborted, toCenter, evicted>>

Disconnect(s) ==
    /\ Use("close")
    /\ conn[s] = "open"
    /\ conn' = [conn EXCEPT ![s] = "closed"]
    /\ ToWatchdog([op |-> "close", sid |-> s])
    /\ UNCHANGED <<agent_all, forward, agentOf, all_player, server_close, aborted, toCenter, toAgent, evicted>>

-----------------------------------------------------------------------------
(* The watchdogs *)

\* The gate is told by a message, which is taken to be there at once: what a
\* client sends while it is on its way is as if it came later.
Forward(s, a) == forward' = Put(forward, s, a)

\* command:data: the first packet starts the agent; newservice waits for it,
\* and what comes meanwhile is dropped.
WatchdogData(m) ==
    \/ /\ m.sid \in DOMAIN agent_all /\ agent_all[m.sid].state = 1
       /\ agent_all' = [agent_all EXCEPT ![m.sid].state = 2]
       /\ SetAgent(m.sid, StartedAgent(m.sid))
       /\ toWatchdog' = Append(Tail(toWatchdog), [op |-> "started", sid |-> m.sid, uid |-> m.uid])
       /\ UNCHANGED toAgent
    \/ /\ ~(m.sid \in DOMAIN agent_all /\ agent_all[m.sid].state = 1)
       /\ toAgent' = IF m.sid \in DOMAIN agent_all
                     THEN Deliver(agent_all[m.sid].agent, [op |-> "LOGIN", uid |-> m.uid]) ELSE toAgent
       /\ toWatchdog' = Tail(toWatchdog)
       /\ UNCHANGED <<agent_all, agentOf>>

\* The rest of command:data, when the agent has started.
Started(m) ==
    \/ /\ m.sid \in DOMAIN agent_all
       /\ agent_all' = [agent_all EXCEPT ![m.sid] = [agent |-> m.sid, state |-> 3]]
       /\ Forward(m.sid, m.sid)
       /\ ToAgent(m.sid, [op |-> "LOGIN", uid |-> m.uid])
    \/ m.sid \notin DOMAIN agent_all /\ UNCHANGED <<agent_all, forward, toAgent>>

WatchdogClose(m) ==
    /\ agent_all' = IF m.sid \in DOMAIN agent_all /\ agent_all[m.sid].agent = Void
                    THEN Drop(agent_all, m.sid) ELSE agent_all
    /\ toAgent' = IF m.sid \in DOMAIN agent_all THEN Deliver(agent_all[m.sid].agent, [op |-> "CLOSE"]) ELSE toAgent

\* EVENT_REDIRECT: swaps the agents of two connections.  A connection without
\* an entry is an error, and the center is never answered.
Redirect(m) ==
    \/ /\ {m.new, m.old} \subseteq DOMAIN agent_all
       /\ \E o \in {agent_all[m.old].agent}, n \in {agent_all[m.new].agent} :
            /\ agent_all' = [agent_all EXCEPT ![m.old].agent = n, ![m.new].agent = o]
            /\ forward' = Put(Put(forward, m.new, o), m.old, n)
       /\ ToCenter([m EXCEPT !.op = "redirected"])
    \/ ~({m.new, m.old} \subseteq DOMAIN agent_all) /\ UNCHANGED <<agent_all, forward, toCenter>>

\* EVENT_CHANGE_AGENT: tells the agent of a connection, and may replace it.
\* The center calls it three times; put says which agent replaces which.
ChangeAgent(m) ==
    \/ /\ m.sid \in DOMAIN agent_all
       /\ agent_all' = IF m.agent = Void THEN agent_all ELSE [agent_all EXCEPT ![m.sid].agent = m.agent]
       /\ forward' = IF m.agent = Void THEN forward ELSE Put(forward, m.sid, m.agent)
       /\ ToCenter([m EXCEPT !.op = "changed", !.agent = agent_all[m.sid].agent])
    \/ m.sid \notin DOMAIN agent_all /\ UNCHANGED <<agent_all, forward, toCenter>>

AgentClose(m) ==
    /\ agent_all' = Drop(agent_all, m.sid)
    /\ forward' = Drop(forward, m.sid)
    /\ conn' = [conn EXCEPT ![m.sid] = "closed"]

Watchdog ==
    /\ toWatchdog # <<>> /\ ~aborted
    /\ \E m \in {Head(toWatchdog)} :
         \/ m.op = "data" /\ WatchdogData(m) /\ UNCHANGED <<conn, forward, toCenter>>
         \/ /\ m.op # "data"
            /\ toWatchdog' = Tail(toWatchdog)
            /\ \/ /\ m.op = "open"
                  /\ agent_all' = Put(agent_all, m.sid, [agent |-> Void, state |-> 1])
                  /\ UNCHANGED <<conn, forward, toAgent, toCenter>>
               \/ m.op = "started" /\ Started(m) /\ UNCHANGED <<conn, toCenter>>
               \/ m.op = "close" /\ WatchdogClose(m) /\ UNCHANGED <<conn, forward, toCenter>>
               \/ m.op = "REDIRECT" /\ Redirect(m) /\ UNCHANGED <<conn, toAgent>>
               \/ m.op = "CHANGE_AGENT" /\ ChangeAgent(m) /\ UNCHANGED <<conn, toAgent>>
               \/ m.op = "AGENT_CLOSE" /\ AgentClose(m) /\ UNCHANGED <<toAgent, toCenter>>
            /\ UNCHANGED agentOf
    /\ UNCHANGED <<all_player, server_close, aborted, evicted, left>>

-----------------------------------------------------------------------------
(* The center *)

Answered(a, r) == ToAgent(a, r)

\* Mutant: a first login is not recorded.
EventLoginForgotten(m) ==
    /\ Answered(m.from, [op |-> "answer", ret |-> "ok", uid |-> m.uid])
    /\ UNCHANGED <<all_player, toWatchdog>>

\* EVENT_LOGIN: refused, a first login, or the agent of an earlier login is
\* brought to the new connection.
EventLogin(m) ==
    \/ /\ server_close
       /\ Answered(m.from, [op |-> "answer", ret |-> "closed"])
       /\ UNCHANGED <<all_player, toWatchdog>>
    \/ /\ ~server_close /\ m.uid \notin DOMAIN all_player
       /\ Answered(m.from, [op |-> "answer", ret |-> "ok", uid |-> m.uid])
       /\ all_player' = Put(all_player, m.uid, [agent |-> m.from, sid |-> m.sid, lock |-> FALSE])
       /\ UNCHANGED toWatchdog
    \/ /\ ~server_close /\ m.uid \in DOMAIN all_player
       /\ \E p \in {all_player[m.uid]} :
            \/ /\ p.lock
               /\ Answered(m.from, [op |-> "answer", ret |-> "other", uid |-> m.uid, sid |-> Void])
               /\ UNCHANGED <<all_player, toWatchdog>>
            \/ /\ ~p.lock
               /\ all_player' = [all_player EXCEPT ![m.uid].lock = TRUE]
               /\ ToWatchdog(IF Ptype[p.sid] = Ptype[m.sid]
                             THEN [op |-> "REDIRECT", new |-> m.sid, old |-> p.sid, uid |-> m.uid, from |-> m.from]
                             ELSE [op |-> "CHANGE_AGENT", sid |-> p.sid, agent |-> Void, step |-> 1,
                                   new |-> m.sid, uid |-> m.uid, from |-> m.from])
               /\ UNCHANGED toAgent

\* The rest of EVENT_LOGIN, after the watchdogs have moved the agents.
Relogged(m) ==
    IF m.uid \notin DOMAIN all_player THEN UNCHANGED <<toAgent, all_player>>
    ELSE \E p \in {all_player[m.uid]} :
           /\ \E q \in {Deliver(p.agent, [op |-> "RELOGIN", sid |-> m.new])} :
                toAgent' = IF agentOf[m.from] = Void THEN q
                           ELSE [q EXCEPT ![m.from] =
                                   Append(@, [op |-> "answer", ret |-> "other", uid |-> m.uid, sid |-> p.sid])]
           /\ all_player' = [all_player EXCEPT ![m.uid] = [@ EXCEPT !.sid = m.new, !.lock = FALSE]]

\* The answers to the three calls of CHANGE_AGENT.
Changed(m) ==
    \/ /\ m.step < 3
       /\ toWatchdog' = IF m.uid \in DOMAIN all_player
                        THEN Append(toWatchdog, [m EXCEPT !.op = "CHANGE_AGENT", !.step = @ + 1,
                                                   !.sid = IF m.step = 1 THEN m.new ELSE all_player[m.uid].sid])
                        ELSE toWatchdog
       /\ UNCHANGED <<toAgent, all_player>>
    \/ m.step = 3 /\ Relogged(m) /\ UNCHANGED toWatchdog

EventLock(m) ==
    LET ok == m.uid \notin DOMAIN all_player
              \/ (~all_player[m.uid].lock /\ all_player[m.uid].sid = m.sid)
    IN  /\ Answered(m.from, [op |-> "locked", ok |-> ok])
        /\ all_player' = IF ok /\ m.uid \in DOMAIN all_player
                         THEN [all_player EXCEPT ![m.uid].lock = TRUE] ELSE all_player

EventUnlock(m) ==
    /\ all_player' = IF m.uid \in DOMAIN all_player THEN [all_player EXCEPT ![m.uid].lock = FALSE] ELSE all_player
    /\ Answered(m.from, [op |-> "unlocked"])

\* EVENT_LOGIN_OUT: whoever is recorded for the player is forgotten; the last
\* one stops a closing server.
EventLoginOut(m) ==
    /\ all_player' = Drop(all_player, m.uid)
    /\ Answered(m.from, [op |-> "out"])
    /\ aborted' = (server_close /\ DOMAIN all_player \subseteq {m.uid})
    /\ evicted' = IF m.uid \in DOMAIN all_player /\ all_player[m.uid].agent # m.from
                  THEN evicted \cup {m.uid} ELSE evicted

Center ==
    /\ toCenter # <<>> /\ ~aborted
    /\ toCenter' = Tail(toCenter)
    /\ \E m \in {Head(toCenter)} :
         \/ m.op = "EVENT_LOGIN" /\ EventLogin(m) /\ UNCHANGED <<aborted, evicted>>
         \/ m.op = "redirected" /\ Relogged(m) /\ UNCHANGED <<toWatchdog, aborted, evicted>>
         \/ m.op = "changed" /\ Changed(m) /\ UNCHANGED <<aborted, evicted>>
         \/ m.op = "EVENT_LOCK" /\ EventLock(m) /\ UNCHANGED <<toWatchdog, aborted, evicted>>
         \/ m.op = "EVENT_UNLOCK" /\ EventUnlock(m) /\ UNCHANGED <<toWatchdog, aborted, evicted>>
         \/ m.op = "EVENT_LOGIN_OUT" /\ EventLoginOut(m) /\ UNCHANGED toWatchdog
    /\ UNCHANGED <<conn, agent_all, forward, agentOf, server_close, left>>

\* EVENT_SERVER_CLOSE and EVENT_SHUT_DOWN: no more logins, and every agent is
\* told to leave.
ServerClose ==
    /\ Use("shut") /\ ~aborted
    /\ server_close' = TRUE
    /\ toAgent' = [a \in Session |->
                     IF \E u \in DOMAIN all_player : all_player[u].agent = a /\ agentOf[a] # Void
                     THEN Append(toAgent[a], [op |-> "CLOSE"]) ELSE toAgent[a]]
    /\ UNCHANGED <<conn, agent_all, forward, agentOf, all_player, aborted, toCenter, toWatchdog, evicted>>

-----------------------------------------------------------------------------
(* The agents *)

\* Exit: an agent that never logged in just goes; the others ask the center.
ExitAgent(a, r) ==
    /\ SetAgent(a, IF r.lock THEN r
                   ELSE IF r.uid = Void THEN Void ELSE [r EXCEPT !.lock = TRUE, !.state = "disconnect"])
    /\ toCenter' = IF r.lock \/ r.uid = Void THEN toCenter
                   ELSE Append(toCenter, [op |-> "EVENT_LOCK", uid |-> r.uid, sid |-> r.sid, from |-> a])
    /\ toWatchdog' = IF r.lock \/ r.uid # Void THEN toWatchdog
                     ELSE Append(toWatchdog, [op |-> "AGENT_CLOSE", sid |-> r.sid])

AgentLogin(a, r, m) ==
    \/ /\ r.state = "connected"
       /\ SetAgent(a, [r EXCEPT !.state = "login_in"])
       /\ ToCenter([op |-> "EVENT_LOGIN", uid |-> m.uid, sid |-> r.sid, from |-> a])
    \/ r.state # "connected" /\ UNCHANGED <<agentOf, toCenter>>

\* The rest of Login.  Loading the player from the database may fail; what
\* the agent waits for while it loads is one step with what follows.
LoginAnswer(a, r, m) ==
    \/ /\ m.ret = "ok"
       /\ \/ /\ SetAgent(a, [r EXCEPT !.uid = m.uid, !.connected = TRUE, !.login = TRUE, !.state = "login_succ"])
             /\ UNCHANGED <<toCenter, toWatchdog, left>>
          \/ /\ Use("noconf")
             /\ ExitAgent(a, [r EXCEPT !.uid = m.uid, !.connected = FALSE])
    \/ /\ m.ret = "other" /\ m.sid = Void
       /\ SetAgent(a, [r EXCEPT !.uid = m.uid])
       /\ UNCHANGED <<toCenter, toWatchdog, left>>
    \/ m.ret = "other" /\ m.sid # Void /\ ExitAgent(a, [r EXCEPT !.uid = m.uid, !.sid = m.sid]) /\ UNCHANGED left
    \/ m.ret = "closed" /\ ExitAgent(a, r) /\ UNCHANGED left

\* The rest of Exit, when the center has answered EVENT_LOCK.  A player in a
\* match may have to stay.
ExitAnswer(a, r, m) ==
    \/ ~m.ok /\ SetAgent(a, [r EXCEPT !.lock = FALSE]) /\ UNCHANGED <<toCenter, left>>
    \/ /\ m.ok
       /\ SetAgent(a, [r EXCEPT !.login = FALSE, !.blocked = TRUE])
       /\ ToCenter([op |-> "EVENT_LOGIN_OUT", uid |-> r.uid, sid |-> r.sid, from |-> a])
       /\ UNCHANGED left
    \/ /\ m.ok /\ Use("stay")
       /\ SetAgent(a, [r EXCEPT !.login = TRUE])
       /\ ToCenter([op |-> "EVENT_UNLOCK", uid |-> r.uid, from |-> a])

\* Messages an agent takes; a blockcall lets nothing but its answer through.
AgentMessage(a) ==
    /\ agentOf[a] # Void /\ toAgent[a] # <<>> /\ ~aborted
    /\ toAgent' = [toAgent EXCEPT ![a] = Tail(@)]
    /\ \E r \in {agentOf[a]}, m \in {Head(toAgent[a])} :
         /\ r.blocked => m.op = "out"
         /\ \/ m.op = "LOGIN" /\ AgentLogin(a, r, m) /\ UNCHANGED <<toWatchdog, left>>
            \/ m.op = "answer" /\ LoginAnswer(a, r, m)
            \/ m.op = "CLOSE" /\ ExitAgent(a, [r EXCEPT !.connected = FALSE]) /\ UNCHANGED left
            \/ /\ m.op = "RELOGIN"
               /\ SetAgent(a, [r EXCEPT !.sid = m.sid, !.connected = TRUE, !.login = TRUE, !.state = "login_succ"])
               /\ UNCHANGED <<toCenter, toWatchdog, left>>
            \/ m.op = "locked" /\ ExitAnswer(a, r, m) /\ UNCHANGED toWatchdog
            \/ m.op = "unlocked" /\ SetAgent(a, [r EXCEPT !.lock = FALSE]) /\ UNCHANGED <<toCenter, toWatchdog, left>>
            \/ /\ m.op = "out"
               /\ SetAgent(a, Void)
               /\ ToWatchdog([op |-> "AGENT_CLOSE", sid |-> r.sid])
               /\ UNCHANGED <<toCenter, left>>
    /\ UNCHANGED <<conn, agent_all, forward, all_player, server_close, aborted, evicted>>

\* HeartBetCB: no heart beat for 45 seconds; a match that ends also makes an
\* agent without a connection try again (KickForGameOver).
HeartBeat(a) ==
    /\ Use("heart")
    /\ agentOf[a] # Void /\ ~agentOf[a].blocked /\ ~aborted
    /\ ExitAgent(a, [agentOf[a] EXCEPT !.connected = FALSE])
    /\ UNCHANGED <<conn, agent_all, forward, all_player, server_close, aborted, toAgent, evicted>>

LoginNext ==
    \/ \E s \in Session : \/ Open(s) \/ Disconnect(s)
                          \/ \E u \in Player : Data(s, u)
                          \/ AgentMessage(s) \/ HeartBeat(s)
    \/ Watchdog \/ Center \/ ServerClose

-----------------------------------------------------------------------------
(* Properties *)

Busy(a) == \/ toAgent[a] # <<>> \/ agentOf[a].lock \/ agentOf[a].blocked
           \/ \E i \in DOMAIN toCenter : toCenter[i].from = a
           \/ \E i \in DOMAIN toWatchdog : "from" \in DOMAIN toWatchdog[i]

\* A player is logged in at one place: two agents never serve the same player
\* (the lock of EVENT_LOGIN, playercenter.lua:172), unless the logout of an
\* agent that was left behind by a takeover removed the player's record.
OneLogin ==
    evicted = {} => \A a, b \in Session :
        (a # b /\ agentOf[a] # Void /\ agentOf[b] # Void) =>
            ~(agentOf[a].login /\ agentOf[b].login /\ agentOf[a].uid = agentOf[b].uid)

\* The center, the watchdog, the gate and the agents agree on who serves a
\* player and on which connection, however logins, closed connections and
\* heart beats interleave: the agent recorded for a player that is not locked
\* serves that player on the recorded connection, and that connection's entry
\* in the watchdog and the gate's forwarding lead back to the agent.
SessionsAgree ==
    \A u \in DOMAIN all_player : \E p \in {all_player[u]} :
        (evicted = {} /\ ~p.lock /\ agentOf[p.agent] # Void /\ ~Busy(p.agent)) =>
            /\ agentOf[p.agent].uid = u /\ agentOf[p.agent].sid = p.sid
            /\ p.sid \in DOMAIN agent_all => agent_all[p.sid].agent = p.agent /\ forward[p.sid] = p.agent

\* The server stops only when nobody is logged in (EVENT_LOGIN_OUT aborts it).
NobodyLost ==
    aborted => evicted # {} \/ \A a \in Session : agentOf[a] = Void \/ ~agentOf[a].login
=============================================================================
