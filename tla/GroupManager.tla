------------------------------ MODULE GroupManager ------------------------------
(***************************************************************************)
(* Groups across harbors: service/group_mgr.lua, one for all harbors, and  *)
(* service/group_agent.lua, one in each.  In every harbor a group consists *)
(* of a receiving group (id * 2) and a sending one (id * 2 + 1), which     *)
(* also holds a tunnel to the receiving group of each other harbor.        *)
(*                                                                         *)
(* The manager's skynet.call yields, so that it works on other requests    *)
(* while a harbor creates its group.  A failed assert ends the coroutine   *)
(* of one request; the CLEAR of the agents is never sent, because          *)
(* command.DELETE fails on the undefined g.                                *)
(***************************************************************************)
EXTENDS Common, Sequences, FiniteSets

CONSTANTS
    Harbor,
    Gid         \* the ids that command.NEW gives, 1 .. n

VARIABLES
    harborCtrl,     \* harbor_ctrl, the harbors whose agent has reported
    lastId,         \* id
    multicast,      \* the ids that multicast has a table for
    g,              \* that table, also when multicast[id] has been set to nil
    created,        \* the answers to CREATE on their way to the manager
    agentBox,       \* the mailboxes of the agents
    group,          \* the agents' tables
    tunnel,         \* the harbors to which the sending group has tunnels
    joined          \* how many services of the harbor are in both groups

groupManagerVars == <<harborCtrl, lastId, multicast, g, created, agentBox, group, tunnel, joined>>

GroupManagerInit ==
    /\ harborCtrl = {}
    /\ lastId = 0
    /\ multicast = {}
    /\ g = [id \in Gid |-> [h \in Harbor |-> "nil"]]
    /\ created = {}
    /\ agentBox = [h \in Harbor |-> <<>>]
    /\ group = [h \in Harbor |-> {}]
    /\ tunnel = [h \in Harbor |-> [id \in Gid |-> <<>>]]
    /\ joined = [h \in Harbor |-> [id \in Gid |-> 0]]

AgentSend(h, m) == agentBox' = [agentBox EXCEPT ![h] = Append(@, m)]
ToAgent(cmd, id, of) == [cmd |-> cmd, id |-> id, of |-> of]

(* command.MASTER, when the agent of a harbor starts.                      *)
Master(h) ==
    /\ h \notin harborCtrl /\ Use("master")
    /\ harborCtrl' = harborCtrl \cup {h}
    /\ UNCHANGED <<lastId, multicast, g, created, agentBox, group, tunnel, joined>>

(* command.NEW *)
NewGroup ==
    /\ lastId + 1 \in Gid /\ Use("new")
    /\ lastId' = lastId + 1
    /\ multicast' = multicast \cup {lastId'}
    /\ UNCHANGED <<harborCtrl, g, created, agentBox, group, tunnel, joined>>

(* command.ENTER: the first of a harbor calls CREATE there, and waits.     *)
Enter(h, id) ==
    /\ id \in multicast /\ h \in harborCtrl /\ Use("join")
    /\ IF g[id][h] = "nil"
       THEN /\ g' = [g EXCEPT ![id][h] = "false"]
            /\ AgentSend(h, ToAgent("CREATE", id, h))
       ELSE AgentSend(h, ToAgent("ENTER", id, h)) /\ UNCHANGED g
    /\ UNCHANGED <<harborCtrl, lastId, multicast, created, group, tunnel, joined>>

(* Mutant: the other harbors are not told of a new one.                    *)
AgentsToldNobody(h, id) == {}

(* The harbors that create_group_in sends the new receiving group to.      *)
AgentsTold(h, id) == harborCtrl \ {h}

(* The elements of S one after the other, as pairs gives them.             *)
Orders(S) == {order \in [1 .. Cardinality(S) -> S] : \A k \in S : \E i \in DOMAIN order : order[i] = k}

(* create_group_in after its call, and the rest of command.ENTER: the new  *)
(* harbor gets a tunnel to each harbor that is done, in the order of       *)
(* pairs, and all others get one to it.                                    *)
GroupCreated == \E c \in created :
    LET h == c.harbor  id == c.id IN
    /\ created' = created \ {c}
    /\ \E order \in Orders({k \in Harbor : g[id][k] = "mc"}) :
         agentBox' = [k \in Harbor |->
              IF k = h THEN Append(agentBox[h] \o [i \in DOMAIN order |-> ToAgent("AGENT", id, order[i])],
                                   ToAgent("ENTER", id, h))
              ELSE IF k \in AgentsTold(h, id) THEN Append(agentBox[k], ToAgent("AGENT", id, h))
              ELSE agentBox[k]]
    /\ g' = [g EXCEPT ![id][h] = "mc"]
    /\ UNCHANGED <<left, harborCtrl, lastId, multicast, group, tunnel, joined>>

(* command.LEAVE *)
Leave(h, id) ==
    /\ id \in multicast /\ h \in harborCtrl /\ Use("quit")
    /\ AgentSend(h, ToAgent("LEAVE", id, h))
    /\ UNCHANGED <<harborCtrl, lastId, multicast, g, created, group, tunnel, joined>>

(* command.DELETE: multicast[id] is gone when pairs(g) fails.              *)
Delete(id) ==
    /\ id \in multicast /\ Use("delete")
    /\ multicast' = multicast \ {id}
    /\ UNCHANGED <<harborCtrl, lastId, g, created, agentBox, group, tunnel, joined>>

(* group_agent.lua, one command.  In AGENT the tunnel has entered the      *)
(* sending group before table.insert fails for a group that is not there.  *)
AgentCommand(h) ==
    /\ agentBox[h] # <<>>
    /\ agentBox' = [agentBox EXCEPT ![h] = Tail(@)]
    /\ LET m == Head(agentBox[h]) IN
       \/ /\ m.cmd = "CREATE"
          /\ group' = [group EXCEPT ![h] = @ \cup {m.id}]
          /\ created' = IF m.id \in group[h] THEN created
                        ELSE created \cup {[harbor |-> h, id |-> m.id]}
          /\ UNCHANGED <<tunnel, joined>>
       \/ /\ m.cmd = "AGENT"
          /\ tunnel' = [tunnel EXCEPT ![h][m.id] = Append(@, m.of)]
          /\ UNCHANGED <<group, created, joined>>
       \/ /\ m.cmd = "ENTER"
          /\ joined' = [joined EXCEPT ![h][m.id] = @ + 1]
          /\ UNCHANGED <<group, created, tunnel>>
       \/ /\ m.cmd = "LEAVE"
          /\ joined' = [joined EXCEPT ![h][m.id] = IF @ > 0 THEN @ - 1 ELSE @]
          /\ UNCHANGED <<group, created, tunnel>>
    /\ UNCHANGED <<left, harborCtrl, lastId, multicast, g>>

GroupManagerNext ==
    \/ NewGroup \/ GroupCreated
    \/ \E h \in Harbor : Master(h) \/ AgentCommand(h)
    \/ \E id \in Gid : Delete(id) \/ \E h \in Harbor : Enter(h, id) \/ Leave(h, id)

-----------------------------------------------------------------------------
(* When everything has arrived, two harbors that have a group can send to  *)
(* each other's members, in whatever order the two were created and        *)
(* answered the manager; and nobody who entered is waiting.                *)
TunnelsComplete ==
    (created = {} /\ \A h \in Harbor : agentBox[h] = <<>>) =>
        \A id \in Gid : \A h \in Harbor :
            /\ g[id][h] # "false"
            /\ \A k \in Harbor \ {h} : g[id][h] = "mc" /\ g[id][k] = "mc" =>
                  \E i \in 1 .. Len(tunnel[h][id]) : tunnel[h][id][i] = k

-----------------------------------------------------------------------------
(* The inductive invariant.                                                *)
Message == [cmd : {"CREATE", "AGENT", "ENTER", "LEAVE"}, id : Gid, of : Harbor]

ManagerTypeOK ==
    /\ harborCtrl \subseteq Harbor /\ multicast \subseteq Gid
    /\ g \in [Gid -> [Harbor -> {"nil", "false", "mc"}]]
    /\ created \subseteq [harbor : Harbor, id : Gid]
    /\ agentBox \in [Harbor -> Seq(Message)]
    /\ group \in [Harbor -> SUBSET Gid]
    /\ tunnel \in [Harbor -> [Gid -> Seq(Harbor)]]

(* Where a harbor's mailbox has the CREATE of group id, and the tunnel to k. *)
CreateAt(h, id)   == {i \in 1 .. Len(agentBox[h]) : agentBox[h][i].cmd = "CREATE" /\ agentBox[h][i].id = id}
AgentAt(h, id, k) == {i \in 1 .. Len(agentBox[h]) : agentBox[h][i] = ToAgent("AGENT", id, k)}

(* A group is created in a harbor once: as long as the manager waits for   *)
(* it, either the request or the answer is on its way.                     *)
CreatedOnceIn(h, id) ==
    /\ g[id][h] # "nil" => h \in harborCtrl
    /\ id \in group[h] => g[id][h] # "nil"
    /\ [harbor |-> h, id |-> id] \in created => g[id][h] = "false" /\ id \in group[h]
    /\ CreateAt(h, id) # {} => g[id][h] = "false" /\ id \notin group[h]
    /\ \A i, j \in CreateAt(h, id) : i = j
    /\ g[id][h] = "false" => [harbor |-> h, id |-> id] \in created \/ CreateAt(h, id) # {}

CreatedOnce == \A h \in Harbor, id \in Gid : CreatedOnceIn(h, id)

(* Between two harbors that are done there are tunnels in both directions, *)
(* or they are on their way.                                               *)
TunnelsOnTheirWay ==
    \A h, k \in Harbor, id \in Gid :
        h # k /\ g[id][h] = "mc" /\ g[id][k] = "mc" =>
            \/ \E i \in 1 .. Len(tunnel[h][id]) : tunnel[h][id][i] = k
            \/ AgentAt(h, id, k) # {}

ManagerInv == ManagerTypeOK /\ CreatedOnce /\ TunnelsOnTheirWay

ManagerAssumption == IsFiniteSet(Harbor)
=============================================================================
