-------------------------------- MODULE MCNet ---------------------------------
(***************************************************************************)
(* What carries messages between services, nodes and clients, for TLC:     *)
(* multicast groups, the group manager, harbors and master, the gate, the  *)
(* Lua socket buffer, the Redis client and the sessions of the Lua         *)
(* library.  As in MCHall a behaviour follows the part its mix names.      *)
(***************************************************************************)
EXTENDS Common, Sequences, TLC

CONSTANTS
    Member, GroupId, CastMessage, MaxInst,            \* Multicast
    Gid,                                              \* GroupManager
    HarborId, GlobalName, Remote,                     \* Harbor
    RingSize, BlockHeader, Alignment, Nil, MaxConnection, Cap, Client, ReadBlock, Base,
    PolicySize, FrameLengths, WriteRoom, Agents,      \* Gate
    HeaderSize, MaxBlock, MaxPush, Separator,         \* SocketBuffer
    User, Pieces,                                     \* RedisClient
    Coroutine                                         \* LuaSession

VARIABLES
    alive, mbox, node, made, castInbox, enterQueue, leaveQueue, castData, mc, casting,
    castFault,
    harborCtrl, lastId, multicast, g, created, agentBox, group, tunnel, joined,
    up, masterFd, masterAddr, masterName, toMaster, fromMaster, masterLink, value,
    waiting, remoteFd, link, delivered, sent, dropped, troubled,
    gheader, m, conn, table, idIndex, broker, cb, reports, frames, pushed,
    memory, cap, size, read, header, wire, stream, written, taken, tooLong,
    user, box, fd, object, data, queue, parsed, batch, tasks, slots, orders, net, issued,
    exposed, redisFault,
    inbox, phase, running, co, pool, sessionCo, coSession, sleepSession, wakeupSession,
    forkQueue, lastSession, requests, calls, timers, trace, replies, luaFault

multicastVars == <<alive, mbox, node, made, castInbox, enterQueue, leaveQueue, castData,
                   mc, casting, castFault>>
managerVars == <<harborCtrl, lastId, multicast, g, created, agentBox, group, tunnel, joined>>
harborVars == <<up, masterFd, masterAddr, masterName, toMaster, fromMaster, masterLink,
                value, waiting, remoteFd, link, delivered, sent, dropped, troubled>>
gateVars == <<gheader, m, conn, table, idIndex, broker, cb, reports, frames, pushed>>
bufferVars == <<memory, cap, size, read, header, wire, stream, written, taken, tooLong>>
redisVars == <<user, box, fd, object, data, queue, parsed, batch, tasks, slots, orders,
               net, issued, exposed, redisFault>>
luaVars == <<inbox, phase, running, co, pool, sessionCo, coSession, sleepSession,
             wakeupSession, forkQueue, lastSession, requests, calls, timers, trace, replies, luaFault>>

Groups  == INSTANCE Multicast WITH inbox <- castInbox, data <- castData
Manager == INSTANCE GroupManager WITH Harbor <- HarborId
Harbors == INSTANCE Harbor
Gates   == INSTANCE Gate
Buffer  == INSTANCE SocketBuffer
Redis   == INSTANCE RedisClient
Lua     == INSTANCE LuaSession

ASSUME Gates!RingAssumption
ASSUME GroupsAssumption == Groups!MulticastAssumption
ASSUME ManagerAssumption == Manager!ManagerAssumption
ASSUME LuaAssumption == Lua!SessionAssumption
ASSUME BufferAssumption == Buffer!BufferAssumption

(* The mixes name the part they are for; a gate that rests has the header  *)
(* "S".                                                                    *)
Of(part, mixes) == {(part :> 1) @@ mix @@ ("S" :> 1) : mix \in mixes}
OfGate(headers, mixes) == {("Gate" :> 1) @@ (h :> 1) @@ mix : h \in headers, mix \in mixes}

NetMixes ==
    Of("Multicast", {
        [enter |-> 3, leave |-> 1, cast |-> 1, die |-> 1],
        [query |-> 1, enter |-> 2, clear |-> 1, cast |-> 1, leave |-> 1],
        [localcast |-> 2, die |-> 1],
        [enter |-> 2, cast |-> 2, die |-> 1]}) \cup
    Of("GroupManager", {
        [master |-> 3, new |-> 1, join |-> 2, quit |-> 1, delete |-> 1],
        [master |-> 2, new |-> 2, join |-> 3]}) \cup
    Of("Harbor", {
        [harbor |-> 2, register |-> 2, sendname |-> 2],
        [harbor |-> 2, register |-> 1, sendname |-> 2, answer |-> 1],
        [harbor |-> 2, register |-> 1, sendname |-> 2, break |-> 1],
        [harbor |-> 3, register |-> 1, crash |-> 1],
        [harbor |-> 3, register |-> 1, sendname |-> 1, crash |-> 1]}) \cup
    Of("SocketBuffer", {[block |-> 2], [bytes |-> 3]}) \cup
    Of("RedisClient", {
        [command |-> 2, batch |-> 1, shut |-> 1, connect |-> 1, refuse |-> 1],
        [command |-> 3, shut |-> 2, connect |-> 2],
        [db |-> 1, command |-> 3, shut |-> 1, connect |-> 1]}) \cup
    Of("LuaSession", {
        [request |-> 2, call |-> 1, sleep |-> 1, wakeup |-> 1, ret |-> 2],
        [request |-> 2, sleep |-> 2, wakeup |-> 2, error |-> 1],
        [request |-> 1, fork |-> 1, timeout |-> 1, call |-> 1, ret |-> 2, gc |-> 1],
        [request |-> 2, trace |-> 2, call |-> 1, sleep |-> 1, wakeup |-> 1]}) \cup
    OfGate({"S"}, {
        [connect |-> 2, send |-> 2, leave |-> 1],
        [connect |-> 3, send |-> 2],
        [connect |-> 1, send |-> 2, push |-> 3, take |-> 2, kick |-> 1],
        [connect |-> 1, send |-> 1, push |-> 2, take |-> 1, leave |-> 1],
        [connect |-> 2, send |-> 2, kick |-> 1, forward |-> 1, push |-> 1],
        [connect |-> 1, send |-> 2, broker |-> 1, release |-> 1]}) \cup
    OfGate({"W"}, {[connect |-> 1, send |-> 3, leave |-> 1]}) \cup
    OfGate({"L"}, {[connect |-> 1, send |-> 2]}) \cup
    OfGate({"P"}, {[connect |-> 2, send |-> 2]})

-----------------------------------------------------------------------------
Part(p) == p \in DOMAIN left

(* A part that rests has one initial state; the header matters for blocks. *)
Init ==
    /\ MixInit
    /\ Groups!MulticastInit /\ Manager!GroupManagerInit /\ Harbors!HarborInit
    /\ Gates!GateInit /\ Buffer!SocketBufferInit /\ Redis!RedisInit /\ Lua!LuaInit
    /\ May("block") \/ header = 2

Next ==
    \/ Part("Multicast") /\ Groups!MulticastNext
       /\ UNCHANGED <<managerVars, harborVars, gateVars, bufferVars, redisVars, luaVars>>
    \/ Part("GroupManager") /\ Manager!GroupManagerNext
       /\ UNCHANGED <<multicastVars, harborVars, gateVars, bufferVars, redisVars, luaVars>>
    \/ Part("Harbor") /\ Harbors!HarborNext
       /\ UNCHANGED <<multicastVars, managerVars, gateVars, bufferVars, redisVars, luaVars>>
    \/ Part("Gate") /\ Gates!GateNext
       /\ UNCHANGED <<multicastVars, managerVars, harborVars, bufferVars, redisVars, luaVars>>
    \/ Part("SocketBuffer") /\ Buffer!SocketBufferNext
       /\ UNCHANGED <<multicastVars, managerVars, harborVars, gateVars, redisVars, luaVars>>
    \/ Part("RedisClient") /\ Redis!RedisNext
       /\ UNCHANGED <<multicastVars, managerVars, harborVars, gateVars, bufferVars, luaVars>>
    \/ Part("LuaSession") /\ Lua!LuaNext
       /\ UNCHANGED <<multicastVars, managerVars, harborVars, gateVars, bufferVars, redisVars>>

vars == <<multicastVars, managerVars, harborVars, gateVars, bufferVars, redisVars, luaVars, left>>

Spec == Init /\ [][Next]_vars

-----------------------------------------------------------------------------
(* The constants.                                                          *)
NetFrames    == <<1, 3>>
NetSeparator == <<1, 0>>
NetPieces    == <<2, 1, 2, 1>>

-----------------------------------------------------------------------------
(* skynet_multicast.c: a message that is cast is counted copy by copy and  *)
(* freed with the last one (CopiesCounted of Multicast).                   *)
CopiesRight == Part("Multicast") => Groups!CopiesCounted

(* skynet_multicast.c, combine_queue: the members of a group are those who *)
(* were in or entered and did not leave (GroupCombined of Multicast).      *)
GroupCombined == Groups!GroupCombined

(* group_mgr.lua and group_agent.lua: harbors that have a group reach each *)
(* other's members when all messages have arrived, whatever their order    *)
(* (TunnelsComplete of GroupManager).                                      *)
TunnelsRight == Part("GroupManager") => Manager!TunnelsComplete

(* service_harbor.c and service_master.c: harbors agree on names, are      *)
(* connected to each other, and deliver messages to names in order         *)
(* (NamesAgree, AllConnected and NamedDelivery of Harbor).                 *)
HarborRight ==
    Part("Harbor") => Harbors!NamesAgree /\ Harbors!AllConnected /\ Harbors!NamedDelivery

(* mread.c, ringbuffer.c and gate/main.c: clients' frames are forwarded    *)
(* as they were sent, open and close are reported in pairs, and the ring   *)
(* stays whole (GateStreams, OpenClosePaired and RingIntact of Gate).      *)
GateRight ==
    Part("Gate") => Gates!GateStreams /\ Gates!OpenClosePaired /\ Gates!RingIntact

(* lua-socket.c: the blocks that are taken are those that were written,    *)
(* however the buffer is moved and grown (StreamKept of SocketBuffer).     *)
StreamRight == Part("SocketBuffer") => Buffer!StreamKept

(* redis-cli.lua: every user is answered with the replies to its own       *)
(* commands (OwnReplies of RedisClient).                                   *)
RepliesRight == Part("RedisClient") => Redis!OwnReplies

(* skynet.lua: a waiting coroutine is resumed by its own response, once,   *)
(* and replies to the request it was started for (AnswersMatched and       *)
(* RepliesToOwnRequest of LuaSession).                                     *)
SessionsRight == Part("LuaSession") => Lua!AnswersMatched /\ Lua!RepliesToOwnRequest
=============================================================================
