--------------------------------- MODULE Harbor ---------------------------------
(***************************************************************************)
(* The processes of a cluster: service_harbor.c in each of them and one    *)
(* service_master.c, connected by TCP.  A harbor reports its address to    *)
(* the master, which tells all others; global names are registered with    *)
(* the master in the same way, and a message for a name that a harbor does *)
(* not know waits in a queue of that name.                                 *)
(*                                                                         *)
(* A handle is the harbor it belongs to, as one service per harbor has a   *)
(* name here; message contents are left out.  A write to a connection that *)
(* has broken fails; what had been written and not read may be lost.       *)
(***************************************************************************)
EXTENDS Common, Sequences, FiniteSets

LOCAL INSTANCE SequencesExt

CONSTANTS
    HarborId,       \* 1 .. REMOTE_MAX - 1
    GlobalName,
    Remote          \* the messages sent to names, positive integers in the order of sending

VARIABLES
    up,             \* the harbors that have started
    masterFd,       \* struct master: remote_fd, as the state of the connection
    masterAddr,     \*                remote_addr: "nil", "addr", or "empty"
    masterName,     \*                map, 0 for no value
    toMaster, fromMaster,   \* what is on its way between a harbor and the master
    masterLink,     \* struct harbor: master_fd
    value, waiting, \*                map: value (0 if unknown) and queue of a name
    remoteFd,       \*                remote_fd
    link,           \* what is on its way between two harbors
    delivered,      \* the messages that services have got, with their senders
    sent,           \* how many messages have been sent
    dropped,        \* messages given up for lack of a connection, and their destination
    troubled        \* what went wrong: "crash" of a harbor, "lost" connections

harborVars == <<up, masterFd, masterAddr, masterName, toMaster, fromMaster, masterLink,
                value, waiting, remoteFd, link, delivered, sent, dropped, troubled>>
masterVars == <<masterFd, masterAddr, masterName, fromMaster>>

HarborInit ==
    /\ up = {}
    /\ masterFd = [h \in HarborId |-> "none"]
    /\ masterAddr = [h \in HarborId |-> "nil"]
    /\ masterName = [n \in GlobalName |-> 0]
    /\ toMaster = [h \in HarborId |-> <<>>]
    /\ fromMaster = [h \in HarborId |-> <<>>]
    /\ masterLink = [h \in HarborId |-> "ok"]
    /\ value = [h \in HarborId |-> [n \in GlobalName |-> 0]]
    /\ waiting = [h \in HarborId |-> [n \in GlobalName |-> <<>>]]
    /\ remoteFd = [h \in HarborId |-> [k \in HarborId |-> "none"]]
    /\ link = [h \in HarborId |-> [k \in HarborId |-> <<>>]]
    /\ delivered = [h \in HarborId |-> <<>>]
    /\ sent = 0 /\ dropped = {} /\ troubled = {}

-----------------------------------------------------------------------------
(* service_master.c                                                        *)

(* _connect_to succeeds if the process at that address listens.            *)
MasterConnectTo(i) == i \in up

(* The value of a name, 0 if it has none (_search_name, _insert_name).     *)
MasterValue(n) == masterName[n]

(* What becomes of the connections that have broken, of those in fds: they *)
(* are made again, or given up.  The new descriptor is not stored: it      *)
(* works if it is the number that was closed, and is stale otherwise.      *)
Again(fds) ==
    LET lost == {i \in HarborId : fds[i] \in {"broken", "stale"}}
    IN  {f \in [lost -> {"ok", "stale", "none"}] : \A i \in lost : f[i] # "none" <=> MasterConnectTo(i)}

(* _broadcast: the message is lost for connections that have broken.       *)
(* Harbor i, if it is one, gets the packages s after it.                   *)
Broadcast(m, fds, i, s) ==
    \E again \in Again(fds) :
        /\ masterFd' = [k \in HarborId |-> IF k \in DOMAIN again THEN again[k] ELSE fds[k]]
        /\ fromMaster' = [k \in HarborId |->
              IF fds[k] # "ok" THEN fromMaster[k]
              ELSE Append(fromMaster[k], m) \o (IF k = i THEN s ELSE <<>>)]

AddressOf(i, a) == [what |-> "address", harbor |-> i, addr |-> a]
NameIs(n, v)    == [what |-> "name", name |-> n, handle |-> v]

(* _request_name *)
RequestName(n) ==
    /\ IF MasterValue(n) = 0 THEN UNCHANGED <<masterFd, fromMaster>>
       ELSE Broadcast(NameIs(n, MasterValue(n)), masterFd, 0, <<>>)
    /\ UNCHANGED <<masterAddr, masterName, troubled>>

(* _update_name *)
UpdateName(n, v) ==
    /\ masterName' = [masterName EXCEPT ![n] = v]
    /\ Broadcast(NameIs(n, v), masterFd, 0, <<>>)
    /\ UNCHANGED <<masterAddr, troubled>>

(* Mutant: a harbor that comes late is not told of the others.             *)
OtherAddressesNot(i) == <<>>

(* The addresses that a new harbor is told, in the order of the ids.       *)
OtherAddresses(i) ==
    LET others == SetToSortSeq({k \in HarborId \ {i} : masterAddr[k] # "nil"}, <)
    IN  [j \in DOMAIN others |-> AddressOf(others[j], masterAddr[others[j]])]

(* _update_address: the master connects to the harbor, tells all of them   *)
(* its address, and tells it the addresses of the others.  The empty       *)
(* address of a harbor that was only asked for cannot be connected to.     *)
UpdateAddress(i, a) ==
    /\ masterAddr' = [masterAddr EXCEPT ![i] = a]
    /\ IF a = "addr" /\ MasterConnectTo(i)
       THEN Broadcast(AddressOf(i, a), [masterFd EXCEPT ![i] = "ok"], i, OtherAddresses(i))
       ELSE masterFd' = [masterFd EXCEPT ![i] = "none"] /\ UNCHANGED fromMaster
    /\ troubled' = IF a = "empty" THEN troubled \cup {"lost"} ELSE troubled
    /\ UNCHANGED masterName

(* _mainloop of the master: one message of harbor h.                       *)
MasterLoop(h) ==
    /\ toMaster[h] # <<>>
    /\ toMaster' = [toMaster EXCEPT ![h] = Tail(@)]
    /\ LET m == Head(toMaster[h]) IN
       \/ m.what = "request" /\ RequestName(m.name)
       \/ m.what = "address" /\ UpdateAddress(m.harbor, m.addr)
       \/ m.what = "name" /\ UpdateName(m.name, m.handle)
    /\ UNCHANGED <<left, up, masterLink, value, waiting, remoteFd, link, delivered, sent, dropped>>

-----------------------------------------------------------------------------
(* service_harbor.c                                                        *)

(* _connect_to *)
ConnectTo(k) == k \in up

(* The value of a name as harbor h knows it (_hash_search, _hash_insert).  *)
Value(h, n) == value[h][n]

(* _push_queue: the queue of a name grows as needed.                       *)
PushQueue(h, n, m) == waiting' = [waiting EXCEPT ![h][n] = Append(@, m)]

(* _request_master: a broken connection is made again and the package sent *)
(* once more, or it is lost.                                               *)
RequestMaster(h, m) ==
    \/ /\ masterLink' = [masterLink EXCEPT ![h] = "ok"]
       /\ toMaster' = [toMaster EXCEPT ![h] = Append(@, m)]
    \/ masterLink[h] = "broken" /\ UNCHANGED <<masterLink, toMaster>>

(* harbor_init, up to _report_local_address.                               *)
StartHarbor(h) ==
    /\ h \notin up /\ Use("harbor")
    /\ up' = up \cup {h}
    /\ RequestMaster(h, AddressOf(h, "addr"))
    /\ UNCHANGED <<masterVars, value, waiting, remoteFd, link, delivered, sent, dropped, troubled>>

(* _update_remote_address *)
UpdateRemoteAddress(h, k, a) ==
    remoteFd' = IF k = h THEN remoteFd
                ELSE [remoteFd EXCEPT ![h][k] = IF a = "addr" /\ ConnectTo(k) THEN "ok" ELSE "none"]

(* _send_remote and _send_package of the messages s over a connection: if  *)
(* it has broken some of them are lost until one is written to the new     *)
(* connection, or all of them because there is none.                       *)
SendRemote(h, k, s) ==
    \/ /\ remoteFd[h][k] = "ok"
       /\ link' = [link EXCEPT ![h][k] = @ \o s]
       /\ UNCHANGED <<remoteFd, dropped>>
    \/ /\ remoteFd[h][k] = "broken"
       /\ \/ \E lost \in 1 .. Len(s) :
               /\ ConnectTo(k)
               /\ remoteFd' = [remoteFd EXCEPT ![h][k] = "ok"]
               /\ link' = [link EXCEPT ![h][k] = @ \o SubSeq(s, lost + 1, Len(s))]
          \/ ~ConnectTo(k) /\ remoteFd' = [remoteFd EXCEPT ![h][k] = "none"] /\ UNCHANGED link
       /\ UNCHANGED dropped
    \/ /\ remoteFd[h][k] = "none"
       /\ dropped' = dropped \cup {[to |-> k, msg |-> s[i]] : i \in DOMAIN s}
       /\ UNCHANGED <<remoteFd, link>>

(* _dispatch_queue *)
DispatchQueue(h, n, v) ==
    IF waiting[h][n] = <<>> THEN UNCHANGED <<remoteFd, link, dropped>>
    ELSE SendRemote(h, v, waiting[h][n])

(* _update_remote_name: the queue of the name is sent and released,        *)
(* whatever became of the messages in it.                                  *)
UpdateRemoteName(h, n, v) ==
    /\ value' = [value EXCEPT ![h][n] = v]
    /\ waiting' = [waiting EXCEPT ![h][n] = <<>>]
    /\ DispatchQueue(h, n, v)

(* _mainloop, PTYPE_HARBOR: a package of the master.                       *)
FromMaster(h) ==
    /\ fromMaster[h] # <<>>
    /\ fromMaster' = [fromMaster EXCEPT ![h] = Tail(@)]
    /\ LET m == Head(fromMaster[h]) IN
       \/ /\ m.what = "address" /\ UpdateRemoteAddress(h, m.harbor, m.addr)
          /\ UNCHANGED <<value, waiting, link, dropped>>
       \/ m.what = "name" /\ UpdateRemoteName(h, m.name, m.handle)
    /\ UNCHANGED <<left, up, masterFd, masterAddr, masterName, toMaster, masterLink, delivered,
                   sent, troubled>>

(* _mainloop, PTYPE_HARBOR: a message of another harbor is sent on to the  *)
(* local service.                                                          *)
FromRemote(h, k) ==
    /\ link[k][h] # <<>>
    /\ link' = [link EXCEPT ![k][h] = Tail(@)]
    /\ delivered' = [delivered EXCEPT ![h] = Append(@, Head(link[k][h]))]
    /\ UNCHANGED <<left, up, masterVars, toMaster, masterLink, value, waiting, remoteFd, sent,
                   dropped, troubled>>

(* _remote_register_name; v is 0 in a request.                             *)
RemoteRegisterName(h, n, v) ==
    IF v # 0
    THEN UpdateRemoteName(h, n, v) /\ RequestMaster(h, NameIs(n, v))
    ELSE /\ RequestMaster(h, [what |-> "request", name |-> n])
         /\ UNCHANGED <<value, remoteFd, link, dropped>>

(* skynet_harbor_register: a service of h registers a name.                *)
RegisterName(h, n) ==
    /\ h \in up /\ Use("register")
    /\ RemoteRegisterName(h, n, h)
    /\ UNCHANGED <<up, masterVars, delivered, sent, troubled>>

(* _remote_send_handle.  For a harbor it has no connection to it asks the  *)
(* master, by a package which the master takes for that harbor's address.  *)
RemoteSendHandle(h, k, m) ==
    \/ /\ k = h
       /\ delivered' = [delivered EXCEPT ![h] = Append(@, m)]
       /\ UNCHANGED <<remoteFd, link, dropped, toMaster, masterLink>>
    \/ /\ k # h
       /\ SendRemote(h, k, <<m>>)
       /\ IF remoteFd[h][k] = "none" THEN RequestMaster(h, AddressOf(k, "empty"))
          ELSE UNCHANGED <<toMaster, masterLink>>
       /\ UNCHANGED delivered

(* _remote_send_name *)
RemoteSendName(h, n, m) ==
    IF Value(h, n) = 0
    THEN /\ PushQueue(h, n, m)
         /\ RemoteRegisterName(h, n, 0)
         /\ UNCHANGED delivered
    ELSE RemoteSendHandle(h, Value(h, n), m) /\ UNCHANGED <<value, waiting>>

(* skynet_sendname to a global name, by a service of h.                    *)
SendName(h, n) ==
    /\ h \in up /\ sent + 1 \in Remote /\ Use("sendname")
    /\ sent' = sent + 1
    /\ RemoteSendName(h, n, [no |-> sent', source |-> h, name |-> n])
    /\ UNCHANGED <<up, masterVars, troubled>>

(* skynet_harbor_send to a handle: the service of h answers a message.     *)
SendHandle(h) == \E i \in DOMAIN delivered[h] :
    /\ sent + 1 \in Remote /\ Use("answer")
    /\ sent' = sent + 1
    /\ RemoteSendHandle(h, delivered[h][i].source, [no |-> sent', source |-> h, name |-> "none"])
    /\ UNCHANGED <<up, masterVars, value, waiting, troubled>>

-----------------------------------------------------------------------------
(* The network.                                                            *)


BreakRemote(h, k) ==
    /\ remoteFd[h][k] = "ok" /\ Use("break")
    /\ remoteFd' = [remoteFd EXCEPT ![h][k] = "broken"]
    /\ \E s \in Prefixes(link[h][k]) : link' = [link EXCEPT ![h][k] = s]
    /\ troubled' = troubled \cup {"lost"}
    /\ UNCHANGED <<up, masterVars, toMaster, masterLink, value, waiting, delivered, sent, dropped>>

BreakMaster(h) ==
    /\ masterFd[h] = "ok" /\ Use("break")
    /\ masterFd' = [masterFd EXCEPT ![h] = "broken"]
    /\ \E s \in Prefixes(fromMaster[h]) : fromMaster' = [fromMaster EXCEPT ![h] = s]
    /\ troubled' = troubled \cup {"lost"}
    /\ UNCHANGED <<up, masterAddr, masterName, toMaster, masterLink, value, waiting, remoteFd,
                   link, delivered, sent, dropped>>

BreakToMaster(h) ==
    /\ h \in up /\ masterLink[h] = "ok" /\ Use("break")
    /\ masterLink' = [masterLink EXCEPT ![h] = "broken"]
    /\ \E s \in Prefixes(toMaster[h]) : toMaster' = [toMaster EXCEPT ![h] = s]
    /\ troubled' = troubled \cup {"lost"}
    /\ UNCHANGED <<up, masterVars, value, waiting, remoteFd, link, delivered, sent, dropped>>

(* The process of a harbor dies; StartHarbor starts it again, with the     *)
(* same address.                                                           *)
Crash(h) ==
    /\ h \in up /\ Use("crash")
    /\ up' = up \ {h}
    /\ masterFd' = [masterFd EXCEPT ![h] = IF @ = "none" THEN @ ELSE "broken"]
    /\ fromMaster' = [fromMaster EXCEPT ![h] = <<>>]
    /\ \E s \in Prefixes(toMaster[h]) : toMaster' = [toMaster EXCEPT ![h] = s]
    /\ value' = [value EXCEPT ![h] = [n \in GlobalName |-> 0]]
    /\ waiting' = [waiting EXCEPT ![h] = [n \in GlobalName |-> <<>>]]
    /\ remoteFd' = [k \in HarborId |-> [i \in HarborId |->
          IF k = h THEN "none" ELSE IF i = h /\ remoteFd[k][h] = "ok" THEN "broken"
          ELSE remoteFd[k][i]]]
    /\ link' = [k \in HarborId |-> [i \in HarborId |-> IF h \in {k, i} THEN <<>> ELSE link[k][i]]]
    /\ troubled' = troubled \cup {"crash"}
    /\ UNCHANGED <<masterAddr, masterName, masterLink, delivered, sent, dropped>>

HarborNext == \E h \in HarborId :
    \/ StartHarbor(h) \/ MasterLoop(h) \/ FromMaster(h) \/ SendHandle(h)
    \/ BreakMaster(h) \/ BreakToMaster(h) \/ Crash(h)
    \/ \E n \in GlobalName : RegisterName(h, n) \/ SendName(h, n)
    \/ \E k \in HarborId : FromRemote(h, k) \/ BreakRemote(h, k)

-----------------------------------------------------------------------------
Quiescent == \A h \in HarborId :
    /\ toMaster[h] = <<>> /\ fromMaster[h] = <<>>
    /\ \A k \in HarborId : link[h][k] = <<>>

(* While no connection breaks, all harbors end up with the master's idea   *)
(* of every name they know, also if two of them register it at the same    *)
(* time; and no message waits any more for a name that is registered,      *)
(* whether the request or the registration reached the master first.       *)
NamesAgree ==
    Quiescent /\ troubled = {} => \A h \in HarborId, n \in GlobalName :
        /\ value[h][n] \in {0, masterName[n]}
        /\ masterName[n] # 0 => waiting[h][n] = <<>>

(* The harbors that run are connected to each other in the end, in         *)
(* whatever order they start, crash and start again, unless the master has *)
(* lost one of them.                                                       *)
AllConnected ==
    Quiescent /\ "lost" \notin troubled =>
        \A h, k \in up : h # k => remoteFd[h][k] = "ok" /\ masterFd[h] = "ok"

(* While no connection breaks, a message to a name is given up only if the *)
(* name turns out to be registered in the sender's own harbor (a harbor is *)
(* connected to another one before it learns of a name there, however late *)
(* it has started), and messages from one harbor to a name are delivered   *)
(* in the order in which they were sent, those that waited for the name    *)
(* before later ones.                                                      *)
NamedDelivery ==
    troubled = {} =>
        /\ \A d \in dropped : d.msg.name # "none" => d.to = d.msg.source
        /\ \A h \in HarborId : \A i, j \in DOMAIN delivered[h] :
             i < j /\ delivered[h][i].source = delivered[h][j].source
                   /\ delivered[h][i].name = delivered[h][j].name
               => delivered[h][i].no < delivered[h][j].no
=============================================================================
