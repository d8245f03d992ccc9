---------------------------- MODULE RedisClient -----------------------------
(***************************************************************************)
(* service/redis-cli.lua, with the socket library (lualib/socket.lua,      *)
(* connection/lua-socket.c), the connection service that reads the socket  *)
(* (connection/main.c, connection.c) and its users (lualib/redis.lua).     *)
(*                                                                         *)
(* Replies of the database carry no name: the service gives each to the    *)
(* oldest request in its queue.  When the connection breaks it connects    *)
(* again and writes the requests that have no reply once more.             *)
(***************************************************************************)
EXTENDS Common, Sequences, FiniteSets
LOCAL INSTANCE SequencesExt

CONSTANTS
  User,             \* services that use the database
  Pieces            \* how many pieces the replies are read in, by number of the command

VARIABLES
  user,             \* user -> [state, mode, sent, got]
  box,              \* messages of redis-cli, in order
  fd,               \* socket.lua: fd
  object,           \* socket.lua: object, the pieces that were received
  data,             \* socket.lua: data, what could not be written
  queue,            \* request_queue: [cmd, address, batch]
  parsed,           \* pieces that split_co has taken of the reply it reads
  batch,            \* batch_mode, batch_count and batch_reply, by address
  tasks,            \* reconnects under way: "connect", "select", "selected", "rewrite"
  slots,            \* connection service: descriptor -> closed
  orders,           \* messages of the connection service: ADD and DEL
  net,              \* descriptor -> [up, commands, replies]
  issued,           \* number of commands so far
  exposed,          \* a write failed, or a SELECT met other requests
  redisFault        \* an assertion or the reading of a reply failed

redisVars == <<user, box, fd, object, data, queue, parsed, batch, tasks, slots, orders, net, issued, exposed, redisFault>>

Self == "self"
SelectDb == 0       \* the number of the command SELECT
HasDb == May("db")  \* redis_db is given

Idle == [state |-> "idle", mode |-> Void, sent |-> <<>>, got |-> <<>>]
Fresh == [up |-> TRUE, commands |-> <<>>, replies |-> <<>>]

\* The service has made its first connection.
RedisInit ==
  /\ user = [u \in User |-> Idle]
  /\ box = <<>> /\ fd = 1 /\ object = <<>> /\ data = <<>> /\ queue = <<>> /\ parsed = <<>>
  /\ batch = <<>> /\ tasks = <<>> /\ slots = <<>> /\ orders = <<[op |-> "ADD", fd |-> 1]>>
  /\ net = <<Fresh>> /\ issued = 0 /\ exposed = FALSE /\ redisFault = FALSE
-----------------------------------------------------------------------------
(* lualib/redis.lua: a command, and a batch of commands.                   *)

Post(m) == box' = Append(box, m)
SameService == UNCHANGED <<fd, object, data, queue, parsed, batch, tasks, slots, orders, net, exposed, redisFault>>
Numbered(u) == [user[u] EXCEPT !.sent = Append(@, issued + 1)]

Command(u) ==
  /\ Use("command") /\ user[u].state \in {"idle", "batch"}
  /\ issued' = issued + 1
  /\ user' = [user EXCEPT ![u] = [Numbered(u) EXCEPT !.state = IF @ = "idle" THEN "waits" ELSE @]]
  /\ Post([type |-> "lua", from |-> u, cmd |-> issued + 1])
  /\ SameService

BeginBatch(u) ==
  /\ Use("batch") /\ user[u].state = "idle"
  /\ \E m \in {"read", "write"} :
       /\ user' = [user EXCEPT ![u] = [@ EXCEPT !.state = "batch", !.mode = m]]
       /\ Post([type |-> "text", from |-> u, cmd |-> m])
  /\ UNCHANGED issued /\ SameService

EndBatch(u) ==
  /\ user[u].state = "batch"
  /\ user' = [user EXCEPT ![u].state = "waits"]
  /\ Post([type |-> "text", from |-> u, cmd |-> "end"])
  /\ UNCHANGED <<issued, left>> /\ SameService
-----------------------------------------------------------------------------
(* socket.lua and lua-socket.c.                                            *)

Close == IF fd = Void THEN orders ELSE Append(orders, [op |-> "DEL", fd |-> fd])

\* c.write for several commands, of which the first n are written.  A write
\* to a connection that the peer closed may still succeed; after one that
\* fails the connection is closed and the commands are put aside.
Writes(cmds, n) ==
  /\ n \in (IF fd = Void THEN {0} ELSE IF net[fd].up THEN {Len(cmds)} ELSE 0 .. Len(cmds))
  /\ net' = IF fd # Void /\ net[fd].up THEN [net EXCEPT ![fd].commands = @ \o cmds] ELSE net
  /\ data' = data \o SubSeq(cmds, n + 1, Len(cmds))
  /\ fd' = IF n < Len(cmds) THEN Void ELSE fd
  /\ orders' = IF n < Len(cmds) THEN Close ELSE orders

\* No handler is under way.
Free == object = <<>> /\ "rewrite" \notin Range(tasks)

\* The next message is taken.
Takes(type) == Free /\ box # <<>> /\ Head(box).type = type /\ box' = Tail(box)

\* The dispatch function for "lua".
Lua ==
  /\ Takes("lua")
  /\ LET m == Head(box)
         b == Entry(batch, m.from)
         mode == IF b = Void THEN Void ELSE b.mode
     IN  /\ \E n \in {0, 1} : Writes(<<m.cmd>>, n) /\ exposed' = (exposed \/ n = 0 \/ "select" \in Range(tasks))
         /\ queue' = Append(queue, [cmd |-> m.cmd, address |-> m.from, batch |-> mode])
         /\ batch' = IF mode \in {"read", "write"} THEN Put(batch, m.from, [b EXCEPT !.count = @ + 1]) ELSE batch
  /\ UNCHANGED <<user, object, parsed, tasks, slots, issued, redisFault, left>>

Redirect(users, a, values) == [users EXCEPT ![a] = [@ EXCEPT !.got = values, !.state = "answered"]]

\* The dispatch function for "text".
Text ==
  /\ Takes("text")
  /\ LET a == Head(box).from
         mode == Head(box).cmd
         b == Entry(batch, a)
     IN  IF mode # "end"
         THEN /\ redisFault' = (redisFault \/ b # Void)
              /\ batch' = Put(batch, a, [mode |-> mode, count |-> 0, reply |-> <<>>])
              /\ UNCHANGED user
         ELSE /\ redisFault' = (redisFault \/ b = Void)
              /\ IF b.count = 0
                 THEN user' = Redirect(user, a, b.reply) /\ batch' = Drop(batch, a)
                 ELSE batch' = Put(batch, a, [b EXCEPT !.mode = "ended"]) /\ UNCHANGED user
  /\ UNCHANGED <<fd, object, data, queue, parsed, tasks, slots, orders, net, issued, exposed, left>>

\* Mutant: the reply is given to the newest request.
PopNewest(q) == q[Len(q)]
PopRequestQueue(q) == Head(q)

\* response: a reply for the oldest request; batch_dec and batch_close.
Response(value) ==
  IF queue = <<>> THEN redisFault' = TRUE /\ UNCHANGED <<queue, user, batch, tasks>>
  ELSE LET r == PopRequestQueue(queue)
           b == Entry(batch, r.address)
           d == [b EXCEPT !.count = @ - 1, !.reply = IF r.batch = "read" THEN Append(@, value) ELSE @]
       IN  /\ queue' = Remove(queue, r)
           /\ IF r.address = Self
              THEN /\ redisFault' = (redisFault \/ value # SelectDb)
                   /\ tasks' = IF value = SelectDb THEN ReplaceAt(tasks, SelectInSeq(tasks, LAMBDA t : t = "select"), "selected") ELSE Remove(tasks, "select")
                   /\ UNCHANGED <<user, batch>>
              ELSE IF r.batch \notin {"read", "write"}
              THEN user' = Redirect(user, r.address, <<value>>) /\ UNCHANGED <<batch, tasks, redisFault>>
              ELSE /\ UNCHANGED <<tasks, redisFault>>
                   /\ IF d.count = 0 /\ d.mode = "ended"
                      THEN user' = Redirect(user, r.address, d.reply) /\ batch' = Drop(batch, r.address)
                      ELSE batch' = Put(batch, r.address, d) /\ UNCHANGED user

\* split_package takes pieces of replies while there are any; a piece that
\* does not belong to the reply it has begun cannot be read.
Split ==
  /\ object # <<>>
  /\ LET p == Head(object)
         whole == parsed # <<>> /\ (p.of # Head(parsed).of \/ p.part # Len(parsed) + 1)
     IN  /\ object' = Tail(object)
         /\ IF whole \/ (parsed = <<>> /\ p.part # 1)
            THEN redisFault' = TRUE /\ UNCHANGED <<parsed, queue, user, batch, tasks>>
            ELSE IF p.part < p.parts
            THEN parsed' = Append(parsed, p) /\ UNCHANGED <<queue, user, batch, tasks, redisFault>>
            ELSE parsed' = <<>> /\ Response(p.of)
  /\ UNCHANGED <<box, fd, data, slots, orders, net, issued, exposed, left>>

\* unpack of the protocol "client": data, or the end of the connection.
\* The pieces are read before the next message is taken.
ClientData ==
  /\ Takes("client")
  /\ IF Head(box).pieces = <<>> THEN tasks' = Append(tasks, "connect") /\ UNCHANGED object
     ELSE object' = Head(box).pieces /\ UNCHANGED tasks
  /\ UNCHANGED <<user, fd, data, queue, parsed, batch, slots, orders, net, issued, exposed, redisFault, left>>

\* socket.connect and presend; the descriptor is new.
SocketConnect(new) ==
  /\ fd' = new /\ net' = Append(net, Fresh)
  /\ orders' = Append(Close, [op |-> "ADD", fd |-> new])
  /\ object' = <<>> /\ data' = <<>>

\* init, up to the connection: a refused connection is tried again after a
\* sleep.  presend passes the descriptor twice, so that c.write fails when
\* something was put aside, and the coroutine ends.
Connect(i) ==
  /\ Free /\ tasks[i] = "connect"
  /\ LET new == Len(net) + 1
     IN  \/ /\ Use("refuse") /\ orders' = Close /\ fd' = Void
            /\ UNCHANGED <<net, object, data, tasks, box, exposed>>
         \/ /\ Use("connect") /\ SocketConnect(new)
            /\ IF data # <<>> THEN tasks' = RemoveAt(tasks, i) /\ UNCHANGED <<box, exposed>>
               ELSE IF HasDb
               THEN /\ tasks' = [tasks EXCEPT ![i] = "select"]
                    /\ Post([type |-> "lua", from |-> Self, cmd |-> SelectDb])
                    /\ exposed' = (exposed \/ queue # <<>>)
               ELSE tasks' = [tasks EXCEPT ![i] = "rewrite"] /\ UNCHANGED <<box, exposed>>
  /\ UNCHANGED <<user, queue, parsed, batch, slots, issued, redisFault>>

Again == [i \in DOMAIN queue |-> queue[i].cmd]

\* The rest of reconnect.
Reconnect(i) ==
  /\ (tasks[i] = "rewrite" \/ (Free /\ tasks[i] = "selected")) /\ tasks' = RemoveAt(tasks, i)
  /\ \E n \in 0 .. Len(queue) : Writes(Again, n) /\ exposed' = (exposed \/ n < Len(Again))
  /\ parsed' = <<>>
  /\ UNCHANGED <<user, box, object, queue, batch, slots, issued, redisFault, left>>
-----------------------------------------------------------------------------
(* The connection service.                                                 *)

SameRedis == UNCHANGED <<user, fd, object, data, queue, parsed, batch, tasks, issued, exposed, redisFault, left>>

Add ==
  /\ orders # <<>> /\ Head(orders).op = "ADD" /\ orders' = Tail(orders)
  /\ slots' = Put(slots, Head(orders).fd, FALSE)
  /\ UNCHANGED <<box, net>> /\ SameRedis

\* The user is told of the end, unless it was.
Del ==
  /\ orders # <<>> /\ Head(orders).op = "DEL" /\ orders' = Tail(orders)
  /\ LET d == Head(orders).fd
     IN  /\ IF ~slots[d] THEN Post([type |-> "client", pieces |-> <<>>]) ELSE UNCHANGED box
         /\ slots' = Drop(slots, d)
         /\ net' = [net EXCEPT ![d] = [up |-> FALSE, commands |-> <<>>, replies |-> <<>>]]
  /\ SameRedis

Poll(d) ==
  /\ d \in DOMAIN slots /\ ~slots[d]
  /\ LET r == net[d].replies
     IN  \/ \E n \in 1 .. Len(r) :
              /\ Post([type |-> "client", pieces |-> SubSeq(r, 1, n)])
              /\ net' = [net EXCEPT ![d].replies = SubSeq(r, n + 1, Len(r))]
              /\ UNCHANGED slots
         \/ /\ r = <<>> /\ ~net[d].up
            /\ Post([type |-> "client", pieces |-> <<>>])
            /\ slots' = [slots EXCEPT ![d] = TRUE]
            /\ UNCHANGED net
  /\ UNCHANGED orders /\ SameRedis
-----------------------------------------------------------------------------
(* The database, and the users' next steps.                                *)

Reply(c) ==
  LET n == IF c = SelectDb THEN 1 ELSE Pieces[c]
  IN  [k \in 1 .. n |-> [of |-> c, part |-> k, parts |-> n]]

Execute(d) ==
  /\ net[d].up /\ net[d].commands # <<>>
  /\ net' = [net EXCEPT ![d] = [@ EXCEPT !.commands = Tail(@), !.replies = @ \o Reply(Head(net[d].commands))]]
  /\ UNCHANGED <<box, slots, orders>> /\ SameRedis

\* The database closes the connection: what it has not read is lost, and of
\* what it has written a part is.
Shut(d) ==
  /\ Use("shut") /\ net[d].up
  /\ \E n \in 0 .. Len(net[d].replies) :
       net' = [net EXCEPT ![d] = [up |-> FALSE, commands |-> <<>>, replies |-> SubSeq(net[d].replies, 1, n)]]
  /\ UNCHANGED <<user, box, fd, object, data, queue, parsed, batch, tasks, slots, orders, issued, exposed, redisFault>>

Continue(u) ==
  /\ user[u].state = "answered"
  /\ user' = [user EXCEPT ![u] = Idle]
  /\ UNCHANGED <<box, fd, object, data, queue, parsed, batch, tasks, slots, orders, net, issued, exposed, redisFault, left>>

RedisNext ==
  \/ \E u \in User : Command(u) \/ BeginBatch(u) \/ EndBatch(u) \/ Continue(u)
  \/ Lua \/ Text \/ ClientData \/ Split
  \/ \E i \in DOMAIN tasks : Connect(i) \/ Reconnect(i)
  \/ Add \/ Del
  \/ \E d \in DOMAIN net : Poll(d) \/ Execute(d) \/ Shut(d)
-----------------------------------------------------------------------------
\* A user is answered with the replies to its own commands, in the order in
\* which it gave them, although replies carry no name, arrive in pieces and
\* are cut off when the connection breaks; no reply is left without a
\* request and none cannot be read.  This holds as long as no write fails
\* and no SELECT of a new connection meets other requests: after a failed
\* write, or after such a SELECT, the code gives replies to other requests
\* (redis-cli.lua, response, reconnect and split_package).
OwnReplies ==
  exposed \/ /\ ~redisFault
             /\ \A u \in User : user[u].state = "answered" =>
                  user[u].got = IF user[u].mode = "write" THEN <<>> ELSE user[u].sent
=============================================================================
