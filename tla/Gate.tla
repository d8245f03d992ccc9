-------------------------------- MODULE Gate --------------------------------
(***************************************************************************)
(* gate/ringbuffer.c, gate/mread.c and gate/main.c: the service that       *)
(* accepts the clients' connections, cuts what they send into frames,      *)
(* forwards the frames to the watchdog or the agent of the connection, and *)
(* writes the answers.                                                     *)
(*                                                                         *)
(* The pool `m' holds the sockets (slots), the free list, the events of    *)
(* the last epoll_wait, the ring buffer and, for each connection, the      *)
(* kernel's side of it (m.net).  The functions of mread.c are operators on *)
(* the pool, except for mread_poll and mread_pull: the callback of the     *)
(* gate takes several steps, and those are steps of it.                    *)
(*                                                                         *)
(* The clients of a websocket mask their frames, as its protocol demands;  *)
(* for one that does not main.c takes the mask from an unset pointer.      *)
(***************************************************************************)
EXTENDS Common, Integers, Sequences, FiniteSets
LOCAL INSTANCE FiniteSetsExt
LOCAL INSTANCE SequencesExt

CONSTANTS
  RingSize,         \* size of the buffer, a multiple of Alignment
  BlockHeader,      \* sizeof(struct ringbuffer_block)
  Alignment,        \* ALIGN
  Nil,              \* NULL, and -1 as an id or an offset
  MaxConnection,    \* slots of the pool
  Cap,              \* size of the table of identifiers, a power of 2 >= MaxConnection
  Client,           \* connections, numbered in the order they are made
  ReadBlock,        \* READBLOCKSIZE
  Base,             \* 256, the base of a length in a frame
  PolicySize,       \* 23, the size of a flash policy request
  FrameLengths,     \* lengths of the frames each client sends
  WriteRoom,        \* bytes a client's socket takes before it has to read
  Agents            \* services the watchdog gives connections to

Slot == 0 .. MaxConnection - 1

VARIABLES
  gheader,          \* gate.header
  m,                \* gate.pool
  conn,             \* gate.map: slot -> [uid, agent]
  table,            \* gate.agent: uid mod Cap -> slot
  idIndex,          \* gate.id_index
  broker,           \* gate.broker is set
  cb,               \* the callback: where it is, and its local variables
  reports,          \* what the watchdog was told
  frames,           \* what was forwarded
  pushed            \* uid -> what was sent to its client

gateVars == <<gheader, m, conn, table, idIndex, broker, cb, reports, frames, pushed>>

-----------------------------------------------------------------------------
(* What the clients send.  A byte is a number; payload bytes are all       *)
(* different.  A mask of a websocket frame flips the sign of a byte.  The  *)
(* request for a websocket, and the header a forwarder of the data centre  *)
(* puts before a connection, are one byte each: the kind of the client.    *)

Hello == [ws |-> 501, oldws |-> 502, tgw |-> 503]

Payload(c, k) == [i \in 1 .. FrameLengths[k] |-> 1000 + 100 * c + 10 * k + i]
Digits(n, len) == [i \in 1 .. n |-> (len \div Base ^ (n - i)) % Base]
Mask == <<-1, 1, -1, 1>>
Unmask(data, mask) == [i \in DOMAIN data |-> data[i] * mask[((i - 1) % 4) + 1]]

Frame(c, k) ==
  LET data == Payload(c, k)
  IN  CASE gheader = "S" -> Digits(2, Len(data)) \o data
        [] gheader = "L" -> Digits(4, Len(data)) \o data
        [] gheader = "W" -> IF Len(data) < Base
                            THEN <<1, Len(data)>> \o Mask \o Unmask(data, Mask)
                            ELSE <<1, 126>> \o Digits(2, Len(data)) \o Mask \o Unmask(data, Mask)
        [] OTHER         -> [i \in 1 .. PolicySize |-> 0]

Stream(c, kind) ==
  (IF kind = "plain" THEN <<>> ELSE <<Hello[kind]>>)
    \o FlattenSeq([k \in DOMAIN FrameLengths |-> Frame(c, k)])

-----------------------------------------------------------------------------
(* ringbuffer.c: one buffer shared by all connections of a gate.  A ring   *)
(* is [head, at], where at maps the offset of each block to its header and *)
(* contents, and the blocks lie one after the other from 0 to RingSize.    *)
(* Lengths count bytes; only headers are aligned.  A pointer to a block is *)
(* its offset, and the id of a free block is Nil.                          *)

RingAssumption ==
  /\ RingSize \in Nat /\ BlockHeader \in Nat /\ Alignment \in Nat \ {0}
  /\ RingSize % Alignment = 0 /\ BlockHeader % Alignment = 0
  /\ RingSize > BlockHeader

ALIGN(n) == ((n + Alignment - 1) \div Alignment) * Alignment

Block(length, data) == [length |-> length, offset |-> 0, id |-> Nil, next |-> Nil, data |-> data]

RingNew == [head |-> 0, at |-> [o \in {0} |-> Block(RingSize, <<>>)]]

\* block_next gives NULL where this is RingSize.
BlockNext(r, o) == o + ALIGN(r.at[o].length)

Busy(r, o) == r.at[o].length >= BlockHeader /\ r.at[o].id # Nil

From(r, o) == {b \in DOMAIN r.at : b >= o}

\* The first block in use from offset o on, or the end of the buffer.
FirstBusy(r, o) == Min({b \in From(r, o) : Busy(r, b)} \cup {RingSize})

\* The blocks from lo to hi give way to those of `put'.
Replace(r, lo, hi, put) ==
  [o \in {b \in DOMAIN r.at : b < lo \/ b >= hi} \cup DOMAIN put |->
     IF o \in DOMAIN put THEN put[o] ELSE r.at[o]]

\* _alloc: the free blocks from head on become the new block and a rest.
AllocAt(r, end, size) ==
  LET new  == r.head + ALIGN(BlockHeader + size)
      put  == [o \in {r.head} \cup (IF new < end THEN {new} ELSE {}) |->
                 IF o = r.head THEN Block(BlockHeader + size, <<>>) ELSE Block(end - new, <<>>)]
  IN  [head |-> IF new = RingSize THEN 0 ELSE new, at |-> Replace(r, r.head, end, put)]

\* Ends of runs of free blocks that begin at head and have room for size bytes.
Room(r, size) ==
  {e \in {BlockNext(r, b) : b \in From(r, r.head)} :
     e <= FirstBusy(r, r.head) /\ e - r.head >= ALIGN(BlockHeader + size)}

\* ringbuffer_alloc: a block in use stops the search; the end of the buffer
\* makes it start again, once.
Alloc(r, size) ==
  LET again == [r EXCEPT !.head = 0]
      over  == FirstBusy(r, r.head) = RingSize
      try   == IF Room(r, size) # {} \/ ~over THEN r ELSE again
  IN  IF Room(try, size) # {}
      THEN [ring |-> AllocAt(try, Min(Room(try, size)), size), blk |-> try.head]
      ELSE [ring |-> try, blk |-> Nil]

\* ringbuffer_collect frees every block of the connection of the oldest one.
Collect(r) ==
  LET ahead == FirstBusy(r, r.head)
      last  == IF ahead < RingSize THEN ahead ELSE FirstBusy(r, 0)
      id    == IF last < RingSize THEN r.at[last].id ELSE Nil
  IN  [id   |-> id,
       ring |-> [head |-> IF ahead < RingSize THEN r.head ELSE 0,
                 at   |-> [o \in DOMAIN r.at |->
                             IF Busy(r, o) /\ r.at[o].id = id THEN [r.at[o] EXCEPT !.id = Nil] ELSE r.at[o]]]]

\* ringbuffer_shrink: the bytes read take the place of the room asked for.
Shrink(r, o, bytes) ==
  LET new == o + ALIGN(BlockHeader + Len(bytes))
      end == BlockNext(r, o)
      blk == [r.at[o] EXCEPT !.length = BlockHeader + Len(bytes), !.data = bytes]
  IN  IF bytes = <<>> THEN [r EXCEPT !.head = o]
      ELSE IF new = end THEN [r EXCEPT !.at[o] = blk]
      ELSE [head |-> new,
            at   |-> Replace(r, o, end, [b \in {o, new} |-> IF b = o THEN blk ELSE Block(end - new, <<>>)])]

\* The blocks linked to o, in order.
Chain(r, o) ==
  LET c[b \in DOMAIN r.at] == IF r.at[b].next = Nil THEN <<b>> ELSE <<b>> \o c[r.at[b].next]
  IN  c[o]

Link(r, o, n) ==
  [r EXCEPT !.at[n].id = r.at[o].id, !.at[Last(Chain(r, o))].next = n]

SetFree(r, blocks) ==
  [r EXCEPT !.at = [o \in DOMAIN r.at |-> IF o \in blocks THEN [r.at[o] EXCEPT !.id = Nil] ELSE r.at[o]]]

Free(r, o) == IF o = Nil THEN r ELSE SetFree(r, ToSet(Chain(r, o)))

Unread(r, b) == SubSeq(r.at[b].data, r.at[b].offset + 1, Len(r.at[b].data))

\* The bytes of the first i blocks linked to o that are still to be read.
UpTo(r, o, i) == FlattenSeq([k \in 1 .. i |-> Unread(r, Chain(r, o)[k])])
Bytes(r, o)   == UpTo(r, o, Len(Chain(r, o)))

\* The first block linked to o that ends after skip bytes (0 if none does).
BlockAt(r, o, skip) ==
  LET past == {i \in 1 .. Len(Chain(r, o)) : Len(UpTo(r, o, i)) > skip}
  IN  IF past = {} THEN 0 ELSE Min(past)

\* ringbuffer_data: the bytes themselves only if one block holds them all.
Data(r, o, size, skip) ==
  LET i    == BlockAt(r, o, skip)
      have == Len(Bytes(r, o)) - skip
  IN  IF i = 0 THEN [n |-> 0, ptr |-> Nil]
      ELSE IF Len(UpTo(r, o, i)) - skip >= size
      THEN [n |-> size, ptr |-> SubSeq(Bytes(r, o), skip + 1, skip + size)]
      ELSE [n |-> Min({size, have}), ptr |-> Nil]

\* ringbuffer_copy fills the block `to' with bytes of the chain of `o'.
Copied(r, o, skip, to) ==
  [r EXCEPT !.at[to].data = SubSeq(Bytes(r, o), skip + 1, skip + r.at[to].length - BlockHeader),
            !.at[to].id   = r.at[o].id]

\* ringbuffer_yield frees the blocks read completely.
Yield(r, o, skip) ==
  LET ch   == Chain(r, o)
      i    == BlockAt(r, o, skip)
      done == {ch[k] : k \in 1 .. (IF i = 0 THEN Len(ch) ELSE i - 1)}
      free == SetFree(r, done)
  IN  IF i = 0 THEN [ring |-> free, blk |-> Nil]
      ELSE [ring |-> [free EXCEPT !.at[ch[i]].offset = @ + skip - Len(UpTo(r, o, i - 1))], blk |-> ch[i]]

\* The blocks lie one after the other from the start of the buffer to its
\* end (the assertion of block_next), and head is one of them.
Tiled(r) ==
  /\ 0 \in DOMAIN r.at /\ r.head \in DOMAIN r.at
  /\ \A o \in DOMAIN r.at :
       LET n == BlockNext(r, o)
       IN  /\ n = RingSize \/ n \in DOMAIN r.at
           /\ \A b \in DOMAIN r.at : ~(o < b /\ b < n)

-----------------------------------------------------------------------------
(* mread.c                                                                 *)

Alive(s) == s.status \notin {"INVALID", "CLOSED"}

MreadCreate ==
  [closed |-> 0, active |-> Nil, skip |-> 0, free |-> 0, queue |-> <<>>, ring |-> RingNew, fault |-> FALSE,
   sock |-> [i \in Slot |-> [fd |-> IF i = MaxConnection - 1 THEN Nil ELSE i + 1, node |-> Nil, temp |-> Nil,
                             out |-> <<>>, write |-> FALSE, status |-> "INVALID"]],
   net  |-> [c \in Client |-> [state |-> "none", peer |-> "up", kind |-> "plain", greeted |-> FALSE,
                               sent |-> 0, read |-> 0, room |-> WriteRoom, got |-> <<>>]]]

\* try_close: a socket that is to be closed is closed once its output is written.
TryClose(p, i) ==
  LET s == p.sock[i]
  IN  IF s.out # <<>> THEN p
      ELSE IF s.status # "HALFCLOSE"
      THEN [p EXCEPT !.sock[i].write = IF Alive(s) THEN FALSE ELSE @]
      ELSE [p EXCEPT !.sock[i] = [s EXCEPT !.status = "CLOSED", !.node = Nil, !.temp = Nil, !.write = FALSE],
                     !.net[s.fd].state = "closed", !.closed = @ + 1]

CloseClient(p, i) ==
  IF ~Alive(p.sock[i]) \/ p.sock[i].status = "HALFCLOSE" THEN p
  ELSE TryClose([p EXCEPT !.sock[i].status = "HALFCLOSE"], i)

\* force_close_client does not write what is left of the output.
ForceCloseClient(p, i) ==
  IF ~Alive(p.sock[i]) \/ p.sock[i].status = "HALFCLOSE" THEN p
  ELSE CloseClient([p EXCEPT !.sock[i].out = <<>>], i)

CloseActive(p) ==
  LET s == p.sock[p.active]
  IN  ForceCloseClient([p EXCEPT !.ring = Free(Free(p.ring, s.temp), s.node)], p.active)

\* write: as much as the client has room for.
Written(p, c, bytes) ==
  LET n == Min({Len(bytes), p.net[c].room})
  IN  [p    |-> [p EXCEPT !.net[c].room = @ - n, !.net[c].got = @ \o SubSeq(bytes, 1, n)],
       rest |-> SubSeq(bytes, n + 1, Len(bytes))]

ClientSend(p, i) ==
  LET s == p.sock[i]
      w == Written(p, s.fd, s.out)
  IN  IF s.out = <<>> THEN p
      ELSE IF p.net[s.fd].peer = "reset" THEN [p EXCEPT !.sock[i].out = <<>>]
      ELSE [w.p EXCEPT !.sock[i].out = w.rest]

\* mread_push, with client_push and turn_on.
Push(p, i, bytes) ==
  LET s == p.sock[i]
      w == Written(p, s.fd, bytes)
  IN  IF s.status \in {"INVALID", "CLOSED", "HALFCLOSE"} THEN p
      ELSE IF s.out # <<>> THEN [p EXCEPT !.sock[i].out = @ \o bytes]
      ELSE IF p.net[s.fd].peer = "reset" THEN CloseClient(p, i)
      ELSE IF w.rest = <<>> THEN w.p
      ELSE [w.p EXCEPT !.sock[i].out = w.rest, !.sock[i].write = TRUE]

\* What epoll_wait reports: level triggered, with the flags of the moment.
ReadyIn(p, i)  == LET k == p.net[p.sock[i].fd] IN k.sent > k.read \/ k.peer # "up"
ReadyOut(p, i) == p.sock[i].write /\ LET k == p.net[p.sock[i].fd] IN k.room > 0 \/ k.peer = "reset"
Backlog(p)     == {c \in Client : p.net[c].state = "backlog"}

Events(p) ==
  {[slot |-> i, in |-> ReadyIn(p, i), out |-> ReadyOut(p, i)] :
     i \in {j \in Slot : Alive(p.sock[j]) /\ (ReadyIn(p, j) \/ ReadyOut(p, j))}}
  \cup {[slot |-> Nil, in |-> TRUE, out |-> FALSE] : c \in Backlog(p)}

\* accept and _add_client: without a free slot the connection is closed.
Accept(p) ==
  LET c == Min(Backlog(p))
      s == p.sock[p.free]
  IN  IF p.free = Nil THEN [p EXCEPT !.net[c].state = "closed"]
      ELSE [p EXCEPT !.free = s.fd, !.active = Nil, !.net[c].state = "open",
                     !.sock[p.free] = [s EXCEPT !.fd = c, !.node = Nil, !.status = "CONNECTED", !.write = FALSE]]

LinkNode(p, blk) ==
  LET s == p.sock[p.active]
  IN  IF s.node # Nil THEN [p EXCEPT !.ring = Link(p.ring, s.node, blk)]
      ELSE [p EXCEPT !.ring.at[blk].id = p.active, !.sock[p.active].node = blk]

\* mread_yield: what was pulled is released, or the slot of a closed connection.
MreadYield(p) ==
  LET i == p.active
      s == p.sock[i]
      t == [p EXCEPT !.ring = Free(p.ring, s.temp), !.sock[i].temp = Nil, !.skip = 0]
      y == Yield(t.ring, s.node, p.skip)
  IN  IF s.status = "CLOSED" /\ s.node = Nil
      THEN [t EXCEPT !.closed = @ - 1, !.active = Nil, !.free = i,
                     !.sock[i] = [t.sock[i] EXCEPT !.status = "INVALID", !.fd = p.free]]
      ELSE IF s.node = Nil THEN [t EXCEPT !.active = Nil]
      ELSE [t EXCEPT !.ring = y.ring, !.sock[i].node = y.blk, !.active = IF y.blk = Nil THEN Nil ELSE i]

IsClosed(p) == p.active # Nil /\ p.sock[p.active].status = "CLOSED" /\ p.sock[p.active].node = Nil
-----------------------------------------------------------------------------
(* main.c                                                                  *)

GateHeaderSize == CASE gheader \in {"S", "W"} -> 2 [] gheader = "L" -> 4 [] OTHER -> PolicySize

GateInit ==
  /\ gheader \in {h \in {"S", "L", "W", "P"} : May(h)}
  /\ m = MreadCreate
  /\ conn = [i \in Slot |-> [uid |-> 0, agent |-> 0]]
  /\ table = [h \in 0 .. Cap - 1 |-> Nil]
  /\ idIndex = 0 /\ broker = FALSE
  /\ cb = [at |-> "stopped", slot |-> Nil, id |-> 0, then |-> Nil, size |-> 0, ptr |-> Nil, blk |-> Nil,
           want |-> 0, len |-> 0, mask |-> <<>>]
  /\ reports = <<>> /\ frames = <<>> /\ pushed = <<>>

IdToSlot(uid) ==
  LET i == table[uid % Cap] IN IF i # Nil /\ conn[i].uid = uid THEN i ELSE Nil

\* _gen_id: the next identifier whose place in the table is free.
GenId ==
  LET i == Min({k \in 0 .. Cap - 1 : table[(idIndex + 1 + k) % Cap] = Nil}) IN idIndex + 1 + i

At(where)  == cb' = [cb EXCEPT !.at = where]
SameConn   == UNCHANGED <<gheader, conn, table, idIndex, broker, reports, frames, pushed>>
Decode(b)  == LET v[i \in 0 .. Len(b)] == IF i = 0 THEN 0 ELSE v[i - 1] * Base + b[i] IN v[Len(b)]

\* The callback has a connection: it reads its identifier, then the header.
Serve(i) ==
  cb' = [cb EXCEPT !.at = "pull", !.slot = i, !.id = conn[i].uid, !.then = "header", !.size = GateHeaderSize]

\* mread_poll up to the first event.
Poll ==
  /\ cb.at = "idle"
  /\ LET p == [m EXCEPT !.skip = 0]
         closed == {i \in Slot : m.sock[i].status = "CLOSED"}
     IN  IF m.active # Nil /\ m.sock[m.active].status = "READ" THEN m' = p /\ Serve(m.active)
         ELSE IF m.queue = <<>> /\ m.closed > 0 THEN m' = [p EXCEPT !.active = Min(closed)] /\ Serve(Min(closed))
         ELSE IF m.queue = <<>>
         THEN \E q \in SetToSeqs(Events(p)) : m' = [p EXCEPT !.queue = q] /\ At("event")
         ELSE m' = p /\ At("event")
  /\ SameConn

\* Mutant: the status is not looked at again before the client is read.
ReadinessStale(p, e) ==
  LET w == IF e.out /\ p.sock[e.slot].status # "CLOSED" THEN TryClose(ClientSend(p, e.slot), e.slot) ELSE p
  IN  \E q \in {w} :
        IF e.in
        THEN /\ m' = [q EXCEPT !.active = e.slot,
                               !.sock[e.slot].status = IF @ = "CONNECTED" THEN "FIRST_POLLIN" ELSE "POLLIN"]
             /\ Serve(e.slot)
        ELSE m' = q /\ UNCHANGED cb

\* An event of a client: first what is left of the output is written, then
\* the client is to be read, if it is still there.
Readiness(p, e) ==
  LET w == IF e.out /\ p.sock[e.slot].status # "CLOSED" THEN TryClose(ClientSend(p, e.slot), e.slot) ELSE p
  IN  \E q \in {w} :
        IF e.in /\ Alive(q.sock[e.slot]) /\ q.sock[e.slot].status # "HALFCLOSE"
        THEN /\ m' = [q EXCEPT !.active = e.slot,
                               !.sock[e.slot].status = IF @ = "CONNECTED" THEN "FIRST_POLLIN" ELSE "POLLIN"]
             /\ Serve(e.slot)
        ELSE m' = q /\ UNCHANGED cb

\* One event of the loop of mread_poll.  The flags may be out of date.
Event ==
  /\ cb.at = "event"
  /\ IF m.queue = <<>> THEN m' = [m EXCEPT !.active = Nil] /\ At("idle")
     ELSE \E p \in {[m EXCEPT !.queue = Tail(@)]} :
            IF Head(m.queue).slot # Nil THEN Readiness(p, Head(m.queue))
            ELSE IF Backlog(p) = {} THEN m' = p /\ UNCHANGED cb
            ELSE m' = Accept(p) /\ IF p.free = Nil THEN UNCHANGED cb ELSE At("idle")
  /\ SameConn

Status(s) == m' = [m EXCEPT !.sock[m.active].status = s]

\* mread_pull: from the ring if it holds the bytes asked for; else they are
\* read from the connection, unless that was already done in this round.  The
\* assertion at the end of the switch: never for a slot that is not polled.
PullBuffered ==
  /\ cb.at = "pull"
  /\ LET s == m.sock[m.active]
         d == IF s.node = Nil THEN [n |-> 0, ptr |-> Nil] ELSE Data(m.ring, s.node, cb.size, m.skip)
     IN  IF d.ptr # Nil THEN m' = [m EXCEPT !.skip = @ + cb.size] /\ cb' = [cb EXCEPT !.at = cb.then, !.ptr = d.ptr]
         ELSE CASE s.status = "READ"      -> Status("SUSPEND") /\ At("null")
                [] s.status = "HALFCLOSE" -> m' = [m EXCEPT !.net[s.fd].read = m.net[s.fd].sent] /\ At("null")
                [] s.status \in {"POLLIN", "FIRST_POLLIN"} -> cb' = [cb EXCEPT !.at = "alloc", !.want = cb.size - d.n] /\ UNCHANGED m
                [] s.status \in {"CLOSED", "SUSPEND"} -> At("null") /\ UNCHANGED m
                [] OTHER -> At("null") /\ m' = [m EXCEPT !.fault = TRUE]
  /\ SameConn

\* A block for size bytes: without room the connection with the oldest data
\* is closed, and so on until there is room or the active connection itself
\* is closed.  Without any block in use sockets[-1] would be closed.
GetBlock(size, to) ==
  \E a \in {Alloc(m.ring, size)} :
    IF a.blk # Nil
    THEN m' = [m EXCEPT !.ring = a.ring] /\ cb' = [cb EXCEPT !.at = to, !.blk = a.blk]
    ELSE \E c \in {Collect(a.ring)} :
           /\ m' = IF c.id = Nil THEN [m EXCEPT !.fault = TRUE]
                   ELSE ForceCloseClient([m EXCEPT !.ring = c.ring], c.id)
           /\ IF c.id \in {Nil, m.active} THEN At("null") ELSE UNCHANGED cb

PullAlloc == cb.at = "alloc" /\ GetBlock(Max({ReadBlock, cb.want}), "read") /\ SameConn

\* The bytes read go behind those the connection already has.
TakeBytes(p, bytes) ==
  LET q == LinkNode([p EXCEPT !.ring = Shrink(p.ring, cb.blk, bytes)], cb.blk)
  IN  IF Len(bytes) < cb.want
      THEN m' = [q EXCEPT !.sock[m.active].status = "SUSPEND"] /\ At("null")
      ELSE m' = [q EXCEPT !.sock[m.active].status = "READ"] /\ At("gather")

\* The first bytes of a connection: a websocket handshake is answered, and
\* whatever was read with it is gone; the header of a forwarder is cut off.
FirstBytes(p, back, bytes) ==
  LET c == p.sock[p.active].fd
  IN  CASE Head(bytes) = Hello.ws /\ p.net[c].peer # "reset" ->
             m' = [back EXCEPT !.net[c].greeted = TRUE, !.sock[m.active].status = "SUSPEND"] /\ At("null")
        [] Head(bytes) = Hello.oldws \/ (Head(bytes) = Hello.ws /\ p.net[c].peer = "reset") ->
             m' = CloseActive(back) /\ At("null")
        [] Head(bytes) = Hello.tgw /\ Len(bytes) = 1 ->
             m' = [p EXCEPT !.sock[m.active].status = "SUSPEND"] /\ At("null")
        [] OTHER -> TakeBytes(p, IF Head(bytes) = Hello.tgw THEN Tail(bytes) ELSE bytes)

\* The read of mread_pull into the new block.
PullRead ==
  /\ cb.at = "read"
  /\ LET s == m.sock[m.active]
         k == m.net[s.fd]
         n == Min({Max({ReadBlock, cb.want}), k.sent - k.read})
     IN  \E p \in {[m EXCEPT !.net[s.fd].read = @ + n]} : \E back \in {[p EXCEPT !.ring = Shrink(m.ring, cb.blk, <<>>)]} :
           IF k.peer = "reset" \/ (n = 0 /\ k.peer = "shut") THEN m' = CloseActive(back) /\ At("null")
           ELSE IF n = 0 THEN m' = [back EXCEPT !.sock[m.active].status = "SUSPEND"] /\ At("null")
           ELSE \E bytes \in {SubSeq(Stream(s.fd, k.kind), k.read + 1, k.read + n)} :
                  IF s.status = "FIRST_POLLIN" THEN FirstBytes(p, back, bytes) ELSE TakeBytes(p, bytes)
  /\ SameConn

\* Bytes that lie in several blocks need a block of their own.
PullGather ==
  /\ cb.at = "gather"
  /\ \E d \in {Data(m.ring, m.sock[m.active].node, cb.size, m.skip)} :
       IF d.ptr # Nil THEN m' = [m EXCEPT !.skip = @ + cb.size] /\ cb' = [cb EXCEPT !.at = cb.then, !.ptr = d.ptr]
       ELSE GetBlock(cb.size, "copy")
  /\ SameConn

PullCopy ==
  /\ cb.at = "copy"
  /\ LET s    == m.sock[m.active]
         own  == [m.ring EXCEPT !.at[cb.blk].id = m.active]
         temp == IF s.temp = Nil THEN own ELSE Link(own, cb.blk, s.temp)
     IN  \E r \in {Copied(temp, s.node, m.skip, cb.blk)} :
           /\ m' = [m EXCEPT !.ring = r, !.sock[m.active].temp = cb.blk, !.skip = @ + cb.size]
           /\ cb' = [cb EXCEPT !.at = cb.then, !.ptr = r.at[cb.blk].data]
  /\ SameConn

Report(id, what) == reports' = Append(reports, [uid |-> id, what |-> what, client |-> m.sock[cb.slot].fd])

\* A pull gave NULL: if the connection is closed, its slot and its identifier
\* are free again and the watchdog is told.
NoData ==
  /\ cb.at = "null" /\ At("idle")
  /\ m' = IF IsClosed(m) THEN MreadYield(m) ELSE m
  /\ IF IsClosed(m) /\ cb.id # 0
     THEN /\ Report(cb.id, "close")
          /\ table' = [table EXCEPT ![cb.id % Cap] = Nil]
          /\ conn' = [i \in Slot |-> IF i = table[cb.id % Cap] THEN [uid |-> 0, agent |-> 0] ELSE conn[i]]
     ELSE UNCHANGED <<reports, table, conn>>
  /\ UNCHANGED <<gheader, idIndex, broker, frames, pushed>>

PullNext(what, size) == [cb EXCEPT !.at = "pull", !.then = what, !.size = size, !.len = size]

\* The first header of a connection makes it known under a new identifier.
Opened(id) ==
  IF cb.id # 0 THEN UNCHANGED <<conn, table, idIndex, reports, pushed>>
  ELSE /\ conn' = [conn EXCEPT ![cb.slot].uid = id]
       /\ table' = [table EXCEPT ![id % Cap] = cb.slot]
       /\ idIndex' = id
       /\ Report(id, "open")
       /\ pushed' = [u \in DOMAIN pushed \cup {id} |-> IF u = id THEN <<>> ELSE pushed[u]]

\* The header of a frame: a length, the first part of a websocket header, or
\* a request for the flash policy, after which the connection is closed.
GotHeader ==
  /\ cb.at = "header"
  /\ LET b    == cb.ptr
         id   == IF cb.id = 0 THEN GenId ELSE cb.id
         next == CASE gheader # "W" -> PullNext("data", Decode(SubSeq(b, 1, Min({4, Len(b)}))))
                   [] b[1] = 0      -> [cb EXCEPT !.at = "idle"]
                   [] b[2] = 126    -> PullNext("extended", 2)
                   [] b[2] = 127    -> PullNext("extended", 8)
                   [] OTHER         -> [PullNext("mask", 4) EXCEPT !.len = b[2]]
     IN  /\ Opened(id)
         /\ m' = IF gheader = "P" \/ (gheader = "W" /\ b[1] = 0) THEN CloseClient(m, cb.slot) ELSE m
         /\ cb' = [next EXCEPT !.id = id]
         /\ UNCHANGED <<gheader, broker, frames>>

\* The longer forms of the length of a websocket frame; of eight bytes only
\* the first four count.
GotExtended ==
  /\ cb.at = "extended"
  /\ cb' = [PullNext("mask", 4) EXCEPT !.len = Decode(SubSeq(cb.ptr, 1, Min({4, cb.size})))]
  /\ UNCHANGED m /\ SameConn

GotMask ==
  /\ cb.at = "mask" /\ cb' = [PullNext("data", cb.len) EXCEPT !.mask = cb.ptr]
  /\ UNCHANGED m /\ SameConn

\* _forward: to the broker, or to the agent of the connection or the watchdog.
Target(id) == CASE broker -> "broker"
                [] ~broker /\ IdToSlot(id) = Nil -> Nil
                [] OTHER -> IF conn[IdToSlot(id)].agent # 0 THEN conn[IdToSlot(id)].agent ELSE "watchdog"

GotData ==
  /\ cb.at = "data"
  /\ LET data == IF gheader = "W" THEN Unmask(cb.ptr, cb.mask) ELSE cb.ptr
     IN  frames' = IF Target(cb.id) = Nil THEN frames
                   ELSE Append(frames, [uid |-> cb.id, to |-> Target(cb.id), data |-> data])
  /\ m' = MreadYield(m)
  /\ At("idle")
  /\ UNCHANGED <<gheader, conn, table, idIndex, broker, reports, pushed>>

\* The commands of _ctrl, and a message for a client.  The identifier may be
\* one whose connection is closed.
Start == cb.at = "stopped" /\ At("idle") /\ UNCHANGED m /\ SameConn

Kick ==
  /\ cb.at = "idle" /\ Use("kick")
  /\ \E uid \in 1 .. idIndex : IdToSlot(uid) # Nil /\ m' = CloseClient(m, IdToSlot(uid))
  /\ SameConn /\ UNCHANGED cb

ForwardAgent ==
  /\ cb.at = "idle" /\ Use("forward")
  /\ \E uid \in 1 .. idIndex, a \in Agents :
       conn' = IF IdToSlot(uid) = Nil THEN conn ELSE [conn EXCEPT ![IdToSlot(uid)].agent = a]
  /\ UNCHANGED <<gheader, m, table, idIndex, broker, cb, reports, frames, pushed>>

Broker ==
  /\ cb.at = "idle" /\ Use("broker") /\ broker' = TRUE
  /\ UNCHANGED <<gheader, m, conn, table, idIndex, cb, reports, frames, pushed>>

\* service_client.c puts the length before a message; for a websocket the
\* gate writes a frame header over it.
ClientMessage(n) == (IF gheader = "W" THEN <<1, 1>> ELSE <<0, 1>>) \o <<n>>

PushClient ==
  /\ cb.at = "idle" /\ Use("push")
  /\ \E uid \in 1 .. idIndex :
       LET i == IdToSlot(uid)
           d == ClientMessage(left["push"])
       IN  IF i = Nil THEN UNCHANGED <<m, pushed>>
           ELSE m' = Push(m, i, d) /\ pushed' = [pushed EXCEPT ![uid] = @ \o d]
  /\ UNCHANGED <<gheader, conn, table, idIndex, broker, cb, reports, frames>>

\* gate_release
Release ==
  /\ cb.at = "idle" /\ Use("release") /\ At("released")
  /\ m' = [m EXCEPT !.net = [c \in Client |-> IF m.net[c].state = "open" THEN [m.net[c] EXCEPT !.state = "closed"] ELSE m.net[c]]]
  /\ SameConn
-----------------------------------------------------------------------------
(* The clients.  A callback reads from at most one connection, once, so    *)
(* what a client does during a callback might as well have happened before *)
(* it: the clients move between callbacks.                                 *)

Kinds == CASE gheader = "W" -> {"ws", "oldws"} [] OTHER -> {"plain", "tgw"}

ClientStep(c, k) == cb.at \in {"stopped", "idle"} /\ m' = [m EXCEPT !.net[c] = k] /\ SameConn /\ UNCHANGED cb

Connect(c) ==
  /\ Use("connect") /\ m.net[c].state = "none" /\ \A d \in Client : d < c => m.net[d].state # "none"
  /\ \E kind \in Kinds : ClientStep(c, [m.net[c] EXCEPT !.state = "backlog", !.kind = kind])

\* A client sends all it has, or a part; a websocket client waits for the answer.
Sends(c) ==
  /\ Use("send") /\ m.net[c].state \in {"backlog", "open"} /\ m.net[c].peer = "up"
  /\ LET k   == m.net[c]
         all == IF k.kind \in {"ws", "oldws"} /\ ~k.greeted THEN 1 ELSE Len(Stream(c, k.kind))
     IN  \E n \in {all, k.sent + 1} :
           k.sent < n /\ n <= all /\ ClientStep(c, [k EXCEPT !.sent = n])

Reads(c) ==
  /\ Use("take") /\ m.net[c].room < WriteRoom
  /\ ClientStep(c, [m.net[c] EXCEPT !.room = WriteRoom])

Leaves(c) ==
  /\ Use("leave") /\ m.net[c].state = "open" /\ m.net[c].peer = "up"
  /\ \E how \in {"shut", "reset"} : ClientStep(c, [m.net[c] EXCEPT !.peer = how])

GateStep ==
  /\ \/ Start \/ Poll \/ Event \/ PullBuffered \/ PullAlloc \/ PullRead \/ PullGather \/ PullCopy
     \/ NoData \/ GotHeader \/ GotExtended \/ GotMask \/ GotData
  /\ UNCHANGED left

GateNext ==
  \/ GateStep \/ Kick \/ ForwardAgent \/ Broker \/ PushClient \/ Release
  \/ \E c \in Client : Connect(c) \/ Sends(c) \/ Reads(c) \/ Leaves(c)
-----------------------------------------------------------------------------
UidOf(c)    == {reports[i].uid : i \in {j \in DOMAIN reports : reports[j].client = c}}
Of(uid, s)  == SelectSeq(s, LAMBDA x : x.uid = uid)

\* What is forwarded for an identifier is, frame by frame, what the client
\* that opened it sent, from the first frame on; and what a client receives
\* is what was sent to its identifier.  The buffer, the slots and the places
\* in the table of identifiers are used again for other connections, and
\* some are closed to make room (mread_pull, mread_yield, _id_to_agent).
GateStreams ==
  \A c \in Client : \A uid \in UidOf(c) :
    /\ gheader # "P" => LET f == Of(uid, frames) IN \A k \in DOMAIN f : f[k].data = Payload(c, k)
    /\ IsPrefix(m.net[c].got, pushed[uid])

\* The watchdog is told once that an identifier is open and once that it is
\* closed, the identifiers in between are those of the slots, each of the
\* connection in that slot, and a free slot has none (_gen_id, _remove_id,
\* _report_closed; assert(conn->uid == uid), assert(0)).
OpenClosePaired ==
  /\ \A uid \in 1 .. idIndex :
       Of(uid, reports) = <<>> \/ [k \in DOMAIN Of(uid, reports) |-> Of(uid, reports)[k].what]
                                     \in {<<"open">>, <<"open", "close">>}
  /\ \A i \in Slot : LET uid == conn[i].uid
                     IN  uid # 0 => /\ table[uid % Cap] = i
                                    /\ m.sock[i].status # "INVALID"
                                    /\ Len(Of(uid, reports)) = 1
                                    /\ Of(uid, reports)[1].client = m.sock[i].fd
  /\ m.closed = Cardinality({i \in Slot : m.sock[i].status = "CLOSED"})

\* The blocks fill the ring, and those a connection holds are its own and not
\* given to anybody else (the assertions of ringbuffer.c), although rooms are
\* made free by collecting the blocks of others; a block to collect is always
\* found (force_close_client is not called with -1).
RingIntact ==
  /\ ~m.fault
  /\ Tiled(m.ring)
  /\ \A i \in Slot : LET s == m.sock[i] IN
       s.status \in {"SUSPEND", "READ", "POLLIN", "FIRST_POLLIN", "CONNECTED"} =>
         \A b \in {s.node, s.temp} \ {Nil} :
           /\ b \in DOMAIN m.ring.at
           /\ \A o \in {Chain(m.ring, b)[k] : k \in DOMAIN Chain(m.ring, b)} : m.ring.at[o].id = i
=============================================================================
