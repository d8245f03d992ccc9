-------------------------------- MODULE Room --------------------------------
(***************************************************************************)
(* The room service (room.lua) and the part of the player agents           *)
(* (agent.lua) that enters rooms, sits, stands and quits.  The room        *)
(* service keeps for every room its users and seats; every agent keeps the *)
(* room and the seat it believes it has, a lock, and the state that says   *)
(* which commands of its client it takes.  An agent that calls the room    *)
(* service goes on with other messages until the answer comes; a blockcall *)
(* to the game does not let it.  The game's own decisions (may a player    *)
(* stand or quit now) and the amounts of money are choices.  A handler     *)
(* that raises an error answers nothing: its caller waits for ever.        *)
(***************************************************************************)
EXTENDS Common, Sequences
LOCAL INSTANCE FiniteSets
LOCAL INSTANCE SequencesExt

CONSTANTS
    Uid,            \* players
    RoomIds,        \* sequence of rooms, in the order of the configuration
    SeatNum,        \* seats of a room
    MaxUser,        \* users a room takes
    RoomType,       \* room -> its type
    Basebet,        \* room -> its base bet
    MinMoney,       \* room -> what a player must own
    MaxMoney,       \* room -> what a player may own
    Money,          \* player -> what the player owns
    ProtectMoney,   \* what a broke player is given
    Brackets        \* base bet -> <<above, up to>>, the money it is meant for

VARIABLES
    rooms,      \* room -> cursitn, curusern, seats (seat -> user), users (user -> seat)
    open,       \* rooms whose configuration has state 0
    agents,     \* player -> session of the player's agent
    requests,   \* calls the room service has not handled
    inbox,      \* player -> what the room service sent to the agent
    waiting,    \* <<player, call>>: agents that wait for the game or for the center
    astray      \* players refused, or gone, while the room service kept them

roomVars == <<rooms, open, agents, requests, inbox, waiting, astray>>

RoomId == Range(RoomIds)
Seat   == 0 .. SeatNum - 1

CreatRoom == [cursitn |-> 0, curusern |-> 0, seats |-> [s \in Seat |-> Void], users |-> <<>>]

NewAgent(n) == [roomid |-> Void, seatid |-> Void, lock |-> FALSE, state |-> "login_succ",
                connected |-> TRUE, n |-> n]

RoomInit ==
    /\ rooms = [r \in RoomId |-> CreatRoom]
    /\ open = RoomId
    /\ agents = [u \in Uid |-> NewAgent(0)]
    /\ requests = <<>>
    /\ inbox = [u \in Uid |-> <<>>]
    /\ waiting = {}
    /\ astray = {}

-----------------------------------------------------------------------------
(* Choosing a room to enter *)

\* The seats a fast entry may take: seats do not know the address of who sat
\* down by a fast entry, and the addresses of the players differ.
EmptySeats(r) == {s \in Seat : rooms[r].seats[s] = Void}

\* The types and base bets GetSuitableBasebet_1 may settle on, in whatever
\* order pairs() visits them; <<0, t>> when there is none.
GetSuitableBasebet(t, money) ==
    LET fit == {r \in open : /\ t = 0 \/ t >= RoomType[r]
                             /\ money >= MinMoney[r]
                             /\ money < MaxMoney[r] \/ MaxMoney[r] # 0}
        exact(r) == Brackets[Basebet[r]][1] < money /\ money <= Brackets[Basebet[r]][2]
    IN  IF fit = {} THEN {<<0, t>>}
        ELSE {<<Basebet[r], RoomType[r]>> :
                r \in {q \in fit : \/ exact(q)
                                   \/ \A p \in fit : RoomType[p] = RoomType[q] => ~exact(p)}}

\* The fullest of the listed rooms with a free seat, the first one that has
\* no more than five seats free.
BestRoom(list, except, over) ==
    LET better(best, r) ==
          IF \/ best.stop \/ r = except \/ r \in over
             \/ rooms[r].cursitn >= SeatNum \/ EmptySeats(r) = {}
             \/ best.room # Void /\ rooms[best.room].cursitn >= rooms[r].cursitn
          THEN best
          ELSE [room |-> r, stop |-> rooms[r].cursitn >= SeatNum - 5]
    IN  FoldLeft(better, [room |-> Void, stop |-> FALSE], list).room

-----------------------------------------------------------------------------
(* The room service: each handler changes the rooms and answers *)

Answer(q, ret, room, seat) == [to |-> q.to, ret |-> ret, room |-> room, seat |-> seat]

\* What the service sends to the agent that called it.
Reply(q, ms) ==
    inbox' = IF agents[q.uid].n = q.n /\ agents[q.uid].state # "gone"
             THEN [inbox EXCEPT ![q.uid] = @ \o ms] ELSE inbox

CheckEnter(q) ==
    LET room  == rooms[q.room]
        known == q.uid \in DOMAIN room.users
        full  == MaxUser <= room.curusern
        ret   == IF q.over THEN 1 ELSE IF known THEN -1 ELSE IF full THEN 1 ELSE 0
    IN  \/ /\ q.room \notin open
           /\ Reply(q, <<Answer(q, 1, q.room, Void)>>)
           /\ astray' = IF known THEN astray \cup {q.uid} ELSE astray
           /\ UNCHANGED rooms
        \/ /\ q.room \in open
           /\ rooms' = IF known \/ full THEN rooms
                       ELSE [rooms EXCEPT ![q.room].users = Put(@, q.uid, Void),
                                          ![q.room].curusern = @ + 1]
           /\ Reply(q, <<Answer(q, ret, q.room, Void)>>)
           /\ astray' = IF ret > 0 /\ (known \/ ~full) THEN astray \cup {q.uid} ELSE astray

FastEnterRoom(q) ==
    LET poor(c) == c[1] = 0
        fast(c) == SelectSeq(RoomIds, LAMBDA r : r \in open /\ RoomType[r] = c[2] /\ Basebet[r] = c[1])
        best(c) == BestRoom(fast(c), q.room, q.overRooms)
    IN  IF open = {} THEN UNCHANGED <<rooms, inbox>>      \* no room of the type: an error
        ELSE
        \E first \in GetSuitableBasebet(q.type, Money[q.uid]) :
        \E c \in IF poor(first) THEN GetSuitableBasebet(q.type, Money[q.uid] + ProtectMoney) ELSE {first} :
          \/ /\ best(c) = Void \/ q.over
             /\ Reply(q, <<Answer(q, 1, Void, Void)>>)
             /\ UNCHANGED rooms
          \/ /\ best(c) # Void /\ ~q.over
             /\ \E r \in {best(c)}, s \in EmptySeats(best(c)) :
                  /\ rooms' = IF q.uid \in DOMAIN rooms[r].users THEN rooms
                              ELSE [rooms EXCEPT ![r].users = Put(@, q.uid, s),
                                                 ![r].curusern = @ + 1,
                                                 ![r].cursitn = @ + 1,
                                                 ![r].seats[s] = q.uid]
                  /\ Reply(q, <<[Answer(q, 0, r, s) EXCEPT !.to = IF poor(first) THEN "protect" ELSE q.to]>>)

CheckSit(q) ==
    LET room == rooms[q.room]
        user == Entry(room.users, q.uid)
        free == q.uid \in DOMAIN room.users /\ q.seat \in Seat /\ room.seats[q.seat] = Void
    IN  \/ /\ user # Void /\ q.seat \notin Seat      \* an error
           /\ UNCHANGED <<rooms, inbox>>
        \/ /\ user # Void /\ q.seat \in Seat
           /\ rooms' = IF room.seats[q.seat] = q.uid THEN rooms
                       ELSE [rooms EXCEPT ![q.room].users[q.uid] = Void]
           /\ Reply(q, <<Answer(q, IF room.seats[q.seat] = q.uid THEN 0 ELSE 1, q.room, user)>>)
        \/ /\ user = Void
           /\ rooms' = IF ~free THEN rooms
                       ELSE [rooms EXCEPT ![q.room].seats[q.seat] = q.uid,
                                          ![q.room].cursitn = @ + 1,
                                          ![q.room].users[q.uid] = q.seat]
           /\ Reply(q, <<Answer(q, IF free THEN 0 ELSE 1, q.room, q.seat)>>)

\* Mutant: the user keeps the seat it stood up from.
StoodUpNot(room, uid, s) ==
    IF Entry(room.users, uid) = Void \/ room.seats[s] = Void THEN room
    ELSE [room EXCEPT !.seats[s] = Void, !.cursitn = @ - 1]

\* The rooms after uid stands up from seat s.
StoodUp(room, uid, s) ==
    IF Entry(room.users, uid) = Void \/ room.seats[s] = Void THEN room
    ELSE [room EXCEPT !.seats[s] = Void, !.cursitn = @ - 1, !.users[uid] = Void]

CheckStand(q) ==
    LET ok == Entry(rooms[q.room].users, q.uid) # Void
    IN  /\ rooms' = [rooms EXCEPT ![q.room] = StoodUp(@, q.uid, q.seat)]
        /\ Reply(q, (IF ok /\ q.notice THEN <<[to |-> "stood"]>> ELSE <<>>)
                      \o <<Answer(q, IF ok THEN 0 ELSE 1, q.room, q.seat)>>)

CheckQuitRoom(q) ==
    LET room == rooms[q.room]
        user == Entry(room.users, q.uid)
        up   == IF user = Void THEN room ELSE StoodUp(room, q.uid, user)
        in   == q.uid \in DOMAIN room.users
    IN  /\ rooms' = IF ~in THEN rooms
                    ELSE [rooms EXCEPT ![q.room] = [up EXCEPT !.users = Drop(@, q.uid), !.curusern = @ - 1]]
        /\ Reply(q, <<Answer(q, IF in THEN 0 ELSE 1, q.room, Void)>>)

RoomDispatch ==
    /\ requests # <<>>
    /\ requests' = Tail(requests)
    /\ \E q \in {Head(requests)} :
         \/ q.op = "ENTER_ROOM" /\ CheckEnter(q)
         \/ q.op = "FAST_ENTER" /\ FastEnterRoom(q) /\ UNCHANGED astray
         \/ q.op = "SIT"        /\ CheckSit(q) /\ UNCHANGED astray
         \/ q.op = "STAND"      /\ CheckStand(q) /\ UNCHANGED astray
         \/ q.op = "QUIT_ROOM"  /\ CheckQuitRoom(q) /\ UNCHANGED astray
    /\ UNCHANGED <<open, agents, waiting, left>>

\* ADMIN_UPDATE_ROOMCONF: a room is closed or opened in the configuration.
InitRoom(r) ==
    /\ Use("update")
    /\ open' = IF r \in open THEN open \ {r} ELSE open \cup {r}
    /\ UNCHANGED <<rooms, agents, requests, inbox, waiting, astray>>

-----------------------------------------------------------------------------
(* The agents: commands of the client *)

\* A closed connection sends no commands.
Takes(u, states) == agents[u].state \in states /\ ~agents[u].lock /\ agents[u].connected
Set(u, a)        == agents' = [agents EXCEPT ![u] = a]

Request(u, op, room, seat, to) ==
    [op |-> op, uid |-> u, n |-> agents[u].n, room |-> room, seat |-> seat, to |-> to,
     over |-> FALSE, overRooms |-> {}, type |-> 0, notice |-> TRUE]

Call(q) == requests' = Append(requests, q)

\* CMSG_ENTER_ROOM; a player who is in a room enters that room again.  The
\* player may have lost too much, in this room or in all.
EnterRoom(u, r, over) ==
    LET a == agents[u]
        room == IF a.roomid = Void THEN r ELSE a.roomid
    IN  /\ Takes(u, {"login_succ", "at_room", "be_seated"})
        /\ IF over THEN May("enter") /\ Use("over") ELSE Use("enter")
        /\ Set(u, [a EXCEPT !.lock = TRUE, !.state = "enter_room"])
        /\ Call([Request(u, "ENTER_ROOM", room, Void, "enter") EXCEPT !.over = over])
        /\ UNCHANGED <<rooms, open, inbox, waiting, astray>>

\* The type of room that fits what the player owns, when it changes rooms.
TypeForMoney(u) ==
    LET fit == {r \in RoomId : Brackets[Basebet[r]][1] <= Money[u] /\ Money[u] < Brackets[Basebet[r]][2]}
    IN  IF fit = {} THEN 3 ELSE RoomType[CHOOSE r \in fit : TRUE]

FastEnter(u, a, from, type, over) ==
    /\ Set(u, [a EXCEPT !.lock = TRUE, !.state = "enter_room"])
    /\ Call([Request(u, "FAST_ENTER", from, Void, "fast") EXCEPT !.type = type, !.overRooms = over])

PlayerFastEnter(u, type, over) ==
    /\ Takes(u, {"login_succ"})
    /\ Use("fast")
    /\ FastEnter(u, agents[u], Void, type, over)
    /\ UNCHANGED <<rooms, open, inbox, waiting, astray>>

\* CMSG_SIT; a broke player may be protected in a room of the first type.  A
\* player who lost the room by the answer to an earlier quit keeps the lock:
\* the handler has set it when it raises an error.
Sit(u, s) ==
    LET a == agents[u]
    IN  /\ Takes(u, {"at_room"})
        /\ Use("sit")
        /\ \/ /\ a.roomid = Void
              /\ Set(u, [a EXCEPT !.lock = TRUE, !.state = "sit_down"])
              /\ UNCHANGED requests
           \/ /\ a.roomid # Void /\ Money[u] < MinMoney[a.roomid]
              /\ Set(u, [a EXCEPT !.state = "at_room"])
              /\ UNCHANGED requests
           \/ /\ a.roomid # Void
              /\ Money[u] >= MinMoney[a.roomid] \/ RoomType[a.roomid] = 1
              /\ Set(u, [a EXCEPT !.lock = TRUE, !.state = "sit_down"])
              /\ Call(Request(u, "SIT", a.roomid, s, "sit"))
        /\ UNCHANGED <<rooms, open, inbox, waiting, astray>>

\* StandSucc, once the game has let the player go.
StandSucc(u, a) ==
    IF a.seatid = Void
    THEN Set(u, [a EXCEPT !.lock = FALSE]) /\ UNCHANGED requests
    ELSE Set(u, a) /\ Call(Request(u, "STAND", a.roomid, a.seatid, "stand"))

\* CMSG_TRY_STAND: a blockcall to the game, which agrees or not.  A player
\* without room or seat keeps the lock.
TryStand(u, agrees) ==
    LET a == [agents[u] EXCEPT !.lock = TRUE, !.state = "stand_up"]
    IN  /\ Takes(u, {"be_seated"})
        /\ Use("stand")
        /\ IF a.roomid = Void \/ a.seatid = Void
           THEN Set(u, [agents[u] EXCEPT !.lock = TRUE]) /\ UNCHANGED requests
           ELSE IF agrees THEN StandSucc(u, a)
           ELSE Set(u, [a EXCEPT !.lock = FALSE, !.state = "be_seated"]) /\ UNCHANGED requests
        /\ UNCHANGED <<rooms, open, inbox, waiting, astray>>

\* QuitSucc: the call that leaves the room; to says who goes on afterwards.
QuitSucc(u, a, to) ==
    IF a.roomid = Void THEN Set(u, a) /\ UNCHANGED requests
    ELSE Set(u, a) /\ Call(Request(u, "QUIT_ROOM", a.roomid, Void, to))

\* CMSG_TRY_QUIT and the first half of CMSG_CHANGE_ROOM: the lock is tested
\* and not taken.  A player who quits and has no room takes no more commands.
TryQuit(u, agrees, to) ==
    LET a == agents[u]
    IN  /\ Takes(u, {"at_room", "be_seated"})
        /\ a.roomid # Void \/ to = "quit"
        /\ Use(to)
        /\ IF agrees \/ a.roomid = Void THEN QuitSucc(u, [a EXCEPT !.state = "quit_room"], to)
           ELSE /\ Set(u, [a EXCEPT !.state = IF a.seatid # Void THEN "be_seated" ELSE "at_room"])
                /\ UNCHANGED requests
        /\ UNCHANGED <<rooms, open, inbox, waiting, astray>>

\* CMSG_CHANGE_ROOM: a player without enough money for a room of the first
\* type is refused, and taken for one who does not sit.
ChangeRoom(u, agrees) ==
    LET a == agents[u]
    IN  \/ TryQuit(u, agrees, "change")
        \/ /\ Takes(u, {"at_room", "be_seated"}) /\ a.roomid # Void
           /\ Money[u] < MinMoney[a.roomid] /\ RoomType[a.roomid] = 1
           /\ Use("change")
           /\ Set(u, [a EXCEPT !.state = "at_room"])
           /\ astray' = IF a.seatid # Void THEN astray \cup {u} ELSE astray
           /\ UNCHANGED <<rooms, open, requests, inbox, waiting>>

-----------------------------------------------------------------------------
(* The agents: the game, the connection, the answers of the room service *)

\* KickForGameOver: after a match a player with too little or too much, or
\* one who did not play, is made to stand; this call does not block.
KickForGameOver(u) ==
    /\ Use("kick")
    /\ ~agents[u].lock /\ agents[u].connected /\ agents[u].seatid # Void
    /\ Set(u, [agents[u] EXCEPT !.lock = TRUE])
    /\ waiting' = waiting \cup {<<u, "game">>}
    /\ UNCHANGED <<rooms, open, requests, inbox, astray>>

KickAnswered(u, agrees) ==
    /\ <<u, "game">> \in waiting
    /\ waiting' = waiting \ {<<u, "game">>}
    /\ IF agrees THEN StandSucc(u, agents[u])
       ELSE Set(u, [agents[u] EXCEPT !.lock = FALSE, !.state = "be_seated"]) /\ UNCHANGED requests
    /\ UNCHANGED <<rooms, open, inbox, astray, left>>

\* Exit: the connection is gone, or the match of a player without one is
\* over.  The center is asked first; the agent does not wait for it.
Exit(u) ==
    LET a == [agents[u] EXCEPT !.connected = FALSE]
    IN  /\ a.state # "gone"
        /\ \/ agents[u].connected /\ Use("close")
           \/ ~agents[u].connected /\ Use("kick") /\ ~a.lock
        /\ IF a.lock THEN Set(u, a) /\ UNCHANGED waiting
           ELSE /\ Set(u, [a EXCEPT !.lock = TRUE, !.state = "disconnect"])
                /\ waiting' = waiting \cup {<<u, "center">>}
        /\ UNCHANGED <<rooms, open, requests, inbox, astray>>

Gone(u) == Set(u, [NewAgent(agents[u].n) EXCEPT !.state = "gone", !.connected = FALSE])

ExitLocked(u, agrees) ==
    LET a == agents[u]
    IN  /\ <<u, "center">> \in waiting
        /\ waiting' = waiting \ {<<u, "center">>}
        /\ \/ a.roomid = Void /\ agrees /\ Gone(u) /\ UNCHANGED requests
           \/ a.roomid # Void /\ agrees /\ QuitSucc(u, a, "exit")
           \/ a.roomid # Void /\ ~agrees /\ Set(u, [a EXCEPT !.lock = FALSE]) /\ UNCHANGED requests
        /\ UNCHANGED <<rooms, open, inbox, astray, left>>

\* A new agent after the last one has gone.
LoginAgain(u) ==
    /\ Use("login")
    /\ agents[u].state = "gone"
    /\ Set(u, NewAgent(agents[u].n + 1))
    /\ inbox' = [inbox EXCEPT ![u] = <<>>]
    /\ UNCHANGED <<rooms, open, requests, waiting, astray>>

\* The player's record as EnterResp leaves it.  Its call of the database
\* (GetPlayNum) is part of the step: the lock is held until it is answered, so
\* that the agent only notes the loss of the connection meanwhile, unless the
\* answer to a quit took the lock away before.
EnterResp(a, m) ==
    IF m.ret \in {0, -1}
    THEN [a EXCEPT !.roomid = m.room, !.lock = FALSE,
                   !.state = IF a.seatid # Void THEN "be_seated" ELSE "at_room"]
    ELSE [a EXCEPT !.lock = FALSE, !.state = "login_succ"]

\* FastEnter after the answer: the seat is kept, or given back when the
\* player is too rich, or broke and not protected.
FastEntered(u, a, m) ==
    LET b == [a EXCEPT !.roomid = m.room, !.seatid = m.seat, !.state = "sit_down"]
    IN  \/ m.ret # 0 /\ Set(u, EnterResp(a, m)) /\ UNCHANGED requests
        \/ /\ m.ret = 0 /\ (Money[u] > MaxMoney[m.room] \/ m.to = "protect")
           /\ Set(u, b)
           /\ Call([Request(u, "STAND", m.room, m.seat, "undo") EXCEPT !.notice = FALSE])
        \/ /\ m.ret = 0 /\ (Money[u] <= MaxMoney[m.room] \/ m.to = "protect")
           /\ Set(u, [b EXCEPT !.state = "be_seated", !.lock = FALSE])
           /\ UNCHANGED requests

QuitDone(a, m) == [a EXCEPT !.roomid = Void, !.seatid = Void,
                            !.state = IF m.ret = 0 THEN "login_succ" ELSE @]

Resume(u) ==
    LET a == agents[u]
    IN  /\ inbox[u] # <<>> /\ a.state # "gone"
        /\ inbox' = [inbox EXCEPT ![u] = Tail(@)]
        /\ \E m \in {Head(inbox[u])} :
             /\ \/ m.to = "enter"  /\ Set(u, EnterResp(a, m)) /\ UNCHANGED requests
                \/ m.to \in {"fast", "protect"} /\ FastEntered(u, a, m)
                \/ /\ m.to = "undo"
                   /\ Set(u, [a EXCEPT !.seatid = Void, !.state = "at_room", !.lock = FALSE])
                   /\ UNCHANGED requests
                \/ /\ m.to = "sit"
                   /\ Set(u, IF m.ret = 0
                             THEN [a EXCEPT !.seatid = m.seat, !.state = "be_seated", !.lock = FALSE]
                             ELSE [a EXCEPT !.state = "at_room", !.lock = FALSE])
                   /\ UNCHANGED requests
                \/ /\ m.to = "stood"
                   /\ Set(u, [a EXCEPT !.seatid = Void])
                   /\ UNCHANGED requests
                \/ /\ m.to = "stand"
                   /\ Set(u, [a EXCEPT !.seatid = Void, !.state = "at_room", !.lock = FALSE])
                   /\ UNCHANGED requests
                \/ m.to = "quit" /\ Set(u, [QuitDone(a, m) EXCEPT !.lock = FALSE]) /\ UNCHANGED requests
                \/ m.to = "change" /\ FastEnter(u, [QuitDone(a, m) EXCEPT !.lock = FALSE], m.room, TypeForMoney(u), {})
                \/ m.to = "exit" /\ Gone(u) /\ UNCHANGED requests
             /\ astray' = IF m.to = "change" /\ a.state # "quit_room" THEN astray \cup {u} ELSE astray
    /\ UNCHANGED <<rooms, open, waiting, left>>

RoomNext ==
    \/ RoomDispatch
    \/ \E r \in RoomId : InitRoom(r)
    \/ \E u \in Uid :
         \/ \E r \in RoomId, over \in BOOLEAN : EnterRoom(u, r, over)
         \/ \E t \in 0 .. 2, over \in {{}, {RoomIds[1]}} : PlayerFastEnter(u, t, over)
         \/ \E s \in Seat \cup {SeatNum} : Sit(u, s)
         \/ \E agrees \in BOOLEAN :
              \/ TryStand(u, agrees)
              \/ TryQuit(u, agrees, "quit")
              \/ ChangeRoom(u, agrees)
              \/ KickAnswered(u, agrees)
              \/ ExitLocked(u, agrees)
         \/ KickForGameOver(u)
         \/ Exit(u)
         \/ LoginAgain(u)
         \/ Resume(u)

-----------------------------------------------------------------------------
(* Properties *)

\* Nothing is under way for the player.
Quiet(u) == /\ inbox[u] = <<>>
            /\ \A i \in DOMAIN requests : requests[i].uid # u
            /\ \A w \in waiting : w[1] # u

\* The tables of a room agree with one another: cursitn and curusern count the
\* taken seats and the users, and, while nobody is astray, a seat is taken by
\* the user who has it (room.lua CheckSit, CheckStand, CheckQuitRoom,
\* FastEnterRoom).
SeatsCounted ==
    \A r \in RoomId : \E room \in {rooms[r]} :
        /\ room.cursitn = Cardinality({s \in Seat : room.seats[s] # Void})
        /\ room.curusern = Cardinality(DOMAIN room.users)
        /\ astray = {} => \A u \in Uid, s \in Seat : room.seats[s] = u <=> Entry(room.users, u) = s

\* When nothing is under way for a player, the player's agent and the room
\* service agree on the room and the seat, however the calls of the agent, the
\* game's kick and the loss of the connection were interleaved; a player whose
\* agent has gone is in no room.  It holds while nobody is astray: refused by
\* CheckEnter although it recorded the user, refused by ChangeRoom while
\* sitting, or gone while changing rooms.
SeatsAgree ==
    astray = {} =>
      \A u \in Uid : Quiet(u) =>
        \A r \in RoomId : /\ u \in DOMAIN rooms[r].users <=> agents[u].roomid = r
                          /\ agents[u].roomid = r => Entry(rooms[r].users, u) = agents[u].seatid
=============================================================================
