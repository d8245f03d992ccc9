--------------------------- MODULE BullfightGame ---------------------------
(***************************************************************************)
(* A table of the bull fight: bullfight/bfgame.lua with its timers         *)
(* (timer.lua), and the game side of the players' agents (agent.lua).      *)
(*                                                                         *)
(* The money is with the agents.  The game knows of it what the agents     *)
(* tell it, and tells them what they win and what fee they pay; whoever    *)
(* loses is told to ask how much.  The cards of a hand are a number (the   *)
(* larger one has the better card), the type of the hand is BullType of it *)
(* (module Poker).  ForceStand, ForceQuit and GameOverAhead are not        *)
(* called.  What else an agent does with its money is in module Purse: the *)
(* red packets, which let go of lockmoney even while a loser holds it, the *)
(* safe box, friends.                                                      *)
(***************************************************************************)
EXTENDS Common, Sequences, FiniteSets
LOCAL INSTANCE FiniteSetsExt
LOCAL INSTANCE Functions

CONSTANTS
  Player,           \* the players of a room
  Purse,            \* what each of them has at first
  Hand,             \* the hands that may be dealt, numbers
  BullType,         \* hand -> its type
  BullAdd,          \* types.bulladd: type -> factor
  Upling,           \* types.upling
  Bet,              \* what a player may bet
  BaseBets,         \* <<the base bet, the base bet of a later configuration>>
  PlayerFee, BankerFee,
  MinMoney          \* who has less leaves the seat

VARIABLES
  game,             \* the table
  agent,            \* player -> [money, lockmoney, lock, seated, here, call, connected]
  inbox,            \* player -> messages from its agent to the game
  shut,             \* EVENT_SHUT_DOWN was sent to the center
  fees,             \* the fees paid
  cut               \* a match ended before its result was known

bullfightVars == <<game, agent, inbox, shut, fees, cut>>

TimerId == {"T_WAIT_START", "T_GRAB_BANKER", "T_BET", "T_WAIT_BET", "T_DEAL_POKER", "T_CHOICE_POKER",
            "T_WAIT_SHOW_RESULT", "T_SHOW_RESULT"}

PT_BULL_BULL == 10

\* CreatGame.
CreatGame ==
  [state |-> "WAIT_PLAYER", seater |-> <<>>, players |-> {}, gameplayer |-> <<>>, sitnum |-> 0, banker |-> 0,
   bankermoney |-> 0, playcount |-> 0, needgrab |-> TRUE, source |-> 0, topupling |-> 1, havegetresult |-> FALSE,
   basebet |-> BaseBets[1], updateconf |-> 0, closing |-> FALSE, session |-> [t \in TimerId |-> 0], armed |-> {},
   mail |-> [p \in Player |-> <<>>]]

BullfightInit ==
  /\ game = CreatGame
  /\ agent = [p \in Player |-> [money |-> Purse[p], lockmoney |-> FALSE, lock |-> FALSE, seated |-> FALSE,
                                here |-> FALSE, call |-> "none", connected |-> TRUE]]
  /\ inbox = [p \in Player |-> <<>>]
  /\ shut = FALSE /\ fees = 0 /\ cut = FALSE

ChangeState(g, s) == [g EXCEPT !.state = s]

\* skynet.send to the agents of the players in S.
Post(g, S, m) == [g EXCEPT !.mail = [p \in Player |-> IF p \in S THEN Append(@[p], m) ELSE @[p]]]
Event(t, v) == [type |-> t, value |-> v]

\* timer.lua: a timeout that was started under another session does nothing.
AddTimer(g, t) == [g EXCEPT !.armed = @ \cup {[id |-> t, session |-> g.session[t]]}]

RemoveTimer(g, T) == [g EXCEPT !.session = [t \in TimerId |-> IF t \in T THEN @[t] + 1 ELSE @[t]]]

IsGameStart(g) == g.state \in {"DEAL_POKER", "GRAB_THE_BANKER", "WAIT_BET", "CHOICE_POKER_TYPE", "WAIT_SHOW_RESULT"}

Playing(g) == DOMAIN g.gameplayer
Others(g)  == Playing(g) \ {g.banker}

UpdateGameconf(g) ==
  IF g.updateconf = 0 THEN g ELSE [g EXCEPT !.basebet = g.updateconf, !.updateconf = 0]

AddPlayerToGame(g) ==
  [g EXCEPT !.gameplayer = [p \in DOMAIN g.seater |->
     [hand |-> 0, pokertype |-> -1, money |-> 0, winmoney |-> 0, totaladd |-> 0, betmoney |-> 0,
      grabbanker |-> 0, havechoice |-> FALSE]]]

\* TakeFee: everybody pays; what is taken from bankermoney is the fee of
\* the player that pairs visits last.
TakeFee(g, last) ==
  LET fee == [p \in Playing(g) |-> IF p = g.banker THEN BankerFee ELSE PlayerFee]
  IN  [g EXCEPT !.mail = [p \in Player |-> IF p \in Playing(g) THEN Append(@[p], Event("takefee", fee[p])) ELSE @[p]],
                !.bankermoney = @ - fee[last]]

TopUpling(curup) == IF curup >= Max(Upling) THEN Max(Upling) ELSE Min({v \in Upling : curup < v})

\* Mutant: nobody waits for the bets.
NotifyBetUntimed(g) ==
  {LET t == TakeFee(ChangeState(g, "WAIT_BET"), last)
   IN  [t EXCEPT !.playcount = @ + 1, !.topupling = TopUpling(t.bankermoney \div (Cardinality(Playing(g)) * g.basebet))]
   : last \in Playing(g)}

NotifyBet(g) ==
  {LET t == TakeFee(AddTimer(ChangeState(g, "WAIT_BET"), "T_BET"), last)
   IN  [t EXCEPT !.playcount = @ + 1, !.topupling = TopUpling(t.bankermoney \div (Cardinality(Playing(g)) * g.basebet))]
   : last \in Playing(g)}

\* CheckStartGame: the pointer turns first when the banker was chosen by chance.
CheckStartGame(g) ==
  IF g.sitnum < 2 THEN {[ChangeState(RemoveTimer(g, TimerId), "WAIT_PLAYER") EXCEPT !.gameplayer = <<>>]}
  ELSE IF g.needgrab
       THEN {Post(AddTimer(ChangeState(g, "GRAB_THE_BANKER"), "T_GRAB_BANKER"), Playing(g), Event("getmoney", 0))}
  ELSE IF g.source # 0 THEN {AddTimer(ChangeState([g EXCEPT !.source = 0], "WAIT_BET"), "T_WAIT_BET")}
  ELSE NotifyBet(g)

\* NotifyTheGrab: one of those who want to be the banker, or one of the richest.
NotifyTheGrab(g) ==
  LET grab == {p \in Playing(g) : g.gameplayer[p].grabbanker = 1}
      rich == {p \in Playing(g) : \A q \in Playing(g) : g.gameplayer[p].money >= g.gameplayer[q].money}
  IN  UNION {CheckStartGame([g EXCEPT !.banker = b, !.needgrab = FALSE, !.playcount = 0,
                                      !.source = IF grab = {} THEN 1 ELSE IF Cardinality(grab) > 1 THEN 2 ELSE @,
                                      !.bankermoney = g.gameplayer[b].money,
                                      !.gameplayer = [p \in Playing(g) |-> [@[p] EXCEPT !.grabbanker = 0]]])
             : b \in IF grab = {} THEN rich ELSE grab}

\* AllHaveGrabed: whoever has too little declines; pairs stops at the first
\* player without an answer, so only some of them are visited before it.
Poor(g) == {p \in Playing(g) : g.gameplayer[p].money # 0 /\ g.gameplayer[p].money < 30 * g.basebet}

Decline(g, S) == [g EXCEPT !.gameplayer = [p \in Playing(g) |-> IF p \in S THEN [@[p] EXCEPT !.grabbanker = 2] ELSE @[p]]]

AllHaveGrabed(g) ==
  IF \A p \in Playing(g) : p \in Poor(g) \/ g.gameplayer[p].grabbanker # 0
  THEN NotifyTheGrab(Decline(g, Poor(g)))
  ELSE {Decline(g, S) : S \in SUBSET Poor(g)}

SomeOneGrab(g, m) ==
  IF m.uid \in Playing(g) /\ g.gameplayer[m.uid].grabbanker = 0
  THEN [g EXCEPT !.gameplayer[m.uid] = [@ EXCEPT !.money = m.money, !.grabbanker = m.value]]
  ELSE g

IsAllHaveBet(g) == \A p \in Others(g) : g.gameplayer[p].betmoney # 0

BetForResPlayer(g) ==
  [g EXCEPT !.gameplayer = [p \in Playing(g) |-> IF p # g.banker /\ @[p].betmoney = 0
                                                 THEN [@[p] EXCEPT !.betmoney = g.basebet] ELSE @[p]]]

SomeOneBet(g, m) ==
  IF m.uid \in Playing(g) /\ m.value <= g.topupling * g.basebet
  THEN [g EXCEPT !.gameplayer[m.uid] = [@ EXCEPT !.betmoney = m.value]]
  ELSE g

\* DealPoker, with the state and the timer its callers set.
DealPoker(g) ==
  {AddTimer([g EXCEPT !.state = "DEAL_POKER",
                      !.gameplayer = [p \in Playing(g) |-> [@[p] EXCEPT !.hand = h[p], !.pokertype = BullType[h[p]]]]],
            "T_DEAL_POKER")
   : h \in [Playing(g) -> Hand]}

\* A player shows its hand, with its type or as no bull.
SomeOneChoicePoker(g, m) ==
  IF m.uid \in Playing(g) /\ m.value \in {0, g.gameplayer[m.uid].pokertype}
  THEN [g EXCEPT !.gameplayer[m.uid] = [@ EXCEPT !.pokertype = m.value, !.havechoice = TRUE],
                 !.seater[m.uid] = 0, !.needgrab = @ \/ m.value >= PT_BULL_BULL]
  ELSE g

ShowResPlayersCPType(g) ==
  LET late == {p \in Playing(g) : ~g.gameplayer[p].havechoice}
  IN  [g EXCEPT !.gameplayer = [p \in Playing(g) |-> [@[p] EXCEPT !.havechoice = TRUE]],
                !.seater = [p \in DOMAIN g.seater |-> IF p \in late THEN @[p] + 1 ELSE @[p]],
                !.needgrab = @ \/ \E p \in late : g.gameplayer[p].pokertype >= PT_BULL_BULL]

BFCompare(a, b) == a.pokertype > b.pokertype \/ (a.pokertype = b.pokertype /\ a.hand > b.hand)

\* GetCompareResult, with the state and the timer its callers set: how many
\* base bets each wins or loses against the banker.
Add(g, p) ==
  LET b == g.gameplayer[g.banker]
      v == g.gameplayer[p]
  IN  IF BFCompare(v, b) THEN (v.betmoney \div g.basebet) * BullAdd[v.pokertype]
      ELSE -((v.betmoney \div g.basebet) * BullAdd[b.pokertype])

GetCompareResult(g) ==
  LET add  == [p \in Others(g) |-> Add(g, p)]
      t    == Post([g EXCEPT !.gameplayer = [p \in Playing(g) |->
                       [@[p] EXCEPT !.totaladd = IF p = g.banker THEN -SumFunction(add) ELSE add[p]]],
                    !.bankermoney = 0, !.state = "WAIT_SHOW_RESULT"],
                   {p \in Others(g) : ~BFCompare(g.gameplayer[p], g.gameplayer[g.banker])}, Event("notifyloser", 0))
  IN  AddTimer(Post(t, {g.banker}, Event("getbankermoney", 0)), "T_WAIT_SHOW_RESULT")

\* LoserGetResult: the loser is answered with what it loses, at most all it has.
LoserGetResult(g, m) ==
  IF m.uid \in Playing(g) /\ g.gameplayer[m.uid].winmoney = 0 /\ g.gameplayer[m.uid].totaladd < 0
  THEN LET lose == Min({m.money, -g.gameplayer[m.uid].totaladd * g.basebet})
       IN  Post([g EXCEPT !.gameplayer = [p \in Playing(g) |-> IF p = m.uid THEN [@[p] EXCEPT !.winmoney = -lose]
                                                       ELSE IF p = g.banker THEN [@[p] EXCEPT !.winmoney = @ + lose]
                                                       ELSE @[p]]],
                {m.uid}, Event("lost", lose))
  ELSE g

\* Mutant: the last loser is not waited for.
CanGetLastResultEarly(g) == g.bankermoney # 0

CanGetLastResult(g) ==
  g.bankermoney # 0 /\ \A p \in Others(g) : g.gameplayer[p].winmoney # 0 \/ g.gameplayer[p].totaladd >= 0

\* GetLastResult: the winners share what the banker has when that is not enough.
GetLastResult(g) ==
  LET due  == [p \in {q \in Others(g) : g.gameplayer[q].totaladd > 0} |-> g.gameplayer[p].totaladd * g.basebet]
      need == SumFunction(due)
      have == g.bankermoney + g.gameplayer[g.banker].winmoney
      pay  == [p \in DOMAIN due |-> IF have >= need THEN due[p] ELSE (due[p] * have) \div need]
      bank == g.gameplayer[g.banker].winmoney - SumFunction(pay)
      rest == g.bankermoney + bank
  IN  [g EXCEPT !.gameplayer = [p \in Playing(g) |-> IF p = g.banker THEN [@[p] EXCEPT !.winmoney = bank]
                                                     ELSE IF p \in DOMAIN pay THEN [@[p] EXCEPT !.winmoney = pay[p]]
                                                     ELSE @[p]],
                !.mail = [p \in Player |-> IF p = g.banker THEN Append(@[p], Event("addmoney", bank))
                                           ELSE IF p \in DOMAIN pay THEN Append(@[p], Event("addmoney", pay[p]))
                                           ELSE @[p]],
                !.bankermoney = rest, !.havegetresult = TRUE,
                !.needgrab = @ \/ rest < 30 * g.basebet,
                !.playcount = IF rest < 30 * g.basebet THEN 0 ELSE @]

Settle(g) == IF CanGetLastResult(g) THEN GetLastResult(g) ELSE g

\* ResertGame.
ResertGame(g) ==
  LET slow == {p \in g.players : p \in DOMAIN g.seater /\ g.seater[p] >= 2}
      told == Post(Post(g, slow, Event("kick", 1)), g.players \ slow, Event("kick", 0))
      grab == g.needgrab \/ g.playcount >= 3
  IN  UpdateGameconf(
        [RemoveTimer(told, TimerId) EXCEPT
           !.gameplayer = <<>>, !.havegetresult = FALSE, !.bankermoney = 0, !.topupling = 1, !.needgrab = grab,
           !.playcount = IF @ >= 3 THEN 0 ELSE @, !.banker = IF grab THEN 0 ELSE @])
-----------------------------------------------------------------------------
\* command[state]: what the table does with a message or a timer, as the set
\* of its outcomes.
WaitPlayer(g, m) ==
  IF m.type = "sit" /\ g.sitnum >= 2 /\ ~g.closing
  THEN {AddTimer(ChangeState(g, "WAIT_START_GAME"), "T_WAIT_START")} ELSE {g}

WaitStartGame(g, m) ==
  IF m.type = "T_WAIT_START" THEN CheckStartGame(AddPlayerToGame(g))
  ELSE IF m.type \in {"stand", "quit"} /\ g.sitnum < 2
       THEN {ChangeState(RemoveTimer(g, {"T_WAIT_START"}), "WAIT_PLAYER")}
  ELSE {g}

GrabTheBanker(g, m) ==
  IF m.type = "T_GRAB_BANKER" THEN NotifyTheGrab(g)
  ELSE IF m.type = "money" /\ m.uid \in Playing(g) THEN {[g EXCEPT !.gameplayer[m.uid] = [@ EXCEPT !.money = m.money]]}
  ELSE IF m.type = "grab" THEN AllHaveGrabed(SomeOneGrab(g, m))
  ELSE {g}

WaitBet(g, m) ==
  IF m.type = "T_BET" THEN DealPoker(BetForResPlayer(g))
  ELSE IF m.type = "T_WAIT_BET" THEN NotifyBet(g)
  ELSE IF m.type = "bet" THEN IF IsAllHaveBet(SomeOneBet(g, m)) THEN DealPoker(SomeOneBet(g, m)) ELSE {SomeOneBet(g, m)}
  ELSE {g}

Dealing(g, m) ==
  IF m.type = "T_DEAL_POKER" THEN {AddTimer(ChangeState(g, "CHOICE_POKER_TYPE"), "T_CHOICE_POKER")} ELSE {g}

ChoicePokerType(g, m) ==
  IF m.type = "T_CHOICE_POKER" THEN {GetCompareResult(ShowResPlayersCPType(g))}
  ELSE IF m.type = "show"
       THEN IF \A p \in Playing(g) : SomeOneChoicePoker(g, m).gameplayer[p].havechoice
            THEN {RemoveTimer(GetCompareResult(SomeOneChoicePoker(g, m)), {"T_CHOICE_POKER"})}
            ELSE {SomeOneChoicePoker(g, m)}
  ELSE {g}

WaitShowResult(g, m) ==
  IF m.type = "loser" THEN {Settle(LoserGetResult(g, m))}
  ELSE IF m.type = "bankermoney" THEN {Settle([g EXCEPT !.bankermoney = m.money])}
  ELSE IF m.type = "T_WAIT_SHOW_RESULT" THEN {AddTimer(ChangeState(g, "SHOW_RESULT"), "T_SHOW_RESULT")}
  ELSE {g}

ShowResult(g, m) ==
  IF m.type # "T_SHOW_RESULT" THEN {g}
  ELSE LET r == ResertGame(ChangeState(g, "WAIT_PLAYER"))
       IN  IF r.sitnum >= 2 /\ ~r.closing THEN {AddTimer(ChangeState(r, "WAIT_START_GAME"), "T_WAIT_START")} ELSE {r}

Command(g, m) ==
  CASE g.state = "WAIT_PLAYER"       -> WaitPlayer(g, m)
    [] g.state = "WAIT_START_GAME"   -> WaitStartGame(g, m)
    [] g.state = "GRAB_THE_BANKER"   -> GrabTheBanker(g, m)
    [] g.state = "WAIT_BET"          -> WaitBet(g, m)
    [] g.state = "DEAL_POKER"        -> Dealing(g, m)
    [] g.state = "CHOICE_POKER_TYPE" -> ChoicePokerType(g, m)
    [] g.state = "WAIT_SHOW_RESULT"  -> WaitShowResult(g, m)
    [] g.state = "SHOW_RESULT"       -> ShowResult(g, m)

\* A player who is not in a running match leaves the seat, or the room.
LeaveSeat(g, p, quits) ==
  LET seated == p \in DOMAIN g.seater
      num    == IF seated THEN g.sitnum - 1 ELSE g.sitnum
      ends   == seated /\ (p = g.banker \/ num < 2)
  IN  Post([g EXCEPT !.seater = Drop(@, p), !.sitnum = num, !.gameplayer = Drop(@, p),
                     !.players = IF quits THEN @ \ {p} ELSE @,
                     !.banker = IF ends THEN 0 ELSE @, !.playcount = IF ends THEN 0 ELSE @,
                     !.needgrab = @ \/ ends], {p}, Event("left", 0))

\* PlayerTryStand and PlayerTryQuit.
PlayerTry(g, p, quits) ==
  IF p \in Playing(g) /\ IsGameStart(g) THEN Post(g, {p}, Event("left", 1))
  ELSE LeaveSeat(g, p, quits)

Pretreat(g, m) ==
  CASE m.type = "enter" -> [g EXCEPT !.players = @ \cup {m.uid}]
    [] m.type = "sit"   -> [g EXCEPT !.sitnum = IF m.uid \in DOMAIN g.seater THEN @ ELSE @ + 1, !.seater = Put(@, m.uid, 0)]
    [] m.type = "stand" -> PlayerTry(g, m.uid, FALSE)
    [] m.type = "quit"  -> PlayerTry(g, m.uid, TRUE)
    [] OTHER            -> g

\* The dispatch function of the protocol "game".
Dispatch(p) ==
  /\ inbox[p] # <<>>
  /\ inbox' = [inbox EXCEPT ![p] = Tail(@)]
  /\ \E g \in {Pretreat(game, Head(inbox[p]))} : game' \in Command(g, Head(inbox[p]))
  /\ UNCHANGED <<agent, shut, fees, cut, left>>

\* TimerCB, as timer.lua calls it.
TimerCB(t) ==
  \E a \in {x \in game.armed : x.id = t} :
    /\ \E g \in {[game EXCEPT !.armed = @ \ {a}]} :
         IF a.session = game.session[t] THEN game' \in Command(g, [type |-> t, uid |-> 0]) ELSE game' = g
    /\ IF t = "T_WAIT_START" /\ a.session = game.session[t] THEN Use("match") ELSE UNCHANGED left
    /\ cut' = (cut \/ (t = "T_WAIT_SHOW_RESULT" /\ a.session = game.session[t] /\ ~game.havegetresult))
    /\ shut' = (shut \/ (t = "T_SHOW_RESULT" /\ a.session = game.session[t] /\ game.closing))
    /\ UNCHANGED <<agent, inbox, fees>>

\* SERVER_CLOSE.
ServerClose ==
  /\ Use("close")
  /\ game' = [game EXCEPT !.closing = TRUE]
  /\ shut' = (shut \/ ~IsGameStart(game))
  /\ UNCHANGED <<agent, inbox, fees, cut>>

\* UPDATE_GAME.
NeedUpdateGameconf ==
  /\ Use("update")
  /\ game' = IF IsGameStart(game) THEN [game EXCEPT !.updateconf = BaseBets[2]]
             ELSE UpdateGameconf([game EXCEPT !.updateconf = BaseBets[2]])
  /\ UNCHANGED <<agent, inbox, shut, fees, cut>>
-----------------------------------------------------------------------------
Send(p, t, v, money) == inbox' = [inbox EXCEPT ![p] = Append(@, [type |-> t, uid |-> p, value |-> v, money |-> money])]

\* What the client of a player asks for.  The players come in the order of
\* their numbers.
EnterRoom(p) ==
  /\ Use("enter") /\ ~agent[p].here /\ ~agent[p].lock /\ \A q \in Player : q < p => agent[q].here
  /\ agent' = [agent EXCEPT ![p].here = TRUE]
  /\ Send(p, "enter", 0, 0)
  /\ UNCHANGED <<game, shut, fees, cut>>

Sit(p) ==
  /\ Use("sit") /\ agent[p].here /\ ~agent[p].seated /\ ~agent[p].lock /\ agent[p].money >= MinMoney
  /\ agent' = [agent EXCEPT ![p].seated = TRUE]
  /\ Send(p, "sit", 0, 0)
  /\ UNCHANGED <<game, shut, fees, cut>>

\* The agent asks the game whether the player may leave, and waits.
Leave(p, how, call) ==
  /\ agent' = [agent EXCEPT ![p] = [@ EXCEPT !.lock = TRUE, !.call = call]]
  /\ Send(p, how, 0, 0)

TryStand(p) ==
  /\ Use("stand") /\ agent[p].seated /\ ~agent[p].lock /\ agent[p].connected
  /\ Leave(p, "stand", "block")
  /\ UNCHANGED <<game, shut, fees, cut>>

TryQuit(p) ==
  /\ Use("quit") /\ agent[p].here /\ ~agent[p].lock /\ agent[p].connected
  /\ Leave(p, "quit", "blockquit")
  /\ UNCHANGED <<game, shut, fees, cut>>

\* peer_close and Exit: a player in a match stays until its end.
PeerClose(p) ==
  /\ Use("drop") /\ agent[p].here /\ agent[p].connected
  /\ IF agent[p].lock THEN agent' = [agent EXCEPT ![p].connected = FALSE] /\ UNCHANGED inbox
     ELSE /\ agent' = [agent EXCEPT ![p] = [@ EXCEPT !.connected = FALSE, !.lock = TRUE, !.call = "blockquit"]]
          /\ Send(p, "quit", 0, 0)
  /\ UNCHANGED <<game, shut, fees, cut>>

\* A seated player plays when the table says so; the table may be further
\* when it gets the message.
Acts(p, state) ==
  /\ agent[p].seated /\ agent[p].connected /\ agent[p].call = "none" /\ game.state = state /\ inbox[p] = <<>>

GrabBanker(p) ==
  /\ Use("grab") /\ Acts(p, "GRAB_THE_BANKER")
  /\ \E sign \in {1, 2} : Send(p, "grab", sign, agent[p].money)
  /\ UNCHANGED <<game, agent, shut, fees, cut>>

BetMoney(p) ==
  /\ Use("bet") /\ Acts(p, "WAIT_BET")
  /\ \E b \in Bet : b >= game.basebet /\ b <= (agent[p].money * 10) \div 13 /\ Send(p, "bet", b, 0)
  /\ UNCHANGED <<game, agent, shut, fees, cut>>

BFChoicePokerType(p) ==
  /\ Use("show") /\ Acts(p, "CHOICE_POKER_TYPE")
  /\ \E t \in {0} \cup IF p \in Playing(game) THEN {game.gameplayer[p].pokertype} ELSE {} : Send(p, "show", t, 0)
  /\ UNCHANGED <<game, agent, shut, fees, cut>>

\* LoseMoney: what the player does not have is not taken.
LoseMoney(a, v) == IF v > a.money THEN a ELSE [a EXCEPT !.money = @ - v]

SendFace(p) ==
  /\ Use("face") /\ agent[p].seated /\ ~agent[p].lockmoney /\ agent[p].call \in {"none", "call"}
  /\ 1 < agent[p].money - MinMoney
  /\ agent' = [agent EXCEPT ![p] = LoseMoney(@, 1)]
  /\ fees' = fees + 1
  /\ UNCHANGED <<game, inbox, shut, cut>>

\* KickForGameOver; the rooms are those without protection from being broke.
\* Who has lost too much in the room or in a day, or has too much for it, is
\* anybody.
KickForGameOver(p, bekicked) ==
  IF agent[p].lock THEN UNCHANGED <<agent, inbox>>
  ELSE IF ~agent[p].connected THEN Leave(p, "quit", "blockquit")
  ELSE IF agent[p].seated /\ (bekicked \/ agent[p].money < MinMoney) THEN Leave(p, "stand", "call")
  ELSE \/ UNCHANGED <<agent, inbox>>
       \/ May("limit") /\ agent[p].seated /\ Leave(p, "stand", "call")

\* The answer to TryStand, TryQuit, Exit or KickForGameOver.
Left(p, refused) ==
  agent' = [agent EXCEPT ![p] = [@ EXCEPT !.lock = FALSE, !.call = "none",
                                          !.seated = @ /\ refused,
                                          !.here = @ /\ (refused \/ agent[p].call # "blockquit")]]

\* A message of the game to an agent.  While the agent blocks, only the
\* answer it waits for gets through.
Handle(p, m) ==
  CASE m.type = "takefee"        -> /\ agent' = [agent EXCEPT ![p] = LoseMoney(@, m.value)]
                                    /\ fees' = IF m.value > agent[p].money THEN fees ELSE fees + m.value
                                    /\ UNCHANGED inbox
    [] m.type = "getmoney"       -> Send(p, "money", 0, agent[p].money) /\ UNCHANGED <<agent, fees>>
    [] m.type = "getbankermoney" -> Send(p, "bankermoney", 0, agent[p].money) /\ UNCHANGED <<agent, fees>>
    [] m.type = "notifyloser"    -> /\ agent' = [agent EXCEPT ![p].lockmoney = TRUE]
                                    /\ Send(p, "loser", 0, agent[p].money) /\ UNCHANGED fees
    [] m.type = "lost"           -> /\ agent' = [agent EXCEPT ![p] = [LoseMoney(@, m.value) EXCEPT !.lockmoney = FALSE]]
                                    /\ UNCHANGED <<inbox, fees>>
    [] m.type = "addmoney"       -> agent' = [agent EXCEPT ![p].money = @ + m.value] /\ UNCHANGED <<inbox, fees>>
    [] m.type = "kick"           -> KickForGameOver(p, m.value = 1) /\ UNCHANGED fees
    [] m.type = "left"           -> Left(p, m.value = 1) /\ UNCHANGED <<inbox, fees>>

Agent(p) ==
  \E i \in DOMAIN game.mail[p] :
    /\ IF agent[p].call \in {"block", "blockquit"} THEN game.mail[p][i].type = "left" ELSE i = 1
    /\ game' = [game EXCEPT !.mail[p] = SubSeq(@, 1, i - 1) \o SubSeq(@, i + 1, Len(@))]
    /\ Handle(p, game.mail[p][i])
    /\ UNCHANGED <<shut, cut, left>>

Client(p) == EnterRoom(p) \/ Sit(p) \/ TryStand(p) \/ TryQuit(p) \/ PeerClose(p) \/ GrabBanker(p) \/ BetMoney(p)
             \/ BFChoicePokerType(p) \/ SendFace(p)

BullfightNext ==
  \/ \E p \in Player : Dispatch(p) \/ Agent(p) \/ Client(p)
  \/ \E t \in TimerId : TimerCB(t)
  \/ ServerClose \/ NeedUpdateGameconf

BullfightFairness ==
  /\ \A p \in Player : WF_bullfightVars(Dispatch(p)) /\ WF_bullfightVars(Agent(p))
  /\ \A t \in TimerId : WF_bullfightVars(TimerCB(t))
-----------------------------------------------------------------------------
Sum(f) == SumFunction(f)

\* The value of the messages of type t on their way to the agents.
InMail(t) == Sum([p \in Player |-> Sum([i \in DOMAIN game.mail[p] |->
                                         IF game.mail[p][i].type = t THEN game.mail[p][i].value ELSE 0])])

\* No money appears or vanishes at the table: what the players have, what is
\* on its way to or from them, what the losers of a match paid and the
\* winners did not get yet, and the fees are what they came with, however
\* the answers of the agents interleave (bfgame.lua, LoserGetResult,
\* CanGetLastResult, GetLastResult), unless the timer of the result ended a
\* match before all its answers were there.
MoneyConserved ==
  ~cut => Sum([p \in Player |-> agent[p].money]) + InMail("addmoney") - InMail("lost") + fees
          + (IF game.state = "WAIT_SHOW_RESULT" /\ ~game.havegetresult THEN game.gameplayer[game.banker].winmoney ELSE 0)
          = Sum(Purse)

\* A match has its banker: from the bets to the result the banker plays, who
\* plays is seated and in the room, and the seats are counted, whoever sits,
\* stands or leaves at any moment (bfgame.lua, PlayerTryStand,
\* PlayerTryQuit; the handlers index gameplayer and players without a test).
BankerPlays ==
  /\ game.state \in {"WAIT_BET", "DEAL_POKER", "CHOICE_POKER_TYPE", "WAIT_SHOW_RESULT"} => game.banker \in Playing(game)
  /\ IsGameStart(game) => /\ Playing(game) \subseteq DOMAIN game.seater
                          /\ Playing(game) \subseteq game.players
                          /\ Cardinality(Playing(game)) >= 2
  /\ game.sitnum = Cardinality(DOMAIN game.seater)
  /\ ~game.needgrab => game.banker \in DOMAIN game.seater

\* A match ends, although no player does anything, and a server that closes
\* tells the center when its match is over (bfgame.lua, AddTimer in every
\* state of a match; SERVER_CLOSE).
MatchEnds ==
  /\ []<>~IsGameStart(game)
  /\ []<>(game.closing => shut)
=============================================================================
