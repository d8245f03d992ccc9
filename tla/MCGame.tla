-------------------------------- MODULE MCGame --------------------------------
(***************************************************************************)
(* The game, for TLC: a match of the bull fight, the cards, the rooms, and *)
(* the serializer that carries the calls between their services.  As in    *)
(* MCHall a behaviour follows the part its mix names.                      *)
(***************************************************************************)
EXTENDS Common, Sequences, TLC

CONSTANTS
    Player, Purse, Hand, BullType, BullAdd, Upling, Bet, BaseBets, PlayerFee, BankerFee,
    MinMoney,                                         \* BullfightGame
    Decks, MatchCards, Low, Third, Suits,             \* Poker
    Uid, RoomIds, SeatNum, MaxUser, RoomType, Basebet, RoomMinMoney, MaxMoney, Money,
    ProtectMoney, Brackets,                           \* Room
    Base, MaxCookie, BlockSize, MaxDepth, PointerSize, Values, MaxValues    \* Serial

VARIABLES
    game, agent, inbox, shut, fees, cut,
    deck, hand, best, played, parts, cards,
    rooms, open, agents, requests, roomInbox, waiting, astray,
    args

bullfightVars == <<game, agent, inbox, shut, fees, cut>>
pokerVars     == <<deck, hand, best, played, parts, cards>>
roomVars      == <<rooms, open, agents, requests, roomInbox, waiting, astray>>
serialVars    == <<args>>

Match  == INSTANCE BullfightGame
Cards  == INSTANCE Poker
Rooms  == INSTANCE Room WITH MinMoney <- RoomMinMoney, inbox <- roomInbox
Packed == INSTANCE Serial

(* The mixes name the part they are for.                                   *)
Of(part, mixes) == {(part :> 1) @@ mix : mix \in mixes}

GameMixes ==
    Of("BullfightGame", {
        [enter |-> 3, sit |-> 3, match |-> 1],
        [enter |-> 2, sit |-> 2, match |-> 2],
        [enter |-> 2, sit |-> 2, match |-> 1, grab |-> 2],
        [enter |-> 2, sit |-> 2, match |-> 1, bet |-> 1],
        [enter |-> 2, sit |-> 2, match |-> 1, show |-> 1],
        [enter |-> 2, sit |-> 2, match |-> 1, face |-> 1],
        [enter |-> 2, sit |-> 2, match |-> 1, face |-> 1, limit |-> 1],
        [enter |-> 2, sit |-> 3, match |-> 1, stand |-> 1],
        [enter |-> 2, sit |-> 2, match |-> 1, quit |-> 1],
        [enter |-> 2, sit |-> 2, match |-> 1, drop |-> 1],
        [enter |-> 2, sit |-> 2, match |-> 0, drop |-> 1, stand |-> 1],
        [enter |-> 2, sit |-> 2, match |-> 1, close |-> 1, update |-> 1]}) \cup
    Of("Poker", {[card |-> 5], [match |-> 2], [part |-> 3]}) \cup
    Of("Room", {
        [enter |-> 3, sit |-> 2, stand |-> 1, quit |-> 1],
        [fast |-> 2, stand |-> 1, change |-> 1],
        [fast |-> 2, quit |-> 1, change |-> 1],
        [enter |-> 1, fast |-> 1, sit |-> 1, kick |-> 2],
        [enter |-> 2, sit |-> 1, close |-> 1, kick |-> 1, login |-> 1],
        [enter |-> 1, change |-> 1, close |-> 1, login |-> 1, fast |-> 1],
        [fast |-> 2, close |-> 1, change |-> 1],
        [enter |-> 1, over |-> 1, sit |-> 1, fast |-> 1],
        [enter |-> 1, fast |-> 1, update |-> 1, sit |-> 1, change |-> 1],
        [enter |-> 2, sit |-> 2, kick |-> 1, quit |-> 2],
        [enter |-> 1, sit |-> 2, kick |-> 1, quit |-> 1, stand |-> 1],
        [fast |-> 2, kick |-> 1, stand |-> 1, quit |-> 1],
        [fast |-> 1, kick |-> 2, change |-> 1],
        [fast |-> 1, update |-> 3, quit |-> 1]}) \cup
    Of("Serial", {[pack |-> 2]})

-----------------------------------------------------------------------------
Part(p) == p \in DOMAIN left

(* A part that rests has one initial state.                                *)
Init ==
    /\ MixInit
    /\ Match!BullfightInit /\ Cards!PokerInit /\ Rooms!RoomInit /\ Packed!SerialInit
    /\ "card" \in DOMAIN left \/ deck = {}

Next ==
    \/ Part("BullfightGame") /\ Match!BullfightNext
       /\ UNCHANGED <<pokerVars, roomVars, serialVars>>
    \/ Part("Poker") /\ Cards!PokerNext
       /\ UNCHANGED <<bullfightVars, roomVars, serialVars>>
    \/ Part("Room") /\ Rooms!RoomNext
       /\ UNCHANGED <<bullfightVars, pokerVars, serialVars>>
    \/ Part("Serial") /\ Packed!SerialNext
       /\ UNCHANGED <<bullfightVars, pokerVars, roomVars>>

vars == <<bullfightVars, pokerVars, roomVars, serialVars, left>>

Spec == Init /\ [][Next]_vars

-----------------------------------------------------------------------------
(* The constants.  Ten and fourteen stand for the other types of hands     *)
(* that count more.                                                        *)
GamePurse    == <<40, 22, 33>>
GameBullType == <<0, 14>>
GameBullAdd  == 0 :> 1 @@ 14 :> 10
GameBets     == <<1, 2>>

(* Cards p, q, ... of the suits.                                           *)
Suited(points, suits) == {[point |-> p, suit |-> s] : p \in points, s \in suits}

GameDecks == {
    {},
    Suited({3, 7}, 1 .. 4) \cup Suited({13}, {4}) \cup Suited({2}, {1}),
    Suited(10 .. 13, {1, 2}) \cup Suited({14}, {2}) \cup Suited({2}, {1}),
    Suited({14, 2, 3, 4, 5, 6}, {1}) \cup Suited({14, 2, 6, 9}, {2})}
GameMatchCards == Suited({3}, 1 .. 4) \cup Suited({7}, {1, 4}) \cup Suited({10}, {3}) \cup Suited({14}, {2})
GameSuits      == <<{1}, {2}, {3}>>

GameRooms    == <<1, 2, 3>>
GameType     == <<1, 1, 2>>
GameBasebet  == <<10, 10, 20>>
GameMin      == <<5, 5, 50>>
GameMax      == <<100, 100, 300>>
GameMoney    == <<120, 2>>
GameBrackets == 10 :> <<0, 60>> @@ 20 :> <<60, 1000>>

(* Every kind of value, every width of numbers and strings, and tables of  *)
(* every head and depth, one of them too deep.                             *)
NilValue    == [type |-> "nil"]
Number(n)   == [type |-> "number", v |-> n]
Boolean(b)  == [type |-> "boolean", v |-> b]
Double(d)   == [type |-> "double", v |-> d]
String(n)   == [type |-> "string", v |-> [i \in 1 .. n |-> <<"c", i>>]]
Remote(h)   == [type |-> "remote", v |-> h]
Table(a, h) == [type |-> "table", array |-> a, hash |-> h]
Empty       == Table(<<>>, <<>>)
Within(v)   == Table(<<v>>, <<>>)

GameValues ==
    {NilValue, Double("pi"), [type |-> "userdata", v |-> "p"], [type |-> "function"]} \cup
    {Boolean(b) : b \in BOOLEAN} \cup {Number(n) : n \in {-128, -17, -16, -1, 63, 64, 127} \cup 0 .. 20} \cup
    {String(n) : n \in 0 .. 20} \cup {Remote(h) : h \in {0, 5, 100}} \cup
    {Table([i \in 1 .. n |-> Number(i)], <<>>) : n \in 0 .. 6} \cup
    {Table(<<Number(1), NilValue, Number(-3)>>,
           <<<<Number(9), Boolean(FALSE)>>, <<String(5), Double("e")>>>>),
     Table(<<>>, <<<<Number(0), Within(String(2))>>, <<Double("k"), NilValue>>>>),
     Within(Within(Within(Number(1)))),
     Table(<<>>, <<<<String(1), Within(Within(Empty))>>>>),
     Within(Table(<<Empty, [type |-> "function"]>>, <<>>))}

-----------------------------------------------------------------------------
(* bfgame.lua and agent.lua: a match moves money between the players and   *)
(* to the house, whoever leaves and whatever comes late, and has a banker  *)
(* who plays (MoneyConserved and BankerPlays of BullfightGame).            *)
MoneyRight == Part("BullfightGame") => Match!MoneyConserved /\ Match!BankerPlays

(* poker.lua and agent.lua: hands get the types of the game, of two hands  *)
(* one wins, the best hand is kept, and hands of thirteen cards are taken  *)
(* apart rightly (BullTypeAgrees, OneHandWins, BestKept, FiveCardsCompare, *)
(* RunsFound and ArrangementsRight of Poker).                              *)
CardsRight ==
    Part("Poker") =>
        /\ Cards!BullTypeAgrees /\ Cards!OneHandWins /\ Cards!BestKept
        /\ Cards!FiveCardsCompare /\ Cards!RunsFound /\ Cards!ArrangementsRight

(* lua-seri.c: what is packed is what is unpacked (RoundTrip of Serial).   *)
RoundTrip == Part("Serial") => Packed!RoundTrip

(* room.lua and agent.lua: the tables of a room agree with one another     *)
(* and with the players' agents (SeatsCounted and SeatsAgree of Room).     *)
SeatsRight == Part("Room") => Rooms!SeatsCounted /\ Rooms!SeatsAgree
=============================================================================
