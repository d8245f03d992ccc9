CONSTANTS
  Mixes <- GameMixes
  Void = Void
  Player = {1, 2, 3}
  Purse <- GamePurse
  Hand = {1, 2}
  BullType <- GameBullType
  BullAdd <- GameBullAdd
  Upling = {1, 3, 5, 7, 10}
  Bet = {3}
  BaseBets <- GameBets
  PlayerFee = 1
  BankerFee = 2
  MinMoney = 20
  Decks <- GameDecks
  MatchCards <- GameMatchCards
  Low = {1, 3, 10}
  Third = {1, 12}
  Suits <- GameSuits
  Uid = {1, 2}
  RoomIds <- GameRooms
  SeatNum = 2
  MaxUser = 2
  RoomType <- GameType
  Basebet <- GameBasebet
  RoomMinMoney <- GameMin
  MaxMoney <- GameMax
  Money <- GameMoney
  ProtectMoney = 10
  Brackets <- GameBrackets
  Base = 4
  MaxCookie = 5
  BlockSize = 6
  MaxDepth = 3
  PointerSize = 4
  Values <- GameValues
  MaxValues = 2
SPECIFICATION Spec
INVARIANTS MoneyRight CardsRight RoundTrip SeatsRight
CHECK_DEADLOCK FALSE
