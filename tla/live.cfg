CONSTANTS
  Mixes <- LiveMixes
  Void = Void
  Thread = {t1, t2, t3}
  Queue = {q1, q2}
  Boot = {q1}
  Worker = {w1, w2}
  None = None
  MAX_GLOBAL_MQ = 3
  WIDTH = 6
  Caller = {1, 2, 3}
  Unique = {"u"}
  Database = {"d", "x"}
  Known = {"d"}
  Player = {1, 2, 3}
  Purse <- LivePurse
  Hand = {1, 2}
  BullType <- LiveBullType
  BullAdd <- LiveBullAdd
  Upling = {1, 3, 5, 7, 10}
  Bet = {3}
  BaseBets <- LiveBets
  PlayerFee = 1
  BankerFee = 2
  MinMoney = 20
SPECIFICATION LiveSpec
INVARIANT Exclusion
PROPERTIES ImplementsFifo EventuallyPopped WriterGetsIn QueriesReturn MatchEnds
CHECK_DEADLOCK FALSE
