CONSTANTS
  Mixes <- HallMixes
  Void = Void
  Session = {1, 2, 3}
  Ptype <- HallPtype
  Account = {1, 2}
  Person = {1, 2, 3, 4, 5}
  Robot = {5}
  Girls <- HallGirls
  MaxList = 3
  MaxGirls = 2
  Reporter = {r1, r2, r3}
  TopSize = 2
  LastSize = 1
  Result <- HallResult
  Platform = {1, 2}
  Stake = {1, 2}
  Payment = {1, 3}
  Learner = {1, 2}
  Threshold <- HallThreshold
  Score <- HallScore
  Password = {"p", "q"}
  Secret = {"s", "t"}
  Player = {"p1", "p2"}
  Purse <- HallPurse
  NoBox = NoBox
  BoxMax <- HallBoxMax
  Amount = {1, 2}
  Gift = 2
  MinGift = 3
  Fee = 1
  Packet = 2
  Price = 2
  Worth = 3
  Week = 4
  Orders <- HallOrders
  Counts = {1, 2}
  Goods <- HallGoods
  FaceCard = "face"
  Day = 2
  MaxDayLogin = 1
  MaxTime = 7
  Count <- HallCount
  Once = {"learn_course"}
  Times <- HallTimes
  PacketTime = 2
  PlayAt = 2
  HonorAt = 2
  DayLength = 4
  MonthLength = 2
  LastTime = 8
  MaxNum = 2
  LogSize = 3
  LogNum = 3
SPECIFICATION Spec
INVARIANTS LoginRight PresenceRight  RecordsRight  ShopRight TasksRight
CHECK_DEADLOCK FALSE
