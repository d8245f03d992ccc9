CONSTANTS
  Mixes <- TimerMix
  Void = Void
  Message = {m1, m2}
  Garbage = Garbage
  DEFAULT_QUEUE_SIZE = 2
  MaxCap = 8
  Context = {c1, c2, c3}
  Thread = {t1, t2}
  Name = {1, 2, 3, 4}
  NULL = NULL
  HANDLE_MASK = 3
  DEFAULT_SLOT_SIZE = 2
  Handles = {0}
  Node = {n1, n2}
  TIME_NEAR = 2
  TIME_LEVEL = 2
  Timeouts = {1, 2, 3, 5, 9, 16}
  MaxTick = 33
  MaxDue = 31
  Loader = {1, 2, 3}
  ModuleName = {"a", "b", "c", "d", "e"}
  NoFile = {"d"}
  NoSymbols = {"c"}
  MaxModule = 2
  Key = {"k", "l"}
  Setting = {"v", "w"}
  Actor = {1, 2, 3}
  NamedActor = {1}
  Mute = {3}
  MaxBuffers = 4
SPECIFICATION TimerSpec
INVARIANT TimeRewinds
CHECK_DEADLOCK FALSE
