CONSTANTS
  Mixes <- NodeMixes
  Void = Void
  Message = {m1, m2}
  Garbage = Garbage
  DEFAULT_QUEUE_SIZE = 2
  MaxCap = 8
  Context = {c1, c2, c3}
  Thread = {t1, t2, t3}
  Name = {1, 2, 3, 4}
  NULL = NULL
  HANDLE_MASK = 3
  DEFAULT_SLOT_SIZE = 2
  Handles = {0}
  Node = {n1, n2}
  TIME_NEAR = 2
  TIME_LEVEL = 3
  Timeouts <- SomeTimeouts
  MaxTick <- HighestLevel
  MaxDue <- HighestLevel
  Loader = {1, 2, 3}
  ModuleName = {"a", "b", "c", "d", "e"}
  NoFile = {"d"}
  NoSymbols = {"c"}
  MaxModule = 2
  Key = {"k", "l"}
  Setting = {"v", "w"}
  Actor = {1, 2, 3}
  NamedActor = {1}
  Mute = {3}
  MaxBuffers = 4
SPECIFICATION NodeSpec
INVARIANTS HandlesRight TimeoutsRight ModulesRight PayloadRight
PROPERTIES ImplementsDeque NamesKept
SYMMETRY StorageSymmetry
CHECK_DEADLOCK FALSE
