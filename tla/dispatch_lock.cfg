CONSTANTS
  Handle = {h1, h2}
  Boot = {h1, h2}
  Lua = {h1}
  Worker = {w1, w2}
  Timer = {tm}
  Monitor = {mo}
  NoHandle = NoHandle
  Limit <- LimitLock
SPECIFICATION Spec
SYMMETRY WorkerSymmetry
INVARIANT LockedWaits
PROPERTY ImplementsMailboxes
CHECK_DEADLOCK FALSE
