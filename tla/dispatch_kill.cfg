CONSTANTS
  Handle = {h1, h2}
  Boot = {h1}
  Lua = {h1}
  Worker = {w1, w2}
  Timer = {tm}
  Monitor = {mo}
  NoHandle = NoHandle
  Limit <- LimitKill
SPECIFICATION Spec
SYMMETRY WorkerSymmetry
INVARIANTS MutualExclusion RefCount NoLostWakeup SchedulerSound FifoPerSender
CHECK_DEADLOCK FALSE
