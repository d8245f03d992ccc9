CONSTANTS
  Handle = {h1, h2}
  Boot = {h1, h2}
  Lua = {h1}
  Worker = {w1, w2}
  Timer = {tm}
  Monitor = {mo}
  NoHandle = NoHandle
  Limit <- LimitLive
SPECIFICATION FairSpec
PROPERTIES EventuallyServed EventuallyFreed
CHECK_DEADLOCK FALSE
