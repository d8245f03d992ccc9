CONSTANTS
  Handle = {h1, h2}
  Boot = {h1, h2}
  Lua = {h1, h2}
  Worker = {w1, w2}
  Timer = {tm}
  Monitor = {mo}
  NoHandle = NoHandle
  Limit <- LimitUnlock
SPECIFICATION Spec
PROPERTY UnlockedByResponse
CHECK_DEADLOCK FALSE
