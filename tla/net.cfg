CONSTANTS
  Mixes <- NetMixes
  Void = Void
  Member = {1, 2, 3}
  GroupId = {g1}
  CastMessage = {m1, m2}
  MaxInst = 2
  Gid = {1, 2}
  HarborId = {1, 2, 3}
  GlobalName = {n}
  Remote = {1, 2, 3}
  RingSize = 32
  BlockHeader = 4
  Alignment = 2
  Nil = Nil
  MaxConnection = 2
  Cap = 2
  Client = {1, 2, 3}
  ReadBlock = 4
  Base = 2
  PolicySize = 3
  FrameLengths <- NetFrames
  WriteRoom = 4
  Agents = {7}
  HeaderSize = {2, 4}
  MaxBlock = 5
  MaxPush = 4
  Separator <- NetSeparator
  User = {u1, u2}
  Pieces <- NetPieces
  Coroutine = {1, 2, 3}
SPECIFICATION Spec
INVARIANTS CopiesRight TunnelsRight HarborRight GateRight StreamRight RepliesRight SessionsRight
PROPERTY GroupCombined
CHECK_DEADLOCK FALSE
