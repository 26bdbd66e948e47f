CONSTANTS
  Nobody = Nobody
  Coroutine <- MCCoroutine
  Programs <- MCReceive
  MaxBytes = 3
  MaxRoom = 1
  Pool = 2
  BufferSize = 2
  MaxFaults = 1
  Tokens = 4
  ReadSize = 2
  WriteSize = 1
  FrameSize = 1
  Frames = 2
  kInlineTransitionCap = 8
  InlineN = 5
SPECIFICATION Spec

PROPERTY EndedRecvIsRearmed
CHECK_DEADLOCK FALSE
