CONSTANTS
  Nobody = Nobody
  Coroutine <- MCCoroutine
  Programs <- MCMixed
  MaxBytes = 3
  MaxRoom = 1
  MaxFaults = 0
  ReadSize = 2
  WriteSize = 1
  FrameSize = 1
  Frames = 2
  kInlineTransitionCap = 8
  InlineN = 5
SPECIFICATION Spec
PROPERTY RegisteredIsServed
CHECK_DEADLOCK FALSE
