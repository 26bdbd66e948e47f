CONSTANTS
  Nobody = Nobody
  Coroutine <- MCCoroutine
  Programs <- MCPrograms
  MaxBytes = 2
  MaxRoom = 1
  MaxFaults = 1
  ReadSize = 2
  WriteSize = 1
  FrameSize = 1
  Frames = 2
  kInlineTransitionCap = 8
  InlineN = 5
SPECIFICATION Spec
INVARIANTS WokenWithOutcome
PROPERTIES KeepsSlotProtocol ReadyIsServed IsByteStream
CHECK_DEADLOCK FALSE
