SPECIFICATION MemorySpec
CONSTANTS
  MemoryMaps <- MCMemoryMaps
  FrameBuffers <- MCFrameBuffers
  ByteBits = 8
  PageSize = 2
  LowPages = 4
  SizeModulus = 64
  MaxCount = 0
  Fanout = 4
  KernelBytes = 5
  WordBytes = 8
CHECK_DEADLOCK FALSE
INVARIANTS
  AnswersAreAllocated
