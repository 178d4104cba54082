SPECIFICATION Spec
CONSTANTS
  MemoryMaps <- MCMemoryMaps
  ByteBits = 4
  PageSize = 2
  LowPages = 1
  SizeModulus = 64
  MaxCount = 3
PROPERTIES
  NullOnlyWhenOutOfPages
