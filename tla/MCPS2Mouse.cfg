SPECIFICATION FairSpec
CONSTANTS
  Reports <- MCReports
  KeyCodes <- MCKeyCodes
  Width = 9
  Height = 16
  UintModulus = 65536
  PacketNumbers = 3
INVARIANTS
  TypeOK
  PacketBytesConsecutive
  PacketIsTheReport
  MixesAtMostTwoPackets
  DotOnScreen
PROPERTIES
  PendingPacketTaken
