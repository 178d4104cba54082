SPECIFICATION FairSpec
CONSTANTS
  FirmwareConfigs <- MCFirmwareConfigs
  FirmwareMasks <- MCFirmwareMasks
  KeyCodes <- MCKeyCodes
  MouseBytes <- MCMouseBytes
  Timeout = 2
  KeyboardBuffer = 1
INVARIANTS
  TypeOK
  HandlerMatchesInService
  NoLostWakeup
  ConfigIsFirmwares
PROPERTIES
  SurplusNeverGrows
  StartUpEnds
  InputIsRead
