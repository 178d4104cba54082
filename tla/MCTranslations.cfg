SPECIFICATION Spec
CONSTANTS
  BeyondTable <- MCBeyondTable
  OtherCodes <- MCOtherCodes
  ExtendedCodes <- MCExtendedCodes
  MaxUnderWay = 2
  Width = 8
  IntegerValues <- MCIntegerValues
  HexValues <- MCHexValues
  Unit = 256
  DecimalValues <- MCDecimalValues
  IntLimit = 10
  Precisions = {0, 1, 3, 5}
  PrecisionCap = 4
  Literals <- MCLiterals
  Counts = {0, 1, 4, 20, 127, 128, 300}
  MaxCalls = 2
INVARIANTS FlagsFollowKeys LettersKeepTheirCase EchoHasAGlyph TextSaysTheValue PaddedToItsWidth
CHECK_DEADLOCK FALSE
