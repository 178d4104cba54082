SPECIFICATION Spec
CONSTANTS
  Columns = 3
  Lines = 3
INVARIANTS
  TypeOK
  OvershootsByOneAtMost
  IdleCursorOnALine
  OverflowNeedsPreemption
PROPERTIES
  UndisturbedPrintIsAtomic
