--------------------------- MODULE PS2MouseProofs ---------------------------
(***************************************************************************)
(* Theorems about PS2Mouse, for every set of reports, every screen and     *)
(* every width of the coordinates its assumptions admit.  The inductive    *)
(* invariant IInv says, byte by byte, how the packet being assembled       *)
(* stands to the report under way and to the packet the main loop reads.   *)
(***************************************************************************)
EXTENDS PS2Mouse, TLAPS

\* In the middle of a packet the last byte was stored.
Follows ==
  ~IsMousePacketReady /\ MousePacketIndex > 0 => dropped = FALSE

\* In step, the bytes assembled are those of the report under way.
AssembledIsReport ==
  inStep /\ ~IsMousePacketReady =>
    \A i \in Slot : i <= MousePacketIndex => MousePacket[i] = report[i]

\* The bytes assembled belong to one packet.
OnePacket ==
  \A i \in Slot : IsMousePacketReady \/ i <= MousePacketIndex =>
                    origin[i].packet = origin[1].packet

\* The loop clears the flag of a packet that is ready.
ClearsReady == pc = "clear" => IsMousePacketReady

\* While the loop reads, a slot holds the packet taken, or the next one.
ReadsTakenOrNext ==
  pc \in Reading =>
    \A i \in Slot :
      origin[i].packet = IF IsMousePacketReady \/ i <= MousePacketIndex
                         THEN NextNumber(taken) ELSE taken

Assembly ==
  /\ PacketBytesConsecutive /\ Follows
  /\ PacketIsTheReport /\ AssembledIsReport
  /\ OnePacket /\ ClearsReady /\ ReadsTakenOrNext

IInv == TypeOK /\ Assembly /\ DotOnScreen

-----------------------------------------------------------------------------

LEMMA MovementIsInt ==
  ASSUME NEW byte \in Byte, NEW n \in BOOLEAN, NEW o \in BOOLEAN
  PROVE  Movement(byte, n, o) \in Int
BY DEF Movement, Byte

LEMMA ModuloIsCoordinate ==
  ASSUME NEW x \in Int
  PROVE  x % UintModulus \in Coordinate
<1>1. UintModulus \in Nat /\ UintModulus > 0
  BY ScreenAssumption
<1>2. x % UintModulus \in Int /\ 0 <= x % UintModulus /\ x % UintModulus < UintModulus
  BY <1>1
<1> QED
  BY <1>1, <1>2 DEF Coordinate

\* The dot drawn at a clamped position is on a screen as large as the glyph.
LEMMA ClampBounds ==
  ASSUME NEW x \in Nat, NEW high \in Nat
  PROVE  clamp(x, 0, high) \in Nat /\ clamp(x, 0, high) <= high
BY DEF clamp

LEMMA BytesOfReports ==
  ASSUME NEW r \in Reports, NEW i \in Slot
  PROVE  r[i] \in Byte
BY ReportsAssumption DEF Slot

-----------------------------------------------------------------------------

LEMMA InitIInv == Init => IInv
<1> SUFFICES ASSUME Init PROVE IInv
  OBVIOUS
<1>1. TypeOK
  <2>1. UintModulus \in Nat /\ UintModulus > 0 /\ PacketNumbers \in Nat /\ PacketNumbers >= 3
    BY ScreenAssumption, PacketNumbersAssumption
  <2>2. 0 \in Coordinate /\ 0 \in 0 .. (PacketNumbers - 1)
    BY <2>1 DEF Coordinate
  <2>3. MousePacket \in [Slot -> Byte] /\ MousePacketIndex \in 0 .. 2
    BY DEF Init, Byte
  <2>4. IsMousePacketReady \in BOOLEAN /\ inStep \in BOOLEAN /\ dropped \in BOOLEAN
    BY DEF Init
  <2>5. MousePosition \in [X : Coordinate, Y : Coordinate]
    BY <2>2 DEF Init
  <2>6. pc \in {"poll", "clear", "clamp", "draw"} \cup Reading /\ is \in Locals
    BY DEF Init, Locals, NoLocals
  <2>7. report \in Reports /\ phase \in Slot /\ latched \subseteq Line
    BY DEF Init, Slot
  <2>8. origin \in [Slot -> [follows : BOOLEAN, packet : 0 .. (PacketNumbers - 1)]]
    BY <2>2 DEF Init
  <2>9. taken \in 0 .. (PacketNumbers - 1)
    BY <2>2 DEF Init
  <2> QED
    BY <2>3, <2>4, <2>5, <2>6, <2>7, <2>8, <2>9 DEF TypeOK
<1>2. Assembly
  <2>1. ~IsMousePacketReady /\ MousePacketIndex = 0 /\ phase = 1 /\ pc = "poll"
    BY DEF Init
  <2>2. PacketBytesConsecutive /\ Follows
    BY <2>1 DEF PacketBytesConsecutive, Follows
  <2>6. PacketIsTheReport
    BY <2>1 DEF PacketIsTheReport
  <2>4. AssembledIsReport /\ OnePacket
    BY <2>1 DEF AssembledIsReport, OnePacket, Slot
  <2>5. ClearsReady /\ ReadsTakenOrNext
    BY <2>1 DEF ClearsReady, ReadsTakenOrNext, Reading
  <2> QED
    BY <2>2, <2>4, <2>5, <2>6 DEF Assembly
<1>3. DotOnScreen
  BY ScreenAssumption DEF Init, DotOnScreen
<1> QED
  BY <1>1, <1>2, <1>3 DEF IInv

-----------------------------------------------------------------------------
(***************************************************************************)
(* The handler.                                                            *)
(***************************************************************************)

LEMMA HandlerTypes ==
  ASSUME TypeOK, NEW data \in Byte, NEW due \in BOOLEAN,
         handlePS2MouseInterrupt(data, due)
  PROVE  /\ MousePacket' \in [Slot -> Byte]
         /\ MousePacketIndex' \in 0 .. 2
         /\ IsMousePacketReady' \in BOOLEAN
         /\ origin' \in [Slot -> [follows : BOOLEAN, packet : 0 .. (PacketNumbers - 1)]]
         /\ inStep' \in BOOLEAN /\ dropped' \in BOOLEAN
<1>1. PacketNumber \in 0 .. (PacketNumbers - 1)
  <2>1. origin[1].packet \in 0 .. (PacketNumbers - 1)
    BY DEF TypeOK, Slot
  <2>2. \A n \in 0 .. (PacketNumbers - 1) : NextNumber(n) \in 0 .. (PacketNumbers - 1)
    BY PacketNumbersAssumption DEF NextNumber
  <2> QED
    BY <2>1, <2>2 DEF PacketNumber
<1>a. inStep' \in BOOLEAN /\ dropped' \in BOOLEAN
  <2>1. inStep' = (inStep /\ due /\ Accepts(data)) /\ dropped' = ~Accepts(data)
    BY Zenon DEF handlePS2MouseInterrupt
  <2> QED
    BY <2>1, Zenon
<1>2. CASE ~Accepts(data)
  BY <1>2, <1>a DEF handlePS2MouseInterrupt, TypeOK
<1>3. CASE Accepts(data)
  <2>1. MousePacketIndex + 1 \in Slot
    BY DEF TypeOK, Slot
  <2>2. MousePacketIndex' \in 0 .. 2
    BY <1>3 DEF handlePS2MouseInterrupt, TypeOK, NextIndex
  <2>3. IsMousePacketReady' \in BOOLEAN
    BY <1>3 DEF handlePS2MouseInterrupt, TypeOK
  <2>4. MousePacket' \in [Slot -> Byte]
    BY <1>3, <2>1 DEF handlePS2MouseInterrupt, TypeOK
  <2>5. [follows |-> MousePacketIndex + 1 = 1 \/ ~dropped, packet |-> PacketNumber]
          \in [follows : BOOLEAN, packet : 0 .. (PacketNumbers - 1)]
    BY <1>1
  <2>6. origin' \in [Slot -> [follows : BOOLEAN, packet : 0 .. (PacketNumbers - 1)]]
    BY <1>3, <2>1, <2>5 DEF handlePS2MouseInterrupt, TypeOK
  <2> QED
    BY <1>a, <2>2, <2>3, <2>4, <2>6
<1> QED
  BY <1>2, <1>3

\* A step of the handler is a byte dropped, or one stored in slot 1, 2 or 3.
LEMMA HandlerCases ==
  ASSUME TypeOK, NEW data \in Byte, NEW due \in BOOLEAN,
         handlePS2MouseInterrupt(data, due)
  PROVE  \/ /\ IsMousePacketReady \/ (MousePacketIndex = 0 /\ ~IsFirstByte(data))
            /\ inStep' = FALSE
            /\ UNCHANGED <<MousePacket, MousePacketIndex, IsMousePacketReady, origin>>
         \/ /\ ~IsMousePacketReady /\ ~IsMousePacketReady' /\ dropped' = FALSE
            /\ MousePacketIndex = 0 /\ MousePacketIndex' = 1 /\ IsFirstByte(data)
            /\ MousePacket'[1] = data
            /\ origin'[1].follows
            /\ origin'[1].packet = NextNumber(origin[1].packet)
            /\ origin'[2] = origin[2] /\ origin'[3] = origin[3]
         \/ /\ ~IsMousePacketReady /\ ~IsMousePacketReady' /\ dropped' = FALSE
            /\ MousePacketIndex = 1 /\ MousePacketIndex' = 2
            /\ MousePacket'[2] = data /\ MousePacket'[1] = MousePacket[1]
            /\ dropped \/ origin'[2].follows
            /\ origin'[2].packet = origin[1].packet
            /\ origin'[1] = origin[1] /\ origin'[3] = origin[3]
         \/ /\ ~IsMousePacketReady /\ IsMousePacketReady' /\ dropped' = FALSE
            /\ MousePacketIndex = 2 /\ MousePacketIndex' = 0
            /\ MousePacket'[3] = data /\ MousePacket'[1] = MousePacket[1]
            /\ MousePacket'[2] = MousePacket[2]
            /\ dropped \/ origin'[3].follows
            /\ origin'[3].packet = origin[1].packet
            /\ origin'[1] = origin[1] /\ origin'[2] = origin[2]
<1>1. CASE ~Accepts(data)
  <2>1. IsMousePacketReady \/ (MousePacketIndex = 0 /\ ~IsFirstByte(data))
    BY <1>1 DEF Accepts
  <2>2. /\ inStep' = FALSE
        /\ UNCHANGED <<MousePacket, MousePacketIndex, IsMousePacketReady, origin>>
    BY <1>1, Zenon DEF handlePS2MouseInterrupt
  <2> QED
    BY <2>1, <2>2
<1>b. ASSUME Accepts(data), NEW slot \in Slot, slot = MousePacketIndex + 1
      PROVE  /\ ~IsMousePacketReady /\ dropped' = FALSE
             /\ MousePacket' = [MousePacket EXCEPT ![slot] = data]
             /\ origin'[slot].packet = PacketNumber
             /\ slot = 1 \/ dropped \/ origin'[slot].follows
             /\ \A i \in Slot : i # slot => origin'[i] = origin[i]
             /\ IsMousePacketReady' = (IsMousePacketReady \/ slot = 3)
             /\ MousePacketIndex' = NextIndex(MousePacketIndex)
             /\ slot = 1 => origin'[slot].follows
  <2>1. /\ ~IsMousePacketReady /\ dropped' = FALSE
        /\ MousePacket' = [MousePacket EXCEPT ![slot] = data]
        /\ IsMousePacketReady' = (IsMousePacketReady \/ slot = 3)
        /\ MousePacketIndex' = NextIndex(MousePacketIndex)
    BY <1>b, Zenon DEF handlePS2MouseInterrupt, Accepts
  <2>2. origin' = [origin EXCEPT ![slot] =
                     [follows |-> slot = 1 \/ ~dropped, packet |-> PacketNumber]]
    BY <1>b, Zenon DEF handlePS2MouseInterrupt
  <2>3. DOMAIN origin = Slot
    BY DEF TypeOK
  <2>4. origin'[slot] = [follows |-> slot = 1 \/ ~dropped, packet |-> PacketNumber]
    BY <1>b, <2>2, <2>3, Zenon
  <2>5. /\ slot = 1 \/ ~dropped => origin'[slot].follows
        /\ origin'[slot].packet = PacketNumber
    <3>1. origin'[slot].packet = PacketNumber
      BY <2>4
    <3>2. ASSUME slot = 1 \/ ~dropped PROVE origin'[slot].follows
      <4>1. (slot = 1 \/ ~dropped) = TRUE
        BY <3>2, Zenon
      <4>2. origin'[slot] = [follows |-> TRUE, packet |-> PacketNumber]
        BY <2>4, <4>1, Zenon
      <4> QED
        BY <4>2
    <3> QED
      BY <3>1, <3>2
  <2>6. \A i \in Slot : i # slot => origin'[i] = origin[i]
    BY <2>2, <2>3, Zenon
  <2> QED
    BY <2>1, <2>5, <2>6, Zenon
<1>2. CASE Accepts(data) /\ MousePacketIndex = 0
  <2>1. 1 \in Slot /\ 1 = MousePacketIndex + 1 /\ 1 # 3 /\ NextIndex(0) = 1
    BY <1>2 DEF Slot, NextIndex
  <2>2. IsFirstByte(data)
    BY <1>2 DEF Accepts
  <2>3. PacketNumber = NextNumber(origin[1].packet)
    BY <1>2 DEF PacketNumber
  <2>4. MousePacket'[1] = data
    BY <1>2, <1>b, <2>1 DEF TypeOK
  <2>5. 2 \in Slot /\ 3 \in Slot
    BY DEF Slot
  <2> QED
    BY <1>2, <1>b, <2>1, <2>2, <2>3, <2>4, <2>5
<1>3. CASE Accepts(data) /\ MousePacketIndex = 1
  <2>1. 2 \in Slot /\ 2 = MousePacketIndex + 1 /\ 2 # 3 /\ NextIndex(1) = 2
    BY <1>3 DEF Slot, NextIndex
  <2>3. PacketNumber = origin[1].packet
    BY <1>3 DEF PacketNumber
  <2>5. 1 \in Slot /\ 3 \in Slot
    BY DEF Slot
  <2>6. MousePacket' = [MousePacket EXCEPT ![2] = data]
    BY <1>3, <1>b, <2>1, Zenon
  <2>4. MousePacket'[2] = data /\ MousePacket'[1] = MousePacket[1]
    BY <2>1, <2>5, <2>6 DEF TypeOK
  <2> QED
    BY <1>3, <1>b, <2>1, <2>3, <2>4, <2>5
<1>4. CASE Accepts(data) /\ MousePacketIndex = 2
  <2>1. 3 \in Slot /\ 3 = MousePacketIndex + 1 /\ NextIndex(2) = 0
    BY <1>4 DEF Slot, NextIndex
  <2>3. PacketNumber = origin[1].packet
    BY <1>4 DEF PacketNumber
  <2>5. 1 \in Slot /\ 2 \in Slot
    BY DEF Slot
  <2>6. MousePacket' = [MousePacket EXCEPT ![3] = data]
    BY <1>4, <1>b, <2>1, Zenon
  <2>4. /\ MousePacket'[3] = data /\ MousePacket'[1] = MousePacket[1]
        /\ MousePacket'[2] = MousePacket[2]
    BY <2>1, <2>5, <2>6 DEF TypeOK
  <2>7. /\ ~IsMousePacketReady /\ IsMousePacketReady' /\ dropped' = FALSE
        /\ MousePacketIndex' = 0
    BY <1>4, <1>b, <2>1, Zenon
  <2>9. 3 # 1 /\ 3 # 2
    OBVIOUS
  <2>8. /\ dropped \/ origin'[3].follows
        /\ origin'[3].packet = origin[1].packet
        /\ origin'[1] = origin[1] /\ origin'[2] = origin[2]
    BY <1>4, <1>b, <2>1, <2>3, <2>5, <2>9, Zenon
  <2> QED
    BY <1>4, <2>4, <2>7, <2>8
<1>5. MousePacketIndex \in {0, 1, 2}
  BY DEF TypeOK
<1> QED
  BY <1>1, <1>2, <1>3, <1>4, <1>5

\* inStep only survives the bytes that are due.
LEMMA InStepIsDue ==
  ASSUME NEW data, NEW due, handlePS2MouseInterrupt(data, due), inStep'
  PROVE  inStep /\ due
BY Zenon DEF handlePS2MouseInterrupt

\* A byte that is due, or one out of turn, leaves the packet that is assembled
\* in step with what it is made of.
LEMMA HandlerKeepsAssembly ==
  ASSUME TypeOK, Assembly, NEW data \in Byte, NEW due \in BOOLEAN,
         handlePS2MouseInterrupt(data, due),
         UNCHANGED mainVars, report' \in Reports,
         due => /\ phase' = Next3(phase) /\ data = report'[phase]
                /\ phase # 1 => report' = report
  PROVE  Assembly'
<1>a. MousePacketIndex \in {0, 1, 2} /\ phase \in {1, 2, 3}
  BY DEF TypeOK, Slot
<1>b. pc' = pc /\ taken' = taken
  BY DEF mainVars
<1>c. PacketBytesConsecutive /\ Follows /\ PacketIsTheReport
  BY DEF Assembly
<1>d. AssembledIsReport /\ OnePacket /\ ClearsReady /\ ReadsTakenOrNext
  BY DEF Assembly
<1>e. inStep' => /\ inStep
                 /\ phase' = Next3(phase) /\ data = report'[phase]
                 /\ phase # 1 => report' = report
  BY InStepIsDue
<1>1. CASE /\ IsMousePacketReady \/ (MousePacketIndex = 0 /\ ~IsFirstByte(data))
           /\ inStep' = FALSE
           /\ UNCHANGED <<MousePacket, MousePacketIndex, IsMousePacketReady, origin>>
  <2>1. PacketBytesConsecutive'
    BY <1>1, <1>c DEF PacketBytesConsecutive
  <2>2. Follows'
    BY <1>1, <1>a DEF Follows
  <2>3. PacketIsTheReport' /\ AssembledIsReport'
    BY <1>1 DEF PacketIsTheReport, AssembledIsReport
  <2>4. OnePacket' /\ ClearsReady' /\ ReadsTakenOrNext'
    BY <1>1, <1>b, <1>d DEF OnePacket, ClearsReady, ReadsTakenOrNext
  <2> QED
    BY <2>1, <2>2, <2>3, <2>4 DEF Assembly
<1>2. CASE /\ ~IsMousePacketReady /\ ~IsMousePacketReady' /\ dropped' = FALSE
           /\ MousePacketIndex = 0 /\ MousePacketIndex' = 1 /\ IsFirstByte(data)
           /\ MousePacket'[1] = data
           /\ origin'[1].follows
           /\ origin'[1].packet = NextNumber(origin[1].packet)
           /\ origin'[2] = origin[2] /\ origin'[3] = origin[3]
  <2>1. PacketBytesConsecutive' /\ Follows'
    BY <1>2 DEF PacketBytesConsecutive, Follows
  <2>2. inStep' => phase = 1 /\ phase' = 2 /\ data = report'[1]
    BY <1>2, <1>a, <1>c, <1>e DEF PacketIsTheReport, Next3
  <2>3. PacketIsTheReport' /\ AssembledIsReport'
    BY <1>2, <2>2 DEF PacketIsTheReport, AssembledIsReport, Slot
  <2>4. OnePacket'
    BY <1>2 DEF OnePacket, Slot
  <2>5. ClearsReady'
    BY <1>2, <1>b, <1>d DEF ClearsReady
  <2>6. ReadsTakenOrNext'
    <3> SUFFICES ASSUME pc \in Reading
                 PROVE  /\ origin'[1].packet = NextNumber(taken)
                        /\ origin'[2].packet = taken /\ origin'[3].packet = taken
      BY <1>2, <1>b DEF ReadsTakenOrNext, Slot
    <3>1. \A i \in Slot : ~(i <= 0)
      BY DEF Slot
    <3>2. \A i \in Slot : origin[i].packet = taken
      BY <1>2, <1>d, <3>1 DEF ReadsTakenOrNext
    <3> QED
      BY <1>2, <3>2 DEF Slot
  <2> QED
    BY <2>1, <2>3, <2>4, <2>5, <2>6 DEF Assembly
<1>3. CASE /\ ~IsMousePacketReady /\ ~IsMousePacketReady' /\ dropped' = FALSE
           /\ MousePacketIndex = 1 /\ MousePacketIndex' = 2
           /\ MousePacket'[2] = data /\ MousePacket'[1] = MousePacket[1]
           /\ dropped \/ origin'[2].follows
           /\ origin'[2].packet = origin[1].packet
           /\ origin'[1] = origin[1] /\ origin'[3] = origin[3]
  <2>2. origin'[2].follows /\ origin[1].follows /\ IsFirstByte(MousePacket[1])
    BY <1>3, <1>c DEF Follows, PacketBytesConsecutive
  <2>3. PacketBytesConsecutive' /\ Follows'
    BY <1>3, <2>2 DEF PacketBytesConsecutive, Follows
  <2>4. inStep' => /\ phase = 2 /\ phase' = 3 /\ report' = report
                   /\ data = report'[2] /\ MousePacket[1] = report[1]
    BY <1>3, <1>a, <1>c, <1>d, <1>e
       DEF PacketIsTheReport, AssembledIsReport, Slot, Next3
  <2>5. PacketIsTheReport' /\ AssembledIsReport'
    BY <1>3, <2>4 DEF PacketIsTheReport, AssembledIsReport, Slot
  <2>6. OnePacket'
    BY <1>3 DEF OnePacket, Slot
  <2>7. ClearsReady'
    BY <1>3, <1>b, <1>d DEF ClearsReady
  <2>8. ReadsTakenOrNext'
    <3> SUFFICES ASSUME pc \in Reading
                 PROVE  /\ origin'[1].packet = NextNumber(taken)
                        /\ origin'[2].packet = NextNumber(taken)
                        /\ origin'[3].packet = taken
      BY <1>3, <1>b DEF ReadsTakenOrNext, Slot
    <3>1. 1 \in Slot /\ 3 \in Slot /\ 1 <= 1 /\ ~(3 <= 1)
      BY DEF Slot
    <3>2. origin[1].packet = NextNumber(taken) /\ origin[3].packet = taken
      BY <1>3, <1>d, <3>1 DEF ReadsTakenOrNext
    <3> QED
      BY <1>3, <3>2
  <2> QED
    BY <2>3, <2>5, <2>6, <2>7, <2>8 DEF Assembly
<1>4. CASE /\ ~IsMousePacketReady /\ IsMousePacketReady' /\ dropped' = FALSE
           /\ MousePacketIndex = 2 /\ MousePacketIndex' = 0
           /\ MousePacket'[3] = data /\ MousePacket'[1] = MousePacket[1]
           /\ MousePacket'[2] = MousePacket[2]
           /\ dropped \/ origin'[3].follows
           /\ origin'[3].packet = origin[1].packet
           /\ origin'[1] = origin[1] /\ origin'[2] = origin[2]
  <2>2. /\ origin'[3].follows /\ origin[2].follows /\ origin[1].follows
        /\ IsFirstByte(MousePacket[1])
    BY <1>4, <1>c DEF Follows, PacketBytesConsecutive
  <2>3. PacketBytesConsecutive' /\ Follows'
    BY <1>4, <2>2 DEF PacketBytesConsecutive, Follows
  <2>4. inStep' => /\ phase = 3 /\ phase' = 1 /\ report' = report /\ data = report'[3]
                   /\ MousePacket[1] = report[1] /\ MousePacket[2] = report[2]
    BY <1>4, <1>a, <1>c, <1>d, <1>e
       DEF PacketIsTheReport, AssembledIsReport, Slot, Next3
  <2>5. inStep' => MousePacket' = report'
    <3>1. MousePacket' \in [Slot -> Byte] /\ report' \in [Slot -> Byte]
      BY HandlerTypes, ReportsAssumption DEF Slot
    <3> QED
      BY <1>4, <2>4, <3>1 DEF Slot
  <2>6. PacketIsTheReport' /\ AssembledIsReport'
    BY <1>4, <2>4, <2>5 DEF PacketIsTheReport, AssembledIsReport
  <2>7. origin[2].packet = origin[1].packet
    BY <1>4, <1>d DEF OnePacket, Slot
  <2>8. OnePacket'
    BY <1>4, <2>7 DEF OnePacket, Slot
  <2>9. ClearsReady'
    BY <1>4 DEF ClearsReady
  <2>10. ReadsTakenOrNext'
    <3> SUFFICES ASSUME pc \in Reading
                 PROVE  \A i \in Slot : origin'[i].packet = NextNumber(taken)
      BY <1>4, <1>b DEF ReadsTakenOrNext
    <3>1. 1 \in Slot /\ 1 <= 2
      BY DEF Slot
    <3>2. origin[1].packet = NextNumber(taken)
      BY <1>4, <1>d, <3>1 DEF ReadsTakenOrNext
    <3> QED
      BY <1>4, <2>7, <3>2 DEF Slot
  <2> QED
    BY <2>3, <2>6, <2>8, <2>9, <2>10 DEF Assembly
<1> QED
  BY <1>1, <1>2, <1>3, <1>4, HandlerCases, Zenon

\* A step of the handler, whatever byte it reads.
LEMMA HandlerStep ==
  ASSUME IInv, NEW data \in Byte, NEW due \in BOOLEAN,
         handlePS2MouseInterrupt(data, due),
         UNCHANGED mainVars, latched' \subseteq Line,
         report' \in Reports, phase' \in Slot,
         due => /\ phase' = Next3(phase) /\ data = report'[phase]
                /\ phase # 1 => report' = report
  PROVE  IInv'
<1>a. TypeOK /\ Assembly /\ DotOnScreen
  BY DEF IInv
<1>1. Assembly'
  BY <1>a, HandlerKeepsAssembly
<1>2. TypeOK'
  <2>1. /\ MousePacket' \in [Slot -> Byte] /\ MousePacketIndex' \in 0 .. 2
        /\ IsMousePacketReady' \in BOOLEAN
        /\ inStep' \in BOOLEAN /\ dropped' \in BOOLEAN
        /\ origin' \in [Slot -> [follows : BOOLEAN, packet : 0 .. (PacketNumbers - 1)]]
    BY <1>a, HandlerTypes
  <2> QED
    BY <1>a, <2>1 DEF TypeOK, mainVars
<1>3. DotOnScreen'
  BY <1>a DEF DotOnScreen, mainVars
<1> QED
  BY <1>1, <1>2, <1>3 DEF IInv

\* What the mouse sends.
LEMMA SentByte ==
  ASSUME TypeOK, SendByte
  PROVE  /\ report' \in Reports /\ phase' \in Slot /\ phase' = Next3(phase)
         /\ report'[phase] \in Byte
         /\ phase # 1 => report' = report
<1>1. phase \in Slot /\ Next3(phase) \in Slot /\ phase' = Next3(phase)
  BY DEF TypeOK, Slot, Next3, SendByte
<1>2. report' \in Reports /\ (phase # 1 => report' = report)
  BY DEF SendByte, TypeOK
<1> QED
  BY <1>1, <1>2, BytesOfReports

LEMMA ReportByteStep ==
  ASSUME IInv, ReportByte
  PROVE  IInv'
<1>1. /\ SendByte /\ handlePS2MouseInterrupt(report'[phase], TRUE)
      /\ latched' = latched /\ UNCHANGED mainVars
  BY DEF ReportByte
<1>2. TypeOK /\ latched \subseteq Line
  BY DEF IInv, TypeOK
<1> QED
  BY <1>1, <1>2, SentByte, HandlerStep

LEMMA SurplusMouseStep ==
  ASSUME IInv, SurplusMouse
  PROVE  IInv'
<1>1. /\ latched \subseteq Line /\ report \in Reports /\ phase \in Slot
      /\ phase = 1 \/ phase - 1 \in Slot
  BY DEF IInv, TypeOK, Slot
<1>2. LastBytes \subseteq Byte /\ KeyCodes \subseteq Byte
  <2>1. 3 \in Slot /\ ACK \in Byte
    BY DEF Slot, ACK, Byte
  <2> QED
    BY <1>1, <2>1, BytesOfReports, KeyCodesAssumption DEF LastBytes
<1>3. /\ latched' \subseteq Line /\ report' = report /\ phase' = phase
      /\ UNCHANGED mainVars
  BY <1>1 DEF SurplusMouse, TakeOther, Line
<1>4. PICK data \in Byte : handlePS2MouseInterrupt(data, FALSE)
  BY <1>2, Zenon DEF SurplusMouse
<1> QED
  BY <1>1, <1>3, <1>4, HandlerStep

LEMMA SurplusKeyboardStep ==
  ASSUME IInv, SurplusKeyboard
  PROVE  IInv'
<1>a. TypeOK /\ Assembly /\ DotOnScreen
  BY DEF IInv
<1>1. /\ latched' \subseteq Line /\ inStep' = FALSE
      /\ UNCHANGED <<MousePacket, MousePacketIndex, IsMousePacketReady, MousePosition,
                     pc, is, taken, dropped, origin>>
  BY <1>a DEF SurplusKeyboard, TakeOther, Line, TypeOK, handlerVars, mainVars
<1>2. report' \in Reports /\ phase' \in Slot
  BY <1>a, SentByte DEF SurplusKeyboard
<1>3. TypeOK' /\ DotOnScreen'
  BY <1>a, <1>1, <1>2 DEF TypeOK, DotOnScreen
<1>4. PacketBytesConsecutive' /\ Follows'
  BY <1>a, <1>1 DEF Assembly, PacketBytesConsecutive, Follows
<1>5. PacketIsTheReport' /\ AssembledIsReport'
  BY <1>1 DEF PacketIsTheReport, AssembledIsReport
<1>6. OnePacket' /\ ClearsReady' /\ ReadsTakenOrNext'
  BY <1>a, <1>1 DEF Assembly, OnePacket, ClearsReady, ReadsTakenOrNext
<1> QED
  BY <1>3, <1>4, <1>5, <1>6 DEF IInv, Assembly

-----------------------------------------------------------------------------
(***************************************************************************)
(* The main loop.                                                          *)
(***************************************************************************)

\* A step of the loop that clears nothing leaves the assembly as it is.
LEMMA MainKeepsAssembly ==
  ASSUME Assembly, UNCHANGED <<handlerVars, mouseVars, historyVars>>,
         taken' = taken, pc' = "clear" => IsMousePacketReady,
         pc' \in Reading => pc \in Reading
  PROVE  Assembly'
<1>1. UNCHANGED <<MousePacket, MousePacketIndex, IsMousePacketReady, report, phase,
                  latched, dropped, origin, inStep>>
  BY DEF handlerVars, mouseVars, historyVars
<1>2. PacketBytesConsecutive' /\ Follows'
  BY <1>1 DEF Assembly, PacketBytesConsecutive, Follows
<1>3. PacketIsTheReport' /\ AssembledIsReport'
  BY <1>1 DEF Assembly, PacketIsTheReport, AssembledIsReport
<1>4. OnePacket' /\ ClearsReady'
  BY <1>1 DEF Assembly, OnePacket, ClearsReady
<1>5. ReadsTakenOrNext'
  BY <1>1 DEF Assembly, ReadsTakenOrNext
<1> QED
  BY <1>2, <1>3, <1>4, <1>5 DEF Assembly

LEMMA ClearKeepsAssembly ==
  ASSUME TypeOK, Assembly, Clear
  PROVE  Assembly'
<1>1. /\ IsMousePacketReady /\ ~IsMousePacketReady' /\ taken' = origin[1].packet
      /\ pc' = "isXNegative"
      /\ UNCHANGED <<MousePacket, MousePacketIndex, report, phase, latched,
                     dropped, origin, inStep>>
  BY DEF Clear, Assembly, ClearsReady, mouseVars, historyVars
<1>2. MousePacketIndex = 0
  BY <1>1 DEF Assembly, PacketBytesConsecutive
<1>3. PacketBytesConsecutive' /\ Follows'
  BY <1>1, <1>2 DEF PacketBytesConsecutive, Follows
<1>5. PacketIsTheReport' /\ AssembledIsReport'
  BY <1>1, <1>2 DEF Assembly, PacketIsTheReport, AssembledIsReport, Slot
<1>6. OnePacket' /\ ClearsReady'
  BY <1>1 DEF Assembly, OnePacket, ClearsReady
<1>7. ReadsTakenOrNext'
  <2>1. \A i \in Slot : origin[i].packet = origin[1].packet /\ ~(i <= 0)
    BY <1>1 DEF Assembly, OnePacket, Slot
  <2> QED
    BY <1>1, <1>2, <2>1 DEF ReadsTakenOrNext
<1> QED
  BY <1>3, <1>5, <1>6, <1>7 DEF Assembly

LEMMA MainStep ==
  ASSUME IInv, Main
  PROVE  IInv'
<1>a. TypeOK /\ Assembly /\ DotOnScreen
  BY DEF IInv
<1>b. /\ MousePosition.X \in Int /\ MousePosition.Y \in Int
      /\ MousePosition = [X |-> MousePosition.X, Y |-> MousePosition.Y]
      /\ is.isXNegative \in BOOLEAN /\ is.isYNegative \in BOOLEAN
      /\ is.isXOverflowed \in BOOLEAN /\ is.isYOverflowed \in BOOLEAN
  BY <1>a DEF TypeOK, Coordinate, Locals
<1>c. MousePacket[2] \in Byte /\ MousePacket[3] \in Byte
  BY <1>a DEF TypeOK, Slot
<1>1. CASE Poll
  <2>1. Assembly'
    BY <1>1, <1>a, MainKeepsAssembly DEF Poll, Reading
  <2>2. TypeOK'
    BY <1>1, <1>a DEF Poll, TypeOK, handlerVars, mouseVars, historyVars
  <2>3. DotOnScreen'
    BY <1>1, <1>a DEF Poll, DotOnScreen
  <2> QED
    BY <2>1, <2>2, <2>3 DEF IInv
<1>2. CASE Clear
  <2>1. Assembly'
    BY <1>2, <1>a, ClearKeepsAssembly
  <2>2. origin[1].packet \in 0 .. (PacketNumbers - 1)
    BY <1>a DEF TypeOK, Slot
  <2>3. TypeOK'
    BY <1>2, <1>a, <2>2 DEF Clear, TypeOK, mouseVars, historyVars, Reading
  <2>4. DotOnScreen'
    BY <1>2, <1>a DEF Clear, DotOnScreen
  <2> QED
    BY <2>1, <2>3, <2>4 DEF IInv
<1>3. CASE ReadFlags
  <2>1. /\ pc \in Reading \ {"moveY"} /\ pc' \in Reading \ {"moveY"}
        /\ UNCHANGED <<handlerVars, mouseVars, historyVars, MousePosition, taken>>
    BY <1>3 DEF ReadFlags, ReadFlag, Reading
  <2>2. Assembly'
    BY <1>a, <2>1, MainKeepsAssembly DEF Reading
  <2>3. is' \in Locals
    BY <1>3, <1>a DEF ReadFlags, ReadFlag, TypeOK, Locals,
         PS2_X_SIGN, PS2_Y_SIGN, PS2_X_OVERFLOW, PS2_Y_OVERFLOW, Bit
  <2>4. TypeOK'
    BY <1>a, <2>1, <2>3 DEF TypeOK, handlerVars, mouseVars, historyVars
  <2>5. DotOnScreen'
    BY <1>a, <2>1 DEF DotOnScreen, Reading
  <2> QED
    BY <2>2, <2>4, <2>5 DEF IInv
<1>4. CASE MoveX
  <2>1. Assembly'
    BY <1>4, <1>a, MainKeepsAssembly DEF MoveX, Reading
  <2>2. MousePosition' \in [X : Coordinate, Y : Coordinate]
    BY <1>4, <1>a, <1>b, <1>c, MovementIsInt, ModuloIsCoordinate DEF MoveX, TypeOK
  <2>3. TypeOK'
    BY <1>4, <1>a, <2>2 DEF MoveX, TypeOK, handlerVars, mouseVars, historyVars, Reading
  <2>4. DotOnScreen'
    BY <1>4 DEF MoveX, DotOnScreen
  <2> QED
    BY <2>1, <2>3, <2>4 DEF IInv
<1>5. CASE MoveY
  <2>1. Assembly'
    BY <1>5, <1>a, MainKeepsAssembly DEF MoveY, Reading
  <2>2. MousePosition' \in [X : Coordinate, Y : Coordinate]
    BY <1>5, <1>a, <1>b, <1>c, MovementIsInt, ModuloIsCoordinate DEF MoveY, TypeOK
  <2>3. TypeOK'
    BY <1>5, <1>a, <2>2 DEF MoveY, TypeOK, handlerVars, mouseVars, historyVars, Reading
  <2>4. DotOnScreen'
    BY <1>5 DEF MoveY, DotOnScreen
  <2> QED
    BY <2>1, <2>3, <2>4 DEF IInv
<1>6. CASE Clamp
  <2>1. Assembly'
    BY <1>6, <1>a, MainKeepsAssembly DEF Clamp, Reading
  <2>2. Width - 8 \in Nat /\ Height - 16 \in Nat
    BY ScreenAssumption
  <2>3. MousePosition.X \in Nat /\ MousePosition.Y \in Nat
    BY <1>a, ScreenAssumption DEF TypeOK, Coordinate
  <2>4. /\ MousePosition'.X \in Nat /\ MousePosition'.X <= Width - 8
        /\ MousePosition'.Y \in Nat /\ MousePosition'.Y <= Height - 16
        /\ MousePosition' = [X |-> MousePosition'.X, Y |-> MousePosition'.Y]
    BY <1>6, <2>2, <2>3, ClampBounds DEF Clamp
  <2>5. MousePosition'.X \in Coordinate /\ MousePosition'.Y \in Coordinate
    BY <2>4, ScreenAssumption DEF Coordinate
  <2>6. TypeOK'
    BY <1>6, <1>a, <2>4, <2>5 DEF Clamp, TypeOK, handlerVars, mouseVars, historyVars
  <2>7. MousePosition'.X + 8 <= Width /\ MousePosition'.Y + 16 <= Height
    BY <2>4, ScreenAssumption
  <2>8. DotOnScreen'
    BY <2>7 DEF DotOnScreen
  <2> QED
    BY <2>1, <2>6, <2>8 DEF IInv
<1>7. CASE Draw
  <2>1. Assembly'
    BY <1>7, <1>a, MainKeepsAssembly DEF Draw, Reading
  <2>2. TypeOK'
    BY <1>7, <1>a DEF Draw, TypeOK, handlerVars, mouseVars, historyVars, Locals, NoLocals
  <2>3. DotOnScreen'
    BY <1>7, <1>a DEF Draw, DotOnScreen
  <2> QED
    BY <2>1, <2>2, <2>3 DEF IInv
<1> QED
  BY <1>1, <1>2, <1>3, <1>4, <1>5, <1>6, <1>7 DEF Main

LEMMA Stutter ==
  ASSUME IInv, UNCHANGED vars
  PROVE  IInv'
<1>1. UNCHANGED <<MousePacket, MousePacketIndex, IsMousePacketReady, MousePosition, pc,
                  is, report, phase, latched, dropped, origin, taken, inStep>>
  BY DEF vars, handlerVars, mouseVars, mainVars, historyVars
<1>2. TypeOK' /\ DotOnScreen'
  BY <1>1 DEF IInv, TypeOK, DotOnScreen
<1>3. PacketBytesConsecutive' /\ Follows'
  BY <1>1 DEF IInv, Assembly, PacketBytesConsecutive, Follows
<1>4. PacketIsTheReport' /\ AssembledIsReport'
  BY <1>1 DEF IInv, Assembly, PacketIsTheReport, AssembledIsReport
<1>5. OnePacket' /\ ClearsReady' /\ ReadsTakenOrNext'
  BY <1>1 DEF IInv, Assembly, OnePacket, ClearsReady, ReadsTakenOrNext
<1> QED
  BY <1>2, <1>3, <1>4, <1>5 DEF IInv, Assembly

-----------------------------------------------------------------------------
(***************************************************************************)
(* The theorems.                                                           *)
(***************************************************************************)

\* The inductive invariant holds, whenever bytes arrive.
THEOREM Inductive == Spec => []IInv
<1>1. IInv /\ [Next]_vars => IInv'
  BY ReportByteStep, SurplusMouseStep, SurplusKeyboardStep, MainStep, Stutter DEF Next
<1> QED
  BY InitIInv, <1>1, PTL DEF Spec

\* Packet, index, coordinates and histories keep their types.
THEOREM TypeCorrect == Spec => []TypeOK
<1>1. IInv => TypeOK
  BY DEF IInv
<1> QED
  BY Inductive, <1>1, PTL

\* handlePS2MouseInterrupt assembles packets of bytes that came one after the
\* other, the first of which looks like a first byte.
THEOREM BytesConsecutive == Spec => []PacketBytesConsecutive
<1>1. IInv => PacketBytesConsecutive
  BY DEF IInv, Assembly
<1> QED
  BY Inductive, <1>1, PTL

\* While no byte was dropped or read out of turn, a packet is the report the
\* mouse sent.
THEOREM ReportsArrive == Spec => []PacketIsTheReport
<1>1. IInv => PacketIsTheReport
  BY DEF IInv, Assembly
<1> QED
  BY Inductive, <1>1, PTL

\* What processPS2MousePacket reads mixes the packet it took with the next one
\* at most, newer bytes before older ones.
THEOREM TornReadsAreBounded == Spec => []MixesAtMostTwoPackets
<1>1. IInv => MixesAtMostTwoPackets
  <2> SUFFICES ASSUME IInv, pc \in Reading
               PROVE  /\ \A i \in Slot : origin[i].packet \in {taken, NextNumber(taken)}
                      /\ \A i, j \in Slot :
                           i < j /\ origin[j].packet # taken => origin[i].packet # taken
    BY DEF MixesAtMostTwoPackets
  <2>1. \A i \in Slot :
          origin[i].packet = IF IsMousePacketReady \/ i <= MousePacketIndex
                             THEN NextNumber(taken) ELSE taken
    BY DEF IInv, Assembly, ReadsTakenOrNext
  <2>2. NextNumber(taken) # taken
    BY PacketNumbersAssumption DEF IInv, TypeOK, NextNumber
  <2>3. \A i, j \in Slot : i < j /\ j <= MousePacketIndex => i <= MousePacketIndex
    BY DEF IInv, TypeOK, Slot
  <2> QED
    BY <2>1, <2>2, <2>3
<1> QED
  BY Inductive, <1>1, PTL

\* Whatever bytes arrive, the pointer is drawn inside the frame buffer.
THEOREM DotStaysOnScreen == Spec => []DotOnScreen
<1>1. IInv => DotOnScreen
  BY DEF IInv
<1> QED
  BY Inductive, <1>1, PTL
=============================================================================
