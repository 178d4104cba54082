------------------------------ MODULE PS2Mouse ------------------------------
(***************************************************************************)
(* The PS/2 mouse driver (io/mouse/PS2_Mouse.cpp): the interrupt handler   *)
(* assembles three bytes into MousePacket, the kernel's main loop takes    *)
(* the packet and moves the pointer.  They share MousePacket and           *)
(* IsMousePacketReady without a lock.                                      *)
(*                                                                         *)
(* The gate of IRQ 12 is an interrupt gate on the only processor, so the   *)
(* handler is one step.  It may strike between any two steps of the main   *)
(* loop, which are the loop's accesses to the shared variables: the kernel *)
(* is built without optimisation, so they happen in program order.         *)
(***************************************************************************)
EXTENDS Integers, Sequences

CONSTANTS
  Reports,        \* three-byte movement reports the mouse may send
  KeyCodes,       \* codes the keyboard may leave at the data port
  Width, Height,  \* pixels of the frame buffer
  UintModulus,    \* 2^32: the width of the clamped coordinates
  PacketNumbers   \* bound: packets are numbered modulo this, in histories only

Byte == 0 .. 255
ACK == 250                  \* 0xfa, the mouse's answer to a command

Bit(byte, n) == (byte \div (2 ^ n)) % 2 = 1

IsFirstByte(data) == Bit(data, 3)
PS2_X_SIGN(data) == Bit(data, 4)
PS2_Y_SIGN(data) == Bit(data, 5)
PS2_X_OVERFLOW(data) == Bit(data, 6)
PS2_Y_OVERFLOW(data) == Bit(data, 7)

\* The mouse sets bit 3 of the first byte of every report.
ASSUME ReportsAssumption ==
  \A r \in Reports : r \in [1 .. 3 -> Byte] /\ IsFirstByte(r[1])

\* The glyph drawn at the pointer is 8 by 16 pixels.
ASSUME ScreenAssumption ==
  /\ Width \in Nat /\ Width >= 8
  /\ Height \in Nat /\ Height >= 16
  /\ UintModulus \in Nat \ {0} /\ Width < UintModulus /\ Height < UintModulus

ASSUME KeyCodesAssumption == KeyCodes \subseteq Byte

ASSUME PacketNumbersAssumption == PacketNumbers \in Nat /\ PacketNumbers >= 3

VARIABLES
  MousePacket,          \* the bytes of the packet, slots 1 to 3
  MousePacketIndex,
  IsMousePacketReady,
  MousePosition,
  pc,                   \* where the main loop is in processPS2MousePacket
  is,                   \* its locals isXNegative ... isYOverflowed
  report, phase,        \* the mouse: the report it sends, the byte it is at
  latched,              \* lines with a request whose byte was read before
  dropped,              \* history: the handler's last call dropped its byte
  origin,               \* history: of each slot, whether its byte followed the
                        \* one of the slot before, and the packet it is of
  taken,                \* history: number of the packet the main loop took
  inStep                \* history: no byte was ever dropped or out of place

handlerVars == <<MousePacket, MousePacketIndex, IsMousePacketReady>>
mouseVars == <<report, phase, latched>>
mainVars == <<MousePosition, pc, is, taken>>
historyVars == <<dropped, origin, inStep>>
vars == <<handlerVars, mouseVars, mainVars, historyVars>>

Slot == 1 .. 3
Next3(i) == IF i = 3 THEN 1 ELSE i + 1
NextNumber(n) == IF n = PacketNumbers - 1 THEN 0 ELSE n + 1

Line == {"keyboard", "mouse"}

Locals == [isXNegative : BOOLEAN, isYNegative : BOOLEAN,
           isXOverflowed : BOOLEAN, isYOverflowed : BOOLEAN]

NoLocals == [isXNegative |-> FALSE, isYNegative |-> FALSE,
             isXOverflowed |-> FALSE, isYOverflowed |-> FALSE]

\* Interrupts have just been enabled; the interrupt controller may have
\* latched the requests of bytes that initPS2Mouse polled for, the last of
\* them an ACK.
Init ==
  /\ MousePacket = [i \in Slot |-> 0]
  /\ MousePacketIndex = 0
  /\ IsMousePacketReady = FALSE
  /\ MousePosition = [X |-> 0, Y |-> 0]
  /\ pc = "poll" /\ is = NoLocals
  /\ report \in Reports /\ phase = 1
  /\ latched \in SUBSET Line
  /\ dropped = FALSE
  /\ origin = [i \in Slot |-> [follows |-> TRUE, packet |-> 0]]
  /\ taken = 0
  /\ inStep = TRUE

-----------------------------------------------------------------------------
(***************************************************************************)
(* The interrupt handler.                                                  *)
(***************************************************************************)

\* MUTANT FORM of Accepts: any byte may start a packet.
AcceptsAnyFirst(data) == ~IsMousePacketReady

\* MUTANT FORM of Accepts: a packet not yet taken is not protected.
AcceptsWhilePending(data) == MousePacketIndex = 0 => IsFirstByte(data)

\* handlePS2MouseInterrupt stores a byte unless a packet waits to be taken,
\* or a first byte is due and this cannot be one.
Accepts(data) ==
  ~IsMousePacketReady /\ (MousePacketIndex = 0 => IsFirstByte(data))

\* The number the packet being assembled has, or will have.
PacketNumber ==
  IF MousePacketIndex = 0 THEN NextNumber(origin[1].packet)
                          ELSE origin[1].packet

\* MUTANT FORM of NextIndex: the index is not reset after the third byte.
NextIndexUnreset(index) == index + 1

NextIndex(index) == IF index = 2 THEN 0 ELSE index + 1

\* due: the byte is the one of the report under way that is due.
handlePS2MouseInterrupt(data, due) ==
  /\ dropped' = ~Accepts(data)
  /\ inStep' = (inStep /\ due /\ Accepts(data))
  /\ IF Accepts(data)
       THEN LET slot == MousePacketIndex + 1 IN
            /\ MousePacket' = [MousePacket EXCEPT ![slot] = data]
            /\ origin' = [origin EXCEPT ![slot] =
                            [follows |-> slot = 1 \/ ~dropped, packet |-> PacketNumber]]
            /\ IsMousePacketReady' = (IsMousePacketReady \/ slot = 3)
            /\ MousePacketIndex' = NextIndex(MousePacketIndex)
       ELSE UNCHANGED <<MousePacket, MousePacketIndex, IsMousePacketReady, origin>>

-----------------------------------------------------------------------------
(***************************************************************************)
(* The mouse, and requests whose byte was read before: the controller's    *)
(* line is as module InputSystem has it.                                   *)
(***************************************************************************)

\* The mouse sends the next byte of its report, or the first of a new one.
SendByte ==
  /\ report' \in IF phase = 1 THEN Reports ELSE {report}
  /\ phase' = Next3(phase)

\* The byte is read by the handler it is for.
ReportByte ==
  /\ SendByte
  /\ handlePS2MouseInterrupt(report'[phase], TRUE)
  /\ UNCHANGED <<latched, mainVars>>

\* The byte read last: the mouse's, or the ACK polled before its first report,
\* which is let come later too.
LastBytes == {IF phase = 1 THEN report[3] ELSE report[phase - 1], ACK}

\* A handler that reads the other device's byte uses up its own request; the
\* byte's own is lost, or is left latched.
TakeOther(own, other) ==
  latched' \in {latched \ {own}, (latched \ {own}) \cup {other}}

\* A latched request of the mouse strikes, at any moment: its handler reads
\* the last byte again, or a byte of the keyboard.
SurplusMouse ==
  /\ "mouse" \in latched
  /\ \/ /\ latched' = latched \ {"mouse"}
        /\ \E data \in LastBytes : handlePS2MouseInterrupt(data, FALSE)
     \/ /\ TakeOther("mouse", "keyboard")
        /\ \E data \in KeyCodes : handlePS2MouseInterrupt(data, FALSE)
  /\ UNCHANGED <<report, phase, mainVars>>

\* A latched request of the keyboard strikes: its handler takes the mouse's
\* next byte.  (Should it read an old one, nothing happens here.)
SurplusKeyboard ==
  /\ "keyboard" \in latched
  /\ TakeOther("keyboard", "mouse")
  /\ SendByte
  /\ inStep' = FALSE
  /\ UNCHANGED <<handlerVars, dropped, origin, mainVars>>

-----------------------------------------------------------------------------
(***************************************************************************)
(* The main loop: processPS2MousePacket again and again.                   *)
(***************************************************************************)

Poll ==
  /\ pc = "poll"
  /\ pc' = IF IsMousePacketReady THEN "clear" ELSE "poll"
  /\ UNCHANGED <<handlerVars, mouseVars, historyVars, MousePosition, is, taken>>

\* MUTANT FORM of Clear: the flag is left set.
ClearNothing ==
  /\ pc = "clear"
  /\ pc' = "isXNegative"
  /\ taken' = origin[1].packet
  /\ UNCHANGED <<handlerVars, mouseVars, historyVars, MousePosition, is>>

Clear ==
  /\ pc = "clear"
  /\ IsMousePacketReady' = FALSE
  /\ pc' = "isXNegative"
  /\ taken' = origin[1].packet
  /\ UNCHANGED <<MousePacket, MousePacketIndex, mouseVars, historyVars,
                 MousePosition, is>>

\* Each of the four flags is a read of MousePacket[0] of its own.
ReadFlag(here, value, next) ==
  /\ pc = here
  /\ is' = [is EXCEPT ![here] = value]
  /\ pc' = next
  /\ UNCHANGED <<handlerVars, mouseVars, historyVars, MousePosition, taken>>

ReadFlags ==
  \/ ReadFlag("isXNegative", PS2_X_SIGN(MousePacket[1]), "isYNegative")
  \/ ReadFlag("isYNegative", PS2_Y_SIGN(MousePacket[1]), "isXOverflowed")
  \/ ReadFlag("isXOverflowed", PS2_X_OVERFLOW(MousePacket[1]), "isYOverflowed")
  \/ ReadFlag("isYOverflowed", PS2_Y_OVERFLOW(MousePacket[1]), "moveX")

\* What a movement byte and its flags stand for.
Movement(byte, isNegative, isOverflowed) ==
  (IF isNegative THEN byte - 256 ELSE byte)
    + (IF isOverflowed THEN (IF isNegative THEN -255 ELSE 255) ELSE 0)

MoveX ==
  /\ pc = "moveX"
  /\ MousePosition' =
       [MousePosition EXCEPT !.X =
          (@ + Movement(MousePacket[2], is.isXNegative, is.isXOverflowed))
             % UintModulus]
  /\ pc' = "moveY"
  /\ UNCHANGED <<handlerVars, mouseVars, historyVars, is, taken>>

MoveY ==
  /\ pc = "moveY"
  /\ MousePosition' =
       [MousePosition EXCEPT !.Y =
          (@ - Movement(MousePacket[3], is.isYNegative, is.isYOverflowed))
             % UintModulus]
  /\ pc' = "clamp"
  /\ UNCHANGED <<handlerVars, mouseVars, historyVars, is, taken>>

\* math::clamp; low is 0 and the value unsigned, so the first test never holds.
clamp(value, low, high) ==
  IF value < low THEN low ELSE IF value > high THEN high ELSE value

\* MUTANT FORM of Clamp: the size of the glyph is forgotten.
ClampToBuffer ==
  /\ pc = "clamp"
  /\ MousePosition' = [X |-> clamp(MousePosition.X, 0, Width),
                       Y |-> clamp(MousePosition.Y, 0, Height)]
  /\ pc' = "draw"
  /\ UNCHANGED <<handlerVars, mouseVars, historyVars, is, taken>>

Clamp ==
  /\ pc = "clamp"
  /\ MousePosition' = [X |-> clamp(MousePosition.X, 0, Width - 8),
                       Y |-> clamp(MousePosition.Y, 0, Height - 16)]
  /\ pc' = "draw"
  /\ UNCHANGED <<handlerVars, mouseVars, historyVars, is, taken>>

\* _putChar at the pointer; the main loop then starts over.
Draw ==
  /\ pc = "draw"
  /\ pc' = "poll"
  /\ is' = NoLocals
  /\ UNCHANGED <<handlerVars, mouseVars, historyVars, MousePosition, taken>>

Main == Poll \/ Clear \/ ReadFlags \/ MoveX \/ MoveY \/ Clamp \/ Draw

Next == ReportByte \/ SurplusMouse \/ SurplusKeyboard \/ Main

Spec == Init /\ [][Next]_vars

\* The main loop never blocks and every interrupt returns.
FairSpec == Spec /\ WF_vars(Main)

-----------------------------------------------------------------------------
(***************************************************************************)
(* Properties.                                                             *)
(***************************************************************************)

Reading == {"isXNegative", "isYNegative", "isXOverflowed", "isYOverflowed",
            "moveX", "moveY"}

Coordinate == 0 .. (UintModulus - 1)

TypeOK ==
  /\ MousePacket \in [Slot -> Byte]
  /\ MousePacketIndex \in 0 .. 2
  /\ IsMousePacketReady \in BOOLEAN
  /\ MousePosition \in [X : Coordinate, Y : Coordinate]
  /\ pc \in {"poll", "clear", "clamp", "draw"} \cup Reading
  /\ is \in Locals
  /\ report \in Reports /\ phase \in Slot
  /\ latched \subseteq Line /\ dropped \in BOOLEAN
  /\ origin \in [Slot -> [follows : BOOLEAN, packet : 0 .. (PacketNumbers - 1)]]
  /\ taken \in 0 .. (PacketNumbers - 1)
  /\ inStep \in BOOLEAN

\* The bytes of a packet are what the handler read in calls one after the
\* other, the first looks like a first byte, and none is collected while a
\* packet waits: the handler drops bytes only between packets, never inside
\* one, also when it is out of step with the mouse's reports.
PacketBytesConsecutive ==
  LET collected == IF IsMousePacketReady THEN 3 ELSE MousePacketIndex
  IN /\ IsMousePacketReady => MousePacketIndex = 0
     /\ collected > 0 => IsFirstByte(MousePacket[1])
     /\ \A i \in 1 .. collected : origin[i].follows

\* Until a byte is dropped or read out of turn, a packet is exactly the
\* report the mouse sent, whatever the main loop does meanwhile.
PacketIsTheReport ==
  inStep => /\ MousePacketIndex = phase - 1 \/ IsMousePacketReady
            /\ IsMousePacketReady => phase = 1 /\ MousePacket = report

\* The flag is cleared before the packet is read, so the handler may replace
\* bytes not read yet; but it can start one packet at most, and from the
\* front: what is read mixes two successive packets, never an older byte
\* after a newer one is gone.
MixesAtMostTwoPackets ==
  pc \in Reading =>
    /\ \A i \in Slot : origin[i].packet \in {taken, NextNumber(taken)}
    /\ \A i, j \in Slot :
         i < j /\ origin[j].packet # taken => origin[i].packet # taken

\* Whatever bytes arrive, in whatever order, the dot drawn lies inside the
\* frame buffer: no write goes past it.
DotOnScreen ==
  pc \notin {"moveY", "clamp"} =>
    MousePosition.X + 8 <= Width /\ MousePosition.Y + 16 <= Height

\* A packet that is ready is taken, so the handler never stays deaf.
PendingPacketTaken == IsMousePacketReady ~> ~IsMousePacketReady
=============================================================================
