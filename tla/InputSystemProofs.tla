-------------------------- MODULE InputSystemProofs --------------------------
(***************************************************************************)
(* Theorems about InputSystem, for every configuration and every masks the *)
(* firmware may leave, every code the devices send and every time-out.     *)
(* The inductive invariant IInv follows the set-up instruction by          *)
(* instruction, as far as interrupts depend on it, and relates the lines   *)
(* of the PS/2 controller to the requests they made.                       *)
(***************************************************************************)
EXTENDS InputSystem, TLAPS

\* No handler runs before the set-up ends: its instructions up to lidt come
\* before the table is loaded, the others run with interrupts disabled.
SettingUp ==
  /\ ~Running => handler = "none"
  /\ loaded => pc > 7
  /\ 6 < pc /\ ~Running => interruptFlag = FALSE
  /\ handler # "none" => interruptFlag = FALSE

\* registerInterrupt comes before what it is needed for.
Registered ==
  /\ pc > 4 => 33 \in DOMAIN idt /\ idt[33] = "keyboard: read"
  /\ pc > 5 => 44 \in DOMAIN idt /\ idt[44] = "mouse: read"

\* Where each chip is in the sequence of words remapPIC sends it.
Expected(behind) ==
  CASE behind < 0                    -> "mask"
    [] behind >= 0 /\ behind < 2     -> "ICW2"
    [] behind >= 2 /\ behind < 4     -> "ICW3"
    [] behind >= 4 /\ behind < 6     -> "ICW4"
    [] behind >= 6                   -> "mask"

Remapped ==
  /\ pic.master.expects = Expected(pc - 11)
  /\ pic.slave.expects = Expected(pc - 12)
  /\ pc > 12 => pic.master.base = 32
  /\ pc > 13 => pic.slave.base = 40
  /\ pc > 42 => pic.master.imr = Line \ {1, 2}
  /\ pc > 43 => pic.slave.imr = Line \ {4}

\* initPS2Mouse sends the controller four commands.
CommandsKnown ==
  ctl.written.port = PS2_COMMAND =>
    ctl.written.value \in {ENABLE_AUX, READ_CONFIG, WRITE_CONFIG, TO_MOUSE}

\* From initPS2Mouse's first read on, no byte waits without a request.
Awake ==
  pc > 24 => /\ KeyboardLine(ctl) => KeyboardRequest
             /\ MouseLine(ctl) => MouseRequest

IInv ==
  /\ TypeOK /\ HandlerMatchesInService
  /\ SettingUp /\ Registered /\ Remapped
  /\ CommandsKnown /\ Awake

-----------------------------------------------------------------------------
(***************************************************************************)
(* The program, written out.                                               *)
(***************************************************************************)

LEMMA ProgramLength == Len(Program) = 44
BY DEF Program, prepareInterrupts, remapPIC, initPS2Mouse, mouseWrite, mouseRead

LEMMA ProgramStart ==
  /\ Program[1] = Register(8, "DoubleFault")
  /\ Program[2] = Register(13, "GeneralProtectionFault")
  /\ Program[3] = Register(14, "PageFault")
  /\ Program[4] = Register(33, "keyboard: read")
  /\ Program[5] = Register(44, "mouse: read")
  /\ Program[6] = Cli /\ Program[7] = Lidt
BY DEF Program, prepareInterrupts, remapPIC, initPS2Mouse, mouseWrite, mouseRead

LEMMA ProgramRemaps ==
  /\ Program[8] = In(PIC_MASTER_DATA, "picMasterMask")
  /\ Program[9] = In(PIC_SLAVE_DATA, "picSlaveMask")
  /\ Program[10] = Out(PIC_MASTER_COMMAND, ICW1)
  /\ Program[11] = Out(PIC_SLAVE_COMMAND, ICW1)
  /\ Program[12] = Out(PIC_MASTER_DATA, 32)
  /\ Program[13] = Out(PIC_SLAVE_DATA, 40)
  /\ Program[14] = Out(PIC_MASTER_DATA, 4)
  /\ Program[15] = Out(PIC_SLAVE_DATA, 2)
  /\ Program[16] = Out(PIC_MASTER_DATA, 1)
  /\ Program[17] = Out(PIC_SLAVE_DATA, 1)
  /\ Program[18] = OutLocal(PIC_MASTER_DATA, "picMasterMask")
  /\ Program[19] = OutLocal(PIC_SLAVE_DATA, "picSlaveMask")
BY DEF Program, prepareInterrupts, remapPIC, initPS2Mouse, mouseWrite, mouseRead

LEMMA ProgramConfigures ==
  /\ Program[20] = Out(PS2_COMMAND, ENABLE_AUX)
  /\ Program[21] = mouseWait
  /\ Program[22] = Out(PS2_COMMAND, READ_CONFIG)
  /\ Program[23] = mouseWaitInput
  /\ Program[24] = In(PS2_DATA, "status")
  /\ Program[25] = mouseWait
  /\ Program[26] = Out(PS2_COMMAND, WRITE_CONFIG)
  /\ Program[27] = mouseWait
  /\ Program[28] = OutLocal(PS2_DATA, "status")
  /\ Program[29] = mouseWait
BY DEF Program, prepareInterrupts, remapPIC, initPS2Mouse, mouseWrite, mouseRead

LEMMA ProgramStartsMouse ==
  /\ Program[30] = mouseWait
  /\ Program[31] = Out(PS2_COMMAND, TO_MOUSE)
  /\ Program[32] = mouseWait
  /\ Program[33] = Out(PS2_DATA, SET_DEFAULTS)
  /\ Program[34] = mouseWaitInput
  /\ Program[35] = In(PS2_DATA, "ignored")
  /\ Program[36] = mouseWait
  /\ Program[37] = Out(PS2_COMMAND, TO_MOUSE)
  /\ Program[38] = mouseWait
  /\ Program[39] = Out(PS2_DATA, ENABLE_REPORTING)
  /\ Program[40] = mouseWaitInput
  /\ Program[41] = In(PS2_DATA, "ignored")
BY DEF Program, prepareInterrupts, remapPIC, initPS2Mouse, mouseWrite, mouseRead

LEMMA ProgramEnds ==
  /\ Program[42] = Out(PIC_MASTER_DATA, Line \ {1, 2})
  /\ Program[43] = Out(PIC_SLAVE_DATA, Line \ {4})
  /\ Program[44] = Sti
BY DEF Program, prepareInterrupts, remapPIC, initPS2Mouse, mouseWrite, mouseRead

\* Which instructions are of which kind.
LEMMA Kinds ==
  /\ \A i \in 1 .. 44 : Program[i].op = "register" => i <= 5
  /\ \A i \in 1 .. 44 : Program[i].op = "cli" => i = 6
  /\ \A i \in 1 .. 44 : Program[i].op = "lidt" => i = 7
  /\ \A i \in 1 .. 44 : Program[i].op = "sti" => i = 44
  /\ \A i \in 1 .. 44 : Program[i].op = "in" => i \in {8, 9, 24, 35, 41}
  /\ \A i \in 1 .. 44 : Program[i].op = "outLocal" => i \in {18, 19, 28}
  /\ \A i \in 1 .. 44 : Program[i].op = "out" =>
       i \in (10 .. 17) \cup {20, 22, 26, 31, 33, 37, 39, 42, 43}
  /\ \A i \in 1 .. 44 : Program[i].op = "wait" =>
       i \in {21, 23, 25, 27, 29, 30, 32, 34, 36, 38, 40}
<1>1. \A i \in {1, 2, 3, 4, 5} : Program[i].op = "register"
  <2>1. \A v, n : Register(v, n).op = "register"
    BY DEF Register
  <2>2. /\ Program[1].op = "register" /\ Program[2].op = "register"
        /\ Program[3].op = "register" /\ Program[4].op = "register"
        /\ Program[5].op = "register"
    BY <2>1, ProgramStart, Zenon
  <2> QED
    BY <2>2
<1>2. Program[6].op = "cli" /\ Program[7].op = "lidt" /\ Program[44].op = "sti"
  <2>1. Cli.op = "cli" /\ Lidt.op = "lidt" /\ Sti.op = "sti"
    BY DEF Cli, Lidt, Sti
  <2> QED
    BY <2>1, ProgramStart, ProgramEnds
<1>3. \A i \in {8, 9, 24, 35, 41} : Program[i].op = "in"
  BY ProgramRemaps, ProgramConfigures, ProgramStartsMouse DEF In
<1>4. \A i \in {18, 19, 28} : Program[i].op = "outLocal"
  BY ProgramRemaps, ProgramConfigures DEF OutLocal
<1>5. \A i \in {10, 11, 12, 13, 14, 15, 16, 17, 20, 22, 26, 31, 33, 37, 39, 42, 43} :
        Program[i].op = "out"
  BY ProgramRemaps, ProgramConfigures, ProgramStartsMouse, ProgramEnds DEF Out
<1>6. \A i \in {21, 23, 25, 27, 29, 30, 32, 34, 36, 38, 40} : Program[i].op = "wait"
  BY ProgramConfigures, ProgramStartsMouse DEF mouseWait, mouseWaitInput
<1>7. \A i \in 1 .. 44 :
        \/ i \in {1, 2, 3, 4, 5} \/ i \in {6, 7, 44} \/ i \in {8, 9, 24, 35, 41}
        \/ i \in {18, 19, 28}
        \/ i \in {10, 11, 12, 13, 14, 15, 16, 17, 20, 22, 26, 31, 33, 37, 39, 42, 43}
        \/ i \in {21, 23, 25, 27, 29, 30, 32, 34, 36, 38, 40}
  OBVIOUS
<1> SUFFICES ASSUME NEW i \in 1 .. 44
             PROVE  /\ Program[i].op = "register" => i <= 5
                    /\ Program[i].op = "cli" => i = 6
                    /\ Program[i].op = "lidt" => i = 7
                    /\ Program[i].op = "sti" => i = 44
                    /\ Program[i].op = "in" => i \in {8, 9, 24, 35, 41}
                    /\ Program[i].op = "outLocal" => i \in {18, 19, 28}
                    /\ Program[i].op = "out" =>
                         i \in (10 .. 17) \cup {20, 22, 26, 31, 33, 37, 39, 42, 43}
                    /\ Program[i].op = "wait" =>
                         i \in {21, 23, 25, 27, 29, 30, 32, 34, 36, 38, 40}
  BY Zenon
<1>8. CASE i \in {1, 2, 3, 4, 5}
  BY <1>1, <1>8
<1>9. CASE i \in {6, 7, 44}
  BY <1>2, <1>9
<1>10. CASE i \in {8, 9, 24, 35, 41}
  BY <1>3, <1>10
<1>11. CASE i \in {18, 19, 28}
  BY <1>4, <1>11
<1>12. CASE i \in {10, 11, 12, 13, 14, 15, 16, 17, 20, 22, 26, 31, 33, 37, 39, 42, 43}
  BY <1>5, <1>12
<1>13. CASE i \in {21, 23, 25, 27, 29, 30, 32, 34, 36, 38, 40}
  BY <1>6, <1>13
<1> QED
  BY <1>7, <1>8, <1>9, <1>10, <1>11, <1>12, <1>13, Zenon

-----------------------------------------------------------------------------
(***************************************************************************)
(* The devices' registers.                                                 *)
(***************************************************************************)

LEMMA BitsOfBytes ==
  ASSUME NEW byte \in Byte
  PROVE  WithBit(byte, MOUSE_INTERRUPT) \in Byte /\ WithoutBit(byte, MOUSE_DISABLED) \in Byte
<1>1. Bit(byte, 32) => byte >= 32
  BY DEF Bit, Byte
<1>2. ~Bit(byte, 2) => byte + 2 <= 255
  BY DEF Bit, Byte
<1> QED
  BY <1>1, <1>2 DEF WithBit, WithoutBit, MOUSE_INTERRUPT, MOUSE_DISABLED, Byte

\* ICW1 forgets every request and every interrupt in service.
LEMMA Initialised ==
  ASSUME NEW chip \in Chip
  PROVE  LET c == AfterCommand(chip, ICW1)
         IN c \in Chip /\ c.isr = {} /\ c.expects = "ICW2" /\ c.base = chip.base
BY DEF AfterCommand, Chip

\* The end of an interrupt touches nothing but the lines in service.
LEMMA Ended ==
  ASSUME NEW chip \in Chip
  PROVE  LET c == AfterCommand(chip, PIC_EOI)
         IN /\ c \in Chip /\ c.irr = chip.irr /\ c.imr = chip.imr
            /\ c.base = chip.base /\ c.expects = chip.expects
            /\ c.isr = {n \in chip.isr : \E k \in chip.isr : k < n}
BY DEF AfterCommand, Chip, ICW1, PIC_EOI

\* A data word goes where the last command sends it.
LEMMA Programmed ==
  ASSUME NEW chip \in Chip, NEW value,
         chip.expects = "ICW2" => value \in Nat,
         chip.expects = "mask" => value \in SUBSET Line
  PROVE  LET c == AfterData(chip, value)
         IN /\ c \in Chip /\ c.irr = chip.irr /\ c.isr = chip.isr
            /\ c.base = IF chip.expects = "ICW2" THEN value ELSE chip.base
            /\ c.imr = IF chip.expects = "mask" THEN value ELSE chip.imr
            /\ c.expects = CASE chip.expects = "ICW2" -> "ICW3"
                             [] chip.expects = "ICW3" -> "ICW4"
                             [] chip.expects = "ICW4" -> "mask"
                             [] chip.expects = "mask" -> "mask"
<1>1. CASE chip.expects = "ICW2"
  BY <1>1 DEF AfterData, Chip
<1>2. CASE chip.expects = "ICW3"
  BY <1>2 DEF AfterData, Chip
<1>3. CASE chip.expects = "ICW4"
  BY <1>3 DEF AfterData, Chip
<1>4. CASE chip.expects = "mask"
  BY <1>4 DEF AfterData, Chip
<1> QED
  BY <1>1, <1>2, <1>3, <1>4 DEF Chip

\* What a change of the PS/2 controller does to the requests.
LEMMA LineChanges ==
  ASSUME NEW irr \in SUBSET Line, NEW n \in Line,
         NEW before \in BOOLEAN, NEW after \in BOOLEAN,
         NEW new \in Requests(irr, n, before, after)
  PROVE  /\ new \in SUBSET Line
         /\ after => n \in new \/ (before /\ n \notin irr)
         /\ n \in new => n \in irr \/ (after /\ ~before)
         /\ before <=> after => new = irr
         /\ ~before /\ ~after => new = irr
<1>1. CASE ~before /\ after
  BY <1>1 DEF Requests
<1>2. CASE before /\ ~after
  BY <1>2 DEF Requests
<1>3. CASE before <=> after
  BY <1>3 DEF Requests
<1> QED
  BY <1>1, <1>2, <1>3

LEMMA LinesAreBoolean ==
  ASSUME NEW c
  PROVE  KeyboardLine(c) \in BOOLEAN /\ MouseLine(c) \in BOOLEAN
BY DEF KeyboardLine, MouseLine

LEMMA ControllerSet ==
  ASSUME pic \in [master : Chip, slave : Chip], NEW c, SetController(c)
  PROVE  /\ ctl' = c
         /\ pic' \in [master : Chip, slave : Chip]
         /\ pic'.master.isr = pic.master.isr /\ pic'.slave.isr = pic.slave.isr
         /\ pic'.master.imr = pic.master.imr /\ pic'.slave.imr = pic.slave.imr
         /\ pic'.master.base = pic.master.base /\ pic'.slave.base = pic.slave.base
         /\ pic'.master.expects = pic.master.expects
         /\ pic'.slave.expects = pic.slave.expects
         /\ KeyboardLine(c) => 1 \in pic'.master.irr
                               \/ (KeyboardLine(ctl) /\ 1 \notin pic.master.irr)
         /\ 1 \in pic'.master.irr => 1 \in pic.master.irr
                                     \/ (KeyboardLine(c) /\ ~KeyboardLine(ctl))
         /\ MouseLine(c) => 4 \in pic'.slave.irr
                            \/ (MouseLine(ctl) /\ 4 \notin pic.slave.irr)
         /\ 4 \in pic'.slave.irr => 4 \in pic.slave.irr
                                    \/ (MouseLine(c) /\ ~MouseLine(ctl))
<1>1. PICK m \in Requests(pic.master.irr, 1, KeyboardLine(ctl), KeyboardLine(c)),
           s \in Requests(pic.slave.irr, 4, MouseLine(ctl), MouseLine(c)) :
             pic' = [pic EXCEPT !.master.irr = m, !.slave.irr = s]
  BY DEF SetController
<1>2. /\ pic.master \in Chip /\ pic.slave \in Chip
      /\ pic.master.irr \in SUBSET Line /\ pic.slave.irr \in SUBSET Line
      /\ 1 \in Line /\ 4 \in Line
  BY DEF Chip, Line
<1>3. /\ m \in SUBSET Line
      /\ KeyboardLine(c) => 1 \in m \/ (KeyboardLine(ctl) /\ 1 \notin pic.master.irr)
      /\ 1 \in m => 1 \in pic.master.irr \/ (KeyboardLine(c) /\ ~KeyboardLine(ctl))
  BY <1>2, LineChanges, LinesAreBoolean
<1>4. /\ s \in SUBSET Line
      /\ MouseLine(c) => 4 \in s \/ (MouseLine(ctl) /\ 4 \notin pic.slave.irr)
      /\ 4 \in s => 4 \in pic.slave.irr \/ (MouseLine(c) /\ ~MouseLine(ctl))
  BY <1>2, LineChanges, LinesAreBoolean
<1>5. /\ pic'.master = [pic.master EXCEPT !.irr = m]
      /\ pic'.slave = [pic.slave EXCEPT !.irr = s]
      /\ pic' = [master |-> pic'.master, slave |-> pic'.slave]
  BY <1>1
<1>6. /\ pic'.master \in Chip /\ pic'.slave \in Chip
      /\ pic'.master.irr = m /\ pic'.slave.irr = s
      /\ pic'.master.isr = pic.master.isr /\ pic'.slave.isr = pic.slave.isr
      /\ pic'.master.imr = pic.master.imr /\ pic'.slave.imr = pic.slave.imr
      /\ pic'.master.base = pic.master.base /\ pic'.slave.base = pic.slave.base
      /\ pic'.master.expects = pic.master.expects
      /\ pic'.slave.expects = pic.slave.expects
  BY <1>2, <1>3, <1>4, <1>5 DEF Chip
<1>7. ctl' = c
  BY DEF SetController
<1> QED
  BY <1>3, <1>4, <1>5, <1>6, <1>7

-----------------------------------------------------------------------------
(***************************************************************************)
(* The devices' steps.                                                     *)
(***************************************************************************)

\* The chips differ from what they were in their requests only.
OnlyRequests ==
  /\ pic' \in [master : Chip, slave : Chip]
  /\ pic'.master.isr = pic.master.isr /\ pic'.slave.isr = pic.slave.isr
  /\ pic'.master.imr = pic.master.imr /\ pic'.slave.imr = pic.slave.imr
  /\ pic'.master.base = pic.master.base /\ pic'.slave.base = pic.slave.base
  /\ pic'.master.expects = pic.master.expects
  /\ pic'.slave.expects = pic.slave.expects

LEMMA RequestsOnly ==
  ASSUME IInv, OnlyRequests, UNCHANGED processorVars
  PROVE  HandlerMatchesInService' /\ SettingUp' /\ Registered' /\ Remapped'
<1>1. UNCHANGED <<pc, local, polls, idt, loaded, interruptFlag, handler>>
  BY DEF processorVars, setUpVars
<1>2. HandlerMatchesInService'
  BY <1>1 DEF IInv, HandlerMatchesInService, OnlyRequests
<1>3. SettingUp' /\ Registered'
  BY <1>1 DEF IInv, SettingUp, Registered, Running
<1>4. Remapped'
  BY <1>1 DEF IInv, Remapped, OnlyRequests
<1> QED
  BY <1>2, <1>3, <1>4

LEMMA AwakeWhenSet ==
  ASSUME IInv, NEW c, SetController(c), UNCHANGED <<pc, handler>>
  PROVE  Awake' /\ OnlyRequests
<1>1. pic \in [master : Chip, slave : Chip]
  BY DEF IInv, TypeOK
<1>2. OnlyRequests
  BY <1>1, ControllerSet DEF OnlyRequests
<1>3. /\ ctl' = c
      /\ KeyboardLine(c) => 1 \in pic'.master.irr
                            \/ (KeyboardLine(ctl) /\ 1 \notin pic.master.irr)
      /\ MouseLine(c) => 4 \in pic'.slave.irr
                         \/ (MouseLine(ctl) /\ 4 \notin pic.slave.irr)
  BY <1>1, ControllerSet
<1>4. pc > 24 => /\ KeyboardLine(c) => 1 \in pic'.master.irr \/ handler = "keyboard: read"
                 /\ MouseLine(c) => 4 \in pic'.slave.irr \/ handler = "mouse: read"
  BY <1>3 DEF IInv, Awake, KeyboardRequest, MouseRequest
<1>5. Awake'
  BY <1>3, <1>4 DEF Awake, KeyboardRequest, MouseRequest
<1> QED
  BY <1>2, <1>5

\* The types of the variables no device changes.
ProcessorTypes ==
  /\ pc \in 1 .. (Len(Program) + 1) /\ polls \in 1 .. Timeout
  /\ local \in [picMasterMask : SUBSET Line, picSlaveMask : SUBSET Line,
                status : Byte]
  /\ interruptFlag \in BOOLEAN /\ loaded \in BOOLEAN
  /\ handler \in HandlerPoint

DeviceTypes ==
  /\ keyboard \in Seq(Byte) /\ mouse \in Seq(Byte)
  /\ reporting \in BOOLEAN

HistoryTypes == found \in Byte /\ disturbed \in BOOLEAN

LEMMA Types ==
  TypeOK <=> /\ ProcessorTypes /\ DeviceTypes /\ HistoryTypes
             /\ pic \in [master : Chip, slave : Chip] /\ ctl \in Controller
BY Zenon DEF TypeOK, ProcessorTypes, DeviceTypes, HistoryTypes

LEMMA ProcessorTypesKept ==
  ASSUME ProcessorTypes, UNCHANGED processorVars
  PROVE  ProcessorTypes'
BY DEF ProcessorTypes, processorVars, setUpVars

LEMMA TypesParts ==
  ASSUME IInv
  PROVE  /\ ProcessorTypes /\ DeviceTypes /\ HistoryTypes
         /\ pic \in [master : Chip, slave : Chip] /\ ctl \in Controller
BY Types, Zenon DEF IInv

LEMMA TypesAgain ==
  ASSUME ProcessorTypes', DeviceTypes', HistoryTypes',
         pic' \in [master : Chip, slave : Chip], ctl' \in Controller
  PROVE  TypeOK'
BY Zenon DEF TypeOK, ProcessorTypes, DeviceTypes, HistoryTypes

\* A device that sets the controller keeps the invariant, once its types and
\* what was written to it are right.
LEMMA DeviceSets ==
  ASSUME IInv, NEW c \in Controller, SetController(c), UNCHANGED processorVars,
         DeviceTypes', HistoryTypes',
         c.written = ctl.written \/ c.written = Nothing
  PROVE  IInv'
<1>1. UNCHANGED <<pc, handler>>
  BY DEF processorVars, setUpVars
<1>2. Awake' /\ OnlyRequests
  BY <1>1, AwakeWhenSet
<1>3. HandlerMatchesInService' /\ SettingUp' /\ Registered' /\ Remapped'
  BY <1>2, RequestsOnly
<1>4. ctl' = c
  BY DEF SetController
<1>5. CommandsKnown'
  BY <1>4 DEF IInv, CommandsKnown, Nothing, PS2_COMMAND
<1>6. TypeOK'
  BY <1>2, <1>4, TypesParts, ProcessorTypesKept, TypesAgain DEF OnlyRequests
<1> QED
  BY <1>2, <1>3, <1>5, <1>6 DEF IInv

LEMMA BytesSent ==
  /\ ACK \in Byte /\ ENABLE_AUX \in Byte /\ READ_CONFIG \in Byte
  /\ WRITE_CONFIG \in Byte /\ TO_MOUSE \in Byte /\ SET_DEFAULTS \in Byte
  /\ ENABLE_REPORTING \in Byte /\ 0 \in Byte
BY DEF ACK, ENABLE_AUX, READ_CONFIG, WRITE_CONFIG, TO_MOUSE, SET_DEFAULTS,
       ENABLE_REPORTING, Byte

LEMMA TakeCommandStep ==
  ASSUME IInv, TakeCommand
  PROVE  IInv'
<1> DEFINE taken == [ctl EXCEPT !.written = Nothing]
<1>a. ctl \in Controller /\ taken \in Controller /\ taken.config = ctl.config
      /\ taken.written = Nothing
  BY TypesParts DEF Controller, Nothing, Byte
<1>b. ctl.written.value \in {ENABLE_AUX, READ_CONFIG, WRITE_CONFIG, TO_MOUSE}
  BY DEF IInv, CommandsKnown, TakeCommand
<1>c. UNCHANGED processorVars /\ DeviceTypes' /\ HistoryTypes'
  BY TypesParts DEF TakeCommand, DeviceTypes, HistoryTypes, deviceVars, historyVars
<1>d. /\ ENABLE_AUX # READ_CONFIG /\ ENABLE_AUX # WRITE_CONFIG /\ ENABLE_AUX # TO_MOUSE
      /\ READ_CONFIG # WRITE_CONFIG /\ READ_CONFIG # TO_MOUSE /\ WRITE_CONFIG # TO_MOUSE
  BY DEF ENABLE_AUX, READ_CONFIG, WRITE_CONFIG, TO_MOUSE
<1>e. WithoutBit(taken.config, MOUSE_DISABLED) \in Byte
  BY <1>a, BitsOfBytes DEF Controller
<1> DEFINE result ==
       CASE ctl.written.value = ENABLE_AUX   ->
              [taken EXCEPT !.config = WithoutBit(@, MOUSE_DISABLED)]
         [] ctl.written.value = READ_CONFIG  -> [taken EXCEPT !.answers = TRUE]
         [] ctl.written.value = WRITE_CONFIG -> [taken EXCEPT !.expects = "config"]
         [] ctl.written.value = TO_MOUSE     -> [taken EXCEPT !.expects = "mouse"]
<1>1. SetController(result)
  BY DEF TakeCommand
<1> HIDE DEF taken
<1>2. result \in Controller /\ result.written = Nothing
  <2>1. CASE ctl.written.value = ENABLE_AUX
    BY <2>1, <1>a, <1>d, <1>e DEF Controller
  <2>2. CASE ctl.written.value = READ_CONFIG
    BY <2>2, <1>a, <1>d DEF Controller
  <2>3. CASE ctl.written.value = WRITE_CONFIG
    BY <2>3, <1>a, <1>d DEF Controller
  <2>4. CASE ctl.written.value = TO_MOUSE
    BY <2>4, <1>a, <1>d DEF Controller
  <2> QED
    BY <1>b, <2>1, <2>2, <2>3, <2>4
<1> HIDE DEF result
<1> QED
  BY <1>1, <1>2, <1>c, DeviceSets

LEMMA TakeDataStep ==
  ASSUME IInv, TakeData
  PROVE  IInv'
<1> DEFINE taken == [ctl EXCEPT !.written = Nothing, !.expects = "keyboard"]
           result == IF ctl.expects = "config"
                     THEN [taken EXCEPT !.config = ctl.written.value] ELSE taken
<1>1. SetController(result)
  BY DEF TakeData
<1>a. taken \in Controller /\ taken.written = Nothing /\ ctl.written.value \in Byte
  <2>1. Nothing \in [port : {0, PS2_DATA, PS2_COMMAND}, value : Byte]
    BY DEF Nothing, Byte
  <2>2. ctl \in Controller /\ ctl.written.value \in Byte
    BY TypesParts DEF Controller
  <2> QED
    BY <2>1, <2>2 DEF Controller
<1>2. result \in Controller /\ result.written = Nothing
  <2> HIDE DEF taken
  <2> QED
    BY <1>a DEF Controller
<1>3. DeviceTypes'
  <2>1. mouse' \in Seq(Byte) /\ keyboard' \in Seq(Byte)
    BY TypesParts, BytesSent DEF TakeData, DeviceTypes
  <2>2. reporting' \in BOOLEAN
    BY TypesParts DEF TakeData, DeviceTypes
  <2> QED
    BY <2>1, <2>2 DEF DeviceTypes
<1>4. HistoryTypes' /\ UNCHANGED processorVars
  BY TypesParts DEF TakeData, HistoryTypes, historyVars
<1> HIDE DEF result
<1> QED
  BY <1>1, <1>2, <1>3, <1>4, DeviceSets

LEMMA FilledIsController ==
  ASSUME IInv, NEW source \in Source, NEW byte \in Byte
  PROVE  Filled(source, byte) \in Controller /\ Filled(source, byte).written = ctl.written
BY TypesParts DEF Filled, Controller

LEMMA FillStep ==
  ASSUME IInv, FillWithAnswer \/ FillFromKeyboard \/ FillFromMouse
  PROVE  IInv'
<1>1. CASE FillWithAnswer
  <2> DEFINE result == [Filled("controller", ctl.config) EXCEPT !.answers = FALSE]
  <2>1. SetController(result)
    BY <1>1 DEF FillWithAnswer
  <2>2. result \in Controller /\ result.written = ctl.written
    BY TypesParts DEF Filled, Controller, Source
  <2>3. DeviceTypes' /\ HistoryTypes' /\ UNCHANGED processorVars
    BY <1>1, TypesParts DEF FillWithAnswer, DeviceTypes, HistoryTypes, deviceVars, historyVars
  <2> HIDE DEF result
  <2> QED
    BY <2>1, <2>2, <2>3, DeviceSets
<1>2. CASE FillFromKeyboard
  <2>1. keyboard \in Seq(Byte) /\ keyboard # <<>>
    BY <1>2, TypesParts DEF FillFromKeyboard, DeviceTypes
  <2>2. Head(keyboard) \in Byte /\ Tail(keyboard) \in Seq(Byte)
    BY <2>1
  <2>3. DeviceTypes' /\ HistoryTypes' /\ UNCHANGED processorVars
    BY <1>2, <2>2, TypesParts DEF FillFromKeyboard, DeviceTypes, HistoryTypes
  <2>4. SetController(Filled("keyboard", Head(keyboard)))
    BY <1>2 DEF FillFromKeyboard
  <2> QED
    BY <2>2, <2>3, <2>4, FilledIsController, DeviceSets DEF Source
<1>3. CASE FillFromMouse
  <2>1. mouse \in Seq(Byte) /\ mouse # <<>>
    BY <1>3, TypesParts DEF FillFromMouse, DeviceTypes
  <2>2. Head(mouse) \in Byte /\ Tail(mouse) \in Seq(Byte)
    BY <2>1
  <2>3. DeviceTypes' /\ HistoryTypes' /\ UNCHANGED processorVars
    BY <1>3, <2>2, TypesParts DEF FillFromMouse, DeviceTypes, HistoryTypes
  <2>4. SetController(Filled("mouse", Head(mouse)))
    BY <1>3 DEF FillFromMouse
  <2> QED
    BY <2>2, <2>3, <2>4, FilledIsController, DeviceSets DEF Source
<1> QED
  BY <1>1, <1>2, <1>3

LEMMA OthersStep ==
  ASSUME IInv, KeyStroke \/ MouseReports \/ TimerTick
  PROVE  IInv'
<1>1. CASE KeyStroke \/ MouseReports
  <2>1. UNCHANGED <<processorVars, pic, ctl>>
    BY <1>1 DEF KeyStroke, MouseReports
  <2>2. UNCHANGED <<pc, handler>> /\ OnlyRequests
    BY <2>1, TypesParts DEF processorVars, setUpVars, OnlyRequests
  <2>3. DeviceTypes' /\ HistoryTypes'
    <3>1. keyboard' \in Seq(Byte) /\ mouse' \in Seq(Byte)
      <4>1. keyboard \in Seq(Byte) /\ mouse \in Seq(Byte)
        BY TypesParts DEF DeviceTypes
      <4>2. CASE KeyStroke
        BY <4>1, <4>2, DevicesAssumption DEF KeyStroke
      <4>3. CASE MouseReports
        <5>1. PICK byte \in MouseBytes : mouse' = <<byte>>
          BY <4>3 DEF MouseReports
        <5>2. byte \in Byte
          BY DevicesAssumption
        <5> QED
          BY <4>1, <4>3, <5>1, <5>2 DEF MouseReports
      <4> QED
        BY <1>1, <4>2, <4>3
    <3>2. reporting' = reporting /\ UNCHANGED historyVars
      BY <1>1 DEF KeyStroke, MouseReports
    <3> QED
      BY <3>1, <3>2, TypesParts DEF DeviceTypes, HistoryTypes, historyVars
  <2>4. TypeOK'
    BY <2>1, <2>3, TypesParts, ProcessorTypesKept, TypesAgain
  <2>5. Awake' /\ CommandsKnown'
    BY <2>1, <2>2 DEF IInv, Awake, KeyboardRequest, MouseRequest, CommandsKnown
  <2> QED
    BY <2>1, <2>2, <2>4, <2>5, RequestsOnly DEF IInv
<1>2. CASE TimerTick
  <2>1. /\ UNCHANGED <<processorVars, ctl, deviceVars, historyVars>>
        /\ pic' = [pic EXCEPT !.master.irr = @ \cup {0}]
    BY <1>2 DEF TimerTick
  <2>2. /\ pic'.master = [pic.master EXCEPT !.irr = @ \cup {0}]
        /\ pic'.slave = pic.slave /\ pic' = [master |-> pic'.master, slave |-> pic'.slave]
        /\ pic.master \in Chip /\ pic.slave \in Chip
    BY <2>1, TypesParts
  <2>3. OnlyRequests /\ pic'.master.irr = pic.master.irr \cup {0}
    BY <2>2 DEF OnlyRequests, Chip, Line
  <2>4. UNCHANGED <<pc, handler>>
    BY <2>1 DEF processorVars, setUpVars
  <2>5. Awake' /\ CommandsKnown'
    BY <2>1, <2>2, <2>3, <2>4 DEF IInv, Awake, KeyboardRequest, MouseRequest, CommandsKnown
  <2>6. DeviceTypes' /\ HistoryTypes'
    BY <2>1, TypesParts DEF DeviceTypes, HistoryTypes, deviceVars, historyVars
  <2>7. TypeOK'
    BY <2>1, <2>3, <2>6, TypesParts, ProcessorTypesKept, TypesAgain DEF OnlyRequests
  <2> QED
    BY <2>1, <2>3, <2>5, <2>7, RequestsOnly DEF IInv
<1> QED
  BY <1>1, <1>2

LEMMA DevicesStep ==
  ASSUME IInv, Devices
  PROVE  IInv'
BY TakeCommandStep, TakeDataStep, FillStep, OthersStep DEF Devices

-----------------------------------------------------------------------------
(***************************************************************************)
(* The processor's steps: the set-up.                                      *)
(***************************************************************************)

LEMMA HandlersRest ==
  ASSUME IInv, handler = "none"
  PROVE  pic.master.isr = {} /\ pic.slave.isr = {}
BY DEF IInv, HandlerMatchesInService

LEMMA AtInstruction ==
  ASSUME IInv, NEW op, NextInstruction(op)
  PROVE  /\ pc \in 1 .. 44 /\ Program[pc].op = op /\ ~Running /\ handler = "none"
         /\ pic.master.isr = {} /\ pic.slave.isr = {}
<1>1. pc \in 1 .. 45
  BY ProgramLength, TypesParts DEF ProcessorTypes
<1> QED
  BY <1>1, ProgramLength, HandlersRest DEF NextInstruction, Running

\* An instruction that touches neither the chips nor the controller.
LEMMA QuietStep ==
  ASSUME IInv, handler = "none", pc' \in 1 .. 45, pc <= pc',
         UNCHANGED <<handler, pic, ctl, deviceVars, found>>,
         disturbed' \in BOOLEAN, polls' \in 1 .. Timeout, interruptFlag' \in BOOLEAN,
         loaded' \in BOOLEAN,
         local' \in [picMasterMask : SUBSET Line, picSlaveMask : SUBSET Line,
                     status : Byte],
         pc = pc' \/ pc \notin (10 .. 24) \cup {42, 43} \/ pc \in {21, 23},
         pc' = pc \/ pc' = pc + 1,
         SettingUp', Registered'
  PROVE  IInv'
<1>1. pc \in 1 .. 45
  BY ProgramLength, TypesParts DEF ProcessorTypes
<1>2. TypeOK'
  <2>1. ProcessorTypes'
    BY ProgramLength, TypesParts DEF ProcessorTypes
  <2>2. DeviceTypes' /\ HistoryTypes'
    BY TypesParts DEF DeviceTypes, HistoryTypes, deviceVars
  <2> QED
    BY <2>1, <2>2, TypesParts, TypesAgain
<1>3. HandlerMatchesInService'
  BY DEF IInv, HandlerMatchesInService
<1>4. Remapped'
  <2>1. /\ pic.master.expects = Expected(pc - 11)
        /\ pic.slave.expects = Expected(pc - 12)
        /\ pc > 12 => pic.master.base = 32
        /\ pc > 13 => pic.slave.base = 40
        /\ pc > 42 => pic.master.imr = Line \ {1, 2}
        /\ pc > 43 => pic.slave.imr = Line \ {4}
    BY DEF IInv, Remapped
  <2>2. /\ Expected(pc' - 11) = Expected(pc - 11)
        /\ Expected(pc' - 12) = Expected(pc - 12)
    BY <1>1 DEF Expected
  <2>3. /\ pc' > 12 => pc > 12
        /\ pc' > 13 => pc > 13
        /\ pc' > 42 => pc > 42
        /\ pc' > 43 => pc > 43
    BY <1>1
  <2> QED
    BY <2>1, <2>2, <2>3 DEF Remapped
<1>5. CommandsKnown'
  BY DEF IInv, CommandsKnown
<1>6. Awake'
  <2>1. pc' > 24 => pc > 24
    BY <1>1
  <2> QED
    BY <2>1 DEF IInv, Awake, KeyboardRequest, MouseRequest
<1> QED
  BY <1>2, <1>3, <1>4, <1>5, <1>6 DEF IInv

LEMMA RegisteredKept ==
  ASSUME Registered, UNCHANGED idt, pc' > 4 => pc > 4, pc' > 5 => pc > 5
  PROVE  Registered'
BY Zenon DEF Registered

LEMMA RegisterStep ==
  ASSUME IInv, RegisterInterrupt
  PROVE  IInv'
<1>1. pc \in 1 .. 5 /\ handler = "none" /\ ~Running
  BY AtInstruction, Kinds DEF RegisterInterrupt
<1>2. /\ pc' = pc + 1
      /\ UNCHANGED <<handler, deviceVars, found, local, polls, interruptFlag, loaded,
                     pic, ctl, disturbed>>
  BY DEF RegisterInterrupt, Goto
<1>3. Registered'
  <2>1. idt' = [v \in DOMAIN idt \cup {Program[pc].vector} |->
                  IF v = Program[pc].vector THEN Program[pc].name ELSE idt[v]]
    BY Zenon DEF RegisterInterrupt
  <2>2. CASE pc < 4
    <3>1. ~(pc' > 4) /\ ~(pc' > 5)
      BY <1>1, <1>2, <2>2
    <3> QED
      BY <3>1, Zenon DEF Registered
  <2>3. CASE pc = 4
    <3>1. Program[pc] = Register(33, "keyboard: read")
      BY <2>3, ProgramStart, Zenon
    <3>2. /\ Register(33, "keyboard: read").vector = 33
          /\ Register(33, "keyboard: read").name = "keyboard: read"
      BY Zenon DEF Register
    <3>3. 33 \in DOMAIN idt' /\ idt'[33] = "keyboard: read"
      BY <2>1, <3>1, <3>2, Zenon
    <3>4. ~(pc' > 5)
      BY <1>2, <2>3
    <3> QED
      BY <3>3, <3>4, Zenon DEF Registered
  <2>4. CASE pc = 5
    <3>1. Program[pc] = Register(44, "mouse: read")
      BY <2>4, ProgramStart, Zenon
    <3>2. /\ Register(44, "mouse: read").vector = 44
          /\ Register(44, "mouse: read").name = "mouse: read"
      BY Zenon DEF Register
    <3>3. pc > 4 /\ 33 # 44
      BY <2>4
    <3>4. 33 \in DOMAIN idt /\ idt[33] = "keyboard: read"
      BY <3>3, Zenon DEF IInv, Registered
    <3>5. idt' = [v \in DOMAIN idt \cup {44} |-> IF v = 44 THEN "mouse: read" ELSE idt[v]]
      BY <2>1, <3>1, <3>2, Zenon
    <3> QED
      BY <3>3, <3>4, <3>5, Zenon DEF Registered
  <2> QED
    BY <1>1, <2>2, <2>3, <2>4
<1>4. SettingUp'
  BY <1>1, <1>2, ProgramLength DEF IInv, SettingUp, Running
<1> QED
  BY <1>1, <1>2, <1>3, <1>4, TypesParts, QuietStep DEF ProcessorTypes, HistoryTypes

LEMMA SetFlagStep ==
  ASSUME IInv, SetFlag
  PROVE  IInv'
<1>1. pc \in {6, 44} /\ handler = "none" /\ (pc = 6 => interruptFlag' = FALSE)
  <2>1. CASE NextInstruction("cli") /\ interruptFlag' = FALSE
    BY <2>1, AtInstruction, Kinds
  <2>2. CASE NextInstruction("sti") /\ interruptFlag' = TRUE
    BY <2>2, AtInstruction, Kinds
  <2> QED
    BY <2>1, <2>2 DEF SetFlag
<1>2. /\ pc' = pc + 1 /\ local' = NoLocals /\ interruptFlag' \in BOOLEAN
      /\ UNCHANGED <<handler, deviceVars, found, polls, idt, loaded, pic, ctl, disturbed>>
  BY DEF SetFlag, Goto
<1>3. Registered'
  <2>1. pc > 4 /\ pc > 5
    BY <1>1
  <2> QED
    BY <1>2, <2>1, RegisteredKept, Zenon DEF IInv
<1>4. SettingUp'
  BY <1>1, <1>2, ProgramLength DEF IInv, SettingUp, Running
<1>5. local' \in [picMasterMask : SUBSET Line, picSlaveMask : SUBSET Line, status : Byte]
  BY <1>2 DEF NoLocals, Byte
<1> QED
  BY <1>1, <1>2, <1>3, <1>4, <1>5, TypesParts, QuietStep DEF ProcessorTypes, HistoryTypes

LEMMA LoadIDTStep ==
  ASSUME IInv, LoadIDT
  PROVE  IInv'
<1>1. pc = 7 /\ handler = "none" /\ ~Running
  BY AtInstruction, Kinds DEF LoadIDT
<1>2. /\ pc' = pc + 1 /\ loaded' = TRUE
      /\ UNCHANGED <<handler, deviceVars, found, local, polls, interruptFlag, idt, pic,
                     ctl, disturbed>>
  BY DEF LoadIDT, Goto
<1>3. SettingUp'
  BY <1>1, <1>2, ProgramLength DEF IInv, SettingUp, Running
<1>r. Registered'
  <2>1. pc > 4 /\ pc > 5
    BY <1>1
  <2> QED
    BY <1>2, <2>1, RegisteredKept, Zenon DEF IInv
<1> QED
  BY <1>1, <1>2, <1>3, <1>r, TypesParts, QuietStep DEF ProcessorTypes, HistoryTypes

LEMMA PollStep ==
  ASSUME IInv, Poll
  PROVE  IInv'
<1>1. pc \in {21, 23, 25, 27, 29, 30, 32, 34, 36, 38, 40} /\ handler = "none" /\ ~Running
  BY AtInstruction, Kinds DEF Poll
<1>2. /\ pc' = pc \/ pc' = pc + 1
      /\ polls' = Timeout \/ (polls # 1 /\ polls' = polls - 1)
      /\ disturbed' \in BOOLEAN
      /\ UNCHANGED <<handler, deviceVars, found, local, interruptFlag, idt, loaded, pic,
                     ctl>>
  BY DEF Poll, Goto
<1>3. polls' \in 1 .. Timeout
  <2>1. polls \in 1 .. Timeout /\ Timeout \in Nat \ {0}
    BY TypesParts, DevicesAssumption DEF ProcessorTypes
  <2> QED
    BY <1>2, <2>1
<1>4. SettingUp'
  BY <1>1, <1>2, ProgramLength DEF IInv, SettingUp, Running
<1>r. Registered'
  <2>1. pc > 4 /\ pc > 5
    BY <1>1
  <2> QED
    BY <1>2, <2>1, RegisteredKept, Zenon DEF IInv
<1>5. /\ pc' \in 1 .. 45 /\ pc <= pc' /\ (pc' = pc \/ pc' = pc + 1)
      /\ pc \notin (10 .. 24) \cup {42, 43} \/ pc \in {21, 23}
  BY <1>1, <1>2
<1>6. /\ interruptFlag' \in BOOLEAN /\ loaded' \in BOOLEAN
      /\ local' \in [picMasterMask : SUBSET Line, picSlaveMask : SUBSET Line, status : Byte]
  BY <1>2, TypesParts DEF ProcessorTypes
<1> QED
  BY <1>1, <1>2, <1>3, <1>4, <1>5, <1>6, <1>r, QuietStep

LEMMA InPortStep ==
  ASSUME IInv, InPort
  PROVE  IInv'
<1>1. pc \in {8, 9, 24, 35, 41} /\ handler = "none" /\ ~Running
  BY AtInstruction, Kinds DEF InPort
<1>2. /\ pc' = pc + 1
      /\ UNCHANGED <<handler, deviceVars, found, polls, interruptFlag, idt, loaded, disturbed>>
  BY DEF InPort, Goto
<1>3. SettingUp'
  BY <1>1, <1>2, ProgramLength DEF IInv, SettingUp, Running
<1>r. Registered'
  <2>1. pc > 4 /\ pc > 5
    BY <1>1
  <2> QED
    BY <1>2, <2>1, RegisteredKept, Zenon DEF IInv
<1>4. /\ local \in [picMasterMask : SUBSET Line, picSlaveMask : SUBSET Line, status : Byte]
      /\ pic.master.imr \in SUBSET Line /\ pic.slave.imr \in SUBSET Line
      /\ ctl.byte \in Byte
  BY TypesParts DEF ProcessorTypes, Chip, Controller
<1>5. PIC_MASTER_DATA # PS2_DATA /\ PIC_SLAVE_DATA # PS2_DATA /\ PIC_MASTER_DATA # PIC_SLAVE_DATA
  BY DEF PIC_MASTER_DATA, PIC_SLAVE_DATA, PS2_DATA
<1>6. CASE pc \in {8, 9}
  <2>1. local' \in [picMasterMask : SUBSET Line, picSlaveMask : SUBSET Line, status : Byte]
        /\ UNCHANGED <<pic, ctl>>
    <3>1. CASE pc = 8
      <4>1. Program[pc].port = PIC_MASTER_DATA /\ Program[pc].name = "picMasterMask"
        BY <3>1, ProgramRemaps DEF In
      <4>2. local' = [local EXCEPT !["picMasterMask"] = pic.master.imr]
            /\ UNCHANGED <<pic, ctl>>
        BY <4>1, <1>5 DEF InPort
      <4> QED
        BY <1>4, <4>2
    <3>2. CASE pc = 9
      <4>1. Program[pc].port = PIC_SLAVE_DATA /\ Program[pc].name = "picSlaveMask"
        BY <3>2, ProgramRemaps DEF In
      <4>2. local' = [local EXCEPT !["picSlaveMask"] = pic.slave.imr]
            /\ UNCHANGED <<pic, ctl>>
        BY <4>1, <1>5 DEF InPort
      <4> QED
        BY <1>4, <4>2
    <3> QED
      BY <1>6, <3>1, <3>2
  <2> QED
    BY <1>1, <1>2, <1>3, <1>r, <1>6, <2>1, TypesParts, QuietStep DEF ProcessorTypes, HistoryTypes
<1>7. CASE pc \in {24, 35, 41}
  <2>1. Program[pc].port = PS2_DATA /\ Program[pc].name \in {"status", "ignored"}
    BY <1>7, ProgramConfigures, ProgramStartsMouse DEF In
  <2>2. ReadData
    BY <2>1 DEF InPort
  <2>3. local' \in [picMasterMask : SUBSET Line, picSlaveMask : SUBSET Line, status : Byte]
    <3>1. CASE Program[pc].name = "ignored"
      BY <3>1, <1>4 DEF InPort
    <3>2. CASE Program[pc].name = "status"
      <4>1. local' = [local EXCEPT !["status"] = ctl.byte]
        BY <3>2, <2>1, <1>5 DEF InPort
      <4> QED
        BY <1>4, <4>1
    <3> QED
      BY <2>1, <3>1, <3>2
  <2> DEFINE c == [ctl EXCEPT !.full = FALSE]
  <2>4. SetController(c)
    BY <2>2 DEF ReadData
  <2>5. /\ c \in Controller /\ c.written = ctl.written /\ c.full = FALSE
    BY TypesParts DEF Controller
  <2> HIDE DEF c
  <2>6. OnlyRequests /\ ctl' = c
    BY <2>4, TypesParts, ControllerSet DEF OnlyRequests
  <2>7. Awake'
    BY <2>5, <2>6 DEF Awake, KeyboardLine, MouseLine
  <2>8. HandlerMatchesInService' /\ CommandsKnown'
    BY <1>2, <2>5, <2>6 DEF IInv, HandlerMatchesInService, OnlyRequests, CommandsKnown
  <2>9. Remapped'
    BY <1>2, <1>7, <2>6 DEF IInv, Remapped, OnlyRequests, Expected
  <2>10. TypeOK'
    <3>1. ProcessorTypes'
      BY <1>2, <1>7, <2>3, TypesParts, ProgramLength DEF ProcessorTypes
    <3>2. DeviceTypes' /\ HistoryTypes'
      BY <1>2, TypesParts DEF DeviceTypes, HistoryTypes, deviceVars
    <3> QED
      BY <2>5, <2>6, <3>1, <3>2, TypesAgain DEF OnlyRequests
  <2> QED
    BY <1>3, <1>r, <2>7, <2>8, <2>9, <2>10 DEF IInv
<1> QED
  BY <1>1, <1>6, <1>7

\* What a port's write does.
LEMMA Ports ==
  ASSUME NEW value
  PROVE  /\ WritePort(PIC_MASTER_COMMAND, value) =>
              pic' = [pic EXCEPT !.master = AfterCommand(@, value)] /\ UNCHANGED ctl
         /\ WritePort(PIC_SLAVE_COMMAND, value) =>
              pic' = [pic EXCEPT !.slave = AfterCommand(@, value)] /\ UNCHANGED ctl
         /\ WritePort(PIC_MASTER_DATA, value) =>
              pic' = [pic EXCEPT !.master = AfterData(@, value)] /\ UNCHANGED ctl
         /\ WritePort(PIC_SLAVE_DATA, value) =>
              pic' = [pic EXCEPT !.slave = AfterData(@, value)] /\ UNCHANGED ctl
         /\ \A port \in {PS2_DATA, PS2_COMMAND} : WritePort(port, value) =>
              /\ ctl' = [ctl EXCEPT !.written = [port |-> port, value |-> value]]
              /\ UNCHANGED pic
BY DEF WritePort, PIC_MASTER_COMMAND, PIC_MASTER_DATA, PIC_SLAVE_COMMAND,
       PIC_SLAVE_DATA, PS2_DATA, PS2_COMMAND

\* The write an instruction stands for.
LEMMA WriteOf ==
  ASSUME NEW port, NEW value, OutPort,
         \/ Program[pc] = Out(port, value)
         \/ \E name : /\ Program[pc] = OutLocal(port, name)
                      /\ value = IF name = "status"
                                 THEN WithBit(local.status, MOUSE_INTERRUPT)
                                 ELSE local[name]
  PROVE  WritePort(port, value)
<1>1. CASE Program[pc] = Out(port, value)
  <2>1. /\ Out(port, value).op = "out" /\ Out(port, value).port = port
        /\ Out(port, value).value = value
    BY Zenon DEF Out
  <2>2. /\ Program[pc].op = "out" /\ Program[pc].port = port
        /\ Program[pc].value = value
    BY <1>1, <2>1, Zenon
  <2>3. "out" # "outLocal"
    OBVIOUS
  <2> QED
    BY <2>2, <2>3, Zenon DEF OutPort, NextInstruction
<1>2. ASSUME NEW name, Program[pc] = OutLocal(port, name),
             value = IF name = "status" THEN WithBit(local.status, MOUSE_INTERRUPT)
                                        ELSE local[name]
      PROVE  WritePort(port, value)
  <2>1. /\ OutLocal(port, name).op = "outLocal" /\ OutLocal(port, name).port = port
        /\ OutLocal(port, name).name = name
    BY Zenon DEF OutLocal
  <2>2. /\ Program[pc].op = "outLocal" /\ Program[pc].port = port
        /\ Program[pc].name = name
    BY <1>2, <2>1, Zenon
  <2>3. "out" # "outLocal"
    OBVIOUS
  <2> QED
    BY <1>2, <2>2, <2>3, Zenon DEF OutPort, NextInstruction
<1> QED
  BY <1>1, <1>2, Zenon

\* A word sent to a chip keeps the invariant, if it is the word expected.
LEMMA ChipStep ==
  ASSUME IInv, handler = "none", pc \in (10 .. 19) \cup {42, 43}, pc' = pc + 1,
         UNCHANGED <<handler, deviceVars, historyVars, local, polls, interruptFlag, idt,
                     loaded, ctl>>,
         pic' \in [master : Chip, slave : Chip],
         pic'.master.isr = {}, pic'.slave.isr = {},
         pc > 24 => pic'.master.irr = pic.master.irr /\ pic'.slave.irr = pic.slave.irr,
         Remapped'
  PROVE  IInv'
<1>1. HandlerMatchesInService'
  BY DEF HandlerMatchesInService
<1>2. SettingUp'
  BY ProgramLength DEF IInv, SettingUp, Running
<1>3. Registered'
  <2>1. pc > 4 /\ pc > 5
    OBVIOUS
  <2> QED
    BY <2>1, RegisteredKept, Zenon DEF IInv
<1>4. CommandsKnown'
  BY DEF IInv, CommandsKnown
<1>5. Awake'
  <2>1. pc' > 24 => pc > 24
    OBVIOUS
  <2> QED
    BY <2>1 DEF IInv, Awake, KeyboardRequest, MouseRequest
<1>6. TypeOK'
  <2>1. ProcessorTypes'
    BY TypesParts, ProgramLength DEF ProcessorTypes
  <2>2. DeviceTypes' /\ HistoryTypes'
    BY TypesParts DEF DeviceTypes, HistoryTypes, deviceVars, historyVars
  <2> QED
    BY <2>1, <2>2, TypesParts, TypesAgain
<1> QED
  BY <1>1, <1>2, <1>3, <1>4, <1>5, <1>6 DEF IInv

\* A data word sent to the master, or to the slave.
LEMMA MasterWord ==
  ASSUME IInv, handler = "none", NEW value, WritePort(PIC_MASTER_DATA, value),
         pc \in {12, 14, 16, 18, 42}, pc' = pc + 1,
         UNCHANGED <<handler, deviceVars, historyVars, local, polls, interruptFlag, idt,
                     loaded>>,
         pc = 12 => value = 32,
         pc \in {18, 42} => value \in SUBSET Line,
         pc = 42 => value = Line \ {1, 2}
  PROVE  IInv'
<1>a. /\ pic' = [pic EXCEPT !.master = AfterData(@, value)] /\ UNCHANGED ctl
  BY Ports
<1>b. /\ pic.master \in Chip /\ pic.slave \in Chip
      /\ pic.master.isr = {} /\ pic.slave.isr = {}
      /\ pic' = [master |-> pic'.master, slave |-> pic'.slave]
      /\ pic'.master = AfterData(pic.master, value) /\ pic'.slave = pic.slave
  BY <1>a, TypesParts, HandlersRest
<1>c. Remapped
  BY DEF IInv
<1>1. /\ pc = 12 => pic.master.expects = "ICW2"
      /\ pc = 14 => pic.master.expects = "ICW3"
      /\ pc = 16 => pic.master.expects = "ICW4"
      /\ pc \in {18, 42} => pic.master.expects = "mask"
  BY <1>c DEF Remapped, Expected
<1>2. /\ pic.master.expects = "ICW2" => value \in Nat
      /\ pic.master.expects = "mask" => value \in SUBSET Line
  BY <1>1
<1>3. /\ pic'.master \in Chip /\ pic'.master.irr = pic.master.irr
      /\ pic'.master.isr = {}
      /\ pic'.master.base = IF pic.master.expects = "ICW2" THEN value ELSE pic.master.base
      /\ pic'.master.imr = IF pic.master.expects = "mask" THEN value ELSE pic.master.imr
      /\ pic'.master.expects = CASE pic.master.expects = "ICW2" -> "ICW3"
                               [] pic.master.expects = "ICW3" -> "ICW4"
                               [] pic.master.expects = "ICW4" -> "mask"
                               [] pic.master.expects = "mask" -> "mask"
  <2> DEFINE word == AfterData(pic.master, value)
  <2>1. /\ word \in Chip /\ word.irr = pic.master.irr
        /\ word.isr = {}
        /\ word.base = IF pic.master.expects = "ICW2" THEN value ELSE pic.master.base
        /\ word.imr = IF pic.master.expects = "mask" THEN value ELSE pic.master.imr
        /\ word.expects = CASE pic.master.expects = "ICW2" -> "ICW3"
                                 [] pic.master.expects = "ICW3" -> "ICW4"
                                 [] pic.master.expects = "ICW4" -> "mask"
                                 [] pic.master.expects = "mask" -> "mask"
    BY <1>b, <1>2, Programmed
  <2>2. pic'.master = word
    BY <1>b
  <2> HIDE DEF word
  <2> QED
    BY <2>1, <2>2
<1>4. pic'.master.expects = Expected(pc' - 11)
  BY <1>1, <1>3 DEF Expected
<1>5. pic'.slave.expects = Expected(pc' - 12)
  BY <1>b, <1>c DEF Remapped, Expected
<1>6. pc' > 12 => pic'.master.base = 32
  BY <1>1, <1>3, <1>c DEF Remapped
<1>7. pc' > 42 => pic'.master.imr = Line \ {1, 2}
  BY <1>1, <1>3, <1>c DEF Remapped
<1>8. Remapped'
  BY <1>b, <1>c, <1>4, <1>5, <1>6, <1>7 DEF Remapped
<1>9. pic' \in [master : Chip, slave : Chip]
  BY <1>b, <1>3
<1> QED
  BY <1>a, <1>b, <1>3, <1>8, <1>9, ChipStep

LEMMA SlaveWord ==
  ASSUME IInv, handler = "none", NEW value, WritePort(PIC_SLAVE_DATA, value),
         pc \in {13, 15, 17, 19, 43}, pc' = pc + 1,
         UNCHANGED <<handler, deviceVars, historyVars, local, polls, interruptFlag, idt,
                     loaded>>,
         pc = 13 => value = 40,
         pc \in {19, 43} => value \in SUBSET Line,
         pc = 43 => value = Line \ {4}
  PROVE  IInv'
<1>a. /\ pic' = [pic EXCEPT !.slave = AfterData(@, value)] /\ UNCHANGED ctl
  BY Ports
<1>b. /\ pic.master \in Chip /\ pic.slave \in Chip
      /\ pic.master.isr = {} /\ pic.slave.isr = {}
      /\ pic' = [master |-> pic'.master, slave |-> pic'.slave]
      /\ pic'.slave = AfterData(pic.slave, value) /\ pic'.master = pic.master
  BY <1>a, TypesParts, HandlersRest
<1>c. Remapped
  BY DEF IInv
<1>1. /\ pc = 13 => pic.slave.expects = "ICW2"
      /\ pc = 15 => pic.slave.expects = "ICW3"
      /\ pc = 17 => pic.slave.expects = "ICW4"
      /\ pc \in {19, 43} => pic.slave.expects = "mask"
  BY <1>c DEF Remapped, Expected
<1>2. /\ pic.slave.expects = "ICW2" => value \in Nat
      /\ pic.slave.expects = "mask" => value \in SUBSET Line
  BY <1>1
<1>3. /\ pic'.slave \in Chip /\ pic'.slave.irr = pic.slave.irr
      /\ pic'.slave.isr = {}
      /\ pic'.slave.base = IF pic.slave.expects = "ICW2" THEN value ELSE pic.slave.base
      /\ pic'.slave.imr = IF pic.slave.expects = "mask" THEN value ELSE pic.slave.imr
      /\ pic'.slave.expects = CASE pic.slave.expects = "ICW2" -> "ICW3"
                               [] pic.slave.expects = "ICW3" -> "ICW4"
                               [] pic.slave.expects = "ICW4" -> "mask"
                               [] pic.slave.expects = "mask" -> "mask"
  <2> DEFINE word == AfterData(pic.slave, value)
  <2>1. /\ word \in Chip /\ word.irr = pic.slave.irr
        /\ word.isr = {}
        /\ word.base = IF pic.slave.expects = "ICW2" THEN value ELSE pic.slave.base
        /\ word.imr = IF pic.slave.expects = "mask" THEN value ELSE pic.slave.imr
        /\ word.expects = CASE pic.slave.expects = "ICW2" -> "ICW3"
                                 [] pic.slave.expects = "ICW3" -> "ICW4"
                                 [] pic.slave.expects = "ICW4" -> "mask"
                                 [] pic.slave.expects = "mask" -> "mask"
    BY <1>b, <1>2, Programmed
  <2>2. pic'.slave = word
    BY <1>b
  <2> HIDE DEF word
  <2> QED
    BY <2>1, <2>2
<1>4. pic'.slave.expects = Expected(pc' - 12)
  BY <1>1, <1>3 DEF Expected
<1>5. pic'.master.expects = Expected(pc' - 11)
  BY <1>b, <1>c DEF Remapped, Expected
<1>6. pc' > 13 => pic'.slave.base = 40
  BY <1>1, <1>3, <1>c DEF Remapped
<1>7. pc' > 43 => pic'.slave.imr = Line \ {4}
  BY <1>1, <1>3, <1>c DEF Remapped
<1>8. Remapped'
  BY <1>b, <1>c, <1>4, <1>5, <1>6, <1>7 DEF Remapped
<1>9. pic' \in [master : Chip, slave : Chip]
  BY <1>b, <1>3
<1> QED
  BY <1>a, <1>b, <1>3, <1>8, <1>9, ChipStep

\* The chips are initialised.
LEMMA InitialisedStep ==
  ASSUME IInv, handler = "none", pc' = pc + 1,
         \/ pc = 10 /\ WritePort(PIC_MASTER_COMMAND, ICW1)
         \/ pc = 11 /\ WritePort(PIC_SLAVE_COMMAND, ICW1),
         UNCHANGED <<handler, deviceVars, historyVars, local, polls, interruptFlag, idt,
                     loaded>>
  PROVE  IInv'
<1>b. /\ pic.master \in Chip /\ pic.slave \in Chip
      /\ pic.master.isr = {} /\ pic.slave.isr = {}
  BY TypesParts, HandlersRest
<1>c. Remapped
  BY DEF IInv
<1>1. CASE pc = 10
  <2>1. pic' = [pic EXCEPT !.master = AfterCommand(@, ICW1)] /\ UNCHANGED ctl
    BY <1>1, Ports
  <2>2. /\ pic'.master = AfterCommand(pic.master, ICW1) /\ pic'.slave = pic.slave
        /\ pic' = [master |-> pic'.master, slave |-> pic'.slave]
    BY <2>1, TypesParts
  <2>3. pic'.master \in Chip /\ pic'.master.isr = {} /\ pic'.master.expects = "ICW2"
    BY <1>b, <2>2, Initialised
  <2>4. Remapped'
    BY <1>1, <1>c, <2>2, <2>3 DEF Remapped, Expected
  <2>5. pic' \in [master : Chip, slave : Chip]
    BY <1>b, <2>2, <2>3
  <2> QED
    BY <1>1, <1>b, <2>1, <2>2, <2>3, <2>4, <2>5, ChipStep
<1>2. CASE pc = 11
  <2>1. pic' = [pic EXCEPT !.slave = AfterCommand(@, ICW1)] /\ UNCHANGED ctl
    BY <1>2, Ports
  <2>2. /\ pic'.slave = AfterCommand(pic.slave, ICW1) /\ pic'.master = pic.master
        /\ pic' = [master |-> pic'.master, slave |-> pic'.slave]
    BY <2>1, TypesParts
  <2>3. pic'.slave \in Chip /\ pic'.slave.isr = {} /\ pic'.slave.expects = "ICW2"
    BY <1>b, <2>2, Initialised
  <2>4. Remapped'
    BY <1>2, <1>c, <2>2, <2>3 DEF Remapped, Expected
  <2>5. pic' \in [master : Chip, slave : Chip]
    BY <1>b, <2>2, <2>3
  <2> QED
    BY <1>2, <1>b, <2>1, <2>2, <2>3, <2>4, <2>5, ChipStep
<1> QED
  BY <1>1, <1>2

\* A write to the PS/2 controller changes nothing but the controller.
LEMMA ControllerWritten ==
  ASSUME IInv, handler = "none",
         pc \in {20, 22, 26, 28, 31, 33, 37, 39}, pc' = pc + 1,
         UNCHANGED <<handler, deviceVars, historyVars, local, polls, interruptFlag, idt,
                     loaded>>,
         NEW port \in {PS2_DATA, PS2_COMMAND}, NEW value \in Byte, WritePort(port, value),
         port = PS2_COMMAND =>
           value \in {ENABLE_AUX, READ_CONFIG, WRITE_CONFIG, TO_MOUSE}
  PROVE  IInv'
<1>1. /\ ctl' = [ctl EXCEPT !.written = [port |-> port, value |-> value]]
      /\ UNCHANGED pic
  BY Ports
<1>2. ctl' \in Controller
  <2>1. [port |-> port, value |-> value]
          \in [port : {0, PS2_DATA, PS2_COMMAND}, value : Byte]
    OBVIOUS
  <2>2. ctl \in Controller
    BY TypesParts
  <2> QED
    BY <1>1, <2>1, <2>2 DEF Controller
<1>3. /\ ctl'.full = ctl.full /\ ctl'.source = ctl.source /\ ctl'.config = ctl.config
      /\ ctl'.written = [port |-> port, value |-> value]
  BY <1>1, TypesParts DEF Controller
<1>4. HandlerMatchesInService'
  BY <1>1 DEF IInv, HandlerMatchesInService
<1>5. SettingUp'
  BY ProgramLength DEF IInv, SettingUp, Running
<1>6. Registered'
  <2>1. pc > 4 /\ pc > 5
    OBVIOUS
  <2> QED
    BY <2>1, RegisteredKept, Zenon DEF IInv
<1>7. Remapped'
  BY <1>1 DEF IInv, Remapped, Expected
<1>8. CommandsKnown'
  BY <1>3 DEF CommandsKnown
<1>9. Awake'
  <2>1. pc' > 24 => pc > 24
    OBVIOUS
  <2>2. (KeyboardLine(ctl) <=> KeyboardLine(ctl')) /\ (MouseLine(ctl) <=> MouseLine(ctl'))
    BY <1>3 DEF KeyboardLine, MouseLine
  <2> QED
    BY <1>1, <2>1, <2>2, Zenon DEF IInv, Awake, KeyboardRequest, MouseRequest
<1>10. TypeOK'
  <2>1. ProcessorTypes'
    BY TypesParts, ProgramLength DEF ProcessorTypes
  <2>2. DeviceTypes' /\ HistoryTypes'
    BY TypesParts DEF DeviceTypes, HistoryTypes, deviceVars, historyVars
  <2> QED
    BY <1>1, <1>2, <2>1, <2>2, TypesParts, TypesAgain
<1> QED
  BY <1>4, <1>5, <1>6, <1>7, <1>8, <1>9, <1>10 DEF IInv

LEMMA OutPortStep ==
  ASSUME IInv, OutPort
  PROVE  IInv'
<1>1. /\ pc \in 1 .. 44 /\ handler = "none"
      /\ Program[pc].op = "out" \/ Program[pc].op = "outLocal"
  BY AtInstruction DEF OutPort
<1>2. /\ pc' = pc + 1
      /\ UNCHANGED <<handler, deviceVars, historyVars, local, polls, interruptFlag, idt,
                     loaded>>
  BY DEF OutPort, Goto, historyVars
<1>3. \/ pc = 10 \/ pc = 11
      \/ pc \in {12, 14, 16, 42} \/ pc \in {13, 15, 17, 43}
      \/ pc \in {20, 22, 26, 31, 37} \/ pc \in {33, 39}
      \/ pc = 18 \/ pc = 19 \/ pc = 28
  <2>1. Program[pc].op = "out" => pc \in (10 .. 17) \cup {20, 22, 26, 31, 33, 37, 39, 42, 43}
    BY <1>1, Kinds, Zenon
  <2>2. Program[pc].op = "outLocal" => pc \in {18, 19, 28}
    BY <1>1, Kinds, Zenon
  <2> QED
    BY <1>1, <2>1, <2>2
<1>4. CASE pc = 10
  <2>1. Program[pc] = Out(PIC_MASTER_COMMAND, ICW1)
    BY <1>4, ProgramRemaps, Zenon
  <2> QED
    BY <1>1, <1>2, <1>4, <2>1, WriteOf, InitialisedStep
<1>5. CASE pc = 11
  <2>1. Program[pc] = Out(PIC_SLAVE_COMMAND, ICW1)
    BY <1>5, ProgramRemaps, Zenon
  <2> QED
    BY <1>1, <1>2, <1>5, <2>1, WriteOf, InitialisedStep
<1>6. CASE pc \in {12, 14, 16, 42}
  <2>1. CASE pc = 12
    <3>1. Program[pc] = Out(PIC_MASTER_DATA, 32)
      BY <2>1, ProgramRemaps, Zenon
    <3>2. WritePort(PIC_MASTER_DATA, 32)
      BY <3>1, WriteOf
    <3> QED
      BY <1>1, <1>2, <2>1, <3>2, MasterWord DEF Line
  <2>2. CASE pc = 14
    <3>1. Program[pc] = Out(PIC_MASTER_DATA, 4)
      BY <2>2, ProgramRemaps, Zenon
    <3>2. WritePort(PIC_MASTER_DATA, 4)
      BY <3>1, WriteOf
    <3> QED
      BY <1>1, <1>2, <2>2, <3>2, MasterWord DEF Line
  <2>3. CASE pc = 16
    <3>1. Program[pc] = Out(PIC_MASTER_DATA, 1)
      BY <2>3, ProgramRemaps, Zenon
    <3>2. WritePort(PIC_MASTER_DATA, 1)
      BY <3>1, WriteOf
    <3> QED
      BY <1>1, <1>2, <2>3, <3>2, MasterWord DEF Line
  <2>4. CASE pc = 42
    <3>1. Program[pc] = Out(PIC_MASTER_DATA, Line \ {1, 2})
      BY <2>4, ProgramEnds, Zenon
    <3>2. WritePort(PIC_MASTER_DATA, Line \ {1, 2})
      BY <3>1, WriteOf
    <3> QED
      BY <1>1, <1>2, <2>4, <3>2, MasterWord DEF Line
  <2> QED
    BY <1>6, <2>1, <2>2, <2>3, <2>4
<1>7. CASE pc \in {13, 15, 17, 43}
  <2>1. CASE pc = 13
    <3>1. Program[pc] = Out(PIC_SLAVE_DATA, 40)
      BY <2>1, ProgramRemaps, Zenon
    <3>2. WritePort(PIC_SLAVE_DATA, 40)
      BY <3>1, WriteOf
    <3> QED
      BY <1>1, <1>2, <2>1, <3>2, SlaveWord DEF Line
  <2>2. CASE pc = 15
    <3>1. Program[pc] = Out(PIC_SLAVE_DATA, 2)
      BY <2>2, ProgramRemaps, Zenon
    <3>2. WritePort(PIC_SLAVE_DATA, 2)
      BY <3>1, WriteOf
    <3> QED
      BY <1>1, <1>2, <2>2, <3>2, SlaveWord DEF Line
  <2>3. CASE pc = 17
    <3>1. Program[pc] = Out(PIC_SLAVE_DATA, 1)
      BY <2>3, ProgramRemaps, Zenon
    <3>2. WritePort(PIC_SLAVE_DATA, 1)
      BY <3>1, WriteOf
    <3> QED
      BY <1>1, <1>2, <2>3, <3>2, SlaveWord DEF Line
  <2>4. CASE pc = 43
    <3>1. Program[pc] = Out(PIC_SLAVE_DATA, Line \ {4})
      BY <2>4, ProgramEnds, Zenon
    <3>2. WritePort(PIC_SLAVE_DATA, Line \ {4})
      BY <3>1, WriteOf
    <3> QED
      BY <1>1, <1>2, <2>4, <3>2, SlaveWord DEF Line
  <2> QED
    BY <1>7, <2>1, <2>2, <2>3, <2>4
<1>8. CASE pc \in {20, 22, 26, 31, 37}
  <2>1. CASE pc = 20
    <3>1. Program[pc] = Out(PS2_COMMAND, ENABLE_AUX)
      BY <2>1, ProgramConfigures, Zenon
    <3>2. WritePort(PS2_COMMAND, ENABLE_AUX)
      BY <3>1, WriteOf
    <3> QED
      BY <1>1, <1>2, <2>1, <3>2, ControllerWritten, BytesSent
  <2>2. CASE pc = 22
    <3>1. Program[pc] = Out(PS2_COMMAND, READ_CONFIG)
      BY <2>2, ProgramConfigures, Zenon
    <3>2. WritePort(PS2_COMMAND, READ_CONFIG)
      BY <3>1, WriteOf
    <3> QED
      BY <1>1, <1>2, <2>2, <3>2, ControllerWritten, BytesSent
  <2>3. CASE pc = 26
    <3>1. Program[pc] = Out(PS2_COMMAND, WRITE_CONFIG)
      BY <2>3, ProgramConfigures, Zenon
    <3>2. WritePort(PS2_COMMAND, WRITE_CONFIG)
      BY <3>1, WriteOf
    <3> QED
      BY <1>1, <1>2, <2>3, <3>2, ControllerWritten, BytesSent
  <2>4. CASE pc = 31
    <3>1. Program[pc] = Out(PS2_COMMAND, TO_MOUSE)
      BY <2>4, ProgramStartsMouse, Zenon
    <3>2. WritePort(PS2_COMMAND, TO_MOUSE)
      BY <3>1, WriteOf
    <3> QED
      BY <1>1, <1>2, <2>4, <3>2, ControllerWritten, BytesSent
  <2>5. CASE pc = 37
    <3>1. Program[pc] = Out(PS2_COMMAND, TO_MOUSE)
      BY <2>5, ProgramStartsMouse, Zenon
    <3>2. WritePort(PS2_COMMAND, TO_MOUSE)
      BY <3>1, WriteOf
    <3> QED
      BY <1>1, <1>2, <2>5, <3>2, ControllerWritten, BytesSent
  <2> QED
    BY <1>8, <2>1, <2>2, <2>3, <2>4, <2>5
<1>9. CASE pc \in {33, 39}
  <2>1. CASE pc = 33
    <3>1. Program[pc] = Out(PS2_DATA, SET_DEFAULTS)
      BY <2>1, ProgramStartsMouse, Zenon
    <3>2. WritePort(PS2_DATA, SET_DEFAULTS)
      BY <3>1, WriteOf
    <3> QED
      BY <1>1, <1>2, <2>1, <3>2, ControllerWritten, BytesSent DEF PS2_DATA, PS2_COMMAND
  <2>2. CASE pc = 39
    <3>1. Program[pc] = Out(PS2_DATA, ENABLE_REPORTING)
      BY <2>2, ProgramStartsMouse, Zenon
    <3>2. WritePort(PS2_DATA, ENABLE_REPORTING)
      BY <3>1, WriteOf
    <3> QED
      BY <1>1, <1>2, <2>2, <3>2, ControllerWritten, BytesSent DEF PS2_DATA, PS2_COMMAND
  <2> QED
    BY <1>9, <2>1, <2>2
<1>10. CASE pc = 18
  <2>1. Program[pc] = OutLocal(PIC_MASTER_DATA, "picMasterMask")
    BY <1>10, ProgramRemaps, Zenon
  <2>2. "picMasterMask" # "status" /\ local.picMasterMask \in SUBSET Line
    BY TypesParts DEF ProcessorTypes
  <2>3. WritePort(PIC_MASTER_DATA, local.picMasterMask)
    BY <2>1, <2>2, WriteOf
  <2> QED
    BY <1>1, <1>2, <1>10, <2>2, <2>3, MasterWord
<1>11. CASE pc = 19
  <2>1. Program[pc] = OutLocal(PIC_SLAVE_DATA, "picSlaveMask")
    BY <1>11, ProgramRemaps, Zenon
  <2>2. "picSlaveMask" # "status" /\ local.picSlaveMask \in SUBSET Line
    BY TypesParts DEF ProcessorTypes
  <2>3. WritePort(PIC_SLAVE_DATA, local.picSlaveMask)
    BY <2>1, <2>2, WriteOf
  <2> QED
    BY <1>1, <1>2, <1>11, <2>2, <2>3, SlaveWord
<1>12. CASE pc = 28
  <2>1. Program[pc] = OutLocal(PS2_DATA, "status")
    BY <1>12, ProgramConfigures, Zenon
  <2>2. WithBit(local.status, MOUSE_INTERRUPT) \in Byte
    BY TypesParts, BitsOfBytes DEF ProcessorTypes
  <2>3. WritePort(PS2_DATA, WithBit(local.status, MOUSE_INTERRUPT))
    BY <2>1, WriteOf
  <2> QED
    BY <1>1, <1>2, <1>12, <2>2, <2>3, ControllerWritten DEF PS2_DATA, PS2_COMMAND
<1> QED
  BY <1>3, <1>4, <1>5, <1>6, <1>7, <1>8, <1>9, <1>10, <1>11, <1>12, Zenon

-----------------------------------------------------------------------------
(***************************************************************************)
(* The processor's steps: interrupts and their handlers.                   *)
(***************************************************************************)

\* Once the program is running, only the two lines it unmasked interrupt.
LEMMA RunningFacts ==
  ASSUME IInv, pc = 45
  PROVE  /\ pic.master.imr = Line \ {1, 2} /\ pic.slave.imr = Line \ {4}
         /\ pic.master.base = 32 /\ pic.slave.base = 40
         /\ pic.master.expects = "mask" /\ pic.slave.expects = "mask"
         /\ Handler(33) = "keyboard: read" /\ Handler(44) = "mouse: read"
<1>1. /\ pic.master.imr = Line \ {1, 2} /\ pic.slave.imr = Line \ {4}
      /\ pic.master.base = 32 /\ pic.slave.base = 40
      /\ pic.master.expects = "mask" /\ pic.slave.expects = "mask"
  BY DEF IInv, Remapped, Expected
<1>2. pc > 4 /\ pc > 5
  OBVIOUS
<1>3. Handler(33) = "keyboard: read" /\ Handler(44) = "mouse: read"
  BY <1>2, Zenon DEF IInv, Registered, Handler
<1> QED
  BY <1>1, <1>3

LEMMA HandlersRun ==
  ASSUME IInv, handler # "none" \/ Interrupt
  PROVE  pc = 45
<1>1. pc \in 1 .. 45
  BY TypesParts, ProgramLength DEF ProcessorTypes
<1>2. Running
  <2>1. CASE handler # "none"
    BY <2>1 DEF IInv, SettingUp
  <2>2. CASE Interrupt
    <3>1. loaded /\ interruptFlag
      BY <2>2, Zenon DEF Interrupt
    <3>2. pc > 7
      BY <3>1, Zenon DEF IInv, SettingUp
    <3>3. 6 < pc
      BY <3>2, <1>1
    <3> QED
      BY <3>1, <3>3, Zenon DEF IInv, SettingUp
  <2> QED
    BY <2>1, <2>2
<1> QED
  BY <1>1, <1>2, ProgramLength DEF Running

\* A step of a handler keeps the invariant, if it moves the chips' lines in
\* service with it and forgets no request that a byte waits for.
LEMMA HandlerStep ==
  ASSUME IInv, pc = 45, UNCHANGED <<setUpVars, deviceVars, historyVars>>,
         pic' \in [master : Chip, slave : Chip], ctl' \in Controller,
         pic'.master.imr = pic.master.imr, pic'.slave.imr = pic.slave.imr,
         pic'.master.base = pic.master.base, pic'.slave.base = pic.slave.base,
         pic'.master.expects = pic.master.expects,
         pic'.slave.expects = pic.slave.expects,
         ctl'.written = ctl.written,
         handler' \in HandlerPoint, interruptFlag' \in BOOLEAN,
         handler' # "none" => interruptFlag' = FALSE,
         HandlerMatchesInService', Awake'
  PROVE  IInv'
<1>1. UNCHANGED <<pc, local, polls, idt, loaded>>
  BY DEF setUpVars
<1>2. SettingUp'
  BY <1>1, ProgramLength DEF IInv, SettingUp, Running
<1>3. Registered'
  BY <1>1, RegisteredKept, Zenon DEF IInv
<1>4. Remapped' /\ CommandsKnown'
  BY <1>1 DEF IInv, Remapped, CommandsKnown
<1>5. TypeOK'
  <2>1. ProcessorTypes'
    BY <1>1, TypesParts DEF ProcessorTypes
  <2>2. DeviceTypes' /\ HistoryTypes'
    BY TypesParts DEF DeviceTypes, HistoryTypes, deviceVars, historyVars
  <2> QED
    BY <2>1, <2>2, TypesAgain
<1> QED
  BY <1>2, <1>3, <1>4, <1>5 DEF IInv

\* An interrupt is the keyboard's or the mouse's, and finds its handler.
LEMMA InterruptEffect ==
  ASSUME IInv, Interrupt
  PROVE  /\ pic.master.isr = {} /\ pic.slave.isr = {}
         /\ \/ /\ 1 \in pic.master.irr
               /\ pic' = [pic EXCEPT !.master = Acknowledged(@, 1)]
               /\ handler' = "keyboard: read"
            \/ /\ 4 \in pic.slave.irr
               /\ pic' = [master |-> Acknowledged(pic.master, 2),
                          slave |-> Acknowledged(pic.slave, 4)]
               /\ handler' = "mouse: read"
<1>1. pc = 45
  BY HandlersRun
<1>2. pic.master.isr = {} /\ pic.slave.isr = {}
  BY HandlersRest DEF Interrupt
<1>3. pic.master.irr \in SUBSET Line /\ pic.slave.irr \in SUBSET Line
  BY TypesParts DEF Chip
<1>4. PICK m \in Line :
        /\ First(m, MasterCandidates)
        /\ \/ /\ m # 2
              /\ pic' = [pic EXCEPT !.master = Acknowledged(@, m)]
              /\ handler' = Handler(pic.master.base + m)
           \/ /\ m = 2
              /\ \E s \in Line :
                   /\ First(s, SlaveCandidates)
                   /\ pic' = [master |-> Acknowledged(pic.master, 2),
                              slave |-> Acknowledged(pic.slave, s)]
                   /\ handler' = Handler(pic.slave.base + s)
  BY DEF Interrupt
<1>a. /\ pic.master.imr = Line \ {1, 2} /\ pic.slave.imr = Line \ {4}
      /\ pic.master.base = 32 /\ pic.slave.base = 40
      /\ Handler(33) = "keyboard: read" /\ Handler(44) = "mouse: read"
  BY <1>1, RunningFacts
<1>5. m \in {1, 2} /\ (m = 1 => 1 \in pic.master.irr)
  <2>1. m \in MasterCandidates
    BY <1>4 DEF First
  <2>2. m \notin pic.master.imr
    BY <2>1 DEF MasterCandidates
  <2>3. m = 2 \/ m \in pic.master.irr
    BY <2>1 DEF MasterCandidates
  <2>4. m \notin Line \ {1, 2}
    BY <1>a, <2>2, Zenon
  <2> QED
    BY <2>3, <2>4
<1>6. \A s \in SlaveCandidates : s = 4 /\ 4 \in pic.slave.irr
  BY <1>a, <1>3 DEF SlaveCandidates
<1>7. CASE m = 1
  <2>1. m # 2
    BY <1>7
  <2>2. pic' = [pic EXCEPT !.master = Acknowledged(@, 1)]
    BY <1>4, <1>7, <2>1, Zenon
  <2>3. handler' = Handler(pic.master.base + 1)
    BY <1>4, <1>7, <2>1, Zenon
  <2>4. 32 + 1 = 33
    OBVIOUS
  <2>5. handler' = "keyboard: read"
    BY <1>a, <2>3, <2>4, Zenon
  <2> QED
    BY <1>2, <1>5, <1>7, <2>2, <2>5, Zenon
<1>8. CASE m = 2
  <2>1. PICK s \in Line :
          /\ First(s, SlaveCandidates)
          /\ pic' = [master |-> Acknowledged(pic.master, 2),
                     slave |-> Acknowledged(pic.slave, s)]
          /\ handler' = Handler(pic.slave.base + s)
    BY <1>4, <1>8
  <2>2. s = 4 /\ 4 \in pic.slave.irr
    BY <1>6, <2>1 DEF First
  <2>3. 40 + 4 = 44
    OBVIOUS
  <2>4. handler' = "mouse: read"
    BY <1>a, <2>1, <2>2, <2>3, Zenon
  <2>5. pic' = [master |-> Acknowledged(pic.master, 2),
                slave |-> Acknowledged(pic.slave, 4)]
    BY <2>1, <2>2, Zenon
  <2> QED
    BY <1>2, <2>2, <2>4, <2>5, Zenon
<1> QED
  BY <1>5, <1>7, <1>8

LEMMA Acknowledge ==
  ASSUME NEW chip \in Chip, NEW n \in Line
  PROVE  LET c == Acknowledged(chip, n)
         IN /\ c \in Chip /\ c.irr = chip.irr \ {n} /\ c.isr = chip.isr \cup {n}
            /\ c.imr = chip.imr /\ c.base = chip.base /\ c.expects = chip.expects
BY DEF Acknowledged, Chip

\* The same of a chip that serves nothing.
LEMMA AcknowledgeIdle ==
  ASSUME NEW chip \in Chip, NEW n \in Line, chip.isr = {},
         NEW c, c = Acknowledged(chip, n)
  PROVE  /\ c \in Chip /\ c.isr = {n} /\ c.irr = chip.irr \ {n}
         /\ c.imr = chip.imr /\ c.base = chip.base /\ c.expects = chip.expects
<1>1. /\ c \in Chip /\ c.irr = chip.irr \ {n} /\ c.isr = chip.isr \cup {n}
      /\ c.imr = chip.imr /\ c.base = chip.base /\ c.expects = chip.expects
  BY DEF Acknowledged, Chip
<1> QED
  BY <1>1

LEMMA InterruptStep ==
  ASSUME IInv, Interrupt
  PROVE  IInv'
<1>1. pc = 45 /\ handler = "none"
  BY HandlersRun DEF Interrupt
<1>2. /\ interruptFlag' = FALSE
      /\ UNCHANGED <<setUpVars, ctl, deviceVars, historyVars>> /\ pc' = pc
  BY DEF Interrupt, setUpVars
<1>3. /\ pic.master \in Chip /\ pic.slave \in Chip /\ 1 \in Line /\ 2 \in Line /\ 4 \in Line
      /\ pic = [master |-> pic.master, slave |-> pic.slave]
      /\ pic.master.isr = {} /\ pic.slave.isr = {}
  <2>1. pic \in [master : Chip, slave : Chip]
    BY TypesParts
  <2>2. pic.master.isr = {} /\ pic.slave.isr = {}
    BY InterruptEffect
  <2>3. 1 \in Line /\ 2 \in Line /\ 4 \in Line
    BY DEF Line
  <2> QED
    BY <2>1, <2>2, <2>3
<1>4. /\ KeyboardLine(ctl) => 1 \in pic.master.irr
      /\ MouseLine(ctl) => 4 \in pic.slave.irr
  BY <1>1 DEF IInv, Awake, KeyboardRequest, MouseRequest
<1>5. CASE /\ pic' = [pic EXCEPT !.master = Acknowledged(@, 1)]
           /\ handler' = "keyboard: read"
  <2>1. /\ pic'.master = Acknowledged(pic.master, 1) /\ pic'.slave = pic.slave
        /\ pic' = [master |-> pic'.master, slave |-> pic'.slave]
    BY <1>3, <1>5
  <2>2. /\ pic'.master \in Chip /\ pic'.master.isr = {1}
        /\ pic'.master.imr = pic.master.imr /\ pic'.master.base = pic.master.base
        /\ pic'.master.expects = pic.master.expects
    BY <1>3, <2>1, AcknowledgeIdle
  <2>3. HandlerMatchesInService'
    BY <1>3, <1>5, <2>1, <2>2 DEF HandlerMatchesInService
  <2>4. Awake'
    BY <1>2, <1>4, <1>5, <2>1 DEF Awake, KeyboardRequest, MouseRequest
  <2>5. pic' \in [master : Chip, slave : Chip] /\ handler' \in HandlerPoint
    BY <1>3, <1>5, <2>1, <2>2 DEF HandlerPoint
  <2> QED
    BY <1>1, <1>2, <2>1, <2>2, <2>3, <2>4, <2>5, TypesParts, HandlerStep
<1>6. CASE /\ pic' = [master |-> Acknowledged(pic.master, 2),
                      slave |-> Acknowledged(pic.slave, 4)]
           /\ handler' = "mouse: read"
  <2>1. /\ pic'.master = Acknowledged(pic.master, 2)
        /\ pic'.slave = Acknowledged(pic.slave, 4)
        /\ pic' = [master |-> pic'.master, slave |-> pic'.slave]
    BY <1>6
  <2>2. /\ pic'.master \in Chip /\ pic'.master.isr = {2}
        /\ pic'.master.irr = pic.master.irr \ {2}
        /\ pic'.master.imr = pic.master.imr /\ pic'.master.base = pic.master.base
        /\ pic'.master.expects = pic.master.expects
    BY <1>3, <2>1, AcknowledgeIdle
  <2>3. /\ pic'.slave \in Chip /\ pic'.slave.isr = {4}
        /\ pic'.slave.imr = pic.slave.imr /\ pic'.slave.base = pic.slave.base
        /\ pic'.slave.expects = pic.slave.expects
    BY <1>3, <2>1, AcknowledgeIdle
  <2>4. HandlerMatchesInService'
    BY <1>6, <2>2, <2>3 DEF HandlerMatchesInService
  <2>5. Awake'
    <3>1. KeyboardLine(ctl) => 1 \in pic'.master.irr
      BY <1>4, <2>2
    <3>2. KeyboardLine(ctl') => KeyboardRequest'
      BY <1>2, <3>1, Zenon DEF KeyboardRequest
    <3>3. MouseRequest'
      BY <1>6, Zenon DEF MouseRequest
    <3> QED
      BY <3>2, <3>3, Zenon DEF Awake
  <2>6. pic' \in [master : Chip, slave : Chip] /\ handler' \in HandlerPoint
    BY <1>6, <2>1, <2>2, <2>3 DEF HandlerPoint
  <2> QED
    BY <1>1, <1>2, <2>2, <2>3, <2>4, <2>5, <2>6, TypesParts, HandlerStep
<1> QED
  BY <1>5, <1>6, InterruptEffect

\* A read empties the output buffer: no line is up after it.
LEMMA ReadStep ==
  ASSUME IInv, ReadData
  PROVE  /\ OnlyRequests /\ ctl' \in Controller /\ ctl'.written = ctl.written
         /\ ~KeyboardLine(ctl') /\ ~MouseLine(ctl')
<1> DEFINE c == [ctl EXCEPT !.full = FALSE]
<1>1. pic \in [master : Chip, slave : Chip] /\ ctl \in Controller
  BY TypesParts
<1>2. ctl' = c /\ OnlyRequests
  BY <1>1, ControllerSet DEF ReadData, OnlyRequests
<1>3. c \in Controller /\ c.written = ctl.written /\ c.full = FALSE
  BY <1>1 DEF Controller
<1> HIDE DEF c
<1> QED
  BY <1>2, <1>3, Zenon DEF KeyboardLine, MouseLine

\* The end of an interrupt, sent to one chip.
LEMMA EndStep ==
  ASSUME IInv
  PROVE  /\ WritePort(PIC_MASTER_COMMAND, PIC_EOI) =>
              /\ pic' \in [master : Chip, slave : Chip] /\ UNCHANGED ctl
              /\ pic'.slave = pic.slave
              /\ pic'.master.irr = pic.master.irr /\ pic'.master.imr = pic.master.imr
              /\ pic'.master.base = pic.master.base
              /\ pic'.master.expects = pic.master.expects
              /\ pic'.master.isr = {n \in pic.master.isr : \E k \in pic.master.isr : k < n}
         /\ WritePort(PIC_SLAVE_COMMAND, PIC_EOI) =>
              /\ pic' \in [master : Chip, slave : Chip] /\ UNCHANGED ctl
              /\ pic'.master = pic.master
              /\ pic'.slave.irr = pic.slave.irr /\ pic'.slave.imr = pic.slave.imr
              /\ pic'.slave.base = pic.slave.base
              /\ pic'.slave.expects = pic.slave.expects
              /\ pic'.slave.isr = {n \in pic.slave.isr : \E k \in pic.slave.isr : k < n}
<1>1. /\ pic.master \in Chip /\ pic.slave \in Chip
      /\ pic = [master |-> pic.master, slave |-> pic.slave]
  <2>1. pic \in [master : Chip, slave : Chip]
    BY TypesParts
  <2> QED
    BY <2>1
<1>2. ASSUME WritePort(PIC_MASTER_COMMAND, PIC_EOI)
      PROVE  /\ pic' \in [master : Chip, slave : Chip] /\ UNCHANGED ctl
             /\ pic'.slave = pic.slave
             /\ pic'.master.irr = pic.master.irr /\ pic'.master.imr = pic.master.imr
             /\ pic'.master.base = pic.master.base
             /\ pic'.master.expects = pic.master.expects
             /\ pic'.master.isr = {n \in pic.master.isr : \E k \in pic.master.isr : k < n}
  <2> DEFINE word == AfterCommand(pic.master, PIC_EOI)
  <2>1. /\ word \in Chip /\ word.irr = pic.master.irr /\ word.imr = pic.master.imr
        /\ word.base = pic.master.base /\ word.expects = pic.master.expects
        /\ word.isr = {n \in pic.master.isr : \E k \in pic.master.isr : k < n}
    BY <1>1, Ended
  <2>2. pic' = [pic EXCEPT !.master = word] /\ UNCHANGED ctl
    BY <1>2, Ports
  <2> HIDE DEF word
  <2>3. /\ pic'.master = word /\ pic'.slave = pic.slave
        /\ pic' = [master |-> pic'.master, slave |-> pic'.slave]
    BY <1>1, <2>2
  <2>4. pic' \in [master : Chip, slave : Chip]
    BY <1>1, <2>1, <2>3
  <2> QED
    BY <2>1, <2>2, <2>3, <2>4, Zenon
<1>3. ASSUME WritePort(PIC_SLAVE_COMMAND, PIC_EOI)
      PROVE  /\ pic' \in [master : Chip, slave : Chip] /\ UNCHANGED ctl
             /\ pic'.master = pic.master
             /\ pic'.slave.irr = pic.slave.irr /\ pic'.slave.imr = pic.slave.imr
             /\ pic'.slave.base = pic.slave.base
             /\ pic'.slave.expects = pic.slave.expects
             /\ pic'.slave.isr = {n \in pic.slave.isr : \E k \in pic.slave.isr : k < n}
  <2> DEFINE word == AfterCommand(pic.slave, PIC_EOI)
  <2>1. /\ word \in Chip /\ word.irr = pic.slave.irr /\ word.imr = pic.slave.imr
        /\ word.base = pic.slave.base /\ word.expects = pic.slave.expects
        /\ word.isr = {n \in pic.slave.isr : \E k \in pic.slave.isr : k < n}
    BY <1>1, Ended
  <2>2. pic' = [pic EXCEPT !.slave = word] /\ UNCHANGED ctl
    BY <1>3, Ports
  <2> HIDE DEF word
  <2>3. /\ pic'.slave = word /\ pic'.master = pic.master
        /\ pic' = [master |-> pic'.master, slave |-> pic'.slave]
    BY <1>1, <2>2
  <2>4. pic' \in [master : Chip, slave : Chip]
    BY <1>1, <2>1, <2>3
  <2> QED
    BY <2>1, <2>2, <2>3, <2>4, Zenon
<1> QED
  BY <1>2, <1>3, Zenon

LEMMA OneInService ==
  \A n \in {1, 2, 4} : {i \in {n} : \E k \in {n} : k < i} = {}
OBVIOUS

LEMMA KeyboardHandlerStep ==
  ASSUME IInv, KeyboardHandler
  PROVE  IInv'
<1>1. handler # "none" /\ pc = 45
  <2>1. handler = "keyboard: read" \/ handler = "keyboard: end"
    BY Zenon DEF KeyboardHandler, Continue
  <2>2. handler # "none"
    BY <2>1
  <2> QED
    BY <2>2, HandlersRun
<1>2. UNCHANGED <<setUpVars, deviceVars, historyVars>> /\ pc' = pc
  BY DEF KeyboardHandler, setUpVars
<1>3. interruptFlag = FALSE
  BY <1>1, Zenon DEF IInv, SettingUp
<1>4. ASSUME Continue("keyboard: read", "keyboard: end"), ReadData
      PROVE  IInv'
  <2>1. /\ handler = "keyboard: read" /\ handler' = "keyboard: end"
        /\ interruptFlag' = FALSE
    BY <1>3, <1>4, Zenon DEF Continue
  <2>2. /\ OnlyRequests /\ ctl' \in Controller /\ ctl'.written = ctl.written
        /\ Awake'
    BY <1>4, ReadStep DEF Awake
  <2>3. HandlerMatchesInService'
    BY <2>1, <2>2 DEF IInv, HandlerMatchesInService, OnlyRequests
  <2>4. handler' \in HandlerPoint /\ interruptFlag' \in BOOLEAN
    BY <2>1 DEF HandlerPoint
  <2> QED
    BY <1>1, <1>2, <2>1, <2>2, <2>3, <2>4, HandlerStep DEF OnlyRequests
<1>5. ASSUME handler = "keyboard: end", Return,
             WritePort(PIC_MASTER_COMMAND, PIC_EOI)
      PROVE  IInv'
  <2>1. handler' = "none" /\ interruptFlag' = TRUE
    BY <1>5 DEF Return
  <2>2. pic.master.isr = {1} /\ pic.slave.isr = {}
    BY <1>5 DEF IInv, HandlerMatchesInService
  <2>3. /\ pic' \in [master : Chip, slave : Chip] /\ UNCHANGED ctl
        /\ pic'.slave = pic.slave
        /\ pic'.master.irr = pic.master.irr /\ pic'.master.imr = pic.master.imr
        /\ pic'.master.base = pic.master.base
        /\ pic'.master.expects = pic.master.expects
        /\ pic'.master.isr = {n \in pic.master.isr : \E k \in pic.master.isr : k < n}
    BY <1>5, EndStep
  <2>a. pic'.master.isr = {}
    BY <2>2, <2>3, OneInService
  <2>4. HandlerMatchesInService'
    BY <2>1, <2>2, <2>3, <2>a DEF HandlerMatchesInService
  <2>5. Awake'
    BY <1>1, <1>2, <1>5, <2>3 DEF IInv, Awake, KeyboardRequest, MouseRequest
  <2>6. /\ handler' \in HandlerPoint /\ interruptFlag' \in BOOLEAN
        /\ ctl' \in Controller
    BY <2>1, <2>3, TypesParts DEF HandlerPoint
  <2> QED
    BY <1>1, <1>2, <2>1, <2>3, <2>4, <2>5, <2>6, HandlerStep
<1> QED
  BY <1>4, <1>5, Zenon DEF KeyboardHandler

LEMMA MouseHandlerStep ==
  ASSUME IInv, MouseHandler
  PROVE  IInv'
<1>1. handler # "none" /\ pc = 45
  <2>1. \/ handler = "mouse: read" \/ handler = "mouse: end slave"
        \/ handler = "mouse: end master"
    BY Zenon DEF MouseHandler, Continue
  <2>2. handler # "none"
    BY <2>1
  <2> QED
    BY <2>2, HandlersRun
<1>2. UNCHANGED <<setUpVars, deviceVars, historyVars>> /\ pc' = pc
  BY DEF MouseHandler, setUpVars
<1>3. interruptFlag = FALSE
  BY <1>1, Zenon DEF IInv, SettingUp
<1>4. ASSUME Continue("mouse: read", "mouse: end slave"), ReadData
      PROVE  IInv'
  <2>1. /\ handler = "mouse: read" /\ handler' = "mouse: end slave"
        /\ interruptFlag' = FALSE
    BY <1>3, <1>4, Zenon DEF Continue
  <2>2. /\ OnlyRequests /\ ctl' \in Controller /\ ctl'.written = ctl.written
        /\ Awake'
    BY <1>4, ReadStep DEF Awake
  <2>3. HandlerMatchesInService'
    BY <2>1, <2>2 DEF IInv, HandlerMatchesInService, OnlyRequests
  <2>4. handler' \in HandlerPoint /\ interruptFlag' \in BOOLEAN
    BY <2>1 DEF HandlerPoint
  <2> QED
    BY <1>1, <1>2, <2>1, <2>2, <2>3, <2>4, HandlerStep DEF OnlyRequests
<1>5. ASSUME Continue("mouse: end slave", "mouse: end master"),
             WritePort(PIC_SLAVE_COMMAND, PIC_EOI)
      PROVE  IInv'
  <2>1. /\ handler = "mouse: end slave" /\ handler' = "mouse: end master"
        /\ interruptFlag' = FALSE
    BY <1>3, <1>5, Zenon DEF Continue
  <2>2. pic.master.isr = {2} /\ pic.slave.isr = {4}
    BY <2>1 DEF IInv, HandlerMatchesInService
  <2>3. /\ pic' \in [master : Chip, slave : Chip] /\ UNCHANGED ctl
        /\ pic'.master = pic.master
        /\ pic'.slave.irr = pic.slave.irr /\ pic'.slave.imr = pic.slave.imr
        /\ pic'.slave.base = pic.slave.base
        /\ pic'.slave.expects = pic.slave.expects
        /\ pic'.slave.isr = {n \in pic.slave.isr : \E k \in pic.slave.isr : k < n}
    BY <1>5, EndStep
  <2>a. pic'.slave.isr = {}
    BY <2>2, <2>3, OneInService
  <2>4. HandlerMatchesInService'
    BY <2>1, <2>2, <2>3, <2>a DEF HandlerMatchesInService
  <2>5. Awake'
    BY <1>1, <1>2, <2>1, <2>3 DEF IInv, Awake, KeyboardRequest, MouseRequest
  <2>6. /\ handler' \in HandlerPoint /\ interruptFlag' \in BOOLEAN
        /\ ctl' \in Controller
    BY <2>1, <2>3, TypesParts DEF HandlerPoint
  <2> QED
    BY <1>1, <1>2, <2>1, <2>3, <2>4, <2>5, <2>6, HandlerStep
<1>6. ASSUME handler = "mouse: end master", Return,
             WritePort(PIC_MASTER_COMMAND, PIC_EOI)
      PROVE  IInv'
  <2>1. handler' = "none" /\ interruptFlag' = TRUE
    BY <1>6 DEF Return
  <2>2. pic.master.isr = {2} /\ pic.slave.isr = {}
    BY <1>6 DEF IInv, HandlerMatchesInService
  <2>3. /\ pic' \in [master : Chip, slave : Chip] /\ UNCHANGED ctl
        /\ pic'.slave = pic.slave
        /\ pic'.master.irr = pic.master.irr /\ pic'.master.imr = pic.master.imr
        /\ pic'.master.base = pic.master.base
        /\ pic'.master.expects = pic.master.expects
        /\ pic'.master.isr = {n \in pic.master.isr : \E k \in pic.master.isr : k < n}
    BY <1>6, EndStep
  <2>a. pic'.master.isr = {}
    BY <2>2, <2>3, OneInService
  <2>4. HandlerMatchesInService'
    BY <2>1, <2>2, <2>3, <2>a DEF HandlerMatchesInService
  <2>5. Awake'
    BY <1>1, <1>2, <1>6, <2>3 DEF IInv, Awake, KeyboardRequest, MouseRequest
  <2>6. /\ handler' \in HandlerPoint /\ interruptFlag' \in BOOLEAN
        /\ ctl' \in Controller
    BY <2>1, <2>3, TypesParts DEF HandlerPoint
  <2> QED
    BY <1>1, <1>2, <2>1, <2>3, <2>4, <2>5, <2>6, HandlerStep
<1> QED
  BY <1>4, <1>5, <1>6, Zenon DEF MouseHandler

-----------------------------------------------------------------------------
(***************************************************************************)
(* The invariant.                                                          *)
(***************************************************************************)

LEMMA ProcessorStep ==
  ASSUME IInv, Processor
  PROVE  IInv'
BY RegisterStep, SetFlagStep, LoadIDTStep, OutPortStep, InPortStep, PollStep,
   InterruptStep, KeyboardHandlerStep, MouseHandlerStep DEF Processor

LEMMA StartsInIInv ==
  Init => IInv
<1> SUFFICES ASSUME Init
             PROVE  IInv
  OBVIOUS
<1>1. PICK masks \in FirmwareMasks :
        pic = [master |-> [irr |-> {}, isr |-> {}, imr |-> masks.master,
                           base |-> 8, expects |-> "mask"],
               slave |-> [irr |-> {}, isr |-> {}, imr |-> masks.slave,
                          base |-> 112, expects |-> "mask"]]
  BY DEF Init
<1>2. masks.master \in SUBSET Line /\ masks.slave \in SUBSET Line
  BY DevicesAssumption DEF Masks
<1>3. /\ pc = 1 /\ polls = Timeout /\ interruptFlag \in BOOLEAN /\ loaded = FALSE
      /\ handler = "none" /\ found \in Byte /\ disturbed = FALSE
      /\ reporting \in BOOLEAN
  BY DevicesAssumption DEF Init
<1>4. pic \in [master : Chip, slave : Chip]
  BY <1>1, <1>2 DEF Chip
<1>5. /\ ctl.written.port = 0 /\ ctl.full = FALSE
      /\ ctl \in Controller
  BY <1>3, BytesSent DEF Init, Controller, Nothing, Source
<1>6. TypeOK
  <2>1. ProcessorTypes
    <3>1. local \in [picMasterMask : SUBSET Line, picSlaveMask : SUBSET Line,
                     status : Byte]
      BY BytesSent DEF Init, NoLocals
    <3>2. pc \in 1 .. (Len(Program) + 1) /\ polls \in 1 .. Timeout
      BY <1>3, ProgramLength, DevicesAssumption
    <3>3. handler \in HandlerPoint /\ loaded \in BOOLEAN
      BY <1>3 DEF HandlerPoint
    <3> QED
      BY <1>3, <3>1, <3>2, <3>3, Zenon DEF ProcessorTypes
  <2>2. DeviceTypes /\ HistoryTypes
    <3>1. keyboard = <<>> /\ mouse = <<>>
      BY DEF Init
    <3>2. <<>> \in Seq(Byte)
      OBVIOUS
    <3>3. disturbed \in BOOLEAN
      BY <1>3
    <3> QED
      BY <1>3, <3>1, <3>2, <3>3, Zenon DEF DeviceTypes, HistoryTypes
  <2> QED
    BY <1>4, <1>5, <2>1, <2>2, Types
<1>7. HandlerMatchesInService
  BY <1>1, <1>3 DEF HandlerMatchesInService
<1>8. SettingUp /\ Registered
  BY <1>3 DEF SettingUp, Registered
<1>9. Remapped
  BY <1>1, <1>3 DEF Remapped, Expected
<1>10. CommandsKnown /\ Awake
  BY <1>3, <1>5 DEF CommandsKnown, Awake, PS2_COMMAND
<1> QED
  BY <1>6, <1>7, <1>8, <1>9, <1>10 DEF IInv

LEMMA StutterStep ==
  ASSUME IInv, UNCHANGED vars
  PROVE  IInv'
<1>1. UNCHANGED <<pc, local, polls, idt, loaded, interruptFlag, handler, pic, ctl,
                  keyboard, mouse, reporting, found, disturbed>>
  BY DEF vars, setUpVars, deviceVars, historyVars
<1>2. TypeOK' /\ HandlerMatchesInService'
  BY <1>1, Zenon DEF IInv, TypeOK, HandlerMatchesInService
<1>3. SettingUp' /\ Registered' /\ Remapped'
  BY <1>1, Zenon DEF IInv, SettingUp, Running, Registered, Remapped
<1>4. CommandsKnown' /\ Awake'
  BY <1>1, Zenon DEF IInv, CommandsKnown, Awake, KeyboardLine, MouseLine,
                     KeyboardRequest, MouseRequest
<1> QED
  BY <1>2, <1>3, <1>4 DEF IInv

\* The set-up and the handlers, at every step, are where the invariant has
\* them: the argument every theorem below rests on.
THEOREM Inductive == Spec => []IInv
<1>1. IInv /\ [Next]_vars => IInv'
  BY DevicesStep, ProcessorStep, StutterStep DEF Next
<1> QED
  BY <1>1, StartsInIInv, PTL DEF Spec

\* TypeOK: every variable keeps its type, in particular the words the chips and
\* the PS/2 controller are sent are words they know (remapPIC, initPS2Mouse).
THEOREM TypeCorrect == Spec => []TypeOK
<1>1. IInv => TypeOK
  BY Zenon DEF IInv
<1> QED
  BY <1>1, Inductive, PTL

\* HandlerMatchesInService: whatever the firmware and the devices do, only the
\* keyboard's and the mouse's interrupts reach the processor, each reaches its
\* own handler, and each handler ends the interrupt on the chips it came through
\* (pic_EndMaster, pic_EndSlave).
THEOREM HandlersMatch == Spec => []HandlerMatchesInService
<1>1. IInv => HandlerMatchesInService
  BY Zenon DEF IInv
<1> QED
  BY <1>1, Inductive, PTL

\* NoLostWakeup: when start-up ends, and ever after, a byte whose interrupt is
\* enabled has a request that will have it read, whatever initPS2Mouse polled.
THEOREM WakeupsKept == Spec => []NoLostWakeup
<1>1. IInv => NoLostWakeup
  <2> SUFFICES ASSUME IInv, Running
               PROVE  /\ KeyboardLine(ctl) => KeyboardRequest
                      /\ MouseLine(ctl) => MouseRequest
    BY Zenon DEF NoLostWakeup
  <2>1. pc > 24
    BY TypesParts, ProgramLength DEF Running, ProcessorTypes
  <2> QED
    BY <2>1, Zenon DEF IInv, Awake
<1> QED
  BY <1>1, Inductive, PTL

-----------------------------------------------------------------------------
(***************************************************************************)
(* Requests without a byte.                                                *)
(***************************************************************************)

\* The six terms of Surplus.
KeyRequested == Count(1 \in pic.master.irr)
KeyHandled == Count(handler = "keyboard: read")
MouseRequested == Count(4 \in pic.slave.irr)
MouseHandled == Count(handler = "mouse: read")
KeyLineUp == Count(KeyboardLine(ctl))
MouseLineUp == Count(MouseLine(ctl))

LEMMA SurplusIs ==
  /\ Surplus = KeyRequested + KeyHandled + MouseRequested + MouseHandled
               - KeyLineUp - MouseLineUp
  /\ Surplus' = KeyRequested' + KeyHandled' + MouseRequested' + MouseHandled'
                - KeyLineUp' - MouseLineUp'
BY Zenon DEF Surplus, KeyRequested, KeyHandled, MouseRequested, MouseHandled,
             KeyLineUp, MouseLineUp

LEMMA Counts ==
  /\ KeyRequested \in {0, 1} /\ (KeyRequested = 1 <=> 1 \in pic.master.irr)
  /\ KeyHandled \in {0, 1} /\ (KeyHandled = 1 <=> handler = "keyboard: read")
  /\ MouseRequested \in {0, 1} /\ (MouseRequested = 1 <=> 4 \in pic.slave.irr)
  /\ MouseHandled \in {0, 1} /\ (MouseHandled = 1 <=> handler = "mouse: read")
  /\ KeyLineUp \in {0, 1} /\ (KeyLineUp = 1 <=> KeyboardLine(ctl))
  /\ MouseLineUp \in {0, 1} /\ (MouseLineUp = 1 <=> MouseLine(ctl))
<1>1. 0 # 1
  OBVIOUS
<1> QED
  BY <1>1, Zenon DEF Count, KeyRequested, KeyHandled, MouseRequested, MouseHandled,
                     KeyLineUp, MouseLineUp

LEMMA CountsAfter ==
  /\ KeyRequested' \in {0, 1} /\ (KeyRequested' = 1 <=> 1 \in pic'.master.irr)
  /\ KeyHandled' \in {0, 1} /\ (KeyHandled' = 1 <=> handler' = "keyboard: read")
  /\ MouseRequested' \in {0, 1} /\ (MouseRequested' = 1 <=> 4 \in pic'.slave.irr)
  /\ MouseHandled' \in {0, 1} /\ (MouseHandled' = 1 <=> handler' = "mouse: read")
  /\ KeyLineUp' \in {0, 1} /\ (KeyLineUp' = 1 <=> KeyboardLine(ctl'))
  /\ MouseLineUp' \in {0, 1} /\ (MouseLineUp' = 1 <=> MouseLine(ctl'))
<1>1. 0 # 1
  OBVIOUS
<1> QED
  BY <1>1, Zenon DEF Count, KeyRequested, KeyHandled, MouseRequested, MouseHandled,
                     KeyLineUp, MouseLineUp, KeyboardLine, MouseLine

LEMMA CountsAreBits ==
  /\ KeyRequested \in {0, 1} /\ KeyHandled \in {0, 1} /\ MouseRequested \in {0, 1}
  /\ MouseHandled \in {0, 1} /\ KeyLineUp \in {0, 1} /\ MouseLineUp \in {0, 1}
  /\ KeyRequested' \in {0, 1} /\ KeyHandled' \in {0, 1} /\ MouseRequested' \in {0, 1}
  /\ MouseHandled' \in {0, 1} /\ KeyLineUp' \in {0, 1} /\ MouseLineUp' \in {0, 1}
BY Counts, CountsAfter, Zenon

LEMMA CountsAreIntegers ==
  /\ KeyRequested \in Int /\ KeyHandled \in Int /\ MouseRequested \in Int
  /\ MouseHandled \in Int /\ KeyLineUp \in Int /\ MouseLineUp \in Int
  /\ KeyRequested' \in Int /\ KeyHandled' \in Int /\ MouseRequested' \in Int
  /\ MouseHandled' \in Int /\ KeyLineUp' \in Int /\ MouseLineUp' \in Int
<1>1. \A n \in {0, 1} : n \in Int
  OBVIOUS
<1> QED
  BY <1>1, CountsAreBits, Zenon

LEMMA SurplusIsAnInteger == Surplus \in Int /\ Surplus' \in Int
BY SurplusIs, CountsAreBits

LEMMA RequestsForLines ==
  ASSUME NEW a \in {0, 1}, NEW b \in {0, 1}, NEW c \in {0, 1}, NEW d \in {0, 1},
         b = 1 => d = 1, c = 1 => a = 1 \/ (d = 1 /\ b # 1)
  PROVE  c - d <= a - b
OBVIOUS

LEMMA LinesForReads ==
  ASSUME NEW b \in {0, 1}, NEW d \in {0, 1}, NEW e \in {0, 1}, NEW f \in {0, 1},
         ~(e = 1 /\ f = 1), b = 1 \/ d = 1
  PROVE  e + f <= b + d
OBVIOUS

LEMMA LeftRequested ==
  ASSUME NEW a \in {0, 1}, NEW g \in {0, 1}, g = 1 => a = 1
  PROVE  g <= a
OBVIOUS

LEMMA MoreLinesThanRequests ==
  ASSUME KeyLineUp = 1 => KeyLineUp' = 1,
         KeyRequested' = 1 => KeyRequested = 1 \/ (KeyLineUp' = 1 /\ KeyLineUp # 1),
         MouseLineUp = 1 => MouseLineUp' = 1,
         MouseRequested' = 1 => MouseRequested = 1 \/ (MouseLineUp' = 1 /\ MouseLineUp # 1),
         KeyHandled' = KeyHandled, MouseHandled' = MouseHandled
  PROVE  Surplus' <= Surplus
<1>1. KeyRequested' - KeyLineUp' <= KeyRequested - KeyLineUp
  BY CountsAreBits, RequestsForLines
<1>2. MouseRequested' - MouseLineUp' <= MouseRequested - MouseLineUp
  BY CountsAreBits, RequestsForLines
<1>3. KeyRequested' + KeyHandled + MouseRequested' + MouseHandled - KeyLineUp' - MouseLineUp'
        <= KeyRequested + KeyHandled + MouseRequested + MouseHandled - KeyLineUp - MouseLineUp
  <2> DEFINE a == KeyRequested  b == KeyLineUp  c == KeyRequested'  d == KeyLineUp'
             e == MouseRequested  f == MouseLineUp  g == MouseRequested'  h == MouseLineUp'
             i == KeyHandled  j == MouseHandled
  <2>1. /\ a \in Int /\ b \in Int /\ c \in Int /\ d \in Int /\ e \in Int
        /\ f \in Int /\ g \in Int /\ h \in Int /\ i \in Int /\ j \in Int
    BY CountsAreIntegers
  <2>2. c - d <= a - b /\ g - h <= e - f
    BY <1>1, <1>2
  <2> HIDE DEF a, b, c, d, e, f, g, h, i, j
  <2>3. c + i + g + j - d - h <= a + i + e + j - b - f
    BY <2>1, <2>2
  <2> QED
    BY <2>3 DEF a, b, c, d, e, f, g, h, i, j
<1> QED
  BY <1>3, SurplusIs, Zenon

LEMMA LineForHandler ==
  ASSUME ~(KeyLineUp = 1 /\ MouseLineUp = 1), KeyHandled = 1 \/ MouseHandled = 1,
         KeyHandled' = 0, MouseHandled' = 0, KeyLineUp' = 0, MouseLineUp' = 0,
         KeyRequested' = 1 => KeyRequested = 1,
         MouseRequested' = 1 => MouseRequested = 1
  PROVE  Surplus' <= Surplus
<1>1. KeyRequested' + 0 + MouseRequested' + 0 - 0 - 0
        <= KeyRequested + KeyHandled + MouseRequested + MouseHandled - KeyLineUp - MouseLineUp
  <2> DEFINE a == KeyRequested  b == KeyHandled  c == MouseRequested  d == MouseHandled
             e == KeyLineUp  f == MouseLineUp  g == KeyRequested'  h == MouseRequested'
  <2>1. /\ a \in Int /\ b \in Int /\ c \in Int /\ d \in Int /\ e \in Int
        /\ f \in Int /\ g \in Int /\ h \in Int
    BY CountsAreIntegers
  <2>2. g <= a /\ h <= c
    BY CountsAreBits, LeftRequested, Zenon
  <2>3. e + f <= b + d
    BY CountsAreBits, LinesForReads, Zenon
  <2> HIDE DEF a, b, c, d, e, f, g, h
  <2>4. g + 0 + h + 0 - 0 - 0 <= a + b + c + d - e - f
    BY <2>1, <2>2, <2>3
  <2> QED
    BY <2>4 DEF a, b, c, d, e, f, g, h
<1> QED
  BY <1>1, SurplusIs, Zenon

\* With the handler where it is, a change of the controller that takes no line
\* down makes as many lines as requests at least.
LEMMA NoLineFalls ==
  ASSUME IInv, NEW c, SetController(c), UNCHANGED handler,
         KeyboardLine(ctl) => KeyboardLine(c), MouseLine(ctl) => MouseLine(c)
  PROVE  Surplus' <= Surplus
<1>1. /\ ctl' = c
      /\ 1 \in pic'.master.irr => 1 \in pic.master.irr
                                  \/ (KeyboardLine(c) /\ ~KeyboardLine(ctl))
      /\ 4 \in pic'.slave.irr => 4 \in pic.slave.irr
                                 \/ (MouseLine(c) /\ ~MouseLine(ctl))
  BY TypesParts, ControllerSet
<1>2. /\ KeyLineUp = 1 => KeyLineUp' = 1
      /\ KeyRequested' = 1 => KeyRequested = 1 \/ (KeyLineUp' = 1 /\ KeyLineUp # 1)
  BY <1>1, Counts, CountsAfter, Zenon
<1>3. /\ MouseLineUp = 1 => MouseLineUp' = 1
      /\ MouseRequested' = 1 => MouseRequested = 1 \/ (MouseLineUp' = 1 /\ MouseLineUp # 1)
  BY <1>1, Counts, CountsAfter, Zenon
<1>4. KeyHandled' = KeyHandled /\ MouseHandled' = MouseHandled
  BY Zenon DEF KeyHandled, MouseHandled
<1> QED
  BY <1>2, <1>3, <1>4, MoreLinesThanRequests, Zenon

\* Whatever the controller takes, it stays as it was unless its configuration
\* changes.
LEMMA LinesOfConfig ==
  ASSUME NEW c, c.full = ctl.full, c.source = ctl.source, c.config = ctl.config
  PROVE  (KeyboardLine(c) <=> KeyboardLine(ctl)) /\ (MouseLine(c) <=> MouseLine(ctl))
BY Zenon DEF KeyboardLine, MouseLine

LEMMA TakingKeepsSurplus ==
  ASSUME IInv, TakeCommand \/ TakeData, ctl'.config = ctl.config
  PROVE  Surplus' <= Surplus
<1>1. UNCHANGED handler
  BY DEF TakeCommand, TakeData, processorVars
<1>2. PICK c : SetController(c) /\ c.full = ctl.full /\ c.source = ctl.source
  <2>1. ctl \in Controller
    BY TypesParts
  <2>2. CASE TakeCommand
    <3> DEFINE taken == [ctl EXCEPT !.written = Nothing]
               command == ctl.written.value
               c == CASE command = ENABLE_AUX   -> [taken EXCEPT !.config = WithoutBit(@, MOUSE_DISABLED)]
                      [] command = READ_CONFIG  -> [taken EXCEPT !.answers = TRUE]
                      [] command = WRITE_CONFIG -> [taken EXCEPT !.expects = "config"]
                      [] command = TO_MOUSE     -> [taken EXCEPT !.expects = "mouse"]
    <3>1. SetController(c)
      BY <2>2, Zenon DEF TakeCommand
    <3>2. command \in {ENABLE_AUX, READ_CONFIG, WRITE_CONFIG, TO_MOUSE}
      BY <2>2, Zenon DEF TakeCommand, IInv, CommandsKnown
    <3>3. c.full = ctl.full /\ c.source = ctl.source
      <4>1. taken \in Controller /\ taken.full = ctl.full /\ taken.source = ctl.source
        BY <2>1, BytesSent DEF Controller, Nothing
      <4> HIDE DEF taken, command
      <4> QED
        BY <3>2, <4>1 DEF Controller
    <3> HIDE DEF c
    <3> QED
      BY <3>1, <3>3
  <2>3. CASE TakeData
    <3> DEFINE taken == [ctl EXCEPT !.written = Nothing, !.expects = "keyboard"]
               value == ctl.written.value
               c == IF ctl.expects = "config" THEN [taken EXCEPT !.config = value]
                                              ELSE taken
    <3>1. SetController(c)
      BY <2>3, Zenon DEF TakeData
    <3>2. c.full = ctl.full /\ c.source = ctl.source
      <4>1. taken \in Controller /\ taken.full = ctl.full /\ taken.source = ctl.source
        BY <2>1, BytesSent DEF Controller, Nothing
      <4> HIDE DEF taken, value
      <4> QED
        BY <4>1 DEF Controller
    <3> HIDE DEF c
    <3> QED
      BY <3>1, <3>2
  <2> QED
    BY <2>2, <2>3
<1>3. c.config = ctl.config
  BY <1>2 DEF SetController
<1>4. (KeyboardLine(c) <=> KeyboardLine(ctl)) /\ (MouseLine(c) <=> MouseLine(ctl))
  BY <1>2, <1>3, LinesOfConfig
<1> QED
  BY <1>1, <1>2, <1>4, NoLineFalls

LEMMA FillingKeepsSurplus ==
  ASSUME IInv, FillWithAnswer \/ FillFromKeyboard \/ FillFromMouse
  PROVE  Surplus' <= Surplus
<1>1. UNCHANGED handler /\ ~ctl.full
  BY DEF FillWithAnswer, FillFromKeyboard, FillFromMouse, processorVars
<1>2. PICK c : SetController(c)
  BY DEF FillWithAnswer, FillFromKeyboard, FillFromMouse
<1>3. ~KeyboardLine(ctl) /\ ~MouseLine(ctl)
  BY <1>1, Zenon DEF KeyboardLine, MouseLine
<1> QED
  BY <1>1, <1>2, <1>3, NoLineFalls

LEMMA OthersKeepSurplus ==
  ASSUME IInv, KeyStroke \/ MouseReports \/ TimerTick
  PROVE  Surplus' = Surplus
<1>1. UNCHANGED <<handler, ctl>>
  BY DEF KeyStroke, MouseReports, TimerTick, processorVars
<1>2. /\ pic'.slave.irr = pic.slave.irr
      /\ 1 \in pic'.master.irr <=> 1 \in pic.master.irr
  <2>1. CASE KeyStroke \/ MouseReports
    BY <2>1 DEF KeyStroke, MouseReports
  <2>2. CASE TimerTick
    <3>1. pic \in [master : Chip, slave : Chip]
      BY TypesParts
    <3>2. /\ pic'.master.irr = pic.master.irr \cup {0}
          /\ pic'.slave = pic.slave
      BY <2>2, <3>1 DEF TimerTick, Chip
    <3> QED
      BY <3>2
  <2> QED
    BY <2>1, <2>2
<1>3. /\ Count(1 \in pic'.master.irr) = Count(1 \in pic.master.irr)
      /\ Count(4 \in pic'.slave.irr) = Count(4 \in pic.slave.irr)
  BY <1>2, Zenon DEF Count
<1> QED
  BY <1>1, <1>3, Zenon DEF Surplus

LEMMA TakenRequest ==
  ASSUME IInv, Interrupt
  PROVE  Surplus' = Surplus
<1>1. handler = "none" /\ UNCHANGED ctl
  BY DEF Interrupt
<1>2. /\ pic.master \in Chip /\ pic.slave \in Chip /\ 1 \in Line /\ 2 \in Line /\ 4 \in Line
      /\ pic = [master |-> pic.master, slave |-> pic.slave]
  <2>1. pic \in [master : Chip, slave : Chip]
    BY TypesParts
  <2> QED
    BY <2>1 DEF Line
<1>3. handler # "keyboard: read" /\ handler # "mouse: read"
  BY <1>1
<1>4. KeyHandled = 0 /\ MouseHandled = 0
  BY <1>3, Counts, Zenon
<1>5. KeyLineUp' = KeyLineUp /\ MouseLineUp' = MouseLineUp
  BY <1>1, Zenon DEF KeyLineUp, MouseLineUp
<1>6. CASE /\ 1 \in pic.master.irr
           /\ pic' = [pic EXCEPT !.master = Acknowledged(@, 1)]
           /\ handler' = "keyboard: read"
  <2>1. pic'.master = Acknowledged(pic.master, 1) /\ pic'.slave = pic.slave
    BY <1>2, <1>6
  <2>2. pic'.master.irr = pic.master.irr \ {1}
    BY <1>2, <2>1, Acknowledge
  <2>3. 1 \notin pic'.master.irr /\ handler' # "mouse: read"
    BY <1>6, <2>2
  <2>4. KeyRequested' = 0 /\ KeyRequested = 1 /\ KeyHandled' = 1 /\ MouseHandled' = 0
    BY <1>6, <2>3, Counts, CountsAfter, Zenon
  <2>5. MouseRequested' = MouseRequested
    BY <2>1, Zenon DEF MouseRequested
  <2> QED
    BY <1>4, <1>5, <2>4, <2>5, CountsAreBits, SurplusIs
<1>7. CASE /\ 4 \in pic.slave.irr
           /\ pic' = [master |-> Acknowledged(pic.master, 2),
                      slave |-> Acknowledged(pic.slave, 4)]
           /\ handler' = "mouse: read"
  <2>1. pic'.master = Acknowledged(pic.master, 2) /\ pic'.slave = Acknowledged(pic.slave, 4)
    BY <1>7
  <2>2. pic'.master.irr = pic.master.irr \ {2} /\ pic'.slave.irr = pic.slave.irr \ {4}
    BY <1>2, <2>1, Acknowledge
  <2>3. /\ 1 \in pic'.master.irr <=> 1 \in pic.master.irr
        /\ 4 \notin pic'.slave.irr
    BY <2>2
  <2>a. handler' # "keyboard: read"
    BY <1>7
  <2>4. /\ MouseRequested' = 0 /\ MouseRequested = 1 /\ MouseHandled' = 1 /\ KeyHandled' = 0
    BY <1>7, <2>3, <2>a, Counts, CountsAfter, Zenon
  <2>5. KeyRequested' = KeyRequested
    BY <2>3, Zenon DEF KeyRequested, Count
  <2> QED
    BY <1>4, <1>5, <2>4, <2>5, CountsAreBits, SurplusIs
<1> QED
  BY <1>6, <1>7, InterruptEffect

\* A read takes one request with it, and at most one line, the byte's.
LEMMA ReadKeepsSurplus ==
  ASSUME IInv, ReadData, handler \in {"keyboard: read", "mouse: read"},
         handler' \in {"keyboard: end", "mouse: end slave"}
  PROVE  Surplus' <= Surplus
<1>1. ~KeyboardLine(ctl') /\ ~MouseLine(ctl')
  BY ReadStep
<1>2. /\ 1 \in pic'.master.irr => 1 \in pic.master.irr
      /\ 4 \in pic'.slave.irr => 4 \in pic.slave.irr
  <2> DEFINE c == [ctl EXCEPT !.full = FALSE]
  <2>1. SetController(c)
    BY DEF ReadData
  <2> HIDE DEF c
  <2>2. ctl' = c
    BY <2>1 DEF SetController
  <2>3. ~KeyboardLine(c) /\ ~MouseLine(c)
    BY <1>1, <2>2, Zenon
  <2> QED
    BY <2>1, <2>3, TypesParts, ControllerSet
<1>3. ~(KeyboardLine(ctl) /\ MouseLine(ctl))
  BY Zenon DEF KeyboardLine, MouseLine
<1>4. ~(KeyLineUp = 1 /\ MouseLineUp = 1)
  BY <1>3, Counts, Zenon
<1>5. KeyHandled = 1 \/ MouseHandled = 1
  <2>1. handler = "keyboard: read" \/ handler = "mouse: read"
    OBVIOUS
  <2> QED
    BY <2>1, Counts, Zenon
<1>6. KeyHandled' = 0 /\ MouseHandled' = 0 /\ KeyLineUp' = 0 /\ MouseLineUp' = 0
  <2>1. handler' # "keyboard: read" /\ handler' # "mouse: read"
    OBVIOUS
  <2> QED
    BY <1>1, <2>1, CountsAfter, Zenon
<1>7. /\ KeyRequested' = 1 => KeyRequested = 1
      /\ MouseRequested' = 1 => MouseRequested = 1
  BY <1>2, Counts, CountsAfter, Zenon
<1> QED
  BY <1>4, <1>5, <1>6, <1>7, LineForHandler, Zenon

LEMMA EndKeepsSurplus ==
  ASSUME IInv, UNCHANGED ctl,
         pic'.master.irr = pic.master.irr, pic'.slave.irr = pic.slave.irr,
         handler \notin {"keyboard: read", "mouse: read"},
         handler' \notin {"keyboard: read", "mouse: read"}
  PROVE  Surplus' = Surplus
<1>1. /\ Count(handler = "keyboard: read") = Count(handler' = "keyboard: read")
      /\ Count(handler = "mouse: read") = Count(handler' = "mouse: read")
  BY DEF Count
<1> QED
  BY <1>1, Zenon DEF Surplus

LEMMA HandlersKeepSurplus ==
  ASSUME IInv, KeyboardHandler \/ MouseHandler
  PROVE  Surplus' <= Surplus
<1>1. CASE /\ handler \in {"keyboard: read", "mouse: read"} /\ ReadData
           /\ handler' \in {"keyboard: end", "mouse: end slave"}
  BY <1>1, ReadKeepsSurplus
<1>2. CASE /\ handler \in {"keyboard: end", "mouse: end slave", "mouse: end master"}
           /\ handler' \in {"none", "mouse: end master"}
           /\ \/ WritePort(PIC_MASTER_COMMAND, PIC_EOI)
              \/ WritePort(PIC_SLAVE_COMMAND, PIC_EOI)
  <2>1. /\ UNCHANGED ctl
        /\ pic'.master.irr = pic.master.irr /\ pic'.slave.irr = pic.slave.irr
    BY <1>2, EndStep
  <2>2. Surplus' = Surplus
    BY <1>2, <2>1, EndKeepsSurplus
  <2> QED
    BY <2>2, SurplusIsAnInteger
<1>3. CASE KeyboardHandler
  BY <1>1, <1>2, <1>3 DEF KeyboardHandler, Continue, Return
<1>4. CASE MouseHandler
  BY <1>1, <1>2, <1>4 DEF MouseHandler, Continue, Return
<1> QED
  BY <1>3, <1>4

\* SurplusNeverGrows: the requests whose byte initPS2Mouse polled away are never
\* more than it left; no interrupt, read, end of interrupt or device adds one.
THEOREM SurplusBounded == Spec => SurplusNeverGrows
<1>1. ASSUME IInv, [Next]_vars
      PROVE  [Running /\ ctl'.config = ctl.config => Surplus' <= Surplus]_vars
  <2> SUFFICES ASSUME Next, Running, ctl'.config = ctl.config
               PROVE  Surplus' <= Surplus
    BY <1>1
  <2>1. CASE Devices
    BY <1>1, <2>1, TakingKeepsSurplus, FillingKeepsSurplus, OthersKeepSurplus,
       SurplusIsAnInteger DEF Devices
  <2>2. CASE Interrupt
    BY <1>1, <2>2, TakenRequest, SurplusIsAnInteger
  <2>3. CASE KeyboardHandler \/ MouseHandler
    BY <1>1, <2>3, HandlersKeepSurplus
  <2>4. ~(RegisterInterrupt \/ SetFlag \/ LoadIDT \/ OutPort \/ InPort \/ Poll)
    BY Zenon DEF RegisterInterrupt, SetFlag, LoadIDT, OutPort, InPort, Poll, NextInstruction
  <2> QED
    BY <2>1, <2>2, <2>3, <2>4, Zenon DEF Next, Processor
<1> QED
  BY <1>1, Inductive, PTL DEF Spec, SurplusNeverGrows

\* Once the requests initPS2Mouse left over are used up, the keyboard's handler
\* reads a byte that is not the mouse's, the mouse's handler one that is, and
\* neither reads a byte twice.
THEOREM HandlersReadTheirOwn ==
  Spec => [](Running /\ Surplus = 0 =>
               /\ handler = "keyboard: read" => ctl.full /\ ctl.source # "mouse"
               /\ handler = "mouse: read" => ctl.full /\ ctl.source = "mouse")
<1>1. ASSUME IInv, NoLostWakeup, Running, Surplus = 0
      PROVE  /\ handler = "keyboard: read" => ctl.full /\ ctl.source # "mouse"
             /\ handler = "mouse: read" => ctl.full /\ ctl.source = "mouse"
  <2>1. /\ KeyboardLine(ctl) => 1 \in pic.master.irr \/ handler = "keyboard: read"
        /\ MouseLine(ctl) => 4 \in pic.slave.irr \/ handler = "mouse: read"
    BY <1>1, Zenon DEF NoLostWakeup, KeyboardRequest, MouseRequest
  <2>2. /\ KeyLineUp = 1 => KeyRequested = 1 \/ KeyHandled = 1
        /\ MouseLineUp = 1 => MouseRequested = 1 \/ MouseHandled = 1
    BY <2>1, Counts, Zenon
  <2>3. KeyRequested + KeyHandled + MouseRequested + MouseHandled
        - KeyLineUp - MouseLineUp = 0
    BY <1>1, SurplusIs
  <2>4. (KeyHandled = 1 => KeyLineUp = 1) /\ (MouseHandled = 1 => MouseLineUp = 1)
    BY <2>2, <2>3, CountsAreBits
  <2>5. /\ handler = "keyboard: read" => KeyboardLine(ctl)
        /\ handler = "mouse: read" => MouseLine(ctl)
    BY <2>4, Counts, Zenon
  <2> QED
    BY <2>5, Zenon DEF KeyboardLine, MouseLine
<1> QED
  BY <1>1, Inductive, WakeupsKept, PTL
=============================================================================
