---------------------------- MODULE InputSystem ----------------------------
(***************************************************************************)
(* From prepareInterrupts to the running kernel: the interrupt             *)
(* descriptors, the two interrupt controllers (interrupts/PIC.cpp), the    *)
(* PS/2 controller that initPS2Mouse talks to, and the two interrupt       *)
(* handlers (interrupts/Interrupts.cpp).                                   *)
(*                                                                         *)
(* The set-up is straight-line code, so it is written down as a program of *)
(* port accesses and waits, which the processor executes one at a time     *)
(* while the keyboard, the mouse, the timer and the controllers go on.     *)
(* The devices are modelled from how the code uses them.                   *)
(***************************************************************************)
EXTENDS Integers, Sequences

CONSTANTS
  FirmwareConfigs,    \* configuration bytes the firmware may leave
  FirmwareMasks,      \* pairs of masks the firmware may leave
  KeyCodes,           \* scan codes the keyboard may send
  MouseBytes,         \* bytes of the mouse's reports
  Timeout,            \* polls before a wait gives up, 10000 in the code
  KeyboardBuffer      \* bound: bytes the keyboard holds back

Byte == 0 .. 255

\* A bit is named by its value.
Bit(byte, bit) == (byte \div bit) % 2 = 1
WithBit(byte, bit) == IF Bit(byte, bit) THEN byte ELSE byte + bit
WithoutBit(byte, bit) == IF Bit(byte, bit) THEN byte - bit ELSE byte

Line == 0 .. 7          \* the inputs of an interrupt controller
Masks == [master : SUBSET Line, slave : SUBSET Line]

ASSUME DevicesAssumption ==
  /\ FirmwareConfigs \subseteq Byte
  /\ FirmwareMasks \subseteq Masks
  /\ KeyCodes \subseteq Byte /\ MouseBytes \subseteq Byte
  /\ Timeout \in Nat \ {0} /\ KeyboardBuffer \in Nat

VARIABLES
  pc,             \* the next instruction of Program
  local,          \* remapPIC's masks and initPS2Mouse's status
  polls,          \* polls left to the wait under way
  interruptFlag,  \* the processor's
  idt,            \* the vectors registered, each with its handler
  loaded,         \* whether idt is the processor's table
  handler,        \* the handler that runs, and where it is
  pic,            \* the two interrupt controllers
  ctl,            \* the PS/2 controller
  keyboard,       \* bytes the keyboard has to send
  mouse,          \* bytes the mouse has to send
  reporting,      \* whether the mouse sends reports
  found,          \* history: the configuration the firmware left
  disturbed       \* history: a device's byte came before the configuration was
                  \* read, or a wait gave up

setUpVars == <<pc, local, polls, idt, loaded>>
deviceVars == <<keyboard, mouse, reporting>>
historyVars == <<found, disturbed>>
vars == <<setUpVars, interruptFlag, handler, pic, ctl, deviceVars, historyVars>>

-----------------------------------------------------------------------------
(***************************************************************************)
(* The program.                                                            *)
(***************************************************************************)

PIC_MASTER_COMMAND == 32
PIC_MASTER_DATA == 33
PIC_SLAVE_COMMAND == 160
PIC_SLAVE_DATA == 161
PS2_DATA == 96              \* 0x60
PS2_COMMAND == 100          \* 0x64
ICW1 == 17                  \* ICW1_INIT | ICW1_ICW4
PIC_EOI == 32

ENABLE_AUX == 168           \* 0xa8
READ_CONFIG == 32           \* 0x20
WRITE_CONFIG == 96          \* 0x60
TO_MOUSE == 212             \* 0xd4
SET_DEFAULTS == 246         \* 0xf6
ENABLE_REPORTING == 244     \* 0xf4
ACK == 250                  \* 0xfa, the mouse's answer

\* The bits of the PS/2 controller's configuration.
KEYBOARD_INTERRUPT == 1
MOUSE_INTERRUPT == 2
KEYBOARD_DISABLED == 16
MOUSE_DISABLED == 32

Register(vector, name) == [op |-> "register", vector |-> vector, name |-> name]
Cli == [op |-> "cli"]
Lidt == [op |-> "lidt"]
Sti == [op |-> "sti"]
Out(port, value) == [op |-> "out", port |-> port, value |-> value]
\* Of a local: the masks as they are, the status with its second bit set.
OutLocal(port, name) == [op |-> "outLocal", port |-> port, name |-> name]
In(port, name) == [op |-> "in", port |-> port, name |-> name]
mouseWait == [op |-> "wait", until |-> "written"]
mouseWaitInput == [op |-> "wait", until |-> "readable"]

remapPIC ==
  <<In(PIC_MASTER_DATA, "picMasterMask"), In(PIC_SLAVE_DATA, "picSlaveMask"),
    Out(PIC_MASTER_COMMAND, ICW1), Out(PIC_SLAVE_COMMAND, ICW1),
    Out(PIC_MASTER_DATA, 32), Out(PIC_SLAVE_DATA, 40),
    Out(PIC_MASTER_DATA, 4), Out(PIC_SLAVE_DATA, 2),
    Out(PIC_MASTER_DATA, 1), Out(PIC_SLAVE_DATA, 1),
    OutLocal(PIC_MASTER_DATA, "picMasterMask"),
    OutLocal(PIC_SLAVE_DATA, "picSlaveMask")>>

\* MUTANT FORM of prepareInterrupts: interrupts stay enabled.
prepareInterruptsEnabled ==
  <<Register(8, "DoubleFault"), Register(13, "GeneralProtectionFault"),
    Register(14, "PageFault"), Register(33, "keyboard: read"),
    Register(44, "mouse: read"), Lidt>> \o remapPIC

prepareInterrupts ==
  <<Register(8, "DoubleFault"), Register(13, "GeneralProtectionFault"),
    Register(14, "PageFault"), Register(33, "keyboard: read"),
    Register(44, "mouse: read"), Cli, Lidt>> \o remapPIC

mouseWrite(value) ==
  <<mouseWait, Out(PS2_COMMAND, TO_MOUSE), mouseWait, Out(PS2_DATA, value)>>

mouseRead == <<mouseWaitInput, In(PS2_DATA, "ignored")>>

\* MUTANT FORM of initPS2Mouse: the configuration is read without waiting.
initPS2MouseUnwaited ==
  <<Out(PS2_COMMAND, ENABLE_AUX), mouseWait,
    Out(PS2_COMMAND, READ_CONFIG), In(PS2_DATA, "status"), mouseWait,
    Out(PS2_COMMAND, WRITE_CONFIG), mouseWait,
    OutLocal(PS2_DATA, "status"), mouseWait>>
  \o mouseWrite(SET_DEFAULTS) \o mouseRead
  \o mouseWrite(ENABLE_REPORTING) \o mouseRead

initPS2Mouse ==
  <<Out(PS2_COMMAND, ENABLE_AUX), mouseWait,
    Out(PS2_COMMAND, READ_CONFIG), mouseWaitInput, In(PS2_DATA, "status"),
    mouseWait, Out(PS2_COMMAND, WRITE_CONFIG), mouseWait,
    OutLocal(PS2_DATA, "status"), mouseWait>>
  \o mouseWrite(SET_DEFAULTS) \o mouseRead
  \o mouseWrite(ENABLE_REPORTING) \o mouseRead

\* initializeKernel from prepareInterrupts on; 0b11111001 and 0b11101111.
Program ==
  prepareInterrupts \o initPS2Mouse
  \o <<Out(PIC_MASTER_DATA, Line \ {1, 2}), Out(PIC_SLAVE_DATA, Line \ {4}), Sti>>

Running == pc > Len(Program)
NextInstruction(op) == ~Running /\ handler = "none" /\ Program[pc].op = op

-----------------------------------------------------------------------------
(***************************************************************************)
(* The devices' registers.                                                 *)
(***************************************************************************)

Chip == [irr : SUBSET Line, isr : SUBSET Line, imr : SUBSET Line,
         base : Nat, expects : {"mask", "ICW2", "ICW3", "ICW4"}]

\* ICW1 clears everything and asks for three more words; the end of an
\* interrupt ends the one of highest priority.
AfterCommand(chip, value) ==
  IF value = ICW1
    THEN [chip EXCEPT !.irr = {}, !.isr = {}, !.imr = {}, !.expects = "ICW2"]
    ELSE [chip EXCEPT !.isr = {n \in @ : \E k \in @ : k < n}]

AfterData(chip, value) ==
  CASE chip.expects = "ICW2" -> [chip EXCEPT !.base = value, !.expects = "ICW3"]
    [] chip.expects = "ICW3" -> [chip EXCEPT !.expects = "ICW4"]
    [] chip.expects = "ICW4" -> [chip EXCEPT !.expects = "mask"]
    [] chip.expects = "mask" -> [chip EXCEPT !.imr = value]

Source == {"controller", "keyboard", "mouse"}
Nothing == [port |-> 0, value |-> 0]

\* The lines to the interrupt controllers: inputs 1 of the master, 4 of the
\* slave.
KeyboardLine(c) == c.full /\ c.source # "mouse" /\ Bit(c.config, KEYBOARD_INTERRUPT)
MouseLine(c)    == c.full /\ c.source = "mouse" /\ Bit(c.config, MOUSE_INTERRUPT)

\* A rising line is a request.  When the line falls first, some controllers
\* keep the request and others drop it.
Requests(irr, n, before, after) ==
  CASE ~before /\ after  -> {irr \cup {n}}
    [] before /\ ~after  -> {irr, irr \ {n}}
    [] before <=> after  -> {irr}

SetController(c) ==
  /\ ctl' = c
  /\ \E m \in Requests(pic.master.irr, 1, KeyboardLine(ctl), KeyboardLine(c)),
        s \in Requests(pic.slave.irr, 4, MouseLine(ctl), MouseLine(c)) :
       pic' = [pic EXCEPT !.master.irr = m, !.slave.irr = s]

\* A byte is read from the output buffer; when it is empty, the last one again.
ReadData == SetController([ctl EXCEPT !.full = FALSE])

WritePort(port, value) ==
  CASE port = PIC_MASTER_COMMAND ->
         pic' = [pic EXCEPT !.master = AfterCommand(@, value)] /\ UNCHANGED ctl
    [] port = PIC_SLAVE_COMMAND ->
         pic' = [pic EXCEPT !.slave = AfterCommand(@, value)] /\ UNCHANGED ctl
    [] port = PIC_MASTER_DATA ->
         pic' = [pic EXCEPT !.master = AfterData(@, value)] /\ UNCHANGED ctl
    [] port = PIC_SLAVE_DATA ->
         pic' = [pic EXCEPT !.slave = AfterData(@, value)] /\ UNCHANGED ctl
    [] port \in {PS2_DATA, PS2_COMMAND} ->
         /\ ctl' = [ctl EXCEPT !.written = [port |-> port, value |-> value]]
         /\ UNCHANGED pic

-----------------------------------------------------------------------------

NoLocals == [picMasterMask |-> {}, picSlaveMask |-> {}, status |-> 0]

\* The firmware leaves both controllers working; the mouse may be reporting.
Init ==
  /\ pc = 1 /\ local = NoLocals /\ polls = Timeout
  /\ interruptFlag \in BOOLEAN
  /\ idt = <<>> /\ loaded = FALSE /\ handler = "none"
  /\ \E masks \in FirmwareMasks :
       pic = [master |-> [irr |-> {}, isr |-> {}, imr |-> masks.master,
                          base |-> 8, expects |-> "mask"],
              slave |-> [irr |-> {}, isr |-> {}, imr |-> masks.slave,
                         base |-> 112, expects |-> "mask"]]
  /\ found \in FirmwareConfigs
  /\ ctl = [full |-> FALSE, byte |-> 0, source |-> "controller",
            config |-> found, written |-> Nothing, expects |-> "keyboard",
            answers |-> FALSE]
  /\ keyboard = <<>> /\ mouse = <<>> /\ reporting \in BOOLEAN
  /\ disturbed = FALSE

(***************************************************************************)
(* The processor: the program.                                             *)
(***************************************************************************)

Goto(next) == pc' = next /\ UNCHANGED <<handler, deviceVars, found>>

RegisterInterrupt ==
  /\ NextInstruction("register")
  /\ LET i == Program[pc] IN
     idt' = [v \in DOMAIN idt \cup {i.vector} |->
               IF v = i.vector THEN i.name ELSE idt[v]]
  /\ Goto(pc + 1)
  /\ UNCHANGED <<local, polls, interruptFlag, loaded, pic, ctl, disturbed>>

SetFlag ==
  /\ \/ NextInstruction("cli") /\ interruptFlag' = FALSE
     \/ NextInstruction("sti") /\ interruptFlag' = TRUE
  /\ Goto(pc + 1)
  /\ local' = NoLocals
  /\ UNCHANGED <<polls, idt, loaded, pic, ctl, disturbed>>

LoadIDT ==
  /\ NextInstruction("lidt")
  /\ loaded' = TRUE
  /\ Goto(pc + 1)
  /\ UNCHANGED <<local, polls, interruptFlag, idt, pic, ctl, disturbed>>

\* A write to the PS/2 controller before it took the last one replaces it.
OutPort ==
  /\ \/ /\ NextInstruction("out")
        /\ WritePort(Program[pc].port, Program[pc].value)
     \/ /\ NextInstruction("outLocal")
        /\ LET i == Program[pc] IN
           WritePort(i.port, IF i.name = "status"
                             THEN WithBit(local.status, MOUSE_INTERRUPT)
                             ELSE local[i.name])
  /\ Goto(pc + 1)
  /\ UNCHANGED <<local, polls, interruptFlag, idt, loaded, disturbed>>

InPort ==
  /\ NextInstruction("in")
  /\ LET i == Program[pc] IN
     /\ local' = IF i.name = "ignored" THEN local ELSE
                  [local EXCEPT ![i.name] =
                    CASE i.port = PIC_MASTER_DATA -> pic.master.imr
                      [] i.port = PIC_SLAVE_DATA  -> pic.slave.imr
                      [] i.port = PS2_DATA        -> ctl.byte]
     /\ IF i.port = PS2_DATA
          THEN ReadData
          ELSE UNCHANGED <<pic, ctl>>
  /\ Goto(pc + 1)
  /\ UNCHANGED <<polls, interruptFlag, idt, loaded, disturbed>>

\* Bit 1 of port 0x64: the last write was not taken; bit 0: a byte to read.
Awaited == IF Program[pc].until = "written" THEN ctl.written = Nothing
                                            ELSE ctl.full

\* MUTANT FORM of Poll: the polls are not counted.
PollForever ==
  /\ NextInstruction("wait") /\ Awaited
  /\ Goto(pc + 1)
  /\ UNCHANGED <<local, polls, interruptFlag, idt, loaded, pic, ctl, disturbed>>

Poll ==
  /\ NextInstruction("wait")
  /\ LET failsLast == ~Awaited /\ polls = 1 IN
     /\ Goto(IF Awaited \/ failsLast THEN pc + 1 ELSE pc)
     /\ polls' = IF Awaited \/ failsLast THEN Timeout ELSE polls - 1
     /\ disturbed' = (disturbed \/ failsLast)
  /\ UNCHANGED <<local, interruptFlag, idt, loaded, pic, ctl>>

-----------------------------------------------------------------------------
(***************************************************************************)
(* The processor: interrupts and their handlers.                           *)
(***************************************************************************)

SlaveCandidates ==
  {n \in pic.slave.irr \ pic.slave.imr : \A k \in pic.slave.isr : n < k}

\* Input 2 of the master is the slave.
MasterCandidates ==
  {n \in (pic.master.irr \ {2}) \cup (IF SlaveCandidates = {} THEN {} ELSE {2}) :
     n \notin pic.master.imr /\ \A k \in pic.master.isr : n < k}

Acknowledged(chip, n) == [chip EXCEPT !.irr = @ \ {n}, !.isr = @ \cup {n}]

Handler(vector) == IF vector \in DOMAIN idt THEN idt[vector] ELSE "garbage"

First(n, lines) == n \in lines /\ \A k \in lines : n <= k

\* The request of highest priority is taken, through an interrupt gate.
Interrupt ==
  /\ interruptFlag /\ loaded /\ handler = "none"
  /\ \E m \in Line :
       /\ First(m, MasterCandidates)
       /\ \/ /\ m # 2
             /\ pic' = [pic EXCEPT !.master = Acknowledged(@, m)]
             /\ handler' = Handler(pic.master.base + m)
          \/ /\ m = 2
             /\ \E s \in Line :
                  /\ First(s, SlaveCandidates)
                  /\ pic' = [master |-> Acknowledged(pic.master, 2),
                             slave |-> Acknowledged(pic.slave, s)]
                  /\ handler' = Handler(pic.slave.base + s)
  /\ interruptFlag' = FALSE
  /\ UNCHANGED <<setUpVars, ctl, deviceVars, historyVars>>

Return == handler' = "none" /\ interruptFlag' = TRUE

Continue(here, next) ==
  handler = here /\ handler' = next /\ UNCHANGED interruptFlag

\* MUTANT FORM of KeyboardHandler: it reads on, as long as there is a byte.
KeyboardHandlerReadsOn ==
  /\ \/ /\ Continue("keyboard: read", IF ctl.full THEN "keyboard: read"
                                                  ELSE "keyboard: end")
        /\ ReadData
     \/ /\ handler = "keyboard: end" /\ Return
        /\ WritePort(PIC_MASTER_COMMAND, PIC_EOI)
  /\ UNCHANGED <<setUpVars, deviceVars, historyVars>>

\* MUTANT FORM of KeyboardHandler: the end is signalled without a read.
KeyboardHandlerUnread ==
  /\ \/ /\ Continue("keyboard: read", "keyboard: end")
        /\ UNCHANGED <<pic, ctl>>
     \/ /\ handler = "keyboard: end" /\ Return
        /\ WritePort(PIC_MASTER_COMMAND, PIC_EOI)
  /\ UNCHANGED <<setUpVars, deviceVars, historyVars>>

\* The byte goes to handlePS2_Keyboard (module Keyboard); then pic_EndMaster.
KeyboardHandler ==
  /\ \/ /\ Continue("keyboard: read", "keyboard: end")
        /\ ReadData
     \/ /\ handler = "keyboard: end" /\ Return
        /\ WritePort(PIC_MASTER_COMMAND, PIC_EOI)
  /\ UNCHANGED <<setUpVars, deviceVars, historyVars>>

\* MUTANT FORM of MouseHandler: only the slave is told of the end.
MouseHandlerEndsSlave ==
  /\ \/ Continue("mouse: read", "mouse: end slave") /\ ReadData
     \/ /\ handler = "mouse: end slave" /\ Return
        /\ WritePort(PIC_SLAVE_COMMAND, PIC_EOI)
  /\ UNCHANGED <<setUpVars, deviceVars, historyVars>>

\* The byte goes to handlePS2MouseInterrupt (PS2Mouse); then pic_EndSlave.
MouseHandler ==
  /\ \/ Continue("mouse: read", "mouse: end slave") /\ ReadData
     \/ /\ Continue("mouse: end slave", "mouse: end master")
        /\ WritePort(PIC_SLAVE_COMMAND, PIC_EOI)
     \/ /\ handler = "mouse: end master" /\ Return
        /\ WritePort(PIC_MASTER_COMMAND, PIC_EOI)
  /\ UNCHANGED <<setUpVars, deviceVars, historyVars>>

Processor ==
  \/ RegisterInterrupt \/ SetFlag \/ LoadIDT \/ OutPort \/ InPort \/ Poll
  \/ Interrupt \/ KeyboardHandler \/ MouseHandler

-----------------------------------------------------------------------------
(***************************************************************************)
(* The devices.                                                            *)
(***************************************************************************)

processorVars == <<setUpVars, interruptFlag, handler>>

\* The PS/2 controller takes what was written to it.
TakeCommand ==
  /\ ctl.written.port = PS2_COMMAND
  /\ LET taken == [ctl EXCEPT !.written = Nothing]
         command == ctl.written.value IN
     SetController(
       CASE command = ENABLE_AUX   -> [taken EXCEPT !.config = WithoutBit(@, MOUSE_DISABLED)]
         [] command = READ_CONFIG  -> [taken EXCEPT !.answers = TRUE]
         [] command = WRITE_CONFIG -> [taken EXCEPT !.expects = "config"]
         [] command = TO_MOUSE     -> [taken EXCEPT !.expects = "mouse"])
  /\ UNCHANGED <<processorVars, deviceVars, historyVars>>

\* A byte no command waits for goes to the keyboard, which answers it.
TakeData ==
  /\ ctl.written.port = PS2_DATA
  /\ LET taken == [ctl EXCEPT !.written = Nothing, !.expects = "keyboard"]
         value == ctl.written.value IN
     /\ SetController(IF ctl.expects = "config" THEN [taken EXCEPT !.config = value]
                                                ELSE taken)
     /\ mouse' = IF ctl.expects = "mouse" THEN Append(mouse, ACK) ELSE mouse
     /\ reporting' = IF ctl.expects = "mouse" THEN value = ENABLE_REPORTING
                                              ELSE reporting
     /\ keyboard' = IF ctl.expects = "keyboard" THEN Append(keyboard, ACK)
                                                ELSE keyboard
  /\ UNCHANGED <<processorVars, historyVars>>

Filled(source, byte) == [ctl EXCEPT !.full = TRUE, !.source = source, !.byte = byte]

StatusWasRead == \E i \in 1 .. (pc - 1) : Program[i] = In(PS2_DATA, "status")

\* The empty output buffer takes the controller's answer, or a byte of a
\* device whose interface is not disabled.
FillWithAnswer ==
  /\ ~ctl.full /\ ctl.answers
  /\ SetController([Filled("controller", ctl.config) EXCEPT !.answers = FALSE])
  /\ UNCHANGED <<processorVars, deviceVars, historyVars>>

FillFromKeyboard ==
  /\ ~ctl.full /\ keyboard # <<>> /\ ~Bit(ctl.config, KEYBOARD_DISABLED)
  /\ SetController(Filled("keyboard", Head(keyboard)))
  /\ keyboard' = Tail(keyboard)
  /\ disturbed' = (disturbed \/ ~StatusWasRead)
  /\ UNCHANGED <<processorVars, mouse, reporting, found>>

FillFromMouse ==
  /\ ~ctl.full /\ mouse # <<>> /\ ~Bit(ctl.config, MOUSE_DISABLED)
  /\ SetController(Filled("mouse", Head(mouse)))
  /\ mouse' = Tail(mouse)
  /\ disturbed' = (disturbed \/ ~StatusWasRead)
  /\ UNCHANGED <<processorVars, keyboard, reporting, found>>

KeyStroke ==
  /\ Len(keyboard) < KeyboardBuffer
  /\ \E code \in KeyCodes : keyboard' = Append(keyboard, code)
  /\ UNCHANGED <<processorVars, pic, ctl, mouse, reporting, historyVars>>

MouseReports ==
  /\ reporting /\ mouse = <<>>
  /\ \E byte \in MouseBytes : mouse' = <<byte>>
  /\ UNCHANGED <<processorVars, pic, ctl, keyboard, reporting, historyVars>>

\* Input 0 of the master, again and again.
TimerTick ==
  /\ pic' = [pic EXCEPT !.master.irr = @ \cup {0}]
  /\ UNCHANGED <<processorVars, ctl, deviceVars, historyVars>>

Devices ==
  \/ TakeCommand \/ TakeData \/ FillWithAnswer \/ FillFromKeyboard
  \/ FillFromMouse \/ KeyStroke \/ MouseReports \/ TimerTick

Next == Processor \/ Devices

Spec == Init /\ [][Next]_vars

\* The processor goes on, and takes interrupts; nothing is asked of the devices.
FairSpec == Spec /\ WF_vars(Processor)
-----------------------------------------------------------------------------
(***************************************************************************)
(* Properties.                                                             *)
(***************************************************************************)

Controller ==
  [full : BOOLEAN, byte : Byte, source : Source, config : Byte,
   written : [port : {0, PS2_DATA, PS2_COMMAND}, value : Byte],
   expects : {"keyboard", "config", "mouse"}, answers : BOOLEAN]

HandlerPoint ==
  {"none", "keyboard: read", "keyboard: end", "mouse: read", "mouse: end slave",
   "mouse: end master"}

TypeOK ==
  /\ pc \in 1 .. (Len(Program) + 1) /\ polls \in 1 .. Timeout
  /\ local \in [picMasterMask : SUBSET Line, picSlaveMask : SUBSET Line,
                status : Byte]
  /\ interruptFlag \in BOOLEAN /\ loaded \in BOOLEAN
  /\ handler \in HandlerPoint
  /\ pic \in [master : Chip, slave : Chip]
  /\ ctl \in Controller
  /\ keyboard \in Seq(Byte) /\ mouse \in Seq(Byte)
  /\ reporting \in BOOLEAN /\ found \in Byte
  /\ disturbed \in BOOLEAN

\* Every interrupt reaches the handler made for its line, and the two chips
\* are told of its end: between handlers no line is in service, so none of the
\* same or a lower priority is held back for ever.
HandlerMatchesInService ==
  <<handler, pic.master.isr, pic.slave.isr>> \in
    {<<"none", {}, {}>>, <<"keyboard: read", {1}, {}>>, <<"keyboard: end", {1}, {}>>,
     <<"mouse: read", {2}, {4}>>, <<"mouse: end slave", {2}, {4}>>,
     <<"mouse: end master", {2}, {}>>}

\* Interrupts that were requested and did not come to their read yet.
KeyboardRequest == 1 \in pic.master.irr \/ handler = "keyboard: read"
MouseRequest == 4 \in pic.slave.irr \/ handler = "mouse: read"

\* No byte waits without a request that will have it read, although the bytes
\* of initPS2Mouse are polled behind the back of the interrupt controllers,
\* which are edge triggered and are reset while a byte may be waiting.
NoLostWakeup ==
  Running => /\ KeyboardLine(ctl) => KeyboardRequest
             /\ MouseLine(ctl) => MouseRequest

Count(condition) == IF condition THEN 1 ELSE 0

\* Requests for bytes that were read already.
Surplus ==
  Count(1 \in pic.master.irr) + Count(handler = "keyboard: read")
  + Count(4 \in pic.slave.irr) + Count(handler = "mouse: read")
  - Count(KeyboardLine(ctl)) - Count(MouseLine(ctl))

\* The polling of initPS2Mouse may leave requests whose byte is gone, through
\* which a handler reads the other device's byte; but once interrupts are
\* enabled, and the configuration stays, they never multiply: with none left,
\* each handler reads bytes of its own device only, and each byte once.
SurplusNeverGrows ==
  [][Running /\ ctl'.config = ctl.config => Surplus' <= Surplus]_vars

\* Unless a key or the mouse sends a byte before the configuration is read, or
\* a wait gives up, the controller is configured as the firmware left it, with
\* the mouse's interrupt and its interface enabled.
ConfigIsFirmwares ==
  Running /\ ~disturbed =>
    ctl.config = WithBit(WithoutBit(found, MOUSE_DISABLED), MOUSE_INTERRUPT)

\* However slow the devices are, start-up comes to its end.
StartUpEnds == <>Running

\* With both interrupts enabled, a byte that arrives is read.
InputIsRead ==
  (/\ Running /\ ctl.full
   /\ Bit(ctl.config, KEYBOARD_INTERRUPT) /\ Bit(ctl.config, MOUSE_INTERRUPT))
  ~> ~ctl.full
=============================================================================
