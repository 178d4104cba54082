------------------------ MODULE ConfigurationProofs ------------------------
(***************************************************************************)
(* The PS/2 controller's configuration byte (module InputSystem): on its   *)
(* way from the firmware through initPS2Mouse and back, no other byte      *)
(* takes its place unless a device sends one too early or a wait gives up. *)
(***************************************************************************)
EXTENDS InputSystemProofs

-----------------------------------------------------------------------------
(***************************************************************************)
(* The configuration of the PS/2 controller, while no byte but its answer  *)
(* is taken for it.                                                        *)
(***************************************************************************)

Enabled == WithoutBit(found, MOUSE_DISABLED)
Wanted == WithBit(Enabled, MOUSE_INTERRUPT)

Pending(port, value) == ctl.written = [port |-> port, value |-> value]
TakenAll == ctl.written = Nothing

NotAsked == ~ctl.full /\ ~ctl.answers /\ ctl.expects = "keyboard"

BeforeCommands == NotAsked /\ TakenAll /\ ctl.config = found

EnablingMouse ==
  /\ NotAsked
  /\ \/ pc = 21 /\ Pending(PS2_COMMAND, ENABLE_AUX) /\ ctl.config = found
     \/ TakenAll /\ ctl.config = Enabled

ReadingConfig ==
  /\ ctl.config = Enabled /\ ctl.expects = "keyboard"
  /\ \/ pc = 23 /\ Pending(PS2_COMMAND, READ_CONFIG) /\ ~ctl.answers /\ ~ctl.full
     \/ pc = 23 /\ TakenAll /\ ctl.answers /\ ~ctl.full
     \/ TakenAll /\ ~ctl.answers /\ ctl.full /\ ctl.byte = Enabled

HoldingConfig ==
  /\ ctl.config = Enabled /\ ctl.expects = "keyboard" /\ TakenAll
  /\ local.status = Enabled

AnnouncingConfig ==
  /\ ctl.config = Enabled /\ local.status = Enabled
  /\ \/ pc = 27 /\ Pending(PS2_COMMAND, WRITE_CONFIG) /\ ctl.expects = "keyboard"
     \/ TakenAll /\ ctl.expects = "config"

WritingConfig ==
  \/ pc = 29 /\ Pending(PS2_DATA, Wanted) /\ ctl.expects = "config"
  \/ TakenAll /\ ctl.expects = "keyboard" /\ ctl.config = Wanted

ConfigWritten ==
  /\ ctl.config = Wanted /\ ctl.expects # "config"
  /\ ctl.written.port = PS2_COMMAND => ctl.written.value = TO_MOUSE

LEMMA NotWaiting == Nothing.port = 0 /\ 0 # PS2_COMMAND /\ PS2_DATA # PS2_COMMAND
BY DEF Nothing, PS2_DATA, PS2_COMMAND

LEMMA PendingParts ==
  ASSUME NEW port, NEW value, Pending(port, value)
  PROVE  ctl.written.port = port /\ ctl.written.value = value
BY DEF Pending

LEMMA CommandsDiffer ==
  /\ ENABLE_AUX # READ_CONFIG /\ ENABLE_AUX # WRITE_CONFIG /\ ENABLE_AUX # TO_MOUSE
  /\ READ_CONFIG # WRITE_CONFIG /\ READ_CONFIG # TO_MOUSE /\ WRITE_CONFIG # TO_MOUSE
BY DEF ENABLE_AUX, READ_CONFIG, WRITE_CONFIG, TO_MOUSE

\* The stages, of which each location of the program is in one.
Stages ==
  /\ pc <= 20         => BeforeCommands
  /\ pc \in {21, 22}  => EnablingMouse
  /\ pc \in {23, 24}  => ReadingConfig
  /\ pc \in {25, 26}  => HoldingConfig
  /\ pc \in {27, 28}  => AnnouncingConfig
  /\ pc \in {29, 30}  => WritingConfig
  /\ pc > 30          => ConfigWritten

Configured == ~disturbed => Stages

LEMMA StageByStage ==
  ASSUME IInv
  PROVE  /\ pc \in Nat
         /\ \/ pc <= 20 \/ pc \in {21, 22} \/ pc \in {23, 24} \/ pc \in {25, 26}
            \/ pc \in {27, 28} \/ pc \in {29, 30} \/ pc > 30
<1>1. pc \in 1 .. 45
  BY ProgramLength, TypesParts DEF ProcessorTypes
<1> QED
  BY <1>1

\* What the stages say depends on these variables only.
LEMMA StagesKept ==
  ASSUME Stages, UNCHANGED <<pc, local, ctl, found>>
  PROVE  Stages'
BY Zenon DEF Stages, BeforeCommands, EnablingMouse, ReadingConfig, HoldingConfig,
   AnnouncingConfig, WritingConfig, ConfigWritten, NotAsked, TakenAll, Pending,
   Enabled, Wanted

-----------------------------------------------------------------------------
(***************************************************************************)
(* The devices' steps.                                                     *)
(***************************************************************************)

LEMMA CommandTaken ==
  ASSUME IInv, Stages, TakeCommand
  PROVE  Stages'
<1> DEFINE taken == [ctl EXCEPT !.written = Nothing]
           command == ctl.written.value
<1>1. /\ UNCHANGED <<pc, local, found>> /\ ctl.written.port = PS2_COMMAND
      /\ ctl' = CASE command = ENABLE_AUX   ->
                       [taken EXCEPT !.config = WithoutBit(@, MOUSE_DISABLED)]
                  [] command = READ_CONFIG  -> [taken EXCEPT !.answers = TRUE]
                  [] command = WRITE_CONFIG -> [taken EXCEPT !.expects = "config"]
                  [] command = TO_MOUSE     -> [taken EXCEPT !.expects = "mouse"]
  BY DEF TakeCommand, SetController, processorVars, setUpVars, historyVars
<1>2. ctl \in Controller /\ ~TakenAll
  BY <1>1, TypesParts, NotWaiting DEF TakenAll
<1>3. Enabled' = Enabled /\ Wanted' = Wanted
  BY <1>1 DEF Enabled, Wanted
<1>4. CASE pc <= 20 \/ pc \in {25, 26}
  BY <1>2, <1>4, StageByStage DEF Stages, BeforeCommands, HoldingConfig
<1>5. CASE pc \in {21, 22}
  <2>1. EnablingMouse
    BY <1>5 DEF Stages
  <2>2. NotAsked /\ pc = 21 /\ command = ENABLE_AUX /\ ctl.config = found
    BY <1>2, <2>1, PendingParts DEF EnablingMouse
  <2>3. ctl' = [taken EXCEPT !.config = WithoutBit(ctl.config, MOUSE_DISABLED)]
    BY <1>1, <2>2, CommandsDiffer
  <2>4. EnablingMouse'
    BY <1>2, <1>3, <2>2, <2>3 DEF Controller, EnablingMouse, NotAsked, TakenAll, Enabled
  <2> QED
    BY <1>1, <2>2, <2>4 DEF Stages
<1>6. CASE pc \in {23, 24}
  <2>1. ReadingConfig
    BY <1>6 DEF Stages
  <2>2. pc = 23 /\ command = READ_CONFIG /\ ~ctl.answers /\ ~ctl.full
        /\ ctl.config = Enabled /\ ctl.expects = "keyboard"
    BY <1>2, <2>1, PendingParts DEF ReadingConfig
  <2>3. ctl' = [taken EXCEPT !.answers = TRUE]
    BY <1>1, <2>2, CommandsDiffer
  <2>4. ReadingConfig'
    BY <1>1, <1>2, <1>3, <2>2, <2>3 DEF Controller, ReadingConfig, TakenAll
  <2> QED
    BY <1>1, <2>2, <2>4 DEF Stages
<1>7. CASE pc \in {27, 28}
  <2>1. AnnouncingConfig
    BY <1>7 DEF Stages
  <2>2. pc = 27 /\ command = WRITE_CONFIG /\ ctl.config = Enabled /\ local.status = Enabled
    BY <1>2, <2>1, PendingParts DEF AnnouncingConfig
  <2>3. ctl' = [taken EXCEPT !.expects = "config"]
    BY <1>1, <2>2, CommandsDiffer
  <2>4. AnnouncingConfig'
    BY <1>1, <1>2, <1>3, <2>2, <2>3 DEF Controller, AnnouncingConfig, TakenAll
  <2> QED
    BY <1>1, <2>2, <2>4 DEF Stages
<1>8. CASE pc \in {29, 30}
  <2>1. WritingConfig
    BY <1>8 DEF Stages
  <2> QED
    BY <1>1, <1>2, <2>1, PendingParts, NotWaiting DEF WritingConfig
<1>9. CASE pc > 30
  <2>1. ConfigWritten
    BY <1>9 DEF Stages
  <2>2. command = TO_MOUSE
    BY <1>1, <2>1 DEF ConfigWritten
  <2>3. ctl' = [taken EXCEPT !.expects = "mouse"]
    BY <1>1, <2>2, CommandsDiffer
  <2>4. ConfigWritten'
    BY <1>2, <1>3, <2>1, <2>3, NotWaiting DEF Controller, ConfigWritten
  <2>5. pc' > 30 /\ pc \in Nat
    BY <1>1, <1>9, StageByStage
  <2> QED
    BY <1>1, <2>4, <2>5 DEF Stages
<1> QED
  BY <1>4, <1>5, <1>6, <1>7, <1>8, <1>9, StageByStage

LEMMA DataTaken ==
  ASSUME IInv, Stages, TakeData
  PROVE  Stages'
<1> DEFINE taken == [ctl EXCEPT !.written = Nothing, !.expects = "keyboard"]
<1>1. /\ UNCHANGED <<pc, local, found>> /\ ctl.written.port = PS2_DATA
      /\ ctl' = IF ctl.expects = "config"
                THEN [taken EXCEPT !.config = ctl.written.value] ELSE taken
  BY DEF TakeData, SetController, processorVars, setUpVars, historyVars
<1>2. ctl \in Controller /\ ~TakenAll /\ \A value : ~Pending(PS2_COMMAND, value)
  <2>1. PS2_DATA # 0
    BY DEF PS2_DATA
  <2> QED
    BY <1>1, <2>1, TypesParts, NotWaiting, PendingParts DEF TakenAll
<1>3. Enabled' = Enabled /\ Wanted' = Wanted
  BY <1>1 DEF Enabled, Wanted
<1>4. CASE pc <= 20 \/ pc \in {25, 26}
  BY <1>2, <1>4, StageByStage DEF Stages, BeforeCommands, HoldingConfig
<1>5. CASE pc \in {21, 22} \/ pc \in {23, 24} \/ pc \in {27, 28}
  <2>1. EnablingMouse \/ ReadingConfig \/ AnnouncingConfig
    BY <1>5 DEF Stages
  <2> QED
    BY <1>2, <2>1 DEF EnablingMouse, ReadingConfig, AnnouncingConfig
<1>6. CASE pc \in {29, 30}
  <2>1. WritingConfig
    BY <1>6 DEF Stages
  <2>2. pc = 29 /\ ctl.written.value = Wanted /\ ctl.expects = "config"
    BY <1>2, <2>1, PendingParts DEF WritingConfig
  <2>3. ctl' = [taken EXCEPT !.config = Wanted]
    BY <1>1, <2>2
  <2>4. WritingConfig'
    BY <1>2, <1>3, <2>3 DEF Controller, WritingConfig, TakenAll
  <2> QED
    BY <1>1, <2>2, <2>4 DEF Stages
<1>7. CASE pc > 30
  <2>1. ConfigWritten
    BY <1>7 DEF Stages
  <2>2. ctl' = taken
    BY <1>1, <2>1 DEF ConfigWritten
  <2>3. ConfigWritten'
    BY <1>2, <1>3, <2>1, <2>2, NotWaiting DEF Controller, ConfigWritten
  <2>4. pc' > 30 /\ pc \in Nat
    BY <1>1, <1>7, StageByStage
  <2> QED
    BY <1>1, <2>3, <2>4 DEF Stages
<1> QED
  BY <1>4, <1>5, <1>6, <1>7, StageByStage

\* The first byte after READ_CONFIG was taken is the controller's answer.
LEMMA AnswerFilled ==
  ASSUME IInv, Stages, FillWithAnswer
  PROVE  Stages'
<1>1. /\ UNCHANGED <<pc, local, found>> /\ ctl.answers
      /\ ctl' = [Filled("controller", ctl.config) EXCEPT !.answers = FALSE]
  BY DEF FillWithAnswer, SetController, processorVars, setUpVars, historyVars
<1>2. /\ ctl'.config = ctl.config /\ ctl'.expects = ctl.expects
      /\ ctl'.written = ctl.written /\ ctl'.full /\ ~ctl'.answers
      /\ ctl'.byte = ctl.config
  BY <1>1, TypesParts DEF Filled, Controller
<1>3. Enabled' = Enabled /\ Wanted' = Wanted /\ pc' = pc /\ local' = local
  BY <1>1 DEF Enabled, Wanted
<1>4. CASE pc <= 20 \/ pc \in {21, 22}
  BY <1>1, <1>4 DEF Stages, BeforeCommands, EnablingMouse, NotAsked
<1>5. CASE pc \in {23, 24}
  <2>1. ReadingConfig
    BY <1>5 DEF Stages
  <2>2. ReadingConfig'
    BY <1>1, <1>2, <1>3, <2>1 DEF ReadingConfig, TakenAll
  <2> QED
    BY <1>3, <1>5, <2>2 DEF Stages
<1>6. CASE pc \in {25, 26}
  BY <1>2, <1>3, <1>6 DEF Stages, HoldingConfig, TakenAll
<1>7. CASE pc \in {27, 28}
  BY <1>2, <1>3, <1>7 DEF Stages, AnnouncingConfig, TakenAll, Pending
<1>8. CASE pc \in {29, 30}
  BY <1>2, <1>3, <1>8 DEF Stages, WritingConfig, TakenAll, Pending
<1>9. CASE pc > 30
  <2>1. ConfigWritten'
    BY <1>2, <1>3, <1>9 DEF Stages, ConfigWritten
  <2>2. pc' > 30 /\ pc \in Nat
    BY <1>3, <1>9, StageByStage
  <2> QED
    BY <1>3, <2>1, <2>2 DEF Stages
<1> QED
  BY <1>4, <1>5, <1>6, <1>7, <1>8, <1>9, StageByStage

\* Once the status was read, no byte in the output buffer matters any more.
LEMMA BufferIsFree ==
  ASSUME IInv, Stages, pc > 24, UNCHANGED <<pc, local, found>>,
         ctl'.config = ctl.config, ctl'.expects = ctl.expects,
         ctl'.written = ctl.written
  PROVE  Stages'
<1>1. Enabled' = Enabled /\ Wanted' = Wanted /\ pc \in Nat
  BY StageByStage DEF Enabled, Wanted
<1>2. CASE pc \in {25, 26}
  BY <1>1, <1>2 DEF Stages, HoldingConfig, TakenAll
<1>3. CASE pc \in {27, 28}
  BY <1>1, <1>3 DEF Stages, AnnouncingConfig, TakenAll, Pending
<1>4. CASE pc \in {29, 30}
  BY <1>1, <1>4 DEF Stages, WritingConfig, TakenAll, Pending
<1>5. CASE pc > 30
  <2>1. ConfigWritten'
    BY <1>1, <1>5 DEF Stages, ConfigWritten
  <2> QED
    BY <1>1, <1>5, <2>1 DEF Stages
<1> QED
  BY <1>1, <1>2, <1>3, <1>4, <1>5

LEMMA StatusRead ==
  ASSUME IInv, StatusWasRead
  PROVE  pc > 24
<1>1. PICK i \in 1 .. (pc - 1) : Program[i] = In(PS2_DATA, "status")
  BY DEF StatusWasRead
<1>2. pc \in 1 .. 45
  BY ProgramLength, TypesParts DEF ProcessorTypes
<1>3. i \in 1 .. 44 /\ i < pc
  BY <1>1, <1>2
<1>4. Program[i].op = "in" /\ Program[i].name = "status"
  BY <1>1 DEF In
<1>5. i \in {8, 9, 24, 35, 41}
  BY <1>3, <1>4, Kinds
<1>6. i # 8 /\ i # 9
  BY <1>4, ProgramRemaps DEF In
<1> QED
  BY <1>2, <1>3, <1>5, <1>6

LEMMA DeviceFilled ==
  ASSUME IInv, Stages, ~disturbed', FillFromKeyboard \/ FillFromMouse
  PROVE  Stages'
<1>1. PICK source, byte : ctl' = Filled(source, byte)
  BY DEF FillFromKeyboard, FillFromMouse, SetController
<1>2. UNCHANGED <<pc, local, found>> /\ StatusWasRead
  BY DEF FillFromKeyboard, FillFromMouse, processorVars, setUpVars
<1>3. /\ ctl'.config = ctl.config /\ ctl'.expects = ctl.expects
      /\ ctl'.written = ctl.written
  BY <1>1, TypesParts DEF Filled, Controller
<1> QED
  BY <1>2, <1>3, StatusRead, BufferIsFree

LEMMA DeviceKeeps ==
  ASSUME IInv, Configured, Devices
  PROVE  Configured'
<1>1. disturbed \in BOOLEAN /\ (disturbed => disturbed')
  BY TypesParts DEF HistoryTypes, Devices, TakeCommand, TakeData, FillWithAnswer,
     FillFromKeyboard, FillFromMouse, KeyStroke, MouseReports, TimerTick, historyVars
<1> SUFFICES ASSUME ~disturbed'
             PROVE  Stages'
  BY DEF Configured
<1>2. Stages
  BY <1>1 DEF Configured
<1>3. CASE KeyStroke \/ MouseReports \/ TimerTick
  <2>1. UNCHANGED <<pc, local, ctl, found>>
    BY <1>3 DEF KeyStroke, MouseReports, TimerTick, processorVars, setUpVars, historyVars
  <2> QED
    BY <1>2, <2>1, StagesKept
<1> QED
  BY <1>2, <1>3, CommandTaken, DataTaken, AnswerFilled, DeviceFilled DEF Devices

-----------------------------------------------------------------------------
(***************************************************************************)
(* The processor's steps.                                                  *)
(***************************************************************************)

\* An instruction that leaves the controller and its wait alone.
LEMMA Elsewhere ==
  ASSUME IInv, Stages, UNCHANGED <<ctl, found>>, pc' = pc + 1,
         pc < 20 \/ pc > 41 \/ pc = 35
  PROVE  Stages'
<1>1. Enabled' = Enabled /\ Wanted' = Wanted /\ pc \in Nat
  BY StageByStage DEF Enabled, Wanted
<1>2. CASE pc < 20
  <2>1. BeforeCommands'
    BY <1>1, <1>2 DEF Stages, BeforeCommands, NotAsked, TakenAll
  <2> QED
    BY <1>1, <1>2, <2>1 DEF Stages
<1>3. CASE pc > 30
  <2>1. ConfigWritten'
    BY <1>1, <1>3 DEF Stages, ConfigWritten
  <2> QED
    BY <1>1, <1>3, <2>1 DEF Stages
<1> QED
  BY <1>1, <1>2, <1>3

LEMMA WaitEnds ==
  ASSUME IInv, Stages, Poll, ~disturbed'
  PROVE  Stages'
<1>1. /\ UNCHANGED <<ctl, found, local>>
      /\ pc \in {21, 23, 25, 27, 29, 30, 32, 34, 36, 38, 40}
  BY AtInstruction, Kinds DEF Poll, Goto
<1>2. CASE pc' = pc
  BY <1>1, <1>2, StagesKept
<1>3. CASE pc' # pc
  <2>1. Awaited /\ pc' = pc + 1
    BY <1>3 DEF Poll, Goto
  <2>2. Enabled' = Enabled /\ Wanted' = Wanted
    BY <1>1 DEF Enabled, Wanted
  <2>3. /\ pc \in {21, 25, 27, 29, 30} => TakenAll
        /\ pc = 23 => ctl.full
    <3>1. mouseWait.until = "written" /\ mouseWaitInput.until = "readable"
      BY DEF mouseWait, mouseWaitInput
    <3> QED
      BY <2>1, <3>1, ProgramConfigures, ProgramStartsMouse DEF Awaited, TakenAll
  <2>4. \A port \in {PS2_DATA, PS2_COMMAND} : \A value :
          TakenAll => ~Pending(port, value)
    BY NotWaiting, PendingParts DEF TakenAll, PS2_DATA, PS2_COMMAND
  <2>5. CASE pc = 21
    <3>1. EnablingMouse'
      BY <1>1, <2>1, <2>2, <2>3, <2>4, <2>5 DEF Stages, EnablingMouse, NotAsked, TakenAll
    <3> QED
      BY <2>1, <2>5, <3>1 DEF Stages
  <2>6. CASE pc = 23
    <3>1. ReadingConfig'
      BY <1>1, <2>1, <2>2, <2>3, <2>6 DEF Stages, ReadingConfig, TakenAll
    <3> QED
      BY <2>1, <2>6, <3>1 DEF Stages
  <2>7. CASE pc = 25
    <3>1. HoldingConfig'
      BY <1>1, <2>1, <2>2, <2>7 DEF Stages, HoldingConfig, TakenAll
    <3> QED
      BY <2>1, <2>7, <3>1 DEF Stages
  <2>8. CASE pc = 27
    <3>1. AnnouncingConfig'
      BY <1>1, <2>1, <2>2, <2>3, <2>4, <2>8 DEF Stages, AnnouncingConfig, TakenAll
    <3> QED
      BY <2>1, <2>8, <3>1 DEF Stages
  <2>9. CASE pc = 29
    <3>1. WritingConfig'
      BY <1>1, <2>1, <2>2, <2>3, <2>4, <2>9 DEF Stages, WritingConfig, TakenAll
    <3> QED
      BY <2>1, <2>9, <3>1 DEF Stages
  <2>10. CASE pc = 30
    <3>1. WritingConfig /\ TakenAll
      BY <2>3, <2>10 DEF Stages
    <3>2. ConfigWritten'
      BY <1>1, <2>2, <2>4, <3>1, NotWaiting DEF WritingConfig, ConfigWritten, TakenAll
    <3> QED
      BY <2>1, <2>10, <3>2 DEF Stages
  <2>11. CASE pc \in {32, 34, 36, 38, 40}
    <3>1. ConfigWritten'
      BY <1>1, <2>2, <2>11 DEF Stages, ConfigWritten
    <3> QED
      BY <2>1, <2>11, <3>1 DEF Stages
  <2> QED
    BY <1>1, <2>5, <2>6, <2>7, <2>8, <2>9, <2>10, <2>11
<1> QED
  BY <1>2, <1>3

\* A write to the chips passes the controller by.
LEMMA ChipsOnly ==
  ASSUME NEW port \in {PIC_MASTER_COMMAND, PIC_SLAVE_COMMAND,
                       PIC_MASTER_DATA, PIC_SLAVE_DATA},
         NEW value, WritePort(port, value)
  PROVE  UNCHANGED ctl
<1>1. /\ PIC_MASTER_COMMAND # PIC_SLAVE_COMMAND /\ PIC_MASTER_COMMAND # PIC_MASTER_DATA
      /\ PIC_MASTER_COMMAND # PIC_SLAVE_DATA /\ PIC_SLAVE_COMMAND # PIC_MASTER_DATA
      /\ PIC_SLAVE_COMMAND # PIC_SLAVE_DATA /\ PIC_MASTER_DATA # PIC_SLAVE_DATA
      /\ port \notin {PS2_DATA, PS2_COMMAND}
  BY DEF PIC_MASTER_COMMAND, PIC_SLAVE_COMMAND, PIC_MASTER_DATA, PIC_SLAVE_DATA,
         PS2_DATA, PS2_COMMAND
<1>2. CASE port = PIC_MASTER_COMMAND
  BY <1>1, <1>2, Zenon DEF WritePort
<1>3. CASE port = PIC_SLAVE_COMMAND
  BY <1>1, <1>3, Zenon DEF WritePort
<1>4. CASE port = PIC_MASTER_DATA
  BY <1>1, <1>4, Zenon DEF WritePort
<1>5. CASE port = PIC_SLAVE_DATA
  BY <1>1, <1>5, Zenon DEF WritePort
<1> QED
  BY <1>2, <1>3, <1>4, <1>5

\* A write to one of the controller's ports waits there.
LEMMA Sent ==
  ASSUME IInv, OutPort,
         NEW port \in {PS2_DATA, PS2_COMMAND}, Program[pc].port = port
  PROVE  /\ ctl' = [ctl EXCEPT !.written = ctl'.written]
         /\ ctl'.written.port = port
         /\ Program[pc].op = "out" =>
              ctl'.written = [port |-> port, value |-> Program[pc].value]
         /\ Program[pc] = OutLocal(port, "status") =>
              ctl'.written = [port |-> port,
                              value |-> WithBit(local.status, MOUSE_INTERRUPT)]
<1>1. /\ port # PIC_MASTER_COMMAND /\ port # PIC_SLAVE_COMMAND
      /\ port # PIC_MASTER_DATA /\ port # PIC_SLAVE_DATA
  BY DEF PS2_DATA, PS2_COMMAND, PIC_MASTER_COMMAND, PIC_SLAVE_COMMAND,
         PIC_MASTER_DATA, PIC_SLAVE_DATA
<1>2. \A value : WritePort(port, value) =>
        ctl' = [ctl EXCEPT !.written = [port |-> port, value |-> value]]
  BY <1>1, Zenon DEF WritePort
<1>3. ctl \in Controller
  BY TypesParts
<1>4. CASE NextInstruction("out") /\ WritePort(port, Program[pc].value)
  BY <1>2, <1>3, <1>4 DEF Controller, NextInstruction, OutLocal
<1>5. CASE /\ NextInstruction("outLocal")
           /\ WritePort(port, IF Program[pc].name = "status"
                              THEN WithBit(local.status, MOUSE_INTERRUPT)
                              ELSE local[Program[pc].name])
  <2>1. Program[pc].op # "out"
    BY <1>5 DEF NextInstruction
  <2>2. Program[pc] = OutLocal(port, "status") => Program[pc].name = "status"
    BY DEF OutLocal
  <2> QED
    BY <1>2, <1>3, <1>5, <2>1, <2>2 DEF Controller
<1> QED
  BY <1>4, <1>5 DEF OutPort

LEMMA OutKeeps ==
  ASSUME IInv, Stages, OutPort
  PROVE  Stages'
<1>1. /\ UNCHANGED <<found, local>> /\ pc' = pc + 1
      /\ pc \in (10 .. 20) \cup {22, 26, 28, 31, 33, 37, 39, 42, 43}
  <2>1. UNCHANGED <<found, local>> /\ pc' = pc + 1
    BY DEF OutPort, Goto
  <2>2. CASE NextInstruction("out")
    BY <2>1, <2>2, AtInstruction, Kinds
  <2>3. CASE NextInstruction("outLocal")
    BY <2>1, <2>3, AtInstruction, Kinds
  <2> QED
    BY <2>1, <2>2, <2>3 DEF OutPort
<1>2. Enabled' = Enabled /\ Wanted' = Wanted /\ ctl \in Controller
  BY <1>1, TypesParts DEF Enabled, Wanted
<1>3. \A port, value : /\ Out(port, value).op = "out"
                       /\ Out(port, value).port = port /\ Out(port, value).value = value
  BY DEF Out
<1>4. \A port, name : OutLocal(port, name).port = port
  BY DEF OutLocal
<1>5. CASE pc \in (10 .. 19) \cup {42, 43}
  <2>1. Program[pc].port \in {PIC_MASTER_COMMAND, PIC_SLAVE_COMMAND,
                              PIC_MASTER_DATA, PIC_SLAVE_DATA}
    <3>1. pc \in {10, 11, 12, 13, 14, 15, 16, 17, 18, 19, 42, 43}
      BY <1>5
    <3> QED
      BY <1>3, <1>4, <3>1, ProgramRemaps, ProgramEnds
  <2>2. \A value : WritePort(Program[pc].port, value) => UNCHANGED ctl
    BY <2>1, ChipsOnly
  <2>3. UNCHANGED ctl
    BY <2>2, Zenon DEF OutPort
  <2> QED
    BY <1>1, <1>5, <2>3, Elsewhere
<1>6. CASE pc = 20
  <2>1. BeforeCommands
    BY <1>6 DEF Stages
  <2>2. /\ ctl' = [ctl EXCEPT !.written = ctl'.written]
        /\ ctl'.written = [port |-> PS2_COMMAND, value |-> ENABLE_AUX]
    BY <1>3, <1>6, ProgramConfigures, Sent
  <2>3. EnablingMouse'
    BY <1>1, <1>2, <1>6, <2>1, <2>2 DEF Controller, BeforeCommands, EnablingMouse,
       NotAsked, Pending
  <2> QED
    BY <1>1, <1>6, <2>3 DEF Stages
<1>7. CASE pc = 22
  <2>1. EnablingMouse
    BY <1>7 DEF Stages
  <2>2. /\ ctl' = [ctl EXCEPT !.written = ctl'.written]
        /\ ctl'.written = [port |-> PS2_COMMAND, value |-> READ_CONFIG]
    BY <1>3, <1>7, ProgramConfigures, Sent
  <2>3. ReadingConfig'
    BY <1>1, <1>2, <1>7, <2>1, <2>2 DEF Controller, EnablingMouse, ReadingConfig,
       NotAsked, Pending
  <2> QED
    BY <1>1, <1>7, <2>3 DEF Stages
<1>8. CASE pc = 26
  <2>1. HoldingConfig
    BY <1>8 DEF Stages
  <2>2. /\ ctl' = [ctl EXCEPT !.written = ctl'.written]
        /\ ctl'.written = [port |-> PS2_COMMAND, value |-> WRITE_CONFIG]
    BY <1>3, <1>8, ProgramConfigures, Sent
  <2>3. AnnouncingConfig'
    BY <1>1, <1>2, <1>8, <2>1, <2>2 DEF Controller, HoldingConfig, AnnouncingConfig,
       Pending
  <2> QED
    BY <1>1, <1>8, <2>3 DEF Stages
<1>9. CASE pc = 28
  <2>1. AnnouncingConfig
    BY <1>9 DEF Stages
  <2>2. /\ ctl' = [ctl EXCEPT !.written = ctl'.written]
        /\ ctl'.written = [port |-> PS2_DATA,
                           value |-> WithBit(local.status, MOUSE_INTERRUPT)]
    BY <1>4, <1>9, ProgramConfigures, Sent
  <2>3. WritingConfig'
    BY <1>1, <1>2, <1>9, <2>1, <2>2 DEF Controller, AnnouncingConfig, WritingConfig,
       Pending, Wanted
  <2> QED
    BY <1>1, <1>9, <2>3 DEF Stages
<1>10. CASE pc \in {31, 33, 37, 39}
  <2>1. ConfigWritten
    BY <1>10 DEF Stages
  <2>2. /\ ctl' = [ctl EXCEPT !.written = ctl'.written]
        /\ ctl'.written.port = PS2_COMMAND => ctl'.written.value = TO_MOUSE
    <3>1. CASE pc \in {31, 37}
      BY <1>3, <3>1, ProgramStartsMouse, Sent
    <3>2. CASE pc \in {33, 39}
      BY <1>3, <3>2, ProgramStartsMouse, Sent, NotWaiting
    <3> QED
      BY <1>10, <3>1, <3>2
  <2>3. ConfigWritten'
    BY <1>2, <2>1, <2>2 DEF Controller, ConfigWritten
  <2> QED
    BY <1>1, <1>10, <2>3 DEF Stages
<1> QED
  BY <1>1, <1>5, <1>6, <1>7, <1>8, <1>9, <1>10

LEMMA InKeeps ==
  ASSUME IInv, Stages, InPort
  PROVE  Stages'
<1>1. UNCHANGED found /\ pc' = pc + 1 /\ pc \in {8, 9, 24, 35, 41}
  BY AtInstruction, Kinds DEF InPort, Goto
<1>2. Enabled' = Enabled /\ Wanted' = Wanted /\ ctl \in Controller
  BY <1>1, TypesParts DEF Enabled, Wanted
<1>3. \A port, name : In(port, name).port = port /\ In(port, name).name = name
  BY DEF In
<1>4. CASE pc \in {8, 9}
  <2>1. Program[pc].port # PS2_DATA
    BY <1>3, <1>4, ProgramRemaps DEF PIC_MASTER_DATA, PIC_SLAVE_DATA, PS2_DATA
  <2>2. UNCHANGED ctl
    BY <2>1 DEF InPort
  <2> QED
    BY <1>1, <1>4, <2>2, Elsewhere
<1>5. CASE pc = 24
  <2>1. ReadingConfig
    BY <1>5 DEF Stages
  <2>2. Program[pc].port = PS2_DATA /\ Program[pc].name = "status"
    BY <1>3, <1>5, ProgramConfigures
  <2>3. ctl' = [ctl EXCEPT !.full = FALSE]
    BY <2>2 DEF InPort, ReadData, SetController
  <2>4. local'.status = ctl.byte
    <3>1. local' = [local EXCEPT !["status"] =
                      CASE PS2_DATA = PIC_MASTER_DATA -> pic.master.imr
                        [] PS2_DATA = PIC_SLAVE_DATA  -> pic.slave.imr
                        [] PS2_DATA = PS2_DATA        -> ctl.byte]
      BY <2>2 DEF InPort
    <3>2. PS2_DATA # PIC_MASTER_DATA /\ PS2_DATA # PIC_SLAVE_DATA
      BY DEF PS2_DATA, PIC_MASTER_DATA, PIC_SLAVE_DATA
    <3>3. "status" \in DOMAIN local
      BY TypesParts DEF ProcessorTypes
    <3> QED
      BY <3>1, <3>2, <3>3
  <2>5. HoldingConfig'
    BY <1>2, <1>5, <2>1, <2>3, <2>4 DEF Controller, ReadingConfig, HoldingConfig, TakenAll
  <2> QED
    BY <1>1, <1>5, <2>5 DEF Stages
<1>6. CASE pc \in {35, 41}
  <2>1. ConfigWritten
    BY <1>6 DEF Stages
  <2>2. ctl' = [ctl EXCEPT !.full = FALSE]
    <3>1. Program[pc].port = PS2_DATA
      BY <1>3, <1>6, ProgramStartsMouse
    <3> QED
      BY <3>1 DEF InPort, ReadData, SetController
  <2>3. ConfigWritten'
    BY <1>2, <2>1, <2>2 DEF Controller, ConfigWritten
  <2> QED
    BY <1>1, <1>6, <2>3 DEF Stages
<1> QED
  BY <1>1, <1>4, <1>5, <1>6

\* Interrupts come when the set-up has ended: a handler only reads.
LEMMA InterruptsKeep ==
  ASSUME IInv, Stages, Interrupt \/ KeyboardHandler \/ MouseHandler
  PROVE  Stages'
<1>1. UNCHANGED <<pc, local, found>>
  BY DEF Interrupt, KeyboardHandler, MouseHandler, setUpVars, historyVars
<1>2. CASE Interrupt
  BY <1>1, <1>2, StagesKept DEF Interrupt
<1>3. CASE KeyboardHandler \/ MouseHandler
  <2>1. handler # "none"
    BY <1>3 DEF KeyboardHandler, MouseHandler, Continue
  <2>2. pc > 24
    <3>1. Running
      BY <2>1, Zenon DEF IInv, SettingUp
    <3>2. pc > 44 /\ pc \in Nat
      BY <3>1, ProgramLength, StageByStage DEF Running
    <3> QED
      BY <3>2
  <2>3. ReadData \/ WritePort(PIC_MASTER_COMMAND, PIC_EOI)
        \/ WritePort(PIC_SLAVE_COMMAND, PIC_EOI)
    BY <1>3, Zenon DEF KeyboardHandler, MouseHandler
  <2>4. ctl' = [ctl EXCEPT !.full = FALSE] \/ UNCHANGED ctl
    BY <2>3, ChipsOnly DEF ReadData, SetController
  <2>5. /\ ctl'.config = ctl.config /\ ctl'.expects = ctl.expects
        /\ ctl'.written = ctl.written
    BY <2>4, TypesParts DEF Controller
  <2> QED
    BY <1>1, <2>2, <2>5, BufferIsFree
<1> QED
  BY <1>2, <1>3

LEMMA ProcessorKeeps ==
  ASSUME IInv, Configured, Processor
  PROVE  Configured'
<1>1. disturbed \in BOOLEAN /\ (disturbed => disturbed')
  <2>1. disturbed \in BOOLEAN
    BY TypesParts DEF HistoryTypes
  <2>2. CASE Poll
    BY <2>1, <2>2, Zenon DEF Poll
  <2>3. CASE ~Poll
    <3>1. UNCHANGED disturbed
      BY <2>3, Zenon DEF Processor, RegisterInterrupt, SetFlag, LoadIDT, OutPort,
         InPort, Interrupt, KeyboardHandler, MouseHandler, historyVars
    <3> QED
      BY <2>1, <3>1
  <2> QED
    BY <2>1, <2>2, <2>3
<1> SUFFICES ASSUME ~disturbed'
             PROVE  Stages'
  BY DEF Configured
<1>2. Stages
  BY <1>1 DEF Configured
<1>3. CASE RegisterInterrupt \/ SetFlag \/ LoadIDT
  <2>1. UNCHANGED <<ctl, found>> /\ pc' = pc + 1
    BY <1>3 DEF RegisterInterrupt, SetFlag, LoadIDT, Goto
  <2>2. pc \in 1 .. 5 \/ pc \in {6, 7, 44}
    BY <1>3, AtInstruction, Kinds DEF RegisterInterrupt, SetFlag, LoadIDT
  <2>3. pc < 20 \/ pc > 41
    BY <2>2
  <2> QED
    BY <1>2, <2>1, <2>3, Elsewhere
<1> QED
  BY <1>2, <1>3, OutKeeps, InKeeps, WaitEnds, InterruptsKeep DEF Processor

-----------------------------------------------------------------------------
(***************************************************************************)
(* The theorems.                                                           *)
(***************************************************************************)

\* At every instruction of initPS2Mouse, the configuration is where it belongs:
\* in the controller, on its way to the status, or on its way back, changed in
\* the two bits the code means to change.
THEOREM ConfigurationFollowed == Spec => []Configured
<1>1. Init => Configured
  BY ProgramLength DEF Init, Configured, Stages, BeforeCommands, NotAsked, TakenAll
<1>2. IInv /\ Configured /\ [Next]_vars => Configured'
  <2> SUFFICES ASSUME IInv, Configured, [Next]_vars
               PROVE  Configured'
    OBVIOUS
  <2>1. CASE UNCHANGED vars
    BY <2>1, StagesKept DEF vars, setUpVars, historyVars, Configured
  <2> QED
    BY <2>1, ProcessorKeeps, DeviceKeeps DEF Next
<1> QED
  BY <1>1, <1>2, Inductive, PTL DEF Spec

\* initPS2Mouse writes back the configuration the firmware left, with the
\* mouse's interrupt enabled, unless a device's byte comes before it is read or
\* a wait gives up.
THEOREM ConfigurationKept == Spec => []ConfigIsFirmwares
<1>1. IInv /\ Configured => ConfigIsFirmwares
  BY ProgramLength, StageByStage DEF Configured, Stages, ConfigWritten,
     ConfigIsFirmwares, Running, Enabled, Wanted
<1> QED
  BY <1>1, Inductive, ConfigurationFollowed, PTL
=============================================================================
