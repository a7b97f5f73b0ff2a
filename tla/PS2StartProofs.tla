--------------------------- MODULE PS2StartProofs ---------------------------
(***************************************************************************)
(* The start of the PS/2 driver, on every machine, when nothing disturbs   *)
(* it: the driver learns the ports and the configuration.                  *)
(***************************************************************************)
EXTENDS PS2Proofs

USE SMTT(60)

-----------------------------------------------------------------------------
(***************************************************************************)
(* The set-up of the controller.                                           *)
(***************************************************************************)
\* The answer of the controller is on its way, or has arrived.
InFlight(byte) ==
    \/ line[0] = <<byte>> /\ obuf = <<>>
    \/ line[0] = <<>> /\ obuf # <<>> /\ obuf[1].byte = byte

Quiet == line[0] = <<>> /\ obuf = <<>>

\* Neither device has sent anything, and no handler would take it.
Unheard ==
    /\ line[1] = <<>> /\ line[2] = <<>>
    /\ drv.handler[1] = "none" /\ drv.handler[2] = "none"

\* What the configuration byte of the controller shows.
TranslationShown == Bit(conf, 64) <=> machine.translation
Port2Shown == Bit(conf, 32) <=> ~machine.port2
Clock2Shown == machine.port2 \/ Bit(conf, 32)

\* What the driver knows.
TranslationKnown == drv.translation <=> machine.translation
Port2Known == drv.valid[2] <=> machine.port2
Test1Known == drv.valid[1] <=> machine.test[1] = 0
Test2Known == drv.valid[2] <=> machine.port2 /\ machine.test[2] = 0

\* The answers that the polls of i8042_init wait for.
ConfigComing == InFlight(conf)
Test1Coming == InFlight(machine.test[1])
Test2Coming == InFlight(machine.test[2])

\* What the driver knows at each step of i8042_init and of the functions it calls,
\* and what the controller has to say.
Learning ==
    /\ Unheard
    /\ drv.enabled => step = 14
    /\ step \in {1, 2} => line[0] = <<>>
    /\ step \in {3, 5, 6, 8, 9, 11, 13} => Quiet
    /\ step \in {4, 7, 14} => ConfigComing
    /\ step = 10 => Test1Coming
    /\ step = 12 => Test2Coming
    /\ step <= 4 => TranslationShown
    /\ step > 4 => TranslationKnown
    /\ step = 7 => Port2Shown
    /\ step \in 8 .. 12 => Port2Known
    /\ step \in {11, 12} => machine.port2
    /\ step >= 11 => Test1Known
    /\ step >= 13 => Test2Known
    /\ step = 14 => Clock2Shown

\* What it knows afterwards.
Learnt ==
    /\ Test1Known /\ Test2Known /\ TranslationKnown
    /\ drv.enabled => drv.configByte = conf /\ Clock2Shown

SetUp == Undisturbed => IF script = "controller" THEN Learning ELSE Learnt

\* Nothing that disturbed the start is forgotten.
LEMMA HistoryGrows ==
    ASSUME Next
    PROVE  history \subseteq history' /\ (Undisturbed' => Undisturbed)
<1>1. history \subseteq history'
  <2>1. CASE Thread
    <3>1. CASE Command \/ NoPort \/ SilenceDevice(1) \/ SilenceDevice(2) \/ i8042_enableDevicesIRQs
               \/ pollByte \/ SendByte \/ receiveByte
      BY <3>1, Zenon DEF Command, NoPort, SilenceDevice, i8042_enableDevicesIRQs, pollByte, SendByte,
         receiveByte
    <3>2. CASE PollTimeout \/ NoAnswer \/ ReceiveTimeout
      BY <3>2, Zenon DEF PollTimeout, NoAnswer, ReceiveTimeout, Overdue
    <3>3. CASE i8042_flush
      BY <3>3, Zenon DEF i8042_flush
    <3>4. CASE Answered
      BY <3>4, Zenon DEF Answered
    <3> QED BY <2>1, <3>1, <3>2, <3>3, <3>4 DEF Thread
  <2>2. CASE \E d \in 0 .. 2 : Deliver(d)
    BY <2>2 DEF Deliver
  <2>3. CASE Interrupt
    BY <2>3 DEF Interrupt
  <2>4. CASE TypeKey \/ \E m \in Motions : MoveMouse(m)
    BY <2>4 DEF TypeKey, MoveMouse
  <2> QED BY <2>1, <2>2, <2>3, <2>4 DEF Next
<1> QED BY <1>1, Zenon DEF Undisturbed, Without

\* What the driver learnt does not change while the fields that hold it do not.
LEMMA LearntKept ==
    ASSUME Learnt, SameSetup(drv', drv), machine' = machine, conf' = conf
    PROVE  Learnt'
BY Zenon DEF Learnt, SameSetup, Test1Known, Test2Known, TranslationKnown, Clock2Shown

\* The same within i8042_init.
LEMMA KnownKept ==
    ASSUME machine' = machine, drv'.valid = drv.valid, drv'.translation = drv.translation
    PROVE  /\ TranslationKnown' <=> TranslationKnown
           /\ Port2Known' <=> Port2Known
           /\ Test1Known' <=> Test1Known
           /\ Test2Known' <=> Test2Known
BY Zenon DEF TranslationKnown, Port2Known, Test1Known, Test2Known

\* The thread goes on within the script of the controller.
LEMMA WithinController ==
    ASSUME Types, script = "controller", NEW d \in DrvType, NEW n \in 1 .. 3, step + n <= 14,
           Advance(d, n), d.handler[1] = "none", d.handler[2] = "none"
    PROVE  /\ script' = "controller" /\ step' = step + n
           /\ SameButHandlers(drv', d)
           /\ drv'.handler[1] = "none" /\ drv'.handler[2] = "none"
<1>1. /\ SameButHandlers(drv', d)
      /\ \A x \in 1 .. 2 : drv'.handler[x] \in {d.handler[x], "none"}
      /\ \/ n # 0 /\ script' = script /\ step' = step + n
         \/ n = 0 \/ step + n > Len(Scripts[script])
  <2>1. n \in 0 .. 3
    OBVIOUS
  <2> QED BY <2>1, AdvanceTypes, Zenon DEF Types
<1>2. Len(Scripts[script]) = 14 /\ step \in 1 .. 14
  BY ScriptNames, ControllerScript DEF Types, Position
<1> QED BY <1>1, <1>2

\* The thread leaves the script of the controller.
LEMMA AfterController ==
    ASSUME Types, script = "controller", NEW d \in DrvType, NEW n \in 0 .. 3, n = 0 \/ step + n > 14,
           Advance(d, n)
    PROVE  script' # "controller" /\ SameButHandlers(drv', d)
<1>1. /\ SameButHandlers(drv', d)
      /\ \/ n # 0 /\ script' = script /\ step' = step + n
         \/ script' # "controller"
  BY AdvanceTypes, Zenon DEF Types
<1>2. Len(Scripts[script]) = 14 /\ step \in 1 .. 14
  BY ScriptNames, ControllerScript DEF Types, Position
<1>3. Position'
  BY AdvanceTypes, Zenon DEF Types
<1>4. script' = script => step' \in 1 .. 14
  BY <1>2, <1>3, Zenon DEF Position
<1> QED BY <1>1, <1>2, <1>4

\* The commands to the controller.
LEMMA CommandLearns ==
    ASSUME Types, script = "controller", Learning, Command
    PROVE  script' = "controller" /\ Learning'
<1> DEFINE d == [drv EXCEPT !.enabled = @ \/ This.what = "enable"]
<1>1. drv \in DrvType /\ conf \in Byte /\ machine \in MachineType /\ line \in [0 .. 2 -> Seq(Byte)]
  BY DEF Types, Drv, Wires
<1>2. /\ d \in DrvType /\ d.handler = drv.handler /\ d.valid = drv.valid /\ d.translation = drv.translation
      /\ d.enabled = (drv.enabled \/ This.what = "enable")
  BY <1>1, Zenon DEF DrvType
<1>3. \/ step = 1 /\ This.what = "disable"
      \/ step = 3 /\ This.what = "readConfig"
      \/ step = 6 /\ This.what = "enable2"
      \/ step = 9 /\ This.what = "test1"
      \/ step = 11 /\ This.what = "test2"
      \/ step = 13 /\ This.what = "enable"
  BY StepsOfKinds DEF Command, Types
<1>4. Advance(d, 1) /\ conf' = Commanded(This.what) /\ machine' = machine /\ obuf' = obuf
  BY Zenon DEF Command
<1> HIDE DEF d
<1>5. Unheard /\ ~drv.enabled
  BY <1>3 DEF Learning
<1>6. /\ script' = "controller" /\ step' = step + 1 /\ SameButHandlers(drv', d)
      /\ drv'.handler[1] = "none" /\ drv'.handler[2] = "none"
  <2>1. d.handler[1] = "none" /\ d.handler[2] = "none"
    BY <1>2, <1>5, Zenon DEF Unheard
  <2>2. step + 1 <= 14 /\ 1 \in 1 .. 3
    BY <1>3
  <2> QED BY <1>2, <1>4, <2>1, <2>2, WithinController, Zenon
<1>7. /\ drv'.valid = drv.valid /\ drv'.translation = drv.translation
      /\ drv'.enabled => This.what = "enable"
  BY <1>2, <1>5, <1>6, Zenon DEF SameButHandlers
<1>8. /\ TranslationKnown' <=> TranslationKnown
      /\ Port2Known' <=> Port2Known
      /\ Test1Known' <=> Test1Known
      /\ Test2Known' <=> Test2Known
  BY <1>4, <1>7, KnownKept, Zenon
<1>9. ASSUME NEW x \in Byte, Sends(0, <<x>>), Quiet
      PROVE  Unheard' /\ line'[0] = <<x>> /\ obuf' = <<>>
  <2>1. <<x>> \in Seq(Byte) /\ 0 \in 0 .. 2 /\ 1 \in 0 .. 2 \ {0} /\ 2 \in 0 .. 2 \ {0}
    OBVIOUS
  <2>2. <<>> \o <<x>> = <<x>>
    BY <2>1, ConcatEmptySeq
  <2>3. line'[1] = line[1] /\ line'[2] = line[2] /\ line'[0] = <<x>>
    BY <1>1, <1>9, <2>1, <2>2, SendsTypes, Zenon DEF Quiet
  <2> QED BY <1>4, <1>5, <1>6, <1>9, <2>3, Zenon DEF Quiet, Unheard
<1>10. CASE step = 1 /\ This.what = "disable"
  <2>1. line' = line
    BY <1>10, Zenon DEF Command
  <2>2. Bit(conf', 64) <=> Bit(conf, 64)
    <3>1. 16 \in Masks /\ 32 \in Masks /\ 64 \in Masks /\ 64 \in Masks \ {32} /\ 16 # 64 /\ 32 # 64
      BY DEF Masks
    <3>2. SetBit(conf, 16) \in Byte /\ SetBit(SetBit(conf, 16), 32) \in Byte
      BY <1>1, <3>1, SetBitByte
    <3>3. /\ Bit(SetBit(SetBit(conf, 16), 32), 64) <=> Bit(SetBit(conf, 16), 64)
          /\ Bit(SetBit(conf, 16), 64) <=> Bit(conf, 64)
      BY <1>1, <3>1, <3>2, OtherBits
    <3>4. conf' = Config(SetBit(SetBit(conf, 16), 32))
      BY <1>4, <1>10, MasksDistinct, Zenon DEF Commanded
    <3> QED BY <3>1, <3>2, <3>3, <3>4, ConfigByte, Zenon
  <2>3. step' = 2
    BY <1>6, <1>10
  <2>4. ~drv'.enabled
    BY <1>7, <1>10, Zenon
  <2>5. line[0] = <<>> /\ TranslationShown
    BY <1>10 DEF Learning
  <2>6. Unheard' /\ line'[0] = <<>> /\ TranslationShown'
    BY <1>4, <1>5, <1>6, <2>1, <2>2, <2>5, Zenon DEF Unheard, TranslationShown
  <2> QED BY <1>6, <2>3, <2>4, <2>6 DEF Learning
<1>11. CASE step = 3 /\ This.what = "readConfig"
  <2>1. conf' = conf /\ Sends(0, <<conf'>>)
    BY <1>4, <1>11, Zenon DEF Command, Commanded
  <2>2. step' = 4 /\ Quiet /\ TranslationShown
    BY <1>6, <1>11 DEF Learning
  <2>3. ~drv'.enabled
    BY <1>7, <1>11, Zenon
  <2>4. Unheard' /\ ConfigComing'
    BY <1>1, <1>9, <2>1, <2>2, Zenon DEF InFlight, ConfigComing
  <2>5. TranslationShown'
    BY <1>4, <2>1, <2>2, Zenon DEF TranslationShown
  <2> QED BY <1>6, <2>2, <2>3, <2>4, <2>5 DEF Learning
<1>12. CASE step = 6 /\ This.what = "enable2"
  <2>1. conf' = Config(ClearBit(conf, 32)) /\ Sends(0, <<conf'>>)
    BY <1>4, <1>12, MasksDistinct, Zenon DEF Command, Commanded
  <2>2. conf' \in Byte /\ (Bit(conf', 32) <=> ~machine.port2)
    <3>1. 32 \in Masks
      BY DEF Masks
    <3>2. ClearBit(conf, 32) \in Byte /\ ~Bit(ClearBit(conf, 32), 32)
      BY <1>1, <3>1, ClearBitByte
    <3> QED BY <2>1, <3>2, ConfigByte, Zenon
  <2>3. step' = 7 /\ Quiet /\ TranslationKnown
    BY <1>6, <1>12 DEF Learning
  <2>4. ~drv'.enabled
    BY <1>7, <1>12, Zenon
  <2>5. Unheard' /\ ConfigComing'
    BY <1>9, <2>1, <2>2, <2>3, Zenon DEF InFlight, ConfigComing
  <2>6. Port2Shown'
    BY <1>4, <2>2, Zenon DEF Port2Shown
  <2> QED BY <1>6, <1>8, <2>3, <2>4, <2>5, <2>6 DEF Learning
<1>13. CASE step = 9 /\ This.what = "test1"
  <2>1. machine.test[1] \in Byte /\ Sends(0, <<machine.test[1]>>)
    <3>1. machine.test[1] \in Byte
      BY <1>1 DEF MachineType, Byte
    <3> QED BY <1>13, <3>1, Zenon DEF Command
  <2>2. step' = 10 /\ Quiet /\ TranslationKnown /\ Port2Known
    BY <1>6, <1>13 DEF Learning
  <2>3. ~drv'.enabled
    BY <1>7, <1>13, Zenon
  <2>4. Unheard' /\ Test1Coming'
    BY <1>4, <1>9, <2>1, <2>2, Zenon DEF InFlight, Test1Coming
  <2> QED BY <1>6, <1>8, <2>2, <2>3, <2>4 DEF Learning
<1>14. CASE step = 11 /\ This.what = "test2"
  <2>1. machine.test[2] \in Byte /\ Sends(0, <<machine.test[2]>>)
    <3>1. machine.test[2] \in Byte
      BY <1>1 DEF MachineType, Byte
    <3> QED BY <1>14, <3>1, Zenon DEF Command
  <2>2. step' = 12 /\ Quiet /\ TranslationKnown /\ Port2Known /\ Test1Known /\ machine.port2
    BY <1>6, <1>14 DEF Learning
  <2>3. ~drv'.enabled
    BY <1>7, <1>14, Zenon
  <2>4. Unheard' /\ Test2Coming' /\ machine'.port2
    BY <1>4, <1>9, <2>1, <2>2, Zenon DEF InFlight, Test2Coming
  <2> QED BY <1>6, <1>8, <2>2, <2>3, <2>4 DEF Learning
<1>15. CASE step = 13 /\ This.what = "enable"
  <2>1. conf' = Config(On(On(conf, 1), 2)) /\ Sends(0, <<conf'>>)
    BY <1>4, <1>15, Zenon DEF Command, Commanded
  <2>2. conf' \in Byte /\ (machine.port2 \/ Bit(conf', 32))
    <3>1. On(On(conf, 1), 2) \in Byte
      <4>1. 16 \in Masks /\ 32 \in Masks
        BY DEF Masks
      <4>2. ASSUME NEW b \in Byte
            PROVE  On(b, 1) \in Byte /\ On(b, 2) \in Byte
        BY <4>1, ClearBitByte, MasksDistinct DEF On
      <4> QED BY <1>1, <4>2
    <3> QED BY <2>1, <3>1, ConfigByte, Zenon
  <2>3. step' = 14 /\ Quiet /\ TranslationKnown /\ Test1Known /\ Test2Known
    BY <1>6, <1>15 DEF Learning
  <2>4. Unheard' /\ ConfigComing'
    BY <1>9, <2>1, <2>2, <2>3, Zenon DEF InFlight, ConfigComing
  <2>5. Clock2Shown'
    BY <1>4, <2>2, Zenon DEF Clock2Shown
  <2> QED BY <1>6, <1>8, <2>3, <2>4, <2>5 DEF Learning
<1> QED BY <1>3, <1>6, <1>10, <1>11, <1>12, <1>13, <1>14, <1>15, Zenon

\* Neither port works: the driver gives up.
LEMMA NoPortLearns ==
    ASSUME Types, script = "controller", Learning, NoPort
    PROVE  script' # "controller" /\ Learnt'
<1>1. drv \in DrvType /\ 0 \in 0 .. 3
  BY DEF Types, Drv
<1>2. step = 13
  BY StepsOfKinds DEF NoPort, Types
<1>3. Advance(drv, 0) /\ machine' = machine /\ conf' = conf
  BY DEF NoPort
<1>4. script' # "controller" /\ SameButHandlers(drv', drv)
  BY <1>1, <1>3, AfterController
<1>5. Test1Known /\ Test2Known /\ TranslationKnown /\ ~drv.enabled
  BY <1>2 DEF Learning
<1>6. Learnt
  BY <1>5, Zenon DEF Learnt
<1>7. SameSetup(drv', drv)
  BY <1>4 DEF SameSetup, SameButHandlers
<1> QED BY <1>3, <1>4, <1>6, <1>7, LearntKept

\* An answer of the controller is polled.
LEMMA PollLearns ==
    ASSUME Types, script = "controller", Learning, pollByte
    PROVE  IF script' = "controller" THEN Learning' ELSE Learnt'
<1>1. drv \in DrvType /\ conf \in Byte /\ machine \in MachineType /\ Wires
  BY DEF Types, Drv, Wires
<1>2. obuf # <<>> /\ obuf' = <<>> /\ line' = line /\ machine' = machine /\ obuf[1].byte \in Byte
  BY <1>1, Buffer DEF pollByte
<1>3. \/ step = 4 /\ This.what = "config"
      \/ step = 7 /\ This.what = "port2"
      \/ step = 10 /\ This.what = "test1"
      \/ step = 12 /\ This.what = "test2"
      \/ step = 14 /\ This.what = "configByte"
  BY StepsOfKinds DEF pollByte, Types
<1>4. PICK p : p = Polled(obuf[1].byte) /\ conf' = Config(p.conf) /\ Advance(p.d, p.n)
  BY Zenon DEF pollByte, Use
<1> DEFINE byte == obuf[1].byte
<1>5. This.what \in Polls
  BY <1>3 DEF Polls
<1>6. ASSUME NEW x, InFlight(x)
      PROVE  byte = x /\ line[0] = <<>>
  BY <1>2, <1>6, Zenon DEF InFlight
<1> HIDE DEF byte
<1>7. /\ p.d \in DrvType /\ p.n \in 1 .. 3 /\ p.conf \in Byte
      /\ p.d.enabled = drv.enabled /\ p.d.handler = drv.handler
      /\ This.what = "config" => ConfigPolled(p, byte)
      /\ This.what = "port2" => Port2Polled(p, byte)
      /\ This.what = "test1" => Test1Polled(p, byte)
      /\ This.what = "test2" => Test2Polled(p, byte)
      /\ This.what = "configByte" => ConfigBytePolled(p, byte)
  BY <1>1, <1>2, <1>4, <1>5, PolledCases, Zenon DEF byte
<1>8. p.d.handler[1] = "none" /\ p.d.handler[2] = "none"
  <2>1. Unheard
    BY DEF Learning
  <2> QED BY <1>7, <2>1, Zenon DEF Unheard
<1>a. p.d \in DrvType /\ p.n \in 1 .. 3
  BY <1>7, Zenon
<1>b. ASSUME drv'.handler[1] = "none", drv'.handler[2] = "none"
      PROVE  Unheard'
  <2>1. Unheard
    BY DEF Learning
  <2> QED BY <1>2, <1>b, <2>1, Zenon DEF Unheard
<1>c. ASSUME NEW x, InFlight(x)
      PROVE  byte = x /\ Quiet'
  BY <1>2, <1>6, <1>c, Zenon DEF Quiet
<1>9. CASE step = 4 /\ This.what = "config"
  <2>1. ConfigComing /\ TranslationShown /\ ~drv.enabled
    BY <1>9 DEF Learning
  <2>2. byte = conf /\ Quiet'
    BY <1>c, <2>1, Zenon DEF ConfigComing
  <2>3. p.d.translation = Bit(byte, 64) /\ p.n = 1
    BY <1>7, <1>9, Zenon DEF ConfigPolled
  <2>4. /\ script' = "controller" /\ step' = 5 /\ SameButHandlers(drv', p.d)
        /\ drv'.handler[1] = "none" /\ drv'.handler[2] = "none"
    BY <1>4, <1>8, <1>9, <1>a, <2>3, WithinController
  <2>5. TranslationKnown' /\ ~drv'.enabled
    BY <1>2, <1>7, <2>1, <2>2, <2>3, <2>4, Zenon DEF SameButHandlers, TranslationKnown, TranslationShown
  <2>6. Unheard'
    BY <1>b, <2>4, Zenon
  <2> QED BY <2>2, <2>4, <2>5, <2>6 DEF Learning
<1>10. CASE step = 7 /\ This.what = "port2"
  <2>1. ConfigComing /\ Port2Shown /\ TranslationKnown /\ ~drv.enabled
    BY <1>10 DEF Learning
  <2>2. byte = conf /\ Quiet'
    BY <1>c, <2>1, Zenon DEF ConfigComing
  <2>3. /\ p.d.translation = drv.translation /\ p.d.valid[2] = ~Bit(byte, 32)
        /\ p.n = IF Bit(byte, 32) THEN 2 ELSE 1
    BY <1>7, <1>10, Zenon DEF Port2Polled
  <2>4. p.n \in {1, 2}
    BY <2>3
  <2>5. /\ script' = "controller" /\ step' \in {8, 9} /\ SameButHandlers(drv', p.d)
        /\ drv'.handler[1] = "none" /\ drv'.handler[2] = "none"
    BY <1>4, <1>8, <1>10, <1>a, <2>4, WithinController
  <2>6. Port2Known' /\ TranslationKnown' /\ ~drv'.enabled
    BY <1>2, <1>7, <2>1, <2>2, <2>3, <2>5, Zenon
       DEF SameButHandlers, Port2Known, Port2Shown, TranslationKnown
  <2>7. Unheard'
    BY <1>b, <2>5, Zenon
  <2> QED BY <2>2, <2>5, <2>6, <2>7 DEF Learning
<1>11. CASE step = 10 /\ This.what = "test1"
  <2>1. Test1Coming /\ Port2Known /\ TranslationKnown /\ ~drv.enabled
    BY <1>11 DEF Learning
  <2>2. byte = machine.test[1] /\ Quiet'
    BY <1>c, <2>1, Zenon DEF Test1Coming
  <2>3. /\ p.d.translation = drv.translation
        /\ p.d.valid[1] = (byte = 0) /\ p.d.valid[2] = drv.valid[2]
        /\ p.n = IF drv.valid[2] THEN 1 ELSE 3
    BY <1>7, <1>11, Zenon DEF Test1Polled
  <2>4. p.n \in {1, 3}
    BY <2>3
  <2>5. /\ script' = "controller" /\ step' = 10 + p.n /\ SameButHandlers(drv', p.d)
        /\ drv'.handler[1] = "none" /\ drv'.handler[2] = "none"
    BY <1>4, <1>8, <1>11, <1>a, <2>4, WithinController
  <2>6. Test1Known' /\ Port2Known' /\ TranslationKnown' /\ ~drv'.enabled
    BY <1>2, <1>7, <2>1, <2>2, <2>3, <2>5, Zenon
       DEF SameButHandlers, Test1Known, Port2Known, TranslationKnown
  <2>7. Unheard'
    BY <1>b, <2>5, Zenon
  <2>8. CASE machine'.port2
    <3>1. p.n = 1
      BY <1>2, <2>1, <2>3, <2>8, Zenon DEF Port2Known
    <3>2. step' = 11
      BY <2>5, <3>1
    <3> QED BY <2>2, <2>5, <2>6, <2>7, <2>8, <3>2 DEF Learning
  <2>9. CASE ~machine'.port2
    <3>1. p.n = 3
      BY <1>2, <2>1, <2>3, <2>9, Zenon DEF Port2Known
    <3>2. step' = 13
      BY <2>5, <3>1
    <3>3. Test2Known'
      BY <2>6, <2>9, Zenon DEF Port2Known, Test2Known
    <3> QED BY <2>2, <2>5, <2>6, <2>7, <3>2, <3>3 DEF Learning
  <2> QED BY <2>8, <2>9, Zenon
<1>12. CASE step = 12 /\ This.what = "test2"
  <2>1. Test2Coming /\ Test1Known /\ TranslationKnown /\ machine.port2 /\ ~drv.enabled
    BY <1>12 DEF Learning
  <2>2. byte = machine.test[2] /\ Quiet'
    BY <1>c, <2>1, Zenon DEF Test2Coming
  <2>3. /\ p.d.translation = drv.translation
        /\ p.d.valid[1] = drv.valid[1] /\ p.d.valid[2] = (byte = 0) /\ p.n = 1
    BY <1>7, <1>12, Zenon DEF Test2Polled
  <2>4. /\ script' = "controller" /\ step' = 13 /\ SameButHandlers(drv', p.d)
        /\ drv'.handler[1] = "none" /\ drv'.handler[2] = "none"
    BY <1>4, <1>8, <1>12, <1>a, <2>3, WithinController
  <2>5. Test1Known' /\ Test2Known' /\ TranslationKnown' /\ ~drv'.enabled
    BY <1>2, <1>7, <2>1, <2>2, <2>3, <2>4, Zenon
       DEF SameButHandlers, Test1Known, Test2Known, TranslationKnown
  <2>6. Unheard'
    BY <1>b, <2>4, Zenon
  <2> QED BY <2>2, <2>4, <2>5, <2>6 DEF Learning
<1>13. CASE step = 14 /\ This.what = "configByte"
  <2>1. ConfigComing /\ Test1Known /\ Test2Known /\ TranslationKnown /\ Clock2Shown
    BY <1>13 DEF Learning
  <2>2. byte = conf
    BY <1>c, <2>1, Zenon DEF ConfigComing
  <2>3. /\ p.conf = conf /\ p.d.translation = drv.translation
        /\ p.d.valid = drv.valid /\ p.n = 1 /\ p.d.configByte = byte
    BY <1>7, <1>13, Zenon DEF ConfigBytePolled
  <2>4. script' # "controller" /\ SameButHandlers(drv', p.d)
    <3>1. p.n \in 0 .. 3 /\ step + p.n > 14
      BY <1>13, <2>3
    <3> QED BY <1>4, <1>a, <3>1, AfterController
  <2>5. conf' = conf
    <3>1. conf' = Config(conf)
      BY <1>4, <2>3
    <3> QED BY <2>1, <3>1, MasksDistinct, Zenon DEF Config, SetBit, Clock2Shown
  <2>6. Test1Known' /\ Test2Known' /\ TranslationKnown' /\ Clock2Shown'
    BY <1>2, <2>1, <2>3, <2>4, <2>5, Zenon
       DEF SameButHandlers, Test1Known, Test2Known, TranslationKnown, Clock2Shown
  <2>7. drv'.configByte = conf'
    BY <2>2, <2>3, <2>4, <2>5, Zenon DEF SameButHandlers
  <2> QED BY <2>4, <2>6, <2>7, Zenon DEF Learnt
<1> QED BY <1>3, <1>9, <1>10, <1>11, <1>12, <1>13, Zenon

\* A poll that gives up although an answer is on its way disturbs the start.
LEMMA TimeoutDisturbs ==
    ASSUME Types, script = "controller", Learning, PollTimeout
    PROVE  ~Undisturbed'
<1>1. step \in {4, 7, 10, 12, 14} /\ obuf = <<>> /\ Overdue
  BY StepsOfKinds DEF PollTimeout, Types
<1>2. \E x : InFlight(x)
  <2>1. ConfigComing \/ Test1Coming \/ Test2Coming
    BY <1>1 DEF Learning
  <2> QED BY <2>1, Zenon DEF ConfigComing, Test1Coming, Test2Coming
<1>3. line[0] # <<>>
  <2>1. PICK x : line[0] = <<x>>
    BY <1>1, <1>2, Zenon DEF InFlight
  <2>2. <<x>> # <<>>
    OBVIOUS
  <2> QED BY <2>1, <2>2
<1>4. Coming
  <2>1. 0 \in 0 .. 2
    OBVIOUS
  <2> QED BY <1>1, <1>3, <2>1, Zenon DEF Coming, Deliverable
<1>5. "slow" \in history'
  BY <1>1, <1>4, Zenon DEF Overdue
<1> QED BY <1>5, Zenon DEF Undisturbed, Without

\* The output buffer is emptied.
LEMMA FlushLearns ==
    ASSUME Types, i8042_flush, IF script = "controller" THEN Learning ELSE Learnt
    PROVE  IF script' = "controller" THEN Learning' ELSE Learnt'
<1>1. drv \in DrvType /\ 1 \in 1 .. 3 /\ 1 \in 0 .. 3 /\ script # "done"
  BY DEF Types, Drv, i8042_flush, At
<1>2. machine' = machine /\ conf' = conf /\ line' = line
  BY DEF i8042_flush
<1>3. \/ script = "controller" /\ step \in {2, 5, 8}
      \/ script = "silence" /\ step = 3
  BY StepsOfKinds DEF i8042_flush, Types
<1>4. CASE obuf # <<>> /\ UNCHANGED <<drv, script, step>>
  <2>1. CASE script = "controller"
    <3>1. step = 2
      BY <1>3, <1>4, <2>1 DEF Learning, Quiet
    <3>2. Unheard /\ ~drv.enabled /\ line[0] = <<>> /\ TranslationShown
      BY <2>1, <3>1 DEF Learning
    <3>3. Unheard' /\ ~drv'.enabled /\ line'[0] = <<>> /\ TranslationShown' /\ step' = 2
      BY <1>2, <1>4, <3>1, <3>2, Zenon DEF Unheard, TranslationShown
    <3> QED BY <1>4, <2>1, <3>3 DEF Learning
  <2>2. CASE script # "controller"
    <3>1. SameSetup(drv', drv)
      BY <1>4 DEF SameSetup
    <3> QED BY <1>2, <1>4, <2>2, <3>1, LearntKept
  <2> QED BY <2>1, <2>2
<1>5. CASE obuf = <<>> /\ obuf' = obuf /\ Advance(drv, 1)
  <2>1. CASE script = "controller"
    <3>1. step \in {2, 5, 8} /\ Quiet
      BY <1>3, <1>5, <2>1 DEF Learning, Quiet
    <3>2. Quiet'
      BY <1>2, <1>5, <3>1 DEF Quiet
    <3>3. Unheard /\ ~drv.enabled /\ step + 1 <= 14
      BY <2>1, <3>1 DEF Learning
    <3>4. /\ script' = "controller" /\ step' = step + 1 /\ SameButHandlers(drv', drv)
          /\ drv'.handler[1] = "none" /\ drv'.handler[2] = "none"
      <4>1. drv.handler[1] = "none" /\ drv.handler[2] = "none"
        BY <3>3, Zenon DEF Unheard
      <4> QED BY <1>1, <1>5, <2>1, <3>3, <4>1, WithinController, Zenon
    <3>5. Unheard' /\ ~drv'.enabled /\ drv'.valid = drv.valid /\ drv'.translation = drv.translation
      BY <1>2, <3>3, <3>4, Zenon DEF SameButHandlers, Unheard
    <3>6. /\ TranslationKnown' <=> TranslationKnown
          /\ Port2Known' <=> Port2Known
          /\ TranslationShown' <=> TranslationShown
      <4>1. TranslationShown' <=> TranslationShown
        BY <1>2, Zenon DEF TranslationShown
      <4> QED BY <1>2, <3>5, <4>1, KnownKept, Zenon
    <3>7. /\ step = 2 => TranslationShown
          /\ step \in {5, 8} => TranslationKnown
          /\ step = 8 => Port2Known
      BY <2>1 DEF Learning
    <3>8. step' \in {3, 6, 9}
      BY <3>1, <3>4
    <3> QED BY <3>1, <3>2, <3>4, <3>5, <3>6, <3>7, <3>8 DEF Learning
  <2>2. CASE script = "silence"
    <3>1. SameButHandlers(drv', drv) /\ (script' = script \/ script' # "controller")
      BY <1>1, <1>5, AdvanceTypes, Zenon DEF Types
    <3>2. SameSetup(drv', drv)
      BY <3>1 DEF SameSetup, SameButHandlers
    <3> QED BY <1>2, <2>2, <3>1, <3>2, LearntKept
  <2> QED BY <1>3, <2>1, <2>2
<1> QED BY <1>4, <1>5, Zenon DEF i8042_flush

\* The devices are silenced and their interrupts turned on.
LEMMA SilenceLearns ==
    ASSUME Types, script # "controller" => Learnt,
           SilenceDevice(1) \/ SilenceDevice(2) \/ i8042_enableDevicesIRQs
    PROVE  script' # "controller" /\ Learnt'
<1>1. drv \in DrvType /\ 1 \in 0 .. 3 /\ machine' = machine
  BY DEF Types, Drv, SilenceDevice, i8042_enableDevicesIRQs
<1>2. script = "silence"
  <2>1. At("command") /\ This.what \in {"silence1", "silence2", "irqs"}
    BY DEF SilenceDevice, i8042_enableDevicesIRQs
  <2> QED BY <2>1, StepsOfKinds DEF Types
<1>3. Learnt
  BY <1>2
<1>4. ASSUME NEW d \in DrvType, Advance(d, 1)
      PROVE  SameButHandlers(drv', d) /\ script' # "controller"
  <2>1. SameButHandlers(drv', d) /\ (script' = script \/ script' # "controller")
    BY <1>1, <1>2, <1>4, AdvanceTypes, Zenon DEF Types
  <2> QED BY <1>2, <2>1
<1>5. CASE SilenceDevice(1) \/ SilenceDevice(2)
  <2>1. Advance(drv, 1) /\ conf' = conf
    BY <1>5 DEF SilenceDevice
  <2>2. SameSetup(drv', drv) /\ script' # "controller"
    BY <1>1, <1>4, <2>1 DEF SameSetup, SameButHandlers
  <2> QED BY <1>1, <1>3, <2>1, <2>2, LearntKept
<1>6. CASE i8042_enableDevicesIRQs
  <2> DEFINE one == IF drv.valid[1] THEN SetBit(drv.configByte, INTERRUPT[1]) ELSE drv.configByte
             two == IF drv.valid[2] THEN SetBit(one, INTERRUPT[2]) ELSE one
             d == [drv EXCEPT !.configByte = two, !.handler = <<"initIRQ", "initIRQ">>]
  <2>1. /\ two \in Byte
        /\ Bit(drv.configByte, 32) => Bit(two, 32)
    <3>1. /\ INTERRUPT[1] \in Masks /\ INTERRUPT[2] \in Masks /\ drv.configByte \in Byte
          /\ 32 \in Masks /\ INTERRUPT[1] # 32 /\ INTERRUPT[2] # 32
      BY <1>1, MasksDistinct DEF Masks, DrvType
    <3>2. one \in Byte /\ (Bit(drv.configByte, 32) => Bit(one, 32))
      BY <3>1, SetBitByte, OtherBits
    <3> HIDE DEF one
    <3> QED BY <3>1, <3>2, SetBitByte, OtherBits
  <2>2. conf' = Config(two) /\ Advance(d, 1)
    BY <1>6 DEF i8042_enableDevicesIRQs
  <2> HIDE DEF two
  <2>3. /\ d \in DrvType /\ d.configByte = two /\ d.enabled = drv.enabled /\ d.valid = drv.valid
        /\ d.translation = drv.translation
    <3>1. <<"initIRQ", "initIRQ">> \in [1 .. 2 -> Handlers]
      BY DEF Handlers
    <3> QED BY <1>1, <2>1, <3>1, Zenon DEF DrvType
  <2> HIDE DEF d
  <2>4. SameButHandlers(drv', d) /\ script' # "controller"
    BY <1>4, <2>2, <2>3
  <2>5. drv.enabled => conf' = two /\ (machine.port2 \/ Bit(two, 32))
    <3>1. drv.enabled => machine.port2 \/ Bit(two, 32)
      BY <1>3, <2>1, Zenon DEF Learnt, Clock2Shown
    <3>2. machine.port2 \/ Bit(two, 32) => Config(two) = two
      BY MasksDistinct, Zenon DEF Config, SetBit
    <3> QED BY <2>2, <3>1, <3>2, Zenon
  <2>6. /\ drv'.valid = drv.valid /\ drv'.translation = drv.translation
        /\ drv'.enabled => drv.enabled
        /\ drv'.configByte = two
    BY <2>3, <2>4, Zenon DEF SameButHandlers
  <2>7. Test1Known' /\ Test2Known' /\ TranslationKnown'
    BY <1>1, <1>3, <2>6, KnownKept, Zenon DEF Learnt
  <2>8. drv'.enabled => drv'.configByte = conf' /\ Clock2Shown'
    BY <1>1, <2>5, <2>6, Zenon DEF Clock2Shown
  <2> QED BY <2>4, <2>7, <2>8, Zenon DEF Learnt
<1> QED BY <1>5, <1>6

\* A byte of the controller reaches the output buffer.
LEMMA DeliverLearns ==
    ASSUME Types, NEW e \in 0 .. 2, Deliver(e), IF script = "controller" THEN Learning ELSE Learnt
    PROVE  IF script' = "controller" THEN Learning' ELSE Learnt'
<1>1. machine' = machine /\ conf' = conf /\ drv' = drv /\ script' = script /\ step' = step
  BY DEF Deliver
<1>2. CASE script # "controller"
  <2>1. SameSetup(drv', drv)
    BY <1>1 DEF SameSetup
  <2> QED BY <1>1, <1>2, <2>1, LearntKept
<1>3. CASE script = "controller"
  <2>1. /\ line[e] # <<>> /\ obuf = <<>> /\ line' = [line EXCEPT ![e] = Tail(@)]
        /\ obuf' = << [dev |-> e, byte |-> Head(line[e])] >>
    BY DEF Deliver, Deliverable
  <2>2. e = 0
    <3>1. line[1] = <<>> /\ line[2] = <<>>
      BY <1>3, Zenon DEF Learning, Unheard
    <3> QED BY <2>1, <3>1
  <2>3. line \in [0 .. 2 -> Seq(Byte)]
    BY DEF Types, Wires
  <2>4. line'[1] = line[1] /\ line'[2] = line[2] /\ line'[0] = Tail(line[0])
    BY <2>1, <2>2, <2>3
  <2>5. obuf' # <<>> /\ obuf'[1].byte = Head(line[0])
    BY <2>1, <2>2
  <2>6. ASSUME NEW x, InFlight(x)
        PROVE  line'[0] = <<>> /\ obuf' # <<>> /\ obuf'[1].byte = x
    <3>1. line[0] = <<x>>
      BY <2>1, <2>6, Zenon DEF InFlight
    <3>2. Tail(<<x>>) = <<>> /\ Head(<<x>>) = x
      OBVIOUS
    <3> QED BY <2>4, <2>5, <3>1, <3>2, Zenon
  <2>7. /\ ConfigComing => ConfigComing'
        /\ Test1Coming => Test1Coming'
        /\ Test2Coming => Test2Coming'
    BY <1>1, <2>6, Zenon DEF InFlight, ConfigComing, Test1Coming, Test2Coming
  <2>8. step \in 1 .. 14 /\ step \notin {1, 2, 3, 5, 6, 8, 9, 11, 13}
    <3>1. Len(Scripts[script]) = 14
      BY <1>3, ScriptNames, ControllerScript
    <3> QED BY <1>3, <2>1, <2>2, <3>1 DEF Learning, Quiet, Types, Position
  <2>9. /\ Unheard => Unheard'
        /\ TranslationShown => TranslationShown'
        /\ Port2Shown => Port2Shown'
        /\ Clock2Shown => Clock2Shown'
        /\ TranslationKnown => TranslationKnown'
        /\ Port2Known => Port2Known'
        /\ Test1Known => Test1Known'
        /\ Test2Known => Test2Known'
        /\ drv'.enabled => drv.enabled
        /\ machine.port2 => machine'.port2
    BY <1>1, <2>4, Zenon DEF Unheard, TranslationShown, Port2Shown, Clock2Shown, TranslationKnown,
       Port2Known, Test1Known, Test2Known
  <2>10. script' = "controller" /\ step' = step
    BY <1>1, <1>3, Zenon
  <2> QED BY <1>3, <2>7, <2>8, <2>9, <2>10 DEF Learning
<1> QED BY <1>2, <1>3

\* Keys and movements before a handler is there disturb the start.
LEMMA TypingLearns ==
    ASSUME TypeKey \/ \E m \in Motions : MoveMouse(m),
           Undisturbed', IF script = "controller" THEN Learning ELSE Learnt
    PROVE  script' # "controller" /\ Learnt'
<1>1. machine' = machine /\ conf' = conf /\ drv' = drv /\ script' = script
  BY DEF TypeKey, MoveMouse
<1>2. script # "controller"
  <2> SUFFICES ASSUME script = "controller" PROVE FALSE
    OBVIOUS
  <2>1. drv.handler[1] = "none" /\ drv.handler[2] = "none"
    BY Zenon DEF Learning, Unheard
  <2>2. "typed" \in history' \/ "moved" \in history'
    BY <2>1, Zenon DEF TypeKey, MoveMouse
  <2> QED BY <2>2, Zenon DEF Undisturbed, Without
<1>3. SameSetup(drv', drv)
  BY <1>1 DEF SameSetup
<1> QED BY <1>1, <1>2, <1>3, LearntKept

\* At power-on the driver knows nothing, and no byte is on its way.
LEMMA InitLearns == Init => SetUp
<1> SUFFICES ASSUME Init PROVE Learning /\ script = "controller"
  BY DEF SetUp
<1>1. script = "controller" /\ step = 1 /\ line = [d \in 0 .. 2 |-> <<>>]
  BY DEF Init
<1>2. drv.handler[1] = "none" /\ drv.handler[2] = "none" /\ ~drv.enabled
  BY DEF Init
<1>3. Bit(conf, 64) <=> machine.translation
  <2> DEFINE b == 3 + Flag(machine.translation, 64)
  <2>1. machine \in MachineType
    BY MachineAssumption DEF Init
  <2>2. b \in Byte /\ (Bit(b, 64) <=> machine.translation)
    BY <2>1 DEF Flag, Byte, Bit
  <2>3. conf = Config(b)
    BY MasksDistinct, Zenon DEF Init
  <2>4. 64 \in Masks \ {32}
    BY DEF Masks
  <2> HIDE DEF b
  <2> QED BY <2>2, <2>3, <2>4, ConfigByte, Zenon
<1>4. Unheard /\ line[0] = <<>>
  BY <1>1, <1>2 DEF Unheard
<1>5. TranslationShown
  BY <1>3, Zenon DEF TranslationShown
<1> QED BY <1>1, <1>2, <1>4, <1>5 DEF Learning

\* Every step keeps what the driver knows of the ports true, unless it is disturbed.
LEMMA NextLearns == Types /\ SetUp /\ [Next]_vars => SetUp'
<1> DEFINE Knows == IF script = "controller" THEN Learning ELSE Learnt
<1> SUFFICES ASSUME Types, SetUp, [Next]_vars, Undisturbed' PROVE Knows'
  BY DEF SetUp
<1>1. CASE UNCHANGED vars
  <2>1. Undisturbed
    BY <1>1, Zenon DEF vars, Undisturbed, Without
  <2>2. Knows
    BY <2>1 DEF SetUp
  <2>3. /\ machine' = machine /\ conf' = conf /\ line' = line /\ obuf' = obuf /\ drv' = drv
        /\ script' = script /\ step' = step
    BY <1>1 DEF vars
  <2>4. Learning => Learning'
    <3>1. /\ Unheard' <=> Unheard
          /\ Quiet' <=> Quiet
          /\ ConfigComing' <=> ConfigComing
          /\ Test1Coming' <=> Test1Coming
          /\ Test2Coming' <=> Test2Coming
      BY <2>3, Zenon DEF Quiet, Unheard, ConfigComing, Test1Coming, Test2Coming, InFlight
    <3>2. /\ TranslationShown' <=> TranslationShown
          /\ Port2Shown' <=> Port2Shown
          /\ Clock2Shown' <=> Clock2Shown
      BY <2>3, Zenon DEF TranslationShown, Port2Shown, Clock2Shown
    <3>3. /\ TranslationKnown' <=> TranslationKnown
          /\ Port2Known' <=> Port2Known
          /\ Test1Known' <=> Test1Known
          /\ Test2Known' <=> Test2Known
      BY <2>3, KnownKept, Zenon
    <3>4. (drv'.enabled => drv.enabled) /\ (machine.port2 => machine'.port2)
      BY <2>3, Zenon
    <3> QED BY <2>3, <3>1, <3>2, <3>3, <3>4 DEF Learning
  <2>5. Learnt => Learnt'
    BY <2>3, Zenon DEF Learnt, Clock2Shown, TranslationKnown, Test1Known, Test2Known
  <2> QED BY <2>2, <2>3, <2>4, <2>5, Zenon
<1>2. CASE Next
  <2>1. Knows
    BY <1>2, HistoryGrows, Zenon DEF SetUp
  <2>2. CASE script = "controller" /\ (Command \/ NoPort \/ pollByte \/ PollTimeout)
    <3>1. Learning
      BY <2>1, <2>2, Zenon
    <3> QED BY <2>2, <3>1, CommandLearns, NoPortLearns, PollLearns, TimeoutDisturbs, Zenon
  <2>3. (Command \/ NoPort \/ pollByte \/ PollTimeout) => script = "controller"
    BY StepsOfKinds DEF Types, Command, NoPort, pollByte, PollTimeout
  <2>4. CASE SilenceDevice(1) \/ SilenceDevice(2) \/ i8042_enableDevicesIRQs
    BY <2>1, <2>4, SilenceLearns, Zenon
  <2>5. CASE i8042_flush
    BY <2>1, <2>5, FlushLearns, Zenon
  <2>6. CASE SendByte
    <3>1. /\ machine' = machine /\ conf' = conf /\ drv' = drv /\ script' = script
          /\ script # "controller"
      BY <2>6, StepsOfKinds DEF SendByte, Types
    <3>2. SameSetup(drv', drv)
      BY <3>1 DEF SameSetup
    <3> QED BY <2>1, <3>1, <3>2, LearntKept, Zenon
  <2>7. CASE Answer
    <3>1. SameSetup(drv', drv) /\ script # "controller" /\ script' # "controller"
      BY <2>7, AnswerTypes
    <3>2. machine' = machine /\ conf' = conf
      BY <2>7, Zenon DEF Answer, Answered, NoAnswer, receiveByte, ReceiveTimeout
    <3> QED BY <2>1, <3>1, <3>2, LearntKept, Zenon
  <2>8. CASE \E d \in 0 .. 2 : Deliver(d)
    BY <2>1, <2>8, DeliverLearns, Zenon
  <2>9. CASE Interrupt
    <3>1. script # "controller"
      <4> SUFFICES ASSUME script = "controller" PROVE FALSE
        OBVIOUS
      <4>1. drv.handler[1] = "none" /\ drv.handler[2] = "none"
        BY <2>1, Zenon DEF Learning, Unheard
      <4>2. IrqOf(obuf[1].dev) \in {1, 2}
        BY DEF IrqOf
      <4> QED BY <2>9, <4>1, <4>2, Zenon DEF Interrupt, Served
    <3>2. SameSetup(drv', drv)
      BY <2>9, InterruptTypes
    <3>3. machine' = machine /\ conf' = conf /\ script' = script
      BY <2>9 DEF Interrupt
    <3> QED BY <2>1, <3>1, <3>2, <3>3, LearntKept, Zenon
  <2>10. CASE TypeKey \/ \E m \in Motions : MoveMouse(m)
    BY <2>1, <2>10, TypingLearns, Zenon
  <2> QED
    BY <1>2, <2>2, <2>3, <2>4, <2>5, <2>6, <2>7, <2>8, <2>9, <2>10, Zenon DEF Next, Thread, Answer
<1> QED BY <1>1, <1>2

\* What the driver knows of the ports is true at every moment, unless it was disturbed.
LEMMA SetUpInvariant == Spec => []SetUp
<1> QED BY InitLearns, NextLearns, TypesInvariant, PTL DEF Spec

\* Whatever ports, devices and test results the machine has, once i8042_init is over
\* (and nobody pressed a key or moved the mouse meanwhile, and nothing was late) the
\* driver uses exactly the ports that exist and passed their test, knows whether the
\* controller translates, and its copy of the configuration byte is the controller's.
THEOREM PortsFound == Spec => []PortsExact
<1>1. Types /\ SetUp => PortsExact
  <2> SUFFICES ASSUME Types, SetUp, Undisturbed, script # "controller"
               PROVE  /\ drv.valid[1] <=> machine.test[1] = 0
                      /\ drv.valid[2] <=> machine.port2 /\ machine.test[2] = 0
                      /\ drv.translation = machine.translation
                      /\ drv.enabled => drv.configByte = conf
    BY DEF PortsExact
  <2>1. Learnt
    BY DEF SetUp
  <2>2. drv.translation \in BOOLEAN /\ machine.translation \in BOOLEAN
    BY Zenon DEF Types, Drv, DrvType, MachineType
  <2>3. drv.translation = machine.translation
    <3>1. \A a, b \in BOOLEAN : (a <=> b) => a = b
      OBVIOUS
    <3>2. drv.translation <=> machine.translation
      BY <2>1, Zenon DEF Learnt, TranslationKnown
    <3> QED BY <2>2, <3>1, <3>2, Zenon
  <2> QED BY <2>1, <2>3, Zenon DEF Learnt, Test1Known, Test2Known
<1> QED BY <1>1, TypesInvariant, SetUpInvariant, PTL
=============================================================================
