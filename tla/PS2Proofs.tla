------------------------------ MODULE PS2Proofs ------------------------------
(***************************************************************************)
(* The PS/2 driver, for every machine, any number of faults and movements: *)
(* the variables stay in range.                                            *)
(***************************************************************************)
EXTENDS PS2, SequenceTheorems, TLAPS

USE SMTT(60)

Byte == 0 .. 255

Masks == {1, 2, 16, 32, 64}

-----------------------------------------------------------------------------
\* The bits of the configuration byte: setting or clearing one leaves a byte, and
\* changes that bit and no other.
LEMMA SetBitByte ==
    ASSUME NEW b \in Byte, NEW m \in Masks
    PROVE  SetBit(b, m) \in Byte /\ Bit(SetBit(b, m), m)
BY DEF Byte, Masks, SetBit, Bit

\* Clearing a bit of the configuration byte leaves a byte without that bit.
LEMMA ClearBitByte ==
    ASSUME NEW b \in Byte, NEW m \in Masks
    PROVE  ClearBit(b, m) \in Byte /\ ~Bit(ClearBit(b, m), m)
BY DEF Byte, Masks, ClearBit, Bit

\* Setting or clearing one bit of the configuration byte leaves the others alone.
LEMMA OtherBits ==
    ASSUME NEW b \in Byte, NEW m \in Masks, NEW n \in Masks, m # n
    PROVE  /\ Bit(SetBit(b, m), n) <=> Bit(b, n)
           /\ Bit(ClearBit(b, m), n) <=> Bit(b, n)
BY SMTT(120) DEF Byte, Masks, SetBit, ClearBit, Bit

\* The masks that the driver and the controller use are different bits.
LEMMA MasksDistinct ==
    /\ INTERRUPT[1] = 1 /\ INTERRUPT[2] = 2 /\ CLOCK[1] = 16 /\ CLOCK[2] = 32
    /\ TRANSLATION = 64
BY DEF INTERRUPT, CLOCK, TRANSLATION

-----------------------------------------------------------------------------
(***************************************************************************)
(* The scripts.                                                            *)
(***************************************************************************)
SendWhats == {"ignore", "reset", "set", "set2", "identify", "identifyMouse", "named",
              "final1", "final2"}

ReceiveWhats == {"selftest", "byte1", "byte2", "type"}

\* The steps of the scripts that talk to the devices.
Talk == [op : {"send"}, dev : 1 .. 2, byte : Byte, what : SendWhats]
          \cup [op : {"receive"}, dev : {0}, byte : {0}, what : ReceiveWhats]

Names == {"controller", "silence", "keyboard", "mouse", "scan1", "scan2", "done"}

\* The commands and answers of the devices are bytes.
LEMMA NumbersOfBytes ==
    /\ RESET = 255 /\ DISABLE_SCANNING = 245 /\ ENABLE_SCANNING = 244 /\ IDENTIFY = 242
    /\ SET_SCANCODE_SET = 240 /\ SET_RATE = 243 /\ SET_LED = 237 /\ SET_RESOLUTION = 232
    /\ LED_NUMLOCK = 2 /\ ACK = 250 /\ RESEND = 254 /\ SELFTEST_PASSED = 170 /\ UNKNOWN = 255
BY DEF RESET, DISABLE_SCANNING, ENABLE_SCANNING, IDENTIFY, SET_SCANCODE_SET, SET_RATE, SET_LED,
       SET_RESOLUTION, LED_NUMLOCK, ACK, RESEND, SELFTEST_PASSED, UNKNOWN

\* What the scripts of the devices consist of.
LEMMA SendTalks ==
    ASSUME NEW d \in 1 .. 2, NEW b \in Byte, NEW w \in SendWhats
    PROVE  Send(d, b, w) \in Talk
BY DEF Send, Talk

\* A step that receives a byte is a step of a device's script.
LEMMA ReceiveTalks ==
    ASSUME NEW w \in ReceiveWhats
    PROVE  Op("receive", w) \in Talk
BY DEF Op, Talk

\* What the scripts send, and to whom.
LEMMA ScriptBytes ==
    /\ RESET \in Byte /\ DISABLE_SCANNING \in Byte /\ ENABLE_SCANNING \in Byte /\ IDENTIFY \in Byte
    /\ SET_SCANCODE_SET \in Byte /\ SET_RATE \in Byte /\ SET_LED \in Byte /\ SET_RESOLUTION \in Byte
    /\ LED_NUMLOCK \in Byte /\ 2 \in Byte /\ 3 \in Byte /\ \h16 \in Byte
    /\ 40 \in Byte /\ 80 \in Byte /\ 100 \in Byte /\ 200 \in Byte
    /\ 1 \in 1 .. 2 /\ 2 \in 1 .. 2
BY NumbersOfBytes DEF Byte

\* What the scripts do with the answers.
LEMMA ScriptWhats ==
    /\ "ignore" \in SendWhats /\ "reset" \in SendWhats /\ "set" \in SendWhats /\ "set2" \in SendWhats
    /\ "identify" \in SendWhats /\ "identifyMouse" \in SendWhats /\ "named" \in SendWhats
    /\ "final1" \in SendWhats /\ "final2" \in SendWhats
    /\ "selftest" \in ReceiveWhats /\ "byte1" \in ReceiveWhats /\ "byte2" \in ReceiveWhats
    /\ "type" \in ReceiveWhats
BY DEF SendWhats, ReceiveWhats

TalkOf(s, n) == s \in Seq(Talk) /\ Len(s) = n

\* Two steps make a script.
LEMMA TwoSteps ==
    ASSUME NEW x \in Talk, NEW y \in Talk
    PROVE  TalkOf(<<x, y>>, 2)
BY DEF TalkOf

\* Scripts put one behind the other make a script.
LEMMA Joined ==
    ASSUME NEW s, NEW t, NEW n \in Nat, NEW m \in Nat, NEW k, k = n + m,
           TalkOf(s, n), TalkOf(t, m)
    PROVE  TalkOf(s \o t, k)
<1>1. ASSUME NEW S, s \in Seq(S), t \in Seq(S)
      PROVE  s \o t \in Seq(S) /\ Len(s \o t) = Len(s) + Len(t)
  BY <1>1
<1> QED BY <1>1, Zenon DEF TalkOf

\* PS2_initKeyboard sends and receives in 12 steps, PS2_initMouse in 24.
LEMMA DeviceScripts == TalkOf(InitKeyboard, 12) /\ TalkOf(InitMouse, 24)
<1>1. TalkOf(resetDevice, 2)
  <2>1. Send(1, RESET, "reset") \in Talk
    BY ScriptBytes, ScriptWhats, SendTalks, Zenon
  <2>2. Op("receive", "selftest") \in Talk
    BY ScriptWhats, ReceiveTalks, Zenon
  <2> QED BY <2>1, <2>2, TwoSteps, Zenon DEF resetDevice
<1>2. TalkOf(getMouseType, 2)
  <2>1. Send(2, IDENTIFY, "identifyMouse") \in Talk
    BY ScriptBytes, ScriptWhats, SendTalks, Zenon
  <2>2. Op("receive", "type") \in Talk
    BY ScriptWhats, ReceiveTalks, Zenon
  <2> QED BY <2>1, <2>2, TwoSteps, Zenon DEF getMouseType
<1>3. ASSUME NEW r \in Byte
      PROVE  TalkOf(SampleRate(r), 2)
  <2>1. Send(2, SET_RATE, "ignore") \in Talk
    BY ScriptBytes, ScriptWhats, SendTalks, Zenon
  <2>2. Send(2, r, "ignore") \in Talk
    BY ScriptBytes, ScriptWhats, SendTalks, Zenon
  <2> QED BY <2>1, <2>2, TwoSteps, Zenon DEF SampleRate
<1>4. ASSUME NEW a \in Byte, NEW b \in Byte, NEW c \in Byte
      PROVE  TalkOf(SampleRates(a, b, c), 6)
  <2>1. TalkOf(SampleRate(a), 2) /\ TalkOf(SampleRate(b), 2) /\ TalkOf(SampleRate(c), 2)
    BY <1>3, Zenon
  <2>2. TalkOf(SampleRate(a) \o SampleRate(b), 4)
    BY <2>1, Joined
  <2>3. TalkOf((SampleRate(a) \o SampleRate(b)) \o SampleRate(c), 6)
    BY <2>1, <2>2, Joined
  <2> QED BY <2>3, Zenon DEF SampleRates
<1>5. TalkOf(Settings, 4)
  <2>1. Send(2, SET_RESOLUTION, "ignore") \in Talk
    BY ScriptBytes, ScriptWhats, SendTalks, Zenon
  <2>2. Send(2, 3, "named") \in Talk
    BY ScriptBytes, ScriptWhats, SendTalks, Zenon
  <2>3. TalkOf(<< Send(2, SET_RESOLUTION, "ignore"), Send(2, 3, "named") >>, 2)
    BY <2>1, <2>2, TwoSteps, Zenon
  <2>4. TalkOf(SampleRate(40), 2)
    BY <1>3, ScriptBytes, Zenon
  <2> QED BY <2>3, <2>4, Joined DEF Settings
<1>6. TalkOf(InitMouse, 24)
  <2> DEFINE a == resetDevice \o getMouseType
             b == a \o SampleRates(200, 100, 80)
             c == b \o getMouseType
             d == c \o SampleRates(200, 200, 80)
             e == d \o getMouseType
  <2>0. TalkOf(SampleRates(200, 100, 80), 6) /\ TalkOf(SampleRates(200, 200, 80), 6)
    <3>1. TalkOf(SampleRates(200, 100, 80), 6)
      BY <1>4, ScriptBytes, ZenonT(60)
    <3>2. TalkOf(SampleRates(200, 200, 80), 6)
      BY <1>4, ScriptBytes, ZenonT(60)
    <3> QED BY <3>1, <3>2
  <2>1. TalkOf(a, 4)
    BY <1>1, <1>2, Joined
  <2>2. TalkOf(b, 10)
    <3> HIDE DEF a
    <3> QED BY <2>0, <2>1, Joined
  <2>3. TalkOf(c, 12)
    <3> HIDE DEF b
    <3> QED BY <1>2, <2>2, Joined
  <2>4. TalkOf(d, 18)
    <3> HIDE DEF c
    <3> QED BY <2>0, <2>3, Joined
  <2>5. TalkOf(e, 20)
    <3> HIDE DEF d
    <3> QED BY <1>2, <2>4, Joined
  <2>6. InitMouse = e \o Settings
    BY DEF InitMouse
  <2> HIDE DEF e
  <2> QED BY <1>5, <2>5, <2>6, Joined
<1>7. TalkOf(InitKeyboard, 12)
  <2> DEFINE rest ==
        << Send(1, DISABLE_SCANNING, "ignore"),
           Send(1, SET_SCANCODE_SET, "set"), Send(1, 2, "set2"),
           Send(1, IDENTIFY, "identify"), Op("receive", "byte1"), Op("receive", "byte2"),
           Send(1, SET_RATE, "ignore"), Send(1, \h16, "ignore"),
           Send(1, SET_LED, "ignore"), Send(1, LED_NUMLOCK, "ignore") >>
  <2>1. /\ Send(1, DISABLE_SCANNING, "ignore") \in Talk /\ Send(1, SET_SCANCODE_SET, "set") \in Talk
        /\ Send(1, 2, "set2") \in Talk /\ Send(1, IDENTIFY, "identify") \in Talk
    BY ScriptBytes, ScriptWhats, SendTalks, Zenon
  <2>2. /\ Send(1, SET_RATE, "ignore") \in Talk /\ Send(1, \h16, "ignore") \in Talk
        /\ Send(1, SET_LED, "ignore") \in Talk /\ Send(1, LED_NUMLOCK, "ignore") \in Talk
    BY ScriptBytes, ScriptWhats, SendTalks, Zenon
  <2>3. Op("receive", "byte1") \in Talk /\ Op("receive", "byte2") \in Talk
    BY ScriptWhats, ReceiveTalks, Zenon
  <2>4. TalkOf(rest, 10)
    BY <2>1, <2>2, <2>3 DEF TalkOf
  <2>5. InitKeyboard = resetDevice \o rest
    BY Zenon DEF InitKeyboard
  <2> HIDE DEF rest
  <2> QED BY <1>1, <2>4, <2>5, Joined
<1> QED BY <1>6, <1>7

\* The script of the controller, step by step.
LEMMA ControllerScript ==
    /\ Len(Controller) = 14 /\ DOMAIN Controller = 1 .. 14
    /\ Controller[1] = Op("command", "disable") /\ Controller[2] = Op("flush", "buffer")
    /\ Controller[3] = Op("command", "readConfig") /\ Controller[4] = Op("poll", "config")
    /\ Controller[5] = Op("flush", "buffer") /\ Controller[6] = Op("command", "enable2")
    /\ Controller[7] = Op("poll", "port2") /\ Controller[8] = Op("flush", "buffer")
    /\ Controller[9] = Op("command", "test1") /\ Controller[10] = Op("poll", "test1")
    /\ Controller[11] = Op("command", "test2") /\ Controller[12] = Op("poll", "test2")
    /\ Controller[13] = Op("command", "enable") /\ Controller[14] = Op("poll", "configByte")
<1> DEFINE a == << Op("command", "disable"), Op("flush", "buffer") >>
           S == {a[1], a[2]} \cup {FindPorts[i] : i \in 1 .. 12}
<1>1. /\ FindPorts[1] = Op("command", "readConfig") /\ FindPorts[2] = Op("poll", "config")
      /\ FindPorts[3] = Op("flush", "buffer") /\ FindPorts[4] = Op("command", "enable2")
      /\ FindPorts[5] = Op("poll", "port2") /\ FindPorts[6] = Op("flush", "buffer")
      /\ FindPorts[7] = Op("command", "test1") /\ FindPorts[8] = Op("poll", "test1")
      /\ FindPorts[9] = Op("command", "test2") /\ FindPorts[10] = Op("poll", "test2")
      /\ FindPorts[11] = Op("command", "enable") /\ FindPorts[12] = Op("poll", "configByte")
      /\ Len(FindPorts) = 12
  BY DEF FindPorts
<1>2. FindPorts \in Seq(S) /\ a \in Seq(S)
  <2>1. \A i \in 1 .. 12 : FindPorts[i] \in S
    OBVIOUS
  <2>2. a \in Seq(S)
    OBVIOUS
  <2>3. DOMAIN FindPorts = 1 .. 12 /\ FindPorts = [i \in 1 .. 12 |-> FindPorts[i]]
    BY DEF FindPorts
  <2> HIDE DEF S, a
  <2>4. FindPorts \in Seq(S)
    BY <2>1, <2>3, IsASeq
  <2> QED BY <2>2, <2>4
<1>3. a[1] = Op("command", "disable") /\ a[2] = Op("flush", "buffer") /\ Len(a) = 2
  OBVIOUS
<1> HIDE DEF a, S
<1>4. /\ Len(a \o FindPorts) = 14
      /\ \A i \in 1 .. 14 : (a \o FindPorts)[i] = IF i <= 2 THEN a[i] ELSE FindPorts[i - 2]
  <2>1. /\ Len(a \o FindPorts) = Len(a) + Len(FindPorts)
        /\ \A i \in 1 .. Len(a) + Len(FindPorts) :
             (a \o FindPorts)[i] = IF i <= Len(a) THEN a[i] ELSE FindPorts[i - Len(a)]
    BY <1>2, ConcatProperties, Zenon
  <2> QED BY <1>1, <1>3, <2>1, SMTT(90)
<1>5. Controller = a \o FindPorts
  BY DEF Controller, a
<1>6. Len(Controller) = 14 /\ DOMAIN Controller = 1 .. 14
  <2>1. Controller \in Seq(S)
    BY <1>2, <1>5, ConcatProperties, Zenon
  <2>2. Len(Controller) = 14
    BY <1>4, <1>5, Zenon
  <2> QED BY <2>1, <2>2, LenProperties
<1>7. ASSUME NEW i \in 1 .. 12
      PROVE  Controller[i + 2] = FindPorts[i]
  <2>1. \A j \in 1 .. 14 : Controller[j] = IF j <= 2 THEN a[j] ELSE FindPorts[j - 2]
    BY <1>4, <1>5, Zenon
  <2>2. i + 2 \in 1 .. 14 /\ ~(i + 2 <= 2) /\ (i + 2) - 2 = i
    OBVIOUS
  <2> QED BY <2>1, <2>2, Zenon
<1>8. /\ Controller[3] = FindPorts[1] /\ Controller[4] = FindPorts[2] /\ Controller[5] = FindPorts[3]
      /\ Controller[6] = FindPorts[4] /\ Controller[7] = FindPorts[5] /\ Controller[8] = FindPorts[6]
      /\ Controller[9] = FindPorts[7] /\ Controller[10] = FindPorts[8]
      /\ Controller[11] = FindPorts[9] /\ Controller[12] = FindPorts[10]
      /\ Controller[13] = FindPorts[11] /\ Controller[14] = FindPorts[12]
  <2> HIDE DEF FindPorts, Controller
  <2> QED BY <1>7
<1>9. Controller[1] = a[1] /\ Controller[2] = a[2]
  BY <1>4, <1>5, SMTT(90)
<1> QED BY <1>1, <1>3, <1>6, <1>8, <1>9, Zenon

\* The steps of i8042_disableScanning and i8042_enableDevicesIRQs, one by one.
LEMMA SilenceScript ==
    /\ Len(Silence) = 4 /\ DOMAIN Silence = 1 .. 4
    /\ Silence[1] = Op("command", "silence1") /\ Silence[2] = Op("command", "silence2")
    /\ Silence[3] = Op("flush", "devices") /\ Silence[4] = Op("command", "irqs")
BY DEF Silence

\* The two scripts of one step.
LEMMA ScanScripts ==
    /\ TalkOf(Scripts["scan1"], 1) /\ TalkOf(Scripts["scan2"], 1)
    /\ Scripts["scan1"][1] = Send(1, ENABLE_SCANNING, "final1")
    /\ Scripts["scan2"][1] = Send(2, ENABLE_SCANNING, "final2")
<1>1. Send(1, ENABLE_SCANNING, "final1") \in Talk /\ Send(2, ENABLE_SCANNING, "final2") \in Talk
  BY ScriptBytes, ScriptWhats, SendTalks, Zenon
<1>2. ASSUME NEW x \in Talk
      PROVE  TalkOf(<<x>>, 1) /\ <<x>>[1] = x
  BY DEF TalkOf
<1> QED BY <1>1, <1>2 DEF Scripts

\* The scripts by name.
LEMMA ScriptNames ==
    /\ DOMAIN Scripts = Names
    /\ Scripts["controller"] = Controller /\ Scripts["silence"] = Silence
    /\ Scripts["keyboard"] = InitKeyboard /\ Scripts["mouse"] = InitMouse
    /\ Scripts["done"] = <<>>
BY DEF Scripts, Names

\* The order of the scripts: one that follows is a later one, and runs.
LEMMA OrderOfScripts ==
    /\ DOMAIN Order = 1 .. 7
    /\ Index("controller") = 1 /\ Index("silence") = 2 /\ Index("keyboard") = 3
    /\ Index("mouse") = 4 /\ Index("scan1") = 5 /\ Index("scan2") = 6 /\ Index("done") = 7
<1>1. DOMAIN Order = 1 .. 7
  BY DEF Order
<1>2. /\ Order[1] = "controller" /\ Order[2] = "silence" /\ Order[3] = "keyboard"
      /\ Order[4] = "mouse" /\ Order[5] = "scan1" /\ Order[6] = "scan2" /\ Order[7] = "done"
  BY DEF Order
<1>3. ASSUME NEW i \in 1 .. 7, NEW j \in 1 .. 7, Order[i] = Order[j]
      PROVE  i = j
  BY <1>2, <1>3
<1>4. ASSUME NEW i \in 1 .. 7
      PROVE  Index(Order[i]) = i
  <2>1. Index(Order[i]) \in 1 .. 7 /\ Order[Index(Order[i])] = Order[i]
    BY <1>1 DEF Index
  <2> QED BY <1>3, <2>1
<1> QED BY <1>1, <1>2, <1>4

\* The script that follows another is a later one that has something to do.
LEMMA FollowingLater ==
    ASSUME NEW d, script \in Names \ {"done"}
    PROVE  /\ Following(d) \in Names \ {"controller"}
           /\ Index(Following(d)) > Index(script)
           /\ Runs(d, Following(d))
           /\ \A i \in 1 .. 7 : Index(script) < i /\ i < Index(Following(d)) => ~Runs(d, Order[i])
<1> DEFINE later == {i \in DOMAIN Order : i > Index(script) /\ Runs(d, Order[i])}
           first == CHOOSE i \in later : \A j \in later : i <= j
<1>1. Index(script) \in 1 .. 6
  BY OrderOfScripts DEF Names
<1>2. later \subseteq 1 .. 7 /\ 7 \in later
  <2>1. Order[7] = "done" /\ Runs(d, "done")
    BY DEF Order, Runs
  <2> QED BY <1>1, <2>1, OrderOfScripts
<1>3. ASSUME NEW S, S \subseteq 1 .. 7, 7 \in S
      PROVE  \E i \in S : \A j \in S : i <= j
  BY <1>3
<1>4. first \in later /\ \A j \in later : first <= j
  <2>1. \E i \in later : \A j \in later : i <= j
    <3> HIDE DEF later
    <3> QED BY <1>2, <1>3
  <2> HIDE DEF later
  <2> QED BY <2>1, Zenon
<1>5. Following(d) = Order[first]
  BY DEF Following
<1> HIDE DEF first
<1>6. first \in 1 .. 7 /\ first > Index(script) /\ Runs(d, Order[first])
  BY <1>2, <1>4
<1>7. /\ Order[2] = "silence" /\ Order[3] = "keyboard" /\ Order[4] = "mouse"
      /\ Order[5] = "scan1" /\ Order[6] = "scan2" /\ Order[7] = "done"
  BY DEF Order
<1>8. Index(Following(d)) = first /\ Following(d) \in Names \ {"controller"}
  BY <1>1, <1>5, <1>6, <1>7, OrderOfScripts DEF Names
<1>9. \A i \in 1 .. 7 : Index(script) < i /\ i < first => ~Runs(d, Order[i])
  BY <1>1, <1>4, <1>6, OrderOfScripts
<1> QED BY <1>5, <1>6, <1>8, <1>9

-----------------------------------------------------------------------------
(***************************************************************************)
(* The types of the variables.                                             *)
(***************************************************************************)
Handlers == {"none", "initIRQ", "keyboardIRQ", "mouseIRQ"}

DrvType ==
    [enabled : BOOLEAN, valid : [1 .. 2 -> BOOLEAN], translation : BOOLEAN, configByte : Byte,
     buff : Byte, response : Seq(Byte), handler : [1 .. 2 -> Handlers],
     keyboard : [enabled : BOOLEAN, set : 0 .. 2, LEDs : Byte],
     mouse : [enabled : BOOLEAN, type : Byte, packetSize : {0, 3, 4}], packet : Seq(Byte)]

\* All the fields of the driver's variables but the handlers.
SameButHandlers(d, e) ==
    /\ d.enabled = e.enabled /\ d.valid = e.valid /\ d.translation = e.translation
    /\ d.configByte = e.configByte /\ d.buff = e.buff /\ d.response = e.response
    /\ d.keyboard = e.keyboard /\ d.mouse = e.mouse /\ d.packet = e.packet

DeviceType ==
    [expects : Byte, scanning : BOOLEAN, leds : Byte, rates : [1 .. 3 -> Byte], type : {0, 3, 4}]

Position ==
    /\ script \in Names
    /\ script # "done" => step \in 1 .. Len(Scripts[script])
    /\ tries \in 0 .. RETRIES
    /\ waiting \in BOOLEAN
    /\ ~waiting => tries < RETRIES

Drv == drv \in DrvType /\ Len(drv.response) <= RESPONSE_BUFFER_SIZE /\ Len(drv.packet) <= 3

Wires ==
    /\ conf \in Byte
    /\ line \in [0 .. 2 -> Seq(Byte)]
    /\ obuf \in Seq([dev : 0 .. 2, byte : Byte]) /\ Len(obuf) <= 1

Types ==
    /\ machine \in MachineType
    /\ device \in [1 .. 2 -> DeviceType]
    /\ Position /\ Drv /\ Wires

\* The lengths of the scripts.
LEMMA ScriptLengths ==
    ASSUME NEW s \in Names
    PROVE  /\ Len(Scripts[s]) \in Nat
           /\ DOMAIN Scripts[s] = 1 .. Len(Scripts[s])
           /\ s # "done" => 1 \in 1 .. Len(Scripts[s])
<1>1. ASSUME NEW q, NEW n \in Nat \ {0}, TalkOf(q, n)
      PROVE  Len(q) \in Nat /\ DOMAIN q = 1 .. Len(q) /\ 1 \in 1 .. Len(q)
  BY <1>1 DEF TalkOf
<1>2. CASE s \in {"keyboard", "mouse", "scan1", "scan2"}
  <2>1. \E n \in Nat \ {0} : TalkOf(Scripts[s], n)
    <3>1. 1 \in Nat \ {0} /\ 12 \in Nat \ {0} /\ 24 \in Nat \ {0}
      OBVIOUS
    <3> QED BY <1>2, <3>1, DeviceScripts, ScanScripts, ScriptNames
  <2> QED BY <1>1, <2>1
<1>3. CASE s = "controller"
  <2>1. Scripts[s] = Controller /\ Len(Controller) = 14 /\ DOMAIN Controller = 1 .. 14
    BY <1>3, ScriptNames, ControllerScript, Zenon
  <2> QED BY <2>1
<1>4. CASE s = "silence"
  <2>1. Scripts[s] = Silence /\ Len(Silence) = 4 /\ DOMAIN Silence = 1 .. 4
    BY <1>4, ScriptNames, SilenceScript, Zenon
  <2> QED BY <2>1
<1>5. CASE s = "done"
  <2>1. Scripts[s] = <<>>
    BY <1>5, ScriptNames, Zenon
  <2> QED BY <1>5, <2>1
<1> QED BY <1>2, <1>3, <1>4, <1>5, Zenon DEF Names

\* Where the thread goes on, whatever it did at its step.
LEMMA AdvanceTypes ==
    ASSUME Position, script # "done", NEW d \in DrvType, NEW n \in 0 .. 3, Advance(d, n)
    PROVE  /\ drv' \in DrvType /\ SameButHandlers(drv', d)
           /\ \A x \in 1 .. 2 : drv'.handler[x] \in {d.handler[x], "none"}
           /\ Position' /\ tries' = 0 /\ waiting' = FALSE
           /\ \/ n # 0 /\ script' = script /\ step' = step + n
              \/ /\ n = 0 \/ step + n > Len(Scripts[script])
                 /\ script' = Following(d) /\ script' # "controller" /\ step' = 1
<1> DEFINE lost(x) == /\ Index(script') > Index(<<"scan1", "scan2">>[x])
                      /\ d.handler[x] = "initIRQ"
           here == n # 0 /\ step + n <= Len(Scripts[script])
<1>1. /\ script' = IF here THEN script ELSE Following(d)
      /\ step' = IF here THEN step + n ELSE 1
      /\ tries' = 0 /\ waiting' = FALSE
  BY DEF Advance
<1>0. drv' = [d EXCEPT !.handler = [x \in 1 .. 2 |-> IF lost(x) THEN "none" ELSE @[x]]]
  BY DEF Advance
<1> HIDE DEF lost
<1>a. tries' \in 0 .. 3 /\ waiting' \in BOOLEAN /\ (~waiting' => tries' < 3)
  <2>1. 0 \in 0 .. 3 /\ 0 < 3
    OBVIOUS
  <2> QED BY <1>1, <2>1, Zenon
<1>2. drv' \in DrvType
  BY <1>0, Zenon DEF DrvType, Handlers
<1>3. SameButHandlers(drv', d) /\ \A x \in 1 .. 2 : drv'.handler[x] \in {d.handler[x], "none"}
  BY <1>0 DEF DrvType, SameButHandlers
<1>4. script \in Names \ {"done"} /\ step \in 1 .. Len(Scripts[script])
  BY DEF Position
<1>5. Following(d) \in Names \ {"controller"}
  BY <1>4, FollowingLater
<1>6. CASE here
  <2>1. step + n \in 1 .. Len(Scripts[script])
    BY <1>4, <1>6, ScriptLengths
  <2>2. script' = script /\ step' = step + n /\ n # 0
    BY <1>1, <1>6
  <2>3. Position'
    <3>1. script' \in Names /\ step' \in 1 .. Len(Scripts[script'])
      BY <1>4, <2>1, <2>2, Zenon
    <3> QED BY <1>a, <3>1, Zenon DEF Position, RETRIES
  <2> QED BY <1>1, <1>2, <1>3, <2>2, <2>3
<1>7. CASE ~here
  <2>1. Following(d) # "done" => 1 \in 1 .. Len(Scripts[Following(d)])
    BY <1>5, ScriptLengths
  <2>2. n = 0 \/ step + n > Len(Scripts[script])
    BY <1>4, <1>7, ScriptLengths
  <2>3. script' = Following(d) /\ step' = 1
    BY <1>1, <1>7
  <2>4. Position'
    <3>1. script' \in Names /\ (script' # "done" => step' \in 1 .. Len(Scripts[script']))
      BY <1>5, <2>1, <2>3, Zenon
    <3> QED BY <1>a, <3>1, Zenon DEF Position, RETRIES
  <2> QED BY <1>1, <1>2, <1>3, <1>5, <2>2, <2>3, <2>4
<1> HIDE DEF here
<1> QED BY <1>6, <1>7, Zenon

\* What the step of the thread can be.
LEMMA StepKinds ==
    ASSUME Position, script # "done"
    PROVE  \/ script = "controller" /\ step \in 1 .. 14 /\ This = Controller[step]
           \/ script = "silence" /\ step \in 1 .. 4 /\ This = Silence[step]
           \/ script \in {"keyboard", "mouse", "scan1", "scan2"} /\ This \in Talk
<1>1. script \in Names \ {"done"} /\ step \in 1 .. Len(Scripts[script])
  BY DEF Position
<1>2. CASE script = "controller"
  BY <1>1, <1>2, ScriptNames, ControllerScript DEF This
<1>3. CASE script = "silence"
  BY <1>1, <1>3, ScriptNames, SilenceScript DEF This
<1>4. CASE script \in {"keyboard", "mouse", "scan1", "scan2"}
  <2>1. \E n \in Nat : TalkOf(Scripts[script], n)
    <3>1. 1 \in Nat /\ 12 \in Nat /\ 24 \in Nat
      OBVIOUS
    <3> QED BY <1>4, <3>1, DeviceScripts, ScanScripts, ScriptNames
  <2>2. ASSUME NEW q, NEW n, TalkOf(q, n), NEW i \in 1 .. Len(q)
        PROVE  q[i] \in Talk
    BY <2>2 DEF TalkOf
  <2>3. This \in Talk
    BY <1>1, <2>1, <2>2, Zenon DEF This
  <2> QED BY <1>4, <2>3
<1> QED BY <1>1, <1>2, <1>3, <1>4 DEF Names

\* The kinds of the steps of each script.
LEMMA TalkKinds ==
    ASSUME NEW t \in Talk
    PROVE  \/ t.op = "send" /\ t.dev \in 1 .. 2 /\ t.byte \in Byte /\ t.what \in SendWhats
           \/ t.op = "receive" /\ t.what \in ReceiveWhats
BY DEF Talk

-----------------------------------------------------------------------------
\* The configuration byte stays a byte, and a controller with one port has the
\* second one off.
LEMMA ConfigByte ==
    ASSUME NEW b \in Byte
    PROVE  /\ Config(b) \in Byte
           /\ machine.port2 => Config(b) = b
           /\ ~machine.port2 => Bit(Config(b), 32)
           /\ \A m \in Masks \ {32} : Bit(Config(b), m) <=> Bit(b, m)
<1>1. 32 \in Masks
  BY DEF Masks
<1>2. CASE machine.port2
  BY <1>2 DEF Config
<1>3. CASE ~machine.port2
  <2>1. Config(b) = SetBit(b, 32)
    BY <1>3, MasksDistinct DEF Config
  <2>2. SetBit(b, 32) \in Byte /\ Bit(SetBit(b, 32), 32)
    BY <1>1, SetBitByte
  <2>3. \A m \in Masks \ {32} : Bit(SetBit(b, 32), m) <=> Bit(b, m)
    BY <1>1, OtherBits
  <2> QED BY <1>3, <2>1, <2>2, <2>3
<1> QED BY <1>2, <1>3

\* After any command to the controller its configuration is a byte.
LEMMA CommandedByte ==
    ASSUME conf \in Byte, NEW what
    PROVE  Commanded(what) \in Byte
<1>1. 16 \in Masks /\ 32 \in Masks
  BY DEF Masks
<1>2. SetBit(SetBit(conf, 16), 32) \in Byte /\ ClearBit(conf, 32) \in Byte
  BY <1>1, SetBitByte, ClearBitByte
<1>3. ASSUME NEW b \in Byte
      PROVE  On(b, 1) \in Byte /\ On(b, 2) \in Byte
  BY <1>1, ClearBitByte, MasksDistinct DEF On
<1>4. On(On(conf, 1), 2) \in Byte
  BY <1>3
<1>5. /\ Config(SetBit(SetBit(conf, 16), 32)) \in Byte /\ Config(ClearBit(conf, 32)) \in Byte
      /\ Config(On(On(conf, 1), 2)) \in Byte
  BY <1>2, <1>4, ConfigByte
<1> QED BY <1>5, MasksDistinct DEF Commanded

\* What a device answers, and its state after it.
LEMMA ReactionTypes ==
    ASSUME machine \in MachineType, device \in [1 .. 2 -> DeviceType], conf \in Byte,
           NEW d \in 1 .. 2, NEW byte \in Byte
    PROVE  Reaction(d, byte).bytes \in Seq(Byte) /\ Reaction(d, byte).v \in DeviceType
<1> DEFINE v == device[d]
           rates == <<v.rates[2], v.rates[3], byte>>
<1>1. v \in DeviceType /\ device[2].type \in {0, 3, 4}
  BY DEF DeviceType
<1>2. rates \in [1 .. 3 -> Byte]
  BY <1>1 DEF DeviceType
<1>3. TypeAfter(rates) \in {0, 3, 4}
  BY <1>1 DEF TypeAfter
<1>4. /\ <<ACK>> \in Seq(Byte) /\ <<RESEND>> \in Seq(Byte) /\ <<ACK, SELFTEST_PASSED>> \in Seq(Byte)
      /\ IdentityBytes(d) \in Seq(Byte)
  <2>1. ASSUME NEW x \in Byte, NEW y \in Byte
        PROVE  <<x>> \in Seq(Byte) /\ <<x, y>> \in Seq(Byte)
    OBVIOUS
  <2>2. /\ ACK \in Byte /\ RESEND \in Byte /\ SELFTEST_PASSED \in Byte /\ \hAB \in Byte
        /\ \h41 \in Byte /\ \h83 \in Byte /\ device[2].type \in Byte
    BY <1>1, NumbersOfBytes DEF Byte, ACK, RESEND, SELFTEST_PASSED
  <2> QED BY <2>1, <2>2, ZenonT(60) DEF IdentityBytes
<1>5. <<ACK>> \o IdentityBytes(d) \in Seq(Byte)
  BY <1>4, ConcatProperties
<1> HIDE DEF rates
<1>6. /\ \A b \in BOOLEAN : [v EXCEPT !.expects = 0, !.scanning = b, !.leds = 0] \in DeviceType
      /\ \A b \in BOOLEAN : [v EXCEPT !.expects = 0, !.scanning = b] \in DeviceType
      /\ \A b \in Byte : [v EXCEPT !.expects = b] \in DeviceType
      /\ \A b \in Byte : [v EXCEPT !.expects = 0, !.leds = b] \in DeviceType
      /\ [v EXCEPT !.expects = 0, !.rates = rates, !.type = TypeAfter(rates)] \in DeviceType
  <2>1. 0 \in Byte
    BY DEF Byte
  <2> QED BY <1>1, <1>2, <1>3, <2>1, Zenon DEF DeviceType
<1>7. 0 \in Byte /\ (d = 1) \in BOOLEAN
  BY DEF Byte
<1>8. ASSUME NEW b \in Seq(Byte), NEW w \in DeviceType, Reaction(d, byte) = [bytes |-> b, v |-> w]
      PROVE  Reaction(d, byte).bytes \in Seq(Byte) /\ Reaction(d, byte).v \in DeviceType
  BY <1>8
<1> HIDE DEF v
<1>9. CASE byte = RESET
  <2>1. /\ byte # DISABLE_SCANNING /\ byte # ENABLE_SCANNING /\ byte # IDENTIFY
        /\ byte \notin {SET_SCANCODE_SET, SET_RATE, SET_LED, SET_RESOLUTION} /\ ~(byte < SET_RESOLUTION)
    BY <1>9, NumbersOfBytes
  <2>2. [v EXCEPT !.expects = 0, !.scanning = (d = 1), !.leds = 0] \in DeviceType
    BY <1>6, <1>7, <1>9, Zenon
  <2>3. Reaction(d, byte) = [bytes |-> <<ACK, SELFTEST_PASSED>>, 
                            v |-> [v EXCEPT !.expects = 0, !.scanning = (d = 1), !.leds = 0]]
    BY <1>9, <2>1, Zenon DEF Reaction, v
  <2> QED BY <1>4, <1>8, <2>2, <2>3, Zenon
<1>10. CASE byte = DISABLE_SCANNING
  <2>1. /\ byte # RESET /\ byte # ENABLE_SCANNING /\ byte # IDENTIFY
        /\ byte \notin {SET_SCANCODE_SET, SET_RATE, SET_LED, SET_RESOLUTION} /\ ~(byte < SET_RESOLUTION)
    BY <1>10, NumbersOfBytes
  <2>2. [v EXCEPT !.expects = 0, !.scanning = FALSE] \in DeviceType
    BY <1>6, <1>7, <1>10, Zenon
  <2>3. Reaction(d, byte) = [bytes |-> <<ACK>>, v |-> [v EXCEPT !.expects = 0, !.scanning = FALSE]]
    BY <1>10, <2>1, Zenon DEF Reaction, v
  <2> QED BY <1>4, <1>8, <2>2, <2>3, Zenon
<1>11. CASE byte = ENABLE_SCANNING
  <2>1. /\ byte # RESET /\ byte # DISABLE_SCANNING /\ byte # IDENTIFY
        /\ byte \notin {SET_SCANCODE_SET, SET_RATE, SET_LED, SET_RESOLUTION} /\ ~(byte < SET_RESOLUTION)
    BY <1>11, NumbersOfBytes
  <2>2. [v EXCEPT !.expects = 0, !.scanning = TRUE] \in DeviceType
    BY <1>6, <1>7, <1>11, Zenon
  <2>3. Reaction(d, byte) = [bytes |-> <<ACK>>, v |-> [v EXCEPT !.expects = 0, !.scanning = TRUE]]
    BY <1>11, <2>1, Zenon DEF Reaction, v
  <2> QED BY <1>4, <1>8, <2>2, <2>3, Zenon
<1>12. CASE byte = IDENTIFY
  <2>1. /\ byte # RESET /\ byte # DISABLE_SCANNING /\ byte # ENABLE_SCANNING
        /\ byte \notin {SET_SCANCODE_SET, SET_RATE, SET_LED, SET_RESOLUTION} /\ ~(byte < SET_RESOLUTION)
    BY <1>12, NumbersOfBytes
  <2>2. [v EXCEPT !.expects = 0] \in DeviceType
    BY <1>6, <1>7, <1>12, Zenon
  <2>3. Reaction(d, byte) = [bytes |-> <<ACK>> \o IdentityBytes(d), v |-> [v EXCEPT !.expects = 0]]
    BY <1>12, <2>1, Zenon DEF Reaction, v
  <2> QED BY <1>5, <1>8, <2>2, <2>3, Zenon
<1>13. CASE byte \in {SET_SCANCODE_SET, SET_RATE, SET_LED, SET_RESOLUTION}
  <2>1. /\ byte # RESET /\ byte # DISABLE_SCANNING /\ byte # ENABLE_SCANNING
        /\ byte # IDENTIFY /\ ~(byte < SET_RESOLUTION)
    BY <1>13, NumbersOfBytes
  <2>2. [v EXCEPT !.expects = byte] \in DeviceType
    BY <1>6, <1>7, <1>13, Zenon
  <2>3. Reaction(d, byte) = [bytes |-> <<ACK>>, v |-> [v EXCEPT !.expects = byte]]
    BY <1>13, <2>1, Zenon DEF Reaction, v
  <2> QED BY <1>4, <1>8, <2>2, <2>3, Zenon
<1>14. CASE byte < SET_RESOLUTION /\ v.expects # 0
  <2>1. /\ byte # RESET /\ byte # DISABLE_SCANNING /\ byte # ENABLE_SCANNING /\ byte # IDENTIFY
        /\ byte \notin {SET_SCANCODE_SET, SET_RATE, SET_LED, SET_RESOLUTION}
    BY <1>14, NumbersOfBytes DEF Byte
  <2> DEFINE w == CASE v.expects = SET_LED -> [v EXCEPT !.expects = 0, !.leds = byte]
                    [] v.expects = SET_RATE /\ d = 2 ->
                         [v EXCEPT !.expects = 0, !.rates = rates, !.type = TypeAfter(rates)]
                    [] OTHER -> [v EXCEPT !.expects = 0]
  <2>2. w \in DeviceType
    <3>1. ~(v.expects = SET_LED /\ v.expects = SET_RATE)
      BY NumbersOfBytes
    <3>2. CASE v.expects = SET_LED
      BY <1>6, <1>7, <3>1, <3>2, Zenon
    <3>3. CASE v.expects = SET_RATE /\ d = 2
      BY <1>6, <1>7, <3>1, <3>3, Zenon
    <3>4. CASE v.expects # SET_LED /\ ~(v.expects = SET_RATE /\ d = 2)
      BY <1>6, <1>7, <3>4, Zenon
    <3> QED BY <3>2, <3>3, <3>4
  <2>3. Reaction(d, byte) = [bytes |-> <<ACK>>, v |-> w]
    BY <1>14, <2>1, Zenon DEF Reaction, v, rates
  <2> HIDE DEF w
  <2> QED BY <1>4, <1>8, <2>2, <2>3, Zenon
<1>15. CASE /\ byte \notin {RESET, DISABLE_SCANNING, ENABLE_SCANNING, IDENTIFY,
                            SET_SCANCODE_SET, SET_RATE, SET_LED, SET_RESOLUTION}
            /\ ~(byte < SET_RESOLUTION /\ v.expects # 0)
  <2>1. Reaction(d, byte) = [bytes |-> <<RESEND>>, v |-> v]
    BY <1>15, Zenon DEF Reaction, v
  <2> QED BY <1>1, <1>4, <1>8, <2>1, Zenon
<1> QED BY <1>9, <1>10, <1>11, <1>12, <1>13, <1>14, <1>15, Zenon

\* Bytes are queued behind those that are on the line.
LEMMA SendsTypes ==
    ASSUME line \in [0 .. 2 -> Seq(Byte)], NEW d \in 0 .. 2, NEW bytes \in Seq(Byte), Sends(d, bytes)
    PROVE  /\ line' \in [0 .. 2 -> Seq(Byte)]
           /\ line'[d] = line[d] \o bytes
           /\ \A e \in 0 .. 2 \ {d} : line'[e] = line[e]
<1>1. line[d] \o bytes \in Seq(Byte)
  <2>1. line[d] \in Seq(Byte)
    OBVIOUS
  <2> QED BY <2>1, ConcatProperties
<1> QED BY <1>1 DEF Sends

\* What a byte sent to a device changes.
LEMMA ToDeviceTypes ==
    ASSUME machine \in MachineType, device \in [1 .. 2 -> DeviceType], conf \in Byte,
           line \in [0 .. 2 -> Seq(Byte)],
           NEW d \in 1 .. 2, NEW byte \in Byte, ToDevice(d, byte)
    PROVE  /\ device' \in [1 .. 2 -> DeviceType]
           /\ line' \in [0 .. 2 -> Seq(Byte)]
           /\ \A e \in 0 .. 2 \ {d} : line'[e] = line[e]
<1>1. RESEND \in Byte /\ <<RESEND>> \in Seq(Byte)
  BY NumbersOfBytes DEF Byte
<1>2. ASSUME NEW bytes \in Seq(Byte), Sends(d, bytes)
      PROVE  /\ line' \in [0 .. 2 -> Seq(Byte)]
             /\ \A e \in 0 .. 2 \ {d} : line'[e] = line[e]
  <2>1. d \in 0 .. 2
    OBVIOUS
  <2> QED BY <1>2, <2>1, SendsTypes
<1>3. CASE UNCHANGED <<line, device>>
  BY <1>3
<1>4. CASE Sends(d, <<RESEND>>) /\ UNCHANGED device
  BY <1>1, <1>2, <1>4, Zenon
<1>5. CASE Sends(d, Reaction(d, byte).bytes) /\ device' = [device EXCEPT ![d] = Reaction(d, byte).v]
  <2>1. Reaction(d, byte).bytes \in Seq(Byte) /\ Reaction(d, byte).v \in DeviceType
    BY ReactionTypes
  <2>2. device' \in [1 .. 2 -> DeviceType]
    BY <1>5, <2>1
  <2> QED BY <1>2, <1>5, <2>1, <2>2
<1> QED BY <1>3, <1>4, <1>5, Zenon DEF ToDevice

-----------------------------------------------------------------------------
\* The fields of the driver's variables that are set when the controller is set up.
SameSetup(d, e) ==
    /\ d.enabled = e.enabled /\ d.valid = e.valid
    /\ d.translation = e.translation /\ d.configByte = e.configByte

GoodOutcome(o) ==
    /\ o.d \in DrvType /\ o.n \in 0 .. 2
    /\ SameSetup(o.d, drv) /\ o.d.packet = drv.packet

\* What the driver does with an answer.
LEMMA OutcomeTypes ==
    ASSUME drv \in DrvType, This \in Talk, NEW byte \in Byte, NEW ok \in BOOLEAN
    PROVE  GoodOutcome(Outcome(byte, ok))
<1> DEFINE go(d, n) == [d |-> d, n |-> n]
           typed(t) == [drv EXCEPT !.mouse.type = t]
           found == [drv EXCEPT !.keyboard.enabled = TRUE, !.keyboard.LEDs = LED_NUMLOCK]
<1>1. ASSUME NEW d \in DrvType, NEW n \in 0 .. 2, SameSetup(d, drv), d.packet = drv.packet
      PROVE  GoodOutcome(go(d, n))
  BY <1>1 DEF GoodOutcome, SameSetup
<1>2. \A n \in 0 .. 2 : GoodOutcome(go(drv, n))
  <2>1. SameSetup(drv, drv)
    BY DEF SameSetup
  <2> QED BY <1>1, <2>1, Zenon
<1>3. ASSUME NEW t \in Byte, NEW n \in 0 .. 2
      PROVE  GoodOutcome(go(typed(t), n))
  <2>1. typed(t) \in DrvType
    BY Zenon DEF DrvType
  <2>2. SameSetup(typed(t), drv) /\ typed(t).packet = drv.packet
    BY DEF SameSetup, DrvType
  <2> QED BY <1>1, <2>1, <2>2, Zenon
<1>4. ASSUME NEW n \in 0 .. 2
      PROVE  GoodOutcome(go(found, n))
  <2>0. LED_NUMLOCK \in Byte
    BY NumbersOfBytes DEF Byte
  <2>1. found \in DrvType
    BY <2>0, Zenon DEF DrvType
  <2>2. SameSetup(found, drv) /\ found.packet = drv.packet
    BY DEF SameSetup, DrvType
  <2> QED BY <1>1, <2>1, <2>2, Zenon
<1>5. ASSUME NEW n \in 0 .. 2
      PROVE  GoodOutcome(go([drv EXCEPT !.buff = byte], n))
  <2>1. [drv EXCEPT !.buff = byte] \in DrvType
    BY Zenon DEF DrvType
  <2>2. SameSetup([drv EXCEPT !.buff = byte], drv) /\ [drv EXCEPT !.buff = byte].packet = drv.packet
    BY DEF SameSetup, DrvType
  <2> QED BY <1>1, <2>1, <2>2, Zenon
<1>6. ASSUME NEW x \in 1 .. 2, NEW n \in 0 .. 2
      PROVE  GoodOutcome(go([drv EXCEPT !.keyboard.set = x], n))
  <2>0. x \in 0 .. 2
    OBVIOUS
  <2>1. [drv EXCEPT !.keyboard.set = x] \in DrvType
    BY <2>0, Zenon DEF DrvType
  <2>2. /\ SameSetup([drv EXCEPT !.keyboard.set = x], drv)
        /\ [drv EXCEPT !.keyboard.set = x].packet = drv.packet
    BY DEF SameSetup, DrvType
  <2> QED BY <1>1, <2>1, <2>2, Zenon
<1>7. ASSUME NEW x \in {3, 4}, NEW n \in 0 .. 2
      PROVE  GoodOutcome(go([drv EXCEPT !.mouse.enabled = TRUE, !.mouse.packetSize = x], n))
  <2>0. x \in {0, 3, 4}
    OBVIOUS
  <2>1. [drv EXCEPT !.mouse.enabled = TRUE, !.mouse.packetSize = x] \in DrvType
    BY <2>0, Zenon DEF DrvType
  <2>2. /\ SameSetup([drv EXCEPT !.mouse.enabled = TRUE, !.mouse.packetSize = x], drv)
        /\ [drv EXCEPT !.mouse.enabled = TRUE, !.mouse.packetSize = x].packet = drv.packet
    BY DEF SameSetup, DrvType
  <2> QED BY <1>1, <2>1, <2>2, Zenon
<1>8. ASSUME NEW x \in 1 .. 2, NEW h \in Handlers, NEW n \in 0 .. 2
      PROVE  GoodOutcome(go([drv EXCEPT !.handler[x] = h], n))
  <2>1. [drv EXCEPT !.handler[x] = h] \in DrvType
    BY Zenon DEF DrvType
  <2>2. SameSetup([drv EXCEPT !.handler[x] = h], drv) /\ [drv EXCEPT !.handler[x] = h].packet = drv.packet
    BY DEF SameSetup, DrvType
  <2> QED BY <1>1, <2>1, <2>2, Zenon
<1>9. /\ 0 \in 0 .. 2 /\ 1 \in 0 .. 2 /\ 2 \in 0 .. 2 /\ 1 \in 1 .. 2 /\ 2 \in 1 .. 2
      /\ UNKNOWN \in Byte /\ "keyboardIRQ" \in Handlers /\ "mouseIRQ" \in Handlers
  BY NumbersOfBytes DEF Byte, Handlers
<1> DEFINE o == Outcome(byte, ok)
<1>10. CASE This.what \in {"ignore", "reset", "selftest", "identify"}
  BY <1>2, <1>9, <1>10, Zenon DEF Outcome
<1>11. CASE This.what = "set"
  BY <1>5, <1>9, <1>11, Zenon DEF Outcome
<1>12. CASE This.what = "set2"
  BY <1>2, <1>6, <1>9, <1>12, Zenon DEF Outcome
<1>13. CASE This.what \in {"byte1", "byte2"}
  BY <1>2, <1>4, <1>5, <1>9, <1>13, Zenon DEF Outcome
<1>14. CASE This.what = "identifyMouse"
  BY <1>2, <1>3, <1>9, <1>14, Zenon DEF Outcome
<1>15. CASE This.what = "type"
  BY <1>3, <1>9, <1>15, Zenon DEF Outcome
<1>16. CASE This.what = "named"
  BY <1>2, <1>7, <1>9, <1>16, Zenon DEF Outcome
<1>17. CASE This.what \in {"final1", "final2"}
  BY <1>8, <1>9, <1>17, Zenon DEF Outcome
<1>18. This.what \in SendWhats \cup ReceiveWhats
  BY TalkKinds
<1> QED BY <1>10, <1>11, <1>12, <1>13, <1>14, <1>15, <1>16, <1>17, <1>18 DEF SendWhats, ReceiveWhats

Polls == {"config", "port2", "test1", "test2", "configByte"}

ConfigPolled(p, byte) ==
    /\ p.d.translation = Bit(byte, 64) /\ p.d.valid = drv.valid
    /\ p.d.configByte = drv.configByte /\ p.n = 1

Port2Polled(p, byte) ==
    /\ p.d.translation = drv.translation /\ p.d.configByte = drv.configByte
    /\ p.d.valid[1] = drv.valid[1] /\ p.d.valid[2] = ~Bit(byte, 32)
    /\ p.n = IF Bit(byte, 32) THEN 2 ELSE 1

Test1Polled(p, byte) ==
    /\ p.conf = conf /\ p.d.translation = drv.translation /\ p.d.configByte = drv.configByte
    /\ p.d.valid[1] = (byte = 0) /\ p.d.valid[2] = drv.valid[2]
    /\ p.n = IF drv.valid[2] THEN 1 ELSE 3

Test2Polled(p, byte) ==
    /\ p.conf = conf /\ p.d.translation = drv.translation /\ p.d.configByte = drv.configByte
    /\ p.d.valid[1] = drv.valid[1] /\ p.d.valid[2] = (byte = 0) /\ p.n = 1

ConfigBytePolled(p, byte) ==
    /\ p.conf = conf /\ p.d.translation = drv.translation /\ p.d.valid = drv.valid
    /\ p.d.configByte = byte /\ p.n = 1

\* What the driver makes of a byte it polled, step by step of the set-up.
LEMMA PolledCases ==
    ASSUME drv \in DrvType, conf \in Byte, NEW byte \in Byte, This.what \in Polls,
           NEW p, p = Polled(byte)
    PROVE  /\ p.d \in DrvType /\ p.conf \in Byte /\ p.n \in 1 .. 3
           /\ p.d.enabled = drv.enabled /\ p.d.handler = drv.handler
           /\ p.d.response = drv.response /\ p.d.packet = drv.packet
           /\ This.what = "config" => ConfigPolled(p, byte)
           /\ This.what = "port2" => Port2Polled(p, byte)
           /\ This.what = "test1" => Test1Polled(p, byte)
           /\ This.what = "test2" => Test2Polled(p, byte)
           /\ This.what = "configByte" => ConfigBytePolled(p, byte)
<1> DEFINE d == [drv EXCEPT !.buff = byte]
           quiet == ClearBit(ClearBit(ClearBit(byte, INTERRUPT[1]), INTERRUPT[2]), CLOCK[1])
           two == ClearBit(ClearBit(byte, INTERRUPT[2]), CLOCK[2])
<1>1. quiet \in Byte /\ two \in Byte
  <2>1. INTERRUPT[1] \in Masks /\ INTERRUPT[2] \in Masks /\ CLOCK[1] \in Masks /\ CLOCK[2] \in Masks
    BY MasksDistinct DEF Masks
  <2>2. ASSUME NEW b \in Byte, NEW m \in Masks
        PROVE  ClearBit(b, m) \in Byte
    BY ClearBitByte
  <2> QED BY <2>1, <2>2, Zenon
<1> HIDE DEF quiet, two
<1>2. 1 \in 1 .. 3 /\ 2 \in 1 .. 3 /\ 3 \in 1 .. 3 /\ 1 \in 1 .. 2 /\ 2 \in 1 .. 2 /\ 1 # 2
  OBVIOUS
<1>3. CLOCK[2] = 32 /\ TRANSLATION = 64
  BY MasksDistinct
<1>4. Bit(byte, TRANSLATION) \in BOOLEAN /\ (byte = 0) \in BOOLEAN
  BY DEF Bit
<1>5. CASE This.what = "config"
  <2> DEFINE e == [d EXCEPT !.translation = Bit(byte, TRANSLATION)]
  <2>1. p = [d |-> e, conf |-> quiet, n |-> 1]
    BY <1>5, Zenon DEF Polled, quiet, two
  <2>2. e \in DrvType
    BY <1>1, <1>4, Zenon DEF DrvType
  <2>3. /\ e.enabled = drv.enabled /\ e.handler = drv.handler
        /\ e.response = drv.response /\ e.packet = drv.packet
        /\ e.translation = Bit(byte, TRANSLATION) /\ e.valid = drv.valid /\ e.configByte = drv.configByte
    BY Zenon DEF DrvType
  <2> HIDE DEF e
  <2>4. p.d = e /\ p.conf = quiet /\ p.n = 1
    BY <2>1
  <2> QED BY <1>1, <1>2, <1>3, <1>5, <2>2, <2>3, <2>4, Zenon DEF ConfigPolled
<1>6. CASE This.what = "port2" /\ Bit(byte, CLOCK[2])
  <2> DEFINE e == [d EXCEPT !.valid[2] = FALSE]
  <2>1. p = [d |-> e, conf |-> conf, n |-> 2]
    BY <1>6, Zenon DEF Polled, quiet, two
  <2>2. e \in DrvType
    BY <1>1, <1>4, Zenon DEF DrvType
  <2>3. /\ e.enabled = drv.enabled /\ e.handler = drv.handler
        /\ e.response = drv.response /\ e.packet = drv.packet
        /\ e.translation = drv.translation /\ e.configByte = drv.configByte
        /\ e.valid[1] = drv.valid[1] /\ e.valid[2] = FALSE
    BY <1>2, Zenon DEF DrvType
  <2> HIDE DEF e
  <2>4. p.d = e /\ p.conf = conf /\ p.n = 2
    BY <2>1
  <2> QED BY <1>1, <1>2, <1>3, <1>6, <2>2, <2>3, <2>4, Zenon DEF Port2Polled
<1>7. CASE This.what = "port2" /\ ~Bit(byte, CLOCK[2])
  <2> DEFINE e == [d EXCEPT !.valid[2] = TRUE, !.buff = two]
  <2>1. p = [d |-> e, conf |-> two, n |-> 1]
    BY <1>7, Zenon DEF Polled, quiet, two
  <2>2. e \in DrvType
    BY <1>1, <1>4, Zenon DEF DrvType
  <2>3. /\ e.enabled = drv.enabled /\ e.handler = drv.handler
        /\ e.response = drv.response /\ e.packet = drv.packet
        /\ e.translation = drv.translation /\ e.configByte = drv.configByte
        /\ e.valid[1] = drv.valid[1] /\ e.valid[2] = TRUE
    BY <1>2, Zenon DEF DrvType
  <2> HIDE DEF e
  <2>4. p.d = e /\ p.conf = two /\ p.n = 1
    BY <2>1
  <2> QED BY <1>1, <1>2, <1>3, <1>7, <2>2, <2>3, <2>4, Zenon DEF Port2Polled
<1>8. CASE This.what = "test1"
  <2> DEFINE e == [d EXCEPT !.valid[1] = (byte = 0)]
  <2>1. p = [d |-> e, conf |-> conf, n |-> (IF drv.valid[2] THEN 1 ELSE 3)]
    BY <1>8, Zenon DEF Polled, quiet, two
  <2>2. e \in DrvType
    BY <1>1, <1>4, Zenon DEF DrvType
  <2>3. /\ e.enabled = drv.enabled /\ e.handler = drv.handler
        /\ e.response = drv.response /\ e.packet = drv.packet
        /\ e.translation = drv.translation /\ e.configByte = drv.configByte
        /\ e.valid[1] = (byte = 0) /\ e.valid[2] = drv.valid[2]
    BY <1>2, Zenon DEF DrvType
  <2> HIDE DEF e
  <2>4. p.d = e /\ p.conf = conf /\ p.n = (IF drv.valid[2] THEN 1 ELSE 3)
    BY <2>1
  <2> QED BY <1>1, <1>2, <1>3, <1>8, <2>2, <2>3, <2>4, Zenon DEF Test1Polled
<1>9. CASE This.what = "test2"
  <2> DEFINE e == [d EXCEPT !.valid[2] = (byte = 0)]
  <2>1. p = [d |-> e, conf |-> conf, n |-> 1]
    BY <1>9, Zenon DEF Polled, quiet, two
  <2>2. e \in DrvType
    BY <1>1, <1>4, Zenon DEF DrvType
  <2>3. /\ e.enabled = drv.enabled /\ e.handler = drv.handler
        /\ e.response = drv.response /\ e.packet = drv.packet
        /\ e.translation = drv.translation /\ e.configByte = drv.configByte
        /\ e.valid[1] = drv.valid[1] /\ e.valid[2] = (byte = 0)
    BY <1>2, Zenon DEF DrvType
  <2> HIDE DEF e
  <2>4. p.d = e /\ p.conf = conf /\ p.n = 1
    BY <2>1
  <2> QED BY <1>1, <1>2, <1>3, <1>9, <2>2, <2>3, <2>4, Zenon DEF Test2Polled
<1>10. CASE This.what = "configByte"
  <2> DEFINE e == [d EXCEPT !.configByte = byte]
  <2>1. p = [d |-> e, conf |-> conf, n |-> 1]
    BY <1>10, Zenon DEF Polled, quiet, two
  <2>2. e \in DrvType
    BY <1>1, <1>4, Zenon DEF DrvType
  <2>3. /\ e.enabled = drv.enabled /\ e.handler = drv.handler
        /\ e.response = drv.response /\ e.packet = drv.packet
        /\ e.translation = drv.translation /\ e.configByte = byte /\ e.valid = drv.valid
    BY Zenon DEF DrvType
  <2> HIDE DEF e
  <2>4. p.d = e /\ p.conf = conf /\ p.n = 1
    BY <2>1
  <2> QED BY <1>1, <1>2, <1>3, <1>10, <2>2, <2>3, <2>4, Zenon DEF ConfigBytePolled
<1> QED BY <1>5, <1>6, <1>7, <1>8, <1>9, <1>10, Zenon DEF Polls

\* Which steps of which scripts are commands, polls, flushes and talk to a device.
LEMMA StepsOfKinds ==
    ASSUME Position
    PROVE  /\ At("command") =>
                \/ script = "controller" /\ step = 1 /\ This.what = "disable"
                \/ script = "controller" /\ step = 3 /\ This.what = "readConfig"
                \/ script = "controller" /\ step = 6 /\ This.what = "enable2"
                \/ script = "controller" /\ step = 9 /\ This.what = "test1"
                \/ script = "controller" /\ step = 11 /\ This.what = "test2"
                \/ script = "controller" /\ step = 13 /\ This.what = "enable"
                \/ script = "silence" /\ step = 1 /\ This.what = "silence1"
                \/ script = "silence" /\ step = 2 /\ This.what = "silence2"
                \/ script = "silence" /\ step = 4 /\ This.what = "irqs"
           /\ At("poll") =>
                \/ script = "controller" /\ step = 4 /\ This.what = "config"
                \/ script = "controller" /\ step = 7 /\ This.what = "port2"
                \/ script = "controller" /\ step = 10 /\ This.what = "test1"
                \/ script = "controller" /\ step = 12 /\ This.what = "test2"
                \/ script = "controller" /\ step = 14 /\ This.what = "configByte"
           /\ At("flush") =>
                \/ script = "controller" /\ step \in {2, 5, 8}
                \/ script = "silence" /\ step = 3
           /\ At("send") \/ At("receive") =>
                This \in Talk /\ script \in {"keyboard", "mouse", "scan1", "scan2"}
<1>1. CASE script = "done"
  BY <1>1 DEF At
<1>2. CASE script = "controller" /\ step \in 1 .. 14 /\ This = Controller[step]
  <2>1. \/ step = 1 /\ This.op = "command" /\ This.what = "disable"
        \/ step = 2 /\ This.op = "flush"
        \/ step = 3 /\ This.op = "command" /\ This.what = "readConfig"
        \/ step = 4 /\ This.op = "poll" /\ This.what = "config"
        \/ step = 5 /\ This.op = "flush"
        \/ step = 6 /\ This.op = "command" /\ This.what = "enable2"
        \/ step = 7 /\ This.op = "poll" /\ This.what = "port2"
        \/ step = 8 /\ This.op = "flush"
        \/ step = 9 /\ This.op = "command" /\ This.what = "test1"
        \/ step = 10 /\ This.op = "poll" /\ This.what = "test1"
        \/ step = 11 /\ This.op = "command" /\ This.what = "test2"
        \/ step = 12 /\ This.op = "poll" /\ This.what = "test2"
        \/ step = 13 /\ This.op = "command" /\ This.what = "enable"
        \/ step = 14 /\ This.op = "poll" /\ This.what = "configByte"
    <3>1. step \in {1, 2, 3, 4, 5, 6, 7, 8, 9, 10, 11, 12, 13, 14}
      BY <1>2
    <3>2. /\ Controller[1].op = "command" /\ Controller[1].what = "disable"
          /\ Controller[2].op = "flush" /\ Controller[2].what = "buffer"
          /\ Controller[3].op = "command" /\ Controller[3].what = "readConfig"
          /\ Controller[4].op = "poll" /\ Controller[4].what = "config"
          /\ Controller[5].op = "flush" /\ Controller[5].what = "buffer"
          /\ Controller[6].op = "command" /\ Controller[6].what = "enable2"
          /\ Controller[7].op = "poll" /\ Controller[7].what = "port2"
          /\ Controller[8].op = "flush" /\ Controller[8].what = "buffer"
          /\ Controller[9].op = "command" /\ Controller[9].what = "test1"
          /\ Controller[10].op = "poll" /\ Controller[10].what = "test1"
          /\ Controller[11].op = "command" /\ Controller[11].what = "test2"
          /\ Controller[12].op = "poll" /\ Controller[12].what = "test2"
          /\ Controller[13].op = "command" /\ Controller[13].what = "enable"
          /\ Controller[14].op = "poll" /\ Controller[14].what = "configByte"
      BY ControllerScript DEF Op
    <3> QED BY <1>2, <3>1, <3>2
  <2> QED BY <1>2, <2>1 DEF At
<1>3. CASE script = "silence" /\ step \in 1 .. 4 /\ This = Silence[step]
  <2>1. \/ step = 1 /\ This.op = "command" /\ This.what = "silence1"
        \/ step = 2 /\ This.op = "command" /\ This.what = "silence2"
        \/ step = 3 /\ This.op = "flush"
        \/ step = 4 /\ This.op = "command" /\ This.what = "irqs"
    BY <1>3, SilenceScript DEF Op
  <2> QED BY <1>3, <2>1 DEF At
<1>4. CASE script \in {"keyboard", "mouse", "scan1", "scan2"} /\ This \in Talk
  BY <1>4, TalkKinds DEF At
<1> QED BY <1>1, <1>2, <1>3, <1>4, StepKinds

\* The bytes of a packet of the mouse.
LEMMA PacketBytes ==
    ASSUME device \in [1 .. 2 -> DeviceType], NEW m \in MotionType
    PROVE  Packet(m) \in Seq(Byte)
<1> DEFINE t == device[2].type
           flags == 8 + Flag(m.dx < 0, 16) + Flag(m.dy < 0, 32)
           rest == CASE t = 0 -> <<>>
                     [] t = 3 -> << m.wheel % 256 >>
                     [] t = 4 -> << (m.wheel % 16) + Flag(m.btn4, 16) >>
<1>1. /\ flags \in Byte /\ m.dx % 256 \in Byte /\ m.dy % 256 \in Byte
      /\ m.wheel % 256 \in Byte /\ (m.wheel % 16) + Flag(m.btn4, 16) \in Byte
  BY SMTT(90) DEF MotionType, Flag, Byte
<1>2. t \in {0, 3, 4}
  BY DEF DeviceType
<1>3. <<flags, m.dx % 256, m.dy % 256>> \in Seq(Byte)
  <2> HIDE DEF flags
  <2> QED BY <1>1
<1>4. rest \in Seq(Byte)
  BY <1>1, <1>2
<1> HIDE DEF rest, flags
<1>5. <<flags, m.dx % 256, m.dy % 256>> \o rest \in Seq(Byte)
  BY <1>3, <1>4, ConcatProperties
<1> QED BY <1>5, Zenon DEF Packet, rest, flags

-----------------------------------------------------------------------------
\* The thread goes on with variables that are within their limits.
LEMMA AdvanceKeeps ==
    ASSUME Types, script # "done", NEW d \in DrvType, NEW n \in 0 .. 3, Advance(d, n),
           Len(d.response) <= 5, Len(d.packet) <= 3
    PROVE  Position' /\ Drv'
<1>1. drv' \in DrvType /\ SameButHandlers(drv', d) /\ Position'
  BY AdvanceTypes, Zenon DEF Types
<1>2. drv'.response = d.response /\ drv'.packet = d.packet
  BY <1>1 DEF SameButHandlers
<1> QED BY <1>1, <1>2 DEF Drv, RESPONSE_BUFFER_SIZE

\* The commands to the controller.
LEMMA CommandTypes ==
    ASSUME Types, Command \/ NoPort
    PROVE  Types'
<1>1. machine' = machine /\ device' = device /\ obuf' = obuf /\ script # "done"
  BY DEF Command, NoPort, At
<1>2. CASE NoPort
  <2>1. Position' /\ Drv'
    <3>1. drv \in DrvType /\ Len(drv.response) <= 5 /\ Len(drv.packet) <= 3 /\ 0 \in 0 .. 3
      BY DEF Types, Drv, RESPONSE_BUFFER_SIZE
    <3>2. Advance(drv, 0)
      BY <1>2 DEF NoPort
    <3> QED BY <1>1, <3>1, <3>2, AdvanceKeeps
  <2>2. conf' = conf /\ line' = line
    BY <1>2 DEF NoPort
  <2>3. Wires'
    BY <1>1, <2>2 DEF Wires, Types
  <2> QED BY <1>1, <2>1, <2>3 DEF Types
<1>3. CASE Command
  <2> DEFINE d == [drv EXCEPT !.enabled = @ \/ This.what = "enable"]
  <2>1. drv \in DrvType /\ Len(drv.response) <= 5 /\ Len(drv.packet) <= 3 /\ 1 \in 0 .. 3
    BY DEF Types, Drv, RESPONSE_BUFFER_SIZE
  <2>2. d \in DrvType /\ d.response = drv.response /\ d.packet = drv.packet
    BY <2>1, Zenon DEF DrvType
  <2>3. Advance(d, 1)
    BY <1>3 DEF Command
  <2> HIDE DEF d
  <2>4. Position' /\ Drv'
    BY <1>1, <2>1, <2>2, <2>3, AdvanceKeeps
  <2>5. conf' \in Byte
    BY <1>3, CommandedByte DEF Command, Types, Wires
  <2>6. line' \in [0 .. 2 -> Seq(Byte)]
    <3>1. machine.test[1] \in Byte /\ machine.test[2] \in Byte /\ 0 \in 0 .. 2
      BY DEF Types, MachineType, Byte
    <3>2. ASSUME NEW x \in Byte
          PROVE  <<x>> \in Seq(Byte)
      OBVIOUS
    <3>3. CASE line' = line
      BY <3>3 DEF Types, Wires
    <3>4. CASE \E x \in Byte : Sends(0, <<x>>)
      <4>1. line \in [0 .. 2 -> Seq(Byte)]
        BY DEF Types, Wires
      <4> QED BY <3>1, <3>2, <3>4, <4>1, SendsTypes, Zenon
    <3>5. line' = line \/ \E x \in Byte : Sends(0, <<x>>)
      <4>1. CASE This.what \in {"readConfig", "enable2", "enable"}
        BY <1>3, <2>5, <4>1, Zenon DEF Command
      <4>2. CASE This.what = "test1"
        BY <1>3, <3>1, <4>2, Zenon DEF Command
      <4>3. CASE This.what = "test2"
        BY <1>3, <3>1, <4>3, Zenon DEF Command
      <4>4. CASE This.what \notin {"readConfig", "enable2", "enable", "test1", "test2"}
        BY <1>3, <4>4, Zenon DEF Command
      <4> QED BY <4>1, <4>2, <4>3, <4>4
    <3> QED BY <3>3, <3>4, <3>5, Zenon
  <2>7. Wires'
    BY <1>1, <2>5, <2>6 DEF Wires, Types
  <2> QED BY <1>1, <2>4, <2>7 DEF Types
<1> QED BY <1>2, <1>3

\* Scanning is disabled, and the interrupts of the devices are turned on.
LEMMA SilenceTypes ==
    ASSUME Types, SilenceDevice(1) \/ SilenceDevice(2) \/ i8042_enableDevicesIRQs
    PROVE  Types'
<1>1. machine' = machine /\ obuf' = obuf /\ script # "done"
  BY DEF SilenceDevice, i8042_enableDevicesIRQs, At
<1>2. drv \in DrvType /\ Len(drv.response) <= 5 /\ Len(drv.packet) <= 3 /\ 1 \in 0 .. 3
  BY DEF Types, Drv, RESPONSE_BUFFER_SIZE
<1>3. ASSUME NEW x \in 1 .. 2, SilenceDevice(x)
      PROVE  Types'
  <2>1. Advance(drv, 1) /\ conf' = conf
    BY <1>3 DEF SilenceDevice
  <2>2. Position' /\ Drv'
    BY <1>1, <1>2, <2>1, AdvanceKeeps
  <2>3. device' \in [1 .. 2 -> DeviceType] /\ line' \in [0 .. 2 -> Seq(Byte)]
    <3>1. CASE UNCHANGED <<line, device>>
      BY <3>1 DEF Types, Wires
    <3>2. CASE ToDevice(x, DISABLE_SCANNING)
      <4>1. DISABLE_SCANNING \in Byte
        BY NumbersOfBytes DEF Byte
      <4> QED BY <3>2, <4>1, ToDeviceTypes DEF Types, Wires
    <3> QED BY <1>3, <3>1, <3>2 DEF SilenceDevice
  <2>4. Wires'
    BY <1>1, <2>1, <2>3 DEF Wires, Types
  <2> QED BY <1>1, <2>2, <2>3, <2>4 DEF Types
<1>4. CASE i8042_enableDevicesIRQs
  <2> DEFINE one == IF drv.valid[1] THEN SetBit(drv.configByte, INTERRUPT[1]) ELSE drv.configByte
             two == IF drv.valid[2] THEN SetBit(one, INTERRUPT[2]) ELSE one
             d == [drv EXCEPT !.configByte = two, !.handler = <<"initIRQ", "initIRQ">>]
  <2>1. two \in Byte
    <3>1. INTERRUPT[1] \in Masks /\ INTERRUPT[2] \in Masks /\ drv.configByte \in Byte
      BY <1>2, MasksDistinct DEF Masks, DrvType
    <3>2. one \in Byte
      BY <3>1, SetBitByte
    <3> HIDE DEF one
    <3> QED BY <3>1, <3>2, SetBitByte
  <2>2. conf' = Config(two) /\ Advance(d, 1) /\ line' = line /\ device' = device
    BY <1>4 DEF i8042_enableDevicesIRQs
  <2> HIDE DEF two
  <2>3. d \in DrvType /\ d.response = drv.response /\ d.packet = drv.packet
    <3>1. <<"initIRQ", "initIRQ">> \in [1 .. 2 -> Handlers]
      BY DEF Handlers
    <3> QED BY <1>2, <2>1, <3>1, Zenon DEF DrvType
  <2> HIDE DEF d
  <2>4. Position' /\ Drv'
    BY <1>1, <1>2, <2>2, <2>3, AdvanceKeeps
  <2>5. conf' \in Byte
    BY <2>1, <2>2, ConfigByte
  <2>6. Wires'
    BY <1>1, <2>2, <2>5 DEF Wires, Types
  <2> QED BY <1>1, <2>2, <2>4, <2>6 DEF Types
<1> QED BY <1>3, <1>4

\* The output buffer of the controller, empty or full.
LEMMA Buffer ==
    /\ <<>> \in Seq([dev : 0 .. 2, byte : Byte]) /\ Len(<<>>) <= 1
    /\ Wires /\ obuf # <<>> => Len(obuf) = 1 /\ obuf[1].dev \in 0 .. 2 /\ obuf[1].byte \in Byte
<1> DEFINE R == [dev : 0 .. 2, byte : Byte]
<1>1. <<>> \in Seq(R) /\ Len(<<>>) <= 1
  OBVIOUS
<1>2. ASSUME Wires, obuf # <<>>
      PROVE  Len(obuf) = 1 /\ obuf[1].dev \in 0 .. 2 /\ obuf[1].byte \in Byte
  <2>1. obuf \in Seq(R) /\ Len(obuf) <= 1
    BY <1>2, Zenon DEF Wires
  <2>2. Len(obuf) = 1 /\ obuf[1] \in R
    <3>1. ASSUME NEW S, NEW q \in Seq(S), q # <<>>, Len(q) <= 1
          PROVE  Len(q) = 1 /\ q[1] \in S
      <4>1. Len(q) \in Nat \ {0}
        BY <3>1, EmptySeq
      <4>2. Len(q) = 1
        BY <3>1, <4>1
      <4> QED BY <3>1, <4>2, ElementOfSeq
    <3> QED BY <1>2, <2>1, <3>1, Zenon
  <2> QED BY <2>2
<1> QED BY <1>1, <1>2

\* A byte is polled, or none arrives in time.
LEMMA PollTypes ==
    ASSUME Types, pollByte \/ PollTimeout
    PROVE  Types'
<1>1. machine' = machine /\ device' = device /\ line' = line /\ At("poll")
  BY DEF pollByte, PollTimeout
<1>2. script # "done" /\ This.what \in Polls
  BY <1>1, StepsOfKinds DEF At, Types, Polls
<1>3. obuf' \in Seq([dev : 0 .. 2, byte : Byte]) /\ Len(obuf') <= 1
  <2>1. obuf' = <<>> \/ obuf' = obuf
    BY DEF pollByte, PollTimeout
  <2> QED BY <2>1, Buffer, Zenon DEF Types, Wires
<1>4. \E b \in Byte : Use(b)
  <2>1. CASE pollByte
    <3>1. obuf[1].byte \in Byte
      BY <2>1, Buffer DEF pollByte, Types
    <3> QED BY <2>1, <3>1 DEF pollByte
  <2>2. CASE PollTimeout
    <3>1. drv.buff \in Byte /\ 0 \in Byte
      BY DEF Types, Drv, DrvType, Byte
    <3> QED BY <2>2, <3>1, Zenon DEF PollTimeout
  <2> QED BY <2>1, <2>2
<1>5. PICK b \in Byte : Use(b)
  BY <1>4
<1>6. PICK p : p = Polled(b) /\ conf' = Config(p.conf) /\ Advance(p.d, p.n)
  BY <1>5, Zenon DEF Use
<1>7. drv \in DrvType /\ conf \in Byte /\ Len(drv.response) <= 5 /\ Len(drv.packet) <= 3
  BY DEF Types, Drv, Wires, RESPONSE_BUFFER_SIZE
<1>8. /\ p.d \in DrvType /\ p.conf \in Byte /\ p.n \in 1 .. 3
      /\ p.d.response = drv.response /\ p.d.packet = drv.packet
  BY <1>2, <1>6, <1>7, PolledCases, Zenon
<1>9. Position' /\ Drv'
  <2>1. p.n \in 0 .. 3
    BY <1>8
  <2> QED BY <1>2, <1>6, <1>7, <1>8, <2>1, AdvanceKeeps
<1>10. conf' \in Byte
  BY <1>6, <1>8, ConfigByte
<1>11. Wires'
  BY <1>1, <1>3, <1>10 DEF Wires, Types
<1> QED BY <1>1, <1>9, <1>11 DEF Types

\* i8042_flush keeps the types.
LEMMA FlushTypes ==
    ASSUME Types, i8042_flush
    PROVE  Types'
<1>1. machine' = machine /\ device' = device /\ line' = line /\ conf' = conf /\ script # "done"
  BY DEF i8042_flush, At
<1>2. obuf' \in Seq([dev : 0 .. 2, byte : Byte]) /\ Len(obuf') <= 1
  <2>1. obuf' = <<>> \/ obuf' = obuf
    BY DEF i8042_flush
  <2> QED BY <2>1, Buffer, Zenon DEF Types, Wires
<1>3. Position' /\ Drv'
  <2>1. CASE UNCHANGED <<drv, script, step, tries, waiting>>
    BY <2>1 DEF Types, Position, Drv
  <2>2. CASE Advance(drv, 1)
    <3>1. drv \in DrvType /\ Len(drv.response) <= 5 /\ Len(drv.packet) <= 3 /\ 1 \in 0 .. 3
      BY DEF Types, Drv, RESPONSE_BUFFER_SIZE
    <3> QED BY <1>1, <2>2, <3>1, AdvanceKeeps
  <2> QED BY <2>1, <2>2, Zenon DEF i8042_flush
<1>4. Wires'
  BY <1>1, <1>2 DEF Wires, Types
<1> QED BY <1>1, <1>3, <1>4 DEF Types

\* Sending a byte to a device keeps the types.
LEMMA SendTypes ==
    ASSUME Types, SendByte
    PROVE  Types'
<1>1. /\ machine' = machine /\ conf' = conf /\ obuf' = obuf /\ drv' = drv
      /\ script' = script /\ step' = step
  BY DEF SendByte
<1>2. This \in Talk /\ This.op = "send"
  BY StepsOfKinds DEF SendByte, At, Types
<1>3. This.dev \in 1 .. 2 /\ This.byte \in Byte
  BY <1>2, TalkKinds
<1>4. device' \in [1 .. 2 -> DeviceType] /\ line' \in [0 .. 2 -> Seq(Byte)]
  <2>1. ToDevice(This.dev, This.byte)
    BY DEF SendByte
  <2>2. /\ machine \in MachineType /\ device \in [1 .. 2 -> DeviceType] /\ conf \in Byte
        /\ line \in [0 .. 2 -> Seq(Byte)]
    BY DEF Types, Wires
  <2> QED BY <1>3, <2>1, <2>2, ToDeviceTypes, Zenon
<1>5. Position'
  <2>1. ~waiting /\ tries \in 0 .. 3 /\ tries < 3
    BY DEF Types, Position, RETRIES, SendByte
  <2>2. tries' \in 0 .. 3 /\ waiting' = TRUE
    BY <2>1 DEF SendByte
  <2> QED BY <1>1, <2>2, Zenon DEF Types, Position, RETRIES
<1>6. Drv' /\ Wires'
  BY <1>1, <1>4 DEF Types, Drv, Wires
<1> QED BY <1>1, <1>4, <1>5, <1>6 DEF Types

\* What is left of the responses after one was taken.
LEMMA Taken ==
    ASSUME Types, drv.response # <<>>
    PROVE  /\ Head(drv.response) \in Byte /\ Tail(drv.response) \in Seq(Byte)
           /\ Len(Tail(drv.response)) <= 5
<1>1. drv.response \in Seq(Byte) /\ Len(drv.response) <= 5
  BY DEF Types, Drv, DrvType, RESPONSE_BUFFER_SIZE
<1> QED BY <1>1

\* The thread acts on an answer.
LEMMA ConcludeTypes ==
    ASSUME Types, At("send") \/ At("receive"), NEW byte \in Byte, NEW ok \in BOOLEAN,
           NEW rest \in Seq(Byte), Len(rest) <= 5, Conclude(byte, ok, rest)
    PROVE  Position' /\ Drv' /\ SameSetup(drv', drv) /\ script' # "controller"
           /\ (script' = script \/ script' # "silence")
<1>1. This \in Talk /\ script \in {"keyboard", "mouse", "scan1", "scan2"}
  BY StepsOfKinds DEF Types
<1>2. PICK o : o = Outcome(byte, ok) /\ Advance([o.d EXCEPT !.response = rest], o.n)
  BY Zenon DEF Conclude
<1>3. drv \in DrvType /\ Len(drv.packet) <= 3
  BY DEF Types, Drv
<1>4. GoodOutcome(o)
  BY <1>1, <1>2, <1>3, OutcomeTypes, Zenon
<1>5. o.d \in DrvType /\ o.n \in 0 .. 3 /\ SameSetup(o.d, drv) /\ o.d.packet = drv.packet
  BY <1>4 DEF GoodOutcome
<1> DEFINE e == [o.d EXCEPT !.response = rest]
<1>6. e \in DrvType /\ e.response = rest /\ e.packet = drv.packet
  BY <1>5, Zenon DEF DrvType
<1>7. SameSetup(e, drv)
  BY <1>5 DEF SameSetup, DrvType
<1>8. Advance(e, o.n)
  BY <1>2
<1> HIDE DEF e
<1>9. Position' /\ Drv'
  BY <1>1, <1>3, <1>5, <1>6, <1>8, AdvanceKeeps
<1>10. /\ SameButHandlers(drv', e)
       /\ script' = script \/ (script' = Following(e) /\ script' # "controller")
  BY <1>1, <1>5, <1>6, <1>8, AdvanceTypes, Zenon DEF Types
<1>11. SameSetup(drv', drv)
  BY <1>7, <1>10 DEF SameSetup, SameButHandlers
<1>12. Index(Following(e)) > Index(script)
  BY <1>1, FollowingLater DEF Names
<1>13. script' # "controller" /\ (script' = script \/ script' # "silence")
  BY <1>1, <1>10, <1>12, OrderOfScripts
<1> QED BY <1>9, <1>11, <1>13

Answer == Answered \/ NoAnswer \/ receiveByte \/ ReceiveTimeout

\* An answer to a device's byte is taken, or none comes in time.
LEMMA AnswerTypes ==
    ASSUME Types, Answer
    PROVE  /\ Types' /\ SameSetup(drv', drv)
           /\ script \notin {"controller", "silence", "done"}
           /\ script' \notin {"controller", "silence"}
<1>1. /\ machine' = machine /\ device' = device /\ line' = line /\ conf' = conf /\ obuf' = obuf
      /\ At("send") \/ At("receive")
  <2>1. CASE Answered
    BY <2>1, Zenon DEF Answered
  <2>2. CASE NoAnswer
    BY <2>2, Zenon DEF NoAnswer
  <2>3. CASE receiveByte
    BY <2>3, Zenon DEF receiveByte
  <2>4. CASE ReceiveTimeout
    BY <2>4, Zenon DEF ReceiveTimeout
  <2> QED BY <2>1, <2>2, <2>3, <2>4, Zenon DEF Answer
<1>2. script \in {"keyboard", "mouse", "scan1", "scan2"}
  BY <1>1, StepsOfKinds DEF Types
<1> DEFINE Goal == /\ Position' /\ Drv' /\ SameSetup(drv', drv)
                   /\ script' \notin {"controller", "silence"}
<1>3. ASSUME NEW byte \in Byte, NEW ok \in BOOLEAN, NEW rest \in Seq(Byte), Len(rest) <= 5,
             Conclude(byte, ok, rest)
      PROVE  Goal
  <2>1. /\ Position' /\ Drv' /\ SameSetup(drv', drv) /\ script' # "controller"
        /\ script' = script \/ script' # "silence"
    BY <1>1, <1>3, ConcludeTypes
  <2> QED BY <1>2, <2>1
<1>4. RESEND \in Byte /\ 0 \in Byte /\ <<>> \in Seq(Byte) /\ Len(<<>>) <= 5
  BY NumbersOfBytes DEF Byte
<1>5. ASSUME drv' = [drv EXCEPT !.response = Tail(drv.response)], drv.response # <<>>, waiting' = FALSE,
             tries < RETRIES, UNCHANGED <<script, step, tries>>
      PROVE  Goal
  <2>1. Tail(drv.response) \in Seq(Byte) /\ Len(Tail(drv.response)) <= 5
    BY <1>5, Taken
  <2>2. drv \in DrvType /\ Len(drv.packet) <= 3
    BY DEF Types, Drv
  <2>3. /\ drv' \in DrvType /\ drv'.response = Tail(drv.response) /\ drv'.packet = drv.packet
    BY <1>5, <2>1, <2>2, Zenon DEF DrvType
  <2>4. SameSetup(drv', drv)
    BY <1>5, <2>2 DEF DrvType, SameSetup
  <2>5. Drv'
    BY <2>1, <2>2, <2>3 DEF Drv, RESPONSE_BUFFER_SIZE
  <2>6. Position'
    BY <1>5, Zenon DEF Types, Position
  <2> QED BY <1>2, <1>5, <2>4, <2>5, <2>6
<1> HIDE DEF Goal
<1>6. Goal
  <2>1. CASE Answered
    <3>1. drv.response # <<>>
      BY <2>1 DEF Answered
    <3>2. /\ Head(drv.response) \in Byte /\ Tail(drv.response) \in Seq(Byte)
          /\ Len(Tail(drv.response)) <= 5
      BY <3>1, Taken
    <3>3. CASE Again(Head(drv.response)) /\ UNCHANGED <<script, step, tries>>
               /\ drv' = [drv EXCEPT !.response = Tail(drv.response)] /\ waiting' = FALSE
      BY <1>5, <3>1, <3>3, Zenon DEF Again
    <3>4. CASE Conclude(Head(drv.response), TRUE, Tail(drv.response))
      BY <1>3, <3>2, <3>4, Zenon
    <3> QED BY <2>1, <3>3, <3>4, Zenon DEF Answered
  <2>2. CASE NoAnswer
    BY <1>3, <1>4, <2>2, Zenon DEF NoAnswer
  <2>3. CASE receiveByte
    <3>1. drv.response # <<>> /\ Conclude(Head(drv.response), TRUE, Tail(drv.response))
      BY <2>3, Zenon DEF receiveByte
    <3>2. /\ Head(drv.response) \in Byte /\ Tail(drv.response) \in Seq(Byte)
          /\ Len(Tail(drv.response)) <= 5
      BY <3>1, Taken
    <3> QED BY <1>3, <3>1, <3>2, Zenon
  <2>4. CASE ReceiveTimeout
    BY <1>3, <1>4, <2>4, Zenon DEF ReceiveTimeout
  <2> QED BY <2>1, <2>2, <2>3, <2>4 DEF Answer
<1>7. Wires'
  BY <1>1 DEF Types, Wires
<1> QED BY <1>1, <1>2, <1>6, <1>7 DEF Types, Goal

-----------------------------------------------------------------------------
\* A byte moves to the output buffer.
LEMMA DeliverTypes ==
    ASSUME Types, NEW d \in 0 .. 2, Deliver(d)
    PROVE  Types'
<1>1. /\ machine' = machine /\ conf' = conf /\ device' = device /\ drv' = drv /\ script' = script
      /\ step' = step /\ tries' = tries /\ waiting' = waiting
  BY DEF Deliver
<1>2. line \in [0 .. 2 -> Seq(Byte)] /\ line[d] # <<>>
  BY DEF Types, Wires, Deliver, Deliverable
<1>3. Head(line[d]) \in Byte /\ Tail(line[d]) \in Seq(Byte)
  <2>1. ASSUME NEW q \in Seq(Byte), q # <<>>
        PROVE  Head(q) \in Byte /\ Tail(q) \in Seq(Byte)
    BY <2>1
  <2> QED BY <1>2, <2>1
<1>4. line' \in [0 .. 2 -> Seq(Byte)]
  BY <1>2, <1>3 DEF Deliver
<1>5. obuf' \in Seq([dev : 0 .. 2, byte : Byte]) /\ Len(obuf') <= 1
  <2>1. ASSUME NEW S, NEW x \in S
        PROVE  <<x>> \in Seq(S) /\ Len(<<x>>) <= 1
    OBVIOUS
  <2>2. [dev |-> d, byte |-> Head(line[d])] \in [dev : 0 .. 2, byte : Byte]
    BY <1>3
  <2>3. obuf' = << [dev |-> d, byte |-> Head(line[d])] >>
    BY DEF Deliver
  <2> QED BY <2>1, <2>2, <2>3, Zenon
<1>6. Position' /\ Drv'
  BY <1>1 DEF Types, Position, Drv
<1>7. Wires'
  BY <1>1, <1>4, <1>5, Zenon DEF Types, Wires
<1> QED BY <1>1, <1>6, <1>7 DEF Types

\* A handler takes the byte in the output buffer.
LEMMA InterruptTypes ==
    ASSUME Types, Interrupt
    PROVE  Types' /\ SameSetup(drv', drv) /\ drv'.handler = drv.handler
<1>1. /\ machine' = machine /\ conf' = conf /\ line' = line /\ device' = device /\ script' = script
      /\ step' = step /\ tries' = tries /\ waiting' = waiting /\ obuf' = <<>>
  BY DEF Interrupt
<1>2. obuf # <<>> /\ obuf[1].byte \in Byte
  BY Buffer DEF Types, Interrupt, Served
<1>3. drv \in DrvType /\ Len(drv.response) <= 5 /\ Len(drv.packet) <= 3
  BY DEF Types, Drv, RESPONSE_BUFFER_SIZE
<1>4. drv.response \in Seq(Byte) /\ drv.packet \in Seq(Byte)
  BY <1>3 DEF DrvType
<1> DEFINE byte == obuf[1].byte
           Goal == Drv' /\ SameSetup(drv', drv) /\ drv'.handler = drv.handler
<1>5. ASSUME drv' = [drv EXCEPT !.response = pushResponseBuffer(@, byte)]
      PROVE  Goal
  <2> DEFINE r == pushResponseBuffer(drv.response, byte)
  <2>1. r \in Seq(Byte) /\ Len(r) <= 5
    <3>1. ASSUME NEW q \in Seq(Byte), NEW b \in Byte, Len(q) <= 5
          PROVE  pushResponseBuffer(q, b) \in Seq(Byte) /\ Len(pushResponseBuffer(q, b)) <= 5
      <4>1. Len(q) \in Nat /\ \A n \in Nat : n <= 5 /\ n # 5 => n + 1 <= 5
        BY <3>1, LenProperties
      <4>2. Append(q, b) \in Seq(Byte) /\ Len(Append(q, b)) = Len(q) + 1
        BY <3>1, AppendProperties
      <4>3. CASE Len(q) = 5
        BY <3>1, <4>3, Zenon DEF pushResponseBuffer, RESPONSE_BUFFER_SIZE
      <4>4. CASE Len(q) # 5
        <5>1. Len(Append(q, b)) <= 5
          BY <3>1, <4>1, <4>2, <4>4, Zenon
        <5> QED BY <4>2, <4>4, <5>1, Zenon DEF pushResponseBuffer, RESPONSE_BUFFER_SIZE
      <4> QED BY <4>3, <4>4
    <3> QED BY <1>2, <1>3, <1>4, <3>1, Zenon
  <2>2. drv' = [drv EXCEPT !.response = r]
    BY <1>5
  <2> HIDE DEF r
  <2>3. drv' \in DrvType /\ drv'.response = r /\ drv'.packet = drv.packet
    BY <1>3, <2>1, <2>2, Zenon DEF DrvType
  <2>4. SameSetup(drv', drv) /\ drv'.handler = drv.handler
    BY <1>3, <2>2 DEF DrvType, SameSetup
  <2> QED BY <1>3, <2>1, <2>3, <2>4 DEF Drv, RESPONSE_BUFFER_SIZE
<1>6. ASSUME drv' = drv
      PROVE  Goal
  BY <1>3, <1>6 DEF Drv, SameSetup, RESPONSE_BUFFER_SIZE
<1>7. ASSUME mouseIRQ(byte)
      PROVE  Goal
  <2> DEFINE p == Append(drv.packet, byte)
             whole == Len(p) = 4 \/ (Len(p) = 3 /\ drv.mouse.packetSize <= 3)
             q == IF whole THEN <<>> ELSE p
  <2>1. q \in Seq(Byte) /\ Len(q) <= 3
    <3>1. p \in Seq(Byte) /\ Len(p) \in 1 .. 4
      BY <1>2, <1>3, <1>4
    <3>2. <<>> \in Seq(Byte) /\ Len(<<>>) <= 3
      OBVIOUS
    <3>3. CASE whole
      BY <3>2, <3>3, Zenon
    <3>4. CASE ~whole
      <4>1. q = p /\ Len(p) # 4
        BY <3>4, Zenon
      <4>2. Len(p) <= 3
        <5>1. \A n \in 1 .. 4 : n # 4 => n <= 3
          OBVIOUS
        <5> QED BY <3>1, <4>1, <5>1, Zenon
      <4> QED BY <3>1, <4>1, <4>2, Zenon
    <3> QED BY <3>3, <3>4
  <2>2. drv' = [drv EXCEPT !.packet = q]
    BY <1>7, Zenon DEF mouseIRQ
  <2> HIDE DEF q
  <2>3. drv' \in DrvType /\ drv'.packet = q /\ drv'.response = drv.response
    BY <1>3, <2>1, <2>2, Zenon DEF DrvType
  <2>4. SameSetup(drv', drv) /\ drv'.handler = drv.handler
    BY <1>3, <2>2 DEF DrvType, SameSetup
  <2> QED BY <1>3, <2>1, <2>3, <2>4 DEF Drv, RESPONSE_BUFFER_SIZE
<1>8. Goal
  <2> HIDE DEF Goal
  <2> QED BY <1>5, <1>6, <1>7, Zenon DEF Interrupt
<1>9. Position'
  BY <1>1 DEF Types, Position
<1>10. Wires'
  BY <1>1, Buffer, Zenon DEF Types, Wires
<1> QED BY <1>1, <1>8, <1>9, <1>10 DEF Types

\* A key or a movement sends bytes.
LEMMA TypingTypes ==
    ASSUME Types, TypeKey \/ \E m \in Motions : MoveMouse(m)
    PROVE  Types'
<1>1. /\ machine' = machine /\ conf' = conf /\ obuf' = obuf /\ device' = device /\ drv' = drv
      /\ script' = script /\ step' = step /\ tries' = tries /\ waiting' = waiting
  BY DEF TypeKey, MoveMouse
<1>2. line' \in [0 .. 2 -> Seq(Byte)]
  <2>1. 1 \in 0 .. 2 /\ 2 \in 0 .. 2 /\ << \h1E >> \in Seq(Byte)
    BY DEF Byte
  <2>2. \A m \in Motions : Packet(m) \in Seq(Byte)
    BY PacketBytes, MotionAssumption DEF Types
  <2>3. line \in [0 .. 2 -> Seq(Byte)]
    BY DEF Types, Wires
  <2> QED BY <2>1, <2>2, <2>3, SendsTypes, Zenon DEF TypeKey, MoveMouse
<1>3. Position' /\ Drv'
  BY <1>1 DEF Types, Position, Drv
<1>4. Wires'
  BY <1>1, <1>2, Zenon DEF Types, Wires
<1> QED BY <1>1, <1>3, <1>4 DEF Types

\* The types hold at power-on.
LEMMA InitTypes == Init => Types
<1> SUFFICES ASSUME Init PROVE Types
  OBVIOUS
<1>1. machine \in MachineType
  BY MachineAssumption DEF Init
<1>2. conf \in Byte
  <2>1. 3 + Flag(machine.translation, TRANSLATION) \in Byte
    BY <1>1, MasksDistinct DEF Flag, Byte
  <2> QED BY <2>1, ConfigByte DEF Init
<1>3. line \in [0 .. 2 -> Seq(Byte)]
  BY DEF Init
<1>4. obuf \in Seq([dev : 0 .. 2, byte : Byte]) /\ Len(obuf) <= 1
  <2>1. ASSUME NEW S, NEW x \in S
        PROVE  <<x>> \in Seq(S) /\ Len(<<x>>) <= 1
    OBVIOUS
  <2>2. [dev |-> 1, byte |-> \h1E] \in [dev : 0 .. 2, byte : Byte]
    BY DEF Byte
  <2>3. obuf = <<>> \/ obuf = << [dev |-> 1, byte |-> \h1E] >>
    BY DEF Init
  <2> QED BY <2>1, <2>2, <2>3, Buffer, Zenon
<1>5. device \in [1 .. 2 -> DeviceType]
  <2>1. 0 \in Byte /\ <<0, 0, 0>> \in [1 .. 3 -> Byte]
    BY DEF Byte
  <2> QED BY <2>1, Zenon DEF Init, DeviceType
<1>6. Drv
  <2>1. 0 \in Byte /\ 0 \in 0 .. 2 /\ <<>> \in Seq(Byte) /\ Len(<<>>) <= 5 /\ Len(<<>>) <= 3
    BY DEF Byte
  <2>2. <<"none", "none">> \in [1 .. 2 -> Handlers]
    BY DEF Handlers
  <2>3. <<FALSE, FALSE>> \in [1 .. 2 -> BOOLEAN]
    <3>1. ASSUME NEW S, NEW x \in S
          PROVE  <<x, x>> \in [1 .. 2 -> S]
      OBVIOUS
    <3> QED BY <3>1, Zenon
  <2> QED BY <2>1, <2>2, <2>3, Zenon DEF Init, Drv, DrvType, RESPONSE_BUFFER_SIZE
<1>7. Position
  <2>1. 1 \in 1 .. Len(Scripts["controller"]) /\ "controller" \in Names
    BY ScriptLengths DEF Names
  <2>2. 0 \in 0 .. 3 /\ 0 < 3
    OBVIOUS
  <2> QED BY <2>1, <2>2, Zenon DEF Init, Position, RETRIES
<1> QED BY <1>1, <1>2, <1>3, <1>4, <1>5, <1>6, <1>7, Zenon DEF Types, Wires

\* Every step of thread, handler, controller and devices keeps the types.
LEMMA NextTypes == Types /\ [Next]_vars => Types'
<1> SUFFICES ASSUME Types, [Next]_vars PROVE Types'
  OBVIOUS
<1>1. CASE Thread
  BY <1>1, CommandTypes, SilenceTypes, PollTypes, FlushTypes, SendTypes, AnswerTypes, Zenon DEF Thread, Answer
<1>2. CASE \E d \in 0 .. 2 : Deliver(d)
  BY <1>2, DeliverTypes, Zenon
<1>3. CASE Interrupt
  BY <1>3, InterruptTypes
<1>4. CASE TypeKey \/ \E m \in Motions : MoveMouse(m)
  BY <1>4, TypingTypes
<1>5. CASE UNCHANGED vars
  BY <1>5, Zenon DEF vars, Types, Position, Drv, Wires
<1> QED BY <1>1, <1>2, <1>3, <1>4, <1>5 DEF Next

\* The types hold at every moment.
LEMMA TypesInvariant == Spec => []Types
<1> QED BY InitTypes, NextTypes, PTL DEF Spec

\* Whatever the machine has, whatever is pressed or moved and however often a
\* device is slow or asks for a byte again, pushResponseBuffer never holds more than
\* its five bytes, a packet never more than three, sendByteToDeviceHandleResend never
\* sends a byte more than three times, and the thread is always at a step of its scripts.
THEOREM LimitsKept == Spec => []TypeOK
<1>1. Types => TypeOK
  <2> SUFFICES ASSUME Types PROVE TypeOK
    OBVIOUS
  <2>1. script \in DOMAIN Scripts /\ (Done \/ step \in DOMAIN Scripts[script])
    BY ScriptNames, ScriptLengths DEF Types, Position, Done
  <2>2. tries \in 0 .. RETRIES /\ conf \in 0 .. 255 /\ Len(obuf) <= 1
    BY Zenon DEF Types, Position, Wires, Byte
  <2>3. Len(drv.response) <= RESPONSE_BUFFER_SIZE /\ Len(drv.packet) <= 3
    BY Zenon DEF Types, Drv
  <2> QED BY <2>1, <2>2, <2>3, Zenon DEF TypeOK
<1> QED BY <1>1, TypesInvariant, PTL
=============================================================================
