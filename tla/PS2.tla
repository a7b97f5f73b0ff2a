--------------------------------- MODULE PS2 ---------------------------------
(***************************************************************************)
(* The start of the PS/2 driver: the controller (i8042.c), the keyboard    *)
(* and the mouse are set up by a thread that sends bytes and waits for     *)
(* answers (PS2.c), while answers, scancodes and mouse packets come in     *)
(* through an interrupt handler or are polled; then the packets of the     *)
(* mouse (mouseIRQ).                                                       *)
(*                                                                         *)
(* The thread runs scripts: sequences of steps that send to a device and   *)
(* wait, receive, send to the controller, poll it or flush it.  What is    *)
(* done with an answer is Outcome.                                         *)
(***************************************************************************)
EXTENDS Integers, Sequences, FiniteSets, TLC

CONSTANTS
    Machines,       \* the machines considered, see MachineType
    MaxFaults,      \* bound on bytes that a device asks for again, waits that time out
                    \* although an answer comes later, and keys pressed
    MaxMoves,       \* bound on the movements of the mouse
    Motions         \* the movements of the mouse, after the set-up

RESPONSE_BUFFER_SIZE == 5
RETRIES == 3

ACK == \hFA
RESEND == \hFE
SELFTEST_PASSED == \hAA
RESET == \hFF
DISABLE_SCANNING == \hF5
ENABLE_SCANNING == \hF4
IDENTIFY == \hF2
SET_SCANCODE_SET == \hF0
SET_RATE == \hF3            \* delay and rate of a keyboard, sample rate of a mouse
SET_LED == \hED
SET_RESOLUTION == \hE8
LED_NUMLOCK == 2

\* The bits of the controller's configuration byte.
INTERRUPT == <<1, 2>>
CLOCK == <<16, 32>>         \* set: the port is off
TRANSLATION == 64

UNKNOWN == \hFF             \* the type of no mouse

\* port2: there is a second port; test: what the interface tests answer;
\* keyboard: there is one; mouse: the type of the mouse at most, or UNKNOWN for none.
MachineType == [port2 : BOOLEAN, test : [1 .. 2 -> {0, 1}], keyboard : BOOLEAN,
                mouse : {0, 3, 4, UNKNOWN}, translation : BOOLEAN]

ASSUME MachineAssumption == Machines \subseteq MachineType

\* Nine bits for each axis and four for the wheel.
MotionType == [dx : -256 .. 255, dy : -256 .. 255, wheel : -8 .. 7, btn4 : BOOLEAN]

ASSUME MotionAssumption ==
    Motions \subseteq MotionType /\ MaxFaults \in Nat /\ MaxMoves \in Nat

Bit(b, mask) == (b \div mask) % 2 = 1

SetBit(b, mask) == IF Bit(b, mask) THEN b ELSE b + mask

ClearBit(b, mask) == IF Bit(b, mask) THEN b - mask ELSE b

VARIABLES
    machine,
    conf,       \* the configuration byte in the controller
    line,       \* what the controller (0), keyboard (1) and mouse (2) have to send
    obuf,       \* the output buffer of the controller: one byte or none
    device,     \* the state of keyboard (1) and mouse (2)
    drv,        \* the static variables of the driver
    script, step, tries, waiting,   \* where the thread is
    moved,      \* the movements the mouse made and those that were decoded
    faults,     \* how many of those there were
    history     \* what the properties make an exception for

vars == <<machine, conf, line, obuf, device, drv, script, step, tries, waiting,
          moved, faults, history>>

-----------------------------------------------------------------------------
(***************************************************************************)
(* The scripts.                                                            *)
(***************************************************************************)
Send(d, byte, what) == [op |-> "send", dev |-> d, byte |-> byte, what |-> what]

Op(op, what) == [op |-> op, dev |-> 0, byte |-> 0, what |-> what]

FindPorts ==
    << Op("command", "readConfig"), Op("poll", "config"), Op("flush", "buffer"),
       Op("command", "enable2"), Op("poll", "port2"), Op("flush", "buffer"),
       Op("command", "test1"), Op("poll", "test1"), Op("command", "test2"), Op("poll", "test2"),
       Op("command", "enable"), Op("poll", "configByte") >>

\* Mutant: what was in the output buffer is not flushed.
Controller_NoFlush == << Op("command", "disable") >> \o FindPorts

Controller == << Op("command", "disable"), Op("flush", "buffer") >> \o FindPorts

Silence ==
    << Op("command", "silence1"), Op("command", "silence2"), Op("flush", "devices"),
       Op("command", "irqs") >>

\* Mutant: the result of the self-test is not read.
resetDevice_NoResult == << Send(1, RESET, "reset") >>

resetDevice == << Send(1, RESET, "reset"), Op("receive", "selftest") >>

InitKeyboard ==
    resetDevice
    \o << Send(1, DISABLE_SCANNING, "ignore"),
          Send(1, SET_SCANCODE_SET, "set"), Send(1, 2, "set2"),
          Send(1, IDENTIFY, "identify"), Op("receive", "byte1"), Op("receive", "byte2"),
          Send(1, SET_RATE, "ignore"), Send(1, \h16, "ignore"),
          Send(1, SET_LED, "ignore"), Send(1, LED_NUMLOCK, "ignore") >>

getMouseType == << Send(2, IDENTIFY, "identifyMouse"), Op("receive", "type") >>

SampleRate(r) == << Send(2, SET_RATE, "ignore"), Send(2, r, "ignore") >>

SampleRates(a, b, c) == SampleRate(a) \o SampleRate(b) \o SampleRate(c)

Settings == SampleRate(40) \o << Send(2, SET_RESOLUTION, "ignore"), Send(2, 3, "named") >>

\* Mutant: the type is asked for once, before the magic sequences.
InitMouse_TypeOnce ==
    resetDevice \o getMouseType \o SampleRates(200, 100, 80) \o SampleRates(200, 200, 80) \o Settings

\* The keyboard is reset once more, and the mouse is not.
InitMouse ==
    resetDevice \o getMouseType \o SampleRates(200, 100, 80) \o getMouseType
    \o SampleRates(200, 200, 80) \o getMouseType \o Settings

Scripts ==
    [controller |-> Controller, silence |-> Silence,
     keyboard |-> InitKeyboard, mouse |-> InitMouse,
     scan1 |-> << Send(1, ENABLE_SCANNING, "final1") >>,
     scan2 |-> << Send(2, ENABLE_SCANNING, "final2") >>,
     done |-> <<>>]

This == Scripts[script][step]

At(op) == script # "done" /\ This.op = op

Order == <<"controller", "silence", "keyboard", "mouse", "scan1", "scan2", "done">>

Index(s) == CHOOSE i \in DOMAIN Order : Order[i] = s

Runs(d, s) ==
    CASE s = "controller" -> TRUE
      [] s = "silence" -> d.enabled
      [] s = "keyboard" -> d.enabled /\ d.valid[1]
      [] s = "mouse" -> d.enabled /\ d.valid[2]
      [] s = "scan1" -> d.keyboard.enabled
      [] s = "scan2" -> d.mouse.enabled
      [] s = "done" -> TRUE

Following(d) ==
    LET later == {i \in DOMAIN Order : i > Index(script) /\ Runs(d, Order[i])}
    IN  Order[CHOOSE i \in later : \A j \in later : i <= j]

\* The thread goes on: to the step that is n further, or, after the last one or
\* with n = 0, to the next script.  A device that is not enabled loses its handler
\* where it would have started to scan.
Advance(d, n) ==
    LET here == n # 0 /\ step + n <= Len(Scripts[script])
        lost(x) == /\ Index(script') > Index(<<"scan1", "scan2">>[x])
                   /\ d.handler[x] = "initIRQ"
    IN  /\ script' = IF here THEN script ELSE Following(d)
        /\ step' = IF here THEN step + n ELSE 1
        /\ tries' = 0 /\ waiting' = FALSE
        /\ drv' = [d EXCEPT !.handler = [x \in 1 .. 2 |-> IF lost(x) THEN "none" ELSE @[x]]]

-----------------------------------------------------------------------------
(***************************************************************************)
(* The devices and the controller.                                         *)
(***************************************************************************)
Sends(d, bytes) == line' = [line EXCEPT ![d] = @ \o bytes]

\* The controller's translation changes the second byte of the identification.
IdentityBytes(d) ==
    IF d = 1 THEN << \hAB, IF Bit(conf, TRANSLATION) THEN \h41 ELSE \h83 >>
             ELSE << device[2].type >>

\* The type of a mouse after it took a sample rate: the magic sequences.
TypeAfter(rates) ==
    CASE rates = <<200, 100, 80>> /\ machine.mouse >= 3 /\ device[2].type = 0 -> 3
      [] rates = <<200, 200, 80>> /\ machine.mouse >= 4 /\ device[2].type = 3 -> 4
      [] OTHER -> device[2].type

\* A device takes a byte: what it answers, and its state after it.
Reaction(d, byte) ==
    LET v == device[d]
    IN  CASE byte = RESET ->
               [bytes |-> <<ACK, SELFTEST_PASSED>>,
                v |-> [v EXCEPT !.expects = 0, !.scanning = (d = 1), !.leds = 0]]
          [] byte = DISABLE_SCANNING ->
               [bytes |-> <<ACK>>, v |-> [v EXCEPT !.expects = 0, !.scanning = FALSE]]
          [] byte = ENABLE_SCANNING ->
               [bytes |-> <<ACK>>, v |-> [v EXCEPT !.expects = 0, !.scanning = TRUE]]
          [] byte = IDENTIFY ->
               [bytes |-> <<ACK>> \o IdentityBytes(d), v |-> [v EXCEPT !.expects = 0]]
          [] byte \in {SET_SCANCODE_SET, SET_RATE, SET_LED, SET_RESOLUTION} ->
               [bytes |-> <<ACK>>, v |-> [v EXCEPT !.expects = byte]]
          [] byte < SET_RESOLUTION /\ v.expects # 0 ->
               LET rates == <<v.rates[2], v.rates[3], byte>>
               IN  [bytes |-> <<ACK>>,
                    v |-> CASE v.expects = SET_LED -> [v EXCEPT !.expects = 0, !.leds = byte]
                            [] v.expects = SET_RATE /\ d = 2 ->
                                 [v EXCEPT !.expects = 0, !.rates = rates,
                                           !.type = TypeAfter(rates)]
                            [] OTHER -> [v EXCEPT !.expects = 0]]
          [] OTHER -> [bytes |-> <<RESEND>>, v |-> v]

Present(d) == IF d = 1 THEN machine.keyboard ELSE machine.port2 /\ machine.mouse # UNKNOWN

\* A byte reaches a device, which answers or asks for it again, perhaps more than
\* once; or there is none.
ToDevice(d, byte) ==
    \/ /\ ~Present(d) \/ Bit(conf, CLOCK[d])
       /\ UNCHANGED <<line, device, faults>>
    \/ /\ Present(d) /\ ~Bit(conf, CLOCK[d])
       /\ \E r \in {Reaction(d, byte)} :
            /\ Sends(d, r.bytes)
            /\ device' = [device EXCEPT ![d] = r.v]
       /\ UNCHANGED faults
    \/ /\ Present(d) /\ ~Bit(conf, CLOCK[d])
       /\ IF tries = 0 THEN faults < MaxFaults /\ faults' = faults + 1
                       ELSE UNCHANGED faults
       /\ Sends(d, <<RESEND>>)
       /\ UNCHANGED device

\* A controller with one port ignores what is about the second one.
Config(byte) == IF machine.port2 THEN byte ELSE SetBit(byte, CLOCK[2])

\* The clock of a port that works is turned on.
On(byte, d) == IF drv.valid[d] THEN ClearBit(byte, CLOCK[d]) ELSE byte

Commanded(what) ==
    CASE what = "disable" -> Config(SetBit(SetBit(conf, CLOCK[1]), CLOCK[2]))
      [] what = "enable2" -> Config(ClearBit(conf, CLOCK[2]))
      [] what = "enable" -> Config(On(On(conf, 1), 2))
      [] OTHER -> conf

-----------------------------------------------------------------------------
(***************************************************************************)
(* The thread.                                                             *)
(***************************************************************************)
AnyValid == drv.valid[1] \/ drv.valid[2]

\* A command to the controller, and its answer.
Command ==
    /\ At("command")
    /\ This.what \in {"disable", "readConfig", "enable2", "test1", "test2", "enable"}
    /\ This.what = "enable" => AnyValid
    /\ conf' = Commanded(This.what)
    /\ CASE This.what \in {"readConfig", "enable2", "enable"} -> Sends(0, <<conf'>>)
         [] This.what = "test1" -> Sends(0, <<machine.test[1]>>)
         [] This.what = "test2" -> Sends(0, <<machine.test[2]>>)
         [] OTHER -> UNCHANGED line
    /\ Advance([drv EXCEPT !.enabled = @ \/ This.what = "enable"], 1)
    /\ UNCHANGED <<machine, obuf, device, moved, faults, history>>

\* Neither port works: the driver gives up.
NoPort ==
    /\ At("command") /\ This.what = "enable" /\ ~AnyValid
    /\ Advance(drv, 0)
    /\ UNCHANGED <<machine, conf, line, obuf, device, moved, faults, history>>

\* Scanning is disabled without waiting for an answer.
SilenceDevice(d) ==
    /\ At("command") /\ This.what = <<"silence1", "silence2">>[d]
    /\ \/ ~drv.valid[d] /\ UNCHANGED <<line, device, faults>>
       \/ drv.valid[d] /\ ToDevice(d, DISABLE_SCANNING)
    /\ Advance(drv, 1)
    /\ UNCHANGED <<machine, conf, obuf, moved, history>>

i8042_enableDevicesIRQs ==
    /\ At("command") /\ This.what = "irqs"
    /\ LET one == IF drv.valid[1] THEN SetBit(drv.configByte, INTERRUPT[1]) ELSE drv.configByte
           two == IF drv.valid[2] THEN SetBit(one, INTERRUPT[2]) ELSE one
       IN  /\ conf' = Config(two)
           /\ Advance([drv EXCEPT !.configByte = two, !.handler = <<"initIRQ", "initIRQ">>], 1)
    /\ UNCHANGED <<machine, line, obuf, device, moved, faults, history>>

\* What the driver does with a byte it polled, and the configuration it writes.
Polled(byte) ==
    LET d == [drv EXCEPT !.buff = byte]
        quiet == ClearBit(ClearBit(ClearBit(byte, INTERRUPT[1]), INTERRUPT[2]), CLOCK[1])
        two == ClearBit(ClearBit(byte, INTERRUPT[2]), CLOCK[2])
    IN  CASE This.what = "config" ->
               [d |-> [d EXCEPT !.translation = Bit(byte, TRANSLATION)], conf |-> quiet, n |-> 1]
          [] This.what = "port2" /\ Bit(byte, CLOCK[2]) ->
               [d |-> [d EXCEPT !.valid[2] = FALSE], conf |-> conf, n |-> 2]
          [] This.what = "port2" /\ ~Bit(byte, CLOCK[2]) ->
               [d |-> [d EXCEPT !.valid[2] = TRUE, !.buff = two], conf |-> two, n |-> 1]
          [] This.what = "test1" ->
               [d |-> [d EXCEPT !.valid[1] = (byte = 0)], conf |-> conf,
                n |-> IF drv.valid[2] THEN 1 ELSE 3]
          [] This.what = "test2" ->
               [d |-> [d EXCEPT !.valid[2] = (byte = 0)], conf |-> conf, n |-> 1]
          [] This.what = "configByte" ->
               [d |-> [d EXCEPT !.configByte = byte], conf |-> conf, n |-> 1]

Use(byte) ==
    \E p \in {Polled(byte)} : conf' = Config(p.conf) /\ Advance(p.d, p.n)

pollByte ==
    /\ At("poll") /\ obuf # <<>>
    /\ Use(obuf[1].byte)
    /\ obuf' = <<>>
    /\ UNCHANGED <<machine, line, device, moved, faults, history>>

\* A byte is on its way to the output buffer, or from there to a handler.
Deliverable(d) == line[d] # <<>> /\ obuf = <<>> /\ (d # 0 => ~Bit(conf, CLOCK[d]))

\* The controller's own answers raise the interrupt of the first port.
IrqOf(d) == IF d = 2 THEN 2 ELSE 1

Served ==
    /\ obuf # <<>>
    /\ LET irq == IrqOf(obuf[1].dev)
       IN  Bit(conf, INTERRUPT[irq]) /\ drv.handler[irq] # "none"

Coming == Served \/ \E d \in 0 .. 2 : Deliverable(d)

\* Nothing has arrived in time: nothing is going to, or it is slow.
Overdue ==
    \/ ~Coming /\ UNCHANGED <<faults, history>>
    \/ /\ Coming /\ faults < MaxFaults
       /\ faults' = faults + 1
       /\ history' = history \cup {"slow"}

\* A failed read of the configuration counts as 0; a failed test leaves the byte
\* that was there.
PollTimeout ==
    /\ At("poll") /\ obuf = <<>> /\ Overdue
    /\ Use(IF This.what \in {"test1", "test2"} THEN drv.buff ELSE 0)
    /\ UNCHANGED <<machine, line, obuf, device, moved>>

i8042_flush ==
    /\ At("flush")
    /\ \/ /\ obuf # <<>>
          /\ obuf' = <<>>
          /\ UNCHANGED <<drv, script, step, tries, waiting, history>>
       \/ /\ obuf = <<>>
          /\ Advance(drv, 1)
          /\ history' = history \cup
               (IF \E d \in 1 .. 2 : line[d] # <<>> /\ ~Bit(conf, CLOCK[d])
                  THEN {"late"} ELSE {})
          /\ UNCHANGED obuf
    /\ UNCHANGED <<machine, conf, line, device, moved, faults>>

-----------------------------------------------------------------------------
\* Mutant: the identification as the controller translates it is not known.
KnownKeyboard_Untranslated(byte1, byte2) == byte1 = \hAB /\ byte2 = \h83

KnownKeyboard(byte1, byte2) ==
    \/ byte1 = \hAB /\ byte2 \in {\h41, \h54, \h83, \h84, \h85, \h86, \h90, \h91, \h92, \hC1}
    \/ byte1 = \hAC /\ byte2 = \hA1

\* The step is in the first call of getMouseType.
First == step <= Len(resetDevice \o getMouseType)

\* What the driver does with an answer (ok: it came in time), and how many steps
\* on it continues; 0 is a return.
Outcome(byte, ok) ==
    LET go(d, n) == [d |-> d, n |-> n]
        typed(t) == [drv EXCEPT !.mouse.type = t]
        found == [drv EXCEPT !.keyboard.enabled = TRUE, !.keyboard.LEDs = LED_NUMLOCK]
        what == This.what
    IN  CASE what = "ignore" -> go(drv, 1)
          [] what = "reset" -> go(drv, IF byte = ACK THEN 1 ELSE 0)
          [] what = "selftest" -> go(drv, IF ok /\ byte = SELFTEST_PASSED THEN 1 ELSE 0)
          [] what = "set" -> go([drv EXCEPT !.buff = byte], 1)
          [] what = "set2" ->
               IF drv.buff = ACK /\ byte = ACK
                 THEN go([drv EXCEPT !.keyboard.set = IF drv.translation THEN 1 ELSE 2], 1)
                 ELSE go(drv, 0)
          [] what = "identify" -> go(drv, IF byte = ACK THEN 1 ELSE 0)
          [] what = "byte1" -> IF ok THEN go([drv EXCEPT !.buff = byte], 1) ELSE go(found, 2)
          [] what = "byte2" ->
               IF ok /\ KnownKeyboard(drv.buff, byte) THEN go(found, 1) ELSE go(drv, 0)
          [] what = "identifyMouse" ->
               CASE byte = ACK -> go(drv, 1)
                 [] byte # ACK /\ First -> go(typed(UNKNOWN), 0)
                 [] OTHER -> go(typed(UNKNOWN), 2)
          [] what = "type" ->
               LET t == IF ok THEN byte ELSE UNKNOWN
               IN  go(typed(t), IF First /\ t = UNKNOWN THEN 0 ELSE 1)
          [] what = "named" ->
               IF drv.mouse.type \in {0, 3, 4}
                 THEN go([drv EXCEPT !.mouse.enabled = TRUE,
                                     !.mouse.packetSize = IF drv.mouse.type = 0 THEN 3 ELSE 4], 1)
                 ELSE go(drv, 1)
          [] what = "final1" -> go([drv EXCEPT !.handler[1] = "keyboardIRQ"], 1)
          [] what = "final2" -> go([drv EXCEPT !.handler[2] = "mouseIRQ"], 1)

Conclude(byte, ok, rest) ==
    \E o \in {Outcome(byte, ok)} : Advance([o.d EXCEPT !.response = rest], o.n)

\* sendByteToDeviceHandleResend sends, waits, and sends again if it is asked to.
SendByte ==
    /\ At("send") /\ ~waiting
    /\ ToDevice(This.dev, This.byte)
    /\ tries' = tries + 1
    /\ waiting' = TRUE
    /\ UNCHANGED <<machine, conf, obuf, drv, script, step, moved, history>>

\* Mutant: one try too many.
Again_OneMore(byte) == byte = RESEND /\ tries <= RETRIES

Again(byte) == byte = RESEND /\ tries < RETRIES

Answered ==
    /\ At("send") /\ waiting /\ drv.response # <<>>
    /\ LET byte == Head(drv.response)
           rest == Tail(drv.response)
       IN  \/ /\ Again(byte)
              /\ drv' = [drv EXCEPT !.response = rest]
              /\ waiting' = FALSE
              /\ UNCHANGED <<script, step, tries, history>>
           \/ /\ ~Again(byte)
              /\ Conclude(byte, TRUE, rest)
              /\ history' = history \cup (IF byte = RESEND THEN {"gaveUp"} ELSE {})
    /\ UNCHANGED <<machine, conf, line, obuf, device, moved, faults>>

\* Mutant: the wait has no limit.
NoAnswer_Never == FALSE /\ UNCHANGED vars

NoAnswer ==
    /\ At("send") /\ waiting /\ drv.response = <<>> /\ Overdue
    /\ Conclude(RESEND, FALSE, <<>>)
    /\ UNCHANGED <<machine, conf, line, obuf, device, moved>>

receiveByte ==
    /\ At("receive") /\ drv.response # <<>>
    /\ Conclude(Head(drv.response), TRUE, Tail(drv.response))
    /\ UNCHANGED <<machine, conf, line, obuf, device, moved, faults, history>>

ReceiveTimeout ==
    /\ At("receive") /\ drv.response = <<>> /\ Overdue
    /\ Conclude(0, FALSE, <<>>)
    /\ UNCHANGED <<machine, conf, line, obuf, device, moved>>

Thread ==
    \/ Command \/ NoPort \/ SilenceDevice(1) \/ SilenceDevice(2) \/ i8042_enableDevicesIRQs
    \/ pollByte \/ PollTimeout \/ i8042_flush
    \/ SendByte \/ Answered \/ NoAnswer \/ receiveByte \/ ReceiveTimeout

-----------------------------------------------------------------------------
(***************************************************************************)
(* Bytes come in.                                                          *)
(***************************************************************************)
Deliver(d) ==
    /\ Deliverable(d)
    /\ obuf' = << [dev |-> d, byte |-> Head(line[d])] >>
    /\ line' = [line EXCEPT ![d] = Tail(@)]
    /\ UNCHANGED <<machine, conf, device, drv, script, step, tries, waiting,
                   moved, faults, history>>

\* A movement in two's complement of nine bits, the ninth in the flags.
Movement(raw, sign) == raw - (IF sign THEN 256 ELSE 0)

Wheel(byte) == IF Bit(byte, 8) THEN (byte % 8) - 8 ELSE byte % 8

handleMousePacket(flags, raw_dx, raw_dy, wheelAndThumbBtn) ==
    [dx |-> Movement(raw_dx, Bit(flags, 16)), dy |-> Movement(raw_dy, Bit(flags, 32)),
     wheel |-> IF drv.mouse.type >= 3 THEN Wheel(wheelAndThumbBtn) ELSE 0,
     btn4 |-> drv.mouse.type >= 4 /\ Bit(wheelAndThumbBtn, 16)]

\* packet are the bytes so far: its length is packet_index.
mouseIRQ(byte) ==
    LET p == Append(drv.packet, byte)
        whole == Len(p) = 4 \/ (Len(p) = 3 /\ drv.mouse.packetSize <= 3)
        last == IF Len(p) = 4 THEN byte ELSE \hFF
    IN  /\ drv' = [drv EXCEPT !.packet = IF whole THEN <<>> ELSE p]
        /\ moved' = IF whole
                      THEN [moved EXCEPT !.seen = Append(@, handleMousePacket(p[1], p[2], p[3], last))]
                      ELSE moved

pushResponseBuffer(response, byte) ==
    IF Len(response) = RESPONSE_BUFFER_SIZE THEN response ELSE Append(response, byte)

\* The byte in the output buffer raises the interrupt of its device.  A device
\* without a handler is not read: the byte stays.
Interrupt ==
    /\ Served
    /\ LET d == IrqOf(obuf[1].dev)
           byte == obuf[1].byte
       IN  \/ /\ drv.handler[d] = "initIRQ"
              /\ drv' = [drv EXCEPT !.response = pushResponseBuffer(@, byte)]
              /\ UNCHANGED moved
           \/ /\ drv.handler[d] = "keyboardIRQ"
              /\ UNCHANGED <<drv, moved>>
           \/ /\ drv.handler[d] = "mouseIRQ"
              /\ mouseIRQ(byte)
    /\ obuf' = <<>>
    /\ UNCHANGED <<machine, conf, line, device, script, step, tries, waiting, faults, history>>

\* Somebody presses a key.
TypeKey ==
    /\ machine.keyboard /\ device[1].scanning
    /\ faults < MaxFaults
    /\ faults' = faults + 1
    /\ Sends(1, << \h1E >>)
    /\ history' = history \cup (IF drv.handler[1] = "keyboardIRQ" THEN {} ELSE {"typed"})
    /\ UNCHANGED <<machine, conf, obuf, device, drv, script, step, tries, waiting, moved>>

Flag(b, value) == IF b THEN value ELSE 0

Packet(m) ==
    LET t == device[2].type
        flags == 8 + Flag(m.dx < 0, 16) + Flag(m.dy < 0, 32)
    IN  <<flags, m.dx % 256, m.dy % 256>>
        \o CASE t = 0 -> <<>>
             [] t = 3 -> << m.wheel % 256 >>
             [] t = 4 -> << (m.wheel % 16) + Flag(m.btn4, 16) >>

\* Of a movement a mouse reports what its type has.
Reported(m) ==
    LET t == device[2].type
    IN  [m EXCEPT !.wheel = IF t = 0 THEN 0 ELSE @, !.btn4 = @ /\ t = 4]

\* Somebody moves the mouse.
MoveMouse(m) ==
    /\ Present(2) /\ device[2].scanning
    /\ Len(moved.sent) < MaxMoves
    /\ Sends(2, Packet(m))
    /\ moved' = [moved EXCEPT !.sent = Append(@, Reported(m))]
    /\ history' = history \cup (IF drv.handler[2] = "mouseIRQ" THEN {} ELSE {"moved"})
    /\ UNCHANGED <<machine, conf, obuf, device, drv, script, step, tries, waiting, faults>>

-----------------------------------------------------------------------------
\* The firmware leaves interrupts on, the keyboard scanning, and perhaps a key
\* that nobody has read.
Init ==
    /\ machine \in Machines
    /\ conf = Config(3 + Flag(machine.translation, TRANSLATION))
    /\ line = [d \in 0 .. 2 |-> <<>>]
    /\ obuf \in {<<>>, << [dev |-> 1, byte |-> \h1E] >>}
    /\ obuf # <<>> => machine.keyboard
    /\ device = [d \in 1 .. 2 |-> [expects |-> 0, scanning |-> d = 1, leds |-> 0,
                                   rates |-> <<0, 0, 0>>, type |-> 0]]
    /\ drv = [enabled |-> FALSE, valid |-> <<FALSE, FALSE>>, translation |-> FALSE,
              configByte |-> 0, buff |-> 0, response |-> <<>>, handler |-> <<"none", "none">>,
              keyboard |-> [enabled |-> FALSE, set |-> 0, LEDs |-> 0],
              mouse |-> [enabled |-> FALSE, type |-> 0, packetSize |-> 0], packet |-> <<>>]
    /\ script = "controller" /\ step = 1 /\ tries = 0 /\ waiting = FALSE
    /\ moved = [sent |-> <<>>, seen |-> <<>>]
    /\ faults = 0
    /\ history = {}

Next ==
    \/ Thread
    \/ \E d \in 0 .. 2 : Deliver(d)
    \/ Interrupt
    \/ TypeKey
    \/ \E m \in Motions : MoveMouse(m)

\* The thread runs, what a device has to send arrives, interrupts are served.
Spec ==
    /\ Init /\ [][Next]_vars
    /\ WF_vars(Thread) /\ WF_vars(Interrupt) /\ \A d \in 0 .. 2 : WF_vars(Deliver(d))

-----------------------------------------------------------------------------
Without(exceptions) == history \cap exceptions = {}

Undisturbed == Without({"late", "slow", "typed", "moved"})

Done == script = "done"

\* The response buffer keeps its size and the retries their limit.
TypeOK ==
    /\ Len(drv.response) <= RESPONSE_BUFFER_SIZE
    /\ Len(drv.packet) <= 3
    /\ Len(obuf) <= 1
    /\ tries \in 0 .. RETRIES
    /\ script \in DOMAIN Scripts
    /\ Done \/ step \in DOMAIN Scripts[script]
    /\ conf \in 0 .. 255

\* Once the controller is set up the driver knows it: the ports that passed their
\* test are used and no other, and the buffered configuration is the real one.
PortsExact ==
    Undisturbed /\ script # "controller" =>
      /\ drv.valid[1] <=> machine.test[1] = 0
      /\ drv.valid[2] <=> machine.port2 /\ machine.test[2] = 0
      /\ drv.translation = machine.translation
      /\ drv.enabled => drv.configByte = conf

\* Questions and answers stay in step: when a byte is first sent to a device, no
\* answer to an earlier one is left to be taken for the answer to this one.
AnswersMatch ==
    Undisturbed /\ At("send") /\ ~waiting /\ tries = 0 =>
      drv.response = <<>> /\ line[This.dev] = <<>>

\* A keyboard that works is found and scans, its scancodes go to keyboardIRQ,
\* the decoder chosen is the one for the scancodes that arrive, and if there is no
\* second port its LEDs are what the driver believes (with one, PS2_initMouse
\* resets the keyboard, which turns them off).
KeyboardWorks ==
    Done /\ Undisturbed /\ Without({"gaveUp"}) =>
      /\ drv.keyboard.enabled <=> machine.keyboard /\ machine.test[1] = 0
      /\ drv.keyboard.enabled =>
           /\ drv.handler[1] = "keyboardIRQ" /\ device[1].scanning
           /\ drv.keyboard.set = IF machine.translation THEN 1 ELSE 2
           /\ drv.valid[2] \/ device[1].leds = drv.keyboard.LEDs

\* A mouse that is used has the type the driver believes, whatever it made of
\* the magic sequences, so that packets have the size the handler expects; and
\* every movement is decoded once, in order, with its sign.
MouseAgrees ==
    Undisturbed =>
      /\ Done /\ drv.mouse.enabled =>
           /\ drv.mouse.type = device[2].type
           /\ drv.mouse.packetSize = IF device[2].type = 0 THEN 3 ELSE 4
      /\ Len(moved.seen) <= Len(moved.sent)
      /\ \A i \in DOMAIN moved.seen : moved.seen[i] = moved.sent[i]

\* The start of the driver ends: devices that are absent, slow or answer nothing
\* but requests to resend do not hold it up for ever.
InitEnds == <>Done
=============================================================================
