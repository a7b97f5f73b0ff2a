---------------------------- MODULE KeyboardInput ----------------------------
(***************************************************************************)
(* From the keys to the callbacks: somebody at the keyboard, the keyboard  *)
(* with its queue of bytes, the interrupt handler keyboardIRQ with the     *)
(* decoder it calls, and kmain, which initializes the keyboard subsystem   *)
(* after the PS/2 driver.                                                  *)
(***************************************************************************)
EXTENDS Scancodes, SequencesExt

CONSTANTS
    Keys,           \* the keys somebody uses
    ScancodeSets,   \* the decoders considered, among 1 and 2
    MaxStrokes,     \* bound on presses, repeats and releases
    MaxPending,     \* key events the keyboard holds back
    MaxResends,     \* bound on the bytes the keyboard asks for again
    EarlyStrokes    \* presses before Keyboard_init

VARIABLES
    drv,        \* the driver's static variables
    kb,         \* the keyboard subsystem's
    booted,     \* Keyboard_init has run
    held,       \* the keys that are down
    pending,    \* the key events not yet sent, each with the bytes that are left
    mid,        \* the key whose event has been sent in part
    answers,    \* answers of the keyboard not yet sent
    leds,       \* the LEDs that are lit
    wantsData,  \* the keyboard waits for the value of SET_LED
    last,       \* the key that repeats
    strokes, resends,
    history     \* what happened that the properties make an exception for

env == <<held, pending, mid, answers, leds, wantsData, last, strokes, resends>>
vars == <<drv, kb, booted, env, history>>

Locks == {"NUMLOCK", "SCROLLLOCK", "CAPSLOCK"}

-----------------------------------------------------------------------------
(***************************************************************************)
(* The keyboard: the bytes of its keys.                                    *)
(***************************************************************************)
Code1 == [LCTRL |-> \h1D, A |-> \h1E, LSHIFT |-> \h2A, RSHIFT |-> \h36,
          NUMPAD_ASTERISK |-> \h37, LALT |-> \h38, CAPSLOCK |-> \h3A, NUMLOCK |-> \h45,
          SCROLLLOCK |-> \h46, NUMPAD_7 |-> \h47, NUMPAD_5 |-> \h4C, RCTRL |-> \h1D,
          RALT |-> \h38, UP |-> \h48, LMETA |-> \h5B]

Code2 == [LCTRL |-> \h14, A |-> \h1C, LSHIFT |-> \h12, RSHIFT |-> \h59,
          NUMPAD_ASTERISK |-> \h7C, LALT |-> \h11, CAPSLOCK |-> \h58, NUMLOCK |-> \h77,
          SCROLLLOCK |-> \h7E, NUMPAD_7 |-> \h6C, NUMPAD_5 |-> \h73, RCTRL |-> \h14,
          RALT |-> \h11, UP |-> \h75, LMETA |-> \h1F]

Prefix(k) == IF k \in {"RCTRL", "RALT", "UP", "LMETA"} THEN <<\hE0>> ELSE <<>>

\* SysRq is Print Screen with Alt; its release repeats the release of Alt.
MakeBytes(set, k) ==
    CASE k = "PRINTSCREEN" -> IF set = 1 THEN PrintScreenMake1 ELSE PrintScreenMake2
      [] k = "PAUSE" -> IF set = 1 THEN Pause1 ELSE Pause2
      [] k = "SYSRQ" -> IF set = 1 THEN <<\h54>> ELSE <<\h84>>
      [] OTHER -> Prefix(k) \o (IF set = 1 THEN <<Code1[k]>> ELSE <<Code2[k]>>)

BreakBytes(set, k) ==
    CASE k = "PRINTSCREEN" -> IF set = 1 THEN PrintScreenBreak1 ELSE PrintScreenBreak2
      [] k = "PAUSE" -> <<>>
      [] k = "SYSRQ" -> IF set = 1 THEN <<\hD4, \hB8, \h38>>
                                   ELSE <<\hF0, \h84, \hF0, \h11, \h11>>
      [] OTHER -> Prefix(k) \o (IF set = 1 THEN <<Code1[k] + \h80>> ELSE <<\hF0, Code2[k]>>)

Enqueue(k, bytes) ==
    pending' = IF bytes = <<>> THEN pending ELSE Append(pending, [key |-> k, bytes |-> bytes])

\* The exchange over the LEDs is under way.
Exchanging ==
    \/ drv.led_sequence # 0
    \/ answers # <<>>
    \/ \E i \in DOMAIN pending : pending[i].key \in Locks

Quiet == booted /\ pending = <<>> /\ answers = <<>>

-----------------------------------------------------------------------------
Init ==
    /\ \E set \in ScancodeSets : drv = Decoder(set)
    /\ kb = Statics
    /\ booted = FALSE
    /\ held = {} /\ pending = <<>> /\ mid = NULL /\ answers = <<>>
    /\ leds = {"NUMLOCK"} /\ wantsData = FALSE /\ last = NULL
    /\ strokes = 0 /\ resends = 0
    /\ history = {}

\* kmain: PS2_init has enabled the interrupt already.
Keyboard_init_ ==
    /\ ~booted
    /\ booted' = TRUE
    /\ kb' = Keyboard_init(kb)
    /\ history' = history \cup (IF strokes > 0 THEN {"early"} ELSE {})
    /\ UNCHANGED <<drv, env>>

CanStroke ==
    /\ strokes < IF booted THEN MaxStrokes ELSE EarlyStrokes
    /\ Len(pending) < MaxPending
    /\ strokes' = strokes + 1

Press(k) ==
    /\ CanStroke
    /\ k \notin held
    /\ k = "SYSRQ" => "LALT" \in held /\ "PRINTSCREEN" \notin held
    /\ k = "PRINTSCREEN" => "LALT" \notin held
    /\ held' = held \cup ({k} \ {"PAUSE"})
    /\ last' = IF k \in {"PAUSE", "SYSRQ"} THEN NULL ELSE k
    /\ Enqueue(k, MakeBytes(drv.set, k))
    /\ history' = history
         \cup (IF k \in Locks /\ (Exchanging \/ held \cap Locks # {}) THEN {"overlap"} ELSE {})
         \cup (IF "NUMLOCK" \in held' /\ \E n \in held' : isNumpadKey(n) THEN {"pad"} ELSE {})
    /\ UNCHANGED <<drv, kb, booted, mid, answers, leds, wantsData, resends>>

\* The key pressed last repeats while it is down.
Repeat ==
    /\ CanStroke
    /\ last \in held
    /\ Enqueue(last, MakeBytes(drv.set, last))
    /\ history' = history \cup (IF last \in Locks THEN {"repeat"} ELSE {})
    /\ UNCHANGED <<drv, kb, booted, held, mid, answers, leds, wantsData, last, resends>>

Release(k) ==
    /\ CanStroke
    /\ k \in held
    /\ k = "LALT" => "SYSRQ" \notin held
    /\ held' = held \ {k}
    /\ last' = IF last = k THEN NULL ELSE last
    /\ Enqueue(k, BreakBytes(drv.set, k))
    /\ history' = history
         \cup (IF k \in Locks /\ Exchanging THEN {"overlap"} ELSE {})
    /\ UNCHANGED <<drv, kb, booted, mid, answers, leds, wantsData, resends>>

-----------------------------------------------------------------------------
\* The keyboard takes a byte from the driver and answers it, or asks for it again.
Answer(cmd, queue) ==
    \/ /\ answers' = Append(queue, ACK)
       /\ wantsData' = (cmd = SET_LED)
       /\ leds' = IF wantsData /\ cmd # SET_LED THEN cmd.leds ELSE leds
       /\ resends' = resends
    \/ /\ resends < MaxResends
       /\ answers' = Append(queue, RESEND)
       /\ resends' = resends + 1
       /\ UNCHANGED <<leds, wantsData>>

\* The interrupt handler calls the decoder of the scancode set in use.  The byte
\* that it may send to the keyboard reaches it at once.
keyboardIRQ(code, queue) ==
    LET before == [out |-> <<>>, kb |-> kb] @@ drv
    IN  \E s \in {IF drv.set = 1 THEN handleScancodeSet1(before, code)
                                 ELSE handleScancodeSet2(before, code)} :
          /\ kb' = s.kb
          /\ drv' = [f \in DOMAIN drv |-> s[f]]
          /\ \/ /\ s.out = <<>>
                /\ answers' = queue
                /\ UNCHANGED <<leds, wantsData, resends>>
             \/ s.out # <<>> /\ Answer(s.out[1], queue)

KeyByte ==
    /\ pending # <<>>
    /\ LET key == Head(pending).key
           bytes == Head(pending).bytes
       IN  /\ keyboardIRQ(Head(bytes), answers)
           /\ mid' = IF Len(bytes) > 1 THEN key ELSE NULL
           /\ pending' = IF Len(bytes) > 1
                           THEN [pending EXCEPT ![1].bytes = Tail(bytes)]
                           ELSE Tail(pending)
    /\ UNCHANGED <<booted, held, last, strokes, history>>

AnswerByte ==
    /\ answers # <<>>
    /\ keyboardIRQ(Head(answers), Tail(answers))
    /\ LET gaveUp == Head(answers) = RESEND /\ drv.resend_count = 2
       IN  history' = history
             \cup (IF gaveUp THEN {"gaveUp"} ELSE {})
             \cup (IF mid \in {"PRINTSCREEN", "PAUSE"} \/ (mid # NULL /\ gaveUp)
                     THEN {"split"} ELSE {})
    /\ UNCHANGED <<booted, held, pending, mid, last, strokes>>

Next ==
    \/ Keyboard_init_
    \/ \E k \in Keys : Press(k) \/ Release(k)
    \/ Repeat
    \/ KeyByte
    \/ AnswerByte

\* The keyboard sends what it holds; nobody has to press a key.
Spec == Init /\ [][Next]_vars /\ WF_vars(KeyByte \/ AnswerByte)

-----------------------------------------------------------------------------
\* The behaviours the properties make an exception for (see history).
Without(exceptions) == history \cap exceptions = {}

\* The static variables stay in range: the exchange over the LEDs has three
\* stages and a byte is sent again at most twice (PS2.c, resend_count).
TypeOK ==
    /\ drv.led_sequence \in 0 .. 2 /\ drv.resend_count \in 0 .. 2
    /\ drv.LEDs \subseteq Locks /\ drv.was_set \subseteq Locks
    /\ kb.modifierKeys \subseteq DOMAIN Sides \cup {"NUMLOCK", "CAPSLOCK"}
    /\ held \subseteq Keys

\* When every byte has been handled, the flag of a modifier that the callbacks
\* receive is set exactly while one of its two keys is down, in whatever order
\* presses, releases, repeats and answers of the keyboard came in.
ModifiersExact ==
    Quiet /\ Without({"early", "split"}) =>
      \A m \in DOMAIN Sides : m \in kb.modifierKeys <=> Sides[m] \cap held # {}

Reported(k) == k \in kb.shown \/ getNumpadKey_NoNumluck(k) \in kb.shown

\* The callbacks know which keys are down: a key that is held was reported as
\* pressed, and no key stays reported as pressed when it is up, although the
\* meaning of a key of the numeric pad may change between press and release
\* (Keyboard_notifyReleased: "translate it for break if it was for make").
NoStuckKeys ==
    Quiet /\ Without({"early", "pad", "split"}) =>
      /\ \A k \in held \ (Locks \cup {"NUMPAD_5", "SYSRQ"}) : Reported(k)
      /\ \A x \in kb.shown \ (Locks \cup {"PAUSE"}) :
           \E k \in held : x \in {k, getNumpadKey_NoNumluck(k)}

\* The letter reported for a key is the one that somebody expects from the
\* CapsLock LED and the modifiers that are down.
LetterCase ==
    /\ Quiet /\ last = "A" /\ kb.event.key = "A"
    /\ Without({"early", "overlap", "repeat", "gaveUp", "split"})
    => LET shift == Sides["SHIFT"] \cap held # {}
       IN  kb.event.chr =
             IF "RALT" \in held THEN IF shift THEN "Omega" ELSE "@"
               ELSE IF shift = ("CAPSLOCK" \in leds) THEN "q" ELSE "Q"

\* Three copies of the lock state agree when the exchange is over and no lock key
\* is down: the LEDs of the keyboard, what the driver believes them to be
\* (LEDs) and what the keyboard subsystem uses (m_capslockOn, m_numlockOn).
LedsAgree ==
    /\ Quiet /\ held \cap Locks = {}
    /\ Without({"early", "overlap", "repeat", "gaveUp", "split"})
    => /\ kb.capslockOn <=> "CAPSLOCK" \in leds
       /\ kb.numlockOn <=> "NUMLOCK" \in leds
       /\ drv.LEDs = leds

\* The exchange with the keyboard ends: a keyboard that asks for a byte again
\* and again, and one that acknowledges, is not answered for ever.
TrafficEnds == <>[](pending = <<>> /\ answers = <<>>)
=============================================================================
