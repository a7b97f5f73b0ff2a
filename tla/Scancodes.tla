------------------------------ MODULE Scancodes ------------------------------
(***************************************************************************)
(* The keyboard half of the PS/2 driver (Kernel/Drivers/Input/PS2.c): the  *)
(* decoders of scancode sets 1 and 2 and the exchange that sets the LEDs.  *)
(* A decoder is an operator from the driver's static variables and a byte  *)
(* to the static variables after it: s.kb is the keyboard subsystem that   *)
(* it notifies, s.out the bytes it sends to the keyboard.                  *)
(***************************************************************************)
EXTENDS Keyboard, Sequences

ACK == \hFA
RESEND == \hFE
SET_LED == [cmd |-> "SET_LED"]

Leds(leds) == [cmd |-> "LEDS", leds |-> leds]

\* The static variables of one handleScancodeSetN, with m_PS2Keyboard.
Decoder(set) ==
    [set |-> set, released |-> FALSE, escaped |-> FALSE, pressed_seq |-> 0,
     released_seq |-> 0, pause_seq |-> 0, was_set |-> {}, wanted_leds |-> {},
     resend_count |-> 0, led_sequence |-> 0, LEDs |-> {"NUMLOCK"}]

Lookup(table, code) == IF code \in DOMAIN table THEN table[code] ELSE "RESERVED"

\* The tables, for the keys of the model.
getKeycodeSet1(code) ==
    Lookup((\h1D :> "LCTRL") @@ (\h1E :> "A") @@ (\h2A :> "LSHIFT") @@ (\h36 :> "RSHIFT")
             @@ (\h37 :> "NUMPAD_ASTERISK") @@ (\h38 :> "LALT") @@ (\h3A :> "CAPSLOCK")
             @@ (\h45 :> "NUMLOCK") @@ (\h46 :> "SCROLLLOCK") @@ (\h47 :> "NUMPAD_7")
             @@ (\h4C :> "NUMPAD_5"), code)

getKeycodeEscapedSet1(code) ==
    Lookup((\h1D :> "RCTRL") @@ (\h2A :> "IGNORE") @@ (\h36 :> "IGNORE")
             @@ (\h37 :> "IGNORE") @@ (\h38 :> "RALT") @@ (\h46 :> "IGNORE")
             @@ (\h47 :> "HOME") @@ (\h48 :> "UP") @@ (\h5B :> "LMETA"), code)

getKeycodeSet2(code) ==
    Lookup((\h11 :> "LALT") @@ (\h12 :> "LSHIFT") @@ (\h14 :> "LCTRL") @@ (\h1C :> "A")
             @@ (\h58 :> "CAPSLOCK") @@ (\h59 :> "RSHIFT") @@ (\h6C :> "NUMPAD_7")
             @@ (\h73 :> "NUMPAD_5") @@ (\h77 :> "NUMLOCK")
             @@ (\h7C :> "NUMPAD_ASTERISK") @@ (\h7E :> "SCROLLLOCK"), code)

getKeycodeEscapedSet2(code) ==
    Lookup((\h11 :> "RALT") @@ (\h14 :> "RCTRL") @@ (\h1F :> "LMETA")
             @@ (\h6C :> "HOME") @@ (\h75 :> "UP"), code)

-----------------------------------------------------------------------------
notifyPressed(s, k) == [s EXCEPT !.kb = Keyboard_notifyPressed(@, k)]

notifyReleased(s, k) == [s EXCEPT !.kb = Keyboard_notifyReleased(@, k)]

reset_state(s) ==
    [s EXCEPT !.released = FALSE, !.escaped = FALSE, !.pressed_seq = 0,
              !.released_seq = 0, !.pause_seq = 0]

\* Mutant: an answer that ends the exchange starts it anew.
cycleLedSequence_Restarts(s, startSequence, acked) ==
    LET seq == (IF startSequence THEN 1 ELSE s.led_sequence) + (IF acked THEN 1 ELSE 0)
        at == IF seq = 3 THEN 1 ELSE seq
    IN  [s EXCEPT !.led_sequence = at,
                  !.out = CASE at = 1 -> Append(@, SET_LED)
                            [] at = 2 -> Append(@, Leds(s.wanted_leds))
                            [] OTHER -> @]

\* The exchange with the keyboard: 1, the command was sent; 2, the value was
\* sent; 3, both were acknowledged.
cycleLedSequence(s, startSequence, acked) ==
    LET seq == (IF startSequence THEN 1 ELSE s.led_sequence) + (IF acked THEN 1 ELSE 0)
    IN  [s EXCEPT !.led_sequence = IF seq = 3 THEN 0 ELSE seq,
                  !.out = CASE seq = 1 -> Append(@, SET_LED)
                            [] seq = 2 -> Append(@, Leds(s.wanted_leds))
                            [] OTHER -> @]

\* Of the lock keys, those that are still down are reported, in this order.
NotifyLock(s, k) == IF k \in s.was_set THEN notifyPressed(s, k) ELSE s

Acknowledged(s) ==
    LET t == cycleLedSequence(s, FALSE, TRUE)
    IN  IF s.led_sequence # 2 THEN t
          ELSE NotifyLock(NotifyLock(NotifyLock([t EXCEPT !.LEDs = s.wanted_leds],
                                                "NUMLOCK"), "SCROLLLOCK"), "CAPSLOCK")

\* Mutant: the driver sends a byte again as often as it is asked to.
Resend_NoLimit(s) == cycleLedSequence([s EXCEPT !.resend_count = @ + 1], FALSE, FALSE)

Resend(s) ==
    IF s.resend_count = 2
      THEN reset_state([s EXCEPT !.resend_count = 0])
      ELSE cycleLedSequence([s EXCEPT !.resend_count = @ + 1], FALSE, FALSE)

Notify(s, k) == reset_state(IF s.released THEN notifyReleased(s, k) ELSE notifyPressed(s, k))

\* Mutant: the value for the LEDs is computed from what was last wanted.
LockKey_FromWanted(s, k) ==
    CASE s.released -> Notify([s EXCEPT !.was_set = @ \ {k}], k)
      [] ~s.released /\ k \in s.was_set -> Notify(s, k)
      [] OTHER -> cycleLedSequence([s EXCEPT !.wanted_leds = Toggle(@, k),
                                             !.was_set = @ \cup {k}], TRUE, FALSE)

\* A lock key: its first press starts the exchange and is reported after it.
LockKey(s, k) ==
    CASE s.released -> Notify([s EXCEPT !.was_set = @ \ {k}], k)
      [] ~s.released /\ k \in s.was_set -> Notify(s, k)
      [] OTHER -> cycleLedSequence([s EXCEPT !.wanted_leds = Toggle(s.LEDs, k),
                                             !.was_set = @ \cup {k}], TRUE, FALSE)

HandleKeycode(s, k) ==
    CASE k \in {"RESERVED", "IGNORE"} -> reset_state(s)
      [] k \in {"NUMLOCK", "SCROLLLOCK", "CAPSLOCK"} -> LockKey(s, k)
      [] OTHER -> Notify(s, k)

-----------------------------------------------------------------------------
\* A check for a sequence of several bytes returns from the handler (done) or
\* goes on to what follows it.
Return(s) == [s |-> s, done |-> TRUE]

Continue(s) == [s |-> s, done |-> FALSE]

OrElse(check, next(_)) == CHOOSE r \in {IF c.done THEN c ELSE next(c.s) : c \in {check}} : TRUE

PrintScreenMake1 == <<\hE0, \h2A, \hE0, \h37>>

PrintScreenBreak1 == <<\hE0, \hB7, \hE0, \hAA>>

Pause1 == <<\hE1, \h1D, \h45, \hE1, \h9D, \hC5>>

PrintScreenMake2 == <<\hE0, \h12, \hE0, \h7C>>

PrintScreenBreak2 == <<\hE0, \hF0, \h7C, \hE0, \hF0, \h12>>

Pause2 == <<\hE1, \h14, \h77, \hE1, \hF0, \h14, \hF0, \h77>>

PrintScreenPressed1(s, code) ==
    LET p == s.pressed_seq
        hit == code = PrintScreenMake1[p + 1]
    IN  CASE p = 0 -> Continue(s)
          [] p > 0 /\ ~hit -> Continue([s EXCEPT !.pressed_seq = 0, !.escaped = @ \/ p = 3])
          [] p \in {1, 2} /\ hit ->
               Return([s EXCEPT !.pressed_seq = p + 1, !.escaped = @ /\ p # 1])
          [] p = 3 /\ hit -> Return(reset_state(notifyPressed(s, "PRINTSCREEN")))

PrintScreenReleased1(s, code) ==
    LET p == s.released_seq
        hit == code = PrintScreenBreak1[p + 1]
    IN  CASE p = 0 -> Continue(s)
          [] p > 0 /\ ~hit -> Continue([s EXCEPT !.released_seq = 0])
          [] p \in {1, 2} /\ hit -> Return([s EXCEPT !.released_seq = p + 1])
          [] p = 3 /\ hit -> Return(reset_state(notifyReleased(s, "PRINTSCREEN")))

PauseSequence(s, code, seq) ==
    LET p == s.pause_seq
        hit == code = seq[p + 1]
    IN  CASE p = 0 -> Continue(s)
          [] p > 0 /\ ~hit -> Continue([s EXCEPT !.pause_seq = 0])
          [] p > 0 /\ p < Len(seq) - 1 /\ hit -> Return([s EXCEPT !.pause_seq = p + 1])
          [] p = Len(seq) - 1 /\ hit -> Return(reset_state(notifyPressed(s, "PAUSE")))

Escape(s) == [s EXCEPT !.escaped = TRUE, !.pressed_seq = 1, !.released_seq = 1]

SingleByte1(s, code) ==
    LET t == IF code >= \h80 THEN [s EXCEPT !.released = TRUE] ELSE s
    IN  CASE code = \h54 -> [s EXCEPT !.kb = Keyboard_notifySysRq(@)]
          [] code = \hE0 -> Escape(s)
          [] code = \hE1 -> [s EXCEPT !.pause_seq = 1]
          [] code = \hD4 -> s
          [] code = ACK -> Acknowledged(s)
          [] code = RESEND -> Resend(s)
          [] OTHER -> HandleKeycode(t, IF s.escaped THEN getKeycodeEscapedSet1(code % \h80)
                                                    ELSE getKeycodeSet1(code % \h80))

handleScancodeSet1(s, code) ==
    LET released(t) == PrintScreenReleased1(t, code)
        pause(t) == PauseSequence(t, code, Pause1)
        single(t) == Return(SingleByte1(t, code))
    IN  OrElse(OrElse(OrElse(PrintScreenPressed1(s, code), released), pause), single).s

-----------------------------------------------------------------------------
PrintScreenPressed2(s, code) ==
    LET p == s.pressed_seq
        hit == code = PrintScreenMake2[p + 1]
    IN  CASE p = 0 -> Continue(s)
          [] p > 0 /\ ~hit -> Continue([s EXCEPT !.pressed_seq = 0, !.escaped = @ \/ p # 2])
          [] p \in {1, 2} /\ hit ->
               Return([s EXCEPT !.pressed_seq = p + 1, !.escaped = @ /\ p # 1])
          [] p = 3 /\ hit ->
               Return([notifyPressed(s, "PRINTSCREEN") EXCEPT !.pressed_seq = 0])

PrintScreenReleased2(s, code) ==
    LET p == s.released_seq
        hit == code = PrintScreenBreak2[p + 1]
        done(t) == [t EXCEPT !.released_seq = 0, !.escaped = FALSE, !.released = FALSE]
    IN  CASE p = 0 -> Continue(s)
          [] p = 1 /\ hit -> Continue([s EXCEPT !.released_seq = 2, !.released = TRUE])
          [] p = 3 /\ ~hit -> Continue(done(s))
          [] p \in {1, 2, 4, 5} /\ ~hit -> Continue([s EXCEPT !.released_seq = 0])
          [] p \in 2 .. 4 /\ hit -> Return([s EXCEPT !.released_seq = p + 1])
          [] p = 5 /\ hit -> Return(done(notifyReleased(s, "PRINTSCREEN")))

SingleByte2(s, code) ==
    CASE code = \h12 /\ s.escaped -> reset_state(s)
      [] code = \h84 -> IF s.released THEN s ELSE [s EXCEPT !.kb = Keyboard_notifySysRq(@)]
      [] code = \hE0 -> Escape(s)
      [] code = \hE1 -> [s EXCEPT !.pause_seq = 1]
      [] code = \hF0 -> [s EXCEPT !.released = TRUE]
      [] code = ACK -> Acknowledged(s)
      [] code = RESEND -> Resend(s)
      [] OTHER -> HandleKeycode(s, IF s.escaped THEN getKeycodeEscapedSet2(code)
                                                ELSE getKeycodeSet2(code))

handleScancodeSet2(s, code) ==
    LET released(t) == PrintScreenReleased2(t, code)
        pause(t) == PauseSequence(t, code, Pause2)
        single(t) == Return(SingleByte2(t, code))
    IN  OrElse(OrElse(OrElse(PrintScreenPressed2(s, code), released), pause), single).s
=============================================================================
