------------------------------- MODULE Keyboard -------------------------------
(***************************************************************************)
(* The keyboard subsystem (Kernel/Drivers/Input/Keyboard.c) as operators   *)
(* on a record of its static variables: modifier keys, lock keys, the      *)
(* numeric pad, the characters of the AZERTY layout and the callbacks.     *)
(* A boolean per key is the set of the keys for which it is true.          *)
(***************************************************************************)
EXTENDS Naturals, FiniteSets, TLC

CONSTANT MAX_CALLBACKS      \* slots for callbacks

ASSUME CallbackAssumption == MAX_CALLBACKS \in Nat \ {0}

NULL == "NULL"

Slots == 0 .. MAX_CALLBACKS - 1

\* The two keys of each modifier.
Sides == [SHIFT |-> {"LSHIFT", "RSHIFT"}, CTRL |-> {"LCTRL", "RCTRL"},
          ALT |-> {"LALT", "RALT"}, META |-> {"LMETA", "RMETA"}]

ModifierKeys == UNION {Sides[m] : m \in DOMAIN Sides}

\* The static variables before Keyboard_init runs.
Statics ==
    [pressed |-> {}, modifierKeys |-> {}, numlockOn |-> FALSE, capslockOn |-> FALSE,
     keyWasFunction |-> {}, callbacks |-> [i \in Slots |-> NULL], callbackOn |-> TRUE,
     shown |-> {}, event |-> [key |-> NULL, chr |-> 0]]

Toggle(flags, f) == (flags \ {f}) \cup ({f} \ flags)

-----------------------------------------------------------------------------
\* The numeric pad: what a key stands for without NumLock.
getNumpadKey_NoNumluck(k) ==
    CASE k = "NUMPAD_7" -> "HOME"
      [] k = "NUMPAD_8" -> "UP"
      [] OTHER -> "RESERVED"

isNumpadKey(k) == k \in {"NUMPAD_7", "NUMPAD_8", "NUMPAD_5"}

-----------------------------------------------------------------------------
\* The character tables, for the keys of the model; 0 is "not printable".
CharOf(table, k) == IF k \in DOMAIN table THEN table[k] ELSE 0

PadChars == [NUMPAD_7 |-> "7", NUMPAD_8 |-> "8", NUMPAD_5 |-> "5", NUMPAD_ASTERISK |-> "*"]

getChar_AZERTY_NoModifier(k) == CharOf([A |-> "q"] @@ PadChars, k)

getChar_AZERTY_CapsLock(k) == CharOf([A |-> "Q"] @@ PadChars, k)

getChar_AZERTY_ShiftAltGr(k) == CharOf([A |-> "Omega"] @@ PadChars, k)

getChar_AZERTY_AltGr(k) == CharOf([A |-> "@"] @@ PadChars, k)

getChar_AZERTY_Shift(k) == CharOf([A |-> "Q"] @@ PadChars, k)

\* Mutant: Shift is looked at before CapsLock.
getChar_AZERTY_ShiftWins(kb, k) ==
    LET shift == Sides["SHIFT"] \cap kb.pressed # {}
        altGr == "RALT" \in kb.pressed
    IN  CASE shift /\ ~altGr -> getChar_AZERTY_Shift(k)
          [] altGr /\ ~shift -> getChar_AZERTY_AltGr(k)
          [] shift /\ altGr -> getChar_AZERTY_ShiftAltGr(k)
          [] kb.capslockOn /\ ~shift -> getChar_AZERTY_CapsLock(k)
          [] OTHER -> getChar_AZERTY_NoModifier(k)

getChar_AZERTY(kb, k) ==
    LET shift == Sides["SHIFT"] \cap kb.pressed # {}
        altGr == "RALT" \in kb.pressed
    IN  CASE shift /\ ~altGr /\ ~kb.capslockOn -> getChar_AZERTY_Shift(k)
          [] altGr /\ ~shift -> getChar_AZERTY_AltGr(k)
          [] shift /\ altGr -> getChar_AZERTY_ShiftAltGr(k)
          [] kb.capslockOn /\ ~shift /\ ~altGr -> getChar_AZERTY_CapsLock(k)
          [] OTHER -> getChar_AZERTY_NoModifier(k)

-----------------------------------------------------------------------------
\* Callbacks.
Free(kb) == {i \in Slots : kb.callbacks[i] = NULL}

findAvailableCallbackIndex(kb) == CHOOSE i \in Free(kb) : \A j \in Free(kb) : i <= j

Keyboard_registerKeyCallback(kb, callback) ==
    IF Free(kb) = {} THEN kb
      ELSE [kb EXCEPT !.callbacks[findAvailableCallbackIndex(kb)] = callback]

Keyboard_unregisterKeyCallback(kb, callback) ==
    [kb EXCEPT !.callbacks = [i \in Slots |-> IF @[i] = callback THEN NULL ELSE @[i]]]

\* Every callback is told of the key: "shown" are the keys a callback knows to
\* be down, "event" is what it was told last.
executeCallbacks(kb, k, down) ==
    [kb EXCEPT !.shown = IF down THEN @ \cup {k} ELSE @ \ {k},
               !.event = [key |-> k, chr |-> getChar_AZERTY(kb, k)]]

Keyboard_notifySysRq(kb) ==
    [IF kb.callbackOn THEN Keyboard_unregisterKeyCallback(kb, "printKey")
                      ELSE Keyboard_registerKeyCallback(kb, "printKey")
     EXCEPT !.callbackOn = ~@]

Keyboard_init(kb) ==
    Keyboard_registerKeyCallback(
        [kb EXCEPT !.modifierKeys = {"NUMLOCK"}, !.pressed = @ \ Sides["SHIFT"],
                   !.numlockOn = TRUE, !.capslockOn = FALSE, !.keyWasFunction = {},
                   !.callbacks = [i \in Slots |-> NULL]],
        "printKey")

-----------------------------------------------------------------------------
\* The flag a modifier key changes: for LCTRL it is that of RCTRL.
FlagOf(k) == IF k = "LCTRL" THEN "RCTRL" ELSE k

\* Mutant: the translation depends on NumLock at the release only.
NumpadReleased_NowOnly(kb, k) ==
    IF k # "NUMPAD_5" /\ isNumpadKey(k) /\ ~kb.numlockOn
      THEN executeCallbacks(kb, getNumpadKey_NoNumluck(k), FALSE)
      ELSE executeCallbacks(kb, k, FALSE)

\* The numeric pad on release: translated if it was for the press, or if
\* NumLock is off.  The key 5 has no function and is not reported then.
NumpadReleased(kb, k) ==
    LET wasFunction == k \in kb.keyWasFunction
    IN  CASE k = "NUMPAD_5" /\ wasFunction ->
               [kb EXCEPT !.keyWasFunction = @ \ {k}]
          [] k # "NUMPAD_5" /\ isNumpadKey(k) /\ (wasFunction \/ ~kb.numlockOn) ->
               executeCallbacks([kb EXCEPT !.keyWasFunction = @ \ {k}],
                                getNumpadKey_NoNumluck(k), FALSE)
          [] OTHER -> executeCallbacks(kb, k, FALSE)

\* Mutant: the flag of a modifier is cleared when one of its two keys is released.
Keyboard_notifyReleased_EitherSide(kb, k) ==
    LET pressed == kb.pressed \ {FlagOf(k)}
        flipped == IF k = "NUMLOCK" THEN Toggle(kb.modifierKeys, "NUMLOCK")
                                    ELSE kb.modifierKeys
    IN  NumpadReleased(
            [kb EXCEPT !.pressed = pressed,
                       !.numlockOn = (@ # (k = "NUMLOCK")),
                       !.modifierKeys =
                          flipped \ {m \in DOMAIN Sides : ~(Sides[m] \subseteq pressed)}],
            k)

Keyboard_notifyReleased(kb, k) ==
    LET pressed == kb.pressed \ {FlagOf(k)}
        flipped == IF k = "NUMLOCK" THEN Toggle(kb.modifierKeys, "NUMLOCK")
                                    ELSE kb.modifierKeys
    IN  NumpadReleased(
            [kb EXCEPT !.pressed = pressed,
                       !.numlockOn = (@ # (k = "NUMLOCK")),
                       !.modifierKeys =
                          flipped \ {m \in DOMAIN Sides : Sides[m] \cap pressed = {}}],
            k)

\* The numeric pad on press: Shift, Ctrl or no NumLock give the function.
NumpadPressed(kb, k) ==
    LET function ==
          /\ isNumpadKey(k)
          /\ \/ (Sides["SHIFT"] \cup Sides["CTRL"]) \cap kb.pressed # {}
             \/ ~kb.numlockOn
        marked == [kb EXCEPT !.keyWasFunction = @ \cup {k}]
    IN  CASE function /\ k = "NUMPAD_5" -> marked
          [] function /\ k # "NUMPAD_5" ->
               executeCallbacks(marked, getNumpadKey_NoNumluck(k), TRUE)
          [] OTHER -> executeCallbacks(kb, k, TRUE)

Keyboard_notifyPressed(kb, k) ==
    LET pressed == kb.pressed \cup ({FlagOf(k)} \cap ModifierKeys)
        flipped == IF k = "CAPSLOCK" THEN Toggle(kb.modifierKeys, "CAPSLOCK")
                                     ELSE kb.modifierKeys
    IN  NumpadPressed(
            [kb EXCEPT !.pressed = pressed,
                       !.capslockOn = (@ # (k = "CAPSLOCK")),
                       !.modifierKeys =
                          flipped \cup {m \in DOMAIN Sides : Sides[m] \cap pressed # {}}],
            k)
=============================================================================
