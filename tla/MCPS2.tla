-------------------------------- MODULE MCPS2 --------------------------------
(***************************************************************************)
(* Instances of PS2.                                                       *)
(***************************************************************************)
EXTENDS PS2

Usual == [port2 |-> TRUE, test |-> <<0, 0>>, keyboard |-> TRUE, mouse |-> 4, translation |-> TRUE]

MC_Machines ==
    {Usual,
     [Usual EXCEPT !.mouse = 0, !.translation = FALSE],
     [Usual EXCEPT !.keyboard = FALSE],
     [Usual EXCEPT !.test = <<1, 0>>],
     [Usual EXCEPT !.test = <<0, 1>>, !.translation = FALSE],
     [Usual EXCEPT !.port2 = FALSE, !.mouse = UNKNOWN],
     [Usual EXCEPT !.port2 = FALSE, !.mouse = UNKNOWN, !.test = <<1, 0>>]}

MC_Motions ==
    {[dx |-> -256, dy |-> 255, wheel |-> -8, btn4 |-> TRUE],
     [dx |-> 5, dy |-> -1, wheel |-> 7, btn4 |-> FALSE]}
=============================================================================
