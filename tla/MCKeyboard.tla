------------------------------ MODULE MCKeyboard ------------------------------
(***************************************************************************)
(* Instances of KeyboardInput.                                             *)
(***************************************************************************)
EXTENDS KeyboardInput
=============================================================================
