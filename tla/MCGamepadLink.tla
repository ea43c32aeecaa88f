--------------------------- MODULE MCGamepadLink ---------------------------
(***************************************************************************)
(* Instances of GamepadLink for TLC.                                       *)
(***************************************************************************)
EXTENDS GamepadLink

ControllerIds == 1..MaxId
OnePad == {0}
=============================================================================
