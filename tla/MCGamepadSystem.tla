--------------------------- MODULE MCGamepadSystem ---------------------------
(* Instance of GamepadSystem for TLC.  stopfd lies outside the numbers of the *)
(* descriptor table, which only the gamepad's descriptors share.              *)
EXTENDS GamepadSystem, SwitchProProps
=============================================================================
