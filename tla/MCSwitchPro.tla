----------------------------- MODULE MCSwitchPro -----------------------------
(* Instances of SwitchPro for TLC.  Two values for the buttons and two for    *)
(* the sticks give the three kinds of calls set_state tells apart: a button   *)
(* changed, only a stick changed, nothing changed.                            *)
EXTENDS SwitchProProps
=============================================================================
