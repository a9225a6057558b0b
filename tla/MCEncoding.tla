------------------------------- MODULE MCEncoding ------------------------------
(* An instance of Encoding for TLC: every button alone and all together, with   *)
(* both triggers, and the sticks at the ends of their range, around the center *)
(* and where the bytes carry over.                                          *)
EXTENDS EncodingProps

Axes ==
  {-32768, -32767, -16384, -17, -1, 0, 1, 16, 256, 32766, 32767}

ButtonStates ==
  [buttons : {{}, Buttons} \cup {{b} : b \in Buttons},
   trigger_left : {0, 1}, trigger_right : {0, 1},
   stick_left : {Centered}, stick_right : {Centered}]

StickStates ==
  {[AtRest EXCEPT !.stick_left = [x |-> a, y |-> b], !.stick_right = [x |-> b, y |-> a]] :
     a \in Axes, b \in Axes}

MCStates == ButtonStates \cup StickStates
===============================================================================
