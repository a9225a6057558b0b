------------------------------ MODULE EncodingProps ----------------------------
(***************************************************************************)
(* What the host must be able to read from the bytes of Encoding.  The host  *)
(* is a console or its driver: it unpacks 12-bit numbers, and measures the   *)
(* sticks by the calibration it reads from the flash.                       *)
(***************************************************************************)
EXTENDS Encoding

\* Every variable has its type.
TypeOK ==
  /\ next \in 1..(Len(FlashWrites) + 1)
  /\ \A a \in DOMAIN flash : a \in 0..(FlashSize - 1) /\ flash[a] \in 0..255
  /\ created \in BOOLEAN
  /\ state \in AllGamepadStates
  /\ input \in [buttons : Seq(SUBSET Bits), left : Seq(0..255), right : Seq(0..255)]
  /\ write \in {"none", "blocking", "nonblocking"}

-----------------------------------------------------------------------------
(* The flash.                                                               *)

\* The regions that init writes do not overlap: what one flash_write put there
\* is what the host will read, whatever is written after it.
NothingIsOverwritten ==
  [][\A a \in DOMAIN flash : a \in DOMAIN flash' /\ flash'[a] = flash[a]]_vars

-----------------------------------------------------------------------------
(* The sticks.                                                              *)

\* Two 12-bit numbers from three bytes.
Unpacked(bytes) ==
  [x |-> bytes[1] + 256 * (bytes[2] % 16), y |-> (bytes[2] \div 16) + 16 * bytes[3]]

\* No bit of one axis runs into the other, and none is lost: what the host
\* unpacks are the two scaled values.
SticksAreDecoded ==
  /\ Unpacked(input.left) = [x |-> AxisToRaw(state.stick_left.x),
                             y |-> AxisToRaw(state.stick_left.y)]
  /\ Unpacked(input.right) = [x |-> AxisToRaw(state.stick_right.x),
                              y |-> AxisToRaw(state.stick_right.y)]

\* Three packed pairs of the flash from an offset on.
Calibration(offset) ==
  [i \in 1..3 |-> Unpacked([j \in 1..3 |-> flash[offset + 3 * (i - 1) + j - 1]])]

\* A raw value between the ends the calibration allows, at an end exactly when
\* the application's axis is at the end of its 16 bits, and at the center when
\* the application's is.
FitsCalibration(raw, value, min, center, max) ==
  /\ center - min <= raw
  /\ raw <= center + max
  /\ value = -32768 => raw = center - min
  /\ value = 32767 => raw = center + max
  /\ value = 0 => raw = center

\* The sticks use the whole range that the flash's calibration promises and
\* nothing beyond it.  The two sticks store minimum, center and maximum in
\* different orders, and the scale of the two halves differs by one.
SticksFitCalibration ==
  next > Len(FlashWrites) =>
    LET l == Calibration(LeftCalOffset)
        r == Calibration(RightCalOffset)
        left == Unpacked(input.left)
        right == Unpacked(input.right)
    IN /\ FitsCalibration(left.x, state.stick_left.x, l[3].x, l[2].x, l[1].x)
       /\ FitsCalibration(left.y, state.stick_left.y, l[3].y, l[2].y, l[1].y)
       /\ FitsCalibration(right.x, state.stick_right.x, r[2].x, r[1].x, r[3].x)
       /\ FitsCalibration(right.y, state.stick_right.y, r[2].y, r[1].y, r[3].y)

\* A stick that the application moves one way never goes the other way for the
\* host, across the two scales of the negative and of the positive half.
SticksNeverReverse ==
  [][state'.stick_left.x >= state.stick_left.x
       => Unpacked(input'.left).x >= Unpacked(input.left).x]_vars

-----------------------------------------------------------------------------
(* The buttons.                                                             *)

Encoded == UNION {DOMAIN ButtonBits[i] : i \in 1..3}

\* Every press and every release of a button the report has a place for, in
\* whatever combination, is written with the write that waits for the host, and
\* nothing else is: no two buttons share a bit, so comparing the bytes with the
\* last report's tells exactly whether something changed (switchpro.c:902).
EveryPressIsSeen ==
  [][next > Len(FlashWrites)
       => (write' = "blocking"
             <=> Pressed(state') \cap Encoded # Pressed(state) \cap Encoded)]_vars

\* "Charging Grip. The Pro controller always has this set." (switchpro.c:866): the
\* second byte of buttons has a bit that stands for no button.
ChargingGripIsSet ==
  write # "none" => \E bit \in input.buttons[2] : \A b \in DOMAIN ButtonBits[2] :
                      ButtonBits[2][b] # bit
===============================================================================
