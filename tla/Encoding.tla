-------------------------------- MODULE Encoding -------------------------------
(***************************************************************************)
(* What src/gamepads/switchpro.c says to the host: the contents it gives the *)
(* emulated flash in init, and how udcinput_gamepad_switchpro_set_state      *)
(* encodes a gamepad state in the input report.  The mutex, the descriptors  *)
(* and the timer of set_state are SwitchPro's; here the device is open.      *)
(*                                                                         *)
(* A byte of an axis or of the flash is a number, a byte of buttons the set  *)
(* of its bits that are set.                                                *)
(***************************************************************************)
EXTENDS Integers, Sequences

CONSTANTS
  GamepadStates,    \* the states the application gives to set_state
  FlashSize         \* FLASH_SIZE

Uint12 == 0..4095
Int16 == (-32768)..32767
Bits == 0..7

STICK_MIN == 0
STICK_CENTER == 2048
STICK_MAX == 4095
STICK_MAGNITUDE_MIN == STICK_CENTER - STICK_MIN
STICK_MAGNITUDE_MAX == STICK_MAX - STICK_CENTER

-----------------------------------------------------------------------------
(* Faulty variants, no part of the encoding.                                *)

\* The high half of the first number's byte is not masked out.
TwoU12Shifted(a, b) ==
  << a % 256, ((a \div 256) % 16) + (b % 16) * 16, (b \div 256) % 256 >>

\* The right stick's calibration in the order of the left one's.
StickCalRightLikeLeft(cal) ==
  << cal.max, cal.max, cal.center, cal.center, cal.min, cal.min >>

\* The two sticks' buttons share a bit.
ButtonBitsShared ==
  << [Y |-> 0, X |-> 1, B |-> 2, A |-> 3, RIGHT |-> 6, TRIGGER_RIGHT |-> 7],
     [BACK |-> 0, START |-> 1, RIGHT_STICK |-> 2, LEFT_STICK |-> 2, HOME |-> 4, MISC |-> 5],
     [DPAD_DOWN |-> 0, DPAD_UP |-> 1, DPAD_RIGHT |-> 2, DPAD_LEFT |-> 3,
      LEFT |-> 6, TRIGGER_LEFT |-> 7] >>

-----------------------------------------------------------------------------
(* Numbers as bytes.                                                        *)

\* write_two_u12le: two 12-bit numbers in three bytes.
TwoU12(a, b) ==
  << a % 256, ((a \div 256) % 16) + (b % 16) * 16, (b \div 16) % 256 >>

\* write_u16le
U16(a) == << a % 256, (a \div 256) % 256 >>

\* A struct of 12-bit or 16-bit numbers, field by field.
U12s(values) ==
  [i \in 1..(3 * (Len(values) \div 2)) |->
     LET pair == (i - 1) \div 3 IN
       TwoU12(values[2 * pair + 1], values[2 * pair + 2])[((i - 1) % 3) + 1]]
U16s(values) ==
  [i \in 1..(2 * Len(values)) |-> U16(values[(i + 1) \div 2])[((i - 1) % 2) + 1]]

\* axis_moonlight_to_raw: the negative side has one value more than the
\* positive one.  C rounds towards zero, and so does \div on what is divided here.
AxisToRaw(value) ==
  IF value >= 0
    THEN STICK_CENTER + (value * STICK_MAGNITUDE_MAX) \div 32767
    ELSE STICK_CENTER - ((-value) * STICK_MAGNITUDE_MIN) \div 32768

\* encode_axis_left and encode_axis_right
Axis(stick) == TwoU12(AxisToRaw(stick.x), AxisToRaw(stick.y))

-----------------------------------------------------------------------------
(* The flash.  flash holds the bytes written so far, the others are erased. *)

StickCal ==
  [min |-> STICK_MAGNITUDE_MIN, center |-> STICK_CENTER, max |-> STICK_MAGNITUDE_MAX]

StickCalLeft(cal) ==
  << cal.max, cal.max, cal.center, cal.center, cal.min, cal.min >>
StickCalRight(cal) ==
  << cal.center, cal.center, cal.min, cal.min, cal.max, cal.max >>

\* Offsets 0x603D and 0x6046 of the two sticks' calibration.
LeftCalOffset == 24637
RightCalOffset == 24646

StickParams ==
  << 15, 1555, 204, 3890, 1236, 1345, 1345, 1345, 2503, 2503, 1587, 1587 >>

\* body, buttons, left_grip and right_grip
Colors == << 0, 0, 0, 255, 255, 255, 254, 155, 0, 254, 155, 0 >>

\* The calls of flash_write in init: accelerometer, gyroscope, sticks, colors,
\* IMU offsets, stick parameters.
FlashWrites ==
  << [offset |-> 24608, bytes |-> U16s(<<0, 0, 0, 16384, 16384, 16384>>)],
     [offset |-> 24620, bytes |-> U16s(<<0, 0, 0, 13371, 13371, 13371>>)],
     [offset |-> LeftCalOffset, bytes |-> U12s(StickCalLeft(StickCal))],
     [offset |-> RightCalOffset, bytes |-> U12s(StickCalRight(StickCal))],
     [offset |-> 24656, bytes |-> Colors],
     [offset |-> 24704, bytes |-> U16s(<<0, 0, 0>>)],
     [offset |-> 24710, bytes |-> U12s(StickParams)] >>

-----------------------------------------------------------------------------
(* The input report.                                                        *)

ButtonBits ==
  << [Y |-> 0, X |-> 1, B |-> 2, A |-> 3, RIGHT |-> 6, TRIGGER_RIGHT |-> 7],
     [BACK |-> 0, START |-> 1, RIGHT_STICK |-> 2, LEFT_STICK |-> 3, HOME |-> 4, MISC |-> 5],
     [DPAD_DOWN |-> 0, DPAD_UP |-> 1, DPAD_RIGHT |-> 2, DPAD_LEFT |-> 3,
      LEFT |-> 6, TRIGGER_LEFT |-> 7] >>

\* The buttons a gamepad state can hold, those no byte stands for included.
Buttons ==
  {"Y", "X", "B", "A", "RIGHT", "LEFT", "BACK", "START", "RIGHT_STICK", "LEFT_STICK",
   "HOME", "MISC", "DPAD_DOWN", "DPAD_UP", "DPAD_RIGHT", "DPAD_LEFT",
   "PADDLE1", "PADDLE2", "PADDLE3", "PADDLE4", "TOUCHPAD"}

Sticks == [x : Int16, y : Int16]

AllGamepadStates ==
  [buttons : SUBSET Buttons, trigger_left : 0..255, trigger_right : 0..255,
   stick_left : Sticks, stick_right : Sticks]

ASSUME EncodingAssumption ==
  /\ GamepadStates \subseteq AllGamepadStates
  /\ FlashSize \in Nat

\* A trigger is a button that is pressed as soon as it moves.
Pressed(state) ==
  state.buttons
    \cup {t \in {"TRIGGER_LEFT"} : state.trigger_left > 0}
    \cup {t \in {"TRIGGER_RIGHT"} : state.trigger_right > 0}

-----------------------------------------------------------------------------
\* buffer[1] |= BIT(8) sets a bit that a byte does not have.
Constant(i) == IF i = 2 THEN {8} ELSE {}

ButtonByte(i, state) ==
  Bits \cap ({ButtonBits[i][b] : b \in Pressed(state) \cap DOMAIN ButtonBits[i]}
               \cup Constant(i))

ButtonBytes(state) == [i \in 1..3 |-> ButtonByte(i, state)]

Centered == [x |-> 0, y |-> 0]
AtRest ==
  [buttons |-> {}, trigger_left |-> 0, trigger_right |-> 0,
   stick_left |-> Centered, stick_right |-> Centered]

-----------------------------------------------------------------------------
VARIABLES
  next,      \* the call of flash_write that init makes next
  flash,     \* the bytes of the flash that were written
  created,   \* init has not failed: the gamepad exists
  state,     \* history: what the application said last
  input,     \* bytes 3 to 11 of input_report
  write      \* history: the write that input was last given to

vars == <<next, flash, created, state, input, write>>

\* calloc zeroes the report, and init centers the sticks in it.
Init ==
  /\ next = 1
  /\ flash = << >>
  /\ created = TRUE
  /\ state = AtRest
  /\ input = [buttons |-> <<{}, {}, {}>>, left |-> Axis(Centered), right |-> Axis(Centered)]
  /\ write = "none"

\* flash_write: nothing is copied when the flash ends before the data does,
\* and init and create fail.
FlashWrite ==
  /\ created
  /\ next <= Len(FlashWrites)
  /\ LET offset == FlashWrites[next].offset
         bytes == FlashWrites[next].bytes
         addresses == offset..(offset + Len(bytes) - 1)
     IN IF offset + Len(bytes) > FlashSize
          THEN created' = FALSE /\ UNCHANGED <<next, flash>>
          ELSE /\ flash' = [a \in DOMAIN flash \cup addresses |->
                              IF a \in addresses THEN bytes[a - offset + 1] ELSE flash[a]]
               /\ next' = next + 1
               /\ UNCHANGED created
  /\ UNCHANGED <<state, input, write>>

\* set_state: the blocking write is for reports whose buttons are not those of
\* the report before.
SetState ==
  /\ created
  /\ next > Len(FlashWrites)
  /\ state' \in GamepadStates
  /\ input' = [buttons |-> ButtonBytes(state'),
               left |-> Axis(state'.stick_left), right |-> Axis(state'.stick_right)]
  /\ write' = IF input'.buttons # input.buttons THEN "blocking" ELSE "nonblocking"
  /\ UNCHANGED <<next, flash, created>>

Next == FlashWrite \/ SetState

Spec == Init /\ [][Next]_vars
===============================================================================
