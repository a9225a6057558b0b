----------------------------- MODULE EncodingProofs ----------------------------
(***************************************************************************)
(* The encoding of sticks and buttons, proved for every 16-bit value of      *)
(* every axis, every set of buttons and every sequence of states: TLC looks  *)
(* at a few values of each.                                                 *)
(***************************************************************************)
EXTENDS EncodingProps, SequenceTheorems, TLAPS

LEMMA Int16IsInt == Int16 \subseteq Int
  BY DEF Int16

LEMMA Uint12IsInt == Uint12 \subseteq Int
  BY DEF Uint12

\* Scaling an axis never leaves the 12 bits that a byte and a half have, and
\* reaches both ends (switchpro.c:172-176).
LEMMA AxisFits ==
  ASSUME NEW value \in Int16
  PROVE  /\ AxisToRaw(value) \in Uint12
         /\ value = -32768 => AxisToRaw(value) = STICK_MIN
         /\ value = 0 => AxisToRaw(value) = STICK_CENTER
         /\ value = 32767 => AxisToRaw(value) = STICK_MAX
  BY SMTT(30) DEF AxisToRaw, Int16, Uint12, STICK_CENTER, STICK_MIN, STICK_MAX,
       STICK_MAGNITUDE_MIN, STICK_MAGNITUDE_MAX

\* Scaling keeps the order of any two values.
LEMMA AxisIsMonotone ==
  ASSUME NEW low \in Int16, NEW high \in Int16, low <= high
  PROVE  AxisToRaw(low) <= AxisToRaw(high)
<1>1. low \in Int /\ high \in Int
  BY Int16IsInt
<1>2. AxisToRaw(low) \in Int /\ AxisToRaw(high) \in Int
  <2>1. AxisToRaw(low) \in Uint12 /\ AxisToRaw(high) \in Uint12
    BY AxisFits
  <2> QED
    BY <2>1, Uint12IsInt
<1>3. CASE low >= 0
  <2>1. low * 2047 <= high * 2047
    BY <1>1
  <2>2. (low * 2047) \div 32767 <= (high * 2047) \div 32767
    BY <1>1, <2>1, SMTT(30)
  <2>3. AxisToRaw(low) = 2048 + (low * 2047) \div 32767
    BY <1>1, <1>3 DEF AxisToRaw, STICK_CENTER, STICK_MAX, STICK_MAGNITUDE_MAX
  <2>4. AxisToRaw(high) = 2048 + (high * 2047) \div 32767
    BY <1>1, <1>3 DEF AxisToRaw, STICK_CENTER, STICK_MAX, STICK_MAGNITUDE_MAX
  <2> QED
    BY <1>1, <2>2, <2>3, <2>4
<1>4. CASE high < 0
  <2>1. ((-high) * 2048) \div 32768 <= ((-low) * 2048) \div 32768
    BY <1>1, SMTT(30)
  <2>2. AxisToRaw(low) = 2048 - ((-low) * 2048) \div 32768
    BY <1>1, <1>4 DEF AxisToRaw, STICK_CENTER, STICK_MIN, STICK_MAGNITUDE_MIN
  <2>3. AxisToRaw(high) = 2048 - ((-high) * 2048) \div 32768
    BY <1>1, <1>4 DEF AxisToRaw, STICK_CENTER, STICK_MIN, STICK_MAGNITUDE_MIN
  <2> QED
    BY <1>1, <2>1, <2>2, <2>3
<1>5. CASE low < 0 /\ high >= 0
  <2>1. AxisToRaw(low) <= 2048
    BY <1>1, <1>5, SMTT(30) DEF AxisToRaw, STICK_CENTER, STICK_MIN, STICK_MAGNITUDE_MIN
  <2>2. 2048 <= AxisToRaw(high)
    BY <1>1, <1>5, SMTT(30) DEF AxisToRaw, STICK_CENTER, STICK_MAX, STICK_MAGNITUDE_MAX
  <2> QED
    BY <1>2, <2>1, <2>2
<1> QED
  BY <1>1, <1>3, <1>4, <1>5

\* Three bytes hold two 12-bit numbers, and give them back.
LEMMA PackedPairIsUnpacked ==
  ASSUME NEW a \in Uint12, NEW b \in Uint12
  PROVE  /\ TwoU12(a, b) \in Seq(0..255)
         /\ Unpacked(TwoU12(a, b)) = [x |-> a, y |-> b]
<1> DEFINE d1 == a % 256
           d2 == ((a \div 256) % 16) + (b % 16) * 16
           d3 == (b \div 16) % 256
<1>1. /\ d1 \in 0..255
      /\ d2 \in 0..255
      /\ d3 \in 0..255
  BY SMTT(30) DEF Uint12
<1>2. TwoU12(a, b) = <<d1, d2, d3>>
  BY DEF TwoU12
<1>3. d1 + 256 * (d2 % 16) = a
  BY SMTT(30) DEF Uint12
<1>4. (d2 \div 16) + 16 * d3 = b
  BY SMTT(30) DEF Uint12
<1> HIDE DEF d1, d2, d3
<1> QED
  BY <1>1, <1>2, <1>3, <1>4 DEF Unpacked

-----------------------------------------------------------------------------
(* The sticks.                                                              *)

\* The report says what the application said last: the invariant behind the
\* properties of Encoding.
Faithful ==
  /\ next \in Nat
  /\ state \in AllGamepadStates
  /\ input = [buttons |-> ButtonBytes(state),
              left |-> Axis(state.stick_left), right |-> Axis(state.stick_right)]

\* A report without buttons, which calloc's zeroes are, is the encoding of a
\* gamepad at rest.
LEMMA RestIsFaithful == Init => Faithful
<1> SUFFICES ASSUME Init PROVE Faithful
  OBVIOUS
<1>1. Pressed(AtRest) = {}
  BY DEF Pressed, AtRest
<1>2. \A i \in 1..3 : ButtonByte(i, AtRest) = {}
  <2> SUFFICES ASSUME NEW i \in 1..3 PROVE ButtonByte(i, AtRest) = {}
    OBVIOUS
  <2>1. {ButtonBits[i][b] : b \in Pressed(AtRest) \cap DOMAIN ButtonBits[i]} = {}
    BY <1>1
  <2>2. Bits \cap Constant(i) = {}
    BY DEF Bits, Constant
  <2> QED
    BY <2>1, <2>2 DEF ButtonByte
<1>3. ButtonBytes(AtRest) = <<{}, {}, {}>>
  BY <1>2 DEF ButtonBytes
<1>4. AtRest \in AllGamepadStates
  BY DEF AtRest, AllGamepadStates, Centered, Sticks, Int16
<1>5. AtRest.stick_left = Centered /\ AtRest.stick_right = Centered
  BY DEF AtRest
<1> QED
  BY <1>3, <1>4, <1>5 DEF Init, Faithful

\* The invariant holds in every state.
THEOREM ReportIsFaithful == Spec => []Faithful
<1>1. Faithful /\ [Next]_vars => Faithful'
  <2> SUFFICES ASSUME Faithful, [Next]_vars PROVE Faithful'
    OBVIOUS
  <2>1. CASE FlashWrite
    <3>1. next' = next \/ next' = next + 1
      BY <2>1 DEF FlashWrite
    <3>2. UNCHANGED <<state, input>>
      BY <2>1 DEF FlashWrite
    <3>3. next' \in Nat
      BY <3>1 DEF Faithful
    <3> QED
      BY <3>2, <3>3 DEF Faithful
  <2>2. CASE SetState
    <3>1. state' \in AllGamepadStates
      BY <2>2, EncodingAssumption DEF SetState
    <3> QED
      BY <2>2, <3>1 DEF SetState, Faithful
  <2>3. CASE UNCHANGED vars
    BY <2>3 DEF vars, Faithful
  <2> QED
    BY <2>1, <2>2, <2>3 DEF Next
<1> QED
  BY RestIsFaithful, <1>1, PTL DEF Spec

\* What the host unpacks is the scaled state.
LEMMA FaithfulIsDecoded == Faithful => SticksAreDecoded
<1> SUFFICES ASSUME Faithful PROVE SticksAreDecoded
  OBVIOUS
<1>1. /\ state.stick_left.x \in Int16
      /\ state.stick_left.y \in Int16
      /\ state.stick_right.x \in Int16
      /\ state.stick_right.y \in Int16
  BY DEF Faithful, AllGamepadStates, Sticks
<1>2. Unpacked(Axis(state.stick_left)) = [x |-> AxisToRaw(state.stick_left.x),
                                          y |-> AxisToRaw(state.stick_left.y)]
  BY <1>1, AxisFits, PackedPairIsUnpacked DEF Axis
<1>3. Unpacked(Axis(state.stick_right)) = [x |-> AxisToRaw(state.stick_right.x),
                                           y |-> AxisToRaw(state.stick_right.y)]
  BY <1>1, AxisFits, PackedPairIsUnpacked DEF Axis
<1>4. input.left = Axis(state.stick_left) /\ input.right = Axis(state.stick_right)
  BY DEF Faithful
<1> QED
  BY <1>2, <1>3, <1>4 DEF SticksAreDecoded

\* Whatever the two sticks are, their twelve bits per axis arrive unmixed.
THEOREM SticksArrive == Spec => []SticksAreDecoded
  BY ReportIsFaithful, FaithfulIsDecoded, PTL

\* A stick moved one way never goes the other way for the host.
THEOREM SticksKeepTheirDirection == Spec => SticksNeverReverse
<1>1. Faithful /\ Faithful' /\ [Next]_vars
        => [state'.stick_left.x >= state.stick_left.x
              => Unpacked(input'.left).x >= Unpacked(input.left).x]_vars
  <2> SUFFICES ASSUME Faithful, Faithful', state'.stick_left.x >= state.stick_left.x
               PROVE  Unpacked(input'.left).x >= Unpacked(input.left).x
    OBVIOUS
  <2>1. state.stick_left.x \in Int16 /\ state'.stick_left.x \in Int16
    BY DEF Faithful, AllGamepadStates, Sticks
  <2>2. Unpacked(input.left).x = AxisToRaw(state.stick_left.x)
    BY FaithfulIsDecoded DEF SticksAreDecoded
  <2>3. Unpacked(input'.left).x = AxisToRaw(state'.stick_left.x)
    <3>1. SticksAreDecoded'
      BY FaithfulIsDecoded, PTL
    <3> QED
      BY <3>1 DEF SticksAreDecoded
  <2>4. state.stick_left.x <= state'.stick_left.x
    BY <2>1, Int16IsInt
  <2>5. AxisToRaw(state.stick_left.x) <= AxisToRaw(state'.stick_left.x)
    BY <2>1, <2>4, AxisIsMonotone
  <2>6. AxisToRaw(state.stick_left.x) \in Int /\ AxisToRaw(state'.stick_left.x) \in Int
    <3>1. AxisToRaw(state.stick_left.x) \in Uint12 /\ AxisToRaw(state'.stick_left.x) \in Uint12
      BY <2>1, AxisFits
    <3> QED
      BY <3>1, Uint12IsInt
  <2> QED
    BY <2>2, <2>3, <2>5, <2>6
<1> QED
  BY ReportIsFaithful, <1>1, PTL DEF Spec, SticksNeverReverse

-----------------------------------------------------------------------------
(* The buttons.                                                             *)

\* Within a byte, two different buttons have different bits of that byte.
LEMMA ButtonsHaveTheirOwnBit ==
  /\ \A i \in 1..3 : \A b \in DOMAIN ButtonBits[i] : ButtonBits[i][b] \in Bits
  /\ \A i \in 1..3 : \A b, c \in DOMAIN ButtonBits[i] :
       ButtonBits[i][b] = ButtonBits[i][c] => b = c
<1>1. CASE TRUE
  BY DEF ButtonBits, Bits
<1> QED
  BY <1>1

\* A byte of buttons tells of each of its buttons whether it is pressed.
LEMMA ByteTellsItsButtons ==
  ASSUME NEW i \in 1..3, NEW s
  PROVE  \A b \in DOMAIN ButtonBits[i] :
           b \in Pressed(s) <=> ButtonBits[i][b] \in ButtonByte(i, s)
<1>1. \A b \in DOMAIN ButtonBits[i] : ButtonBits[i][b] \in Bits
  BY ButtonsHaveTheirOwnBit
<1>2. \A b, c \in DOMAIN ButtonBits[i] : ButtonBits[i][b] = ButtonBits[i][c] => b = c
  BY ButtonsHaveTheirOwnBit
<1>3. \A bit \in Bits : bit \notin Constant(i)
  BY DEF Bits, Constant
<1> QED
  BY <1>1, <1>2, <1>3, Zenon DEF ButtonByte

\* The bytes of two states differ exactly when a button with a bit does.
LEMMA BytesTellTheButtons ==
  ASSUME NEW s, NEW t
  PROVE  ButtonBytes(s) = ButtonBytes(t) <=> Pressed(s) \cap Encoded = Pressed(t) \cap Encoded
<1>1. ASSUME ButtonBytes(s) = ButtonBytes(t)
      PROVE  Pressed(s) \cap Encoded = Pressed(t) \cap Encoded
  <2>1. \A i \in 1..3 : ButtonByte(i, s) = ButtonByte(i, t)
    BY <1>1 DEF ButtonBytes
  <2>2. \A i \in 1..3 : \A b \in DOMAIN ButtonBits[i] : b \in Pressed(s) <=> b \in Pressed(t)
    BY <2>1, ByteTellsItsButtons
  <2> QED
    BY <2>2 DEF Encoded
<1>2. ASSUME Pressed(s) \cap Encoded = Pressed(t) \cap Encoded
      PROVE  ButtonBytes(s) = ButtonBytes(t)
  <2>1. \A i \in 1..3 : Pressed(s) \cap DOMAIN ButtonBits[i] = Pressed(t) \cap DOMAIN ButtonBits[i]
    BY <1>2 DEF Encoded
  <2>2. \A i \in 1..3 : ButtonByte(i, s) = ButtonByte(i, t)
    BY <2>1, Zenon DEF ButtonByte
  <2> QED
    BY <2>2 DEF ButtonBytes
<1> QED
  BY <1>1, <1>2

\* No press and no release is taken for an unchanged report, and no unchanged
\* report for a press, whatever was pressed together.
THEOREM PressesAreSeen == Spec => EveryPressIsSeen
<1> DEFINE Seen == next > Len(FlashWrites)
                     => (write' = "blocking"
                           <=> Pressed(state') \cap Encoded # Pressed(state) \cap Encoded)
<1>1. Faithful /\ [Next]_vars => [Seen]_vars
  <2> SUFFICES ASSUME Faithful, Next, next > Len(FlashWrites)
               PROVE  write' = "blocking"
                        <=> Pressed(state') \cap Encoded # Pressed(state) \cap Encoded
    OBVIOUS
  <2>1. SetState
    <3>1. Len(FlashWrites) \in Nat
      BY DEF FlashWrites
    <3>2. CASE FlashWrite
      <4>1. next <= Len(FlashWrites)
        BY <3>2 DEF FlashWrite
      <4>2. next \in Nat
        BY DEF Faithful
      <4> QED
        BY <3>1, <4>1, <4>2
    <3> QED
      BY <3>2 DEF Next
  <2>2. input.buttons = ButtonBytes(state) /\ input'.buttons = ButtonBytes(state')
    BY <2>1 DEF SetState, Faithful
  <2>3. write' = "blocking" <=> input'.buttons # input.buttons
    BY <2>1 DEF SetState
  <2> QED
    BY <2>2, <2>3, BytesTellTheButtons
<1> QED
  BY ReportIsFaithful, <1>1, PTL DEF Spec, EveryPressIsSeen

\* The buttons that a host reads out of the three bytes.
ButtonsRead(bytes) ==
  {b \in Encoded : \E i \in 1..3 : b \in DOMAIN ButtonBits[i] /\ ButtonBits[i][b] \in bytes[i]}

\* Whatever is pressed together, the host reads exactly the pressed buttons out
\* of input_report: ordering the bits into three bytes mixes up no two buttons.
THEOREM ButtonsAreDecoded ==
  Spec => [](ButtonsRead(input.buttons) = Pressed(state) \cap Encoded)
<1>1. Faithful => ButtonsRead(input.buttons) = Pressed(state) \cap Encoded
  <2> SUFFICES ASSUME Faithful
               PROVE  ButtonsRead(input.buttons) = Pressed(state) \cap Encoded
    OBVIOUS
  <2>1. \A i \in 1..3 : input.buttons[i] = ButtonByte(i, state)
    BY DEF Faithful, ButtonBytes
  <2>2. \A i \in 1..3 : \A b \in DOMAIN ButtonBits[i] :
          b \in Pressed(state) <=> ButtonBits[i][b] \in input.buttons[i]
    BY <2>1, ByteTellsItsButtons, Zenon
  <2>3. \A b \in Encoded : \E i \in 1..3 : b \in DOMAIN ButtonBits[i]
    BY Zenon DEF Encoded
  <2> QED
    BY <2>2, <2>3, Zenon DEF ButtonsRead
<1> QED
  BY <1>1, ReportIsFaithful, PTL

-----------------------------------------------------------------------------
(* The flash.                                                               *)

\* A struct of 16-bit numbers takes two bytes for each.
LEMMA BytesOfU16s ==
  ASSUME NEW values \in Seq(Nat)
  PROVE  /\ U16s(values) \in Seq(0..255)
         /\ Len(U16s(values)) = 2 * Len(values)
<1>1. \A a \in Nat : a % 256 \in 0..255 /\ (a \div 256) % 256 \in 0..255
  OBVIOUS
<1>2. \A a \in Nat : U16(a)[1] \in 0..255 /\ U16(a)[2] \in 0..255
  BY <1>1 DEF U16
<1>3. \A i \in 1..(2 * Len(values)) : /\ (i + 1) \div 2 \in 1..Len(values)
                                     /\ ((i - 1) % 2) + 1 \in {1, 2}
  OBVIOUS
<1>4. \A i \in 1..(2 * Len(values)) : U16(values[(i + 1) \div 2])[((i - 1) % 2) + 1] \in 0..255
  <2> SUFFICES ASSUME NEW i \in 1..(2 * Len(values))
               PROVE  U16(values[(i + 1) \div 2])[((i - 1) % 2) + 1] \in 0..255
    OBVIOUS
  <2>1. values[(i + 1) \div 2] \in Nat
    BY <1>3
  <2> QED
    BY <2>1, <1>2, <1>3
<1> QED
  BY <1>4 DEF U16s

\* A struct of 12-bit numbers takes three bytes for two of them.
LEMMA BytesOfU12s ==
  ASSUME NEW values \in Seq(Uint12)
  PROVE  /\ U12s(values) \in Seq(0..255)
         /\ Len(U12s(values)) = 3 * (Len(values) \div 2)
<1> DEFINE n == 3 * (Len(values) \div 2)
           pair(i) == (i - 1) \div 3
           byte(i) == TwoU12(values[2 * pair(i) + 1], values[2 * pair(i) + 2])[((i - 1) % 3) + 1]
<1>1. \A i \in 1..n : /\ 2 * pair(i) + 1 \in 1..Len(values)
                     /\ 2 * pair(i) + 2 \in 1..Len(values)
                     /\ ((i - 1) % 3) + 1 \in 1..3
  OBVIOUS
<1>2. \A a, b \in Uint12 : \A k \in 1..3 : TwoU12(a, b)[k] \in 0..255
  <2> SUFFICES ASSUME NEW a \in Uint12, NEW b \in Uint12, NEW k \in 1..3
               PROVE  TwoU12(a, b)[k] \in 0..255
    OBVIOUS
  <2>1. TwoU12(a, b) \in Seq(0..255)
    BY PackedPairIsUnpacked
  <2>2. Len(TwoU12(a, b)) = 3
    BY DEF TwoU12
  <2>3. k \in 1..Len(TwoU12(a, b))
    BY <2>2
  <2> QED
    BY <2>1, <2>3, ElementOfSeq
<1>3. \A i \in 1..n : byte(i) \in 0..255
  <2> SUFFICES ASSUME NEW i \in 1..n PROVE byte(i) \in 0..255
    OBVIOUS
  <2> DEFINE a == values[2 * pair(i) + 1]
             b == values[2 * pair(i) + 2]
             k == ((i - 1) % 3) + 1
  <2>1. a \in Uint12 /\ b \in Uint12 /\ k \in 1..3
    BY <1>1
  <2> HIDE DEF a, b, k
  <2>2. TwoU12(a, b)[k] \in 0..255
    BY <2>1, <1>2
  <2> QED
    BY <2>2 DEF a, b, k
<1>4. U12s(values) = [i \in 1..n |-> byte(i)]
  BY DEF U12s
<1>5. n \in Nat
  OBVIOUS
<1> HIDE DEF n, byte
<1>6. U12s(values) \in Seq(0..255) /\ Len(U12s(values)) = n
  BY <1>3, <1>4, <1>5
<1> QED
  BY <1>6 DEF n

\* The regions of init lie in the flash one after the other.
LEMMA RegionsAscend ==
  /\ Len(FlashWrites) = 7
  /\ \A i \in 1..7 : FlashWrites[i].offset \in Nat /\ FlashWrites[i].bytes \in Seq(0..255)
  /\ \A i \in 1..6 :
       FlashWrites[i].offset + Len(FlashWrites[i].bytes) <= FlashWrites[i + 1].offset
<1> DEFINE accel == <<0, 0, 0, 16384, 16384, 16384>>
           gyro == <<0, 0, 0, 13371, 13371, 13371>>
           bytes1 == U16s(accel)
           bytes2 == U16s(gyro)
           bytes3 == U12s(StickCalLeft(StickCal))
           bytes4 == U12s(StickCalRight(StickCal))
           bytes6 == U16s(<<0, 0, 0>>)
           bytes7 == U12s(StickParams)
<1>a. accel \in Seq(Nat) /\ Len(accel) = 6
  OBVIOUS
<1>b. gyro \in Seq(Nat) /\ Len(gyro) = 6
  OBVIOUS
<1> HIDE DEF accel, gyro
<1>1. bytes1 \in Seq(0..255) /\ Len(bytes1) = 12
  <2>1. bytes1 \in Seq(0..255) /\ Len(bytes1) = 2 * Len(accel)
    BY <1>a, BytesOfU16s, Zenon
  <2> HIDE DEF bytes1
  <2> QED
    BY <2>1, <1>a
<1>2. bytes2 \in Seq(0..255) /\ Len(bytes2) = 12
  <2>1. bytes2 \in Seq(0..255) /\ Len(bytes2) = 2 * Len(gyro)
    BY <1>b, BytesOfU16s, Zenon
  <2> HIDE DEF bytes2
  <2> QED
    BY <2>1, <1>b
<1>3. bytes3 \in Seq(0..255) /\ Len(bytes3) = 9
  <2>1. StickCalLeft(StickCal) \in Seq(Uint12) /\ Len(StickCalLeft(StickCal)) = 6
    BY DEF StickCalLeft, StickCal, Uint12, STICK_CENTER, STICK_MIN, STICK_MAX,
         STICK_MAGNITUDE_MIN, STICK_MAGNITUDE_MAX
  <2>2. bytes3 \in Seq(0..255) /\ Len(bytes3) = 3 * (Len(StickCalLeft(StickCal)) \div 2)
    BY <2>1, BytesOfU12s, Zenon
  <2> HIDE DEF bytes3
  <2> QED
    BY <2>1, <2>2
<1>4. bytes4 \in Seq(0..255) /\ Len(bytes4) = 9
  <2>1. StickCalRight(StickCal) \in Seq(Uint12) /\ Len(StickCalRight(StickCal)) = 6
    BY DEF StickCalRight, StickCal, Uint12, STICK_CENTER, STICK_MIN, STICK_MAX,
         STICK_MAGNITUDE_MIN, STICK_MAGNITUDE_MAX
  <2>2. bytes4 \in Seq(0..255) /\ Len(bytes4) = 3 * (Len(StickCalRight(StickCal)) \div 2)
    BY <2>1, BytesOfU12s, Zenon
  <2> HIDE DEF bytes4
  <2> QED
    BY <2>1, <2>2
<1>5. Colors \in Seq(0..255) /\ Len(Colors) = 12
  BY DEF Colors
<1>6. bytes6 \in Seq(0..255) /\ Len(bytes6) = 6
  <2>1. <<0, 0, 0>> \in Seq(Nat) /\ Len(<<0, 0, 0>>) = 3
    OBVIOUS
  <2>2. bytes6 \in Seq(0..255) /\ Len(bytes6) = 2 * Len(<<0, 0, 0>>)
    BY <2>1, BytesOfU16s, Zenon
  <2> HIDE DEF bytes6
  <2> QED
    BY <2>1, <2>2
<1>7. bytes7 \in Seq(0..255) /\ Len(bytes7) = 18
  <2>1. StickParams \in Seq(Uint12) /\ Len(StickParams) = 12
    BY DEF StickParams, Uint12
  <2>2. bytes7 \in Seq(0..255) /\ Len(bytes7) = 3 * (Len(StickParams) \div 2)
    BY <2>1, BytesOfU12s, Zenon
  <2> HIDE DEF bytes7
  <2> QED
    BY <2>1, <2>2
<1> HIDE DEF bytes1, bytes2, bytes3, bytes4, bytes6, bytes7
<1>8. FlashWrites = << [offset |-> 24608, bytes |-> bytes1],
                       [offset |-> 24620, bytes |-> bytes2],
                       [offset |-> 24637, bytes |-> bytes3],
                       [offset |-> 24646, bytes |-> bytes4],
                       [offset |-> 24656, bytes |-> Colors],
                       [offset |-> 24704, bytes |-> bytes6],
                       [offset |-> 24710, bytes |-> bytes7] >>
  BY DEF FlashWrites, LeftCalOffset, RightCalOffset,
       accel, gyro, bytes1, bytes2, bytes3, bytes4, bytes6, bytes7
<1>9. /\ FlashWrites[1] = [offset |-> 24608, bytes |-> bytes1]
      /\ FlashWrites[2] = [offset |-> 24620, bytes |-> bytes2]
      /\ FlashWrites[3] = [offset |-> 24637, bytes |-> bytes3]
      /\ FlashWrites[4] = [offset |-> 24646, bytes |-> bytes4]
      /\ FlashWrites[5] = [offset |-> 24656, bytes |-> Colors]
      /\ FlashWrites[6] = [offset |-> 24704, bytes |-> bytes6]
      /\ FlashWrites[7] = [offset |-> 24710, bytes |-> bytes7]
      /\ Len(FlashWrites) = 7
  BY <1>8
<1>10. \A i \in 1..7 : FlashWrites[i].offset \in Nat /\ FlashWrites[i].bytes \in Seq(0..255)
  <2> SUFFICES ASSUME NEW i \in 1..7
               PROVE  FlashWrites[i].offset \in Nat /\ FlashWrites[i].bytes \in Seq(0..255)
    OBVIOUS
  <2>1. CASE i = 1
    BY <2>1, <1>1, <1>9
  <2>2. CASE i = 2
    BY <2>2, <1>2, <1>9
  <2>3. CASE i = 3
    BY <2>3, <1>3, <1>9
  <2>4. CASE i = 4
    BY <2>4, <1>4, <1>9
  <2>5. CASE i = 5
    BY <2>5, <1>5, <1>9
  <2>6. CASE i = 6
    BY <2>6, <1>6, <1>9
  <2>7. CASE i = 7
    BY <2>7, <1>7, <1>9
  <2> QED
    BY <2>1, <2>2, <2>3, <2>4, <2>5, <2>6, <2>7
<1>11. \A i \in 1..6 :
         FlashWrites[i].offset + Len(FlashWrites[i].bytes) <= FlashWrites[i + 1].offset
  <2>1. FlashWrites[1].offset = 24608 /\ FlashWrites[1].bytes = bytes1
    BY <1>9
  <2>2. FlashWrites[2].offset = 24620 /\ FlashWrites[2].bytes = bytes2
    BY <1>9
  <2>3. FlashWrites[3].offset = 24637 /\ FlashWrites[3].bytes = bytes3
    BY <1>9
  <2>4. FlashWrites[4].offset = 24646 /\ FlashWrites[4].bytes = bytes4
    BY <1>9
  <2>5. FlashWrites[5].offset = 24656 /\ FlashWrites[5].bytes = Colors
    BY <1>9
  <2>6. FlashWrites[6].offset = 24704 /\ FlashWrites[6].bytes = bytes6
    BY <1>9
  <2>7. FlashWrites[7].offset = 24710 /\ FlashWrites[7].bytes = bytes7
    BY <1>9
  <2>8. ASSUME NEW i \in 1..6
        PROVE  FlashWrites[i].offset + Len(FlashWrites[i].bytes) <= FlashWrites[i + 1].offset
    <3>1. CASE i = 1
      <4>1. i + 1 = 2
        BY <3>1
      <4> QED
        BY <3>1, <4>1, <2>1, <2>2, <1>1
    <3>2. CASE i = 2
      <4>1. i + 1 = 3
        BY <3>2
      <4> QED
        BY <3>2, <4>1, <2>2, <2>3, <1>2
    <3>3. CASE i = 3
      <4>1. i + 1 = 4
        BY <3>3
      <4> QED
        BY <3>3, <4>1, <2>3, <2>4, <1>3
    <3>4. CASE i = 4
      <4>1. i + 1 = 5
        BY <3>4
      <4> QED
        BY <3>4, <4>1, <2>4, <2>5, <1>4
    <3>5. CASE i = 5
      <4>1. i + 1 = 6
        BY <3>5
      <4> QED
        BY <3>5, <4>1, <2>5, <2>6, <1>5
    <3>6. CASE i = 6
      <4>1. i + 1 = 7
        BY <3>6
      <4> QED
        BY <3>6, <4>1, <2>6, <2>7, <1>6
    <3> QED
      BY <3>1, <3>2, <3>3, <3>4, <3>5, <3>6
  <2> QED
    BY <2>8
<1> QED
  BY <1>9, <1>10, <1>11

\* What is written so far lies in the flash, and before what comes next.
FlashFilled ==
  /\ next \in 1..(Len(FlashWrites) + 1)
  /\ \A a \in DOMAIN flash : a \in 0..(FlashSize - 1) /\ flash[a] \in 0..255
  /\ next <= Len(FlashWrites) => \A a \in DOMAIN flash : a < FlashWrites[next].offset

LEMMA WriteFills ==
  ASSUME FlashFilled, FlashWrite
  PROVE  /\ FlashFilled'
         /\ \A a \in DOMAIN flash : a \in DOMAIN flash' /\ flash'[a] = flash[a]
<1> DEFINE offset == FlashWrites[next].offset
           bytes == FlashWrites[next].bytes
           addresses == offset..(offset + Len(bytes) - 1)
<1>1. next \in 1..7 /\ next <= Len(FlashWrites)
  BY RegionsAscend DEF FlashFilled, FlashWrite
<1>2. offset \in Nat /\ bytes \in Seq(0..255) /\ Len(bytes) \in Nat
  <2>1. offset \in Nat /\ bytes \in Seq(0..255)
    BY <1>1, RegionsAscend, Zenon
  <2> QED
    BY <2>1, LenProperties
<1>3. ASSUME next <= 6
      PROVE  offset + Len(bytes) <= FlashWrites[next + 1].offset
  <2>1. next \in 1..6
    BY <1>1, <1>3
  <2> QED
    BY <2>1, RegionsAscend, Zenon
<1>4. CASE offset + Len(bytes) > FlashSize
  <2>1. UNCHANGED <<next, flash>>
    BY <1>4 DEF FlashWrite
  <2> QED
    BY <2>1 DEF FlashFilled
<1>5. CASE ~(offset + Len(bytes) > FlashSize)
  <2>1. /\ flash' = [a \in DOMAIN flash \cup addresses |->
                       IF a \in addresses THEN bytes[a - offset + 1] ELSE flash[a]]
        /\ next' = next + 1
    BY <1>5 DEF FlashWrite
  <2>2. \A a \in DOMAIN flash : a \in Int /\ a < offset
    BY <1>1 DEF FlashFilled
  <2>3. \A a \in addresses : a \in 0..(FlashSize - 1) /\ bytes[a - offset + 1] \in 0..255
    <3> SUFFICES ASSUME NEW a \in addresses
                 PROVE  a \in 0..(FlashSize - 1) /\ bytes[a - offset + 1] \in 0..255
      OBVIOUS
    <3>1. a - offset + 1 \in 1..Len(bytes)
      BY <1>2
    <3>2. bytes[a - offset + 1] \in 0..255
      BY <1>2, <3>1, ElementOfSeq
    <3>3. a \in 0..(FlashSize - 1)
      BY <1>2, <1>5, EncodingAssumption
    <3> QED
      BY <3>2, <3>3
  <2> HIDE DEF offset, bytes
  <2>4. \A a \in DOMAIN flash : a \in DOMAIN flash' /\ flash'[a] = flash[a]
    BY <1>2, <2>1, <2>2
  <2>5. \A a \in DOMAIN flash' : a \in 0..(FlashSize - 1) /\ flash'[a] \in 0..255
    BY <1>2, <2>1, <2>3, <2>4 DEF FlashFilled
  <2>6. \A a \in DOMAIN flash' : a \in Int /\ a < offset + Len(bytes)
    BY <1>2, <2>1, <2>2
  <2>7. next' <= Len(FlashWrites)' => \A a \in DOMAIN flash' : a < FlashWrites[next'].offset
    <3> SUFFICES ASSUME next' <= Len(FlashWrites)', NEW a \in DOMAIN flash'
                 PROVE  a < FlashWrites[next'].offset
      OBVIOUS
    <3>1. next <= 6
      BY <1>1, <2>1, RegionsAscend
    <3>2. next + 1 \in 1..7
      BY <1>1, <3>1
    <3>3. FlashWrites[next + 1].offset \in Nat
      BY <3>2, RegionsAscend
    <3>4. a \in Int /\ a < offset + Len(bytes)
      BY <2>6
    <3> QED
      BY <1>2, <1>3, <2>1, <3>1, <3>3, <3>4
  <2>8. next' \in 1..(Len(FlashWrites) + 1)
    BY <1>1, <2>1, RegionsAscend
  <2> QED
    BY <2>4, <2>5, <2>7, <2>8 DEF FlashFilled
<1> QED
  BY <1>4, <1>5

LEMMA FlashStaysFilled == Spec => []FlashFilled
<1>1. Init => FlashFilled
  BY RegionsAscend DEF Init, FlashFilled
<1>2. FlashFilled /\ [Next]_vars => FlashFilled'
  <2> SUFFICES ASSUME FlashFilled, [Next]_vars PROVE FlashFilled'
    OBVIOUS
  <2>1. CASE FlashWrite
    BY <2>1, WriteFills
  <2>2. CASE SetState
    BY <2>2 DEF SetState, FlashFilled
  <2>3. CASE UNCHANGED vars
    BY <2>3 DEF vars, FlashFilled
  <2> QED
    BY <2>1, <2>2, <2>3 DEF Next
<1> QED
  BY <1>1, <1>2, PTL DEF Spec

\* What init once wrote to the flash stays there.
THEOREM FlashIsNotOverwritten == Spec => NothingIsOverwritten
<1> DEFINE Kept == \A a \in DOMAIN flash : a \in DOMAIN flash' /\ flash'[a] = flash[a]
<1>1. FlashFilled /\ [Next]_vars => [Kept]_vars
  <2> SUFFICES ASSUME FlashFilled, Next PROVE Kept
    OBVIOUS
  <2>1. CASE FlashWrite
    BY <2>1, WriteFills
  <2>2. CASE SetState
    BY <2>2 DEF SetState
  <2> QED
    BY <2>1, <2>2 DEF Next
<1> QED
  BY FlashStaysFilled, <1>1, PTL DEF Spec, NothingIsOverwritten

-----------------------------------------------------------------------------
(* Types.                                                                   *)

\* The bytes of the report are bytes.
LEMMA ReportBytes ==
  ASSUME NEW s \in AllGamepadStates
  PROVE  /\ ButtonBytes(s) \in Seq(SUBSET Bits)
         /\ Axis(s.stick_left) \in Seq(0..255)
         /\ Axis(s.stick_right) \in Seq(0..255)
<1>1. \A i \in 1..3 : ButtonByte(i, s) \in SUBSET Bits
  BY DEF ButtonByte
<1>2. ButtonBytes(s) \in Seq(SUBSET Bits)
  BY <1>1 DEF ButtonBytes
<1>3. s.stick_left \in Sticks /\ s.stick_right \in Sticks
  BY DEF AllGamepadStates
<1>4. \A stick \in Sticks : Axis(stick) \in Seq(0..255)
  <2> SUFFICES ASSUME NEW stick \in Sticks PROVE Axis(stick) \in Seq(0..255)
    OBVIOUS
  <2>1. stick.x \in Int16 /\ stick.y \in Int16
    BY DEF Sticks
  <2>2. AxisToRaw(stick.x) \in Uint12 /\ AxisToRaw(stick.y) \in Uint12
    BY <2>1, AxisFits
  <2> QED
    BY <2>2, PackedPairIsUnpacked DEF Axis
<1> QED
  BY <1>2, <1>3, <1>4

\* Types are never left, numbers of any size encoded.
THEOREM EncodingTypeCorrect == Spec => []TypeOK
<1> DEFINE Simple == created \in BOOLEAN /\ write \in {"none", "blocking", "nonblocking"}
<1>1. Init => Simple
  BY DEF Init
<1>2. Simple /\ [Next]_vars => Simple'
  <2> SUFFICES ASSUME Simple, [Next]_vars PROVE Simple'
    OBVIOUS
  <2>1. CASE FlashWrite
    <3>1. created' = created \/ created' = FALSE
      BY <2>1 DEF FlashWrite
    <3> QED
      BY <2>1, <3>1 DEF FlashWrite
  <2>2. CASE SetState
    BY <2>2 DEF SetState
  <2>3. CASE UNCHANGED vars
    BY <2>3 DEF vars
  <2> QED
    BY <2>1, <2>2, <2>3 DEF Next
<1>3. FlashFilled /\ Faithful /\ Simple => TypeOK
  <2> SUFFICES ASSUME FlashFilled, Faithful, Simple PROVE TypeOK
    OBVIOUS
  <2>1. input \in [buttons : Seq(SUBSET Bits), left : Seq(0..255), right : Seq(0..255)]
    BY ReportBytes DEF Faithful
  <2> QED
    BY <2>1 DEF TypeOK, FlashFilled, Faithful
<1> QED
  BY FlashStaysFilled, ReportIsFaithful, <1>1, <1>2, <1>3, PTL DEF Spec

-----------------------------------------------------------------------------
(* The calibration.                                                         *)

\* Every region that init has written so far holds what was written there.
FlashHolds ==
  \A k \in 1..(next - 1) : \A m \in 1..Len(FlashWrites[k].bytes) :
    LET a == FlashWrites[k].offset + m - 1
    IN a \in DOMAIN flash /\ flash[a] = FlashWrites[k].bytes[m]

LEMMA WriteHolds ==
  ASSUME FlashFilled, FlashHolds, FlashWrite PROVE FlashHolds'
<1> DEFINE offset == FlashWrites[next].offset
           bytes == FlashWrites[next].bytes
           addresses == offset..(offset + Len(bytes) - 1)
<1>1. next \in 1..7
  BY RegionsAscend DEF FlashFilled, FlashWrite
<1>2. offset \in Nat /\ bytes \in Seq(0..255) /\ Len(bytes) \in Nat
  <2>1. FlashWrites[next].offset \in Nat /\ FlashWrites[next].bytes \in Seq(0..255)
    BY <1>1, RegionsAscend
  <2>2. \A b \in Seq(0..255) : Len(b) \in Nat
    OBVIOUS
  <2>3. QED
    BY <2>1, <2>2
<1>3. \A a \in DOMAIN flash : a \in DOMAIN flash' /\ flash'[a] = flash[a]
  BY WriteFills
<1>4. CASE offset + Len(bytes) > FlashSize
  BY <1>4 DEF FlashWrite, FlashHolds
<1>5. CASE ~(offset + Len(bytes) > FlashSize)
  <2>1. /\ flash' = [a \in DOMAIN flash \cup addresses |->
                       IF a \in addresses THEN bytes[a - offset + 1] ELSE flash[a]]
        /\ next' = next + 1
    BY <1>5 DEF FlashWrite
  <2>2. ASSUME NEW k \in 1..next, NEW m \in 1..Len(FlashWrites[k].bytes)
        PROVE  /\ FlashWrites[k].offset + m - 1 \in DOMAIN flash'
               /\ flash'[FlashWrites[k].offset + m - 1] = FlashWrites[k].bytes[m]
    <3>1. CASE k = next
      <4> HIDE DEF offset, bytes
      <4>1. m \in 1..Len(bytes)
        BY <2>2, <3>1 DEF bytes
      <4>2. offset + m - 1 \in addresses /\ offset + m - 1 - offset + 1 = m
        BY <1>2, <4>1
      <4>3. /\ offset + m - 1 \in DOMAIN flash'
            /\ flash'[offset + m - 1] = bytes[m]
        <5> HIDE DEF addresses
        <5>1. \A b \in addresses : b \in DOMAIN flash' /\ flash'[b] = bytes[b - offset + 1]
          BY <2>1
        <5>2. PICK b \in addresses : b = offset + m - 1 /\ b - offset + 1 = m
          BY <1>2, <4>1, <4>2
        <5>3. b \in DOMAIN flash' /\ flash'[b] = bytes[b - offset + 1]
          BY <5>1
        <5>4. QED
          BY <5>2, <5>3, Zenon
      <4>4. QED
        BY <3>1, <4>3 DEF offset, bytes
    <3>2. CASE k # next
      <4>1. k \in 1..(next - 1)
        BY <1>1, <3>2
      <4>2. /\ FlashWrites[k].offset + m - 1 \in DOMAIN flash
            /\ flash[FlashWrites[k].offset + m - 1] = FlashWrites[k].bytes[m]
        BY <4>1 DEF FlashHolds
      <4>3. QED
        BY <1>3, <4>2
    <3>3. QED
      BY <3>1, <3>2
  <2>3. 1..(next' - 1) = 1..next
    BY <1>1, <2>1
  <2>4. QED
    BY <2>2, <2>3 DEF FlashHolds
<1>6. QED
  BY <1>4, <1>5

\* The flash holds exactly what init has written to it, in every region.
THEOREM FlashIsKept == Spec => []FlashHolds
<1>1. Init => FlashHolds
  BY DEF Init, FlashHolds
<1>2. FlashFilled /\ FlashHolds /\ [Next]_vars => FlashHolds'
  <2> SUFFICES ASSUME FlashFilled, FlashHolds, [Next]_vars PROVE FlashHolds'
    OBVIOUS
  <2>1. CASE FlashWrite
    BY <2>1, WriteHolds
  <2>2. CASE SetState
    BY <2>2 DEF SetState, FlashHolds
  <2>3. CASE UNCHANGED vars
    BY <2>3 DEF vars, FlashHolds
  <2>4. QED
    BY <2>1, <2>2, <2>3 DEF Next
<1>3. QED
  BY <1>1, <1>2, FlashStaysFilled, PTL DEF Spec

\* Three pairs that were written packed are read back.
LEMMA PairsAreReadBack ==
  ASSUME NEW values \in Seq(Uint12), Len(values) = 6, NEW offset \in Nat,
         \A m \in 1..9 : flash[offset + m - 1] = U12s(values)[m]
  PROVE  \A i \in 1..3 :
           Calibration(offset)[i] = [x |-> values[2 * i - 1], y |-> values[2 * i]]
<1> SUFFICES ASSUME NEW i \in 1..3
             PROVE  Calibration(offset)[i] = [x |-> values[2 * i - 1], y |-> values[2 * i]]
  OBVIOUS
<1> DEFINE a == values[2 * i - 1]
           b == values[2 * i]
           bytes == [j \in 1..3 |-> flash[offset + 3 * (i - 1) + j - 1]]
<1>1. a \in Uint12 /\ b \in Uint12
  <2>1. 2 * i - 1 \in 1..6 /\ 2 * i \in 1..6
    OBVIOUS
  <2>2. QED
    BY <2>1, ElementOfSeq
<1>2. ASSUME NEW j \in 1..3 PROVE bytes[j] = TwoU12(a, b)[j]
  <2> DEFINE m == 3 * (i - 1) + j
  <2>1. /\ m \in 1..9 /\ (m - 1) \div 3 = i - 1 /\ ((m - 1) % 3) + 1 = j
        /\ offset + 3 * (i - 1) + j - 1 = offset + m - 1
        /\ 2 * (i - 1) + 1 = 2 * i - 1 /\ 2 * (i - 1) + 2 = 2 * i
    <3>1. /\ m \in 1..9 /\ (m - 1) \div 3 = i - 1 /\ ((m - 1) % 3) + 1 = j
          /\ 2 * (i - 1) + 1 = 2 * i - 1 /\ 2 * (i - 1) + 2 = 2 * i
      <4>1. i = 1 \/ i = 2 \/ i = 3
        OBVIOUS
      <4>2. j = 1 \/ j = 2 \/ j = 3
        OBVIOUS
      <4>3. QED
        BY <4>1, <4>2
    <3>2. \A o \in Nat : \A a1, b1 \in Int : o + 3 * (a1 - 1) + b1 - 1 = o + (3 * (a1 - 1) + b1) - 1
      OBVIOUS
    <3>3. QED
      BY <3>1, <3>2
  <2>2. bytes[j] = flash[offset + m - 1]
    BY <2>1
  <2>3. flash[offset + m - 1] = U12s(values)[m]
    BY <2>1
  <2>4. U12s(values)[m] = TwoU12(values[2 * ((m - 1) \div 3) + 1],
                                 values[2 * ((m - 1) \div 3) + 2])[((m - 1) % 3) + 1]
    <3>1. 3 * (Len(values) \div 2) = 9
      OBVIOUS
    <3> HIDE DEF m
    <3>2. m \in 1..(3 * (Len(values) \div 2))
      BY <2>1, <3>1
    <3>3. QED
      BY <3>2 DEF U12s
  <2> HIDE DEF m, bytes
  <2>5. QED
    BY <2>1, <2>2, <2>3, <2>4
<1>3. Calibration(offset)[i] = Unpacked(bytes)
  BY DEF Calibration
<1> HIDE DEF a, b, bytes
<1>4. bytes[1] = TwoU12(a, b)[1] /\ bytes[2] = TwoU12(a, b)[2] /\ bytes[3] = TwoU12(a, b)[3]
  BY <1>2
<1>5. Unpacked(bytes) = Unpacked(TwoU12(a, b))
  BY <1>4 DEF Unpacked
<1>6. Unpacked(TwoU12(a, b)) = [x |-> a, y |-> b]
  BY <1>1, PackedPairIsUnpacked
<1>7. QED
  BY <1>3, <1>5, <1>6 DEF a, b

\* Both sticks' calibration is what init stored, each in its own order.
LEMMA CalibrationIsRead ==
  ASSUME FlashHolds, FlashFilled, next > Len(FlashWrites)
  PROVE  LET l == Calibration(LeftCalOffset)
             r == Calibration(RightCalOffset)
             pair(value) == [x |-> value, y |-> value]
         IN /\ l[1] = pair(2047) /\ l[2] = pair(2048) /\ l[3] = pair(2048)
            /\ r[1] = pair(2048) /\ r[2] = pair(2048) /\ r[3] = pair(2047)
<1> DEFINE left == StickCalLeft(StickCal)
           right == StickCalRight(StickCal)
<1>1. left = <<2047, 2047, 2048, 2048, 2048, 2048>>
  BY DEF StickCalLeft, StickCal, STICK_CENTER, STICK_MIN, STICK_MAX,
     STICK_MAGNITUDE_MIN, STICK_MAGNITUDE_MAX
<1>2. right = <<2048, 2048, 2048, 2048, 2047, 2047>>
  BY DEF StickCalRight, StickCal, STICK_CENTER, STICK_MIN, STICK_MAX,
     STICK_MAGNITUDE_MIN, STICK_MAGNITUDE_MAX
<1>3. /\ FlashWrites[3] = [offset |-> LeftCalOffset, bytes |-> U12s(left)]
      /\ FlashWrites[4] = [offset |-> RightCalOffset, bytes |-> U12s(right)]
  BY DEF FlashWrites
<1> HIDE DEF left, right
<1>4. /\ left \in Seq(Uint12) /\ Len(left) = 6
      /\ right \in Seq(Uint12) /\ Len(right) = 6
  BY <1>1, <1>2 DEF Uint12
<1>5. Len(U12s(left)) = 9 /\ Len(U12s(right)) = 9
  <2>1. /\ Len(U12s(left)) = 3 * (Len(left) \div 2)
        /\ Len(U12s(right)) = 3 * (Len(right) \div 2)
    BY <1>4, BytesOfU12s, Zenon
  <2>2. QED
    BY <1>4, <2>1
<1>6. 3 \in 1..(next - 1) /\ 4 \in 1..(next - 1)
  BY RegionsAscend DEF FlashFilled
<1>7. \A m \in 1..9 : flash[LeftCalOffset + m - 1] = U12s(left)[m]
  <2>1. FlashWrites[3].offset = LeftCalOffset /\ FlashWrites[3].bytes = U12s(left)
    BY <1>3
  <2>2. \A m \in 1..Len(FlashWrites[3].bytes) :
          flash[FlashWrites[3].offset + m - 1] = FlashWrites[3].bytes[m]
    BY <1>6 DEF FlashHolds
  <2>3. QED
    BY <1>5, <2>1, <2>2
<1>8. \A m \in 1..9 : flash[RightCalOffset + m - 1] = U12s(right)[m]
  <2>1. FlashWrites[4].offset = RightCalOffset /\ FlashWrites[4].bytes = U12s(right)
    BY <1>3
  <2>2. \A m \in 1..Len(FlashWrites[4].bytes) :
          flash[FlashWrites[4].offset + m - 1] = FlashWrites[4].bytes[m]
    BY <1>6 DEF FlashHolds
  <2>3. QED
    BY <1>5, <2>1, <2>2
<1>9. LeftCalOffset \in Nat /\ RightCalOffset \in Nat
  BY DEF LeftCalOffset, RightCalOffset
<1>10. \A i \in 1..3 :
         Calibration(LeftCalOffset)[i] = [x |-> left[2 * i - 1], y |-> left[2 * i]]
  BY <1>4, <1>7, <1>9, PairsAreReadBack
<1>11. \A i \in 1..3 :
         Calibration(RightCalOffset)[i] = [x |-> right[2 * i - 1], y |-> right[2 * i]]
  BY <1>4, <1>8, <1>9, PairsAreReadBack
<1>12. QED
  BY <1>1, <1>2, <1>10, <1>11

\* The sticks use exactly the range that the host reads from the flash.
THEOREM SticksFitTheirCalibration == Spec => []SticksFitCalibration
<1>1. ASSUME NEW value \in Int16
      PROVE  FitsCalibration(AxisToRaw(value), value, 2048, 2048, 2047)
  <2>1. /\ AxisToRaw(value) \in 0..4095
        /\ value = -32768 => AxisToRaw(value) = 0
        /\ value = 0 => AxisToRaw(value) = 2048
        /\ value = 32767 => AxisToRaw(value) = 4095
    BY AxisFits DEF Uint12, STICK_MIN, STICK_CENTER, STICK_MAX
  <2> DEFINE raw == AxisToRaw(value)
  <2> HIDE DEF raw
  <2>2. /\ raw \in 0..4095
        /\ value = -32768 => raw = 0
        /\ value = 0 => raw = 2048
        /\ value = 32767 => raw = 4095
    BY <2>1 DEF raw
  <2>3. FitsCalibration(raw, value, 2048, 2048, 2047)
    BY <2>2 DEF FitsCalibration
  <2>4. QED
    BY <2>3 DEF raw
<1>2. FlashHolds /\ FlashFilled /\ Faithful => SticksFitCalibration
  <2> SUFFICES ASSUME FlashHolds, FlashFilled, Faithful, next > Len(FlashWrites)
               PROVE  SticksFitCalibration
    BY DEF SticksFitCalibration
  <2>1. /\ state.stick_left.x \in Int16 /\ state.stick_left.y \in Int16
        /\ state.stick_right.x \in Int16 /\ state.stick_right.y \in Int16
    BY DEF Faithful, AllGamepadStates, Sticks
  <2>2. SticksAreDecoded
    BY FaithfulIsDecoded
  <2>3. QED
    BY <1>1, <2>1, <2>2, CalibrationIsRead DEF SticksFitCalibration, SticksAreDecoded
<1>3. QED
  BY <1>2, FlashIsKept, FlashStaysFilled, ReportIsFaithful, PTL
===============================================================================
