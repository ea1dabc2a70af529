--------------------------- MODULE ProtocolProofs ---------------------------
(* Proofs about the packets, for every controller state and every packet.  *)
EXTENDS Protocol, TLAPS

(***************************************************************************)
(* Input reports.                                                          *)
(***************************************************************************)

(* Division as the bytes of an i16 need it. *)
LEMMA Quotient ==
  ASSUME NEW v \in Int
  PROVE  \E q \in Int, r \in 0 .. 255 : v = 256 * q + r
<1>1. PICK q \in Int : q = v \div 256
  OBVIOUS
<1>2. PICK r \in 0 .. 255 : r = v % 256
  OBVIOUS
<1>3. v = 256 * q + r
  BY <1>1, <1>2
<1> QED BY <1>3

LEMMA Divided ==
  ASSUME NEW v \in Int, NEW q \in Int, NEW r \in 0 .. 255, v = 256 * q + r
  PROVE  v \div 256 = q /\ v % 256 = r
OBVIOUS

LEMMA Wrapped ==
  ASSUME NEW v \in I16
  PROVE  v % 65536 = IF v < 0 THEN v + 65536 ELSE v
<1>1. v \in Int /\ -32768 <= v /\ v <= 32767
  BY DEF I16
<1>2. CASE v < 0
  BY <1>1, <1>2
<1>3. CASE v >= 0
  BY <1>1, <1>3
<1> QED BY <1>1, <1>2, <1>3

(* An axis comes back from its two bytes, whatever its sign. *)
LEMMA AxisRead ==
  ASSUME NEW v \in I16
  PROVE  /\ LowByte(v) \in Byte /\ HighByte(v) \in Byte
         /\ HostAxis(LowByte(v), HighByte(v)) = v
<1>1. v \in Int /\ -32768 <= v /\ v <= 32767
  BY DEF I16
<1>2. PICK w \in Int : w = v % 65536 /\ w = IF v < 0 THEN v + 65536 ELSE v
  BY <1>1, Wrapped
<1>3. 0 <= w /\ w <= 65535
  BY <1>1, <1>2
<1>4. PICK q \in Int, r \in 0 .. 255 : w = 256 * q + r
  BY Quotient
<1>5. q \in 0 .. 255
  BY <1>3, <1>4
<1>6. HighByte(v) = q
  <2>1. w \div 256 = q
    BY <1>4, Divided
  <2> QED BY <1>2, <2>1 DEF HighByte
<1>7. LowByte(v) = r
  <2>1. PICK p \in Int : p = IF v < 0 THEN q - 256 ELSE q
    OBVIOUS
  <2>2. PICK u \in Int : u = v
    BY <1>1
  <2>3. u = 256 * p + r
    BY <1>1, <1>2, <1>4, <2>1, <2>2
  <2>4. u % 256 = r
    BY <2>3, Divided
  <2> QED BY <2>2, <2>4 DEF LowByte
<1>8. HostAxis(r, q) = v
  BY <1>1, <1>2, <1>3, <1>4, <1>5 DEF HostAxis
<1> QED BY <1>5, <1>6, <1>7, <1>8 DEF Byte

LEMMA SetBits ==
  ASSUME NEW x
  PROVE  /\ IsSet(x, 1) <=> (x \div 1) % 2 = 1
         /\ IsSet(x, 2) <=> (x \div 2) % 2 = 1
         /\ IsSet(x, 3) <=> (x \div 4) % 2 = 1
         /\ IsSet(x, 4) <=> (x \div 8) % 2 = 1
         /\ IsSet(x, 5) <=> (x \div 16) % 2 = 1
         /\ IsSet(x, 6) <=> (x \div 32) % 2 = 1
         /\ IsSet(x, 7) <=> (x \div 64) % 2 = 1
         /\ IsSet(x, 8) <=> (x \div 128) % 2 = 1
BY DEF IsSet, BitValues

LEMMA FlagType ==
  ASSUME NEW st, NEW j, NEW k
  PROVE  Flag(st, j, k) \in {0, 1}
BY DEF Flag

LEMMA FlagsRead ==
  ASSUME NEW st, NEW j
  PROVE  /\ Flags(st, j) \in Byte
         /\ \A k \in 1 .. 8 : IsSet(Flags(st, j), k) <=> Flag(st, j, k - 1) = 1
<1>1. PICK x : x = Flags(st, j)
  OBVIOUS
<1>10. PICK c0 \in {0, 1} : c0 = Flag(st, j, 0)
  BY FlagType
<1>11. PICK c1 \in {0, 1} : c1 = Flag(st, j, 1)
  BY FlagType
<1>12. PICK c2 \in {0, 1} : c2 = Flag(st, j, 2)
  BY FlagType
<1>13. PICK c3 \in {0, 1} : c3 = Flag(st, j, 3)
  BY FlagType
<1>14. PICK c4 \in {0, 1} : c4 = Flag(st, j, 4)
  BY FlagType
<1>15. PICK c5 \in {0, 1} : c5 = Flag(st, j, 5)
  BY FlagType
<1>16. PICK c6 \in {0, 1} : c6 = Flag(st, j, 6)
  BY FlagType
<1>17. PICK c7 \in {0, 1} : c7 = Flag(st, j, 7)
  BY FlagType
<1>3. x = c0 + 2 * c1 + 4 * c2 + 8 * c3 + 16 * c4 + 32 * c5 + 64 * c6 + 128 * c7
  BY <1>1, <1>10, <1>11, <1>12, <1>13, <1>14, <1>15, <1>16, <1>17 DEF Flags
<1>5. /\ x \in Byte
      /\ (x \div 1) % 2 = c0 /\ (x \div 2) % 2 = c1
      /\ (x \div 4) % 2 = c2 /\ (x \div 8) % 2 = c3
      /\ (x \div 16) % 2 = c4 /\ (x \div 32) % 2 = c5
      /\ (x \div 64) % 2 = c6 /\ (x \div 128) % 2 = c7
  BY <1>3 DEF Byte
<1>6. \A k \in 1 .. 8 : IsSet(x, k) <=> Flag(st, j, k - 1) = 1
  <2>1. /\ IsSet(x, 1) <=> Flag(st, j, 0) = 1
        /\ IsSet(x, 2) <=> Flag(st, j, 1) = 1
        /\ IsSet(x, 3) <=> Flag(st, j, 2) = 1
        /\ IsSet(x, 4) <=> Flag(st, j, 3) = 1
        /\ IsSet(x, 5) <=> Flag(st, j, 4) = 1
        /\ IsSet(x, 6) <=> Flag(st, j, 5) = 1
        /\ IsSet(x, 7) <=> Flag(st, j, 6) = 1
        /\ IsSet(x, 8) <=> Flag(st, j, 7) = 1
    BY <1>5, <1>10, <1>11, <1>12, <1>13, <1>14, <1>15, <1>16, <1>17, SetBits
  <2> QED BY <2>1
<1> QED BY <1>1, <1>5, <1>6

(* The host's table is from_input's, bit by bit. *)
LEMMA ButtonNames ==
  Buttons = { "dpad_up", "dpad_down", "dpad_left", "dpad_right", "start", "back", "l3", "r3",
              "lb", "rb", "guide", "a", "b", "x", "y" }
BY DEF Buttons, Bit

LEMMA FirstTable ==
  \A b \in Buttons : \A k \in 1 .. 8 : HostFlags[1][k] = b <=> Bit[b] = <<2, k - 1>>
BY ButtonNames DEF HostFlags, Bit

LEMMA SecondTable ==
  \A b \in Buttons : \A k \in 1 .. 8 : HostFlags[2][k] = b <=> Bit[b] = <<3, k - 1>>
BY ButtonNames DEF HostFlags, Bit

LEMMA Placed ==
  \A b \in Buttons : \E k \in 1 .. 8 : Bit[b] = <<2, k - 1>> \/ Bit[b] = <<3, k - 1>>
<1>1. \A b \in Buttons : \E j \in {2, 3}, k \in 0 .. 7 : Bit[b] = <<j, k>>
  BY ButtonNames DEF Bit
<1>2. \A k \in 0 .. 7 : k + 1 \in 1 .. 8 /\ (k + 1) - 1 = k
  OBVIOUS
<1> QED BY <1>1, <1>2

LEMMA ButtonsRead ==
  ASSUME NEW st \in InputStates, NEW report,
         report[2] = Flags(st, 2), report[3] = Flags(st, 3)
  PROVE  Decode(report).pressed = st.pressed
<1> DEFINE Shown(j) == {HostFlags[j][k] : k \in {k \in 1 .. 8 : IsSet(report[j + 1], k)}}
<1>1. Decode(report).pressed = Shown(1) \cup Shown(2)
  <2>1. Decode(report).pressed = UNION {Shown(j) : j \in 1 .. 2}
    BY DEF Decode
  <2>2. 1 .. 2 = {1, 2}
    OBVIOUS
  <2> HIDE DEF Shown
  <2> QED BY <2>1, <2>2
<1>2. st.pressed \subseteq Buttons
  BY DEF InputStates
<1>3. \A k \in 1 .. 8 : /\ IsSet(report[2], k) <=> Flag(st, 2, k - 1) = 1
                        /\ IsSet(report[3], k) <=> Flag(st, 3, k - 1) = 1
  BY FlagsRead
<1>4. \A k \in 1 .. 8 :
        /\ IsSet(report[2], k) <=> \E b \in st.pressed : HostFlags[1][k] = b
        /\ IsSet(report[3], k) <=> \E b \in st.pressed : HostFlags[2][k] = b
  BY <1>2, <1>3, FirstTable, SecondTable DEF Flag
<1>5. /\ Shown(1) = {HostFlags[1][k] : k \in {k \in 1 .. 8 : IsSet(report[2], k)}}
      /\ Shown(2) = {HostFlags[2][k] : k \in {k \in 1 .. 8 : IsSet(report[3], k)}}
  OBVIOUS
<1> HIDE DEF Shown
<1>6. Shown(1) \cup Shown(2) \subseteq st.pressed
  BY <1>4, <1>5
<1>7. ASSUME NEW b \in st.pressed
      PROVE  b \in Shown(1) \cup Shown(2)
  <2>1. PICK k \in 1 .. 8 : Bit[b] = <<2, k - 1>> \/ Bit[b] = <<3, k - 1>>
    BY <1>2, Placed
  <2>2. HostFlags[1][k] = b \/ HostFlags[2][k] = b
    BY <1>2, <2>1, FirstTable, SecondTable
  <2> QED BY <1>4, <1>5, <2>2
<1> QED BY <1>1, <1>6, <1>7

(* A host that reads a report by the table in protocol.rs sees exactly the *)
(* state from_input was given: every button, trigger and axis, whatever    *)
(* the others are and whatever the sign.                                   *)
THEOREM ReportShowsState ==
  \A st \in InputStates :
    from_input(st) \in [0 .. 19 -> Byte] /\ Decode(from_input(st)) = st
<1> TAKE st \in InputStates
<1>1. PICK report : report = from_input(st)
  OBVIOUS
<1>2. /\ report[2] = Flags(st, 2) /\ report[3] = Flags(st, 3)
      /\ report[4] = st.trigger["left_trigger"] /\ report[5] = st.trigger["right_trigger"]
      /\ report[6] = LowByte(st.axis["left_stick_x"])
      /\ report[7] = HighByte(st.axis["left_stick_x"])
      /\ report[8] = LowByte(st.axis["left_stick_y"])
      /\ report[9] = HighByte(st.axis["left_stick_y"])
      /\ report[10] = LowByte(st.axis["right_stick_x"])
      /\ report[11] = HighByte(st.axis["right_stick_x"])
      /\ report[12] = LowByte(st.axis["right_stick_y"])
      /\ report[13] = HighByte(st.axis["right_stick_y"])
  BY <1>1 DEF from_input, INPUT_REPORT_LEN, AxisAt
<1>3. /\ st.trigger \in [Triggers -> Byte] /\ st.axis \in [Axes -> I16]
      /\ st = [pressed |-> st.pressed, trigger |-> st.trigger, axis |-> st.axis]
  BY DEF InputStates
<1>4. /\ st.axis["left_stick_x"] \in I16 /\ st.axis["left_stick_y"] \in I16
      /\ st.axis["right_stick_x"] \in I16 /\ st.axis["right_stick_y"] \in I16
  BY <1>3 DEF Axes
<1>5. Decode(report).pressed = st.pressed
  BY <1>2, ButtonsRead
<1>6. Decode(report).trigger = st.trigger
  BY <1>2, <1>3 DEF Decode, Triggers
<1>7. Decode(report).axis = st.axis
  <2>1. Decode(report).axis =
          [ left_stick_x |-> st.axis["left_stick_x"],
            left_stick_y |-> st.axis["left_stick_y"],
            right_stick_x |-> st.axis["right_stick_x"],
            right_stick_y |-> st.axis["right_stick_y"] ]
    BY <1>2, <1>4, AxisRead DEF Decode
  <2> QED BY <1>3, <2>1 DEF Axes
<1>8. Decode(report) = st
  BY <1>3, <1>5, <1>6, <1>7 DEF Decode
<1>9. report \in [0 .. 19 -> Byte]
  <2>1. report = [j \in 0 .. 19 |-> report[j]]
    BY <1>1 DEF from_input, INPUT_REPORT_LEN
  <2>2. /\ report[0] = 0 /\ report[1] = 20
        /\ report[14] = 0 /\ report[15] = 0 /\ report[16] = 0
        /\ report[17] = 0 /\ report[18] = 0 /\ report[19] = 0
    BY <1>1 DEF from_input, INPUT_REPORT_LEN
  <2>3. /\ report[2] \in Byte /\ report[3] \in Byte
        /\ report[4] \in Byte /\ report[5] \in Byte
    BY <1>2, <1>3, FlagsRead DEF Triggers
  <2>4. /\ report[6] \in Byte /\ report[7] \in Byte /\ report[8] \in Byte
        /\ report[9] \in Byte /\ report[10] \in Byte /\ report[11] \in Byte
        /\ report[12] \in Byte /\ report[13] \in Byte
    BY <1>2, <1>4, AxisRead
  <2>5. 0 \in Byte /\ 20 \in Byte
    BY DEF Byte
  <2>6. \A j \in 0 .. 19 : report[j] \in Byte
    BY <2>2, <2>3, <2>4, <2>5
  <2> QED BY <2>1, <2>6
<1> QED BY <1>1, <1>8, <1>9

LEMMA FrameType ==
  0 .. INPUT_REPORT_LEN - 1 = 0 .. 19
BY DEF INPUT_REPORT_LEN

LEMMA DefaultType == Default \in InputStates
BY DEF Default, InputStates, I16, Byte

LEMMA ButtonSet ==
  ASSUME NEW st \in InputStates, NEW b \in Buttons, NEW pressed \in BOOLEAN
  PROVE  with_button(st, b, pressed) \in InputStates
BY DEF with_button, InputStates
-----------------------------------------------------------------------------

(***************************************************************************)
(* Output reports.                                                         *)
(***************************************************************************)

LEMMA RumbleRead ==
  ASSUME NEW l, NEW r
  PROVE  FromBytes(RumblePacket(l, r)) = Rumble(l, r)
<1>1. PICK data : data = RumblePacket(l, r)
  OBVIOUS
<1>2. /\ data # << >> /\ Len(data) = 8
      /\ data[1] = 0 /\ data[2] = 8 /\ data[4] = l /\ data[5] = r
  BY <1>1 DEF RumblePacket
<1> QED BY <1>1, <1>2 DEF FromBytes, RumbleFromBytes

(* An animation the protocol does not know is no report. *)
LEMMA LedRead ==
  ASSUME NEW a
  PROVE  FromBytes(LedPacket(a)) = IF a \in Animations THEN Led(a) ELSE NotAReport
<1>1. PICK data : data = LedPacket(a)
  OBVIOUS
<1>2. data # << >> /\ Len(data) = 3 /\ data[1] = 1 /\ data[2] = 3 /\ data[3] = a
  BY <1>1 DEF LedPacket
<1> QED BY <1>1, <1>2 DEF FromBytes, LedFromBytes

LEMMA OthersIgnored ==
  ASSUME NEW data \in Seq(Byte), Len(data) < 3 \/ data[1] \notin {0, 1}
  PROVE  FromBytes(data) = NotAReport
BY DEF FromBytes, RumbleFromBytes, LedFromBytes

LEMMA ReportTypes ==
  /\ \A l, r \in Byte : Rumble(l, r) \in Reports /\ Rumble(l, r).kind = "rumble"
  /\ \A a \in Animations : Led(a) \in Reports /\ Led(a).kind = "led"
  /\ \A r \in Reports : r # NotAReport
BY DEF Reports, Rumble, Led, NotAReport

LEMMA ReportParts ==
  \A r \in Reports :
    /\ r.kind = "rumble" => r = Rumble(r.left_motor, r.right_motor)
    /\ r.kind = "led" => r.animation \in Animations /\ r = Led(r.animation)
BY DEF Reports, Rumble, Led
=============================================================================
