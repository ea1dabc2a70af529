------------------------------ MODULE Protocol ------------------------------
(***************************************************************************)
(* The packets of protocol.rs and the controller state of controller.rs.   *)
(* An InputState is the set of its pressed buttons beside triggers and     *)
(* stick axes.  Byte strings from the host are sequences (index 1 is the   *)
(* source's index 0); an input report is a function on 0 .. 19.            *)
(***************************************************************************)
EXTENDS Integers, Sequences

Byte == 0 .. 255
I16 == {v \in Int : -32768 <= v /\ v <= 32767}

Axes == {"left_stick_x", "left_stick_y", "right_stick_x", "right_stick_y"}
Triggers == {"left_trigger", "right_trigger"}

(* The byte of the report and the bit from_input shifts each button to. *)
Bit ==
  [ dpad_up |-> <<2, 0>>, dpad_down |-> <<2, 1>>, dpad_left |-> <<2, 2>>,
    dpad_right |-> <<2, 3>>, start |-> <<2, 4>>, back |-> <<2, 5>>,
    l3 |-> <<2, 6>>, r3 |-> <<2, 7>>,
    lb |-> <<3, 0>>, rb |-> <<3, 1>>, guide |-> <<3, 2>>,
    a |-> <<3, 4>>, b |-> <<3, 5>>, x |-> <<3, 6>>, y |-> <<3, 7>> ]

Buttons == DOMAIN Bit

InputStates ==
  [ pressed : SUBSET Buttons, trigger : [Triggers -> Byte],
    axis : [Axes -> I16] ]

(* InputState::default. *)
Default ==
  [ pressed |-> {}, trigger |-> [t \in Triggers |-> 0], axis |-> [x \in Axes |-> 0] ]

with_button(st, button, pressed) ==
  [st EXCEPT !.pressed = IF pressed THEN @ \cup {button} ELSE @ \ {button}]

with_left_trigger(st, v) == [st EXCEPT !.trigger["left_trigger"] = v]
with_right_trigger(st, v) == [st EXCEPT !.trigger["right_trigger"] = v]

with_left_stick(st, x, y) ==
  [st EXCEPT !.axis["left_stick_x"] = x, !.axis["left_stick_y"] = y]

with_right_stick(st, x, y) ==
  [st EXCEPT !.axis["right_stick_x"] = x, !.axis["right_stick_y"] = y]

(***************************************************************************)
(* Input reports.                                                          *)
(***************************************************************************)

INPUT_REPORT_LEN == 20

(* i16 in two's complement, low byte first. *)
LowByte(v) == v % 256
HighByte(v) == (v % 65536) \div 256

(* The flag from_input puts at bit k of byte j, and the byte it ors up. *)
Flag(st, j, k) == IF \E b \in st.pressed : Bit[b] = <<j, k>> THEN 1 ELSE 0

Flags(st, j) ==
  Flag(st, j, 0) + 2 * Flag(st, j, 1) + 4 * Flag(st, j, 2) + 8 * Flag(st, j, 3)
    + 16 * Flag(st, j, 4) + 32 * Flag(st, j, 5) + 64 * Flag(st, j, 6)
    + 128 * Flag(st, j, 7)

(* The axis whose i16 starts at byte j. *)
AxisAt(j) ==
  CASE j = 6 -> "left_stick_x" [] j = 8 -> "left_stick_y"
    [] j = 10 -> "right_stick_x" [] j = 12 -> "right_stick_y"

from_input(st) ==
  [j \in 0 .. INPUT_REPORT_LEN - 1 |->
     CASE j = 1 -> 20
       [] j \in {2, 3} -> Flags(st, j)
       [] j = 4 -> st.trigger["left_trigger"]
       [] j = 5 -> st.trigger["right_trigger"]
       [] j \in {6, 8, 10, 12} -> LowByte(st.axis[AxisAt(j)])
       [] j \in {7, 9, 11, 13} -> HighByte(st.axis[AxisAt(j - 1)])
       [] OTHER -> 0]

(* How the host reads a report: the table of protocol.rs:25-37, with the   *)
(* flags of a byte in the order of their bits.                             *)
HostFlags ==
  << << "dpad_up", "dpad_down", "dpad_left", "dpad_right", "start", "back", "l3", "r3" >>,
     << "lb", "rb", "guide", "reserved", "a", "b", "x", "y" >> >>

BitValues == <<1, 2, 4, 8, 16, 32, 64, 128>>
IsSet(byte, k) == (byte \div BitValues[k]) % 2 = 1

HostAxis(low, high) ==
  LET v == low + 256 * high IN IF v < 32768 THEN v ELSE v - 65536

Decode(report) ==
  [ pressed |-> UNION {{HostFlags[j][k] : k \in {k \in 1 .. 8 :
                          IsSet(report[j + 1], k)}} : j \in 1 .. 2},
    trigger |-> [left_trigger |-> report[4], right_trigger |-> report[5]],
    axis |-> [ left_stick_x |-> HostAxis(report[6], report[7]),
               left_stick_y |-> HostAxis(report[8], report[9]),
               right_stick_x |-> HostAxis(report[10], report[11]),
               right_stick_y |-> HostAxis(report[12], report[13]) ] ]

(***************************************************************************)
(* Output reports.  An unrecognised packet is Rust's None, here NotAReport.*)
(***************************************************************************)

NotAReport == [kind |-> "none"]
Rumble(left, right) == [kind |-> "rumble", left_motor |-> left, right_motor |-> right]
Led(animation) == [kind |-> "led", animation |-> animation]

Animations == 0 .. 13

Reports ==
  [kind : {"rumble"}, left_motor : Byte, right_motor : Byte]
    \cup [kind : {"led"}, animation : Animations]

(* The packets of a host that means them. *)
RumblePacket(left, right) == <<0, 8, 0, left, right, 0, 0, 0>>
LedPacket(animation) == <<1, 3, animation>>

(* Mistake: the first motor is taken from the byte before it. *)
RumbleFromBytes_Shifted(data) ==
  IF Len(data) < 8 \/ data[1] # 0 \/ data[2] # 8
    THEN NotAReport
    ELSE Rumble(data[3], data[4])

RumbleFromBytes(data) ==
  IF Len(data) < 8 \/ data[1] # 0 \/ data[2] # 8
    THEN NotAReport
    ELSE Rumble(data[4], data[5])

LedFromBytes(data) ==
  IF Len(data) < 3 \/ data[1] # 1 \/ data[2] # 3 \/ data[3] \notin Animations
    THEN NotAReport
    ELSE Led(data[3])

(* OutputReport::from_bytes. *)
FromBytes(data) ==
  CASE data = << >> -> NotAReport
    [] data # << >> /\ data[1] = 0 -> RumbleFromBytes(data)
    [] data # << >> /\ data[1] = 1 -> LedFromBytes(data)
    [] OTHER -> NotAReport
=============================================================================
