------------------------------ MODULE MCClients ------------------------------
(* An instance of Clients for TLC. *)
EXTENDS Clients, TLC

Packet(bytes, means) == [bytes |-> bytes, means |-> means]

(* Both motors, an animation whose code is 0, and a packet that means      *)
(* nothing: the first unknown animation.                                   *)
AllPackets ==
  { Packet(RumblePacket(255, 1), Rumble(255, 1)),
    Packet(LedPacket(0), Led(0)), Packet(LedPacket(14), None) }

(* Button n is pressed in state k where bit k of n is set, so that no two  *)
(* buttons agree in all states; and the ends of triggers and axes.         *)
ButtonOrder ==
  << "a", "b", "x", "y", "lb", "rb", "l3", "r3", "start", "back", "guide",
     "dpad_up", "dpad_down", "dpad_left", "dpad_right" >>

PressedIn(k) == {ButtonOrder[n] : n \in {n \in 1 .. 15 : (n \div 2 ^ k) % 2 = 1}}

SomeStates ==
  {[with_right_trigger(Default, k) EXCEPT !.pressed = PressedIn(k)] : k \in 0 .. 3}
    \cup { with_left_trigger(
             with_left_stick(with_right_stick(Default, 32767, -32768), -1, 256), 255) }

(* A slot with a controller, one without, one no host uses, and wrapped. *)
SomeSlots == {-1, 0, 1, 256}

(* The demo's host talks to slot 1 only. *)
PerTick == (0 :> 0) @@ (1 :> 1)

SomeData ==
  {[len |-> n, first |-> from_input(with_button(Default, "a", TRUE))] : n \in {0, 19, 20}}
=============================================================================
