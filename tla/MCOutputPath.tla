---------------------------- MODULE MCOutputPath ----------------------------
(* Instances of OutputPath for TLC. *)
EXTENDS OutputPath

(* One reader per slot: what Ep0!OneReader establishes. *)
OwnReader == [t \in Readers |-> t]

(* Two reports of one key beside one of its slot's and one of its kind's   *)
(* other key.                                                              *)
OneKeyTwice ==
  [k \in Keys |-> CASE k = <<0, "rumble">> -> 2
                     [] k = <<1, "led">> -> 0
                     [] OTHER -> 1]
=============================================================================
