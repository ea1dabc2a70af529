------------------------------ MODULE Receiver ------------------------------
(***************************************************************************)
(* WirelessReceiver of session.rs over a Transport that behaves as the     *)
(* rest of this project shows: an endpoint table that appears and goes at  *)
(* once (Link, which Ep0 implements), and per slot and kind a place for    *)
(* one report (Mailbox, which OutputPath implements and MockTransport is). *)
(* Beside it the host: what it has been shown of each slot, and what it    *)
(* has asked of it.  The operations are used by the clients of Clients.    *)
(***************************************************************************)
EXTENDS Protocol

CONSTANTS
  HostSlots,  \* bound: the slots this host configures and talks to
  Packets,    \* what it sends: [bytes, means], means a report or None
  None

Frames == [0 .. INPUT_REPORT_LEN - 1 -> Byte]

ASSUME HostSlotsAssumption == HostSlots \subseteq 0 .. 3
ASSUME PacketsAssumption ==
  \A p \in Packets :
    \/ \E l, r \in Byte : p.bytes = RumblePacket(l, r) /\ p.means = Rumble(l, r)
    \/ \E a \in Byte :
         /\ p.bytes = LedPacket(a)
         /\ p.means = IF a \in Animations THEN Led(a) ELSE None
    \/ /\ p.means = None /\ p.bytes \in Seq(Byte)
       /\ Len(p.bytes) < 3 \/ p.bytes[1] \notin {0, 1}
ASSUME NoneAssumption ==
  None \notin Reports \cup Frames \cup [slot : 0 .. 3, report : Frames]

Kinds == {"rumble", "led"}
Keys == (0 .. 3) \X Kinds

VARIABLES
  slots,    \* ControllerSlots: a function on 0 .. n - 1; no slots, no receiver
  ep_in,    \* the slots whose IN endpoint is in the table
  box,      \* what a poll of the key would return, or None
  writing,  \* the report EP_WRITE is to deliver, with its slot, or None
  seen,     \* host: the last report it took from the slot, or None
  asked,    \* host: its last command for the key since the last poll, or None
  owed      \* slots whose state the host must have seen when nothing is sent

receiver == <<slots, ep_in, box, writing, seen, asked, owed>>

NoSlots == << >>
Empty == [k \in Keys |-> None]
Unseen == [s \in HostSlots |-> None]
HasSlot(index) == index \in DOMAIN slots

ReceiverInit ==
  /\ slots = NoSlots /\ ep_in = {}
  /\ box = Empty /\ asked = Empty
  /\ writing = None /\ seen = Unseen /\ owed = {}

(* WirelessReceiver::new over a new transport; without slots: its drop. *)
NewReceiver(n) ==
  /\ slots' = [s \in 0 .. n - 1 |-> Default]
  /\ ep_in' = {} /\ box' = Empty /\ asked' = Empty
  /\ writing' = None /\ seen' = Unseen /\ owed' = {}

(***************************************************************************)
(* The host and ep0.                                                       *)
(***************************************************************************)

(* SET_CONFIGURATION: some of the endpoints are enabled. *)
Configured ==
  /\ ep_in' \in SUBSET (HostSlots \cap DOMAIN slots)
  /\ seen' = Unseen /\ owed' = {}
  /\ UNCHANGED <<slots, box, writing, asked>>

(* Reset or disconnect. *)
Forgotten ==
  /\ ep_in # {} /\ ep_in' = {}
  /\ seen' = Unseen /\ owed' = {}
  /\ UNCHANGED <<slots, box, writing, asked>>

(* ep_out_loop and drain_output_channel: from_bytes, newest first. *)
Deliver(s, bytes) ==
  LET r == FromBytes(bytes)
  IN box' = IF r = NotAReport THEN box ELSE [box EXCEPT ![<<s, r.kind>>] = r]

(* An OUT endpoint may work where the slot's IN endpoint does not, and what *)
(* it took before a reset still arrives after it.                          *)
HostSends(s, packet) ==
  /\ HasSlot(s)
  /\ Deliver(s, packet.bytes)
  /\ asked' = IF packet.means = None
                THEN asked
                ELSE [asked EXCEPT ![<<s, packet.means.kind>>] = packet.means]
  /\ UNCHANGED <<slots, ep_in, writing, seen, owed>>

(* EP_WRITE returns: the host polled the endpoint, or an error. *)
EpWriteOk ==
  /\ writing # None /\ writing.slot \in ep_in
  /\ seen' = [seen EXCEPT ![writing.slot] = writing.report]
  /\ writing' = None
  /\ UNCHANGED <<slots, ep_in, box, asked, owed>>

EpWriteFails ==
  /\ writing # None
  /\ owed' = owed \ {writing.slot}
  /\ writing' = None
  /\ UNCHANGED <<slots, ep_in, box, seen, asked>>

(***************************************************************************)
(* The operations.                                                         *)
(***************************************************************************)

(* write_input_report: dropped without a word where there is no handle. *)
WriteInputReport(index, report) ==
  writing' = IF index \in ep_in THEN [slot |-> index, report |-> report] ELSE None

(* Mistake: the state of the first slot. *)
send_input_First(index) ==
  IF HasSlot(index)
    THEN WriteInputReport(index, from_input(slots[0]))
    ELSE UNCHANGED writing

send_input(index) ==
  IF HasSlot(index)
    THEN WriteInputReport(index, from_input(slots[index]))
    ELSE UNCHANGED writing

(* set_state on slot_mut(index), for the slots there are. *)
SetStates(indices, st) ==
  slots' = [s \in DOMAIN slots |-> IF s \in indices THEN st ELSE slots[s]]

(* InputReport::from_bytes: raw data is its length and its first 20 bytes. *)
IsReport(data) == data.len >= INPUT_REPORT_LEN

send_raw_input(index, data) ==
  IF IsReport(data)
    THEN WriteInputReport(index, data.first)
    ELSE UNCHANGED writing

(* poll_rumble and poll_led empty the key's place; asked is the host's side*)
(* of the same account.                                                    *)
Take(key) ==
  /\ box' = [box EXCEPT ![key] = None]
  /\ asked' = [asked EXCEPT ![key] = None]
=============================================================================
