---------------------------- MODULE ClientsProofs ----------------------------
(* Proofs about Clients, for any arguments, states and packets.            *)
EXTENDS Clients, ProtocolProofs

USE HostSlotsAssumption, NoneAssumption, ArgsAssumption, BoundAssumption

(***************************************************************************)
(* What the operations are given and return.                               *)
(***************************************************************************)

LEMMA ByteType == \A v \in Int : AsU8(v) \in Byte
BY DEF AsU8, Byte

LEMMA KeyType ==
  /\ \A s \in 0 .. 3, kind \in Kinds : <<s, kind>> \in Keys
  /\ \A k \in Keys : k[1] \in 0 .. 3 /\ k[2] \in Kinds /\ k = <<k[1], k[2]>>
BY DEF Keys

LEMMA NoDirectories ==
  ASSUME \A e \in entries : e.type # "dir"
  PROVE  detect_udc = None
BY DEF detect_udc

LEMMA NewSlots ==
  ASSUME NEW n \in 0 .. 4, NewReceiver(n)
  PROVE  /\ DOMAIN slots' = 0 .. n - 1
         /\ slots' \in [DOMAIN slots' -> InputStates]
BY DefaultType DEF NewReceiver

(* The report of a slot shows the slot's state. *)
LEMMA SlotShown ==
  ASSUME slots \in [DOMAIN slots -> InputStates], NEW s, HasSlot(s)
  PROVE  /\ from_input(slots[s]) \in Frames
         /\ Decode(from_input(slots[s])) = slots[s]
BY ReportShowsState, FrameType DEF HasSlot, Frames

(* A packet is a report of the slot's, and the one the host means, or none. *)
LEMMA PacketRead ==
  ASSUME NEW p \in Packets
  PROVE  \/ FromBytes(p.bytes) = NotAReport /\ p.means = None
         \/ /\ FromBytes(p.bytes) = p.means
            /\ p.means \in Reports /\ p.means.kind \in Kinds
<1> USE DEF Kinds
<1>1. ASSUME NEW l \in Byte, NEW r \in Byte,
             p.bytes = RumblePacket(l, r), p.means = Rumble(l, r)
      PROVE  /\ FromBytes(p.bytes) = p.means
             /\ p.means \in Reports /\ p.means.kind \in Kinds
  BY <1>1, RumbleRead, ReportTypes
<1>2. ASSUME NEW a \in Byte, p.bytes = LedPacket(a),
             p.means = IF a \in Animations THEN Led(a) ELSE None
      PROVE  \/ FromBytes(p.bytes) = NotAReport /\ p.means = None
             \/ /\ FromBytes(p.bytes) = p.means
                /\ p.means \in Reports /\ p.means.kind \in Kinds
  BY <1>2, LedRead, ReportTypes
<1>3. ASSUME p.means = None, p.bytes \in Seq(Byte),
             Len(p.bytes) < 3 \/ p.bytes[1] \notin {0, 1}
      PROVE  FromBytes(p.bytes) = NotAReport /\ p.means = None
  BY <1>3, OthersIgnored
<1> QED BY <1>1, <1>2, <1>3, PacketsAssumption

LEMMA ReportKind ==
  \A r \in Reports : r # None /\ r.kind \in Kinds
BY DEF Reports, Kinds
-----------------------------------------------------------------------------

(***************************************************************************)
(* Types, in three parts.                                                  *)
(***************************************************************************)

SlotTypes ==
  /\ \E n \in 0 .. 4 : DOMAIN slots = 0 .. n - 1
  /\ slots \in [DOMAIN slots -> InputStates]
  /\ ep_in \subseteq DOMAIN slots /\ ep_in \subseteq HostSlots
  /\ DOMAIN seen = HostSlots

WriteTypes ==
  /\ writing # None => HasSlot(writing.slot)
  /\ writing \in [slot : 0 .. 3, report : Frames] \cup {None}
  /\ owed \subseteq ep_in

LoopTypes ==
  /\ client \in {"c", "app", "demo"} /\ \A e \in entries : e.type # "dir"
  /\ at \in {"idle", "send", "args", "tick", "rumble", "led", "ended"}
  /\ driver \in Udcs \cup {None, Given}
  /\ ret.code \in -2 .. 13
  /\ i \in 0 .. 4 /\ tick \in 0 .. TickPeriod - 1 /\ a_pressed \in BOOLEAN
  /\ due \subseteq Keys /\ quota \in [HostSlots -> Nat]
  /\ \A s \in HostSlots : quota[s] \in 0 .. MaxPerTick[s]

LEMMA TypeParts ==
  Account => (TypeOK /\ Shapes <=> SlotTypes /\ WriteTypes /\ LoopTypes)
<1> SUFFICES ASSUME Account
             PROVE  TypeOK /\ Shapes <=> SlotTypes /\ WriteTypes /\ LoopTypes
  OBVIOUS
<1>1. \A k \in Keys : box[k] # None => box[k].kind = k[2]
  BY DEF Account
<1>2. \A r \in [slot : 0 .. 3, report : Frames] : r # None /\ r.report \in [0 .. 19 -> Byte]
  BY FrameType DEF Frames
<1> QED BY <1>1, <1>2 DEF TypeOK, Shapes, SlotTypes, WriteTypes, LoopTypes

LEMMA TypePartsNext ==
  (Account => (TypeOK /\ Shapes <=> SlotTypes /\ WriteTypes /\ LoopTypes))'
BY TypeParts, PTL

(* A new receiver, and a change of state, leave well-typed slots. *)
LEMMA NewTypes ==
  ASSUME NEW n \in 0 .. 4, NewReceiver(n)
  PROVE  SlotTypes' /\ WriteTypes' /\ DOMAIN slots' = 0 .. n - 1
<1>1. DOMAIN slots' = 0 .. n - 1 /\ slots' \in [DOMAIN slots' -> InputStates]
  BY DefaultType DEF NewReceiver
<1>2. ep_in' = {} /\ DOMAIN seen' = HostSlots /\ writing' = None /\ owed' = {}
  BY DEF NewReceiver, Unseen
<1> QED BY <1>1, <1>2 DEF SlotTypes, WriteTypes

LEMMA SetTypes ==
  ASSUME SlotTypes, NEW S, NEW st \in InputStates, SetStates(S, st)
  PROVE  DOMAIN slots' = DOMAIN slots /\ slots' \in [DOMAIN slots' -> InputStates]
BY DEF SlotTypes, SetStates

LEMMA ReturnedParts ==
  \A f, s, c : /\ Returned(f, s, c).fn = f /\ Returned(f, s, c).slot = s
               /\ Returned(f, s, c).code = c /\ Returned(f, s, c).want = None
BY DEF Returned

(* Whoever opens a gadget has got a number of slots that is accepted. *)
LEMMA OpenCases ==
  ASSUME NEW n \in Int, NEW d, x360_open(n, d)
  PROVE  /\ (AsU8(n) \in 0 .. 4 /\ NewReceiver(AsU8(n))) \/ UNCHANGED receiver
         /\ driver' \in {None, d, detect_udc}
         /\ \E f \in {"open", "open NULL"}, code \in {0, 1} : ret' = Returned(f, n, code)
         /\ CIdle /\ slots = NoSlots /\ UNCHANGED <<choice, at, loop>>
<1>1. PICK name, fn :
        /\ name = (IF d = None THEN detect_udc ELSE d)
        /\ fn = (IF d = None THEN "open NULL" ELSE "open")
  OBVIOUS
<1>2. /\ CIdle /\ slots = NoSlots
      /\ driver' = IF ValidCount(AsU8(n)) THEN name ELSE None
      /\ \/ /\ driver' # None
            /\ NewReceiver(AsU8(n))
            /\ ret' = Returned(fn, n, 1)
         \/ /\ ret' = Returned(fn, n, 0)
            /\ UNCHANGED receiver
      /\ UNCHANGED <<choice, at, loop>>
  BY <1>1, Zenon DEF x360_open
<1>3. fn \in {"open", "open NULL"}
  BY <1>1
<1>4. name \in {d, detect_udc}
  BY <1>1
<1>5. driver' # None => AsU8(n) \in 0 .. 4
  BY <1>2 DEF ValidCount
<1>6. driver' \in {None, d, detect_udc}
  BY <1>2, <1>4
<1>7. \E f \in {"open", "open NULL"}, code \in {0, 1} : ret' = Returned(f, n, code)
  BY <1>2, <1>3, Zenon
<1> QED BY <1>2, <1>5, <1>6, <1>7, Zenon

LEMMA StartCases ==
  ASSUME NEW n, NEW d, DemoStarts(n, d)
  PROVE  (\E m \in 0 .. 4 : NewReceiver(m)) \/ UNCHANGED receiver
BY DEF DemoStarts, ValidCount

LEMMA TickSets ==
  ASSUME Tick, SlotTypes
  PROVE  /\ DOMAIN slots' = DOMAIN slots /\ slots' \in [DOMAIN slots' -> InputStates]
         /\ a_pressed \in BOOLEAN => a_pressed' \in BOOLEAN
<1>1. CASE UNCHANGED <<slots, a_pressed>>
  BY <1>1 DEF SlotTypes
<1>2. CASE /\ a_pressed' = ~a_pressed
           /\ SetStates(DOMAIN slots, with_button(Default, "a", a_pressed'))
  <2>1. a_pressed' \in BOOLEAN
    BY <1>2
  <2>2. with_button(Default, "a", a_pressed') \in InputStates
    BY <2>1, DefaultType, ButtonSet, ButtonNames
  <2> QED BY <1>2, <2>1, <2>2, SetTypes
<1> QED BY <1>1, <1>2 DEF Tick

LEMMA SlotInput ==
  ASSUME SlotTypes, NEW s \in DOMAIN slots
  PROVE  /\ from_input(slots[s]) \in Frames
         /\ Decode(from_input(slots[s])) = slots[s]
BY SlotShown DEF SlotTypes, HasSlot

(* The slots are replaced only together, by new ones. *)
LEMMA SlotTypesStep ==
  ASSUME IInv, [Next]_vars
  PROVE  SlotTypes'
<1>1. SlotTypes /\ WriteTypes /\ LoopTypes /\ Places /\ Account
  BY TypeParts DEF IInv
<1>2. ASSUME NEW n \in NumArgs, NEW d \in {None, Given}, x360_open(n, d) PROVE SlotTypes'
  <2>1. CASE NewReceiver(AsU8(n)) /\ AsU8(n) \in 0 .. 4
    BY <2>1, NewTypes
  <2>2. CASE UNCHANGED receiver
    BY <1>1, <2>2 DEF SlotTypes, receiver
  <2> QED BY <1>2, <2>1, <2>2, OpenCases
<1>3. ASSUME x360_close PROVE SlotTypes'
  <2>1. NewReceiver(0)
    BY <1>3 DEF x360_close
  <2> QED BY <2>1, NewTypes
<1>4. ASSUME NEW s \in SlotArgs, NEW data \in RawData, x360_send(s, data) PROVE SlotTypes'
  BY <1>1, <1>4
    DEF x360_send, CIdle, send_raw_input, WriteInputReport, loop, choice,
      SlotTypes, Unseen
<1>5. ASSUME NEW s \in SlotArgs, NEW kind \in Kinds, x360_poll(kind, s) PROVE SlotTypes'
  BY <1>1, <1>5 DEF x360_poll, CIdle, Take, loop, choice, SlotTypes, Unseen
<1>6. ASSUME SendReturns PROVE SlotTypes'
  BY <1>1, <1>6
    DEF SendReturns, EpWriteOk, EpWriteFails, loop, choice, SlotTypes, Unseen
<1>7. ASSUME NEW n \in NumArgs, AppOpens(n) PROVE SlotTypes'
  <2>1. NewReceiver(n) /\ n \in 0 .. 4
    BY <1>7 DEF AppOpens, ValidCount
  <2> QED BY <2>1, NewTypes
<1>8. ASSUME NEW s \in HostSlots, NEW st \in States, AppSets(s, st) PROVE SlotTypes'
  <2>1. st \in InputStates
    BY StatesAssumption
  <2>2. DOMAIN slots' = DOMAIN slots /\ slots' \in [DOMAIN slots' -> InputStates]
    BY <1>1, <1>8, <2>1, SetTypes DEF AppSets
  <2> QED BY <1>1, <1>8, <2>2 DEF AppSets, SlotTypes
<1>9. ASSUME NEW s \in SlotArgs, AppSends(AsU8(s)) PROVE SlotTypes'
  BY <1>1, <1>9
    DEF AppSends, AppIdle, send_input, WriteInputReport, loop, choice,
      SlotTypes, Unseen
<1>10. ASSUME AppSent PROVE SlotTypes'
  BY <1>1, <1>10
    DEF AppSent, EpWriteOk, EpWriteFails, loop, choice, SlotTypes, Unseen
<1>11. ASSUME NEW n \in DemoArgs, NEW d \in {None, Given}, DemoStarts(n, d) PROVE SlotTypes'
  <2>1. CASE UNCHANGED receiver
    BY <1>1, <2>1 DEF SlotTypes, receiver
  <2> QED BY <1>11, <2>1, StartCases, NewTypes
<1>12. ASSUME Tick PROVE SlotTypes'
  <2>1. DOMAIN slots' = DOMAIN slots /\ slots' \in [DOMAIN slots' -> InputStates]
    BY <1>1, <1>12, TickSets
  <2> QED BY <1>1, <1>12, <2>1 DEF Tick, SlotTypes
<1>13. ASSUME DemoSends PROVE SlotTypes'
  BY <1>1, <1>13
    DEF DemoSends, send_input, WriteInputReport, choice, SlotTypes, Unseen
<1>14. ASSUME DemoTurnsToPolling PROVE SlotTypes'
  BY <1>1, <1>14 DEF DemoTurnsToPolling, receiver, choice, SlotTypes, Unseen
<1>15. ASSUME DemoPrints PROVE SlotTypes'
  BY <1>1, <1>15 DEF DemoPrints, Take, choice, SlotTypes, Unseen
<1>16. ASSUME DemoFindsNothing PROVE SlotTypes'
  BY <1>1, <1>16
    DEF DemoFindsNothing, NextKind, receiver, choice, SlotTypes, Unseen
<1>17. ASSUME DemoSleeps PROVE SlotTypes'
  BY <1>1, <1>17 DEF DemoSleeps, receiver, loop, choice, SlotTypes, Unseen
<1>18. ASSUME DemoSent PROVE SlotTypes'
  BY <1>1, <1>18
    DEF DemoSent, EpWriteOk, EpWriteFails, loop, choice, SlotTypes, Unseen
<1>19. ASSUME NEW s \in HostSlots, NEW packet \in Packets, HostPacket(s, packet)
      PROVE  SlotTypes'
  BY <1>1, <1>19 DEF HostPacket, HostSends, Deliver, choice, SlotTypes, Unseen
<1>20. ASSUME Bus PROVE SlotTypes'
  BY <1>1, <1>20
    DEF Bus, Configured, Forgotten, loop, choice, SlotTypes, Unseen
<1>21. CASE UNCHANGED vars
  BY <1>1, <1>21 DEF vars, receiver, choice, loop, SlotTypes, Unseen
<1> QED BY <1>2, <1>3, <1>4, <1>5, <1>6, <1>7, <1>8, <1>9, <1>10, <1>11, <1>12,
     <1>13, <1>14, <1>15, <1>16, <1>17, <1>18, <1>19, <1>20, <1>21
    DEF Next, CStep, AppStep, DemoStep

(* EP_WRITE is given twenty bytes for a slot that exists. *)
LEMMA WriteTypesStep ==
  ASSUME IInv, [Next]_vars
  PROVE  WriteTypes'
<1>1. SlotTypes /\ WriteTypes /\ LoopTypes /\ Places /\ Account
  BY TypeParts DEF IInv
<1>2. ASSUME NEW n \in NumArgs, NEW d \in {None, Given}, x360_open(n, d) PROVE WriteTypes'
  <2>1. CASE NewReceiver(AsU8(n)) /\ AsU8(n) \in 0 .. 4
    BY <2>1, NewTypes
  <2>2. CASE UNCHANGED receiver
    BY <1>1, <2>2 DEF WriteTypes, HasSlot, receiver
  <2> QED BY <1>2, <2>1, <2>2, OpenCases
<1>3. ASSUME x360_close PROVE WriteTypes'
  <2>1. NewReceiver(0)
    BY <1>3 DEF x360_close
  <2> QED BY <2>1, NewTypes
<1>4. ASSUME NEW s \in SlotArgs, NEW data \in RawData, x360_send(s, data) PROVE WriteTypes'
  <2>1. CASE UNCHANGED writing
    BY <1>1, <1>4, <2>1 DEF x360_send, WriteTypes, HasSlot
  <2>2. CASE IsReport(data) /\ send_raw_input(AsU8(s), data) /\ ~UNCHANGED writing
    <3>1. data.first \in Frames
      BY <2>2, DataAssumption
    <3>2. writing' = IF AsU8(s) \in ep_in
                       THEN [slot |-> AsU8(s), report |-> data.first] ELSE None
      BY <2>2 DEF send_raw_input, WriteInputReport
    <3> QED BY <1>1, <1>4, <3>1, <3>2 DEF x360_send, WriteTypes, SlotTypes, HasSlot
  <2> QED BY <1>4, <2>1, <2>2 DEF x360_send, send_raw_input
<1>5. ASSUME NEW s \in SlotArgs, NEW kind \in Kinds, x360_poll(kind, s) PROVE WriteTypes'
  BY <1>1, <1>5
    DEF x360_poll, CIdle, Take, loop, choice, SlotTypes, WriteTypes, Places,
      HasSlot
<1>6. ASSUME SendReturns PROVE WriteTypes'
  BY <1>1, <1>6
    DEF SendReturns, EpWriteOk, EpWriteFails, loop, choice, SlotTypes,
      WriteTypes, Places, HasSlot
<1>7. ASSUME NEW n \in NumArgs, AppOpens(n) PROVE WriteTypes'
  <2>1. NewReceiver(n) /\ n \in 0 .. 4
    BY <1>7 DEF AppOpens, ValidCount
  <2> QED BY <2>1, NewTypes
<1>8. ASSUME NEW s \in HostSlots, NEW st \in States, AppSets(s, st) PROVE WriteTypes'
  BY <1>1, <1>8
    DEF AppSets, AppIdle, SetStates, loop, choice, SlotTypes, WriteTypes,
      Places, HasSlot
<1>9. ASSUME NEW s \in SlotArgs, AppSends(AsU8(s)) PROVE WriteTypes'
  <2>1. CASE UNCHANGED writing
    BY <1>1, <1>9, <2>1 DEF AppSends, WriteTypes, HasSlot
  <2>2. CASE HasSlot(AsU8(s)) /\ ~UNCHANGED writing
    <3>1. from_input(slots[AsU8(s)]) \in Frames
      BY <1>1, <2>2, SlotInput DEF HasSlot
    <3>2. writing' = IF AsU8(s) \in ep_in
                       THEN [slot |-> AsU8(s), report |-> from_input(slots[AsU8(s)])] ELSE None
      BY <1>9, <2>2 DEF AppSends, send_input, WriteInputReport
    <3> QED BY <1>1, <1>9, <3>1, <3>2 DEF AppSends, WriteTypes, SlotTypes, HasSlot
  <2> QED BY <1>9, <2>1, <2>2 DEF AppSends, send_input
<1>10. ASSUME AppSent PROVE WriteTypes'
  BY <1>1, <1>10
    DEF AppSent, EpWriteOk, EpWriteFails, loop, choice, SlotTypes, WriteTypes,
      Places, HasSlot
<1>11. ASSUME NEW n \in DemoArgs, NEW d \in {None, Given}, DemoStarts(n, d) PROVE WriteTypes'
  <2>1. CASE UNCHANGED receiver
    BY <1>1, <2>1 DEF WriteTypes, HasSlot, receiver
  <2> QED BY <1>11, <2>1, StartCases, NewTypes
<1>12. ASSUME Tick PROVE WriteTypes'
  BY <1>1, <1>12
    DEF Tick, SetStates, choice, SlotTypes, WriteTypes, Places, HasSlot
<1>13. ASSUME DemoSends PROVE WriteTypes'
  <2>1. CASE UNCHANGED writing
    BY <1>1, <1>13, <2>1 DEF DemoSends, WriteTypes, HasSlot
  <2>2. CASE HasSlot(i) /\ ~UNCHANGED writing
    <3>1. from_input(slots[i]) \in Frames
      BY <1>1, <2>2, SlotInput DEF HasSlot
    <3>2. writing' = IF i \in ep_in
                       THEN [slot |-> i, report |-> from_input(slots[i])] ELSE None
      BY <1>13, <2>2 DEF DemoSends, send_input, WriteInputReport
    <3> QED BY <1>1, <1>13, <3>1, <3>2 DEF DemoSends, WriteTypes, SlotTypes, HasSlot
  <2> QED BY <1>13, <2>1, <2>2 DEF DemoSends, send_input
<1>14. ASSUME DemoTurnsToPolling PROVE WriteTypes'
  BY <1>1, <1>14
    DEF DemoTurnsToPolling, receiver, choice, SlotTypes, WriteTypes, Places,
      HasSlot
<1>15. ASSUME DemoPrints PROVE WriteTypes'
  BY <1>1, <1>15
    DEF DemoPrints, Take, choice, SlotTypes, WriteTypes, Places, HasSlot
<1>16. ASSUME DemoFindsNothing PROVE WriteTypes'
  BY <1>1, <1>16
    DEF DemoFindsNothing, NextKind, receiver, choice, SlotTypes, WriteTypes,
      Places, HasSlot
<1>17. ASSUME DemoSleeps PROVE WriteTypes'
  BY <1>1, <1>17
    DEF DemoSleeps, receiver, loop, choice, SlotTypes, WriteTypes, Places,
      HasSlot
<1>18. ASSUME DemoSent PROVE WriteTypes'
  BY <1>1, <1>18
    DEF DemoSent, EpWriteOk, EpWriteFails, loop, choice, SlotTypes, WriteTypes,
      Places, HasSlot
<1>19. ASSUME NEW s \in HostSlots, NEW packet \in Packets, HostPacket(s, packet)
      PROVE  WriteTypes'
  BY <1>1, <1>19
    DEF HostPacket, HostSends, Deliver, choice, SlotTypes, WriteTypes, Places,
      HasSlot
<1>20. ASSUME Bus PROVE WriteTypes'
  BY <1>1, <1>20
    DEF Bus, Configured, Forgotten, loop, choice, SlotTypes, WriteTypes,
      Places, HasSlot
<1>21. CASE UNCHANGED vars
  BY <1>1, <1>21
    DEF vars, receiver, choice, loop, SlotTypes, WriteTypes, Places, HasSlot
<1> QED BY <1>2, <1>3, <1>4, <1>5, <1>6, <1>7, <1>8, <1>9, <1>10, <1>11, <1>12,
     <1>13, <1>14, <1>15, <1>16, <1>17, <1>18, <1>19, <1>20, <1>21
    DEF Next, CStep, AppStep, DemoStep

(* Return codes, counters and places. *)
LEMMA LoopTypesStep ==
  ASSUME IInv, [Next]_vars
  PROVE  LoopTypes'
<1>1. SlotTypes /\ WriteTypes /\ LoopTypes /\ Places /\ Account
  BY TypeParts DEF IInv
<1>2. ASSUME NEW n \in NumArgs, NEW d \in {None, Given}, x360_open(n, d) PROVE LoopTypes'
  <2>1. driver' \in Udcs \cup {None, Given}
    BY <1>1, <1>2, NoDirectories, OpenCases DEF LoopTypes
  <2>2. PICK f, code : ret' = Returned(f, n, code) /\ code \in {0, 1}
    BY <1>2, OpenCases
  <2>3. UNCHANGED <<choice, at, loop>>
    BY <1>2, OpenCases
  <2>4. ret'.code \in {0, 1}
    BY <2>2, ReturnedParts
  <2> QED BY <1>1, <2>1, <2>3, <2>4 DEF LoopTypes, choice, loop
<1>3. ASSUME x360_close PROVE LoopTypes'
  BY <1>1, <1>3
    DEF x360_close, CIdle, NewReceiver, loop, choice, SlotTypes, LoopTypes,
      HasSlot, Kinds, NoCall, Returned
<1>4. ASSUME NEW s \in SlotArgs, NEW data \in RawData, x360_send(s, data) PROVE LoopTypes'
  BY <1>1, <1>4, SMTT(30)
    DEF x360_send, CIdle, send_raw_input, WriteInputReport, loop, choice,
      SlotTypes, LoopTypes, HasSlot, Kinds, NoCall, Returned
<1>5. ASSUME NEW s \in SlotArgs, NEW kind \in Kinds, x360_poll(kind, s) PROVE LoopTypes'
  <2>1. CASE ret' = PollResult(kind, s) /\ slots # NoSlots /\ ~Panics(s)
    <3>1. <<AsU8(s), kind>> \in Keys
      BY <2>1, ByteType, KeyType DEF Panics, Byte
    <3>2. box[<<AsU8(s), kind>>] \in Reports \cup {None}
      BY <1>1, <3>1 DEF Account
    <3>3. ret'.code = PollCode(kind, box[<<AsU8(s), kind>>])
      BY <2>1 DEF PollResult
    <3>4. box[<<AsU8(s), kind>>] # None => box[<<AsU8(s), kind>>].kind = kind
      BY <1>1, <3>1 DEF Account
    <3>5. ret'.code \in -2 .. 13
      BY <3>2, <3>3, <3>4, ReportParts DEF PollCode, Animations, Kinds
    <3> QED BY <1>1, <1>5, <3>5 DEF x360_poll, LoopTypes, choice, loop
  <2>2. CASE ret'.code \in -2 .. 13 /\ at' \in {at, "ended"}
    BY <1>1, <1>5, <2>2 DEF x360_poll, LoopTypes, choice, loop
  <2> QED BY <1>1, <1>5, <2>1, <2>2 DEF x360_poll, Returned, LoopTypes
<1>6. ASSUME SendReturns PROVE LoopTypes'
  BY <1>1, <1>6
    DEF SendReturns, EpWriteOk, EpWriteFails, loop, choice, SlotTypes,
      LoopTypes, HasSlot, Kinds, NoCall, Returned
<1>7. ASSUME NEW n \in NumArgs, AppOpens(n) PROVE LoopTypes'
  BY <1>1, <1>7
    DEF AppOpens, AppIdle, NewReceiver, loop, choice, SlotTypes, LoopTypes,
      HasSlot, Kinds, NoCall, Returned
<1>8. ASSUME NEW s \in HostSlots, NEW st \in States, AppSets(s, st) PROVE LoopTypes'
  BY <1>1, <1>8
    DEF AppSets, AppIdle, SetStates, loop, choice, SlotTypes, LoopTypes,
      HasSlot, Kinds, NoCall, Returned
<1>9. ASSUME NEW s \in SlotArgs, AppSends(AsU8(s)) PROVE LoopTypes'
  BY <1>1, <1>9
    DEF AppSends, AppIdle, send_input, WriteInputReport, loop, choice,
      SlotTypes, LoopTypes, HasSlot, Kinds, NoCall, Returned
<1>10. ASSUME AppSent PROVE LoopTypes'
  BY <1>1, <1>10
    DEF AppSent, EpWriteOk, EpWriteFails, loop, choice, SlotTypes, LoopTypes,
      HasSlot, Kinds, NoCall, Returned
<1>11. ASSUME NEW n \in DemoArgs, NEW d \in {None, Given}, DemoStarts(n, d) PROVE LoopTypes'
  <2>1. driver' \in Udcs \cup {None, Given}
    BY <1>1, <1>11, NoDirectories DEF DemoStarts, LoopTypes
  <2> QED BY <1>1, <1>11, <2>1 DEF DemoStarts, LoopTypes, choice, loop
<1>12. ASSUME Tick PROVE LoopTypes'
  <2>1. tick' \in 0 .. TickPeriod - 1
    BY <1>1, <1>12 DEF Tick, LoopTypes
  <2>2. a_pressed' \in BOOLEAN
    BY <1>1, <1>12, TickSets DEF LoopTypes
  <2> QED BY <1>1, <1>12, <2>1, <2>2 DEF Tick, LoopTypes, choice
<1>13. ASSUME DemoSends PROVE LoopTypes'
  BY <1>1, <1>13
    DEF DemoSends, send_input, WriteInputReport, choice, SlotTypes, LoopTypes,
      HasSlot, Kinds, NoCall, Returned
<1>14. ASSUME DemoTurnsToPolling PROVE LoopTypes'
  BY <1>1, <1>14
    DEF DemoTurnsToPolling, receiver, choice, SlotTypes, LoopTypes, HasSlot,
      Kinds, NoCall, Returned
<1>15. ASSUME DemoPrints PROVE LoopTypes'
  BY <1>1, <1>15
    DEF DemoPrints, Take, choice, SlotTypes, LoopTypes, HasSlot, Kinds, NoCall,
      Returned
<1>16. ASSUME DemoFindsNothing PROVE LoopTypes'
  BY <1>1, <1>16
    DEF DemoFindsNothing, NextKind, receiver, choice, SlotTypes, LoopTypes,
      HasSlot, Kinds, NoCall, Returned
<1>17. ASSUME DemoSleeps PROVE LoopTypes'
  BY <1>1, <1>17
    DEF DemoSleeps, receiver, loop, choice, SlotTypes, LoopTypes, HasSlot,
      Kinds, NoCall, Returned
<1>18. ASSUME DemoSent PROVE LoopTypes'
  BY <1>1, <1>18
    DEF DemoSent, EpWriteOk, EpWriteFails, loop, choice, SlotTypes, LoopTypes,
      HasSlot, Kinds, NoCall, Returned
<1>19. ASSUME NEW s \in HostSlots, NEW packet \in Packets, HostPacket(s, packet)
      PROVE  LoopTypes'
  <2>1. quota' \in [HostSlots -> Nat] /\ \A t \in HostSlots : quota'[t] \in 0 .. MaxPerTick[t]
    BY <1>1, <1>19 DEF HostPacket, LoopTypes
  <2> QED BY <1>1, <1>19, <2>1 DEF HostPacket, LoopTypes, choice, NoCall, Returned
<1>20. ASSUME Bus PROVE LoopTypes'
  BY <1>1, <1>20
    DEF Bus, Configured, Forgotten, loop, choice, SlotTypes, LoopTypes,
      HasSlot, Kinds, NoCall, Returned
<1>21. CASE UNCHANGED vars
  BY <1>1, <1>21
    DEF vars, receiver, choice, loop, SlotTypes, LoopTypes, HasSlot, Kinds,
      NoCall, Returned
<1> QED BY <1>2, <1>3, <1>4, <1>5, <1>6, <1>7, <1>8, <1>9, <1>10, <1>11, <1>12,
     <1>13, <1>14, <1>15, <1>16, <1>17, <1>18, <1>19, <1>20, <1>21
    DEF Next, CStep, AppStep, DemoStep

(* Each program stays in its own places. *)
LEMMA PlacesStep ==
  ASSUME IInv, [Next]_vars
  PROVE  Places'
<1>1. SlotTypes /\ WriteTypes /\ LoopTypes /\ Places /\ Account
  BY TypeParts DEF IInv
<1>2. ASSUME NEW n \in NumArgs, NEW d \in {None, Given}, x360_open(n, d) PROVE Places'
  <2>1. client = "c" /\ at = "idle" /\ UNCHANGED <<client, at, i>>
    BY <1>2, OpenCases DEF CIdle, choice, loop
  <2>2. writing' = None /\ owed' = {}
    BY <1>1, <2>1, <1>2, OpenCases DEF NewReceiver, receiver, Places
  <2>3. i = 0
    BY <1>1, <2>1 DEF Places
  <2> QED BY <2>1, <2>2, <2>3 DEF Places
<1>3. ASSUME x360_close PROVE Places'
  BY <1>1, <1>3
    DEF x360_close, CIdle, NewReceiver, loop, choice, Places, SlotTypes,
      WriteTypes, LoopTypes, HasSlot, Kinds
<1>4. ASSUME NEW s \in SlotArgs, NEW data \in RawData, x360_send(s, data) PROVE Places'
  BY <1>1, <1>4
    DEF x360_send, CIdle, send_raw_input, WriteInputReport, loop, choice,
      Places, SlotTypes, WriteTypes, LoopTypes, HasSlot, Kinds
<1>5. ASSUME NEW s \in SlotArgs, NEW kind \in Kinds, x360_poll(kind, s) PROVE Places'
  BY <1>1, <1>5
    DEF x360_poll, CIdle, Take, loop, choice, Places, SlotTypes, WriteTypes,
      LoopTypes, HasSlot, Kinds
<1>6. ASSUME SendReturns PROVE Places'
  BY <1>1, <1>6
    DEF SendReturns, EpWriteOk, EpWriteFails, loop, choice, Places, SlotTypes,
      WriteTypes, LoopTypes, HasSlot, Kinds
<1>7. ASSUME NEW n \in NumArgs, AppOpens(n) PROVE Places'
  BY <1>1, <1>7
    DEF AppOpens, AppIdle, NewReceiver, loop, choice, Places, SlotTypes,
      WriteTypes, LoopTypes, HasSlot, Kinds
<1>8. ASSUME NEW s \in HostSlots, NEW st \in States, AppSets(s, st) PROVE Places'
  BY <1>1, <1>8
    DEF AppSets, AppIdle, SetStates, loop, choice, Places, SlotTypes,
      WriteTypes, LoopTypes, HasSlot, Kinds
<1>9. ASSUME NEW s \in SlotArgs, AppSends(AsU8(s)) PROVE Places'
  BY <1>1, <1>9
    DEF AppSends, AppIdle, send_input, WriteInputReport, loop, choice, Places,
      SlotTypes, WriteTypes, LoopTypes, HasSlot, Kinds
<1>10. ASSUME AppSent PROVE Places'
  BY <1>1, <1>10
    DEF AppSent, EpWriteOk, EpWriteFails, loop, choice, Places, SlotTypes,
      WriteTypes, LoopTypes, HasSlot, Kinds
<1>11. ASSUME NEW n \in DemoArgs, NEW d \in {None, Given}, DemoStarts(n, d) PROVE Places'
  <2>1. i' = 0 /\ UNCHANGED client /\ client = "demo"
    BY <1>1, <1>11 DEF DemoStarts, Places, LoopTypes, choice, loop
  <2>2. writing' = None
    BY <1>1, <1>11, StartCases DEF DemoStarts, NewReceiver, receiver, Places
  <2>3. at' \in {"tick", "ended"}
    BY <1>11 DEF DemoStarts
  <2> QED BY <2>1, <2>2, <2>3 DEF Places
<1>12. ASSUME Tick PROVE Places'
  <2>1. i' = 0 /\ UNCHANGED <<client, writing>> /\ at = "tick" /\ at' = "send"
    BY <1>12 DEF Tick, choice
  <2>2. client = "demo"
    BY <1>1, <2>1 DEF Places, LoopTypes
  <2> QED BY <1>1, <2>1, <2>2 DEF Places
<1>13. ASSUME DemoSends PROVE Places'
  BY <1>1, <1>13
    DEF DemoSends, send_input, WriteInputReport, choice, Places, SlotTypes,
      WriteTypes, LoopTypes, HasSlot, Kinds
<1>14. ASSUME DemoTurnsToPolling PROVE Places'
  BY <1>1, <1>14
    DEF DemoTurnsToPolling, receiver, choice, Places, SlotTypes, WriteTypes,
      LoopTypes, HasSlot, Kinds
<1>15. ASSUME DemoPrints PROVE Places'
  BY <1>1, <1>15
    DEF DemoPrints, Take, choice, Places, SlotTypes, WriteTypes, LoopTypes,
      HasSlot, Kinds
<1>16. ASSUME DemoFindsNothing PROVE Places'
  BY <1>1, <1>16
    DEF DemoFindsNothing, NextKind, receiver, choice, Places, SlotTypes,
      WriteTypes, LoopTypes, HasSlot, Kinds
<1>17. ASSUME DemoSleeps PROVE Places'
  BY <1>1, <1>17
    DEF DemoSleeps, receiver, loop, choice, Places, SlotTypes, WriteTypes,
      LoopTypes, HasSlot, Kinds
<1>18. ASSUME DemoSent PROVE Places'
  BY <1>1, <1>18
    DEF DemoSent, EpWriteOk, EpWriteFails, loop, choice, Places, SlotTypes,
      WriteTypes, LoopTypes, HasSlot, Kinds
<1>19. ASSUME NEW s \in HostSlots, NEW packet \in Packets, HostPacket(s, packet) PROVE Places'
  BY <1>1, <1>19
    DEF HostPacket, HostSends, Deliver, choice, Places, SlotTypes, WriteTypes,
      LoopTypes, HasSlot, Kinds
<1>20. ASSUME Bus PROVE Places'
  BY <1>1, <1>20
    DEF Bus, Configured, Forgotten, loop, choice, Places, SlotTypes,
      WriteTypes, LoopTypes, HasSlot, Kinds
<1>21. CASE UNCHANGED vars
  BY <1>1, <1>21
    DEF vars, receiver, choice, loop, Places, SlotTypes, WriteTypes, LoopTypes,
      HasSlot, Kinds
<1> QED BY <1>2, <1>3, <1>4, <1>5, <1>6, <1>7, <1>8, <1>9, <1>10, <1>11, <1>12,
     <1>13, <1>14, <1>15, <1>16, <1>17, <1>18, <1>19, <1>20, <1>21
    DEF Next, CStep, AppStep, DemoStep

(* A packet changes both sides of the account alike, and so does a poll. *)
LEMMA AccountStep ==
  ASSUME IInv, [Next]_vars
  PROVE  Account'
<1>1. SlotTypes /\ WriteTypes /\ LoopTypes /\ Places /\ Account
  BY TypeParts DEF IInv
<1>2. ASSUME NEW n \in NumArgs, NEW d \in {None, Given}, x360_open(n, d) PROVE Account'
  <2>1. CASE asked' = Empty /\ box' = Empty
    BY <2>1 DEF Account, Empty
  <2>2. CASE UNCHANGED receiver
    BY <1>1, <2>2 DEF Account, HasSlot, receiver
  <2> QED BY <1>2, <2>1, <2>2, OpenCases DEF NewReceiver
<1>3. ASSUME x360_close PROVE Account'
  <2>1. asked' = Empty /\ box' = Empty
    BY <1>3 DEF x360_close, NewReceiver
  <2> QED BY <2>1 DEF Account, Empty
<1>4. ASSUME NEW s \in SlotArgs, NEW data \in RawData, x360_send(s, data) PROVE Account'
  BY <1>1, <1>4
    DEF x360_send, CIdle, send_raw_input, WriteInputReport, loop, choice,
      Account, HasSlot
<1>5. ASSUME NEW s \in SlotArgs, NEW kind \in Kinds, x360_poll(kind, s) PROVE Account'
  <2>1. CASE Take(<<AsU8(s), kind>>)
    BY <1>1, <1>5, <2>1 DEF x360_poll, Take, Account, HasSlot
  <2>2. CASE UNCHANGED <<box, asked>>
    BY <1>1, <1>5, <2>2 DEF x360_poll, Account, HasSlot
  <2> QED BY <1>5, <2>1, <2>2 DEF x360_poll
<1>6. ASSUME SendReturns PROVE Account'
  BY <1>1, <1>6
    DEF SendReturns, EpWriteOk, EpWriteFails, loop, choice, Account, HasSlot
<1>7. ASSUME NEW n \in NumArgs, AppOpens(n) PROVE Account'
  <2>1. asked' = Empty /\ box' = Empty
    BY <1>7 DEF AppOpens, NewReceiver
  <2> QED BY <2>1 DEF Account, Empty
<1>8. ASSUME NEW s \in HostSlots, NEW st \in States, AppSets(s, st) PROVE Account'
  <2>1. UNCHANGED <<asked, box>> /\ DOMAIN slots' = DOMAIN slots
    BY <1>1, <1>8 DEF AppSets, SetStates
  <2> QED BY <1>1, <2>1 DEF Account, HasSlot
<1>9. ASSUME NEW s \in SlotArgs, AppSends(AsU8(s)) PROVE Account'
  BY <1>1, <1>9
    DEF AppSends, AppIdle, send_input, WriteInputReport, loop, choice, Account,
      HasSlot
<1>10. ASSUME AppSent PROVE Account'
  BY <1>1, <1>10
    DEF AppSent, EpWriteOk, EpWriteFails, loop, choice, Account, HasSlot
<1>11. ASSUME NEW n \in DemoArgs, NEW d \in {None, Given}, DemoStarts(n, d) PROVE Account'
  <2>1. CASE asked' = Empty /\ box' = Empty
    BY <2>1 DEF Account, Empty
  <2>2. CASE UNCHANGED receiver
    BY <1>1, <2>2 DEF Account, HasSlot, receiver
  <2> QED BY <1>11, <2>1, <2>2, StartCases DEF NewReceiver
<1>12. ASSUME Tick PROVE Account'
  <2>1. UNCHANGED <<asked, box>> /\ DOMAIN slots' = DOMAIN slots
    BY <1>1, <1>12, TickSets DEF Tick
  <2> QED BY <1>1, <2>1 DEF Account, HasSlot
<1>13. ASSUME DemoSends PROVE Account'
  BY <1>1, <1>13
    DEF DemoSends, send_input, WriteInputReport, choice, Account, HasSlot
<1>14. ASSUME DemoTurnsToPolling PROVE Account'
  BY <1>1, <1>14 DEF DemoTurnsToPolling, receiver, choice, Account, HasSlot
<1>15. ASSUME DemoPrints PROVE Account'
  BY <1>1, <1>15 DEF DemoPrints, Take, choice, Account, HasSlot
<1>16. ASSUME DemoFindsNothing PROVE Account'
  BY <1>1, <1>16
    DEF DemoFindsNothing, NextKind, receiver, choice, Account, HasSlot
<1>17. ASSUME DemoSleeps PROVE Account'
  BY <1>1, <1>17 DEF DemoSleeps, receiver, loop, choice, Account, HasSlot
<1>18. ASSUME DemoSent PROVE Account'
  BY <1>1, <1>18
    DEF DemoSent, EpWriteOk, EpWriteFails, loop, choice, Account, HasSlot
<1>19. ASSUME NEW s \in HostSlots, NEW packet \in Packets, HostPacket(s, packet)
      PROVE  Account'
  <2>1. HasSlot(s) /\ UNCHANGED slots
    BY <1>19 DEF HostPacket, HostSends
  <2>2. CASE FromBytes(packet.bytes) = NotAReport /\ packet.means = None
    BY <1>1, <1>19, <2>1, <2>2 DEF HostPacket, HostSends, Deliver, Account, HasSlot
  <2>3. CASE /\ FromBytes(packet.bytes) = packet.means
             /\ packet.means \in Reports /\ packet.means.kind \in Kinds
    <3>1. packet.means # None /\ packet.means # NotAReport
      BY <2>3, ReportKind, ReportTypes
    <3>2. PICK key : key = <<s, packet.means.kind>> /\ key \in Keys
      BY <2>3, KeyType
    <3>3. /\ box' = [box EXCEPT ![key] = packet.means]
          /\ asked' = [asked EXCEPT ![key] = packet.means]
      BY <1>19, <2>3, <3>1, <3>2 DEF HostPacket, HostSends, Deliver
    <3>4. key[1] = s /\ key[2] = packet.means.kind
      BY <3>2
    <3> QED BY <1>1, <2>1, <2>3, <3>2, <3>3, <3>4 DEF Account, HasSlot
  <2> QED BY <2>2, <2>3, PacketRead
<1>20. ASSUME Bus PROVE Account'
  BY <1>1, <1>20 DEF Bus, Configured, Forgotten, loop, choice, Account, HasSlot
<1>21. CASE UNCHANGED vars
  BY <1>1, <1>21 DEF vars, receiver, choice, loop, Account, HasSlot
<1> QED BY <1>2, <1>3, <1>4, <1>5, <1>6, <1>7, <1>8, <1>9, <1>10, <1>11, <1>12,
     <1>13, <1>14, <1>15, <1>16, <1>17, <1>18, <1>19, <1>20, <1>21
    DEF Next, CStep, AppStep, DemoStep

(* Only a poll returns a report, and the code tells which. *)
LEMMA PollTellsStep ==
  ASSUME IInv, [Next]_vars
  PROVE  PollTells'
<1>1. SlotTypes /\ WriteTypes /\ LoopTypes /\ Places /\ Account /\ PollTells
  BY TypeParts DEF IInv
<1>2. ASSUME NEW n \in NumArgs, NEW d \in {None, Given}, x360_open(n, d) PROVE PollTells'
  <2>1. PICK f, code :
          f \in {"open", "open NULL"} /\ code \in {0, 1} /\ ret' = Returned(f, n, code)
    BY <1>2, OpenCases
  <2>2. ret'.fn \notin {"rumble", "led"}
    BY <2>1, ReturnedParts
  <2> QED BY <2>2 DEF PollTells
<1>3. ASSUME x360_close PROVE PollTells'
  <2>1. ret'.fn \notin {"rumble", "led"}
    BY <1>3, ReturnedParts DEF x360_close, NoCall
  <2> QED BY <2>1 DEF PollTells
<1>4. ASSUME NEW s \in SlotArgs, NEW data \in RawData, x360_send(s, data) PROVE PollTells'
  <2>1. ret' = ret \/ ret'.fn \notin {"rumble", "led"}
    BY <1>4, ReturnedParts DEF x360_send
  <2> QED BY <1>1, <2>1 DEF PollTells
<1>5. ASSUME NEW s \in SlotArgs, NEW kind \in Kinds, x360_poll(kind, s) PROVE PollTells'
  <2>1. CASE ret' = PollResult(kind, s) /\ slots # NoSlots /\ ~Panics(s)
    <3> DEFINE r == box[<<AsU8(s), kind>>]
    <3>1. <<AsU8(s), kind>> \in Keys
      BY <2>1, ByteType, KeyType DEF Panics, Byte
    <3>2. /\ r \in Reports \cup {None} /\ asked[<<AsU8(s), kind>>] = r
          /\ r # None => r.kind = kind
      BY <1>1, <3>1 DEF Account
    <3>3. /\ ret'.fn = kind /\ ret'.want = r /\ ret'.code = PollCode(kind, r)
          /\ ret'.left = IF kind = "rumble" /\ r # None THEN r.left_motor ELSE 0
          /\ ret'.right = IF kind = "rumble" /\ r # None THEN r.right_motor ELSE 0
      BY <2>1, <3>2 DEF PollResult
    <3> HIDE DEF r
    <3>4. CASE kind = "rumble"
      <4>1. ret'.code = IF r = None THEN 0 ELSE 1
        BY <3>3, <3>4 DEF PollCode
      <4>2. r # None => Rumble(ret'.left, ret'.right) = r
        BY <3>2, <3>3, <3>4, ReportParts
      <4> QED BY <3>3, <3>4, <4>1, <4>2 DEF PollTells
    <3>5. CASE kind = "led"
      <4>1. ret'.code = IF r = None THEN -1 ELSE r.animation
        BY <3>3, <3>5 DEF PollCode
      <4>2. r # None => r.animation >= 0 /\ Led(r.animation) = r
        BY <3>2, <3>5, ReportParts DEF Animations
      <4> QED BY <3>3, <3>5, <4>1, <4>2 DEF PollTells
    <3> QED BY <3>4, <3>5 DEF Kinds
  <2>2. CASE ret' = ret \/ ret'.fn \notin {"rumble", "led"}
    BY <1>1, <2>2 DEF PollTells
  <2> QED BY <1>5, <2>1, <2>2, ReturnedParts DEF x360_poll
<1>6. ASSUME SendReturns PROVE PollTells'
  <2>1. ret'.fn \notin {"rumble", "led"}
    BY <1>6, ReturnedParts DEF SendReturns
  <2> QED BY <2>1 DEF PollTells
<1>7. ASSUME NEW n \in NumArgs, AppOpens(n) PROVE PollTells'
  BY <1>1, <1>7 DEF AppOpens, AppIdle, NewReceiver, loop, choice, PollTells
<1>8. ASSUME NEW s \in HostSlots, NEW st \in States, AppSets(s, st) PROVE PollTells'
  BY <1>1, <1>8 DEF AppSets, AppIdle, SetStates, loop, choice, PollTells
<1>9. ASSUME NEW s \in SlotArgs, AppSends(AsU8(s)) PROVE PollTells'
  BY <1>1, <1>9
    DEF AppSends, AppIdle, send_input, WriteInputReport, loop, choice,
      PollTells
<1>10. ASSUME AppSent PROVE PollTells'
  BY <1>1, <1>10 DEF AppSent, EpWriteOk, EpWriteFails, loop, choice, PollTells
<1>11. ASSUME NEW n \in DemoArgs, NEW d \in {None, Given}, DemoStarts(n, d) PROVE PollTells'
  BY <1>1, <1>11 DEF DemoStarts, NewReceiver, receiver, loop, choice, PollTells
<1>12. ASSUME Tick PROVE PollTells'
  BY <1>1, <1>12 DEF Tick, SetStates, choice, PollTells
<1>13. ASSUME DemoSends PROVE PollTells'
  BY <1>1, <1>13 DEF DemoSends, send_input, WriteInputReport, choice, PollTells
<1>14. ASSUME DemoTurnsToPolling PROVE PollTells'
  BY <1>1, <1>14 DEF DemoTurnsToPolling, receiver, choice, PollTells
<1>15. ASSUME DemoPrints PROVE PollTells'
  BY <1>1, <1>15 DEF DemoPrints, Take, choice, PollTells
<1>16. ASSUME DemoFindsNothing PROVE PollTells'
  BY <1>1, <1>16 DEF DemoFindsNothing, NextKind, receiver, choice, PollTells
<1>17. ASSUME DemoSleeps PROVE PollTells'
  BY <1>1, <1>17 DEF DemoSleeps, receiver, loop, choice, PollTells
<1>18. ASSUME DemoSent PROVE PollTells'
  BY <1>1, <1>18 DEF DemoSent, EpWriteOk, EpWriteFails, loop, choice, PollTells
<1>19. ASSUME NEW s \in HostSlots, NEW packet \in Packets, HostPacket(s, packet)
      PROVE  PollTells'
  <2>1. ret'.fn \notin {"rumble", "led"}
    BY <1>19, ReturnedParts DEF HostPacket, NoCall
  <2> QED BY <2>1 DEF PollTells
<1>20. ASSUME Bus PROVE PollTells'
  <2>1. ret'.fn \notin {"rumble", "led"}
    BY <1>20, ReturnedParts DEF Bus, NoCall
  <2> QED BY <2>1 DEF PollTells
<1>21. CASE UNCHANGED vars
  BY <1>1, <1>21 DEF vars, receiver, choice, loop, PollTells
<1> QED BY <1>2, <1>3, <1>4, <1>5, <1>6, <1>7, <1>8, <1>9, <1>10, <1>11, <1>12,
     <1>13, <1>14, <1>15, <1>16, <1>17, <1>18, <1>19, <1>20, <1>21
    DEF Next, CStep, AppStep, DemoStep

(* Only a completed write shows a state, and only the loop passes slots by. *)
LEMMA ShownStep ==
  ASSUME IInv, [Next]_vars
  PROVE  ShownOrNext'
<1>1. SlotTypes /\ WriteTypes /\ LoopTypes /\ Places /\ Account /\ ShownOrNext
  BY TypeParts DEF IInv
<1>2. ASSUME NEW n \in NumArgs, NEW d \in {None, Given}, x360_open(n, d) PROVE ShownOrNext'
  <2>1. CASE writing' = None /\ owed' = {}
    BY <2>1 DEF ShownOrNext
  <2>2. CASE UNCHANGED receiver
    BY <1>1, <2>2, <1>2, OpenCases DEF CIdle, ShownOrNext, receiver, Places, choice, loop
  <2> QED BY <1>2, <2>1, <2>2, OpenCases DEF NewReceiver
<1>3. ASSUME x360_close PROVE ShownOrNext'
  BY <1>1, <1>3
    DEF x360_close, CIdle, NewReceiver, loop, choice, ShownOrNext, Places,
      SlotTypes, WriteTypes, Kinds
<1>4. ASSUME NEW s \in SlotArgs, NEW data \in RawData, x360_send(s, data) PROVE ShownOrNext'
  BY <1>1, <1>4
    DEF x360_send, CIdle, send_raw_input, WriteInputReport, loop, choice,
      ShownOrNext, Places, SlotTypes, WriteTypes, Kinds
<1>5. ASSUME NEW s \in SlotArgs, NEW kind \in Kinds, x360_poll(kind, s) PROVE ShownOrNext'
  BY <1>1, <1>5
    DEF x360_poll, CIdle, Take, loop, choice, ShownOrNext, Places, SlotTypes,
      WriteTypes, Kinds
<1>6. ASSUME SendReturns PROVE ShownOrNext'
  <2>1. CASE EpWriteFails
    BY <1>1, <1>6, <2>1 DEF SendReturns, EpWriteFails, ShownOrNext, SlotTypes, WriteTypes, choice, loop
  <2>2. CASE EpWriteOk
    <3>1. PICK k : k = writing.slot /\ k \in ep_in /\ writing # None
      BY <2>2 DEF EpWriteOk
    <3>2. /\ writing' = None /\ UNCHANGED <<slots, owed, client>>
          /\ seen' = [seen EXCEPT ![k] = writing.report]
      BY <1>6, <2>2, <3>1 DEF SendReturns, EpWriteOk, choice
    <3>3. k \in DOMAIN seen /\ k \in DOMAIN slots
      BY <1>1, <3>1 DEF SlotTypes
    <3>4. seen'[k] # None /\ (client # "c" => Decode(seen'[k]) = slots[k])
      <4>1. seen'[k] = writing.report
        BY <3>2, <3>3
      <4>2. writing.report \in Frames
        BY <1>1, <3>1 DEF WriteTypes
      <4>3. client # "c" => writing.report = from_input(slots[k])
        BY <1>1, <3>1 DEF ShownOrNext
      <4>4. Decode(from_input(slots[k])) = slots[k]
        BY <1>1, <3>3, SlotInput
      <4> QED BY <4>1, <4>2, <4>3, <4>4
    <3>5. client = "c" => owed = {}
      BY <1>1 DEF Places
    <3>6. \A s \in owed : s # k => seen'[s] = seen[s]
      BY <3>2, <3>3
    <3> QED BY <1>1, <1>6, <3>1, <3>2, <3>4, <3>5, <3>6 DEF SendReturns, ShownOrNext, loop
  <2> QED BY <1>6, <2>1, <2>2 DEF SendReturns
<1>7. ASSUME NEW n \in NumArgs, AppOpens(n) PROVE ShownOrNext'
  BY <1>1, <1>7
    DEF AppOpens, AppIdle, NewReceiver, loop, choice, ShownOrNext, Places,
      SlotTypes, WriteTypes, Kinds
<1>8. ASSUME NEW s \in HostSlots, NEW st \in States, AppSets(s, st) PROVE ShownOrNext'
  <2>1. writing = None /\ writing' = None /\ owed' = owed \ {s} /\ UNCHANGED <<seen, client>>
    BY <1>1, <1>8 DEF AppSets, AppIdle, Places, choice
  <2>2. \A k \in owed' : slots'[k] = slots[k]
    BY <1>1, <1>8, <2>1 DEF AppSets, SetStates, SlotTypes, WriteTypes
  <2>3. client = "app"
    BY <1>8 DEF AppSets, AppIdle
  <2> QED BY <1>1, <2>1, <2>2, <2>3 DEF ShownOrNext
<1>9. ASSUME NEW s \in SlotArgs, AppSends(AsU8(s)) PROVE ShownOrNext'
  <2>1. writing = None /\ client = "app"
    BY <1>1, <1>9 DEF AppSends, AppIdle, Places
  <2>2. PICK k \in Int : k = AsU8(s)
    BY ByteType DEF Byte
  <2>3. \/ writing' = None /\ k \notin ep_in
        \/ /\ k \in ep_in
           /\ writing' = [slot |-> k, report |-> from_input(slots[k])]
    BY <1>1, <1>9, <2>1, <2>2 DEF AppSends, send_input, WriteInputReport, SlotTypes, HasSlot
  <2>4. k \in ep_in => writing' # None /\ writing'.slot = k
    <3>1. k \in ep_in => from_input(slots[k]) \in Frames /\ k \in 0 .. 3
      BY <1>1, SlotInput DEF SlotTypes
    <3> QED BY <2>3, <3>1
  <2>5. writing' # None => writing'.report = from_input(slots[writing'.slot])
    BY <2>3
  <2>6. owed' = owed \cup ({k} \cap ep_in) /\ UNCHANGED <<slots, seen, client>>
    BY <1>9, <2>2 DEF AppSends, choice
  <2> QED BY <1>1, <2>1, <2>4, <2>5, <2>6 DEF ShownOrNext
<1>10. ASSUME AppSent PROVE ShownOrNext'
  <2>1. CASE EpWriteFails
    BY <1>1, <1>10, <2>1 DEF AppSent, EpWriteFails, ShownOrNext, SlotTypes, WriteTypes, choice, loop
  <2>2. CASE EpWriteOk
    <3>1. PICK k : k = writing.slot /\ k \in ep_in /\ writing # None
      BY <2>2 DEF EpWriteOk
    <3>2. /\ writing' = None /\ UNCHANGED <<slots, owed, client>>
          /\ seen' = [seen EXCEPT ![k] = writing.report]
      BY <1>10, <2>2, <3>1 DEF AppSent, EpWriteOk, choice
    <3>3. k \in DOMAIN seen /\ k \in DOMAIN slots
      BY <1>1, <3>1 DEF SlotTypes
    <3>4. seen'[k] # None /\ (client # "c" => Decode(seen'[k]) = slots[k])
      <4>1. seen'[k] = writing.report
        BY <3>2, <3>3
      <4>2. writing.report \in Frames
        BY <1>1, <3>1 DEF WriteTypes
      <4>3. client # "c" => writing.report = from_input(slots[k])
        BY <1>1, <3>1 DEF ShownOrNext
      <4>4. Decode(from_input(slots[k])) = slots[k]
        BY <1>1, <3>3, SlotInput
      <4> QED BY <4>1, <4>2, <4>3, <4>4
    <3>5. client = "c" => owed = {}
      BY <1>1 DEF Places
    <3>6. \A s \in owed : s # k => seen'[s] = seen[s]
      BY <3>2, <3>3
    <3> QED BY <1>1, <1>10, <3>1, <3>2, <3>4, <3>5, <3>6 DEF AppSent, ShownOrNext, loop
  <2> QED BY <1>10, <2>1, <2>2 DEF AppSent
<1>11. ASSUME NEW n \in DemoArgs, NEW d \in {None, Given}, DemoStarts(n, d) PROVE ShownOrNext'
  <2>1. CASE writing' = None /\ owed' = {}
    BY <2>1 DEF ShownOrNext
  <2>2. CASE UNCHANGED receiver
    BY <1>1, <1>11, <2>2 DEF DemoStarts, ShownOrNext, receiver, Places, choice, loop
  <2> QED BY <1>11, <2>1, <2>2, StartCases DEF NewReceiver
<1>12. ASSUME Tick PROVE ShownOrNext'
  <2>1. writing' = None /\ client' = "demo" /\ at' = "send" /\ i' = 0
    BY <1>1, <1>12 DEF Tick, Places, LoopTypes, choice
  <2>2. owed' \subseteq 0 .. 3
    BY <1>1, <1>12 DEF Tick, SlotTypes
  <2> QED BY <2>1, <2>2 DEF ShownOrNext
<1>13. ASSUME DemoSends PROVE ShownOrNext'
  <2>1. writing = None /\ HasSlot(i) /\ i' = i + 1
    BY <1>13 DEF DemoSends
  <2>2. writing' = IF i \in ep_in
                     THEN [slot |-> i, report |-> from_input(slots[i])] ELSE None
    BY <1>13, <2>1 DEF DemoSends, send_input, WriteInputReport
  <2>3. i \in owed => writing' # None /\ writing'.slot = i
    <3>1. from_input(slots[i]) \in Frames
      BY <1>1, <2>1, SlotInput DEF HasSlot
    <3>2. i \in ep_in => i \in 0 .. 3
      BY <1>1 DEF SlotTypes
    <3>3. [slot |-> i, report |-> from_input(slots[i])].slot = i
      OBVIOUS
    <3> QED BY <1>1, <2>2, <3>1, <3>2, <3>3 DEF WriteTypes
  <2>4. writing' # None => writing'.report = from_input(slots[writing'.slot])
    BY <2>2
  <2>5. UNCHANGED <<slots, owed, seen, client, at>>
    BY <1>13 DEF DemoSends, choice
  <2>6. \A s \in owed : s \in Int /\ (s >= i => s = i \/ s >= i')
    BY <1>1, <2>1 DEF SlotTypes, WriteTypes, LoopTypes
  <2> QED BY <1>1, <2>1, <2>3, <2>4, <2>5, <2>6 DEF ShownOrNext
<1>14. ASSUME DemoTurnsToPolling PROVE ShownOrNext'
  <2>1. \A s \in owed : s \in DOMAIN slots /\ ~(s >= i)
    BY <1>1, <1>14 DEF DemoTurnsToPolling, SlotTypes, WriteTypes, LoopTypes, HasSlot
  <2> QED BY <1>1, <1>14, <2>1 DEF DemoTurnsToPolling, ShownOrNext, receiver, choice
<1>15. ASSUME DemoPrints PROVE ShownOrNext'
  BY <1>1, <1>15
    DEF DemoPrints, Take, choice, ShownOrNext, Places, SlotTypes, WriteTypes,
      Kinds
<1>16. ASSUME DemoFindsNothing PROVE ShownOrNext'
  BY <1>1, <1>16
    DEF DemoFindsNothing, NextKind, receiver, choice, ShownOrNext, Places,
      SlotTypes, WriteTypes, Kinds
<1>17. ASSUME DemoSleeps PROVE ShownOrNext'
  BY <1>1, <1>17
    DEF DemoSleeps, receiver, loop, choice, ShownOrNext, Places, SlotTypes,
      WriteTypes, Kinds
<1>18. ASSUME DemoSent PROVE ShownOrNext'
  <2>1. CASE EpWriteFails
    BY <1>1, <1>18, <2>1 DEF DemoSent, EpWriteFails, ShownOrNext, SlotTypes, WriteTypes, choice, loop
  <2>2. CASE EpWriteOk
    <3>1. PICK k : k = writing.slot /\ k \in ep_in /\ writing # None
      BY <2>2 DEF EpWriteOk
    <3>2. /\ writing' = None /\ UNCHANGED <<slots, owed, client>>
          /\ seen' = [seen EXCEPT ![k] = writing.report]
      BY <1>18, <2>2, <3>1 DEF DemoSent, EpWriteOk, choice
    <3>3. k \in DOMAIN seen /\ k \in DOMAIN slots
      BY <1>1, <3>1 DEF SlotTypes
    <3>4. seen'[k] # None /\ (client # "c" => Decode(seen'[k]) = slots[k])
      <4>1. seen'[k] = writing.report
        BY <3>2, <3>3
      <4>2. writing.report \in Frames
        BY <1>1, <3>1 DEF WriteTypes
      <4>3. client # "c" => writing.report = from_input(slots[k])
        BY <1>1, <3>1 DEF ShownOrNext
      <4>4. Decode(from_input(slots[k])) = slots[k]
        BY <1>1, <3>3, SlotInput
      <4> QED BY <4>1, <4>2, <4>3, <4>4
    <3>5. client = "c" => owed = {}
      BY <1>1 DEF Places
    <3>6. \A s \in owed : s # k => seen'[s] = seen[s]
      BY <3>2, <3>3
    <3> QED BY <1>1, <1>18, <3>1, <3>2, <3>4, <3>5, <3>6 DEF DemoSent, ShownOrNext, loop
  <2> QED BY <1>18, <2>1, <2>2 DEF DemoSent
<1>19. ASSUME NEW s \in HostSlots, NEW packet \in Packets, HostPacket(s, packet)
      PROVE  ShownOrNext'
  BY <1>1, <1>19
    DEF HostPacket, HostSends, Deliver, choice, ShownOrNext, Places, SlotTypes,
      WriteTypes, Kinds
<1>20. ASSUME Bus PROVE ShownOrNext'
  BY <1>1, <1>20
    DEF Bus, Configured, Forgotten, loop, choice, ShownOrNext, Places,
      SlotTypes, WriteTypes, Kinds
<1>21. CASE UNCHANGED vars
  BY <1>1, <1>21
    DEF vars, receiver, choice, loop, ShownOrNext, Places, SlotTypes,
      WriteTypes, Kinds
<1> QED BY <1>2, <1>3, <1>4, <1>5, <1>6, <1>7, <1>8, <1>9, <1>10, <1>11, <1>12,
     <1>13, <1>14, <1>15, <1>16, <1>17, <1>18, <1>19, <1>20, <1>21
    DEF Next, CStep, AppStep, DemoStep

(* What is due stays ahead of the loop until it has been printed. *)
LEMMA DueStep ==
  ASSUME IInv, [Next]_vars
  PROVE  DueAhead'
<1>1. SlotTypes /\ WriteTypes /\ LoopTypes /\ Places /\ Account /\ DueAhead
  BY TypeParts DEF IInv
<1>2. ASSUME NEW n \in NumArgs, NEW d \in {None, Given}, x360_open(n, d) PROVE DueAhead'
  BY <1>1, <1>2
    DEF x360_open, CIdle, NewReceiver, receiver, loop, choice, DueAhead,
      Places, LoopTypes, Kinds
<1>3. ASSUME x360_close PROVE DueAhead'
  BY <1>1, <1>3
    DEF x360_close, CIdle, NewReceiver, loop, choice, DueAhead, Places,
      LoopTypes, Kinds
<1>4. ASSUME NEW s \in SlotArgs, NEW data \in RawData, x360_send(s, data) PROVE DueAhead'
  BY <1>1, <1>4
    DEF x360_send, CIdle, send_raw_input, WriteInputReport, loop, choice,
      DueAhead, Places, LoopTypes, Kinds
<1>5. ASSUME NEW s \in SlotArgs, NEW kind \in Kinds, x360_poll(kind, s) PROVE DueAhead'
  BY <1>1, <1>5
    DEF x360_poll, CIdle, Take, loop, choice, DueAhead, Places, LoopTypes,
      Kinds
<1>6. ASSUME SendReturns PROVE DueAhead'
  BY <1>1, <1>6
    DEF SendReturns, EpWriteOk, EpWriteFails, loop, choice, DueAhead, Places,
      LoopTypes, Kinds
<1>7. ASSUME NEW n \in NumArgs, AppOpens(n) PROVE DueAhead'
  BY <1>1, <1>7
    DEF AppOpens, AppIdle, NewReceiver, loop, choice, DueAhead, Places,
      LoopTypes, Kinds
<1>8. ASSUME NEW s \in HostSlots, NEW st \in States, AppSets(s, st) PROVE DueAhead'
  BY <1>1, <1>8
    DEF AppSets, AppIdle, SetStates, loop, choice, DueAhead, Places, LoopTypes,
      Kinds
<1>9. ASSUME NEW s \in SlotArgs, AppSends(AsU8(s)) PROVE DueAhead'
  BY <1>1, <1>9
    DEF AppSends, AppIdle, send_input, WriteInputReport, loop, choice,
      DueAhead, Places, LoopTypes, Kinds
<1>10. ASSUME AppSent PROVE DueAhead'
  BY <1>1, <1>10
    DEF AppSent, EpWriteOk, EpWriteFails, loop, choice, DueAhead, Places,
      LoopTypes, Kinds
<1>11. ASSUME NEW n \in DemoArgs, NEW d \in {None, Given}, DemoStarts(n, d) PROVE DueAhead'
  BY <1>1, <1>11
    DEF DemoStarts, NewReceiver, receiver, loop, choice, DueAhead, Places,
      LoopTypes, Kinds
<1>12. ASSUME Tick PROVE DueAhead'
  BY <1>1, <1>12
    DEF Tick, SetStates, choice, DueAhead, Places, LoopTypes, Kinds
<1>13. ASSUME DemoSends PROVE DueAhead'
  BY <1>1, <1>13
    DEF DemoSends, send_input, WriteInputReport, choice, DueAhead, Places,
      LoopTypes, Kinds
<1>14. ASSUME DemoTurnsToPolling PROVE DueAhead'
  <2>1. at' = "rumble" /\ i' = 0 /\ due' = {k \in Keys : box[k] # None} /\ UNCHANGED box
    BY <1>14 DEF DemoTurnsToPolling, receiver
  <2>2. \A k \in Keys : k[1] \in Int /\ k[1] >= 0
    BY KeyType
  <2> QED BY <2>1, <2>2 DEF DueAhead, Kinds
<1>15. ASSUME DemoPrints PROVE DueAhead'
  BY <1>1, <1>15
    DEF DemoPrints, Take, choice, DueAhead, Places, LoopTypes, Kinds
<1>16. ASSUME DemoFindsNothing PROVE DueAhead'
  <2>1. /\ at \in Kinds /\ box[<<i, at>>] = None /\ UNCHANGED <<box, due>>
        /\ at' = NextKind /\ i' = IF at = "led" THEN i + 1 ELSE i
    BY <1>16 DEF DemoFindsNothing, receiver
  <2>2. \A k \in due : box[k] # None /\ (k = <<i, "rumble">> => at = "rumble")
    BY <1>1, <2>1 DEF DueAhead
  <2>3. \A k \in due : k[1] \in Int /\ k[1] >= i
    BY <1>1, <2>1, KeyType DEF DueAhead, LoopTypes
  <2>4. \A k \in due : k[1] = i => k = <<i, "rumble">> \/ k = <<i, "led">>
    <3>1. \A k \in due : k = <<k[1], k[2]>> /\ k[2] \in {"rumble", "led"}
      BY <1>1, KeyType DEF LoopTypes, Kinds
    <3> QED BY <3>1, Zenon
  <2>5. CASE at = "rumble"
    <3>1. at' = "led" /\ i' = i /\ box[<<i, "rumble">>] = None
      BY <2>1, <2>5 DEF NextKind
    <3>2. \A k \in due : k # <<i, "rumble">>
      BY <2>2, <3>1, Zenon
    <3> QED BY <2>1, <2>2, <2>3, <3>1, <3>2 DEF DueAhead, Kinds
  <2>6. CASE at = "led"
    <3>1. at' = "rumble" /\ i' = i + 1 /\ box[<<i, "led">>] = None
      BY <2>1, <2>6 DEF NextKind
    <3>2. \A k \in due : k # <<i, "rumble">> /\ k # <<i, "led">>
      <4>1. at # "rumble"
        BY <2>6
      <4> QED BY <2>2, <3>1, <4>1, Zenon
    <3>3. \A k \in due : k[1] # i
      BY <2>4, <3>2, Zenon
    <3>4. \A k \in due : k[1] >= i + 1
      BY <1>1, <2>3, <3>3 DEF LoopTypes
    <3> QED BY <2>1, <2>2, <3>1, <3>4 DEF DueAhead, Kinds
  <2> QED BY <2>1, <2>5, <2>6 DEF Kinds
<1>17. ASSUME DemoSleeps PROVE DueAhead'
  <2>1. at \in Kinds /\ ~HasSlot(i) /\ at' = "tick" /\ due' = due
    BY <1>17 DEF DemoSleeps, loop
  <2>2. \A k \in due : k[1] \in DOMAIN slots /\ k[1] >= i /\ k[1] \in Int
    BY <1>1, <2>1, KeyType DEF DueAhead, LoopTypes, Account, HasSlot
  <2>3. due = {}
    <3>1. PICK n \in 0 .. 4 : DOMAIN slots = 0 .. n - 1
      BY <1>1 DEF SlotTypes
    <3>2. i \in 0 .. 4 /\ i \notin 0 .. n - 1
      BY <1>1, <2>1, <3>1 DEF LoopTypes, HasSlot
    <3>3. \A k \in due : k[1] \in 0 .. n - 1 /\ k[1] >= i
      BY <2>2, <3>1
    <3> QED BY <3>2, <3>3
  <2> QED BY <2>1, <2>3 DEF DueAhead, Kinds
<1>18. ASSUME DemoSent PROVE DueAhead'
  BY <1>1, <1>18
    DEF DemoSent, EpWriteOk, EpWriteFails, loop, choice, DueAhead, Places,
      LoopTypes, Kinds
<1>19. ASSUME NEW s \in HostSlots, NEW packet \in Packets, HostPacket(s, packet)
      PROVE  DueAhead'
  <2>1. \A k \in Keys : box[k] # None => box'[k] # None
    <3>1. FromBytes(packet.bytes) # NotAReport => FromBytes(packet.bytes) # None
      BY PacketRead, ReportKind
    <3> QED BY <1>1, <1>19, <3>1 DEF HostPacket, HostSends, Deliver, Account
  <2> QED BY <1>1, <1>19, <2>1 DEF HostPacket, DueAhead, LoopTypes
<1>20. ASSUME Bus PROVE DueAhead'
  BY <1>1, <1>20
    DEF Bus, Configured, Forgotten, loop, choice, DueAhead, Places, LoopTypes,
      Kinds
<1>21. CASE UNCHANGED vars
  BY <1>1, <1>21
    DEF vars, receiver, choice, loop, DueAhead, Places, LoopTypes, Kinds
<1> QED BY <1>2, <1>3, <1>4, <1>5, <1>6, <1>7, <1>8, <1>9, <1>10, <1>11, <1>12,
     <1>13, <1>14, <1>15, <1>16, <1>17, <1>18, <1>19, <1>20, <1>21
    DEF Next, CStep, AppStep, DemoStep

-----------------------------------------------------------------------------

LEMMA IInvInit == Init => IInv
<1> SUFFICES ASSUME Init
             PROVE  IInv
  OBVIOUS
<1>1. /\ slots = << >> /\ ep_in = {} /\ box = Empty /\ asked = Empty
      /\ writing = None /\ DOMAIN seen = HostSlots /\ owed = {}
  BY DEF Init, ReceiverInit, NoSlots, Unseen
<1>2. SlotTypes
  BY <1>1 DEF SlotTypes
<1>3. WriteTypes
  BY <1>1 DEF WriteTypes
<1>4. LoopTypes
  <2>1. ret = Returned("none", 0, 0)
    BY DEF Init, NoCall
  <2>2. ret.code = 0
    BY <2>1, ReturnedParts
  <2>3. \A e \in entries : e.type # "dir"
    <3>1. \A u \in Udcs : [name |-> u, type |-> "symlink"].type # "dir"
      OBVIOUS
    <3> QED BY <3>1 DEF Init
  <2>4. quota \in [HostSlots -> Nat] /\ \A s \in HostSlots : quota[s] \in 0 .. MaxPerTick[s]
    BY DEF Init
  <2>5. client \in {"c", "app", "demo"} /\ at \in {"idle", "args"}
    BY DEF Init
  <2>6. /\ driver = None /\ i = 0 /\ tick = 0
        /\ a_pressed \in BOOLEAN /\ due = {}
    BY DEF Init
  <2>7. 0 \in 0 .. TickPeriod - 1
    OBVIOUS
  <2> QED BY <2>2, <2>3, <2>4, <2>5, <2>6, <2>7 DEF LoopTypes
<1>5. Places
  BY <1>1 DEF Init, Places
<1>6. Account
  BY <1>1 DEF Account, Empty
<1>7. PollTells
  BY ReturnedParts DEF Init, NoCall, PollTells
<1>8. ShownOrNext /\ DueAhead
  BY <1>1 DEF Init, ShownOrNext, DueAhead, Kinds
<1> QED BY <1>2, <1>3, <1>4, <1>5, <1>6, <1>7, <1>8, TypeParts DEF IInv

LEMMA Inductive == Spec => []IInv
<1>1. IInv /\ [Next]_vars => IInv'
  <2> SUFFICES ASSUME IInv, [Next]_vars
               PROVE  IInv'
    OBVIOUS
  <2>1. TypeOK' /\ Shapes'
    <3>1. Account' => (TypeOK' /\ Shapes' <=> SlotTypes' /\ WriteTypes' /\ LoopTypes')
      BY TypePartsNext
    <3> QED BY <3>1, AccountStep, SlotTypesStep, WriteTypesStep, LoopTypesStep
  <2> QED BY <2>1, PlacesStep, AccountStep, PollTellsStep, ShownStep, DueStep DEF IInv
<1> QED BY <1>1, IInvInit, PTL DEF Spec

(* Types, at all times and whatever a C program passes for a slot or a     *)
(* count: there are at most four slots, endpoints are those of existing    *)
(* ones, a pending EP_WRITE is of twenty bytes to one of them, and a call  *)
(* returns one of the codes -2 .. 13 (capi.rs:87-237).                     *)
THEOREM TypeCorrect == Spec => []TypeOK
<1>1. IInv => TypeOK
  BY DEF IInv
<1> QED BY <1>1, Inductive, PTL

(* A poll of slots 0 to 3 through the C API returns the host's last        *)
(* command for the slot, byte for byte, whatever other calls the C program *)
(* makes, for packets that PacketsAssumption allows.                       *)
THEOREM PollsTell == Spec => []PollTells
<1>1. IInv => PollTells
  BY DEF IInv
<1> QED BY <1>1, Inductive, PTL

(* What the host has been shown is the slot's state, for every state the   *)
(* application can set: of the slots whose present state was sent since    *)
(* the last configuration, reset or failed EP_WRITE; of others nothing is  *)
(* said.                                                                   *)
THEOREM HostSees == Spec => []HostSeesState
<1>1. IInv => HostSeesState
  BY DEF IInv, ShownOrNext, HostSeesState
<1> QED BY <1>1, Inductive, PTL

(* The demo goes to sleep with nothing left of what waited when it began   *)
(* to poll, whatever arrives while it drains.                              *)
THEOREM TicksDrain == Spec => []TickDrains
<1>1. IInv => TickDrains
  BY DEF IInv, DueAhead, TickDrains
<1> QED BY <1>1, Inductive, PTL
=============================================================================
