------------------------------- MODULE Clients -------------------------------
(***************************************************************************)
(* The three kinds of program on top of WirelessReceiver: a C or Python    *)
(* program that uses capi.rs, a Rust application with send_input, and the  *)
(* demo loop of main.rs.  Which of them runs is chosen at the start.       *)
(***************************************************************************)
EXTENDS Receiver, FiniteSetsExt

CONSTANTS
  NumArgs,    \* num_slots as C programs pass it
  SlotArgs,   \* slot as C programs pass it
  RawData,    \* what x360_send is given: [len, first]
  States,     \* the InputStates the application sets
  DemoArgs,   \* num_interfaces on the command line, None if absent or no u8
  Udcs,       \* bound: the names of the device controllers of the board
  Given,      \* the driver name a caller gives; None stands for NULL
  TickPeriod, \* ticks between two toggles of the demo (10 in main.rs)
  MaxPerTick  \* bound: per slot, the packets the demo's host sends in one tick

ASSUME ArgsAssumption == NumArgs \cup SlotArgs \subseteq Int
ASSUME DataAssumption ==
  \A data \in RawData : data.len \in Nat /\ (IsReport(data) => data.first \in Frames)
ASSUME StatesAssumption == States \subseteq InputStates
ASSUME BoundAssumption ==
  TickPeriod \in Nat \ {0} /\ MaxPerTick \in [HostSlots -> Nat]

VARIABLES
  client,     \* "c", "app" or "demo"
  entries,    \* the directory /sys/class/udc
  at,         \* where the program is
  driver,     \* the driver name new was last given, or None
  ret,        \* what the C program's call returned, if that was the last step
  i,          \* demo: the slot its loop is at
  tick,       \* demo: tick % TickPeriod
  a_pressed,  \* demo
  demo_mode,  \* demo
  due,        \* demo: keys with a report when the polling of a tick began
  quota       \* demo: packets the host may still send in this tick

choice == <<client, entries, demo_mode>>
loop == <<i, tick, a_pressed, due, quota>>
vars == <<receiver, choice, at, driver, ret, loop>>

Returned(fn, slot, code) ==
  [fn |-> fn, slot |-> slot, code |-> code, left |-> 0, right |-> 0, want |-> None]
NoCall == Returned("none", 0, 0)

Init ==
  /\ ReceiverInit
  /\ client \in {"c", "app", "demo"}
  /\ demo_mode \in BOOLEAN /\ (client # "demo" => ~demo_mode)
  (* sysfs: an entry of a class directory is a symlink to the device. *)
  /\ entries \in {{}, {[name |-> u, type |-> "symlink"] : u \in Udcs}}
  /\ at = IF client = "demo" THEN "args" ELSE "idle"
  /\ driver = None /\ ret = NoCall
  /\ i = 0 /\ tick = 0 /\ a_pressed = FALSE /\ due = {} /\ quota = MaxPerTick

(* detect_udc: the first of the names that are directories themselves. *)
detect_udc ==
  LET names == {e.name : e \in {e \in entries : e.type = "dir"}}
  IN IF names = {} THEN None ELSE Min(names)

TypeOK ==
  /\ DOMAIN slots \in {0 .. n - 1 : n \in 0 .. 4}
  /\ ep_in \subseteq DOMAIN slots
  /\ \A k \in Keys : box[k] # None => box[k].kind = k[2]
  /\ writing # None => HasSlot(writing.slot) /\ writing.report \in [0 .. 19 -> Byte]
  /\ owed \subseteq ep_in
  /\ at \in {"idle", "send", "args", "tick", "rumble", "led", "ended"}
  /\ driver \in Udcs \cup {None, Given}
  /\ ret.code \in -2 .. 13
  /\ i \in 0 .. 4 /\ tick \in 0 .. TickPeriod - 1 /\ a_pressed \in BOOLEAN
  /\ due \subseteq Keys /\ \A s \in HostSlots : quota[s] \in 0 .. MaxPerTick[s]

(* `as u8`. *)
AsU8(v) == v % 256

(* Mistake: only 0 is refused. *)
ValidCount_NoLimit(n) == n >= 1

(* ConfigDescriptorSet::new accepts it. *)
ValidCount(n) == n \in 1 .. 4

(***************************************************************************)
(* capi.rs.                                                                *)
(***************************************************************************)

CIdle == client = "c" /\ at = "idle"

(* RawGadgetTransport::new may fail (see Lifecycle).  One at a time. *)
x360_open(num_slots, driver_arg) ==
  LET name == IF driver_arg = None THEN detect_udc ELSE driver_arg
      fn == IF driver_arg = None THEN "open NULL" ELSE "open"
  IN /\ CIdle /\ slots = NoSlots
     /\ driver' = IF ValidCount(AsU8(num_slots)) THEN name ELSE None
     /\ \/ /\ driver' # None
           /\ NewReceiver(AsU8(num_slots))
           /\ ret' = Returned(fn, num_slots, 1)
        \/ /\ ret' = Returned(fn, num_slots, 0)
           /\ UNCHANGED receiver
     /\ UNCHANGED <<choice, at, loop>>

x360_close ==
  /\ CIdle /\ slots # NoSlots
  /\ NewReceiver(0)
  /\ ret' = NoCall
  /\ UNCHANGED <<choice, at, driver, loop>>

(* An index of 4 or more panics, and a panic ends a C program. *)
Panics(slot) == AsU8(slot) > 3

x360_send(slot, data) ==
  /\ CIdle
  /\ IF slots = NoSlots \/ data.len = 0
       THEN ret' = Returned("send", slot, 0) /\ UNCHANGED <<at, writing>>
     ELSE IF IsReport(data) /\ Panics(slot)
       THEN at' = "ended" /\ UNCHANGED <<ret, writing>>
     ELSE /\ send_raw_input(AsU8(slot), data)
          /\ at' = IF writing' = None THEN "idle" ELSE "send"
          /\ ret' = IF writing' = None THEN Returned("send", slot, 1) ELSE ret
  /\ UNCHANGED <<slots, ep_in, box, seen, asked, owed, choice, driver, loop>>

SendReturns ==
  /\ client = "c" /\ at = "send" /\ at' = "idle"
  /\ \/ EpWriteOk /\ ret' = Returned("send", writing.slot, 1)
     \/ EpWriteFails /\ ret' = Returned("send", writing.slot, 0)
  /\ UNCHANGED <<choice, driver, loop>>

(* x360_poll_rumble and x360_poll_led: a code for the report, for none and *)
(* for a null handle.  `want` is the host's side.                          *)
PollCode(kind, r) ==
  CASE kind = "rumble" -> IF r = None THEN 0 ELSE 1
    [] kind = "led" -> IF r = None THEN -1 ELSE r.animation

PollResult(kind, slot) ==
  LET key == <<AsU8(slot), kind>>
      r == box[key]
      motors == kind = "rumble" /\ r # None
  IN [ fn |-> kind, slot |-> slot, want |-> asked[key], code |-> PollCode(kind, r),
       left |-> IF motors THEN r.left_motor ELSE 0,
       right |-> IF motors THEN r.right_motor ELSE 0 ]

x360_poll(kind, slot) ==
  /\ CIdle
  /\ IF slots = NoSlots
       THEN /\ ret' = Returned("poll", slot, IF kind = "rumble" THEN -1 ELSE -2)
            /\ UNCHANGED <<at, box, asked>>
     ELSE IF Panics(slot)
       THEN at' = "ended" /\ UNCHANGED <<ret, box, asked>>
     ELSE /\ ret' = PollResult(kind, slot)
          /\ Take(<<AsU8(slot), kind>>)
          /\ UNCHANGED at
  /\ UNCHANGED <<slots, ep_in, writing, seen, owed, choice, driver, loop>>

(***************************************************************************)
(* A Rust application: any state at any time, send_input with any index.   *)
(***************************************************************************)

AppIdle == client = "app" /\ at = "idle"

AppOpens(n) ==
  /\ AppIdle /\ slots = NoSlots /\ ValidCount(n)
  /\ NewReceiver(n) /\ driver' = Given
  /\ UNCHANGED <<choice, at, ret, loop>>

AppSets(s, st) ==
  /\ AppIdle /\ HasSlot(s)
  /\ SetStates({s}, st)
  /\ owed' = owed \ {s}
  /\ UNCHANGED <<ep_in, box, writing, seen, asked, choice, at, driver, ret, loop>>

AppSends(index) ==
  /\ AppIdle /\ slots # NoSlots
  /\ send_input(index)
  /\ owed' = owed \cup ({index} \cap ep_in)
  /\ at' = IF writing' = None THEN "idle" ELSE "send"
  /\ UNCHANGED <<slots, ep_in, box, seen, asked, choice, driver, ret, loop>>

AppSent ==
  /\ client = "app" /\ at = "send" /\ at' = "idle"
  /\ EpWriteOk \/ EpWriteFails
  /\ UNCHANGED <<choice, driver, ret, loop>>

(***************************************************************************)
(* main.rs.                                                                *)
(***************************************************************************)

(* The arguments; every expect() that fails ends the program. *)
DemoStarts(arg, driver_arg) ==
  LET n == IF arg = None THEN 4 ELSE arg
      name == IF driver_arg = None THEN detect_udc ELSE driver_arg
  IN /\ at = "args"
     /\ driver' = IF ValidCount(n) THEN name ELSE None
     /\ \/ driver' # None /\ NewReceiver(n) /\ at' = "tick"
        \/ at' = "ended" /\ UNCHANGED receiver
     /\ UNCHANGED <<choice, ret, loop>>

(* Mistake: reports are sent when the state changes, not in every tick. *)
Tick_SendsChanges ==
  /\ at = "tick"
  /\ tick' = (tick + 1) % TickPeriod
  /\ IF demo_mode /\ tick' = 0
       THEN /\ a_pressed' = ~a_pressed
            /\ SetStates(DOMAIN slots, with_button(Default, "a", a_pressed'))
            /\ at' = "send"
       ELSE UNCHANGED <<slots, a_pressed>> /\ at' = "rumble"
  /\ i' = 0 /\ quota' = MaxPerTick /\ owed' = ep_in
  /\ UNCHANGED <<ep_in, box, writing, seen, asked, choice, driver, ret, due>>

(* The sleep is over. *)
Tick ==
  /\ at = "tick" /\ at' = "send"
  /\ tick' = (tick + 1) % TickPeriod
  /\ IF demo_mode /\ tick' = 0
       THEN /\ a_pressed' = ~a_pressed
            /\ SetStates(DOMAIN slots, with_button(Default, "a", a_pressed'))
       ELSE UNCHANGED <<slots, a_pressed>>
  /\ i' = 0 /\ quota' = MaxPerTick /\ owed' = ep_in
  /\ UNCHANGED <<ep_in, box, writing, seen, asked, choice, driver, ret, due>>

(* The result of send_input is thrown away. *)
DemoSends ==
  /\ client = "demo" /\ at = "send" /\ writing = None /\ HasSlot(i)
  /\ send_input(i)
  /\ i' = i + 1
  /\ UNCHANGED <<slots, ep_in, box, seen, asked, owed, choice, at, driver, ret,
                 tick, a_pressed, due, quota>>

DemoSent ==
  /\ client = "demo"
  /\ EpWriteOk \/ EpWriteFails
  /\ UNCHANGED <<choice, at, driver, ret, loop>>

DemoTurnsToPolling ==
  /\ client = "demo" /\ at = "send" /\ writing = None /\ ~HasSlot(i)
  /\ at' = "rumble" /\ i' = 0
  /\ due' = {k \in Keys : box[k] # None}
  /\ UNCHANGED <<receiver, choice, driver, ret, tick, a_pressed, quota>>

(* poll_output, called until it returns None, is poll_rumble and then      *)
(* poll_led; a report of either kind makes the loop begin again.           *)
NextKind == IF at = "rumble" THEN "led" ELSE "rumble"

(* Mistake: one poll_output per slot and tick. *)
DemoPrints_Once ==
  /\ at \in Kinds /\ HasSlot(i) /\ box[<<i, at>>] # None
  /\ Take(<<i, at>>)
  /\ due' = due \ {<<i, at>>}
  /\ at' = "rumble" /\ i' = i + 1
  /\ UNCHANGED <<slots, ep_in, writing, seen, owed, choice, driver, ret,
                 tick, a_pressed, quota>>

DemoPrints ==
  /\ at \in Kinds /\ HasSlot(i) /\ box[<<i, at>>] # None
  /\ Take(<<i, at>>)
  /\ due' = due \ {<<i, at>>}
  /\ at' = "rumble"
  /\ UNCHANGED <<slots, ep_in, writing, seen, owed, choice, driver, ret,
                 i, tick, a_pressed, quota>>

DemoFindsNothing ==
  /\ at \in Kinds /\ HasSlot(i) /\ box[<<i, at>>] = None
  /\ at' = NextKind
  /\ i' = IF at = "led" THEN i + 1 ELSE i
  /\ UNCHANGED <<receiver, choice, driver, ret, tick, a_pressed, due, quota>>

DemoSleeps ==
  /\ at \in Kinds /\ ~HasSlot(i)
  /\ at' = "tick"
  /\ UNCHANGED <<receiver, choice, driver, ret, loop>>

(***************************************************************************)
(* Specification.                                                          *)
(***************************************************************************)

HostPacket(s, packet) ==
  /\ client # "app" /\ (client = "demo" => quota[s] > 0)
  /\ HostSends(s, packet)
  /\ quota' = IF client = "demo" THEN [quota EXCEPT ![s] = @ - 1] ELSE quota
  /\ ret' = NoCall
  /\ UNCHANGED <<choice, at, driver, i, tick, a_pressed, due>>

Bus ==
  /\ slots # NoSlots /\ at # "ended"
  /\ Configured \/ Forgotten
  /\ ret' = NoCall
  /\ UNCHANGED <<choice, at, driver, loop>>

CStep ==
  \/ \E n \in NumArgs, d \in {None, Given} : x360_open(n, d)
  \/ x360_close
  \/ \E s \in SlotArgs : \/ \E data \in RawData : x360_send(s, data)
                         \/ \E kind \in Kinds : x360_poll(kind, s)
  \/ SendReturns

AppStep ==
  \/ \E n \in NumArgs : AppOpens(n)
  \/ \E s \in HostSlots, st \in States : AppSets(s, st)
  \/ \E s \in SlotArgs : AppSends(AsU8(s))
  \/ AppSent

DemoStep ==
  \/ Tick \/ DemoSends \/ DemoTurnsToPolling
  \/ DemoPrints \/ DemoFindsNothing \/ DemoSleeps

Next ==
  \/ \E s \in HostSlots, packet \in Packets : at # "ended" /\ HostPacket(s, packet)
  \/ Bus
  \/ CStep \/ AppStep
  \/ \E n \in DemoArgs, d \in {None, Given} : DemoStarts(n, d)
  \/ DemoStep \/ DemoSent

Spec == Init /\ [][Next]_vars

(* The demo loop runs, and the host's driver polls the IN endpoints it has *)
(* configured, so that EP_WRITE succeeds again and again.                  *)
Fairness ==
  /\ WF_vars(DemoStep) /\ WF_vars(DemoSent)
  /\ \A s \in HostSlots :
       SF_vars(DemoSent /\ writing.slot = s /\ seen'[s] = writing.report)

FairSpec == Spec /\ Fairness
-----------------------------------------------------------------------------

(* What x360_poll_* returns for a slot is what the host last asked of that *)
(* slot and nobody has polled yet, byte for byte, and no code for a report *)
(* is the code for none (capi.rs:198-237, protocol.rs:128-233).            *)
PollTells ==
  LET w == ret.want
  IN /\ ret.fn = "rumble" /\ ret.slot \in 0 .. 3 =>
          IF w = None
            THEN ret.code = 0
            ELSE ret.code = 1 /\ Rumble(ret.left, ret.right) = w
     /\ ret.fn = "led" /\ ret.slot \in 0 .. 3 =>
          IF w = None THEN ret.code = -1 ELSE ret.code >= 0 /\ Led(ret.code) = w

(* A report shows the host the state its slot has: after a send_input that *)
(* did not fail, and in the demo while it polls, for the slots in `owed`:  *)
(* those whose present state was sent since the last configuration or      *)
(* reset.  These and a failing EP_WRITE end the claim; that the host       *)
(* catches up later is HostCatchesUp's (session.rs:166, main.rs:95).       *)
HostSeesState ==
  writing = None /\ at \notin {"send", "tick"} =>
    \A s \in owed : seen[s] # None /\ Decode(seen[s]) = slots[s]

(* Everything that waited when the demo began to poll has been printed     *)
(* when it goes to sleep (session.rs:34 "Call in a loop until None to      *)
(* drain both types in one tick").                                         *)
TickDrains == at = "tick" => due = {}

(* An LED command gets printed although poll_output asks for rumble first  *)
(* and the host may send rumble in every tick (session.rs:35-41).          *)
LedShown ==
  \A s \in HostSlots :
    at \in Kinds \cup {"tick"} /\ box[<<s, "led">>] # None ~> box[<<s, "led">>] = None

(* A host that configures the device in the middle of anything is shown    *)
(* the state of a slot, although nothing changes it (main.rs:95).          *)
HostCatchesUp ==
  \A s \in HostSlots :
    client = "demo" /\ s \in ep_in ~>
      s \notin ep_in \/ (seen[s] # None /\ Decode(seen[s]) = slots[s])

(* capi.rs:68: "Pass NULL to auto-detect the first UDC from                *)
(* `/sys/class/udc`."                                                      *)
AutoDetects ==
  ret.fn = "open NULL" /\ ValidCount(ret.slot) /\ entries # {} => driver = Min(Udcs)
-----------------------------------------------------------------------------

(***************************************************************************)
(* The inductive invariant the proofs of the invariants rest on.           *)
(***************************************************************************)

(* The three programs and where they can be. *)
Places ==
  /\ client = "c" => at \in {"idle", "send", "ended"} /\ owed = {}
  /\ client = "app" => at \in {"idle", "send"}
  /\ client = "demo" => at \in {"args", "tick", "send", "rumble", "led", "ended"}
  /\ writing # None => at = "send"
  /\ client # "demo" \/ at = "args" => i = 0
  /\ 0 .. i - 1 \subseteq DOMAIN slots

Shapes ==
  /\ client \in {"c", "app", "demo"}
  /\ \A e \in entries : e.type # "dir"
  /\ slots \in [DOMAIN slots -> InputStates]
  /\ ep_in \subseteq HostSlots
  /\ writing \in [slot : 0 .. 3, report : Frames] \cup {None}
  /\ DOMAIN seen = HostSlots
  /\ quota \in [HostSlots -> Nat]

(* The places polls take from and the host's account of them agree. *)
Account ==
  /\ asked = box /\ box \in [Keys -> Reports \cup {None}]
  /\ \A k \in Keys : box[k] # None => HasSlot(k[1]) /\ box[k].kind = k[2]

(* A slot whose state the host must have seen has been shown to it, is     *)
(* being shown, or its turn in the demo's loop is still to come.           *)
ShownOrNext ==
  /\ writing # None /\ client # "c" =>
       writing.report = from_input(slots[writing.slot])
  /\ \A s \in owed :
       \/ seen[s] # None /\ Decode(seen[s]) = slots[s]
       \/ writing # None /\ writing.slot = s
       \/ client = "demo" /\ at = "send" /\ s >= i

(* Nothing the demo has gone past is still due. *)
DueAhead ==
  /\ at \in {"args", "tick"} => due = {}
  /\ at \in Kinds => \A k \in due :
       /\ box[k] # None /\ k[1] >= i
       /\ k = <<i, "rumble">> => at = "rumble"

IInv ==
  TypeOK /\ Places /\ Shapes /\ Account /\ PollTells /\ ShownOrNext /\ DueAhead
=============================================================================
