# Verification of 360-w-raw-gadget

The repository emulates an Xbox 360 wireless receiver on a Linux board with a
USB device port. It holds two implementations on top of `/dev/raw-gadget`: a
Rust crate (`src/src/`: library, C API and a demo program) and the C program it
grew out of (`src/*.c`). This directory models the concurrent core of both in
TLA+, and around it the codecs, the C API, the demo program and the life of a
transport from `new` to `drop`; it checks them with TLC on small instances and
proves with TLAPS, for every instance, the safety of the Rust core, of the C
gadget, of a transport's life, of the descriptors and of the programs on top, and
two refinements: the threads behind a poll implement an atomic mailbox, and mutex,
condition variable and join implement an atomic endpoint table.

Contents: [1 inventory](#1-inventory) - [2 modules](#2-modules-and-the-code) -
[3 runs](#3-runs) - [4 bounds](#4-bounds) - [5 fairness](#5-fairness) -
[6 proofs](#6-proofs) - [7 disagreements found](#7-what-comments-promise-and-the-code-does-not-keep) -
[8 limits](#8-what-is-only-model-checked-and-what-is-not-modelled) - [9 plan](#9-plan)

## 1. Inventory

| Component | State | Operations | Talks to |
|---|---|---|---|
| **ep0 thread** (`transport_hw.rs` `ep0_loop`, `handle_control`) | its place in the loop, the event in hand, the slot of the enable loop | fetch an event; answer a control request; SET_CONFIGURATION (enable endpoints, spawn readers, publish); forget endpoints on reset or disconnect | kernel by ioctl; caller by mutex and condvar; starts the ep_out threads |
| **SharedState** (`transport_hw.rs`) | `ep_in`, `ep_out`, `ready`, behind one `Mutex` with a `Condvar` | filled by ep0, cleared by ep0, read by the caller | - |
| **caller** (`wait_ready`, `write_input_report`, `poll_*`, `Drop`) | place, the slot and handle of a report being written | wait for `ready`; look a handle up, then EP_WRITE; drain and poll; close and join | SharedState; the channel; kernel |
| **ep_out threads** (`ep_out_loop`) | the handle and slot each was spawned with, the report in hand | EP_READ, `OutputReport::from_bytes`, `tx.send` | kernel; the mpsc channel |
| **output buffers** (`rumble_buf`, `led_buf`, `drain_output_channel`) | one place per slot and kind | drain the channel, newer replaces older; take | channel; caller |
| **raw-gadget kernel driver** (external) | event queue, pending control transfer, enabled endpoints, open descriptor | EVENT_FETCH, EP0_WRITE/READ/STALL, EP_ENABLE, EP_READ/WRITE, close | USB host |
| **transport as an object** (`RawGadgetTransport::new`, `Drop`) | the descriptor number every thread works with | open, INIT, RUN, spawn, each of which may fail; close and join | kernel's descriptor table |
| **Receiver and `Transport` trait** (`session.rs`), `MockTransport` | slots, transport; the mock's one-place mailboxes | set a slot's state, send it or raw bytes, poll, `poll_output` | a Transport |
| **C API** (`capi.rs`) | the boxed receiver | open, close, send, poll with C integers | Receiver |
| **codecs** (`protocol.rs`, `controller.rs`) | none | input report from state, rumble and LED reports from bytes | - |
| **descriptors** (`descriptors.rs`, end of `transport_hw.rs`; `usb_descriptors.c`, `usb_helpers.c`) | none | descriptors as bytes, in each implementation | ep0 |
| **demo** (`main.rs`) | tick count, A button | every 100 ms: perhaps toggle, send all slots, poll all slots until empty | Receiver |
| **UDC detection** (`udc.rs`) | none | first directory of `/sys/class/udc` | C API, demo |
| **ffi, lib** | a debug flag | ioctl wrappers | kernel |
| **legacy C gadget** (`360-w-gadget.c`, `usb_io.c`, `usb_helpers.c`) | the flag `ep_int_enabled`, the descriptor, the ep0 thread | fetch, answer, enable, disable; send and receive on guessed handles; close | kernel, application |

What is hard to test here, and what makes each part correct:

- *Endpoint table.* SET_CONFIGURATION fills the table over `2n` blocking ioctls,
  while resets queue up behind it and callers want handles. Nobody may see half
  a table; no two entries may share a handle; a reset must empty it.
- *The stale handle.* `write_input_report` reads the handle under the mutex and
  calls EP_WRITE after releasing it. Any number of resets and enumerations may
  happen in between; the report must not reach another controller.
- *EP_DISABLE is never called.* After a reset, or a second SET_CONFIGURATION,
  EP_ENABLE may fail for endpoints that are still enabled. A slot must not get a
  second reader because of it.
- *Every control request answered* in its direction, on every branch, although
  results of the answering ioctls are thrown away and a reset may take the
  transfer back first.
- *Wakeups*: `ready` is tested in a loop and `notify_all` comes once per
  configuration. *Shutdown*: `drop` closes the descriptor and joins ep0.
- *Reports through one channel*: N threads, two kinds, buffers filled only while
  a poll runs. A poll must return the newest report of its key, never an older
  one after a newer, and every report must get there or be overtaken.
- *Descriptor numbers*: every thread works with a number, `drop` closes it before
  it joins ep0, the ep_out threads are never joined, and `new` leaves it open
  when it fails. A thread must not get at a later transport's gadget.
- *Clients*: `as u8` on C integers, return codes that share a number range with
  data, hand-written bit layouts, reports dropped silently while no host is
  there, and a loop that must drain two kinds in a fixed order.
- *C code*: two threads share a flag without a lock, the handles EP_ENABLE
  returns are thrown away and guessed, and a failing ioctl ends the process.

`PROJECT.json` lists every hazard with its line and the properties that watch it, or
the reason why none does.

## 2. Modules and the code

```
Link <==implements== Ep0                Mailbox <==implements== OutputPath

RawGadget  <-- Ep0 <-- MCEp0            OutputPath <-- MCOutputPath
    ^           ^                           ^
    |           +---- Ep0Proofs             +---- OutputPathProofs
    +------- LegacyGadget <-- MCLegacyGadget
    |           ^                       Lifecycle <-- LifecycleProofs
    |           +---- LegacyGadgetProofs
    +------- RawGadgetProofs (lemmas of Ep0Proofs and LegacyGadgetProofs)

Descriptors <-- Enumeration <-- MCEnumeration
                    ^
                    +---- EnumerationProofs

Protocol <-- Receiver <-- Clients <-- MCClients
    ^                        ^
    +---- ProtocolProofs <---+---- ClientsProofs
```

**RawGadget** is the kernel side, which is not in the repository; it is what the
calls in `ffi.rs`, `transport_hw.rs` and `usb_io.c` rely on. A handle is what
EP_ENABLE returns; `Fits[e]` are the handles whose hardware can serve endpoint
`e`; `bound[h]` is the endpoint a handle is enabled for. Three switches stand for
kernels and controllers that differ: `ResetDisables` (does the controller driver
drop endpoints on a bus reset), `EnableMayFail`, and in Ep0 `CloseWakes` (does
`close` make another thread's blocked ioctl return). `control` is the pending
control transfer; an answer in the wrong direction leaves it pending.

**Ep0** is everything that touches `SharedState`. One action per step between
blocking calls:

| Code (`transport_hw.rs`) | Actions |
|---|---|
| `ep0_loop` 224-256 | `Fetch`, `FetchError`, `FetchClosed`, `FetchEvent`, `IgnoreEvent`, `ClearEndpoints` |
| `handle_control`, requests answered at once | `Reply` (`ReplyTo` is the branch table) |
| `handle_control`, SET_CONFIGURATION 329-375 | `BeginConfiguration` (takes the mutex), `EnableInOk/Fail`, `EnableOutOk/Fail` with `Spawn`, `Ack`, `Publish` (ready, notify, unlock) |
| `ep_out_loop`, seen from outside | `Spawn`, `ReaderExit` |
| `wait_ready` | `WaitReady`, `Check`, `SpuriousWake` |
| `write_input_report` | `LookupHandle`, `EpWriteReturns` |
| `Drop` | `CloseFd`, `Join` |

The mutex is a variable because ep0 keeps it over many ioctls; the caller's
critical sections contain no blocking call and are one step each. The caller is
one thread because the transport owns an `mpsc::Receiver`, which is not `Sync`.
Requests are the cases `handle_control` tells apart; the bytes of descriptors
are left out.

**Link** is what the input side of a transport promises its one caller: the table
of IN endpoints, `ready`, and what the caller is doing - no lock, no ioctls, no
threads. The first configuration after a reset makes the table appear in one step
and a reset makes it vanish in one; a configuration without a reset in between may
replace entries and takes none away; a report goes out on an entry that is there;
`wait_ready` ends only when there is a configuration; after `drop` nothing changes
any more. Ep0 implements it with `table` = `ep_in` while `ready`, else nothing:
what ep0 has filled in while `ready` is still false does not count, because whoever
could look has to wait for the mutex.

**OutputPath** is `ep_out_loop` from the inside, the channel, the buffers and
the polls. Payloads are numbered per key (slot and kind) in the order the host
sent them, so "newer" can be said. `DrainOne` is one `try_recv`: readers go on
sending while a poll drains. `poll_output` is `poll_rumble` and then, if that
found nothing, `poll_led`, each with a drain of its own.

**Mailbox** is what the polling side of the `Transport` trait promises and what
`MockTransport` does literally: one place per key, replaced by newer reports,
emptied by a poll. OutputPath implements it with `box` = the newest report of
the key in the channel, else the buffered one, and `open` = the receiver exists.

**LegacyGadget** is the C implementation: `ep0_loop`, `ep0_request`,
`send_to_ep`, `receive_from_ep`, `init_360_gadget` and `close_360_gadget`. Every
wrapper that calls `exit` on failure is modelled with the exit (`alive`). The
kernel takes the first free endpoint that fits, which is what makes the guessed
handles `2n` and `2n + 1` right.

**Descriptors** builds every descriptor byte by byte the way
`build_descriptor_bytes` and `encode_string_descriptor` do, and on the C side
`get_if_x`, `build_config` and `set_usb_string_desc`; and it holds the branch table
of GET_DESCRIPTOR (`Data`, `LegacyData`) and the arguments of EP_ENABLE
(`EnableArguments`, `LegacyEnableArguments`) of each. A string is its number of
UTF-16 units. The two loops over the interfaces are the recursive functions
`Interfaces` and `copied`, whose `i`-th value is what the loop has written after
`i` rounds. **Enumeration** is a host in front of either gadget (`code`), which
asks for any descriptor with any of a set of wLength values and walks the reply by
`bLength`. It knows a reply to be whole (`Whole`) when it asked for more than came,
or when a configuration is as long as its wTotalLength says; of a reply that may
be cut off, only what a configuration's header announces is claimed. The properties
are about each gadget by itself: the two do not describe quite the same device
(section 8).

**Lifecycle** is `RawGadgetTransport::new` and `Drop`, several times over, on a
table of descriptor numbers: `Open` takes the lowest free number, an ioctl
reaches whatever file the caller's number names (`Reached`), a file lives as
long as a number or a blocked ioctl holds it, and only one live file can own the
device controller. `Fails` is the `?` after INIT, RUN and the spawn: it closes
nothing. The ep0 and ep_out threads are their loops with one place per ioctl and
one slot.

**Protocol** is `protocol.rs` and `controller.rs`: `from_input`, the `from_bytes`
functions, the builder methods, and `Decode`, the way a host reads a report by
the table in `protocol.rs`. **Receiver** is `WirelessReceiver` over a transport
that does what the modules above establish: its endpoint table comes and goes at
once (Ep0's `ImplementsLink`), its output side is a mailbox (OutputPath's
`ImplementsMailbox`). **Clients** are the programs on top, one per
behaviour: a C program calling `capi.rs` in any order with any arguments, a Rust
application with `set_state` and `send_input`, and `main.rs` loop by loop. EP_WRITE
is a wait (`at = "send"`) during which the bus may reset. `seen`, `asked`, `owed`,
`due` and `quota` are no state of the program: they are what the host was shown
and has asked for, what a send owes it, what a tick began with, and a bound.

Operators whose names end in what a programmer might have got wrong
(`NextSlot_Inclusive`, `Publish_Silent`, ...) are commented "Mistake" and used by
no specification; substituted for the operator they stand before, each makes one
property fail, which shows that the property depends on that line of the code.

## 3. Runs

| Run | Checks | Shows |
|---|---|---|
| `ep0_safety` | `TypeOK`, `TablePublished`, `OneReader`, `NoSharedHandle`, `NotMisdirected`, `ImplementsLink` | two slots, two reader threads, IN endpoints that serve any address, endpoints surviving a reset: no half table visible, no shared handle, no second reader, no misdirected report, and to the caller all of it is the atomic table of Link (560,000 states) |
| `ep0_requests` | `Answered`, `WaitReadyReturns`, `ResetForgets`, `DropReturns` | one slot, a request of every kind of answer, resets, disconnects and signals, a controller that drops endpoints on reset: no request left unanswered, no lost wakeup, resets empty the table, and drop returns where `close` wakes a blocked ioctl |
| `output_mailbox` | `TypeOK`, `ImplementsMailbox`, `Delivered` | refinement of Mailbox with two slots and two readers in front of one channel; a report read from the endpoint reaches a polling application, or a newer one does |
| `legacy_safety` | `TypeOK`, `GuessIsRight`, `NotMisdirected`, `Answered` | the guessed handles are right on a controller that hands out any endpoint, and every request is answered while the process lives |
| `enumeration` | `TypeOK`, `ChainSound`, `FindsWhatIsEnabled`, `StringsExist` | the Rust and the C gadget, 1 to 4 interfaces each: a host that knows its reply to be whole is led to its end, and wTotalLength is right in cut-off replies too; it finds exactly the endpoints SET_CONFIGURATION enables, in interfaces that are in order and each with its vendor descriptor and its own two; every string named exists (20,000 states) |
| `lifecycle` | `TypeOK`, `OwnGadget`, `StealsAtMostOne`, `DropFreesUdc` | three transports one after another, with every failure of `new`: ep0 never reaches another transport's gadget and a reader does not while its own lives; a reader that survives its transport takes at most one recognised report of a later one (what it reads and drops is not counted); where `close` wakes ioctls, a drop gives the device controller back (20,000 states) |
| `clients` | `TypeOK`, `PollTells`, `HostSeesState`, `TickDrains`, `LedShown`, `HostCatchesUp` | C polls of slots 0 to 3 return exactly what the host asked, byte for byte; once a slot's state has been sent, it is what the host has, until a bus event or a failed write; in the demo every tick drains, LED commands get through a stream of rumble, and a host that configures the gadget at any moment learns the state of its slots (77,000 states) |
| `udc_detect`, `ep0_ready_active`, `ep0_exit`, `ep0_drop_hangs`, `legacy_reset` | one property each | violated: see section 7 |

Deadlock is not checked in any run: a dropped transport, a process that has
exited and a host that does nothing are all legitimate ends.

## 4. Bounds

| Bound | Values | Why enough |
|---|---|---|
| `NumInterfaces` | 2 for what relates slots, else 1 | slots interact pairwise only (shared handle, wrong table, wrong reader); the proofs cover 1 to 4 |
| `Threads` | 2 (safety), 1 | `OneReader` needs two readers of one slot; with one thread, and endpoints that come back after a reset, `ep0_requests` has spawns that fail; the proofs cover any set |
| `MaxQueue` | 2 | a reset behind a request and a request behind a reset; longer queues only repeat the pair |
| `HostRequests`, `BusEvents`, `FetchErrors` | one of every kind of answer in `ep0_requests`, elsewhere those the property can notice | `vendor_in` and `get_interface` are handled as `get_descriptor` is (write), `get_missing_descriptor` and `unsupported` as `class` (stall), `connect` as `suspend`, ENODEV as EINTR; requests other than SET_CONFIGURATION change no state but `control` |
| `MaxSent`, `MaxWire`, `JunkTo` | 2 reports of one key beside one of its slot's other kind and one of the other slot's; one transfer waiting per endpoint; junk to one slot | overtaking needs two reports of one key, interference one of another key |
| `WLengths` | 0, 9, 18, 40, 52, 64, 100, 138, 255, 4096 | cuts in every kind of descriptor, a header alone, the exact length of one and of three interfaces' configuration, and everything |
| `Serials` | 0, 7, 126 units | empty, the default, and the longest whose descriptor fits a byte; see section 8 |
| `MaxSessions`, `Numbers` | 3 sessions, 3 numbers | a failed session that keeps its number, one that is dropped with its reader alive, and one that gets the number again |
| `HostSlots` | 0 and 1 | two slots tell `send_input(i)` from any other slot; the demo opens 2 or 4, so that there are slots no host talks to |
| `NumArgs`, `SlotArgs` | 0, 2, 257; -1, 0, 1, 256 | refused, accepted, wrapped to an accepted one; out of range, in range, wrapped |
| `Packets` | one rumble with different motors, LED animation 0, the first unknown animation | every byte position that is read, the report most like no report, and none; the proofs cover every packet `PacketsAssumption` allows |
| `States` | 5 | button n is down in state k where bit k of n is set, so no two buttons agree in all; the ends of triggers and axes; the proofs cover every state |
| `TickPeriod`, `MaxPerTick` | 2 ticks; 1 packet per tick to slot 1 | the toggle happens in every second tick; one rumble in every tick is the stream that could starve an LED command |
| `Udcs` | 1, 2 or none on the board | a first and another |
| `NumEps` | 6 | fewer than the 16 at which `process_eps_info` asserts |

## 5. Fairness

`Ep0!FairSpec`: weak fairness of `Ep0Step` - the scheduler runs the thread and
the ioctls of ep0 return (the host completes or aborts a control transfer);
`FetchEvent` is enabled only when there is an event, so nothing is assumed of
the host, and `FetchError` is not fair. Strong fairness of `Check`, since the
mutex is taken and released by ep0 again and again and a futex-based mutex with
finitely many contenders does not starve one of two threads for ever. Weak
fairness of `Join`. EP_WRITE is *not* fair: it waits for the host. Nor is the
start of any method: an application may stop calling.

`OutputPath!FairSpec`: weak fairness of `Send` (it never blocks) and of a poll
that has begun; strong fairness of `Poll(k)`, which is the documented contract of
the application ("each tick", `transport_hw.rs:71-74`). Neither the host nor
EP_READ is fair, and a thread may end at any read.

`Lifecycle!FairSpec`: weak fairness of threads that are in no ioctl, of `Join`,
and, where `wakes`, of an ioctl's return once nothing names its file. A blocked
ioctl is otherwise not fair, and nothing is assumed of host or application.

`Clients!FairSpec`: weak fairness of the demo's loop, which nobody else
schedules, and of the return of its EP_WRITE; for each slot, strong fairness of
an EP_WRITE that the host's poll completes - the host's driver polls the
endpoints it has configured, and a bus that is reset every time before it does
is excluded. Neither the host's packets nor its configurations are fair, nor is
anything the C program or the application does.

`LegacyGadget!FairSpec`: weak fairness of the ep0 thread, used only to make the
counterexample of `legacy_reset` count.

## 6. Proofs

Eight modules hold proofs (`tlapm`; SMT, Zenon, and PTL for temporal steps). The
theorems are about the specifications without fairness, and hold for every value
of the constants the named assumptions (`...Assumption`) allow: any number of
slots the code accepts, any handles and hardware, any number of threads, queue
entries, transports, reports, arguments and packets, any wLength.

| Module | Theorem | Says | Condition |
|---|---|---|---|
| `Ep0Proofs` | `TypeCorrect` | `TypeOK` | - |
| | `Published` | `TablePublished` | - |
| | `EveryRequestAnswered` | `Answered` | - |
| | `NoneShared` | `NoSharedHandle` | `FixedAddress \/ ~ResetDisables` |
| | `NeverMisdirected` | `NotMisdirected` | `FixedAddress \/ ~ResetDisables` |
| | `ReaderUnique` | `OneReader` | `FixedAddress /\ ~ResetDisables` |
| | `Refines` | `Spec => ImplementsLink` | - |
| `OutputPathProofs` | `TypeCorrect` | `TypeOK` | - |
| | `Refines` | `Spec => ImplementsMailbox` | `OnePerSlot` |
| `LegacyGadgetProofs` | `TypeCorrect` | `TypeOK` | - |
| | `EveryRequestAnswered` | `Answered` | - |
| | `GuessesRight` | `GuessIsRight` | `GuessFits /\ ~ResetDisables` |
| | `NeverMisdirected` | `NotMisdirected` | `GuessFits`, `FixedAddress \/ ~ResetDisables` |
| `LifecycleProofs` | `TypeCorrect` | `TypeOK` | - |
| | `NoTrespass` | `OwnGadget` | - |
| | `OneTheft` | `StealsAtMostOne` | - |
| `EnumerationProofs` | `TypeCorrect` | `TypeOK` | - |
| | `ChainIsSound` | `ChainSound` | - |
| | `StringsAreThere` | `StringsExist` | - |
| | `HostFindsEndpoints` | `FindsWhatIsEnabled` | - |
| `ProtocolProofs` | `ReportShowsState` | `Decode(from_input(st)) = st` for every `st` | - |
| `ClientsProofs` | `TypeCorrect` | `TypeOK` | - |
| | `PollsTell` | `PollTells` | - |
| | `HostSees` | `HostSeesState` | - |
| | `TicksDrain` | `TickDrains` | - |

The conditions are not assumptions about the program:

- `FixedAddress` says that a handle belongs to one endpoint address for good
  (controllers such as dwc2), `~ResetDisables` that a bus reset leaves handles
  enabled. With neither, a stale handle may name another controller's endpoint
  after a reset; the code has no defence of its own. No run has such hardware:
  `ep0_safety` takes `~ResetDisables`, and there a number is never given to another
  endpoint.
- `GuessFits`: the handle the C code guesses for an endpoint is one whose
  hardware can serve it. On other hardware the guess is wrong from the start.
- `OnePerSlot`: no slot has two readers. Ep0's `OneReader` says so of the
  readers that are ever spawned, and `ReaderUnique` proves it on the hardware named
  there; a second reader of one endpoint could send an older report after a newer
  one. On a controller that drops endpoints on a reset, a new reader may start
  while the old one is between EP_READ and send; no property covers that.

Each module follows one pattern. No property of the table is inductive alone; a
definition `IInv` at the end of the specification's module adds what is missing,
TLC has checked it on the runs' instances, one lemma establishes it in the initial
states (`IInvInit`, `InvInit`) and one from step to step (`Inductive`, `InvStep`),
from lemmas per conjunct with a step per action, and the theorems follow by PTL.

**Ep0.** `LockInv`: the mutex is held exactly while ep0 is inside
SET_CONFIGURATION; otherwise an enable step could run with the mutex free and
`TablePublished` would fail. `HandlesFit`: every handle in the table, with the
caller or with a reader fits its endpoint; with `FixedAddress` this alone
separates the endpoints. `HandlesLive` (when resets leave endpoints enabled):
every handle kept is *enabled for* its endpoint, and readers have different
handles. `bound` being a function, two endpoints cannot have one handle; and
because EP_ENABLE never returns an enabled handle, a new reader differs from all
old ones. `AnswerOwed`: a pending transfer's request is in the queue, in ep0's
hands, or ep0 is in the steps that end in the answer; the lemmas about queues it
needs are those of RawGadgetProofs. `Joined`: once `drop` has returned, ep0 has
ended. The refinement of Link goes by the caller's steps and by those of ep0 that
touch `ep_in` or `ready`; all else is a stutter. A lookup that finds a handle is
Link's `Write` because `TablePublished` makes `ready` true then; `Publish` is the
one step in which a table appears; and that no step changes a dropped transport's
table is `Joined`.

**OutputPath.** The mapping takes `box[k]` to `Newest(k)`: the newest report of
the key in the channel, else the buffered one. Every step is a Mailbox step or a
stutter: `Send` is its delivery, a poll's `TakeReport` its poll, and `DrainOne`
must leave `Newest` alone. The step that fails without an invariant is a send: it
is a delivery only if what is sent is newer than everything of its key that was
sent or returned before. Hence the order along the whole way: what has left the
readers (`PassedFirst`) is older than what a reader holds (`HeldNext`), and that is
older than what waits at the endpoint (`WireLast`), whose transfers are in order and
belong to the slot (`OwnWire`). `HeldNext` is where one reader per slot is needed.
Lemmas about `Newest` under Append, Tail and replacement come first.

**LegacyGadget.** `HandlesInOrder`: as the first configuration enables one
endpoint after the other, handle `h` goes to the endpoint whose guess is `h`, and
nothing above is taken; later configurations find these taken and do not matter.
`NeverAnothers` weakens that to what survives resets, `ResetEnds` says that after
one has disabled an endpoint the process is about to end, and `AnswerOwed` is as
in Ep0.

**Lifecycle.** `OneCall`: at most one `new` or `drop` is going on (the
application's thread). `NumbersFit`: the table leads from a number to the file
that was given it, and from `drop`'s close to the end of its join the number
names nothing, for nobody can open. `ThreadsFit`: ep0 does not outlive its
transport, and while a transport lives its reader has never been in another
gadget. `ThievesEnd`: a reader that has taken a later transport's report has a
dead channel, so its next step ends it.

**Enumeration.** Nothing can be proved by induction over the interfaces here, but
there are at most four, so the loops are unrolled: `LoopEnds` gives the function the
definition describes by listing its five values, and from there on `ExtendBytes`
adds one interface to what is known of the bytes before it. `ConfigIs` says that
the bytes `build_config` patches together are those of `build_descriptor_bytes`
but for the type byte of the other speed, so that `ConfigBytes`, which says where in
a configuration every byte of every piece is (`Holds`), serves both. `StringBytes` and
`LegacyStringBytes` say the like of strings, `DataBytes` and `LegacyDataBytes` of
every reply that is a single descriptor (`Single`), `DescriptorBytes` puts the two
codes together, and `ReplyBytes` says what wLength leaves. The invariant says that
the reply is what the gadget has, cut off, and that the
host's walk is at the border of two pieces: after `4 * i + p` of them it stands at the
`p`-th piece of interface `i` and has found exactly the pieces before it
(`WalkOfConfig`), or, for any other request, it has found nothing or everything
(`WalkOfOne`). So the bLength the host reads next is that of a piece, which every
property follows from. That wLength is a u16 and the serial number's length fits a
byte are the assumptions.

**Protocol.** That a host's `Decode` is the inverse of `from_input` is proved of the
two's complement of every axis (`AxisRead`), of every byte made of eight flags
(`FlagsRead`) and of the button table in both directions (`FirstTable`,
`SecondTable`, `Placed`), where TLC looked at five states. `RumbleRead`, `LedRead`
and `OthersIgnored` say what `FromBytes` makes of the packets `PacketsAssumption`
allows: the host's rumble and LED packets with any values, anything with another
type byte, and anything cut off before its third byte.

**Clients.** `Account`: what polls would take and the host's own account are the
same function, which every packet and every poll changes alike. `ShownOrNext`: a
slot the host must have seen has been shown, is in the pending EP_WRITE, or
comes later in the demo's loop. `DueAhead`: what was due when polling began still
waits and lies ahead of the loop, rumble before LED within a slot. `Places`: which
program can be where. The proof of types is split in three (`SlotTypes`,
`WriteTypes`, `LoopTypes`).

## 7. What comments promise and the code does not keep

Each is a run that expects a violation.

- `ep0_ready_active`: `wait_ready` blocks "until SET_CONFIGURATION has completed
  (endpoints are active)" (`transport_hw.rs:125`). `ready` is set whether or not
  any EP_ENABLE succeeded; after a reset that leaves endpoints enabled, all fail.
- `ep0_exit`: "EBADF / ENODEV = fd closed, exit cleanly" (`transport_hw.rs:235`).
  Any errno but EAGAIN ends ep0, EINTR included, which `ep_out_loop` retries.
- `ep0_drop_hangs`: "Closing the fd causes the ep0 thread's EVENT_FETCH to return
  EBADF" (`transport_hw.rs:161`). Where `close` does not interrupt a call already
  in the kernel, `drop` joins a thread that may never return. The run fixes
  `CloseWakes = FALSE`; `ep0_requests` shows that with TRUE drop does return.
- `udc_detect`: "Pass NULL to auto-detect the first UDC from `/sys/class/udc`"
  (`capi.rs:68`, and the demo's default). `udc.rs:9` keeps entries whose
  `file_type()` is a directory; `DirEntry::file_type` does not follow symlinks,
  and sysfs lists class devices as symlinks. Detection finds nothing on any
  board; the unit test builds its directory from real directories.
- `legacy_reset`: "On reset, disable all endpoints" (`360-w-gadget.c:163`). The
  loop gives EP_DISABLE the endpoint number `i + 1`, twice, in place of the
  handles; the second call fails and the wrapper ends the process.

Seen on the way and not runs of their own: `drop` "cleanly shuts down all
background threads" (`transport_hw.rs:76`), but an ep_out thread is not joined,
and Lifecycle has behaviours, even where `close` wakes every ioctl, in which one
sleeps through the drop between two reads and then reads a later gadget
(`StealsAtMostOne` bounds it); "all blocking I/O stays off the caller's thread"
(`transport_hw.rs:4`), but EP_WRITE blocks the caller until the host polls;
`raw_gadget_open_nonblock` requires its number to be closed (`ffi.rs:230`), and
`new` does not close it when INIT, RUN or the spawn fails; "0 on error (... bad
length ...)" (`capi.rs:148`), but a packet of 1 to 19 bytes returns 1.

## 8. What is only model-checked, and what is not modelled

Liveness (`WaitReadyReturns`, `ResetForgets`, `DropReturns`, `Delivered`,
`DropFreesUdc`, `LedShown`, `HostCatchesUp`) is outside the prover and rests on
TLC, as do the counterexamples of section 7. Every other property of a passing run
is proved, under the conditions of section 6 where it has one.

Not modelled: the text of strings, ioctl numbers and struct layouts, logging and
its switch (`lib.rs`, `x360_set_debug`), command-line parsing beyond "absent, a
u8, or neither", invalid pointers given to the C API. A serial number of more
than 126 UTF-16 units, which `with_serial` accepts, makes `bLength` wrap;
Enumeration assumes shorter ones. A host that sends a standard request in the
direction USB does not define for it is not modelled (`Direction`):
`handle_control` answers a standard request by its kind without a look at that bit,
and would leave such a transfer pending; `Answered` says nothing of it.
Whether the two gadgets are the same device is not a property, for they are not:
string 0 is language 0x0000 in C (`360-w-gadget.c:65-67`) and 0x0409 in Rust
(`transport_hw.rs:552`), C answers OTHER_SPEED_CONFIG and sends no data where Rust
stalls. Slots past 3, numbers that `as u8` wraps, an idle slot whose EP_WRITE never
returns, and reports without meaning that a surviving reader swallows are in
PROJECT.json's hazards or excluded by the properties' wording, not covered by them.
Mutex poisoning by a panic (an interface of 4
or more in `write_input_report`) is left out of Ep0: its callers are taken to
pass interfaces of the configuration, and in Clients the panic ends the C
program. Receiver takes the transport's inner steps as one. Ep0 implements Link and
OutputPath implements Mailbox; that Receiver's table and places allow all that
Link and Mailbox do (its `Configured` gives any set of slots, where Link's takes
none away) is read off the definitions and not itself a refinement that is checked.
In LegacyGadget the success of the second EP_DISABLE never happens, for the first
one has already disabled that endpoint.

## 9. Plan

Every part of the code that keeps state is modelled, and every safety property is
proved. What could follow: a specification of Clients over Link and Mailbox in
place of Receiver's own table and places, so that the step from Ep0 and OutputPath
to the programs on top is a refinement too; poisoning of the mutex; and serial
numbers longer than a descriptor can announce.
