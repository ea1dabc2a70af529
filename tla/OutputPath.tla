----------------------------- MODULE OutputPath -----------------------------
(***************************************************************************)
(* The way of a rumble or LED report from the host to the application: the *)
(* OUT endpoint of its slot, an ep_out_loop thread, the mpsc channel, the  *)
(* per-slot buffers, and a poll.  Report payloads are numbers: the n-th    *)
(* report of its kind the host sent to the slot.                           *)
(***************************************************************************)
EXTENDS Naturals, Sequences, FiniteSets

CONSTANTS
  Slots,      \* controller slots in use
  Readers,    \* ep_out threads
  ServedBy,   \* ServedBy[t]: the slot thread t was spawned for
  None,
  MaxSent,    \* bound: MaxSent[k] reports of key k are sent
  MaxWire,    \* bound: transfers waiting at one OUT endpoint
  JunkTo      \* bound: the slots that get transfers nobody recognises

Kinds == {"rumble", "led"}
Keys == Slots \X Kinds
Reports == [key : Keys, n : Nat \ {0}]

(* A transfer OutputReport::from_bytes does not recognise, or an empty one. *)
Junk == [junk |-> TRUE]

ASSUME ServedByAssumption == ServedBy \in [Readers -> Slots]
ASSUME NoneAssumption == None \notin Keys /\ None \notin Reports
ASSUME BoundAssumption == MaxSent \in [Keys -> Nat] /\ MaxWire \in Nat /\ JunkTo \subseteq Slots

VARIABLES
  sent,      \* per key, how many reports the host has sent
  wire,      \* per slot, the transfers waiting at its OUT endpoint
  running,   \* the reader threads that have not ended
  held,      \* per reader, the report between EP_READ and send, or None
  output_rx, \* the mpsc channel
  rx,        \* its receiver has not been dropped
  buf,       \* rumble_buf and led_buf: the number held per key, 0 if none
  polling,   \* the key the caller is polling, or None
  both,      \* it is in poll_output, and the LED is still to be polled
  got        \* the last report a poll of the key returned

threads == <<running, held>>
callerVars == <<polling, both>>
vars == <<sent, wire, threads, output_rx, rx, buf, callerVars, got>>

TypeOK ==
  /\ sent \in [Keys -> Nat] /\ \A k \in Keys : sent[k] <= MaxSent[k]
  /\ wire \in [Slots -> Seq(Reports \cup {Junk})]
  /\ running \subseteq Readers
  /\ held \in [Readers -> Reports \cup {None}]
  /\ \A t \in Readers :
       held[t] # None => t \in running /\ held[t].key[1] = ServedBy[t]
  /\ output_rx \in Seq(Reports)
  /\ rx \in BOOLEAN
  /\ buf \in [Keys -> Nat]
  /\ polling \in Keys \cup {None}
  /\ both \in BOOLEAN
  /\ both => polling # None /\ polling[2] = "rumble"
  /\ got \in [Keys -> Nat]

Nothing == [k \in Keys |-> 0]

Init ==
  /\ sent = Nothing
  /\ wire = [s \in Slots |-> << >>]
  /\ running = Readers
  /\ held = [t \in Readers |-> None]
  /\ output_rx = << >> /\ rx = TRUE
  /\ buf = Nothing
  /\ polling = None /\ both = FALSE
  /\ got = Nothing

(***************************************************************************)
(* The host.                                                               *)
(***************************************************************************)

HostSends(s) ==
  /\ Len(wire[s]) < MaxWire
  /\ \/ \E kind \in Kinds :
          LET k == <<s, kind>>
          IN /\ sent[k] < MaxSent[k]
             /\ sent' = [sent EXCEPT ![k] = @ + 1]
             /\ wire' = [wire EXCEPT ![s] = Append(@, [key |-> k, n |-> sent[k] + 1])]
     \/ /\ s \in JunkTo
        /\ wire' = [wire EXCEPT ![s] = Append(@, Junk)]
        /\ UNCHANGED sent
  /\ UNCHANGED <<threads, output_rx, rx, buf, callerVars, got>>

(* A bus reset drops what no EP_READ has taken. *)
HostFlushes(s) ==
  /\ wire[s] # << >>
  /\ wire' = [wire EXCEPT ![s] = << >>]
  /\ UNCHANGED <<sent, threads, output_rx, rx, buf, callerVars, got>>

(***************************************************************************)
(* ep_out_loop.                                                            *)
(***************************************************************************)

(* EP_READ and from_bytes; what is not recognised is dropped. *)
Read(t) ==
  LET s == ServedBy[t]
  IN /\ t \in running /\ held[t] = None /\ wire[s] # << >>
     /\ wire' = [wire EXCEPT ![s] = Tail(@)]
     /\ held' = [held EXCEPT ![t] =
                   IF Head(wire[s]) = Junk THEN None ELSE Head(wire[s])]
     /\ UNCHANGED <<sent, running, output_rx, rx, buf, callerVars, got>>

(* Any error but EINTR, the descriptor's end included. *)
ReadFails(t) ==
  /\ t \in running /\ held[t] = None
  /\ running' = running \ {t}
  /\ UNCHANGED <<sent, wire, held, output_rx, rx, buf, callerVars, got>>

(* tx.send never blocks; it fails, and the thread ends, when nobody can    *)
(* receive any more.                                                       *)
Send(t) ==
  /\ t \in running /\ held[t] # None
  /\ IF rx
       THEN output_rx' = Append(output_rx, held[t]) /\ UNCHANGED running
       ELSE running' = running \ {t} /\ UNCHANGED output_rx
  /\ held' = [held EXCEPT ![t] = None]
  /\ UNCHANGED <<sent, wire, rx, buf, callerVars, got>>

(***************************************************************************)
(* The caller: poll_rumble, poll_led and Transport::poll_output, which is  *)
(* poll_rumble and, if that found nothing, poll_led.  Each drains first.   *)
(***************************************************************************)

Poll(k) ==
  /\ polling = None /\ rx
  /\ polling' = k /\ both' = FALSE
  /\ UNCHANGED <<sent, wire, threads, output_rx, rx, buf, got>>

PollOutput(s) ==
  /\ polling = None /\ rx
  /\ polling' = <<s, "rumble">> /\ both' = TRUE
  /\ UNCHANGED <<sent, wire, threads, output_rx, rx, buf, got>>

(* Mistake: a full buffer keeps what it has. *)
DrainOne_KeepsOlder ==
  /\ polling # None /\ output_rx # << >>
  /\ output_rx' = Tail(output_rx)
  /\ buf' = [buf EXCEPT ![Head(output_rx).key] =
               IF @ = 0 THEN Head(output_rx).n ELSE @]
  /\ UNCHANGED <<sent, wire, threads, rx, callerVars, got>>

(* drain_output_channel, one try_recv at a time. *)
DrainOne ==
  /\ polling # None /\ output_rx # << >>
  /\ output_rx' = Tail(output_rx)
  /\ buf' = [buf EXCEPT ![Head(output_rx).key] = Head(output_rx).n]
  /\ UNCHANGED <<sent, wire, threads, rx, callerVars, got>>

(* try_recv found the channel empty: the buffer is taken. *)
TakeReport ==
  /\ polling # None /\ output_rx = << >> /\ buf[polling] # 0
  /\ got' = [got EXCEPT ![polling] = buf[polling]]
  /\ buf' = [buf EXCEPT ![polling] = 0]
  /\ polling' = None /\ both' = FALSE
  /\ UNCHANGED <<sent, wire, threads, output_rx, rx>>

(* Mistake: poll_output goes on with poll_led for ever. *)
TakeNothing_StaysBoth ==
  /\ polling # None /\ output_rx = << >> /\ buf[polling] = 0
  /\ polling' = IF both THEN <<polling[1], "led">> ELSE None
  /\ UNCHANGED <<sent, wire, threads, output_rx, rx, buf, both, got>>

(* Mistake: an empty buffer is reported without draining. *)
TakeNothing_Undrained ==
  /\ polling # None /\ buf[polling] = 0
  /\ polling' = IF both THEN <<polling[1], "led">> ELSE None
  /\ both' = FALSE
  /\ UNCHANGED <<sent, wire, threads, output_rx, rx, buf, got>>

TakeNothing ==
  /\ polling # None /\ output_rx = << >> /\ buf[polling] = 0
  /\ polling' = IF both THEN <<polling[1], "led">> ELSE None
  /\ both' = FALSE
  /\ UNCHANGED <<sent, wire, threads, output_rx, rx, buf, got>>

(* The fields of the dropped transport: receiver and buffers. *)
DropReceiver ==
  /\ polling = None /\ rx
  /\ rx' = FALSE
  /\ output_rx' = << >> /\ buf' = Nothing
  /\ UNCHANGED <<sent, wire, threads, callerVars, got>>

Next ==
  \/ \E s \in Slots : HostSends(s) \/ HostFlushes(s) \/ PollOutput(s)
  \/ \E t \in Readers : Read(t) \/ ReadFails(t) \/ Send(t)
  \/ \E k \in Keys : Poll(k)
  \/ DrainOne \/ TakeReport \/ TakeNothing
  \/ DropReceiver

Spec == Init /\ [][Next]_vars

(* Threads are scheduled, a poll that has begun goes on, and the           *)
(* application polls every buffer again and again ("each tick",            *)
(* transport_hw.rs:71-74).  Neither the host nor EP_READ is fair.          *)
Fairness ==
  /\ \A t \in Readers : WF_vars(Send(t))
  /\ WF_vars(DrainOne \/ TakeReport \/ TakeNothing)
  /\ \A k \in Keys : SF_vars(Poll(k))

FairSpec == Spec /\ Fairness
-----------------------------------------------------------------------------

(* The report a poll would return: the newest in the channel, else the     *)
(* buffered one.                                                           *)
InChannel(k) == {j \in 1 .. Len(output_rx) : output_rx[j].key = k}

Newest(k) ==
  IF InChannel(k) = {}
    THEN buf[k]
    ELSE output_rx[CHOOSE j \in InChannel(k) : \A l \in InChannel(k) : l <= j].n

M == INSTANCE Mailbox WITH box <- [k \in Keys |-> Newest(k)], open <- rx

(* Threads, channel and buffers together are one atomic mailbox: a report  *)
(* counts from its tx.send, a poll returns the newest of its key and       *)
(* nothing returned before or older than that, and no key disturbs another *)
(* although all share one channel.  (Needs one reader per slot.)           *)
ImplementsMailbox == M!Spec

(* A report taken from the endpoint reaches the application, or a newer    *)
(* one does, unless the transport is dropped.                              *)
Delivered ==
  \A k \in Keys : \A n \in 1 .. MaxSent[k] :
    (\E t \in Readers : held[t] = [key |-> k, n |-> n]) ~> got[k] >= n \/ ~rx
-----------------------------------------------------------------------------

(***************************************************************************)
(* The inductive invariant the proof of ImplementsMailbox rests on, where  *)
(* no slot has two readers.                                                *)
(***************************************************************************)

OnePerSlot == \A t, u \in Readers : ServedBy[t] = ServedBy[u] => t = u

(* What has left the readers, of one key. *)
Passed(k) == {buf[k], got[k]} \cup {output_rx[j].n : j \in InChannel(k)}

PassedFirst ==
  \A k \in Keys : \A p \in Passed(k) : p <= sent[k]

(* A reader holds something newer than all that has left the readers. *)
HeldNext ==
  \A t \in Readers : held[t] # None =>
    /\ held[t].n <= sent[held[t].key]
    /\ \A p \in Passed(held[t].key) : p < held[t].n

(* The endpoint of a slot carries what was sent to that slot. *)
OwnWire ==
  \A s \in Slots : \A a \in 1 .. Len(wire[s]) :
    wire[s][a] # Junk => wire[s][a].key[1] = s

(* What waits at the endpoint is newer still, and in order. *)
WireLast ==
  \A s \in Slots : \A a \in 1 .. Len(wire[s]) : wire[s][a] # Junk =>
    /\ wire[s][a].n <= sent[wire[s][a].key]
    /\ \A p \in Passed(wire[s][a].key) : p < wire[s][a].n
    /\ \A t \in Readers :
         held[t] # None /\ held[t].key = wire[s][a].key => held[t].n < wire[s][a].n
    /\ \A b \in a + 1 .. Len(wire[s]) :
         wire[s][b] # Junk /\ wire[s][b].key = wire[s][a].key =>
           wire[s][a].n < wire[s][b].n

IInv ==
  /\ TypeOK
  /\ polling # None => rx
  /\ OwnWire /\ PassedFirst /\ HeldNext /\ WireLast
=============================================================================
