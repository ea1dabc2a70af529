--------------------------------- MODULE Ep0 ---------------------------------
(***************************************************************************)
(* The state RawGadgetTransport shares between threads, and everything     *)
(* that touches it: the ep0 thread (ep0_loop, handle_control), the caller  *)
(* (wait_ready, write_input_report, drop) and the start and end of the     *)
(* ep_out reader threads.  What a reader does with the reports it reads is *)
(* the subject of OutputPath.                                              *)
(*                                                                         *)
(* The caller is one thread: the transport owns an mpsc::Receiver, which   *)
(* is not Sync, and all but wait_ready take &mut self.  Its critical       *)
(* sections contain no blocking call and are single steps here; only ep0   *)
(* keeps the mutex over several steps.                                     *)
(***************************************************************************)
EXTENDS RawGadget

CONSTANTS
  Threads,      \* bound: reader threads the process can have at one time
  FetchErrors,  \* errno values EVENT_FETCH may return while the fd is open
  CloseWakes    \* does close() make an ioctl already blocked on the fd return?

ASSUME ThreadsAssumption == None \notin Threads
ASSUME FetchErrorsAssumption == FetchErrors \subseteq {"EAGAIN", "EINTR", "ENODEV"}
ASSUME CloseWakesAssumption == CloseWakes \in BOOLEAN

VARIABLES
  ep_in, ep_out,  \* SharedState: handle per slot, or None
  ready,          \* SharedState: SET_CONFIGURATION has been handled
  lock,           \* the mutex around the three: "free" or held by "ep0"
  ep0,            \* where the ep0 thread is
  i,              \* the slot of its endpoint loop
  event,          \* the event it is handling
  reader,         \* per reader thread: the <<slot, handle>> it serves, or None
  caller,         \* where the caller's thread is
  wslot, handle   \* write_input_report's slot, and the handle it looked up

shared == <<ep_in, ep_out, ready>>
ep0Vars == <<ep0, i, event>>
callerVars == <<caller, wslot, handle>>
vars == <<kernel, shared, lock, ep0Vars, reader, callerVars>>

NoHandles == [s \in Slots |-> None]

TypeOK ==
  /\ KernelTypeOK
  /\ ep_in \in [Slots -> Handles \cup {None}]
  /\ ep_out \in [Slots -> Handles \cup {None}]
  /\ ready \in BOOLEAN
  /\ lock \in {"free", "ep0"}
  /\ ep0 \in {"fetch", "wait", "handle", "enable_in", "enable_out", "ack",
              "publish", "exited"}
  /\ i \in 0 .. NumInterfaces
  /\ ep0 \in {"enable_in", "enable_out"} => i \in Slots
  /\ event \in Requests \cup Resets \cup Notices \cup {None}
  /\ reader \in [Threads -> (Slots \X Handles) \cup {None}]
  /\ caller \in {"idle", "check", "asleep", "write", "joining", "dropped"}
  /\ wslot \in Slots
  /\ handle \in Handles \cup {None}
  /\ caller = "write" => handle \in Handles

Init ==
  /\ KernelInit
  /\ ep_in = NoHandles /\ ep_out = NoHandles /\ ready = FALSE
  /\ lock = "free"
  /\ ep0 = "fetch" /\ i = 0 /\ event = None
  /\ reader = [t \in Threads |-> None]
  /\ caller = "idle" /\ wslot = 0 /\ handle = None

(***************************************************************************)
(* ep0_loop.                                                               *)
(***************************************************************************)

(* Mistake: EBADF treated like EAGAIN. *)
Fetch_Retries ==
  /\ ep0 = "fetch"
  /\ ep0' = IF fdOpen THEN "wait" ELSE "fetch"
  /\ event' = None
  /\ UNCHANGED <<kernel, shared, lock, i, reader, callerVars>>

(* raw_gadget_event_fetch: on a closed descriptor it is EBADF at once,     *)
(* otherwise the thread is in the kernel.                                  *)
Fetch ==
  /\ ep0 = "fetch"
  /\ ep0' = IF fdOpen THEN "wait" ELSE "exited"
  /\ event' = None
  /\ UNCHANGED <<kernel, shared, lock, i, reader, callerVars>>

(* Only EAGAIN retries; every other error ends the thread. *)
FetchError(errno) ==
  /\ ep0 = "wait" /\ fdOpen
  /\ errno = "EAGAIN" => events = << >>
  /\ ep0' = IF errno = "EAGAIN" THEN "fetch" ELSE "exited"
  /\ UNCHANGED <<kernel, shared, lock, i, event, reader, callerVars>>

FetchClosed ==
  /\ ep0 = "wait" /\ ~fdOpen /\ CloseWakes
  /\ ep0' = "exited"
  /\ UNCHANGED <<kernel, shared, lock, i, event, reader, callerVars>>

FetchEvent ==
  /\ ep0 = "wait" /\ events # << >>
  /\ event' = Head(events)
  /\ events' = Tail(events)
  /\ ep0' = "handle"
  /\ UNCHANGED <<fdOpen, bound, control, shared, lock, i, reader, callerVars>>

IgnoreEvent ==
  /\ ep0 = "handle" /\ event \in Notices
  /\ ep0' = "fetch"
  /\ UNCHANGED <<kernel, shared, lock, i, event, reader, callerVars>>

(* Mistake: a disconnect is not a reset. *)
ClearEndpoints_ResetOnly ==
  /\ ep0 = "handle" /\ event \in Resets /\ lock = "free"
  /\ IF event = "reset"
       THEN ep_in' = NoHandles /\ ep_out' = NoHandles /\ ready' = FALSE
       ELSE UNCHANGED shared
  /\ ep0' = "fetch"
  /\ UNCHANGED <<kernel, lock, i, event, reader, callerVars>>

(* EP_DISABLE is not called: what the kernel has enabled stays enabled. *)
ClearEndpoints ==
  /\ ep0 = "handle" /\ event \in Resets /\ lock = "free"
  /\ ep_in' = NoHandles /\ ep_out' = NoHandles /\ ready' = FALSE
  /\ ep0' = "fetch"
  /\ UNCHANGED <<kernel, lock, i, event, reader, callerVars>>

(***************************************************************************)
(* handle_control.  The result of the answering ioctl is discarded.        *)
(***************************************************************************)

ReplyTo(r) ==
  CASE r \in {"vendor_in", "get_descriptor", "get_interface"} -> "write"
    [] r \in {"vendor_out", "set_configuration"} -> "read"
    [] OTHER -> "stall"

Reply ==
  /\ ep0 = "handle" /\ event \in Requests \ {"set_configuration"}
  /\ Ep0Io(ReplyTo(event))
  /\ ep0' = "fetch"
  /\ UNCHANGED <<fdOpen, bound, events, shared, lock, i, event, reader, callerVars>>

(* Mistake: the mutex is taken per assignment. *)
BeginConfiguration_Unlocked ==
  /\ ep0 = "handle" /\ event = "set_configuration" /\ lock = "free"
  /\ ep0' = "enable_in" /\ i' = 0
  /\ UNCHANGED <<kernel, shared, lock, event, reader, callerVars>>

(* SET_CONFIGURATION, any wValue: the mutex is taken and held to the end. *)
BeginConfiguration ==
  /\ ep0 = "handle" /\ event = "set_configuration" /\ lock = "free"
  /\ lock' = "ep0"
  /\ ep0' = "enable_in" /\ i' = 0
  /\ UNCHANGED <<kernel, shared, event, reader, callerVars>>

(* Mistake: one handle for both directions. *)
EnableInOk_BothWays(h) ==
  /\ ep0 = "enable_in" /\ h \in Enableable(<<i, "in">>)
  /\ Enable(<<i, "in">>, h)
  /\ ep_in' = [ep_in EXCEPT ![i] = h]
  /\ ep_out' = [ep_out EXCEPT ![i] = h]
  /\ ep0' = "enable_out"
  /\ UNCHANGED <<fdOpen, events, control, ready, lock, i, event, reader, callerVars>>

EnableInOk(h) ==
  /\ ep0 = "enable_in" /\ h \in Enableable(<<i, "in">>)
  /\ Enable(<<i, "in">>, h)
  /\ ep_in' = [ep_in EXCEPT ![i] = h]
  /\ ep0' = "enable_out"
  /\ UNCHANGED <<fdOpen, events, control, ep_out, ready, lock, i, event, reader,
                 callerVars>>

(* The failure is printed; the table keeps what it had. *)
EnableInFail ==
  /\ ep0 = "enable_in" /\ CanRefuse(<<i, "in">>)
  /\ ep0' = "enable_out"
  /\ UNCHANGED <<kernel, shared, lock, i, event, reader, callerVars>>

(* Mistake: 0..=num_interfaces. *)
NextSlot_Inclusive ==
  /\ i' = i + 1
  /\ ep0' = IF i < NumInterfaces THEN "enable_in" ELSE "ack"

NextSlot ==
  /\ i' = i + 1
  /\ ep0' = IF i + 1 < NumInterfaces THEN "enable_in" ELSE "ack"

(* thread::Builder::spawn(..).ok(): with no thread to be had, nothing      *)
(* happens and nothing is reported.                                        *)
Spawn(s, h) ==
  LET idle == {t \in Threads : reader[t] = None}
  IN IF idle = {} THEN UNCHANGED reader
     ELSE \E t \in idle : reader' = [reader EXCEPT ![t] = <<s, h>>]

(* Mistake: st.ep_in for st.ep_out. *)
EnableOutOk_WrongTable(h) ==
  /\ ep0 = "enable_out" /\ h \in Enableable(<<i, "out">>)
  /\ Enable(<<i, "out">>, h)
  /\ ep_in' = [ep_in EXCEPT ![i] = h]
  /\ Spawn(i, h)
  /\ NextSlot
  /\ UNCHANGED <<fdOpen, events, control, ep_out, ready, lock, event, callerVars>>

EnableOutOk(h) ==
  /\ ep0 = "enable_out" /\ h \in Enableable(<<i, "out">>)
  /\ Enable(<<i, "out">>, h)
  /\ ep_out' = [ep_out EXCEPT ![i] = h]
  /\ Spawn(i, h)
  /\ NextSlot
  /\ UNCHANGED <<fdOpen, events, control, ep_in, ready, lock, event, callerVars>>

(* Mistake: an endpoint still enabled gets a new reader. *)
EnableOutFail_Respawns ==
  /\ ep0 = "enable_out" /\ CanRefuse(<<i, "out">>)
  /\ IF ep_out[i] = None THEN UNCHANGED reader ELSE Spawn(i, ep_out[i])
  /\ NextSlot
  /\ UNCHANGED <<kernel, shared, lock, event, callerVars>>

EnableOutFail ==
  /\ ep0 = "enable_out" /\ CanRefuse(<<i, "out">>)
  /\ NextSlot
  /\ UNCHANGED <<kernel, shared, lock, event, reader, callerVars>>

(* Mistake: the status stage served with EP0_WRITE. *)
Ack_Write ==
  /\ ep0 = "ack"
  /\ Ep0Io("write")
  /\ ep0' = "publish"
  /\ UNCHANGED <<fdOpen, bound, events, shared, lock, i, event, reader, callerVars>>

(* VBUS_DRAW and CONFIGURE, results discarded, then the zero-length read. *)
Ack ==
  /\ ep0 = "ack"
  /\ Ep0Io("read")
  /\ ep0' = "publish"
  /\ UNCHANGED <<fdOpen, bound, events, shared, lock, i, event, reader, callerVars>>

(* Mistake: no notify_all. *)
Publish_Silent ==
  /\ ep0 = "publish"
  /\ ready' = TRUE
  /\ lock' = "free"
  /\ ep0' = "fetch" /\ i' = 0
  /\ UNCHANGED <<kernel, ep_in, ep_out, event, reader, callerVars>>

(* ready, notify_all, and the guard goes out of scope. *)
Publish ==
  /\ ep0 = "publish"
  /\ ready' = TRUE
  /\ caller' = IF caller = "asleep" THEN "check" ELSE caller
  /\ lock' = "free"
  /\ ep0' = "fetch" /\ i' = 0
  /\ UNCHANGED <<kernel, ep_in, ep_out, event, reader, wslot, handle>>

(***************************************************************************)
(* ep_out_loop, from the outside: the first read error other than EINTR    *)
(* ends the thread, whatever it was; so does the receiver's end.           *)
(***************************************************************************)

ReaderExit(t) ==
  /\ reader[t] # None
  /\ reader' = [reader EXCEPT ![t] = None]
  /\ UNCHANGED <<kernel, shared, lock, ep0Vars, callerVars>>

(***************************************************************************)
(* The caller.                                                             *)
(***************************************************************************)

WaitReady ==
  /\ caller = "idle"
  /\ caller' = "check"
  /\ UNCHANGED <<kernel, shared, lock, ep0Vars, reader, wslot, handle>>

(* The loop condition, under the mutex; cvar.wait releases it atomically. *)
Check ==
  /\ caller = "check" /\ lock = "free"
  /\ caller' = IF ready THEN "idle" ELSE "asleep"
  /\ UNCHANGED <<kernel, shared, lock, ep0Vars, reader, wslot, handle>>

(* Mistake: an if in place of the while. *)
SpuriousWake_Returns ==
  /\ caller = "asleep"
  /\ caller' = "idle"
  /\ UNCHANGED <<kernel, shared, lock, ep0Vars, reader, wslot, handle>>

SpuriousWake ==
  /\ caller = "asleep"
  /\ caller' = "check"
  /\ UNCHANGED <<kernel, shared, lock, ep0Vars, reader, wslot, handle>>

(* write_input_report up to the ioctl: with no handle the report is        *)
(* dropped; with one, the mutex is free again before EP_WRITE is called.   *)
LookupHandle(s) ==
  /\ caller = "idle" /\ lock = "free"
  /\ IF ep_in[s] = None
       THEN UNCHANGED callerVars
       ELSE caller' = "write" /\ wslot' = s /\ handle' = ep_in[s]
  /\ UNCHANGED <<kernel, shared, lock, ep0Vars, reader>>

(* EP_WRITE returns when the host has polled the endpoint, or with an      *)
(* error, which goes to the caller; either way the method returns.         *)
EpWriteReturns ==
  /\ caller = "write"
  /\ caller' = "idle" /\ wslot' = 0 /\ handle' = None
  /\ UNCHANGED <<kernel, shared, lock, ep0Vars, reader>>

CloseFd ==
  /\ caller = "idle"
  /\ fdOpen' = FALSE
  /\ caller' = "joining"
  /\ UNCHANGED <<bound, events, control, shared, lock, ep0Vars, reader, wslot, handle>>

Join ==
  /\ caller = "joining" /\ ep0 = "exited"
  /\ caller' = "dropped"
  /\ UNCHANGED <<kernel, shared, lock, ep0Vars, reader, wslot, handle>>

(***************************************************************************)
(* The host acts while the gadget exists: until the descriptor is closed   *)
(* and ep0's EVENT_FETCH no longer keeps the open file alive.  (A reader's *)
(* EP_READ keeps it too, but then nobody is left to fetch an event.)       *)
(***************************************************************************)

Host ==
  /\ fdOpen \/ ep0 = "wait"
  /\ \/ \E r \in HostRequests : HostRequest(r)
     \/ \E b \in BusEvents : BusEvent(b)
  /\ UNCHANGED <<shared, lock, ep0Vars, reader, callerVars>>

(* What ep0 does once EVENT_FETCH has something to say; FetchError is left *)
(* out because nothing makes the kernel fail.                              *)
Ep0Step ==
  \/ Fetch \/ FetchClosed \/ FetchEvent \/ IgnoreEvent \/ ClearEndpoints
  \/ Reply \/ BeginConfiguration
  \/ \E h \in Handles : EnableInOk(h) \/ EnableOutOk(h)
  \/ EnableInFail \/ EnableOutFail
  \/ Ack \/ Publish

CallerStep ==
  \/ WaitReady \/ Check \/ SpuriousWake
  \/ \E s \in Slots : LookupHandle(s)
  \/ EpWriteReturns \/ CloseFd \/ Join

Next ==
  \/ Ep0Step
  \/ \E errno \in FetchErrors : FetchError(errno)
  \/ \E t \in Threads : ReaderExit(t)
  \/ CallerStep
  \/ Host

Spec == Init /\ [][Next]_vars

(* The scheduler runs both threads, and the mutex is not withheld from the *)
(* caller for ever.  EP_WRITE, which waits for the host, is not fair, nor  *)
(* is the start of any method.                                             *)
Fairness ==
  /\ WF_vars(Ep0Step)
  /\ SF_vars(Check)
  /\ WF_vars(Join)

FairSpec == Spec /\ Fairness
-----------------------------------------------------------------------------

(***************************************************************************)
(* Safety.                                                                 *)
(***************************************************************************)

(* Whoever gets the mutex sees either no endpoint at all or the outcome of *)
(* a finished SET_CONFIGURATION, never the half of one.                    *)
TablePublished ==
  lock = "free" => ready \/ (ep_in = NoHandles /\ ep_out = NoHandles)

(* The table's 2 * NumInterfaces entries, by endpoint. *)
Entry(e) == IF e[2] = "in" THEN ep_in[e[1]] ELSE ep_out[e[1]]

(* Two endpoints of the table never share a handle: a report for one       *)
(* controller cannot reach another, nor an input report an OUT endpoint,   *)
(* by way of the table.  (Needs what NotMisdirected needs.)                *)
NoSharedHandle ==
  \A e, f \in Endpoints :
    e # f /\ Entry(e) # None => Entry(e) # Entry(f)

(* write_input_report looks the handle up, releases the mutex and calls    *)
(* EP_WRITE with what may by then be a stale handle.  Whatever resets and  *)
(* enumerations happen in between, the handle is the slot's own IN         *)
(* endpoint or dead; it never names another controller's.  (Needs handles  *)
(* that are not given to another endpoint after a reset: FixedAddress or   *)
(* not ResetDisables.)                                                     *)
NotMisdirected ==
  caller = "write" => bound[handle] \in {<<wslot, "in">>, None}

(* An OUT endpoint has at most one reader, so the reports of a slot reach  *)
(* the channel in the order the host sent them.  A device configured twice *)
(* without a reset, or again after one, gets no second reader, because     *)
(* EP_ENABLE fails.  (Needs FixedAddress and not ResetDisables.)           *)
OneReader ==
  \A t, u \in Threads :
    t # u /\ reader[t] # None /\ reader[u] # None => reader[t][1] # reader[u][1]

(* No control request is forgotten: when ep0 goes back to EVENT_FETCH, a   *)
(* transfer still pending belongs to a request still queued.  Every branch *)
(* of handle_control must have answered, in the transfer's direction.      *)
Answered ==
  ep0 \in {"fetch", "wait"} /\ fdOpen /\ control # "none" =>
    \E k \in 1 .. Len(events) : events[k] \in Requests

(* What the caller can tell of all this.  While ep0 fills the table for    *)
(* the first time it is still empty to the caller, who cannot look.        *)
Activity ==
  CASE caller \in {"check", "asleep"} -> "waiting"
    [] caller = "write" -> "writing"
    [] caller = "joining" -> "dropping"
    [] OTHER -> caller

L == INSTANCE Link WITH
       table <- IF ready THEN ep_in ELSE NoHandles,
       caller <- Activity,
       report <- IF caller = "write" THEN <<wslot, handle>> ELSE None

(* The lock, the 2 * NumInterfaces ioctls under it, the condition variable *)
(* and the join together make the atomic table of Link: a report goes out  *)
(* on an entry of a configuration that was finished, wait_ready returns    *)
(* only when there is one, entries vanish only all at once, and nothing    *)
(* happens to the table after drop has returned.                           *)
ImplementsLink == L!Spec

(***************************************************************************)
(* The inductive invariant the proofs of these rest on.                    *)
(***************************************************************************)

LockInv ==
  lock = "ep0" <=> ep0 \in {"enable_in", "enable_out", "ack", "publish"}

(* A handle of the table, in a caller's hands or a reader's, can serve the *)
(* endpoint it is kept for.                                                *)
HandlesFit ==
  /\ \A e \in Endpoints : Entry(e) # None => Entry(e) \in Fits[e]
  /\ caller = "write" => handle \in Fits[<<wslot, "in">>]
  /\ \A t \in Threads :
       reader[t] # None => reader[t][2] \in Fits[<<reader[t][1], "out">>]

(* Where a reset leaves endpoints enabled, every handle the program keeps  *)
(* is enabled for its endpoint, and no two readers have the same one.      *)
HandlesLive ==
  /\ \A e \in Endpoints : Entry(e) # None => bound[Entry(e)] = e
  /\ caller = "write" => bound[handle] = <<wslot, "in">>
  /\ \A t \in Threads :
       reader[t] # None => bound[reader[t][2]] = <<reader[t][1], "out">>
  /\ \A t, u \in Threads :
       t # u /\ reader[t] # None /\ reader[u] # None => reader[t][2] # reader[u][2]

(* What makes Answered hold: the pending transfer is that of a queued      *)
(* request, or of the one ep0 has in hand, whose answer will then be in    *)
(* the transfer's direction.  A reset may leave the request of an aborted  *)
(* transfer in the queue or in ep0's hand, beside the new one.             *)
Owed(r) == r \in Requests /\ control \in Direction(r)

AnswerOwed ==
  fdOpen /\ control # "none" =>
    \/ \E k \in 1 .. Len(events) : Owed(events[k])
    \/ ep0 = "handle" /\ Owed(event)
    \/ ep0 \in {"enable_in", "enable_out", "ack"} /\ control = "out"
    \/ ep0 = "exited"

(* drop joins ep0, which never comes back. *)
Joined == caller = "dropped" => ep0 = "exited"

IInv ==
  /\ TypeOK
  /\ LockInv
  /\ TablePublished
  /\ HandlesFit
  /\ ~ResetDisables => HandlesLive
  /\ AnswerOwed
  /\ Joined

(***************************************************************************)
(* Liveness, under FairSpec.                                               *)
(***************************************************************************)

(* Once the host configures the device and leaves it configured, a caller  *)
(* of wait_ready is let go: no wakeup is lost between the test of ready    *)
(* and cvar.wait.                                                          *)
WaitReadyReturns ==
  <>[]ready => (caller \in {"check", "asleep"} ~> caller = "idle")

(* The endpoints of a connection the host has ended leave the table, be it *)
(* reported as a reset or as a disconnect, unless ep0 has ended first.     *)
ResetForgets ==
  (\E k \in 1 .. Len(events) : events[k] \in Resets) ~>
    (ep_in = NoHandles /\ ep_out = NoHandles /\ ~ready) \/ ep0 = "exited"

(* Dropping the transport returns, whatever ep0 was doing when the         *)
(* descriptor was closed.                                                  *)
DropReturns == caller = "joining" ~> caller = "dropped"
-----------------------------------------------------------------------------

(***************************************************************************)
(* What the comments promise and the code does not keep.                   *)
(***************************************************************************)

(* "Block until SET_CONFIGURATION has completed (endpoints are active)":   *)
(* when wait_ready returns, every slot has its two endpoints.              *)
ReadyMeansActive ==
  [][caller = "check" /\ caller' = "idle" =>
       \A e \in Endpoints : Entry(e) # None]_vars

(* "EBADF / ENODEV = fd closed, exit cleanly": ep0 ends only after close.  *)
ExitsOnlyWhenClosed == ep0 = "exited" => ~fdOpen
=============================================================================
