------------------------------ MODULE RawGadget ------------------------------
(***************************************************************************)
(* The kernel side of /dev/raw-gadget, as far as the user-space code of    *)
(* this repository can see it: an event queue read with EVENT_FETCH, the   *)
(* pending control transfer answered on endpoint 0, and the table of       *)
(* endpoint handles that EP_ENABLE fills.  None of this code is in the     *)
(* repository; it is reconstructed from the calls made in ffi.rs,          *)
(* transport_hw.rs, usb_io.c and 360-w-gadget.c.                           *)
(***************************************************************************)
EXTENDS Naturals, Sequences, FiniteSets

CONSTANTS
  NumInterfaces,   \* controller slots of the configuration, 1..4
  Handles,         \* what EP_ENABLE may return
  Fits,            \* Fits[e]: the handles whose hardware can serve endpoint e
  None,            \* "no handle", "no endpoint", Rust's None
  MaxQueue,        \* bound: events waiting to be fetched
  ResetDisables,   \* does the controller driver drop endpoints on a bus reset?
  EnableMayFail,   \* may EP_ENABLE fail although a handle is free?
  HostRequests,    \* bound: the control requests this host sends
  BusEvents        \* bound: the bus events this host causes

Slots == 0 .. NumInterfaces - 1

Endpoints == Slots \X {"in", "out"}

(* What the host asks on endpoint 0, up to what handle_control tells apart. *)
Requests ==
  { "vendor_in", "vendor_out", "class", "get_descriptor",
    "get_missing_descriptor", "set_configuration", "get_interface",
    "unsupported" }

(* The bus events that make user space forget its endpoints. *)
Resets == {"reset", "disconnect"}

Notices == {"connect", "suspend"}

ASSUME NumInterfacesAssumption == NumInterfaces \in 1 .. 4
ASSUME FitsAssumption == Fits \in [Endpoints -> SUBSET Handles]
ASSUME NoneAssumption == None \notin Handles /\ None \notin Endpoints
ASSUME MaxQueueAssumption == MaxQueue \in Nat \ {0}
ASSUME SwitchAssumption == {ResetDisables, EnableMayFail} \subseteq BOOLEAN
ASSUME HostAssumption ==
  HostRequests \subseteq Requests /\ BusEvents \subseteq Resets \cup Notices

(* Every endpoint address has hardware of its own: one handle, and the     *)
(* handle names that endpoint for ever.                                    *)
FixedAddress ==
  \A e, f \in Endpoints : \A h \in Fits[e], g \in Fits[f] : h = g <=> e = f

VARIABLES
  fdOpen,   \* the file descriptor has not been closed
  bound,    \* handle -> the endpoint it is enabled for, or None
  events,   \* events not yet fetched
  control   \* the pending control transfer: "none", "in" or "out"

kernel == <<fdOpen, bound, events, control>>

KernelTypeOK ==
  /\ fdOpen \in BOOLEAN
  /\ bound \in [Handles -> Endpoints \cup {None}]
  /\ \A h \in Handles : bound[h] # None => h \in Fits[bound[h]]
  /\ events \in Seq(Requests \cup Resets \cup Notices)
  /\ control \in {"none", "in", "out"}

KernelInit ==
  /\ fdOpen = TRUE
  /\ bound = [h \in Handles |-> None]
  /\ events = << >>
  /\ control = "none"

(* The direction of the data or status stage user space has to serve: a    *)
(* standard or vendor request's is the one its kind has.  handle_control   *)
(* does not check a standard request's direction; a host that sends one    *)
(* the wrong way round is not modelled.                                    *)
Direction(r) ==
  CASE r \in {"vendor_out", "set_configuration"} -> {"out"}
    [] r \in {"class", "unsupported"} -> {"in", "out"}
    [] OTHER -> {"in"}

(***************************************************************************)
(* Environment steps.                                                      *)
(***************************************************************************)

(* The host has one control transfer at a time. *)
HostRequest(r) ==
  /\ control = "none"
  /\ Len(events) < MaxQueue
  /\ events' = Append(events, r)
  /\ control' \in Direction(r)
  /\ UNCHANGED <<fdOpen, bound>>

(* A reset aborts the control transfer; its event stays in the queue. *)
BusEvent(b) ==
  /\ Len(events) < MaxQueue
  /\ events' = Append(events, b)
  /\ control' = IF b \in Resets THEN "none" ELSE control
  /\ bound' = IF b \in Resets /\ ResetDisables
                THEN [h \in Handles |-> None]
                ELSE bound
  /\ UNCHANGED fdOpen

(***************************************************************************)
(* What the ioctls do.                                                     *)
(***************************************************************************)

(* The handles EP_ENABLE can return for endpoint e. *)
Enableable(e) ==
  IF fdOpen THEN {h \in Fits[e] : bound[h] = None} ELSE {}

Enable(e, h) == bound' = [bound EXCEPT ![h] = e]

CanRefuse(e) == EnableMayFail \/ Enableable(e) = {}

(* EP0_WRITE serves an IN transfer, EP0_READ an OUT transfer, EP0_STALL    *)
(* ends either; anything else fails and leaves the transfer pending.       *)
Ep0IoOk(op) ==
  /\ fdOpen
  /\ \/ op = "stall"
     \/ op = "write" /\ control = "in"
     \/ op = "read" /\ control = "out"

Ep0Io(op) == control' = IF Ep0IoOk(op) THEN "none" ELSE control
=============================================================================
