---------------------------- MODULE LegacyGadget ----------------------------
(***************************************************************************)
(* The C implementation (360-w-gadget.c on top of usb_io.c): an ep0 thread *)
(* and the thread of the application, which share the file descriptor and  *)
(* the flag ep_int_enabled without any lock.  Every ioctl wrapper but the  *)
(* two may_fail ones ends the process when the ioctl fails, and the        *)
(* handles EP_ENABLE returns are thrown away: sends and receives guess     *)
(* them.  Handles are numbers here.                                        *)
(***************************************************************************)
EXTENDS RawGadget

CONSTANTS
  NumEps,        \* how many endpoints EPS_INFO reports
  FetchMayFail   \* may EVENT_FETCH fail while the descriptor is open?

ASSUME HandlesAssumption ==
  Handles \subseteq Nat /\ 0 .. 2 * NumInterfaces - 1 \subseteq Handles
ASSUME NumEpsAssumption == NumEps \in Nat /\ FetchMayFail \in BOOLEAN

VARIABLES
  alive,           \* the process has not called exit or failed an assertion
  ep_int_enabled,  \* "Endpoint control block"
  ep0,             \* where the ep0 thread is
  i,               \* its loop variable
  event,           \* the event it is handling
  cancelled,       \* pthread_cancel(ep0_thread) has been called
  caller,          \* where the application's thread is
  n                \* the interface of its send_to_ep or receive_from_ep

ep0Vars == <<ep0, i, event>>
callerVars == <<caller, n, cancelled>>
vars == <<kernel, alive, ep_int_enabled, ep0Vars, callerVars>>

TypeOK ==
  /\ KernelTypeOK
  /\ {alive, ep_int_enabled, cancelled} \subseteq BOOLEAN
  /\ ep0 \in {"fetch", "wait", "handle", "disable_in", "disable_out",
              "enable_in", "enable_out", "enabled", "configure", "reply", "ended"}
  /\ i \in 0 .. NumInterfaces
  /\ ep0 \in {"disable_in", "disable_out", "enable_in", "enable_out"} => i \in Slots
  /\ event \in Requests \cup Resets \cup Notices \cup {None}
  /\ caller \in {"awaiting", "idle", "write", "read", "closing", "closed"}
  /\ n \in Slots

(* init_360_gadget has opened, initialised and run the gadget and created  *)
(* the thread; it awaits the endpoints or returns at once.                 *)
Init ==
  /\ KernelInit
  /\ alive = TRUE /\ ep_int_enabled = FALSE
  /\ ep0 = "fetch" /\ i = 0 /\ event = None /\ cancelled = FALSE
  /\ caller \in {"awaiting", "idle"} /\ n = 0

Ep0At(pc) == alive /\ ep0 = pc
CallerAt(pc) == alive /\ caller = pc

(* exit(EXIT_FAILURE), from whichever thread; nothing happens afterwards. *)
Exit ==
  /\ alive' = FALSE
  /\ UNCHANGED <<kernel, ep_int_enabled, ep0Vars, callerVars>>

(***************************************************************************)
(* ep0_loop.                                                               *)
(***************************************************************************)

Fetch ==
  /\ Ep0At("fetch")
  /\ IF fdOpen
       THEN /\ ep0' = "wait" /\ event' = None
            /\ UNCHANGED <<kernel, alive, ep_int_enabled, i, callerVars>>
       ELSE Exit

FetchFails == Ep0At("wait") /\ FetchMayFail /\ Exit

FetchEvent ==
  /\ Ep0At("wait") /\ events # << >>
  /\ event' = Head(events) /\ events' = Tail(events)
  /\ ep0' = "handle"
  /\ UNCHANGED <<fdOpen, bound, control, alive, ep_int_enabled, i, callerVars>>

(* process_eps_info: EPS_INFO fails on a closed descriptor; otherwise it   *)
(* gives interface k the address k + 1 and asserts that its number, the    *)
(* low four bits, is not zero.                                             *)
Connect ==
  /\ Ep0At("handle") /\ event = "connect"
  /\ IF ~fdOpen \/ \E k \in 0 .. NumEps - 1 : (k + 1) % 16 = 0
       THEN Exit
       ELSE /\ ep0' = "fetch"
            /\ UNCHANGED <<kernel, alive, ep_int_enabled, i, event, callerVars>>

(* A reset before any configuration, a disconnect and everything else that *)
(* is not a control request is skipped.                                    *)
IgnoreEvent ==
  /\ Ep0At("handle")
  /\ \/ event \in (Resets \cup Notices) \ {"reset", "connect"}
     \/ event = "reset" /\ ~ep_int_enabled
  /\ ep0' = "fetch"
  /\ UNCHANGED <<kernel, alive, ep_int_enabled, i, event, callerVars>>

BeginReset ==
  /\ Ep0At("handle") /\ event = "reset" /\ ep_int_enabled
  /\ ep0' = "disable_in" /\ i' = 0
  /\ UNCHANGED <<kernel, alive, ep_int_enabled, event, callerVars>>

(* usb_endpoint_num of either descriptor of interface i is i + 1, and that *)
(* is what EP_DISABLE is given for a handle, twice.                        *)
DisableNumber(pc, next) ==
  /\ Ep0At(pc)
  /\ IF fdOpen /\ i + 1 \in Handles /\ bound[i + 1] # None
       THEN /\ bound' = [bound EXCEPT ![i + 1] = None]
            /\ next
            /\ UNCHANGED <<fdOpen, events, control, alive, event, callerVars>>
       ELSE Exit

DisableIn ==
  DisableNumber("disable_in", ep0' = "disable_out" /\ UNCHANGED <<i, ep_int_enabled>>)

DisableOut ==
  DisableNumber("disable_out",
    /\ i' = i + 1
    /\ ep0' = IF i + 1 < NumInterfaces THEN "disable_in" ELSE "fetch"
    /\ ep_int_enabled' = (i + 1 < NumInterfaces))

(***************************************************************************)
(* ep0_request and the reply.                                              *)
(***************************************************************************)

(* Class requests and standard requests without a case of their own. *)
Unknown ==
  /\ Ep0At("handle") /\ event \in {"class", "unsupported"}
  /\ Exit

(* Mistake: vendor requests "safely ignored", without a reply. *)
Request_Ignored ==
  /\ Ep0At("handle")
  /\ event \in Requests \ {"class", "unsupported", "set_configuration"}
  /\ ep0' = IF event \in {"vendor_in", "vendor_out"} THEN "fetch" ELSE "reply"
  /\ UNCHANGED <<kernel, alive, ep_int_enabled, i, event, callerVars>>

(* Descriptors, known or not, GET_INTERFACE and vendor requests: whatever  *)
(* is in io goes out.                                                      *)
Request ==
  /\ Ep0At("handle")
  /\ event \in Requests \ {"class", "unsupported", "set_configuration"}
  /\ ep0' = "reply"
  /\ UNCHANGED <<kernel, alive, ep_int_enabled, i, event, callerVars>>

(* Mistake: the flag goes up before the endpoints do. *)
BeginConfiguration_FlagFirst ==
  /\ Ep0At("handle") /\ event = "set_configuration"
  /\ ep0' = "enable_in" /\ i' = 0 /\ ep_int_enabled' = TRUE
  /\ UNCHANGED <<kernel, alive, event, callerVars>>

BeginConfiguration ==
  /\ Ep0At("handle") /\ event = "set_configuration"
  /\ ep0' = "enable_in" /\ i' = 0
  /\ UNCHANGED <<kernel, alive, ep_int_enabled, event, callerVars>>

(* The kernel takes the first endpoint that fits. *)
FirstFit(e) ==
  {h \in Enableable(e) : \A g \in Enableable(e) : h <= g}

EnableEndpoint(e, next) ==
  \/ /\ \E h \in FirstFit(e) : Enable(e, h)
     /\ next
     /\ UNCHANGED <<fdOpen, events, control, alive, ep_int_enabled, event, callerVars>>
  \/ CanRefuse(e) /\ Exit

EnableIn ==
  Ep0At("enable_in") /\ EnableEndpoint(<<i, "in">>, ep0' = "enable_out" /\ UNCHANGED i)

(* Mistake: i <= n_interfaces. *)
EnableOut_Inclusive ==
  /\ Ep0At("enable_out")
  /\ EnableEndpoint(<<i, "out">>,
       /\ i' = i + 1
       /\ ep0' = IF i < NumInterfaces THEN "enable_in" ELSE "enabled")

EnableOut ==
  /\ Ep0At("enable_out")
  /\ EnableEndpoint(<<i, "out">>,
       /\ i' = i + 1
       /\ ep0' = IF i + 1 < NumInterfaces THEN "enable_in" ELSE "enabled")

(* The flag goes up before VBUS_DRAW and CONFIGURE. *)
SetEnabled ==
  /\ Ep0At("enabled")
  /\ ep_int_enabled' = TRUE
  /\ ep0' = "configure"
  /\ UNCHANGED <<kernel, alive, i, event, callerVars>>

Configure ==
  /\ Ep0At("configure")
  /\ IF fdOpen
       THEN /\ ep0' = "reply"
            /\ UNCHANGED <<kernel, alive, ep_int_enabled, i, event, callerVars>>
       ELSE Exit

(* The direction bit of bRequestType chooses between write and read. *)
Reply ==
  LET op == IF Direction(event) = {"in"} THEN "write" ELSE "read"
  IN /\ Ep0At("reply")
     /\ IF Ep0IoOk(op)
          THEN /\ Ep0Io(op)
               /\ ep0' = "fetch"
               /\ UNCHANGED <<fdOpen, bound, events, alive, ep_int_enabled, i, event,
                              callerVars>>
          ELSE Exit

(* The cancellation takes effect at a cancellation point: somewhere in the *)
(* printfs between the ioctls, or never if the output is only buffered.    *)
Cancelled ==
  /\ alive /\ cancelled /\ ep0 \notin {"wait", "ended"}
  /\ ep0' = "ended"
  /\ UNCHANGED <<kernel, alive, ep_int_enabled, i, event, callerVars>>

(***************************************************************************)
(* The application.                                                        *)
(***************************************************************************)

(* while (!ep_int_enabled) usleep(1000) *)
Awaited ==
  /\ CallerAt("awaiting") /\ ep_int_enabled
  /\ caller' = "idle"
  /\ UNCHANGED <<kernel, alive, ep_int_enabled, ep0Vars, n, cancelled>>

(* send_to_ep and receive_from_ep: the flag is read, then the ioctl made.  *)
(* With the flag down they return at once.                                 *)
BeginIo(k) ==
  /\ CallerAt("idle") /\ ep_int_enabled
  /\ caller' \in {"write", "read"} /\ n' = k
  /\ UNCHANGED <<kernel, alive, ep_int_enabled, ep0Vars, cancelled>>

(* Mistake: the endpoint number for a handle, as the FIXME has it. *)
Guess_EndpointNumber(k, call) == k + 1

(* The handle they guess. *)
Guess(k, call) == IF call = "write" THEN 2 * k ELSE 2 * k + 1

EndIo ==
  /\ CallerAt("write") \/ CallerAt("read")
  /\ caller' = "idle" /\ n' = 0
  /\ UNCHANGED <<kernel, alive, ep_int_enabled, ep0Vars, cancelled>>

CancelEp0 ==
  /\ CallerAt("idle")
  /\ cancelled' = TRUE /\ caller' = "closing"
  /\ UNCHANGED <<kernel, alive, ep_int_enabled, ep0Vars, n>>

CloseFd ==
  /\ CallerAt("closing")
  /\ fdOpen' = FALSE /\ caller' = "closed"
  /\ UNCHANGED <<bound, events, control, alive, ep_int_enabled, ep0Vars, n, cancelled>>

Host ==
  /\ fdOpen \/ Ep0At("wait")
  /\ \/ \E r \in HostRequests : HostRequest(r)
     \/ \E b \in BusEvents : BusEvent(b)
  /\ UNCHANGED <<alive, ep_int_enabled, ep0Vars, callerVars>>

Ep0Step ==
  \/ Fetch \/ FetchEvent \/ Connect \/ IgnoreEvent
  \/ BeginReset \/ DisableIn \/ DisableOut
  \/ Unknown \/ Request \/ BeginConfiguration \/ EnableIn \/ EnableOut
  \/ SetEnabled \/ Configure \/ Reply

Next ==
  \/ Ep0Step \/ FetchFails \/ Cancelled
  \/ Awaited \/ EndIo \/ CancelEp0 \/ CloseFd
  \/ \E k \in Slots : BeginIo(k)
  \/ Host

Spec == Init /\ [][Next]_vars

FairSpec == Spec /\ WF_vars(Ep0Step)
-----------------------------------------------------------------------------

(* While the flag is up and no reset is being handled, and before the      *)
(* application closes the gadget, the handle send_to_ep or receive_from_ep *)
(* guesses for an interface is the one EP_ENABLE gave that interface's     *)
(* endpoint.  (Needs endpoints that a reset leaves enabled.)               *)
GuessIsRight ==
  /\ alive /\ ep_int_enabled /\ ~cancelled
  /\ ep0 \notin {"disable_in", "disable_out"}
  => \A s \in Slots : /\ bound[Guess(s, "write")] = <<s, "in">>
                     /\ bound[Guess(s, "read")] = <<s, "out">>

(* The ioctl comes after the flag was read, with any number of resets in   *)
(* between; whatever the guessed handle means then, it is not another      *)
(* controller's endpoint.  (Needs what GuessIsRight needs, or FixedAddress *)
(* where a reset disables the endpoints.)                                  *)
NotMisdirected ==
  /\ caller = "write" => bound[Guess(n, "write")] \in {<<n, "in">>, None}
  /\ caller = "read" => bound[Guess(n, "read")] \in {<<n, "out">>, None}

(* As long as the process lives, ep0 owes the host no answer when it goes  *)
(* back to EVENT_FETCH.                                                    *)
Answered ==
  alive /\ ep0 \in {"fetch", "wait"} /\ fdOpen /\ control # "none" =>
    \E k \in 1 .. Len(events) : events[k] \in Requests

(* "On reset, disable all endpoints": once the loop has been entered, a    *)
(* moment comes when none is enabled, unless the application has begun to  *)
(* close the gadget.                                                       *)
ResetDisablesAll ==
  ep0 = "disable_in" ~> cancelled \/ \A h \in Handles : bound[h] = None

(***************************************************************************)
(* The inductive invariant the proofs of these rest on.                    *)
(***************************************************************************)

(* The handle guessed for an endpoint, and the hardware on which the guess *)
(* can be right at all.                                                    *)
Guessed(e) == Guess(e[1], IF e[2] = "in" THEN "write" ELSE "read")
GuessFits == \A e \in Endpoints : Guessed(e) \in Fits[e]

(* The guesses below k are right. *)
RightBelow(k) == \A e \in Endpoints : Guessed(e) < k => bound[Guessed(e)] = e

(* A first configuration that has enabled k endpoints took the handles in  *)
(* the order of the guesses.                                               *)
Exactly(k) == RightBelow(k) /\ \A h \in Handles : bound[h] # None => h < k

Configured == RightBelow(2 * NumInterfaces)

(* A later configuration finds every guessed handle taken, and whatever it *)
(* gets on top of them does not matter.                                    *)
HandlesInOrder ==
  /\ ep0 \in {"fetch", "wait", "handle", "disable_in", "reply"} =>
       Configured \/ Exactly(0)
  /\ ep0 = "enable_in" => Configured \/ Exactly(2 * i)
  /\ ep0 = "enable_out" => Configured \/ Exactly(2 * i + 1)
  /\ ep0 \in {"enabled", "configure"} => Configured
  /\ ep_int_enabled /\ ep0 \notin {"disable_out", "ended"} => Configured

(* A guessed handle is never another endpoint's, not even where a reset    *)
(* has disabled the one whose number is an endpoint's address.             *)
NeverAnothers == \A e \in Endpoints : bound[Guessed(e)] \in {e, None}

(* A second EP_DISABLE with the same number fails and ends the process, so *)
(* nothing is ever enabled after a reset has disabled something.           *)
ResetEnds ==
  /\ ep0 = "disable_out" => bound[i + 1] = None
  /\ ep0 = "ended" => cancelled
  /\ caller \in {"awaiting", "idle", "write", "read"} => ~cancelled

(* The pending transfer is that of a queued request or of the one ep0 has  *)
(* in hand, unless ep0 has been cancelled with it.                         *)
AnswerOwed ==
  alive /\ fdOpen /\ control # "none" =>
    \/ \E k \in 1 .. Len(events) : events[k] \in Requests
    \/ ep0 = "handle" /\ event \in Requests
    \/ ep0 \in {"enable_in", "enable_out", "enabled", "configure", "reply", "ended"}

IInv ==
  /\ TypeOK
  /\ AnswerOwed
  /\ ResetEnds
  /\ GuessFits /\ ~ResetDisables => HandlesInOrder /\ NeverAnothers
=============================================================================
