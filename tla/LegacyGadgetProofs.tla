-------------------------- MODULE LegacyGadgetProofs --------------------------
(* Proofs about LegacyGadget, for every number of interfaces and handles. *)
EXTENDS LegacyGadget, RawGadgetProofs

USE NumInterfacesAssumption, FitsAssumption, NoneAssumption, HostAssumption,
    HandlesAssumption, NumEpsAssumption

LEMMA TypeInit == Init => TypeOK
<1> SUFFICES ASSUME Init PROVE TypeOK
  OBVIOUS
<1>1. KernelTypeOK
  BY DEF Init, KernelInit, KernelTypeOK
<1>2. 0 \in 0 .. NumInterfaces
  OBVIOUS
<1> QED BY <1>1, <1>2, SlotZero DEF Init, TypeOK

LEMMA EnableKernelType ==
  ASSUME KernelTypeOK, NEW e \in Endpoints, NEW h \in FirstFit(e), Enable(e, h),
         UNCHANGED <<fdOpen, events, control>>
  PROVE  KernelTypeOK'
BY EnableType DEF FirstFit, KernelTypeOK

LEMMA TypeStep == TypeOK /\ [Next]_vars => TypeOK'
<1> SUFFICES ASSUME TypeOK, [Next]_vars PROVE TypeOK'
  OBVIOUS
<1> USE DEF TypeOK, kernel, ep0Vars, callerVars
<1>0. CASE Exit
  BY <1>0 DEF Exit, KernelTypeOK
<1>1. CASE Fetch \/ FetchFails \/ FetchEvent
  BY <1>0, <1>1 DEF Fetch, FetchFails, FetchEvent, Ep0At, KernelTypeOK
<1>2. CASE Connect \/ IgnoreEvent \/ BeginReset
  BY <1>0, <1>2, SlotZero DEF Connect, IgnoreEvent, BeginReset, KernelTypeOK
<1>3. CASE DisableIn
  <2>1. CASE Exit
    BY <1>0, <2>1
  <2>2. CASE ~Exit
    <3>1. /\ bound' = [bound EXCEPT ![i + 1] = None]
          /\ UNCHANGED <<fdOpen, events, control, alive, event, callerVars>>
          /\ ep0' = "disable_out" /\ UNCHANGED <<i, ep_int_enabled>>
          /\ i \in Slots
      BY <1>3, <2>2 DEF DisableIn, DisableNumber, Ep0At
    <3>2. KernelTypeOK'
      BY <3>1 DEF KernelTypeOK
    <3> QED BY <3>1, <3>2
  <2> QED BY <2>1, <2>2
<1>4. CASE DisableOut
  <2>1. CASE Exit
    BY <1>0, <2>1
  <2>2. CASE ~Exit
    <3>1. /\ bound' = [bound EXCEPT ![i + 1] = None]
          /\ UNCHANGED <<fdOpen, events, control, alive, event, callerVars>>
          /\ i' = i + 1 /\ i \in Slots
          /\ ep0' = IF i + 1 < NumInterfaces THEN "disable_in" ELSE "fetch"
          /\ ep_int_enabled' = (i + 1 < NumInterfaces)
      BY <1>4, <2>2 DEF DisableOut, DisableNumber, Ep0At
    <3>2. KernelTypeOK'
      BY <3>1 DEF KernelTypeOK
    <3> QED BY <3>1, <3>2 DEF Slots
  <2> QED BY <2>1, <2>2
<1>5. CASE Unknown \/ Request \/ BeginConfiguration
  BY <1>0, <1>5, SlotZero DEF Unknown, Request, BeginConfiguration, KernelTypeOK
<1>6. CASE EnableIn
  <2>1. CASE Exit
    BY <1>0, <2>1
  <2>2. CASE ~Exit
    <3>1. i \in Slots /\ <<i, "in">> \in Endpoints
      BY <1>6 DEF EnableIn, Ep0At, Endpoints
    <3>2. /\ \E h \in FirstFit(<<i, "in">>) : Enable(<<i, "in">>, h)
          /\ UNCHANGED <<fdOpen, events, control, alive, ep_int_enabled, event, callerVars>>
          /\ ep0' = "enable_out" /\ UNCHANGED i
      BY <1>6, <2>2 DEF EnableIn, EnableEndpoint
    <3>3. KernelTypeOK'
      BY <3>1, <3>2, EnableKernelType
    <3> QED BY <3>1, <3>2, <3>3
  <2> QED BY <2>1, <2>2
<1>7. CASE EnableOut
  <2>1. CASE Exit
    BY <1>0, <2>1
  <2>2. CASE ~Exit
    <3>1. i \in Slots /\ <<i, "out">> \in Endpoints
      BY <1>7 DEF EnableOut, Ep0At, Endpoints
    <3>2. /\ \E h \in FirstFit(<<i, "out">>) : Enable(<<i, "out">>, h)
          /\ UNCHANGED <<fdOpen, events, control, alive, ep_int_enabled, event, callerVars>>
          /\ i' = i + 1
          /\ ep0' = IF i + 1 < NumInterfaces THEN "enable_in" ELSE "enabled"
      BY <1>7, <2>2 DEF EnableOut, EnableEndpoint
    <3>3. KernelTypeOK'
      BY <3>1, <3>2, EnableKernelType
    <3> QED BY <3>1, <3>2, <3>3 DEF Slots
  <2> QED BY <2>1, <2>2
<1>8. CASE SetEnabled \/ Configure \/ Reply \/ Cancelled
  BY <1>0, <1>8 DEF SetEnabled, Configure, Reply, Ep0Io, Cancelled, KernelTypeOK
<1>9. CASE Awaited \/ EndIo \/ CancelEp0 \/ CloseFd \/ \E k \in Slots : BeginIo(k)
  BY <1>9, SlotZero DEF Awaited, EndIo, CancelEp0, CloseFd, BeginIo, KernelTypeOK
<1>10. CASE Host
  BY <1>10, HostKernelType DEF Host
<1>11. CASE UNCHANGED vars
  BY <1>11 DEF vars, KernelTypeOK
<1> QED BY <1>1, <1>2, <1>3, <1>4, <1>5, <1>6, <1>7, <1>8, <1>9, <1>10, <1>11
        DEF Next, Ep0Step

(* Every variable stays in its type, the loop variable within the          *)
(* interfaces while endpoints are enabled or disabled                      *)
(* (360-w-gadget.c:63-69, usb_io.c:71-86).                                 *)
THEOREM TypeCorrect == Spec => []TypeOK
BY TypeInit, TypeStep, PTL DEF Spec
-----------------------------------------------------------------------------

(***************************************************************************)
(* The control requests.                                                   *)
(***************************************************************************)

LEMMA AnswerStep == TypeOK /\ AnswerOwed /\ [Next]_vars => AnswerOwed'
<1> SUFFICES ASSUME TypeOK, AnswerOwed, [Next]_vars, alive', fdOpen', control' # "none"
             PROVE  \/ \E k \in 1 .. Len(events') : events'[k] \in Requests
                    \/ ep0' = "handle" /\ event' \in Requests
                    \/ ep0' \in {"enable_in", "enable_out", "enabled", "configure",
                                 "reply", "ended"}
  BY DEF AnswerOwed
<1>0. events \in Seq(Queueable) /\ ~Exit
  BY DEF TypeOK, KernelTypeOK, Queueable, Exit
<1>1. CASE Host
  <2>1. CASE \E r \in HostRequests : HostRequest(r)
    <3>1. PICK r \in HostRequests : HostRequest(r)
      BY <2>1
    <3>2. r \in Queueable /\ r \in Requests
      BY DEF Queueable
    <3> QED BY <3>1, <3>2, <1>0, LastQueued DEF HostRequest
  <2>2. CASE \E b \in BusEvents : BusEvent(b)
    <3>1. PICK b \in BusEvents : BusEvent(b)
      BY <2>2
    <3>2. b \in Queueable /\ UNCHANGED <<control, fdOpen, alive, ep0, event>>
      BY <1>1, <3>1 DEF BusEvent, Queueable, Host, ep0Vars
    <3>3. ASSUME NEW k \in 1 .. Len(events), events[k] \in Requests
          PROVE  \E l \in 1 .. Len(events') : events'[l] \in Requests
      BY <1>0, <3>1, <3>2, <3>3, StaysQueued DEF BusEvent
    <3> QED BY <3>2, <3>3 DEF AnswerOwed
  <2> QED BY <1>1, <2>1, <2>2 DEF Host
<1>2. CASE FetchEvent
  <2>1. /\ UNCHANGED <<control, fdOpen, alive>> /\ events' = Tail(events)
        /\ ep0 = "wait" /\ ep0' = "handle" /\ event' = Head(events)
    BY <1>2 DEF FetchEvent, Ep0At
  <2>2. PICK k \in 1 .. Len(events) : events[k] \in Requests
    BY <2>1 DEF AnswerOwed
  <2> QED BY <1>0, <2>1, <2>2, HeadOrTail
<1>3. CASE Reply
  <2>1. PICK op \in {"read", "write"} : Ep0IoOk(op) /\ Ep0Io(op)
    BY <1>0, <1>3 DEF Reply
  <2> QED BY <2>1 DEF Ep0Io
<1>4. CASE Request \/ BeginConfiguration \/ EnableIn \/ EnableOut \/ SetEnabled
           \/ Configure \/ Cancelled
  BY <1>0, <1>4 DEF Request, BeginConfiguration, EnableIn, EnableOut, EnableEndpoint,
                    SetEnabled, Configure, Cancelled
<1>5. CASE Connect \/ IgnoreEvent \/ BeginReset
  <2>1. /\ UNCHANGED <<fdOpen, events, control, alive>> /\ ep0 = "handle"
        /\ event \in Resets \cup Notices
    BY <1>0, <1>5 DEF Connect, IgnoreEvent, BeginReset, Ep0At, kernel, Resets, Notices
  <2>2. event \notin Requests
    BY <2>1 DEF Resets, Notices, Requests
  <2> QED BY <2>1, <2>2 DEF AnswerOwed
<1>6. CASE Fetch \/ DisableIn \/ DisableOut
  <2>1. /\ UNCHANGED <<fdOpen, events, control, alive>>
        /\ ep0 \in {"fetch", "disable_in", "disable_out"}
    BY <1>0, <1>6 DEF Fetch, DisableIn, DisableOut, DisableNumber, Ep0At, kernel
  <2> QED BY <2>1 DEF AnswerOwed
<1>7. CASE Unknown \/ FetchFails
  BY <1>0, <1>7 DEF Unknown, FetchFails
<1>8. CASE Awaited \/ EndIo \/ CancelEp0 \/ CloseFd \/ (\E k \in Slots : BeginIo(k))
           \/ UNCHANGED vars
  <2>1. fdOpen /\ UNCHANGED <<events, control, alive, ep0, event>>
    BY <1>8 DEF Awaited, EndIo, CancelEp0, CloseFd, BeginIo, vars, kernel, ep0Vars
  <2> QED BY <2>1 DEF AnswerOwed
<1> QED BY <1>1, <1>2, <1>3, <1>4, <1>5, <1>6, <1>7, <1>8 DEF Next, Ep0Step

-----------------------------------------------------------------------------

(***************************************************************************)
(* The end of the process and of ep0.                                      *)
(***************************************************************************)

LEMMA ResetStep == TypeOK /\ ResetEnds /\ [Next]_vars => ResetEnds'
<1> SUFFICES ASSUME TypeOK, ResetEnds, [Next]_vars PROVE ResetEnds'
  OBVIOUS
<1>1. CASE Exit \/ UNCHANGED vars
  BY <1>1 DEF Exit, vars, kernel, ep0Vars, callerVars, ResetEnds
<1>2. CASE Host
  <2>1. UNCHANGED <<ep0, i, caller, cancelled>>
    BY <1>2 DEF Host, ep0Vars, callerVars
  <2>2. \A h : h \in Handles /\ bound[h] = None => bound'[h] = None
    BY <1>2 DEF Host, HostRequest, BusEvent
  <2>3. ep0 = "disable_out" => i + 1 \in Handles
    BY DEF TypeOK, Slots
  <2> QED BY <2>1, <2>2, <2>3 DEF ResetEnds
<1>3. CASE DisableIn /\ ~Exit
  <2>1. /\ bound' = [bound EXCEPT ![i + 1] = None] /\ i + 1 \in Handles
        /\ UNCHANGED <<i, callerVars>> /\ ep0 = "disable_in" /\ ep0' = "disable_out"
    BY <1>3 DEF DisableIn, DisableNumber, Ep0At
  <2>2. bound'[i + 1] = None
    BY <2>1 DEF TypeOK, KernelTypeOK
  <2> QED BY <2>1, <2>2 DEF ResetEnds, callerVars
<1>4. CASE DisableOut /\ ~Exit
  <2>1. bound[i + 1] # None /\ ep0 = "disable_out"
    BY <1>4 DEF DisableOut, DisableNumber, Ep0At
  <2> QED BY <2>1 DEF ResetEnds
<1>5. CASE Cancelled
  BY <1>5 DEF Cancelled, ResetEnds, callerVars
<1>6. CASE /\ ~Exit
           /\ \/ Fetch \/ FetchEvent \/ Connect \/ IgnoreEvent \/ BeginReset
              \/ Request \/ BeginConfiguration \/ EnableIn \/ EnableOut
              \/ SetEnabled \/ Configure \/ Reply
  <2>1. UNCHANGED <<caller, cancelled>> /\ ep0' \notin {"disable_out", "ended"}
    BY <1>6 DEF Fetch, FetchEvent, Connect, IgnoreEvent, BeginReset, Request,
                BeginConfiguration, EnableIn, EnableOut, EnableEndpoint, SetEnabled,
                Configure, Reply, callerVars
  <2> QED BY <2>1 DEF ResetEnds
<1>7. CASE Awaited \/ EndIo \/ CancelEp0 \/ CloseFd \/ \E k \in Slots : BeginIo(k)
  <2>1. UNCHANGED <<ep0, i, bound>>
    BY <1>7 DEF Awaited, EndIo, CancelEp0, CloseFd, BeginIo, ep0Vars, kernel
  <2> QED BY <1>7, <2>1 DEF Awaited, EndIo, CancelEp0, CloseFd, BeginIo, CallerAt, ResetEnds
<1> QED BY <1>1, <1>2, <1>3, <1>4, <1>5, <1>6, <1>7
        DEF Next, Ep0Step, Unknown, FetchFails
-----------------------------------------------------------------------------

(***************************************************************************)
(* The handles.                                                            *)
(***************************************************************************)

(* Guesses and endpoints correspond one to one. *)
LEMMA GuessType ==
  /\ \A e \in Endpoints :
       Guessed(e) \in 0 .. 2 * NumInterfaces - 1 /\ Guessed(e) \in Handles
  /\ \A s \in Slots : /\ <<s, "in">> \in Endpoints /\ Guessed(<<s, "in">>) = 2 * s
                      /\ <<s, "out">> \in Endpoints /\ Guessed(<<s, "out">>) = 2 * s + 1
BY DEF Guessed, Guess, Endpoints, Slots

LEMMA GuessInjective ==
  \A e, f \in Endpoints : Guessed(e) = Guessed(f) => e = f
BY DEF Guessed, Guess, Endpoints, Slots

LEMMA GuessOnto ==
  \A h \in 0 .. 2 * NumInterfaces - 1 : \E e \in Endpoints : Guessed(e) = h
<1> SUFFICES ASSUME NEW h \in 0 .. 2 * NumInterfaces - 1
             PROVE  \E e \in Endpoints : Guessed(e) = h
  OBVIOUS
<1>1. PICK s \in Slots : h = 2 * s \/ h = 2 * s + 1
  <2>1. h \div 2 \in Slots /\ (h = 2 * (h \div 2) \/ h = 2 * (h \div 2) + 1)
    BY DEF Slots
  <2> QED BY <2>1
<1> QED BY <1>1, GuessType

LEMMA EndpointNotNone == \A e \in Endpoints : e # None
OBVIOUS

(* The first endpoint that fits is the guessed one, as long as those       *)
(* before it are taken in order and it is free itself.                     *)
LEMMA FirstFitRight ==
  ASSUME TypeOK, GuessFits, NEW e \in Endpoints, NEW h \in FirstFit(e),
         Exactly(Guessed(e))
  PROVE  h = Guessed(e)
<1>1. h \in Fits[e] /\ h \in Handles /\ h \in Nat /\ bound[h] = None
  BY DEF FirstFit, Enableable
<1>2. bound[Guessed(e)] = None
  BY GuessType DEF Exactly
<1>3. h <= Guessed(e)
  BY <1>2 DEF FirstFit, Enableable, GuessFits
<1>4. ASSUME h < Guessed(e) PROVE FALSE
  <2>1. PICK f \in Endpoints : Guessed(f) = h
    BY <1>1, <1>4, GuessType, GuessOnto
  <2> QED BY <1>1, <1>4, <2>1, EndpointNotNone DEF Exactly, RightBelow
<1> QED BY <1>1, <1>3, <1>4, GuessType

(* Exactly, of any handle table. *)
InOrder(b, k) ==
  /\ \A e \in Endpoints : Guessed(e) < k => b[Guessed(e)] = e
  /\ \A h \in Handles : b[h] # None => h < k

(* What an EP_ENABLE keeps and what it adds. *)
LEMMA EnableKeeps ==
  ASSUME TypeOK, GuessFits, NEW e \in Endpoints, NEW h \in FirstFit(e), Enable(e, h)
  PROVE  /\ Configured => Configured' /\ NeverAnothers'
         /\ Exactly(Guessed(e)) => InOrder(bound', Guessed(e) + 1) /\ NeverAnothers'
<1>1. /\ h \in Handles /\ h \in Nat /\ bound[h] = None
      /\ bound' = [bound EXCEPT ![h] = e]
  BY DEF FirstFit, Enableable, Enable
<1>2. /\ bound'[h] = e
      /\ \A g \in Handles : g # h => bound'[g] = bound[g]
  BY <1>1 DEF TypeOK, KernelTypeOK
<1>3. ASSUME Configured PROVE Configured' /\ NeverAnothers'
  <2>1. \A f \in Endpoints : bound[Guessed(f)] = f /\ Guessed(f) # h
    BY <1>1, <1>3, GuessType, EndpointNotNone DEF Configured, RightBelow
  <2>2. \A f \in Endpoints : bound'[Guessed(f)] = f
    BY <1>2, <2>1, GuessType
  <2> QED BY <2>2, GuessType DEF Configured, RightBelow, NeverAnothers
<1>4. ASSUME Exactly(Guessed(e)) PROVE InOrder(bound', Guessed(e) + 1) /\ NeverAnothers'
  <2>1. h = Guessed(e)
    BY <1>4, FirstFitRight
  <2>2. \A f \in Endpoints : Guessed(f) < Guessed(e) + 1 => bound'[Guessed(f)] = f
    <3> SUFFICES ASSUME NEW f \in Endpoints, Guessed(f) < Guessed(e) + 1
                 PROVE  bound'[Guessed(f)] = f
      OBVIOUS
    <3>1. CASE f = e
      BY <1>2, <2>1, <3>1
    <3>2. CASE f # e
      <4>1. Guessed(f) # Guessed(e) /\ Guessed(f) < Guessed(e) /\ Guessed(f) \in Handles
        BY <3>2, GuessInjective, GuessType
      <4> QED BY <1>2, <1>4, <2>1, <4>1 DEF Exactly, RightBelow
    <3> QED BY <3>1, <3>2
  <2>3. \A g \in Handles : bound'[g] # None => g < Guessed(e) + 1
    <3> SUFFICES ASSUME NEW g \in Handles, bound'[g] # None, g # h
                 PROVE  g < Guessed(e) + 1
      BY <2>1, GuessType
    <3>1. g < Guessed(e) /\ g \in Nat
      BY <1>2, <1>4 DEF Exactly
    <3> QED BY <3>1, GuessType
  <2>4. \A f \in Endpoints : bound'[Guessed(f)] \in {f, None}
    BY <2>2, <2>3, GuessType
  <2> QED BY <2>2, <2>3, <2>4 DEF InOrder, NeverAnothers
<1> QED BY <1>3, <1>4

HandlesInv == HandlesInOrder /\ NeverAnothers

LEMMA SameHandles ==
  ASSUME UNCHANGED bound
  PROVE  /\ Configured' <=> Configured
         /\ NeverAnothers' <=> NeverAnothers
         /\ Exactly(0)' <=> Exactly(0)
         /\ UNCHANGED i => /\ Exactly(2 * i)' <=> Exactly(2 * i)
                           /\ Exactly(2 * i + 1)' <=> Exactly(2 * i + 1)
BY DEF Configured, NeverAnothers, Exactly, RightBelow, Guessed, Guess

(* Between events, and through the steps of a request that enable nothing. *)
LEMMA QuietStep ==
  ASSUME TypeOK, HandlesInv, UNCHANGED bound,
         \/ UNCHANGED <<ep0, i, ep_int_enabled>>
         \/ /\ {ep0, ep0'} \subseteq {"fetch", "wait", "handle", "disable_in", "reply"}
            /\ UNCHANGED ep_int_enabled
         \/ ep0' = "ended"
  PROVE  HandlesInv'
BY SameHandles DEF HandlesInv, HandlesInOrder

LEMMA EnableInStep ==
  ASSUME TypeOK, GuessFits, HandlesInv, EnableIn
  PROVE  HandlesInv'
<1>1. CASE Exit
  BY <1>1, QuietStep DEF Exit, kernel, ep0Vars
<1>2. CASE ~Exit
  <2> DEFINE e == <<i, "in">>
  <2>1. /\ i \in Slots /\ e \in Endpoints /\ Guessed(e) = 2 * i
        /\ ep0 = "enable_in" /\ (Configured \/ Exactly(Guessed(e)))
    BY GuessType DEF EnableIn, Ep0At, TypeOK, HandlesInv, HandlesInOrder
  <2>2. PICK h \in FirstFit(e) : Enable(e, h)
    BY <1>2 DEF EnableIn, EnableEndpoint
  <2>3. /\ ep0' = "enable_out" /\ UNCHANGED <<i, ep_int_enabled>>
        /\ UNCHANGED <<fdOpen, events, control>>
    BY <1>2 DEF EnableIn, EnableEndpoint
  <2>4. /\ Configured => Configured'
        /\ Configured' \/ InOrder(bound', 2 * i + 1)
        /\ NeverAnothers'
    BY <2>1, <2>2, EnableKeeps
  <2>5. ep_int_enabled => Configured
    BY <2>1 DEF HandlesInv, HandlesInOrder
  <2>6. InOrder(bound', 2 * i + 1) => Exactly(2 * i + 1)'
    BY <2>3 DEF Exactly, RightBelow, InOrder
  <2> QED BY <2>3, <2>4, <2>5, <2>6 DEF HandlesInv, HandlesInOrder
<1> QED BY <1>1, <1>2

LEMMA EnableOutStep ==
  ASSUME TypeOK, GuessFits, HandlesInv, EnableOut
  PROVE  HandlesInv'
<1>1. CASE Exit
  BY <1>1, QuietStep DEF Exit, kernel, ep0Vars
<1>2. CASE ~Exit
  <2> DEFINE e == <<i, "out">>
  <2>1. /\ i \in Slots /\ e \in Endpoints /\ Guessed(e) = 2 * i + 1
        /\ ep0 = "enable_out" /\ (Configured \/ Exactly(Guessed(e)))
    BY GuessType DEF EnableOut, Ep0At, TypeOK, HandlesInv, HandlesInOrder
  <2>2. PICK h \in FirstFit(e) : Enable(e, h)
    BY <1>2 DEF EnableOut, EnableEndpoint
  <2>3. /\ i' = i + 1 /\ UNCHANGED ep_int_enabled
        /\ ep0' = IF i + 1 < NumInterfaces THEN "enable_in" ELSE "enabled"
    BY <1>2 DEF EnableOut, EnableEndpoint
  <2>4. /\ Configured => Configured'
        /\ Configured' \/ InOrder(bound', 2 * i + 2)
        /\ NeverAnothers'
    <3>1. Guessed(e) + 1 = 2 * i + 2
      BY <2>1 DEF Slots
    <3> HIDE DEF e
    <3> QED BY <2>1, <2>2, <3>1, EnableKeeps
  <2>5. ep_int_enabled => Configured
    BY <2>1 DEF HandlesInv, HandlesInOrder
  <2>6. i + 1 < NumInterfaces \/ i' = NumInterfaces
    BY <2>1, <2>3 DEF Slots
  <2>7. 2 * i' = 2 * i + 2
    BY <2>1, <2>3 DEF Slots
  <2>8. InOrder(bound', 2 * i + 2) => Exactly(2 * i)'
    BY <2>7 DEF Exactly, RightBelow, InOrder
  <2>9. i' = NumInterfaces /\ InOrder(bound', 2 * i + 2) => Configured'
    BY <2>7 DEF Configured, RightBelow, InOrder
  <2> QED BY <2>3, <2>4, <2>5, <2>6, <2>8, <2>9 DEF HandlesInv, HandlesInOrder
<1> QED BY <1>1, <1>2

LEMMA HandlesStep ==
  ASSUME GuessFits, ~ResetDisables, TypeOK, ResetEnds, HandlesInv, [Next]_vars
  PROVE  HandlesInv'
<1>1. CASE Exit \/ UNCHANGED vars
  BY <1>1, QuietStep DEF Exit, vars, kernel, ep0Vars
<1>2. CASE Host
  BY <1>2, QuietStep DEF Host, HostRequest, BusEvent, ep0Vars
<1>3. CASE /\ ~Exit
           /\ \/ Fetch \/ FetchEvent \/ Connect \/ IgnoreEvent \/ BeginReset
              \/ Request \/ Reply
  <2>1. /\ {ep0, ep0'} \subseteq {"fetch", "wait", "handle", "disable_in", "reply"}
        /\ UNCHANGED <<bound, ep_int_enabled>>
    BY <1>3 DEF Fetch, FetchEvent, Connect, IgnoreEvent, BeginReset, Request, Reply,
                Ep0At, kernel
  <2> QED BY <2>1, QuietStep
<1>4. CASE BeginConfiguration
  <2>1. /\ ep0 = "handle" /\ ep0' = "enable_in" /\ i' = 0
        /\ UNCHANGED <<bound, ep_int_enabled>>
    BY <1>4 DEF BeginConfiguration, Ep0At, kernel
  <2>2. Exactly(0) => Exactly(2 * i)'
    BY <2>1 DEF Exactly, RightBelow, Guessed, Guess
  <2> QED BY <2>1, <2>2, SameHandles DEF HandlesInv, HandlesInOrder
<1>5. CASE ~Exit /\ (SetEnabled \/ Configure)
  <2>1. /\ ep0 \in {"enabled", "configure"} /\ ep0' \in {"configure", "reply"}
        /\ UNCHANGED bound
    BY <1>5 DEF SetEnabled, Configure, Ep0At, kernel
  <2> QED BY <2>1, SameHandles DEF HandlesInv, HandlesInOrder
<1>6. CASE EnableIn \/ EnableOut
  BY <1>6, EnableInStep, EnableOutStep
<1>7. CASE DisableIn /\ ~Exit
  <2>1. /\ bound' = [bound EXCEPT ![i + 1] = None] /\ ep0' = "disable_out"
    BY <1>7 DEF DisableIn, DisableNumber
  <2>2. \A e \in Endpoints : bound'[Guessed(e)] \in {bound[Guessed(e)], None}
    BY <2>1, GuessType DEF TypeOK, KernelTypeOK
  <2> QED BY <2>1, <2>2 DEF HandlesInv, HandlesInOrder, NeverAnothers, Guessed, Guess
<1>8. CASE DisableOut /\ ~Exit
  BY <1>8 DEF DisableOut, DisableNumber, Ep0At, ResetEnds
<1>9. CASE Cancelled
  BY <1>9, QuietStep DEF Cancelled, kernel
<1>10. CASE Awaited \/ EndIo \/ CancelEp0 \/ CloseFd \/ \E k \in Slots : BeginIo(k)
  BY <1>10, QuietStep DEF Awaited, EndIo, CancelEp0, CloseFd, BeginIo, kernel, ep0Vars
<1> QED BY <1>1, <1>2, <1>3, <1>4, <1>5, <1>6, <1>7, <1>8, <1>9, <1>10
        DEF Next, Ep0Step, Unknown, FetchFails

LEMMA InvInit == Init => IInv
<1> SUFFICES ASSUME Init PROVE IInv
  OBVIOUS
<1>1. \A h \in Handles : bound[h] = None
  BY DEF Init, KernelInit
<1>2. Exactly(0) /\ NeverAnothers
  BY <1>1, GuessType DEF Exactly, RightBelow, NeverAnothers
<1> QED BY <1>2, TypeInit
        DEF Init, KernelInit, IInv, AnswerOwed, ResetEnds, HandlesInOrder

LEMMA Inductive == Spec => []IInv
<1>1. IInv /\ [Next]_vars => IInv'
  BY TypeStep, AnswerStep, ResetStep, HandlesStep DEF IInv, HandlesInv, GuessFits, Guessed, Guess
<1> QED BY <1>1, InvInit, PTL DEF Spec

(* Whatever the host asks, ep0 has answered it or ended the process before *)
(* it waits for the next event (360-w-gadget.c:20-215).                    *)
THEOREM EveryRequestAnswered == Spec => []Answered
<1>1. IInv => Answered
  BY DEF IInv, AnswerOwed, Answered
<1> QED BY <1>1, Inductive, PTL

(* Where a handle can serve the endpoint it is guessed for and a reset     *)
(* leaves endpoints enabled, the guesses of send_to_ep and receive_from_ep *)
(* are right while the flag is up: with any number of interfaces, of spare *)
(* handles and of configurations (360-w-gadget.c:282-345).                 *)
THEOREM GuessesRight ==
  ASSUME GuessFits, ~ResetDisables
  PROVE  Spec => []GuessIsRight
<1>1. IInv => GuessIsRight
  <2> SUFFICES ASSUME IInv, ep_int_enabled, ~cancelled,
                      ep0 \notin {"disable_in", "disable_out"}, NEW s \in Slots
               PROVE  /\ bound[Guess(s, "write")] = <<s, "in">>
                      /\ bound[Guess(s, "read")] = <<s, "out">>
    BY DEF GuessIsRight
  <2>1. Configured
    BY DEF IInv, HandlesInOrder, ResetEnds
  <2>2. \A e \in Endpoints : bound[Guessed(e)] = e
    BY <2>1, GuessType DEF Configured, RightBelow
  <2> QED BY <2>2, GuessType DEF Guessed, Guess
<1> QED BY <1>1, Inductive, PTL

(* A report is never sent to or received from another controller's         *)
(* endpoint, however many resets come between the test of the flag and     *)
(* the ioctl (360-w-gadget.c:282-345).                                     *)
THEOREM NeverMisdirected ==
  ASSUME GuessFits, FixedAddress \/ ~ResetDisables
  PROVE  Spec => []NotMisdirected
<1>1. IInv => NotMisdirected
  <2> SUFFICES ASSUME IInv PROVE NotMisdirected
    OBVIOUS
  <2>1. NeverAnothers
    <3>1. CASE FixedAddress
      <4> SUFFICES ASSUME NEW e \in Endpoints, bound[Guessed(e)] # None
                   PROVE  bound[Guessed(e)] = e
        BY DEF NeverAnothers
      <4>1. /\ Guessed(e) \in Fits[e] /\ Guessed(e) \in Handles
            /\ bound[Guessed(e)] \in Endpoints
            /\ Guessed(e) \in Fits[bound[Guessed(e)]]
        BY GuessType DEF GuessFits, IInv, TypeOK, KernelTypeOK
      <4> QED BY <3>1, <4>1 DEF FixedAddress
    <3>2. CASE ~ResetDisables
      BY <3>2 DEF IInv
    <3> QED BY <3>1, <3>2
  <2>2. n \in Slots
    BY DEF IInv, TypeOK
  <2> QED BY <2>1, <2>2, GuessType DEF NeverAnothers, NotMisdirected, Guessed, Guess
<1> QED BY <1>1, Inductive, PTL
=============================================================================
