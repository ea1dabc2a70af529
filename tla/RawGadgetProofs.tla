--------------------------- MODULE RawGadgetProofs ---------------------------
(* Lemmas about the kernel side that the proofs of its clients share. *)
EXTENDS RawGadget, TLAPS

USE NumInterfacesAssumption, FitsAssumption, NoneAssumption, HostAssumption

LEMMA SlotZero == 0 \in Slots
BY DEF Slots

(* The kernel's Handles, Endpoints and Fits fit together. *)
LEMMA EnableType ==
  ASSUME KernelTypeOK, NEW e \in Endpoints, NEW h \in Enableable(e), Enable(e, h)
  PROVE  /\ h \in Handles /\ h \in Fits[e] /\ bound[h] = None
         /\ bound' \in [Handles -> Endpoints \cup {None}]
         /\ \A g \in Handles : bound'[g] # None => g \in Fits[bound'[g]]
<1>1. h \in Fits[e] /\ h \in Handles /\ bound[h] = None
  BY DEF Enableable
<1>2. bound' \in [Handles -> Endpoints \cup {None}]
  BY <1>1 DEF KernelTypeOK, Enable
<1>3. ASSUME NEW g \in Handles, bound'[g] # None
      PROVE  g \in Fits[bound'[g]]
  BY <1>1, <1>3 DEF KernelTypeOK, Enable
<1> QED BY <1>1, <1>2, <1>3

(* What the host does leaves the kernel's state in its types. *)
LEMMA HostKernelType ==
  ASSUME KernelTypeOK,
         (\E r \in HostRequests : HostRequest(r)) \/ (\E b \in BusEvents : BusEvent(b))
  PROVE  KernelTypeOK'
<1>1. CASE \E r \in HostRequests : HostRequest(r)
  <2>1. PICK r \in HostRequests : HostRequest(r)
    BY <1>1
  <2>2. r \in Requests /\ Direction(r) \subseteq {"in", "out"}
    BY DEF Direction
  <2> QED BY <2>1, <2>2 DEF HostRequest, KernelTypeOK
<1>2. CASE \E b \in BusEvents : BusEvent(b)
  <2>1. PICK b \in BusEvents : BusEvent(b)
    BY <1>2
  <2>2. b \in Resets \cup Notices
    OBVIOUS
  <2> QED BY <2>1, <2>2 DEF BusEvent, KernelTypeOK
<1> QED BY <1>1, <1>2
-----------------------------------------------------------------------------

(* What waits in the event queue. *)
Queueable == Requests \cup Resets \cup Notices

(* An element of a queue is still there after an Append, and after a Tail  *)
(* unless it was the head.                                                 *)
LEMMA StaysQueued ==
  ASSUME NEW q \in Seq(Queueable), NEW k \in 1 .. Len(q), NEW e \in Queueable
  PROVE  \E l \in 1 .. Len(Append(q, e)) : Append(q, e)[l] = q[k]
OBVIOUS

LEMMA LastQueued ==
  ASSUME NEW q \in Seq(Queueable), NEW e \in Queueable
  PROVE  \E l \in 1 .. Len(Append(q, e)) : Append(q, e)[l] = e
<1>1. Len(q) + 1 \in 1 .. Len(Append(q, e)) /\ Append(q, e)[Len(q) + 1] = e
  OBVIOUS
<1> QED BY <1>1

LEMMA HeadOrTail ==
  ASSUME NEW q \in Seq(Queueable), NEW k \in 1 .. Len(q)
  PROVE  q[k] = Head(q) \/ \E l \in 1 .. Len(Tail(q)) : Tail(q)[l] = q[k]
<1>1. CASE k = 1
  BY <1>1
<1>2. CASE k # 1
  <2>1. k - 1 \in 1 .. Len(Tail(q)) /\ Tail(q)[k - 1] = q[k]
    BY <1>2
  <2> QED BY <2>1
<1> QED BY <1>1, <1>2
=============================================================================
