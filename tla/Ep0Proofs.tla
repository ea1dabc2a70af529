------------------------------ MODULE Ep0Proofs ------------------------------
(* Proofs about Ep0, for every number of slots, threads and handles. *)
EXTENDS Ep0, RawGadgetProofs

USE NumInterfacesAssumption, FitsAssumption, NoneAssumption, HostAssumption,
    FetchErrorsAssumption, ThreadsAssumption

LEMMA TypeInit == Init => TypeOK
<1> SUFFICES ASSUME Init PROVE TypeOK
  OBVIOUS
<1>1. KernelTypeOK
  BY DEF Init, KernelInit, KernelTypeOK
<1>2. 0 \in 0 .. NumInterfaces
  OBVIOUS
<1> QED BY <1>1, <1>2, SlotZero DEF Init, TypeOK, NoHandles

LEMMA SpawnType ==
  ASSUME TypeOK, NEW s \in Slots, NEW h \in Handles, Spawn(s, h)
  PROVE  reader' \in [Threads -> (Slots \X Handles) \cup {None}]
BY DEF TypeOK, Spawn

LEMMA HostType ==
  ASSUME TypeOK, Host
  PROVE  TypeOK'
BY HostKernelType DEF Host, TypeOK, shared, ep0Vars, callerVars

LEMMA TypeStep == TypeOK /\ [Next]_vars => TypeOK'
<1> SUFFICES ASSUME TypeOK, [Next]_vars PROVE TypeOK'
  OBVIOUS
<1> USE DEF TypeOK, KernelTypeOK, kernel, shared, ep0Vars, callerVars
<1>1. CASE Fetch
  BY <1>1 DEF Fetch
<1>2. CASE FetchClosed
  BY <1>2 DEF FetchClosed
<1>3. CASE FetchEvent
  BY <1>3 DEF FetchEvent
<1>4. CASE IgnoreEvent
  BY <1>4 DEF IgnoreEvent
<1>5. CASE ClearEndpoints
  BY <1>5 DEF ClearEndpoints, NoHandles
<1>6. CASE Reply
  BY <1>6 DEF Reply, Ep0Io, Ep0IoOk
<1>7. CASE BeginConfiguration
  BY <1>7, SlotZero DEF BeginConfiguration, Slots
<1>8. ASSUME NEW h \in Handles, EnableInOk(h) PROVE TypeOK'
  BY <1>8, EnableType DEF EnableInOk, Endpoints
<1>9. ASSUME NEW h \in Handles, EnableOutOk(h) PROVE TypeOK'
  <2>1. i \in Slots /\ <<i, "out">> \in Endpoints /\ h \in Enableable(<<i, "out">>)
    BY <1>9 DEF EnableOutOk, Endpoints
  <2>2. KernelTypeOK'
    BY <1>9, <2>1, EnableType DEF EnableOutOk
  <2>3. reader' \in [Threads -> (Slots \X Handles) \cup {None}]
    BY <1>9, <2>1, SpawnType DEF EnableOutOk
  <2>4. /\ i' \in 0 .. NumInterfaces
        /\ ep0' \in {"enable_in", "ack"}
        /\ ep0' = "enable_in" => i' \in Slots
    BY <1>9, <2>1 DEF EnableOutOk, NextSlot, Slots
  <2> QED BY <1>9, <2>1, <2>2, <2>3, <2>4 DEF EnableOutOk
<1>10. CASE EnableInFail
  BY <1>10 DEF EnableInFail
<1>11. CASE EnableOutFail
  BY <1>11 DEF EnableOutFail, NextSlot, Slots
<1>12. CASE Ack
  BY <1>12 DEF Ack, Ep0Io, Ep0IoOk
<1>13. CASE Publish
  BY <1>13 DEF Publish, Slots
<1>14. ASSUME NEW errno \in FetchErrors, FetchError(errno) PROVE TypeOK'
  BY <1>14 DEF FetchError
<1>15. ASSUME NEW t \in Threads, ReaderExit(t) PROVE TypeOK'
  BY <1>15 DEF ReaderExit
<1>16. CASE WaitReady
  BY <1>16 DEF WaitReady
<1>17. CASE Check
  BY <1>17 DEF Check
<1>18. CASE SpuriousWake
  BY <1>18 DEF SpuriousWake
<1>19. ASSUME NEW s \in Slots, LookupHandle(s) PROVE TypeOK'
  BY <1>19 DEF LookupHandle
<1>20. CASE EpWriteReturns
  <2>1. caller' = "idle" /\ wslot' = 0 /\ handle' = None
    BY <1>20 DEF EpWriteReturns
  <2>2. UNCHANGED <<kernel, shared, lock, ep0Vars, reader>>
    BY <1>20 DEF EpWriteReturns
  <2> QED BY <2>1, <2>2, SlotZero
<1>21. CASE CloseFd
  <2>1. /\ fdOpen' = FALSE /\ caller' = "joining"
        /\ UNCHANGED <<bound, events, control, shared, lock, ep0Vars, reader, wslot, handle>>
    BY <1>21 DEF CloseFd
  <2>2. KernelTypeOK'
    BY <2>1
  <2>3. /\ UNCHANGED <<ep_in, ep_out, ready, lock, ep0, i, event, reader, wslot, handle>>
        /\ caller' = "joining"
    BY <2>1
  <2> QED BY <2>2, <2>3
<1>22. CASE Join
  BY <1>22 DEF Join
<1>23. CASE Host
  BY <1>23, HostType
<1>24. CASE UNCHANGED vars
  BY <1>24 DEF vars
<1> QED
  BY <1>1, <1>2, <1>3, <1>4, <1>5, <1>6, <1>7, <1>8, <1>9, <1>10, <1>11, <1>12,
     <1>13, <1>14, <1>15, <1>16, <1>17, <1>18, <1>19, <1>20, <1>21, <1>22, <1>23,
     <1>24 DEF Next, Ep0Step, CallerStep

(* Every variable stays in its type, the slot of the endpoint loop within  *)
(* the configured slots (transport_hw.rs:333).                             *)
THEOREM TypeCorrect == Spec => []TypeOK
<1>1. Init => TypeOK
  BY TypeInit
<1>2. TypeOK /\ [Next]_vars => TypeOK'
  BY TypeStep
<1> QED BY <1>1, <1>2, PTL DEF Spec
-----------------------------------------------------------------------------

(***************************************************************************)
(* The mutex and the table.                                                *)
(***************************************************************************)

LEMMA LockStep == TypeOK /\ LockInv /\ [Next]_vars => LockInv'
<1> SUFFICES ASSUME TypeOK, LockInv, [Next]_vars PROVE LockInv'
  OBVIOUS
<1> USE DEF TypeOK, LockInv, ep0Vars
<1>1. CASE Fetch \/ FetchClosed \/ FetchEvent \/ IgnoreEvent \/ ClearEndpoints \/ Reply
  BY <1>1 DEF Fetch, FetchClosed, FetchEvent, IgnoreEvent, ClearEndpoints, Reply
<1>2. CASE BeginConfiguration \/ Ack \/ Publish
  BY <1>2 DEF BeginConfiguration, Ack, Publish
<1>3. CASE \/ \E h \in Handles : EnableInOk(h) \/ EnableOutOk(h)
           \/ EnableInFail \/ EnableOutFail
  BY <1>3 DEF EnableInOk, EnableOutOk, EnableInFail, EnableOutFail, NextSlot
<1>4. CASE \/ \E errno \in FetchErrors : FetchError(errno)
           \/ \E t \in Threads : ReaderExit(t)
  BY <1>4 DEF FetchError, ReaderExit
<1>5. CASE CallerStep
  BY <1>5 DEF CallerStep, WaitReady, Check, SpuriousWake, LookupHandle,
              EpWriteReturns, CloseFd, Join
<1>6. CASE Host
  BY <1>6 DEF Host
<1>7. CASE UNCHANGED vars
  BY <1>7 DEF vars
<1> QED BY <1>1, <1>2, <1>3, <1>4, <1>5, <1>6, <1>7 DEF Next, Ep0Step

LEMMA PublishedStep ==
  TypeOK /\ LockInv /\ TablePublished /\ [Next]_vars => TablePublished'
<1> SUFFICES ASSUME TypeOK, LockInv, TablePublished, [Next]_vars
             PROVE  TablePublished'
  OBVIOUS
<1> USE DEF TablePublished, NoHandles, shared
<1>1. CASE \/ \E h \in Handles : EnableInOk(h) \/ EnableOutOk(h)
           \/ BeginConfiguration
  <2>1. lock' = "ep0"
    BY <1>1 DEF LockInv, EnableInOk, EnableOutOk, BeginConfiguration
  <2> QED BY <2>1
<1>2. CASE ClearEndpoints \/ Publish
  BY <1>2 DEF ClearEndpoints, Publish
<1>3. CASE UNCHANGED <<shared, lock>>
  BY <1>3
<1>4. \/ \E h \in Handles : EnableInOk(h) \/ EnableOutOk(h)
      \/ BeginConfiguration \/ ClearEndpoints \/ Publish
      \/ UNCHANGED <<shared, lock>>
  BY DEF Next, Ep0Step, CallerStep, Fetch, FetchClosed, FetchEvent, IgnoreEvent,
         Reply, EnableInFail, EnableOutFail, Ack, FetchError, ReaderExit,
         WaitReady, Check, SpuriousWake, LookupHandle, EpWriteReturns, CloseFd,
         Join, Host, vars
<1> QED BY <1>1, <1>2, <1>3, <1>4

(***************************************************************************)
(* The handles.  Most actions leave alone every variable the two invariants *)
(* mention, or only take something away.                                   *)
(***************************************************************************)

LEMMA EntryAfterIn ==
  ASSUME TypeOK, NEW h \in Handles, EnableInOk(h), NEW e \in Endpoints
  PROVE  Entry(e)' = IF e = <<i, "in">> THEN h ELSE Entry(e)
BY DEF TypeOK, EnableInOk, Entry, Endpoints

LEMMA EntryAfterOut ==
  ASSUME TypeOK, NEW h \in Handles, EnableOutOk(h), NEW e \in Endpoints
  PROVE  Entry(e)' = IF e = <<i, "out">> THEN h ELSE Entry(e)
BY DEF TypeOK, EnableOutOk, Entry, Endpoints

LEMMA EntryType ==
  ASSUME TypeOK, NEW e \in Endpoints
  PROVE  Entry(e) \in Handles \cup {None}
BY DEF TypeOK, Entry, Endpoints

(* What a step can do to the things the two invariants are about. *)
Quiet == UNCHANGED <<bound, ep_in, ep_out, reader, callerVars>>

CallerMoves ==
  /\ UNCHANGED <<bound, ep_in, ep_out, reader>>
  /\ \/ caller' # "write"
     \/ UNCHANGED callerVars
     \/ \E s \in Slots : /\ ep_in[s] # None /\ caller' = "write"
                         /\ wslot' = s /\ handle' = ep_in[s]

BusMoves ==
  /\ UNCHANGED <<ep_in, ep_out, reader, callerVars>>
  /\ ~ResetDisables => UNCHANGED bound

LEMMA StepKinds ==
  ASSUME TypeOK, [Next]_vars
  PROVE  \/ Quiet \/ CallerMoves \/ BusMoves \/ ClearEndpoints
         \/ \E h \in Handles : EnableInOk(h) \/ EnableOutOk(h)
         \/ \E t \in Threads : ReaderExit(t)
<1> USE DEF kernel, shared, callerVars
<1>1. CASE Fetch \/ FetchClosed \/ FetchEvent \/ IgnoreEvent \/ Reply
           \/ BeginConfiguration \/ EnableInFail \/ EnableOutFail \/ Ack
           \/ (\E errno \in FetchErrors : FetchError(errno)) \/ UNCHANGED vars
  BY <1>1 DEF Quiet, Fetch, FetchClosed, FetchEvent, IgnoreEvent, Reply,
              BeginConfiguration, EnableInFail, EnableOutFail, Ack, FetchError, vars
<1>2. CASE Publish
  <2>1. caller' # "write" \/ UNCHANGED callerVars
    BY <1>2 DEF Publish
  <2> QED BY <1>2, <2>1 DEF Publish, CallerMoves
<1>3. CASE WaitReady \/ Check \/ SpuriousWake \/ EpWriteReturns \/ CloseFd \/ Join
  BY <1>3 DEF CallerMoves, WaitReady, Check, SpuriousWake, EpWriteReturns, CloseFd, Join
<1>4. CASE \E s \in Slots : LookupHandle(s)
  BY <1>4 DEF CallerMoves, LookupHandle
<1>5. CASE Host
  BY <1>5 DEF BusMoves, Host, HostRequest, BusEvent
<1> QED BY <1>1, <1>2, <1>3, <1>4, <1>5 DEF Next, Ep0Step, CallerStep

LEMMA FitStep == TypeOK /\ HandlesFit /\ [Next]_vars => HandlesFit'
<1> SUFFICES ASSUME TypeOK, HandlesFit, [Next]_vars PROVE HandlesFit'
  OBVIOUS
<1>1. CASE Quiet \/ BusMoves
  BY <1>1 DEF Quiet, BusMoves, HandlesFit, Entry, callerVars
<1>2. CASE CallerMoves
  <2>1. ASSUME NEW s \in Slots, ep_in[s] # None PROVE ep_in[s] \in Fits[<<s, "in">>]
    <3>1. <<s, "in">> \in Endpoints /\ Entry(<<s, "in">>) = ep_in[s]
      BY DEF Endpoints, Entry
    <3> QED BY <2>1, <3>1 DEF HandlesFit
  <2>2. caller' = "write" => handle' \in Fits[<<wslot', "in">>]
    BY <1>2, <2>1 DEF CallerMoves, HandlesFit, callerVars
  <2>3. UNCHANGED <<ep_in, ep_out, reader>>
    BY <1>2 DEF CallerMoves
  <2> QED BY <2>2, <2>3 DEF HandlesFit, Entry
<1>3. CASE ClearEndpoints
  <2>1. \A e \in Endpoints : Entry(e)' = None
    BY <1>3 DEF ClearEndpoints, NoHandles, Entry, Endpoints
  <2> QED BY <1>3, <2>1 DEF ClearEndpoints, HandlesFit, callerVars
<1>4. ASSUME NEW h \in Handles, EnableInOk(h) PROVE HandlesFit'
  <2>1. h \in Fits[<<i, "in">>]
    BY <1>4 DEF EnableInOk, Enableable
  <2>2. \A e \in Endpoints : Entry(e)' # None => Entry(e)' \in Fits[e]
    BY <1>4, <2>1, EntryAfterIn DEF HandlesFit
  <2> QED BY <1>4, <2>2 DEF EnableInOk, HandlesFit, callerVars
<1>5. ASSUME NEW h \in Handles, EnableOutOk(h) PROVE HandlesFit'
  <2>1. h \in Fits[<<i, "out">>] /\ i \in Slots
    BY <1>5 DEF EnableOutOk, Enableable, TypeOK
  <2>2. \A e \in Endpoints : Entry(e)' # None => Entry(e)' \in Fits[e]
    BY <1>5, <2>1, EntryAfterOut DEF HandlesFit
  <2>3. \A t \in Threads :
          reader'[t] # None => reader'[t][2] \in Fits[<<reader'[t][1], "out">>]
    BY <1>5, <2>1 DEF EnableOutOk, Spawn, HandlesFit, TypeOK
  <2> QED BY <1>5, <2>2, <2>3 DEF EnableOutOk, HandlesFit, callerVars
<1>6. ASSUME NEW t \in Threads, ReaderExit(t) PROVE HandlesFit'
  <2>1. \A u \in Threads : reader'[u] # None => reader'[u] = reader[u]
    BY <1>6 DEF ReaderExit, TypeOK
  <2>2. UNCHANGED <<ep_in, ep_out, callerVars>>
    BY <1>6 DEF ReaderExit, shared
  <2> QED BY <2>1, <2>2 DEF HandlesFit, Entry, callerVars
<1> QED BY <1>1, <1>2, <1>3, <1>4, <1>5, <1>6, StepKinds

(* EP_ENABLE hands out only handles nothing is enabled on, and nothing the *)
(* program keeps is such a handle.                                         *)
LEMMA LiveStep ==
  ~ResetDisables /\ TypeOK /\ HandlesLive /\ [Next]_vars => HandlesLive'
<1> SUFFICES ASSUME ~ResetDisables, TypeOK, HandlesLive, [Next]_vars
             PROVE  HandlesLive'
  OBVIOUS
<1>0. \A t \in Threads : reader[t] # None => reader[t] \in Slots \X Handles
  BY DEF TypeOK
<1>1. CASE Quiet \/ BusMoves
  BY <1>1 DEF Quiet, BusMoves, HandlesLive, Entry, callerVars
<1>2. CASE CallerMoves
  <2>1. ASSUME NEW s \in Slots, ep_in[s] # None PROVE bound[ep_in[s]] = <<s, "in">>
    <3>1. <<s, "in">> \in Endpoints /\ Entry(<<s, "in">>) = ep_in[s]
      BY DEF Endpoints, Entry
    <3> QED BY <2>1, <3>1 DEF HandlesLive
  <2>2. caller' = "write" => bound'[handle'] = <<wslot', "in">>
    BY <1>2, <2>1 DEF CallerMoves, HandlesLive, callerVars
  <2>3. UNCHANGED <<bound, ep_in, ep_out, reader>>
    BY <1>2 DEF CallerMoves
  <2> QED BY <2>2, <2>3 DEF HandlesLive, Entry
<1>3. CASE ClearEndpoints
  <2>1. \A e \in Endpoints : Entry(e)' = None
    BY <1>3 DEF ClearEndpoints, NoHandles, Entry, Endpoints
  <2> QED BY <1>3, <2>1 DEF ClearEndpoints, HandlesLive, callerVars, kernel
<1>4. ASSUME NEW h \in Handles, EnableInOk(h) PROVE HandlesLive'
  <2>1. /\ bound[h] = None /\ bound' = [bound EXCEPT ![h] = <<i, "in">>]
        /\ UNCHANGED <<ep_out, reader, callerVars>>
    BY <1>4 DEF EnableInOk, Enableable, Enable
  <2>2. \A g \in Handles : bound[g] # None => bound'[g] = bound[g]
    BY <2>1 DEF TypeOK, KernelTypeOK
  <2>3. bound'[h] = <<i, "in">>
    BY <2>1 DEF TypeOK, KernelTypeOK
  <2>4. ASSUME NEW e \in Endpoints, Entry(e)' # None PROVE bound'[Entry(e)'] = e
    <3>1. CASE e = <<i, "in">>
      BY <3>1, <1>4, <2>3, EntryAfterIn
    <3>2. CASE e # <<i, "in">>
      <4>1. Entry(e)' = Entry(e) /\ Entry(e) \in Handles
        BY <3>2, <1>4, <2>4, EntryAfterIn, EntryType
      <4>2. bound[Entry(e)] = e /\ e # None
        BY <4>1, <2>4 DEF HandlesLive
      <4> QED BY <4>1, <4>2, <2>2
    <3> QED BY <3>1, <3>2
  <2>5. caller' = "write" => bound'[handle'] = <<wslot', "in">>
    BY <2>1, <2>2 DEF HandlesLive, callerVars, TypeOK, Endpoints
  <2>6. \A t \in Threads :
          reader'[t] # None => bound'[reader'[t][2]] = <<reader'[t][1], "out">>
    BY <1>0, <2>1, <2>2 DEF HandlesLive, Endpoints
  <2> QED BY <2>1, <2>4, <2>5, <2>6 DEF HandlesLive
<1>5. ASSUME NEW h \in Handles, EnableOutOk(h) PROVE HandlesLive'
  <2>1. /\ bound[h] = None /\ bound' = [bound EXCEPT ![h] = <<i, "out">>]
        /\ Spawn(i, h) /\ i \in Slots
        /\ UNCHANGED <<ep_in, callerVars>>
    BY <1>5 DEF EnableOutOk, Enableable, Enable, TypeOK
  <2>2. \A g \in Handles : bound[g] # None => bound'[g] = bound[g]
    BY <2>1 DEF TypeOK, KernelTypeOK
  <2>3. bound'[h] = <<i, "out">>
    BY <2>1 DEF TypeOK, KernelTypeOK
  <2>4. ASSUME NEW e \in Endpoints, Entry(e)' # None PROVE bound'[Entry(e)'] = e
    <3>1. CASE e = <<i, "out">>
      BY <3>1, <1>5, <2>3, EntryAfterOut
    <3>2. CASE e # <<i, "out">>
      <4>1. Entry(e)' = Entry(e) /\ Entry(e) \in Handles
        BY <3>2, <1>5, <2>4, EntryAfterOut, EntryType
      <4>2. bound[Entry(e)] = e /\ e # None
        BY <4>1, <2>4 DEF HandlesLive
      <4> QED BY <4>1, <4>2, <2>2
    <3> QED BY <3>1, <3>2
  <2>5. caller' = "write" => bound'[handle'] = <<wslot', "in">>
    BY <2>1, <2>2 DEF HandlesLive, callerVars, TypeOK, Endpoints
  <2>6. ASSUME NEW t \in Threads, reader[t] # None PROVE reader[t][2] # h
    <3>1. bound[reader[t][2]] = <<reader[t][1], "out">>
      BY <2>6 DEF HandlesLive
    <3>2. <<reader[t][1], "out">> \in Endpoints
      BY <1>0, <2>6 DEF Endpoints
    <3> QED BY <2>1, <3>1, <3>2
  <2>7. /\ \A t \in Threads : reader'[t] # reader[t] => reader'[t] = <<i, h>>
        /\ \A t, u \in Threads :
             reader'[t] # reader[t] /\ reader'[u] # reader[u] => t = u
    BY <2>1 DEF Spawn, TypeOK
  <2>8. \A t \in Threads :
          reader'[t] # None => bound'[reader'[t][2]] = <<reader'[t][1], "out">>
    <3> SUFFICES ASSUME NEW t \in Threads, reader'[t] # None
                 PROVE  bound'[reader'[t][2]] = <<reader'[t][1], "out">>
      OBVIOUS
    <3>1. CASE reader'[t] = <<i, h>>
      BY <3>1, <2>3
    <3>2. CASE reader'[t] = reader[t]
      <4>1. reader[t][1] \in Slots /\ reader[t][2] \in Handles
        BY <1>0, <3>2
      <4>2. bound[reader[t][2]] = <<reader[t][1], "out">>
        BY <3>2 DEF HandlesLive
      <4>3. bound[reader[t][2]] # None
        BY <4>1, <4>2 DEF Endpoints
      <4> QED BY <3>2, <4>1, <4>2, <4>3, <2>2
    <3> QED BY <3>1, <3>2, <2>7
  <2>9. \A t, u \in Threads :
          t # u /\ reader'[t] # None /\ reader'[u] # None => reader'[t][2] # reader'[u][2]
    BY <1>0, <2>6, <2>7 DEF HandlesLive
  <2> QED BY <2>4, <2>5, <2>8, <2>9 DEF HandlesLive
<1>6. ASSUME NEW t \in Threads, ReaderExit(t) PROVE HandlesLive'
  <2>1. \A u \in Threads : reader'[u] # None => reader'[u] = reader[u]
    BY <1>6 DEF ReaderExit, TypeOK
  <2>2. UNCHANGED <<bound, ep_in, ep_out, callerVars>>
    BY <1>6 DEF ReaderExit, shared, kernel
  <2>3. \A e \in Endpoints : Entry(e)' = Entry(e)
    BY <2>2 DEF Entry
  <2>4. \A e \in Endpoints : Entry(e)' # None => bound'[Entry(e)'] = e
    BY <2>2, <2>3 DEF HandlesLive
  <2>5. caller' = "write" => bound'[handle'] = <<wslot', "in">>
    BY <2>2 DEF HandlesLive, callerVars
  <2>6. \A u \in Threads :
          reader'[u] # None => bound'[reader'[u][2]] = <<reader'[u][1], "out">>
    BY <2>1, <2>2 DEF HandlesLive
  <2>7. \A u, v \in Threads :
          u # v /\ reader'[u] # None /\ reader'[v] # None => reader'[u][2] # reader'[v][2]
    BY <2>1 DEF HandlesLive
  <2> QED BY <2>4, <2>5, <2>6, <2>7 DEF HandlesLive
<1> QED BY <1>1, <1>2, <1>3, <1>4, <1>5, <1>6, StepKinds

-----------------------------------------------------------------------------

(***************************************************************************)
(* The control requests.                                                   *)
(***************************************************************************)

(* ReplyTo serves every direction its request can ask for.                 *)
LEMMA ReplyServes ==
  ASSUME NEW r \in Requests \ {"set_configuration"},
         fdOpen, control \in Direction(r)
  PROVE  Ep0IoOk(ReplyTo(r))
BY DEF Requests, Direction, ReplyTo, Ep0IoOk

LEMMA AnswerStep == TypeOK /\ AnswerOwed /\ [Next]_vars => AnswerOwed'
<1> SUFFICES ASSUME TypeOK, AnswerOwed, [Next]_vars, fdOpen', control' # "none"
             PROVE  \/ \E k \in 1 .. Len(events') : Owed(events[k])'
                    \/ ep0' = "handle" /\ Owed(event)'
                    \/ ep0' \in {"enable_in", "enable_out", "ack"} /\ control' = "out"
                    \/ ep0' = "exited"
  BY DEF AnswerOwed
<1>0. events \in Seq(Queueable)
  BY DEF TypeOK, KernelTypeOK, Queueable
<1>1. CASE Host
  <2>1. CASE \E r \in HostRequests : HostRequest(r)
    <3>1. PICK r \in HostRequests : HostRequest(r)
      BY <2>1
    <3>2. r \in Queueable /\ Owed(r)'
      BY <3>1 DEF HostRequest, Owed, Queueable
    <3> QED BY <3>1, <3>2, <1>0, LastQueued DEF HostRequest
  <2>2. CASE \E b \in BusEvents : BusEvent(b)
    <3>1. PICK b \in BusEvents : BusEvent(b)
      BY <2>2
    <3>2. b \in Queueable /\ UNCHANGED <<control, fdOpen, ep0, event>>
      BY <1>1, <3>1 DEF BusEvent, Queueable, Host, ep0Vars
    <3>3. ASSUME NEW k \in 1 .. Len(events), Owed(events[k])
          PROVE  \E l \in 1 .. Len(events') : Owed(events[l])'
      <4>1. PICK l \in 1 .. Len(events') : events'[l] = events[k]
        BY <1>0, <3>1, <3>2, StaysQueued DEF BusEvent
      <4> QED BY <4>1, <3>2, <3>3 DEF Owed
    <3> QED BY <3>2, <3>3 DEF AnswerOwed, Owed
  <2> QED BY <1>1, <2>1, <2>2 DEF Host
<1>2. CASE FetchEvent
  <2>1. /\ UNCHANGED <<control, fdOpen>> /\ events' = Tail(events)
        /\ ep0 = "wait" /\ ep0' = "handle" /\ event' = Head(events)
    BY <1>2 DEF FetchEvent
  <2>2. PICK k \in 1 .. Len(events) : Owed(events[k])
    BY <2>1 DEF AnswerOwed
  <2>3. CASE events[k] = Head(events)
    BY <2>1, <2>2, <2>3 DEF Owed
  <2>4. CASE \E l \in 1 .. Len(events') : events'[l] = events[k]
    BY <2>1, <2>2, <2>4 DEF Owed
  <2> QED BY <1>0, <2>1, <2>3, <2>4, HeadOrTail
<1>3. CASE Reply
  <2>1. /\ UNCHANGED <<fdOpen, events>> /\ ep0 = "handle" /\ ep0' = "fetch"
        /\ event \in Requests \ {"set_configuration"} /\ Ep0Io(ReplyTo(event))
    BY <1>3 DEF Reply
  <2>2. control' = control /\ ~Ep0IoOk(ReplyTo(event))
    BY <2>1 DEF Ep0Io
  <2>3. ~Owed(event)
    BY <2>1, <2>2, ReplyServes DEF Owed
  <2> QED BY <2>1, <2>2, <2>3 DEF AnswerOwed, Owed
<1>4. CASE BeginConfiguration
  <2>1. UNCHANGED <<fdOpen, events, control>> /\ ep0 = "handle" /\ ep0' = "enable_in"
        /\ event = "set_configuration"
    BY <1>4 DEF BeginConfiguration, kernel
  <2>2. Direction(event) = {"out"}
    BY <2>1 DEF Direction
  <2> QED BY <2>1, <2>2 DEF AnswerOwed, Owed
<1>5. CASE \/ \E h \in Handles : EnableInOk(h) \/ EnableOutOk(h)
           \/ EnableInFail \/ EnableOutFail
  <2>1. /\ UNCHANGED <<fdOpen, events, control>>
        /\ ep0 \in {"enable_in", "enable_out"}
        /\ ep0' \in {"enable_in", "enable_out", "ack"}
    BY <1>5 DEF EnableInOk, EnableOutOk, EnableInFail, EnableOutFail, NextSlot, kernel
  <2> QED BY <2>1 DEF AnswerOwed, Owed
<1>6. CASE Ack
  <2>1. /\ UNCHANGED <<fdOpen, events>> /\ ep0 = "ack" /\ Ep0Io("read")
    BY <1>6 DEF Ack
  <2>2. control' = control /\ control # "out"
    BY <2>1 DEF Ep0Io, Ep0IoOk
  <2> QED BY <2>1, <2>2 DEF AnswerOwed, Owed
<1>7. CASE IgnoreEvent \/ ClearEndpoints
  <2>1. /\ UNCHANGED <<fdOpen, events, control>> /\ ep0 = "handle"
        /\ event \in Resets \cup Notices
    BY <1>7 DEF IgnoreEvent, ClearEndpoints, kernel
  <2>2. event \notin Requests
    BY <2>1 DEF Resets, Notices, Requests
  <2> QED BY <2>1, <2>2 DEF AnswerOwed, Owed
<1>8. CASE Fetch \/ FetchClosed \/ Publish \/ \E errno \in FetchErrors : FetchError(errno)
  <2>1. /\ UNCHANGED <<fdOpen, events, control>>
        /\ ep0 \in {"fetch", "wait", "publish"}
    BY <1>8 DEF Fetch, FetchClosed, Publish, FetchError, kernel
  <2> QED BY <2>1 DEF AnswerOwed, Owed
<1>9. CASE (\E t \in Threads : ReaderExit(t)) \/ CallerStep \/ UNCHANGED vars
  <2>1. fdOpen /\ UNCHANGED <<events, control, ep0, event>>
    BY <1>9 DEF ReaderExit, CallerStep, WaitReady, Check, SpuriousWake, LookupHandle,
                EpWriteReturns, CloseFd, Join, vars, kernel, ep0Vars
  <2> QED BY <2>1 DEF AnswerOwed, Owed
<1> QED BY <1>1, <1>2, <1>3, <1>4, <1>5, <1>6, <1>7, <1>8, <1>9 DEF Next, Ep0Step

LEMMA JoinedStep == TypeOK /\ LockInv /\ Joined /\ [Next]_vars => Joined'
<1> SUFFICES ASSUME TypeOK, LockInv, Joined, [Next]_vars PROVE Joined'
  OBVIOUS
<1> USE DEF Joined, ep0Vars, callerVars
<1>1. CASE Ep0Step
  <2>1. ep0 # "exited"
    BY <1>1 DEF Ep0Step, Fetch, FetchClosed, FetchEvent, IgnoreEvent, ClearEndpoints,
                Reply, BeginConfiguration, EnableInOk, EnableOutOk, EnableInFail,
                EnableOutFail, Ack, Publish
  <2>2. caller' = caller \/ caller' = "check"
    BY <1>1 DEF Ep0Step, Fetch, FetchClosed, FetchEvent, IgnoreEvent, ClearEndpoints,
                Reply, BeginConfiguration, EnableInOk, EnableOutOk, EnableInFail,
                EnableOutFail, Ack, Publish
  <2> QED BY <2>1, <2>2
<1>2. CASE (\E errno \in FetchErrors : FetchError(errno)) \/ \E t \in Threads : ReaderExit(t)
  BY <1>2 DEF FetchError, ReaderExit
<1>3. CASE CallerStep
  BY <1>3 DEF CallerStep, WaitReady, Check, SpuriousWake, LookupHandle,
              EpWriteReturns, CloseFd, Join
<1>4. CASE Host
  BY <1>4 DEF Host
<1>5. CASE UNCHANGED vars
  BY <1>5 DEF vars
<1> QED BY <1>1, <1>2, <1>3, <1>4, <1>5 DEF Next

-----------------------------------------------------------------------------

LEMMA IInvInit == Init => IInv
<1> SUFFICES ASSUME Init PROVE IInv
  OBVIOUS
<1>1. TypeOK
  BY TypeInit
<1>2. \A e \in Endpoints : Entry(e) = None
  BY DEF Init, NoHandles, Entry, Endpoints
<1>3. \A t \in Threads : reader[t] = None
  BY DEF Init
<1> QED BY <1>1, <1>2, <1>3 DEF Init, IInv, LockInv, TablePublished, HandlesFit, HandlesLive,
                               AnswerOwed, KernelInit, Joined

LEMMA IInvStep == IInv /\ [Next]_vars => IInv'
BY TypeStep, LockStep, PublishedStep, FitStep, LiveStep, AnswerStep, JoinedStep DEF IInv

LEMMA Inductive == Spec => []IInv
<1>1. Init => IInv
  BY IInvInit
<1>2. IInv /\ [Next]_vars => IInv'
  BY IInvStep
<1> QED BY <1>1, <1>2, PTL DEF Spec

(* The mutex is held from the first EP_ENABLE to ready = true, so nobody   *)
(* sees half a configuration (transport_hw.rs:329-375).                    *)
THEOREM Published == Spec => []TablePublished
<1>1. IInv => TablePublished
  BY DEF IInv
<1> QED BY <1>1, Inductive, PTL

(* No two endpoints of the table share a handle.                           *)
THEOREM NoneShared ==
  ASSUME FixedAddress \/ ~ResetDisables
  PROVE  Spec => []NoSharedHandle
<1>1. IInv => NoSharedHandle
  <2> SUFFICES ASSUME IInv, NEW e \in Endpoints, NEW f \in Endpoints,
                      e # f, Entry(e) # None, Entry(e) = Entry(f)
               PROVE  FALSE
    BY DEF NoSharedHandle
  <2>1. CASE FixedAddress
    BY <2>1 DEF FixedAddress, IInv, HandlesFit
  <2>2. CASE ~ResetDisables
    BY <2>2 DEF IInv, HandlesLive
  <2> QED BY <2>1, <2>2
<1> QED BY <1>1, Inductive, PTL

(* The handle write_input_report holds after releasing the mutex names the *)
(* slot's IN endpoint or nothing (transport_hw.rs:181-192).                *)
THEOREM NeverMisdirected ==
  ASSUME FixedAddress \/ ~ResetDisables
  PROVE  Spec => []NotMisdirected
<1>1. IInv => NotMisdirected
  <2> SUFFICES ASSUME IInv, caller = "write", bound[handle] # None
               PROVE  bound[handle] = <<wslot, "in">>
    BY DEF NotMisdirected
  <2>1. /\ handle \in Handles /\ bound[handle] \in Endpoints
        /\ <<wslot, "in">> \in Endpoints
    BY DEF IInv, TypeOK, KernelTypeOK, Endpoints
  <2>2. CASE FixedAddress
    <3>1. handle \in Fits[bound[handle]] /\ handle \in Fits[<<wslot, "in">>]
      BY <2>1 DEF IInv, TypeOK, KernelTypeOK, HandlesFit
    <3> QED BY <2>1, <2>2, <3>1 DEF FixedAddress
  <2>3. CASE ~ResetDisables
    BY <2>3 DEF IInv, HandlesLive
  <2> QED BY <2>2, <2>3
<1> QED BY <1>1, Inductive, PTL

(* However often the host configures the device, a slot never gets a       *)
(* second reader thread (transport_hw.rs:346-358).                         *)
THEOREM ReaderUnique ==
  ASSUME FixedAddress, ~ResetDisables
  PROVE  Spec => []OneReader
<1>1. IInv => OneReader
  <2> SUFFICES ASSUME IInv, NEW t \in Threads, NEW u \in Threads, t # u,
                      reader[t] # None, reader[u] # None, reader[t][1] = reader[u][1]
               PROVE  FALSE
    BY DEF OneReader
  <2>1. reader[t][2] # reader[u][2]
    BY DEF IInv, HandlesLive
  <2>2. /\ <<reader[t][1], "out">> \in Endpoints
        /\ reader[t][2] \in Fits[<<reader[t][1], "out">>]
        /\ reader[u][2] \in Fits[<<reader[t][1], "out">>]
    BY DEF IInv, TypeOK, HandlesFit, Endpoints
  <2> QED BY <2>1, <2>2 DEF FixedAddress
<1> QED BY <1>1, Inductive, PTL

(* Every branch of handle_control answers in the transfer's direction, so  *)
(* ep0 never waits for an event while it owes the host an answer, however  *)
(* many resets abort transfers whose requests are still queued             *)
(* (transport_hw.rs:258-391).  The host sends each request in the          *)
(* direction of its kind (Direction): handle_control does not look at a    *)
(* standard request's, so one sent the other way would stay pending.       *)
THEOREM EveryRequestAnswered == Spec => []Answered
<1>1. IInv => Answered
  BY DEF IInv, AnswerOwed, Owed, Answered
<1> QED BY <1>1, Inductive, PTL
-----------------------------------------------------------------------------

(* The refinement of Link. *)

LEMMA ActivityIs ==
  /\ caller \in {"check", "asleep"} => Activity = "waiting"
  /\ caller = "write" => Activity = "writing"
  /\ caller = "joining" => Activity = "dropping"
  /\ caller \in {"idle", "dropped"} => Activity = caller
BY DEF Activity

LEMMA LinkInit == Init => L!Init
<1> SUFFICES ASSUME Init PROVE L!Init
  OBVIOUS
<1>1. ready = FALSE /\ caller = "idle"
  BY DEF Init
<1>2. Activity = "idle"
  BY <1>1, ActivityIs
<1> QED BY <1>1, <1>2 DEF L!Init, NoHandles

(* A step that disturbs neither table nor caller is none to Link.          *)
LEMMA LinkStutters ==
  ASSUME UNCHANGED <<ep_in, ready, callerVars>>
  PROVE  UNCHANGED L!vars
BY DEF L!vars, Activity, callerVars, NoHandles

(* Steps of the caller that change nothing but where it is. *)
LEMMA LinkCallerMoves ==
  ASSUME UNCHANGED <<ep_in, ready>>, caller # "write", caller' # "write"
  PROVE  /\ (IF ready THEN ep_in ELSE NoHandles)' = (IF ready THEN ep_in ELSE NoHandles)
         /\ (IF caller = "write" THEN <<wslot, handle>> ELSE None)' = None
         /\ (IF caller = "write" THEN <<wslot, handle>> ELSE None) = None
BY DEF NoHandles

LEMMA LinkCaller ==
  ASSUME IInv, CallerStep
  PROVE  [L!Next]_(L!vars)
<1> USE DEF shared
<1>1. CASE WaitReady
  <2>1. /\ caller = "idle" /\ caller' = "check" /\ UNCHANGED <<ep_in, ready>>
    BY <1>1 DEF WaitReady
  <2>2. Activity = "idle" /\ Activity' = "waiting"
    BY <2>1 DEF Activity
  <2>3. L!Wait
    BY <2>1, <2>2, LinkCallerMoves DEF L!Wait
  <2> QED BY <2>3 DEF L!Next
<1>2. CASE Check
  <2>1. /\ caller = "check" /\ UNCHANGED <<ep_in, ready>>
        /\ caller' = IF ready THEN "idle" ELSE "asleep"
    BY <1>2 DEF Check
  <2>2. CASE ready
    <3>1. Activity = "waiting" /\ Activity' = "idle"
      BY <2>1, <2>2 DEF Activity
    <3>2. L!WaitEnds
      BY <2>1, <2>2, <3>1, LinkCallerMoves DEF L!WaitEnds
    <3> QED BY <3>2 DEF L!Next
  <2>3. CASE ~ready
    <3>1. Activity = "waiting" /\ Activity' = "waiting"
      BY <2>1, <2>3 DEF Activity
    <3> QED BY <2>1, <2>3, <3>1, LinkCallerMoves DEF L!vars
  <2> QED BY <2>2, <2>3
<1>3. CASE SpuriousWake
  <2>1. /\ caller = "asleep" /\ caller' = "check" /\ UNCHANGED <<ep_in, ready>>
    BY <1>3 DEF SpuriousWake
  <2>2. Activity = "waiting" /\ Activity' = "waiting"
    BY <2>1 DEF Activity
  <2> QED BY <2>1, <2>2, LinkCallerMoves DEF L!vars
<1>4. ASSUME NEW s \in Slots, LookupHandle(s) PROVE [L!Next]_(L!vars)
  <2>1. caller = "idle" /\ lock = "free" /\ UNCHANGED <<ep_in, ready>>
    BY <1>4 DEF LookupHandle
  <2>2. CASE ep_in[s] = None
    <3>1. UNCHANGED callerVars
      BY <1>4, <2>2 DEF LookupHandle
    <3> QED BY <2>1, <3>1, LinkStutters
  <2>3. CASE ep_in[s] # None
    <3>1. caller' = "write" /\ wslot' = s /\ handle' = ep_in[s]
      BY <1>4, <2>3 DEF LookupHandle
    <3>2. ready
      BY <2>1, <2>3 DEF IInv, TablePublished, NoHandles
    <3>3. Activity = "idle" /\ Activity' = "writing"
      BY <2>1, <3>1 DEF Activity
    <3>4. L!Write(s)
      BY <2>1, <2>3, <3>1, <3>2, <3>3 DEF L!Write
    <3> QED BY <3>4 DEF L!Next
  <2> QED BY <2>2, <2>3
<1>5. CASE EpWriteReturns
  <2>1. caller = "write" /\ caller' = "idle" /\ UNCHANGED <<ep_in, ready>>
    BY <1>5 DEF EpWriteReturns
  <2>2. Activity = "writing" /\ Activity' = "idle"
    BY <2>1 DEF Activity
  <2>3. L!WriteEnds
    BY <2>1, <2>2 DEF L!WriteEnds, NoHandles
  <2> QED BY <2>3 DEF L!Next
<1>6. CASE CloseFd
  <2>1. caller = "idle" /\ caller' = "joining" /\ UNCHANGED <<ep_in, ready>>
    BY <1>6 DEF CloseFd
  <2>2. Activity = "idle" /\ Activity' = "dropping"
    BY <2>1 DEF Activity
  <2>3. L!Drop
    BY <2>1, <2>2, LinkCallerMoves DEF L!Drop
  <2> QED BY <2>3 DEF L!Next
<1>7. CASE Join
  <2>1. caller = "joining" /\ caller' = "dropped" /\ UNCHANGED <<ep_in, ready>>
    BY <1>7 DEF Join
  <2>2. Activity = "dropping" /\ Activity' = "dropped"
    BY <2>1 DEF Activity
  <2>3. L!DropEnds
    BY <2>1, <2>2, LinkCallerMoves DEF L!DropEnds
  <2> QED BY <2>3 DEF L!Next
<1> QED BY <1>1, <1>2, <1>3, <1>4, <1>5, <1>6, <1>7 DEF CallerStep

LEMMA LinkConfigured ==
  ASSUME IInv, IInv', ep0 # "exited", ready', ep0' # "exited",
         \A s \in Slots : ready /\ ep_in[s] # None => ep_in'[s] # None,
         \/ UNCHANGED callerVars
         \/ caller = "asleep" /\ caller' = "check"
  PROVE  L!Configured
<1>1. caller # "dropped" /\ (caller = "write" <=> caller' = "write")
  BY DEF IInv, Joined, callerVars
<1>2. Activity # "dropped"
  BY <1>1 DEF Activity, IInv, TypeOK
<1>3. Activity' = Activity
  BY DEF Activity, callerVars
<1>4. ep_in' \in [Slots -> Handles \cup {None}]
  BY DEF IInv, TypeOK
<1>5. \A s \in Slots :
        (IF ready THEN ep_in ELSE NoHandles)[s] # None => ep_in'[s] # None
  BY DEF NoHandles
<1>6. (IF caller = "write" THEN <<wslot, handle>> ELSE None)' =
        (IF caller = "write" THEN <<wslot, handle>> ELSE None)
  BY <1>1 DEF callerVars
<1> QED BY <1>2, <1>3, <1>4, <1>5, <1>6 DEF L!Configured

LEMMA LinkStep == IInv /\ IInv' /\ [Next]_vars => [L!Next]_(L!vars)
<1> SUFFICES ASSUME IInv, IInv', [Next]_vars PROVE [L!Next]_(L!vars)
  OBVIOUS
<1>1. CASE UNCHANGED <<ep_in, ready, callerVars>>
  BY <1>1, LinkStutters
<1>2. CASE ClearEndpoints
  <2>1. /\ ep0 = "handle" /\ ready' = FALSE /\ UNCHANGED callerVars
    BY <1>2 DEF ClearEndpoints
  <2>2. caller # "dropped"
    BY <2>1 DEF IInv, Joined
  <2>3. Activity # "dropped"
    BY <2>2 DEF Activity, IInv, TypeOK
  <2>4. L!Forgotten
    BY <2>1, <2>3 DEF L!Forgotten, Activity, NoHandles, callerVars
  <2> QED BY <2>4 DEF L!Next
<1>3. ASSUME NEW h \in Handles, EnableInOk(h) PROVE [L!Next]_(L!vars)
  <2>1. /\ ep0 = "enable_in" /\ ep0' = "enable_out" /\ UNCHANGED <<ready, callerVars>>
        /\ ep_in' = [ep_in EXCEPT ![i] = h]
    BY <1>3 DEF EnableInOk
  <2>2. CASE ready
    <3>1. \A s \in Slots : ep_in[s] # None => ep_in'[s] # None
      BY <2>1, NoneAssumption DEF IInv, TypeOK
    <3>2. L!Configured
      BY <2>1, <2>2, <3>1, LinkConfigured
    <3> QED BY <3>2 DEF L!Next
  <2>3. CASE ~ready
    <3>1. UNCHANGED L!vars
      BY <2>1, <2>3 DEF L!vars, Activity, callerVars, NoHandles
    <3> QED BY <3>1
  <2> QED BY <2>2, <2>3
<1>4. CASE Publish
  <2>1. /\ ep0 = "publish" /\ ep0' = "fetch" /\ ready' = TRUE
        /\ UNCHANGED <<ep_in, wslot, handle>>
        /\ caller' = IF caller = "asleep" THEN "check" ELSE caller
    BY <1>4 DEF Publish
  <2>2. UNCHANGED callerVars \/ (caller = "asleep" /\ caller' = "check")
    BY <2>1 DEF callerVars
  <2>3. L!Configured
    BY <2>1, <2>2, LinkConfigured
  <2> QED BY <2>3 DEF L!Next
<1>5. CASE CallerStep
  BY <1>5, LinkCaller
<1>6. \/ UNCHANGED <<ep_in, ready, callerVars>> \/ ClearEndpoints
      \/ \E h \in Handles : EnableInOk(h)
      \/ Publish \/ CallerStep
  BY DEF Next, Ep0Step, Fetch, FetchClosed, FetchEvent, IgnoreEvent, Reply,
         BeginConfiguration, EnableOutOk, EnableInFail, EnableOutFail, Ack, FetchError,
         ReaderExit, Host, vars, shared, callerVars
<1> QED BY <1>1, <1>2, <1>3, <1>4, <1>5, <1>6

(* Mutex, condition variable, endpoint loop and join together are the      *)
(* atomic table a caller may take the transport for, with any number of    *)
(* slots, readers and handles (transport_hw.rs:42-62, 125-167, 329-375).   *)
THEOREM Refines == Spec => ImplementsLink
<1>1. Init => IInv /\ L!Init
  BY IInvInit, LinkInit
<1>2. IInv /\ [Next]_vars => IInv'
  BY IInvStep
<1>3. IInv /\ IInv' /\ [Next]_vars => [L!Next]_(L!vars)
  BY LinkStep
<1> QED BY <1>1, <1>2, <1>3, PTL DEF Spec, L!Spec, ImplementsLink
=============================================================================
