------------------------------ MODULE Lifecycle ------------------------------
(***************************************************************************)
(* RawGadgetTransports made and dropped one after another by one           *)
(* application thread: RawGadgetTransport::new with every step that can    *)
(* fail, Drop, and the threads a transport starts, which know their gadget *)
(* only by a descriptor NUMBER.  ep0 is joined by drop; an ep_out thread   *)
(* is not, and may meet the number again when it names a later gadget.     *)
(*                                                                         *)
(* A session is one call of new; its open file and its gadget have the     *)
(* session's name.  One slot; what the reports say is OutputPath's matter. *)
(***************************************************************************)
EXTENDS Naturals, FiniteSets

CONSTANTS
  MaxSessions,  \* bound: calls of new
  Numbers,      \* descriptor numbers the process has free
  None

Sessions == 1 .. MaxSessions

ASSUME SessionsAssumption == MaxSessions \in Nat \ {0}
ASSUME NumbersAssumption == Numbers \subseteq Nat /\ IsFiniteSet(Numbers)
ASSUME NoneAssumption == None \notin Nat

VARIABLES
  phase,    \* where new and drop are, per session
  fd,       \* the number new was given
  fdt,      \* the process's descriptor table: number -> open file or None
  ran,      \* files whose RUN succeeded
  enabled,  \* files whose OUT endpoint is enabled
  ep0,      \* ep0 threads: where, and in an ioctl of which file
  reader,   \* ep_out threads, likewise; holding a report: of which file
  taken,    \* per reader, the reports it took from another session's gadget
  wakes     \* rigid: does close make a blocked ioctl of that file return?

files == <<fd, fdt, ran, enabled>>
vars == <<phase, files, ep0, reader, taken, wakes>>

Phases == {"none", "opened", "inited", "running", "live", "joining", "gone", "failed"}
Threads == [at : {"none", "loop", "ioctl", "work", "ack", "ended"}, file : Sessions \cup {None}]

At(place) == [at |-> place, file |-> None]
In(place, f) == [at |-> place, file |-> f]

TypeOK ==
  /\ phase \in [Sessions -> Phases]
  /\ fd \in [Sessions -> Numbers \cup {None}]
  /\ fdt \in [Numbers -> Sessions \cup {None}]
  /\ ran \subseteq Sessions /\ enabled \subseteq ran
  /\ ep0 \in [Sessions -> Threads] /\ reader \in [Sessions -> Threads]
  /\ \A i \in Sessions :
       /\ phase[i] \in {"live", "joining"} => ep0[i].at # "none"
       /\ reader[i].at # "none" => ep0[i].at # "none"
       /\ phase[i] \in {"opened", "inited", "running", "live"} =>
            fd[i] # None /\ fdt[fd[i]] = i
  /\ taken \in [Sessions -> Nat]
  /\ wakes \in BOOLEAN

Init ==
  /\ phase = [i \in Sessions |-> "none"]
  /\ fd = [i \in Sessions |-> None]
  /\ fdt = [n \in Numbers |-> None]
  /\ ran = {} /\ enabled = {}
  /\ ep0 = [i \in Sessions |-> At("none")]
  /\ reader = [i \in Sessions |-> At("none")]
  /\ taken = [i \in Sessions |-> 0]
  /\ wakes \in BOOLEAN

(***************************************************************************)
(* The kernel: a file lives while a number names it or a thread is in one  *)
(* of its ioctls, and keeps its device controller as long as it lives.     *)
(***************************************************************************)

InIoctl(f) ==
  {t \in {"ep0", "reader"} \X Sessions :
     LET thread == IF t[1] = "ep0" THEN ep0[t[2]] ELSE reader[t[2]]
     IN thread \in {In("ioctl", f), In("ack", f)}}

Named(f) == \E n \in Numbers : fdt[n] = f
Alive(f) == Named(f) \/ InIoctl(f) # {}
UdcOwners == {f \in ran : Alive(f)}

(* The file an ioctl on session i's number reaches, or None for EBADF. *)
Reached(i) == IF fd[i] = None THEN None ELSE fdt[fd[i]]

Free == {n \in Numbers : fdt[n] = None}
Lowest(S) == CHOOSE n \in S : \A m \in S : n <= m

(***************************************************************************)
(* RawGadgetTransport::new.  The application is in one call at a time.     *)
(***************************************************************************)

Goes(i, place) == phase' = [phase EXCEPT ![i] = place]

AppIdle == \A i \in Sessions : phase[i] \in {"none", "live", "gone", "failed"}

(* Mistake: where fcntl fails, the closed number is returned. *)
Open_ReturnsClosed(i) ==
  /\ AppIdle /\ phase[i] = "none" /\ \A j \in 1 .. i - 1 : phase[j] # "none"
  /\ Free # {}
  /\ fd' = [fd EXCEPT ![i] = Lowest(Free)]
  /\ fdt' \in {fdt, [fdt EXCEPT ![Lowest(Free)] = i]}
  /\ Goes(i, "opened")
  /\ UNCHANGED <<ran, enabled, ep0, reader, taken, wakes>>

(* raw_gadget_open_nonblock; where fcntl fails it closes what it opened. *)
Open(i) ==
  /\ AppIdle /\ phase[i] = "none" /\ \A j \in 1 .. i - 1 : phase[j] # "none"
  /\ \/ /\ Free # {}
        /\ fd' = [fd EXCEPT ![i] = Lowest(Free)]
        /\ fdt' = [fdt EXCEPT ![Lowest(Free)] = i]
        /\ Goes(i, "opened")
     \/ Goes(i, "failed") /\ UNCHANGED <<fd, fdt>>
  /\ UNCHANGED <<ran, enabled, ep0, reader, taken, wakes>>

(* The ? of INIT, RUN and spawn: nothing closes the descriptor. *)
Fails(i) ==
  /\ phase[i] \in {"opened", "inited", "running"}
  /\ Goes(i, "failed")
  /\ UNCHANGED <<files, ep0, reader, taken, wakes>>

InitGadget(i) ==
  /\ phase[i] = "opened"
  /\ Goes(i, "inited")
  /\ UNCHANGED <<files, ep0, reader, taken, wakes>>

(* RUN binds the device controller, which has to be free. *)
Run(i) ==
  /\ phase[i] = "inited" /\ UdcOwners = {}
  /\ ran' = ran \cup {i}
  /\ Goes(i, "running")
  /\ UNCHANGED <<fd, fdt, enabled, ep0, reader, taken, wakes>>

SpawnEp0(i) ==
  /\ phase[i] = "running"
  /\ ep0' = [ep0 EXCEPT ![i] = At("loop")]
  /\ Goes(i, "live")
  /\ UNCHANGED <<files, reader, taken, wakes>>

(***************************************************************************)
(* Drop.                                                                   *)
(***************************************************************************)

(* Mistake: ep0 is joined while the descriptor is still open. *)
CloseFd_AfterJoin(i) ==
  /\ AppIdle /\ phase[i] = "live"
  /\ fdt' = IF ep0[i].at = "ended" THEN [fdt EXCEPT ![fd[i]] = None] ELSE fdt
  /\ Goes(i, "joining")
  /\ UNCHANGED <<fd, ran, enabled, ep0, reader, taken, wakes>>

CloseFd(i) ==
  /\ AppIdle /\ phase[i] = "live"
  /\ fdt' = [fdt EXCEPT ![fd[i]] = None]
  /\ Goes(i, "joining")
  /\ UNCHANGED <<fd, ran, enabled, ep0, reader, taken, wakes>>

(* Mistake: drop does not wait for ep0. *)
Join_Not(i) ==
  /\ phase[i] = "joining"
  /\ Goes(i, "gone")
  /\ UNCHANGED <<files, ep0, reader, taken, wakes>>

(* ... and after it the fields go, the channel's receiver among them. *)
Join(i) ==
  /\ phase[i] = "joining" /\ ep0[i].at = "ended"
  /\ Goes(i, "gone")
  /\ UNCHANGED <<files, ep0, reader, taken, wakes>>

(***************************************************************************)
(* ep0_loop.                                                               *)
(***************************************************************************)

Ep0Is(i, thread) == ep0' = [ep0 EXCEPT ![i] = thread]

Fetch(i) ==
  /\ ep0[i].at = "loop"
  /\ Ep0Is(i, IF Reached(i) \in ran THEN In("ioctl", Reached(i)) ELSE At("ended"))
  /\ UNCHANGED <<phase, files, reader, taken, wakes>>

(* SET_CONFIGURATION, or an event that needs nothing of what is modelled   *)
(* here.  Only a file that lives has events, and ep0 keeps this one alive. *)
FetchReturns(i) ==
  /\ ep0[i].at = "ioctl"
  /\ Ep0Is(i, At("work")) \/ Ep0Is(i, At("loop"))
  /\ UNCHANGED <<phase, files, reader, taken, wakes>>

FetchFails(i) ==
  /\ ep0[i].at = "ioctl"
  /\ Ep0Is(i, At("ended"))
  /\ UNCHANGED <<phase, files, reader, taken, wakes>>

(* EP_ENABLE of the OUT endpoint and, if it succeeds, the reader, which is *)
(* given the number; spawn may fail.  EP_ENABLE fails on a closed number   *)
(* and on an endpoint enabled before, and may on any other.  Then the ack, *)
(* which waits for the host.  A slot's endpoint is enabled once: Ep0 has   *)
(* the rest.                                                               *)
Configure(i) ==
  /\ ep0[i].at = "work"
  /\ Ep0Is(i, IF Reached(i) \in ran THEN In("ack", Reached(i)) ELSE At("loop"))
  /\ \/ /\ Reached(i) \in ran \ enabled
        /\ enabled' = enabled \cup {Reached(i)}
        /\ \/ reader[i].at = "none" /\ reader' = [reader EXCEPT ![i] = At("loop")]
           \/ UNCHANGED reader
     \/ UNCHANGED <<enabled, reader>>
  /\ UNCHANGED <<phase, fd, fdt, ran, taken, wakes>>

AckReturns(i) ==
  /\ ep0[i].at = "ack"
  /\ Ep0Is(i, At("loop"))
  /\ UNCHANGED <<phase, files, reader, taken, wakes>>

(***************************************************************************)
(* ep_out_loop.                                                            *)
(***************************************************************************)

ReaderIs(i, thread) == reader' = [reader EXCEPT ![i] = thread]

(* EP_READ is refused on a closed number, on a file without the endpoint   *)
(* and while another thread reads it; every errno but EINTR is the end.    *)
Read(i) ==
  LET f == Reached(i)
  IN /\ reader[i].at = "loop"
     /\ ReaderIs(i, IF f \in enabled /\ \A j \in Sessions : reader[j] # In("ioctl", f)
                      THEN In("ioctl", f)
                      ELSE At("ended"))
     /\ UNCHANGED <<phase, files, ep0, taken, wakes>>

(* A report; or what is dropped: junk, nothing, EINTR. *)
ReadReturns(i) ==
  /\ reader[i].at = "ioctl"
  /\ \/ /\ ReaderIs(i, In("work", reader[i].file))
        /\ taken' = [taken EXCEPT ![i] = @ + IF reader[i].file = i THEN 0 ELSE 1]
     \/ ReaderIs(i, At("loop")) /\ UNCHANGED taken
  /\ UNCHANGED <<phase, files, ep0, wakes>>

ReadFails(i) ==
  /\ reader[i].at = "ioctl"
  /\ ReaderIs(i, At("ended"))
  /\ UNCHANGED <<phase, files, ep0, taken, wakes>>

(* Mistake: the error of tx.send is ignored. *)
Send_Ignored(i) ==
  /\ reader[i].at = "work"
  /\ ReaderIs(i, At("loop"))
  /\ UNCHANGED <<phase, files, ep0, taken, wakes>>

(* tx.send fails when the transport's fields are gone. *)
Send(i) ==
  /\ reader[i].at = "work"
  /\ ReaderIs(i, At(IF phase[i] = "gone" THEN "ended" ELSE "loop"))
  /\ UNCHANGED <<phase, files, ep0, taken, wakes>>

(***************************************************************************)
(* Specification.                                                          *)
(***************************************************************************)

Ep0Step(i) ==
  Fetch(i) \/ FetchReturns(i) \/ FetchFails(i) \/ Configure(i) \/ AckReturns(i)
ReaderStep(i) == Read(i) \/ ReadReturns(i) \/ ReadFails(i) \/ Send(i)

Next ==
  \E i \in Sessions :
    \/ Open(i) \/ InitGadget(i) \/ Run(i) \/ SpawnEp0(i) \/ Fails(i)
    \/ CloseFd(i) \/ Join(i)
    \/ Ep0Step(i) \/ ReaderStep(i)

Spec == Init /\ [][Next]_vars

(* Threads that are in no ioctl are scheduled, and so is a call of drop;   *)
(* an ioctl on a file that has been closed under it returns if close wakes *)
(* it.  Nothing is assumed of the host or of the application.              *)
Woken(f) == wakes /\ ~Named(f)

Fairness ==
  \A i \in Sessions :
    /\ WF_vars(Fetch(i) \/ Configure(i) \/ (Woken(ep0[i].file) /\ Ep0Step(i)))
    /\ WF_vars(Read(i) \/ Send(i) \/ (Woken(reader[i].file) /\ ReaderStep(i)))
    /\ WF_vars(Join(i))

FairSpec == Spec /\ Fairness
-----------------------------------------------------------------------------

(* While a transport exists its threads reach its own gadget or none, and  *)
(* ep0 never reaches another one: drop closes the number BEFORE it joins,  *)
(* which is safe only because the application cannot open a gadget until   *)
(* the join is over (transport_hw.rs:163-166).                             *)
OwnGadget ==
  \A i \in Sessions :
    /\ ep0[i].at \notin {"none", "ended"} =>
         {Reached(i), ep0[i].file} \subseteq {i, None}
    /\ phase[i] \in {"live", "joining"} =>
         {Reached(i), reader[i].file} \subseteq {i, None}

(* An ep_out thread that outlives its transport and meets its number again *)
(* takes at most one report from the later gadget, because the send of     *)
(* that one fails and ends it (transport_hw.rs:409-412).  Transfers it     *)
(* reads and drops, being no report, are not counted.                      *)
StealsAtMostOne == \A i \in Sessions : taken[i] <= 1

(* Where close wakes blocked ioctls, a drop that has begun gives the       *)
(* device controller back, whatever ep0 and the readers were doing.        *)
DropFreesUdc ==
  \A i \in Sessions : phase[i] = "joining" /\ wakes ~> i \notin UdcOwners

(***************************************************************************)
(* The inductive invariant the proofs of these rest on.                    *)
(***************************************************************************)

(* The application is inside one call of new or drop at most. *)
OneCall ==
  \A i, j \in Sessions :
    {phase[i], phase[j]} \subseteq {"opened", "inited", "running", "joining"} => i = j

(* The table has a file under the number new was given, and from drop's    *)
(* close to the end of its join that number names nothing.                 *)
NumbersFit ==
  /\ \A n \in Numbers : fdt[n] # None => fd[fdt[n]] = n
  /\ \A i \in Sessions :
       /\ phase[i] = "none" => fd[i] = None
       /\ phase[i] = "joining" => Reached(i) = None

(* Threads come with the transport; ep0 does not survive it, and a reader  *)
(* that does had, until then, never been in another gadget.                *)
ThreadsFit ==
  \A i \in Sessions :
    /\ phase[i] \in {"none", "opened", "inited", "running", "failed"} =>
         ep0[i] = At("none")
    /\ ep0[i].at \notin {"none", "ended"} => phase[i] \in {"live", "joining"}
    /\ ep0[i].file \in {i, None}
    /\ reader[i].at = "none" => reader[i].file = None
    /\ reader[i].at = "ioctl" => reader[i].file # None
    /\ phase[i] \in {"live", "joining"} => reader[i].file \in {i, None}

(* Whoever took a report is about to fail in its send, or has ended. *)
ThievesEnd ==
  \A i \in Sessions :
    taken[i] # 0 =>
      taken[i] = 1 /\ phase[i] = "gone" /\ reader[i].at \in {"work", "ended"}

IInv == TypeOK /\ OneCall /\ NumbersFit /\ ThreadsFit /\ ThievesEnd
=============================================================================
