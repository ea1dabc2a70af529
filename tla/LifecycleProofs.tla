--------------------------- MODULE LifecycleProofs ---------------------------
(* Proofs about Lifecycle, for every number of transports and descriptors. *)
EXTENDS Lifecycle, WellFoundedInduction, TLAPS

USE SessionsAssumption, NumbersAssumption, NoneAssumption

LEMMA SessionType == \A i \in Sessions : i \in Nat /\ i # None
BY DEF Sessions

LEMMA NumberType == \A n \in Numbers : n \in Nat /\ n # None
OBVIOUS

(* POSIX: open returns the lowest number that is free. *)
LEMMA LowestFree ==
  ASSUME Free # {}
  PROVE  Lowest(Free) \in Numbers /\ fdt[Lowest(Free)] = None
<1>1. Free \subseteq Nat
  BY DEF Free
<1>2. \E n \in Free : \A m \in Free : n <= m
  <2>1. PICK n \in Free : \A m \in Free : <<m, n>> \notin OpToRel(<, Nat)
    BY <1>1, NatLessThanWellFounded, WFMin, Zenon
  <2>2. \A m \in Free : ~ (m < n)
    BY <1>1, <2>1 DEF OpToRel
  <2> QED BY <1>1, <2>2
<1>3. Lowest(Free) \in Free
  BY <1>2 DEF Lowest
<1> QED BY <1>3 DEF Free

LEMMA ThreadType ==
  /\ \A place \in {"none", "loop", "ioctl", "work", "ack", "ended"} :
       /\ At(place) \in Threads /\ At(place).at = place /\ At(place).file = None
       /\ \A f \in Sessions \cup {None} :
            In(place, f) \in Threads /\ In(place, f).at = place /\ In(place, f).file = f
BY DEF At, In, Threads

LEMMA ReachedType ==
  ASSUME TypeOK, NEW i \in Sessions
  PROVE  Reached(i) \in Sessions \cup {None}
BY DEF TypeOK, Reached

LEMMA InvInit == Init => IInv
<1> SUFFICES ASSUME Init PROVE IInv
  OBVIOUS
<1>1. TypeOK
  BY ThreadType DEF Init, TypeOK, Phases
<1>2. OneCall /\ NumbersFit
  BY NumberType DEF Init, OneCall, NumbersFit
<1>3. ThreadsFit /\ ThievesEnd
  BY ThreadType DEF Init, ThreadsFit, ThievesEnd
<1> QED BY <1>1, <1>2, <1>3 DEF IInv

(***************************************************************************)
(* Types.                                                                  *)
(***************************************************************************)

(* What the three "is now" helpers do to a session and to the others. *)
LEMMA GoesTo ==
  ASSUME TypeOK, NEW i \in Sessions, NEW place \in Phases, Goes(i, place)
  PROVE  /\ phase' \in [Sessions -> Phases]
         /\ phase'[i] = place
         /\ \A j \in Sessions : j # i => phase'[j] = phase[j]
BY DEF TypeOK, Goes

LEMMA Ep0Becomes ==
  ASSUME TypeOK, NEW i \in Sessions, NEW thread \in Threads, Ep0Is(i, thread)
  PROVE  /\ ep0' \in [Sessions -> Threads]
         /\ ep0'[i] = thread
         /\ \A j \in Sessions : j # i => ep0'[j] = ep0[j]
BY DEF TypeOK, Ep0Is

LEMMA ReaderBecomes ==
  ASSUME TypeOK, NEW i \in Sessions, NEW thread \in Threads, ReaderIs(i, thread)
  PROVE  /\ reader' \in [Sessions -> Threads]
         /\ reader'[i] = thread
         /\ \A j \in Sessions : j # i => reader'[j] = reader[j]
BY DEF TypeOK, ReaderIs

(* What an ep0 step does to its thread: it goes on, and if it enters an    *)
(* ioctl, then of the file its number names.                               *)
LEMMA Ep0Moves ==
  ASSUME TypeOK, NEW i \in Sessions, Ep0Step(i)
  PROVE  /\ ep0' \in [Sessions -> Threads]
         /\ ep0[i].at \in {"loop", "ioctl", "work", "ack"} /\ ep0'[i].at # "none"
         /\ ep0'[i].file \in {Reached(i), None}
         /\ \A j \in Sessions : j # i => ep0'[j] = ep0[j]
<1>1. Reached(i) \in Sessions \cup {None}
  BY ReachedType
<1>2. PICK thread \in Threads : /\ Ep0Is(i, thread) /\ thread.at # "none"
                                /\ thread.file \in {Reached(i), None}
  BY <1>1, ThreadType
     DEF Ep0Step, Fetch, FetchReturns, FetchFails, Configure, AckReturns
<1>3. ep0[i].at \in {"loop", "ioctl", "work", "ack"}
  BY DEF Ep0Step, Fetch, FetchReturns, FetchFails, Configure, AckReturns
<1> QED BY <1>2, <1>3, Ep0Becomes

LEMMA ReaderMoves ==
  ASSUME TypeOK, NEW i \in Sessions, ReaderStep(i)
  PROVE  /\ reader' \in [Sessions -> Threads]
         /\ reader[i].at \in {"loop", "ioctl", "work"} /\ reader'[i].at # "none"
         /\ reader'[i].file \in {Reached(i), reader[i].file, None}
         /\ reader'[i].at = "ioctl" => reader'[i].file # None
         /\ \A j \in Sessions : j # i => reader'[j] = reader[j]
<1>1. Reached(i) \in Sessions \cup {None} /\ reader[i].file \in Sessions \cup {None}
  BY ReachedType DEF TypeOK, Threads
<1>2. enabled \subseteq Sessions
  BY DEF TypeOK
<1>3. PICK thread \in Threads : /\ ReaderIs(i, thread) /\ thread.at # "none"
                                /\ thread.file \in {Reached(i), reader[i].file, None}
                                /\ thread.at = "ioctl" => thread.file # None
  <2>1. CASE Read(i)
    <3>1. CASE Reached(i) \in enabled /\ ReaderIs(i, In("ioctl", Reached(i)))
      BY <1>2, <3>1, ThreadType, SessionType
    <3>2. CASE ReaderIs(i, At("ended"))
      BY <3>2, ThreadType
    <3> QED BY <2>1, <3>1, <3>2 DEF Read
  <2>2. CASE ReadReturns(i)
    BY <1>1, <2>2, ThreadType DEF ReadReturns
  <2>3. CASE ReadFails(i) \/ Send(i)
    BY <2>3, ThreadType DEF ReadFails, Send
  <2> QED BY <2>1, <2>2, <2>3 DEF ReaderStep
<1>4. reader[i].at \in {"loop", "ioctl", "work"}
  BY DEF ReaderStep, Read, ReadReturns, ReadFails, Send
<1> QED BY <1>3, <1>4, ReaderBecomes

(* An ep0 step starts a reader, once per transport, or leaves all alone. *)
LEMMA ReaderStarts ==
  ASSUME TypeOK, NEW i \in Sessions, Ep0Step(i)
  PROVE  /\ reader' \in [Sessions -> Threads]
         /\ \A j \in Sessions :
              \/ reader'[j] = reader[j]
              \/ j = i /\ reader[j].at = "none" /\ reader'[j] = At("loop")
<1>1. CASE UNCHANGED reader
  BY <1>1 DEF TypeOK
<1>2. CASE reader[i].at = "none" /\ reader' = [reader EXCEPT ![i] = At("loop")]
  BY <1>2, ThreadType DEF TypeOK
<1> QED BY <1>1, <1>2
        DEF Ep0Step, Fetch, FetchReturns, FetchFails, Configure, AckReturns
-----------------------------------------------------------------------------

(***************************************************************************)
(* The steps of new and drop.                                              *)
(***************************************************************************)

LEMMA OpenStep ==
  ASSUME IInv, NEW i \in Sessions, Open(i)
  PROVE  IInv'
<1> USE DEF IInv
<1>1. /\ AppIdle /\ phase[i] = "none"
      /\ UNCHANGED <<ran, enabled, ep0, reader, taken, wakes>>
  BY DEF Open
<1>2. CASE Goes(i, "failed") /\ UNCHANGED <<fd, fdt>>
  <2>1. /\ phase' \in [Sessions -> Phases] /\ phase'[i] = "failed"
        /\ \A j \in Sessions : j # i => phase'[j] = phase[j]
    BY <1>2, GoesTo DEF Phases
  <2>2. TypeOK'
    BY <1>1, <1>2, <2>1 DEF TypeOK
  <2>3. OneCall'
    BY <2>1 DEF OneCall
  <2>4. NumbersFit'
    BY <1>2, <2>1 DEF NumbersFit, Reached
  <2>5. ThreadsFit' /\ ThievesEnd'
    BY <1>1, <2>1 DEF ThreadsFit, ThievesEnd
  <2> QED BY <2>2, <2>3, <2>4, <2>5
<1>3. CASE /\ Free # {}
           /\ fd' = [fd EXCEPT ![i] = Lowest(Free)]
           /\ fdt' = [fdt EXCEPT ![Lowest(Free)] = i]
           /\ Goes(i, "opened")
  <2>1. /\ phase' \in [Sessions -> Phases] /\ phase'[i] = "opened"
        /\ \A j \in Sessions : j # i => phase'[j] = phase[j]
    BY <1>3, GoesTo DEF Phases
  <2> DEFINE n == Lowest(Free)
  <2>2. n \in Numbers /\ fdt[n] = None /\ n # None
    BY <1>3, LowestFree, NumberType
  <2> HIDE DEF n
  <2>3. /\ fd' \in [Sessions -> Numbers \cup {None}] /\ fd'[i] = n
        /\ \A j \in Sessions : j # i => fd'[j] = fd[j]
    BY <1>3, <2>2 DEF n, TypeOK
  <2>4. /\ fdt' \in [Numbers -> Sessions \cup {None}] /\ fdt'[n] = i
        /\ \A m \in Numbers : m # n => fdt'[m] = fdt[m]
    BY <1>3, <2>2 DEF n, TypeOK
  <2>5. ASSUME NEW j \in Sessions, phase'[j] \in {"opened", "inited", "running", "live"}
        PROVE  fd'[j] # None /\ fdt'[fd'[j]] = j
    <3>1. CASE j = i
      BY <2>2, <2>3, <2>4, <3>1
    <3>2. CASE j # i
      <4>1. fd[j] # None /\ fdt[fd[j]] = j /\ fd[j] \in Numbers
        BY <2>1, <2>5, <3>2 DEF TypeOK
      <4>2. fd[j] # n
        BY <2>2, <4>1, SessionType
      <4> QED BY <2>3, <2>4, <3>2, <4>1, <4>2
    <3> QED BY <3>1, <3>2
  <2>6. TypeOK'
    BY <1>1, <2>1, <2>3, <2>4, <2>5 DEF TypeOK
  <2>7. OneCall'
    BY <1>1, <2>1 DEF OneCall, AppIdle
  <2>8. \A m \in Numbers : fdt'[m] # None => fd'[fdt'[m]] = m
    <3> SUFFICES ASSUME NEW m \in Numbers, fdt'[m] # None, m # n
                 PROVE  fd'[fdt'[m]] = m
      BY <2>3, <2>4
    <3>1. fdt'[m] = fdt[m] /\ fdt[m] \in Sessions /\ fd[fdt[m]] = m
      BY <2>4 DEF TypeOK, NumbersFit
    <3>2. fdt[m] # i
      BY <1>1, <3>1, NumberType DEF NumbersFit
    <3> QED BY <2>3, <3>1, <3>2
  <2>9. NumbersFit'
    BY <1>1, <2>1, <2>3, <2>8 DEF NumbersFit, AppIdle
  <2>10. ThreadsFit' /\ ThievesEnd'
    BY <1>1, <2>1 DEF ThreadsFit, ThievesEnd
  <2> QED BY <2>6, <2>7, <2>9, <2>10
<1> QED BY <1>2, <1>3 DEF Open

LEMMA NewStep ==
  ASSUME IInv, NEW i \in Sessions, InitGadget(i) \/ Run(i) \/ SpawnEp0(i) \/ Fails(i)
  PROVE  IInv'
<1> USE DEF IInv
<1>1. PICK place \in {"inited", "running", "live", "failed"} : Goes(i, place)
  BY DEF InitGadget, Run, SpawnEp0, Fails
<1>2. /\ phase' \in [Sessions -> Phases] /\ phase'[i] = place
      /\ \A j \in Sessions : j # i => phase'[j] = phase[j]
  BY <1>1, GoesTo DEF Phases
<1>3. /\ phase[i] \in {"opened", "inited", "running"}
      /\ ran \subseteq ran' /\ ran' \subseteq Sessions
      /\ UNCHANGED <<fd, fdt, enabled, reader, taken, wakes>>
  BY DEF InitGadget, Run, SpawnEp0, Fails, files, TypeOK
<1>4. /\ ep0' \in [Sessions -> Threads] /\ ep0[i] = At("none")
      /\ \A j \in Sessions : j # i => ep0'[j] = ep0[j]
      /\ IF place = "live" THEN ep0'[i] = At("loop") ELSE ep0'[i] = ep0[i]
  <2>1. ep0[i] = At("none")
    BY <1>3 DEF ThreadsFit
  <2>2. CASE SpawnEp0(i)
    <3>1. Goes(i, "live")
      BY <2>2 DEF SpawnEp0
    <3>2. place = "live"
      BY <1>2, <3>1, GoesTo DEF Phases
    <3>3. ep0' = [ep0 EXCEPT ![i] = At("loop")] /\ At("loop") \in Threads
      BY <2>2, ThreadType DEF SpawnEp0
    <3> QED BY <2>1, <3>2, <3>3 DEF TypeOK
  <2>3. CASE InitGadget(i) \/ Run(i) \/ Fails(i)
    <3>1. UNCHANGED ep0 /\ \E other \in {"inited", "running", "failed"} : Goes(i, other)
      BY <2>3 DEF InitGadget, Run, Fails
    <3>2. place # "live"
      BY <1>2, <3>1, GoesTo DEF Phases
    <3> QED BY <2>1, <3>1, <3>2 DEF TypeOK
  <2> QED BY <2>2, <2>3
<1>5. reader[i].at = "none" /\ reader[i].file = None
  BY <1>4, ThreadType DEF TypeOK, ThreadsFit
<1>6. TypeOK'
  BY <1>2, <1>3, <1>4, <1>5, ThreadType DEF TypeOK
<1>7. OneCall'
  BY <1>2, <1>3 DEF OneCall
<1>8. NumbersFit'
  BY <1>2, <1>3 DEF NumbersFit, Reached
<1>9. ThreadsFit'
  BY <1>2, <1>3, <1>4, <1>5, ThreadType DEF ThreadsFit
<1>10. ThievesEnd'
  BY <1>2, <1>3 DEF ThievesEnd
<1> QED BY <1>6, <1>7, <1>8, <1>9, <1>10

LEMMA CloseStep ==
  ASSUME IInv, NEW i \in Sessions, CloseFd(i)
  PROVE  IInv'
<1> USE DEF IInv
<1>1. /\ AppIdle /\ phase[i] = "live"
      /\ UNCHANGED <<fd, ran, enabled, ep0, reader, taken, wakes>>
  BY DEF CloseFd
<1>2. /\ phase' \in [Sessions -> Phases] /\ phase'[i] = "joining"
      /\ \A j \in Sessions : j # i => phase'[j] = phase[j]
  BY GoesTo DEF CloseFd, Phases
<1>3. fd[i] \in Numbers /\ fd[i] # None /\ fdt[fd[i]] = i
  BY <1>1 DEF TypeOK
<1>4. /\ fdt' \in [Numbers -> Sessions \cup {None}] /\ fdt'[fd[i]] = None
      /\ \A m \in Numbers : m # fd[i] => fdt'[m] = fdt[m]
  BY <1>3 DEF CloseFd, TypeOK
<1>5. ASSUME NEW j \in Sessions, phase'[j] \in {"opened", "inited", "running", "live"}
      PROVE  fd[j] # None /\ fdt'[fd[j]] = j
  <2>1. j # i /\ fd[j] # None /\ fdt[fd[j]] = j /\ fd[j] \in Numbers
    BY <1>2, <1>5 DEF TypeOK
  <2> QED BY <1>3, <1>4, <2>1
<1>6. TypeOK'
  BY <1>1, <1>2, <1>4, <1>5 DEF TypeOK
<1>7. OneCall'
  BY <1>1, <1>2 DEF OneCall, AppIdle
<1>8. NumbersFit'
  BY <1>1, <1>2, <1>3, <1>4 DEF NumbersFit, Reached, AppIdle
<1>9. ThreadsFit' /\ ThievesEnd'
  BY <1>1, <1>2 DEF ThreadsFit, ThievesEnd
<1> QED BY <1>6, <1>7, <1>8, <1>9

LEMMA JoinStep ==
  ASSUME IInv, NEW i \in Sessions, Join(i)
  PROVE  IInv'
<1> USE DEF IInv
<1>1. /\ phase[i] = "joining" /\ ep0[i].at = "ended"
      /\ UNCHANGED <<fd, fdt, ran, enabled, ep0, reader, taken, wakes>>
  BY DEF Join, files
<1>2. /\ phase' \in [Sessions -> Phases] /\ phase'[i] = "gone"
      /\ \A j \in Sessions : j # i => phase'[j] = phase[j]
  BY GoesTo DEF Join, Phases
<1>3. TypeOK'
  BY <1>1, <1>2 DEF TypeOK
<1>4. OneCall'
  BY <1>2 DEF OneCall
<1>5. NumbersFit'
  BY <1>1, <1>2 DEF NumbersFit, Reached
<1>6. ThreadsFit' /\ ThievesEnd'
  BY <1>1, <1>2 DEF ThreadsFit, ThievesEnd
<1> QED BY <1>3, <1>4, <1>5, <1>6
-----------------------------------------------------------------------------

(***************************************************************************)
(* The steps of the threads.                                               *)
(***************************************************************************)

(* As long as new or drop has not returned for the last time, the number   *)
(* of a transport names its own file or none.                              *)
LEMMA OwnNumber ==
  ASSUME IInv, NEW i \in Sessions, phase[i] \in {"live", "joining"}
  PROVE  Reached(i) \in {i, None}
BY DEF IInv, TypeOK, NumbersFit, Reached

LEMMA Ep0StepKeeps ==
  ASSUME IInv, NEW i \in Sessions, Ep0Step(i)
  PROVE  IInv'
<1> USE DEF IInv
<1>1. /\ ep0' \in [Sessions -> Threads]
      /\ ep0[i].at \in {"loop", "ioctl", "work", "ack"} /\ ep0'[i].at # "none"
      /\ ep0'[i].file \in {Reached(i), None}
      /\ \A j \in Sessions : j # i => ep0'[j] = ep0[j]
  BY Ep0Moves
<1>2. /\ reader' \in [Sessions -> Threads]
      /\ \A j \in Sessions :
           \/ reader'[j] = reader[j]
           \/ j = i /\ reader[j].at = "none" /\ reader'[j] = At("loop")
  BY ReaderStarts
<1>3. /\ UNCHANGED <<phase, fd, fdt, ran, taken, wakes>>
      /\ enabled' \subseteq ran
  BY DEF Ep0Step, Fetch, FetchReturns, FetchFails, Configure, AckReturns, files, TypeOK
<1>4. phase[i] \in {"live", "joining"} /\ Reached(i) \in {i, None}
  BY <1>1, OwnNumber DEF ThreadsFit
<1>5. TypeOK'
  BY <1>1, <1>2, <1>3 DEF TypeOK
<1>6. OneCall' /\ NumbersFit'
  BY <1>3 DEF OneCall, NumbersFit, Reached
<1>7. ThreadsFit'
  <2> SUFFICES ASSUME NEW j \in Sessions
               PROVE  /\ phase[j] \in {"none", "opened", "inited", "running", "failed"} =>
                           ep0'[j] = At("none")
                      /\ ep0'[j].at \notin {"none", "ended"} => phase[j] \in {"live", "joining"}
                      /\ ep0'[j].file \in {j, None}
                      /\ reader'[j].at = "none" => reader'[j].file = None
                      /\ reader'[j].at = "ioctl" => reader'[j].file # None
                      /\ phase[j] \in {"live", "joining"} => reader'[j].file \in {j, None}
    BY <1>3 DEF ThreadsFit
  <2>1. CASE j = i
    BY <1>1, <1>2, <1>4, <2>1, ThreadType DEF ThreadsFit
  <2>2. CASE j # i
    BY <1>1, <1>2, <2>2 DEF ThreadsFit
  <2> QED BY <2>1, <2>2
<1>8. ThievesEnd'
  BY <1>2, <1>3 DEF ThievesEnd
<1> QED BY <1>5, <1>6, <1>7, <1>8

LEMMA ReaderStepKeeps ==
  ASSUME IInv, NEW i \in Sessions, ReaderStep(i)
  PROVE  IInv'
<1> USE DEF IInv
<1>1. /\ reader' \in [Sessions -> Threads]
      /\ reader[i].at \in {"loop", "ioctl", "work"} /\ reader'[i].at # "none"
      /\ reader'[i].file \in {Reached(i), reader[i].file, None}
      /\ reader'[i].at = "ioctl" => reader'[i].file # None
      /\ \A j \in Sessions : j # i => reader'[j] = reader[j]
  BY ReaderMoves
<1>2. UNCHANGED <<phase, fd, fdt, ran, enabled, ep0, wakes>>
  BY DEF ReaderStep, Read, ReadReturns, ReadFails, Send, files
<1>3. phase[i] \in {"live", "joining", "gone"}
  <2>1. ep0[i].at # "none"
    BY <1>1 DEF TypeOK
  <2>2. phase[i] \notin {"none", "opened", "inited", "running", "failed"}
    BY <2>1, ThreadType DEF ThreadsFit
  <2> QED BY <2>2 DEF TypeOK, Phases
<1>4. phase[i] # "gone" => reader'[i].file \in {i, None}
  BY <1>1, <1>3, OwnNumber DEF ThreadsFit
(* A report from another gadget: only in phase "gone", and then to "work". *)
<1>5. /\ taken' \in [Sessions -> Nat]
      /\ \A j \in Sessions : j # i => taken'[j] = taken[j]
      /\ \/ taken'[i] = taken[i]
         \/ /\ reader[i].at = "ioctl" /\ reader[i].file # i /\ reader'[i].at = "work"
            /\ taken'[i] = taken[i] + 1
  <2>1. CASE UNCHANGED taken
    BY <2>1 DEF TypeOK
  <2>2. CASE ReadReturns(i) /\ taken' # taken
    <3>1. /\ ReaderIs(i, In("work", reader[i].file)) /\ reader[i].at = "ioctl"
          /\ taken' = [taken EXCEPT ![i] = @ + IF reader[i].file = i THEN 0 ELSE 1]
      BY <2>2 DEF ReadReturns
    <3>2. In("work", reader[i].file) \in Threads /\ In("work", reader[i].file).at = "work"
      BY ThreadType DEF TypeOK, Threads
    <3>3. reader'[i].at = "work"
      BY <3>1, <3>2, ReaderBecomes
    <3> QED BY <3>1, <3>3 DEF TypeOK
  <2> QED BY <2>1, <2>2 DEF ReaderStep, Read, ReadReturns, ReadFails, Send
<1>6. TypeOK'
  BY <1>1, <1>2, <1>5 DEF TypeOK
<1>7. OneCall' /\ NumbersFit'
  BY <1>2 DEF OneCall, NumbersFit, Reached
<1>8. ThreadsFit'
  BY <1>1, <1>2, <1>3, <1>4 DEF ThreadsFit
<1>9. ThievesEnd'
  <2> SUFFICES ASSUME NEW j \in Sessions, taken'[j] # 0
               PROVE  taken'[j] = 1 /\ phase[j] = "gone" /\ reader'[j].at \in {"work", "ended"}
    BY <1>2 DEF ThievesEnd
  <2>1. CASE j # i
    BY <1>1, <1>5, <2>1 DEF ThievesEnd
  <2>2. CASE j = i /\ taken'[i] = taken[i]
    <3>1. taken[i] = 1 /\ phase[i] = "gone" /\ reader[i].at = "work"
      BY <1>1, <2>2 DEF ThievesEnd
    <3>2. Send(i)
      BY <3>1 DEF ReaderStep, Read, ReadReturns, ReadFails
    <3>3. reader'[i].at = "ended"
      BY <3>1, <3>2, ThreadType, ReaderBecomes DEF Send
    <3> QED BY <2>2, <3>1, <3>3
  <2>3. CASE j = i /\ taken'[i] # taken[i]
    <3>1. taken[i] = 0
      BY <1>5, <2>3 DEF ThievesEnd
    <3>2. phase[i] = "gone"
      BY <1>3, <1>5, <2>3 DEF ThreadsFit
    <3> QED BY <1>5, <2>3, <3>1, <3>2
  <2> QED BY <2>1, <2>2, <2>3
<1> QED BY <1>6, <1>7, <1>8, <1>9

LEMMA InvStep == IInv /\ [Next]_vars => IInv'
<1> SUFFICES ASSUME IInv, [Next]_vars PROVE IInv'
  OBVIOUS
<1>1. CASE UNCHANGED vars
  BY <1>1 DEF vars, files, IInv, TypeOK, OneCall, NumbersFit, ThreadsFit, ThievesEnd, Reached
<1> QED BY <1>1, OpenStep, NewStep, CloseStep, JoinStep, Ep0StepKeeps, ReaderStepKeeps
        DEF Next

LEMMA Inductive == Spec => []IInv
BY InvInit, InvStep, PTL DEF Spec
-----------------------------------------------------------------------------

(* Types; and until its drop a transport's number names its own file.      *)
THEOREM TypeCorrect == Spec => []TypeOK
<1>1. IInv => TypeOK
  BY DEF IInv
<1> QED BY <1>1, Inductive, PTL

(* However many transports come and go, and whatever numbers they get:     *)
(* ep0 is never in another transport's gadget, nor is a reader before its  *)
(* own transport is gone (transport_hw.rs:160-167).                        *)
THEOREM NoTrespass == Spec => []OwnGadget
<1>1. IInv => OwnGadget
  <2> SUFFICES ASSUME IInv, NEW i \in Sessions, phase[i] \in {"live", "joining"}
               PROVE  {Reached(i), ep0[i].file, reader[i].file} \subseteq {i, None}
    BY DEF IInv, ThreadsFit, OwnGadget
  <2> QED BY OwnNumber DEF IInv, ThreadsFit
<1> QED BY <1>1, Inductive, PTL

(* A reader that outlived its transport takes one report that it           *)
(* recognises from later gadgets at most; junk and empty transfers, which  *)
(* it reads and drops (lines 414-420), are not counted                     *)
(* (transport_hw.rs:394-449).                                              *)
THEOREM OneTheft == Spec => []StealsAtMostOne
<1>1. IInv => StealsAtMostOne
  BY DEF IInv, TypeOK, ThievesEnd, StealsAtMostOne
<1> QED BY <1>1, Inductive, PTL
=============================================================================
