-------------------------- MODULE OutputPathProofs --------------------------
(* Proofs about OutputPath, for any slots, readers and numbers of reports. *)
EXTENDS OutputPath, WellFoundedInduction, TLAPS

USE ServedByAssumption, NoneAssumption, BoundAssumption

LEMMA ReportType ==
  \A r \in Reports : r.key \in Keys /\ r.n \in Nat /\ r.n > 0 /\ r # None
BY DEF Reports

LEMMA KeyType ==
  /\ \A k \in Keys : k[1] \in Slots /\ k[2] \in Kinds
  /\ \A s \in Slots : <<s, "rumble">> \in Keys /\ <<s, "led">> \in Keys
BY DEF Keys, Kinds
-----------------------------------------------------------------------------

(***************************************************************************)
(* What a poll would return: lemmas about Newest, for a channel q and      *)
(* buffers b.                                                              *)
(***************************************************************************)

Of(q, k) == {j \in 1 .. Len(q) : q[j].key = k}

IsLast(q, k, j) == j \in Of(q, k) /\ \A l \in Of(q, k) : l <= j

NewestOf(q, b, k) ==
  IF Of(q, k) = {} THEN b[k] ELSE q[CHOOSE j \in Of(q, k) : \A l \in Of(q, k) : l <= j].n

(* A bounded set of indices has a last. *)
LEMMA LastExists ==
  ASSUME NEW q \in Seq(Reports), NEW k, Of(q, k) # {}
  PROVE  \E j : IsLast(q, k, j)
<1> DEFINE FromEnd == {Len(q) - j : j \in Of(q, k)}
<1>1. Of(q, k) \subseteq Nat /\ Len(q) \in Nat /\ \A j \in Of(q, k) : j <= Len(q)
  BY DEF Of
<1>2. FromEnd \subseteq Nat /\ FromEnd # {}
  BY <1>1
<1>3. PICK d \in FromEnd : \A e \in FromEnd : <<e, d>> \notin OpToRel(<, Nat)
  BY <1>2, NatLessThanWellFounded, WFMin, Zenon
<1>4. \A e \in FromEnd : ~ (e < d)
  BY <1>2, <1>3 DEF OpToRel
<1>5. PICK j \in Of(q, k) : d = Len(q) - j
  BY <1>3
<1>6. \A l \in Of(q, k) : l <= j
  <2> TAKE l \in Of(q, k)
  <2>1. Len(q) - l \in FromEnd
    OBVIOUS
  <2>2. ~ (Len(q) - l < Len(q) - j)
    BY <1>4, <1>5, <2>1
  <2> HIDE DEF FromEnd
  <2> QED BY <1>1, <2>2
<1> QED BY <1>5, <1>6 DEF IsLast

LEMMA NewestIsLast ==
  ASSUME NEW q \in Seq(Reports), NEW b, NEW k, NEW j, IsLast(q, k, j)
  PROVE  NewestOf(q, b, k) = q[j].n
<1>1. Of(q, k) # {} /\ Of(q, k) \subseteq Nat
  BY DEF IsLast, Of
<1> DEFINE c == CHOOSE i \in Of(q, k) : \A l \in Of(q, k) : l <= i
<1>2. c \in Of(q, k) /\ \A l \in Of(q, k) : l <= c
  BY DEF IsLast
<1>3. NewestOf(q, b, k) = q[c].n
  BY <1>1 DEF NewestOf
<1> HIDE DEF c
<1>4. c = j
  BY <1>1, <1>2 DEF IsLast
<1> QED BY <1>3, <1>4

LEMMA NewestBuffered ==
  ASSUME NEW q, NEW b, NEW k, Of(q, k) = {}
  PROVE  NewestOf(q, b, k) = b[k]
BY DEF NewestOf

(* A report sent is the newest of its key and disturbs no other key. *)
LEMMA NewestAppend ==
  ASSUME NEW q \in Seq(Reports), NEW b, NEW r \in Reports, NEW k \in Keys
  PROVE  NewestOf(Append(q, r), b, k) = IF r.key = k THEN r.n ELSE NewestOf(q, b, k)
<1> DEFINE p == Append(q, r)
<1>1. p \in Seq(Reports) /\ Len(p) = Len(q) + 1 /\ Len(q) \in Nat /\ p[Len(q) + 1] = r
  OBVIOUS
<1>2. \A j \in 1 .. Len(q) : p[j] = q[j]
  OBVIOUS
<1> HIDE DEF p
<1>3. CASE r.key = k
  <2>1. IsLast(p, k, Len(q) + 1)
    BY <1>1, <1>3 DEF IsLast, Of
  <2>2. NewestOf(p, b, k) = r.n
    BY <1>1, <2>1, NewestIsLast
  <2> QED BY <1>3, <2>2 DEF p
<1>4. CASE r.key # k
  <2>1. Of(p, k) = Of(q, k)
    BY <1>1, <1>2, <1>4 DEF Of
  <2>2. CASE Of(q, k) = {}
    <3>1. NewestOf(p, b, k) = NewestOf(q, b, k)
      BY <2>1, <2>2, NewestBuffered
    <3> QED BY <1>4, <3>1 DEF p
  <2>3. CASE Of(q, k) # {}
    <3>1. PICK j : IsLast(q, k, j)
      BY <2>3, LastExists
    <3>2. IsLast(p, k, j) /\ j \in 1 .. Len(q)
      BY <2>1, <3>1 DEF IsLast, Of
    <3>3. NewestOf(p, b, k) = p[j].n /\ NewestOf(q, b, k) = q[j].n
      BY <1>1, <3>1, <3>2, NewestIsLast
    <3> QED BY <1>2, <1>4, <3>2, <3>3 DEF p
  <2> QED BY <2>2, <2>3
<1> QED BY <1>3, <1>4

(* Moving the oldest report of the channel to its buffer changes nothing   *)
(* that a poll would return.                                               *)
LEMMA NewestDrained ==
  ASSUME NEW q \in Seq(Reports), q # << >>, NEW b \in [Keys -> Nat], NEW k \in Keys
  PROVE  NewestOf(Tail(q), [b EXCEPT ![Head(q).key] = Head(q).n], k) = NewestOf(q, b, k)
<1> DEFINE p == Tail(q)
           c == [b EXCEPT ![Head(q).key] = Head(q).n]
<1>1. /\ p \in Seq(Reports) /\ Len(q) = Len(p) + 1 /\ Len(p) \in Nat
      /\ Head(q) = q[1] /\ q[1] \in Reports
  OBVIOUS
<1>2. \A j \in 1 .. Len(p) : p[j] = q[j + 1]
  OBVIOUS
<1>3. c[k] = IF q[1].key = k THEN q[1].n ELSE b[k]
  BY <1>1
<1> HIDE DEF p, c
<1>4. \A j : j \in Of(p, k) <=> j \in Nat \ {0} /\ j + 1 \in Of(q, k)
  BY <1>1, <1>2 DEF Of
<1>5. Of(q, k) \subseteq Nat \ {0} /\ (1 \in Of(q, k) <=> q[1].key = k)
  BY <1>1 DEF Of
<1>6. CASE Of(q, k) = {}
  <2>1. Of(p, k) = {} /\ q[1].key # k
    BY <1>4, <1>5, <1>6
  <2>2. NewestOf(p, c, k) = NewestOf(q, b, k)
    BY <1>3, <1>6, <2>1, NewestBuffered
  <2> QED BY <2>2 DEF p, c
<1>7. CASE Of(q, k) # {}
  <2>1. PICK j : IsLast(q, k, j)
    BY <1>7, LastExists
  <2>2. NewestOf(q, b, k) = q[j].n
    BY <2>1, NewestIsLast
  <2>3. CASE j = 1
    <3>1. Of(p, k) = {}
      BY <1>4, <1>5, <2>1, <2>3 DEF IsLast
    <3>2. c[k] = q[1].n
      BY <1>3, <1>5, <2>1, <2>3 DEF IsLast
    <3>3. NewestOf(p, c, k) = NewestOf(q, b, k)
      BY <2>2, <2>3, <3>1, <3>2, NewestBuffered
    <3> QED BY <3>3 DEF p, c
  <2>4. CASE j # 1
    <3>1. j \in Nat /\ j > 1
      BY <1>5, <2>1, <2>4 DEF IsLast
    <3>2. IsLast(p, k, j - 1)
      <4>1. j - 1 \in Of(p, k)
        BY <1>4, <2>1, <3>1 DEF IsLast
      <4>2. \A l \in Of(p, k) : l <= j - 1
        BY <1>4, <2>1, <3>1 DEF IsLast
      <4> QED BY <4>1, <4>2 DEF IsLast
    <3>3. p[j - 1] = q[j]
      <4>1. j - 1 \in 1 .. Len(p)
        BY <3>2 DEF IsLast, Of
      <4>2. j - 1 + 1 = j
        BY <3>1
      <4> QED BY <1>2, <4>1, <4>2
    <3>4. NewestOf(p, c, k) = NewestOf(q, b, k)
      BY <1>1, <2>2, <3>2, <3>3, NewestIsLast
    <3> QED BY <3>4 DEF p, c
  <2> QED BY <2>3, <2>4
<1> QED BY <1>6, <1>7
-----------------------------------------------------------------------------

(***************************************************************************)
(* Types.  They need no assumption on who serves which slot.               *)
(***************************************************************************)

(* A transfer appended is the last, and the others stay where they are. *)
LEMMA AppendedAt ==
  ASSUME NEW q \in Seq(Reports \cup {Junk}), NEW x \in Reports \cup {Junk}
  PROVE  /\ Append(q, x) \in Seq(Reports \cup {Junk})
         /\ Len(q) \in Nat /\ Len(Append(q, x)) = Len(q) + 1
         /\ Append(q, x)[Len(q) + 1] = x
         /\ \A a \in 1 .. Len(q) : Append(q, x)[a] = q[a]
OBVIOUS

LEMMA TailAt ==
  ASSUME NEW q \in Seq(Reports \cup {Junk}), q # << >>
  PROVE  /\ Tail(q) \in Seq(Reports \cup {Junk})
         /\ Len(Tail(q)) \in Nat /\ Len(q) = Len(Tail(q)) + 1
         /\ Head(q) = q[1] /\ q[1] \in Reports \cup {Junk}
         /\ \A a \in 1 .. Len(Tail(q)) : a + 1 \in 1 .. Len(q) /\ Tail(q)[a] = q[a + 1]
OBVIOUS

(* What the host's sending does: only the wire of s grows, by x at its end. *)
LEMMA Sends ==
  ASSUME TypeOK, NEW s \in Slots, HostSends(s)
  PROVE  \E x \in Reports \cup {Junk} :
           /\ \/ /\ x \in Reports /\ x.key[1] = s /\ x.n = sent[x.key] + 1
                 /\ sent' = [sent EXCEPT ![x.key] = x.n]
                 /\ x.n <= MaxSent[x.key]
              \/ x = Junk /\ sent' = sent
           /\ wire' = [wire EXCEPT ![s] = Append(@, x)]
<1>1. CASE \E kind \in Kinds :
             LET k == <<s, kind>>
             IN /\ sent[k] < MaxSent[k]
                /\ sent' = [sent EXCEPT ![k] = @ + 1]
                /\ wire' = [wire EXCEPT ![s] = Append(@, [key |-> k, n |-> sent[k] + 1])]
  <2>1. PICK kind \in Kinds :
             LET k == <<s, kind>>
             IN /\ sent[k] < MaxSent[k]
                /\ sent' = [sent EXCEPT ![k] = @ + 1]
                /\ wire' = [wire EXCEPT ![s] = Append(@, [key |-> k, n |-> sent[k] + 1])]
    BY <1>1
  <2> DEFINE k == <<s, kind>>
             x == [key |-> k, n |-> sent[k] + 1]
  <2>2. k \in Keys /\ k[1] = s /\ sent[k] \in Nat /\ MaxSent[k] \in Nat
    BY DEF Keys, TypeOK
  <2>3. x.key = k /\ x.n = sent[k] + 1 /\ x \in Reports
    BY <2>2 DEF Reports
  <2>4. /\ sent' = [sent EXCEPT ![k] = sent[k] + 1] /\ sent[k] + 1 <= MaxSent[k]
        /\ wire' = [wire EXCEPT ![s] = Append(@, x)]
    BY <2>1, <2>2
  <2> HIDE DEF k, x
  <2> QED BY <2>2, <2>3, <2>4
<1>2. CASE wire' = [wire EXCEPT ![s] = Append(@, Junk)] /\ UNCHANGED sent
  BY <1>2
<1> QED BY <1>1, <1>2 DEF HostSends

LEMMA SendsType ==
  ASSUME TypeOK, OwnWire, NEW s \in Slots, HostSends(s)
  PROVE  TypeOK' /\ OwnWire'
<1>1. PICK x \in Reports \cup {Junk} :
           /\ \/ /\ x \in Reports /\ x.key[1] = s /\ x.n = sent[x.key] + 1
                 /\ sent' = [sent EXCEPT ![x.key] = x.n]
                 /\ x.n <= MaxSent[x.key]
              \/ x = Junk /\ sent' = sent
           /\ wire' = [wire EXCEPT ![s] = Append(@, x)]
  BY Sends
<1>2. wire[s] \in Seq(Reports \cup {Junk})
  BY DEF TypeOK
<1>3. wire' \in [Slots -> Seq(Reports \cup {Junk})] /\ wire'[s] = Append(wire[s], x)
      /\ \A u \in Slots : u # s => wire'[u] = wire[u]
  BY <1>1, <1>2, AppendedAt DEF TypeOK
<1>4. sent' \in [Keys -> Nat] /\ \A k \in Keys : sent'[k] <= MaxSent[k]
  BY <1>1, ReportType DEF TypeOK
<1>5. TypeOK'
  BY <1>3, <1>4 DEF TypeOK, HostSends, threads, callerVars
<1>6. ASSUME NEW u \in Slots, NEW a \in 1 .. Len(wire'[u]), wire'[u][a] # Junk
      PROVE  wire'[u][a].key[1] = u
  <2>1. CASE u # s
    BY <1>3, <1>6, <2>1 DEF OwnWire
  <2>2. CASE u = s /\ a \in 1 .. Len(wire[s])
    <3>1. \A c \in 1 .. Len(wire[s]) : Append(wire[s], x)[c] = wire[s][c]
      BY <1>2, AppendedAt
    <3>2. wire'[u][a] = wire[s][a]
      BY <1>3, <2>2, <3>1
    <3> QED BY <1>6, <2>2, <3>2 DEF OwnWire
  <2>3. CASE u = s /\ a = Len(wire[s]) + 1
    BY <1>1, <1>2, <1>3, <1>6, <2>3, AppendedAt
  <2> QED BY <1>2, <1>3, <2>1, <2>2, <2>3, AppendedAt
<1> QED BY <1>5, <1>6 DEF OwnWire

LEMMA ReadType ==
  ASSUME TypeOK, OwnWire, NEW t \in Readers, Read(t)
  PROVE  TypeOK' /\ OwnWire'
<1> DEFINE s == ServedBy[t]
<1>1. s \in Slots /\ wire[s] \in Seq(Reports \cup {Junk}) /\ wire[s] # << >>
  BY DEF TypeOK, Read
<1>2. /\ wire' = [wire EXCEPT ![s] = Tail(@)]
      /\ held' = [held EXCEPT ![t] = IF Head(wire[s]) = Junk THEN None ELSE Head(wire[s])]
  BY DEF Read
<1> HIDE DEF s
<1>3. /\ wire' \in [Slots -> Seq(Reports \cup {Junk})] /\ wire'[s] = Tail(wire[s])
      /\ \A u \in Slots : u # s => wire'[u] = wire[u]
  BY <1>1, <1>2, TailAt DEF TypeOK
<1>4. /\ held' \in [Readers -> Reports \cup {None}]
      /\ held'[t] # None => held'[t] = wire[s][1] /\ wire[s][1] # Junk
      /\ \A u \in Readers : u # t => held'[u] = held[u]
  BY <1>1, <1>2, TailAt DEF TypeOK
<1>5. held'[t] # None => held'[t].key[1] = s
  <2>1. 1 \in 1 .. Len(wire[s])
    BY <1>1, TailAt
  <2> QED BY <1>1, <1>4, <2>1 DEF OwnWire
<1>6. TypeOK'
  BY <1>3, <1>4, <1>5 DEF TypeOK, Read, callerVars, s
<1>7. ASSUME NEW u \in Slots, NEW a \in 1 .. Len(wire'[u]), wire'[u][a] # Junk
      PROVE  wire'[u][a].key[1] = u
  <2>1. CASE u # s
    BY <1>3, <1>7, <2>1 DEF OwnWire
  <2>2. CASE u = s
    <3>1. a + 1 \in 1 .. Len(wire[s]) /\ wire'[s][a] = wire[s][a + 1]
      BY <1>1, <1>3, <2>2, TailAt
    <3> QED BY <1>1, <1>7, <2>2, <3>1 DEF OwnWire
  <2> QED BY <2>1, <2>2
<1> QED BY <1>6, <1>7 DEF OwnWire

(* TypeOK in two halves: up to tx.send, and from the channel on. *)
ReadersOK ==
  /\ sent \in [Keys -> Nat] /\ \A k \in Keys : sent[k] <= MaxSent[k]
  /\ wire \in [Slots -> Seq(Reports \cup {Junk})]
  /\ running \subseteq Readers
  /\ held \in [Readers -> Reports \cup {None}]
  /\ \A t \in Readers :
       held[t] # None => t \in running /\ held[t].key[1] = ServedBy[t]

PollsOK ==
  /\ polling \in Keys \cup {None}
  /\ both \in BOOLEAN
  /\ both => polling # None /\ polling[2] = "rumble"

BuffersOK ==
  /\ output_rx \in Seq(Reports)
  /\ rx \in BOOLEAN
  /\ buf \in [Keys -> Nat]
  /\ got \in [Keys -> Nat]

LEMMA Halves == TypeOK <=> ReadersOK /\ BuffersOK /\ PollsOK
BY DEF TypeOK, ReadersOK, BuffersOK, PollsOK

LEMMA HalvesPrime == TypeOK' <=> ReadersOK' /\ BuffersOK' /\ PollsOK'
BY DEF TypeOK, ReadersOK, BuffersOK, PollsOK

(* The steps of a poll and of the drop. *)
CallerStep ==
  \/ \E s \in Slots : PollOutput(s)
  \/ \E k \in Keys : Poll(k)
  \/ DrainOne \/ TakeReport \/ TakeNothing \/ DropReceiver

LEMMA NextCases ==
  ASSUME Next
  PROVE  \/ \E s \in Slots : HostSends(s) \/ HostFlushes(s)
         \/ \E t \in Readers : Read(t) \/ ReadFails(t) \/ Send(t)
         \/ CallerStep
BY DEF Next, CallerStep

LEMMA CallerKeepsReaders ==
  ASSUME CallerStep
  PROVE  UNCHANGED <<sent, wire, running, held>>
BY DEF CallerStep, PollOutput, Poll, DrainOne, TakeReport, TakeNothing, DropReceiver,
       threads

LEMMA CallerBuffers ==
  ASSUME BuffersOK, PollsOK, CallerStep
  PROVE  BuffersOK'
<1>1. CASE \/ \E s \in Slots : PollOutput(s)
           \/ \E k \in Keys : Poll(k)
           \/ TakeNothing
  BY <1>1 DEF BuffersOK, PollOutput, Poll, TakeNothing
<1>2. CASE DrainOne
  <2>1. Head(output_rx) \in Reports /\ Tail(output_rx) \in Seq(Reports)
    BY <1>2 DEF BuffersOK, DrainOne
  <2> QED BY <1>2, <2>1, ReportType DEF BuffersOK, DrainOne
<1>3. CASE TakeReport
  BY <1>3 DEF BuffersOK, PollsOK, TakeReport
<1>4. CASE DropReceiver
  <2>1. rx' \in BOOLEAN
    BY <1>4 DEF DropReceiver
  <2>2. output_rx' \in Seq(Reports) /\ buf' \in [Keys -> Nat] /\ got' \in [Keys -> Nat]
    BY <1>4 DEF BuffersOK, DropReceiver, Nothing
  <2> QED BY <2>1, <2>2 DEF BuffersOK
<1> QED BY <1>1, <1>2, <1>3, <1>4 DEF CallerStep

LEMMA CallerPolls ==
  ASSUME PollsOK, CallerStep
  PROVE  PollsOK'
<1>1. CASE \E s \in Slots : PollOutput(s)
  <2>1. PICK s \in Slots : PollOutput(s)
    BY <1>1
  <2>2. polling' = <<s, "rumble">> /\ polling' \in Keys /\ polling' # None
    BY <2>1, KeyType DEF PollOutput
  <2>3. polling'[2] = "rumble"
    BY <2>2
  <2>4. both' \in BOOLEAN
    BY <2>1 DEF PollOutput
  <2> QED BY <2>2, <2>3, <2>4 DEF PollsOK
<1>2. CASE \E k \in Keys : Poll(k)
  BY <1>2 DEF PollsOK, Poll
<1>3. CASE DrainOne \/ DropReceiver
  BY <1>3 DEF PollsOK, DrainOne, DropReceiver, callerVars
<1>4. CASE TakeReport
  BY <1>4 DEF PollsOK, TakeReport
<1>5. CASE TakeNothing
  <2>1. polling' \in Keys \cup {None}
    BY <1>5, KeyType DEF PollsOK, TakeNothing
  <2>2. both' \in BOOLEAN /\ ~both'
    BY <1>5, Zenon DEF TakeNothing
  <2> QED BY <2>1, <2>2 DEF PollsOK
<1> QED BY <1>1, <1>2, <1>3, <1>4, <1>5 DEF CallerStep

LEMMA CallerType ==
  ASSUME TypeOK, OwnWire, CallerStep
  PROVE  TypeOK' /\ OwnWire'
<1>1. OwnWire'
  BY CallerKeepsReaders DEF OwnWire
<1>2. ReadersOK'
  BY Halves, CallerKeepsReaders DEF ReadersOK
<1>3. BuffersOK' /\ PollsOK'
  BY Halves, CallerBuffers, CallerPolls
<1> QED BY <1>1, <1>2, <1>3, HalvesPrime

LEMMA TypeInit == Init => TypeOK /\ OwnWire
<1> SUFFICES ASSUME Init PROVE TypeOK /\ OwnWire
  OBVIOUS
<1>1. ReadersOK
  BY DEF Init, ReadersOK, Nothing
<1>2. BuffersOK
  BY DEF Init, BuffersOK, Nothing
<1>3. PollsOK
  BY DEF Init, PollsOK
<1>4. OwnWire
  BY DEF Init, OwnWire
<1> QED BY <1>1, <1>2, <1>3, <1>4, Halves

LEMMA TypeStep ==
  ASSUME TypeOK, OwnWire, [Next]_vars
  PROVE  TypeOK' /\ OwnWire'
<1>1. CASE UNCHANGED vars
  BY <1>1 DEF TypeOK, OwnWire, vars, threads, callerVars
<1>2. ASSUME NEW s \in Slots, HostFlushes(s)
      PROVE  TypeOK' /\ OwnWire'
  <2>1. /\ wire' \in [Slots -> Seq(Reports \cup {Junk})] /\ wire'[s] = << >>
        /\ \A u \in Slots : u # s => wire'[u] = wire[u]
    BY <1>2 DEF TypeOK, HostFlushes
  <2>2. TypeOK'
    BY <1>2, <2>1 DEF TypeOK, HostFlushes, threads, callerVars
  <2>3. ASSUME NEW u \in Slots, NEW a \in 1 .. Len(wire'[u]), wire'[u][a] # Junk
        PROVE  wire'[u][a].key[1] = u
    <3>1. u # s
      BY <2>1
    <3> QED BY <2>1, <2>3, <3>1 DEF OwnWire
  <2> QED BY <2>2, <2>3 DEF OwnWire
<1>3. ASSUME NEW t \in Readers, ReadFails(t)
      PROVE  TypeOK' /\ OwnWire'
  BY <1>3 DEF TypeOK, OwnWire, ReadFails, callerVars
<1>4. ASSUME NEW t \in Readers, Send(t)
      PROVE  TypeOK' /\ OwnWire'
  <2>1. held' \in [Readers -> Reports \cup {None}] /\ held'[t] = None
        /\ \A u \in Readers : u # t => held'[u] = held[u]
    BY <1>4 DEF TypeOK, Send
  <2>2. output_rx' \in Seq(Reports)
    <3>1. held[t] \in Reports /\ output_rx \in Seq(Reports)
      BY <1>4 DEF TypeOK, Send
    <3>2. Append(output_rx, held[t]) \in Seq(Reports)
      BY <3>1
    <3> QED BY <1>4, <3>1, <3>2 DEF Send
  <2>3. running' \subseteq Readers /\ \A u \in Readers : u \in running /\ u # t => u \in running'
    BY <1>4 DEF TypeOK, Send
  <2> QED BY <1>4, <2>1, <2>2, <2>3 DEF TypeOK, OwnWire, Send, callerVars
<1> QED BY <1>1, <1>2, <1>3, <1>4, NextCases, SendsType, ReadType, CallerType

(* Every variable has its type; what a reader holds is a report for the    *)
(* slot it was spawned for (ep_out_loop, transport_hw.rs:395-419).         *)
THEOREM TypeCorrect == Spec => []TypeOK
<1>1. Init => TypeOK /\ OwnWire
  BY TypeInit
<1>2. (TypeOK /\ OwnWire) /\ [Next]_vars => (TypeOK /\ OwnWire)'
  BY TypeStep
<1> QED BY <1>1, <1>2, PTL DEF Spec
-----------------------------------------------------------------------------

(***************************************************************************)
(* What has passed the readers.                                            *)
(***************************************************************************)

PassedOf(q, b, g, k) == {b[k], g[k]} \cup {q[j].n : j \in Of(q, k)}

LEMMA PassedIs == \A k : Passed(k) = PassedOf(output_rx, buf, got, k)
BY DEF Passed, PassedOf, InChannel, Of

LEMMA PassedIsPrime == \A k : Passed(k)' = PassedOf(output_rx', buf', got', k)
BY DEF Passed, PassedOf, InChannel, Of

LEMMA PassedType ==
  ASSUME BuffersOK, NEW k \in Keys
  PROVE  Passed(k) \subseteq Nat
<1>1. \A j \in InChannel(k) : output_rx[j].n \in Nat
  BY ReportType DEF BuffersOK, InChannel
<1> QED BY <1>1 DEF BuffersOK, Passed

(* A send adds what is sent, to its key only. *)
LEMMA PassedAppend ==
  ASSUME NEW q \in Seq(Reports), NEW b, NEW g, NEW r \in Reports, NEW k,
         NEW p \in PassedOf(Append(q, r), b, g, k)
  PROVE  p \in PassedOf(q, b, g, k) \/ (r.key = k /\ p = r.n)
<1>1. CASE p \in {b[k], g[k]}
  BY <1>1 DEF PassedOf
<1>2. CASE \E j \in Of(Append(q, r), k) : p = Append(q, r)[j].n
  <2>1. PICK j \in Of(Append(q, r), k) : p = Append(q, r)[j].n
    BY <1>2
  <2>2. j \in 1 .. Len(q) + 1 /\ Append(q, r)[j].key = k /\ Len(q) \in Nat
    BY DEF Of
  <2>3. CASE j \in 1 .. Len(q)
    <3>1. Append(q, r)[j] = q[j]
      BY <2>3
    <3> QED BY <2>1, <2>2, <2>3, <3>1 DEF Of, PassedOf
  <2>4. CASE j = Len(q) + 1
    <3>1. Append(q, r)[j] = r
      BY <2>4
    <3> QED BY <2>1, <2>2, <3>1
  <2> QED BY <2>2, <2>3, <2>4
<1> QED BY <1>1, <1>2 DEF PassedOf

(* Draining moves reports and adds none. *)
LEMMA PassedDrained ==
  ASSUME NEW q \in Seq(Reports), q # << >>, NEW b \in [Keys -> Nat], NEW g, NEW k \in Keys
  PROVE  PassedOf(Tail(q), [b EXCEPT ![Head(q).key] = Head(q).n], g, k)
           \subseteq PassedOf(q, b, g, k)
<1> DEFINE c == [b EXCEPT ![Head(q).key] = Head(q).n]
<1>1. q[1] \in Reports /\ Head(q) = q[1] /\ 1 \in 1 .. Len(q)
  OBVIOUS
<1>2. \A j \in 1 .. Len(Tail(q)) : j + 1 \in 1 .. Len(q) /\ Tail(q)[j] = q[j + 1]
  OBVIOUS
<1>3. c[k] = IF q[1].key = k THEN q[1].n ELSE b[k]
  BY <1>1
<1> HIDE DEF c
<1>4. c[k] \in PassedOf(q, b, g, k)
  BY <1>1, <1>3 DEF PassedOf, Of
<1>5. \A j \in Of(Tail(q), k) : Tail(q)[j].n \in PassedOf(q, b, g, k)
  BY <1>2 DEF PassedOf, Of
<1>6. g[k] \in PassedOf(q, b, g, k)
  BY DEF PassedOf
<1>7. PassedOf(Tail(q), c, g, k) \subseteq PassedOf(q, b, g, k)
  BY <1>4, <1>5, <1>6 DEF PassedOf
<1> QED BY <1>7 DEF c

(* Nor does any other step of the caller add one. *)
LEMMA PassedCaller ==
  ASSUME BuffersOK, PollsOK, CallerStep, NEW k \in Keys
  PROVE  Passed(k)' \subseteq Passed(k) \cup {0}
<1> USE PassedIs, PassedIsPrime
<1>1. CASE \/ \E s \in Slots : PollOutput(s)
           \/ \E l \in Keys : Poll(l)
           \/ TakeNothing
  BY <1>1 DEF PollOutput, Poll, TakeNothing
<1>2. CASE DrainOne
  BY <1>2, PassedDrained DEF DrainOne, BuffersOK
<1>3. CASE TakeReport
  <2>1. /\ output_rx' = output_rx /\ polling \in Keys
        /\ got' = [got EXCEPT ![polling] = buf[polling]] /\ buf' = [buf EXCEPT ![polling] = 0]
    BY <1>3 DEF TakeReport, PollsOK
  <2>2. buf'[k] \in {buf[k], 0} /\ got'[k] \in {buf[k], got[k]}
    BY <2>1 DEF BuffersOK
  <2> QED BY <2>1, <2>2 DEF PassedOf
<1>4. CASE DropReceiver
  <2>1. output_rx' = << >> /\ buf'[k] = 0 /\ got' = got
    BY <1>4 DEF DropReceiver, Nothing
  <2>2. Of(output_rx', k) = {}
    BY <2>1 DEF Of
  <2> QED BY <2>1, <2>2 DEF PassedOf
<1> QED BY <1>1, <1>2, <1>3, <1>4 DEF CallerStep
-----------------------------------------------------------------------------

(***************************************************************************)
(* Reports stay in order: passed, held, waiting (PassedFirst, HeldNext and *)
(* WireLast).                                                              *)
(***************************************************************************)

InOrder == PassedFirst /\ HeldNext /\ WireLast

(* The same of given sets of what has passed, numbers sent, and reports    *)
(* held and waiting.                                                       *)
PassedFirstOf(P, n) == \A k \in Keys : \A p \in P[k] : p <= n[k]

HeldNextOf(P, n, h) ==
  \A t \in Readers : h[t] # None =>
    /\ h[t].n <= n[h[t].key]
    /\ \A p \in P[h[t].key] : p < h[t].n

WaitsLast(P, n, h, w, s, a) ==
  /\ w[s][a].n <= n[w[s][a].key]
  /\ \A p \in P[w[s][a].key] : p < w[s][a].n
  /\ \A t \in Readers : h[t] # None /\ h[t].key = w[s][a].key => h[t].n < w[s][a].n
  /\ \A b \in a + 1 .. Len(w[s]) :
       w[s][b] # Junk /\ w[s][b].key = w[s][a].key => w[s][a].n < w[s][b].n

WireLastOf(P, n, h, w) ==
  \A s \in Slots : \A a \in 1 .. Len(w[s]) :
    w[s][a] # Junk => WaitsLast(P, n, h, w, s, a)

InOrderOf(P, n, h, w) ==
  PassedFirstOf(P, n) /\ HeldNextOf(P, n, h) /\ WireLastOf(P, n, h, w)

PassesOf(q, b, g) == [k \in Keys |-> PassedOf(q, b, g, k)]

LEMMA WireType ==
  ASSUME NEW w \in [Slots -> Seq(Reports \cup {Junk})],
         NEW s \in Slots, NEW a \in 1 .. Len(w[s]), w[s][a] # Junk
  PROVE  w[s][a] \in Reports /\ w[s][a].key \in Keys /\ a \in Nat /\ Len(w[s]) \in Nat
<1>1. w[s] \in Seq(Reports \cup {Junk})
  OBVIOUS
<1> QED BY <1>1, ReportType

LEMMA HeldType ==
  ASSUME NEW h \in [Readers -> Reports \cup {None}], NEW t \in Readers, h[t] # None
  PROVE  h[t] \in Reports /\ h[t].key \in Keys
BY ReportType

LEMMA OrderNow ==
  ASSUME TypeOK
  PROVE  InOrder <=> InOrderOf(PassesOf(output_rx, buf, got), sent, held, wire)
<1> USE DEF Passed, PassedOf, PassesOf, InChannel, Of
<1>1. PassedFirst <=> PassedFirstOf(PassesOf(output_rx, buf, got), sent)
  BY DEF PassedFirst, PassedFirstOf
<1>2. HeldNext <=> HeldNextOf(PassesOf(output_rx, buf, got), sent, held)
  <2>1. \A t \in Readers : held[t] # None => held[t].key \in Keys
    BY HeldType DEF TypeOK
  <2> QED BY <2>1 DEF HeldNext, HeldNextOf
<1>3. WireLast <=> WireLastOf(PassesOf(output_rx, buf, got), sent, held, wire)
  <2>1. \A s \in Slots : \A a \in 1 .. Len(wire[s]) :
          wire[s][a] # Junk => wire[s][a].key \in Keys
    BY WireType DEF TypeOK
  <2> QED BY <2>1 DEF WireLast, WireLastOf, WaitsLast
<1> QED BY <1>1, <1>2, <1>3 DEF InOrder, InOrderOf

LEMMA OrderThen ==
  ASSUME TypeOK'
  PROVE  InOrder' <=> InOrderOf(PassesOf(output_rx', buf', got'), sent', held', wire')
<1> USE DEF Passed, PassedOf, PassesOf, InChannel, Of
<1>1. PassedFirst' <=> PassedFirstOf(PassesOf(output_rx', buf', got'), sent')
  BY DEF PassedFirst, PassedFirstOf
<1>2. HeldNext' <=> HeldNextOf(PassesOf(output_rx', buf', got'), sent', held')
  <2>1. \A t \in Readers : held'[t] # None => held'[t].key \in Keys
    BY HeldType DEF TypeOK
  <2> QED BY <2>1 DEF HeldNext, HeldNextOf
<1>3. WireLast' <=> WireLastOf(PassesOf(output_rx', buf', got'), sent', held', wire')
  <2>1. \A s \in Slots : \A a \in 1 .. Len(wire'[s]) :
          wire'[s][a] # Junk => wire'[s][a].key \in Keys
    BY WireType DEF TypeOK
  <2> QED BY <2>1 DEF WireLast, WireLastOf, WaitsLast
<1> QED BY <1>1, <1>2, <1>3 DEF InOrder, InOrderOf

(* What moves no report forward keeps the order. *)
LEMMA OrderShrinks ==
  ASSUME NEW P, NEW n \in [Keys -> Nat],
         NEW h \in [Readers -> Reports \cup {None}],
         NEW w \in [Slots -> Seq(Reports \cup {Junk})],
         InOrderOf(P, n, h, w),
         NEW R, \A k \in Keys : R[k] \subseteq P[k] \cup {0}
  PROVE  InOrderOf(R, n, h, w)
<1> USE DEF InOrderOf
<1>1. PassedFirstOf(R, n)
  BY DEF PassedFirstOf
<1>2. ASSUME NEW t \in Readers, h[t] # None
      PROVE  h[t].n <= n[h[t].key] /\ \A p \in R[h[t].key] : p < h[t].n
  <2>1. h[t].key \in Keys /\ h[t].n > 0
    BY <1>2, HeldType, ReportType
  <2> QED BY <1>2, <2>1 DEF HeldNextOf
<1>3. ASSUME NEW s \in Slots, NEW a \in 1 .. Len(w[s]), w[s][a] # Junk
      PROVE  WaitsLast(R, n, h, w, s, a)
  <2>1. w[s][a].key \in Keys /\ w[s][a].n > 0
    BY <1>3, WireType, ReportType
  <2>2. WaitsLast(P, n, h, w, s, a)
    BY <1>3 DEF WireLastOf
  <2> QED BY <2>1, <2>2 DEF WaitsLast
<1> QED BY <1>1, <1>2, <1>3 DEF HeldNextOf, WireLastOf

LEMMA OrderFlushed ==
  ASSUME NEW P, NEW n, NEW h, NEW w, NEW v, InOrderOf(P, n, h, w),
         \A s \in Slots : v[s] = w[s] \/ v[s] = << >>
  PROVE  InOrderOf(P, n, h, v)
<1>1. ASSUME NEW s \in Slots, NEW a \in 1 .. Len(v[s])
      PROVE  v[s] = w[s]
  BY <1>1
<1> QED BY <1>1 DEF InOrderOf, WireLastOf, WaitsLast

LEMMA OrderJunk ==
  ASSUME NEW P, NEW n, NEW h, NEW w \in [Slots -> Seq(Reports \cup {Junk})],
         InOrderOf(P, n, h, w), NEW s \in Slots
  PROVE  InOrderOf(P, n, h, [w EXCEPT ![s] = Append(@, Junk)])
<1> DEFINE v == [w EXCEPT ![s] = Append(@, Junk)]
<1>1. w[s] \in Seq(Reports \cup {Junk})
  OBVIOUS
<1>2. v[s] = Append(w[s], Junk) /\ \A u \in Slots : u # s => v[u] = w[u]
  OBVIOUS
<1>3. /\ Len(w[s]) \in Nat /\ Len(v[s]) = Len(w[s]) + 1
      /\ v[s][Len(w[s]) + 1] = Junk
      /\ \A a \in 1 .. Len(w[s]) : v[s][a] = w[s][a]
  BY <1>1, <1>2, AppendedAt
<1> HIDE DEF v
<1>4. \A u \in Slots : \A a \in 1 .. Len(v[u]) :
        v[u][a] # Junk => a \in 1 .. Len(w[u]) /\ v[u][a] = w[u][a]
  <2> TAKE u \in Slots
  <2>1. CASE u = s
    <3> TAKE a \in 1 .. Len(v[u])
    <3>1. a \in 1 .. Len(w[s]) \/ a = Len(w[s]) + 1
      BY <1>3, <2>1
    <3> QED BY <1>3, <2>1, <3>1
  <2>2. CASE u # s
    BY <1>2, <2>2
  <2> QED BY <2>1, <2>2
<1>5. ASSUME NEW u \in Slots, NEW a \in 1 .. Len(v[u]), v[u][a] # Junk
      PROVE  WaitsLast(P, n, h, v, u, a)
  <2>1. a \in 1 .. Len(w[u]) /\ v[u][a] = w[u][a]
    BY <1>4, <1>5
  <2>2. WaitsLast(P, n, h, w, u, a)
    BY <1>5, <2>1 DEF InOrderOf, WireLastOf
  <2>3. ASSUME NEW b \in a + 1 .. Len(v[u]), v[u][b] # Junk, v[u][b].key = v[u][a].key
        PROVE  v[u][a].n < v[u][b].n
    <3>1. b \in 1 .. Len(v[u]) /\ a \in Nat
      BY <2>1
    <3>2. b \in a + 1 .. Len(w[u]) /\ v[u][b] = w[u][b]
      BY <1>4, <2>3, <3>1
    <3> QED BY <2>1, <2>2, <2>3, <3>2 DEF WaitsLast
  <2> QED BY <2>1, <2>2, <2>3 DEF WaitsLast
<1>6. InOrderOf(P, n, h, v)
  BY <1>5 DEF InOrderOf, WireLastOf
<1> QED BY <1>6 DEF v

(* What the host sends is newer than all it sent before. *)
LEMMA OrderSent ==
  ASSUME NEW P, NEW n \in [Keys -> Nat],
         NEW h \in [Readers -> Reports \cup {None}],
         NEW w \in [Slots -> Seq(Reports \cup {Junk})],
         \A k \in Keys : P[k] \subseteq Nat,
         InOrderOf(P, n, h, w),
         NEW s \in Slots, NEW x \in Reports, x.n = n[x.key] + 1
  PROVE  InOrderOf(P, [n EXCEPT ![x.key] = x.n], h, [w EXCEPT ![s] = Append(@, x)])
<1> DEFINE m == [n EXCEPT ![x.key] = x.n]
           v == [w EXCEPT ![s] = Append(@, x)]
<1> USE DEF InOrderOf
<1>1. x.key \in Keys /\ x.n \in Nat
  BY ReportType
<1>2. m[x.key] = x.n /\ \A k \in Keys : n[k] <= m[k] /\ n[k] \in Nat /\ m[k] \in Nat
  BY <1>1
<1>3. w[s] \in Seq(Reports \cup {Junk})
  OBVIOUS
<1>4. /\ v[s] = Append(w[s], x) /\ \A u \in Slots : u # s => v[u] = w[u]
      /\ v \in [Slots -> Seq(Reports \cup {Junk})]
  BY <1>3, AppendedAt
<1>5. /\ Len(w[s]) \in Nat /\ Len(v[s]) = Len(w[s]) + 1
      /\ v[s][Len(w[s]) + 1] = x
      /\ \A a \in 1 .. Len(w[s]) : v[s][a] = w[s][a]
  BY <1>3, <1>4, AppendedAt
<1> HIDE DEF m, v
<1>6. PassedFirstOf(P, m)
  <2>1. ASSUME NEW k \in Keys, NEW p \in P[k]
        PROVE  p <= m[k]
    BY <1>2, <2>1 DEF PassedFirstOf
  <2> QED BY <2>1 DEF PassedFirstOf
<1>7. HeldNextOf(P, m, h)
  <2>1. ASSUME NEW t \in Readers, h[t] # None
        PROVE  h[t].n <= m[h[t].key] /\ \A p \in P[h[t].key] : p < h[t].n
    <3>1. h[t].key \in Keys /\ h[t].n \in Nat /\ h[t].n <= n[h[t].key]
      BY <2>1, HeldType, ReportType DEF HeldNextOf
    <3> QED BY <1>2, <2>1, <3>1 DEF HeldNextOf
  <2> QED BY <2>1 DEF HeldNextOf
<1>8. ASSUME NEW u \in Slots, NEW a \in 1 .. Len(v[u]), v[u][a] # Junk
      PROVE  WaitsLast(P, m, h, v, u, a)
  <2>1. v[u][a] \in Reports /\ v[u][a].key \in Keys /\ a \in Nat /\ v[u][a].n \in Nat
    BY <1>4, <1>8, WireType, ReportType
  <2>2. CASE u = s /\ a = Len(w[s]) + 1
    <3>1. v[u][a] = x
      BY <1>5, <2>2
    <3>2. \A p \in P[x.key] : p < x.n
      BY <1>1, <1>2 DEF PassedFirstOf
    <3>3. \A t \in Readers : h[t] # None /\ h[t].key = x.key => h[t].n < x.n
      BY <1>1, <1>2, HeldType, ReportType DEF HeldNextOf
    <3>4. \A b \in a + 1 .. Len(v[u]) : FALSE
      BY <1>5, <2>2
    <3>5. x.n <= m[x.key]
      BY <1>1, <1>2
    <3> QED BY <3>1, <3>2, <3>3, <3>4, <3>5 DEF WaitsLast
  <2>3. CASE a \in 1 .. Len(w[u])
    <3>1. v[u][a] = w[u][a]
      BY <1>4, <1>5, <2>3
    <3>2. WaitsLast(P, n, h, w, u, a)
      BY <1>8, <2>3, <3>1 DEF WireLastOf
    <3>3. v[u][a].n <= n[v[u][a].key] /\ v[u][a].n <= m[v[u][a].key]
      BY <1>2, <2>1, <3>1, <3>2 DEF WaitsLast
    <3>4. ASSUME NEW b \in a + 1 .. Len(v[u]), v[u][b] # Junk, v[u][b].key = v[u][a].key
          PROVE  v[u][a].n < v[u][b].n
      <4>1. CASE u = s /\ b = Len(w[s]) + 1
        BY <1>2, <1>5, <2>1, <3>3, <3>4, <4>1, SMTT(30)
      <4>2. CASE b \in a + 1 .. Len(w[u])
        <5>1. b \in 1 .. Len(w[u])
          BY <2>1, <2>3, <4>2
        <5>2. v[u][b] = w[u][b]
          BY <1>4, <1>5, <5>1
        <5> QED BY <3>1, <3>2, <3>4, <4>2, <5>2 DEF WaitsLast
      <4> QED BY <1>4, <1>5, <4>1, <4>2
    <3> QED BY <3>1, <3>2, <3>3, <3>4 DEF WaitsLast
  <2> QED BY <1>4, <1>5, <2>2, <2>3
<1>9. InOrderOf(P, m, h, v)
  BY <1>6, <1>7, <1>8 DEF WireLastOf
<1> QED BY <1>9 DEF m, v

(* EP_READ takes the oldest transfer of its slot. *)
LEMMA OrderRead ==
  ASSUME NEW P, NEW n \in [Keys -> Nat],
         NEW h \in [Readers -> Reports \cup {None}],
         NEW w \in [Slots -> Seq(Reports \cup {Junk})],
         InOrderOf(P, n, h, w),
         \A u \in Slots : \A a \in 1 .. Len(w[u]) : w[u][a] # Junk => w[u][a].key[1] = u,
         NEW t \in Readers, NEW s \in Slots, w[s] # << >>,
         NEW g \in [Readers -> Reports \cup {None}],
         g[t] # None => g[t] = w[s][1] /\ w[s][1] # Junk,
         \A u \in Readers : u # t => g[u] = h[u]
  PROVE  InOrderOf(P, n, g, [w EXCEPT ![s] = Tail(@)])
<1> DEFINE v == [w EXCEPT ![s] = Tail(@)]
<1> USE DEF InOrderOf
<1>1. w[s] \in Seq(Reports \cup {Junk})
  OBVIOUS
<1>2. /\ v[s] = Tail(w[s]) /\ \A u \in Slots : u # s => v[u] = w[u]
      /\ v \in [Slots -> Seq(Reports \cup {Junk})]
  BY <1>1, TailAt
<1>3. /\ Len(v[s]) \in Nat /\ Len(w[s]) = Len(v[s]) + 1 /\ 1 \in 1 .. Len(w[s])
      /\ \A a \in 1 .. Len(v[s]) : a + 1 \in 1 .. Len(w[s]) /\ v[s][a] = w[s][a + 1]
  BY <1>1, <1>2, TailAt
<1> HIDE DEF v
<1>4. g[t] # None => WaitsLast(P, n, h, w, s, 1)
  BY <1>3 DEF WireLastOf
<1>5. HeldNextOf(P, n, g)
  <2>1. ASSUME NEW u \in Readers, g[u] # None
        PROVE  g[u].n <= n[g[u].key] /\ \A p \in P[g[u].key] : p < g[u].n
    <3>1. CASE u = t
      BY <1>4, <2>1, <3>1 DEF WaitsLast
    <3>2. CASE u # t
      BY <2>1, <3>2 DEF HeldNextOf
    <3> QED BY <3>1, <3>2
  <2> QED BY <2>1 DEF HeldNextOf
<1>6. ASSUME NEW u \in Slots, NEW a \in 1 .. Len(v[u]), v[u][a] # Junk
      PROVE  WaitsLast(P, n, g, v, u, a)
  <2> DEFINE d == IF u = s THEN a + 1 ELSE a
  <2>1. d \in 1 .. Len(w[u]) /\ v[u][a] = w[u][d] /\ a \in Nat
    BY <1>2, <1>3
  <2>2. WaitsLast(P, n, h, w, u, d)
    BY <1>6, <2>1 DEF WireLastOf
  <2>3. w[u][d].key[1] = u
    BY <1>6, <2>1
  <2>4. ASSUME NEW r \in Readers, g[r] # None, g[r].key = v[u][a].key
        PROVE  g[r].n < v[u][a].n
    <3>1. CASE r # t
      BY <2>1, <2>2, <2>4, <3>1 DEF WaitsLast
    <3>2. CASE r = t
      <4>1. g[t] = w[s][1] /\ w[s][1] # Junk /\ w[s][1].key[1] = s
        BY <1>3, <2>4, <3>2
      <4>2. u = s /\ d = a + 1
        BY <2>1, <2>3, <2>4, <3>2, <4>1
      <4>3. d \in 1 + 1 .. Len(w[s])
        BY <2>1, <4>2
      <4>4. WaitsLast(P, n, h, w, s, 1)
        BY <1>4, <2>4, <3>2
      <4> QED BY <1>6, <2>1, <2>4, <3>2, <4>1, <4>2, <4>3, <4>4 DEF WaitsLast
    <3> QED BY <3>1, <3>2
  <2>5. ASSUME NEW b \in a + 1 .. Len(v[u]), v[u][b] # Junk, v[u][b].key = v[u][a].key
        PROVE  v[u][a].n < v[u][b].n
    <3> DEFINE e == IF u = s THEN b + 1 ELSE b
    <3>1. b \in 1 .. Len(v[u]) /\ b \in Nat /\ b >= a + 1
      BY <1>2, <1>3, <2>1
    <3>2. CASE u = s
      <4>1. e = b + 1 /\ d = a + 1 /\ e \in 1 .. Len(w[u]) /\ v[u][b] = w[u][e]
        BY <1>3, <3>1, <3>2
      <4>2. e \in d + 1 .. Len(w[u])
        BY <2>1, <3>1, <4>1
      <4> HIDE DEF d, e
      <4> QED BY <2>1, <2>2, <2>5, <4>1, <4>2 DEF WaitsLast
    <3>3. CASE u # s
      <4>1. e = b /\ d = a /\ v[u] = w[u]
        BY <1>2, <3>3
      <4> HIDE DEF d, e
      <4> QED BY <2>1, <2>2, <2>5, <4>1 DEF WaitsLast
    <3> QED BY <3>2, <3>3
  <2> HIDE DEF d
  <2> QED BY <2>1, <2>2, <2>4, <2>5 DEF WaitsLast
<1>7. InOrderOf(P, n, g, v)
  BY <1>5, <1>6 DEF WireLastOf
<1> QED BY <1>7 DEF v

(* tx.send: what was held has passed.  This is where one reader per slot   *)
(* is needed: another reader could hold an older report of the key.        *)
LEMMA OrderPassed ==
  ASSUME OnePerSlot,
         NEW P, NEW n \in [Keys -> Nat],
         NEW h \in [Readers -> Reports \cup {None}],
         \A t \in Readers : h[t] # None => h[t].key[1] = ServedBy[t],
         NEW w \in [Slots -> Seq(Reports \cup {Junk})],
         InOrderOf(P, n, h, w),
         NEW t \in Readers, h[t] # None,
         NEW R, \A k \in Keys : \A p \in R[k] : p \in P[k] \/ (h[t].key = k /\ p = h[t].n)
  PROVE  InOrderOf(R, n, [h EXCEPT ![t] = None], w)
<1> DEFINE g == [h EXCEPT ![t] = None]
<1> USE DEF InOrderOf
<1>1. g[t] = None /\ \A u \in Readers : u # t => g[u] = h[u]
  OBVIOUS
<1> HIDE DEF g
<1>2. h[t].n <= n[h[t].key] /\ \A p \in P[h[t].key] : p < h[t].n
  BY DEF HeldNextOf
<1>3. PassedFirstOf(R, n)
  BY <1>2 DEF PassedFirstOf
<1>4. ASSUME NEW u \in Readers, g[u] # None
      PROVE  g[u].n <= n[g[u].key] /\ \A p \in R[g[u].key] : p < g[u].n
  <2>1. u # t /\ g[u] = h[u]
    BY <1>1, <1>4
  <2>2. h[u].key \in Keys /\ h[u].key # h[t].key
    BY <1>4, <2>1, HeldType DEF OnePerSlot
  <2> QED BY <1>4, <2>1, <2>2 DEF HeldNextOf
<1>5. ASSUME NEW s \in Slots, NEW a \in 1 .. Len(w[s]), w[s][a] # Junk
      PROVE  WaitsLast(R, n, g, w, s, a)
  <2>1. w[s][a].key \in Keys
    BY <1>5, WireType
  <2>2. WaitsLast(P, n, h, w, s, a)
    BY <1>5 DEF WireLastOf
  <2>3. \A p \in R[w[s][a].key] : p < w[s][a].n
    BY <2>1, <2>2 DEF WaitsLast
  <2>4. \A u \in Readers : g[u] # None => g[u] = h[u]
    BY <1>1
  <2> QED BY <2>2, <2>3, <2>4 DEF WaitsLast
<1>6. InOrderOf(R, n, g, w)
  BY <1>3, <1>4, <1>5 DEF HeldNextOf, WireLastOf
<1> QED BY <1>6 DEF g
-----------------------------------------------------------------------------

(***************************************************************************)
(* The inductive invariant.                                                *)
(***************************************************************************)

LEMMA PassesType ==
  ASSUME BuffersOK, NEW k \in Keys
  PROVE  /\ PassesOf(output_rx, buf, got)[k] = Passed(k)
         /\ PassesOf(output_rx, buf, got)[k] \subseteq Nat
<1>1. PassesOf(output_rx, buf, got)[k] = Passed(k)
  BY PassedIs DEF PassesOf
<1> QED BY <1>1, PassedType

LEMMA CallerPasses ==
  ASSUME BuffersOK, PollsOK, CallerStep
  PROVE  \A k \in Keys : PassesOf(output_rx', buf', got')[k]
                           \subseteq PassesOf(output_rx, buf, got)[k] \cup {0}
<1> TAKE k \in Keys
<1>1. Passed(k)' \subseteq Passed(k) \cup {0}
  BY PassedCaller
<1> QED BY <1>1, PassedIs, PassedIsPrime DEF PassesOf

LEMMA SendPasses ==
  ASSUME TypeOK, NEW t \in Readers, Send(t)
  PROVE  \A k \in Keys : \A p \in PassesOf(output_rx', buf', got')[k] :
           \/ p \in PassesOf(output_rx, buf, got)[k]
           \/ held[t].key = k /\ p = held[t].n
<1> TAKE k \in Keys
<1> TAKE p \in PassesOf(output_rx', buf', got')[k]
<1>1. p \in PassedOf(output_rx', buf', got', k)
  BY DEF PassesOf
<1>2. UNCHANGED <<buf, got>> /\ output_rx' \in {output_rx, Append(output_rx, held[t])}
  BY DEF Send
<1>3. held[t] \in Reports /\ output_rx \in Seq(Reports)
  BY DEF TypeOK, Send
<1>4. CASE output_rx' = output_rx
  BY <1>1, <1>2, <1>4 DEF PassesOf
<1>5. CASE output_rx' = Append(output_rx, held[t])
  BY <1>1, <1>2, <1>3, <1>5, PassedAppend DEF PassesOf
<1> QED BY <1>2, <1>4, <1>5

LEMMA OrderStep ==
  ASSUME OnePerSlot, IInv, TypeOK', [Next]_vars
  PROVE  InOrder'
<1> DEFINE P == PassesOf(output_rx, buf, got)
           R == PassesOf(output_rx', buf', got')
<1>1. /\ TypeOK /\ BuffersOK /\ PollsOK
      /\ InOrderOf(P, sent, held, wire)
      /\ \A k \in Keys : P[k] \subseteq Nat
  BY Halves, OrderNow, PassesType DEF IInv, InOrder
<1>2. /\ sent \in [Keys -> Nat] /\ held \in [Readers -> Reports \cup {None}]
      /\ wire \in [Slots -> Seq(Reports \cup {Junk})]
      /\ \A t \in Readers : held[t] # None => held[t].key[1] = ServedBy[t]
  BY <1>1 DEF TypeOK
<1>3. ASSUME UNCHANGED <<output_rx, buf, got>>
      PROVE  R = P
  BY <1>3
<1> SUFFICES InOrderOf(R, sent', held', wire')
  BY OrderThen
<1>4. CASE UNCHANGED vars
  BY <1>1, <1>4 DEF vars, threads
<1>5. ASSUME NEW s \in Slots, HostSends(s)
      PROVE  InOrderOf(R, sent', held', wire')
  <2>1. R = P /\ held' = held
    BY <1>3, <1>5 DEF HostSends, threads
  <2>2. PICK x \in Reports \cup {Junk} :
           /\ \/ /\ x \in Reports /\ x.key[1] = s /\ x.n = sent[x.key] + 1
                 /\ sent' = [sent EXCEPT ![x.key] = x.n]
                 /\ x.n <= MaxSent[x.key]
              \/ x = Junk /\ sent' = sent
           /\ wire' = [wire EXCEPT ![s] = Append(@, x)]
    BY <1>1, <1>5, Sends
  <2> HIDE DEF P, R
  <2>3. CASE x \in Reports /\ x.n = sent[x.key] + 1 /\ sent' = [sent EXCEPT ![x.key] = x.n]
    BY <1>1, <1>2, <2>1, <2>2, <2>3, OrderSent
  <2>4. CASE x = Junk /\ sent' = sent
    <3>1. wire' = [wire EXCEPT ![s] = Append(@, Junk)]
      BY <2>2, <2>4
    <3> QED BY <1>1, <1>2, <2>1, <2>4, <3>1, OrderJunk
  <2> QED BY <2>2, <2>3, <2>4
<1>6. ASSUME NEW s \in Slots, HostFlushes(s)
      PROVE  InOrderOf(R, sent', held', wire')
  <2>1. R = P /\ held' = held /\ sent' = sent
    BY <1>3, <1>6 DEF HostFlushes, threads
  <2>2. \A u \in Slots : wire'[u] = wire[u] \/ wire'[u] = << >>
    BY <1>2, <1>6 DEF HostFlushes
  <2> HIDE DEF P, R
  <2> QED BY <1>1, <2>1, <2>2, OrderFlushed
<1>7. ASSUME NEW t \in Readers, Read(t)
      PROVE  InOrderOf(R, sent', held', wire')
  <2>1. R = P /\ sent' = sent
    BY <1>3, <1>7 DEF Read
  <2> DEFINE s == ServedBy[t]
  <2>2. s \in Slots /\ wire[s] \in Seq(Reports \cup {Junk}) /\ wire[s] # << >>
    BY <1>2, <1>7 DEF Read
  <2>3. /\ wire' = [wire EXCEPT ![s] = Tail(@)]
        /\ held' = [held EXCEPT ![t] = IF Head(wire[s]) = Junk THEN None ELSE Head(wire[s])]
    BY <1>7 DEF Read
  <2> HIDE DEF P, R, s
  <2>4. /\ held' \in [Readers -> Reports \cup {None}]
        /\ held'[t] # None => held'[t] = wire[s][1] /\ wire[s][1] # Junk
        /\ \A u \in Readers : u # t => held'[u] = held[u]
    BY <1>2, <2>2, <2>3, TailAt
  <2>5. \A u \in Slots : \A a \in 1 .. Len(wire[u]) :
          wire[u][a] # Junk => wire[u][a].key[1] = u
    BY DEF IInv, OwnWire
  <2>6. InOrderOf(P, sent, held', [wire EXCEPT ![s] = Tail(@)])
    BY <1>1, <1>2, <2>2, <2>4, <2>5, OrderRead, ZenonT(40)
  <2> QED BY <2>1, <2>3, <2>6
<1>8. ASSUME NEW t \in Readers, ReadFails(t)
      PROVE  InOrderOf(R, sent', held', wire')
  BY <1>1, <1>3, <1>8 DEF ReadFails
<1>9. ASSUME NEW t \in Readers, Send(t)
      PROVE  InOrderOf(R, sent', held', wire')
  <2>1. /\ held[t] # None /\ held' = [held EXCEPT ![t] = None]
        /\ UNCHANGED <<sent, wire>>
    BY <1>9 DEF Send
  <2>2. \A k \in Keys : \A p \in R[k] : p \in P[k] \/ (held[t].key = k /\ p = held[t].n)
    BY <1>1, <1>9, SendPasses
  <2> HIDE DEF P, R
  <2>3. InOrderOf(R, sent, [held EXCEPT ![t] = None], wire)
    BY <1>1, <1>2, <2>1, <2>2, OrderPassed
  <2> QED BY <2>1, <2>3
<1>10. CASE CallerStep
  <2>1. UNCHANGED <<sent, wire, held>>
    BY <1>10, CallerKeepsReaders
  <2>2. \A k \in Keys : R[k] \subseteq P[k] \cup {0}
    BY <1>1, <1>10, CallerPasses
  <2> HIDE DEF P, R
  <2> QED BY <1>1, <1>2, <2>1, <2>2, OrderShrinks
<1> QED BY <1>4, <1>5, <1>6, <1>7, <1>8, <1>9, <1>10, NextCases

LEMMA InvInit == Init => IInv
<1> SUFFICES ASSUME Init PROVE IInv
  OBVIOUS
<1>1. TypeOK /\ OwnWire /\ (polling # None => rx)
  BY TypeInit DEF Init
<1>2. PassedFirst
  <2>1. \A k \in Keys : sent[k] = 0 /\ buf[k] = 0 /\ got[k] = 0
    BY DEF Init, Nothing
  <2>2. \A k \in Keys : InChannel(k) = {}
    BY DEF Init, InChannel
  <2> QED BY <2>1, <2>2 DEF PassedFirst, Passed
<1>3. HeldNext
  BY DEF Init, HeldNext
<1>4. WireLast
  BY DEF Init, WireLast
<1> QED BY <1>1, <1>2, <1>3, <1>4 DEF IInv

LEMMA InvStep ==
  ASSUME OnePerSlot, IInv, [Next]_vars
  PROVE  IInv'
<1>1. TypeOK' /\ OwnWire'
  BY TypeStep DEF IInv
<1>2. InOrder'
  BY <1>1, OrderStep
<1>3. polling' # None => rx'
  <2>1. CASE UNCHANGED <<polling, rx>>
    BY <2>1 DEF IInv
  <2>2. CASE \/ \E s \in Slots : PollOutput(s)
             \/ \E k \in Keys : Poll(k)
    BY <2>2 DEF PollOutput, Poll
  <2>3. CASE TakeReport \/ TakeNothing
    BY <2>3 DEF TakeReport, TakeNothing, IInv
  <2>4. CASE DropReceiver
    BY <2>4 DEF DropReceiver, callerVars
  <2>5. \/ UNCHANGED <<polling, rx>> \/ TakeReport \/ TakeNothing \/ DropReceiver
        \/ (\E s \in Slots : PollOutput(s)) \/ (\E k \in Keys : Poll(k))
    BY DEF Next, HostSends, HostFlushes, Read, ReadFails, Send, DrainOne, vars, callerVars
  <2> QED BY <2>1, <2>2, <2>3, <2>4, <2>5
<1> QED BY <1>1, <1>2, <1>3 DEF IInv, InOrder
-----------------------------------------------------------------------------

(***************************************************************************)
(* The mailbox.                                                            *)
(***************************************************************************)

BoxOf(q, b) == [k \in Keys |-> NewestOf(q, b, k)]

LEMMA BoxNow == [k \in Keys |-> Newest(k)] = BoxOf(output_rx, buf)
BY DEF BoxOf, NewestOf, Newest, InChannel, Of

LEMMA BoxThen == [k \in Keys |-> Newest(k)]' = BoxOf(output_rx', buf')
BY DEF BoxOf, NewestOf, Newest, InChannel, Of

LEMMA NewestPassed ==
  ASSUME NEW q \in Seq(Reports), NEW b, NEW g, NEW k
  PROVE  NewestOf(q, b, k) \in PassedOf(q, b, g, k)
<1>1. CASE Of(q, k) = {}
  BY <1>1, NewestBuffered DEF PassedOf
<1>2. CASE Of(q, k) # {}
  <2>1. PICK j : IsLast(q, k, j)
    BY <1>2, LastExists
  <2>2. NewestOf(q, b, k) = q[j].n /\ j \in Of(q, k)
    BY <2>1, NewestIsLast DEF IsLast
  <2> QED BY <2>2 DEF PassedOf
<1> QED BY <1>1, <1>2

LEMMA BoxEmptyChannel ==
  ASSUME output_rx = << >>, NEW k \in Keys
  PROVE  BoxOf(output_rx, buf)[k] = buf[k]
<1>1. Of(output_rx, k) = {}
  BY DEF Of
<1> QED BY <1>1, NewestBuffered DEF BoxOf

(* A send into the open channel accepts a report of its key. *)
LEMMA SendPuts ==
  ASSUME IInv, NEW t \in Readers, Send(t), rx
  PROVE  /\ held[t].key \in Keys
         /\ BoxOf(output_rx', buf')[held[t].key] = held[t].n
         /\ held[t].n \in Nat
         /\ held[t].n > BoxOf(output_rx, buf)[held[t].key]
         /\ held[t].n > got[held[t].key]
         /\ BoxOf(output_rx', buf')
              = [BoxOf(output_rx, buf) EXCEPT ![held[t].key] = held[t].n]
<1> DEFINE r == held[t]
<1>1. r \in Reports /\ r # None /\ output_rx \in Seq(Reports)
  BY DEF IInv, TypeOK, Send
<1>2. r.key \in Keys /\ r.n \in Nat
  BY <1>1, ReportType
<1>3. output_rx' = Append(output_rx, r) /\ UNCHANGED <<buf, got>>
  BY DEF Send
<1>4. \A p \in Passed(r.key) : p < r.n
  BY <1>1 DEF IInv, HeldNext
<1> HIDE DEF r
<1>5. \A k \in Keys : NewestOf(output_rx', buf', k)
                        = IF r.key = k THEN r.n ELSE NewestOf(output_rx, buf, k)
  BY <1>1, <1>3, NewestAppend
<1>6. /\ NewestOf(output_rx, buf, r.key) \in Passed(r.key)
      /\ got[r.key] \in Passed(r.key)
  BY <1>1, NewestPassed, PassedIs DEF PassedOf
<1>7. Passed(r.key) \subseteq Nat
  BY <1>2, PassedType, Halves DEF IInv
<1>8. BoxOf(output_rx', buf')[r.key] = r.n
  BY <1>2, <1>5 DEF BoxOf
<1>9. r.n > BoxOf(output_rx, buf)[r.key] /\ r.n > got[r.key]
  BY <1>2, <1>4, <1>6, <1>7 DEF BoxOf
<1>10. BoxOf(output_rx', buf') = [BoxOf(output_rx, buf) EXCEPT ![r.key] = r.n]
  BY <1>2, <1>5 DEF BoxOf
<1> QED BY <1>2, <1>8, <1>9, <1>10 DEF r

LEMMA DrainStutters ==
  ASSUME IInv, DrainOne
  PROVE  BoxOf(output_rx', buf') = BoxOf(output_rx, buf)
<1>1. output_rx \in Seq(Reports) /\ output_rx # << >> /\ buf \in [Keys -> Nat]
  BY DEF IInv, TypeOK, DrainOne
<1>2. /\ output_rx' = Tail(output_rx)
      /\ buf' = [buf EXCEPT ![Head(output_rx).key] = Head(output_rx).n]
  BY DEF DrainOne
<1>3. \A k \in Keys : NewestOf(output_rx', buf', k) = NewestOf(output_rx, buf, k)
  BY <1>1, <1>2, NewestDrained
<1> QED BY <1>3 DEF BoxOf

(* A poll that finds a report takes what the box of its key holds. *)
LEMMA TakeTakes ==
  ASSUME IInv, TakeReport
  PROVE  /\ polling \in Keys /\ rx
         /\ BoxOf(output_rx, buf)[polling] # 0
         /\ got' = [got EXCEPT ![polling] = BoxOf(output_rx, buf)[polling]]
         /\ BoxOf(output_rx', buf') = [BoxOf(output_rx, buf) EXCEPT ![polling] = 0]
<1>1. polling \in Keys /\ rx
  BY DEF IInv, TypeOK, TakeReport
<1>2. /\ output_rx = << >> /\ output_rx' = << >> /\ buf[polling] # 0
      /\ got' = [got EXCEPT ![polling] = buf[polling]]
      /\ buf' = [buf EXCEPT ![polling] = 0] /\ buf \in [Keys -> Nat]
  BY DEF IInv, TypeOK, TakeReport
<1>3. \A k : Of(output_rx, k) = {} /\ Of(output_rx', k) = {}
  BY <1>2 DEF Of
<1>4. \A k \in Keys : NewestOf(output_rx, buf, k) = buf[k]
  BY <1>2, <1>3, NewestBuffered
<1>5. \A k \in Keys : NewestOf(output_rx', buf', k) = IF k = polling THEN 0 ELSE buf[k]
  <2> TAKE k \in Keys
  <2>1. NewestOf(output_rx', buf', k) = buf'[k]
    BY <1>3, NewestBuffered
  <2>2. buf'[k] = IF k = polling THEN 0 ELSE buf[k]
    BY <1>2
  <2> QED BY <2>1, <2>2
<1>6. BoxOf(output_rx, buf)[polling] = buf[polling]
  BY <1>1, <1>4 DEF BoxOf
<1>7. BoxOf(output_rx', buf') = [BoxOf(output_rx, buf) EXCEPT ![polling] = 0]
  BY <1>1, <1>4, <1>5 DEF BoxOf
<1> QED BY <1>1, <1>2, <1>6, <1>7

LEMMA DropCloses ==
  ASSUME DropReceiver
  PROVE  rx /\ rx' = FALSE /\ got' = got /\ BoxOf(output_rx', buf') = [k \in Keys |-> 0]
<1>1. output_rx' = << >> /\ buf' = Nothing
  BY DEF DropReceiver
<1>2. \A k : Of(<< >>, k) = {}
  BY DEF Of
<1>3. \A k \in Keys : NewestOf(output_rx', buf', k) = 0
  BY <1>1, <1>2, NewestBuffered DEF Nothing
<1> QED BY <1>3 DEF BoxOf, DropReceiver

LEMMA MailboxInit == Init => M!Init
<1> SUFFICES ASSUME Init PROVE M!Init
  OBVIOUS
<1>1. \A k \in Keys : InChannel(k) = {} /\ buf[k] = 0
  BY DEF Init, InChannel, Nothing
<1>2. [k \in Keys |-> Newest(k)] = [k \in Keys |-> 0]
  BY <1>1 DEF Newest
<1> QED BY <1>2 DEF M!Init, Init, Nothing

LEMMA MailboxStep ==
  ASSUME IInv, [Next]_vars
  PROVE  [M!Next]_(M!vars)
<1> DEFINE box == [k \in Keys |-> Newest(k)]
<1>1. ASSUME UNCHANGED <<output_rx, buf, got, rx>>
      PROVE  UNCHANGED M!vars
  BY <1>1, BoxNow, BoxThen DEF M!vars
<1>2. CASE UNCHANGED vars
  BY <1>1, <1>2 DEF vars
<1>3. ASSUME \E s \in Slots : HostSends(s) \/ HostFlushes(s) \/ PollOutput(s)
      PROVE  UNCHANGED M!vars
  BY <1>1, <1>3 DEF HostSends, HostFlushes, PollOutput
<1>4. ASSUME NEW t \in Readers, Read(t) \/ ReadFails(t) \/ (Send(t) /\ ~ rx)
      PROVE  UNCHANGED M!vars
  BY <1>1, <1>4 DEF Read, ReadFails, Send
<1>5. ASSUME NEW t \in Readers, Send(t), rx
      PROVE  M!Put(held[t].key)
  BY <1>5, SendPuts, BoxNow, BoxThen DEF M!Put, Send
<1>6. CASE (\E k \in Keys : Poll(k)) \/ TakeNothing
  BY <1>1, <1>6 DEF Poll, TakeNothing
<1>7. CASE DrainOne
  BY <1>7, DrainStutters, BoxNow, BoxThen DEF M!vars, DrainOne
<1>8. CASE TakeReport
  <2>1. M!Take(polling)
    BY <1>8, TakeTakes, BoxNow, BoxThen DEF M!Take, TakeReport
  <2> QED BY <1>8, <2>1, TakeTakes DEF M!Next
<1>9. CASE DropReceiver
  <2>1. M!Close
    BY <1>9, DropCloses, BoxNow, BoxThen DEF M!Close
  <2> QED BY <2>1 DEF M!Next
<1>10. ASSUME NEW t \in Readers, Send(t), rx
       PROVE  M!Next
  BY <1>5, <1>10, SendPuts DEF M!Next
<1> QED BY <1>2, <1>3, <1>4, <1>6, <1>7, <1>8, <1>9, <1>10 DEF Next

(* Where each slot has one reader, the ep_out_loop threads, the channel    *)
(* they share and the two buffers of each slot are one atomic mailbox      *)
(* (transport_hw.rs:136-204, 395-419).                                     *)
THEOREM Refines ==
  ASSUME OnePerSlot
  PROVE  Spec => ImplementsMailbox
<1>1. Init => IInv /\ M!Init
  BY InvInit, MailboxInit
<1>2. IInv /\ [Next]_vars => IInv'
  BY InvStep
<1>3. IInv /\ [Next]_vars => [M!Next]_(M!vars)
  BY MailboxStep
<1> QED BY <1>1, <1>2, <1>3, PTL DEF Spec, M!Spec, ImplementsMailbox
=============================================================================
