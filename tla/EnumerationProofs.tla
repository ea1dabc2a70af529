-------------------------- MODULE EnumerationProofs --------------------------
(* Proofs about Enumeration, for either implementation, every wLength and  *)
(* every serial number.                                                    *)
EXTENDS Enumeration, SequenceTheorems, TLAPS

(***************************************************************************)
(* The loops over the interfaces, unrolled.                                *)
(***************************************************************************)

(* A loop of four rounds has a result. *)
LEMMA LoopEnds ==
  ASSUME NEW P
  PROVE  \E f : f = [i \in 0 .. 4 |-> IF i = 0 THEN << >> ELSE Extend(f[i - 1], P[i - 1])]
<1> DEFINE f1 == Extend(<< >>, P[0])
           f2 == Extend(f1, P[1])
           f3 == Extend(f2, P[2])
           f4 == Extend(f3, P[3])
           g == [i \in 0 .. 4 |-> IF i = 0 THEN << >> ELSE IF i = 1 THEN f1
                                ELSE IF i = 2 THEN f2 ELSE IF i = 3 THEN f3 ELSE f4]
           body == [i \in 0 .. 4 |-> IF i = 0 THEN << >> ELSE Extend(g[i - 1], P[i - 1])]
<1>1. /\ f1 = Extend(<< >>, P[0]) /\ f2 = Extend(f1, P[1])
      /\ f3 = Extend(f2, P[2]) /\ f4 = Extend(f3, P[3])
  OBVIOUS
<1>2. g = [i \in 0 .. 4 |-> IF i = 0 THEN << >> ELSE IF i = 1 THEN f1
                                ELSE IF i = 2 THEN f2 ELSE IF i = 3 THEN f3 ELSE f4]
  OBVIOUS
<1> HIDE DEF f1, f2, f3, f4, g
<1>3. g[0] = << >> /\ g[1] = f1 /\ g[2] = f2 /\ g[3] = f3 /\ g[4] = f4
  BY <1>2
<1>4. body[0] = << >>
  OBVIOUS
<1>5. body[1] = Extend(g[0], P[0])
  OBVIOUS
<1>6. body[2] = Extend(g[1], P[1])
  OBVIOUS
<1>7. body[3] = Extend(g[2], P[2])
  OBVIOUS
<1>8. body[4] = Extend(g[3], P[3])
  OBVIOUS
<1>9. \A i \in 0 .. 4 : g[i] = body[i]
  <2> HIDE DEF body
  <2> SUFFICES ASSUME NEW i \in 0 .. 4 PROVE g[i] = body[i]
    OBVIOUS
  <2>1. i = 0 \/ i = 1 \/ i = 2 \/ i = 3 \/ i = 4
    OBVIOUS
  <2> QED BY <1>1, <1>3, <1>4, <1>5, <1>6, <1>7, <1>8, <2>1, Zenon
<1>10. g = body
  <2>1. g = [i \in 0 .. 4 |-> g[i]]
    BY <1>2
  <2>2. body = [i \in 0 .. 4 |-> body[i]]
    OBVIOUS
  <2> HIDE DEF body
  <2> QED BY <1>9, <2>1, <2>2
<1> WITNESS g
<1> QED BY <1>10, Zenon

LEMMA InterfacesUnrolled ==
  /\ Interfaces[0] = << >>
  /\ Interfaces[1] = Extend(Interfaces[0], Interface(0))
  /\ Interfaces[2] = Extend(Interfaces[1], Interface(1))
  /\ Interfaces[3] = Extend(Interfaces[2], Interface(2))
  /\ Interfaces[4] = Extend(Interfaces[3], Interface(3))
<1> DEFINE P == [k \in 0 .. 3 |-> Interface(k)]
<1>1. \A i \in 1 .. 4 : P[i - 1] = Interface(i - 1)
  OBVIOUS
<1>2. PICK f : f = [i \in 0 .. 4 |-> IF i = 0 THEN << >> ELSE Extend(f[i - 1], P[i - 1])]
  BY LoopEnds, Zenon
<1> HIDE DEF P
<1>3. f = [i \in 0 .. 4 |-> IF i = 0 THEN << >> ELSE Extend(f[i - 1], Interface(i - 1))]
  BY <1>1, <1>2
<1>4. Interfaces = [i \in 0 .. 4 |-> IF i = 0 THEN << >>
                                     ELSE Extend(Interfaces[i - 1], Interface(i - 1))]
  BY <1>3, Zenon DEF Interfaces
<1> QED BY <1>4

(***************************************************************************)
(* The pieces of the configuration.                                        *)
(***************************************************************************)

(* Three sequences in a row. *)
LEMMA ThreeInARow ==
  ASSUME NEW S, NEW s \in Seq(S), NEW t \in Seq(S), NEW u \in Seq(S)
  PROVE  /\ s \o t \o u \in Seq(S)
         /\ Len(s \o t \o u) = Len(s) + Len(t) + Len(u)
         /\ \A k \in 1 .. Len(s) : (s \o t \o u)[k] = s[k]
         /\ \A k \in 1 .. Len(t) : (s \o t \o u)[Len(s) + k] = t[k]
         /\ \A k \in 1 .. Len(u) : (s \o t \o u)[Len(s) + Len(t) + k] = u[k]
<1>1. /\ s \o t \in Seq(S) /\ Len(s \o t) = Len(s) + Len(t)
      /\ \A k \in 1 .. Len(s) + Len(t) : (s \o t)[k] = IF k <= Len(s) THEN s[k] ELSE t[k - Len(s)]
  BY ConcatProperties
<1>2. PICK v \in Seq(S) : v = s \o t
  BY <1>1
<1>3. /\ v \o u \in Seq(S) /\ Len(v \o u) = Len(v) + Len(u)
      /\ \A k \in 1 .. Len(v) + Len(u) : (v \o u)[k] = IF k <= Len(v) THEN v[k] ELSE u[k - Len(v)]
  BY ConcatProperties
<1>4. Len(s) \in Nat /\ Len(t) \in Nat /\ Len(u) \in Nat
  BY LenProperties
<1> QED BY <1>1, <1>2, <1>3, <1>4

LEMMA EndpointIs ==
  ASSUME NEW a \in Byte, NEW v \in Byte
  PROVE  Endpoint(a, v) = <<7, 5, a, 3, 32, 0, v>>
<1>1. LittleEndian(32) = <<32, 0>>
  BY DEF LittleEndian
<1>2. PICK first \in Seq(Byte) : first = <<7, 5, a, 3>>
  <2>1. <<7, 5, a, 3>> \in Seq(Byte)
    BY DEF Byte
  <2> QED BY <2>1, Zenon
<1>3. PICK size \in Seq(Byte) : size = <<32, 0>>
  <2>1. <<32, 0>> \in Seq(Byte)
    BY DEF Byte
  <2> QED BY <2>1, Zenon
<1>4. PICK last \in Seq(Byte) : last = <<v>>
  <2>1. <<v>> \in Seq(Byte)
    BY DEF Byte
  <2> QED BY <2>1, Zenon
<1>5. Endpoint(a, v) = first \o size \o last
  BY <1>1, <1>2, <1>3, <1>4, Zenon DEF Endpoint
<1>6. /\ Len(first) = 4 /\ Len(size) = 2 /\ Len(last) = 1
      /\ first[1] = 7 /\ first[2] = 5 /\ first[3] = a /\ first[4] = 3
      /\ size[1] = 32 /\ size[2] = 0 /\ last[1] = v
  BY <1>2, <1>3, <1>4
<1>7. PICK e : e = first \o size \o last
  OBVIOUS
<1>8. /\ e \in Seq(Byte)
      /\ Len(e) = Len(first) + Len(size) + Len(last)
      /\ \A k \in 1 .. Len(first) : e[k] = first[k]
      /\ \A k \in 1 .. Len(size) : e[Len(first) + k] = size[k]
      /\ \A k \in 1 .. Len(last) : e[Len(first) + Len(size) + k] = last[k]
  BY <1>7, ThreeInARow
<1>9. /\ Len(e) = 7 /\ e[1] = 7 /\ e[2] = 5 /\ e[3] = a /\ e[4] = 3
      /\ e[5] = 32 /\ e[6] = 0 /\ e[7] = v
  BY <1>6, <1>8
<1>10. PICK t \in Seq(Byte) : t = <<7, 5, a, 3, 32, 0, v>>
  <2>1. <<7, 5, a, 3, 32, 0, v>> \in Seq(Byte)
    BY DEF Byte
  <2> QED BY <2>1, Zenon
<1>11. /\ Len(t) = 7 /\ t[1] = 7 /\ t[2] = 5 /\ t[3] = a /\ t[4] = 3
       /\ t[5] = 32 /\ t[6] = 0 /\ t[7] = v
  BY <1>10
<1>12. ASSUME NEW k \in 1 .. 7 PROVE e[k] = t[k]
  <2>1. k = 1 \/ k = 2 \/ k = 3 \/ k = 4 \/ k = 5 \/ k = 6 \/ k = 7
    OBVIOUS
  <2> QED BY <1>9, <1>11, <2>1, Zenon
<1>13. e = t
  <2>1. e \in Seq(Byte) /\ Len(e) = Len(t)
    BY <1>8, <1>9, <1>11, Zenon
  <2>2. \A k \in 1 .. Len(e) : e[k] = t[k]
    BY <1>9, <1>12, Zenon
  <2> QED BY <1>10, <2>1, <2>2, SeqEqual, Zenon
<1> QED BY <1>5, <1>7, <1>10, <1>13, Zenon

LEMMA EndpointBytes ==
  ASSUME NEW a \in Byte, NEW v \in Byte
  PROVE  /\ Endpoint(a, v) \in Seq(Byte)
         /\ Len(Endpoint(a, v)) = 7
         /\ Endpoint(a, v)[1] = 7 /\ Endpoint(a, v)[2] = 5 /\ Endpoint(a, v)[3] = a
<1>1. PICK e : e = Endpoint(a, v)
  OBVIOUS
<1>2. e = <<7, 5, a, 3, 32, 0, v>>
  BY <1>1, EndpointIs, Zenon
<1>3. PICK t \in Seq(Byte) : t = <<7, 5, a, 3, 32, 0, v>>
  <2>1. <<7, 5, a, 3, 32, 0, v>> \in Seq(Byte)
    BY DEF Byte
  <2> QED BY <2>1, Zenon
<1>4. Len(t) = 7 /\ t[1] = 7 /\ t[2] = 5 /\ t[3] = a
  BY <1>3
<1>5. e = t
  BY <1>2, <1>3, Zenon
<1> QED BY <1>1, <1>3, <1>4, <1>5, Zenon

LEMMA HeaderBytes ==
  ASSUME NEW n \in 1 .. 4, NEW type, NEW h, h = Header(n, type)
  PROVE  /\ h \in Seq(Byte) /\ Len(h) = 9
         /\ h[1] = 9 /\ h[2] \in {2, 7} /\ h[3] = 9 + n * 43 /\ h[4] = 0
         /\ h[5] = n /\ h[7] = 0
<1>1. PICK total \in 52 .. 181 : total = 9 + n * 43
  OBVIOUS
<1>2. LittleEndian(total) = <<total, 0>>
  BY DEF LittleEndian
<1>a. PICK t \in {2, 7} : t = IF type = "config" THEN 2 ELSE 7
  OBVIOUS
<1>3. PICK first \in Seq(Byte) : first = <<9, t>>
  <2>1. <<9, t>> \in Seq(Byte)
    BY DEF Byte
  <2> QED BY <2>1, Zenon
<1>4. PICK size \in Seq(Byte) : size = <<total, 0>>
  <2>1. <<total, 0>> \in Seq(Byte)
    BY DEF Byte
  <2> QED BY <2>1, Zenon
<1>5. PICK last \in Seq(Byte) : last = <<n, 1, 0, 160, 250>>
  <2>1. <<n, 1, 0, 160, 250>> \in Seq(Byte)
    BY DEF Byte
  <2> QED BY <2>1, Zenon
<1>6. h = first \o size \o last
  <2>1. h = <<9, t>> \o LittleEndian(total) \o <<n, 1, 0, 160, 250>>
    BY <1>1, <1>a, Zenon DEF Header
  <2> QED BY <1>2, <1>3, <1>4, <1>5, <2>1, Zenon
<1>7. /\ Len(first) = 2 /\ Len(size) = 2 /\ Len(last) = 5
      /\ first[1] = 9 /\ first[2] = t /\ size[1] = total /\ size[2] = 0
      /\ last[1] = n /\ last[3] = 0
  BY <1>3, <1>4, <1>5
<1>8. /\ h \in Seq(Byte)
      /\ Len(h) = Len(first) + Len(size) + Len(last)
      /\ \A k \in 1 .. Len(first) : h[k] = first[k]
      /\ \A k \in 1 .. Len(size) : h[Len(first) + k] = size[k]
      /\ \A k \in 1 .. Len(last) : h[Len(first) + Len(size) + k] = last[k]
  <2>1. /\ first \o size \o last \in Seq(Byte)
        /\ Len(first \o size \o last) = Len(first) + Len(size) + Len(last)
    BY ThreeInARow
  <2>2. \A k \in 1 .. Len(first) : (first \o size \o last)[k] = first[k]
    BY ThreeInARow
  <2>3. \A k \in 1 .. Len(size) : (first \o size \o last)[Len(first) + k] = size[k]
    BY ThreeInARow
  <2>4. \A k \in 1 .. Len(last) :
          (first \o size \o last)[Len(first) + Len(size) + k] = last[k]
    BY ThreeInARow
  <2> QED BY <1>6, <2>1, <2>2, <2>3, <2>4, Zenon
<1>9. /\ h[3] = size[1] /\ h[4] = size[2] /\ h[5] = last[1] /\ h[7] = last[3]
  <2>1. /\ \A k \in 1 .. 2 : h[2 + k] = size[k]
        /\ \A k \in 1 .. 5 : h[4 + k] = last[k]
    BY <1>7, <1>8
  <2>2. h[2 + 1] = size[1] /\ h[2 + 2] = size[2]
    BY <2>1
  <2>3. h[4 + 1] = last[1] /\ h[4 + 3] = last[3]
    BY <2>1
  <2> QED BY <2>2, <2>3
<1> QED BY <1>1, <1>7, <1>8, <1>9

(* The lengths of an interface's pieces. *)
Lengths == <<9, 20, 7, 7>>

LEMMA EachPiece ==
  ASSUME NEW i \in 0 .. 3
  PROVE  /\ Interface(i)[1] \in Seq(Byte) /\ Len(Interface(i)[1]) = 9 /\ Interface(i)[1][1] = 9
         /\ Interface(i)[2] \in Seq(Byte) /\ Len(Interface(i)[2]) = 20 /\ Interface(i)[2][1] = 20
         /\ Interface(i)[3] \in Seq(Byte) /\ Len(Interface(i)[3]) = 7 /\ Interface(i)[3][1] = 7
         /\ Interface(i)[4] \in Seq(Byte) /\ Len(Interface(i)[4]) = 7 /\ Interface(i)[4][1] = 7
<1>1. Interface(i)[1] \in Seq(Byte) /\ Len(Interface(i)[1]) = 9 /\ Interface(i)[1][1] = 9
  BY DEF Interface, Byte
<1>2. Interface(i)[2] \in Seq(Byte) /\ Len(Interface(i)[2]) = 20 /\ Interface(i)[2][1] = 20
  BY DEF Interface, Byte, InAddress, OutAddress
<1>3. Interface(i)[3] \in Seq(Byte) /\ Len(Interface(i)[3]) = 7 /\ Interface(i)[3][1] = 7
  <2>1. InAddress(i) \in Byte /\ 4 \in Byte
    BY DEF Byte, InAddress
  <2>2. Interface(i)[3] = Endpoint(InAddress(i), 4)
    BY DEF Interface
  <2> QED BY <2>1, <2>2, EndpointBytes
<1>4. Interface(i)[4] \in Seq(Byte) /\ Len(Interface(i)[4]) = 7 /\ Interface(i)[4][1] = 7
  <2>1. OutAddress(i) \in Byte /\ 8 \in Byte
    BY DEF Byte, OutAddress
  <2>2. Interface(i)[4] = Endpoint(OutAddress(i), 8)
    BY DEF Interface
  <2> QED BY <2>1, <2>2, EndpointBytes
<1> QED BY <1>1, <1>2, <1>3, <1>4

LEMMA PieceBytes ==
  ASSUME NEW i \in 0 .. 3, NEW p \in 1 .. 4
  PROVE  /\ Interface(i)[p] \in Seq(Byte)
         /\ Len(Interface(i)[p]) = Lengths[p]
         /\ Interface(i)[p][1] = Lengths[p]
<1>1. Lengths[1] = 9 /\ Lengths[2] = 20 /\ Lengths[3] = 7 /\ Lengths[4] = 7
  BY DEF Lengths
<1>2. p = 1 \/ p = 2 \/ p = 3 \/ p = 4
  OBVIOUS
<1> QED BY <1>1, <1>2, EachPiece, Zenon

(* What a host reads in the pieces. *)
LEMMA PieceFields ==
  ASSUME NEW i \in 0 .. 3
  PROVE  /\ Interface(i)[1][2] = 4 /\ Interface(i)[1][3] = i /\ Interface(i)[1][9] = 0
         /\ Interface(i)[2][2] = 34
         /\ Interface(i)[2][6] = 129 + i /\ Interface(i)[2][14] = 1 + i
         /\ Interface(i)[3] = Endpoint(InAddress(i), 4)
         /\ Interface(i)[3][2] = 5 /\ Interface(i)[3][3] = 129 + i
         /\ Interface(i)[4] = Endpoint(OutAddress(i), 8)
         /\ Interface(i)[4][2] = 5 /\ Interface(i)[4][3] = 1 + i
<1>1. InAddress(i) = 129 + i /\ OutAddress(i) = 1 + i
  BY DEF InAddress, OutAddress
<1>2. InAddress(i) \in Byte /\ OutAddress(i) \in Byte /\ 4 \in Byte /\ 8 \in Byte
  BY <1>1 DEF Byte
<1>3. /\ Interface(i)[3] = Endpoint(InAddress(i), 4)
      /\ Interface(i)[4] = Endpoint(OutAddress(i), 8)
  BY DEF Interface
<1>4. Interface(i)[1][2] = 4 /\ Interface(i)[1][3] = i /\ Interface(i)[1][9] = 0
  BY DEF Interface
<1>5. /\ Interface(i)[2][2] = 34
      /\ Interface(i)[2][6] = InAddress(i) /\ Interface(i)[2][14] = OutAddress(i)
  BY DEF Interface
<1>6. /\ Interface(i)[3][2] = 5 /\ Interface(i)[3][3] = InAddress(i)
      /\ Interface(i)[4][2] = 5 /\ Interface(i)[4][3] = OutAddress(i)
  BY <1>2, <1>3, EndpointBytes
<1> QED BY <1>1, <1>3, <1>4, <1>5, <1>6

(***************************************************************************)
(* Where each piece is.                                                    *)
(***************************************************************************)

LEMMA Places ==
  /\ Before[1] = 0 /\ Before[2] = 9 /\ Before[3] = 29 /\ Before[4] = 36
  /\ Lengths[1] = 9 /\ Lengths[2] = 20 /\ Lengths[3] = 7 /\ Lengths[4] = 7
BY DEF Before, Lengths

LEMMA PlaceOf ==
  ASSUME NEW p \in 1 .. 4
  PROVE  \E len \in 7 .. 20, b \in 0 .. 36 : len = Lengths[p] /\ b = Before[p] /\ b + len <= 43
<1>1. CASE p = 1
  BY <1>1, Places
<1>2. CASE p = 2
  BY <1>2, Places
<1>3. CASE p = 3
  BY <1>3, Places
<1>4. CASE p = 4
  BY <1>4, Places
<1> QED BY <1>1, <1>2, <1>3, <1>4

(* The i-th interface comes after the first m bytes of s. *)
Holds(s, m, i) ==
  \A p \in 1 .. 4 : \A k \in 1 .. Lengths[p] : s[m + Before[p] + k] = Interface(i)[p][k]

(* One round of the loop. *)
LEMMA ExtendBytes ==
  ASSUME NEW s \in Seq(Byte), NEW i \in 0 .. 3, NEW r, r = Extend(s, Interface(i))
  PROVE  /\ r \in Seq(Byte) /\ Len(r) = Len(s) + 43
         /\ \A k \in 1 .. Len(s) : r[k] = s[k]
         /\ Holds(r, Len(s), i)
<1>1. PICK a \in Seq(Byte) : a = Interface(i)[1] /\ Len(a) = 9
  BY EachPiece, Zenon
<1>2. PICK b \in Seq(Byte) : b = Interface(i)[2] /\ Len(b) = 20
  BY EachPiece, Zenon
<1>3. PICK c \in Seq(Byte) : c = Interface(i)[3] /\ Len(c) = 7
  BY EachPiece, Zenon
<1>4. PICK d \in Seq(Byte) : d = Interface(i)[4] /\ Len(d) = 7
  BY EachPiece, Zenon
<1>5. r = s \o a \o b \o c \o d
  BY <1>1, <1>2, <1>3, <1>4, Zenon DEF Extend
<1>6. PICK ab \in Seq(Byte) : ab = s \o a \o b
  BY ThreeInARow
<1>7. r = ab \o c \o d
  BY <1>5, <1>6
<1>8. /\ Len(ab) = Len(s) + Len(a) + Len(b)
      /\ \A k \in 1 .. Len(s) : ab[k] = s[k]
      /\ \A k \in 1 .. Len(a) : ab[Len(s) + k] = a[k]
      /\ \A k \in 1 .. Len(b) : ab[Len(s) + Len(a) + k] = b[k]
  <2>1. Len(s \o a \o b) = Len(s) + Len(a) + Len(b)
    BY ThreeInARow
  <2>2. \A k \in 1 .. Len(s) : (s \o a \o b)[k] = s[k]
    BY ThreeInARow
  <2>3. \A k \in 1 .. Len(a) : (s \o a \o b)[Len(s) + k] = a[k]
    BY ThreeInARow
  <2>4. \A k \in 1 .. Len(b) : (s \o a \o b)[Len(s) + Len(a) + k] = b[k]
    BY ThreeInARow
  <2> QED BY <1>6, <2>1, <2>2, <2>3, <2>4, Zenon
<1>9. /\ r \in Seq(Byte) /\ Len(r) = Len(ab) + Len(c) + Len(d)
      /\ \A k \in 1 .. Len(ab) : r[k] = ab[k]
      /\ \A k \in 1 .. Len(c) : r[Len(ab) + k] = c[k]
      /\ \A k \in 1 .. Len(d) : r[Len(ab) + Len(c) + k] = d[k]
  <2>1. /\ ab \o c \o d \in Seq(Byte)
        /\ Len(ab \o c \o d) = Len(ab) + Len(c) + Len(d)
    BY ThreeInARow
  <2>2. \A k \in 1 .. Len(ab) : (ab \o c \o d)[k] = ab[k]
    BY ThreeInARow
  <2>3. \A k \in 1 .. Len(c) : (ab \o c \o d)[Len(ab) + k] = c[k]
    BY ThreeInARow
  <2>4. \A k \in 1 .. Len(d) : (ab \o c \o d)[Len(ab) + Len(c) + k] = d[k]
    BY ThreeInARow
  <2> QED BY <1>7, <2>1, <2>2, <2>3, <2>4, Zenon
<1>10. PICK m \in Nat : m = Len(s)
  BY LenProperties
<1>11. Len(ab) = m + 29 /\ Len(r) = m + 43
  BY <1>1, <1>2, <1>3, <1>4, <1>8, <1>9, <1>10
<1>12. \A k \in 1 .. m : r[k] = s[k]
  BY <1>8, <1>9, <1>10, <1>11
<1>13. ASSUME NEW k \in 1 .. 9 PROVE r[m + k] = a[k]
  <2>1. PICK j \in 1 .. Len(ab) : j = m + k
    BY <1>11
  <2>2. r[j] = ab[j]
    BY <1>9
  <2>3. ab[j] = a[k]
    BY <1>1, <1>8, <1>10, <2>1
  <2> QED BY <2>1, <2>2, <2>3
<1>14. ASSUME NEW k \in 1 .. 20 PROVE r[m + 9 + k] = b[k]
  <2>1. PICK j \in 1 .. Len(ab) : j = m + 9 + k
    BY <1>11
  <2>2. r[j] = ab[j]
    BY <1>9
  <2>3. ab[j] = b[k]
    BY <1>1, <1>2, <1>8, <1>10, <2>1
  <2> QED BY <2>1, <2>2, <2>3
<1>15. \A k \in 1 .. 7 : r[m + 29 + k] = c[k]
  BY <1>3, <1>9, <1>11
<1>16. ASSUME NEW k \in 1 .. 7 PROVE r[m + 36 + k] = d[k]
  <2>1. r[Len(ab) + Len(c) + k] = d[k]
    BY <1>4, <1>9
  <2>2. Len(ab) + Len(c) = m + 36
    BY <1>3, <1>11
  <2> QED BY <2>1, <2>2
<1>17. ASSUME NEW p \in 1 .. 4, NEW k \in 1 .. Lengths[p]
       PROVE  r[m + Before[p] + k] = Interface(i)[p][k]
  <2>1. CASE p = 1
    <3>1. k \in 1 .. 9 /\ m + Before[p] + k = m + k
      BY <2>1, Places
    <3>2. r[m + k] = a[k]
      BY <1>13, <3>1
    <3> QED BY <1>1, <2>1, <3>1, <3>2
  <2>2. CASE p = 2
    BY <1>2, <1>14, <2>2, Places
  <2>3. CASE p = 3
    BY <1>3, <1>15, <2>3, Places
  <2>4. CASE p = 4
    BY <1>4, <1>16, <2>4, Places
  <2> QED BY <2>1, <2>2, <2>3, <2>4
<1>18. Holds(r, m, i)
  BY <1>17 DEF Holds
<1> QED BY <1>9, <1>10, <1>11, <1>12, <1>18

(* What the loop has written after n rounds. *)
Written(s, n) ==
  /\ s \in Seq(Byte) /\ Len(s) = 43 * n
  /\ \A i \in 0 .. 3 : i < n => Holds(s, 43 * i, i)

LEMMA OneRound ==
  ASSUME NEW n \in 0 .. 3, NEW s, Written(s, n), NEW r, r = Extend(s, Interface(n))
  PROVE  Written(r, n + 1)
<1>1. s \in Seq(Byte) /\ Len(s) = 43 * n
  BY DEF Written
<1>2. /\ r \in Seq(Byte) /\ Len(r) = 43 * n + 43
      /\ \A k \in 1 .. 43 * n : r[k] = s[k]
      /\ Holds(r, 43 * n, n)
  <2>1. s \in Seq(Byte) /\ n \in 0 .. 3 /\ r = Extend(s, Interface(n))
    BY <1>1
  <2>2. r \in Seq(Byte) /\ Len(r) = Len(s) + 43
    BY <2>1, ExtendBytes
  <2>3. \A k \in 1 .. Len(s) : r[k] = s[k]
    BY <2>1, ExtendBytes
  <2>4. Holds(r, Len(s), n)
    BY <2>1, ExtendBytes
  <2> QED BY <1>1, <2>2, <2>3, <2>4
<1>3. ASSUME NEW i \in 0 .. 3, i < n + 1
      PROVE  Holds(r, 43 * i, i)
  <2>1. CASE i = n
    BY <1>2, <2>1
  <2>2. CASE i < n
    <3> SUFFICES ASSUME NEW p \in 1 .. 4, NEW k \in 1 .. Lengths[p]
                 PROVE  r[43 * i + Before[p] + k] = Interface(i)[p][k]
      BY DEF Holds
    <3>1. Before[p] \in 0 .. 36 /\ Lengths[p] \in Nat /\ Before[p] + Lengths[p] <= 43
      BY Places
    <3>2. 43 * i + Before[p] + k \in 1 .. 43 * n
      BY <2>2, <3>1
    <3>3. Holds(s, 43 * i, i)
      BY <2>2 DEF Written
    <3>4. s[43 * i + Before[p] + k] = Interface(i)[p][k]
      BY <3>3 DEF Holds
    <3> QED BY <1>2, <3>2, <3>4
  <2> QED BY <1>3, <2>1, <2>2
<1> QED BY <1>2, <1>3 DEF Written

LEMMA InterfacesBytes ==
  ASSUME NEW n \in 1 .. 4
  PROVE  Written(Interfaces[n], n)
<1>1. Written(Interfaces[0], 0)
  BY InterfacesUnrolled DEF Written
<1>2. Written(Interfaces[1], 1)
  BY <1>1, InterfacesUnrolled, OneRound
<1>3. Written(Interfaces[2], 2)
  BY <1>2, InterfacesUnrolled, OneRound
<1>4. Written(Interfaces[3], 3)
  BY <1>3, InterfacesUnrolled, OneRound
<1>5. Written(Interfaces[4], 4)
  BY <1>4, InterfacesUnrolled, OneRound
<1> QED BY <1>2, <1>3, <1>4, <1>5

(* A configuration begins with its header. *)
BeginsWith(c, h) == \A k \in 1 .. 9 : c[k] = h[k]

Inside(n, i, p, k) ==
  \E m \in 1 .. 43 * n : m = 43 * i + Before[p] + k /\ 9 + 43 * i + Before[p] + k = 9 + m

LEMMA PlaceInside ==
  ASSUME NEW n \in 1 .. 4, NEW i \in 0 .. n - 1, NEW p \in 1 .. 4, NEW k \in 1 .. Lengths[p]
  PROVE  Inside(n, i, p, k)
<1>1. Before[p] \in 0 .. 36 /\ Lengths[p] \in Nat /\ Before[p] + Lengths[p] <= 43
  BY Places
<1>2. PICK b \in 0 .. 36, j \in 1 .. 43 : b = Before[p] /\ j = k /\ b + j <= 43
  BY <1>1
<1>3. 43 * i + b + j \in 1 .. 43 * n
  <2>1. i = 0 \/ i = 1 \/ i = 2 \/ i = 3
    OBVIOUS
  <2>2. i + 1 <= n /\ b + j >= 1
    OBVIOUS
  <2>3. 43 * i + b + j >= 1 /\ 43 * i + b + j <= 43 * (i + 1)
    BY <1>2
  <2>4. 43 * (i + 1) <= 43 * n
    BY <2>2
  <2> QED BY <2>3, <2>4
<1>4. 9 + 43 * i + b + j = 9 + (43 * i + b + j)
  OBVIOUS
<1> QED BY <1>2, <1>3, <1>4, Zenon DEF Inside

(* Every byte of a configuration. *)
LEMMA ConfigBytes ==
  ASSUME NEW n \in 1 .. 4, NEW type, NEW h, h = Header(n, type),
         NEW c, c = h \o Interfaces[n]
  PROVE  /\ c \in Seq(Byte) /\ Len(c) = 9 + 43 * n
         /\ BeginsWith(c, h)
         /\ \A i \in 0 .. n - 1 : Holds(c, 9 + 43 * i, i)
<1>1. PICK s : s = Interfaces[n]
  OBVIOUS
<1>2. /\ s \in Seq(Byte) /\ Len(s) = 43 * n
      /\ \A i \in 0 .. 3 : i < n => Holds(s, 43 * i, i)
  BY <1>1, InterfacesBytes DEF Written
<1>3. h \in Seq(Byte) /\ Len(h) = 9
  BY HeaderBytes
<1>4. c = h \o s
  BY <1>1
<1>5. /\ c \in Seq(Byte) /\ Len(c) = 9 + 43 * n
      /\ \A k \in 1 .. 9 + 43 * n : c[k] = IF k <= 9 THEN h[k] ELSE s[k - 9]
  <2>1. /\ h \o s \in Seq(Byte) /\ Len(h \o s) = Len(h) + Len(s)
        /\ \A k \in 1 .. Len(h) + Len(s) :
             (h \o s)[k] = IF k <= Len(h) THEN h[k] ELSE s[k - Len(h)]
    BY <1>2, <1>3, ConcatProperties
  <2> QED BY <1>2, <1>3, <1>4, <2>1
<1>6. ASSUME NEW i \in 0 .. n - 1, NEW p \in 1 .. 4, NEW k \in 1 .. Lengths[p]
      PROVE  c[9 + 43 * i + Before[p] + k] = Interface(i)[p][k]
  <2>1. Inside(n, i, p, k)
    BY PlaceInside
  <2>2. PICK m \in 1 .. 43 * n : m = 43 * i + Before[p] + k /\ 9 + 43 * i + Before[p] + k = 9 + m
    BY <2>1, Zenon DEF Inside
  <2>3. c[9 + m] = s[m]
    <3>1. PICK l \in 1 .. 9 + 43 * n : l = 9 + m /\ l > 9
      BY <2>2
    <3>2. c[l] = IF l <= 9 THEN h[l] ELSE s[l - 9]
      BY <1>5, <3>1, Zenon
    <3>3. ~(l <= 9)
      BY <3>1
    <3>4. l - 9 = m
      BY <2>2, <3>1
    <3> QED BY <3>1, <3>2, <3>3, <3>4
  <2>4. Holds(s, 43 * i, i)
    BY <1>2
  <2>5. s[m] = Interface(i)[p][k]
    BY <2>2, <2>4 DEF Holds
  <2> QED BY <2>2, <2>3, <2>5
<1>7. \A i \in 0 .. n - 1 : Holds(c, 9 + 43 * i, i)
  BY <1>6 DEF Holds
<1>8. BeginsWith(c, h)
  <2>1. ASSUME NEW k \in 1 .. 9 PROVE k \in 1 .. 9 + 43 * n /\ k <= 9
    OBVIOUS
  <2> QED BY <1>5, <2>1 DEF BeginsWith
<1> QED BY <1>5, <1>7, <1>8

(***************************************************************************)
(* The C code's configuration.                                             *)
(***************************************************************************)

(* Patching the templates gives what the Rust code writes out. *)
LEMMA SamePieces ==
  ASSUME NEW i \in 0 .. 3
  PROVE  get_if_x(i) = Interface(i)
<1>1. [usb_if_xinput EXCEPT ![3] = i] = <<9, 4, i, 0, 2, 255, 93, 1, 0>>
  BY DEF usb_if_xinput
<1>2. [if_ud EXCEPT ![6] = 128 + i + 1, ![14] = i + 1]
        = <<20, 34, 0, 1, 19, InAddress(i), 29, 0, 23, 1, 2, 8, 19, OutAddress(i),
            12, 0, 12, 1, 2, 8>>
  BY DEF if_ud, InAddress, OutAddress
<1>3. [usb_ep_in EXCEPT ![3] = 128 + i + 1] = Endpoint(InAddress(i), 4)
  <2>1. InAddress(i) \in Byte /\ 4 \in Byte /\ InAddress(i) = 128 + i + 1
    BY DEF InAddress, Byte
  <2>2. [usb_ep_in EXCEPT ![3] = 128 + i + 1] = <<7, 5, InAddress(i), 3, 32, 0, 4>>
    BY <2>1 DEF usb_ep_in
  <2> QED BY <2>1, <2>2, EndpointIs
<1>4. [usb_ep_out EXCEPT ![3] = i + 1] = Endpoint(OutAddress(i), 8)
  <2>1. OutAddress(i) \in Byte /\ 8 \in Byte /\ OutAddress(i) = i + 1
    BY DEF OutAddress, Byte
  <2>2. [usb_ep_out EXCEPT ![3] = i + 1] = <<7, 5, OutAddress(i), 3, 32, 0, 8>>
    BY <2>1 DEF usb_ep_out
  <2> QED BY <2>1, <2>2, EndpointIs
<1> QED BY <1>1, <1>2, <1>3, <1>4, Zenon DEF get_if_x, Interface

LEMMA CopiedUnrolled ==
  /\ copied[0] = << >>
  /\ copied[1] = Extend(copied[0], get_if_x(0))
  /\ copied[2] = Extend(copied[1], get_if_x(1))
  /\ copied[3] = Extend(copied[2], get_if_x(2))
  /\ copied[4] = Extend(copied[3], get_if_x(3))
<1> DEFINE P == [k \in 0 .. 3 |-> get_if_x(k)]
<1>1. \A i \in 1 .. 4 : P[i - 1] = get_if_x(i - 1)
  OBVIOUS
<1>2. PICK f : f = [i \in 0 .. 4 |-> IF i = 0 THEN << >> ELSE Extend(f[i - 1], P[i - 1])]
  BY LoopEnds, Zenon
<1> HIDE DEF P
<1>3. f = [i \in 0 .. 4 |-> IF i = 0 THEN << >> ELSE Extend(f[i - 1], get_if_x(i - 1))]
  BY <1>1, <1>2
<1>4. copied = [i \in 0 .. 4 |-> IF i = 0 THEN << >>
                                 ELSE Extend(copied[i - 1], get_if_x(i - 1))]
  BY <1>3, Zenon DEF copied
<1> QED BY <1>4

(* Both configurations are a header and the loop's bytes. *)
LEMMA ConfigIs ==
  ASSUME NEW n \in 1 .. 4
  PROVE  /\ Config(n) = Header(n, "config") \o Interfaces[n]
         /\ build_config(n, 2) = Header(n, "config") \o Interfaces[n]
         /\ build_config(n, 7) = Header(n, "other_speed") \o Interfaces[n]
<1>1. /\ get_if_x(0) = Interface(0) /\ get_if_x(1) = Interface(1)
      /\ get_if_x(2) = Interface(2) /\ get_if_x(3) = Interface(3)
  BY SamePieces
<1>2. /\ copied[1] = Interfaces[1] /\ copied[2] = Interfaces[2]
      /\ copied[3] = Interfaces[3] /\ copied[4] = Interfaces[4]
  BY <1>1, CopiedUnrolled, InterfacesUnrolled
<1>3. copied[n] = Interfaces[n]
  <2>1. n = 1 \/ n = 2 \/ n = 3 \/ n = 4
    OBVIOUS
  <2> QED BY <1>2, <2>1, Zenon
<1>4. Len(copied[n]) = 43 * n
  BY <1>3, InterfacesBytes DEF Written
<1>5. 9 + Len(copied[n]) = 9 + n * 43
  BY <1>4
<1>6. "other_speed" # "config"
  OBVIOUS
<1>7. build_config(n, 2) = Header(n, "config") \o Interfaces[n]
  BY <1>3, <1>5, Zenon DEF build_config, Header
<1>8. build_config(n, 7) = Header(n, "other_speed") \o Interfaces[n]
  BY <1>3, <1>5, <1>6, Zenon DEF build_config, Header
<1>9. Config(n) = Header(n, "config") \o Interfaces[n]
  BY Zenon DEF Config, ConfigHeader, Header
<1> QED BY <1>7, <1>8, <1>9

(***************************************************************************)
(* What GET_DESCRIPTOR answers.                                            *)
(***************************************************************************)

(* What a reader of a string of u units is told. *)
StringShape(s, u) ==
  s \in Seq(Byte) /\ Len(s) = 2 + 2 * u /\ s[1] = 2 + 2 * u /\ s[2] = 3

LEMMA StringBytes ==
  ASSUME NEW u \in 0 .. 126, NEW s, s = StringDescriptor(u)
  PROVE  StringShape(s, u)
<1>1. PICK len \in Nat : len = 2 + 2 * u /\ len <= 254
  OBVIOUS
<1>2. len % 256 = len
  BY <1>1
<1>3. PICK first \in Seq(Byte) : first = <<len, 3>>
  <2>1. <<len, 3>> \in Seq(Byte)
    BY <1>1 DEF Byte
  <2> QED BY <2>1, Zenon
<1>4. PICK m \in Nat : m = 2 * u
  OBVIOUS
<1>5. PICK units \in Seq(Byte) : units = [k \in 1 .. m |-> 0]
  <2>1. [k \in 1 .. m |-> 0] \in Seq(Byte)
    BY DEF Byte
  <2> QED BY <2>1, Zenon
<1>6. Len(first) = 2 /\ first[1] = len /\ first[2] = 3 /\ Len(units) = m
  BY <1>3, <1>5
<1>7. s = first \o units
  BY <1>1, <1>2, <1>3, <1>4, <1>5 DEF StringDescriptor
<1>8. /\ first \o units \in Seq(Byte)
      /\ Len(first \o units) = Len(first) + Len(units)
      /\ (first \o units)[1] = first[1] /\ (first \o units)[2] = first[2]
  <2>1. /\ first \o units \in Seq(Byte)
        /\ Len(first \o units) = Len(first) + Len(units)
    BY ConcatProperties
  <2>2. \A k \in 1 .. Len(first) + Len(units) :
          (first \o units)[k] = IF k <= Len(first) THEN first[k] ELSE units[k - Len(first)]
    BY ConcatProperties
  <2> QED BY <1>6, <2>1, <2>2
<1> QED BY <1>1, <1>4, <1>6, <1>7, <1>8 DEF StringShape

LEMMA StringsByte ==
  ASSUME NEW s \in Serials
  PROVE  \A k \in 1 .. 3 : Strings(s)[k] \in 0 .. 126
BY SerialsAssumption DEF Strings

(* The C code's strings. *)
LEMMA LegacyString ==
  ASSUME NEW bytes \in Nat, NEW signs \in Nat, NEW units \in Nat, units = bytes - signs
  PROVE  set_usb_string_desc(bytes, signs) = StringDescriptor(units)
<1>1. 2 - 2 * signs + 2 * bytes = 2 + 2 * units
  OBVIOUS
<1>2. 2 * (bytes - signs) = 2 * units
  OBVIOUS
<1> QED BY <1>1, <1>2, Zenon DEF set_usb_string_desc, StringDescriptor

LEMMA LegacyStringBytes ==
  ASSUME NEW index \in 1 .. 3, NEW s,
         s = set_usb_string_desc(LegacyStrings[index][1], LegacyStrings[index][2])
  PROVE  s \in Seq(Byte) /\ Len(s) >= 2 /\ s[1] = Len(s) /\ s[2] = 3
<1>1. PICK bytes \in Nat, signs \in Nat, units \in 0 .. 126 :
        /\ bytes = LegacyStrings[index][1] /\ signs = LegacyStrings[index][2]
        /\ units = bytes - signs
  <2>1. \/ LegacyStrings[index][1] = 23 /\ LegacyStrings[index][2] = 1
        \/ LegacyStrings[index][1] = 38 /\ LegacyStrings[index][2] = 0
        \/ LegacyStrings[index][1] = 7 /\ LegacyStrings[index][2] = 0
    BY DEF LegacyStrings
  <2>2. CASE LegacyStrings[index][1] = 23 /\ LegacyStrings[index][2] = 1
    <3>1. 23 \in Nat /\ 1 \in Nat /\ 22 \in 0 .. 126 /\ 22 = 23 - 1
      OBVIOUS
    <3> QED BY <2>2, <3>1, Zenon
  <2>3. CASE LegacyStrings[index][1] = 38 /\ LegacyStrings[index][2] = 0
    <3>1. 38 \in Nat /\ 0 \in Nat /\ 38 \in 0 .. 126 /\ 38 = 38 - 0
      OBVIOUS
    <3> QED BY <2>3, <3>1, Zenon
  <2>4. CASE LegacyStrings[index][1] = 7 /\ LegacyStrings[index][2] = 0
    <3>1. 7 \in Nat /\ 0 \in Nat /\ 7 \in 0 .. 126 /\ 7 = 7 - 0
      OBVIOUS
    <3> QED BY <2>4, <3>1, Zenon
  <2> QED BY <2>1, <2>2, <2>3, <2>4
<1>2. set_usb_string_desc(bytes, signs) = StringDescriptor(units)
  <2>1. units \in Nat
    OBVIOUS
  <2> QED BY <1>1, <2>1, LegacyString, Zenon
<1>3. s = StringDescriptor(units)
  BY <1>1, <1>2, Zenon
<1>4. StringShape(s, units)
  BY <1>3, StringBytes
<1> QED BY <1>4 DEF StringShape

(* A descriptor that is not a configuration: nothing, or as long as it     *)
(* says, and of another type than the pieces of a configuration.           *)
Single(d) == d # << >> => Len(d) >= 2 /\ d[1] = Len(d) /\ d[2] \in {1, 3, 6}

LEMMA DataBytes ==
  ASSUME NEW n \in 1 .. 4, NEW s \in Serials, NEW type \in Types \ {"config"},
         NEW index \in 0 .. 4, NEW d, d = Data(n, s, type, index)
  PROVE  d \in Seq(Byte) /\ Single(d)
<1>1. CASE type = "device"
  <2>1. d = Device
    BY <1>1 DEF Data
  <2> QED BY <2>1 DEF Device, Byte, Single
<1>2. CASE type = "qualifier"
  <2>1. d = Qualifier
    BY <1>2 DEF Data
  <2> QED BY <2>1 DEF Qualifier, Byte, Single
<1>3. CASE type = "string" /\ index = 0
  <2>1. d = <<4, 3, 9, 4>>
    BY <1>3 DEF Data
  <2> QED BY <2>1 DEF Byte, Single
<1>4. CASE type = "string" /\ index \in 1 .. 3
  <2>1. PICK u \in 0 .. 126 : u = Strings(s)[index]
    BY <1>4, StringsByte
  <2>2. d = StringDescriptor(u)
    BY <1>4, <2>1 DEF Data
  <2>3. StringShape(d, u)
    BY <2>2, StringBytes
  <2> QED BY <2>3 DEF StringShape, Single
<1>5. CASE type \in {"other", "other_speed"} \/ (type = "string" /\ index = 4)
  <2>1. d = << >>
    BY <1>5 DEF Data, Nothing
  <2> QED BY <2>1 DEF Single
<1> QED BY <1>1, <1>2, <1>3, <1>4, <1>5 DEF Types

LEMMA LegacyDataBytes ==
  ASSUME NEW n \in 1 .. 4, NEW type \in Types \ Configurations,
         NEW index \in 0 .. 4, NEW d, d = LegacyData(n, type, index)
  PROVE  d \in Seq(Byte) /\ Single(d)
<1>1. CASE type = "device"
  <2>1. d = usb_device
    BY <1>1 DEF LegacyData
  <2> QED BY <2>1 DEF usb_device, Byte, Single
<1>2. CASE type = "qualifier"
  <2>1. d = usb_qualifier
    BY <1>2 DEF LegacyData
  <2> QED BY <2>1 DEF usb_qualifier, Byte, Single
<1>3. CASE type = "string" /\ index = 0
  <2>1. d = <<4, 3, 0, 0>>
    BY <1>3 DEF LegacyData
  <2> QED BY <2>1 DEF Byte, Single
<1>4. CASE type = "string" /\ index \in 1 .. 3
  <2>1. d = set_usb_string_desc(LegacyStrings[index][1], LegacyStrings[index][2])
    BY <1>4 DEF LegacyData
  <2>2. d \in Seq(Byte) /\ Len(d) >= 2 /\ d[1] = Len(d) /\ d[2] = 3
    BY <1>4, <2>1, LegacyStringBytes
  <2> QED BY <2>2 DEF Single
<1>5. CASE type = "other" \/ (type = "string" /\ index = 4)
  <2>1. d = << >>
    BY <1>5 DEF LegacyData, Nothing
  <2> QED BY <2>1 DEF Single
<1> QED BY <1>1, <1>2, <1>3, <1>4, <1>5 DEF Types, Configurations

(* The same of whichever gadget runs. *)
DescriptorShape(type, d) ==
  /\ d \in Seq(Byte)
  /\ ~InPieces(type) => Single(d)
  /\ InPieces(type) => d = Header(num_interfaces, type) \o Interfaces[num_interfaces]

LEMMA DescriptorBytes ==
  ASSUME TypeOK, NEW type \in Types, NEW index \in 0 .. 4,
         NEW d, d = Descriptor(type, index)
  PROVE  DescriptorShape(type, d)
<1>1. PICK n \in 1 .. 4, s \in Serials : n = num_interfaces /\ s = serial
  BY DEF TypeOK
<1>2. code = "rust" \/ code = "c"
  BY DEF TypeOK
<1>3. CASE InPieces(type)
  <2>1. d = Header(n, type) \o Interfaces[n]
    <3>1. CASE code = "rust"
      <4>1. type = "config" /\ d = Data(n, s, type, index)
        BY <1>1, <1>3, <3>1 DEF Descriptor, InPieces
      <4>2. d = Config(n)
        BY <4>1 DEF Data
      <4> QED BY <4>1, <4>2, ConfigIs
    <3>2. CASE code = "c"
      <4>1. d = LegacyData(n, type, index)
        BY <1>1, <3>2 DEF Descriptor
      <4>2. CASE type = "config"
        <5>1. d = build_config(n, 2)
          BY <4>1, <4>2 DEF LegacyData
        <5> QED BY <4>2, <5>1, ConfigIs
      <4>3. CASE type = "other_speed"
        <5>1. d = build_config(n, 7)
          BY <4>1, <4>3 DEF LegacyData
        <5> QED BY <4>3, <5>1, ConfigIs
      <4> QED BY <1>3, <4>2, <4>3 DEF InPieces
    <3> QED BY <1>2, <3>1, <3>2
  <2>2. PICK h : h = Header(n, type)
    OBVIOUS
  <2>3. d \in Seq(Byte)
    BY <2>1, <2>2, ConfigBytes
  <2> QED BY <1>1, <1>3, <2>1, <2>3 DEF DescriptorShape
<1>4. CASE ~InPieces(type)
  <2>1. CASE code = "rust"
    <3>1. d = Data(n, s, type, index) /\ type \in Types \ {"config"}
      BY <1>1, <1>4, <2>1 DEF Descriptor, InPieces
    <3> QED BY <1>4, <3>1, DataBytes DEF DescriptorShape
  <2>2. CASE code = "c"
    <3>1. d = LegacyData(n, type, index) /\ type \in Types \ Configurations
      BY <1>1, <1>4, <2>2 DEF Descriptor, InPieces, Configurations
    <3> QED BY <1>4, <3>1, LegacyDataBytes DEF DescriptorShape
  <2> QED BY <1>2, <2>1, <2>2
<1> QED BY <1>3, <1>4

LEMMA Truncated ==
  ASSUME NEW d \in Seq(Byte), NEW w \in Nat, NEW r, r = Truncate(d, w)
  PROVE  /\ r \in Seq(Byte)
         /\ Len(r) <= Len(d) /\ Len(r) <= w
         /\ \A k \in 1 .. Len(r) : r[k] = d[k]
         /\ Len(r) = Len(d) \/ Len(r) < w => r = d
<1>1. PICK m \in Nat : m = IF Len(d) < w THEN Len(d) ELSE w
  BY LenProperties
<1>2. r = SubSeq(d, 1, m)
  BY <1>1 DEF Truncate
<1>3. m <= Len(d) /\ m <= w /\ Len(d) \in Nat
  BY <1>1, LenProperties
<1>4. \A k \in 1 .. m : d[k] \in Byte
  BY <1>3, ElementOfSeq
<1>5. /\ r \in Seq(Byte) /\ Len(r) = m
      /\ \A k \in 1 .. m : r[k] = d[k]
  <2>1. /\ SubSeq(d, 1, m) \in Seq(Byte)
        /\ Len(SubSeq(d, 1, m)) = IF 1 <= m THEN m - 1 + 1 ELSE 0
        /\ \A k \in 1 .. m - 1 + 1 : SubSeq(d, 1, m)[k] = d[1 + k - 1]
    BY <1>4, SubSeqProperties
  <2> QED BY <1>2, <2>1
<1>6. ASSUME Len(r) = Len(d) \/ Len(r) < w PROVE r = d
  <2>1. m = Len(d)
    BY <1>1, <1>3, <1>5, <1>6
  <2> QED BY <1>2, <2>1, SubSeqFull
<1> QED BY <1>3, <1>5, <1>6

(***************************************************************************)
(* The inductive invariant.                                                *)
(***************************************************************************)

LEMMA Query ==
  ASSUME asked \in Queries
  PROVE  asked.type \in Types /\ asked.index \in 0 .. 4 /\ asked.wLength \in Nat
BY WLengthsAssumption DEF Queries

(* What TypeOK says of the reply's source. *)
LEMMA AnswerBytes ==
  ASSUME TypeOK
  PROVE  /\ Answer \in Seq(Byte)
         /\ ~HasPieces => Single(Answer)
         /\ HasPieces => Answer = Header(num_interfaces, asked.type) \o Interfaces[num_interfaces]
<1>1. PICK type \in Types, index \in 0 .. 4 : type = asked.type /\ index = asked.index
  BY Query DEF TypeOK
<1>2. PICK d : d = Descriptor(type, index)
  OBVIOUS
<1>3. d = Answer
  BY <1>1, <1>2 DEF Answer
<1>4. HasPieces <=> InPieces(type)
  BY <1>1 DEF HasPieces
<1>5. DescriptorShape(type, d)
  BY <1>2, DescriptorBytes
<1> QED BY <1>1, <1>3, <1>4, <1>5, Zenon DEF DescriptorShape

LEMMA ReplyBytes ==
  ASSUME TypeOK, reply = Truncate(Answer, asked.wLength)
  PROVE  /\ Len(reply) <= Len(Answer) /\ Len(reply) <= asked.wLength
         /\ \A k \in 1 .. Len(reply) : reply[k] = Answer[k]
         /\ Len(reply) = Len(Answer) \/ Len(reply) < asked.wLength => reply = Answer
<1>1. asked.wLength \in Nat
  BY Query DEF TypeOK
<1> QED BY <1>1, AnswerBytes, Truncated

LEMMA IInvInit == Init => IInv
<1> SUFFICES ASSUME Init PROVE IInv
  OBVIOUS
<1>1. asked \in Queries /\ asked.wLength = 0
  BY DEF Init
<1>2. << >> \in Seq(Byte) /\ << >> \in Seq(Seq(Byte))
  OBVIOUS
<1>3. TypeOK
  BY <1>1, <1>2 DEF Init, TypeOK, Nothing
<1>4. PICK r : r = Truncate(Answer, asked.wLength)
  OBVIOUS
<1>5. r \in Seq(Byte) /\ Len(r) <= 0
  BY <1>1, <1>3, <1>4, AnswerBytes, Truncated
<1>6. r = << >>
  BY <1>5, EmptySeq, LenProperties
<1>7. reply = r /\ chunks = << >> /\ pos = 1
  BY <1>6 DEF Init, Nothing
<1>8. WalkOfOne
  BY <1>7 DEF WalkOfOne
<1>9. WalkOfConfig
  BY <1>3, <1>7, LenProperties DEF WalkOfConfig, TypeOK
<1> QED BY <1>3, <1>4, <1>7, <1>8, <1>9 DEF IInv

LEMMA AskStep ==
  ASSUME IInv, NEW q \in Queries, Ask(q)
  PROVE  IInv'
<1>1. /\ asked' = q /\ q \in Queries /\ TypeOK
      /\ code' = code /\ code \in {"rust", "c"}
      /\ num_interfaces' = num_interfaces /\ serial' = serial
      /\ num_interfaces \in 1 .. 4 /\ serial \in Serials
      /\ pos' = 1 /\ chunks' = << >>
  BY DEF IInv, TypeOK, Ask
<1>2. q.type \in Types /\ q.index \in 0 .. 4 /\ q.wLength \in Nat
  BY WLengthsAssumption DEF Queries
<1>3. PICK d : d = Descriptor(q.type, q.index)
  OBVIOUS
<1>4. d \in Seq(Byte)
  <2>1. PICK type \in Types, index \in 0 .. 4 : type = q.type /\ index = q.index
    BY <1>2
  <2>2. DescriptorShape(type, d)
    BY <1>1, <1>3, <2>1, DescriptorBytes
  <2> QED BY <2>2 DEF DescriptorShape
<1>5. reply' = Truncate(d, q.wLength)
  BY <1>3 DEF Ask
<1>6. reply' \in Seq(Byte)
  BY <1>2, <1>4, <1>5, Truncated
<1>7. << >> \in Seq(Seq(Byte))
  OBVIOUS
<1>8. TypeOK'
  BY <1>1, <1>6, <1>7 DEF TypeOK
<1>9. Answer' = d
  BY <1>1, <1>3 DEF Answer, Descriptor
<1>10. WalkOfOne'
  BY <1>1 DEF WalkOfOne
<1>11. WalkOfConfig'
  BY <1>1, <1>6, LenProperties DEF WalkOfConfig
<1> QED BY <1>1, <1>5, <1>8, <1>9, <1>10, <1>11 DEF IInv

(* The part of a reply that is equal to a piece is the piece. *)
LEMMA Found ==
  ASSUME NEW r \in Seq(Byte), NEW piece \in Seq(Byte), NEW m \in Nat,
         m + Len(piece) <= Len(r),
         \A k \in 1 .. Len(piece) : r[m + k] = piece[k]
  PROVE  SubSeq(r, m + 1, m + Len(piece)) = piece
<1>1. PICK len \in Nat : len = Len(piece)
  BY LenProperties
<1>2. Len(r) \in Nat
  BY LenProperties
<1>3. \A k \in m + 1 .. m + len : r[k] \in Byte
  BY <1>1, <1>2, ElementOfSeq
<1>4. PICK c : c = SubSeq(r, m + 1, m + len)
  OBVIOUS
<1>5. /\ c \in Seq(Byte) /\ Len(c) = IF m + 1 <= m + len THEN m + len - (m + 1) + 1 ELSE 0
      /\ \A k \in 1 .. m + len - (m + 1) + 1 : c[k] = r[m + 1 + k - 1]
  <2>1. m + 1 \in Int /\ m + len \in Int
    OBVIOUS
  <2>2. SubSeq(r, m + 1, m + len) \in Seq(Byte)
    BY <1>3, <2>1, SubSeqProperties
  <2>3. Len(SubSeq(r, m + 1, m + len))
          = IF m + 1 <= m + len THEN m + len - (m + 1) + 1 ELSE 0
    BY <1>3, <2>1, SubSeqProperties
  <2>4. \A k \in 1 .. m + len - (m + 1) + 1 :
          SubSeq(r, m + 1, m + len)[k] = r[m + 1 + k - 1]
    BY <1>3, <2>1, SubSeqProperties
  <2> QED BY <1>4, <2>2, <2>3, <2>4
<1>6. Len(c) = len
  BY <1>5
<1>7. ASSUME NEW k \in 1 .. len PROVE c[k] = piece[k]
  <2>1. c[k] = r[m + 1 + k - 1]
    BY <1>5
  <2>2. r[m + k] = piece[k]
    BY <1>1
  <2> QED BY <2>1, <2>2
<1>8. c = piece
  BY <1>1, <1>5, <1>6, <1>7, SeqEqual
<1> QED BY <1>1, <1>4, <1>8

LEMMA WalkType ==
  ASSUME TypeOK, Walk
  PROVE  TypeOK'
<1>1. /\ reply \in Seq(Byte) /\ chunks \in Seq(Seq(Byte)) /\ pos \in Nat \ {0}
      /\ pos <= Len(reply) /\ pos + reply[pos] - 1 <= Len(reply)
      /\ chunks' = Append(chunks, SubSeq(reply, pos, pos + reply[pos] - 1))
      /\ pos' = pos + reply[pos]
  BY DEF TypeOK, Walk
<1>2. Len(reply) \in Nat /\ pos \in 1 .. Len(reply)
  BY <1>1, LenProperties
<1>3. PICK b \in 0 .. 255 : b = reply[pos]
  BY <1>1, <1>2, ElementOfSeq DEF Byte
<1>4. PICK last \in Int : last = pos + b - 1
  BY <1>1
<1>5. \A k \in pos .. last : reply[k] \in Byte
  BY <1>1, <1>2, <1>3, <1>4, ElementOfSeq
<1>6. SubSeq(reply, pos, last) \in Seq(Byte)
  BY <1>2, <1>5, SubSeqProperties
<1>7. chunks' \in Seq(Seq(Byte))
  BY <1>1, <1>3, <1>4, <1>6, AppendProperties
<1>8. pos' \in Nat \ {0}
  <2>1. pos' = pos + b
    BY <1>1, <1>3
  <2> QED BY <1>2, <2>1
<1> QED BY <1>1, <1>7, <1>8 DEF TypeOK, Walk

(* A descriptor other than the configuration is found at once or not at    *)
(* all.                                                                    *)
LEMMA WalkThroughOne ==
  ASSUME IInv, Walk, ~HasPieces
  PROVE  WalkOfOne'
<1>1. /\ TypeOK /\ WalkOfOne /\ reply = Truncate(Answer, asked.wLength)
      /\ reply \in Seq(Byte) /\ Len(reply) \in Nat
  BY LenProperties DEF IInv, TypeOK
<1>2. PICK d \in Seq(Byte) : d = Answer
  BY <1>1, AnswerBytes
<1>3. Len(d) \in Nat
  BY LenProperties
<1>4. /\ pos <= Len(reply) /\ pos + reply[pos] - 1 <= Len(reply)
      /\ chunks' = Append(chunks, SubSeq(reply, pos, pos + reply[pos] - 1))
      /\ pos' = pos + reply[pos] /\ reply' = reply
  BY DEF Walk
<1>5. chunks = << >> /\ pos = 1
  BY <1>1, <1>4 DEF WalkOfOne
<1>6. /\ Len(reply) <= Len(d)
      /\ \A k \in 1 .. Len(reply) : reply[k] = d[k]
      /\ Len(reply) = Len(d) => reply = d
  BY <1>1, <1>2, ReplyBytes
<1>7. d # << >>
  BY <1>3, <1>4, <1>5, <1>6
<1>8. reply[1] = Len(d)
  <2>1. d[1] = Len(d)
    BY <1>1, <1>2, <1>7, AnswerBytes DEF Single
  <2>2. 1 \in 1 .. Len(reply)
    BY <1>1, <1>4, <1>5
  <2> QED BY <1>6, <2>1, <2>2
<1>9. reply = d
  BY <1>1, <1>3, <1>4, <1>5, <1>6, <1>8
<1>10. SubSeq(reply, pos, pos + reply[pos] - 1) = d
  <2>1. pos + reply[pos] - 1 = Len(d)
    BY <1>3, <1>5, <1>8
  <2> QED BY <1>5, <1>9, <2>1, SubSeqFull
<1>11. chunks' = <<d>> /\ pos' = Len(reply) + 1
  BY <1>3, <1>4, <1>5, <1>8, <1>9, <1>10
<1>12. Answer' = Answer
  BY DEF Answer, Descriptor, Walk
<1> QED BY <1>2, <1>4, <1>7, <1>9, <1>11, <1>12 DEF WalkOfOne, Nothing

(* The reply to a request for a configuration, byte by byte. *)
LEMMA ConfigReply ==
  ASSUME TypeOK, reply = Truncate(Answer, asked.wLength), HasPieces,
         NEW h, h = Header(num_interfaces, asked.type)
  PROVE  /\ Len(reply) <= 9 + 43 * num_interfaces
         /\ Len(reply) < asked.wLength => Len(reply) = 9 + 43 * num_interfaces
         /\ \A k \in 1 .. 9 : k <= Len(reply) => reply[k] = h[k]
         /\ \A i \in 0 .. num_interfaces - 1 : \A p \in 1 .. 4 : \A k \in 1 .. Lengths[p] :
              9 + 43 * i + Before[p] + k <= Len(reply) =>
                reply[9 + 43 * i + Before[p] + k] = Interface(i)[p][k]
<1>1. PICK n \in 1 .. 4 : n = num_interfaces
  BY DEF TypeOK
<1>2. PICK c : c = h \o Interfaces[n]
  OBVIOUS
<1>3. Answer = c
  BY <1>1, <1>2, AnswerBytes
<1>4. /\ c \in Seq(Byte) /\ Len(c) = 9 + 43 * n
      /\ BeginsWith(c, h)
      /\ \A i \in 0 .. n - 1 : Holds(c, 9 + 43 * i, i)
  <2>1. h = Header(n, asked.type)
    BY <1>1
  <2>2. c \in Seq(Byte) /\ Len(c) = 9 + 43 * n
    BY <1>2, <2>1, ConfigBytes
  <2>3. BeginsWith(c, h)
    BY <1>2, <2>1, ConfigBytes
  <2>4. \A i \in 0 .. n - 1 : Holds(c, 9 + 43 * i, i)
    BY <1>2, <2>1, ConfigBytes
  <2> QED BY <2>2, <2>3, <2>4
<1>5. /\ Len(reply) <= Len(c)
      /\ \A k \in 1 .. Len(reply) : reply[k] = c[k]
      /\ Len(reply) < asked.wLength => reply = c
  BY <1>3, ReplyBytes
<1>6. Len(reply) \in Nat
  BY LenProperties DEF TypeOK
<1>7. ASSUME NEW i \in 0 .. n - 1, NEW p \in 1 .. 4, NEW k \in 1 .. Lengths[p],
             9 + 43 * i + Before[p] + k <= Len(reply)
      PROVE  reply[9 + 43 * i + Before[p] + k] = Interface(i)[p][k]
  <2>1. c[9 + 43 * i + Before[p] + k] = Interface(i)[p][k]
    BY <1>4 DEF Holds
  <2>2. Before[p] \in Nat /\ Lengths[p] \in Nat
    BY Places
  <2>3. 9 + 43 * i + Before[p] + k \in 1 .. Len(reply)
    BY <1>6, <1>7, <2>2
  <2> QED BY <1>5, <2>1, <2>3
<1>8. \A k \in 1 .. 9 : k <= Len(reply) => reply[k] = h[k]
  BY <1>4, <1>5, <1>6 DEF BeginsWith
<1>9. /\ Len(reply) <= 9 + 43 * n
      /\ Len(reply) < asked.wLength => Len(reply) = 9 + 43 * n
  BY <1>4, <1>5
<1> QED BY <1>1, <1>7, <1>8, <1>9

LEMMA Appended ==
  ASSUME NEW S, NEW s \in Seq(S), NEW e \in S, NEW t, t = Append(s, e)
  PROVE  /\ Len(t) = Len(s) + 1
         /\ \A k \in 1 .. Len(s) : t[k] = s[k]
         /\ t[Len(s) + 1] = e
BY AppendProperties

(* The first step finds the header. *)
LEMMA FindsHeader ==
  ASSUME IInv, Walk, HasPieces, chunks = << >>, pos = 1
  PROVE  WalkOfConfig'
<1>1. /\ TypeOK /\ reply = Truncate(Answer, asked.wLength)
      /\ reply \in Seq(Byte) /\ Len(reply) \in Nat /\ num_interfaces \in 1 .. 4
  BY LenProperties DEF IInv, TypeOK
<1>2. PICK h : h = Header(num_interfaces, asked.type)
  OBVIOUS
<1>3. h \in Seq(Byte) /\ Len(h) = 9 /\ h[1] = 9
  BY <1>1, <1>2, HeaderBytes
<1>4. \A k \in 1 .. 9 : k <= Len(reply) => reply[k] = h[k]
  BY <1>1, <1>2, ConfigReply
<1>5. /\ 1 <= Len(reply) /\ 1 + reply[1] - 1 <= Len(reply)
      /\ chunks' = Append(<< >>, SubSeq(reply, 1, 1 + reply[1] - 1))
      /\ pos' = 1 + reply[1]
      /\ reply' = reply /\ num_interfaces' = num_interfaces /\ asked' = asked
  BY DEF Walk
<1>6. reply[1] = 9 /\ 9 <= Len(reply)
  BY <1>1, <1>3, <1>4, <1>5
<1>7. SubSeq(reply, 1, 9) = h
  <2>1. \A k \in 1 .. 9 : reply[0 + k] = h[k]
    BY <1>1, <1>4, <1>6
  <2>2. SubSeq(reply, 0 + 1, 0 + Len(h)) = h
    BY <1>1, <1>3, <1>6, <2>1, Found
  <2> QED BY <1>3, <2>2
<1>8. chunks' = <<h>> /\ pos' = 10
  BY <1>5, <1>6, <1>7
<1>9. Len(chunks') = 1 /\ chunks'[1] = h
  BY <1>8
<1>10. AtPiece(0, 1)'
  BY <1>1, <1>5, <1>8, <1>9, Places DEF AtPiece
<1>11. 0 \in 0 .. num_interfaces' /\ 1 \in 1 .. 4
  BY <1>1, <1>5
<1>12. \A i \in 0 .. 3, p \in 1 .. 4 : ~(4 * i + p + 1 <= Len(chunks'))
  BY <1>9
<1> QED BY <1>2, <1>5, <1>6, <1>8, <1>9, <1>10, <1>11, <1>12 DEF WalkOfConfig

(* A later step finds the p-th piece of interface i. *)
LEMMA FindsPiece ==
  ASSUME IInv, Walk, HasPieces,
         NEW i \in 0 .. num_interfaces, NEW p \in 1 .. 4, AtPiece(i, p)
  PROVE  WalkOfConfig'
<1>1. /\ TypeOK /\ reply = Truncate(Answer, asked.wLength) /\ WalkOfConfig
      /\ reply \in Seq(Byte) /\ Len(reply) \in Nat
      /\ chunks \in Seq(Seq(Byte))
  BY LenProperties DEF IInv, TypeOK
<1>2. PICK n \in 1 .. 4 : n = num_interfaces
  BY DEF IInv, TypeOK
<1>3. PICK h : h = Header(n, asked.type)
  OBVIOUS
<1>4. PICK len \in 7 .. 20, b \in 0 .. 36 : len = Lengths[p] /\ b = Before[p] /\ b + len <= 43
  BY PlaceOf
<1>5. PICK m \in Nat : m = 9 + 43 * i + b /\ pos = m + 1
  <2>1. pos = 10 + 43 * i + b
    BY <1>4 DEF AtPiece
  <2>2. PICK m \in Nat : m = 9 + 43 * i + b
    BY <1>2
  <2> QED BY <1>2, <2>1, <2>2
<1>6. PICK v : v = reply[m + 1]
  OBVIOUS
<1>7. /\ m + 1 <= Len(reply) /\ m + 1 + v - 1 <= Len(reply)
      /\ chunks' = Append(chunks, SubSeq(reply, m + 1, m + 1 + v - 1))
      /\ pos' = m + 1 + v
      /\ reply' = reply /\ num_interfaces' = num_interfaces /\ asked' = asked
  BY <1>5, <1>6 DEF Walk
<1>8. /\ Len(reply) <= 9 + 43 * n
      /\ \A j \in 0 .. n - 1 : \A q \in 1 .. 4 : \A k \in 1 .. Lengths[q] :
           9 + 43 * j + Before[q] + k <= Len(reply) =>
             reply[9 + 43 * j + Before[q] + k] = Interface(j)[q][k]
  BY <1>1, <1>2, <1>3, ConfigReply
<1>9. i \in 0 .. n - 1 /\ i \in 0 .. 3
  <2>1. CASE i = n
    <3>1. m = 9 + 43 * n
      BY <1>2, <1>4, <1>5, <2>1, Places DEF AtPiece
    <3> QED BY <1>1, <1>7, <1>8, <3>1
  <2>2. CASE i # n
    BY <1>2, <2>2
  <2> QED BY <2>1, <2>2
<1>10. PICK piece \in Seq(Byte) : piece = Interface(i)[p] /\ Len(piece) = len /\ piece[1] = len
  BY <1>4, <1>9, PieceBytes
<1>11. \A k \in 1 .. len : m + k <= Len(reply) => reply[m + k] = piece[k]
  BY <1>4, <1>5, <1>8, <1>9, <1>10
<1>12. v = len
  <2>1. 1 \in 1 .. len /\ m + 1 <= Len(reply)
    BY <1>7
  <2>2. reply[m + 1] = piece[1]
    BY <1>11, <2>1
  <2> QED BY <1>6, <1>10, <2>2
<1>13. m + len <= Len(reply)
  BY <1>1, <1>7, <1>12
<1>14. SubSeq(reply, m + 1, m + len) = piece
  <2>1. \A k \in 1 .. len : reply[m + k] = piece[k]
    BY <1>1, <1>11, <1>13
  <2>2. m + Len(piece) <= Len(reply) /\ \A k \in 1 .. Len(piece) : reply[m + k] = piece[k]
    BY <1>10, <1>13, <2>1
  <2>3. SubSeq(reply, m + 1, m + Len(piece)) = piece
    BY <1>1, <2>2, Found
  <2> QED BY <1>10, <2>3
<1>15. chunks' = Append(chunks, piece) /\ pos' = m + len + 1
  <2>1. m + 1 + v - 1 = m + len /\ m + 1 + v = m + len + 1
    BY <1>12
  <2> QED BY <1>7, <1>14, <2>1
<1>16. Len(chunks) = 4 * i + p
  BY DEF AtPiece
<1>17. /\ Len(chunks') = 4 * i + p + 1
       /\ \A k \in 1 .. 4 * i + p : chunks'[k] = chunks[k]
       /\ chunks'[4 * i + p + 1] = piece
  <2>1. Len(chunks') = Len(chunks) + 1
    BY <1>1, <1>10, <1>15, Appended
  <2>2. \A k \in 1 .. Len(chunks) : chunks'[k] = chunks[k]
    BY <1>1, <1>10, <1>15, Appended
  <2>3. chunks'[Len(chunks) + 1] = piece
    BY <1>1, <1>10, <1>15, Appended
  <2> QED BY <1>16, <2>1, <2>2, <2>3
<1>18. \E j \in 0 .. num_interfaces', q \in 1 .. 4 : AtPiece(j, q)'
  <2>1. CASE p \in 1 .. 3
    <3>1. Before[p + 1] = b + len
      <4>1. CASE p = 1
        BY <1>4, <4>1, Places
      <4>2. CASE p = 2
        BY <1>4, <4>2, Places
      <4>3. CASE p = 3
        BY <1>4, <4>3, Places
      <4> QED BY <2>1, <4>1, <4>2, <4>3
    <3>2. Len(chunks') = 4 * i + (p + 1)
      BY <1>17
    <3>3. pos' = 10 + 43 * i + Before[p + 1]
      BY <1>5, <1>15, <3>1
    <3>4. i # num_interfaces'
      BY <1>2, <1>7, <1>9
    <3>5. AtPiece(i, p + 1)'
      BY <3>2, <3>3, <3>4 DEF AtPiece
    <3>6. i \in 0 .. num_interfaces' /\ p + 1 \in 1 .. 4
      BY <1>2, <1>7, <1>9, <2>1
    <3> QED BY <3>5, <3>6
  <2>2. CASE p = 4
    <3>1. Before[1] = 0 /\ b + len = 43
      BY <1>4, <2>2, Places
    <3>2. Len(chunks') = 4 * (i + 1) + 1
      BY <1>17, <2>2
    <3>3. pos' = 10 + 43 * (i + 1) + Before[1]
      BY <1>5, <1>15, <3>1
    <3>4. AtPiece(i + 1, 1)'
      BY <3>2, <3>3 DEF AtPiece
    <3>5. i + 1 \in 0 .. num_interfaces' /\ 1 \in 1 .. 4
      BY <1>2, <1>7, <1>9
    <3> QED BY <3>4, <3>5
  <2> QED BY <2>1, <2>2
<1>19. chunks'[1] = h
  <2>1. chunks[1] = h
    BY <1>1, <1>2, <1>3, <1>9, <1>16 DEF WalkOfConfig
  <2> QED BY <1>9, <1>17, <2>1
<1>20. ASSUME NEW j \in 0 .. 3, NEW q \in 1 .. 4, 4 * j + q + 1 <= Len(chunks')
       PROVE  chunks'[4 * j + q + 1] = Interface(j)[q]
  <2>1. CASE 4 * j + q + 1 = 4 * i + p + 1
    <3>1. j = i /\ q = p
      BY <1>9, <2>1
    <3> QED BY <1>10, <1>17, <3>1
  <2>2. CASE 4 * j + q + 1 <= Len(chunks)
    <3>1. chunks[4 * j + q + 1] = Interface(j)[q]
      BY <1>1, <2>2 DEF WalkOfConfig
    <3>2. 4 * j + q + 1 \in 1 .. 4 * i + p
      BY <1>16, <2>2
    <3> QED BY <1>17, <3>1, <3>2
  <2>3. 4 * j + q + 1 = 4 * i + p + 1 \/ 4 * j + q + 1 <= Len(chunks)
    BY <1>9, <1>16, <1>17, <1>20
  <2> QED BY <2>1, <2>2, <2>3
<1>21. pos' <= Len(reply') + 1
  BY <1>1, <1>7, <1>13, <1>15
<1>22. Header(num_interfaces, asked.type)' = h
  BY <1>2, <1>3, <1>7
<1> QED BY <1>18, <1>19, <1>20, <1>21, <1>22 DEF WalkOfConfig

LEMMA WalkStep ==
  ASSUME IInv, Walk
  PROVE  IInv'
<1>1. TypeOK'
  BY WalkType DEF IInv
<1>2. /\ reply' = reply /\ asked' = asked /\ Answer' = Answer
      /\ HasPieces' = HasPieces
  BY DEF Walk, Answer, Descriptor, HasPieces, InPieces
<1>3. ~HasPieces => WalkOfOne'
  BY WalkThroughOne
<1>4. HasPieces => WalkOfConfig'
  BY FindsHeader, FindsPiece DEF IInv, WalkOfConfig
<1> QED BY <1>1, <1>2, <1>3, <1>4 DEF IInv

LEMMA Inductive == IInv /\ [Next]_vars => IInv'
<1> SUFFICES ASSUME IInv, [Next]_vars PROVE IInv'
  OBVIOUS
<1>1. ASSUME NEW q \in Queries, Ask(q) PROVE IInv'
  BY <1>1, AskStep
<1>2. CASE Walk
  BY <1>2, WalkStep
<1>3. CASE UNCHANGED vars
  BY <1>3 DEF vars, IInv, TypeOK, Answer, Descriptor, HasPieces, InPieces, WalkOfOne, WalkOfConfig,
                AtPiece
<1> QED BY <1>1, <1>2, <1>3 DEF Next

LEMMA InvAlways == Spec => []IInv
BY IInvInit, Inductive, PTL DEF Spec

(***************************************************************************)
(* The properties.                                                         *)
(***************************************************************************)

(* TypeOK for every wLength and every serial number the assumptions allow: *)
(* what build_descriptor_bytes and handle_control put together are bytes.  *)
THEOREM TypeCorrect == Spec => []TypeOK
<1>1. IInv => TypeOK
  BY DEF IInv
<1> QED BY <1>1, InvAlways, PTL

(* Only the C code has a configuration for the other speed. *)
LEMMA Configured ==
  ASSUME IInv, asked.type \in Configurations, reply # << >>
  PROVE  HasPieces
<1> SUFFICES ASSUME ~HasPieces PROVE FALSE
  OBVIOUS
<1>1. TypeOK /\ reply = Truncate(Answer, asked.wLength) /\ code \in {"rust", "c"}
  BY DEF IInv, TypeOK
<1>2. asked.type = "other_speed" /\ code = "rust"
  BY <1>1 DEF HasPieces, InPieces, Configurations
<1>3. Answer = << >>
  BY <1>2 DEF Answer, Descriptor, Data, Nothing
<1>4. Len(reply) <= 0 /\ reply \in Seq(Byte)
  BY <1>1, <1>3, ReplyBytes DEF TypeOK
<1>5. reply = << >>
  BY <1>4, EmptySeq, LenProperties
<1> QED BY <1>5

(* What the header announces. *)
LEMMA HeaderAnnounces ==
  ASSUME IInv, HasPieces, Len(reply) >= 4
  PROVE  Announced = 9 + 43 * num_interfaces
<1>1. /\ TypeOK /\ reply = Truncate(Answer, asked.wLength) /\ Len(reply) \in Nat
  BY LenProperties DEF IInv, TypeOK
<1>2. PICK n \in 1 .. 4 : n = num_interfaces
  BY DEF IInv, TypeOK
<1>3. PICK h : h = Header(n, asked.type)
  OBVIOUS
<1>4. \A k \in 1 .. 9 : k <= Len(reply) => reply[k] = h[k]
  BY <1>1, <1>2, <1>3, ConfigReply
<1>5. h[3] = 9 + n * 43 /\ h[4] = 0
  BY <1>3, HeaderBytes
<1>6. reply[3] = 9 + n * 43 /\ reply[4] = 0
  BY <1>4, <1>5
<1> QED BY <1>2, <1>6 DEF Announced

(* A host that knows nothing was cut off is right. *)
LEMMA WholeConfig ==
  ASSUME IInv, Whole, asked.type \in Configurations
  PROVE  HasPieces /\ Len(reply) = 9 + 43 * num_interfaces
<1>1. /\ TypeOK /\ reply = Truncate(Answer, asked.wLength) /\ HasPieces
  BY Configured DEF IInv, Whole, Nothing
<1>2. PICK h : h = Header(num_interfaces, asked.type)
  OBVIOUS
<1>3. Len(reply) < asked.wLength => Len(reply) = 9 + 43 * num_interfaces
  BY <1>1, <1>2, ConfigReply
<1>4. Len(reply) >= 4 /\ Announced = Len(reply) => Len(reply) = 9 + 43 * num_interfaces
  BY <1>1, HeaderAnnounces
<1> QED BY <1>1, <1>3, <1>4 DEF Whole

LEMMA ChainInOne ==
  ASSUME IInv, Whole, asked.type \notin Configurations, pos <= Len(reply)
  PROVE  reply[pos] >= 2 /\ pos + reply[pos] - 1 <= Len(reply)
<1>1. ~HasPieces
  BY DEF HasPieces, InPieces, Configurations
<1>2. TypeOK /\ WalkOfOne /\ reply = Truncate(Answer, asked.wLength) /\ Len(reply) \in Nat
  BY <1>1, LenProperties DEF IInv, TypeOK
<1>3. reply = Answer
  BY <1>2, ReplyBytes DEF Whole
<1>4. pos = 1
  BY <1>2 DEF WalkOfOne
<1>5. Single(reply)
  BY <1>1, <1>2, <1>3, AnswerBytes
<1> QED BY <1>2, <1>4, <1>5 DEF Single, Whole, Nothing

LEMMA ChainInConfig ==
  ASSUME IInv, Whole, asked.type \in Configurations, pos <= Len(reply)
  PROVE  reply[pos] >= 2 /\ pos + reply[pos] - 1 <= Len(reply)
<1>a. HasPieces /\ Len(reply) = 9 + 43 * num_interfaces
  BY WholeConfig
<1>1. /\ TypeOK /\ WalkOfConfig /\ reply = Truncate(Answer, asked.wLength)
      /\ Len(reply) \in Nat
  BY <1>a, LenProperties DEF IInv, TypeOK
<1>2. PICK n \in 1 .. 4 : n = num_interfaces
  BY DEF IInv, TypeOK
<1>3. PICK h : h = Header(n, asked.type)
  OBVIOUS
<1>4. /\ Len(reply) = 9 + 43 * n
      /\ \A k \in 1 .. 9 : k <= Len(reply) => reply[k] = h[k]
      /\ \A i \in 0 .. n - 1 : \A p \in 1 .. 4 : \A k \in 1 .. Lengths[p] :
           9 + 43 * i + Before[p] + k <= Len(reply) =>
             reply[9 + 43 * i + Before[p] + k] = Interface(i)[p][k]
  BY <1>a, <1>1, <1>2, <1>3, ConfigReply
<1>5. CASE pos = 1
  <2>1. reply[1] = 9
    <3>1. h[1] = 9
      BY <1>3, HeaderBytes
    <3>2. 1 \in 1 .. 9 /\ 1 <= Len(reply)
      BY <1>4
    <3> QED BY <1>4, <3>1, <3>2
  <2> QED BY <1>2, <1>4, <1>5, <2>1
<1>6. ASSUME NEW i \in 0 .. num_interfaces, NEW p \in 1 .. 4, AtPiece(i, p)
      PROVE  reply[pos] >= 2 /\ pos + reply[pos] - 1 <= Len(reply)
  <2>1. PICK len \in 7 .. 20, b \in 0 .. 36 : len = Lengths[p] /\ b = Before[p] /\ b + len <= 43
    BY PlaceOf
  <2>2. pos = 10 + 43 * i + b /\ (i = n => p = 1)
    BY <1>2, <1>6, <2>1 DEF AtPiece
  <2>3. i \in 0 .. n - 1 /\ i \in 0 .. 3
    <3>1. i \in 0 .. n
      BY <1>2
    <3>2. ASSUME i = n PROVE FALSE
      <4>1. pos > 9 + 43 * n
        BY <2>2, <3>2
      <4>2. pos <= 9 + 43 * n
        BY <1>a, <1>2
      <4> QED BY <1>1, <1>2, <4>1, <4>2 DEF TypeOK
    <3> QED BY <3>1, <3>2
  <2>4. 9 + 43 * i + b + 1 <= Len(reply)
    BY <2>2, <2>3
  <2>5. 1 \in 1 .. len
    OBVIOUS
  <2>6. reply[9 + 43 * i + b + 1] = Interface(i)[p][1]
    BY <1>4, <2>1, <2>3, <2>4, <2>5
  <2>7. reply[pos] = len
    <3>1. Interface(i)[p][1] = len
      BY <2>1, <2>3, PieceBytes
    <3>2. pos = 9 + 43 * i + b + 1
      BY <2>2
    <3> QED BY <2>6, <3>1, <3>2
  <2>8. pos + len - 1 <= 9 + 43 * n
    BY <2>1, <2>2, <2>3, SMTT(20)
  <2> QED BY <1>4, <2>2, <2>3, <2>7, <2>8
<1> QED BY <1>1, <1>5, <1>6 DEF WalkOfConfig

LEMMA LengthAnnounced ==
  ASSUME IInv, asked.type \in Configurations, Len(reply) >= 4
  PROVE  IF Len(reply) < asked.wLength THEN Announced = Len(reply) ELSE Announced >= Len(reply)
<1>1. /\ TypeOK /\ reply = Truncate(Answer, asked.wLength) /\ Len(reply) \in Nat
      /\ num_interfaces \in 1 .. 4
  BY LenProperties DEF IInv, TypeOK
<1>2. reply # << >>
  OBVIOUS
<1>3. HasPieces
  BY <1>2, Configured
<1>4. PICK h : h = Header(num_interfaces, asked.type)
  OBVIOUS
<1>5. /\ Len(reply) <= 9 + 43 * num_interfaces
      /\ Len(reply) < asked.wLength => Len(reply) = 9 + 43 * num_interfaces
  BY <1>1, <1>3, <1>4, ConfigReply
<1>6. Announced = 9 + 43 * num_interfaces
  BY <1>3, HeaderAnnounces
<1> QED BY <1>1, <1>5, <1>6

(* ChainSound: in a reply that the host knows to be whole no bLength leads *)
(* it astray, and wTotalLength is the length of the whole configuration,   *)
(* whichever of the two implementations it talks to.                       *)
THEOREM ChainIsSound == Spec => []ChainSound
<1>1. IInv => ChainSound
  BY ChainInOne, ChainInConfig, LengthAnnounced DEF ChainSound
<1> QED BY <1>1, InvAlways, PTL

(* The pieces at their places in a walk through the configuration. *)
LEMMA PiecesFound ==
  ASSUME IInv, HasPieces, NEW k \in DOMAIN chunks
  PROVE  \/ k = 1 /\ chunks[k] = Header(num_interfaces, asked.type)
         \/ \E i \in 0 .. num_interfaces - 1, p \in 1 .. 4 :
              k = 4 * i + p + 1 /\ chunks[k] = Interface(i)[p]
<1>1. WalkOfConfig /\ chunks \in Seq(Seq(Byte)) /\ num_interfaces \in 1 .. 4
  BY DEF IInv, TypeOK
<1>2. PICK n \in 1 .. 4 : n = num_interfaces
  BY <1>1
<1>3. k \in 1 .. Len(chunks) /\ Len(chunks) \in Nat
  BY <1>1, LenProperties
<1>4. Len(chunks) <= 4 * n + 1
  <2>1. ASSUME NEW i \in 0 .. num_interfaces, NEW p \in 1 .. 4, AtPiece(i, p)
        PROVE  Len(chunks) <= 4 * n + 1
    BY <1>2, <2>1 DEF AtPiece
  <2>2. chunks = << >> => Len(chunks) <= 4 * n + 1
    OBVIOUS
  <2> QED BY <1>1, <2>1, <2>2 DEF WalkOfConfig
<1>5. CASE k = 1
  BY <1>1, <1>3, <1>5 DEF WalkOfConfig
<1>6. CASE k # 1
  <2>1. PICK i \in 0 .. n - 1, p \in 1 .. 4 : k = 4 * i + p + 1
    <3>a. PICK l \in Nat : l = Len(chunks)
      BY <1>3
    <3>b. k \in Int /\ 2 <= k /\ k <= l /\ l <= 4 * n + 1
      BY <1>3, <1>4, <1>6, <3>a
    <3>c. k - 2 \in 0 .. 15 /\ k - 2 < 4 * n
      BY <3>b
    <3>1. PICK m \in 0 .. 15 : m = k - 2 /\ m < 4 * n
      BY <3>c, Zenon
    <3>2. PICK i \in 0 .. 3, p \in 1 .. 4 : m = 4 * i + p - 1
      BY <3>1
    <3> QED BY <3>1, <3>2
  <2>2. chunks[4 * i + p + 1] = Interface(i)[p]
    <3>1. i \in 0 .. 3 /\ 4 * i + p + 1 <= Len(chunks)
      BY <1>3, <2>1
    <3> QED BY <1>1, <3>1 DEF WalkOfConfig
  <2> QED BY <1>2, <2>1, <2>2
<1> QED BY <1>5, <1>6

(* The descriptor types in a walk through the configuration. *)
LEMMA EndpointsFound ==
  ASSUME IInv, HasPieces, NEW k \in OfType(5)
  PROVE  \E i \in 0 .. num_interfaces - 1 :
           \/ k = 4 * i + 4 /\ chunks[k] = Interface(i)[3]
           \/ k = 4 * i + 5 /\ chunks[k] = Interface(i)[4]
<1>1. k \in DOMAIN chunks /\ chunks[k][2] = 5
  BY DEF OfType
<1>2. PICK n \in 1 .. 4 : n = num_interfaces
  BY DEF IInv, TypeOK
<1>3. PICK h : h = Header(n, asked.type) /\ h[2] \in {2, 7}
  BY HeaderBytes
<1>4. ~(k = 1 /\ chunks[k] = h)
  BY <1>1, <1>3
<1>5. PICK i \in 0 .. n - 1, p \in 1 .. 4 : k = 4 * i + p + 1 /\ chunks[k] = Interface(i)[p]
  BY <1>1, <1>2, <1>3, <1>4, PiecesFound
<1>6. Interface(i)[1][2] = 4 /\ Interface(i)[2][2] = 34
  BY PieceFields
<1>7. p = 3 \/ p = 4
  BY <1>1, <1>5, <1>6
<1>8. (k = 4 * i + 4 /\ chunks[k] = Interface(i)[3]) \/ (k = 4 * i + 5 /\ chunks[k] = Interface(i)[4])
  BY <1>5, <1>7
<1> QED BY <1>2, <1>8

LEMMA InterfacesFound ==
  ASSUME IInv, HasPieces, NEW k \in OfType(4)
  PROVE  \E i \in 0 .. num_interfaces - 1 : k = 4 * i + 2 /\ chunks[k] = Interface(i)[1]
<1>1. k \in DOMAIN chunks /\ chunks[k][2] = 4
  BY DEF OfType
<1>2. PICK n \in 1 .. 4 : n = num_interfaces
  BY DEF IInv, TypeOK
<1>3. PICK h : h = Header(n, asked.type) /\ h[2] \in {2, 7}
  BY HeaderBytes
<1>4. ~(k = 1 /\ chunks[k] = h)
  BY <1>1, <1>3
<1>5. PICK i \in 0 .. n - 1, p \in 1 .. 4 : k = 4 * i + p + 1 /\ chunks[k] = Interface(i)[p]
  BY <1>1, <1>2, <1>3, <1>4, PiecesFound
<1>6. Interface(i)[2][2] = 34 /\ Interface(i)[3][2] = 5 /\ Interface(i)[4][2] = 5
  BY PieceFields
<1>7. p = 1
  BY <1>1, <1>5, <1>6
<1>8. k = 4 * i + 2 /\ chunks[k] = Interface(i)[1]
  BY <1>5, <1>7
<1> QED BY <1>2, <1>8

LEMMA NothingNamed ==
  ASSUME IInv, HasPieces
  PROVE  /\ \A k \in OfType(2) \cup OfType(7) : chunks[k][7] = 0
         /\ \A k \in OfType(4) : chunks[k][9] = 0
<1>1. PICK n \in 1 .. 4 : n = num_interfaces
  BY DEF IInv, TypeOK
<1>2. PICK h : h = Header(n, asked.type) /\ h[7] = 0
  BY HeaderBytes
<1>3. ASSUME NEW k \in OfType(2) \cup OfType(7) PROVE chunks[k][7] = 0
  <2>1. k \in DOMAIN chunks /\ chunks[k][2] \in {2, 7}
    BY DEF OfType
  <2>2. CASE k = 1 /\ chunks[k] = h
    BY <1>2, <2>2
  <2>3. ASSUME NEW i \in 0 .. n - 1, NEW p \in 1 .. 4, chunks[k] = Interface(i)[p]
        PROVE  FALSE
    <3>1. /\ Interface(i)[1][2] = 4 /\ Interface(i)[2][2] = 34
          /\ Interface(i)[3][2] = 5 /\ Interface(i)[4][2] = 5
      BY PieceFields
    <3>2. p = 1 \/ p = 2 \/ p = 3 \/ p = 4
      OBVIOUS
    <3> QED BY <2>1, <2>3, <3>1, <3>2
  <2> QED BY <1>1, <1>2, <2>1, <2>2, <2>3, PiecesFound
<1>4. ASSUME NEW k \in OfType(4) PROVE chunks[k][9] = 0
  <2>1. PICK i \in 0 .. n - 1 : chunks[k] = Interface(i)[1]
    BY <1>1, InterfacesFound
  <2> QED BY <2>1, PieceFields
<1> QED BY <1>3, <1>4

LEMMA IndicesNamed ==
  ASSUME IInv
  PROVE  StringIndices \subseteq 1 .. 3
<1>1. /\ TypeOK /\ reply = Truncate(Answer, asked.wLength) /\ asked.type \in Types
  BY Query DEF IInv, TypeOK
<1>2. CASE asked.type = "device" /\ Len(reply) = 18
  <2>1. Answer = Device \/ Answer = usb_device
    BY <1>1, <1>2 DEF Answer, Descriptor, Data, LegacyData, TypeOK
  <2>2. Len(Device) = 18 /\ Len(usb_device) = 18
    BY DEF Device, usb_device
  <2>3. reply = Device \/ reply = usb_device
    BY <1>1, <1>2, <2>1, <2>2, ReplyBytes
  <2>4. reply[15] = 1 /\ reply[16] = 2 /\ reply[17] = 3
    BY <2>3 DEF Device, usb_device
  <2> QED BY <1>2, <2>4 DEF StringIndices
<1>3. CASE HasPieces
  <2>1. ~(asked.type = "device" /\ Len(reply) = 18)
    BY <1>3 DEF HasPieces, InPieces
  <2> QED BY <1>3, <2>1, NothingNamed DEF StringIndices
<1>4. CASE ~HasPieces /\ ~(asked.type = "device" /\ Len(reply) = 18)
  <2>1. WalkOfOne
    BY <1>4 DEF IInv
  <2>2. ASSUME NEW k \in DOMAIN chunks
        PROVE  chunks[k][2] \notin {2, 4, 7}
    <3>1. chunks[k] = Answer /\ Answer # << >>
      BY <2>1, <2>2 DEF WalkOfOne, Nothing
    <3>2. Answer[2] \in {1, 3, 6}
      BY <1>1, <1>4, <3>1, AnswerBytes DEF Single
    <3> QED BY <3>1, <3>2
  <2>3. OfType(2) = {} /\ OfType(4) = {} /\ OfType(7) = {}
    BY <2>2 DEF OfType
  <2> QED BY <1>4, <2>3 DEF StringIndices
<1> QED BY <1>2, <1>3, <1>4

(* StringsExist: for either implementation and every serial number of up   *)
(* to 126 units, a string that the device or its configuration refers to   *)
(* can be fetched, and announces its own length.                           *)
THEOREM StringsAreThere == Spec => []StringsExist
<1>1. ASSUME IInv PROVE StringsExist
  <2> SUFFICES ASSUME NEW k \in StringIndices, NEW s, s = Descriptor("string", k)
               PROVE  s # Nothing /\ s[1] = Len(s)
    BY DEF StringsExist
  <2>1. k \in 1 .. 3 /\ serial \in Serials /\ code \in {"rust", "c"}
    BY <1>1, IndicesNamed DEF IInv, TypeOK
  <2>2. CASE code = "rust"
    <3>1. PICK u \in 0 .. 126 : u = Strings(serial)[k]
      BY <2>1, StringsByte
    <3>2. s = StringDescriptor(u)
      BY <2>1, <2>2, <3>1 DEF Descriptor, Data
    <3>3. StringShape(s, u)
      BY <3>2, StringBytes
    <3> QED BY <3>3 DEF StringShape, Nothing
  <2>3. CASE code = "c"
    <3>1. s = set_usb_string_desc(LegacyStrings[k][1], LegacyStrings[k][2])
      BY <2>1, <2>3 DEF Descriptor, LegacyData
    <3>2. s \in Seq(Byte) /\ Len(s) >= 2 /\ s[1] = Len(s)
      BY <2>1, <3>1, LegacyStringBytes
    <3> QED BY <3>2 DEF Nothing
  <2> QED BY <2>1, <2>2, <2>3
<1> QED BY <1>1, InvAlways, PTL

(* A walk that has come to the end has found every piece. *)
LEMMA AllFound ==
  ASSUME IInv, Whole, asked.type \in Configurations, pos = Len(reply) + 1
  PROVE  \A i \in 0 .. num_interfaces - 1, p \in 1 .. 4 :
           4 * i + p + 1 \in DOMAIN chunks /\ chunks[4 * i + p + 1] = Interface(i)[p]
<1>a. HasPieces /\ Len(reply) = 9 + 43 * num_interfaces
  BY WholeConfig
<1>1. WalkOfConfig /\ chunks \in Seq(Seq(Byte))
  BY <1>a DEF IInv, TypeOK
<1>2. PICK n \in 1 .. 4 : n = num_interfaces
  BY DEF IInv, TypeOK
<1>4. Len(reply) = 9 + 43 * n
  BY <1>a, <1>2
<1>5. Len(chunks) = 4 * n + 1
  <2>1. ASSUME NEW i \in 0 .. num_interfaces, NEW p \in 1 .. 4, AtPiece(i, p)
        PROVE  Len(chunks) = 4 * n + 1
    <3>1. PICK len \in 7 .. 20, b \in 0 .. 36 :
            len = Lengths[p] /\ b = Before[p] /\ b + len <= 43
      BY PlaceOf
    <3>2. pos = 10 + 43 * i + b /\ (i = n => p = 1) /\ Len(chunks) = 4 * i + p
      BY <1>2, <2>1, <3>1 DEF AtPiece
    <3>3. i = n
      <4>1. i \in 0 .. n /\ 43 * i + b = 43 * n
        BY <1>2, <1>4, <3>2
      <4> QED BY <4>1
    <3> QED BY <3>2, <3>3
  <2>2. pos # 1
    BY <1>4
  <2> QED BY <1>1, <2>1, <2>2 DEF WalkOfConfig
<1>6. ASSUME NEW i \in 0 .. n - 1, NEW p \in 1 .. 4
      PROVE  4 * i + p + 1 \in DOMAIN chunks /\ chunks[4 * i + p + 1] = Interface(i)[p]
  <2>1. i \in 0 .. 3 /\ 4 * i + p + 1 <= Len(chunks) /\ 4 * i + p + 1 \in 1 .. Len(chunks)
    BY <1>5
  <2>2. chunks[4 * i + p + 1] = Interface(i)[p]
    BY <1>1, <2>1 DEF WalkOfConfig
  <2>3. DOMAIN chunks = 1 .. Len(chunks)
    BY <1>1, LenProperties
  <2> QED BY <2>1, <2>2, <2>3
<1> QED BY <1>2, <1>6

LEMMA EachInterface ==
  ASSUME IInv, Whole, asked.type \in Configurations, pos = Len(reply) + 1,
         NEW i \in 0 .. num_interfaces - 1
  PROVE  /\ 4 * i + 2 \in OfType(4) /\ chunks[4 * i + 2] = Interface(i)[1]
         /\ 4 * i + 3 \in OfType(34) /\ chunks[4 * i + 3] = Interface(i)[2]
         /\ 4 * i + 4 \in OfType(5) /\ chunks[4 * i + 4] = Interface(i)[3]
         /\ 4 * i + 5 \in OfType(5) /\ chunks[4 * i + 5] = Interface(i)[4]
<1>1. i \in 0 .. 3
  BY DEF IInv, TypeOK
<1>2. /\ Interface(i)[1][2] = 4 /\ Interface(i)[2][2] = 34
      /\ Interface(i)[3][2] = 5 /\ Interface(i)[4][2] = 5
  BY <1>1, PieceFields
<1>3. \A p \in 1 .. 4 : 4 * i + p + 1 \in DOMAIN chunks /\ chunks[4 * i + p + 1] = Interface(i)[p]
  BY AllFound
<1>4. 4 * i + 2 \in DOMAIN chunks /\ chunks[4 * i + 2] = Interface(i)[1]
  <2>1. 4 * i + 1 + 1 = 4 * i + 2
    BY <1>1
  <2> QED BY <1>3, <2>1
<1>5. 4 * i + 3 \in DOMAIN chunks /\ chunks[4 * i + 3] = Interface(i)[2]
  <2>1. 4 * i + 2 + 1 = 4 * i + 3
    BY <1>1
  <2> QED BY <1>3, <2>1
<1>6. 4 * i + 4 \in DOMAIN chunks /\ chunks[4 * i + 4] = Interface(i)[3]
  <2>1. 4 * i + 3 + 1 = 4 * i + 4
    BY <1>1
  <2> QED BY <1>3, <2>1
<1>7. 4 * i + 5 \in DOMAIN chunks /\ chunks[4 * i + 5] = Interface(i)[4]
  <2>1. 4 * i + 4 + 1 = 4 * i + 5
    BY <1>1
  <2> QED BY <1>3, <2>1
<1> QED BY <1>2, <1>4, <1>5, <1>6, <1>7 DEF OfType

(* Both write down the same endpoints for EP_ENABLE. *)
LEMMA SameArguments ==
  ASSUME NEW n \in 1 .. 4
  PROVE  LegacyEnableArguments(n) = EnableArguments(n)
<1>1. ASSUME NEW i \in 0 .. n - 1
      PROVE  {get_if_x(i)[3], get_if_x(i)[4]} = {Endpoint(InAddress(i), 4), Endpoint(OutAddress(i), 8)}
  <2>1. i \in 0 .. 3
    OBVIOUS
  <2>2. get_if_x(i) = Interface(i)
    BY <2>1, SamePieces
  <2> QED BY <2>1, <2>2, PieceFields
<1> QED BY <1>1, Zenon DEF LegacyEnableArguments, EnableArguments

LEMMA EndpointsAreEnabled ==
  ASSUME IInv, Whole, asked.type \in Configurations, pos = Len(reply) + 1
  PROVE  {chunks[k] : k \in OfType(5)} = Enabled
<1>1. PICK n \in 1 .. 4 : n = num_interfaces
  BY DEF IInv, TypeOK
<1>a. HasPieces
  BY WholeConfig
<1>b. Enabled = EnableArguments(n)
  BY <1>1, SameArguments DEF Enabled
<1>2. ASSUME NEW k \in OfType(5) PROVE chunks[k] \in EnableArguments(n)
  <2>1. PICK i \in 0 .. n - 1 : chunks[k] = Interface(i)[3] \/ chunks[k] = Interface(i)[4]
    BY <1>a, <1>1, EndpointsFound
  <2>2. i \in 0 .. 3
    OBVIOUS
  <2>3. chunks[k] \in {Endpoint(InAddress(i), 4), Endpoint(OutAddress(i), 8)}
    BY <2>1, <2>2, PieceFields
  <2> QED BY <2>3 DEF EnableArguments
<1>3. ASSUME NEW e \in EnableArguments(n) PROVE \E k \in OfType(5) : e = chunks[k]
  <2>1. PICK i \in 0 .. n - 1 : e \in {Endpoint(InAddress(i), 4), Endpoint(OutAddress(i), 8)}
    BY DEF EnableArguments
  <2>2. i \in 0 .. 3
    OBVIOUS
  <2>3. e = Interface(i)[3] \/ e = Interface(i)[4]
    BY <2>1, <2>2, PieceFields
  <2>4. /\ 4 * i + 4 \in OfType(5) /\ chunks[4 * i + 4] = Interface(i)[3]
        /\ 4 * i + 5 \in OfType(5) /\ chunks[4 * i + 5] = Interface(i)[4]
    BY <1>1, EachInterface
  <2> QED BY <2>3, <2>4
<1> QED BY <1>b, <1>2, <1>3

LEMMA AddressesDiffer ==
  ASSUME IInv, HasPieces, NEW j \in OfType(5), NEW k \in OfType(5), j # k
  PROVE  chunks[j][3] # chunks[k][3]
<1>1. PICK n \in 1 .. 4 : n = num_interfaces
  BY DEF IInv, TypeOK
<1>2. PICK a \in 0 .. 3 : (j = 4 * a + 4 /\ chunks[j] = Interface(a)[3])
                            \/ (j = 4 * a + 5 /\ chunks[j] = Interface(a)[4])
  <2>1. PICK a \in 0 .. n - 1 : (j = 4 * a + 4 /\ chunks[j] = Interface(a)[3])
                            \/ (j = 4 * a + 5 /\ chunks[j] = Interface(a)[4])
    BY <1>1, EndpointsFound
  <2> QED BY <2>1
<1>3. PICK b \in 0 .. 3 : (k = 4 * b + 4 /\ chunks[k] = Interface(b)[3])
                            \/ (k = 4 * b + 5 /\ chunks[k] = Interface(b)[4])
  <2>1. PICK b \in 0 .. n - 1 : (k = 4 * b + 4 /\ chunks[k] = Interface(b)[3])
                            \/ (k = 4 * b + 5 /\ chunks[k] = Interface(b)[4])
    BY <1>1, EndpointsFound
  <2> QED BY <2>1
<1>4. /\ Interface(a)[3][3] = 129 + a /\ Interface(a)[4][3] = 1 + a
      /\ Interface(b)[3][3] = 129 + b /\ Interface(b)[4][3] = 1 + b
  BY PieceFields
<1>5. (j = 4 * a + 4 /\ chunks[j][3] = 129 + a) \/ (j = 4 * a + 5 /\ chunks[j][3] = 1 + a)
  BY <1>2, <1>4
<1>6. (k = 4 * b + 4 /\ chunks[k][3] = 129 + b) \/ (k = 4 * b + 5 /\ chunks[k][3] = 1 + b)
  BY <1>3, <1>4
<1> QED BY <1>5, <1>6

LEMMA InterfacesInOrder ==
  ASSUME IInv, Whole, asked.type \in Configurations, pos = Len(reply) + 1
  PROVE  /\ {chunks[k][3] : k \in OfType(4)} = 0 .. num_interfaces - 1
         /\ \A j, k \in OfType(4) : j < k => chunks[j][3] < chunks[k][3]
         /\ \A k \in OfType(4) :
              /\ k + 1 \in OfType(34) /\ k + 2 \in OfType(5) /\ k + 3 \in OfType(5)
              /\ chunks[k + 1][6] = chunks[k + 2][3]
              /\ chunks[k + 1][14] = chunks[k + 3][3]
<1>1. PICK n \in 1 .. 4 : n = num_interfaces
  BY DEF IInv, TypeOK
<1>a. HasPieces
  BY WholeConfig
<1>2. ASSUME NEW k \in OfType(4)
      PROVE  \E i \in 0 .. n - 1 : k = 4 * i + 2 /\ chunks[k][3] = i
  <2>1. PICK i \in 0 .. n - 1 : k = 4 * i + 2 /\ chunks[k] = Interface(i)[1]
    BY <1>a, <1>1, InterfacesFound
  <2>2. Interface(i)[1][3] = i
    BY PieceFields
  <2> QED BY <2>1, <2>2
<1>3. ASSUME NEW i \in 0 .. n - 1
      PROVE  4 * i + 2 \in OfType(4) /\ chunks[4 * i + 2][3] = i
  <2>1. 4 * i + 2 \in OfType(4) /\ chunks[4 * i + 2] = Interface(i)[1]
    BY <1>1, EachInterface
  <2> QED BY <2>1, PieceFields
<1>4. {chunks[k][3] : k \in OfType(4)} = 0 .. n - 1
  <2>1. ASSUME NEW k \in OfType(4) PROVE chunks[k][3] \in 0 .. n - 1
    BY <1>2
  <2>2. ASSUME NEW i \in 0 .. n - 1 PROVE \E k \in OfType(4) : chunks[k][3] = i
    BY <1>3
  <2> QED BY <2>1, <2>2, Zenon
<1>5. ASSUME NEW j \in OfType(4), NEW k \in OfType(4), j < k
      PROVE  chunks[j][3] < chunks[k][3]
  BY <1>2, <1>5
<1>6. ASSUME NEW k \in OfType(4)
      PROVE  /\ k + 1 \in OfType(34) /\ k + 2 \in OfType(5) /\ k + 3 \in OfType(5)
             /\ chunks[k + 1][6] = chunks[k + 2][3]
             /\ chunks[k + 1][14] = chunks[k + 3][3]
  <2>1. PICK i \in 0 .. n - 1 : k = 4 * i + 2
    BY <1>2
  <2>2. /\ 4 * i + 3 \in OfType(34) /\ chunks[4 * i + 3] = Interface(i)[2]
        /\ 4 * i + 4 \in OfType(5) /\ chunks[4 * i + 4] = Interface(i)[3]
        /\ 4 * i + 5 \in OfType(5) /\ chunks[4 * i + 5] = Interface(i)[4]
    BY <1>1, EachInterface
  <2>3. k + 1 = 4 * i + 3 /\ k + 2 = 4 * i + 4 /\ k + 3 = 4 * i + 5
    BY <2>1
  <2>4. /\ Interface(i)[2][6] = Interface(i)[3][3]
        /\ Interface(i)[2][14] = Interface(i)[4][3]
    BY PieceFields, SMTT(20)
  <2> QED BY <2>2, <2>3, <2>4
<1> QED BY <1>1, <1>4, <1>5, <1>6

(* FindsWhatIsEnabled: a host that knows it has a whole configuration and  *)
(* has walked through it has found the endpoints SET_CONFIGURATION         *)
(* enables, in interfaces that are in order and name their own endpoints,  *)
(* whichever of the two implementations it talks to.                       *)
THEOREM HostFindsEndpoints == Spec => []FindsWhatIsEnabled
<1>1. ASSUME IInv, Whole, asked.type \in Configurations, pos = Len(reply) + 1
      PROVE  /\ reply[5] = num_interfaces
             /\ \A j, k \in OfType(5) : j # k => chunks[j][3] # chunks[k][3]
  <2>1. PICK n \in 1 .. 4 : n = num_interfaces
    BY <1>1 DEF IInv, TypeOK
  <2>2. PICK h : h = Header(n, asked.type) /\ h[5] = n
    BY HeaderBytes
  <2>3. HasPieces /\ Len(reply) = 9 + 43 * n
    BY <1>1, <2>1, WholeConfig
  <2>4. \A k \in 1 .. 9 : k <= Len(reply) => reply[k] = h[k]
    BY <1>1, <2>1, <2>2, <2>3, ConfigReply DEF IInv
  <2>5. reply[5] = n
    BY <2>2, <2>3, <2>4
  <2> QED BY <1>1, <2>1, <2>3, <2>5, AddressesDiffer
<1>2. IInv => FindsWhatIsEnabled
  BY <1>1, EndpointsAreEnabled, InterfacesInOrder DEF FindsWhatIsEnabled
<1> QED BY <1>2, InvAlways, PTL
=============================================================================
