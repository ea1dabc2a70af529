----------------------------- MODULE Enumeration -----------------------------
(***************************************************************************)
(* A host reading the descriptors of either gadget: it asks for one with   *)
(* some wLength, and walks what it gets from descriptor to descriptor by   *)
(* bLength, as host stacks do.  The gadgets are in Descriptors.            *)
(***************************************************************************)
EXTENDS Descriptors

CONSTANTS
  WLengths,  \* the wLength values the host uses
  Serials    \* bound: UTF-16 units of the serial number

ASSUME WLengthsAssumption == \A w \in WLengths : w \in Nat /\ w < 65536
ASSUME SerialsAssumption == \A s \in Serials : s \in Nat /\ s <= 126

VARIABLES
  code,                    \* which implementation runs: "rust" or "c"
  num_interfaces, serial,  \* ConfigDescriptorSet; n_interfaces
  asked,                   \* the last GET_DESCRIPTOR
  reply,                   \* what came back, Nothing if stalled
  pos,                     \* where the host's walk through it is
  chunks                   \* the descriptors it has found

vars == <<code, num_interfaces, serial, asked, reply, pos, chunks>>

Types == {"device", "qualifier", "config", "other_speed", "string", "other"}
Queries == [type : Types, index : 0 .. 4, wLength : WLengths]

TypeOK ==
  /\ code \in {"rust", "c"}
  /\ num_interfaces \in 1 .. 4
  /\ serial \in Serials
  /\ asked \in Queries
  /\ reply \in Seq(Byte)
  /\ pos \in Nat \ {0}
  /\ chunks \in Seq(Seq(Byte))

(* What the gadget has for a request. *)
Descriptor(type, index) ==
  IF code = "rust" THEN Data(num_interfaces, serial, type, index)
                   ELSE LegacyData(num_interfaces, type, index)

(* The endpoints it passes to EP_ENABLE on SET_CONFIGURATION. *)
Enabled ==
  IF code = "rust" THEN EnableArguments(num_interfaces)
                   ELSE LegacyEnableArguments(num_interfaces)

Ask(q) ==
  /\ asked' = q
  /\ reply' = Truncate(Descriptor(q.type, q.index), q.wLength)
  /\ pos' = 1 /\ chunks' = << >>
  /\ UNCHANGED <<code, num_interfaces, serial>>

(* ConfigDescriptorSet::new and set_n_interfaces refuse anything but 1..4. *)
Init ==
  /\ code \in {"rust", "c"}
  /\ num_interfaces \in 1 .. 4 /\ serial \in Serials
  /\ asked \in {q \in Queries : q.wLength = 0}
  /\ reply = Nothing /\ pos = 1 /\ chunks = << >>

(* A piece cut off by wLength ends the walk. *)
Walk ==
  /\ pos <= Len(reply)
  /\ pos + reply[pos] - 1 <= Len(reply)
  /\ chunks' = Append(chunks, SubSeq(reply, pos, pos + reply[pos] - 1))
  /\ pos' = pos + reply[pos]
  /\ UNCHANGED <<code, num_interfaces, serial, asked, reply>>

Next == Walk \/ \E q \in Queries : Ask(q)

Spec == Init /\ [][Next]_vars
-----------------------------------------------------------------------------

Announced == reply[3] + 256 * reply[4]

Configurations == {"config", "other_speed"}

(* The host knows that nothing was cut off: it asked for more than came,   *)
(* or a configuration says that this is its length.                        *)
Whole ==
  /\ reply # Nothing
  /\ \/ Len(reply) < asked.wLength
     \/ asked.type \in Configurations /\ Len(reply) >= 4 /\ Announced = Len(reply)

(* A host that knows its reply to be whole is led through all of it: no    *)
(* bLength is too short to be a descriptor or points outside.  The length  *)
(* a configuration announces is the length it has, so that the header a    *)
(* first request of nine bytes brings is enough to ask for the rest.       *)
ChainSound ==
  /\ Whole /\ pos <= Len(reply) =>
       reply[pos] >= 2 /\ pos + reply[pos] - 1 <= Len(reply)
  /\ asked.type \in Configurations /\ Len(reply) >= 4 =>
       IF Len(reply) < asked.wLength
         THEN Announced = Len(reply)
         ELSE Announced >= Len(reply)

(* Which of the descriptors found are of a type. *)
OfType(type) == {k \in DOMAIN chunks : chunks[k][2] = type}

(* The endpoints a host finds in a configuration are those                 *)
(* SET_CONFIGURATION enables, which handle_control writes down a second    *)
(* time: same addresses, sizes and intervals, all different.  Interfaces   *)
(* are numbered from 0 in the order they come in, as many as the header    *)
(* says, and each is followed by its vendor descriptor, which names the    *)
(* two endpoints that follow in turn.                                      *)
FindsWhatIsEnabled ==
  Whole /\ asked.type \in Configurations /\ pos = Len(reply) + 1 =>
    /\ {chunks[k] : k \in OfType(5)} = Enabled
    /\ \A j, k \in OfType(5) : j # k => chunks[j][3] # chunks[k][3]
    /\ reply[5] = num_interfaces
    /\ {chunks[k][3] : k \in OfType(4)} = 0 .. num_interfaces - 1
    /\ \A j, k \in OfType(4) : j < k => chunks[j][3] < chunks[k][3]
    /\ \A k \in OfType(4) :
         /\ k + 1 \in OfType(34) /\ k + 2 \in OfType(5) /\ k + 3 \in OfType(5)
         /\ chunks[k + 1][6] = chunks[k + 2][3]
         /\ chunks[k + 1][14] = chunks[k + 3][3]

(* The string indices the device or its configuration names. *)
StringIndices ==
  LET named ==
        IF asked.type = "device" /\ Len(reply) = 18
          THEN {reply[15], reply[16], reply[17]}
          ELSE {chunks[k][7] : k \in OfType(2) \cup OfType(7)} \cup {chunks[k][9] : k \in OfType(4)}
  IN named \ {0}

(* Every string that the descriptor at hand refers to can be fetched, and  *)
(* announces the length it has.                                            *)
StringsExist ==
  \A k \in StringIndices :
    LET s == Descriptor("string", k)
    IN s # Nothing /\ s[1] = Len(s)
-----------------------------------------------------------------------------

(***************************************************************************)
(* The inductive invariant: the reply is what the gadget has, cut off, and *)
(* the walk is at the border of two of its pieces.                         *)
(***************************************************************************)

Answer == Descriptor(asked.type, asked.index)

(* The Rust code has no configuration for the other speed. *)
InPieces(type) == type = "config" \/ (type = "other_speed" /\ code = "c")
HasPieces == InPieces(asked.type)

Header(n, type) ==
  <<9, IF type = "config" THEN 2 ELSE 7>> \o LittleEndian(9 + n * 43) \o <<n, 1, 0, 160, 250>>

(* Within an interface, how many bytes come before its p-th piece. *)
Before == <<0, 9, 29, 36>>

(* Up to now the walk has found the header, i interfaces and the first     *)
(* p - 1 pieces of one more.                                               *)
AtPiece(i, p) ==
  /\ Len(chunks) = 4 * i + p
  /\ pos = 10 + 43 * i + Before[p]
  /\ i = num_interfaces => p = 1

WalkOfConfig ==
  /\ \/ chunks = << >> /\ pos = 1
     \/ \E i \in 0 .. num_interfaces, p \in 1 .. 4 : AtPiece(i, p)
  /\ pos <= Len(reply) + 1
  /\ Len(chunks) >= 1 => chunks[1] = Header(num_interfaces, asked.type)
  /\ \A i \in 0 .. 3, p \in 1 .. 4 :
       4 * i + p + 1 <= Len(chunks) => chunks[4 * i + p + 1] = Interface(i)[p]

WalkOfOne ==
  \/ chunks = << >> /\ pos = 1
  \/ /\ Answer # Nothing /\ chunks = <<Answer>>
     /\ reply = Answer /\ pos = Len(reply) + 1

IInv ==
  /\ TypeOK
  /\ reply = Truncate(Answer, asked.wLength)
  /\ IF HasPieces THEN WalkOfConfig ELSE WalkOfOne
=============================================================================
