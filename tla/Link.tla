-------------------------------- MODULE Link --------------------------------
(***************************************************************************)
(* What the input side of a transport promises its one caller: a table of  *)
(* IN endpoints that a configuration brings whole and a reset takes whole, *)
(* reports that go out on an entry of that table, a wait that ends when    *)
(* there is a configuration, and silence once the transport is dropped.    *)
(* No lock, no threads, no control requests.                               *)
(***************************************************************************)

CONSTANTS Slots, Handles, None

VARIABLES
  ready,   \* the host has configured the gadget
  table,   \* the IN endpoint's handle per slot, or None
  caller,  \* what the caller is doing
  report   \* where its report is going: a slot and a handle, or None

vars == <<ready, table, caller, report>>

Init ==
  /\ ready = FALSE /\ table = [s \in Slots |-> None]
  /\ caller = "idle" /\ report = None

(* A configuration without a reset before it replaces entries one by one,  *)
(* while the caller cannot look, and takes none away.                      *)
Configured ==
  /\ caller # "dropped"
  /\ ready' = TRUE
  /\ table' \in [Slots -> Handles \cup {None}]
  /\ \A s \in Slots : table[s] # None => table'[s] # None
  /\ UNCHANGED <<caller, report>>

Forgotten ==
  /\ caller # "dropped"
  /\ ready' = FALSE /\ table' = [s \in Slots |-> None]
  /\ UNCHANGED <<caller, report>>

Wait ==
  /\ caller = "idle" /\ caller' = "waiting"
  /\ UNCHANGED <<ready, table, report>>

WaitEnds ==
  /\ caller = "waiting" /\ ready /\ caller' = "idle"
  /\ UNCHANGED <<ready, table, report>>

Write(s) ==
  /\ caller = "idle" /\ table[s] # None
  /\ caller' = "writing" /\ report' = <<s, table[s]>>
  /\ UNCHANGED <<ready, table>>

WriteEnds ==
  /\ caller = "writing"
  /\ caller' = "idle" /\ report' = None
  /\ UNCHANGED <<ready, table>>

Drop ==
  /\ caller = "idle" /\ caller' = "dropping"
  /\ UNCHANGED <<ready, table, report>>

DropEnds ==
  /\ caller = "dropping" /\ caller' = "dropped"
  /\ UNCHANGED <<ready, table, report>>

Next ==
  \/ Configured \/ Forgotten
  \/ Wait \/ WaitEnds
  \/ WriteEnds \/ \E s \in Slots : Write(s)
  \/ Drop \/ DropEnds

Spec == Init /\ [][Next]_vars
=============================================================================
