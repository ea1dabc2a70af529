------------------------------- MODULE Mailbox -------------------------------
(***************************************************************************)
(* What the polling side of a Transport promises (session.rs, trait        *)
(* Transport): per slot and kind of report a place for one report, which a *)
(* newer report replaces and a poll empties.  Reports are numbered by key  *)
(* in the order the host sent them; 0 is no report.                        *)
(***************************************************************************)
EXTENDS Naturals

CONSTANT Keys

VARIABLES
  box,   \* what a poll of the key would return now
  got,   \* the last report a poll of the key returned
  open   \* the transport has not been dropped

vars == <<box, got, open>>

Init ==
  /\ box = [k \in Keys |-> 0]
  /\ got = [k \in Keys |-> 0]
  /\ open = TRUE

(* Only a report newer than all that were accepted before is accepted. *)
Put(k) ==
  /\ open
  /\ box'[k] \in Nat /\ box'[k] > box[k] /\ box'[k] > got[k]
  /\ box' = [box EXCEPT ![k] = box'[k]]
  /\ UNCHANGED <<got, open>>

Take(k) ==
  /\ open /\ box[k] # 0
  /\ got' = [got EXCEPT ![k] = box[k]]
  /\ box' = [box EXCEPT ![k] = 0]
  /\ UNCHANGED open

Close ==
  /\ open
  /\ open' = FALSE
  /\ box' = [k \in Keys |-> 0]
  /\ UNCHANGED got

Next == Close \/ \E k \in Keys : Put(k) \/ Take(k)

Spec == Init /\ [][Next]_vars
=============================================================================
