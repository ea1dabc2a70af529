--------------------------- MODULE MCLegacyGadget ---------------------------
(* Instances of LegacyGadget for TLC. *)
EXTENDS LegacyGadget

(* A controller whose endpoints can all serve any address, with two to     *)
(* spare: what the guesses of the C code are most exposed to.              *)
SpareHandles == 0 .. 2 * NumInterfaces + 1
AnyFits == [e \in Endpoints |-> SpareHandles]

(* A controller such as dwc2: ep1in, ep1out, ep2in, ...                    *)
ExactHandles == 0 .. 2 * NumInterfaces - 1
FixedFits == [e \in Endpoints |-> {2 * e[1] + IF e[2] = "in" THEN 0 ELSE 1}]
=============================================================================
