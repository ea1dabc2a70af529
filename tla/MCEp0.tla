-------------------------------- MODULE MCEp0 --------------------------------
(* Instances of Ep0 for TLC. *)
EXTENDS Ep0, TLC

CONSTANTS t1, t2

(* A controller such as dwc2: one handle per endpoint address. *)
FixedHandles == {<<"h", e>> : e \in Endpoints}
FixedFits == [e \in Endpoints |-> {<<"h", e>>}]

(* A controller whose IN endpoints serve any address and whose OUT         *)
(* endpoints each have an address of their own.                            *)
PooledHandles ==
  ((1 .. NumInterfaces) \X {"in"}) \cup (Slots \X {"out"})
PooledFits ==
  [e \in Endpoints |->
     IF e[2] = "in" THEN (1 .. NumInterfaces) \X {"in"} ELSE {e}]

ThreadSymmetry == Permutations(Threads)
=============================================================================
