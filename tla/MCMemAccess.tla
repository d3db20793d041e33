------------------------------ MODULE MCMemAccess ------------------------------
(***************************************************************************)
(* Three useg doublewords mapped by the TLB onto the three physical ones   *)
(* in another order, so that a virtual doubleword and the physical one of  *)
(* the same number differ; one doubleword each of kseg0 and kseg1.         *)
(* Accesses are aligned words and halfwords or misaligned ones; LL and SC  *)
(* use the two word placements, SWL and SWR the aligned one.               *)
(***************************************************************************)
EXTENDS MemAccess

MCPageMap == [va \in 0 .. 2 |-> (va + 1) % 3]

MCPlacements ==
    {[off |-> 0, size |-> 4], [off |-> 2, size |-> 2],
     [off |-> 2, size |-> 4], [off |-> 1, size |-> 2]}
=============================================================================
