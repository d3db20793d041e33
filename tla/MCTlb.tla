-------------------------------- MODULE MCTlb --------------------------------
(***************************************************************************)
(* A two-entry TLB for Tlb: four pages (two pairs of 4 KiB pages, or one  *)
(* 16 KiB pair), two ASIDs, two frames.  A TLBW writes 4 KiB or 16 KiB     *)
(* pages, global or not, with a valid clean and a valid dirty page or an   *)
(* invalid and a valid one.                                                *)
(***************************************************************************)
EXTENDS Tlb

MCVPNs == 0 .. 3

PgClean == [pfn |-> 0, d |-> FALSE, v |-> TRUE]
PgDirty == [pfn |-> 1, d |-> TRUE, v |-> TRUE]
PgInvalid == [pfn |-> 0, d |-> FALSE, v |-> FALSE]

MCWriteValues ==
    {[span |-> sp, g0 |-> g, g1 |-> g, lo0 |-> lo[1], lo1 |-> lo[2]] :
        sp \in {1, 4}, g \in BOOLEAN,
        lo \in {<<PgClean, PgDirty>>, <<PgInvalid, PgClean>>}}
=============================================================================
