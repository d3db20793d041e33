------------------------------ MODULE Cp0Random ------------------------------
(***************************************************************************)
(* The Random register of one msim CPU (src/cpu/cpu.c).  manage() counts   *)
(* it down on every cpu_step() and wraps it to the last TLB index when it  *)
(* passes zero or drops below Wired; MTC0 Wired resets it to that index.   *)
(* The code has 48 entries and writes the literal 47; TlbEntries is that   *)
(* size, so that the TLB model can use fewer entries.                      *)
(***************************************************************************)
EXTENDS Naturals

CONSTANT TlbEntries    \* TLB_ENTRIES (48)

ASSUME TlbEntries \in Nat \ {0}

\* the literal 47 of manage(), MTC0 Wired and TLBW
TLB_TOP == TlbEntries - 1

\* A variant of the countdown that forgets the Wired test
manage_random_ignores_wired(rnd, wrd) == IF rnd = 0 THEN TLB_TOP ELSE rnd - 1

\* manage(): if (random-- == 0) random = 47; if (random < wired) random = 47;
manage_random(rnd, wrd) ==
    LET rnd1 == IF rnd = 0 THEN TLB_TOP ELSE rnd - 1
    IN  IF rnd1 < wrd THEN TLB_TOP ELSE rnd1

\* MTC0 Wired: Random = 47, Wired = urrt & 0x3f
mtc0_wired(v) == [random |-> TLB_TOP, wired |-> v % 64]
=============================================================================
