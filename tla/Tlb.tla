---------------------------------- MODULE Tlb ----------------------------------
(***************************************************************************)
(* The TLB of one msim CPU (src/cpu/cpu.c): tlb_look() scans the entries   *)
(* starting at tlb_hint and returns the first whose VPN2 and ASID match;   *)
(* tlb_hit() turns its result into a fault and, on a fault, copies the     *)
(* address into EntryHi (fill_tlb_error); TLBWI and TLBWR write an entry   *)
(* from EntryHi, EntryLo0/1 and PageMask at Index or Random; TLBP scans    *)
(* from entry 0 and sets Index; TLBR reads an entry back into EntryHi.     *)
(* Every action is one cpu_step(), so Random is also counted down.         *)
(*                                                                         *)
(* Addresses are virtual page numbers of 4 KiB pages.  An entry maps a     *)
(* pair of pages of span 4 KiB pages each (PageMask 0 gives span 1, 0x6000 *)
(* span 4); span 0 stands for the all-zero mask memset leaves in cpu_init, *)
(* which matches every address.  EntryLo0/1 and PageMask are not state:    *)
(* a TLBW takes the values the handler wrote there as its input.           *)
(***************************************************************************)
EXTENDS Cp0Random, FiniteSets

CONSTANTS
    VPNs,          \* virtual page numbers accessed (4 KiB pages)
    ASIDs,         \* address space identifiers, 0 included
    PFNs,          \* physical frame numbers, 0 included
    Spans,         \* page sizes PageMask may select, in 4 KiB pages
    WriteValues,   \* EntryLo0/1 and PageMask values a TLBW may use
    IndexValues,   \* values an MTC0 Index may write
    WiredValues    \* values an MTC0 Wired may write

Page == [pfn : PFNs, d : BOOLEAN, v : BOOLEAN]
Entry == [span : {0} \cup Spans, vpn2 : Nat, asid : ASIDs, global : BOOLEAN,
          pg : [{0, 1} -> Page]]

VARIABLES
    tlb,       \* cpu->tlb
    hint,      \* cpu->tlb_hint
    entryhi,   \* EntryHi: VPN2 (an even page number) and ASID
    index,     \* Index: probe-failure bit p and index field i
    random, wired,
    wrote,     \* ghost: the entries the last step wrote by TLBWR
    refilled   \* ghost: the page and ASID of the last TLB refill, while EntryHi
               \* still holds what fill_tlb_error put there ({} otherwise)

vars == <<tlb, hint, entryhi, index, random, wired, wrote, refilled>>

\* addr & mask: the first page of the pair the address falls in
Masked(vpn, span) == IF span = 0 THEN 0 ELSE vpn - (vpn % (2 * span))

\* (addr & entry->mask) == entry->vpn2
VpnMatch(e, vpn) == Masked(vpn, e.span) = e.vpn2

\* the subpage test of tlb_look: the bit below the mask
Subpage(e, vpn) == IF e.span = 0 THEN 0 ELSE (vpn % (2 * e.span)) \div e.span

Least(S) == CHOOSE k \in S : \A j \in S : k <= j

\* tlb_look() scanning from offset h: the result, the entry used and the
\* loop offset i that it stores as the new hint
TlbLookFrom(h, vpn, asid, wr) ==
    LET at(k) == (k + h) % TlbEntries
        hits == {k \in 0 .. TLB_TOP :
                   VpnMatch(tlb[at(k)], vpn)
                   /\ (tlb[at(k)].global \/ tlb[at(k)].asid = asid)}
    IN  IF hits = {} THEN [res |-> "REFILL", pfn |-> 0, entry |-> 0, offset |-> 0]
        ELSE LET k == Least(hits)
                 e == tlb[at(k)]
                 p == e.pg[Subpage(e, vpn)]
             IN  [res |-> IF ~p.v THEN "INVALID"
                          ELSE IF wr /\ ~p.d THEN "MODIFIED" ELSE "OK",
                  pfn |-> p.pfn, entry |-> at(k), offset |-> k]

\* What the access shows the program: the fault, or the frame it reached
Observable(r) == <<r.res, IF r.res = "OK" THEN r.pfn ELSE 0>>

\* A variant of TLBP's scan that compares EntryHi's VPN2 unmasked
ProbeHits_unmasked(v2, asid) ==
    {k \in 0 .. TLB_TOP : tlb[k].vpn2 = v2 /\ (tlb[k].global \/ tlb[k].asid = asid)}

\* TLBP's scan from entry 0: (xvpn2 & tlb[i].mask) == tlb[i].vpn2
ProbeHits(v2, asid) ==
    {k \in 0 .. TLB_TOP : tlb[k].vpn2 = Masked(v2, tlb[k].span)
                          /\ (tlb[k].global \/ tlb[k].asid = asid)}

\* The entry written by TLBW from EntryHi and the input w
NewEntry(w) ==
    [span |-> w.span, vpn2 |-> Masked(entryhi.vpn2, w.span), asid |-> entryhi.asid,
     global |-> w.g0 /\ w.g1,
     pg |-> [s \in {0, 1} |-> IF s = 0 THEN w.lo0 ELSE w.lo1]]

\* A variant of fill_tlb_error() that overwrites EntryHi, ASID included
fill_tlb_error_drops_asid(eh, vpn) == [vpn2 |-> Masked(vpn, 1), asid |-> 0]

\* fill_tlb_error(): EntryHi.VPN2 = the faulting address, ASID kept
fill_tlb_error(eh, vpn) == [eh EXCEPT !.vpn2 = Masked(vpn, 1)]

\* Every step ends in manage(), which counts Random down
Tick == random' = manage_random(random, wired)

ZeroEntry == [span |-> 0, vpn2 |-> 0, asid |-> 0, global |-> FALSE,
              pg |-> [s \in {0, 1} |-> [pfn |-> 0, d |-> FALSE, v |-> FALSE]]]

\* cpu_init: everything zero, Random = 47
Init ==
    /\ tlb = [k \in 0 .. TLB_TOP |-> ZeroEntry]
    /\ hint = 0
    /\ entryhi = [vpn2 |-> 0, asid |-> 0]
    /\ index = [p |-> FALSE, i |-> 0]
    /\ random = TLB_TOP
    /\ wired = 0
    /\ wrote = {}
    /\ refilled = {}

\* A variant of the lookup that stores hint + i, not wrapped, as the hint
Access_hint_unwrapped(vpn, wr) ==
    LET r == TlbLookFrom(hint, vpn, entryhi.asid, wr)
    IN  /\ hint' = IF r.res = "OK" THEN hint + r.offset ELSE hint
        /\ entryhi' = IF r.res = "OK" THEN entryhi ELSE fill_tlb_error(entryhi, vpn)
        /\ Tick
        /\ wrote' = {}
        /\ refilled' = CASE r.res = "OK"     -> refilled
                          [] r.res = "REFILL" -> {[vpn |-> vpn, asid |-> entryhi.asid]}
                          [] OTHER            -> {}
        /\ UNCHANGED <<tlb, index, wired>>

\* A load or store through the TLB: tlb_hit() in noisy mode
Access(vpn, wr) ==
    LET r == TlbLookFrom(hint, vpn, entryhi.asid, wr)
    IN  /\ hint' = IF r.res = "OK" THEN r.offset ELSE hint
        /\ entryhi' = IF r.res = "OK" THEN entryhi ELSE fill_tlb_error(entryhi, vpn)
        /\ Tick
        /\ wrote' = {}
        /\ refilled' = CASE r.res = "OK"     -> refilled
                          [] r.res = "REFILL" -> {[vpn |-> vpn, asid |-> entryhi.asid]}
                          [] OTHER            -> {}
        /\ UNCHANGED <<tlb, index, wired>>

\* MTC0 EntryHi
MTC0EntryHi(v2, asid) ==
    /\ entryhi' = [vpn2 |-> v2, asid |-> asid]
    /\ Tick
    /\ wrote' = {}
    /\ refilled' = {}
    /\ UNCHANGED <<tlb, hint, index, wired>>

\* MTC0 Index: urrt & 0x3f
MTC0Index(v) ==
    /\ index' = [p |-> FALSE, i |-> v % 64]
    /\ Tick
    /\ wrote' = {}
    /\ UNCHANGED <<tlb, hint, entryhi, wired, refilled>>

\* MTC0 Wired: Random = 47, then manage() counts it down
MTC0Wired(v) ==
    /\ wired' = mtc0_wired(v).wired
    /\ random' = manage_random(mtc0_wired(v).random, mtc0_wired(v).wired)
    /\ wrote' = {}
    /\ UNCHANGED <<tlb, hint, entryhi, index, refilled>>

\* TLBW(): an index above 47 leaves the TLB alone
TLBW(k, w) ==
    tlb' = IF k > TLB_TOP THEN tlb ELSE [tlb EXCEPT ![k] = NewEntry(w)]

TLBWI(w) ==
    /\ TLBW(index.i, w)
    /\ Tick
    /\ wrote' = {}
    /\ UNCHANGED <<hint, entryhi, index, wired, refilled>>

TLBWR(w) ==
    /\ TLBW(random, w)
    /\ Tick
    /\ wrote' = {random}
    /\ UNCHANGED <<hint, entryhi, index, wired, refilled>>

\* TLBP: Index = P bit, then the first matching entry from 0
TLBP ==
    LET hits == ProbeHits(entryhi.vpn2, entryhi.asid)
    IN  /\ index' = IF hits = {} THEN [p |-> TRUE, i |-> 0]
                    ELSE [p |-> FALSE, i |-> Least(hits)]
        /\ Tick
        /\ wrote' = {}
        /\ UNCHANGED <<tlb, hint, entryhi, wired, refilled>>

\* TLBR: EntryHi = vpn2 | asid of the entry at Index, zero if out of range
TLBR ==
    /\ entryhi' = IF index.i > TLB_TOP THEN [vpn2 |-> 0, asid |-> 0]
                  ELSE [vpn2 |-> tlb[index.i].vpn2, asid |-> tlb[index.i].asid]
    /\ Tick
    /\ wrote' = {}
    /\ refilled' = {}
    /\ UNCHANGED <<tlb, hint, index, wired>>

Next ==
    \/ \E vpn \in VPNs, wr \in BOOLEAN : Access(vpn, wr)
    \/ \E vpn \in VPNs, asid \in ASIDs : MTC0EntryHi(Masked(vpn, 1), asid)
    \/ \E v \in IndexValues : MTC0Index(v)
    \/ \E v \in WiredValues : MTC0Wired(v)
    \/ \E w \in WriteValues : TLBWI(w)
    \/ \E w \in WriteValues : TLBWR(w)
    \/ TLBP
    \/ TLBR

Spec == Init /\ [][Next]_vars

-----------------------------------------------------------------------------
(* Properties *)

TypeOK ==
    /\ tlb \in [0 .. TLB_TOP -> Entry]
    /\ hint \in 0 .. TLB_TOP
    /\ entryhi \in [vpn2 : Nat, asid : ASIDs]
    /\ index \in [p : BOOLEAN, i : 0 .. 63]
    /\ random \in 0 .. TLB_TOP /\ wired \in 0 .. 63
    /\ wrote \subseteq 0 .. TLB_TOP /\ refilled \subseteq [vpn : VPNs, asid : ASIDs]

\* The entries a lookup of vpn under asid may hit
Matching(vpn, asid) ==
    {k \in 0 .. TLB_TOP : VpnMatch(tlb[k], vpn) /\ (tlb[k].global \/ tlb[k].asid = asid)}

\* No two entries map the same page (the R4000 forbids it; msim does not
\* check it, and the zeroed entries of cpu_init all overlap)
NoOverlap == \A vpn \in VPNs, asid \in ASIDs : Cardinality(Matching(vpn, asid)) <= 1

\* spec.md 3.1: tlb_hint is an optimization only and must not affect
\* observable behaviour: tlb_look from the hint gives the fault or frame a
\* scan from entry 0 would give.
HintIrrelevant ==
    \A vpn \in VPNs, asid \in ASIDs, wr \in BOOLEAN :
        Observable(TlbLookFrom(hint, vpn, asid, wr)) = Observable(TlbLookFrom(0, vpn, asid, wr))

\* TLBP, which scans from entry 0 and masks EntryHi's VPN2 with each entry's
\* mask, finds the entry tlb_look translates an address of that pair with,
\* and reports a miss exactly when tlb_look raises a refill.
ProbeAgreesWithLookup ==
    NoOverlap =>
      \A vpn \in VPNs, asid \in ASIDs :
        LET r == TlbLookFrom(hint, vpn, asid, FALSE)
            p == ProbeHits(Masked(vpn, 1), asid)
        IN  IF r.res = "REFILL" THEN p = {} ELSE p # {} /\ Least(p) = r.entry

\* The refill handler idiom: after a TLB refill fault, fill_tlb_error leaves
\* EntryHi holding the faulting page and the faulting ASID, so a TLBWR that
\* follows (EntryHi untouched) installs an entry that the access, retried
\* after ERET under the same ASID, hits.
RefillRetrySucceeds ==
    [][wrote' # {} =>
         (\A f \in refilled : TlbLookFrom(hint, f.vpn, f.asid, FALSE).res # "REFILL")']_vars
=============================================================================
