------------------------------- MODULE Cp0Timer -------------------------------
(***************************************************************************)
(* Count, Compare, Random and Wired of one msim CPU (src/cpu/cpu.c).       *)
(* Every cpu_step() ends in manage(), which increments Count, raises IP7   *)
(* when Count equals Compare, and decrements Random, wrapping it to 47 at  *)
(* zero or below Wired.  The instructions that write these registers are   *)
(* MTC0 Count, MTC0 Compare (which also clears IP7) and MTC0 Wired (which  *)
(* also resets Random to 47); MTC0 Random is ignored.  The Random part of *)
(* manage() is Cp0Random's.  One action is one cpu_step(): the             *)
(* instruction's write, then manage().                                     *)
(*                                                                         *)
(* Count and Compare are CountBits wide (32 in the code, fewer here so     *)
(* that TLC reaches the wrap); Random and Wired keep their values.         *)
(***************************************************************************)
EXTENDS Cp0Random

CONSTANTS
    CountBits,     \* width of Count and Compare
    WiredValues    \* values an MTC0 Wired may write (urrt)

CountMod == 2 ^ CountBits
CountVal == 0 .. CountMod - 1

VARIABLES
    count, compare, random, wired,
    ip7,       \* Cause.IP7, the timer interrupt request
    sinceCmp,  \* ghost: cpu_step()s since Compare was written (that step
               \*   included), capped at CountMod
    dist,      \* ghost: increments of Count from that write to Compare
    cmpValid,  \* ghost: Count has not been written since Compare was
    quiet      \* ghost: steps since Count or Compare was written, capped

timer == <<count, compare, random, wired, ip7>>
ghosts == <<sinceCmp, dist, cmpValid, quiet>>

\* Variants of manage() with plausible bugs: Count not wrapped at its width,
\* IP7 assigned instead of or-ed, Count compared before it is incremented.
manage_timer_compare_first(cnt, cmp, rnd, wrd, ip) ==
    /\ count' = (cnt + 1) % CountMod
    /\ random' = manage_random(rnd, wrd)
    /\ ip7' = (ip \/ cnt = cmp)
    /\ compare' = cmp
    /\ wired' = wrd

manage_timer_nowrap(cnt, cmp, rnd, wrd, ip) ==
    /\ count' = cnt + 1
    /\ random' = manage_random(rnd, wrd)
    /\ ip7' = (ip \/ cnt + 1 = cmp)
    /\ compare' = cmp
    /\ wired' = wrd

manage_timer_assigns_ip7(cnt, cmp, rnd, wrd, ip) ==
    LET cnt1 == (cnt + 1) % CountMod
    IN  /\ count' = cnt1
        /\ random' = manage_random(rnd, wrd)
        /\ ip7' = (cnt1 = cmp)
        /\ compare' = cmp
        /\ wired' = wrd

\* manage(): increment Count, count Random down, compare Count with Compare.
\* cnt, cmp, rnd, wrd and ip are the registers as the instruction left them.
manage_timer(cnt, cmp, rnd, wrd, ip) ==
    LET cnt1 == (cnt + 1) % CountMod
    IN  /\ count' = cnt1
        /\ random' = manage_random(rnd, wrd)
        /\ ip7' = (ip \/ cnt1 = cmp)
        /\ compare' = cmp
        /\ wired' = wrd

CapAdd(n) == IF n < CountMod THEN n + 1 ELSE n

\* The ghosts after a step that did (or did not) write Count or Compare; a
\* write of Compare with Count at c is reached by the ((v - c - 1) % 2^w) + 1st
\* increment, the write step's own included
Observe(wroteCompare, wroteCount) ==
    /\ sinceCmp' = IF wroteCompare THEN 1 ELSE CapAdd(sinceCmp)
    /\ dist' = IF wroteCompare THEN ((compare' - count - 1) % CountMod) + 1 ELSE dist
    /\ cmpValid' = (wroteCompare \/ (cmpValid /\ ~wroteCount))
    /\ quiet' = IF wroteCompare \/ wroteCount THEN 0
                ELSE CapAdd(quiet)

\* cpu_init: memset to zero, Random = 47, Wired = 0
Init ==
    /\ count = 0 /\ compare = 0 /\ random = TLB_TOP /\ wired = 0 /\ ip7 = FALSE
    /\ sinceCmp = 0 /\ dist = CountMod /\ cmpValid = TRUE /\ quiet = 0

\* Any instruction that writes none of these registers (MTC0 Random
\* included), a faulting one, or a step in standby
OtherStep ==
    /\ manage_timer(count, compare, random, wired, ip7)
    /\ Observe(FALSE, FALSE)

\* MTC0 Count
MTC0Count(v) ==
    /\ manage_timer(v, compare, random, wired, ip7)
    /\ Observe(FALSE, TRUE)

\* MTC0 Compare: clears the timer interrupt
MTC0Compare(v) ==
    /\ manage_timer(count, v, random, wired, FALSE)
    /\ Observe(TRUE, FALSE)

\* MTC0 Wired: Random = 47, Wired = urrt & 0x3f (a value above 47 is kept
\* with a warning)
MTC0Wired(v) ==
    /\ manage_timer(count, compare, mtc0_wired(v).random, mtc0_wired(v).wired, ip7)
    /\ Observe(FALSE, FALSE)

Next ==
    \/ OtherStep
    \/ \E v \in CountVal : MTC0Count(v)
    \/ \E v \in CountVal : MTC0Compare(v)
    \/ \E v \in WiredValues : MTC0Wired(v)

Spec == Init /\ [][Next]_<<timer, ghosts>>

-----------------------------------------------------------------------------
(* Properties *)

TypeOK ==
    /\ count \in CountVal /\ compare \in CountVal
    /\ random \in 0 .. TLB_TOP /\ wired \in 0 .. 63
    /\ ip7 \in BOOLEAN /\ cmpValid \in BOOLEAN
    /\ sinceCmp \in 0 .. CountMod /\ dist \in 1 .. CountMod /\ quiet \in 0 .. CountMod

\* spec.md section 8: Random stays in [Wired, 47], so TLBWR, which writes the
\* entry Random names, never replaces one of the wired entries.  MTC0 Wired
\* accepts 48 .. 63 with only a warning; then manage() resets Random to 47
\* on every step, so Random still names an entry but is below Wired: the
\* bound on Wired is checked only where the code keeps it (cpu.c:1384).
RandomInRange == random <= TLB_TOP /\ (wired <= TLB_TOP => wired <= random)

\* spec.md sections 5 and 8 (Compare = Count + 3 raises IP7 after 3 steps):
\* after MTC0 Compare, and as long as Count is not written, the timer
\* interrupt is pending exactly from the cpu_step() whose increment of Count
\* makes it equal Compare: never earlier, never later, and a Compare equal
\* to the current Count fires only after the full wrap of Count.
TimerFiresAtCompare == cmpValid => (ip7 <=> sinceCmp >= dist)

\* Once Count and Compare are left alone for a full Count period, the timer
\* interrupt has been raised: manage() compares on every step, across the wrap.
TimerFiresWithinPeriod == quiet = CountMod => ip7
=============================================================================
