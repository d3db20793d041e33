------------------------------ MODULE CpuControl ------------------------------
(***************************************************************************)
(* The control flow of one msim CPU, src/cpu/cpu.c: cpu_step() runs        *)
(* instruction() (fetch and execute) unless the CPU is in standby, then    *)
(* manage() samples interrupts and calls handle_exception(), then the      *)
(* branch-delay counter is decremented.  One TLA+ step is one cpu_step(),  *)
(* which the machine loop calls without interleaving anything else on the  *)
(* same CPU; devices raise and lower interrupt lines between steps.        *)
(*                                                                         *)
(* The delay slot is implemented by the pair pc/pc_next and the counter    *)
(* branch (COND after a taken branch executes, PASSED while its delay slot *)
(* executes, then NONE); excaddr holds the address EPC gets for a fault.   *)
(* Data is abstracted away: registers, TLB contents and the counters of    *)
(* manage() are replaced by the nondeterministic outcome of each access.   *)
(***************************************************************************)
EXTENDS CpuCommon

CONSTANT Programs      \* the memory images the CPU may run: [Addr -> Instr]

VARIABLES
    prog,      \* the program in memory
    cpu,       \* the fields of cpu_t that control flow reads and writes
    lastslot   \* ghost: the last exception was raised in a delay slot

vars == <<prog, cpu, lastslot>>

\* cpu->branch values; cpu_step decrements a nonzero value after each step
BRANCH_NONE == 0
BRANCH_PASSED == 1
BRANCH_COND == 2

CpuRec ==
    [pc : Addr, pc_next : Addr, branch : {BRANCH_NONE, BRANCH_PASSED, BRANCH_COND},
     excaddr : Addr, stdby : BOOLEAN, status : StatusRec,
     cause : [exccode : Exc \ {"None", "TLBLR"}, bd : BOOLEAN, ip : BOOLEAN],
     epc : Addr, errorepc : Addr]

\* cpu_set_pc
cpu_set_pc(c, a) == [c EXCEPT !.pc = a, !.pc_next = Succ(a)]

\* cpu_init: memset to zero, PC at the reset vector, Status = ERL | BEV
cpu_init ==
    cpu_set_pc([pc |-> 0, pc_next |-> 0, branch |-> BRANCH_NONE, excaddr |-> 0,
                stdby |-> FALSE, status |-> ResetStatus,
                cause |-> [exccode |-> "Int", bd |-> FALSE, ip |-> FALSE],
                epc |-> 0, errorepc |-> 0], ResetVector)

(***************************************************************************)
(* The cases of execute()'s switch, each giving the CPU state, the         *)
(* exception and pca (the address that becomes pc_next).                   *)
(***************************************************************************)
Outcome(c, res, pca) == [c |-> c, res |-> res, pca |-> pca]

\* NOP and the other instructions without control effects
opcNOP(c) == Outcome(c, "None", Succ(c.pc_next))

\* LW: cpu_read_mem either completes or returns its fault
opcLW(c, df) == Outcome(c, df, Succ(c.pc_next))

\* BEQ/J/JR... taken: the target follows the delay slot
opcBEQ(c, target) ==
    Outcome([c EXCEPT !.branch = BRANCH_COND], "None", target)

\* BEQL... not taken: the delay slot is skipped
opcBEQL(c) ==
    LET c1 == [c EXCEPT !.pc_next = Succ(c.pc_next)]
    IN  Outcome(c1, "None", Succ(c1.pc_next))

\* WAIT: pc_next = pc so the step leaves PC on the WAIT; enter standby
opcWAIT(c) ==
    Outcome([c EXCEPT !.pc_next = c.pc, !.stdby = TRUE], "None", Succ(c.pc_next))

\* A variant of ERET that, in a delay slot, leaves the branch target in
\* pc_next instead of overwriting it with EPC
opcERET_keeps_branch(c) ==
    IF ~CP0Usable(c.status) THEN Outcome(c, "CpU", Succ(c.pc_next))
    ELSE IF c.status.erl
         THEN Outcome([c EXCEPT !.pc_next = c.errorepc, !.status.erl = FALSE],
                      "None", Succ(c.errorepc))
         ELSE Outcome([c EXCEPT !.pc_next = IF c.branch = BRANCH_PASSED
                                            THEN c.pc_next ELSE c.epc,
                                !.status.exl = FALSE],
                      "None", Succ(c.epc))

\* ERET: return through ErrorEPC if ERL, else through EPC; in a delay slot
\* execute() only warns, and the overwrite of pc_next drops the branch
opcERET(c) ==
    IF ~CP0Usable(c.status) THEN Outcome(c, "CpU", Succ(c.pc_next))
    ELSE IF c.status.erl
         THEN Outcome([c EXCEPT !.pc_next = c.errorepc, !.status.erl = FALSE],
                      "None", Succ(c.errorepc))
         ELSE Outcome([c EXCEPT !.pc_next = c.epc, !.status.exl = FALSE],
                      "None", Succ(c.epc))

\* MTC0 to Status or EPC
opcMTC0(c, i) ==
    IF ~CP0Usable(c.status) THEN Outcome(c, "CpU", Succ(c.pc_next))
    ELSE IF i.reg = "Status"
         THEN Outcome([c EXCEPT !.status = i.val], "None", Succ(c.pc_next))
         ELSE Outcome([c EXCEPT !.epc = i.val], "None", Succ(c.pc_next))

\* SYSCALL, BREAK, RES and the opcodes execute() does not implement (the
\* 64-bit ones, coprocessor 1-3 and cache operations): the exception only
opcSYSCALL(c) == Outcome(c, "Sys", Succ(c.pc_next))
opcBREAK(c)   == Outcome(c, "Bp", Succ(c.pc_next))
opcRES(c)     == Outcome(c, "RI", Succ(c.pc_next))

\* execute(): the switch on the opcode
dispatch(c, i, df) ==
    CASE i.op = "nop"  -> opcNOP(c)
      [] i.op = "mem"  -> opcLW(c, df)
      [] i.op = "b"    -> opcBEQ(c, i.target)
      [] i.op = "bl"   -> opcBEQL(c)
      [] i.op = "wait" -> opcWAIT(c)
      [] i.op = "eret" -> opcERET(c)
      [] i.op = "mtc0" -> opcMTC0(c, i)
      [] i.op = "trap" /\ i.code = "Sys" -> opcSYSCALL(c)
      [] i.op = "trap" /\ i.code = "Bp"  -> opcBREAK(c)
      [] i.op = "trap" -> opcRES(c)

\* A variant of execute() whose "Branch test" also runs in a delay slot
execute_excaddr_in_slot(c, i, df) ==
    LET o  == dispatch(c, i, df)
        c1 == [o.c EXCEPT !.excaddr = o.c.pc]
        c2 == IF o.res = "None"
              THEN [c1 EXCEPT !.pc = c1.pc_next, !.pc_next = o.pca] ELSE c1
    IN  [c |-> c2, res |-> o.res]

\* execute(): the switch, then the "Branch test" that sets excaddr outside
\* a delay slot, then the PC update when no exception was raised.
execute(c, i, df) ==
    LET o  == dispatch(c, i, df)
        c1 == IF o.c.branch \in {BRANCH_COND, BRANCH_NONE}
              THEN [o.c EXCEPT !.excaddr = o.c.pc] ELSE o.c
        c2 == IF o.res = "None"
              THEN [c1 EXCEPT !.pc = c1.pc_next, !.pc_next = o.pca] ELSE c1
    IN  [c |-> c2, res |-> o.res]

\* cpu_read_ins: a fetch fault outside a delay slot records PC in excaddr
cpu_read_ins(c, ff) ==
    IF ff # "None" /\ c.branch = BRANCH_NONE
    THEN [c EXCEPT !.excaddr = c.pc] ELSE c

\* instruction(): fetch, and execute what was fetched
instruction(c, ff, df) ==
    IF ff # "None" THEN [c |-> cpu_read_ins(c, ff), res |-> ff]
    ELSE execute(c, prog[c.pc], df)

\* A variant of handle_exception() that forgets to cancel standby
handle_exception_keeps_stdby(c, res) ==
    LET refill == res = "TLBLR"
        code   == IF refill THEN "TLBL" ELSE res
        c1 == IF c.stdby THEN cpu_set_pc(c, Succ(c.pc)) ELSE c
        c2 == [c1 EXCEPT !.cause.exccode = code, !.cause.bd = (c1.branch = BRANCH_PASSED)]
        c3 == IF c2.status.exl THEN c2
              ELSE [c2 EXCEPT !.epc = IF code = "Int" /\ c2.branch # BRANCH_COND
                                      THEN c2.pc ELSE c2.excaddr]
        c4 == cpu_set_pc(c3, ExcVector(c3.status.bev, c3.status.exl, refill))
    IN  [c4 EXCEPT !.status.exl = TRUE]

\* handle_exception()
handle_exception(c, res) ==
    LET refill == res = "TLBLR"
        code   == IF refill THEN "TLBL" ELSE res
        c1 == IF c.stdby THEN cpu_set_pc(c, Succ(c.pc)) ELSE c
        c2 == [c1 EXCEPT !.stdby = FALSE, !.cause.exccode = code,
                         !.cause.bd = (c1.branch = BRANCH_PASSED)]
        c3 == IF c2.status.exl THEN c2
              ELSE [c2 EXCEPT !.epc = IF code = "Int" /\ c2.branch # BRANCH_COND
                                      THEN c2.pc ELSE c2.excaddr]
        c4 == cpu_set_pc(c3, ExcVector(c3.status.bev, c3.status.exl, refill))
    IN  [c4 EXCEPT !.status.exl = TRUE]

\* manage(): the exception of the step, or an interrupt request when none
raised(c, res) ==
    IF res = "None" /\ ~c.status.exl /\ ~c.status.erl /\ c.status.ie /\ c.cause.ip
    THEN "Int" ELSE res

manage(c, res) ==
    LET r == raised(c, res)
    IN  IF r # "None" THEN handle_exception(c, r) ELSE c

\* The continuation <<next instruction, the one after>> that the CPU state
\* stands for: in standby pc is the WAIT and pc_next the address after the
\* instruction that follows it.
Continuation(c) ==
    IF c.stdby THEN <<Pred(c.pc_next), c.pc_next>> ELSE <<c.pc, c.pc_next>>

InSlot(c) == Continuation(c)[2] # Succ(Continuation(c)[1])

Init ==
    /\ prog \in Programs
    /\ cpu = cpu_init
    /\ lastslot = FALSE

\* A variant of the delay-slot countdown without its test for BRANCH_NONE
branch_countdown_unguarded(m) == [m EXCEPT !.branch = @ - 1]

\* cpu_step(): the branch delay slot control at its end
branch_countdown(m) ==
    IF m.branch > BRANCH_NONE THEN [m EXCEPT !.branch = @ - 1] ELSE m

\* cpu_step() in standby: instruction() is skipped, manage() may deliver an
\* interrupt, and the countdown runs
cpu_step_standby ==
    /\ cpu.stdby
    /\ cpu' = branch_countdown(manage(cpu, "None"))
    /\ lastslot' = IF raised(cpu, "None") # "None" THEN InSlot(cpu) ELSE lastslot
    /\ UNCHANGED prog

\* cpu_step() otherwise: the fetch and the data access may each fault (ff,
\* df; a data fault only for a load), then manage() and the countdown
cpu_step_run ==
    /\ ~cpu.stdby
    /\ \E ff \in {"None"} \cup FetchFaults(cpu.pc, cpu.status),
          df \in {"None"} \cup (IF prog[cpu.pc].op = "mem" THEN DataFaults ELSE {}) :
          LET i == instruction(cpu, ff, df)
          IN  /\ cpu' = branch_countdown(manage(i.c, i.res))
              /\ lastslot' = IF raised(i.c, i.res) # "None" THEN InSlot(i.c) ELSE lastslot
              /\ UNCHANGED prog

cpu_step == cpu_step_standby \/ cpu_step_run

\* cpu_interrupt_up / cpu_interrupt_down from a device
cpu_interrupt_up ==
    /\ cpu' = [cpu EXCEPT !.cause.ip = TRUE]
    /\ UNCHANGED <<prog, lastslot>>

cpu_interrupt_down ==
    /\ cpu' = [cpu EXCEPT !.cause.ip = FALSE]
    /\ UNCHANGED <<prog, lastslot>>

Next == cpu_step \/ cpu_interrupt_up \/ cpu_interrupt_down

Spec == Init /\ [][Next]_vars

\* dcpu_goto, the "goto" command of a CPU device, between two steps:
\* cpu_set_pc, which leaves branch, stdby and excaddr as they were
dcpu_goto(a) ==
    /\ cpu' = cpu_set_pc(cpu, a)
    /\ UNCHANGED <<prog, lastslot>>

\* The CPU under a debugger that may issue goto to a user address
DebugSpec == Init /\ [][Next \/ \E a \in UserAddrs : dcpu_goto(a)]_vars

\* The machine loop calls cpu_step() for every CPU on every cycle (spec.md
\* 4.8, step), so while a CPU stays in standby its standby step keeps being
\* taken.  The interrupt lines are driven by devices and get no fairness.
\* (The same holds of cpu_step_run; no property checked needs it.)
FairSpec == Spec /\ WF_vars(cpu_step_standby)

-----------------------------------------------------------------------------
(* Properties *)

\* Type invariant
TypeOK ==
    /\ prog \in Programs
    /\ cpu \in CpuRec
    /\ lastslot \in BOOLEAN

\* The architectural contract: the bookkeeping of pc, pc_next, branch,
\* excaddr and stdby in cpu_step implements the ISA's continuation, so every
\* exception saves in EPC the address at which execution must restart and
\* ERET, WAIT and branch-likely continue where the ISA says.
ISA == INSTANCE IsaControl
         WITH apc <- Continuation(cpu)[1], anext <- Continuation(cpu)[2],
              astatus <- cpu.status, aepc <- cpu.epc, aerrorepc <- cpu.errorepc,
              astdby <- cpu.stdby, aip <- cpu.cause.ip

IsaRefinement == ISA!ASpec

\* spec.md 4.8: set_pc resets PC and PC_next, so after a goto the CPU runs
\* from the new address as the ISA does, whether it was in standby, between
\* a branch and its delay slot, or anywhere else.
IsaDebugRefinement == ISA!ADebugSpec

\* manage()'s condition for delivering an interrupt, apart from the line
Deliverable(c) == ~c.status.exl /\ ~c.status.erl /\ c.status.ie

\* WAIT ends: a CPU in standby with an interrupt pending that manage() may
\* deliver leaves standby, unless the device lowers the line first.  cpu_step
\* skips instruction() in standby, manage() raises Int, and handle_exception
\* moves PC past the WAIT and clears stdby (spec.md 4.6 step 2).
WaitEndsOnInterrupt ==
    cpu.stdby /\ cpu.cause.ip /\ Deliverable(cpu) ~> ~cpu.stdby \/ ~cpu.cause.ip

\* Cause.BD, set by handle_exception from branch = PASSED, says whether the
\* instruction at which the exception was raised is in a branch delay slot.
BDConsistent == cpu.cause.bd = lastslot
=============================================================================
