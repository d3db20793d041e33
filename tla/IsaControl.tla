------------------------------ MODULE IsaControl ------------------------------
(***************************************************************************)
(* The control-flow contract of the MIPS R4000 that msim simulates         *)
(* (spec.md sections 4.5, 4.6 and 8), with no delay-slot bookkeeping: the *)
(* state is the continuation <<apc, anext>>, the address of the next       *)
(* instruction and of the one after it.  A taken branch makes its target   *)
(* the second element, so the delay slot runs first.  An exception is      *)
(* precise: EPC gets the address at which execution restarts, which is the *)
(* faulting instruction, or the branch when the instruction was in a delay *)
(* slot; WAIT is a standby that an interrupt ends, resuming after the WAIT.*)
(***************************************************************************)
EXTENDS CpuCommon

CONSTANT Programs      \* the memory images the CPU may run: [Addr -> Instr]

VARIABLES
    prog,       \* the program in memory
    apc,        \* address of the next instruction to execute
    anext,      \* address of the instruction after it
    astatus,    \* Status (EXL, ERL, IE, BEV, KSU)
    aepc,       \* EPC
    aerrorepc,  \* ErrorEPC
    astdby,     \* in WAIT standby
    aip         \* an interrupt line enabled by Status.IM is asserted

avars == <<prog, apc, anext, astatus, aepc, aerrorepc, astdby, aip>>

\* The address at which an instruction with continuation <<pc, next>>
\* restarts: itself, or the branch before it when it is a delay slot.
RestartPoint(pc, next) == IF next = Succ(pc) THEN pc ELSE Pred(pc)

Deliverable(st, ip) == ~st.exl /\ ~st.erl /\ st.ie /\ ip

AInit ==
    /\ prog \in Programs
    /\ apc = ResetVector
    /\ anext = Succ(ResetVector)
    /\ astatus = ResetStatus
    /\ aepc = 0
    /\ aerrorepc = 0
    /\ astdby = FALSE
    /\ aip = FALSE

\* Enter the handler for exception e raised with continuation <<pc, next>>
\* and status st.  EPC is written only when EXL was clear.
Raise(e, pc, next, st) ==
    /\ aepc' = IF st.exl THEN aepc ELSE RestartPoint(pc, next)
    /\ apc' = ExcVector(st.bev, st.exl, e = "TLBLR")
    /\ anext' = Succ(apc')
    /\ astatus' = [st EXCEPT !.exl = TRUE]
    /\ astdby' = FALSE

\* The faults the instruction at apc may raise instead of completing.
Faults ==
    FetchFaults(apc, astatus)
    \cup (IF prog[apc].op = "mem" THEN DataFaults ELSE {})
    \cup (IF prog[apc].op = "trap" THEN {prog[apc].code} ELSE {})
    \cup (IF prog[apc].op \in {"eret", "mtc0"} /\ ~CP0Usable(astatus)
          THEN {"CpU"} ELSE {})

\* The state once the instruction i at apc completes.
Effect(i) ==
    CASE i.op \in {"nop", "mem"} ->
            [pc |-> anext, next |-> Succ(anext), st |-> astatus, epc |-> aepc,
             stdby |-> FALSE]
      [] i.op = "b" ->
            [pc |-> anext, next |-> i.target, st |-> astatus, epc |-> aepc,
             stdby |-> FALSE]
      [] i.op = "bl" ->
            [pc |-> Succ(anext), next |-> Succ(Succ(anext)), st |-> astatus,
             epc |-> aepc, stdby |-> FALSE]
      [] i.op = "wait" ->
            [pc |-> anext, next |-> Succ(anext), st |-> astatus, epc |-> aepc,
             stdby |-> TRUE]
      [] i.op = "eret" /\ astatus.erl ->
            [pc |-> aerrorepc, next |-> Succ(aerrorepc),
             st |-> [astatus EXCEPT !.erl = FALSE], epc |-> aepc, stdby |-> FALSE]
      [] i.op = "eret" ->
            [pc |-> aepc, next |-> Succ(aepc),
             st |-> [astatus EXCEPT !.exl = FALSE], epc |-> aepc, stdby |-> FALSE]
      [] i.op = "mtc0" /\ i.reg = "Status" ->
            [pc |-> anext, next |-> Succ(anext), st |-> i.val, epc |-> aepc,
             stdby |-> FALSE]
      [] i.op = "mtc0" ->
            [pc |-> anext, next |-> Succ(anext), st |-> astatus, epc |-> i.val,
             stdby |-> FALSE]

\* The instruction at apc faults.
AFault ==
    /\ ~astdby
    /\ \E e \in Faults : Raise(e, apc, anext, astatus)
    /\ UNCHANGED <<prog, aerrorepc, aip>>

\* The instruction at apc completes (a trap never does); an interrupt that
\* its completion makes deliverable is taken at once, before the next
\* instruction.
AComplete ==
    /\ ~astdby
    /\ prog[apc].op # "trap"
    /\ LET s == Effect(prog[apc]) IN
         IF Deliverable(s.st, aip)
         THEN /\ aepc' = RestartPoint(s.pc, s.next)
              /\ apc' = ExcVector(s.st.bev, FALSE, FALSE)
              /\ anext' = Succ(apc')
              /\ astatus' = [s.st EXCEPT !.exl = TRUE]
              /\ astdby' = FALSE
         ELSE /\ apc' = s.pc
              /\ anext' = s.next
              /\ astatus' = s.st
              /\ aepc' = s.epc
              /\ astdby' = s.stdby
    /\ UNCHANGED <<prog, aerrorepc, aip>>

\* In standby nothing executes until an interrupt is deliverable; it
\* restarts after the WAIT.
AWake ==
    /\ astdby
    /\ Deliverable(astatus, aip)
    /\ Raise("Int", apc, anext, astatus)
    /\ UNCHANGED <<prog, aerrorepc, aip>>

\* An interrupt line is asserted or deasserted by a device.
AInterruptUp == aip' = TRUE /\ UNCHANGED <<prog, apc, anext, astatus, aepc, aerrorepc, astdby>>
AInterruptDown == aip' = FALSE /\ UNCHANGED <<prog, apc, anext, astatus, aepc, aerrorepc, astdby>>

ANext == AFault \/ AComplete \/ AWake \/ AInterruptUp \/ AInterruptDown

ASpec == AInit /\ [][ANext]_avars

\* set_pc (spec.md 4.8), the debugger's "goto": execution continues at a
\* and then at the word after it; nothing else changes.
ASetPc(a) ==
    /\ apc' = a
    /\ anext' = Succ(a)
    /\ UNCHANGED <<prog, astatus, aepc, aerrorepc, astdby, aip>>

ADebugSpec == AInit /\ [][ANext \/ \E a \in UserAddrs : ASetPc(a)]_avars
=============================================================================
