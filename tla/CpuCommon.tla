------------------------------ MODULE CpuCommon ------------------------------
(***************************************************************************)
(* Definitions shared by the architectural contract (IsaControl) and the   *)
(* model of msim's simulator loop (CpuControl).                            *)
(*                                                                         *)
(* Addresses are abstracted to word indices modulo NWords: Succ(a) is the  *)
(* C expression a + 4 on a ptr_t, and the exception vectors are the words *)
(* the MC module assigns to 0xbfc00200, 0xbfc00380, 0x80000000 and         *)
(* 0x80000180.  Status is abstracted to the fields the control flow reads: *)
(* EXL, ERL, IE, BEV and whether KSU is kernel (0) or user (2); CU0 is 0.   *)
(***************************************************************************)
EXTENDS Naturals

CONSTANTS
    NWords,            \* number of instruction words in the address space
    UserAddrs,         \* words of kuseg, translated through the TLB
    ResetVector,       \* 0xbfc00000, HARD_RESET_START_ADDRESS
    BootRefillVector,  \* 0xbfc00200 (BEV = 1, TLB refill, EXL = 0)
    BootGeneralVector, \* 0xbfc00380 (BEV = 1, other exceptions)
    RefillVector,      \* 0x80000000 (BEV = 0, TLB refill, EXL = 0)
    GeneralVector      \* 0x80000180 (BEV = 0, other exceptions)

Addr == 0 .. NWords - 1

ASSUME UserAddrs \subseteq Addr
ASSUME {ResetVector, BootRefillVector, BootGeneralVector,
        RefillVector, GeneralVector} \subseteq Addr \ UserAddrs

\* ptr_t arithmetic: a + 4 and a - 4 on word addresses
Succ(a) == (a + 1) % NWords
Pred(a) == (a + NWords - 1) % NWords

\* The Status fields the control flow depends on
StatusRec == [exl : BOOLEAN, erl : BOOLEAN, ie : BOOLEAN, bev : BOOLEAN,
              ksu : {"kernel", "user"}]

\* Abstract instruction kinds.  "mem" is a load that may fault, "b" a taken
\* branch or jump, "bl" a branch-likely that is not taken (its delay slot
\* is annulled), "mtc0" a write of Status or EPC, "trap" an instruction
\* whose only effect is its exception: SYSCALL (Sys), BREAK (Bp), RES and
\* the unimplemented and 64-bit opcodes (RI).
TrapCodes == {"Sys", "Bp", "RI"}

Instr ==
    [op : {"nop", "mem", "bl", "wait", "eret"}]
    \cup [op : {"trap"}, code : TrapCodes]
    \cup [op : {"b"}, target : Addr]
    \cup [op : {"mtc0"}, reg : {"Status"}, val : StatusRec]
    \cup [op : {"mtc0"}, reg : {"EPC"}, val : Addr]

\* Exceptions the modelled instructions raise (exc_t); TLBLR is a refill.
Exc == {"None", "Int", "TLBLR", "TLBL", "AdEL", "CpU"} \cup TrapCodes

\* The faults a data access may raise (cpu_read_mem of a LW).
DataFaults == {"TLBLR", "TLBL", "AdEL"}

\* convert_addr: user mode (KSU = 2, EXL = ERL = 0) translates kuseg through
\* the TLB and rejects the rest with an address error; kernel mode maps kuseg
\* unless ERL, and kseg0/kseg1 never fault.
UserMode(st) == st.ksu = "user" /\ ~st.exl /\ ~st.erl

FetchFaults(a, st) ==
    (IF a \in UserAddrs /\ ~st.erl THEN {"TLBLR", "TLBL"} ELSE {})
    \cup (IF a \notin UserAddrs /\ UserMode(st) THEN {"AdEL"} ELSE {})

\* handle_exception: vector base by BEV, offset 0x180 unless a refill with EXL = 0
ExcVector(bev, exl, refill) ==
    IF bev THEN (IF exl \/ ~refill THEN BootGeneralVector ELSE BootRefillVector)
           ELSE (IF exl \/ ~refill THEN GeneralVector ELSE RefillVector)

\* Coprocessor 0 usability test repeated in execute() (CU0 = 0)
CP0Usable(st) == st.ksu = "kernel" \/ st.exl \/ st.erl

\* cpu_init: HARD_RESET_STATUS has ERL and BEV set
ResetStatus == [exl |-> FALSE, erl |-> TRUE, ie |-> FALSE, bev |-> TRUE,
                ksu |-> "kernel"]
=============================================================================
