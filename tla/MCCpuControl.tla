----------------------------- MODULE MCCpuControl -----------------------------
(***************************************************************************)
(* A small machine for CpuControl.  Twelve words of memory:                *)
(*   0..3  user code in kuseg: word 0 is any instruction, word 2 a branch  *)
(*         back to 0 whose delay slot is word 3;                          *)
(*   4     TLB refill handler (0x80000000): ERET                           *)
(*   5, 6  general handler (0x80000180): a load or a branch to word 4,     *)
(*         then ERET (in the branch's delay slot in the second case)       *)
(*   7..9  boot code at 0xbfc00000: MTC0 Status, MTC0 EPC <- 0, ERET       *)
(*   10,11 boot-time handlers (0xbfc00200, 0xbfc00380): ERET               *)
(* Branch targets other than the fall-through (word 2 from word 0) are     *)
(* allowed; a branch to PC+8 has no observable delay slot and the           *)
(* continuation cannot say whether it was taken.                           *)
(***************************************************************************)
EXTENDS CpuControl

MCNWords == 12
MCUserAddrs == 0 .. 3

ERET == [op |-> "eret"]

\* Instructions that are not branches
Plain == {[op |-> "nop"], [op |-> "mem"], [op |-> "wait"], ERET,
          [op |-> "mtc0", reg |-> "EPC", val |-> 0]}

\* User code runs with CP0 unusable, where MTC0 raises CpU as ERET does;
\* words 0 and 3 take a trap in its place.
MTC0EPC == [op |-> "mtc0", reg |-> "EPC", val |-> 0]

\* Word 0: anything, including a branch whose delay slot is word 1, and a
\* SYSCALL or BREAK
First == (Plain \ {MTC0EPC}) \cup {[op |-> "bl"]} \cup {[op |-> "b", target |-> t] : t \in {0, 1, 3}}
         \cup {[op |-> "trap", code |-> e] : e \in {"Sys", "Bp"}}

\* Word 3, the delay slot of the branch at word 2: no WAIT, and a reserved
\* instruction
Slot == (Plain \ {[op |-> "wait"], MTC0EPC}) \cup {[op |-> "trap", code |-> "RI"]}

\* Status written by the boot code: user mode with interrupts enabled,
\* exception vectors in RAM or still at boot time
BootStatus == {[exl |-> TRUE, erl |-> FALSE, ie |-> TRUE, bev |-> b, ksu |-> "user"]
               : b \in BOOLEAN}

\* Word 5 of the general handler: a load, or a branch whose delay slot is
\* the handler's ERET (execute() only warns of an ERET in a delay slot)
Handler == {[op |-> "mem"], [op |-> "b", target |-> 4]}

Image(i0, i1, i3, h5, st) ==
    [a \in 0 .. MCNWords - 1 |->
        CASE a = 0 -> i0
          [] a = 1 -> i1
          [] a = 2 -> [op |-> "b", target |-> 0]
          [] a = 3 -> i3
          [] a = 5 -> h5
          [] a = 7 -> [op |-> "mtc0", reg |-> "Status", val |-> st]
          [] a = 8 -> [op |-> "mtc0", reg |-> "EPC", val |-> 0]
          [] OTHER -> ERET]

\* No WAIT in the delay slot of a taken branch
MCPrograms ==
    {Image(i0, i1, i3, h5, st) : i0 \in First, i1 \in Plain, i3 \in Slot,
                                 h5 \in Handler, st \in BootStatus}
    \ {Image(i0, [op |-> "wait"], i3, h5, st) : i0 \in {i \in First : i.op = "b"},
                                                i3 \in Slot, h5 \in Handler, st \in BootStatus}

\* WAIT allowed in the delay slot of the branch at word 2
MCProgramsWaitInSlot ==
    {Image(i0, [op |-> "nop"], [op |-> "wait"], [op |-> "mem"], st) : i0 \in Plain, st \in BootStatus}
=============================================================================
