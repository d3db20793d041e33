------------------------------- MODULE Cp0Cause -------------------------------
(***************************************************************************)
(* The Cause and Status registers of one msim CPU (src/cpu/cpu.c) and the  *)
(* code that shares them.  Cause.IP holds eight interrupt requests: a      *)
(* device raises and lowers line n through dcpu_interrupt_up/down (routed  *)
(* by procno) and cpu_interrupt_up/down, manage() raises IP7 when Count    *)
(* equals Compare, MTC0 Compare lowers IP7 and MTC0 Cause rewrites IP0 and *)
(* IP1.  Cause.CE and ExcCode are written by the Coprocessor Unusable      *)
(* paths of MFC0, BCz, CFCz, CTCz, MTCz, MTC0 and ERET and by              *)
(* handle_exception().  manage() takes an interrupt when no exception was  *)
(* raised, EXL and ERL are clear, IE is set and a request is unmasked.     *)
(*                                                                         *)
(* One cpu_step() is one action: the instruction (or nothing, in standby), *)
(* then manage().  The value of Count is abstracted: whether the step's    *)
(* increment makes it equal Compare is a free choice (Cp0Timer models      *)
(* when).  Status keeps the fields these paths read; an MTC0 Status value  *)
(* is one of StatusWrites, already masked with 0xff77ff1f.                 *)
(***************************************************************************)
EXTENDS Integers

CONSTANTS
    Lines,         \* the interrupt lines and Cause.IP bits modelled, within 0 .. 7
    StatusWrites,  \* values an MTC0 Status may write
    CpuNos         \* CPU numbers a device may address

ASSUME Lines \subseteq 0 .. 7 /\ 7 \in Lines

PROCNO == 0        \* dcpu_get_free_id: the first CPU added gets 0

CopNos == 0 .. 3
Codes  == {"Int", "CpU", "RI"}      \* exc_t values raised on these paths

StatusRec == [cu : SUBSET CopNos, ksu : {0, 2}, exl : BOOLEAN, erl : BOOLEAN,
              ie : BOOLEAN, im : SUBSET Lines]
CauseRec  == [ip : SUBSET Lines, ce : CopNos, exccode : Codes]

\* The instructions: MTC0 of a register (any other than Status, Cause and
\* Compare leaves them alone), MFC0, a BCz branch, CFCz, CTCz, MTCz and MFCz
\* for z = 1 .. 3, CFC0 and CTC0, ERET, and any other instruction
Writes ==
    {<<"Status", s>> : s \in StatusWrites}
    \cup {<<"Cause", b>> : b \in SUBSET ({0, 1} \cap Lines)}
    \cup {<<"Compare", {}>>, <<"Other", {}>>}
Instrs ==
    [op : {"MTC0"}, arg : Writes]
    \cup [op : {"MFC0", "BC", "ERET", "other"}, arg : {0}]
    \cup [op : {"COP"}, arg : ({"CFC", "CTC", "MTC", "MFC"} \X CopNos) \ {<<"MTC", 0>>, <<"MFC", 0>>}]

VARIABLES
    status, cause,
    act,       \* ghost: the last step (an instruction, or a line raised or lowered)
    fresh      \* ghost: the request the last step's timer raised

vars == <<status, cause, act, fresh>>

\* What an instruction leaves: Status, Cause and its exception
Result(st, ca, res) == [st |-> st, ca |-> ca, res |-> res]

\* cp0_status_cu0 == 1 || ksu == 0 || exl == 1 || erl == 1
cp0_usable(st) == 0 \in st.cu \/ st.ksu = 0 \/ st.exl \/ st.erl

\* The Coprocessor Unusable exit of a CP0 instruction: Cause.CE cleared
cp0_unusable(st, ca) == Result(st, [ca EXCEPT !.ce = 0], "CpU")

\* MFC0 (the general register it writes is not modelled); the BCz cases
\* of every z share this test
opcMFC0(st, ca) ==
    IF cp0_usable(st) THEN Result(st, ca, "None") ELSE cp0_unusable(st, ca)

\* A variant of the coprocessor test that writes CE one too high
opcCop_ce_off_by_one(kind, z, st, ca) ==
    CASE kind = "MFC"  -> Result(st, ca, "RI")
      [] z = 0         -> Result(st, ca, "None")
      [] z \in st.cu   -> Result(st, ca, "None")
      [] OTHER         -> Result(st, [ca EXCEPT !.ce = z + 1], "CpU")

\* CFCz, CTCz, MTCz for z = 1 .. 3: ignored when CUz is set, else CpU with
\* Cause.CE = z
cu_test(z, st, ca) ==
    IF z \in st.cu THEN Result(st, ca, "None") ELSE Result(st, [ca EXCEPT !.ce = z], "CpU")

\* CFC0 and CTC0 are ignored; MFC1 .. MFC3 are unimplemented
opcCop(kind, z, st, ca) ==
    CASE kind = "MFC" -> Result(st, ca, "RI")
      [] z = 0        -> Result(st, ca, "None")
      [] OTHER        -> cu_test(z, st, ca)

opcMTC0(w, st, ca) ==
    IF ~cp0_usable(st) THEN cp0_unusable(st, ca)
    ELSE CASE w[1] = "Status"  -> Result(w[2], ca, "None")
           [] w[1] = "Cause"   -> Result(st, [ca EXCEPT !.ip = (@ \ {0, 1}) \cup w[2]], "None")
           [] w[1] = "Compare" -> Result(st, [ca EXCEPT !.ip = @ \ {7}], "None")
           [] OTHER            -> Result(st, ca, "None")

\* ERET: ERL cleared if set, else EXL (the jump is CpuControl's)
opcERET(st, ca) ==
    CASE ~cp0_usable(st) -> cp0_unusable(st, ca)
      [] st.erl          -> Result([st EXCEPT !.erl = FALSE], ca, "None")
      [] OTHER           -> Result([st EXCEPT !.exl = FALSE], ca, "None")

execute(i, st, ca) ==
    CASE i.op = "MTC0"              -> opcMTC0(i.arg, st, ca)
      [] i.op \in {"MFC0", "BC"}    -> opcMFC0(st, ca)
      [] i.op = "COP"               -> opcCop(i.arg[1], i.arg[2], st, ca)
      [] i.op = "ERET"              -> opcERET(st, ca)
      [] OTHER                      -> Result(st, ca, "None")

\* The requests manage() would take now: (cause & status & ip_mask) with
\* EXL and ERL clear and IE set
Requests(st, ca) == IF ~st.exl /\ ~st.erl /\ st.ie THEN ca.ip \cap st.im ELSE {}

\* A variant of manage()'s test that masks with the hardware lines only
raised_hw_only(st, ca, res) ==
    IF res = "None" /\ Requests(st, ca) \ {0, 1} # {} THEN "Int" ELSE res

\* manage(): the exception of the step, or Int for a pending request
raised(st, ca, res) ==
    IF res = "None" /\ Requests(st, ca) # {} THEN "Int" ELSE res

\* handle_exception(): Cause.ExcCode written, EXL set
handle_exception(st, ca, r) ==
    [st |-> [st EXCEPT !.exl = TRUE], ca |-> [ca EXCEPT !.exccode = r]]

\* manage() after the instruction left i; hit: the increment of Count
\* made it equal Compare
manage(i, hit) ==
    LET r == raised(i.st, i.ca, i.res)
        e == IF r # "None" THEN handle_exception(i.st, i.ca, r) ELSE [st |-> i.st, ca |-> i.ca]
    IN  /\ status' = e.st
        /\ cause' = [e.ca EXCEPT !.ip = IF hit THEN @ \cup {7} ELSE @]
        /\ fresh' = IF hit /\ 7 \notin e.ca.ip THEN {7} ELSE {}

\* cpu_init: Status = ERL | BEV, Cause = 0
Init ==
    /\ status = [cu |-> {}, ksu |-> 0, exl |-> FALSE, erl |-> TRUE, ie |-> FALSE, im |-> {}]
    /\ cause = [ip |-> {}, ce |-> 0, exccode |-> "Int"]
    /\ act = [op |-> "init", arg |-> 0]
    /\ fresh = {}

\* cpu_step(): an instruction (or, in standby, none: "other"), then manage()
cpu_step ==
    \E i \in Instrs, hit \in BOOLEAN :
        /\ manage(execute(i, status, cause), hit)
        /\ act' = i

\* dcpu_interrupt_up/down: dcpu_find_no looks the CPU up by procno and the
\* call is dropped when there is none; cpu_interrupt_up/down set or clear
\* the line's IP bit (the per-line counter is statistics)
dcpu_interrupt_up(no, n) ==
    /\ cause' = IF no = PROCNO THEN [cause EXCEPT !.ip = @ \cup {n}] ELSE cause
    /\ act' = [op |-> "up", arg |-> <<no, n>>]
    /\ fresh' = {}
    /\ UNCHANGED status

dcpu_interrupt_down(no, n) ==
    /\ cause' = IF no = PROCNO THEN [cause EXCEPT !.ip = @ \ {n}] ELSE cause
    /\ act' = [op |-> "down", arg |-> <<no, n>>]
    /\ fresh' = {}
    /\ UNCHANGED status

Next ==
    \/ cpu_step
    \/ \E no \in CpuNos, n \in Lines : dcpu_interrupt_up(no, n)
    \/ \E no \in CpuNos, n \in Lines : dcpu_interrupt_down(no, n)

Spec == Init /\ [][Next]_vars
-----------------------------------------------------------------------------
(* Properties *)

TypeOK ==
    /\ status \in StatusRec /\ cause \in CauseRec
    /\ act \in Instrs \cup [op : {"init"}, arg : {0}] \cup [op : {"up", "down"}, arg : CpuNos \X Lines]
    /\ fresh \subseteq {7}

NoDeliverableRequestLeft ==
    act.op \notin {"init", "up", "down"} => Requests(status, cause) \subseteq fresh
=============================================================================
