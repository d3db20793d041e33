------------------------------- MODULE MemAccess -------------------------------
(***************************************************************************)
(* Data and instruction accesses of one msim CPU (src/cpu/cpu.c): acc_mem  *)
(* tests the alignment, translates the address with convert_addr, checks   *)
(* the watch register, and reads or writes physical memory; cpu_read_mem,  *)
(* cpu_write_mem and cpu_fetch_mem turn its result into the load, store or *)
(* fetch exception.  One access step is one instruction's access followed  *)
(* by manage(), which sets EXL when the access faulted.  LL, SC, SWL and   *)
(* SWR are the instructions whose access does more than one thing: LL     *)
(* links the physical word it read, SC stores only while the link holds,   *)
(* and SWL/SWR read the word and then write it back.                       *)
(*                                                                         *)
(* Addresses are counted in 8-byte doublewords, the unit of the watch      *)
(* comparison (addr >> 3); the link is kept at the same unit.  Virtual     *)
(* doublewords below KsegBase are useg (through the TLB); KsegBase ..      *)
(* KsegBase + KsegSize - 1 is kseg0 and the next KsegSize doublewords      *)
(* kseg1, both mapped to physical 0 upwards.  The CPU runs a user-mode     *)
(* program (KSU = user), so EXL selects between user and kernel            *)
(* translation.  The TLB is not state here: each access through it has a  *)
(* nondeterministic outcome, and a hit maps a useg doubleword by PageMap.  *)
(* The other CPUs of the machine appear through their stores, which break  *)
(* this CPU's link through the LL watchlist of machine.c (not in this      *)
(* repository; modelled from spec.md's glossary).                          *)
(***************************************************************************)
EXTENDS Naturals

CONSTANTS
    KsegBase,    \* the first doubleword of kseg0 (0x80000000 >> 3)
    KsegSize,    \* doublewords of kseg0 and of kseg1 in the model
    PAs,         \* physical doublewords
    PageMap,     \* the TLB's translation of useg doublewords: [0 .. KsegBase-1 -> PAs]
    Vals,        \* values stored
    Placements   \* offset and size of an access within its doubleword

VAs == 0 .. KsegBase + 2 * KsegSize - 1

ASSUME PageMap \in [0 .. KsegBase - 1 -> PAs]
ASSUME \A v \in 0 .. KsegSize - 1 : v \in PAs

Modes == {"READ", "WRITE", "FETCH"}          \* acc_mode_t
TlbResults == {"OK", "TLBR", "TLB", "Mod"}   \* tlb_hit's outcomes
Excs == {"None", "AdEL", "AdES", "TLBL", "TLBS", "TLBLR", "TLBSR", "Mod", "WATCH"}

\* The outcomes a TLB lookup may have for an access: none outside useg, a
\* TLB Modified only for a write
TlbOutcomes(mode, va) ==
    IF va >= KsegBase THEN {"OK"}
    ELSE IF mode = "WRITE" THEN TlbResults ELSE TlbResults \ {"Mod"}

\* The read and the write of an SWL/SWR go to the same page: a read that hits
\* is followed by a write that hits or finds the page clean
PairOutcomes(va) ==
    IF va >= KsegBase THEN {<<"OK", "OK">>}
    ELSE {<<"OK", "OK">>, <<"OK", "Mod">>, <<"TLBR", "TLBR">>, <<"TLB", "TLB">>}

VARIABLES
    mem,        \* physical memory, one value per doubleword
    watch,      \* WatchLo.R, WatchLo.W and cpu->waddr
    exl,        \* Status.EXL
    wpending,   \* cpu->wpending
    llbit,      \* cpu->llbit
    lladdr,     \* cpu->lladdr (a physical doubleword)
    sclist,     \* the CPU is registered in machine.c's LL watchlist
    last,       \* ghost: mode, TLB outcome and exception of the last access
    touched,    \* ghost: the link was written or cancelled since the LL
    lastsc      \* ghost: the SC of the last step, if it was one

vars == <<mem, watch, exl, wpending, llbit, lladdr, sclist, last, touched, lastsc>>

\* The ghost of a step that is not an access of this CPU
Other == [mode |-> "OTHER", tlb |-> "OK", exc |-> "None"]
NoSC == [ok |-> FALSE, intact |-> TRUE]

\* The ghost of an access: the TLB outcome only if it went through the TLB
Seen(mode, va, t, exc) == [mode |-> mode, tlb |-> IF va < KsegBase THEN t ELSE "OK", exc |-> exc]

\* mem_align_test
mem_align_test(p) ==
    ~((p.size = 2 /\ p.off % 2 = 1) \/ (p.size = 4 /\ p.off % 4 # 0))

\* tlb_hit: the fault, or the translated doubleword; a fault leaves it alone
tlb_hit(va, t) ==
    IF t = "OK" THEN [res |-> "None", addr |-> PageMap[va]] ELSE [res |-> t, addr |-> va]

\* The segments of the 32-bit address space, and the segment of a modelled
\* virtual doubleword (the model has no kseg2/kseg3 addresses)
Segs == {"useg", "kseg0", "kseg1", "kseg2", "kseg3"}
Seg(va) ==
    CASE va < KsegBase            -> "useg"
      [] va < KsegBase + KsegSize -> "kseg0"
      [] OTHER                    -> "kseg1"

\* The Status bits convert_addr reads: this CPU runs a user program
status == [ksu |-> "user", exl |-> exl, erl |-> FALSE]

\* convert_addr_user: bit 31 set is an address error, useg goes to the TLB
convert_addr_user(seg, va, t) ==
    IF seg = "useg" THEN tlb_hit(va, t) ELSE [res |-> "AddrError", addr |-> va]

\* convert_addr_supervisor: suseg and sseg (0xc0000000 ..) through the TLB,
\* kseg0/kseg1 and the top segment are address errors
convert_addr_supervisor(seg, va, t) ==
    IF seg \in {"useg", "kseg2"} THEN tlb_hit(va, t) ELSE [res |-> "AddrError", addr |-> va]

\* convert_addr_kernel: kuseg through the TLB unless ERL (then unmapped,
\* address unchanged), kseg0/kseg1 unmapped, kseg2/kseg3 through the TLB
convert_addr_kernel(st, seg, va, t) ==
    CASE seg = "useg"  -> IF st.erl THEN [res |-> "None", addr |-> va] ELSE tlb_hit(va, t)
      [] seg = "kseg0" -> [res |-> "None", addr |-> va - KsegBase]
      [] seg = "kseg1" -> [res |-> "None", addr |-> va - (KsegBase + KsegSize)]
      [] OTHER         -> tlb_hit(va, t)

\* (mutant of convert_addr: the dispatch looks at KSU alone)
convert_addr_ignores_exl(st, seg, va, t) ==
    CASE st.ksu = "user"       -> convert_addr_user(seg, va, t)
      [] st.ksu = "supervisor" -> convert_addr_supervisor(seg, va, t)
      [] OTHER                 -> convert_addr_kernel(st, seg, va, t)

\* convert_addr: user or supervisor translation only while neither EXL nor
\* ERL is set, kernel translation otherwise
convert_addr(st, seg, va, t) ==
    LET plain == ~st.exl /\ ~st.erl
    IN  CASE st.ksu = "user" /\ plain       -> convert_addr_user(seg, va, t)
          [] st.ksu = "supervisor" /\ plain -> convert_addr_supervisor(seg, va, t)
          [] OTHER                          -> convert_addr_kernel(st, seg, va, t)

\* A variant of acc_mem that compares the watch with the virtual address
acc_mem_watch_virtual(mode, va, p, t) ==
    LET c == convert_addr(status, Seg(va), va, t)
        hit == ((watch.r /\ mode = "READ") \/ (watch.w /\ mode = "WRITE")) /\ watch.waddr = va
    IN  IF ~mem_align_test(p) THEN [res |-> "AddrError", defer |-> FALSE, addr |-> va]
        ELSE IF hit /\ ~exl THEN [res |-> "WATCH", defer |-> FALSE, addr |-> c.addr]
        ELSE [res |-> c.res, defer |-> hit, addr |-> c.addr]

\* acc_mem: align, translate, compare the (translated or not) address with
\* the watch, then access memory if nothing failed.  defer is the watch hit
\* postponed because EXL is set; the access proceeds.
acc_mem(mode, va, p, t) ==
    LET c == convert_addr(status, Seg(va), va, t)
        hit == ((watch.r /\ mode = "READ") \/ (watch.w /\ mode = "WRITE")) /\ watch.waddr = c.addr
    IN  IF ~mem_align_test(p) THEN [res |-> "AddrError", defer |-> FALSE, addr |-> va]
        ELSE IF hit /\ ~exl THEN [res |-> "WATCH", defer |-> FALSE, addr |-> c.addr]
        ELSE [res |-> c.res, defer |-> hit, addr |-> c.addr]

\* A variant that passes acc_mem's result through unconverted
AccessException_raw(mode, res) == res

\* cpu_read_mem, cpu_write_mem, cpu_fetch_mem: the exception of the access
AccessException(mode, res) ==
    LET load  == [None |-> "None", AddrError |-> "AdEL", TLB |-> "TLBL", TLBR |-> "TLBLR",
                  Mod |-> "None", WATCH |-> "WATCH"]
        store == [None |-> "None", AddrError |-> "AdES", TLB |-> "TLBS", TLBR |-> "TLBSR",
                  Mod |-> "Mod", WATCH |-> "WATCH"]
    IN  CASE mode = "READ"  -> load[res]
          [] mode = "WRITE" -> store[res]
          [] OTHER          -> IF res = "WATCH" THEN "None" ELSE load[res]

Init ==
    /\ mem \in [PAs -> Vals]
    /\ watch = [r |-> FALSE, w |-> FALSE, waddr |-> 0]
    /\ exl = FALSE
    /\ wpending = FALSE
    /\ llbit = FALSE
    /\ lladdr = 0
    /\ sclist = FALSE
    /\ last = Other
    /\ touched = TRUE
    /\ lastsc = NoSC

\* mem_write(..., protected = TRUE): the store reaches memory, and machine.c
\* breaks the link of every CPU in the LL watchlist linked to the word
Store(a, v) ==
    /\ mem' = [mem EXCEPT ![a] = v]
    /\ llbit' = (llbit /\ ~(sclist /\ lladdr = a))
    /\ sclist' = (sclist /\ lladdr # a)
    /\ touched' = (touched \/ lladdr = a)

NoStore == UNCHANGED <<mem, llbit, sclist, touched>>

\* A variant of the access step that stores even when acc_mem failed
Access_writes_on_fault(mode, va, p, v, t) ==
    LET r   == acc_mem(mode, va, p, t)
        exc == AccessException(mode, r.res)
    IN  /\ IF mode = "WRITE" /\ r.addr \in PAs THEN Store(r.addr, v) ELSE NoStore
        /\ wpending' = (wpending \/ r.defer)
        /\ exl' = (exl \/ exc # "None")
        /\ last' = Seen(mode, va, t, exc)
        /\ lastsc' = NoSC
        /\ UNCHANGED <<watch, lladdr>>

\* One load, store or fetch at va, placed by p, storing v, with TLB outcome
\* t; the value is written only if acc_mem reports no exception, and a
\* faulting access sends the CPU to its handler (EXL set).
Access(mode, va, p, v, t) ==
    LET r   == acc_mem(mode, va, p, t)
        exc == AccessException(mode, r.res)
    IN  /\ IF mode = "WRITE" /\ r.res = "None" THEN Store(r.addr, v) ELSE NoStore
        /\ wpending' = (wpending \/ r.defer)
        /\ exl' = (exl \/ exc # "None")
        /\ last' = Seen(mode, va, t, exc)
        /\ lastsc' = NoSC
        /\ UNCHANGED <<watch, lladdr>>

\* A variant of LL whose fault path deregisters but leaves llbit set
opcLL_keeps_llbit(a, exc) ==
    IF exc = "None"
    THEN llbit' = TRUE /\ lladdr' = a /\ sclist' = TRUE /\ touched' = FALSE
    ELSE sclist' = FALSE /\ touched' = TRUE /\ UNCHANGED <<llbit, lladdr>>

\* LL after cpu_read_mem: on success link the physical word (convert_addr
\* again) and register; on a fault cancel the link
opcLL(a, exc) ==
    IF exc = "None"
    THEN llbit' = TRUE /\ lladdr' = a /\ sclist' = TRUE /\ touched' = FALSE
    ELSE llbit' = FALSE /\ sclist' = FALSE /\ touched' = TRUE /\ UNCHANGED lladdr

LL(va, p, t) ==
    LET r   == acc_mem("READ", va, p, t)
        exc == AccessException("READ", r.res)
    IN  /\ opcLL(r.addr, exc)
        /\ wpending' = (wpending \/ r.defer)
        /\ exl' = (exl \/ exc # "None")
        /\ last' = Seen("READ", va, t, exc)
        /\ lastsc' = NoSC
        /\ UNCHANGED <<mem, watch>>

\* SC: without llbit it fails with no access; with llbit it writes through
\* cpu_write_mem (a completed store breaks the links to the word, its own
\* included), and then always clears llbit and deregisters.  A target other
\* than lladdr only prints an error.
SC(va, p, v, t) ==
    LET r   == acc_mem("WRITE", va, p, t)
        exc == AccessException("WRITE", r.res)
    IN  IF ~llbit
        THEN /\ lastsc' = [ok |-> FALSE, intact |-> ~touched]
             /\ last' = Other
             /\ UNCHANGED <<mem, watch, exl, wpending, llbit, lladdr, sclist, touched>>
        ELSE /\ mem' = IF exc = "None" THEN [mem EXCEPT ![r.addr] = v] ELSE mem
             /\ llbit' = FALSE
             /\ sclist' = FALSE
             /\ touched' = TRUE
             /\ wpending' = (wpending \/ r.defer)
             /\ exl' = (exl \/ exc # "None")
             /\ last' = Seen("WRITE", va, t, exc)
             /\ lastsc' = [ok |-> exc = "None", intact |-> ~touched]
             /\ UNCHANGED <<watch, lladdr>>

\* SWL, SWR: cpu_read_mem of the aligned word and, if it succeeded,
\* cpu_write_mem of the merged word (the merge is Alu's); the read's TLB
\* outcome tr and the write's tw
StorePartial(va, p, v, tr, tw) ==
    LET rd  == acc_mem("READ", va, p, tr)
        erd == AccessException("READ", rd.res)
        wr  == acc_mem("WRITE", va, p, tw)
        ewr == IF erd = "None" THEN AccessException("WRITE", wr.res) ELSE "None"
    IN  /\ IF erd = "None" /\ ewr = "None" THEN Store(wr.addr, v) ELSE NoStore
        /\ wpending' = (wpending \/ rd.defer \/ (erd = "None" /\ wr.defer))
        /\ exl' = (exl \/ erd # "None" \/ ewr # "None")
        /\ last' = IF erd # "None" THEN Seen("READ", va, tr, erd) ELSE Seen("WRITE", va, tw, ewr)
        /\ lastsc' = NoSC
        /\ UNCHANGED <<watch, lladdr>>

\* A store of another CPU (SW, SC, SWL, ...) that reaches physical a
RemoteStore(a, v) ==
    /\ Store(a, v)
    /\ last' = Other
    /\ lastsc' = NoSC
    /\ UNCHANGED <<watch, exl, wpending, lladdr>>

\* MTC0 WatchLo/WatchHi (kernel code, EXL set): waddr from PAddr1:PAddr0
MTC0Watch(rd, wr, pa) ==
    /\ exl
    /\ watch' = [r |-> rd, w |-> wr, waddr |-> pa]
    /\ last' = Other
    /\ lastsc' = NoSC
    /\ UNCHANGED <<mem, exl, wpending, llbit, lladdr, sclist, touched>>

\* Any other exception (an interrupt, a syscall): EXL set, the link kept
Exception ==
    /\ exl' = TRUE
    /\ last' = Other
    /\ lastsc' = NoSC
    /\ UNCHANGED <<mem, watch, wpending, llbit, lladdr, sclist, touched>>

\* A variant of ERET that keeps the link (the ghost still records the ERET)
ERET_keeps_link ==
    /\ exl
    /\ exl' = FALSE
    /\ touched' = TRUE
    /\ last' = Other
    /\ lastsc' = NoSC
    /\ UNCHANGED <<mem, watch, wpending, llbit, lladdr, sclist>>

\* ERET back to the user program: clears llbit and deregisters
ERET ==
    /\ exl
    /\ exl' = FALSE
    /\ llbit' = FALSE
    /\ sclist' = FALSE
    /\ touched' = TRUE
    /\ last' = Other
    /\ lastsc' = NoSC
    /\ UNCHANGED <<mem, watch, wpending, lladdr>>

\* The word-sized placements LL, SC, SWL and SWR use (SWL/SWR align down)
WordPlacements == {p \in Placements : p.size = 4}
AlignedWords == {p \in WordPlacements : mem_align_test(p)}

Next ==
    \/ \E mode \in Modes, va \in VAs, p \in Placements :
          \E t \in TlbOutcomes(mode, va), v \in (IF mode = "WRITE" THEN Vals ELSE {CHOOSE x \in Vals : TRUE}) :
              Access(mode, va, p, v, t)
    \/ \E va \in VAs, p \in WordPlacements :
          \E t \in TlbOutcomes("READ", va) : LL(va, p, t)
    \/ \E va \in VAs, p \in WordPlacements, v \in Vals :
          \E t \in TlbOutcomes("WRITE", va) : SC(va, p, v, t)
    \/ \E va \in VAs, p \in AlignedWords, v \in Vals :
          \E tt \in PairOutcomes(va) : StorePartial(va, p, v, tt[1], tt[2])
    \/ \E a \in PAs, v \in Vals : RemoteStore(a, v)
    \/ \E rd, wr \in BOOLEAN, pa \in PAs : MTC0Watch(rd, wr, pa)
    \/ Exception
    \/ ERET

Spec == Init /\ [][Next]_vars

-----------------------------------------------------------------------------
(* Properties *)

TypeOK ==
    /\ mem \in [PAs -> Vals]
    /\ watch \in [r : BOOLEAN, w : BOOLEAN, waddr : PAs]
    /\ exl \in BOOLEAN /\ wpending \in BOOLEAN
    /\ llbit \in BOOLEAN /\ lladdr \in PAs /\ sclist \in BOOLEAN
    /\ last \in [mode : Modes \cup {"OTHER"}, tlb : TlbResults, exc : Excs]

\* The watchpoint guards its doubleword: while EXL is clear and WatchLo.W is
\* set, no store of this CPU's user program (SW, SC, SWL, SWR) changes the
\* watched physical doubleword, whatever virtual address it goes through;
\* acc_mem compares the translated address and returns WATCH before the
\* write.  Other CPUs' stores are not watched.
WatchedWordGuarded ==
    [][~exl /\ watch.w /\ last'.mode # "OTHER" => mem'[watch.waddr] = mem[watch.waddr]]_vars

\* An access that raises an exception leaves memory as it was: acc_mem
\* writes only when nothing failed, and SWL/SWR write only after their read
\* succeeded and only if the write itself succeeds.
FaultLeavesMemory ==
    [][last'.exc # "None" => mem' = mem]_vars

\* A CPU whose llbit is set is in the watchlist, so a store by any CPU to
\* its linked word can break the link: cpu.c keeps llbit and the
\* registration of machine.c in step on every path of LL, SC and ERET.
LinkTracked == llbit => sclist

\* glossary of spec.md: an SC succeeds only if no write to the linked word
\* (by any CPU, its own stores included) and no ERET happened since its LL;
\* a failed LL cancels the link.
SCAtomic == lastsc.ok => lastsc.intact

\* A load or store whose TLB lookup fails raises the TLB exception (spec.md
\* 4.2 and 4.3: the watch compares the physical address, which a failed
\* translation does not have).
TlbFaultReported ==
    [][last'.tlb \in {"TLBR", "TLB"} => last'.exc # "WATCH"]_vars

\* spec.md 4.2, the segment table: the result of translating an address of
\* segment seg under Status st, with a TLB lookup reported as "TLB"
SpecRoute(st, seg) ==
    CASE st.ksu = "kernel" \/ st.exl \/ st.erl ->
            IF seg \in {"kseg0", "kseg1"} THEN "None" ELSE "TLB"
      [] st.ksu = "supervisor" ->
            IF seg \in {"useg", "kseg2"} THEN "TLB" ELSE "AddrError"
      [] OTHER ->
            IF seg = "useg" THEN "TLB" ELSE "AddrError"

\* convert_addr's dispatch on KSU, EXL and ERL and the three per-mode
\* translations route every segment the way spec.md 4.2 lays them out, in
\* every mode, with EXL as the CPU has it in this state (an access or an
\* exception sets it, ERET clears it).  ERL is left clear: with ERL set the
\* code leaves kuseg unmapped, which spec.md does not say.
TranslationMatchesSpec ==
    \A ksu \in {"kernel", "supervisor", "user"}, seg \in Segs :
        LET st == [ksu |-> ksu, exl |-> exl, erl |-> FALSE]
        IN  convert_addr(st, seg, 0, "TLB").res = SpecRoute(st, seg)
=============================================================================
