---------------------------------- MODULE Alu ----------------------------------
(***************************************************************************)
(* The data computations of msim's execute() (src/cpu/cpu.c) at a        *)
(* reduced width.  The code works on uint32_t with SBIT the sign bit;     *)
(* here a word is Width bits, SBIT = 2^(Width-1), a doubleword 2 * Width  *)
(* bits, and a "byte" Width \div 4 bits, so every mask, shift and carry   *)
(* of the code keeps its role.                                             *)
(*                                                                         *)
(* Pure operators translate the cases that compute a result: ADD, ADDI,   *)
(* SUB with their overflow test, CLZ and CLO with their loops, the         *)
(* unaligned LWL, LWR, SWL, SWR word patches with their tables, the LB/LH  *)
(* extensions, the branch, jump and trap conditions with the pc_next and   *)
(* pca each branch case computes.  Each is checked against a definition   *)
(* of what the instruction means, over every operand.  HI and LO are      *)
(* state: MULT, MULTU, MADD, MADDU, MSUB, MSUBU (through multiply()), DIV, *)
(* DIVU, MTHI                                                              *)
(* and MTLO update them, and a ghost holds the doubleword the instruction  *)
(* set says HI:LO holds.                                                   *)
(*                                                                         *)
(* DIV of the most negative word by -1 is undefined behaviour in C (the    *)
(* quotient overflows int32_t).  The outcomes a build produces are an x86  *)
(* idiv trap, which kills the simulator (SIGFPE), or the wrapped quotient; *)
(* both are choices here, and the trap ends the behaviour.                 *)
(***************************************************************************)
EXTENDS Integers

CONSTANT Width   \* bits per word (32 in the code)

ASSUME Width \in {4, 8} /\ Width % 4 = 0

WordMod  == 2 ^ Width
DWordMod == WordMod * WordMod
Word     == 0 .. WordMod - 1
SBIT     == 2 ^ (Width - 1)
ByteBits == Width \div 4
ByteMod  == 2 ^ ByteBits
Bytes    == 0 .. 3                     \* byte lanes of a word, little-endian

\* (int32_t) x and its inverse
Signed(x)   == IF x >= SBIT THEN x - WordMod ELSE x
Unsigned(i) == i % WordMod
\* x & SBIT
SignBit(x)  == x >= SBIT
AbsVal(i)   == IF i < 0 THEN -i ELSE i

-----------------------------------------------------------------------------
(* Overflow-checking additions: [res, rd] with rd, the destination's old   *)
(* value, left alone on Ov.                                                 *)

\* ADD: rd = rs + rt unless the operands agree in sign and the sum does not
opcADD(rd, rs, rt) ==
    LET utmp32 == (rs + rt) % WordMod
    IN  IF SignBit(rs) = SignBit(rt) /\ SignBit(rs) # SignBit(utmp32)
        THEN [res |-> "Ov", rd |-> rd]
        ELSE [res |-> "None", rd |-> utmp32]

\* ADDI: imm is the sign-extended immediate (decode_instr's ii.imm)
opcADDI(rt, rs, imm) ==
    LET utmp32 == (rs + imm) % WordMod
    IN  IF SignBit(rs) = SignBit(imm) /\ SignBit(imm) # SignBit(utmp32)
        THEN [res |-> "Ov", rd |-> rt]
        ELSE [res |-> "None", rd |-> utmp32]

\* A variant of SUB with ADD's sign test
opcSUB_add_test(rd, rs, rt) ==
    LET utmp32 == (rs - rt) % WordMod
    IN  IF SignBit(rs) = SignBit(rt) /\ SignBit(rs) # SignBit(utmp32)
        THEN [res |-> "Ov", rd |-> rd]
        ELSE [res |-> "None", rd |-> utmp32]

\* SUB: overflow when the operands differ in sign and the result's sign
\* differs from rs
opcSUB(rd, rs, rt) ==
    LET utmp32 == (rs - rt) % WordMod
    IN  IF SignBit(rs) # SignBit(rt) /\ SignBit(rs) # SignBit(utmp32)
        THEN [res |-> "Ov", rd |-> rd]
        ELSE [res |-> "None", rd |-> utmp32]

-----------------------------------------------------------------------------
(* CLZ and CLO: the while loops, shifting utmp32b left until its top bit   *)
(* changes or Width bits were counted.                                     *)

\* A variant whose loop stops one bit early
RECURSIVE clz_loop_short(_, _)
clz_loop_short(b, n) ==
    IF ~SignBit(b) /\ n < Width - 1 THEN clz_loop_short((2 * b) % WordMod, n + 1) ELSE n

RECURSIVE clz_loop(_, _)
clz_loop(b, n) ==
    IF ~SignBit(b) /\ n < Width THEN clz_loop((2 * b) % WordMod, n + 1) ELSE n

RECURSIVE clo_loop(_, _)
clo_loop(b, n) ==
    IF SignBit(b) /\ n < Width THEN clo_loop((2 * b) % WordMod, n + 1) ELSE n

opcCLZ(rs) == clz_loop(rs, 0)
opcCLO(rs) == clo_loop(rs, 0)

-----------------------------------------------------------------------------
(* Unaligned word patches.  A table entry's mask is the set of byte lanes *)
(* of the register (loads) or memory word (stores) that are kept, and its  *)
(* shift counts bytes: 0x00ffffff, 24 is [mask |-> {0,1,2}, shift |-> 3]. *)

shift_tab_left        == << [mask |-> {0, 1, 2}, shift |-> 3], [mask |-> {0, 1}, shift |-> 2],
                            [mask |-> {0}, shift |-> 1],       [mask |-> {}, shift |-> 0] >>
shift_tab_right       == << [mask |-> {}, shift |-> 0],        [mask |-> {3}, shift |-> 1],
                            [mask |-> {2, 3}, shift |-> 2],    [mask |-> {1, 2, 3}, shift |-> 3] >>
shift_tab_left_store  == << [mask |-> {1, 2, 3}, shift |-> 3], [mask |-> {2, 3}, shift |-> 2],
                            [mask |-> {3}, shift |-> 1],       [mask |-> {}, shift |-> 0] >>
shift_tab_right_store == << [mask |-> {}, shift |-> 0],        [mask |-> {0}, shift |-> 1],
                            [mask |-> {0, 1}, shift |-> 2],    [mask |-> {0, 1, 2}, shift |-> 3] >>

\* the word as a function of its byte lanes, and back
Lane(x, i)  == (x \div ByteMod ^ i) % ByteMod
FromLanes(f) == LET RECURSIVE Acc(_) Acc(i) == IF i < 0 THEN 0 ELSE Acc(i - 1) + f[i] * ByteMod ^ i
                IN  Acc(3)
\* x & mask, x << 8s, x >> 8s
AndMask(x, m)  == FromLanes([i \in Bytes |-> IF i \in m THEN Lane(x, i) ELSE 0])
ShiftLeft(x, s)  == (x * ByteMod ^ s) % WordMod
ShiftRight(x, s) == x \div ByteMod ^ s
\* a | b where a and b occupy disjoint lanes
OrDisjoint(a, b) == a + b

\* A variant of LWR that indexes its table from the other end (a
\* big-endian table used on a little-endian machine)
opcLWR_swapped(rt, w, index) ==
    LET t == shift_tab_right[(3 - index) + 1]
    IN  OrDisjoint(AndMask(rt, t.mask), AndMask(ShiftRight(w, t.shift), Bytes \ t.mask))

\* LWL: rt &= mask; rt |= w << shift (w is the aligned word, index = addr & 3)
opcLWL(rt, w, index) ==
    LET t == shift_tab_left[index + 1]
    IN  OrDisjoint(AndMask(rt, t.mask), ShiftLeft(w, t.shift))

\* LWR: rt &= mask; rt |= (w >> shift) & ~mask
opcLWR(rt, w, index) ==
    LET t == shift_tab_right[index + 1]
    IN  OrDisjoint(AndMask(rt, t.mask), AndMask(ShiftRight(w, t.shift), Bytes \ t.mask))

\* A variant of SWL that indexes its table from the other end
opcSWL_swapped(rt, w, index) ==
    LET t == shift_tab_left_store[(3 - index) + 1]
    IN  OrDisjoint(AndMask(w, t.mask), AndMask(ShiftRight(rt, t.shift), Bytes \ t.mask))

\* SWL: the word written back: (w & mask) | ((rt >> shift) & ~mask)
opcSWL(rt, w, index) ==
    LET t == shift_tab_left_store[index + 1]
    IN  OrDisjoint(AndMask(w, t.mask), AndMask(ShiftRight(rt, t.shift), Bytes \ t.mask))

\* SWR: (w & mask) | (rt << shift)
opcSWR(rt, w, index) ==
    LET t == shift_tab_right_store[index + 1]
    IN  OrDisjoint(AndMask(w, t.mask), ShiftLeft(rt, t.shift))
-----------------------------------------------------------------------------
(* Branches, jumps and traps.  Addresses count instruction words, so the  *)
(* code's << TARGET_SHIFT (2) and + 4 / + 8 are a shift of 0 and + 1 /    *)
(* + 2; they wrap at the word.  A jump keeps the top RegionBits of        *)
(* pc_next (TARGET_COMB) and takes the rest from the instruction.         *)

RegionBits == 1
RegionMod  == 2 ^ (Width - RegionBits)

\* The branch kinds: the condition, the likely form (annuls its slot when
\* not taken) and the link form (writes r31).  BCzF(L) and BCzT(L), when
\* the coprocessor test passes, are branches on a constant condition:
\* "always false" (CF) and "always true" (CT).
Conds   == {"EQ", "NE", "GEZ", "GTZ", "LEZ", "LTZ", "CF", "CT"}
Linking == {"GEZ", "LTZ"}                 \* BGEZAL(L), BLTZAL(L)
Branches == {b \in [cond : Conds, likely : BOOLEAN, link : BOOLEAN] : b.link => b.cond \in Linking}
Jumps    == {"J", "JAL", "JR", "JALR"}

\* A variant of the BGEZ test that takes a zero operand as negative
branch_taken_gez_strict(cond, rs, rt) ==
    CASE cond = "CF"  -> FALSE
      [] cond = "CT"  -> TRUE
      [] cond = "EQ"  -> rs = rt
      [] cond = "NE"  -> rs # rt
      [] cond = "GEZ" -> Signed(rs) > 0
      [] cond = "GTZ" -> Signed(rs) > 0
      [] cond = "LEZ" -> Signed(rs) <= 0
      [] cond = "LTZ" -> SignBit(rs)

\* The branch conditions: equality, the sign bit (urrs & SBIT), and the
\* signed comparisons with zero
branch_taken(cond, rs, rt) ==
    CASE cond = "CF"  -> FALSE
      [] cond = "CT"  -> TRUE
      [] cond = "EQ"  -> rs = rt
      [] cond = "NE"  -> rs # rt
      [] cond = "GEZ" -> ~SignBit(rs)
      [] cond = "GTZ" -> Signed(rs) > 0
      [] cond = "LEZ" -> Signed(rs) <= 0
      [] cond = "LTZ" -> SignBit(rs)

\* A branch case: link first (BGEZAL: pc + 8, BLTZAL: pc_next + 4), then
\* if taken pca = pc_next + offset and branch = BRANCH_COND, else a likely
\* branch skips its slot (pc_next += 4; pca = pc_next + 4); otherwise pca
\* keeps execute's default pc_next + 4
opcBranch(b, taken, off, pc, pc_next) ==
    [link    |-> IF ~b.link THEN {}
                 ELSE IF b.cond = "GEZ" THEN {(pc + 2) % WordMod} ELSE {(pc_next + 1) % WordMod},
     cond    |-> taken,
     pc_next |-> IF taken \/ ~b.likely THEN pc_next ELSE (pc_next + 1) % WordMod,
     pca     |-> CASE taken    -> (pc_next + off) % WordMod
                   [] b.likely -> (pc_next + 2) % WordMod
                   [] OTHER    -> (pc_next + 1) % WordMod]

\* J, JAL: pca = (pc_next & TARGET_COMB) | index; JR, JALR: pca = rs;
\* JAL links r31, JALR rd, both with pc_next + 4
opcJump(j, index, rs, pc_next) ==
    [link    |-> IF j \in {"JAL", "JALR"} THEN {(pc_next + 1) % WordMod} ELSE {},
     cond    |-> TRUE,
     pc_next |-> pc_next,
     pca     |-> IF j \in {"J", "JAL"} THEN (pc_next - (pc_next % RegionMod)) + index ELSE rs]

\* TRAP(x): the conditions of TEQ .. TNEI; imm is the sign-extended
\* immediate, compared unsigned by TGEIU and TLTIU
TrapOps == {"TEQ", "TNE", "TGE", "TGEU", "TLT", "TLTU"}
trap_taken(op, rs, rt) ==
    CASE op = "TEQ"  -> rs = rt
      [] op = "TNE"  -> rs # rt
      [] op = "TGE"  -> Signed(rs) >= Signed(rt)
      [] op = "TGEU" -> rs >= rt
      [] op = "TLT"  -> Signed(rs) < Signed(rt)
      [] op = "TLTU" -> rs < rt

\* LB, LBU, LH, LHU: (v & 0x80) ? (v | 0xffffff00) : (v & 0xff), and the
\* halfword form; size counts bytes
opcLoadExtend(v, size, signed) ==
    LET top == 2 ^ (size * ByteBits)
    IN  IF signed /\ (v \div (top \div 2)) % 2 = 1
        THEN (v % top) + (WordMod - top)
        ELSE v % top

-----------------------------------------------------------------------------
(* HI and LO *)

VARIABLES
    hireg, loreg,   \* cpu->hireg, cpu->loreg
    trapped,        \* the host process died on a division trap
    acc             \* ghost: HI:LO as the instruction set defines it

vars == <<hireg, loreg, trapped, acc>>

\* HI:LO as one doubleword (utmp64 = hireg << 32 | loreg)
HiLo(h, l) == h * WordMod + l

\* A variant of multiply() that splits the product without reducing it
\* to 64 bits (a signed product stays negative)
multiply_unreduced(a, b, sign) ==
    IF a = 0 \/ b = 0 THEN [hi |-> 0, lo |-> 0]
    ELSE LET r == IF sign THEN Signed(a) * Signed(b) ELSE a * b
         IN  [hi |-> r \div WordMod, lo |-> r % WordMod]

\* multiply(): the 64-bit product of a and b, signed or unsigned, into
\* HI and LO; zero operands take the quick test
multiply(a, b, sign) ==
    IF a = 0 \/ b = 0 THEN [hi |-> 0, lo |-> 0]
    ELSE LET r == IF sign THEN Signed(a) * Signed(b) ELSE a * b
             u == r % DWordMod
         IN  [hi |-> u \div WordMod, lo |-> u % WordMod]

\* C's / and % on int32_t: truncation toward zero
CDiv(x, y) == IF (x < 0) = (y < 0) THEN AbsVal(x) \div AbsVal(y) ELSE -(AbsVal(x) \div AbsVal(y))
CMod(x, y) == x - CDiv(x, y) * y

\* DIV: 0 and 0 for a zero divisor; the most negative word divided by -1
\* is the undefined case: a trap, or the wrapped quotient with remainder 0
opcDIV(rs, rt) ==
    CASE rt = 0 -> {[trap |-> FALSE, hi |-> 0, lo |-> 0]}
      [] rs = SBIT /\ rt = WordMod - 1 ->
            {[trap |-> TRUE, hi |-> hireg, lo |-> loreg], [trap |-> FALSE, hi |-> 0, lo |-> SBIT]}
      [] OTHER -> {[trap |-> FALSE, hi |-> Unsigned(CMod(Signed(rs), Signed(rt))),
                                    lo |-> Unsigned(CDiv(Signed(rs), Signed(rt)))]}

\* DIVU
opcDIVU(rs, rt) ==
    IF rt = 0 THEN [hi |-> 0, lo |-> 0] ELSE [hi |-> rs % rt, lo |-> rs \div rt]

\* The instruction set's division: quotient and remainder with
\* a = q * b + r, |r| < |b|, r zero or of the sign of a, reduced to words
IsaDiv(a, b) ==
    LET qr == CHOOSE p \in (-WordMod .. WordMod) \X (-WordMod .. WordMod) :
                  /\ a = p[1] * b + p[2]
                  /\ AbsVal(p[2]) < AbsVal(b)
                  /\ p[2] = 0 \/ (p[2] < 0) = (a < 0)
    IN  HiLo(Unsigned(qr[2]), Unsigned(qr[1]))

\* The product the instruction set accumulates
IsaProduct(a, b, sign) == IF sign THEN Signed(a) * Signed(b) ELSE a * b

Init ==
    /\ hireg = 0 /\ loreg = 0     \* cpu_init's memset
    /\ trapped = FALSE
    /\ acc = 0

\* MULT, MULTU
opcMULT(a, b, sign) ==
    LET p == multiply(a, b, sign)
    IN  /\ hireg' = p.hi /\ loreg' = p.lo
        /\ acc' = IsaProduct(a, b, sign) % DWordMod

\* A variant of MADD that reads HI:LO after multiply() overwrote them
opcMADD_late(a, b, sign, sub) ==
    LET p == multiply(a, b, sign)
        s == IF sub THEN HiLo(p.hi, p.lo) - HiLo(p.hi, p.lo) ELSE 2 * HiLo(p.hi, p.lo)
    IN  /\ hireg' = (s % DWordMod) \div WordMod /\ loreg' = s % WordMod
        /\ acc' = (IF sub THEN acc - IsaProduct(a, b, sign) ELSE acc + IsaProduct(a, b, sign)) % DWordMod

\* MADD, MADDU (sub = FALSE), MSUB, MSUBU (sub = TRUE): utmp64 = HI:LO,
\* multiply(), then utmp64 +/-= HI:LO and split it back
opcMADD(a, b, sign, sub) ==
    LET utmp64 == HiLo(hireg, loreg)
        p      == multiply(a, b, sign)
        s      == (IF sub THEN utmp64 - HiLo(p.hi, p.lo) ELSE utmp64 + HiLo(p.hi, p.lo)) % DWordMod
    IN  /\ hireg' = s \div WordMod /\ loreg' = s % WordMod
        /\ acc' = (IF sub THEN acc - IsaProduct(a, b, sign) ELSE acc + IsaProduct(a, b, sign)) % DWordMod

\* DIV (a zero divisor leaves HI:LO unpredictable to the instruction set;
\* after a trap there is no HI:LO to compare)
DIV(a, b) ==
    \E o \in opcDIV(a, b) :
        /\ trapped' = o.trap
        /\ hireg' = o.hi /\ loreg' = o.lo
        /\ acc' = IF b = 0 \/ o.trap THEN HiLo(o.hi, o.lo) ELSE IsaDiv(Signed(a), Signed(b)) % DWordMod

DIVU(a, b) ==
    LET o == opcDIVU(a, b)
    IN  /\ hireg' = o.hi /\ loreg' = o.lo
        /\ acc' = IF b = 0 THEN HiLo(o.hi, o.lo) ELSE IsaDiv(a, b)

\* MTHI, MTLO
opcMTHI(a) == /\ hireg' = a /\ acc' = HiLo(a, acc % WordMod) /\ UNCHANGED loreg
opcMTLO(a) == /\ loreg' = a /\ acc' = HiLo(acc \div WordMod, a) /\ UNCHANGED hireg

\* One HI/LO instruction per step, until the host traps
Next ==
    /\ ~trapped
    /\ \E a, b \in Word :
          \/ \E sign \in BOOLEAN : opcMULT(a, b, sign) /\ UNCHANGED trapped
          \/ \E sign, sub \in BOOLEAN : opcMADD(a, b, sign, sub) /\ UNCHANGED trapped
          \/ DIV(a, b)
          \/ DIVU(a, b) /\ UNCHANGED trapped
          \/ opcMTHI(a) /\ UNCHANGED trapped
          \/ opcMTLO(a) /\ UNCHANGED trapped

Spec == Init /\ [][Next]_vars

-----------------------------------------------------------------------------
(* Properties *)

TypeOK ==
    /\ hireg \in Word /\ loreg \in Word
    /\ trapped \in BOOLEAN /\ acc \in 0 .. DWordMod - 1

\* After any sequence of multiplies, multiply-accumulates, divisions and
\* moves to HI/LO, HI:LO holds what the instruction set defines: the
\* sign-extension of multiply(), MADD/MSUB's read of HI:LO before
\* multiply() overwrites it, and the 64-bit carry between LO and HI.
HiLoIsIsa == HiLo(hireg, loreg) = acc

\* every operand of the check below (a constant, evaluated once)
AddSubAllOperands ==
    \A rd, x, y \in Word :
        LET Isa(s) == IF s \in -SBIT .. SBIT - 1 THEN [res |-> "None", rd |-> Unsigned(s)]
                                                ELSE [res |-> "Ov", rd |-> rd]
        IN  /\ opcADD(rd, x, y) = Isa(Signed(x) + Signed(y))
            /\ opcADDI(rd, x, y) = Isa(Signed(x) + Signed(y))
            /\ opcSUB(rd, x, y) = Isa(Signed(x) - Signed(y))

\* While the simulator runs, ADD, ADDI and SUB raise Ov exactly when the
\* signed result does not fit a word, and otherwise write the result; on
\* Ov the destination keeps its value.
OverflowMatchesIsa == ~trapped => AddSubAllOperands

\* every operand of the check below (a constant, evaluated once)
CountLeadingAllOperands ==
    \A x \in Word :
        LET Length(v) == CHOOSE k \in 0 .. Width : v < 2 ^ k /\ (k = 0 \/ v >= 2 ^ (k - 1))
        IN  /\ opcCLZ(x) = Width - Length(x)
            /\ opcCLO(x) = Width - Length(WordMod - 1 - x)

\* While the simulator runs, CLZ counts the zeros above the highest set
\* bit, Width for zero, and CLO the ones above the highest clear bit.
CountLeadingMatchesIsa == ~trapped => CountLeadingAllOperands

\* every operand of the check below (a constant, evaluated once)
LoadsAllOperands ==
    /\ \A size \in {1, 2}, signed \in BOOLEAN : \A v \in 0 .. 2 ^ (size * ByteBits) - 1 :
          LET top == 2 ^ (size * ByteBits)
          IN  opcLoadExtend(v, size, signed) = Unsigned(IF signed /\ v >= top \div 2 THEN v - top ELSE v)
    /\ \A a \in Bytes, w0, w1, r \in Word :
           LET m(b)   == IF b < 4 THEN Lane(w0, b) ELSE Lane(w1, b - 4)
               word(b) == IF b < 4 THEN w0 ELSE w1
               half   == opcLWR(r, word(a), a % 4)
           IN  opcLWL(half, word(a + 3), (a + 3) % 4) = FromLanes([i \in Bytes |-> m(a + i)])

\* While the simulator runs, every load leaves in rt what the instruction
\* set defines: LB and LH sign-extend, LBU and LHU zero-extend, and the
\* unaligned-load idiom, LWR at an address a and LWL at a + 3, loads the
\* four bytes a .. a + 3 (little-endian), whatever the register held and
\* whichever of the two words a and a + 3 fall in.
LoadsMatchIsa == ~trapped => LoadsAllOperands

\* every operand of the check below (a constant, evaluated once)
StorePairAllOperands ==
    \A a \in Bytes, w0, w1, r \in Word :
        LET m(b)   == IF b < 4 THEN Lane(w0, b) ELSE Lane(w1, b - 4)
            Store(ws, b, v) ==     \* the words ws after writing word v at byte b
                IF b < 4 THEN <<v, ws[2]>> ELSE <<ws[1], v>>
            Word0(ws, b) == IF b < 4 THEN ws[1] ELSE ws[2]
            s1 == Store(<<w0, w1>>, a, opcSWR(r, Word0(<<w0, w1>>, a), a % 4))
            s2 == Store(s1, a + 3, opcSWL(r, Word0(s1, a + 3), (a + 3) % 4))
            want(b) == IF b \in a .. a + 3 THEN Lane(r, b - a) ELSE m(b)
        IN  s2 = <<FromLanes([i \in Bytes |-> want(i)]), FromLanes([i \in Bytes |-> want(i + 4)])>>

\* While the simulator runs, the unaligned-store idiom: SWR at a and SWL at a + 3 write the
\* register's bytes to a .. a + 3 and leave every other byte of the two
\* words alone.
UnalignedStorePair == ~trapped => StorePairAllOperands

\* The instruction set's branch condition, and the next two instructions
\* executed after a branch at pc that is not itself in a delay slot
IsaTaken(cond, rs, rt) ==
    CASE cond = "CF" -> FALSE [] cond = "CT" -> TRUE
      [] cond = "EQ" -> rs = rt [] cond = "NE" -> rs # rt
      [] cond = "GEZ" -> Signed(rs) >= 0 [] cond = "GTZ" -> Signed(rs) > 0
      [] cond = "LEZ" -> Signed(rs) <= 0 [] cond = "LTZ" -> Signed(rs) < 0
IsaNext(likely, taken, target, pc) ==
    LET at(k) == (pc + k) % WordMod
    IN  CASE taken  -> <<at(1), target>>
          [] likely -> <<at(2), at(3)>>
          [] OTHER  -> <<at(1), at(2)>>

\* every operand of the check below (a constant, evaluated once)
BranchAllOperands ==
    /\ \A c \in Conds, rs, rt \in Word : branch_taken(c, rs, rt) = IsaTaken(c, rs, rt)
    /\ \A b \in Branches, taken \in BOOLEAN, off, pc \in Word :
          LET r == opcBranch(b, taken, off, pc, (pc + 1) % WordMod)
          IN  /\ <<r.pc_next, r.pca>> = IsaNext(b.likely, taken, (pc + 1 + off) % WordMod, pc)
              /\ r.cond = taken
              /\ r.link = IF b.link THEN {(pc + 2) % WordMod} ELSE {}
    /\ \A j \in Jumps, index \in 0 .. RegionMod - 1, rs, pc \in Word :
          LET r == opcJump(j, index, rs, (pc + 1) % WordMod)
              region == ((pc + 1) % WordMod) \div RegionMod
          IN  /\ <<r.pc_next, r.pca>> = IsaNext(FALSE, TRUE,
                     IF j \in {"J", "JAL"} THEN region * RegionMod + index ELSE rs, pc)
              /\ r.link = IF j \in {"JAL", "JALR"} THEN {(pc + 2) % WordMod} ELSE {}
    /\ \A op \in TrapOps, rs, rt \in Word :
          LET x == IF op \in {"TGEU", "TLTU"} THEN rs ELSE Signed(rs)
              y == IF op \in {"TGEU", "TLTU"} THEN rt ELSE Signed(rt)
          IN  trap_taken(op, rs, rt) = CASE op = "TEQ" -> x = y [] op = "TNE" -> x # y
                                          [] op \in {"TGE", "TGEU"} -> x >= y
                                          [] op \in {"TLT", "TLTU"} -> x < y

\* While the simulator runs, every branch, jump and trap outside a delay
\* slot does what the instruction set defines: the condition (on the sign
\* bit or the signed value), the delay slot, the target relative to the
\* slot, the annulled slot of a not-taken likely branch, the link address
\* pc + 8 (whether computed from pc or from pc_next), and J's region.
BranchMatchesIsa == ~trapped => BranchAllOperands

\* spec.md section 7: whatever a guest program executes, its faults never
\* abort the simulator.  DIV divides the registers as int32_t without a test
\* for the most negative word by -1, which traps on the host's divide.
SimulatorSurvives == ~trapped
=============================================================================
