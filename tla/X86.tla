-------------------------------- MODULE X86 --------------------------------
(***************************************************************************)
(* The part of an x86-64 processor the generated code uses, at the scale   *)
(* of Words.  It is outside the repository: the meaning of instructions is *)
(* the architecture's, as the code relies on it.                           *)
(*                                                                         *)
(* The stack is a sequence of 8-byte slots, the last one at rsp; rbp is    *)
(* the number of slots below its own.  flags are those of comparing x with *)
(* y, words of width w.                                                    *)
(***************************************************************************)
EXTENDS InterpretOps

\* Operands: a register, a constant, slots from rsp or rbp, linear memory at
\* the sum of registers and an offset, a global.  rsi holds the address of
\* linear memory, which is 0.
Operand(k, r, n) == [k |-> k, r |-> r, n |-> n]
R(r)      == Operand("reg", r, 0)
X(r)      == Operand("xmm", r, 0)
N(n)      == Operand("imm", "", n)
Stk(n)    == Operand("rsp", "", n)
Frame(n)  == Operand("rbp", "", n)
Lin(rs, n) == Operand("lin", rs, n)
Glob(n)   == Operand("glob", "", n)
None      == Operand("none", "", 0)

NoJump == -1
\* mnemonic, width of the operation, source, destination (also the first
\* operand), second source of a vector instruction, immediate, jump target.
I5(i, w, s, s1, d, imm) == [i |-> i, w |-> w, s |-> s, s1 |-> s1, d |-> d, imm |-> imm, to |-> NoJump]
I3(i, w, s, d) == I5(i, w, s, None, d, <<>>)
I2(i, w, d)    == I5(i, w, None, None, d, <<>>)
I1(i)          == I5(i, 0, None, None, None, <<>>)
Jump(i, to)    == [I1(i) EXCEPT !.to = to]

Registers == {"rax", "rcx", "rdx", "rbx", "rsi", "rdi", "r8", "r9"}
Xmms      == {"xmm0", "xmm1", "xmm2", "xmm3"}
Junk      == 43690          \* what a register or a slot nobody set holds
JunkVector == Vector(Junk, Junk)

Flags(x, y, w) == [x |-> x, y |-> y, w |-> w]
Holds(cc, f) == Relop(cc, f.x, f.y, f.w)

\* Bytes an instruction reads or writes in memory.
AccessBytes(ins) == CASE ins.i \in {"vpmovsx", "vpmovzx"} -> 8
                      [] ins.i \in {"vpabs", "vpshufd", "vpsrldq"} -> 16 [] OTHER -> ins.w

-----------------------------------------------------------------------------
\* Reading and writing operands of w bytes.  A 32-bit write to a register
\* clears its upper half; to memory or a narrower register it does not.
SlotIndex(m, x) == IF x.k = "rsp" THEN Len(m.st) - x.n ELSE m.rbp + x.n
EffectiveAddress(m, x) == FoldLeft(LAMBDA a, r : a + m.regs[r], x.n, x.r)

Fetch(m, x, w) ==
  CASE x.k = "reg" -> Wrap(m.regs[x.r], w)
    [] x.k = "imm" -> Wrap(x.n, w)
    [] x.k \in {"rsp", "rbp"} -> Wrap(m.st[SlotIndex(m, x)], w)
    [] x.k = "lin" -> IF EffectiveAddress(m, x) < 0 THEN 0
                      ELSE FromBytes(ReadBytes(m.store.mem, EffectiveAddress(m, x), w))
    [] x.k = "glob" -> Wrap(m.store.glob[x.n], w)
    [] x.k = "xmm" -> FromBytes(SubSeq(m.xmm[x.r], 1, w))

Merge(old, v, w) == old - Wrap(old, w) + v
Put(m, x, w, v) ==
  CASE x.k = "reg" -> [m EXCEPT !.regs[x.r] = IF w = 4 THEN v ELSE Merge(@, v, w)]
    [] x.k \in {"rsp", "rbp"} -> [m EXCEPT !.st[SlotIndex(m, x)] = Merge(@, v, w)]
    [] x.k = "lin" -> [m EXCEPT !.store.mem = WriteBytes(@, EffectiveAddress(m, x), ToBytes(v, w))]
    [] x.k = "glob" -> [m EXCEPT !.store.glob[x.n] = Merge(@, v, w)]
    [] x.k = "xmm" -> [m EXCEPT !.xmm[x.r] = ToBytes(v, w) \o [i \in 1..(16 - w) |-> 0]]

\* Vectors: 16 bytes, or the first w of them from memory.
FetchV(m, x, w) ==
  CASE x.k = "xmm" -> m.xmm[x.r]
    [] x.k \in {"rsp", "rbp"} -> LET n == SlotIndex(m, x) IN
                                 IF w = 16 THEN Vector(m.st[n], m.st[n - 1])
                                 ELSE Vector(Wrap(m.st[n], w), 0)
    [] x.k = "lin" -> ReadBytes(m.store.mem, EffectiveAddress(m, x), w) \o [i \in 1..(16 - w) |-> 0]
    [] x.k = "glob" -> m.store.glob[x.n]
PutV(m, x, v) ==
  CASE x.k = "xmm" -> [m EXCEPT !.xmm[x.r] = v]
    [] x.k \in {"rsp", "rbp"} -> LET n == SlotIndex(m, x) IN
                                 [m EXCEPT !.st[n] = Low64(v), !.st[n - 1] = High64(v)]
    [] x.k = "lin" -> [m EXCEPT !.store.mem = WriteBytes(@, EffectiveAddress(m, x), v)]
    [] x.k = "glob" -> [m EXCEPT !.store.glob[x.n] = v]

\* The page before linear memory is accessible, what follows it is not.
Faults(m, ins, x) == x.k = "lin" /\ ins.i # "lea" /\ ~InBounds(m.store.mem, EffectiveAddress(m, x), AccessBytes(ins))

-----------------------------------------------------------------------------
Alu == {"add", "sub", "and", "or", "xor", "imul"}
AluResult(i, x, y, w) ==
  CASE i = "add" -> Wrap(x + y, w) [] i = "sub" -> Wrap(x - y, w) [] i = "imul" -> Times(x, y, w)
    [] i = "and" -> x & y [] i = "or" -> x | y [] i = "xor" -> x ^^ y
Shifts == {"shl", "shr", "sar", "rol", "ror"}
ShiftResult(i, x, n, w) ==
  CASE i = "shl" -> ShiftL(x, n, w) [] i = "shr" -> ShiftR(x, n) [] i = "sar" -> ShiftRS(x, n, w)
    [] i = "rol" -> RotateL(x, n, w) [] i = "ror" -> RotateR(x, n, w)
Unary == {"not", "neg", "lzcnt", "tzcnt", "popcnt"}
UnaryResult(i, x, w) == CASE i = "not" -> Complement(x, w) [] i = "neg" -> Negate(x, w)
                          [] i = "lzcnt" -> LeadingZeros(x, w) [] i = "tzcnt" -> TrailingZeros(x, w)
                          [] i = "popcnt" -> PopCount(x, w)

\* rax is divided by d; rdx must hold its sign or zero.
DivideFaults(m, ins) == LET y == Fetch(m, ins.d, ins.w)
                            x == Fetch(m, R("rax"), ins.w) IN
                        IF ins.i = "div" THEN y = 0 ELSE DivTraps("div_s", x, y, ins.w)
Divide(m, ins) ==
  LET y == Fetch(m, ins.d, ins.w)
      x == Fetch(m, R("rax"), ins.w)
      q == IF ins.i = "div" THEN x \div y ELSE Wrap(Quotient(Signed(x, ins.w), Signed(y, ins.w)), ins.w)
      r == IF ins.i = "div" THEN x % y ELSE Wrap(Remainder(Signed(x, ins.w), Signed(y, ins.w)), ins.w) IN
  Put(Put(m, R("rax"), ins.w, q), R("rdx"), ins.w, r)

\* sub and add of rsp move slots.
DropSlots(m, n) == [m EXCEPT !.st = SubSeq(@, 1, Len(@) - n)]
MakeSlots(m, n) == [m EXCEPT !.st = @ \o [i \in 1..n |-> Junk]]

ScalarInstructions == Alu \cup Shifts \cup Unary
  \cup {"mov", "movsx", "movzx", "cmp", "test", "setcc", "cmovcc", "bsr", "bsf", "cdq", "idiv", "div",
        "push", "pop", "lea", "addrsp", "subrsp", "enter", "movrbprsp", "poprbp", "nop"}

Scalar(m, ins) ==
  LET w == ins.w
      i == ins.i
      y == Fetch(m, ins.s, w)
      x == Fetch(m, ins.d, w) IN
  CASE i = "mov" -> Put(m, ins.d, w, y)
    [] i = "movsx" -> Put(m, ins.d, ins.imm[1], SignExtend(y, w, ins.imm[1]))
    [] i = "movzx" -> Put(m, ins.d, 4, y)
    [] i \in Alu -> LET r == AluResult(i, x, y, w) IN
                    [Put(m, ins.d, w, r) EXCEPT !.flags = IF i = "sub" THEN Flags(x, y, w) ELSE Flags(r, 0, w)]
    [] i \in Shifts -> LET n == (IF ins.s.k = "imm" THEN ins.s.n ELSE m.regs["rcx"]) % Bits(w) IN
                       Put(m, ins.d, w, ShiftResult(i, x, n, w))
    [] i \in Unary -> Put(m, ins.d, w, UnaryResult(i, x, w))
    [] i = "cmp" -> [m EXCEPT !.flags = Flags(x, y, w)]
    [] i = "test" -> [m EXCEPT !.flags = Flags(x & y, 0, w)]
    [] i = "setcc" -> Put(m, ins.d, 1, AsBit(Holds(ins.imm[1], m.flags)))
    [] i = "cmovcc" -> Put(m, ins.d, w, IF Holds(ins.imm[1], m.flags) THEN y ELSE x)
    [] i \in {"bsr", "bsf"} ->   \* leaves the destination alone when the source is zero
         [Put(m, ins.d, w, IF y = 0 THEN x ELSE IF i = "bsr" THEN HighestBit(y, w) ELSE LowestBit(y, w))
            EXCEPT !.flags = Flags(y, 0, w)]
    [] i = "cdq" -> Put(m, R("rdx"), w, IF SignBit(m.regs["rax"] % Mod(w), w) THEN Ones(w) ELSE 0)
    [] i \in {"idiv", "div"} -> Divide(m, ins)
    [] i = "push" -> [m EXCEPT !.st = Append(@, Fetch(m, ins.d, 8))]
    [] i = "pop" -> Put(DropSlots(m, 1), ins.d, 8, Last(m.st))
    [] i = "lea" -> Put(m, ins.d, 8, Wrap(EffectiveAddress(m, ins.s), 8))
    [] i = "addrsp" -> DropSlots(m, ins.s.n)
    [] i = "subrsp" -> MakeSlots(m, ins.s.n)
    [] i = "enter" -> [m EXCEPT !.st = Append(@, m.rbp), !.rbp = Len(m.st) + 1]
    [] i = "movrbprsp" -> [m EXCEPT !.st = SubSeq(@, 1, m.rbp)]
    [] i = "poprbp" -> [m EXCEPT !.st = Front(@), !.rbp = Last(m.st)]
    [] i = "nop" -> m

-----------------------------------------------------------------------------
(* Vector instructions: d = s1 op s, on lanes of w bytes.                  *)

HighProduct(x, y, w, signed) == Wrap((Signs(x, w, signed) * Signs(y, w, signed)) \div Mod(w), w)
\* VPMULHRSW
RoundedProduct(x, y, w) ==
  Wrap(((Signed(x, w) * Signed(y, w)) \div (Mod(w) \div 4) + 1) \div 2, w)
LaneResult(o, x, y, w) ==
  CASE o = "vpcmpeq" -> LaneMask(x = y, w)
    [] o = "vpcmpgt" -> LaneMask(Signed(x, w) > Signed(y, w), w)
    [] o = "vpand" -> x & y [] o = "vpandn" -> Complement(x, w) & y
    [] o = "vpor" -> x | y [] o = "vpxor" -> x ^^ y
    [] o = "vpmulhrs" -> RoundedProduct(x, y, w)
    [] o = "vpmulh" -> HighProduct(x, y, w, TRUE) [] o = "vpmulhu" -> HighProduct(x, y, w, FALSE)
LaneInstructions == {"vpcmpeq", "vpcmpgt", "vpand", "vpandn", "vpor", "vpxor", "vpmulhrs", "vpmulh", "vpmulhu"}

\* A count past the width clears a lane, or fills it with its sign.
VectorShiftBy(o, x, n, w) == IF n < Bits(w) THEN LaneShift(o, x, n, w)
                             ELSE IF o = "shr_s" /\ SignBit(x, w) THEN Ones(w) ELSE 0
HorizontalAdd(a, w) == [i \in 1..(NumLanes(w) \div 2) |-> Wrap(Lanes(a, w)[2 * i - 1] + Lanes(a, w)[2 * i], w)]
HalfLanes(a, w, high) == LET n == NumLanes(w) \div 2 IN
                         IF high THEN SubSeq(Lanes(a, w), n + 1, 2 * n) ELSE SubSeq(Lanes(a, w), 1, n)
\* VPMULDQ and VPMULUDQ: the even lanes.
EvenProducts(x, y, w, signed) ==
  FromLanes([i \in 1..(NumLanes(w) \div 2) |->
               Wrap(Signs(Lanes(x, w)[2 * i - 1], w, signed) * Signs(Lanes(y, w)[2 * i - 1], w, signed), 2 * w)], 2 * w)
\* Control bytes of VPSHUFB keep 8 bits: 128 and above give zero.
ShuffleBytes(x, control) == [i \in 1..16 |-> IF control[i] >= 128 THEN 0 ELSE x[(control[i] % 16) + 1]]

VectorResult(m, ins) ==
  LET w == ins.w
      i == ins.i
      y == FetchV(m, ins.s, 16)
      x == FetchV(m, ins.s1, 16) IN
  CASE i \in LaneInstructions -> ZipLanes(LAMBDA a, b : LaneResult(i, a, b, w), x, y, w)
    \* VPADD, VPSUB, VPMULL, VPMIN, VPMAX, VPADDS, VPADDUS, VPSUBS, VPSUBUS, VPAVG
    [] i = "vplanes" -> ZipLanes(LAMBDA a, b : LaneBinop(ins.imm[1], a, b, w), x, y, w)
    [] i = "vpshift" ->
         LET n == IF ins.s.k = "imm" THEN ins.s.n ELSE Low64(y) IN
         MapLanes(LAMBDA a : VectorShiftBy(ins.imm[1], a, n, w), x, w)
    [] i = "vpackss" -> v128_narrow("narrow_s", x, y, w \div 2)
    [] i = "vpackus" -> v128_narrow("narrow_u", x, y, w \div 2)
    [] i = "vphadd" -> FromLanes(HorizontalAdd(x, w) \o HorizontalAdd(y, w), w)
    [] i = "vpunpckl" -> FromLanes(FlattenSeq(Interleave(HalfLanes(x, w, FALSE), HalfLanes(y, w, FALSE))), w)
    [] i = "vpunpckh" -> FromLanes(FlattenSeq(Interleave(HalfLanes(x, w, TRUE), HalfLanes(y, w, TRUE))), w)
    [] i = "vpmuldq" -> EvenProducts(x, y, w, TRUE)
    [] i = "vpmuludq" -> EvenProducts(x, y, w, FALSE)
    [] i = "vpmadd" -> v128_dot(x, y)
    [] i = "vpshufb" -> ShuffleBytes(x, y)
    [] i = "vpinsr" -> SetLane(x, w, ins.imm[1], Fetch(m, ins.s, w))
\* One source.
VectorUnary(m, ins) ==
  LET w == ins.w
      i == ins.i
      v == FetchV(m, ins.s, AccessBytes(ins)) IN
  CASE i = "vmov" -> v
    [] i = "vpmovsx" -> WidenLanes(LowHalf(v), w, TRUE)
    [] i = "vpmovzx" -> WidenLanes(LowHalf(v), w, FALSE)
    [] i = "vpbroadcast" -> Splat(Lanes(v, w)[1], w)
    [] i = "vpabs" -> MapLanes(LAMBDA a : LaneUnop("abs", a, w), v, w)
    [] i = "vpshufd" -> FromLanes([l \in 1..4 |-> Lanes(v, 4)[ins.imm[l] + 1]], 4)
    [] i = "vpsrldq" -> SubSeq(v, ins.imm[1] + 1, 16) \o [l \in 1..ins.imm[1] |-> 0]
    [] i = "vmovd" -> IF ins.s.k = "reg" THEN ToBytes(Fetch(m, ins.s, w), w) \o [l \in 1..(16 - w) |-> 0] ELSE v
    [] i = "vcontrol" -> ins.imm

VectorBinaries == LaneInstructions \cup {"vplanes", "vpshift", "vpackss", "vpackus", "vphadd", "vpunpckl",
                    "vpunpckh", "vpmuldq", "vpmuludq", "vpmadd", "vpshufb", "vpinsr"}
VectorUnaries  == {"vmov", "vpmovsx", "vpmovzx", "vpbroadcast", "vpabs", "vpshufd", "vpsrldq", "vmovd", "vcontrol"}

-----------------------------------------------------------------------------
(* String instructions, on linear memory or on the table: rcx elements at  *)
(* rdi, or from rsi to rdi, upwards or with df downwards.                  *)

Repeat(seq, m, F(_, _)) ==
  FoldLeft(LAMBDA v, k : F(v, IF m.df THEN -k ELSE k), seq, [k \in 1..m.regs["rcx"] |-> k - 1])
Stored(m, seq) == Repeat(seq, m, LAMBDA v, k : [v EXCEPT ![m.regs["rdi"] + k + 1] = Wrap(m.regs["rax"], 1)])
Moved(m, seq)  == Repeat(seq, m, LAMBDA v, k : [v EXCEPT ![m.regs["rdi"] + k + 1] = v[m.regs["rsi"] + k + 1]])
AfterStos(m) == [m EXCEPT !.regs["rcx"] = 0, !.regs["rdi"] = Junk]
AfterMovs(m) == [AfterStos(m) EXCEPT !.regs["rsi"] = Junk]

\* A C function: arguments in rdi, rsi, rdx, rcx and r8, the result in rax
\* and, for a vector, rdx.  Above a 32-bit result rax is unspecified.
CallerSaved == {"rcx", "rdx", "rsi", "rdi", "r8", "r9"}
CArguments(m, sig) ==
  CASE sig.op = <<"memory", "grow">> -> <<Fetch(m, R("rsi"), 4)>>
    [] sig.op[2] = "init" -> <<Fetch(m, R("r8"), 4), Fetch(m, R("rcx"), 4), Fetch(m, R("rdx"), 4)>>
    [] sig.pops = <<"v128">> -> <<Vector(m.regs["rdi"], m.regs["rsi"])>>
    [] sig.pops = <<"v128", "v128">> ->
         <<Vector(m.regs["rdx"], m.regs["rcx"]), Vector(m.regs["rdi"], m.regs["rsi"])>>
    [] Len(sig.pops) = 2 -> <<Fetch(m, R("rsi"), Width(sig.pops[1])), Fetch(m, R("rdi"), Width(sig.pops[2]))>>
    [] Len(sig.pops) = 1 -> <<Fetch(m, R("rdi"), Width(sig.pops[1]))>>
    [] OTHER -> <<>>
SegmentIndex(m, sig) == IF sig.op[2] \in {"init", "drop"} THEN [sig EXCEPT !.imm = <<m.regs["rsi"]>>] ELSE sig
ReturnC(m, ins, r) ==
  LET lost == [m EXCEPT !.regs = [x \in Registers |-> IF x \in CallerSaved THEN Junk ELSE @[x]],
                        !.xmm = [x \in Xmms |-> JunkVector], !.store = r.store, !.flags = Flags(0, 0, 4)] IN
  IF r.trap THEN [m EXCEPT !.status = "trapped"]
  ELSE CASE r.val = <<>> -> [lost EXCEPT !.regs["rax"] = Junk]
         [] ins.imm[1].push = "v128" -> [lost EXCEPT !.regs["rax"] = Low64(r.val[1]), !.regs["rdx"] = High64(r.val[1])]
         [] OTHER -> [lost EXCEPT !.regs["rax"] = IF ins.w = 4 THEN Merge(Junk, r.val[1], 4) ELSE r.val[1]]
CallC(m, ins) ==
  LET sig == ins.imm[1] IN ReturnC(m, ins, Perform(SegmentIndex(m, sig), CArguments(m, sig), m.store))

-----------------------------------------------------------------------------
\* One instruction of code, after ip has moved past it.
Instruct(m, ins) ==
  CASE Faults(m, ins, ins.s) \/ Faults(m, ins, ins.d) -> [m EXCEPT !.status = "trapped"]
    [] ins.i \in {"idiv", "div"} /\ DivideFaults(m, ins) -> [m EXCEPT !.status = "trapped"]
    [] ins.i = "trap" -> [m EXCEPT !.status = "trapped"]
    [] ins.i = "ret" -> [DropSlots(m, 1) EXCEPT !.status = "returned"]
    [] ins.i = "jmp" -> [m EXCEPT !.ip = ins.to]
    [] ins.i = "jcc" -> IF Holds(ins.imm[1], m.flags) THEN [m EXCEPT !.ip = ins.to] ELSE m
    [] ins.i = "callc" -> CallC(m, ins)
    [] ins.i = "vmov" /\ ins.d.k # "xmm" -> PutV(m, ins.d, FetchV(m, ins.s, 16))
    [] ins.i \in VectorUnaries -> [m EXCEPT !.xmm[ins.d.r] = VectorUnary(m, ins)]
    [] ins.i \in VectorBinaries -> [m EXCEPT !.xmm[ins.d.r] = VectorResult(m, ins)]
    [] ins.i = "vpextr" -> Put(m, ins.d, IF ins.d.k = "reg" THEN 8 ELSE ins.w,
                               Lanes(m.xmm[ins.s.r], ins.w)[ins.imm[1] + 1])
    [] ins.i = "vptest" -> [m EXCEPT !.flags = Flags(AsBit(m.xmm[ins.s.r] # ZeroVector), 0, 4)]
    [] ins.i = "vmovmsk" -> [m EXCEPT !.regs["rax"] = BitMask(m.xmm[ins.s.r], ins.w)]
    [] ins.i = "std" -> [m EXCEPT !.df = TRUE]
    [] ins.i = "cld" -> [m EXCEPT !.df = FALSE]
    [] ins.i = "stosb" -> AfterStos([m EXCEPT !.store.mem = Stored(m, @)])
    [] ins.i = "movsb" -> AfterMovs([m EXCEPT !.store.mem = Moved(m, @)])
    [] ins.i = "movs_table" -> AfterMovs([m EXCEPT !.store.tab = Moved(m, @)])
    [] OTHER -> Scalar(m, ins)
Tick(m, program) == Instruct([m EXCEPT !.ip = @ + 1], program[m.ip + 1])
=============================================================================
