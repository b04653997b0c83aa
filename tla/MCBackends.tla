----------------------------- MODULE MCBackends -----------------------------
(* Instances of Backends for TLC. *)
EXTENDS FloatReference, OpcodeTypes

MCSize == [t \in ValueTypes |-> Width(t)]
NoTypes == <<>>

\* Values near the limits of a type, of which some are small addresses and
\* counts; vectors with lanes of every sign.
MCLiteral ==
  [t \in {"i32", "i64", "f32", "f64", "v128"} |->
     CASE t = "i32" -> <<1, 129, 255, 0, 128>>
       [] t = "i64" -> <<3, 32768, 65535, 0, 9>>
       [] t = "f32" -> <<62, 188, 121, 128, 254>>
       [] t = "f64" -> <<15872, 48700, 31745, 32768, 65000>>
       [] t = "v128" -> <<<<0, 1, 2, 3, 3, 3, 3, 3, 0, 0, 0, 2, 1, 2, 1, 3>>,
                          <<3, 3, 0, 2, 1, 0, 0, 0, 0, 2, 3, 1, 2, 2, 0, 1>>,
                          <<0, 2, 0, 2, 0, 0, 0, 2, 0, 0, 0, 0, 0, 0, 0, 2>>,
                          [i \in 1..16 |-> 0],
                          [i \in 1..16 |-> 3]>>]
MCLaneOf == [n \in {2, 4, 8, 16} |-> {1, n - 1}]
MCShuffles == {[i \in 1..16 |-> (7 * i) % 32]}

GlobalTypes == <<"i32", "i64", "f32", "f64", "v128">>
MCStore == [mem |-> [i \in 1..PageBytes |-> (i * i + 3 * i) % 4],
            glob |-> [g \in DOMAIN GlobalTypes |-> MCLiteral[GlobalTypes[g]][2]],
            data |-> <<<<1, 2, 3>>, <<>>>>, elem |-> <<<<7, 8>>, <<>>>>, tab |-> <<11, 12, 13>>]

\* Every opcode that only computes.
AllPlain ==
  ScalarLoads \cup ScalarStores \cup VectorMemory \cup LoadLanes \cup StoreLanes
    \cup MemorySize \cup MemoryGrow \cup BulkOps({1, 2}) \cup GlobalOps(GlobalTypes)
    \cup UNION {IntCompares(t) \cup IntNumeric(t) : t \in IntTypes}
    \cup UNION {FloatCompares(t) \cup FloatNumeric(t) : t \in FloatTypes}
    \cup Conversions \cup Extends \cup TruncSats \cup ExtractLanes \cup ReplaceLanes \cup ShuffleOps
    \cup Splats \cup UNION {VectorIntCompares(s) : s \in IntShapes}
    \cup UNION {VectorFloatCompares(s) \cup VectorFloatNumeric(s) : s \in FloatShapes}
    \cup VectorLogic \cup I8x16Numeric \cup I16x8Numeric \cup I32x4Numeric \cup I64x2Numeric
    \cup VectorConversions
\* The back ends differ in extmul_high and, as far as the processor's calling
\* convention goes, in what memory.size and memory.grow leave above their
\* 32-bit result; the bodies of OpcodeOps drop that result.  swizzle is left
\* out, as its control bytes need eight bits.
HighMuls == {sig \in AllPlain : sig.op[2] \in {"extmul_high_s", "extmul_high_u"}}
OpcodeOps == {sig \in AllPlain \ HighMuls : sig.op[2] # "swizzle"}
PageCounts == MemorySize \cup MemoryGrow

Sigs(names) == {sig \in AllPlain : sig.op \in names}
FoldOps == Sigs({<<"i32", "eqz">>, <<"i32", "lt_s">>, <<"i32", "add">>, <<"v128", "any_true">>})
NoOps == {}
OneI32 == <<"i32">>
OneV128 == <<"v128">>
\* One local of each type.
AllLocals == GlobalTypes
AnyBody(body, open) == TRUE
AnyPlain(body) == PlainOps
\* No operand of unknown type, which select pushes in unreachable code.
NoAny(body) == \A i \in DOMAIN body : "any" \notin Range(body[i].state)

\* Bodies of one opcode: an operand for the result, the operands of the
\* opcode, nothing more, the opcode, and its value stored in a local, or
\* dropped when it is a number of pages.
OperandLists == {Reverse(sig.pops) : sig \in PlainOps}
PastParams(i) == i > Len(Params)
OneOpcode(body) ==
  LET plain == {i \in DOMAIN body : body[i].op = "plain"}
      taker(sig) == IF sig \in PageCounts THEN "drop" ELSE "set_local"
      expected(j, i) == IF j = i + 1 /\ body[i].arg.push # "pseudo" THEN taker(body[i].arg) ELSE "end" IN
  /\ \A i \in DOMAIN body : body[i].op \in {"const", "plain", "set_local", "drop", "end"}
  /\ body[1].op = "const" /\ body[1].arg = <<"i32", 1>>
  /\ IF plain = {} THEN /\ \A i \in DOMAIN body : body[i].op = "const"
                        /\ LET types == [i \in 1..(Len(body) - 1) |-> body[i + 1].arg[1]] IN
                           \E pops \in OperandLists : IsPrefix(types, pops)
     ELSE LET i == CHOOSE j \in plain : TRUE IN
          /\ Cardinality(plain) = 1
          /\ i = Len(body[i].arg.pops) + 2
          /\ \A j \in (i + 1)..Len(body) : /\ body[j].op = expected(j, i)
                                           /\ body[j].op = "set_local" => PastParams(body[j].arg)

SingleOpcode(body, open) == OneOpcode(body)

\* Bodies of control flow, on i32 and vectors.  Past ShortBody opcodes, the
\* ends still missing included, they branch on comparisons of i32 or out of
\* blocks with vectors, past BranchBody only out of a block with a vector.
ShortBody == 5
BranchBody == 7
ControlOpcode(o) ==
  CASE o.op = "plain" -> o.arg \in FoldOps
    [] o.op = "const" -> o.arg[1] \in {"i32", "v128"} /\ o.arg[2] \in {1, 4}
    [] o.op \in {"get_local", "set_local", "tee_local"} -> ~PastParams(o.arg) \/ LocalTypes[o.arg] = "v128"
    [] o.op \in {"block", "loop", "if"} -> o.arg \in {"pseudo", "i32", "v128"}
    [] OTHER -> TRUE
OnlyOps(body, ops, types) ==
  \A i \in DOMAIN body : /\ body[i].op \in ops \cup {"block", "end", "get_local"}
                         /\ body[i].op \in {"block", "loop", "if"} => body[i].arg \in types
                         /\ body[i].op = "get_local" => LocalTypes[body[i].arg] \in types
ControlBodies(body, open) ==
  /\ \A i \in DOMAIN body : ControlOpcode(body[i])
  /\ NoAny(body)
  /\ \/ Len(body) + open <= ShortBody
     \/ /\ Len(body) + open <= BranchBody
        /\ \/ OnlyOps(body, {"loop", "if", "else", "br_if", "br_table", "plain"}, {"pseudo", "i32"})
           \/ OnlyOps(body, {"br", "drop"}, {"pseudo", "i32", "v128"})
     \/ /\ OnlyOps(body, {"br", "drop"}, {"i32", "v128"})
        /\ body[1].op = "block" /\ body[1].arg = "v128"

Bodies(body, open) == OneOpcode(body) \/ ControlBodies(body, open)
\* Only after constants alone can the opcode of OneOpcode follow.
PlainOfBodies(body) == IF \A i \in DOMAIN body : body[i].op = "const" THEN PlainOps ELSE FoldOps

\* Bodies that do not name the parameter are called with one argument, others
\* with zero and one.
NamesParam(body) ==
  \E i \in DOMAIN body : body[i].op \in {"get_local", "set_local", "tee_local"} /\ ~PastParams(body[i].arg)
AnyArgument(body) == Consts
FewArguments(body) == IF NamesParam(body) THEN {1, 4} ELSE {1}
=============================================================================
