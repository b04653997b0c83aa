--------------------------- MODULE MCFunctionRun ---------------------------
(* Instances of FunctionRun for TLC. *)
EXTENDS FunctionRun

MCSize == [t \in ValueTypes |-> IF t = "i32" THEN 4 ELSE 8]

NoTypes  == <<>>
OneI32   == <<"i32">>
OneI64   == <<"i64">>

\* An i32 the body does not determine, as memory.size or a call gives, and a
\* conversion.
AnI32 == [pops |-> <<>>, push |-> "i32"]
Wrap  == [pops |-> <<"i64">>, push |-> "i32"]
Plains    == {AnI32, Wrap}
OnlyAnI32 == {AnI32}

\* Two kinds of bodies: branches among scopes, up to MaxOps opcodes, and
\* values of both types with every other opcode, up to ShortBody; the ends
\* still missing count.
ShortBody == 6
Branching(body) ==
  \A i \in DOMAIN body : /\ body[i].op \in {"block", "loop", "if", "else", "end", "br", "br_if", "plain"}
                         /\ body[i].op \in Openers => body[i].arg # "i64"
                         /\ body[i].op = "plain" => body[i].arg = AnI32
TypedValues(body, open) ==
  /\ Len(body) + open <= ShortBody
  /\ \A i \in DOMAIN body : /\ body[i].op \notin {"loop", "if", "br", "br_if"}
                            /\ body[i].op = "plain" => body[i].arg = Wrap
Bodies(body, open) == Branching(body) \/ TypedValues(body, open)
AnyBody(body, open) == TRUE
AnyPlain(body) == PlainOps

\* Bodies that read no local are called with one argument, which stands for
\* all.
OneArgument ==
  status = "compiling" /\ status' = "running" /\ (\A i \in DOMAIN src : src[i].op # "get_local") =>
    os'[last_op_index + 1] = Typed("i32", 0)
=============================================================================
