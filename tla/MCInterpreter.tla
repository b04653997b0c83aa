--------------------------- MODULE MCInterpreter ---------------------------
(* An instance of Interpreter: f takes a parameter and has a local and a   *)
(* result, g has neither, h is a host function with a parameter and a      *)
(* result.                                                                 *)
EXTENDS Interpreter

MCParams  == [x \in Functions |-> IF x = "g" THEN 0 ELSE 1]
MCLocals  == [x \in Functions |-> IF x = "f" THEN 1 ELSE 0]
MCResults == [x \in Functions |-> IF x = "g" THEN 0 ELSE 1]

\* A limit on stack bytes: g's activation takes twice the room of the others.
MCSizes   == [x \in Functions |-> IF x = "g" THEN 2 ELSE 1]
=============================================================================
