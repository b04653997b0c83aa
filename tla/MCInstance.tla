----------------------------- MODULE MCInstance -----------------------------
(* Model-checking instances of Instance.                                   *)
EXTENDS Instance, TLC

CONSTANTS a, b, c, t1, t2, t3, none, c1, c2

GrowAndShrink == {-1, 0, 1, 2}
NoGrowth      == {0}
Symmetry      == Permutations(Contexts)

\* A module that declares nothing.
Plain ==
  [memories |-> 0, initial |-> 0, flags |-> FALSE, maximum |-> 0, data |-> <<>>,
   tables |-> 0, tinit |-> 0, elems |-> <<>>, globals |-> <<>>,
   data_x |-> {}, elem_drop_x |-> {}, table_init_x |-> {}]

Active(o, s)  == [passive |-> FALSE, offset |-> o, bytes |-> s]
Passive(s)    == [passive |-> TRUE, offset |-> 0, bytes |-> s]
Elem(m, o, s) == [mode |-> m, offset |-> o, funcs |-> s]

\* Memory: a starts with one page and segments that overlap, b may not grow
\* past its maximum, c's segment is out of range.
DefMemory ==
  (a :> [Plain EXCEPT !.memories = 1, !.initial = 1, !.data_x = {3},
                      !.data = <<Active(0, <<1, 1>>), Active(1, <<0>>), Passive(<<1, 0>>)>>])
  @@ (b :> [Plain EXCEPT !.memories = 1, !.flags = TRUE, !.maximum = 1])
  @@ (c :> [Plain EXCEPT !.memories = 1, !.initial = 1,
                         !.data = <<Active(1, <<1>>), Active(1, <<1, 1>>)>>])

\* Tables: t1's fits in the table page, t2's does not, t3's segment is out of
\* range.
DefTable ==
  (t1 :> [Plain EXCEPT !.tables = 1, !.tinit = 1, !.globals = <<0>>,
                      !.elem_drop_x = {2}, !.table_init_x = {1, 2, 3},
                      !.elems = <<Elem("active", 0, <<0>>), Elem("passive", 0, <<1>>),
                                  Elem("declarative", 0, <<0>>)>>])
  @@ (t2 :> [Plain EXCEPT !.tables = 1, !.tinit = 2, !.globals = <<1>>,
                         !.elem_drop_x = {2}, !.table_init_x = {2},
                         !.elems = <<Elem("active", 1, <<0>>), Elem("passive", 0, <<1, 0>>)>>])
  @@ (t3 :> [Plain EXCEPT !.tables = 1, !.tinit = 1,
                         !.elems = <<Elem("active", 0, <<1>>), Elem("active", 1, <<1>>)>>])

\* Contexts that share an allocator use its memory, or its table page; none
\* uses neither.
DefState == DefMemory @@ DefTable @@ (none :> Plain)
MemoryOrTable ==
  LET mods == {ctx[x].mod : x \in Contexts} IN
  \/ /\ mods \subseteq {a, b, c, none}
     /\ tpage[0] = <<"zero">>
  \/ /\ mods \subseteq {t1, t2, t3, none}
     /\ \A x \in Contexts : ctx[x].max_pages = HardMax
     /\ \A k \in Cell : wa.mem[k] = Zero

\* Memory again, for pages of one cell; c's data fits and its element segment
\* does not.
DefSmall ==
  (a :> [Plain EXCEPT !.memories = 1, !.initial = 2, !.data_x = {2},
                      !.data = <<Active(0, <<1>>), Passive(<<1>>)>>])
  @@ (c :> [Plain EXCEPT !.memories = 1, !.initial = 1, !.data = <<Active(0, <<1>>)>>,
                         !.tables = 1, !.tinit = 1, !.elems = <<Elem("active", 1, <<1>>)>>])
  @@ (none :> Plain)

\* a uses a segment index past its segments in table.init.
DefIndex ==
  a :> [Plain EXCEPT !.tables = 1, !.tinit = 1, !.table_init_x = {1, 2},
                     !.elems = <<Elem("passive", 0, <<1>>)>>]
=============================================================================
