--------------------------- MODULE WasmInstance ----------------------------
(***************************************************************************)
(* What an instance promises the module that runs in it: a memory, a table *)
(* and globals of its own, created from the module's declarations alone,   *)
(* with every access checked against the current size.  There is at most   *)
(* one instance at a time.                                                 *)
(***************************************************************************)
EXTENDS Integers, Sequences, FiniteSets

CONSTANTS PageSize, HardMax, Values, Zero, Mods, Def

VARIABLE inst    \* the instance, or None

None == <<>>

Upto(n) == 0..(n - 1)
Last(S) == CHOOSE i \in S : \A j \in S : j <= i

\* Contents of a memory or a table after the segments S were written, in
\* order, over something filled with the value blank.
Written(n, blank, S, off(_), len(_), item(_, _)) ==
  [k \in Upto(n) |->
     LET W == {i \in S : off(i) <= k /\ k < off(i) + len(i)} IN
     IF W = {} THEN blank ELSE item(Last(W), k - off(Last(W)) + 1)]

Fresh(m) ==
  LET d  == Def[m]
      AD == {i \in DOMAIN d.data : ~d.data[i].passive}
      AE == {i \in DOMAIN d.elems : d.elems[i].mode = "active"} IN
  [mod     |-> m,
   mem     |-> Written(d.memories * d.initial * PageSize, Zero, AD,
                       LAMBDA i : d.data[i].offset, LAMBDA i : Len(d.data[i].bytes),
                       LAMBDA i, k : d.data[i].bytes[k]),
   table   |-> Written(d.tables * d.tinit, <<"null">>, AE,
                       LAMBDA i : d.elems[i].offset, LAMBDA i : Len(d.elems[i].funcs),
                       LAMBDA i, k : <<"func", m, d.elems[i].funcs[k]>>),
   globals |-> d.globals,
   data    |-> DOMAIN d.data \ AD,
   elems   |-> IF d.tables = 0 THEN {}
               ELSE {i \in DOMAIN d.elems : d.elems[i].mode = "passive"}]

\* Every active segment lies inside what it initialises.
Fits(m) ==
  LET d == Def[m] IN
  /\ \A i \in DOMAIN d.data : ~d.data[i].passive =>
       d.data[i].offset + Len(d.data[i].bytes) <= d.initial * PageSize
  /\ \A i \in DOMAIN d.elems : d.elems[i].mode = "active" =>
       d.elems[i].offset + Len(d.elems[i].funcs) <= d.tinit

Init == inst = None

Instantiate == \E m \in Mods : Fits(m) /\ inst' = Fresh(m)
Discard     == inst' = None

-----------------------------------------------------------------------------
Live    == inst # None
Size(f) == Cardinality(DOMAIN f)
D       == Def[inst.mod]
Lengths(f) == 0..Size(f)

\* n cells of f from d on are set to what V says.
Set(f, d, n, V(_)) == [k \in DOMAIN f |-> IF d <= k /\ k < d + n THEN V(k - d) ELSE f[k]]

\* memory.grow: new pages hold zeros, the declared maximum is respected.  A
\* negative operand shrinks the memory, which WebAssembly itself does not allow.
Grow ==
  \E p \in 0..HardMax :
    /\ D.memories = 1
    /\ D.flags => p <= D.maximum
    /\ inst' = [inst EXCEPT !.mem = [k \in Upto(p * PageSize) |->
                                       IF k \in DOMAIN @ THEN @[k] ELSE Zero]]

Store == \E k \in DOMAIN inst.mem, v \in Values : inst' = [inst EXCEPT !.mem[k] = v]

MemoryFill ==
  \E d, n \in Lengths(inst.mem), v \in Values :
    /\ d + n <= Size(inst.mem)
    /\ inst' = [inst EXCEPT !.mem = Set(@, d, n, LAMBDA k : v)]

MemoryCopy ==
  \E d, s, n \in Lengths(inst.mem) :
    /\ d + n <= Size(inst.mem) /\ s + n <= Size(inst.mem)
    /\ inst' = [inst EXCEPT !.mem = Set(@, d, n, LAMBDA k : inst.mem[s + k])]

MemoryInit ==
  \E x \in inst.data, d, n \in Lengths(inst.mem) :
    \E s \in 0..(Len(D.data[x].bytes) - n) :
      /\ d + n <= Size(inst.mem)
      /\ inst' = [inst EXCEPT !.mem = Set(@, d, n, LAMBDA k : D.data[x].bytes[s + k + 1])]

DropData == \E x \in inst.data : inst' = [inst EXCEPT !.data = @ \ {x}]

TableInit ==
  \E x \in inst.elems, d, n \in Lengths(inst.table) :
    \E s \in 0..(Len(D.elems[x].funcs) - n) :
      /\ d + n <= Size(inst.table)
      /\ inst' = [inst EXCEPT !.table =
                    Set(@, d, n, LAMBDA k : <<"func", inst.mod, D.elems[x].funcs[s + k + 1]>>)]

TableCopy ==
  \E d, s, n \in Lengths(inst.table) :
    /\ d + n <= Size(inst.table) /\ s + n <= Size(inst.table)
    /\ inst' = [inst EXCEPT !.table = Set(@, d, n, LAMBDA k : inst.table[s + k])]

DropElem == \E x \in inst.elems : inst' = [inst EXCEPT !.elems = @ \ {x}]

SetGlobal == \E i \in DOMAIN inst.globals, v \in Values : inst' = [inst EXCEPT !.globals[i] = v]

MemoryStep == Grow \/ Store \/ MemoryFill \/ MemoryCopy \/ MemoryInit \/ DropData
TableStep  == TableInit \/ TableCopy \/ DropElem

Next ==
  \/ Instantiate
  \/ Discard
  \/ Live /\ (MemoryStep \/ TableStep \/ SetGlobal)

Spec == Init /\ [][Next]_inst
=============================================================================
