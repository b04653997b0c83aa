------------------------- MODULE InstanceRefinement -------------------------
(***************************************************************************)
(* Contexts that share an allocator implement isolated instances: every    *)
(* step of Instance is a step of WasmInstance, or leaves the presented     *)
(* instance as it is.                                                      *)
(***************************************************************************)
EXTENDS InstanceProofs, FiniteSetTheorems

-----------------------------------------------------------------------------
(* The instance that context x presents with allocator a and table page tp. *)

SizeOf(a)   == IF a.page < 0 THEN 0 ELSE a.page * PageSize
MemOf(a)    == [k \in 0..(SizeOf(a) - 1) |-> a.mem[k]]
SlotOf(x, tp, e) == IF indirect_table(x.mod) THEN x.alt[e + 1] ELSE tp[e * EntryWords]
TableOf(x, tp) ==
  [e \in 0..(Def[x.mod].tables * Def[x.mod].tinit - 1) |-> SlotOf(x, tp, e)]
DataOf(x)   == {i \in DOMAIN Def[x.mod].data : ~x.dropped_data[i]}
ElemsOf(x)  == IF Def[x.mod].tables = 0 THEN {}
               ELSE {i \in DOMAIN Def[x.mod].elems : ~x.dropped_elems[i]}
Inst(m, me, ta, g, da, el) ==
  [mod |-> m, mem |-> me, table |-> ta, globals |-> g, data |-> da, elems |-> el]
ViewOf(x, a, tp) == Inst(x.mod, MemOf(a), TableOf(x, tp), x.globals, DataOf(x), ElemsOf(x))

PresentsOwn ==
  /\ owner = NoContext => Presented = <<>>
  /\ owner # NoContext => Presented = ViewOf(ctx[owner], wa, tpage)

\* The pointers in the table page lead to the running context, so what it
\* presents is its own.
LEMMA PresentedIs == InstanceInv => PresentsOwn
<1>. SUFFICES ASSUME InstanceInv PROVE PresentsOwn
  OBVIOUS
<1>1. CASE owner = NoContext
  BY <1>1 DEF Presented, PresentsOwn
<1>2. CASE owner # NoContext
  <2>1. Pointed(owner, ctx[owner], tpage)
    BY <1>2 DEF InstanceInv, Owned
  <2>2. GlobalsOwner = owner /\ (indirect_table(ctx[owner].mod) => AltOwner = owner)
    BY <2>1 DEF GlobalsOwner, AltOwner, Pointed, Ptr
  <2>3. \A e : Entry(owner, e) = SlotOf(ctx[owner], tpage, e)
    BY <2>2 DEF Entry, SlotOf
  <2>4. [e \in 0..(D(owner).tables * D(owner).tinit - 1) |-> Entry(owner, e)]
          = TableOf(ctx[owner], tpage)
    BY <2>3 DEF TableOf, D
  <2>. QED
    BY <1>2, <2>2, <2>4 DEF Presented, PresentsOwn, ViewOf, Inst, MemOf, SizeOf, MemSize, DataOf, ElemsOf, D
<1>. QED
  BY <1>1, <1>2

-----------------------------------------------------------------------------
(* A fresh instance.                                                       *)

Active(d) == {i \in DOMAIN d.data : ~d.data[i].passive}
ActiveElems(d) == {i \in DOMAIN d.elems : d.elems[i].mode = "active"}
LastOf(W) == CHOOSE i \in W : \A j \in W : j <= i

\* What the active segments leave in cell k of the memory and in entry k of
\* the table.
Byte(d, k) ==
  LET W == {i \in Active(d) : Covers(d.data[i], k)} IN
  IF W = {} THEN Zero ELSE d.data[LastOf(W)].bytes[k - d.data[LastOf(W)].offset + 1]
Element(m, d, k) ==
  LET W == {i \in ActiveElems(d) : d.elems[i].offset <= k
                                   /\ k < d.elems[i].offset + Len(d.elems[i].funcs)} IN
  IF W = {} THEN Null ELSE Func(m, d.elems[LastOf(W)].funcs[k - d.elems[LastOf(W)].offset + 1])

FreshMem(d) == [k \in 0..(d.memories * d.initial * PageSize - 1) |-> Byte(d, k)]
FreshTable(m, d) == [k \in 0..(d.tables * d.tinit - 1) |-> Element(m, d, k)]

FreshElems(d) == IF d.tables = 0 THEN {} ELSE {i \in DOMAIN d.elems : d.elems[i].mode = "passive"}

\* What the abstract specification says a module starts with.
LEMMA FreshIs ==
  ASSUME NEW m, NEW d, d = Def[m]
  PROVE  WI!Fresh(m) = Inst(m, FreshMem(d), FreshTable(m, d), d.globals,
                            DOMAIN d.data \ Active(d), FreshElems(d))
BY DEF WI!Fresh, WI!Written, WI!Upto, WI!Last, Inst, FreshMem, FreshTable, FreshElems, Active,
       ActiveElems, LastOf, Null, Func, Byte, Element, Covers

\* The same after a step.
LEMMA PresentedThen == InstanceInv' => PresentsOwn'
BY PresentedIs, PTL

\* When no active segment is out of range, all are copied and the flags say so.
LEMMA AllCopied ==
  ASSUME NEW d \in Declaration
  PROVE  /\ DataOk(d) => /\ DataCopied(d) = Active(d)
                         /\ {i \in DOMAIN d.data : ~DataFlags(d)[i]} = DOMAIN d.data \ Active(d)
         /\ ElemOk(d) => /\ ElemCopied(d) = ActiveElems(d)
                         /\ {i \in DOMAIN d.elems : ~ElemDropped(d)[i]}
                              = {i \in DOMAIN d.elems : d.elems[i].mode = "passive"}
<1>1. DOMAIN d.data = 1..Len(d.data) /\ Len(d.data) \in Nat
  BY DataSegment
<1>2. DOMAIN d.elems = 1..Len(d.elems) /\ Len(d.elems) \in Nat
  BY ElemSegment
<1>3. \A i \in DOMAIN d.data : \A j \in 1..i : j \in DOMAIN d.data
  BY <1>1
<1>4. \A i \in DOMAIN d.elems : \A j \in 1..i : j \in DOMAIN d.elems
  BY <1>2
<1>5. DataOk(d) => DataCopied(d) = Active(d)
  BY <1>3 DEF DataOk, DataCopied, Active
<1>6. DataOk(d) => {i \in DOMAIN d.data : ~DataFlags(d)[i]} = DOMAIN d.data \ Active(d)
  BY <1>5 DEF DataFlags
<1>7. ElemOk(d) => ElemCopied(d) = ActiveElems(d)
  BY <1>4 DEF ElemOk, ElemCopied, ActiveElems
<1>8. ElemOk(d) => {i \in DOMAIN d.elems : ~ElemDropped(d)[i]}
                     = {i \in DOMAIN d.elems : d.elems[i].mode = "passive"}
  BY DEF ElemDropped
<1>. QED
  BY <1>5, <1>6, <1>7, <1>8

\* The memory after the allocator's reset and the data segments.
LEMMA FreshMemory ==
  ASSUME NEW d \in Declaration, d.initial \in 0..HardMax, NEW a \in Allocator, DataOk(d),
         d.memories = 0 => a.page = -1,
         d.memories = 1 => a.page = d.initial /\ Blank(a, d.initial),
         NEW a2, a2 = [a EXCEPT !.mem = WithData(@, d, DataCopied(d))]
  PROVE  MemOf(a2) = FreshMem(d)
<1>1. a2.page = a.page /\ a2.mem = WithData(a.mem, d, Active(d)) /\ d.memories \in {0, 1}
  BY AllCopied DEF Allocator, Declaration
<1>2. SizeOf(a2) = d.memories * d.initial * PageSize /\ SizeOf(a2) \in Nat
  <2>1. PageSize \in Nat /\ d.initial \in Nat
    BY SizeAssumption
  <2>2. CASE d.memories = 0
    BY <1>1, <2>1, <2>2 DEF SizeOf
  <2>3. CASE d.memories = 1
    <3>1. SizeOf(a2) = d.initial * PageSize
      BY <1>1, <2>1, <2>3 DEF SizeOf
    <3>2. d.memories * d.initial = d.initial
      BY <2>1, <2>3
    <3>3. d.initial * PageSize \in Nat
      BY <2>1
    <3>. QED
      BY <3>1, <3>2, <3>3
  <2>. QED
    BY <1>1, <2>2, <2>3
<1>3. ASSUME NEW k \in 0..(SizeOf(a2) - 1) PROVE k \in Cell /\ a.mem[k] = Zero
  <2>1. d.memories = 1
    <3>. SUFFICES ASSUME d.memories = 0 PROVE FALSE
      BY <1>1
    <3>1. SizeOf(a2) = 0
      BY <1>1 DEF SizeOf
    <3>. QED
      BY <1>3, <3>1
  <2>2. SizeOf(a2) = d.initial * PageSize
    BY <1>1, <2>1 DEF SizeOf
  <2>3. d.initial * PageSize <= HardMax * PageSize /\ HardMax * PageSize \in Nat
        /\ d.initial * PageSize \in Nat
    BY SizeAssumption
  <2>4. k \in Cell /\ Below(k, d.initial)
    BY <1>3, <2>2, <2>3 DEF Cell, Below
  <2>. QED
    BY <2>1, <2>4 DEF Blank
<1>4. ASSUME NEW k \in 0..(SizeOf(a2) - 1)
      PROVE  a2.mem[k] = FreshMem(d)[k]
  <2>1. k \in Cell /\ a.mem[k] = Zero
    BY <1>3
  <2>. DEFINE W == {i \in Active(d) : Covers(d.data[i], k)}
  <2>2. WithData(a.mem, d, Active(d))[k] =
          IF W = {} THEN a.mem[k] ELSE d.data[LastOf(W)].bytes[k - d.data[LastOf(W)].offset + 1]
    BY <2>1 DEF WithData, LastOf
  <2>3. Byte(d, k) =
          IF W = {} THEN Zero ELSE d.data[LastOf(W)].bytes[k - d.data[LastOf(W)].offset + 1]
    BY DEF Byte
  <2>. HIDE DEF W
  <2>4. WithData(a.mem, d, Active(d))[k] = Byte(d, k)
    BY <2>1, <2>2, <2>3
  <2>. QED
    BY <1>1, <1>2, <1>4, <2>4 DEF FreshMem
<1>. QED
  BY <1>2, <1>4 DEF MemOf, FreshMem

\* The table after the fill and the element segments.
LEMMA FreshEntries ==
  ASSUME InstanceInv, NEW c \in Contexts, NEW m \in Mods, NEW d, d = Def[m],
         d.tables = 0 \/ ElemOk(d),
         NEW x, x.mod = m, NEW tp, tp = TablePage(c, m),
         d.tables = 1 => x.alt = AltTable(m, ctx[c].alt)
  PROVE  TableOf(x, tp) = FreshTable(m, d)
<1>1. d \in Declaration /\ d.tables \in {0, 1} /\ d.tinit \in Nat /\ ctx[c].alt \in Seq(TableWord)
  BY Declared DEF InstanceInv, TypeInv, ContextType
<1>2. CASE d.tables = 0
  <2>1. d.tables * d.tinit = 0
    BY <1>1, <1>2
  <2>2. 0..(d.tables * d.tinit - 1) = {}
    BY <2>1
  <2>. QED
    BY <2>2 DEF TableOf, FreshTable
<1>3. CASE d.tables = 1
  <2>1. d.tables * d.tinit = d.tinit
    BY <1>1, <1>3
  <2>2. ElemCopied(d) = ActiveElems(d)
    BY <1>1, <1>3, AllCopied
  <2>3. ASSUME NEW e \in 0..(d.tinit - 1) PROVE SlotOf(x, tp, e) = TableEntry(m, e)
    <3>1. e \in Entries(m)
      BY <2>3 DEF Entries
    <3>2. CASE indirect_table(m)
      BY <1>1, <1>3, <3>1, <3>2, AltTableWritten DEF SlotOf
    <3>3. CASE ~indirect_table(m)
      BY <1>1, <1>3, <3>1, <3>3, TablePageWritten DEF SlotOf
    <3>. QED
      BY <3>2, <3>3
  <2>4. ASSUME NEW e \in 0..(d.tinit - 1) PROVE TableEntry(m, e) = Element(m, d, e)
    BY <2>2 DEF TableEntry, Element, LastOf
  <2>. QED
    BY <2>1, <2>3, <2>4 DEF TableOf, FreshTable
<1>. QED
  BY <1>1, <1>2, <1>3

\* A reset that succeeds leaves what the module declares and nothing else, and
\* it succeeds only if every active segment fits.
LEMMA ResetFresh ==
  ASSUME InstanceInv, InstanceInv', NEW c \in Contexts, NEW opt \in MaxPagesOptions,
         Initialize(c, opt), owner' = c
  PROVE  Presented' = WI!Fresh(ctx[c].mod) /\ WI!Fits(ctx[c].mod) /\ ctx[c].mod \in Mods
<1>. DEFINE m == ctx[c].mod
            d == Def[m]
<1>1. c # NoContext /\ m \in Mods /\ ctx \in [Contexts -> ContextType]
  BY ContextAssumption DEF InstanceInv, TypeInv, ContextType
<1>2. d \in Declaration /\ d.initial \in 0..HardMax /\ d.memories \in {0, 1} /\ d = D(c)
      /\ d.tables \in {0, 1}
  BY <1>1, Declared DEF D
<1>3. PICK e1 \in MprotectErrors, e2 \in MprotectErrors :
        LET r == AllocatorReset(c, e1, e2) IN r.ok /\ ResetWith(c, Limit(opt), r.a)
  BY <1>1, InitializeCases DEF Refused
<1>. DEFINE r == AllocatorReset(c, e1, e2)
<1>4. r.ok /\ ResetWith(c, Limit(opt), r.a)
  BY <1>3
<1>5. Limit(opt) \in 0..HardMax
  BY OptionAssumption, SizeAssumption DEF Limit
<1>6. /\ r.a \in Allocator
      /\ d.memories = 0 => r.a.page = -1
      /\ d.memories = 1 => r.a.page = d.initial /\ Blank(r.a, d.initial)
  BY <1>2, <1>4, AllocatorResetCall
<1>7. wa' = [r.a EXCEPT !.mem = WithData(@, d, DataCopied(d))]
  BY <1>4 DEF ResetWith
<1>. HIDE DEF r
<1>8. PICK x \in ContextType :
        /\ ctx' = [ctx EXCEPT ![c] = x] /\ x.mod = m
        /\ DataOk(d) /\ (d.tables = 0 \/ ElemOk(d)) /\ tpage' = TablePage(c, m)
        /\ x.dropped_data = DataFlags(d) /\ x.globals = d.globals
        /\ d.tables = 1 => x.dropped_elems = ElemDropped(d) /\ x.alt = AltTable(m, ctx[c].alt)
  BY <1>4, <1>5, <1>6, ResetWithFields
<1>9. ctx'[c] = x
  BY <1>1, <1>8
<1>. HIDE DEF m, d
<1>10. Presented' = ViewOf(x, wa', tpage')
  BY <1>1, <1>9, PresentedThen DEF PresentsOwn
<1>11. MemOf(wa') = FreshMem(d)
  BY <1>2, <1>6, <1>7, <1>8, FreshMemory
<1>12. TableOf(x, tpage') = FreshTable(m, d)
  BY <1>1, <1>8, FreshEntries DEF m, d
<1>13. DataOf(x) = DOMAIN d.data \ Active(d)
  BY <1>2, <1>8, AllCopied DEF DataOf, d
<1>14. ElemsOf(x) = FreshElems(d)
  BY <1>2, <1>8, AllCopied DEF ElemsOf, FreshElems, d
<1>15. Presented' = WI!Fresh(m)
  <2>1. WI!Fresh(m) = Inst(m, FreshMem(d), FreshTable(m, d), d.globals,
                           DOMAIN d.data \ Active(d), FreshElems(d))
    BY FreshIs DEF d
  <2>2. Presented' = Inst(x.mod, MemOf(wa'), TableOf(x, tpage'), x.globals, DataOf(x), ElemsOf(x))
    BY <1>10 DEF ViewOf
  <2>. QED
    BY <1>8, <1>11, <1>12, <1>13, <1>14, <2>1, <2>2
<1>16. WI!Fits(m)
  <2>1. \A i \in DOMAIN d.data : ~d.data[i].passive => SegFits(d, d.data[i])
    BY <1>8 DEF DataOk
  <2>2. \A i \in DOMAIN d.elems : d.elems[i].mode = "active" => ElemFits(d, d.elems[i])
    <3>1. CASE ElemOk(d)
      BY <3>1 DEF ElemOk
    <3>2. CASE d.tables = 0
      BY <1>1, <3>2, ModuleAssumption DEF Validated, d
    <3>. QED
      BY <1>8, <3>1, <3>2
  <2>. QED
    BY <2>1, <2>2 DEF WI!Fits, SegFits, ElemFits, d
<1>. QED
  BY <1>1, <1>15, <1>16 DEF m

\* A reset that succeeds leaves exactly what the module declares, whatever ran
\* before in the shared memory and table page and whichever mprotect failed
\* (backend::initialize, reset, wasm_allocator::reset).
THEOREM ResetAlwaysPristine == Spec => ResetIsPristine
<1>1. InstanceInv /\ InstanceInv' =>
        [\A c \in Contexts : owner' = c /\ (\E n \in MaxPagesOptions : Initialize(c, n))
                               => Presented' = WI!Fresh(ctx[c].mod)]_vars
  BY ResetFresh
<1>. QED
  BY <1>1, InstanceInvariant, PTL DEF ResetIsPristine

-----------------------------------------------------------------------------
(* Steps of the running instance.                                          *)

\* A range of n numbers from 0 has n elements.
LEMMA Sizes ==
  ASSUME NEW n \in Nat, NEW f, DOMAIN f = 0..(n - 1)
  PROVE  WI!Size(f) = n /\ WI!Lengths(f) = 0..n
<1>1. Cardinality(0..(n - 1)) = n
  BY FS_Interval
<1>2. WI!Size(f) = n
  BY <1>1 DEF WI!Size, WI!Cardinality, Cardinality
<1>. QED
  BY <1>2 DEF WI!Lengths

\* Changing a part of an instance.
LEMMA Parts ==
  ASSUME NEW m, NEW me, NEW ta, NEW g, NEW da, NEW el, NEW i, i = Inst(m, me, ta, g, da, el)
  PROVE  /\ i # <<>>
         /\ i.mod = m /\ i.mem = me /\ i.table = ta /\ i.globals = g /\ i.data = da /\ i.elems = el
         /\ \A y : [i EXCEPT !.mem = y] = Inst(m, y, ta, g, da, el)
         /\ \A y : [i EXCEPT !.table = y] = Inst(m, me, y, g, da, el)
         /\ \A y : [i EXCEPT !.globals = y] = Inst(m, me, ta, y, da, el)
         /\ \A y : [i EXCEPT !.data = y] = Inst(m, me, ta, g, y, el)
         /\ \A y : [i EXCEPT !.elems = y] = Inst(m, me, ta, g, da, y)
<1>1. i # <<>>
  <2>1. "mod" \in DOMAIN i
    BY DEF Inst
  <2>2. "mod" \notin DOMAIN <<>>
    OBVIOUS
  <2>. QED
    BY <2>1, <2>2
<1>. QED
  BY <1>1 DEF Inst

\* A step of the running context that keeps the allocator.
Steps(c) == InstanceInv /\ InstanceInv' /\ Running(c) /\ owner' = owner

\* What is presented before and after such a step.
LEMMA Views ==
  ASSUME NEW c \in Contexts, Steps(c)
  PROVE  /\ owner = c /\ ctx[c] \in ContextType /\ ctx[c].mod \in Mods /\ D(c) \in Declaration
         /\ Presented = ViewOf(ctx[c], wa, tpage) /\ Presented' = ViewOf(ctx'[c], wa', tpage')
         /\ WI!Live /\ WI!D = D(c) /\ Presented.mod = ctx[c].mod /\ Presented.mem = MemOf(wa)
         /\ Presented.table = TableOf(ctx[c], tpage) /\ Presented.globals = ctx[c].globals
         /\ Presented.data = DataOf(ctx[c]) /\ Presented.elems = ElemsOf(ctx[c])
<1>1. /\ owner = c /\ owner # NoContext /\ ctx[c] \in ContextType /\ ctx[c].mod \in Mods
      /\ D(c) \in Declaration /\ owner' = c
  BY RunningOwns DEF Steps
<1>2. Presented = ViewOf(ctx[c], wa, tpage)
  BY <1>1, PresentedIs DEF Steps, PresentsOwn
<1>3. Presented' = ViewOf(ctx'[c], wa', tpage')
  BY <1>1, PresentedThen DEF Steps, PresentsOwn
<1>4. /\ Presented # <<>> /\ Presented.mod = ctx[c].mod /\ Presented.mem = MemOf(wa)
      /\ Presented.table = TableOf(ctx[c], tpage) /\ Presented.globals = ctx[c].globals
      /\ Presented.data = DataOf(ctx[c]) /\ Presented.elems = ElemsOf(ctx[c])
  BY <1>2, Parts DEF ViewOf
<1>. QED
  BY <1>1, <1>2, <1>3, <1>4 DEF WI!Live, WI!None, WI!D, D

\* A step that changes memory only.
LEMMA MemoryView ==
  ASSUME NEW c \in Contexts, Steps(c), UNCHANGED <<tpage, ctx>>
  PROVE  Presented' = [Presented EXCEPT !.mem = MemOf(wa')]
<1>1. /\ Presented = ViewOf(ctx[c], wa, tpage) /\ Presented' = ViewOf(ctx[c], wa', tpage)
  BY Views
<1>. QED
  BY <1>1, Parts DEF ViewOf

\* The size of the memory.
LEMMA MemorySize ==
  ASSUME NEW a \in Allocator
  PROVE  /\ SizeOf(a) \in Nat /\ DOMAIN MemOf(a) = 0..(SizeOf(a) - 1)
         /\ \A k \in 0..(SizeOf(a) - 1) : k \in Cell /\ MemOf(a)[k] = a.mem[k]
         /\ \A k \in Cell : k \in 0..(SizeOf(a) - 1) <=> Below(k, a.page)
<1>1. a.page \in -1..HardMax
  BY DEF Allocator
<1>2. SizeOf(a) \in Nat /\ SizeOf(a) <= HardMax * PageSize /\ HardMax * PageSize \in Nat
  BY <1>1, SizeAssumption DEF SizeOf
<1>3. \A k \in 0..(SizeOf(a) - 1) : k \in Cell
  BY <1>2 DEF Cell
<1>4. \A k \in Cell : k \in 0..(SizeOf(a) - 1) <=> Below(k, a.page)
  <2>. SUFFICES ASSUME NEW k \in Cell PROVE k \in 0..(SizeOf(a) - 1) <=> Below(k, a.page)
    OBVIOUS
  <2>1. k \in Nat
    BY <1>2 DEF Cell
  <2>2. CASE a.page < 0
    <3>1. a.page = -1 /\ SizeOf(a) = 0
      BY <1>1, <2>2 DEF SizeOf
    <3>. QED
      BY <2>1, <3>1, SizeAssumption DEF Below
  <2>3. CASE a.page >= 0
    <3>. DEFINE z == a.page * PageSize
    <3>1. SizeOf(a) = z /\ (Below(k, a.page) <=> k < z)
      BY <1>1, <2>3 DEF SizeOf, Below
    <3>. HIDE DEF z
    <3>. QED
      BY <1>2, <2>1, <3>1
  <2>. QED
    BY <1>1, <2>2, <2>3
<1>. QED
  BY <1>2, <1>3, <1>4 DEF MemOf

\* The cells of the presented memory are the allocator's.
LEMMA PresentedCells ==
  ASSUME NEW c \in Contexts, Steps(c)
  PROVE  /\ SizeOf(wa) \in Nat /\ WI!Size(Presented.mem) = SizeOf(wa)
         /\ WI!Lengths(Presented.mem) = 0..SizeOf(wa)
         /\ DOMAIN Presented.mem = 0..(SizeOf(wa) - 1)
         /\ \A k \in DOMAIN Presented.mem : k \in Cell /\ Presented.mem[k] = wa.mem[k]
<1>1. wa \in Allocator /\ Presented.mem = MemOf(wa)
  BY Views DEF Steps, InstanceInv, TypeInv
<1>2. /\ SizeOf(wa) \in Nat /\ DOMAIN Presented.mem = 0..(SizeOf(wa) - 1)
      /\ \A k \in 0..(SizeOf(wa) - 1) : k \in Cell /\ Presented.mem[k] = wa.mem[k]
  BY <1>1, MemorySize
<1>. QED
  BY <1>2, Sizes

\* A range that validate_pointer accepts lies inside the presented memory.
LEMMA AcceptedInside ==
  ASSUME NEW c \in Contexts, Steps(c), MprotectWorks, NEW ptr \in Nat, NEW len \in Nat,
         ValidatePointer(wa, ptr, len)
  PROVE  /\ ptr \in WI!Lengths(Presented.mem) /\ len \in WI!Lengths(Presented.mem)
         /\ ptr + len <= WI!Size(Presented.mem)
<1>1. wa \in Allocator /\ Exact(wa)
  BY DEF Steps, InstanceInv, TypeInv
<1>2. wa.page >= 0 /\ ptr + len <= wa.page * PageSize
  BY <1>1, PointerInBounds
<1>3. SizeOf(wa) = wa.page * PageSize
  BY <1>1, <1>2 DEF SizeOf, Allocator
<1>. DEFINE z == SizeOf(wa)
<1>4. ptr + len <= z /\ z \in Nat
  BY <1>2, <1>3, PresentedCells
<1>. HIDE DEF z
<1>5. ptr \in 0..z /\ len \in 0..z
  BY <1>4
<1>. QED
  BY <1>4, <1>5, PresentedCells DEF z

\* A step that rewrites cells of memory.
LEMMA MemoryRewritten ==
  ASSUME NEW c \in Contexts, Steps(c), UNCHANGED <<tpage, ctx>>,
         NEW me, wa' = [wa EXCEPT !.mem = me],
         NEW f, f = [k \in DOMAIN Presented.mem |-> f[k]], \A k \in DOMAIN Presented.mem : f[k] = me[k]
  PROVE  Presented' = [Presented EXCEPT !.mem = f]
<1>1. wa \in Allocator /\ DOMAIN Presented.mem = 0..(SizeOf(wa) - 1)
  BY PresentedCells DEF Steps, InstanceInv, TypeInv
<1>2. wa'.page = wa.page /\ wa'.mem = me
  BY <1>1 DEF Allocator
<1>3. MemOf(wa') = [k \in 0..(SizeOf(wa) - 1) |-> me[k]]
  BY <1>2 DEF MemOf, SizeOf
<1>4. MemOf(wa') = f
  BY <1>1, <1>3
<1>. QED
  BY <1>4, MemoryView

\* What the refinement asks of a step.
Refines == WI!Next \/ UNCHANGED Presented

\* A store instruction: what page protection lets through is in the memory.
LEMMA StoreRefines ==
  ASSUME InstanceInv, InstanceInv', MprotectWorks, NEW c \in Contexts,
         NEW cell \in Cell, NEW v \in Values, Store(c, cell, v)
  PROVE  Refines
<1>1. Steps(c) /\ UNCHANGED <<tpage, ctx>> /\ Readable(wa, cell) /\ wa' = [wa EXCEPT !.mem[cell] = v]
  BY DEF Store, Steps
<1>. DEFINE me == [wa.mem EXCEPT ![cell] = v]
            f  == [Presented.mem EXCEPT ![cell] = v]
<1>2. wa \in Allocator /\ Exact(wa) /\ wa' = [wa EXCEPT !.mem = me] /\ cell \in Nat
  BY <1>1, SizeAssumption DEF Steps, InstanceInv, TypeInv, Allocator, Cell
<1>3. cell \in DOMAIN Presented.mem
  <2>1. ValidatePointer(wa, cell, 1)
    BY <1>1, <1>2 DEF ValidatePointer
  <2>2. cell + 1 <= WI!Size(Presented.mem)
    BY <1>1, <1>2, <2>1, AcceptedInside
  <2>. QED
    BY <1>1, <1>2, <2>2, PresentedCells
<1>4. \A k \in DOMAIN Presented.mem : f[k] = me[k]
  BY <1>1, <1>2, PresentedCells DEF Allocator
<1>5. f = [k \in DOMAIN Presented.mem |-> f[k]]
  OBVIOUS
<1>. HIDE DEF me, f
<1>6. Presented' = [Presented EXCEPT !.mem = f]
  BY <1>1, <1>2, <1>4, <1>5, MemoryRewritten
<1>7. WI!Live /\ WI!Store
  BY <1>1, <1>3, <1>6, Views DEF WI!Store, f
<1>. QED
  BY <1>7 DEF Refines, WI!Next, WI!MemoryStep

\* memory.fill
LEMMA MemoryFillRefines ==
  ASSUME InstanceInv, InstanceInv', MprotectWorks, NEW c \in Contexts,
         NEW d \in Addr, NEW n \in Addr, NEW v \in Values, MemoryFill(c, d, v, n)
  PROVE  Refines
<1>. DEFINE me == [k \in Cell |-> IF d <= k /\ k < d + n THEN v ELSE wa.mem[k]]
            f  == WI!Set(Presented.mem, d, n, LAMBDA k : v)
<1>1. Steps(c) /\ UNCHANGED <<tpage, ctx>> /\ ValidatePointer(wa, d, n) /\ wa' = [wa EXCEPT !.mem = me]
  BY DEF MemoryFill, Steps, InstanceInv, TypeInv, Allocator
<1>2. d \in Nat /\ n \in Nat
  BY SizeAssumption DEF Addr
<1>3. f = [k \in DOMAIN Presented.mem |-> IF d <= k /\ k < d + n THEN v ELSE Presented.mem[k]]
  BY DEF WI!Set
<1>4. \A k \in DOMAIN Presented.mem : f[k] = me[k]
  BY <1>1, <1>3, PresentedCells
<1>5. f = [k \in DOMAIN Presented.mem |-> f[k]]
  BY <1>3
<1>. HIDE DEF me, f
<1>6. Presented' = [Presented EXCEPT !.mem = f]
  BY <1>1, <1>4, <1>5, MemoryRewritten
<1>7. /\ d \in WI!Lengths(Presented.mem) /\ n \in WI!Lengths(Presented.mem)
      /\ d + n <= WI!Size(Presented.mem) /\ WI!Live
  BY <1>1, <1>2, Views, AcceptedInside
<1>8. WI!MemoryFill
  BY <1>6, <1>7 DEF WI!MemoryFill, f
<1>. QED
  BY <1>7, <1>8 DEF Refines, WI!Next, WI!MemoryStep

\* memory.copy, overlapping ranges included: both read the memory before.
LEMMA MemoryCopyRefines ==
  ASSUME InstanceInv, InstanceInv', MprotectWorks, NEW c \in Contexts,
         NEW d \in Addr, NEW s \in Addr, NEW n \in Addr, MemoryCopy(c, d, s, n)
  PROVE  Refines
<1>. DEFINE me == [k \in Cell |-> IF d <= k /\ k < d + n THEN wa.mem[k - d + s] ELSE wa.mem[k]]
            f  == WI!Set(Presented.mem, d, n, LAMBDA k : Presented.mem[s + k])
<1>1. /\ Steps(c) /\ UNCHANGED <<tpage, ctx>> /\ ValidatePointer(wa, d, n) /\ ValidatePointer(wa, s, n)
      /\ wa' = [wa EXCEPT !.mem = me]
  BY DEF MemoryCopy, Steps, InstanceInv, TypeInv, Allocator
<1>2. d \in Nat /\ s \in Nat /\ n \in Nat
  BY SizeAssumption DEF Addr
<1>3. /\ d \in WI!Lengths(Presented.mem) /\ s \in WI!Lengths(Presented.mem)
      /\ n \in WI!Lengths(Presented.mem) /\ WI!Live
      /\ d + n <= WI!Size(Presented.mem) /\ s + n <= WI!Size(Presented.mem)
  BY <1>1, <1>2, Views, AcceptedInside
<1>4. f = [k \in DOMAIN Presented.mem |->
             IF d <= k /\ k < d + n THEN Presented.mem[s + (k - d)] ELSE Presented.mem[k]]
  BY DEF WI!Set
<1>5. ASSUME NEW k \in DOMAIN Presented.mem PROVE f[k] = me[k]
  <2>1. k \in Cell /\ k \in Nat /\ Presented.mem[k] = wa.mem[k]
    BY <1>1, <1>5, PresentedCells
  <2>2. CASE d <= k /\ k < d + n
    <3>1. s + (k - d) = k - d + s /\ s + (k - d) \in DOMAIN Presented.mem
      <4>1. /\ DOMAIN Presented.mem = 0..(SizeOf(wa) - 1) /\ SizeOf(wa) \in Nat
            /\ s + n <= SizeOf(wa)
        BY <1>1, <1>3, PresentedCells
      <4>2. s + (k - d) \in 0..(SizeOf(wa) - 1)
        BY <1>2, <2>1, <2>2, <4>1
      <4>. QED
        BY <1>2, <2>1, <4>1, <4>2
    <3>2. Presented.mem[s + (k - d)] = wa.mem[k - d + s]
      BY <1>1, <3>1, PresentedCells
    <3>. QED
      BY <1>4, <2>1, <2>2, <3>2
  <2>3. CASE ~(d <= k /\ k < d + n)
    BY <1>4, <2>1, <2>3
  <2>. QED
    BY <2>2, <2>3
<1>6. f = [k \in DOMAIN Presented.mem |-> f[k]]
  BY <1>4
<1>. HIDE DEF me, f
<1>7. Presented' = [Presented EXCEPT !.mem = f]
  BY <1>1, <1>5, <1>6, MemoryRewritten
<1>8. WI!MemoryCopy
  BY <1>3, <1>7 DEF WI!MemoryCopy, f
<1>. QED
  BY <1>3, <1>8 DEF Refines, WI!Next, WI!MemoryStep

\* memory.init: of a dropped segment, only the empty range is accepted.
LEMMA MemoryInitRefines ==
  ASSUME InstanceInv, InstanceInv', MprotectWorks, NEW c \in Contexts, NEW x \in D(c).data_x,
         NEW d \in Addr, NEW s \in Addr, NEW n \in Addr, MemoryInit(c, x, d, s, n)
  PROVE  Refines
<1>. DEFINE b  == D(c).data[x].bytes
            me == [k \in Cell |-> IF d <= k /\ k < d + n THEN b[k - d + s + 1] ELSE wa.mem[k]]
            f  == WI!Set(Presented.mem, d, n, LAMBDA k : b[s + k + 1])
<1>1. /\ Steps(c) /\ UNCHANGED <<tpage, ctx>> /\ ValidatePointer(wa, d, n)
      /\ s + n <= IF ctx[c].dropped_data[x] THEN 0 ELSE Len(b)
      /\ wa' = [wa EXCEPT !.mem = me]
  BY DEF MemoryInit, Steps, InstanceInv, TypeInv, Allocator
<1>2. d \in Nat /\ s \in Nat /\ n \in Nat
  BY SizeAssumption DEF Addr
<1>3. x \in DOMAIN D(c).data /\ Len(b) \in Nat
  <2>1. D(c) \in Declaration /\ D(c).data_x \subseteq DOMAIN D(c).data
    BY <1>1, Views, Declared DEF D
  <2>2. b \in Seq(Values)
    BY <2>1, DataSegment
  <2>. QED
    BY <2>1, <2>2
<1>4. f = [k \in DOMAIN Presented.mem |->
             IF d <= k /\ k < d + n THEN b[s + (k - d) + 1] ELSE Presented.mem[k]]
  BY DEF WI!Set
<1>5. ASSUME NEW k \in DOMAIN Presented.mem PROVE f[k] = me[k]
  <2>1. k \in Cell /\ k \in Nat /\ Presented.mem[k] = wa.mem[k]
    BY <1>1, <1>5, PresentedCells
  <2>2. s + (k - d) + 1 = k - d + s + 1
    BY <1>2, <2>1
  <2>. HIDE DEF b
  <2>. QED
    BY <1>4, <2>1, <2>2
<1>6. f = [k \in DOMAIN Presented.mem |-> f[k]]
  BY <1>4
<1>. HIDE DEF me, f
<1>7. Presented' = [Presented EXCEPT !.mem = f]
  BY <1>1, <1>5, <1>6, MemoryRewritten
<1>8. CASE ctx[c].dropped_data[x]
  <2>1. n = 0
    BY <1>1, <1>2, <1>8
  <2>2. \A k \in DOMAIN Presented.mem : ~(d <= k /\ k < d + n)
    BY <1>1, <1>2, <2>1, PresentedCells
  <2>3. f = [k \in DOMAIN Presented.mem |-> Presented.mem[k]]
    BY <1>4, <2>2
  <2>4. f = MemOf(wa)
    BY <1>1, <2>3, Views DEF MemOf
  <2>5. Presented' = Presented
    BY <1>1, <1>7, <2>4, Views, Parts DEF ViewOf
  <2>. QED
    BY <2>5 DEF Refines
<1>9. CASE ~ctx[c].dropped_data[x]
  <2>1. x \in Presented.data /\ WI!D = D(c) /\ WI!Live
    BY <1>1, <1>3, <1>9, Views DEF DataOf, D
  <2>2. /\ d \in WI!Lengths(Presented.mem) /\ n \in WI!Lengths(Presented.mem)
        /\ d + n <= WI!Size(Presented.mem)
    BY <1>1, <1>2, AcceptedInside
  <2>3. s \in 0..(Len(b) - n)
    BY <1>1, <1>2, <1>3, <1>9
  <2>4. Presented' = [Presented EXCEPT !.mem = WI!Set(@, d, n, LAMBDA k : WI!D.data[x].bytes[s + k + 1])]
    BY <1>7, <2>1 DEF f
  <2>5. s \in 0..(Len(WI!D.data[x].bytes) - n)
    BY <2>1, <2>3
  <2>6. WI!MemoryInit
    BY <2>1, <2>2, <2>4, <2>5 DEF WI!MemoryInit
  <2>. QED
    BY <2>1, <2>6 DEF Refines, WI!Next, WI!MemoryStep
<1>. QED
  BY <1>8, <1>9

\* memory.grow, with failures of mprotect: old pages are kept, new ones zero.
LEMMA GrowRefines ==
  ASSUME InstanceInv, InstanceInv', NEW c \in Contexts, NEW pages \in Growths, Grow(c, pages)
  PROVE  Refines
<1>1. PICK err \in MprotectErrors :
        /\ IF pages < 0 THEN wa.page + pages >= 0 ELSE CanGrow(c, wa.page, pages)
        /\ wa' = (IF pages < 0 THEN Free(wa, -pages, err) ELSE Alloc(wa, pages, err)).a
  BY DEF Grow
<1>2. Steps(c) /\ UNCHANGED <<tpage, ctx>>
  BY DEF Grow, Steps
<1>3. /\ wa \in Allocator /\ wa' \in Allocator /\ wa.page \in Int /\ pages \in Int /\ err \in BOOLEAN
      /\ owner = c /\ owner' = c /\ D(c).memories \in {0, 1} /\ ctx[c].max_pages \in 0..HardMax
      /\ c # NoContext
  <2>1. wa \in Allocator /\ wa' \in Allocator /\ pages \in Int /\ err \in BOOLEAN
    BY GrowthAssumption, ErrorAssumption DEF InstanceInv, TypeInv
  <2>2. wa.page \in Int
    BY <2>1 DEF Allocator
  <2>3. owner = c /\ owner' = c /\ c # NoContext /\ ctx[c] \in ContextType /\ ctx[c].mod \in Mods
    BY <1>2, Views, ContextAssumption DEF Steps
  <2>. QED
    BY <2>1, <2>2, <2>3, Declared DEF ContextType, D
<1>4. Sized(ctx[c], wa.page) /\ Sized(ctx[c], wa'.page)
  BY <1>2, <1>3 DEF Steps, InstanceInv, Owned
<1>5. D(c).memories = 1
  BY <1>1, <1>3, <1>4 DEF Sized, CanGrow, D
<1>. DEFINE p == wa'.page
<1>6. /\ p \in 0..HardMax /\ (D(c).flags => p <= D(c).maximum)
      /\ wa'.page \in Nat /\ wa.page \in Nat
  BY <1>3, <1>4, <1>5 DEF Sized, D, Allocator
<1>7. \A k \in Cell : wa'.mem[k] = wa.mem[k]
                      \/ (~Below(k, wa.page) /\ wa'.mem[k] = Zero)
  <2>1. CASE pages < 0
    <3>1. -pages \in Nat
      BY <1>3, <2>1
    <3>. QED
      BY <1>1, <1>3, <2>1, <3>1, FreeCall
  <2>2. CASE ~(pages < 0)
    <3>1. pages \in Nat
      BY <1>3, <2>2
    <3>. QED
      BY <1>1, <1>3, <2>2, <3>1, AllocCall
  <2>. QED
    BY <2>1, <2>2
<1>8. \A k \in Cell : ~Below(k, wa.page) /\ Below(k, wa'.page) => wa'.mem[k] = Zero
  <2>. SUFFICES ASSUME NEW k \in Cell, ~Below(k, wa.page), Below(k, wa'.page) PROVE wa'.mem[k] = Zero
    OBVIOUS
  <2>1. CASE pages < 0
    <3>1. -pages \in Nat
      BY <1>3, <2>1
    <3>2. wa'.page <= wa.page
      BY <1>1, <1>3, <2>1, <3>1, FreeCall
    <3>3. wa'.page * PageSize <= wa.page * PageSize /\ k \in Int /\ wa'.page * PageSize \in Int
          /\ wa.page * PageSize \in Int
      BY <1>6, <3>2, SizeAssumption DEF Cell
    <3>. QED
      BY <3>3 DEF Below
  <2>2. CASE ~(pages < 0)
    <3>1. pages \in Nat
      BY <1>3, <2>2
    <3>. QED
      BY <1>1, <1>3, <2>2, <3>1, AllocCall
  <2>. QED
    BY <2>1, <2>2
<1>. DEFINE f == [k \in WI!Upto(p * PageSize) |-> IF k \in DOMAIN Presented.mem THEN Presented.mem[k] ELSE Zero]
<1>9. SizeOf(wa') = p * PageSize
  BY <1>6 DEF SizeOf
<1>10. MemOf(wa') = f
  <2>1. ASSUME NEW k \in 0..(SizeOf(wa') - 1)
        PROVE  wa'.mem[k] = IF k \in DOMAIN Presented.mem THEN Presented.mem[k] ELSE Zero
    <3>1. k \in Cell /\ Below(k, wa'.page)
      BY <1>3, <2>1, MemorySize
    <3>2. k \in DOMAIN Presented.mem <=> Below(k, wa.page)
      BY <1>2, <1>3, <3>1, MemorySize, PresentedCells
    <3>3. k \in DOMAIN Presented.mem => Presented.mem[k] = wa.mem[k]
      BY <1>2, PresentedCells
    <3>. QED
      BY <1>7, <1>8, <3>1, <3>2, <3>3
  <2>. QED
    BY <1>9, <2>1 DEF MemOf, WI!Upto
<1>11. Presented' = [Presented EXCEPT !.mem = f]
  BY <1>2, <1>10, MemoryView
<1>. HIDE DEF p
<1>12. WI!Live /\ WI!Grow
  BY <1>2, <1>5, <1>6, <1>11, Views DEF WI!Grow
<1>. QED
  BY <1>12 DEF Refines, WI!Next, WI!MemoryStep

-----------------------------------------------------------------------------
(* Steps that change the running context.                                  *)

\* What is presented after such a step.
LEMMA ContextView ==
  ASSUME NEW c \in Contexts, Steps(c), NEW x, ctx' = [ctx EXCEPT ![c] = x], UNCHANGED <<wa, tpage>>
  PROVE  Presented' = ViewOf(x, wa, tpage)
<1>1. ctx'[c] = x
  BY DEF Steps, InstanceInv, TypeInv
<1>. QED
  BY <1>1, Views

\* data.drop: dropping twice changes nothing.
LEMMA DropDataRefines ==
  ASSUME InstanceInv, InstanceInv', NEW c \in Contexts, NEW i \in D(c).data_x, DropData(c, i)
  PROVE  Refines
<1>. DEFINE f == [ctx[c].dropped_data EXCEPT ![i] = TRUE]
            x == [ctx[c] EXCEPT !.dropped_data = f]
<1>1. Steps(c) /\ ctx' = [ctx EXCEPT ![c] = x] /\ UNCHANGED <<wa, tpage>>
  BY DEF DropData, Steps
<1>2. /\ ctx[c] \in ContextType /\ i \in DOMAIN D(c).data /\ DOMAIN ctx[c].dropped_data = DOMAIN D(c).data
      /\ ctx[c].dropped_data \in Seq(BOOLEAN)
  <2>1. ctx[c] \in ContextType /\ Flagged(ctx[c]) /\ D(c).data_x \subseteq DOMAIN D(c).data
    BY <1>1, RunningOwns, Declared DEF Steps, Owned, D
  <2>. QED
    BY <2>1 DEF Flagged, ContextType, D
<1>3. /\ x.mod = ctx[c].mod /\ x.globals = ctx[c].globals /\ x.alt = ctx[c].alt
      /\ x.dropped_elems = ctx[c].dropped_elems /\ x.dropped_data = f
  BY <1>2 DEF ContextType
<1>4. DataOf(x) = DataOf(ctx[c]) \ {i}
  BY <1>2, <1>3 DEF DataOf, D
<1>5. Presented' = ViewOf(x, wa, tpage)
  BY <1>1, ContextView
<1>. HIDE DEF x
<1>6. Presented' = [Presented EXCEPT !.data = Presented.data \ {i}]
  <2>1. TableOf(x, tpage) = TableOf(ctx[c], tpage) /\ ElemsOf(x) = ElemsOf(ctx[c])
    BY <1>3 DEF TableOf, SlotOf, ElemsOf
  <2>2. Presented = ViewOf(ctx[c], wa, tpage) /\ Presented.data = DataOf(ctx[c])
    BY <1>1, Views
  <2>3. Presented' = Inst(ctx[c].mod, MemOf(wa), TableOf(ctx[c], tpage), ctx[c].globals,
                          Presented.data \ {i}, ElemsOf(ctx[c]))
    BY <1>3, <1>4, <1>5, <2>1, <2>2 DEF ViewOf
  <2>4. \A y : [Presented EXCEPT !.data = y] = Inst(ctx[c].mod, MemOf(wa), TableOf(ctx[c], tpage),
                                                   ctx[c].globals, y, ElemsOf(ctx[c]))
    BY <2>2, Parts DEF ViewOf
  <2>. QED
    BY <2>3, <2>4
<1>7. CASE i \in Presented.data
  <2>1. WI!Live /\ WI!DropData
    BY <1>1, <1>6, <1>7, Views DEF WI!DropData
  <2>. QED
    BY <2>1 DEF Refines, WI!Next, WI!MemoryStep
<1>8. CASE i \notin Presented.data
  <2>1. Presented.data \ {i} = Presented.data
    BY <1>8
  <2>2. Presented' = Presented
    BY <1>1, <1>6, <2>1, Views, Parts DEF ViewOf
  <2>. QED
    BY <2>2 DEF Refines
<1>. QED
  BY <1>7, <1>8

\* elem.drop: without a table the instance has no element segments.
LEMMA DropElemRefines ==
  ASSUME InstanceInv, InstanceInv', NEW c \in Contexts, NEW i, DropElem(c, i)
  PROVE  Refines
<1>. DEFINE f == [ctx[c].dropped_elems EXCEPT ![i] = TRUE]
            x == [ctx[c] EXCEPT !.dropped_elems = f]
<1>1. Steps(c) /\ UNCHANGED <<wa, tpage>>
  BY DEF DropElem, Steps
<1>2. ctx[c] \in ContextType /\ Flagged(ctx[c]) /\ ctx[c].dropped_elems \in Seq(BOOLEAN)
      /\ D(c).tables \in {0, 1}
  <2>1. ctx[c] \in ContextType /\ Flagged(ctx[c]) /\ ctx[c].mod \in Mods
    BY <1>1, RunningOwns DEF Steps, Owned
  <2>. QED
    BY <2>1, Declared DEF ContextType, D
<1>3. CASE UNCHANGED ctx
  BY <1>1, <1>3, Views DEF Refines
<1>4. CASE i \in DOMAIN ctx[c].dropped_elems /\ ctx' = [ctx EXCEPT ![c] = x]
  <2>1. /\ x.mod = ctx[c].mod /\ x.globals = ctx[c].globals /\ x.alt = ctx[c].alt
        /\ x.dropped_data = ctx[c].dropped_data /\ x.dropped_elems = f
    BY <1>2 DEF ContextType
  <2>2. ElemsOf(x) = ElemsOf(ctx[c]) \ {i}
    <3>1. CASE D(c).tables = 0
      BY <2>1, <3>1 DEF ElemsOf, D
    <3>2. CASE D(c).tables = 1
      <4>1. DOMAIN ctx[c].dropped_elems = DOMAIN D(c).elems
        BY <1>2, <3>2 DEF Flagged, D
      <4>. QED
        BY <1>2, <1>4, <2>1, <3>2, <4>1 DEF ElemsOf, D
    <3>. QED
      BY <1>2, <3>1, <3>2
  <2>3. Presented' = ViewOf(x, wa, tpage)
    BY <1>1, <1>4, ContextView
  <2>. HIDE DEF x
  <2>4. Presented' = [Presented EXCEPT !.elems = Presented.elems \ {i}]
    <3>1. TableOf(x, tpage) = TableOf(ctx[c], tpage) /\ DataOf(x) = DataOf(ctx[c])
      BY <2>1 DEF TableOf, SlotOf, DataOf
    <3>2. Presented = ViewOf(ctx[c], wa, tpage) /\ Presented.elems = ElemsOf(ctx[c])
      BY <1>1, Views
    <3>3. Presented' = Inst(ctx[c].mod, MemOf(wa), TableOf(ctx[c], tpage), ctx[c].globals,
                            DataOf(ctx[c]), Presented.elems \ {i})
      BY <2>1, <2>2, <2>3, <3>1, <3>2 DEF ViewOf
    <3>4. \A y : [Presented EXCEPT !.elems = y] = Inst(ctx[c].mod, MemOf(wa), TableOf(ctx[c], tpage),
                                                      ctx[c].globals, DataOf(ctx[c]), y)
      BY <3>2, Parts DEF ViewOf
    <3>. QED
      BY <3>3, <3>4
  <2>5. CASE i \in Presented.elems
    <3>1. WI!Live /\ WI!DropElem
      BY <1>1, <2>4, <2>5, Views DEF WI!DropElem
    <3>. QED
      BY <3>1 DEF Refines, WI!Next, WI!TableStep
  <2>6. CASE i \notin Presented.elems
    <3>1. Presented.elems \ {i} = Presented.elems
      BY <2>6
    <3>2. Presented' = Presented
      BY <1>1, <2>4, <3>1, Views, Parts DEF ViewOf
    <3>. QED
      BY <3>2 DEF Refines
  <2>. QED
    BY <2>5, <2>6
<1>. QED
  BY <1>3, <1>4 DEF DropElem

\* global.set through the globals pointer.
LEMMA SetGlobalRefines ==
  ASSUME InstanceInv, InstanceInv', NEW c \in Contexts, NEW i \in DOMAIN ctx[c].globals, NEW v \in Values,
         SetGlobal(c, i, v)
  PROVE  Refines
<1>. DEFINE f == [ctx[c].globals EXCEPT ![i] = v]
            x == [ctx[c] EXCEPT !.globals = f]
<1>1. Steps(c) /\ UNCHANGED <<wa, tpage>>
  BY DEF SetGlobal, Steps
<1>2. ctx[c] \in ContextType /\ Pointed(c, ctx[c], tpage)
  BY <1>1, RunningOwns DEF Steps, Owned
<1>3. GlobalsOwner = c
  BY <1>2 DEF GlobalsOwner, Pointed, Ptr
<1>4. ctx' = [ctx EXCEPT ![c] = x]
  BY <1>3 DEF SetGlobal
<1>5. /\ x.mod = ctx[c].mod /\ x.globals = f /\ x.alt = ctx[c].alt
      /\ x.dropped_data = ctx[c].dropped_data /\ x.dropped_elems = ctx[c].dropped_elems
  BY <1>2 DEF ContextType
<1>6. Presented' = ViewOf(x, wa, tpage)
  BY <1>1, <1>4, ContextView
<1>. HIDE DEF x, f
<1>7. Presented' = [Presented EXCEPT !.globals = f]
  <2>1. /\ TableOf(x, tpage) = TableOf(ctx[c], tpage)
        /\ DataOf(x) = DataOf(ctx[c]) /\ ElemsOf(x) = ElemsOf(ctx[c])
    BY <1>5 DEF TableOf, SlotOf, DataOf, ElemsOf
  <2>. QED
    BY <1>1, <1>5, <1>6, <2>1, Views, Parts DEF ViewOf
<1>8. Presented.globals = ctx[c].globals /\ WI!Live
  BY <1>1, Views
<1>9. WI!SetGlobal
  BY <1>7, <1>8 DEF WI!SetGlobal, f
<1>. QED
  BY <1>8, <1>9 DEF Refines, WI!Next

-----------------------------------------------------------------------------
(* Steps that change the running context's table.                          *)

\* The presented table is the one the context's module declares.
LEMMA PresentedEntries ==
  ASSUME NEW c \in Contexts, Steps(c), D(c).tables = 1
  PROVE  /\ D(c).tinit \in Nat /\ DOMAIN Presented.table = Entries(ctx[c].mod)
         /\ WI!Size(Presented.table) = D(c).tinit /\ WI!Lengths(Presented.table) = 0..D(c).tinit
         /\ Presented.table = [e \in Entries(ctx[c].mod) |-> SlotOf(ctx[c], tpage, e)]
         /\ \A e : SlotOf(ctx[c], tpage, e) = Entry(c, e)
<1>1. /\ owner = c /\ ctx[c].mod \in Mods /\ Presented.table = TableOf(ctx[c], tpage)
      /\ Pointed(c, ctx[c], tpage)
  BY Views, RunningOwns DEF Steps, Owned
<1>2. D(c).tinit \in Nat /\ D(c).tables * D(c).tinit = D(c).tinit
  BY <1>1, Declared DEF D
<1>3. Presented.table = [e \in Entries(ctx[c].mod) |-> SlotOf(ctx[c], tpage, e)]
  BY <1>1, <1>2 DEF TableOf, Entries, D
<1>4. DOMAIN Presented.table = 0..(D(c).tinit - 1)
  BY <1>3 DEF Entries, D
<1>5. \A e : SlotOf(ctx[c], tpage, e) = Entry(c, e)
  <2>1. indirect_table(ctx[c].mod) => AltOwner = c
    BY <1>1 DEF AltOwner, Pointed, Ptr
  <2>. QED
    BY <2>1 DEF Entry, SlotOf
<1>. QED
  BY <1>2, <1>3, <1>4, <1>5, Sizes DEF Entries, D

\* A step that sets the entries Q of the table to the values N.
LEMMA TableRewritten ==
  ASSUME NEW c \in Contexts, Steps(c), D(c).tables = 1, UNCHANGED wa,
         NEW Q, NEW N, EntriesSet(c, Q, N),
         NEW f, f = [e \in DOMAIN Presented.table |-> IF e \in Q THEN N[e] ELSE Presented.table[e]]
  PROVE  Presented' = [Presented EXCEPT !.table = f]
<1>. DEFINE m == ctx[c].mod
            x == ctx'[c]
<1>1. /\ owner = c /\ m \in Mods /\ ctx[c] \in ContextType /\ ctx \in [Contexts -> ContextType]
      /\ Presented = ViewOf(ctx[c], wa, tpage) /\ Presented' = ViewOf(x, wa, tpage')
  BY Views DEF Steps, InstanceInv, TypeInv
<1>2. /\ D(c).tinit \in Nat /\ DOMAIN Presented.table = Entries(m)
      /\ Presented.table = [e \in Entries(m) |-> SlotOf(ctx[c], tpage, e)]
  BY PresentedEntries
<1>3. /\ x.mod = m /\ x.globals = ctx[c].globals /\ x.dropped_data = ctx[c].dropped_data
      /\ x.dropped_elems = ctx[c].dropped_elems
      /\ \A e \in Entries(m) : SlotOf(x, tpage', e) = IF e \in Q THEN N[e] ELSE SlotOf(ctx[c], tpage, e)
  <2>1. CASE indirect_table(m)
    <3>. DEFINE al == [k \in 1..D(c).tinit |-> IF k - 1 \in Q THEN N[k - 1] ELSE ctx[c].alt[k]]
                y  == [ctx[c] EXCEPT !.alt = al]
    <3>1. ctx' = [ctx EXCEPT ![c] = y] /\ tpage' = tpage
      BY <2>1 DEF EntriesSet
    <3>2. x = y
      BY <1>1, <3>1
    <3>. HIDE DEF al
    <3>3. /\ x.mod = m /\ x.globals = ctx[c].globals /\ x.dropped_data = ctx[c].dropped_data
          /\ x.dropped_elems = ctx[c].dropped_elems /\ x.alt = al
      BY <1>1, <3>2 DEF ContextType
    <3>. HIDE DEF x, y
    <3>4. ASSUME NEW e \in Entries(m)
          PROVE  al[e + 1] = IF e \in Q THEN N[e] ELSE ctx[c].alt[e + 1]
      <4>1. e + 1 \in 1..D(c).tinit /\ (e + 1) - 1 = e
        BY <1>2, <3>4 DEF Entries, D
      <4>. QED
        BY <4>1 DEF al
    <3>. HIDE DEF m
    <3>. QED
      BY <2>1, <3>3, <3>4 DEF SlotOf, m
  <2>2. CASE ~indirect_table(m)
    <3>1. /\ tpage' = [w \in Word |-> IF w < D(c).tinit * EntryWords /\ w \div EntryWords \in Q
                                      THEN N[w \div EntryWords] ELSE tpage[w]]
          /\ x = ctx[c]
      BY <2>2 DEF EntriesSet
    <3>2. \A e \in Entries(m) : /\ e * EntryWords \in Word /\ e * EntryWords < D(c).tinit * EntryWords
                                /\ (e * EntryWords) \div EntryWords = e
      BY <1>1, <2>2, DirectTable DEF D
    <3>3. \A e \in Entries(m) : tpage'[e * EntryWords] = IF e \in Q THEN N[e] ELSE tpage[e * EntryWords]
      BY <3>1, <3>2
    <3>. QED
      BY <2>2, <3>1, <3>3 DEF SlotOf
  <2>. QED
    BY <2>1, <2>2
<1>. HIDE DEF x
<1>4. TableOf(x, tpage') = f
  <2>1. D(c).tables * D(c).tinit = D(c).tinit
    BY <1>2
  <2>2. TableOf(x, tpage') = [e \in Entries(m) |-> SlotOf(x, tpage', e)]
    BY <1>3, <2>1 DEF TableOf, Entries, D
  <2>. QED
    BY <1>2, <1>3, <2>2
<1>5. DataOf(x) = DataOf(ctx[c]) /\ ElemsOf(x) = ElemsOf(ctx[c])
  BY <1>3 DEF DataOf, ElemsOf
<1>. QED
  BY <1>1, <1>3, <1>4, <1>5, Parts DEF ViewOf

\* table.copy, in the table page or in the alternate table.
LEMMA TableCopyRefines ==
  ASSUME InstanceInv, InstanceInv', NEW c \in Contexts, NEW d \in Index(c), NEW s \in Index(c), NEW n \in Index(c),
         TableCopy(c, d, s, n)
  PROVE  Refines
<1>. DEFINE T == Presented.table
            f == WI!Set(T, d, n, LAMBDA k : T[s + k])
            Q == Written(d, n)
            N == Copies(c, d, s, n)
<1>1. /\ Steps(c) /\ D(c).tables = 1 /\ UNCHANGED wa /\ EntriesSet(c, Q, N)
      /\ d \in Nat /\ s \in Nat /\ n \in Nat /\ d + n <= D(c).tinit /\ s + n <= D(c).tinit
  BY TableCopySets DEF Steps
<1>2. /\ D(c).tinit \in Nat /\ DOMAIN T = 0..(D(c).tinit - 1)
      /\ WI!Size(T) = D(c).tinit /\ WI!Lengths(T) = 0..D(c).tinit
      /\ \A e \in DOMAIN T : T[e] = Entry(c, e)
  BY <1>1, PresentedEntries DEF Entries, D
<1>3. f = [k \in DOMAIN T |-> IF d <= k /\ k < d + n THEN T[s + (k - d)] ELSE T[k]]
  BY DEF WI!Set
<1>. HIDE DEF T
<1>4. ASSUME NEW k \in DOMAIN T
      PROVE  (IF d <= k /\ k < d + n THEN T[s + (k - d)] ELSE T[k]) = IF k \in Q THEN N[k] ELSE T[k]
  <2>1. k \in Nat /\ (k \in Q <=> d <= k /\ k < d + n)
    BY <1>1, <1>2, <1>4 DEF Written
  <2>2. CASE k \in Q
    <3>1. s + (k - d) = k - d + s /\ s + (k - d) \in DOMAIN T
      BY <1>1, <1>2, <2>1, <2>2
    <3>. QED
      BY <1>2, <2>1, <2>2, <3>1 DEF Copies
  <2>. QED
    BY <2>1, <2>2
<1>5. f = [e \in DOMAIN T |-> IF e \in Q THEN N[e] ELSE T[e]]
  BY <1>3, <1>4
<1>. HIDE DEF f, Q, N
<1>6. Presented' = [Presented EXCEPT !.table = f]
  BY <1>1, <1>5, TableRewritten DEF T
<1>7. d \in WI!Lengths(T) /\ s \in WI!Lengths(T) /\ n \in WI!Lengths(T)
      /\ d + n <= WI!Size(T) /\ s + n <= WI!Size(T) /\ WI!Live
  BY <1>1, <1>2, Views
<1>8. WI!TableCopy
  BY <1>6, <1>7 DEF WI!TableCopy, f, T
<1>. QED
  BY <1>7, <1>8 DEF Refines, WI!Next, WI!TableStep

\* table.init: past the segments nothing is written.
LEMMA TableInitRefines ==
  ASSUME InstanceInv, InstanceInv', NEW c \in Contexts, NEW x \in D(c).table_init_x,
         NEW d \in Index(c), NEW s \in Index(c), NEW n \in Index(c), TableInit(c, x, d, s, n)
  PROVE  Refines
<1>1. CASE x \notin DOMAIN D(c).elems
  <2>1. Steps(c) /\ UNCHANGED <<wa, tpage, ctx>>
    BY <1>1 DEF TableInit, Steps
  <2>. QED
    BY <2>1, Views DEF Refines
<1>2. CASE x \in DOMAIN D(c).elems
  <2>. DEFINE T == Presented.table
              m == ctx[c].mod
              g == D(c).elems[x].funcs
              f == WI!Set(T, d, n, LAMBDA k : <<"func", m, g[s + k + 1]>>)
              Q == Written(d, n)
              N == Inits(c, x, d, s, n)
  <2>1. /\ Steps(c) /\ D(c).tables = 1 /\ UNCHANGED wa /\ EntriesSet(c, Q, N)
        /\ d \in Nat /\ s \in Nat /\ n \in Nat /\ d + n <= D(c).tinit
        /\ s + n <= IF ctx[c].dropped_elems[x] THEN 0 ELSE Len(g)
    BY <1>2, TableInitSets DEF Steps
  <2>2. /\ D(c).tinit \in Nat /\ DOMAIN T = 0..(D(c).tinit - 1)
        /\ WI!Size(T) = D(c).tinit /\ WI!Lengths(T) = 0..D(c).tinit
    BY <2>1, PresentedEntries DEF Entries, D
  <2>3. f = [k \in DOMAIN T |-> IF d <= k /\ k < d + n THEN <<"func", m, g[s + (k - d) + 1]>> ELSE T[k]]
    BY DEF WI!Set
  <2>4. N = [e \in Q |-> <<"func", m, g[e - d + s + 1]>>]
    BY DEF Inits, Func
  <2>. HIDE DEF T, g, N, m
  <2>5. ASSUME NEW k \in DOMAIN T
        PROVE  (IF d <= k /\ k < d + n THEN <<"func", m, g[s + (k - d) + 1]>> ELSE T[k])
                 = IF k \in Q THEN N[k] ELSE T[k]
    <3>1. k \in Nat /\ (k \in Q <=> d <= k /\ k < d + n)
      BY <2>1, <2>2, <2>5 DEF Written
    <3>2. s + (k - d) + 1 = k - d + s + 1
      BY <2>1, <3>1
    <3>. HIDE DEF Q
    <3>. QED
      BY <2>4, <3>1, <3>2
  <2>6. f = [e \in DOMAIN T |-> IF e \in Q THEN N[e] ELSE T[e]]
    BY <2>3, <2>5
  <2>. HIDE DEF f, Q
  <2>7. Presented' = [Presented EXCEPT !.table = f]
    BY <2>1, <2>6, TableRewritten DEF T
  <2>8. CASE ctx[c].dropped_elems[x]
    <3>1. n = 0
      BY <2>1, <2>8
    <3>2. \A k \in DOMAIN T : ~(d <= k /\ k < d + n)
      BY <2>1, <2>2, <3>1
    <3>3. f = [k \in DOMAIN T |-> T[k]]
      BY <2>3, <3>2
    <3>4. f = TableOf(ctx[c], tpage)
      BY <2>1, <3>3, Views DEF TableOf, T
    <3>5. Presented' = Presented
      BY <2>1, <2>7, <3>4, Views, Parts DEF ViewOf
    <3>. QED
      BY <3>5 DEF Refines
  <2>9. CASE ~ctx[c].dropped_elems[x]
    <3>1. /\ x \in Presented.elems /\ WI!D = D(c) /\ WI!Live /\ Presented.mod = m
      <4>1. Presented.elems = ElemsOf(ctx[c]) /\ WI!D = D(c) /\ WI!Live /\ Presented.mod = m
        BY <2>1, Views DEF m
      <4>2. ElemsOf(ctx[c]) = {i \in DOMAIN D(c).elems : ~ctx[c].dropped_elems[i]}
        BY <2>1 DEF ElemsOf, D
      <4>. QED
        BY <1>2, <2>9, <4>1, <4>2
    <3>2. Len(g) \in Nat
      <4>1. D(c) \in Declaration
        BY <2>1, Views
      <4>2. g \in Seq(Nat)
        BY <1>2, <4>1, ElemSegment DEF g
      <4>. QED
        BY <4>2
    <3>3. d \in WI!Lengths(T) /\ n \in WI!Lengths(T) /\ d + n <= WI!Size(T) /\ s \in 0..(Len(g) - n)
      BY <2>1, <2>2, <2>9, <3>2
    <3>4. Presented' = [Presented EXCEPT !.table =
            WI!Set(@, d, n, LAMBDA k : <<"func", Presented.mod, WI!D.elems[x].funcs[s + k + 1]>>)]
      BY <2>7, <3>1 DEF f, g, T, WI!Set
    <3>5. s \in 0..(Len(WI!D.elems[x].funcs) - n)
      BY <3>1, <3>3 DEF g
    <3>6. WI!TableInit
      BY <3>1, <3>3, <3>4, <3>5 DEF WI!TableInit, T
    <3>. QED
      BY <3>1, <3>6 DEF Refines, WI!Next, WI!TableStep
  <2>. QED
    BY <2>8, <2>9
<1>. QED
  BY <1>1, <1>2

-----------------------------------------------------------------------------
(* Steps of the embedder, and the refinement.                              *)

\* A step after which no context owns the allocator discards the instance; one
\* that changes a context that does not own it leaves the instance alone.
LEMMA OtherContext ==
  ASSUME InstanceInv, InstanceInv', NEW c \in Contexts, NEW x, ctx' = [ctx EXCEPT ![c] = x],
         \/ owner' = NoContext
         \/ owner # c /\ UNCHANGED <<wa, tpage, owner>>
  PROVE  Refines
<1>1. PresentsOwn /\ PresentsOwn'
  BY PresentedIs, PresentedThen
<1>2. CASE owner' = NoContext
  <2>1. Presented' = <<>>
    BY <1>1, <1>2 DEF PresentsOwn
  <2>. QED
    BY <2>1 DEF Refines, WI!Next, WI!Discard, WI!None
<1>3. CASE owner # c /\ owner # NoContext /\ UNCHANGED <<wa, tpage, owner>>
  <2>1. owner \in Contexts /\ ctx \in [Contexts -> ContextType]
    BY <1>3 DEF InstanceInv, TypeInv
  <2>2. ctx'[owner] = ctx[owner]
    BY <1>3, <2>1
  <2>3. Presented' = Presented
    BY <1>1, <1>3, <2>2 DEF PresentsOwn
  <2>. QED
    BY <2>3 DEF Refines
<1>. QED
  BY <1>2, <1>3

\* initialize creates a fresh instance, discards it or does not touch it.
LEMMA InitializeRefines ==
  ASSUME InstanceInv, InstanceInv', NEW c \in Contexts, NEW opt \in MaxPagesOptions, Initialize(c, opt)
  PROVE  Refines
<1>1. CASE owner' = c
  <2>1. WI!Instantiate
    BY <1>1, ResetFresh DEF WI!Instantiate
  <2>. QED
    BY <2>1 DEF Refines, WI!Next
<1>2. CASE owner' # c
  <2>1. CASE Refused(c, opt, wa, IF owner = c THEN NoContext ELSE owner)
    BY <2>1, OtherContext DEF Refused
  <2>2. CASE \E e1, e2 \in MprotectErrors :
               LET r == AllocatorReset(c, e1, e2) IN
               IF r.ok THEN ResetWith(c, Limit(opt), r.a) ELSE Refused(c, opt, r.a, NoContext)
    <3>1. PICK e1 \in MprotectErrors, e2 \in MprotectErrors :
               LET r == AllocatorReset(c, e1, e2) IN
               IF r.ok THEN ResetWith(c, Limit(opt), r.a) ELSE Refused(c, opt, r.a, NoContext)
      BY <2>2
    <3>. DEFINE r == AllocatorReset(c, e1, e2)
    <3>2. r.a \in Allocator /\ Limit(opt) \in 0..HardMax
      BY AllocatorResetCall, OptionAssumption, SizeAssumption DEF Limit
    <3>3. IF r.ok THEN ResetWith(c, Limit(opt), r.a) ELSE Refused(c, opt, r.a, NoContext)
      BY <3>1
    <3>. HIDE DEF r
    <3>4. \E x : ctx' = [ctx EXCEPT ![c] = x] /\ owner' \in {c, NoContext}
      <4>1. CASE r.ok
        BY <3>2, <3>3, <4>1, ResetWithFields
      <4>2. CASE ~r.ok
        BY <3>3, <4>2 DEF Refused
      <4>. QED
        BY <4>1, <4>2
    <3>. QED
      BY <1>2, <3>4, OtherContext
  <2>. QED
    BY <2>1, <2>2, InitializeCases
<1>. QED
  BY <1>1, <1>2

\* set_module discards the instance of the context whose module it replaces.
LEMMA SetModuleRefines ==
  ASSUME InstanceInv, InstanceInv', NEW c \in Contexts, NEW m \in Mods, SetModule(c, m)
  PROVE  Refines
<1>. DEFINE x == [ctx[c] EXCEPT !.mod = m, !.alt = NoTable]
<1>1. ctx' = [ctx EXCEPT ![c] = x] /\ UNCHANGED <<wa, tpage>> /\ owner' = IF owner = c THEN NoContext ELSE owner
  BY DEF SetModule, InstanceInv, TypeInv
<1>. HIDE DEF x
<1>. QED
  BY <1>1, OtherContext

\* Every step is a step of an isolated instance or changes nothing in it.
LEMMA NextRefines ==
  ASSUME MprotectWorks
  PROVE  InstanceInv /\ InstanceInv' /\ [Next]_vars => [WI!Next]_Presented
<1>. SUFFICES ASSUME InstanceInv, InstanceInv', [Next]_vars PROVE Refines
  BY DEF Refines
<1>1. CASE UNCHANGED vars
  <2>1. PresentsOwn /\ PresentsOwn'
    BY PresentedIs, PresentedThen
  <2>. QED
    BY <1>1, <2>1 DEF PresentsOwn, Refines, vars
<1>2. CASE Next
  <2>1. PICK c \in Contexts : \/ \E n \in MaxPagesOptions : Initialize(c, n)
                              \/ \E m \in Mods : SetModule(c, m)
                              \/ MemoryStep(c)
                              \/ TableStep(c)
    BY <1>2 DEF Next
  <2>2. CASE MemoryStep(c)
    BY <2>2, GrowRefines, StoreRefines, MemoryFillRefines, MemoryCopyRefines, MemoryInitRefines,
       DropDataRefines DEF MemoryStep
  <2>3. CASE TableStep(c)
    BY <2>3, TableInitRefines, TableCopyRefines, DropElemRefines, SetGlobalRefines DEF TableStep
  <2>. QED
    BY <2>1, <2>2, <2>3, InitializeRefines, SetModuleRefines
<1>. QED
  BY <1>1, <1>2

\* Contexts that share one allocator run isolated instances: an instance is
\* created from its module alone, only its own instructions change it, and
\* every access they make is inside its memory and table.  mprotect is assumed
\* to succeed: a free whose mprotect fails leaves pages accessible past the end
\* (execution_context_base, wasm_allocator, generated code's pointers).
THEOREM InstancesIsolated ==
  ASSUME MprotectErrors \subseteq {FALSE}
  PROVE  Spec => ImplementsWasmInstance
<1>1. MprotectWorks
  BY DEF MprotectWorks
<1>2. Init => WI!Init
  BY DEF Init, WI!Init, WI!None, Presented
<1>3. InstanceInv /\ InstanceInv' /\ [Next]_vars => [WI!Next]_Presented
  BY <1>1, NextRefines
<1>. QED
  BY <1>2, <1>3, InstanceInvariant, PTL DEF Spec, ImplementsWasmInstance, WI!Spec
=============================================================================
