------------------------------ MODULE Instance ------------------------------
(***************************************************************************)
(* Instances: what execution_context_base keeps for the module it runs,    *)
(* and how instances share one wasm_allocator.                             *)
(*                                                                         *)
(* Each context has its module, page limit, globals, table and segment     *)
(* flags.  The linear memory and the table page belong to the allocator,   *)
(* which the contexts share; a context owns them from a successful reset   *)
(* until another context is reset.  The embedder calls into a context only *)
(* while it owns the allocator.                                            *)
(***************************************************************************)
EXTENDS WasmAllocator, Sequences, FiniteSets

CONSTANTS
  Contexts,      \* execution contexts using the allocator
  NoContext,     \* the allocator's owner when no reset has succeeded
  Mods,          \* modules that passed validation
  Def,           \* Def[m]: what the module declares
  MaxPagesOptions, \* values of the max_pages option
  PageWords,     \* pointer-sized words in the table page
  EntryWords,    \* words in a table_entry
  MprotectErrors, \* {FALSE}, or BOOLEAN where mprotect may fail
  Growths        \* operands of memory.grow

ASSUME ContextAssumption == NoContext \notin Contexts
ASSUME OptionAssumption  == MaxPagesOptions \subseteq Nat
ASSUME ErrorAssumption   == MprotectErrors \subseteq BOOLEAN
ASSUME GrowthAssumption  == Growths \subseteq Int
ASSUME WordAssumption    == PageWords \in Nat \ {0, 1} /\ EntryWords \in Nat \ {0}

(***************************************************************************)
(* What the parser requires of a module before code runs.  A segment's     *)
(* index is an immediate of memory.init, data.drop, table.init, elem.drop. *)
(***************************************************************************)
ElemModes == {"active", "passive", "declarative"}

\* What a module declares: its memory and table with their limits, segments
\* and globals, and the segment indexes its code uses as immediates.
Declaration ==
  [memories : {0, 1}, initial : Nat, flags : BOOLEAN, maximum : Nat,
   data : Seq([passive : BOOLEAN, offset : Nat, bytes : Seq(Values)]),
   tables : {0, 1}, tinit : Nat,
   elems : Seq([mode : ElemModes, offset : Nat, funcs : Seq(Nat)]),
   globals : Seq(Values),
   data_x : SUBSET Nat, elem_drop_x : SUBSET Nat, table_init_x : SUBSET Nat]

Validated(d) ==
  /\ d \in Declaration
  /\ d.initial <= HardMax
  /\ d.flags => d.initial <= d.maximum
  /\ \A i \in DOMAIN d.data : ~d.data[i].passive => d.memories = 1
  /\ \A i \in DOMAIN d.elems : d.elems[i].mode = "active" => d.tables = 1
  /\ d.data_x \subseteq DOMAIN d.data
  /\ d.elem_drop_x \subseteq DOMAIN d.elems
  /\ d.table_init_x # {} => d.tables = 1

ASSUME ModuleAssumption == \A m \in Mods : Validated(Def[m])

VARIABLES
  wa,        \* the wasm_allocator
  tpage,     \* the words of its table page
  owner,     \* the context whose reset succeeded last
  ctx,       \* ctx[c]: context c
  fault      \* an index was used outside its container

vars == <<wa, tpage, owner, ctx, fault>>

Word == 0..(PageWords - 1)

\* Contents of a table word: the 0xff fill, a function of a module, or a
\* pointer written by a context's reset.
Null      == <<"null">>
Func(m, f) == <<"func", m, f>>
Ptr(k, c)  == <<k, c>>

\* Mutant: the word of the globals pointer is counted as table space.
indirect_table_NoReserve(m) ==
  Def[m].tables > 0 /\ Def[m].tinit * EntryWords > PageWords

\* module::indirect_table: the table does not fit beside the globals pointer.
indirect_table(m) ==
  Def[m].tables > 0 /\ Def[m].tinit * EntryWords > PageWords - 1

NoTable == <<>>

\* A fresh context for module m.
NewContext(m) ==
  [mod |-> m, max_pages |-> HardMax, globals |-> <<>>, alt |-> NoTable,
   dropped_data |-> <<>>, dropped_elems |-> <<>>]

Init ==
  /\ wa = NewAllocator
  /\ tpage = [w \in Word |-> <<"zero">>]
  /\ owner = NoContext
  /\ ctx \in [Contexts -> {NewContext(m) : m \in Mods}]
  /\ fault = "none"

-----------------------------------------------------------------------------
(* execution_context_base::reset                                           *)

SegFits(d, s) == s.offset + Len(s.bytes) <= d.initial * PageSize

\* The active data segments that are copied before one is out of range.
DataCopied(d) ==
  {i \in DOMAIN d.data :
     ~d.data[i].passive /\ \A j \in 1..i : d.data[j].passive \/ SegFits(d, d.data[j])}

DataOk(d) == \A i \in DOMAIN d.data : d.data[i].passive \/ SegFits(d, d.data[i])

Covers(s, c) == s.offset <= c /\ c < s.offset + Len(s.bytes)

\* Memory after the segments in S were copied over mem, in order.
WithData(mem, d, S) ==
  [c \in Cell |->
     LET W == {i \in S : Covers(d.data[i], c)} IN
     IF W = {} THEN mem[c]
     ELSE LET i == CHOOSE i \in W : \A j \in W : j <= i IN
          d.data[i].bytes[c - d.data[i].offset + 1]]

ElemFits(d, s) == s.offset + Len(s.funcs) <= d.tinit

ElemCopied(d) ==
  {i \in DOMAIN d.elems :
     /\ d.elems[i].mode = "active"
     /\ \A j \in 1..i : d.elems[j].mode # "active" \/ ElemFits(d, d.elems[j])}

ElemOk(d) == \A i \in DOMAIN d.elems : d.elems[i].mode # "active" \/ ElemFits(d, d.elems[i])

\* Flags after the loop over the element segments stopped.
ElemDropped(d) ==
  [i \in DOMAIN d.elems |->
     IF ElemOk(d) \/ \A j \in 1..i : d.elems[j].mode # "active" \/ ElemFits(d, d.elems[j])
     THEN d.elems[i].mode # "passive" ELSE FALSE]

\* Entry e of the table after the fill and the copied segments.
TableEntry(m, e) ==
  LET d == Def[m]
      W == {i \in ElemCopied(d) : d.elems[i].offset <= e
                                  /\ e < d.elems[i].offset + Len(d.elems[i].funcs)} IN
  IF W = {} THEN Null
  ELSE LET i == CHOOSE i \in W : \A j \in W : j <= i IN
       Func(m, d.elems[i].funcs[e - d.elems[i].offset + 1])

\* The table page after the globals pointer and then the table were written.
TablePage(c, m) ==
  LET d == Def[m]
      g == [tpage EXCEPT ![PageWords - 1] = Ptr("globals", c)] IN
  IF d.tables = 0 THEN g
  ELSE IF indirect_table(m) THEN [g EXCEPT ![0] = Ptr("alt", c)]
  ELSE [w \in Word |-> IF w < d.tinit * EntryWords
                       THEN TableEntry(m, w \div EntryWords) ELSE g[w]]

\* Mutant: a table that is already allocated is not filled again.
AltTable_NoFill(m, old) ==
  IF indirect_table(m) /\ old = NoTable
  THEN [e \in 1..Def[m].tinit |-> TableEntry(m, e - 1)] ELSE old

AltTable(m, old) ==
  IF indirect_table(m) THEN [e \in 1..Def[m].tinit |-> TableEntry(m, e - 1)] ELSE old

\* Mutant: the flags of the data segments are not assigned.
ResetWith_StaleFlags(c, n, a) ==
  LET m == ctx[c].mod
      d == Def[m] IN
  /\ wa' = [a EXCEPT !.mem = WithData(@, d, DataCopied(d))]
  /\ ctx' = [ctx EXCEPT ![c].max_pages = n, ![c].globals = d.globals]
  /\ tpage' = TablePage(c, m)
  /\ owner' = IF DataOk(d) THEN c ELSE NoContext

\* reset of context c with page limit n once the allocator's own reset has
\* returned a: data segments, flags, globals, globals pointer, table.
ResetWith(c, n, a) ==
  LET m == ctx[c].mod
      d == Def[m]
      x == [ctx[c] EXCEPT !.max_pages = n,
                          !.dropped_data = [i \in DOMAIN d.data |-> i \in DataCopied(d)]]
      y == [x EXCEPT !.globals = d.globals]
      z == [y EXCEPT !.alt = AltTable(m, @), !.dropped_elems = ElemDropped(d)] IN
  /\ wa' = [a EXCEPT !.mem = WithData(@, d, DataCopied(d))]
  /\ IF ~DataOk(d)
     THEN /\ ctx' = [ctx EXCEPT ![c] = x]
          /\ owner' = NoContext
          /\ UNCHANGED tpage
     ELSE /\ ctx' = [ctx EXCEPT ![c] = IF d.tables = 0 THEN y ELSE z]
          /\ tpage' = TablePage(c, m)
          /\ owner' = IF d.tables = 0 \/ ElemOk(d) THEN c ELSE NoContext

\* backend::initialize(host, new_options): set_max_pages, then reset.
Initialize(c, opt) ==
  LET d == Def[ctx[c].mod]
      n == IF opt < HardMax THEN opt ELSE HardMax
      fail(a, o) == /\ wa' = a
                    /\ ctx' = [ctx EXCEPT ![c].max_pages = n]
                    /\ owner' = o
                    /\ UNCHANGED tpage IN
  /\ fault = "none"
  /\ UNCHANGED fault
  /\ IF d.memories = 1 /\ d.initial > n
     THEN fail(wa, IF owner = c THEN NoContext ELSE owner)
     ELSE \E e1, e2 \in MprotectErrors :
            LET r == IF d.memories = 1 THEN ResetTo(wa, d.initial, e1, e2)
                                       ELSE ResetNone(wa, e1) IN
            IF r.ok THEN ResetWith(c, n, r.a) ELSE fail(r.a, NoContext)

\* set_module: a context reused for another module drops its alternate table.
SetModule(c, m) ==
  /\ fault = "none"
  /\ ctx' = [ctx EXCEPT ![c].mod = m, ![c].alt = NoTable]
  /\ owner' = IF owner = c THEN NoContext ELSE owner
  /\ UNCHANGED <<wa, tpage, fault>>

-----------------------------------------------------------------------------
(* What code of the owner does.  A trap or a -1 leaves everything as it is *)
(* and is not a step.                                                      *)

Running(c) == fault = "none" /\ owner = c
D(c) == Def[ctx[c].mod]

\* Mutant: the module's own maximum is ignored.
CanGrow_NoMaximum(c, sz, pages) ==
  /\ D(c).memories = 1
  /\ pages <= ctx[c].max_pages - sz \/ sz > ctx[c].max_pages

\* grow_linear_memory_impl; pages < 0 shrinks the memory.  _max_pages - sz is
\* unsigned: it wraps when sz is larger.
CanGrow(c, sz, pages) ==
  /\ D(c).memories = 1
  /\ pages <= ctx[c].max_pages - sz \/ sz > ctx[c].max_pages
  /\ D(c).flags => pages <= D(c).maximum - sz

Grow(c, pages) ==
  LET sz == wa.page IN
  /\ Running(c)
  /\ \E err \in MprotectErrors :
       LET r == IF pages < 0 THEN Free(wa, -pages, err) ELSE Alloc(wa, pages, err) IN
       /\ IF pages < 0 THEN sz + pages >= 0 ELSE CanGrow(c, sz, pages)
       /\ wa' = r.a
  /\ UNCHANGED <<tpage, owner, ctx, fault>>

\* A store instruction.
Store(c, cell, v) ==
  /\ Running(c)
  /\ Readable(wa, cell)
  /\ wa' = [wa EXCEPT !.mem[cell] = v]
  /\ UNCHANGED <<tpage, owner, ctx, fault>>

\* memory.fill
MemoryFill(c, d, v, n) ==
  /\ Running(c)
  /\ ValidatePointer(wa, d, n)
  /\ wa' = [wa EXCEPT !.mem = [k \in Cell |-> IF d <= k /\ k < d + n THEN v ELSE @[k]]]
  /\ UNCHANGED <<tpage, owner, ctx, fault>>

\* memory.copy
MemoryCopy(c, d, s, n) ==
  /\ Running(c)
  /\ ValidatePointer(wa, s, n) /\ ValidatePointer(wa, d, n)
  /\ wa' = [wa EXCEPT !.mem = [k \in Cell |-> IF d <= k /\ k < d + n THEN @[k - d + s] ELSE @[k]]]
  /\ UNCHANGED <<tpage, owner, ctx, fault>>

\* memory.init
MemoryInit(c, x, d, s, n) ==
  LET seg == D(c).data[x]
      len == IF ctx[c].dropped_data[x] THEN 0 ELSE Len(seg.bytes) IN
  /\ Running(c)
  /\ s + n <= len
  /\ ValidatePointer(wa, d, n)
  /\ wa' = [wa EXCEPT !.mem = [k \in Cell |-> IF d <= k /\ k < d + n
                                              THEN seg.bytes[k - d + s + 1] ELSE @[k]]]
  /\ UNCHANGED <<tpage, owner, ctx, fault>>

\* data.drop
DropData(c, x) ==
  /\ Running(c)
  /\ ctx' = [ctx EXCEPT ![c].dropped_data[x] = TRUE]
  /\ UNCHANGED <<wa, tpage, owner, fault>>

\* get_table_base: the table page, or the table its first word points to.
AltOwner == tpage[0][2]

Entry(c, e) == IF indirect_table(ctx[c].mod) THEN ctx[AltOwner].alt[e + 1]
                                             ELSE tpage[e * EntryWords]

\* Entries e for which P(e) holds are set to V(e) in the table of context c.
SetEntries(c, P(_), V(_)) ==
  IF indirect_table(ctx[c].mod)
  THEN /\ ctx' = [ctx EXCEPT ![AltOwner].alt =
                    [k \in DOMAIN @ |-> IF P(k - 1) THEN V(k - 1) ELSE @[k]]]
       /\ UNCHANGED tpage
  ELSE /\ tpage' = [w \in Word |-> IF w < D(c).tinit * EntryWords /\ P(w \div EntryWords)
                                   THEN V(w \div EntryWords) ELSE tpage[w]]
       /\ UNCHANGED ctx

\* table.init.  Its segment index is not checked by the parser: when it is
\* past the segments, the code reads outside its vectors.
TableInit(c, x, d, s, n) ==
  /\ Running(c)
  /\ IF x \notin DOMAIN D(c).elems
     THEN /\ fault' = "elem_index"
          /\ UNCHANGED <<wa, tpage, owner, ctx>>
     ELSE LET seg == D(c).elems[x]
              len == IF ctx[c].dropped_elems[x] THEN 0 ELSE Len(seg.funcs) IN
          /\ s + n <= len
          /\ d + n <= D(c).tinit
          /\ SetEntries(c, LAMBDA e : d <= e /\ e < d + n,
                           LAMBDA e : Func(ctx[c].mod, seg.funcs[e - d + s + 1]))
          /\ UNCHANGED <<wa, owner, fault>>

\* table.copy
TableCopy(c, d, s, n) ==
  /\ Running(c)
  /\ D(c).tables = 1
  /\ s + n <= D(c).tinit /\ d + n <= D(c).tinit
  /\ SetEntries(c, LAMBDA e : d <= e /\ e < d + n, LAMBDA e : Entry(c, e - d + s))
  /\ UNCHANGED <<wa, owner, fault>>


\* elem.drop: sets the flag in _dropped_elems, which reset sizes only for a
\* module that has a table.
DropElem(c, x) ==
  /\ Running(c)
  /\ IF x \in DOMAIN ctx[c].dropped_elems
     THEN /\ ctx' = [ctx EXCEPT ![c].dropped_elems[x] = TRUE]
          /\ UNCHANGED fault
     ELSE /\ fault' = "dropped_index"
          /\ UNCHANGED ctx
  /\ UNCHANGED <<wa, tpage, owner>>

\* global.set, through the pointer in the table page as generated code does.
GlobalsOwner == tpage[PageWords - 1][2]

SetGlobal(c, i, v) ==
  /\ Running(c)
  /\ ctx' = [ctx EXCEPT ![GlobalsOwner].globals[i] = v]
  /\ UNCHANGED <<wa, tpage, owner, fault>>

-----------------------------------------------------------------------------
\* Offsets and lengths in memory and in the table.  They go past the limit by
\* one.
Addr     == 0..(HardMax * PageSize + 1)
Index(c) == 0..(D(c).tinit + 1)

MemoryStep(c) ==
  \/ \E n \in Growths : Grow(c, n)
  \/ \E k \in Cell, v \in Values : Store(c, k, v)
  \/ \E d, n \in Addr, v \in Values : MemoryFill(c, d, v, n)
  \/ \E d, s, n \in Addr : MemoryCopy(c, d, s, n)
  \/ \E x \in D(c).data_x, d, s, n \in Addr : MemoryInit(c, x, d, s, n)
  \/ \E x \in D(c).data_x : DropData(c, x)

TableStep(c) ==
  \/ \E x \in D(c).table_init_x, d, s, n \in Index(c) : TableInit(c, x, d, s, n)
  \/ \E d, s, n \in Index(c) : TableCopy(c, d, s, n)
  \/ \E x \in D(c).elem_drop_x : DropElem(c, x)
  \/ \E i \in DOMAIN ctx[c].globals, v \in Values : SetGlobal(c, i, v)

Next ==
  \E c \in Contexts :
    \/ \E n \in MaxPagesOptions : Initialize(c, n)
    \/ \E m \in Mods : SetModule(c, m)
    \/ MemoryStep(c)
    \/ TableStep(c)

Spec == Init /\ [][Next]_vars

-----------------------------------------------------------------------------
(* Properties                                                              *)

\* The state reset, memory.grow and the segment instructions leave behind is
\* well formed, the flags of the running context matching its module.
TypeOK ==
  /\ wa \in Allocator
  /\ owner \in Contexts \cup {NoContext}
  /\ \A c \in Contexts :
       /\ ctx[c].mod \in Mods
       /\ ctx[c].max_pages \in 0..HardMax
  /\ owner # NoContext =>
       /\ DOMAIN ctx[owner].dropped_data = DOMAIN D(owner).data
       /\ D(owner).tables = 1 => DOMAIN ctx[owner].dropped_elems = DOMAIN D(owner).elems

MemSize == IF wa.page < 0 THEN 0 ELSE wa.page * PageSize

\* validate_pointer looks at one byte and counts on page protection and on the
\* readable page below the memory: it accepts a range exactly when the range
\* lies inside the linear memory, ranges of length zero included.
AccessMatchesBounds ==
  \A ptr, len \in Addr :
    ValidatePointer(wa, ptr, len) <=> (wa.page >= 0 /\ ptr + len <= MemSize)

\* Whatever mprotect call fails inside reset or grow, the pages the allocator
\* counts as allocated can be accessed.
AllocatedAccessible == \A p \in Page : p < wa.page => wa.prot[p] = "rw"

\* The memory of the running instance never exceeds the embedder's limit nor
\* the module's, however resets of other contexts and failures interleave.
WithinLimits ==
  owner # NoContext /\ D(owner).memories = 1 =>
    /\ 0 <= wa.page /\ wa.page <= ctx[owner].max_pages
    /\ D(owner).flags => wa.page <= D(owner).maximum

\* The pointers that generated code reads from the table page are the ones the
\* running context wrote: the table never reaches the word that holds the
\* globals pointer.
PointersIntact ==
  owner # NoContext =>
    /\ tpage[PageWords - 1] = Ptr("globals", owner)
    /\ indirect_table(ctx[owner].mod) => tpage[0] = Ptr("alt", owner)


\* The instance that the running context presents to its module.
Presented ==
  IF owner = NoContext THEN <<>>
  ELSE LET d == D(owner) IN
       [mod     |-> ctx[owner].mod,
        mem     |-> [k \in 0..(MemSize - 1) |-> wa.mem[k]],
        table   |-> [e \in 0..(d.tables * d.tinit - 1) |-> Entry(owner, e)],
        globals |-> ctx[GlobalsOwner].globals,
        data    |-> {i \in DOMAIN d.data : ~ctx[owner].dropped_data[i]},
        elems   |-> IF d.tables = 0 THEN {}
                    ELSE {i \in DOMAIN d.elems : ~ctx[owner].dropped_elems[i]}]

WI == INSTANCE WasmInstance WITH inst <- Presented

\* Contexts that share an allocator are isolated: an instance starts from its
\* module's declarations alone, whatever ran before in the same memory and
\* table page, changes by its own instructions only, and every access is
\* checked against the current size.
ImplementsWasmInstance == WI!Spec

\* A reset that succeeds leaves exactly what the module declares, also when it
\* follows resets, growths and shrinks in which mprotect failed half way: the
\* postcondition of wasm_allocator::reset, carried up to the instance.
ResetIsPristine ==
  [][\A c \in Contexts : owner' = c /\ (\E n \in MaxPagesOptions : Initialize(c, n))
                           => Presented' = WI!Fresh(ctx[c].mod)]_vars
=============================================================================
