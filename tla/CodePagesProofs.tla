-------------------------- MODULE CodePagesProofs --------------------------
(***************************************************************************)
(* The invariants of CodePages, for every number of modules and threads,   *)
(* every arena and all code sizes.                                         *)
(***************************************************************************)
EXTENDS CodePages, JitAllocatorProofs

GrowableType == [base : BOOLEAN, offset : Nat, largest : Nat, capacity : Nat]
ModuleType ==
  [phase : Phases, pass : {"single", "first", "second"}, script : Seq(Bodies \cup {Header}), next : Nat,
   failed : BOOLEAN, memory : GrowableType, code : Int, size : Nat, prot : {"none", "rw", "exec"}]

TypeInv ==
  /\ mods \in [Modules -> ModuleType]
  /\ prot \in [Addresses -> {Stale, "none", "rw", "exec"}]
  /\ content \in [Addresses -> Modules \cup {Stale}]
  /\ terminated \in BOOLEAN

\* off[i] is where the code of the i-th function of the script begins; the
\* bytes reserved for the first k functions lie below limit.
Offsets(k) == [1..(k + 1) -> Nat]
Layout(script, k, off, limit) ==
  /\ off[1] = 0
  /\ \A i \in 1..k : /\ off[i + 1] = off[i] + script[i][2] /\ off[i] + script[i][1] <= limit
                     /\ off[i + 1] >= Header[2]

\* The phases from start_code to the end of a first pass.
Reading == {"parsing", "ending", "allocated", "writable", "copied", "compiled", "measured"}

\* How far a module has read its code, and what that has shown of its size.
Progress(x) ==
  /\ Len(x.script) > 0 /\ x.script[1] = Header
  /\ x.next \in 1..(Len(x.script) + 1)
  /\ x.phase = "parsing" => ~x.failed
  /\ x.phase # "parsing" /\ ~x.failed => x.next = Len(x.script) + 1
  /\ x.next = 1 => x.phase = "parsing"
Measuring(x) ==
  /\ x.phase = "parsing" => x.memory.capacity = max_memory_size
  /\ \E off \in Offsets(x.next - 1) :
       /\ Layout(x.script, x.next - 1, off, x.memory.largest)
       /\ (x.phase \in {"parsing", "ending"} => x.memory.offset = off[x.next])
Repeating(x) ==
  /\ ~x.failed
  /\ x.phase \in {"parsing", "ending"} =>
       \E off \in Offsets(Len(x.script)) :
         Layout(x.script, Len(x.script), off, x.memory.capacity) /\ x.memory.offset = off[x.next]
ModuleInv(x) ==
  /\ x.phase \in Reading => Progress(x) /\ (x.pass # "second" => Measuring(x))
  /\ x.phase \in {"compiled", "measured"} => ~x.failed
  /\ x.phase = "measured" => x.pass = "first"
  /\ x.pass = "second" => Repeating(x)

CodeInv ==
  /\ TypeInv /\ ArenaInv(arena)
  /\ BlocksHeld /\ CodeIntact
  /\ \A m \in Modules : ModuleInv(mods[m])

-----------------------------------------------------------------------------
(* Facts about states.                                                     *)

\* align_to_page never rounds down, and the pages of what was written are
\* not zero in number.
LEMMA Align ==
  ASSUME NEW o \in Nat
  PROVE  /\ align_to_page(o) \in Nat /\ align_to_page(o) >= o
         /\ o > 0 => align_to_page(o) \div PageBytes \in Positive
<1> DEFINE q == (o + PageBytes - 1) \div PageBytes
<1>1. PageBytes \in Nat \ {0}
  BY CodePagesAssumption
<1>2. ASSUME NEW k \in Nat
      PROVE  /\ k \div PageBytes \in Nat /\ PageBytes * (k \div PageBytes) <= k
             /\ k < PageBytes * (k \div PageBytes) + PageBytes
             /\ (k * PageBytes) \div PageBytes = k
  BY <1>1
<1>3. o + PageBytes - 1 \in Nat
  BY <1>1
<1>4. q \in Nat /\ o + PageBytes - 1 < PageBytes * q + PageBytes /\ (q * PageBytes) \div PageBytes = q
  BY <1>2, <1>3
<1>5. align_to_page(o) = q * PageBytes
  BY DEF align_to_page
<1>. HIDE DEF q
<1>6. q * PageBytes \in Nat /\ q * PageBytes >= o
  BY <1>1, <1>4
<1>7. o > 0 => q # 0
  BY <1>1, <1>6
<1>. QED
  BY <1>4, <1>5, <1>6, <1>7 DEF Positive

\* CodeIntact for one module.
ModuleIntact(m, x, pr, co) ==
  LET pages == PagesOf(x.code, x.size) IN
  /\ x.phase = "writable" => \A p \in pages : pr[p] = "rw"
  /\ x.phase = "copied" => \A p \in pages : co[p] = m
  /\ x.phase \in {"compiled", "measured", "live", "disabled", "unwinding"} =>
       \A p \in pages : co[p] = m /\ pr[p] = x.prot

\* CodeIntact says this of every module.
LEMMA IntactByModule ==
  CodeIntact <=> \A m \in Modules : ModuleIntact(m, mods[m], prot, content)
BY DEF CodeIntact, ModuleIntact

Holders == {m \in Modules : mods[m].phase \in Holding}
BlockOf(m) == <<mods[m].code, mods[m].size>>

\* A module that holds pages holds an allocated block, inside the address
\* space.
LEMMA HeldBlock ==
  ASSUME CodeInv, NEW m \in Holders
  PROVE  /\ BlockOf(m) \in arena.allocated_blocks /\ BlockOf(m) \in Block
         /\ mods[m].code \in Nat /\ mods[m].size \in Positive
         /\ PagesOfModule(m) \subseteq Addresses
<1>1. m \in Modules /\ BlockOf(m) \in arena.allocated_blocks
  BY DEF Holders, CodeInv, BlocksHeld, BlockOf
<1>2. ArenaInv(arena) /\ arena \in Arena
  BY DEF CodeInv, ArenaInv
<1>3. BlockOf(m) \in Block
  BY <1>1, <1>2, Containers
<1>4. mods[m].code \in Nat /\ mods[m].size \in Positive
  BY <1>3 DEF BlockOf, Block
<1>5. ASSUME NEW p \in PagesOfModule(m) PROVE p \in Addresses
  <2>1. p \in Int /\ In(p, BlockOf(m))
    BY <1>4, <1>5 DEF PagesOfModule, PagesOf, In, BlockOf, Positive
  <2>2. PICK s \in arena.segments : In(p, s)
    BY <1>1, <1>2, <2>1 DEF ArenaInv, Covered, AllBlocks
  <2>3. s \in Block /\ s[1] + s[2] <= AddressPages
    BY <1>2, Containers DEF ArenaInv, SegmentsInside
  <2>. QED
    BY <2>1, <2>2, <2>3, ArenaAssumption DEF In, Block, Positive, Addresses
<1>. QED
  BY <1>1, <1>3, <1>4, <1>5

\* Two modules never hold the same page.
LEMMA HeldApart ==
  ASSUME CodeInv, NEW m \in Holders, NEW n \in Holders, m # n
  PROVE  PagesOfModule(m) \cap PagesOfModule(n) = {}
<1>1. /\ BlockOf(m) \in arena.allocated_blocks /\ BlockOf(n) \in arena.allocated_blocks
      /\ mods[m].code \in Nat /\ mods[m].size \in Positive
      /\ mods[n].code \in Nat /\ mods[n].size \in Positive
  BY HeldBlock
<1>2. mods[m].code # mods[n].code
  BY DEF CodeInv, BlocksHeld, Holders
<1>3. Apart(BlockOf(m), BlockOf(n))
  BY <1>1, <1>2 DEF CodeInv, ArenaInv, BlocksApart, AllBlocks, BlockOf
<1>. QED
  BY <1>1, <1>3 DEF Apart, BlockOf, PagesOfModule, PagesOf, Positive

\* What the invariant of the arena says of it.
LEMMA ArenaInvMeans ==
  ASSUME ArenaInv(arena)
  PROVE  Partition /\ Coalesced
<1>1. arena \in Arena /\ arena.segments \subseteq Block /\ Blocks \subseteq Block /\ Blocks = AllBlocks(arena)
  BY Containers DEF ArenaInv, Blocks, AllBlocks
<1>2. \A p : \A b \in Block : p \in PagesOf(b[1], b[2]) <=> p \in Int /\ In(p, b)
  BY DEF PagesOf, In, Block, Positive
<1>3. UNION {PagesOf(b[1], b[2]) : b \in Blocks} = Mapped(arena)
  <2>1. ASSUME NEW p PROVE p \in UNION {PagesOf(b[1], b[2]) : b \in Blocks} <=> p \in Mapped(arena)
    <3>1. p \in UNION {PagesOf(b[1], b[2]) : b \in Blocks} <=> p \in Int /\ \E b \in Blocks : In(p, b)
      BY <1>1, <1>2
    <3>2. p \in Mapped(arena) <=> p \in Int /\ \E s \in arena.segments : In(p, s)
      BY <1>1, <1>2 DEF Mapped
    <3>3. p \in Int => ((\E b \in Blocks : In(p, b)) <=> \E s \in arena.segments : In(p, s))
      BY <1>1 DEF ArenaInv, Covered
    <3>. QED
      BY <3>1, <3>2, <3>3
  <2>. QED
    BY <2>1
<1>4. \A b, c \in Blocks : b # c => PagesOf(b[1], b[2]) \cap PagesOf(c[1], c[2]) = {}
  <2>. TAKE b, c \in Blocks
  <2>. HAVE b # c
  <2>1. Apart(b, c) /\ b \in Block /\ c \in Block
    BY <1>1 DEF ArenaInv, BlocksApart
  <2>. QED
    BY <2>1 DEF Apart, PagesOf, Block, Positive
<1>5. \A b \in Blocks : b[2] > 0
  BY <1>1 DEF Block, Positive
<1>. QED
  BY <1>3, <1>4, <1>5 DEF Partition, Coalesced, ArenaInv, FreeNotUsed, Listed, Merged

-----------------------------------------------------------------------------
(* Steps, by what they do to the pages of a module.                        *)

Others(m) == Modules \ {m}

\* One module changes.
LEMMA OneModule ==
  ASSUME CodeInv, NEW m \in Modules, NEW r \in ModuleType, mods' = [mods EXCEPT ![m] = r]
  PROVE  /\ mods' \in [Modules -> ModuleType] /\ mods'[m] = r
         /\ \A n \in Others(m) : mods'[n] = mods[n]
BY DEF CodeInv, TypeInv, Others

\* A module without pages goes on without.
LEMMA StepWithoutPages ==
  ASSUME CodeInv, NEW m \in Modules, NEW r \in ModuleType, mods' = [mods EXCEPT ![m] = r],
         mods[m].phase \notin Holding, r.phase \notin Holding, ModuleInv(r),
         UNCHANGED <<arena, prot, content, terminated>>
  PROVE  CodeInv'
<1>1. /\ mods' \in [Modules -> ModuleType] /\ mods'[m] = r
      /\ \A n \in Others(m) : mods'[n] = mods[n]
  BY OneModule
<1>2. TypeInv' /\ ArenaInv(arena)'
  BY <1>1 DEF CodeInv, TypeInv, ArenaInv
<1>3. BlocksHeld'
  BY <1>1 DEF CodeInv, BlocksHeld, Others
<1>4. CodeIntact'
  <2>1. ModuleIntact(m, r, prot, content)
    BY DEF ModuleIntact, Holding
  <2>2. \A n \in Others(m) : ModuleIntact(n, mods[n], prot, content)
    BY IntactByModule DEF CodeInv, Others
  <2>3. \A n \in Modules : ModuleIntact(n, mods'[n], prot', content')
    BY <1>1, <2>1, <2>2 DEF Others
  <2>. QED
    BY <2>3 DEF CodeIntact, ModuleIntact
<1>5. \A n \in Modules : ModuleInv(mods[n])'
  BY <1>1 DEF CodeInv, Others
<1>. QED
  BY <1>2, <1>3, <1>4, <1>5 DEF CodeInv

\* A module goes on with the pages it holds and touches no others.
LEMMA StepHolding ==
  ASSUME CodeInv, NEW m \in Modules, NEW r \in ModuleType, mods' = [mods EXCEPT ![m] = r],
         mods[m].phase \in Holding, r.phase \in Holding,
         r.code = mods[m].code, r.size = mods[m].size, ModuleInv(r),
         prot' \in [Addresses -> {Stale, "none", "rw", "exec"}],
         content' \in [Addresses -> Modules \cup {Stale}],
         \A p \in Addresses \ PagesOfModule(m) : prot'[p] = prot[p] /\ content'[p] = content[p],
         ModuleIntact(m, r, prot', content'),
         UNCHANGED <<arena, terminated>>
  PROVE  CodeInv'
<1>1. /\ mods' \in [Modules -> ModuleType] /\ mods'[m] = r
      /\ \A n \in Others(m) : mods'[n] = mods[n]
  BY OneModule
<1>2. TypeInv' /\ ArenaInv(arena)'
  BY <1>1 DEF CodeInv, TypeInv
<1>3. BlocksHeld'
  BY <1>1 DEF CodeInv, BlocksHeld, Others
<1>4. CodeIntact'
  <2>1. ASSUME NEW n \in Others(m) PROVE ModuleIntact(n, mods'[n], prot', content')
    <3>1. ModuleIntact(n, mods[n], prot, content)
      BY IntactByModule DEF CodeInv, Others
    <3>2. CASE mods[n].phase \in Holding
      <4>1. n \in Holders /\ m \in Holders /\ m # n
        BY <3>2 DEF Holders, Others
      <4>2. PagesOfModule(n) \subseteq Addresses \ PagesOfModule(m)
        BY <4>1, HeldApart, HeldBlock
      <4>3. \A p \in PagesOf(mods[n].code, mods[n].size) : prot'[p] = prot[p] /\ content'[p] = content[p]
        BY <4>2 DEF PagesOfModule
      <4>4. mods'[n] = mods[n]
        BY <1>1
      <4>. QED
        BY <3>1, <4>3, <4>4 DEF ModuleIntact
    <3>3. CASE mods[n].phase \notin Holding
      BY <1>1, <3>3 DEF ModuleIntact, Holding
    <3>. QED
      BY <3>2, <3>3
  <2>2. \A n \in Modules : ModuleIntact(n, mods'[n], prot', content')
    BY <1>1, <2>1 DEF Others
  <2>. QED
    BY <2>2 DEF CodeIntact, ModuleIntact
<1>5. \A n \in Modules : ModuleInv(mods[n])'
  BY <1>1 DEF CodeInv, Others
<1>. QED
  BY <1>2, <1>3, <1>4, <1>5 DEF CodeInv

\* A module gives its pages back: they are free again, and the pages of the
\* others keep their code and protection.
LEMMA StepFree ==
  ASSUME CodeInv, NEW m \in Modules, NEW r \in ModuleType, mods' = [mods EXCEPT ![m] = r],
         mods[m].phase \in Holding, r.phase \notin Holding, ModuleInv(r),
         FreeCode(m), terminated' = terminated
  PROVE  CodeInv'
<1>1. /\ mods' \in [Modules -> ModuleType] /\ mods'[m] = r
      /\ \A n \in Others(m) : mods'[n] = mods[n]
  BY OneModule
<1>2. m \in Holders
  BY DEF Holders
<1>3. ArenaInv(arena') /\ arena'.allocated_blocks = arena.allocated_blocks \ {BlockOf(m)}
  <2>1. BlockOf(m) \in arena.allocated_blocks /\ BlockOf(m)[1] = mods[m].code
    BY <1>2, HeldBlock DEF BlockOf
  <2>2. arena' = free(arena, BlockOf(m)[1])
    BY <2>1 DEF FreeCode
  <2>. HIDE DEF BlockOf
  <2>. QED
    BY <2>1, <2>2, FreeInv DEF CodeInv
<1>4. /\ prot' \in [Addresses -> {Stale, "none", "rw", "exec"}]
      /\ content' \in [Addresses -> Modules \cup {Stale}]
      /\ \A p \in Addresses \ PagesOfModule(m) : prot'[p] = prot[p] /\ content'[p] = content[p]
  BY DEF FreeCode, Protect, CodeInv, TypeInv
<1>5. TypeInv'
  BY <1>1, <1>4 DEF CodeInv, TypeInv
<1>6. BlocksHeld'
  <2>1. \A n \in Others(m) : n \in Holders => BlockOf(n) \in arena'.allocated_blocks
    <3>. TAKE n \in Others(m)
    <3>. HAVE n \in Holders
    <3>1. mods[n].code # mods[m].code /\ BlockOf(n) \in arena.allocated_blocks
      BY <1>2 DEF CodeInv, BlocksHeld, Holders, Others, BlockOf
    <3>2. BlockOf(n) # BlockOf(m)
      BY <3>1 DEF BlockOf
    <3>. QED
      BY <1>3, <3>1, <3>2
  <2>2. \A b \in arena'.allocated_blocks : terminated' \/ \E n \in Others(m) : n \in Holders /\ mods[n].code = b[1]
    <3>. TAKE b \in arena'.allocated_blocks
    <3>1. b \in arena.allocated_blocks /\ b # BlockOf(m)
      BY <1>3
    <3>2. b[1] # mods[m].code
      <4>1. Apart(b, BlockOf(m)) /\ b \in Block /\ BlockOf(m) \in Block
        BY <1>2, <3>1, HeldBlock, Containers DEF CodeInv, ArenaInv, BlocksApart, AllBlocks
      <4>. QED
        BY <4>1 DEF Apart, BlockOf, Block, Positive
    <3>. QED
      BY <3>1, <3>2 DEF CodeInv, BlocksHeld, Holders, Others
  <2>. QED
    BY <1>1, <2>1, <2>2 DEF BlocksHeld, CodeInv, Holders, Others, BlockOf
<1>7. CodeIntact'
  <2>1. ASSUME NEW n \in Others(m) PROVE ModuleIntact(n, mods'[n], prot', content')
    <3>1. ModuleIntact(n, mods[n], prot, content)
      BY IntactByModule DEF CodeInv, Others
    <3>2. CASE mods[n].phase \in Holding
      <4>1. n \in Holders /\ m # n
        BY <3>2 DEF Holders, Others
      <4>2. PagesOfModule(n) \subseteq Addresses \ PagesOfModule(m)
        BY <1>2, <4>1, HeldApart, HeldBlock
      <4>3. \A p \in PagesOf(mods[n].code, mods[n].size) : prot'[p] = prot[p] /\ content'[p] = content[p]
        BY <1>4, <4>2 DEF PagesOfModule
      <4>4. mods'[n] = mods[n]
        BY <1>1
      <4>. QED
        BY <3>1, <4>3, <4>4 DEF ModuleIntact
    <3>3. CASE mods[n].phase \notin Holding
      BY <1>1, <3>3 DEF ModuleIntact, Holding
    <3>. QED
      BY <3>2, <3>3
  <2>2. ModuleIntact(m, r, prot', content')
    BY DEF ModuleIntact, Holding
  <2>3. \A n \in Modules : ModuleIntact(n, mods'[n], prot', content')
    BY <1>1, <2>1, <2>2 DEF Others
  <2>. QED
    BY <2>3 DEF CodeIntact, ModuleIntact
<1>8. \A n \in Modules : ModuleInv(mods[n])'
  BY <1>1 DEF CodeInv, Others
<1>. QED
  BY <1>3, <1>5, <1>6, <1>7, <1>8 DEF CodeInv

\* A module gets a block: one that nobody holds.
LEMMA StepAlloc ==
  ASSUME CodeInv, NEW m \in Modules, NEW r \in ModuleType, mods' = [mods EXCEPT ![m] = r],
         mods[m].phase \notin Holding, r.phase = "allocated", ModuleInv(r),
         ArenaInv(arena'), NEW b \in Block, r.code = b[1], r.size = b[2],
         arena'.allocated_blocks = arena.allocated_blocks \cup {b},
         \A c \in arena.allocated_blocks : Apart(c, b),
         UNCHANGED <<prot, content, terminated>>
  PROVE  CodeInv'
<1>1. /\ mods' \in [Modules -> ModuleType] /\ mods'[m] = r
      /\ \A n \in Others(m) : mods'[n] = mods[n]
  BY OneModule
<1>2. TypeInv'
  BY <1>1 DEF CodeInv, TypeInv
<1>3. BlocksHeld'
  <2>1. \A n \in Holders : mods[n].code # b[1] /\ BlockOf(n) \in arena.allocated_blocks
    <3>. TAKE n \in Holders
    <3>1. BlockOf(n) \in Block /\ Apart(BlockOf(n), b) /\ BlockOf(n) \in arena.allocated_blocks
      BY HeldBlock
    <3>. QED
      BY <3>1 DEF Apart, BlockOf, Block, Positive
  <2>2. <<r.code, r.size>> = b
    BY DEF Block
  <2>3. r.phase \in Holding
    BY DEF Holding
  <2>4. \A n \in Modules : mods'[n].phase \in Holding <=> n = m \/ n \in Holders
    BY <1>1, <2>3 DEF Holders, Others
  <2>5. \A n \in Holders : n # m /\ n \in Modules /\ mods'[n] = mods[n]
    BY <1>1 DEF Holders, Others
  <2>6. \A n \in Modules : mods'[n].phase \in Holding => <<mods'[n].code, mods'[n].size>> \in arena'.allocated_blocks
    BY <1>1, <2>1, <2>2, <2>4, <2>5 DEF BlockOf
  <2>7. \A c \in arena'.allocated_blocks :
          terminated' \/ \E n \in Modules : mods'[n].phase \in Holding /\ mods'[n].code = c[1]
    <3>. TAKE c \in arena'.allocated_blocks
    <3>1. CASE c = b
      BY <1>1, <2>3, <3>1
    <3>2. CASE c \in arena.allocated_blocks
      BY <2>4, <2>5, <3>2 DEF CodeInv, BlocksHeld, Holders
    <3>. QED
      BY <3>1, <3>2
  <2>8. \A n, k \in Modules : mods'[n].phase \in Holding /\ mods'[k].phase \in Holding /\ n # k
                                => mods'[n].code # mods'[k].code
    BY <1>1, <2>1, <2>4, <2>5 DEF CodeInv, BlocksHeld, Holders
  <2>. QED
    BY <2>6, <2>7, <2>8 DEF BlocksHeld
<1>4. CodeIntact'
  <2>1. \A n \in Others(m) : ModuleIntact(n, mods[n], prot, content)
    BY IntactByModule DEF CodeInv, Others
  <2>2. ModuleIntact(m, r, prot, content)
    BY DEF ModuleIntact
  <2>3. \A n \in Modules : ModuleIntact(n, mods'[n], prot', content')
    BY <1>1, <2>1, <2>2 DEF Others
  <2>. QED
    BY <2>3 DEF CodeIntact, ModuleIntact
<1>5. \A n \in Modules : ModuleInv(mods[n])'
  BY <1>1 DEF CodeInv, Others
<1>. QED
  BY <1>2, <1>3, <1>4, <1>5 DEF CodeInv

-----------------------------------------------------------------------------
(* Reading the code.                                                       *)

\* Sizes of code are natural numbers.
LEMMA Sizes ==
  /\ \A b \in Bodies \cup {Header} : b[1] \in Nat /\ b[2] \in Nat
  /\ Header[2] > 0 /\ Header[1] <= max_memory_size /\ max_memory_size \in Nat
BY CodePagesAssumption

\* A module whose code ended has written something.
LEMMA SomethingWritten ==
  ASSUME NEW x \in ModuleType, ModuleInv(x), x.phase = "ending"
  PROVE  x.memory.offset \in Nat /\ x.memory.offset > 0
<1>1. Progress(x) /\ x.next \in Nat /\ x.next > 1 /\ x.next <= Len(x.script) + 1 /\ Len(x.script) \in Nat
  BY DEF ModuleInv, Progress, Reading, ModuleType
<1>2. ASSUME NEW k \in Nat, NEW off \in Offsets(k), NEW limit, Layout(x.script, k, off, limit), x.next - 1 <= k,
             x.memory.offset = off[x.next]
      PROVE  x.memory.offset \in Nat /\ x.memory.offset > 0
  <2>1. x.next - 1 \in 1..k /\ (x.next - 1) + 1 = x.next
    BY <1>1, <1>2
  <2>2. off[x.next] >= Header[2] /\ off[x.next] \in Nat
    BY <1>2, <2>1 DEF Layout, Offsets
  <2>. QED
    BY <1>2, <2>2, Sizes
<1>3. CASE x.pass = "second"
  BY <1>1, <1>2, <1>3 DEF ModuleInv, Repeating
<1>4. CASE x.pass # "second"
  BY <1>1, <1>2, <1>4 DEF ModuleInv, Measuring, Reading
<1>. QED
  BY <1>3, <1>4

\* A module before its first pass.
LEMMA FreshModule ==
  /\ NoModule \in ModuleType /\ NoModule.phase = "none" /\ NoModule.pass = "single"
  /\ NoModule.next = 1 /\ ~NoModule.failed
BY DEF NoModule, ModuleType, Phases, NoCode, GrowableType, Memory

\* start_code
LEMMA StartStep ==
  ASSUME CodeInv, NEW m \in Modules, NEW script \in Scripts, NEW pass \in {"single", "first"}, Start(m, script, pass)
  PROVE  CodeInv'
<1> DEFINE s == <<Header>> \o script
           r == [NoModule EXCEPT !.phase = "parsing", !.pass = pass, !.script = s,
                                 !.memory = Memory(TRUE, max_memory_size)]
<1>1. s \in Seq(Bodies \cup {Header}) /\ Len(s) > 0 /\ s[1] = Header
  <2>1. script \in Seq(Bodies)
    BY CodePagesAssumption DEF Scripts
  <2>. QED
    BY <2>1
<1>. HIDE DEF s
<1>2. /\ r \in ModuleType /\ r.phase = "parsing" /\ r.pass = pass /\ r.script = s /\ r.next = 1 /\ ~r.failed
      /\ r.memory.offset = 0 /\ r.memory.largest = 0 /\ r.memory.capacity = max_memory_size
  <2> DEFINE g == Memory(TRUE, max_memory_size)
  <2>1. g \in GrowableType /\ g.offset = 0 /\ g.largest = 0 /\ g.capacity = max_memory_size
    BY Sizes DEF GrowableType, Memory
  <2>2. r = [NoModule EXCEPT !.phase = "parsing", !.pass = pass, !.script = s, !.memory = g]
    OBVIOUS
  <2>. HIDE DEF g, r
  <2>. QED
    BY <1>1, <2>1, <2>2, FreshModule DEF ModuleType, Phases
<1>3. mods' = [mods EXCEPT ![m] = r] /\ mods[m].phase = "none" /\ UNCHANGED <<arena, prot, content, terminated>>
  BY DEF Start, InPhase, s
<1>. HIDE DEF r
<1>4. ModuleInv(r)
  <2> DEFINE off == [i \in 1..1 |-> 0]
  <2>1. off \in Offsets(r.next - 1) /\ Layout(s, r.next - 1, off, 0) /\ off[r.next] = 0
    BY <1>2 DEF Offsets, Layout
  <2>2. Measuring(r)
    BY <1>2, <2>1 DEF Measuring
  <2>3. Progress(r)
    BY <1>1, <1>2 DEF Progress
  <2>. QED
    BY <1>2, <2>2, <2>3 DEF ModuleInv
<1>. QED
  BY <1>2, <1>3, <1>4, StepWithoutPages DEF Holding

\* What an action of module m that is not terminated starts from.
LEMMA InState ==
  ASSUME CodeInv, NEW m \in Modules, NEW phase, InPhase(m, phase)
  PROVE  mods[m] \in ModuleType /\ ModuleInv(mods[m]) /\ mods[m].phase = phase
BY DEF CodeInv, TypeInv, InPhase

\* alloc and reclaim of a growable_allocator
LEMMA CodeWritten ==
  ASSUME NEW g \in GrowableType, NEW body, body[1] \in Nat, body[2] \in Nat
  PROVE  LET h == WriteCode(g, body) IN
         /\ h \in GrowableType /\ h.offset = g.offset + body[2] /\ h.capacity = g.capacity
         /\ h.largest >= g.largest /\ h.largest >= g.offset + body[1]
<1> DEFINE top == IF g.offset + body[1] > g.largest THEN g.offset + body[1] ELSE g.largest
           end == g.offset + body[2]
<1>1. /\ top \in Nat /\ top >= g.largest /\ top >= g.offset + body[1] /\ end \in Nat
  BY DEF GrowableType
<1>2. WriteCode(g, body) = [g EXCEPT !.offset = end, !.largest = top]
  BY Zenon DEF WriteCode
<1>3. end = g.offset + body[2]
  OBVIOUS
<1>. HIDE DEF top, end
<1>. QED
  BY <1>1, <1>2, <1>3 DEF GrowableType

\* The code of one function is written: what is reserved for it fits.
LEMMA WriteStep ==
  ASSUME CodeInv, NEW m \in Modules, InPhase(m, "parsing"), mods[m].next <= Len(mods[m].script),
         Fits(mods[m].memory, mods[m].script[mods[m].next][1]),
         mods' = [mods EXCEPT ![m].memory = WriteCode(@, mods[m].script[mods[m].next]), ![m].next = @ + 1],
         UNCHANGED <<arena, prot, content, terminated>>
  PROVE  CodeInv'
<1> DEFINE x == mods[m]
           body == x.script[x.next]
           g == WriteCode(x.memory, body)
           r == [x EXCEPT !.memory = g, !.next = x.next + 1]
<1>1. x \in ModuleType /\ ModuleInv(x) /\ x.phase = "parsing"
  BY InState
<1>2. mods' = [mods EXCEPT ![m] = r]
  BY DEF CodeInv, TypeInv
<1>3. /\ x.script \in Seq(Bodies \cup {Header}) /\ Len(x.script) \in Nat /\ x.next \in 1..Len(x.script)
      /\ Progress(x) /\ x.memory \in GrowableType
  BY <1>1 DEF ModuleInv, Progress, Reading, ModuleType
<1>. HIDE DEF x
<1>4. body \in Bodies \cup {Header} /\ body[1] \in Nat /\ body[2] \in Nat
  BY <1>3, Sizes
<1>. HIDE DEF body
<1>5. /\ g \in GrowableType /\ g.offset = x.memory.offset + body[2] /\ g.capacity = x.memory.capacity
      /\ g.largest >= x.memory.largest /\ g.largest >= x.memory.offset + body[1]
  BY <1>3, <1>4, CodeWritten
<1>. HIDE DEF g
<1>6. /\ r \in ModuleType /\ r.phase = x.phase /\ r.pass = x.pass /\ r.script = x.script
      /\ r.next = x.next + 1 /\ r.failed = x.failed /\ r.memory = g
  <2>1. x.next + 1 \in Nat
    BY <1>3
  <2>. QED
    BY <1>1, <1>5, <2>1 DEF ModuleType
<1>. HIDE DEF r
<1>7. Progress(r)
  BY <1>1, <1>3, <1>6 DEF Progress
<1>8. ASSUME x.pass # "second" PROVE ModuleInv(r)
  <2>1. PICK off \in Offsets(x.next - 1) :
          Layout(x.script, x.next - 1, off, x.memory.largest) /\ x.memory.offset = off[x.next]
    BY <1>1, <1>8 DEF ModuleInv, Measuring, Reading
  <2> DEFINE k == x.next
             longer == [i \in 1..(k + 1) |-> IF i <= k THEN off[i] ELSE off[k] + body[2]]
  <2>2. off \in [1..k -> Nat] /\ k \in Nat /\ k >= 1
    BY <1>3 DEF Offsets
  <2>3. longer \in Offsets(r.next - 1)
    BY <1>4, <1>6, <2>2 DEF Offsets
  <2>4. x.memory.largest \in Nat /\ g.largest \in Nat /\ x.memory.offset \in Nat
    BY <1>3, <1>5 DEF GrowableType
  <2>5. Layout(r.script, r.next - 1, longer, g.largest)
    <3>0. longer[1] = 0 /\ r.next - 1 = k /\ r.script = x.script
      BY <1>6, <2>1, <2>2 DEF Layout
    <3> SUFFICES ASSUME NEW i \in 1..k
                 PROVE  /\ longer[i + 1] = longer[i] + x.script[i][2] /\ longer[i] + x.script[i][1] <= g.largest
                        /\ longer[i + 1] >= Header[2]
      BY <3>0 DEF Layout
    <3>1. CASE i < k
      <4>1. i \in 1..(k - 1) /\ i + 1 \in 1..k /\ longer[i] = off[i] /\ longer[i + 1] = off[i + 1]
        BY <2>2, <3>1
      <4>2. /\ off[i + 1] = off[i] + x.script[i][2] /\ off[i] + x.script[i][1] <= x.memory.largest
            /\ off[i + 1] >= Header[2]
        BY <2>1, <4>1 DEF Layout
      <4>3. x.script[i][1] \in Nat /\ off[i] \in Nat
        BY <1>3, <2>2, <4>1, Sizes, SMTT(30)
      <4>. QED
        BY <1>5, <2>4, <4>1, <4>2, <4>3
    <3>2. CASE i = k
      <4>1. longer[i] = off[k] /\ longer[i + 1] = off[k] + body[2] /\ x.script[i] = body
        BY <2>2, <3>2 DEF body
      <4>2. off[k] + body[2] >= Header[2]
        <5>1. CASE k = 1
          BY <1>3, <1>4, <2>2, <5>1 DEF Progress, body
        <5>2. CASE k > 1
          <6>1. k - 1 \in 1..(k - 1) /\ (k - 1) + 1 = k
            BY <2>2, <5>2
          <6>2. off[k] >= Header[2] /\ off[k] \in Nat /\ Header[2] \in Nat
            BY <2>1, <2>2, <6>1, Sizes DEF Layout
          <6>. QED
            BY <1>4, <6>2
        <5>. QED
          BY <2>2, <5>1, <5>2
      <4>. QED
        BY <1>5, <2>1, <4>1, <4>2
    <3>. QED
      BY <2>2, <3>1, <3>2
  <2>6. longer[r.next] = g.offset
    BY <1>5, <1>6, <2>1, <2>2
  <2>7. r.phase = "parsing" => r.memory.capacity = max_memory_size
    BY <1>1, <1>5, <1>6, <1>8 DEF ModuleInv, Measuring, Reading
  <2>8. Measuring(r)
    <3>. HIDE DEF longer
    <3>. QED
      BY <1>6, <2>3, <2>5, <2>6, <2>7 DEF Measuring
  <2>. QED
    BY <1>1, <1>6, <1>7, <1>8, <2>8 DEF ModuleInv
<1>9. ASSUME x.pass = "second" PROVE ModuleInv(r)
  <2>1. PICK off \in Offsets(Len(x.script)) :
          Layout(x.script, Len(x.script), off, x.memory.capacity) /\ x.memory.offset = off[x.next]
    BY <1>1, <1>9 DEF ModuleInv, Repeating
  <2>2. off[x.next + 1] = off[x.next] + body[2]
    BY <1>3, <2>1 DEF Layout, body
  <2>3. Repeating(r)
    BY <1>1, <1>5, <1>6, <1>9, <2>1, <2>2 DEF Repeating, ModuleInv
  <2>. QED
    BY <1>1, <1>6, <1>7, <1>9, <2>3 DEF ModuleInv
<1>. QED
  BY <1>1, <1>2, <1>6, <1>8, <1>9, StepWithoutPages DEF Holding, x

\* The code ends, whether all of it was read or not.
LEMMA EndingStep ==
  ASSUME CodeInv, NEW m \in Modules, InPhase(m, "parsing"), NEW bad \in BOOLEAN,
         mods' = [mods EXCEPT ![m].phase = "ending", ![m].failed = bad],
         mods[m].next > 1, bad => mods[m].pass # "second",
         ~bad => mods[m].next > Len(mods[m].script),
         UNCHANGED <<arena, prot, content, terminated>>
  PROVE  CodeInv'
<1> DEFINE x == mods[m]
           r == [x EXCEPT !.phase = "ending", !.failed = bad]
<1>1. x \in ModuleType /\ ModuleInv(x) /\ x.phase = "parsing"
  BY InState
<1>2. mods' = [mods EXCEPT ![m] = r]
  BY DEF CodeInv, TypeInv
<1>. HIDE DEF x
<1>3. /\ r \in ModuleType /\ r.phase = "ending" /\ r.pass = x.pass /\ r.script = x.script
      /\ r.next = x.next /\ r.failed = bad /\ r.memory = x.memory
  BY <1>1 DEF ModuleType, Phases
<1>. HIDE DEF r
<1>4. Progress(x) /\ Len(x.script) \in Nat
  BY <1>1 DEF ModuleInv, Reading, ModuleType
<1>5. Progress(r)
  BY <1>3, <1>4 DEF Progress, x
<1>6. x.pass # "second" => Measuring(r)
  BY <1>1, <1>3 DEF Measuring, ModuleInv, Reading
<1>7. x.pass = "second" => Repeating(r)
  BY <1>1, <1>3 DEF Repeating, ModuleInv, x
<1>8. ModuleInv(r)
  BY <1>3, <1>5, <1>6, <1>7 DEF ModuleInv
<1>. QED
  BY <1>1, <1>2, <1>3, <1>8, StepWithoutPages DEF Holding, x

\* A module that cannot write a function has written its header, and reads
\* its code for the first time.
LEMMA NoRoom ==
  ASSUME NEW x \in ModuleType, ModuleInv(x), x.phase = "parsing", x.next <= Len(x.script),
         ~Fits(x.memory, x.script[x.next][1])
  PROVE  x.next > 1 /\ x.pass # "second"
<1>1. /\ Progress(x) /\ Len(x.script) \in Nat /\ x.next \in 1..Len(x.script) /\ x.script[1] = Header
      /\ x.memory.offset \in Nat /\ x.memory.capacity \in Nat
  BY DEF ModuleInv, Progress, Reading, ModuleType, GrowableType
<1>2. x.script[x.next][1] \in Nat
  BY <1>1, Sizes DEF ModuleType
<1>3. ASSUME x.pass = "second" PROVE FALSE
  <2>1. PICK off \in Offsets(Len(x.script)) :
          Layout(x.script, Len(x.script), off, x.memory.capacity) /\ x.memory.offset = off[x.next]
    BY <1>3 DEF ModuleInv, Repeating
  <2>2. x.memory.offset + x.script[x.next][1] <= x.memory.capacity
    BY <1>1, <2>1 DEF Layout
  <2>. QED
    BY <1>1, <1>2, <2>2 DEF Fits
<1>4. ASSUME x.next = 1 PROVE FALSE
  <2>1. x.memory.capacity = max_memory_size /\ x.memory.offset = 0
    BY <1>3, <1>4 DEF ModuleInv, Measuring, Reading, Layout
  <2>. QED
    BY <1>1, <1>4, <2>1, Sizes DEF Fits
<1>. QED
  BY <1>1, <1>3, <1>4

\* A function is written, or does not fit and unwinds (emit_prologue,
\* growable_allocator::alloc and reclaim).
LEMMA WriteFunctionStep ==
  ASSUME CodeInv, NEW m \in Modules, WriteFunction(m)
  PROVE  CodeInv'
<1>1. InPhase(m, "parsing") /\ mods[m] \in ModuleType /\ ModuleInv(mods[m]) /\ mods[m].phase = "parsing"
  BY InState DEF WriteFunction
<1>2. CASE Fits(mods[m].memory, mods[m].script[mods[m].next][1])
  BY <1>1, <1>2, WriteStep DEF WriteFunction
<1>3. CASE ~Fits(mods[m].memory, mods[m].script[mods[m].next][1])
  <2>1. mods[m].next > 1 /\ mods[m].pass # "second"
    BY <1>1, <1>3, NoRoom DEF WriteFunction
  <2>2. mods' = [mods EXCEPT ![m].phase = "ending", ![m].failed = TRUE]
    BY <1>3 DEF WriteFunction
  <2>. QED
    BY <1>1, <2>1, <2>2, EndingStep DEF WriteFunction
<1>. QED
  BY <1>2, <1>3

\* An exception of the parser leaves what was written for end_code.
LEMMA ParseErrorStep ==
  ASSUME CodeInv, NEW m \in Modules, ParseError(m)
  PROVE  CodeInv'
BY EndingStep DEF ParseError

\* The whole code section was read, so all of the script was measured.
LEMMA EndOfCodeStep ==
  ASSUME CodeInv, NEW m \in Modules, EndOfCode(m)
  PROVE  CodeInv'
<1>1. mods[m] \in ModuleType /\ ModuleInv(mods[m]) /\ mods[m].phase = "parsing"
  BY InState DEF EndOfCode
<1>2. mods[m].failed = FALSE /\ mods[m].next > 1
  BY <1>1 DEF ModuleInv, Progress, Reading, EndOfCode, ModuleType
<1>3. mods' = [mods EXCEPT ![m].phase = "ending", ![m].failed = FALSE]
  <2>1. mods \in [Modules -> ModuleType]
    BY DEF CodeInv, TypeInv
  <2>2. mods' = [mods EXCEPT ![m].phase = "ending"]
    BY DEF EndOfCode, ToPhase
  <2>3. [mods[m] EXCEPT !.phase = "ending", !.failed = FALSE] = [mods[m] EXCEPT !.phase = "ending"]
    BY <1>1, <1>2 DEF ModuleType
  <2>. QED
    BY <2>1, <2>2, <2>3
<1>. QED
  BY <1>2, <1>3, EndingStep DEF EndOfCode

-----------------------------------------------------------------------------
(* end_code                                                                *)

\* end_code takes a new block of the arena for the module.
LEMMA EndCodeAllocStep ==
  ASSUME CodeInv, NEW m \in Modules, EndCodeAlloc(m)
  PROVE  CodeInv'
<1> DEFINE x == mods[m]
           n == CodePageCount(m)
<1>1. x \in ModuleType /\ ModuleInv(x) /\ x.phase = "ending"
  BY InState DEF EndCodeAlloc
<1>2. x.memory.offset \in Nat /\ align_to_page(x.memory.offset) \in Nat /\ n \in Positive
  BY <1>1, SomethingWritten, Align DEF CodePageCount
<1>3. PICK t \in alloc(arena, n) :
        /\ arena' = t.arena
        /\ mods' = [mods EXCEPT ![m].phase = "allocated", ![m].memory.offset = align_to_page(@),
                                ![m].code = t.block[1], ![m].size = n]
  BY DEF EndCodeAlloc
<1>4. /\ ArenaInv(arena') /\ arena'.allocated_blocks = arena.allocated_blocks \cup {t.block}
      /\ t.block \in Block /\ t.block[2] = n
      /\ \A b \in arena.allocated_blocks : Apart(b, t.block)
  BY <1>2, <1>3, AllocInv DEF CodeInv
<1> DEFINE g == [x.memory EXCEPT !.offset = align_to_page(x.memory.offset)]
           r == [x EXCEPT !.phase = "allocated", !.memory = g, !.code = t.block[1], !.size = n]
<1>5. mods' = [mods EXCEPT ![m] = r]
  BY <1>3, ZenonT(30) DEF CodeInv, TypeInv
<1>. HIDE DEF x, n
<1>6. g \in GrowableType /\ g.largest = x.memory.largest
  BY <1>1, <1>2 DEF ModuleType, GrowableType
<1>. HIDE DEF g
<1>7. /\ r \in ModuleType /\ r.phase = "allocated" /\ r.pass = x.pass /\ r.script = x.script
      /\ r.next = x.next /\ r.failed = x.failed /\ r.memory = g /\ r.code = t.block[1] /\ r.size = n
  <2>1. t.block[1] \in Int /\ n \in Nat
    BY <1>2, <1>4 DEF Block, Positive
  <2>. QED
    BY <1>1, <1>6, <2>1 DEF ModuleType, Phases
<1>. HIDE DEF r
<1>8. ModuleInv(r)
  <2>1. Progress(r)
    BY <1>1, <1>7 DEF ModuleInv, Progress, Reading
  <2>2. x.pass # "second" => Measuring(r)
    BY <1>1, <1>6, <1>7 DEF ModuleInv, Measuring, Reading
  <2>. QED
    BY <1>1, <1>7, <2>1, <2>2 DEF ModuleInv, Repeating
<1>9. mods[m].phase \notin Holding /\ UNCHANGED <<prot, content, terminated>>
  BY <1>1 DEF Holding, EndCodeAlloc, x
<1>. QED
  BY <1>4, <1>5, <1>7, <1>8, <1>9, StepAlloc

\* jit_allocator::alloc throws: the process ends, the arena is sound.
LEMMA EndCodeThrowsStep ==
  ASSUME CodeInv, NEW m \in Modules, EndCodeThrows(m)
  PROVE  CodeInv'
<1>1. mods[m] \in ModuleType /\ ModuleInv(mods[m]) /\ mods[m].phase = "ending"
  BY InState DEF EndCodeThrows
<1>2. CodePageCount(m) \in Positive
  BY <1>1, SomethingWritten, Align DEF CodePageCount
<1>3. ArenaInv(arena') /\ arena'.allocated_blocks = arena.allocated_blocks
  BY <1>2, AllocThrowsInv DEF CodeInv, EndCodeThrows
<1>4. terminated' = TRUE /\ UNCHANGED <<prot, content, mods>>
  BY DEF EndCodeThrows
<1>5. TypeInv' /\ BlocksHeld' /\ CodeIntact' /\ \A n \in Modules : ModuleInv(mods'[n])
  BY <1>3, <1>4 DEF CodeInv, TypeInv, BlocksHeld, CodeIntact
<1>. QED
  BY <1>3, <1>5 DEF CodeInv

\* The first mprotect of end_code throws: the process ends with a block
\* that its module holds.
LEMMA EndCodeProtectFailsStep ==
  ASSUME CodeInv, NEW m \in Modules, EndCodeProtectFails(m)
  PROVE  CodeInv'
<1>1. terminated' = TRUE /\ UNCHANGED <<arena, prot, content, mods>>
  BY DEF EndCodeProtectFails
<1>2. TypeInv' /\ BlocksHeld' /\ CodeIntact' /\ \A n \in Modules : ModuleInv(mods'[n])
  BY <1>1 DEF CodeInv, TypeInv, BlocksHeld, CodeIntact
<1>. QED
  BY <1>1, <1>2 DEF CodeInv

\* What a module that holds pages knows of its code does not depend on the
\* phase it is in.
LEMMA LaterPhase ==
  ASSUME NEW x \in ModuleType, ModuleInv(x), x.phase \in Reading \ {"parsing", "ending", "measured"}, NEW r,
         r.phase \in {"writable", "copied", "compiled"}, r.phase = "compiled" => ~x.failed,
         r.pass = x.pass, r.script = x.script, r.next = x.next, r.failed = x.failed,
         r.memory.largest = x.memory.largest
  PROVE  ModuleInv(r)
<1>1. Progress(r)
  BY DEF ModuleInv, Progress, Reading
<1>2. x.pass # "second" => Measuring(r)
  BY DEF ModuleInv, Measuring, Reading
<1>. QED
  BY <1>1, <1>2 DEF ModuleInv, Repeating, Reading

\* mprotect on the pages of a module.
LEMMA Protected ==
  ASSUME CodeInv, NEW m \in Holders, NEW to \in {Stale, "none", "rw", "exec"}, Protect(PagesOfModule(m), to)
  PROVE  /\ prot' \in [Addresses -> {Stale, "none", "rw", "exec"}]
         /\ \A p \in Addresses \ PagesOfModule(m) : prot'[p] = prot[p]
         /\ \A p \in PagesOfModule(m) : prot'[p] = to
<1>1. PagesOfModule(m) \subseteq Addresses
  BY HeldBlock
<1>. QED
  BY <1>1 DEF Protect, CodeInv, TypeInv

\* end_code makes the module's own pages writable and no other.
LEMMA EndCodeProtectStep ==
  ASSUME CodeInv, NEW m \in Modules, EndCodeProtect(m)
  PROVE  CodeInv'
<1> DEFINE x == mods[m]
           r == [x EXCEPT !.phase = "writable"]
<1>1. x \in ModuleType /\ ModuleInv(x) /\ x.phase = "allocated"
  BY InState DEF EndCodeProtect
<1>2. mods' = [mods EXCEPT ![m] = r] /\ UNCHANGED <<arena, content, terminated>>
  BY DEF CodeInv, TypeInv, EndCodeProtect, ToPhase
<1>3. /\ prot' \in [Addresses -> {Stale, "none", "rw", "exec"}]
      /\ \A p \in Addresses \ PagesOfModule(m) : prot'[p] = prot[p]
      /\ \A p \in PagesOfModule(m) : prot'[p] = "rw"
  BY <1>1, Protected DEF EndCodeProtect, Holders, Holding
<1>4. content' \in [Addresses -> Modules \cup {Stale}]
  BY <1>2 DEF CodeInv, TypeInv
<1>5. /\ r \in ModuleType /\ r.phase = "writable" /\ r.pass = x.pass /\ r.script = x.script /\ r.next = x.next
      /\ r.failed = x.failed /\ r.memory = x.memory /\ r.code = x.code /\ r.size = x.size /\ r.prot = x.prot
  <2>. HIDE DEF x
  <2>. QED
    BY <1>1 DEF ModuleType, Phases
<1>. HIDE DEF r
<1>6. ModuleInv(r)
  BY <1>1, <1>5, LaterPhase DEF Reading
<1>7. ModuleIntact(m, r, prot', content')
  BY <1>3, <1>5 DEF ModuleIntact, PagesOfModule
<1>. QED
  BY <1>1, <1>2, <1>3, <1>4, <1>5, <1>6, <1>7, StepHolding DEF Holding

\* end_code copies the code to the module's own pages and no other.
LEMMA EndCodeCopyStep ==
  ASSUME CodeInv, NEW m \in Modules, EndCodeCopy(m)
  PROVE  CodeInv'
<1> DEFINE x == mods[m]
           r == [x EXCEPT !.phase = "copied"]
<1>1. x \in ModuleType /\ ModuleInv(x) /\ x.phase = "writable" /\ m \in Holders
  BY InState DEF EndCodeCopy, Holders, Holding
<1>2. mods' = [mods EXCEPT ![m] = r] /\ UNCHANGED <<arena, prot, terminated>>
  BY DEF CodeInv, TypeInv, EndCodeCopy, ToPhase
<1>3. /\ content' \in [Addresses -> Modules \cup {Stale}]
      /\ \A p \in Addresses \ PagesOfModule(m) : content'[p] = content[p]
      /\ \A p \in PagesOfModule(m) : content'[p] = m
  <2>1. PagesOfModule(m) \subseteq Addresses
    BY <1>1, HeldBlock
  <2>. QED
    BY <2>1 DEF CodeInv, TypeInv, EndCodeCopy
<1>4. prot' \in [Addresses -> {Stale, "none", "rw", "exec"}]
  BY <1>2 DEF CodeInv, TypeInv
<1>5. /\ r \in ModuleType /\ r.phase = "copied" /\ r.pass = x.pass /\ r.script = x.script /\ r.next = x.next
      /\ r.failed = x.failed /\ r.memory = x.memory /\ r.code = x.code /\ r.size = x.size
  <2>. HIDE DEF x
  <2>. QED
    BY <1>1 DEF ModuleType, Phases
<1>. HIDE DEF r
<1>6. ModuleInv(r)
  BY <1>1, <1>5, LaterPhase DEF Reading
<1>7. ModuleIntact(m, r, prot', content')
  BY <1>3, <1>5 DEF ModuleIntact, PagesOfModule
<1>. QED
  BY <1>1, <1>2, <1>3, <1>4, <1>5, <1>6, <1>7, StepHolding DEF Holding

\* enable_code, in end_code and after a deadline: whether or not mprotect
\* succeeds the code is as it was written.
LEMMA EnableStep ==
  ASSUME CodeInv, NEW m \in Modules, NEW from \in {"rw", "none"}, NEW phase, enable_code(m, from, phase),
         \/ mods[m].phase = "copied" /\ phase \in {"compiled", "unwinding"} /\ (phase = "compiled" => ~mods[m].failed)
         \/ mods[m].phase = "disabled" /\ phase = "live",
         UNCHANGED <<arena, content, terminated>>
  PROVE  CodeInv'
<1> DEFINE x == mods[m]
<1>1. PICK to \in {"exec", from} :
        /\ Protect(PagesOfModule(m), to)
        /\ mods' = [mods EXCEPT ![m].phase = phase, ![m].prot = to,
                                ![m].memory.offset = IF from = "rw" THEN 0 ELSE @]
  BY DEF enable_code
<1> DEFINE g == [x.memory EXCEPT !.offset = IF from = "rw" THEN 0 ELSE @]
           r == [x EXCEPT !.phase = phase, !.prot = to, !.memory = g]
<1>2. x \in ModuleType /\ ModuleInv(x) /\ m \in Holders
  BY DEF CodeInv, TypeInv, Holders, Holding
<1>3. mods' = [mods EXCEPT ![m] = r]
  BY <1>1, ZenonT(30) DEF CodeInv, TypeInv
<1>4. /\ prot' \in [Addresses -> {Stale, "none", "rw", "exec"}]
      /\ \A p \in Addresses \ PagesOfModule(m) : prot'[p] = prot[p]
      /\ \A p \in PagesOfModule(m) : prot'[p] = to
  BY <1>1, <1>2, Protected
<1>5. content' \in [Addresses -> Modules \cup {Stale}]
  BY DEF CodeInv, TypeInv
<1>6. /\ r \in ModuleType /\ r.phase = phase /\ r.pass = x.pass /\ r.script = x.script /\ r.next = x.next
      /\ r.failed = x.failed /\ r.memory = g /\ r.code = x.code /\ r.size = x.size /\ r.prot = to
      /\ g.largest = x.memory.largest
  <2>1. x.memory \in GrowableType /\ phase \in Phases /\ to \in {"none", "rw", "exec"}
    BY <1>2 DEF ModuleType, Phases
  <2>. HIDE DEF x
  <2>2. g \in GrowableType /\ g.largest = x.memory.largest
    BY <2>1 DEF GrowableType
  <2>. HIDE DEF g
  <2>. QED
    BY <1>2, <2>1, <2>2 DEF ModuleType
<1>. HIDE DEF r, g
<1>7. ModuleInv(r)
  <2>1. CASE phase = "compiled"
    BY <1>2, <1>6, <2>1, LaterPhase DEF Reading
  <2>2. CASE phase \in {"unwinding", "live"}
    BY <1>2, <1>6, <2>2 DEF ModuleInv, Reading, Repeating
  <2>. QED
    BY <2>1, <2>2
<1>8. ModuleIntact(m, r, prot', content')
  <2>1. \A p \in PagesOfModule(m) : content[p] = m
    BY DEF CodeInv, CodeIntact, PagesOfModule
  <2>. QED
    BY <1>4, <1>6, <2>1 DEF ModuleIntact, PagesOfModule
<1>. QED
  BY <1>2, <1>3, <1>4, <1>5, <1>6, <1>7, <1>8, StepHolding DEF Holding

\* The calls of enable_code by end_code and after a deadline.
LEMMA EnableSteps ==
  ASSUME CodeInv, NEW m \in Modules, EndCodeEnable(m) \/ Reenable(m)
  PROVE  CodeInv'
<1>1. CASE EndCodeEnable(m)
  BY <1>1, EnableStep DEF EndCodeEnable, InPhase
<1>2. CASE Reenable(m)
  BY <1>2, EnableStep DEF Reenable, InPhase
<1>. QED
  BY <1>1, <1>2

-----------------------------------------------------------------------------
(* The module after its code.                                              *)

\* growable_allocator::finalize keeps the largest offset.
LEMMA Finalized ==
  ASSUME NEW g \in GrowableType
  PROVE  finalize(g) \in GrowableType /\ finalize(g).largest = g.largest
<1> DEFINE size == align_to_page(g.offset)
<1>1. g.offset \in Nat /\ size \in Nat
  BY Align DEF GrowableType
<1>. HIDE DEF size
<1>2. finalize(g) = IF g.capacity # g.offset /\ size < g.capacity
                    THEN [g EXCEPT !.capacity = size, !.offset = size, !.base = size # 0] ELSE g
  BY Zenon DEF finalize, size
<1>. QED
  BY <1>1, <1>2 DEF GrowableType

\* module::finalize ends a first pass or makes the module callable.
LEMMA FinalizeStep ==
  ASSUME CodeInv, NEW m \in Modules, Finalize(m)
  PROVE  CodeInv'
<1> DEFINE x == mods[m]
           g == finalize(x.memory)
           r == IF x.pass = "first" THEN [x EXCEPT !.memory = g, !.phase = "measured"]
                ELSE [x EXCEPT !.memory = g, !.phase = "live", !.script = <<>>, !.next = 1, !.pass = "single"]
<1>1. x \in ModuleType /\ ModuleInv(x) /\ x.phase = "compiled" /\ x.memory \in GrowableType
  BY InState DEF Finalize, ModuleType
<1>2. mods' = [mods EXCEPT ![m] = r] /\ UNCHANGED <<arena, prot, content, terminated>>
  BY DEF CodeInv, TypeInv, Finalize
<1>3. g \in GrowableType /\ g.largest = x.memory.largest
  BY <1>1, Finalized
<1>. HIDE DEF g
<1>4. /\ r \in ModuleType /\ r.phase \in {"measured", "live"} /\ r.code = x.code /\ r.size = x.size
      /\ r.prot = x.prot /\ r.failed = x.failed /\ r.memory = g
      /\ IF x.pass = "first" THEN r.phase = "measured" /\ r.pass = "first" /\ r.script = x.script /\ r.next = x.next
                             ELSE r.phase = "live" /\ r.pass = "single"
  <2>. HIDE DEF x
  <2>1. CASE x.pass = "first"
    <3> DEFINE y == [x EXCEPT !.memory = g, !.phase = "measured"]
    <3>1. /\ y \in ModuleType /\ y.phase = "measured" /\ y.code = x.code /\ y.size = x.size
          /\ y.prot = x.prot /\ y.failed = x.failed /\ y.memory = g
          /\ y.pass = x.pass /\ y.script = x.script /\ y.next = x.next
      BY <1>1, <1>3 DEF ModuleType, Phases
    <3>2. r = y
      BY <2>1
    <3>. HIDE DEF r, y
    <3>. QED
      BY <2>1, <3>1, <3>2
  <2>2. CASE x.pass # "first"
    <3> DEFINE e == <<>>
               y == [x EXCEPT !.memory = g, !.phase = "live", !.script = e, !.next = 1, !.pass = "single"]
    <3>1. e \in Seq(Bodies \cup {Header})
      OBVIOUS
    <3>2. r = y
      BY <2>2
    <3>. HIDE DEF e
    <3>3. /\ y \in ModuleType /\ y.phase = "live" /\ y.code = x.code /\ y.size = x.size
          /\ y.prot = x.prot /\ y.failed = x.failed /\ y.memory = g /\ y.pass = "single"
      BY <1>1, <1>3, <3>1 DEF ModuleType, Phases
    <3>. HIDE DEF r, y
    <3>. QED
      BY <2>2, <3>2, <3>3
  <2>. QED
    BY <2>1, <2>2
<1>. HIDE DEF r
<1>5. ModuleInv(r)
  <2>1. CASE x.pass = "first"
    <3>1. Progress(r)
      BY <1>1, <1>4, <2>1 DEF ModuleInv, Progress, Reading
    <3>2. Measuring(r)
      BY <1>1, <1>3, <1>4, <2>1 DEF ModuleInv, Measuring, Reading
    <3>. QED
      BY <1>1, <1>4, <2>1, <3>1, <3>2 DEF ModuleInv
  <2>2. CASE x.pass # "first"
    BY <1>4, <2>2 DEF ModuleInv, Reading
  <2>. QED
    BY <2>1, <2>2
<1>6. ModuleIntact(m, r, prot', content')
  <2>1. \A p \in PagesOf(x.code, x.size) : content[p] = m /\ prot[p] = x.prot
    BY <1>1 DEF CodeInv, CodeIntact
  <2>. QED
    BY <1>2, <1>4, <2>1 DEF ModuleIntact
<1>7. /\ prot' \in [Addresses -> {Stale, "none", "rw", "exec"}]
      /\ content' \in [Addresses -> Modules \cup {Stale}]
  BY <1>2 DEF CodeInv, TypeInv
<1>. QED
  BY <1>1, <1>2, <1>4, <1>5, <1>6, <1>7, StepHolding DEF Holding

\* disable_code takes the right to execute from the module's own pages.
LEMMA DisableStep ==
  ASSUME CodeInv, NEW m \in Modules, disable_code(m)
  PROVE  CodeInv'
<1> DEFINE x == mods[m]
           r == [x EXCEPT !.phase = "disabled", !.prot = "none"]
<1>1. x \in ModuleType /\ ModuleInv(x) /\ x.phase = "live" /\ m \in Holders
  BY InState DEF disable_code, Holders, Holding
<1>2. mods' = [mods EXCEPT ![m] = r] /\ UNCHANGED <<arena, content, terminated>>
  BY DEF CodeInv, TypeInv, disable_code
<1>3. /\ prot' \in [Addresses -> {Stale, "none", "rw", "exec"}]
      /\ \A p \in Addresses \ PagesOfModule(m) : prot'[p] = prot[p]
      /\ \A p \in PagesOfModule(m) : prot'[p] = "none"
  BY <1>1, Protected DEF disable_code
<1>4. /\ r \in ModuleType /\ r.phase = "disabled" /\ r.pass = x.pass /\ r.failed = x.failed
      /\ r.code = x.code /\ r.size = x.size /\ r.prot = "none"
  <2>. HIDE DEF x
  <2>. QED
    BY <1>1 DEF ModuleType, Phases
<1>. HIDE DEF r
<1>5. ModuleInv(r)
  BY <1>1, <1>4 DEF ModuleInv, Reading, Repeating
<1>6. ModuleIntact(m, r, prot', content')
  <2>1. \A p \in PagesOfModule(m) : content[p] = m
    BY <1>1 DEF CodeInv, CodeIntact, PagesOfModule
  <2>. QED
    BY <1>2, <1>3, <1>4, <2>1 DEF ModuleIntact, PagesOfModule
<1>7. content' \in [Addresses -> Modules \cup {Stale}]
  BY <1>2 DEF CodeInv, TypeInv
<1>. QED
  BY <1>1, <1>2, <1>3, <1>4, <1>5, <1>6, <1>7, StepHolding DEF Holding

\* ~growable_allocator gives back the module's block and no other.
LEMMA DestroyStep ==
  ASSUME CodeInv, NEW m \in Modules, Destroy(m)
  PROVE  CodeInv'
<1>1. mods[m].phase \in Holding
  BY DEF Destroy, InPhase, Holding
<1>2. ModuleInv(NoModule) /\ NoModule.phase \notin Holding
  BY FreshModule DEF ModuleInv, Reading, Holding
<1>. QED
  BY <1>1, <1>2, FreshModule, StepFree DEF Destroy

\* The second pass gets room for everything the first one reserved.
LEMMA SecondPassStep ==
  ASSUME CodeInv, NEW m \in Modules, SecondPass(m)
  PROVE  CodeInv'
<1> DEFINE x == mods[m]
           room == align_to_page(x.memory.largest)
           g == Memory(TRUE, room)
           r == [NoModule EXCEPT !.phase = "parsing", !.pass = "second", !.script = x.script, !.memory = g]
<1>1. x \in ModuleType /\ ModuleInv(x) /\ x.phase = "measured"
  BY InState DEF SecondPass
<1>2. mods' = [mods EXCEPT ![m] = r] /\ FreeCode(m) /\ terminated' = terminated
  BY DEF SecondPass
<1>. HIDE DEF x
<1>3. x.memory.largest \in Nat /\ room \in Nat /\ room >= x.memory.largest
  BY <1>1, Align DEF ModuleType, GrowableType
<1>. HIDE DEF room
<1>4. g \in GrowableType /\ g.offset = 0 /\ g.capacity = room
  BY <1>3 DEF Memory, GrowableType
<1>. HIDE DEF g
<1>5. /\ r \in ModuleType /\ r.phase = "parsing" /\ r.pass = "second" /\ r.script = x.script
      /\ r.next = 1 /\ ~r.failed /\ r.memory = g
  <2>1. x.script \in Seq(Bodies \cup {Header})
    BY <1>1 DEF ModuleType
  <2>. QED
    BY <1>4, <2>1, FreshModule DEF ModuleType, Phases
<1>. HIDE DEF r
<1>6. ModuleInv(r)
  <2>1. /\ x.pass = "first" /\ ~x.failed /\ Progress(x) /\ Measuring(x) /\ Len(x.script) \in Nat
        /\ x.script \in Seq(Bodies \cup {Header})
    BY <1>1 DEF ModuleInv, Reading, ModuleType
  <2>2. x.next - 1 = Len(x.script)
    BY <1>1, <2>1 DEF Progress
  <2>3. PICK off \in Offsets(Len(x.script)) : Layout(x.script, Len(x.script), off, x.memory.largest)
    BY <2>1, <2>2 DEF Measuring
  <2>4. Layout(x.script, Len(x.script), off, room)
    <3>1. \A i \in 1..Len(x.script) : off[i] \in Nat /\ x.script[i][1] \in Nat
      BY <2>1, Sizes DEF Offsets
    <3>. QED
      BY <1>3, <2>3, <3>1 DEF Layout
  <2>5. Repeating(r)
    BY <1>4, <1>5, <2>3, <2>4 DEF Repeating, Layout
  <2>6. Progress(r)
    BY <1>5, <2>1 DEF Progress
  <2>. QED
    BY <1>5, <2>5, <2>6 DEF ModuleInv
<1>. QED
  BY <1>1, <1>2, <1>5, <1>6, StepFree DEF Holding, x

-----------------------------------------------------------------------------
(* The theorems.                                                           *)

\* No module is loaded at the start and the arena is empty.
LEMMA InitCodeInv == Init => CodeInv
<1> SUFFICES ASSUME Init PROVE CodeInv
  OBVIOUS
<1>1. ArenaInv(arena)
  BY DEF Init, NoArena, ArenaInv, Arena, BlocksApart, FreeNotUsed, Covered, Listed, Merged, SegmentsInside,
         AllBlocks, BySize
<1>2. TypeInv
  BY FreshModule DEF Init, TypeInv
<1>3. BlocksHeld
  BY FreshModule DEF Init, BlocksHeld, NoArena, Holding
<1>4. CodeIntact
  BY FreshModule DEF Init, CodeIntact
<1>5. \A m \in Modules : ModuleInv(mods[m])
  BY FreshModule DEF Init, ModuleInv, Reading
<1>. QED
  BY <1>1, <1>2, <1>3, <1>4, <1>5 DEF CodeInv

\* Every step of every thread keeps the invariant.
LEMMA NextCodeInv == CodeInv /\ [Next]_vars => CodeInv'
<1> SUFFICES ASSUME CodeInv, [Next]_vars PROVE CodeInv'
  OBVIOUS
<1>1. CASE UNCHANGED vars
  <2>1. TypeInv' /\ BlocksHeld' /\ CodeIntact' /\ UNCHANGED <<arena, mods>>
    BY <1>1 DEF vars, CodeInv, TypeInv, BlocksHeld, CodeIntact
  <2>. QED
    BY <2>1 DEF CodeInv
<1>2. ASSUME NEW m \in Modules, NEW script \in Scripts, NEW pass \in {"single", "first"}, Start(m, script, pass)
      PROVE  CodeInv'
  BY <1>2, StartStep
<1>3. ASSUME NEW m \in Modules,
             \/ WriteFunction(m) \/ ParseError(m) \/ EndOfCode(m)
             \/ EndCodeAlloc(m) \/ EndCodeThrows(m) \/ EndCodeProtect(m) \/ EndCodeProtectFails(m)
             \/ EndCodeCopy(m) \/ EndCodeEnable(m)
             \/ Finalize(m) \/ SecondPass(m) \/ disable_code(m) \/ Reenable(m) \/ Destroy(m)
      PROVE  CodeInv'
  BY <1>3, WriteFunctionStep, ParseErrorStep, EndOfCodeStep, EndCodeAllocStep, EndCodeThrowsStep,
     EndCodeProtectStep, EndCodeProtectFailsStep, EndCodeCopyStep, EnableSteps, FinalizeStep, SecondPassStep,
     DisableStep, DestroyStep
<1>. QED
  BY <1>1, <1>2, <1>3 DEF Next, Terminated

\* The inductive invariant: the arena, what each module holds of it, and how
\* far each compilation is, together.
THEOREM CodeInvariant == Spec => []CodeInv
BY InitCodeInv, NextCodeInv, PTL DEF Spec

\* Whatever the order in which threads allocate, fail and free, the arena's
\* blocks cover its segments without overlap and both indexes agree.
THEOREM PartitionAlways == Spec => []Partition
BY CodeInvariant, ArenaInvMeans, PTL DEF CodeInv

\* free leaves no two adjacent free blocks in a segment.
THEOREM CoalescedAlways == Spec => []Coalesced
BY CodeInvariant, ArenaInvMeans, PTL DEF CodeInv

\* end_code and ~growable_allocator lose no block and free none twice.
THEOREM BlocksHeldAlways == Spec => []BlocksHeld
<1>1. CodeInv => BlocksHeld
  BY DEF CodeInv
<1>. QED
  BY <1>1, CodeInvariant, PTL

\* No module's code is overwritten, made writable or disabled by another
\* module's compilation, deadline or destruction.
THEOREM CodeIntactAlways == Spec => []CodeIntact
<1>1. CodeInv => CodeIntact
  BY DEF CodeInv
<1>. QED
  BY <1>1, CodeInvariant, PTL

\* The second pass of a two-pass compilation never runs out of the memory
\* that the first one measured (largest_offset, align_to_page).
THEOREM SecondPassFitsAlways == Spec => []SecondPassFits
<1>1. CodeInv => SecondPassFits
  BY DEF CodeInv, SecondPassFits, ModuleInv, Repeating
<1>. QED
  BY <1>1, CodeInvariant, PTL
=============================================================================
