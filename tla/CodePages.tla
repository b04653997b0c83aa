----------------------------- MODULE CodePages -----------------------------
(***************************************************************************)
(* Modules compiled for the JIT by threads that run at once: each writes   *)
(* its code into a growable_allocator of its own, moves it to pages of the *)
(* one jit_allocator, runs it there under deadlines, and gives the pages   *)
(* back.  Offsets and capacities are in bytes, blocks in pages.            *)
(***************************************************************************)
EXTENDS JitAllocator, Sequences

CONSTANTS
  Modules,
  PageBytes,        \* bytes of a page
  max_memory_size,  \* bytes of the default memory
  Bodies,           \* <<reserved, used>> bytes of a function's code
  Header,           \* <<reserved, used>> of what the writer always emits
  MaxFunctions,     \* functions of a module
  Threads           \* how many compile at once

ASSUME CodePagesAssumption ==
  /\ PageBytes \in Nat \ {0} /\ MaxFunctions \in Nat /\ Threads \in Nat
  /\ max_memory_size \in Nat /\ max_memory_size % PageBytes = 0 /\ max_memory_size > 0
  /\ \A b \in Bodies \cup {Header} : b \in Nat \X Nat /\ b[2] <= b[1]
  /\ 0 < Header[2] /\ Header[1] <= max_memory_size

VARIABLES
  arena,       \* the jit_allocator
  prot,        \* protection of the pages modules hold
  content,     \* whose code they hold
  mods,        \* a module: its growable_allocator and how far it is
  terminated   \* an exception left the destructor of the writer

vars == <<arena, prot, content, mods, terminated>>

\* What a page that is not held has: protection and content left by earlier
\* modules, of which alloc promises nothing.
Stale == "stale"
Scripts == UNION {[1..n -> Bodies] : n \in 0..MaxFunctions}
Memory(base, capacity) == [base |-> base, offset |-> 0, largest |-> 0, capacity |-> capacity]
NoCode == -1
NoModule == [phase |-> "none", pass |-> "single", script |-> <<>>, next |-> 1, failed |-> FALSE,
             memory |-> Memory(FALSE, 0), code |-> NoCode, size |-> 0, prot |-> "none"]
Phases == {"none", "parsing", "ending", "allocated", "writable", "copied", "compiled", "measured",
           "live", "disabled", "unwinding"}
\* The phases in which a module holds pages of the arena.
Holding == {"allocated", "writable", "copied", "compiled", "measured", "live", "disabled", "unwinding"}

align_to_page(offset) == ((offset + PageBytes - 1) \div PageBytes) * PageBytes

Init ==
  /\ arena = NoArena
  /\ prot = [p \in Addresses |-> Stale]
  /\ content = [p \in Addresses |-> Stale]
  /\ mods = [m \in Modules |-> NoModule]
  /\ terminated = FALSE

InPhase(m, phase) == ~terminated /\ mods[m].phase = phase
\* Mutant: one page more than the module has.
PagesOfModule_OneMore(m) == PagesOf(mods[m].code, mods[m].size + 1) \cap Addresses
\* _code_base and _code_size
PagesOfModule(m) == PagesOf(mods[m].code, mods[m].size)
Protect(pages, to) == prot' = [p \in Addresses |-> IF p \in pages THEN to ELSE prot[p]]
ToPhase(m, phase) == mods' = [mods EXCEPT ![m].phase = phase]

-----------------------------------------------------------------------------
(* growable_allocator *)

Fits(g, size) == g.capacity - g.offset >= size
\* Mutant: the largest offset is taken after the reclaim.
WriteCode_MeasuresUsed(g, body) ==
  [g EXCEPT !.offset = @ + body[2], !.largest = IF g.offset + body[2] > @ THEN g.offset + body[2] ELSE @]
\* alloc of the reserved bytes, then reclaim of those that were not used.
WriteCode(g, body) ==
  [g EXCEPT !.offset = @ + body[2], !.largest = IF g.offset + body[1] > @ THEN g.offset + body[1] ELSE @]

\* finalize: the pages after the offset are unmapped, all of them when only
\* code was written and moved away.
finalize(g) ==
  LET final_size == align_to_page(g.offset) IN
  IF g.capacity # g.offset /\ final_size < g.capacity
  THEN [g EXCEPT !.capacity = final_size, !.offset = final_size, !.base = final_size # 0]
  ELSE g

Compiling == {m \in Modules : mods[m].phase \notin {"none", "live", "disabled"}}
\* use_default_memory, then the sections up to the code, then start_code.
Start(m, script, pass) ==
  /\ InPhase(m, "none")
  /\ Cardinality(Compiling) < Threads
  /\ mods' = [mods EXCEPT ![m] = [NoModule EXCEPT !.phase = "parsing", !.pass = pass,
                                                  !.script = <<Header>> \o script,
                                                  !.memory = Memory(TRUE, max_memory_size)]]
  /\ UNCHANGED <<arena, prot, content, terminated>>

\* emit_prologue reserves, finalize of the writer reclaims.  Without room
\* wasm_bad_alloc unwinds through the writer, whose destructor ends the code.
WriteFunction(m) ==
  /\ InPhase(m, "parsing")
  /\ mods[m].next <= Len(mods[m].script)
  /\ LET body == mods[m].script[mods[m].next] IN
     mods' = IF Fits(mods[m].memory, body[1])
             THEN [mods EXCEPT ![m].memory = WriteCode(@, body), ![m].next = @ + 1]
             ELSE [mods EXCEPT ![m].phase = "ending", ![m].failed = TRUE]
  /\ UNCHANGED <<arena, prot, content, terminated>>

\* The code is not valid after all.  A second pass reads what the first one
\* accepted.
ParseError(m) ==
  /\ InPhase(m, "parsing")
  /\ mods[m].next > 1 /\ mods[m].pass # "second"
  /\ mods' = [mods EXCEPT ![m].phase = "ending", ![m].failed = TRUE]
  /\ UNCHANGED <<arena, prot, content, terminated>>

EndOfCode(m) ==
  /\ InPhase(m, "parsing")
  /\ mods[m].next > Len(mods[m].script)
  /\ ToPhase(m, "ending")
  /\ UNCHANGED <<arena, prot, content, terminated>>

-----------------------------------------------------------------------------
(* end_code<true>, in the destructor of machine_code_writer: an exception  *)
(* there ends the process.                                                 *)

CodePageCount(m) == align_to_page(mods[m].memory.offset) \div PageBytes

EndCodeAlloc(m) ==
  /\ InPhase(m, "ending")
  /\ \E x \in alloc(arena, CodePageCount(m)) :
       /\ arena' = x.arena
       /\ mods' = [mods EXCEPT ![m].phase = "allocated", ![m].memory.offset = align_to_page(@),
                               ![m].code = x.block[1], ![m].size = CodePageCount(m)]
  /\ UNCHANGED <<prot, content, terminated>>
EndCodeThrows(m) ==
  /\ InPhase(m, "ending")
  /\ arena' \in alloc_throws(arena, CodePageCount(m))
  /\ terminated' = TRUE
  /\ UNCHANGED <<prot, content, mods>>

EndCodeProtect(m) ==
  /\ InPhase(m, "allocated")
  /\ Protect(PagesOfModule(m), "rw")
  /\ ToPhase(m, "writable")
  /\ UNCHANGED <<arena, content, terminated>>
EndCodeProtectFails(m) ==
  /\ InPhase(m, "allocated")
  /\ terminated' = TRUE
  /\ UNCHANGED <<arena, prot, content, mods>>
EndCodeCopy(m) ==
  /\ InPhase(m, "writable")
  /\ content' = [p \in Addresses |-> IF p \in PagesOfModule(m) THEN m ELSE content[p]]
  /\ ToPhase(m, "copied")
  /\ UNCHANGED <<arena, prot, terminated>>

\* enable_code does not look at what mprotect answers; end_code then sets the
\* offset back.
enable_code(m, from, phase) ==
  \E to \in {"exec", from} :
    /\ Protect(PagesOfModule(m), to)
    /\ mods' = [mods EXCEPT ![m].phase = phase, ![m].prot = to,
                            ![m].memory.offset = IF from = "rw" THEN 0 ELSE @]
EndCodeEnable(m) ==
  /\ InPhase(m, "copied")
  /\ enable_code(m, "rw", IF mods[m].failed THEN "unwinding" ELSE "compiled")
  /\ UNCHANGED <<arena, content, terminated>>

-----------------------------------------------------------------------------
(* The module after its code.                                              *)

\* module::finalize; of two passes the first only measures.
Finalize(m) ==
  /\ InPhase(m, "compiled")
  /\ mods' = IF mods[m].pass = "first" THEN [mods EXCEPT ![m].memory = finalize(@), ![m].phase = "measured"]
             ELSE [mods EXCEPT ![m].memory = finalize(@), ![m].phase = "live", ![m].script = <<>>, ![m].next = 1,
                                     ![m].pass = "single"]
  /\ UNCHANGED <<arena, prot, content, terminated>>

\* Mutant: the code outlives its module.
FreeCode_Kept(m) ==
  /\ Protect(PagesOfModule(m), Stale)
  /\ UNCHANGED <<arena, content>>
\* ~growable_allocator
FreeCode(m) ==
  /\ arena' = free(arena, mods[m].code)
  /\ Protect(PagesOfModule(m), Stale)
  /\ content' = [p \in Addresses |-> IF p \in PagesOfModule(m) THEN Stale ELSE content[p]]

\* The first module goes, and with it its code; the second one gets the
\* memory the first needed.
SecondPass(m) ==
  /\ InPhase(m, "measured")
  /\ FreeCode(m)
  /\ mods' = [mods EXCEPT ![m] = [NoModule EXCEPT !.phase = "parsing", !.pass = "second", !.script = mods[m].script,
                                                  !.memory = Memory(TRUE, align_to_page(mods[m].memory.largest))]]
  /\ UNCHANGED terminated

\* A deadline of a timed_run, and the end of that run.  When mprotect fails
\* here nothing changes.
disable_code(m) ==
  /\ InPhase(m, "live")
  /\ Protect(PagesOfModule(m), "none")
  /\ mods' = [mods EXCEPT ![m].phase = "disabled", ![m].prot = "none"]
  /\ UNCHANGED <<arena, content, terminated>>
Reenable(m) ==
  /\ InPhase(m, "disabled")
  /\ enable_code(m, "none", "live")
  /\ UNCHANGED <<arena, content, terminated>>

Destroy(m) ==
  /\ InPhase(m, "live") \/ InPhase(m, "unwinding")
  /\ FreeCode(m)
  /\ mods' = [mods EXCEPT ![m] = NoModule]
  /\ UNCHANGED terminated

Terminated == terminated /\ UNCHANGED vars

Next ==
  \/ \E m \in Modules :
       \/ \E script \in Scripts, pass \in {"single", "first"} : Start(m, script, pass)
       \/ WriteFunction(m) \/ ParseError(m) \/ EndOfCode(m)
       \/ EndCodeAlloc(m) \/ EndCodeThrows(m) \/ EndCodeProtect(m) \/ EndCodeProtectFails(m)
       \/ EndCodeCopy(m) \/ EndCodeEnable(m)
       \/ Finalize(m) \/ SecondPass(m) \/ disable_code(m) \/ Reenable(m) \/ Destroy(m)
  \/ Terminated

Spec == Init /\ [][Next]_vars

-----------------------------------------------------------------------------
Blocks == arena.free_blocks \cup arena.allocated_blocks

\* The arena's blocks cover its segments and nothing else, no page twice, and
\* the sets by size list the blocks of the maps by address (alloc, free,
\* split_block, maybe_consolidate_blocks and their scope guards).
Partition ==
  /\ UNION {PagesOf(b[1], b[2]) : b \in Blocks} = Mapped(arena)
  /\ \A b, c \in Blocks : b # c => PagesOf(b[1], b[2]) \cap PagesOf(c[1], c[2]) = {}
  /\ arena.free_blocks \cap arena.allocated_blocks = {}
  /\ \A b \in Blocks : b[2] > 0
  /\ arena.free_blocks_by_size = BySize(arena.free_blocks)
  /\ arena.allocated_blocks_by_size = BySize(arena.allocated_blocks)

\* Free blocks that touch do so where two segments touch: freeing leaves no
\* fragments behind, whatever the order modules go in.
Coalesced ==
  \A b, c \in arena.free_blocks : b[1] + b[2] = c[1] => \E s \in arena.segments : s[1] = c[1]

\* No block is lost: each allocated one is held by one module, whether its
\* compilation succeeded, failed or is a first pass.
BlocksHeld ==
  LET holders == {m \in Modules : mods[m].phase \in Holding} IN
  /\ \A m \in holders : <<mods[m].code, mods[m].size>> \in arena.allocated_blocks
  /\ \A b \in arena.allocated_blocks : terminated \/ \E m \in holders : mods[m].code = b[1]
  /\ \A m, n \in holders : m # n => mods[m].code # mods[n].code

\* The code of a module stays as written, protected as its own enable_code
\* and disable_code left it, and is written only while it can be.
CodeIntact ==
  \A m \in Modules : \A p \in PagesOf(mods[m].code, mods[m].size) :
    CASE mods[m].phase = "writable" -> prot[p] = "rw"
      [] mods[m].phase = "copied" -> content[p] = m
      [] mods[m].phase \in {"compiled", "measured", "live", "disabled", "unwinding"} ->
           content[p] = m /\ prot[p] = mods[m].prot
      [] OTHER -> TRUE

\* The memory the first pass measured is enough for the second.
SecondPassFits == \A m \in Modules : mods[m].pass = "second" => ~mods[m].failed
=============================================================================
