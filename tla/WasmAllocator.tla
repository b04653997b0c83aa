--------------------------- MODULE WasmAllocator ---------------------------
(***************************************************************************)
(* wasm_allocator: one reserved mapping that holds a table page, a guard   *)
(* page and the linear memory of whichever instance was reset last.  Pages *)
(* of linear memory are made accessible and inaccessible with mprotect;    *)
(* the contents of a page survive while it is inaccessible.                *)
(*                                                                         *)
(* The operators are the class's member functions: each takes the          *)
(* allocator and whether mprotect fails, and returns the allocator after   *)
(* the call together with whether the call returned (it throws otherwise). *)
(***************************************************************************)
EXTENDS Integers

CONSTANTS
  PageSize,   \* cells per page of linear memory
  HardMax,    \* max_pages: the most pages the mapping has room for
  Values,     \* contents of a cell
  Zero        \* what memset(.., 0, ..) writes

ASSUME SizeAssumption  == PageSize \in Nat \ {0} /\ HardMax \in Nat
ASSUME ValueAssumption == Zero \in Values

Page == 0..(HardMax - 1)
Cell == 0..(HardMax * PageSize - 1)

\* page is -1 while no memory is defined; guard is the system page below the
\* memory; prot and mem cover the memory itself.
Allocator == [page : -1..HardMax, guard : {"none", "read"},
              prot : [Page -> {"none", "rw"}], mem : [Cell -> Values]]

\* The constructor: everything is inaccessible, mmap zero-fills.
NewAllocator == [page |-> -1, guard |-> "none",
                 prot |-> [p \in Page |-> "none"], mem |-> [c \in Cell |-> Zero]]

Returns(a) == [ok |-> TRUE, a |-> a]
Throws(a)  == [ok |-> FALSE, a |-> a]

\* mprotect on n pages from page lo, memset(0) on the same pages.
Mprotect(prot, lo, n, p) == [q \in Page |-> IF lo <= q /\ q < lo + n THEN p ELSE prot[q]]
ZeroFill(mem, lo, n) ==
  [c \in Cell |-> IF lo * PageSize <= c /\ c < (lo + n) * PageSize THEN Zero ELSE mem[c]]

\* Mutant: the new pages are not zeroed.
Alloc_NoZero(a, size, err) ==
  IF size = 0 THEN Returns(a)
  ELSE IF a.page < 0 \/ size + a.page > HardMax \/ err THEN Throws(a)
  ELSE Returns([a EXCEPT !.prot = Mprotect(@, a.page, size, "rw"), !.page = @ + size])

\* Mutant: the pages are counted before mprotect has succeeded.
Alloc_CountsFirst(a, size, err) ==
  IF size = 0 THEN Returns(a)
  ELSE IF a.page < 0 \/ size + a.page > HardMax THEN Throws(a)
  ELSE IF err THEN Throws([a EXCEPT !.page = @ + size])
  ELSE Returns([a EXCEPT !.prot = Mprotect(@, a.page, size, "rw"),
                         !.mem  = ZeroFill(@, a.page, size),
                         !.page = @ + size])

\* alloc(size)
Alloc(a, size, err) ==
  IF size = 0 THEN Returns(a)
  ELSE IF a.page < 0 \/ size + a.page > HardMax \/ err THEN Throws(a)
  ELSE Returns([a EXCEPT !.prot = Mprotect(@, a.page, size, "rw"),
                         !.mem  = ZeroFill(@, a.page, size),
                         !.page = @ + size])

\* free(size): page is decremented before mprotect is called.
Free(a, size, err) ==
  IF size = 0 THEN Returns(a)
  ELSE IF a.page < 0 \/ size > a.page THEN Throws(a)
  ELSE IF err THEN Throws([a EXCEPT !.page = @ - size])
  ELSE Returns([a EXCEPT !.prot = Mprotect(@, a.page - size, size, "none"),
                         !.page = @ - size])

\* Mutant: the guard page stays unreadable.
Define_NoGuard(a, err) ==
  IF a.page >= 0 THEN Returns([a EXCEPT !.mem = ZeroFill(@, 0, a.page)])
  ELSE IF err THEN Throws(a)
  ELSE Returns([a EXCEPT !.page = 0])

\* Mutant: memory in use keeps its contents.
Define_NoZero(a, err) ==
  IF a.page >= 0 THEN Returns(a)
  ELSE IF err THEN Throws(a)
  ELSE Returns([a EXCEPT !.guard = "read", !.page = 0])

\* reset(new_pages), first half: memory in use is zeroed, or the guard page
\* becomes readable.
Define(a, err) ==
  IF a.page >= 0 THEN Returns([a EXCEPT !.mem = ZeroFill(@, 0, a.page)])
  ELSE IF err THEN Throws(a)
  ELSE Returns([a EXCEPT !.guard = "read", !.page = 0])

\* reset(new_pages)
ResetTo(a, new_pages, err1, err2) ==
  LET d == Define(a, err1) IN
  IF ~d.ok THEN d
  ELSE IF new_pages > d.a.page THEN Alloc(d.a, new_pages - d.a.page, err2)
  ELSE Free(d.a, d.a.page - new_pages, err2)

\* reset(): no memory defined.
ResetNone(a, err) ==
  IF a.page < 0 THEN Returns(a)
  ELSE LET z == [a EXCEPT !.mem = ZeroFill(@, 0, a.page)] IN
       IF err THEN Throws(z)
       ELSE Returns([z EXCEPT !.prot = Mprotect(@, 0, a.page, "none"),
                              !.guard = "none", !.page = -1])

\* A load from cell c does not fault.  Cell -1 is the last of the guard page;
\* what lies beyond HardMax pages is never made accessible.
Readable(a, c) == \/ c = -1 /\ a.guard = "read"
                  \/ c \in Cell /\ a.prot[c \div PageSize] = "rw"

\* execution_interface::validate_pointer: touches the last byte only.
ValidatePointer(a, ptr, len) == Readable(a, ptr + len - 1)
=============================================================================
