--------------------------- MODULE InstanceProofs ---------------------------
(***************************************************************************)
(* The invariants of Instance, for any number of contexts, all validated   *)
(* modules, memory and table sizes, and failures of mprotect.              *)
(***************************************************************************)
EXTENDS Instance, TLAPS, WellFoundedInduction, SequenceTheorems

-----------------------------------------------------------------------------
(* The allocator, one lemma per member function.                           *)

\* Every page that is counted can be accessed; without failures of mprotect
\* the other pages cannot, and the guard page is readable iff there is memory.
Accessible(a) == \A p \in Page : p < a.page => a.prot[p] = "rw"
Exact(a) ==
  /\ \A p \in Page : a.prot[p] = "rw" <=> p < a.page
  /\ a.guard = "read" <=> a.page >= 0

\* c is a cell of the first n pages.
Below(c, n) == c < n * PageSize
\* The first n pages hold zeros.
Blank(a, n) == \A c \in Cell : Below(c, n) => a.mem[c] = Zero

\* memset and mprotect change what they are told to and nothing else.
LEMMA Memset ==
  ASSUME NEW mem \in [Cell -> Values], NEW lo \in Int, NEW n \in Nat
  PROVE  /\ ZeroFill(mem, lo, n) \in [Cell -> Values]
         /\ \A c \in Cell : ZeroFill(mem, lo, n)[c] =
              IF ~Below(c, lo) /\ Below(c, lo + n) THEN Zero ELSE mem[c]
<1>1. \A c \in Cell : c \in Int
  BY DEF Cell
<1>2. lo * PageSize \in Int
  BY SizeAssumption
<1>. QED
  BY <1>1, <1>2, ValueAssumption DEF ZeroFill, Below

\* mprotect changes the protection of the pages it is given, and no other.
LEMMA MprotectPages ==
  ASSUME NEW prot \in [Page -> {"none", "rw"}], NEW lo, NEW n, NEW to \in {"none", "rw"}
  PROVE  /\ Mprotect(prot, lo, n, to) \in [Page -> {"none", "rw"}]
         /\ \A p \in Page : Mprotect(prot, lo, n, to)[p] = IF lo <= p /\ p < lo + n THEN to ELSE prot[p]
BY DEF Mprotect

\* alloc either does nothing and throws, or adds accessible pages of zeros
\* and leaves the others alone.
LEMMA AllocCall ==
  ASSUME NEW a \in Allocator, NEW size \in Nat, NEW err \in BOOLEAN, NEW r, r = Alloc(a, size, err)
  PROVE  /\ r.a \in Allocator
         /\ ~r.ok => r.a = a
         /\ r.ok => r.a.page = a.page + size
         /\ \A c \in Cell : r.a.mem[c] = IF r.ok /\ ~Below(c, a.page) /\ Below(c, r.a.page)
                                         THEN Zero ELSE a.mem[c]
         /\ Accessible(a) => Accessible(r.a)
         /\ Exact(a) => Exact(r.a)
         /\ a.page >= 0 /\ a.page + size <= HardMax /\ ~err => r.ok
<1>0. a.page \in -1..HardMax /\ a.prot \in [Page -> {"none", "rw"}] /\ a.mem \in [Cell -> Values] /\ HardMax \in Nat
  BY SizeAssumption DEF Allocator
<1>1. CASE size = 0
  <2>1. r.ok = TRUE /\ r.a = a
    BY <1>1 DEF Alloc, Returns
  <2>. QED
    BY <1>0, <1>1, <2>1
<1>2. CASE size # 0 /\ (a.page < 0 \/ size + a.page > HardMax \/ err)
  <2>1. r.ok = FALSE /\ r.a = a
    BY <1>2 DEF Alloc, Throws
  <2>. QED
    BY <1>0, <1>2, <2>1
<1>3. CASE size # 0 /\ ~(a.page < 0 \/ size + a.page > HardMax \/ err)
  <2> DEFINE pr == Mprotect(a.prot, a.page, size, "rw")
             me == ZeroFill(a.mem, a.page, size)
             pg == a.page + size
             b == [a EXCEPT !.prot = pr, !.mem = me, !.page = pg]
  <2>1. r = Returns(b)
    BY <1>3, Zenon DEF Alloc
  <2>2. /\ pr \in [Page -> {"none", "rw"}]
        /\ \A p \in Page : pr[p] = IF a.page <= p /\ p < pg THEN "rw" ELSE a.prot[p]
    BY <1>0, MprotectPages
  <2>3. /\ me \in [Cell -> Values]
        /\ \A c \in Cell : me[c] = IF ~Below(c, a.page) /\ Below(c, pg) THEN Zero ELSE a.mem[c]
    BY <1>0, Memset
  <2>4. pg \in 1..HardMax /\ a.page >= 0 /\ pg = a.page + size
    BY <1>0, <1>3
  <2>. HIDE DEF pr, me, pg
  <2>5. b \in Allocator /\ b.page = pg /\ b.prot = pr /\ b.mem = me /\ b.guard = a.guard
    <3>1. pr \in [Page -> {"none", "rw"}] /\ me \in [Cell -> Values] /\ pg \in -1..HardMax
      BY <1>0, <2>2, <2>3, <2>4
    <3>. QED
      BY <3>1 DEF Allocator
  <2>6. r.ok = TRUE /\ r.a = b
    BY <2>1 DEF Returns
  <2>. HIDE DEF b
  <2>7. Accessible(a) => Accessible(b)
    BY <1>0, <2>2, <2>4, <2>5 DEF Accessible, Page
  <2>8. Exact(a) => Exact(b)
    BY <1>0, <2>2, <2>4, <2>5 DEF Exact, Page
  <2>. QED
    BY <2>3, <2>4, <2>5, <2>6, <2>7, <2>8
<1>. QED
  BY <1>1, <1>2, <1>3

\* free gives up the last pages and keeps the contents of all; when mprotect
\* fails the pages are given up although they stay accessible.
LEMMA FreeCall ==
  ASSUME NEW a \in Allocator, NEW size \in Nat, NEW err \in BOOLEAN, NEW r, r = Free(a, size, err)
  PROVE  /\ r.a \in Allocator
         /\ r.a.page = a.page \/ (a.page >= 0 /\ r.a.page = a.page - size)
         /\ (r.a.page >= 0) <=> (a.page >= 0)
         /\ r.a.page <= a.page
         /\ r.ok => r.a.page = a.page - size
         /\ r.a.mem = a.mem
         /\ Accessible(a) => Accessible(r.a)
         /\ Exact(a) /\ ~err => Exact(r.a)
         /\ a.page >= size /\ ~err => r.ok
<1>0. a.page \in -1..HardMax /\ a.prot \in [Page -> {"none", "rw"}] /\ HardMax \in Nat
  BY SizeAssumption DEF Allocator
<1>1. CASE size = 0
  <2>1. r.ok = TRUE /\ r.a = a
    BY <1>1 DEF Free, Returns
  <2>. QED
    BY <1>0, <1>1, <2>1
<1>2. CASE size # 0 /\ (a.page < 0 \/ size > a.page)
  <2>1. r.ok = FALSE /\ r.a = a
    BY <1>2 DEF Free, Throws
  <2>. QED
    BY <1>0, <1>2, <2>1
<1>3. CASE size # 0 /\ ~(a.page < 0 \/ size > a.page)
  <2> DEFINE pr == Mprotect(a.prot, a.page - size, size, "none")
             pg == a.page - size
             b == [a EXCEPT !.prot = pr, !.page = pg]
             f == [a EXCEPT !.page = pg]
  <2>1. r = IF err THEN Throws(f) ELSE Returns(b)
    BY <1>3, Zenon DEF Free
  <2>2. /\ pr \in [Page -> {"none", "rw"}]
        /\ \A p \in Page : pr[p] = IF pg <= p /\ p < pg + size THEN "none" ELSE a.prot[p]
    BY <1>0, MprotectPages
  <2>3. pg \in 0..HardMax /\ pg < a.page /\ pg + size = a.page /\ a.page >= 0
    BY <1>0, <1>3
  <2>. HIDE DEF pr, pg
  <2>4. b \in Allocator /\ b.page = pg /\ b.prot = pr /\ b.mem = a.mem /\ b.guard = a.guard
    <3>1. pr \in [Page -> {"none", "rw"}] /\ pg \in -1..HardMax
      BY <1>0, <2>2, <2>3
    <3>. QED
      BY <3>1 DEF Allocator
  <2>5. f \in Allocator /\ f.page = pg /\ f.prot = a.prot /\ f.mem = a.mem /\ f.guard = a.guard
    BY <2>3 DEF Allocator
  <2>. HIDE DEF b, f
  <2>6. (err /\ r.ok = FALSE /\ r.a = f) \/ (~err /\ r.ok = TRUE /\ r.a = b)
    BY <2>1 DEF Returns, Throws
  <2>7. Accessible(a) => Accessible(b) /\ Accessible(f)
    BY <1>0, <2>2, <2>3, <2>4, <2>5, SMTT(30) DEF Accessible, Page
  <2>8. Exact(a) => Exact(b)
    BY <1>0, <2>2, <2>3, <2>4, SMTT(30) DEF Exact, Page
  <2>. QED
    BY <1>0, <2>3, <2>4, <2>5, <2>6, <2>7, <2>8
<1>. QED
  BY <1>1, <1>2, <1>3

\* reset(new_pages), first half: the memory exists and what is in use is zero.
LEMMA DefineCall ==
  ASSUME NEW a \in Allocator, NEW err \in BOOLEAN, NEW r, r = Define(a, err)
  PROVE  /\ r.a \in Allocator
         /\ r.ok => r.a.page >= 0 /\ Blank(r.a, r.a.page)
         /\ Accessible(a) => Accessible(r.a)
         /\ Exact(a) => Exact(r.a)
         /\ ~err => r.ok
<1>0. a.page \in -1..HardMax /\ a.prot \in [Page -> {"none", "rw"}] /\ a.mem \in [Cell -> Values] /\ HardMax \in Nat
  BY SizeAssumption DEF Allocator
<1>1. CASE a.page >= 0
  <2> DEFINE me == ZeroFill(a.mem, 0, a.page)
             b == [a EXCEPT !.mem = me]
  <2>1. r.ok = TRUE /\ r.a = b
    BY <1>1 DEF Define, Returns
  <2>2. /\ me \in [Cell -> Values]
        /\ \A c \in Cell : Below(c, a.page) => me[c] = Zero
    <3>1. a.page \in Nat /\ 0 + a.page = a.page
      BY <1>0, <1>1
    <3>2. me \in [Cell -> Values] /\ \A c \in Cell : me[c] = IF ~Below(c, 0) /\ Below(c, 0 + a.page) THEN Zero ELSE a.mem[c]
      <4>1. a.mem \in [Cell -> Values] /\ 0 \in Int /\ a.page \in Nat
        BY <1>0, <3>1
      <4>. QED
        BY ONLY <4>1, Memset
    <3>3. \A c \in Cell : ~Below(c, 0)
      BY SizeAssumption DEF Below, Cell
    <3>. QED
      BY <3>1, <3>2, <3>3
  <2>. HIDE DEF me
  <2>3. b \in Allocator /\ b.page = a.page /\ b.prot = a.prot /\ b.guard = a.guard /\ b.mem = me
    <3>1. me \in [Cell -> Values]
      BY <2>2
    <3>. QED
      BY <3>1 DEF Allocator
  <2>. HIDE DEF b
  <2>4. Blank(b, b.page)
    BY <2>2, <2>3 DEF Blank
  <2>5. (Accessible(a) => Accessible(b)) /\ (Exact(a) => Exact(b))
    BY <2>3 DEF Accessible, Exact
  <2>. QED
    BY <1>1, <2>1, <2>3, <2>4, <2>5
<1>2. CASE a.page < 0 /\ err
  <2>1. r.ok = FALSE /\ r.a = a
    BY <1>0, <1>2 DEF Define, Throws
  <2>. QED
    BY <1>2, <2>1
<1>3. CASE a.page < 0 /\ ~err
  <2> DEFINE b == [a EXCEPT !.guard = "read", !.page = 0]
  <2>1. r.ok = TRUE /\ r.a = b
    BY <1>0, <1>3 DEF Define, Returns
  <2>2. b \in Allocator /\ b.page = 0 /\ b.prot = a.prot /\ b.guard = "read"
    <3>1. 0 \in -1..HardMax
      BY <1>0
    <3>. QED
      BY <3>1 DEF Allocator
  <2>. HIDE DEF b
  <2>3. Blank(b, b.page)
    BY <2>2, SizeAssumption DEF Blank, Below, Cell
  <2>4. Accessible(b)
    BY <1>0, <2>2 DEF Accessible, Page
  <2>5. Exact(a) => Exact(b)
    BY <1>0, <1>3, <2>2 DEF Exact, Page
  <2>. QED
    BY <2>1, <2>2, <2>3, <2>4, <2>5
<1>. QED
  BY <1>0, <1>1, <1>2, <1>3

\* reset(new_pages): when it returns, the memory is that many pages of zeros,
\* whatever was in it and whichever calls of mprotect failed before.
LEMMA ResetToCall ==
  ASSUME NEW a \in Allocator, NEW n \in Nat, NEW e1 \in BOOLEAN, NEW e2 \in BOOLEAN, NEW r, r = ResetTo(a, n, e1, e2)
  PROVE  /\ r.a \in Allocator
         /\ r.ok => r.a.page = n /\ Blank(r.a, n)
         /\ Accessible(a) => Accessible(r.a)
         /\ Exact(a) /\ ~e1 /\ ~e2 => Exact(r.a)
<1> DEFINE d == Define(a, e1)
<1>1. /\ d.a \in Allocator /\ (d.ok => d.a.page >= 0 /\ Blank(d.a, d.a.page))
      /\ (Accessible(a) => Accessible(d.a)) /\ (Exact(a) => Exact(d.a)) /\ (~e1 => d.ok)
  BY DefineCall
<1>2. r = IF ~d.ok THEN d ELSE IF n > d.a.page THEN Alloc(d.a, n - d.a.page, e2) ELSE Free(d.a, d.a.page - n, e2)
  BY DEF ResetTo
<1>3. d.a.page \in -1..HardMax /\ HardMax \in Nat
  BY <1>1, SizeAssumption DEF Allocator
<1>. HIDE DEF d
<1>4. CASE ~d.ok
  BY <1>1, <1>2, <1>4
<1>5. CASE d.ok /\ n > d.a.page
  <2>1. r = Alloc(d.a, n - d.a.page, e2) /\ n - d.a.page \in Nat
    BY <1>2, <1>3, <1>5
  <2>2. /\ r.a \in Allocator /\ (r.ok => r.a.page = d.a.page + (n - d.a.page))
        /\ \A c \in Cell : r.a.mem[c] = IF r.ok /\ ~Below(c, d.a.page) /\ Below(c, r.a.page) THEN Zero ELSE d.a.mem[c]
        /\ (Accessible(d.a) => Accessible(r.a)) /\ (Exact(d.a) => Exact(r.a))
    BY <1>1, <2>1, AllocCall
  <2>3. r.ok => r.a.page = n
    BY <1>3, <2>2
  <2>4. r.ok => Blank(r.a, n)
    BY <1>1, <1>5, <2>2, <2>3 DEF Blank
  <2>. QED
    BY <1>1, <1>5, <2>2, <2>3, <2>4
<1>6. CASE d.ok /\ ~(n > d.a.page)
  <2>1. r = Free(d.a, d.a.page - n, e2) /\ d.a.page - n \in Nat
    BY <1>2, <1>3, <1>6
  <2>2. /\ r.a \in Allocator /\ (r.ok => r.a.page = d.a.page - (d.a.page - n)) /\ r.a.mem = d.a.mem
        /\ (Accessible(d.a) => Accessible(r.a)) /\ (Exact(d.a) /\ ~e2 => Exact(r.a))
    BY <1>1, <2>1, FreeCall
  <2>3. r.ok => r.a.page = n
    BY <1>3, <2>2
  <2>4. \A c \in Cell : Below(c, n) => Below(c, d.a.page)
    <3>1. n * PageSize <= d.a.page * PageSize /\ n * PageSize \in Int /\ d.a.page * PageSize \in Int
      BY <1>3, <1>6, SizeAssumption
    <3>. QED
      BY <3>1 DEF Below, Cell
  <2>5. Blank(r.a, n)
    BY <1>1, <1>6, <2>2, <2>4 DEF Blank
  <2>. QED
    BY <1>1, <1>6, <2>2, <2>3, <2>5
<1>. QED
  BY <1>4, <1>5, <1>6

\* reset(): no memory is left, or the call throws and keeps the pages.
LEMMA ResetNoneCall ==
  ASSUME NEW a \in Allocator, NEW err \in BOOLEAN, NEW r, r = ResetNone(a, err)
  PROVE  /\ r.a \in Allocator
         /\ r.ok => r.a.page = -1
         /\ Accessible(a) => Accessible(r.a)
         /\ Exact(a) /\ ~err => Exact(r.a)
<1>0. a.page \in -1..HardMax /\ a.prot \in [Page -> {"none", "rw"}] /\ a.mem \in [Cell -> Values] /\ HardMax \in Nat
  BY SizeAssumption DEF Allocator
<1>1. CASE a.page < 0
  <2>1. r.ok = TRUE /\ r.a = a
    BY <1>1 DEF ResetNone, Returns
  <2>. QED
    BY <1>0, <1>1, <2>1
<1>2. CASE ~(a.page < 0)
  <2> DEFINE me == ZeroFill(a.mem, 0, a.page)
             pr == Mprotect(a.prot, 0, a.page, "none")
             z == [a EXCEPT !.mem = me]
             b == [z EXCEPT !.prot = pr, !.guard = "none", !.page = -1]
  <2>1. r = IF err THEN Throws(z) ELSE Returns(b)
    <3>1. z.prot = a.prot
      BY DEF Allocator
    <3>. QED
      BY <1>2, <3>1 DEF ResetNone
  <2>2. me \in [Cell -> Values]
    BY <1>0, <1>2, Memset
  <2>3. /\ pr \in [Page -> {"none", "rw"}]
        /\ \A p \in Page : pr[p] = IF 0 <= p /\ p < 0 + a.page THEN "none" ELSE a.prot[p]
    BY <1>0, MprotectPages
  <2>. HIDE DEF me, pr
  <2>4. z \in Allocator /\ z.page = a.page /\ z.prot = a.prot /\ z.guard = a.guard
    BY <2>2 DEF Allocator
  <2>. HIDE DEF z
  <2>5. b \in Allocator /\ b.page = -1 /\ b.prot = pr /\ b.guard = "none"
    <3>1. pr \in [Page -> {"none", "rw"}] /\ -1 \in -1..HardMax
      BY <1>0, <2>3
    <3>. QED
      BY <2>4, <3>1 DEF Allocator
  <2>. HIDE DEF b
  <2>6. (err /\ r.ok = FALSE /\ r.a = z) \/ (~err /\ r.ok = TRUE /\ r.a = b)
    BY <2>1 DEF Returns, Throws
  <2>7. (Accessible(a) => Accessible(z)) /\ Accessible(b)
    BY <1>0, <2>4, <2>5 DEF Accessible, Page
  <2>8. Exact(a) => Exact(b)
    BY <1>0, <2>3, <2>5 DEF Exact, Page
  <2>. QED
    BY <2>4, <2>5, <2>6, <2>7, <2>8
<1>. QED
  BY <1>1, <1>2

\* Rounding down to a page or to a table entry.
LEMMA Division ==
  ASSUME NEW c \in Nat, NEW size \in Nat \ {0}, NEW m \in Nat
  PROVE  /\ c \div size \in Nat /\ (c \div size < m <=> c < m * size)
         /\ m * size \in Nat /\ (m * size) \div size = m
<1> DEFINE q == c \div size
<1>1. q \in Nat /\ size * q <= c /\ c < size * q + size /\ m * size \in Nat /\ (m * size) \div size = m
  OBVIOUS
<1>. HIDE DEF q
<1>2. CASE q < m
  <2>1. PICK k \in Nat : m = q + 1 + k
    <3>1. m - q - 1 \in Nat /\ m = q + 1 + (m - q - 1)
      BY <1>1, <1>2
    <3>. QED
      BY <3>1
  <2>2. m * size = size * q + size + k * size /\ k * size \in Nat
    BY <1>1, <2>1
  <2>. QED
    BY <1>1, <1>2, <2>2 DEF q
<1>3. CASE ~(q < m)
  <2>1. PICK k \in Nat : q = m + k
    <3>1. q - m \in Nat /\ q = m + (q - m)
      BY <1>1, <1>3
    <3>. QED
      BY <3>1
  <2>2. size * q = m * size + k * size /\ k * size \in Nat
    BY <1>1, <2>1
  <2>. QED
    BY <1>1, <1>3, <2>2 DEF q
<1>. QED
  BY <1>2, <1>3

\* A cell is one of the first n pages iff its page is.
LEMMA PageOfCell ==
  ASSUME NEW c \in Cell, NEW n \in 0..HardMax
  PROVE  c \div PageSize \in Page /\ (c \div PageSize < n <=> Below(c, n))
<1>1. PageSize \in Nat \ {0} /\ HardMax \in Nat /\ c \in Nat /\ c < HardMax * PageSize
  BY SizeAssumption DEF Cell
<1>2. c \div PageSize \in Nat /\ c \div PageSize < HardMax
  BY <1>1, Division
<1>3. c \div PageSize < n <=> Below(c, n)
  BY <1>1, Division DEF Below
<1>. QED
  BY <1>1, <1>2, <1>3 DEF Page

\* validate_pointer looks at one byte: with exact protections it accepts what
\* lies inside the memory and nothing else.
LEMMA PointerInBounds ==
  ASSUME NEW a \in Allocator, Exact(a), NEW ptr \in Nat, NEW len \in Nat
  PROVE  ValidatePointer(a, ptr, len) <=> a.page >= 0 /\ ptr + len <= a.page * PageSize
<1>0. /\ a.page \in -1..HardMax /\ a.prot \in [Page -> {"none", "rw"}] /\ HardMax \in Nat /\ PageSize \in Nat \ {0}
      /\ ptr + len \in Nat
  BY SizeAssumption DEF Allocator
<1> DEFINE e == ptr + len
           k == e - 1
<1>1. a.page >= 0 => a.page * PageSize \in Nat /\ a.page * PageSize <= HardMax * PageSize /\ HardMax * PageSize \in Nat
  BY <1>0
<1>2. CASE e = 0
  BY <1>0, <1>1, <1>2 DEF ValidatePointer, Readable, Exact, Cell
<1>3. CASE e # 0 /\ e <= HardMax * PageSize
  <2>1. k \in Cell /\ k # -1 /\ k \in Nat
    BY <1>0, <1>3 DEF Cell
  <2>2. ValidatePointer(a, ptr, len) <=> a.prot[k \div PageSize] = "rw"
    BY <2>1 DEF ValidatePointer, Readable
  <2>. HIDE DEF k
  <2>3. k \div PageSize \in Page
    <3>1. 0 \in 0..HardMax
      BY <1>0
    <3>. QED
      BY <2>1, <3>1, PageOfCell
  <2>4. ValidatePointer(a, ptr, len) <=> k \div PageSize < a.page
    BY <2>2, <2>3 DEF Exact
  <2>5. CASE a.page >= 0
    <3>1. k \div PageSize < a.page <=> Below(k, a.page)
      BY <1>0, <2>1, <2>5, PageOfCell
    <3>. QED
      BY <1>0, <1>1, <2>4, <2>5, <3>1 DEF Below, k
  <2>6. CASE ~(a.page >= 0)
    BY <1>0, <2>3, <2>4, <2>6 DEF Page
  <2>. QED
    BY <2>5, <2>6
<1>4. CASE e # 0 /\ ~(e <= HardMax * PageSize)
  <2>1. k \notin Cell /\ k # -1
    BY <1>0, <1>4 DEF Cell
  <2>2. ~ValidatePointer(a, ptr, len)
    BY <2>1 DEF ValidatePointer, Readable
  <2>. QED
    BY <1>0, <1>1, <1>4, <2>2
<1>. QED
  BY <1>2, <1>3, <1>4

-----------------------------------------------------------------------------
(* The instance.                                                           *)

TableWord ==
  {<<"zero">>, Null} \cup {Func(m, f) : m \in Mods, f \in Nat}
    \cup {Ptr(k, c) : k \in {"globals", "alt"}, c \in Contexts}
ContextType ==
  [mod : Mods, max_pages : 0..HardMax, globals : Seq(Values), alt : Seq(TableWord),
   dropped_data : Seq(BOOLEAN), dropped_elems : Seq(BOOLEAN)]

TypeInv ==
  /\ wa \in Allocator /\ tpage \in [Word -> TableWord]
  /\ owner \in Contexts \cup {NoContext} /\ ctx \in [Contexts -> ContextType]

\* What a successful reset of context c, now x, leaves in the allocator a and
\* the table page tp, and what c's own code keeps.
Flagged(x) ==
  /\ DOMAIN x.dropped_data = DOMAIN Def[x.mod].data
  /\ Def[x.mod].tables = 1 => DOMAIN x.dropped_elems = DOMAIN Def[x.mod].elems
  /\ indirect_table(x.mod) => DOMAIN x.alt = 1..Def[x.mod].tinit
Pointed(c, x, tp) ==
  /\ tp[PageWords - 1] = Ptr("globals", c)
  /\ indirect_table(x.mod) => tp[0] = Ptr("alt", c)
Sized(x, page) ==
  IF Def[x.mod].memories = 0 THEN page = -1
  ELSE /\ 0 <= page /\ page <= x.max_pages
       /\ Def[x.mod].flags => page <= Def[x.mod].maximum
Owned(c, x, a, tp) == Flagged(x) /\ Pointed(c, x, tp) /\ Sized(x, a.page)

\* mprotect never fails.
MprotectWorks == MprotectErrors \subseteq {FALSE}

InstanceInv ==
  /\ TypeInv
  /\ Accessible(wa)
  /\ MprotectWorks => Exact(wa)
  /\ owner # NoContext => Owned(owner, ctx[owner], wa, tpage)

-----------------------------------------------------------------------------
(* Modules and their segments.                                             *)

\* What validation guarantees of a declaration.
LEMMA Declared ==
  ASSUME NEW m \in Mods, NEW d, d = Def[m]
  PROVE  /\ d \in Declaration
         /\ d.memories \in {0, 1} /\ d.tables \in {0, 1} /\ d.initial \in 0..HardMax
         /\ d.maximum \in Nat /\ d.tinit \in Nat /\ d.globals \in Seq(Values)
         /\ d.flags => d.initial <= d.maximum
         /\ d.data_x \subseteq DOMAIN d.data
         /\ d.table_init_x # {} => d.tables = 1
<1>1. Validated(d)
  BY ModuleAssumption
<1>2. d \in Declaration
  BY <1>1 DEF Validated
<1>. QED
  BY <1>1, <1>2, SizeAssumption, SMTT(30) DEF Validated, Declaration

\* A data segment and an element segment of a declaration.
LEMMA DataSegment ==
  ASSUME NEW d \in Declaration
  PROVE  /\ Len(d.data) \in Nat /\ DOMAIN d.data = 1..Len(d.data)
         /\ \A i \in DOMAIN d.data :
              /\ d.data[i].offset \in Nat /\ d.data[i].bytes \in Seq(Values)
              /\ d.data[i].passive \in BOOLEAN
<1> DEFINE T == [passive : BOOLEAN, offset : Nat, bytes : Seq(Values)]
<1>1. d.data \in Seq(T)
  BY DEF Declaration
<1>. HIDE DEF T
<1>2. /\ Len(d.data) \in Nat /\ DOMAIN d.data = 1..Len(d.data)
      /\ \A i \in DOMAIN d.data : d.data[i] \in T
  BY <1>1
<1>. QED
  BY <1>2 DEF T

\* The same for the element segments.
LEMMA ElemSegment ==
  ASSUME NEW d \in Declaration
  PROVE  /\ Len(d.elems) \in Nat /\ DOMAIN d.elems = 1..Len(d.elems)
         /\ \A i \in DOMAIN d.elems :
              /\ d.elems[i].offset \in Nat /\ d.elems[i].funcs \in Seq(Nat)
              /\ d.elems[i].mode \in ElemModes
<1> DEFINE T == [mode : ElemModes, offset : Nat, funcs : Seq(Nat)]
<1>1. d.elems \in Seq(T)
  BY DEF Declaration
<1>. HIDE DEF T
<1>2. /\ Len(d.elems) \in Nat /\ DOMAIN d.elems = 1..Len(d.elems)
      /\ \A i \in DOMAIN d.elems : d.elems[i] \in T
  BY <1>1
<1>. QED
  BY <1>2 DEF T

\* Of the segments that write a cell or an entry one is the last.
LEMMA LastSegment ==
  ASSUME NEW n \in Nat, NEW W \in SUBSET (1..n), W # {}
  PROVE  LET i == CHOOSE i \in W : \A j \in W : j <= i IN i \in W /\ \A j \in W : j <= i
<1> DEFINE T == {n - i : i \in W}
<1>1. T \subseteq Nat /\ T # {}
  <2>1. \A i \in W : n - i \in Nat
    OBVIOUS
  <2>2. PICK w \in W : TRUE
    OBVIOUS
  <2>3. n - w \in T
    OBVIOUS
  <2>. QED
    BY <2>1, <2>3
<1>2. \E x \in T : \A y \in T : ~(<<y, x>> \in OpToRel(<, Nat))
  BY <1>1, WFMin, NatLessThanWellFounded
<1>3. ASSUME NEW x \in Nat, NEW y \in Nat, x < y
      PROVE  <<x, y>> \in OpToRel(<, Nat)
  BY <1>3, Zenon DEF OpToRel
<1>4. \E x \in T : \A y \in T : ~(y < x)
  BY <1>1, <1>2, <1>3, Zenon
<1>5. \E i \in W : \A j \in W : j <= i
  <2>1. PICK x \in T : \A y \in T : ~(y < x)
    BY <1>4
  <2>2. PICK i \in W : x = n - i
    OBVIOUS
  <2>3. \A j \in W : ~(n - j < n - i)
    BY <2>1, <2>2
  <2>. QED
    BY <2>3
<1>. QED
  BY <1>5

\* Copying data segments writes bytes of the module.
LEMMA WithDataType ==
  ASSUME NEW d \in Declaration, NEW mem \in [Cell -> Values], NEW S \in SUBSET DOMAIN d.data
  PROVE  WithData(mem, d, S) \in [Cell -> Values]
<1> SUFFICES ASSUME NEW c \in Cell PROVE WithData(mem, d, S)[c] \in Values
  BY DEF WithData
<1> DEFINE W == {i \in S : Covers(d.data[i], c)}
           i == CHOOSE i \in W : \A j \in W : j <= i
<1>1. WithData(mem, d, S)[c] = IF W = {} THEN mem[c] ELSE d.data[i].bytes[c - d.data[i].offset + 1]
  BY DEF WithData
<1>2. CASE W # {}
  <2>1. i \in W
    BY <1>2, DataSegment, LastSegment
  <2>. HIDE DEF i
  <2>2. d.data[i].offset \in Nat /\ d.data[i].bytes \in Seq(Values) /\ Covers(d.data[i], c) /\ c \in Int
    BY <2>1, DataSegment DEF Cell
  <2>3. c - d.data[i].offset + 1 \in 1..Len(d.data[i].bytes)
    <3> DEFINE s == d.data[i]
    <3>1. s.offset <= c /\ c < s.offset + Len(s.bytes) /\ s.offset \in Nat /\ Len(s.bytes) \in Nat
      BY <2>2 DEF Covers
    <3>. HIDE DEF s
    <3>2. c - s.offset + 1 \in 1..Len(s.bytes)
      BY <2>2, <3>1
    <3>. QED
      BY <3>2 DEF s
  <2>. QED
    BY <1>1, <1>2, <2>2, <2>3, SMTT(30)
<1>. QED
  BY <1>1, <1>2

\* An entry of a fresh table is null or a function of the module.
LEMMA TableEntryType ==
  ASSUME NEW m \in Mods, NEW e \in Nat
  PROVE  TableEntry(m, e) \in TableWord
<1> DEFINE d == Def[m]
           W == {i \in ElemCopied(d) : d.elems[i].offset <= e /\ e < d.elems[i].offset + Len(d.elems[i].funcs)}
           i == CHOOSE i \in W : \A j \in W : j <= i
           f == d.elems[i].funcs[e - d.elems[i].offset + 1]
<1>1. TableEntry(m, e) = IF W = {} THEN Null ELSE Func(m, f)
  BY DEF TableEntry
<1>2. CASE W # {}
  <2>0. d \in Declaration
    BY Declared
  <2>1. i \in W
    BY <1>2, <2>0, ElemSegment, LastSegment, ZenonT(30) DEF ElemCopied
  <2>. HIDE DEF i, d
  <2>2. d.elems[i].offset \in Nat /\ d.elems[i].funcs \in Seq(Nat)
    BY <2>0, <2>1, ElemSegment DEF ElemCopied
  <2>3. e - d.elems[i].offset + 1 \in 1..Len(d.elems[i].funcs)
    <3>. DEFINE q == d.elems[i].offset
                l == Len(d.elems[i].funcs)
    <3>1. q \in Nat /\ l \in Nat /\ q <= e /\ e < q + l
      BY <2>1, <2>2, LenProperties
    <3>. HIDE DEF q, l
    <3>2. e - q + 1 \in 1..l
      BY <3>1
    <3>. QED
      BY <3>2 DEF q, l
  <2>4. f \in Nat
    <3> DEFINE s == d.elems[i].funcs
               k == e - d.elems[i].offset + 1
    <3>1. s \in Seq(Nat) /\ k \in 1..Len(s)
      BY <2>2, <2>3
    <3>. HIDE DEF s, k
    <3>2. s[k] \in Nat
      BY <3>1
    <3>. QED
      BY <3>2 DEF s, k
  <2>. HIDE DEF f
  <2>. QED
    BY <1>1, <1>2, <2>4 DEF TableWord
<1>3. CASE W = {}
  <2>1. TableEntry(m, e) = Null
    BY <1>1, <1>3
  <2>. QED
    BY <2>1 DEF TableWord
<1>. QED
  BY <1>2, <1>3

\* Vectors of flags, globals and table entries: of a length, and updated.
LEMMA Vector ==
  ASSUME NEW S, NEW n \in Nat, NEW g \in [1..n -> S]
  PROVE  g \in Seq(S) /\ DOMAIN g = 1..n /\ Len(g) = n
<1>1. g \in Seq(S)
  BY SeqDef
<1>. QED
  BY <1>1

\* An assignment to an entry of a vector keeps its type and its size.
LEMMA Updated ==
  ASSUME NEW S, NEW g \in Seq(S), NEW i, NEW v \in S
  PROVE  [g EXCEPT ![i] = v] \in Seq(S) /\ DOMAIN [g EXCEPT ![i] = v] = DOMAIN g
<1>1. PICK n \in Nat : g \in [1..n -> S]
  BY SeqDef
<1>2. [g EXCEPT ![i] = v] \in [1..n -> S]
  BY <1>1
<1>. QED
  BY <1>1, <1>2, Vector

-----------------------------------------------------------------------------
(* Steps, by what they change.                                             *)

\* The running context, and what the invariant says of it.
LEMMA RunningOwns ==
  ASSUME InstanceInv, NEW c \in Contexts, Running(c)
  PROVE  /\ owner = c /\ owner # NoContext /\ ctx[c] \in ContextType /\ ctx[c].mod \in Mods
         /\ Owned(c, ctx[c], wa, tpage) /\ D(c) \in Declaration
<1>1. owner = c /\ owner # NoContext /\ ctx[c] \in ContextType
  BY ContextAssumption DEF Running, InstanceInv, TypeInv
<1>2. ctx[c].mod \in Mods
  BY <1>1 DEF ContextType
<1>. QED
  BY <1>1, <1>2, Declared DEF InstanceInv, D

\* A step that only writes memory.
LEMMA MemoryWritten ==
  ASSUME InstanceInv, NEW me \in [Cell -> Values], wa' = [wa EXCEPT !.mem = me], UNCHANGED <<tpage, owner, ctx>>
  PROVE  InstanceInv'
<1>1. wa' \in Allocator /\ wa'.page = wa.page /\ wa'.prot = wa.prot /\ wa'.guard = wa.guard
  BY DEF InstanceInv, TypeInv, Allocator
<1>2. Accessible(wa') /\ (Exact(wa) => Exact(wa'))
  BY <1>1 DEF InstanceInv, Accessible, Exact
<1>3. owner' # NoContext => Owned(owner', ctx'[owner'], wa', tpage')
  BY <1>1 DEF InstanceInv, Owned
<1>. QED
  BY <1>1, <1>2, <1>3 DEF InstanceInv, TypeInv

\* A step that changes the running context and keeps its module and limit.
LEMMA ContextChanged ==
  ASSUME InstanceInv, NEW c \in Contexts, owner = c, c # NoContext, NEW x \in ContextType,
         ctx' = [ctx EXCEPT ![c] = x], x.mod = ctx[c].mod, x.max_pages = ctx[c].max_pages, Flagged(x),
         UNCHANGED <<wa, tpage, owner>>
  PROVE  InstanceInv'
<1>1. ctx' \in [Contexts -> ContextType] /\ ctx'[c] = x
  BY DEF InstanceInv, TypeInv
<1>2. Owned(c, ctx[c], wa, tpage)
  BY DEF InstanceInv
<1>3. Owned(c, x, wa, tpage)
  BY <1>2 DEF Owned, Pointed, Sized
<1>. QED
  BY <1>1, <1>3 DEF InstanceInv, TypeInv

\* A step that changes table entries in the table page, below the globals
\* pointer.
LEMMA TablePageChanged ==
  ASSUME InstanceInv, NEW c \in Contexts, owner = c, c # NoContext, ~indirect_table(ctx[c].mod),
         tpage' \in [Word -> TableWord], tpage'[PageWords - 1] = tpage[PageWords - 1],
         UNCHANGED <<wa, ctx, owner>>
  PROVE  InstanceInv'
<1>1. Owned(c, ctx[c], wa, tpage')
  BY DEF InstanceInv, Owned, Pointed
<1>. QED
  BY <1>1 DEF InstanceInv, TypeInv

\* A step of a context that does not own the allocator afterwards.
LEMMA OwnershipLost ==
  ASSUME InstanceInv, NEW c \in Contexts, NEW x \in ContextType, ctx' = [ctx EXCEPT ![c] = x],
         wa' \in Allocator, Accessible(wa'), MprotectWorks => Exact(wa'),
         tpage' \in [Word -> TableWord],
         owner' = NoContext \/ (owner # c /\ UNCHANGED <<wa, tpage, owner>>)
  PROVE  InstanceInv'
<1>1. ctx' \in [Contexts -> ContextType] /\ \A b \in Contexts \ {c} : ctx'[b] = ctx[b]
  BY DEF InstanceInv, TypeInv
<1>2. CASE owner' = NoContext
  BY <1>1, <1>2 DEF InstanceInv, TypeInv
<1>3. CASE owner # c /\ UNCHANGED <<wa, tpage, owner>>
  <2>1. owner # NoContext => owner \in Contexts \ {c} /\ Owned(owner, ctx[owner], wa, tpage)
    BY <1>3 DEF InstanceInv, TypeInv
  <2>2. owner' # NoContext => Owned(owner', ctx'[owner'], wa', tpage')
    BY <1>1, <1>3, <2>1
  <2>. QED
    BY <1>1, <1>3, <2>2 DEF InstanceInv, TypeInv
<1>. QED
  BY <1>2, <1>3

-----------------------------------------------------------------------------
(* What code of the owner does.                                            *)

\* grow_linear_memory_impl stays within both limits, in either direction and
\* whether mprotect fails or not.
LEMMA GrowStep ==
  ASSUME InstanceInv, NEW c \in Contexts, NEW pages \in Growths, Grow(c, pages)
  PROVE  InstanceInv'
<1>1. PICK err \in MprotectErrors :
        /\ IF pages < 0 THEN wa.page + pages >= 0 ELSE CanGrow(c, wa.page, pages)
        /\ wa' = (IF pages < 0 THEN Free(wa, -pages, err) ELSE Alloc(wa, pages, err)).a
  BY DEF Grow
<1>2. pages \in Int /\ err \in BOOLEAN /\ wa \in Allocator /\ Running(c) /\ UNCHANGED <<tpage, owner, ctx>>
  BY GrowthAssumption, ErrorAssumption DEF InstanceInv, TypeInv, Grow
<1>3. wa.page \in -1..HardMax /\ HardMax \in Nat
  BY <1>2, SizeAssumption DEF Allocator
<1>4. owner = c /\ owner # NoContext /\ ctx[c] \in ContextType /\ ctx[c].mod \in Mods /\ Owned(c, ctx[c], wa, tpage)
  BY <1>2, RunningOwns
<1>5. ctx[c].max_pages \in 0..HardMax /\ D(c).memories \in {0, 1} /\ D(c).maximum \in Nat
  BY <1>4, Declared DEF ContextType, D
<1>6. Sized(ctx[c], wa.page)
  BY <1>4 DEF Owned
<1>7. MprotectWorks => ~err
  BY DEF MprotectWorks
<1>8. CASE pages < 0
  <2> DEFINE r == Free(wa, -pages, err)
  <2>1. /\ r.a \in Allocator /\ (r.a.page = wa.page \/ (wa.page >= 0 /\ r.a.page = wa.page - (-pages)))
        /\ (r.a.page >= 0 <=> wa.page >= 0) /\ r.a.page <= wa.page
        /\ (Accessible(wa) => Accessible(r.a)) /\ (Exact(wa) /\ ~err => Exact(r.a))
    <3>1. -pages \in Nat
      BY <1>2, <1>8
    <3>. QED
      BY <1>2, <3>1, FreeCall
  <2>2. wa' = r.a
    BY <1>1, <1>8
  <2>. HIDE DEF r
  <2>3. r.a.page \in -1..HardMax
    BY <2>1 DEF Allocator
  <2>4. Sized(ctx[c], r.a.page)
    BY <1>3, <1>5, <1>6, <2>1, <2>3 DEF Sized, D
  <2>. QED
    BY <1>2, <1>4, <1>7, <2>1, <2>2, <2>4 DEF InstanceInv, TypeInv, Owned
<1>9. CASE ~(pages < 0)
  <2> DEFINE r == Alloc(wa, pages, err)
  <2>1. /\ r.a \in Allocator /\ (r.a = wa \/ r.a.page = wa.page + pages)
        /\ (Accessible(wa) => Accessible(r.a)) /\ (Exact(wa) => Exact(r.a))
    <3>1. pages \in Nat
      BY <1>2, <1>9
    <3>. QED
      BY <1>2, <3>1, AllocCall
  <2>2. wa' = r.a
    BY <1>1, <1>9
  <2>. HIDE DEF r
  <2>3. Sized(ctx[c], r.a.page)
    <3>1. CanGrow(c, wa.page, pages)
      BY <1>1, <1>9
    <3>. QED
      BY <1>2, <1>3, <1>5, <1>6, <1>9, <2>1, <3>1 DEF Sized, CanGrow, D
  <2>. QED
    BY <1>2, <1>4, <1>7, <2>1, <2>2, <2>3 DEF InstanceInv, TypeInv, Owned
<1>. QED
  BY <1>8, <1>9

\* A store writes one cell of an accessible page.
LEMMA StoreStep ==
  ASSUME InstanceInv, NEW c \in Contexts, NEW cell \in Cell, NEW v \in Values, Store(c, cell, v)
  PROVE  InstanceInv'
<1> DEFINE me == [wa.mem EXCEPT ![cell] = v]
<1>1. wa \in Allocator /\ wa.mem \in [Cell -> Values]
  BY DEF InstanceInv, TypeInv, Allocator
<1>2. me \in [Cell -> Values] /\ wa' = [wa EXCEPT !.mem = me] /\ UNCHANGED <<tpage, owner, ctx>>
  BY <1>1 DEF Store
<1>. HIDE DEF me
<1>. QED
  BY <1>2, MemoryWritten

\* memory.fill
LEMMA MemoryFillStep ==
  ASSUME InstanceInv, NEW c \in Contexts, NEW d \in Addr, NEW n \in Addr, NEW v \in Values, MemoryFill(c, d, v, n)
  PROVE  InstanceInv'
<1> DEFINE me == [k \in Cell |-> IF d <= k /\ k < d + n THEN v ELSE wa.mem[k]]
<1>1. wa.mem \in [Cell -> Values]
  BY DEF InstanceInv, TypeInv, Allocator
<1>2. me \in [Cell -> Values] /\ wa' = [wa EXCEPT !.mem = me] /\ UNCHANGED <<tpage, owner, ctx>>
  BY <1>1 DEF MemoryFill
<1>. HIDE DEF me
<1>. QED
  BY <1>2, MemoryWritten

\* What validate_pointer accepts lies inside the mapping.
LEMMA ValidInside ==
  ASSUME NEW a, NEW s \in Nat, NEW n \in Nat, ValidatePointer(a, s, n), n # 0
  PROVE  \A k \in s..(s + n - 1) : k \in Cell
<1>1. s + n - 1 \in Cell
  BY DEF ValidatePointer, Readable
<1>2. HardMax * PageSize \in Int
  BY SizeAssumption
<1>. QED
  BY <1>1, <1>2 DEF Cell

\* memory.copy reads inside the memory.
LEMMA MemoryCopyStep ==
  ASSUME InstanceInv, NEW c \in Contexts, NEW d \in Addr, NEW s \in Addr, NEW n \in Addr, MemoryCopy(c, d, s, n)
  PROVE  InstanceInv'
<1> DEFINE me == [k \in Cell |-> IF d <= k /\ k < d + n THEN wa.mem[k - d + s] ELSE wa.mem[k]]
<1>1. wa.mem \in [Cell -> Values]
  BY DEF InstanceInv, TypeInv, Allocator
<1>2. d \in Nat /\ s \in Nat /\ n \in Nat
  BY SizeAssumption DEF Addr
<1>3. ASSUME NEW k \in Cell, d <= k /\ k < d + n PROVE k - d + s \in Cell
  <2>1. n # 0 /\ k - d + s \in s..(s + n - 1)
    BY <1>2, <1>3 DEF Cell
  <2>. QED
    BY <1>2, <2>1, ValidInside DEF MemoryCopy
<1>4. me \in [Cell -> Values]
  BY <1>1, <1>3
<1>5. wa' = [wa EXCEPT !.mem = me] /\ UNCHANGED <<tpage, owner, ctx>>
  BY DEF MemoryCopy
<1>. HIDE DEF me
<1>. QED
  BY <1>4, <1>5, MemoryWritten

\* memory.init writes bytes of the segment.
LEMMA MemoryInitStep ==
  ASSUME InstanceInv, NEW c \in Contexts, NEW x \in D(c).data_x, NEW d \in Addr, NEW s \in Addr, NEW n \in Addr,
         MemoryInit(c, x, d, s, n)
  PROVE  InstanceInv'
<1> DEFINE b == D(c).data[x].bytes
           len == IF ctx[c].dropped_data[x] THEN 0 ELSE Len(b)
           me == [k \in Cell |-> IF d <= k /\ k < d + n THEN b[k - d + s + 1] ELSE wa.mem[k]]
<1>1. wa.mem \in [Cell -> Values]
  BY DEF InstanceInv, TypeInv, Allocator
<1>2. d \in Nat /\ s \in Nat /\ n \in Nat
  BY SizeAssumption DEF Addr
<1>3. Running(c) /\ s + n <= len /\ wa' = [wa EXCEPT !.mem = me] /\ UNCHANGED <<tpage, owner, ctx>>
  BY DEF MemoryInit
<1>4. b \in Seq(Values) /\ Len(b) \in Nat
  <2>1. D(c) \in Declaration /\ ctx[c].mod \in Mods
    BY <1>3, RunningOwns
  <2>2. x \in DOMAIN D(c).data
    BY <2>1, Declared DEF D
  <2>. QED
    BY <2>1, <2>2, DataSegment
<1>. HIDE DEF b
<1>5. s + n <= Len(b) \/ (s = 0 /\ n = 0)
  BY <1>2, <1>3, <1>4
<1>. HIDE DEF len
<1>6. ASSUME NEW k \in Cell, d <= k /\ k < d + n PROVE b[k - d + s + 1] \in Values
  <2>1. k - d + s + 1 \in 1..Len(b)
    BY <1>2, <1>4, <1>5, <1>6 DEF Cell
  <2>. QED
    BY <1>4, <2>1
<1>7. me \in [Cell -> Values]
  BY <1>1, <1>6
<1>. HIDE DEF me
<1>. QED
  BY <1>3, <1>7, MemoryWritten

\* data.drop sets a flag that exists.
LEMMA DropDataStep ==
  ASSUME InstanceInv, NEW c \in Contexts, NEW x \in D(c).data_x, DropData(c, x)
  PROVE  InstanceInv'
<1> DEFINE f == [ctx[c].dropped_data EXCEPT ![x] = TRUE]
           r == [ctx[c] EXCEPT !.dropped_data = f]
<1>1. /\ Running(c) /\ owner = c /\ c # NoContext /\ ctx[c] \in ContextType /\ ctx[c].mod \in Mods
      /\ Flagged(ctx[c]) /\ UNCHANGED <<wa, tpage, owner>>
  BY RunningOwns DEF DropData, Owned
<1>2. ctx' = [ctx EXCEPT ![c] = r]
  BY DEF DropData
<1>3. ctx[c].dropped_data \in Seq(BOOLEAN)
  BY <1>1 DEF ContextType
<1>4. f \in Seq(BOOLEAN) /\ DOMAIN f = DOMAIN ctx[c].dropped_data
  BY <1>3, Updated
<1>. HIDE DEF f
<1>5. /\ r \in ContextType /\ r.mod = ctx[c].mod /\ r.max_pages = ctx[c].max_pages /\ r.dropped_data = f
      /\ r.dropped_elems = ctx[c].dropped_elems /\ r.alt = ctx[c].alt
  BY <1>1, <1>4 DEF ContextType
<1>. HIDE DEF r
<1>6. Flagged(r)
  BY <1>1, <1>4, <1>5 DEF Flagged
<1>. QED
  BY <1>1, <1>2, <1>5, <1>6, ContextChanged

\* elem.drop, the same.
LEMMA DropElemStep ==
  ASSUME InstanceInv, NEW c \in Contexts, NEW x, DropElem(c, x)
  PROVE  InstanceInv'
<1> DEFINE f == [ctx[c].dropped_elems EXCEPT ![x] = TRUE]
           r == [ctx[c] EXCEPT !.dropped_elems = f]
<1>1. /\ Running(c) /\ owner = c /\ c # NoContext /\ ctx[c] \in ContextType /\ ctx[c].mod \in Mods
      /\ Flagged(ctx[c]) /\ UNCHANGED <<wa, tpage, owner>>
  BY RunningOwns DEF DropElem, Owned
<1>2. ctx' = [ctx EXCEPT ![c] = r] \/ UNCHANGED ctx
  BY DEF DropElem
<1>3. ctx[c].dropped_elems \in Seq(BOOLEAN)
  BY <1>1 DEF ContextType
<1>4. f \in Seq(BOOLEAN) /\ DOMAIN f = DOMAIN ctx[c].dropped_elems
  BY <1>3, Updated
<1>. HIDE DEF f
<1>5. /\ r \in ContextType /\ r.mod = ctx[c].mod /\ r.max_pages = ctx[c].max_pages /\ r.dropped_elems = f
      /\ r.dropped_data = ctx[c].dropped_data /\ r.alt = ctx[c].alt
  BY <1>1, <1>4 DEF ContextType
<1>. HIDE DEF r
<1>6. Flagged(r)
  BY <1>1, <1>4, <1>5 DEF Flagged
<1>7. CASE UNCHANGED ctx
  BY <1>1, <1>7 DEF InstanceInv, TypeInv
<1>. QED
  BY <1>1, <1>2, <1>5, <1>6, <1>7, ContextChanged

\* global.set through the globals pointer reaches the running context.
LEMMA SetGlobalStep ==
  ASSUME InstanceInv, NEW c \in Contexts, NEW i \in DOMAIN ctx[c].globals, NEW v \in Values, SetGlobal(c, i, v)
  PROVE  InstanceInv'
<1> DEFINE f == [ctx[c].globals EXCEPT ![i] = v]
           r == [ctx[c] EXCEPT !.globals = f]
<1>1. /\ Running(c) /\ owner = c /\ c # NoContext /\ ctx[c] \in ContextType /\ ctx[c].mod \in Mods
      /\ Flagged(ctx[c]) /\ Pointed(c, ctx[c], tpage) /\ UNCHANGED <<wa, tpage, owner>>
  BY RunningOwns DEF SetGlobal, Owned
<1>2. GlobalsOwner = c
  BY <1>1 DEF GlobalsOwner, Pointed, Ptr
<1>3. ctx' = [ctx EXCEPT ![c] = r]
  BY <1>2 DEF SetGlobal
<1>4. ctx[c].globals \in Seq(Values)
  BY <1>1 DEF ContextType
<1>5. f \in Seq(Values)
  BY <1>4, Updated
<1>. HIDE DEF f
<1>6. /\ r \in ContextType /\ r.mod = ctx[c].mod /\ r.max_pages = ctx[c].max_pages
      /\ r.dropped_data = ctx[c].dropped_data /\ r.dropped_elems = ctx[c].dropped_elems /\ r.alt = ctx[c].alt
  BY <1>1, <1>5 DEF ContextType
<1>. HIDE DEF r
<1>7. Flagged(r)
  BY <1>1, <1>6 DEF Flagged
<1>. QED
  BY <1>1, <1>3, <1>6, <1>7, ContextChanged

-----------------------------------------------------------------------------
(* Tables.                                                                 *)

Entries(m) == 0..(Def[m].tinit - 1)

\* A table in the table page ends before the globals pointer, and its words
\* are those of its entries.
LEMMA DirectTable ==
  ASSUME NEW m \in Mods, Def[m].tables = 1, ~indirect_table(m)
  PROVE  /\ PageWords - 1 \in Word /\ ~(PageWords - 1 < Def[m].tinit * EntryWords)
         /\ \A e \in Entries(m) : /\ e * EntryWords \in Word /\ e * EntryWords < Def[m].tinit * EntryWords
                                  /\ (e * EntryWords) \div EntryWords = e
         /\ \A w \in Word : w \div EntryWords \in Nat
         /\ \A w \in Word : w < Def[m].tinit * EntryWords => w \div EntryWords \in Entries(m)
<1> DEFINE t == Def[m].tinit
<1>1. t \in Nat /\ PageWords \in Nat \ {0, 1} /\ EntryWords \in Nat \ {0}
  BY Declared, WordAssumption
<1>2. t * EntryWords \in Nat /\ t * EntryWords <= PageWords - 1
  BY <1>1 DEF indirect_table
<1>. HIDE DEF t
<1>3. ASSUME NEW e \in Nat, e < t
      PROVE  /\ e * EntryWords \in Nat /\ e * EntryWords < t * EntryWords
             /\ (e * EntryWords) \div EntryWords = e
  <2>1. e * EntryWords \in Nat /\ (e * EntryWords) \div EntryWords = e
    BY <1>1, Division
  <2>. QED
    BY <1>1, <1>3, <2>1, Division
<1>4. ASSUME NEW w \in Nat PROVE w \div EntryWords \in Nat /\ (w < t * EntryWords => w \div EntryWords < t)
  BY <1>1, Division
<1>5. (\A w \in Word : w \in Nat) /\ \A e \in 0..(t - 1) : e \in Nat /\ e < t
  BY <1>1 DEF Word
<1> DEFINE all == t * EntryWords
<1>6. all \in Nat /\ all <= PageWords - 1
  BY <1>2
<1>7. \A e \in 0..(t - 1) : e * EntryWords \in Word /\ e * EntryWords < all /\ (e * EntryWords) \div EntryWords = e
  <2> TAKE e \in 0..(t - 1)
  <2> DEFINE k == e * EntryWords
  <2>1. k \in Nat /\ k < all /\ k \div EntryWords = e
    BY <1>3, <1>5
  <2>. HIDE DEF all, k
  <2>2. k \in Word
    BY <1>1, <1>6, <2>1 DEF Word
  <2>. QED
    BY <2>1, <2>2 DEF k
<1>8. \A w \in Word : w < all => w \div EntryWords \in 0..(t - 1)
  <2> TAKE w \in Word
  <2> HAVE w < all
  <2>1. w \div EntryWords \in Nat /\ w \div EntryWords < t
    BY <1>4, <1>5
  <2>. QED
    BY <1>1, <2>1
<1>9. PageWords - 1 \in Word /\ ~(PageWords - 1 < all)
  <2>. HIDE DEF all
  <2>. QED
    BY <1>1, <1>6 DEF Word
<1>. QED
  BY <1>4, <1>5, <1>7, <1>8, <1>9 DEF Entries, t

\* The entries of the running context's table are table words.
LEMMA EntryType ==
  ASSUME InstanceInv, NEW c \in Contexts, Running(c), D(c).tables = 1, NEW e \in Entries(ctx[c].mod)
  PROVE  Entry(c, e) \in TableWord
<1> DEFINE m == ctx[c].mod
<1>1. /\ ctx[c] \in ContextType /\ m \in Mods /\ Flagged(ctx[c]) /\ Pointed(c, ctx[c], tpage) /\ Def[m].tables = 1
      /\ tpage \in [Word -> TableWord]
  BY RunningOwns DEF Owned, D, InstanceInv, TypeInv
<1>2. CASE indirect_table(m)
  <2>1. AltOwner = c /\ ctx[c].alt \in Seq(TableWord) /\ DOMAIN ctx[c].alt = 1..Def[m].tinit
    BY <1>1, <1>2 DEF AltOwner, Pointed, Ptr, ContextType, Flagged
  <2>2. e + 1 \in 1..Def[m].tinit
    BY <1>1, Declared DEF Entries
  <2>3. ctx[c].alt[e + 1] \in TableWord
    <3> DEFINE a == ctx[c].alt
               k == e + 1
    <3>1. a \in Seq(TableWord) /\ k \in DOMAIN a
      BY <2>1, <2>2
    <3>. HIDE DEF a, k
    <3>2. a[k] \in TableWord
      BY <3>1
    <3>. QED
      BY <3>2 DEF a, k
  <2>. QED
    BY <1>2, <2>1, <2>3 DEF Entry
<1>3. CASE ~indirect_table(m)
  BY <1>1, <1>3, DirectTable DEF Entry
<1>. QED
  BY <1>2, <1>3

\* SetEntries for the entries Q and the values N.
EntriesSet(c, Q, N) ==
  IF indirect_table(ctx[c].mod)
  THEN /\ ctx' = [ctx EXCEPT ![c] = [ctx[c] EXCEPT !.alt =
                    [k \in 1..D(c).tinit |-> IF k - 1 \in Q THEN N[k - 1] ELSE ctx[c].alt[k]]]]
       /\ UNCHANGED tpage
  ELSE /\ tpage' = [w \in Word |-> IF w < D(c).tinit * EntryWords /\ w \div EntryWords \in Q
                                   THEN N[w \div EntryWords] ELSE tpage[w]]
       /\ UNCHANGED ctx

\* Entries change, the pointers in the table page do not.
LEMMA EntriesStep ==
  ASSUME InstanceInv, NEW c \in Contexts, Running(c), D(c).tables = 1,
         NEW Q \in SUBSET Entries(ctx[c].mod), NEW N \in [Q -> TableWord], EntriesSet(c, Q, N),
         UNCHANGED <<wa, owner>>
  PROVE  InstanceInv'
<1> DEFINE m == ctx[c].mod
           al == [k \in 1..D(c).tinit |-> IF k - 1 \in Q THEN N[k - 1] ELSE ctx[c].alt[k]]
           r == [ctx[c] EXCEPT !.alt = al]
<1>1. /\ owner = c /\ c # NoContext /\ ctx[c] \in ContextType /\ m \in Mods /\ Flagged(ctx[c])
      /\ Def[m].tables = 1 /\ tpage \in [Word -> TableWord] /\ D(c).tinit \in Nat
  BY RunningOwns, Declared DEF Owned, D, InstanceInv, TypeInv
<1>2. CASE indirect_table(m)
  <2>1. ctx' = [ctx EXCEPT ![c] = r] /\ UNCHANGED tpage
    BY <1>2 DEF EntriesSet
  <2>2. ctx[c].alt \in Seq(TableWord) /\ DOMAIN ctx[c].alt = 1..D(c).tinit
    BY <1>1, <1>2 DEF ContextType, Flagged, D
  <2>3. al \in [1..D(c).tinit -> TableWord]
    <3>1. \A k \in 1..D(c).tinit : ctx[c].alt[k] \in TableWord
      <4> DEFINE a == ctx[c].alt
      <4>1. a \in Seq(TableWord) /\ DOMAIN a = 1..D(c).tinit
        BY <2>2
      <4>. HIDE DEF a
      <4>2. a \in [DOMAIN a -> TableWord]
        BY <4>1, LenProperties
      <4>. QED
        BY <4>1, <4>2 DEF a
    <3>. QED
      BY <3>1
  <2>4. al \in Seq(TableWord) /\ DOMAIN al = 1..D(c).tinit
    BY <1>1, <2>3, Vector
  <2>. HIDE DEF al
  <2>5. /\ r \in ContextType /\ r.mod = ctx[c].mod /\ r.max_pages = ctx[c].max_pages /\ r.alt = al
        /\ r.dropped_data = ctx[c].dropped_data /\ r.dropped_elems = ctx[c].dropped_elems
    BY <1>1, <2>4 DEF ContextType
  <2>. HIDE DEF r
  <2>6. Flagged(r)
    BY <1>1, <2>4, <2>5 DEF Flagged, D
  <2>. QED
    BY <1>1, <2>1, <2>5, <2>6, ContextChanged
<1>3. CASE ~indirect_table(m)
  <2>1. UNCHANGED ctx /\ tpage' = [w \in Word |-> IF w < D(c).tinit * EntryWords /\ w \div EntryWords \in Q
                                                  THEN N[w \div EntryWords] ELSE tpage[w]]
    BY <1>3 DEF EntriesSet
  <2>2. tpage' \in [Word -> TableWord]
    BY <1>1, <2>1
  <2>3. tpage'[PageWords - 1] = tpage[PageWords - 1]
    BY <1>1, <1>3, <2>1, DirectTable DEF D
  <2>. QED
    BY <1>1, <1>3, <2>1, <2>2, <2>3, TablePageChanged
<1>. QED
  BY <1>2, <1>3

\* The entries that table.copy and table.init write, and what they write.
Written(d, n) == d..(d + n - 1)
Copies(c, d, s, n) == [e \in Written(d, n) |-> Entry(c, e - d + s)]
Inits(c, x, d, s, n) == [e \in Written(d, n) |-> Func(ctx[c].mod, D(c).elems[x].funcs[e - d + s + 1])]

\* table.copy
LEMMA TableCopySets ==
  ASSUME InstanceInv, NEW c \in Contexts, NEW d \in Index(c), NEW s \in Index(c), NEW n \in Index(c),
         TableCopy(c, d, s, n)
  PROVE  /\ Running(c) /\ D(c).tables = 1 /\ UNCHANGED <<wa, owner>>
         /\ d \in Nat /\ s \in Nat /\ n \in Nat /\ d + n <= D(c).tinit /\ s + n <= D(c).tinit
         /\ Written(d, n) \subseteq Entries(ctx[c].mod) /\ Copies(c, d, s, n) \in [Written(d, n) -> TableWord]
         /\ EntriesSet(c, Written(d, n), Copies(c, d, s, n))
<1> DEFINE Q == d..(d + n - 1)
           N == [e \in Q |-> Entry(c, e - d + s)]
<1>0. Written(d, n) = Q /\ Copies(c, d, s, n) = N
  BY DEF Written, Copies
<1>1. /\ Running(c) /\ D(c).tables = 1 /\ s + n <= D(c).tinit /\ d + n <= D(c).tinit
      /\ SetEntries(c, LAMBDA e : d <= e /\ e < d + n, LAMBDA e : Entry(c, e - d + s)) /\ UNCHANGED <<wa, owner>>
  BY DEF TableCopy
<1>2. /\ ctx[c] \in ContextType /\ ctx[c].mod \in Mods /\ Flagged(ctx[c]) /\ Pointed(c, ctx[c], tpage)
      /\ D(c).tinit \in Nat
  BY <1>1, RunningOwns, Declared DEF Owned, D
<1>3. d \in Nat /\ s \in Nat /\ n \in Nat
  BY <1>2 DEF Index
<1>4. Q \subseteq Entries(ctx[c].mod)
  BY <1>1, <1>2, <1>3 DEF Entries, D
<1>5. N \in [Q -> TableWord]
  <2>1. ASSUME NEW e \in Q PROVE Entry(c, e - d + s) \in TableWord
    <3>1. e - d + s \in Entries(ctx[c].mod)
      BY <1>1, <1>2, <1>3 DEF Entries, D
    <3>. QED
      BY <1>1, <3>1, EntryType
  <2>. QED
    BY <2>1
<1>6. EntriesSet(c, Q, N)
  <2>1. CASE indirect_table(ctx[c].mod)
    <3>1. AltOwner = c /\ DOMAIN ctx[c].alt = 1..D(c).tinit
      BY <1>2, <2>1 DEF AltOwner, Pointed, Ptr, Flagged, D
    <3>2. /\ ctx' = [ctx EXCEPT ![c] = [ctx[c] EXCEPT !.alt =
                       [k \in 1..D(c).tinit |-> IF d <= k - 1 /\ k - 1 < d + n THEN Entry(c, k - 1 - d + s)
                                                ELSE ctx[c].alt[k]]]]
          /\ UNCHANGED tpage
      BY <1>1, <2>1, <3>1 DEF SetEntries
    <3>3. \A k \in 1..D(c).tinit : (d <= k - 1 /\ k - 1 < d + n) <=> k - 1 \in Q
      BY <1>2, <1>3
    <3>4. \A k \in 1..D(c).tinit : k - 1 \in Q => N[k - 1] = Entry(c, k - 1 - d + s)
      OBVIOUS
    <3>5. [k \in 1..D(c).tinit |-> IF d <= k - 1 /\ k - 1 < d + n THEN Entry(c, k - 1 - d + s) ELSE ctx[c].alt[k]]
          = [k \in 1..D(c).tinit |-> IF k - 1 \in Q THEN N[k - 1] ELSE ctx[c].alt[k]]
      BY <3>3, <3>4, Zenon
    <3>. QED
      BY <2>1, <3>2, <3>5, Zenon DEF EntriesSet
  <2>2. CASE ~indirect_table(ctx[c].mod)
    <3>1. /\ tpage' = [w \in Word |-> IF w < D(c).tinit * EntryWords
                                         /\ (d <= w \div EntryWords /\ w \div EntryWords < d + n)
                                      THEN Entry(c, w \div EntryWords - d + s) ELSE tpage[w]]
          /\ UNCHANGED ctx
      BY <1>1, <2>2 DEF SetEntries
    <3>2. \A w \in Word : w \div EntryWords \in Nat
      BY <1>1, <1>2, <2>2, DirectTable DEF D
    <3>3. \A w \in Word : (d <= w \div EntryWords /\ w \div EntryWords < d + n) <=> w \div EntryWords \in Q
      BY <1>3, <3>2
    <3>4. \A w \in Word : w \div EntryWords \in Q => N[w \div EntryWords] = Entry(c, w \div EntryWords - d + s)
      OBVIOUS
    <3>5. tpage' = [w \in Word |-> IF w < D(c).tinit * EntryWords /\ w \div EntryWords \in Q
                                   THEN N[w \div EntryWords] ELSE tpage[w]]
      BY <3>1, <3>3, <3>4, Zenon
    <3>. QED
      BY <2>2, <3>1, <3>5, Zenon DEF EntriesSet
  <2>. QED
    BY <2>1, <2>2
<1>. HIDE DEF Q, N
<1>. QED
  BY <1>0, <1>1, <1>3, <1>4, <1>5, <1>6

\* table.init
LEMMA TableInitSets ==
  ASSUME InstanceInv, NEW c \in Contexts, NEW x \in D(c).table_init_x, NEW d \in Index(c), NEW s \in Index(c),
         NEW n \in Index(c), TableInit(c, x, d, s, n), x \in DOMAIN D(c).elems
  PROVE  /\ Running(c) /\ D(c).tables = 1 /\ UNCHANGED <<wa, owner>>
         /\ d \in Nat /\ s \in Nat /\ n \in Nat /\ d + n <= D(c).tinit
         /\ s + n <= IF ctx[c].dropped_elems[x] THEN 0 ELSE Len(D(c).elems[x].funcs)
         /\ Written(d, n) \subseteq Entries(ctx[c].mod) /\ Inits(c, x, d, s, n) \in [Written(d, n) -> TableWord]
         /\ EntriesSet(c, Written(d, n), Inits(c, x, d, s, n))
<1> DEFINE g == D(c).elems[x].funcs
           m == ctx[c].mod
           Q == d..(d + n - 1)
           N == [e \in Q |-> Func(m, D(c).elems[x].funcs[e - d + s + 1])]
<1>0. Written(d, n) = Q /\ Inits(c, x, d, s, n) = N
  BY DEF Written, Inits
<1>1. /\ Running(c) /\ s + n <= (IF ctx[c].dropped_elems[x] THEN 0 ELSE Len(g)) /\ d + n <= D(c).tinit
      /\ SetEntries(c, LAMBDA e : d <= e /\ e < d + n, LAMBDA e : Func(m, g[e - d + s + 1]))
      /\ UNCHANGED <<wa, owner>>
  BY DEF TableInit
<1>2. /\ ctx[c] \in ContextType /\ m \in Mods /\ Flagged(ctx[c]) /\ Pointed(c, ctx[c], tpage)
      /\ D(c).tinit \in Nat /\ D(c) \in Declaration /\ D(c).tables = 1
  BY <1>1, RunningOwns, Declared DEF Owned, D
<1>3. d \in Nat /\ s \in Nat /\ n \in Nat
  BY <1>2 DEF Index
<1>4. Q \subseteq Entries(m)
  <2>1. d + n <= D(c).tinit /\ D(c).tinit \in Nat
    BY <1>1, <1>2
  <2>2. d..(d + n - 1) \subseteq 0..(D(c).tinit - 1)
    BY <1>3, <2>1
  <2>. QED
    BY <2>2 DEF Entries, D
<1>5. g \in Seq(Nat)
  BY <1>2, ElemSegment
<1>. HIDE DEF g
<1>6. N \in [Q -> TableWord]
  <2>1. Len(g) \in Nat /\ (s + n <= Len(g) \/ (s = 0 /\ n = 0))
    BY <1>1, <1>3, <1>5
  <2>2. ASSUME NEW e \in Q PROVE Func(m, g[e - d + s + 1]) \in TableWord
    <3>1. e - d + s + 1 \in 1..Len(g)
      BY <1>3, <2>1
    <3>2. g[e - d + s + 1] \in Nat
      BY <1>5, <3>1, ElementOfSeq
    <3>. QED
      BY <1>2, <3>2 DEF TableWord
  <2>. QED
    BY <2>2 DEF g
<1>7. EntriesSet(c, Q, N)
  <2>1. CASE indirect_table(m)
    <3>1. AltOwner = c /\ DOMAIN ctx[c].alt = 1..D(c).tinit
      BY <1>2, <2>1 DEF AltOwner, Pointed, Ptr, Flagged, D
    <3>2. /\ ctx' = [ctx EXCEPT ![c] = [ctx[c] EXCEPT !.alt =
                       [k \in 1..D(c).tinit |-> IF d <= k - 1 /\ k - 1 < d + n THEN Func(m, g[k - 1 - d + s + 1])
                                                ELSE ctx[c].alt[k]]]]
          /\ UNCHANGED tpage
      BY <1>1, <2>1, <3>1 DEF SetEntries
    <3>3. \A k \in 1..D(c).tinit : (d <= k - 1 /\ k - 1 < d + n) <=> k - 1 \in Q
      BY <1>2, <1>3
    <3>4. \A k \in 1..D(c).tinit : k - 1 \in Q => N[k - 1] = Func(m, g[k - 1 - d + s + 1])
      BY DEF g
    <3>5. [k \in 1..D(c).tinit |-> IF d <= k - 1 /\ k - 1 < d + n THEN Func(m, g[k - 1 - d + s + 1])
                                   ELSE ctx[c].alt[k]]
          = [k \in 1..D(c).tinit |-> IF k - 1 \in Q THEN N[k - 1] ELSE ctx[c].alt[k]]
      BY <3>3, <3>4, Zenon
    <3>. QED
      BY <2>1, <3>2, <3>5, Zenon DEF EntriesSet
  <2>2. CASE ~indirect_table(m)
    <3>1. /\ tpage' = [w \in Word |-> IF w < D(c).tinit * EntryWords
                                         /\ (d <= w \div EntryWords /\ w \div EntryWords < d + n)
                                      THEN Func(m, g[w \div EntryWords - d + s + 1]) ELSE tpage[w]]
          /\ UNCHANGED ctx
      BY <1>1, <2>2 DEF SetEntries
    <3>2. \A w \in Word : w \div EntryWords \in Nat
      BY <1>2, <2>2, DirectTable DEF D
    <3>3. \A w \in Word : (d <= w \div EntryWords /\ w \div EntryWords < d + n) <=> w \div EntryWords \in Q
      BY <1>3, <3>2
    <3>4. \A w \in Word : w \div EntryWords \in Q => N[w \div EntryWords] = Func(m, g[w \div EntryWords - d + s + 1])
      BY DEF g
    <3>5. tpage' = [w \in Word |-> IF w < D(c).tinit * EntryWords /\ w \div EntryWords \in Q
                                   THEN N[w \div EntryWords] ELSE tpage[w]]
      BY <3>1, <3>3, <3>4, Zenon
    <3>. QED
      BY <2>2, <3>1, <3>5, Zenon DEF EntriesSet
  <2>. QED
    BY <2>1, <2>2
<1>. HIDE DEF Q, N
<1>. QED
  BY <1>0, <1>1, <1>2, <1>3, <1>4, <1>6, <1>7 DEF g

\* table.copy and table.init write entries and nothing beside them.
LEMMA TableCopyStep ==
  ASSUME InstanceInv, NEW c \in Contexts, NEW d \in Index(c), NEW s \in Index(c), NEW n \in Index(c),
         TableCopy(c, d, s, n)
  PROVE  InstanceInv'
BY TableCopySets, EntriesStep

\* table.init keeps the invariant, the index past the segments included.
LEMMA TableInitStep ==
  ASSUME InstanceInv, NEW c \in Contexts, NEW x \in D(c).table_init_x, NEW d \in Index(c), NEW s \in Index(c),
         NEW n \in Index(c), TableInit(c, x, d, s, n)
  PROVE  InstanceInv'
<1>1. CASE x \notin DOMAIN D(c).elems
  BY <1>1 DEF TableInit, InstanceInv, TypeInv
<1>2. CASE x \in DOMAIN D(c).elems
  BY <1>2, TableInitSets, EntriesStep
<1>. QED
  BY <1>1, <1>2

-----------------------------------------------------------------------------
(* execution_context_base::reset                                           *)

\* The table page after a reset holds the pointers of the context that was
\* reset, with its table below the globals pointer.
LEMMA TablePageWritten ==
  ASSUME InstanceInv, NEW c \in Contexts, NEW m \in Mods
  PROVE  /\ TablePage(c, m) \in [Word -> TableWord]
         /\ TablePage(c, m)[PageWords - 1] = Ptr("globals", c)
         /\ indirect_table(m) => TablePage(c, m)[0] = Ptr("alt", c)
         /\ Def[m].tables = 1 /\ ~indirect_table(m) =>
              \A e \in Entries(m) : TablePage(c, m)[e * EntryWords] = TableEntry(m, e)
<1> DEFINE g == [tpage EXCEPT ![PageWords - 1] = Ptr("globals", c)]
           tp == TablePage(c, m)
<1>1. tpage \in [Word -> TableWord] /\ PageWords - 1 \in Word /\ 0 \in Word /\ PageWords - 1 # 0
  BY WordAssumption DEF InstanceInv, TypeInv, Word
<1>2. Ptr("globals", c) \in TableWord /\ Ptr("alt", c) \in TableWord
  BY DEF TableWord
<1>3. g \in [Word -> TableWord] /\ g[PageWords - 1] = Ptr("globals", c)
  BY <1>1, <1>2
<1>4. Def[m].tables \in {0, 1}
  BY Declared
<1>5. tp = IF Def[m].tables = 0 THEN g
           ELSE IF indirect_table(m) THEN [g EXCEPT ![0] = Ptr("alt", c)]
           ELSE [w \in Word |-> IF w < Def[m].tinit * EntryWords THEN TableEntry(m, w \div EntryWords) ELSE g[w]]
  BY DEF TablePage
<1>. HIDE DEF g, tp
<1>6. CASE Def[m].tables = 0
  BY <1>3, <1>5, <1>6 DEF indirect_table, tp
<1>7. CASE Def[m].tables = 1 /\ indirect_table(m)
  BY <1>1, <1>2, <1>3, <1>5, <1>7 DEF tp
<1>8. CASE Def[m].tables = 1 /\ ~indirect_table(m)
  <2>1. tp = [w \in Word |-> IF w < Def[m].tinit * EntryWords THEN TableEntry(m, w \div EntryWords) ELSE g[w]]
    BY <1>5, <1>8
  <2>2. /\ \A w \in Word : w < Def[m].tinit * EntryWords => w \div EntryWords \in Nat
        /\ ~(PageWords - 1 < Def[m].tinit * EntryWords)
        /\ \A e \in Entries(m) : /\ e * EntryWords \in Word /\ e * EntryWords < Def[m].tinit * EntryWords
                                 /\ (e * EntryWords) \div EntryWords = e
    BY <1>8, DirectTable
  <2>3. tp \in [Word -> TableWord]
    BY <1>3, <2>1, <2>2, TableEntryType
  <2>4. tp[PageWords - 1] = Ptr("globals", c)
    BY <1>1, <1>3, <2>1, <2>2
  <2>5. \A e \in Entries(m) : tp[e * EntryWords] = TableEntry(m, e)
    BY <2>1, <2>2
  <2>. QED
    BY <1>8, <2>3, <2>4, <2>5 DEF tp
<1>. QED
  BY <1>4, <1>6, <1>7, <1>8

\* The table outside the table page is written as a whole.
LEMMA AltTableWritten ==
  ASSUME NEW m \in Mods, NEW old \in Seq(TableWord)
  PROVE  /\ AltTable(m, old) \in Seq(TableWord)
         /\ indirect_table(m) => /\ DOMAIN AltTable(m, old) = 1..Def[m].tinit
                                 /\ \A e \in Entries(m) : AltTable(m, old)[e + 1] = TableEntry(m, e)
<1>1. CASE indirect_table(m)
  <2> DEFINE al == [e \in 1..Def[m].tinit |-> TableEntry(m, e - 1)]
  <2>1. AltTable(m, old) = al /\ Def[m].tinit \in Nat
    BY <1>1, Declared DEF AltTable
  <2>2. al \in [1..Def[m].tinit -> TableWord]
    BY <2>1, TableEntryType
  <2>3. \A e \in Entries(m) : al[e + 1] = TableEntry(m, e)
    <3>1. \A e \in Entries(m) : e + 1 \in 1..Def[m].tinit /\ (e + 1) - 1 = e
      BY <2>1 DEF Entries
    <3>. QED
      BY <3>1
  <2>. HIDE DEF al
  <2>4. al \in Seq(TableWord) /\ DOMAIN al = 1..Def[m].tinit
    BY <2>1, <2>2, Vector
  <2>. QED
    BY <2>1, <2>3, <2>4
<1>2. CASE ~indirect_table(m)
  BY <1>2 DEF AltTable
<1>. QED
  BY <1>1, <1>2

\* The flags that reset assigns, one per segment.
DataFlags(d) == [i \in DOMAIN d.data |-> i \in DataCopied(d)]

\* The flags that reset assigns cover the module's segments.
LEMMA FlagsWritten ==
  ASSUME NEW d \in Declaration
  PROVE  /\ DataFlags(d) \in Seq(BOOLEAN) /\ DOMAIN DataFlags(d) = DOMAIN d.data
         /\ ElemDropped(d) \in Seq(BOOLEAN) /\ DOMAIN ElemDropped(d) = DOMAIN d.elems
<1>1. DataFlags(d) \in [DOMAIN d.data -> BOOLEAN]
  BY DEF DataFlags
<1>2. ElemDropped(d) \in [DOMAIN d.elems -> BOOLEAN]
  BY Zenon DEF ElemDropped
<1>. QED
  BY <1>1, <1>2, DataSegment, ElemSegment, Vector

\* reset after the allocator's own reset: what the context that was reset
\* becomes, and when it owns the allocator.
LEMMA ResetWithFields ==
  ASSUME InstanceInv, NEW c \in Contexts, NEW n \in 0..HardMax, NEW a \in Allocator, ResetWith(c, n, a),
         NEW m, m = ctx[c].mod, NEW d, d = Def[m]
  PROVE  \E x \in ContextType :
           /\ ctx' = [ctx EXCEPT ![c] = x] /\ x.mod = m /\ x.max_pages = n
           /\ owner' \in {c, NoContext}
           /\ owner' = c => /\ DataOk(d) /\ (d.tables = 0 \/ ElemOk(d)) /\ tpage' = TablePage(c, m)
                            /\ x.dropped_data = DataFlags(d) /\ x.globals = d.globals
                            /\ d.tables = 1 => /\ x.dropped_elems = ElemDropped(d)
                                               /\ x.alt = AltTable(m, ctx[c].alt)
           /\ tpage' = tpage \/ tpage' = TablePage(c, m)
<1> DEFINE fl == DataFlags(d)
           gl == d.globals
           al == AltTable(m, ctx[c].alt)
           ed == ElemDropped(d)
           x == [ctx[c] EXCEPT !.max_pages = n, !.dropped_data = fl]
           y == [x EXCEPT !.globals = gl]
           z == [y EXCEPT !.alt = AltTable(m, @), !.dropped_elems = ed]
<1>1. ctx[c] \in ContextType
  BY DEF InstanceInv, TypeInv
<1>2. m \in Mods /\ ctx[c].alt \in Seq(TableWord)
  BY <1>1 DEF ContextType
<1>3. d \in Declaration /\ d.tables \in {0, 1} /\ gl \in Seq(Values)
  BY <1>2, Declared
<1>4. fl \in Seq(BOOLEAN) /\ ed \in Seq(BOOLEAN) /\ al \in Seq(TableWord)
  BY <1>2, <1>3, FlagsWritten, AltTableWritten
<1>5. /\ IF ~DataOk(d)
         THEN /\ ctx' = [ctx EXCEPT ![c] = x] /\ owner' = NoContext /\ UNCHANGED tpage
         ELSE /\ ctx' = [ctx EXCEPT ![c] = IF d.tables = 0 THEN y ELSE z]
              /\ tpage' = TablePage(c, m)
              /\ owner' = IF d.tables = 0 \/ ElemOk(d) THEN c ELSE NoContext
  BY Zenon DEF ResetWith, DataFlags
<1>. HIDE DEF fl, gl, ed
<1>6. x \in ContextType /\ x.mod = m /\ x.max_pages = n /\ x.dropped_data = fl /\ x.alt = ctx[c].alt
  BY <1>1, <1>4 DEF ContextType
<1>. HIDE DEF x
<1>7. /\ y \in ContextType /\ y.mod = m /\ y.max_pages = n /\ y.dropped_data = fl /\ y.globals = gl
      /\ y.alt = ctx[c].alt
  BY <1>3, <1>6 DEF ContextType
<1>8. z = [y EXCEPT !.alt = al, !.dropped_elems = ed]
  BY <1>7
<1>. HIDE DEF y, z, al
<1>9. /\ z \in ContextType /\ z.mod = m /\ z.max_pages = n /\ z.dropped_data = fl /\ z.globals = gl
      /\ z.alt = al /\ z.dropped_elems = ed
  BY <1>4, <1>7, <1>8 DEF ContextType
<1>10. CASE ~DataOk(d)
  BY <1>5, <1>6, <1>10, ContextAssumption
<1>11. CASE DataOk(d) /\ d.tables = 0
  <2>1. ctx' = [ctx EXCEPT ![c] = y] /\ owner' = c /\ tpage' = TablePage(c, m)
    BY <1>5, <1>11
  <2>2. /\ y \in ContextType /\ y.mod = m /\ y.max_pages = n /\ y.dropped_data = DataFlags(d) /\ y.globals = d.globals
    BY <1>7 DEF fl, gl
  <2>3. d.tables # 1
    BY <1>11
  <2>. QED
    BY <1>11, <2>1, <2>2, <2>3
<1>12. CASE DataOk(d) /\ d.tables = 1
  <2>1. /\ ctx' = [ctx EXCEPT ![c] = z] /\ tpage' = TablePage(c, m)
        /\ owner' = IF ElemOk(d) THEN c ELSE NoContext
    BY <1>5, <1>12
  <2>2. /\ z \in ContextType /\ z.mod = m /\ z.max_pages = n /\ z.dropped_data = DataFlags(d) /\ z.globals = d.globals
        /\ z.alt = AltTable(m, ctx[c].alt) /\ z.dropped_elems = ElemDropped(d)
    BY <1>9 DEF fl, gl, al, ed
  <2>3. owner' \in {c, NoContext} /\ (owner' = c => ElemOk(d))
    BY <2>1, ContextAssumption
  <2>. QED
    BY <1>12, <2>1, <2>2, <2>3
<1>. QED
  BY <1>3, <1>10, <1>11, <1>12

\* The rest of reset, after the allocator's own: the invariant holds whether a
\* segment is out of range or not.
LEMMA ResetWithStep ==
  ASSUME InstanceInv, NEW c \in Contexts, NEW n \in 0..HardMax, NEW a \in Allocator, ResetWith(c, n, a),
         Accessible(a), MprotectWorks => Exact(a),
         D(c).memories = 0 => a.page = -1,
         D(c).memories = 1 => a.page = D(c).initial /\ D(c).initial <= n
  PROVE  InstanceInv'
<1> DEFINE m == ctx[c].mod
           d == Def[m]
           me == WithData(a.mem, d, DataCopied(d))
<1>1. ctx[c] \in ContextType /\ m \in Mods /\ d \in Declaration
  BY Declared DEF InstanceInv, TypeInv, ContextType
<1>2. PICK x \in ContextType :
           /\ ctx' = [ctx EXCEPT ![c] = x] /\ x.mod = m /\ x.max_pages = n
           /\ owner' \in {c, NoContext}
           /\ owner' = c => /\ DataOk(d) /\ (d.tables = 0 \/ ElemOk(d)) /\ tpage' = TablePage(c, m)
                            /\ x.dropped_data = DataFlags(d) /\ x.globals = d.globals
                            /\ d.tables = 1 => /\ x.dropped_elems = ElemDropped(d)
                                               /\ x.alt = AltTable(m, ctx[c].alt)
           /\ tpage' = tpage \/ tpage' = TablePage(c, m)
  BY ResetWithFields
<1>3. wa' = [a EXCEPT !.mem = me]
  BY DEF ResetWith
<1>4. me \in [Cell -> Values]
  BY <1>1, WithDataType DEF Allocator, DataCopied
<1>. HIDE DEF me
<1>5. wa' \in Allocator /\ wa'.page = a.page /\ wa'.prot = a.prot /\ wa'.guard = a.guard
  BY <1>3, <1>4 DEF Allocator
<1>6. Accessible(wa') /\ (Exact(a) => Exact(wa'))
  BY <1>5 DEF Accessible, Exact
<1>7. tpage' \in [Word -> TableWord]
  <2>1. TablePage(c, m) \in [Word -> TableWord]
    BY <1>1, TablePageWritten
  <2>2. tpage \in [Word -> TableWord] /\ (tpage' = tpage \/ tpage' = TablePage(c, m))
    BY <1>2 DEF InstanceInv, TypeInv
  <2>. QED
    BY <2>1, <2>2
<1>8. CASE owner' = NoContext
  BY <1>2, <1>5, <1>6, <1>7, <1>8, OwnershipLost
<1>9. CASE owner' = c
  <2>1. ctx' \in [Contexts -> ContextType] /\ ctx'[c] = x
    BY <1>2 DEF InstanceInv, TypeInv
  <2>2. Pointed(c, x, tpage')
    BY <1>1, <1>2, <1>9, TablePageWritten DEF Pointed
  <2>3. Flagged(x)
    <3>1. indirect_table(m) => d.tables = 1
      BY <1>1, Declared DEF indirect_table
    <3>2. indirect_table(m) => DOMAIN x.alt = 1..d.tinit
      BY <1>1, <1>2, <1>9, <3>1, AltTableWritten DEF ContextType
    <3>. QED
      BY <1>1, <1>2, <1>9, <3>2, FlagsWritten DEF Flagged
  <2>4. Sized(x, a.page)
    BY <1>1, <1>2, Declared DEF Sized, D
  <2>5. Owned(c, x, wa', tpage')
    BY <1>5, <2>2, <2>3, <2>4 DEF Owned
  <2>. QED
    BY <1>5, <1>6, <1>7, <1>9, <2>1, <2>5 DEF InstanceInv, TypeInv
<1>. QED
  BY <1>2, <1>8, <1>9

\* The cases of Initialize: the limit is below what the module needs, the
\* allocator's reset throws, or the context is reset.
Limit(opt) == IF opt < HardMax THEN opt ELSE HardMax
Refused(c, opt, a, o) ==
  /\ wa' = a /\ ctx' = [ctx EXCEPT ![c] = [ctx[c] EXCEPT !.max_pages = Limit(opt)]] /\ owner' = o /\ UNCHANGED tpage
AllocatorReset(c, e1, e2) ==
  IF D(c).memories = 1 THEN ResetTo(wa, D(c).initial, e1, e2) ELSE ResetNone(wa, e1)

\* initialize is refused for its limit, refused by the allocator, or resets.
LEMMA InitializeCases ==
  ASSUME InstanceInv, NEW c \in Contexts, NEW opt \in MaxPagesOptions, Initialize(c, opt)
  PROVE  \/ Refused(c, opt, wa, IF owner = c THEN NoContext ELSE owner)
         \/ /\ ~(D(c).memories = 1 /\ D(c).initial > Limit(opt))
            /\ \E e1, e2 \in MprotectErrors :
                 LET r == AllocatorReset(c, e1, e2) IN
                 IF r.ok THEN ResetWith(c, Limit(opt), r.a) ELSE Refused(c, opt, r.a, NoContext)
<1>1. ASSUME NEW k PROVE [ctx EXCEPT ![c].max_pages = k] = [ctx EXCEPT ![c] = [ctx[c] EXCEPT !.max_pages = k]]
  BY DEF InstanceInv, TypeInv
<1>. QED
  BY <1>1 DEF Initialize, Refused, Limit, AllocatorReset, D

\* The allocator after its own reset.
LEMMA AllocatorResetCall ==
  ASSUME InstanceInv, NEW c \in Contexts, NEW e1 \in MprotectErrors, NEW e2 \in MprotectErrors,
         NEW r, r = AllocatorReset(c, e1, e2)
  PROVE  /\ r.a \in Allocator /\ Accessible(r.a) /\ (MprotectWorks => Exact(r.a))
         /\ r.ok /\ D(c).memories = 0 => r.a.page = -1
         /\ r.ok /\ D(c).memories = 1 => r.a.page = D(c).initial /\ Blank(r.a, D(c).initial)
<1>1. /\ wa \in Allocator /\ Accessible(wa) /\ (MprotectWorks => Exact(wa) /\ ~e1 /\ ~e2)
      /\ e1 \in BOOLEAN /\ e2 \in BOOLEAN
  BY ErrorAssumption DEF InstanceInv, TypeInv, MprotectWorks
<1>2. ctx[c].mod \in Mods
  BY DEF InstanceInv, TypeInv, ContextType
<1>3. D(c).memories \in {0, 1} /\ D(c).initial \in Nat
  BY <1>2, Declared DEF D
<1>4. Accessible(wa) /\ ~(D(c).memories = 0 /\ D(c).memories = 1)
  BY <1>1
<1>5. CASE D(c).memories = 1
  <2>1. r = ResetTo(wa, D(c).initial, e1, e2)
    BY <1>5 DEF AllocatorReset
  <2>2. /\ r.a \in Allocator
        /\ r.ok => r.a.page = D(c).initial /\ Blank(r.a, D(c).initial)
        /\ Accessible(wa) => Accessible(r.a)
        /\ Exact(wa) /\ ~e1 /\ ~e2 => Exact(r.a)
    BY <1>1, <1>3, <2>1, ResetToCall
  <2>3. MprotectWorks => Exact(r.a)
    BY <1>1, <2>2, Zenon
  <2>. QED
    BY <1>5, <1>4, <2>2, <2>3, Zenon
<1>6. CASE D(c).memories = 0
  <2>1. r = ResetNone(wa, e1)
    BY <1>6 DEF AllocatorReset
  <2>2. /\ r.a \in Allocator
        /\ r.ok => r.a.page = -1
        /\ Accessible(wa) => Accessible(r.a)
        /\ Exact(wa) /\ ~e1 => Exact(r.a)
    BY <1>1, <2>1, ResetNoneCall
  <2>3. MprotectWorks => Exact(r.a)
    BY <1>1, <2>2, Zenon
  <2>. QED
    BY <1>6, <1>4, <2>2, <2>3, Zenon
<1>. QED
  BY <1>3, <1>5, <1>6

\* backend::initialize, whichever way it ends.
LEMMA InitializeStep ==
  ASSUME InstanceInv, NEW c \in Contexts, NEW opt \in MaxPagesOptions, Initialize(c, opt)
  PROVE  InstanceInv'
<1> DEFINE n == Limit(opt)
           x == [ctx[c] EXCEPT !.max_pages = n]
<1>1. n \in 0..HardMax
  BY OptionAssumption, SizeAssumption DEF Limit
<1>. HIDE DEF n
<1>2. ctx[c] \in ContextType /\ tpage \in [Word -> TableWord] /\ wa \in Allocator /\ ctx[c].mod \in Mods
  BY DEF InstanceInv, TypeInv, ContextType
<1>3. x \in ContextType
  BY <1>1, <1>2 DEF ContextType
<1>4. ASSUME NEW a \in Allocator, Accessible(a), MprotectWorks => Exact(a),
             NEW o, o = NoContext \/ (owner # c /\ a = wa /\ o = owner), Refused(c, opt, a, o)
      PROVE  InstanceInv'
  <2>1. wa' = a /\ ctx' = [ctx EXCEPT ![c] = x] /\ owner' = o /\ UNCHANGED tpage
    BY <1>4 DEF Refused, n
  <2>. HIDE DEF x
  <2>. QED
    BY <1>2, <1>3, <1>4, <2>1, OwnershipLost
<1>5. CASE Refused(c, opt, wa, IF owner = c THEN NoContext ELSE owner)
  BY <1>2, <1>4, <1>5 DEF InstanceInv
<1>6. ASSUME ~(D(c).memories = 1 /\ D(c).initial > n), NEW e1 \in MprotectErrors, NEW e2 \in MprotectErrors,
             NEW r, r = AllocatorReset(c, e1, e2),
             IF r.ok THEN ResetWith(c, n, r.a) ELSE Refused(c, opt, r.a, NoContext)
      PROVE  InstanceInv'
  <2>1. /\ r.a \in Allocator /\ Accessible(r.a) /\ (MprotectWorks => Exact(r.a))
        /\ r.ok /\ D(c).memories = 0 => r.a.page = -1
        /\ r.ok /\ D(c).memories = 1 => r.a.page = D(c).initial
    BY <1>6, AllocatorResetCall
  <2>2. CASE r.ok
    <3>1. D(c).initial \in Nat /\ n \in Nat
      BY <1>1, <1>2, Declared DEF D
    <3>2. ResetWith(c, n, r.a) /\ (D(c).memories = 1 => D(c).initial <= n)
      BY <1>6, <2>2, <3>1
    <3>. QED
      BY <1>1, <2>1, <2>2, <3>2, ResetWithStep
  <2>3. CASE ~r.ok
    BY <1>4, <1>6, <2>1, <2>3
  <2>. QED
    BY <2>2, <2>3
<1>. QED
  BY <1>5, <1>6, InitializeCases DEF n

\* set_module takes the allocator from the context whose module it replaces.
LEMMA SetModuleStep ==
  ASSUME InstanceInv, NEW c \in Contexts, NEW m \in Mods, SetModule(c, m)
  PROVE  InstanceInv'
<1> DEFINE e == <<>>
           x == [ctx[c] EXCEPT !.mod = m, !.alt = e]
<1>1. ctx[c] \in ContextType /\ tpage \in [Word -> TableWord] /\ wa \in Allocator /\ e \in Seq(TableWord)
  BY DEF InstanceInv, TypeInv
<1>2. ctx' = [ctx EXCEPT ![c] = x] /\ UNCHANGED <<wa, tpage>> /\ owner' = IF owner = c THEN NoContext ELSE owner
  BY DEF SetModule, NoTable, InstanceInv, TypeInv
<1>. HIDE DEF e
<1>3. x \in ContextType
  BY <1>1 DEF ContextType
<1>. HIDE DEF x
<1>. QED
  BY <1>1, <1>2, <1>3, OwnershipLost DEF InstanceInv

-----------------------------------------------------------------------------
(* The theorems.                                                           *)

\* At the start nothing is accessible and no context owns the allocator.
LEMMA InitInstanceInv == Init => InstanceInv
<1> SUFFICES ASSUME Init PROVE InstanceInv
  OBVIOUS
<1>1. wa \in Allocator /\ wa.page = -1 /\ wa.guard = "none" /\ \A p \in Page : wa.prot[p] = "none"
  <2>1. [p \in Page |-> "none"] \in [Page -> {"none", "rw"}] /\ [c \in Cell |-> Zero] \in [Cell -> Values]
        /\ -1 \in -1..HardMax
    BY ValueAssumption, SizeAssumption
  <2>. QED
    BY <2>1 DEF Init, NewAllocator, Allocator
<1>2. Accessible(wa) /\ Exact(wa)
  BY <1>1, SizeAssumption DEF Accessible, Exact, Page
<1>3. tpage \in [Word -> TableWord]
  BY DEF Init, TableWord
<1>4. ctx \in [Contexts -> ContextType]
  <2>1. ASSUME NEW m \in Mods PROVE NewContext(m) \in ContextType
    <3>1. <<>> \in Seq(Values) /\ <<>> \in Seq(TableWord) /\ <<>> \in Seq(BOOLEAN) /\ HardMax \in 0..HardMax
      BY SizeAssumption
    <3>. QED
      BY <3>1 DEF NewContext, NoTable, ContextType
  <2>. QED
    BY <2>1 DEF Init
<1>. QED
  BY <1>1, <1>2, <1>3, <1>4 DEF Init, InstanceInv, TypeInv

\* Every operation of every context keeps the invariant.
LEMMA NextInstanceInv == InstanceInv /\ [Next]_vars => InstanceInv'
<1> SUFFICES ASSUME InstanceInv, [Next]_vars PROVE InstanceInv'
  OBVIOUS
<1>1. CASE UNCHANGED vars
  BY <1>1 DEF vars, InstanceInv, TypeInv
<1>2. ASSUME NEW c \in Contexts, \E n \in MaxPagesOptions : Initialize(c, n) PROVE InstanceInv'
  BY <1>2, InitializeStep
<1>3. ASSUME NEW c \in Contexts, \E m \in Mods : SetModule(c, m) PROVE InstanceInv'
  BY <1>3, SetModuleStep
<1>4. ASSUME NEW c \in Contexts, MemoryStep(c) PROVE InstanceInv'
  BY <1>4, GrowStep, StoreStep, MemoryFillStep, MemoryCopyStep, MemoryInitStep, DropDataStep DEF MemoryStep
<1>5. ASSUME NEW c \in Contexts, TableStep(c) PROVE InstanceInv'
  BY <1>5, TableInitStep, TableCopyStep, DropElemStep, SetGlobalStep DEF TableStep
<1>. QED
  BY <1>1, <1>2, <1>3, <1>4, <1>5 DEF Next

\* The inductive invariant: the allocator's pages and protections, the types,
\* and what the owner of the allocator relies on.
THEOREM InstanceInvariant == Spec => []InstanceInv
BY InitInstanceInv, NextInstanceInv, PTL DEF Spec

\* The flags of the running context match its module's segments, whatever
\* modules the context ran before (reset, set_module).
THEOREM TypeCorrect == Spec => []TypeOK
<1>1. InstanceInv => TypeOK
  <2> SUFFICES ASSUME InstanceInv PROVE TypeOK
    OBVIOUS
  <2>1. \A c \in Contexts : ctx[c].mod \in Mods /\ ctx[c].max_pages \in 0..HardMax
    BY DEF InstanceInv, TypeInv, ContextType
  <2>2. owner # NoContext => Flagged(ctx[owner])
    BY DEF InstanceInv, Owned
  <2>. QED
    BY <2>1, <2>2 DEF InstanceInv, TypeInv, TypeOK, Flagged, D
<1>. QED
  BY <1>1, InstanceInvariant, PTL

\* Whichever mprotect fails in alloc, free or reset, the pages that are
\* counted can be accessed.
THEOREM AllocatedAccessibleAlways == Spec => []AllocatedAccessible
<1>1. InstanceInv => AllocatedAccessible
  BY DEF InstanceInv, Accessible, AllocatedAccessible
<1>. QED
  BY <1>1, InstanceInvariant, PTL

\* The running instance's memory stays within max_pages and the module's
\* maximum, failures of mprotect included (grow_linear_memory, reset).
THEOREM WithinLimitsAlways == Spec => []WithinLimits
<1>1. InstanceInv => WithinLimits
  BY DEF InstanceInv, Owned, Sized, WithinLimits, D
<1>. QED
  BY <1>1, InstanceInvariant, PTL

\* No table operation and no other context's reset overwrites the pointers
\* that generated code reads (indirect_table, reset, init_table).
THEOREM PointersIntactAlways == Spec => []PointersIntact
<1>1. InstanceInv => PointersIntact
  BY DEF InstanceInv, Owned, Pointed, PointersIntact
<1>. QED
  BY <1>1, InstanceInvariant, PTL

\* While mprotect succeeds, validate_pointer's test of one byte accepts
\* exactly the ranges inside the memory, whatever resets, growths and shrinks
\* came before.
THEOREM AccessMatchesBoundsAlways ==
  ASSUME MprotectErrors \subseteq {FALSE}
  PROVE  Spec => []AccessMatchesBounds
<1>1. InstanceInv => AccessMatchesBounds
  <2> SUFFICES ASSUME InstanceInv, NEW ptr \in Addr, NEW len \in Addr
               PROVE  ValidatePointer(wa, ptr, len) <=> (wa.page >= 0 /\ ptr + len <= MemSize)
    BY DEF AccessMatchesBounds
  <2>1. Exact(wa) /\ wa \in Allocator
    BY DEF InstanceInv, TypeInv, MprotectWorks
  <2>2. ptr \in Nat /\ len \in Nat /\ wa.page \in Int
    BY <2>1, SizeAssumption DEF Addr, Allocator
  <2>. QED
    BY <2>1, <2>2, PointerInBounds DEF MemSize
<1>. QED
  BY <1>1, InstanceInvariant, PTL
=============================================================================
