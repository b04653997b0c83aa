------------------------- MODULE JitAllocatorProofs -------------------------
(***************************************************************************)
(* What jit_allocator's operations preserve, for every arena.              *)
(***************************************************************************)
EXTENDS JitAllocator, WellFoundedInduction, TLAPS

Positive == Nat \ {0}
Block == Nat \X Positive
Arena == [segments : SUBSET Block, free_blocks : SUBSET Block, allocated_blocks : SUBSET Block,
          free_blocks_by_size : SUBSET (Positive \X Nat),
          allocated_blocks_by_size : SUBSET (Positive \X Nat)]

AllBlocks(a) == a.free_blocks \cup a.allocated_blocks
In(p, b) == b[1] <= p /\ p < b[1] + b[2]
Apart(b, c) == b[1] + b[2] <= c[1] \/ c[1] + c[2] <= b[1]

\* The parts of the invariant of the arena.
BlocksApart(a)   == \A b, c \in AllBlocks(a) : b # c => Apart(b, c)
FreeNotUsed(a)   == a.free_blocks \cap a.allocated_blocks = {}
Covered(a)       == \A p \in Int : (\E b \in AllBlocks(a) : In(p, b)) <=> \E s \in a.segments : In(p, s)
Listed(a)        == /\ a.free_blocks_by_size = BySize(a.free_blocks)
                    /\ a.allocated_blocks_by_size = BySize(a.allocated_blocks)
Merged(a)        == \A b, c \in a.free_blocks : b[1] + b[2] = c[1] => \E s \in a.segments : s[1] = c[1]
SegmentsInside(a) == \A s \in a.segments : s[1] + s[2] <= AddressPages

ArenaInv(a) ==
  /\ a \in Arena
  /\ BlocksApart(a) /\ FreeNotUsed(a) /\ Covered(a) /\ Listed(a) /\ Merged(a) /\ SegmentsInside(a)

-----------------------------------------------------------------------------
(* Numbers and sets by size.                                               *)

\* A set of naturals has a least element: what lower_bound relies on.
LEMMA LeastNatural ==
  ASSUME NEW T \in SUBSET Nat, T # {}
  PROVE  \E x \in T : \A y \in T : x <= y
<1>1. \E x \in T : \A y \in T : ~(<<y, x>> \in OpToRel(<, Nat))
  BY WFMin, NatLessThanWellFounded
<1>2. ASSUME NEW x \in Nat, NEW y \in Nat, x < y
      PROVE  <<x, y>> \in OpToRel(<, Nat)
  BY <1>2, Zenon DEF OpToRel
<1>3. \E x \in T : \A y \in T : ~(y < x)
  BY <1>1, <1>2, Zenon
<1>. QED
  BY <1>3

\* A pair is in the set by size exactly if the block is in the map.
LEMMA BySizePair ==
  ASSUME NEW S \in SUBSET Block, NEW base \in Nat, NEW size \in Positive
  PROVE  <<size, base>> \in BySize(S) <=> <<base, size>> \in S
BY DEF BySize, Block, Positive

\* Inserting and erasing in the map is inserting and erasing in the set.
LEMMA BySizeChange ==
  ASSUME NEW S \in SUBSET Block, NEW b \in Block
  PROVE  /\ BySize(S \cup {b}) = BySize(S) \cup {<<b[2], b[1]>>}
         /\ BySize(S \ {b}) = BySize(S) \ {<<b[2], b[1]>>}
BY DEF BySize, Block, Positive

\* lower_bound finds a block that is large enough, if there is one.
LEMMA LowerBound ==
  ASSUME NEW S \in SUBSET (Positive \X Nat), NEW size \in Nat,
         NEW b \in S, b[1] >= size
  PROVE  lower_bound(S, size) \in S /\ lower_bound(S, size)[1] >= size
<1> DEFINE Sizes == {n \in Nat : \E c \in S : c[1] = n /\ n >= size}
<1>1. PICK n \in Sizes : \A k \in Sizes : n <= k
  <2>1. Sizes \in SUBSET Nat /\ b[1] \in Sizes
    BY DEF Positive
  <2>. HIDE DEF Sizes
  <2>. QED
    BY <2>1, LeastNatural
<1> DEFINE Bases == {k \in Nat : <<n, k>> \in S}
<1>2. PICK k \in Bases : \A j \in Bases : k <= j
  <2>1. Bases \in SUBSET Nat /\ Bases # {}
    BY <1>1
  <2>. HIDE DEF Bases
  <2>. QED
    BY <2>1, LeastNatural
<1>3. <<n, k>> \in S /\ n >= size
  BY <1>1, <1>2
<1>4. \A c \in S : c[1] >= size => n < c[1] \/ (n = c[1] /\ k <= c[2])
  <2>. TAKE c \in S
  <2>. HAVE c[1] >= size
  <2>1. c[1] \in Sizes /\ c = <<c[1], c[2]>> /\ c[2] \in Nat /\ n \in Nat
    BY <1>1 DEF Positive
  <2>2. n <= c[1]
    BY <1>1, <2>1
  <2>3. n = c[1] => c[2] \in Bases
    BY <2>1
  <2>4. n = c[1] => k <= c[2]
    BY <1>2, <2>3
  <2>. QED
    BY <2>1, <2>2, <2>4
<1>. QED
  BY <1>3, <1>4 DEF lower_bound

-----------------------------------------------------------------------------
(* The containers after an operation.                                      *)

SizeBlock == Positive \X Nat
Has(x, segments, free_blocks, allocated_blocks, free_by_size, allocated_by_size) ==
  /\ x \in Arena
  /\ x.segments = segments
  /\ x.free_blocks = free_blocks /\ x.allocated_blocks = allocated_blocks
  /\ x.free_blocks_by_size = free_by_size /\ x.allocated_blocks_by_size = allocated_by_size

\* The containers of an arena, by type.
LEMMA Containers ==
  ASSUME NEW a \in Arena
  PROVE  /\ a.segments \in SUBSET Block
         /\ a.free_blocks \in SUBSET Block /\ a.allocated_blocks \in SUBSET Block
         /\ a.free_blocks_by_size \in SUBSET SizeBlock /\ a.allocated_blocks_by_size \in SUBSET SizeBlock
BY DEF Arena, SizeBlock

\* Only the free blocks change.
LEMMA FreeReplaced ==
  ASSUME NEW a \in Arena, NEW F \in SUBSET Block, NEW FS \in SUBSET SizeBlock
  PROVE  Has([a EXCEPT !.free_blocks_by_size = FS, !.free_blocks = F],
             a.segments, F, a.allocated_blocks, FS, a.allocated_blocks_by_size)
BY DEF Has, Arena, SizeBlock

\* split_block
LEMMA SplitBlock ==
  ASSUME NEW a \in Arena, NEW b \in SizeBlock, NEW size \in Positive, b[1] > size
  PROVE  Has(split_block(a, b, size), a.segments,
             (a.free_blocks \ {<<b[2], b[1]>>}) \cup {<<b[2], size>>, <<b[2] + size, b[1] - size>>},
             a.allocated_blocks,
             (a.free_blocks_by_size \ {b}) \cup {<<size, b[2]>>, <<b[1] - size, b[2] + size>>},
             a.allocated_blocks_by_size)
<1> DEFINE F == (a.free_blocks \ {<<b[2], b[1]>>}) \cup {<<b[2], size>>, <<b[2] + size, b[1] - size>>}
           FS == (a.free_blocks_by_size \ {b}) \cup {<<size, b[2]>>, <<b[1] - size, b[2] + size>>}
<1>1. /\ <<b[2], size>> \in Block /\ <<b[2] + size, b[1] - size>> \in Block
      /\ <<size, b[2]>> \in SizeBlock /\ <<b[1] - size, b[2] + size>> \in SizeBlock
  BY DEF Block, SizeBlock, Positive
<1>2. F \in SUBSET Block /\ FS \in SUBSET SizeBlock
  BY <1>1, Containers
<1>3. split_block(a, b, size) = [a EXCEPT !.free_blocks_by_size = FS, !.free_blocks = F]
  BY Zenon DEF split_block
<1>. HIDE DEF F, FS
<1>. QED
  BY <1>2, <1>3, FreeReplaced DEF F, FS

\* transfer_to_allocated
LEMMA ToAllocated ==
  ASSUME NEW a \in Arena, NEW base \in Nat, NEW size \in Positive
  PROVE  Has(transfer_to_allocated(a, base, size), a.segments,
             a.free_blocks \ {<<base, size>>}, a.allocated_blocks \cup {<<base, size>>},
             a.free_blocks_by_size \ {<<size, base>>}, a.allocated_blocks_by_size \cup {<<size, base>>})
<1>1. ASSUME NEW F \in SUBSET Block, NEW U \in SUBSET Block, NEW FS \in SUBSET SizeBlock, NEW US \in SUBSET SizeBlock
      PROVE  Has([a EXCEPT !.free_blocks = F, !.allocated_blocks = U,
                           !.free_blocks_by_size = FS, !.allocated_blocks_by_size = US],
                 a.segments, F, U, FS, US)
  BY DEF Has, Arena, SizeBlock
<1>2. <<base, size>> \in Block /\ <<size, base>> \in SizeBlock
  BY DEF Block, SizeBlock
<1>3. /\ a.free_blocks \ {<<base, size>>} \in SUBSET Block
      /\ a.allocated_blocks \cup {<<base, size>>} \in SUBSET Block
      /\ a.free_blocks_by_size \ {<<size, base>>} \in SUBSET SizeBlock
      /\ a.allocated_blocks_by_size \cup {<<size, base>>} \in SUBSET SizeBlock
  BY <1>2, Containers
<1>. QED
  BY <1>1, <1>3, Zenon DEF transfer_to_allocated

\* transfer_to_free
LEMMA ToFree ==
  ASSUME NEW a \in Arena, NEW b \in Block
  PROVE  Has(transfer_to_free(a, b), a.segments,
             a.free_blocks \cup {b}, a.allocated_blocks \ {b},
             a.free_blocks_by_size \cup {<<b[2], b[1]>>}, a.allocated_blocks_by_size \ {<<b[2], b[1]>>})
<1>1. ASSUME NEW F \in SUBSET Block, NEW U \in SUBSET Block, NEW FS \in SUBSET SizeBlock, NEW US \in SUBSET SizeBlock
      PROVE  Has([a EXCEPT !.allocated_blocks = U, !.free_blocks = F,
                           !.allocated_blocks_by_size = US, !.free_blocks_by_size = FS],
                 a.segments, F, U, FS, US)
  BY DEF Has, Arena, SizeBlock
<1>2. <<b[2], b[1]>> \in SizeBlock
  BY DEF Block, SizeBlock
<1>3. /\ a.free_blocks \cup {b} \in SUBSET Block
      /\ a.allocated_blocks \ {b} \in SUBSET Block
      /\ a.free_blocks_by_size \cup {<<b[2], b[1]>>} \in SUBSET SizeBlock
      /\ a.allocated_blocks_by_size \ {<<b[2], b[1]>>} \in SUBSET SizeBlock
  BY <1>2, Containers
<1>. QED
  BY <1>1, <1>3, Zenon DEF transfer_to_free

-----------------------------------------------------------------------------
(* alloc                                                                   *)

\* A new segment is one free block: no page of it was in the arena.
LEMMA AllocateSegment ==
  ASSUME NEW a, ArenaInv(a), NEW size \in Positive, NEW base \in MapAt(a, SegmentSize(size))
  PROVE  /\ ArenaInv(allocate_segment(a, size, base))
         /\ allocate_segment(a, size, base).allocated_blocks = a.allocated_blocks
         /\ Large(allocate_segment(a, size, base), size) # {}
<1> DEFINE n == SegmentSize(size)
           x == allocate_segment(a, size, base)
           new == <<base, n>>
<1>1. n \in Positive /\ n >= size /\ base \in Nat /\ base + n <= AddressPages /\ new \in Block
  BY ArenaAssumption DEF SegmentSize, MapAt, Addresses, Positive, Block
<1>2. \A p \in Int : In(p, new) => ~\E s \in a.segments : In(p, s)
  <2>1. PagesOf(base, n) \cap Mapped(a) = {}
    BY DEF MapAt
  <2>2. ASSUME NEW p \in Int, In(p, new), NEW s \in a.segments, In(p, s) PROVE FALSE
    <3>1. p \in PagesOf(base, n)
      BY <1>1, <2>2 DEF In, PagesOf, Positive
    <3>2. p \in PagesOf(s[1], s[2])
      BY <2>2 DEF In, PagesOf, ArenaInv, Arena, Block, Positive
    <3>. QED
      BY <2>1, <3>1, <3>2 DEF Mapped
  <2>. QED
    BY <2>2
<1>. HIDE DEF n
<1>3. /\ x \in Arena
      /\ x.segments = a.segments \cup {new}
      /\ x.free_blocks = a.free_blocks \cup {new}
      /\ x.allocated_blocks = a.allocated_blocks
      /\ x.free_blocks_by_size = a.free_blocks_by_size \cup {<<n, base>>}
      /\ x.allocated_blocks_by_size = a.allocated_blocks_by_size
  <2>1. a \in Arena
    BY DEF ArenaInv
  <2>2. x = [a EXCEPT !.segments = @ \cup {new}, !.free_blocks_by_size = @ \cup {<<n, base>>},
                      !.free_blocks = @ \cup {new}]
    BY DEF allocate_segment, n
  <2>3. <<n, base>> \in Positive \X Nat
    BY <1>1
  <2>. HIDE DEF x, new
  <2>. QED
    BY <1>1, <2>1, <2>2, <2>3 DEF Arena
<1>. HIDE DEF x
<1>4. ASSUME NEW b \in AllBlocks(a) PROVE Apart(b, new) /\ b # new
  <2>1. b \in Block
    BY DEF ArenaInv, Arena, AllBlocks
  <2>2. \A p \in Int : In(p, b) => ~In(p, new)
    BY <1>2 DEF ArenaInv, Covered
  <2>3. ~In(b[1], new) /\ ~In(base, b)
    BY <1>1, <2>1, <2>2 DEF In, Block, Positive
  <2>. QED
    BY <1>1, <2>1, <2>3 DEF In, Apart, Block, Positive
<1>5. BlocksApart(x) /\ FreeNotUsed(x)
  BY <1>3, <1>4 DEF BlocksApart, FreeNotUsed, AllBlocks, ArenaInv, Apart
<1>6. Covered(x)
  BY <1>3 DEF Covered, AllBlocks, ArenaInv
<1>7. Listed(x)
  <2>1. a.free_blocks \in SUBSET Block /\ new \in Block /\ new[1] = base /\ new[2] = n
    BY <1>1 DEF ArenaInv, Arena
  <2>2. BySize(a.free_blocks \cup {new}) = BySize(a.free_blocks) \cup {<<new[2], new[1]>>}
    BY <2>1, BySizeChange, Zenon
  <2>3. BySize(x.free_blocks) = BySize(a.free_blocks) \cup {<<n, base>>}
    BY <1>3, <2>1, <2>2
  <2>. QED
    BY <1>3, <2>3 DEF Listed, ArenaInv
<1>8. Merged(x)
  <2> SUFFICES ASSUME NEW b \in x.free_blocks, NEW c \in x.free_blocks, b[1] + b[2] = c[1]
               PROVE  \E s \in x.segments : s[1] = c[1]
    BY DEF Merged
  <2>1. CASE c = new
    BY <1>3, <2>1
  <2>2. CASE c # new /\ b # new
    BY <1>3, <2>2 DEF Merged, ArenaInv
  <2>3. CASE c # new /\ b = new
    <3>1. c \in a.free_blocks /\ c \in Block
      BY <1>3, <2>3 DEF ArenaInv, Arena
    <3>2. PICK s \in a.segments : In(c[1], s)
      BY <3>1 DEF ArenaInv, Covered, AllBlocks, In, Block, Positive
    <3>3. s \in Block
      BY DEF ArenaInv, Arena
    <3>4. ~In(c[1] - 1, s)
      <4>1. In(c[1] - 1, new) /\ c[1] - 1 \in Int
        BY <1>1, <2>3, <3>1 DEF In, Block, Positive
      <4>. QED
        BY <1>2, <4>1
    <3>5. s[1] = c[1]
      BY <3>1, <3>2, <3>3, <3>4 DEF In, Block, Positive
    <3>. QED
      BY <1>3, <3>5
  <2>. QED
    BY <2>1, <2>2, <2>3
<1>9. SegmentsInside(x)
  BY <1>1, <1>3 DEF SegmentsInside, ArenaInv
<1>10. Large(x, size) # {}
  <2>1. <<n, base>> \in x.free_blocks_by_size /\ <<n, base>>[1] >= size
    BY <1>1, <1>3
  <2>. QED
    BY <2>1 DEF Large
<1>. QED
  BY <1>3, <1>5, <1>6, <1>7, <1>8, <1>9, <1>10 DEF ArenaInv, x

\* alloc takes the first pages of a free block that is large enough; what is
\* left of the block stays free.
LEMMA TakeFromBlock ==
  ASSUME NEW a, ArenaInv(a), NEW size \in Positive, Large(a, size) # {}
  PROVE  /\ ArenaInv(TakeFrom(a, size).arena)
         /\ TakeFrom(a, size).arena.allocated_blocks = a.allocated_blocks \cup {TakeFrom(a, size).block}
         /\ TakeFrom(a, size).block \in Block
         /\ TakeFrom(a, size).block[2] = size
         /\ \A b \in a.allocated_blocks : Apart(b, TakeFrom(a, size).block)
<1> DEFINE best == lower_bound(a.free_blocks_by_size, size)
           n == best[1]
           base == best[2]
           whole == <<base, n>>
           taken == <<base, size>>
           rest == <<base + size, n - size>>
           R == IF n > size THEN {rest} ELSE {}
           x == TakeFrom(a, size).arena
<1>1. a \in Arena /\ a.free_blocks \in SUBSET Block /\ a.allocated_blocks \in SUBSET Block
  BY DEF ArenaInv, Arena
<1>2. best \in a.free_blocks_by_size /\ n >= size
  BY <1>1, LowerBound DEF Large, Arena, Positive
<1>3. n \in Positive /\ base \in Nat /\ best = <<n, base>> /\ whole \in a.free_blocks
  <2>1. n \in Positive /\ base \in Nat /\ best = <<n, base>>
    BY <1>1, <1>2 DEF Arena
  <2>2. <<n, base>> \in BySize(a.free_blocks)
    BY <1>2, <2>1 DEF ArenaInv, Listed
  <2>. QED
    BY <1>1, <2>1, <2>2, BySizePair
<1>. HIDE DEF best
<1>4. /\ taken \in Block /\ whole \in Block /\ taken # rest
      /\ n > size => rest \in Block
      /\ n = size => taken = whole
  BY <1>2, <1>3 DEF Block, Positive
<1>5. \A b \in AllBlocks(a) \ {whole} :
        Apart(b, taken) /\ b # taken /\ (n > size => Apart(b, rest) /\ b # rest)
  <2>. TAKE b \in AllBlocks(a) \ {whole}
  <2>1. Apart(b, whole) /\ b \in Block
    BY <1>1, <1>3 DEF ArenaInv, BlocksApart, AllBlocks
  <2>. QED
    BY <1>2, <1>3, <2>1 DEF Apart, Block, Positive
<1>6. /\ x.segments = a.segments
      /\ x.free_blocks = (a.free_blocks \ {whole}) \cup R
      /\ x.allocated_blocks = a.allocated_blocks \cup {taken}
      /\ x.free_blocks_by_size = BySize((a.free_blocks \ {whole}) \cup R)
      /\ x.allocated_blocks_by_size = BySize(a.allocated_blocks \cup {taken})
      /\ x \in Arena
      /\ TakeFrom(a, size).block = taken
  <2> DEFINE F == a.free_blocks
             FS == a.free_blocks_by_size
             cut == IF n > size THEN split_block(a, best, size) ELSE a
  <2>1. TakeFrom(a, size) = [arena |-> transfer_to_allocated(cut, base, size), block |-> taken]
    BY DEF TakeFrom, best
  <2>2. FS = BySize(F) /\ a.allocated_blocks_by_size = BySize(a.allocated_blocks)
    BY DEF ArenaInv, Listed
  <2>3. whole[1] = base /\ whole[2] = n /\ taken[1] = base /\ taken[2] = size /\ rest[1] = base + size /\ rest[2] = n - size
    OBVIOUS
  <2>4. BySize(F \ {whole}) = FS \ {best}
    BY <1>1, <1>3, <1>4, <2>2, <2>3, BySizeChange
  <2>5. taken \notin F \ {whole} /\ <<size, base>> \notin FS \ {best}
    <3>1. taken \notin F \ {whole}
      BY <1>5 DEF AllBlocks
    <3>2. F \ {whole} \in SUBSET Block
      BY <1>1
    <3>3. <<size, base>> \notin BySize(F \ {whole})
      <4>. HIDE DEF F
      <4>. QED
        BY <1>3, <3>1, <3>2, BySizePair
    <3>. QED
      BY <3>1, <3>3, <2>4
  <2>6. BySize(a.allocated_blocks \cup {taken}) = a.allocated_blocks_by_size \cup {<<size, base>>}
    <3>1. a.allocated_blocks \in SUBSET Block /\ taken \in Block
      BY <1>1, <1>4
    <3>2. BySize(a.allocated_blocks \cup {taken}) = BySize(a.allocated_blocks) \cup {<<taken[2], taken[1]>>}
      BY <3>1, BySizeChange, Zenon
    <3>. QED
      BY <2>2, <2>3, <3>2
  <2>7. CASE n > size
    <3>1. BySize((F \ {whole}) \cup {rest}) = (FS \ {best}) \cup {<<n - size, base + size>>}
      <4>1. F \ {whole} \in SUBSET Block
        BY <1>1
      <4>2. rest \in Block
        BY <1>4, <2>7
      <4>. HIDE DEF F, FS, rest, whole
      <4>3. BySize((F \ {whole}) \cup {rest}) = BySize(F \ {whole}) \cup {<<rest[2], rest[1]>>}
        BY <4>1, <4>2, BySizeChange
      <4>. QED
        BY <2>3, <2>4, <4>3
    <3>2. Has(cut, a.segments, (F \ {whole}) \cup {taken, rest}, a.allocated_blocks,
              (FS \ {best}) \cup {<<size, base>>, <<n - size, base + size>>}, a.allocated_blocks_by_size)
      <4>1. best \in SizeBlock
        BY <1>3 DEF SizeBlock
      <4>2. cut = split_block(a, best, size)
        BY <2>7
      <4>. QED
        BY <1>1, <2>7, <4>1, <4>2, SplitBlock
    <3>. HIDE DEF cut, taken, rest, whole
    <3>3. Has(x, a.segments, ((F \ {whole}) \cup {taken, rest}) \ {taken}, a.allocated_blocks \cup {taken},
              ((FS \ {best}) \cup {<<size, base>>, <<n - size, base + size>>}) \ {<<size, base>>},
              a.allocated_blocks_by_size \cup {<<size, base>>})
      BY <1>3, <2>1, <3>2, ToAllocated DEF Has, taken
    <3>4. ((F \ {whole}) \cup {taken, rest}) \ {taken} = (F \ {whole}) \cup {rest}
      BY <1>4, <2>5
    <3>5. ((FS \ {best}) \cup {<<size, base>>, <<n - size, base + size>>}) \ {<<size, base>>}
            = (FS \ {best}) \cup {<<n - size, base + size>>}
      <4>1. <<n - size, base + size>> # <<size, base>>
        BY <1>3 DEF Positive
      <4>. QED
        BY <2>5, <4>1
    <3>6. TakeFrom(a, size).block = taken
      BY <2>1
    <3>. HIDE DEF x, F, FS
    <3>. QED
      BY <2>6, <2>7, <3>1, <3>3, <3>4, <3>5, <3>6 DEF Has, F
  <2>8. CASE n = size
    <3>1. cut = a /\ taken = whole /\ <<size, base>> = best /\ R = {}
      BY <1>3, <2>8 DEF Positive
    <3>2. Has(x, a.segments, F \ {whole}, a.allocated_blocks \cup {taken},
              FS \ {best}, a.allocated_blocks_by_size \cup {<<size, base>>})
      <4>1. x = transfer_to_allocated(a, base, size)
        BY <2>1, <3>1
      <4>. HIDE DEF x
      <4>2. Has(x, a.segments, F \ {<<base, size>>}, a.allocated_blocks \cup {<<base, size>>},
                FS \ {<<size, base>>}, a.allocated_blocks_by_size \cup {<<size, base>>})
        BY <1>1, <1>3, <4>1, ToAllocated
      <4>3. whole = <<base, size>> /\ taken = <<base, size>>
        BY <3>1
      <4>. HIDE DEF taken, whole
      <4>. QED
        BY <3>1, <4>2, <4>3
    <3>3. TakeFrom(a, size).block = taken
      BY <2>1
    <3>4. (F \ {whole}) \cup R = F \ {whole}
      BY <3>1
    <3>. HIDE DEF x, FS, R, taken, whole
    <3>. QED
      BY <2>4, <2>6, <3>1, <3>2, <3>3, <3>4 DEF Has
  <2>. QED
    BY <1>2, <1>3, <2>7, <2>8 DEF Positive
<1>. HIDE DEF x
<1>7. BlocksApart(x) /\ FreeNotUsed(x)
  <2>1. n > size => Apart(taken, rest) /\ Apart(rest, taken)
    BY <1>2, <1>3 DEF Apart, Positive
  <2>2. whole \notin a.allocated_blocks
    BY <1>3 DEF ArenaInv, FreeNotUsed
  <2>3. \A b, c \in AllBlocks(a) : b # c => Apart(b, c)
    BY DEF ArenaInv, BlocksApart
  <2>4. \A b, c : Apart(b, c) <=> Apart(c, b)
    BY DEF Apart
  <2>5. AllBlocks(x) = (AllBlocks(a) \ {whole}) \cup {taken} \cup R
    BY <1>6, <2>2 DEF AllBlocks
  <2>6. BlocksApart(x)
    <3>. HIDE DEF taken, rest, whole, n
    <3>. QED
      BY <1>5, <2>1, <2>3, <2>4, <2>5 DEF BlocksApart
  <2>7. FreeNotUsed(x)
    <3>. HIDE DEF taken, rest, whole, n
    <3>. QED
      BY <1>4, <1>5, <1>6, <2>2 DEF FreeNotUsed, AllBlocks, ArenaInv
  <2>. QED
    BY <2>6, <2>7
<1>8. Covered(x)
  <2>1. \A p \in Int : In(p, whole) <=> In(p, taken) \/ \E r \in R : In(p, r)
    <3>1. CASE n > size
      <4>1. \A p \in Int : In(p, whole) <=> In(p, taken) \/ In(p, rest)
        BY <1>3, <3>1 DEF In, Positive
      <4>. QED
        BY <3>1, <4>1
    <3>2. CASE n = size
      BY <1>3, <1>4, <3>2 DEF Positive
    <3>. QED
      BY <1>2, <1>3, <3>1, <3>2 DEF Positive
  <2>. HIDE DEF taken, R, whole
  <2>. QED
    BY <1>3, <1>6, <2>1 DEF Covered, AllBlocks, ArenaInv
<1>9. Merged(x)
  <2> SUFFICES ASSUME NEW b \in x.free_blocks, NEW c \in x.free_blocks, b[1] + b[2] = c[1]
               PROVE  \E s \in a.segments : s[1] = c[1]
    BY <1>6 DEF Merged
  <2>1. CASE b \in a.free_blocks /\ c \in a.free_blocks
    BY <2>1 DEF Merged, ArenaInv
  <2>2. CASE c = rest /\ n > size
    <3>1. b # rest
      BY <1>2, <1>3, <2>2 DEF Positive
    <3>2. b \in AllBlocks(a) \ {whole} /\ b \in Block
      BY <1>1, <1>6, <3>1 DEF AllBlocks
    <3>3. Apart(b, taken)
      BY <1>5, <3>2
    <3>. QED
      BY <1>2, <1>3, <2>2, <3>2, <3>3 DEF Apart, Block, Positive
  <2>3. CASE b = rest /\ n > size /\ c \in a.free_blocks
    <3>1. whole[1] + whole[2] = c[1]
      BY <1>2, <1>3, <2>3 DEF Positive
    <3>. QED
      BY <1>3, <2>3, <3>1 DEF Merged, ArenaInv
  <2>. QED
    BY <1>6, <2>1, <2>2, <2>3
<1>. QED
  BY <1>3, <1>4, <1>5, <1>6, <1>7, <1>8, <1>9 DEF ArenaInv, SegmentsInside, Listed, x, AllBlocks, FreeNotUsed

\* alloc: what it returns was free, and everything else is as it was.
LEMMA AllocInv ==
  ASSUME NEW a, ArenaInv(a), NEW size \in Positive, NEW t \in alloc(a, size)
  PROVE  /\ ArenaInv(t.arena)
         /\ t.arena.allocated_blocks = a.allocated_blocks \cup {t.block}
         /\ t.block \in Block /\ t.block[2] = size
         /\ \A b \in a.allocated_blocks : Apart(b, t.block)
<1>1. PICK b \in Enough(a, size) : t = TakeFrom(b, size)
  BY DEF alloc
<1>2. ArenaInv(b) /\ b.allocated_blocks = a.allocated_blocks /\ Large(b, size) # {}
  BY AllocateSegment DEF Enough
<1>. QED
  BY <1>1, <1>2, TakeFromBlock

\* An exception in alloc leaves the blocks as they were; a new segment may
\* stay behind.
LEMMA AllocThrowsInv ==
  ASSUME NEW a, ArenaInv(a), NEW size \in Positive, NEW t \in alloc_throws(a, size)
  PROVE  ArenaInv(t) /\ t.allocated_blocks = a.allocated_blocks
BY AllocateSegment DEF alloc_throws, Enough

-----------------------------------------------------------------------------
(* free                                                                    *)

\* The invariant without what free restores last.
Sound(a) ==
  /\ a \in Arena
  /\ BlocksApart(a) /\ FreeNotUsed(a) /\ Covered(a) /\ Listed(a) /\ SegmentsInside(a)

\* maybe_consolidate_blocks of two free blocks that touch: one free block
\* with the pages of both.
LEMMA Consolidate ==
  ASSUME NEW a, Sound(a), NEW l \in a.free_blocks, NEW r \in a.free_blocks, l[1] + l[2] = r[1],
         NEW both, both = <<l[1], l[2] + r[2]>>
  PROVE  LET x == maybe_consolidate_blocks(a, l, r) IN
         /\ Sound(x) /\ both \in Block
         /\ \A b : b \in x.free_blocks <=> b = both \/ (b \in a.free_blocks /\ b # l /\ b # r)
         /\ x.allocated_blocks = a.allocated_blocks /\ x.segments = a.segments
<1> DEFINE x == maybe_consolidate_blocks(a, l, r)
           F == (a.free_blocks \ {l, r}) \cup {both}
           FS == (a.free_blocks_by_size \ {<<l[2], l[1]>>, <<r[2], r[1]>>}) \cup {<<l[2] + r[2], l[1]>>}
<1>1. /\ a \in Arena /\ a.free_blocks \in SUBSET Block /\ a.allocated_blocks \in SUBSET Block
      /\ l \in Block /\ r \in Block
  BY Containers DEF Sound
<1>2. both \in Block /\ <<l[2] + r[2], l[1]>> \in SizeBlock /\ both[1] = l[1] /\ both[2] = l[2] + r[2]
  BY <1>1 DEF Block, SizeBlock, Positive
<1>3. Has(x, a.segments, F, a.allocated_blocks, FS, a.allocated_blocks_by_size)
  <2>1. F \in SUBSET Block /\ FS \in SUBSET SizeBlock
    BY <1>1, <1>2, Containers
  <2>2. x = [a EXCEPT !.free_blocks_by_size = FS, !.free_blocks = F]
    BY Zenon DEF maybe_consolidate_blocks
  <2>. HIDE DEF F, FS, x
  <2>. QED
    BY <1>1, <2>1, <2>2, FreeReplaced
<1>. HIDE DEF x
<1>4. \A p \in Int : In(p, both) <=> In(p, l) \/ In(p, r)
  BY <1>1, <1>2 DEF In, Block, Positive
<1>5. \A b \in AllBlocks(a) \ {l, r} : Apart(b, both) /\ b # both
  <2>. TAKE b \in AllBlocks(a) \ {l, r}
  <2>1. Apart(b, l) /\ Apart(b, r) /\ b \in Block
    BY <1>1 DEF Sound, BlocksApart, AllBlocks
  <2>. QED
    BY <1>1, <1>2, <2>1 DEF Apart, Block, Positive
<1>6. l \notin a.allocated_blocks /\ r \notin a.allocated_blocks
  BY DEF Sound, FreeNotUsed
<1>7. AllBlocks(x) = (AllBlocks(a) \ {l, r}) \cup {both}
  BY <1>3, <1>6 DEF Has, AllBlocks
<1>8. BlocksApart(x)
  <2>1. \A b, c : Apart(b, c) <=> Apart(c, b)
    BY DEF Apart
  <2>. QED
    BY <1>5, <1>7, <2>1 DEF BlocksApart, Sound
<1>9. FreeNotUsed(x)
  BY <1>3, <1>5, <1>6 DEF FreeNotUsed, Has, AllBlocks, Sound
<1>10. Covered(x)
  BY <1>3, <1>4, <1>7 DEF Covered, Has, AllBlocks, Sound
<1>11. Listed(x)
  <2>1. a.free_blocks_by_size = BySize(a.free_blocks)
    BY DEF Sound, Listed
  <2>2. BySize(a.free_blocks \ {l}) = BySize(a.free_blocks) \ {<<l[2], l[1]>>}
    BY <1>1, BySizeChange
  <2>3. BySize((a.free_blocks \ {l}) \ {r}) = BySize(a.free_blocks \ {l}) \ {<<r[2], r[1]>>}
    <3>1. a.free_blocks \ {l} \in SUBSET Block
      BY <1>1
    <3>. QED
      BY <1>1, <3>1, BySizeChange
  <2>4. BySize(((a.free_blocks \ {l}) \ {r}) \cup {both})
          = BySize((a.free_blocks \ {l}) \ {r}) \cup {<<both[2], both[1]>>}
    <3>1. (a.free_blocks \ {l}) \ {r} \in SUBSET Block
      BY <1>1
    <3>. QED
      BY <1>2, <3>1, BySizeChange
  <2>5. F = ((a.free_blocks \ {l}) \ {r}) \cup {both}
    OBVIOUS
  <2>6. BySize(F) = FS
    <3>1. <<both[2], both[1]>> = <<l[2] + r[2], l[1]>>
      BY <1>2
    <3>2. BySize(F) = ((a.free_blocks_by_size \ {<<l[2], l[1]>>}) \ {<<r[2], r[1]>>}) \cup {<<l[2] + r[2], l[1]>>}
      BY <2>1, <2>2, <2>3, <2>4, <2>5, <3>1, Zenon
    <3>. QED
      BY <3>2
  <2>. QED
    BY <1>3, <2>6 DEF Listed, Has, Sound
<1>. QED
  BY <1>2, <1>3, <1>8, <1>9, <1>10, <1>11 DEF Sound, Has, SegmentsInside, x

\* A free block that ends where b begins is the one before b, and one that
\* begins where b ends is the one after it.
LEMMA Neighbours ==
  ASSUME NEW a, Sound(a), NEW b \in a.free_blocks
  PROVE  /\ \A p \in a.free_blocks : p[1] + p[2] = b[1] => Before(a, b) = {p}
         /\ \A p \in a.free_blocks : b[1] + b[2] = p[1] => After(a, b) = {p}
<1>1. a.free_blocks \subseteq Block
  BY Containers DEF Sound
<1>2. \A p, q \in a.free_blocks : p # q => Apart(p, q)
  BY DEF Sound, BlocksApart, AllBlocks
<1>3. ASSUME NEW p \in a.free_blocks, p[1] + p[2] = b[1] PROVE Before(a, b) = {p}
  <2>1. p[1] < b[1]
    BY <1>1, <1>3 DEF Block, Positive
  <2>2. \A q \in a.free_blocks : q[1] < b[1] => q[1] <= p[1]
    BY <1>1, <1>2, <1>3 DEF Apart, Block, Positive
  <2>3. \A q \in a.free_blocks : q[1] = p[1] => q = p
    BY <1>1, <1>2 DEF Apart, Block, Positive
  <2>4. \A q \in Before(a, b) : q = p
    <3>. TAKE q \in Before(a, b)
    <3>1. q \in a.free_blocks /\ q[1] < b[1] /\ p[1] <= q[1]
      BY <2>1 DEF Before
    <3>2. q[1] = p[1]
      BY <1>1, <2>2, <3>1 DEF Block, Positive
    <3>. QED
      BY <2>3, <3>1, <3>2
  <2>5. p \in Before(a, b)
    BY <2>1, <2>2 DEF Before
  <2>. QED
    BY <2>4, <2>5
<1>4. ASSUME NEW p \in a.free_blocks, b[1] + b[2] = p[1] PROVE After(a, b) = {p}
  <2>1. p[1] > b[1]
    BY <1>1, <1>4 DEF Block, Positive
  <2>2. \A q \in a.free_blocks : q[1] > b[1] => q[1] >= p[1]
    BY <1>1, <1>2, <1>4 DEF Apart, Block, Positive
  <2>3. \A q \in a.free_blocks : q[1] = p[1] => q = p
    BY <1>1, <1>2 DEF Apart, Block, Positive
  <2>4. \A q \in After(a, b) : q = p
    <3>. TAKE q \in After(a, b)
    <3>1. q \in a.free_blocks /\ q[1] > b[1] /\ p[1] >= q[1]
      BY <2>1 DEF After
    <3>2. q[1] = p[1]
      BY <1>1, <2>2, <3>1 DEF Block, Positive
    <3>. QED
      BY <2>3, <3>1, <3>2
  <2>5. p \in After(a, b)
    BY <2>1, <2>2 DEF After
  <2>. QED
    BY <2>4, <2>5
<1>. QED
  BY <1>3, <1>4

\* All free blocks that touch are merged, but for those the operator leaves
\* out: pairs whose first, or whose second, block is b.
SegmentAt(a, p) == \E s \in a.segments : s[1] = p
MergedBut(a, first, second) ==
  \A p, q \in a.free_blocks : p[1] + p[2] = q[1] /\ p \notin first /\ q \notin second => SegmentAt(a, q[1])

\* Merging with the block before: only what follows the result may be left.
LEMMA MergeBefore ==
  ASSUME NEW a, Sound(a), NEW b \in a.free_blocks, MergedBut(a, {b}, {b})
  PROVE  LET m == MergedBefore(a, b) IN
         /\ Sound(m.arena) /\ m.pos \in m.arena.free_blocks /\ MergedBut(m.arena, {m.pos}, {})
         /\ m.arena.allocated_blocks = a.allocated_blocks /\ m.arena.segments = a.segments
<1> DEFINE m == MergedBefore(a, b)
<1>1. a.free_blocks \subseteq Block
  BY Containers DEF Sound
<1>2. CASE \A p \in a.free_blocks : p[1] + p[2] # b[1]
  <2>1. m.arena = a /\ m.pos = b
    <3>1. ASSUME NEW p \in Before(a, b) PROVE p[1] + p[2] # b[1]
      BY <1>2 DEF Before
    <3>. QED
      BY <3>1 DEF MergedBefore, maybe_consolidate_blocks
  <2>2. MergedBut(a, {b}, {})
    BY <1>2 DEF MergedBut
  <2>. HIDE DEF m
  <2>. QED
    BY <2>1, <2>2 DEF m
<1>3. CASE \E p \in a.free_blocks : p[1] + p[2] = b[1]
  <2>1. PICK p \in a.free_blocks : p[1] + p[2] = b[1]
    BY <1>3
  <2> DEFINE both == <<p[1], p[2] + b[2]>>
  <2>2. m.arena = maybe_consolidate_blocks(a, p, b) /\ m.pos = both
    <3>1. Before(a, b) = {p}
      BY <2>1, Neighbours
    <3>. QED
      BY <2>1, <3>1 DEF MergedBefore
  <2>. HIDE DEF m
  <2>3. /\ Sound(m.arena)
        /\ \A c : c \in m.arena.free_blocks <=> c = both \/ (c \in a.free_blocks /\ c # p /\ c # b)
        /\ m.arena.allocated_blocks = a.allocated_blocks /\ m.arena.segments = a.segments
    <3>1. both = <<p[1], p[2] + b[2]>>
      OBVIOUS
    <3>. HIDE DEF both
    <3>. QED
      BY <2>1, <2>2, <3>1, Consolidate
  <2>4. MergedBut(m.arena, {m.pos}, {})
    <3> SUFFICES ASSUME NEW q \in m.arena.free_blocks, NEW r \in m.arena.free_blocks,
                        q[1] + q[2] = r[1], q # both
                 PROVE  SegmentAt(a, r[1])
      BY <2>2, <2>3 DEF MergedBut, SegmentAt
    <3>1. q \in a.free_blocks /\ q # b
      BY <2>3
    <3>2. CASE r = both
      <4>1. q[1] + q[2] = p[1] /\ p # b
        BY <1>1, <2>1, <3>2 DEF Block, Positive
      <4>. QED
        BY <3>1, <3>2, <4>1 DEF MergedBut
    <3>3. CASE r # both
      BY <2>3, <3>1, <3>3 DEF MergedBut
    <3>. QED
      BY <3>2, <3>3
  <2>. QED
    BY <2>2, <2>3, <2>4 DEF m
<1>. QED
  BY <1>2, <1>3

\* Merging with the block after leaves nothing.
LEMMA MergeAfter ==
  ASSUME NEW a, Sound(a), NEW b \in a.free_blocks, MergedBut(a, {b}, {})
  PROVE  LET z == MergedAfter(a, b) IN
         ArenaInv(z) /\ z.allocated_blocks = a.allocated_blocks
<1> DEFINE z == MergedAfter(a, b)
<1>1. a.free_blocks \subseteq Block
  BY Containers DEF Sound
<1>2. CASE \A p \in a.free_blocks : b[1] + b[2] # p[1]
  <2>1. z = a
    <3>1. ASSUME NEW p \in After(a, b) PROVE b[1] + b[2] # p[1]
      BY <1>2 DEF After
    <3>. QED
      BY <3>1 DEF MergedAfter, maybe_consolidate_blocks
  <2>2. Merged(a)
    BY <1>2 DEF Merged, MergedBut, SegmentAt
  <2>. HIDE DEF z
  <2>. QED
    BY <2>1, <2>2 DEF z, ArenaInv, Sound
<1>3. CASE \E p \in a.free_blocks : b[1] + b[2] = p[1]
  <2>1. PICK p \in a.free_blocks : b[1] + b[2] = p[1]
    BY <1>3
  <2> DEFINE both == <<b[1], b[2] + p[2]>>
  <2>2. z = maybe_consolidate_blocks(a, b, p)
    <3>1. After(a, b) = {p}
      BY <2>1, Neighbours
    <3>. QED
      BY <3>1 DEF MergedAfter
  <2>. HIDE DEF z
  <2>3. /\ Sound(z)
        /\ \A c : c \in z.free_blocks <=> c = both \/ (c \in a.free_blocks /\ c # b /\ c # p)
        /\ z.allocated_blocks = a.allocated_blocks /\ z.segments = a.segments
    <3>1. both = <<b[1], b[2] + p[2]>>
      OBVIOUS
    <3>. HIDE DEF both
    <3>. QED
      BY <2>1, <2>2, <3>1, Consolidate
  <2>4. Merged(z)
    <3> SUFFICES ASSUME NEW q \in z.free_blocks, NEW r \in z.free_blocks, q[1] + q[2] = r[1]
                 PROVE  SegmentAt(a, r[1])
      BY <2>3 DEF Merged, SegmentAt
    <3>1. CASE q # both /\ r # both
      BY <2>3, <3>1 DEF MergedBut
    <3>2. CASE q # both /\ r = both
      BY <1>1, <2>3, <3>2 DEF MergedBut
    <3>3. CASE q = both /\ r # both
      <4>1. p[1] + p[2] = r[1] /\ p # b /\ r \in a.free_blocks
        BY <1>1, <2>1, <2>3, <3>3 DEF Block, Positive
      <4>. QED
        BY <4>1 DEF MergedBut
    <3>4. CASE q = both /\ r = both
      BY <1>1, <3>4 DEF Block, Positive
    <3>. QED
      BY <3>1, <3>2, <3>3, <3>4
  <2>. QED
    BY <2>3, <2>4 DEF z, ArenaInv, Sound
<1>. QED
  BY <1>2, <1>3

\* free: the block and nothing else leaves the allocated ones, and is merged
\* with the free blocks on both sides.
LEMMA FreeInv ==
  ASSUME NEW a, ArenaInv(a), NEW b \in a.allocated_blocks
  PROVE  ArenaInv(free(a, b[1])) /\ free(a, b[1]).allocated_blocks = a.allocated_blocks \ {b}
<1> DEFINE t == transfer_to_free(a, b)
           m == MergedBefore(t, b)
<1>1. a \in Arena /\ a.free_blocks \in SUBSET Block /\ a.allocated_blocks \in SUBSET Block /\ b \in Block
  BY Containers DEF ArenaInv
<1>2. (CHOOSE c \in a.allocated_blocks : c[1] = b[1]) = b
  <2>1. \A c \in a.allocated_blocks : c[1] = b[1] => c = b
    BY <1>1 DEF ArenaInv, BlocksApart, AllBlocks, Apart, Block, Positive
  <2>. QED
    BY <2>1
<1>3. Has(t, a.segments, a.free_blocks \cup {b}, a.allocated_blocks \ {b},
          a.free_blocks_by_size \cup {<<b[2], b[1]>>}, a.allocated_blocks_by_size \ {<<b[2], b[1]>>})
  BY <1>1, ToFree
<1>4. free(a, b[1]) = MergedAfter(m.arena, m.pos)
  BY <1>2 DEF free
<1>. HIDE DEF t
<1>5. Sound(t)
  <2>1. AllBlocks(t) = AllBlocks(a)
    BY <1>3 DEF AllBlocks, Has
  <2>2. BlocksApart(t) /\ Covered(t) /\ SegmentsInside(t) /\ FreeNotUsed(t)
    BY <1>3, <2>1 DEF Has, BlocksApart, Covered, SegmentsInside, FreeNotUsed, ArenaInv
  <2>3. /\ BySize(a.free_blocks \cup {b}) = BySize(a.free_blocks) \cup {<<b[2], b[1]>>}
        /\ BySize(a.allocated_blocks \ {b}) = BySize(a.allocated_blocks) \ {<<b[2], b[1]>>}
    BY <1>1, BySizeChange
  <2>4. Listed(t)
    BY <1>3, <2>3 DEF Listed, Has, ArenaInv
  <2>. QED
    BY <1>3, <2>2, <2>4 DEF Sound, Has
<1>6. b \in t.free_blocks /\ MergedBut(t, {b}, {b})
  BY <1>3 DEF Has, MergedBut, Merged, ArenaInv, SegmentAt
<1>7. /\ Sound(m.arena) /\ m.pos \in m.arena.free_blocks /\ MergedBut(m.arena, {m.pos}, {})
      /\ m.arena.allocated_blocks = t.allocated_blocks
  BY <1>5, <1>6, MergeBefore
<1>. HIDE DEF m
<1>. QED
  BY <1>3, <1>4, <1>7, MergeAfter DEF Has
=============================================================================
