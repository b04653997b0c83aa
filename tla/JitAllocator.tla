---------------------------- MODULE JitAllocator ----------------------------
(***************************************************************************)
(* jit_allocator: segments of pages mapped once, cut into free and         *)
(* allocated blocks.  An arena is a record of its five containers; a block *)
(* is <<base, size>> in the maps by address and <<size, base>> in the sets *)
(* by size.  Addresses and sizes are in pages.                             *)
(***************************************************************************)
EXTENDS Integers, FiniteSets

CONSTANTS
  AddressPages,   \* pages of the address space segments are mapped in
  segment_size    \* the least size of a segment, in pages

ASSUME ArenaAssumption == AddressPages \in Nat /\ segment_size \in Nat \ {0}

Addresses == 0..(AddressPages - 1)
PagesOf(base, size) == base..(base + size - 1)

NoArena == [segments |-> {}, free_blocks |-> {}, allocated_blocks |-> {},
            free_blocks_by_size |-> {}, allocated_blocks_by_size |-> {}]

\* What a set by size holds when it lists the blocks of a map by address.
BySize(blocks) == {<<b[2], b[1]>> : b \in blocks}

\* by_size: the smallest that is large enough, the lowest of those.
lower_bound(blocks, size) ==
  CHOOSE b \in blocks :
    /\ b[1] >= size
    /\ \A c \in blocks : c[1] >= size => b[1] < c[1] \/ (b[1] = c[1] /\ b[2] <= c[2])

\* mmap finds size pages nobody uses, anywhere (external).
Mapped(a) == UNION {PagesOf(s[1], s[2]) : s \in a.segments}
MapAt(a, size) == {base \in Addresses : base + size <= AddressPages /\ PagesOf(base, size) \cap Mapped(a) = {}}

SegmentSize(min_size) == IF min_size > segment_size THEN min_size ELSE segment_size
allocate_segment(a, min_size, base) ==
  LET size == SegmentSize(min_size) IN
  [a EXCEPT !.segments = @ \cup {<<base, size>>},
            !.free_blocks_by_size = @ \cup {<<size, base>>},
            !.free_blocks = @ \cup {<<base, size>>}]

\* Mutant: the rest of a split block is lost.
split_block_Loses(a, b, size) ==
  [a EXCEPT !.free_blocks_by_size = (@ \ {b}) \cup {<<size, b[2]>>},
            !.free_blocks = (@ \ {<<b[2], b[1]>>}) \cup {<<b[2], size>>}]
\* The block keeps its address; the rest becomes a block of its own.
split_block(a, b, size) ==
  LET rest == <<b[1] - size, b[2] + size>> IN
  [a EXCEPT !.free_blocks_by_size = (@ \ {b}) \cup {<<size, b[2]>>, rest},
            !.free_blocks = (@ \ {<<b[2], b[1]>>}) \cup {<<b[2], size>>, <<rest[2], rest[1]>>}]

transfer_to_allocated(a, base, size) ==
  [a EXCEPT !.free_blocks = @ \ {<<base, size>>}, !.allocated_blocks = @ \cup {<<base, size>>},
            !.free_blocks_by_size = @ \ {<<size, base>>},
            !.allocated_blocks_by_size = @ \cup {<<size, base>>}]

Large(a, size) == {b \in a.free_blocks_by_size : b[1] >= size}
\* What the search for size pages may start from: a new segment, when no
\* free block is large enough.
Enough(a, size) ==
  IF Large(a, size) # {} THEN {a}
  ELSE {allocate_segment(a, size, base) : base \in MapAt(a, SegmentSize(size))}

\* alloc: the arena after it and the block it returns.
TakeFrom(a, size) ==
  LET best == lower_bound(a.free_blocks_by_size, size)
      cut == IF best[1] > size THEN split_block(a, best, size) ELSE a IN
  [arena |-> transfer_to_allocated(cut, best[2], size), block |-> <<best[2], size>>]
alloc(a, size) == {TakeFrom(b, size) : b \in Enough(a, size)}

\* An insertion or mmap that throws: each scope guard takes back what was
\* inserted, only a segment that was completed stays.
alloc_throws(a, size) ==
  (IF Large(a, size) = {} THEN {a} ELSE {})
    \cup {b \in Enough(a, size) : lower_bound(b.free_blocks_by_size, size)[1] > size}

maybe_consolidate_blocks(a, lhs, rhs) ==
  IF lhs[1] + lhs[2] = rhs[1]
  THEN [a EXCEPT !.free_blocks_by_size = (@ \ {<<lhs[2], lhs[1]>>, <<rhs[2], rhs[1]>>})
                                           \cup {<<lhs[2] + rhs[2], lhs[1]>>},
                 !.free_blocks = (@ \ {lhs, rhs}) \cup {<<lhs[1], lhs[2] + rhs[2]>>}]
  ELSE a

\* The free block next to b in the map by address, if there is one.
Before(a, b) == {p \in a.free_blocks : p[1] < b[1] /\ \A q \in a.free_blocks : q[1] < b[1] => q[1] <= p[1]}
After(a, b)  == {p \in a.free_blocks : p[1] > b[1] /\ \A q \in a.free_blocks : q[1] > b[1] => q[1] >= p[1]}
MergedBefore(a, b) ==
  IF Before(a, b) = {} THEN [arena |-> a, pos |-> b]
  ELSE LET prev == CHOOSE p \in Before(a, b) : TRUE IN
       [arena |-> maybe_consolidate_blocks(a, prev, b),
        pos |-> IF prev[1] + prev[2] = b[1] THEN <<prev[1], prev[2] + b[2]>> ELSE b]
MergedAfter(a, b) ==
  IF After(a, b) = {} THEN a ELSE maybe_consolidate_blocks(a, b, CHOOSE p \in After(a, b) : TRUE)

transfer_to_free(a, b) ==
  [a EXCEPT !.allocated_blocks = @ \ {b}, !.free_blocks = @ \cup {b},
            !.allocated_blocks_by_size = @ \ {<<b[2], b[1]>>},
            !.free_blocks_by_size = @ \cup {<<b[2], b[1]>>}]
\* Mutant: a freed block is merged with the block before it only.
free_MergesOneSide(a, base) ==
  LET b == CHOOSE c \in a.allocated_blocks : c[1] = base IN
  MergedBefore(transfer_to_free(a, b), b).arena
free(a, base) ==
  LET b == CHOOSE c \in a.allocated_blocks : c[1] = base
      m == MergedBefore(transfer_to_free(a, b), b) IN
  MergedAfter(m.arena, m.pos)
=============================================================================
