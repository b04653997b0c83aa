------------------------- MODULE FunctionRunProofs -------------------------
(***************************************************************************)
(* The code FunctionParser writes, for any opcodes, types and bounds: it   *)
(* fits in what was allocated for it, and every branch is resolved to the  *)
(* start of an opcode.  The tracker counts the operands there are.  A run  *)
(* of the code finds at every address the operands the tracker counted for *)
(* it, so it stays in the code and within maximum_operand_depth.           *)
(***************************************************************************)
EXTENDS FunctionRun, SequenceTheorems, FiniteSetTheorems, WellFoundedInduction, TLAPS

IsSeq(s) == \E S : s \in Seq(S)

\* The fields of an instruction and of a scope that are written after they are made.
IsInstr(x) ==
  /\ {"op", "arg", "pc", "pop", "keep", "table"} \subseteq DOMAIN x
  /\ \A e \in DOMAIN x.table : e # 0 /\ {"pc", "pop", "keep"} \subseteq DOMAIN x.table[e]
IsScope(x) ==
  /\ {"target", "relocations", "is_if"} \subseteq DOMAIN x
  /\ x.is_if => x.target = NoTarget

IsCode(c)   == IsSeq(c) /\ \A i \in DOMAIN c : IsInstr(c[i])
IsScopes(p) == IsSeq(p) /\ \A j \in DOMAIN p : IsScope(p[j])

WellMade(c, p, s) == IsCode(c) /\ IsScopes(p) /\ IsSeq(s)

\* Branch e of the instruction c[i], 0 for its own, and where it leads.
BranchOps == {"if", "else", "br", "br_if"}
IsBranch(c, i, e) == (e = 0 /\ c[i].op \in BranchOps) \/ e \in DOMAIN c[i].table
Goal(c, i, e) == IF e = 0 THEN c[i].pc ELSE c[i].table[e].pc

\* It leads where an opcode begins, ahead or at a loop, or to the opcode that
\* comes next, or some open scope will resolve it.
LoopAt(s, t) == \E n \in DOMAIN s : s[n].op = "loop" /\ t = s[n].pc
Landed(s, i, t) == \E n \in DOMAIN s : t = s[n].pc /\ (t >= i \/ s[n].op = "loop")
Waits(p, i, e) == \E j \in DOMAIN p : p[j].target = NoTarget /\ AtEntry(i - 1, e) \in p[j].relocations
Led(c, p, s) ==
  \A i \in DOMAIN c : \A e : IsBranch(c, i, e) =>
    \/ Landed(s, i, Goal(c, i, e))
    \/ p # <<>> /\ Goal(c, i, e) = Len(c)
    \/ Waits(p, i, e)

TargetsKnown(p, s) == \A j \in DOMAIN p : p[j].target = NoTarget \/ LoopAt(s, p[j].target)

Resolving(c, p, s) == WellMade(c, p, s) /\ TargetsKnown(p, s) /\ Led(c, p, s)

-----------------------------------------------------------------------------
(* Sequences of anything.                                                  *)

\* A sequence has a length, which is its domain.
LEMMA Lengths ==
  ASSUME NEW s, IsSeq(s)
  PROVE  Len(s) \in Nat /\ DOMAIN s = 1..Len(s)
<1>1. PICK S : s \in Seq(S)
  BY DEF IsSeq
<1>. QED
  BY <1>1

\* Appending keeps what was there.
LEMMA Appended ==
  ASSUME NEW s, IsSeq(s), NEW x
  PROVE  /\ IsSeq(Append(s, x))
         /\ Len(Append(s, x)) = Len(s) + 1
         /\ DOMAIN Append(s, x) = 1..(Len(s) + 1)
         /\ Append(s, x)[Len(s) + 1] = x
         /\ \A i \in DOMAIN s : i \in DOMAIN Append(s, x) /\ Append(s, x)[i] = s[i]
<1>1. PICK S : s \in Seq(S)
  BY DEF IsSeq
<1>. DEFINE T == S \cup {x}
<1>2. s \in Seq(T) /\ x \in T
  BY <1>1
<1>. HIDE DEF T
<1>3. Append(s, x) \in Seq(T) /\ Len(Append(s, x)) = Len(s) + 1
  BY <1>2
<1>4. Len(s) \in Nat /\ DOMAIN s = 1..Len(s)
  BY <1>1
<1>5. DOMAIN Append(s, x) = 1..(Len(s) + 1)
  BY <1>3
<1>6. Append(s, x)[Len(s) + 1] = x
  BY <1>2, <1>4
<1>7. \A i \in 1..Len(s) : Append(s, x)[i] = s[i]
  BY <1>2, <1>4
<1>. QED
  BY <1>3, <1>4, <1>5, <1>6, <1>7 DEF IsSeq

\* A function on 1..n is a sequence.
LEMMA Listed ==
  ASSUME NEW n \in Nat, NEW f, f = [i \in 1..n |-> f[i]]
  PROVE  IsSeq(f) /\ Len(f) = n /\ DOMAIN f = 1..n
<1>. DEFINE S == {f[i] : i \in 1..n}
<1>1. f \in [1..n -> S]
  OBVIOUS
<1>. HIDE DEF S
<1>2. f \in Seq(S)
  BY <1>1
<1>. QED
  BY <1>1, <1>2 DEF IsSeq

\* The front of a sequence is the sequence without its last element.
LEMMA Shortened ==
  ASSUME NEW s, IsSeq(s), s # <<>>
  PROVE  /\ IsSeq(Front(s)) /\ Len(s) \in Nat \ {0} /\ Len(Front(s)) = Len(s) - 1
         /\ DOMAIN Front(s) = 1..(Len(s) - 1)
         /\ Last(s) = s[Len(s)] /\ Len(s) \in DOMAIN s
         /\ \A i \in DOMAIN Front(s) : i \in DOMAIN s /\ Front(s)[i] = s[i]
<1>1. PICK S : s \in Seq(S)
  BY DEF IsSeq
<1>2. Len(s) \in Nat \ {0} /\ DOMAIN s = 1..Len(s)
  BY <1>1
<1>3. /\ SubSeq(s, 1, Len(s) - 1) \in Seq(S)
      /\ Len(SubSeq(s, 1, Len(s) - 1)) = Len(s) - 1
      /\ \A i \in 1..(Len(s) - 1) : SubSeq(s, 1, Len(s) - 1)[i] = s[i]
  BY <1>1, <1>2
<1>4. DOMAIN SubSeq(s, 1, Len(s) - 1) = 1..(Len(s) - 1)
  BY <1>3
<1>5. Front(s) = SubSeq(s, 1, Len(s) - 1) /\ Last(s) = s[Len(s)]
  BY DEF Front, Last
<1>6. IsSeq(Front(s))
  BY <1>3, <1>5 DEF IsSeq
<1>7. Len(s) \in DOMAIN s /\ \A i \in 1..(Len(s) - 1) : i \in DOMAIN s
  BY <1>2
<1>. QED
  BY <1>2, <1>3, <1>4, <1>5, <1>6, <1>7, Zenon

\* Concatenation.
LEMMA Joined ==
  ASSUME NEW s, IsSeq(s), NEW r, IsSeq(r)
  PROVE  /\ IsSeq(s \o r)
         /\ Len(s \o r) = Len(s) + Len(r)
         /\ DOMAIN (s \o r) = 1..(Len(s) + Len(r))
         /\ \A i \in DOMAIN s : i \in DOMAIN (s \o r) /\ (s \o r)[i] = s[i]
         /\ \A i \in 1..(Len(s) + Len(r)) :
              i \notin DOMAIN s => i - Len(s) \in DOMAIN r /\ (s \o r)[i] = r[i - Len(s)]
<1>1. PICK S : s \in Seq(S)
  BY DEF IsSeq
<1>2. PICK R : r \in Seq(R)
  BY DEF IsSeq
<1>. DEFINE T == S \cup R
<1>3. s \in Seq(T) /\ r \in Seq(T)
  BY <1>1, <1>2
<1>. HIDE DEF T
<1>4. /\ Len(s) \in Nat /\ DOMAIN s = 1..Len(s)
      /\ Len(r) \in Nat /\ DOMAIN r = 1..Len(r)
  BY <1>3
<1>5. /\ s \o r \in Seq(T)
      /\ Len(s \o r) = Len(s) + Len(r)
      /\ \A i \in 1..Len(s) : (s \o r)[i] = s[i]
      /\ \A i \in (Len(s) + 1)..(Len(s) + Len(r)) : (s \o r)[i] = r[i - Len(s)]
  BY <1>3, ConcatProperties
<1>6. DOMAIN (s \o r) = 1..(Len(s) + Len(r))
  BY <1>5
<1>. QED
  BY <1>4, <1>5, <1>6 DEF IsSeq

-----------------------------------------------------------------------------
(* Branches.                                                               *)

\* What fix_branch changes of an instruction: the branches given, and they
\* lead to the target.
LEMMA FixedAt ==
  ASSUME NEW c, NEW bs, NEW t, NEW d, d = fix_branch(c, bs, t), NEW i \in DOMAIN c, IsInstr(c[i])
  PROVE  /\ DOMAIN d = DOMAIN c
         /\ IsInstr(d[i])
         /\ d[i].op = c[i].op /\ d[i].arg = c[i].arg /\ d[i].pop = c[i].pop /\ d[i].keep = c[i].keep
         /\ d[i].pc = IF At(i - 1) \in bs THEN t ELSE c[i].pc
         /\ DOMAIN d[i].table = DOMAIN c[i].table
         /\ \A e \in DOMAIN c[i].table :
              /\ d[i].table[e].pc = IF AtEntry(i - 1, e) \in bs THEN t ELSE c[i].table[e].pc
              /\ d[i].table[e].pop = c[i].table[e].pop /\ d[i].table[e].keep = c[i].table[e].keep
<1>. DEFINE x == c[i]
            y == [x EXCEPT !.pc = IF At(i - 1) \in bs THEN t ELSE @,
                  !.table = [e \in DOMAIN @ |-> IF AtEntry(i - 1, e) \in bs
                                                THEN [@[e] EXCEPT !.pc = t] ELSE @[e]]]
<1>1. DOMAIN d = DOMAIN c /\ d[i] = y
  BY DEF fix_branch
<1>2. IsInstr(x)
  OBVIOUS
<1>. HIDE DEF x
<1>3. /\ IsInstr(y)
      /\ y.op = x.op /\ y.arg = x.arg /\ y.pop = x.pop /\ y.keep = x.keep
      /\ y.pc = IF At(i - 1) \in bs THEN t ELSE x.pc
      /\ DOMAIN y.table = DOMAIN x.table
      /\ \A e \in DOMAIN x.table :
           /\ y.table[e].pc = IF AtEntry(i - 1, e) \in bs THEN t ELSE x.table[e].pc
           /\ y.table[e].pop = x.table[e].pop /\ y.table[e].keep = x.table[e].keep
  BY <1>2 DEF IsInstr
<1>. QED
  BY <1>1, <1>3 DEF x

\* Every branch of the resolved code is one of the branches given, and leads to
\* the target, or leads where it did.
LEMMA Fixed ==
  ASSUME NEW c, IsCode(c), NEW bs, NEW t
  PROVE  LET d == fix_branch(c, bs, t) IN
         /\ IsCode(d) /\ Len(d) = Len(c) /\ DOMAIN d = DOMAIN c
         /\ \A i \in DOMAIN c : \A e : IsBranch(d, i, e) =>
              /\ IsBranch(c, i, e)
              /\ Goal(d, i, e) = IF AtEntry(i - 1, e) \in bs THEN t ELSE Goal(c, i, e)
<1>. DEFINE d == fix_branch(c, bs, t)
<1>1. Len(c) \in Nat /\ DOMAIN c = 1..Len(c)
  BY Lengths DEF IsCode
<1>2. d = [i \in 1..Len(c) |-> d[i]]
  BY <1>1 DEF fix_branch
<1>3. IsSeq(d) /\ Len(d) = Len(c) /\ DOMAIN d = DOMAIN c
  <2>. HIDE DEF d
  <2>. QED
    BY <1>1, <1>2, Listed
<1>4. ASSUME NEW i \in DOMAIN c
      PROVE  /\ IsInstr(d[i])
             /\ \A e : IsBranch(d, i, e) =>
                  /\ IsBranch(c, i, e)
                  /\ Goal(d, i, e) = IF AtEntry(i - 1, e) \in bs THEN t ELSE Goal(c, i, e)
  <2>1. /\ IsInstr(c[i]) /\ IsInstr(d[i])
        /\ d[i].op = c[i].op
        /\ d[i].pc = IF At(i - 1) \in bs THEN t ELSE c[i].pc
        /\ DOMAIN d[i].table = DOMAIN c[i].table
        /\ \A e \in DOMAIN c[i].table :
             d[i].table[e].pc = IF AtEntry(i - 1, e) \in bs THEN t ELSE c[i].table[e].pc
    <3>1. IsInstr(c[i])
      BY DEF IsCode
    <3>2. d = fix_branch(c, bs, t)
      OBVIOUS
    <3>. HIDE DEF d
    <3>. QED
      BY ONLY <3>1, <3>2, <1>4, FixedAt
  <2>2. \A e \in DOMAIN c[i].table : e # 0
    BY <2>1 DEF IsInstr
  <2>. HIDE DEF d
  <2>. QED
    BY <2>1, <2>2 DEF IsBranch, Goal, At
<1>. QED
  BY <1>3, <1>4 DEF IsCode

\* One more opcode: branches keep their goal and what they wait for, or lead to
\* the new opcode or the next one, and new ones lead to a loop or wait.
LEMMA Advanced ==
  ASSUME NEW c, NEW p, NEW s, Resolving(c, p, s),
         NEW c2, NEW p2, NEW x, x.pc = Len(c),
         WellMade(c2, p2, Append(s, x)), TargetsKnown(p2, Append(s, x)),
         \A i \in DOMAIN c : \A e : IsBranch(c2, i, e) =>
           /\ IsBranch(c, i, e)
           /\ \/ Goal(c2, i, e) = Goal(c, i, e) /\ (Waits(p, i, e) => Waits(p2, i, e))
              \/ Goal(c2, i, e) = Len(c)
              \/ p2 # <<>> /\ Goal(c2, i, e) = Len(c2),
         \A i \in DOMAIN c2 : i \notin DOMAIN c => \A e : IsBranch(c2, i, e) =>
           Waits(p2, i, e) \/ LoopAt(Append(s, x), Goal(c2, i, e))
  PROVE  Resolving(c2, p2, Append(s, x))
<1>. DEFINE a == Append(s, x)
<1>1. IsSeq(s) /\ IsSeq(c)
  BY DEF Resolving, WellMade, IsCode
<1>2. Len(s) + 1 \in DOMAIN a /\ a[Len(s) + 1] = x
  BY <1>1, Appended, Lengths
<1>3. \A n \in DOMAIN s : n \in DOMAIN a /\ a[n] = s[n]
  BY <1>1, Appended
<1>4. Len(c) \in Nat /\ DOMAIN c = 1..Len(c)
  BY <1>1, Lengths
<1>. SUFFICES ASSUME NEW i \in DOMAIN c2, NEW e, IsBranch(c2, i, e)
              PROVE  \/ Landed(a, i, Goal(c2, i, e))
                     \/ p2 # <<>> /\ Goal(c2, i, e) = Len(c2)
                     \/ Waits(p2, i, e)
  BY DEF Resolving, Led
<1>. HIDE DEF a
<1>5. CASE i \notin DOMAIN c
  BY <1>5 DEF LoopAt, Landed, a
<1>6. CASE i \in DOMAIN c
  <2>1. ASSUME NEW t, t = Len(c) PROVE Landed(a, i, t)
    BY <2>1, <1>2, <1>4, <1>6 DEF Landed
  <2>2. ASSUME NEW t, Landed(s, i, t) PROVE Landed(a, i, t)
    BY <2>2, <1>3 DEF Landed
  <2>3. CASE Goal(c2, i, e) = Goal(c, i, e) /\ (Waits(p, i, e) => Waits(p2, i, e))
    <3>1. \/ Landed(s, i, Goal(c, i, e))
          \/ Goal(c, i, e) = Len(c)
          \/ Waits(p, i, e)
      BY <1>6 DEF Resolving, Led
    <3>. QED
      BY <2>1, <2>2, <2>3, <3>1
  <2>. QED
    BY <1>6, <2>1, <2>3
<1>. QED
  BY <1>5, <1>6

\* One more instruction: the others are as they were.
LEMMA Written ==
  ASSUME NEW c, IsCode(c), NEW y, IsInstr(y)
  PROVE  LET d == Append(c, y) IN
         /\ IsCode(d) /\ Len(d) = Len(c) + 1
         /\ \A i \in DOMAIN c : \A e : IsBranch(d, i, e) =>
              IsBranch(c, i, e) /\ Goal(d, i, e) = Goal(c, i, e)
         /\ \A i \in DOMAIN d : i \notin DOMAIN c => i - 1 = Len(c) /\ d[i] = y
<1>. DEFINE d == Append(c, y)
<1>1. /\ IsSeq(d) /\ Len(d) = Len(c) + 1 /\ DOMAIN d = 1..(Len(c) + 1)
      /\ d[Len(c) + 1] = y
      /\ \A i \in DOMAIN c : i \in DOMAIN d /\ d[i] = c[i]
  BY Appended DEF IsCode
<1>2. Len(c) \in Nat /\ DOMAIN c = 1..Len(c)
  BY Lengths DEF IsCode
<1>. HIDE DEF d
<1>3. \A i \in DOMAIN d : i \notin DOMAIN c => i - 1 = Len(c) /\ d[i] = y
  BY <1>1, <1>2
<1>4. \A i \in DOMAIN d : IsInstr(d[i])
  BY <1>1, <1>3 DEF IsCode
<1>5. \A i \in DOMAIN c : \A e : IsBranch(d, i, e) =>
              IsBranch(c, i, e) /\ Goal(d, i, e) = Goal(c, i, e)
  BY <1>1 DEF IsBranch, Goal
<1>. QED
  BY <1>1, <1>3, <1>4, <1>5 DEF IsCode, d

\* One more opcode: known targets stay known.
LEMMA StillKnown ==
  ASSUME NEW s, IsSeq(s), NEW x
  PROVE  /\ \A t : LoopAt(s, t) => LoopAt(Append(s, x), t)
         /\ \A p : TargetsKnown(p, s) => TargetsKnown(p, Append(s, x))
<1>1. \A i \in DOMAIN s : i \in DOMAIN Append(s, x) /\ Append(s, x)[i] = s[i]
  BY Appended
<1>. DEFINE a == Append(s, x)
<1>. HIDE DEF a
<1>2. \A t : LoopAt(s, t) => LoopAt(a, t)
  BY <1>1 DEF LoopAt, a
<1>. QED
  BY <1>2 DEF TargetsKnown, a

\* An instruction that is no branch (emit_nop, emit_drop, ...).
LEMMA PlainWritten ==
  ASSUME NEW c, NEW p, NEW s, Resolving(c, p, s), NEW x, x.pc = Len(c),
         NEW y, IsInstr(y), y.op \notin BranchOps, DOMAIN y.table = {}
  PROVE  Resolving(Append(c, y), p, Append(s, x))
<1>. DEFINE d == Append(c, y)
            a == Append(s, x)
<1>1. IsCode(c) /\ IsScopes(p) /\ IsSeq(s) /\ TargetsKnown(p, s)
  BY DEF Resolving, WellMade
<1>2. /\ IsCode(d)
      /\ \A i \in DOMAIN c : \A e : IsBranch(d, i, e) =>
           IsBranch(c, i, e) /\ Goal(d, i, e) = Goal(c, i, e)
      /\ \A i \in DOMAIN d : i \notin DOMAIN c => d[i] = y
  BY <1>1, Written
<1>3. IsSeq(a) /\ TargetsKnown(p, a)
  BY ONLY <1>1, Appended, StillKnown
<1>. HIDE DEF d, a
<1>4. WellMade(d, p, a)
  BY <1>1, <1>2, <1>3 DEF WellMade
<1>5. \A i \in DOMAIN d : i \notin DOMAIN c => \A e : ~IsBranch(d, i, e)
  BY <1>2 DEF IsBranch
<1>. QED
  BY <1>2, <1>3, <1>4, <1>5, Advanced DEF a, d

\* handle_branch_target: scopes keep their target and what waits for them, and
\* the new branches wait for the labels whose target is not known.
LEMMA ScopesBranched ==
  ASSUME IsScopes(pcs), NEW labels
  PROVE  LET q == BranchScopes(labels) IN
         /\ IsScopes(q)
         /\ \A s : TargetsKnown(pcs, s) => TargetsKnown(q, s)
         /\ \A i, e : Waits(pcs, i, e) => Waits(q, i, e)
         /\ \A i, e : /\ AtEntry(i - 1, e) \in DOMAIN labels
                      /\ labels[AtEntry(i - 1, e)] \in Scopes
                      /\ Label(labels[AtEntry(i - 1, e)]).target = NoTarget
                      => Waits(q, i, e)
<1>. DEFINE q == BranchScopes(labels)
<1>1. Len(pcs) \in Nat /\ DOMAIN pcs = 1..Len(pcs)
  BY Lengths DEF IsScopes
<1>2. q = [j \in 1..Len(pcs) |-> q[j]]
  BY <1>1 DEF BranchScopes
<1>3. IsSeq(q) /\ DOMAIN q = DOMAIN pcs
  <2>. HIDE DEF q
  <2>. QED
    BY <1>1, <1>2, Listed
<1>4. ASSUME NEW j \in DOMAIN pcs
      PROVE  /\ IsScope(q[j])
             /\ q[j].target = pcs[j].target
             /\ pcs[j].relocations \subseteq q[j].relocations
             /\ \A b \in DOMAIN labels : pcs[j].target = NoTarget /\ labels[b] = Len(pcs) - j =>
                  b \in q[j].relocations
  <2>. DEFINE z == pcs[j]
              more == {b \in DOMAIN labels : labels[b] = Len(pcs) - j}
  <2>1. IsScope(z)
    BY DEF IsScopes
  <2>2. q[j] = IF z.target # NoTarget THEN z
               ELSE [z EXCEPT !.relocations = @ \cup more]
    BY DEF BranchScopes
  <2>. HIDE DEF z, more, q
  <2>3. /\ IsScope(q[j])
        /\ q[j].target = z.target
        /\ z.relocations \subseteq q[j].relocations
        /\ z.target = NoTarget => more \subseteq q[j].relocations
    BY <2>1, <2>2 DEF IsScope
  <2>. QED
    BY <2>3 DEF z, more
<1>. HIDE DEF q
<1>5. IsScopes(q)
  BY <1>3, <1>4 DEF IsScopes
<1>6. \A s : TargetsKnown(pcs, s) => TargetsKnown(q, s)
  BY <1>3, <1>4 DEF TargetsKnown
<1>7. \A i, e : Waits(pcs, i, e) => Waits(q, i, e)
  BY <1>3, <1>4 DEF Waits
<1>8. ASSUME NEW i, NEW e, AtEntry(i - 1, e) \in DOMAIN labels,
             labels[AtEntry(i - 1, e)] \in Scopes,
             Label(labels[AtEntry(i - 1, e)]).target = NoTarget
      PROVE  Waits(q, i, e)
  <2>. DEFINE b == AtEntry(i - 1, e)
              l == labels[b]
              j == Len(pcs) - l
  <2>1. j \in DOMAIN pcs /\ l = Len(pcs) - j
    BY <1>1, <1>8 DEF Scopes
  <2>2. pcs[j].target = NoTarget
    BY <1>8 DEF Label
  <2>3. b \in DOMAIN labels /\ labels[b] = Len(pcs) - j
    BY <1>8, <2>1
  <2>. HIDE DEF j
  <2>4. b \in q[j].relocations
    BY <1>4, <2>1, <2>2, <2>3
  <2>. QED
    BY <1>3, <1>4, <2>1, <2>2, <2>4 DEF Waits
<1>. QED
  BY <1>5, <1>6, <1>7, <1>8 DEF q

\* The branches of c are those of d, too.
Continues(c, d) ==
  \A i \in DOMAIN c : \A e : IsBranch(d, i, e) => IsBranch(c, i, e) /\ Goal(d, i, e) = Goal(c, i, e)

\* Branches to the labels given (emit_br, emit_br_if, emit_br_table).
LEMMA BranchWritten ==
  ASSUME Resolving(code, pcs, src), NEW x, x.pc = Len(code),
         NEW d, IsCode(d), Continues(code, d), NEW labels,
         \A i \in DOMAIN d : i \notin DOMAIN code => \A e : IsBranch(d, i, e) =>
           /\ AtEntry(i - 1, e) \in DOMAIN labels
           /\ labels[AtEntry(i - 1, e)] \in Scopes
           /\ Goal(d, i, e) = KnownTarget(labels[AtEntry(i - 1, e)])
  PROVE  Resolving(d, BranchScopes(labels), Append(src, x))
<1>. DEFINE q == BranchScopes(labels)
            a == Append(src, x)
<1>1. IsCode(code) /\ IsScopes(pcs) /\ IsSeq(src) /\ TargetsKnown(pcs, src)
  BY DEF Resolving, WellMade
<1>2. /\ IsScopes(q)
      /\ \A s : TargetsKnown(pcs, s) => TargetsKnown(q, s)
      /\ \A i, e : Waits(pcs, i, e) => Waits(q, i, e)
      /\ \A i, e : /\ AtEntry(i - 1, e) \in DOMAIN labels
                   /\ labels[AtEntry(i - 1, e)] \in Scopes
                   /\ Label(labels[AtEntry(i - 1, e)]).target = NoTarget
                   => Waits(q, i, e)
  BY <1>1, ScopesBranched
<1>3. IsSeq(a) /\ TargetsKnown(pcs, a)
  BY ONLY <1>1, Appended, StillKnown
<1>. HIDE DEF q, a
<1>4. WellMade(d, q, a) /\ TargetsKnown(q, a)
  BY <1>2, <1>3 DEF WellMade
<1>5. ASSUME NEW l \in Scopes, Label(l).target # NoTarget
      PROVE  LoopAt(a, KnownTarget(l))
  <2>. DEFINE j == Len(pcs) - l
  <2>1. j \in DOMAIN pcs
    BY <1>1, Lengths DEF Scopes, IsScopes
  <2>2. pcs[j].target # NoTarget /\ KnownTarget(l) = pcs[j].target
    BY <1>5 DEF KnownTarget, Label
  <2>. HIDE DEF j
  <2>. QED
    BY <1>3, <2>1, <2>2 DEF TargetsKnown
<1>6. ASSUME NEW i \in DOMAIN d, i \notin DOMAIN code, NEW e, IsBranch(d, i, e)
      PROVE  Waits(q, i, e) \/ LoopAt(a, Goal(d, i, e))
  <2>. DEFINE b == AtEntry(i - 1, e)
  <2>1. b \in DOMAIN labels /\ labels[b] \in Scopes /\ Goal(d, i, e) = KnownTarget(labels[b])
    BY <1>6
  <2>2. CASE Label(labels[b]).target = NoTarget
    BY <1>2, <2>1, <2>2
  <2>3. CASE Label(labels[b]).target # NoTarget
    BY <1>5, <2>1, <2>3
  <2>. QED
    BY <2>2, <2>3
<1>. QED
  BY <1>2, <1>4, <1>6, Advanced DEF a, q, Continues

\* A scope more: it waits for no target, or is the loop just begun (emit_block,
\* emit_loop, emit_if).
LEMMA ScopeOpened ==
  ASSUME NEW c, NEW p, NEW s, Resolving(c, p, s), NEW x, x.pc = Len(c),
         NEW d, IsCode(d), Continues(c, d),
         NEW z, IsScope(z), z.target = NoTarget \/ (x.op = "loop" /\ z.target = Len(c)),
         \A i \in DOMAIN d : i \notin DOMAIN c => \A e : IsBranch(d, i, e) =>
           z.target = NoTarget /\ AtEntry(i - 1, e) \in z.relocations
  PROVE  Resolving(d, Append(p, z), Append(s, x))
<1>. DEFINE q == Append(p, z)
            a == Append(s, x)
<1>1. IsCode(c) /\ IsScopes(p) /\ IsSeq(s) /\ TargetsKnown(p, s)
  BY DEF Resolving, WellMade
<1>2. /\ IsSeq(q) /\ DOMAIN q = 1..(Len(p) + 1) /\ q[Len(p) + 1] = z
      /\ \A j \in DOMAIN p : j \in DOMAIN q /\ q[j] = p[j]
  BY <1>1, Appended DEF IsScopes
<1>3. Len(p) \in Nat /\ DOMAIN p = 1..Len(p)
  BY <1>1, Lengths DEF IsScopes
<1>4. /\ IsSeq(a) /\ TargetsKnown(p, a) /\ Len(s) + 1 \in DOMAIN a /\ a[Len(s) + 1] = x
  BY ONLY <1>1, Appended, StillKnown, Lengths
<1>. HIDE DEF q, a
<1>5. \A j \in DOMAIN q : j \in DOMAIN p \/ j = Len(p) + 1
  BY <1>2, <1>3
<1>6. IsScopes(q)
  BY <1>1, <1>2, <1>5 DEF IsScopes
<1>7. z.target = NoTarget \/ LoopAt(a, z.target)
  BY <1>4 DEF LoopAt
<1>8. TargetsKnown(q, a)
  BY <1>2, <1>4, <1>5, <1>7 DEF TargetsKnown
<1>9. WellMade(d, q, a)
  BY <1>4, <1>6 DEF WellMade
<1>10. \A i, e : Waits(p, i, e) => Waits(q, i, e)
  BY <1>2 DEF Waits
<1>11. Len(p) + 1 \in DOMAIN q
  BY <1>2, <1>3
<1>12. \A i, e : z.target = NoTarget /\ AtEntry(i - 1, e) \in z.relocations => Waits(q, i, e)
  BY <1>2, <1>11 DEF Waits
<1>. QED
  BY <1>8, <1>9, <1>10, <1>12, Advanced DEF a, q, Continues

\* The else of an if: its branch leads past the new instruction, which waits in
\* its place (emit_else).
LEMMA ElseWritten ==
  ASSUME Resolving(code, pcs, src), pcs # <<>>, Last(pcs).is_if, NEW x, x.pc = Len(code)
  PROVE  LET z == Last(pcs) IN
         Resolving(fix_branch(Append(code, Instr("else")), {FirstOf(z.relocations)}, Here + 1),
                   Append(Front(pcs), ElseScope(z)), Append(src, x))
<1>. DEFINE z == Last(pcs)
            f == FirstOf(z.relocations)
            n == Len(pcs)
            y == Instr("else")
            c0 == Append(code, y)
            d == fix_branch(c0, {f}, Here + 1)
            q == Append(Front(pcs), ElseScope(z))
            a == Append(src, x)
<1>1. IsCode(code) /\ IsScopes(pcs) /\ IsSeq(pcs) /\ IsSeq(src) /\ TargetsKnown(pcs, src)
  BY DEF Resolving, WellMade, IsScopes
<1>2. /\ IsSeq(Front(pcs)) /\ n \in Nat \ {0} /\ Len(Front(pcs)) = n - 1
      /\ DOMAIN Front(pcs) = 1..(n - 1) /\ z = pcs[n] /\ n \in DOMAIN pcs
      /\ \A j \in DOMAIN Front(pcs) : j \in DOMAIN pcs /\ Front(pcs)[j] = pcs[j]
  BY <1>1, Shortened
<1>3. /\ IsSeq(q) /\ DOMAIN q = 1..((n - 1) + 1) /\ q[(n - 1) + 1] = ElseScope(z)
      /\ \A j \in DOMAIN Front(pcs) : j \in DOMAIN q /\ q[j] = Front(pcs)[j]
  BY ONLY <1>2, Appended
<1>4. /\ (n - 1) + 1 = n /\ DOMAIN pcs = 1..n
      /\ \A j \in 1..n : j = n \/ j \in 1..(n - 1)
  BY <1>1, <1>2, Lengths
<1>5. /\ IsInstr(y) /\ DOMAIN y.table = {}
  BY DEF Instr, IsInstr
<1>6. IsSeq(a) /\ TargetsKnown(pcs, a)
  BY ONLY <1>1, Appended, StillKnown
<1>7. /\ IsCode(c0) /\ Len(c0) = Len(code) + 1
      /\ \A i \in DOMAIN code : \A e : IsBranch(c0, i, e) =>
           IsBranch(code, i, e) /\ Goal(c0, i, e) = Goal(code, i, e)
      /\ \A i \in DOMAIN c0 : i \notin DOMAIN code => i - 1 = Len(code) /\ c0[i] = y
      /\ \A i \in DOMAIN code : i \in DOMAIN c0
  <2>. HIDE DEF y
  <2>. QED
    BY ONLY <1>1, <1>5, Written, Appended DEF IsCode
<1>. HIDE DEF y, c0
<1>8. /\ IsCode(d) /\ Len(d) = Len(c0) /\ DOMAIN d = DOMAIN c0
      /\ \A i \in DOMAIN c0 : \A e : IsBranch(d, i, e) =>
           /\ IsBranch(c0, i, e)
           /\ Goal(d, i, e) = IF AtEntry(i - 1, e) \in {f} THEN Here + 1 ELSE Goal(c0, i, e)
  <2>. DEFINE bs == {f}
              h  == Here + 1
              r  == fix_branch(c0, bs, h)
  <2>1. IsCode(c0)
    BY <1>7
  <2>. HIDE DEF bs, h
  <2>2. /\ IsCode(r) /\ Len(r) = Len(c0) /\ DOMAIN r = DOMAIN c0
        /\ \A i \in DOMAIN c0 : \A e : IsBranch(r, i, e) =>
             /\ IsBranch(c0, i, e)
             /\ Goal(r, i, e) = IF AtEntry(i - 1, e) \in bs THEN h ELSE Goal(c0, i, e)
    BY ONLY <2>1, Fixed
  <2>. QED
    BY <2>2 DEF bs, h
<1>. HIDE DEF d
<1>9. /\ IsScope(ElseScope(z)) /\ ElseScope(z).target = NoTarget
      /\ ElseScope(z).relocations = (z.relocations \ {f}) \cup {At(Len(code))}
  <2>1. IsScope(z) /\ z.is_if
    BY <1>1, <1>2 DEF IsScopes
  <2>. HIDE DEF z
  <2>. QED
    BY <2>1 DEF ElseScope, IsScope, Here
<1>. HIDE DEF z, f, n, q, a
<1>10. /\ q[n] = ElseScope(z) /\ n \in DOMAIN q /\ DOMAIN q = DOMAIN pcs
       /\ \A j \in DOMAIN pcs : j # n => q[j] = pcs[j]
  BY <1>2, <1>3, <1>4
<1>11. IsScopes(q) /\ TargetsKnown(q, a)
  BY <1>1, <1>3, <1>6, <1>9, <1>10 DEF IsScopes, TargetsKnown
<1>12. WellMade(d, q, a)
  BY <1>6, <1>8, <1>11 DEF WellMade
<1>13. ASSUME NEW i, NEW e, Waits(pcs, i, e), AtEntry(i - 1, e) # f PROVE Waits(q, i, e)
  <2>1. PICK j \in DOMAIN pcs : pcs[j].target = NoTarget /\ AtEntry(i - 1, e) \in pcs[j].relocations
    BY <1>13 DEF Waits
  <2>2. CASE j = n
    BY <1>2, <1>9, <1>10, <1>13, <2>1, <2>2 DEF Waits
  <2>3. CASE j # n
    BY <1>10, <2>1, <2>3 DEF Waits
  <2>. QED
    BY <2>2, <2>3
<1>14. ASSUME NEW i \in DOMAIN code, NEW e, IsBranch(d, i, e)
       PROVE  /\ IsBranch(code, i, e)
              /\ \/ Goal(d, i, e) = Goal(code, i, e) /\ (Waits(pcs, i, e) => Waits(q, i, e))
                 \/ q # <<>> /\ Goal(d, i, e) = Len(d)
  <2>1. q # <<>>
    BY <1>10
  <2>2. Here + 1 = Len(d)
    BY <1>7, <1>8 DEF Here
  <2>3. /\ IsBranch(code, i, e)
        /\ Goal(d, i, e) = IF AtEntry(i - 1, e) = f THEN Here + 1 ELSE Goal(code, i, e)
    BY <1>7, <1>8, <1>14
  <2>. QED
    BY <1>13, <2>1, <2>2, <2>3
<1>15. ASSUME NEW i \in DOMAIN d, i \notin DOMAIN code, NEW e, IsBranch(d, i, e)
       PROVE  Waits(q, i, e)
  <2>1. i - 1 = Len(code) /\ c0[i] = y /\ IsBranch(c0, i, e)
    BY <1>7, <1>8, <1>15
  <2>2. e = 0
    BY <1>5, <2>1 DEF IsBranch
  <2>. QED
    BY <1>9, <1>10, <2>1, <2>2 DEF Waits, At
<1>. QED
  BY <1>11, <1>12, <1>14, <1>15, Advanced DEF a, q, d, c0, y, z, f

\* The end of a scope: what waits for it leads here (exit_scope), and the end of
\* the body writes one instruction more.
LEMMA EndWritten ==
  ASSUME Resolving(code, pcs, src), pcs # <<>>, NEW x, x.pc = Len(code),
         NEW d, IsCode(d), Continues(fix_branch(code, Last(pcs).relocations, Here), d),
         \A i \in DOMAIN d : i \notin DOMAIN code => \A e : ~IsBranch(d, i, e)
  PROVE  Resolving(d, Front(pcs), Append(src, x))
<1>. DEFINE z == Last(pcs)
            bs == z.relocations
            n == Len(pcs)
            h == Here
            c1 == fix_branch(code, bs, h)
            q == Front(pcs)
            a == Append(src, x)
<1>1. IsCode(code) /\ IsScopes(pcs) /\ IsSeq(pcs) /\ IsSeq(src) /\ TargetsKnown(pcs, src)
  BY DEF Resolving, WellMade, IsScopes
<1>2. /\ IsSeq(q) /\ n \in Nat \ {0}
      /\ DOMAIN q = 1..(n - 1) /\ z = pcs[n] /\ n \in DOMAIN pcs
      /\ \A j \in DOMAIN q : j \in DOMAIN pcs /\ q[j] = pcs[j]
  BY <1>1, Shortened
<1>3. /\ DOMAIN pcs = 1..n
      /\ \A j \in 1..n : j = n \/ j \in 1..(n - 1)
  BY <1>1, <1>2, Lengths
<1>4. IsSeq(a) /\ TargetsKnown(pcs, a)
  BY ONLY <1>1, Appended, StillKnown
<1>5. Continues(c1, d)
  OBVIOUS
<1>. HIDE DEF z, bs, n, h, q, a
<1>6. /\ DOMAIN c1 = DOMAIN code
      /\ \A i \in DOMAIN code : \A e : IsBranch(c1, i, e) =>
           /\ IsBranch(code, i, e)
           /\ Goal(c1, i, e) = IF AtEntry(i - 1, e) \in bs THEN h ELSE Goal(code, i, e)
  BY ONLY <1>1, Fixed
<1>. HIDE DEF c1
<1>7. IsScopes(q) /\ TargetsKnown(q, a)
  BY <1>1, <1>2, <1>4 DEF IsScopes, TargetsKnown
<1>8. WellMade(d, q, a)
  BY <1>4, <1>7 DEF WellMade
<1>9. ASSUME NEW i, NEW e, Waits(pcs, i, e), AtEntry(i - 1, e) \notin bs PROVE Waits(q, i, e)
  <2>1. PICK j \in DOMAIN pcs : pcs[j].target = NoTarget /\ AtEntry(i - 1, e) \in pcs[j].relocations
    BY <1>9 DEF Waits
  <2>2. j # n
    BY <1>2, <1>9, <2>1 DEF bs
  <2>3. j \in DOMAIN q
    BY <1>2, <1>3, <2>2
  <2>. QED
    BY <1>2, <2>1, <2>3 DEF Waits
<1>10. ASSUME NEW i \in DOMAIN code, NEW e, IsBranch(d, i, e)
       PROVE  /\ IsBranch(code, i, e)
              /\ \/ Goal(d, i, e) = Goal(code, i, e) /\ (Waits(pcs, i, e) => Waits(q, i, e))
                 \/ Goal(d, i, e) = Len(code)
  <2>1. IsBranch(c1, i, e) /\ Goal(d, i, e) = Goal(c1, i, e)
    BY <1>5, <1>6, <1>10 DEF Continues
  <2>2. h = Len(code)
    BY DEF h, Here
  <2>. QED
    BY <1>6, <1>9, <2>1, <2>2
<1>. QED
  BY <1>7, <1>8, <1>10, Advanced DEF a, q

-----------------------------------------------------------------------------
(* The opcodes.                                                            *)

\* The opcode that was parsed is as long as the code it added.
Grew(x) == LeastBytes(x) \in Nat /\ Len(code') <= Len(code) + LeastBytes(x)
Parsed  == /\ Resolving(code', pcs', src')
           /\ \E x : src' = Append(src, x) /\ Grew(x)

Entry(op, arg) == [op |-> op, arg |-> arg, state |-> tk.state, pc |-> Here]

\* Every opcode but br_table has a byte at least.
LEMMA OneByte ==
  ASSUME NEW op, NEW arg, op # "br_table"
  PROVE  LeastBytes(Entry(op, arg)) \in Nat /\ LeastBytes(Entry(op, arg)) >= 1
BY DEF LeastBytes, Entry

PlainInstr(y) == IsInstr(y) /\ y.op \notin BranchOps /\ DOMAIN y.table = {}

\* An opcode whose instruction is no branch.
LEMMA PlainParsed ==
  ASSUME Resolving(code, pcs, src), NEW op, NEW arg, NEW k, NEW y,
         op # "br_table", PlainInstr(y), Parse(op, arg, k, pcs, Append(code, y))
  PROVE  Parsed
<1>. DEFINE x == Entry(op, arg)
<1>1. src' = Append(src, x) /\ pcs' = pcs /\ code' = Append(code, y) /\ x.pc = Len(code)
  BY DEF Parse, Entry, Here
<1>2. LeastBytes(x) \in Nat /\ LeastBytes(x) >= 1
  BY OneByte
<1>. HIDE DEF x
<1>3. Resolving(Append(code, y), pcs, Append(src, x))
  BY <1>1, PlainWritten DEF PlainInstr
<1>4. Len(Append(code, y)) = Len(code) + 1 /\ Len(code) \in Nat
  BY Appended, Lengths DEF Resolving, WellMade, IsCode
<1>. QED
  BY <1>1, <1>2, <1>3, <1>4 DEF Parsed, Grew

\* unreachable, nop, drop, select, locals, constants and what only computes.
LEMMA DataParsed ==
  ASSUME Resolving(code, pcs, src), DataStep \/ Unreachable \/ Nop
  PROVE  Parsed
<1>1. \A op, arg : /\ op \notin BranchOps => PlainInstr(Instr(op))
                   /\ op \notin BranchOps => PlainInstr([Instr(op) EXCEPT !.arg = arg])
  BY DEF PlainInstr, IsInstr, Instr
<1>2. CASE Unreachable
  BY <1>1, <1>2, PlainParsed DEF Unreachable, BranchOps
<1>3. CASE Nop
  BY <1>1, <1>3, PlainParsed DEF Nop, BranchOps
<1>4. CASE DropOp
  BY <1>1, <1>4, PlainParsed DEF DropOp, BranchOps
<1>5. CASE Select
  BY <1>1, <1>5, PlainParsed DEF Select, BranchOps
<1>6. ASSUME NEW i, GetLocal(i) \/ SetLocal(i) \/ TeeLocal(i) PROVE Parsed
  BY <1>1, <1>6, PlainParsed DEF GetLocal, SetLocal, TeeLocal, LocalInstr, BranchOps
<1>7. ASSUME NEW t, NEW v, Const(t, v) PROVE Parsed
  BY <1>1, <1>7, PlainParsed DEF Const, BranchOps
<1>8. ASSUME NEW sig, Plain(sig) PROVE Parsed
  BY <1>1, <1>8, PlainParsed DEF Plain, BranchOps
<1>. QED
  BY <1>2, <1>3, <1>4, <1>5, <1>6, <1>7, <1>8 DEF DataStep

\* What a well made code and its continuations have in common.
LEMMA Same ==
  ASSUME NEW c, IsCode(c)
  PROVE  Continues(c, c) /\ Len(c) \in Nat /\ \A i \in DOMAIN c : ~(i \notin DOMAIN c)
BY Lengths DEF Continues, IsCode

\* block and loop write no instruction.
LEMMA BlockParsed ==
  ASSUME Resolving(code, pcs, src), NEW t, Block(t) \/ Loop(t)
  PROVE  Parsed
<1>1. PICK op \in {"block", "loop"} :
        Parse(op, t, push_scope(tk),
              Append(pcs, Scope(tk, t, IF op = "block" THEN t ELSE "pseudo", FALSE,
                                IF op = "block" THEN NoTarget ELSE Here, {})), code)
  BY DEF Block, Loop
<1>. DEFINE x == Entry(op, t)
            z == Scope(tk, t, IF op = "block" THEN t ELSE "pseudo", FALSE,
                       IF op = "block" THEN NoTarget ELSE Here, {})
<1>2. /\ src' = Append(src, x) /\ pcs' = Append(pcs, z) /\ code' = code
      /\ x.op = op /\ x.pc = Len(code)
  BY <1>1 DEF Parse, Entry, Here
<1>3. LeastBytes(x) \in Nat
  BY OneByte
<1>4. IsScope(z) /\ (z.target = NoTarget \/ (x.op = "loop" /\ z.target = Len(code)))
  BY <1>2 DEF IsScope, Scope, Here
<1>5. IsCode(code) /\ Continues(code, code) /\ Len(code) \in Nat
  BY Same DEF Resolving, WellMade
<1>. HIDE DEF x, z
<1>6. Resolving(code, Append(pcs, z), Append(src, x))
  BY <1>2, <1>4, <1>5, ScopeOpened
<1>. QED
  BY <1>2, <1>3, <1>5, <1>6 DEF Parsed, Grew

\* if waits for its own scope.
LEMMA IfParsed ==
  ASSUME Resolving(code, pcs, src), NEW t, If(t)
  PROVE  Parsed
<1>. DEFINE k == Pop(tk, "i32")
            x == Entry("if", t)
            y == Instr("if")
            d == Append(code, y)
            z == Scope(k, t, t, TRUE, NoTarget, {At(Here)})
<1>2. /\ src' = Append(src, x) /\ pcs' = Append(pcs, z) /\ code' = d /\ x.pc = Len(code)
  BY DEF If, Parse, Entry, Here
<1>3. LeastBytes(x) \in Nat /\ LeastBytes(x) >= 1
  BY OneByte
<1>4. IsScope(z) /\ z.target = NoTarget /\ z.relocations = {At(Len(code))}
  BY DEF IsScope, Scope, Here
<1>5. IsInstr(y) /\ DOMAIN y.table = {}
  BY DEF IsInstr, Instr
<1>6. IsCode(code) /\ Len(code) \in Nat
  BY Same DEF Resolving, WellMade
<1>. HIDE DEF x, z, y
<1>7. /\ IsCode(d) /\ Len(d) = Len(code) + 1 /\ Continues(code, d)
      /\ \A i \in DOMAIN d : i \notin DOMAIN code => i - 1 = Len(code) /\ d[i] = y
  BY <1>5, <1>6, Written DEF Continues
<1>. HIDE DEF d
<1>8. ASSUME NEW i \in DOMAIN d, i \notin DOMAIN code, NEW e, IsBranch(d, i, e)
      PROVE  z.target = NoTarget /\ AtEntry(i - 1, e) \in z.relocations
  BY <1>4, <1>5, <1>7, <1>8 DEF IsBranch, At
<1>9. Resolving(d, Append(pcs, z), Append(src, x))
  BY <1>2, <1>4, <1>7, <1>8, ScopeOpened
<1>. QED
  BY <1>2, <1>3, <1>6, <1>7, <1>9 DEF Parsed, Grew

\* else.
LEMMA ElseParsed ==
  ASSUME Resolving(code, pcs, src), Else
  PROVE  Parsed
<1>. DEFINE x == Entry("else", 0)
            z == Last(pcs)
            y == Instr("else")
            c0 == Append(code, y)
            bs == {FirstOf(z.relocations)}
            h == Here + 1
            d == fix_branch(c0, bs, h)
            q == Append(Front(pcs), ElseScope(z))
<1>2. /\ src' = Append(src, x) /\ pcs' = q /\ code' = d /\ x.pc = Len(code)
      /\ pcs # <<>> /\ z.is_if
  BY DEF Else, Parse, Parsing, Entry, Here
<1>3. LeastBytes(x) \in Nat /\ LeastBytes(x) >= 1
  BY OneByte
<1>4. IsCode(code) /\ Len(code) \in Nat
  BY Same DEF Resolving, WellMade
<1>5. IsInstr(y)
  BY DEF IsInstr, Instr
<1>. HIDE DEF x
<1>6. Resolving(d, q, Append(src, x))
  BY <1>2, ElseWritten
<1>. HIDE DEF y, bs, h
<1>7. IsCode(c0) /\ Len(c0) = Len(code) + 1
  BY <1>4, <1>5, Written
<1>. HIDE DEF c0
<1>8. Len(d) = Len(c0)
  BY <1>7, Fixed
<1>. HIDE DEF d
<1>. QED
  BY <1>2, <1>3, <1>4, <1>6, <1>7, <1>8 DEF Parsed, Grew

\* end, of a block or of the body.
LEMMA EndParsed ==
  ASSUME Resolving(code, pcs, src), End
  PROVE  Parsed
<1>. DEFINE x == Entry("end", 0)
            bs == Last(pcs).relocations
            h == Here
            c1 == fix_branch(code, bs, h)
            d == IF Len(pcs) = 1 THEN Append(c1, Return) ELSE c1
<1>2. /\ src' = Append(src, x) /\ pcs' = Front(pcs) /\ code' = d /\ x.pc = Len(code)
      /\ pcs # <<>>
  BY DEF End, Parse, Parsing, Entry, Here
<1>3. LeastBytes(x) \in Nat /\ LeastBytes(x) >= 1
  BY OneByte
<1>4. IsCode(code) /\ Len(code) \in Nat
  BY Same DEF Resolving, WellMade
<1>5. PlainInstr(Return)
  BY DEF PlainInstr, IsInstr, Instr, Return, BranchOps
<1>6. IsCode(c1) /\ Len(c1) = Len(code) /\ DOMAIN c1 = DOMAIN code
  <2>. HIDE DEF bs, h
  <2>. QED
    BY <1>4, Fixed
<1>7. /\ IsCode(d) /\ Len(d) <= Len(c1) + 1 /\ Continues(c1, d)
      /\ \A i \in DOMAIN d : i \notin DOMAIN c1 => \A e : ~IsBranch(d, i, e)
  <2>. HIDE DEF c1
  <2>1. Continues(c1, c1) /\ Len(c1) \in Nat
    BY <1>6, Same
  <2>2. CASE Len(pcs) = 1
    <3>. DEFINE r == Return
                b == Append(c1, r)
    <3>1. d = b
      BY <2>2
    <3>2. IsInstr(r)
      BY <1>5 DEF PlainInstr
    <3>. HIDE DEF r
    <3>3. /\ IsCode(b) /\ Len(b) = Len(c1) + 1 /\ Continues(c1, b)
          /\ \A i \in DOMAIN b : i \notin DOMAIN c1 => b[i] = r
      BY <1>6, <3>2, Written DEF Continues
    <3>. HIDE DEF b, d
    <3>4. \A i \in DOMAIN b : i \notin DOMAIN c1 => \A e : ~IsBranch(b, i, e)
      BY <1>5, <3>3 DEF IsBranch, PlainInstr, r
    <3>. QED
      BY <2>1, <3>1, <3>3, <3>4
  <2>3. CASE Len(pcs) # 1
    <3>1. d = c1
      BY <2>3
    <3>. HIDE DEF d
    <3>. QED
      BY <1>6, <2>1, <3>1
  <2>. QED
    BY <2>2, <2>3
<1>. HIDE DEF x, d
<1>8. Resolving(d, Front(pcs), Append(src, x))
  BY <1>2, <1>6, <1>7, EndWritten
<1>9. Len(d) <= Len(code) + 1
  BY <1>6, <1>7
<1>10. Len(d) \in Nat
  BY <1>7, Same
<1>. QED
  BY <1>2, <1>3, <1>4, <1>8, <1>9, <1>10 DEF Parsed, Grew

\* br, return and br_if: one branch, to label l.
LEMMA BranchParsed ==
  ASSUME Resolving(code, pcs, src), NEW l \in Scopes, NEW op \in {"br", "br_if"}, NEW k, NEW j,
         Parse(op, l, k, OneBranch(l), Append(code, BranchInstr(op, j, l)))
  PROVE  Parsed
<1>. DEFINE x == Entry(op, l)
            y == BranchInstr(op, j, l)
            d == Append(code, y)
            b == At(Here)
            labels == [a \in {b} |-> l]
            q == BranchScopes(labels)
<1>2. src' = Append(src, x) /\ pcs' = q /\ code' = d /\ x.pc = Len(code)
  BY DEF Parse, Entry, Here, OneBranch
<1>3. LeastBytes(x) \in Nat /\ LeastBytes(x) >= 1
  BY OneByte
<1>4. IsCode(code) /\ Len(code) \in Nat
  BY Same DEF Resolving, WellMade
<1>5. IsInstr(y) /\ DOMAIN y.table = {} /\ y.pc = KnownTarget(l)
  BY DEF IsInstr, BranchInstr, Instr
<1>6. b \in DOMAIN labels /\ labels[b] = l
  OBVIOUS
<1>. HIDE DEF x, y, labels, q
<1>7. /\ IsCode(d) /\ Len(d) = Len(code) + 1 /\ Continues(code, d)
      /\ \A i \in DOMAIN d : i \notin DOMAIN code => i - 1 = Len(code) /\ d[i] = y
  BY <1>4, <1>5, Written DEF Continues
<1>. HIDE DEF d
<1>8. ASSUME NEW i \in DOMAIN d, i \notin DOMAIN code, NEW e, IsBranch(d, i, e)
      PROVE  /\ AtEntry(i - 1, e) = b
             /\ Goal(d, i, e) = KnownTarget(l)
  <2>1. e = 0 /\ i - 1 = Len(code) /\ d[i] = y
    BY <1>5, <1>7, <1>8 DEF IsBranch
  <2>. QED
    BY <1>5, <2>1 DEF At, Here, Goal
<1>. HIDE DEF b
<1>9. Resolving(d, q, Append(src, x))
  BY <1>2, <1>6, <1>7, <1>8, BranchWritten DEF q
<1>. QED
  BY <1>2, <1>3, <1>4, <1>7, <1>9 DEF Parsed, Grew

\* A br_table's data takes no more opcodes than it has cases, and two.
LEMMA SlotsBound ==
  ASSUME NEW n \in Nat
  PROVE  DataSlots(n) \in Nat /\ DataSlots(n) <= n + 2
<1>. DEFINE q == (n * ElemSize) \div OpcodeSize
<1>1. ElemSize \in Nat /\ OpcodeSize \in Nat /\ OpcodeSize > 0 /\ ElemSize <= OpcodeSize
  BY BoundsAssumption
<1>2. n * ElemSize \in Nat /\ n * ElemSize <= n * OpcodeSize
  BY <1>1
<1>3. q \in Nat /\ q <= n
  BY <1>1, <1>2
<1>. HIDE DEF q
<1>4. DataSlots(n) = q + 2
  BY DEF DataSlots, q
<1>. QED
  BY <1>3, <1>4

\* br_table: a branch for every label, then its data.
LEMMA TableParsed ==
  ASSUME Resolving(code, pcs, src), NEW ls \in SeqOf(Scopes, MaxCases + 1) \ {<<>>}, BrTable(ls)
  PROVE  Parsed
<1>. DEFINE k         == Branched(ls)
            table     == [i \in DOMAIN ls |-> TableEntry(k[i - 1], ls[i])]
            y         == [Instr("br_table") EXCEPT !.table = table]
            n         == DataSlots(Len(ls) - 1)
            data      == [r \in 1..n |-> Instr("data")]
            labels    == [b \in {AtEntry(Here, i) : i \in DOMAIN ls} |-> ls[b.entry]]
            q         == BranchScopes(labels)
            x         == Entry("br_table", ls)
            c0        == Append(code, y)
            d         == c0 \o data
<1>1. src' = Append(src, x) /\ pcs' = q /\ code' = d /\ x.pc = Len(code) /\ x.arg = ls /\ x.op = "br_table"
  BY Zenon DEF BrTable, Parse, Entry, Here
<1>2. Len(ls) \in Nat /\ Len(ls) >= 1 /\ DOMAIN ls = 1..Len(ls) /\ \A i \in DOMAIN ls : ls[i] \in Scopes
  <2>1. PICK m \in 0..(MaxCases + 1) : ls \in [1..m -> Scopes]
    BY DEF SeqOf
  <2>2. m \in Nat
    OBVIOUS
  <2>3. ls \in Seq(Scopes)
    BY <2>1, <2>2
  <2>4. ls # <<>>
    OBVIOUS
  <2>. QED
    BY <2>3, <2>4
<1>3. LeastBytes(x) = 2 + Len(ls)
  BY <1>1 DEF LeastBytes
<1>4. n \in Nat /\ n <= Len(ls) + 1
  <2>. DEFINE v == Len(ls) - 1
  <2>1. v \in Nat /\ Len(ls) + 1 = v + 2
    BY <1>2
  <2>. HIDE DEF v
  <2>2. DataSlots(v) \in Nat /\ DataSlots(v) <= v + 2
    BY <2>1, SlotsBound
  <2>. QED
    BY <2>1, <2>2 DEF v
<1>5. /\ DOMAIN table = DOMAIN ls
      /\ \A i \in DOMAIN ls : {"pc", "pop", "keep"} \subseteq DOMAIN table[i] /\ table[i].pc = KnownTarget(ls[i])
  <2>. HIDE DEF k
  <2>. QED
    BY DEF TableEntry
<1>. HIDE DEF table
<1>6. y.table = table /\ y.op = "br_table" /\ {"op", "arg", "pc", "pop", "keep", "table"} \subseteq DOMAIN y
  BY DEF Instr
<1>7. IsInstr(y)
  <2>. HIDE DEF y
  <2>. QED
    BY <1>2, <1>5, <1>6 DEF IsInstr
<1>8. IsCode(code) /\ Len(code) \in Nat
  BY Same DEF Resolving, WellMade
<1>9. \A i \in DOMAIN ls : AtEntry(Len(code), i) \in DOMAIN labels /\ labels[AtEntry(Len(code), i)] = ls[i]
  BY DEF AtEntry, Here
<1>. HIDE DEF x, y, labels, q, n
<1>10. /\ IsCode(c0) /\ Len(c0) = Len(code) + 1 /\ Continues(code, c0)
       /\ \A i \in DOMAIN c0 : i \notin DOMAIN code => i - 1 = Len(code) /\ c0[i] = y
  BY <1>7, <1>8, Written DEF Continues
<1>. HIDE DEF c0
<1>11. IsSeq(data) /\ Len(data) = n /\ DOMAIN data = 1..n
  <2>1. data = [r \in 1..n |-> data[r]]
    OBVIOUS
  <2>. HIDE DEF data
  <2>. QED
    BY ONLY <1>4, <2>1, Listed
<1>12. \A r \in DOMAIN data : data[r] = Instr("data")
  BY <1>11
<1>13. PlainInstr(Instr("data"))
  BY DEF PlainInstr, IsInstr, Instr, BranchOps
<1>. HIDE DEF data
<1>14. /\ IsSeq(d) /\ Len(d) = Len(c0) + n
       /\ DOMAIN d = 1..(Len(c0) + Len(data))
       /\ \A i \in DOMAIN c0 : i \in DOMAIN d /\ d[i] = c0[i]
       /\ \A i \in 1..(Len(c0) + Len(data)) : i \notin DOMAIN c0 =>
            i - Len(c0) \in DOMAIN data /\ d[i] = data[i - Len(c0)]
  BY <1>10, <1>11, Joined DEF IsCode
<1>. HIDE DEF d
<1>15. \A i \in DOMAIN d : i \notin DOMAIN c0 => d[i] = Instr("data")
  BY <1>12, <1>14
<1>16. IsCode(d)
  BY <1>10, <1>13, <1>14, <1>15 DEF IsCode, PlainInstr
<1>17. \A i \in DOMAIN code : i \in DOMAIN c0
  BY <1>8, Appended DEF IsCode, c0
<1>18. Continues(code, d)
  BY <1>10, <1>14, <1>17 DEF Continues, IsBranch, Goal
<1>19. ASSUME NEW i \in DOMAIN d, i \notin DOMAIN code, NEW e, IsBranch(d, i, e)
       PROVE  e \in DOMAIN ls /\ AtEntry(i - 1, e) = AtEntry(Len(code), e) /\ Goal(d, i, e) = KnownTarget(ls[e])
  <2>1. i \in DOMAIN c0
    BY <1>13, <1>15, <1>19 DEF IsBranch, PlainInstr
  <2>2. i - 1 = Len(code) /\ d[i] = y
    BY <1>10, <1>14, <1>19, <2>1
  <2>3. e \in DOMAIN ls /\ e # 0
    BY <1>2, <1>5, <1>6, <1>19, <2>2 DEF IsBranch, BranchOps
  <2>. QED
    BY <1>5, <1>6, <2>2, <2>3 DEF Goal
<1>20. ASSUME NEW i \in DOMAIN d, i \notin DOMAIN code, NEW e, IsBranch(d, i, e)
       PROVE  /\ AtEntry(i - 1, e) \in DOMAIN labels
              /\ labels[AtEntry(i - 1, e)] \in Scopes
              /\ Goal(d, i, e) = KnownTarget(labels[AtEntry(i - 1, e)])
  BY <1>2, <1>9, <1>19, <1>20
<1>21. Resolving(d, q, Append(src, x))
  BY <1>1, <1>16, <1>18, <1>20, BranchWritten DEF q
<1>22. Len(d) <= Len(code) + LeastBytes(x) /\ LeastBytes(x) \in Nat
  BY <1>2, <1>3, <1>4, <1>8, <1>10, <1>14
<1>. QED
  BY <1>1, <1>21, <1>22 DEF Parsed, Grew

\* Every opcode the parser accepts.
LEMMA StepParsed ==
  ASSUME Resolving(code, pcs, src), ParseStep
  PROVE  Parsed
<1>1. CASE DataStep
  BY <1>1, DataParsed
<1>2. CASE ControlStep
  <2>1. CASE Unreachable \/ Nop
    BY <2>1, DataParsed
  <2>2. ASSUME NEW t, Block(t) \/ Loop(t) PROVE Parsed
    BY <2>2, BlockParsed
  <2>3. ASSUME NEW t, If(t) PROVE Parsed
    BY <2>3, IfParsed
  <2>4. CASE Else
    BY <2>4, ElseParsed
  <2>5. CASE End
    BY <2>5, EndParsed
  <2>6. ASSUME NEW l \in Scopes, Br(l) PROVE Parsed
    BY <2>6, BranchParsed DEF Br
  <2>7. CASE ReturnOp
    <3>1. pcs # <<>> /\ Br(Len(pcs) - 1)
      BY <2>7 DEF ReturnOp, Parsing
    <3>2. Len(pcs) \in Nat \ {0}
      BY <3>1, Shortened DEF Resolving, WellMade, IsScopes
    <3>3. Len(pcs) - 1 \in Scopes
      BY <3>2 DEF Scopes
    <3>. QED
      BY <2>6, <3>1, <3>3
  <2>8. ASSUME NEW l \in Scopes, BrIf(l) PROVE Parsed
    BY <2>8, BranchParsed DEF BrIf
  <2>9. ASSUME NEW ls \in SeqOf(Scopes, MaxCases + 1) \ {<<>>}, BrTable(ls) PROVE Parsed
    BY <2>9, TableParsed
  <2>. QED
    BY <1>2, <2>1, <2>2, <2>3, <2>4, <2>5, <2>6, <2>7, <2>8, <2>9 DEF ControlStep
<1>. QED
  BY <1>1, <1>2 DEF ParseStep

-----------------------------------------------------------------------------
(* The body's bytes.                                                       *)

\* w[n] bytes at least are the first n opcodes, and the code is no longer than
\* all of them.
Weights(s, w) == w[0] = 0 /\ \A n \in 1..Len(s) : w[n] = w[n - 1] + LeastBytes(s[n])
Weighed(c, s) == \E w \in [0..Len(s) -> Nat] : Weights(s, w) /\ Len(c) <= w[Len(s)]

CodeInv == Resolving(code, pcs, src) /\ Weighed(code, src)

\* A set that has 0 and, with every k below n, k + 1, has all of 0..n.
LEMMA Climb ==
  ASSUME NEW n \in Nat, NEW T, 0 \in T, \A k \in 0..(n - 1) : k \in T => k + 1 \in T
  PROVE  \A k \in 0..n : k \in T
<1>. DEFINE R == {k \in 0..n : k \notin T}
<1>. SUFFICES ASSUME R # {} PROVE FALSE
  OBVIOUS
<1>1. R \subseteq Nat
  OBVIOUS
<1>2. \E x \in R : \A y \in R : ~(<<y, x>> \in OpToRel(<, Nat))
  BY <1>1, WFMin, NatLessThanWellFounded, Zenon
<1>3. ASSUME NEW x \in Nat, NEW y \in Nat, x < y
      PROVE  <<x, y>> \in OpToRel(<, Nat)
  BY <1>3, Zenon DEF OpToRel
<1>4. PICK x \in R : \A y \in R : ~(y < x)
  BY <1>1, <1>2, <1>3, Zenon
<1>5. x \in 0..n /\ x \notin T /\ x # 0
  OBVIOUS
<1>6. x - 1 \in 0..(n - 1) /\ x - 1 \in 0..n /\ x - 1 < x /\ (x - 1) + 1 = x
  BY <1>5
<1>7. x - 1 \in T
  BY <1>4, <1>6
<1>. QED
  BY <1>5, <1>6, <1>7

\* One more opcode weighs its bytes.
LEMMA Heavier ==
  ASSUME IsSeq(src), Weighed(code, src), Len(code) \in Nat, Len(code') \in Nat,
         NEW x, src' = Append(src, x), Grew(x)
  PROVE  Weighed(code', src')
<1>. DEFINE n == Len(src)
            g == LeastBytes(x)
            a == Append(src, x)
<1>1. PICK w \in [0..n -> Nat] : Weights(src, w) /\ Len(code) <= w[n]
  BY DEF Weighed
<1>. DEFINE v == [i \in 0..(n + 1) |-> IF i = n + 1 THEN w[n] + g ELSE w[i]]
<1>2. n \in Nat /\ DOMAIN src = 1..n
  BY Lengths
<1>3. /\ Len(a) = n + 1 /\ a[n + 1] = x
      /\ \A i \in DOMAIN src : a[i] = src[i]
  BY ONLY IsSeq(src), Appended
<1>4. g \in Nat /\ Len(code') <= Len(code) + g
  BY DEF Grew
<1>5. w[0] = 0 /\ \A i \in 1..n : w[i] = w[i - 1] + LeastBytes(src[i])
  BY <1>1 DEF Weights
<1>. HIDE DEF n, g, a
<1>6. v \in [0..(n + 1) -> Nat]
  BY <1>1, <1>2, <1>4
<1>7. v[n + 1] = w[n] + g /\ \A i \in 0..n : v[i] = w[i]
  BY <1>2
<1>. HIDE DEF v
<1>8. v[0] = 0
  BY <1>2, <1>5, <1>7
<1>9. ASSUME NEW i \in 1..(n + 1) PROVE v[i] = v[i - 1] + LeastBytes(a[i])
  <2>1. CASE i = n + 1
    <3>1. i - 1 = n /\ n \in 0..n
      BY <1>2, <2>1
    <3>. QED
      BY <1>3, <1>7, <2>1, <3>1 DEF g
  <2>2. CASE i # n + 1
    <3>1. i \in 1..n /\ i \in 0..n /\ i - 1 \in 0..n
      BY <1>2, <2>2
    <3>. QED
      BY <1>2, <1>3, <1>5, <1>7, <3>1
  <2>. QED
    BY <2>1, <2>2
<1>10. Len(code') <= v[n + 1]
  <2>1. w[n] \in Nat
    BY <1>1, <1>2
  <2>. QED
    BY <1>1, <1>4, <1>7, <2>1
<1>11. v \in [0..Len(a) -> Nat] /\ Weights(a, v) /\ Len(code') <= v[Len(a)]
  BY <1>3, <1>6, <1>8, <1>9, <1>10 DEF Weights
<1>. QED
  BY <1>11 DEF Weighed, a

\* SourceBytes is what the opcodes weigh.
LEMMA WeightsAre ==
  ASSUME IsSeq(src), NEW w \in [0..Len(src) -> Nat], Weights(src, w)
  PROVE  SourceBytes[Len(src)] = w[Len(src)]
<1>. DEFINE n == Len(src)
            D(F) == [i \in 0..n |-> IF i = 0 THEN 0 ELSE F[i - 1] + LeastBytes(src[i])]
<1>1. n \in Nat
  BY Lengths
<1>2. w[0] = 0 /\ \A i \in 1..n : w[i] = w[i - 1] + LeastBytes(src[i])
  BY DEF Weights
<1>3. w = D(w)
  <2>. HIDE DEF n
  <2>1. w \in [0..n -> Nat]
    BY DEF n
  <2>2. \A i \in 0..n : w[i] = D(w)[i]
    BY <1>1, <1>2
  <2>. QED
    BY <2>1, <2>2
<1>4. SourceBytes = CHOOSE F : F = D(F)
  BY DEF SourceBytes
<1>. HIDE DEF n
<1>5. SourceBytes = D(SourceBytes)
  <2>. HIDE DEF D
  <2>. QED
    BY <1>3, <1>4, Zenon
<1>. DEFINE G == SourceBytes
<1>6. G[0] = 0 /\ \A i \in 1..n : G[i] = G[i - 1] + LeastBytes(src[i])
  <2>1. G = D(G)
    BY <1>5
  <2>. HIDE DEF G
  <2>2. \A i \in 0..n : G[i] = IF i = 0 THEN 0 ELSE G[i - 1] + LeastBytes(src[i])
    BY <2>1
  <2>. QED
    BY <1>1, <2>2
<1>. HIDE DEF G
<1>7. \A i \in 0..n : G[i] = w[i]
  <2>. DEFINE T == {i \in 0..n : G[i] = w[i]}
  <2>1. 0 \in T
    BY <1>1, <1>2, <1>6
  <2>2. ASSUME NEW k \in 0..(n - 1), k \in T PROVE k + 1 \in T
    <3>1. k + 1 \in 1..n /\ k + 1 \in 0..n /\ (k + 1) - 1 = k
      BY <1>1
    <3>2. G[k + 1] = w[k + 1]
      BY <1>2, <1>6, <2>2, <3>1
    <3>. QED
      BY <3>1, <3>2
  <2>. HIDE DEF T
  <2>3. \A i \in 0..n : i \in T
    BY <1>1, <2>1, <2>2, Climb
  <2>. QED
    BY <2>3 DEF T
<1>. QED
  BY <1>1, <1>7 DEF n, G

-----------------------------------------------------------------------------
\* No opcode has been parsed.
LEMMA CodeInvInit ==
  ASSUME RunInit
  PROVE  CodeInv
<1>. DEFINE z == Scope(NewTracker, Result, Result, FALSE, NoTarget, {})
<1>1. pcs = <<z>> /\ code = <<>> /\ src = <<>>
  BY DEF RunInit, Init
<1>2. IsScope(z) /\ z.target = NoTarget
  BY DEF IsScope, Scope
<1>. HIDE DEF z
<1>3. IsSeq(<<>>) /\ Len(<<>>) = 0 /\ DOMAIN <<>> = {}
  <2>1. <<>> \in Seq({})
    OBVIOUS
  <2>. QED
    BY <2>1 DEF IsSeq
<1>4. IsSeq(<<z>>) /\ DOMAIN <<z>> = {1} /\ <<z>>[1] = z
  <2>1. <<z>> \in Seq({z})
    OBVIOUS
  <2>2. DOMAIN <<z>> = 1..1 /\ <<z>>[1] = z
    OBVIOUS
  <2>3. IsSeq(<<z>>)
    BY <2>1 DEF IsSeq
  <2>4. 1..1 = {1}
    OBVIOUS
  <2>. QED
    BY <2>2, <2>3, <2>4, Zenon
<1>5. IsCode(code) /\ IsScopes(pcs) /\ IsSeq(src)
  BY <1>1, <1>2, <1>3, <1>4 DEF IsCode, IsScopes
<1>6. TargetsKnown(pcs, src) /\ Led(code, pcs, src)
  BY <1>1, <1>2, <1>3, <1>4 DEF TargetsKnown, Led
<1>7. Weighed(code, src)
  <2>. DEFINE w == [i \in 0..0 |-> 0]
  <2>1. w \in [0..0 -> Nat] /\ w[0] = 0
    OBVIOUS
  <2>. HIDE DEF w
  <2>2. w \in [0..Len(src) -> Nat] /\ Weights(src, w) /\ Len(code) <= w[Len(src)]
    BY <1>1, <1>3, <2>1 DEF Weights
  <2>. QED
    BY <2>2 DEF Weighed
<1>. QED
  BY <1>5, <1>6, <1>7 DEF CodeInv, Resolving, WellMade

\* Only the parser changes the code, and it keeps the invariant.
LEMMA CodeInvStep ==
  ASSUME CodeInv, [Next]_vars
  PROVE  CodeInv'
<1>1. CASE Compile
  <2>1. Parsed
    BY <1>1, StepParsed DEF Compile, CodeInv
  <2>2. PICK x : src' = Append(src, x) /\ Grew(x)
    BY <2>1 DEF Parsed
  <2>3. IsSeq(src) /\ Len(code) \in Nat /\ Len(code') \in Nat
    BY <2>1, Lengths DEF CodeInv, Parsed, Resolving, WellMade, IsCode
  <2>4. Weighed(code', src')
    BY <2>2, <2>3, Heavier DEF CodeInv
  <2>. QED
    BY <2>1, <2>4 DEF CodeInv, Parsed
<1>2. CASE UNCHANGED pvars
  BY <1>2 DEF CodeInv, pvars
<1>3. UNCHANGED vars => UNCHANGED pvars
  BY DEF vars, pvars
<1>4. Next => Compile \/ UNCHANGED pvars
  BY Zenon DEF Next, Call, EnterOrLeave, Execute
<1>. QED
  BY <1>1, <1>2, <1>3, <1>4

\* The length of the code, in the inductive invariant.
LEMMA FitsFromInv ==
  ASSUME CodeInv
  PROVE  CodeFits
<1>1. PICK w \in [0..Len(src) -> Nat] : Weights(src, w) /\ Len(code) <= w[Len(src)]
  BY DEF CodeInv, Weighed
<1>2. IsSeq(src)
  BY DEF CodeInv, Resolving, WellMade
<1>3. SourceBytes[Len(src)] = w[Len(src)]
  BY <1>1, <1>2, WeightsAre
<1>. QED
  BY <1>1, <1>3 DEF CodeFits

\* When no scope is open, no branch waits.
LEMMA LandFromInv ==
  ASSUME CodeInv
  PROVE  BranchesLand
<1>. SUFFICES ASSUME pcs = <<>>, NEW i \in DOMAIN code, NEW t \in Targets(code[i])
              PROVE  \E j \in DOMAIN src : t = src[j].pc /\ (t >= i \/ src[j].op = "loop")
  BY DEF BranchesLand, Compiled
<1>1. \E e : IsBranch(code, i, e) /\ t = Goal(code, i, e)
  <2>1. IsInstr(code[i])
    BY DEF CodeInv, Resolving, WellMade, IsCode
  <2>2. CASE code[i].op \in BranchOps /\ t = code[i].pc
    <3>1. IsBranch(code, i, 0) /\ Goal(code, i, 0) = t
      BY <2>2 DEF IsBranch, Goal
    <3>. QED
      BY <3>1
  <2>3. CASE \E e \in DOMAIN code[i].table : t = code[i].table[e].pc
    <3>1. PICK e \in DOMAIN code[i].table : t = code[i].table[e].pc
      BY <2>3
    <3>2. IsBranch(code, i, e) /\ Goal(code, i, e) = t
      BY <2>1, <3>1 DEF IsBranch, Goal, IsInstr
    <3>. QED
      BY <3>2
  <2>. QED
    BY <2>2, <2>3 DEF Targets, BranchOps
<1>2. PICK e : IsBranch(code, i, e) /\ t = Goal(code, i, e)
  BY <1>1
<1>3. Landed(src, i, t) \/ Waits(pcs, i, e)
  BY <1>2 DEF CodeInv, Resolving, Led
<1>4. ~Waits(pcs, i, e)
  BY DEF Waits
<1>. QED
  BY <1>3, <1>4 DEF Landed

\* The inductive invariant of the parser's code.
THEOREM CodeInvariant == Spec => []CodeInv
<1>1. RunInit => CodeInv
  BY CodeInvInit
<1>2. CodeInv /\ [Next]_vars => CodeInv'
  BY CodeInvStep
<1>. QED
  BY <1>1, <1>2, PTL DEF Spec

\* The code of a body never outgrows what emit_prologue allocated for it, a
\* br_table's data and canary included, whatever the body.
THEOREM CodeFitsAlways == Spec => []CodeFits
<1>1. CodeInv => CodeFits
  BY FitsFromInv
<1>. QED
  BY <1>1, CodeInvariant, PTL

\* Once the body is compiled no relocation is left: every branch leads to where
\* an opcode begins, ahead of it or at a loop (handle_branch_target, exit_scope,
\* emit_if, emit_else, emit_br_table).
THEOREM BranchesLandAlways == Spec => []BranchesLand
<1>1. CodeInv => BranchesLand
  BY LandFromInv
<1>. QED
  BY <1>1, CodeInvariant, PTL

-----------------------------------------------------------------------------
(* The operand tracker.  The operands below a mark "scope" are those the   *)
(* scope's operand_depth counts; m[j] is where the mark of pcs[j] is.      *)

StateTypes == ValueTypes \cup Tags \cup {"any"}
OpsIn(st, n) == {i \in 1..n : st[i] \notin Tags}
Count(st, n) == Cardinality(OpsIn(st, n))

IsTracker(k) ==
  /\ {"state", "depth", "slots", "max", "count", "unreachable_depth", "usage"} \subseteq DOMAIN k
  /\ k.state \in Seq(StateTypes)
  /\ k.depth = Count(k.state, Len(k.state))

Marked(st, p, m) ==
  /\ \A j \in 1..Len(p) : /\ m[j] \in 1..Len(st) /\ st[m[j]] = "scope"
                           /\ p[j].operand_depth = Count(st, m[j])
  /\ \A j, h \in 1..Len(p) : j < h => m[j] < m[h]
  /\ \A i \in 1..Len(st) : st[i] = "scope" => \E j \in 1..Len(p) : i = m[j]

Tracks(k, p, m) == IsTracker(k) /\ Marked(k.state, p, m)

\* j has what k has, up to every mark.
Inside(k, j, p, m) == \A h \in 1..Len(p) : \A i \in 1..m[h] : j.state[i] = k.state[i]

\* w is m and a mark for one more scope, after all of k's state.
NewMark(k, p, m, w) == w[Len(p) + 1] = Len(k.state) + 1 /\ \A j \in 1..Len(p) : w[j] = m[j]

\* Counting one more element.
LEMMA Counting ==
  ASSUME NEW st, NEW n \in Nat
  PROVE  /\ Count(st, n) \in Nat
         /\ Count(st, n + 1) = IF st[n + 1] \in Tags THEN Count(st, n) ELSE Count(st, n) + 1
<1>1. IsFiniteSet(OpsIn(st, n))
  <2>1. IsFiniteSet(1..n)
    BY FS_Interval
  <2>2. OpsIn(st, n) \subseteq 1..n
    BY DEF OpsIn
  <2>. QED
    BY <2>1, <2>2, FS_Subset
<1>2. Count(st, n) \in Nat
  BY <1>1, FS_CardinalityType DEF Count
<1>3. CASE st[n + 1] \in Tags
  <2>1. OpsIn(st, n + 1) = OpsIn(st, n)
    BY <1>3 DEF OpsIn
  <2>. QED
    BY <1>2, <1>3, <2>1 DEF Count
<1>4. CASE st[n + 1] \notin Tags
  <2>1. OpsIn(st, n + 1) = OpsIn(st, n) \cup {n + 1} /\ n + 1 \notin OpsIn(st, n)
    BY <1>4 DEF OpsIn
  <2>2. Cardinality(OpsIn(st, n) \cup {n + 1}) = Cardinality(OpsIn(st, n)) + 1
    BY <1>1, <2>1, FS_AddElement
  <2>. QED
    BY <1>2, <1>4, <2>1, <2>2 DEF Count
<1>. QED
  BY <1>2, <1>3, <1>4

\* What is counted after a place, and before.
LEMMA CountSplit ==
  ASSUME NEW st, NEW n \in Nat, NEW a \in 0..n
  PROVE  LET gone == {i \in (a + 1)..n : st[i] \notin Tags} IN
         /\ Cardinality(gone) \in Nat
         /\ Count(st, n) = Count(st, a) + Cardinality(gone)
<1>. DEFINE gone == {i \in (a + 1)..n : st[i] \notin Tags}
<1>1. IsFiniteSet(OpsIn(st, a)) /\ IsFiniteSet(gone)
  <2>1. IsFiniteSet(1..a) /\ IsFiniteSet((a + 1)..n)
    BY FS_Interval
  <2>2. OpsIn(st, a) \subseteq 1..a /\ gone \subseteq (a + 1)..n
    BY DEF OpsIn
  <2>. QED
    BY <2>1, <2>2, FS_Subset
<1>2. OpsIn(st, n) = OpsIn(st, a) \cup gone /\ OpsIn(st, a) \cap gone = {}
  BY DEF OpsIn
<1>. HIDE DEF gone
<1>3. /\ Cardinality(OpsIn(st, a) \cup gone)
           = Cardinality(OpsIn(st, a)) + Cardinality(gone) - Cardinality(OpsIn(st, a) \cap gone)
  BY <1>1, FS_Union
<1>4. Cardinality({}) = 0 /\ Cardinality(OpsIn(st, a)) \in Nat /\ Cardinality(gone) \in Nat
  BY <1>1, FS_EmptySet, FS_CardinalityType
<1>. QED
  BY <1>2, <1>3, <1>4 DEF Count, gone

\* Counting depends on the elements counted.
LEMMA CountAgrees ==
  ASSUME NEW s, NEW r, NEW n \in Nat, \A i \in 1..n : s[i] = r[i]
  PROVE  Count(s, n) = Count(r, n)
<1>1. OpsIn(s, n) = OpsIn(r, n)
  BY DEF OpsIn
<1>. QED
  BY <1>1 DEF Count

\* A scope's depth is still there.
LEMMA DepthThere ==
  ASSUME NEW k, NEW p, NEW m, Tracks(k, p, m), NEW j \in 1..Len(p)
  PROVE  k.depth \in Nat /\ p[j].operand_depth \in 0..k.depth
<1>. DEFINE st == k.state
            n  == Len(st)
            a  == m[j]
<1>1. n \in Nat /\ k.depth = Count(st, n) /\ a \in 1..n /\ p[j].operand_depth = Count(st, a)
  BY DEF Tracks, IsTracker, Marked
<1>. HIDE DEF st, n, a
<1>2. a \in 0..n /\ a \in Nat
  BY <1>1
<1>3. Count(st, n) \in Nat /\ Count(st, a) \in Nat
  BY <1>1, <1>2, Counting
<1>. DEFINE gone == {i \in (a + 1)..n : st[i] \notin Tags}
<1>4. Cardinality(gone) \in Nat /\ Count(st, n) = Count(st, a) + Cardinality(gone)
  BY <1>1, <1>2, CountSplit
<1>. HIDE DEF gone
<1>. QED
  BY <1>1, <1>3, <1>4

\* Marks stay if only what follows the last of them changes.
LEMMA MarksKept ==
  ASSUME NEW st \in Seq(StateTypes), NEW r \in Seq(StateTypes), NEW p, NEW m, Marked(st, p, m),
         NEW a \in Nat, a <= Len(st), a <= Len(r), \A i \in 1..a : r[i] = st[i],
         \A i \in 1..Len(st) : i > a => st[i] # "scope",
         \A i \in 1..Len(r) : i > a => r[i] # "scope"
  PROVE  Marked(r, p, m)
<1>. DEFINE n == Len(st)
            l == Len(r)
<1>1. n \in Nat /\ l \in Nat
  OBVIOUS
<1>2. /\ a <= n /\ a <= l
      /\ \A i \in 1..n : i > a => st[i] # "scope"
      /\ \A i \in 1..l : i > a => r[i] # "scope"
  OBVIOUS
<1>3. /\ \A j \in 1..Len(p) : /\ m[j] \in 1..n /\ st[m[j]] = "scope"
                              /\ p[j].operand_depth = Count(st, m[j])
      /\ \A j, h \in 1..Len(p) : j < h => m[j] < m[h]
      /\ \A i \in 1..n : st[i] = "scope" => \E j \in 1..Len(p) : i = m[j]
  BY DEF Marked
<1>. HIDE DEF n, l
<1>4. ASSUME NEW j \in 1..Len(p)
      PROVE  m[j] \in 1..l /\ r[m[j]] = "scope" /\ p[j].operand_depth = Count(r, m[j])
  <2>1. m[j] \in 1..n /\ st[m[j]] = "scope" /\ p[j].operand_depth = Count(st, m[j])
    BY <1>3
  <2>2. m[j] \in 1..a /\ m[j] \in 1..l
    BY <1>1, <1>2, <2>1
  <2>3. \A i \in 1..m[j] : r[i] = st[i]
    BY <2>2
  <2>4. m[j] \in Nat
    BY <2>2
  <2>5. Count(r, m[j]) = Count(st, m[j])
    BY <2>3, <2>4, CountAgrees
  <2>. QED
    BY <2>1, <2>2, <2>5
<1>5. ASSUME NEW i \in 1..l, r[i] = "scope" PROVE \E j \in 1..Len(p) : i = m[j]
  <2>1. i \in 1..a /\ i \in 1..n
    BY <1>1, <1>2, <1>5
  <2>. QED
    BY <1>3, <1>5, <2>1
<1>. QED
  BY <1>3, <1>4, <1>5 DEF Marked, l

\* Neither the operand types nor "unreachable" is a mark.
LEMMA NoMark ==
  /\ \A t \in ValueTypes \cup {"any"} : t \notin Tags /\ t # "scope" /\ t \in StateTypes
  /\ "unreachable" # "scope" /\ Tags \subseteq StateTypes
BY TypesAssumption DEF Tags, StateTypes

\* push: one more operand.
LEMMA PushTracks ==
  ASSUME NEW k, NEW p, NEW m, Tracks(k, p, m), NEW t \in ValueTypes \cup {"any"}
  PROVE  Tracks(Push(k, t), p, m)
<1>. DEFINE st == k.state
            n  == Len(st)
            r  == Append(st, t)
            y  == Push(k, t)
<1>1. /\ {"state", "depth", "slots", "max", "count", "unreachable_depth", "usage"} \subseteq DOMAIN k
      /\ st \in Seq(StateTypes) /\ n \in Nat /\ k.depth = Count(st, n) /\ Marked(st, p, m)
  BY DEF Tracks, IsTracker
<1>2. /\ DOMAIN y = DOMAIN k /\ y.state = r /\ y.depth = k.depth + 1
  BY <1>1 DEF Push
<1>3. t \notin Tags /\ t # "scope" /\ t \in StateTypes
  BY NoMark
<1>4. /\ r \in Seq(StateTypes) /\ Len(r) = n + 1 /\ r[n + 1] = t
      /\ \A i \in 1..n : r[i] = st[i]
  BY <1>1, <1>3
<1>. HIDE DEF st, n, r, y
<1>5. Count(r, n) = Count(st, n) /\ Count(st, n) \in Nat
  BY <1>1, <1>4, CountAgrees, Counting
<1>6. Count(r, n + 1) = Count(st, n) + 1
  BY <1>1, <1>3, <1>4, <1>5, Counting
<1>7. Marked(r, p, m)
  <2>1. /\ n <= Len(st) /\ n <= Len(r)
        /\ \A i \in 1..Len(st) : i > n => st[i] # "scope"
    BY <1>1, <1>4 DEF n
  <2>2. \A i \in 1..Len(r) : i > n => r[i] # "scope"
    <3>. SUFFICES ASSUME NEW i \in 1..(n + 1), i > n PROVE r[i] # "scope"
      BY <1>4
    <3>1. i = n + 1
      BY <1>1
    <3>. QED
      BY <1>3, <1>4, <3>1
  <2>. QED
    BY <1>1, <1>4, <2>1, <2>2, MarksKept
<1>8. Tracks(y, p, m)
  BY <1>1, <1>2, <1>4, <1>5, <1>6, <1>7 DEF Tracks, IsTracker
<1>. QED
  BY <1>8 DEF y

\* One element less, which is no mark.
LEMMA Uncovered ==
  ASSUME NEW st \in Seq(StateTypes), st # <<>>, Last(st) # "scope",
         NEW p, NEW m, Marked(st, p, m)
  PROVE  LET r == Front(st) IN
         /\ r \in Seq(StateTypes) /\ Marked(r, p, m)
         /\ Count(st, Len(st)) = IF Last(st) \in Tags THEN Count(r, Len(r)) ELSE Count(r, Len(r)) + 1
         /\ Count(r, Len(r)) \in Nat
<1>. DEFINE r == Front(st)
            n == Len(r)
<1>1. Len(st) \in Nat \ {0}
  OBVIOUS
<1>2. r = SubSeq(st, 1, Len(st) - 1) /\ Last(st) = st[Len(st)]
  BY DEF Front, Last
<1>3. /\ r \in Seq(StateTypes) /\ n = Len(st) - 1
      /\ \A i \in 1..n : r[i] = st[i]
  <2>. DEFINE q == SubSeq(st, 1, Len(st) - 1)
  <2>1. q \in Seq(StateTypes)
    BY ONLY <1>1, st \in Seq(StateTypes)
  <2>2. r = q
    BY <1>2
  <2>3. IsSeq(st)
    BY DEF IsSeq
  <2>4. /\ Len(r) = Len(st) - 1 /\ DOMAIN r = 1..(Len(st) - 1)
        /\ \A i \in DOMAIN r : r[i] = st[i]
    BY ONLY <2>3, st # <<>>, Shortened
  <2>. HIDE DEF q, r
  <2>. QED
    BY <2>1, <2>2, <2>4
<1>4. n \in Nat /\ Len(st) = n + 1
  BY <1>1, <1>3
<1>. HIDE DEF r, n
<1>5. Count(r, n) = Count(st, n)
  BY <1>3, <1>4, CountAgrees
<1>6. /\ Count(st, n) \in Nat
      /\ Count(st, n + 1) = IF st[n + 1] \in Tags THEN Count(st, n) ELSE Count(st, n) + 1
  BY <1>4, Counting
<1>7. Marked(r, p, m)
  <2>1. n <= Len(st) /\ n <= Len(r)
    BY <1>4 DEF n
  <2>2. \A i \in 1..Len(st) : i > n => st[i] # "scope"
    <3>. SUFFICES ASSUME NEW i \in 1..(n + 1), i > n PROVE st[i] # "scope"
      BY <1>4
    <3>1. i = n + 1
      BY <1>4
    <3>. QED
      BY <1>2, <1>4, <3>1
  <2>3. \A i \in 1..Len(r) : i > n => r[i] # "scope"
    BY <1>4 DEF n
  <2>. QED
    BY <1>3, <1>4, <2>1, <2>2, <2>3, MarksKept
<1>. QED
  BY <1>2, <1>3, <1>4, <1>5, <1>6, <1>7 DEF r, n

\* One operand less.
LEMMA DropTracks ==
  ASSUME NEW k, NEW p, NEW m, Tracks(k, p, m), NEW t,
         k.state # <<>>, Last(k.state) \notin Tags
  PROVE  Tracks(Drop(k, t), p, m)
<1>. DEFINE st == k.state
            r  == Front(st)
            y  == Drop(k, t)
<1>1. /\ {"state", "depth", "slots", "max", "count", "unreachable_depth", "usage"} \subseteq DOMAIN k
      /\ st \in Seq(StateTypes) /\ k.depth = Count(st, Len(st)) /\ Marked(st, p, m)
  BY DEF Tracks, IsTracker
<1>2. /\ DOMAIN y = DOMAIN k /\ y.state = r /\ y.depth = k.depth - 1
  BY <1>1 DEF Drop
<1>3. st # <<>> /\ Last(st) \notin Tags /\ Last(st) # "scope"
  BY DEF Tags
<1>. HIDE DEF st, y
<1>4. /\ r \in Seq(StateTypes) /\ Marked(r, p, m)
      /\ Count(st, Len(st)) = Count(r, Len(r)) + 1 /\ Count(r, Len(r)) \in Nat
  BY <1>1, <1>3, Uncovered
<1>. HIDE DEF r
<1>5. y.depth = Count(r, Len(r))
  BY <1>1, <1>2, <1>4
<1>6. Tracks(y, p, m)
  BY <1>1, <1>2, <1>4, <1>5 DEF Tracks, IsTracker
<1>. QED
  BY <1>6 DEF y

\* pop(expected).
LEMMA PopTracks ==
  ASSUME NEW k, NEW p, NEW m, Tracks(k, p, m), NEW t \in BlockTypes, CanPop(k, t)
  PROVE  Tracks(Pop(k, t), p, m)
<1>1. CASE t = "pseudo" \/ Back(k) = "unreachable"
  BY <1>1 DEF Pop
<1>2. CASE ~(t = "pseudo" \/ Back(k) = "unreachable")
  <2>1. k.state # <<>> /\ Last(k.state) \in {t, "any"}
    BY <1>2 DEF CanPop, Back
  <2>2. Last(k.state) \notin Tags
    BY <1>2, <2>1, NoMark DEF BlockTypes
  <2>3. Tracks(Drop(k, t), p, m)
    BY <2>1, <2>2, DropTracks
  <2>. QED
    BY <1>2, <2>3 DEF Pop
<1>. QED
  BY <1>1, <1>2

\* pop().
LEMMA PopAnyTracks ==
  ASSUME NEW k, NEW p, NEW m, Tracks(k, p, m), CanPopAny(k)
  PROVE  Tracks(PopAny(k), p, m) /\ TopType(k) \in ValueTypes \cup {"any"}
<1>1. k.state # <<>> /\ Last(k.state) # "scope"
  BY DEF CanPopAny, Back
<1>2. Last(k.state) \in StateTypes
  BY <1>1 DEF Tracks, IsTracker, Last
<1>3. CASE Back(k) = "unreachable"
  BY <1>3 DEF PopAny, TopType
<1>4. CASE Back(k) # "unreachable"
  <2>1. Last(k.state) \notin Tags /\ Last(k.state) \in ValueTypes \cup {"any"}
    BY <1>1, <1>2, <1>4 DEF Back, Tags, StateTypes
  <2>2. Tracks(Drop(k, Back(k)), p, m)
    BY <1>1, <2>1, DropTracks
  <2>. QED
    BY <1>4, <2>1, <2>2 DEF PopAny, TopType, Back
<1>. QED
  BY <1>3, <1>4

\* top(expected).
LEMMA TopTracks ==
  ASSUME NEW k, NEW p, NEW m, Tracks(k, p, m), NEW t \in ValueTypes, CanTop(k, t)
  PROVE  Tracks(Top(k, t), p, m)
<1>1. CanPop(k, t)
  BY DEF CanTop
<1>2. Tracks(Pop(k, t), p, m)
  BY <1>1, PopTracks DEF BlockTypes
<1>. QED
  BY <1>2, PushTracks DEF Top

\* The innermost scope's mark is the last one.
LEMMA LastMark ==
  ASSUME NEW st \in Seq(StateTypes), NEW p, NEW m, Marked(st, p, m), Len(p) \in Nat \ {0}
  PROVE  /\ st # <<>>
         /\ m[Len(p)] \in 1..Len(st) /\ st[m[Len(p)]] = "scope"
         /\ Last(p) = p[Len(p)] /\ Last(p).operand_depth = Count(st, m[Len(p)])
         /\ \A i \in 1..Len(st) : st[i] = "scope" => i <= m[Len(p)]
<1>. DEFINE h == Len(p)
<1>1. /\ h \in 1..h
      /\ \A j \in 1..h : j < h \/ j = h
  <2>1. h \in Nat \ {0}
    OBVIOUS
  <2>. HIDE DEF h
  <2>. QED
    BY ONLY <2>1
<1>2. /\ m[h] \in 1..Len(st) /\ st[m[h]] = "scope" /\ p[h].operand_depth = Count(st, m[h])
      /\ \A j \in 1..h : j < h => m[j] < m[h]
      /\ \A i \in 1..Len(st) : st[i] = "scope" => \E j \in 1..h : i = m[j]
  BY <1>1 DEF Marked
<1>3. Last(p) = p[h]
  BY DEF Last
<1>. HIDE DEF h
<1>4. ASSUME NEW i \in 1..Len(st), st[i] = "scope" PROVE i <= m[h]
  <2>1. PICK j \in 1..h : i = m[j]
    BY <1>2, <1>4
  <2>2. Len(st) \in Nat
    OBVIOUS
  <2>. QED
    BY <1>1, <1>2, <2>1, <2>2
<1>5. st # <<>>
  BY <1>2
<1>. QED
  BY <1>2, <1>3, <1>4, <1>5 DEF h

\* start_unreachable.
LEMMA UnreachableTracks ==
  ASSUME NEW k, NEW p, NEW m, Tracks(k, p, m), Len(p) \in Nat \ {0}
  PROVE  /\ Tracks(start_unreachable(k), p, m)
         /\ start_unreachable(k).depth \in Nat /\ start_unreachable(k).depth <= k.depth
         /\ start_unreachable(k).max = k.max
         /\ Inside(k, start_unreachable(k), p, m)
<1>. DEFINE st == k.state
            n  == Len(st)
            s  == m[Len(p)]
            c  == SubSeq(st, 1, s)
            r  == Append(c, "unreachable")
            gone == {i \in (s + 1)..n : st[i] \notin Tags}
            y  == start_unreachable(k)
<1>1. /\ {"state", "depth", "slots", "max", "count", "unreachable_depth", "usage"} \subseteq DOMAIN k
      /\ st \in Seq(StateTypes) /\ n \in Nat /\ k.depth = Count(st, n) /\ Marked(st, p, m)
  BY DEF Tracks, IsTracker
<1>2. /\ s \in 1..n /\ st[s] = "scope"
      /\ \A i \in 1..n : st[i] = "scope" => i <= s
  BY <1>1, LastMark
<1>3. SelectLastInSeq(st, LAMBDA t : t = "scope") = s
  <2>. HIDE DEF st, s, n
  <2>. QED
    BY <1>1, <1>2 DEF SelectLastInSeq, Max, n
<1>4. /\ DOMAIN y = DOMAIN k /\ y.state = r /\ y.depth = k.depth - Cardinality(gone)
      /\ y.max = k.max
  BY <1>1, <1>3 DEF start_unreachable
<1>. HIDE DEF st, s, y
<1>5. s \in Nat /\ s <= n /\ s \in 0..n
  BY <1>1, <1>2
<1>6. c \in Seq(StateTypes) /\ Len(c) = s /\ \A i \in 1..s : c[i] = st[i]
  <2>1. c \in Seq(StateTypes)
    BY <1>1, <1>2
  <2>2. Len(c) = s
    BY <1>1, <1>2
  <2>3. \A i \in 1..s : c[i] = st[i]
    BY <1>1, <1>2
  <2>. QED
    BY <2>1, <2>2, <2>3
<1>7. "unreachable" \in StateTypes /\ "unreachable" \in Tags
  BY DEF StateTypes, Tags
<1>. HIDE DEF c
<1>8. /\ r \in Seq(StateTypes) /\ Len(r) = s + 1 /\ r[s + 1] = "unreachable"
      /\ \A i \in 1..s : r[i] = st[i]
  BY <1>5, <1>6, <1>7
<1>. HIDE DEF r
<1>9. Count(r, s + 1) = Count(r, s) /\ Count(r, s) = Count(st, s) /\ Count(st, s) \in Nat
  BY <1>5, <1>7, <1>8, Counting, CountAgrees
<1>10. Cardinality(gone) \in Nat /\ Count(st, n) = Count(st, s) + Cardinality(gone)
  <2>. HIDE DEF n
  <2>. QED
    BY <1>1, <1>5, CountSplit
<1>. HIDE DEF gone
<1>11. y.depth = Count(r, Len(r))
  BY <1>1, <1>4, <1>8, <1>9, <1>10
<1>12. Marked(r, p, m)
  <2>1. s <= Len(st) /\ s <= Len(r)
    BY <1>5, <1>8
  <2>2. \A i \in 1..Len(st) : i > s => st[i] # "scope"
    BY <1>1, <1>2, <1>5
  <2>3. \A i \in 1..Len(r) : i > s => r[i] # "scope"
    <3>. SUFFICES ASSUME NEW i \in 1..(s + 1), i > s PROVE r[i] # "scope"
      BY <1>8
    <3>1. i = s + 1
      BY <1>5
    <3>. QED
      BY <1>8, <3>1
  <2>. QED
    BY <1>1, <1>5, <1>8, <2>1, <2>2, <2>3, MarksKept
<1>13. Tracks(y, p, m)
  BY <1>1, <1>4, <1>8, <1>11, <1>12 DEF Tracks, IsTracker
<1>14. y.depth \in Nat /\ y.depth <= k.depth
  BY <1>1, <1>4, <1>9, <1>10
<1>15. ASSUME NEW h \in 1..Len(p), NEW i \in 1..m[h] PROVE y.state[i] = st[i]
  <2>1. m[h] \in 1..n /\ m[h] <= s
    BY <1>1, <1>2 DEF Marked
  <2>2. i \in 1..s
    BY <1>5, <2>1
  <2>. QED
    BY <1>4, <1>8, <2>2
<1>16. Inside(k, y, p, m)
  BY <1>15 DEF Inside, st
<1>. QED
  BY <1>4, <1>13, <1>14, <1>16 DEF y

\* push_scope, with a scope that remembers the depth.
LEMMA ScopeTracks ==
  ASSUME NEW k, NEW p, NEW m, Tracks(k, p, m), IsSeq(p), NEW z, z.operand_depth = k.depth
  PROVE  \E w : Tracks(push_scope(k), Append(p, z), w) /\ NewMark(k, p, m, w)
<1>. DEFINE st == k.state
            n  == Len(st)
            h  == Len(p)
            q  == Append(p, z)
            r  == Append(st, "scope")
            w  == [j \in 1..(h + 1) |-> IF j = h + 1 THEN n + 1 ELSE m[j]]
            y  == push_scope(k)
<1>1. /\ {"state", "depth", "slots", "max", "count", "unreachable_depth", "usage"} \subseteq DOMAIN k
      /\ st \in Seq(StateTypes) /\ n \in Nat /\ k.depth = Count(st, n) /\ Marked(st, p, m)
  BY DEF Tracks, IsTracker
<1>2. /\ DOMAIN y = DOMAIN k /\ y.state = r /\ y.depth = k.depth
  BY <1>1 DEF push_scope
<1>3. "scope" \in StateTypes /\ "scope" \in Tags
  BY DEF StateTypes, Tags
<1>4. h \in Nat /\ DOMAIN p = 1..h
  BY Lengths
<1>5. Len(q) = h + 1 /\ q[h + 1] = z /\ \A j \in 1..h : q[j] = p[j]
  BY ONLY <1>4, IsSeq(p), Appended
<1>6. z.operand_depth = Count(st, n)
  BY <1>1
<1>. HIDE DEF st, n, y, q, h
<1>7. /\ r \in Seq(StateTypes) /\ Len(r) = n + 1 /\ r[n + 1] = "scope"
      /\ \A i \in 1..n : r[i] = st[i]
  BY <1>1, <1>3 DEF n
<1>. HIDE DEF r
<1>8. Count(r, n + 1) = Count(r, n) /\ Count(r, n) = Count(st, n)
  BY <1>1, <1>3, <1>7, Counting, CountAgrees
<1>9. w[h + 1] = n + 1 /\ \A j \in 1..h : w[j] = m[j]
  BY <1>4
<1>. HIDE DEF w
<1>10. \A j \in 1..(h + 1) : j = h + 1 \/ j \in 1..h
  BY <1>4
<1>11. /\ \A j \in 1..h : m[j] \in 1..n /\ st[m[j]] = "scope" /\ p[j].operand_depth = Count(st, m[j])
       /\ \A j, g \in 1..h : j < g => m[j] < m[g]
       /\ \A i \in 1..n : st[i] = "scope" => \E j \in 1..h : i = m[j]
  BY <1>1 DEF Marked, n, h
<1>12. ASSUME NEW j \in 1..(h + 1)
       PROVE  /\ w[j] \in 1..(n + 1) /\ r[w[j]] = "scope"
              /\ q[j].operand_depth = Count(r, w[j])
  <2>1. CASE j = h + 1
    <3>1. n + 1 \in 1..(n + 1)
      BY <1>1
    <3>. QED
      BY <1>5, <1>6, <1>7, <1>8, <1>9, <2>1, <3>1
  <2>2. CASE j \in 1..h
    <3>1. m[j] \in 1..n /\ st[m[j]] = "scope" /\ p[j].operand_depth = Count(st, m[j])
      BY <1>11, <2>2
    <3>2. m[j] \in 1..(n + 1) /\ m[j] \in Nat /\ \A i \in 1..m[j] : r[i] = st[i]
      BY <1>1, <1>7, <3>1
    <3>3. Count(r, m[j]) = Count(st, m[j])
      BY <3>2, CountAgrees
    <3>. QED
      BY <1>5, <1>7, <1>9, <2>2, <3>1, <3>2, <3>3
  <2>. QED
    BY <1>10, <2>1, <2>2
<1>13. ASSUME NEW j \in 1..(h + 1), NEW g \in 1..(h + 1), j < g PROVE w[j] < w[g]
  <2>1. j \in 1..h
    BY <1>4, <1>13
  <2>2. CASE g = h + 1
    BY <1>1, <1>9, <1>11, <2>1, <2>2
  <2>3. CASE g \in 1..h
    BY <1>9, <1>11, <1>13, <2>1, <2>3
  <2>. QED
    BY <1>10, <2>2, <2>3
<1>14. ASSUME NEW i \in 1..(n + 1), r[i] = "scope" PROVE \E j \in 1..(h + 1) : i = w[j]
  <2>1. CASE i = n + 1
    <3>1. h + 1 \in 1..(h + 1)
      BY <1>4
    <3>. QED
      BY <1>9, <2>1, <3>1
  <2>2. CASE i # n + 1
    <3>1. i \in 1..n
      BY <1>1, <2>2
    <3>2. PICK j \in 1..h : i = m[j]
      BY <1>7, <1>11, <1>14, <3>1
    <3>3. j \in 1..(h + 1)
      BY <1>4
    <3>. QED
      BY <1>9, <3>2, <3>3
  <2>. QED
    BY <2>1, <2>2
<1>15. Marked(r, q, w)
  BY <1>5, <1>7, <1>12, <1>13, <1>14 DEF Marked
<1>16. y.depth = Count(r, Len(r))
  BY <1>1, <1>2, <1>7, <1>8
<1>17. Tracks(y, q, w)
  BY <1>1, <1>2, <1>7, <1>15, <1>16 DEF Tracks, IsTracker
<1>18. NewMark(k, p, m, w)
  BY <1>9 DEF NewMark, st, n, h
<1>. QED
  BY <1>17, <1>18 DEF y, q

\* LeaveUnreachable.
LEMMA LeaveTracks ==
  ASSUME NEW k, NEW p, NEW m, Tracks(k, p, m), Len(p) \in Nat \ {0}
  PROVE  Tracks(LeaveUnreachable(k), p, m)
<1>. DEFINE st == k.state
            r  == Front(st)
            y  == LeaveUnreachable(k)
<1>1. CASE Back(k) # "unreachable"
  BY <1>1 DEF LeaveUnreachable
<1>2. CASE Back(k) = "unreachable"
  <2>1. /\ {"state", "depth", "slots", "max", "count", "unreachable_depth", "usage"} \subseteq DOMAIN k
        /\ st \in Seq(StateTypes) /\ k.depth = Count(st, Len(st)) /\ Marked(st, p, m)
    BY DEF Tracks, IsTracker
  <2>2. st # <<>>
    BY <2>1, LastMark
  <2>3. Last(st) = "unreachable" /\ Last(st) # "scope" /\ Last(st) \in Tags
    BY <1>2 DEF Back, Tags
  <2>4. DOMAIN y = DOMAIN k /\ y.state = r /\ y.depth = k.depth
    BY <1>2, <2>1 DEF LeaveUnreachable
  <2>. HIDE DEF st, y
  <2>5. r \in Seq(StateTypes) /\ Marked(r, p, m) /\ Count(st, Len(st)) = Count(r, Len(r))
    BY <2>1, <2>2, <2>3, Uncovered
  <2>. HIDE DEF r
  <2>6. Tracks(y, p, m)
    BY <2>1, <2>4, <2>5 DEF Tracks, IsTracker
  <2>. QED
    BY <2>6 DEF y
<1>. QED
  BY <1>1, <1>2

\* A mark on top is taken off, with its scope.
LEMMA MarkTaken ==
  ASSUME NEW k, NEW p, NEW m, Tracks(k, p, m), IsSeq(p), p # <<>>, Back(k) = "scope"
  PROVE  LET y == [k EXCEPT !.state = Front(@)] IN
         Tracks(y, Front(p), m) /\ y.depth = Last(p).operand_depth
<1>. DEFINE st == k.state
            n  == Len(st)
            h  == Len(p)
            r  == Front(st)
            q  == Front(p)
            y  == [k EXCEPT !.state = Front(@)]
<1>1. /\ {"state", "depth", "slots", "max", "count", "unreachable_depth", "usage"} \subseteq DOMAIN k
      /\ st \in Seq(StateTypes) /\ n \in Nat /\ k.depth = Count(st, n) /\ Marked(st, p, m)
  BY DEF Tracks, IsTracker
<1>2. /\ h \in Nat \ {0} /\ Len(q) = h - 1 /\ DOMAIN q = 1..(h - 1)
      /\ \A j \in DOMAIN q : q[j] = p[j]
  BY Shortened
<1>3. /\ st # <<>> /\ m[h] \in 1..n /\ Last(p).operand_depth = Count(st, m[h])
      /\ \A i \in 1..n : st[i] = "scope" => i <= m[h]
  BY <1>1, <1>2, LastMark
<1>4. st[n] = "scope"
  BY DEF Back, Last
<1>5. DOMAIN y = DOMAIN k /\ y.state = r /\ y.depth = k.depth
  BY <1>1
<1>6. /\ r \in Seq(StateTypes) /\ Len(r) = n - 1 /\ \A i \in 1..(n - 1) : r[i] = st[i]
  <2>1. IsSeq(st)
    BY <1>1 DEF IsSeq
  <2>2. Len(r) = n - 1 /\ DOMAIN r = 1..(n - 1) /\ \A i \in DOMAIN r : r[i] = st[i]
    BY ONLY <1>3, <2>1, Shortened
  <2>3. n \in Nat \ {0}
    BY <1>1, <1>3
  <2>4. SubSeq(st, 1, n - 1) \in Seq(StateTypes)
    BY ONLY <1>1, <2>3
  <2>. QED
    BY <2>2, <2>4 DEF Front
<1>. HIDE DEF st, h, r, q, y, n
<1>7. n - 1 \in Nat /\ (n - 1) + 1 = n /\ m[h] = n
  BY <1>1, <1>3, <1>4
<1>8. "scope" \in Tags
  BY DEF Tags
<1>9. Count(st, n) = Count(st, n - 1)
  <2>. DEFINE a == n - 1
  <2>1. a \in Nat /\ a + 1 = n
    BY <1>7
  <2>. HIDE DEF a
  <2>2. Count(st, n) = Count(st, a)
    BY <1>4, <1>8, <2>1, Counting
  <2>. QED
    BY <2>2 DEF a
<1>10. Count(r, n - 1) = Count(st, n - 1)
  BY <1>6, <1>7, CountAgrees
<1>11. /\ \A j \in 1..h : m[j] \in 1..n /\ st[m[j]] = "scope" /\ p[j].operand_depth = Count(st, m[j])
       /\ \A j, g \in 1..h : j < g => m[j] < m[g]
       /\ \A i \in 1..n : st[i] = "scope" => \E j \in 1..h : i = m[j]
  BY <1>1 DEF Marked, n, h
<1>12. ASSUME NEW j \in 1..(h - 1)
       PROVE  /\ m[j] \in 1..(n - 1) /\ r[m[j]] = "scope"
              /\ q[j].operand_depth = Count(r, m[j])
  <2>1. j \in 1..h /\ h \in 1..h /\ j < h
    BY <1>2
  <2>2. m[j] \in 1..n /\ st[m[j]] = "scope" /\ p[j].operand_depth = Count(st, m[j]) /\ m[j] < n
    BY <1>7, <1>11, <2>1
  <2>3. m[j] \in 1..(n - 1) /\ m[j] \in Nat /\ \A i \in 1..m[j] : r[i] = st[i]
    BY <1>1, <1>6, <2>2
  <2>4. Count(r, m[j]) = Count(st, m[j])
    BY <2>3, CountAgrees
  <2>. QED
    BY <1>2, <1>6, <2>2, <2>3, <2>4
<1>13. \A j, g \in 1..(h - 1) : j < g => m[j] < m[g]
  BY <1>2, <1>11
<1>14. ASSUME NEW i \in 1..(n - 1), r[i] = "scope" PROVE \E j \in 1..(h - 1) : i = m[j]
  <2>1. i \in 1..n /\ i # n
    BY <1>1
  <2>2. PICK j \in 1..h : i = m[j]
    BY <1>6, <1>11, <1>14, <2>1
  <2>3. j # h
    BY <1>7, <2>1, <2>2
  <2>4. j \in 1..(h - 1)
    BY <1>2, <2>3
  <2>. QED
    BY <2>2, <2>4
<1>15. Marked(r, q, m)
  BY <1>2, <1>6, <1>12, <1>13, <1>14 DEF Marked
<1>16. y.depth = Count(r, Len(r)) /\ y.depth = Last(p).operand_depth
  BY <1>1, <1>3, <1>5, <1>6, <1>7, <1>9, <1>10
<1>17. Tracks(y, q, m)
  BY <1>1, <1>5, <1>6, <1>15, <1>16 DEF Tracks, IsTracker
<1>. QED
  BY <1>16, <1>17 DEF y, q

\* pop_scope(expected).
LEMMA PopScopeTracks ==
  ASSUME NEW k, NEW p, NEW m, Tracks(k, p, m), IsSeq(p), p # <<>>,
         NEW t \in BlockTypes, CanPopScope(k, t)
  PROVE  /\ Tracks(pop_scope(k, t), Front(p), m)
         /\ t = "pseudo" => pop_scope(k, t).depth = Last(p).operand_depth
<1>. DEFINE b == Pop(k, t)
            j == LeaveUnreachable(b)
            y == [j EXCEPT !.state = Front(@)]
<1>1. CanPop(k, t) /\ Back(j) = "scope"
  BY DEF CanPopScope
<1>2. Len(p) \in Nat \ {0}
  BY Shortened
<1>3. Tracks(b, p, m)
  BY <1>1, PopTracks
<1>4. pop_scope(k, t) = IF t = "pseudo" THEN y ELSE Push(y, t)
  BY DEF pop_scope
<1>. HIDE DEF b
<1>5. Tracks(j, p, m)
  BY <1>2, <1>3, LeaveTracks
<1>. HIDE DEF j
<1>6. Tracks(y, Front(p), m) /\ y.depth = Last(p).operand_depth
  BY <1>1, <1>5, MarkTaken
<1>. HIDE DEF y
<1>7. t # "pseudo" => Tracks(Push(y, t), Front(p), m)
  BY <1>6, PushTracks DEF BlockTypes
<1>. QED
  BY <1>4, <1>6, <1>7

\* Popped is what its equations say.
LEMMA PoppedIs ==
  ASSUME NEW k, NEW ts, IsSeq(ts)
  PROVE  LET F == Popped(k, ts) IN
         /\ F[0] = k
         /\ \A i \in 1..Len(ts) : F[i] = Pop(F[i - 1], ts[i])
<1>. DEFINE n == Len(ts)
            Steps(g, h) == /\ g = [i \in 0..h |-> g[i]] /\ g[0] = k
                           /\ \A i \in 1..h : g[i] = Pop(g[i - 1], ts[i])
            D(F) == [i \in 0..n |-> IF i = 0 THEN k ELSE Pop(F[i - 1], ts[i])]
            T == {h \in 0..n : \E g : Steps(g, h)}
<1>1. n \in Nat
  BY Lengths
<1>2. Popped(k, ts) = CHOOSE F : F = D(F)
  BY DEF Popped
<1>. HIDE DEF n
<1>3. 0 \in T
  <2>. DEFINE g == [i \in 0..0 |-> k]
  <2>1. Steps(g, 0)
    OBVIOUS
  <2>. HIDE DEF g, Steps
  <2>. QED
    BY <1>1, <2>1
<1>4. ASSUME NEW h \in 0..(n - 1), h \in T PROVE h + 1 \in T
  <2>1. PICK g : Steps(g, h)
    BY <1>4
  <2>. DEFINE f == [i \in 0..(h + 1) |-> IF i = h + 1 THEN Pop(g[h], ts[h + 1]) ELSE g[i]]
  <2>2. h \in Nat /\ h + 1 \in 0..n
    BY <1>1
  <2>3. f = [i \in 0..(h + 1) |-> f[i]] /\ f[0] = k
    BY <2>1, <2>2
  <2>4. ASSUME NEW i \in 1..(h + 1) PROVE f[i] = Pop(f[i - 1], ts[i])
    <3>1. CASE i = h + 1
      <4>1. i - 1 = h /\ h \in 0..(h + 1) /\ h # h + 1 /\ h + 1 \in 0..(h + 1)
        BY <2>2, <3>1
      <4>2. f[h] = g[h] /\ f[h + 1] = Pop(g[h], ts[h + 1])
        BY <4>1
      <4>. QED
        BY <3>1, <4>1, <4>2
    <3>2. CASE i # h + 1
      <4>1. i \in 1..h /\ i \in 0..(h + 1) /\ i - 1 \in 0..(h + 1) /\ i - 1 # h + 1
        BY <2>2, <3>2
      <4>2. f[i] = g[i] /\ f[i - 1] = g[i - 1]
        BY <3>2, <4>1
      <4>. QED
        BY <2>1, <4>1, <4>2
    <3>. QED
      BY <3>1, <3>2
  <2>5. Steps(f, h + 1)
    BY <2>3, <2>4
  <2>. HIDE DEF f, Steps
  <2>. QED
    BY <2>2, <2>5
<1>5. n \in T
  <2>. HIDE DEF T
  <2>1. \A h \in 0..n : h \in T
    BY <1>1, <1>3, <1>4, Climb
  <2>. QED
    BY <1>1, <2>1
<1>6. PICK g : Steps(g, n)
  BY <1>5
<1>7. g = D(g)
  <2>1. g = [i \in 0..n |-> g[i]]
    BY <1>6
  <2>2. g[0] = k /\ \A i \in 1..n : g[i] = Pop(g[i - 1], ts[i])
    BY <1>6
  <2>3. ASSUME NEW i \in 0..n PROVE g[i] = IF i = 0 THEN k ELSE Pop(g[i - 1], ts[i])
    <3>1. i = 0 \/ i \in 1..n
      BY <1>1
    <3>. QED
      BY ONLY <2>2, <3>1
  <2>. QED
    BY ONLY <2>1, <2>3
<1>. DEFINE G == Popped(k, ts)
<1>8. G = D(G)
  <2>. HIDE DEF D
  <2>. QED
    BY <1>2, <1>7, Zenon
<1>. HIDE DEF G
<1>9. \A i \in 0..n : G[i] = IF i = 0 THEN k ELSE Pop(G[i - 1], ts[i])
  BY <1>8
<1>10. G[0] = k /\ \A i \in 1..n : G[i] = Pop(G[i - 1], ts[i])
  BY <1>1, <1>9
<1>. QED
  BY <1>10 DEF G, n

\* So is Branched.
LEMMA BranchedIs ==
  ASSUME NEW ls, IsSeq(ls)
  PROVE  LET F == Branched(ls) IN
         /\ F[0] = Pop(tk, "i32")
         /\ \A i \in 1..Len(ls) : F[i] = AfterBranch(F[i - 1], ls[i])
<1>. DEFINE n == Len(ls)
            Steps(g, h) == /\ g = [i \in 0..h |-> g[i]] /\ g[0] = Pop(tk, "i32")
                           /\ \A i \in 1..h : g[i] = AfterBranch(g[i - 1], ls[i])
            D(F) == [i \in 0..n |-> IF i = 0 THEN Pop(tk, "i32") ELSE AfterBranch(F[i - 1], ls[i])]
            T == {h \in 0..n : \E g : Steps(g, h)}
<1>1. n \in Nat
  BY Lengths
<1>2. Branched(ls) = CHOOSE F : F = D(F)
  BY DEF Branched
<1>. HIDE DEF n
<1>3. 0 \in T
  <2>. DEFINE g == [i \in 0..0 |-> Pop(tk, "i32")]
  <2>1. Steps(g, 0)
    OBVIOUS
  <2>. HIDE DEF g, Steps
  <2>. QED
    BY <1>1, <2>1
<1>4. ASSUME NEW h \in 0..(n - 1), h \in T PROVE h + 1 \in T
  <2>1. PICK g : Steps(g, h)
    BY <1>4
  <2>. DEFINE f == [i \in 0..(h + 1) |-> IF i = h + 1 THEN AfterBranch(g[h], ls[h + 1]) ELSE g[i]]
  <2>2. h \in Nat /\ h + 1 \in 0..n
    BY <1>1
  <2>3. f = [i \in 0..(h + 1) |-> f[i]] /\ f[0] = Pop(tk, "i32")
    BY <2>1, <2>2
  <2>4. ASSUME NEW i \in 1..(h + 1) PROVE f[i] = AfterBranch(f[i - 1], ls[i])
    <3>1. CASE i = h + 1
      <4>1. i - 1 = h /\ h \in 0..(h + 1) /\ h # h + 1 /\ h + 1 \in 0..(h + 1)
        BY <2>2, <3>1
      <4>2. f[h] = g[h] /\ f[h + 1] = AfterBranch(g[h], ls[h + 1])
        BY <4>1
      <4>. QED
        BY <3>1, <4>1, <4>2
    <3>2. CASE i # h + 1
      <4>1. i \in 1..h /\ i \in 0..(h + 1) /\ i - 1 \in 0..(h + 1) /\ i - 1 # h + 1
        BY <2>2, <3>2
      <4>2. f[i] = g[i] /\ f[i - 1] = g[i - 1]
        BY <3>2, <4>1
      <4>. QED
        BY <2>1, <4>1, <4>2
    <3>. QED
      BY <3>1, <3>2
  <2>5. Steps(f, h + 1)
    BY <2>3, <2>4
  <2>. HIDE DEF f, Steps
  <2>. QED
    BY <2>2, <2>5
<1>5. n \in T
  <2>. HIDE DEF T
  <2>1. \A h \in 0..n : h \in T
    BY <1>1, <1>3, <1>4, Climb
  <2>. QED
    BY <1>1, <2>1
<1>6. PICK g : Steps(g, n)
  BY <1>5
<1>7. g = D(g)
  <2>1. g = [i \in 0..n |-> g[i]]
    BY <1>6
  <2>2. g[0] = Pop(tk, "i32") /\ \A i \in 1..n : g[i] = AfterBranch(g[i - 1], ls[i])
    BY <1>6
  <2>3. ASSUME NEW i \in 0..n PROVE g[i] = IF i = 0 THEN Pop(tk, "i32") ELSE AfterBranch(g[i - 1], ls[i])
    <3>1. i = 0 \/ i \in 1..n
      BY <1>1
    <3>. QED
      BY ONLY <2>2, <3>1
  <2>. QED
    BY ONLY <2>1, <2>3
<1>. DEFINE G == Branched(ls)
<1>8. G = D(G)
  <2>. HIDE DEF D
  <2>. QED
    BY <1>2, <1>7, Zenon
<1>. HIDE DEF G
<1>9. \A i \in 0..n : G[i] = IF i = 0 THEN Pop(tk, "i32") ELSE AfterBranch(G[i - 1], ls[i])
  BY <1>8
<1>10. G[0] = Pop(tk, "i32") /\ \A i \in 1..n : G[i] = AfterBranch(G[i - 1], ls[i])
  BY <1>1, <1>9
<1>. QED
  BY <1>10 DEF G, n

\* Pops in order.
LEMMA PoppedTracks ==
  ASSUME NEW k, NEW p, NEW m, Tracks(k, p, m), NEW ts \in Seq(ValueTypes),
         \A i \in DOMAIN ts : CanPop(Popped(k, ts)[i - 1], ts[i])
  PROVE  Tracks(Popped(k, ts)[Len(ts)], p, m)
<1>. DEFINE F == Popped(k, ts)
            n == Len(ts)
            T == {i \in 0..n : Tracks(F[i], p, m)}
<1>1. n \in Nat /\ DOMAIN ts = 1..n /\ \A i \in 1..n : ts[i] \in BlockTypes
  BY DEF BlockTypes
<1>2. F[0] = k /\ \A i \in 1..n : F[i] = Pop(F[i - 1], ts[i])
  <2>1. IsSeq(ts)
    BY DEF IsSeq
  <2>. QED
    BY <2>1, PoppedIs
<1>3. \A i \in 1..n : CanPop(F[i - 1], ts[i])
  BY <1>1
<1>. HIDE DEF F, n
<1>4. 0 \in T
  BY <1>1, <1>2
<1>5. ASSUME NEW h \in 0..(n - 1), h \in T PROVE h + 1 \in T
  <2>1. h + 1 \in 1..n /\ h + 1 \in 0..n /\ (h + 1) - 1 = h
    BY <1>1
  <2>2. Tracks(F[h], p, m)
    BY <1>5
  <2>3. F[h + 1] = Pop(F[h], ts[h + 1]) /\ CanPop(F[h], ts[h + 1]) /\ ts[h + 1] \in BlockTypes
    BY <1>1, <1>2, <1>3, <2>1
  <2>4. Tracks(F[h + 1], p, m)
    BY <2>2, <2>3, PopTracks
  <2>. QED
    BY <2>1, <2>4
<1>6. n \in T
  <2>. HIDE DEF T
  <2>1. \A h \in 0..n : h \in T
    BY <1>1, <1>4, <1>5, Climb
  <2>. QED
    BY <1>1, <2>1
<1>. QED
  BY <1>6 DEF F, n

-----------------------------------------------------------------------------
(* Scopes and what their branches pop.                                     *)

ScopeTyped(x) ==
  /\ {"operand_depth", "expected", "label", "is_if", "target", "relocations"} \subseteq DOMAIN x
  /\ x.expected \in BlockTypes /\ x.label \in BlockTypes
Scoped(p) == IsSeq(p) /\ \A j \in DOMAIN p : ScopeTyped(p[j])

Pops(y) == y.pop \in Nat /\ \A e \in DOMAIN y.table : y.table[e].pop \in Nat
Popping(c) == \A i \in DOMAIN c : Pops(c[i])

TrackInv == Scoped(pcs) /\ Popping(code) /\ \E m : Tracks(tk, pcs, m)

\* Marks depend on the scopes' depths only.
LEMMA SameDepths ==
  ASSUME NEW k, NEW p, NEW m, Tracks(k, p, m), NEW q, Len(q) = Len(p),
         \A j \in 1..Len(p) : q[j].operand_depth = p[j].operand_depth
  PROVE  Tracks(k, q, m)
BY DEF Tracks, Marked

\* handle_branch_target only changes what waits for a scope.
LEMMA ScopesKept ==
  ASSUME Scoped(pcs), NEW labels
  PROVE  LET q == BranchScopes(labels) IN
         /\ Scoped(q)
         /\ \A k, m : Tracks(k, pcs, m) => Tracks(k, q, m)
<1>. DEFINE q == BranchScopes(labels)
<1>1. Len(pcs) \in Nat /\ DOMAIN pcs = 1..Len(pcs)
  BY Lengths DEF Scoped
<1>2. q = [j \in 1..Len(pcs) |-> q[j]]
  BY <1>1 DEF BranchScopes
<1>3. IsSeq(q) /\ DOMAIN q = DOMAIN pcs /\ Len(q) = Len(pcs)
  <2>. HIDE DEF q
  <2>. QED
    BY <1>1, <1>2, Listed
<1>4. ASSUME NEW j \in DOMAIN pcs
      PROVE  ScopeTyped(q[j]) /\ q[j].operand_depth = pcs[j].operand_depth
  <2>. DEFINE z == pcs[j]
              more == {b \in DOMAIN labels : labels[b] = Len(pcs) - j}
  <2>1. ScopeTyped(z)
    BY DEF Scoped
  <2>2. q[j] = IF z.target # NoTarget THEN z
               ELSE [z EXCEPT !.relocations = @ \cup more]
    BY DEF BranchScopes
  <2>. HIDE DEF z, more, q
  <2>3. ScopeTyped(q[j]) /\ q[j].operand_depth = z.operand_depth
    BY <2>1, <2>2 DEF ScopeTyped
  <2>. QED
    BY <2>3 DEF z
<1>. HIDE DEF q
<1>5. Scoped(q)
  BY <1>3, <1>4 DEF Scoped
<1>6. \A k, m : Tracks(k, pcs, m) => Tracks(k, q, m)
  BY <1>1, <1>3, <1>4, SameDepths
<1>. QED
  BY <1>5, <1>6 DEF q

\* A branch finds the operands it pops, and its operand type is tracked.
LEMMA BranchTracks ==
  ASSUME Scoped(pcs), NEW k, NEW m, Tracks(k, pcs, m), NEW l \in Scopes, CanBranch(k, l)
  PROVE  Tracks(AfterBranch(k, l), pcs, m) /\ DepthChange(k, l).pop \in Nat
<1>. DEFINE j == Len(pcs) - l
            z == pcs[j]
<1>1. j \in 1..Len(pcs) /\ j \in DOMAIN pcs
  BY Lengths DEF Scoped, Scopes
<1>2. Label(l) = z
  BY DEF Label
<1>. HIDE DEF j
<1>3. k.depth \in Nat /\ z.operand_depth \in 0..k.depth
  BY <1>1, DepthThere
<1>4. z.label \in BlockTypes
  BY <1>1 DEF Scoped, ScopeTyped
<1>. HIDE DEF z
<1>5. DepthChange(k, l).pop \in Nat
  BY <1>2, <1>3 DEF DepthChange
<1>6. CASE z.label = "pseudo"
  BY <1>2, <1>5, <1>6 DEF AfterBranch
<1>7. CASE z.label # "pseudo"
  <2>1. z.label \in ValueTypes /\ CanTop(k, z.label)
    BY <1>2, <1>4, <1>7 DEF BlockTypes, CanBranch
  <2>2. Tracks(Top(k, z.label), pcs, m)
    BY <2>1, TopTracks
  <2>. QED
    BY <1>2, <1>5, <1>7, <2>2 DEF AfterBranch
<1>. QED
  BY <1>6, <1>7

\* One more instruction.
LEMMA PopsWritten ==
  ASSUME NEW c, IsCode(c), Popping(c), NEW y, Pops(y)
  PROVE  Popping(Append(c, y))
<1>. DEFINE d == Append(c, y)
<1>1. /\ DOMAIN d = 1..(Len(c) + 1) /\ d[Len(c) + 1] = y
      /\ \A i \in DOMAIN c : d[i] = c[i]
  BY Appended DEF IsCode
<1>2. Len(c) \in Nat /\ DOMAIN c = 1..Len(c)
  BY Lengths DEF IsCode
<1>. HIDE DEF d
<1>3. ASSUME NEW i \in DOMAIN d PROVE i \in DOMAIN c \/ i = Len(c) + 1
  BY <1>1, <1>2
<1>4. \A i \in DOMAIN d : Pops(d[i])
  BY <1>1, <1>3, Zenon DEF Popping
<1>. QED
  BY <1>4 DEF Popping, d

\* fix_branch leaves alone what a branch pops.
LEMMA PopsFixed ==
  ASSUME NEW c, IsCode(c), Popping(c), NEW bs, NEW t
  PROVE  Popping(fix_branch(c, bs, t))
<1>. DEFINE d == fix_branch(c, bs, t)
<1>1. DOMAIN d = DOMAIN c
  BY Fixed
<1>2. ASSUME NEW i \in DOMAIN c PROVE Pops(d[i])
  <2>1. IsInstr(c[i]) /\ Pops(c[i])
    BY DEF IsCode, Popping
  <2>2. d = fix_branch(c, bs, t)
    OBVIOUS
  <2>. HIDE DEF d
  <2>3. /\ d[i].pop = c[i].pop /\ DOMAIN d[i].table = DOMAIN c[i].table
        /\ \A e \in DOMAIN c[i].table : d[i].table[e].pop = c[i].table[e].pop
    BY ONLY <2>1, <2>2, <1>2, FixedAt
  <2>. QED
    BY <2>1, <2>3 DEF Pops
<1>. HIDE DEF d
<1>3. Popping(d)
  BY <1>1, <1>2 DEF Popping
<1>. QED
  BY <1>3 DEF d

-----------------------------------------------------------------------------
(* The opcodes, with the tracker.                                          *)

Tracked == IsCode(code) /\ TrackInv

\* An opcode that leaves the scopes alone.
LEMMA PlainTracked ==
  ASSUME Tracked, NEW op, NEW arg, NEW k, NEW m, Tracks(k, pcs, m), NEW y, Pops(y),
         Parse(op, arg, k, pcs, Append(code, y))
  PROVE  TrackInv'
<1>1. tk' = k /\ pcs' = pcs /\ code' = Append(code, y)
  BY DEF Parse
<1>2. Popping(Append(code, y))
  BY PopsWritten DEF Tracked, TrackInv
<1>. QED
  BY <1>1, <1>2 DEF Tracked, TrackInv

\* Instructions that are not branches pop nothing.
LEMMA NoPops ==
  \A op, arg : Pops(Instr(op)) /\ Pops([Instr(op) EXCEPT !.arg = arg])
BY DEF Pops, Instr

\* drop and select.
LEMMA DropTracked ==
  ASSUME Tracked, DropOp \/ Select
  PROVE  TrackInv'
<1>1. PICK m : Tracks(tk, pcs, m)
  BY DEF Tracked, TrackInv
<1>2. CASE DropOp
  <2>1. CanPopAny(tk) /\ Parse("drop", 0, PopAny(tk), pcs, Append(code, Instr("drop")))
    BY <1>2 DEF DropOp
  <2>2. Tracks(PopAny(tk), pcs, m)
    BY <1>1, <2>1, PopAnyTracks
  <2>. QED
    BY <2>1, <2>2, NoPops, PlainTracked
<1>3. CASE Select
  <2>. DEFINE k0 == Pop(tk, "i32")
              k1 == PopAny(k0)
              k2 == PopAny(k1)
              t0 == TopType(k0)
              t1 == TopType(k1)
              t  == IF t0 # "any" THEN t0 ELSE t1
  <2>1. /\ CanPop(tk, "i32") /\ CanPopAny(k0) /\ CanPopAny(k1)
        /\ Parse("select", 0, Push(k2, t), pcs, Append(code, Instr("select")))
    BY <1>3 DEF Select
  <2>2. "i32" \in BlockTypes
    BY TypesAssumption DEF BlockTypes
  <2>3. Tracks(k0, pcs, m)
    BY <1>1, <2>1, <2>2, PopTracks
  <2>. HIDE DEF k0
  <2>4. Tracks(k1, pcs, m) /\ t0 \in ValueTypes \cup {"any"}
    BY <2>1, <2>3, PopAnyTracks
  <2>. HIDE DEF k1
  <2>5. Tracks(k2, pcs, m) /\ t1 \in ValueTypes \cup {"any"}
    BY <2>1, <2>4, PopAnyTracks
  <2>6. t \in ValueTypes \cup {"any"}
    BY <2>4, <2>5
  <2>. HIDE DEF k2, t
  <2>7. Tracks(Push(k2, t), pcs, m)
    BY <2>5, <2>6, PushTracks
  <2>. QED
    BY <2>1, <2>7, NoPops, PlainTracked
<1>. QED
  BY <1>2, <1>3

\* get_local, set_local, tee_local and const.
LEMMA LocalTracked ==
  ASSUME Tracked,
         \/ \E i \in DOMAIN LocalTypes : GetLocal(i) \/ SetLocal(i) \/ TeeLocal(i)
         \/ \E t \in ValueTypes, v \in Consts : Const(t, v)
  PROVE  TrackInv'
<1>1. PICK m : Tracks(tk, pcs, m)
  BY DEF Tracked, TrackInv
<1>2. ASSUME NEW t \in ValueTypes
      PROVE  /\ Tracks(Push(tk, t), pcs, m)
             /\ CanPop(tk, t) => Tracks(Pop(tk, t), pcs, m)
             /\ CanTop(tk, t) => Tracks(Top(tk, t), pcs, m)
  <2>1. t \in BlockTypes /\ t \in ValueTypes \cup {"any"}
    BY DEF BlockTypes
  <2>. QED
    BY <1>1, <2>1, PushTracks, PopTracks, TopTracks
<1>3. ASSUME NEW i \in DOMAIN LocalTypes, GetLocal(i) \/ SetLocal(i) \/ TeeLocal(i)
      PROVE  TrackInv'
  <2>. DEFINE t == LocalTypes[i]
  <2>1. t \in ValueTypes
    BY FunctionAssumption DEF LocalTypes
  <2>2. PICK op, k : Tracks(k, pcs, m) /\ Parse(op, i, k, pcs, Append(code, LocalInstr(op, i)))
    BY <1>2, <1>3, <2>1 DEF GetLocal, SetLocal, TeeLocal
  <2>. QED
    BY <2>2, NoPops, PlainTracked DEF LocalInstr
<1>4. ASSUME NEW t \in ValueTypes, NEW v, Const(t, v)
      PROVE  TrackInv'
  BY <1>2, <1>4, NoPops, PlainTracked DEF Const
<1>. QED
  BY <1>3, <1>4

\* What only computes.
LEMMA ApplyTracked ==
  ASSUME Tracked, NEW sig \in PlainOps, Plain(sig)
  PROVE  TrackInv'
<1>1. PICK m : Tracks(tk, pcs, m)
  BY DEF Tracked, TrackInv
<1>. DEFINE ts == sig.pops
            j  == Popped(tk, ts)[Len(ts)]
<1>2. ts \in Seq(ValueTypes) /\ sig.push \in ValueTypes \cup {"pseudo"}
  BY PlainAssumption
<1>3. /\ \A i \in DOMAIN ts : CanPop(Popped(tk, ts)[i - 1], ts[i])
      /\ Parse("plain", sig, Apply(tk, sig), pcs, Append(code, [Instr("plain") EXCEPT !.arg = sig]))
  BY DEF Plain, CanApply
<1>4. Apply(tk, sig) = IF sig.push = "pseudo" THEN j ELSE Push(j, sig.push)
  BY DEF Apply
<1>. HIDE DEF ts
<1>5. Tracks(j, pcs, m)
  BY <1>1, <1>2, <1>3, PoppedTracks
<1>. HIDE DEF j
<1>6. sig.push # "pseudo" => Tracks(Push(j, sig.push), pcs, m)
  BY <1>2, <1>5, PushTracks
<1>7. Tracks(Apply(tk, sig), pcs, m)
  BY <1>4, <1>5, <1>6
<1>. QED
  BY <1>3, <1>7, NoPops, PlainTracked

\* unreachable and nop.
LEMMA NopTracked ==
  ASSUME Tracked, Unreachable \/ Nop
  PROVE  TrackInv'
<1>1. PICK m : Tracks(tk, pcs, m)
  BY DEF Tracked, TrackInv
<1>2. CASE Nop
  BY <1>1, <1>2, NoPops, PlainTracked DEF Nop
<1>3. CASE Unreachable
  <2>1. pcs # <<>>
    BY <1>3 DEF Unreachable, Parse, Parsing
  <2>2. Len(pcs) \in Nat \ {0}
    BY <2>1, Shortened DEF Tracked, TrackInv, Scoped
  <2>3. Tracks(start_unreachable(tk), pcs, m)
    BY <1>1, <2>2, UnreachableTracks
  <2>. QED
    BY <1>3, <2>3, NoPops, PlainTracked DEF Unreachable
<1>. QED
  BY <1>2, <1>3

\* A scope opened over the operands there are.
LEMMA OpenTracked ==
  ASSUME NEW p, Scoped(p), NEW k, NEW m, Tracks(k, p, m), NEW z, ScopeTyped(z), z.operand_depth = k.depth
  PROVE  /\ Scoped(Append(p, z))
         /\ \E w : Tracks(push_scope(k), Append(p, z), w) /\ NewMark(k, p, m, w)
<1>. DEFINE q == Append(p, z)
<1>1. /\ IsSeq(q) /\ DOMAIN q = 1..(Len(p) + 1) /\ q[Len(p) + 1] = z
      /\ \A i \in DOMAIN p : i \in DOMAIN q /\ q[i] = p[i]
  <2>1. IsSeq(p)
    BY DEF Scoped
  <2>2. IsSeq(q) /\ DOMAIN q = 1..(Len(p) + 1)
    BY ONLY <2>1, Appended
  <2>3. q[Len(p) + 1] = z
    BY ONLY <2>1, Appended
  <2>4. \A i \in DOMAIN p : i \in DOMAIN q /\ q[i] = p[i]
    BY ONLY <2>1, Appended
  <2>. QED
    BY ONLY <2>2, <2>3, <2>4
<1>2. Len(p) \in Nat /\ DOMAIN p = 1..Len(p)
  BY Lengths DEF Scoped
<1>3. \E w : Tracks(push_scope(k), q, w) /\ NewMark(k, p, m, w)
  BY ScopeTracks DEF Scoped
<1>. HIDE DEF q
<1>4. ASSUME NEW i \in DOMAIN q PROVE i \in DOMAIN p \/ i = Len(p) + 1
  BY <1>1, <1>2
<1>5. \A i \in DOMAIN q : ScopeTyped(q[i])
  BY <1>1, <1>4, Zenon DEF Scoped
<1>. QED
  BY <1>1, <1>3, <1>5 DEF Scoped, q

\* Scopes are made with their types and the depth.
LEMMA ScopeMade ==
  ASSUME NEW k, NEW e \in BlockTypes, NEW b \in BlockTypes, NEW i, NEW t, NEW r
  PROVE  ScopeTyped(Scope(k, e, b, i, t, r)) /\ Scope(k, e, b, i, t, r).operand_depth = k.depth
BY DEF ScopeTyped, Scope

\* block, loop and if.
LEMMA BlockTracked ==
  ASSUME Tracked, NEW t \in BlockTypes, Block(t) \/ Loop(t) \/ If(t)
  PROVE  TrackInv'
<1>1. PICK m : Tracks(tk, pcs, m)
  BY DEF Tracked, TrackInv
<1>2. Scoped(pcs) /\ Popping(code) /\ IsCode(code)
  BY DEF Tracked, TrackInv
<1>3. "pseudo" \in BlockTypes /\ "i32" \in BlockTypes
  BY TypesAssumption DEF BlockTypes
<1>4. CASE Block(t) \/ Loop(t)
  <2>1. PICK z : /\ ScopeTyped(z) /\ z.operand_depth = tk.depth
                 /\ tk' = push_scope(tk) /\ pcs' = Append(pcs, z) /\ code' = code
    BY <1>3, <1>4, ScopeMade DEF Block, Loop, Parse
  <2>2. Scoped(pcs') /\ \E w : Tracks(tk', pcs', w)
    BY <1>1, <1>2, <2>1, OpenTracked
  <2>. QED
    BY <1>2, <2>1, <2>2 DEF TrackInv
<1>5. CASE If(t)
  <2>. DEFINE k == Pop(tk, "i32")
              z == Scope(k, t, t, TRUE, NoTarget, {At(Here)})
  <2>1. /\ CanPop(tk, "i32")
        /\ tk' = push_scope(k) /\ pcs' = Append(pcs, z) /\ code' = Append(code, Instr("if"))
    BY <1>5 DEF If, Parse
  <2>2. Tracks(k, pcs, m)
    BY <1>1, <1>3, <2>1, PopTracks
  <2>. HIDE DEF k
  <2>3. ScopeTyped(z) /\ z.operand_depth = k.depth
    BY ScopeMade
  <2>. HIDE DEF z
  <2>4. Scoped(pcs') /\ \E w : Tracks(tk', pcs', w)
    BY <1>2, <2>1, <2>2, <2>3, OpenTracked
  <2>5. Popping(code')
    BY <1>2, <2>1, NoPops, PopsWritten
  <2>. QED
    BY <2>4, <2>5 DEF TrackInv
<1>. QED
  BY <1>4, <1>5

\* The scopes around the innermost one.
LEMMA OuterScoped ==
  ASSUME NEW p, Scoped(p), p # <<>>
  PROVE  Scoped(Front(p)) /\ ScopeTyped(Last(p))
<1>1. /\ IsSeq(Front(p)) /\ Last(p) = p[Len(p)] /\ Len(p) \in DOMAIN p
      /\ \A i \in DOMAIN Front(p) : i \in DOMAIN p /\ Front(p)[i] = p[i]
  BY Shortened DEF Scoped
<1>. QED
  BY <1>1, Zenon DEF Scoped

\* end.
LEMMA EndTracked ==
  ASSUME Tracked, End
  PROVE  TrackInv'
<1>. DEFINE s == Last(pcs)
            c == fix_branch(code, s.relocations, Here)
<1>1. /\ pcs # <<>> /\ CanPopScope(tk, s.expected)
      /\ tk' = pop_scope(tk, s.expected) /\ pcs' = Front(pcs)
      /\ code' = IF Len(pcs) = 1 THEN Append(c, Return) ELSE c
  BY DEF End, Parse, Parsing
<1>2. PICK m : Tracks(tk, pcs, m)
  BY DEF Tracked, TrackInv
<1>3. Scoped(pcs) /\ Popping(code) /\ IsCode(code)
  BY DEF Tracked, TrackInv
<1>4. Scoped(Front(pcs)) /\ s.expected \in BlockTypes
  BY <1>1, <1>3, OuterScoped DEF ScopeTyped
<1>5. Tracks(tk', pcs', m)
  BY <1>1, <1>2, <1>3, <1>4, PopScopeTracks DEF Scoped
<1>6. Popping(c) /\ IsCode(c)
  BY <1>3, PopsFixed, Fixed
<1>. HIDE DEF c
<1>7. Pops(Return)
  BY DEF Return, Pops, Instr
<1>8. Popping(code')
  BY <1>1, <1>6, <1>7, PopsWritten
<1>. QED
  BY <1>1, <1>4, <1>5, <1>8 DEF TrackInv

\* else: the scope is left without a result and entered again at its depth.
LEMMA ElseTracked ==
  ASSUME Tracked, Else
  PROVE  TrackInv'
<1>. DEFINE s == Last(pcs)
            k == Pop(tk, s.expected)
            j == pop_scope(k, "pseudo")
            z == ElseScope(s)
            p == Front(pcs)
            c0 == Append(code, Instr("else"))
            c == fix_branch(c0, {FirstOf(s.relocations)}, Here + 1)
<1>1. /\ pcs # <<>> /\ CanPop(tk, s.expected) /\ CanPopScope(k, "pseudo")
      /\ tk' = push_scope(j) /\ pcs' = Append(p, z) /\ code' = c
  BY DEF Else, Parse, Parsing
<1>2. PICK m : Tracks(tk, pcs, m)
  BY DEF Tracked, TrackInv
<1>3. Scoped(pcs) /\ IsSeq(pcs) /\ Popping(code) /\ IsCode(code)
  BY DEF Tracked, TrackInv, Scoped
<1>4. Scoped(p) /\ IsSeq(p) /\ ScopeTyped(s) /\ s.expected \in BlockTypes
  BY <1>1, <1>3, OuterScoped DEF Scoped, ScopeTyped
<1>5. "pseudo" \in BlockTypes
  BY DEF BlockTypes
<1>6. Popping(c)
  <2>1. Popping(c0)
    BY <1>3, NoPops, PopsWritten
  <2>2. IsInstr(Instr("else"))
    BY DEF IsInstr, Instr
  <2>3. IsCode(c0)
    BY <1>3, <2>2, Written
  <2>. HIDE DEF c0
  <2>. QED
    BY <2>1, <2>3, PopsFixed
<1>7. ScopeTyped(z) /\ z.operand_depth = s.operand_depth
  <2>. HIDE DEF s
  <2>. QED
    BY <1>4 DEF ElseScope, ScopeTyped
<1>. HIDE DEF c, z, s
<1>8. Tracks(k, pcs, m)
  BY <1>1, <1>2, <1>4, PopTracks
<1>. HIDE DEF k
<1>9. Tracks(j, p, m) /\ j.depth = s.operand_depth
  BY <1>1, <1>3, <1>5, <1>8, PopScopeTracks DEF s
<1>. HIDE DEF j, p
<1>10. Scoped(Append(p, z)) /\ \E w : Tracks(push_scope(j), Append(p, z), w)
  BY <1>4, <1>7, <1>9, OpenTracked
<1>. QED
  BY <1>1, <1>6, <1>10 DEF TrackInv

\* br, return and br_if: one branch, to label l.
LEMMA BranchTracked ==
  ASSUME Tracked, NEW l \in Scopes, Br(l) \/ BrIf(l)
  PROVE  TrackInv'
<1>1. PICK m : Tracks(tk, pcs, m)
  BY DEF Tracked, TrackInv
<1>2. Scoped(pcs) /\ Popping(code) /\ IsCode(code)
  BY DEF Tracked, TrackInv
<1>3. "i32" \in BlockTypes
  BY TypesAssumption DEF BlockTypes
<1>4. Len(pcs) \in Nat \ {0}
  BY <1>2, Lengths DEF Scoped, Scopes
<1>5. PICK op, k : /\ Tracks(k, pcs, m) /\ CanBranch(k, l)
                   /\ tk' \in {AfterBranch(k, l), start_unreachable(AfterBranch(k, l))}
                   /\ pcs' = OneBranch(l) /\ code' = Append(code, BranchInstr(op, k, l))
  <2>1. CASE Br(l)
    BY <1>1, <2>1 DEF Br, Parse
  <2>2. CASE BrIf(l)
    <3>. DEFINE k == Pop(tk, "i32")
    <3>1. /\ CanPop(tk, "i32") /\ CanBranch(k, l)
          /\ tk' = AfterBranch(k, l) /\ pcs' = OneBranch(l)
          /\ code' = Append(code, BranchInstr("br_if", k, l))
      BY <2>2 DEF BrIf, Parse
    <3>2. Tracks(k, pcs, m)
      BY <1>1, <1>3, <3>1, PopTracks
    <3>. HIDE DEF k
    <3>. QED
      BY <3>1, <3>2
  <2>. QED
    BY <2>1, <2>2
<1>. DEFINE j == AfterBranch(k, l)
            y == BranchInstr(op, k, l)
<1>6. Tracks(j, pcs, m) /\ DepthChange(k, l).pop \in Nat
  BY <1>2, <1>5, BranchTracks
<1>7. Pops(y)
  BY <1>6 DEF Pops, BranchInstr, Instr
<1>8. tk' \in {j, start_unreachable(j)} /\ code' = Append(code, y)
  BY <1>5
<1>. HIDE DEF j, y
<1>9. Tracks(tk', pcs, m)
  BY <1>4, <1>6, <1>8, UnreachableTracks
<1>10. Scoped(pcs') /\ Tracks(tk', pcs', m)
  BY <1>2, <1>5, <1>9, ScopesKept DEF OneBranch
<1>11. Popping(code')
  BY <1>2, <1>7, <1>8, PopsWritten
<1>. QED
  BY <1>10, <1>11 DEF TrackInv

\* The trackers between the branches of a br_table.
LEMMA BranchedTracks ==
  ASSUME Scoped(pcs), NEW m, Tracks(tk, pcs, m), CanPop(tk, "i32"), NEW ls, IsSeq(ls),
         \A i \in DOMAIN ls : ls[i] \in Scopes /\ CanBranch(Branched(ls)[i - 1], ls[i])
  PROVE  \A i \in 0..Len(ls) : Tracks(Branched(ls)[i], pcs, m)
<1>. DEFINE F == Branched(ls)
            n == Len(ls)
            T == {i \in 0..n : Tracks(F[i], pcs, m)}
<1>1. n \in Nat /\ DOMAIN ls = 1..n
  BY Lengths
<1>2. F[0] = Pop(tk, "i32") /\ \A i \in 1..n : F[i] = AfterBranch(F[i - 1], ls[i])
  BY BranchedIs
<1>3. \A i \in 1..n : ls[i] \in Scopes /\ CanBranch(F[i - 1], ls[i])
  BY <1>1
<1>. HIDE DEF F, n
<1>4. 0 \in T
  <2>1. "i32" \in BlockTypes
    BY TypesAssumption DEF BlockTypes
  <2>2. Tracks(F[0], pcs, m)
    BY <1>2, <2>1, PopTracks
  <2>. QED
    BY <1>1, <2>2
<1>5. ASSUME NEW h \in 0..(n - 1), h \in T PROVE h + 1 \in T
  <2>1. h + 1 \in 1..n /\ h + 1 \in 0..n /\ (h + 1) - 1 = h
    BY <1>1
  <2>2. Tracks(F[h], pcs, m)
    BY <1>5
  <2>3. F[h + 1] = AfterBranch(F[h], ls[h + 1]) /\ CanBranch(F[h], ls[h + 1]) /\ ls[h + 1] \in Scopes
    BY <1>2, <1>3, <2>1
  <2>4. Tracks(F[h + 1], pcs, m)
    BY <2>2, <2>3, BranchTracks
  <2>. QED
    BY <2>1, <2>4
<1>6. \A h \in 0..n : h \in T
  <2>. HIDE DEF T
  <2>. QED
    BY <1>1, <1>4, <1>5, Climb
<1>. QED
  BY <1>6 DEF F, n

\* br_table.
LEMMA TableTracked ==
  ASSUME Tracked, NEW ls \in SeqOf(Scopes, MaxCases + 1) \ {<<>>}, BrTable(ls)
  PROVE  TrackInv'
<1>. DEFINE k      == Branched(ls)
            n      == Len(ls)
            table  == [i \in DOMAIN ls |-> TableEntry(k[i - 1], ls[i])]
            y      == [Instr("br_table") EXCEPT !.table = table]
            data   == [x \in 1..DataSlots(n - 1) |-> Instr("data")]
            labels == [b \in {AtEntry(Here, i) : i \in DOMAIN ls} |-> ls[b.entry]]
            c      == Append(code, y)
<1>1. /\ CanPop(tk, "i32")
      /\ \A i \in DOMAIN ls : CanBranch(k[i - 1], ls[i])
      /\ tk' = start_unreachable(k[n]) /\ pcs' = BranchScopes(labels) /\ code' = c \o data
  BY DEF BrTable, Parse
<1>2. IsSeq(ls) /\ n \in Nat /\ n >= 1 /\ DOMAIN ls = 1..n /\ \A i \in DOMAIN ls : ls[i] \in Scopes
  <2>1. PICK m \in 0..(MaxCases + 1) : ls \in [1..m -> Scopes]
    BY DEF SeqOf
  <2>2. m \in Nat
    OBVIOUS
  <2>3. ls \in Seq(Scopes)
    BY <2>1, <2>2
  <2>4. ls # <<>>
    OBVIOUS
  <2>5. IsSeq(ls)
    BY <2>3 DEF IsSeq
  <2>. QED
    BY <2>3, <2>4, <2>5
<1>3. PICK m : Tracks(tk, pcs, m)
  BY DEF Tracked, TrackInv
<1>4. Scoped(pcs) /\ Popping(code) /\ IsCode(code)
  BY DEF Tracked, TrackInv
<1>5. \A i \in 0..n : Tracks(k[i], pcs, m)
  BY <1>1, <1>2, <1>3, <1>4, BranchedTracks
<1>. HIDE DEF k, labels
<1>6. pcs' = BranchScopes(labels) => Scoped(pcs') /\ (Tracks(tk', pcs, m) => Tracks(tk', pcs', m))
  BY <1>4, ScopesKept
<1>7. Tracks(tk', pcs, m)
  <2>1. n \in 0..n /\ 1 \in DOMAIN ls
    BY <1>2
  <2>2. ls[1] \in Scopes
    BY <1>2, <2>1
  <2>3. Len(pcs) \in Nat \ {0}
    BY <1>4, <2>2, Lengths DEF Scoped, Scopes
  <2>4. Tracks(k[n], pcs, m)
    BY <1>5, <2>1
  <2>. QED
    BY <1>1, <2>3, <2>4, UnreachableTracks
<1>8. ASSUME NEW i \in DOMAIN ls PROVE table[i].pop \in Nat
  <2>1. i - 1 \in 0..n
    BY <1>2
  <2>2. DepthChange(k[i - 1], ls[i]).pop \in Nat
    BY <1>1, <1>2, <1>4, <1>5, <2>1, BranchTracks
  <2>. QED
    BY <2>2 DEF TableEntry
<1>9. DOMAIN table = DOMAIN ls /\ \A i \in DOMAIN ls : {"pc", "pop", "keep"} \subseteq DOMAIN table[i]
  BY DEF TableEntry
<1>. HIDE DEF table
<1>10. y.pop = 0 /\ y.table = table /\ {"op", "arg", "pc", "pop", "keep", "table"} \subseteq DOMAIN y
  BY DEF Instr
<1>. HIDE DEF y
<1>11. Pops(y) /\ IsInstr(y)
  BY <1>2, <1>8, <1>9, <1>10 DEF Pops, IsInstr
<1>12. Popping(c) /\ IsCode(c)
  BY <1>4, <1>11, PopsWritten, Written
<1>. HIDE DEF c
<1>13. Popping(c \o data)
  <2>1. DataSlots(n - 1) \in Nat
    <3>1. n - 1 \in Nat
      BY <1>2
    <3>. QED
      BY <3>1, SlotsBound, Zenon
  <2>2. data = [x \in 1..DataSlots(n - 1) |-> data[x]] /\ \A x \in 1..DataSlots(n - 1) : data[x] = Instr("data")
    OBVIOUS
  <2>. HIDE DEF data
  <2>3. IsSeq(data) /\ Len(data) = DataSlots(n - 1) /\ DOMAIN data = 1..DataSlots(n - 1)
    BY <2>1, <2>2, Listed
  <2>4. \A x \in DOMAIN data : Pops(data[x])
    BY <2>2, <2>3, NoPops
  <2>5. /\ DOMAIN (c \o data) = 1..(Len(c) + Len(data))
        /\ \A i \in DOMAIN c : i \in DOMAIN (c \o data) /\ (c \o data)[i] = c[i]
        /\ \A i \in 1..(Len(c) + Len(data)) : i \notin DOMAIN c =>
             i - Len(c) \in DOMAIN data /\ (c \o data)[i] = data[i - Len(c)]
    <3>1. IsSeq(c)
      BY <1>12 DEF IsCode
    <3>. QED
      BY <2>3, <3>1, Joined, Zenon
  <2>. DEFINE d == c \o data
  <2>6. ASSUME NEW i \in DOMAIN d PROVE Pops(d[i])
    <3>1. CASE i \in DOMAIN c
      BY <1>12, <2>5, <3>1 DEF Popping
    <3>2. CASE i \notin DOMAIN c
      <4>1. i \in 1..(Len(c) + Len(data))
        BY <2>5
      <4>. QED
        BY ONLY <2>4, <2>5, <3>2, <4>1
    <3>. QED
      BY <3>1, <3>2
  <2>. HIDE DEF d
  <2>7. Popping(d)
    BY <2>6 DEF Popping
  <2>. QED
    BY <2>7 DEF d
<1>. QED
  BY <1>1, <1>6, <1>7, <1>13 DEF TrackInv

\* Every opcode the parser accepts.
LEMMA StepTracked ==
  ASSUME Tracked, ParseStep
  PROVE  TrackInv'
<1>1. CASE DataStep
  <2>1. CASE DropOp \/ Select
    BY <2>1, DropTracked
  <2>2. CASE \/ \E i \in DOMAIN LocalTypes : GetLocal(i) \/ SetLocal(i) \/ TeeLocal(i)
             \/ \E t \in ValueTypes, v \in Consts : Const(t, v)
    BY <2>2, LocalTracked
  <2>3. ASSUME NEW sig \in PlainOps, Plain(sig) PROVE TrackInv'
    BY <2>3, ApplyTracked
  <2>. QED
    BY <1>1, <2>1, <2>2, <2>3 DEF DataStep
<1>2. CASE ControlStep
  <2>1. CASE Unreachable \/ Nop
    BY <2>1, NopTracked
  <2>2. ASSUME NEW t \in BlockTypes, Block(t) \/ Loop(t) \/ If(t) PROVE TrackInv'
    BY <2>2, BlockTracked
  <2>3. CASE Else
    BY <2>3, ElseTracked
  <2>4. CASE End
    BY <2>4, EndTracked
  <2>5. ASSUME NEW l \in Scopes, Br(l) \/ BrIf(l) PROVE TrackInv'
    BY <2>5, BranchTracked
  <2>6. CASE ReturnOp
    <3>1. pcs # <<>> /\ Br(Len(pcs) - 1)
      BY <2>6 DEF ReturnOp, Parsing
    <3>2. Len(pcs) \in Nat \ {0}
      BY <3>1, Shortened DEF Tracked, TrackInv, Scoped
    <3>3. Len(pcs) - 1 \in Scopes
      BY <3>2 DEF Scopes
    <3>. QED
      BY <2>5, <3>1, <3>3
  <2>7. ASSUME NEW ls \in SeqOf(Scopes, MaxCases + 1) \ {<<>>}, BrTable(ls) PROVE TrackInv'
    BY <2>7, TableTracked
  <2>. QED
    BY <1>2, <2>1, <2>2, <2>3, <2>4, <2>5, <2>6, <2>7 DEF ControlStep
<1>. QED
  BY <1>1, <1>2 DEF ParseStep

\* The body starts with its own scope and no operand.
LEMMA TrackInvInit ==
  ASSUME RunInit
  PROVE  TrackInv
<1>. DEFINE k == NewTracker
            z == Scope(k, Result, Result, FALSE, NoTarget, {})
            m == [j \in 1..1 |-> 1]
<1>1. tk = k /\ pcs = <<z>> /\ code = <<>>
  BY DEF RunInit, Init
<1>2. /\ {"state", "depth", "slots", "max", "count", "unreachable_depth", "usage"} \subseteq DOMAIN k
      /\ k.state = <<"scope">> /\ k.depth = 0
  BY DEF NewTracker
<1>. HIDE DEF k
<1>3. ScopeTyped(z) /\ z.operand_depth = 0
  BY <1>2, FunctionAssumption, ScopeMade DEF BlockTypes
<1>. HIDE DEF z
<1>4. <<z>> \in Seq({z}) /\ Len(<<z>>) = 1 /\ DOMAIN <<z>> = 1..1 /\ <<z>>[1] = z
  OBVIOUS
<1>5. Scoped(<<z>>)
  <2>1. IsSeq(<<z>>)
    BY <1>4, Zenon DEF IsSeq
  <2>2. \A j \in 1..1 : j = 1
    OBVIOUS
  <2>. QED
    BY <1>3, <1>4, <2>1, <2>2, Zenon DEF Scoped
<1>. DEFINE st == <<"scope">>
<1>6. st \in Seq(StateTypes) /\ Len(st) = 1 /\ st[1] = "scope"
  BY DEF StateTypes, Tags
<1>. HIDE DEF st
<1>7. Count(st, 1) = 0
  <2>1. OpsIn(st, 1) = {}
    BY <1>6 DEF OpsIn, Tags
  <2>. QED
    BY <2>1, FS_EmptySet DEF Count
<1>8. m[1] = 1 /\ \A j \in 1..1 : j = 1
  OBVIOUS
<1>. HIDE DEF m
<1>9. Marked(st, <<z>>, m)
  BY <1>3, <1>4, <1>6, <1>7, <1>8 DEF Marked
<1>10. Tracks(k, <<z>>, m)
  BY <1>2, <1>6, <1>7, <1>9 DEF Tracks, IsTracker, st
<1>11. Popping(<<>>)
  BY DEF Popping
<1>. QED
  BY <1>1, <1>5, <1>10, <1>11 DEF TrackInv

-----------------------------------------------------------------------------
(* maximum_operand_depth.                                                  *)

\* The maximum covers the depth, and b.
Covers(k, b) ==
  /\ {"state", "depth", "slots", "max", "count", "unreachable_depth", "usage"} \subseteq DOMAIN k
  /\ k.depth \in Int /\ k.max \in Int /\ b \in Int
  /\ k.depth <= k.max /\ b <= k.max

\* One operand more or less.
LEMMA PushCovers ==
  ASSUME NEW k, NEW b, Covers(k, b), NEW t
  PROVE  Covers(Push(k, t), b) /\ Covers(Drop(k, t), b)
<1>. DEFINE x == Push(k, t)
            y == Drop(k, t)
<1>1. DOMAIN x = DOMAIN k /\ x.depth = k.depth + 1 /\ x.max = larger(k.max, k.depth + 1)
  BY DEF Push, Covers
<1>2. DOMAIN y = DOMAIN k /\ y.depth = k.depth - 1 /\ y.max = k.max
  BY DEF Drop, Covers
<1>. HIDE DEF x, y
<1>3. Covers(x, b)
  BY <1>1 DEF Covers, larger
<1>4. Covers(y, b)
  BY <1>2 DEF Covers
<1>. QED
  BY <1>3, <1>4 DEF x, y

\* Operations that leave the depth and its maximum alone.
LEMMA StateCovers ==
  ASSUME NEW k, NEW b, Covers(k, b)
  PROVE  /\ \A f : Covers([k EXCEPT !.state = f], b)
         /\ Covers(push_scope(k), b) /\ Covers(LeaveUnreachable(k), b)
<1>1. ASSUME NEW f PROVE Covers([k EXCEPT !.state = f], b)
  <2>. DEFINE y == [k EXCEPT !.state = f]
  <2>1. DOMAIN y = DOMAIN k /\ y.depth = k.depth /\ y.max = k.max
    BY DEF Covers
  <2>. HIDE DEF y
  <2>2. Covers(y, b)
    BY <2>1 DEF Covers
  <2>. QED
    BY <2>2 DEF y
<1>2. Covers(push_scope(k), b)
  BY <1>1 DEF push_scope
<1>3. Covers(LeaveUnreachable(k), b)
  <2>. DEFINE y == LeaveUnreachable(k)
  <2>1. DOMAIN y = DOMAIN k /\ y.depth = k.depth /\ y.max = k.max
    BY DEF Covers, LeaveUnreachable
  <2>. HIDE DEF y
  <2>2. Covers(y, b)
    BY <2>1 DEF Covers
  <2>. QED
    BY <2>2 DEF y
<1>. QED
  BY <1>1, <1>2, <1>3

\* The tracker's other operations.
LEMMA PopCovers ==
  ASSUME NEW k, NEW b, Covers(k, b)
  PROVE  /\ Covers(PopAny(k), b)
         /\ \A t : Covers(Pop(k, t), b) /\ Covers(Top(k, t), b) /\ Covers(pop_scope(k, t), b)
         /\ \A l : Covers(AfterBranch(k, l), b)
<1>1. Covers(PopAny(k), b)
  BY PushCovers DEF PopAny
<1>2. ASSUME NEW t PROVE Covers(Pop(k, t), b)
  BY PushCovers DEF Pop
<1>3. ASSUME NEW t PROVE Covers(Top(k, t), b)
  BY <1>2, PushCovers DEF Top
<1>4. ASSUME NEW t PROVE Covers(pop_scope(k, t), b)
  <2>. DEFINE i == LeaveUnreachable(Pop(k, t))
              j == [i EXCEPT !.state = Front(@)]
  <2>1. pop_scope(k, t) = IF t = "pseudo" THEN j ELSE Push(j, t)
    BY DEF pop_scope
  <2>2. Covers(i, b)
    BY <1>2, StateCovers
  <2>. HIDE DEF i
  <2>3. Covers(j, b)
    BY <2>2, StateCovers
  <2>. HIDE DEF j
  <2>. QED
    BY <2>1, <2>3, PushCovers
<1>5. ASSUME NEW l PROVE Covers(AfterBranch(k, l), b)
  BY <1>3 DEF AfterBranch
<1>. QED
  BY <1>1, <1>2, <1>3, <1>4, <1>5

\* Several of them.
LEMMA PoppedCovers ==
  ASSUME NEW k, NEW b, Covers(k, b), NEW ts, IsSeq(ts)
  PROVE  Covers(Popped(k, ts)[Len(ts)], b)
<1>. DEFINE F == Popped(k, ts)
            n == Len(ts)
            T == {i \in 0..n : Covers(F[i], b)}
<1>1. n \in Nat
  BY Lengths
<1>2. F[0] = k /\ \A i \in 1..n : F[i] = Pop(F[i - 1], ts[i])
  BY PoppedIs
<1>. HIDE DEF F, n
<1>3. 0 \in T
  BY <1>1, <1>2
<1>4. ASSUME NEW h \in 0..(n - 1), h \in T PROVE h + 1 \in T
  <2>1. h + 1 \in 1..n /\ h + 1 \in 0..n /\ (h + 1) - 1 = h
    BY <1>1
  <2>2. Covers(F[h], b) /\ F[h + 1] = Pop(F[h], ts[h + 1])
    BY <1>2, <1>4, <2>1
  <2>3. Covers(F[h + 1], b)
    BY <2>2, PopCovers
  <2>. QED
    BY <2>1, <2>3
<1>5. n \in T
  <2>. HIDE DEF T
  <2>1. \A h \in 0..n : h \in T
    BY <1>1, <1>3, <1>4, Climb
  <2>. QED
    BY <1>1, <2>1
<1>. QED
  BY <1>5 DEF F, n

\* The branches of a br_table.
LEMMA BranchedCovers ==
  ASSUME NEW b, Covers(tk, b), NEW ls, IsSeq(ls)
  PROVE  Covers(Branched(ls)[Len(ls)], b)
<1>. DEFINE F == Branched(ls)
            n == Len(ls)
            T == {i \in 0..n : Covers(F[i], b)}
<1>1. n \in Nat
  BY Lengths
<1>2. F[0] = Pop(tk, "i32") /\ \A i \in 1..n : F[i] = AfterBranch(F[i - 1], ls[i])
  BY BranchedIs
<1>. HIDE DEF F, n
<1>3. 0 \in T
  <2>1. Covers(F[0], b)
    BY <1>2, PopCovers
  <2>. QED
    BY <1>1, <2>1
<1>4. ASSUME NEW h \in 0..(n - 1), h \in T PROVE h + 1 \in T
  <2>1. h + 1 \in 1..n /\ h + 1 \in 0..n /\ (h + 1) - 1 = h
    BY <1>1
  <2>2. Covers(F[h], b) /\ F[h + 1] = AfterBranch(F[h], ls[h + 1])
    BY <1>2, <1>4, <2>1
  <2>3. Covers(F[h + 1], b)
    BY <2>2, PopCovers
  <2>. QED
    BY <2>1, <2>3
<1>5. n \in T
  <2>. HIDE DEF T
  <2>1. \A h \in 0..n : h \in T
    BY <1>1, <1>3, <1>4, Climb
  <2>. QED
    BY <1>1, <2>1
<1>. QED
  BY <1>5 DEF F, n

\* start_unreachable only forgets operands.
LEMMA UnreachableCovers ==
  ASSUME NEW k, NEW p, NEW m, Tracks(k, p, m), Len(p) \in Nat \ {0}, NEW b, Covers(k, b)
  PROVE  Covers(start_unreachable(k), b)
<1>. DEFINE y == start_unreachable(k)
<1>1. Tracks(y, p, m) /\ y.depth \in Nat /\ y.depth <= k.depth /\ y.max = k.max
  BY UnreachableTracks
<1>. HIDE DEF y
<1>2. Covers(y, b)
  BY <1>1 DEF Covers, Tracks, IsTracker
<1>. QED
  BY <1>2 DEF y

\* Opcodes that open no scope and do not branch.
LEMMA DataCovers ==
  ASSUME Tracked, NEW b, Covers(tk, b), DataStep
  PROVE  Covers(tk', b)
<1>1. CASE DropOp
  BY <1>1, PopCovers DEF DropOp, Parse
<1>2. CASE Select
  <2>. DEFINE k == PopAny(PopAny(Pop(tk, "i32")))
  <2>1. PICK t : tk' = Push(k, t)
    BY <1>2 DEF Select, Parse
  <2>2. Covers(k, b)
    BY PopCovers
  <2>. HIDE DEF k
  <2>. QED
    BY <2>1, <2>2, PushCovers
<1>3. ASSUME NEW i, GetLocal(i) \/ SetLocal(i) \/ TeeLocal(i) PROVE Covers(tk', b)
  BY <1>3, PopCovers, PushCovers DEF GetLocal, SetLocal, TeeLocal, Parse
<1>4. ASSUME NEW t, NEW v, Const(t, v) PROVE Covers(tk', b)
  BY <1>4, PushCovers DEF Const, Parse
<1>5. ASSUME NEW sig \in PlainOps, Plain(sig) PROVE Covers(tk', b)
  <2>. DEFINE ts == sig.pops
              j  == Popped(tk, ts)[Len(ts)]
  <2>1. ts \in Seq(ValueTypes)
    BY PlainAssumption
  <2>2. tk' = IF sig.push = "pseudo" THEN j ELSE Push(j, sig.push)
    BY <1>5 DEF Plain, Parse, Apply
  <2>. HIDE DEF ts
  <2>3. Covers(j, b)
    BY <2>1, PoppedCovers DEF IsSeq
  <2>. HIDE DEF j
  <2>. QED
    BY <2>2, <2>3, PushCovers
<1>. QED
  BY <1>1, <1>2, <1>3, <1>4, <1>5 DEF DataStep

\* Branches, after which the code is unreachable or goes on.
LEMMA BranchCovers ==
  ASSUME Tracked, NEW b, Covers(tk, b), NEW l \in Scopes, Br(l) \/ BrIf(l)
  PROVE  Covers(tk', b)
<1>1. PICK m : Tracks(tk, pcs, m)
  BY DEF Tracked, TrackInv
<1>2. Scoped(pcs) /\ Len(pcs) \in Nat \ {0}
  BY Lengths DEF Tracked, TrackInv, Scoped, Scopes
<1>3. CASE Br(l)
  <2>. DEFINE k == AfterBranch(tk, l)
  <2>1. CanBranch(tk, l) /\ tk' = start_unreachable(k)
    BY <1>3 DEF Br, Parse
  <2>2. Tracks(k, pcs, m) /\ Covers(k, b)
    BY <1>1, <1>2, <2>1, BranchTracks, PopCovers
  <2>. HIDE DEF k
  <2>. QED
    BY <1>2, <2>1, <2>2, UnreachableCovers
<1>4. CASE BrIf(l)
  <2>. DEFINE k == Pop(tk, "i32")
  <2>1. tk' = AfterBranch(k, l)
    BY <1>4 DEF BrIf, Parse
  <2>2. Covers(k, b)
    BY PopCovers
  <2>. HIDE DEF k
  <2>. QED
    BY <2>1, <2>2, PopCovers
<1>. QED
  BY <1>3, <1>4

\* br_table.
LEMMA TableCovers ==
  ASSUME Tracked, NEW b, Covers(tk, b), NEW ls \in SeqOf(Scopes, MaxCases + 1) \ {<<>>}, BrTable(ls)
  PROVE  Covers(tk', b)
<1>. DEFINE k == Branched(ls)
            n == Len(ls)
<1>1. /\ CanPop(tk, "i32") /\ \A i \in DOMAIN ls : CanBranch(k[i - 1], ls[i])
      /\ tk' = start_unreachable(k[n])
  BY DEF BrTable, Parse
<1>2. ls \in Seq(Scopes) /\ ls # <<>>
  <2>1. PICK m \in 0..(MaxCases + 1) : ls \in [1..m -> Scopes]
    BY DEF SeqOf
  <2>2. m \in Nat
    OBVIOUS
  <2>. QED
    BY <2>1, <2>2
<1>3. IsSeq(ls) /\ n \in Nat /\ 1 \in DOMAIN ls /\ n \in 0..n /\ \A i \in DOMAIN ls : ls[i] \in Scopes
  <2>1. IsSeq(ls)
    BY <1>2 DEF IsSeq
  <2>. QED
    BY <1>2, <2>1
<1>4. PICK m : Tracks(tk, pcs, m)
  BY DEF Tracked, TrackInv
<1>5. Scoped(pcs) /\ Len(pcs) \in Nat \ {0}
  <2>1. Scoped(pcs) /\ ls[1] \in Scopes
    BY <1>3 DEF Tracked, TrackInv
  <2>. QED
    BY <2>1, Lengths DEF Scoped, Scopes
<1>6. \A i \in 0..n : Tracks(k[i], pcs, m)
  BY <1>1, <1>3, <1>4, <1>5, BranchedTracks
<1>7. Covers(k[n], b)
  BY <1>3, BranchedCovers
<1>. HIDE DEF k, n
<1>. QED
  BY <1>1, <1>3, <1>5, <1>6, <1>7, UnreachableCovers

\* Every opcode the parser accepts.
LEMMA StepCovers ==
  ASSUME Tracked, NEW b, Covers(tk, b), ParseStep
  PROVE  Covers(tk', b)
<1>1. CASE DataStep
  BY <1>1, DataCovers
<1>2. CASE ControlStep
  <2>1. CASE Unreachable
    <3>1. pcs # <<>> /\ tk' = start_unreachable(tk)
      BY <2>1 DEF Unreachable, Parse, Parsing
    <3>2. Len(pcs) \in Nat \ {0}
      BY <3>1, Shortened DEF Tracked, TrackInv, Scoped
    <3>. QED
      BY <3>1, <3>2, UnreachableCovers DEF Tracked, TrackInv
  <2>2. CASE Nop
    BY <2>2 DEF Nop, Parse
  <2>3. ASSUME NEW t, Block(t) \/ Loop(t) PROVE Covers(tk', b)
    BY <2>3, StateCovers DEF Block, Loop, Parse
  <2>4. ASSUME NEW t, If(t) PROVE Covers(tk', b)
    <3>1. Covers(Pop(tk, "i32"), b)
      BY PopCovers
    <3>. QED
      BY <2>4, <3>1, StateCovers DEF If, Parse
  <2>5. CASE Else
    <3>. DEFINE k == pop_scope(Pop(tk, Last(pcs).expected), "pseudo")
    <3>1. tk' = push_scope(k)
      BY <2>5 DEF Else, Parse
    <3>2. Covers(k, b)
      BY PopCovers
    <3>. HIDE DEF k
    <3>. QED
      BY <3>1, <3>2, StateCovers
  <2>6. CASE End
    <3>1. tk' = pop_scope(tk, Last(pcs).expected)
      BY <2>6 DEF End, Parse
    <3>. QED
      BY <3>1, PopCovers
  <2>7. ASSUME NEW l \in Scopes, Br(l) \/ BrIf(l) PROVE Covers(tk', b)
    BY <2>7, BranchCovers
  <2>8. CASE ReturnOp
    <3>1. pcs # <<>> /\ Br(Len(pcs) - 1)
      BY <2>8 DEF ReturnOp, Parsing
    <3>2. Len(pcs) \in Nat \ {0}
      BY <3>1, Shortened DEF Tracked, TrackInv, Scoped
    <3>3. Len(pcs) - 1 \in Scopes
      BY <3>2 DEF Scopes
    <3>. QED
      BY <2>7, <3>1, <3>3
  <2>9. ASSUME NEW ls \in SeqOf(Scopes, MaxCases + 1) \ {<<>>}, BrTable(ls) PROVE Covers(tk', b)
    BY <2>9, TableCovers
  <2>. QED
    BY <1>2, <2>1, <2>2, <2>3, <2>4, <2>5, <2>6, <2>7, <2>8, <2>9 DEF ControlStep
<1>. QED
  BY <1>1, <1>2 DEF ParseStep

\* The operands there are, and there were at every opcode.
CoverInv == Covers(tk, tk.depth) /\ \A n \in DOMAIN src : Covers(tk, Held(src[n].state))

\* Nothing is on the stack yet.
LEMMA CoverInvInit ==
  ASSUME RunInit
  PROVE  CoverInv
<1>1. tk = NewTracker /\ DOMAIN src = {}
  BY DEF RunInit, Init
<1>2. Covers(NewTracker, NewTracker.depth)
  BY DEF Covers, NewTracker
<1>. QED
  BY <1>1, <1>2 DEF CoverInv

\* The next opcode is noted with the tracker before it.
LEMMA CoverInvStep ==
  ASSUME Tracked, IsSeq(src), CoverInv, ParseStep, NEW x, src' = Append(src, x), x.state = tk.state
  PROVE  CoverInv'
<1>1. Covers(tk', tk.depth) /\ \A n \in DOMAIN src : Covers(tk', Held(src[n].state))
  BY StepCovers DEF CoverInv
<1>2. Covers(tk', tk'.depth)
  BY <1>1 DEF Covers
<1>3. Held(x.state) = tk.depth
  <2>1. /\ tk.state \in Seq(StateTypes) /\ DOMAIN tk.state = 1..Len(tk.state)
        /\ tk.depth = Count(tk.state, Len(tk.state))
    BY DEF Tracked, TrackInv, Tracks, IsTracker
  <2>. QED
    BY <2>1, Zenon DEF Count, OpsIn, Held
<1>4. ASSUME NEW n \in DOMAIN Append(src, x) PROVE Covers(tk', Held(Append(src, x)[n].state))
  <2>1. /\ DOMAIN Append(src, x) = 1..(Len(src) + 1) /\ Append(src, x)[Len(src) + 1] = x
        /\ \A i \in DOMAIN src : Append(src, x)[i] = src[i]
    BY Appended
  <2>2. Len(src) \in Nat /\ DOMAIN src = 1..Len(src)
    BY Lengths
  <2>3. n \in DOMAIN src \/ n = Len(src) + 1
    BY <2>1, <2>2
  <2>. QED
    BY <1>1, <1>3, <2>1, <2>3
<1>. QED
  BY <1>2, <1>4 DEF CoverInv

\* Every opcode is noted.
LEMMA Noted ==
  ASSUME ParseStep
  PROVE  \E x : src' = Append(src, x) /\ x.state = tk.state
<1>1. ASSUME NEW op, NEW arg, NEW k, NEW p, NEW c, Parse(op, arg, k, p, c)
      PROVE  \E x : src' = Append(src, x) /\ x.state = tk.state
  <2>. DEFINE x == Entry(op, arg)
  <2>1. src' = Append(src, x)
    BY <1>1 DEF Parse, Entry
  <2>2. x.state = tk.state
    BY DEF Entry
  <2>. QED
    BY <2>1, <2>2, Zenon
<1>2. CASE DataStep
  BY <1>1, <1>2, Zenon DEF DataStep, DropOp, Select, GetLocal, SetLocal, TeeLocal, Const, Plain
<1>3. CASE ControlStep
  BY <1>1, <1>3, Zenon DEF ControlStep, Unreachable, Nop, Block, Loop, If, Else, End, ReturnOp, Br, BrIf, BrTable
<1>. QED
  BY <1>2, <1>3 DEF ParseStep

\* What the tracker's invariants say of the operands and the branches.
LEMMA TrackerFromInv ==
  ASSUME TrackInv, CoverInv
  PROVE  TrackerOK
<1>1. PICK m : Tracks(tk, pcs, m)
  BY DEF TrackInv
<1>2. /\ tk.state \in Seq(StateTypes) /\ DOMAIN tk.state = 1..Len(tk.state) /\ Len(tk.state) \in Nat
      /\ tk.depth = Count(tk.state, Len(tk.state))
  BY <1>1 DEF Tracks, IsTracker
<1>3. tk.depth = Held(tk.state)
  BY <1>2, Zenon DEF Count, OpsIn, Held
<1>4. \A j \in DOMAIN pcs : pcs[j].operand_depth \in 0..tk.depth
  <2>1. DOMAIN pcs = 1..Len(pcs)
    BY Lengths DEF TrackInv, Scoped
  <2>. QED
    BY <1>1, <2>1, DepthThere
<1>5. \A i \in DOMAIN code : Pops(code[i])
  BY DEF TrackInv, Popping
<1>6. tk.depth \in Nat
  BY <1>2, Counting
<1>7. tk.max \in Nat /\ tk.depth <= tk.max
  BY <1>6 DEF CoverInv, Covers
<1>8. \A n \in DOMAIN src : Held(src[n].state) <= tk.max
  BY DEF CoverInv, Covers
<1>. QED
  BY <1>2, <1>3, <1>4, <1>5, <1>7, <1>8 DEF TrackerOK, StateTypes, Pops

\* Every step of compiling and running, of which only the parser's touch it.
LEMMA TrackerStep ==
  ASSUME CodeInv, TrackInv, CoverInv, [Next]_vars
  PROVE  TrackInv' /\ CoverInv'
<1>1. Tracked /\ IsSeq(src)
  BY DEF Tracked, CodeInv, Resolving, WellMade
<1>2. CASE Compile
  <2>1. ParseStep
    BY <1>2 DEF Compile
  <2>2. PICK x : src' = Append(src, x) /\ x.state = tk.state
    BY <2>1, Noted
  <2>3. TrackInv'
    BY <1>1, <2>1, StepTracked
  <2>4. CoverInv'
    BY <1>1, <2>1, <2>2, CoverInvStep
  <2>. QED
    BY <2>3, <2>4
<1>3. CASE UNCHANGED pvars
  BY <1>3 DEF TrackInv, CoverInv, pvars
<1>4. UNCHANGED vars => UNCHANGED pvars
  BY DEF vars, pvars
<1>5. Next => Compile \/ UNCHANGED pvars
  BY Zenon DEF Next, Call, EnterOrLeave, Execute
<1>. QED
  BY <1>2, <1>3, <1>4, <1>5

\* The tracker counts the operands there are and its maximum covers what there
\* were at every opcode; every open scope's operand_depth is among them, and no
\* branch's pop count wraps, in unreachable code and after else too
\* (operand_stack_type_tracker, compute_depth_change, pc_stack).
THEOREM TrackerAlways == Spec => []TrackerOK
<1>1. RunInit => TrackInv /\ CoverInv
  BY TrackInvInit, CoverInvInit
<1>2. CodeInv /\ TrackInv /\ CoverInv /\ [Next]_vars => TrackInv' /\ CoverInv'
  BY TrackerStep
<1>3. TrackInv /\ CoverInv => TrackerOK
  BY TrackerFromInv
<1>. QED
  BY <1>1, <1>2, <1>3, CodeInvariant, PTL DEF Spec

-----------------------------------------------------------------------------
(* Heights.  What the tracker's operations do to the depth of code that    *)
(* can be reached, and to what lies below the marks of open scopes.        *)

Clear(st, n) == \A i \in 1..n : st[i] # "unreachable"
Reach(k) == Clear(k.state, Len(k.state))
Keeps(t) == IF t = "pseudo" THEN 0 ELSE 1

Effect(k, j, p, m, d) == Inside(k, j, p, m) /\ (Reach(k) => Reach(j) /\ j.depth = k.depth + d)

\* The depth is a number.
LEMMA DepthIs ==
  ASSUME NEW k, NEW p, NEW m, Tracks(k, p, m)
  PROVE  k.depth \in Nat
BY Counting DEF Tracks, IsTracker

\* One operation after another.
LEMMA EffectsAdd ==
  ASSUME NEW p, NEW m, NEW k, k.depth \in Int, NEW j, NEW l, NEW d \in Int, NEW e \in Int,
         Effect(k, j, p, m, d), Effect(j, l, p, m, e)
  PROVE  Effect(k, l, p, m, d + e)
<1>1. Inside(k, l, p, m)
  BY DEF Effect, Inside
<1>2. Reach(k) => Reach(l) /\ l.depth = k.depth + (d + e)
  <2>1. Reach(k) => Reach(l) /\ j.depth = k.depth + d /\ l.depth = j.depth + e
    BY DEF Effect
  <2>. QED
    BY <2>1
<1>. QED
  BY <1>1, <1>2 DEF Effect

\* push.
LEMMA PushEffect ==
  ASSUME NEW k, NEW p, NEW m, Tracks(k, p, m), NEW t \in ValueTypes \cup {"any"}
  PROVE  Effect(k, Push(k, t), p, m, 1)
<1>. DEFINE st == k.state
            n  == Len(st)
            r  == Append(st, t)
            y  == Push(k, t)
<1>1. /\ {"state", "depth", "slots", "max", "count", "unreachable_depth", "usage"} \subseteq DOMAIN k
      /\ st \in Seq(StateTypes) /\ n \in Nat /\ Marked(st, p, m)
  BY DEF Tracks, IsTracker
<1>2. y.state = r /\ y.depth = k.depth + 1
  BY <1>1 DEF Push
<1>3. t # "unreachable" /\ t \in StateTypes
  BY NoMark DEF Tags
<1>4. Len(r) = n + 1 /\ r[n + 1] = t /\ \A i \in 1..n : r[i] = st[i]
  BY <1>1, <1>3
<1>5. \A h \in 1..Len(p) : m[h] \in 1..n
  BY <1>1 DEF Marked
<1>. HIDE DEF st, n, r, y
<1>6. \A h \in 1..Len(p) : \A i \in 1..m[h] : r[i] = st[i]
  BY <1>1, <1>4, <1>5
<1>7. Clear(st, n) => Clear(r, n + 1)
  <2>. SUFFICES ASSUME Clear(st, n), NEW i \in 1..(n + 1) PROVE r[i] # "unreachable"
    BY DEF Clear
  <2>1. i = n + 1 \/ i \in 1..n
    BY <1>1
  <2>. QED
    BY <1>3, <1>4, <2>1 DEF Clear
<1>8. Effect(k, y, p, m, 1)
  BY <1>2, <1>4, <1>6, <1>7 DEF Effect, Inside, Reach, st, n
<1>. QED
  BY <1>8 DEF y

\* One operand less.
LEMMA DropEffect ==
  ASSUME NEW k, NEW p, NEW m, Tracks(k, p, m), NEW t, k.state # <<>>, Last(k.state) \notin Tags
  PROVE  Effect(k, Drop(k, t), p, m, -1)
<1>. DEFINE st == k.state
            n  == Len(st)
            r  == Front(st)
            y  == Drop(k, t)
<1>1. /\ {"state", "depth", "slots", "max", "count", "unreachable_depth", "usage"} \subseteq DOMAIN k
      /\ st \in Seq(StateTypes) /\ Marked(st, p, m)
  BY DEF Tracks, IsTracker
<1>2. y.state = r /\ y.depth = k.depth - 1
  BY <1>1 DEF Drop
<1>3. /\ n \in Nat \ {0} /\ Len(r) = n - 1 /\ \A i \in 1..(n - 1) : r[i] = st[i]
      /\ Last(st) = st[n]
  <2>1. IsSeq(st) /\ st # <<>>
    BY <1>1 DEF IsSeq
  <2>2. /\ n \in Nat \ {0} /\ Len(r) = n - 1 /\ DOMAIN r = 1..(n - 1) /\ Last(st) = st[n]
        /\ \A i \in DOMAIN r : i \in DOMAIN st /\ r[i] = st[i]
    BY ONLY <2>1, Shortened
  <2>. QED
    BY <2>2
<1>4. st[n] # "scope"
  BY <1>3 DEF Tags
<1>5. \A h \in 1..Len(p) : m[h] \in 1..n /\ st[m[h]] = "scope"
  BY <1>1 DEF Marked
<1>6. k.depth \in Int
  BY DepthIs
<1>. HIDE DEF st, n, r, y
<1>7. \A h \in 1..Len(p) : m[h] \in 1..(n - 1)
  BY <1>3, <1>4, <1>5
<1>8. \A h \in 1..Len(p) : \A i \in 1..m[h] : r[i] = st[i]
  BY <1>3, <1>7
<1>9. Clear(st, n) => Clear(r, n - 1)
  BY <1>3 DEF Clear
<1>10. y.depth = k.depth + (-1)
  BY <1>2, <1>6
<1>11. Effect(k, y, p, m, -1)
  BY <1>2, <1>3, <1>8, <1>9, <1>10 DEF Effect, Inside, Reach, st, n
<1>. QED
  BY <1>11 DEF y

\* A tracker at "unreachable" is not one of code that can be reached.
LEMMA NotReached ==
  ASSUME NEW k, NEW p, NEW m, Tracks(k, p, m), Len(p) \in Nat \ {0}, Back(k) = "unreachable"
  PROVE  ~Reach(k)
<1>1. k.state \in Seq(StateTypes) /\ k.state # <<>>
  BY LastMark DEF Tracks, IsTracker
<1>2. Len(k.state) \in 1..Len(k.state) /\ k.state[Len(k.state)] = "unreachable"
  BY <1>1 DEF Back, Last
<1>. QED
  BY <1>2 DEF Reach, Clear

\* pop(expected).
LEMMA PopEffect ==
  ASSUME NEW k, NEW p, NEW m, Tracks(k, p, m), Len(p) \in Nat \ {0}, NEW t \in BlockTypes, CanPop(k, t)
  PROVE  Effect(k, Pop(k, t), p, m, -Keeps(t))
<1>1. k.depth \in Int
  BY DepthIs
<1>2. CASE t = "pseudo"
  <2>1. Pop(k, t) = k
    BY <1>2 DEF Pop
  <2>2. Keeps(t) = 0
    BY <1>2 DEF Keeps
  <2>3. k.depth + (-Keeps(t)) = k.depth
    BY <1>1, <2>2
  <2>. QED
    BY <2>1, <2>3 DEF Effect, Inside
<1>3. CASE t # "pseudo" /\ Back(k) = "unreachable"
  <2>1. Pop(k, t) = k /\ ~Reach(k)
    BY <1>3, NotReached DEF Pop
  <2>. QED
    BY <2>1 DEF Effect, Inside
<1>4. CASE t # "pseudo" /\ Back(k) # "unreachable"
  <2>1. k.state # <<>> /\ Last(k.state) \in {t, "any"}
    BY <1>4 DEF CanPop, Back
  <2>2. Last(k.state) \notin Tags
    BY <1>4, <2>1, NoMark DEF BlockTypes
  <2>3. Effect(k, Drop(k, t), p, m, -1)
    BY <2>1, <2>2, DropEffect
  <2>4. Pop(k, t) = Drop(k, t) /\ -Keeps(t) = -1
    BY <1>4 DEF Pop, Keeps
  <2>. QED
    BY ONLY <2>3, <2>4
<1>. QED
  BY <1>2, <1>3, <1>4

\* pop().
LEMMA PopAnyEffect ==
  ASSUME NEW k, NEW p, NEW m, Tracks(k, p, m), Len(p) \in Nat \ {0}, CanPopAny(k)
  PROVE  Effect(k, PopAny(k), p, m, -1)
<1>1. k.state # <<>> /\ Last(k.state) # "scope"
  BY DEF CanPopAny, Back
<1>2. CASE Back(k) = "unreachable"
  <2>1. PopAny(k) = k /\ ~Reach(k)
    BY <1>2, NotReached DEF PopAny
  <2>. QED
    BY <2>1 DEF Effect, Inside
<1>3. CASE Back(k) # "unreachable"
  <2>1. Last(k.state) \notin Tags
    BY <1>1, <1>3 DEF Back, Tags
  <2>2. Effect(k, Drop(k, Back(k)), p, m, -1)
    BY <1>1, <2>1, DropEffect
  <2>3. PopAny(k) = Drop(k, Back(k))
    BY <1>3 DEF PopAny
  <2>. QED
    BY ONLY <2>2, <2>3
<1>. QED
  BY <1>2, <1>3

\* top(expected).
LEMMA TopEffect ==
  ASSUME NEW k, NEW p, NEW m, Tracks(k, p, m), Len(p) \in Nat \ {0}, NEW t \in ValueTypes, CanTop(k, t)
  PROVE  Effect(k, Top(k, t), p, m, 0)
<1>. DEFINE j == Pop(k, t)
<1>1. CanPop(k, t) /\ Top(k, t) = Push(j, t) /\ t \in BlockTypes /\ t \in ValueTypes \cup {"any"}
  BY DEF CanTop, Top, BlockTypes
<1>2. Keeps(t) = 1
  BY TypesAssumption DEF Keeps
<1>3. Tracks(j, p, m) /\ Effect(k, j, p, m, -1)
  BY <1>1, <1>2, PopTracks, PopEffect
<1>. HIDE DEF j
<1>4. Effect(j, Push(j, t), p, m, 1)
  BY <1>1, <1>3, PushEffect
<1>5. k.depth \in Int /\ -1 \in Int /\ 1 \in Int /\ (-1) + 1 = 0
  BY DepthIs
<1>6. Effect(k, Push(j, t), p, m, (-1) + 1)
  BY ONLY <1>3, <1>4, <1>5, EffectsAdd
<1>. QED
  BY ONLY <1>1, <1>5, <1>6

\* A branch leaves the tracker's depth as it is.
LEMMA BranchEffect ==
  ASSUME Scoped(pcs), NEW k, NEW m, Tracks(k, pcs, m), NEW l \in Scopes, CanBranch(k, l)
  PROVE  Effect(k, AfterBranch(k, l), pcs, m, 0)
<1>. DEFINE z == Label(l)
<1>1. Len(pcs) \in Nat \ {0} /\ Len(pcs) - l \in DOMAIN pcs
  BY Lengths DEF Scoped, Scopes
<1>2. z.label \in BlockTypes
  BY <1>1 DEF Scoped, ScopeTyped, Label
<1>3. k.depth \in Int
  BY DepthIs
<1>. HIDE DEF z
<1>4. CASE z.label = "pseudo"
  <2>1. AfterBranch(k, l) = k
    BY <1>4 DEF AfterBranch, z
  <2>. QED
    BY <1>3, <2>1 DEF Effect, Inside
<1>5. CASE z.label # "pseudo"
  <2>1. z.label \in ValueTypes /\ CanTop(k, z.label) /\ AfterBranch(k, l) = Top(k, z.label)
    BY <1>2, <1>5 DEF BlockTypes, CanBranch, AfterBranch, z
  <2>2. Effect(k, Top(k, z.label), pcs, m, 0)
    BY <1>1, <2>1, TopEffect
  <2>. QED
    BY ONLY <2>1, <2>2
<1>. QED
  BY <1>4, <1>5

\* Pops in order.
LEMMA PoppedEffect ==
  ASSUME NEW k, NEW p, NEW m, Tracks(k, p, m), Len(p) \in Nat \ {0}, NEW ts \in Seq(ValueTypes),
         \A i \in DOMAIN ts : CanPop(Popped(k, ts)[i - 1], ts[i])
  PROVE  Effect(k, Popped(k, ts)[Len(ts)], p, m, -Len(ts))
<1>. DEFINE F == Popped(k, ts)
            n == Len(ts)
            T == {i \in 0..n : Tracks(F[i], p, m) /\ Effect(k, F[i], p, m, -i)}
<1>1. n \in Nat /\ DOMAIN ts = 1..n /\ \A i \in 1..n : ts[i] \in BlockTypes /\ ts[i] # "pseudo"
  BY TypesAssumption DEF BlockTypes
<1>2. F[0] = k /\ \A i \in 1..n : F[i] = Pop(F[i - 1], ts[i])
  <2>1. IsSeq(ts)
    BY DEF IsSeq
  <2>. QED
    BY <2>1, PoppedIs
<1>3. \A i \in 1..n : CanPop(F[i - 1], ts[i])
  BY <1>1
<1>4. k.depth \in Int
  BY DepthIs
<1>. HIDE DEF F, n
<1>5. 0 \in T
  <2>1. k.depth + (-0) = k.depth
    BY <1>4
  <2>2. Effect(k, F[0], p, m, -0)
    BY <1>2, <2>1 DEF Effect, Inside
  <2>. QED
    BY <1>1, <1>2, <2>2
<1>6. ASSUME NEW h \in 0..(n - 1), h \in T PROVE h + 1 \in T
  <2>1. h + 1 \in 1..n /\ h + 1 \in 0..n /\ (h + 1) - 1 = h
    BY <1>1
  <2>2. Tracks(F[h], p, m) /\ Effect(k, F[h], p, m, -h)
    BY <1>6
  <2>3. /\ F[h + 1] = Pop(F[h], ts[h + 1]) /\ CanPop(F[h], ts[h + 1])
        /\ ts[h + 1] \in BlockTypes /\ ts[h + 1] # "pseudo"
    BY <1>1, <1>2, <1>3, <2>1
  <2>4. Tracks(F[h + 1], p, m)
    BY <2>2, <2>3, PopTracks
  <2>5. Keeps(ts[h + 1]) = 1
    BY <2>3 DEF Keeps
  <2>6. Effect(F[h], F[h + 1], p, m, -1)
    BY <2>2, <2>3, <2>5, PopEffect
  <2>7. -h \in Int /\ -1 \in Int /\ (-h) + (-1) = -(h + 1)
    BY <1>1
  <2>8. Effect(k, F[h + 1], p, m, (-h) + (-1))
    BY ONLY <1>4, <2>2, <2>6, <2>7, EffectsAdd
  <2>9. Effect(k, F[h + 1], p, m, -(h + 1))
    BY ONLY <2>7, <2>8
  <2>. QED
    BY <2>1, <2>4, <2>9
<1>7. n \in T
  <2>. HIDE DEF T
  <2>1. \A h \in 0..n : h \in T
    BY <1>1, <1>5, <1>6, Climb
  <2>. QED
    BY <1>1, <2>1
<1>. QED
  BY <1>7 DEF F, n

\* The trackers between the branches of a br_table.
LEMMA BranchedEffect ==
  ASSUME Scoped(pcs), NEW m, Tracks(tk, pcs, m), Len(pcs) \in Nat \ {0}, CanPop(tk, "i32"), NEW ls, IsSeq(ls),
         \A i \in DOMAIN ls : ls[i] \in Scopes /\ CanBranch(Branched(ls)[i - 1], ls[i])
  PROVE  \A i \in 0..Len(ls) : Effect(tk, Branched(ls)[i], pcs, m, -1)
<1>. DEFINE F == Branched(ls)
            n == Len(ls)
            T == {i \in 0..n : Effect(tk, F[i], pcs, m, -1)}
<1>1. n \in Nat /\ DOMAIN ls = 1..n
  BY Lengths
<1>2. F[0] = Pop(tk, "i32") /\ \A i \in 1..n : F[i] = AfterBranch(F[i - 1], ls[i])
  BY BranchedIs
<1>3. \A i \in 1..n : ls[i] \in Scopes /\ CanBranch(F[i - 1], ls[i])
  BY <1>1
<1>4. \A i \in 0..n : Tracks(F[i], pcs, m)
  BY BranchedTracks
<1>5. tk.depth \in Int
  BY DepthIs
<1>. HIDE DEF F, n
<1>6. 0 \in T
  <2>1. "i32" \in BlockTypes /\ Keeps("i32") = 1
    BY TypesAssumption DEF BlockTypes, Keeps
  <2>2. Effect(tk, F[0], pcs, m, -1)
    BY <1>2, <2>1, PopEffect
  <2>. QED
    BY <1>1, <2>2
<1>7. ASSUME NEW h \in 0..(n - 1), h \in T PROVE h + 1 \in T
  <2>1. h + 1 \in 1..n /\ h + 1 \in 0..n /\ (h + 1) - 1 = h /\ h \in 0..n
    BY <1>1
  <2>2. Tracks(F[h], pcs, m) /\ Effect(tk, F[h], pcs, m, -1)
    BY <1>4, <1>7, <2>1
  <2>3. F[h + 1] = AfterBranch(F[h], ls[h + 1]) /\ CanBranch(F[h], ls[h + 1]) /\ ls[h + 1] \in Scopes
    BY <1>2, <1>3, <2>1
  <2>4. Effect(F[h], F[h + 1], pcs, m, 0)
    BY <2>2, <2>3, BranchEffect
  <2>5. -1 \in Int /\ 0 \in Int /\ (-1) + 0 = -1
    OBVIOUS
  <2>6. Effect(tk, F[h + 1], pcs, m, (-1) + 0)
    BY ONLY <1>5, <2>2, <2>4, <2>5, EffectsAdd
  <2>7. Effect(tk, F[h + 1], pcs, m, -1)
    BY ONLY <2>5, <2>6
  <2>. QED
    BY <2>1, <2>7
<1>8. \A h \in 0..n : h \in T
  <2>. HIDE DEF T
  <2>. QED
    BY <1>1, <1>6, <1>7, Climb
<1>. QED
  BY <1>8 DEF F, n

\* push_scope.
LEMMA OpenEffect ==
  ASSUME NEW k, NEW p, NEW m, Tracks(k, p, m), NEW w, NewMark(k, p, m, w)
  PROVE  LET y == push_scope(k) IN
         /\ y.depth = k.depth
         /\ Reach(k) => Reach(y)
         /\ Clear(y.state, w[Len(p) + 1]) => Reach(y) /\ Reach(k)
         /\ \A j \in 1..Len(p) : Clear(k.state, m[j]) <=> Clear(y.state, w[j])
<1>. DEFINE st == k.state
            n  == Len(st)
            r  == Append(st, "scope")
            y  == push_scope(k)
<1>1. /\ {"state", "depth", "slots", "max", "count", "unreachable_depth", "usage"} \subseteq DOMAIN k
      /\ st \in Seq(StateTypes) /\ n \in Nat /\ Marked(st, p, m)
  BY DEF Tracks, IsTracker
<1>2. y.state = r /\ y.depth = k.depth
  BY <1>1 DEF push_scope
<1>3. "scope" \in StateTypes
  BY DEF StateTypes, Tags
<1>4. Len(r) = n + 1 /\ r[n + 1] = "scope" /\ \A i \in 1..n : r[i] = st[i]
  BY <1>1, <1>3
<1>5. \A j \in 1..Len(p) : m[j] \in 1..n /\ w[j] = m[j]
  BY <1>1 DEF Marked, NewMark
<1>6. w[Len(p) + 1] = n + 1
  BY DEF NewMark
<1>. HIDE DEF st, n, r, y
<1>7. Clear(st, n) <=> Clear(r, n + 1)
  <2>1. \A i \in 1..(n + 1) : i = n + 1 \/ i \in 1..n
    BY <1>1
  <2>2. \A i \in 1..n : i \in 1..(n + 1)
    BY <1>1
  <2>. QED
    BY <1>4, <2>1, <2>2 DEF Clear
<1>8. ASSUME NEW j \in 1..Len(p) PROVE Clear(st, m[j]) <=> Clear(r, w[j])
  <2>1. \A i \in 1..m[j] : i \in 1..n
    BY <1>1, <1>5
  <2>. QED
    BY <1>4, <1>5, <2>1 DEF Clear
<1>9. Reach(k) <=> Reach(y)
  BY <1>2, <1>4, <1>7 DEF Reach, st, n
<1>10. Clear(y.state, w[Len(p) + 1]) => Reach(y)
  BY <1>2, <1>4, <1>6 DEF Reach
<1>. QED
  BY <1>2, <1>8, <1>9, <1>10 DEF y, st

\* Below a mark on top, and a tag "unreachable" over it, the state stays.
LEMMA LeftState ==
  ASSUME NEW k, NEW p, NEW m, Tracks(k, p, m), Len(p) \in Nat \ {0}, Back(LeaveUnreachable(k)) = "scope"
  PROVE  LET j == LeaveUnreachable(k) IN
         /\ Len(j.state) = m[Len(p)] /\ j.depth = k.depth
         /\ \A i \in 1..m[Len(p)] : j.state[i] = k.state[i]
         /\ Reach(k) => j = k
<1>. DEFINE j == LeaveUnreachable(k)
            r == j.state
            s == m[Len(p)]
<1>1. Tracks(j, p, m)
  BY LeaveTracks
<1>2. /\ {"state", "depth", "slots", "max", "count", "unreachable_depth", "usage"} \subseteq DOMAIN k
      /\ k.state \in Seq(StateTypes) /\ k.state # <<>>
  BY LastMark DEF Tracks, IsTracker
<1>3. j.depth = k.depth /\ (r = k.state \/ r = Front(k.state))
  BY <1>2 DEF LeaveUnreachable
<1>4. Reach(k) => j = k
  BY NotReached DEF LeaveUnreachable
<1>5. Back(j) = "scope"
  OBVIOUS
<1>. HIDE DEF j
<1>6. r \in Seq(StateTypes) /\ Marked(r, p, m)
  BY <1>1 DEF Tracks, IsTracker
<1>7. r # <<>> /\ s \in 1..Len(r) /\ \A i \in 1..Len(r) : r[i] = "scope" => i <= s
  BY <1>6, LastMark
<1>8. Len(r) \in Nat /\ Len(r) \in 1..Len(r) /\ r[Len(r)] = "scope"
  BY <1>5, <1>6, <1>7 DEF Back, Last
<1>. HIDE DEF r, s
<1>9. Len(r) = s
  <2>. DEFINE a == Len(r)
  <2>1. a <= s
    BY ONLY <1>7, <1>8, Zenon
  <2>2. a \in Nat /\ s \in 1..a
    BY <1>7, <1>8
  <2>. HIDE DEF a
  <2>3. a = s
    BY ONLY <2>1, <2>2
  <2>. QED
    BY <2>3 DEF a
<1>10. ASSUME NEW i \in 1..s PROVE r[i] = k.state[i]
  <2>1. CASE r = k.state
    BY <2>1
  <2>2. CASE r = Front(k.state)
    <3>1. IsSeq(k.state)
      BY <1>2 DEF IsSeq
    <3>2. Len(r) = Len(k.state) - 1 /\ DOMAIN r = 1..(Len(k.state) - 1) /\ \A x \in DOMAIN r : r[x] = k.state[x]
      BY <1>2, <2>2, <3>1, Shortened
    <3>. QED
      BY <1>9, <3>2
  <2>. QED
    BY <1>3, <2>1, <2>2
<1>. QED
  BY <1>3, <1>4, <1>9, <1>10 DEF j, r, s

\* pop_scope(expected): the scope's depth and its result, over what was below
\* its mark.
LEMMA ScopeLeft ==
  ASSUME NEW k, NEW p, NEW m, Tracks(k, p, m), IsSeq(p), p # <<>>,
         NEW t \in BlockTypes, CanPopScope(k, t)
  PROVE  LET y == pop_scope(k, t) IN
         /\ \A j \in 1..(Len(p) - 1) : Clear(k.state, m[j]) <=> Clear(y.state, m[j])
         /\ Clear(k.state, m[Len(p)]) => Reach(y)
         /\ y.depth = Last(p).operand_depth + Keeps(t)
         /\ Reach(k) => Clear(k.state, m[Len(p)]) /\ y.depth = k.depth
         /\ t = "pseudo" => Len(y.state) + 1 = m[Len(p)]
<1>. DEFINE b == Pop(k, t)
            j == LeaveUnreachable(b)
            x == [j EXCEPT !.state = Front(@)]
            y == pop_scope(k, t)
            h == Len(p)
            s == m[h]
<1>1. CanPop(k, t) /\ Back(j) = "scope" /\ y = IF t = "pseudo" THEN x ELSE Push(x, t)
  BY DEF CanPopScope, pop_scope
<1>2. h \in Nat \ {0}
  BY Shortened
<1>3. Tracks(b, p, m) /\ Effect(k, b, p, m, -Keeps(t))
  BY <1>1, <1>2, PopTracks, PopEffect
<1>4. k.depth \in Nat
  BY DepthIs
<1>. HIDE DEF b
<1>5. /\ Len(j.state) = s /\ j.depth = b.depth
      /\ \A i \in 1..s : j.state[i] = b.state[i]
      /\ Reach(b) => j = b
  BY <1>1, <1>2, <1>3, LeftState
<1>6. Tracks(j, p, m)
  BY <1>2, <1>3, LeaveTracks
<1>. HIDE DEF j
<1>7. Tracks(x, Front(p), m) /\ x.depth = Last(p).operand_depth
  BY <1>1, <1>6, MarkTaken
<1>8. x.state = Front(j.state) /\ x.depth = j.depth
  BY <1>6 DEF Tracks, IsTracker
<1>9. j.state \in Seq(StateTypes) /\ j.state # <<>> /\ s \in 1..Len(j.state)
  BY <1>2, <1>6, LastMark DEF Tracks, IsTracker
<1>10. s \in Nat \ {0} /\ Len(x.state) = s - 1 /\ \A i \in 1..(s - 1) : x.state[i] = j.state[i]
  <2>1. IsSeq(j.state)
    BY <1>9 DEF IsSeq
  <2>2. /\ Len(Front(j.state)) = Len(j.state) - 1 /\ DOMAIN Front(j.state) = 1..(Len(j.state) - 1)
        /\ \A i \in DOMAIN Front(j.state) : i \in DOMAIN j.state /\ Front(j.state)[i] = j.state[i]
    BY ONLY <1>9, <2>1, Shortened
  <2>3. Len(j.state) \in Nat
    BY <1>9
  <2>. QED
    BY <1>5, <1>8, <1>9, <2>2, <2>3
<1>11. h \in 1..h /\ \A g \in 1..(h - 1) : g \in 1..h /\ g < h
  BY <1>2
<1>12. \A i \in 1..s : b.state[i] = k.state[i]
  BY <1>3, <1>11 DEF Effect, Inside
<1>13. \A i \in 1..(s - 1) : x.state[i] = k.state[i]
  BY <1>5, <1>10, <1>12
<1>14. \A g \in 1..(h - 1) : m[g] \in 1..(s - 1)
  <2>1. \A g \in 1..h : m[g] \in 1..Len(j.state)
    BY <1>6 DEF Tracks, Marked
  <2>2. \A g, e \in 1..h : g < e => m[g] < m[e]
    BY <1>6 DEF Tracks, Marked
  <2>3. \A g \in 1..(h - 1) : m[g] \in 1..Len(j.state) /\ m[g] < s
    BY <1>11, <2>1, <2>2
  <2>. QED
    BY <1>5, <1>10, <2>3
<1>. HIDE DEF x, s, h
<1>15. ASSUME NEW g \in 1..(h - 1) PROVE Clear(k.state, m[g]) <=> Clear(x.state, m[g])
  <2>1. \A i \in 1..m[g] : i \in 1..(s - 1)
    BY <1>10, <1>14
  <2>. QED
    BY <1>13, <2>1 DEF Clear
<1>16. Clear(k.state, s) => Reach(x)
  <2>1. \A i \in 1..(s - 1) : i \in 1..s
    BY <1>10
  <2>. QED
    BY <1>10, <1>13, <2>1 DEF Clear, Reach
<1>17. Reach(k) => x.depth + Keeps(t) = k.depth
  <2>1. Reach(k) => x.depth = k.depth + (-Keeps(t))
    BY <1>3, <1>5, <1>8 DEF Effect
  <2>2. Keeps(t) \in {0, 1}
    BY DEF Keeps
  <2>. QED
    BY <1>4, <2>1, <2>2
<1>18. Reach(k) => Clear(k.state, s)
  <2>1. k.state \in Seq(StateTypes) /\ s \in 1..Len(k.state)
    BY <1>2, LastMark DEF Tracks, IsTracker, s, h
  <2>2. \A i \in 1..s : i \in 1..Len(k.state)
    BY <2>1
  <2>. QED
    BY <2>2 DEF Reach, Clear
<1>19. CASE t = "pseudo"
  <2>1. y = x /\ Keeps(t) = 0
    BY <1>1, <1>19 DEF Keeps
  <2>2. x.depth \in Nat
    BY <1>7, DepthIs
  <2>. HIDE DEF y
  <2>3. x.depth = Last(p).operand_depth + 0 /\ Len(x.state) + 1 = s
    BY <1>7, <1>10, <2>2
  <2>. QED
    BY <1>15, <1>16, <1>17, <1>18, <2>1, <2>2, <2>3 DEF y, h, s
<1>20. CASE t # "pseudo"
  <2>1. y = Push(x, t) /\ Keeps(t) = 1 /\ t \in ValueTypes \cup {"any"}
    BY <1>1, <1>20 DEF Keeps, BlockTypes
  <2>2. Effect(x, Push(x, t), Front(p), m, 1)
    BY <1>7, <2>1, PushEffect
  <2>3. x.depth \in Nat
    BY <1>7, DepthIs
  <2>4. Len(Front(p)) = h - 1
    BY Shortened DEF h
  <2>5. y.depth = x.depth + 1
    BY <2>1, <1>7 DEF Push, Tracks, IsTracker
  <2>. HIDE DEF y
  <2>6. \A g \in 1..(h - 1) : \A i \in 1..m[g] : y.state[i] = x.state[i]
    BY <2>1, <2>2, <2>4 DEF Effect, Inside
  <2>7. Reach(x) => Reach(y)
    BY <2>1, <2>2 DEF Effect
  <2>8. \A g \in 1..(h - 1) : Clear(x.state, m[g]) <=> Clear(y.state, m[g])
    BY <2>6 DEF Clear
  <2>. QED
    BY <1>7, <1>15, <1>16, <1>17, <1>18, <1>20, <2>1, <2>5, <2>7, <2>8 DEF y, h, s
<1>. QED
  BY <1>19, <1>20

-----------------------------------------------------------------------------
(* The heights of the code.  f has the addresses a run may reach, and the  *)
(* operands there; the address of the next opcode, which is not written    *)
(* yet, has the tracker's depth.                                           *)

\* Whether an instruction goes on with the next, and the operands it leaves.
Falls(y) == y.op \notin {"unreachable", "return", "else", "br", "br_table", "data"}
Delta(y) ==
  CASE y.op \in {"get_local", "const"} -> 1
    [] y.op \in {"set_local", "drop", "if", "br_if"} -> -1
    [] y.op = "select" -> -2
    [] y.op = "plain" -> Keeps(y.arg.push) - Len(y.arg.pops)
    [] OTHER -> 0

\* The operands left by branch e of an instruction that finds h of them.
Kept(b) == IF b THEN 1 ELSE 0
Lands(y, e, h) ==
  IF e # 0 THEN h - 1 - y.table[e].pop + Kept(y.table[e].keep)
  ELSE CASE y.op = "if" -> h - 1
         [] y.op = "br" -> h - y.pop + Kept(y.keep)
         [] y.op = "br_if" -> h - 1 - y.pop + Kept(y.keep)
         [] OTHER -> h

\* Address t is reached with h operands, as it should.
Arrives(f, c, p, k, t, h) ==
  (t \in DOMAIN f /\ f[t] = h) \/ (p # <<>> /\ t = Len(c) /\ Reach(k) /\ k.depth = h)

Flow(f, c, p, k, a) ==
  /\ f[a] \in Nat /\ c[a + 1].op # "data" /\ (c[a + 1].op = "br_table" => f[a] # 0)
  /\ Falls(c[a + 1]) => Arrives(f, c, p, k, a + 1, f[a] + Delta(c[a + 1]))
  /\ \A e : IsBranch(c, a + 1, e) => \/ Arrives(f, c, p, k, Goal(c, a + 1, e), Lands(c[a + 1], e, f[a]))
                                     \/ Waits(p, a + 1, e)
Flows(f, c, p, k) ==
  /\ DOMAIN f \subseteq 0..(Len(c) - 1)
  /\ Arrives(f, c, p, k, 0, 0)
  /\ \A a \in DOMAIN f : Flow(f, c, p, k, a)

\* The branches that wait for the end of scope s will bring what the scope
\* leaves there; an if's own branch, the first, brings nothing but what was below.
Due(c, s, b) == s.operand_depth + (IF c[b.at + 1].op = "if" THEN 0 ELSE Keeps(s.label))
FirstIs(bs, b) == b \in bs /\ \A x \in bs : x # b => b.at < x.at
Owed(f, c, s, st, n) ==
  /\ s.target = NoTarget => s.label = s.expected
  /\ s.target # NoTarget => s.label = "pseudo" /\ s.relocations = {}
  /\ \A b \in s.relocations :
       /\ b.at \in 0..(Len(c) - 1) /\ IsBranch(c, b.at + 1, b.entry)
       /\ b.at \in DOMAIN f => Clear(st, n) /\ Lands(c[b.at + 1], b.entry, f[b.at]) = Due(c, s, b)
  /\ \E b0 : /\ s.is_if => FirstIs(s.relocations, b0)
             /\ \A b \in s.relocations : c[b.at + 1].op = "if" <=> (s.is_if /\ b = b0)
Owes(f, c, p, k, m) ==
  \A j \in 1..Len(p) :
    /\ Owed(f, c, p[j], k.state, m[j])
    /\ p[j].target # NoTarget /\ Clear(k.state, m[j]) =>
         Arrives(f, c, p, k, p[j].target, p[j].operand_depth)

Heights(f, c, p, k, m) == Flows(f, c, p, k) /\ Owes(f, c, p, k, m)

\* The next address gets the tracker's depth.
Ext(f, c, k) ==
  IF Reach(k) THEN [a \in DOMAIN f \cup {Len(c)} |-> IF a = Len(c) THEN k.depth ELSE f[a]] ELSE f

\* Addresses keep their heights, and what was reached is reached.
LEMMA ExtIs ==
  ASSUME NEW f, NEW c, NEW p, NEW k, Flows(f, c, p, k), Len(c) \in Nat, p # <<>>
  PROVE  LET g == Ext(f, c, k) IN
         /\ DOMAIN f \subseteq DOMAIN g /\ DOMAIN g \subseteq 0..Len(c)
         /\ \A a \in DOMAIN f : g[a] = f[a] /\ a # Len(c) /\ a \in 0..(Len(c) - 1)
         /\ \A a \in DOMAIN g : a \notin DOMAIN f => a = Len(c) /\ Reach(k) /\ g[a] = k.depth
         /\ \A t, h : Arrives(f, c, p, k, t, h) => t \in DOMAIN g /\ g[t] = h
<1>. DEFINE g == Ext(f, c, k)
<1>1. \A a \in DOMAIN f : a # Len(c) /\ a \in 0..(Len(c) - 1) /\ a \in 0..Len(c)
  BY DEF Flows
<1>2. CASE Reach(k)
  <2>1. DOMAIN g = DOMAIN f \cup {Len(c)} /\ g[Len(c)] = k.depth /\ \A a \in DOMAIN f : g[a] = f[a]
    BY <1>1, <1>2 DEF Ext
  <2>. HIDE DEF g
  <2>2. Len(c) \in 0..Len(c)
    OBVIOUS
  <2>3. DOMAIN f \subseteq DOMAIN g /\ DOMAIN g \subseteq 0..Len(c)
    BY <1>1, <2>1, <2>2
  <2>. QED
    BY <1>1, <1>2, <2>1, <2>3 DEF Arrives, g
<1>3. CASE ~Reach(k)
  <2>1. g = f
    BY <1>3 DEF Ext
  <2>. QED
    BY <1>1, <1>3, <2>1 DEF Arrives
<1>. QED
  BY <1>2, <1>3

\* One more instruction, and data after it: runs reach it where they reached the
\* next address, and every branch leads or waits as it did.
LEMMA Emitted ==
  ASSUME NEW f, NEW c, NEW p, NEW k, Flows(f, c, p, k), Len(c) \in Nat, p # <<>>, k.depth \in Nat,
         DOMAIN c = 1..Len(c),
         NEW d, Len(d) \in Nat, Len(d) > Len(c), \A i \in DOMAIN c : d[i] = c[i],
         NEW y, d[Len(c) + 1] = y, y.op # "data", Reach(k) /\ y.op = "br_table" => k.depth # 0,
         NEW q, q # <<>>, \A i, e : Waits(p, i, e) => Waits(q, i, e),
         NEW j, Falls(y) /\ Reach(k) => /\ Len(d) = Len(c) + 1 /\ Reach(j)
                                        /\ j.depth = k.depth + Delta(y),
         Reach(k) => \A e : IsBranch(d, Len(c) + 1, e) =>
           \/ Arrives(f, c, p, k, Goal(d, Len(c) + 1, e), Lands(y, e, k.depth))
           \/ Waits(q, Len(c) + 1, e)
  PROVE  Flows(Ext(f, c, k), d, q, j)
<1>. DEFINE g == Ext(f, c, k)
            n == Len(c)
<1>1. /\ DOMAIN f \subseteq DOMAIN g /\ DOMAIN g \subseteq 0..n
      /\ \A a \in DOMAIN f : g[a] = f[a] /\ a \in 0..(n - 1)
      /\ \A a \in DOMAIN g : a \notin DOMAIN f => a = n /\ Reach(k) /\ g[a] = k.depth
      /\ \A t, h : Arrives(f, c, p, k, t, h) => t \in DOMAIN g /\ g[t] = h
  BY ExtIs
<1>. HIDE DEF g
<1>2. \A t, h : Arrives(f, c, p, k, t, h) => Arrives(g, d, q, j, t, h)
  BY <1>1 DEF Arrives
<1>3. DOMAIN g \subseteq 0..(Len(d) - 1)
  BY <1>1
<1>4. ASSUME NEW a \in DOMAIN f PROVE Flow(g, d, q, j, a)
  <2>1. a + 1 \in DOMAIN c /\ g[a] = f[a]
    BY <1>1
  <2>2. d[a + 1] = c[a + 1]
    BY <2>1
  <2>3. Flow(f, c, p, k, a)
    BY DEF Flows
  <2>4. \A e : IsBranch(d, a + 1, e) => IsBranch(c, a + 1, e) /\ Goal(d, a + 1, e) = Goal(c, a + 1, e)
    BY <2>2 DEF IsBranch, Goal
  <2>. QED
    BY <1>2, <2>1, <2>2, <2>3, <2>4 DEF Flow
<1>5. ASSUME NEW a \in DOMAIN g, a \notin DOMAIN f PROVE Flow(g, d, q, j, a)
  <2>1. a = n /\ Reach(k) /\ g[a] = k.depth /\ d[a + 1] = y
    BY <1>1, <1>5
  <2>2. Falls(y) => Arrives(g, d, q, j, a + 1, k.depth + Delta(y))
    BY <2>1 DEF Arrives
  <2>3. \A e : IsBranch(d, a + 1, e) =>
          Arrives(g, d, q, j, Goal(d, a + 1, e), Lands(y, e, k.depth)) \/ Waits(q, a + 1, e)
    BY <1>2, <2>1
  <2>. QED
    BY <2>1, <2>2, <2>3 DEF Flow
<1>6. Arrives(g, d, q, j, 0, 0)
  BY <1>2 DEF Flows
<1>7. Flows(g, d, q, j)
  BY <1>3, <1>4, <1>5, <1>6 DEF Flows
<1>. QED
  BY <1>7 DEF g

\* An instruction that does the same, where its branches may lead elsewhere.
SameInstr(x, y) ==
  /\ x.op = y.op /\ (Falls(x) <=> Falls(y)) /\ Delta(x) = Delta(y)
  /\ DOMAIN x.table = DOMAIN y.table
  /\ \A e, h : e = 0 \/ e \in DOMAIN x.table => Lands(x, e, h) = Lands(y, e, h)
Grows(f, c, g, d) ==
  /\ DOMAIN f \subseteq DOMAIN g /\ \A a \in DOMAIN f : g[a] = f[a]
  /\ Len(c) \in Nat /\ DOMAIN c = 1..Len(c) /\ Len(d) \in Nat /\ Len(c) <= Len(d)
  /\ \A a \in DOMAIN g : a \notin DOMAIN f => a \notin 0..(Len(c) - 1)
  /\ \A i \in DOMAIN c : SameInstr(c[i], d[i])

\* What waits in a scope is owed as before.
LEMMA OwedGrows ==
  ASSUME NEW f, NEW c, NEW g, NEW d, Grows(f, c, g, d),
         NEW s, NEW st, NEW n, Owed(f, c, s, st, n),
         NEW r, NEW i, Clear(st, n) => Clear(r, i),
         NEW z, z.target = s.target, z.operand_depth = s.operand_depth, z.label = s.label,
         z.expected = s.expected, z.is_if = s.is_if, s.relocations \subseteq z.relocations,
         \A b \in z.relocations : b \notin s.relocations =>
           /\ s.target = NoTarget
           /\ b.at \in Len(c)..(Len(d) - 1) /\ IsBranch(d, b.at + 1, b.entry) /\ d[b.at + 1].op # "if"
           /\ b.at \in DOMAIN g =>
                Clear(r, i) /\ Lands(d[b.at + 1], b.entry, g[b.at]) = s.operand_depth + Keeps(s.label)
  PROVE  Owed(g, d, z, r, i)
<1>1. ASSUME NEW b \in s.relocations
      PROVE  /\ b.at \in 0..(Len(c) - 1) /\ b.at \in 0..(Len(d) - 1) /\ IsBranch(d, b.at + 1, b.entry)
             /\ d[b.at + 1].op = c[b.at + 1].op
             /\ b.at \in DOMAIN g => Clear(r, i) /\ Lands(d[b.at + 1], b.entry, g[b.at]) = Due(d, z, b)
  <2>1. /\ b.at \in 0..(Len(c) - 1) /\ IsBranch(c, b.at + 1, b.entry)
        /\ b.at \in DOMAIN f => Clear(st, n) /\ Lands(c[b.at + 1], b.entry, f[b.at]) = Due(c, s, b)
    BY DEF Owed
  <2>2. b.at + 1 \in DOMAIN c /\ b.at \in 0..(Len(d) - 1)
    BY <2>1 DEF Grows
  <2>3. SameInstr(c[b.at + 1], d[b.at + 1])
    BY <2>2 DEF Grows
  <2>4. d[b.at + 1].op = c[b.at + 1].op /\ IsBranch(d, b.at + 1, b.entry)
    BY <2>1, <2>3 DEF SameInstr, IsBranch
  <2>5. b.entry = 0 \/ b.entry \in DOMAIN c[b.at + 1].table
    BY <2>1 DEF IsBranch
  <2>6. \A h : Lands(c[b.at + 1], b.entry, h) = Lands(d[b.at + 1], b.entry, h)
    BY <2>3, <2>5 DEF SameInstr
  <2>7. b.at \in DOMAIN g => b.at \in DOMAIN f /\ g[b.at] = f[b.at]
    BY <2>1 DEF Grows
  <2>8. Due(d, z, b) = Due(c, s, b)
    BY <2>4 DEF Due
  <2>. QED
    BY <2>1, <2>2, <2>4, <2>6, <2>7, <2>8
<1>2. ASSUME NEW b \in z.relocations, b \notin s.relocations
      PROVE  /\ s.target = NoTarget /\ b.at \in 0..(Len(d) - 1) /\ IsBranch(d, b.at + 1, b.entry)
             /\ d[b.at + 1].op # "if" /\ b.at \in Len(c)..(Len(d) - 1)
             /\ b.at \in DOMAIN g => Clear(r, i) /\ Lands(d[b.at + 1], b.entry, g[b.at]) = Due(d, z, b)
  <2>1. b.at \in 0..(Len(d) - 1)
    BY <1>2 DEF Grows
  <2>. QED
    BY <1>2, <2>1 DEF Due
<1>3. z.target # NoTarget => z.relocations = {}
  BY <1>2 DEF Owed
<1>4. PICK b0 : /\ s.is_if => FirstIs(s.relocations, b0)
                /\ \A b \in s.relocations : c[b.at + 1].op = "if" <=> (s.is_if /\ b = b0)
  BY DEF Owed
<1>5. z.is_if => FirstIs(z.relocations, b0)
  <2>. SUFFICES ASSUME z.is_if PROVE FirstIs(z.relocations, b0)
    OBVIOUS
  <2>1. b0 \in s.relocations /\ \A x \in s.relocations : x # b0 => b0.at < x.at
    BY <1>4 DEF FirstIs
  <2>2. b0.at \in 0..(Len(c) - 1)
    BY <1>1, <2>1
  <2>3. \A x \in z.relocations : x \notin s.relocations => b0.at < x.at
    BY <1>2, <2>2 DEF Grows
  <2>. QED
    BY <2>1, <2>3 DEF FirstIs
<1>6. \A b \in z.relocations : d[b.at + 1].op = "if" <=> (z.is_if /\ b = b0)
  <2>1. \A b \in s.relocations : d[b.at + 1].op = "if" <=> (z.is_if /\ b = b0)
    BY <1>1, <1>4
  <2>2. z.is_if => b0 \in s.relocations
    BY <1>4 DEF FirstIs
  <2>. QED
    BY <1>2, <2>1, <2>2
<1>7. \A b \in z.relocations :
        /\ b.at \in 0..(Len(d) - 1) /\ IsBranch(d, b.at + 1, b.entry)
        /\ b.at \in DOMAIN g => Clear(r, i) /\ Lands(d[b.at + 1], b.entry, g[b.at]) = Due(d, z, b)
  BY <1>1, <1>2
<1>. QED
  BY <1>3, <1>5, <1>6, <1>7 DEF Owed

\* What a step of the parser starts from.
Ready(m, f) == /\ IsCode(code) /\ Scoped(pcs) /\ pcs # <<>>
               /\ Tracks(tk, pcs, m) /\ Heights(f, code, pcs, tk, m)

\* The scopes, with the branches to labels left to them.
Gathers(q, labels) ==
  /\ IsSeq(q) /\ Len(q) = Len(pcs)
  /\ \A j \in 1..Len(pcs) :
       /\ q[j].target = pcs[j].target /\ q[j].operand_depth = pcs[j].operand_depth
       /\ q[j].label = pcs[j].label /\ q[j].expected = pcs[j].expected /\ q[j].is_if = pcs[j].is_if
       /\ q[j].relocations = IF pcs[j].target # NoTarget THEN pcs[j].relocations
                             ELSE pcs[j].relocations \cup {b \in DOMAIN labels : labels[b] = Len(pcs) - j}

\* The instruction written after code, and its branches.
Writes(d, y) == /\ Len(d) \in Nat /\ Len(d) > Len(code) /\ \A i \in DOMAIN code : d[i] = code[i]
                /\ d[Len(code) + 1] = y /\ y.op # "data"
LeadsTo(d, y, labels) ==
  /\ \A e : IsBranch(d, Len(code) + 1, e) => AtEntry(Len(code), e) \in DOMAIN labels
  /\ \A b \in DOMAIN labels :
       /\ b.at = Len(code) /\ IsBranch(d, Len(code) + 1, b.entry) /\ labels[b] \in Scopes
       /\ Goal(d, Len(code) + 1, b.entry) = KnownTarget(labels[b])
       /\ Reach(tk) => Lands(y, b.entry, tk.depth)
                         = Label(labels[b]).operand_depth + Keeps(Label(labels[b]).label)

\* Code that can be reached is clear below every mark.
LEMMA ReachClear ==
  ASSUME NEW k, NEW p, NEW m, Tracks(k, p, m), Reach(k), NEW j \in 1..Len(p)
  PROVE  Clear(k.state, m[j])
<1>1. k.state \in Seq(StateTypes) /\ m[j] \in 1..Len(k.state)
  BY DEF Tracks, IsTracker, Marked
<1>2. \A i \in 1..m[j] : i \in 1..Len(k.state)
  BY <1>1
<1>. QED
  BY <1>2 DEF Reach, Clear

\* What lies below the marks stays clear or not.
LEMMA InsideClear ==
  ASSUME NEW k, NEW j, NEW p, NEW m, Inside(k, j, p, m), NEW h \in 1..Len(p)
  PROVE  Clear(k.state, m[h]) <=> Clear(j.state, m[h])
BY DEF Inside, Clear

\* Once written, the code has grown.
LEMMA CodeGrows ==
  ASSUME NEW m, NEW f, Ready(m, f), NEW d, NEW y, Writes(d, y)
  PROVE  Grows(f, code, Ext(f, code, tk), d)
<1>. DEFINE g == Ext(f, code, tk)
<1>1. Len(code) \in Nat /\ DOMAIN code = 1..Len(code)
  BY Lengths DEF Ready, IsCode
<1>2. /\ DOMAIN f \subseteq DOMAIN g /\ DOMAIN g \subseteq 0..Len(code)
      /\ \A a \in DOMAIN f : g[a] = f[a] /\ a # Len(code) /\ a \in 0..(Len(code) - 1)
      /\ \A a \in DOMAIN g : a \notin DOMAIN f => a = Len(code)
  BY <1>1, ExtIs DEF Ready, Heights
<1>. HIDE DEF g
<1>3. \A i \in DOMAIN code : SameInstr(code[i], d[i])
  BY DEF Writes, SameInstr
<1>4. Grows(f, code, g, d)
  BY <1>1, <1>2, <1>3 DEF Grows, Writes
<1>. QED
  BY <1>4 DEF g

\* A branch waits in its scope, or leads to a loop at the depth it should.
LEMMA LedThere ==
  ASSUME NEW m, NEW f, Ready(m, f), NEW d, NEW y, NEW labels, LeadsTo(d, y, labels),
         NEW q, Gathers(q, labels), Reach(tk), NEW e, IsBranch(d, Len(code) + 1, e)
  PROVE  \/ Arrives(f, code, pcs, tk, Goal(d, Len(code) + 1, e), Lands(y, e, tk.depth))
         \/ Waits(q, Len(code) + 1, e)
<1>. DEFINE b == AtEntry(Len(code), e)
            l == labels[b]
            j == Len(pcs) - l
<1>1. b \in DOMAIN labels /\ b.at = Len(code) /\ b.entry = e
  BY DEF LeadsTo, AtEntry
<1>2. /\ l \in Scopes /\ Goal(d, Len(code) + 1, e) = KnownTarget(l)
      /\ Lands(y, e, tk.depth) = Label(l).operand_depth + Keeps(Label(l).label)
  BY <1>1 DEF LeadsTo
<1>3. Len(pcs) \in Nat \ {0} /\ DOMAIN pcs = 1..Len(pcs) /\ DOMAIN q = 1..Len(pcs)
  BY Lengths, Shortened DEF Ready, Scoped, Gathers
<1>4. Len(code) \in Nat
  BY Lengths DEF Ready, IsCode
<1>. HIDE DEF l, b
<1>5. j \in 1..Len(pcs) /\ l = Len(pcs) - j
  BY <1>2, <1>3 DEF Scopes
<1>6. Label(l) = pcs[j]
  BY DEF Label
<1>. HIDE DEF j
<1>7. CASE pcs[j].target = NoTarget
  <2>1. b \in q[j].relocations /\ q[j].target = NoTarget
    BY <1>1, <1>5, <1>7 DEF Gathers, l
  <2>2. b = AtEntry((Len(code) + 1) - 1, e)
    BY <1>4 DEF b
  <2>. QED
    BY <1>3, <1>5, <2>1, <2>2 DEF Waits
<1>8. CASE pcs[j].target # NoTarget
  <2>1. Clear(tk.state, m[j])
    BY <1>5, ReachClear DEF Ready
  <2>2. /\ Owed(f, code, pcs[j], tk.state, m[j])
        /\ Arrives(f, code, pcs, tk, pcs[j].target, pcs[j].operand_depth)
    BY <1>5, <1>8, <2>1 DEF Ready, Heights, Owes
  <2>3. Keeps(pcs[j].label) = 0
    BY <1>8, <2>2 DEF Owed, Keeps
  <2>4. pcs[j].operand_depth \in Nat
    BY <1>5, DepthThere DEF Ready
  <2>5. Lands(y, e, tk.depth) = pcs[j].operand_depth
    BY <1>2, <1>6, <2>3, <2>4
  <2>6. Goal(d, Len(code) + 1, e) = pcs[j].target
    BY <1>2, <1>6, <1>8 DEF KnownTarget
  <2>. QED
    BY <2>2, <2>5, <2>6
<1>. QED
  BY <1>7, <1>8

\* The tracker after an instruction: below the marks as before, with an operand
\* for a br_table to take, and, if the instruction goes on with the next, at the
\* height it leaves.
Moves(d, y, k, m) ==
  /\ Inside(tk, k, pcs, m)
  /\ Reach(tk) /\ y.op = "br_table" => tk.depth # 0
  /\ Falls(y) => Len(d) = Len(code) + 1 /\ (Reach(tk) => Reach(k) /\ k.depth = tk.depth + Delta(y))

\* An instruction that opens and closes no scope.
LEMMA EmitHeights ==
  ASSUME NEW m, NEW f, Ready(m, f), NEW d, NEW y, Writes(d, y), y.op # "if",
         NEW k, Moves(d, y, k, m), NEW labels, LeadsTo(d, y, labels), NEW q, Gathers(q, labels)
  PROVE  Heights(Ext(f, code, tk), d, q, k, m)
<1>. DEFINE g == Ext(f, code, tk)
<1>1. Len(code) \in Nat /\ DOMAIN code = 1..Len(code) /\ Flows(f, code, pcs, tk) /\ pcs # <<>>
  BY Lengths DEF Ready, IsCode, Heights
<1>2. Len(pcs) \in Nat \ {0} /\ DOMAIN pcs = 1..Len(pcs) /\ DOMAIN q = 1..Len(pcs) /\ Len(q) = Len(pcs)
  BY Lengths, Shortened DEF Ready, Scoped, Gathers
<1>3. q # <<>>
  BY <1>2
<1>4. \A i, e : Waits(pcs, i, e) => Waits(q, i, e)
  BY <1>2 DEF Waits, Gathers
<1>5. tk.depth \in Nat
  BY DepthIs DEF Ready
<1>6. /\ DOMAIN f \subseteq DOMAIN g
      /\ \A a \in DOMAIN g : a \notin DOMAIN f => a = Len(code) /\ Reach(tk) /\ g[a] = tk.depth
      /\ \A a \in DOMAIN f : a # Len(code)
      /\ \A t, h : Arrives(f, code, pcs, tk, t, h) => t \in DOMAIN g /\ g[t] = h
  BY <1>1, ExtIs
<1>7. Grows(f, code, g, d)
  BY CodeGrows
<1>8. Flows(g, d, q, k)
  <2>1. Falls(y) /\ Reach(tk) => Len(d) = Len(code) + 1 /\ Reach(k) /\ k.depth = tk.depth + Delta(y)
    BY DEF Moves
  <2>2. Reach(tk) => \A e : IsBranch(d, Len(code) + 1, e) =>
          \/ Arrives(f, code, pcs, tk, Goal(d, Len(code) + 1, e), Lands(y, e, tk.depth))
          \/ Waits(q, Len(code) + 1, e)
    BY LedThere
  <2>. QED
    BY <1>1, <1>3, <1>4, <1>5, <2>1, <2>2, Emitted DEF Writes, Moves
<1>. HIDE DEF g
<1>9. ASSUME NEW j \in 1..Len(q)
      PROVE  /\ Owed(g, d, q[j], k.state, m[j])
             /\ q[j].target # NoTarget /\ Clear(k.state, m[j]) =>
                  Arrives(g, d, q, k, q[j].target, q[j].operand_depth)
  <2>1. j \in 1..Len(pcs)
    BY <1>2
  <2>2. /\ Owed(f, code, pcs[j], tk.state, m[j])
        /\ pcs[j].target # NoTarget /\ Clear(tk.state, m[j]) =>
             Arrives(f, code, pcs, tk, pcs[j].target, pcs[j].operand_depth)
    BY <2>1 DEF Ready, Heights, Owes
  <2>3. Clear(tk.state, m[j]) <=> Clear(k.state, m[j])
    BY <2>1, InsideClear DEF Moves
  <2>4. /\ q[j].target = pcs[j].target /\ q[j].operand_depth = pcs[j].operand_depth
        /\ q[j].label = pcs[j].label /\ q[j].expected = pcs[j].expected /\ q[j].is_if = pcs[j].is_if
        /\ pcs[j].relocations \subseteq q[j].relocations
        /\ \A b \in q[j].relocations : b \notin pcs[j].relocations =>
             pcs[j].target = NoTarget /\ b \in DOMAIN labels /\ labels[b] = Len(pcs) - j
    BY <2>1 DEF Gathers
  <2>5. ASSUME NEW b \in q[j].relocations, b \notin pcs[j].relocations
        PROVE  /\ pcs[j].target = NoTarget
               /\ b.at \in Len(code)..(Len(d) - 1) /\ IsBranch(d, b.at + 1, b.entry) /\ d[b.at + 1].op # "if"
               /\ b.at \in DOMAIN g => /\ Clear(k.state, m[j])
                                       /\ Lands(d[b.at + 1], b.entry, g[b.at])
                                            = pcs[j].operand_depth + Keeps(pcs[j].label)
    <3>1. pcs[j].target = NoTarget /\ b \in DOMAIN labels /\ labels[b] = Len(pcs) - j
      BY <2>4, <2>5
    <3>2. /\ b.at = Len(code) /\ IsBranch(d, b.at + 1, b.entry)
          /\ Reach(tk) => Lands(y, b.entry, tk.depth)
                            = Label(labels[b]).operand_depth + Keeps(Label(labels[b]).label)
      BY <3>1 DEF LeadsTo
    <3>3. b.at \in Len(code)..(Len(d) - 1) /\ d[b.at + 1] = y
      BY <1>1, <3>2 DEF Writes
    <3>4. Len(pcs) - labels[b] = j
      BY <1>2, <2>1, <3>1
    <3>5. Label(labels[b]) = pcs[j]
      BY <3>4 DEF Label
    <3>6. b.at \in DOMAIN g => Reach(tk) /\ g[b.at] = tk.depth
      BY <1>6, <3>2
    <3>7. Reach(tk) => Clear(k.state, m[j])
      BY <2>1, <2>3, ReachClear DEF Ready
    <3>. QED
      BY <3>1, <3>2, <3>3, <3>5, <3>6, <3>7
  <2>6. Owed(g, d, q[j], k.state, m[j])
    BY <1>7, <2>2, <2>3, <2>4, <2>5, OwedGrows
  <2>7. q[j].target # NoTarget /\ Clear(k.state, m[j]) => Arrives(g, d, q, k, q[j].target, q[j].operand_depth)
    BY <1>6, <2>2, <2>3, <2>4 DEF Arrives
  <2>. QED
    BY <2>6, <2>7
<1>10. Heights(g, d, q, k, m)
  BY <1>8, <1>9 DEF Heights, Owes
<1>. QED
  BY <1>10 DEF g

\* Heights after the step: the old ones, and the tracker's depth.
Stepped(f) ==
  \E w, g : /\ Tracks(tk', pcs', w) /\ Heights(g, code', pcs', tk', w)
            /\ \A a \in DOMAIN g : g[a] \in {tk.depth, tk'.depth} \/ (a \in DOMAIN f /\ g[a] = f[a])

\* Every new height is the tracker's.
LEMMA ExtAdds ==
  ASSUME NEW m, NEW f, Ready(m, f), NEW a \in DOMAIN Ext(f, code, tk)
  PROVE  LET g == Ext(f, code, tk) IN g[a] = tk.depth \/ (a \in DOMAIN f /\ g[a] = f[a])
BY Lengths, ExtIs DEF Ready, IsCode, Heights

\* One more instruction at the end of the code.
LEMMA WritesOne ==
  ASSUME NEW m, NEW f, Ready(m, f), NEW y, y.op # "data"
  PROVE  Writes(Append(code, y), y) /\ Len(Append(code, y)) = Len(code) + 1
<1>. DEFINE d == Append(code, y)
<1>1. IsSeq(code)
  BY DEF Ready, IsCode
<1>2. Len(code) \in Nat
  BY <1>1, Lengths
<1>3. /\ Len(d) = Len(code) + 1 /\ d[Len(code) + 1] = y
      /\ \A i \in DOMAIN code : d[i] = code[i]
  BY ONLY <1>1, Appended
<1>. HIDE DEF d
<1>4. Writes(d, y) /\ Len(d) = Len(code) + 1
  BY <1>2, <1>3 DEF Writes
<1>. QED
  BY <1>4 DEF d

PlainOne(y) == y.op \notin BranchOps \cup {"data", "br_table"} /\ DOMAIN y.table = {}

\* An instruction that is no branch.
LEMMA PlainHeights ==
  ASSUME NEW m, NEW f, Ready(m, f), NEW y, PlainOne(y),
         NEW k, Tracks(k, pcs, m), Inside(tk, k, pcs, m),
         Falls(y) => Effect(tk, k, pcs, m, Delta(y)),
         NEW op, NEW arg, Parse(op, arg, k, pcs, Append(code, y))
  PROVE  Stepped(f)
<1>. DEFINE d == Append(code, y)
            g == Ext(f, code, tk)
            labels == [b \in {} |-> 0]
<1>1. Writes(d, y) /\ Len(d) = Len(code) + 1 /\ y.op # "if"
  BY WritesOne DEF PlainOne, BranchOps
<1>2. tk' = k /\ pcs' = pcs /\ code' = d
  BY DEF Parse
<1>. HIDE DEF d
<1>3. Moves(d, y, k, m)
  BY <1>1 DEF Moves, Effect, PlainOne
<1>4. LeadsTo(d, y, labels)
  <2>1. \A e : ~IsBranch(d, Len(code) + 1, e)
    BY <1>1 DEF IsBranch, PlainOne, Writes
  <2>. QED
    BY <2>1 DEF LeadsTo
<1>5. Gathers(pcs, labels)
  BY DEF Gathers, Ready, Scoped
<1>. HIDE DEF labels
<1>6. Heights(g, d, pcs, k, m)
  BY <1>1, <1>3, <1>4, <1>5, EmitHeights
<1>7. \A a \in DOMAIN g : g[a] = tk.depth \/ (a \in DOMAIN f /\ g[a] = f[a])
  BY ExtAdds
<1>. HIDE DEF g
<1>. QED
  BY <1>2, <1>6, <1>7 DEF Stepped

\* drop and select.
LEMMA DropHeights ==
  ASSUME NEW m, NEW f, Ready(m, f), DropOp \/ Select
  PROVE  Stepped(f)
<1>1. Tracks(tk, pcs, m) /\ Len(pcs) \in Nat \ {0}
  BY Shortened DEF Ready, Scoped
<1>2. tk.depth \in Int
  BY <1>1, DepthIs
<1>3. CASE DropOp
  <2>. DEFINE k == PopAny(tk)
              y == Instr("drop")
  <2>1. CanPopAny(tk) /\ Parse("drop", 0, k, pcs, Append(code, y))
    BY <1>3 DEF DropOp
  <2>2. Tracks(k, pcs, m) /\ Effect(tk, k, pcs, m, -1)
    BY <1>1, <2>1, PopAnyTracks, PopAnyEffect
  <2>3. PlainOne(y) /\ Delta(y) = -1
    BY DEF PlainOne, Delta, Instr, BranchOps
  <2>. HIDE DEF y, k
  <2>4. Inside(tk, k, pcs, m)
    BY <2>2 DEF Effect
  <2>5. Effect(tk, k, pcs, m, Delta(y))
    BY ONLY <2>2, <2>3
  <2>. QED
    BY <2>1, <2>2, <2>3, <2>4, <2>5, PlainHeights
<1>4. CASE Select
  <2>. DEFINE k0 == Pop(tk, "i32")
              k1 == PopAny(k0)
              k2 == PopAny(k1)
              t0 == TopType(k0)
              t1 == TopType(k1)
              t  == IF t0 # "any" THEN t0 ELSE t1
              k  == Push(k2, t)
              y  == Instr("select")
  <2>1. /\ CanPop(tk, "i32") /\ CanPopAny(k0) /\ CanPopAny(k1)
        /\ Parse("select", 0, k, pcs, Append(code, y))
    BY <1>4 DEF Select
  <2>2. "i32" \in BlockTypes /\ Keeps("i32") = 1
    BY TypesAssumption DEF BlockTypes, Keeps
  <2>3. Tracks(k0, pcs, m) /\ Effect(tk, k0, pcs, m, -1)
    BY <1>1, <2>1, <2>2, PopTracks, PopEffect
  <2>. HIDE DEF k0
  <2>4. Tracks(k1, pcs, m) /\ Effect(k0, k1, pcs, m, -1) /\ t0 \in ValueTypes \cup {"any"}
    BY <1>1, <2>1, <2>3, PopAnyTracks, PopAnyEffect
  <2>. HIDE DEF k1
  <2>5. Tracks(k2, pcs, m) /\ Effect(k1, k2, pcs, m, -1) /\ t1 \in ValueTypes \cup {"any"}
    BY <1>1, <2>1, <2>4, PopAnyTracks, PopAnyEffect
  <2>6. t \in ValueTypes \cup {"any"}
    BY <2>4, <2>5
  <2>. HIDE DEF k2, t
  <2>7. Tracks(k, pcs, m) /\ Effect(k2, k, pcs, m, 1)
    BY <2>5, <2>6, PushTracks, PushEffect
  <2>8. PlainOne(y) /\ Delta(y) = -2
    BY DEF PlainOne, Delta, Instr, BranchOps
  <2>. HIDE DEF y, k
  <2>9. k0.depth \in Int /\ k1.depth \in Int /\ k2.depth \in Int
    BY <2>3, <2>4, <2>5, DepthIs
  <2>10. /\ -1 \in Int /\ -2 \in Int /\ -3 \in Int /\ 1 \in Int
         /\ (-1) + (-1) = -2 /\ (-2) + (-1) = -3 /\ (-3) + 1 = -2
    OBVIOUS
  <2>11. Effect(tk, k1, pcs, m, (-1) + (-1))
    BY ONLY <1>2, <2>3, <2>4, <2>10, EffectsAdd
  <2>12. Effect(tk, k2, pcs, m, (-2) + (-1))
    BY ONLY <1>2, <2>5, <2>10, <2>11, EffectsAdd
  <2>13. Effect(tk, k, pcs, m, (-3) + 1)
    BY ONLY <1>2, <2>7, <2>10, <2>12, EffectsAdd
  <2>14. Effect(tk, k, pcs, m, Delta(y))
    BY ONLY <2>8, <2>10, <2>13
  <2>15. Inside(tk, k, pcs, m)
    BY <2>14 DEF Effect
  <2>. QED
    BY <2>1, <2>7, <2>8, <2>14, <2>15, PlainHeights
<1>. QED
  BY <1>3, <1>4

\* get_local, set_local, tee_local and const.
LEMMA LocalHeights ==
  ASSUME NEW m, NEW f, Ready(m, f), NEW op \in {"get_local", "set_local", "tee_local", "const"},
         NEW t \in ValueTypes, NEW arg, NEW y, y = [Instr(op) EXCEPT !.arg = arg],
         NEW k, Parse(op, arg, k, pcs, Append(code, y)),
         \/ op \in {"get_local", "const"} /\ k = Push(tk, t)
         \/ op = "set_local" /\ CanPop(tk, t) /\ k = Pop(tk, t)
         \/ op = "tee_local" /\ CanTop(tk, t) /\ k = Top(tk, t)
  PROVE  Stepped(f)
<1>1. Tracks(tk, pcs, m) /\ Len(pcs) \in Nat \ {0}
  BY Shortened DEF Ready, Scoped
<1>2. t \in BlockTypes /\ t \in ValueTypes \cup {"any"} /\ Keeps(t) = 1
  BY TypesAssumption DEF BlockTypes, Keeps
<1>3. PlainOne(y) /\ y.op = op
  BY DEF PlainOne, Instr, BranchOps
<1>4. Tracks(k, pcs, m) /\ Effect(tk, k, pcs, m, Delta(y))
  <2>1. CASE op \in {"get_local", "const"} /\ k = Push(tk, t)
    <3>1. Delta(y) = 1
      BY <1>3, <2>1 DEF Delta
    <3>2. Tracks(Push(tk, t), pcs, m) /\ Effect(tk, Push(tk, t), pcs, m, 1)
      BY <1>1, <1>2, PushTracks, PushEffect
    <3>. QED
      BY ONLY <2>1, <3>1, <3>2
  <2>2. CASE op = "set_local" /\ CanPop(tk, t) /\ k = Pop(tk, t)
    <3>1. Delta(y) = -1
      BY <1>3, <2>2 DEF Delta
    <3>2. Tracks(Pop(tk, t), pcs, m) /\ Effect(tk, Pop(tk, t), pcs, m, -Keeps(t))
      BY <1>1, <1>2, <2>2, PopTracks, PopEffect
    <3>. QED
      BY ONLY <1>2, <2>2, <3>1, <3>2
  <2>3. CASE op = "tee_local" /\ CanTop(tk, t) /\ k = Top(tk, t)
    <3>1. Delta(y) = 0
      BY <1>3, <2>3 DEF Delta
    <3>2. Tracks(Top(tk, t), pcs, m) /\ Effect(tk, Top(tk, t), pcs, m, 0)
      BY <1>1, <1>2, <2>3, TopTracks, TopEffect
    <3>. QED
      BY ONLY <2>3, <3>1, <3>2
  <2>. QED
    BY <2>1, <2>2, <2>3
<1>5. Inside(tk, k, pcs, m)
  BY <1>4 DEF Effect
<1>. QED
  BY <1>3, <1>4, <1>5, PlainHeights

\* What only computes.
LEMMA ApplyHeights ==
  ASSUME NEW m, NEW f, Ready(m, f), NEW sig \in PlainOps, Plain(sig)
  PROVE  Stepped(f)
<1>. DEFINE ts == sig.pops
            j  == Popped(tk, ts)[Len(ts)]
            k  == Apply(tk, sig)
            y  == [Instr("plain") EXCEPT !.arg = sig]
<1>1. Tracks(tk, pcs, m) /\ Len(pcs) \in Nat \ {0}
  BY Shortened DEF Ready, Scoped
<1>2. ts \in Seq(ValueTypes) /\ sig.push \in ValueTypes \cup {"pseudo"} /\ Len(ts) \in Nat
  BY PlainAssumption
<1>3. /\ \A i \in DOMAIN ts : CanPop(Popped(tk, ts)[i - 1], ts[i])
      /\ Parse("plain", sig, k, pcs, Append(code, y))
  BY DEF Plain, CanApply
<1>4. k = IF sig.push = "pseudo" THEN j ELSE Push(j, sig.push)
  BY DEF Apply
<1>5. PlainOne(y) /\ Delta(y) = Keeps(sig.push) - Len(ts)
  BY DEF PlainOne, Delta, Instr, BranchOps
<1>. HIDE DEF ts, y
<1>6. Tracks(j, pcs, m) /\ Effect(tk, j, pcs, m, -Len(ts))
  BY <1>1, <1>2, <1>3, PoppedTracks, PoppedEffect
<1>7. tk.depth \in Int
  BY <1>1, DepthIs
<1>. HIDE DEF j, k
<1>8. Tracks(k, pcs, m) /\ Effect(tk, k, pcs, m, Delta(y))
  <2>1. CASE sig.push = "pseudo"
    <3>1. Delta(y) = -Len(ts)
      BY <1>2, <1>5, <2>1 DEF Keeps
    <3>2. k = j
      BY <1>4, <2>1
    <3>. QED
      BY ONLY <1>6, <3>1, <3>2
  <2>2. CASE sig.push # "pseudo"
    <3>1. k = Push(j, sig.push) /\ sig.push \in ValueTypes \cup {"any"}
      BY <1>2, <1>4, <2>2
    <3>2. Tracks(Push(j, sig.push), pcs, m) /\ Effect(j, Push(j, sig.push), pcs, m, 1)
      BY <1>6, <3>1, PushTracks, PushEffect
    <3>3. -Len(ts) \in Int /\ 1 \in Int /\ Delta(y) = (-Len(ts)) + 1
      BY <1>2, <1>5, <2>2 DEF Keeps
    <3>4. Effect(tk, k, pcs, m, (-Len(ts)) + 1)
      BY ONLY <1>6, <1>7, <3>1, <3>2, <3>3, EffectsAdd
    <3>. QED
      BY ONLY <3>1, <3>2, <3>3, <3>4
  <2>. QED
    BY <2>1, <2>2
<1>9. Inside(tk, k, pcs, m)
  BY <1>8 DEF Effect
<1>. QED
  BY <1>3, <1>5, <1>8, <1>9, PlainHeights

\* unreachable and nop.
LEMMA NopHeights ==
  ASSUME NEW m, NEW f, Ready(m, f), Unreachable \/ Nop
  PROVE  Stepped(f)
<1>1. Tracks(tk, pcs, m) /\ Len(pcs) \in Nat \ {0} /\ tk.depth \in Int
  BY Shortened, DepthIs DEF Ready, Scoped
<1>2. CASE Nop
  <2>. DEFINE y == Instr("nop")
  <2>1. Parse("nop", 0, tk, pcs, Append(code, y))
    BY <1>2 DEF Nop
  <2>2. PlainOne(y) /\ Delta(y) = 0
    BY DEF PlainOne, Delta, Instr, BranchOps
  <2>. HIDE DEF y
  <2>3. Inside(tk, tk, pcs, m)
    BY DEF Inside
  <2>4. Effect(tk, tk, pcs, m, Delta(y))
    BY <1>1, <2>2, <2>3 DEF Effect
  <2>. QED
    BY <1>1, <2>1, <2>2, <2>3, <2>4, PlainHeights
<1>3. CASE Unreachable
  <2>. DEFINE y == Instr("unreachable")
              k == start_unreachable(tk)
  <2>1. Parse("unreachable", 0, k, pcs, Append(code, y))
    BY <1>3 DEF Unreachable
  <2>2. PlainOne(y) /\ ~Falls(y)
    BY DEF PlainOne, Falls, Instr, BranchOps
  <2>3. Tracks(k, pcs, m)
    BY <1>1, UnreachableTracks
  <2>4. Inside(tk, k, pcs, m)
    BY <1>1, UnreachableTracks
  <2>. HIDE DEF y, k
  <2>. QED
    BY <2>1, <2>2, <2>3, <2>4, PlainHeights
<1>. QED
  BY <1>2, <1>3

\* The opcodes that only move data.
LEMMA DataHeights ==
  ASSUME NEW m, NEW f, Ready(m, f), DataStep
  PROVE  Stepped(f)
<1>1. ASSUME NEW i \in DOMAIN LocalTypes, GetLocal(i) \/ SetLocal(i) \/ TeeLocal(i)
      PROVE  Stepped(f)
  <2>. DEFINE t == LocalTypes[i]
  <2>1. t \in ValueTypes
    BY FunctionAssumption DEF LocalTypes
  <2>. HIDE DEF t
  <2>2. CASE GetLocal(i)
    BY <2>1, <2>2, LocalHeights DEF GetLocal, LocalInstr, t
  <2>3. CASE SetLocal(i)
    BY <2>1, <2>3, LocalHeights DEF SetLocal, LocalInstr, t
  <2>4. CASE TeeLocal(i)
    BY <2>1, <2>4, LocalHeights DEF TeeLocal, LocalInstr, t
  <2>. QED
    BY <1>1, <2>2, <2>3, <2>4
<1>2. ASSUME NEW t \in ValueTypes, NEW v \in Consts, Const(t, v)
      PROVE  Stepped(f)
  <2>1. Parse("const", <<t, v>>, Push(tk, t), pcs, Append(code, [Instr("const") EXCEPT !.arg = <<t, v>>]))
    BY <1>2 DEF Const
  <2>. QED
    BY <2>1, LocalHeights
<1>3. ASSUME DropOp \/ Select PROVE Stepped(f)
  BY <1>3, DropHeights
<1>4. ASSUME NEW sig \in PlainOps, Plain(sig) PROVE Stepped(f)
  BY <1>4, ApplyHeights
<1>. QED
  BY <1>1, <1>2, <1>3, <1>4 DEF DataStep

\* handle_branch_target leaves branches to their labels.
LEMMA ScopesGather ==
  ASSUME Scoped(pcs), NEW labels
  PROVE  Gathers(BranchScopes(labels), labels)
<1>. DEFINE q == BranchScopes(labels)
<1>1. Len(pcs) \in Nat /\ DOMAIN pcs = 1..Len(pcs)
  BY Lengths DEF Scoped
<1>2. q = [j \in 1..Len(pcs) |-> q[j]]
  BY <1>1 DEF BranchScopes
<1>3. IsSeq(q) /\ Len(q) = Len(pcs)
  <2>. HIDE DEF q
  <2>. QED
    BY <1>1, <1>2, Listed
<1>4. ASSUME NEW j \in 1..Len(pcs)
      PROVE  /\ q[j].target = pcs[j].target /\ q[j].operand_depth = pcs[j].operand_depth
             /\ q[j].label = pcs[j].label /\ q[j].expected = pcs[j].expected /\ q[j].is_if = pcs[j].is_if
             /\ q[j].relocations = IF pcs[j].target # NoTarget THEN pcs[j].relocations
                                   ELSE pcs[j].relocations \cup {b \in DOMAIN labels : labels[b] = Len(pcs) - j}
  <2>. DEFINE z == pcs[j]
              more == {b \in DOMAIN labels : labels[b] = Len(pcs) - j}
  <2>1. ScopeTyped(z)
    BY <1>1 DEF Scoped
  <2>2. q[j] = IF z.target # NoTarget THEN z
               ELSE [z EXCEPT !.relocations = @ \cup more]
    BY <1>1 DEF BranchScopes
  <2>. HIDE DEF z, more, q
  <2>3. /\ q[j].target = z.target /\ q[j].operand_depth = z.operand_depth
        /\ q[j].label = z.label /\ q[j].expected = z.expected /\ q[j].is_if = z.is_if
        /\ q[j].relocations = IF z.target # NoTarget THEN z.relocations ELSE z.relocations \cup more
    BY <2>1, <2>2 DEF ScopeTyped
  <2>. QED
    BY <2>3 DEF z, more
<1>. HIDE DEF q
<1>5. Gathers(q, labels)
  BY <1>3, <1>4 DEF Gathers
<1>. QED
  BY <1>5 DEF q

\* What a branch with k's depth leaves above the label's.
LEMMA BranchLeaves ==
  ASSUME NEW k, NEW m, Tracks(k, pcs, m), Scoped(pcs), NEW l \in Scopes
  PROVE  LET dc == DepthChange(k, l) IN
         /\ dc.pop \in Int /\ k.depth - dc.pop = Label(l).operand_depth
         /\ Kept(dc.keep) = Keeps(Label(l).label) /\ Label(l).operand_depth \in Nat
<1>. DEFINE j == Len(pcs) - l
<1>1. Len(pcs) \in Nat /\ j \in 1..Len(pcs)
  BY Lengths DEF Scoped, Scopes
<1>2. k.depth \in Nat /\ pcs[j].operand_depth \in Nat
  BY <1>1, DepthThere
<1>3. Label(l) = pcs[j]
  BY DEF Label
<1>. HIDE DEF j
<1>4. DepthChange(k, l).pop = k.depth - pcs[j].operand_depth
  BY <1>3 DEF DepthChange
<1>5. Kept(DepthChange(k, l).keep) = Keeps(Label(l).label)
  BY DEF DepthChange, Kept, Keeps
<1>. QED
  BY <1>2, <1>3, <1>4, <1>5

\* br, return and br_if: one branch, to label l.
LEMMA BranchHeights ==
  ASSUME NEW m, NEW f, Ready(m, f), NEW l \in Scopes, Br(l) \/ BrIf(l)
  PROVE  Stepped(f)
<1>1. Scoped(pcs) /\ Tracks(tk, pcs, m) /\ Len(pcs) \in Nat \ {0} /\ tk.depth \in Int
  BY Shortened, DepthIs DEF Ready, Scoped
<1>2. "i32" \in BlockTypes /\ Keeps("i32") = 1
  BY TypesAssumption DEF BlockTypes, Keeps
<1>3. PICK op, k, x : /\ Tracks(k, pcs, m) /\ CanBranch(k, l) /\ Effect(tk, k, pcs, m, x) /\ x \in Int
                      /\ pcs' = OneBranch(l) /\ code' = Append(code, BranchInstr(op, k, l))
                      /\ \/ op = "br" /\ x = 0 /\ tk' = start_unreachable(AfterBranch(k, l))
                         \/ op = "br_if" /\ x = -1 /\ tk' = AfterBranch(k, l)
  <2>1. CASE Br(l)
    <3>1. Effect(tk, tk, pcs, m, 0)
      BY <1>1 DEF Effect, Inside
    <3>. QED
      BY <1>1, <2>1, <3>1 DEF Br, Parse
  <2>2. CASE BrIf(l)
    <3>. DEFINE k == Pop(tk, "i32")
    <3>1. /\ CanPop(tk, "i32") /\ CanBranch(k, l)
          /\ tk' = AfterBranch(k, l) /\ pcs' = OneBranch(l)
          /\ code' = Append(code, BranchInstr("br_if", k, l))
      BY <2>2 DEF BrIf, Parse
    <3>2. Tracks(k, pcs, m) /\ Effect(tk, k, pcs, m, -1)
      BY <1>1, <1>2, <3>1, PopTracks, PopEffect
    <3>. HIDE DEF k
    <3>. QED
      BY <3>1, <3>2
  <2>. QED
    BY <2>1, <2>2
<1>. DEFINE j == AfterBranch(k, l)
            y == BranchInstr(op, k, l)
            d == Append(code, y)
            labels == [b \in {At(Here)} |-> l]
            q == BranchScopes(labels)
            g == Ext(f, code, tk)
<1>4. pcs' = q /\ code' = d
  BY <1>3 DEF OneBranch
<1>5. Tracks(j, pcs, m) /\ Effect(k, j, pcs, m, 0)
  BY <1>1, <1>3, BranchTracks, BranchEffect
<1>6. Effect(tk, j, pcs, m, x)
  <2>1. 0 \in Int /\ x + 0 = x /\ x \in Int
    BY <1>3
  <2>2. Effect(tk, j, pcs, m, x + 0)
    BY ONLY <1>1, <1>3, <1>5, <2>1, EffectsAdd
  <2>. QED
    BY ONLY <2>1, <2>2
<1>7. /\ y.op = op /\ y.pc = KnownTarget(l) /\ y.table = <<>>
      /\ y.pop = DepthChange(k, l).pop /\ y.keep = DepthChange(k, l).keep
  BY DEF BranchInstr, Instr
<1>8. /\ y.pop \in Int /\ k.depth - y.pop = Label(l).operand_depth
      /\ Kept(y.keep) = Keeps(Label(l).label) /\ Label(l).operand_depth \in Nat
  BY <1>1, <1>3, <1>7, BranchLeaves
<1>9. tk' \in {j, start_unreachable(j)} /\ (op = "br_if" => tk' = j)
  BY <1>3
<1>10. y.op \in {"br", "br_if"}
  BY <1>3, <1>7
<1>. HIDE DEF j, y
<1>11. Tracks(tk', pcs, m) /\ Inside(tk, tk', pcs, m)
  <2>1. CASE tk' = j
    BY <1>5, <1>6, <2>1 DEF Effect
  <2>2. CASE tk' = start_unreachable(j)
    <3>1. Tracks(start_unreachable(j), pcs, m) /\ Inside(j, start_unreachable(j), pcs, m)
      BY <1>1, <1>5, UnreachableTracks
    <3>2. Inside(tk, j, pcs, m)
      BY <1>6 DEF Effect
    <3>. QED
      BY <2>2, <3>1, <3>2 DEF Inside
  <2>. QED
    BY <1>9, <2>1, <2>2
<1>12. Writes(d, y) /\ Len(d) = Len(code) + 1
  BY <1>10, WritesOne
<1>. HIDE DEF d
<1>13. Moves(d, y, tk', m)
  <2>1. Falls(y) => op = "br_if"
    BY <1>7, <1>10 DEF Falls
  <2>2. op = "br_if" => Delta(y) = -1 /\ x = -1 /\ tk' = j
    BY <1>3, <1>7, <1>9 DEF Delta
  <2>3. Falls(y) => (Reach(tk) => Reach(tk') /\ tk'.depth = tk.depth + Delta(y))
    BY <1>6, <2>1, <2>2 DEF Effect
  <2>. QED
    BY <1>10, <1>11, <1>12, <2>3 DEF Moves
<1>14. LeadsTo(d, y, labels)
  <2>1. DOMAIN labels = {At(Len(code))} /\ labels[At(Len(code))] = l
    BY DEF Here
  <2>2. At(Len(code)).at = Len(code) /\ At(Len(code)).entry = 0 /\ At(Len(code)) = AtEntry(Len(code), 0)
    BY DEF At, AtEntry
  <2>3. d[Len(code) + 1] = y
    BY <1>12 DEF Writes
  <2>4. \A e : IsBranch(d, Len(code) + 1, e) <=> e = 0
    BY <1>7, <1>10, <2>3 DEF IsBranch, BranchOps
  <2>5. Goal(d, Len(code) + 1, 0) = KnownTarget(l)
    BY <1>7, <2>3 DEF Goal
  <2>6. Reach(tk) => Lands(y, 0, tk.depth) = Label(l).operand_depth + Keeps(Label(l).label)
    <3>1. Reach(tk) => k.depth = tk.depth + x
      BY <1>3 DEF Effect
    <3>2. CASE y.op = "br"
      <4>1. Lands(y, 0, tk.depth) = tk.depth - y.pop + Kept(y.keep) /\ x = 0
        BY <1>3, <1>7, <3>2 DEF Lands
      <4>. QED
        BY <1>1, <1>8, <3>1, <4>1
    <3>3. CASE y.op = "br_if"
      <4>1. Lands(y, 0, tk.depth) = tk.depth - 1 - y.pop + Kept(y.keep) /\ x = -1
        BY <1>3, <1>7, <3>3 DEF Lands
      <4>. QED
        BY <1>1, <1>8, <3>1, <4>1
    <3>. QED
      BY <1>10, <3>2, <3>3
  <2>. HIDE DEF labels
  <2>. QED
    BY <2>1, <2>2, <2>4, <2>5, <2>6 DEF LeadsTo
<1>. HIDE DEF labels
<1>15. Gathers(q, labels) /\ Tracks(tk', q, m)
  BY <1>1, <1>11, ScopesGather, ScopesKept
<1>. HIDE DEF q
<1>16. Heights(g, d, q, tk', m)
  BY <1>10, <1>12, <1>13, <1>14, <1>15, EmitHeights
<1>17. \A a \in DOMAIN g : g[a] = tk.depth \/ (a \in DOMAIN f /\ g[a] = f[a])
  BY ExtAdds
<1>. HIDE DEF g
<1>. QED
  BY <1>4, <1>15, <1>16, <1>17 DEF Stepped

\* br_table: a branch for every entry, and data no run reaches.
LEMMA TableHeights ==
  ASSUME NEW m, NEW f, Ready(m, f), NEW ls \in SeqOf(Scopes, MaxCases + 1) \ {<<>>}, BrTable(ls)
  PROVE  Stepped(f)
<1>. DEFINE k      == Branched(ls)
            n      == Len(ls)
            table  == [i \in DOMAIN ls |-> TableEntry(k[i - 1], ls[i])]
            y      == [Instr("br_table") EXCEPT !.table = table]
            data   == [x \in 1..DataSlots(n - 1) |-> Instr("data")]
            labels == [b \in {AtEntry(Here, i) : i \in DOMAIN ls} |-> ls[b.entry]]
            c      == Append(code, y)
            d      == c \o data
            q      == BranchScopes(labels)
            g      == Ext(f, code, tk)
<1>1. /\ CanPop(tk, "i32")
      /\ \A i \in DOMAIN ls : CanBranch(k[i - 1], ls[i])
      /\ tk' = start_unreachable(k[n]) /\ pcs' = q /\ code' = d
  BY DEF BrTable, Parse
<1>2. IsSeq(ls) /\ n \in Nat /\ n >= 1 /\ DOMAIN ls = 1..n /\ \A i \in DOMAIN ls : ls[i] \in Scopes
  <2>1. PICK x \in 0..(MaxCases + 1) : ls \in [1..x -> Scopes]
    BY DEF SeqOf
  <2>2. x \in Nat
    OBVIOUS
  <2>3. ls \in Seq(Scopes)
    BY <2>1, <2>2
  <2>4. ls # <<>>
    OBVIOUS
  <2>5. IsSeq(ls)
    BY <2>3 DEF IsSeq
  <2>. QED
    BY <2>3, <2>4, <2>5
<1>3. Scoped(pcs) /\ Tracks(tk, pcs, m) /\ Len(pcs) \in Nat \ {0} /\ tk.depth \in Int /\ IsSeq(code)
  BY Shortened, DepthIs DEF Ready, Scoped, IsCode
<1>4. \A i \in 0..n : Tracks(k[i], pcs, m) /\ Effect(tk, k[i], pcs, m, -1)
  BY <1>1, <1>2, <1>3, BranchedTracks, BranchedEffect
<1>. HIDE DEF k
<1>5. n \in 0..n /\ \A i \in DOMAIN ls : i - 1 \in 0..n /\ i # 0
  BY <1>2
<1>6. Tracks(tk', pcs, m) /\ Inside(tk, tk', pcs, m)
  <2>. DEFINE j == k[n]
  <2>1. Tracks(j, pcs, m) /\ Inside(tk, j, pcs, m) /\ tk' = start_unreachable(j)
    BY <1>1, <1>4, <1>5 DEF Effect
  <2>. HIDE DEF j
  <2>2. Tracks(start_unreachable(j), pcs, m) /\ Inside(j, start_unreachable(j), pcs, m)
    BY <1>3, <2>1, UnreachableTracks
  <2>. QED
    BY <2>1, <2>2 DEF Inside
<1>7. ASSUME NEW i \in DOMAIN ls
      PROVE  /\ table[i].pc = KnownTarget(ls[i])
             /\ Reach(tk) => tk.depth - 1 - table[i].pop + Kept(table[i].keep)
                               = Label(ls[i]).operand_depth + Keeps(Label(ls[i]).label)
  <2>. DEFINE j == k[i - 1]
              l == ls[i]
              dc == DepthChange(j, l)
  <2>1. Tracks(j, pcs, m) /\ l \in Scopes /\ (Reach(tk) => j.depth = tk.depth + (-1))
    BY <1>2, <1>4, <1>5 DEF Effect
  <2>2. table[i].pc = KnownTarget(l) /\ table[i].pop = dc.pop /\ table[i].keep = dc.keep
    BY DEF TableEntry
  <2>. HIDE DEF j, l, table
  <2>3. /\ dc.pop \in Int /\ j.depth - dc.pop = Label(l).operand_depth
        /\ Kept(dc.keep) = Keeps(Label(l).label) /\ Label(l).operand_depth \in Nat
    BY <1>3, <2>1, BranchLeaves
  <2>4. Keeps(Label(l).label) \in Int
    BY DEF Keeps
  <2>. HIDE DEF dc
  <2>5. Reach(tk) => tk.depth - 1 - dc.pop + Kept(dc.keep) = Label(l).operand_depth + Keeps(Label(l).label)
    BY <1>3, <2>1, <2>3, <2>4
  <2>. QED
    BY <2>2, <2>5 DEF l
<1>8. DOMAIN table = DOMAIN ls
  OBVIOUS
<1>. HIDE DEF table
<1>9. y.op = "br_table" /\ y.table = table
  BY DEF Instr
<1>. HIDE DEF y
<1>10. IsSeq(c) /\ Len(c) = Len(code) + 1 /\ c[Len(code) + 1] = y /\ DOMAIN c = 1..(Len(code) + 1)
       /\ \A i \in DOMAIN code : i \in DOMAIN c /\ c[i] = code[i]
  BY ONLY <1>3, Appended
<1>. HIDE DEF c
<1>11. Writes(d, y)
  <2>1. DataSlots(n - 1) \in Nat
    <3>1. n - 1 \in Nat
      BY <1>2
    <3>. QED
      BY <3>1, SlotsBound, Zenon
  <2>2. data = [x \in 1..DataSlots(n - 1) |-> data[x]]
    OBVIOUS
  <2>. HIDE DEF data
  <2>3. IsSeq(data) /\ Len(data) \in Nat
    BY <2>1, <2>2, Listed
  <2>4. Len(d) = Len(c) + Len(data) /\ \A i \in DOMAIN c : d[i] = c[i]
    BY ONLY <1>10, <2>3, Joined
  <2>. HIDE DEF d
  <2>5. Len(code) \in Nat
    BY <1>3, Lengths
  <2>6. Len(code) + 1 \in DOMAIN c
    BY <1>10, <2>5
  <2>7. Len(d) \in Nat /\ Len(d) > Len(code)
    BY <1>10, <2>3, <2>4, <2>5
  <2>. QED
    BY <1>9, <1>10, <2>4, <2>6, <2>7 DEF Writes
<1>. HIDE DEF d
<1>12. Moves(d, y, tk', m)
  <2>1. 0 \in 0..n
    BY <1>2
  <2>2. k[0].depth \in Nat /\ (Reach(tk) => k[0].depth = tk.depth + (-1))
    BY <1>4, <2>1, DepthIs DEF Effect
  <2>3. Reach(tk) => tk.depth # 0
    BY <1>3, <2>2
  <2>. QED
    BY <1>6, <1>9, <2>3 DEF Moves, Falls
<1>13. LeadsTo(d, y, labels)
  <2>1. DOMAIN labels = {AtEntry(Len(code), i) : i \in DOMAIN ls}
    BY DEF Here
  <2>2. \A b \in DOMAIN labels : labels[b] = ls[b.entry]
    OBVIOUS
  <2>. HIDE DEF labels
  <2>3. d[Len(code) + 1] = y
    BY <1>11 DEF Writes
  <2>4. \A e : IsBranch(d, Len(code) + 1, e) <=> e \in DOMAIN ls
    BY <1>8, <1>9, <2>3 DEF IsBranch, BranchOps
  <2>5. ASSUME NEW b \in DOMAIN labels
        PROVE  /\ b.at = Len(code) /\ IsBranch(d, Len(code) + 1, b.entry) /\ labels[b] \in Scopes
               /\ Goal(d, Len(code) + 1, b.entry) = KnownTarget(labels[b])
               /\ Reach(tk) => Lands(y, b.entry, tk.depth)
                                 = Label(labels[b]).operand_depth + Keeps(Label(labels[b]).label)
    <3>1. PICK i \in DOMAIN ls : b = AtEntry(Len(code), i)
      BY <2>1
    <3>2. b.at = Len(code) /\ b.entry = i /\ labels[b] = ls[i]
      BY <2>2, <3>1 DEF AtEntry
    <3>3. Goal(d, Len(code) + 1, i) = table[i].pc
      BY <1>5, <1>9, <2>3 DEF Goal
    <3>4. Lands(y, i, tk.depth) = tk.depth - 1 - table[i].pop + Kept(table[i].keep)
      BY <1>5, <1>9 DEF Lands
    <3>5. IsBranch(d, Len(code) + 1, i) /\ ls[i] \in Scopes
      BY <1>2, <2>4
    <3>. QED
      BY <1>7, <3>2, <3>3, <3>4, <3>5
  <2>. QED
    BY <2>1, <2>4, <2>5 DEF LeadsTo
<1>. HIDE DEF labels
<1>14. Gathers(q, labels) /\ Tracks(tk', q, m)
  BY <1>3, <1>6, ScopesGather, ScopesKept
<1>. HIDE DEF q
<1>15. Heights(g, d, q, tk', m)
  BY <1>9, <1>11, <1>12, <1>13, <1>14, EmitHeights
<1>16. \A a \in DOMAIN g : g[a] = tk.depth \/ (a \in DOMAIN f /\ g[a] = f[a])
  BY ExtAdds
<1>. HIDE DEF g
<1>. QED
  BY <1>1, <1>14, <1>15, <1>16 DEF Stepped

\* block and loop: no code, and a scope that nothing waits for.
LEMMA BlockHeights ==
  ASSUME NEW m, NEW f, Ready(m, f), NEW t \in BlockTypes, Block(t) \/ Loop(t)
  PROVE  Stepped(f)
<1>1. Scoped(pcs) /\ IsSeq(pcs) /\ Tracks(tk, pcs, m) /\ Len(pcs) \in Nat \ {0} /\ DOMAIN pcs = 1..Len(pcs)
  BY Shortened, Lengths DEF Ready, Scoped
<1>2. Len(code) \in Nat /\ DOMAIN code = 1..Len(code)
  BY Lengths DEF Ready, IsCode
<1>3. PICK z : /\ z.operand_depth = tk.depth /\ ScopeTyped(z) /\ z.is_if = FALSE /\ z.relocations = {}
               /\ \/ z.target = NoTarget /\ z.label = z.expected
                  \/ z.target = Len(code) /\ z.label = "pseudo"
               /\ tk' = push_scope(tk) /\ pcs' = Append(pcs, z) /\ code' = code
  <2>1. CASE Block(t)
    <3>. DEFINE z == Scope(tk, t, t, FALSE, NoTarget, {})
    <3>1. z.operand_depth = tk.depth /\ ScopeTyped(z)
      BY ScopeMade
    <3>2. z.is_if = FALSE /\ z.relocations = {} /\ z.target = NoTarget /\ z.label = z.expected
      BY DEF Scope
    <3>3. tk' = push_scope(tk) /\ pcs' = Append(pcs, z) /\ code' = code
      BY <2>1 DEF Block, Parse
    <3>. HIDE DEF z
    <3>. QED
      BY <3>1, <3>2, <3>3
  <2>2. CASE Loop(t)
    <3>. DEFINE z == Scope(tk, t, "pseudo", FALSE, Here, {})
    <3>1. z.operand_depth = tk.depth /\ ScopeTyped(z)
      BY ScopeMade DEF BlockTypes
    <3>2. z.is_if = FALSE /\ z.relocations = {} /\ z.target = Len(code) /\ z.label = "pseudo"
      BY DEF Scope, Here
    <3>3. tk' = push_scope(tk) /\ pcs' = Append(pcs, z) /\ code' = code
      BY <2>2 DEF Loop, Parse
    <3>. HIDE DEF z
    <3>. QED
      BY <3>1, <3>2, <3>3
  <2>. QED
    BY <2>1, <2>2
<1>. DEFINE q == Append(pcs, z)
            y == push_scope(tk)
            n == Len(pcs)
<1>4. PICK w : Tracks(y, q, w) /\ NewMark(tk, pcs, m, w)
  BY <1>1, <1>3, ScopeTracks
<1>5. /\ y.depth = tk.depth
      /\ Reach(tk) => Reach(y)
      /\ Clear(y.state, w[n + 1]) => Reach(y)
      /\ \A j \in 1..n : Clear(tk.state, m[j]) <=> Clear(y.state, w[j])
  BY <1>1, <1>4, OpenEffect
<1>. HIDE DEF y
<1>6. /\ Len(q) = n + 1 /\ DOMAIN q = 1..(n + 1) /\ q[n + 1] = z
      /\ \A i \in DOMAIN pcs : i \in DOMAIN q /\ q[i] = pcs[i]
  BY ONLY <1>1, Appended
<1>. HIDE DEF q
<1>7. q # <<>>
  BY <1>1, <1>6
<1>8. \A a, h : Arrives(f, code, pcs, tk, a, h) => Arrives(f, code, q, y, a, h)
  BY <1>5, <1>7 DEF Arrives
<1>9. \A i, e : Waits(pcs, i, e) => Waits(q, i, e)
  BY <1>6 DEF Waits
<1>10. Flows(f, code, q, y)
  <2>1. Flows(f, code, pcs, tk)
    BY DEF Ready, Heights
  <2>2. ASSUME NEW a \in DOMAIN f PROVE Flow(f, code, q, y, a)
    <3>1. Flow(f, code, pcs, tk, a)
      BY <2>1 DEF Flows
    <3>. QED
      BY <1>8, <1>9, <3>1 DEF Flow
  <2>. QED
    BY <1>8, <2>1, <2>2 DEF Flows
<1>11. Grows(f, code, f, code)
  BY <1>2 DEF Grows, SameInstr
<1>12. ASSUME NEW j \in 1..Len(q)
       PROVE  /\ Owed(f, code, q[j], y.state, w[j])
              /\ q[j].target # NoTarget /\ Clear(y.state, w[j]) =>
                   Arrives(f, code, q, y, q[j].target, q[j].operand_depth)
  <2>1. CASE j \in 1..n
    <3>1. q[j] = pcs[j]
      BY <1>1, <1>6, <2>1
    <3>2. /\ Owed(f, code, pcs[j], tk.state, m[j])
          /\ pcs[j].target # NoTarget /\ Clear(tk.state, m[j]) =>
               Arrives(f, code, pcs, tk, pcs[j].target, pcs[j].operand_depth)
      BY <2>1 DEF Ready, Heights, Owes
    <3>3. Clear(tk.state, m[j]) <=> Clear(y.state, w[j])
      BY <1>5, <2>1
    <3>4. Owed(f, code, pcs[j], y.state, w[j])
      BY <1>11, <3>2, <3>3, OwedGrows
    <3>. QED
      BY <1>8, <3>1, <3>2, <3>3, <3>4
  <2>2. CASE j = n + 1
    <3>1. q[j] = z
      BY <1>6, <2>2
    <3>2. Owed(f, code, z, y.state, w[j])
      BY <1>2, <1>3 DEF Owed, NoTarget
    <3>3. z.target # NoTarget /\ Clear(y.state, w[j]) => Arrives(f, code, q, y, z.target, z.operand_depth)
      BY <1>3, <1>5, <1>7, <2>2 DEF Arrives
    <3>. QED
      BY <3>1, <3>2, <3>3
  <2>3. j \in 1..n \/ j = n + 1
    BY <1>1, <1>6
  <2>. QED
    BY <2>1, <2>2, <2>3
<1>13. Heights(f, code, q, y, w)
  BY <1>10, <1>12 DEF Heights, Owes
<1>14. tk' = y /\ pcs' = q /\ code' = code
  BY <1>3 DEF y, q
<1>. QED
  BY <1>4, <1>13, <1>14 DEF Stepped

\* if: its branch is the first that waits for its scope.
LEMMA IfHeights ==
  ASSUME NEW m, NEW f, Ready(m, f), NEW t \in BlockTypes, If(t)
  PROVE  Stepped(f)
<1>. DEFINE k == Pop(tk, "i32")
            z == Scope(k, t, t, TRUE, NoTarget, {At(Here)})
            q == Append(pcs, z)
            y == push_scope(k)
            n == Len(pcs)
            x == Instr("if")
            d == Append(code, x)
            g == Ext(f, code, tk)
<1>1. Scoped(pcs) /\ IsSeq(pcs) /\ Tracks(tk, pcs, m) /\ n \in Nat \ {0} /\ DOMAIN pcs = 1..n
  BY Shortened, Lengths DEF Ready, Scoped
<1>2. Len(code) \in Nat /\ DOMAIN code = 1..Len(code) /\ Flows(f, code, pcs, tk) /\ pcs # <<>>
  BY Lengths DEF Ready, IsCode, Heights
<1>3. "i32" \in BlockTypes /\ Keeps("i32") = 1
  BY TypesAssumption DEF BlockTypes, Keeps
<1>4. CanPop(tk, "i32") /\ tk' = y /\ pcs' = q /\ code' = d
  BY DEF If, Parse
<1>5. Tracks(k, pcs, m) /\ Effect(tk, k, pcs, m, -1)
  BY <1>1, <1>3, <1>4, PopTracks, PopEffect
<1>6. z.operand_depth = k.depth /\ ScopeTyped(z)
  BY ScopeMade
<1>7. /\ z.is_if = TRUE /\ z.relocations = {At(Len(code))} /\ z.target = NoTarget
      /\ z.label = t /\ z.expected = t
  BY DEF Scope, Here
<1>. HIDE DEF z, k
<1>8. PICK w : Tracks(y, q, w) /\ NewMark(k, pcs, m, w)
  BY <1>1, <1>5, <1>6, ScopeTracks
<1>9. /\ y.depth = k.depth
      /\ Reach(k) => Reach(y)
      /\ \A j \in 1..n : Clear(k.state, m[j]) <=> Clear(y.state, w[j])
  BY <1>5, <1>8, OpenEffect
<1>. HIDE DEF y
<1>10. /\ Len(q) = n + 1 /\ DOMAIN q = 1..(n + 1) /\ q[n + 1] = z
       /\ \A i \in DOMAIN pcs : i \in DOMAIN q /\ q[i] = pcs[i]
  BY ONLY <1>1, Appended
<1>. HIDE DEF q
<1>11. q # <<>>
  BY <1>1, <1>10
<1>12. \A i, e : Waits(pcs, i, e) => Waits(q, i, e)
  BY <1>10 DEF Waits
<1>13. x.op = "if" /\ x.table = <<>> /\ Falls(x) /\ Delta(x) = -1 /\ \A h : Lands(x, 0, h) = h - 1
  BY DEF Instr, Falls, Delta, Lands
<1>. HIDE DEF x
<1>14. Writes(d, x) /\ Len(d) = Len(code) + 1
  BY <1>13, WritesOne
<1>15. tk.depth \in Nat /\ (Reach(tk) => Reach(y) /\ y.depth = tk.depth + (-1))
  BY <1>1, <1>5, <1>9, DepthIs DEF Effect
<1>. HIDE DEF d
<1>16. \A e : IsBranch(d, Len(code) + 1, e) <=> e = 0
  BY <1>13, <1>14 DEF IsBranch, BranchOps, Writes
<1>17. At(Len(code)) = AtEntry((Len(code) + 1) - 1, 0) /\ At(Len(code)).at = Len(code) /\ At(Len(code)).entry = 0
  BY <1>2 DEF At, AtEntry
<1>18. Waits(q, Len(code) + 1, 0)
  <2>1. n + 1 \in DOMAIN q
    BY <1>1, <1>10
  <2>. QED
    BY <1>7, <1>10, <1>17, <2>1 DEF Waits
<1>19. Flows(g, d, q, y)
  <2>1. Falls(x) /\ Reach(tk) => Len(d) = Len(code) + 1 /\ Reach(y) /\ y.depth = tk.depth + Delta(x)
    BY <1>13, <1>14, <1>15
  <2>2. Reach(tk) => \A e : IsBranch(d, Len(code) + 1, e) =>
          \/ Arrives(f, code, pcs, tk, Goal(d, Len(code) + 1, e), Lands(x, e, tk.depth))
          \/ Waits(q, Len(code) + 1, e)
    BY <1>16, <1>18
  <2>. QED
    BY <1>2, <1>11, <1>12, <1>13, <1>14, <1>15, <2>1, <2>2, Emitted DEF Writes
<1>20. Grows(f, code, g, d)
  BY <1>14, CodeGrows
<1>21. /\ \A a \in DOMAIN g : a \notin DOMAIN f => a = Len(code) /\ Reach(tk) /\ g[a] = tk.depth
       /\ \A a \in DOMAIN f : a # Len(code)
       /\ \A a, h : Arrives(f, code, pcs, tk, a, h) => a \in DOMAIN g /\ g[a] = h
  BY <1>2, ExtIs
<1>22. \A a \in DOMAIN g : g[a] = tk.depth \/ (a \in DOMAIN f /\ g[a] = f[a])
  BY ExtAdds
<1>. HIDE DEF g
<1>23. ASSUME NEW j \in 1..Len(q)
       PROVE  /\ Owed(g, d, q[j], y.state, w[j])
              /\ q[j].target # NoTarget /\ Clear(y.state, w[j]) =>
                   Arrives(g, d, q, y, q[j].target, q[j].operand_depth)
  <2>1. CASE j \in 1..n
    <3>1. q[j] = pcs[j]
      BY <1>1, <1>10, <2>1
    <3>2. /\ Owed(f, code, pcs[j], tk.state, m[j])
          /\ pcs[j].target # NoTarget /\ Clear(tk.state, m[j]) =>
               Arrives(f, code, pcs, tk, pcs[j].target, pcs[j].operand_depth)
      BY <2>1 DEF Ready, Heights, Owes
    <3>3. Inside(tk, k, pcs, m)
      BY <1>5 DEF Effect
    <3>4. Clear(tk.state, m[j]) <=> Clear(k.state, m[j])
      BY <2>1, <3>3, InsideClear
    <3>5. Clear(tk.state, m[j]) <=> Clear(y.state, w[j])
      BY <1>9, <2>1, <3>4
    <3>6. Owed(g, d, pcs[j], y.state, w[j])
      BY <1>20, <3>2, <3>5, OwedGrows
    <3>7. pcs[j].target # NoTarget /\ Clear(y.state, w[j]) =>
            Arrives(g, d, q, y, pcs[j].target, pcs[j].operand_depth)
      BY <1>21, <3>2, <3>5 DEF Arrives
    <3>. QED
      BY <3>1, <3>6, <3>7
  <2>2. CASE j = n + 1
    <3>1. q[j] = z
      BY <1>10, <2>2
    <3>2. Len(code) \in 0..(Len(d) - 1) /\ d[Len(code) + 1] = x
      BY <1>2, <1>14 DEF Writes
    <3>3. Len(code) \in DOMAIN g => Reach(tk) /\ g[Len(code)] = tk.depth
      BY <1>21
    <3>4. Reach(tk) => Clear(y.state, w[j])
      <4>1. j \in 1..Len(q)
        OBVIOUS
      <4>. QED
        BY <1>8, <1>15, <4>1, ReachClear
    <3>5. Due(d, z, At(Len(code))) = k.depth
      <4>1. k.depth \in Nat
        BY <1>5, DepthIs
      <4>. QED
        BY <1>6, <1>13, <1>17, <3>2, <4>1 DEF Due
    <3>6. Reach(tk) => Lands(x, 0, tk.depth) = k.depth
      BY <1>9, <1>13, <1>15
    <3>7. FirstIs(z.relocations, At(Len(code)))
      BY <1>7 DEF FirstIs
    <3>8. Owed(g, d, z, y.state, w[j])
      BY <1>7, <1>13, <1>16, <1>17, <3>2, <3>3, <3>4, <3>5, <3>6, <3>7 DEF Owed
    <3>. QED
      BY <1>7, <3>1, <3>8
  <2>3. j \in 1..n \/ j = n + 1
    BY <1>1, <1>10
  <2>. QED
    BY <2>1, <2>2, <2>3
<1>24. Heights(g, d, q, y, w)
  BY <1>19, <1>23 DEF Heights, Owes
<1>. QED
  BY <1>4, <1>8, <1>22, <1>24 DEF Stepped

\* fix_branch changes where branches lead, and nothing else.
LEMMA FixedSame ==
  ASSUME NEW c, IsCode(c), NEW bs, NEW t, NEW i \in DOMAIN c
  PROVE  SameInstr(c[i], fix_branch(c, bs, t)[i])
<1>. DEFINE d == fix_branch(c, bs, t)
            x == c[i]
            y == d[i]
<1>1. IsInstr(x)
  BY DEF IsCode
<1>2. /\ y.op = x.op /\ y.arg = x.arg /\ y.pop = x.pop /\ y.keep = x.keep
      /\ DOMAIN y.table = DOMAIN x.table
      /\ \A e \in DOMAIN x.table : y.table[e].pop = x.table[e].pop /\ y.table[e].keep = x.table[e].keep
  BY <1>1, FixedAt
<1>. HIDE DEF x, y
<1>3. (Falls(x) <=> Falls(y)) /\ Delta(x) = Delta(y)
  BY <1>2 DEF Falls, Delta
<1>4. ASSUME NEW e, NEW h, e = 0 \/ e \in DOMAIN x.table PROVE Lands(x, e, h) = Lands(y, e, h)
  <2>1. CASE e = 0
    BY <1>2, <2>1 DEF Lands
  <2>2. CASE e # 0
    BY <1>2, <1>4, <2>2 DEF Lands
  <2>. QED
    BY <2>1, <2>2
<1>5. SameInstr(x, y)
  BY <1>2, <1>3, <1>4 DEF SameInstr
<1>. QED
  BY <1>5 DEF x, y, d

\* The innermost scope, what it is owed, and the tracker once it is left.
LEMMA InnerScope ==
  ASSUME NEW m, NEW f, Ready(m, f)
  PROVE  LET s == Last(pcs) IN
         /\ Len(pcs) \in Nat \ {0} /\ Len(pcs) \in 1..Len(pcs) /\ s = pcs[Len(pcs)] /\ ScopeTyped(s)
         /\ Owed(f, code, s, tk.state, m[Len(pcs)]) /\ s.operand_depth \in Nat
<1>1. /\ IsSeq(pcs) /\ Len(pcs) \in Nat \ {0} /\ Last(pcs) = pcs[Len(pcs)] /\ Len(pcs) \in DOMAIN pcs
  BY Shortened DEF Ready, Scoped
<1>2. Len(pcs) \in 1..Len(pcs)
  BY <1>1
<1>3. ScopeTyped(pcs[Len(pcs)])
  BY <1>1 DEF Ready, Scoped
<1>4. Owed(f, code, pcs[Len(pcs)], tk.state, m[Len(pcs)])
  BY <1>2 DEF Ready, Heights, Owes
<1>5. pcs[Len(pcs)].operand_depth \in Nat
  BY <1>2, DepthThere DEF Ready
<1>. QED
  BY <1>1, <1>2, <1>3, <1>4, <1>5

\* exit_scope resolves what waits for the scope.
LEMMA EndFlows ==
  ASSUME NEW m, NEW f, Ready(m, f),
         LET s == Last(pcs) IN CanPopScope(tk, s.expected) /\ (s.is_if => s.expected = "pseudo"),
         NEW q, q # <<>>,
         \A i, e : Waits(pcs, i, e) /\ AtEntry(i - 1, e) \notin Last(pcs).relocations => Waits(q, i, e)
  PROVE  LET s == Last(pcs) IN
         Flows(f, fix_branch(code, s.relocations, Here), q, pop_scope(tk, s.expected))
<1>. DEFINE s == Last(pcs)
            t == s.expected
            d == fix_branch(code, s.relocations, Here)
            y == pop_scope(tk, t)
            h == Len(pcs)
<1>1. /\ h \in Nat \ {0} /\ ScopeTyped(s) /\ s.operand_depth \in Nat
      /\ Owed(f, code, s, tk.state, m[h])
  BY InnerScope
<1>2. IsCode(code) /\ Flows(f, code, pcs, tk) /\ Tracks(tk, pcs, m) /\ IsSeq(pcs) /\ pcs # <<>>
  BY DEF Ready, Heights, Scoped
<1>3. Len(code) \in Nat /\ DOMAIN code = 1..Len(code)
  BY <1>2, Lengths DEF IsCode
<1>4. t \in BlockTypes /\ CanPopScope(tk, t)
  BY <1>1 DEF ScopeTyped
<1>5. s.is_if => t = "pseudo"
  OBVIOUS
<1>6. /\ Len(d) = Len(code) /\ DOMAIN d = DOMAIN code
      /\ \A i \in DOMAIN code : \A e : IsBranch(d, i, e) =>
           /\ IsBranch(code, i, e)
           /\ Goal(d, i, e) = IF AtEntry(i - 1, e) \in s.relocations THEN Len(code) ELSE Goal(code, i, e)
  BY <1>2, Fixed DEF Here
<1>7. \A i \in DOMAIN code : SameInstr(code[i], d[i])
  BY <1>2, FixedSame
<1>. HIDE DEF s, t
<1>8. /\ Clear(tk.state, m[h]) => Reach(y)
      /\ y.depth = s.operand_depth + Keeps(t)
      /\ Reach(tk) => Clear(tk.state, m[h]) /\ y.depth = tk.depth
  BY <1>2, <1>4, ScopeLeft DEF s
<1>. HIDE DEF d, y, h
<1>9. \A a, b : Arrives(f, code, pcs, tk, a, b) => Arrives(f, d, q, y, a, b)
  BY <1>6, <1>8 DEF Arrives
<1>10. ASSUME NEW a \in DOMAIN f PROVE Flow(f, d, q, y, a)
  <2>1. Flow(f, code, pcs, tk, a) /\ a \in 0..(Len(code) - 1)
    BY <1>2 DEF Flows
  <2>2. a + 1 \in DOMAIN code /\ (a + 1) - 1 = a
    BY <1>3, <2>1
  <2>3. SameInstr(code[a + 1], d[a + 1])
    BY <1>7, <2>2
  <2>4. f[a] \in Nat /\ d[a + 1].op # "data" /\ (d[a + 1].op = "br_table" => f[a] # 0)
    BY <2>1, <2>3 DEF Flow, SameInstr
  <2>5. Falls(d[a + 1]) => Arrives(f, d, q, y, a + 1, f[a] + Delta(d[a + 1]))
    BY <1>9, <2>1, <2>3 DEF Flow, SameInstr
  <2>6. ASSUME NEW e, IsBranch(d, a + 1, e)
        PROVE  Arrives(f, d, q, y, Goal(d, a + 1, e), Lands(d[a + 1], e, f[a])) \/ Waits(q, a + 1, e)
    <3>. DEFINE b == AtEntry(a, e)
    <3>1. b.at = a /\ b.entry = e /\ b = AtEntry((a + 1) - 1, e)
      BY <2>2 DEF AtEntry
    <3>2. /\ IsBranch(code, a + 1, e)
          /\ Goal(d, a + 1, e) = IF b \in s.relocations THEN Len(code) ELSE Goal(code, a + 1, e)
      BY <1>6, <2>2, <2>6, <3>1
    <3>3. Lands(d[a + 1], e, f[a]) = Lands(code[a + 1], e, f[a])
      BY <2>3, <3>2 DEF SameInstr, IsBranch
    <3>. HIDE DEF b
    <3>4. CASE b \in s.relocations
      <4>1. /\ Clear(tk.state, m[h]) /\ Lands(code[a + 1], e, f[a]) = Due(code, s, b)
            /\ s.target = NoTarget
        BY <1>1, <3>1, <3>4 DEF Owed
      <4>2. s.label = t
        BY <1>1, <4>1 DEF Owed, t
      <4>3. code[a + 1].op = "if" => t = "pseudo"
        BY <1>1, <1>5, <3>1, <3>4 DEF Owed
      <4>4. Due(code, s, b) = s.operand_depth + Keeps(t)
        BY <1>1, <3>1, <4>2, <4>3 DEF Due, Keeps
      <4>5. Reach(y) /\ y.depth = Lands(d[a + 1], e, f[a]) /\ Goal(d, a + 1, e) = Len(d)
        BY <1>6, <1>8, <3>2, <3>3, <3>4, <4>1, <4>4
      <4>. QED
        BY <4>5 DEF Arrives
    <3>5. CASE b \notin s.relocations
      <4>1. Goal(d, a + 1, e) = Goal(code, a + 1, e)
        BY <3>2, <3>5
      <4>2. Arrives(f, code, pcs, tk, Goal(code, a + 1, e), Lands(code[a + 1], e, f[a])) \/ Waits(pcs, a + 1, e)
        BY <2>1, <3>2 DEF Flow
      <4>3. Waits(pcs, a + 1, e) => Waits(q, a + 1, e)
        BY <3>1, <3>5 DEF s
      <4>. QED
        BY <1>9, <3>3, <4>1, <4>2, <4>3
    <3>. QED
      BY <3>4, <3>5
  <2>. QED
    BY <2>4, <2>5, <2>6 DEF Flow
<1>11. DOMAIN f \subseteq 0..(Len(d) - 1) /\ Arrives(f, d, q, y, 0, 0)
  BY <1>2, <1>6, <1>9 DEF Flows
<1>12. Flows(f, d, q, y)
  BY <1>10, <1>11 DEF Flows
<1>. QED
  BY <1>12 DEF d, y, s, t

\* The end of an inner scope.
LEMMA InnerEndHeights ==
  ASSUME NEW m, NEW f, Ready(m, f), End, Len(pcs) # 1
  PROVE  Stepped(f)
<1>. DEFINE s == Last(pcs)
            t == s.expected
            d == fix_branch(code, s.relocations, Here)
            y == pop_scope(tk, t)
            h == Len(pcs)
            q == Front(pcs)
<1>1. /\ h \in Nat \ {0} /\ s = pcs[h] /\ ScopeTyped(s)
  BY InnerScope
<1>2. IsCode(code) /\ Tracks(tk, pcs, m) /\ IsSeq(pcs) /\ pcs # <<>>
  BY DEF Ready, Scoped
<1>3. Len(code) \in Nat /\ DOMAIN code = 1..Len(code)
  BY <1>2, Lengths DEF IsCode
<1>4. /\ CanPopScope(tk, t) /\ (s.is_if => t = "pseudo")
      /\ tk' = y /\ pcs' = q /\ code' = d
  BY DEF End, Parse
<1>5. t \in BlockTypes
  BY <1>1 DEF ScopeTyped
<1>6. DOMAIN pcs = 1..h
  BY <1>2, Lengths
<1>7. /\ IsSeq(q) /\ Len(q) = h - 1 /\ DOMAIN q = 1..(h - 1)
      /\ \A i \in DOMAIN q : i \in DOMAIN pcs /\ q[i] = pcs[i]
  BY ONLY <1>2, Shortened
<1>8. Len(d) = Len(code)
  BY <1>2, Fixed
<1>9. \A i \in DOMAIN code : SameInstr(code[i], d[i])
  BY <1>2, FixedSame
<1>10. Tracks(y, q, m)
  BY <1>2, <1>4, <1>5, PopScopeTracks
<1>11. \A j \in 1..(h - 1) : Clear(tk.state, m[j]) <=> Clear(y.state, m[j])
  BY <1>2, <1>4, <1>5, ScopeLeft
<1>12. /\ Reach(tk) => Clear(tk.state, m[h]) /\ y.depth = tk.depth
       /\ Clear(tk.state, m[h]) => Reach(y)
  BY <1>2, <1>4, <1>5, ScopeLeft
<1>. HIDE DEF q
<1>13. q # <<>>
  BY <1>1, <1>7
<1>14. \A i, e : Waits(pcs, i, e) /\ AtEntry(i - 1, e) \notin s.relocations => Waits(q, i, e)
  <2>. SUFFICES ASSUME NEW i, NEW e, Waits(pcs, i, e), AtEntry(i - 1, e) \notin s.relocations
                PROVE  Waits(q, i, e)
    OBVIOUS
  <2>1. PICK j \in DOMAIN pcs : pcs[j].target = NoTarget /\ AtEntry(i - 1, e) \in pcs[j].relocations
    BY DEF Waits
  <2>2. j # h
    BY <1>1, <2>1
  <2>3. j \in DOMAIN q
    BY <1>1, <1>6, <1>7, <2>2
  <2>. QED
    BY <1>7, <2>1, <2>3 DEF Waits
<1>15. Flows(f, d, q, y)
  BY <1>4, <1>13, <1>14, EndFlows
<1>. HIDE DEF d, y, s, t
<1>16. Grows(f, code, f, d)
  BY <1>3, <1>8, <1>9 DEF Grows
<1>17. \A a, b : Arrives(f, code, pcs, tk, a, b) => Arrives(f, d, q, y, a, b)
  BY <1>8, <1>12, <1>13 DEF Arrives
<1>18. ASSUME NEW j \in 1..Len(q)
       PROVE  /\ Owed(f, d, q[j], y.state, m[j])
              /\ q[j].target # NoTarget /\ Clear(y.state, m[j]) =>
                   Arrives(f, d, q, y, q[j].target, q[j].operand_depth)
  <2>1. j \in 1..(h - 1) /\ j \in 1..h /\ q[j] = pcs[j]
    BY <1>1, <1>7
  <2>2. /\ Owed(f, code, pcs[j], tk.state, m[j])
        /\ pcs[j].target # NoTarget /\ Clear(tk.state, m[j]) =>
             Arrives(f, code, pcs, tk, pcs[j].target, pcs[j].operand_depth)
    BY <2>1 DEF Ready, Heights, Owes
  <2>3. Clear(tk.state, m[j]) <=> Clear(y.state, m[j])
    BY <1>11, <2>1
  <2>4. Owed(f, d, pcs[j], y.state, m[j])
    BY <1>16, <2>2, <2>3, OwedGrows
  <2>. QED
    BY <1>17, <2>1, <2>2, <2>3, <2>4
<1>19. Heights(f, d, q, y, m)
  BY <1>15, <1>18 DEF Heights, Owes
<1>. QED
  BY <1>4, <1>10, <1>19 DEF Stepped

\* The end of the body, and the return written after it.
LEMMA LastEndHeights ==
  ASSUME NEW m, NEW f, Ready(m, f), End, Len(pcs) = 1
  PROVE  Stepped(f)
<1>. DEFINE s == Last(pcs)
            t == s.expected
            c == fix_branch(code, s.relocations, Here)
            d == Append(c, Return)
            y == pop_scope(tk, t)
            q == <<[target |-> 0]>>
            j == [state |-> <<"unreachable">>]
            g == Ext(f, c, y)
<1>1. s = pcs[1] /\ ScopeTyped(s)
  BY InnerScope
<1>2. IsCode(code) /\ Tracks(tk, pcs, m) /\ IsSeq(pcs) /\ pcs # <<>>
  BY DEF Ready, Scoped
<1>3. Len(code) \in Nat
  BY <1>2, Lengths DEF IsCode
<1>4. /\ CanPopScope(tk, t) /\ (s.is_if => t = "pseudo")
      /\ tk' = y /\ pcs' = Front(pcs) /\ code' = d
  BY DEF End, Parse
<1>5. t \in BlockTypes
  BY <1>1 DEF ScopeTyped
<1>6. IsSeq(Front(pcs)) /\ Len(Front(pcs)) = Len(pcs) - 1
  BY ONLY <1>2, Shortened
<1>7. Len(pcs') = 0 /\ pcs' = <<>>
  <2>1. Len(pcs') = 0
    BY <1>4, <1>6
  <2>2. IsSeq(pcs')
    BY <1>4, <1>6
  <2>3. pcs' = <<>>
    BY <2>1, <2>2 DEF IsSeq
  <2>. QED
    BY <2>1, <2>3
<1>8. IsCode(c) /\ Len(c) = Len(code)
  BY <1>2, Fixed
<1>9. DOMAIN c = 1..Len(c) /\ Len(c) \in Nat
  BY <1>8, Lengths DEF IsCode
<1>10. Tracks(y, pcs', m)
  BY <1>2, <1>4, <1>5, PopScopeTracks
<1>11. y.depth \in Nat
  BY <1>10, DepthIs
<1>12. q # <<>> /\ \A i, e : ~Waits(q, i, e)
  BY DEF Waits, NoTarget
<1>13. DOMAIN pcs = {1}
  BY <1>2, Lengths
<1>. HIDE DEF q
<1>14. \A i, e : Waits(pcs, i, e) /\ AtEntry(i - 1, e) \notin s.relocations => Waits(q, i, e)
  BY <1>1, <1>13 DEF Waits
<1>15. Flows(f, c, q, y)
  BY <1>4, <1>12, <1>14, EndFlows
<1>. HIDE DEF c, y, s, t
<1>16. IsSeq(c)
  BY <1>8 DEF IsCode
<1>17. Len(d) = Len(c) + 1 /\ d[Len(c) + 1] = Return /\ \A i \in DOMAIN c : d[i] = c[i]
  BY ONLY <1>16, Appended
<1>18. Return.op = "return" /\ Return.table = <<>>
  BY DEF Return, Instr
<1>. HIDE DEF d
<1>19. ~Falls(Return) /\ \A e : ~IsBranch(d, Len(c) + 1, e)
  BY <1>17, <1>18 DEF Falls, IsBranch, BranchOps
<1>20. ~Reach(j)
  BY DEF Reach, Clear
<1>. HIDE DEF j
<1>21. Flows(g, d, q, j)
  <2>1. Len(d) \in Nat /\ Len(d) > Len(c)
    BY <1>9, <1>17
  <2>. QED
    BY <1>9, <1>11, <1>12, <1>15, <1>17, <1>18, <1>19, <2>1, Emitted
<1>22. \A a \in DOMAIN g : g[a] = y.depth \/ (a \in DOMAIN f /\ g[a] = f[a])
  BY <1>9, <1>12, <1>15, ExtIs
<1>. HIDE DEF g
<1>23. \A a, b : Arrives(g, d, q, j, a, b) => Arrives(g, d, pcs', y, a, b)
  BY <1>20 DEF Arrives
<1>24. Flows(g, d, pcs', y)
  <2>1. ASSUME NEW a \in DOMAIN g PROVE Flow(g, d, pcs', y, a)
    <3>1. Flow(g, d, q, j, a)
      BY <1>21 DEF Flows
    <3>. QED
      BY <1>12, <1>23, <3>1 DEF Flow
  <2>. QED
    BY <1>21, <1>23, <2>1 DEF Flows
<1>25. Owes(g, d, pcs', y, m)
  BY <1>7 DEF Owes
<1>26. Heights(g, d, pcs', y, m)
  BY <1>24, <1>25 DEF Heights
<1>. QED
  BY <1>4, <1>10, <1>22, <1>26 DEF Stepped

\* The first branch that waits for an if is the if's own.
LEMMA FirstFound ==
  ASSUME NEW f, NEW c, NEW s, NEW st, NEW n, Owed(f, c, s, st, n), s.is_if, Len(c) \in Nat
  PROVE  LET b0 == FirstOf(s.relocations) IN
         /\ b0 \in s.relocations /\ b0.at \in 0..(Len(c) - 1) /\ s.target = NoTarget /\ s.label = s.expected
         /\ \A b \in s.relocations : c[b.at + 1].op = "if" <=> b = b0
<1>1. PICK x : /\ FirstIs(s.relocations, x)
               /\ \A b \in s.relocations : c[b.at + 1].op = "if" <=> b = x
  BY DEF Owed
<1>2. \A b \in s.relocations : b.at \in 0..(Len(c) - 1)
  BY DEF Owed
<1>3. x \in s.relocations /\ \A b \in s.relocations : b # x => x.at < b.at
  BY <1>1 DEF FirstIs
<1>4. FirstOf(s.relocations) = x
  <2>. DEFINE P(b) == \A a \in s.relocations : b.at <= a.at
              b0 == CHOOSE b \in s.relocations : P(b)
  <2>1. P(x)
    BY <1>2, <1>3
  <2>2. b0 \in s.relocations /\ P(b0)
    BY <1>3, <2>1
  <2>3. b0.at <= x.at /\ b0.at \in Int /\ x.at \in Int
    BY <1>2, <1>3, <2>2
  <2>4. b0 = x
    BY <1>3, <2>2, <2>3
  <2>5. FirstOf(s.relocations) = b0
    BY DEF FirstOf
  <2>. QED
    BY ONLY <2>4, <2>5
<1>5. s.target = NoTarget /\ s.label = s.expected
  BY <1>3 DEF Owed
<1>. QED
  BY <1>1, <1>2, <1>3, <1>4, <1>5

\* The code with the else, and the if's branch resolved.
LEMMA ElseCode ==
  ASSUME IsCode(code), NEW b0, NEW d, d = fix_branch(Append(code, Instr("else")), {b0}, Here + 1)
  PROVE  /\ Len(code) \in Nat /\ DOMAIN code = 1..Len(code) /\ Len(d) = Len(code) + 1
         /\ \A i \in DOMAIN code : SameInstr(code[i], d[i])
         /\ \A i \in DOMAIN code : \A e : IsBranch(d, i, e) =>
              /\ IsBranch(code, i, e)
              /\ Goal(d, i, e) = IF AtEntry(i - 1, e) = b0 THEN Len(d) ELSE Goal(code, i, e)
         /\ d[Len(code) + 1].op = "else" /\ \A e : IsBranch(d, Len(code) + 1, e) <=> e = 0
<1>. DEFINE y == Instr("else")
            c == Append(code, y)
            bs == {b0}
            t == Here + 1
            r == fix_branch(c, bs, t)
<1>1. IsSeq(code) /\ r = d
  BY DEF IsCode
<1>2. Len(code) \in Nat /\ DOMAIN code = 1..Len(code)
  BY <1>1, Lengths
<1>3. IsInstr(y) /\ DOMAIN y.table = {} /\ y.op = "else"
  BY DEF Instr, IsInstr
<1>. HIDE DEF y
<1>4. IsCode(c)
  BY <1>3, Written
<1>5. /\ Len(c) = Len(code) + 1 /\ DOMAIN c = 1..(Len(code) + 1) /\ c[Len(code) + 1] = y
      /\ \A i \in DOMAIN code : i \in DOMAIN c /\ c[i] = code[i]
  BY ONLY <1>1, Appended
<1>6. bs = {b0} /\ t = Len(code) + 1
  BY DEF Here
<1>. HIDE DEF c, bs, t
<1>7. /\ Len(r) = Len(c)
      /\ \A i \in DOMAIN c : \A e : IsBranch(r, i, e) =>
           /\ IsBranch(c, i, e)
           /\ Goal(r, i, e) = IF AtEntry(i - 1, e) \in bs THEN t ELSE Goal(c, i, e)
  BY ONLY <1>4, Fixed
<1>8. \A i \in DOMAIN c : SameInstr(c[i], r[i])
  BY <1>4, FixedSame
<1>. HIDE DEF r
<1>9. \A i \in DOMAIN code : \A e : IsBranch(c, i, e) => IsBranch(code, i, e) /\ Goal(c, i, e) = Goal(code, i, e)
  BY <1>5 DEF IsBranch, Goal
<1>10. Len(code) + 1 \in DOMAIN c
  BY <1>2, <1>5
<1>11. SameInstr(y, d[Len(code) + 1])
  BY <1>1, <1>5, <1>8, <1>10
<1>12. d[Len(code) + 1].op = "else" /\ DOMAIN d[Len(code) + 1].table = {}
  BY <1>3, <1>11 DEF SameInstr
<1>13. \A e : IsBranch(d, Len(code) + 1, e) <=> e = 0
  BY <1>12 DEF IsBranch, BranchOps
<1>14. \A i \in DOMAIN code : SameInstr(code[i], d[i])
  BY <1>1, <1>5, <1>8
<1>15. \A i \in DOMAIN code : \A e : IsBranch(d, i, e) =>
         /\ IsBranch(code, i, e)
         /\ Goal(d, i, e) = IF AtEntry(i - 1, e) = b0 THEN Len(d) ELSE Goal(code, i, e)
  BY <1>1, <1>5, <1>6, <1>7, <1>9
<1>16. Len(d) = Len(code) + 1
  BY <1>1, <1>5, <1>7
<1>. QED
  BY <1>2, <1>12, <1>13, <1>14, <1>15, <1>16

\* The tracker at an else is back at the depth of the if.
LEMMA ElseTracker ==
  ASSUME NEW m, NEW f, Ready(m, f), NEW z, z.operand_depth = Last(pcs).operand_depth,
         LET k == Pop(tk, Last(pcs).expected) IN
         /\ CanPop(tk, Last(pcs).expected) /\ CanPopScope(k, "pseudo") /\ tk' = push_scope(pop_scope(k, "pseudo"))
  PROVE  LET s == Last(pcs)
             h == Len(pcs) IN
         /\ tk'.depth = s.operand_depth
         /\ Clear(tk.state, m[h]) => Reach(tk')
         /\ Reach(tk) => Clear(tk.state, m[h]) /\ tk.depth = s.operand_depth + Keeps(s.expected)
         /\ \E w : /\ Tracks(tk', Append(Front(pcs), z), w)
                   /\ \A j \in 1..(h - 1) : Clear(tk.state, m[j]) <=> Clear(tk'.state, w[j])
<1>. DEFINE s == Last(pcs)
            t == s.expected
            k == Pop(tk, t)
            j == pop_scope(k, "pseudo")
            p == Front(pcs)
            h == Len(pcs)
            y == push_scope(j)
<1>1. CanPop(tk, t) /\ CanPopScope(k, "pseudo") /\ tk' = y
  OBVIOUS
<1>2. h \in Nat \ {0} /\ h \in 1..h /\ ScopeTyped(s) /\ s.operand_depth \in Nat
  BY InnerScope
<1>3. Tracks(tk, pcs, m) /\ IsSeq(pcs) /\ pcs # <<>> /\ tk.depth \in Nat
  BY DepthIs DEF Ready, Scoped
<1>4. t \in BlockTypes /\ "pseudo" \in BlockTypes /\ Keeps("pseudo") = 0 /\ Keeps(t) \in {0, 1}
  BY <1>2 DEF ScopeTyped, BlockTypes, Keeps
<1>5. IsSeq(p) /\ Len(p) = h - 1
  BY ONLY <1>3, Shortened
<1>6. z.operand_depth = s.operand_depth
  OBVIOUS
<1>. HIDE DEF s, t
<1>7. Tracks(k, pcs, m) /\ Effect(tk, k, pcs, m, -Keeps(t))
  BY <1>1, <1>2, <1>3, <1>4, PopTracks, PopEffect
<1>. HIDE DEF k
<1>8. Tracks(j, p, m) /\ j.depth = s.operand_depth
  BY <1>1, <1>3, <1>4, <1>7, PopScopeTracks DEF s
<1>9. /\ \A g \in 1..(h - 1) : Clear(k.state, m[g]) <=> Clear(j.state, m[g])
      /\ Clear(k.state, m[h]) => Reach(j)
      /\ Reach(k) => j.depth = k.depth
  BY <1>1, <1>3, <1>4, <1>7, ScopeLeft
<1>. HIDE DEF j, p
<1>10. PICK w : Tracks(y, Append(p, z), w) /\ NewMark(j, p, m, w)
  BY <1>5, <1>6, <1>8, ScopeTracks
<1>11. /\ y.depth = j.depth
       /\ Reach(j) => Reach(y)
       /\ \A g \in 1..Len(p) : Clear(j.state, m[g]) <=> Clear(y.state, w[g])
  BY <1>8, <1>10, OpenEffect
<1>. HIDE DEF y
<1>12. Inside(tk, k, pcs, m)
  BY <1>7 DEF Effect
<1>13. \A g \in 1..h : Clear(tk.state, m[g]) <=> Clear(k.state, m[g])
  BY <1>12, InsideClear
<1>14. \A g \in 1..(h - 1) : g \in 1..h
  BY <1>2
<1>15. \A g \in 1..(h - 1) : Clear(tk.state, m[g]) <=> Clear(y.state, w[g])
  BY <1>5, <1>9, <1>11, <1>13, <1>14
<1>16. Clear(tk.state, m[h]) => Reach(y)
  BY <1>2, <1>9, <1>11, <1>13
<1>17. Reach(tk) => Clear(tk.state, m[h])
  BY <1>2, <1>3, ReachClear
<1>18. Reach(tk) => tk.depth = s.operand_depth + Keeps(t)
  <2>1. Reach(tk) => k.depth = tk.depth + (-Keeps(t)) /\ k.depth = s.operand_depth
    BY <1>7, <1>8, <1>9 DEF Effect
  <2>. QED
    BY <1>2, <1>3, <1>4, <2>1
<1>. QED
  BY <1>1, <1>8, <1>10, <1>11, <1>15, <1>16, <1>17, <1>18 DEF s, t, p

\* else: the if's branch leads after it, and the scope waits on.
LEMMA ElseHeights ==
  ASSUME NEW m, NEW f, Ready(m, f), Else
  PROVE  Stepped(f)
<1>. DEFINE s == Last(pcs)
            h == Len(pcs)
            z == ElseScope(s)
            p == Front(pcs)
            q == Append(p, z)
            b0 == FirstOf(s.relocations)
            d == fix_branch(Append(code, Instr("else")), {b0}, Here + 1)
            n == Len(code)
            g == Ext(f, code, tk)
            y == tk'
<1>1. s.is_if /\ pcs' = q /\ code' = d
  BY DEF Else, Parse
<1>2. /\ h \in Nat \ {0} /\ s = pcs[h] /\ ScopeTyped(s) /\ s.operand_depth \in Nat
      /\ Owed(f, code, s, tk.state, m[h])
  BY InnerScope
<1>3. IsCode(code) /\ Flows(f, code, pcs, tk) /\ Tracks(tk, pcs, m) /\ IsSeq(pcs) /\ pcs # <<>>
  BY DEF Ready, Heights, Scoped
<1>4. /\ n \in Nat /\ DOMAIN code = 1..n /\ Len(d) = n + 1
      /\ \A i \in DOMAIN code : SameInstr(code[i], d[i])
      /\ \A i \in DOMAIN code : \A e : IsBranch(d, i, e) =>
           /\ IsBranch(code, i, e)
           /\ Goal(d, i, e) = IF AtEntry(i - 1, e) = b0 THEN Len(d) ELSE Goal(code, i, e)
      /\ d[n + 1].op = "else" /\ \A e : IsBranch(d, n + 1, e) <=> e = 0
  BY <1>3, ElseCode
<1>5. /\ z.operand_depth = s.operand_depth /\ z.is_if = FALSE /\ z.target = s.target
      /\ z.label = s.label /\ z.expected = s.expected
      /\ z.relocations = (s.relocations \ {b0}) \cup {At(n)}
  <2>. HIDE DEF s
  <2>. QED
    BY <1>2 DEF ElseScope, ScopeTyped, Here
<1>6. /\ b0 \in s.relocations /\ b0.at \in 0..(n - 1) /\ s.target = NoTarget /\ s.label = s.expected
      /\ \A b \in s.relocations : code[b.at + 1].op = "if" <=> b = b0
  BY <1>1, <1>2, <1>4, FirstFound
<1>7. /\ y.depth = s.operand_depth
      /\ Clear(tk.state, m[h]) => Reach(y)
      /\ Reach(tk) => Clear(tk.state, m[h]) /\ tk.depth = s.operand_depth + Keeps(s.expected)
      /\ \E w : /\ Tracks(y, q, w)
                /\ \A j \in 1..(h - 1) : Clear(tk.state, m[j]) <=> Clear(y.state, w[j])
  <2>1. LET k == Pop(tk, s.expected) IN
        /\ CanPop(tk, s.expected) /\ CanPopScope(k, "pseudo") /\ tk' = push_scope(pop_scope(k, "pseudo"))
    BY DEF Else, Parse
  <2>2. z.operand_depth = Last(pcs).operand_depth
    BY <1>5
  <2>. HIDE DEF z
  <2>. QED
    BY <2>1, <2>2, ElseTracker
<1>8. IsSeq(p) /\ Len(p) = h - 1 /\ DOMAIN p = 1..(h - 1) /\ \A i \in DOMAIN p : p[i] = pcs[i]
  BY ONLY <1>3, Shortened
<1>. HIDE DEF p, z, b0, s
<1>9. /\ Len(q) = (h - 1) + 1 /\ DOMAIN q = 1..((h - 1) + 1) /\ q[(h - 1) + 1] = z
      /\ \A i \in DOMAIN p : q[i] = p[i]
  <2>1. Len(q) = Len(p) + 1 /\ DOMAIN q = 1..(Len(p) + 1) /\ q[Len(p) + 1] = z /\ \A i \in DOMAIN p : q[i] = p[i]
    BY ONLY <1>8, Appended
  <2>. HIDE DEF q
  <2>. QED
    BY <1>8, <2>1
<1>. HIDE DEF q
<1>10. Len(q) = h /\ DOMAIN q = 1..h /\ q[h] = z /\ \A i \in 1..(h - 1) : q[i] = pcs[i]
  <2>1. h \in Nat
    BY <1>2
  <2>. HIDE DEF h
  <2>2. (h - 1) + 1 = h
    BY ONLY <2>1
  <2>. QED
    BY <1>8, <1>9, <2>2
<1>11. q # <<>> /\ DOMAIN pcs = 1..h
  BY <1>2, <1>3, <1>10, Lengths
<1>12. PICK w : /\ Tracks(y, q, w)
                /\ \A j \in 1..(h - 1) : Clear(tk.state, m[j]) <=> Clear(y.state, w[j])
  BY <1>7
<1>13. At(n) = AtEntry(n, 0) /\ At(n).at = n /\ At(n).entry = 0 /\ At(n) = AtEntry((n + 1) - 1, 0)
  BY <1>4 DEF At, AtEntry
<1>14. ASSUME NEW i, NEW e, Waits(pcs, i, e), AtEntry(i - 1, e) # b0 PROVE Waits(q, i, e)
  <2>1. PICK j \in DOMAIN pcs : pcs[j].target = NoTarget /\ AtEntry(i - 1, e) \in pcs[j].relocations
    BY <1>14 DEF Waits
  <2>2. CASE j = h
    BY <1>2, <1>5, <1>6, <1>10, <1>11, <1>14, <2>1, <2>2 DEF Waits
  <2>3. CASE j # h
    <3>1. j \in 1..(h - 1)
      BY <1>2, <1>11, <2>3
    <3>2. j \in DOMAIN q /\ q[j] = pcs[j]
      BY <1>10, <1>11, <3>1
    <3>. QED
      BY <2>1, <3>2 DEF Waits
  <2>. QED
    BY <2>2, <2>3
<1>15. Waits(q, n + 1, 0)
  <2>1. h \in DOMAIN q /\ q[h].target = NoTarget /\ AtEntry((n + 1) - 1, 0) \in q[h].relocations
    BY <1>2, <1>5, <1>6, <1>10, <1>13
  <2>. QED
    BY <2>1 DEF Waits
<1>. HIDE DEF d, y
<1>16. /\ DOMAIN f \subseteq DOMAIN g /\ DOMAIN g \subseteq 0..n
       /\ \A a \in DOMAIN f : g[a] = f[a] /\ a # n /\ a \in 0..(n - 1)
       /\ \A a \in DOMAIN g : a \notin DOMAIN f => a = n /\ Reach(tk) /\ g[a] = tk.depth
       /\ \A t, b : Arrives(f, code, pcs, tk, t, b) => t \in DOMAIN g /\ g[t] = b
  BY <1>3, <1>4, ExtIs
<1>17. \A a \in DOMAIN g : g[a] = tk.depth \/ (a \in DOMAIN f /\ g[a] = f[a])
  BY ExtAdds
<1>. HIDE DEF g, n
<1>18. \A t, b : Arrives(f, code, pcs, tk, t, b) => Arrives(g, d, q, y, t, b)
  BY <1>16 DEF Arrives
<1>19. ASSUME NEW a \in DOMAIN f PROVE Flow(g, d, q, y, a)
  <2>1. Flow(f, code, pcs, tk, a) /\ a \in 0..(n - 1) /\ g[a] = f[a]
    BY <1>3, <1>16 DEF Flows
  <2>2. a + 1 \in DOMAIN code /\ (a + 1) - 1 = a
    BY <1>4, <2>1
  <2>3. SameInstr(code[a + 1], d[a + 1])
    BY <1>4, <2>2
  <2>4. f[a] \in Nat /\ d[a + 1].op # "data" /\ (d[a + 1].op = "br_table" => f[a] # 0)
    BY <2>1, <2>3 DEF Flow, SameInstr
  <2>5. Falls(d[a + 1]) => Arrives(g, d, q, y, a + 1, f[a] + Delta(d[a + 1]))
    BY <1>18, <2>1, <2>3 DEF Flow, SameInstr
  <2>6. ASSUME NEW e, IsBranch(d, a + 1, e)
        PROVE  Arrives(g, d, q, y, Goal(d, a + 1, e), Lands(d[a + 1], e, f[a])) \/ Waits(q, a + 1, e)
    <3>. DEFINE b == AtEntry(a, e)
    <3>1. b.at = a /\ b.entry = e /\ b = AtEntry((a + 1) - 1, e)
      BY <2>2 DEF AtEntry
    <3>2. /\ IsBranch(code, a + 1, e)
          /\ Goal(d, a + 1, e) = IF b = b0 THEN Len(d) ELSE Goal(code, a + 1, e)
      BY <1>4, <2>2, <2>6, <3>1
    <3>3. Lands(d[a + 1], e, f[a]) = Lands(code[a + 1], e, f[a])
      BY <2>3, <3>2 DEF SameInstr, IsBranch
    <3>. HIDE DEF b
    <3>4. CASE b = b0
      <4>1. Clear(tk.state, m[h]) /\ Lands(code[a + 1], e, f[a]) = Due(code, s, b)
        BY <1>2, <1>6, <3>1, <3>4 DEF Owed
      <4>2. Due(code, s, b) = s.operand_depth
        BY <1>2, <1>6, <3>1, <3>4 DEF Due
      <4>3. Reach(y) /\ y.depth = Lands(d[a + 1], e, f[a]) /\ Goal(d, a + 1, e) = Len(d)
        BY <1>7, <3>2, <3>3, <3>4, <4>1, <4>2
      <4>. QED
        BY <1>11, <4>3 DEF Arrives
    <3>5. CASE b # b0
      <4>1. Goal(d, a + 1, e) = Goal(code, a + 1, e)
        BY <3>2, <3>5
      <4>2. Arrives(f, code, pcs, tk, Goal(code, a + 1, e), Lands(code[a + 1], e, f[a])) \/ Waits(pcs, a + 1, e)
        BY <2>1, <3>2 DEF Flow
      <4>3. Waits(pcs, a + 1, e) => Waits(q, a + 1, e)
        BY <1>14, <3>1, <3>5
      <4>. QED
        BY <1>18, <3>3, <4>1, <4>2, <4>3
    <3>. QED
      BY <3>4, <3>5
  <2>. QED
    BY <2>1, <2>4, <2>5, <2>6 DEF Flow
<1>20. ASSUME NEW a \in DOMAIN g, a \notin DOMAIN f PROVE Flow(g, d, q, y, a)
  <2>1. a = n /\ g[a] = tk.depth /\ d[a + 1].op = "else" /\ tk.depth \in Nat
    BY <1>3, <1>4, <1>16, <1>20, DepthIs
  <2>2. \A e : IsBranch(d, a + 1, e) => Waits(q, a + 1, e)
    BY <1>4, <1>15, <2>1
  <2>. QED
    BY <2>1, <2>2 DEF Flow, Falls
<1>21. Flows(g, d, q, y)
  <2>1. DOMAIN g \subseteq 0..(Len(d) - 1)
    BY <1>4, <1>16
  <2>2. Arrives(g, d, q, y, 0, 0)
    BY <1>3, <1>18 DEF Flows
  <2>. QED
    BY <1>19, <1>20, <2>1, <2>2 DEF Flows
<1>22. Grows(f, code, g, d)
  <2>1. \A a \in DOMAIN g : a \notin DOMAIN f => a \notin 0..(n - 1)
    BY <1>4, <1>16
  <2>2. Len(d) \in Nat /\ n <= Len(d)
    BY <1>4
  <2>. QED
    BY <1>4, <1>16, <2>1, <2>2 DEF Grows, n
<1>23. ASSUME NEW j \in 1..Len(q)
       PROVE  /\ Owed(g, d, q[j], y.state, w[j])
              /\ q[j].target # NoTarget /\ Clear(y.state, w[j]) =>
                   Arrives(g, d, q, y, q[j].target, q[j].operand_depth)
  <2>1. CASE j \in 1..(h - 1)
    <3>1. q[j] = pcs[j] /\ j \in 1..h
      BY <1>2, <1>10, <2>1
    <3>2. /\ Owed(f, code, pcs[j], tk.state, m[j])
          /\ pcs[j].target # NoTarget /\ Clear(tk.state, m[j]) =>
               Arrives(f, code, pcs, tk, pcs[j].target, pcs[j].operand_depth)
      BY <3>1 DEF Ready, Heights, Owes
    <3>3. Clear(tk.state, m[j]) <=> Clear(y.state, w[j])
      BY <1>12, <2>1
    <3>4. Owed(g, d, pcs[j], y.state, w[j])
      BY <1>22, <3>2, <3>3, OwedGrows
    <3>. QED
      BY <1>18, <3>1, <3>2, <3>3, <3>4
  <2>2. CASE j = h
    <3>1. Reach(y) => Clear(y.state, w[j])
      BY <1>12, ReachClear
    <3>2. Clear(tk.state, m[h]) => Clear(y.state, w[j])
      BY <1>7, <3>1
    <3>3. ASSUME NEW b \in s.relocations, b # b0
          PROVE  /\ b.at \in 0..(Len(d) - 1) /\ IsBranch(d, b.at + 1, b.entry) /\ d[b.at + 1].op # "if"
                 /\ b.at \in DOMAIN g => Clear(y.state, w[j]) /\ Lands(d[b.at + 1], b.entry, g[b.at]) = Due(d, z, b)
      <4>1. /\ b.at \in 0..(n - 1) /\ IsBranch(code, b.at + 1, b.entry)
            /\ b.at \in DOMAIN f => Clear(tk.state, m[h]) /\ Lands(code[b.at + 1], b.entry, f[b.at]) = Due(code, s, b)
        BY <1>2 DEF Owed, n
      <4>2. b.at + 1 \in DOMAIN code /\ b.at \in 0..(Len(d) - 1) /\ b.at # n
        BY <1>4, <4>1
      <4>3. SameInstr(code[b.at + 1], d[b.at + 1])
        BY <1>4, <4>2
      <4>4. code[b.at + 1].op # "if"
        BY <1>6, <3>3
      <4>5. d[b.at + 1].op # "if" /\ IsBranch(d, b.at + 1, b.entry)
        BY <4>1, <4>3, <4>4 DEF SameInstr, IsBranch
      <4>6. Due(d, z, b) = Due(code, s, b)
        BY <1>5, <4>4, <4>5 DEF Due
      <4>7. \A x : Lands(code[b.at + 1], b.entry, x) = Lands(d[b.at + 1], b.entry, x)
        BY <4>1, <4>3 DEF SameInstr, IsBranch
      <4>8. b.at \in DOMAIN g => b.at \in DOMAIN f /\ g[b.at] = f[b.at]
        BY <1>16, <4>2
      <4>. QED
        BY <3>2, <4>1, <4>2, <4>5, <4>6, <4>7, <4>8
    <3>4. /\ At(n).at \in 0..(Len(d) - 1) /\ IsBranch(d, At(n).at + 1, At(n).entry)
          /\ d[At(n).at + 1].op # "if"
          /\ At(n).at \in DOMAIN g =>
               Clear(y.state, w[j]) /\ Lands(d[At(n).at + 1], At(n).entry, g[At(n).at]) = Due(d, z, At(n))
      <4>1. n \in 0..(Len(d) - 1)
        BY <1>4
      <4>2. n \in DOMAIN g => Reach(tk) /\ g[n] = tk.depth
        BY <1>16
      <4>3. Lands(d[n + 1], 0, tk.depth) = tk.depth
        BY <1>4 DEF Lands
      <4>4. Due(d, z, At(n)) = s.operand_depth + Keeps(s.expected)
        BY <1>4, <1>5, <1>6, <1>13 DEF Due
      <4>5. n \in DOMAIN g => Clear(y.state, w[j]) /\ tk.depth = s.operand_depth + Keeps(s.expected)
        BY <1>7, <3>2, <4>2
      <4>6. n \in DOMAIN g => Clear(y.state, w[j]) /\ Lands(d[n + 1], 0, g[n]) = Due(d, z, At(n))
        BY <4>2, <4>3, <4>4, <4>5
      <4>. QED
        BY <1>4, <1>13, <4>1, <4>6
    <3>5. Owed(g, d, z, y.state, w[j])
      <4>1. \A b \in z.relocations : (b \in s.relocations /\ b # b0) \/ b = At(n)
        BY <1>5
      <4>2. \A b \in z.relocations :
              /\ b.at \in 0..(Len(d) - 1) /\ IsBranch(d, b.at + 1, b.entry) /\ d[b.at + 1].op # "if"
              /\ b.at \in DOMAIN g => Clear(y.state, w[j]) /\ Lands(d[b.at + 1], b.entry, g[b.at]) = Due(d, z, b)
        BY <3>3, <3>4, <4>1
      <4>. QED
        BY <1>5, <1>6, <4>2 DEF Owed
    <3>6. q[j] = z /\ z.target = NoTarget
      BY <1>5, <1>6, <1>10, <2>2
    <3>. QED
      BY <3>5, <3>6
  <2>3. j \in 1..(h - 1) \/ j = h
    <3>1. h \in Nat
      BY <1>2
    <3>2. j \in 1..h
      BY <1>10
    <3>. HIDE DEF h
    <3>. QED
      BY ONLY <3>1, <3>2
  <2>. QED
    BY <2>1, <2>2, <2>3
<1>24. Heights(g, d, q, y, w)
  BY <1>21, <1>23 DEF Heights, Owes
<1>25. Tracks(tk', pcs', w) /\ Heights(g, code', pcs', tk', w)
  BY <1>1, <1>12, <1>24 DEF y
<1>. QED
  BY <1>17, <1>25 DEF Stepped

\* Every opcode the parser accepts.
LEMMA StepHeights ==
  ASSUME NEW m, NEW f, Ready(m, f), ParseStep
  PROVE  Stepped(f)
<1>1. CASE DataStep
  BY <1>1, DataHeights
<1>2. CASE ControlStep
  <2>1. CASE Unreachable \/ Nop
    BY <2>1, NopHeights
  <2>2. ASSUME NEW t \in BlockTypes, Block(t) \/ Loop(t) \/ If(t) PROVE Stepped(f)
    BY <2>2, BlockHeights, IfHeights
  <2>3. CASE Else
    BY <2>3, ElseHeights
  <2>4. CASE End
    BY <2>4, InnerEndHeights, LastEndHeights
  <2>5. ASSUME NEW l \in Scopes, Br(l) \/ BrIf(l) PROVE Stepped(f)
    BY <2>5, BranchHeights
  <2>6. CASE ReturnOp
    <3>1. pcs # <<>> /\ Br(Len(pcs) - 1)
      BY <2>6 DEF ReturnOp, Parsing
    <3>2. Len(pcs) \in Nat \ {0}
      BY <3>1, Shortened DEF Ready, Scoped
    <3>3. Len(pcs) - 1 \in Scopes
      BY <3>2 DEF Scopes
    <3>. QED
      BY <2>5, <3>1, <3>3
  <2>7. ASSUME NEW ls \in SeqOf(Scopes, MaxCases + 1) \ {<<>>}, BrTable(ls) PROVE Stepped(f)
    BY <2>7, TableHeights
  <2>. QED
    BY <1>2, <2>1, <2>2, <2>3, <2>4, <2>5, <2>6, <2>7 DEF ControlStep
<1>. QED
  BY <1>1, <1>2 DEF ParseStep

-----------------------------------------------------------------------------
(* The operands of instructions.                                           *)

Tabled(t) == \E n \in Nat \ {0} : t = [e \in 1..n |-> t[e]]
ArgOK(y) ==
  /\ y.op = "const" => y.arg \in Values
  /\ y.op \in {"get_local", "set_local", "tee_local"} => y.arg \in DOMAIN LocalTypes
  /\ y.op = "plain" => y.arg \in PlainOps
  /\ y.op = "br_table" => Tabled(y.table)
ArgsOK(c) == \A i \in DOMAIN c : ArgOK(c[i])

\* One more instruction.
LEMMA ArgsWritten ==
  ASSUME NEW c, IsCode(c), ArgsOK(c), NEW y, ArgOK(y)
  PROVE  ArgsOK(Append(c, y))
<1>. DEFINE d == Append(c, y)
<1>1. /\ DOMAIN d = 1..(Len(c) + 1) /\ d[Len(c) + 1] = y
      /\ \A i \in DOMAIN c : d[i] = c[i]
  BY Appended DEF IsCode
<1>2. Len(c) \in Nat /\ DOMAIN c = 1..Len(c)
  BY Lengths DEF IsCode
<1>. HIDE DEF d
<1>3. ASSUME NEW i \in DOMAIN d PROVE i \in DOMAIN c \/ i = Len(c) + 1
  BY <1>1, <1>2
<1>4. \A i \in DOMAIN d : ArgOK(d[i])
  BY <1>1, <1>3, Zenon DEF ArgsOK
<1>. QED
  BY <1>4 DEF ArgsOK, d

\* fix_branch leaves operands alone.
LEMMA ArgsFixed ==
  ASSUME NEW c, IsCode(c), ArgsOK(c), NEW bs, NEW t
  PROVE  ArgsOK(fix_branch(c, bs, t))
<1>. DEFINE d == fix_branch(c, bs, t)
<1>1. DOMAIN d = DOMAIN c
  BY Fixed
<1>2. ASSUME NEW i \in DOMAIN c PROVE ArgOK(d[i])
  <2>. DEFINE x == c[i]
              r == [e \in DOMAIN x.table |-> IF AtEntry(i - 1, e) \in bs
                                             THEN [x.table[e] EXCEPT !.pc = t] ELSE x.table[e]]
  <2>1. IsInstr(x) /\ ArgOK(x)
    BY DEF IsCode, ArgsOK
  <2>2. d[i] = [x EXCEPT !.pc = IF At(i - 1) \in bs THEN t ELSE @,
                         !.table = [e \in DOMAIN @ |-> IF AtEntry(i - 1, e) \in bs
                                                       THEN [@[e] EXCEPT !.pc = t] ELSE @[e]]]
    BY DEF fix_branch
  <2>. HIDE DEF d, x
  <2>3. d[i].op = x.op /\ d[i].arg = x.arg /\ d[i].table = r
    BY <2>1, <2>2 DEF IsInstr
  <2>4. Tabled(x.table) => Tabled(r)
    <3>1. SUFFICES ASSUME NEW n \in Nat \ {0}, x.table = [e \in 1..n |-> x.table[e]]
                   PROVE  r = [e \in 1..n |-> r[e]]
      BY DEF Tabled
    <3>2. DOMAIN x.table = 1..n
      BY <3>1
    <3>. QED
      BY <3>2
  <2>. HIDE DEF r
  <2>. QED
    BY <2>1, <2>3, <2>4 DEF ArgOK
<1>. HIDE DEF d
<1>3. ArgsOK(d)
  BY <1>1, <1>2 DEF ArgsOK
<1>. QED
  BY <1>3 DEF d

\* Instructions without an operand.
LEMMA NoArgs ==
  \A op : op \notin {"const", "get_local", "set_local", "tee_local", "plain", "br_table"} =>
    /\ IsInstr(Instr(op)) /\ ArgOK(Instr(op))
    /\ \A k, l : ArgOK(BranchInstr(op, k, l))
BY DEF IsInstr, ArgOK, Instr, BranchInstr

\* br_table.
LEMMA TableArgs ==
  ASSUME IsCode(code), ArgsOK(code), NEW ls \in SeqOf(Scopes, MaxCases + 1) \ {<<>>}, BrTable(ls)
  PROVE  ArgsOK(code')
<1>. DEFINE k      == Branched(ls)
            n      == Len(ls)
            table  == [i \in DOMAIN ls |-> TableEntry(k[i - 1], ls[i])]
            y      == [Instr("br_table") EXCEPT !.table = table]
            data   == [x \in 1..DataSlots(n - 1) |-> Instr("data")]
            c      == Append(code, y)
            d      == c \o data
<1>1. code' = d
  BY DEF BrTable, Parse
<1>2. IsSeq(ls) /\ n \in Nat \ {0} /\ DOMAIN ls = 1..n
  <2>1. PICK x \in 0..(MaxCases + 1) : ls \in [1..x -> Scopes]
    BY DEF SeqOf
  <2>2. x \in Nat
    OBVIOUS
  <2>3. ls \in Seq(Scopes)
    BY <2>1, <2>2
  <2>4. ls # <<>>
    OBVIOUS
  <2>5. IsSeq(ls)
    BY <2>3 DEF IsSeq
  <2>. QED
    BY <2>3, <2>4, <2>5
<1>. HIDE DEF k, n
<1>3. table = [i \in 1..n |-> table[i]] /\ DOMAIN table = 1..n
  BY <1>2
<1>4. \A i \in DOMAIN table : i # 0 /\ {"pc", "pop", "keep"} \subseteq DOMAIN table[i]
  BY <1>2 DEF TableEntry
<1>. HIDE DEF table
<1>5. Tabled(table)
  BY <1>2, <1>3 DEF Tabled
<1>6. y.op = "br_table" /\ y.table = table /\ {"op", "arg", "pc", "pop", "keep", "table"} \subseteq DOMAIN y
  BY DEF Instr
<1>. HIDE DEF y
<1>7. ArgOK(y) /\ IsInstr(y)
  BY <1>4, <1>5, <1>6 DEF ArgOK, IsInstr
<1>8. IsSeq(c) /\ ArgsOK(c)
  BY <1>7, ArgsWritten, Written DEF IsCode
<1>. HIDE DEF c
<1>9. DataSlots(n - 1) \in Nat
  <2>1. n - 1 \in Nat
    BY <1>2
  <2>. QED
    BY <2>1, SlotsBound, Zenon
<1>10. data = [x \in 1..DataSlots(n - 1) |-> data[x]] /\ \A x \in 1..DataSlots(n - 1) : ArgOK(data[x])
  BY NoArgs
<1>. HIDE DEF data
<1>11. IsSeq(data) /\ DOMAIN data = 1..DataSlots(n - 1)
  BY <1>9, <1>10, Listed
<1>12. /\ DOMAIN d = 1..(Len(c) + Len(data))
       /\ \A i \in DOMAIN c : i \in DOMAIN d /\ d[i] = c[i]
       /\ \A i \in 1..(Len(c) + Len(data)) : i \notin DOMAIN c => i - Len(c) \in DOMAIN data /\ d[i] = data[i - Len(c)]
  BY <1>8, <1>11, Joined, Zenon
<1>. HIDE DEF d
<1>13. ASSUME NEW i \in DOMAIN d PROVE ArgOK(d[i])
  <2>1. CASE i \in DOMAIN c
    BY <1>8, <1>12, <2>1 DEF ArgsOK
  <2>2. CASE i \notin DOMAIN c
    <3>1. i - Len(c) \in DOMAIN data /\ d[i] = data[i - Len(c)]
      BY ONLY <1>12, <1>13, <2>2
    <3>. QED
      BY ONLY <1>10, <1>11, <3>1
  <2>. QED
    BY <2>1, <2>2
<1>. QED
  BY <1>1, <1>13 DEF ArgsOK

\* Every opcode the parser accepts.
LEMMA StepArgs ==
  ASSUME IsCode(code), ArgsOK(code), ParseStep
  PROVE  ArgsOK(code')
<1>1. ASSUME NEW y, ArgOK(y), code' = Append(code, y) PROVE ArgsOK(code')
  BY <1>1, ArgsWritten
<1>2. CASE DataStep
  <2>1. ASSUME NEW i \in DOMAIN LocalTypes, GetLocal(i) \/ SetLocal(i) \/ TeeLocal(i) PROVE ArgsOK(code')
    <3>1. PICK op \in {"get_local", "set_local", "tee_local"} : code' = Append(code, LocalInstr(op, i))
      BY <2>1, Zenon DEF GetLocal, SetLocal, TeeLocal, Parse
    <3>2. ArgOK(LocalInstr(op, i))
      BY DEF ArgOK, LocalInstr, Instr
    <3>. QED
      BY <1>1, <3>1, <3>2
  <2>2. ASSUME NEW t \in ValueTypes, NEW v \in Consts, Const(t, v) PROVE ArgsOK(code')
    <3>. DEFINE y == [Instr("const") EXCEPT !.arg = <<t, v>>]
    <3>1. code' = Append(code, y)
      BY <2>2 DEF Const, Parse
    <3>2. ArgOK(y)
      BY DEF ArgOK, Instr, Values
    <3>. QED
      BY <1>1, <3>1, <3>2
  <2>3. ASSUME NEW sig \in PlainOps, Plain(sig) PROVE ArgsOK(code')
    <3>. DEFINE y == [Instr("plain") EXCEPT !.arg = sig]
    <3>1. code' = Append(code, y)
      BY <2>3 DEF Plain, Parse
    <3>2. ArgOK(y)
      BY DEF ArgOK, Instr
    <3>. QED
      BY <1>1, <3>1, <3>2
  <2>4. CASE DropOp \/ Select
    <3>1. PICK op \in {"drop", "select"} : code' = Append(code, Instr(op))
      BY <2>4, Zenon DEF DropOp, Select, Parse
    <3>2. ArgOK(Instr(op))
      BY NoArgs
    <3>. QED
      BY <1>1, <3>1, <3>2
  <2>. QED
    BY <1>2, <2>1, <2>2, <2>3, <2>4 DEF DataStep
<1>3. CASE ControlStep
  <2>1. ASSUME NEW t \in BlockTypes, Block(t) \/ Loop(t) \/ If(t) PROVE ArgsOK(code')
    <3>1. code' = code \/ code' = Append(code, Instr("if"))
      BY <2>1, Zenon DEF Block, Loop, If, Parse
    <3>. QED
      BY <1>1, <3>1, NoArgs
  <2>2. CASE Unreachable \/ Nop
    <3>1. code' = Append(code, Instr("unreachable")) \/ code' = Append(code, Instr("nop"))
      BY <2>2, Zenon DEF Unreachable, Nop, Parse
    <3>. QED
      BY <1>1, <3>1, NoArgs
  <2>3. ASSUME NEW l, Br(l) \/ BrIf(l) PROVE ArgsOK(code')
    <3>1. PICK k : \/ code' = Append(code, BranchInstr("br", k, l))
                   \/ code' = Append(code, BranchInstr("br_if", k, l))
      BY <2>3, Zenon DEF Br, BrIf, Parse
    <3>2. ArgOK(BranchInstr("br", k, l)) /\ ArgOK(BranchInstr("br_if", k, l))
      BY NoArgs
    <3>. QED
      BY <1>1, <3>1, <3>2
  <2>4. CASE ReturnOp
    BY <2>3, <2>4 DEF ReturnOp
  <2>5. CASE Else
    <3>. DEFINE c == Append(code, Instr("else"))
    <3>1. PICK bs, t : code' = fix_branch(c, bs, t)
      BY <2>5, Zenon DEF Else, Parse
    <3>2. IsCode(c) /\ ArgsOK(c)
      BY NoArgs, ArgsWritten, Written
    <3>. HIDE DEF c
    <3>. QED
      BY <3>1, <3>2, ArgsFixed
  <2>6. CASE End
    <3>. DEFINE c == fix_branch(code, Last(pcs).relocations, Here)
    <3>1. code' = c \/ code' = Append(c, Return)
      BY <2>6 DEF End, Parse
    <3>2. IsCode(c) /\ ArgsOK(c)
      BY ArgsFixed, Fixed
    <3>3. ArgOK(Return)
      BY DEF ArgOK, Return, Instr
    <3>. HIDE DEF c
    <3>. QED
      BY <3>1, <3>2, <3>3, ArgsWritten
  <2>7. ASSUME NEW ls \in SeqOf(Scopes, MaxCases + 1) \ {<<>>}, BrTable(ls) PROVE ArgsOK(code')
    BY <2>7, TableArgs
  <2>. QED
    BY <1>3, <2>1, <2>2, <2>3, <2>4, <2>5, <2>6, <2>7 DEF ControlStep
<1>. QED
  BY <1>2, <1>3 DEF ParseStep

-----------------------------------------------------------------------------
(* A run of the code: at every address it has the operands f gives it.     *)

Base == last_op_index + NumLocals
StackOK(s, h) == s \in Seq(Values) /\ Len(s) = Base + h
Runs(f) == pc \in DOMAIN f /\ StackOK(os, f[pc])

\* What a call finds below its operands: the caller's stack and its locals.
LEMMA BaseIs ==
  /\ Base \in Nat /\ Base >= 1 /\ last_op_index = 1 /\ NumLocals \in Nat
  /\ \A i \in DOMAIN LocalTypes : last_op_index + i \in 1..Base
<1>1. last_op_index = 1
  BY DEF last_op_index, CallerStack
<1>2. LocalTypes \in Seq(ValueTypes)
  BY FunctionAssumption DEF LocalTypes
<1>3. Len(LocalTypes) \in Nat /\ DOMAIN LocalTypes = 1..Len(LocalTypes)
  BY <1>2
<1>. QED
  BY <1>1, <1>3 DEF Base, NumLocals

\* The top of a stack.
LEMMA StackTop ==
  ASSUME NEW s, NEW h \in Nat, StackOK(s, h)
  PROVE  StackOK(Front(s), h - 1) /\ Last(s) \in Values
<1>1. s \in Seq(Values) /\ Len(s) = Base + h /\ Base \in Nat /\ Base >= 1
  BY BaseIs DEF StackOK
<1>2. IsSeq(s) /\ s # <<>>
  BY <1>1 DEF IsSeq
<1>3. Len(Front(s)) = Len(s) - 1 /\ Last(s) = s[Len(s)]
  BY ONLY <1>2, Shortened
<1>4. Front(s) \in Seq(Values) /\ Last(s) \in Values
  <2>1. Len(s) \in 1..Len(s) /\ Len(s) - 1 \in 0..Len(s)
    BY <1>1
  <2>2. SubSeq(s, 1, Len(s) - 1) \in Seq(Values)
    BY <1>1, <2>1
  <2>3. s[Len(s)] \in Values
    BY <1>1, <2>1
  <2>. QED
    BY <1>3, <2>2, <2>3 DEF Front
<1>. QED
  BY <1>1, <1>3, <1>4 DEF StackOK

\* One value more.
LEMMA StackPush ==
  ASSUME NEW s, NEW h \in Int, StackOK(s, h), NEW x \in Values
  PROVE  StackOK(Append(s, x), h + 1)
BY BaseIs DEF StackOK

\* The first of the operands.
LEMMA StackCut ==
  ASSUME NEW s, NEW h \in Int, StackOK(s, h), NEW n \in Nat, h - n >= -1
  PROVE  StackOK(SubSeq(s, 1, Len(s) - n), h - n)
<1>1. s \in Seq(Values) /\ Len(s) = Base + h /\ Base \in Nat /\ Base >= 1
  BY BaseIs DEF StackOK
<1>. DEFINE l == Len(s) - n
<1>2. l \in 0..Len(s) /\ l = Base + (h - n)
  BY <1>1
<1>. HIDE DEF l
<1>3. SubSeq(s, 1, l) \in Seq(Values) /\ Len(SubSeq(s, 1, l)) = l
  BY <1>1, <1>2
<1>. QED
  BY <1>2, <1>3 DEF StackOK, l

\* Another value for a local.
LEMMA StackSet ==
  ASSUME NEW s, NEW h \in Nat, StackOK(s, h), NEW i \in DOMAIN LocalTypes, NEW x \in Values
  PROVE  StackOK([s EXCEPT ![last_op_index + i] = x], h) /\ s[last_op_index + i] \in Values
<1>1. s \in Seq(Values) /\ Len(s) = Base + h /\ Base \in Nat
  BY BaseIs DEF StackOK
<1>. DEFINE a == last_op_index + i
<1>2. a \in 1..Len(s)
  BY <1>1, BaseIs
<1>. HIDE DEF a
<1>3. [s EXCEPT ![a] = x] \in Seq(Values) /\ Len([s EXCEPT ![a] = x]) = Len(s) /\ s[a] \in Values
  BY <1>1, <1>2
<1>. QED
  BY <1>1, <1>3 DEF StackOK, a

\* jump.
LEMMA StackJump ==
  ASSUME NEW s, NEW h \in Nat, StackOK(s, h), NEW n \in Nat, NEW b, h - n + Kept(b) \in Nat
  PROVE  StackOK(SubSeq(s, 1, Len(s) - n) \o (IF b THEN <<Last(s)>> ELSE <<>>), h - n + Kept(b))
<1>. DEFINE r == SubSeq(s, 1, Len(s) - n)
<1>1. Kept(b) \in {0, 1} /\ h - n >= -1 /\ h - n \in Int
  BY DEF Kept
<1>2. StackOK(r, h - n) /\ Last(s) \in Values
  BY <1>1, StackCut, StackTop
<1>. HIDE DEF r
<1>3. r \in Seq(Values) /\ Len(r) = Base + (h - n) /\ Base \in Nat
  BY <1>2, BaseIs DEF StackOK
<1>4. CASE b
  <2>1. <<Last(s)>> \in Seq(Values) /\ Len(<<Last(s)>>) = 1
    BY <1>2
  <2>2. r \o <<Last(s)>> \in Seq(Values) /\ Len(r \o <<Last(s)>>) = Len(r) + 1
    BY <1>3, <2>1
  <2>3. Len(r) + 1 = Base + (h - n + 1) /\ Kept(b) = 1
    BY <1>3, <1>4 DEF Kept
  <2>. QED
    BY <1>4, <2>2, <2>3 DEF StackOK, r
<1>5. CASE ~b
  <2>1. r \o <<>> = r
    BY <1>3
  <2>2. Kept(b) = 0 /\ h - n + Kept(b) = h - n
    BY <1>1, <1>5 DEF Kept
  <2>. QED
    BY <1>2, <1>5, <2>1, <2>2 DEF r
<1>. QED
  BY <1>4, <1>5

\* What a run relies on, once the body is compiled.
Safe(f) == /\ IsCode(code) /\ Popping(code) /\ ArgsOK(code)
           /\ Flows(f, code, <<>>, tk) /\ Runs(f)

\* The instruction a run is at.
LEMMA AtInstruction ==
  ASSUME NEW f, Safe(f)
  PROVE  LET i == Instruction IN
         /\ pc \in Int /\ pc + 1 \in DOMAIN code /\ i.op # "data" /\ f[pc] \in Nat
         /\ ArgOK(i) /\ Pops(i) /\ (i.op = "br_table" => f[pc] # 0)
         /\ Falls(i) => pc + 1 \in DOMAIN f /\ f[pc + 1] = f[pc] + Delta(i) /\ f[pc + 1] \in Nat
         /\ i.op \in BranchOps => i.pc \in DOMAIN f /\ f[i.pc] = Lands(i, 0, f[pc]) /\ f[i.pc] \in Nat
         /\ \A e \in DOMAIN i.table :
              LET t == i.table[e].pc IN t \in DOMAIN f /\ f[t] = Lands(i, e, f[pc]) /\ f[t] \in Nat /\ e # 0
<1>. DEFINE i == Instruction
<1>1. pc \in DOMAIN f /\ DOMAIN f \subseteq 0..(Len(code) - 1) /\ \A a \in DOMAIN f : Flow(f, code, <<>>, tk, a)
  BY DEF Safe, Runs, Flows
<1>2. Len(code) \in Nat /\ DOMAIN code = 1..Len(code)
  BY Lengths DEF Safe, IsCode
<1>3. pc \in 0..(Len(code) - 1) /\ Flow(f, code, <<>>, tk, pc) /\ \A a \in DOMAIN f : f[a] \in Nat
  BY <1>1 DEF Flow
<1>4. pc \in Int /\ pc + 1 \in DOMAIN code
  BY <1>2, <1>3
<1>5. i = code[pc + 1]
  BY DEF Instruction
<1>6. ArgOK(i) /\ Pops(i) /\ IsInstr(i)
  BY <1>4, <1>5 DEF Safe, ArgsOK, Popping, IsCode
<1>7. \A t, h : Arrives(f, code, <<>>, tk, t, h) => t \in DOMAIN f /\ f[t] = h
  BY DEF Arrives
<1>8. \A n, e : ~Waits(<<>>, n, e)
  BY DEF Waits
<1>. HIDE DEF i
<1>9. i.op # "data" /\ (i.op = "br_table" => f[pc] # 0)
  BY <1>3, <1>5 DEF Flow
<1>10. Falls(i) => pc + 1 \in DOMAIN f /\ f[pc + 1] = f[pc] + Delta(i)
  BY <1>3, <1>5, <1>7 DEF Flow
<1>11. \A e : IsBranch(code, pc + 1, e) =>
         Goal(code, pc + 1, e) \in DOMAIN f /\ f[Goal(code, pc + 1, e)] = Lands(i, e, f[pc])
  BY <1>3, <1>5, <1>7, <1>8 DEF Flow
<1>12. i.op \in BranchOps => i.pc \in DOMAIN f /\ f[i.pc] = Lands(i, 0, f[pc])
  <2>1. i.op \in BranchOps => IsBranch(code, pc + 1, 0)
    BY <1>5 DEF IsBranch
  <2>2. Goal(code, pc + 1, 0) = i.pc
    BY <1>5 DEF Goal
  <2>. QED
    BY <1>11, <2>1, <2>2
<1>13. ASSUME NEW e \in DOMAIN i.table
       PROVE  i.table[e].pc \in DOMAIN f /\ f[i.table[e].pc] = Lands(i, e, f[pc]) /\ e # 0
  <2>1. IsBranch(code, pc + 1, e) /\ e # 0
    BY <1>5, <1>6 DEF IsBranch, IsInstr
  <2>2. Goal(code, pc + 1, e) = i.table[e].pc
    BY <1>5, <2>1 DEF Goal
  <2>. QED
    BY <1>11, <2>1, <2>2
<1>. QED
  BY <1>1, <1>3, <1>4, <1>6, <1>9, <1>10, <1>12, <1>13 DEF i

\* jump leads to an address with the operands it leaves.
LEMMA JumpRuns ==
  ASSUME NEW f, NEW s, NEW h \in Nat, StackOK(s, h), NEW d, d.pop \in Nat,
         d.pc \in DOMAIN f, f[d.pc] = h - d.pop + Kept(d.keep), f[d.pc] \in Nat, Jump(s, d)
  PROVE  pc' \in DOMAIN f /\ StackOK(os', f[pc'])
<1>1. pc' = d.pc /\ os' = SubSeq(s, 1, Len(s) - d.pop) \o (IF d.keep THEN <<Last(s)>> ELSE <<>>)
  BY DEF Jump
<1>2. StackOK(SubSeq(s, 1, Len(s) - d.pop) \o (IF d.keep THEN <<Last(s)>> ELSE <<>>), h - d.pop + Kept(d.keep))
  BY StackJump
<1>. QED
  BY ONLY <1>1, <1>2, f[d.pc] = h - d.pop + Kept(d.keep), d.pc \in DOMAIN f

\* Instructions that only compute.
LEMMA OperateRuns ==
  ASSUME NEW s, NEW h \in Nat, StackOK(s, h), NEW i, ArgOK(i), i.op \in Operators, NEW v \in Consts,
         h + Delta(i) \in Nat
  PROVE  StackOK(Operate(s, i.op, i.arg, v), h + Delta(i))
<1>1. s \in Seq(Values) /\ Len(s) = Base + h /\ Base \in Nat /\ Base >= 1
  BY BaseIs DEF StackOK
<1>2. CASE i.op = "drop"
  <2>1. Operate(s, i.op, i.arg, v) = Front(s) /\ Delta(i) = -1
    BY <1>2 DEF Operate, Delta
  <2>2. StackOK(Front(s), h - 1) /\ h - 1 = h + (-1)
    BY StackTop
  <2>. QED
    BY ONLY <2>1, <2>2
<1>3. CASE i.op = "select"
  <2>. DEFINE n == Len(s)
              x == IF IsZero(s[n]) THEN s[n - 1] ELSE s[n - 2]
  <2>1. Operate(s, i.op, i.arg, v) = Append(SubSeq(s, 1, n - 3), x) /\ Delta(i) = -2
    BY <1>3 DEF Operate, Delta
  <2>2. h - 3 >= -1 /\ n - 1 \in 1..n /\ n - 2 \in 1..n /\ h - 3 \in Int /\ (h - 3) + 1 = h + (-2)
    BY <1>1, <2>1
  <2>3. x \in Values
    BY <1>1, <2>2
  <2>. DEFINE z == 3
  <2>4. z \in Nat /\ h - z >= -1
    BY <2>2
  <2>. HIDE DEF z
  <2>6. StackOK(SubSeq(s, 1, Len(s) - z), h - z)
    BY ONLY h \in Nat, StackOK(s, h), <2>4, StackCut
  <2>. USE DEF z
  <2>. HIDE DEF n, x
  <2>5. StackOK(Append(SubSeq(s, 1, n - 3), x), (h - 3) + 1)
    BY <2>2, <2>3, <2>6, StackPush DEF n
  <2>. QED
    BY ONLY <2>1, <2>2, <2>5
<1>4. CASE i.op = "const"
  <2>1. Operate(s, i.op, i.arg, v) = Append(s, i.arg) /\ Delta(i) = 1 /\ i.arg \in Values
    BY <1>4 DEF Operate, Delta, ArgOK
  <2>2. StackOK(Append(s, i.arg), h + 1)
    BY <2>1, StackPush
  <2>. QED
    BY ONLY <2>1, <2>2
<1>5. CASE i.op = "plain"
  <2>. DEFINE n == Len(i.arg.pops)
              t == i.arg.push
              r == SubSeq(s, 1, Len(s) - n)
              y == Append(r, Typed(t, v))
  <2>1. i.arg \in PlainOps
    BY <1>5 DEF ArgOK
  <2>2. n \in Nat /\ t \in ValueTypes \cup {"pseudo"}
    BY <2>1, PlainAssumption
  <2>3. /\ Operate(s, i.op, i.arg, v) = IF t = "pseudo" THEN r ELSE y
        /\ Delta(i) = Keeps(t) - n
    BY <1>5 DEF Operate, Delta
  <2>4. Keeps(t) \in {0, 1}
    BY DEF Keeps
  <2>. HIDE DEF n, t
  <2>5. h - n >= -1 /\ h - n \in Int
    BY <2>2, <2>3, <2>4
  <2>6. StackOK(r, h - n)
    BY <2>2, <2>5, StackCut
  <2>. HIDE DEF r
  <2>7. CASE t = "pseudo"
    <3>1. h + Delta(i) = h - n
      BY <2>2, <2>3, <2>7 DEF Keeps
    <3>. QED
      BY ONLY <2>3, <2>6, <2>7, <3>1
  <2>8. CASE t # "pseudo"
    <3>1. h + Delta(i) = (h - n) + 1
      BY <2>2, <2>3, <2>8 DEF Keeps
    <3>2. Typed(t, v) \in Values
      BY <2>2, <2>8 DEF Typed, Values
    <3>3. StackOK(y, (h - n) + 1)
      BY <2>5, <2>6, <3>2, StackPush
    <3>. QED
      BY ONLY <2>3, <2>8, <3>1, <3>3
  <2>. QED
    BY <2>7, <2>8
<1>. QED
  BY <1>2, <1>3, <1>4, <1>5 DEF Operators

\* Instructions that go on with the next one or branch from the same height.
LEMMA FallRuns ==
  ASSUME NEW f, Safe(f), Falls(Instruction), pc' = pc + 1, StackOK(os', f[pc] + Delta(Instruction))
  PROVE  pc' \in DOMAIN f /\ StackOK(os', f[pc'])
<1>1. pc + 1 \in DOMAIN f /\ f[pc + 1] = f[pc] + Delta(Instruction)
  BY AtInstruction
<1>. QED
  BY ONLY <1>1, pc' = pc + 1, StackOK(os', f[pc] + Delta(Instruction))

\* get_local, set_local and tee_local.
LEMMA LocalRuns ==
  ASSUME NEW f, Safe(f), NEW i, i = Instruction, i.op \in {"get_local", "set_local", "tee_local"}, pc' = pc + 1,
         \/ i.op = "get_local" /\ os' = Append(os, os[last_op_index + i.arg])
         \/ i.op = "set_local" /\ os' = [Front(os) EXCEPT ![last_op_index + i.arg] = Last(os)]
         \/ i.op = "tee_local" /\ os' = [os EXCEPT ![last_op_index + i.arg] = Last(os)]
  PROVE  pc' \in DOMAIN f /\ StackOK(os', f[pc'])
<1>. DEFINE h == f[pc]
            a == i.arg
<1>1. h \in Nat /\ StackOK(os, h) /\ Falls(i)
  BY AtInstruction DEF Safe, Runs, Falls
<1>2. a \in DOMAIN LocalTypes
  BY AtInstruction DEF ArgOK
<1>3. h + Delta(i) \in Nat
  BY <1>1, AtInstruction
<1>. HIDE DEF h, a
<1>4. Last(os) \in Values /\ StackOK(Front(os), h - 1)
  BY <1>1, StackTop
<1>5. CASE i.op = "get_local"
  <2>1. os' = Append(os, os[last_op_index + a]) /\ h + Delta(i) = h + 1
    BY <1>5 DEF Delta, a
  <2>2. os[last_op_index + a] \in Values
    BY <1>1, <1>2, <1>4, StackSet
  <2>3. StackOK(Append(os, os[last_op_index + a]), h + 1)
    BY <1>1, <2>2, StackPush
  <2>4. StackOK(os', h + Delta(i))
    BY ONLY <2>1, <2>3
  <2>. QED
    BY <1>1, <2>4, FallRuns DEF h
<1>6. CASE i.op = "set_local"
  <2>1. os' = [Front(os) EXCEPT ![last_op_index + a] = Last(os)] /\ h + Delta(i) = h - 1
    BY <1>1, <1>6 DEF Delta, a
  <2>2. h - 1 \in Nat
    BY <1>3, <2>1
  <2>3. StackOK([Front(os) EXCEPT ![last_op_index + a] = Last(os)], h - 1)
    BY <1>2, <1>4, <2>2, StackSet
  <2>4. StackOK(os', h + Delta(i))
    BY ONLY <2>1, <2>3
  <2>. QED
    BY <1>1, <2>4, FallRuns DEF h
<1>7. CASE i.op = "tee_local"
  <2>1. os' = [os EXCEPT ![last_op_index + a] = Last(os)] /\ h + Delta(i) = h
    BY <1>1, <1>7 DEF Delta, a
  <2>2. StackOK([os EXCEPT ![last_op_index + a] = Last(os)], h)
    BY <1>1, <1>2, <1>4, StackSet
  <2>3. StackOK(os', h + Delta(i))
    BY ONLY <2>1, <2>2
  <2>. QED
    BY <1>1, <2>3, FallRuns DEF h
<1>. QED
  BY <1>5, <1>6, <1>7

\* br_table takes the entry its operand chooses, or the default.
LEMMA TableRuns ==
  ASSUME NEW f, Safe(f), NEW i, i = Instruction, i.op = "br_table",
         LET n == Len(i.table) - 1
             e == IF Last(os)[2] < n THEN Last(os)[2] + 1 ELSE n + 1 IN
         Jump(Front(os), i.table[e])
  PROVE  pc' \in DOMAIN f /\ StackOK(os', f[pc'])
<1>. DEFINE h == f[pc]
            x == Last(os)[2]
            n == Len(i.table) - 1
            e == IF x < n THEN x + 1 ELSE n + 1
            d == i.table[e]
<1>1. h \in Nat /\ StackOK(os, h) /\ h # 0
  BY AtInstruction DEF Safe, Runs
<1>2. StackOK(Front(os), h - 1) /\ Last(os) \in Values
  BY <1>1, StackTop
<1>3. x \in Nat
  BY <1>2, ConstsAssumption DEF Values
<1>4. PICK l \in Nat \ {0} : i.table = [y \in 1..l |-> i.table[y]]
  BY AtInstruction DEF ArgOK, Tabled
<1>5. Len(i.table) = l /\ DOMAIN i.table = 1..l
  BY <1>4, Listed
<1>. HIDE DEF x
<1>6. e \in DOMAIN i.table
  <2>1. n = l - 1 /\ l \in Nat /\ l >= 1
    BY <1>5
  <2>. HIDE DEF n
  <2>2. e \in 1..l
    BY <1>3, <2>1
  <2>. QED
    BY <1>5, <2>2
<1>7. Jump(Front(os), d)
  BY DEF x
<1>. HIDE DEF e
<1>8. d.pc \in DOMAIN f /\ f[d.pc] = Lands(i, e, h) /\ f[d.pc] \in Nat /\ e # 0 /\ d.pop \in Nat
  BY <1>6, AtInstruction DEF Pops
<1>9. Lands(i, e, h) = (h - 1) - d.pop + Kept(d.keep)
  BY <1>8 DEF Lands
<1>. HIDE DEF h, d
<1>10. h - 1 \in Nat
  BY <1>1
<1>. QED
  BY <1>2, <1>7, <1>8, <1>9, <1>10, JumpRuns

\* One instruction, unless it ends the run.
LEMMA InterpretRuns ==
  ASSUME NEW f, Safe(f), NEW v \in Consts, Interpret(v), status' = "running"
  PROVE  pc' \in DOMAIN f /\ StackOK(os', f[pc'])
<1>. DEFINE i == Instruction
            h == f[pc]
<1>1. h \in Nat /\ StackOK(os, h) /\ Pops(i) /\ ArgOK(i)
  BY AtInstruction DEF Safe, Runs
<1>2. /\ Falls(i) => pc + 1 \in DOMAIN f /\ f[pc + 1] = h + Delta(i) /\ f[pc + 1] \in Nat
      /\ i.op \in BranchOps => i.pc \in DOMAIN f /\ f[i.pc] = Lands(i, 0, h) /\ f[i.pc] \in Nat
  BY AtInstruction
<1>3. StackOK(Front(os), h - 1)
  BY <1>1, StackTop
<1>4. CASE i.op = "nop" /\ Next_pc /\ os' = os
  <2>1. Falls(i) /\ Delta(i) = 0 /\ h + 0 = h
    BY <1>1, <1>4 DEF Falls, Delta
  <2>. QED
    BY <1>1, <1>4, <2>1, FallRuns DEF Next_pc
<1>5. CASE /\ i.op = "if"
           /\ pc' = IF IsZero(Last(os)) THEN i.pc ELSE pc + 1
           /\ os' = Front(os)
  <2>1. Falls(i) /\ h + Delta(i) = h - 1 /\ Lands(i, 0, h) = h - 1 /\ i.op \in BranchOps
    BY <1>1, <1>5 DEF Falls, Delta, Lands, BranchOps
  <2>2. pc' \in {i.pc, pc + 1}
    BY <1>5
  <2>. QED
    BY ONLY <1>2, <1>3, <1>5, <2>1, <2>2
<1>6. CASE i.op = "else" /\ pc' = i.pc /\ os' = os
  <2>1. Lands(i, 0, h) = h /\ i.op \in BranchOps
    BY <1>6 DEF Lands, BranchOps
  <2>. QED
    BY ONLY <1>1, <1>2, <1>6, <2>1
<1>7. CASE i.op = "br" /\ Jump(os, i)
  <2>1. Lands(i, 0, h) = h - i.pop + Kept(i.keep) /\ i.op \in BranchOps
    BY <1>7 DEF Lands, BranchOps
  <2>2. i.pc \in DOMAIN f /\ f[i.pc] = h - i.pop + Kept(i.keep) /\ f[i.pc] \in Nat /\ i.pop \in Nat
    BY ONLY <1>1, <1>2, <2>1 DEF Pops
  <2>. HIDE DEF i, h
  <2>. QED
    BY <1>1, <1>7, <2>2, JumpRuns
<1>8. CASE /\ i.op = "br_if"
           /\ IF IsZero(Last(os)) THEN Next_pc /\ os' = Front(os) ELSE Jump(Front(os), i)
  <2>1. /\ Lands(i, 0, h) = (h - 1) - i.pop + Kept(i.keep) /\ i.op \in BranchOps
        /\ Falls(i) /\ h + Delta(i) = h - 1
    BY <1>1, <1>8 DEF Lands, BranchOps, Falls, Delta
  <2>2. /\ i.pc \in DOMAIN f /\ f[i.pc] = (h - 1) - i.pop + Kept(i.keep) /\ f[i.pc] \in Nat
        /\ i.pop \in Nat /\ h - 1 \in Nat
    BY ONLY <1>1, <1>2, <2>1 DEF Pops
  <2>3. CASE IsZero(Last(os))
    <3>1. pc' = pc + 1 /\ os' = Front(os)
      BY <1>8, <2>3 DEF Next_pc
    <3>. QED
      BY ONLY <1>2, <1>3, <2>1, <3>1
  <2>4. CASE ~IsZero(Last(os))
    <3>1. Jump(Front(os), i)
      BY <1>8, <2>4
    <3>. HIDE DEF i, h
    <3>. QED
      BY <1>3, <2>2, <3>1, JumpRuns
  <2>. QED
    BY <2>3, <2>4
<1>9. CASE /\ i.op = "br_table"
           /\ LET n == Len(i.table) - 1
                  e == IF Last(os)[2] < n THEN Last(os)[2] + 1 ELSE n + 1 IN
              Jump(Front(os), i.table[e])
  BY <1>9, TableRuns
<1>10. CASE \/ i.op = "get_local" /\ Next_pc /\ os' = Append(os, os[last_op_index + i.arg])
            \/ /\ i.op = "set_local" /\ Next_pc
               /\ os' = [Front(os) EXCEPT ![last_op_index + i.arg] = Last(os)]
            \/ /\ i.op = "tee_local" /\ Next_pc
               /\ os' = [os EXCEPT ![last_op_index + i.arg] = Last(os)]
  BY <1>10, LocalRuns, Zenon DEF Next_pc
<1>11. CASE /\ i.op \in Operators /\ Next_pc
            /\ os' = Operate(os, i.op, i.arg, v)
  <2>1. Falls(i)
    BY <1>11 DEF Falls, Operators
  <2>2. h + Delta(i) \in Nat
    BY <1>2, <2>1
  <2>. HIDE DEF i, h
  <2>3. StackOK(Operate(os, i.op, i.arg, v), h + Delta(i))
    BY <1>1, <1>11, <2>2, OperateRuns
  <2>. QED
    BY ONLY <1>2, <1>11, <2>1, <2>3 DEF Next_pc
<1>. QED
  BY <1>4, <1>5, <1>6, <1>7, <1>8, <1>9, <1>10, <1>11, Zenon DEF Interpret, PopCall

-----------------------------------------------------------------------------
(* The inductive invariant of compiling and running.                       *)

\* Heights the maximum covers, which a run follows.
Heighted(f) == /\ \E m : Tracks(tk, pcs, m) /\ Heights(f, code, pcs, tk, m)
               /\ \A a \in DOMAIN f : Covers(tk, f[a])
               /\ status = "running" => Runs(f)
FlowInv == /\ status # "compiling" => pcs = <<>>
           /\ ArgsOK(code)
           /\ \E f : Heighted(f)

\* Only the next address is reached yet, with no operand.
LEMMA FlowInvInit ==
  ASSUME RunInit
  PROVE  FlowInv
<1>. DEFINE f == [a \in {} |-> 0]
            z == Scope(NewTracker, Result, Result, FALSE, NoTarget, {})
<1>1. tk = NewTracker /\ pcs = <<z>> /\ code = <<>> /\ status = "compiling"
  BY DEF RunInit, Init
<1>2. PICK m : Tracks(tk, pcs, m)
  BY TrackInvInit DEF TrackInv
<1>3. z.target = NoTarget /\ z.label = z.expected /\ z.relocations = {} /\ z.is_if = FALSE
  BY DEF Scope
<1>. HIDE DEF z
<1>4. DOMAIN f = {}
  OBVIOUS
<1>. HIDE DEF f
<1>5. Len(pcs) = 1 /\ pcs[1] = z /\ pcs # <<>> /\ Len(code) = 0 /\ DOMAIN code = {}
  BY <1>1
<1>6. tk.depth = 0 /\ tk.state = <<"scope">>
  BY <1>1 DEF NewTracker
<1>7. Reach(tk)
  <2>1. Len(tk.state) = 1 /\ tk.state[1] = "scope"
    BY <1>6
  <2>. QED
    BY <2>1 DEF Reach, Clear
<1>8. Flows(f, code, pcs, tk)
  BY <1>4, <1>5, <1>6, <1>7 DEF Flows, Arrives
<1>9. Owed(f, code, z, tk.state, m[1])
  BY <1>3 DEF Owed
<1>10. Owes(f, code, pcs, tk, m)
  BY <1>3, <1>5, <1>9 DEF Owes
<1>11. Heighted(f)
  BY <1>1, <1>2, <1>4, <1>8, <1>10 DEF Heighted, Heights
<1>12. ArgsOK(code)
  BY <1>5 DEF ArgsOK
<1>. QED
  BY <1>1, <1>11, <1>12 DEF FlowInv

\* An opcode adds the heights of the tracker, before it and after it.
LEMMA CompileFlows ==
  ASSUME CodeInv, TrackInv, CoverInv, FlowInv, Compile
  PROVE  FlowInv'
<1>1. status = "compiling" /\ status' = "compiling" /\ ParseStep
  BY DEF Compile
<1>2. PICK f : Heighted(f)
  BY DEF FlowInv
<1>3. PICK m : Tracks(tk, pcs, m) /\ Heights(f, code, pcs, tk, m)
  BY <1>2 DEF Heighted
<1>4. IsCode(code) /\ Scoped(pcs) /\ IsSeq(src) /\ Tracked
  BY DEF CodeInv, Resolving, WellMade, TrackInv, Tracked
<1>5. pcs # <<>>
  <2>1. ASSUME NEW op, NEW arg, NEW k, NEW p, NEW c, Parse(op, arg, k, p, c) PROVE pcs # <<>>
    BY <2>1 DEF Parse, Parsing
  <2>2. CASE DataStep
    BY <2>1, <2>2, Zenon DEF DataStep, DropOp, Select, GetLocal, SetLocal, TeeLocal, Const, Plain
  <2>3. CASE ControlStep
    BY <2>1, <2>3, Zenon DEF ControlStep, Unreachable, Nop, Block, Loop, If, Else, End, ReturnOp, Br, BrIf, BrTable
  <2>. QED
    BY <1>1, <2>2, <2>3 DEF ParseStep
<1>6. Stepped(f)
  BY <1>1, <1>3, <1>4, <1>5, StepHeights DEF Ready
<1>7. PICK w, g : /\ Tracks(tk', pcs', w) /\ Heights(g, code', pcs', tk', w)
                  /\ \A a \in DOMAIN g : g[a] \in {tk.depth, tk'.depth} \/ (a \in DOMAIN f /\ g[a] = f[a])
  BY <1>6 DEF Stepped
<1>8. Covers(tk', tk.depth)
  BY <1>1, <1>4, StepCovers DEF CoverInv
<1>9. Covers(tk', tk'.depth)
  BY <1>8 DEF Covers
<1>10. \A a \in DOMAIN f : Covers(tk', f[a])
  BY <1>1, <1>2, <1>4, StepCovers DEF Heighted
<1>11. \A a \in DOMAIN g : Covers(tk', g[a])
  BY <1>7, <1>8, <1>9, <1>10
<1>12. Heighted(g)'
  BY <1>1, <1>7, <1>11 DEF Heighted
<1>13. ArgsOK(code)'
  BY <1>1, <1>4, StepArgs DEF FlowInv
<1>. QED
  BY <1>1, <1>12, <1>13 DEF FlowInv

\* Stacks one after the other.
LEMMA ValuesJoined ==
  ASSUME NEW s \in Seq(Values), NEW r \in Seq(Values)
  PROVE  s \o r \in Seq(Values) /\ Len(s \o r) = Len(s) + Len(r)
OBVIOUS

\* A call starts with its locals and no operand.
LEMMA CallFlows ==
  ASSUME FlowInv, NEW vs \in [DOMAIN Params -> Consts],
         Call([i \in DOMAIN Params |-> Typed(Params[i], vs[i])])
  PROVE  FlowInv'
<1>. DEFINE a == [i \in DOMAIN Params |-> Typed(Params[i], vs[i])]
            b == [i \in DOMAIN Locals |-> Typed(Locals[i], 0)]
<1>1. /\ pcs = <<>> /\ status' = "running" /\ pc' = 0 /\ os' = CallerStack \o (a \o b)
      /\ tk' = tk /\ pcs' = pcs /\ code' = code
  BY DEF Call, Compiled, pvars
<1>2. PICK f : Heighted(f)
  BY DEF FlowInv
<1>3. PICK m : Tracks(tk, pcs, m) /\ Heights(f, code, pcs, tk, m)
  BY <1>2 DEF Heighted
<1>4. 0 \in DOMAIN f /\ f[0] = 0
  BY <1>1, <1>3 DEF Heights, Flows, Arrives
<1>5. Params \in Seq(ValueTypes) /\ Locals \in Seq(ValueTypes)
  BY FunctionAssumption
<1>6. Len(Params) \in Nat /\ Len(Locals) \in Nat /\ DOMAIN Params = 1..Len(Params) /\ DOMAIN Locals = 1..Len(Locals)
  BY <1>5
<1>7. a \in Seq(Values) /\ Len(a) = Len(Params)
  <2>1. a \in [1..Len(Params) -> Values]
    BY <1>5, <1>6 DEF Typed, Values
  <2>. HIDE DEF a
  <2>. QED
    BY <1>6, <2>1
<1>8. b \in Seq(Values) /\ Len(b) = Len(Locals)
  <2>1. b \in [1..Len(Locals) -> Values]
    BY <1>5, <1>6, ConstsAssumption DEF Typed, Values
  <2>. HIDE DEF b
  <2>. QED
    BY <1>6, <2>1
<1>. HIDE DEF a, b
<1>9. CallerStack \in Seq(Values) /\ Len(CallerStack) = 1
  BY TypesAssumption, ConstsAssumption DEF CallerStack, Values
<1>10. a \o b \in Seq(Values) /\ Len(a \o b) = Len(Params) + Len(Locals)
  BY ONLY <1>7, <1>8, ValuesJoined
<1>11. CallerStack \o (a \o b) \in Seq(Values) /\ Len(CallerStack \o (a \o b)) = 1 + (Len(Params) + Len(Locals))
  BY ONLY <1>9, <1>10, ValuesJoined
<1>12. Base = 1 + (Len(Params) + Len(Locals))
  <2>1. Len(Params \o Locals) = Len(Params) + Len(Locals)
    BY <1>5
  <2>. QED
    BY <2>1, BaseIs DEF Base, NumLocals, LocalTypes
<1>13. StackOK(os', f[0])
  BY <1>1, <1>4, <1>6, <1>11, <1>12 DEF StackOK
<1>14. Runs(f)'
  BY <1>1, <1>4, <1>13 DEF Runs, StackOK
<1>15. Heighted(f)'
  BY <1>1, <1>2, <1>3, <1>14 DEF Heighted
<1>. QED
  BY <1>1, <1>15 DEF FlowInv

\* An instruction leads to an address with its height.
LEMMA ExecuteFlows ==
  ASSUME CodeInv, TrackInv, FlowInv, Execute
  PROVE  FlowInv'
<1>1. /\ status = "running" /\ pcs = <<>> /\ tk' = tk /\ pcs' = pcs /\ code' = code
      /\ \E v \in Consts : Interpret(v)
  BY DEF Execute, pvars, FlowInv
<1>2. PICK v \in Consts : Interpret(v)
  BY <1>1
<1>3. PICK f : Heighted(f)
  BY DEF FlowInv
<1>4. PICK m : Tracks(tk, pcs, m) /\ Heights(f, code, pcs, tk, m)
  BY <1>3 DEF Heighted
<1>5. Safe(f)
  <2>1. Flows(f, code, <<>>, tk)
    BY <1>1, <1>4 DEF Heights
  <2>2. IsCode(code) /\ Popping(code) /\ ArgsOK(code)
    BY DEF CodeInv, Resolving, WellMade, TrackInv, FlowInv
  <2>3. Runs(f)
    BY <1>1, <1>3 DEF Heighted
  <2>. QED
    BY <2>1, <2>2, <2>3 DEF Safe
<1>6. status' = "running" => Runs(f)'
  BY <1>2, <1>5, InterpretRuns DEF Runs, StackOK
<1>7. Heighted(f)'
  BY <1>1, <1>3, <1>4, <1>6 DEF Heighted
<1>. QED
  BY <1>1, <1>7 DEF FlowInv

\* Every step of compiling and running.
LEMMA FlowInvStep ==
  ASSUME CodeInv, TrackInv, CoverInv, FlowInv, [Next]_vars
  PROVE  FlowInv'
<1>1. CASE Compile
  BY <1>1, CompileFlows
<1>2. CASE \E vs \in [DOMAIN Params -> Consts] : Call([i \in DOMAIN Params |-> Typed(Params[i], vs[i])])
  BY <1>2, CallFlows
<1>3. CASE UNCHANGED <<status, pc, os>> /\ UNCHANGED pvars
  BY <1>3 DEF pvars, FlowInv, Heighted, Runs, StackOK
<1>4. CASE Execute
  BY <1>4, ExecuteFlows
<1>5. EnterOrLeave \/ UNCHANGED vars => UNCHANGED <<status, pc, os>> /\ UNCHANGED pvars
  BY DEF EnterOrLeave, vars, pvars
<1>. QED
  BY <1>1, <1>2, <1>3, <1>4, <1>5 DEF Next

\* Where a run is and what it holds, in the inductive invariant.
LEMMA RunFromInv ==
  ASSUME CodeInv, TrackInv, FlowInv, status = "running"
  PROVE  /\ pc + 1 \in DOMAIN code /\ Instruction.op # "data" /\ os \in Seq(Values)
         /\ Len(os) \in Nat /\ Len(os) >= Base /\ Len(os) - Base <= tk.max
<1>1. PICK f : Heighted(f)
  BY DEF FlowInv
<1>2. PICK m : Tracks(tk, pcs, m) /\ Heights(f, code, pcs, tk, m)
  BY <1>1 DEF Heighted
<1>3. Runs(f) /\ pcs = <<>>
  BY <1>1 DEF Heighted, FlowInv
<1>4. Safe(f)
  BY <1>2, <1>3 DEF Safe, Heights, CodeInv, Resolving, WellMade, TrackInv, FlowInv
<1>5. pc + 1 \in DOMAIN code /\ Instruction.op # "data" /\ f[pc] \in Nat
  BY <1>4, AtInstruction
<1>6. os \in Seq(Values) /\ Len(os) = Base + f[pc] /\ Covers(tk, f[pc])
  BY <1>1, <1>3 DEF Runs, StackOK, Heighted
<1>. QED
  BY <1>5, <1>6, BaseIs DEF Covers

\* The inductive invariant of compiling and running.
THEOREM FlowInvariant == Spec => [](CodeInv /\ TrackInv /\ FlowInv)
<1>1. RunInit => TrackInv /\ CoverInv /\ FlowInv
  BY TrackInvInit, CoverInvInit, FlowInvInit
<1>2. CodeInv /\ TrackInv /\ CoverInv /\ [Next]_vars => TrackInv' /\ CoverInv'
  BY TrackerStep
<1>3. CodeInv /\ TrackInv /\ CoverInv /\ FlowInv /\ [Next]_vars => FlowInv'
  BY FlowInvStep
<1>. QED
  BY <1>1, <1>2, <1>3, CodeInvariant, PTL DEF Spec

\* A run never leaves the code nor takes the data of a br_table for an
\* instruction, and neither an instruction nor a branch takes more operands than
\* there are above the locals (br_table_parser, jump, handle_branch_target).
THEOREM StaysInCodeAlways == Spec => []StaysInCode
<1>1. CodeInv /\ TrackInv /\ FlowInv => StaysInCode
  BY RunFromInv DEF StaysInCode, Base
<1>. QED
  BY <1>1, FlowInvariant, PTL

\* No run of any body has more operands than maximum_operand_depth, which the
\* parser computed without running it and reports in maximum_stack, whatever the
\* way its branches take (operand_stack_type_tracker, jump).
THEOREM DepthBoundedAlways == Spec => []DepthBounded
<1>1. CodeInv /\ TrackInv /\ FlowInv => DepthBounded
  <2>. SUFFICES ASSUME CodeInv, TrackInv, FlowInv, status = "running" PROVE Len(Operands(os)) <= tk.max
    BY DEF DepthBounded
  <2>1. os \in Seq(Values) /\ Len(os) \in Nat /\ Len(os) >= Base /\ Len(os) - Base <= tk.max /\ Base \in Nat
    BY RunFromInv, BaseIs
  <2>2. Operands(os) = SubSeq(os, Base + 1, Len(os))
    BY DEF Operands, Base
  <2>3. Len(Operands(os)) = Len(os) - Base
    <3>. DEFINE n == Len(os)
    <3>1. n \in Nat /\ Base + 1 \in 1..(n + 1)
      BY <2>1
    <3>. QED
      BY <2>1, <2>2, <3>1
  <2>. QED
    BY <2>1, <2>3
<1>. QED
  BY <1>1, FlowInvariant, PTL
=============================================================================
