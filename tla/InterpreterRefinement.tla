----------------------- MODULE InterpreterRefinement -----------------------
(***************************************************************************)
(* Interpreter implements CallFrames, for any functions, limits, nesting   *)
(* of executes and host functions: each action is a step of the abstract   *)
(* specification, or none.                                                 *)
(***************************************************************************)
EXTENDS InterpreterProofs

(* Bases for any activation stack a.                                       *)

BasesStep(a, F, n) == IF a[n].pc = "null" THEN F[n - 1] ELSE Append(F[n - 1], a[n].last)
BasesBody(a, F)    == [n \in 0..Len(a) |-> IF n = 0 THEN <<>> ELSE BasesStep(a, F, n)]
BasesOf(a)         == CHOOSE F : F = BasesBody(a, F)

\* The recursive definition of Bases has a solution, and what it says of n
\* activations.
LEMMA BasesAre ==
  ASSUME NEW a \in Seq(FrameType)
  PROVE  /\ \A n \in 0..Len(a) : BasesOf(a)[n] \in Seq(Nat)
         /\ BasesOf(a)[0] = <<>>
         /\ \A n \in 1..Len(a) : BasesOf(a)[n] = BasesStep(a, BasesOf(a), n)
<1>. DEFINE N == Len(a)
            Solves(F, n) == F[0] = <<>> /\ \A k \in 1..n : F[k] = BasesStep(a, F, k)
            T == {n \in 0..N : \E F \in [0..n -> Seq(Nat)] : Solves(F, n)}
<1>1. N \in Nat
  BY LenProperties
<1>2. \A k \in 1..N : a[k].last \in Nat
  <2>1. \A k \in 1..N : a[k] \in FrameType
    BY ElementOfSeq
  <2>. QED
    BY <2>1 DEF FrameType
<1>. HIDE DEF N
<1>3. 0 \in T
  <2>. DEFINE F == [k \in 0..0 |-> <<>>]
  <2>1. F \in [0..0 -> Seq(Nat)] /\ Solves(F, 0)
    OBVIOUS
  <2>. HIDE DEF F, Solves
  <2>2. 0 \in 0..N
    BY <1>1
  <2>. QED
    BY <2>1, <2>2
<1>4. ASSUME NEW n \in 0..(N - 1), n \in T
      PROVE  n + 1 \in T
  <2>1. PICK F \in [0..n -> Seq(Nat)] : Solves(F, n)
    BY <1>4
  <2>. DEFINE x == BasesStep(a, F, n + 1)
              G == [k \in 0..(n + 1) |-> IF k <= n THEN F[k] ELSE x]
  <2>2. n + 1 \in 1..N /\ n + 1 \in 0..N /\ n \in 0..n /\ (n + 1) - 1 = n
    BY <1>1
  <2>3. x \in Seq(Nat)
    <3>1. F[n] \in Seq(Nat)
      BY <2>2
    <3>2. a[n + 1].last \in Nat
      BY <1>2, <2>2
    <3>3. Append(F[n], a[n + 1].last) \in Seq(Nat)
      BY <3>1, <3>2, AppendIs
    <3>. QED
      BY <2>2, <3>1, <3>3 DEF BasesStep
  <2>. HIDE DEF x
  <2>4. G \in [0..(n + 1) -> Seq(Nat)]
    BY <2>3
  <2>5. G[n + 1] = x /\ \A k \in 0..n : G[k] = F[k]
    BY <2>2
  <2>. HIDE DEF G
  <2>6. G[0] = <<>>
    BY <2>1, <2>5
  <2>7. ASSUME NEW k \in 1..(n + 1) PROVE G[k] = BasesStep(a, G, k)
    <3>1. k - 1 \in 0..n /\ (k \in 1..n \/ k = n + 1)
      BY <2>2
    <3>2. BasesStep(a, G, k) = BasesStep(a, F, k)
      BY <2>5, <3>1 DEF BasesStep
    <3>3. CASE k \in 1..n
      BY <2>1, <2>5, <3>2, <3>3
    <3>4. CASE k = n + 1
      BY <2>5, <3>2, <3>4 DEF x
    <3>. QED
      BY <3>1, <3>3, <3>4
  <2>8. \E H \in [0..(n + 1) -> Seq(Nat)] : Solves(H, n + 1)
    BY <2>4, <2>6, <2>7
  <2>. QED
    BY <2>2, <2>8
<1>5. N \in T
  <2>. HIDE DEF T
  <2>1. \A n \in 0..N : n \in T
    BY <1>1, <1>3, <1>4, Climb
  <2>. QED
    BY <1>1, <2>1
<1>6. PICK F \in [0..N -> Seq(Nat)] : Solves(F, N)
  BY <1>5
<1>7. F = BasesBody(a, F)
  <2>1. BasesBody(a, F) = [n \in 0..N |-> IF n = 0 THEN <<>> ELSE BasesStep(a, F, n)]
    BY DEF BasesBody, N
  <2>2. \A n \in 0..N : F[n] = IF n = 0 THEN <<>> ELSE BasesStep(a, F, n)
    BY <1>1, <1>6
  <2>3. F = [n \in 0..N |-> F[n]]
    OBVIOUS
  <2>4. [n \in 0..N |-> F[n]] = [n \in 0..N |-> IF n = 0 THEN <<>> ELSE BasesStep(a, F, n)]
    BY <2>2, Zenon
  <2>. QED
    BY <2>1, <2>3, <2>4, Zenon
<1>. DEFINE B == BasesOf(a)
<1>8. B = BasesBody(a, B)
  <2>1. B = CHOOSE G : G = BasesBody(a, G)
    BY DEF BasesOf
  <2>. HIDE DEF B
  <2>. QED
    BY <1>7, <2>1, Zenon
<1>. HIDE DEF B
<1>9. \A n \in 0..N : B[n] = IF n = 0 THEN <<>> ELSE BasesStep(a, B, n)
  <2>1. B = [n \in 0..N |-> IF n = 0 THEN <<>> ELSE BasesStep(a, B, n)]
    BY <1>8 DEF BasesBody, N
  <2>. QED
    BY <2>1
<1>10. B[0] = <<>> /\ \A n \in 1..N : B[n] = BasesStep(a, B, n)
  BY <1>1, <1>9
<1>11. \A n \in 0..N : B[n] = F[n]
  <2>. DEFINE R == {n \in 0..N : B[n] = F[n]}
  <2>1. 0 \in R
    BY <1>1, <1>6, <1>10
  <2>2. ASSUME NEW n \in 0..(N - 1), n \in R PROVE n + 1 \in R
    <3>1. n + 1 \in 1..N /\ n + 1 \in 0..N /\ (n + 1) - 1 = n
      BY <1>1
    <3>2. BasesStep(a, B, n + 1) = BasesStep(a, F, n + 1)
      BY <2>2, <3>1 DEF BasesStep
    <3>. QED
      BY <1>6, <1>10, <3>1, <3>2
  <2>. HIDE DEF R
  <2>3. \A n \in 0..N : n \in R
    BY <1>1, <2>1, <2>2, Climb
  <2>. QED
    BY <2>3 DEF R
<1>. QED
  BY <1>10, <1>11 DEF B, N

\* Activations above n do not matter for the bases of the first n.
LEMMA BasesAgree ==
  ASSUME NEW a \in Seq(FrameType), NEW a2 \in Seq(FrameType),
         NEW n \in Nat, n <= Len(a), n <= Len(a2), \A k \in 1..n : a2[k] = a[k]
  PROVE  \A k \in 0..n : BasesOf(a2)[k] = BasesOf(a)[k]
<1>. DEFINE B == BasesOf(a)
            C == BasesOf(a2)
            T == {k \in 0..n : C[k] = B[k]}
<1>1. Len(a) \in Nat /\ Len(a2) \in Nat
  BY LenProperties
<1>2. /\ B[0] = <<>> /\ C[0] = <<>>
      /\ \A k \in 1..n : B[k] = BasesStep(a, B, k) /\ C[k] = BasesStep(a2, C, k)
  <2>1. \A k \in 1..n : k \in 1..Len(a) /\ k \in 1..Len(a2)
    BY <1>1
  <2>. QED
    BY <2>1, BasesAre
<1>. HIDE DEF B, C
<1>3. 0 \in T
  BY <1>2
<1>4. ASSUME NEW k \in 0..(n - 1), k \in T PROVE k + 1 \in T
  <2>1. k + 1 \in 1..n /\ k + 1 \in 0..n /\ (k + 1) - 1 = k
    OBVIOUS
  <2>2. BasesStep(a2, C, k + 1) = BasesStep(a, B, k + 1)
    BY <1>4, <2>1 DEF BasesStep
  <2>. QED
    BY <1>2, <2>1, <2>2
<1>. HIDE DEF T
<1>5. \A k \in 0..n : k \in T
  BY <1>3, <1>4, Climb
<1>. QED
  BY <1>5 DEF T, B, C

-----------------------------------------------------------------------------
(* Bases and the ghost b of CallInv.                                       *)

\* The bases that n activations have saved, then the base of the n-th itself.
EdgesAt(a, b, n) == Append(BasesOf(a)[n], b[n])

Sorted(e)     == \A i, j \in 1..Len(e) : i <= j => e[i] <= e[j]
Extends(e, d) == Len(d) <= Len(e) /\ \A j \in 1..Len(d) : e[j] = d[j]

\* An activation with operands of its own adds its base.
LEMMA EdgesGrow ==
  ASSUME NEW a \in Seq(FrameType), NEW b \in [0..Len(a) -> Nat], NEW u, Frames(a, b, u),
         NEW n \in 0..(Len(a) - 1)
  PROVE  /\ a[n + 1].pc = "null" => EdgesAt(a, b, n + 1) = EdgesAt(a, b, n)
         /\ a[n + 1].pc # "null" =>
              /\ BasesOf(a)[n + 1] = EdgesAt(a, b, n)
              /\ EdgesAt(a, b, n + 1) = Append(EdgesAt(a, b, n), b[n + 1])
<1>. DEFINE B == BasesOf(a)
<1>1. n + 1 \in 1..Len(a) /\ (n + 1) - 1 = n
  BY LenProperties
<1>2. B[n + 1] = BasesStep(a, B, n + 1)
  BY <1>1, BasesAre
<1>. HIDE DEF B
<1>3. /\ a[n + 1].pc = "null" => b[n + 1] = b[n]
      /\ a[n + 1].pc # "null" => a[n + 1].last = b[n]
  BY <1>1 DEF Frames
<1>4. CASE a[n + 1].pc = "null"
  BY <1>1, <1>2, <1>3, <1>4 DEF BasesStep, EdgesAt, B
<1>5. CASE a[n + 1].pc # "null"
  <2>1. B[n + 1] = Append(B[n], b[n])
    BY <1>1, <1>2, <1>3, <1>5 DEF BasesStep
  <2>. QED
    BY <1>5, <2>1 DEF EdgesAt, B
<1>. QED
  BY <1>4, <1>5

\* Adding an element no smaller than the last keeps a sequence sorted.
LEMMA SortedGrows ==
  ASSUME NEW e \in Seq(Nat), Len(e) >= 1, Sorted(e), NEW x \in Nat, e[Len(e)] <= x
  PROVE  Append(e, x) \in Seq(Nat) /\ Sorted(Append(e, x)) /\ Extends(Append(e, x), e)
<1>. DEFINE d == Append(e, x)
            m == Len(e)
<1>1. m \in Nat /\ \A i \in 1..m : e[i] \in Nat
  BY LenProperties, ElementOfSeq
<1>2. d \in Seq(Nat) /\ Len(d) = m + 1 /\ d[m + 1] = x /\ \A i \in 1..m : d[i] = e[i]
  BY AppendIs
<1>. HIDE DEF d, m
<1>3. \A i \in 1..m : e[i] <= x
  <2>. SUFFICES ASSUME NEW i \in 1..m PROVE e[i] <= x
    OBVIOUS
  <2>1. m \in 1..m /\ i <= m
    BY <1>1
  <2>2. e[i] <= e[m] /\ e[m] <= x
    BY <2>1 DEF Sorted, m
  <2>. QED
    BY <1>1, <2>1, <2>2
<1>4. \A i, j \in 1..m : i <= j => e[i] <= e[j]
  BY DEF Sorted, m
<1>5. ASSUME NEW i \in 1..(m + 1), NEW j \in 1..(m + 1), i <= j PROVE d[i] <= d[j]
  <2>1. CASE j \in 1..m
    <3>1. i \in 1..m
      BY <1>1, <1>5, <2>1
    <3>. QED
      BY <1>2, <1>4, <1>5, <2>1, <3>1
  <2>2. CASE j = m + 1
    <3>1. i \in 1..m \/ i = m + 1
      BY <1>1
    <3>. QED
      BY <1>2, <1>3, <2>2, <3>1
  <2>. QED
    BY <1>1, <2>1, <2>2
<1>6. Extends(d, e)
  BY <1>1, <1>2 DEF Extends, m
<1>. QED
  BY <1>2, <1>5, <1>6 DEF Sorted, d

\* Bases never decrease, up to the base of each activation.
LEMMA EdgesSorted ==
  ASSUME NEW a \in Seq(FrameType), NEW b \in [0..Len(a) -> Nat], NEW u, Frames(a, b, u)
  PROVE  \A n \in 0..Len(a) :
           LET e == EdgesAt(a, b, n) IN
           /\ e \in Seq(Nat) /\ Len(e) = Len(BasesOf(a)[n]) + 1 /\ Len(BasesOf(a)[n]) \in Nat
           /\ e[Len(e)] = b[n] /\ Sorted(e)
<1>. DEFINE N == Len(a)
            E(n) == EdgesAt(a, b, n)
            P(n) == Sorted(E(n))
            T == {n \in 0..N : P(n)}
<1>1. N \in Nat
  BY LenProperties
<1>2. ASSUME NEW n \in 0..N
      PROVE  /\ E(n) \in Seq(Nat) /\ Len(E(n)) = Len(BasesOf(a)[n]) + 1
             /\ Len(BasesOf(a)[n]) \in Nat /\ E(n)[Len(E(n))] = b[n] /\ b[n] \in Nat
  <2>. DEFINE B == BasesOf(a)[n]
              x == b[n]
  <2>1. B \in Seq(Nat) /\ x \in Nat /\ E(n) = Append(B, x)
    BY BasesAre DEF EdgesAt
  <2>. HIDE DEF B, x
  <2>2. Len(B) \in Nat /\ Append(B, x) \in Seq(Nat) /\ Len(Append(B, x)) = Len(B) + 1
        /\ Append(B, x)[Len(B) + 1] = x
    BY <2>1, AppendIs, LenProperties
  <2>. QED
    BY <2>1, <2>2 DEF B, x
<1>. HIDE DEF E, P
<1>3. 0 \in T
  <2>1. 0 \in 0..N /\ BasesOf(a)[0] = <<>>
    BY <1>1, BasesAre
  <2>2. Len(E(0)) = Len(BasesOf(a)[0]) + 1 /\ E(0)[Len(E(0))] \in Nat
    BY <1>2, <2>1
  <2>3. Len(BasesOf(a)[0]) = 0
    BY <2>1
  <2>4. Len(E(0)) = 1
    BY <2>2, <2>3
  <2>5. E(0)[1] \in Nat
    BY <2>2, <2>4, Zenon
  <2>6. \A i, j \in 1..1 : E(0)[i] <= E(0)[j]
    BY <2>5
  <2>7. P(0)
    BY <2>4, <2>6 DEF P, Sorted
  <2>. QED
    BY <2>1, <2>7
<1>4. ASSUME NEW n \in 0..(N - 1), n \in T PROVE n + 1 \in T
  <2>1. n \in 0..N /\ n + 1 \in 0..N /\ n + 1 \in 1..N /\ (n + 1) - 1 = n
    BY <1>1
  <2>2. P(n) /\ E(n) \in Seq(Nat) /\ E(n)[Len(E(n))] = b[n] /\ b[n + 1] \in Nat
    BY <1>2, <1>4, <2>1, Zenon
  <2>6. Len(E(n)) >= 1
    <3>1. Len(E(n)) = Len(BasesOf(a)[n]) + 1 /\ Len(BasesOf(a)[n]) \in Nat
      BY <1>2, <2>1, Zenon
    <3>. QED
      BY <3>1
  <2>3. b[n] <= b[n + 1]
    BY <1>2, <2>1 DEF Frames
  <2>4. E(n + 1) = E(n) \/ E(n + 1) = Append(E(n), b[n + 1])
    BY EdgesGrow DEF E
  <2>5. Sorted(Append(E(n), b[n + 1]))
    BY <2>2, <2>3, <2>6, SortedGrows DEF P
  <2>. QED
    BY <2>1, <2>2, <2>4, <2>5 DEF P
<1>. HIDE DEF T
<1>5. \A n \in 0..N : n \in T
  BY <1>1, <1>3, <1>4, Climb
<1>. QED
  BY <1>2, <1>5 DEF T, P, E

\* Activations above the k-th leave the bases up to its own alone.
LEMMA EdgesExtend ==
  ASSUME NEW a \in Seq(FrameType), NEW b \in [0..Len(a) -> Nat], NEW u, Frames(a, b, u),
         NEW k \in 0..Len(a)
  PROVE  \A n \in k..Len(a) : Extends(EdgesAt(a, b, n), EdgesAt(a, b, k))
<1>. DEFINE N == Len(a)
            E(n) == EdgesAt(a, b, n)
            T == {n \in 0..N : k <= n => Extends(E(n), E(k))}
<1>1. N \in Nat
  BY LenProperties
<1>2. \A n \in 0..N : E(n) \in Seq(Nat) /\ Len(E(n)) \in Nat /\ b[n] \in Nat
  BY EdgesSorted, LenProperties
<1>. HIDE DEF E
<1>3. Extends(E(k), E(k))
  BY <1>2 DEF Extends
<1>4. 0 \in T
  BY <1>1, <1>3
<1>5. ASSUME NEW n \in 0..(N - 1), n \in T PROVE n + 1 \in T
  <2>1. n \in 0..N /\ n + 1 \in 0..N
    BY <1>1
  <2>2. CASE k = n + 1
    BY <1>3, <2>1, <2>2
  <2>3. CASE k <= n
    <3>1. Extends(E(n), E(k))
      BY <1>5, <2>3
    <3>2. E(n + 1) = E(n) \/ E(n + 1) = Append(E(n), b[n + 1])
      BY EdgesGrow DEF E
    <3>3. Extends(Append(E(n), b[n + 1]), E(k))
      <4>1. /\ Len(Append(E(n), b[n + 1])) = Len(E(n)) + 1
            /\ \A i \in 1..Len(E(n)) : Append(E(n), b[n + 1])[i] = E(n)[i]
        BY <1>2, <2>1, AppendIs
      <4>2. Len(E(n)) \in Nat /\ Len(E(k)) \in Nat
        BY <1>2, <2>1
      <4>. QED
        BY <3>1, <4>1, <4>2 DEF Extends
    <3>. QED
      BY <2>1, <3>1, <3>2, <3>3
  <2>4. CASE k > n + 1
    BY <2>1, <2>4
  <2>. QED
    BY <2>1, <2>2, <2>3, <2>4
<1>. HIDE DEF T
<1>6. \A n \in 0..N : n \in T
  BY <1>1, <1>4, <1>5, Climb
<1>. QED
  BY <1>1, <1>6 DEF T, E

-----------------------------------------------------------------------------
(* Cutting the operand stack o at the edges f.                             *)

FramesOf(f, o) == [j \in 1..(Len(f) - 2) |-> SubSeq(o, f[j + 1] + 1, f[j + 2])]

\* Elements m + 1 .. n of a sequence.
LEMMA PartIs ==
  ASSUME NEW S, NEW s \in Seq(S), NEW m \in 0..Len(s), NEW n \in m..Len(s)
  PROVE  /\ SubSeq(s, m + 1, n) \in Seq(S) /\ Len(SubSeq(s, m + 1, n)) = n - m
         /\ \A i \in 1..(n - m) : SubSeq(s, m + 1, n)[i] = s[m + i]
<1>1. Len(s) \in Nat
  BY LenProperties
<1>2. \A i \in 1..Len(s) : s[i] \in S
  BY ElementOfSeq
<1>3. m + 1 \in 1..(Len(s) + 1) /\ n \in ((m + 1) - 1)..Len(s)
  BY <1>1
<1>. DEFINE p == m + 1
<1>4. /\ SubSeq(s, p, n) \in Seq(S) /\ Len(SubSeq(s, p, n)) = n - p + 1
      /\ \A i \in 1..(n - p + 1) : SubSeq(s, p, n)[i] = s[p + i - 1]
  <2>. HIDE DEF p
  <2>. QED
    BY <1>3, SubSeqProperties DEF p
<1>5. n - p + 1 = n - m /\ \A i \in 1..(n - m) : p + i - 1 = m + i
  BY <1>1
<1>. HIDE DEF p
<1>6. \A i \in 1..(n - m) : SubSeq(s, p, n)[i] = s[m + i]
  BY <1>4, <1>5
<1>. QED
  BY <1>4, <1>5, <1>6 DEF p

\* Sequences of the same length with the same elements are equal.
LEMMA SameSequence ==
  ASSUME NEW S, NEW s \in Seq(S), NEW t \in Seq(S), Len(s) = Len(t),
         \A i \in 1..Len(s) : s[i] = t[i]
  PROVE  s = t
  BY SeqEqual

\* The frames between sorted edges.
LEMMA FramesAre ==
  ASSUME NEW f \in Seq(Nat), Len(f) >= 2, Sorted(f), NEW o \in Seq(Values), f[Len(f)] = Len(o)
  PROVE  /\ FramesOf(f, o) \in Seq(Seq(Values)) /\ Len(FramesOf(f, o)) = Len(f) - 2
         /\ \A j \in 1..(Len(f) - 2) :
              /\ FramesOf(f, o)[j] = SubSeq(o, f[j + 1] + 1, f[j + 2])
              /\ f[j + 1] \in 0..Len(o) /\ f[j + 2] \in f[j + 1]..Len(o)
<1>. DEFINE n == Len(f)
            F == FramesOf(f, o)
<1>1. n \in Nat /\ Len(o) \in Nat /\ \A i \in 1..n : f[i] \in Nat
  BY LenProperties, ElementOfSeq
<1>2. ASSUME NEW j \in 1..(n - 2)
      PROVE  /\ f[j + 1] \in 0..Len(o) /\ f[j + 2] \in f[j + 1]..Len(o)
             /\ SubSeq(o, f[j + 1] + 1, f[j + 2]) \in Seq(Values)
  <2>1. j + 1 \in 1..n /\ j + 2 \in 1..n /\ n \in 1..n /\ j + 1 <= j + 2 /\ j + 2 <= n
    BY <1>1
  <2>2. f[j + 1] \in Nat /\ f[j + 2] \in Nat /\ f[j + 1] <= f[j + 2] /\ f[j + 2] <= f[n] /\ f[n] = Len(o)
    BY <1>1, <2>1 DEF Sorted
  <2>3. f[j + 1] \in 0..Len(o) /\ f[j + 2] \in f[j + 1]..Len(o)
    BY <1>1, <2>2
  <2>4. SubSeq(o, f[j + 1] + 1, f[j + 2]) \in Seq(Values)
    BY <2>3, PartIs
  <2>. QED
    BY <2>3, <2>4
<1>3. F = [j \in 1..(n - 2) |-> SubSeq(o, f[j + 1] + 1, f[j + 2])]
  BY DEF FramesOf
<1>4. n - 2 \in Nat
  BY <1>1
<1>. HIDE DEF n, F
<1>5. \A j \in 1..(n - 2) : F[j] = SubSeq(o, f[j + 1] + 1, f[j + 2])
  BY <1>3
<1>6. F \in [1..(n - 2) -> Seq(Values)]
  BY <1>2, <1>3
<1>7. F \in Seq(Seq(Values)) /\ Len(F) = n - 2
  <2>. DEFINE k == n - 2
              S == Seq(Values)
  <2>1. k \in Nat /\ F \in [1..k -> S]
    BY <1>4, <1>6
  <2>. HIDE DEF k, S
  <2>2. F \in Seq(S) /\ Len(F) = k
    BY <2>1
  <2>. QED
    BY <2>2 DEF k, S
<1>. QED
  BY <1>2, <1>5, <1>7 DEF n, F

\* Frames between edges that are kept, of operands that are kept, are kept.
LEMMA FramesKept ==
  ASSUME NEW f \in Seq(Nat), Len(f) >= 2, Sorted(f), NEW o \in Seq(Values), f[Len(f)] = Len(o),
         NEW f2 \in Seq(Nat), Len(f2) >= 2, Sorted(f2), NEW o2 \in Seq(Values), f2[Len(f2)] = Len(o2),
         NEW h \in Nat, h <= Len(f), h <= Len(f2), \A j \in 1..h : f2[j] = f[j],
         \A i \in 1..Len(o) : h >= 1 /\ i <= f[h] => o2[i] = o[i]
  PROVE  \A j \in 1..(h - 2) : FramesOf(f2, o2)[j] = FramesOf(f, o)[j]
<1>. SUFFICES ASSUME NEW j \in 1..(h - 2) PROVE FramesOf(f2, o2)[j] = FramesOf(f, o)[j]
  OBVIOUS
<1>. DEFINE p == f[j + 1]
            q == f[j + 2]
<1>1. Len(f) \in Nat /\ Len(f2) \in Nat /\ Len(o) \in Nat /\ Len(o2) \in Nat
  BY LenProperties
<1>2. /\ j \in 1..(Len(f) - 2) /\ j \in 1..(Len(f2) - 2) /\ j + 1 \in 1..h /\ j + 2 \in 1..h
      /\ j + 2 \in 1..Len(f) /\ h \in 1..Len(f) /\ j + 2 <= h /\ h >= 1
  BY <1>1
<1>3. f2[j + 1] = p /\ f2[j + 2] = q
  BY <1>2
<1>4. FramesOf(f, o)[j] = SubSeq(o, p + 1, q) /\ p \in 0..Len(o) /\ q \in p..Len(o)
  BY <1>2, FramesAre
<1>5. FramesOf(f2, o2)[j] = SubSeq(o2, p + 1, q) /\ p \in 0..Len(o2) /\ q \in p..Len(o2)
  BY <1>2, <1>3, FramesAre
<1>6. q <= f[h] /\ f[h] \in Nat
  BY <1>2, ElementOfSeq DEF Sorted
<1>. HIDE DEF p, q
<1>7. \A i \in 1..(q - p) : p + i \in 1..Len(o) /\ p + i <= f[h]
  <2>. DEFINE l == Len(o)
              g == f[h]
  <2>1. l \in Nat /\ g \in Nat /\ p \in 0..l /\ q \in p..l /\ q <= g
    BY <1>1, <1>4, <1>6
  <2>. HIDE DEF l, g
  <2>2. \A i \in 1..(q - p) : p + i \in 1..l /\ p + i <= g
    BY <2>1
  <2>. QED
    BY <2>2 DEF l, g
<1>8. \A i \in 1..(q - p) : o2[p + i] = o[p + i]
  BY <1>2, <1>7
<1>9. /\ SubSeq(o, p + 1, q) \in Seq(Values) /\ Len(SubSeq(o, p + 1, q)) = q - p
      /\ \A i \in 1..(q - p) : SubSeq(o, p + 1, q)[i] = o[p + i]
  BY <1>4, PartIs
<1>10. /\ SubSeq(o2, p + 1, q) \in Seq(Values) /\ Len(SubSeq(o2, p + 1, q)) = q - p
       /\ \A i \in 1..(q - p) : SubSeq(o2, p + 1, q)[i] = o2[p + i]
  BY <1>5, PartIs
<1>. DEFINE s == SubSeq(o, p + 1, q)
            t == SubSeq(o2, p + 1, q)
<1>11. \A i \in 1..(q - p) : t[i] = s[i]
  BY <1>8, <1>9, <1>10
<1>12. s \in Seq(Values) /\ t \in Seq(Values) /\ Len(s) = q - p /\ Len(t) = q - p
  BY <1>9, <1>10
<1>. HIDE DEF s, t
<1>13. s = t
  BY <1>11, <1>12, SameSequence
<1>. QED
  BY <1>4, <1>5, <1>13 DEF s, t

\* The operands o are cut into frames at the edges f.
Cuts(f, o) ==
  /\ f \in Seq(Nat) /\ Len(f) >= 2 /\ Sorted(f)
  /\ o \in Seq(Values) /\ f[Len(f)] = Len(o)

\* A frame holds the operands between its edges.
LEMMA FrameIs ==
  ASSUME NEW f, NEW o, Cuts(f, o), NEW j \in 1..(Len(f) - 2),
         NEW p, p = f[j + 1], NEW q, q = f[j + 2], NEW F, F = FramesOf(f, o)[j]
  PROVE  /\ p \in 0..Len(o) /\ q \in p..Len(o)
         /\ F \in Seq(Values) /\ Len(F) = q - p /\ \A i \in 1..(q - p) : F[i] = o[p + i]
<1>1. f \in Seq(Nat) /\ Len(f) >= 2 /\ Sorted(f) /\ o \in Seq(Values) /\ f[Len(f)] = Len(o)
  BY DEF Cuts
<1>2. F = SubSeq(o, p + 1, q) /\ p \in 0..Len(o) /\ q \in p..Len(o)
  BY <1>1, FramesAre
<1>. DEFINE G == SubSeq(o, p + 1, q)
<1>3. G \in Seq(Values) /\ Len(G) = q - p /\ \A i \in 1..(q - p) : G[i] = o[p + i]
  <2>1. o \in Seq(Values) /\ p \in 0..Len(o) /\ q \in p..Len(o)
    BY <1>1, <1>2
  <2>. QED
    BY ONLY <2>1, PartIs
<1>4. F = G
  BY <1>2
<1>. HIDE DEF G
<1>. QED
  BY <1>2, <1>3, <1>4

\* The top frame T begins at p and reaches to the end of the operands.
LEMMA TopFrame ==
  ASSUME NEW f, NEW o, Cuts(f, o), NEW m \in Nat, m >= 3, Len(f) = m,
         NEW p, p = f[m - 1], NEW T, T = FramesOf(f, o)[m - 2]
  PROVE  /\ FramesOf(f, o) \in Seq(Seq(Values)) /\ Len(FramesOf(f, o)) = m - 2
         /\ Len(o) \in Nat /\ p \in 0..Len(o) /\ T \in Seq(Values) /\ Len(T) = Len(o) - p
         /\ \A i \in 1..(Len(o) - p) : T[i] = o[p + i]
<1>. DEFINE j == m - 2
<1>1. f \in Seq(Nat) /\ Len(f) >= 2 /\ Sorted(f) /\ o \in Seq(Values) /\ f[m] = Len(o)
  BY DEF Cuts
<1>2. Len(o) \in Nat
  BY <1>1, LenProperties
<1>3. j \in 1..(m - 2) /\ j + 1 = m - 1 /\ j + 2 = m
  OBVIOUS
<1>4. FramesOf(f, o) \in Seq(Seq(Values)) /\ Len(FramesOf(f, o)) = m - 2
  BY <1>1, FramesAre
<1>. DEFINE q == Len(o)
<1>5. p = f[j + 1] /\ q = f[j + 2] /\ T = FramesOf(f, o)[j]
  BY <1>1, <1>3
<1>. HIDE DEF j, q
<1>6. /\ p \in 0..q /\ T \in Seq(Values) /\ Len(T) = q - p /\ \A i \in 1..(q - p) : T[i] = o[p + i]
  <2>1. j \in 1..(Len(f) - 2)
    BY <1>3
  <2>3. Cuts(f, o)
    OBVIOUS
  <2>2. T \in Seq(Values) /\ Len(T) = q - p /\ \A i \in 1..(q - p) : T[i] = o[p + i]
    BY ONLY <1>5, <2>1, <2>3, FrameIs
  <2>4. p \in 0..Len(o)
    BY ONLY <1>5, <2>1, <2>3, FrameIs
  <2>. QED
    BY <2>2, <2>4 DEF q
<1>. QED
  BY <1>2, <1>4, <1>6 DEF q

\* The first h edges and the operands below them are the same.
AgreeTo(f, o, f2, o2, h) ==
  /\ Cuts(f, o) /\ Cuts(f2, o2) /\ h \in 1..Len(f) /\ h <= Len(f2)
  /\ \A j \in 1..h : f2[j] = f[j]
  /\ \A i \in 1..f[h] : o2[i] = o[i]

\* As FramesKept, for edges that cut.
LEMMA CutsKept ==
  ASSUME NEW f, NEW o, NEW f2, NEW o2, NEW h, AgreeTo(f, o, f2, o2, h)
  PROVE  \A j \in 1..(h - 2) : FramesOf(f2, o2)[j] = FramesOf(f, o)[j]
<1>. USE DEF AgreeTo
<1>1. f \in Seq(Nat) /\ Len(f) >= 2 /\ Sorted(f) /\ o \in Seq(Values) /\ f[Len(f)] = Len(o)
  BY DEF Cuts
<1>2. f2 \in Seq(Nat) /\ Len(f2) >= 2 /\ Sorted(f2) /\ o2 \in Seq(Values) /\ f2[Len(f2)] = Len(o2)
  BY DEF Cuts
<1>3. Len(f) \in Nat /\ Len(o) \in Nat /\ f[h] \in Nat
  BY <1>1, LenProperties, ElementOfSeq
<1>4. h \in Nat /\ h <= Len(f) /\ h <= Len(f2)
  BY <1>3
<1>5. \A i \in 1..Len(o) : h >= 1 /\ i <= f[h] => o2[i] = o[i]
  <2>. SUFFICES ASSUME NEW i \in 1..Len(o), i <= f[h] PROVE o2[i] = o[i]
    OBVIOUS
  <2>1. i \in 1..f[h]
    BY <1>3
  <2>. QED
    BY <2>1
<1>. QED
  BY <1>1, <1>2, <1>4, <1>5, FramesKept

\* A sequence that begins with another has it as a prefix.
LEMMA PrefixIs ==
  ASSUME NEW S, NEW s \in Seq(S), NEW t \in Seq(S), Len(s) <= Len(t),
         \A i \in 1..Len(s) : t[i] = s[i]
  PROVE  CF!IsPrefix(s, t)
<1>. DEFINE n == Len(s)
            s1 == SubSeq(s, 1, n)
            t1 == SubSeq(t, 1, n)
<1>1. n \in Nat /\ Len(t) \in Nat
  BY LenProperties
<1>2. n \in 0..Len(s) /\ n \in 0..Len(t)
  BY <1>1
<1>3. s1 \in Seq(S) /\ Len(s1) = n /\ \A i \in 1..n : s1[i] = s[i]
  BY <1>2, Prefix
<1>4. t1 \in Seq(S) /\ Len(t1) = n /\ \A i \in 1..n : t1[i] = t[i]
  BY <1>2, Prefix
<1>. HIDE DEF s1, t1
<1>5. s1 = t1
  BY <1>3, <1>4, SameSequence
<1>. QED
  BY <1>5 DEF CF!IsPrefix, s1, t1

-----------------------------------------------------------------------------
(* What becomes of the frames when edges and operands change.              *)

\* execute: a frame more, above the others.
LEMMA FramesEnter ==
  ASSUME NEW f, NEW o, Cuts(f, o), NEW f2, NEW o2, Cuts(f2, o2),
         Len(f2) = Len(f) + 1, \A j \in 1..Len(f) : f2[j] = f[j],
         \A i \in 1..Len(o) : o2[i] = o[i]
  PROVE  /\ Len(FramesOf(f2, o2)) = Len(FramesOf(f, o)) + 1
         /\ CF!Front(FramesOf(f2, o2)) = FramesOf(f, o)
<1>. DEFINE m == Len(f)
            F == FramesOf(f, o)
            G == FramesOf(f2, o2)
<1>1. f \in Seq(Nat) /\ m >= 2 /\ Sorted(f) /\ o \in Seq(Values) /\ f[m] = Len(o)
  BY DEF Cuts
<1>2. f2 \in Seq(Nat) /\ Len(f2) >= 2 /\ Sorted(f2) /\ o2 \in Seq(Values) /\ f2[Len(f2)] = Len(o2)
  BY DEF Cuts
<1>3. m \in Nat /\ m \in 1..m
  BY <1>1, LenProperties
<1>4. F \in Seq(Seq(Values)) /\ Len(F) = m - 2
  BY <1>1, FramesAre
<1>5. G \in Seq(Seq(Values)) /\ Len(G) = m - 1
  <2>1. G \in Seq(Seq(Values)) /\ Len(G) = Len(f2) - 2
    BY <1>2, FramesAre
  <2>. QED
    BY <1>3, <2>1
<1>6. \A j \in 1..(m - 2) : G[j] = F[j]
  <2>1. m \in 1..Len(f) /\ m <= Len(f2) /\ \A j \in 1..m : f2[j] = f[j]
    BY <1>3
  <2>2. \A i \in 1..f[m] : o2[i] = o[i]
    BY <1>1
  <2>3. Cuts(f, o) /\ Cuts(f2, o2)
    OBVIOUS
  <2>. HIDE DEF m
  <2>4. AgreeTo(f, o, f2, o2, m)
    BY ONLY <2>1, <2>2, <2>3 DEF AgreeTo
  <2>. QED
    BY ONLY <2>4, CutsKept
<1>. HIDE DEF F, G, m
<1>7. Front(G) = F
  <2>1. Len(G) > 0 /\ Len(G) - 1 = m - 2
    BY <1>1, <1>3, <1>5
  <2>2. Front(G) \in Seq(Seq(Values)) /\ Len(Front(G)) = m - 2 /\ \A i \in 1..(m - 2) : Front(G)[i] = G[i]
    BY <1>5, <2>1, FrontIs
  <2>. QED
    BY <1>4, <1>6, <2>2, SameSequence
<1>8. Len(G) = Len(F) + 1
  BY <1>3, <1>4, <1>5
<1>. QED
  BY <1>7, <1>8 DEF F, G, CF!Front, Front

\* Of the edges f and the operands o, those of the first q frames are left.
LeftOf(f, o, f2, o2, q) ==
  /\ Cuts(f, o) /\ Cuts(f2, o2) /\ q \in Nat /\ Len(f2) = q + 2 /\ Len(f2) <= Len(f)
  /\ \A j \in 1..(q + 2) : f2[j] = f[j]
  /\ \A i \in 1..Len(o2) : o2[i] = o[i]

\* The end of an execute: q frames are left.
LEMMA FramesLeave ==
  ASSUME NEW f, NEW o, NEW f2, NEW o2, NEW q, LeftOf(f, o, f2, o2, q)
  PROVE  FramesOf(f2, o2) = SubSeq(FramesOf(f, o), 1, q)
<1>. USE DEF LeftOf
<1>. DEFINE F == FramesOf(f, o)
            G == FramesOf(f2, o2)
            S == SubSeq(F, 1, q)
<1>1. f \in Seq(Nat) /\ Len(f) >= 2 /\ Sorted(f) /\ o \in Seq(Values) /\ f[Len(f)] = Len(o)
  BY DEF Cuts
<1>2. f2 \in Seq(Nat) /\ Len(f2) >= 2 /\ Sorted(f2) /\ o2 \in Seq(Values) /\ f2[q + 2] = Len(o2)
  BY DEF Cuts
<1>3. Len(f) \in Nat
  BY <1>1, LenProperties
<1>4. F \in Seq(Seq(Values)) /\ Len(F) = Len(f) - 2
  BY <1>1, FramesAre
<1>5. G \in Seq(Seq(Values)) /\ Len(G) = q
  <2>1. G \in Seq(Seq(Values)) /\ Len(G) = Len(f2) - 2
    BY <1>2, FramesAre
  <2>. QED
    BY <2>1
<1>6. \A j \in 1..q : G[j] = F[j]
  <2>. DEFINE h == q + 2
  <2>1. h \in 1..Len(f) /\ h <= Len(f2) /\ h - 2 = q /\ \A j \in 1..h : f2[j] = f[j]
    BY <1>3
  <2>2. f[h] = Len(o2)
    BY <1>2
  <2>. HIDE DEF h
  <2>3. \A i \in 1..f[h] : o2[i] = o[i]
    BY <2>2
  <2>4. AgreeTo(f, o, f2, o2, h)
    BY <2>1, <2>3 DEF AgreeTo
  <2>. QED
    BY ONLY <2>1, <2>4, CutsKept
<1>. HIDE DEF F, G
<1>7. q \in 0..Len(F)
  BY <1>3, <1>4
<1>8. S \in Seq(Seq(Values)) /\ Len(S) = q /\ \A i \in 1..q : S[i] = F[i]
  BY <1>4, <1>7, Prefix
<1>. HIDE DEF S
<1>9. G = S
  BY <1>5, <1>6, <1>8, SameSequence
<1>. QED
  BY <1>9 DEF F, G, S

\* Edges below the top frame, and operands up to it, are the same.
SameBelow(f, o, f2, o2, m) ==
  /\ Cuts(f, o) /\ Cuts(f2, o2) /\ Len(f) = m /\ Len(f2) = m
  /\ \A j \in 1..(m - 1) : f2[j] = f[j]
  /\ \A i \in 1..f[m - 1] : o2[i] = o[i]

\* Then only the top frame changes.
LEMMA FramesTop ==
  ASSUME NEW f, NEW o, NEW f2, NEW o2, NEW m \in Nat, m >= 3, SameBelow(f, o, f2, o2, m)
  PROVE  /\ Len(FramesOf(f2, o2)) = Len(FramesOf(f, o)) /\ FramesOf(f, o) # <<>>
         /\ CF!Front(FramesOf(f2, o2)) = CF!Front(FramesOf(f, o))
         /\ Len(FramesOf(f, o)) = m - 2
<1>. DEFINE F == FramesOf(f, o)
            G == FramesOf(f2, o2)
            h == m - 1
<1>1. Cuts(f, o) /\ Len(f) = m /\ Cuts(f2, o2) /\ Len(f2) = m
  BY DEF SameBelow
<1>2. F \in Seq(Seq(Values)) /\ Len(F) = m - 2 /\ G \in Seq(Seq(Values)) /\ Len(G) = m - 2
  BY <1>1, TopFrame
<1>3. h \in 1..m /\ h <= m /\ h - 2 = m - 3
  OBVIOUS
<1>4. \A j \in 1..h : f2[j] = f[j]
  BY DEF SameBelow
<1>5. \A i \in 1..f[h] : o2[i] = o[i]
  BY DEF SameBelow
<1>. HIDE DEF h
<1>6. \A j \in 1..(m - 3) : G[j] = F[j]
  <2>1. AgreeTo(f, o, f2, o2, h)
    BY <1>1, <1>3, <1>4, <1>5 DEF AgreeTo
  <2>. QED
    BY ONLY <1>3, <2>1, CutsKept
<1>. HIDE DEF F, G
<1>7. Len(F) > 0 /\ Len(G) > 0 /\ Len(F) - 1 = m - 3 /\ Len(G) - 1 = m - 3
  BY <1>2
<1>8. /\ Front(F) \in Seq(Seq(Values)) /\ Len(Front(F)) = m - 3
      /\ \A i \in 1..(m - 3) : Front(F)[i] = F[i]
  BY <1>2, <1>7, FrontIs
<1>9. /\ Front(G) \in Seq(Seq(Values)) /\ Len(Front(G)) = m - 3
      /\ \A i \in 1..(m - 3) : Front(G)[i] = G[i]
  BY <1>2, <1>7, FrontIs
<1>10. Front(G) = Front(F)
  <2>. DEFINE s == Front(G)
              t == Front(F)
  <2>1. \A i \in 1..(m - 3) : s[i] = t[i]
    BY <1>6, <1>8, <1>9
  <2>2. s \in Seq(Seq(Values)) /\ t \in Seq(Seq(Values)) /\ Len(s) = m - 3 /\ Len(t) = m - 3
    BY <1>8, <1>9
  <2>. HIDE DEF s, t
  <2>3. s = t
    BY <2>1, <2>2, SameSequence
  <2>. QED
    BY <2>3 DEF s, t
<1>11. F # <<>>
  BY <1>2, <1>7, EmptyIs
<1>. QED
  BY <1>2, <1>10, <1>11 DEF F, G, CF!Front, Front

\* Instructions and host functions: k operands of the top frame are replaced
\* by at most one.
LEMMA FramesCompute ==
  ASSUME NEW f, NEW o, NEW f2, NEW o2, NEW m \in Nat, m >= 3, SameBelow(f, o, f2, o2, m),
         NEW k \in Nat, f[m - 1] + k <= Len(o),
         Len(o2) >= Len(o) - k, Len(o2) <= Len(o) - k + 1,
         \A i \in 1..(Len(o) - k) : o2[i] = o[i]
  PROVE  LET old == FramesOf(f, o)[m - 2]
             new == FramesOf(f2, o2)[m - 2] IN
         k \in 0..Len(old) /\ CF!IsPrefix(CF!Drop(old, k), new) /\ Len(new) <= Len(old) - k + 1
<1>. DEFINE old == FramesOf(f, o)[m - 2]
            new == FramesOf(f2, o2)[m - 2]
            p == f[m - 1]
            n == Len(o)
            n2 == Len(o2)
            l == (n - p) - k
            d == SubSeq(old, 1, Len(old) - k)
<1>1. m \in Nat /\ m >= 3 /\ Cuts(f, o) /\ Len(f) = m /\ p = f[m - 1] /\ old = FramesOf(f, o)[m - 2]
  BY DEF SameBelow
<1>2. m \in Nat /\ m >= 3 /\ Cuts(f2, o2) /\ Len(f2) = m /\ p = f2[m - 1] /\ new = FramesOf(f2, o2)[m - 2]
  BY DEF SameBelow
<1>. HIDE DEF old, new, p
<1>3. /\ n \in Nat /\ p \in 0..n /\ old \in Seq(Values) /\ Len(old) = n - p
      /\ \A i \in 1..(n - p) : old[i] = o[p + i]
  BY ONLY <1>1, TopFrame
<1>4. /\ n2 \in Nat /\ p \in 0..n2 /\ new \in Seq(Values) /\ Len(new) = n2 - p
      /\ \A i \in 1..(n2 - p) : new[i] = o2[p + i]
  BY ONLY <1>2, TopFrame
<1>. HIDE DEF n, n2
<1>5. p + k <= n /\ n2 >= n - k /\ n2 <= n - k + 1 /\ \A i \in 1..(n - k) : o2[i] = o[i]
  BY DEF p, n, n2
<1>6. k \in 0..Len(old) /\ l \in 0..Len(old) /\ l <= n2 - p /\ n2 - p <= (n - p) - k + 1
      /\ Len(old) - k = l /\ \A i \in 1..l : i \in 1..(n - p) /\ i \in 1..(n2 - p) /\ p + i \in 1..(n - k)
  BY <1>3, <1>5, <1>4
<1>7. d \in Seq(Values) /\ Len(d) = l /\ \A i \in 1..l : d[i] = old[i]
  <2>1. d = SubSeq(old, 1, l)
    BY <1>6
  <2>. HIDE DEF l, d
  <2>2. SubSeq(old, 1, l) \in Seq(Values) /\ Len(SubSeq(old, 1, l)) = l
        /\ \A i \in 1..l : SubSeq(old, 1, l)[i] = old[i]
    BY <1>3, <1>6, Prefix
  <2>. QED
    BY <2>1, <2>2
<1>. HIDE DEF l, d
<1>8. \A i \in 1..l : new[i] = d[i]
  BY <1>3, <1>5, <1>6, <1>7, <1>4
<1>9. CF!IsPrefix(d, new)
  BY <1>6, <1>7, <1>8, <1>4, PrefixIs
<1>10. Len(new) <= Len(old) - k + 1
  BY <1>3, <1>6, <1>4
<1>. QED
  BY <1>6, <1>9, <1>10 DEF CF!Drop, d, old, new

\* The last operand has replaced operand y.
SetAt(o, o2, y) ==
  /\ Len(o2) = Len(o) - 1
  /\ \A j \in 1..(Len(o) - 1) : o2[j] = IF j = y THEN o[Len(o)] ELSE o[j]

SetIn(old, new, i) ==
  i \in 1..(Len(old) - 1) /\ new = [CF!Front(old) EXCEPT ![i] = CF!Last(old)]

\* set_local: the last operand of the top frame replaces its operand i.
LEMMA FramesSetLocal ==
  ASSUME NEW f, NEW o, NEW f2, NEW o2, NEW m \in Nat, m >= 3, SameBelow(f, o, f2, o2, m),
         NEW i \in Nat, i >= 1, f[m - 1] + i < Len(o), SetAt(o, o2, f[m - 1] + i)
  PROVE  SetIn(FramesOf(f, o)[m - 2], FramesOf(f2, o2)[m - 2], i)
<1>. DEFINE old == FramesOf(f, o)[m - 2]
            new == FramesOf(f2, o2)[m - 2]
            p == f[m - 1]
            n == Len(o)
            n2 == Len(o2)
            d == Front(old)
            e == [d EXCEPT ![i] = old[Len(old)]]
<1>1. m \in Nat /\ m >= 3 /\ Cuts(f, o) /\ Len(f) = m /\ p = f[m - 1] /\ old = FramesOf(f, o)[m - 2]
  BY DEF SameBelow
<1>2. m \in Nat /\ m >= 3 /\ Cuts(f2, o2) /\ Len(f2) = m /\ p = f2[m - 1] /\ new = FramesOf(f2, o2)[m - 2]
  BY DEF SameBelow
<1>. HIDE DEF old, new, p
<1>3. /\ n \in Nat /\ p \in 0..n /\ old \in Seq(Values) /\ Len(old) = n - p
      /\ \A k \in 1..(n - p) : old[k] = o[p + k]
  BY ONLY <1>1, TopFrame
<1>4. /\ n2 \in Nat /\ p \in 0..n2 /\ new \in Seq(Values) /\ Len(new) = n2 - p
      /\ \A k \in 1..(n2 - p) : new[k] = o2[p + k]
  BY ONLY <1>2, TopFrame
<1>. HIDE DEF n, n2
<1>5. /\ p + i < n /\ n2 = n - 1
      /\ \A j \in 1..(n - 1) : o2[j] = IF j = p + i THEN o[n] ELSE o[j]
  BY DEF SetAt, p, n, n2
<1>. DEFINE l == n - p - 1
<1>6. l \in Nat /\ i \in 1..l /\ n2 - p = l /\ Len(old) > 0 /\ Len(old) - 1 = l /\ Len(old) = l + 1
      /\ l + 1 \in 1..(n - p) /\ p + (l + 1) = n
      /\ \A k \in 1..l : k \in 1..(n - p) /\ p + k \in 1..(n - 1) /\ (p + k = p + i <=> k = i)
  BY <1>3, <1>4, <1>5
<1>. HIDE DEF l
<1>7. d \in Seq(Values) /\ Len(d) = l /\ \A k \in 1..l : d[k] = old[k]
  BY <1>3, <1>6, FrontIs
<1>8. old[Len(old)] \in Values /\ old[Len(old)] = o[n]
  BY <1>3, <1>6, ElementOfSeq
<1>. HIDE DEF d
<1>9. /\ e \in Seq(Values) /\ Len(e) = l
      /\ \A k \in 1..l : e[k] = IF k = i THEN old[Len(old)] ELSE d[k]
  <2>. DEFINE x == old[Len(old)]
  <2>. HIDE DEF x
  <2>1. d \in [1..l -> Values] /\ x \in Values /\ e = [d EXCEPT ![i] = x]
    BY <1>6, <1>7, <1>8 DEF x
  <2>2. e \in [1..l -> Values] /\ \A k \in 1..l : e[k] = IF k = i THEN x ELSE d[k]
    BY <1>6, <2>1
  <2>. HIDE DEF e
  <2>3. e \in Seq(Values) /\ Len(e) = l
    BY <1>6, <2>2
  <2>. QED
    BY <2>2, <2>3 DEF x
<1>. HIDE DEF e
<1>10. \A k \in 1..l : new[k] = e[k]
  <2>. SUFFICES ASSUME NEW k \in 1..l PROVE new[k] = e[k]
    OBVIOUS
  <2>1. k \in 1..(n - p) /\ k \in 1..(n2 - p) /\ p + k \in 1..(n - 1)
    BY <1>6
  <2>2. new[k] = o2[p + k] /\ old[k] = o[p + k]
    BY <1>3, <1>4, <2>1
  <2>3. o2[p + k] = IF p + k = p + i THEN o[n] ELSE o[p + k]
    BY <1>5, <2>1
  <2>4. p + k = p + i <=> k = i
    BY <1>6
  <2>5. e[k] = IF k = i THEN o[n] ELSE o[p + k]
    BY <1>7, <1>8, <1>9, <2>2
  <2>. QED
    BY <2>2, <2>3, <2>4, <2>5
<1>11. new = e
  <2>1. Len(new) = l
    BY <1>4, <1>6
  <2>. QED
    BY <1>4, <1>9, <1>10, <2>1, SameSequence
<1>12. i \in 1..(Len(old) - 1)
  BY <1>6
<1>. QED
  BY <1>11, <1>12 DEF SetIn, CF!Front, CF!Last, Front, old, new, d, e

CalledWith(F, G, k) ==
  /\ Len(G) = Len(F) + 1 /\ k \in 0..Len(CF!Last(F))
  /\ CF!Front(G) = Append(CF!Front(F), CF!Drop(CF!Last(F), k))
  /\ CF!IsPrefix(CF!Keep(CF!Last(F), k), CF!Last(G))
  /\ \A i \in (k + 1)..Len(CF!Last(G)) : CF!Last(G)[i] = Zero

\* A call: the last k operands of the top frame, and zeros after them, become
\* a frame of their own.
LEMMA FramesCall ==
  ASSUME NEW f, NEW o, Cuts(f, o), NEW f2, NEW o2, Cuts(f2, o2),
         NEW m \in Nat, m >= 3, Len(f) = m, Len(f2) = m + 1, \A j \in 1..(m - 1) : f2[j] = f[j],
         NEW k \in Nat, f[m - 1] + k <= Len(o), f2[m] = Len(o) - k,
         Len(o2) >= Len(o), \A i \in 1..Len(o) : o2[i] = o[i],
         \A i \in (Len(o) + 1)..Len(o2) : o2[i] = Zero
  PROVE  CalledWith(FramesOf(f, o), FramesOf(f2, o2), k)
<1>. DEFINE F == FramesOf(f, o)
            G == FramesOf(f2, o2)
            top == F[m - 2]
            callee == G[m - 1]
            p == f[m - 1]
            q == f2[m]
            n == Len(o)
            n2 == Len(o2)
            l == n - p
<1>1. m \in Nat /\ m >= 3 /\ Cuts(f, o) /\ Len(f) = m /\ p = f[m - 1] /\ top = FramesOf(f, o)[m - 2]
  OBVIOUS
<1>2. /\ m + 1 \in Nat /\ m + 1 >= 3 /\ Cuts(f2, o2) /\ Len(f2) = m + 1
      /\ q = f2[(m + 1) - 1] /\ callee = FramesOf(f2, o2)[(m + 1) - 2]
  OBVIOUS
<1>. HIDE DEF top, callee, p, q
<1>3. /\ F \in Seq(Seq(Values)) /\ Len(F) = m - 2
      /\ n \in Nat /\ p \in 0..n /\ top \in Seq(Values) /\ Len(top) = n - p
      /\ \A i \in 1..(n - p) : top[i] = o[p + i]
  <2>1. F \in Seq(Seq(Values)) /\ Len(F) = m - 2
    BY ONLY <1>1, TopFrame
  <2>2. n \in Nat /\ p \in 0..n /\ top \in Seq(Values) /\ Len(top) = n - p
        /\ \A i \in 1..(n - p) : top[i] = o[p + i]
    BY ONLY <1>1, TopFrame
  <2>. QED
    BY <2>1, <2>2
<1>4. /\ G \in Seq(Seq(Values)) /\ Len(G) = m - 1
      /\ n2 \in Nat /\ q \in 0..n2 /\ callee \in Seq(Values) /\ Len(callee) = n2 - q
      /\ \A i \in 1..(n2 - q) : callee[i] = o2[q + i]
  <2>. DEFINE r == m + 1
  <2>1. /\ r \in Nat /\ r >= 3 /\ Cuts(f2, o2) /\ Len(f2) = r
        /\ q = f2[r - 1] /\ callee = FramesOf(f2, o2)[r - 2]
    BY <1>2
  <2>. HIDE DEF r
  <2>2. /\ G \in Seq(Seq(Values)) /\ Len(G) = r - 2
        /\ n2 \in Nat /\ q \in 0..n2 /\ callee \in Seq(Values) /\ Len(callee) = n2 - q
        /\ \A i \in 1..(n2 - q) : callee[i] = o2[q + i]
    BY ONLY <2>1, TopFrame
  <2>3. r - 2 = m - 1
    BY DEF r
  <2>. QED
    BY <2>2, <2>3
<1>5. p + k <= n /\ q = n - k /\ n2 >= n
  BY DEF p, q
<1>6. \A i \in 1..n : o2[i] = o[i]
  OBVIOUS
<1>7. \A i \in (n + 1)..n2 : o2[i] = Zero
  OBVIOUS
<1>8. /\ m - 2 \in 1..((m + 1) - 2) /\ (m - 2) + 1 = m - 1 /\ (m - 2) + 2 = m
  OBVIOUS
\* the caller's frame
<1>. DEFINE g == G[m - 2]
            d == SubSeq(top, 1, Len(top) - k)
<1>9. g \in Seq(Values) /\ Len(g) = q - p /\ \A i \in 1..(q - p) : g[i] = o2[p + i]
  <2>. DEFINE j == m - 2
  <2>1. j \in 1..(Len(f2) - 2) /\ p = f2[j + 1] /\ q = f2[j + 2] /\ g = FramesOf(f2, o2)[j]
    <3>1. m - 1 \in 1..(m - 1)
      OBVIOUS
    <3>. QED
      BY <1>8, <3>1 DEF p, q
  <2>2. Cuts(f2, o2)
    OBVIOUS
  <2>. HIDE DEF j, g
  <2>. QED
    BY ONLY <2>1, <2>2, FrameIs
<1>10. \A j \in 1..(m - 3) : G[j] = F[j]
  <2>. DEFINE h == m - 1
  <2>1. h \in 1..Len(f) /\ h <= Len(f2) /\ h - 2 = m - 3 /\ \A j \in 1..h : f2[j] = f[j]
    OBVIOUS
  <2>2. f[h] = p
    BY DEF p
  <2>. HIDE DEF h
  <2>3. \A i \in 1..p : i \in 1..n
    BY <1>3
  <2>4. \A i \in 1..f[h] : o2[i] = o[i]
    BY <1>6, <2>2, <2>3
  <2>5. Cuts(f, o) /\ Cuts(f2, o2)
    OBVIOUS
  <2>6. AgreeTo(f, o, f2, o2, h)
    BY ONLY <2>1, <2>4, <2>5 DEF AgreeTo
  <2>. QED
    BY ONLY <2>1, <2>6, CutsKept
<1>. HIDE DEF F, G, g, n, n2
<1>11. d \in Seq(Values) /\ Len(d) = l - k /\ \A i \in 1..(l - k) : d[i] = top[i]
  <2>. DEFINE c == l - k
  <2>1. c \in 0..Len(top) /\ d = SubSeq(top, 1, c)
    BY <1>3, <1>5
  <2>. HIDE DEF c, d
  <2>2. SubSeq(top, 1, c) \in Seq(Values) /\ Len(SubSeq(top, 1, c)) = c
        /\ \A i \in 1..c : SubSeq(top, 1, c)[i] = top[i]
    BY <1>3, <2>1, Prefix
  <2>. QED
    BY <2>1, <2>2 DEF c
<1>. HIDE DEF d
<1>12. g = d
  <2>1. q - p = l - k /\ l - k \in Nat
        /\ \A i \in 1..(l - k) : p + i \in 1..n /\ i \in 1..(n - p)
    BY <1>3, <1>5
  <2>. HIDE DEF l
  <2>2. ASSUME NEW i \in 1..(l - k) PROVE g[i] = d[i]
    <3>1. p + i \in 1..n /\ i \in 1..(n - p) /\ i \in 1..(q - p)
      BY <2>1
    <3>2. g[i] = o2[p + i] /\ d[i] = top[i]
      BY <1>9, <1>11, <3>1
    <3>3. top[i] = o[p + i] /\ o2[p + i] = o[p + i]
      BY <1>3, <1>6, <3>1
    <3>. QED
      BY <3>2, <3>3
  <2>. QED
    BY <1>9, <1>11, <2>1, <2>2, SameSequence
\* all frames below the callee's
<1>13. Front(G) = Append(Front(F), d)
  <2>. DEFINE s == Front(G)
              r == Front(F)
              t == Append(r, d)
  <2>1. Len(G) > 0 /\ Len(F) > 0 /\ Len(G) - 1 = m - 2 /\ Len(F) - 1 = m - 3
    <3>1. Len(G) = m - 1 /\ Len(F) = m - 2
      BY <1>3, <1>4
    <3>. QED
      BY <3>1
  <2>2. s \in Seq(Seq(Values)) /\ Len(s) = m - 2 /\ \A i \in 1..(m - 2) : s[i] = G[i]
    <3>1. G \in Seq(Seq(Values))
      BY <1>4
    <3>. QED
      BY ONLY <2>1, <3>1, FrontIs
  <2>3. r \in Seq(Seq(Values)) /\ Len(r) = m - 3 /\ \A i \in 1..(m - 3) : r[i] = F[i]
    <3>1. F \in Seq(Seq(Values))
      BY <1>3
    <3>. QED
      BY ONLY <2>1, <3>1, FrontIs
  <2>. HIDE DEF s, r
  <2>4. t \in Seq(Seq(Values)) /\ Len(t) = m - 2 /\ t[m - 2] = d /\ \A i \in 1..(m - 3) : t[i] = r[i]
    <3>1. r \in Seq(Seq(Values)) /\ d \in Seq(Values)
      BY <1>11, <2>3
    <3>2. t \in Seq(Seq(Values)) /\ Len(t) = Len(r) + 1 /\ t[Len(r) + 1] = d
          /\ \A i \in 1..Len(r) : t[i] = r[i]
      BY ONLY <3>1, AppendIs
    <3>. HIDE DEF t
    <3>3. Len(r) = m - 3 /\ Len(r) + 1 = m - 2
      BY <2>3
    <3>. QED
      BY <3>2, <3>3
  <2>. HIDE DEF t
  <2>5. ASSUME NEW i \in 1..(m - 2) PROVE s[i] = t[i]
    <3>1. i \in 1..(m - 3) \/ i = m - 2
      OBVIOUS
    <3>2. CASE i \in 1..(m - 3)
      BY <1>10, <2>2, <2>3, <2>4, <3>2
    <3>3. CASE i = m - 2
      BY <1>12, <2>2, <2>4, <3>3 DEF g
    <3>. QED
      BY <3>1, <3>2, <3>3
  <2>6. s = t
    BY <2>2, <2>4, <2>5, SameSequence
  <2>. QED
    BY <2>6 DEF s, t, r
\* the callee's frame
<1>. DEFINE c == SubSeq(top, Len(top) - k + 1, Len(top))
<1>14. c \in Seq(Values) /\ Len(c) = k /\ \A i \in 1..k : c[i] = top[(l - k) + i]
  <2>. DEFINE x == l - k
              y == Len(top)
  <2>1. x \in 0..Len(top) /\ y \in x..Len(top) /\ y - x = k /\ c = SubSeq(top, x + 1, y)
    <3>1. Len(top) = l /\ l \in Nat /\ k <= l
      BY <1>3, <1>5
    <3>. HIDE DEF l
    <3>2. x \in 0..l /\ l - x = k /\ l - k + 1 = x + 1
      BY <3>1
    <3>3. c = SubSeq(top, l - k + 1, l)
      BY <3>1
    <3>. QED
      BY <3>1, <3>2, <3>3
  <2>2. top \in Seq(Values)
    BY <1>3
  <2>. HIDE DEF x, y, c
  <2>3. SubSeq(top, x + 1, y) \in Seq(Values) /\ Len(SubSeq(top, x + 1, y)) = y - x
        /\ \A i \in 1..(y - x) : SubSeq(top, x + 1, y)[i] = top[x + i]
    BY ONLY <2>1, <2>2, PartIs
  <2>. QED
    BY <2>1, <2>3 DEF x
<1>. HIDE DEF c
<1>15. CF!IsPrefix(c, callee)
  <2>1. k <= n2 - q /\ \A i \in 1..k : i \in 1..(n2 - q) /\ q + i \in 1..n
           /\ (l - k) + i \in 1..(n - p) /\ p + ((l - k) + i) = q + i
    <3>1. n \in Nat /\ n2 \in Nat /\ p \in 0..n /\ k \in Nat /\ p + k <= n /\ q = n - k /\ n2 >= n
      BY <1>3, <1>4, <1>5
    <3>. QED
      BY ONLY <3>1
  <2>2. ASSUME NEW i \in 1..k PROVE callee[i] = c[i]
    <3>1. callee[i] = o2[q + i] /\ o2[q + i] = o[q + i]
      BY <1>4, <1>6, <2>1
    <3>2. c[i] = o[p + ((l - k) + i)]
      <4>. HIDE DEF l
      <4>. QED
        BY <1>3, <1>14, <2>1
    <3>. QED
      BY <2>1, <3>1, <3>2
  <2>. QED
    BY <1>4, <1>14, <2>1, <2>2, PrefixIs
<1>16. \A i \in (k + 1)..Len(callee) : callee[i] = Zero
  <2>. SUFFICES ASSUME NEW i \in (k + 1)..Len(callee) PROVE callee[i] = Zero
    OBVIOUS
  <2>1. i \in 1..(n2 - q) /\ q + i \in (n + 1)..n2
    <3>1. i \in (k + 1)..(n2 - q)
      BY <1>4
    <3>. QED
      BY <1>3, <1>4, <1>5, <3>1
  <2>. QED
    BY <1>4, <1>7, <2>1
<1>17. k \in 0..Len(top) /\ Len(G) = Len(F) + 1 /\ top = F[Len(F)] /\ callee = G[Len(G)]
  <2>1. k \in 0..Len(top) /\ Len(G) = Len(F) + 1 /\ Len(F) = m - 2 /\ Len(G) = m - 1
    <3>1. n \in Nat /\ p \in 0..n /\ k \in Nat /\ p + k <= n /\ Len(top) = n - p
      BY <1>3, <1>5
    <3>2. k \in 0..Len(top)
      BY ONLY <3>1
    <3>3. m \in Nat /\ Len(F) = m - 2 /\ Len(G) = m - 1
      BY <1>3, <1>4
    <3>. QED
      BY ONLY <3>2, <3>3
  <2>. QED
    BY <2>1 DEF top, callee
<1>18. CF!Last(F) = top /\ CF!Last(G) = callee
  BY <1>17 DEF CF!Last
<1>19. CF!Front(G) = Append(CF!Front(F), CF!Drop(top, k)) /\ CF!Keep(top, k) = c
  BY <1>13 DEF CF!Front, Front, CF!Drop, CF!Keep, c, d
<1>. QED
  BY <1>15, <1>16, <1>17, <1>18, <1>19 DEF CalledWith, F, G

ReturnedWith(F, G, k) ==
  /\ Len(G) = Len(F) - 1 /\ k <= Len(CF!Last(F))
  /\ G = Append(SubSeq(F, 1, Len(F) - 2), F[Len(F) - 1] \o CF!Keep(CF!Last(F), k))

\* A return: the top frame goes, and its last k operands to the one below.
LEMMA FramesReturn ==
  ASSUME NEW f, NEW o, Cuts(f, o), NEW f2, NEW o2, Cuts(f2, o2),
         NEW m \in Nat, m >= 4, Len(f) = m, Len(f2) = m - 1, \A j \in 1..(m - 2) : f2[j] = f[j],
         NEW k \in 0..1, f[m - 1] + k <= Len(o), Len(o2) = f[m - 1] + k,
         \A i \in 1..f[m - 1] : o2[i] = o[i],
         k = 1 => o2[f[m - 1] + 1] = o[Len(o)]
  PROVE  Len(FramesOf(f, o)) = m - 2 /\ ReturnedWith(FramesOf(f, o), FramesOf(f2, o2), k)
<1>. DEFINE F == FramesOf(f, o)
            G == FramesOf(f2, o2)
            top == F[m - 2]
            g == G[m - 3]
            c == F[m - 3]
            p == f[m - 1]
            r == f[m - 2]
            n == Len(o)
            n2 == Len(o2)
<1>1. m \in Nat /\ m >= 3 /\ Cuts(f, o) /\ Len(f) = m /\ p = f[m - 1] /\ top = FramesOf(f, o)[m - 2]
  OBVIOUS
<1>2. /\ m - 1 \in Nat /\ m - 1 >= 3 /\ Cuts(f2, o2) /\ Len(f2) = m - 1
      /\ r = f2[(m - 1) - 1] /\ g = FramesOf(f2, o2)[(m - 1) - 2]
  OBVIOUS
<1>3. /\ m - 3 \in 1..(Len(f) - 2) /\ Cuts(f, o)
      /\ r = f[(m - 3) + 1] /\ p = f[(m - 3) + 2] /\ c = FramesOf(f, o)[m - 3]
  OBVIOUS
<1>. HIDE DEF top, c, g, p, r
<1>4. F \in Seq(Seq(Values)) /\ Len(F) = m - 2
  BY ONLY <1>1, TopFrame
<1>5. /\ n \in Nat /\ p \in 0..n /\ top \in Seq(Values) /\ Len(top) = n - p
      /\ \A i \in 1..(n - p) : top[i] = o[p + i]
  BY ONLY <1>1, TopFrame
<1>6. /\ G \in Seq(Seq(Values)) /\ Len(G) = m - 3
      /\ n2 \in Nat /\ r \in 0..n2 /\ g \in Seq(Values) /\ Len(g) = n2 - r
      /\ \A i \in 1..(n2 - r) : g[i] = o2[r + i]
  <2>. DEFINE x == m - 1
  <2>1. /\ x \in Nat /\ x >= 3 /\ Cuts(f2, o2) /\ Len(f2) = x
        /\ r = f2[x - 1] /\ g = FramesOf(f2, o2)[x - 2]
    BY <1>2
  <2>. HIDE DEF x
  <2>2. G \in Seq(Seq(Values)) /\ Len(G) = x - 2
    BY ONLY <2>1, TopFrame
  <2>3. /\ n2 \in Nat /\ r \in 0..n2 /\ g \in Seq(Values) /\ Len(g) = n2 - r
        /\ \A i \in 1..(n2 - r) : g[i] = o2[r + i]
    BY ONLY <2>1, TopFrame
  <2>4. x - 2 = m - 3
    BY DEF x
  <2>. QED
    BY <2>2, <2>3, <2>4
<1>7. /\ r \in 0..n /\ p \in r..n /\ c \in Seq(Values) /\ Len(c) = p - r
      /\ \A i \in 1..(p - r) : c[i] = o[r + i]
  <2>. DEFINE x == m - 3
  <2>1. x \in 1..(Len(f) - 2) /\ Cuts(f, o) /\ r = f[x + 1] /\ p = f[x + 2] /\ c = FramesOf(f, o)[x]
    BY <1>3
  <2>. HIDE DEF x
  <2>2. r \in 0..n /\ p \in r..n
    BY ONLY <2>1, FrameIs
  <2>3. c \in Seq(Values) /\ Len(c) = p - r /\ \A i \in 1..(p - r) : c[i] = o[r + i]
    BY ONLY <2>1, FrameIs
  <2>. QED
    BY <2>2, <2>3
<1>8. p + k <= n /\ n2 = p + k /\ (\A i \in 1..p : o2[i] = o[i]) /\ (k = 1 => o2[p + 1] = o[n])
  BY DEF p
<1>9. \A j \in 1..(m - 4) : G[j] = F[j]
  <2>. DEFINE h == m - 2
  <2>1. h \in 1..Len(f) /\ h <= Len(f2) /\ h - 2 = m - 4 /\ \A j \in 1..h : f2[j] = f[j]
    OBVIOUS
  <2>2. f[h] = r
    BY DEF r
  <2>. HIDE DEF h
  <2>3. \A i \in 1..r : i \in 1..p
    BY <1>5, <1>7
  <2>4. \A i \in 1..f[h] : o2[i] = o[i]
    BY <1>8, <2>2, <2>3
  <2>5. Cuts(f, o) /\ Cuts(f2, o2)
    OBVIOUS
  <2>6. AgreeTo(f, o, f2, o2, h)
    BY ONLY <2>1, <2>4, <2>5 DEF AgreeTo
  <2>. QED
    BY ONLY <2>1, <2>6, CutsKept
<1>. HIDE DEF F, G, n, n2
<1>. DEFINE w == SubSeq(top, Len(top) - k + 1, Len(top))
            v == c \o w
<1>10. n \in Nat /\ n2 \in Nat /\ p \in 0..n /\ r \in 0..p /\ p + k <= n /\ n2 = p + k
  BY <1>5, <1>6, <1>7, <1>8
<1>11. w \in Seq(Values) /\ Len(w) = k /\ (k = 1 => w[1] = o[n])
  <2>. DEFINE y == Len(top)
              x == y - k
  <2>1. x \in 0..y /\ y \in x..y /\ y - x = k /\ y - k + 1 = x + 1 /\ y = n - p
        /\ (k = 1 => x + 1 = n - p /\ n - p \in 1..(n - p) /\ p + (n - p) = n)
    <3>1. k \in 0..1 /\ y = n - p
      BY <1>5
    <3>. HIDE DEF y
    <3>. QED
      BY ONLY <1>10, <3>1
  <2>2. top \in Seq(Values) /\ x \in 0..Len(top) /\ y \in x..Len(top)
    BY <1>5, <2>1
  <2>3. w = SubSeq(top, x + 1, y)
    BY <2>1
  <2>. HIDE DEF x, y, w
  <2>4. SubSeq(top, x + 1, y) \in Seq(Values) /\ Len(SubSeq(top, x + 1, y)) = y - x
        /\ \A i \in 1..(y - x) : SubSeq(top, x + 1, y)[i] = top[x + i]
    BY ONLY <2>2, PartIs
  <2>5. k = 1 => w[1] = top[x + 1]
    <3>1. k = 1 => 1 \in 1..(y - x)
      BY <2>1
    <3>. QED
      BY ONLY <2>3, <2>4, <3>1
  <2>6. k = 1 => top[x + 1] = o[n]
    BY <1>5, <2>1
  <2>. QED
    BY <2>1, <2>3, <2>4, <2>5, <2>6
<1>. HIDE DEF w
<1>12. /\ v \in Seq(Values) /\ Len(v) = (p - r) + k
       /\ \A i \in 1..(p - r) : v[i] = c[i]
       /\ k = 1 => v[(p - r) + 1] = w[1]
  <2>. DEFINE x == Len(c)
  <2>1. v \in Seq(Values) /\ Len(v) = x + k /\ x \in Nat
    <3>1. c \in Seq(Values) /\ w \in Seq(Values) /\ Len(w) = k /\ v = c \o w
      BY <1>7, <1>11
    <3>. HIDE DEF v
    <3>. QED
      BY ONLY <3>1, ConcatProperties, LenProperties
  <2>2. \A i \in 1..Len(v) : v[i] = IF i <= x THEN c[i] ELSE w[i - x]
    BY <1>7, <1>11, ConcatProperties
  <2>. HIDE DEF x, v
  <2>3. \A i \in 1..x : v[i] = c[i]
    BY <2>1, <2>2
  <2>4. k = 1 => v[x + 1] = w[1]
    <3>1. k = 1 => x + 1 \in 1..Len(v) /\ ~(x + 1 <= x) /\ (x + 1) - x = 1
      BY <2>1
    <3>. QED
      BY <2>2, <3>1
  <2>5. x = p - r
    BY <1>7 DEF x
  <2>. QED
    BY <2>1, <2>3, <2>4, <2>5
<1>. HIDE DEF v
<1>13. g = v
  <2>1. n2 - r = (p - r) + k /\ \A i \in 1..(n2 - r) :
             (i \in 1..(p - r) /\ r + i \in 1..p) \/ (k = 1 /\ i = (p - r) + 1 /\ r + i = p + 1)
    <3>1. k \in 0..1
      OBVIOUS
    <3>. QED
      BY ONLY <1>10, <3>1
  <2>2. ASSUME NEW i \in 1..(n2 - r) PROVE g[i] = v[i]
    <3>1. g[i] = o2[r + i]
      BY <1>6
    <3>2. CASE i \in 1..(p - r) /\ r + i \in 1..p
      BY <1>7, <1>8, <1>12, <3>1, <3>2
    <3>3. CASE k = 1 /\ i = (p - r) + 1 /\ r + i = p + 1
      BY <1>8, <1>11, <1>12, <3>1, <3>3
    <3>. QED
      BY <2>1, <3>2, <3>3
  <2>3. g \in Seq(Values) /\ v \in Seq(Values) /\ Len(g) = n2 - r /\ Len(v) = n2 - r
    BY <1>6, <1>12, <2>1
  <2>. QED
    BY ONLY <2>2, <2>3, SameSequence
<1>14. G = Append(SubSeq(F, 1, Len(F) - 2), v)
  <2>. DEFINE x == m - 4
              s == SubSeq(F, 1, x)
              t == Append(s, v)
  <2>1. x \in 0..Len(F) /\ Len(F) - 2 = x /\ x + 1 = m - 3 /\ x \in Nat
    <3>1. m \in Nat /\ m >= 4 /\ Len(F) = m - 2
      BY <1>4
    <3>. QED
      BY ONLY <3>1
  <2>2. \A j \in 1..x : G[j] = F[j]
    BY <1>9
  <2>. HIDE DEF x
  <2>3. s \in Seq(Seq(Values)) /\ Len(s) = x /\ \A i \in 1..x : s[i] = F[i]
    <3>1. F \in Seq(Seq(Values))
      BY <1>4
    <3>. QED
      BY ONLY <2>1, <3>1, Prefix
  <2>. HIDE DEF s
  <2>4. t \in Seq(Seq(Values)) /\ Len(t) = x + 1 /\ t[x + 1] = v /\ \A i \in 1..x : t[i] = s[i]
    BY <1>12, <2>3, AppendIs
  <2>. HIDE DEF t
  <2>5. ASSUME NEW i \in 1..(x + 1) PROVE G[i] = t[i]
    <3>1. i \in 1..x \/ i = x + 1
      BY <2>1
    <3>2. CASE i \in 1..x
      BY <2>2, <2>3, <2>4, <3>2
    <3>3. CASE i = x + 1
      BY <1>13, <2>1, <2>4, <3>3 DEF g
    <3>. QED
      BY <3>1, <3>2, <3>3
  <2>6. G \in Seq(Seq(Values)) /\ t \in Seq(Seq(Values)) /\ Len(G) = x + 1 /\ Len(t) = x + 1
    BY <1>6, <2>1, <2>4
  <2>7. G = t
    BY ONLY <2>5, <2>6, SameSequence
  <2>. QED
    BY <2>1, <2>7 DEF s, t
<1>15. Len(F) = m - 2 /\ Len(G) = Len(F) - 1 /\ k <= Len(top)
  <2>1. Len(F) = m - 2 /\ Len(G) = m - 3 /\ Len(top) = n - p /\ m \in Nat /\ k \in 0..1
    BY <1>4, <1>5, <1>6
  <2>. QED
    BY ONLY <1>10, <2>1
<1>16. top = F[Len(F)] /\ c = F[Len(F) - 1]
  <2>1. Len(F) = m - 2 /\ Len(F) - 1 = m - 3
    BY <1>4
  <2>. QED
    BY <2>1 DEF top, c
<1>17. CF!Last(F) = top /\ v = F[Len(F) - 1] \o CF!Keep(top, k)
  BY <1>16 DEF CF!Last, CF!Keep, w, v
<1>. QED
  BY <1>14, <1>15, <1>17 DEF ReturnedWith, F, G

-----------------------------------------------------------------------------
(* Edges and frames of the machine.                                        *)

AllBases(a)     == BasesOf(a)[Len(a)]
Count(a)        == Len(AllBases(a))
CutAt(a, l, o)  == AllBases(a) \o <<l, Len(o)>>

\* Edges f are those of activations a with _last_op_index l and operands o.
HasEdges(f, a, l, o) ==
  /\ Cuts(f, o)
  /\ AllBases(a) \in Seq(Nat) /\ Count(a) \in Nat /\ l \in Nat
  /\ Len(f) = Count(a) + 2 /\ f[Count(a) + 1] = l /\ f[Count(a) + 2] = Len(o)
  /\ \A j \in 1..Count(a) : f[j] = AllBases(a)[j]

\* Saved bases never decrease, and the operands reach beyond the last.
LEMMA CutsAt ==
  ASSUME NEW a \in Seq(FrameType), NEW b \in [0..Len(a) -> Nat], NEW u, Frames(a, b, u),
         NEW o \in Seq(Values), NEW l \in Nat, l = b[Len(a)], l <= Len(o)
  PROVE  HasEdges(CutAt(a, l, o), a, l, o)
         /\ CutAt(a, l, o) = Append(EdgesAt(a, b, Len(a)), Len(o))
<1>. DEFINE B == AllBases(a)
            n == Len(o)
            f == CutAt(a, l, o)
            e == Append(B, l)
            c == Len(B)
<1>1. Len(a) \in Nat /\ n \in Nat /\ Len(a) \in 0..Len(a)
  BY LenProperties
<1>2. B \in Seq(Nat)
  BY <1>1, BasesAre DEF AllBases
<1>3. c \in Nat
  BY <1>2, LenProperties
<1>4. e = EdgesAt(a, b, Len(a))
  BY DEF EdgesAt, AllBases
<1>5. e \in Seq(Nat) /\ Sorted(e)
  BY <1>1, <1>4, EdgesSorted
<1>6. Len(e) = c + 1 /\ e[c + 1] = l /\ \A j \in 1..c : e[j] = B[j]
  BY <1>2, AppendIs
<1>. HIDE DEF B, c
<1>7. f = Append(e, n)
  <2>1. f = B \o <<l, n>>
    BY DEF CutAt, B
  <2>2. B \o <<l, n>> = Append(Append(B, l), n)
    <3>. HIDE DEF n
    <3>. QED
      BY <1>1, <1>2
  <2>. QED
    BY <2>1, <2>2
<1>. HIDE DEF e, n, f
<1>8. /\ f \in Seq(Nat) /\ Len(f) = Len(e) + 1 /\ f[Len(e) + 1] = n
      /\ \A j \in 1..Len(e) : f[j] = e[j]
  BY <1>1, <1>5, <1>7, AppendIs
<1>9. Sorted(f)
  <2>1. Len(e) >= 1 /\ e[Len(e)] <= n
    BY <1>3, <1>6 DEF n
  <2>. QED
    BY <1>1, <1>5, <1>7, <2>1, SortedGrows
<1>10. Len(f) = c + 2 /\ f[c + 2] = n /\ Len(f) >= 2
  <2>1. Len(e) + 1 = c + 2
    BY <1>3, <1>6
  <2>. QED
    BY <1>3, <1>8, <2>1
<1>11. f[c + 1] = l /\ \A j \in 1..c : f[j] = B[j]
  <2>1. c + 1 \in 1..Len(e) /\ \A j \in 1..c : j \in 1..Len(e)
    BY <1>3, <1>6
  <2>. QED
    BY <1>6, <1>8, <2>1
<1>12. Cuts(f, o)
  BY <1>8, <1>9, <1>10 DEF Cuts, n
<1>. QED
  BY <1>2, <1>3, <1>4, <1>7, <1>10, <1>11, <1>12 DEF HasEdges, Count, B, c, n, f

\* The definitions of the refinement mapping, in these terms.
EdgeInv ==
  /\ Edges = CutAt(acts, last, os) /\ ActFrames = FramesOf(Edges, os)
  /\ HasEdges(Edges, acts, last, os) /\ acts \in Seq(FrameType)

\* They hold whenever CallInv does.
LEMMA EdgesNow == CallInv => EdgeInv
<1>. SUFFICES ASSUME CallInv PROVE EdgeInv
  OBVIOUS
<1>1. Bases = BasesOf(acts)
  BY DEF Bases, BasesOf, BasesBody, BasesStep
<1>2. Edges = CutAt(acts, last, os)
  BY <1>1 DEF Edges, CutAt, AllBases
<1>3. ActFrames = FramesOf(Edges, os)
  BY DEF ActFrames, FramesOf
<1>4. PICK b \in [0..Len(acts) -> Nat], u \in [0..Len(acts) -> Nat] :
        /\ Frames(acts, b, u)
        /\ Current(native, st, last, remaining, Len(acts), Len(os), acts, b, u)
  BY DEF CallInv
<1>5. os \in Seq(Values) /\ acts \in Seq(FrameType) /\ last \in Nat
  BY Typed
<1>6. last = b[Len(acts)] /\ last <= Len(os)
  <2>1. CASE InCode
    <3>1. ~Idle
      BY <2>1 DEF InCode
    <3>. QED
      BY <1>4, <2>1, <3>1, CodeFacts, Within, Typed
  <2>2. CASE Idle \/ HostTop
    BY <1>4, <1>5, <2>2, OutsideCode, LenProperties
  <2>. QED
    BY <2>1, <2>2, Tops, Typed
<1>7. HasEdges(CutAt(acts, last, os), acts, last, os)
  BY <1>4, <1>5, <1>6, CutsAt
<1>. QED
  BY <1>2, <1>3, <1>5, <1>7 DEF EdgeInv

\* The activation that was begun last.
LEMMA BasesGrow ==
  ASSUME NEW a \in Seq(FrameType), NEW x \in FrameType
  PROVE  AllBases(Append(a, x)) = IF x.pc = "null" THEN AllBases(a) ELSE Append(AllBases(a), x.last)
<1>. DEFINE n == Len(a)
            a2 == Append(a, x)
<1>1. n \in Nat
  BY LenProperties
<1>2. a2 \in Seq(FrameType) /\ Len(a2) = n + 1 /\ a2[n + 1] = x /\ \A k \in 1..n : a2[k] = a[k]
  BY AppendIs
<1>. HIDE DEF n, a2
<1>3. BasesOf(a2)[n] = BasesOf(a)[n]
  <2>1. n <= Len(a) /\ n <= Len(a2) /\ n \in 0..n
    BY <1>1, <1>2 DEF n
  <2>. QED
    BY <1>1, <1>2, <2>1, BasesAgree
<1>4. BasesOf(a2)[n + 1] = BasesStep(a2, BasesOf(a2), n + 1)
  <2>1. n + 1 \in 1..Len(a2)
    BY <1>1, <1>2
  <2>. QED
    BY <1>2, <2>1, BasesAre
<1>5. BasesStep(a2, BasesOf(a2), n + 1)
        = IF x.pc = "null" THEN BasesOf(a)[n] ELSE Append(BasesOf(a)[n], x.last)
  <2>1. (n + 1) - 1 = n
    BY <1>1
  <2>. QED
    BY <1>2, <1>3, <2>1 DEF BasesStep
<1>6. AllBases(a2) = BasesOf(a2)[n + 1] /\ AllBases(a) = BasesOf(a)[n]
  BY <1>2 DEF AllBases, n
<1>. QED
  BY <1>4, <1>5, <1>6 DEF a2

\* The first n activations on their own.
LEMMA BasesCut ==
  ASSUME NEW a \in Seq(FrameType), NEW n \in 0..Len(a)
  PROVE  AllBases(SubSeq(a, 1, n)) = BasesOf(a)[n]
<1>. DEFINE a2 == SubSeq(a, 1, n)
<1>1. Len(a) \in Nat
  BY LenProperties
<1>2. a2 \in Seq(FrameType) /\ Len(a2) = n /\ \A k \in 1..n : a2[k] = a[k]
  BY Prefix
<1>. HIDE DEF a2
<1>3. n \in Nat /\ n <= Len(a) /\ n <= Len(a2) /\ n \in 0..n
  BY <1>1, <1>2
<1>4. BasesOf(a2)[n] = BasesOf(a)[n]
  BY <1>2, <1>3, BasesAgree
<1>. QED
  BY <1>2, <1>4 DEF AllBases, a2

\* The activation that was begun last, taken away.
LEMMA BasesFront ==
  ASSUME NEW a \in Seq(FrameType), Len(a) > 0
  PROVE  AllBases(a) = IF a[Len(a)].pc = "null" THEN AllBases(Front(a))
                       ELSE Append(AllBases(Front(a)), a[Len(a)].last)
<1>. DEFINE n == Len(a)
            m == n - 1
<1>1. n \in Nat /\ m \in 0..n /\ n \in 1..n
  BY LenProperties
<1>2. AllBases(Front(a)) = BasesOf(a)[m]
  <2>1. m \in 0..Len(a) /\ Front(a) = SubSeq(a, 1, m)
    BY <1>1 DEF Front
  <2>. HIDE DEF m, n
  <2>. QED
    BY <2>1, BasesCut
<1>3. AllBases(a) = BasesStep(a, BasesOf(a), n)
  BY <1>1, BasesAre DEF AllBases
<1>. HIDE DEF n
<1>. QED
  BY <1>2, <1>3 DEF BasesStep, n

\* An activation with operands of its own counts, whatever was begun since.
LEMMA CountGrows ==
  ASSUME NEW a \in Seq(FrameType), NEW b \in [0..Len(a) -> Nat], NEW u, Frames(a, b, u),
         NEW k \in 0..(Len(a) - 1), a[k + 1].pc # "null"
  PROVE  /\ Len(BasesOf(a)[k]) \in Nat /\ Len(BasesOf(a)[k]) + 1 <= Count(a)
         /\ BasesOf(a)[k + 1] = EdgesAt(a, b, k)
<1>. DEFINE n == Len(a)
            c == Len(BasesOf(a)[k])
            d == Len(BasesOf(a)[k + 1])
            e == Len(BasesOf(a)[n])
<1>1. n \in Nat /\ n \in 0..n /\ k \in 0..n /\ k + 1 \in 0..n /\ n \in (k + 1)..n
  BY LenProperties
<1>2. BasesOf(a)[k + 1] = EdgesAt(a, b, k)
  BY EdgesGrow
<1>3. c \in Nat /\ Len(EdgesAt(a, b, k)) = c + 1
  BY <1>1, EdgesSorted
<1>4. d \in Nat /\ Len(EdgesAt(a, b, k + 1)) = d + 1
  BY <1>1, EdgesSorted
<1>5. e \in Nat /\ Len(EdgesAt(a, b, n)) = e + 1
  BY <1>1, EdgesSorted
<1>6. Len(EdgesAt(a, b, k + 1)) <= Len(EdgesAt(a, b, n))
  BY <1>1, EdgesExtend DEF Extends
<1>7. d = c + 1
  BY <1>2, <1>3
<1>. HIDE DEF c, d, e
<1>8. c + 1 <= e
  BY <1>3, <1>4, <1>5, <1>6, <1>7
<1>. QED
  BY <1>2, <1>3, <1>8 DEF c, e, n, Count, AllBases

\* The innermost execute has an activation with operands of its own.
LEMMA CountNow ==
  ASSUME CallInv, ~Idle
  PROVE  /\ st.as_index \in Nat /\ st.as_index < Len(acts) /\ Len(acts) \in Nat
         /\ Len(BasesOf(acts)[st.as_index]) \in Nat
         /\ Len(BasesOf(acts)[st.as_index]) + 1 <= Count(acts)
<1>1. PICK b \in [0..Len(acts) -> Nat], u \in [0..Len(acts) -> Nat] :
        /\ Frames(acts, b, u)
        /\ Current(native, st, last, remaining, Len(acts), Len(os), acts, b, u)
  BY DEF CallInv
<1>2. acts \in Seq(FrameType) /\ Len(acts) \in Nat
  BY Typed
<1>3. st.as_index \in Nat /\ st.as_index < Len(acts)
  BY <1>1, Within, Typed
<1>4. acts[st.as_index + 1].pc = "halt"
  <2>1. CASE InCode
    BY <1>1, <2>1, CodeFacts DEF Level
  <2>2. CASE HostTop
    <3>1. AtHost(native[Len(native)], native[Len(native) - 1], st, last, remaining,
                 Len(acts), Len(os), acts, b, u)
      BY <1>1, <2>2, OutsideCode
    <3>. QED
      BY <3>1 DEF AtHost, FromCode, Direct, Level
  <2>. QED
    BY <2>1, <2>2, Tops, Typed
<1>5. st.as_index \in 0..(Len(acts) - 1)
  BY <1>2, <1>3
<1>. DEFINE k == st.as_index
<1>6. k \in 0..(Len(acts) - 1) /\ acts[k + 1].pc # "null"
  BY <1>4, <1>5
<1>. HIDE DEF k
<1>7. Len(BasesOf(acts)[k]) \in Nat /\ Len(BasesOf(acts)[k]) + 1 <= Count(acts)
  BY <1>1, <1>2, <1>6, CountGrows
<1>. QED
  BY <1>2, <1>3, <1>7 DEF k

CountInv ==
  ~Idle => st.as_index < Len(acts) /\ Len(BasesOf(acts)[st.as_index]) + 1 <= Count(acts)

\* The same, for a state after a step.
LEMMA CountThen == CallInv => CountInv
  BY CountNow DEF CountInv

-----------------------------------------------------------------------------
(* Marks of the open executes.                                             *)

Opens(nat)         == (Len(nat) + 1) \div 2
AsOf(nat, s, i)    == IF i = Opens(nat) THEN s.as_index ELSE nat[2 * i + 1].st.as_index
MarksOf(nat, s, a) == [i \in 1..Opens(nat) |-> Len(BasesOf(a)[AsOf(nat, s, i)])]

\* Half of an even number, or more by a half of an odd one.
LEMMA Half ==
  ASSUME NEW n \in Nat
  PROVE  (n + 1) \div 2 \in Nat /\ (n = 2 * ((n + 1) \div 2) \/ n = 2 * ((n + 1) \div 2) - 1)
  OBVIOUS

\* Executes are the odd elements of the C++ stack.
LEMMA OddExecutes ==
  ASSUME NEW nat \in Seq(NativeType), Alternate(nat), NEW h \in Nat
  PROVE  /\ 2 * h + 1 <= Len(nat) => IsExecute(nat, 2 * h + 1)
         /\ 2 * h + 2 <= Len(nat) => ~IsExecute(nat, 2 * h + 2)
<1>. DEFINE N == Len(nat)
            P(i) == /\ 2 * i + 1 <= N => IsExecute(nat, 2 * i + 1)
                    /\ 2 * i + 2 <= N => ~IsExecute(nat, 2 * i + 2)
            T == {i \in 0..h : P(i)}
<1>1. N \in Nat
  BY LenProperties
<1>2. \A i \in 1..N : nat[i].kind \in {"execute", "host"}
  <2>1. \A i \in 1..N : nat[i] \in NativeType
    BY ElementOfSeq
  <2>. QED
    BY <2>1 DEF NativeType
<1>3. (N > 0 => nat[1].kind = "execute") /\ \A i \in 2..N : nat[i].kind # nat[i - 1].kind
  BY DEF Alternate
<1>. HIDE DEF N
<1>4. ASSUME NEW j \in 1..N, nat[j].kind = "execute", j + 1 <= N PROVE nat[j + 1].kind = "host"
  <2>1. j + 1 \in 2..N /\ j + 1 \in 1..N /\ (j + 1) - 1 = j
    BY <1>1, <1>4
  <2>. QED
    BY <1>2, <1>3, <1>4, <2>1
<1>5. ASSUME NEW j \in 1..N, nat[j].kind = "host", j + 1 <= N PROVE nat[j + 1].kind = "execute"
  <2>1. j + 1 \in 2..N /\ j + 1 \in 1..N /\ (j + 1) - 1 = j
    BY <1>1, <1>5
  <2>. QED
    BY <1>2, <1>3, <1>5, <2>1
<1>6. ASSUME NEW i \in Nat, 2 * i + 1 <= N => nat[2 * i + 1].kind = "execute"
      PROVE  P(i)
  <2>. DEFINE j == 2 * i + 1
  <2>1. j \in Nat /\ j >= 1 /\ 2 * i + 2 = j + 1
    OBVIOUS
  <2>2. ASSUME j + 1 <= N PROVE nat[j + 1].kind = "host"
    <3>1. j \in 1..N
      BY <1>1, <2>1, <2>2
    <3>2. nat[j].kind = "execute"
      BY <1>6, <3>1
    <3>. HIDE DEF j
    <3>. QED
      BY <1>4, <2>2, <3>1, <3>2
  <2>. QED
    BY <1>6, <2>1, <2>2 DEF IsExecute
<1>7. 0 \in T
  <2>1. 2 * 0 + 1 = 1
    OBVIOUS
  <2>2. 2 * 0 + 1 <= N => nat[2 * 0 + 1].kind = "execute"
    BY <1>1, <1>3, <2>1
  <2>. HIDE DEF P
  <2>. QED
    BY <1>6, <2>2
<1>8. ASSUME NEW i \in 0..(h - 1), i \in T PROVE i + 1 \in T
  <2>. DEFINE j == 2 * i + 2
  <2>1. i \in Nat /\ i + 1 \in Nat /\ i + 1 \in 0..h /\ 2 * (i + 1) + 1 = j + 1 /\ j \in Nat /\ j >= 1
    OBVIOUS
  <2>2. ASSUME j + 1 <= N PROVE nat[j + 1].kind = "execute"
    <3>1. j \in 1..N
      BY <1>1, <2>1, <2>2
    <3>2. nat[j].kind = "host"
      BY <1>2, <1>8, <3>1 DEF IsExecute
    <3>. HIDE DEF j
    <3>. QED
      BY <1>5, <2>2, <3>1, <3>2
  <2>3. 2 * (i + 1) + 1 <= N => nat[2 * (i + 1) + 1].kind = "execute"
    BY <2>1, <2>2
  <2>. HIDE DEF P
  <2>. QED
    BY <1>6, <2>1, <2>3
<1>. HIDE DEF T
<1>9. \A i \in 0..h : i \in T
  BY <1>7, <1>8, Climb
<1>. QED
  BY <1>9 DEF T, N

\* Marks m are those of the C++ stack nat, in state s with activations a: each
\* execute began with no more activations than the innermost.
HasMarks(m, nat, s, a) ==
  /\ Opens(nat) \in Nat
  /\ \A i \in 1..Opens(nat) : AsOf(nat, s, i) \in 0..s.as_index
  /\ m \in Seq(Nat) /\ Len(m) = Opens(nat)
  /\ \A i \in 1..Opens(nat) : m[i] = Len(BasesOf(a)[AsOf(nat, s, i)])

\* How long the C++ stack is, in executes.
Depth(nat, inCode) == Len(nat) = IF inCode THEN 2 * Opens(nat) - 1 ELSE 2 * Opens(nat)

MarkInv == HasMarks(ExecuteMarks, native, st, acts) /\ Depth(native, InCode)

\* The same for the marks.
LEMMA MarksNow == CallInv => MarkInv
<1>. SUFFICES ASSUME CallInv PROVE MarkInv
  OBVIOUS
<1>. DEFINE N == Len(native)
            h == Opens(native)
            M == ExecuteMarks
<1>1. native \in Seq(NativeType) /\ Alternate(native) /\ N \in Nat /\ TypeInv /\ Nested(native, st)
      /\ acts \in Seq(FrameType) /\ Len(acts) \in Nat /\ st \in StateType
  BY Typed
<1>2. h \in Nat /\ (N = 2 * h \/ N = 2 * h - 1)
  BY <1>1, Half DEF Opens
<1>3. Depth(native, InCode)
  <2>1. InCode <=> N > 0 /\ IsExecute(native, N)
    BY <1>1, Tops DEF IsExecute
  <2>. HIDE DEF N, h
  <2>2. CASE N = 2 * h - 1
    <3>. DEFINE j == h - 1
    <3>1. j \in Nat /\ 2 * j + 1 = N
      BY <1>1, <1>2, <2>2
    <3>. HIDE DEF j
    <3>2. IsExecute(native, 2 * j + 1)
      <4>1. 2 * j + 1 <= Len(native)
        BY <1>1, <3>1 DEF N
      <4>. QED
        BY <1>1, <3>1, <4>1, OddExecutes
    <3>3. InCode
      BY <1>1, <2>1, <3>1, <3>2
    <3>. QED
      BY <2>2, <3>3 DEF Depth, N, h
  <2>3. CASE N = 2 * h
    <3>. DEFINE j == h - 1
    <3>1. h # 0 => j \in Nat /\ 2 * j + 2 = N
      BY <1>2, <2>3
    <3>. HIDE DEF j
    <3>2. h # 0 => ~IsExecute(native, 2 * j + 2)
      <4>. SUFFICES ASSUME h # 0 PROVE ~IsExecute(native, 2 * j + 2)
        OBVIOUS
      <4>1. 2 * j + 2 <= Len(native) /\ j \in Nat
        BY <1>1, <3>1 DEF N
      <4>. QED
        BY <1>1, <4>1, OddExecutes
    <3>3. h = 0 => N = 0
      BY <2>3
    <3>4. ~InCode
      BY <2>1, <3>1, <3>2, <3>3
    <3>. QED
      BY <2>3, <3>4 DEF Depth, N, h
  <2>. QED
    BY <1>2, <2>2, <2>3
<1>4. ASSUME NEW i \in 1..h
      PROVE  AsOf(native, st, i) \in 0..st.as_index /\ AsOf(native, st, i) \in 0..Len(acts)
  <2>. DEFINE j == 2 * (i - 1) + 1
  <2>. HIDE DEF N, h
  <2>1. i \in Nat /\ i - 1 \in Nat /\ j \in Nat /\ j \in 1..N /\ j + 2 = 2 * i + 1
        /\ (j + 2 <= N <=> i # h)
    BY <1>1, <1>2
  <2>2. ~Idle
    BY <1>1, <2>1, Tops DEF N
  <2>3. IsExecute(native, j)
    <3>1. 2 * (i - 1) + 1 <= Len(native)
      BY <1>1, <2>1 DEF N
    <3>. QED
      BY <1>1, <2>1, <3>1, OddExecutes
  <2>. HIDE DEF j
  <2>4. AsOf(native, st, i) = StateIn(j, native, st).as_index
    BY <2>1 DEF AsOf, StateIn, N, h
  <2>5. PICK b \in [0..Len(acts) -> Nat], u \in [0..Len(acts) -> Nat] :
          Current(native, st, last, remaining, Len(acts), Len(os), acts, b, u)
    BY DEF CallInv
  <2>6. /\ st.as_index \in Nat /\ st.as_index < Len(acts)
        /\ StateIn(j, native, st).as_index <= st.as_index
    <3>1. j \in 1..Len(native)
      BY <2>1 DEF N
    <3>. QED
      BY <1>1, <2>2, <2>3, <2>5, <3>1, Within
  <2>7. StateIn(j, native, st).as_index \in Nat
    <3>1. j \in 1..Len(native)
      BY <2>1 DEF N
    <3>. QED
      BY <1>1, <3>1, StateInType
  <2>. QED
    BY <1>1, <2>4, <2>6, <2>7
<1>5. M = MarksOf(native, st, acts)
  <2>1. Bases = BasesOf(acts)
    BY DEF Bases, BasesOf, BasesBody, BasesStep
  <2>2. OpenExecutes = Opens(native) /\ \A i : AsIndex(i) = AsOf(native, st, i)
    BY DEF OpenExecutes, Opens, AsIndex, AsOf
  <2>. QED
    BY <2>1, <2>2 DEF ExecuteMarks, MarksOf
<1>6. \A i \in 1..h : Len(BasesOf(acts)[AsOf(native, st, i)]) \in Nat
  <2>. SUFFICES ASSUME NEW i \in 1..h PROVE Len(BasesOf(acts)[AsOf(native, st, i)]) \in Nat
    OBVIOUS
  <2>1. BasesOf(acts)[AsOf(native, st, i)] \in Seq(Nat)
    BY <1>1, <1>4, BasesAre
  <2>. QED
    BY <2>1, LenProperties
<1>7. M \in Seq(Nat) /\ Len(M) = h /\ \A i \in 1..h : M[i] = Len(BasesOf(acts)[AsOf(native, st, i)])
  <2>1. M = [i \in 1..h |-> Len(BasesOf(acts)[AsOf(native, st, i)])]
    BY <1>5 DEF MarksOf
  <2>. HIDE DEF M, h
  <2>2. M \in [1..h -> Nat] /\ \A i \in 1..h : M[i] = Len(BasesOf(acts)[AsOf(native, st, i)])
    BY <1>6, <2>1
  <2>3. M \in Seq(Nat) /\ Len(M) = h
    BY <1>2, <2>2
  <2>. QED
    BY <2>2, <2>3
<1>. HIDE DEF h, M
<1>8. HasMarks(M, native, st, acts)
  BY <1>2, <1>4, <1>7 DEF HasMarks, h
<1>. QED
  BY <1>3, <1>8 DEF MarkInv, M

\* Executes that began at the same activation, below which nothing differs,
\* have the same mark.
LEMMA MarksAgree ==
  ASSUME NEW m, NEW nat, NEW s, NEW a \in Seq(FrameType), HasMarks(m, nat, s, a),
         NEW m2, NEW nat2, NEW s2, NEW a2 \in Seq(FrameType), HasMarks(m2, nat2, s2, a2),
         NEW n \in Nat, n <= Len(a), n <= Len(a2), \A k \in 1..n : a2[k] = a[k],
         NEW i \in 1..Opens(nat), i \in 1..Opens(nat2),
         AsOf(nat2, s2, i) = AsOf(nat, s, i), AsOf(nat, s, i) \in 0..n
  PROVE  m2[i] = m[i]
<1>. DEFINE x == AsOf(nat, s, i)
<1>1. m[i] = Len(BasesOf(a)[x]) /\ m2[i] = Len(BasesOf(a2)[x]) /\ x \in 0..n
  BY DEF HasMarks
<1>. HIDE DEF x
<1>2. BasesOf(a2)[x] = BasesOf(a)[x]
  BY <1>1, BasesAgree
<1>. QED
  BY <1>1, <1>2

\* The mark of the innermost execute.
LEMMA LastMark ==
  ASSUME CallInv, ~Idle
  PROVE  /\ Opens(native) \in Nat /\ Opens(native) >= 1 /\ ExecuteMarks # <<>>
         /\ ExecuteMarks \in Seq(Nat) /\ Len(ExecuteMarks) = Opens(native)
         /\ CF!Last(ExecuteMarks) = Len(BasesOf(acts)[st.as_index])
<1>. DEFINE h == Opens(native)
            M == ExecuteMarks
<1>1. HasMarks(M, native, st, acts) /\ Depth(native, InCode)
  BY MarksNow DEF MarkInv
<1>2. Len(native) \in Nat /\ Len(native) # 0
  BY Tops, Typed
<1>3. h \in Nat /\ M \in Seq(Nat) /\ Len(M) = h
      /\ \A i \in 1..h : M[i] = Len(BasesOf(acts)[AsOf(native, st, i)])
  BY <1>1 DEF HasMarks
<1>4. Len(native) = 2 * h \/ Len(native) = 2 * h - 1
  BY <1>1 DEF Depth
<1>. HIDE DEF h, M
<1>5. h >= 1 /\ h \in 1..h
  BY <1>2, <1>3, <1>4
<1>6. AsOf(native, st, h) = st.as_index
  BY DEF AsOf, h
<1>7. M # <<>>
  BY <1>3, <1>5, EmptyIs
<1>8. M[Len(M)] = Len(BasesOf(acts)[st.as_index])
  BY <1>3, <1>5, <1>6
<1>. QED
  BY <1>3, <1>5, <1>7, <1>8 DEF CF!Last, h, M

\* n is 2 * h or one less: its half, rounded up, is h.
LEMMA HalfIs ==
  ASSUME NEW n \in Nat, NEW h \in Nat, n = 2 * h \/ n = 2 * h - 1
  PROVE  (n + 1) \div 2 = h
  OBVIOUS

\* Calls and returns within an execute keep the marks.
LEMMA MarksKept ==
  ASSUME CallInv, CallInv', ~Idle, NEW h, h = Opens(native), Opens(native') = h,
         \A j \in 1..(2 * h - 1) : native'[j] = native[j],
         st'.as_index = st.as_index, st.as_index <= Len(acts'),
         \A k \in 1..st.as_index : acts'[k] = acts[k]
  PROVE  ExecuteMarks' = ExecuteMarks
<1>. DEFINE M == ExecuteMarks
            M2 == ExecuteMarks'
            n == st.as_index
<1>1. HasMarks(M, native, st, acts)
  BY MarksNow DEF MarkInv
<1>2. HasMarks(M2, native', st', acts')
  <2>1. CallInv' => MarkInv'
    BY MarksNow, PTL
  <2>. QED
    BY <2>1 DEF MarkInv
<1>3. acts \in Seq(FrameType) /\ acts' \in Seq(FrameType)
  <2>1. CallInv' => EdgeInv'
    BY EdgesNow, PTL
  <2>. QED
    BY <2>1, EdgesNow DEF EdgeInv
<1>4. n \in Nat /\ n <= Len(acts) /\ n <= Len(acts')
  BY CountNow
<1>5. h \in Nat /\ M \in Seq(Nat) /\ Len(M) = h /\ M2 \in Seq(Nat) /\ Len(M2) = h
      /\ \A i \in 1..h : AsOf(native, st, i) \in 0..n
  BY <1>1, <1>2 DEF HasMarks
<1>. HIDE DEF M, M2
<1>6. ASSUME NEW i \in 1..h PROVE M2[i] = M[i]
  <2>1. AsOf(native', st', i) = AsOf(native, st, i)
    <3>1. i # h => 2 * i + 1 \in 1..(2 * h - 1)
      BY <1>5
    <3>. QED
      BY <3>1 DEF AsOf
  <2>2. i \in 1..Opens(native) /\ i \in 1..Opens(native') /\ AsOf(native, st, i) \in 0..n
    BY <1>5
  <2>3. \A k \in 1..n : acts'[k] = acts[k]
    OBVIOUS
  <2>. HIDE DEF n
  <2>. QED
    BY <1>1, <1>2, <1>3, <1>4, <2>1, <2>2, <2>3, MarksAgree
<1>7. M2 = M
  BY <1>5, <1>6, SameSequence
<1>. QED
  BY <1>7 DEF M, M2

\* An execute adds a mark: the activations there are.
LEMMA MarksGrow ==
  ASSUME CallInv, CallInv', NEW h, h = Opens(native), Opens(native') = h + 1,
         \A j \in 1..(2 * h) : native'[j] = native[j],
         native'[2 * h + 1].st = st, st'.as_index = Len(acts), Len(acts) <= Len(acts'),
         \A k \in 1..Len(acts) : acts'[k] = acts[k],
         h > 0 => st.as_index \in Nat /\ st.as_index < Len(acts)
  PROVE  ExecuteMarks' = Append(ExecuteMarks, Count(acts))
<1>. DEFINE M == ExecuteMarks
            M2 == ExecuteMarks'
            n == Len(acts)
            c == Count(acts)
            A == Append(M, c)
<1>1. HasMarks(M, native, st, acts)
  BY MarksNow DEF MarkInv
<1>2. HasMarks(M2, native', st', acts')
  <2>1. CallInv' => MarkInv'
    BY MarksNow, PTL
  <2>. QED
    BY <2>1 DEF MarkInv
<1>3. acts \in Seq(FrameType) /\ acts' \in Seq(FrameType) /\ c \in Nat
  <2>1. CallInv' => EdgeInv'
    BY EdgesNow, PTL
  <2>. QED
    BY <2>1, EdgesNow DEF EdgeInv, HasEdges
<1>4. n \in Nat /\ n <= Len(acts) /\ n <= Len(acts') /\ \A k \in 1..n : acts'[k] = acts[k]
  BY <1>3, LenProperties
<1>5. h \in Nat /\ M \in Seq(Nat) /\ Len(M) = h /\ M2 \in Seq(Nat) /\ Len(M2) = h + 1
  BY <1>1, <1>2 DEF HasMarks
<1>6. \A i \in 1..h : AsOf(native, st, i) \in 0..n
  <2>. SUFFICES ASSUME NEW i \in 1..h PROVE AsOf(native, st, i) \in 0..n
    OBVIOUS
  <2>1. AsOf(native, st, i) \in 0..st.as_index
    BY <1>1 DEF HasMarks
  <2>2. st.as_index \in Nat /\ st.as_index < n
    BY <1>5
  <2>. QED
    BY <1>4, <2>1, <2>2
<1>7. A \in Seq(Nat) /\ Len(A) = h + 1 /\ A[h + 1] = c /\ \A i \in 1..h : A[i] = M[i]
  <2>. HIDE DEF M, c
  <2>. QED
    BY <1>3, <1>5, AppendIs
<1>8. M2[h + 1] = c
  <2>1. h + 1 \in 1..Opens(native') /\ AsOf(native', st', h + 1) = n
    BY <1>5 DEF AsOf
  <2>2. M2[h + 1] = Len(BasesOf(acts')[n])
    BY <1>2, <2>1 DEF HasMarks
  <2>. HIDE DEF n
  <2>3. BasesOf(acts')[n] = BasesOf(acts)[n]
    <3>1. n \in 0..n
      BY <1>4
    <3>. QED
      BY <1>3, <1>4, <3>1, BasesAgree
  <2>. QED
    BY <2>2, <2>3 DEF n, Count, AllBases
<1>9. ASSUME NEW i \in 1..h PROVE M2[i] = M[i]
  <2>1. AsOf(native', st', i) = AsOf(native, st, i)
    <3>1. i # h + 1 /\ (i # h => 2 * i + 1 \in 1..(2 * h))
      BY <1>5
    <3>. QED
      BY <3>1 DEF AsOf
  <2>2. i \in 1..Opens(native) /\ i \in 1..Opens(native') /\ AsOf(native, st, i) \in 0..n
    BY <1>5, <1>6
  <2>. HIDE DEF n, M, M2
  <2>. QED
    BY <1>1, <1>2, <1>3, <1>4, <2>1, <2>2, MarksAgree
<1>. HIDE DEF M, M2, A
<1>10. \A i \in 1..(h + 1) : M2[i] = A[i]
  <2>. SUFFICES ASSUME NEW i \in 1..(h + 1) PROVE M2[i] = A[i]
    OBVIOUS
  <2>1. i \in 1..h \/ i = h + 1
    BY <1>5
  <2>. QED
    BY <1>7, <1>8, <1>9, <2>1
<1>11. M2 = A
  BY <1>5, <1>7, <1>10, SameSequence
<1>. QED
  BY <1>11 DEF M, M2, A

\* The end of an execute takes its mark away.
LEMMA MarksShrink ==
  ASSUME CallInv, CallInv', ~Idle, NEW h, h = Opens(native), Opens(native') = h - 1,
         \A j \in 1..(2 * h - 2) : native'[j] = native[j],
         st' = native[2 * h - 1].st, Len(acts') = st.as_index,
         \A k \in 1..st.as_index : acts'[k] = acts[k]
  PROVE  ExecuteMarks' = CF!Front(ExecuteMarks)
<1>. DEFINE M == ExecuteMarks
            M2 == ExecuteMarks'
            n == st.as_index
            A == Front(M)
<1>1. HasMarks(M, native, st, acts)
  BY MarksNow DEF MarkInv
<1>2. HasMarks(M2, native', st', acts')
  <2>1. CallInv' => MarkInv'
    BY MarksNow, PTL
  <2>. QED
    BY <2>1 DEF MarkInv
<1>3. acts \in Seq(FrameType) /\ acts' \in Seq(FrameType)
  <2>1. CallInv' => EdgeInv'
    BY EdgesNow, PTL
  <2>. QED
    BY <2>1, EdgesNow DEF EdgeInv
<1>4. n \in Nat /\ n <= Len(acts) /\ n <= Len(acts') /\ \A k \in 1..n : acts'[k] = acts[k]
  BY CountNow
<1>5. h \in Nat /\ h >= 1 /\ M \in Seq(Nat) /\ Len(M) = h
  BY LastMark
<1>6. M2 \in Seq(Nat) /\ Len(M2) = h - 1
  BY <1>2 DEF HasMarks
<1>7. \A i \in 1..h : AsOf(native, st, i) \in 0..n
  BY <1>1 DEF HasMarks
<1>. HIDE DEF M, M2, n
<1>8. A \in Seq(Nat) /\ Len(A) = h - 1 /\ \A i \in 1..(h - 1) : A[i] = M[i]
  <2>1. Len(M) > 0
    BY <1>5
  <2>. QED
    BY <1>5, <2>1, FrontIs
<1>9. ASSUME NEW i \in 1..(h - 1) PROVE M2[i] = M[i]
  <2>1. AsOf(native', st', i) = AsOf(native, st, i)
    <3>1. i # h /\ (i # h - 1 => 2 * i + 1 \in 1..(2 * h - 2)) /\ (i = h - 1 => 2 * i + 1 = 2 * h - 1)
      <4>1. h \in Nat /\ h >= 1 /\ i \in 1..(h - 1)
        BY <1>5
      <4>. QED
        BY ONLY <4>1
    <3>. QED
      BY <3>1 DEF AsOf
  <2>2. i \in 1..Opens(native) /\ i \in 1..Opens(native') /\ AsOf(native, st, i) \in 0..n
    BY <1>5, <1>7
  <2>. QED
    BY ONLY <1>1, <1>2, <1>3, <1>4, <2>1, <2>2, MarksAgree
<1>. HIDE DEF A
<1>10. M2 = A
  BY <1>6, <1>8, <1>9, SameSequence
<1>. QED
  BY <1>10 DEF M, M2, A, CF!Front, Front

-----------------------------------------------------------------------------
(* Steps.                                                                  *)

\* Edges before and after a step.
LEMMA EdgesThen ==
  ASSUME CallInv, CallInv'
  PROVE  /\ ActFrames = FramesOf(Edges, os) /\ HasEdges(Edges, acts, last, os)
         /\ ActFrames' = FramesOf(Edges', os') /\ HasEdges(Edges', acts', last', os')
         /\ acts \in Seq(FrameType) /\ acts' \in Seq(FrameType)
<1>1. CallInv' => EdgeInv'
  BY EdgesNow, PTL
<1>. QED
  BY <1>1, EdgesNow DEF EdgeInv

\* A step that keeps the bases, and the operands below the top frame.
LEMMA TopOnly ==
  ASSUME CallInv, CallInv', ~Idle, AllBases(acts') = AllBases(acts), last' = last,
         \A i \in 1..last : os'[i] = os[i], NEW m, m = Count(acts) + 2
  PROVE  m \in Nat /\ m >= 3 /\ Edges[m - 1] = last /\ SameBelow(Edges, os, Edges', os', m)
<1>. DEFINE f == Edges
            f2 == Edges'
            c == Count(acts)
<1>1. HasEdges(f, acts, last, os) /\ HasEdges(f2, acts', last', os') /\ Count(acts') = c
  BY EdgesThen DEF Count
<1>2. c \in Nat /\ c >= 1
  BY <1>1, CountNow DEF HasEdges
<1>. HIDE DEF f, f2
<1>3. Cuts(f, os) /\ Len(f) = c + 2 /\ f[c + 1] = last /\ \A j \in 1..c : f[j] = AllBases(acts)[j]
  BY <1>1 DEF HasEdges
<1>4. /\ Cuts(f2, os') /\ Len(f2) = c + 2 /\ f2[c + 1] = last
      /\ \A j \in 1..c : f2[j] = AllBases(acts)[j]
  BY <1>1 DEF HasEdges
<1>. HIDE DEF c
<1>5. m \in Nat /\ m >= 3 /\ m - 1 = c + 1 /\ m = c + 2
  BY <1>2 DEF c
<1>6. \A j \in 1..(m - 1) : f2[j] = f[j]
  <2>. SUFFICES ASSUME NEW j \in 1..(m - 1) PROVE f2[j] = f[j]
    OBVIOUS
  <2>1. j \in 1..c \/ j = c + 1
    BY <1>2, <1>5
  <2>. QED
    BY <1>3, <1>4, <2>1
<1>7. f[m - 1] = last
  BY <1>3, <1>5
<1>8. SameBelow(f, os, f2, os', m)
  BY <1>3, <1>4, <1>5, <1>6, <1>7 DEF SameBelow
<1>. QED
  BY <1>5, <1>7, <1>8 DEF f, f2

\* It is a Compute step if it replaces k operands by at most one.
LEMMA IsCompute ==
  ASSUME CallInv, CallInv', ~Idle, AllBases(acts') = AllBases(acts), last' = last,
         ExecuteMarks' = ExecuteMarks, NEW k \in Nat, last + k <= Len(os),
         Len(os') >= Len(os) - k, Len(os') <= Len(os) - k + 1,
         \A i \in 1..(Len(os) - k) : os'[i] = os[i]
  PROVE  CF!Compute
<1>. DEFINE F == ActFrames
            G == ActFrames'
            f == Edges
            f2 == Edges'
            m == Count(acts) + 2
            old == F[m - 2]
            new == G[m - 2]
<1>1. last \in Nat /\ Len(os) \in Nat
  BY Typed
<1>2. \A i \in 1..last : i \in 1..(Len(os) - k)
  BY <1>1
<1>3. \A i \in 1..last : os'[i] = os[i]
  BY <1>2
<1>4. m \in Nat /\ m >= 3 /\ f[m - 1] = last /\ SameBelow(f, os, f2, os', m)
  <2>. HIDE DEF m
  <2>. QED
    BY <1>3, TopOnly DEF m
<1>5. F = FramesOf(f, os) /\ G = FramesOf(f2, os')
  BY EdgesThen
<1>. HIDE DEF F, G, f, f2, m
<1>6. Len(G) = Len(F) /\ F # <<>> /\ CF!Front(G) = CF!Front(F) /\ Len(F) = m - 2
  BY <1>4, <1>5, FramesTop
<1>7. k \in 0..Len(old) /\ CF!IsPrefix(CF!Drop(old, k), new) /\ Len(new) <= Len(old) - k + 1
  BY <1>4, <1>5, FramesCompute
<1>8. CF!Last(F) = old /\ CF!Last(G) = new
  BY <1>6 DEF CF!Last
<1>. HIDE DEF old, new
<1>9. \E x \in 0..Len(old) : CF!IsPrefix(CF!Drop(old, x), new) /\ Len(new) <= Len(old) - x + 1
  BY <1>7
<1>. QED
  BY <1>6, <1>8, <1>9 DEF CF!Compute, CF!OnlyTop, CF!Top, F, G

\* Instructions keep the activations, and so the bases and marks.
LEMMA InstructionKeeps ==
  ASSUME CallInv, CallInv', Running, UNCHANGED <<acts, last, remaining, st, native>>
  PROVE  /\ ~Idle /\ AllBases(acts') = AllBases(acts) /\ last' = last
         /\ ExecuteMarks' = ExecuteMarks
<1>1. ~Idle
  BY DEF Running, InCode
<1>2. acts' = acts /\ last' = last /\ native' = native /\ st' = st
  OBVIOUS
<1>3. st.as_index <= Len(acts')
  BY <1>1, <1>2, CountNow
<1>4. ExecuteMarks' = ExecuteMarks
  BY <1>1, <1>2, <1>3, MarksKept
<1>. QED
  BY <1>1, <1>2, <1>4

\* An instruction that pushes an operand, or pops one.
LEMMA PushPopIsCompute ==
  ASSUME CallInv, CallInv', (\E v \in Values : Push(v)) \/ Pop
  PROVE  CF!Compute
<1>1. Running /\ UNCHANGED <<acts, last, remaining, st, native>>
  BY DEF Push, Pop
<1>2. /\ ~Idle /\ AllBases(acts') = AllBases(acts) /\ last' = last
      /\ ExecuteMarks' = ExecuteMarks
  BY <1>1, InstructionKeeps
<1>3. os \in Seq(Values) /\ Len(os) \in Nat /\ last \in Nat
  BY Typed
<1>. DEFINE n == Len(os)
            w == Need(st.pc)
<1>4. w \in Nat /\ n >= last + w /\ Operands = n - last - w
  <2>1. PICK b \in [0..Len(acts) -> Nat], u \in [0..Len(acts) -> Nat] :
          /\ Frames(acts, b, u)
          /\ Current(native, st, last, remaining, Len(acts), Len(os), acts, b, u)
    BY DEF CallInv
  <2>2. InCode
    BY <1>1, OperandsAre
  <2>. QED
    BY <1>1, <2>1, <2>2, OperandsAre, CodeFacts
<1>5. ASSUME NEW v \in Values, Push(v) PROVE CF!Compute
  <2>1. Len(os') = n + 1 /\ \A i \in 1..n : os'[i] = os[i]
    BY <1>3, <1>5, AppendIs DEF Push
  <2>2. 0 \in Nat /\ last + 0 <= n /\ n - 0 = n /\ Len(os') >= n - 0 /\ Len(os') <= n - 0 + 1
    <3>. HIDE DEF n, w
    <3>1. n \in Nat
      BY <1>3 DEF n
    <3>. QED
      BY <1>3, <1>4, <2>1, <3>1
  <2>3. \A i \in 1..(n - 0) : os'[i] = os[i]
    BY <2>1, <2>2
  <2>. QED
    BY <1>2, <2>2, <2>3, IsCompute
<1>6. CASE Pop
  <2>1. Operands > 0 /\ os' = Front(os)
    BY <1>6 DEF Pop
  <2>2. n > 0 /\ last + 1 <= n
    <3>. HIDE DEF n, w
    <3>1. n \in Nat
      BY <1>3 DEF n
    <3>. QED
      BY <1>3, <1>4, <2>1, <3>1
  <2>3. Len(os') = n - 1 /\ \A i \in 1..(n - 1) : os'[i] = os[i]
    BY <1>3, <2>1, <2>2, FrontIs
  <2>4. 1 \in Nat /\ Len(os') >= n - 1 /\ Len(os') <= n - 1 + 1
    BY <1>3, <2>3
  <2>. QED
    BY <1>2, <2>2, <2>3, <2>4, IsCompute
<1>. QED
  BY <1>5, <1>6

\* set_local
LEMMA SetOperandIsSetLocal ==
  ASSUME CallInv, CallInv', NEW i \in Nat, SetOperand(i)
  PROVE  CF!SetLocal
<1>. DEFINE F == ActFrames
            G == ActFrames'
            f == Edges
            f2 == Edges'
            m == Count(acts) + 2
            old == F[m - 2]
            new == G[m - 2]
            n == Len(os)
            w == Need(st.pc)
            k == i + 1
            d == Front(os)
<1>1. /\ Running /\ Operands > 0 /\ i < Params[st.pc] + Locals[st.pc]
      /\ os' = [d EXCEPT ![last + i + 1] = os[n]]
      /\ UNCHANGED <<acts, last, remaining, st, native>>
  BY DEF SetOperand, Last
<1>2. /\ ~Idle /\ AllBases(acts') = AllBases(acts) /\ last' = last
      /\ ExecuteMarks' = ExecuteMarks
  BY <1>1, InstructionKeeps
<1>3. os \in Seq(Values) /\ n \in Nat /\ last \in Nat
  BY Typed
<1>4. w \in Nat /\ n >= last + w /\ Operands = n - last - w
  <2>1. PICK b \in [0..Len(acts) -> Nat], u \in [0..Len(acts) -> Nat] :
          /\ Frames(acts, b, u)
          /\ Current(native, st, last, remaining, Len(acts), Len(os), acts, b, u)
    BY DEF CallInv
  <2>2. InCode
    BY <1>1, OperandsAre
  <2>. QED
    BY <1>1, <2>1, <2>2, OperandsAre, CodeFacts
<1>5. i < w
  BY <1>1 DEF Need
<1>. DEFINE x == os[n]
            y == last + k
<1>6. n > 0 /\ y \in 1..(n - 1) /\ last + k < n /\ k \in Nat /\ k >= 1 /\ last + i + 1 = y /\ n \in 1..n
  <2>. HIDE DEF n, w
  <2>. QED
    BY <1>1, <1>3, <1>4, <1>5
<1>7. d \in Seq(Values) /\ Len(d) = n - 1 /\ \A j \in 1..(n - 1) : d[j] = os[j]
  BY <1>3, <1>6, FrontIs
<1>8. x \in Values
  BY <1>3, <1>6, ElementOfSeq
<1>. HIDE DEF d, x, y
<1>9. Len(os') = n - 1 /\ \A j \in 1..(n - 1) : os'[j] = IF j = y THEN x ELSE os[j]
  <2>. DEFINE l == n - 1
  <2>1. l \in Nat /\ d \in [1..l -> Values] /\ y \in 1..l /\ os' = [d EXCEPT ![y] = x]
        /\ \A j \in 1..l : d[j] = os[j]
    <3>1. l \in Nat /\ y \in 1..l
      BY <1>3, <1>6
    <3>2. d \in Seq(Values) /\ Len(d) = l /\ \A j \in 1..l : d[j] = os[j]
      BY <1>7
    <3>3. d \in [1..l -> Values]
      <4>. HIDE DEF l
      <4>. QED
        BY ONLY <3>1, <3>2
    <3>4. os' = [d EXCEPT ![y] = x]
      BY <1>1, <1>6, Zenon DEF x
    <3>. QED
      BY <3>1, <3>2, <3>3, <3>4
  <2>. HIDE DEF l, n
  <2>2. os' \in [1..l -> Values] /\ \A j \in 1..l : os'[j] = IF j = y THEN x ELSE d[j]
    BY <1>8, <2>1
  <2>3. Len(os') = l
    BY <2>1, <2>2
  <2>. QED
    BY <2>1, <2>2, <2>3 DEF l
<1>10. \A j \in 1..last : os'[j] = os[j]
  <2>. SUFFICES ASSUME NEW j \in 1..last PROVE os'[j] = os[j]
    OBVIOUS
  <2>1. j \in 1..(n - 1) /\ j # y
    <3>. HIDE DEF n
    <3>. QED
      BY <1>3, <1>6 DEF y
  <2>. QED
    BY <1>9, <2>1
<1>11. m \in Nat /\ m >= 3 /\ f[m - 1] = last /\ SameBelow(f, os, f2, os', m)
  <2>. HIDE DEF m
  <2>. QED
    BY <1>2, <1>10, TopOnly DEF m
<1>12. F = FramesOf(f, os) /\ G = FramesOf(f2, os')
  BY EdgesThen
<1>. HIDE DEF F, G, f, f2, m
<1>13. Len(G) = Len(F) /\ F # <<>> /\ CF!Front(G) = CF!Front(F) /\ Len(F) = m - 2
  BY <1>11, <1>12, FramesTop
<1>14. k \in 1..(Len(old) - 1) /\ new = [CF!Front(old) EXCEPT ![k] = CF!Last(old)]
  <2>1. f[m - 1] + k < Len(os) /\ k \in Nat /\ k >= 1
    BY <1>6, <1>11
  <2>2. SetAt(os, os', f[m - 1] + k)
    BY <1>9, <1>11 DEF SetAt, x, y
  <2>. HIDE DEF k
  <2>3. SetIn(FramesOf(f, os)[m - 2], FramesOf(f2, os')[m - 2], k)
    BY ONLY <1>11, <2>1, <2>2, FramesSetLocal
  <2>. QED
    BY <1>12, <2>3 DEF SetIn
<1>15. CF!Last(F) = old /\ CF!Last(G) = new
  BY <1>13 DEF CF!Last
<1>. HIDE DEF old, new, k
<1>. QED
  BY <1>2, <1>13, <1>14, <1>15 DEF CF!SetLocal, CF!OnlyTop, CF!Top, F, G

\* A call and an execute save the base of the running activation.
LEMMA EdgesPushed ==
  ASSUME CallInv, CallInv', AllBases(acts') = Append(AllBases(acts), last),
         NEW c, c = Count(acts)
  PROVE  /\ c \in Nat /\ Cuts(Edges, os) /\ Cuts(Edges', os')
         /\ Len(Edges) = c + 2 /\ Len(Edges') = c + 3
         /\ \A j \in 1..(c + 1) : Edges'[j] = Edges[j]
         /\ Edges[c + 1] = last /\ Edges[c + 2] = Len(os) /\ Edges'[c + 2] = last'
<1>. DEFINE f == Edges
            f2 == Edges'
            B == AllBases(acts)
            B2 == AllBases(acts')
<1>1. HasEdges(f, acts, last, os) /\ HasEdges(f2, acts', last', os')
  BY EdgesThen
<1>. HIDE DEF f, f2
<1>2. /\ Cuts(f, os) /\ B \in Seq(Nat) /\ c \in Nat /\ last \in Nat /\ Len(f) = c + 2 /\ f[c + 1] = last
      /\ f[c + 2] = Len(os) /\ \A j \in 1..c : f[j] = B[j]
  BY <1>1 DEF HasEdges
<1>3. Len(B2) = c + 1 /\ B2[c + 1] = last /\ \A j \in 1..c : B2[j] = B[j]
  <2>1. Len(B) = c /\ B2 = Append(B, last)
    BY DEF Count
  <2>. HIDE DEF B, B2
  <2>. QED
    BY <1>2, <2>1, AppendIs
<1>4. /\ Cuts(f2, os') /\ Len(f2) = (c + 1) + 2 /\ f2[(c + 1) + 1] = last'
      /\ \A j \in 1..(c + 1) : f2[j] = B2[j]
  <2>1. Count(acts') = c + 1
    BY <1>3 DEF Count
  <2>. QED
    BY <1>1, <2>1 DEF HasEdges
<1>. HIDE DEF B, B2
<1>5. (c + 1) + 2 = c + 3 /\ (c + 1) + 1 = c + 2 /\ \A j \in 1..(c + 1) : j \in 1..c \/ j = c + 1
  BY <1>2
<1>6. \A j \in 1..(c + 1) : f2[j] = f[j]
  BY <1>2, <1>3, <1>4, <1>5
<1>. QED
  BY <1>2, <1>4, <1>5, <1>6 DEF f, f2

\* A call of a function of the module
LEMMA CallFunctionIsCall ==
  ASSUME CallInv, CallInv', NEW f \in Functions, CallFunction(f)
  PROVE  CF!Call
<1>. DEFINE x == Frame(st.pc, last, f)
            n == Len(os)
            w == Need(st.pc)
            k == Params[f]
            F == ActFrames
            G == ActFrames'
            e == Edges
            e2 == Edges'
            c == Count(acts)
            m == c + 2
<1>1. /\ Running /\ Operands >= k /\ acts' = Append(acts, x) /\ last' = n - k
      /\ os' = os \o Locals0(f) /\ native' = native /\ st' = [st EXCEPT !.pc = f]
  BY DEF CallFunction, CanCall
<1>2. /\ os \in Seq(Values) /\ acts \in Seq(FrameType) /\ n \in Nat /\ last \in Nat
      /\ Len(acts) \in Nat /\ st \in StateType
  BY Typed
<1>3. InCode /\ ~Idle /\ st.pc \in Functions
  BY <1>1 DEF Running, InCode
<1>4. x \in FrameType /\ x.pc # "null" /\ x.last = last
  BY <1>2, <1>3, FunctionAssumption DEF Frame, FrameType, Return_to
<1>. HIDE DEF x
<1>5. AllBases(acts') = Append(AllBases(acts), last)
  BY <1>1, <1>2, <1>4, BasesGrow
<1>6. w \in Nat /\ n >= last + w /\ Operands = n - last - w
  <2>1. PICK b \in [0..Len(acts) -> Nat], u \in [0..Len(acts) -> Nat] :
          /\ Frames(acts, b, u)
          /\ Current(native, st, last, remaining, Len(acts), Len(os), acts, b, u)
    BY DEF CallInv
  <2>. QED
    BY <1>1, <1>3, <2>1, OperandsAre, CodeFacts
<1>7. k \in Nat /\ Locals[f] \in Nat /\ last + k <= n
  <2>1. k \in Nat /\ Locals[f] \in Nat
    BY FunctionAssumption
  <2>. HIDE DEF k, n, w
  <2>. QED
    BY <1>1, <1>2, <1>6, <2>1
<1>8. /\ Len(os') = n + Locals[f] /\ (\A i \in 1..n : os'[i] = os[i])
      /\ \A i \in (n + 1)..(n + Locals[f]) : os'[i] = Zero
  <2>. DEFINE l == Locals[f]
              z == Locals0(f)
  <2>1. z \in [1..l -> Values] /\ \A i \in 1..l : z[i] = Zero
    BY BoundAssumption DEF Locals0
  <2>. HIDE DEF z, l
  <2>2. z \in Seq(Values) /\ Len(z) = l /\ l \in Nat
    BY <1>7, <2>1 DEF l
  <2>3. /\ Len(os \o z) = n + l
        /\ \A i \in 1..(n + l) : (os \o z)[i] = IF i <= n THEN os[i] ELSE z[i - n]
    BY <1>2, <2>2, ConcatProperties
  <2>. DEFINE q == os \o z
  <2>. HIDE DEF n, q
  <2>4. \A i \in 1..n : i \in 1..(n + l) /\ i <= n
    BY <1>2, <2>2
  <2>5. \A i \in (n + 1)..(n + l) : i \in 1..(n + l) /\ ~(i <= n) /\ i - n \in 1..l
    BY <1>2, <2>2
  <2>6. \A i \in 1..n : q[i] = os[i]
    BY <2>3, <2>4 DEF q
  <2>7. \A i \in (n + 1)..(n + l) : q[i] = Zero
    BY <2>1, <2>3, <2>5 DEF q
  <2>. QED
    BY <1>1, <2>3, <2>6, <2>7 DEF q, z, l
<1>9. /\ c \in Nat /\ Cuts(e, os) /\ Cuts(e2, os') /\ Len(e) = c + 2 /\ Len(e2) = c + 3
      /\ \A j \in 1..(c + 1) : e2[j] = e[j]
      /\ e[c + 1] = last /\ e2[c + 2] = last'
  <2>. HIDE DEF c
  <2>. QED
    BY <1>5, EdgesPushed DEF c
<1>10. c >= 1
  BY <1>3, <1>9, CountNow
<1>11. F = FramesOf(e, os) /\ G = FramesOf(e2, os')
  BY EdgesThen
<1>12. CalledWith(F, G, k)
  <2>. HIDE DEF e, e2, c, k
  <2>1. m \in Nat /\ m >= 3 /\ Len(e) = m /\ Len(e2) = m + 1 /\ m - 1 = c + 1
    BY <1>9, <1>10
  <2>2. (\A j \in 1..(m - 1) : e2[j] = e[j]) /\ e[m - 1] = last /\ e2[m] = n - k
    BY <1>1, <1>9, <2>1
  <2>3. Cuts(e, os) /\ Cuts(e2, os') /\ k \in Nat /\ e[m - 1] + k <= Len(os) /\ e2[m] = Len(os) - k
    BY <1>7, <1>9, <2>2
  <2>4. Len(os') >= Len(os) /\ (\A i \in 1..Len(os) : os'[i] = os[i])
    BY <1>2, <1>7, <1>8
  <2>5. \A i \in (Len(os) + 1)..Len(os') : os'[i] = Zero
    BY <1>8
  <2>. HIDE DEF m
  <2>6. CalledWith(FramesOf(e, os), FramesOf(e2, os'), k)
    BY ONLY <2>1, <2>2, <2>3, <2>4, <2>5, FramesCall
  <2>. QED
    BY <1>11, <2>6
<1>13. ExecuteMarks' = ExecuteMarks
  <2>1. st'.as_index = st.as_index
    BY <1>1, <1>2 DEF StateType
  <2>2. Len(acts') = Len(acts) + 1 /\ \A j \in 1..Len(acts) : acts'[j] = acts[j]
    BY <1>1, <1>2, <1>4, AppendIs
  <2>3. st.as_index \in Nat /\ st.as_index < Len(acts)
    BY <1>3, CountNow
  <2>4. st.as_index <= Len(acts') /\ \A j \in 1..st.as_index : j \in 1..Len(acts)
    BY <1>2, <2>2, <2>3
  <2>. QED
    BY <1>1, <1>3, <2>1, <2>2, <2>4, MarksKept
<1>14. ExecuteMarks # <<>>
  BY <1>3, LastMark
<1>. HIDE DEF F, G, k
<1>. QED
  BY <1>12, <1>13, <1>14 DEF CalledWith, CF!Call, CF!Top, F, G

\* The operands after a return: those of the caller and the result.
LEMMA ReturnedOperands ==
  ASSUME CallInv, Return, NEW k, k = Results[st.pc]
  PROVE  /\ k \in 0..1 /\ last + k <= Len(os) /\ Len(os') = last + k
         /\ \A i \in 1..last : os'[i] = os[i]
         /\ k = 1 => os'[last + 1] = os[Len(os)]
<1>. DEFINE n == Len(os)
            w == Need(st.pc)
            s == SubSeq(os, 1, last)
<1>1. Running /\ Operands = k
      /\ os' = IF k = 1 THEN Append(SubSeq(os, 1, n - w - 1), os[n]) ELSE SubSeq(os, 1, n - w)
  BY DEF Return, Need, Last
<1>2. os \in Seq(Values) /\ n \in Nat /\ last \in Nat
  BY Typed
<1>3. w \in Nat /\ Operands = n - last - w /\ st.pc \in Functions
  BY <1>1, OperandsAre
<1>4. k \in 0..1 /\ (k = 0 \/ k = 1)
  BY <1>3, FunctionAssumption
<1>. HIDE DEF n, w
<1>5. last + k <= n /\ last \in 0..n /\ (k = 1 => n - w - 1 = last /\ n \in 1..n) /\ (k = 0 => n - w = last)
  BY <1>1, <1>2, <1>3, <1>4
<1>6. s \in Seq(Values) /\ Len(s) = last /\ \A i \in 1..last : s[i] = os[i]
  BY <1>2, <1>5, Prefix DEF n
<1>. HIDE DEF s
<1>7. CASE k = 1
  <2>1. os' = Append(s, os[n])
    BY <1>1, <1>5, <1>7 DEF s
  <2>2. os[n] \in Values
    BY <1>2, <1>5, <1>7, ElementOfSeq DEF n
  <2>3. Len(os') = last + 1 /\ os'[last + 1] = os[n] /\ \A i \in 1..last : os'[i] = s[i]
    BY <1>6, <2>1, <2>2, AppendIs
  <2>. QED
    BY <1>4, <1>5, <1>6, <1>7, <2>3 DEF n
<1>8. CASE k = 0
  <2>1. os' = s /\ last + k = last
    BY <1>1, <1>2, <1>5, <1>8 DEF s
  <2>. QED
    BY <1>4, <1>5, <1>6, <1>8, <2>1 DEF n
<1>. QED
  BY <1>4, <1>7, <1>8

\* A return to a caller in the module
LEMMA ReturnIsReturn ==
  ASSUME CallInv, CallInv', Return
  PROVE  CF!Return
<1>. DEFINE k == Results[st.pc]
            a == acts[Len(acts)]
            n == Len(acts)
            F == ActFrames
            G == ActFrames'
            e == Edges
            e2 == Edges'
            c == Count(acts)
            d == Count(acts')
            m == c + 2
            B == AllBases(acts)
            B2 == AllBases(acts')
<1>1. /\ Running /\ a.pc # "halt" /\ last' = a.last /\ acts' = Front(acts) /\ native' = native
      /\ st' = [st EXCEPT !.pc = a.pc]
  BY DEF Return, Last
<1>2. /\ os \in Seq(Values) /\ acts \in Seq(FrameType) /\ last \in Nat
      /\ n \in Nat /\ st \in StateType
  BY Typed
<1>3. InCode /\ ~Idle /\ st.pc \in Functions
  BY <1>1 DEF Running, InCode
<1>4. n >= 2 /\ a.pc \in Functions
  <2>1. PICK b \in [0..Len(acts) -> Nat], u \in [0..Len(acts) -> Nat] :
          /\ Frames(acts, b, u)
          /\ Current(native, st, last, remaining, Len(acts), Len(os), acts, b, u)
    BY DEF CallInv
  <2>2. Level(st, n, acts, b)
    BY <1>3, <2>1, CodeFacts
  <2>. QED
    BY <1>1, <1>2, <2>2, LevelShrinks
<1>5. B = Append(B2, last')
  <2>1. a.pc # "null"
    BY <1>4, FunctionAssumption
  <2>2. Len(acts) > 0
    BY <1>2, <1>4
  <2>. QED
    BY <1>1, <1>2, <2>1, <2>2, BasesFront
<1>6. HasEdges(e, acts, last, os) /\ HasEdges(e2, acts', last', os')
  BY EdgesThen
<1>. HIDE DEF e, e2
<1>7. /\ Cuts(e, os) /\ c \in Nat /\ Len(e) = c + 2 /\ e[c + 1] = last
      /\ \A j \in 1..c : e[j] = B[j]
  BY <1>6 DEF HasEdges
<1>8. /\ Cuts(e2, os') /\ d \in Nat /\ B2 \in Seq(Nat) /\ last' \in Nat
      /\ Len(e2) = d + 2 /\ e2[d + 1] = last' /\ \A j \in 1..d : e2[j] = B2[j]
  BY <1>6 DEF HasEdges
<1>9. c = d + 1 /\ B[d + 1] = last' /\ \A j \in 1..d : B[j] = B2[j]
  <2>1. d = Len(B2) /\ c = Len(B)
    BY DEF Count
  <2>. HIDE DEF B, B2
  <2>. QED
    BY <1>5, <1>8, <2>1, AppendIs
<1>. HIDE DEF B, B2
\* the innermost execute has an activation below
<1>10. st'.as_index = st.as_index
  BY <1>1, <1>2 DEF StateType
<1>11. st.as_index \in Nat /\ st.as_index < n /\ Len(BasesOf(acts)[st.as_index]) \in Nat
  BY <1>3, CountNow
<1>12. Len(acts') = n - 1 /\ \A j \in 1..(n - 1) : acts'[j] = acts[j]
  BY <1>1, <1>2, <1>4, FrontIs
<1>13. ~Idle'
  BY <1>1, <1>3 DEF Idle
<1>14. st'.as_index < Len(acts') /\ Len(BasesOf(acts')[st'.as_index]) + 1 <= d
  <2>1. CallInv' => CountInv'
    BY CountThen, PTL
  <2>. QED
    BY <1>13, <2>1 DEF CountInv
<1>15. BasesOf(acts')[st.as_index] = BasesOf(acts)[st.as_index]
  <2>. DEFINE i == st.as_index
  <2>1. i \in Nat /\ i <= Len(acts) /\ i <= Len(acts') /\ i \in 0..i /\ i < n - 1
    BY <1>2, <1>10, <1>11, <1>12, <1>14
  <2>2. \A j \in 1..i : acts'[j] = acts[j]
    BY <1>2, <1>12, <2>1
  <2>3. acts' \in Seq(FrameType)
    BY EdgesThen
  <2>. HIDE DEF i
  <2>4. BasesOf(acts')[i] = BasesOf(acts)[i]
    BY ONLY <1>2, <2>1, <2>2, <2>3, BasesAgree
  <2>. QED
    BY <2>4 DEF i
<1>16. Len(BasesOf(acts)[st.as_index]) + 2 <= c
  BY <1>8, <1>9, <1>10, <1>11, <1>14, <1>15
<1>17. F = FramesOf(e, os) /\ G = FramesOf(e2, os')
  BY EdgesThen DEF e, e2
<1>18. k \in 0..1 /\ Len(F) = c /\ ReturnedWith(F, G, k)
  <2>. HIDE DEF c, d, k
  <2>1. m \in Nat /\ m >= 4 /\ Len(e) = m /\ Len(e2) = m - 1 /\ m - 1 = c + 1 /\ m - 2 = d + 1 /\ m - 2 = c
    BY <1>7, <1>8, <1>9, <1>11, <1>16
  <2>2. e[m - 1] = last
    BY <1>7, <2>1
  <2>3. \A j \in 1..(m - 2) : e2[j] = e[j]
    <3>. SUFFICES ASSUME NEW j \in 1..(m - 2) PROVE e2[j] = e[j]
      OBVIOUS
    <3>1. (j \in 1..d \/ j = d + 1) /\ j \in 1..c
      BY <1>8, <2>1
    <3>. QED
      BY <1>7, <1>8, <1>9, <3>1
  <2>4. /\ k \in 0..1 /\ last + k <= Len(os) /\ Len(os') = last + k
        /\ \A i \in 1..last : os'[i] = os[i]
        /\ k = 1 => os'[last + 1] = os[Len(os)]
    BY ReturnedOperands DEF k
  <2>5. /\ k \in 0..1 /\ e[m - 1] + k <= Len(os) /\ Len(os') = e[m - 1] + k
        /\ \A i \in 1..e[m - 1] : os'[i] = os[i]
        /\ k = 1 => os'[e[m - 1] + 1] = os[Len(os)]
    BY <2>2, <2>4
  <2>6. Cuts(e, os) /\ Cuts(e2, os')
    BY <1>7, <1>8
  <2>. HIDE DEF m
  <2>7. Len(FramesOf(e, os)) = m - 2 /\ ReturnedWith(FramesOf(e, os), FramesOf(e2, os'), k)
    BY ONLY <2>1, <2>3, <2>5, <2>6, FramesReturn
  <2>. QED
    BY <1>17, <2>1, <2>4, <2>7
<1>19. ExecuteMarks' = ExecuteMarks
  <2>1. st.as_index <= Len(acts') /\ \A j \in 1..st.as_index : acts'[j] = acts[j]
    BY <1>2, <1>10, <1>11, <1>12, <1>14
  <2>. QED
    BY <1>1, <1>3, <1>10, <2>1, MarksKept
<1>20. ExecuteMarks # <<>> /\ CF!Last(ExecuteMarks) = Len(BasesOf(acts)[st.as_index])
  BY <1>3, LastMark
<1>21. Len(F) > CF!Last(ExecuteMarks) + 1
  BY <1>7, <1>11, <1>16, <1>18, <1>20
<1>. HIDE DEF F, G, k, c
<1>. QED
  BY <1>18, <1>19, <1>20, <1>21 DEF ReturnedWith, CF!Return, CF!Top, CF!Caller, F, G

\* What the C++ stack says of the executes that are open.
LEMMA OpensNow ==
  ASSUME CallInv
  PROVE  /\ Opens(native) \in Nat /\ Len(native) \in Nat /\ native \in Seq(NativeType)
         /\ Len(native) = IF InCode THEN 2 * Opens(native) - 1 ELSE 2 * Opens(native)
  BY MarksNow, Typed DEF MarkInv, HasMarks, Depth

\* A host function returns to the code that has called it: its arguments are
\* replaced by at most a result.
LEMMA HostReturnIsCompute ==
  ASSUME CallInv, CallInv', NEW v \in Values, HostReturn(v)
  PROVE  CF!Compute
<1>. DEFINE N == Len(native)
            n == Len(acts)
            h == native[N]
            o == Len(os)
            k == Params[h.f]
            t == SubSeq(os, 1, o - k)
            r == IF Results[h.f] = 1 THEN <<v>> ELSE <<>>
<1>1. /\ HostTop /\ acts[n].pc = "null" /\ acts' = Front(acts) /\ native' = Front(native)
      /\ last' = last /\ st' = st /\ os' = t \o r
  BY DEF HostReturn, CalledFromCode, Last
<1>2. /\ os \in Seq(Values) /\ acts \in Seq(FrameType) /\ native \in Seq(NativeType)
      /\ o \in Nat /\ n \in Nat /\ N \in Nat /\ last \in Nat /\ TypeInv
  BY Typed
<1>3. ~Idle /\ N > 1 /\ native[N].kind = "host" /\ st.as_index \in Nat /\ st.as_index < n
  BY <1>1, HostOnTop DEF HostTop
<1>4. k \in Nat
  <2>1. N \in 1..N
    BY <1>2, <1>3
  <2>2. h.f \in Functions
    BY <1>2, <2>1, Elements
  <2>. QED
    BY <2>2, FunctionAssumption
<1>5. PICK b \in [0..n -> Nat], u \in [0..n -> Nat] :
        Frames(acts, b, u) /\ Current(native, st, last, remaining, n, o, acts, b, u)
  BY DEF CallInv
<1>6. AtHost(h, native[N - 1], st, last, remaining, n, o, acts, b, u)
  BY <1>1, <1>5, OutsideCode
<1>7. FromCode(h, native[N - 1], st, n, o, acts, b, u)
  <2>1. ~Direct(st, n, acts, b)
    BY <1>1 DEF Direct, Level
  <2>. QED
    BY <1>6, <2>1 DEF AtHost
<1>8. st.as_index <= n - 1 /\ n - 1 \in 1..n /\ n \in 1..n
  <2>1. st.as_index \in 0..(n - 1 - 1)
    BY <1>7 DEF FromCode, Level
  <2>. HIDE DEF n
  <2>. QED
    BY <1>2, <1>3, <2>1
<1>9. last + k <= o
  <2>. DEFINE w == Need(acts[n - 1].callee)
              c == b[n - 1]
  <2>1. last = b[n] /\ b[n] = c
    BY <1>1, <1>5, <1>6, <1>8 DEF AtHost, Frames
  <2>2. o >= c + w + k
    BY <1>7 DEF FromCode
  <2>3. w \in Nat
    <3>1. acts[n - 1].callee \in Functions
      BY <1>2, <1>8, Elements
    <3>. QED
      BY <3>1, FunctionAssumption DEF Need
  <2>. HIDE DEF w, c, o, k
  <2>. QED
    BY <1>2, <1>4, <2>1, <2>2, <2>3
<1>10. Len(os') >= o - k /\ Len(os') <= o - k + 1 /\ \A i \in 1..(o - k) : os'[i] = os[i]
  <2>. DEFINE l == o - k
              z == Len(r)
  <2>1. r \in Seq(Values) /\ z \in 0..1
    OBVIOUS
  <2>2. l \in 0..o
    <3>. HIDE DEF o, k
    <3>. QED
      BY <1>2, <1>4, <1>9
  <2>. HIDE DEF l, r, z
  <2>3. t = SubSeq(os, 1, l)
    BY DEF l
  <2>4. t \in Seq(Values) /\ Len(t) = l /\ \A i \in 1..l : t[i] = os[i]
    <3>. HIDE DEF t
    <3>1. l \in 0..Len(os) /\ os \in Seq(Values)
      BY <1>2, <2>2
    <3>2. SubSeq(os, 1, l) \in Seq(Values) /\ Len(SubSeq(os, 1, l)) = l
          /\ \A i \in 1..l : SubSeq(os, 1, l)[i] = os[i]
      BY ONLY <3>1, Prefix
    <3>. QED
      BY <2>3, <3>2
  <2>. HIDE DEF t
  <2>5. /\ Len(t \o r) = l + z
        /\ \A i \in 1..(l + z) : (t \o r)[i] = IF i <= l THEN t[i] ELSE r[i - l]
    BY <2>1, <2>4, ConcatProperties DEF z
  <2>6. \A i \in 1..l : i \in 1..(l + z) /\ i <= l
    BY <1>2, <2>1, <2>2
  <2>7. \A i \in 1..l : (t \o r)[i] = os[i]
    BY <2>4, <2>5, <2>6
  <2>8. Len(os') = l + z
    BY <1>1, <2>5
  <2>9. Len(os') >= l /\ Len(os') <= l + 1
    BY <1>2, <2>1, <2>2, <2>8
  <2>. QED
    BY <1>1, <2>7, <2>9 DEF l
<1>11. AllBases(acts') = AllBases(acts)
  <2>1. Len(acts) > 0
    BY <1>2, <1>3
  <2>. QED
    BY <1>1, <1>2, <2>1, BasesFront
<1>12. ExecuteMarks' = ExecuteMarks
  <2>. DEFINE q == Opens(native)
  <2>1. q \in Nat /\ N = 2 * q
    <3>1. ~InCode
      BY <1>1 DEF InCode, HostTop
    <3>. QED
      BY <3>1, OpensNow
  <2>2. Len(native') = N - 1 /\ \A j \in 1..(N - 1) : native'[j] = native[j]
    <3>1. native \in Seq(NativeType) /\ Len(native) > 0
      BY <1>2, <1>3
    <3>2. Len(Front(native)) = N - 1 /\ \A j \in 1..(N - 1) : Front(native)[j] = native[j]
      BY ONLY <3>1, FrontIs
    <3>. QED
      BY <1>1, <3>2
  <2>. HIDE DEF q, N
  <2>3. N - 1 \in Nat /\ N - 1 = 2 * q - 1
    BY <1>2, <1>3, <2>1
  <2>4. Opens(native') = q
    BY <2>1, <2>2, <2>3, HalfIs DEF Opens
  <2>5. \A j \in 1..(2 * q - 1) : native'[j] = native[j]
    BY <2>2, <2>3
  <2>6. Len(acts') = n - 1 /\ \A j \in 1..(n - 1) : acts'[j] = acts[j]
    BY <1>1, <1>2, <1>3, FrontIs
  <2>7. st.as_index <= Len(acts') /\ \A j \in 1..st.as_index : acts'[j] = acts[j]
    <3>. DEFINE i == st.as_index
                m == n - 1
    <3>1. i \in Nat /\ i <= m /\ m \in Nat /\ Len(acts') = m /\ \A j \in 1..m : acts'[j] = acts[j]
      BY <1>2, <1>3, <1>8, <2>6
    <3>. HIDE DEF i, m
    <3>2. i <= Len(acts') /\ \A j \in 1..i : j \in 1..m
      BY <3>1
    <3>. QED
      BY <3>1, <3>2 DEF i
  <2>. QED
    BY <1>1, <1>3, <2>4, <2>5, <2>7, MarksKept DEF q
<1>. HIDE DEF k
<1>. QED
  BY <1>1, <1>3, <1>4, <1>9, <1>10, <1>11, <1>12, IsCompute

\* A call of a host function, and exit: the activations with operands of their
\* own, and the open executes, are the same.
LEMMA CallHostIsStutter ==
  ASSUME CallInv, CallInv', NEW f \in Functions, CallHost(f)
  PROVE  UNCHANGED CF!fvars
<1>. DEFINE x == Frame("null", 0, f)
            N == Len(native)
            n == Len(acts)
            y == InHost(f)
<1>1. Running /\ acts' = Append(acts, x) /\ native' = Append(native, y) /\ UNCHANGED <<os, last, st>>
  BY DEF CallHost, CanCall
<1>2. /\ acts \in Seq(FrameType) /\ native \in Seq(NativeType) /\ n \in Nat /\ N \in Nat
      /\ remaining \in 0..MaxStack
  BY Typed
<1>3. InCode /\ ~Idle
  BY <1>1 DEF Running, InCode
<1>4. x \in FrameType /\ x.pc = "null"
  BY DEF Frame, FrameType, Return_to
<1>5. y \in NativeType
  <2>1. NoState \in StateType
    BY DEF NoState, StateType, Return_to, Flag
  <2>. QED
    BY <1>2, <2>1 DEF InHost, NativeType
<1>. HIDE DEF x, y
<1>6. AllBases(acts') = AllBases(acts)
  BY <1>1, <1>2, <1>4, BasesGrow
<1>7. ActFrames' = ActFrames
  <2>1. CallInv' => EdgeInv'
    BY EdgesNow, PTL
  <2>2. Edges' = CutAt(acts', last', os') /\ ActFrames' = FramesOf(Edges', os')
    BY <2>1 DEF EdgeInv
  <2>3. Edges = CutAt(acts, last, os) /\ ActFrames = FramesOf(Edges, os)
    BY EdgesNow DEF EdgeInv
  <2>4. Edges' = Edges
    BY <1>1, <1>6, <2>2, <2>3 DEF CutAt
  <2>. QED
    BY <1>1, <2>2, <2>3, <2>4
<1>8. ExecuteMarks' = ExecuteMarks
  <2>. DEFINE q == Opens(native)
  <2>1. q \in Nat /\ N = 2 * q - 1
    BY <1>3, OpensNow
  <2>2. Len(native') = N + 1 /\ \A j \in 1..N : native'[j] = native[j]
    BY <1>1, <1>2, <1>5, AppendIs
  <2>. HIDE DEF q, N
  <2>3. N + 1 \in Nat /\ N + 1 = 2 * q
    BY <1>2, <2>1
  <2>4. Opens(native') = q
    BY <2>1, <2>2, <2>3, HalfIs DEF Opens
  <2>5. \A j \in 1..(2 * q - 1) : native'[j] = native[j]
    BY <2>1, <2>2
  <2>6. Len(acts') = n + 1 /\ \A j \in 1..n : acts'[j] = acts[j]
    BY <1>1, <1>2, <1>4, AppendIs
  <2>7. st.as_index \in Nat /\ st.as_index < n
    BY <1>3, CountNow
  <2>8. st.as_index <= Len(acts') /\ \A j \in 1..st.as_index : acts'[j] = acts[j]
    BY <1>2, <2>6, <2>7
  <2>. QED
    BY <1>1, <1>3, <2>4, <2>5, <2>8, MarksKept DEF q
<1>. QED
  BY <1>7, <1>8 DEF CF!fvars

\* exit only changes where the code goes on.
LEMMA ExitIsStutter ==
  ASSUME CallInv, CallInv', Exit
  PROVE  UNCHANGED CF!fvars
<1>1. HostTop /\ st' = [st EXCEPT !.pc = "halt", !.exiting = TRUE]
      /\ os' = os /\ acts' = acts /\ last' = last /\ native' = native
  BY DEF Exit
<1>2. st \in StateType /\ ~Idle
  BY <1>1, Typed DEF HostTop
<1>3. st'.as_index = st.as_index
  BY <1>1, <1>2 DEF StateType
<1>4. ActFrames' = ActFrames
  <2>1. CallInv' => EdgeInv'
    BY EdgesNow, PTL
  <2>2. Edges' = CutAt(acts', last', os') /\ ActFrames' = FramesOf(Edges', os')
    BY <2>1 DEF EdgeInv
  <2>3. Edges = CutAt(acts, last, os) /\ ActFrames = FramesOf(Edges, os)
    BY EdgesNow DEF EdgeInv
  <2>. QED
    BY <1>1, <2>2, <2>3
<1>5. ExecuteMarks' = ExecuteMarks
  <2>1. st.as_index <= Len(acts')
    BY <1>1, <1>2, CountNow
  <2>. QED
    BY <1>1, <1>2, <1>3, <2>1, MarksKept
<1>. QED
  BY <1>4, <1>5 DEF CF!fvars

\* execute
LEMMA ExecuteIsEnter ==
  ASSUME CallInv, CallInv', NEW f \in Functions, NEW args \in Args(f), Execute(f, args)
  PROVE  CF!Enter
<1>. DEFINE x == Frame("halt", last, f)
            N == Len(native)
            n == Len(acts)
            o == Len(os)
            ex == InExecute(f)
            ho == InHost(f)
            nat1 == Append(native, ex)
            z == IF f \in Imports THEN <<ho>> ELSE <<>>
            c == Count(acts)
            F == ActFrames
            G == ActFrames'
            e == Edges
            e2 == Edges'
            ops == os \o args
<1>1. /\ Idle \/ HostTop
      /\ os' = (IF f \in Imports THEN ops ELSE ops \o Locals0(f)) /\ last' = Len(ops) - Params[f]
      /\ acts' = Append(acts, x) /\ native' = nat1 \o z
  BY DEF Execute
<1>2. /\ os \in Seq(Values) /\ acts \in Seq(FrameType) /\ native \in Seq(NativeType)
      /\ o \in Nat /\ n \in Nat /\ N \in Nat /\ last \in Nat /\ TypeInv /\ Alternate(native)
      /\ st \in StateType /\ remaining \in 0..MaxStack
  BY Typed
<1>3. x \in FrameType /\ x.pc # "null" /\ x.last = last
  BY <1>2, FunctionAssumption DEF Frame, FrameType, Return_to
<1>4. ex \in NativeType /\ ex.st = st
  BY <1>2 DEF InExecute, NativeType
<1>5. ho \in NativeType
  <2>1. NoState \in StateType
    BY DEF NoState, StateType, Return_to, Flag
  <2>. QED
    BY <1>2, <2>1 DEF InHost, NativeType
<1>6. st'.as_index = n
  BY <1>2 DEF Execute, StateType
<1>. HIDE DEF x, ex, ho
<1>7. AllBases(acts') = Append(AllBases(acts), last)
  BY <1>1, <1>2, <1>3, BasesGrow
<1>8. last' = o /\ \A i \in 1..o : os'[i] = os[i]
  <2>. DEFINE k == Params[f]
              l == Locals[f]
              z0 == Locals0(f)
  <2>1. k \in Nat /\ l \in Nat
    BY FunctionAssumption
  <2>2. args \in Seq(Values) /\ Len(args) = k
    <3>1. args \in [1..k -> Values]
      BY DEF Args
    <3>. HIDE DEF k
    <3>. QED
      BY <2>1, <3>1
  <2>3. z0 \in Seq(Values) /\ Len(z0) = l
    <3>1. z0 \in [1..l -> Values]
      BY BoundAssumption DEF Locals0
    <3>. HIDE DEF l, z0
    <3>. QED
      BY <2>1, <3>1
  <2>4. ops \in Seq(Values) /\ Len(ops) = o + k
        /\ \A i \in 1..(o + k) : ops[i] = IF i <= o THEN os[i] ELSE args[i - o]
    <3>. HIDE DEF k
    <3>. QED
      BY <1>2, <2>2, ConcatProperties
  <2>. HIDE DEF ops, k, l, z0, o
  <2>5. last' = o
    BY <1>1, <1>2, <2>1, <2>4 DEF k
  <2>6. \A i \in 1..o : ops[i] = os[i]
    <3>1. \A i \in 1..o : i \in 1..(o + k) /\ i <= o
      BY <1>2, <2>1
    <3>. QED
      BY <2>4, <3>1
  <2>7. \A i \in 1..o : (ops \o z0)[i] = ops[i]
    <3>1. \A i \in 1..(Len(ops) + Len(z0)) :
            (ops \o z0)[i] = IF i <= Len(ops) THEN ops[i] ELSE z0[i - Len(ops)]
      BY <2>3, <2>4, ConcatProperties
    <3>2. \A i \in 1..o : i \in 1..(Len(ops) + Len(z0)) /\ i <= Len(ops)
      BY <1>2, <2>1, <2>3, <2>4
    <3>. QED
      BY <3>1, <3>2
  <2>. QED
    BY <1>1, <2>5, <2>6, <2>7 DEF z0
<1>9. /\ c \in Nat /\ Cuts(e, os) /\ Cuts(e2, os') /\ Len(e) = c + 2 /\ Len(e2) = c + 3
      /\ \A j \in 1..(c + 1) : e2[j] = e[j]
      /\ e[c + 2] = o /\ e2[c + 2] = last'
  <2>. HIDE DEF c
  <2>. QED
    BY <1>7, EdgesPushed DEF c
<1>10. F = FramesOf(e, os) /\ G = FramesOf(e2, os')
  BY EdgesThen
<1>11. Len(G) = Len(F) + 1 /\ CF!Front(G) = F /\ Len(F) = c
  <2>. HIDE DEF c, e, e2
  <2>1. Len(e2) = Len(e) + 1
    BY <1>9
  <2>2. \A j \in 1..Len(e) : e2[j] = e[j]
    <3>1. \A j \in 1..(c + 2) : j \in 1..(c + 1) \/ j = c + 2
      BY <1>9
    <3>. QED
      BY <1>8, <1>9, <3>1
  <2>3. \A i \in 1..Len(os) : os'[i] = os[i]
    BY <1>8
  <2>4. Cuts(e, os) /\ Cuts(e2, os')
    BY <1>9
  <2>5. /\ Len(FramesOf(e2, os')) = Len(FramesOf(e, os)) + 1
        /\ CF!Front(FramesOf(e2, os')) = FramesOf(e, os)
    BY ONLY <2>1, <2>2, <2>3, <2>4, FramesEnter
  <2>6. Len(FramesOf(e, os)) = c
    <3>1. Len(e) >= 2 /\ Len(FramesOf(e, os)) = Len(e) - 2
      BY <2>4, FramesAre DEF Cuts
    <3>. QED
      BY <1>9, <3>1
  <2>. QED
    BY <1>10, <2>5, <2>6
<1>12. ExecuteMarks' = Append(ExecuteMarks, c)
  <2>. DEFINE q == Opens(native)
  <2>1. q \in Nat /\ N = 2 * q
    <3>1. ~InCode
      BY <1>1 DEF InCode, HostTop
    <3>. QED
      BY <3>1, OpensNow
  <2>2. nat1 \in Seq(NativeType) /\ Len(nat1) = N + 1 /\ nat1[N + 1] = ex /\ \A j \in 1..N : nat1[j] = native[j]
    BY <1>2, <1>4, AppendIs
  <2>3. /\ Len(native') = N + 1 \/ Len(native') = N + 2
        /\ native'[N + 1] = ex /\ \A j \in 1..N : native'[j] = native[j]
    <3>. HIDE DEF nat1, N
    <3>1. CASE f \in Imports
      <4>1. native' = Append(nat1, ho)
        BY <1>1, <1>5, <2>2, <3>1
      <4>2. Len(native') = Len(nat1) + 1 /\ \A j \in 1..Len(nat1) : native'[j] = nat1[j]
        BY <1>5, <2>2, <4>1, AppendIs
      <4>3. Len(nat1) + 1 = N + 2 /\ N + 1 \in 1..Len(nat1) /\ \A j \in 1..N : j \in 1..Len(nat1)
        BY <1>2, <2>2
      <4>. QED
        BY <2>2, <4>2, <4>3
    <3>2. CASE f \notin Imports
      <4>1. native' = nat1
        BY <1>1, <2>2, <3>2, ConcatEmptySeq
      <4>. QED
        BY <2>2, <4>1
    <3>. QED
      BY <3>1, <3>2
  <2>. HIDE DEF q, N
  <2>4. Opens(native') = q + 1
    <3>. DEFINE w == Len(native')
                g == q + 1
    <3>1. w \in Nat /\ g \in Nat /\ (w = 2 * g \/ w = 2 * g - 1)
      BY <1>2, <2>1, <2>3
    <3>. HIDE DEF w, g
    <3>2. (w + 1) \div 2 = g
      BY <3>1, HalfIs
    <3>. QED
      BY <3>2 DEF w, g, Opens
  <2>5. (\A j \in 1..(2 * q) : native'[j] = native[j]) /\ native'[2 * q + 1].st = st
    BY <1>4, <2>1, <2>3
  <2>6. Len(acts) <= Len(acts') /\ \A j \in 1..Len(acts) : acts'[j] = acts[j]
    <3>1. Len(acts') = n + 1 /\ \A j \in 1..n : acts'[j] = acts[j]
      BY <1>1, <1>2, <1>3, AppendIs
    <3>. QED
      BY <1>2, <3>1
  <2>7. q > 0 => st.as_index \in Nat /\ st.as_index < Len(acts)
    <3>. SUFFICES ASSUME q > 0 PROVE st.as_index \in Nat /\ st.as_index < Len(acts)
      OBVIOUS
    <3>1. N # 0
      BY <2>1
    <3>2. ~Idle
      BY <1>2, <3>1, Tops DEF N
    <3>. QED
      BY <3>2, CountNow
  <2>. QED
    BY <1>6, <2>4, <2>5, <2>6, <2>7, MarksGrow DEF q
<1>. HIDE DEF F, G, c
<1>. QED
  BY <1>11, <1>12 DEF CF!Enter, F, G

\* Activation k + 1 of a, with bases b, has operands of its own; f are the edges
\* of all of them, and c counts those below it.
OwnOperands(a, b, u, l, o, k, f, c) ==
  /\ a \in Seq(FrameType) /\ b \in [0..Len(a) -> Nat] /\ Frames(a, b, u)
  /\ o \in Seq(Values) /\ l \in Nat /\ l = b[Len(a)] /\ l <= Len(o)
  /\ k \in 0..(Len(a) - 1) /\ a[k + 1].pc # "null"
  /\ f = CutAt(a, l, o) /\ c = Len(BasesOf(a)[k])

\* The edges up to its base do not depend on the activations above.
LEMMA EdgesUpTo ==
  ASSUME NEW a, NEW b, NEW u, NEW l, NEW o, NEW k, NEW f, NEW c,
         OwnOperands(a, b, u, l, o, k, f, c)
  PROVE  /\ c \in Nat /\ c + 2 <= Len(f) /\ f[c + 1] = b[k] /\ f[c + 2] = b[k + 1]
         /\ \A j \in 1..c : f[j] = BasesOf(a)[k][j]
<1>. DEFINE n == Len(a)
            B == BasesOf(a)[k]
            d == EdgesAt(a, b, k)
            e == EdgesAt(a, b, k + 1)
            g == EdgesAt(a, b, n)
<1>. USE DEF OwnOperands
<1>1. n \in Nat /\ n \in 0..n /\ k \in 0..n /\ k + 1 \in 0..n /\ n \in (k + 1)..n /\ Len(o) \in Nat
  BY LenProperties
<1>2. B \in Seq(Nat) /\ b[k] \in Nat /\ b[k + 1] \in Nat
  BY <1>1, BasesAre
<1>3. g \in Seq(Nat)
  BY <1>1, EdgesSorted
<1>4. e = Append(d, b[k + 1])
  BY EdgesGrow
<1>5. Extends(g, e)
  BY <1>1, EdgesExtend
<1>6. f = Append(g, Len(o))
  BY CutsAt
<1>. HIDE DEF n, B, e, g
<1>7. d \in Seq(Nat) /\ c \in Nat /\ Len(d) = c + 1 /\ d[c + 1] = b[k] /\ \A j \in 1..c : d[j] = B[j]
  <2>1. d = Append(B, b[k]) /\ c = Len(B)
    BY DEF EdgesAt, B
  <2>. HIDE DEF d
  <2>. QED
    BY <1>2, <2>1, AppendIs, LenProperties
<1>. HIDE DEF d
<1>8. Len(e) = c + 2 /\ e[c + 2] = b[k + 1] /\ \A j \in 1..(c + 1) : e[j] = d[j]
  <2>. DEFINE x == b[k + 1]
  <2>1. Len(e) = Len(d) + 1 /\ e[Len(d) + 1] = x /\ \A j \in 1..Len(d) : e[j] = d[j]
    <3>1. d \in Seq(Nat) /\ x \in Nat /\ e = Append(d, x)
      BY <1>2, <1>4, <1>7
    <3>. HIDE DEF x
    <3>. QED
      BY ONLY <3>1, AppendIs
  <2>2. Len(d) + 1 = c + 2
    BY <1>7
  <2>. QED
    BY <1>7, <2>1, <2>2
<1>9. Len(f) = Len(g) + 1 /\ \A j \in 1..Len(g) : f[j] = g[j]
  BY <1>1, <1>3, <1>6, AppendIs
<1>10. Len(g) \in Nat /\ c + 2 <= Len(g) /\ \A j \in 1..(c + 2) : g[j] = e[j]
  BY <1>3, <1>5, <1>8, LenProperties DEF Extends
<1>11. \A j \in 1..(c + 2) : f[j] = e[j]
  <2>1. \A j \in 1..(c + 2) : j \in 1..Len(g)
    BY <1>7, <1>10
  <2>. QED
    BY <1>9, <1>10, <2>1
<1>12. c + 1 \in 1..(c + 2) /\ c + 2 \in 1..(c + 2) /\ c + 1 \in 1..(c + 1)
       /\ \A j \in 1..c : j \in 1..(c + 1) /\ j \in 1..(c + 2)
  <2>1. c \in Nat
    BY <1>7
  <2>. QED
    BY ONLY <2>1
<1>13. c + 2 <= Len(f)
  BY <1>7, <1>9, <1>10
<1>. QED
  BY <1>7, <1>8, <1>11, <1>12, <1>13 DEF B

\* The activations of the innermost execute are above those it has found, and
\* it has saved where the last of those begins.
LEMMA ExecuteBegan ==
  ASSUME CallInv, ~Idle, NEW b \in [0..Len(acts) -> Nat], NEW u \in [0..Len(acts) -> Nat],
         Frames(acts, b, u), Saved(native, st, acts, b, u),
         Current(native, st, last, remaining, Len(acts), Len(os), acts, b, u)
  PROVE  /\ acts[st.as_index + 1].pc = "halt" /\ b[st.as_index + 1] = st.os_index
         /\ native[Innermost].last = b[st.as_index]
<1>. DEFINE k == st.as_index
            i == Innermost
            e == native[i]
<1>1. TypeInv /\ Alternate(native) /\ Nested(native, st)
  BY Typed
<1>2. acts[k + 1].pc = "halt" /\ b[k + 1] = st.os_index
  <2>1. CASE InCode
    BY <2>1, CodeFacts DEF Level
  <2>2. CASE HostTop
    <3>1. AtHost(native[Len(native)], native[Len(native) - 1], st, last, remaining,
                 Len(acts), Len(os), acts, b, u)
      BY <2>2, OutsideCode
    <3>. QED
      BY <3>1 DEF AtHost, FromCode, Direct, Level
  <2>. QED
    BY <1>1, <2>1, <2>2, Tops
<1>3. i \in 1..Len(native) /\ IsExecute(native, i)
  BY <1>1, InnermostIs DEF IsExecute
<1>4. StateIn(i, native, st) = st
  BY <1>1, Within
<1>. HIDE DEF i
<1>5. Outside(i - 1, native, e.st, e.last, e.remaining, k, st.os_index, acts, b, u)
  BY <1>3, <1>4 DEF Saved
<1>6. e.last = b[k]
  <2>1. CASE i - 1 = 0
    <3>1. e.last = 0 /\ k = 0
      BY <1>5, <2>1 DEF Outside, Clean
    <3>. QED
      BY <3>1 DEF Frames
  <2>2. CASE i - 1 # 0
    BY <1>5, <2>2 DEF Outside, AtHost
  <2>. QED
    BY <2>1, <2>2
<1>. QED
  BY <1>2, <1>6 DEF i

\* However an execute ends, the activations it has found are left as they were.
LEMMA CleanupIsLeave ==
  ASSUME CallInv, CallInv', ~Idle, Cleanup
  PROVE  CF!Leave
<1>. DEFINE i == Innermost
            k == st.as_index
            y == st.os_index
            q == Len(BasesOf(acts)[k])
            f == Edges
            f2 == Edges'
            F == ActFrames
            G == ActFrames'
<1>1. /\ os' = SubSeq(os, 1, y) /\ acts' = SubSeq(acts, 1, k) /\ st' = native[i].st
      /\ last' = native[i].last /\ native' = SubSeq(native, 1, i - 1)
  BY DEF Cleanup
<1>2. /\ os \in Seq(Values) /\ acts \in Seq(FrameType) /\ native \in Seq(NativeType)
      /\ Len(os) \in Nat /\ Len(acts) \in Nat /\ Len(native) \in Nat /\ last \in Nat
      /\ TypeInv /\ Alternate(native) /\ Nested(native, st)
  BY Typed
<1>3. PICK b \in [0..Len(acts) -> Nat], u \in [0..Len(acts) -> Nat] :
        /\ Frames(acts, b, u) /\ Saved(native, st, acts, b, u)
        /\ Current(native, st, last, remaining, Len(acts), Len(os), acts, b, u)
  BY DEF CallInv
<1>4. k \in Nat /\ k < Len(acts) /\ y \in Nat /\ y <= Len(os) /\ last <= Len(os)
  BY <1>2, <1>3, Within
<1>5. acts[k + 1].pc = "halt" /\ b[k + 1] = y /\ native[i].last = b[k]
  BY <1>3, ExecuteBegan
<1>6. last = b[Len(acts)]
  <2>1. CASE InCode
    BY <1>3, <2>1, CodeFacts
  <2>2. CASE HostTop
    BY <1>3, <2>2, OutsideCode
  <2>. QED
    BY <1>2, <2>1, <2>2, Tops
<1>7. k \in 0..(Len(acts) - 1) /\ k \in 0..Len(acts) /\ y \in 0..Len(os)
  BY <1>2, <1>4
<1>8. f = CutAt(acts, last, os) /\ F = FramesOf(f, os) /\ Cuts(f, os)
  BY EdgesNow DEF EdgeInv, HasEdges
<1>9. G = FramesOf(f2, os') /\ HasEdges(f2, acts', last', os')
  BY EdgesThen
<1>. HIDE DEF i, k, y, f, f2, F, G
<1>10. /\ q \in Nat /\ q + 2 <= Len(f) /\ f[q + 1] = b[k] /\ f[q + 2] = b[k + 1]
       /\ \A j \in 1..q : f[j] = BasesOf(acts)[k][j]
  <2>1. OwnOperands(acts, b, u, last, os, k, f, q)
    BY <1>2, <1>3, <1>4, <1>5, <1>6, <1>7, <1>8 DEF OwnOperands
  <2>. HIDE DEF q
  <2>. QED
    BY ONLY <2>1, EdgesUpTo
<1>11. AllBases(acts') = BasesOf(acts)[k] /\ Count(acts') = q
  BY <1>1, <1>2, <1>7, BasesCut DEF Count
<1>12. Len(os') = y /\ \A j \in 1..Len(os') : os'[j] = os[j]
  BY <1>1, <1>2, <1>7, Prefix
<1>13. /\ Cuts(f2, os') /\ Len(f2) = q + 2 /\ f2[q + 1] = last' /\ f2[q + 2] = Len(os')
       /\ \A j \in 1..q : f2[j] = BasesOf(acts)[k][j]
  BY <1>9, <1>11 DEF HasEdges
<1>. HIDE DEF q
<1>14. \A j \in 1..(q + 2) : f2[j] = f[j]
  <2>1. \A j \in 1..(q + 2) : j \in 1..q \/ j = q + 1 \/ j = q + 2
    <3>1. q \in Nat
      BY <1>10
    <3>. QED
      BY ONLY <3>1
  <2>. QED
    BY <1>1, <1>5, <1>10, <1>12, <1>13, <2>1
<1>15. FramesOf(f2, os') = SubSeq(FramesOf(f, os), 1, q)
  <2>1. LeftOf(f, os, f2, os', q)
    BY <1>8, <1>10, <1>12, <1>13, <1>14 DEF LeftOf
  <2>. QED
    BY ONLY <2>1, FramesLeave
<1>16. G = SubSeq(F, 1, q)
  BY <1>8, <1>9, <1>15
<1>17. ExecuteMarks # <<>> /\ CF!Last(ExecuteMarks) = q
  BY LastMark DEF q, k
<1>18. ExecuteMarks' = CF!Front(ExecuteMarks)
  <2>. DEFINE h == Opens(native)
              N == Len(native)
  <2>1. h \in Nat /\ N \in Nat /\ N = IF InCode THEN 2 * h - 1 ELSE 2 * h
    BY OpensNow
  <2>2. i \in 1..N /\ i = IF InCode THEN N ELSE N - 1
    BY <1>2, InnermostIs DEF i
  <2>. HIDE DEF h, N
  <2>3. i = 2 * h - 1 /\ i - 1 = 2 * h - 2 /\ i - 1 \in 0..N
    BY <2>1, <2>2
  <2>. DEFINE m == i - 1
  <2>4. Len(native') = m /\ \A j \in 1..m : native'[j] = native[j]
    <3>1. m \in 0..Len(native) /\ native' = SubSeq(native, 1, m)
      BY <1>1, <2>3 DEF N
    <3>. HIDE DEF m
    <3>. QED
      BY <1>2, <3>1, Prefix
  <2>5. m \in Nat /\ h - 1 \in Nat /\ m = 2 * (h - 1)
    BY <2>1, <2>2, <2>3
  <2>. HIDE DEF m
  <2>6. Opens(native') = h - 1
    <3>. DEFINE g == h - 1
    <3>1. m \in Nat /\ g \in Nat /\ m = 2 * g
      BY <2>5
    <3>. HIDE DEF g
    <3>2. (m + 1) \div 2 = g
      BY <3>1, HalfIs
    <3>. QED
      BY <2>4, <3>2 DEF Opens, g
  <2>7. \A j \in 1..(2 * h - 2) : native'[j] = native[j]
    BY <2>3, <2>4 DEF m
  <2>8. st' = native[2 * h - 1].st
    BY <1>1, <2>3
  <2>9. Len(acts') = st.as_index /\ \A j \in 1..st.as_index : acts'[j] = acts[j]
    BY <1>1, <1>2, <1>7, Prefix DEF k
  <2>. QED
    BY <2>6, <2>7, <2>8, <2>9, MarksShrink DEF h
<1>. QED
  BY <1>16, <1>17, <1>18 DEF CF!Leave, F, G

\* Nothing runs at first.
LEMMA StartIsStart ==
  ASSUME Init
  PROVE  CF!CFInit
<1>1. CallInv
  BY InitStep
<1>2. os = <<>> /\ acts = <<>> /\ native = <<>>
  BY DEF Init
<1>3. Len(acts) = 0 /\ Len(native) = 0 /\ acts \in Seq(FrameType)
  BY <1>1, <1>2, Typed, EmptyIs
<1>4. /\ ActFrames = FramesOf(Edges, os) /\ HasEdges(Edges, acts, last, os)
  BY <1>1, EdgesNow DEF EdgeInv
<1>5. Count(acts) = 0
  <2>1. BasesOf(acts)[0] = <<>>
    BY <1>3, BasesAre
  <2>. QED
    BY <1>3, <2>1 DEF Count, AllBases
<1>6. ActFrames = <<>>
  <2>1. Cuts(Edges, os) /\ Len(Edges) = 0 + 2
    BY <1>4, <1>5 DEF HasEdges
  <2>2. FramesOf(Edges, os) \in Seq(Seq(Values)) /\ Len(FramesOf(Edges, os)) = Len(Edges) - 2
    BY <2>1, FramesAre DEF Cuts
  <2>3. Len(FramesOf(Edges, os)) = 0
    BY <2>1, <2>2
  <2>. QED
    BY <1>4, <2>2, <2>3, EmptyIs
<1>7. ExecuteMarks = <<>>
  <2>1. ExecuteMarks \in Seq(Nat) /\ Len(ExecuteMarks) = Opens(native)
    BY <1>1, MarksNow DEF MarkInv, HasMarks
  <2>2. Opens(native) = 0
    BY <1>3 DEF Opens
  <2>. QED
    BY <2>1, <2>2, EmptyIs
<1>. QED
  BY <1>6, <1>7 DEF CF!CFInit

\* Nothing changes in the frames when nothing changes in the machine.
LEMMA StutterIsStutter ==
  ASSUME CallInv, CallInv', UNCHANGED vars
  PROVE  UNCHANGED CF!fvars
<1>1. /\ os' = os /\ acts' = acts /\ last' = last /\ remaining' = remaining /\ st' = st
      /\ native' = native
  BY DEF vars
<1>2. Bases' = Bases
  BY <1>1 DEF Bases
<1>3. ActFrames' = ActFrames
  BY <1>1, <1>2 DEF ActFrames, Edges
<1>4. ExecuteMarks' = ExecuteMarks
  BY <1>1, <1>2 DEF ExecuteMarks, OpenExecutes, AsIndex
<1>. QED
  BY <1>3, <1>4 DEF CF!fvars

\* Every step of the machine is one of its activations, or none.
LEMMA StepIsStep ==
  ASSUME CallInv, [Next]_vars
  PROVE  [CF!CFNext]_(CF!fvars)
<1>. USE NextStep
<1>1. CASE UNCHANGED vars
  BY <1>1, StutterIsStutter
<1>2. ASSUME NEW f \in Functions, NEW args \in Args(f), Execute(f, args) PROVE CF!Enter
  BY <1>2, ExecuteIsEnter
<1>3. CASE (\E v \in Values : Push(v)) \/ Pop
  BY <1>3, PushPopIsCompute DEF CF!CFNext
<1>4. ASSUME NEW i \in 0..MaxOperands, SetOperand(i) PROVE CF!SetLocal
  BY <1>4, SetOperandIsSetLocal
<1>5. ASSUME NEW f \in Functions, CallFunction(f) PROVE CF!Call
  BY <1>5, CallFunctionIsCall
<1>6. ASSUME NEW f \in Functions, CallHost(f) PROVE UNCHANGED CF!fvars
  BY <1>6, CallHostIsStutter
<1>7. CASE Return
  BY <1>7, ReturnIsReturn DEF CF!CFNext
<1>8. CASE ReturnFromExecute \/ Throw \/ HostReturnEnds
  <2>1. ~Idle /\ Cleanup
    BY <1>8 DEF ReturnFromExecute, Throw, HostReturnEnds, Running, InCode, HostTop
  <2>. QED
    BY <2>1, CleanupIsLeave DEF CF!CFNext
<1>9. CASE Exit
  BY <1>9, ExitIsStutter
<1>10. ASSUME NEW v \in Values, HostReturn(v) PROVE CF!Compute
  BY <1>10, HostReturnIsCompute
<1>11. CASE Reset
  BY <1>1, <1>11, ResetStep
<1>. QED
  BY <1>1, <1>2, <1>3, <1>4, <1>5, <1>6, <1>7, <1>8, <1>9, <1>10, <1>11 DEF Next, CF!CFNext

\* One operand stack, with the indices that frames and executes save, keeps
\* every activation's operands apart: calls, returns, host functions, nested
\* executes, exits and exceptions are steps of separate activations (execute,
\* call, apply_pop_call, exit).
THEOREM CallsKeptApart == Spec => ImplementsCallFrames
<1>1. Init => CF!CFInit
  BY StartIsStart
<1>2. CallInv /\ [Next]_vars => [CF!CFNext]_(CF!fvars)
  BY StepIsStep
<1>3. Spec => []CallInv
  BY CallInvariant
<1>. QED
  BY <1>1, <1>2, <1>3, PTL DEF Spec, ImplementsCallFrames, CF!CFSpec
=============================================================================
