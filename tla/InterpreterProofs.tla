------------------------- MODULE InterpreterProofs -------------------------
(***************************************************************************)
(* The invariants of Interpreter, for any functions, stack sizes, limit on *)
(* the call depth and nesting of executes and host functions.              *)
(***************************************************************************)
EXTENDS Interpreter, SequenceTheorems, WellFoundedInduction, TLAPS

Return_to == Functions \cup {"halt", "null"}
Flag      == BOOLEAN

FrameType  == [pc : Return_to, last : Nat, callee : Functions]
StateType  == [as_index : Nat, os_index : Nat, pc : Return_to, exiting : Flag]
NativeType == [kind : {"execute", "host"}, f : Functions, last : Nat,
               remaining : 0..MaxStack, st : StateType]

TypeInv ==
  /\ os \in Seq(Values) /\ acts \in Seq(FrameType) /\ native \in Seq(NativeType)
  /\ last \in Nat /\ remaining \in 0..MaxStack /\ st \in StateType

\* What the frame of a function holds before its operands.
Need(c) == Params[c] + Locals[c]

\* b[k] is where the operands of activation k begin and u[k] the call depth
\* the first k use; a frame saves what its caller needs.
Frames(a, b, u) ==
  /\ b[0] = 0 /\ u[0] = 0
  /\ \A k \in 1..Len(a) :
       /\ u[k] = u[k - 1] + StackSize[a[k].callee]
       /\ b[k] >= b[k - 1]
       /\ a[k].pc = "null" => b[k] = b[k - 1]
       /\ a[k].pc # "null" => a[k].last = b[k - 1]
       /\ a[k].pc \in Functions =>
            k >= 2 /\ a[k].pc = a[k - 1].callee /\ b[k] >= b[k - 1] + Need(a[k].pc)

\* Activations s.as_index + 1 .. n are those of the execute that has set s.
Level(s, n, a, b) ==
  /\ s.as_index \in 0..(n - 1) /\ a[s.as_index + 1].pc = "halt"
  /\ b[s.as_index + 1] = s.os_index
  /\ \A k \in (s.as_index + 2)..n : a[k].pc \in Functions
  /\ \A k \in (s.as_index + 1)..n : b[k] >= s.os_index

\* The machine with state s, _last_op_index l, depth r left, n activations and
\* o operands: in the code of execute e; in host function h, called from that
\* code or by execute itself; between calls of the embedder.
AtCode(e, s, l, r, n, o, a, b, u) ==
  /\ Level(s, n, a, b) /\ s.pc = a[n].callee
  /\ l = b[n] /\ r = MaxStack - u[n]
  /\ o >= l + Need(s.pc)
  /\ s.exiting = e.st.exiting

FromCode(h, e, s, n, o, a, b, u) ==
  /\ a[n].pc = "null"
  /\ Level(s, n - 1, a, b)
  /\ o >= b[n - 1] + Need(a[n - 1].callee) + Params[h.f]
  /\ s.pc = "halt" \/ (s.pc = a[n - 1].callee /\ s.exiting = e.st.exiting)
  /\ h.remaining = MaxStack - u[n - 1]

Direct(s, n, a, b) == n = s.as_index + 1 /\ Level(s, n, a, b)

AtHost(h, e, s, l, r, n, o, a, b, u) ==
  /\ n \in 1..Len(a)
  /\ l = b[n] /\ r = MaxStack - u[n]
  /\ o >= l /\ o >= s.os_index
  /\ FromCode(h, e, s, n, o, a, b, u) \/ Direct(s, n, a, b)

Clean(s, l, r, n, o) == s = NoState /\ l = 0 /\ r = MaxStack /\ n = 0 /\ o = 0

\* Outside the executes above element i of the C++ stack nat.
Outside(i, nat, s, l, r, n, o, a, b, u) ==
  IF i = 0 THEN Clean(s, l, r, n, o)
  ELSE AtHost(nat[i], nat[i - 1], s, l, r, n, o, a, b, u)

IsExecute(nat, i) == nat[i].kind = "execute"

\* The state while execute i of nat is the innermost one.
StateIn(i, nat, s) == IF i + 2 <= Len(nat) THEN nat[i + 2].st ELSE s

\* What execute i saves, and the indices it has taken, are those of the
\* machine when it began.
Saved(nat, s, a, b, u) ==
  \A i \in 1..Len(nat) : IsExecute(nat, i) =>
    Outside(i - 1, nat, nat[i].st, nat[i].last, nat[i].remaining,
            StateIn(i, nat, s).as_index, StateIn(i, nat, s).os_index, a, b, u)

\* Inner executes have begun with more activations.
Nested(nat, s) ==
  \A i, k \in 1..Len(nat) : i <= k /\ IsExecute(nat, i) /\ IsExecute(nat, k) =>
    StateIn(i, nat, s).as_index <= StateIn(k, nat, s).as_index

\* Executes and host calls alternate on the C++ stack.
Alternate(nat) ==
  /\ Len(nat) > 0 => nat[1].kind = "execute"
  /\ \A i \in 2..Len(nat) : nat[i].kind # nat[i - 1].kind

Current(nat, s, l, r, n, o, a, b, u) ==
  IF Len(nat) > 0 /\ nat[Len(nat)].kind = "execute"
  THEN AtCode(nat[Len(nat)], s, l, r, n, o, a, b, u)
  ELSE Outside(Len(nat), nat, s, l, r, n, o, a, b, u)

CallInv ==
  /\ TypeInv
  /\ Alternate(native)
  /\ Nested(native, st)
  /\ \E b, u \in [0..Len(acts) -> Nat] :
       /\ Frames(acts, b, u)
       /\ Saved(native, st, acts, b, u)
       /\ Current(native, st, last, remaining, Len(acts), Len(os), acts, b, u)

-----------------------------------------------------------------------------
(* Sequences.                                                              *)

\* A prefix of a sequence.
LEMMA Prefix ==
  ASSUME NEW S, NEW s \in Seq(S), NEW n \in 0..Len(s)
  PROVE  /\ SubSeq(s, 1, n) \in Seq(S) /\ Len(SubSeq(s, 1, n)) = n
         /\ \A i \in 1..n : SubSeq(s, 1, n)[i] = s[i]
<1>1. Len(s) \in Nat /\ \A i \in 1..n : s[i] \in S
  BY ElementOfSeq, LenProperties
<1>. QED
  BY <1>1, SubSeqProperties

\* Front takes the last element away.
LEMMA FrontIs ==
  ASSUME NEW S, NEW s \in Seq(S), Len(s) > 0
  PROVE  /\ Front(s) \in Seq(S) /\ Len(Front(s)) = Len(s) - 1
         /\ \A i \in 1..(Len(s) - 1) : Front(s)[i] = s[i]
<1>. DEFINE n == Len(s) - 1
<1>1. n \in 0..Len(s) /\ Front(s) = SubSeq(s, 1, n)
  BY LenProperties DEF Front
<1>2. \A i \in 1..n : SubSeq(s, 1, n)[i] = s[i]
  BY <1>1, Prefix
<1>3. SubSeq(s, 1, n) \in Seq(S) /\ Len(SubSeq(s, 1, n)) = n
  <2>. HIDE DEF n
  <2>. QED
    BY <1>1, Prefix
<1>. QED
  BY <1>1, <1>2, <1>3

\* Append keeps what is there.
LEMMA AppendIs ==
  ASSUME NEW S, NEW s \in Seq(S), NEW x \in S
  PROVE  /\ Append(s, x) \in Seq(S) /\ Len(Append(s, x)) = Len(s) + 1
         /\ \A i \in 1..Len(s) : Append(s, x)[i] = s[i]
         /\ Append(s, x)[Len(s) + 1] = x
  OBVIOUS

\* Only the empty sequence has no elements.
LEMMA EmptyIs ==
  ASSUME NEW S, NEW s \in Seq(S)
  PROVE  /\ Len(s) \in Nat /\ (s = <<>> <=> Len(s) = 0)
  BY EmptySeq, LenProperties

\* A set that holds 0, and with every number the next one up to n, holds all
\* of 0..n: induction on the length of a stack.
LEMMA Climb ==
  ASSUME NEW n \in Nat, NEW T, 0 \in T, \A k \in 0..(n - 1) : k \in T => k + 1 \in T
  PROVE  \A k \in 0..n : k \in T
<1>. DEFINE R == {k \in 0..n : k \notin T}
<1>. SUFFICES ASSUME R # {} PROVE FALSE
  OBVIOUS
<1>1. R \subseteq Nat
  OBVIOUS
<1>2. \E x \in R : \A y \in R : ~(<<y, x>> \in OpToRel(<, Nat))
  BY <1>1, WFMin, NatLessThanWellFounded, Zenon
<1>3. ASSUME NEW x \in Nat, NEW y \in Nat, x < y
      PROVE  <<x, y>> \in OpToRel(<, Nat)
  BY <1>3, Zenon DEF OpToRel
<1>4. PICK x \in R : \A y \in R : ~(y < x)
  BY <1>1, <1>2, <1>3, Zenon
<1>5. x \in 0..n /\ x \notin T /\ x # 0
  OBVIOUS
<1>6. x - 1 \in 0..(n - 1) /\ x - 1 \in 0..n /\ x - 1 < x /\ (x - 1) + 1 = x
  BY <1>5
<1>7. x - 1 \in T
  BY <1>4, <1>6
<1>. QED
  BY <1>5, <1>6, <1>7

-----------------------------------------------------------------------------
(* The C++ stack.                                                          *)

\* What Idle, InCode and HostTop say of the C++ stack.
LEMMA Tops ==
  ASSUME TypeInv, Alternate(native)
  PROVE  /\ Len(native) \in Nat /\ Len(acts) \in Nat /\ Len(os) \in Nat
         /\ Idle <=> Len(native) = 0
         /\ InCode <=> Len(native) > 0 /\ native[Len(native)].kind = "execute"
         /\ HostTop => Len(native) > 1 /\ native[Len(native)].kind = "host"
                       /\ native[Len(native) - 1].kind = "execute"
         /\ Idle \/ InCode \/ HostTop
<1>1. native \in Seq(NativeType) /\ acts \in Seq(FrameType) /\ os \in Seq(Values)
  BY DEF TypeInv
<1>2. Len(native) \in Nat /\ Len(acts) \in Nat /\ Len(os) \in Nat
  BY <1>1, LenProperties
<1>3. \A i \in 1..Len(native) : native[i].kind \in {"execute", "host"}
  <2>1. \A i \in 1..Len(native) : native[i] \in NativeType
    BY <1>1, ElementOfSeq
  <2>. QED
    BY <2>1 DEF NativeType
<1>4. Idle <=> Len(native) = 0
  BY <1>1, EmptyIs DEF Idle
<1>5. InCode <=> Len(native) > 0 /\ native[Len(native)].kind = "execute"
  BY <1>2, <1>4 DEF InCode, Last
<1>6. HostTop <=> Len(native) > 0 /\ native[Len(native)].kind = "host"
  BY <1>2, <1>4 DEF HostTop, Last
<1>7. Idle \/ InCode \/ HostTop
  BY <1>2, <1>3, <1>4, <1>5, <1>6
<1>8. HostTop => Len(native) > 1
  BY <1>2, <1>6 DEF Alternate
<1>9. HostTop => native[Len(native) - 1].kind = "execute"
  <2>1. HostTop => Len(native) \in 2..Len(native) /\ Len(native) - 1 \in 1..Len(native)
    BY <1>2, <1>8
  <2>2. HostTop => native[Len(native)].kind # native[Len(native) - 1].kind
    BY <2>1 DEF Alternate
  <2>. QED
    BY <1>3, <1>6, <2>1, <2>2
<1>. QED
  BY <1>2, <1>4, <1>5, <1>6, <1>7, <1>8, <1>9

\* The innermost execute is on top of the C++ stack, or below a host call.
LEMMA InnermostIs ==
  ASSUME TypeInv, Alternate(native), ~Idle
  PROVE  /\ Innermost \in 1..Len(native) /\ native[Innermost].kind = "execute"
         /\ Innermost = IF InCode THEN Len(native) ELSE Len(native) - 1
<1>. DEFINE k == IF InCode THEN Len(native) ELSE Len(native) - 1
<1>1. k \in 1..Len(native) /\ native[k].kind = "execute" /\ Len(native) \in Nat
  BY Tops
<1>2. \A i \in 1..Len(native) : native[i].kind = "execute" => i <= k
  BY Tops
<1>3. Innermost = k
  <2>. HIDE DEF k
  <2>. QED
    BY <1>1, <1>2 DEF Innermost, SelectLastInSeq, Max
<1>. QED
  BY <1>1, <1>3

-----------------------------------------------------------------------------
(* Activations.                                                            *)

\* The first n activations are the same.
Agree(n, a, b, u, a2, b2, u2) ==
  /\ \A k \in 1..n : a2[k] = a[k]
  /\ \A k \in 0..n : b2[k] = b[k] /\ u2[k] = u[k]

\* Whether n activations are those of an execute depends on them only.
LEMMA LevelAgrees ==
  ASSUME NEW n \in Nat, NEW s, NEW a, NEW b, NEW u, NEW a2, NEW b2, NEW u2,
         Agree(n, a, b, u, a2, b2, u2), Level(s, n, a, b)
  PROVE  Level(s, n, a2, b2)
<1>1. s.as_index \in 0..(n - 1) /\ a[s.as_index + 1].pc = "halt"
  BY DEF Level
<1>2. s.as_index + 1 \in 1..n
  BY <1>1
<1>3. a2[s.as_index + 1].pc = "halt"
  BY <1>1, <1>2 DEF Agree
<1>4. \A k \in (s.as_index + 2)..n : k \in 1..n /\ a[k].pc \in Functions
  BY <1>1 DEF Level
<1>5. \A k \in (s.as_index + 1)..n : k \in 0..n /\ b[k] >= s.os_index
  BY <1>1 DEF Level
<1>6. \A k \in (s.as_index + 2)..n : a2[k].pc \in Functions
  BY <1>4 DEF Agree
<1>7. \A k \in (s.as_index + 1)..n : b2[k] >= s.os_index
  BY <1>5 DEF Agree
<1>8. b2[s.as_index + 1] = s.os_index
  <2>1. b[s.as_index + 1] = s.os_index /\ s.as_index + 1 \in 0..n
    BY <1>2 DEF Level
  <2>. QED
    BY <2>1 DEF Agree
<1>. QED
  BY <1>1, <1>3, <1>6, <1>7, <1>8 DEF Level

\* So does what an execute saves.
LEMMA OutsideAgrees ==
  ASSUME NEW n \in Nat, NEW a, NEW b, NEW u, NEW a2, NEW b2, NEW u2,
         Agree(n, a, b, u, a2, b2, u2), Len(a2) \in Nat, n <= Len(a2),
         NEW i \in Nat, NEW nat, NEW nat2, i > 0 => nat2[i] = nat[i] /\ nat2[i - 1] = nat[i - 1],
         NEW s, NEW l, NEW r, NEW o, Outside(i, nat, s, l, r, n, o, a, b, u)
  PROVE  Outside(i, nat2, s, l, r, n, o, a2, b2, u2)
<1>1. CASE i = 0
  BY <1>1 DEF Outside
<1>2. CASE i # 0
  <2>. DEFINE h == nat[i]
              e == nat[i - 1]
  <2>1. nat2[i] = h /\ nat2[i - 1] = e
    BY <1>2
  <2>2. AtHost(h, e, s, l, r, n, o, a, b, u)
    BY <1>2 DEF Outside
  <2>. HIDE DEF h, e
  <2>3. n \in 1..Len(a2) /\ n \in 1..n
    BY <2>2 DEF AtHost
  <2>4. n \in 0..n /\ n - 1 \in 0..n
    BY <2>3
  <2>5. b2[n] = b[n] /\ u2[n] = u[n] /\ b2[n - 1] = b[n - 1] /\ u2[n - 1] = u[n - 1] /\ a2[n] = a[n]
    BY <2>3, <2>4 DEF Agree
  <2>6. FromCode(h, e, s, n, o, a, b, u) => FromCode(h, e, s, n, o, a2, b2, u2)
    <3>. SUFFICES ASSUME FromCode(h, e, s, n, o, a, b, u)
                  PROVE  FromCode(h, e, s, n, o, a2, b2, u2)
      OBVIOUS
    <3>1. Level(s, n - 1, a, b)
      BY DEF FromCode
    <3>2. Agree(n - 1, a, b, u, a2, b2, u2) /\ n - 1 \in Nat
      BY <2>3 DEF Agree
    <3>3. Level(s, n - 1, a2, b2)
      BY <3>1, <3>2, LevelAgrees
    <3>4. n - 1 \in 1..n
      BY <3>1, <2>3 DEF Level
    <3>5. a2[n - 1] = a[n - 1]
      BY <3>4 DEF Agree
    <3>. QED
      BY <2>5, <3>3, <3>5 DEF FromCode
  <2>7. Direct(s, n, a, b) => Direct(s, n, a2, b2)
    BY LevelAgrees DEF Direct
  <2>8. AtHost(h, e, s, l, r, n, o, a2, b2, u2)
    BY <2>2, <2>3, <2>5, <2>6, <2>7 DEF AtHost
  <2>. QED
    BY <1>2, <2>1, <2>8 DEF Outside
<1>. QED
  BY <1>1, <1>2

\* Activations above n are dropped.
LEMMA FramesCut ==
  ASSUME NEW a \in Seq(FrameType), NEW b \in [0..Len(a) -> Nat], NEW u \in [0..Len(a) -> Nat],
         Frames(a, b, u), NEW n \in 0..Len(a)
  PROVE  \E b2, u2 \in [0..n -> Nat] :
            /\ Frames(SubSeq(a, 1, n), b2, u2)
            /\ Agree(n, a, b, u, SubSeq(a, 1, n), b2, u2)
<1>. DEFINE a2 == SubSeq(a, 1, n)
            b2 == [k \in 0..n |-> b[k]]
            u2 == [k \in 0..n |-> u[k]]
<1>1. Len(a) \in Nat /\ Len(a2) = n /\ \A i \in 1..n : a2[i] = a[i]
  BY Prefix, LenProperties
<1>2. b2 \in [0..n -> Nat] /\ u2 \in [0..n -> Nat]
  BY <1>1
<1>3. Agree(n, a, b, u, a2, b2, u2)
  <2>. HIDE DEF a2
  <2>. QED
    BY <1>1 DEF Agree
<1>. HIDE DEF a2, b2, u2
<1>4. Frames(a2, b2, u2)
  <2>1. b2[0] = 0 /\ u2[0] = 0
    BY <1>3 DEF Agree, Frames
  <2>2. ASSUME NEW k \in 1..n
        PROVE  /\ u2[k] = u2[k - 1] + StackSize[a2[k].callee]
               /\ b2[k] >= b2[k - 1]
               /\ a2[k].pc = "null" => b2[k] = b2[k - 1]
               /\ a2[k].pc # "null" => a2[k].last = b2[k - 1]
               /\ a2[k].pc \in Functions =>
                    k >= 2 /\ a2[k].pc = a2[k - 1].callee /\ b2[k] >= b2[k - 1] + Need(a2[k].pc)
    <3>1. k \in 1..Len(a) /\ k \in 0..n /\ k - 1 \in 0..n /\ (k >= 2 => k - 1 \in 1..n)
      BY <1>1
    <3>2. /\ u2[k] = u[k] /\ u2[k - 1] = u[k - 1] /\ b2[k] = b[k] /\ b2[k - 1] = b[k - 1]
          /\ a2[k] = a[k] /\ (k >= 2 => a2[k - 1] = a[k - 1])
      BY <1>3, <3>1 DEF Agree
    <3>. QED
      BY <3>1, <3>2 DEF Frames
  <2>. QED
    BY <1>1, <2>1, <2>2 DEF Frames
<1>. QED
  BY <1>2, <1>3, <1>4 DEF a2

\* Frame x, whose operands begin at p, saves what its caller needs.
Fits(x, p, a, b) ==
  /\ p >= b[Len(a)]
  /\ x.pc = "null" => p = b[Len(a)]
  /\ x.pc # "null" => x.last = b[Len(a)]
  /\ x.pc \in Functions =>
       Len(a) >= 1 /\ x.pc = a[Len(a)].callee /\ p >= b[Len(a)] + Need(x.pc)

\* Frames and ghosts after frame x was pushed with base p.
Grown(a, b, u, x, p) ==
  \E b2, u2 \in [0..(Len(a) + 1) -> Nat] :
    /\ Frames(Append(a, x), b2, u2)
    /\ Agree(Len(a), a, b, u, Append(a, x), b2, u2)
    /\ b2[Len(a) + 1] = p /\ u2[Len(a) + 1] = u[Len(a)] + StackSize[x.callee]

\* Such a frame is pushed.
LEMMA FramesGrow ==
  ASSUME NEW a \in Seq(FrameType), NEW b \in [0..Len(a) -> Nat], NEW u \in [0..Len(a) -> Nat],
         Frames(a, b, u), NEW x \in FrameType, NEW p \in Nat, Fits(x, p, a, b)
  PROVE  Grown(a, b, u, x, p)
<1>. DEFINE n == Len(a)
            a2 == Append(a, x)
            b2 == [k \in 0..(n + 1) |-> IF k <= n THEN b[k] ELSE p]
            u2 == [k \in 0..(n + 1) |-> IF k <= n THEN u[k] ELSE u[n] + StackSize[x.callee]]
<1>1. n \in Nat /\ Len(a2) = n + 1 /\ a2[n + 1] = x /\ \A i \in 1..n : a2[i] = a[i]
  BY LenProperties
<1>2. StackSize[x.callee] \in Nat
  BY FunctionAssumption DEF FrameType
<1>3. b2 \in [0..(n + 1) -> Nat] /\ u2 \in [0..(n + 1) -> Nat]
  <2>. HIDE DEF a2
  <2>. QED
    BY <1>1, <1>2, SMTT(30)
<1>4. /\ Agree(n, a, b, u, a2, b2, u2)
      /\ b2[n + 1] = p /\ u2[n + 1] = u[n] + StackSize[x.callee]
  <2>. HIDE DEF a2
  <2>. QED
    BY <1>1 DEF Agree
<1>. HIDE DEF n, a2, b2, u2
<1>5. Frames(a2, b2, u2)
  <2>1. b2[0] = 0 /\ u2[0] = 0
    BY <1>1, <1>4 DEF Agree, Frames
  <2>2. ASSUME NEW k \in 1..(n + 1)
        PROVE  /\ u2[k] = u2[k - 1] + StackSize[a2[k].callee]
               /\ b2[k] >= b2[k - 1]
               /\ a2[k].pc = "null" => b2[k] = b2[k - 1]
               /\ a2[k].pc # "null" => a2[k].last = b2[k - 1]
               /\ a2[k].pc \in Functions =>
                    k >= 2 /\ a2[k].pc = a2[k - 1].callee /\ b2[k] >= b2[k - 1] + Need(a2[k].pc)
    <3>1. CASE k = n + 1
      <4>1. n \in 0..n /\ (n >= 1 => n \in 1..n)
        BY <1>1
      <4>2. b2[n] = b[n] /\ u2[n] = u[n] /\ (n >= 1 => a2[n] = a[n])
        BY <1>4, <4>1 DEF Agree
      <4>. QED
        BY <1>1, <1>4, <3>1, <4>2 DEF n, Fits
    <3>2. CASE k \in 1..n
      <4>1. k \in 1..Len(a) /\ k \in 0..n /\ k - 1 \in 0..n /\ (k >= 2 => k - 1 \in 1..n)
        BY <1>1, <3>2 DEF n
      <4>2. /\ u2[k] = u[k] /\ u2[k - 1] = u[k - 1] /\ b2[k] = b[k] /\ b2[k - 1] = b[k - 1]
            /\ a2[k] = a[k] /\ (k >= 2 => a2[k - 1] = a[k - 1])
        BY <1>4, <3>2, <4>1 DEF Agree
      <4>. QED
        BY <4>1, <4>2 DEF Frames
    <3>. QED
      BY <1>1, <3>1, <3>2
  <2>. QED
    BY <1>1, <2>1, <2>2 DEF Frames
<1>. QED
  BY <1>3, <1>4, <1>5 DEF Grown, a2, n

-----------------------------------------------------------------------------
(* What the executes have saved.                                           *)

\* The state in an execute has the type of states.
LEMMA StateInType ==
  ASSUME NEW nat \in Seq(NativeType), NEW s \in StateType, NEW i \in 1..Len(nat)
  PROVE  /\ StateIn(i, nat, s) \in StateType
         /\ StateIn(i, nat, s).as_index \in Nat /\ StateIn(i, nat, s).os_index \in Nat
<1>1. Len(nat) \in Nat
  BY LenProperties
<1>2. i + 2 <= Len(nat) => nat[i + 2] \in NativeType
  BY <1>1, ElementOfSeq
<1>3. StateIn(i, nat, s) \in StateType
  BY <1>2 DEF StateIn, NativeType
<1>. QED
  BY <1>3 DEF StateType

\* What the first m elements of the C++ stack have saved is not disturbed by
\* a step that keeps them, the indices of their executes and the n activations
\* those have begun with.
LEMMA SavedAgrees ==
  ASSUME NEW nat \in Seq(NativeType), NEW nat2 \in Seq(NativeType), Alternate(nat),
         NEW s \in StateType, NEW s2 \in StateType,
         NEW n \in Nat, NEW a, NEW b, NEW u, NEW a2, NEW b2, NEW u2,
         Len(a2) \in Nat, n <= Len(a2), Agree(n, a, b, u, a2, b2, u2),
         NEW m \in Nat, m <= Len(nat), m <= Len(nat2), \A i \in 1..m : nat2[i] = nat[i],
         \A i \in 1..m : IsExecute(nat, i) =>
           /\ StateIn(i, nat2, s2).as_index = StateIn(i, nat, s).as_index
           /\ StateIn(i, nat2, s2).os_index = StateIn(i, nat, s).os_index
           /\ StateIn(i, nat, s).as_index <= n,
         Saved(nat, s, a, b, u), Nested(nat, s)
  PROVE  /\ \A i \in 1..m : IsExecute(nat2, i) =>
              Outside(i - 1, nat2, nat2[i].st, nat2[i].last, nat2[i].remaining,
                      StateIn(i, nat2, s2).as_index, StateIn(i, nat2, s2).os_index, a2, b2, u2)
         /\ \A i, k \in 1..m : i <= k /\ IsExecute(nat2, i) /\ IsExecute(nat2, k) =>
              StateIn(i, nat2, s2).as_index <= StateIn(k, nat2, s2).as_index
<1>1. Len(nat) \in Nat /\ \A i \in 1..m : i \in 1..Len(nat) /\ (IsExecute(nat2, i) <=> IsExecute(nat, i))
  BY LenProperties DEF IsExecute
<1>2. ASSUME NEW i \in 1..m, IsExecute(nat2, i)
      PROVE  Outside(i - 1, nat2, nat2[i].st, nat2[i].last, nat2[i].remaining,
                     StateIn(i, nat2, s2).as_index, StateIn(i, nat2, s2).os_index, a2, b2, u2)
  <2>. DEFINE q == StateIn(i, nat, s).as_index
              o == StateIn(i, nat, s).os_index
  <2>1. IsExecute(nat, i) /\ i \in 1..Len(nat) /\ nat2[i] = nat[i]
    BY <1>1, <1>2
  <2>2. Outside(i - 1, nat, nat[i].st, nat[i].last, nat[i].remaining, q, o, a, b, u)
    BY <2>1 DEF Saved
  <2>3. q \in Nat /\ q <= n /\ StateIn(i, nat2, s2).as_index = q /\ StateIn(i, nat2, s2).os_index = o
    BY <2>1, StateInType
  <2>4. i - 1 > 0 => nat2[i - 1] = nat[i - 1] /\ nat2[i - 1 - 1] = nat[i - 1 - 1]
    <3>1. i - 1 # 1
      BY <1>1, <2>1 DEF Alternate, IsExecute
    <3>2. i - 1 > 0 => i - 1 \in 1..m /\ i - 1 - 1 \in 1..m
      BY <3>1
    <3>. QED
      BY <3>2
  <2>. HIDE DEF q, o
  <2>5. Agree(q, a, b, u, a2, b2, u2) /\ q <= Len(a2) /\ i - 1 \in Nat
    BY <2>3 DEF Agree
  <2>6. Outside(i - 1, nat2, nat[i].st, nat[i].last, nat[i].remaining, q, o, a2, b2, u2)
    BY <2>2, <2>3, <2>4, <2>5, OutsideAgrees
  <2>. QED
    BY <2>1, <2>3, <2>6
<1>3. ASSUME NEW i \in 1..m, NEW k \in 1..m, i <= k, IsExecute(nat2, i), IsExecute(nat2, k)
      PROVE  StateIn(i, nat2, s2).as_index <= StateIn(k, nat2, s2).as_index
  <2>1. StateIn(i, nat, s).as_index <= StateIn(k, nat, s).as_index
    BY <1>1, <1>3 DEF Nested
  <2>. QED
    BY <1>1, <1>3, <2>1
<1>. QED
  BY <1>2, <1>3

\* The indices of the innermost execute are within the stacks, and those of
\* the executes below it are not above them.
LEMMA Within ==
  ASSUME TypeInv, Alternate(native), Nested(native, st), ~Idle,
         NEW b \in [0..Len(acts) -> Nat], NEW u \in [0..Len(acts) -> Nat],
         Current(native, st, last, remaining, Len(acts), Len(os), acts, b, u)
  PROVE  /\ st.as_index \in Nat /\ st.os_index \in Nat
         /\ st.as_index < Len(acts) /\ st.os_index <= Len(os) /\ last <= Len(os)
         /\ StateIn(Innermost, native, st) = st
         /\ \A i \in 1..Len(native) : IsExecute(native, i) =>
              i <= Innermost /\ StateIn(i, native, st).as_index <= st.as_index
<1>1. Len(native) \in Nat /\ Len(acts) \in Nat /\ Len(os) \in Nat /\ last \in Nat
  BY Tops DEF TypeInv
<1>2. st.as_index \in Nat /\ st.os_index \in Nat
  BY DEF TypeInv, StateType
<1>3. Innermost \in 1..Len(native) /\ native[Innermost].kind = "execute"
      /\ Innermost = IF InCode THEN Len(native) ELSE Len(native) - 1
  BY InnermostIs
<1>4. StateIn(Innermost, native, st) = st
  BY <1>1, <1>3 DEF StateIn
<1>5. \A i \in 1..Len(native) : IsExecute(native, i) => i <= Innermost
  BY <1>1, <1>3, Tops DEF IsExecute
<1>6. \A i \in 1..Len(native) : IsExecute(native, i) =>
        StateIn(i, native, st).as_index <= st.as_index
  BY <1>3, <1>4, <1>5 DEF Nested, IsExecute
<1>7. CASE InCode
  <2>1. AtCode(native[Len(native)], st, last, remaining, Len(acts), Len(os), acts, b, u)
    BY <1>7, Tops DEF Current
  <2>2. Level(st, Len(acts), acts, b) /\ Len(os) >= last + Need(st.pc) /\ last = b[Len(acts)]
        /\ st.pc = acts[Len(acts)].callee
    BY <2>1 DEF AtCode
  <2>3. st.as_index \in 0..(Len(acts) - 1)
    BY <2>2 DEF Level
  <2>4. Len(acts) \in (st.as_index + 1)..Len(acts) /\ Len(acts) \in 1..Len(acts)
    BY <1>1, <1>2, <2>3
  <2>5. b[Len(acts)] >= st.os_index
    BY <2>2, <2>4 DEF Level
  <2>6. acts[Len(acts)].callee \in Functions
    <3>1. acts[Len(acts)] \in FrameType
      BY <2>4, ElementOfSeq DEF TypeInv
    <3>. QED
      BY <3>1 DEF FrameType
  <2>7. Need(st.pc) \in Nat
    BY <2>2, <2>6, FunctionAssumption DEF Need
  <2>. QED
    BY <1>1, <1>2, <1>4, <1>5, <1>6, <2>2, <2>3, <2>5, <2>7
<1>8. CASE HostTop
  <2>1. Outside(Len(native), native, st, last, remaining, Len(acts), Len(os), acts, b, u)
    BY <1>8, Tops DEF Current
  <2>2. AtHost(native[Len(native)], native[Len(native) - 1], st, last, remaining,
               Len(acts), Len(os), acts, b, u)
    BY <1>8, <2>1, Tops DEF Outside
  <2>3. st.as_index \in 0..(Len(acts) - 1) \/ st.as_index \in 0..(Len(acts) - 1 - 1)
    BY <2>2 DEF AtHost, FromCode, Direct, Level
  <2>. QED
    BY <1>1, <1>2, <1>4, <1>5, <1>6, <2>2, <2>3 DEF AtHost
<1>. QED
  BY <1>7, <1>8, Tops

-----------------------------------------------------------------------------
(* Steps.                                                                  *)

\* Elements of the stacks have the types of the stacks.
LEMMA Elements ==
  ASSUME TypeInv
  PROVE  /\ \A i \in 1..Len(native) :
              /\ native[i] \in NativeType /\ native[i].kind \in {"execute", "host"}
              /\ native[i].f \in Functions /\ native[i].last \in Nat
              /\ native[i].remaining \in 0..MaxStack /\ native[i].st \in StateType
         /\ \A i \in 1..Len(acts) :
              /\ acts[i] \in FrameType /\ acts[i].pc \in Return_to
              /\ acts[i].last \in Nat /\ acts[i].callee \in Functions
<1>1. \A i \in 1..Len(native) : native[i] \in NativeType
  BY ElementOfSeq DEF TypeInv
<1>2. \A i \in 1..Len(acts) : acts[i] \in FrameType
  BY ElementOfSeq DEF TypeInv
<1>3. ASSUME NEW n \in NativeType
      PROVE  /\ n.kind \in {"execute", "host"} /\ n.f \in Functions /\ n.last \in Nat
             /\ n.remaining \in 0..MaxStack /\ n.st \in StateType
  BY DEF NativeType
<1>4. ASSUME NEW x \in FrameType
      PROVE  x.pc \in Return_to /\ x.last \in Nat /\ x.callee \in Functions
  BY DEF FrameType
<1>. QED
  BY <1>1, <1>2, <1>3, <1>4

\* The end of an execute gives back what it has saved, and what the executes
\* below it have saved is still there.
LEMMA CleanupStep ==
  ASSUME CallInv, ~Idle, Cleanup
  PROVE  CallInv'
<1>. DEFINE i == Innermost
            e == native[i]
            n == st.as_index
            nat2 == SubSeq(native, 1, i - 1)
            a2 == SubSeq(acts, 1, n)
<1>1. TypeInv /\ Alternate(native) /\ Nested(native, st)
  BY DEF CallInv
<1>2. PICK b \in [0..Len(acts) -> Nat], u \in [0..Len(acts) -> Nat] :
        /\ Frames(acts, b, u) /\ Saved(native, st, acts, b, u)
        /\ Current(native, st, last, remaining, Len(acts), Len(os), acts, b, u)
  BY DEF CallInv
<1>3. /\ n \in Nat /\ st.os_index \in Nat /\ n < Len(acts) /\ st.os_index <= Len(os)
      /\ StateIn(i, native, st) = st
      /\ \A k \in 1..Len(native) : IsExecute(native, k) => StateIn(k, native, st).as_index <= n
  BY <1>1, <1>2, Within
<1>4. i \in 1..Len(native) /\ IsExecute(native, i) /\ Len(native) \in Nat
      /\ Len(acts) \in Nat /\ Len(os) \in Nat
  BY <1>1, InnermostIs, Tops DEF IsExecute
<1>5. /\ native \in Seq(NativeType) /\ acts \in Seq(FrameType) /\ os \in Seq(Values)
      /\ st \in StateType
  BY <1>1 DEF TypeInv
<1>6. /\ os' = SubSeq(os, 1, st.os_index) /\ acts' = a2 /\ st' = e.st /\ last' = e.last
      /\ remaining' = e.remaining /\ native' = nat2
  BY DEF Cleanup
<1>. HIDE DEF i
<1>7. /\ nat2 \in Seq(NativeType) /\ Len(nat2) = i - 1
      /\ \A k \in 1..(i - 1) : nat2[k] = native[k]
  <2>1. i - 1 \in 0..Len(native)
    BY <1>4
  <2>. QED
    BY <1>5, <2>1, Prefix
<1>8. /\ e \in NativeType /\ e.last \in Nat /\ e.remaining \in 0..MaxStack /\ e.st \in StateType
      /\ e.kind = "execute"
  BY <1>1, <1>4, Elements DEF IsExecute
<1>9. a2 \in Seq(FrameType) /\ Len(a2) = n
  BY <1>3, <1>4, <1>5, Prefix
<1>10. SubSeq(os, 1, st.os_index) \in Seq(Values) /\ Len(SubSeq(os, 1, st.os_index)) = st.os_index
  BY <1>3, <1>4, <1>5, Prefix
<1>. HIDE DEF e, n, nat2, a2
<1>11. PICK b2 \in [0..n -> Nat], u2 \in [0..n -> Nat] :
         Frames(a2, b2, u2) /\ Agree(n, acts, b, u, a2, b2, u2)
  <2>1. n \in 0..Len(acts)
    BY <1>3, <1>4
  <2>. QED
    BY <1>2, <1>5, <2>1, FramesCut DEF a2
<1>12. TypeInv'
  BY <1>6, <1>7, <1>8, <1>9, <1>10 DEF TypeInv
<1>13. Alternate(nat2)
  <2>1. \A k \in 2..(i - 1) : nat2[k].kind # nat2[k - 1].kind
    <3>1. \A k \in 2..(i - 1) :
            k \in 1..(i - 1) /\ k - 1 \in 1..(i - 1) /\ k \in 2..Len(native)
      BY <1>4
    <3>. QED
      BY <1>1, <1>7, <3>1 DEF Alternate
  <2>. QED
    BY <1>1, <1>4, <1>7, <2>1 DEF Alternate
<1>14. \A k \in 1..(i - 1) : IsExecute(native, k) => k < i - 1
  <2>. SUFFICES ASSUME NEW k \in 1..(i - 1), IsExecute(native, k) PROVE k # i - 1
    BY <1>4
  <2>1. CASE i > 1
    <3>1. i \in 2..Len(native)
      BY <1>4, <2>1
    <3>2. native[i].kind # native[i - 1].kind
      BY <1>1, <3>1 DEF Alternate
    <3>. QED
      BY <1>4, <3>2 DEF IsExecute
  <2>. QED
    BY <1>4, <2>1
<1>15. \A k \in 1..(i - 1) : IsExecute(native, k) => StateIn(k, nat2, e.st) = StateIn(k, native, st)
  <2>. SUFFICES ASSUME NEW k \in 1..(i - 1), IsExecute(native, k)
                PROVE  StateIn(k, nat2, e.st) = StateIn(k, native, st)
    OBVIOUS
  <2>1. CASE k + 2 <= i - 1
    <3>1. nat2[k + 2] = native[k + 2]
      BY <1>4, <1>7, <2>1
    <3>. QED
      BY <1>4, <1>7, <2>1, <3>1 DEF StateIn
  <2>2. CASE k + 2 = i
    BY <1>4, <1>7, <2>2 DEF StateIn, e
  <2>. QED
    BY <1>4, <1>14, <2>1, <2>2
<1>16. \A k \in 1..(i - 1) : IsExecute(native, k) =>
         /\ StateIn(k, nat2, e.st).as_index = StateIn(k, native, st).as_index
         /\ StateIn(k, nat2, e.st).os_index = StateIn(k, native, st).os_index
         /\ StateIn(k, native, st).as_index <= n
  BY <1>3, <1>4, <1>15
<1>17. Saved(nat2, e.st, a2, b2, u2) /\ Nested(nat2, e.st)
  <2>1. i - 1 \in Nat /\ i - 1 <= Len(native) /\ i - 1 <= Len(nat2) /\ n <= Len(a2) /\ Len(a2) \in Nat
    BY <1>3, <1>4, <1>7, <1>9
  <2>2. /\ \A k \in 1..(i - 1) : IsExecute(nat2, k) =>
             Outside(k - 1, nat2, nat2[k].st, nat2[k].last, nat2[k].remaining,
                     StateIn(k, nat2, e.st).as_index, StateIn(k, nat2, e.st).os_index, a2, b2, u2)
        /\ \A k, j \in 1..(i - 1) : k <= j /\ IsExecute(nat2, k) /\ IsExecute(nat2, j) =>
             StateIn(k, nat2, e.st).as_index <= StateIn(j, nat2, e.st).as_index
    BY <1>1, <1>2, <1>3, <1>5, <1>7, <1>8, <1>11, <1>16, <2>1, SavedAgrees
  <2>. QED
    BY <1>7, <2>2 DEF Saved, Nested
<1>18. Outside(i - 1, nat2, e.st, e.last, e.remaining, n, st.os_index, a2, b2, u2)
  <2>1. Outside(i - 1, native, e.st, e.last, e.remaining, n, st.os_index, acts, b, u)
    BY <1>2, <1>3, <1>4 DEF Saved, e, n
  <2>2. i - 1 > 0 => nat2[i - 1] = native[i - 1] /\ nat2[i - 1 - 1] = native[i - 1 - 1]
    <3>1. i - 1 # 1
      BY <1>1, <1>4 DEF Alternate, IsExecute
    <3>2. i - 1 > 0 => i - 1 \in 1..(i - 1) /\ i - 1 - 1 \in 1..(i - 1)
      BY <1>4, <3>1
    <3>. QED
      BY <1>7, <3>2
  <2>3. i - 1 \in Nat /\ Len(a2) \in Nat /\ n <= Len(a2)
    BY <1>3, <1>4, <1>9
  <2>4. n \in Nat /\ Agree(n, acts, b, u, a2, b2, u2)
    BY <1>3, <1>11
  <2>. DEFINE j == i - 1
  <2>5. /\ j \in Nat /\ (j > 0 => nat2[j] = native[j] /\ nat2[j - 1] = native[j - 1])
        /\ Outside(j, native, e.st, e.last, e.remaining, n, st.os_index, acts, b, u)
    BY <2>1, <2>2, <2>3
  <2>. HIDE DEF j
  <2>6. Outside(j, nat2, e.st, e.last, e.remaining, n, st.os_index, a2, b2, u2)
    BY <2>3, <2>4, <2>5, OutsideAgrees
  <2>. QED
    BY <2>6 DEF j
<1>19. Current(nat2, e.st, e.last, e.remaining, n, st.os_index, a2, b2, u2)
  <2>1. ~(Len(nat2) > 0 /\ nat2[Len(nat2)].kind = "execute")
    BY <1>4, <1>7, <1>14 DEF IsExecute
  <2>. QED
    BY <1>7, <1>18, <2>1 DEF Current
<1>. QED
  BY <1>6, <1>9, <1>10, <1>11, <1>12, <1>13, <1>17, <1>19 DEF CallInv

\* Where execute may be called, the machine is outside of all code.
LEMMA OutsideCode ==
  ASSUME CallInv, Idle \/ HostTop,
         NEW b \in [0..Len(acts) -> Nat], NEW u \in [0..Len(acts) -> Nat], Frames(acts, b, u),
         Current(native, st, last, remaining, Len(acts), Len(os), acts, b, u)
  PROVE  /\ Outside(Len(native), native, st, last, remaining, Len(acts), Len(os), acts, b, u)
         /\ last = b[Len(acts)] /\ remaining = MaxStack - u[Len(acts)] /\ Len(os) >= last
         /\ HostTop => AtHost(native[Len(native)], native[Len(native) - 1], st, last, remaining,
                              Len(acts), Len(os), acts, b, u)
<1>1. TypeInv /\ Alternate(native)
  BY DEF CallInv
<1>2. ~(Len(native) > 0 /\ native[Len(native)].kind = "execute")
  BY <1>1, Tops
<1>3. Outside(Len(native), native, st, last, remaining, Len(acts), Len(os), acts, b, u)
  BY <1>2 DEF Current
<1>4. CASE HostTop
  <2>1. AtHost(native[Len(native)], native[Len(native) - 1], st, last, remaining,
               Len(acts), Len(os), acts, b, u)
    BY <1>1, <1>3, <1>4, Tops DEF Outside
  <2>. QED
    BY <1>3, <2>1 DEF AtHost
<1>5. CASE Idle
  <2>1. Len(native) = 0 /\ ~HostTop
    BY <1>1, <1>5, Tops
  <2>2. Clean(st, last, remaining, Len(acts), Len(os))
    BY <1>3, <2>1 DEF Outside
  <2>3. b[0] = 0 /\ u[0] = 0
    BY DEF Frames
  <2>. QED
    BY <1>3, <2>1, <2>2, <2>3, BoundAssumption DEF Clean
<1>. QED
  BY <1>4, <1>5

Begun(s, n, o, pc) == [s EXCEPT !.as_index = n, !.os_index = o, !.pc = pc]

\* The state execute sets.
LEMMA BegunState ==
  ASSUME NEW s \in StateType, NEW n \in Nat, NEW o \in Nat, NEW pc \in Return_to
  PROVE  /\ Begun(s, n, o, pc) \in StateType
         /\ Begun(s, n, o, pc).as_index = n /\ Begun(s, n, o, pc).os_index = o
         /\ Begun(s, n, o, pc).pc = pc /\ Begun(s, n, o, pc).exiting = s.exiting
  BY DEF StateType, Begun

\* The frame that execute pushes begins a level of its own.
LEMMA FirstLevel ==
  ASSUME NEW a, NEW b, NEW n \in Nat, NEW s, NEW o \in Nat, s.as_index = n, s.os_index = o,
         a[n + 1].pc = "halt", b[n + 1] = o
  PROVE  Level(s, n + 1, a, b)
  BY DEF Level

\* What execute's arguments and a function's locals add to the operands.
LEMMA OperandsAdded ==
  ASSUME NEW f \in Functions, NEW s \in Seq(Values)
  PROVE  /\ \A args \in Args(f) : s \o args \in Seq(Values) /\ Len(s \o args) = Len(s) + Params[f]
         /\ s \o Locals0(f) \in Seq(Values) /\ Len(s \o Locals0(f)) = Len(s) + Locals[f]
<1>1. Params[f] \in Nat /\ Locals[f] \in Nat /\ Zero \in Values
  BY FunctionAssumption, BoundAssumption
<1>2. \A args \in Args(f) : args \in Seq(Values) /\ Len(args) = Params[f]
  BY <1>1 DEF Args
<1>3. Locals0(f) \in Seq(Values) /\ Len(Locals0(f)) = Locals[f]
  BY <1>1 DEF Locals0
<1>4. ASSUME NEW t \in Seq(Values) PROVE s \o t \in Seq(Values) /\ Len(s \o t) = Len(s) + Len(t)
  BY ConcatProperties
<1>. QED
  BY <1>2, <1>3, <1>4

\* The C++ stack when execute is entered from outside of all code: N elements,
\* then the execute and, if N2 is N + 2, the host function it calls.
Entered(nat, nat2, s, N, N2) ==
  /\ N = Len(nat) /\ N2 = Len(nat2) /\ (N2 = N + 1 \/ N2 = N + 2)
  /\ N > 0 => N > 1 /\ nat[N].kind = "host"
  /\ \A i \in 1..N : nat2[i] = nat[i]
  /\ nat2[N + 1].kind = "execute" /\ nat2[N + 1].st = s
  /\ N2 = N + 2 => nat2[N + 2].kind = "host"

\* The stack still alternates, and the states of its executes are kept.
LEMMA EnteredStack ==
  ASSUME NEW nat \in Seq(NativeType), NEW nat2 \in Seq(NativeType), Alternate(nat),
         NEW s \in StateType, NEW s2 \in StateType,
         NEW N \in Nat, NEW N2 \in Nat, Entered(nat, nat2, s, N, N2)
  PROVE  /\ Alternate(nat2)
         /\ \A i \in 1..N : IsExecute(nat, i) => StateIn(i, nat2, s2) = StateIn(i, nat, s)
         /\ StateIn(N + 1, nat2, s2) = s2
         /\ \A i \in 1..N2 : IsExecute(nat2, i) => i \in 1..N \/ i = N + 1
<1>1. N = Len(nat) /\ N2 = Len(nat2) /\ (N2 = N + 1 \/ N2 = N + 2)
  BY DEF Entered
<1>2. N > 0 => N > 1 /\ nat[N].kind = "host"
  BY DEF Entered
<1>3. \A i \in 1..N : nat2[i] = nat[i]
  BY DEF Entered
<1>4. /\ nat2[N + 1].kind = "execute" /\ nat2[N + 1].st = s
      /\ N2 = N + 2 => nat2[N + 2].kind = "host"
  BY DEF Entered
<1>5. Alternate(nat2)
  <2>1. nat2[1].kind = "execute"
    <3>1. CASE N = 0
      BY <1>4, <3>1
    <3>2. CASE N > 0
      BY <1>1, <1>3, <3>2 DEF Alternate
    <3>. QED
      BY <3>1, <3>2
  <2>2. ASSUME NEW i \in 2..N2
        PROVE  nat2[i].kind # nat2[i - 1].kind
    <3>1. CASE i \in 2..N
      <4>1. i \in 1..N /\ i - 1 \in 1..N
        BY <3>1
      <4>2. nat2[i] = nat[i] /\ nat2[i - 1] = nat[i - 1]
        BY <1>3, <4>1
      <4>3. nat[i].kind # nat[i - 1].kind
        BY <1>1, <3>1 DEF Alternate
      <4>. QED
        BY <4>2, <4>3
    <3>2. CASE i = N + 1
      <4>1. N > 0 /\ i - 1 = N /\ N \in 1..N
        BY <3>2
      <4>. QED
        BY <1>2, <1>3, <1>4, <3>2, <4>1
    <3>3. CASE i = N + 2
      <4>1. i - 1 = N + 1 /\ N2 = N + 2
        BY <1>1, <3>3
      <4>. QED
        BY <1>4, <3>3, <4>1
    <3>4. i \in 2..N \/ i = N + 1 \/ i = N + 2
      <4>1. N2 = N + 1 \/ N2 = N + 2
        BY <1>1
      <4>. QED
        BY <4>1
    <3>. QED
      BY <3>1, <3>2, <3>3, <3>4
  <2>. QED
    BY <1>1, <2>1, <2>2 DEF Alternate
<1>6. ASSUME NEW i \in 1..N, IsExecute(nat, i)
      PROVE  StateIn(i, nat2, s2) = StateIn(i, nat, s)
  <2>1. i < N
    BY <1>2, <1>6 DEF IsExecute
  <2>2. CASE i + 2 <= N
    <3>1. i + 2 \in 1..N /\ i + 2 <= N2
      <4>1. N2 = N + 1 \/ N2 = N + 2
        BY <1>1
      <4>. QED
        BY <2>2, <4>1
    <3>2. nat2[i + 2] = nat[i + 2]
      BY <1>3, <3>1
    <3>. QED
      BY <1>1, <2>2, <3>1, <3>2 DEF StateIn
  <2>3. CASE i + 1 = N
    <3>1. i + 2 = N + 1 /\ i + 2 <= N2 /\ ~(i + 2 <= N)
      <4>1. N2 = N + 1 \/ N2 = N + 2
        BY <1>1
      <4>. QED
        BY <2>3, <4>1
    <3>. QED
      BY <1>1, <1>4, <3>1 DEF StateIn
  <2>. QED
    BY <2>1, <2>2, <2>3
<1>7. StateIn(N + 1, nat2, s2) = s2
  <2>1. ~(N + 1 + 2 <= N2)
    <3>1. N2 = N + 1 \/ N2 = N + 2
      BY <1>1
    <3>. QED
      BY <3>1
  <2>. QED
    BY <1>1, <2>1 DEF StateIn
<1>8. ASSUME NEW i \in 1..N2, IsExecute(nat2, i)
      PROVE  i \in 1..N \/ i = N + 1
  <2>1. i \in 1..N \/ i = N + 1 \/ (i = N + 2 /\ N2 = N + 2)
    <3>1. N2 = N + 1 \/ N2 = N + 2
      BY <1>1
    <3>. QED
      BY <3>1
  <2>. QED
    BY <1>4, <1>8, <2>1 DEF IsExecute
<1>. QED
  BY <1>5, <1>6, <1>7, <1>8

\* The execute has saved the machine as it was: n activations and o operands.
LEMMA EnteredSaved ==
  ASSUME NEW nat \in Seq(NativeType), NEW nat2 \in Seq(NativeType), Alternate(nat),
         NEW s \in StateType, NEW s2 \in StateType, NEW N \in Nat, NEW N2 \in Nat,
         Entered(nat, nat2, s, N, N2),
         NEW n \in Nat, NEW o \in Nat, s2.as_index = n, s2.os_index = o,
         \A i \in 1..N : IsExecute(nat, i) => StateIn(i, nat, s).as_index <= n,
         NEW a, NEW b, NEW u, NEW a2, NEW b2, NEW u2,
         Len(a2) \in Nat, n <= Len(a2), Agree(n, a, b, u, a2, b2, u2),
         Saved(nat, s, a, b, u), Nested(nat, s),
         Outside(N, nat, s, nat2[N + 1].last, nat2[N + 1].remaining, n, o, a, b, u)
  PROVE  Saved(nat2, s2, a2, b2, u2) /\ Nested(nat2, s2)
<1>1. N <= Len(nat) /\ N <= Len(nat2) /\ N2 = Len(nat2) /\ \A i \in 1..N : nat2[i] = nat[i]
  BY DEF Entered
<1>2. /\ Alternate(nat2)
      /\ \A i \in 1..N : IsExecute(nat, i) => StateIn(i, nat2, s2) = StateIn(i, nat, s)
      /\ StateIn(N + 1, nat2, s2) = s2
      /\ \A i \in 1..N2 : IsExecute(nat2, i) => i \in 1..N \/ i = N + 1
  BY EnteredStack
<1>3. \A i \in 1..N : IsExecute(nat, i) =>
        /\ StateIn(i, nat2, s2).as_index = StateIn(i, nat, s).as_index
        /\ StateIn(i, nat2, s2).os_index = StateIn(i, nat, s).os_index
        /\ StateIn(i, nat, s).as_index <= n
  BY <1>2
<1>4. /\ \A i \in 1..N : IsExecute(nat2, i) =>
           Outside(i - 1, nat2, nat2[i].st, nat2[i].last, nat2[i].remaining,
                   StateIn(i, nat2, s2).as_index, StateIn(i, nat2, s2).os_index, a2, b2, u2)
      /\ \A i, k \in 1..N : i <= k /\ IsExecute(nat2, i) /\ IsExecute(nat2, k) =>
           StateIn(i, nat2, s2).as_index <= StateIn(k, nat2, s2).as_index
  BY <1>1, <1>3, SavedAgrees, ZenonT(30)
<1>5. Outside(N, nat2, s, nat2[N + 1].last, nat2[N + 1].remaining, n, o, a2, b2, u2)
  <2>. DEFINE l == nat2[N + 1].last
              r == nat2[N + 1].remaining
  <2>1. Outside(N, nat, s, l, r, n, o, a, b, u)
    OBVIOUS
  <2>2. N > 0 => nat2[N] = nat[N] /\ nat2[N - 1] = nat[N - 1]
    <3>1. N > 0 => N \in 1..N /\ N - 1 \in 1..N
      BY DEF Entered
    <3>. QED
      BY <1>1, <3>1
  <2>. HIDE DEF l, r
  <2>3. Outside(N, nat2, s, l, r, n, o, a2, b2, u2)
    BY <2>1, <2>2, OutsideAgrees
  <2>. QED
    BY <2>3 DEF l, r
<1>6. Outside(N + 1 - 1, nat2, nat2[N + 1].st, nat2[N + 1].last, nat2[N + 1].remaining,
              StateIn(N + 1, nat2, s2).as_index, StateIn(N + 1, nat2, s2).os_index, a2, b2, u2)
  <2>1. nat2[N + 1].st = s /\ N + 1 - 1 = N
    BY DEF Entered
  <2>. QED
    BY <1>2, <1>5, <2>1
<1>7. ASSUME NEW i \in 1..N2, IsExecute(nat2, i)
      PROVE  Outside(i - 1, nat2, nat2[i].st, nat2[i].last, nat2[i].remaining,
                     StateIn(i, nat2, s2).as_index, StateIn(i, nat2, s2).os_index, a2, b2, u2)
  <2>1. CASE i \in 1..N
    BY <1>4, <1>7, <2>1
  <2>2. CASE i = N + 1
    BY <1>6, <2>2
  <2>. QED
    BY <1>2, <1>7, <2>1, <2>2
<1>8. ASSUME NEW i \in 1..N2, NEW k \in 1..N2, i <= k, IsExecute(nat2, i), IsExecute(nat2, k)
      PROVE  StateIn(i, nat2, s2).as_index <= StateIn(k, nat2, s2).as_index
  <2>1. CASE k \in 1..N
    <3>1. i \in 1..N
      BY <1>8, <2>1
    <3>. QED
      BY <1>4, <1>8, <2>1, <3>1
  <2>2. CASE k = N + 1 /\ i \in 1..N
    <3>1. IsExecute(nat, i)
      BY <1>1, <1>8, <2>2 DEF IsExecute
    <3>2. StateIn(i, nat2, s2).as_index <= n
      BY <1>3, <2>2, <3>1
    <3>. QED
      BY <1>2, <2>2, <3>2
  <2>3. CASE k = N + 1 /\ i = N + 1
    BY <1>2, <2>3
  <2>. QED
    BY <1>2, <1>8, <2>1, <2>2, <2>3
<1>. QED
  BY <1>1, <1>7, <1>8 DEF Saved, Nested

\* Execute saves the machine as it is and begins a level above it.
LEMMA ExecuteStep ==
  ASSUME CallInv, NEW f \in Functions, NEW args \in Args(f), Execute(f, args)
  PROVE  CallInv'
<1>. DEFINE N == Len(native)
            n == Len(acts)
            o == Len(os)
            x == Frame("halt", last, f)
            a2 == Append(acts, x)
            ex == InExecute(f)
            ho == InHost(f)
            nat1 == Append(native, ex)
            pc == IF f \in Imports THEN st.pc ELSE f
            s2 == Begun(st, n, o, pc)
            nat2 == nat1 \o (IF f \in Imports THEN <<ho>> ELSE <<>>)
            N2 == IF f \in Imports THEN N + 2 ELSE N + 1
            ops == os \o args
            os2 == IF f \in Imports THEN ops ELSE ops \o Locals0(f)
            need == IF f \in Imports THEN Params[f] ELSE Need(f)
            o2 == o + need
            r2 == remaining - StackSize[f]
<1>1. TypeInv /\ Alternate(native) /\ Nested(native, st)
  BY DEF CallInv
<1>2. /\ os \in Seq(Values) /\ acts \in Seq(FrameType) /\ native \in Seq(NativeType)
      /\ st \in StateType /\ remaining \in 0..MaxStack
  BY <1>1 DEF TypeInv
<1>3. N \in Nat /\ n \in Nat /\ o \in Nat /\ last \in Nat
  BY <1>1, Tops DEF TypeInv
<1>4. Idle \/ HostTop
  BY DEF Execute
<1>5. N > 0 => N > 1 /\ native[N].kind = "host" /\ ~Idle
  BY <1>1, <1>4, Tops
<1>6. acts' = a2 /\ native' = nat2 /\ os' = os2 /\ remaining' = r2 /\ st' = s2
  BY DEF Execute, Begun
<1>7. last' = o /\ os2 \in Seq(Values) /\ Len(os2) = o2
  <2>1. ops \in Seq(Values) /\ Len(ops) = o + Params[f]
    BY <1>2, OperandsAdded
  <2>2. last' = Len(ops) - Params[f]
    BY DEF Execute
  <2>3. Params[f] \in Nat /\ Locals[f] \in Nat
    BY FunctionAssumption
  <2>. HIDE DEF ops, o
  <2>4. ops \o Locals0(f) \in Seq(Values) /\ Len(ops \o Locals0(f)) = Len(ops) + Locals[f]
    BY <2>1, OperandsAdded
  <2>5. last' = o
    BY <1>3, <2>1, <2>2, <2>3
  <2>6. CASE f \in Imports
    BY <2>1, <2>5, <2>6
  <2>7. CASE f \notin Imports
    <3>1. (o + Params[f]) + Locals[f] = o + Need(f)
      BY <1>3, <2>3 DEF Need
    <3>. QED
      BY <2>1, <2>4, <2>5, <2>7, <3>1
  <2>. QED
    BY <2>6, <2>7
<1>8. x \in FrameType /\ x.pc = "halt" /\ x.last = last /\ x.callee = f
      /\ x.pc # "null" /\ x.pc \notin Functions
  BY <1>3, FunctionAssumption DEF Frame, FrameType, Return_to
<1>9. /\ ex \in NativeType /\ ex.kind = "execute" /\ ex.last = last
       /\ ex.remaining = remaining /\ ex.st = st
  BY <1>2, <1>3 DEF InExecute, NativeType
<1>10. ho \in NativeType /\ ho.kind = "host" /\ ho.f = f
  <2>1. NoState \in StateType
    BY DEF NoState, StateType, Return_to, Flag
  <2>. QED
    BY <1>2, <2>1 DEF InHost, NativeType
<1>11. StackSize[f] \in Nat /\ StackSize[f] <= remaining /\ MaxStack \in Nat /\ need \in Nat
  BY FunctionAssumption, BoundAssumption DEF Execute, Need
<1>12. /\ s2 \in StateType /\ s2.as_index = n /\ s2.os_index = o /\ s2.exiting = st.exiting
       /\ f \notin Imports => s2.pc = f
  <2>1. pc \in Return_to /\ (f \notin Imports => pc = f)
    BY <1>2 DEF Return_to, StateType
  <2>2. st \in StateType /\ n \in Nat /\ o \in Nat
    BY <1>2, <1>3
  <2>. HIDE DEF pc, n, o
  <2>3. /\ Begun(st, n, o, pc) \in StateType
        /\ Begun(st, n, o, pc).as_index = n /\ Begun(st, n, o, pc).os_index = o
        /\ Begun(st, n, o, pc).pc = pc /\ Begun(st, n, o, pc).exiting = st.exiting
    <3>1. pc \in Return_to
      BY <2>1
    <3>. QED
      BY <2>2, <3>1, BegunState
  <2>. QED
    BY <2>1, <2>3
<1>. HIDE DEF x, ex, ho, s2, os2, pc, need
<1>13. a2 \in Seq(FrameType) /\ Len(a2) = n + 1 /\ a2[n + 1] = x
  BY <1>2, <1>8, AppendIs
<1>14. /\ nat1 \in Seq(NativeType) /\ Len(nat1) = N + 1 /\ nat1[N + 1] = ex
       /\ \A i \in 1..N : nat1[i] = native[i]
  BY <1>2, <1>9, AppendIs
<1>15. /\ nat2 \in Seq(NativeType) /\ Len(nat2) = N2
       /\ \A i \in 1..N : nat2[i] = native[i]
       /\ nat2[N + 1] = ex
       /\ f \in Imports => nat2[N + 2] = ho
  <2>. HIDE DEF nat1, N
  <2>1. CASE f \in Imports
    <3>1. nat2 = Append(nat1, ho)
      BY <1>10, <1>14, <2>1
    <3>2. /\ Append(nat1, ho) \in Seq(NativeType) /\ Len(Append(nat1, ho)) = Len(nat1) + 1
          /\ \A i \in 1..Len(nat1) : Append(nat1, ho)[i] = nat1[i]
          /\ Append(nat1, ho)[Len(nat1) + 1] = ho
      BY <1>10, <1>14, AppendIs
    <3>3. Len(nat1) = N + 1 /\ Len(nat1) + 1 = N + 2 /\ N + 1 \in 1..(N + 1)
          /\ \A i \in 1..N : i \in 1..(N + 1)
      BY <1>3, <1>14
    <3>. HIDE DEF nat2
    <3>. QED
      BY <1>14, <2>1, <3>1, <3>2, <3>3
  <2>2. CASE f \notin Imports
    <3>1. nat2 = nat1
      BY <1>14, <2>2, ConcatEmptySeq
    <3>. HIDE DEF nat2
    <3>. QED
      BY <1>14, <2>2, <3>1
  <2>. QED
    BY <2>1, <2>2
<1>16. N2 \in Nat /\ (N2 = N + 1 \/ N2 = N + 2) /\ (N2 = N + 2 => f \in Imports)
  BY <1>3
<1>. HIDE DEF N, n, o, a2, nat1, nat2, N2
<1>17. Entered(native, nat2, st, N, N2)
  BY <1>5, <1>9, <1>10, <1>15, <1>16 DEF Entered, N
<1>18. f \in Imports => N2 # 0 /\ nat2[N2] = ho /\ nat2[N2 - 1] = ex
  <2>. SUFFICES ASSUME f \in Imports PROVE N2 # 0 /\ nat2[N2] = ho /\ nat2[N2 - 1] = ex
    OBVIOUS
  <2>1. N2 = N + 2 /\ N2 # 0 /\ N2 - 1 = N + 1
    BY <1>3 DEF N2
  <2>. QED
    BY <1>15, <2>1
<1>19. PICK b \in [0..n -> Nat], u \in [0..n -> Nat] :
        /\ Frames(acts, b, u) /\ Saved(native, st, acts, b, u)
        /\ Current(native, st, last, remaining, n, o, acts, b, u)
  BY DEF CallInv, n, o
<1>20. /\ Outside(N, native, st, last, remaining, n, o, acts, b, u)
      /\ last = b[n] /\ remaining = MaxStack - u[n] /\ o >= last
  BY <1>19, <1>4, OutsideCode DEF N, n, o
<1>21. PICK b2 \in [0..(n + 1) -> Nat], u2 \in [0..(n + 1) -> Nat] :
         /\ Frames(a2, b2, u2) /\ Agree(n, acts, b, u, a2, b2, u2)
         /\ b2[n + 1] = o /\ u2[n + 1] = u[n] + StackSize[f]
  <2>1. Fits(x, o, acts, b)
    BY <1>20, <1>8 DEF Fits, n
  <2>2. x \in FrameType /\ x.callee = f
    BY <1>8
  <2>3. Frames(acts, b, u) /\ acts \in Seq(FrameType) /\ o \in Nat
    BY <1>19, <1>2, <1>3
  <2>4. Grown(acts, b, u, x, o)
    BY <2>1, <2>2, <2>3, FramesGrow DEF n
  <2>. QED
    BY <2>2, <2>4, Zenon DEF Grown, a2, n
<1>22. TypeInv'
  <2>1. last' \in Nat /\ remaining' \in 0..MaxStack
    <3>. DEFINE w == StackSize[f]
    <3>1. w \in Nat /\ w <= remaining /\ remaining \in 0..MaxStack /\ MaxStack \in Nat
      BY <1>2, <1>11
    <3>2. remaining' = remaining - w /\ last' \in Nat
      BY <1>3, <1>6, <1>7
    <3>. HIDE DEF w
    <3>. QED
      BY <3>1, <3>2
  <2>. QED
    BY <1>6, <1>7, <1>12, <1>13, <1>15, <2>1 DEF TypeInv
<1>23. \A i \in 1..N : IsExecute(native, i) => StateIn(i, native, st).as_index <= n
  <2>. SUFFICES ASSUME NEW i \in 1..N, IsExecute(native, i)
                PROVE  StateIn(i, native, st).as_index <= n
    OBVIOUS
  <2>1. ~Idle
    BY <1>3, <1>5
  <2>2. /\ StateIn(i, native, st).as_index <= st.as_index /\ st.as_index < n
        /\ st.as_index \in Nat
    BY <1>1, <1>19, <2>1, Within DEF N, n, o
  <2>3. StateIn(i, native, st).as_index \in Nat
    BY <1>2, StateInType DEF N
  <2>. QED
    BY <1>3, <2>2, <2>3
<1>24. Saved(nat2, s2, a2, b2, u2) /\ Nested(nat2, s2)
  <2>1. Len(a2) \in Nat /\ n <= Len(a2)
    BY <1>3, <1>13
  <2>2. Outside(N, native, st, nat2[N + 1].last, nat2[N + 1].remaining, n, o, acts, b, u)
    BY <1>20, <1>9, <1>15
  <2>3. Agree(n, acts, b, u, a2, b2, u2)
    BY <1>21
  <2>4. Saved(native, st, acts, b, u)
    BY <1>19
  <2>5. nat2 \in Seq(NativeType) /\ s2.as_index = n /\ s2.os_index = o /\ s2 \in StateType
    BY <1>12, <1>15
  <2>. QED
    BY <1>1, <1>2, <1>3, <1>16, <1>17, <1>23, <2>1, <2>2, <2>3, <2>4, <2>5, EnteredSaved
<1>25. Alternate(nat2)
  BY <1>1, <1>2, <1>3, <1>12, <1>15, <1>16, <1>17, EnteredStack
<1>26. Level(s2, n + 1, a2, b2)
  BY <1>3, <1>8, <1>12, <1>13, <1>21, FirstLevel
<1>27. o = b2[n + 1] /\ r2 = MaxStack - u2[n + 1]
  <2>. DEFINE v == u[n]
              w == StackSize[f]
  <2>1. v \in Nat /\ w \in Nat /\ remaining = MaxStack - v /\ MaxStack \in Nat
    BY <1>3, <1>20, <1>11
  <2>2. u2[n + 1] = v + w /\ r2 = remaining - w
    BY <1>21
  <2>. HIDE DEF v, w, r2
  <2>. QED
    BY <1>21, <2>1, <2>2
<1>. HIDE DEF o2, r2
<1>28. Current(nat2, s2, o, r2, n + 1, o2, a2, b2, u2)
  <2>0. o2 = o + need /\ o \in Nat /\ need \in Nat
    BY <1>3, <1>11 DEF o2
  <2>1. CASE f \notin Imports
    <3>1. o2 >= o + Need(s2.pc) /\ s2.pc = a2[n + 1].callee
      <4>1. need = Need(s2.pc)
        BY <1>12, <2>1 DEF need
      <4>2. s2.pc = a2[n + 1].callee
        BY <1>8, <1>12, <1>13, <2>1
      <4>. QED
        BY <2>0, <4>1, <4>2
    <3>2. s2.exiting = ex.st.exiting
      BY <1>9, <1>12
    <3>3. AtCode(ex, s2, o, r2, n + 1, o2, a2, b2, u2)
      BY <1>26, <1>27, <3>1, <3>2 DEF AtCode
    <3>4. N2 = N + 1 /\ N + 1 > 0
      BY <1>3, <2>1 DEF N2
    <3>. QED
      BY <1>9, <1>15, <3>3, <3>4 DEF Current
  <2>2. CASE f \in Imports
    <3>1. Direct(s2, n + 1, a2, b2)
      BY <1>12, <1>26 DEF Direct
    <3>2. n + 1 \in 1..Len(a2) /\ o2 >= o /\ o2 >= s2.os_index
      BY <1>3, <1>12, <1>13, <2>0
    <3>3. AtHost(ho, ex, s2, o, r2, n + 1, o2, a2, b2, u2)
      BY <1>27, <3>1, <3>2 DEF AtHost
    <3>4. Outside(N2, nat2, s2, o, r2, n + 1, o2, a2, b2, u2)
      BY <1>18, <2>2, <3>3 DEF Outside
    <3>. QED
      BY <1>10, <1>15, <1>18, <2>2, <3>4 DEF Current
  <2>. QED
    BY <2>1, <2>2
<1>. QED
  BY <1>6, <1>7, <1>13, <1>21, <1>22, <1>24, <1>25, <1>28 DEF CallInv

\* Below the innermost execute m the C++ stack is the same, above it there is
\* at most a host call, and the execute's indices are the same.
SameExecutes(nat, nat2, s, s2, m) ==
  /\ m >= 1 /\ m <= Len(nat) /\ m <= Len(nat2) /\ Len(nat) <= m + 1 /\ Len(nat2) <= m + 1
  /\ \A i \in 1..m : nat2[i] = nat[i]
  /\ IsExecute(nat, m)
  /\ Len(nat2) = m + 1 => nat2[m + 1].kind = "host"
  /\ s2.as_index = s.as_index /\ s2.os_index = s.os_index

\* Such a step keeps what the executes have saved.
LEMMA SameExecutesSaved ==
  ASSUME NEW nat \in Seq(NativeType), NEW nat2 \in Seq(NativeType), Alternate(nat),
         NEW s \in StateType, NEW s2 \in StateType, NEW m \in Nat,
         SameExecutes(nat, nat2, s, s2, m),
         NEW n \in Nat, \A i \in 1..m : IsExecute(nat, i) => StateIn(i, nat, s).as_index <= n,
         NEW a, NEW b, NEW u, NEW a2, NEW b2, NEW u2,
         Len(a2) \in Nat, n <= Len(a2), Agree(n, a, b, u, a2, b2, u2),
         Saved(nat, s, a, b, u), Nested(nat, s)
  PROVE  Saved(nat2, s2, a2, b2, u2) /\ Nested(nat2, s2) /\ Alternate(nat2)
<1>. DEFINE N == Len(nat)
            N2 == Len(nat2)
<1>1. N \in Nat /\ N2 \in Nat
  BY LenProperties
<1>2. m >= 1 /\ m <= N /\ m <= N2 /\ N <= m + 1 /\ N2 <= m + 1
  BY DEF SameExecutes
<1>3. \A i \in 1..m : nat2[i] = nat[i]
  BY DEF SameExecutes
<1>4. IsExecute(nat, m) /\ (N2 = m + 1 => nat2[m + 1].kind = "host")
  BY DEF SameExecutes
<1>5. s2.as_index = s.as_index /\ s2.os_index = s.os_index
  BY DEF SameExecutes
<1>6. \A i \in 2..N : nat[i].kind # nat[i - 1].kind
  BY DEF Alternate
<1>7. nat[1].kind = "execute"
  BY <1>1, <1>2 DEF Alternate
<1>. HIDE DEF N, N2
<1>8. ASSUME NEW i \in 1..m, IsExecute(nat, i)
      PROVE  /\ StateIn(i, nat2, s2).as_index = StateIn(i, nat, s).as_index
             /\ StateIn(i, nat2, s2).os_index = StateIn(i, nat, s).os_index
  <2>1. i # m - 1
    <3>. SUFFICES ASSUME i = m - 1 PROVE FALSE
      OBVIOUS
    <3>1. m \in 2..N
      BY <1>1, <1>2
    <3>. QED
      BY <1>4, <1>6, <1>8, <3>1 DEF IsExecute
  <2>2. CASE i + 2 <= m
    <3>1. i + 2 <= N /\ i + 2 <= N2 /\ i + 2 \in 1..m
      BY <1>1, <1>2, <2>2
    <3>2. nat2[i + 2] = nat[i + 2]
      BY <1>3, <3>1
    <3>. QED
      BY <3>1, <3>2 DEF StateIn, N, N2
  <2>3. CASE i = m
    <3>1. ~(i + 2 <= N) /\ ~(i + 2 <= N2)
      BY <1>1, <1>2, <2>3
    <3>. QED
      BY <1>5, <3>1 DEF StateIn, N, N2
  <2>. QED
    BY <2>1, <2>2, <2>3
<1>9. \A i \in 1..m : IsExecute(nat, i) =>
        /\ StateIn(i, nat2, s2).as_index = StateIn(i, nat, s).as_index
        /\ StateIn(i, nat2, s2).os_index = StateIn(i, nat, s).os_index
        /\ StateIn(i, nat, s).as_index <= n
  BY <1>8
<1>10. /\ \A i \in 1..m : IsExecute(nat2, i) =>
            Outside(i - 1, nat2, nat2[i].st, nat2[i].last, nat2[i].remaining,
                    StateIn(i, nat2, s2).as_index, StateIn(i, nat2, s2).os_index, a2, b2, u2)
       /\ \A i, k \in 1..m : i <= k /\ IsExecute(nat2, i) /\ IsExecute(nat2, k) =>
            StateIn(i, nat2, s2).as_index <= StateIn(k, nat2, s2).as_index
  <2>1. m <= Len(nat) /\ m <= Len(nat2)
    BY <1>2 DEF N, N2
  <2>. QED
    BY <1>3, <1>9, <2>1, SavedAgrees
<1>11. \A i \in 1..N2 : i \in 1..m \/ (i = m + 1 /\ N2 = m + 1)
  BY <1>1, <1>2
<1>12. \A i \in 1..N2 : IsExecute(nat2, i) => i \in 1..m
  BY <1>4, <1>11 DEF IsExecute
<1>13. Saved(nat2, s2, a2, b2, u2)
  BY <1>10, <1>12 DEF Saved, N2
<1>14. Nested(nat2, s2)
  BY <1>10, <1>12 DEF Nested, N2
<1>15. nat2[1].kind = "execute"
  BY <1>2, <1>3, <1>7
<1>16. ASSUME NEW i \in 2..N2
       PROVE  nat2[i].kind # nat2[i - 1].kind
  <2>1. CASE i \in 2..m
    <3>1. i \in 1..m /\ i - 1 \in 1..m /\ i \in 2..N
      BY <1>1, <1>2, <2>1
    <3>. QED
      BY <1>3, <1>6, <3>1
  <2>2. CASE i = m + 1 /\ N2 = m + 1
    <3>1. i - 1 = m /\ m \in 1..m
      BY <1>2, <2>2
    <3>2. nat2[m].kind = "execute"
      BY <1>3, <1>4, <3>1 DEF IsExecute
    <3>. QED
      BY <1>4, <2>2, <3>1, <3>2
  <2>. QED
    BY <1>1, <1>2, <2>1, <2>2
<1>. QED
  BY <1>13, <1>14, <1>15, <1>16 DEF Alternate, N2

\* A level depends on the indices of the state only.
LEMMA LevelState ==
  ASSUME NEW s, NEW s2, s2.as_index = s.as_index, s2.os_index = s.os_index,
         NEW n, NEW a, NEW b, Level(s, n, a, b)
  PROVE  Level(s2, n, a, b)
  BY DEF Level

\* A function called from the code adds an activation to the level.
LEMMA LevelGrows ==
  ASSUME NEW s, NEW n \in Nat, NEW a, NEW b, Level(s, n, a, b),
         a[n + 1].pc \in Functions, b[n + 1] >= s.os_index
  PROVE  Level(s, n + 1, a, b)
<1>1. s.as_index \in 0..(n - 1) /\ a[s.as_index + 1].pc = "halt"
  BY DEF Level
<1>2. \A k \in (s.as_index + 2)..n : a[k].pc \in Functions
  BY DEF Level
<1>3. \A k \in (s.as_index + 1)..n : b[k] >= s.os_index
  BY DEF Level
<1>4. \A k \in (s.as_index + 2)..(n + 1) : a[k].pc \in Functions
  BY <1>1, <1>2
<1>5. \A k \in (s.as_index + 1)..(n + 1) : b[k] >= s.os_index
  BY <1>1, <1>3
<1>6. s.as_index \in 0..(n + 1 - 1)
  BY <1>1
<1>. QED
  BY <1>1, <1>4, <1>5, <1>6 DEF Level

\* Returning to the caller takes the last activation of the level away.
LEMMA LevelShrinks ==
  ASSUME NEW s, NEW n \in Nat, NEW a, NEW b, Level(s, n, a, b), a[n].pc # "halt"
  PROVE  Level(s, n - 1, a, b) /\ n >= 2 /\ a[n].pc \in Functions /\ b[n] >= s.os_index
<1>1. s.as_index \in 0..(n - 1) /\ a[s.as_index + 1].pc = "halt"
  BY DEF Level
<1>2. \A k \in (s.as_index + 2)..n : a[k].pc \in Functions
  BY DEF Level
<1>3. \A k \in (s.as_index + 1)..n : b[k] >= s.os_index
  BY DEF Level
<1>4. s.as_index + 1 # n
  BY <1>1
<1>5. s.as_index \in 0..(n - 1 - 1) /\ n >= 2 /\ n \in (s.as_index + 2)..n
      /\ n \in (s.as_index + 1)..n
  BY <1>1, <1>4
<1>6. \A k \in (s.as_index + 2)..(n - 1) : a[k].pc \in Functions
  BY <1>1, <1>2
<1>7. \A k \in (s.as_index + 1)..(n - 1) : b[k] >= s.os_index
  BY <1>1, <1>3
<1>. QED
  BY <1>1, <1>2, <1>3, <1>5, <1>6, <1>7 DEF Level

\* The machine in the code of a function.
LEMMA CodeFacts ==
  ASSUME CallInv, InCode, NEW b \in [0..Len(acts) -> Nat], NEW u \in [0..Len(acts) -> Nat],
         Current(native, st, last, remaining, Len(acts), Len(os), acts, b, u)
  PROVE  /\ AtCode(native[Len(native)], st, last, remaining, Len(acts), Len(os), acts, b, u)
         /\ Level(st, Len(acts), acts, b) /\ Len(acts) >= 1 /\ b[Len(acts)] >= st.os_index
         /\ st.pc = acts[Len(acts)].callee /\ st.pc \in Functions /\ acts[Len(acts)] \in FrameType
         /\ st.exiting = native[Len(native)].st.exiting
         /\ last = b[Len(acts)] /\ remaining = MaxStack - u[Len(acts)]
         /\ u[Len(acts)] \in Nat /\ Len(os) >= last + Need(st.pc)
         /\ Len(native) >= 1 /\ IsExecute(native, Len(native)) /\ ~Idle
<1>1. TypeInv /\ Alternate(native)
  BY DEF CallInv
<1>2. Len(native) >= 1 /\ native[Len(native)].kind = "execute" /\ Len(native) \in Nat
      /\ Len(acts) \in Nat /\ ~Idle
  BY <1>1, Tops
<1>3. AtCode(native[Len(native)], st, last, remaining, Len(acts), Len(os), acts, b, u)
  BY <1>2 DEF Current
<1>4. /\ Level(st, Len(acts), acts, b) /\ st.pc = acts[Len(acts)].callee /\ last = b[Len(acts)]
      /\ remaining = MaxStack - u[Len(acts)] /\ Len(os) >= last + Need(st.pc)
      /\ st.exiting = native[Len(native)].st.exiting
  BY <1>3 DEF AtCode
<1>5. st.as_index \in 0..(Len(acts) - 1)
  BY <1>4 DEF Level
<1>6. Len(acts) >= 1 /\ Len(acts) \in (st.as_index + 1)..Len(acts) /\ Len(acts) \in 1..Len(acts)
      /\ Len(acts) \in 0..Len(acts)
  BY <1>2, <1>5
<1>7. b[Len(acts)] >= st.os_index
  BY <1>4, <1>6 DEF Level
<1>8. acts[Len(acts)] \in FrameType /\ acts[Len(acts)].callee \in Functions
  BY <1>1, <1>6, Elements
<1>9. u[Len(acts)] \in Nat
  BY <1>6
<1>. QED
  BY <1>2, <1>3, <1>4, <1>6, <1>7, <1>8, <1>9 DEF IsExecute

\* The types of the state and of the elements execute saves, and the lengths.
LEMMA Typed ==
  ASSUME CallInv
  PROVE  /\ os \in Seq(Values) /\ acts \in Seq(FrameType) /\ native \in Seq(NativeType)
         /\ st \in StateType /\ remaining \in 0..MaxStack /\ last \in Nat
         /\ Len(native) \in Nat /\ Len(acts) \in Nat /\ Len(os) \in Nat
         /\ TypeInv /\ Alternate(native) /\ Nested(native, st)
  BY Tops DEF CallInv, TypeInv

\* What Running says, in terms of what the frame needs.
LEMMA OperandsAre ==
  ASSUME CallInv, Running
  PROVE  Operands = Len(os) - last - Need(st.pc) /\ Need(st.pc) \in Nat /\ InCode
         /\ st.pc \in Functions
<1>1. Len(os) \in Nat /\ last \in Nat
  BY Typed
<1>2. st.pc \in Functions /\ InCode
  BY DEF Running
<1>. DEFINE p == Params[st.pc]
            l == Locals[st.pc]
<1>3. p \in Nat /\ l \in Nat
  BY <1>2, FunctionAssumption
<1>4. Operands = Len(os) - last - p - l /\ Need(st.pc) = p + l
  BY DEF Operands, Need
<1>. HIDE DEF p, l
<1>5. Operands = Len(os) - last - Need(st.pc)
  <2>. DEFINE o == Len(os)
  <2>. HIDE DEF o
  <2>1. o \in Nat /\ Operands = o - last - p - l
    BY <1>1, <1>4 DEF o
  <2>2. o - last - p - l = o - last - (p + l)
    BY <1>1, <1>3, <2>1
  <2>. QED
    BY <1>4, <2>1, <2>2 DEF o
<1>. QED
  BY <1>2, <1>3, <1>4, <1>5

\* Instructions that only change operands leave the frame's.
LEMMA OperandStep ==
  ASSUME CallInv, Running, UNCHANGED <<acts, last, remaining, st, native>>,
         os' \in Seq(Values), Len(os') >= last + Need(st.pc)
  PROVE  CallInv'
<1>1. InCode
  BY DEF Running
<1>2. PICK b \in [0..Len(acts) -> Nat], u \in [0..Len(acts) -> Nat] :
        /\ Frames(acts, b, u) /\ Saved(native, st, acts, b, u)
        /\ Current(native, st, last, remaining, Len(acts), Len(os), acts, b, u)
  BY DEF CallInv
<1>3. AtCode(native[Len(native)], st, last, remaining, Len(acts), Len(os'), acts, b, u)
  BY <1>1, <1>2, CodeFacts DEF AtCode
<1>4. Len(native) > 0 /\ native[Len(native)].kind = "execute"
  BY <1>1, Typed, Tops
<1>5. Current(native, st, last, remaining, Len(acts), Len(os'), acts, b, u)
  BY <1>3, <1>4 DEF Current
<1>6. TypeInv'
  BY DEF CallInv, TypeInv
<1>7. Alternate(native) /\ Nested(native, st)
  BY DEF CallInv
<1>8. UNCHANGED <<acts, last, remaining, st, native>>
  OBVIOUS
<1>9. \E b2, u2 \in [0..Len(acts') -> Nat] :
        /\ Frames(acts', b2, u2) /\ Saved(native', st', acts', b2, u2)
        /\ Current(native', st', last', remaining', Len(acts'), Len(os'), acts', b2, u2)
  BY <1>2, <1>5, <1>8
<1>. QED
  BY <1>6, <1>7, <1>8, <1>9 DEF CallInv

\* Push, pop and set_local.
LEMMA InstructionStep ==
  ASSUME CallInv, (\E v \in Values : Push(v)) \/ Pop \/ (\E i \in 0..MaxOperands : SetOperand(i))
  PROVE  CallInv'
<1>1. Len(os) \in Nat /\ last \in Nat /\ os \in Seq(Values)
  BY Typed
<1>2. Running /\ UNCHANGED <<acts, last, remaining, st, native>>
  BY DEF Push, Pop, SetOperand
<1>3. InCode
  BY <1>2 DEF Running
<1>4. Operands = Len(os) - last - Need(st.pc) /\ Need(st.pc) \in Nat
  BY <1>2, OperandsAre
<1>5. Len(os) >= last + Need(st.pc)
  BY <1>3, CodeFacts DEF CallInv
<1>6. ASSUME NEW v \in Values, Push(v)
      PROVE  os' \in Seq(Values) /\ Len(os') >= last + Need(st.pc)
  <2>1. os' \in Seq(Values) /\ Len(os') = Len(os) + 1
    BY <1>1, <1>6, AppendIs DEF Push
  <2>. QED
    BY <1>1, <1>4, <1>5, <2>1
<1>7. Operands > 0 =>
        /\ Front(os) \in Seq(Values) /\ Len(Front(os)) = Len(os) - 1 /\ Len(os) > 0
        /\ Len(os) - 1 >= last + Need(st.pc)
  <2>1. Operands > 0 => Len(os) - 1 >= last + Need(st.pc) /\ Len(os) > 0
    BY <1>1, <1>4
  <2>. QED
    BY <1>1, <2>1, FrontIs
<1>8. ASSUME Pop
      PROVE  os' \in Seq(Values) /\ Len(os') >= last + Need(st.pc)
  BY <1>7, <1>8 DEF Pop
<1>9. ASSUME NEW i \in 0..MaxOperands, SetOperand(i)
      PROVE  os' \in Seq(Values) /\ Len(os') >= last + Need(st.pc)
  <2>1. Operands > 0 /\ i < Need(st.pc)
    BY <1>9 DEF SetOperand, Need
  <2>2. last + i + 1 \in 1..Len(Front(os)) /\ Len(os) \in 1..Len(os)
    BY <1>1, <1>4, <1>7, <2>1, BoundAssumption
  <2>3. Last(os) \in Values
    BY <1>1, <2>2, ElementOfSeq DEF Last
  <2>4. Front(os) \in Seq(Values)
    BY <1>7, <2>1
  <2>5. os' = [Front(os) EXCEPT ![last + i + 1] = Last(os)]
    BY <1>9 DEF SetOperand
  <2>. DEFINE fr == Front(os)
              k == last + i + 1
              v == Last(os)
  <2>. HIDE DEF fr, k, v
  <2>6. fr \in Seq(Values) /\ k \in 1..Len(fr) /\ v \in Values /\ os' = [fr EXCEPT ![k] = v]
    BY <2>2, <2>3, <2>4, <2>5 DEF fr, k, v
  <2>7. os' \in Seq(Values) /\ Len(os') = Len(fr)
    BY <2>6, ExceptSeq
  <2>. QED
    BY <1>7, <2>1, <2>7 DEF fr
<1>. QED
  BY <1>2, <1>6, <1>8, <1>9, OperandStep

\* In code, the innermost execute is on top and the activations below are not
\* fewer than any execute has begun with.
LEMMA BelowTop ==
  ASSUME CallInv, InCode
  PROVE  /\ Len(native) >= 1 /\ IsExecute(native, Len(native))
         /\ \A i \in 1..Len(native) : IsExecute(native, i) =>
              StateIn(i, native, st).as_index <= st.as_index
         /\ st.as_index \in Nat /\ st.as_index < Len(acts)
<1>1. TypeInv /\ Alternate(native) /\ Nested(native, st)
  BY DEF CallInv
<1>2. PICK b \in [0..Len(acts) -> Nat], u \in [0..Len(acts) -> Nat] :
        Current(native, st, last, remaining, Len(acts), Len(os), acts, b, u)
  BY DEF CallInv
<1>3. Len(native) >= 1 /\ IsExecute(native, Len(native)) /\ ~Idle
  BY <1>2, CodeFacts
<1>. QED
  BY <1>1, <1>2, <1>3, Within

Continuing(s, pc) == [s EXCEPT !.pc = pc]

\* The state when another function goes on.
LEMMA ContinuingState ==
  ASSUME NEW s \in StateType, NEW pc \in Return_to
  PROVE  /\ Continuing(s, pc) \in StateType
         /\ Continuing(s, pc).as_index = s.as_index /\ Continuing(s, pc).os_index = s.os_index
         /\ Continuing(s, pc).pc = pc /\ Continuing(s, pc).exiting = s.exiting
  BY DEF StateType, Continuing

\* A call of a function of the module: its operands begin at its arguments,
\* above what the caller's frame needs.
LEMMA CallFunctionStep ==
  ASSUME CallInv, NEW f \in Functions, CallFunction(f)
  PROVE  CallInv'
<1>. DEFINE N == Len(native)
            n == Len(acts)
            o == Len(os)
            c == st.pc
            x == Frame(c, last, f)
            a2 == Append(acts, x)
            s2 == Continuing(st, f)
            p == o - Params[f]
            sz == StackSize[f]
<1>1. /\ acts \in Seq(FrameType) /\ native \in Seq(NativeType) /\ os \in Seq(Values)
      /\ st \in StateType /\ Alternate(native) /\ Nested(native, st)
  BY Typed
<1>2. N \in Nat /\ n \in Nat /\ o \in Nat /\ last \in Nat /\ remaining \in 0..MaxStack
  BY Typed
<1>3. Running /\ Operands >= Params[f] /\ sz <= remaining
  BY DEF CallFunction, CanCall
<1>4. Operands = o - last - Need(c) /\ Need(c) \in Nat /\ InCode /\ c \in Functions
  BY <1>3, OperandsAre
<1>5. Params[f] \in Nat /\ Locals[f] \in Nat /\ sz \in Nat /\ MaxStack \in Nat
  BY FunctionAssumption, BoundAssumption
<1>6. p \in Nat /\ p >= last + Need(c)
  <2>. DEFINE q == Params[f]
              w == Need(c)
  <2>. HIDE DEF q, w, o
  <2>1. q \in Nat /\ w \in Nat /\ o - last - w >= q
    BY <1>3, <1>4, <1>5 DEF q, w
  <2>2. o - q \in Nat /\ o - q >= last + w
    BY <1>2, <2>1
  <2>. QED
    BY <2>2 DEF q, w
<1>7. acts' = a2 /\ last' = p /\ remaining' = remaining - sz /\ native' = native /\ st' = s2
  BY DEF CallFunction, Continuing
<1>8. os' \in Seq(Values) /\ Len(os') = p + Need(f)
  <2>1. os' = os \o Locals0(f)
    BY DEF CallFunction
  <2>2. os' \in Seq(Values) /\ Len(os') = o + Locals[f]
    BY <1>1, <2>1, OperandsAdded
  <2>. DEFINE q == Params[f]
              l == Locals[f]
  <2>3. Need(f) = q + l /\ q \in Nat /\ l \in Nat
    BY <1>5 DEF Need
  <2>. HIDE DEF q, l, o
  <2>4. o + l = (o - q) + (q + l)
    BY <1>2, <2>3
  <2>. QED
    BY <2>2, <2>3, <2>4 DEF q, l
<1>9. x \in FrameType /\ x.pc = c /\ x.last = last /\ x.callee = f /\ x.pc # "null"
  BY <1>2, <1>4, FunctionAssumption DEF Frame, FrameType, Return_to
<1>10. /\ s2 \in StateType /\ s2.as_index = st.as_index /\ s2.os_index = st.os_index
       /\ s2.pc = f /\ s2.exiting = st.exiting
  <2>1. f \in Return_to
    BY DEF Return_to
  <2>. QED
    BY <1>1, <2>1, ContinuingState
<1>. HIDE DEF x, s2, p, sz
<1>11. a2 \in Seq(FrameType) /\ Len(a2) = n + 1 /\ a2[n + 1] = x
  BY <1>1, <1>9, AppendIs
<1>12. /\ N >= 1 /\ IsExecute(native, N) /\ st.as_index \in Nat /\ st.as_index < n
       /\ \A i \in 1..N : IsExecute(native, i) => StateIn(i, native, st).as_index <= st.as_index
  BY <1>4, BelowTop
<1>13. \A i \in 1..N : IsExecute(native, i) => StateIn(i, native, st).as_index <= n
  <2>1. \A i \in 1..N : StateIn(i, native, st).as_index \in Nat
    BY <1>1, StateInType
  <2>. HIDE DEF n, N
  <2>. QED
    BY <1>2, <1>12, <2>1
<1>14. SameExecutes(native, native, st, s2, N)
  <2>. SUFFICES N <= N + 1 /\ N # N + 1
    BY <1>2, <1>10, <1>12 DEF SameExecutes
  <2>. QED
    BY <1>2
<1>15. TypeInv'
  <2>1. last' \in Nat /\ remaining' \in 0..MaxStack
    BY <1>2, <1>3, <1>5, <1>6, <1>7
  <2>. QED
    BY <1>1, <1>7, <1>8, <1>10, <1>11, <2>1 DEF TypeInv
<1>. HIDE DEF N, n, o, a2, c
<1>16. PICK b \in [0..n -> Nat], u \in [0..n -> Nat] :
        /\ Frames(acts, b, u) /\ Saved(native, st, acts, b, u)
        /\ Current(native, st, last, remaining, n, o, acts, b, u)
  BY DEF CallInv, n, o
<1>17. /\ Level(st, n, acts, b) /\ n >= 1 /\ b[n] >= st.os_index
       /\ c = acts[n].callee /\ st.exiting = native[N].st.exiting
       /\ last = b[n] /\ remaining = MaxStack - u[n] /\ u[n] \in Nat
  BY <1>4, <1>16, CodeFacts DEF N, n, o, c
<1>18. PICK b2 \in [0..(n + 1) -> Nat], u2 \in [0..(n + 1) -> Nat] :
         /\ Frames(a2, b2, u2) /\ Agree(n, acts, b, u, a2, b2, u2)
         /\ b2[n + 1] = p /\ u2[n + 1] = u[n] + sz
  <2>1. Fits(x, p, acts, b)
    <3>1. b[n] \in Nat /\ Need(c) \in Nat
      BY <1>2, <1>4, <1>17, OperandsAre DEF c
    <3>2. p >= b[n]
      BY <1>6, <1>17, <3>1
    <3>. QED
      BY <1>6, <1>9, <1>17, <3>2 DEF Fits, n
  <2>2. Frames(acts, b, u) /\ acts \in Seq(FrameType) /\ p \in Nat
    BY <1>1, <1>6, <1>16
  <2>3. x \in FrameType /\ x.callee = f
    BY <1>9
  <2>4. Grown(acts, b, u, x, p)
    BY <2>1, <2>2, <2>3, FramesGrow DEF n
  <2>. QED
    BY <2>3, <2>4, Zenon DEF Grown, a2, n, sz
<1>19. Saved(native, s2, a2, b2, u2) /\ Nested(native, s2)
  <2>1. Len(a2) \in Nat /\ n <= Len(a2)
    BY <1>2, <1>11
  <2>2. Agree(n, acts, b, u, a2, b2, u2) /\ Saved(native, st, acts, b, u)
    BY <1>16, <1>18
  <2>3. s2 \in StateType
    BY <1>10
  <2>. QED
    BY <1>1, <1>2, <1>13, <1>14, <2>1, <2>2, <2>3, SameExecutesSaved
<1>20. Level(s2, n + 1, a2, b2)
  <2>1. Level(st, n, a2, b2)
    BY <1>2, <1>17, <1>18, LevelAgrees
  <2>2. Level(s2, n, a2, b2)
    BY <1>10, <2>1, LevelState
  <2>3. a2[n + 1].pc \in Functions /\ b2[n + 1] >= s2.os_index
    <3>1. a2[n + 1].pc \in Functions
      BY <1>4, <1>9, <1>11
    <3>2. st.os_index \in Nat
      BY <1>1 DEF StateType
    <3>. DEFINE w == Need(c)
                i == st.os_index
    <3>. HIDE DEF w, i
    <3>3. w \in Nat /\ p \in Nat /\ p >= last + w /\ last >= i /\ i \in Nat
      BY <1>4, <1>6, <1>17, <3>2 DEF w, i
    <3>4. p >= i
      BY <1>2, <3>3
    <3>. QED
      BY <1>10, <1>18, <3>1, <3>4 DEF i
  <2>. QED
    BY <1>2, <2>2, <2>3, LevelGrows
<1>21. AtCode(native[N], s2, p, remaining - sz, n + 1, p + Need(f), a2, b2, u2)
  <2>1. s2.pc = a2[n + 1].callee /\ p = b2[n + 1] /\ s2.exiting = native[N].st.exiting
    BY <1>9, <1>10, <1>11, <1>17, <1>18
  <2>2. remaining - sz = MaxStack - u2[n + 1]
    <3>. DEFINE v == u[n]
    <3>. HIDE DEF v
    <3>1. v \in Nat /\ remaining = MaxStack - v /\ u2[n + 1] = v + sz
      BY <1>17, <1>18 DEF v
    <3>. QED
      BY <1>5, <3>1
  <2>3. p + Need(f) >= p + Need(s2.pc)
    <3>1. Need(f) \in Nat
      BY <1>5 DEF Need
    <3>. DEFINE w == Need(f)
    <3>. HIDE DEF w
    <3>2. p + w >= p + w
      BY <1>6, <3>1 DEF w
    <3>. QED
      BY <1>10, <3>2 DEF w
  <2>. QED
    BY <1>20, <2>1, <2>2, <2>3 DEF AtCode
<1>22. Current(native, s2, p, remaining - sz, n + 1, p + Need(f), a2, b2, u2)
  <2>1. Len(native) > 0 /\ native[Len(native)].kind = "execute" /\ N = Len(native)
    BY <1>2, <1>12 DEF IsExecute, N
  <2>. QED
    BY <1>21, <2>1 DEF Current
<1>. QED
  BY <1>1, <1>7, <1>8, <1>11, <1>15, <1>18, <1>19, <1>22 DEF CallInv

\* A call of a host function: it gets a frame but no operands of its own, and
\* the arguments stay above what the caller's frame needs.
LEMMA CallHostStep ==
  ASSUME CallInv, NEW f \in Functions, CallHost(f)
  PROVE  CallInv'
<1>. DEFINE N == Len(native)
            n == Len(acts)
            o == Len(os)
            c == st.pc
            x == Frame("null", 0, f)
            a2 == Append(acts, x)
            ho == InHost(f)
            nat2 == Append(native, ho)
            sz == StackSize[f]
            m == n + 1
            N2 == N + 1
            r2 == remaining - sz
<1>1. /\ acts \in Seq(FrameType) /\ native \in Seq(NativeType) /\ os \in Seq(Values)
      /\ st \in StateType /\ Alternate(native) /\ Nested(native, st)
  BY Typed
<1>2. N \in Nat /\ n \in Nat /\ o \in Nat /\ last \in Nat /\ remaining \in 0..MaxStack
  BY Typed
<1>3. Running /\ Operands >= Params[f] /\ sz <= remaining
  BY DEF CallHost, CanCall
<1>4. Operands = o - last - Need(c) /\ Need(c) \in Nat /\ InCode /\ c \in Functions
  BY <1>3, OperandsAre
<1>5. Params[f] \in Nat /\ sz \in Nat /\ MaxStack \in Nat
  BY FunctionAssumption, BoundAssumption
<1>6. o >= last + Need(c) + Params[f] /\ o >= last
  <2>. DEFINE q == Params[f]
              w == Need(c)
  <2>. HIDE DEF q, w, o
  <2>1. q \in Nat /\ w \in Nat /\ o - last - w >= q
    BY <1>3, <1>4, <1>5 DEF q, w
  <2>2. o >= last + w + q /\ o >= last
    BY <1>2, <2>1
  <2>. QED
    BY <2>2 DEF q, w
<1>7. /\ acts' = a2 /\ last' = last /\ remaining' = remaining - sz /\ native' = nat2
      /\ st' = st /\ os' = os
  BY DEF CallHost
<1>8. x \in FrameType /\ x.pc = "null" /\ x.callee = f /\ x.pc \notin Functions
  BY FunctionAssumption DEF Frame, FrameType, Return_to
<1>9. ho \in NativeType /\ ho.kind = "host" /\ ho.f = f /\ ho.remaining = remaining
  <2>1. NoState \in StateType
    BY DEF NoState, StateType, Return_to, Flag
  <2>. QED
    BY <1>2, <2>1 DEF InHost, NativeType
<1>. HIDE DEF x, ho, sz
<1>10. a2 \in Seq(FrameType) /\ Len(a2) = n + 1 /\ a2[n + 1] = x
  BY <1>1, <1>8, AppendIs
<1>11. /\ nat2 \in Seq(NativeType) /\ Len(nat2) = N + 1 /\ nat2[N + 1] = ho
       /\ \A i \in 1..N : nat2[i] = native[i]
  BY <1>1, <1>9, AppendIs
<1>12. /\ N >= 1 /\ IsExecute(native, N) /\ st.as_index \in Nat /\ st.as_index < n
       /\ \A i \in 1..N : IsExecute(native, i) => StateIn(i, native, st).as_index <= st.as_index
  BY <1>4, BelowTop
<1>13. \A i \in 1..N : IsExecute(native, i) => StateIn(i, native, st).as_index <= n
  <2>1. \A i \in 1..N : StateIn(i, native, st).as_index \in Nat
    BY <1>1, StateInType
  <2>. HIDE DEF n, N
  <2>. QED
    BY <1>2, <1>12, <2>1
<1>. HIDE DEF nat2
<1>14. SameExecutes(native, nat2, st, st, N)
  <2>. SUFFICES N <= N + 1
    BY <1>2, <1>9, <1>11, <1>12 DEF SameExecutes
  <2>. QED
    BY <1>2
<1>15. TypeInv'
  <2>1. last' \in Nat /\ remaining' \in 0..MaxStack
    BY <1>2, <1>3, <1>5, <1>7
  <2>. QED
    BY <1>1, <1>7, <1>10, <1>11, <2>1 DEF TypeInv
<1>. HIDE DEF N, n, o, a2, c
<1>16. /\ N2 # 0 /\ nat2[N2] = ho /\ nat2[N2 - 1] = native[N] /\ Len(nat2) = N2
       /\ ho.kind # "execute" /\ m \in Nat /\ m - 1 = n
  <2>1. N2 # 0 /\ N2 - 1 = N /\ N \in 1..N /\ m \in Nat /\ m - 1 = n
    BY <1>2, <1>12
  <2>2. nat2[N2] = ho /\ Len(nat2) = N2
    BY <1>11
  <2>. HIDE DEF N2, m
  <2>. QED
    BY <1>9, <1>11, <2>1, <2>2
<1>. HIDE DEF m, N2, r2
<1>17. PICK b \in [0..n -> Nat], u \in [0..n -> Nat] :
        /\ Frames(acts, b, u) /\ Saved(native, st, acts, b, u)
        /\ Current(native, st, last, remaining, n, o, acts, b, u)
  BY DEF CallInv, n, o
<1>18. /\ Level(st, n, acts, b) /\ n >= 1 /\ b[n] >= st.os_index
       /\ c = acts[n].callee /\ st.exiting = native[N].st.exiting
       /\ last = b[n] /\ remaining = MaxStack - u[n] /\ u[n] \in Nat
  BY <1>4, <1>17, CodeFacts DEF N, n, o, c
<1>19. PICK b2 \in [0..(n + 1) -> Nat], u2 \in [0..(n + 1) -> Nat] :
         /\ Frames(a2, b2, u2) /\ Agree(n, acts, b, u, a2, b2, u2)
         /\ b2[n + 1] = last /\ u2[n + 1] = u[n] + sz
  <2>1. Fits(x, last, acts, b)
    BY <1>8, <1>18 DEF Fits, n
  <2>2. Frames(acts, b, u) /\ acts \in Seq(FrameType) /\ last \in Nat
    BY <1>1, <1>2, <1>17
  <2>3. x \in FrameType /\ x.callee = f
    BY <1>8
  <2>4. Grown(acts, b, u, x, last)
    BY <2>1, <2>2, <2>3, FramesGrow DEF n
  <2>. QED
    BY <2>3, <2>4, Zenon DEF Grown, a2, n, sz
<1>20. Saved(nat2, st, a2, b2, u2) /\ Nested(nat2, st) /\ Alternate(nat2)
  <2>1. Len(a2) \in Nat /\ n <= Len(a2)
    BY <1>2, <1>10
  <2>2. Agree(n, acts, b, u, a2, b2, u2) /\ Saved(native, st, acts, b, u)
    BY <1>17, <1>19
  <2>3. nat2 \in Seq(NativeType)
    BY <1>11
  <2>. QED
    BY <1>1, <1>2, <1>13, <1>14, <2>1, <2>2, <2>3, SameExecutesSaved, ZenonT(30)
<1>21. b2[n] = b[n] /\ u2[n] = u[n] /\ a2[n] = acts[n]
  <2>1. n \in 0..n /\ n \in 1..n
    BY <1>2, <1>18
  <2>. QED
    BY <1>19, <2>1 DEF Agree
<1>22. FromCode(ho, native[N], st, m, o, a2, b2, u2)
  <2>1. Level(st, n, a2, b2)
    BY <1>2, <1>18, <1>19, LevelAgrees
  <2>2. a2[m].pc = "null" /\ m - 1 = n
    BY <1>8, <1>10, <1>16 DEF m
  <2>3. o >= b2[n] + Need(a2[n].callee) + Params[ho.f]
    BY <1>6, <1>9, <1>18, <1>21
  <2>4. st.pc = a2[n].callee /\ st.exiting = native[N].st.exiting /\ ho.remaining = MaxStack - u2[n]
    BY <1>9, <1>18, <1>21 DEF c
  <2>. QED
    BY <2>1, <2>2, <2>3, <2>4 DEF FromCode
<1>23. AtHost(ho, native[N], st, last, r2, m, o, a2, b2, u2)
  <2>1. r2 = MaxStack - u2[m]
    <3>. USE DEF m, r2
    <3>. DEFINE v == u[n]
    <3>. HIDE DEF v
    <3>1. v \in Nat /\ remaining = MaxStack - v /\ u2[m] = v + sz
      BY <1>18, <1>19 DEF v
    <3>. QED
      BY <1>5, <3>1
  <2>2. m \in 1..Len(a2)
    BY <1>2, <1>10 DEF m
  <2>3. o >= st.os_index
    <3>1. st.os_index \in Nat
      BY <1>1 DEF StateType
    <3>. QED
      BY <1>2, <1>6, <1>18, <3>1, SMTT(30)
  <2>. QED
    BY <1>6, <1>19, <1>22, <2>1, <2>2, <2>3 DEF AtHost, m
<1>24. Current(nat2, st, last, r2, m, o, a2, b2, u2)
  <2>1. Outside(N2, nat2, st, last, r2, m, o, a2, b2, u2)
    BY <1>16, <1>23 DEF Outside
  <2>. QED
    BY <1>16, <2>1 DEF Current
<1>. QED
  BY <1>7, <1>10, <1>15, <1>19, <1>20, <1>24 DEF CallInv, o, m, r2

\* What a return leaves of the operands: those of the callers and the result.
LEMMA ReturnOperands ==
  ASSUME CallInv, Return
  PROVE  os' \in Seq(Values) /\ Len(os') >= last
<1>. DEFINE o == Len(os)
            w == Params[st.pc] + Locals[st.pc]
            r == Results[st.pc]
<1>1. os \in Seq(Values) /\ o \in Nat /\ last \in Nat
  BY Typed
<1>2. Running /\ Operands = r
  BY DEF Return
<1>3. Operands = o - last - w /\ w \in Nat
  BY <1>2, OperandsAre DEF Need
<1>4. r \in {0, 1}
  BY <1>2, FunctionAssumption DEF Running
<1>5. os' = IF r = 1 THEN Append(SubSeq(os, 1, o - w - 1), Last(os)) ELSE SubSeq(os, 1, o - w)
  BY DEF Return
<1>. HIDE DEF w, r
<1>6. o \in Nat /\ last \in Nat /\ w \in Nat /\ o - last - w = r
  BY <1>1, <1>2, <1>3
<1>7. CASE r = 1
  <2>. DEFINE t == SubSeq(os, 1, o - w - 1)
  <2>1. os' = Append(t, Last(os)) /\ o - w - 1 = last
    <3>1. o - w - 1 = last
      <4>. HIDE DEF o
      <4>. QED
        BY <1>7, <1>6
    <3>. QED
      BY <1>5, <1>7, <3>1
  <2>2. o - w - 1 \in 0..o /\ o \in 1..o
    <3>. HIDE DEF o
    <3>. QED
      BY <1>7, <1>6, <2>1
  <2>3. t \in Seq(Values) /\ Len(t) = o - w - 1
    BY <1>1, <2>2, Prefix
  <2>4. Last(os) \in Values
    BY <1>1, <2>2, ElementOfSeq DEF Last
  <2>. HIDE DEF t
  <2>5. os' \in Seq(Values) /\ Len(os') = last + 1
    BY <2>1, <2>3, <2>4, AppendIs
  <2>. QED
    BY <1>1, <2>5
<1>8. CASE r = 0
  <2>1. o - w = last /\ o - w \in 0..o
    <3>. HIDE DEF o
    <3>. QED
      BY <1>8, <1>6
  <2>2. SubSeq(os, 1, o - w) \in Seq(Values) /\ Len(SubSeq(os, 1, o - w)) = o - w
    BY <1>1, <2>1, Prefix
  <2>. QED
    BY <1>1, <1>5, <1>8, <2>1, <2>2
<1>. QED
  BY <1>4, <1>7, <1>8

\* A return gives the caller back its place and the call depth.
LEMMA ReturnStep ==
  ASSUME CallInv, Return
  PROVE  CallInv'
<1>. DEFINE N == Len(native)
            n == Len(acts)
            o2 == Len(os')
            x == acts[n]
            m == n - 1
            a2 == SubSeq(acts, 1, m)
            s2 == Continuing(st, x.pc)
            sz == StackSize[st.pc]
<1>1. /\ acts \in Seq(FrameType) /\ native \in Seq(NativeType)
      /\ st \in StateType /\ Alternate(native) /\ Nested(native, st)
  BY Typed
<1>2. N \in Nat /\ n \in Nat /\ last \in Nat /\ remaining \in 0..MaxStack /\ MaxStack \in Nat
  BY Typed, BoundAssumption
<1>3. InCode /\ x.pc # "halt"
  BY DEF Return, Running, Last
<1>4. /\ acts' = a2 /\ last' = x.last /\ remaining' = remaining + sz /\ native' = native
      /\ st' = s2
  BY DEF Return, Last, Front, Continuing
<1>5. os' \in Seq(Values) /\ o2 >= last /\ o2 \in Nat
  BY ReturnOperands, LenProperties
<1>6. /\ N >= 1 /\ IsExecute(native, N) /\ st.as_index \in Nat /\ st.as_index < n
      /\ \A i \in 1..N : IsExecute(native, i) => StateIn(i, native, st).as_index <= st.as_index
  BY <1>3, BelowTop
<1>7. m \in Nat /\ m \in 0..n /\ n \in 1..n /\ st.as_index <= m
  <2>. HIDE DEF n
  <2>. QED
    BY <1>2, <1>6
<1>8. x \in FrameType /\ x.pc \in Return_to /\ x.last \in Nat /\ x.callee \in Functions
  BY <1>7, Typed, Elements
<1>9. a2 \in Seq(FrameType) /\ Len(a2) = m
  <2>. HIDE DEF m
  <2>. QED
    BY <1>1, <1>7, Prefix
<1>10. /\ s2 \in StateType /\ s2.as_index = st.as_index /\ s2.os_index = st.os_index
       /\ s2.pc = x.pc /\ s2.exiting = st.exiting
  BY <1>1, <1>8, ContinuingState
<1>11. \A i \in 1..N : IsExecute(native, i) => StateIn(i, native, st).as_index <= m
  <2>1. \A i \in 1..N : StateIn(i, native, st).as_index \in Nat
    BY <1>1, StateInType
  <2>. HIDE DEF m, N, n
  <2>. QED
    BY <1>6, <1>7, <2>1
<1>. HIDE DEF s2, sz, m, x, o2
<1>12. SameExecutes(native, native, st, s2, N)
  <2>. SUFFICES N <= N + 1 /\ N # N + 1
    BY <1>2, <1>6, <1>10 DEF SameExecutes
  <2>. QED
    BY <1>2
<1>. HIDE DEF N, n, a2
<1>13. PICK b \in [0..n -> Nat], u \in [0..n -> Nat] :
        /\ Frames(acts, b, u) /\ Saved(native, st, acts, b, u)
        /\ Current(native, st, last, remaining, n, Len(os), acts, b, u)
  BY DEF CallInv, n
<1>14. /\ Level(st, n, acts, b)
       /\ st.pc = x.callee /\ st.exiting = native[N].st.exiting
       /\ last = b[n] /\ remaining = MaxStack - u[n] /\ u[n] \in Nat
  BY <1>3, <1>13, CodeFacts DEF N, n, x
<1>15. Level(st, m, acts, b) /\ x.pc \in Functions
  BY <1>2, <1>3, <1>14, LevelShrinks DEF m, x
<1>16. /\ u[n] = u[m] + sz /\ x.last = b[m] /\ x.pc = acts[m].callee
       /\ b[n] >= b[m] + Need(x.pc) /\ m >= 1 /\ u[m] \in Nat /\ b[m] \in Nat
  <2>1. /\ u[n] = u[n - 1] + StackSize[acts[n].callee]
        /\ acts[n].pc # "null" => acts[n].last = b[n - 1]
        /\ acts[n].pc \in Functions =>
             n >= 2 /\ acts[n].pc = acts[n - 1].callee /\ b[n] >= b[n - 1] + Need(acts[n].pc)
    BY <1>7, <1>13 DEF Frames, n
  <2>2. x.pc # "null"
    BY <1>15, FunctionAssumption
  <2>3. u[m] \in Nat /\ b[m] \in Nat
    BY <1>7
  <2>4. n >= 2 => m >= 1
    BY <1>2 DEF m
  <2>. QED
    BY <1>14, <1>15, <2>1, <2>2, <2>3, <2>4 DEF m, x, sz
<1>17. PICK b2 \in [0..m -> Nat], u2 \in [0..m -> Nat] :
         Frames(a2, b2, u2) /\ Agree(m, acts, b, u, a2, b2, u2)
  BY <1>1, <1>7, <1>13, FramesCut DEF n, a2
<1>18. b2[m] = b[m] /\ u2[m] = u[m] /\ a2[m] = acts[m]
  <2>1. m \in 0..m /\ m \in 1..m
    BY <1>7, <1>16
  <2>. QED
    BY <1>17, <2>1 DEF Agree
<1>19. Saved(native, s2, a2, b2, u2) /\ Nested(native, s2)
  <2>1. Len(a2) \in Nat /\ m <= Len(a2)
    BY <1>7, <1>9
  <2>2. Agree(m, acts, b, u, a2, b2, u2) /\ Saved(native, st, acts, b, u)
    BY <1>13, <1>17
  <2>3. s2 \in StateType /\ m \in Nat
    BY <1>7, <1>10
  <2>. QED
    BY <1>1, <1>2, <1>11, <1>12, <2>1, <2>2, <2>3, SameExecutesSaved
<1>20. Level(s2, m, a2, b2)
  <2>1. Level(st, m, a2, b2)
    BY <1>7, <1>15, <1>17, LevelAgrees
  <2>. QED
    BY <1>10, <2>1, LevelState
<1>21. remaining + sz = MaxStack - u[m] /\ remaining + sz \in 0..MaxStack
  <2>1. sz \in Nat
    BY <1>8, <1>14, FunctionAssumption DEF sz
  <2>. DEFINE v == u[m]
              v2 == u[n]
  <2>. HIDE DEF v, v2
  <2>2. v \in Nat /\ v2 = v + sz /\ remaining = MaxStack - v2
    BY <1>14, <1>16 DEF v, v2
  <2>3. remaining + sz = MaxStack - v /\ remaining + sz \in 0..MaxStack
    BY <1>2, <2>1, <2>2
  <2>. QED
    BY <2>3 DEF v
<1>22. o2 >= b[m] + Need(x.pc)
  <2>1. Need(x.pc) \in Nat
    BY <1>15, FunctionAssumption DEF Need
  <2>. DEFINE w == Need(x.pc)
              v == b[m]
  <2>. HIDE DEF w, v
  <2>2. w \in Nat /\ v \in Nat /\ last >= v + w
    BY <1>14, <1>16, <2>1 DEF w, v
  <2>3. o2 >= v + w
    BY <1>2, <1>5, <2>2
  <2>. QED
    BY <2>3 DEF w, v
<1>23. AtCode(native[N], s2, x.last, remaining + sz, m, o2, a2, b2, u2)
  <2>1. s2.pc = a2[m].callee /\ x.last = b2[m] /\ s2.exiting = native[N].st.exiting
    BY <1>10, <1>14, <1>16, <1>18
  <2>2. remaining + sz = MaxStack - u2[m] /\ o2 >= x.last + Need(s2.pc)
    BY <1>10, <1>16, <1>18, <1>21, <1>22
  <2>. QED
    BY <1>20, <2>1, <2>2 DEF AtCode
<1>24. Current(native, s2, x.last, remaining + sz, m, o2, a2, b2, u2)
  <2>1. Len(native) > 0 /\ native[Len(native)].kind = "execute" /\ N = Len(native)
    BY <1>2, <1>6 DEF IsExecute, N
  <2>. QED
    BY <1>23, <2>1 DEF Current
<1>25. TypeInv'
  BY <1>1, <1>4, <1>5, <1>8, <1>9, <1>10, <1>21 DEF TypeInv
<1>. QED
  BY <1>1, <1>4, <1>9, <1>17, <1>19, <1>24, <1>25 DEF CallInv, o2

\* A host call is above the innermost execute.
LEMMA HostOnTop ==
  ASSUME CallInv, HostTop
  PROVE  /\ Len(native) \in Nat /\ Len(native) > 1
         /\ native[Len(native)].kind = "host" /\ IsExecute(native, Len(native) - 1)
         /\ \A i \in 1..Len(native) : IsExecute(native, i) =>
              /\ i <= Len(native) - 1
              /\ StateIn(i, native, st).as_index <= st.as_index
         /\ st.as_index \in Nat /\ st.as_index < Len(acts)
<1>1. TypeInv /\ Alternate(native) /\ Nested(native, st)
  BY DEF CallInv
<1>2. PICK b \in [0..Len(acts) -> Nat], u \in [0..Len(acts) -> Nat] :
        Current(native, st, last, remaining, Len(acts), Len(os), acts, b, u)
  BY DEF CallInv
<1>3. /\ Len(native) \in Nat /\ Len(native) > 1 /\ native[Len(native)].kind = "host"
      /\ native[Len(native) - 1].kind = "execute"
  BY <1>1, Tops
<1>4. ~Idle /\ ~InCode
  BY <1>1, <1>3, Tops
<1>5. Innermost = Len(native) - 1
  BY <1>1, <1>4, InnermostIs
<1>6. /\ \A i \in 1..Len(native) : IsExecute(native, i) =>
           i <= Innermost /\ StateIn(i, native, st).as_index <= st.as_index
      /\ st.as_index \in Nat /\ st.as_index < Len(acts)
  BY <1>1, <1>2, <1>4, Within
<1>. QED
  BY <1>3, <1>5, <1>6 DEF IsExecute

\* What a host function leaves of the operands: its arguments are replaced by
\* at most a result.
LEMMA HostReturnOperands ==
  ASSUME CallInv, NEW v \in Values, HostReturn(v), NEW f, f = native[Len(native)].f,
         f \in Functions, Len(os) >= Params[f]
  PROVE  os' \in Seq(Values) /\ Len(os') >= Len(os) - Params[f]
<1>. DEFINE o == Len(os)
            q == Params[f]
            t == SubSeq(os, 1, o - q)
            r == IF Results[f] = 1 THEN <<v>> ELSE <<>>
<1>1. os \in Seq(Values) /\ o \in Nat /\ q \in Nat
  BY Typed, FunctionAssumption
<1>2. os' = t \o r
  BY DEF HostReturn, Last
<1>3. r \in Seq(Values) /\ Len(r) \in Nat
  OBVIOUS
<1>4. o - q \in 0..o
  <2>. HIDE DEF o, q
  <2>1. o >= q
    BY DEF o, q
  <2>. QED
    BY <1>1, <2>1
<1>5. t \in Seq(Values) /\ Len(t) = o - q
  <2>. HIDE DEF q
  <2>. QED
    BY <1>1, <1>4, Prefix
<1>. HIDE DEF t, r, q
<1>6. os' \in Seq(Values) /\ Len(os') = Len(t) + Len(r)
  BY <1>2, <1>3, <1>5, ConcatProperties
<1>7. Len(os') >= o - q
  <2>. DEFINE k == Len(r)
              p == o - q
  <2>1. k \in Nat /\ p \in Int /\ Len(os') = p + k
    BY <1>3, <1>4, <1>5, <1>6
  <2>. HIDE DEF k, p
  <2>2. Len(os') >= p
    BY <2>1
  <2>. QED
    BY <2>2 DEF p
<1>. QED
  BY <1>6, <1>7 DEF q

\* A host function returns to the code that has called it, unless it has called
\* exit: the code goes on with its own frame, depth and operands.
LEMMA HostReturnStep ==
  ASSUME CallInv, NEW v \in Values, HostReturn(v)
  PROVE  CallInv'
<1>. DEFINE N == Len(native)
            n == Len(acts)
            o == Len(os)
            o2 == Len(os')
            h == native[N]
            m == n - 1
            M == N - 1
            e == native[M]
            a2 == SubSeq(acts, 1, m)
            nat2 == SubSeq(native, 1, M)
            r2 == h.remaining
<1>1. /\ acts \in Seq(FrameType) /\ native \in Seq(NativeType) /\ os \in Seq(Values)
      /\ st \in StateType /\ Alternate(native) /\ Nested(native, st) /\ TypeInv
  BY Typed
<1>2. N \in Nat /\ n \in Nat /\ o \in Nat /\ last \in Nat /\ MaxStack \in Nat
  BY Typed, BoundAssumption
<1>3. HostTop /\ acts[n].pc = "null" /\ st.pc # "halt"
  BY DEF HostReturn, CalledFromCode, Last
<1>4. /\ acts' = a2 /\ last' = last /\ remaining' = r2 /\ native' = nat2 /\ st' = st
  BY DEF HostReturn, Last, Front
<1>5. /\ N > 1 /\ IsExecute(native, M) /\ st.as_index \in Nat /\ st.as_index < n
      /\ \A i \in 1..N : IsExecute(native, i) =>
           i <= M /\ StateIn(i, native, st).as_index <= st.as_index
  BY <1>3, HostOnTop
<1>6. m \in Nat /\ m \in 0..n /\ n \in 1..n /\ st.as_index <= m /\ (m >= 1 => m \in 1..n)
  <2>. HIDE DEF n
  <2>. QED
    BY <1>2, <1>5
<1>7. M \in Nat /\ M \in 0..N /\ M \in 1..N /\ N \in 1..N /\ M >= 1 /\ N = M + 1
  <2>. HIDE DEF N
  <2>. QED
    BY <1>2, <1>5
<1>8. r2 \in 0..MaxStack /\ h.f \in Functions
  BY <1>1, <1>7, Elements
<1>9. a2 \in Seq(FrameType) /\ Len(a2) = m
  <2>. HIDE DEF m
  <2>. QED
    BY <1>1, <1>6, Prefix
<1>10. nat2 \in Seq(NativeType) /\ Len(nat2) = M /\ \A i \in 1..M : nat2[i] = native[i]
  <2>. HIDE DEF M
  <2>. QED
    BY <1>1, <1>7, Prefix
<1>. HIDE DEF n, m, M, N, a2, nat2, h, e, o, o2, r2
<1>11. \A i \in 1..M : IsExecute(native, i) => StateIn(i, native, st).as_index <= m
  <2>1. \A i \in 1..M : i \in 1..N
    BY <1>7
  <2>2. \A i \in 1..M : StateIn(i, native, st).as_index \in Nat
    BY <1>1, <2>1, StateInType DEF N
  <2>. QED
    BY <1>5, <1>6, <2>1, <2>2
<1>12. SameExecutes(native, nat2, st, st, M)
  <2>1. /\ M >= 1 /\ M <= Len(native) /\ M <= Len(nat2) /\ Len(native) <= M + 1
        /\ Len(nat2) <= M + 1 /\ Len(nat2) # M + 1
    BY <1>7, <1>10 DEF N
  <2>. QED
    BY <1>5, <1>10, <2>1 DEF SameExecutes
<1>13. nat2[M] = e /\ e.kind = "execute" /\ M > 0
  BY <1>5, <1>7, <1>10 DEF e, IsExecute
<1>14. PICK b \in [0..n -> Nat], u \in [0..n -> Nat] :
        /\ Frames(acts, b, u) /\ Saved(native, st, acts, b, u)
        /\ Current(native, st, last, remaining, n, o, acts, b, u)
  BY DEF CallInv, n, o
<1>15. AtHost(h, e, st, last, remaining, n, o, acts, b, u)
  BY <1>3, <1>14, OutsideCode DEF n, o, h, e, N, M
<1>16. FromCode(h, e, st, n, o, acts, b, u)
  <2>1. ~Direct(st, n, acts, b)
    <3>. SUFFICES ASSUME Direct(st, n, acts, b) PROVE FALSE
      OBVIOUS
    <3>1. n = st.as_index + 1 /\ acts[st.as_index + 1].pc = "halt"
      BY DEF Direct, Level
    <3>. QED
      BY <1>3, <3>1 DEF n
  <2>. QED
    BY <1>15, <2>1 DEF AtHost
<1>17. /\ Level(st, m, acts, b) /\ o >= b[m] + Need(acts[m].callee) + Params[h.f]
       /\ st.pc = acts[m].callee /\ st.exiting = e.st.exiting /\ r2 = MaxStack - u[m]
  <2>1. /\ Level(st, n - 1, acts, b) /\ o >= b[n - 1] + Need(acts[n - 1].callee) + Params[h.f]
        /\ st.pc = acts[n - 1].callee /\ st.exiting = e.st.exiting
        /\ h.remaining = MaxStack - u[n - 1]
    BY <1>3, <1>16 DEF FromCode
  <2>. QED
    BY <2>1 DEF m, r2
<1>18. last = b[m] /\ b[m] \in Nat
  <2>1. last = b[n]
    BY <1>15 DEF AtHost
  <2>2. b[n] = b[n - 1]
    BY <1>3, <1>6, <1>14 DEF Frames, n
  <2>3. b[m] \in Nat
    BY <1>6
  <2>. QED
    BY <2>1, <2>2, <2>3 DEF m
<1>19. m >= 1
  <2>1. st.as_index \in 0..(m - 1)
    BY <1>17 DEF Level
  <2>. QED
    BY <1>6, <2>1
<1>20. Need(acts[m].callee) \in Nat /\ Params[h.f] \in Nat
  <2>1. acts[m].callee \in Functions
    BY <1>1, <1>6, <1>19, Elements DEF n
  <2>. QED
    BY <1>8, <2>1, FunctionAssumption DEF Need
<1>21. os' \in Seq(Values) /\ o2 >= last + Need(st.pc)
  <2>. DEFINE w == Need(acts[m].callee)
              q == Params[h.f]
  <2>. HIDE DEF w, q
  <2>1. w \in Nat /\ q \in Nat /\ o >= last + w + q
    BY <1>17, <1>18, <1>20 DEF w, q
  <2>2. o >= q /\ o - q >= last + w
    BY <1>2, <2>1
  <2>3. os' \in Seq(Values) /\ o2 >= o - q /\ o2 \in Nat
    BY <1>8, <2>2, HostReturnOperands, LenProperties DEF o, o2, q, h, N
  <2>4. o2 >= last + w
    BY <1>2, <2>1, <2>2, <2>3
  <2>. QED
    BY <1>17, <2>3, <2>4 DEF w
<1>22. PICK b2 \in [0..m -> Nat], u2 \in [0..m -> Nat] :
         Frames(a2, b2, u2) /\ Agree(m, acts, b, u, a2, b2, u2)
  BY <1>1, <1>6, <1>14, FramesCut DEF n, a2
<1>23. b2[m] = b[m] /\ u2[m] = u[m] /\ a2[m] = acts[m]
  <2>1. m \in 0..m /\ m \in 1..m
    BY <1>6, <1>19
  <2>. QED
    BY <1>22, <2>1 DEF Agree
<1>24. Saved(nat2, st, a2, b2, u2) /\ Nested(nat2, st) /\ Alternate(nat2)
  <2>1. Len(a2) \in Nat /\ m <= Len(a2) /\ m \in Nat /\ M \in Nat
    BY <1>6, <1>7, <1>9
  <2>2. Agree(m, acts, b, u, a2, b2, u2) /\ Saved(native, st, acts, b, u)
    BY <1>14, <1>22
  <2>3. nat2 \in Seq(NativeType)
    BY <1>10
  <2>. QED
    BY <1>1, <1>11, <1>12, <2>1, <2>2, <2>3, SameExecutesSaved
<1>25. Level(st, m, a2, b2)
  BY <1>6, <1>17, <1>22, LevelAgrees
<1>26. AtCode(e, st, last, r2, m, o2, a2, b2, u2)
  BY <1>17, <1>18, <1>21, <1>23, <1>25 DEF AtCode
<1>27. Current(nat2, st, last, r2, m, o2, a2, b2, u2)
  BY <1>10, <1>13, <1>26 DEF Current
<1>28. TypeInv'
  BY <1>1, <1>2, <1>4, <1>8, <1>9, <1>10, <1>21 DEF TypeInv
<1>. QED
  BY <1>4, <1>9, <1>22, <1>24, <1>27, <1>28 DEF CallInv, o2

\* exit keeps both stacks; the host function that has called it goes on.
LEMMA ExitStep ==
  ASSUME CallInv, Exit
  PROVE  CallInv'
<1>. DEFINE N == Len(native)
            n == Len(acts)
            o == Len(os)
            M == N - 1
            h == native[N]
            e == native[M]
            s2 == [st EXCEPT !.pc = "halt", !.exiting = TRUE]
<1>1. /\ acts \in Seq(FrameType) /\ native \in Seq(NativeType) /\ os \in Seq(Values)
      /\ st \in StateType /\ Alternate(native) /\ Nested(native, st) /\ TypeInv
  BY Typed
<1>2. N \in Nat /\ n \in Nat /\ o \in Nat
  BY Typed
<1>3. HostTop /\ st' = s2 /\ UNCHANGED <<os, acts, last, remaining, native>>
  BY DEF Exit
<1>4. /\ N > 1 /\ native[N].kind = "host" /\ IsExecute(native, M)
      /\ st.as_index \in Nat /\ st.as_index < n
      /\ \A i \in 1..N : IsExecute(native, i) =>
           i <= M /\ StateIn(i, native, st).as_index <= st.as_index
  BY <1>3, HostOnTop
<1>5. TRUE \in Flag /\ "halt" \in Return_to
  BY DEF Flag, Return_to
<1>6. /\ s2 \in StateType /\ s2.as_index = st.as_index /\ s2.os_index = st.os_index
      /\ s2.pc = "halt"
  BY <1>1, <1>5 DEF StateType
<1>. HIDE DEF n, M, N, h, e, o, s2
<1>7. M \in Nat /\ M >= 1 /\ N = M + 1 /\ \A i \in 1..M : i \in 1..N
  BY <1>2, <1>4 DEF M
<1>8. SameExecutes(native, native, st, s2, M)
  <2>1. M <= Len(native) /\ Len(native) <= M + 1 /\ native[M + 1].kind = "host"
    BY <1>4, <1>7 DEF N
  <2>. QED
    BY <1>4, <1>6, <1>7, <2>1 DEF SameExecutes
<1>9. \A i \in 1..M : IsExecute(native, i) => StateIn(i, native, st).as_index <= n
  <2>1. \A i \in 1..M : StateIn(i, native, st).as_index \in Nat
    BY <1>1, <1>7, StateInType DEF N
  <2>. QED
    BY <1>2, <1>4, <1>7, <2>1
<1>10. PICK b \in [0..n -> Nat], u \in [0..n -> Nat] :
        /\ Frames(acts, b, u) /\ Saved(native, st, acts, b, u)
        /\ Current(native, st, last, remaining, n, o, acts, b, u)
  BY DEF CallInv, n, o
<1>11. AtHost(h, e, st, last, remaining, n, o, acts, b, u)
  BY <1>3, <1>10, OutsideCode DEF n, o, h, e, N, M
<1>12. FromCode(h, e, st, n, o, acts, b, u) => FromCode(h, e, s2, n, o, acts, b, u)
  <2>. SUFFICES ASSUME FromCode(h, e, st, n, o, acts, b, u)
                PROVE  FromCode(h, e, s2, n, o, acts, b, u)
    OBVIOUS
  <2>1. Level(s2, n - 1, acts, b)
    BY <1>6, LevelState DEF FromCode
  <2>. QED
    BY <1>6, <2>1 DEF FromCode
<1>13. Direct(st, n, acts, b) => Direct(s2, n, acts, b)
  BY <1>6, LevelState DEF Direct
<1>14. AtHost(h, e, s2, last, remaining, n, o, acts, b, u)
  BY <1>6, <1>11, <1>12, <1>13 DEF AtHost
<1>15. Current(native, s2, last, remaining, n, o, acts, b, u)
  <2>1. Outside(N, native, s2, last, remaining, n, o, acts, b, u)
    BY <1>4, <1>14 DEF Outside, h, e, M
  <2>. QED
    BY <1>4, <2>1 DEF Current, N
<1>16. Saved(native, s2, acts, b, u) /\ Nested(native, s2)
  <2>1. Agree(n, acts, b, u, acts, b, u) /\ Len(acts) \in Nat /\ n <= Len(acts)
    BY <1>2 DEF Agree, n
  <2>2. Saved(native, st, acts, b, u)
    BY <1>10
  <2>. QED
    BY <1>1, <1>2, <1>6, <1>7, <1>8, <1>9, <2>1, <2>2, SameExecutesSaved
<1>17. TypeInv'
  BY <1>1, <1>3, <1>6 DEF TypeInv
<1>. QED
  BY <1>1, <1>3, <1>10, <1>15, <1>16, <1>17 DEF CallInv, n, o

\* initialize finds nothing to clear.
LEMMA ResetStep ==
  ASSUME CallInv, Reset
  PROVE  UNCHANGED vars
<1>1. PICK b \in [0..Len(acts) -> Nat], u \in [0..Len(acts) -> Nat] :
        /\ Frames(acts, b, u)
        /\ Current(native, st, last, remaining, Len(acts), Len(os), acts, b, u)
  BY DEF CallInv
<1>2. Idle /\ Len(native) = 0
  BY Typed, Tops DEF Reset
<1>3. Clean(st, last, remaining, Len(acts), Len(os))
  BY <1>1, <1>2, OutsideCode DEF Outside
<1>4. os = <<>> /\ acts = <<>> /\ st = NoState
  BY <1>3, Typed, EmptyIs DEF Clean
<1>5. \A S : \A s \in Seq(S) : s = <<>> => SubSeq(s, 1, 0) = <<>>
  <2>. SUFFICES ASSUME NEW S, NEW s \in Seq(S), s = <<>> PROVE SubSeq(s, 1, 0) = <<>>
    OBVIOUS
  <2>1. 0 \in 0..Len(s)
    OBVIOUS
  <2>2. SubSeq(s, 1, 0) \in Seq(S) /\ Len(SubSeq(s, 1, 0)) = 0
    BY <2>1, Prefix
  <2>. QED
    BY <2>2, EmptyIs
<1>6. SubSeq(os, 1, 0) = os /\ SubSeq(acts, 1, 0) = acts
  BY <1>4, <1>5, Typed
<1>. QED
  BY <1>4, <1>6 DEF Reset, vars

-----------------------------------------------------------------------------
(* The invariants.                                                         *)

\* A machine that has run nothing.
LEMMA InitStep ==
  ASSUME Init
  PROVE  CallInv
<1>. DEFINE z == [k \in 0..0 |-> 0]
<1>1. /\ os = <<>> /\ acts = <<>> /\ native = <<>> /\ last = 0 /\ remaining = MaxStack
      /\ st = NoState
  BY DEF Init
<1>2. Len(acts) = 0 /\ Len(os) = 0 /\ Len(native) = 0
  BY <1>1
<1>3. st \in StateType
  <2>1. FALSE \in Flag /\ "null" \in Return_to
    BY DEF Flag, Return_to
  <2>. QED
    BY <1>1, <2>1 DEF NoState, StateType
<1>4. TypeInv
  BY <1>1, <1>3, BoundAssumption DEF TypeInv
<1>5. Alternate(native) /\ Nested(native, st)
  BY <1>2 DEF Alternate, Nested
<1>6. z \in [0..Len(acts) -> Nat] /\ z[0] = 0
  BY <1>2
<1>. HIDE DEF z
<1>7. Frames(acts, z, z) /\ Saved(native, st, acts, z, z)
  BY <1>2, <1>6 DEF Frames, Saved
<1>8. Current(native, st, last, remaining, Len(acts), Len(os), acts, z, z)
  BY <1>1, <1>2 DEF Current, Outside, Clean
<1>. QED
  BY <1>4, <1>5, <1>6, <1>7, <1>8 DEF CallInv

\* Every step keeps the invariant.
LEMMA NextStep ==
  ASSUME CallInv, [Next]_vars
  PROVE  CallInv'
<1>1. CASE UNCHANGED vars
  <2>1. /\ os' = os /\ acts' = acts /\ last' = last /\ remaining' = remaining /\ st' = st
        /\ native' = native
    BY <1>1 DEF vars
  <2>. QED
    BY <2>1 DEF CallInv, TypeInv
<1>2. ASSUME NEW f \in Functions, NEW args \in Args(f), Execute(f, args) PROVE CallInv'
  BY <1>2, ExecuteStep
<1>3. CASE \/ \E v \in Values : Push(v)
           \/ Pop
           \/ \E i \in 0..MaxOperands : SetOperand(i)
  BY <1>3, InstructionStep
<1>4. ASSUME NEW f \in Functions, CallFunction(f) PROVE CallInv'
  BY <1>4, CallFunctionStep
<1>5. ASSUME NEW f \in Functions, CallHost(f) PROVE CallInv'
  BY <1>5, CallHostStep
<1>6. CASE Return
  BY <1>6, ReturnStep
<1>7. CASE ReturnFromExecute \/ Throw \/ HostReturnEnds
  <2>1. ~Idle /\ Cleanup
    BY <1>7 DEF ReturnFromExecute, Throw, HostReturnEnds, Running, InCode, HostTop
  <2>. QED
    BY <2>1, CleanupStep
<1>8. CASE Exit
  BY <1>8, ExitStep
<1>9. ASSUME NEW v \in Values, HostReturn(v) PROVE CallInv'
  BY <1>9, HostReturnStep
<1>10. CASE Reset
  BY <1>1, <1>10, ResetStep
<1>. QED
  BY <1>1, <1>2, <1>3, <1>4, <1>5, <1>6, <1>7, <1>8, <1>9, <1>10 DEF Next

\* In every reachable state, whatever is nested in whatever, frames save what
\* their callers need and executes save what the machine was when they began.
THEOREM CallInvariant == Spec => []CallInv
<1>1. Init => CallInv
  BY InitStep
<1>2. CallInv /\ [Next]_vars => CallInv'
  BY NextStep
<1>. QED
  BY <1>1, <1>2, PTL DEF Spec

\* Both stacks, the indices into them and the call depth have their types, and
\* a running function has its parameters and locals (execute, call,
\* apply_pop_call).
THEOREM TypeOKAlways == Spec => []TypeOK
<1>1. CallInv => TypeOK
  <2>. SUFFICES ASSUME CallInv PROVE TypeOK
    OBVIOUS
  <2>1. /\ os \in Seq(Values) /\ acts \in Seq(FrameType) /\ remaining \in 0..MaxStack
        /\ st \in StateType /\ last \in Nat /\ Len(os) \in Nat /\ TypeInv
    BY Typed
  <2>2. DOMAIN acts = 1..Len(acts)
    BY <2>1
  <2>3. \A i \in DOMAIN acts : acts[i].pc \in Functions \cup {"halt", "null"}
    BY <2>1, <2>2, Elements DEF Return_to
  <2>4. st.pc \in Functions \cup {"halt", "null"}
    BY <2>1 DEF StateType, Return_to
  <2>5. PICK b \in [0..Len(acts) -> Nat], u \in [0..Len(acts) -> Nat] :
          /\ Frames(acts, b, u)
          /\ Current(native, st, last, remaining, Len(acts), Len(os), acts, b, u)
    BY DEF CallInv
  <2>6. last <= Len(os)
    <3>1. CASE Idle
      <4>1. Clean(st, last, remaining, Len(acts), Len(os))
        BY <2>5, <3>1, OutsideCode, Typed, Tops DEF Outside
      <4>. QED
        BY <4>1 DEF Clean
    <3>2. CASE ~Idle
      BY <2>5, <3>2, Typed, Within
    <3>. QED
      BY <3>1, <3>2
  <2>7. ASSUME Running PROVE Operands >= 0
    <3>1. /\ Operands = Len(os) - last - Need(st.pc) /\ Need(st.pc) \in Nat
          /\ Len(os) >= last + Need(st.pc)
      BY <2>5, <2>7, OperandsAre, CodeFacts
    <3>. DEFINE o == Len(os)
                w == Need(st.pc)
    <3>. HIDE DEF o, w
    <3>2. o \in Nat /\ w \in Nat /\ Operands = o - last - w /\ o >= last + w
      BY <2>1, <3>1 DEF o, w
    <3>. QED
      BY <2>1, <3>2
  <2>8. last \in 0..Len(os)
    BY <2>1, <2>6
  <2>. QED
    BY <2>1, <2>3, <2>4, <2>7, <2>8 DEF TypeOK
<1>. QED
  BY <1>1, CallInvariant, PTL

\* Used is the only function of its recursive definition.
LEMMA UsedIs ==
  ASSUME CallInv, NEW b \in [0..Len(acts) -> Nat], NEW u \in [0..Len(acts) -> Nat],
         Frames(acts, b, u)
  PROVE  Used[Len(acts)] = u[Len(acts)]
<1>. DEFINE n == Len(acts)
            D(F) == [i \in 0..n |-> IF i = 0 THEN 0 ELSE F[i - 1] + StackSize[acts[i].callee]]
<1>1. n \in Nat
  BY Typed
<1>2. u[0] = 0 /\ \A i \in 1..n : u[i] = u[i - 1] + StackSize[acts[i].callee]
  BY DEF Frames
<1>3. u = D(u)
  <2>. HIDE DEF n
  <2>1. u \in [0..n -> Nat]
    BY DEF n
  <2>2. \A i \in 0..n : u[i] = D(u)[i]
    BY <1>1, <1>2
  <2>. QED
    BY <2>1, <2>2
<1>4. Used = CHOOSE F : F = D(F)
  BY DEF Used
<1>. HIDE DEF n
<1>5. Used = D(Used)
  <2>. HIDE DEF D
  <2>. QED
    BY <1>3, <1>4, Zenon
<1>6. Used[0] = 0 /\ \A i \in 1..n : Used[i] = Used[i - 1] + StackSize[acts[i].callee]
  <2>1. \A i \in 0..n : Used[i] = IF i = 0 THEN 0 ELSE Used[i - 1] + StackSize[acts[i].callee]
    <3>. DEFINE G == Used
    <3>1. G = D(G)
      BY <1>5
    <3>. HIDE DEF G
    <3>2. \A i \in 0..n : G[i] = IF i = 0 THEN 0 ELSE G[i - 1] + StackSize[acts[i].callee]
      BY <3>1
    <3>. QED
      BY <3>2 DEF G
  <2>. QED
    BY <1>1, <2>1
<1>7. \A i \in 0..n : Used[i] = u[i]
  <2>. DEFINE T == {i \in 0..n : Used[i] = u[i]}
  <2>1. 0 \in T
    BY <1>1, <1>2, <1>6
  <2>2. ASSUME NEW k \in 0..(n - 1), k \in T PROVE k + 1 \in T
    <3>1. k + 1 \in 1..n /\ k + 1 \in 0..n /\ (k + 1) - 1 = k
      BY <1>1
    <3>2. Used[k + 1] = u[k + 1]
      BY <1>2, <1>6, <2>2, <3>1
    <3>. QED
      BY <3>1, <3>2
  <2>. HIDE DEF T
  <2>3. \A i \in 0..n : i \in T
    BY <1>1, <2>1, <2>2, Climb
  <2>. QED
    BY <2>3 DEF T
<1>. QED
  BY <1>1, <1>7 DEF n

\* The depth left is what the live activations do not use, through every call,
\* return, exit and exception (push_call, apply_pop_call, call, execute).
THEOREM BudgetExactAlways == Spec => []BudgetExact
<1>1. CallInv => BudgetExact
  <2>. SUFFICES ASSUME CallInv PROVE BudgetExact
    OBVIOUS
  <2>1. PICK b \in [0..Len(acts) -> Nat], u \in [0..Len(acts) -> Nat] :
          /\ Frames(acts, b, u)
          /\ Current(native, st, last, remaining, Len(acts), Len(os), acts, b, u)
    BY DEF CallInv
  <2>2. remaining = MaxStack - u[Len(acts)]
    BY <2>1, Typed, Tops, OutsideCode, CodeFacts
  <2>3. Len(acts) \in 0..Len(acts)
    BY Typed
  <2>4. u[Len(acts)] \in Nat
    BY <2>3
  <2>5. Used[Len(acts)] = u[Len(acts)]
    BY <2>1, UsedIs
  <2>. QED
    BY <2>2, <2>4, <2>5, BoundAssumption DEF BudgetExact
<1>. QED
  BY <1>1, CallInvariant, PTL

\* Between calls of the embedder nothing is left of earlier ones, however they
\* have ended (execute's scope_guard).
THEOREM IdleIsCleanAlways == Spec => []IdleIsClean
<1>1. CallInv => IdleIsClean
  <2>. SUFFICES ASSUME CallInv, Idle
                PROVE  os = <<>> /\ acts = <<>> /\ last = 0 /\ remaining = MaxStack /\ st = NoState
    BY DEF IdleIsClean
  <2>1. PICK b \in [0..Len(acts) -> Nat], u \in [0..Len(acts) -> Nat] :
          /\ Frames(acts, b, u)
          /\ Current(native, st, last, remaining, Len(acts), Len(os), acts, b, u)
    BY DEF CallInv
  <2>2. Clean(st, last, remaining, Len(acts), Len(os))
    BY <2>1, OutsideCode, Typed, Tops DEF Outside
  <2>. QED
    BY <2>2, Typed, EmptyIs DEF Clean
<1>. QED
  BY <1>1, CallInvariant, PTL

\* Code runs in an execute only if exit was not called in it (exit, call).
THEOREM ExitStopsCodeAlways == Spec => []ExitStopsCode
<1>1. CallInv => ExitStopsCode
  <2>. SUFFICES ASSUME CallInv, InCode
                PROVE  st.pc # "halt" /\ st.exiting = native[Innermost].st.exiting
    BY DEF ExitStopsCode
  <2>1. PICK b \in [0..Len(acts) -> Nat], u \in [0..Len(acts) -> Nat] :
          Current(native, st, last, remaining, Len(acts), Len(os), acts, b, u)
    BY DEF CallInv
  <2>2. st.pc \in Functions /\ st.exiting = native[Len(native)].st.exiting /\ ~Idle
    BY <2>1, CodeFacts
  <2>3. Innermost = Len(native)
    BY <2>2, Typed, InnermostIs
  <2>. QED
    BY <2>2, <2>3, FunctionAssumption
<1>. QED
  BY <1>1, CallInvariant, PTL
=============================================================================
