----------------------------- MODULE CallFrames -----------------------------
(***************************************************************************)
(* What the interpreter's call machinery promises: every activation has    *)
(* operands of its own.  A step touches the top activation only, apart     *)
(* from the arguments it passes and the result it hands back; when an      *)
(* execute ends, for whatever reason, the activations below it are as they *)
(* were when it began.                                                     *)
(***************************************************************************)
EXTENDS Integers, SequencesExt

CONSTANT Zero  \* what locals start with

VARIABLES
  frames,  \* the operands, arguments and locals included, of each activation
  marks    \* how many activations there were when each open execute began

fvars == <<frames, marks>>

Drop(s, n) == SubSeq(s, 1, Len(s) - n)
Keep(s, n) == SubSeq(s, Len(s) - n + 1, Len(s))
Top    == Last(frames)
Caller == frames[Len(frames) - 1]

\* Every activation but the top one is left alone.
OnlyTop == Len(frames') = Len(frames) /\ Front(frames') = Front(frames)

CFInit == frames = <<>> /\ marks = <<>>

\* execute: arguments come from outside.
Enter ==
  /\ Len(frames') = Len(frames) + 1 /\ Front(frames') = frames
  /\ marks' = Append(marks, Len(frames))

\* A call moves its arguments to a new activation, whose locals are zero.
Call ==
  /\ Len(frames') = Len(frames) + 1
  /\ marks # <<>> /\ marks' = marks
  /\ LET callee == Last(frames') IN
     \E k \in 0..Len(Top) :
       /\ Front(frames') = Append(Front(frames), Drop(Top, k))
       /\ IsPrefix(Keep(Top, k), callee)
       /\ \A i \in (k + 1)..Len(callee) : callee[i] = Zero

\* A return hands at most one operand to the caller.
Return ==
  /\ Len(frames') = Len(frames) - 1
  /\ marks # <<>> /\ Len(frames) > Last(marks) + 1 /\ marks' = marks
  /\ \E k \in 0..1 :
       /\ k <= Len(Top)
       /\ frames' = Append(SubSeq(frames, 1, Len(frames) - 2), Caller \o Keep(Top, k))

\* Instructions and host functions: the top activation replaces operands by
\* at most one, or sets a local.
Compute ==
  /\ frames # <<>> /\ OnlyTop
  /\ LET old == Top
         new == Last(frames') IN
     \E k \in 0..Len(old) : IsPrefix(Drop(old, k), new) /\ Len(new) <= Len(old) - k + 1
  /\ marks' = marks

SetLocal ==
  /\ frames # <<>> /\ OnlyTop
  /\ LET old == Top
         new == Last(frames') IN
     \E i \in 1..(Len(old) - 1) : new = [Front(old) EXCEPT ![i] = Last(old)]
  /\ marks' = marks

\* The end of an execute, by return, exit or exception.
Leave ==
  /\ marks # <<>>
  /\ frames' = SubSeq(frames, 1, Last(marks))
  /\ marks' = Front(marks)

CFNext == Enter \/ Call \/ Return \/ Compute \/ SetLocal \/ Leave

CFSpec == CFInit /\ [][CFNext]_fvars
=============================================================================
