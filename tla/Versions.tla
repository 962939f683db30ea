------------------------------ MODULE Versions ------------------------------
(***************************************************************************)
(* Release tags and how `sshgo update' compares them                       *)
(* (internal/update/update.go), beside the order that semantic versioning  *)
(* gives them.                                                             *)
(***************************************************************************)
EXTENDS Integers, Sequences

\* v1.2.0 is [core |-> <<1, 2, 0>>, pre |-> 0], and v1.2.0-rc1 has pre = 1.
Version == [core : Seq(Nat) \ {<<>>}, pre : Nat]

\* A part of a tag that strconv.Atoi refuses, such as "0-rc1".
NotANumber == -1

\* What splitting a tag at its dots gives: a pre-release spoils the last part.
Parts(v) ==
  IF v.pre = 0 THEN v.core ELSE [v.core EXCEPT ![Len(v.core)] = NotANumber]

PartAt(parts, n) == IF n <= Len(parts) THEN parts[n] ELSE 0
Longer(a, b) == IF Len(a) < Len(b) THEN Len(b) ELSE Len(a)

\* Defect: only the parts that both tags have are compared.
SemverCompareShort(v, w) ==
  LET a == Parts(v)
      b == Parts(w)
      last == IF Len(a) < Len(b) THEN Len(a) ELSE Len(b)
      From[n \in 1..(last + 1)] ==
        IF n > last \/ PartAt(a, n) = NotANumber \/ PartAt(b, n) = NotANumber THEN 0
        ELSE IF PartAt(a, n) < PartAt(b, n) THEN -1
        ELSE IF PartAt(a, n) > PartAt(b, n) THEN 1
        ELSE From[n + 1]
  IN  From[1]

\* Part by part; one that is not a number ends the comparison, as equal.
SemverCompare(v, w) ==
  LET a == Parts(v)
      b == Parts(w)
      last == Longer(a, b)
      From[n \in 1..(last + 1)] ==
        IF n > last \/ PartAt(a, n) = NotANumber \/ PartAt(b, n) = NotANumber THEN 0
        ELSE IF PartAt(a, n) < PartAt(b, n) THEN -1
        ELSE IF PartAt(a, n) > PartAt(b, n) THEN 1
        ELSE From[n + 1]
  IN  From[1]

-----------------------------------------------------------------------------
(* The reference: precedence in semantic versioning.                       *)

CoreBefore(c, d) ==
  \E n \in 1..Longer(c, d) :
    /\ PartAt(c, n) < PartAt(d, n)
    /\ \A m \in 1..(n - 1) : PartAt(c, m) = PartAt(d, m)

Precedes(v, w) ==
  \/ CoreBefore(v.core, w.core)
  \/ /\ ~CoreBefore(w.core, v.core)
     /\ v.pre # 0 /\ (w.pre = 0 \/ v.pre < w.pre)
=============================================================================
