------------------------------ MODULE Induction ------------------------------
(***************************************************************************)
(* Induction over the natural numbers without predicates as parameters:    *)
(* about sets of numbers, which is what the provers can instantiate.  The  *)
(* proofs about definitions by recursion rest on these lemmas.             *)
(***************************************************************************)
EXTENDS WellFoundedInduction, TLAPS

LEMMA LessThanIsWellFounded == IsWellFoundedOn({ss \in Nat \X Nat : ss[1] < ss[2]}, Nat)
<1>1. OpToRel(<, Nat) = {ss \in Nat \X Nat : ss[1] < ss[2]}
  BY DEF OpToRel
<1> QED
  BY <1>1, NatLessThanWellFounded

\* A set of natural numbers that is not empty has a least element.
LEMMA LeastNat ==
  ASSUME NEW T \in SUBSET Nat, T # {}
  PROVE  \E x \in T : \A y \in T : x <= y
<1> DEFINE R == {ss \in Nat \X Nat : ss[1] < ss[2]}
<1>1. IsWellFoundedOn(R, Nat)
  BY LessThanIsWellFounded
<1>2. \A x, y \in Nat : y < x => <<y, x>> \in R
  OBVIOUS
<1>3. PICK x \in T : \A y \in T : ~ (<<y, x>> \in R)
  <2> HIDE DEF R
  <2> QED BY <1>1, WFMin
<1> HIDE DEF R
<1>4. \A y \in T : ~ (y < x)
  BY <1>2, <1>3
<1> QED
  BY <1>4

\* A set that holds 0 and the successor of all it holds is all of Nat.
LEMMA SetInduction ==
  ASSUME NEW S \in SUBSET Nat, 0 \in S, \A n \in S : n + 1 \in S
  PROVE  S = Nat
<1>1. SUFFICES ASSUME Nat \ S # {} PROVE FALSE
  OBVIOUS
<1>2. PICK x \in Nat \ S : \A y \in Nat \ S : x <= y
  BY <1>1, LeastNat
<1>3. x - 1 \in Nat /\ x - 1 \in S
  BY <1>2
<1> QED
  BY <1>2, <1>3

(***************************************************************************)
(* Primitive recursion up to n has a solution.  The step from one value to *)
(* the next is a function, given with the definition it is used for.       *)
(***************************************************************************)
Upward(f, n, S, base, step) ==
  f \in [0..n -> S] /\ f[0] = base /\ \A i \in 1..n : f[i] = step[i][f[i - 1]]

LEMMA UpwardRecursion ==
  ASSUME NEW n \in Nat, NEW S, NEW base \in S, NEW step \in [1..n -> [S -> S]]
  PROVE  \E f : Upward(f, n, S, base, step)
<1> DEFINE Solves(f, k) == f[0] = base /\ \A i \in 1..k : f[i] = step[i][f[i - 1]]
           Solved == {k \in Nat : k <= n => \E f \in [0..k -> S] : Solves(f, k)}
<1>1. 0 \in Solved
  <2>1. [i \in 0..0 |-> base] \in [0..0 -> S] /\ Solves([i \in 0..0 |-> base], 0)
    OBVIOUS
  <2> QED BY <2>1
<1>2. ASSUME NEW k \in Solved PROVE k + 1 \in Solved
  <2>0. k \in Nat /\ k + 1 \in Nat
    OBVIOUS
  <2>1. SUFFICES ASSUME k + 1 <= n
                 PROVE  \E f \in [0..(k + 1) -> S] : Solves(f, k + 1)
    <3> HIDE DEF Solves
    <3> QED BY <2>0
  <2>2. PICK f \in [0..k -> S] : Solves(f, k)
    BY <1>2, <2>0, <2>1
  <2> DEFINE g == [i \in 0..(k + 1) |-> IF i = k + 1 THEN step[k + 1][f[k]] ELSE f[i]]
  <2>3. g \in [0..(k + 1) -> S]
    <3>1. step[k + 1] \in [S -> S] /\ f[k] \in S
      BY <2>1, <2>2
    <3> QED BY <3>1
  <2>4. \A i \in 1..(k + 1) : g[i] = step[i][g[i - 1]]
    BY <2>2
  <2>5. g[0] = base
    BY <2>2
  <2> HIDE DEF g
  <2> QED BY <2>3, <2>4, <2>5
<1>3. Solved = Nat
  <2> HIDE DEF Solved
  <2>1. Solved \in SUBSET Nat
    BY DEF Solved
  <2> QED BY <1>1, <1>2, <2>1, SetInduction
<1> QED
  BY <1>3 DEF Upward

\* And so has recursion down to 1, from n + 1.
Downward(f, n, S, base, step) ==
  f \in [1..(n + 1) -> S] /\ f[n + 1] = base /\ \A i \in 1..n : f[i] = step[i][f[i + 1]]

LEMMA DownwardRecursion ==
  ASSUME NEW n \in Nat, NEW S, NEW base \in S, NEW step \in [1..n -> [S -> S]]
  PROVE  \E f : Downward(f, n, S, base, step)
<1> DEFINE back == [i \in 1..n |-> step[n + 1 - i]]
<1>1. back \in [1..n -> [S -> S]]
  OBVIOUS
<1>2. PICK g : /\ g \in [0..n -> S] /\ g[0] = base
               /\ \A i \in 1..n : g[i] = back[i][g[i - 1]]
  <2> HIDE DEF back
  <2>1. \E g : Upward(g, n, S, base, back)
    BY <1>1, UpwardRecursion
  <2> QED BY <2>1 DEF Upward
<1> DEFINE f == [i \in 1..(n + 1) |-> g[n + 1 - i]]
<1>3. f \in [1..(n + 1) -> S] /\ f[n + 1] = base
  BY <1>2
<1>4. ASSUME NEW i \in 1..n PROVE f[i] = step[i][f[i + 1]]
  <2>1. n + 1 - i \in 1..n /\ n + 1 - (n + 1 - i) = i /\ (n + 1 - i) - 1 = n + 1 - (i + 1)
    OBVIOUS
  <2>2. g[n + 1 - i] = back[n + 1 - i][g[n + 1 - (i + 1)]]
    BY <1>2, <2>1
  <2>3. back[n + 1 - i] = step[i]
    BY <2>1
  <2>4. f[i] = g[n + 1 - i] /\ f[i + 1] = g[n + 1 - (i + 1)]
    OBVIOUS
  <2> QED BY <2>2, <2>3, <2>4
<1> HIDE DEF f
<1> QED
  BY <1>3, <1>4 DEF Downward
=============================================================================
