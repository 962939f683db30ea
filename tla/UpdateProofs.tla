----------------------------- MODULE UpdateProofs -----------------------------
(***************************************************************************)
(* Theorems about Update: for any releases and any builds, whatever the    *)
(* comparison of their tags answers.                                       *)
(***************************************************************************)
EXTENDS Update, Induction, TLAPS

LEMMA InitInv == Init => IInv
BY DEF Init, IInv, TypeOK, BinaryTracked, FileTracked, SaidTracked, ReportIsTrue, NoFileLeft,
       Binaries, Steps, Endings

(***************************************************************************)
(* Every step of an update, and whatever happens beside it, preserves the  *)
(* invariant.                                                              *)
(***************************************************************************)
LEMMA NextInv == IInv /\ [Next]_vars => IInv'
<1> SUFFICES ASSUME IInv, [Next]_vars PROVE IInv'
  OBVIOUS
<1> USE DEF IInv, TypeOK, BinaryTracked, FileTracked, SaidTracked, ReportIsTrue, NoFileLeft,
            Binaries, Steps, Endings, environment
<1>1. CASE CheckLatest
  BY <1>1 DEF CheckLatest, Goto, Return
<1>2. CASE Fail
  BY <1>2 DEF Fail, Return
<1>3. CASE CreateTemp
  BY <1>3 DEF CreateTemp
<1>4. CASE Download
  BY <1>4 DEF Download
<1>5. CASE Rename
  BY <1>5 DEF Rename, Install, Payload, Return
<1>6. CASE RenameRefused
  BY <1>6 DEF RenameRefused, Goto
<1>7. CASE OpenTarget
  BY <1>7 DEF OpenTarget, Goto
<1>8. CASE OpenRefused
  BY <1>8 DEF OpenRefused, Goto
<1>9. CASE Copy
  <2>1. CASE Install(Payload) /\ UNCHANGED unflushed
    BY <1>9, <2>1 DEF Copy, Install, Payload, Return
  <2>2. CASE Install(Cut) /\ unflushed' = TRUE
    BY <1>9, <2>2 DEF Copy, Install, Return
  <2> QED BY <1>9, <2>1, <2>2 DEF Copy
<1>10. CASE CopyFails
  BY <1>10 DEF CopyFails, Goto
<1>11. CASE SudoMove
  BY <1>11 DEF SudoMove, Install, Payload, Return
<1>12. CASE SudoFails
  <2>1. CASE UNCHANGED <<installed, exposed>>
    BY <1>12, <2>1 DEF SudoFails, Return
  <2>2. CASE installed' = Cut /\ exposed' = TRUE
    BY <1>12, <2>2 DEF SudoFails, Return
  <2> QED BY <1>12, <2>1, <2>2 DEF SudoFails
<1>13. CASE Kill
  BY <1>13 DEF Kill
<1>14. CASE RunAgain
  BY <1>14 DEF RunAgain
<1>15. CASE Publish
  BY <1>15 DEF Publish
<1>16. CASE FallSilent
  BY <1>16 DEF FallSilent
<1>17. CASE UNCHANGED vars
  BY <1>17 DEF vars
<1>18. CASE DownloadUnreadable
  BY <1>18 DEF DownloadUnreadable, Return
<1> QED
  BY <1>1, <1>2, <1>3, <1>4, <1>5, <1>6, <1>7, <1>8, <1>9, <1>10, <1>11, <1>12, <1>13,
     <1>14, <1>15, <1>16, <1>17, <1>18
  DEF Next, Step, Terminating

(***************************************************************************)
(* The inductive invariant always holds.                                   *)
(***************************************************************************)
THEOREM UpdateInvariant == Spec => []IInv
<1>1. Init => IInv
  BY InitInv
<1>2. IInv /\ [Next]_vars => IInv'
  BY NextInv
<1> QED BY <1>1, <1>2, PTL DEF Spec

(***************************************************************************)
(* Type correctness: the binary is always a release, a build, or cut.      *)
(***************************************************************************)
THEOREM TypeCorrect == Spec => []TypeOK
<1>1. IInv => TypeOK
  BY DEF IInv
<1> QED BY <1>1, UpdateInvariant, PTL

(***************************************************************************)
(* Whatever fails, and whatever is published meanwhile, what an update     *)
(* says is what has become of the binary.                                  *)
(***************************************************************************)
THEOREM ReportIsTrueAlways == Spec => []ReportIsTrue
<1>1. IInv => ReportIsTrue
  BY DEF IInv
<1> QED BY <1>1, UpdateInvariant, PTL

(***************************************************************************)
(* An update leaves no downloaded file, wherever it stops, unless it is    *)
(* killed or leaves the rest to the user.                                  *)
(***************************************************************************)
THEOREM NoFileLeftAlways == Spec => []NoFileLeft
<1>1. IInv => NoFileLeft
  BY DEF IInv
<1> QED BY <1>1, UpdateInvariant, PTL

-----------------------------------------------------------------------------
(* What SemverCompare, a loop over the parts of two tags, answers.         *)

\* The parts of a tag are those of its core, but for the last of a pre-release.
LEMMA PartsOfTag ==
  ASSUME NEW v \in Version
  PROVE  /\ Len(v.core) \in Nat \ {0} /\ Len(Parts(v)) = Len(v.core)
         /\ \A n \in Nat \ {0} :
              /\ PartAt(v.core, n) \in Nat
              /\ PartAt(Parts(v), n) = IF v.pre # 0 /\ n = Len(v.core) THEN NotANumber
                                       ELSE PartAt(v.core, n)
<1>1. v.core \in Seq(Nat) /\ v.core # <<>> /\ v.pre \in Nat
  BY DEF Version
<1>2. Len(v.core) \in Nat \ {0} /\ v.core \in [1..Len(v.core) -> Nat]
  BY <1>1
<1>3. /\ Len(Parts(v)) = Len(v.core)
      /\ \A n \in 1..Len(v.core) :
           Parts(v)[n] = IF v.pre # 0 /\ n = Len(v.core) THEN NotANumber ELSE v.core[n]
  BY <1>1, <1>2 DEF Parts, NotANumber
<1> QED
  BY <1>2, <1>3 DEF PartAt

\* The recursion that compares from the first part on has a solution.
LEMMA CompareRecursion ==
  ASSUME NEW v \in Version, NEW w \in Version
  PROVE  LET a == Parts(v)
             b == Parts(w)
             last == Longer(a, b)
         IN  \E f :
               /\ SemverCompare(v, w) = f[1]
               /\ f[last + 1] = 0
               /\ \A n \in 1..last :
                    f[n] = IF PartAt(a, n) = NotANumber \/ PartAt(b, n) = NotANumber THEN 0
                           ELSE IF PartAt(a, n) < PartAt(b, n) THEN -1
                           ELSE IF PartAt(a, n) > PartAt(b, n) THEN 1
                           ELSE f[n + 1]
<1> DEFINE a == Parts(v)
           b == Parts(w)
           last == Longer(a, b)
           S == {-1, 0, 1}
           step == [n \in 1..last |-> [x \in S |->
                      IF PartAt(a, n) = NotANumber \/ PartAt(b, n) = NotANumber THEN 0
                      ELSE IF PartAt(a, n) < PartAt(b, n) THEN -1
                      ELSE IF PartAt(a, n) > PartAt(b, n) THEN 1
                      ELSE x]]
           Body(g) == [n \in 1..(last + 1) |->
                         IF n > last \/ PartAt(a, n) = NotANumber \/ PartAt(b, n) = NotANumber
                         THEN 0
                         ELSE IF PartAt(a, n) < PartAt(b, n) THEN -1
                         ELSE IF PartAt(a, n) > PartAt(b, n) THEN 1
                         ELSE g[n + 1]]
           From == CHOOSE g : g = Body(g)
<1>1. last \in Nat
  BY PartsOfTag DEF Longer
<1>2. step \in [1..last -> [S -> S]]
  <2> HIDE DEF a, b, last
  <2> QED OBVIOUS
<1>3. PICK f : Downward(f, last, S, 0, step)
  <2>1. 0 \in S
    OBVIOUS
  <2> HIDE DEF step, last, S
  <2> QED BY <1>1, <1>2, <2>1, DownwardRecursion
<1>4. \A n \in 1..last :
        f[n] = IF PartAt(a, n) = NotANumber \/ PartAt(b, n) = NotANumber THEN 0
               ELSE IF PartAt(a, n) < PartAt(b, n) THEN -1
               ELSE IF PartAt(a, n) > PartAt(b, n) THEN 1
               ELSE f[n + 1]
  <2> HIDE DEF a, b, last
  <2>1. \A n \in 1..last : f[n + 1] \in S
    BY <1>1, <1>3 DEF Downward
  <2> QED BY <1>3, <2>1 DEF Downward
<1>5. f = Body(f)
  <2> HIDE DEF a, b, last, step
  <2> QED BY <1>1, <1>3, <1>4 DEF Downward
<1>6. From = Body(From)
  <2> HIDE DEF Body
  <2> QED BY <1>5
<1>7. SemverCompare(v, w) = From[1]
  BY Zenon DEF SemverCompare
<1> HIDE DEF a, b, last, From, step, S
<1>8. /\ From[last + 1] = 0
      /\ \A n \in 1..last :
           From[n] = IF PartAt(a, n) = NotANumber \/ PartAt(b, n) = NotANumber THEN 0
                     ELSE IF PartAt(a, n) < PartAt(b, n) THEN -1
                     ELSE IF PartAt(a, n) > PartAt(b, n) THEN 1
                     ELSE From[n + 1]
  BY <1>1, <1>6
<1> QED
  BY <1>7, <1>8 DEF a, b, last

\* The answer is that of the first part that decides: one that differs, or one
\* that is no number.
LEMMA CompareIsFirst ==
  ASSUME NEW v \in Version, NEW w \in Version
  PROVE  LET a == Parts(v)
             b == Parts(w)
             Decides(n) == \/ PartAt(a, n) = NotANumber \/ PartAt(b, n) = NotANumber
                           \/ PartAt(a, n) # PartAt(b, n)
         IN  \/ /\ \A n \in 1..Longer(a, b) : ~Decides(n)
                /\ SemverCompare(v, w) = 0
             \/ \E k \in 1..Longer(a, b) :
                  /\ Decides(k) /\ \A m \in 1..(k - 1) : ~Decides(m)
                  /\ SemverCompare(v, w) =
                       IF PartAt(a, k) = NotANumber \/ PartAt(b, k) = NotANumber THEN 0
                       ELSE IF PartAt(a, k) < PartAt(b, k) THEN -1 ELSE 1
<1> DEFINE a == Parts(v)
           b == Parts(w)
           last == Longer(a, b)
           Decides(n) == \/ PartAt(a, n) = NotANumber \/ PartAt(b, n) = NotANumber
                         \/ PartAt(a, n) # PartAt(b, n)
<1>1. last \in Nat
  BY PartsOfTag DEF Longer
<1>2. PICK f : /\ SemverCompare(v, w) = f[1]
               /\ f[last + 1] = 0
               /\ \A n \in 1..last :
                    f[n] = IF PartAt(a, n) = NotANumber \/ PartAt(b, n) = NotANumber THEN 0
                           ELSE IF PartAt(a, n) < PartAt(b, n) THEN -1
                           ELSE IF PartAt(a, n) > PartAt(b, n) THEN 1
                           ELSE f[n + 1]
  BY CompareRecursion
<1>3. \A n \in 1..last : PartAt(a, n) \in Int /\ PartAt(b, n) \in Int
  BY PartsOfTag DEF NotANumber
<1> HIDE DEF a, b, last
<1>4. ASSUME NEW k \in 1..(last + 1), \A m \in 1..(k - 1) : ~Decides(m)
      PROVE  f[k] = f[1]
  <2> DEFINE Differ == {n \in 1..k : f[n] # f[1]}
  <2>1. SUFFICES ASSUME Differ # {} PROVE FALSE
    BY <1>1
  <2>2. PICK n \in Differ : \A m \in Differ : n <= m
    <3>1. Differ \in SUBSET Nat
      OBVIOUS
    <3> HIDE DEF Differ
    <3> QED BY <2>1, <3>1, LeastNat
  <2>3. n - 1 \in 1..last /\ n - 1 \in 1..(k - 1) /\ n - 1 \notin Differ /\ (n - 1) + 1 = n
    BY <1>1, <2>2
  <2>4. f[n - 1] = f[n]
    BY <1>2, <1>3, <1>4, <2>3
  <2> QED BY <2>2, <2>3, <2>4
<1>5. CASE \A n \in 1..last : ~Decides(n)
  <2>1. f[last + 1] = f[1]
    BY <1>1, <1>4, <1>5
  <2> QED BY <1>2, <1>5, <2>1 DEF a, b, last
<1>6. CASE \E n \in 1..last : Decides(n)
  <2> DEFINE Deciding == {n \in 1..last : Decides(n)}
  <2>1. PICK k \in Deciding : \A n \in Deciding : k <= n
    <3>1. Deciding \in SUBSET Nat /\ Deciding # {}
      BY <1>6
    <3> HIDE DEF Deciding
    <3> QED BY <3>1, LeastNat
  <2>2. k \in 1..last /\ Decides(k) /\ \A m \in 1..(k - 1) : ~Decides(m)
    BY <1>1, <2>1
  <2>3. f[k] = f[1]
    BY <1>1, <1>4, <2>2
  <2>4. f[k] = IF PartAt(a, k) = NotANumber \/ PartAt(b, k) = NotANumber THEN 0
               ELSE IF PartAt(a, k) < PartAt(b, k) THEN -1 ELSE 1
    BY <1>2, <1>3, <2>2
  <2> QED BY <1>2, <2>2, <2>3, <2>4 DEF a, b, last
<1> QED
  BY <1>5, <1>6

\* A tag that compares as older comes before the other in the order of versions.
LEMMA LessIsBefore ==
  ASSUME NEW v \in Version, NEW w \in Version, SemverCompare(v, w) < 0
  PROVE  CoreBefore(v.core, w.core)
<1> DEFINE a == Parts(v)
           b == Parts(w)
<1>1. PICK k \in 1..Longer(a, b) :
        /\ PartAt(a, k) # NotANumber /\ PartAt(b, k) # NotANumber
        /\ PartAt(a, k) < PartAt(b, k)
        /\ \A m \in 1..(k - 1) :
             /\ PartAt(a, m) # NotANumber /\ PartAt(b, m) # NotANumber
             /\ PartAt(a, m) = PartAt(b, m)
  <2>1. PICK k \in 1..Longer(a, b) :
          /\ \A m \in 1..(k - 1) :
               ~(\/ PartAt(a, m) = NotANumber \/ PartAt(b, m) = NotANumber
                 \/ PartAt(a, m) # PartAt(b, m))
          /\ SemverCompare(v, w) =
               IF PartAt(a, k) = NotANumber \/ PartAt(b, k) = NotANumber THEN 0
               ELSE IF PartAt(a, k) < PartAt(b, k) THEN -1 ELSE 1
    BY CompareIsFirst
  <2> HIDE DEF a, b
  <2> QED BY <2>1
<1>2. Longer(a, b) = Longer(v.core, w.core)
  BY PartsOfTag DEF Longer
<1>3. k \in Nat \ {0} /\ \A m \in 1..k : m \in Nat \ {0}
  BY PartsOfTag DEF Longer
<1>4. \A m \in 1..k : PartAt(a, m) = PartAt(v.core, m) /\ PartAt(b, m) = PartAt(w.core, m)
  BY <1>1, <1>3, PartsOfTag
<1> HIDE DEF a, b
<1> QED
  BY <1>1, <1>2, <1>3, <1>4 DEF CoreBefore

\* And of tags made of numbers, one that comes before compares as older.
LEMMA BeforeIsLess ==
  ASSUME NEW v \in Version, NEW w \in Version, v.pre = 0, w.pre = 0,
         CoreBefore(v.core, w.core)
  PROVE  SemverCompare(v, w) < 0
<1> DEFINE c == v.core
           d == w.core
<1>1. Parts(v) = c /\ Parts(w) = d
  BY DEF Parts
<1>2. \A n \in Nat \ {0} : PartAt(c, n) \in Nat /\ PartAt(d, n) \in Nat
  BY PartsOfTag
<1>3. Longer(c, d) \in Nat
  BY PartsOfTag DEF Longer
<1>4. PICK n \in 1..Longer(c, d) :
        PartAt(c, n) < PartAt(d, n) /\ \A m \in 1..(n - 1) : PartAt(c, m) = PartAt(d, m)
  BY DEF CoreBefore
<1> HIDE DEF c, d
<1>5. \A m \in 1..Longer(c, d) :
        m \in Nat \ {0} /\ PartAt(c, m) # NotANumber /\ PartAt(d, m) # NotANumber
  BY <1>2, <1>3 DEF NotANumber
<1>6. PICK k \in 1..Longer(c, d) :
        /\ PartAt(c, k) # PartAt(d, k) /\ \A m \in 1..(k - 1) : PartAt(c, m) = PartAt(d, m)
        /\ SemverCompare(v, w) = IF PartAt(c, k) < PartAt(d, k) THEN -1 ELSE 1
  <2>1. \E m \in 1..Longer(c, d) : PartAt(c, m) # PartAt(d, m)
    BY <1>2, <1>4, <1>5
  <2>2. PICK k \in 1..Longer(c, d) :
          /\ \/ PartAt(c, k) = NotANumber \/ PartAt(d, k) = NotANumber
             \/ PartAt(c, k) # PartAt(d, k)
          /\ \A m \in 1..(k - 1) :
               ~(\/ PartAt(c, m) = NotANumber \/ PartAt(d, m) = NotANumber
                 \/ PartAt(c, m) # PartAt(d, m))
          /\ SemverCompare(v, w) =
               IF PartAt(c, k) = NotANumber \/ PartAt(d, k) = NotANumber THEN 0
               ELSE IF PartAt(c, k) < PartAt(d, k) THEN -1 ELSE 1
    BY <1>1, <2>1, CompareIsFirst
  <2> QED BY <1>5, <2>2
<1>7. k = n
  BY <1>2, <1>3, <1>4, <1>5, <1>6
<1> QED
  BY <1>4, <1>6, <1>7

-----------------------------------------------------------------------------
\* Nothing is decided at the start.
LEMMA InitDecision == Init => DecisionTracked
BY DEF Init, DecisionTracked, Steps

\* The decision is taken in one step, and stands for as long as the update runs.
LEMMA NextDecision == IInv /\ DecisionTracked /\ [Next]_vars => DecisionTracked'
<1> SUFFICES ASSUME IInv, DecisionTracked, [Next]_vars PROVE DecisionTracked'
  OBVIOUS
<1> USE DEF DecisionTracked, Newer, Steps
<1>1. CASE CheckLatest
  BY <1>1 DEF CheckLatest, Proceeds, Goto, Return, IInv, SaidTracked
<1>2. CASE RunAgain
  BY <1>2 DEF RunAgain
<1>3. CASE Kill
  BY <1>3 DEF Kill
<1>4. CASE UNCHANGED vars
  BY <1>4 DEF vars
<1>5. CASE Publish \/ FallSilent
  BY <1>5 DEF Publish, FallSilent
<1>6. CASE Step /\ ~CheckLatest
  <2>1. UNCHANGED <<current, tag>>
    BY <1>6 DEF Step, Fail, CreateTemp, Download, Rename, RenameRefused,
                DownloadUnreadable, OpenTarget, OpenRefused, Copy, CopyFails, SudoMove,
                SudoFails, Install
  <2>2. /\ pc' \in Steps \ {"check", "end"} => pc \in Steps \ {"check", "end"}
        /\ said' = "upToDate" => said = "upToDate"
    BY <1>6 DEF Step, Fail, CreateTemp, Download, Rename, RenameRefused,
                DownloadUnreadable, OpenTarget, OpenRefused, Copy, CopyFails, SudoMove,
                SudoFails, Install, Goto, Return
  <2> HIDE DEF Newer
  <2>3. Newer(tag)' <=> Newer(tag)
    BY <2>1 DEF Newer
  <2> QED BY <2>2, <2>3
<1> QED
  BY <1>1, <1>2, <1>3, <1>4, <1>5, <1>6 DEF Next, Terminating

(***************************************************************************)
(* What may still be installed was found newer, and what was refused was   *)
(* not, by the comparison of the code.                                     *)
(***************************************************************************)
THEOREM DecisionInvariant == Spec => []DecisionTracked
<1> QED
  BY InitDecision, NextDecision, UpdateInvariant, PTL DEF Spec

(***************************************************************************)
(* For tags of any length: a run that says it is up to date has found no   *)
(* newer release, among those made of numbers.                             *)
(***************************************************************************)
THEOREM UpToDateMeansNewestAlways == Spec => []UpToDateMeansNewest
<1>1. TypeOK /\ DecisionTracked => UpToDateMeansNewest
  <2> SUFFICES ASSUME TypeOK, DecisionTracked, said = "upToDate",
                      current.pre = 0, tag.pre = 0, Precedes(current, tag)
               PROVE  FALSE
    BY DEF UpToDateMeansNewest
  <2>1. current \in Version /\ tag \in Version
    BY ReleaseAssumption DEF TypeOK
  <2>2. CoreBefore(current.core, tag.core)
    BY DEF Precedes
  <2>3. SemverCompare(current, tag) < 0
    BY <2>1, <2>2, BeforeIsLess
  <2> QED BY <2>3 DEF DecisionTracked, Newer
<1> QED
  BY <1>1, TypeCorrect, DecisionInvariant, PTL

(***************************************************************************)
(* For tags of any length, pre-releases included, and whatever is          *)
(* published meanwhile: nothing but a newer release replaces the binary.   *)
(***************************************************************************)
THEOREM NeverDowngradesAlways == Spec => NeverDowngrades
<1>1. TypeOK /\ DecisionTracked /\ [Next]_vars =>
        [installed' \notin {installed, Cut} =>
           current = Dev \/ Precedes(current, installed')]_vars
  <2> SUFFICES ASSUME TypeOK, DecisionTracked, Next, installed' \notin {installed, Cut},
                      current # Dev
               PROVE  Precedes(current, installed')
    OBVIOUS
  <2>1. Rename \/ Copy \/ SudoMove
    BY DEF Next, Step, CheckLatest, Fail, CreateTemp, Download, RenameRefused,
           DownloadUnreadable, OpenTarget, OpenRefused, CopyFails, SudoFails, Kill, RunAgain, Publish, FallSilent,
           Terminating, vars
  <2>2. installed' = tag /\ pc \in Steps \ {"check", "end"}
    BY <2>1 DEF Rename, Copy, SudoMove, Install, Payload, Steps
  <2>3. SemverCompare(current, tag) < 0
    BY <2>2 DEF DecisionTracked, Newer
  <2>4. current \in Version /\ tag \in Version
    BY ReleaseAssumption DEF TypeOK
  <2>5. CoreBefore(current.core, tag.core)
    BY <2>3, <2>4, LessIsBefore
  <2> QED BY <2>2, <2>5 DEF Precedes
<1> QED
  BY <1>1, TypeCorrect, DecisionInvariant, PTL DEF Spec, NeverDowngrades
=============================================================================
