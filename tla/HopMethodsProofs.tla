--------------------------- MODULE HopMethodsProofs ---------------------------
(***************************************************************************)
(* Theorems about HopMethods: for any list of default keys and any number  *)
(* of keys that an agent or files hold.                                    *)
(***************************************************************************)
EXTENDS HopMethods, SequenceTheorems, Induction, TLAPS

(***************************************************************************)
(* Public keys make at most one method, and a password adds one of another *)
(* name.                                                                   *)
(***************************************************************************)
LEMMA PublicKeysFirst ==
  ASSUME NEW keys
  PROVE  \A m, n \in DOMAIN PublicKeys(keys) : m = n
<1>1. CASE keys = <<>>
  BY <1>1 DEF PublicKeys
<1>2. CASE keys # <<>>
  <2> DEFINE method == [name |-> "publickey", from |-> keys]
  <2>1. PublicKeys(keys) = <<method>>
    BY <1>2 DEF PublicKeys
  <2> HIDE DEF method
  <2> QED BY <2>1
<1> QED BY <1>1, <1>2

LEMMA OneMore ==
  ASSUME NEW S, NEW a \in Seq(S), NEW b \in Seq(S), Len(b) = 1
  PROVE  /\ DOMAIN (a \o b) = 1..(Len(a) + 1)
         /\ \A n \in 1..Len(a) : (a \o b)[n] = a[n]
         /\ (a \o b)[Len(a) + 1] = b[1]
<1>1. Len(a) \in Nat
  OBVIOUS
<1>2. /\ a \o b \in Seq(S) /\ Len(a \o b) = Len(a) + Len(b)
      /\ \A n \in 1..(Len(a) + Len(b)) :
           (a \o b)[n] = IF n <= Len(a) THEN a[n] ELSE b[n - Len(a)]
  BY ConcatProperties, Zenon
<1>3. DOMAIN (a \o b) = 1..(Len(a) + 1)
  BY <1>2
<1> QED BY <1>1, <1>2, <1>3

LEMMA PasswordLast ==
  ASSUME NEW keys, NEW from
  PROVE  LET all == PublicKeys(keys) \o Password(from) IN
         \A m, n \in DOMAIN all : all[m].name = all[n].name => m = n
<1> DEFINE method == [name |-> "publickey", from |-> keys]
           password == [name |-> "password", from |-> <<from>>]
           all == PublicKeys(keys) \o Password(from)
<1>1. method.name = "publickey" /\ password.name = "password"
  OBVIOUS
<1>2. Password(from) = <<password>>
  BY DEF Password
<1>3. PublicKeys(keys) = <<>> \/ PublicKeys(keys) = <<method>>
  BY DEF PublicKeys
<1> HIDE DEF method, password
<1> DEFINE S == {method, password}
<1>4. /\ <<method>> \in Seq(S) /\ <<>> \in Seq(S) /\ <<password>> \in Seq(S)
      /\ Len(<<method>>) = 1 /\ Len(<<password>>) = 1 /\ Len(<<>>) = 0
      /\ <<method>>[1] = method /\ <<password>>[1] = password
  OBVIOUS
<1>5. ASSUME PublicKeys(keys) = <<>>
      PROVE  \A m, n \in DOMAIN all : all[m].name = all[n].name => m = n
  <2>1. DOMAIN all = {1}
    BY <1>2, <1>4, <1>5, OneMore
  <2> HIDE DEF all
  <2> QED BY <2>1
<1>6. ASSUME PublicKeys(keys) = <<method>>
      PROVE  \A m, n \in DOMAIN all : all[m].name = all[n].name => m = n
  <2>1. DOMAIN all = 1..2 /\ all[1] = method /\ all[2] = password
    <3> HIDE DEF S
    <3> QED BY <1>2, <1>4, <1>6, OneMore
  <2> HIDE DEF all
  <2> QED BY <1>1, <2>1
<1>7. \A m, n \in DOMAIN all : all[m].name = all[n].name => m = n
  BY <1>3, <1>5, <1>6
<1> HIDE DEF all
<1>8. all = PublicKeys(keys) \o Password(from)
  BY DEF all
<1> QED BY <1>7, <1>8

LEMMA NoMethods == <<>> = PublicKeys(<<>>)
BY DEF PublicKeys

LEMMA InitInv == Init => IInv
<1> SUFFICES ASSUME Init PROVE IInv
  OBVIOUS
<1>1. methods = <<>> /\ methods = PublicKeys(<<>>) /\ pc = "info"
  BY NoMethods DEF Init
<1>2. OneMethodPerName
  BY <1>1, PublicKeysFirst DEF OneMethodPerName
<1> QED BY <1>1, <1>2 DEF IInv, MethodsTracked

\* The steps that leave the methods alone, or have only public keys so far.
LEMMA CollectingPreserves ==
  ASSUME IInv,
         methods' = methods \/ \E keys : methods' = PublicKeys(keys),
         MethodsTracked'
  PROVE  IInv'
<1>1. OneMethodPerName'
  <2>1. CASE methods' = methods
    BY <2>1 DEF IInv, OneMethodPerName
  <2>2. CASE \E keys : methods' = PublicKeys(keys)
    BY <2>2, PublicKeysFirst DEF OneMethodPerName
  <2> QED BY <2>1, <2>2
<1> QED BY <1>1 DEF IInv

\* A password, saved or typed, is the last method.
LEMMA PasswordPreserves ==
  ASSUME IInv, pc \in {"password", "prompt"}, pc' = "done",
         NEW from, methods' = methods \o Password(from)
  PROVE  IInv'
<1>1. PICK keys : methods = PublicKeys(keys)
  BY DEF IInv, MethodsTracked
<1>2. OneMethodPerName'
  BY <1>1, PasswordLast DEF OneMethodPerName
<1>3. MethodsTracked'
  BY DEF MethodsTracked
<1> QED BY <1>2, <1>3 DEF IInv

LEMMA NextInv == IInv /\ [Next]_vars => IInv'
<1> SUFFICES ASSUME IInv, [Next]_vars PROVE IInv'
  OBVIOUS
<1> USE DEF IInv, MethodsTracked
<1>1. CASE ListMethods
  BY <1>1, CollectingPreserves, NoMethods DEF ListMethods
<1>2. CASE AgentSigners
  BY <1>2, CollectingPreserves, NoMethods DEF AgentSigners
<1>3. CASE KeySigners
  BY <1>3, CollectingPreserves DEF KeySigners
<1>4. CASE SavedPassword
  BY <1>4, PasswordPreserves DEF SavedPassword
<1>5. CASE NoSavedPassword
  BY <1>5, CollectingPreserves DEF NoSavedPassword
<1>6. CASE PromptPassword
  <2>1. CASE methods' = methods \o Password("typed") /\ pc' = "done"
    BY <1>6, <2>1, PasswordPreserves DEF PromptPassword
  <2>2. CASE UNCHANGED methods /\ pc' = "failed"
    BY <1>6, <2>2, CollectingPreserves DEF PromptPassword
  <2> QED BY <1>6, <2>1, <2>2 DEF PromptPassword
<1>7. CASE UNCHANGED vars
  BY <1>7, CollectingPreserves DEF vars
<1> QED BY <1>1, <1>2, <1>3, <1>4, <1>5, <1>6, <1>7 DEF Next, Terminating

(***************************************************************************)
(* The inductive invariant always holds.                                   *)
(***************************************************************************)
THEOREM MethodsInvariant == Spec => []IInv
<1>1. Init => IInv
  BY InitInv
<1>2. IInv /\ [Next]_vars => IInv'
  BY NextInv
<1> QED BY <1>1, <1>2, PTL DEF Spec

(***************************************************************************)
(* However many keys there are, no two methods of a hop have one name.     *)
(***************************************************************************)
THEOREM OneMethodPerNameAlways == Spec => []OneMethodPerName
<1>1. IInv => OneMethodPerName
  BY DEF IInv
<1> QED BY <1>1, MethodsInvariant, PTL

-----------------------------------------------------------------------------
(* What keySigners' loop collects, and where every offered method is from. *)

LEMMA GrownRange ==
  ASSUME NEW S, NEW x \in Seq(S), NEW e \in S
  PROVE  Append(x, e) \in Seq(S) /\ Range(x) \subseteq Range(Append(x, e))
           /\ e \in Range(Append(x, e))
<1>1. /\ Append(x, e) \in Seq(S) /\ DOMAIN x = 1..Len(x) /\ Len(x) \in Nat
      /\ DOMAIN Append(x, e) = 1..(Len(x) + 1) /\ Append(x, e)[Len(x) + 1] = e
      /\ \A n \in 1..Len(x) : Append(x, e)[n] = x[n]
  OBVIOUS
<1>2. Len(x) + 1 \in DOMAIN Append(x, e) /\ \A n \in DOMAIN x : n \in DOMAIN Append(x, e)
  BY <1>1
<1> QED BY <1>1, <1>2 DEF Range

\* The loop has a result: those of the keys that load.
LEMMA LoadedKeys ==
  ASSUME NEW S, NEW keys \in Seq(S), NEW loading
  PROVE  /\ Loaded(keys, loading) \in Seq(S)
         /\ Range(Loaded(keys, loading)) = Range(keys) \cap loading
<1> DEFINE K == Range(keys) \cap loading
           none == <<>>
           More(x, i) == IF keys[i] \in loading THEN Append(x, keys[i]) ELSE x
           step == [i \in 1..Len(keys) |-> [x \in Seq(K) |-> More(x, i)]]
           Body(g) == [i \in 0..Len(keys) |->
                         IF i = 0 THEN <<>>
                         ELSE IF keys[i] \in loading THEN Append(g[i - 1], keys[i])
                         ELSE g[i - 1]]
           upTo == CHOOSE g : g = Body(g)
<1>1. Len(keys) \in Nat /\ \A i \in 1..Len(keys) : keys[i] \in Range(keys)
  BY DEF Range
<1>2. ASSUME NEW i \in 1..Len(keys), NEW x \in Seq(K)
      PROVE  /\ More(x, i) \in Seq(K)
             /\ Range(x) \subseteq Range(More(x, i))
             /\ keys[i] \in loading => keys[i] \in Range(More(x, i))
  <2>1. keys[i] \in loading => keys[i] \in K
    BY <1>1
  <2> HIDE DEF K
  <2> QED BY <2>1, GrownRange
<1>3. none \in Seq(K)
  OBVIOUS
<1>4. \A g : Body(g) = [i \in 0..Len(keys) |-> IF i = 0 THEN none ELSE More(g[i - 1], i)]
  OBVIOUS
<1>5. Loaded(keys, loading) = upTo[Len(keys)]
  BY Zenon DEF Loaded
<1> HIDE DEF Body, More, none, K
<1>6. step \in [1..Len(keys) -> [Seq(K) -> Seq(K)]]
  BY <1>2
<1>7. PICK f : Upward(f, Len(keys), Seq(K), none, step)
  <2> HIDE DEF step
  <2> QED BY <1>1, <1>3, <1>6, UpwardRecursion
<1>8. f = Body(f)
  <2>1. f \in [0..Len(keys) -> Seq(K)] /\ f[0] = none
    BY <1>7 DEF Upward
  <2>2. \A i \in 1..Len(keys) : i - 1 \in 0..Len(keys)
    BY <1>1
  <2>3. \A i \in 1..Len(keys) : f[i] = More(f[i - 1], i)
    BY <1>7, <2>1, <2>2 DEF Upward
  <2> QED BY <1>1, <1>4, <2>1, <2>3
<1>9. upTo = Body(upTo)
  BY <1>8
<1> HIDE DEF upTo, step
<1>10. /\ upTo[0] = none
       /\ \A i \in 1..Len(keys) : upTo[i] = More(upTo[i - 1], i)
  BY <1>1, <1>4, <1>9
<1> DEFINE Kept(i) == \A j \in 1..i : keys[j] \in loading => keys[j] \in Range(upTo[i])
           Typed == {i \in Nat : i <= Len(keys) => upTo[i] \in Seq(K) /\ Kept(i)}
<1>11. 0 \in Typed
  BY <1>3, <1>10
<1>12. ASSUME NEW i \in Typed PROVE i + 1 \in Typed
  <2>1. i \in Nat /\ (i + 1) - 1 = i
    OBVIOUS
  <2>2. CASE i + 1 <= Len(keys)
    <3>1. i + 1 \in 1..Len(keys) /\ upTo[i] \in Seq(K) /\ Kept(i)
      BY <1>1, <1>12, <2>1, <2>2
    <3>2. upTo[i + 1] = More(upTo[i], i + 1)
      BY <1>10, <2>1, <3>1
    <3>3. /\ upTo[i + 1] \in Seq(K)
          /\ Range(upTo[i]) \subseteq Range(upTo[i + 1])
          /\ keys[i + 1] \in loading => keys[i + 1] \in Range(upTo[i + 1])
      BY <1>2, <3>1, <3>2
    <3>4. \A j \in 1..(i + 1) : j = i + 1 \/ j \in 1..i
      BY <2>1
    <3>5. Kept(i + 1)
      <4> HIDE DEF Range
      <4> QED BY <3>1, <3>3, <3>4
    <3> QED BY <2>1, <3>3, <3>5
  <2>3. CASE ~(i + 1 <= Len(keys))
    BY <2>1, <2>3
  <2> QED BY <2>2, <2>3
<1>13. Typed = Nat
  <2>1. Typed \in SUBSET Nat
    OBVIOUS
  <2> HIDE DEF Typed
  <2> QED BY <1>11, <1>12, <2>1, SetInduction
<1>14. Loaded(keys, loading) \in Seq(K)
  BY <1>1, <1>5, <1>13
<1>15. Range(Loaded(keys, loading)) \subseteq K
  BY <1>14 DEF Range
<1>16. K \subseteq Range(Loaded(keys, loading))
  <2>1. Kept(Len(keys))
    BY <1>1, <1>13
  <2>2. \A k \in K : \E j \in 1..Len(keys) : k = keys[j] /\ keys[j] \in loading
    BY DEF K, Range
  <2> HIDE DEF Range
  <2> QED BY <1>5, <2>1, <2>2
<1>17. K \subseteq S
  BY DEF K, Range
<1> QED
  BY <1>14, <1>15, <1>16, <1>17 DEF K

LEMMA RangeOfConcat ==
  ASSUME NEW S, NEW a \in Seq(S), NEW b \in Seq(S)
  PROVE  a \o b \in Seq(S) /\ Range(a \o b) = Range(a) \cup Range(b)
<1>1. /\ a \o b \in Seq(S) /\ Len(a \o b) = Len(a) + Len(b)
      /\ \A n \in 1..(Len(a) + Len(b)) :
           (a \o b)[n] = IF n <= Len(a) THEN a[n] ELSE b[n - Len(a)]
  BY ConcatProperties, Zenon
<1>2. Len(a) \in Nat /\ Len(b) \in Nat /\ DOMAIN a = 1..Len(a) /\ DOMAIN b = 1..Len(b)
  OBVIOUS
<1>3. DOMAIN (a \o b) = 1..(Len(a) + Len(b))
  BY <1>1
<1>4. ASSUME NEW n \in DOMAIN (a \o b)
      PROVE  (a \o b)[n] \in Range(a) \cup Range(b)
  <2>1. CASE n <= Len(a)
    BY <1>1, <1>2, <1>3, <2>1 DEF Range
  <2>2. CASE ~(n <= Len(a))
    <3>1. n - Len(a) \in DOMAIN b /\ (a \o b)[n] = b[n - Len(a)]
      BY <1>1, <1>2, <1>3, <2>2
    <3> QED BY <3>1 DEF Range
  <2> QED BY <2>1, <2>2
<1>5. ASSUME NEW n \in DOMAIN a PROVE n \in DOMAIN (a \o b) /\ (a \o b)[n] = a[n]
  BY <1>1, <1>2, <1>3
<1>6. ASSUME NEW n \in DOMAIN b
      PROVE  n + Len(a) \in DOMAIN (a \o b) /\ (a \o b)[n + Len(a)] = b[n]
  BY <1>1, <1>2, <1>3
<1>7. Range(a) \subseteq Range(a \o b) /\ Range(b) \subseteq Range(a \o b)
  BY <1>5, <1>6 DEF Range
<1>8. Range(a \o b) \subseteq Range(a) \cup Range(b)
  BY <1>4 DEF Range
<1> QED
  BY <1>1, <1>7, <1>8

LEMMA CandidateKeys == Candidates \in Seq(KeyFiles) /\ Range(Candidates) \subseteq KeyFiles
<1>1. CASE identified
  BY <1>1 DEF Candidates, KeyFiles, Range
<1>2. CASE ~identified
  <2>1. Range(DefaultKeys) \subseteq KeyFiles
    BY DEF KeyFiles
  <2>2. DefaultKeys \in Seq(KeyFiles)
    BY <2>1, KeyAssumption
  <2> QED BY <1>2, <2>1, <2>2 DEF Candidates
<1> QED
  BY <1>1, <1>2

\* A list of signers that KeySigners leaves: typed and loaded, and all there.
LEMMA CollectedKeys ==
  ASSUME signers \in Seq(Sources), Range(signers) \subseteq There,
         NEW typed \in SUBSET Passphrases,
         signers' = signers \o
           Loaded(Candidates, {k \in KeyFiles : disk[k] = "plain"} \cup typed)
  PROVE  /\ signers' \in Seq(Sources) /\ Range(signers') \subseteq There
         /\ Range(signers') = Range(signers) \cup typed
              \cup {k \in Range(Candidates) : disk[k] = "plain"}
<1> DEFINE loading == {k \in KeyFiles : disk[k] = "plain"} \cup typed
           new == Loaded(Candidates, loading)
<1>1. new \in Seq(KeyFiles) /\ Range(new) = Range(Candidates) \cap loading
  <2> HIDE DEF loading
  <2> QED BY CandidateKeys, LoadedKeys
<1>2. \A k \in loading : disk[k] # "missing"
  BY DEF Passphrases
<1>3. Range(new) \subseteq There
  BY <1>1, <1>2 DEF There
<1>4. new \in Seq(Sources)
  BY <1>1 DEF Sources
<1>5. Range(new) = typed \cup {k \in Range(Candidates) : disk[k] = "plain"}
  BY <1>1, CandidateKeys DEF Passphrases
<1>6. signers' = signers \o new
  OBVIOUS
<1> HIDE DEF new
<1>7. signers \o new \in Seq(Sources)
      /\ Range(signers \o new) = Range(signers) \cup Range(new)
  BY <1>4, RangeOfConcat
<1> QED
  BY <1>3, <1>5, <1>6, <1>7

LEMMA PublicKeysType ==
  ASSUME NEW keys \in Seq(Sources)
  PROVE  /\ PublicKeys(keys) \in Seq(Method)
         /\ \A n \in DOMAIN PublicKeys(keys) : PublicKeys(keys)[n].from = keys
<1> DEFINE method == [name |-> "publickey", from |-> keys]
<1>1. method \in Method /\ method.from = keys
  BY DEF Method
<1> HIDE DEF method
<1>2. CASE PublicKeys(keys) = <<>>
  BY <1>2
<1>3. CASE PublicKeys(keys) = <<method>>
  BY <1>1, <1>3
<1> QED
  BY <1>2, <1>3 DEF PublicKeys, method

LEMMA PasswordType ==
  ASSUME NEW from \in Sources
  PROVE  /\ Password(from) \in Seq(Method) /\ Len(Password(from)) = 1
         /\ Password(from)[1].from = <<from>>
<1> DEFINE method == [name |-> "password", from |-> <<from>>]
<1>1. method \in Method /\ method.from = <<from>>
  BY DEF Method
<1> HIDE DEF method
<1>2. Password(from) = <<method>>
  BY DEF Password, method
<1> QED
  BY <1>1, <1>2

\* One password more, after methods that are made of what is there.
LEMMA PasswordAdded ==
  ASSUME methods \in Seq(Method), SourcesTracked, NEW from \in {"store", "typed"},
         from = "store" => store = "saved",
         methods' = methods \o Password(from), UNCHANGED machine
  PROVE  methods' \in Seq(Method) /\ SourcesTracked'
<1>1. from \in Sources
  BY DEF Sources
<1>2. /\ Password(from) \in Seq(Method) /\ Len(Password(from)) = 1
      /\ Password(from)[1].from = <<from>>
  BY <1>1, PasswordType
<1>3. /\ DOMAIN methods' = 1..(Len(methods) + 1)
      /\ \A n \in 1..Len(methods) : methods'[n] = methods[n]
      /\ methods'[Len(methods) + 1] = Password(from)[1]
  BY <1>2, OneMore
<1>4. methods' \in Seq(Method)
  BY <1>2, ConcatProperties
<1>5. There' = There /\ store' = store
  BY DEF machine, There, Candidates
<1>6. ASSUME NEW n \in DOMAIN methods'
      PROVE  \/ Range(methods'[n].from) \subseteq There
             \/ methods'[n].from = <<"store">> /\ store = "saved"
             \/ methods'[n].from = <<"typed">>
  <2>1. CASE n \in 1..Len(methods)
    BY <1>3, <2>1 DEF SourcesTracked
  <2>2. CASE n = Len(methods) + 1
    BY <1>2, <1>3, <2>2
  <2> QED BY <1>3, <2>1, <2>2
<1> QED
  BY <1>4, <1>5, <1>6 DEF SourcesTracked

\* The steps that change the list of signers, the methods or neither.
LEMMA SameMachine ==
  ASSUME UNCHANGED machine
  PROVE  There' = There /\ Listing' = Listing /\ store' = store
BY DEF machine, There, Candidates, Listing, DetectDefaultKey

LEMMA ListingType == Listing \subseteq Sources
<1>1. DetectDefaultKey \subseteq Range(DefaultKeys)
  BY DEF DetectDefaultKey, Range
<1>2. Range(DefaultKeys) \subseteq KeyFiles /\ Identity \in KeyFiles
  BY DEF KeyFiles
<1> QED
  BY <1>1, <1>2 DEF Listing, Sources

LEMMA PassphrasesType == Passphrases \subseteq Sources
BY CandidateKeys DEF Passphrases, Sources

LEMMA OpenStoreAsks == OpenStore => prompted' = prompted \/ prompted' = prompted \cup {"master"}
BY DEF OpenStore

LEMMA InitSources == Init => TypeOK /\ SourceInv
BY DEF Init, TypeOK, SourceInv, ListingTracked, SignersTracked, SourcesTracked, Range

LEMMA NextSources == TypeOK /\ SourceInv /\ [Next]_vars => (TypeOK /\ SourceInv)'
<1> SUFFICES ASSUME TypeOK, SourceInv, [Next]_vars PROVE TypeOK' /\ SourceInv'
  OBVIOUS
<1> USE DEF SourceInv
<1>0. ASSUME UNCHANGED machine, UNCHANGED methods, UNCHANGED signers
      PROVE  SignersTracked' /\ SourcesTracked'
  BY <1>0, SameMachine DEF SignersTracked, SourcesTracked
<1>1. CASE ListMethods
  BY <1>0, <1>1, SameMachine, ListingType DEF ListMethods, TypeOK, ListingTracked
<1>2. CASE AgentSigners
  <2>1. UNCHANGED machine /\ UNCHANGED <<listed, methods, prompted>> /\ pc = "agent" /\ pc' = "keys"
    BY <1>2 DEF AgentSigners
  <2>2. ListingTracked' /\ SourcesTracked'
    BY <2>1, SameMachine DEF ListingTracked, SourcesTracked
  <2>3. CASE agent = "keys"
    <3>1. signers' = <<"agent">>
      BY <1>2, <2>3 DEF AgentSigners
    <3>2. "agent" \in There /\ "agent" \in Sources
      BY <2>3 DEF There, Sources
    <3> QED BY <2>1, <2>2, <3>1, <3>2, SameMachine DEF TypeOK, SignersTracked, Range
  <2>4. CASE agent # "keys"
    <3>1. signers' = <<>>
      BY <1>2, <2>4 DEF AgentSigners
    <3> QED BY <2>1, <2>2, <3>1, SameMachine DEF TypeOK, SignersTracked, Range
  <2> QED BY <2>3, <2>4
<1>3. CASE KeySigners
  <2>1. UNCHANGED machine /\ UNCHANGED listed /\ pc = "keys" /\ pc' = "password"
        /\ methods' = PublicKeys(signers') /\ prompted' = Passphrases
    BY <1>3 DEF KeySigners
  <2>2. PICK typed \in SUBSET Passphrases : signers' = signers \o
          Loaded(Candidates, {k \in KeyFiles : disk[k] = "plain"} \cup typed)
    BY <1>3 DEF KeySigners
  <2>3. signers' \in Seq(Sources) /\ Range(signers') \subseteq There
    BY <2>2, CollectedKeys DEF TypeOK, SignersTracked
  <2>4. /\ methods' \in Seq(Method)
        /\ \A n \in DOMAIN methods' : methods'[n].from = signers'
    BY <2>1, <2>3, PublicKeysType
  <2>5. ListingTracked' /\ SignersTracked' /\ SourcesTracked'
    BY <2>1, <2>3, <2>4, SameMachine DEF ListingTracked, SignersTracked, SourcesTracked
  <2> QED BY <2>1, <2>3, <2>4, <2>5, PassphrasesType DEF TypeOK
<1>4. CASE SavedPassword
  <2>1. methods' \in Seq(Method) /\ SourcesTracked'
    BY <1>4, PasswordAdded DEF SavedPassword, TypeOK
  <2>2. ListingTracked' /\ SignersTracked'
    BY <1>4, SameMachine DEF SavedPassword, ListingTracked, SignersTracked
  <2> QED BY <1>4, <2>1, <2>2, OpenStoreAsks DEF SavedPassword, TypeOK
<1>5. CASE NoSavedPassword
  BY <1>0, <1>5, SameMachine, OpenStoreAsks DEF NoSavedPassword, TypeOK, ListingTracked
<1>6. CASE PromptPassword
  <2>1. methods' \in Seq(Method) /\ SourcesTracked'
    <3>1. CASE methods' = methods \o Password("typed")
      BY <1>6, <3>1, PasswordAdded DEF PromptPassword, TypeOK
    <3>2. CASE UNCHANGED methods
      BY <1>0, <1>6, <3>2 DEF PromptPassword, TypeOK
    <3> QED BY <1>6, <3>1, <3>2 DEF PromptPassword
  <2> QED BY <1>6, <2>1, SameMachine DEF PromptPassword, TypeOK, ListingTracked, SignersTracked
<1>7. CASE UNCHANGED vars
  <2>1. UNCHANGED machine /\ UNCHANGED <<pc, listed, signers, methods, prompted>>
    BY <1>7 DEF vars, machine
  <2> QED BY <1>0, <2>1, SameMachine DEF TypeOK, ListingTracked
<1> QED BY <1>1, <1>2, <1>3, <1>4, <1>5, <1>6, <1>7 DEF Next, Terminating

(***************************************************************************)
(* The values are of their types, and what was listed and what is offered  *)
(* are tied to the machine, for any default keys.                          *)
(***************************************************************************)
THEOREM SourcesInvariant == Spec => [](TypeOK /\ SourceInv)
<1>1. Init => TypeOK /\ SourceInv
  BY InitSources
<1>2. TypeOK /\ SourceInv /\ [Next]_vars => (TypeOK /\ SourceInv)'
  BY NextSources
<1> QED BY <1>1, <1>2, PTL DEF Spec

(***************************************************************************)
(* Types: only key files, the agent, the store or what was typed make up   *)
(* the methods a hop offers.                                               *)
(***************************************************************************)
THEOREM TypeCorrect == Spec => []TypeOK
<1> QED BY SourcesInvariant, PTL

\* info finds a default key when any of them is there.
LEMMA ADefaultKeyIsFound ==
  ASSUME NEW k \in Range(DefaultKeys), disk[k] # "missing"
  PROVE  DetectDefaultKey \cap Range(DefaultKeys) # {}
<1> DEFINE There0 == {n \in DOMAIN DefaultKeys : disk[DefaultKeys[n]] # "missing"}
<1>1. DOMAIN DefaultKeys = 1..Len(DefaultKeys) /\ Len(DefaultKeys) \in Nat
  BY KeyAssumption
<1>2. There0 \in SUBSET Nat /\ There0 # {}
  BY <1>1 DEF Range
<1>3. PICK n \in There0 : \A m \in There0 : n <= m
  <2> HIDE DEF There0
  <2> QED BY <1>2, LeastNat
<1>4. n \in DOMAIN DefaultKeys /\ disk[DefaultKeys[n]] # "missing"
  BY <1>3
<1>5. \A m \in 1..(n - 1) : m \in DOMAIN DefaultKeys /\ ~(n <= m)
  BY <1>1, <1>4
<1>6. \A m \in 1..(n - 1) : disk[DefaultKeys[m]] = "missing"
  BY <1>3, <1>5
<1>7. DefaultKeys[n] \in DetectDefaultKey
  BY <1>4, <1>6 DEF DetectDefaultKey
<1> QED
  BY <1>4, <1>7 DEF Range

\* What a key that is there was listed as.
LEMMA ThereIsListed ==
  ASSUME NEW x \in There
  PROVE  /\ x \notin Range(DefaultKeys) => x \in Listing
         /\ x \in Range(DefaultKeys) => Listing \cap Range(DefaultKeys) # {}
<1>1. CASE x \in Range(Candidates) /\ disk[x] # "missing"
  <2>1. CASE identified
    <3>1. x = Identity
      BY <1>1, <2>1 DEF Candidates, Range
    <3>2. x \in Listing /\ x \notin Range(DefaultKeys)
      BY <1>1, <2>1, <3>1, KeyAssumption DEF Listing
    <3> QED BY <3>2
  <2>2. CASE ~identified
    <3>1. x \in Range(DefaultKeys)
      BY <1>1, <2>2 DEF Candidates
    <3> QED BY <1>1, <3>1, ADefaultKeyIsFound DEF Listing
  <2> QED BY <2>1, <2>2
<1>2. CASE x = "agent" /\ agent = "keys"
  BY <1>2, KeyAssumption DEF Listing
<1> QED BY <1>1, <1>2 DEF There

(***************************************************************************)
(* info leaves out nothing that a connection offers by itself, for any     *)
(* list of default keys.                                                   *)
(***************************************************************************)
THEOREM OfferedIsListedAlways == Spec => []OfferedIsListed
<1>1. TypeOK /\ SourceInv => OfferedIsListed
  <2> SUFFICES ASSUME TypeOK, SourceInv, pc = "done"
               PROVE  /\ Offered \ ({"typed"} \cup Range(DefaultKeys)) \subseteq listed
                      /\ Offered \cap Range(DefaultKeys) # {} =>
                           listed \cap Range(DefaultKeys) # {}
    BY DEF OfferedIsListed
  <2>1. listed = Listing
    BY DEF SourceInv, ListingTracked
  <2>2. ASSUME NEW x \in Offered
        PROVE  x \in There \/ (x = "store" /\ store = "saved") \/ x = "typed"
    <3>1. PICK n \in DOMAIN methods : x \in Range(methods[n].from)
      BY <2>2 DEF Offered
    <3> QED BY <3>1 DEF SourceInv, SourcesTracked, Range
  <2>3. store = "saved" => "store" \in Listing
    BY DEF Listing
  <2>4. {"store", "typed"} \cap Range(DefaultKeys) = {}
    BY KeyAssumption
  <2> QED BY <2>1, <2>2, <2>3, <2>4, ThereIsListed
<1> QED BY <1>1, SourcesInvariant, PTL

-----------------------------------------------------------------------------
(* Nothing that a hop can use is held back.                                *)

\* What is offered: the keys of the one method, and the password of the other.
LEMMA OfferedKeys ==
  ASSUME NEW keys \in Seq(Sources), methods = PublicKeys(keys)
  PROVE  Offered = Range(keys)
<1>1. CASE keys = <<>>
  <2>1. methods = <<>> /\ Range(keys) = {}
    BY <1>1 DEF PublicKeys, Range
  <2> QED BY <2>1 DEF Offered
<1>2. CASE keys # <<>>
  <2> DEFINE method == [name |-> "publickey", from |-> keys]
  <2>1. method.from = keys
    OBVIOUS
  <2>2. methods = <<method>>
    BY <1>2 DEF PublicKeys
  <2> HIDE DEF method
  <2>3. DOMAIN methods = {1} /\ methods[1].from = keys
    BY <2>1, <2>2
  <2> QED BY <2>3 DEF Offered
<1> QED BY <1>1, <1>2

LEMMA OfferedPassword ==
  ASSUME methods \in Seq(Method), NEW from \in Sources,
         methods' = methods \o Password(from)
  PROVE  Offered' = Offered \cup {from}
<1>1. /\ Password(from) \in Seq(Method) /\ Len(Password(from)) = 1
      /\ Password(from)[1].from = <<from>>
  BY PasswordType
<1>2. /\ DOMAIN methods' = 1..(Len(methods) + 1)
      /\ \A n \in 1..Len(methods) : methods'[n] = methods[n]
      /\ methods'[Len(methods) + 1] = Password(from)[1]
  BY <1>1, OneMore
<1>3. DOMAIN methods = 1..Len(methods) /\ Len(methods) \in Nat
  OBVIOUS
<1>4. 1..(Len(methods) + 1) = 1..Len(methods) \cup {Len(methods) + 1}
  BY <1>3
<1>5. Range(<<from>>) = {from}
  BY DEF Range
<1> DEFINE m == Len(methods) + 1
<1>6. /\ DOMAIN methods' = DOMAIN methods \cup {m}
      /\ \A n \in DOMAIN methods : methods'[n].from = methods[n].from
      /\ methods'[m].from = <<from>>
  BY <1>1, <1>2, <1>3, <1>4
<1> HIDE DEF m
<1>7. \A x : x \in Offered <=> \E n \in DOMAIN methods : x \in Range(methods[n].from)
  BY DEF Offered
<1>8. \A x : x \in Offered' <=> \E n \in DOMAIN methods' : x \in Range(methods'[n].from)
  BY DEF Offered, Range
<1>9. \A x : x \in Offered' <=> x \in Offered \/ x \in Range(<<from>>)
  BY <1>6, <1>7, <1>8
<1> QED
  BY <1>5, <1>9

LEMMA SameUses ==
  ASSUME UNCHANGED machine
  PROVE  /\ UsableKeys' = UsableKeys /\ Usable' = Usable
         /\ store' = store /\ command' = command
BY DEF machine, UsableKeys, Usable, Candidates

LEMMA MoreAnswers ==
  ASSUME prompted \subseteq prompted'
  PROVE  Answers \subseteq Answers'
BY DEF Answers

LEMMA InitHeld == Init => HeldInv
BY DEF Init, HeldInv, SignersHeld, AskedTracked, NothingIsHeldBack

\* The collection ends: what it offers is what there is.
LEMMA Ended ==
  ASSUME pc' = "done", Usable' \subseteq Offered', AskedTracked',
         Offered' \subseteq Usable' \cup Answers'
  PROVE  HeldInv'
<1>0. "master" \notin KeyFiles
  BY KeyAssumption DEF KeyFiles, Identity
<1>1. command' = "exec" => prompted' \subseteq {"master"} /\ Answers' = {}
  BY <1>0 DEF AskedTracked, Answers
<1> QED
  BY <1>1 DEF HeldInv, SignersHeld, NothingIsHeldBack

LEMMA NextHeld ==
  IInv /\ TypeOK /\ HeldInv /\ [Next]_vars => HeldInv'
<1> SUFFICES ASSUME IInv, TypeOK, HeldInv, [Next]_vars PROVE HeldInv'
  OBVIOUS
<1> USE DEF HeldInv
<1>1. CASE ListMethods
  BY <1>1, SameUses DEF ListMethods, SignersHeld, AskedTracked, NothingIsHeldBack
<1>2. CASE AgentSigners
  <2>1. UNCHANGED machine /\ UNCHANGED prompted /\ pc' = "keys"
    BY <1>2 DEF AgentSigners
  <2>2. Range(signers') = UsableKeys \cap {"agent"}
    <3>1. \A k \in Range(Candidates) : k # "agent"
      BY CandidateKeys, KeyAssumption DEF KeyFiles, Identity
    <3>2. CASE agent = "keys"
      BY <1>2, <3>1, <3>2 DEF AgentSigners, UsableKeys, Range
    <3>3. CASE agent # "keys"
      BY <1>2, <3>1, <3>3 DEF AgentSigners, UsableKeys, Range
    <3> QED BY <3>2, <3>3
  <2> QED BY <2>1, <2>2, SameUses DEF SignersHeld, AskedTracked, NothingIsHeldBack
<1>3. CASE KeySigners
  <2>1. UNCHANGED machine /\ pc = "keys" /\ pc' = "password" /\ prompted' = Passphrases
    BY <1>3 DEF KeySigners
  <2>2. PICK typed \in SUBSET Passphrases : signers' = signers \o
          Loaded(Candidates, {k \in KeyFiles : disk[k] = "plain"} \cup typed)
    BY <1>3 DEF KeySigners
  <2>3. Range(signers) \subseteq There
    BY <2>1 DEF SignersHeld, UsableKeys, There
  <2>4. Range(signers') = Range(signers) \cup typed
          \cup {k \in Range(Candidates) : disk[k] = "plain"}
    BY <2>2, <2>3, CollectedKeys DEF TypeOK
  <2>5. typed \subseteq Answers'
    BY <2>1, CandidateKeys DEF Passphrases, Answers
  <2>6. Range(signers) = UsableKeys \cap {"agent"}
    BY <2>1 DEF SignersHeld
  <2>7. UsableKeys \subseteq Range(signers') /\ Range(signers') \subseteq UsableKeys \cup Answers'
    BY <2>4, <2>5, <2>6 DEF UsableKeys
  <2>8. command = "exec" => Passphrases = {}
    BY DEF Passphrases
  <2> QED BY <2>1, <2>7, <2>8, SameUses DEF SignersHeld, AskedTracked, NothingIsHeldBack
<1>4. ASSUME pc \in {"password", "prompt"}
      PROVE  /\ methods = PublicKeys(signers) /\ Offered = Range(signers)
             /\ UsableKeys \subseteq Offered /\ Offered \subseteq UsableKeys \cup Answers
  <2>1. methods = PublicKeys(signers) /\ signers \in Seq(Sources)
    BY <1>4 DEF IInv, MethodsTracked, TypeOK
  <2> QED BY <1>4, <2>1, OfferedKeys DEF SignersHeld
<1>5. CASE SavedPassword
  <2>1. /\ UNCHANGED machine /\ pc = "password" /\ pc' = "done" /\ store = "saved"
        /\ methods' = methods \o Password("store")
    BY <1>5 DEF SavedPassword
  <2>2. prompted \subseteq prompted' /\ AskedTracked'
    BY <1>5, <2>1, OpenStoreAsks, SameUses DEF SavedPassword, AskedTracked
  <2>3. Offered' = Offered \cup {"store"}
    BY <2>1, OfferedPassword DEF TypeOK, Sources
  <2>4. Usable = UsableKeys \cup {"store"}
    BY <2>1 DEF Usable
  <2> QED BY <1>4, <2>1, <2>2, <2>3, <2>4, MoreAnswers, SameUses, Ended
<1>6. CASE NoSavedPassword
  <2>1. /\ UNCHANGED machine /\ UNCHANGED <<methods, signers>> /\ pc = "password"
        /\ store # "saved" /\ pc' \in {"prompt", "done"}
        /\ pc' = "prompt" => command = "login"
    BY <1>6 DEF NoSavedPassword
  <2>2. prompted \subseteq prompted' /\ AskedTracked'
    BY <1>6, <2>1, OpenStoreAsks, SameUses DEF NoSavedPassword, AskedTracked
  <2>3. Answers \subseteq Answers'
    BY <2>2, MoreAnswers
  <2>4. CASE pc' = "done"
    <3>1. Usable = UsableKeys /\ Offered' = Offered
      BY <2>1 DEF Usable, Offered
    <3> QED BY <1>4, <2>1, <2>2, <2>3, <2>4, <3>1, SameUses, Ended
  <2>5. CASE pc' = "prompt"
    BY <2>1, <2>2, <2>3, <2>5, SameUses DEF SignersHeld, NothingIsHeldBack
  <2> QED BY <2>1, <2>4, <2>5
<1>7. CASE PromptPassword
  <2>1. /\ UNCHANGED machine /\ pc = "prompt" /\ prompted' = prompted \cup {"password"}
        /\ command = "login" /\ store # "saved"
    BY <1>7 DEF PromptPassword, AskedTracked
  <2>2. AskedTracked' /\ Answers' = Answers \cup {"typed"}
    <3>1. "password" \notin KeyFiles
      BY KeyAssumption DEF KeyFiles, Identity
    <3>2. pc' # "prompt"
      BY <1>7 DEF PromptPassword
    <3> QED BY <2>1, <3>1, <3>2, SameUses DEF AskedTracked, Answers
  <2>3. CASE methods' = methods \o Password("typed") /\ pc' = "done"
    <3>1. Offered' = Offered \cup {"typed"}
      BY <2>3, OfferedPassword DEF TypeOK, Sources
    <3>2. Usable = UsableKeys
      BY <2>1 DEF Usable
    <3> QED BY <1>4, <2>1, <2>2, <2>3, <3>1, <3>2, SameUses, Ended
  <2>4. CASE UNCHANGED methods /\ pc' = "failed"
    BY <2>2, <2>4 DEF SignersHeld, NothingIsHeldBack
  <2> QED BY <1>7, <2>3, <2>4 DEF PromptPassword
<1>8. CASE UNCHANGED vars
  <2>1. UNCHANGED machine /\ UNCHANGED <<pc, listed, signers, methods, prompted>>
    BY <1>8 DEF vars, machine
  <2>2. Answers' = Answers /\ Offered' = Offered
    BY <2>1 DEF Answers, Offered
  <2> QED BY <2>1, <2>2, SameUses DEF SignersHeld, AskedTracked, NothingIsHeldBack
<1> QED BY <1>1, <1>2, <1>3, <1>5, <1>6, <1>7, <1>8 DEF Next, Terminating

(***************************************************************************)
(* Whatever keys there are and in whatever order: what a hop can use is    *)
(* offered, its saved password beside its keys included, and exec offers   *)
(* that and no more.                                                       *)
(***************************************************************************)
THEOREM NothingIsHeldBackAlways == Spec => []NothingIsHeldBack
<1>1. Init => HeldInv
  BY InitHeld
<1>2. IInv /\ TypeOK /\ HeldInv /\ [Next]_vars => HeldInv'
  BY NextHeld
<1>3. HeldInv => NothingIsHeldBack
  BY DEF HeldInv
<1> QED BY <1>1, <1>2, <1>3, MethodsInvariant, TypeCorrect, PTL DEF Spec
=============================================================================
