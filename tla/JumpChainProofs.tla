-------------------------- MODULE JumpChainProofs --------------------------
(***************************************************************************)
(* Proofs about JumpChain for every file, every argument and every string  *)
(* set: types, and what the walk promises while the file is rewritten      *)
(* under it.                                                               *)
(***************************************************************************)
EXTENDS JumpChain, Induction, SequenceTheorems, FiniteSetTheorems, TLAPS

-----------------------------------------------------------------------------
(* Resolution returns a dialable host that remembers how it was addressed. *)

\* The credential keys are a sequence of strings.
LEMMA CredentialKeysType ==
  ASSUME NEW a \in Str, NEW b \in Str, NEW c \in Str
  PROVE  CredentialKeys(a, b, c) \in Seq(Str)
<1>1. ASSUME NEW keys \in Seq(Str), NEW k \in Str
      PROVE  AddKey(keys, k) \in Seq(Str)
  <2>1. Append(keys, k) \in Seq(Str)
    BY AppendProperties
  <2> QED
    BY <2>1, Zenon DEF AddKey
<1>2. <<>> \in Seq(Str)
  OBVIOUS
<1> QED
  BY <1>1, <1>2 DEF CredentialKeys

\* Every field newResolved fills in is a string; port and user are never empty.
LEMMA NewResolvedType ==
  ASSUME NEW a \in Str, NEW n \in Str, NEW s \in Str, NEW meta \in HostMeta
  PROVE  /\ NewResolved(a, n, s, meta) \in Resolved
         /\ NewResolved(a, n, s, meta).addressed = a
<1> DEFINE from == IF s = "direct" THEN ParseDirectAddress[a] ELSE meta
<1>1. from.hostname \in Str /\ from.port \in Str /\ from.user \in Str
  BY StringAssumption DEF HostMeta, Address
<1> HIDE DEF from
<1>2. /\ OrDefault(from.hostname, n) \in Str
      /\ OrDefault(from.port, "22") \in Str \ {""}
      /\ OrDefault(from.user, "root") \in Str \ {""}
  BY <1>1, StringAssumption DEF OrDefault
<1>3. CredentialKeys(a, n, OrDefault(from.hostname, n)) \in Seq(Str)
  BY <1>2, CredentialKeysType
<1>4. meta.identityFile \in Str /\ meta.proxyJump \in Str
  BY DEF HostMeta
<1> QED
  BY <1>2, <1>3, <1>4 DEF NewResolved, Resolved, from

\* Derived provenance is a string.
LEMMA DeriveSourceType ==
  ASSUME NEW meta \in HostMeta
  PROVE  DeriveSource(meta) \in Str
<1>1. meta.source \in Str
  BY DEF HostMeta
<1> QED
  BY <1>1, StringAssumption, Zenon DEF DeriveSource

\* Resolution returns a host that remembers the string it was addressed by, or
\* the zero host with one of the four errors.
LEMMA ResolveType ==
  ASSUME NEW c, IsLoadedConfig(c), NEW a \in Str, NEW o \in Resolve(c, a)
  PROVE  /\ o.kind \in {"ok"} \cup ResolveErrors
         /\ o.kind = "ok" => o.host \in Resolved /\ o.host.addressed = a
<1>1. NoMeta \in HostMeta
  BY StringAssumption DEF NoMeta, HostMeta
<1>2. ASSUME NEW r \in Resolved, r.addressed = a, o = Found(r)
      PROVE  /\ o.kind = "ok"
             /\ o.kind = "ok" => o.host \in Resolved /\ o.host.addressed = a
  BY <1>2 DEF Found
<1>3. ASSUME NEW k \in ResolveErrors, o = Failed(k)
      PROVE  o.kind = k /\ k # "ok"
  BY <1>3 DEF Failed, ResolveErrors
<1>4. CASE a \in DirectAddress
  <2>1. NewResolved(a, a, "direct", NoMeta) \in Resolved
        /\ NewResolved(a, a, "direct", NoMeta).addressed = a
    BY <1>1, NewResolvedType, StringAssumption
  <2>2. \/ o = Failed("ipv6")
        \/ o = Found(NewResolved(a, a, "direct", NoMeta))
    BY <1>4 DEF Resolve, ResolveDirectAddress
  <2> QED
    BY <1>2, <1>3, <2>1, <2>2 DEF ResolveErrors
<1>5. CASE a \notin DirectAddress
  <2>1. \/ o = Failed("unreadable") \/ o = Failed("not_found")
        \/ \E n \in Entries(c.hosts, a) : o = ResolveEntry(a, n, c.hosts[n])
    BY <1>5 DEF Resolve, ResolveNamedHost
  <2>2. ASSUME NEW n \in Entries(c.hosts, a), o = ResolveEntry(a, n, c.hosts[n])
        PROVE  \/ o = Failed("no_details")
               \/ \E r \in Resolved : r.addressed = a /\ o = Found(r)
    <3>1. n \in Str /\ c.hosts[n] \in HostMeta
      BY DEF Entries, FindByAlias, IsLoadedConfig, IsHostMap
    <3>2. DeriveSource(c.hosts[n]) \in Str
      BY <3>1, DeriveSourceType
    <3> QED
      BY <2>2, <3>1, <3>2, NewResolvedType DEF ResolveEntry
  <2> QED
    BY <1>2, <1>3, <2>1, <2>2 DEF ResolveErrors
<1> QED
  BY <1>4, <1>5

-----------------------------------------------------------------------------
(* Facts about the sequences of the walk.                                  *)

\* Reversing keeps the elements and turns position i into Len - i + 1.
LEMMA ReverseType ==
  ASSUME NEW S, NEW s \in Seq(S)
  PROVE  /\ Reverse(s) \in Seq(S)
         /\ Len(Reverse(s)) = Len(s)
         /\ \A i \in 1..Len(s) : Reverse(s)[i] = s[(Len(s) - i) + 1]
BY DEF Reverse

\* The path of a loop: what CloseLoop reports when the walk had no repetition.
LEMMA CycleShape ==
  ASSUME visited \in Seq(Str), VisitedOnce, NEW name \in Str, IsVisited(name)
  PROVE  LET path == Cycle(name) IN
         /\ path \in Seq(Str)
         /\ Len(path) > 1
         /\ path[1] = path[Len(path)]
         /\ \A i, j \in 1..(Len(path) - 1) : path[i] = path[j] => i = j
         /\ path[Len(path) - 1] = visited[Len(visited)]
<1> DEFINE first == CHOOSE i \in 1..Len(visited) :
                      visited[i] = name /\ \A j \in 1..(i - 1) : visited[j] # name
           tail == SubSeq(visited, first, Len(visited))
<1>1. first \in 1..Len(visited) /\ visited[first] = name
  <2>1. PICK i \in 1..Len(visited) : visited[i] = name
    BY DEF IsVisited
  <2>2. \A j \in 1..(i - 1) : visited[j] # name
    BY <2>1 DEF VisitedOnce
  <2> QED
    BY <2>1, <2>2
<1> HIDE DEF first
<1>2. /\ tail \in Seq(Str)
      /\ Len(tail) = Len(visited) - first + 1
      /\ \A i \in 1..Len(tail) : tail[i] = visited[first + i - 1]
  <2>1. \A i \in first..Len(visited) : visited[i] \in Str
    BY <1>1
  <2> QED
    BY <1>1, <2>1, SubSeqProperties
<1> HIDE DEF tail
<1>3. Cycle(name) = Append(tail, name)
  BY DEF Cycle, tail, first
<1>4. /\ Append(tail, name) \in Seq(Str)
      /\ Len(Append(tail, name)) = Len(tail) + 1
      /\ \A i \in 1..Len(tail) : Append(tail, name)[i] = tail[i]
      /\ Append(tail, name)[Len(tail) + 1] = name
  BY <1>2, AppendProperties
<1>5. \A i, j \in 1..Len(tail) : tail[i] = tail[j] => i = j
  BY <1>1, <1>2 DEF VisitedOnce
<1>6. Len(tail) >= 1 /\ tail[1] = name /\ tail[Len(tail)] = visited[Len(visited)]
  BY <1>1, <1>2
<1>7. /\ Append(tail, name)[1] = name
      /\ \A i, j \in 1..Len(tail) : Append(tail, name)[i] = Append(tail, name)[j] => i = j
      /\ Append(tail, name)[Len(tail)] = visited[Len(visited)]
  BY <1>2, <1>4, <1>5, <1>6
<1>8. Len(tail) \in Nat /\ Len(tail) + 1 > 1 /\ (Len(tail) + 1) - 1 = Len(tail)
  BY <1>2, <1>6
<1> QED
  BY <1>3, <1>4, <1>7, <1>8

-----------------------------------------------------------------------------
(* The walk's invariant.                                                   *)

\* What the walk expands is a string, so resolution applies to it.
LEMMA JumpOutcomesType ==
  ASSUME TypeOK, WalkTracked, NEW o \in JumpOutcomes
  PROVE  /\ pc = "walk" /\ ~IsDirect(Value) /\ Value \in Str
         /\ o.kind \in {"ok"} \cup ResolveErrors
         /\ o.kind = "ok" => o.host \in Resolved /\ o.host.addressed = Value
<1>1. pc = "walk" /\ ~IsDirect(Value) /\ o \in Resolve(config, Value)
  BY DEF JumpOutcomes
<1>2. Value \in Str
  <2>1. current \in Resolved
    BY <1>1, ElementOfSeq DEF TypeOK, WalkTracked
  <2> QED
    BY <2>1, StringAssumption DEF Value, Resolved
<1>3. IsLoadedConfig(config)
  BY DEF TypeOK
<1> QED
  BY <1>1, <1>2, <1>3, ResolveType

\* A verdict built from typed parts is typed.
LEMMA VerdictType ==
  ASSUME NEW kind \in Kinds, NEW jump \in Str, NEW path \in Seq(Str),
         NEW chain \in Seq(Resolved)
  PROVE  Verdict(kind, jump, path, chain)
           \in [kind : Kinds, jump : Str, path : Seq(Str), chain : Seq(Resolved)]
BY DEF Verdict

\* The initial states satisfy the invariant.
LEMMA InitInv == Init => IInv
<1> SUFFICES ASSUME Init PROVE IInv
  OBVIOUS
<1>1. /\ config \in Configs /\ addressed \in Str /\ pc \in {"list", "start"}
      /\ listed \subseteq Str /\ row \in Str
      /\ target = ZeroHost /\ current = ZeroHost
      /\ hops = <<>> /\ visited = <<>> /\ verdict = Pending
  BY AddressedAssumption, StringAssumption DEF Init, InitAddressed, InitList, Begin
<1>2. TypeOK
  <2>1. "" \in Str /\ "none" \in Kinds
    BY StringAssumption DEF Kinds
  <2>2. verdict \in [kind : Kinds, jump : Str, path : Seq(Str), chain : Seq(Resolved)]
    BY <1>1, <2>1, VerdictType, EmptySeq DEF Pending
  <2>3. IsLoadedConfig(config)
    BY <1>1, ConfigAssumption
  <2>4. pc \in {"list", "choose", "start", "walk", "done"}
    BY <1>1
  <2>5. hops \in Seq(Resolved) /\ visited \in Seq(Str)
    BY <1>1, EmptySeq
  <2> QED
    BY <1>1, <2>2, <2>3, <2>4, <2>5 DEF TypeOK
<1>3. WalkTracked /\ VisitedOnce /\ HopsLinked
  BY <1>1 DEF WalkTracked, VisitedOnce, HopsLinked
<1>4. VerdictTracked /\ LoopPathIsCycle
  BY <1>1 DEF VerdictTracked, LoopPathIsCycle, Pending, Verdict
<1> QED
  BY <1>2, <1>3, <1>4 DEF IInv

\* An action that ends the walk leaves the walk's variables alone, so only the
\* verdict has to be looked at.
LEMMA FinishInv ==
  ASSUME IInv, NEW kind \in Kinds \ {"chain", "loop"}, NEW jump \in Str,
         Finish(Verdict(kind, jump, <<>>, <<>>)),
         UNCHANGED <<file, menu, target, current, hops, visited>>
  PROVE  IInv'
<1> USE DEF Finish, Verdict, file, menu
<1>1. TypeOK'
  BY DEF IInv, TypeOK
<1>2. WalkTracked'
  BY DEF IInv, WalkTracked
<1>3. VisitedOnce' /\ HopsLinked'
  BY DEF IInv, VisitedOnce, HopsLinked
<1>4. VerdictTracked' /\ LoopPathIsCycle'
  BY DEF VerdictTracked, LoopPathIsCycle
<1> QED
  BY <1>1, <1>2, <1>3, <1>4 DEF IInv

\* Every step of the walk, and every rewrite of the file, keeps the invariant.
LEMMA NextInv == IInv /\ [Next]_vars => IInv'
<1> SUFFICES ASSUME IInv, [Next]_vars PROVE IInv'
  OBVIOUS
<1> USE DEF IInv
<1>1. CASE ResolveTarget
  <2>1. PICK o \in Resolve(config, addressed) :
          /\ o.kind = "ok"
          /\ target' = o.host /\ current' = o.host /\ visited' = <<o.host.name>>
    BY <1>1 DEF ResolveTarget
  <2>2. /\ pc = "start" /\ pc' = "walk" /\ UNCHANGED <<file, hops, verdict>>
        /\ listed' \subseteq Str /\ row' \in Str
    BY <1>1, StringAssumption DEF ResolveTarget
  <2>3. o.host \in Resolved /\ o.host.name \in Str
    <3>1. addressed \in Str /\ IsLoadedConfig(config)
      BY DEF TypeOK
    <3> QED
      BY <2>1, <3>1, ResolveType DEF Resolved
  <2>4. hops = <<>> /\ verdict = Pending
    BY <2>2 DEF WalkTracked, VerdictTracked
  <2>5. TypeOK'
    BY <2>1, <2>2, <2>3 DEF TypeOK, file
  <2>6. WalkTracked' /\ VisitedOnce' /\ HopsLinked'
    BY <2>1, <2>2, <2>3, <2>4 DEF WalkTracked, VisitedOnce, HopsLinked
  <2>7. VerdictTracked' /\ LoopPathIsCycle'
    BY <2>2, <2>4 DEF VerdictTracked, LoopPathIsCycle, Pending, Verdict
  <2> QED
    BY <2>5, <2>6, <2>7
<1>2. CASE FailTarget
  <2>1. PICK o \in Resolve(config, addressed) :
          o.kind # "ok" /\ Finish(Verdict(o.kind, "", <<>>, <<>>))
    BY <1>2 DEF FailTarget
  <2>2. o.kind \in ResolveErrors
    BY <2>1, ResolveType DEF TypeOK
  <2>3. o.kind \in Kinds \ {"chain", "loop"}
    BY <2>2 DEF Kinds, ResolveErrors
  <2> QED
    BY <1>2, <2>1, <2>3, FinishInv, StringAssumption DEF FailTarget
<1>3. CASE ReachDirect
  <2>1. /\ pc = "walk" /\ pc' = "done" /\ IsDirect(Value)
        /\ verdict' = Verdict("chain", "", <<>>, Reverse(hops))
        /\ UNCHANGED <<file, menu, target, current, hops, visited>>
    BY <1>3 DEF ReachDirect, Finish, DialOrder
  <2>2. Reverse(hops) \in Seq(Resolved)
    BY ReverseType DEF TypeOK
  <2>3. TypeOK'
    <3>1. "" \in Str /\ "chain" \in Kinds
      BY StringAssumption DEF Kinds
    <3>2. verdict' \in [kind : Kinds, jump : Str, path : Seq(Str), chain : Seq(Resolved)]
      BY <2>1, <2>2, <3>1, VerdictType, EmptySeq
    <3> QED
      BY <2>1, <3>2 DEF TypeOK, file, menu
  <2>4. WalkTracked'
    BY <2>1 DEF WalkTracked
  <2>5. VisitedOnce' /\ HopsLinked'
    BY <2>1 DEF VisitedOnce, HopsLinked
  <2>6. VerdictTracked' /\ LoopPathIsCycle'
    BY <2>1 DEF VerdictTracked, LoopPathIsCycle, WalkTracked, Verdict, Value
  <2> QED
    BY <2>3, <2>4, <2>5, <2>6
<1>4. CASE RejectSpelling
  <2>1. current \in Resolved
    BY <1>4, ElementOfSeq DEF RejectSpelling, TypeOK, WalkTracked
  <2>2. Value \in Str
    BY <2>1, StringAssumption DEF Value, Resolved
  <2> QED
    BY <1>4, <2>2, FinishInv DEF RejectSpelling, Kinds, ChainErrors
<1>5. CASE FailHop
  <2>1. PICK o \in JumpOutcomes :
          /\ o.kind # "ok"
          /\ Finish(Verdict(JumpKind(o.kind), JumpNamed(o.kind, Value), <<>>, <<>>))
    BY <1>5 DEF FailHop
  <2>2. Value \in Str /\ o.kind \in ResolveErrors
    BY <2>1, JumpOutcomesType
  <2>3. JumpKind(o.kind) \in Kinds \ {"chain", "loop"}
    BY <2>2 DEF JumpKind, Kinds, ChainErrors, ResolveErrors
  <2>4. JumpNamed(o.kind, Value) \in Str
    BY <2>2, StringAssumption DEF JumpNamed
  <2> QED
    BY <1>5, <2>1, <2>3, <2>4, FinishInv DEF FailHop
<1>6. CASE CloseLoop
  <2>1. PICK o \in JumpOutcomes :
          /\ o.kind = "ok" /\ IsVisited(o.host.name)
          /\ Finish(Verdict("loop", "", Cycle(o.host.name), <<>>))
    BY <1>6 DEF CloseLoop
  <2> DEFINE path == Cycle(o.host.name)
  <2>2. o.host.name \in Str
    BY <2>1, JumpOutcomesType DEF Resolved
  <2>3. /\ path \in Seq(Str)
        /\ Len(path) > 1
        /\ path[1] = path[Len(path)]
        /\ \A i, j \in 1..(Len(path) - 1) : path[i] = path[j] => i = j
        /\ path[Len(path) - 1] = visited[Len(visited)]
    BY <2>1, <2>2, CycleShape DEF TypeOK
  <2> HIDE DEF path
  <2>4. pc = "walk" /\ UNCHANGED <<file, menu, target, current, hops, visited>>
    BY <1>6, <2>1, JumpOutcomesType DEF CloseLoop
  <2>5. pc' = "done" /\ verdict' = Verdict("loop", "", path, <<>>)
    BY <2>1 DEF Finish, path
  <2>6. visited[Len(visited)] = current.name
    <3>1. visited # <<>> /\ hops \in Seq(Resolved) /\ visited \in Seq(Str)
      BY <2>4 DEF TypeOK, WalkTracked
    <3> QED
      BY <3>1 DEF WalkTracked
  <2>7. TypeOK'
    <3>1. "" \in Str /\ "loop" \in Kinds
      BY StringAssumption DEF Kinds, ChainErrors
    <3>2. verdict' \in [kind : Kinds, jump : Str, path : Seq(Str), chain : Seq(Resolved)]
      BY <2>3, <2>5, <3>1, VerdictType, EmptySeq
    <3> QED
      BY <2>4, <2>5, <3>2 DEF TypeOK, file, menu
  <2>8. WalkTracked'
    BY <2>4, <2>5 DEF WalkTracked
  <2>9. VisitedOnce' /\ HopsLinked'
    BY <2>4 DEF VisitedOnce, HopsLinked
  <2>10. VerdictTracked' /\ LoopPathIsCycle'
    BY <2>3, <2>4, <2>5, <2>6 DEF VerdictTracked, LoopPathIsCycle, Verdict
  <2> QED
    BY <2>7, <2>8, <2>9, <2>10
<1>7. CASE ExtendChain
  <2>1. PICK o \in JumpOutcomes :
          /\ o.kind = "ok" /\ ~IsVisited(o.host.name)
          /\ hops' = Append(hops, o.host)
          /\ visited' = Append(visited, o.host.name)
          /\ current' = o.host
    BY <1>7 DEF ExtendChain
  <2>2. UNCHANGED <<file, menu, pc, target, verdict>>
    BY <1>7 DEF ExtendChain
  <2>3. /\ pc = "walk" /\ o.host \in Resolved /\ o.host.name \in Str
        /\ o.host.addressed = TrimSpace[current.proxyJump]
    BY <2>1, JumpOutcomesType DEF Resolved, Value
  <2>4. /\ hops' \in Seq(Resolved) /\ Len(hops') = Len(hops) + 1
        /\ \A i \in 1..Len(hops) : hops'[i] = hops[i]
        /\ hops'[Len(hops) + 1] = o.host
    BY <2>1, <2>3, AppendProperties DEF TypeOK
  <2>5. /\ visited' \in Seq(Str) /\ Len(visited') = Len(visited) + 1
        /\ \A i \in 1..Len(visited) : visited'[i] = visited[i]
        /\ visited'[Len(visited) + 1] = o.host.name
    BY <2>1, <2>3, AppendProperties DEF TypeOK
  <2>6. /\ Len(hops) \in Nat /\ Len(visited) = Len(hops) + 1
        /\ visited # <<>> /\ target \in Resolved
        /\ current = IF hops = <<>> THEN target ELSE hops[Len(hops)]
        /\ visited[1] = target.name
        /\ \A i \in 1..Len(hops) : visited[i + 1] = hops[i].name
    BY <2>3, LenProperties DEF TypeOK, WalkTracked
  <2>7. TypeOK'
    BY <2>1, <2>2, <2>3, <2>4, <2>5 DEF TypeOK, file, menu
  <2>8. WalkTracked'
    <3>1. visited' # <<>> /\ hops' # <<>> /\ pc' = "walk"
      BY <2>2, <2>3, <2>4, <2>5, <2>6
    <3>2. visited'[1] = target'.name
      BY <2>2, <2>5, <2>6
    <3>3. \A i \in 1..Len(hops') : visited'[i + 1] = hops'[i].name
      BY <2>4, <2>5, <2>6
    <3>4. current' = hops'[Len(hops')]
      BY <2>1, <2>4
    <3> QED
      BY <2>2, <2>4, <2>5, <2>6, <3>1, <3>2, <3>3, <3>4 DEF WalkTracked
  <2>9. VisitedOnce'
    BY <2>1, <2>5, <2>6 DEF VisitedOnce, IsVisited
  <2>10. HopsLinked'
    <3> SUFFICES ASSUME NEW i \in 1..Len(hops')
                 PROVE  hops'[i].addressed =
                          TrimSpace[(IF i = 1 THEN target ELSE hops'[i - 1]).proxyJump]
      BY <2>2 DEF HopsLinked
    <3>1. CASE i = Len(hops')
      <4>1. hops = <<>> <=> i = 1
        BY <2>4, <2>6, <3>1, EmptySeq DEF TypeOK
      <4>2. current = IF i = 1 THEN target ELSE hops'[i - 1]
        BY <2>4, <2>6, <3>1, <4>1
      <4> QED
        BY <2>3, <2>4, <3>1, <4>2
    <3>2. CASE i # Len(hops')
      <4>1. i \in 1..Len(hops) /\ hops'[i] = hops[i] /\ (i # 1 => hops'[i - 1] = hops[i - 1])
        BY <2>4, <2>6, <3>2
      <4> QED
        BY <4>1 DEF HopsLinked
    <3> QED
      BY <3>1, <3>2
  <2>11. VerdictTracked' /\ LoopPathIsCycle'
    <3>1. pc' = "walk" /\ verdict' = Pending
      BY <2>2, <2>3 DEF VerdictTracked
    <3> QED
      BY <3>1 DEF VerdictTracked, LoopPathIsCycle, Pending, Verdict
  <2> QED
    BY <2>7, <2>8, <2>9, <2>10, <2>11
<1>8. CASE Rewrite
  <2>1. IsLoadedConfig(config') /\ UNCHANGED <<addressed, menu, walk>>
    BY <1>8, ConfigAssumption DEF Rewrite
  <2>2. TypeOK'
    BY <2>1 DEF TypeOK, walk, menu
  <2>3. WalkTracked' /\ VisitedOnce' /\ HopsLinked'
    BY <2>1 DEF WalkTracked, VisitedOnce, HopsLinked, walk
  <2>4. VerdictTracked' /\ LoopPathIsCycle'
    BY <2>1 DEF VerdictTracked, LoopPathIsCycle, Value, walk
  <2> QED
    BY <2>2, <2>3, <2>4
<1>9. CASE UNCHANGED vars
  <2> USE <1>9 DEF vars
  <2>1. TypeOK'
    BY DEF TypeOK
  <2>2. WalkTracked' /\ VisitedOnce' /\ HopsLinked'
    BY DEF WalkTracked, VisitedOnce, HopsLinked
  <2>3. VerdictTracked' /\ LoopPathIsCycle'
    BY DEF VerdictTracked, LoopPathIsCycle, Value
  <2> QED
    BY <2>1, <2>2, <2>3
<1>10. CASE ShowList \/ Choose
  <2>1. /\ UNCHANGED <<config, target, current, hops, visited, verdict>>
        /\ pc \in {"list", "choose"} /\ pc' \in {"choose", "start"}
    BY <1>10 DEF ShowList, Choose, file
  <2>2. listed' \subseteq Str /\ row' \in Str /\ addressed' \in Str
    <3>1. HostList \subseteq Str
      BY DEF HostList, TypeOK, IsLoadedConfig, IsHostMap
    <3> QED
      BY <1>10, <3>1 DEF ShowList, Choose, TypeOK, file
  <2>3. TypeOK'
    BY <2>1, <2>2 DEF TypeOK
  <2>4. WalkTracked' /\ VisitedOnce' /\ HopsLinked'
    BY <2>1 DEF WalkTracked, VisitedOnce, HopsLinked
  <2>5. VerdictTracked' /\ LoopPathIsCycle'
    <3>1. pc' # "done" /\ verdict' = Pending
      BY <2>1 DEF VerdictTracked
    <3> QED
      BY <3>1 DEF VerdictTracked, LoopPathIsCycle, Pending, Verdict
  <2> QED
    BY <2>3, <2>4, <2>5
<1>11. CASE NothingToShow \/ NoChoice
  BY <1>11, FinishInv, StringAssumption DEF NothingToShow, NoChoice, Kinds, ChainErrors
<1> QED
  BY <1>1, <1>2, <1>3, <1>4, <1>5, <1>6, <1>7, <1>8, <1>9, <1>10, <1>11
  DEF Next, Step, Answer, Terminating

\* The walk's invariant holds whatever other invocations do to the file.
THEOREM WalkInvariant == Spec => []IInv
<1> QED
  BY InitInv, NextInv, PTL DEF Spec

-----------------------------------------------------------------------------
(* What the invariant implies.                                             *)

\* Every variable keeps its type.
THEOREM TypeCorrect == Spec => []TypeOK
<1>1. IInv => TypeOK
  BY DEF IInv
<1> QED
  BY <1>1, WalkInvariant, PTL

\* The names visited are distinct, and they are the target's and the hops'.
LEMMA NoHostTwiceInv == IInv => NoHostTwice
<1> SUFFICES ASSUME IInv, verdict.kind = "chain",
                    NEW i \in 1..Len(verdict.chain), NEW j \in 1..Len(verdict.chain)
             PROVE  /\ verdict.chain[i].name # target.name
                    /\ verdict.chain[i].name = verdict.chain[j].name => i = j
  BY DEF NoHostTwice
<1>1. /\ hops \in Seq(Resolved) /\ visited # <<>>
      /\ verdict.chain = Reverse(hops)
  BY DEF IInv, TypeOK, VerdictTracked
<1>2. /\ Len(hops) \in Nat /\ Len(visited) = Len(hops) + 1
      /\ visited[1] = target.name
      /\ \A k \in 1..Len(hops) : visited[k + 1] = hops[k].name
  BY <1>1 DEF IInv, WalkTracked
<1>3. /\ Len(verdict.chain) = Len(hops)
      /\ \A k \in 1..Len(hops) : verdict.chain[k] = hops[(Len(hops) - k) + 1]
  BY <1>1, ReverseType
<1> DEFINE m == (Len(hops) - i) + 1
           n == (Len(hops) - j) + 1
<1>4. /\ m \in 1..Len(hops) /\ n \in 1..Len(hops)
      /\ m + 1 \in 1..Len(visited) /\ n + 1 \in 1..Len(visited) /\ 1 \in 1..Len(visited)
      /\ m + 1 # 1 /\ (m + 1 = n + 1 => i = j)
  BY <1>2, <1>3
<1>5. verdict.chain[i].name = visited[m + 1] /\ verdict.chain[j].name = visited[n + 1]
  BY <1>2, <1>3, <1>4
<1> HIDE DEF m, n
<1> QED
  BY <1>2, <1>4, <1>5 DEF IInv, VisitedOnce

\* No machine is dialled twice.
THEOREM NoHostTwiceAlways == Spec => []NoHostTwice
<1> QED
  BY WalkInvariant, NoHostTwiceInv, PTL

\* Consecutive hosts of the walk are linked, so its reversal is a dial order.
LEMMA ChainLinkedInv == IInv => ChainLinked
<1> DEFINE route == Append(verdict.chain, target)
           len == Len(hops)
<1> SUFFICES ASSUME IInv, verdict.kind = "chain"
             PROVE  /\ IsDirect(TrimSpace[route[1].proxyJump])
                    /\ \A i \in 2..Len(route) :
                         route[i - 1].addressed = TrimSpace[route[i].proxyJump]
  BY DEF ChainLinked
<1>1. /\ hops \in Seq(Resolved) /\ visited # <<>> /\ target \in Resolved
      /\ verdict.chain = Reverse(hops) /\ IsDirect(Value)
      /\ current = IF hops = <<>> THEN target ELSE hops[Len(hops)]
  BY DEF IInv, TypeOK, VerdictTracked, WalkTracked
<1>2. /\ len \in Nat /\ verdict.chain \in Seq(Resolved) /\ Len(verdict.chain) = len
      /\ \A k \in 1..len : verdict.chain[k] = hops[(len - k) + 1]
  BY <1>1, ReverseType
<1>3. /\ Len(route) = len + 1 /\ route[len + 1] = target
      /\ \A k \in 1..len : route[k] = hops[(len - k) + 1]
  BY <1>1, <1>2, AppendProperties
<1>4. route[1] = current
  <2>1. CASE hops = <<>>
    BY <1>1, <1>3, <2>1
  <2>2. CASE hops # <<>>
    BY <1>1, <1>3, <2>2, EmptySeq
  <2> QED
    BY <2>1, <2>2
<1>5. ASSUME NEW i \in 2..Len(route)
      PROVE  route[i - 1].addressed = TrimSpace[route[i].proxyJump]
  <2> DEFINE k == (len - i) + 2
  <2>1. k \in 1..len /\ route[i - 1] = hops[k]
    BY <1>2, <1>3
  <2>2. route[i] = IF k = 1 THEN target ELSE hops[k - 1]
    BY <1>2, <1>3, <2>1
  <2> HIDE DEF k, route
  <2> QED
    BY <2>1, <2>2 DEF IInv, HopsLinked
<1> HIDE DEF route
<1> QED
  BY <1>1, <1>4, <1>5 DEF Value

\* Dialling the chain in order, each host is the one the next addresses.
THEOREM ChainLinkedAlways == Spec => []ChainLinked
<1> QED
  BY WalkInvariant, ChainLinkedInv, PTL

\* A reported loop is a cycle and nothing but the cycle.
THEOREM LoopPathIsCycleAlways == Spec => []LoopPathIsCycle
<1>1. IInv => LoopPathIsCycle
  BY DEF IInv
<1> QED
  BY <1>1, WalkInvariant, PTL

-----------------------------------------------------------------------------
(* The interactive host list.                                              *)

\* A name that the file has is resolved to the Host of that name.
LEMMA NameWins ==
  ASSUME NEW c, NEW n \in DOMAIN c.hosts, NEW o \in Resolve(c, n), o.kind = "ok"
  PROVE  o.host.name = n
<1>1. ASSUME NEW s, NEW meta, o = Found(NewResolved(n, n, s, meta))
      PROVE  o.host.name = n
  BY <1>1 DEF Found, NewResolved
<1>2. ASSUME NEW k \in ResolveErrors, o = Failed(k)
      PROVE  FALSE
  BY <1>2 DEF Failed, ResolveErrors
<1>3. CASE n \in DirectAddress
  <2>1. o = Failed("ipv6") \/ o = Found(NewResolved(n, n, "direct", NoMeta))
    BY <1>3 DEF Resolve, ResolveDirectAddress
  <2> QED
    BY <1>1, <1>2, <2>1 DEF ResolveErrors
<1>4. CASE n \notin DirectAddress
  <2>1. Entries(c.hosts, n) = {n}
    BY DEF Entries
  <2>2. o = Failed("unreadable") \/ o = Failed("not_found") \/ o = ResolveEntry(n, n, c.hosts[n])
    BY <1>4, <2>1 DEF Resolve, ResolveNamedHost
  <2>3. \/ o = Failed("unreadable") \/ o = Failed("not_found") \/ o = Failed("no_details")
        \/ o = Found(NewResolved(n, n, DeriveSource(c.hosts[n]), c.hosts[n]))
    BY <2>2 DEF ResolveEntry
  <2> QED
    BY <1>1, <1>2, <2>3 DEF ResolveErrors
<1> QED
  BY <1>3, <1>4

\* From the choice to its resolution, the name stays what was on the row.
LEMMA MenuInvariant == Spec => []MenuTracked
<1>1. Init => MenuTracked
  BY DEF Init, InitAddressed, InitList, Begin, MenuTracked
<1>2. ASSUME MenuTracked, [Next]_vars
      PROVE  MenuTracked'
  <2>1. CASE Step
    BY <1>2, <2>1
    DEF MenuTracked, Step, ShowList, NothingToShow, ResolveTarget, FailTarget, ReachDirect,
        RejectSpelling, FailHop, JumpOutcomes, CloseLoop, ExtendChain, Finish, file, menu
  <2>2. CASE Answer
    BY <2>2 DEF MenuTracked, Answer, Choose, NoChoice, Finish
  <2>3. CASE Rewrite \/ UNCHANGED vars
    BY <1>2, <2>3 DEF MenuTracked, Rewrite, menu, walk, vars
  <2> QED
    BY <1>2, <2>1, <2>2, <2>3 DEF Next, Terminating
<1> QED
  BY <1>1, <1>2, PTL DEF Spec

\* Who is chosen in the list is who is dialled, if the file still has the name.
THEOREM ChosenIsTargetAlways == Spec => ChosenIsTarget
<1> DEFINE Chosen ==
      pc = "start" /\ pc' = "walk" /\ listed # {} /\ row \in DOMAIN config.hosts
<1>1. ASSUME MenuTracked, Next, Chosen
      PROVE  target'.name = row
  <2>1. ResolveTarget
    BY <1>1
    DEF Next, Step, Answer, Terminating, ShowList, NothingToShow, FailTarget, ReachDirect,
        RejectSpelling, FailHop, JumpOutcomes, CloseLoop, ExtendChain, Choose, NoChoice,
        Rewrite, Finish, walk, vars
  <2>2. PICK o \in Resolve(config, row) : o.kind = "ok" /\ target' = o.host
    BY <1>1, <2>1 DEF ResolveTarget, MenuTracked
  <2> QED
    BY <1>1, <2>2, NameWins
<1>2. MenuTracked /\ [Next]_vars => [Chosen => target'.name = row]_vars
  BY <1>1
<1> QED
  BY <1>2, MenuInvariant, PTL DEF Spec, ChosenIsTarget

-----------------------------------------------------------------------------
(***************************************************************************)
(* The walk of an argument on a file nobody rewrites: it follows the file, *)
(* and its verdict is the one of where it ended.                           *)
(***************************************************************************)

\* An outcome is a host or an error.
LEMMA OutcomeShape ==
  ASSUME NEW c, NEW a, NEW o \in Resolve(c, a)
  PROVE  o.kind = "ok" => o = Found(o.host)
<1>1. ASSUME NEW r, o = Found(r)
      PROVE  o.kind = "ok" => o = Found(o.host)
  BY <1>1 DEF Found
<1>2. ASSUME NEW k \in ResolveErrors, o = Failed(k)
      PROVE  o.kind # "ok"
  BY <1>2 DEF Failed, ResolveErrors
<1>3. CASE a \in DirectAddress
  BY <1>1, <1>2, <1>3 DEF Resolve, ResolveDirectAddress, ResolveErrors
<1>4. CASE a \notin DirectAddress
  <2>1. \/ o = Failed("unreadable") \/ o = Failed("not_found")
        \/ \E n \in Entries(c.hosts, a) : o = ResolveEntry(a, n, c.hosts[n])
    BY <1>4 DEF Resolve, ResolveNamedHost
  <2> QED
    BY <1>1, <1>2, <2>1 DEF ResolveEntry, ResolveErrors
<1> QED
  BY <1>3, <1>4

LEMMA OutcomeFailed ==
  ASSUME NEW c, NEW a, NEW o \in Resolve(c, a), o.kind # "ok"
  PROVE  o = Failed(o.kind)
<1> DEFINE failed == o = Failed(o.kind)
<1>1. ASSUME NEW r, o = Found(r) PROVE failed
  BY <1>1 DEF Found
<1>2. ASSUME NEW k, o = Failed(k) PROVE failed
  <2>1. Failed(k).kind = k
    BY DEF Failed
  <2> QED
    BY <1>2, <2>1
<1> SUFFICES failed
  OBVIOUS
<1> HIDE DEF failed
<1>3. CASE a \in DirectAddress
  BY <1>1, <1>2, <1>3 DEF Resolve, ResolveDirectAddress
<1>4. CASE a \notin DirectAddress
  <2>1. \/ o = Failed("unreadable") \/ o = Failed("not_found")
        \/ \E n \in Entries(c.hosts, a) : o = ResolveEntry(a, n, c.hosts[n])
    BY <1>4 DEF Resolve, ResolveNamedHost
  <2> QED
    BY <1>1, <1>2, <2>1 DEF ResolveEntry
<1> QED
  BY <1>3, <1>4

LEMMA QuietInit ==
  ASSUME config \in Configs, NEW argument \in Addressed, Begin("start", argument)
  PROVE  QuietInv
<1>1. Init
  BY DEF Init, InitAddressed
<1>2. pc = "start" /\ visited = <<>> /\ hops = <<>> /\ target = ZeroHost
  BY DEF Begin
<1>3. Followed /\ Settled
  BY <1>2 DEF Followed, Settled
<1> QED
  BY <1>1, <1>2, <1>3, InitInv DEF QuietInv

\* A step that only ends the walk leaves what was followed.
LEMMA FollowedStays ==
  ASSUME Followed, UNCHANGED <<config, addressed, target, hops, visited>>
  PROVE  Followed'
<1>1. \A i : From(i)' = From(i)
  BY DEF From
<1> QED
  BY <1>1 DEF Followed

\* Where the walk is, is where the last hop leads.
LEMMA CurrentIsLast ==
  ASSUME IInv, visited # <<>>
  PROVE  current = From(Len(hops) + 1) /\ Len(hops) \in Nat
<1>1. hops \in Seq(Resolved)
  BY DEF IInv, TypeOK
<1>2. Len(hops) \in Nat /\ (hops = <<>> <=> Len(hops) = 0)
  BY <1>1, EmptySeq
<1> QED
  BY <1>2 DEF IInv, WalkTracked, From

LEMMA QuietStep ==
  ASSUME QuietInv, Step
  PROVE  QuietInv'
<1>0. IInv' /\ TypeOK /\ WalkTracked /\ Followed
  BY NextInv DEF QuietInv, IInv, Next
<1>1. CASE ResolveTarget
  <2>1. PICK o \in Resolve(config, addressed) :
          o.kind = "ok" /\ target' = o.host /\ visited' = <<o.host.name>>
    BY <1>1 DEF ResolveTarget
  <2>2. Found(target') \in Resolve(config, addressed)
    BY <2>1, OutcomeShape
  <2>3. pc = "start" /\ pc' = "walk" /\ UNCHANGED <<config, addressed, hops>>
    BY <1>1 DEF ResolveTarget, file
  <2>4. Len(hops) = 0 /\ visited' # <<>>
    BY <1>0, <2>1, <2>3, EmptySeq DEF WalkTracked
  <2> QED
    BY <1>0, <2>2, <2>3, <2>4 DEF QuietInv, Followed, Settled
<1>2. CASE FailTarget
  <2>1. /\ pc = "start" /\ pc' = "done"
        /\ UNCHANGED <<config, addressed, target, current, hops, visited>>
        /\ \E o \in Resolve(config, addressed) :
             o.kind # "ok" /\ verdict' = Verdict(o.kind, "", <<>>, <<>>)
    BY <1>2 DEF FailTarget, Finish, file
  <2>2. Settled'
    BY <1>0, <2>1 DEF Settled, WalkTracked
  <2> QED
    BY <1>0, <2>1, <2>2, FollowedStays DEF QuietInv
<1>3. CASE ReachDirect \/ RejectSpelling \/ FailHop \/ CloseLoop
  <2>1. /\ pc = "walk" /\ pc' = "done"
        /\ UNCHANGED <<config, addressed, target, current, hops, visited>>
    BY <1>3 DEF ReachDirect, RejectSpelling, FailHop, CloseLoop, JumpOutcomes, Finish, file
  <2>2. visited # <<>> /\ Value' = Value /\ \A n : IsVisited(n)' = IsVisited(n)
    BY <1>0, <2>1 DEF WalkTracked, Value, IsVisited
  <2>3. \A n : Cycle(n)' = Cycle(n)
    BY <2>1 DEF Cycle
  <2>4. Settled'
    <3>1. CASE ReachDirect
      BY <2>1, <2>2, <3>1 DEF Settled, ReachDirect, Finish
    <3>2. CASE RejectSpelling
      BY <2>1, <2>2, <3>2 DEF Settled, RejectSpelling, Finish
    <3>3. CASE FailHop \/ CloseLoop
      <4>1. PICK o \in JumpOutcomes :
              IF o.kind # "ok"
              THEN verdict' = Verdict(JumpKind(o.kind), JumpNamed(o.kind, Value), <<>>, <<>>)
              ELSE /\ IsVisited(o.host.name)
                   /\ verdict' = Verdict("loop", "", Cycle(o.host.name), <<>>)
        BY <3>3 DEF FailHop, CloseLoop, Finish
      <4>2. ~IsDirect(Value) /\ Supported(Value) /\ o \in Resolve(config, Value)
        BY <4>1 DEF JumpOutcomes
      <4> QED
        BY <2>1, <2>2, <2>3, <4>1, <4>2 DEF Settled
    <3> QED
      BY <1>3, <3>1, <3>2, <3>3
  <2> QED
    BY <1>0, <2>1, <2>4, FollowedStays DEF QuietInv
<1>4. CASE ExtendChain
  <2>1. PICK o \in JumpOutcomes :
          /\ o.kind = "ok" /\ hops' = Append(hops, o.host)
          /\ visited' = Append(visited, o.host.name)
    BY <1>4 DEF ExtendChain
  <2>2. /\ pc' = "walk" /\ UNCHANGED <<config, addressed, target>> /\ visited # <<>>
        /\ Supported(Value) /\ ~IsDirect(Value) /\ Value \in Str /\ Value = TrimSpace[current.proxyJump]
        /\ Found(o.host) \in Resolve(config, Value) /\ o.host \in Resolved
    BY <1>0, <1>4, <2>1, JumpOutcomesType, OutcomeShape
    DEF ExtendChain, JumpOutcomes, file, WalkTracked, Value
  <2>3. /\ Len(hops') = Len(hops) + 1 /\ Len(hops) \in Nat
        /\ \A i \in 1..Len(hops) : hops'[i] = hops[i]
        /\ hops'[Len(hops) + 1] = o.host
    BY <1>0, <2>1, <2>2, AppendProperties DEF TypeOK
  <2>4. current = From(Len(hops) + 1)
    BY <2>2, CurrentIsLast DEF QuietInv
  <2>5. \A i \in 1..Len(hops') : From(i)' = From(i)
    BY <2>2, <2>3 DEF From
  <2>6. Followed'
    <3>1. \A i \in 1..Len(hops') :
            \E value \in Str : /\ Addresses(From(i), value)
                               /\ Found(hops'[i]) \in Resolve(config, value)
      BY <1>0, <2>2, <2>3, <2>4 DEF Followed, Addresses
    <3>2. visited' # <<>>
      BY <1>0, <2>2 DEF IInv, WalkTracked
    <3> QED
      BY <1>0, <2>2, <2>5, <3>1, <3>2 DEF Followed, Addresses
  <2> QED
    BY <1>0, <2>2, <2>6 DEF QuietInv, Settled
<1>5. CASE ShowList \/ NothingToShow
  BY <1>5 DEF QuietInv, ShowList, NothingToShow
<1> QED
  BY <1>1, <1>2, <1>3, <1>4, <1>5 DEF Step

\* And a step that changes nothing keeps it.
LEMMA QuietStays ==
  ASSUME QuietInv, UNCHANGED vars
  PROVE  QuietInv'
<1>1. IInv' /\ UNCHANGED <<config, addressed, pc, target, current, hops, visited, verdict>>
  BY NextInv DEF QuietInv, vars
<1>2. Followed'
  BY <1>1, FollowedStays DEF QuietInv
<1>3. Settled'
  <2>1. Value' = Value /\ (\A n : IsVisited(n)' = IsVisited(n)) /\ \A n : Cycle(n)' = Cycle(n)
    BY <1>1 DEF Value, IsVisited, Cycle
  <2> QED
    BY <1>1, <2>1 DEF QuietInv, Settled
<1> QED
  BY <1>1, <1>2, <1>3 DEF QuietInv

-----------------------------------------------------------------------------
(***************************************************************************)
(* The jump graph.  Where aliases are unique a value has one outcome, so   *)
(* every host points at one other at most.                                 *)
(***************************************************************************)
LEMMA OneOutcome ==
  ASSUME NEW c, UniqueAliases(c.hosts), NEW a, a # "",
         NEW o \in Resolve(c, a), NEW p \in Resolve(c, a)
  PROVE  o = p
<1>1. CASE a \in DirectAddress
  <2>1. \E x : ResolveDirectAddress(a) = {x}
    BY Zenon DEF ResolveDirectAddress
  <2> QED
    BY <1>1, <2>1 DEF Resolve
<1>2. CASE a \notin DirectAddress
  <2>1. \A m, n \in Entries(c.hosts, a) : m = n
    BY DEF Entries, FindByAlias, UniqueAliases
  <2> QED
    BY <1>2, <2>1 DEF Resolve, ResolveNamedHost
<1> QED
  BY <1>1, <1>2

\* JumpGraph resolves by the same definitions.
LEMMA SameResolve ==
  ASSUME NEW c, NEW a
  PROVE  Graph!Resolve(c, a) = Resolve(c, a)
<1>1. \A k : Graph!Failed(k) = Failed(k)
  BY DEF Graph!Failed, Failed, Graph!ZeroHost, ZeroHost
<1>2. \A r : Graph!Found(r) = Found(r)
  BY DEF Graph!Found, Found
<1>3. \A x, y, z : Graph!CredentialKeys(x, y, z) = CredentialKeys(x, y, z)
  <2>1. \A keys, k : Graph!AddKey(keys, k) = AddKey(keys, k)
    BY Zenon DEF Graph!AddKey, AddKey
  <2> QED
    BY <2>1, Zenon DEF Graph!CredentialKeys, CredentialKeys
<1>4. ASSUME NEW text, NEW n, NEW s, NEW meta
      PROVE  Graph!NewResolved(text, n, s, meta) = NewResolved(text, n, s, meta)
  <2>1. \A x, y : Graph!OrDefault(x, y) = OrDefault(x, y)
    BY Zenon DEF Graph!OrDefault, OrDefault
  <2> QED
    BY <1>3, <2>1 DEF Graph!NewResolved, NewResolved
<1>5. \A meta : Graph!DeriveSource(meta) = DeriveSource(meta)
  BY Zenon DEF Graph!DeriveSource, DeriveSource
<1>6. \A x, n, meta : Graph!ResolveEntry(x, n, meta) = ResolveEntry(x, n, meta)
  BY <1>1, <1>2, <1>4, <1>5, Zenon DEF Graph!ResolveEntry, ResolveEntry
<1>7. \A hosts, x : Graph!Entries(hosts, x) = Entries(hosts, x)
  BY Zenon DEF Graph!Entries, Entries, Graph!FindByAlias, FindByAlias
<1>8. Graph!ResolveNamedHost(c, a) = ResolveNamedHost(c, a)
  BY <1>1, <1>6, <1>7 DEF Graph!ResolveNamedHost, ResolveNamedHost
<1>9. Graph!ResolveDirectAddress(a) = ResolveDirectAddress(a)
  <2>1. Graph!NoMeta = NoMeta
    BY DEF Graph!NoMeta, NoMeta
  <2> QED
    BY <1>1, <1>2, <1>4, <2>1 DEF Graph!ResolveDirectAddress, ResolveDirectAddress
<1> QED
  BY <1>8, <1>9 DEF Graph!Resolve, Resolve

LEMMA SameCardinality ==
  ASSUME NEW S
  PROVE  Graph!Cardinality(S) = Cardinality(S)
BY Zenon DEF Graph!Cardinality, Cardinality

\* The words of the graph in the words of the walk.
LEMMA GraphTerms ==
  ASSUME NEW r, NEW value, value = TrimSpace[r.proxyJump]
  PROVE  /\ Graph!EndsAt(r) <=> IsDirect(value)
         /\ IsDirect(value) => Graph!Outcomes(r) = {}
         /\ ~IsDirect(value) /\ ~Supported(value) => Graph!Outcomes(r) = {Failed("unsupported")}
         /\ ~IsDirect(value) /\ Supported(value) => Graph!Outcomes(r) = Resolve(config, value)
         /\ Graph!PointsAt(r) = value
<1>1. Graph!Failed("unsupported") = Failed("unsupported")
  BY DEF Graph!Failed, Failed, Graph!ZeroHost, ZeroHost
<1>2. Graph!PointsAt(r) = value
  BY DEF Graph!PointsAt
<1> QED
  BY <1>1, <1>2, SameResolve DEF Graph!EndsAt, Graph!Outcomes, IsDirect, Supported

LEMMA JumpHostsType ==
  ASSUME IsLoadedConfig(config), NEW r \in Resolved
  PROVE  Graph!JumpHosts(r) \subseteq Resolved
<1> DEFINE value == TrimSpace[r.proxyJump]
<1>1. value \in Str
  BY StringAssumption DEF Resolved
<1>2. \A o \in Graph!Outcomes(r) : o.kind = "ok" => o.host \in Resolved
  <2>1. Failed("unsupported").kind # "ok"
    BY DEF Failed
  <2>2. \A o \in Resolve(config, value) : o.kind = "ok" => o.host \in Resolved
    BY <1>1, ResolveType
  <2> QED
    BY <2>1, <2>2, GraphTerms
<1> QED
  BY <1>2 DEF Graph!JumpHosts

\* The hosts reached within n jumps, as a solution of its recursion.
Nearer(hosts) == hosts \cup UNION {Graph!JumpHosts(r) : r \in hosts}
Longest == Cardinality(DOMAIN config.hosts) + 3
Spreads(within, start) ==
  /\ within[0] = start
  /\ \A i \in 1..Longest : within[i] = Nearer(within[i - 1])
  /\ within[Longest] = Graph!Reach(start)

LEMMA LongestType == IsFiniteSet(DOMAIN config.hosts) => Longest \in Nat /\ Longest >= 3
BY FS_CardinalityType DEF Longest

LEMMA ReachSpreads ==
  ASSUME IsLoadedConfig(config), IsFiniteSet(DOMAIN config.hosts), NEW start \in SUBSET Resolved
  PROVE  \E within : Spreads(within, start)
<1> DEFINE Body(within) ==
      [n \in 0..Longest |->
         IF n = 0 THEN start
         ELSE within[n - 1] \cup UNION {Graph!JumpHosts(r) : r \in within[n - 1]}]
           within == CHOOSE within : within = Body(within)
           step == [i \in 1..Longest |-> [hosts \in SUBSET Resolved |-> Nearer(hosts)]]
<1>1. Longest \in Nat
  BY LongestType
<1>2. Graph!Reach(start) = within[Longest]
  BY SameCardinality, Zenon DEF Graph!Reach, Longest
<1>3. \A hosts \in SUBSET Resolved : Nearer(hosts) \in SUBSET Resolved
  BY JumpHostsType DEF Nearer
<1>4. step \in [1..Longest -> [SUBSET Resolved -> SUBSET Resolved]]
  BY <1>3
<1>5. PICK f : Upward(f, Longest, SUBSET Resolved, start, step)
  <2> HIDE DEF step
  <2> QED BY <1>1, <1>4, UpwardRecursion
<1>6. f = Body(f)
  <2>1. f \in [0..Longest -> SUBSET Resolved] /\ f[0] = start
    BY <1>5 DEF Upward
  <2>2. \A i \in 1..Longest : i - 1 \in 0..Longest
    BY <1>1
  <2>3. \A i \in 1..Longest : f[i] = Nearer(f[i - 1])
    BY <1>5, <2>1, <2>2 DEF Upward
  <2>4. \A i \in 0..Longest : Body(f)[i] = f[i]
    BY <1>1, <2>1, <2>3 DEF Nearer
  <2> HIDE DEF step
  <2>5. DOMAIN Body(f) = 0..Longest /\ Body(f) = [i \in DOMAIN Body(f) |-> Body(f)[i]]
    OBVIOUS
  <2>6. DOMAIN f = 0..Longest /\ f = [i \in DOMAIN f |-> f[i]]
    BY <2>1
  <2> HIDE DEF Body
  <2> QED BY <2>4, <2>5, <2>6
<1>7. within = Body(within)
  BY <1>6
<1> HIDE DEF within
<1>8. within[0] = start /\ \A i \in 1..Longest : within[i] = Nearer(within[i - 1])
  <2>1. 0 \in 0..Longest /\ \A i \in 1..Longest : i \in 0..Longest /\ i # 0
    BY <1>1
  <2>2. \A i \in 0..Longest : within[i] = Body(within)[i]
    BY <1>7
  <2> QED BY <2>1, <2>2 DEF Nearer
<1> QED
  BY <1>2, <1>8 DEF Spreads

\* Whatever a path of jumps leads to is reached, if it is short enough.
LEMMA ReachContains ==
  ASSUME IsLoadedConfig(config), IsFiniteSet(DOMAIN config.hosts), NEW start \in SUBSET Resolved,
         NEW m \in Nat, m <= Longest, NEW q, q[0] \in start,
         \A k \in 1..m : q[k] \in Graph!JumpHosts(q[k - 1])
  PROVE  q[m] \in Graph!Reach(start)
<1>1. Longest \in Nat
  BY LongestType
<1>2. PICK within : Spreads(within, start)
  BY ReachSpreads
<1>3. /\ within[0] = start
      /\ \A i \in 1..Longest : within[i] = Nearer(within[i - 1])
      /\ within[Longest] = Graph!Reach(start)
  BY <1>2 DEF Spreads
<1> DEFINE Passed == {k \in Nat : k <= m => q[k] \in within[k]}
           Kept == {k \in Nat : m + k <= Longest => q[m] \in within[m + k]}
<1>4. 0 \in Passed
  BY <1>3
<1>5. ASSUME NEW k \in Passed PROVE k + 1 \in Passed
  <2>1. k \in Nat /\ k + 1 \in Nat /\ (k + 1) - 1 = k
    OBVIOUS
  <2>2. SUFFICES ASSUME k + 1 <= m PROVE q[k + 1] \in within[k + 1]
    BY <2>1
  <2>3. q[k] \in within[k] /\ k + 1 \in 1..m /\ k + 1 \in 1..Longest
    BY <1>1, <1>5, <2>1, <2>2
  <2>4. q[k + 1] \in Graph!JumpHosts(q[k])
    BY <2>1, <2>3
  <2>5. within[k + 1] = Nearer(within[k])
    BY <1>3, <2>1, <2>3
  <2> QED BY <2>3, <2>4, <2>5 DEF Nearer
<1>6. Passed = Nat
  <2> HIDE DEF Passed
  <2>1. Passed \in SUBSET Nat
    BY DEF Passed
  <2> QED BY <1>4, <1>5, <2>1, SetInduction
<1>7. 0 \in Kept
  BY <1>6
<1>8. ASSUME NEW k \in Kept PROVE k + 1 \in Kept
  <2>1. k \in Nat /\ k + 1 \in Nat /\ (m + (k + 1)) - 1 = m + k
    OBVIOUS
  <2>2. SUFFICES ASSUME m + (k + 1) <= Longest PROVE q[m] \in within[m + (k + 1)]
    BY <2>1
  <2>3. q[m] \in within[m + k] /\ m + (k + 1) \in 1..Longest
    BY <1>1, <1>8, <2>1, <2>2
  <2>4. within[m + (k + 1)] = Nearer(within[m + k])
    BY <1>3, <2>1, <2>3
  <2> QED BY <2>3, <2>4 DEF Nearer
<1>9. Kept = Nat
  <2> HIDE DEF Kept, Passed
  <2>1. Kept \in SUBSET Nat
    BY DEF Kept
  <2> QED BY <1>7, <1>8, <2>1, SetInduction
<1>10. Longest - m \in Kept /\ m + (Longest - m) = Longest
  BY <1>1, <1>9
<1> QED
  BY <1>1, <1>3, <1>10

\* And nothing else: what is closed under jumps holds all that is reached.
LEMMA ReachWithin ==
  ASSUME IsLoadedConfig(config), IsFiniteSet(DOMAIN config.hosts), NEW start \in SUBSET Resolved,
         NEW C, start \subseteq C, \A r \in C : Graph!JumpHosts(r) \subseteq C
  PROVE  Graph!Reach(start) \subseteq C
<1>1. Longest \in Nat
  BY LongestType
<1>2. PICK within : Spreads(within, start)
  BY ReachSpreads
<1>3. /\ within[0] = start
      /\ \A i \in 1..Longest : within[i] = Nearer(within[i - 1])
      /\ within[Longest] = Graph!Reach(start)
  BY <1>2 DEF Spreads
<1> DEFINE Inside == {k \in Nat : k <= Longest => within[k] \subseteq C}
<1>4. 0 \in Inside
  BY <1>3
<1>5. ASSUME NEW k \in Inside PROVE k + 1 \in Inside
  <2>1. k \in Nat /\ k + 1 \in Nat /\ (k + 1) - 1 = k
    OBVIOUS
  <2>2. SUFFICES ASSUME k + 1 <= Longest PROVE within[k + 1] \subseteq C
    BY <2>1
  <2>3. within[k] \subseteq C /\ k + 1 \in 1..Longest
    BY <1>1, <1>5, <2>1, <2>2
  <2>4. within[k + 1] = Nearer(within[k])
    BY <1>3, <2>1, <2>3
  <2> QED BY <2>3, <2>4 DEF Nearer
<1>6. Inside = Nat
  <2> HIDE DEF Inside
  <2>1. Inside \in SUBSET Nat
    BY DEF Inside
  <2> QED BY <1>4, <1>5, <2>1, SetInduction
<1> QED
  BY <1>1, <1>3, <1>6

-----------------------------------------------------------------------------
(***************************************************************************)
(* The walk in the jump graph.                                             *)
(***************************************************************************)

\* A host is the address that was typed, or an entry of the file.
LEMMA FoundEntry ==
  ASSUME NEW c, NEW a, NEW r, Found(r) \in Resolve(c, a)
  PROVE  \/ a \in DirectAddress /\ r.name = a /\ r.proxyJump = ""
         \/ a \notin DirectAddress /\ r.name \in DOMAIN c.hosts
            /\ r.proxyJump = c.hosts[r.name].proxyJump
<1>1. \A k : Found(r) # Failed(k) \/ k = "ok"
  BY DEF Found, Failed
<1>2. ASSUME NEW s, NEW n, NEW meta, r = NewResolved(a, n, s, meta)
      PROVE  r.name = n /\ r.proxyJump = meta.proxyJump
  BY <1>2 DEF NewResolved
<1>3. \A x : Found(r) = Found(x) => r = x
  BY DEF Found
<1>4. CASE a \in DirectAddress
  <2>1. Found(r) = Found(NewResolved(a, a, "direct", NoMeta))
    BY <1>1, <1>4 DEF Resolve, ResolveDirectAddress
  <2>2. NoMeta.proxyJump = ""
    BY DEF NoMeta
  <2>3. r = NewResolved(a, a, "direct", NoMeta)
    BY <1>3, <2>1
  <2> QED
    BY <1>2, <1>4, <2>2, <2>3
<1>5. CASE a \notin DirectAddress
  <2>1. \E n \in Entries(c.hosts, a) : Found(r) = ResolveEntry(a, n, c.hosts[n])
    BY <1>1, <1>5 DEF Resolve, ResolveNamedHost
  <2>2. PICK n \in Entries(c.hosts, a) :
          Found(r) = Found(NewResolved(a, n, DeriveSource(c.hosts[n]), c.hosts[n]))
    BY <1>1, <2>1 DEF ResolveEntry
  <2>3. n \in DOMAIN c.hosts
    BY DEF Entries, FindByAlias
  <2>4. r = NewResolved(a, n, DeriveSource(c.hosts[n]), c.hosts[n])
    BY <1>3, <2>2
  <2> QED
    BY <1>2, <1>5, <2>3, <2>4
<1> QED
  BY <1>4, <1>5

\* What the answer may be read off: unique aliases, and no address for a name.
Plain == UniqueAliases(config.hosts) /\ NamesAreBare(config.hosts)
OnWalk == QuietInv /\ Plain /\ visited # <<>>
PathLen == Len(hops) + 1

\* The walk's variables, read as a path from the target.
LEMMA QuietFacts ==
  ASSUME QuietInv, visited # <<>>
  PROVE  /\ IsLoadedConfig(config) /\ IsFiniteSet(DOMAIN config.hosts)
         /\ Len(hops) \in Nat /\ PathLen \in Nat /\ Len(visited) = PathLen /\ current = From(PathLen)
         /\ \A i \in 1..PathLen : From(i) \in Resolved /\ visited[i] = From(i).name
         /\ \A i, j \in 1..PathLen : visited[i] = visited[j] => i = j
         /\ \A i \in 1..Len(hops) : hops[i] = From(i + 1)
         /\ From(1) = target
<1>1. /\ IInv /\ TypeOK /\ WalkTracked /\ VisitedOnce /\ config \in Configs /\ visited # <<>>
      /\ hops \in Seq(Resolved)
  BY DEF QuietInv, IInv, TypeOK
<1>2. IsLoadedConfig(config) /\ IsFiniteSet(DOMAIN config.hosts)
  BY <1>1, ConfigAssumption
<1>3. Len(hops) \in Nat /\ PathLen \in Nat /\ Len(visited) = PathLen /\ current = From(PathLen)
  BY <1>1, CurrentIsLast DEF WalkTracked, PathLen
<1>4. \A i \in 1..PathLen : From(i) \in Resolved /\ visited[i] = From(i).name
  <2> SUFFICES ASSUME NEW i \in 1..PathLen
               PROVE  From(i) \in Resolved /\ visited[i] = From(i).name
    OBVIOUS
  <2>1. CASE i = 1
    BY <1>1, <2>1 DEF From, WalkTracked
  <2>2. CASE i # 1
    <3>1. i - 1 \in 1..Len(hops) /\ (i - 1) + 1 = i
      BY <1>3, <2>2 DEF PathLen
    <3>2. visited[i] = hops[i - 1].name /\ hops[i - 1] \in Resolved
      BY <1>1, <3>1 DEF WalkTracked
    <3> QED
      BY <2>2, <3>2 DEF From
  <2> QED
    BY <2>1, <2>2
<1>5. \A i, j \in 1..PathLen : visited[i] = visited[j] => i = j
  BY <1>1, <1>3 DEF VisitedOnce
<1>6. \A i \in 1..Len(hops) : hops[i] = From(i + 1)
  BY <1>3 DEF From
<1>7. From(1) = target
  BY DEF From
<1> QED
  BY <1>2, <1>3, <1>4, <1>5, <1>6, <1>7

LEMMA WalkFacts ==
  ASSUME OnWalk
  PROVE  /\ IsLoadedConfig(config) /\ IsFiniteSet(DOMAIN config.hosts)
         /\ Len(hops) \in Nat /\ PathLen \in Nat /\ Len(visited) = PathLen /\ current = From(PathLen)
         /\ \A i \in 1..PathLen : From(i) \in Resolved /\ visited[i] = From(i).name
         /\ \A i, j \in 1..PathLen : visited[i] = visited[j] => i = j
         /\ \A i \in 1..Len(hops) : hops[i] = From(i + 1)
         /\ From(1) = target
BY QuietFacts DEF OnWalk

\* Every host before the last points at the next one, and only there.
LEMMA WalkOutcomes ==
  ASSUME OnWalk, NEW i \in 1..Len(hops)
  PROVE  /\ ~Graph!EndsAt(From(i))
         /\ Graph!Outcomes(From(i)) = {Found(From(i + 1))}
<1>1. PICK value \in Str : Addresses(From(i), value) /\ Found(hops[i]) \in Resolve(config, value)
  BY DEF OnWalk, QuietInv, Followed
<1>2. value = TrimSpace[From(i).proxyJump] /\ ~IsDirect(value) /\ Supported(value)
  BY <1>1 DEF Addresses
<1>3. ~Graph!EndsAt(From(i)) /\ Graph!Outcomes(From(i)) = Resolve(config, value)
  BY <1>2, GraphTerms
<1>4. value # ""
  BY <1>2 DEF IsDirect
<1>5. \A o \in Resolve(config, value) : o = Found(hops[i])
  BY <1>1, <1>4, OneOutcome DEF OnWalk, Plain
<1> QED
  BY <1>1, <1>3, <1>5, WalkFacts

\* The outcomes of a host as jump hosts and broken links.
LEMMA OutcomeParts ==
  ASSUME NEW r, NEW x
  PROVE  /\ Graph!Outcomes(r) = {Found(x)} =>
              Graph!JumpHosts(r) = {x} /\ Graph!Broken(r) = {}
         /\ Graph!Outcomes(r) = {} =>
              Graph!JumpHosts(r) = {} /\ Graph!Broken(r) = {}
         /\ \A k \in ResolveErrors \cup {"unsupported"} : Graph!Outcomes(r) = {Failed(k)} =>
              Graph!JumpHosts(r) = {} /\ Graph!Broken(r) = {k}
<1>1. Found(x).kind = "ok" /\ Found(x).host = x
  BY DEF Found
<1>2. \A k \in ResolveErrors \cup {"unsupported"} : Failed(k).kind = k /\ k # "ok"
  BY DEF Failed, ResolveErrors
<1> QED
  BY <1>1, <1>2 DEF Graph!JumpHosts, Graph!Broken

\* Where it has not ended, the walk is at an entry of the file: it is no longer
\* than the file.
LEMMA WalkIsShort ==
  ASSUME OnWalk
  PROVE  Len(hops) <= Cardinality(DOMAIN config.hosts) /\ PathLen + 2 <= Longest
<1> DEFINE L == Len(hops)
           D == DOMAIN config.hosts
           f == [i \in 1..L |-> visited[i]]
<1>0. /\ L \in Nat /\ IsFiniteSet(D) /\ L + 1 = PathLen
      /\ \A i \in 1..PathLen : From(i) \in Resolved /\ visited[i] = From(i).name
      /\ \A i, j \in 1..PathLen : visited[i] = visited[j] => i = j
  BY WalkFacts DEF PathLen
<1>1. ASSUME NEW i \in 1..L PROVE visited[i] \in D
  <2>1. From(i).proxyJump # ""
    <3>1. PICK value \in Str : Addresses(From(i), value)
      BY <1>1 DEF OnWalk, QuietInv, Followed
    <3> QED
      BY <3>1, TrimAssumption DEF Addresses, IsDirect
  <2>2. \E a : Found(From(i)) \in Resolve(config, a)
    <3>1. CASE i = 1
      BY <3>1 DEF From, OnWalk, QuietInv, Followed
    <3>2. CASE i # 1
      <4>1. i - 1 \in 1..L /\ From(i) = hops[i - 1]
        BY <1>0, <3>2 DEF From
      <4> QED
        BY <4>1 DEF OnWalk, QuietInv, Followed
    <3> QED
      BY <3>1, <3>2
  <2>3. From(i).name \in D
    BY <2>1, <2>2, FoundEntry
  <2>4. i \in 1..PathLen
    BY <1>0
  <2> QED
    BY <1>0, <2>3, <2>4
<1>2. f \in Injection(1..L, D)
  <2>1. \A i \in 1..L : i \in 1..PathLen
    BY <1>0
  <2>2. \A i, j \in 1..L : f[i] = f[j] => i = j
    BY <1>0, <2>1
  <2>3. f \in [1..L -> D]
    BY <1>1
  <2> HIDE DEF f, L, D
  <2> QED
    BY <2>2, <2>3 DEF Injection, IsInjective
<1>3. Cardinality(1..L) <= Cardinality(D)
  <2> HIDE DEF f, L, D
  <2> QED BY <1>0, <1>2, FS_Injection
<1>4. Cardinality(1..L) = L
  <2>1. 1 \in Int /\ L \in Int /\ (1 > L <=> L = 0)
    BY <1>0
  <2>2. Cardinality(1..L) = IF 1 > L THEN 0 ELSE (L - 1) + 1
    BY <2>1, FS_Interval
  <2> HIDE DEF L
  <2> QED BY <1>0, <2>1, <2>2
<1>5. L <= Cardinality(D) /\ Cardinality(D) \in Nat
  BY <1>0, <1>3, <1>4, FS_CardinalityType
<1> QED
  BY <1>0, <1>5 DEF Longest

\* The hosts on the walk are the ones reached, unless it comes back to one.
OnPath == {From(i) : i \in 1..PathLen}

LEMMA PathIsReached ==
  ASSUME OnWalk
  PROVE  OnPath \subseteq Graph!Reach({target}) /\ {target} \in SUBSET Resolved
<1>0. /\ IsLoadedConfig(config) /\ IsFiniteSet(DOMAIN config.hosts) /\ PathLen \in Nat /\ PathLen >= 1
      /\ PathLen <= Longest /\ Longest \in Nat /\ From(1) = target /\ From(1) \in Resolved
      /\ PathLen - 1 = Len(hops)
  BY WalkFacts, WalkIsShort, LongestType DEF PathLen
<1>1. ASSUME NEW i \in 1..PathLen PROVE From(i) \in Graph!Reach({target})
  <2> DEFINE q == [k \in 0..(i - 1) |-> From(k + 1)]
  <2>1. q[0] \in {target} /\ q[i - 1] = From(i)
    BY <1>0
  <2>2. ASSUME NEW k \in 1..(i - 1) PROVE q[k] \in Graph!JumpHosts(q[k - 1])
    <3>1. k \in 1..Len(hops) /\ q[k] = From(k + 1) /\ q[k - 1] = From(k)
      BY <1>0
    <3> QED
      BY <3>1, WalkOutcomes, OutcomeParts
  <2>3. i - 1 \in Nat /\ i - 1 <= Longest
    BY <1>0
  <2> HIDE DEF q
  <2>4. q[i - 1] \in Graph!Reach({target})
    BY <1>0, <2>1, <2>2, <2>3, ReachContains
  <2> QED
    BY <2>1, <2>4
<1> QED
  BY <1>0, <1>1 DEF OnPath

LEMMA ReachOfEnd ==
  ASSUME OnWalk, Graph!JumpHosts(current) = {}
  PROVE  Graph!Reach({target}) = OnPath
<1>0. /\ IsLoadedConfig(config) /\ IsFiniteSet(DOMAIN config.hosts) /\ PathLen \in Nat /\ PathLen >= 1
      /\ From(1) = target /\ current = From(PathLen) /\ PathLen - 1 = Len(hops)
  BY WalkFacts DEF PathLen
<1>1. ASSUME NEW i \in 1..PathLen PROVE Graph!JumpHosts(From(i)) \subseteq OnPath
  <2>1. CASE i = PathLen
    BY <1>0, <2>1
  <2>2. CASE i # PathLen
    <3>1. i \in 1..Len(hops) /\ i + 1 \in 1..PathLen
      BY <1>0, <2>2
    <3>2. Graph!JumpHosts(From(i)) = {From(i + 1)}
      BY <3>1, WalkOutcomes, OutcomeParts
    <3> QED
      BY <3>1, <3>2 DEF OnPath
  <2> QED
    BY <2>1, <2>2
<1>2. {target} \subseteq OnPath
  BY <1>0 DEF OnPath
<1>3. \A r \in OnPath : Graph!JumpHosts(r) \subseteq OnPath
  BY <1>1 DEF OnPath
<1>4. Graph!Reach({target}) \subseteq OnPath
  BY <1>0, <1>2, <1>3, PathIsReached, ReachWithin
<1> QED
  BY <1>4, PathIsReached

\* The target is no hop.
LEMMA TargetIsNoHop ==
  ASSUME OnWalk
  PROVE  OnPath \ {target} = {hops[i] : i \in 1..Len(hops)}
<1>0. /\ PathLen \in Nat /\ Len(hops) \in Nat /\ PathLen = Len(hops) + 1 /\ From(1) = target
      /\ \A i \in 1..PathLen : visited[i] = From(i).name
      /\ \A i, j \in 1..PathLen : visited[i] = visited[j] => i = j
      /\ \A i \in 1..Len(hops) : hops[i] = From(i + 1)
  BY WalkFacts DEF PathLen
<1>1. \A i \in 1..PathLen : From(i) = target => i = 1
  BY <1>0
<1>2. \A i \in 1..Len(hops) : i + 1 \in 1..PathLen /\ i + 1 # 1
  BY <1>0
<1>3. \A i \in 1..PathLen : i # 1 => i - 1 \in 1..Len(hops) /\ (i - 1) + 1 = i
  BY <1>0
<1>4. ASSUME NEW r \in OnPath \ {target} PROVE r \in {hops[i] : i \in 1..Len(hops)}
  <2>1. PICK i \in 1..PathLen : r = From(i)
    BY DEF OnPath
  <2>2. i # 1
    BY <1>0, <1>4, <2>1
  <2>3. r = hops[i - 1] /\ i - 1 \in 1..Len(hops)
    BY <1>0, <1>3, <2>1, <2>2
  <2> QED
    BY <2>3
<1>5. \A i \in 1..Len(hops) : hops[i] \in OnPath \ {target}
  BY <1>0, <1>1, <1>2 DEF OnPath
<1> QED
  BY <1>4, <1>5

LEMMA DirectMaps ==
  ASSUME OnWalk, IsDirect(Value)
  PROVE  Graph!Answer("chain", "", ToSet(Reverse(hops)), {}) \in Graph!ChainAnswers(target)
<1>1. Graph!EndsAt(current) /\ Graph!JumpHosts(current) = {}
  BY GraphTerms, OutcomeParts DEF Value
<1>2. Graph!Reach({target}) = OnPath
  BY <1>1, ReachOfEnd
<1>3. current \in OnPath
  BY WalkFacts DEF OnPath, PathLen
<1>4. ToSet(Reverse(hops)) = {hops[i] : i \in 1..Len(hops)}
  <2>1. hops \in Seq(Resolved) /\ Len(hops) \in Nat
    BY WalkFacts DEF OnWalk, QuietInv, IInv, TypeOK
  <2>2. /\ DOMAIN Reverse(hops) = 1..Len(hops)
        /\ \A i \in 1..Len(hops) : Reverse(hops)[i] = hops[(Len(hops) - i) + 1]
    BY <2>1, ReverseType
  <2>3. \A i \in 1..Len(hops) : /\ (Len(hops) - i) + 1 \in 1..Len(hops)
                               /\ (Len(hops) - ((Len(hops) - i) + 1)) + 1 = i
    BY <2>1
  <2>4. \A x \in ToSet(Reverse(hops)) : x \in {hops[i] : i \in 1..Len(hops)}
    BY <2>2, <2>3 DEF ToSet
  <2>5. \A i \in 1..Len(hops) : hops[i] = Reverse(hops)[(Len(hops) - i) + 1]
    BY <2>2, <2>3
  <2>6. \A i \in 1..Len(hops) : hops[i] \in ToSet(Reverse(hops))
    BY <2>2, <2>3, <2>5 DEF ToSet
  <2> QED
    BY <2>4, <2>6
<1>5. OnPath \ {target} = ToSet(Reverse(hops))
  BY <1>4, TargetIsNoHop
<1> QED
  BY <1>1, <1>2, <1>3, <1>5 DEF Graph!ChainAnswers

\* A broken link is the last one: all before it lead on.
LEMMA BrokenMaps ==
  ASSUME OnWalk, NEW k \in ResolveErrors \cup {"unsupported"},
         Graph!Outcomes(current) = {Failed(k)}
  PROVE  Graph!Answer(JumpKind(k), JumpNamed(k, Value), {}, {}) \in Graph!ChainAnswers(target)
<1>1. /\ ~Graph!EndsAt(current) /\ Graph!PointsAt(current) = Value
      /\ Graph!JumpHosts(current) = {} /\ Graph!Broken(current) = {k}
  BY GraphTerms, OutcomeParts DEF Value
<1>2. Graph!Reach({target}) = OnPath
  BY <1>1, ReachOfEnd
<1>3. current \in OnPath
  BY WalkFacts DEF OnPath, PathLen
<1>4. \A r \in OnPath : ~Graph!EndsAt(r)
  <2>1. /\ current = From(PathLen) /\ PathLen = Len(hops) + 1 /\ Len(hops) \in Nat
    BY WalkFacts DEF PathLen
  <2>2. \A i \in 1..PathLen : i = PathLen \/ i \in 1..Len(hops)
    BY <2>1
  <2> QED
    BY <1>1, <2>1, <2>2, WalkOutcomes DEF OnPath
<1>5. Graph!Reported(k) = JumpKind(k) /\ Graph!Named(k, current) = JumpNamed(k, Value)
  BY <1>1 DEF Graph!Reported, Graph!Named, JumpKind, JumpNamed, ResolveErrors, ChainErrors
<1>6. Graph!Answer(Graph!Reported(k), Graph!Named(k, current), {}, {})
        \in UNION {{Graph!Answer(Graph!Reported(e), Graph!Named(e, r), {}, {}) : e \in Graph!Broken(r)}
                   : r \in OnPath}
  BY <1>1, <1>3
<1> QED
  BY <1>1, <1>2, <1>3, <1>4, <1>5, <1>6 DEF Graph!ChainAnswers

(***************************************************************************)
(* A walk that comes back: `again' is the host at position j once more.    *)
(***************************************************************************)
Returns(again, j) ==
  /\ OnWalk /\ again \in Resolved
  /\ \E value \in Str : Found(again) \in Resolve(config, value)
  /\ Graph!Outcomes(current) = {Found(again)}
  /\ j \in 1..PathLen /\ visited[j] = again.name

\* What the host at a position jumps to.
NextHost(again, i) == IF i = PathLen THEN again ELSE From(i + 1)

LEMMA ReturnJumps ==
  ASSUME NEW again, NEW j, Returns(again, j)
  PROVE  /\ \A i \in 1..PathLen : /\ Graph!JumpHosts(From(i)) = {NextHost(again, i)}
                               /\ Graph!Broken(From(i)) = {} /\ ~Graph!EndsAt(From(i))
         /\ Graph!JumpHosts(again) = {NextHost(again, j)}
         /\ Graph!Broken(again) = {} /\ ~Graph!EndsAt(again)
<1>0. /\ current = From(PathLen) /\ PathLen = Len(hops) + 1 /\ Len(hops) \in Nat
      /\ \A i \in 1..PathLen : visited[i] = From(i).name
  BY WalkFacts DEF PathLen, Returns
<1>1. ASSUME NEW i \in 1..PathLen
      PROVE  /\ Graph!JumpHosts(From(i)) = {NextHost(again, i)}
             /\ Graph!Broken(From(i)) = {} /\ ~Graph!EndsAt(From(i))
  <2>1. CASE i = PathLen
    <3>1. ~Graph!EndsAt(current)
      <4>1. Graph!EndsAt(current) => Graph!Outcomes(current) = {}
        BY DEF Graph!Outcomes
      <4> QED
        BY <4>1 DEF Returns
    <3> QED
      BY <1>0, <2>1, <3>1, OutcomeParts DEF Returns, NextHost
  <2>2. CASE i # PathLen
    <3>1. i \in 1..Len(hops)
      BY <1>0, <2>2
    <3> QED
      BY <2>2, <3>1, WalkOutcomes, OutcomeParts DEF Returns, NextHost
  <2> QED
    BY <2>1, <2>2
<1>2. again.proxyJump = From(j).proxyJump
  <2>1. PICK value \in Str : Found(again) \in Resolve(config, value)
    BY DEF Returns
  <2>2. \E a : Found(From(j)) \in Resolve(config, a)
    <3>1. CASE j = 1
      BY <3>1 DEF From, Returns, OnWalk, QuietInv, Followed
    <3>2. CASE j # 1
      <4>1. j - 1 \in 1..Len(hops) /\ From(j) = hops[j - 1]
        BY <1>0, <3>2 DEF From, Returns
      <4> QED
        BY <4>1 DEF Returns, OnWalk, QuietInv, Followed
    <3> QED
      BY <3>1, <3>2
  <2>3. PICK a : Found(From(j)) \in Resolve(config, a)
    BY <2>2
  <2>4. again.name = From(j).name /\ DOMAIN config.hosts \cap DirectAddress = {}
    BY <1>0 DEF Returns, OnWalk, Plain, NamesAreBare
  <2>5. \/ value \in DirectAddress /\ again.name = value /\ again.proxyJump = ""
        \/ value \notin DirectAddress /\ again.name \in DOMAIN config.hosts
           /\ again.proxyJump = config.hosts[again.name].proxyJump
    BY <2>1, FoundEntry
  <2>6. \/ a \in DirectAddress /\ From(j).name = a /\ From(j).proxyJump = ""
        \/ a \notin DirectAddress /\ From(j).name \in DOMAIN config.hosts
           /\ From(j).proxyJump = config.hosts[From(j).name].proxyJump
    BY <2>3, FoundEntry
  <2> QED
    BY <2>4, <2>5, <2>6
<1>3. Graph!Outcomes(again) = Graph!Outcomes(From(j)) /\ (Graph!EndsAt(again) <=> Graph!EndsAt(From(j)))
  BY <1>2 DEF Graph!Outcomes, Graph!EndsAt, Graph!PointsAt
<1>4. Graph!JumpHosts(again) = Graph!JumpHosts(From(j)) /\ Graph!Broken(again) = Graph!Broken(From(j))
  BY <1>3 DEF Graph!JumpHosts, Graph!Broken
<1>5. j \in 1..PathLen
  BY DEF Returns
<1> QED
  BY <1>1, <1>3, <1>4, <1>5

\* All of the walk is reached, and nothing else.
LEMMA ReachOfReturn ==
  ASSUME NEW again, NEW j, Returns(again, j)
  PROVE  Graph!Reach({target}) = OnPath \cup {again}
<1> DEFINE around == OnPath \cup {again}
<1>0. /\ IsLoadedConfig(config) /\ IsFiniteSet(DOMAIN config.hosts) /\ PathLen \in Nat /\ PathLen >= 1
      /\ From(1) = target /\ PathLen + 2 <= Longest /\ Longest \in Nat /\ j \in 1..PathLen
      /\ OnPath \subseteq Graph!Reach({target}) /\ {target} \in SUBSET Resolved
  <2>1. OnWalk /\ j \in 1..PathLen
    BY DEF Returns
  <2>2. /\ IsLoadedConfig(config) /\ IsFiniteSet(DOMAIN config.hosts) /\ From(1) = target
        /\ PathLen = Len(hops) + 1 /\ Len(hops) \in Nat
    BY <2>1, WalkFacts DEF PathLen
  <2>3. Longest \in Nat /\ PathLen + 2 <= Longest
    BY <2>1, <2>2, WalkIsShort, LongestType
  <2>4. OnPath \subseteq Graph!Reach({target}) /\ {target} \in SUBSET Resolved
    BY <2>1, PathIsReached
  <2>5. PathLen \in Nat /\ PathLen >= 1
    BY <2>2
  <2> QED
    BY <2>1, <2>2, <2>3, <2>4, <2>5, Zenon
<1>1. ASSUME NEW i \in 1..PathLen PROVE NextHost(again, i) \in around
  BY <1>0 DEF NextHost, OnPath
<1>2. \A r \in around : Graph!JumpHosts(r) \subseteq around
  <2>1. \A i \in 1..PathLen : Graph!JumpHosts(From(i)) \subseteq around
    BY <1>1, ReturnJumps
  <2>2. Graph!JumpHosts(again) \subseteq around
    BY <1>0, <1>1, ReturnJumps
  <2> QED
    BY <2>1, <2>2 DEF OnPath
<1>3. {target} \subseteq around
  BY <1>0 DEF OnPath
<1>4. Graph!Reach({target}) \subseteq around
  BY <1>0, <1>2, <1>3, ReachWithin
<1>5. again \in Graph!Reach({target})
  <2> DEFINE q == [k \in 0..PathLen |-> IF k = PathLen THEN again ELSE From(k + 1)]
  <2>1. q[0] \in {target} /\ q[PathLen] = again
    BY <1>0
  <2>2. ASSUME NEW k \in 1..PathLen PROVE q[k] \in Graph!JumpHosts(q[k - 1])
    <3>1. q[k - 1] = From(k) /\ q[k] = NextHost(again, k)
      BY <1>0 DEF NextHost
    <3> QED
      BY <3>1, ReturnJumps
  <2>3. PathLen \in Nat /\ PathLen <= Longest
    BY <1>0
  <2> HIDE DEF q
  <2>4. q[PathLen] \in Graph!Reach({target})
    BY <1>0, <2>1, <2>2, <2>3, ReachContains
  <2> QED
    BY <2>1, <2>4
<1> QED
  BY <1>0, <1>4, <1>5

\* The hosts before the one it comes back to are behind it: no tail is a cycle.
LEMMA TailIsNoCycle ==
  ASSUME NEW again, NEW j, Returns(again, j), NEW i \in 1..PathLen, i < j
  PROVE  ~Graph!OnCycle(From(i))
<1> DEFINE ahead == {From(k) : k \in (i + 1)..PathLen} \cup {again}
<1>0. OnWalk /\ j \in 1..PathLen /\ again \in Resolved /\ visited[j] = again.name
  BY DEF Returns
<1>1. /\ IsLoadedConfig(config) /\ IsFiniteSet(DOMAIN config.hosts)
      /\ PathLen = Len(hops) + 1 /\ Len(hops) \in Nat
      /\ \A k \in 1..PathLen : From(k) \in Resolved /\ visited[k] = From(k).name
      /\ \A k, l \in 1..PathLen : visited[k] = visited[l] => k = l
  BY <1>0, WalkFacts DEF PathLen
<1>2. \A k \in i..PathLen : NextHost(again, k) \in ahead /\ k \in 1..PathLen
  BY <1>1 DEF NextHost
<1>3. Graph!JumpHosts(From(i)) \subseteq ahead /\ Graph!JumpHosts(From(i)) \in SUBSET Resolved
  <2>1. i \in i..PathLen
    BY <1>1
  <2>2. NextHost(again, i) \in Resolved
    BY <1>0, <1>1 DEF NextHost
  <2> QED
    BY <1>2, <2>1, <2>2, ReturnJumps
<1>4. \A r \in ahead : Graph!JumpHosts(r) \subseteq ahead
  <2>1. \A k \in (i + 1)..PathLen : Graph!JumpHosts(From(k)) \subseteq ahead
    <3>1. \A k \in (i + 1)..PathLen : k \in i..PathLen
      BY <1>1
    <3> QED
      BY <1>2, <3>1, ReturnJumps
  <2>2. Graph!JumpHosts(again) \subseteq ahead
    <3>1. j \in i..PathLen
      BY <1>0, <1>1
    <3> QED
      BY <1>2, <3>1, ReturnJumps
  <2> QED
    BY <2>1, <2>2
<1>5. Graph!Reach(Graph!JumpHosts(From(i))) \subseteq ahead
  <2> HIDE DEF ahead
  <2> QED BY <1>1, <1>3, <1>4, ReachWithin
<1>6. \A r \in ahead : r.name # visited[i]
  <2>1. \A k \in (i + 1)..PathLen : k \in 1..PathLen /\ k # i
    BY <1>1
  <2>2. j # i
    OBVIOUS
  <2> QED
    BY <1>0, <1>1, <2>1, <2>2
<1> QED
  BY <1>1, <1>5, <1>6 DEF Graph!OnCycle

\* From there on, every host leads back to itself.
LEMMA LoopIsCycle ==
  ASSUME NEW again, NEW j, Returns(again, j), NEW i \in 1..PathLen, j <= i
  PROVE  Graph!OnCycle(From(i))
<1> DEFINE p == [n \in Nat |-> IF n <= PathLen THEN From(n)
                               ELSE IF n = PathLen + 1 THEN again
                               ELSE From((n - PathLen) - 1 + j)]
           q == [k \in Nat |-> p[i + 1 + k]]
           m == PathLen - j
<1>0. OnWalk /\ j \in 1..PathLen /\ again \in Resolved /\ visited[j] = again.name
  BY DEF Returns
<1>1. /\ IsLoadedConfig(config) /\ IsFiniteSet(DOMAIN config.hosts)
      /\ PathLen = Len(hops) + 1 /\ Len(hops) \in Nat /\ PathLen \in Nat
      /\ \A k \in 1..PathLen : From(k) \in Resolved /\ visited[k] = From(k).name
  BY <1>0, WalkFacts DEF PathLen
<1>2. ASSUME NEW n \in Nat, 1 <= n, n <= PathLen + m
      PROVE  p[n + 1] \in Graph!JumpHosts(p[n])
  <2>0. n + 1 \in Nat
    OBVIOUS
  <2>1. CASE n <= PathLen
    <3>1. n \in 1..PathLen /\ p[n] = From(n)
      BY <1>2, <2>1
    <3>2. p[n + 1] = NextHost(again, n)
      BY <1>1, <1>2, <2>0, <2>1 DEF NextHost
    <3> HIDE DEF p
    <3> QED BY <3>1, <3>2, ReturnJumps
  <2>2. CASE n = PathLen + 1
    <3>1. p[n] = again /\ j # PathLen /\ (n + 1 - PathLen) - 1 + j = j + 1
      BY <1>0, <1>1, <1>2, <2>2
    <3>2. p[n + 1] = NextHost(again, j)
      <4> DEFINE next == (n + 1 - PathLen) - 1 + j
      <4>1. ~(n + 1 <= PathLen) /\ n + 1 # PathLen + 1
        BY <1>1, <2>2
      <4>2. p[n + 1] = From(next)
        BY <1>0, <1>1, <2>0, <4>1
      <4>3. next = j + 1
        BY <3>1
      <4> HIDE DEF p, next
      <4> QED BY <3>1, <4>2, <4>3 DEF NextHost
    <3> HIDE DEF p
    <3> QED BY <3>1, <3>2, ReturnJumps
  <2>3. CASE n > PathLen + 1
    <3> DEFINE k == (n - PathLen) - 1 + j
    <3>1. k \in 1..PathLen /\ k # PathLen /\ (n + 1 - PathLen) - 1 + j = k + 1 /\ p[n] = From(k)
      <4>1. j \in Nat /\ 1 <= j /\ j <= PathLen
        BY <1>0, <1>1
      <4>2. k \in Nat /\ 1 <= k /\ k < PathLen /\ (n + 1 - PathLen) - 1 + j = k + 1
        BY <1>1, <1>2, <2>3, <4>1
      <4>3. p[n] = From(k)
        BY <1>1, <2>3
      <4> HIDE DEF p, k
      <4> QED BY <1>1, <4>2, <4>3
    <3>2. p[n + 1] = NextHost(again, k)
      <4> DEFINE next == (n + 1 - PathLen) - 1 + j
      <4>1. ~(n + 1 <= PathLen) /\ n + 1 # PathLen + 1
        BY <1>1, <2>3
      <4>2. p[n + 1] = From(next)
        BY <1>0, <1>1, <2>0, <4>1
      <4>3. next = k + 1
        BY <3>1
      <4> HIDE DEF p, next, k
      <4> QED BY <3>1, <4>2, <4>3 DEF NextHost
    <3> HIDE DEF p, k
    <3> QED BY <3>1, <3>2, ReturnJumps
  <2> QED
    BY <1>1, <2>1, <2>2, <2>3
<1>3. m \in Nat /\ m <= Longest
  BY <1>0, <1>1, WalkIsShort, LongestType
<1>4. Graph!JumpHosts(From(i)) = {NextHost(again, i)} /\ NextHost(again, i) \in Resolved
  BY <1>0, <1>1, ReturnJumps DEF NextHost
<1>5. q[0] \in Graph!JumpHosts(From(i))
  <2>1. i \in Nat /\ i + 1 + 0 = i + 1 /\ i + 1 \in Nat
    BY <1>1
  <2>2. p[i + 1] = NextHost(again, i)
    BY <1>1, <2>1 DEF NextHost
  <2> QED
    BY <1>4, <2>1, <2>2
<1>6. ASSUME NEW k \in 1..m PROVE q[k] \in Graph!JumpHosts(q[k - 1])
  <2>1. /\ i + k \in Nat /\ 1 <= i + k /\ i + k <= PathLen + m /\ k \in Nat /\ k - 1 \in Nat
        /\ i + 1 + k = (i + k) + 1 /\ i + 1 + (k - 1) = i + k
    BY <1>1, <1>3
  <2>2. q[k] = p[(i + k) + 1] /\ q[k - 1] = p[i + k]
    BY <2>1
  <2> HIDE DEF p, q
  <2> QED BY <1>2, <2>1, <2>2
<1>7. q[m].name = visited[i]
  <2>1. i + 1 + m \in Nat /\ i + 1 + m >= PathLen + 1
    BY <1>0, <1>1, <1>3
  <2>2. CASE i = j
    <3>1. i + 1 + m = PathLen + 1
      BY <1>0, <1>1, <2>2
    <3>2. q[m] = again
      BY <1>1, <1>3, <2>1, <3>1
    <3> QED
      BY <1>0, <2>2, <3>2
  <2>3. CASE i # j
    <3>1. i + 1 + m > PathLen + 1 /\ ((i + 1 + m) - PathLen) - 1 + j = i
      BY <1>0, <1>1, <2>3
    <3>2. q[m] = From(i)
      BY <1>1, <1>3, <2>1, <3>1
    <3> QED
      BY <1>1, <3>2
  <2> QED
    BY <2>2, <2>3
<1>8. q[m] \in Graph!Reach(Graph!JumpHosts(From(i)))
  <2>1. Graph!JumpHosts(From(i)) \in SUBSET Resolved
    BY <1>4
  <2> HIDE DEF p, q, m
  <2> QED BY <1>1, <1>3, <1>5, <1>6, <2>1, ReachContains
<1> HIDE DEF p, q, m
<1> QED
  BY <1>1, <1>7, <1>8 DEF Graph!OnCycle

LEMMA LoopMaps ==
  ASSUME NEW again, NEW j, Returns(again, j)
  PROVE  Graph!Answer("loop", "", {}, {visited[i] : i \in j..PathLen}) \in Graph!ChainAnswers(target)
<1> DEFINE reach == OnPath \cup {again}
           cyclic == {r.name : r \in {s \in reach : Graph!OnCycle(s)}}
<1>0. OnWalk /\ j \in 1..PathLen /\ again \in Resolved /\ visited[j] = again.name
  BY DEF Returns
<1>1. /\ PathLen \in Nat
      /\ \A k \in 1..PathLen : From(k) \in Resolved /\ visited[k] = From(k).name
      /\ \A k, l \in 1..PathLen : visited[k] = visited[l] => k = l
  BY <1>0, WalkFacts DEF PathLen
<1>2. Graph!Reach({target}) = reach
  BY ReachOfReturn
<1>3. \A r \in reach : ~Graph!EndsAt(r) /\ Graph!Broken(r) = {}
  BY ReturnJumps DEF OnPath
<1>4. Graph!OnCycle(again) <=> Graph!OnCycle(From(j))
  <2>1. Graph!JumpHosts(again) = Graph!JumpHosts(From(j))
    BY <1>0, ReturnJumps
  <2> QED
    BY <1>0, <1>1, <2>1 DEF Graph!OnCycle
<1>5. \A i \in 1..PathLen : Graph!OnCycle(From(i)) <=> j <= i
  <2>1. \A i \in 1..PathLen : j <= i => Graph!OnCycle(From(i))
    BY LoopIsCycle
  <2>2. \A i \in 1..PathLen : i < j => ~Graph!OnCycle(From(i))
    BY TailIsNoCycle
  <2> QED
    BY <1>0, <1>1, <2>1, <2>2
<1>6. cyclic = {visited[i] : i \in j..PathLen}
  <2>1. \A i \in j..PathLen : i \in 1..PathLen /\ j <= i
    BY <1>0, <1>1
  <2>2. \A i \in 1..PathLen : j <= i => i \in j..PathLen
    BY <1>0, <1>1
  <2>3. ASSUME NEW i \in j..PathLen PROVE visited[i] \in cyclic
    <3>1. From(i) \in reach /\ Graph!OnCycle(From(i)) /\ visited[i] = From(i).name
      BY <1>1, <1>5, <2>1 DEF OnPath
    <3> QED
      BY <3>1
  <2>4. ASSUME NEW r \in reach, Graph!OnCycle(r)
        PROVE  r.name \in {visited[i] : i \in j..PathLen}
    <3>1. CASE r = again
      <4>1. j \in j..PathLen
        BY <1>0, <1>1
      <4> QED
        BY <1>0, <3>1, <4>1
    <3>2. CASE r # again
      <4>1. PICK i \in 1..PathLen : r = From(i)
        BY <2>4, <3>2 DEF OnPath
      <4>2. i \in j..PathLen
        BY <1>5, <2>2, <2>4, <4>1
      <4> QED
        BY <1>1, <4>1, <4>2
    <3> QED
      BY <3>1, <3>2
  <2> QED
    BY <2>3, <2>4
<1>7. Graph!ChainAnswers(target) = {Graph!Answer("loop", "", {}, cyclic)}
  <2> HIDE DEF reach
  <2>1. /\ ~ \E r \in Graph!Reach({target}) : Graph!EndsAt(r)
        /\ ~ \E r \in Graph!Reach({target}) : Graph!Broken(r) # {}
    BY <1>2, <1>3
  <2> QED BY <1>2, <2>1 DEF Graph!ChainAnswers
<1> HIDE DEF cyclic
<1> QED
  BY <1>6, <1>7

\* The loop that is reported holds the hosts from where it comes back to.
LEMMA CycleNames ==
  ASSUME visited \in Seq(Str), VisitedOnce, NEW j \in 1..Len(visited),
         NEW name \in Str, visited[j] = name
  PROVE  ToSet(Cycle(name)) = {visited[i] : i \in j..Len(visited)}
<1> DEFINE first == CHOOSE i \in 1..Len(visited) :
                      visited[i] = name /\ \A k \in 1..(i - 1) : visited[k] # name
           tail == SubSeq(visited, j, Len(visited))
<1>1. first = j
  <2>1. \A k \in 1..(j - 1) : visited[k] # name
    BY DEF VisitedOnce
  <2>2. \A i \in 1..Len(visited) : visited[i] = name => i = j
    BY DEF VisitedOnce
  <2> QED
    BY <2>1, <2>2
<1>2. /\ tail \in Seq(Str) /\ Len(visited) \in Nat
      /\ Len(tail) = Len(visited) - j + 1
      /\ \A i \in 1..Len(tail) : tail[i] = visited[j + i - 1]
  <2>1. \A i \in j..Len(visited) : visited[i] \in Str
    OBVIOUS
  <2> QED
    BY <2>1, SubSeqProperties
<1>3. Cycle(name) = Append(tail, name)
  BY <1>1 DEF Cycle
<1> HIDE DEF tail
<1>4. /\ DOMAIN Append(tail, name) = 1..(Len(tail) + 1)
      /\ \A i \in 1..Len(tail) : Append(tail, name)[i] = visited[j + i - 1]
      /\ Append(tail, name)[Len(tail) + 1] = name
  <2>1. tail \in Seq(Str)
    BY <1>2
  <2>2. Append(tail, name) \in Seq(Str) /\ Len(Append(tail, name)) = Len(tail) + 1
    BY <2>1, AppendProperties
  <2>3. /\ \A i \in 1..Len(tail) : Append(tail, name)[i] = tail[i]
        /\ Append(tail, name)[Len(tail) + 1] = name
    BY <2>1, AppendProperties
  <2> QED
    BY <1>2, <2>2, <2>3
<1>5. \A i \in 1..Len(tail) : j + i - 1 \in j..Len(visited)
  BY <1>2
<1>6. \A i \in j..Len(visited) : (i - j) + 1 \in 1..Len(tail) /\ j + ((i - j) + 1) - 1 = i
  BY <1>2
<1>7. j \in j..Len(visited) /\ \A i \in 1..(Len(tail) + 1) : i \in 1..Len(tail) \/ i = Len(tail) + 1
  <2>1. Len(tail) \in Nat /\ j \in Nat /\ j <= Len(visited) /\ Len(visited) \in Nat
    BY <1>2
  <2>2. \A n \in Nat : \A i \in 1..(n + 1) : i \in 1..n \/ i = n + 1
    OBVIOUS
  <2> QED
    BY <2>1, <2>2
<1>8. ASSUME NEW i \in 1..(Len(tail) + 1)
      PROVE  Append(tail, name)[i] \in {visited[k] : k \in j..Len(visited)}
  <2>1. CASE i \in 1..Len(tail)
    BY <1>4, <1>5, <2>1
  <2>2. CASE i = Len(tail) + 1
    BY <1>4, <1>7, <2>2
  <2> QED
    BY <1>7, <2>1, <2>2
<1>9. \A i \in j..Len(visited) :
        visited[i] \in {Append(tail, name)[k] : k \in 1..(Len(tail) + 1)}
  <2>1. \A i \in j..Len(visited) : visited[i] = Append(tail, name)[(i - j) + 1]
    BY <1>4, <1>6
  <2>2. \A i \in 1..Len(tail) : i \in 1..(Len(tail) + 1)
    BY <1>2
  <2> QED
    BY <1>6, <2>1, <2>2
<1>10. ToSet(Cycle(name)) = {Append(tail, name)[k] : k \in 1..(Len(tail) + 1)}
  BY <1>3, <1>4 DEF ToSet
<1> QED
  BY <1>8, <1>9, <1>10

-----------------------------------------------------------------------------
(***************************************************************************)
(* Every step of the walk is a step of the graph: it replies, or stutters. *)
(***************************************************************************)
AnswerOf(v) == Graph!Answer(v.kind, v.jump, ToSet(v.chain), ToSet(v.path))

LEMMA AnswerOfVerdict ==
  ASSUME NEW k, NEW jump, NEW path, NEW chain
  PROVE  AnswerOf(Verdict(k, jump, path, chain)) = Graph!Answer(k, jump, ToSet(chain), ToSet(path))
BY DEF AnswerOf, Verdict

LEMMA NothingYet == ToSet(<<>>) = {} /\ AnswerOf(Pending) = Graph!Unanswered
<1>1. ToSet(<<>>) = {}
  BY DEF ToSet
<1> QED
  BY <1>1 DEF AnswerOf, Pending, Verdict, Graph!Unanswered

\* A verdict that the graph holds is its reply.
LEMMA Replies ==
  ASSUME verdict = Pending, UNCHANGED <<config, addressed>>,
         verdict'.kind # "none", AnswerOf(verdict') \in Graph!Answers
  PROVE  Graph!Reply
<1>1. AnswerOf(verdict) = Graph!Unanswered
  BY NothingYet
<1>2. AnswerOf(verdict').kind # "none"
  BY DEF AnswerOf, Graph!Answer
<1>3. Graph!Unanswered.kind = "none"
  BY DEF Graph!Unanswered, Graph!Answer
<1>4. AnswerOf(verdict) = Graph!Unanswered /\ AnswerOf(verdict') # Graph!Unanswered
  BY <1>1, <1>2, <1>3
<1>5. /\ AnswerOf(verdict) = [kind |-> verdict.kind, jump |-> verdict.jump,
                              chain |-> ToSet(verdict.chain), cycle |-> ToSet(verdict.path)]
      /\ AnswerOf(verdict') = [kind |-> verdict'.kind, jump |-> verdict'.jump,
                               chain |-> ToSet(verdict'.chain), cycle |-> ToSet(verdict'.path)]
  BY DEF AnswerOf, Graph!Answer
<1> HIDE DEF AnswerOf
<1> QED
  BY <1>4, <1>5, Zenon DEF Graph!Reply

\* What the target's chain may say is what may be answered.
LEMMA ChainAnswersCount ==
  ASSUME NEW c, NEW a, NEW r, Found(r) \in Resolve(c, a), c = config, a = addressed
  PROVE  Graph!ChainAnswers(r) \subseteq Graph!Answers
<1>1. Found(r).kind = "ok" /\ Found(r).host = r /\ Found(r) \in Graph!Resolve(config, addressed)
  BY SameResolve DEF Found
<1> HIDE DEF Found
<1> QED
  BY <1>1 DEF Graph!Answers

LEMMA WalkStep ==
  ASSUME QuietInv, Plain, Step
  PROVE  Graph!Reply \/ UNCHANGED Graph!vars
<1>0. IInv /\ TypeOK /\ WalkTracked /\ Followed /\ VisitedOnce
  BY DEF QuietInv, IInv
<1>1. CASE ResolveTarget \/ ExtendChain
  <2>1. UNCHANGED <<config, addressed, verdict>>
    BY <1>1 DEF ResolveTarget, ExtendChain, file
  <2> QED
    BY <2>1 DEF Graph!vars
<1>2. CASE FailTarget
  <2>1. PICK o \in Resolve(config, addressed) :
          o.kind # "ok" /\ verdict' = Verdict(o.kind, "", <<>>, <<>>)
    BY <1>2 DEF FailTarget, Finish
  <2>2. pc = "start" /\ UNCHANGED <<config, addressed>>
    BY <1>2 DEF FailTarget, file
  <2>3. verdict = Pending
    BY <1>0, <2>2 DEF IInv, VerdictTracked
  <2>4. o.kind \in ResolveErrors
    BY <1>0, <2>1, ResolveType DEF TypeOK
  <2>5. verdict'.kind # "none" /\ AnswerOf(verdict') = Graph!Answer(o.kind, "", {}, {})
    <3>1. verdict'.kind # "none"
      BY <2>1, <2>4 DEF Verdict, ResolveErrors
    <3>2. AnswerOf(verdict') = Graph!Answer(o.kind, "", {}, {})
      BY <2>1, AnswerOfVerdict, NothingYet
    <3> QED
      BY <3>1, <3>2
  <2>6. Graph!Answer(o.kind, "", {}, {}) \in Graph!Answers
    <3>1. o \in Graph!Resolve(config, addressed)
      BY SameResolve
    <3> QED
      BY <2>1, <3>1 DEF Graph!Answers
  <2> QED
    BY <2>2, <2>3, <2>5, <2>6, Replies
<1>3. CASE ReachDirect \/ RejectSpelling \/ FailHop \/ CloseLoop
  <2>1. pc = "walk" /\ UNCHANGED <<config, addressed>>
    BY <1>3 DEF ReachDirect, RejectSpelling, FailHop, CloseLoop, JumpOutcomes, file
  <2>2. verdict = Pending /\ OnWalk /\ Found(target) \in Resolve(config, addressed)
    BY <1>0, <2>1 DEF IInv, VerdictTracked, OnWalk, WalkTracked, Followed
  <2>3. SUFFICES ASSUME TRUE
                 PROVE  verdict'.kind # "none" /\ AnswerOf(verdict') \in Graph!ChainAnswers(target)
    BY <2>1, <2>2, ChainAnswersCount, Replies
  <2>4. Value = TrimSpace[current.proxyJump]
    BY DEF Value
  <2>5. CASE ReachDirect
    <3>1. IsDirect(Value) /\ verdict' = Verdict("chain", "", <<>>, Reverse(hops))
      BY <2>5 DEF ReachDirect, Finish, DialOrder
    <3>2. /\ verdict'.kind = "chain"
          /\ AnswerOf(verdict') = Graph!Answer("chain", "", ToSet(Reverse(hops)), {})
      BY <3>1, AnswerOfVerdict, NothingYet DEF Verdict
    <3> QED
      BY <2>2, <3>1, <3>2, DirectMaps
  <2>6. CASE RejectSpelling
    <3>1. ~IsDirect(Value) /\ ~Supported(Value) /\ verdict' = Verdict("unsupported", Value, <<>>, <<>>)
      BY <2>6 DEF RejectSpelling, Finish
    <3>2. /\ verdict'.kind = "unsupported"
          /\ AnswerOf(verdict') = Graph!Answer("unsupported", Value, {}, {})
      BY <3>1, AnswerOfVerdict, NothingYet DEF Verdict
    <3>3. Graph!Outcomes(current) = {Failed("unsupported")}
          /\ JumpKind("unsupported") = "unsupported" /\ JumpNamed("unsupported", Value) = Value
      BY <2>4, <3>1, GraphTerms DEF JumpKind, JumpNamed, ChainErrors
    <3>4. Graph!Answer(JumpKind("unsupported"), JumpNamed("unsupported", Value), {}, {})
            \in Graph!ChainAnswers(target)
      BY <2>2, <3>3, BrokenMaps
    <3> QED
      BY <3>2, <3>3, <3>4
  <2>7. CASE FailHop \/ CloseLoop
    <3>1. PICK o \in JumpOutcomes :
            IF o.kind # "ok"
            THEN verdict' = Verdict(JumpKind(o.kind), JumpNamed(o.kind, Value), <<>>, <<>>)
            ELSE /\ IsVisited(o.host.name)
                 /\ verdict' = Verdict("loop", "", Cycle(o.host.name), <<>>)
      BY <2>7 DEF FailHop, CloseLoop, Finish
    <3>2. ~IsDirect(Value) /\ Supported(Value) /\ o \in Resolve(config, Value)
      BY <3>1 DEF JumpOutcomes
    <3>3. /\ Value \in Str /\ o.kind \in {"ok"} \cup ResolveErrors
          /\ o.kind = "ok" => o.host \in Resolved
      BY <1>0, <3>1, JumpOutcomesType
    <3>4. Graph!Outcomes(current) = {o}
      <4>1. Graph!Outcomes(current) = Resolve(config, Value)
        BY <2>4, <3>2, GraphTerms
      <4>2. Value # ""
        BY <3>2 DEF IsDirect
      <4>3. \A p \in Resolve(config, Value) : p = o
        BY <3>2, <4>2, OneOutcome DEF Plain
      <4> QED
        BY <3>2, <4>1, <4>3
    <3>5. CASE o.kind # "ok"
      <4>1. o = Failed(o.kind)
        BY <3>2, <3>5, OutcomeFailed
      <4>2. o.kind \in ResolveErrors \cup {"unsupported"} /\ Graph!Outcomes(current) = {Failed(o.kind)}
        BY <3>3, <3>4, <3>5, <4>1
      <4> DEFINE jump == JumpNamed(o.kind, Value)
      <4>3. Graph!Answer(JumpKind(o.kind), jump, {}, {}) \in Graph!ChainAnswers(target)
        BY <2>2, <4>2, BrokenMaps
      <4>4. verdict' = Verdict(JumpKind(o.kind), jump, <<>>, <<>>) /\ JumpKind(o.kind) # "none"
        BY <3>1, <3>3, <3>5 DEF JumpKind, ResolveErrors
      <4> HIDE DEF jump
      <4>5. AnswerOf(verdict') = Graph!Answer(JumpKind(o.kind), jump, {}, {})
        BY <4>4, AnswerOfVerdict, NothingYet
      <4>6. verdict'.kind # "none"
        BY <4>4 DEF Verdict
      <4> QED
        BY <4>3, <4>5, <4>6
    <3>6. CASE o.kind = "ok"
      <4>1. o = Found(o.host) /\ o.host \in Resolved
        BY <3>2, <3>3, <3>6, OutcomeShape
      <4>2. /\ IsVisited(o.host.name)
            /\ verdict' = Verdict("loop", "", Cycle(o.host.name), <<>>)
        BY <3>1, <3>6
      <4>3. PICK j \in 1..Len(visited) : visited[j] = o.host.name
        BY <4>2 DEF IsVisited
      <4>4. Len(visited) = PathLen
        BY <2>2, WalkFacts
      <4>5. Returns(o.host, j)
        <5>1. Found(o.host) \in Resolve(config, Value)
          BY <3>2, <4>1
        <5>2. \E value \in Str : Found(o.host) \in Resolve(config, value)
          BY <3>3, <5>1
        <5>3. Graph!Outcomes(current) = {Found(o.host)}
          BY <3>4, <4>1
        <5> QED
          BY <2>2, <4>1, <4>3, <4>4, <5>2, <5>3 DEF Returns
      <4>6. Graph!Answer("loop", "", {}, {visited[i] : i \in j..PathLen}) \in Graph!ChainAnswers(target)
        BY <4>5, LoopMaps
      <4>7. ToSet(Cycle(o.host.name)) = {visited[i] : i \in j..PathLen}
        <5>1. visited \in Seq(Str)
          BY <1>0 DEF TypeOK
        <5>2. o.host.name \in Str
          BY <4>1 DEF Resolved
        <5> QED
          BY <1>0, <4>3, <4>4, <5>1, <5>2, CycleNames
      <4>8. AnswerOf(verdict') = Graph!Answer("loop", "", {}, {visited[i] : i \in j..PathLen})
        BY <4>2, <4>7, AnswerOfVerdict, NothingYet
      <4>9. verdict'.kind = "loop"
        BY <4>2 DEF Verdict
      <4> QED
        BY <4>6, <4>8, <4>9
    <3> QED
      BY <3>5, <3>6
  <2> QED
    BY <1>3, <2>5, <2>6, <2>7
<1>4. CASE ShowList \/ NothingToShow
  BY <1>4 DEF QuietInv, ShowList, NothingToShow
<1> QED
  BY <1>1, <1>2, <1>3, <1>4 DEF Step

\* And it starts where the graph does.
LEMMA WalkStarts ==
  ASSUME config \in Configs, NEW argument \in Addressed, Begin("start", argument)
  PROVE  Graph!Init
<1>1. addressed \in Addressed /\ verdict = Pending
  BY DEF Begin
<1>2. [kind |-> verdict.kind, jump |-> verdict.jump, chain |-> ToSet(verdict.chain),
       cycle |-> ToSet(verdict.path)] = Graph!Unanswered
  BY <1>1, NothingYet DEF AnswerOf, Graph!Answer
<1> QED
  BY <1>1, <1>2 DEF Graph!Init
=============================================================================
