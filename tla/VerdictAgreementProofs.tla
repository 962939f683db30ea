----------------------- MODULE VerdictAgreementProofs -----------------------
(***************************************************************************)
(* What is proved of `info' and a connection on the same file: the walk's  *)
(* verdict is the jump graph's, and both walks reach the same one.         *)
(***************************************************************************)
EXTENDS VerdictAgreement, Induction, SequenceTheorems, FiniteSetTheorems, TLAPS

\* Each walk is the one JumpChainProofs is about.
InfoWalk == INSTANCE JumpChainProofs WITH
  pc <- infoPc, target <- infoTarget, current <- infoCurrent,
  hops <- infoHops, visited <- infoVisited, verdict <- infoVerdict,
  listed <- {}, row <- ""

DialWalk == INSTANCE JumpChainProofs WITH
  pc <- dialPc, target <- dialTarget, current <- dialCurrent,
  hops <- dialHops, visited <- dialVisited, verdict <- dialVerdict,
  listed <- {}, row <- ""

-----------------------------------------------------------------------------
(***************************************************************************)
(* The two instances of JumpChain a walk has here, VerdictAgreement's and  *)
(* the one the lemmas are about, say the same.                             *)
(***************************************************************************)

LEMMA InfoStep == Info!Step <=> InfoWalk!Step
BY Zenon DEF
  Info!Step, Info!ShowList, Info!NothingToShow, Info!ResolveTarget, Info!FailTarget,
  Info!ReachDirect, Info!RejectSpelling, Info!FailHop, Info!CloseLoop, Info!ExtendChain,
  Info!HostList, Info!Finish, Info!Verdict, Info!IsDirect, Info!Value, Info!JumpNamed, Info!ChainErrors,
  Info!JumpKind,
  Info!Supported, Info!DialOrder, Info!Reverse, Info!JumpOutcomes, Info!IsVisited,
  Info!Cycle, Info!file, Info!menu, Info!Resolve, Info!ResolveDirectAddress,
  Info!ResolveNamedHost, Info!ResolveEntry, Info!Entries, Info!FindByAlias, Info!Failed,
  Info!Found, Info!NoMeta, Info!NewResolved, Info!OrDefault, Info!CredentialKeys,
  Info!AddKey, Info!ZeroHost, Info!DeriveSource, InfoWalk!Step, InfoWalk!ShowList,
  InfoWalk!NothingToShow, InfoWalk!ResolveTarget, InfoWalk!FailTarget,
  InfoWalk!ReachDirect, InfoWalk!RejectSpelling, InfoWalk!FailHop, InfoWalk!CloseLoop,
  InfoWalk!ExtendChain, InfoWalk!HostList, InfoWalk!Finish, InfoWalk!Verdict,
  InfoWalk!IsDirect, InfoWalk!Value, InfoWalk!JumpNamed, InfoWalk!ChainErrors,
  InfoWalk!JumpKind, InfoWalk!Supported,
  InfoWalk!DialOrder, InfoWalk!Reverse, InfoWalk!JumpOutcomes, InfoWalk!IsVisited,
  InfoWalk!Cycle, InfoWalk!file, InfoWalk!menu, InfoWalk!Resolve,
  InfoWalk!ResolveDirectAddress, InfoWalk!ResolveNamedHost, InfoWalk!ResolveEntry,
  InfoWalk!Entries, InfoWalk!FindByAlias, InfoWalk!Failed, InfoWalk!Found,
  InfoWalk!NoMeta, InfoWalk!NewResolved, InfoWalk!OrDefault, InfoWalk!CredentialKeys,
  InfoWalk!AddKey, InfoWalk!ZeroHost, InfoWalk!DeriveSource

LEMMA InfoBegin ==
  ASSUME NEW step, NEW argument
  PROVE  Info!Begin(step, argument) <=> InfoWalk!Begin(step, argument)
BY Zenon DEF
  Info!Begin, Info!Pending, Info!Verdict, Info!ZeroHost, InfoWalk!Begin,
  InfoWalk!Pending, InfoWalk!Verdict, InfoWalk!ZeroHost

LEMMA DialStep == Dial!Step <=> DialWalk!Step
BY Zenon DEF
  Dial!Step, Dial!ShowList, Dial!NothingToShow, Dial!ResolveTarget, Dial!FailTarget,
  Dial!ReachDirect, Dial!RejectSpelling, Dial!FailHop, Dial!CloseLoop, Dial!ExtendChain,
  Dial!HostList, Dial!Finish, Dial!Verdict, Dial!IsDirect, Dial!Value, Dial!JumpNamed, Dial!ChainErrors,
  Dial!JumpKind,
  Dial!Supported, Dial!DialOrder, Dial!Reverse, Dial!JumpOutcomes, Dial!IsVisited,
  Dial!Cycle, Dial!file, Dial!menu, Dial!Resolve, Dial!ResolveDirectAddress,
  Dial!ResolveNamedHost, Dial!ResolveEntry, Dial!Entries, Dial!FindByAlias, Dial!Failed,
  Dial!Found, Dial!NoMeta, Dial!NewResolved, Dial!OrDefault, Dial!CredentialKeys,
  Dial!AddKey, Dial!ZeroHost, Dial!DeriveSource, DialWalk!Step, DialWalk!ShowList,
  DialWalk!NothingToShow, DialWalk!ResolveTarget, DialWalk!FailTarget,
  DialWalk!ReachDirect, DialWalk!RejectSpelling, DialWalk!FailHop, DialWalk!CloseLoop,
  DialWalk!ExtendChain, DialWalk!HostList, DialWalk!Finish, DialWalk!Verdict,
  DialWalk!IsDirect, DialWalk!Value, DialWalk!JumpNamed, DialWalk!ChainErrors,
  DialWalk!JumpKind, DialWalk!Supported,
  DialWalk!DialOrder, DialWalk!Reverse, DialWalk!JumpOutcomes, DialWalk!IsVisited,
  DialWalk!Cycle, DialWalk!file, DialWalk!menu, DialWalk!Resolve,
  DialWalk!ResolveDirectAddress, DialWalk!ResolveNamedHost, DialWalk!ResolveEntry,
  DialWalk!Entries, DialWalk!FindByAlias, DialWalk!Failed, DialWalk!Found,
  DialWalk!NoMeta, DialWalk!NewResolved, DialWalk!OrDefault, DialWalk!CredentialKeys,
  DialWalk!AddKey, DialWalk!ZeroHost, DialWalk!DeriveSource

LEMMA DialBegin ==
  ASSUME NEW step, NEW argument
  PROVE  Dial!Begin(step, argument) <=> DialWalk!Begin(step, argument)
BY Zenon DEF
  Dial!Begin, Dial!Pending, Dial!Verdict, Dial!ZeroHost, DialWalk!Begin,
  DialWalk!Pending, DialWalk!Verdict, DialWalk!ZeroHost

LEMMA InfoGraph ==
  /\ Info!Graph!Init <=> InfoWalk!Graph!Init
  /\ Info!Graph!Reply <=> InfoWalk!Graph!Reply
  /\ UNCHANGED Info!Graph!vars <=> UNCHANGED InfoWalk!Graph!vars
BY Zenon DEF
  Info!Graph!Init, Info!Graph!Reply, Info!Graph!vars, Info!Graph!Answers,
  Info!Graph!Answer, Info!Graph!Unanswered, Info!Graph!ChainAnswers, Info!Graph!Reported,
  Info!Graph!Named,
  Info!Graph!OnCycle, Info!Graph!Reach, Info!Graph!Broken, Info!Graph!JumpHosts,
  Info!Graph!Outcomes, Info!Graph!EndsAt, Info!Graph!PointsAt, Info!Graph!Cardinality,
  Info!Graph!Resolve, Info!Graph!ResolveDirectAddress, Info!Graph!ResolveNamedHost,
  Info!Graph!ResolveEntry, Info!Graph!Entries, Info!Graph!FindByAlias, Info!Graph!Failed,
  Info!Graph!Found, Info!Graph!NoMeta, Info!Graph!NewResolved, Info!Graph!OrDefault,
  Info!Graph!CredentialKeys, Info!Graph!AddKey, Info!Graph!ZeroHost,
  Info!Graph!DeriveSource, InfoWalk!Graph!Init, InfoWalk!Graph!Reply,
  InfoWalk!Graph!vars, InfoWalk!Graph!Answers, InfoWalk!Graph!Answer,
  InfoWalk!Graph!Unanswered, InfoWalk!Graph!ChainAnswers, InfoWalk!Graph!Reported,
  InfoWalk!Graph!Named,
  InfoWalk!Graph!OnCycle, InfoWalk!Graph!Reach, InfoWalk!Graph!Broken,
  InfoWalk!Graph!JumpHosts, InfoWalk!Graph!Outcomes, InfoWalk!Graph!EndsAt,
  InfoWalk!Graph!PointsAt, InfoWalk!Graph!Cardinality, InfoWalk!Graph!Resolve,
  InfoWalk!Graph!ResolveDirectAddress, InfoWalk!Graph!ResolveNamedHost,
  InfoWalk!Graph!ResolveEntry, InfoWalk!Graph!Entries, InfoWalk!Graph!FindByAlias,
  InfoWalk!Graph!Failed, InfoWalk!Graph!Found, InfoWalk!Graph!NoMeta,
  InfoWalk!Graph!NewResolved, InfoWalk!Graph!OrDefault, InfoWalk!Graph!CredentialKeys,
  InfoWalk!Graph!AddKey, InfoWalk!Graph!ZeroHost, InfoWalk!Graph!DeriveSource,
  Info!ToSet, InfoWalk!ToSet

-----------------------------------------------------------------------------
(***************************************************************************)
(* The invariant: each walk follows the file, and the connection's starts  *)
(* when `info' has ended.                                                  *)
(***************************************************************************)
BothInv ==
  /\ InfoWalk!QuietInv /\ DialWalk!QuietInv
  /\ dialPc # "start" => infoPc = "done"

\* No step of a walk touches the file or the argument, or starts from the end.
LEMMA InfoKeepsFile == Info!Step => UNCHANGED <<config, addressed>> /\ infoPc # "done"
BY DEF Info!Step, Info!ShowList, Info!NothingToShow, Info!ResolveTarget, Info!FailTarget,
  Info!ReachDirect, Info!RejectSpelling, Info!FailHop, Info!CloseLoop, Info!ExtendChain,
  Info!JumpOutcomes, Info!Finish, Info!file

LEMMA DialKeepsFile == Dial!Step => UNCHANGED <<config, addressed>> /\ dialPc # "done"
BY DEF Dial!Step, Dial!ShowList, Dial!NothingToShow, Dial!ResolveTarget, Dial!FailTarget,
  Dial!ReachDirect, Dial!RejectSpelling, Dial!FailHop, Dial!CloseLoop, Dial!ExtendChain,
  Dial!JumpOutcomes, Dial!Finish, Dial!file

\* What JumpChainProofs shows of a walk: how its invariant starts and stays.
LEMMA InfoStarts ==
  ASSUME config \in Configs, NEW argument \in Addressed, InfoWalk!Begin("start", argument)
  PROVE  InfoWalk!QuietInv
BY InfoWalk!QuietInit, StringAssumption, TrimAssumption, ConfigAssumption, AddressedAssumption, Zenon
DEF Address, IsLoadedConfig, IsHostMap, HostMeta, IsFiniteSet, InfoWalk!Address,
    InfoWalk!IsLoadedConfig, InfoWalk!IsHostMap, InfoWalk!HostMeta, InfoWalk!IsFiniteSet

LEMMA InfoFollows ==
  ASSUME InfoWalk!QuietInv, InfoWalk!Step
  PROVE  InfoWalk!QuietInv'
BY InfoWalk!QuietStep, StringAssumption, TrimAssumption, ConfigAssumption, AddressedAssumption, Zenon
DEF Address, IsLoadedConfig, IsHostMap, HostMeta, IsFiniteSet, InfoWalk!Address,
    InfoWalk!IsLoadedConfig, InfoWalk!IsHostMap, InfoWalk!HostMeta, InfoWalk!IsFiniteSet

LEMMA InfoStays ==
  ASSUME InfoWalk!QuietInv, UNCHANGED <<config, addressed, infoWalk>>
  PROVE  InfoWalk!QuietInv'
<1>1. UNCHANGED InfoWalk!vars
  BY DEF infoWalk, InfoWalk!vars
<1> QED
  BY <1>1, InfoWalk!QuietStays, StringAssumption, TrimAssumption, ConfigAssumption,
     AddressedAssumption, Zenon
  DEF Address, IsLoadedConfig, IsHostMap, HostMeta, IsFiniteSet, InfoWalk!Address,
      InfoWalk!IsLoadedConfig, InfoWalk!IsHostMap, InfoWalk!HostMeta, InfoWalk!IsFiniteSet

LEMMA DialStarts ==
  ASSUME config \in Configs, NEW argument \in Addressed, DialWalk!Begin("start", argument)
  PROVE  DialWalk!QuietInv
BY DialWalk!QuietInit, StringAssumption, TrimAssumption, ConfigAssumption, AddressedAssumption, Zenon
DEF Address, IsLoadedConfig, IsHostMap, HostMeta, IsFiniteSet, DialWalk!Address,
    DialWalk!IsLoadedConfig, DialWalk!IsHostMap, DialWalk!HostMeta, DialWalk!IsFiniteSet

LEMMA DialFollows ==
  ASSUME DialWalk!QuietInv, DialWalk!Step
  PROVE  DialWalk!QuietInv'
BY DialWalk!QuietStep, StringAssumption, TrimAssumption, ConfigAssumption, AddressedAssumption, Zenon
DEF Address, IsLoadedConfig, IsHostMap, HostMeta, IsFiniteSet, DialWalk!Address,
    DialWalk!IsLoadedConfig, DialWalk!IsHostMap, DialWalk!HostMeta, DialWalk!IsFiniteSet

LEMMA DialStays ==
  ASSUME DialWalk!QuietInv, UNCHANGED <<config, addressed, dialWalk>>
  PROVE  DialWalk!QuietInv'
<1>1. UNCHANGED DialWalk!vars
  BY DEF dialWalk, DialWalk!vars
<1> QED
  BY <1>1, DialWalk!QuietStays, StringAssumption, TrimAssumption, ConfigAssumption,
     AddressedAssumption, Zenon
  DEF Address, IsLoadedConfig, IsHostMap, HostMeta, IsFiniteSet, DialWalk!Address,
      DialWalk!IsLoadedConfig, DialWalk!IsHostMap, DialWalk!HostMeta, DialWalk!IsFiniteSet

LEMMA BothInit == Init => BothInv
<1> SUFFICES ASSUME Init PROVE BothInv
  OBVIOUS
<1>1. PICK argument \in Addressed :
        InfoWalk!Begin("start", argument) /\ DialWalk!Begin("start", argument)
  BY InfoBegin, DialBegin DEF Init
<1>2. config \in Configs
  BY DEF Init
<1>3. InfoWalk!QuietInv
  BY <1>1, <1>2, InfoStarts
<1>4. DialWalk!QuietInv
  BY <1>1, <1>2, DialStarts
<1>5. dialPc = "start"
  BY <1>1 DEF DialWalk!Begin
<1> QED
  BY <1>3, <1>4, <1>5 DEF BothInv

LEMMA BothNext == BothInv /\ [Next]_vars => BothInv' /\ UNCHANGED <<config, addressed>>
<1> SUFFICES ASSUME BothInv, [Next]_vars
             PROVE  BothInv' /\ UNCHANGED <<config, addressed>>
  OBVIOUS
<1>1. CASE RunInfo
  <2>1. InfoWalk!Step /\ UNCHANGED <<config, addressed, dialWalk>> /\ infoPc # "done"
    BY <1>1, InfoStep, InfoKeepsFile DEF RunInfo
  <2>2. InfoWalk!QuietInv'
    BY <2>1, InfoFollows DEF BothInv
  <2>3. DialWalk!QuietInv'
    BY <2>1, DialStays DEF BothInv
  <2>4. (dialPc # "start" => infoPc = "done")'
    BY <2>1 DEF BothInv, dialWalk
  <2> QED
    BY <2>1, <2>2, <2>3, <2>4 DEF BothInv
<1>2. CASE RunDial
  <2>1. DialWalk!Step /\ UNCHANGED <<config, addressed, infoWalk>> /\ infoPc = "done"
    BY <1>2, DialStep, DialKeepsFile DEF RunDial
  <2>2. DialWalk!QuietInv'
    BY <2>1, DialFollows DEF BothInv
  <2>3. InfoWalk!QuietInv'
    BY <2>1, InfoStays DEF BothInv
  <2>4. infoPc' = "done"
    BY <2>1 DEF infoWalk
  <2> QED
    BY <2>1, <2>2, <2>3, <2>4 DEF BothInv
<1>3. CASE UNCHANGED vars
  BY <1>3, InfoStays, DialStays DEF BothInv, vars, infoWalk, dialWalk
<1> QED
  BY <1>1, <1>2, <1>3 DEF Next, Terminating

\* Both walks keep their invariant, whatever the files hold.
THEOREM BothWalksFollow == Spec => []BothInv
BY BothInit, BothNext, PTL DEF Spec

-----------------------------------------------------------------------------
(***************************************************************************)
(* The jump graph.  No two hosts share an alias, and no host is named like *)
(* an address: a host "u@h" whose alias is "x" is an entry when it is      *)
(* addressed as "x" and the bare address when a proxy-jump spells its      *)
(* name, and the walk would take the second for the first.                 *)
(***************************************************************************)
FilesArePlain == \A c \in Configs : UniqueAliases(c.hosts) /\ NamesAreBare(c.hosts)

LEMMA InfoPlain ==
  ASSUME FilesArePlain, config \in Configs
  PROVE  InfoWalk!Plain
BY DEF FilesArePlain, InfoWalk!Plain, UniqueAliases, NamesAreBare, InfoWalk!UniqueAliases,
   InfoWalk!NamesAreBare

LEMMA InfoReplies ==
  ASSUME InfoWalk!QuietInv, InfoWalk!Plain, InfoWalk!Step
  PROVE  InfoWalk!Graph!Reply \/ UNCHANGED InfoWalk!Graph!vars
BY InfoWalk!WalkStep, StringAssumption, TrimAssumption, ConfigAssumption, AddressedAssumption, Zenon
DEF Address, IsLoadedConfig, IsHostMap, HostMeta, IsFiniteSet, InfoWalk!Address,
    InfoWalk!IsLoadedConfig, InfoWalk!IsHostMap, InfoWalk!HostMeta, InfoWalk!IsFiniteSet

LEMMA InfoStartsUnanswered ==
  ASSUME config \in Configs, NEW argument \in Addressed, InfoWalk!Begin("start", argument)
  PROVE  InfoWalk!Graph!Init
BY InfoWalk!WalkStarts, StringAssumption, TrimAssumption, ConfigAssumption, AddressedAssumption, Zenon
DEF Address, IsLoadedConfig, IsHostMap, HostMeta, IsFiniteSet, InfoWalk!Address,
    InfoWalk!IsLoadedConfig, InfoWalk!IsHostMap, InfoWalk!HostMeta, InfoWalk!IsFiniteSet

(***************************************************************************)
(* ImplementsJumpGraph: what `info' says is what the jump graph holds for  *)
(* the argument, once and for good: the hosts of a chain that ends, the    *)
(* broken link, or the hosts of the cycle and no others (ResolveChain).    *)
(***************************************************************************)
THEOREM RefinesJumpGraph ==
  ASSUME FilesArePlain
  PROVE  Spec => ImplementsJumpGraph
<1>1. Init => Info!Graph!Init
  <2> SUFFICES ASSUME Init PROVE Info!Graph!Init
    OBVIOUS
  <2>1. PICK argument \in Addressed : InfoWalk!Begin("start", argument)
    BY InfoBegin DEF Init
  <2>2. config \in Configs
    BY DEF Init
  <2> QED
    BY <2>1, <2>2, InfoStartsUnanswered, InfoGraph
<1>2. BothInv /\ [Next]_vars => [Info!Graph!Reply]_(Info!Graph!vars)
  <2> SUFFICES ASSUME BothInv, [Next]_vars
               PROVE  Info!Graph!Reply \/ UNCHANGED Info!Graph!vars
    OBVIOUS
  <2>1. CASE RunInfo
    <3>1. InfoWalk!Step
      BY <2>1, InfoStep DEF RunInfo
    <3>2. InfoWalk!QuietInv /\ config \in Configs
      BY DEF BothInv, InfoWalk!QuietInv
    <3> QED
      BY <3>1, <3>2, InfoPlain, InfoReplies, InfoGraph
  <2>2. CASE ~RunInfo
    <3>1. UNCHANGED <<config, addressed, infoVerdict>>
      BY <2>2, DialKeepsFile DEF Next, RunDial, Terminating, vars, infoWalk
    <3>2. \A v : Info!ToSet(v) = Info!ToSet(v)
      OBVIOUS
    <3> QED
      BY <3>1 DEF Info!Graph!vars
  <2> QED
    BY <2>1, <2>2
<1> QED
  BY <1>1, <1>2, BothWalksFollow, PTL
  DEF Spec, ImplementsJumpGraph, Info!ImplementsJumpGraph, Info!Graph!Spec

-----------------------------------------------------------------------------
(***************************************************************************)
(* The same verdict.  What a walk that has ended says, in words that name  *)
(* no walk: from target t over the hops h, with the names v, to verdict w. *)
(***************************************************************************)
At(t, h, i) == IF i = 1 THEN t ELSE h[i - 1]
Told(kind, jump, path, chain) == [kind |-> kind, jump |-> jump, path |-> path, chain |-> chain]
Inverted(h) == [i \in 1..Len(h) |-> h[(Len(h) - i) + 1]]
Around(v, name) ==
  LET first == CHOOSE i \in 1..Len(v) : v[i] = name /\ \A j \in 1..(i - 1) : v[j] # name
  IN  Append(SubSeq(v, first, Len(v)), name)

Spelled(a) == a # ""
LeadsOn(r) == TrimSpace[r.proxyJump] \notin {"", "none"} \cup Foreign

\* It found no target.
Lost(c, a, t, w) ==
  t = ZeroHost /\ \E o \in Resolve(c, a) : o.kind # "ok" /\ w = Told(o.kind, "", <<>>, <<>>)

\* It followed the file.
Went(c, a, t, h, v) ==
  /\ Found(t) \in Resolve(c, a)
  /\ Len(h) \in Nat /\ h = [i \in 1..Len(h) |-> h[i]]
  /\ v = [i \in 1..(Len(h) + 1) |-> v[i]]
  /\ \A i \in 1..(Len(h) + 1) : v[i] = At(t, h, i).name
  /\ \A i, j \in 1..(Len(h) + 1) : v[i] = v[j] => i = j
  /\ \A i \in 1..Len(h) :
       /\ LeadsOn(At(t, h, i))
       /\ Found(At(t, h, i + 1)) \in Resolve(c, TrimSpace[At(t, h, i).proxyJump])

\* And it ended there.
Ended(c, r, h, v, w) ==
  LET value == TrimSpace[r.proxyJump] IN
  IF value \in {"", "none"} THEN w = Told("chain", "", <<>>, Inverted(h))
  ELSE IF value \in Foreign THEN w = Told("unsupported", value, <<>>, <<>>)
  ELSE \E o \in Resolve(c, value) :
         IF o.kind # "ok"
         THEN w = Told(Info!JumpKind(o.kind), Info!JumpNamed(o.kind, value), <<>>, <<>>)
         ELSE /\ \E i \in 1..(Len(h) + 1) : v[i] = o.host.name
              /\ w = Told("loop", "", Around(v, o.host.name), <<>>)

LEMMA InfoResolvesHere ==
  ASSUME NEW c, NEW a
  PROVE  InfoWalk!Resolve(c, a) = Resolve(c, a)
BY Zenon DEF
  Resolve, ResolveDirectAddress, ResolveNamedHost, ResolveEntry, Entries, FindByAlias,
  Failed, Found, NoMeta, NewResolved, OrDefault, CredentialKeys, AddKey, ZeroHost,
  DeriveSource, InfoWalk!Resolve, InfoWalk!ResolveDirectAddress,
  InfoWalk!ResolveNamedHost, InfoWalk!ResolveEntry, InfoWalk!Entries,
  InfoWalk!FindByAlias, InfoWalk!Failed, InfoWalk!Found, InfoWalk!NoMeta,
  InfoWalk!NewResolved, InfoWalk!OrDefault, InfoWalk!CredentialKeys, InfoWalk!AddKey,
  InfoWalk!ZeroHost, InfoWalk!DeriveSource

LEMMA DialResolvesHere ==
  ASSUME NEW c, NEW a
  PROVE  DialWalk!Resolve(c, a) = Resolve(c, a)
BY Zenon DEF
  Resolve, ResolveDirectAddress, ResolveNamedHost, ResolveEntry, Entries, FindByAlias,
  Failed, Found, NoMeta, NewResolved, OrDefault, CredentialKeys, AddKey, ZeroHost,
  DeriveSource, DialWalk!Resolve, DialWalk!ResolveDirectAddress,
  DialWalk!ResolveNamedHost, DialWalk!ResolveEntry, DialWalk!Entries,
  DialWalk!FindByAlias, DialWalk!Failed, DialWalk!Found, DialWalk!NoMeta,
  DialWalk!NewResolved, DialWalk!OrDefault, DialWalk!CredentialKeys, DialWalk!AddKey,
  DialWalk!ZeroHost, DialWalk!DeriveSource

LEMMA OneOutcome ==
  ASSUME NEW c, UniqueAliases(c.hosts), NEW a, a # "",
         NEW o \in Resolve(c, a), NEW p \in Resolve(c, a)
  PROVE  o = p
<1>1. InfoWalk!UniqueAliases(c.hosts)
  BY DEF UniqueAliases, InfoWalk!UniqueAliases
<1>2. o \in InfoWalk!Resolve(c, a) /\ p \in InfoWalk!Resolve(c, a)
  BY InfoResolvesHere
<1> QED
  BY <1>1, <1>2, InfoWalk!OneOutcome, StringAssumption, TrimAssumption, ConfigAssumption,
     AddressedAssumption, Zenon
  DEF Address, IsLoadedConfig, IsHostMap, HostMeta, IsFiniteSet, InfoWalk!Address,
      InfoWalk!IsLoadedConfig, InfoWalk!IsHostMap, InfoWalk!HostMeta, InfoWalk!IsFiniteSet

LEMMA SameFound ==
  ASSUME NEW c, UniqueAliases(c.hosts), NEW a, Spelled(a),
         NEW r, Found(r) \in Resolve(c, a), NEW s, Found(s) \in Resolve(c, a)
  PROVE  r = s
<1>1. Found(r) = Found(s)
  BY OneOutcome DEF Spelled
<1> QED
  BY <1>1 DEF Found

\* Two walks from the same argument pass the same hosts as far as both go.
LEMMA SameWay ==
  ASSUME NEW c, UniqueAliases(c.hosts), NEW a, Spelled(a),
         NEW t, NEW h, NEW v, Went(c, a, t, h, v),
         NEW u, NEW g, NEW w, Went(c, a, u, g, w)
  PROVE  \A i \in Nat : 1 <= i /\ i <= Len(h) + 1 /\ i <= Len(g) + 1 => At(t, h, i) = At(u, g, i)
<1>0. Len(h) \in Nat /\ Len(g) \in Nat
  BY DEF Went
<1>1. t = u
  BY SameFound DEF Went
<1> DEFINE Agree == {k \in Nat : k <= Len(h) /\ k <= Len(g) => At(t, h, k + 1) = At(u, g, k + 1)}
<1>2. 0 \in Agree
  BY <1>1 DEF At
<1>3. ASSUME NEW k \in Agree PROVE k + 1 \in Agree
  <2>1. k \in Nat /\ k + 1 \in Nat
    OBVIOUS
  <2>2. SUFFICES ASSUME k + 1 <= Len(h), k + 1 <= Len(g)
                 PROVE  At(t, h, (k + 1) + 1) = At(u, g, (k + 1) + 1)
    BY <2>1
  <2>3. At(t, h, k + 1) = At(u, g, k + 1) /\ k + 1 \in 1..Len(h) /\ k + 1 \in 1..Len(g)
    BY <1>0, <1>3, <2>1, <2>2
  <2> DEFINE value == TrimSpace[At(t, h, k + 1).proxyJump]
  <2>4. /\ Spelled(value)
        /\ Found(At(t, h, (k + 1) + 1)) \in Resolve(c, value)
        /\ Found(At(u, g, (k + 1) + 1)) \in Resolve(c, value)
    <3>1. /\ LeadsOn(At(t, h, k + 1))
          /\ Found(At(t, h, (k + 1) + 1)) \in Resolve(c, value)
          /\ Found(At(u, g, (k + 1) + 1)) \in Resolve(c, value)
      BY <2>3 DEF Went
    <3> QED
      BY <3>1 DEF LeadsOn, Spelled
  <2> HIDE DEF value
  <2> QED BY <2>4, SameFound
<1>4. Agree = Nat
  <2> HIDE DEF Agree
  <2>1. Agree \in SUBSET Nat
    BY DEF Agree
  <2> QED BY <1>2, <1>3, <2>1, SetInduction
<1>5. ASSUME NEW i \in Nat, 1 <= i, i <= Len(h) + 1, i <= Len(g) + 1
      PROVE  At(t, h, i) = At(u, g, i)
  <2>1. i - 1 \in Nat /\ (i - 1) + 1 = i /\ i - 1 <= Len(h) /\ i - 1 <= Len(g)
    BY <1>0, <1>5
  <2>2. i - 1 \in Agree
    BY <1>4, <2>1
  <2> QED
    BY <2>1, <2>2
<1> QED
  BY <1>5

\* The one that has ended is no shorter: where it ended, so must the other.
LEMMA NoShorter ==
  ASSUME NEW c, UniqueAliases(c.hosts), NEW a, Spelled(a),
         NEW t, NEW h, NEW v, Went(c, a, t, h, v),
         NEW x, Ended(c, At(t, h, Len(h) + 1), h, v, x),
         NEW u, NEW g, NEW w, Went(c, a, u, g, w)
  PROVE  ~(Len(h) < Len(g))
<1> SUFFICES ASSUME Len(h) < Len(g) PROVE FALSE
  OBVIOUS
<1> DEFINE n == Len(h) + 1
           last == At(t, h, n)
           value == TrimSpace[last.proxyJump]
<1>0. /\ Len(h) \in Nat /\ Len(g) \in Nat /\ n \in 1..Len(g) /\ n \in 1..(Len(h) + 1)
      /\ n + 1 \in 1..(Len(g) + 1) /\ n \in Nat
  BY DEF Went
<1>1. \A i \in 1..n : At(t, h, i) = At(u, g, i) /\ v[i] = w[i] /\ i \in 1..(Len(g) + 1) /\ i # n + 1
  <2>1. \A i \in 1..n : i \in Nat /\ 1 <= i /\ i <= Len(h) + 1 /\ i <= Len(g) + 1
                        /\ i \in 1..(Len(g) + 1) /\ i # n + 1
    BY <1>0
  <2>2. \A i \in 1..n : At(t, h, i) = At(u, g, i)
    BY <2>1, SameWay
  <2> QED
    BY <2>1, <2>2 DEF Went
<1>2. /\ LeadsOn(last) /\ Found(At(u, g, n + 1)) \in Resolve(c, value)
  <2>1. last = At(u, g, n)
    BY <1>0, <1>1
  <2> QED
    BY <1>0, <2>1 DEF Went
<1>3. value \notin {"", "none"} /\ value \notin Foreign
  BY <1>2 DEF LeadsOn
<1>4. PICK o \in Resolve(c, value) : o.kind = "ok" => \E i \in 1..n : v[i] = o.host.name
  BY <1>3 DEF Ended
<1>5. o = Found(At(u, g, n + 1))
  BY <1>2, <1>3, <1>4, OneOutcome
<1>6. o.kind = "ok" /\ o.host = At(u, g, n + 1)
  BY <1>5 DEF Found
<1>7. PICK i \in 1..n : v[i] = At(u, g, n + 1).name
  BY <1>4, <1>6
<1>8. w[n + 1] = At(u, g, n + 1).name /\ w[i] = v[i]
  BY <1>0, <1>1, <1>7 DEF Went
<1> QED
  BY <1>0, <1>1, <1>7, <1>8 DEF Went

\* So two that have ended passed the same hosts and say the same.
LEMMA SameEnd ==
  ASSUME NEW c, UniqueAliases(c.hosts), NEW a, Spelled(a),
         NEW t, NEW h, NEW v, Went(c, a, t, h, v),
         NEW x, Ended(c, At(t, h, Len(h) + 1), h, v, x),
         NEW u, NEW g, NEW w, Went(c, a, u, g, w),
         NEW y, Ended(c, At(u, g, Len(g) + 1), g, w, y)
  PROVE  t = u /\ x = y
<1>1. t = u
  BY SameFound DEF Went
<1>2. Len(h) = Len(g) /\ Len(h) \in Nat
  <2>1. ~(Len(h) < Len(g)) /\ ~(Len(g) < Len(h))
    BY NoShorter
  <2>2. Len(h) \in Nat /\ Len(g) \in Nat
    BY DEF Went
  <2> QED
    BY <2>1, <2>2
<1>3. \A i \in 1..(Len(h) + 1) : At(t, h, i) = At(u, g, i)
  <2>1. \A i \in 1..(Len(h) + 1) : i \in Nat /\ 1 <= i /\ i <= Len(h) + 1 /\ i <= Len(g) + 1
    BY <1>2
  <2> QED
    BY <2>1, SameWay
<1>4. h = g
  <2>1. \A i \in 1..Len(h) : i + 1 \in 1..(Len(h) + 1) /\ i + 1 # 1 /\ (i + 1) - 1 = i
    BY <1>2
  <2>2. \A i \in 1..Len(h) : h[i] = At(t, h, i + 1) /\ g[i] = At(u, g, i + 1)
    BY <2>1 DEF At
  <2>3. \A i \in 1..Len(h) : h[i] = g[i]
    BY <1>3, <2>1, <2>2
  <2>4. h = [i \in 1..Len(h) |-> h[i]] /\ g = [i \in 1..Len(h) |-> g[i]]
    BY <1>2 DEF Went
  <2> QED
    BY <2>3, <2>4
<1>5. v = w
  <2>1. \A i \in 1..(Len(h) + 1) : v[i] = w[i]
    BY <1>2, <1>3 DEF Went
  <2>2. v = [i \in 1..(Len(h) + 1) |-> v[i]] /\ w = [i \in 1..(Len(h) + 1) |-> w[i]]
    BY <1>2 DEF Went
  <2> QED
    BY <2>1, <2>2
<1> DEFINE last == At(t, h, Len(h) + 1)
           value == TrimSpace[last.proxyJump]
<1>6. Ended(c, last, h, v, x) /\ Ended(c, last, h, v, y)
  BY <1>1, <1>2, <1>4, <1>5
<1>7. \A o, p \in Resolve(c, value) : value \notin {"", "none"} => o = p
  BY OneOutcome
<1> HIDE DEF last
<1>8. x = y
  BY <1>6, <1>7 DEF Ended
<1> QED
  BY <1>1, <1>8

\* Or neither found a target.
LEMMA SameLoss ==
  ASSUME NEW c, UniqueAliases(c.hosts), NEW a, Spelled(a),
         NEW t, NEW x, Lost(c, a, t, x), NEW u
  PROVE  /\ \A y : Lost(c, a, u, y) => t = u /\ x = y
         /\ \A g, w : ~Went(c, a, u, g, w)
<1>1. PICK o \in Resolve(c, a) : o.kind # "ok" /\ x = Told(o.kind, "", <<>>, <<>>)
  BY DEF Lost
<1>2. \A p \in Resolve(c, a) : p = o
  BY OneOutcome DEF Spelled
<1>3. ASSUME NEW y, Lost(c, a, u, y) PROVE t = u /\ x = y
  BY <1>1, <1>2, <1>3 DEF Lost
<1>4. Found(u).kind = "ok"
  BY DEF Found
<1>5. \A g, w : ~Went(c, a, u, g, w)
  BY <1>1, <1>2, <1>4 DEF Went
<1> QED
  BY <1>3, <1>5

Ran(c, a, t, h, v, x) ==
  Went(c, a, t, h, v) /\ Ended(c, At(t, h, Len(h) + 1), h, v, x)

LEMMA SameRun ==
  ASSUME NEW c, UniqueAliases(c.hosts), NEW a, Spelled(a),
         NEW t, NEW h, NEW v, NEW x, Ran(c, a, t, h, v, x),
         NEW u, NEW g, NEW w, NEW y, Ran(c, a, u, g, w, y)
  PROVE  t = u /\ x = y
BY SameEnd DEF Ran

\* A sequence is given by its length and its elements.
LEMMA SeqForm ==
  ASSUME NEW S, NEW s \in Seq(S)
  PROVE  s = [i \in 1..Len(s) |-> s[i]]
<1>1. DOMAIN s = 1..Len(s) /\ s = [i \in DOMAIN s |-> s[i]]
  OBVIOUS
<1> QED
  BY <1>1

\* What `info' did and said, in those words.
LEMMA InfoWords ==
  /\ \A r : InfoWalk!Found(r) = Found(r)
  /\ \A i : InfoWalk!From(i) = At(infoTarget, infoHops, i)
  /\ \A r, value : InfoWalk!Addresses(r, value) => LeadsOn(r) /\ value = TrimSpace[r.proxyJump]
  /\ \A kind, jump, path, chain :
       InfoWalk!Verdict(kind, jump, path, chain) = Told(kind, jump, path, chain)
  /\ InfoWalk!DialOrder(infoHops) = Inverted(infoHops)
  /\ \A k, value : /\ InfoWalk!JumpKind(k) = Info!JumpKind(k)
                    /\ InfoWalk!JumpNamed(k, value) = Info!JumpNamed(k, value)
  /\ \A n : InfoWalk!Cycle(n) = Around(infoVisited, n)
<1>1. \A r : InfoWalk!Found(r) = Found(r)
  BY DEF InfoWalk!Found, Found
<1>2. \A i : InfoWalk!From(i) = At(infoTarget, infoHops, i)
  BY Zenon DEF InfoWalk!From, At
<1>3. \A r, value : InfoWalk!Addresses(r, value) => LeadsOn(r) /\ value = TrimSpace[r.proxyJump]
  BY DEF InfoWalk!Addresses, InfoWalk!IsDirect, InfoWalk!Supported, LeadsOn
<1>4. \A kind, jump, path, chain :
        InfoWalk!Verdict(kind, jump, path, chain) = Told(kind, jump, path, chain)
  BY DEF InfoWalk!Verdict, Told
<1>5. InfoWalk!DialOrder(infoHops) = Inverted(infoHops)
  BY Zenon DEF InfoWalk!DialOrder, InfoWalk!Reverse, Inverted
<1>6. \A k, value : /\ InfoWalk!JumpKind(k) = Info!JumpKind(k)
                   /\ InfoWalk!JumpNamed(k, value) = Info!JumpNamed(k, value)
  BY Zenon DEF InfoWalk!JumpKind, Info!JumpKind, InfoWalk!JumpNamed, Info!JumpNamed, InfoWalk!ChainErrors, Info!ChainErrors
<1>7. \A n : InfoWalk!Cycle(n) = Around(infoVisited, n)
  BY Zenon DEF InfoWalk!Cycle, Around
<1> QED
  BY <1>1, <1>2, <1>3, <1>4, <1>5, <1>6, <1>7

LEMMA InfoPath ==
  ASSUME InfoWalk!QuietInv, infoVisited # <<>>
  PROVE  /\ InfoWalk!PathLen = Len(infoHops) + 1 /\ Len(infoHops) \in Nat
         /\ Len(infoVisited) = InfoWalk!PathLen /\ infoCurrent = InfoWalk!From(InfoWalk!PathLen)
         /\ \A i \in 1..InfoWalk!PathLen : infoVisited[i] = InfoWalk!From(i).name
         /\ \A i, j \in 1..InfoWalk!PathLen : infoVisited[i] = infoVisited[j] => i = j
         /\ \A i \in 1..Len(infoHops) : infoHops[i] = InfoWalk!From(i + 1)
<1>1. InfoWalk!PathLen = Len(infoHops) + 1
  BY DEF InfoWalk!PathLen
<1> QED
  BY <1>1, InfoWalk!QuietFacts,
     StringAssumption, TrimAssumption, ConfigAssumption, AddressedAssumption, Zenon
  DEF Address, IsLoadedConfig, IsHostMap, HostMeta, IsFiniteSet, InfoWalk!Address,
      InfoWalk!IsLoadedConfig, InfoWalk!IsHostMap, InfoWalk!HostMeta, InfoWalk!IsFiniteSet

LEMMA InfoWent ==
  ASSUME InfoWalk!QuietInv, infoVisited # <<>>
  PROVE  Went(config, addressed, infoTarget, infoHops, infoVisited)
<1>1. InfoWalk!TypeOK /\ InfoWalk!Followed
  BY DEF InfoWalk!QuietInv, InfoWalk!IInv
<1>2. /\ Len(infoHops) \in Nat /\ Len(infoVisited) = Len(infoHops) + 1
      /\ \A i \in 1..(Len(infoHops) + 1) : infoVisited[i] = At(infoTarget, infoHops, i).name
      /\ \A i, j \in 1..(Len(infoHops) + 1) : infoVisited[i] = infoVisited[j] => i = j
      /\ \A i \in 1..Len(infoHops) : infoHops[i] = At(infoTarget, infoHops, i + 1)
  BY InfoPath, InfoWords
<1>3. infoHops = [i \in 1..Len(infoHops) |-> infoHops[i]]
  <2>1. infoHops \in Seq(InfoWalk!Resolved)
    BY <1>1 DEF InfoWalk!TypeOK
  <2> QED
    BY <2>1, SeqForm
<1>4. infoVisited = [i \in 1..(Len(infoHops) + 1) |-> infoVisited[i]]
  <2>1. infoVisited \in Seq(Str)
    BY <1>1 DEF InfoWalk!TypeOK
  <2>2. infoVisited = [i \in 1..Len(infoVisited) |-> infoVisited[i]]
    BY <2>1, SeqForm
  <2> QED
    BY <1>2, <2>2
<1>5. Found(infoTarget) \in Resolve(config, addressed)
  BY <1>1, InfoWords, InfoResolvesHere DEF InfoWalk!Followed
<1>6. ASSUME NEW i \in 1..Len(infoHops)
      PROVE  /\ LeadsOn(At(infoTarget, infoHops, i))
             /\ Found(At(infoTarget, infoHops, i + 1))
                  \in Resolve(config, TrimSpace[At(infoTarget, infoHops, i).proxyJump])
  <2>1. PICK value \in Str : /\ InfoWalk!Addresses(InfoWalk!From(i), value)
                             /\ InfoWalk!Found(infoHops[i]) \in InfoWalk!Resolve(config, value)
    BY <1>1 DEF InfoWalk!Followed
  <2> QED
    BY <1>2, <2>1, InfoWords, InfoResolvesHere
<1> QED
  BY <1>2, <1>3, <1>4, <1>5, <1>6 DEF Went

LEMMA InfoEnded ==
  ASSUME InfoWalk!QuietInv, infoVisited # <<>>, infoPc = "done"
  PROVE  Ended(config, At(infoTarget, infoHops, Len(infoHops) + 1), infoHops, infoVisited, infoVerdict)
<1>1. InfoWalk!Settled
  BY DEF InfoWalk!QuietInv
<1>2. infoCurrent = At(infoTarget, infoHops, Len(infoHops) + 1) /\ Len(infoVisited) = Len(infoHops) + 1
  BY InfoPath, InfoWords
<1>3. InfoWalk!Value = TrimSpace[infoCurrent.proxyJump]
  BY DEF InfoWalk!Value
<1>4. \A value : /\ InfoWalk!IsDirect(value) <=> value \in {"", "none"}
                 /\ InfoWalk!Supported(value) <=> value \notin Foreign
  BY DEF InfoWalk!IsDirect, InfoWalk!Supported
<1>5. \A n : InfoWalk!IsVisited(n) <=> \E i \in 1..(Len(infoHops) + 1) : infoVisited[i] = n
  BY <1>2 DEF InfoWalk!IsVisited
<1> QED
  BY <1>1, <1>2, <1>3, <1>4, <1>5, InfoWords, InfoResolvesHere DEF InfoWalk!Settled, Ended

LEMMA InfoLost ==
  ASSUME InfoWalk!QuietInv, infoVisited = <<>>, infoPc = "done"
  PROVE  Lost(config, addressed, infoTarget, infoVerdict)
<1>1. InfoWalk!Settled /\ InfoWalk!Followed
  BY DEF InfoWalk!QuietInv
<1>2. InfoWalk!ZeroHost = ZeroHost
  BY DEF InfoWalk!ZeroHost, ZeroHost
<1> QED
  BY <1>1, <1>2, InfoWords, InfoResolvesHere DEF InfoWalk!Settled, InfoWalk!Followed, Lost

\* What the connection did and said, in those words.
LEMMA DialWords ==
  /\ \A r : DialWalk!Found(r) = Found(r)
  /\ \A i : DialWalk!From(i) = At(dialTarget, dialHops, i)
  /\ \A r, value : DialWalk!Addresses(r, value) => LeadsOn(r) /\ value = TrimSpace[r.proxyJump]
  /\ \A kind, jump, path, chain :
       DialWalk!Verdict(kind, jump, path, chain) = Told(kind, jump, path, chain)
  /\ DialWalk!DialOrder(dialHops) = Inverted(dialHops)
  /\ \A k, value : /\ DialWalk!JumpKind(k) = Info!JumpKind(k)
                    /\ DialWalk!JumpNamed(k, value) = Info!JumpNamed(k, value)
  /\ \A n : DialWalk!Cycle(n) = Around(dialVisited, n)
<1>1. \A r : DialWalk!Found(r) = Found(r)
  BY DEF DialWalk!Found, Found
<1>2. \A i : DialWalk!From(i) = At(dialTarget, dialHops, i)
  BY Zenon DEF DialWalk!From, At
<1>3. \A r, value : DialWalk!Addresses(r, value) => LeadsOn(r) /\ value = TrimSpace[r.proxyJump]
  BY DEF DialWalk!Addresses, DialWalk!IsDirect, DialWalk!Supported, LeadsOn
<1>4. \A kind, jump, path, chain :
        DialWalk!Verdict(kind, jump, path, chain) = Told(kind, jump, path, chain)
  BY DEF DialWalk!Verdict, Told
<1>5. DialWalk!DialOrder(dialHops) = Inverted(dialHops)
  BY Zenon DEF DialWalk!DialOrder, DialWalk!Reverse, Inverted
<1>6. \A k, value : /\ DialWalk!JumpKind(k) = Info!JumpKind(k)
                   /\ DialWalk!JumpNamed(k, value) = Info!JumpNamed(k, value)
  BY Zenon DEF DialWalk!JumpKind, Info!JumpKind, DialWalk!JumpNamed, Info!JumpNamed, DialWalk!ChainErrors, Info!ChainErrors
<1>7. \A n : DialWalk!Cycle(n) = Around(dialVisited, n)
  BY Zenon DEF DialWalk!Cycle, Around
<1> QED
  BY <1>1, <1>2, <1>3, <1>4, <1>5, <1>6, <1>7

LEMMA DialPath ==
  ASSUME DialWalk!QuietInv, dialVisited # <<>>
  PROVE  /\ DialWalk!PathLen = Len(dialHops) + 1 /\ Len(dialHops) \in Nat
         /\ Len(dialVisited) = DialWalk!PathLen /\ dialCurrent = DialWalk!From(DialWalk!PathLen)
         /\ \A i \in 1..DialWalk!PathLen : dialVisited[i] = DialWalk!From(i).name
         /\ \A i, j \in 1..DialWalk!PathLen : dialVisited[i] = dialVisited[j] => i = j
         /\ \A i \in 1..Len(dialHops) : dialHops[i] = DialWalk!From(i + 1)
<1>1. DialWalk!PathLen = Len(dialHops) + 1
  BY DEF DialWalk!PathLen
<1> QED
  BY <1>1, DialWalk!QuietFacts,
     StringAssumption, TrimAssumption, ConfigAssumption, AddressedAssumption, Zenon
  DEF Address, IsLoadedConfig, IsHostMap, HostMeta, IsFiniteSet, DialWalk!Address,
      DialWalk!IsLoadedConfig, DialWalk!IsHostMap, DialWalk!HostMeta, DialWalk!IsFiniteSet

LEMMA DialWent ==
  ASSUME DialWalk!QuietInv, dialVisited # <<>>
  PROVE  Went(config, addressed, dialTarget, dialHops, dialVisited)
<1>1. DialWalk!TypeOK /\ DialWalk!Followed
  BY DEF DialWalk!QuietInv, DialWalk!IInv
<1>2. /\ Len(dialHops) \in Nat /\ Len(dialVisited) = Len(dialHops) + 1
      /\ \A i \in 1..(Len(dialHops) + 1) : dialVisited[i] = At(dialTarget, dialHops, i).name
      /\ \A i, j \in 1..(Len(dialHops) + 1) : dialVisited[i] = dialVisited[j] => i = j
      /\ \A i \in 1..Len(dialHops) : dialHops[i] = At(dialTarget, dialHops, i + 1)
  BY DialPath, DialWords
<1>3. dialHops = [i \in 1..Len(dialHops) |-> dialHops[i]]
  <2>1. dialHops \in Seq(DialWalk!Resolved)
    BY <1>1 DEF DialWalk!TypeOK
  <2> QED
    BY <2>1, SeqForm
<1>4. dialVisited = [i \in 1..(Len(dialHops) + 1) |-> dialVisited[i]]
  <2>1. dialVisited \in Seq(Str)
    BY <1>1 DEF DialWalk!TypeOK
  <2>2. dialVisited = [i \in 1..Len(dialVisited) |-> dialVisited[i]]
    BY <2>1, SeqForm
  <2> QED
    BY <1>2, <2>2
<1>5. Found(dialTarget) \in Resolve(config, addressed)
  BY <1>1, DialWords, DialResolvesHere DEF DialWalk!Followed
<1>6. ASSUME NEW i \in 1..Len(dialHops)
      PROVE  /\ LeadsOn(At(dialTarget, dialHops, i))
             /\ Found(At(dialTarget, dialHops, i + 1))
                  \in Resolve(config, TrimSpace[At(dialTarget, dialHops, i).proxyJump])
  <2>1. PICK value \in Str : /\ DialWalk!Addresses(DialWalk!From(i), value)
                             /\ DialWalk!Found(dialHops[i]) \in DialWalk!Resolve(config, value)
    BY <1>1 DEF DialWalk!Followed
  <2> QED
    BY <1>2, <2>1, DialWords, DialResolvesHere
<1> QED
  BY <1>2, <1>3, <1>4, <1>5, <1>6 DEF Went

LEMMA DialEnded ==
  ASSUME DialWalk!QuietInv, dialVisited # <<>>, dialPc = "done"
  PROVE  Ended(config, At(dialTarget, dialHops, Len(dialHops) + 1), dialHops, dialVisited, dialVerdict)
<1>1. DialWalk!Settled
  BY DEF DialWalk!QuietInv
<1>2. dialCurrent = At(dialTarget, dialHops, Len(dialHops) + 1) /\ Len(dialVisited) = Len(dialHops) + 1
  BY DialPath, DialWords
<1>3. DialWalk!Value = TrimSpace[dialCurrent.proxyJump]
  BY DEF DialWalk!Value
<1>4. \A value : /\ DialWalk!IsDirect(value) <=> value \in {"", "none"}
                 /\ DialWalk!Supported(value) <=> value \notin Foreign
  BY DEF DialWalk!IsDirect, DialWalk!Supported
<1>5. \A n : DialWalk!IsVisited(n) <=> \E i \in 1..(Len(dialHops) + 1) : dialVisited[i] = n
  BY <1>2 DEF DialWalk!IsVisited
<1> QED
  BY <1>1, <1>2, <1>3, <1>4, <1>5, DialWords, DialResolvesHere DEF DialWalk!Settled, Ended

LEMMA DialLost ==
  ASSUME DialWalk!QuietInv, dialVisited = <<>>, dialPc = "done"
  PROVE  Lost(config, addressed, dialTarget, dialVerdict)
<1>1. DialWalk!Settled /\ DialWalk!Followed
  BY DEF DialWalk!QuietInv
<1>2. DialWalk!ZeroHost = ZeroHost
  BY DEF DialWalk!ZeroHost, ZeroHost
<1> QED
  BY <1>1, <1>2, DialWords, DialResolvesHere DEF DialWalk!Settled, DialWalk!Followed, Lost

(***************************************************************************)
(* SameVerdict: where no two hosts share an alias and nobody types the     *)
(* empty name, `info' and the connection after it reach the same target    *)
(* and the same verdict (runInfo, executeRemote, connectToHost).           *)
(***************************************************************************)
THEOREM SameVerdictAlways ==
  ASSUME \A c \in Configs : UniqueAliases(c.hosts), "" \notin Addressed
  PROVE  Spec => []SameVerdict
<1> DEFINE Named == Spelled(addressed) /\ UniqueAliases(config.hosts)
<1>1. Init => Named
  <2> SUFFICES ASSUME Init PROVE Named
    OBVIOUS
  <2>1. PICK argument \in Addressed : InfoWalk!Begin("start", argument)
    BY InfoBegin DEF Init
  <2> QED
    BY <2>1 DEF Init, InfoWalk!Begin, Spelled
<1>2. Named /\ BothInv /\ [Next]_vars => Named'
  BY BothNext DEF Spelled, UniqueAliases
<1>3. Named /\ BothInv => SameVerdict
  <2> SUFFICES ASSUME Named, BothInv, dialPc = "done"
               PROVE  infoTarget = dialTarget /\ infoVerdict = dialVerdict
    BY DEF SameVerdict
  <2>1. InfoWalk!QuietInv /\ DialWalk!QuietInv /\ infoPc = "done"
    BY DEF BothInv
  <2>2. CASE infoVisited = <<>> /\ dialVisited = <<>>
    BY <2>1, <2>2, InfoLost, DialLost, SameLoss
  <2>3. CASE infoVisited = <<>> /\ dialVisited # <<>>
    BY <2>1, <2>3, InfoLost, DialWent, SameLoss
  <2>4. CASE infoVisited # <<>> /\ dialVisited = <<>>
    BY <2>1, <2>4, InfoWent, DialLost, SameLoss
  <2>5. CASE infoVisited # <<>> /\ dialVisited # <<>>
    <3>1. Ran(config, addressed, infoTarget, infoHops, infoVisited, infoVerdict)
      BY <2>1, <2>5, InfoWent, InfoEnded DEF Ran
    <3>2. Ran(config, addressed, dialTarget, dialHops, dialVisited, dialVerdict)
      BY <2>1, <2>5, DialWent, DialEnded DEF Ran
    <3>3. Spelled(addressed) /\ UniqueAliases(config.hosts)
      OBVIOUS
    <3> QED
      BY <3>1, <3>2, <3>3, SameRun
  <2> QED
    BY <2>2, <2>3, <2>4, <2>5
<1> HIDE DEF Named
<1> QED
  BY <1>1, <1>2, <1>3, BothWalksFollow, PTL DEF Spec
=============================================================================
