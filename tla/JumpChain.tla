----------------------------- MODULE JumpChain -----------------------------
(***************************************************************************)
(* One invocation turns an addressed string, an argument or the choice of  *)
(* a row in the interactive host list, into a target, and expands its      *)
(* proxy-jump into the hops to dial before it: host.Resolve followed by    *)
(* connect.ResolveChain (internal/cli/cli.go, internal/connect/chain.go).  *)
(*                                                                         *)
(* The list, the target and every hop are read from the metadata file      *)
(* anew, so another invocation may rewrite the file between any two of     *)
(* them.  One iteration of ResolveChain's loop is one step here, and       *)
(* Rewrite is that other invocation.                                       *)
(***************************************************************************)
EXTENDS Hosts, SequencesExt

CONSTANTS
  Configs,   \* what the metadata file may hold
  Addressed  \* what the user may type

ASSUME ConfigAssumption ==
  \A c \in Configs : IsLoadedConfig(c) /\ IsFiniteSet(DOMAIN c.hosts)
ASSUME AddressedAssumption == Addressed \subseteq Str

VARIABLES
  config,     \* the metadata file
  addressed,  \* what the user typed or chose
  listed,     \* the names on the screen, one row each, in order of name
  row,        \* history: the name on the row chosen, until it is resolved
  pc,         \* "list", "choose": the host list; "start": target not resolved
              \* yet; "walk": in the loop; "done"
  target,     \* the resolved target
  current,    \* the host whose proxy-jump is expanded next
  hops,       \* the hops found so far, in walk order: innermost first
  visited,    \* the names already on the walk
  verdict     \* the result, or the error

file == <<config, addressed>>
menu == <<listed, row>>
walk == <<pc, target, current, hops, visited, verdict>>
vars == <<config, addressed, listed, row, pc, target, current, hops, visited, verdict>>

ChainErrors == {"jump_not_found", "jump_no_details", "unsupported", "loop"}
Kinds == {"none", "chain", "no_hosts", "no_choice"} \cup ChainErrors \cup ResolveErrors

\* An error or a result: `jump' is the value that broke, `path' the loop.
Verdict(kind, jump, path, chain) ==
  [kind |-> kind, jump |-> jump, path |-> path, chain |-> chain]
Pending == Verdict("none", "", <<>>, <<>>)

\* Defect: "none" is not a way of spelling "no jump host".
IsDirectEmptyOnly(value) == value = ""

IsDirect(value) == value = "" \/ value = "none"

\* The value the next iteration expands.
Value == TrimSpace[current.proxyJump]

\* How resolveJump re-labels a resolution failure; the default arm keeps it.
JumpKind(kind) ==
  IF kind = "not_found" THEN "jump_not_found"
  ELSE IF kind = "no_details" THEN "jump_no_details"
  ELSE kind

\* Only a ChainError holds the jump host it is about.  A failure of the default
\* arm is the resolution's own, and reads as one of the target.
JumpNamed(kind, value) == IF JumpKind(kind) \in ChainErrors THEN value ELSE ""

Supported(value) == value \notin Foreign

Begin(step, argument) ==
  /\ addressed = argument
  /\ listed = {}
  /\ row = ""
  /\ pc = step
  /\ target = ZeroHost
  /\ current = ZeroHost
  /\ hops = <<>>
  /\ visited = <<>>
  /\ verdict = Pending

\* With an argument, or without one: then the user is shown the list.
InitAddressed == \E argument \in Addressed : Begin("start", argument)
InitList == Begin("list", "")
Init == config \in Configs /\ (InitAddressed \/ InitList)

-----------------------------------------------------------------------------
Finish(v) == pc' = "done" /\ verdict' = v

\* A file that cannot be read lists nobody, like one that is not there.
HostList == IF config.ok THEN DOMAIN config.hosts ELSE {}

ShowList ==
  /\ pc = "list"
  /\ HostList # {}
  /\ listed' = HostList
  /\ pc' = "choose"
  /\ UNCHANGED <<file, row, target, current, hops, visited, verdict>>

NothingToShow ==
  /\ pc = "list"
  /\ HostList = {}
  /\ Finish(Verdict("no_hosts", "", <<>>, <<>>))
  /\ UNCHANGED <<file, menu, target, current, hops, visited>>

\* Defect: the row's number is looked up in a list made anew, where rows moved.
ChooseInNewList ==
  /\ pc = "choose"
  /\ \E name \in listed, number \in HostList :
       /\ row' = name
       /\ addressed' = number
       /\ HostList = listed => number = name
  /\ pc' = "start"
  /\ UNCHANGED <<config, listed, target, current, hops, visited, verdict>>

\* Anything but the number of a row is asked for again.
Choose ==
  /\ pc = "choose"
  /\ \E name \in listed : row' = name /\ addressed' = name
  /\ pc' = "start"
  /\ UNCHANGED <<config, listed, target, current, hops, visited, verdict>>

\* No terminal, or the input ends.
NoChoice ==
  /\ pc = "choose"
  /\ Finish(Verdict("no_choice", "", <<>>, <<>>))
  /\ UNCHANGED <<file, menu, target, current, hops, visited>>

\* The command resolves its argument, or the chosen name, and enters the walk.
ResolveTarget ==
  /\ pc = "start"
  /\ \E outcome \in Resolve(config, addressed) :
       /\ outcome.kind = "ok"
       /\ target' = outcome.host
       /\ current' = outcome.host
       /\ visited' = <<outcome.host.name>>
  /\ pc' = "walk"
  /\ listed' = {} /\ row' = ""
  /\ UNCHANGED <<file, hops, verdict>>

\* The command reports the resolution failure of its own argument.
FailTarget ==
  /\ pc = "start"
  /\ \E outcome \in Resolve(config, addressed) :
       /\ outcome.kind # "ok"
       /\ Finish(Verdict(outcome.kind, "", <<>>, <<>>))
  /\ UNCHANGED <<file, menu, target, current, hops, visited>>

\* Defect: the hops are handed over in the order they were found.
DialOrderWalked(walked) == walked

\* Callers dial the outermost hop first.
DialOrder(walked) == Reverse(walked)

ReachDirect ==
  /\ pc = "walk"
  /\ IsDirect(Value)
  /\ Finish(Verdict("chain", "", <<>>, DialOrder(hops)))
  /\ UNCHANGED <<file, menu, target, current, hops, visited>>

RejectSpelling ==
  /\ pc = "walk"
  /\ ~IsDirect(Value)
  /\ ~Supported(Value)
  /\ Finish(Verdict("unsupported", Value, <<>>, <<>>))
  /\ UNCHANGED <<file, menu, target, current, hops, visited>>

\* The outcomes of resolving the current host's jump host.
JumpOutcomes ==
  IF pc = "walk" /\ ~IsDirect(Value) /\ Supported(Value)
  THEN Resolve(config, Value) ELSE {}

FailHop ==
  /\ \E outcome \in JumpOutcomes :
       /\ outcome.kind # "ok"
       /\ Finish(Verdict(JumpKind(outcome.kind), JumpNamed(outcome.kind, Value), <<>>, <<>>))
  /\ UNCHANGED <<file, menu, target, current, hops, visited>>

\* Defect: only the current host is looked at.
IsVisitedCurrent(name) == name = current.name

IsVisited(name) == \E i \in 1..Len(visited) : visited[i] = name

\* Defect: the tail leading into the cycle is reported with it.
CycleWithTail(name) == Append(visited, name)

\* Only the cycle: the tail leading into it is not the problem.
Cycle(name) ==
  LET first == CHOOSE i \in 1..Len(visited) :
                 visited[i] = name /\ \A j \in 1..(i - 1) : visited[j] # name
  IN  Append(SubSeq(visited, first, Len(visited)), name)

\* Defect: a host already on the walk is passed through instead of refused.
CloseLoopPassing ==
  /\ \E outcome \in JumpOutcomes :
       /\ outcome.kind = "ok"
       /\ IsVisited(outcome.host.name)
       /\ current' = outcome.host
  /\ UNCHANGED <<file, menu, pc, target, hops, visited, verdict>>

CloseLoop ==
  /\ \E outcome \in JumpOutcomes :
       /\ outcome.kind = "ok"
       /\ IsVisited(outcome.host.name)
       /\ Finish(Verdict("loop", "", Cycle(outcome.host.name), <<>>))
  /\ UNCHANGED <<file, menu, target, current, hops, visited>>

ExtendChain ==
  /\ \E outcome \in JumpOutcomes :
       /\ outcome.kind = "ok"
       /\ ~IsVisited(outcome.host.name)
       /\ hops' = Append(hops, outcome.host)
       /\ visited' = Append(visited, outcome.host.name)
       /\ current' = outcome.host
  /\ UNCHANGED <<file, menu, pc, target, verdict>>

\* Another invocation of sshgo saves the metadata file.
Rewrite ==
  /\ config' \in Configs
  /\ UNCHANGED <<addressed, menu, walk>>

\* The command has its answer.
Terminating == pc = "done" /\ UNCHANGED vars

-----------------------------------------------------------------------------
Step ==
  \/ ShowList \/ NothingToShow
  \/ ResolveTarget \/ FailTarget
  \/ ReachDirect \/ RejectSpelling \/ FailHop \/ CloseLoop \/ ExtendChain

Answer == Choose \/ NoChoice

Next == Step \/ Answer \/ Rewrite \/ Terminating
QuietNext == Step \/ Answer \/ Terminating

Spec == Init /\ [][Next]_vars
\* Nobody rewrites the file during the walk.
QuietSpec == Init /\ [][QuietNext]_vars
\* The walk is straight-line code: it keeps being scheduled.  Nobody has to
\* choose.
FairSpec == Spec /\ WF_vars(Step)

-----------------------------------------------------------------------------
TypeOK ==
  /\ IsLoadedConfig(config)
  /\ addressed \in Str
  /\ listed \subseteq Str /\ row \in Str
  /\ pc \in {"list", "choose", "start", "walk", "done"}
  /\ target \in Resolved \cup {ZeroHost}
  /\ current \in Resolved \cup {ZeroHost}
  /\ hops \in Seq(Resolved)
  /\ visited \in Seq(Str)
  /\ verdict \in [kind : Kinds, jump : Str, path : Seq(Str), chain : Seq(Resolved)]

(***************************************************************************)
(* No Host is dialled twice: the hops of a chain are distinct Hosts,       *)
(* and none of them is the target, whatever happens to the file during the *)
(* walk and however a Host is spelled (by name, by alias, with spaces).    *)
(***************************************************************************)
NoHostTwice ==
  verdict.kind = "chain" =>
    LET chain == verdict.chain IN
    \A i \in 1..Len(chain) :
      /\ chain[i].name # target.name
      /\ \A j \in 1..Len(chain) : chain[i].name = chain[j].name => i = j

(***************************************************************************)
(* Dialling in order works: the first host is reachable without a jump,    *)
(* every other one is dialled from the host its own proxy-jump addresses,  *)
(* and the last hop is the one the target's proxy-jump addresses.          *)
(***************************************************************************)
ChainLinked ==
  verdict.kind = "chain" =>
    LET route == Append(verdict.chain, target) IN
    /\ IsDirect(TrimSpace[route[1].proxyJump])
    /\ \A i \in 2..Len(route) :
         route[i - 1].addressed = TrimSpace[route[i].proxyJump]

(***************************************************************************)
(* A reported loop is a cycle and nothing else: it returns to the host it  *)
(* leaves from, repeats no other, and has no tail leading into it.         *)
(***************************************************************************)
LoopPathIsCycle ==
  verdict.kind = "loop" =>
    LET path == verdict.path IN
    /\ Len(path) > 1
    /\ path[1] = path[Len(path)]
    /\ \A i, j \in 1..(Len(path) - 1) : path[i] = path[j] => i = j
    /\ path[Len(path) - 1] = current.name

(***************************************************************************)
(* Who is chosen in the list is who is dialled: if the file still has the  *)
(* name that was on the chosen row, that Host is the target, though it may *)
(* have changed, moved to another row, or share its name with an alias     *)
(* since the list was shown.                                               *)
(***************************************************************************)
ChosenIsTarget ==
  [][pc = "start" /\ pc' = "walk" /\ listed # {} /\ row \in DOMAIN config.hosts =>
       target'.name = row]_vars

(***************************************************************************)
(* The walk ends, even if the file is rewritten at every step and even if  *)
(* what it holds never stops pointing outward: names run out.              *)
(***************************************************************************)
Termination == pc = "start" ~> pc = "done"

(***************************************************************************)
(* On a file nobody rewrites, in which no two hosts share an alias and no  *)
(* name reads as an address, the walk gives the answer the jump graph      *)
(* holds, once, and keeps it.                                              *)
(***************************************************************************)
Graph == INSTANCE JumpGraph WITH
  answer <- [kind |-> verdict.kind, jump |-> verdict.jump,
             chain |-> ToSet(verdict.chain), cycle |-> ToSet(verdict.path)]

ImplementsJumpGraph == Graph!Spec

(***************************************************************************)
(* A bare name addresses the Host of that name, or the Host that declares  *)
(* it as its alias, and nothing else: a miss is an error, never a guess.   *)
(***************************************************************************)
BareNameIsDeclared ==
  target # ZeroHost /\ addressed \notin DirectAddress =>
    addressed # "" /\ addressed \in {target.name, config.hosts[target.name].alias}

-----------------------------------------------------------------------------
(***************************************************************************)
(* The inductive invariant behind TypeOK, NoHostTwice, ChainLinked and     *)
(* LoopPathIsCycle: how the walk's four variables track each other, and    *)
(* what a verdict remembers of them.                                       *)
(***************************************************************************)
WalkTracked ==
  /\ pc \in {"list", "choose", "start"} => visited = <<>>
  /\ pc = "walk" => visited # <<>>
  /\ visited = <<>> => hops = <<>>
  /\ visited # <<>> =>
       /\ target \in Resolved
       /\ Len(visited) = Len(hops) + 1
       /\ visited[1] = target.name
       /\ \A i \in 1..Len(hops) : visited[i + 1] = hops[i].name
       /\ current = IF hops = <<>> THEN target ELSE hops[Len(hops)]

VisitedOnce == \A i, j \in 1..Len(visited) : visited[i] = visited[j] => i = j

HopsLinked ==
  \A i \in 1..Len(hops) :
    hops[i].addressed = TrimSpace[(IF i = 1 THEN target ELSE hops[i - 1]).proxyJump]

VerdictTracked ==
  /\ pc # "done" => verdict = Pending
  /\ verdict.kind = "chain" =>
       visited # <<>> /\ verdict.chain = Reverse(hops) /\ IsDirect(Value)

IInv ==
  TypeOK /\ WalkTracked /\ VisitedOnce /\ HopsLinked /\ VerdictTracked /\ LoopPathIsCycle

\* Behind ChosenIsTarget: what is resolved after a choice is the row chosen.
MenuTracked == pc = "start" /\ listed # {} => addressed = row

(***************************************************************************)
(* Behind ImplementsJumpGraph, on a file nobody rewrites: the target and   *)
(* every hop are what the file says they are, and so is the verdict.       *)
(***************************************************************************)
From(i) == IF i = 1 THEN target ELSE hops[i - 1]
Addresses(r, value) == value = TrimSpace[r.proxyJump] /\ ~IsDirect(value) /\ Supported(value)

Followed ==
  /\ IF visited = <<>> THEN target = ZeroHost ELSE Found(target) \in Resolve(config, addressed)
  /\ \A i \in 1..Len(hops) :
       \E value \in Str : Addresses(From(i), value) /\ Found(hops[i]) \in Resolve(config, value)

\* The verdict is the one of where the walk ended.
Settled ==
  pc = "done" =>
    IF visited = <<>>
    THEN \E o \in Resolve(config, addressed) :
           o.kind # "ok" /\ verdict = Verdict(o.kind, "", <<>>, <<>>)
    ELSE IF IsDirect(Value) THEN verdict = Verdict("chain", "", <<>>, DialOrder(hops))
    ELSE IF ~Supported(Value) THEN verdict = Verdict("unsupported", Value, <<>>, <<>>)
    ELSE \E o \in Resolve(config, Value) :
           IF o.kind # "ok"
           THEN verdict = Verdict(JumpKind(o.kind), JumpNamed(o.kind, Value), <<>>, <<>>)
           ELSE /\ IsVisited(o.host.name)
                /\ verdict = Verdict("loop", "", Cycle(o.host.name), <<>>)

QuietInv ==
  /\ IInv /\ Followed /\ Settled
  /\ config \in Configs /\ pc \notin {"list", "choose"}
=============================================================================
