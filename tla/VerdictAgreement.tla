-------------------------- MODULE VerdictAgreement --------------------------
(***************************************************************************)
(* `info' and a connection, one after the other, on the same file and for  *)
(* the same argument.  Each resolves the chain for itself: runInfo and     *)
(* executeRemote (or connectToHost) share ResolveChain and no state        *)
(* (internal/cli/info.go, internal/cli/exec.go).                           *)
(***************************************************************************)
EXTENDS Hosts, FiniteSets

CONSTANTS Configs, Addressed

ASSUME ConfigAssumption ==
  \A c \in Configs : IsLoadedConfig(c) /\ IsFiniteSet(DOMAIN c.hosts)
ASSUME AddressedAssumption == Addressed \subseteq Str

VARIABLES
  config, addressed,
  infoPc, infoTarget, infoCurrent, infoHops, infoVisited, infoVerdict,
  dialPc, dialTarget, dialCurrent, dialHops, dialVisited, dialVerdict

infoWalk == <<infoPc, infoTarget, infoCurrent, infoHops, infoVisited, infoVerdict>>
dialWalk == <<dialPc, dialTarget, dialCurrent, dialHops, dialVisited, dialVerdict>>
vars == <<config, addressed, infoWalk, dialWalk>>

Info == INSTANCE JumpChain WITH
  pc <- infoPc, target <- infoTarget, current <- infoCurrent,
  hops <- infoHops, visited <- infoVisited, verdict <- infoVerdict,
  listed <- {}, row <- ""

Dial == INSTANCE JumpChain WITH
  pc <- dialPc, target <- dialTarget, current <- dialCurrent,
  hops <- dialHops, visited <- dialVisited, verdict <- dialVerdict,
  listed <- {}, row <- ""

Init ==
  /\ config \in Configs
  /\ \E argument \in Addressed :
       Info!Begin("start", argument) /\ Dial!Begin("start", argument)

\* `info' answers first; the connection is a later invocation.
RunInfo == Info!Step /\ UNCHANGED dialWalk
RunDial == infoPc = "done" /\ Dial!Step /\ UNCHANGED infoWalk

Terminating == dialPc = "done" /\ UNCHANGED vars

Next == RunInfo \/ RunDial \/ Terminating
Spec == Init /\ [][Next]_vars

-----------------------------------------------------------------------------
(***************************************************************************)
(* `info' reaches the same verdict as a connection: the same error, or the *)
(* same hops to the same target, when nothing changed between the two.     *)
(***************************************************************************)
SameVerdict ==
  dialPc = "done" => infoVerdict = dialVerdict /\ infoTarget = dialTarget

(***************************************************************************)
(* And that verdict is the one the jump graph holds: the chain, the broken *)
(* link, or the cycle without its tail.                                    *)
(***************************************************************************)
ImplementsJumpGraph == Info!ImplementsJumpGraph
=============================================================================
