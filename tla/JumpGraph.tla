----------------------------- MODULE JumpGraph -----------------------------
(***************************************************************************)
(* What a jump chain's verdict promises, said of the file and not of the   *)
(* walk: a metadata file is a graph in which every host points at its jump *)
(* host, and the answer for a target is read off what the target reaches.  *)
(* There is no visited list, no order and no loop here.                    *)
(*                                                                         *)
(* It is the specification ResolveChain's callers rely on when nobody      *)
(* rewrites the file, no two hosts share an alias, and none is named like  *)
(* an address: a proxy-jump that reads as one is an address, and a Host of *)
(* that name would then be met twice without a loop.                       *)
(***************************************************************************)
EXTENDS Hosts, FiniteSets

CONSTANTS Configs, Addressed

VARIABLES
  config,     \* the metadata file
  addressed,  \* what the user typed
  answer      \* what the user is told

vars == <<config, addressed, answer>>

Answer(kind, jump, chain, cycle) ==
  [kind |-> kind, jump |-> jump, chain |-> chain, cycle |-> cycle]
Unanswered == Answer("none", "", {}, {})

PointsAt(r) == TrimSpace[r.proxyJump]
EndsAt(r) == PointsAt(r) \in {"", "none"}

\* What r's proxy-jump leads to.
Outcomes(r) ==
  IF EndsAt(r) THEN {}
  ELSE IF PointsAt(r) \in Foreign THEN {Failed("unsupported")}
  ELSE Resolve(config, PointsAt(r))

JumpHosts(r) == {o.host : o \in {p \in Outcomes(r) : p.kind = "ok"}}
Broken(r) == {o.kind : o \in {p \in Outcomes(r) : p.kind # "ok"}}

\* The hosts reached from a set of them; a path is no longer than the file.
Reach(start) ==
  LET longest == Cardinality(DOMAIN config.hosts) + 3
      within[n \in 0..longest] ==
        IF n = 0 THEN start
        ELSE LET nearer == within[n - 1]
             IN  nearer \cup UNION {JumpHosts(r) : r \in nearer}
  IN  within[longest]

OnCycle(r) == r.name \in {s.name : s \in Reach(JumpHosts(r))}

\* A jump host's failure is reported in the words of the chain, where it has any.
Reported(kind) ==
  CASE kind = "not_found"  -> "jump_not_found"
    [] kind = "no_details" -> "jump_no_details"
    [] OTHER               -> kind

\* Those name the jump host; an IPv6 value or an unreadable file is reported in
\* the words of the resolution, and nothing says at which host.
Named(kind, r) ==
  IF kind \in {"not_found", "no_details", "unsupported"} THEN PointsAt(r) ELSE ""

ChainAnswers(target) ==
  LET reach == Reach({target}) IN
  IF \E r \in reach : EndsAt(r)
  THEN {Answer("chain", "", reach \ {target}, {})}
  ELSE IF \E r \in reach : Broken(r) # {}
  THEN UNION {{Answer(Reported(k), Named(k, r), {}, {}) : k \in Broken(r)} : r \in reach}
  ELSE {Answer("loop", "", {}, {r.name : r \in {s \in reach : OnCycle(s)}})}

Answers ==
  UNION {IF o.kind = "ok" THEN ChainAnswers(o.host) ELSE {Answer(o.kind, "", {}, {})}
         : o \in Resolve(config, addressed)}

Init ==
  /\ config \in Configs
  /\ addressed \in Addressed
  /\ answer = Unanswered

\* One answer, for good.
Reply ==
  /\ answer = Unanswered
  /\ answer' # Unanswered
  /\ answer' \in Answers
  /\ UNCHANGED <<config, addressed>>

Spec == Init /\ [][Reply]_vars
=============================================================================
