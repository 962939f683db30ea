------------------------------ MODULE Connect ------------------------------
(***************************************************************************)
(* One connection of one invocation, from the resolved chain to the exit   *)
(* code: connect.Chain and dialHop (internal/connect/chain.go), the        *)
(* session helpers (internal/connect/session.go) and the two callers,      *)
(* executeRemote (internal/cli/exec.go) and connectToHost                  *)
(* (internal/cli/cli.go).                                                  *)
(*                                                                         *)
(* The route has n hosts: 1 is the outermost hop, n the target.  Host i+1  *)
(* is dialled through the client of host i.  At any time a connection may  *)
(* be lost, or a peer may stop answering without closing anything.         *)
(***************************************************************************)
EXTENDS Naturals, Sequences

CONSTANT MaxHosts  \* the bound on the length of a route, the target included

ASSUME MaxHostsAssumption == MaxHosts \in Nat \ {0}

Hosts == 1..MaxHosts

VARIABLES
  mode,     \* "exec", "command" (login with one command), "shell" (login)
  sudo,     \* the --sudo flag of exec
  pc,       \* the step the program is at
  n,        \* the length of the route
  at,       \* the host being dialled
  clients,  \* Chain's list of clients, as positions on the route
  open,     \* the clients not closed yet
  closing,  \* how many clients the cleanup has still to close
  raw,      \* a connection to host `at' that is not a client yet
  agent,    \* an SSH agent socket is held for host `at'
  session,  \* "none", "open" or "closed"
  input,    \* how sudo is run, and whether a password is on its stdin
  err,      \* the error: the types in its chain of causes, and the hop it names
  exit,     \* the exit code
  shown,    \* the message printed
  fault,    \* history: where the first failure happened, and in which phase
  started,  \* history: the remote command may have run
  dead,     \* the hosts whose connection was lost
  mute      \* the hosts that stopped answering

program == <<mode, sudo, pc, n, at, clients, open, closing, raw, agent, session,
             input, err, exit, shown, fault, started>>
peers == <<dead, mute>>
vars == <<mode, sudo, pc, n, at, clients, open, closing, raw, agent, session,
          input, err, exit, shown, fault, started, dead, mute>>
flags == <<mode, sudo>>

Error(types, hop) == [types |-> types, hop |-> hop]
NoError == Error({}, 0)
Fault(host, phase) == [host |-> host, phase |-> phase]
NoFault == Fault(0, "none")
Input(form, fed) == [form |-> form, fed |-> fed]

Init ==
  /\ mode \in {"exec", "command", "shell"}
  /\ sudo \in BOOLEAN
  /\ sudo => mode = "exec"
  /\ pc = "resolve"
  /\ n = 1
  /\ at = 1
  /\ clients = <<>>
  /\ open = {}
  /\ closing = 0
  /\ raw = FALSE
  /\ agent = FALSE
  /\ session = "none"
  /\ input = Input("plain", FALSE)
  /\ err = NoError
  /\ exit = 0
  /\ shown = "nothing"
  /\ fault = NoFault
  /\ started = FALSE
  /\ dead = {}
  /\ mute = {}

-----------------------------------------------------------------------------
(* What the network lets the program observe.                              *)

\* A request through the first k hosts is answered.
Answered(k) == 1..k \cap (dead \cup mute) = {}

\* The loss of a connection is noticed unless a silent host hides it.
Severed(k) == \E i \in 1..k : i \in dead /\ 1..(i - 1) \cap mute = {}

\* The connection to host i is lost: it crashed, or the link is gone.
Lose(i) ==
  /\ i \in open \/ (raw /\ i = at)
  /\ dead' = dead \cup {i}
  /\ UNCHANGED <<program, mute>>

\* Host i stops answering.
FallSilent(i) ==
  /\ mute' = mute \cup {i}
  /\ UNCHANGED <<program, dead>>

-----------------------------------------------------------------------------
(* Resolution and dialling.                                                *)

\* ResolveChain succeeds: the route is known before anything is dialled.
ResolveRoute ==
  /\ pc = "resolve"
  /\ n' \in Hosts
  /\ pc' = "auth"
  /\ UNCHANGED <<flags, at, clients, open, closing, raw, agent, session, input,
                 err, exit, shown, fault, started, peers>>

\* It fails with a ChainError, or with a resolution error it does not wrap.
RejectRoute ==
  /\ pc = "resolve"
  /\ \E types \in {{"chain"}, {"raw"}} : err' = Error(types, 0)
  /\ exit' = 1
  /\ fault' = Fault(0, "resolve")
  /\ pc' = "unwind"
  /\ UNCHANGED <<flags, n, at, clients, open, closing, raw, agent, session, input,
                 shown, started, peers>>

\* wrapJumpFailure.
JumpFailure(types) ==
  IF "no_auth" \in types THEN Error({"jump_no_auth"}, at) ELSE Error({"jump"} \cup types, at)

\* Only a chained target is named.
TargetFailure(types) ==
  IF n > 1 /\ "no_auth" \in types THEN Error({"target_no_auth"} \cup types, n)
  ELSE Error(types, 0)

\* Defect: the connection under a failed handshake is not closed.
DialFailsKeepingRaw(types) ==
  /\ agent' = FALSE
  /\ err' = (IF at < n THEN JumpFailure(types) ELSE TargetFailure(types))
  /\ exit' = 1
  /\ fault' = Fault(at, pc)
  /\ closing' = Len(clients)
  /\ pc' = "unwind"
  /\ UNCHANGED <<flags, n, at, clients, open, raw, session, input, shown, started, peers>>

\* dialHop returns an error: its deferred calls run, then Chain's cleanup.
DialFails(types) ==
  /\ raw' = FALSE
  /\ agent' = FALSE
  /\ err' = (IF at < n THEN JumpFailure(types) ELSE TargetFailure(types))
  /\ exit' = 1
  /\ fault' = Fault(at, pc)
  /\ closing' = Len(clients)
  /\ pc' = "unwind"
  /\ UNCHANGED <<flags, n, at, clients, open, session, input, shown, started, peers>>

\* The strategy has methods to offer; the agent's keys may be among them.
HopAuth ==
  /\ pc = "auth"
  /\ agent' \in BOOLEAN
  /\ pc' = "tcp"
  /\ UNCHANGED <<flags, n, at, clients, open, closing, raw, session, input, err,
                 exit, shown, fault, started, peers>>

\* exec never asks, so it may have nothing to offer; a login asks, and the
\* prompt may fail.
HopAuthFails ==
  /\ pc = "auth"
  /\ DialFails(IF mode = "exec" THEN {"no_auth"} ELSE {"auth"})

\* A TCP connection, opened from here or by the previous host.
Reach ==
  /\ pc = "tcp"
  /\ Answered(at - 1)
  /\ raw' = TRUE
  /\ pc' = "handshake"
  /\ UNCHANGED <<flags, n, at, clients, open, closing, agent, session, input, err,
                 exit, shown, fault, started, peers>>

\* Defect: a tunnel that breaks under a dial goes unnoticed.
ReachFailsIfAnswered ==
  /\ pc = "tcp"
  /\ Answered(at - 1)
  /\ DialFails({"dial"})

ReachFails ==
  /\ pc = "tcp"
  /\ Answered(at - 1) \/ Severed(at - 1)
  /\ DialFails({"dial"})

\* Defect: the position moves on after the target, too.
HandshakePastTarget ==
  /\ pc = "handshake"
  /\ Answered(at)
  /\ raw' = FALSE
  /\ agent' = FALSE
  /\ clients' = Append(clients, at)
  /\ open' = open \cup {at}
  /\ at' = at + 1
  /\ pc' = (IF at < n THEN "auth" ELSE "connected")
  /\ UNCHANGED <<flags, n, closing, session, input, err, exit, shown, fault,
                 started, peers>>

\* Defect: the agent is released when the dial fails, not when it succeeds.
HandshakeKeepingAgent ==
  /\ pc = "handshake"
  /\ Answered(at)
  /\ raw' = FALSE
  /\ clients' = Append(clients, at)
  /\ open' = open \cup {at}
  /\ IF at < n THEN at' = at + 1 /\ pc' = "auth"
               ELSE at' = at /\ pc' = "connected"
  /\ UNCHANGED <<flags, n, closing, agent, session, input, err, exit, shown, fault,
                 started, peers>>

\* The handshake completes: the connection is a client now, and dialHop's
\* deferred release of the agent runs.
Handshake ==
  /\ pc = "handshake"
  /\ Answered(at)
  /\ raw' = FALSE
  /\ agent' = FALSE
  /\ clients' = Append(clients, at)
  /\ open' = open \cup {at}
  /\ IF at < n THEN at' = at + 1 /\ pc' = "auth"
               ELSE at' = at /\ pc' = "connected"
  /\ UNCHANGED <<flags, n, closing, session, input, err, exit, shown, fault,
                 started, peers>>

HandshakeFails ==
  /\ pc = "handshake"
  /\ Answered(at) \/ Severed(at)
  /\ DialFails({"dial"})

-----------------------------------------------------------------------------
(* The session on the target.                                              *)

\* The sudo password: absent, saved but empty, or typed or saved.
SudoPasswords == IF sudo THEN {"absent", "empty", "some"} ELSE {"absent"}

\* Defect: a saved password that is empty counts as a password.
SudoFormIfSaved(password) ==
  IF ~sudo THEN "plain" ELSE IF password # "absent" THEN "sudo_S" ELSE "sudo"

\* executeRemote's choice of command, and sudoInput's choice of stdin.
SudoForm(password) ==
  IF ~sudo THEN "plain" ELSE IF password = "some" THEN "sudo_S" ELSE "sudo"
SudoFed(password) == sudo /\ password = "some"

PrepareCommand ==
  /\ pc = "connected"
  /\ \E password \in SudoPasswords :
       input' = Input(SudoForm(password), SudoFed(password))
  /\ pc' = "session"
  /\ UNCHANGED <<flags, n, at, clients, open, closing, raw, agent, session, err,
                 exit, shown, fault, started, peers>>

NewSession ==
  /\ pc = "session"
  /\ Answered(n)
  /\ session' = "open"
  /\ pc' = "run"
  /\ UNCHANGED <<flags, n, at, clients, open, closing, raw, agent, input, err,
                 exit, shown, fault, started, peers>>

\* Nothing failed before: this is the first failure.
Fails == fault' = Fault(n, pc)

\* The caller returns `code', with the types of its error; its deferred calls
\* release the session, if any, and then the connections.
Return(code, types) ==
  /\ session' = (IF session = "open" THEN "closed" ELSE session)
  /\ exit' = code
  /\ err' = Error(types, 0)
  /\ closing' = Len(clients)
  /\ pc' = "unwind"
  /\ UNCHANGED <<flags, n, at, clients, open, raw, agent, input, shown, peers>>

NewSessionFails ==
  /\ pc = "session"
  /\ Answered(n) \/ Severed(n)
  /\ Return(1, {"session"})
  /\ Fails
  /\ UNCHANGED started

\* The command ran and reported its exit status.
CommandEnds ==
  /\ pc = "run"
  /\ mode # "shell"
  /\ Answered(n)
  /\ \E status \in 0..2 : Return(status, {})
  /\ started' = TRUE
  /\ UNCHANGED fault

\* Defect: a connection lost during the command is taken for its end.
CommandLostAsEnd ==
  /\ pc = "run"
  /\ mode # "shell"
  /\ Answered(n) \/ Severed(n)
  /\ Return(0, {})
  /\ Fails
  /\ started' \in BOOLEAN

\* No exit status: the request was refused or the connection was lost, before
\* or after the command started.  A login prints nothing about it.
CommandLost ==
  /\ pc = "run"
  /\ mode # "shell"
  /\ Answered(n) \/ Severed(n)
  /\ Return(1, IF mode = "exec" THEN {"run"} ELSE {})
  /\ Fails
  /\ started' \in BOOLEAN

\* The pseudo-terminal or the shell is refused.
ShellFails ==
  /\ pc = "run"
  /\ mode = "shell"
  /\ Answered(n) \/ Severed(n)
  /\ \E step \in {"pty", "shell"} : Return(1, {step})
  /\ Fails
  /\ UNCHANGED started

\* A shell that ends, with whatever status, is exit code 0.
ShellEnds ==
  /\ pc = "run"
  /\ mode = "shell"
  /\ Answered(n)
  /\ Return(0, {})
  /\ started' = TRUE
  /\ UNCHANGED fault

\* So is one whose connection is lost: the error of Wait is dropped.
ShellLost ==
  /\ pc = "run"
  /\ mode = "shell"
  /\ Severed(n)
  /\ Return(0, {})
  /\ Fails
  /\ started' = TRUE

-----------------------------------------------------------------------------
(* Release, and the message.                                               *)

\* Defect: the cleanup goes through the clients first to last.
CloseNextForward ==
  /\ pc = "unwind"
  /\ closing > 0
  /\ open' = open \ {clients[Len(clients) - closing + 1]}
  /\ closing' = closing - 1
  /\ UNCHANGED <<flags, pc, n, at, clients, raw, agent, session, input, err, exit,
                 shown, fault, started, peers>>

\* Defect: closing a client waits for its host to agree.
CloseNextIfAnswered ==
  /\ pc = "unwind"
  /\ closing > 0
  /\ Answered(clients[closing])
  /\ open' = open \ {clients[closing]}
  /\ closing' = closing - 1
  /\ UNCHANGED <<flags, pc, n, at, clients, raw, agent, session, input, err, exit,
                 shown, fault, started, peers>>

\* One turn of the cleanup's loop: the last client first.
CloseNext ==
  /\ pc = "unwind"
  /\ closing > 0
  /\ open' = open \ {clients[closing]}
  /\ closing' = closing - 1
  /\ UNCHANGED <<flags, pc, n, at, clients, raw, agent, session, input, err, exit,
                 shown, fault, started, peers>>

\* Defect: the failure to authenticate is recognised before the hop it is of.
LabelsAuthFirst ==
  (IF mode = "exec" THEN <<"no_auth", "auth">> ELSE <<"auth">>) \o
  <<"chain", "jump", "jump_no_auth", "target_no_auth">>

\* What each path tries to recognise in an error, in order.
Labels ==
  <<"chain", "jump", "jump_no_auth", "target_no_auth">> \o
  (IF mode = "exec" THEN <<"no_auth", "auth">> ELSE <<"auth">>)

SessionLabels == {"session", "run", "pty", "shell"}

Message(e) ==
  LET found == {k \in 1..Len(Labels) : Labels[k] \in e.types} IN
  IF e.types = {} THEN "nothing"
  ELSE IF e.types \subseteq SessionLabels THEN CHOOSE label \in e.types : TRUE
  ELSE IF found # {} THEN Labels[CHOOSE k \in found : \A m \in found : k <= m]
  ELSE IF mode # "exec" /\ "no_auth" \in e.types THEN "auth"
  ELSE "connection"

Report ==
  /\ pc = "unwind"
  /\ closing = 0
  /\ shown' = Message(err)
  /\ pc' = "done"
  /\ UNCHANGED <<flags, n, at, clients, open, closing, raw, agent, session, input,
                 err, exit, fault, started, peers>>

\* The process has exited, or waits for a peer that does not answer.
Idle == (pc = "done" \/ mute # {}) /\ UNCHANGED vars

-----------------------------------------------------------------------------
Step ==
  \/ ResolveRoute \/ RejectRoute
  \/ HopAuth \/ HopAuthFails \/ Reach \/ ReachFails \/ Handshake \/ HandshakeFails
  \/ PrepareCommand \/ NewSession \/ NewSessionFails
  \/ CommandEnds \/ CommandLost \/ ShellFails \/ ShellEnds \/ ShellLost
  \/ CloseNext \/ Report

Environment == \E i \in 1..n : Lose(i) \/ FallSilent(i)

Next == Step \/ (pc # "done" /\ Environment) \/ Idle

Spec == Init /\ [][Next]_vars

\* The program goes on whenever it does not wait for a peer, and a peer that has
\* not fallen silent answers.
FairSpec == Spec /\ WF_vars(Step)

-----------------------------------------------------------------------------
TypeOK ==
  /\ mode \in {"exec", "command", "shell"} /\ sudo \in BOOLEAN
  /\ pc \in {"resolve", "auth", "tcp", "handshake", "connected", "session", "run",
             "unwind", "done"}
  /\ n \in Hosts /\ at \in Hosts
  /\ clients \in Seq(Hosts) /\ open \subseteq Hosts /\ closing \in 0..MaxHosts
  /\ raw \in BOOLEAN /\ agent \in BOOLEAN
  /\ session \in {"none", "open", "closed"}
  /\ input \in [form : {"plain", "sudo", "sudo_S"}, fed : BOOLEAN]
  /\ err.hop \in 0..MaxHosts
  /\ exit \in 0..2
  /\ fault.host \in 0..MaxHosts
  /\ started \in BOOLEAN
  /\ dead \subseteq Hosts /\ mute \subseteq Hosts

(***************************************************************************)
(* Whatever failed, and wherever: when the program is done it holds no     *)
(* client, no half-open connection, no agent socket and no session.        *)
(***************************************************************************)
NothingLeft ==
  pc = "done" => open = {} /\ ~raw /\ ~agent /\ session # "open"

(***************************************************************************)
(* No client is open without the ones its tunnel runs through: dialling    *)
(* goes outward-in, and the cleanup, complete or cut short by a failure,   *)
(* inward-out.                                                             *)
(***************************************************************************)
TunnelsAreCarried == \A i \in open : 1..i \subseteq open

(***************************************************************************)
(* A hop's agent socket and half-open connection belong to that hop's dial *)
(* only, and a session is open only on top of the whole chain.             *)
(***************************************************************************)
HeldOnlyWhileUsed ==
  /\ agent => pc \in {"tcp", "handshake"}
  /\ raw => pc = "handshake"
  /\ session = "open" => pc = "run" /\ open = 1..n

(***************************************************************************)
(* The two ends of a chain are told apart: a hop that fails is named as a  *)
(* jump host, a target that fails never is, and a target for which there   *)
(* is no method to authenticate with, or whose prompt fails, is not        *)
(* reported as a failure to connect.  Credentials that the target refuses  *)
(* are: to dialHop the refusal is an error of the handshake.               *)
(***************************************************************************)
BlamesTheRightHost ==
  pc = "done" /\ fault.phase \in {"auth", "tcp", "handshake"} =>
    IF fault.host < n
    THEN shown \in {"jump", "jump_no_auth"} /\ err.hop = fault.host
    ELSE IF fault.phase = "auth"
    THEN shown \in {"no_auth", "auth", "target_no_auth"}
    ELSE shown = "connection"

(***************************************************************************)
(* Exit code 0 means the command (or the shell) ran, and nothing failed on *)
(* the way: neither a hop, nor the session, nor a connection lost midway.  *)
(* The one exception is a shell that is cut off: whatever ends it counts   *)
(* as its end, so exit code 0 does not tell that from a logout.            *)
(***************************************************************************)
CutOffShell == mode = "shell" /\ fault.phase = "run"

ZeroMeansItRan ==
  pc = "done" /\ exit = 0 =>
    started /\ shown = "nothing" /\ (fault = NoFault \/ CutOffShell)

(***************************************************************************)
(* `sudo -S' waits for a password on stdin, so it is chosen exactly when   *)
(* one is fed; a password is only ever fed to a session on the target.     *)
(***************************************************************************)
SudoReadsWhatIsFed ==
  /\ input.fed <=> input.form = "sudo_S"
  /\ input.fed => Len(clients) = n

(***************************************************************************)
(* If no peer falls silent, the program terminates: a refusal, a failed    *)
(* authentication or a lost connection never leaves it waiting.            *)
(***************************************************************************)
EndsIfAnswered == <>(pc = "done" \/ mute # {})

(***************************************************************************)
(* Releasing what was acquired needs no peer: once it starts it completes, *)
(* through silent and lost hosts alike.                                    *)
(***************************************************************************)
CleanupCompletes == pc = "unwind" ~> pc = "done"

(***************************************************************************)
(* exec's timeout bounds the TCP and handshake phase of a dial.            *)
(***************************************************************************)
DialIsBounded == (mode = "exec" /\ pc = "handshake") ~> pc # "handshake"

-----------------------------------------------------------------------------
(***************************************************************************)
(* The inductive invariant: Chain's list holds the route's hosts in order, *)
(* and what is open is a prefix of the route that only the cleanup cuts.   *)
(***************************************************************************)
Dialling == {"auth", "tcp", "handshake"}
Connected == {"connected", "session", "run"}

ClientsFollowRoute ==
  /\ at <= n
  /\ \A i \in 1..Len(clients) : clients[i] = i
  /\ pc = "resolve" => at = 1 /\ clients = <<>> /\ closing = 0
  /\ pc \in Dialling => Len(clients) = at - 1
  /\ pc \in Connected => Len(clients) = n

OpenIsPrefix ==
  /\ pc \notin {"unwind", "done"} => open = 1..Len(clients)
  /\ pc = "unwind" => closing <= Len(clients) /\ open = 1..closing
  /\ pc = "done" => open = {}

FedLate ==
  /\ pc \in {"resolve", "connected"} \cup Dialling => ~input.fed /\ input.form # "sudo_S"
  /\ SudoReadsWhatIsFed

IInv == TypeOK /\ ClientsFollowRoute /\ OpenIsPrefix /\ HeldOnlyWhileUsed /\ FedLate

(***************************************************************************)
(* And what the end remembers of it: a failed dial leaves its place and    *)
(* the error made of it, nothing is shown before the end, and exit code 0  *)
(* goes with a command that ran.                                           *)
(***************************************************************************)
DialTypes(phase) ==
  IF phase # "auth" THEN {"dial"} ELSE IF mode = "exec" THEN {"no_auth"} ELSE {"auth"}

FaultTracked ==
  /\ pc \notin {"unwind", "done"} => fault = NoFault
  /\ fault.phase \in Dialling =>
       /\ fault.host = at
       /\ err = IF at < n THEN JumpFailure(DialTypes(fault.phase))
                          ELSE TargetFailure(DialTypes(fault.phase))

ResultTracked ==
  /\ mode \in {"exec", "command", "shell"}
  /\ shown = IF pc = "done" THEN Message(err) ELSE "nothing"
  /\ pc \in {"unwind", "done"} /\ exit = 0 =>
       started /\ err.types = {} /\ (fault = NoFault \/ CutOffShell)

ResultInv == FaultTracked /\ ResultTracked
=============================================================================
