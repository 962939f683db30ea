--------------------------- MODULE ConnectProofs ---------------------------
(***************************************************************************)
(* Proofs about Connect for routes of every length: what a connection      *)
(* holds at any moment, whichever step fails and whatever the peers do.    *)
(***************************************************************************)
EXTENDS Connect, SequenceTheorems, TLAPS

\* Adding the host just dialled keeps Chain's list in the order of the route.
LEMMA AppendClient ==
  ASSUME NEW s \in Seq(Hosts), NEW h \in Hosts, h = Len(s) + 1,
         \A i \in 1..Len(s) : s[i] = i
  PROVE  /\ Append(s, h) \in Seq(Hosts)
         /\ Len(Append(s, h)) = h
         /\ \A i \in 1..Len(Append(s, h)) : Append(s, h)[i] = i
<1>1. /\ Append(s, h) \in Seq(Hosts)
      /\ Len(Append(s, h)) = Len(s) + 1
      /\ \A i \in 1..Len(s) : Append(s, h)[i] = s[i]
      /\ Append(s, h)[Len(s) + 1] = h
  BY AppendProperties
<1>2. Len(s) \in Nat
  BY LenProperties
<1> QED
  BY <1>1, <1>2

\* Nothing is held before the route is resolved.
LEMMA InitInv == Init => IInv
<1> SUFFICES ASSUME Init PROVE IInv
  OBVIOUS
<1> USE DEF Init
<1>1. TypeOK
  <2>1. 1 \in Hosts /\ 0 \in 0..MaxHosts
    BY MaxHostsAssumption DEF Hosts
  <2>2. clients \in Seq(Hosts)
    BY EmptySeq
  <2>3. err.hop = 0 /\ fault.host = 0
    BY DEF NoError, Error, NoFault, Fault
  <2>4. input \in [form : {"plain", "sudo", "sudo_S"}, fed : BOOLEAN]
    BY DEF Input
  <2> HIDE DEF Init
  <2>5. /\ mode \in {"exec", "command", "shell"} /\ sudo \in BOOLEAN /\ pc = "resolve"
        /\ n = 1 /\ at = 1 /\ closing = 0 /\ raw = FALSE /\ agent = FALSE
        /\ session = "none" /\ exit = 0 /\ started = FALSE
        /\ open = {} /\ dead = {} /\ mute = {}
    BY DEF Init
  <2>6. /\ n \in Hosts /\ at \in Hosts /\ closing \in 0..MaxHosts
        /\ err.hop \in 0..MaxHosts /\ exit \in 0..2 /\ fault.host \in 0..MaxHosts
    BY <2>1, <2>3, <2>5
  <2>7. raw \in BOOLEAN /\ agent \in BOOLEAN /\ started \in BOOLEAN
    BY <2>5
  <2> QED
    BY <2>2, <2>4, <2>5, <2>6, <2>7 DEF TypeOK
<1>2. ClientsFollowRoute /\ OpenIsPrefix
  BY DEF ClientsFollowRoute, OpenIsPrefix, Dialling, Connected
<1>3. HeldOnlyWhileUsed /\ FedLate
  BY DEF HeldOnlyWhileUsed, FedLate, SudoReadsWhatIsFed, Dialling, Input
<1> QED
  BY <1>1, <1>2, <1>3 DEF IInv

\* A failed dial closes what the hop held and hands the rest to the cleanup.
LEMMA DialFailsInv ==
  ASSUME IInv, pc \in Dialling, NEW types, DialFails(types)
  PROVE  IInv'
<1> USE DEF DialFails, IInv
<1>1. /\ Len(clients) \in Nat /\ at \in Hosts /\ Hosts = 1..MaxHosts
      /\ Len(clients) = at - 1 /\ open = 1..Len(clients)
  BY LenProperties, MaxHostsAssumption
  DEF TypeOK, ClientsFollowRoute, OpenIsPrefix, Hosts, Dialling
<1>2. Len(clients) \in 0..MaxHosts /\ at \in 0..MaxHosts /\ n \in 0..MaxHosts
  BY <1>1, MaxHostsAssumption DEF TypeOK
<1>3. err'.hop \in 0..MaxHosts /\ fault'.host \in 0..MaxHosts
  <2>1. JumpFailure(types).hop = at
    BY DEF JumpFailure, Error
  <2>2. TargetFailure(types).hop \in {0, n}
    BY DEF TargetFailure, Error
  <2> QED
    BY <1>2, <2>1, <2>2, MaxHostsAssumption DEF Fault
<1>4. TypeOK'
  <2>1. /\ closing' \in 0..MaxHosts /\ exit' \in 0..2 /\ pc' = "unwind"
        /\ raw' = FALSE /\ agent' = FALSE
        /\ UNCHANGED <<mode, sudo, n, at, clients, open, session, input, started, dead, mute>>
    BY <1>2 DEF peers, flags
  <2> HIDE DEF DialFails
  <2> QED
    BY <1>3, <2>1 DEF TypeOK
<1>5. ClientsFollowRoute'
  BY DEF ClientsFollowRoute, Dialling, Connected
<1>6. OpenIsPrefix'
  BY <1>1 DEF OpenIsPrefix
<1>7. HeldOnlyWhileUsed' /\ FedLate'
  BY DEF HeldOnlyWhileUsed, FedLate, SudoReadsWhatIsFed, Dialling
<1> QED
  BY <1>4, <1>5, <1>6, <1>7

\* A caller that returns closes its session and hands the chain to the cleanup.
LEMMA ReturnInv ==
  ASSUME IInv, pc \in {"session", "run"}, NEW code \in 0..2, NEW types,
         Return(code, types), UNCHANGED fault \/ Fails, started' \in BOOLEAN
  PROVE  IInv'
<1> USE DEF Return, IInv
<1>1. /\ Len(clients) \in 0..MaxHosts /\ n \in 0..MaxHosts /\ 0 \in 0..MaxHosts
      /\ open = 1..Len(clients)
  BY MaxHostsAssumption DEF TypeOK, ClientsFollowRoute, OpenIsPrefix, Hosts, Connected
<1>2. err'.hop = 0 /\ (fault' = fault \/ fault'.host = n)
  BY DEF Error, Fails, Fault
<1>3. TypeOK'
  BY <1>1, <1>2 DEF TypeOK, peers, flags
<1>4. ClientsFollowRoute'
  BY DEF ClientsFollowRoute, Dialling, Connected
<1>5. OpenIsPrefix'
  BY <1>1 DEF OpenIsPrefix
<1>6. HeldOnlyWhileUsed' /\ FedLate'
  BY DEF HeldOnlyWhileUsed, FedLate, SudoReadsWhatIsFed, Dialling, TypeOK
<1> QED
  BY <1>3, <1>4, <1>5, <1>6

\* Every step of the program and of its peers keeps the invariant.
LEMMA NextInv == IInv /\ [Next]_vars => IInv'
<1> SUFFICES ASSUME IInv, [Next]_vars PROVE IInv'
  OBVIOUS
<1> USE DEF IInv, flags, peers, Dialling, Connected
<1>1. CASE ResolveRoute
  <2> USE <1>1 DEF ResolveRoute
  <2>1. n' \in Hosts /\ 1 <= n'
    BY DEF Hosts
  <2>2. TypeOK'
    BY <2>1 DEF TypeOK
  <2>3. ClientsFollowRoute' /\ OpenIsPrefix'
    BY <2>1 DEF ClientsFollowRoute, OpenIsPrefix
  <2>4. HeldOnlyWhileUsed' /\ FedLate'
    BY DEF HeldOnlyWhileUsed, FedLate, SudoReadsWhatIsFed
  <2> QED
    BY <2>2, <2>3, <2>4
<1>2. CASE RejectRoute
  <2> USE <1>2 DEF RejectRoute
  <2>1. err'.hop = 0 /\ fault'.host = 0 /\ 0 \in 0..MaxHosts
    BY MaxHostsAssumption DEF Error, Fault
  <2>2. TypeOK'
    BY <2>1 DEF TypeOK
  <2>3. ClientsFollowRoute' /\ OpenIsPrefix'
    BY EmptySeq DEF ClientsFollowRoute, OpenIsPrefix
  <2>4. HeldOnlyWhileUsed' /\ FedLate'
    BY DEF HeldOnlyWhileUsed, FedLate, SudoReadsWhatIsFed
  <2> QED
    BY <2>2, <2>3, <2>4
<1>3. CASE HopAuth
  <2> USE <1>3 DEF HopAuth
  <2>1. TypeOK'
    BY DEF TypeOK
  <2>2. ClientsFollowRoute' /\ OpenIsPrefix'
    BY DEF ClientsFollowRoute, OpenIsPrefix
  <2>3. HeldOnlyWhileUsed' /\ FedLate'
    BY DEF HeldOnlyWhileUsed, FedLate, SudoReadsWhatIsFed
  <2> QED
    BY <2>1, <2>2, <2>3
<1>4. CASE HopAuthFails
  BY <1>4, DialFailsInv DEF HopAuthFails
<1>5. CASE Reach
  <2> USE <1>5 DEF Reach
  <2>1. TypeOK'
    BY DEF TypeOK
  <2>2. ClientsFollowRoute' /\ OpenIsPrefix'
    BY DEF ClientsFollowRoute, OpenIsPrefix
  <2>3. HeldOnlyWhileUsed' /\ FedLate'
    BY DEF HeldOnlyWhileUsed, FedLate, SudoReadsWhatIsFed
  <2> QED
    BY <2>1, <2>2, <2>3
<1>6. CASE ReachFails
  BY <1>6, DialFailsInv DEF ReachFails
<1>7. CASE Handshake
  <2> USE DEF Handshake
  <2>1. /\ pc = "handshake" /\ at \in Hosts /\ n \in Hosts /\ at <= n
        /\ clients \in Seq(Hosts) /\ Len(clients) \in Nat /\ at = Len(clients) + 1
        /\ open = 1..Len(clients) /\ Hosts = 1..MaxHosts
    BY <1>7, LenProperties DEF TypeOK, ClientsFollowRoute, OpenIsPrefix, Hosts
  <2>2. /\ clients' \in Seq(Hosts) /\ Len(clients') = at
        /\ \A i \in 1..Len(clients') : clients'[i] = i
    BY <1>7, <2>1, AppendClient DEF ClientsFollowRoute
  <2>3. open' = 1..at
    BY <1>7, <2>1
  <2>4. \/ at < n /\ at' = at + 1 /\ pc' = "auth"
        \/ at = n /\ at' = at /\ pc' = "connected"
    BY <1>7, <2>1
  <2>5. at' \in Hosts /\ at' <= n /\ n' = n
    BY <1>7, <2>1, <2>4, MaxHostsAssumption
  <2>6. TypeOK'
    BY <1>7, <2>1, <2>2, <2>3, <2>4, <2>5 DEF TypeOK
  <2>7. ClientsFollowRoute'
    BY <2>1, <2>2, <2>4, <2>5 DEF ClientsFollowRoute
  <2>8. OpenIsPrefix'
    BY <2>2, <2>3, <2>4 DEF OpenIsPrefix
  <2>9. HeldOnlyWhileUsed' /\ FedLate'
    BY <1>7, <2>1, <2>4 DEF HeldOnlyWhileUsed, FedLate, SudoReadsWhatIsFed
  <2> QED
    BY <2>6, <2>7, <2>8, <2>9
<1>8. CASE HandshakeFails
  BY <1>8, DialFailsInv DEF HandshakeFails
<1>9. CASE PrepareCommand
  <2> USE <1>9 DEF PrepareCommand
  <2>1. PICK password \in SudoPasswords :
          input' = Input(SudoForm(password), SudoFed(password))
    OBVIOUS
  <2>2. /\ input' \in [form : {"plain", "sudo", "sudo_S"}, fed : BOOLEAN]
        /\ input'.fed <=> input'.form = "sudo_S"
    BY <2>1 DEF Input, SudoForm, SudoFed, TypeOK
  <2>3. TypeOK'
    BY <2>2 DEF TypeOK
  <2>4. ClientsFollowRoute' /\ OpenIsPrefix'
    BY DEF ClientsFollowRoute, OpenIsPrefix
  <2>5. HeldOnlyWhileUsed'
    BY DEF HeldOnlyWhileUsed
  <2>6. FedLate'
    BY <2>2 DEF FedLate, SudoReadsWhatIsFed, ClientsFollowRoute
  <2> QED
    BY <2>3, <2>4, <2>5, <2>6
<1>10. CASE NewSession
  <2> USE <1>10 DEF NewSession
  <2>1. TypeOK'
    BY DEF TypeOK
  <2>2. ClientsFollowRoute' /\ OpenIsPrefix'
    BY DEF ClientsFollowRoute, OpenIsPrefix
  <2>3. HeldOnlyWhileUsed' /\ FedLate'
    BY DEF HeldOnlyWhileUsed, FedLate, SudoReadsWhatIsFed, ClientsFollowRoute, OpenIsPrefix
  <2> QED
    BY <2>1, <2>2, <2>3
<1>11. CASE NewSessionFails
  BY <1>11, ReturnInv DEF NewSessionFails, TypeOK
<1>12. CASE CommandEnds
  BY <1>12, ReturnInv DEF CommandEnds
<1>13. CASE CommandLost
  BY <1>13, ReturnInv DEF CommandLost
<1>14. CASE ShellFails
  BY <1>14, ReturnInv DEF ShellFails, TypeOK
<1>15. CASE ShellEnds \/ ShellLost
  <2>1. CASE ShellEnds
    BY <2>1, ReturnInv DEF ShellEnds
  <2>2. CASE ShellLost
    BY <2>2, ReturnInv DEF ShellLost
  <2> QED BY <1>15, <2>1, <2>2
<1>16. CASE CloseNext
  <2> USE <1>16 DEF CloseNext
  <2>1. /\ closing \in Nat /\ closing > 0 /\ closing \in 1..Len(clients)
        /\ closing - 1 \in 0..MaxHosts /\ closing - 1 <= Len(clients)
    BY LenProperties, MaxHostsAssumption DEF TypeOK, OpenIsPrefix
  <2>2. open' = (1..closing) \ {closing}
    BY <2>1 DEF OpenIsPrefix, ClientsFollowRoute
  <2>3. open' = 1..(closing - 1)
    BY <2>1, <2>2
  <2>4. TypeOK'
    BY <2>1 DEF TypeOK
  <2>5. ClientsFollowRoute'
    BY DEF ClientsFollowRoute
  <2>6. OpenIsPrefix'
    BY <2>1, <2>3 DEF OpenIsPrefix
  <2>7. HeldOnlyWhileUsed' /\ FedLate'
    BY DEF HeldOnlyWhileUsed, FedLate, SudoReadsWhatIsFed
  <2> QED
    BY <2>4, <2>5, <2>6, <2>7
<1>17. CASE Report
  <2> USE <1>17 DEF Report
  <2>1. TypeOK'
    BY DEF TypeOK
  <2>2. ClientsFollowRoute' /\ OpenIsPrefix'
    BY DEF ClientsFollowRoute, OpenIsPrefix
  <2>3. HeldOnlyWhileUsed' /\ FedLate'
    BY DEF HeldOnlyWhileUsed, FedLate, SudoReadsWhatIsFed
  <2> QED
    BY <2>1, <2>2, <2>3
<1>18. CASE Environment
  <2>1. UNCHANGED program /\ dead' \subseteq Hosts /\ mute' \subseteq Hosts
    <3>1. PICK i \in 1..n : Lose(i) \/ FallSilent(i)
      BY <1>18 DEF Environment
    <3>2. i \in Hosts
      BY MaxHostsAssumption DEF TypeOK, Hosts
    <3> QED
      BY <3>1, <3>2 DEF Lose, FallSilent, TypeOK
  <2>2. TypeOK'
    BY <2>1 DEF TypeOK, program
  <2>3. ClientsFollowRoute' /\ OpenIsPrefix'
    BY <2>1 DEF ClientsFollowRoute, OpenIsPrefix, program
  <2>4. HeldOnlyWhileUsed' /\ FedLate'
    BY <2>1 DEF HeldOnlyWhileUsed, FedLate, SudoReadsWhatIsFed, program
  <2> QED
    BY <2>2, <2>3, <2>4
<1>19. CASE UNCHANGED vars
  <2> USE <1>19 DEF vars
  <2>1. TypeOK'
    BY DEF TypeOK
  <2>2. ClientsFollowRoute' /\ OpenIsPrefix'
    BY DEF ClientsFollowRoute, OpenIsPrefix
  <2>3. HeldOnlyWhileUsed' /\ FedLate'
    BY DEF HeldOnlyWhileUsed, FedLate, SudoReadsWhatIsFed
  <2> QED
    BY <2>1, <2>2, <2>3
<1> QED
  BY <1>1, <1>2, <1>3, <1>4, <1>5, <1>6, <1>7, <1>8, <1>9, <1>10, <1>11, <1>12,
     <1>13, <1>14, <1>15, <1>16, <1>17, <1>18, <1>19 DEF Next, Step, Idle

-----------------------------------------------------------------------------
\* The invariant holds in every reachable state.
THEOREM ConnectionInvariant == Spec => []IInv
<1> QED
  BY InitInv, NextInv, PTL DEF Spec

\* Every variable keeps its type.
THEOREM TypeCorrect == Spec => []TypeOK
<1>1. IInv => TypeOK
  BY DEF IInv
<1> QED
  BY <1>1, ConnectionInvariant, PTL

\* Whatever failed, nothing is held once the program is done.
THEOREM NothingLeftAlways == Spec => []NothingLeft
<1>1. IInv => NothingLeft
  BY DEF IInv, NothingLeft, OpenIsPrefix, HeldOnlyWhileUsed
<1> QED
  BY <1>1, ConnectionInvariant, PTL

\* No client outlives a client its tunnel runs through.
THEOREM TunnelsAreCarriedAlways == Spec => []TunnelsAreCarried
<1>1. IInv => TunnelsAreCarried
  <2> SUFFICES ASSUME IInv, NEW i \in open PROVE 1..i \subseteq open
    BY DEF TunnelsAreCarried
  <2>1. PICK k \in Nat : open = 1..k
    <3>1. Len(clients) \in Nat /\ closing \in Nat
      BY LenProperties DEF IInv, TypeOK
    <3> QED
      BY <3>1 DEF IInv, OpenIsPrefix
  <2> QED
    BY <2>1
<1> QED
  BY <1>1, ConnectionInvariant, PTL

\* Agent sockets, half-open connections and sessions are held only in their step.
THEOREM HeldOnlyWhileUsedAlways == Spec => []HeldOnlyWhileUsed
<1>1. IInv => HeldOnlyWhileUsed
  BY DEF IInv
<1> QED
  BY <1>1, ConnectionInvariant, PTL

\* sudo reads a password exactly when one is fed, and only on the target.
THEOREM SudoReadsWhatIsFedAlways == Spec => []SudoReadsWhatIsFed
<1>1. IInv => SudoReadsWhatIsFed
  BY DEF IInv, FedLate
<1> QED
  BY <1>1, ConnectionInvariant, PTL

-----------------------------------------------------------------------------
(* What is reported: the error a failed dial makes, and how it is shown.   *)

\* The labels that come before "no_auth" and "auth", and the last of them.
LEMMA LabelOrder ==
  ASSUME mode \in {"exec", "command", "shell"}
  PROVE  /\ 1..Len(Labels) = IF mode = "exec" THEN 1..6 ELSE 1..5
         /\ Labels[1] = "chain" /\ Labels[2] = "jump" /\ Labels[3] = "jump_no_auth"
         /\ Labels[4] = "target_no_auth"
         /\ mode = "exec" => Labels[5] = "no_auth" /\ Labels[6] = "auth"
         /\ mode # "exec" => Labels[5] = "auth"
<1>1. CASE mode = "exec"
  BY <1>1 DEF Labels
<1>2. CASE mode # "exec"
  BY <1>2 DEF Labels
<1> QED
  BY <1>1, <1>2

\* The first label that an error carries is what is shown of it.
LEMMA FirstLabelIsShown ==
  ASSUME NEW e, NEW k \in 1..Len(Labels), Labels[k] \in e.types,
         ~(e.types \subseteq SessionLabels),
         \A m \in 1..Len(Labels) : Labels[m] \in e.types => k <= m
  PROVE  Message(e) = Labels[k]
<1> DEFINE found == {m \in 1..Len(Labels) : Labels[m] \in e.types}
<1>1. k \in found /\ \A m \in found : k <= m
  OBVIOUS
<1>2. found \subseteq Int
  OBVIOUS
<1>3. ASSUME NEW j \in found, \A m \in found : j <= m PROVE j = k
  BY <1>1, <1>2, <1>3
<1>4. (CHOOSE j \in found : \A m \in found : j <= m) = k
  <2> HIDE DEF found
  <2> QED BY <1>1, <1>3
<1>5. e.types # {} /\ found # {}
  BY <1>1
<1> QED
  BY <1>4, <1>5 DEF Message

\* A jump host's failure is shown as one, whatever it was.
LEMMA JumpFailureShown ==
  ASSUME mode \in {"exec", "command", "shell"}, NEW phase \in Dialling
  PROVE  LET e == JumpFailure(DialTypes(phase)) IN
         Message(e) \in {"jump", "jump_no_auth"} /\ e.hop = at
<1> DEFINE e == JumpFailure(DialTypes(phase))
<1>1. /\ e.hop = at
      /\ e.types \in {{"jump_no_auth"}, {"jump", "dial"}, {"jump", "auth"}}
  BY DEF JumpFailure, DialTypes, Error
<1> HIDE DEF e
<1>2. ~(e.types \subseteq SessionLabels)
  BY <1>1 DEF SessionLabels
<1>3. CASE e.types = {"jump_no_auth"}
  <2>1. Message(e) = Labels[3]
    BY <1>2, <1>3, LabelOrder, FirstLabelIsShown
  <2> QED BY <1>1, <2>1, LabelOrder DEF e
<1>4. CASE "jump" \in e.types
  <2>1. Message(e) = Labels[2]
    BY <1>1, <1>2, <1>4, LabelOrder, FirstLabelIsShown
  <2> QED BY <1>1, <2>1, LabelOrder DEF e
<1> QED
  BY <1>1, <1>3, <1>4

\* The target's is shown as its own: an authentication or a connection error.
LEMMA TargetFailureShown ==
  ASSUME mode \in {"exec", "command", "shell"}, NEW phase \in Dialling
  PROVE  LET e == TargetFailure(DialTypes(phase)) IN
         IF phase = "auth" THEN Message(e) \in {"no_auth", "auth", "target_no_auth"}
         ELSE Message(e) = "connection"
<1> DEFINE e == TargetFailure(DialTypes(phase))
<1>1. CASE phase # "auth"
  <2>1. e.types = {"dial"}
    BY <1>1 DEF TargetFailure, DialTypes, Error
  <2> HIDE DEF e
  <2>2. {k \in 1..Len(Labels) : Labels[k] \in e.types} = {}
    BY <2>1, LabelOrder
  <2>3. Message(e) = "connection"
    BY <2>1, <2>2 DEF Message, SessionLabels
  <2> QED BY <1>1, <2>3 DEF e
<1>2. CASE phase = "auth"
  <2>1. \/ mode = "exec" /\ e.types \in {{"no_auth"}, {"target_no_auth", "no_auth"}}
        \/ mode # "exec" /\ e.types = {"auth"}
    BY <1>2 DEF TargetFailure, DialTypes, Error
  <2> HIDE DEF e
  <2>2. ~(e.types \subseteq SessionLabels)
    BY <2>1 DEF SessionLabels
  <2>3. CASE mode = "exec" /\ e.types = {"no_auth"}
    <3>1. Message(e) = Labels[5]
      BY <2>2, <2>3, LabelOrder, FirstLabelIsShown
    <3> QED BY <1>2, <2>3, <3>1, LabelOrder DEF e
  <2>4. CASE mode = "exec" /\ e.types = {"target_no_auth", "no_auth"}
    <3>1. Message(e) = Labels[4]
      BY <2>2, <2>4, LabelOrder, FirstLabelIsShown
    <3> QED BY <1>2, <3>1, LabelOrder DEF e
  <2>5. CASE mode # "exec" /\ e.types = {"auth"}
    <3>1. Message(e) = Labels[5]
      BY <2>2, <2>5, LabelOrder, FirstLabelIsShown
    <3> QED BY <1>2, <2>5, <3>1, LabelOrder DEF e
  <2> QED BY <2>1, <2>3, <2>4, <2>5
<1> QED
  BY <1>1, <1>2

LEMMA InitResult == Init => ResultInv
BY DEF Init, ResultInv, FaultTracked, ResultTracked, NoFault, Fault, Dialling

\* A failed dial makes the error that FaultTracked says.
LEMMA DialFailsResult ==
  ASSUME ResultInv, pc \in Dialling, DialFails(DialTypes(pc))
  PROVE  ResultInv'
<1> USE DEF ResultInv, DialFails, flags, Dialling
<1>1. fault' = Fault(at, pc) /\ fault'.host = at /\ fault'.phase = pc /\ mode' = mode
  BY DEF Fault
<1>2. FaultTracked'
  BY <1>1 DEF FaultTracked, JumpFailure, TargetFailure, DialTypes
<1>3. ResultTracked'
  BY <1>1 DEF ResultTracked
<1> QED
  BY <1>2, <1>3

\* A caller that returns 0 has seen the command run and nothing fail but a shell.
LEMMA ReturnResult ==
  ASSUME ResultInv, pc \in {"session", "run"}, NEW code, NEW types, Return(code, types),
         UNCHANGED fault \/ Fails,
         code = 0 => /\ types = {} /\ started'
                     /\ UNCHANGED fault \/ (mode = "shell" /\ pc = "run")
  PROVE  ResultInv'
<1> USE DEF ResultInv, Return, flags
<1>1. /\ fault = NoFault /\ mode' = mode /\ fault' \in {NoFault, Fault(n, pc)}
      /\ fault' = NoFault \/ fault'.phase = pc
  BY DEF FaultTracked, Fails, Fault
<1>2. fault'.phase \notin Dialling
  BY <1>1 DEF NoFault, Fault, Dialling
<1>3. FaultTracked'
  BY <1>2 DEF FaultTracked
<1>4. ResultTracked'
  BY <1>1 DEF ResultTracked, Error, CutOffShell
<1> QED
  BY <1>3, <1>4

\* The steps that come before the end and fail nothing.
LEMMA OtherResult ==
  ASSUME ResultInv, UNCHANGED <<mode, err, exit, fault, started, shown>>,
         pc' # "done",
         \/ pc' \notin {"unwind", "done"} /\ pc \notin {"unwind", "done"}
         \/ pc' = "unwind" /\ pc = "unwind" /\ UNCHANGED <<at, n>>
  PROVE  ResultInv'
<1> USE DEF ResultInv
<1>1. CASE pc' \notin {"unwind", "done"} /\ pc \notin {"unwind", "done"}
  BY <1>1 DEF FaultTracked, ResultTracked, NoFault, Fault, Dialling
<1>2. CASE pc' = "unwind" /\ pc = "unwind" /\ UNCHANGED <<at, n>>
  <2>1. FaultTracked'
    BY <1>2 DEF FaultTracked, JumpFailure, TargetFailure, DialTypes
  <2>2. ResultTracked'
    BY <1>2 DEF ResultTracked, CutOffShell
  <2> QED BY <2>1, <2>2
<1> QED
  BY <1>1, <1>2

\* Every step keeps track of the result.
LEMMA NextResult == ResultInv /\ [Next]_vars => ResultInv'
<1> SUFFICES ASSUME ResultInv, [Next]_vars PROVE ResultInv'
  OBVIOUS
<1> USE DEF flags, Dialling
<1>1. CASE ResolveRoute
  BY <1>1, OtherResult DEF ResolveRoute
<1>2. CASE RejectRoute
  BY <1>2 DEF RejectRoute, ResultInv, FaultTracked, ResultTracked, Fault
<1>3. CASE HopAuth
  BY <1>3, OtherResult DEF HopAuth
<1>4. CASE HopAuthFails
  BY <1>4, DialFailsResult DEF HopAuthFails, DialTypes
<1>5. CASE Reach
  BY <1>5, OtherResult DEF Reach
<1>6. CASE ReachFails
  BY <1>6, DialFailsResult DEF ReachFails, DialTypes
<1>7. CASE Handshake
  <2>1. pc' \in {"auth", "connected"} /\ UNCHANGED <<mode, err, exit, fault, started, shown>>
    BY <1>7 DEF Handshake
  <2> QED BY <1>7, <2>1, OtherResult DEF Handshake
<1>8. CASE HandshakeFails
  BY <1>8, DialFailsResult DEF HandshakeFails, DialTypes
<1>9. CASE PrepareCommand
  BY <1>9, OtherResult DEF PrepareCommand
<1>10. CASE NewSession
  BY <1>10, OtherResult DEF NewSession
<1>11. CASE NewSessionFails
  BY <1>11, ReturnResult DEF NewSessionFails
<1>12. CASE CommandEnds
  BY <1>12, ReturnResult DEF CommandEnds
<1>13. CASE CommandLost
  BY <1>13, ReturnResult DEF CommandLost
<1>14. CASE ShellFails
  BY <1>14, ReturnResult DEF ShellFails
<1>15. CASE ShellEnds \/ ShellLost
  <2>1. CASE ShellEnds
    BY <2>1, ReturnResult DEF ShellEnds
  <2>2. CASE ShellLost
    BY <2>2, ReturnResult DEF ShellLost
  <2> QED BY <1>15, <2>1, <2>2
<1>16. CASE CloseNext
  BY <1>16, OtherResult DEF CloseNext
<1>17. CASE Report
  <2>1. FaultTracked'
    BY <1>17 DEF Report, ResultInv, FaultTracked, JumpFailure, TargetFailure, DialTypes
  <2>2. ResultTracked'
    BY <1>17 DEF Report, ResultInv, ResultTracked, CutOffShell, Message, Labels
  <2> QED BY <2>1, <2>2 DEF ResultInv
<1>18. CASE UNCHANGED program
  <2>1. FaultTracked'
    BY <1>18 DEF program, ResultInv, FaultTracked, JumpFailure, TargetFailure, DialTypes
  <2>2. ResultTracked'
    BY <1>18 DEF program, ResultInv, ResultTracked, CutOffShell, Message, Labels
  <2> QED BY <2>1, <2>2 DEF ResultInv
<1>19. Environment \/ UNCHANGED vars => UNCHANGED program
  BY DEF Environment, Lose, FallSilent, vars, program
<1> QED
  BY <1>1, <1>2, <1>3, <1>4, <1>5, <1>6, <1>7, <1>8, <1>9, <1>10, <1>11, <1>12,
     <1>13, <1>14, <1>15, <1>16, <1>17, <1>18, <1>19 DEF Next, Step, Idle

(***************************************************************************)
(* What is known of the error, the fault and the exit code at every step.  *)
(***************************************************************************)
THEOREM ResultInvariant == Spec => []ResultInv
<1> QED
  BY InitResult, NextResult, PTL DEF Spec

(***************************************************************************)
(* On a route of any length, a hop that fails is named as a jump host, and *)
(* the target is never mistaken for one.                                   *)
(***************************************************************************)
THEOREM BlamesTheRightHostAlways == Spec => []BlamesTheRightHost
<1>1. IInv /\ ResultInv => BlamesTheRightHost
  <2> SUFFICES ASSUME IInv, ResultInv, pc = "done", fault.phase \in Dialling
               PROVE  IF fault.host < n
                      THEN shown \in {"jump", "jump_no_auth"} /\ err.hop = fault.host
                      ELSE IF fault.phase = "auth"
                      THEN shown \in {"no_auth", "auth", "target_no_auth"}
                      ELSE shown = "connection"
    BY DEF BlamesTheRightHost, Dialling
  <2>1. /\ shown = Message(err) /\ fault.host = at
        /\ err = IF at < n THEN JumpFailure(DialTypes(fault.phase))
                           ELSE TargetFailure(DialTypes(fault.phase))
        /\ mode \in {"exec", "command", "shell"}
    BY DEF ResultInv, FaultTracked, ResultTracked
  <2>2. CASE at < n
    BY <2>1, <2>2, JumpFailureShown
  <2>3. CASE ~(at < n)
    BY <2>1, <2>3, TargetFailureShown
  <2> QED BY <2>2, <2>3
<1> QED
  BY <1>1, ConnectionInvariant, ResultInvariant, PTL

(***************************************************************************)
(* On a route of any length, exit code 0 is never the code of a failure,   *)
(* wherever it happened, but of a shell that was cut off.                  *)
(***************************************************************************)
THEOREM ZeroMeansItRanAlways == Spec => []ZeroMeansItRan
<1>1. ResultInv => ZeroMeansItRan
  BY DEF ResultInv, ResultTracked, ZeroMeansItRan, Message
<1> QED
  BY <1>1, ResultInvariant, PTL
=============================================================================
