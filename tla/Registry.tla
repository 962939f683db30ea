------------------------------ MODULE Registry ------------------------------
(***************************************************************************)
(* What the commands on the host list promise as long as they follow one   *)
(* another: each either changes exactly what it names, or changes nothing  *)
(* and says so, or, if it is cut short in the middle, leaves a list that   *)
(* can no longer be used.  Files, copies and loading do not exist here.    *)
(***************************************************************************)
EXTENDS Hosts

CONSTANTS Invocations, Commands, SshConfigs, Patterns, Start

VARIABLES
  hosts,    \* the host list, every entry with its provenance
  usable,   \* whether it can still be read
  ssh,      \* the contents of ~/.ssh/config
  command,  \* what each invocation runs
  phase,    \* "pending", "applied", "ok", "failed" or "killed"
  inTurn    \* whether the commands have followed one another so far

vars == <<hosts, usable, ssh, command, phase, inTurn>>

Fields == {"alias", "notes", "hostname", "port", "user", "identityFile", "proxyJump"}
OwnedByUser == {"alias", "notes"}
Importable == {n \in DOMAIN ssh : n # "" /\ n \notin Patterns}

Init ==
  /\ \E f \in Start :
       /\ DOMAIN hosts = DOMAIN f.hosts
       /\ \A n \in DOMAIN hosts :
            /\ hosts[n].source = DeriveSource(f.hosts[n])
            /\ \A k \in Fields : hosts[n][k] = f.hosts[n][k]
  /\ usable = TRUE
  /\ ssh \in SshConfigs
  /\ command \in [Invocations -> Commands]
  /\ phase = [i \in Invocations |-> "pending"]
  /\ inTurn = TRUE

-----------------------------------------------------------------------------
\* Nothing but the fields `changed' of host n differs.
OnlyDiffer(n, changed) ==
  /\ \A m \in DOMAIN hosts \ {n} : hosts'[m] = hosts[m]
  /\ n \in DOMAIN hosts =>
       \A k \in (Fields \cup {"source"}) \ changed : hosts'[n][k] = hosts[n][k]

FieldSet(n, key, value) ==
  /\ key \in Fields
  /\ DOMAIN hosts' = DOMAIN hosts \cup {n}
  /\ hosts'[n][key] = value
  /\ n \notin DOMAIN hosts =>
       hosts'[n].source = "manual" /\ \A k \in Fields \ {key} : hosts'[n][k] = ""
  /\ OnlyDiffer(n, {key})

FieldUnset(n, key) == n \in DOMAIN hosts /\ FieldSet(n, key, "")

HostRemoved(n) ==
  /\ DOMAIN hosts' = DOMAIN hosts \ {n}
  /\ \A m \in DOMAIN hosts' : hosts'[m] = hosts[m]

HostsImported ==
  /\ DOMAIN hosts' = DOMAIN hosts \cup Importable
  /\ \A n \in DOMAIN hosts \ Importable : hosts'[n] = hosts[n]
  /\ \A n \in Importable :
       /\ hosts'[n].source = "imported"
       /\ \A k \in Fields \ OwnedByUser : hosts'[n][k] = ssh[n][k]
       /\ \A k \in OwnedByUser :
            hosts'[n][k] = IF n \in DOMAIN hosts THEN hosts[n][k] ELSE ""

Effect(c) ==
  CASE c.op = "set"                   -> FieldSet(c.host, c.key, c.value)
    [] c.op = "unset" /\ c.key # "" -> FieldUnset(c.host, c.key)
    [] c.op = "unset" /\ c.key = "" -> HostRemoved(c.host)
    [] c.op = "import"                -> HostsImported

Move(i, from, to) ==
  /\ phase[i] = from
  /\ phase' = [phase EXCEPT ![i] = to]
  /\ UNCHANGED <<ssh, command>>

Apply(i) == usable /\ usable' = TRUE /\ Effect(command[i]) /\ Move(i, "pending", "applied")
Acknowledge(i) == Move(i, "applied", "ok") /\ UNCHANGED <<hosts, usable>>

\* Unsetting a field of a host that is not there: done, nothing to change.
Ignore(i) ==
  /\ usable = TRUE
  /\ command[i].op = "unset" /\ command[i].key # "" /\ command[i].host \notin DOMAIN hosts
  /\ Move(i, "pending", "ok")
  /\ UNCHANGED <<hosts, usable>>

Refuse(i) ==
  /\ \E end \in {"failed", "killed"} : Move(i, "pending", end)
  /\ UNCHANGED <<hosts, usable>>

Break(i) ==
  /\ \E end \in {"failed", "killed"} : Move(i, "applied", end)
  /\ usable' = FALSE

Work ==
  \E i \in Invocations :
    Apply(i) \/ Acknowledge(i) \/ Ignore(i) \/ Refuse(i) \/ Break(i)

\* Nothing is promised from the first overlap on.
Next == inTurn' = FALSE \/ (UNCHANGED inTurn /\ Work)

Spec == Init /\ [][Next]_vars
=============================================================================
