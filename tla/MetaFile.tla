------------------------------ MODULE MetaFile ------------------------------
(***************************************************************************)
(* The metadata file ~/.sshgo_config under several invocations of          *)
(* `config set', `unset', `remove' and `import': each one loads the file,  *)
(* changes its copy and saves the whole of it (internal/host/meta.go,      *)
(* internal/cli/config.go, internal/sshconfig/import.go).                  *)
(*                                                                         *)
(* Nothing keeps two invocations apart.  Save is os.WriteFile, which       *)
(* truncates the file and then writes it: two steps, with a failure, a     *)
(* kill or another invocation possible in between.                         *)
(***************************************************************************)
EXTENDS Hosts

CONSTANTS
  Invocations,  \* the invocations that will run
  Commands,     \* what each of them may run
  SshConfigs,   \* what ~/.ssh/config may hold: a function from names to details
  Patterns,     \* the names in it that are wildcards or negated
  Start         \* what the metadata file may hold at the start, NoFile included

Details == {"hostname", "port", "user", "identityFile", "proxyJump"}
OwnedFields == {"alias", "notes"}
Keys == Details \cup OwnedFields

\* "" is no key at all, and "source" stands for every word that is not a key.
Command ==
  [op : {"set", "unset", "import"}, host : Str, key : Keys \cup {"", "source"}, value : Str]

(***************************************************************************)
(* Contents of the file.  An empty or garbled one does not parse.          *)
(***************************************************************************)
Contents(kind, hosts) == [kind |-> kind, hosts |-> hosts]
Doc(hosts) == Contents("doc", hosts)
NoFile == Contents("absent", NoHosts)
EmptyFile == Contents("empty", NoHosts)
Garbled == Contents("garbled", NoHosts)
Readable(contents) == contents.kind \in {"absent", "doc"}

ASSUME CommandAssumption == Commands \subseteq Command
ASSUME SshConfigAssumption ==
  \A ssh \in SshConfigs :
    DOMAIN ssh \subseteq Str /\ ssh \in [DOMAIN ssh -> [Details -> Str]]
ASSUME StartAssumption ==
  \A f \in Start : IsHostMap(f.hosts) /\ (f = Doc(f.hosts) \/ f = NoFile)

VARIABLES
  file,     \* the contents of the metadata file
  ssh,      \* the contents of ~/.ssh/config, which sshgo never writes
  command,  \* what each invocation runs
  pc,       \* "start", "reload", "change", "save", "write" or "end"
  copy,     \* the hosts each invocation holds
  outcome,  \* "none", "ok", "failed" or "killed"
  first,    \* history: the file before any of them ran
  spoilt,   \* history: a save was cut short, or two of them overlapped
  inTurn    \* history: whether they have followed one another so far

given == <<ssh, command, first>>
vars == <<file, ssh, command, pc, copy, outcome, first, spoilt, inTurn>>

Init ==
  /\ file \in Start
  /\ first = file
  /\ ssh \in SshConfigs
  /\ command \in [Invocations -> Commands]
  /\ pc = [i \in Invocations |-> "start"]
  /\ copy = [i \in Invocations |-> NoHosts]
  /\ outcome = [i \in Invocations |-> "none"]
  /\ spoilt = FALSE
  /\ inTurn = TRUE

-----------------------------------------------------------------------------
(* What the commands do to the hosts they loaded.                          *)

\* Defect: the derived provenance is computed and dropped.
WithProvenanceDropped(hosts) == hosts

\* Entries written before provenance was persisted get it when they are loaded.
Labelled(meta) == [meta EXCEPT !.source = DeriveSource(meta)]
WithProvenance(hosts) == [n \in DOMAIN hosts |-> Labelled(hosts[n])]

Put(hosts, name, meta) ==
  [n \in DOMAIN hosts \cup {name} |-> IF n = name THEN meta ELSE hosts[n]]
Drop(hosts, name) == [n \in DOMAIN hosts \ {name} |-> hosts[n]]

EntryOf(hosts, name) ==
  IF name \in DOMAIN hosts THEN hosts[name] ELSE [NoMeta EXCEPT !.source = "manual"]

EditedEntry(meta, key, value) == [meta EXCEPT ![key] = value]

\* Defect: whoever edits an entry becomes where it came from.
SetFieldRelabelling(hosts, c) ==
  Put(hosts, c.host, [EditedEntry(EntryOf(hosts, c.host), c.key, c.value) EXCEPT !.source = "manual"])

SetField(hosts, c) == Put(hosts, c.host, EditedEntry(EntryOf(hosts, c.host), c.key, c.value))
UnsetField(hosts, c) == Put(hosts, c.host, EditedEntry(hosts[c.host], c.key, ""))

\* The names of ~/.ssh/config that can be Hosts.
Concrete(sshConfig) == {n \in DOMAIN sshConfig : n # "" /\ n \notin Patterns}

\* Defect: the entry is made anew from what ~/.ssh/config knows.
RefreshedDetailsOnly(meta, details) ==
  [f \in Details \cup {"source"} |-> IF f = "source" THEN "imported" ELSE details[f]]

\* What an import makes of an entry: details and provenance are refreshed.
Refreshed(meta, details) ==
  [meta EXCEPT !.source = "imported", !.hostname = details["hostname"],
               !.port = details["port"], !.user = details["user"],
               !.identityFile = details["identityFile"], !.proxyJump = details["proxyJump"]]

\* Defect: the snapshot starts from nothing rather than from the existing hosts.
BuildSnapshotAfresh(sshConfig, existing) ==
  [n \in Concrete(sshConfig) |-> Refreshed(EntryOf(existing, n), sshConfig[n])]

BuildSnapshot(sshConfig, existing) ==
  [n \in DOMAIN existing \cup Concrete(sshConfig) |->
     IF n \in Concrete(sshConfig)
     THEN Refreshed(EntryOf(existing, n), sshConfig[n])
     ELSE existing[n]]

Imports(c) == c.op = "import"
Removes(c) == c.op = "unset" /\ c.key = ""
\* The key is none of the field names, so the command is an error.
BadKey(c, hosts) ==
  /\ ~Imports(c)
  /\ c.key \notin Keys
  /\ c.op = "set" \/ (c.key # "" /\ c.host \in DOMAIN hosts)
\* Unsetting a field of a Host that does not exist succeeds and saves nothing.
NothingToDo(c, hosts) == c.op = "unset" /\ c.key # "" /\ c.host \notin DOMAIN hosts

Changed(c, hosts) ==
  IF Imports(c) THEN BuildSnapshot(ssh, hosts)
  ELSE IF Removes(c) THEN Drop(hosts, c.host)
  ELSE IF c.op = "set" THEN SetField(hosts, c) ELSE UnsetField(hosts, c)

-----------------------------------------------------------------------------
Goto(i, step) == pc' = [pc EXCEPT ![i] = step]
End(i, result) == Goto(i, "end") /\ outcome' = [outcome EXCEPT ![i] = result]

\* Defect: a file that does not parse is taken for an empty one.
LoadAnything(i) ==
  /\ pc[i] \in {"start", "reload"}
  /\ copy' = [copy EXCEPT ![i] = WithProvenance(file.hosts)]
  /\ Goto(i, IF pc[i] = "start" /\ Imports(command[i]) THEN "reload" ELSE "change")
  /\ UNCHANGED <<given, file, outcome, spoilt>>

\* runConfig loads the file for every subcommand; import then loads it again.
Load(i) ==
  /\ pc[i] \in {"start", "reload"}
  /\ Readable(file)
  /\ copy' = [copy EXCEPT ![i] = WithProvenance(file.hosts)]
  /\ Goto(i, IF pc[i] = "start" /\ Imports(command[i]) THEN "reload" ELSE "change")
  /\ UNCHANGED <<given, file, outcome, spoilt>>

\* The file does not parse, or it (or ~/.ssh/config) cannot be read.
LoadFails(i) ==
  /\ pc[i] \in {"start", "reload"}
  /\ End(i, "failed")
  /\ UNCHANGED <<given, file, copy, spoilt>>

Change(i) ==
  /\ pc[i] = "change"
  /\ ~BadKey(command[i], copy[i]) /\ ~NothingToDo(command[i], copy[i])
  /\ copy' = [copy EXCEPT ![i] = Changed(command[i], copy[i])]
  /\ Goto(i, "save")
  /\ UNCHANGED <<given, file, outcome, spoilt>>

\* Defect: the file is opened for writing before the key is looked at.
RejectOpened(i) ==
  /\ pc[i] = "change"
  /\ BadKey(command[i], copy[i])
  /\ file' = EmptyFile
  /\ End(i, "failed")
  /\ UNCHANGED <<given, copy, spoilt>>

Reject(i) ==
  /\ pc[i] = "change"
  /\ BadKey(command[i], copy[i])
  /\ End(i, "failed")
  /\ UNCHANGED <<given, file, copy, spoilt>>

Skip(i) ==
  /\ pc[i] = "change"
  /\ NothingToDo(command[i], copy[i])
  /\ End(i, "ok")
  /\ UNCHANGED <<given, file, copy, spoilt>>

Truncate(i) ==
  /\ pc[i] = "save"
  /\ file' = EmptyFile
  /\ Goto(i, "write")
  /\ spoilt' = (spoilt \/ \E j \in Invocations : pc[j] = "write")
  /\ UNCHANGED <<given, copy, outcome>>

OpenFails(i) ==
  /\ pc[i] = "save"
  /\ End(i, "failed")
  /\ UNCHANGED <<given, file, copy, spoilt>>

\* Written from the start of the file over what another invocation may have
\* written there since the truncation: if that was longer, its tail stays.
Overlaid(hosts) ==
  IF file \in {EmptyFile, Doc(hosts)} THEN {Doc(hosts)} ELSE {Doc(hosts), Garbled}

Write(i) ==
  /\ pc[i] = "write"
  /\ file' \in Overlaid(copy[i])
  /\ End(i, "ok")
  /\ UNCHANGED <<given, copy, spoilt>>

\* The disk is full: nothing, or only a part, is written.
WriteFails(i) ==
  /\ pc[i] = "write"
  /\ file' \in {file, Garbled}
  /\ End(i, "failed")
  /\ spoilt' = TRUE
  /\ UNCHANGED <<given, copy>>

\* The process is interrupted, or the machine goes down.
Kill(i) ==
  /\ pc[i] # "end"
  /\ End(i, "killed")
  /\ spoilt' = (spoilt \/ pc[i] = "write")
  /\ UNCHANGED <<given, file, copy>>

Terminating == (\A i \in Invocations : pc[i] = "end") /\ UNCHANGED vars

-----------------------------------------------------------------------------
Run(i) ==
  \/ Load(i) \/ LoadFails(i) \/ Change(i) \/ Reject(i) \/ Skip(i)
  \/ Truncate(i) \/ OpenFails(i) \/ Write(i) \/ WriteFails(i) \/ Kill(i)

Alone(i) == \A j \in Invocations \ {i} : pc[j] \in {"start", "end"}

Next ==
  \/ \E i \in Invocations : Run(i) /\ inTurn' = (inTurn /\ Alone(i))
  \/ Terminating

Spec == Init /\ [][Next]_vars

-----------------------------------------------------------------------------
TypeOK ==
  /\ file.kind \in {"absent", "doc", "empty", "garbled"}
  /\ file = Contents(file.kind, file.hosts) /\ IsHostMap(file.hosts)
  /\ ssh \in SshConfigs /\ first \in Start
  /\ command \in [Invocations -> Commands]
  /\ pc \in [Invocations -> {"start", "reload", "change", "save", "write", "end"}]
  /\ DOMAIN copy = Invocations /\ \A i \in Invocations : IsHostMap(copy[i])
  /\ outcome \in [Invocations -> {"none", "ok", "failed", "killed"}]
  /\ spoilt \in BOOLEAN /\ inTurn \in BOOLEAN

(***************************************************************************)
(* A file at rest is readable unless a save was cut short in the middle or *)
(* two saves overlapped: no command, no bad key and no failed load leaves  *)
(* behind a file that nobody can load any more.                            *)
(***************************************************************************)
ReadableUnlessSpoilt ==
  (\A i \in Invocations : pc[i] # "write") /\ ~spoilt => Readable(file)

\* Who is named by a command: the Host removed, imported, or edited in field f.
Removed(n) == \E i \in Invocations : Removes(command[i]) /\ command[i].host = n
Imported(n) == n \in Concrete(ssh) /\ \E i \in Invocations : Imports(command[i])
Edited(n, f) ==
  \/ \E i \in Invocations :
       ~Imports(command[i]) /\ command[i].host = n /\ command[i].key = f
  \/ f \in Details /\ Imported(n)

(***************************************************************************)
(* Overlapping invocations lose at most what they change: a Host nobody    *)
(* removes is still there, and a field of it that no command addresses     *)
(* holds what it held.  An import counts as addressing the details of the  *)
(* Hosts it names, never their alias or notes, and deletes nothing.        *)
(***************************************************************************)
KeepsUntouched(hosts) ==
  \A n \in DOMAIN first.hosts :
    ~Removed(n) =>
      /\ n \in DOMAIN hosts
      /\ \A f \in Keys : ~Edited(n, f) => hosts[n][f] = first.hosts[n][f]

UntouchedSurvives == file.kind = "doc" => KeepsUntouched(file.hosts)

(***************************************************************************)
(* Provenance is where an entry came from: it survives every edit, in      *)
(* files that persist it and in older ones that do not, and only an import *)
(* of the Host, or its removal, can give it another.                       *)
(***************************************************************************)
KeepsProvenance(hosts) ==
  \A n \in DOMAIN first.hosts \cap DOMAIN hosts :
    ~Removed(n) /\ ~Imported(n) => DeriveSource(hosts[n]) = DeriveSource(first.hosts[n])

ProvenanceKept == file.kind = "doc" => KeepsProvenance(file.hosts)

(***************************************************************************)
(* A file nobody can load is left to its owner: no command takes it for an *)
(* empty one and saves over it.  It also means that sshgo never recovers   *)
(* by itself from a save that was cut short.                               *)
(***************************************************************************)
Holding == {"change", "save", "write"}
Lost == ~Readable(file) /\ \A i \in Invocations : pc[i] \notin Holding
BrokenFileIsLeftAlone == [][Lost => Lost']_vars

(***************************************************************************)
(* As long as they follow one another, the commands are atomic operations  *)
(* on a registry of hosts.  A save that is under way has happened.         *)
(***************************************************************************)
Saving == {i \in Invocations : pc[i] = "write"}

HeldHosts ==
  IF Saving # {} THEN copy[CHOOSE i \in Saving : TRUE]
  ELSE IF Readable(file) THEN WithProvenance(file.hosts)
  ELSE NoHosts

Phase ==
  [i \in Invocations |->
     IF pc[i] = "end" THEN outcome[i] ELSE IF pc[i] = "write" THEN "applied" ELSE "pending"]

Registry == INSTANCE Registry WITH
  hosts <- HeldHosts, usable <- Readable(file) \/ Saving # {}, phase <- Phase

ImplementsRegistry == Registry!Spec

-----------------------------------------------------------------------------
(***************************************************************************)
(* The inductive invariant: while nothing is spoilt at most one save is    *)
(* under way and the file is empty for its sake only, and what every       *)
(* invocation holds, its provenance derived, keeps what the file has to.   *)
(***************************************************************************)
Sourced(hosts) == \A n \in DOMAIN hosts : hosts[n].source # ""

OneSaveAtATime ==
  ~spoilt =>
    /\ \A i, j \in Saving : i = j
    /\ Readable(file) <=> Saving = {}
    /\ Saving # {} => file = EmptyFile

KeptByAll ==
  /\ file.kind = "doc" => KeepsUntouched(file.hosts) /\ KeepsProvenance(file.hosts)
  /\ file.kind = "absent" => first.hosts = NoHosts
  /\ \A i \in Invocations :
       pc[i] \in Holding =>
         Sourced(copy[i]) /\ KeepsUntouched(copy[i]) /\ KeepsProvenance(copy[i])

IInv == TypeOK /\ OneSaveAtATime /\ KeptByAll

(***************************************************************************)
(* And what the refinement of Registry rests on: while the invocations     *)
(* have followed one another, the copy of the one at work is what it       *)
(* loaded, or what its command makes of it, and nobody else has written.   *)
(***************************************************************************)
Loaded == WithProvenance(file.hosts)

CopyIsCurrent(i) ==
  /\ pc[i] \in {"change", "save"} => Readable(file)
  /\ pc[i] = "change" => copy[i] = Loaded
  /\ pc[i] = "save" =>
       /\ ~BadKey(command[i], Loaded) /\ ~NothingToDo(command[i], Loaded)
       /\ copy[i] = Changed(command[i], Loaded)
  /\ pc[i] = "write" => file = EmptyFile

TurnTracked == inTurn => \A i \in Invocations : CopyIsCurrent(i)
=============================================================================
