--------------------------- MODULE MetaFileProofs ---------------------------
(***************************************************************************)
(* Theorems about MetaFile: for any set of invocations, commands, starting *)
(* files and ~/.ssh/config.                                                *)
(***************************************************************************)
EXTENDS MetaFile, TLAPS

(***************************************************************************)
(* Updating one field of an entry gives an entry, with that field only     *)
(* changed.                                                                *)
(***************************************************************************)
LEMMA FieldUpdate ==
  ASSUME NEW meta \in HostMeta, NEW key \in Keys, NEW value \in Str
  PROVE  /\ EditedEntry(meta, key, value) \in HostMeta
         /\ EditedEntry(meta, key, value).source = meta.source
         /\ \A f \in Keys \ {key} : EditedEntry(meta, key, value)[f] = meta[f]
<1>1. key \in {"alias", "notes", "hostname", "port", "user", "identityFile", "proxyJump"}
  BY DEF Keys, Details, OwnedFields
<1>2. CASE key = "alias"
  BY <1>2 DEF EditedEntry, HostMeta, Keys, Details, OwnedFields
<1>3. CASE key = "notes"
  BY <1>3 DEF EditedEntry, HostMeta, Keys, Details, OwnedFields
<1>4. CASE key = "hostname"
  BY <1>4 DEF EditedEntry, HostMeta, Keys, Details, OwnedFields
<1>5. CASE key = "port"
  BY <1>5 DEF EditedEntry, HostMeta, Keys, Details, OwnedFields
<1>6. CASE key = "user"
  BY <1>6 DEF EditedEntry, HostMeta, Keys, Details, OwnedFields
<1>7. CASE key = "identityFile"
  BY <1>7 DEF EditedEntry, HostMeta, Keys, Details, OwnedFields
<1>8. CASE key = "proxyJump"
  BY <1>8 DEF EditedEntry, HostMeta, Keys, Details, OwnedFields
<1> QED BY <1>1, <1>2, <1>3, <1>4, <1>5, <1>6, <1>7, <1>8

(***************************************************************************)
(* Loading gives every entry its provenance and changes nothing else.      *)
(***************************************************************************)
LEMMA LabelledEntry ==
  ASSUME NEW meta \in HostMeta
  PROVE  /\ Labelled(meta) \in HostMeta
         /\ Labelled(meta).source # ""
         /\ DeriveSource(Labelled(meta)) = DeriveSource(meta)
         /\ \A f \in Keys : Labelled(meta)[f] = meta[f]
<1>1. DeriveSource(meta) \in Str /\ DeriveSource(meta) # ""
  BY StringAssumption DEF DeriveSource, HostMeta
<1>2. Labelled(meta) \in HostMeta
  BY <1>1 DEF HostMeta, Labelled
<1>3. Labelled(meta).source = DeriveSource(meta)
  BY DEF HostMeta, Labelled
<1>4. \A f \in Keys : Labelled(meta)[f] = meta[f]
  BY DEF HostMeta, Keys, Details, OwnedFields, Labelled
<1>5. DeriveSource(Labelled(meta)) = DeriveSource(meta)
  BY <1>1, <1>3 DEF DeriveSource
<1> QED BY <1>1, <1>2, <1>3, <1>4, <1>5

(***************************************************************************)
(* What loading gives, for a host map: a host map with every provenance    *)
(* filled in, that keeps whatever the file kept.                           *)
(***************************************************************************)
LEMMA WithProvenanceFacts ==
  ASSUME NEW hosts, IsHostMap(hosts)
  PROVE  /\ IsHostMap(WithProvenance(hosts))
         /\ Sourced(WithProvenance(hosts))
         /\ KeepsUntouched(hosts) => KeepsUntouched(WithProvenance(hosts))
         /\ KeepsProvenance(hosts) => KeepsProvenance(WithProvenance(hosts))
<1>1. DOMAIN WithProvenance(hosts) = DOMAIN hosts
  BY DEF WithProvenance
<1>2. \A n \in DOMAIN hosts : hosts[n] \in HostMeta /\ WithProvenance(hosts)[n] = Labelled(hosts[n])
  BY DEF WithProvenance, IsHostMap
<1>3. ASSUME NEW n \in DOMAIN hosts
      PROVE  /\ WithProvenance(hosts)[n] \in HostMeta
             /\ WithProvenance(hosts)[n].source # ""
             /\ DeriveSource(WithProvenance(hosts)[n]) = DeriveSource(hosts[n])
             /\ \A f \in Keys : WithProvenance(hosts)[n][f] = hosts[n][f]
  <2>1. hosts[n] \in HostMeta /\ WithProvenance(hosts)[n] = Labelled(hosts[n])
    BY <1>2
  <2>2. /\ Labelled(hosts[n]) \in HostMeta
        /\ Labelled(hosts[n]).source # ""
        /\ DeriveSource(Labelled(hosts[n])) = DeriveSource(hosts[n])
        /\ \A f \in Keys : Labelled(hosts[n])[f] = hosts[n][f]
    BY <2>1, LabelledEntry
  <2> QED BY <2>1, <2>2
<1>4. IsHostMap(WithProvenance(hosts))
  <2>1. WithProvenance(hosts) \in [DOMAIN hosts -> HostMeta]
    BY <1>2, <1>3 DEF WithProvenance
  <2> QED BY <1>1, <2>1 DEF IsHostMap
<1>5. Sourced(WithProvenance(hosts))
  BY <1>1, <1>3 DEF Sourced
<1>6. KeepsUntouched(hosts) => KeepsUntouched(WithProvenance(hosts))
  BY <1>1, <1>3 DEF KeepsUntouched
<1>7. KeepsProvenance(hosts) => KeepsProvenance(WithProvenance(hosts))
  BY <1>1, <1>3 DEF KeepsProvenance
<1> QED BY <1>4, <1>5, <1>6, <1>7

(***************************************************************************)
(* The entry an import makes: the user's own fields are the old ones.      *)
(***************************************************************************)
LEMMA RefreshedEntry ==
  ASSUME NEW meta \in HostMeta, NEW details \in [Details -> Str]
  PROVE  /\ Refreshed(meta, details) \in HostMeta
         /\ Refreshed(meta, details).source = "imported"
         /\ \A f \in OwnedFields : Refreshed(meta, details)[f] = meta[f]
<1>1. \A f \in Details : details[f] \in Str
  OBVIOUS
<1>2. Refreshed(meta, details) \in HostMeta
  BY <1>1, StringAssumption DEF Refreshed, HostMeta, Details
<1>3. Refreshed(meta, details).source = "imported"
  BY DEF Refreshed, HostMeta
<1>4. \A f \in OwnedFields : Refreshed(meta, details)[f] = meta[f]
  BY DEF Refreshed, HostMeta, OwnedFields
<1> QED BY <1>2, <1>3, <1>4

(***************************************************************************)
(* What a host map has to be for a save of it to keep what must be kept.   *)
(***************************************************************************)
Holds(hosts) ==
  IsHostMap(hosts) /\ Sourced(hosts) /\ KeepsUntouched(hosts) /\ KeepsProvenance(hosts)

\* An entry that may take the place of n's in `hosts'.
Replaces(hosts, n, meta) ==
  /\ meta \in HostMeta
  /\ meta.source # ""
  /\ n \in DOMAIN hosts =>
       /\ \A f \in Keys : ~Edited(n, f) => meta[f] = hosts[n][f]
       /\ ~Imported(n) => DeriveSource(meta) = DeriveSource(hosts[n])

(***************************************************************************)
(* Replacing or adding entries on these terms keeps what must be kept.     *)
(***************************************************************************)
LEMMA ReplacedHolds ==
  ASSUME NEW hosts, Holds(hosts), NEW new, NEW D, DOMAIN new = DOMAIN hosts \cup D,
         D \subseteq Str,
         new \in [DOMAIN hosts \cup D -> HostMeta],
         \A n \in D : Replaces(hosts, n, new[n]),
         \A n \in DOMAIN hosts \ D : new[n] = hosts[n]
  PROVE  Holds(new)
<1>1. IsHostMap(new)
  BY DEF IsHostMap, Holds
<1>2. Sourced(new)
  BY DEF Sourced, Holds, Replaces
<1>3. KeepsUntouched(new)
  BY DEF KeepsUntouched, Holds, Replaces
<1>4. KeepsProvenance(new)
  BY DEF KeepsUntouched, KeepsProvenance, Holds, Replaces
<1> QED BY <1>1, <1>2, <1>3, <1>4 DEF Holds

(***************************************************************************)
(* Every command keeps what must be kept: it changes what it names.        *)
(***************************************************************************)
LEMMA EditHolds ==
  ASSUME NEW hosts, Holds(hosts), NEW i \in Invocations, NEW c, c = command[i],
         c \in Command, ~Imports(c), c.key \in Keys, NEW value \in Str,
         NEW meta \in HostMeta, meta.source # "",
         c.host \in DOMAIN hosts => meta = hosts[c.host]
  PROVE  Holds(Put(hosts, c.host, EditedEntry(meta, c.key, value)))
<1> DEFINE entry == EditedEntry(meta, c.key, value)
           new == Put(hosts, c.host, entry)
<1>1. c.host \in Str
  BY DEF Command
<1>2. /\ entry \in HostMeta /\ entry.source = meta.source
      /\ \A f \in Keys \ {c.key} : entry[f] = meta[f]
  BY FieldUpdate
<1>3. Edited(c.host, c.key)
  BY DEF Edited
<1>4. DeriveSource(entry) = DeriveSource(meta)
  BY <1>2 DEF DeriveSource
<1> HIDE DEF entry
<1>5. Replaces(hosts, c.host, entry)
  BY <1>2, <1>3, <1>4 DEF Replaces
<1>6. /\ DOMAIN new = DOMAIN hosts \cup {c.host}
      /\ new[c.host] = entry
      /\ \A n \in DOMAIN hosts \ {c.host} : new[n] = hosts[n]
  BY DEF Put
<1>7. new \in [DOMAIN hosts \cup {c.host} -> HostMeta]
  BY <1>2 DEF Put, Holds, IsHostMap
<1> DEFINE D == {c.host}
<1> HIDE DEF new
<1>8. D \subseteq Str /\ \A n \in D : Replaces(hosts, n, new[n])
  BY <1>1, <1>5, <1>6
<1>9. /\ DOMAIN new = DOMAIN hosts \cup D
      /\ new \in [DOMAIN hosts \cup D -> HostMeta]
      /\ \A n \in DOMAIN hosts \ D : new[n] = hosts[n]
  BY <1>6, <1>7
<1> HIDE DEF D
<1>10. Holds(new)
  BY <1>8, <1>9, ReplacedHolds
<1> QED BY <1>10 DEF new, entry

LEMMA DropHolds ==
  ASSUME NEW hosts, Holds(hosts), NEW i \in Invocations, Removes(command[i])
  PROVE  Holds(Drop(hosts, command[i].host))
<1> DEFINE h == command[i].host
           new == Drop(hosts, h)
<1>1. DOMAIN new = DOMAIN hosts \ {h} /\ \A n \in DOMAIN new : new[n] = hosts[n]
  BY DEF Drop
<1>2. Removed(h)
  BY DEF Removed
<1>3. IsHostMap(new)
  <2>1. new \in [DOMAIN hosts \ {h} -> HostMeta]
    BY DEF Drop, Holds, IsHostMap
  <2> QED BY <1>1, <2>1 DEF Holds, IsHostMap
<1> HIDE DEF new, h
<1>4. Sourced(new)
  BY <1>1 DEF Sourced, Holds
<1>5. KeepsUntouched(new)
  BY <1>1, <1>2 DEF KeepsUntouched, Holds
<1>6. KeepsProvenance(new)
  BY <1>1 DEF KeepsProvenance, Holds
<1> QED BY <1>3, <1>4, <1>5, <1>6 DEF Holds, new, h

\* The entry a command starts from is a Host's, or a new one made by hand.
LEMMA EntryOfType ==
  ASSUME NEW hosts, IsHostMap(hosts), Sourced(hosts), NEW name
  PROVE  /\ EntryOf(hosts, name) \in HostMeta
         /\ EntryOf(hosts, name).source # ""
         /\ name \in DOMAIN hosts => EntryOf(hosts, name) = hosts[name]
<1>1. CASE name \in DOMAIN hosts
  BY <1>1 DEF EntryOf, IsHostMap, Sourced
<1>2. CASE name \notin DOMAIN hosts
  <2>1. EntryOf(hosts, name) = [NoMeta EXCEPT !.source = "manual"]
    BY <1>2 DEF EntryOf
  <2>2. [NoMeta EXCEPT !.source = "manual"] \in HostMeta
    BY StringAssumption DEF NoMeta, HostMeta
  <2>3. [NoMeta EXCEPT !.source = "manual"].source = "manual"
    BY DEF NoMeta
  <2> QED BY <1>2, <2>1, <2>2, <2>3
<1> QED BY <1>1, <1>2

LEMMA ImportHolds ==
  ASSUME NEW hosts, Holds(hosts), ssh \in SshConfigs,
         NEW i \in Invocations, Imports(command[i])
  PROVE  Holds(BuildSnapshot(ssh, hosts))
<1> DEFINE new == BuildSnapshot(ssh, hosts)
           entry(n) == Refreshed(EntryOf(hosts, n), ssh[n])
<1>1. Concrete(ssh) \subseteq Str /\ \A n \in Concrete(ssh) : ssh[n] \in [Details -> Str]
  BY SshConfigAssumption DEF Concrete
<1>2. /\ DOMAIN new = DOMAIN hosts \cup Concrete(ssh)
      /\ \A n \in Concrete(ssh) : new[n] = entry(n)
      /\ \A n \in DOMAIN hosts \ Concrete(ssh) : new[n] = hosts[n]
  BY DEF BuildSnapshot
<1>3. ASSUME NEW n \in Concrete(ssh)
      PROVE  Replaces(hosts, n, entry(n))
  <2>1. /\ EntryOf(hosts, n) \in HostMeta
        /\ n \in DOMAIN hosts => EntryOf(hosts, n) = hosts[n]
    BY EntryOfType DEF Holds
  <2>2. /\ entry(n) \in HostMeta
        /\ entry(n).source = "imported"
        /\ \A f \in OwnedFields : entry(n)[f] = EntryOf(hosts, n)[f]
    BY <1>1, <2>1, RefreshedEntry
  <2>3. Imported(n) /\ \A f \in Details : Edited(n, f)
    BY DEF Imported, Edited
  <2> HIDE DEF entry
  <2> QED BY <2>1, <2>2, <2>3 DEF Replaces, Keys
<1>4. new \in [DOMAIN hosts \cup Concrete(ssh) -> HostMeta]
  <2>1. \A n \in Concrete(ssh) : entry(n) \in HostMeta
    BY <1>3 DEF Replaces
  <2> HIDE DEF entry
  <2>2. \A n \in DOMAIN new : new[n] \in HostMeta
    BY <1>2, <2>1 DEF Holds, IsHostMap
  <2> QED BY <1>2, <2>2 DEF BuildSnapshot
<1> HIDE DEF new, entry
<1>5. \A n \in Concrete(ssh) : Replaces(hosts, n, new[n])
  BY <1>2, <1>3
<1>6. Holds(new)
  BY <1>1, <1>2, <1>4, <1>5, ReplacedHolds
<1> QED BY <1>6 DEF new

\* Whatever a command that is not refused does, it keeps what must be kept.
LEMMA ChangedHolds ==
  ASSUME NEW hosts, Holds(hosts), ssh \in SshConfigs, NEW i \in Invocations,
         command[i] \in Command,
         ~BadKey(command[i], hosts), ~NothingToDo(command[i], hosts)
  PROVE  Holds(Changed(command[i], hosts))
<1> DEFINE c == command[i]
<1>1. CASE Imports(c)
  BY <1>1, ImportHolds DEF Changed
<1>2. CASE Removes(c) /\ ~Imports(c)
  BY <1>2, DropHolds DEF Changed
<1>3. CASE ~Imports(c) /\ ~Removes(c)
  <2>1. c.key \in Keys /\ c.op \in {"set", "unset"} /\ c.value \in Str /\ c.host \in Str
    BY <1>3 DEF Command, Imports, Removes, BadKey, NothingToDo, Keys, Details, OwnedFields
  <2>2. CASE c.op = "set"
    <3>1. /\ EntryOf(hosts, c.host) \in HostMeta
          /\ EntryOf(hosts, c.host).source # ""
          /\ c.host \in DOMAIN hosts => EntryOf(hosts, c.host) = hosts[c.host]
      BY EntryOfType DEF Holds
    <3>2. Holds(SetField(hosts, c))
      BY <1>3, <2>1, <3>1, EditHolds DEF SetField
    <3> QED BY <1>3, <2>2, <3>2 DEF Changed
  <2>3. CASE c.op = "unset"
    <3>1. c.host \in DOMAIN hosts
      BY <1>3, <2>3 DEF NothingToDo, Removes
    <3>2. hosts[c.host] \in HostMeta /\ hosts[c.host].source # ""
      BY <3>1 DEF Holds, IsHostMap, Sourced
    <3>3. Holds(UnsetField(hosts, c))
      BY <1>3, <2>1, <3>2, EditHolds, StringAssumption DEF UnsetField
    <3> QED BY <1>3, <2>3, <3>3 DEF Changed
  <2> QED BY <2>1, <2>2, <2>3
<1> QED BY <1>1, <1>2, <1>3

-----------------------------------------------------------------------------
(***************************************************************************)
(* The inductive invariant.                                                *)
(***************************************************************************)

\* What the file may hold at the start.
LEMMA StartFile ==
  ASSUME NEW f \in Start
  PROVE  /\ IsHostMap(f.hosts)
         /\ f = Contents(f.kind, f.hosts)
         /\ f.kind = "doc" \/ (f.kind = "absent" /\ f.hosts = NoHosts)
<1>1. IsHostMap(f.hosts) /\ (f = Doc(f.hosts) \/ f = NoFile)
  BY StartAssumption
<1> QED BY <1>1 DEF Doc, NoFile, Contents

LEMMA NoHostsIsHostMap == IsHostMap(NoHosts)
BY DEF IsHostMap, NoHosts

LEMMA InitInv == Init => IInv
<1> SUFFICES ASSUME Init PROVE IInv
  OBVIOUS
<1>1. /\ IsHostMap(file.hosts) /\ file = Contents(file.kind, file.hosts)
      /\ file.kind = "doc" \/ (file.kind = "absent" /\ file.hosts = NoHosts)
  BY StartFile DEF Init
<1>2. TypeOK
  <2>1. \A i \in Invocations : copy[i] = NoHosts
    BY DEF Init
  <2> QED BY <1>1, <2>1, NoHostsIsHostMap DEF Init, TypeOK
<1>3. OneSaveAtATime
  BY <1>1 DEF Init, OneSaveAtATime, Saving, Readable
<1>4. KeptByAll
  <2>1. first = file /\ \A i \in Invocations : pc[i] \notin Holding
    BY DEF Init, Holding
  <2>2. KeepsUntouched(file.hosts) /\ KeepsProvenance(file.hosts)
    BY <2>1 DEF KeepsUntouched, KeepsProvenance
  <2> QED BY <1>1, <2>1, <2>2 DEF KeptByAll
<1> QED BY <1>2, <1>3, <1>4 DEF IInv

\* Who names what depends on nothing that a step changes.
LEMMA GivenUnchanged ==
  ASSUME UNCHANGED given
  PROVE  /\ ssh' = ssh /\ command' = command /\ first' = first
         /\ \A n : Removed(n)' <=> Removed(n)
         /\ \A n : Imported(n)' <=> Imported(n)
         /\ \A n, f : Edited(n, f)' <=> Edited(n, f)
<1>1. ssh' = ssh /\ command' = command /\ first' = first
  BY DEF given
<1>2. \A n : Removed(n)' <=> Removed(n)
  BY <1>1 DEF Removed
<1>3. \A n : Imported(n)' <=> Imported(n)
  BY <1>1 DEF Imported, Concrete
<1>4. \A n, f : Edited(n, f)' <=> Edited(n, f)
  BY <1>1, <1>3 DEF Edited
<1> QED BY <1>1, <1>2, <1>3, <1>4

(***************************************************************************)
(* KeptByAll is preserved when the file changes only to what an invocation *)
(* held or to nothing readable, and what the invocations hold is all right.*)
(***************************************************************************)
LEMMA KeptByAllPreserved ==
  ASSUME KeptByAll, UNCHANGED given,
         \/ file' = file
         \/ file'.kind \in {"empty", "garbled"}
         \/ /\ file'.kind = "doc"
            /\ KeepsUntouched(file'.hosts) /\ KeepsProvenance(file'.hosts),
         \A i \in Invocations : pc'[i] \in Holding =>
           Sourced(copy'[i]) /\ KeepsUntouched(copy'[i]) /\ KeepsProvenance(copy'[i])
  PROVE  KeptByAll'
<1>1. /\ first' = first
      /\ \A n : Removed(n)' <=> Removed(n)
      /\ \A n : Imported(n)' <=> Imported(n)
      /\ \A n, f : Edited(n, f)' <=> Edited(n, f)
  BY GivenUnchanged
<1>2. ASSUME NEW i \in Invocations, pc'[i] \in Holding
      PROVE  Sourced(copy[i])' /\ KeepsUntouched(copy[i])' /\ KeepsProvenance(copy[i])'
  <2>1. Sourced(copy[i])'
    BY <1>2 DEF Sourced
  <2>2. KeepsUntouched(copy[i])'
    BY <1>1, <1>2 DEF KeepsUntouched
  <2>3. KeepsProvenance(copy[i])'
    BY <1>1, <1>2 DEF KeepsProvenance
  <2> QED BY <2>1, <2>2, <2>3
<1>3. ASSUME file'.kind = "doc"
      PROVE  KeepsUntouched(file.hosts)' /\ KeepsProvenance(file.hosts)'
  <2>1. KeepsUntouched(file'.hosts) /\ KeepsProvenance(file'.hosts)
    BY <1>3 DEF KeptByAll
  <2>2. KeepsUntouched(file.hosts)'
    BY <1>1, <2>1 DEF KeepsUntouched
  <2>3. KeepsProvenance(file.hosts)'
    BY <1>1, <2>1 DEF KeepsProvenance
  <2> QED BY <2>2, <2>3
<1>4. file'.kind = "absent" => first'.hosts = NoHosts
  BY <1>1 DEF KeptByAll
<1> QED BY <1>2, <1>3, <1>4 DEF KeptByAll, Holding

(***************************************************************************)
(* Each step of an invocation preserves the invariant.                     *)
(***************************************************************************)

\* Steps that only end the invocation, or only move it on to its save.
LEMMA FileUntouched ==
  ASSUME IInv, inTurn' \in BOOLEAN, UNCHANGED <<given, file>>,
         NEW i \in Invocations, pc[i] # "write",
         pc' \in [Invocations -> {"start", "reload", "change", "save", "write", "end"}],
         pc'[i] # "write",
         \A j \in Invocations \ {i} : pc'[j] = pc[j] /\ copy'[j] = copy[j],
         DOMAIN copy' = Invocations, IsHostMap(copy'[i]),
         pc'[i] \in Holding => Holds(copy'[i]),
         outcome' \in [Invocations -> {"none", "ok", "failed", "killed"}],
         spoilt' = spoilt
  PROVE  IInv'
<1>1. TypeOK'
  <2>1. \A j \in Invocations : IsHostMap(copy'[j])
    BY DEF IInv, TypeOK
  <2>2. \A j \in Invocations : IsHostMap(copy[j])'
    BY <2>1 DEF IsHostMap
  <2>3. (file = Contents(file.kind, file.hosts) /\ IsHostMap(file.hosts))'
    BY DEF IInv, TypeOK, IsHostMap, Contents
  <2> QED BY <2>2, <2>3 DEF IInv, TypeOK, given
<1>2. OneSaveAtATime'
  <2>1. Saving' = Saving
    BY DEF Saving
  <2> QED BY <2>1 DEF IInv, OneSaveAtATime, Readable
<1>3. KeptByAll'
  <2>1. KeptByAll /\ UNCHANGED given /\ file' = file
    BY DEF IInv
  <2>2. \A j \in Invocations : pc'[j] \in Holding =>
           Sourced(copy'[j]) /\ KeepsUntouched(copy'[j]) /\ KeepsProvenance(copy'[j])
    BY <2>1 DEF KeptByAll, Holds
  <2> QED BY <2>1, <2>2, KeptByAllPreserved
<1> QED BY <1>1, <1>2, <1>3 DEF IInv

LEMMA LoadPreserves ==
  ASSUME IInv, inTurn' \in BOOLEAN, NEW i \in Invocations, Load(i)
  PROVE  IInv'
<1>1. IsHostMap(file.hosts) /\ pc \in [Invocations -> {"start", "reload", "change", "save", "write", "end"}]
      /\ DOMAIN copy = Invocations
  BY DEF IInv, TypeOK
<1>2. Holds(WithProvenance(file.hosts))
  <2>1. KeepsUntouched(file.hosts) /\ KeepsProvenance(file.hosts)
    <3>1. CASE file.kind = "doc"
      BY <3>1 DEF IInv, KeptByAll
    <3>2. CASE file.kind = "absent"
      <4>1. DOMAIN first.hosts = {}
        BY <3>2 DEF IInv, KeptByAll, NoHosts
      <4> QED BY <4>1 DEF KeepsUntouched, KeepsProvenance
    <3> QED BY <3>1, <3>2 DEF Load, Readable
  <2> QED BY <1>1, <2>1, WithProvenanceFacts DEF Holds
<1>3. /\ copy'[i] = WithProvenance(file.hosts)
      /\ DOMAIN copy' = Invocations
      /\ pc'[i] \in {"reload", "change"}
      /\ pc' \in [Invocations -> {"start", "reload", "change", "save", "write", "end"}]
      /\ \A j \in Invocations \ {i} : pc'[j] = pc[j] /\ copy'[j] = copy[j]
  BY <1>1 DEF Load, Goto
<1>4. /\ UNCHANGED <<given, file>> /\ pc[i] # "write" /\ spoilt' = spoilt
      /\ outcome' \in [Invocations -> {"none", "ok", "failed", "killed"}]
  BY DEF Load, IInv, TypeOK
<1> QED BY <1>2, <1>3, <1>4, FileUntouched DEF Holds

LEMMA ChangePreserves ==
  ASSUME IInv, inTurn' \in BOOLEAN, NEW i \in Invocations, Change(i)
  PROVE  IInv'
<1>1. /\ IsHostMap(copy[i]) /\ ssh \in SshConfigs /\ command[i] \in Command
      /\ pc \in [Invocations -> {"start", "reload", "change", "save", "write", "end"}]
      /\ DOMAIN copy = Invocations
  BY CommandAssumption DEF IInv, TypeOK
<1>2. Holds(copy[i])
  BY <1>1 DEF Change, IInv, KeptByAll, Holding, Holds
<1>3. Holds(Changed(command[i], copy[i]))
  BY <1>1, <1>2, ChangedHolds DEF Change
<1>4. /\ copy'[i] = Changed(command[i], copy[i])
      /\ DOMAIN copy' = Invocations
      /\ pc'[i] = "save"
      /\ pc' \in [Invocations -> {"start", "reload", "change", "save", "write", "end"}]
      /\ \A j \in Invocations \ {i} : pc'[j] = pc[j] /\ copy'[j] = copy[j]
  BY <1>1 DEF Change, Goto
<1>5. /\ UNCHANGED <<given, file>> /\ pc[i] # "write" /\ spoilt' = spoilt
      /\ outcome' \in [Invocations -> {"none", "ok", "failed", "killed"}]
  BY DEF Change, IInv, TypeOK
<1> QED BY <1>3, <1>4, <1>5, FileUntouched DEF Holds

\* The steps that end an invocation before it has touched the file.
LEMMA EndPreserves ==
  ASSUME IInv, inTurn' \in BOOLEAN, NEW i \in Invocations, pc[i] # "write",
         NEW result \in {"ok", "failed", "killed"}, End(i, result),
         UNCHANGED <<given, file, copy, spoilt>>
  PROVE  IInv'
<1>1. /\ IsHostMap(copy[i]) /\ DOMAIN copy = Invocations
      /\ pc \in [Invocations -> {"start", "reload", "change", "save", "write", "end"}]
      /\ outcome \in [Invocations -> {"none", "ok", "failed", "killed"}]
  BY DEF IInv, TypeOK
<1>2. /\ copy' = copy /\ spoilt' = spoilt /\ UNCHANGED <<given, file>>
      /\ pc'[i] = "end"
      /\ pc' \in [Invocations -> {"start", "reload", "change", "save", "write", "end"}]
      /\ \A j \in Invocations \ {i} : pc'[j] = pc[j]
      /\ outcome' \in [Invocations -> {"none", "ok", "failed", "killed"}]
  BY <1>1 DEF End, Goto
<1>3. pc'[i] \notin Holding /\ IsHostMap(copy'[i]) /\ DOMAIN copy' = Invocations
  BY <1>1, <1>2 DEF Holding
<1> QED BY <1>2, <1>3, FileUntouched

\* The steps of a save: what the invocations hold stays, the file may change.
LEMMA SaveTypeOK ==
  ASSUME TypeOK, UNCHANGED <<given, copy>>,
         file'.kind \in {"absent", "doc", "empty", "garbled"},
         file' = Contents(file'.kind, file'.hosts), IsHostMap(file'.hosts),
         NEW i \in Invocations, NEW step \in {"write", "end"}, Goto(i, step),
         outcome' \in [Invocations -> {"none", "ok", "failed", "killed"}],
         spoilt' \in BOOLEAN, inTurn' \in BOOLEAN
  PROVE  TypeOK'
<1>1. \A j \in Invocations : IsHostMap(copy[j])'
  BY DEF TypeOK, IsHostMap
<1>2. (file = Contents(file.kind, file.hosts) /\ IsHostMap(file.hosts))'
  BY DEF IsHostMap, Contents
<1>3. pc' \in [Invocations -> {"start", "reload", "change", "save", "write", "end"}]
  BY DEF TypeOK, Goto
<1> QED BY <1>1, <1>2, <1>3 DEF TypeOK, given

LEMMA SaveKeeps ==
  ASSUME TypeOK, KeptByAll, UNCHANGED <<given, copy>>,
         NEW i \in Invocations, pc[i] \in Holding,
         NEW step \in {"write", "end"}, Goto(i, step),
         \/ file' = file
         \/ file'.kind \in {"empty", "garbled"}
         \/ file'.kind = "doc" /\ file'.hosts = copy[i]
  PROVE  KeptByAll'
<1>1. KeepsUntouched(copy[i]) /\ KeepsProvenance(copy[i])
  BY DEF KeptByAll
<1>2. \A j \in Invocations : pc'[j] \in Holding => pc[j] \in Holding
  BY DEF TypeOK, Goto, Holding
<1>3. \A j \in Invocations : pc'[j] \in Holding =>
         Sourced(copy'[j]) /\ KeepsUntouched(copy'[j]) /\ KeepsProvenance(copy'[j])
  BY <1>2 DEF KeptByAll
<1>4. \/ file' = file
      \/ file'.kind \in {"empty", "garbled"}
      \/ /\ file'.kind = "doc"
         /\ KeepsUntouched(file'.hosts) /\ KeepsProvenance(file'.hosts)
  BY <1>1
<1> QED BY <1>3, <1>4, KeptByAllPreserved

LEMMA ContentsFacts ==
  ASSUME NEW hosts, IsHostMap(hosts)
  PROVE  /\ Doc(hosts).kind = "doc" /\ Doc(hosts).hosts = hosts
         /\ EmptyFile.kind = "empty" /\ Garbled.kind = "garbled"
         /\ \A f \in {Doc(hosts), EmptyFile, Garbled} :
              f = Contents(f.kind, f.hosts) /\ IsHostMap(f.hosts)
BY NoHostsIsHostMap DEF Doc, EmptyFile, Garbled, Contents

LEMMA TruncatePreserves ==
  ASSUME IInv, inTurn' \in BOOLEAN, NEW i \in Invocations, Truncate(i)
  PROVE  IInv'
<1>1. /\ TypeOK /\ KeptByAll /\ UNCHANGED <<given, copy>> /\ Goto(i, "write")
      /\ file' = EmptyFile /\ outcome' = outcome /\ pc[i] = "save"
  BY DEF Truncate, IInv
<1>2. /\ file'.kind = "empty" /\ file' = Contents(file'.kind, file'.hosts)
      /\ IsHostMap(file'.hosts)
  BY <1>1, NoHostsIsHostMap, ContentsFacts
<1>3. spoilt' \in BOOLEAN
  BY DEF Truncate
<1>4. TypeOK'
  <2>1. outcome' \in [Invocations -> {"none", "ok", "failed", "killed"}]
    BY <1>1 DEF TypeOK
  <2> QED BY <1>1, <1>2, <1>3, <2>1, SaveTypeOK
<1>5. KeptByAll'
  BY <1>1, <1>2, SaveKeeps DEF Holding
<1>6. OneSaveAtATime'
  <2> SUFFICES ASSUME ~spoilt'
               PROVE  /\ \A j, k \in Saving' : j = k
                      /\ Readable(file)' <=> Saving' = {}
                      /\ Saving' # {} => file' = EmptyFile
    BY DEF OneSaveAtATime, EmptyFile, Contents, NoHosts
  <2>1. \A j \in Invocations : pc[j] # "write"
    BY DEF Truncate
  <2>2. Saving' = {i}
    BY <1>1, <2>1 DEF Saving, Goto, TypeOK
  <2> QED BY <1>1, <1>2, <2>2 DEF Readable
<1> QED BY <1>4, <1>5, <1>6 DEF IInv

LEMMA WritePreserves ==
  ASSUME IInv, inTurn' \in BOOLEAN, NEW i \in Invocations, Write(i)
  PROVE  IInv'
<1>1. /\ TypeOK /\ KeptByAll /\ UNCHANGED <<given, copy>> /\ Goto(i, "end")
      /\ spoilt' = spoilt /\ pc[i] = "write" /\ IsHostMap(copy[i])
      /\ file' \in Overlaid(copy[i])
  BY DEF Write, IInv, End, TypeOK
<1>2. file' \in {Doc(copy[i]), Garbled}
  BY <1>1 DEF Overlaid
<1>3. /\ file'.kind \in {"doc", "garbled"} /\ file' = Contents(file'.kind, file'.hosts)
      /\ IsHostMap(file'.hosts)
      /\ file'.kind = "doc" => file'.hosts = copy[i]
  BY <1>1, <1>2, ContentsFacts
<1>4. TypeOK'
  <2>1. outcome' \in [Invocations -> {"none", "ok", "failed", "killed"}] /\ spoilt' \in BOOLEAN
    BY <1>1 DEF TypeOK, Write, End
  <2> QED BY <1>1, <1>3, <2>1, SaveTypeOK
<1>5. KeptByAll'
  <2>1. file'.kind \in {"empty", "garbled"} \/ (file'.kind = "doc" /\ file'.hosts = copy[i])
    BY <1>3
  <2> QED BY <1>1, <2>1, SaveKeeps DEF Holding
<1>6. OneSaveAtATime'
  <2> SUFFICES ASSUME ~spoilt'
               PROVE  /\ \A j, k \in Saving' : j = k
                      /\ Readable(file)' <=> Saving' = {}
                      /\ Saving' # {} => file' = EmptyFile
    BY DEF OneSaveAtATime, EmptyFile, Contents, NoHosts
  <2>1. i \in Saving /\ (\A j, k \in Saving : j = k) /\ file = EmptyFile
    BY <1>1 DEF IInv, OneSaveAtATime, Saving
  <2>2. Saving' = {}
    BY <1>1, <2>1 DEF Saving, Goto, TypeOK
  <2>3. file' = Doc(copy[i])
    BY <1>1, <2>1 DEF Overlaid
  <2> QED BY <1>1, <2>2, <2>3, ContentsFacts DEF Readable
<1> QED BY <1>4, <1>5, <1>6 DEF IInv

\* A save cut short spoils the file, whatever it leaves there.
LEMMA CutShortPreserves ==
  ASSUME IInv, inTurn' \in BOOLEAN, NEW i \in Invocations, pc[i] = "write",
         NEW result \in {"failed", "killed"}, End(i, result),
         UNCHANGED <<given, copy>>, file' \in {file, Garbled}, spoilt' = TRUE
  PROVE  IInv'
<1>1. TypeOK /\ KeptByAll /\ Goto(i, "end")
  BY DEF IInv, End
<1>2. /\ file'.kind \in {"absent", "doc", "empty", "garbled"}
      /\ file' = Contents(file'.kind, file'.hosts)
      /\ IsHostMap(file'.hosts)
  BY <1>1, NoHostsIsHostMap, ContentsFacts DEF TypeOK
<1>3. TypeOK'
  <2>1. outcome' \in [Invocations -> {"none", "ok", "failed", "killed"}]
    BY <1>1 DEF TypeOK, End
  <2> QED BY <1>1, <1>2, <2>1, SaveTypeOK
<1>4. KeptByAll'
  <2>1. file' = file \/ file'.kind \in {"empty", "garbled"}
    BY NoHostsIsHostMap, ContentsFacts
  <2> QED BY <1>1, <2>1, SaveKeeps DEF Holding
<1>5. OneSaveAtATime'
  BY DEF OneSaveAtATime
<1> QED BY <1>3, <1>4, <1>5 DEF IInv

LEMMA StutterPreserves ==
  ASSUME IInv, UNCHANGED vars
  PROVE  IInv'
<1>1. UNCHANGED given /\ UNCHANGED <<file, pc, copy, outcome, spoilt, inTurn>>
  BY DEF vars, given
<1>2. TypeOK'
  <2>1. \A j \in Invocations : IsHostMap(copy[j])'
    BY <1>1 DEF IInv, TypeOK, IsHostMap
  <2>2. (file = Contents(file.kind, file.hosts) /\ IsHostMap(file.hosts))'
    BY <1>1 DEF IInv, TypeOK, IsHostMap, Contents
  <2> QED BY <1>1, <2>1, <2>2 DEF IInv, TypeOK, given
<1>3. OneSaveAtATime'
  <2>1. Saving' = Saving
    BY <1>1 DEF Saving
  <2> QED BY <1>1, <2>1 DEF IInv, OneSaveAtATime, Readable
<1>4. KeptByAll'
  BY <1>1, KeptByAllPreserved DEF IInv, KeptByAll
<1> QED BY <1>2, <1>3, <1>4 DEF IInv

LEMMA NextInv == IInv /\ [Next]_vars => IInv'
<1> SUFFICES ASSUME IInv, [Next]_vars PROVE IInv'
  OBVIOUS
<1>1. ASSUME NEW i \in Invocations, Load(i), inTurn' \in BOOLEAN PROVE IInv'
  BY <1>1, LoadPreserves
<1>2. ASSUME NEW i \in Invocations, LoadFails(i), inTurn' \in BOOLEAN PROVE IInv'
  BY <1>2, EndPreserves DEF LoadFails
<1>3. ASSUME NEW i \in Invocations, Change(i), inTurn' \in BOOLEAN PROVE IInv'
  BY <1>3, ChangePreserves
<1>4. ASSUME NEW i \in Invocations, Reject(i), inTurn' \in BOOLEAN PROVE IInv'
  BY <1>4, EndPreserves DEF Reject
<1>5. ASSUME NEW i \in Invocations, Skip(i), inTurn' \in BOOLEAN PROVE IInv'
  BY <1>5, EndPreserves DEF Skip
<1>6. ASSUME NEW i \in Invocations, Truncate(i), inTurn' \in BOOLEAN PROVE IInv'
  BY <1>6, TruncatePreserves
<1>7. ASSUME NEW i \in Invocations, OpenFails(i), inTurn' \in BOOLEAN PROVE IInv'
  BY <1>7, EndPreserves DEF OpenFails
<1>8. ASSUME NEW i \in Invocations, Write(i), inTurn' \in BOOLEAN PROVE IInv'
  BY <1>8, WritePreserves
<1>9. ASSUME NEW i \in Invocations, WriteFails(i), inTurn' \in BOOLEAN PROVE IInv'
  BY <1>9, CutShortPreserves DEF WriteFails
<1>10. ASSUME NEW i \in Invocations, Kill(i), inTurn' \in BOOLEAN PROVE IInv'
  <2>1. CASE pc[i] = "write"
    BY <1>10, <2>1, CutShortPreserves DEF Kill
  <2>2. CASE pc[i] # "write"
    <3>1. spoilt' = spoilt
      BY <1>10, <2>2 DEF Kill, IInv, TypeOK
    <3> QED BY <1>10, <2>2, <3>1, EndPreserves DEF Kill
  <2> QED BY <2>1, <2>2
<1>11. ASSUME NEW i \in Invocations, Run(i), inTurn' \in BOOLEAN PROVE IInv'
  BY <1>1, <1>2, <1>3, <1>4, <1>5, <1>6, <1>7, <1>8, <1>9, <1>10, <1>11 DEF Run
<1>12. CASE UNCHANGED vars
  BY <1>12, StutterPreserves
<1> QED BY <1>11, <1>12 DEF Next, Terminating

-----------------------------------------------------------------------------
(***************************************************************************)
(* The inductive invariant always holds.                                   *)
(***************************************************************************)
THEOREM ConfigInvariant == Spec => []IInv
<1>1. Init => IInv
  BY InitInv
<1>2. IInv /\ [Next]_vars => IInv'
  BY NextInv
<1> QED BY <1>1, <1>2, PTL DEF Spec

(***************************************************************************)
(* Type correctness, for any number of overlapping invocations.            *)
(***************************************************************************)
THEOREM TypeCorrect == Spec => []TypeOK
<1>1. IInv => TypeOK
  BY DEF IInv
<1> QED BY <1>1, ConfigInvariant, PTL

(***************************************************************************)
(* A file at rest that nothing spoilt is readable: only a save cut short   *)
(* in the middle, or two that overlap, leave one that cannot be loaded.    *)
(***************************************************************************)
THEOREM ReadableUnlessSpoiltAlways == Spec => []ReadableUnlessSpoilt
<1>1. IInv => ReadableUnlessSpoilt
  BY DEF IInv, OneSaveAtATime, ReadableUnlessSpoilt, Saving
<1> QED BY <1>1, ConfigInvariant, PTL

(***************************************************************************)
(* However invocations overlap, fail or are killed, a readable file still  *)
(* holds every Host nobody removed, with every field nobody addressed as   *)
(* it was.                                                                 *)
(***************************************************************************)
THEOREM UntouchedSurvivesAlways == Spec => []UntouchedSurvives
<1>1. IInv => UntouchedSurvives
  BY DEF IInv, KeptByAll, UntouchedSurvives
<1> QED BY <1>1, ConfigInvariant, PTL

(***************************************************************************)
(* Edits never change where an entry came from, in files that persist the  *)
(* provenance and in older ones from which it is derived.                  *)
(***************************************************************************)
THEOREM ProvenanceKeptAlways == Spec => []ProvenanceKept
<1>1. IInv => ProvenanceKept
  BY DEF IInv, KeptByAll, ProvenanceKept
<1> QED BY <1>1, ConfigInvariant, PTL

(***************************************************************************)
(* Once the file is unreadable and no invocation holds a copy, no command  *)
(* overwrites it, whatever the commands do.                                *)
(***************************************************************************)
THEOREM BrokenFileIsLeftAloneAlways == Spec => BrokenFileIsLeftAlone
<1>1. ASSUME TypeOK, [Next]_vars, Lost
      PROVE  Lost'
  <2> USE DEF Lost, Holding
  <2>1. ASSUME NEW i \in Invocations, Run(i)
        PROVE  Lost'
    <3>1. LoadFails(i) \/ (Kill(i) /\ pc[i] # "write")
      BY <1>1, <2>1
      DEF Run, Load, Change, Reject, Skip, Truncate, OpenFails, Write, WriteFails, Kill
    <3>2. file' = file /\ Goto(i, "end")
      BY <3>1 DEF LoadFails, Kill, End
    <3>3. \A j \in Invocations : pc'[j] \in {pc[j], "end"}
      BY <1>1, <3>2 DEF Goto, TypeOK
    <3> QED BY <1>1, <3>2, <3>3 DEF Readable
  <2>2. CASE UNCHANGED vars
    BY <1>1, <2>2 DEF vars, Readable
  <2> QED BY <1>1, <2>1, <2>2 DEF Next, Terminating
<1>2. TypeOK /\ [Next]_vars => [Lost => Lost']_vars
  BY <1>1
<1> QED BY <1>2, TypeCorrect, PTL DEF Spec, BrokenFileIsLeftAlone

-----------------------------------------------------------------------------
(***************************************************************************)
(* The commands are atomic operations on the list of hosts as long as they *)
(* follow one another: first the invariant the refinement rests on.        *)
(***************************************************************************)
Steps == {"start", "reload", "change", "save", "write", "end"}

\* What a command does depends on the command, the hosts and ~/.ssh/config.
LEMMA SameCommandSameEffect ==
  ASSUME command' = command, ssh' = ssh, Loaded' = Loaded, NEW i \in Invocations
  PROVE  /\ Changed(command[i], Loaded)' = Changed(command[i], Loaded)
         /\ BadKey(command[i], Loaded)' <=> BadKey(command[i], Loaded)
         /\ NothingToDo(command[i], Loaded)' <=> NothingToDo(command[i], Loaded)
<1>1. BuildSnapshot(ssh, Loaded)' = BuildSnapshot(ssh, Loaded)
  BY DEF BuildSnapshot, Concrete, Refreshed, EntryOf, NoMeta
<1>2. Drop(Loaded, command[i].host)' = Drop(Loaded, command[i].host)
  BY DEF Drop
<1>3. /\ SetField(Loaded, command[i])' = SetField(Loaded, command[i])
      /\ UnsetField(Loaded, command[i])' = UnsetField(Loaded, command[i])
  BY DEF SetField, UnsetField, Put, EntryOf, EditedEntry, NoMeta
<1>4. Changed(command[i], Loaded)' = Changed(command[i], Loaded)
  BY <1>1, <1>2, <1>3 DEF Changed, Imports, Removes
<1> QED
  BY <1>4 DEF BadKey, NothingToDo, Imports

LEMMA CopyIsCurrentMade ==
  ASSUME TypeOK, NEW i \in Invocations, CopyIsCurrent(i), UNCHANGED given, Run(i)
  PROVE  CopyIsCurrent(i)'
<1> USE DEF CopyIsCurrent, Goto, End
<1>0. /\ pc \in [Invocations -> Steps] /\ DOMAIN copy = Invocations
      /\ command' = command /\ ssh' = ssh
  BY DEF TypeOK, given, Steps
<1>1. CASE Load(i)
  <2>1. pc'[i] \in {"reload", "change"} /\ file' = file /\ Readable(file)
    BY <1>0, <1>1 DEF Load
  <2>2. pc'[i] = "change" => copy' = [copy EXCEPT ![i] = Loaded]
    BY <1>1 DEF Load, Loaded
  <2>3. pc'[i] = "change" => copy'[i] = Loaded'
    BY <1>0, <2>1, <2>2 DEF Loaded, WithProvenance
  <2> QED BY <2>1, <2>3 DEF Readable
<1>2. CASE Change(i)
  <2>1. /\ pc[i] = "change" /\ pc'[i] = "save" /\ file' = file
        /\ ~BadKey(command[i], copy[i]) /\ ~NothingToDo(command[i], copy[i])
        /\ copy'[i] = Changed(command[i], copy[i])
    BY <1>0, <1>2 DEF Change
  <2>2. copy[i] = Loaded /\ Loaded' = Loaded /\ Readable(file) /\ Readable(file)'
    BY <2>1 DEF Loaded, WithProvenance, Readable
  <2>3. /\ Changed(command[i], Loaded)' = Changed(command[i], Loaded)
        /\ BadKey(command[i], Loaded)' <=> BadKey(command[i], Loaded)
        /\ NothingToDo(command[i], Loaded)' <=> NothingToDo(command[i], Loaded)
    BY <1>0, <2>2, SameCommandSameEffect
  <2> QED BY <2>1, <2>2, <2>3
<1>3. CASE Truncate(i)
  <2>1. pc'[i] = "write" /\ file' = EmptyFile
    BY <1>0, <1>3 DEF Truncate
  <2> QED BY <2>1 DEF EmptyFile, Contents, NoHosts
<1>4. CASE LoadFails(i) \/ Reject(i) \/ Skip(i) \/ OpenFails(i) \/ Write(i) \/ WriteFails(i)
             \/ Kill(i)
  <2>1. pc'[i] = "end"
    BY <1>0, <1>4 DEF LoadFails, Reject, Skip, OpenFails, Write, WriteFails, Kill
  <2> QED BY <2>1
<1> QED BY <1>1, <1>2, <1>3, <1>4 DEF Run

LEMMA RunLeavesOthers ==
  ASSUME TypeOK, NEW i \in Invocations, Run(i)
  PROVE  UNCHANGED given /\ \A j \in Invocations \ {i} : pc'[j] = pc[j]
BY DEF TypeOK, Run, Load, LoadFails, Change, Reject, Skip, Truncate, OpenFails, Write,
       WriteFails, Kill, Goto, End

LEMMA NextTurn == TypeOK /\ TurnTracked /\ [Next]_vars => TurnTracked'
<1> SUFFICES ASSUME TypeOK, TurnTracked, [Next]_vars, inTurn'
             PROVE  \A i \in Invocations : CopyIsCurrent(i)'
  BY DEF TurnTracked
<1>1. CASE UNCHANGED vars
  <2>1. inTurn /\ UNCHANGED <<file, ssh, command, pc, copy>>
    BY <1>1 DEF vars, given
  <2>2. Loaded' = Loaded
    BY <2>1 DEF Loaded, WithProvenance
  <2>3. ASSUME NEW i \in Invocations PROVE CopyIsCurrent(i)'
    <3>1. CopyIsCurrent(i)
      BY <2>1 DEF TurnTracked
    <3>2. /\ Changed(command[i], Loaded)' = Changed(command[i], Loaded)
          /\ BadKey(command[i], Loaded)' <=> BadKey(command[i], Loaded)
          /\ NothingToDo(command[i], Loaded)' <=> NothingToDo(command[i], Loaded)
      BY <2>1, <2>2, SameCommandSameEffect
    <3> QED BY <2>1, <2>2, <3>1, <3>2
         DEF CopyIsCurrent, Readable, EmptyFile, Contents, NoHosts
  <2> QED BY <2>3
<1>2. ASSUME NEW i \in Invocations, Run(i), inTurn, Alone(i)
      PROVE  \A j \in Invocations : CopyIsCurrent(j)'
  <2>1. CopyIsCurrent(i)'
    BY <1>2, RunLeavesOthers, CopyIsCurrentMade DEF TurnTracked
  <2>2. \A j \in Invocations \ {i} : pc'[j] \in {"start", "end"}
    BY <1>2, RunLeavesOthers DEF Alone
  <2>3. \A j \in Invocations \ {i} : CopyIsCurrent(j)'
    BY <2>2 DEF CopyIsCurrent
  <2> QED BY <2>1, <2>3
<1> QED BY <1>1, <1>2 DEF Next, Terminating

(***************************************************************************)
(* While the invocations follow one another, nobody works on a copy that   *)
(* another one has made stale.                                             *)
(***************************************************************************)
THEOREM TurnInvariant == Spec => []TurnTracked
<1>1. Init => TurnTracked
  BY DEF Init, TurnTracked, CopyIsCurrent
<1>2. TypeOK /\ TurnTracked /\ [Next]_vars => TurnTracked'
  BY NextTurn
<1> QED BY <1>1, <1>2, TypeCorrect, PTL DEF Spec

(***************************************************************************)
(* What a command makes of the hosts is the effect Registry gives it.      *)
(***************************************************************************)
LEMMA RegistryFields == Registry!Fields = Keys /\ Registry!Fields \ Registry!OwnedByUser = Details
BY DEF Registry!Fields, Registry!OwnedByUser, Keys, Details, OwnedFields

LEMMA EditedField ==
  ASSUME NEW meta \in HostMeta, NEW key \in Keys, NEW value \in Str
  PROVE  EditedEntry(meta, key, value)[key] = value
<1>1. DOMAIN meta = Keys \cup {"source"}
  BY DEF HostMeta, Keys, Details, OwnedFields
<1> QED BY <1>1 DEF EditedEntry

LEMMA RefreshedDetails ==
  ASSUME NEW meta \in HostMeta, NEW details \in [Details -> Str], NEW f \in Details
  PROVE  Refreshed(meta, details)[f] = details[f]
<1>1. f \in {"hostname", "port", "user", "identityFile", "proxyJump"}
  BY DEF Details
<1> QED BY <1>1 DEF Refreshed, HostMeta

LEMMA NewEntry ==
  ASSUME NEW hosts, NEW name, name \notin DOMAIN hosts
  PROVE  EntryOf(hosts, name).source = "manual" /\ \A k \in Keys : EntryOf(hosts, name)[k] = ""
<1>1. EntryOf(hosts, name) = [NoMeta EXCEPT !.source = "manual"]
  BY DEF EntryOf
<1>2. ASSUME NEW k \in Keys
      PROVE  [NoMeta EXCEPT !.source = "manual"][k] = ""
  <2>1. \A meta \in HostMeta : [meta EXCEPT !.source = "manual"][k] = meta[k]
    BY DEF HostMeta, Keys, Details, OwnedFields
  <2>2. NoMeta \in HostMeta
    BY StringAssumption DEF NoMeta, HostMeta
  <2>3. NoMeta[k] = ""
    <3>1. /\ NoMeta["alias"] = "" /\ NoMeta["notes"] = "" /\ NoMeta["hostname"] = ""
          /\ NoMeta["port"] = "" /\ NoMeta["user"] = "" /\ NoMeta["identityFile"] = ""
          /\ NoMeta["proxyJump"] = ""
      BY DEF NoMeta
    <3> QED BY <3>1 DEF Keys, Details, OwnedFields
  <2> QED BY <2>1, <2>2, <2>3
<1>3. [NoMeta EXCEPT !.source = "manual"].source = "manual"
  BY DEF NoMeta
<1> QED BY <1>1, <1>2, <1>3

\* Editing one field of an entry, or of a new one.
LEMMA PutEffect ==
  ASSUME IsHostMap(HeldHosts), NEW name, NEW key \in Keys, NEW value \in Str,
         NEW meta \in HostMeta,
         name \in DOMAIN HeldHosts => meta = HeldHosts[name],
         name \notin DOMAIN HeldHosts =>
           meta.source = "manual" /\ \A k \in Keys : meta[k] = "",
         HeldHosts' = Put(HeldHosts, name, EditedEntry(meta, key, value))
  PROVE  Registry!FieldSet(name, key, value)
<1> DEFINE entry == EditedEntry(meta, key, value)
<1>1. /\ DOMAIN HeldHosts' = DOMAIN HeldHosts \cup {name}
      /\ HeldHosts'[name] = entry
      /\ \A m \in DOMAIN HeldHosts \ {name} : HeldHosts'[m] = HeldHosts[m]
  BY DEF Put
<1>2. /\ entry.source = meta.source /\ entry[key] = value
      /\ \A k \in Keys \ {key} : entry[k] = meta[k]
  BY FieldUpdate, EditedField
<1> HIDE DEF entry
<1>3. Registry!OnlyDiffer(name, {key})
  <2>1. \A k \in (Keys \cup {"source"}) \ {key} : entry[k] = meta[k]
    BY <1>2
  <2> QED BY <1>1, <2>1, RegistryFields DEF Registry!OnlyDiffer
<1> QED BY <1>1, <1>2, <1>3, RegistryFields DEF Registry!FieldSet

LEMMA ImportEffect ==
  ASSUME IsHostMap(HeldHosts), Sourced(HeldHosts), ssh \in SshConfigs,
         HeldHosts' = BuildSnapshot(ssh, HeldHosts)
  PROVE  Registry!HostsImported
<1>1. Concrete(ssh) = Registry!Importable /\ \A n \in Concrete(ssh) : ssh[n] \in [Details -> Str]
  BY SshConfigAssumption DEF Concrete, Registry!Importable
<1>2. /\ DOMAIN HeldHosts' = DOMAIN HeldHosts \cup Concrete(ssh)
      /\ \A n \in DOMAIN HeldHosts \ Concrete(ssh) : HeldHosts'[n] = HeldHosts[n]
      /\ \A n \in Concrete(ssh) : HeldHosts'[n] = Refreshed(EntryOf(HeldHosts, n), ssh[n])
  BY DEF BuildSnapshot
<1>3. ASSUME NEW n \in Concrete(ssh)
      PROVE  /\ HeldHosts'[n].source = "imported"
             /\ \A k \in Details : HeldHosts'[n][k] = ssh[n][k]
             /\ \A k \in OwnedFields :
                  HeldHosts'[n][k] = IF n \in DOMAIN HeldHosts THEN HeldHosts[n][k] ELSE ""
  <2>1. /\ EntryOf(HeldHosts, n) \in HostMeta
        /\ n \in DOMAIN HeldHosts => EntryOf(HeldHosts, n) = HeldHosts[n]
    BY EntryOfType
  <2>2. n \notin DOMAIN HeldHosts => \A k \in OwnedFields : EntryOf(HeldHosts, n)[k] = ""
    BY NewEntry DEF Keys
  <2>3. ssh[n] \in [Details -> Str]
    BY <1>1
  <2>4. /\ HeldHosts'[n].source = "imported"
        /\ \A k \in OwnedFields : HeldHosts'[n][k] = EntryOf(HeldHosts, n)[k]
    BY <1>2, <2>1, <2>3, RefreshedEntry
  <2>5. \A k \in Details : HeldHosts'[n][k] = ssh[n][k]
    BY <1>2, <2>1, <2>3, RefreshedDetails
  <2> QED BY <2>1, <2>2, <2>4, <2>5
<1>4. Registry!OwnedByUser = OwnedFields
  BY DEF Registry!OwnedByUser, OwnedFields
<1> QED BY <1>1, <1>2, <1>3, <1>4, RegistryFields DEF Registry!HostsImported

LEMMA ChangedEffect ==
  ASSUME IsHostMap(HeldHosts), Sourced(HeldHosts), ssh \in SshConfigs,
         NEW i \in Invocations, command[i] \in Command,
         ~BadKey(command[i], HeldHosts), ~NothingToDo(command[i], HeldHosts),
         HeldHosts' = Changed(command[i], HeldHosts)
  PROVE  Registry!Effect(command[i])
<1> DEFINE c == command[i]
<1>1. c.op \in {"set", "unset", "import"} /\ c.host \in Str /\ c.value \in Str
  BY DEF Command
<1>2. CASE c.op = "import"
  <2>1. Registry!HostsImported
    BY <1>2, ImportEffect DEF Changed, Imports
  <2> QED BY <1>2, <2>1 DEF Registry!Effect
<1>3. CASE c.op = "unset" /\ c.key = ""
  <2>1. HeldHosts' = Drop(HeldHosts, c.host)
    BY <1>3 DEF Changed, Imports, Removes
  <2>2. Registry!HostRemoved(c.host)
    BY <2>1 DEF Drop, Registry!HostRemoved
  <2> QED BY <1>3, <2>2 DEF Registry!Effect
<1>4. CASE c.op = "unset" /\ c.key # ""
  <2>1. c.host \in DOMAIN HeldHosts /\ c.key \in Keys
    BY <1>4 DEF NothingToDo, BadKey, Imports
  <2>2. HeldHosts' = Put(HeldHosts, c.host, EditedEntry(HeldHosts[c.host], c.key, ""))
    BY <1>4 DEF Changed, Imports, Removes, UnsetField
  <2>3. HeldHosts[c.host] \in HostMeta /\ "" \in Str
    BY <2>1, StringAssumption DEF IsHostMap
  <2>4. Registry!FieldSet(c.host, c.key, "")
    BY <2>1, <2>2, <2>3, PutEffect
  <2> QED BY <1>4, <2>1, <2>4 DEF Registry!Effect, Registry!FieldUnset
<1>5. CASE c.op = "set"
  <2>1. c.key \in Keys
    BY <1>5 DEF BadKey, Imports
  <2>2. HeldHosts' = Put(HeldHosts, c.host, EditedEntry(EntryOf(HeldHosts, c.host), c.key, c.value))
    BY <1>5 DEF Changed, Imports, Removes, SetField
  <2>3. /\ EntryOf(HeldHosts, c.host) \in HostMeta
        /\ c.host \in DOMAIN HeldHosts => EntryOf(HeldHosts, c.host) = HeldHosts[c.host]
    BY EntryOfType
  <2>4. c.host \notin DOMAIN HeldHosts =>
          /\ EntryOf(HeldHosts, c.host).source = "manual"
          /\ \A k \in Keys : EntryOf(HeldHosts, c.host)[k] = ""
    <3> DEFINE name == c.host
    <3>1. ASSUME name \notin DOMAIN HeldHosts
          PROVE  /\ EntryOf(HeldHosts, name).source = "manual"
                 /\ \A k \in Keys : EntryOf(HeldHosts, name)[k] = ""
      <4> HIDE DEF name
      <4> QED BY <3>1, NewEntry, Zenon
    <3> QED BY <3>1
  <2>5. Registry!FieldSet(c.host, c.key, c.value)
    BY <1>1, <2>1, <2>2, <2>3, <2>4, PutEffect
  <2> QED BY <1>5, <2>5 DEF Registry!Effect
<1> QED BY <1>1, <1>2, <1>3, <1>4, <1>5

(***************************************************************************)
(* What the steps are in terms of Registry's variables.                    *)
(***************************************************************************)
LEMMA SourcedIsLoaded ==
  ASSUME NEW hosts, IsHostMap(hosts), Sourced(hosts)
  PROVE  WithProvenance(hosts) = hosts
<1>1. ASSUME NEW meta \in HostMeta, meta.source # ""
      PROVE  Labelled(meta) = meta
  <2>1. DeriveSource(meta) = meta.source
    BY <1>1 DEF DeriveSource
  <2>2. [meta EXCEPT !.source = meta.source] = meta
    BY DEF HostMeta
  <2> QED BY <2>1, <2>2 DEF Labelled
<1>2. \A n \in DOMAIN hosts : Labelled(hosts[n]) = hosts[n]
  BY <1>1 DEF IsHostMap, Sourced
<1>3. WithProvenance(hosts) = [n \in DOMAIN hosts |-> hosts[n]]
  BY <1>2 DEF WithProvenance
<1> QED BY <1>3 DEF IsHostMap

LEMMA HeldWhileIdle ==
  ASSUME Saving = {}, Readable(file)
  PROVE  HeldHosts = Loaded
BY DEF HeldHosts, Loaded

LEMMA HeldUnchanged ==
  ASSUME Saving = {}, Saving' = {}, file' = file
  PROVE  HeldHosts' = HeldHosts /\ (Readable(file)' <=> Readable(file))
BY DEF HeldHosts, WithProvenance, Readable

LEMMA PhaseMoves ==
  ASSUME TypeOK, NEW i \in Invocations, NEW step \in Steps, Goto(i, step),
         \/ UNCHANGED outcome
         \/ \E result : outcome' = [outcome EXCEPT ![i] = result]
  PROVE  Phase' = [Phase EXCEPT ![i] = IF step = "end" THEN outcome'[i]
                                       ELSE IF step = "write" THEN "applied" ELSE "pending"]
<1>1. /\ DOMAIN outcome = Invocations /\ DOMAIN outcome' = Invocations
      /\ DOMAIN pc = Invocations /\ DOMAIN pc' = Invocations /\ pc'[i] = step
      /\ \A j \in Invocations \ {i} : pc'[j] = pc[j] /\ outcome'[j] = outcome[j]
  BY DEF TypeOK, Goto
<1> QED BY <1>1 DEF Phase

\* Whose turn it is, is the only one who may be saving.
LEMMA OnlySaver ==
  ASSUME TypeOK, NEW i \in Invocations, Run(i), Alone(i)
  PROVE  /\ Saving = {j \in {i} : pc[i] = "write"}
         /\ Saving' = {j \in {i} : pc'[i] = "write"}
<1>1. \A j \in Invocations \ {i} : pc[j] \in {"start", "end"} /\ pc'[j] = pc[j]
  BY RunLeavesOthers DEF Alone
<1> QED BY <1>1 DEF Saving

(***************************************************************************)
(* Ends before the save began: the command is refused.                     *)
(***************************************************************************)
LEMMA RefuseMaps ==
  ASSUME TypeOK, NEW i \in Invocations, Run(i), Alone(i), pc[i] \notin {"write", "end"},
         NEW result \in {"failed", "killed"}, End(i, result), file' = file
  PROVE  Registry!Refuse(i)
<1>1. pc'[i] = "end" /\ outcome'[i] = result /\ Goto(i, "end") /\ ssh' = ssh /\ command' = command
  BY RunLeavesOthers DEF End, Goto, TypeOK, given
<1>2. HeldHosts' = HeldHosts /\ (Readable(file)' <=> Readable(file)) /\ Saving = {} /\ Saving' = {}
  BY <1>1, OnlySaver, HeldUnchanged
<1>3. Phase' = [Phase EXCEPT ![i] = result]
  BY <1>1, PhaseMoves DEF End, Steps
<1>4. Phase[i] = "pending"
  BY DEF Phase
<1> QED BY <1>1, <1>2, <1>3, <1>4 DEF Registry!Refuse, Registry!Move

\* Ends of a save that is cut short: the list is broken.
LEMMA BreakMaps ==
  ASSUME TypeOK, NEW i \in Invocations, Run(i), Alone(i), pc[i] = "write",
         CopyIsCurrent(i), NEW result \in {"failed", "killed"}, End(i, result),
         file' \in {file, Garbled}
  PROVE  Registry!Break(i)
<1>1. pc'[i] = "end" /\ outcome'[i] = result /\ Goto(i, "end") /\ ssh' = ssh /\ command' = command
  BY RunLeavesOthers DEF End, Goto, TypeOK, given
<1>2. Saving' = {}
  BY <1>1, OnlySaver
<1>3. ~Readable(file)'
  BY DEF Readable, CopyIsCurrent, EmptyFile, Garbled, Contents
<1>4. Phase' = [Phase EXCEPT ![i] = result]
  BY <1>1, PhaseMoves DEF End, Steps
<1>5. Phase[i] = "applied"
  BY DEF Phase
<1> QED BY <1>1, <1>2, <1>3, <1>4, <1>5 DEF Registry!Break, Registry!Move

\* Loading and changing the copy: nothing has happened yet.
LEMMA PrepareMaps ==
  ASSUME TypeOK, NEW i \in Invocations, Run(i), Alone(i), pc[i] \notin {"write", "end"},
         NEW step \in {"reload", "change", "save"}, Goto(i, step),
         UNCHANGED <<file, outcome, inTurn>>
  PROVE  UNCHANGED Registry!vars
<1>1. pc'[i] = step /\ ssh' = ssh /\ command' = command
  BY RunLeavesOthers DEF Goto, TypeOK, given
<1>2. HeldHosts' = HeldHosts /\ (Readable(file)' <=> Readable(file)) /\ Saving = {} /\ Saving' = {}
  BY <1>1, OnlySaver, HeldUnchanged
<1>3. Phase' = [Phase EXCEPT ![i] = "pending"]
  BY PhaseMoves DEF Steps
<1>4. Phase[i] = "pending"
  BY DEF Phase
<1>5. Phase' = Phase
  BY <1>3, <1>4 DEF Phase
<1> QED BY <1>1, <1>2, <1>5 DEF Registry!vars

LEMMA SkipMaps ==
  ASSUME TypeOK, NEW i \in Invocations, Alone(i), CopyIsCurrent(i), Skip(i)
  PROVE  Registry!Ignore(i)
<1>1. Run(i) /\ Goto(i, "end") /\ pc[i] = "change" /\ file' = file
  BY DEF Run, Skip, End
<1>2. pc'[i] = "end" /\ outcome'[i] = "ok" /\ ssh' = ssh /\ command' = command
  BY <1>1, RunLeavesOthers DEF Skip, End, Goto, TypeOK, given
<1>3. HeldHosts' = HeldHosts /\ (Readable(file)' <=> Readable(file)) /\ Saving = {} /\ Saving' = {}
  BY <1>1, <1>2, OnlySaver, HeldUnchanged
<1>4. Readable(file) /\ HeldHosts = copy[i]
  BY <1>1, <1>3, HeldWhileIdle DEF CopyIsCurrent
<1>5. command[i].op = "unset" /\ command[i].key # "" /\ command[i].host \notin DOMAIN HeldHosts
  BY <1>4 DEF Skip, NothingToDo
<1>6. Phase' = [Phase EXCEPT ![i] = "ok"]
  BY <1>1, <1>2, PhaseMoves DEF Skip, End, Steps
<1>7. Phase[i] = "pending"
  BY <1>1 DEF Phase
<1> QED BY <1>2, <1>3, <1>4, <1>5, <1>6, <1>7 DEF Registry!Ignore, Registry!Move

\* A save that is under way has happened: it takes effect as it begins.
LEMMA TruncateMaps ==
  ASSUME TypeOK, NEW i \in Invocations, Alone(i), CopyIsCurrent(i), Truncate(i)
  PROVE  Registry!Apply(i)
<1>1. Run(i) /\ Goto(i, "write") /\ pc[i] = "save" /\ UNCHANGED <<copy, outcome>>
  BY DEF Run, Truncate
<1>2. pc'[i] = "write" /\ ssh' = ssh /\ command' = command
  BY <1>1, RunLeavesOthers DEF Goto, TypeOK, given
<1>3. Saving = {} /\ Saving' = {i}
  BY <1>1, <1>2, OnlySaver
<1>4. Readable(file) /\ HeldHosts = Loaded
  BY <1>1, <1>3, HeldWhileIdle DEF CopyIsCurrent
<1>5. HeldHosts' = copy[i]
  <2>1. (CHOOSE j \in Saving : TRUE)' = i
    BY <1>3
  <2> QED BY <1>1, <1>3, <2>1 DEF HeldHosts
<1>6. IsHostMap(HeldHosts) /\ Sourced(HeldHosts)
  BY <1>4, WithProvenanceFacts DEF TypeOK, Loaded
<1>7. command[i] \in Command /\ ssh \in SshConfigs
  BY CommandAssumption DEF TypeOK
<1>8. Registry!Effect(command[i])
  BY <1>1, <1>4, <1>5, <1>6, <1>7, ChangedEffect DEF CopyIsCurrent
<1>9. Phase' = [Phase EXCEPT ![i] = "applied"]
  BY <1>1, PhaseMoves DEF Steps
<1>10. Phase[i] = "pending"
  BY <1>1 DEF Phase
<1> QED BY <1>2, <1>3, <1>4, <1>8, <1>9, <1>10 DEF Registry!Apply, Registry!Move

LEMMA WriteMaps ==
  ASSUME TypeOK, KeptByAll, NEW i \in Invocations, Alone(i), CopyIsCurrent(i), Write(i)
  PROVE  Registry!Acknowledge(i)
<1>1. Run(i) /\ Goto(i, "end") /\ pc[i] = "write"
  BY DEF Run, Write, End
<1>2. pc'[i] = "end" /\ outcome'[i] = "ok" /\ ssh' = ssh /\ command' = command
  BY <1>1, RunLeavesOthers DEF Write, End, Goto, TypeOK, given
<1>3. Saving = {i} /\ Saving' = {}
  BY <1>1, <1>2, OnlySaver
<1>4. file' = Doc(copy[i])
  BY <1>1 DEF Write, CopyIsCurrent, Overlaid
<1>5. IsHostMap(copy[i]) /\ Sourced(copy[i])
  BY <1>1 DEF TypeOK, KeptByAll, Holding
<1>6. HeldHosts = copy[i]
  <2>1. (CHOOSE j \in Saving : TRUE) = i
    BY <1>3
  <2> QED BY <1>3, <2>1 DEF HeldHosts
<1>7. Readable(file)' /\ file'.hosts = copy[i]
  BY <1>4 DEF Doc, Contents, Readable
<1>8. HeldHosts' = copy[i]
  <2>1. HeldHosts' = WithProvenance(file'.hosts)
    BY <1>3, <1>7 DEF HeldHosts, WithProvenance
  <2> QED BY <1>5, <1>7, <2>1, SourcedIsLoaded
<1>9. Phase' = [Phase EXCEPT ![i] = "ok"]
  BY <1>1, <1>2, PhaseMoves DEF Write, End, Steps
<1>10. Phase[i] = "applied"
  BY <1>1 DEF Phase
<1> QED BY <1>2, <1>3, <1>6, <1>7, <1>8, <1>9, <1>10 DEF Registry!Acknowledge, Registry!Move

LEMMA InitMaps == Init => Registry!Init
<1> SUFFICES ASSUME Init PROVE Registry!Init
  OBVIOUS
<1>1. IsHostMap(file.hosts) /\ Readable(file) /\ file \in Start
  BY StartFile DEF Init, Readable
<1>2. Saving = {}
  BY DEF Init, Saving
<1>3. HeldHosts = WithProvenance(file.hosts)
  BY <1>1, <1>2 DEF HeldHosts
<1>4. /\ DOMAIN HeldHosts = DOMAIN file.hosts
      /\ \A n \in DOMAIN HeldHosts :
           /\ HeldHosts[n].source = DeriveSource(file.hosts[n])
           /\ \A k \in Keys : HeldHosts[n][k] = file.hosts[n][k]
  <2>1. DOMAIN HeldHosts = DOMAIN file.hosts
    BY <1>3 DEF WithProvenance
  <2>2. \A n \in DOMAIN file.hosts :
          HeldHosts[n] = Labelled(file.hosts[n]) /\ file.hosts[n] \in HostMeta
    BY <1>1, <1>3 DEF WithProvenance, IsHostMap
  <2>3. \A meta \in HostMeta : Labelled(meta).source = DeriveSource(meta)
    BY DEF HostMeta, Labelled
  <2> QED BY <2>1, <2>2, <2>3, LabelledEntry
<1>5. Phase = [i \in Invocations |-> "pending"]
  BY DEF Init, Phase
<1>6. \E f \in Start :
        /\ DOMAIN HeldHosts = DOMAIN f.hosts
        /\ \A n \in DOMAIN HeldHosts :
             /\ HeldHosts[n].source = DeriveSource(f.hosts[n])
             /\ \A k \in Registry!Fields : HeldHosts[n][k] = f.hosts[n][k]
  BY <1>1, <1>4, RegistryFields
<1>7. /\ (Readable(file) \/ Saving # {}) = TRUE
      /\ ssh \in SshConfigs /\ command \in [Invocations -> Commands] /\ inTurn = TRUE
  BY <1>1 DEF Init
<1> QED BY <1>5, <1>6, <1>7 DEF Registry!Init, Registry!DeriveSource, DeriveSource

(***************************************************************************)
(* Every step of an invocation in its turn is a step of Registry, or none. *)
(***************************************************************************)
LEMMA RunMaps ==
  ASSUME IInv, NEW i \in Invocations, CopyIsCurrent(i), Run(i), Alone(i), UNCHANGED inTurn
  PROVE  Registry!Next \/ UNCHANGED Registry!vars
<1>0. TypeOK /\ KeptByAll
  BY DEF IInv
<1> SUFFICES \/ Registry!Apply(i) \/ Registry!Acknowledge(i) \/ Registry!Ignore(i)
             \/ Registry!Refuse(i) \/ Registry!Break(i) \/ UNCHANGED Registry!vars
  BY DEF Registry!Next, Registry!Work
<1>1. CASE Load(i)
  <2>1. pc[i] \in {"start", "reload"} /\ UNCHANGED <<file, outcome>>
        /\ (Goto(i, "reload") \/ Goto(i, "change"))
    BY <1>1 DEF Load, Goto
  <2> QED BY <1>0, <2>1, PrepareMaps
<1>2. CASE Change(i)
  BY <1>0, <1>2, PrepareMaps DEF Change
<1>3. CASE LoadFails(i) \/ Reject(i) \/ OpenFails(i)
  <2>1. pc[i] \notin {"write", "end"} /\ End(i, "failed") /\ file' = file
    BY <1>3 DEF LoadFails, Reject, OpenFails
  <2> QED BY <1>0, <2>1, RefuseMaps
<1>4. CASE Skip(i)
  BY <1>0, <1>4, SkipMaps
<1>5. CASE Truncate(i)
  BY <1>0, <1>5, TruncateMaps
<1>6. CASE Write(i)
  BY <1>0, <1>6, WriteMaps
<1>7. CASE WriteFails(i)
  BY <1>0, <1>7, BreakMaps DEF WriteFails
<1>8. CASE Kill(i)
  <2>1. pc[i] # "end" /\ End(i, "killed") /\ file' = file
    BY <1>8 DEF Kill
  <2>2. CASE pc[i] = "write"
    BY <1>0, <2>1, <2>2, BreakMaps
  <2>3. CASE pc[i] # "write"
    BY <1>0, <2>1, <2>3, RefuseMaps
  <2> QED BY <2>2, <2>3
<1> QED BY <1>1, <1>2, <1>3, <1>4, <1>5, <1>6, <1>7, <1>8 DEF Run

(***************************************************************************)
(* The commands, as long as they follow one another, implement Registry:   *)
(* each changes exactly what it names, or nothing, or breaks the file when *)
(* it is cut short in the middle of its save.                              *)
(***************************************************************************)
THEOREM RefinesRegistry == Spec => ImplementsRegistry
<1>1. Init => Registry!Init
  BY InitMaps
<1>2. IInv /\ TurnTracked /\ [Next]_vars => [Registry!Next]_(Registry!vars)
  <2> SUFFICES ASSUME IInv, TurnTracked, [Next]_vars
               PROVE  Registry!Next \/ UNCHANGED Registry!vars
    OBVIOUS
  <2>1. CASE UNCHANGED vars
    <3>1. UNCHANGED <<file, ssh, command, pc, copy, outcome, inTurn>>
      BY <2>1 DEF vars, given
    <3>2. Saving' = Saving /\ Phase' = Phase
      BY <3>1 DEF Saving, Phase
    <3>3. HeldHosts' = HeldHosts
      BY <3>1, <3>2 DEF HeldHosts, WithProvenance, Readable
    <3> QED BY <3>1, <3>2, <3>3 DEF Registry!vars, Readable
  <2>2. ASSUME NEW i \in Invocations, Run(i), inTurn' = (inTurn /\ Alone(i))
        PROVE  Registry!Next \/ UNCHANGED Registry!vars
    <3>1. CASE inTurn' = FALSE
      BY <3>1 DEF Registry!Next
    <3>2. CASE inTurn /\ Alone(i)
      <4>1. inTurn' = inTurn /\ CopyIsCurrent(i)
        BY <2>2, <3>2 DEF TurnTracked, IInv, TypeOK
      <4> QED BY <2>2, <3>2, <4>1, RunMaps
    <3> QED BY <2>2, <3>1, <3>2
  <2> QED BY <2>1, <2>2 DEF Next, Terminating
<1> QED BY <1>1, <1>2, ConfigInvariant, TurnInvariant, PTL DEF Spec, ImplementsRegistry, Registry!Spec
=============================================================================
