------------------------------- MODULE Hosts -------------------------------
(***************************************************************************)
(* What a Host is and how an addressed string becomes one: the metadata    *)
(* entries of ~/.sshgo_config and the resolution entry point shared by     *)
(* every command (internal/host/meta.go, internal/host/resolve.go).        *)
(*                                                                         *)
(* Strings are atomic.  What resolution asks of a string's characters is   *)
(* carried by the constants below.                                         *)
(***************************************************************************)
EXTENDS Naturals, Sequences

CONSTANTS
  Str,                \* the strings of the instance
  DirectAddress,      \* those that contain "@" or ":"
  ManyColons,         \* those that contain more than one ":"
  Foreign,            \* those that contain "://" or ","
  TrimSpace,          \* strings.TrimSpace, a function on Str
  ParseDirectAddress  \* "user@host:port" split into its parts, a function on Str

Address == [user : Str, hostname : Str, port : Str]

ASSUME StringAssumption ==
  /\ {"", "none", "22", "root", "imported", "direct", "manual"} \subseteq Str
  /\ DirectAddress \subseteq Str \ {"", "none"}
  /\ ManyColons \subseteq DirectAddress
  /\ Foreign \subseteq Str
  /\ TrimSpace \in [Str -> Str]
  /\ ParseDirectAddress \in [Str -> Address]
ASSUME TrimAssumption == TrimSpace[""] = ""

(***************************************************************************)
(* One entry of the metadata file.  `notes' stands for the three fields    *)
(* resolution never reads: notes, tags and connection priority.            *)
(***************************************************************************)
HostMeta ==
  [alias : Str, notes : Str, source : Str, hostname : Str, port : Str,
   user : Str, identityFile : Str, proxyJump : Str]

(***************************************************************************)
(* What LoadLocalConfig can return: the map of hosts (empty when there is  *)
(* no file), or an error when the file cannot be read or parsed.           *)
(***************************************************************************)
IsHostMap(hosts) == DOMAIN hosts \subseteq Str /\ hosts \in [DOMAIN hosts -> HostMeta]
IsLoadedConfig(config) ==
  /\ config = [ok |-> config.ok, hosts |-> config.hosts]
  /\ config.ok \in BOOLEAN
  /\ IsHostMap(config.hosts)
NoHosts == [n \in {} |-> n]

\* The provenance of entries written before the field was persisted.
DeriveSource(meta) ==
  IF meta.source # "" THEN meta.source
  ELSE IF \A f \in {"hostname", "user", "port", "identityFile"} : meta[f] = ""
       THEN "manual"
       ELSE "imported"

(***************************************************************************)
(* A dialable Host, and Go's zero value that a failed resolution returns.  *)
(***************************************************************************)
Resolved ==
  [name : Str, addressed : Str, source : Str, hostname : Str, port : Str \ {""},
   user : Str \ {""}, identityFile : Str, proxyJump : Str, credKeys : Seq(Str)]

ZeroHost ==
  [name |-> "", addressed |-> "", source |-> "", hostname |-> "", port |-> "",
   user |-> "", identityFile |-> "", proxyJump |-> "", credKeys |-> <<>>]

\* The ordered lookup keys for saved passwords, without empty or repeated ones.
AddKey(keys, k) ==
  IF k = "" \/ \E i \in 1..Len(keys) : keys[i] = k THEN keys ELSE Append(keys, k)

CredentialKeys(addressed, canonical, hostname) ==
  AddKey(AddKey(AddKey(<<>>, addressed), canonical), hostname)

\* Defect: an absent field is not filled in.
OrDefaultForgotten(s, default) == s

OrDefault(s, default) == IF s = "" THEN default ELSE s

NewResolved(addressed, canonical, source, meta) ==
  LET from == IF source = "direct" THEN ParseDirectAddress[addressed] ELSE meta
      hostname == OrDefault(from.hostname, canonical)
  IN  [name |-> canonical, addressed |-> addressed, source |-> source,
       hostname |-> hostname,
       port |-> OrDefault(from.port, "22"),
       user |-> OrDefault(from.user, "root"),
       identityFile |-> meta.identityFile,
       proxyJump |-> meta.proxyJump,
       credKeys |-> CredentialKeys(addressed, canonical, hostname)]

NoMeta ==
  [alias |-> "", notes |-> "", source |-> "", hostname |-> "", port |-> "",
   user |-> "", identityFile |-> "", proxyJump |-> ""]

(***************************************************************************)
(* Resolution.  Its result is a set: findByAlias takes the first match in  *)
(* Go's map order, which is any of the entries that carry the alias.       *)
(***************************************************************************)
Found(r) == [kind |-> "ok", host |-> r]
Failed(kind) == [kind |-> kind, host |-> ZeroHost]

ResolveErrors == {"not_found", "no_details", "ipv6", "unreadable"}

ResolveDirectAddress(addressed) ==
  IF addressed \in ManyColons
  THEN {Failed("ipv6")}
  ELSE {Found(NewResolved(addressed, addressed, "direct", NoMeta))}

FindByAlias(hosts, alias) == {n \in DOMAIN hosts : hosts[n].alias = alias}

\* Defect: a host's own name no longer hides an alias spelled like it.
EntriesUnshadowed(hosts, addressed) ==
  ({addressed} \cap DOMAIN hosts) \cup FindByAlias(hosts, addressed)

Entries(hosts, addressed) ==
  IF addressed \in DOMAIN hosts THEN {addressed} ELSE FindByAlias(hosts, addressed)

ResolveEntry(addressed, name, meta) ==
  IF meta.hostname = ""
  THEN Failed("no_details")
  ELSE Found(NewResolved(addressed, name, DeriveSource(meta), meta))

ResolveNamedHost(config, addressed) ==
  IF ~config.ok THEN {Failed("unreadable")}
  ELSE LET hosts == config.hosts IN
       IF Entries(hosts, addressed) = {} THEN {Failed("not_found")}
       ELSE {ResolveEntry(addressed, n, hosts[n]) : n \in Entries(hosts, addressed)}

Resolve(config, addressed) ==
  IF addressed \in DirectAddress
  THEN ResolveDirectAddress(addressed)
  ELSE ResolveNamedHost(config, addressed)

\* No two entries answer to the same alias, and no alias hides behind "".
UniqueAliases(hosts) ==
  \A m, n \in DOMAIN hosts :
    m # n => hosts[m].alias = "" \/ hosts[m].alias # hosts[n].alias

\* No host has a name that would be dialled as given.
NamesAreBare(hosts) == DOMAIN hosts \cap DirectAddress = {}
=============================================================================
