# Formal models of sshgo

TLA+ specifications of `sshgo`, an SSH client with its own host list. They are
read beside the Go code: every definition names in `PROJECT.json` ("map") the
lines it stands for. TLC checks small instances; TLAPS proves the theorems for
every value of the constants.

    tlc -workers 2 -config MCConnect.cfg MCConnect
    tlapm ConnectProofs.tla

## 1. The system

| component | source | state | operations |
|---|---|---|---|
| Host resolution | `host/resolve.go`, `host/meta.go` | none (reads the metadata file) | `Resolve` |
| Metadata file | `host/meta.go`, `cli/config.go` | `~/.sshgo_config` | load, `Set`, `Unset`, `Remove`, import, save |
| SSH config import | `sshconfig/import.go` | none | `BuildSnapshot` |
| Jump chain | `connect/chain.go` | the walk: current host, hops, visited names | `ResolveChain` |
| Connection | `connect/chain.go`, `connect/connect.go`, `connect/session.go` | clients, tunnels, agent socket, session | `Chain`, `dialHop`, `NewSession`, `RunCapture`, `RunInteractive`, cleanup |
| Authentication strategies | `cli/auth.go` | none of their own; the invocation's unlocked store | `HopAuth`, `SudoPassword` |
| Credential store | `credential/store.go`, `credential/lookup.go` | the encrypted file, its decrypted copy | load, get, set, save |
| Commands | `cli/cli.go`, `cli/exec.go`, `cli/info.go` | one invocation | `exec`, `info`, login, the host list |
| Self-update | `update/update.go` | the binary, a download | latest tag, compare, download, replace |
| Prompts | `ui/ui.go` | none | input and output |

An invocation is one sequential process. It resolves its argument against the
metadata file (`host.Resolve`), expands the proxy-jump into hops
(`connect.ResolveChain`, which calls `host.Resolve`, and so reads the file, once
per hop), asks the strategy for credentials hop by hop, dials outermost first,
and runs one command or a shell on the last client. What makes it hard:

* the walk over proxy-jumps is a loop over data the user writes, in three
  spellings (name, alias, address), and another invocation may rewrite that data
  between two hops;
* every hop may fail, in every phase, after others succeeded, and each phase owns
  something that has to be released: the agent socket, a raw tunnel, a client, a
  session;
* the same causes occur on a jump host and on the target, and which one is
  blamed depends on the order in which error types are tried;
* peers may vanish or fall silent at any moment;
* files are rewritten in place by invocations that know nothing of each other
  (metadata, credentials, the binary).

What makes each component correct:

* resolution: a name wins over an alias, what is found was declared, and who is
  chosen in the host list is who is dialled;
* the walk: ends, finds what the graph holds, repeats nobody, reports a loop as
  the loop and nothing else;
* a connection: dials in an order that works, releases everything in reverse,
  blames the host that failed, reports no failure as success (but for a shell that
  is cut off, which exits with 0 by design), ends;
* the strategies: whatever a hop can use is offered, keys and passwords never
  suppress each other, no method name is offered twice, and `info` leaves out
  nothing that a connection would offer;
* the metadata file: a save loses no other entry, and a file nobody can read is
  left to its owner;
* the credential store: the same, and one master password opens all of it, is
  asked for once, and no sudo password ever logs in;
* the update: what it reports is what has happened to the binary, nothing older is
  installed, no newer release is missed, and it ends.

## 2. The modules

| module | what it is |
|---|---|
| `Hosts` | what a Host is, and `host.Resolve` as operators on a loaded file |
| `JumpChain` | from the argument or the host list to the target and its hops: `ResolveChain`, one loop iteration per step, plus the other invocation that rewrites the file |
| `JumpGraph` | the abstract specification: the answer read off the graph of proxy-jumps, with no walk |
| `MCHosts`, `MCJumpChain` | instances for TLC: the strings, the families of files |
| `VerdictAgreement`, `MCVerdictAgreement` | `info` and a connection on the same file: two instances of `JumpChain` |
| `Connect`, `MCConnect` | one connection of one invocation, from the resolved chain to the exit code |
| `HopMethods`, `MCHopMethods` | what one hop is offered: agent, key files, passwords; and what `info` lists |
| `Credentials`, `MCCredentials` | the password store under several logins, `exec`s and set commands |
| `Vault` | the abstract specification: SSH and sudo passwords by name, without files or keys |
| `MetaFile`, `MCMetaFile` | the metadata file under several invocations of `config set`, `unset`, `remove`, `import` |
| `Registry` | the abstract specification: each command as one atomic change of the host list |
| `Versions`, `Update`, `MCUpdate` | release tags and their comparison; `sshgo update` |
| `JumpChainProofs`, `VerdictAgreementProofs`, `ConnectProofs`, `MetaFileProofs`, `CredentialsProofs`, `UpdateProofs`, `HopMethodsProofs` | the theorems |
| `Induction` | induction over the natural numbers, said of sets of numbers, and functions defined by recursion: what the proofs about loops cite |

`JumpChain` ends where `Connect` begins: `Connect`'s `ResolveRoute` stands for a
walk that ended with a chain, `RejectRoute` for one that ended with an error.
`VerdictAgreement` composes two walks through one file. `MetaFile` is what lies
behind `JumpChain`'s `Rewrite`: its `file` is what `LoadLocalConfig` reads, and
its unreadable contents are `JumpChain`'s `ok = FALSE`. `Connect` asks the strategy
for credentials once per hop; `HopMethods` is one such request, and `Credentials`
is the sequence of those of one invocation, in dial order, as far as they concern
the store. A hop's `keys` in `Credentials` are `Hosts`' `CredentialKeys`.

### Hosts

Strings are atomic. What `Resolve` asks of the characters of a string is a
constant: whether it holds `@` or `:` (`DirectAddress`), more than one `:`
(`ManyColons`), `://` or `,` (`Foreign`), what trimming it gives (`TrimSpace`)
and its parts (`ParseDirectAddress`). `StringAssumption` is all that is assumed
of them. `Resolve` returns a set of outcomes because `findByAlias` takes the
first match in Go's map order: one outcome per Host that carries the alias.
Notes, tags and connection priority are one field, `notes`; resolution reads
none of them.

### JumpChain

| variable | in the code |
|---|---|
| `config` | what `LoadLocalConfig` returns now: the hosts, or an error |
| `listed`, `row` | the rows of the host list, by name, and the one chosen (history) |
| `addressed`, `target` | the argument, or the name chosen, and `host.Resolve`'s result for it |
| `current`, `hops`, `visited` | the locals of `ResolveChain` |
| `verdict` | its result: hops in dial order, or an error with the jump value or the loop's path |

| action | in the code |
|---|---|
| `ShowList`, `NothingToShow` | `interactiveSelect` up to `ui.Select`; `buildHostList` takes an unreadable file for an empty one |
| `Choose`, `NoChoice` | `ui.Select` returns: a row, or an error |
| `ResolveTarget`, `FailTarget` | the command resolves its argument, or the chosen name |
| `ReachDirect` | `isDirect` breaks the loop, `slices.Reverse` |
| `RejectSpelling` | `validateJumpValue` fails |
| `FailHop` | `resolve` fails, re-labelled by `resolveJump`'s switch; the errors that it does not list lose the jump value (`JumpNamed`) |
| `CloseLoop` | `slices.Index` finds the name |
| `ExtendChain` | the rest of the iteration |
| `Rewrite` | `Save` of another invocation |

An iteration is one step because it reads the file once. A file that is being
rewritten may be seen unreadable (`ok = FALSE` is one of the files). The list is
sorted by name, so the set of names determines the rows and a row is known by its
name.

### Connect

The route has `n` hosts, `1` outermost and `n` the target. `pc` runs through
`resolve`, then `auth`, `tcp`, `handshake` for every host, then `connected`,
`session`, `run`, and `unwind` to `done`. A failure anywhere goes to `unwind`:
`DialFails` inside `Chain` (whose cleanup closes the clients so far), `Return`
after it (whose deferred calls do). `CloseNext` is one turn of the cleanup's
loop. `clients` is `Chain`'s slice; `open`, `raw`, `agent` and `session` are what
is actually held. `err` is the set of error types that `errors.As` or `errors.Is`
finds in the chain of causes, which is all that `Message` reads of an error;
`Labels` is the order in which it tries them. `fault` and `started` are history:
where the first failure happened and whether the command may have run. What the
code does not notice is recorded too: `ShellLost` is a shell that is cut off, which
`RunInteractive` returns from as it does from a logout, with 0.

The environment loses connections (`Lose`) and silences hosts (`FallSilent`) for
good. A request through hosts `1..k` succeeds or is refused only if all of them
answer (`Answered`); a lost connection is noticed unless a silent host sits
before it (`Severed`). `Close` needs nobody.

### MetaFile

| variable | in the code |
|---|---|
| `file` | `~/.sshgo_config`: absent, a document, empty, or garbled |
| `ssh` | `~/.ssh/config`, which sshgo only reads |
| `command` | the arguments of each invocation |
| `pc`, `copy` | where each invocation is, and its `*LocalConfig` |
| `outcome` | how it ended |
| `first`, `spoilt` | history: the file before any of them, and whether a save was cut short or overlapped another |

| action | in the code |
|---|---|
| `Load`, `LoadFails` | `LoadLocalConfig`, called by `runConfig` for every subcommand and by `runConfigImport` again (`reload`) |
| `Change` | the part of `Set`, `Unset`, `Remove` before `Save`, or `BuildSnapshot` and the assignment after it |
| `Reject` | the `default` (and `source`) branches of their `switch` |
| `Skip` | `Unset` of a field of a Host that is not there: success, no `Save` |
| `Truncate`, `OpenFails` | `os.WriteFile` opens the file, which empties it |
| `Write`, `WriteFails` | it writes the document, or a part, or nothing |
| `Kill` | an interrupt, or the machine going down, before the end |

Two invocations interleave at these steps. A read is one step: what is between
the two halves of a save is seen as an empty file, which does not parse; a read
may also fail for reasons of its own at any time. A document written over
another one, put there by an invocation that truncated at the same time, leaves
the tail of the longer; lengths are not modelled, so `Overlaid` allows the
document or a file that does not parse. A partial write allows a file that does
not parse or one that is as it was. `remove h` is `unset h` without a key, as in
the code. A word that is no key is `"source"`; `tags` and `priority` are, with
`notes`, one field; keys are case-folded in the code, which is left out. Which
names of `~/.ssh/config` are patterns is the constant `Patterns`.

`MetaFile` implements `Registry` for as long as invocations follow one another:
the host list is what the file holds with every provenance filled in, and becomes
the saver's copy when its save begins; it is usable while it can be read. The
history variable `inTurn` is true until a step is taken while another invocation is
neither untouched nor over; from then on `Registry` promises nothing, and `inTurn`
stays false. Overlapping invocations implement nothing of the kind: the code has
no lock, and of two changes to one file the later save keeps only its own. What
they do keep is what `UntouchedSurvives` says. A lost update is a fact of the design
rather than a disagreement with anything the repository promises.

### HopMethods

| variable | in the code |
|---|---|
| `agent`, `disk`, `identified`, `store`, `command` | the machine: the SSH agent, the key files, the Host's `IdentityFile`, the store, which strategy |
| `listed` | what `detectAuthMethods` returned to `info` |
| `signers`, `methods` | `allSigners` and `methods` of `HopAuth` |
| `prompted` | history: what the user was asked for |

`ListMethods` is `info`; `AgentSigners`, `KeySigners`, `SavedPassword`,
`NoSavedPassword` and `PromptPassword` are the steps of `interactiveAuth.HopAuth` and
`execAuth.HopAuth`, which differ in the key loader (a passphrase prompt or none)
and in what follows a missing password. A store is absent, shut to this invocation (the
master password was wrong, or nobody gave it), open without a password of this hop's,
or open with one (`"saved"`); how it comes to be so is `Credentials`' business, but
that somebody may have been asked for the master password is recorded here
(`OpenStore`), under `exec` as well. `Listing`
is what `detectAuthMethods` finds, `Loaded` the loop of `keySigners` over the
candidates.

### Credentials

| variable | in the code |
|---|---|
| `file` | `~/.sshgo_passwords`: absent, a document, empty, or garbled |
| `command` | what each invocation runs: its hops with their credential keys, and whether sudo |
| `pc`, `answers` | where it is, and what `HopAuth` or `SudoPassword` got so far |
| `held`, `opened` | `CLI.store` and `CLI.storeOpened` |
| `asked`, `first`, `inTurn` | history: prompts for a master password, the file at the start, whether invocations followed one another |

| action | in the code |
|---|---|
| `OpenStore`, `Unlock`, `UnlockFails` | `openStore`: nothing the second time or without a file, else one prompt and `Load` |
| `Find`, `Miss` | `lookupSavedPassword`, `lookupSudoPassword` over the credential keys |
| `PromptAnswered`, `PromptFails`, `DeclineToSave` | the password prompts, and "save this password?" |
| `SaveStore`, `SetUp`, `SetUpFails` | `saveStore`: only a store that is not there is set up |
| `Truncate`, `OpenFails`, `Write`, `WriteFails` | `Set` and `Save`, as for the metadata file |
| `Stop` | a hop that cannot be reached, an interrupt, the machine going down |

Encryption is modelled by what opens with what: a lock is the store's salt and a
master password, an entry opens under the lock it was made with, and `Load` refuses a
store of which some value does not open. A password is known by what it is for and
who typed it. Keys of the map are names, a sudo password's is `SudoKey(name)`, the
name followed by `/sudo`, in the same map.

While invocations follow one another `Credentials` implements `Vault`: SSH and sudo
passwords in two places, looked up in order, saved without losing another.
The mapping decodes the file's keys; a save under way has happened.

### Versions and Update

A tag is its numbers and a pre-release number; splitting it at dots makes a
pre-release's last part one that `strconv.Atoi` refuses. `SemverCompare` is the
code's comparison, `Precedes` the order of semantic versioning it is compared with.

| variable | in the code |
|---|---|
| `installed`, `place` | the binary on disk (`Cut` while incomplete) and what the file system allows there |
| `current`, `tag` | the version compiled in, the release found |
| `tmp`, `pc`, `said` | the downloaded file, the step, how the process ended |
| `latest`, `silent` | the server: the latest release, whether it has stopped answering |
| `exposed`, `unflushed` | history: the binary was incomplete at some moment; a file lost bytes when it was closed |

`CheckLatest` is `Run` up to the decision; `Fail`, `CreateTemp`, `Download` are
`downloadAndReplace`; `Rename`, `OpenTarget`, `Copy`, `SudoMove` and their refusals
are `replaceBinary`, which tries them in that order; `DownloadUnreadable` is the way
from a refused rename to the instructions past `sudo`. The errors of the two `Close`
calls are ignored: `Download` and `Copy` may each go on with a file cut short. Returning
runs the deferred `Remove`. The process may be killed between any two, releases are published
meanwhile, and the update may be run again, by the binary that is then there.

## 3. The runs

| run | specification, instance | shows |
|---|---|---|
| `verdicts` | `VerdictAgreement`; every file over `a`, `b`, `c` with the jump values of `Jumps`, an alias, an alias hidden by a name, or unreadable; five arguments | `ImplementsJumpGraph`: the walk's answer is the graph's; `SameVerdict`: a later connection gets the same. The hypotheses of both theorems hold of these files and arguments (`MCPlainFiles`) |
| `walk_under_rewrites` | `FairSpec` of `JumpChain`; every shape of graph over three hosts, rewritten into any other at any step; arguments and the host list | `NoHostTwice`, `ChainLinked`, `LoopPathIsCycle`, `ChosenIsTarget`, `Termination` |
| `connection` | `FairSpec` of `Connect`; routes of 1 to 3 hosts, all modes | seven invariants, two liveness properties |
| `hop_methods` | `HopMethods`; every machine with two default keys and an IdentityFile | `OfferedIsListed`, `OneMethodPerName`, `NothingIsHeldBack` |
| `metadata` | `MetaFile`; two invocations, nine commands (every kind, the refused ones included), no file, a current one and an older one without provenance, two `~/.ssh/config` | five properties, and `ImplementsRegistry` |
| `passwords` | `Credentials`; two invocations of six commands, no store and one with SSH and sudo passwords, a right and a wrong master password | six properties, and `ImplementsVault` |
| `update` | `FairSpec` of `Update`; tags of one to three parts, equal ones and pre-releases among them, a build without a version | `ReportIsTrue`, `NoFileLeft`, `UpToDateMeansNewest`, `NeverDowngrades`, `EndsIfServed` |
| `bare_name_declared` | the empty name and aliases | violated: finding 1 |
| `verdicts_shared_alias` | two Hosts with one alias | violated: finding 2 |
| `dial_timeout` | as `connection` | violated: finding 3 |
| `exec_asks_to_unlock` | one `exec`, with and without `--sudo` | violated: finding 4 |
| `update_manual_install` | as `update` | violated: finding 5 |

`connection` checks that nothing is held at the end whatever failed
(`NothingLeft`), that no client is closed under a tunnel (`TunnelsAreCarried`),
that socket, raw connection and session exist only in the phases that use them
(`HeldOnlyWhileUsed`), that a hop that failed is named and the target is not
mistaken for one (`BlamesTheRightHost`; credentials that the target refuses are an
error of the handshake, and are reported as a failed connection), that exit code 0
means the command or the shell ran and nothing failed on the way, except a shell that
was cut off (`ZeroMeansItRan`), that `sudo -S` is chosen exactly when a password is fed
(`SudoReadsWhatIsFed`), that an invocation ends while its peers answer
(`EndsIfAnswered`), and that the release completes even when they do not
(`CleanupCompletes`).

`hop_methods` checks that `info` lists what a connection will offer
(`OfferedIsListed`), that no method is hidden behind another one of its name
(`OneMethodPerName`), and that what is offered is what can be used
(`NothingIsHeldBack`): no early return of the two strategies lets a key suppress a
saved password or the other way round, whatever else is offered somebody was asked
for, and under `exec`, which asks for at most the master password (finding 4), there
is nothing else.

`metadata` checks that a file at rest is readable unless a save was cut
short or two overlapped (`ReadableUnlessSpoilt`), that however commands overlap,
fail or are killed, a Host nobody removes is there with every field nobody
addressed (`UntouchedSurvives`) and where it came from (`ProvenanceKept`), and
that a file nobody can load is never overwritten by a later command
(`BrokenFileIsLeftAlone`): which also says that after a save cut short no
command of sshgo repairs the file, only its owner does.

`passwords` checks that one master password opens every entry whoever saves what
(`OneMasterOpensAll`: an entry under another key would make `Load` refuse the store
for ever), that passwords nobody was told to save survive
(`UntouchedPasswordsSurvive`), that the master password is asked for once
(`AskedOnce`), that what a hop authenticates with is never a sudo password
(`NeverTheSudoPassword`) and that a store nobody can load is neither opened nor set
up anew (`BrokenStoreIsLeftAlone`). `NeverTheSudoPassword` takes that no Host is
called like another one with `/sudo` behind it, which nothing in the code checks
(section 4).

`update` checks that what is reported is what happened to the binary
(`ReportIsTrue`; it does not say that there always is a binary: a copy cut short
followed by a refused `sudo mv` leaves half of one, and then the report is the
manual instructions; and a success is untrue if closing a file lost bytes of it,
section 4), that an update that is over leaves no downloaded file, unless it was
killed or told the user to move that file (`NoFileLeft`; that it is then there is
finding 5), that nothing but a newer
release is installed, and that no newer release made of numbers is missed.

`ChosenIsTarget` says that between the host list and the resolution of the row
chosen, any rewriting of the file leaves the Host of that name the target, if it is
still there. If it is gone, and its name has become the alias of another Host,
that Host is the target.

Every property of a passing run has a mutant, a `Defect` operator beside the
definition it replaces, under which TLC finds the property violated.

Bounds. Three hosts on file give chains of two hops, a self-loop, a loop of two
with a tail, a loop of three, and every broken link behind one or two good ones;
a fourth host repeats these. Three hosts on a route give an outermost hop, a hop
that is both inside a tunnel and carries one, and the target. Exit statuses are
0, 1 (the one sshgo itself uses) and 2. Two invocations give every order of two
loads and two saves, an overlap of two saves, a command after a failed one, and a
set-up that comes too late; the proofs cover any number. The hosts of `MCMetaFile`
are an imported one, one made by hand and one that is not there, and `~/.ssh/config`
names each of them and a pattern in one of its two forms. The commands of
`MCCredentials` have one or two hops, with and without a signing key, and the store
at the start holds an SSH password under a name, one under a hostname (the last key
tried) and a sudo password under an alias (the first). Eight releases give every way
two tags may differ: in length, in a part, in being a pre-release. Nothing else is
bounded: the walk is finite because names are, and an update that is run again
starts from what the last one left.

Fairness. `JumpChain`, `Connect` and `Update` assume weak fairness of the program's
own step, nothing of the environment: the code is straight-line and is scheduled. In
`Connect` a step that waits for a peer is disabled while the peer is silent, so
fairness never makes a silent peer answer; what it does say is that a peer that
is not silent answers, that a prompt is answered, and that opening a TCP
connection from here always ends (exec sets a timeout for it, and the operating
system has its own), and that the one through the previous host ends when that
host answers. In `JumpChain` nobody has to choose a row. In `Update` the steps that
wait for the server are disabled while it is silent; nobody has to publish, to kill
or to run it again; a `sudo` prompt is answered. `MetaFile` and `Credentials` need
none: their properties are safety properties, and an invocation may stop anywhere.
`dial_timeout` is violated under `Connect`'s fairness.

## 4. Findings

1. `findByAlias` (`host/resolve.go:173`) compares the alias with the addressed
   string without excluding `""`: the empty name resolves to any Host that
   declares no alias. `CONTEXT.md:12` and ADR-0002 promise an error.
2. It takes the first match in map order (`host/resolve.go:172`), and nothing
   keeps aliases unique: with a shared alias `info` and the connection after it
   may disagree. `connect/chain.go:117` promises the same verdict.
3. `Options.Timeout` reaches only `ssh.ClientConfig.Timeout` (`chain.go:264`),
   which bounds the TCP connect of the first hop, neither the handshake nor a
   dial through a jump host. `connect.go:62` promises the handshake.
4. `openStore` (`cli/cli.go:306`) prompts for the master password whenever there is a
   store, and `exec` calls it on every chain that comes that far. `README.md:68`
   promises that `exec` never stops to ask for anything.
5. The deferred `os.Remove` (`update/update.go:106`) deletes the download when the
   update returns, which the manual instructions (`update.go:153-155`) say was
   saved, to be moved with `sudo mv`.

Disagreements met while modelling that have no run of their own:

* `resolveJump` (`connect/chain.go:177`) passes an IPv6 value or an unreadable file
  through unwrapped; its comment promises chain wording. The walk and the graph have
  it so: of these two kinds the verdict does not name the hop.
* `downloadAndReplace` and `replaceBinary` ignore the errors of closing what they wrote
  (`update.go:114`, `266`): an update that lost bytes there reports success.
* A shell that is cut off exits with 0 (`session.go:93`), which its comment
  (`session.go:64-65`) says is meant; nothing tells it from a logout.
* `exec` exits with 1 for its own failures, for a remote status of 1 and for a
  command cut off midway (`session.go:126-131`); `README.md:62-66` promises that the
  number never means two things.
* A Host named like another one followed by `/sudo` shares its key with the other's
  sudo password (`credential/store.go:242`), which then logs in; `auth.go:207-208`
  says it never does.
* A pre-release tag ends the comparison as equal (`update.go:307`), so `v1.1-rc1` is
  not offered to `v1`; `README.md:229` promises the newer one.
* The copy of `replaceBinary` (`update.go:263`) is not atomic; its comment claims it
  for the same filesystem, where a refused rename leads to the copy as well.
* The default keys are not tried for a Host with an IdentityFile (`auth.go:113`);
  `README.md:68-70` lists both. The connection priority of `CONTEXT.md:36` orders
  nothing (`auth.go:71`).
* Nothing keeps a Host's name from holding `@` or `:`; a proxy-jump written so is an
  address (`resolve.go:85`), so such a Host is not what its name addresses. If it has
  an alias and is its own jump value (a Host `u@h`, alias `x`, proxy-jump `u@h`),
  `sshgo x` reports a loop where the chain ends at the address: `visited` compares
  names (`chain.go:142`) and an address's name is the address.
* A Host named like a subcommand is reached through the host list too
  (`cli.go:163`); `cli.go:57-58` says only by its alias.

## 5. What is proved

Every invariant and action property of a passing run, and each of the three
refinements, is a theorem for every value of the constants; the runs show the same
on small instances. What is assumed of the constants is named in the modules and
repeated here. Three theorems, `RefinesJumpGraph`, `SameVerdictAlways` and
`RefinesVault`, take a condition besides that the code does not enforce: each says
which and why.

### The walk (`JumpChainProofs`)

`TypeOK`, `NoHostTwice`, `ChainLinked`, `LoopPathIsCycle` and `ChosenIsTarget` of
`Spec`, which includes `Rewrite`, for all sets of strings, files and arguments that
satisfy `StringAssumption`, `TrimAssumption` (trimming nothing gives nothing),
`ConfigAssumption` (a file has finitely many hosts) and `AddressedAssumption`. The
invariants are not inductive alone: they speak of the verdict, which is computed in
one step from `hops` and `visited`. `IInv` adds how these track each other:
`WalkTracked` (`visited` is the target's name followed by those of `hops`, `current`
is the last of them), `VisitedOnce`, `HopsLinked` (each hop is what the proxy-jump of
the one before it addresses, at the time it was read) and `VerdictTracked`. Each
action preserves it; `CycleShape` and `ReverseType` are the lemmas about sequences
they need. `ChosenIsTarget` rests on `MenuTracked` (a chosen name stays what is
resolved) and `NameWins` (a name the file has resolves to that Host).

The second half is about a file nobody rewrites. `QuietInv` adds `Followed` (the
target is what the argument resolves to, every hop what the jump value before it
resolves to, in the one file there is) and `Settled` (the verdict is that of the host
the walk ended at). From it the answer of `JumpGraph` is computed without the walk:

* `ReachContains` and `ReachWithin`: what `Reach`, a closure computed in steps, holds
  is what any path no longer than the file leads to, and nothing that a set closed
  under jumps leaves out. Both are inductions over the steps.
* `WalkIsShort`: a walk that repeats no name is no longer than the file, by counting,
  so the closure reaches all of it.
* A host has one jump host (`Plain`: unique aliases), so the hosts reached are those
  of the walk, and the one it comes back to if it does (`ReachOfReturn`).
* `TailIsNoCycle` and `LoopIsCycle`: the hosts on a cycle are those from where the
  walk comes back to, and none before.
* `WalkStep`: a step of the walk is a `Reply` of the graph, or a stutter.

### The verdicts (`VerdictAgreementProofs`)

`VerdictAgreement` takes two instances of `JumpChain`, one after the other, and
`BothWalksFollow` is that both satisfy `QuietInv`. Two theorems follow.

`RefinesJumpGraph` is `Spec => ImplementsJumpGraph` for files in which no two hosts
share an alias and no name reads as an address (`FilesArePlain`). Neither condition is
enforced by the code. Without the first there is no graph: the answer depends on map
order. Without the second the walk gives a wrong answer (section 4, the Host `u@h`).

`SameVerdictAlways` is `Spec => []SameVerdict` where no two hosts share an alias and
nobody types the empty name. Two walks from one target pass the same hosts for as
long as both go on (`SameWay`, by induction on the hop), neither ends before the other
(`NoShorter`), and where they end they say the same (`SameEnd`). Findings 1 and 2 show
what happens without the hypotheses: an empty name, like a shared alias, is answered
by whichever host the map gives first.

### The connection (`ConnectProofs`)

`TypeOK`, `NothingLeft`, `TunnelsAreCarried`, `HeldOnlyWhileUsed`,
`SudoReadsWhatIsFed`, `BlamesTheRightHost` and `ZeroMeansItRan`, for routes of any
length (`MaxHostsAssumption`). For what is held, the strengthening is
`ClientsFollowRoute` (the list of clients is `1, 2, ...`, one shorter than the
position being dialled) and `OpenIsPrefix` (what is open is all of them until the
cleanup, then the ones it has not reached), with `FedLate` for the sudo form. For what
is reported it is `ResultInv`: `FaultTracked` says of the first failure where it was
and which error types it made, whose wrapping depends on the phase, the mode and on
whether the hop is the target, and `ResultTracked` that nothing is reported before
the end and that code 0 goes with a command that ran, or with a shell cut off. `BlamesTheRightHost` is then
that the order of `Labels` picks the right one of these types in every case.

### The metadata file (`MetaFileProofs`)

`TypeOK`, `ReadableUnlessSpoilt`, `UntouchedSurvives`, `ProvenanceKept` and
`BrokenFileIsLeftAlone` of `Spec`: any number of overlapping invocations, any commands
and any files (`CommandAssumption`, `SshConfigAssumption`, `StartAssumption`). The file
alone is not inductive, since what is saved was loaded earlier: `KeptByAll` says of
every copy that an invocation holds what the properties say of the file, and that its
provenance is filled in (without that, an edit of a hostname would change what is
derived). `OneSaveAtATime` says that, while nothing is spoilt, the file is unreadable
only because of the one save under way. The work is in the lemmas on the operators:
`LabelledEntry` and `WithProvenanceFacts` (loading changes no field and no derived
provenance), `FieldUpdate`, `EditHolds`, `DropHolds`, `ImportHolds` (a command changes
what it names), joined in `ChangedHolds`; then one lemma for each kind of step.
`BrokenFileIsLeftAlone` is a step property that needs types only.

`RefinesRegistry` is `Spec => ImplementsRegistry`, with no further condition. It needs
`TurnTracked`: while the invocations have followed one another, the copy of the one at
work is what the file gives when loaded, or what its command makes of that, and during
a save the file is empty on its account. So the truncation is the step that makes the
change, which the mapping anticipates, and the write that follows is a stutter; a step
out of turn is the one `Registry` leaves open.

### The credential store (`CredentialsProofs`)

`TypeOK`, `OneMasterOpensAll`, `UntouchedPasswordsSurvive`, `AskedOnce`,
`NeverTheSudoPassword` and `BrokenStoreIsLeftAlone` of `Spec`, for any number of
overlapping invocations with any number of hops, from any store that some master
password opens and in which every password is where it belongs (`StartAssumption`;
`CommandAssumption`, `OriginAssumption`, and `SudoKeyAssumption`: two names have two
sudo keys). As with the metadata, the copies carry the argument: `CopyKept` says of
each what the properties say of the file, and that it is all under the lock it is held
with. `FileKept` adds that a file that is still absent means there was none at the
start, so that a set-up loses nothing; `AskedTracked` that once the master password was
asked for, the file is there for good; `HasTried` and `HoldsToSave` place these in the
control flow. `WellFiled` is needed for `NeverTheSudoPassword`: what is found under a
name was filed for that name, as an SSH password, unless a name is another's sudo key.
That condition is part of the property and not of the invariant's other parts.

`RefinesVault` is `Spec => ImplementsVault` under `NamesAreNotSudoKeys`: no Host is
named like another one followed by `/sudo`, which `MCCredentials` checks of its names
and nothing in the code checks of anybody's (section 4). Without it the map of keys
cannot be read as two maps of names. `TurnInv` is its invariant: `Fits`, of each
invocation (nothing is unlocked twice, `sudo` asks only if no password is known, a
save under way holds what was typed), and, in turn, `CopyIsCurrent` (an open copy
misses nothing that is saved, and differs from it only by what was typed here) and
`SavesAlone`. The proof of `RunMaps` has one lemma for each operation.

### The update (`UpdateProofs`)

`TypeOK`, `ReportIsTrue`, `NoFileLeft`, `UpToDateMeansNewest` and `NeverDowngrades` of
`Spec`, for any releases and builds (`ReleaseAssumption`). `BinaryTracked` says what the
binary is at each step (the old one up to the copy, cut during it, either of them
before the `sudo mv`), `FileTracked` and `SaidTracked` the same of the download, which is
whole unless closing it lost bytes, and of the report. `DecisionTracked` is that the release that may still be put in place is one the
comparison called newer, and one it refused is not. That leaves the comparison:
`SemverCompare` is a loop over the parts, and its answer that of the first part that
decides, by induction (`Downward`). `LessIsBefore` says that what it calls older is
older, for any two tags; `BeforeIsLess` the converse, among tags made of numbers.

### What a hop is offered (`HopMethodsProofs`)

`TypeOK`, `OneMethodPerName`, `NothingIsHeldBack` and `OfferedIsListed`, for any list of
default keys (`KeyAssumption`). `MethodsTracked` says that until a password is found
the methods are at most the one public-key method of the signers collected.
`HeldInv` adds that the signers are all the keys that can be used and otherwise keys
somebody gave a passphrase for (`SignersHeld`), and that only a login without a saved
password gets to the prompt (`AskedTracked`). `SourceInv` follows every method
back to the machine: `ListingTracked` (what was listed is what is there),
`SignersTracked` (a signer is the agent's or a key file that is there) and
`SourcesTracked` (a method is made of signers or of one password). That the loop over
the candidates collects the keys that load, and no others, is an induction over it
(`Upward`).

### What is only model-checked

The four liveness properties, `Termination`, `EndsIfAnswered`, `CleanupCompletes` and
`EndsIfServed`: the prover does neither fairness nor ENABLED. And what the violated runs
show, which is a counterexample.

On induction: the library's induction theorems take a predicate as a parameter, which
no installed prover can instantiate. `WFMin` says the same of a set, and `Induction`
derives from it what the proofs cite: a set of numbers that is not empty has a least
element, a set that holds 0 and every successor of its elements is all of them, and
the equations of a recursion over `1..n`, upwards or downwards, have a solution, so
that the recursive functions of the models satisfy their own definitions. That is
enough for loops over sequences and for the closure of a finite graph.

## 6. Not modelled, and the plan

Not modelled: cryptography and the wire protocol, output layout and wording, key
files' contents, host keys (the code accepts any), the terminal, the dispatch on the
first argument and the parsing of flags, the commands that only read (`config list`,
`get`, `find`), the characters of addresses (`ParseDirectAddress` is a constant) and
of the redirect a tag is taken from, the entry point, the installers, the tests.
Nobody deletes a file behind sshgo's back.

Planned, in order:

1. That the empty name is the only way `BareNameIsDeclared` fails: the positive half of
   finding 1, as a theorem of `JumpChain`.
2. That a name is never answered with another Host's credentials: `CredentialKeys` of
   `Hosts` against the names `Credentials` is given, composed rather than assumed.
3. `AddressSyntax`: `ParseDirectAddress` and `BuildSnapshot`'s parsing against
   reference definitions over short strings, if a property turns up that depends on
   them.
