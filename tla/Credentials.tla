----------------------------- MODULE Credentials -----------------------------
(***************************************************************************)
(* The password store ~/.sshgo_passwords under several invocations: a      *)
(* login or an `exec' through a chain of hops, and `config set-password'   *)
(* or `set-sudo-password' (internal/credential, internal/cli/cli.go,       *)
(* auth.go and config.go).                                                 *)
(*                                                                         *)
(* An invocation unlocks the store at most once, answers one request after *)
(* the other from the copy it then holds, and saves the whole of the copy. *)
(* Nothing keeps two invocations apart, and a save truncates the file      *)
(* before it writes it.                                                    *)
(***************************************************************************)
EXTENDS Naturals, Sequences

CONSTANTS
  Invocations,  \* the invocations that will run
  Commands,     \* what each of them may run
  Names,        \* the names passwords are filed under
  Masters,      \* what may be typed as a master password
  SudoKey(_),   \* a name followed by "/sudo"
  Start         \* what the store file may hold at the start, NoFile included

(***************************************************************************)
(* A password is known by what it is for and by who typed it.              *)
(***************************************************************************)
Origins == Invocations \cup {"start"}
Secret == [about : {"ssh", "sudo"}, name : Names, by : Origins]
Nothing == [about |-> "nothing"]

\* The key derived from a master password with the salt of a store.
Lock == [salt : Origins, master : Masters]
Encrypted(secret, lock) == [secret |-> secret, lock |-> lock]
Entry == [secret : Secret, lock : Lock]
NoEntries == [k \in {} |-> Nothing]

(***************************************************************************)
(* Contents of the file.  The master password is not in it.                *)
(***************************************************************************)
Contents(kind, salt, entries) == [kind |-> kind, salt |-> salt, entries |-> entries]
Doc(salt, entries) == Contents("doc", salt, entries)
NoFile == Contents("absent", "start", NoEntries)
EmptyFile == Contents("empty", "start", NoEntries)
Garbled == Contents("garbled", "start", NoEntries)
Readable(contents) == contents.kind \in {"absent", "doc"}

\* An unlocked store in memory, and none.
Unlocked(lock, entries) == [locked |-> FALSE, lock |-> lock, entries |-> entries]
NotHeld == [locked |-> TRUE]

(***************************************************************************)
(* What a command asks of the store: every hop's password in dial order,   *)
(* for `exec --sudo' then the target's sudo password, and for a set        *)
(* command the place to put one.                                           *)
(***************************************************************************)
Hop == [keys : Seq(Names) \ {<<>>}, signs : BOOLEAN]
Command ==
  [op : {"login", "exec", "set"}, hops : Seq(Hop) \ {<<>>}, sudo : BOOLEAN]

Request(kind, about, hop) ==
  [kind |-> kind, about |-> about, keys |-> hop.keys, signs |-> hop.signs]
HopRequests(c) ==
  [n \in DOMAIN c.hops |->
     Request(c.op, IF c.op = "set" /\ c.sudo THEN "sudo" ELSE "ssh", c.hops[n])]
SudoRequest(c) == Request("sudo", "sudo", c.hops[Len(c.hops)])
Requests(c) ==
  IF c.op = "exec" /\ c.sudo THEN Append(HopRequests(c), SudoRequest(c)) ELSE HopRequests(c)

FlatKey(about, name) == IF about = "sudo" THEN SudoKey(name) ELSE name

ASSUME CommandAssumption == Commands \subseteq Command
ASSUME OriginAssumption == "start" \notin Invocations
ASSUME SudoKeyAssumption == \A m, n \in Names : SudoKey(m) = SudoKey(n) => m = n

\* Every value opens under one key: nothing else was ever written.
Verified(entries, lock) == \A k \in DOMAIN entries : entries[k].lock = lock

\* Every password is where it belongs.
WellFiled(entries) ==
  \A k \in DOMAIN entries : k = FlatKey(entries[k].secret.about, entries[k].secret.name)

IsStoreFile(f) ==
  /\ f = Doc(f.salt, f.entries) /\ f.salt \in Origins
  /\ DOMAIN f.entries # {}
  /\ \A k \in DOMAIN f.entries : f.entries[k] \in Entry
  /\ WellFiled(f.entries)
  /\ \E m \in Masters : Verified(f.entries, [salt |-> f.salt, master |-> m])

ASSUME StartAssumption == \A f \in Start : f = NoFile \/ IsStoreFile(f)

VARIABLES
  file,     \* the contents of the password store
  command,  \* what each invocation runs
  pc,       \* where it is
  held,     \* the store it has unlocked
  opened,   \* whether it has tried to
  answers,  \* what its requests so far were answered with
  asked,    \* history: how often it asked for the master password
  first,    \* history: the file before any of them ran
  inTurn    \* history: whether they have followed one another so far

given == <<command, first>>
vars == <<file, command, pc, held, opened, answers, asked, first, inTurn>>

Running(i) == Requests(command[i])[Len(answers[i]) + 1]
Typed(i) == [about |-> Running(i).about, name |-> Running(i).keys[1], by |-> i]

Init ==
  /\ file \in Start
  /\ first = file
  /\ command \in [Invocations -> Commands]
  /\ pc = [i \in Invocations |-> IF command[i].op = "set" THEN "prompt" ELSE "open"]
  /\ held = [i \in Invocations |-> NotHeld]
  /\ opened = [i \in Invocations |-> FALSE]
  /\ answers = [i \in Invocations |-> <<>>]
  /\ asked = [i \in Invocations |-> [unlock |-> 0, setup |-> 0]]
  /\ inTurn = TRUE

-----------------------------------------------------------------------------
Goto(i, step) == pc' = [pc EXCEPT ![i] = step]
Ask(i, what) == asked' = [asked EXCEPT ![i][what] = @ + 1]
Hold(i, store) == held' = [held EXCEPT ![i] = store]

\* A request is answered: on to the next one, or to the end.
Answer(i, answer) ==
  /\ answers' = [answers EXCEPT ![i] = Append(@, answer)]
  /\ Goto(i, IF Len(answers[i]) + 1 = Len(Requests(command[i])) THEN "end" ELSE "open")

\* A password was typed and cannot be saved: only a set command fails for it.
NotSaved(i) ==
  IF Running(i).kind = "set" THEN Goto(i, "end") /\ UNCHANGED answers
  ELSE Answer(i, Typed(i))

AfterOpening(i) == IF Running(i).kind = "set" THEN "save" ELSE "lookup"

\* Defect: a master password that did not open the store is asked for again.
OpenStoreUnlessHeld(i) ==
  /\ pc[i] = "open"
  /\ opened' = [opened EXCEPT ![i] = TRUE]
  /\ IF ~held[i].locked \/ file.kind = "absent"
     THEN Goto(i, AfterOpening(i)) /\ UNCHANGED asked
     ELSE Goto(i, "unlock") /\ Ask(i, "unlock")
  /\ UNCHANGED <<given, file, held, answers>>

\* openStore: nothing to do the second time, or without a file.
OpenStore(i) ==
  /\ pc[i] = "open"
  /\ opened' = [opened EXCEPT ![i] = TRUE]
  /\ IF opened[i] \/ file.kind = "absent"
     THEN Goto(i, AfterOpening(i)) /\ UNCHANGED asked
     ELSE Goto(i, "unlock") /\ Ask(i, "unlock")
  /\ UNCHANGED <<given, file, held, answers>>

\* Defect: the entries are not tried with the derived key.
CanLoadUnverified(master) == Readable(file)

\* Defect: a file that does not parse is taken for none.
CanLoadAnything(master) ==
  file.kind = "doc" => Verified(file.entries, [salt |-> file.salt, master |-> master])

CanLoad(master) ==
  /\ Readable(file)
  /\ Verified(file.entries, [salt |-> file.salt, master |-> master])

\* Defect: a new store is made whether there is one or not.
LoadedAfresh(i, master) == Unlocked([salt |-> i, master |-> master], NoEntries)

\* Without a file, a new store with a salt of its own.
Loaded(i, master) ==
  IF file.kind = "absent"
  THEN Unlocked([salt |-> i, master |-> master], NoEntries)
  ELSE Unlocked([salt |-> file.salt, master |-> master], file.entries)

Unlock(i) ==
  /\ pc[i] = "unlock"
  /\ \E m \in Masters : CanLoad(m) /\ Hold(i, Loaded(i, m))
  /\ Goto(i, AfterOpening(i))
  /\ UNCHANGED <<given, file, opened, answers, asked>>

\* Cancelled, not the master password, or not a store: keys only from now on.
UnlockFails(i) ==
  /\ pc[i] = "unlock"
  /\ Goto(i, AfterOpening(i))
  /\ UNCHANGED <<given, file, held, opened, answers, asked>>

-----------------------------------------------------------------------------
(* Requests that read.                                                     *)

SudoKeys(keys) == [n \in DOMAIN keys |-> SudoKey(keys[n])]

\* Defect: a saved SSH password is preferred to a saved sudo password.
CandidatesSshFirst(r) == IF r.kind = "sudo" THEN r.keys \o SudoKeys(r.keys) ELSE r.keys

\* Defect: a hop is offered a saved sudo password too.
CandidatesOfBothKinds(r) ==
  IF r.kind = "sudo" THEN SudoKeys(r.keys) \o r.keys ELSE r.keys \o SudoKeys(r.keys)

\* The keys in the order they are looked up; sudo falls back to SSH passwords.
Candidates(r) == IF r.kind = "sudo" THEN SudoKeys(r.keys) \o r.keys ELSE r.keys

Hits(i) ==
  {n \in DOMAIN Candidates(Running(i)) :
     /\ ~held[i].locked
     /\ Candidates(Running(i))[n] \in DOMAIN held[i].entries
     /\ held[i].entries[Candidates(Running(i))[n]].lock = held[i].lock}

Find(i) ==
  /\ pc[i] = "lookup"
  /\ \E n \in Hits(i) :
       /\ \A m \in Hits(i) : n <= m
       /\ Answer(i, held[i].entries[Candidates(Running(i))[n]].secret)
  /\ UNCHANGED <<given, file, held, opened, asked>>

\* exec goes on without; a login asks unless a key file was loaded.
Miss(i) ==
  /\ pc[i] = "lookup"
  /\ Hits(i) = {}
  /\ IF Running(i).kind = "exec" \/ (Running(i).kind = "login" /\ Running(i).signs)
     THEN Answer(i, Nothing)
     ELSE Goto(i, "prompt") /\ UNCHANGED answers
  /\ UNCHANGED <<given, file, held, opened, asked>>

\* The prompt is cancelled, or the two entries differ.  An empty sudo password,
\* or no terminal to type one, means that sudo will do without.
PromptFails(i) ==
  /\ pc[i] = "prompt"
  /\ IF Running(i).kind = "sudo" THEN Answer(i, Nothing)
     ELSE Goto(i, "end") /\ UNCHANGED answers
  /\ UNCHANGED <<given, file, held, opened, asked>>

PromptAnswered(i) ==
  /\ pc[i] = "prompt"
  /\ Goto(i, IF Running(i).kind = "set" THEN "open" ELSE "save")
  /\ UNCHANGED <<given, file, held, opened, answers, asked>>

DeclineToSave(i) ==
  /\ pc[i] = "prompt"
  /\ Running(i).kind # "set"
  /\ Answer(i, Typed(i))
  /\ UNCHANGED <<given, file, held, opened, asked>>

-----------------------------------------------------------------------------
(* Saving.                                                                 *)

\* saveStore, with openStore behind it: only a store that is not there is made.
SaveStore(i) ==
  /\ pc[i] = "save"
  /\ IF ~held[i].locked THEN Goto(i, "store") /\ UNCHANGED <<answers, asked>>
     ELSE IF file.kind = "absent" THEN Goto(i, "setup") /\ Ask(i, "setup") /\ UNCHANGED answers
     ELSE NotSaved(i) /\ UNCHANGED asked
  /\ UNCHANGED <<given, file, held, opened>>

\* The file may have appeared meanwhile: then this is an unlock after all.
SetUp(i) ==
  /\ pc[i] = "setup"
  /\ \E m \in Masters : CanLoad(m) /\ Hold(i, Loaded(i, m))
  /\ Goto(i, "store")
  /\ UNCHANGED <<given, file, opened, answers, asked>>

SetUpFails(i) ==
  /\ pc[i] = "setup"
  /\ NotSaved(i)
  /\ UNCHANGED <<given, file, held, opened, asked>>

\* Defect: the password is filed as it was typed.
FiledInClear(i) ==
  [k \in DOMAIN held[i].entries \cup {FlatKey(Typed(i).about, Typed(i).name)} |->
     IF k = FlatKey(Typed(i).about, Typed(i).name)
     THEN Typed(i) ELSE held[i].entries[k]]

\* The entries held, with the typed password under the addressed name.
Filed(i) ==
  [k \in DOMAIN held[i].entries \cup {FlatKey(Typed(i).about, Typed(i).name)} |->
     IF k = FlatKey(Typed(i).about, Typed(i).name)
     THEN Encrypted(Typed(i), held[i].lock) ELSE held[i].entries[k]]

\* Set changes the copy first; os.WriteFile then opens the file, emptying it.
Truncate(i) ==
  /\ pc[i] = "store"
  /\ Hold(i, Unlocked(held[i].lock, Filed(i)))
  /\ file' = EmptyFile
  /\ Goto(i, "write")
  /\ UNCHANGED <<given, opened, answers, asked>>

OpenFails(i) ==
  /\ pc[i] = "store"
  /\ Hold(i, Unlocked(held[i].lock, Filed(i)))
  /\ NotSaved(i)
  /\ UNCHANGED <<given, file, opened, asked>>

\* Over what another invocation may have written since the truncation.
Overlaid(contents) ==
  IF file \in {EmptyFile, contents} THEN {contents} ELSE {contents, Garbled}

Write(i) ==
  /\ pc[i] = "write"
  /\ file' \in Overlaid(Doc(held[i].lock.salt, held[i].entries))
  /\ Answer(i, Typed(i))
  /\ UNCHANGED <<given, held, opened, asked>>

WriteFails(i) ==
  /\ pc[i] = "write"
  /\ file' \in {file, Garbled}
  /\ NotSaved(i)
  /\ UNCHANGED <<given, held, opened, asked>>

\* A hop cannot be reached, the user interrupts, or the machine goes down.
Stop(i) ==
  /\ pc[i] # "end"
  /\ Goto(i, "end")
  /\ UNCHANGED <<given, file, held, opened, answers, asked>>

Terminating == (\A i \in Invocations : pc[i] = "end") /\ UNCHANGED vars

-----------------------------------------------------------------------------
Run(i) ==
  \/ OpenStore(i) \/ Unlock(i) \/ UnlockFails(i)
  \/ Find(i) \/ Miss(i) \/ PromptFails(i) \/ PromptAnswered(i) \/ DeclineToSave(i)
  \/ SaveStore(i) \/ SetUp(i) \/ SetUpFails(i)
  \/ Truncate(i) \/ OpenFails(i) \/ Write(i) \/ WriteFails(i) \/ Stop(i)

NotBegun(i) == pc[i] = IF command[i].op = "set" THEN "prompt" ELSE "open"
Untried(i) == NotBegun(i) /\ answers[i] = <<>> /\ ~opened[i]
Alone(i) == \A j \in Invocations \ {i} : Untried(j) \/ pc[j] = "end"

Next ==
  \/ \E i \in Invocations : Run(i) /\ inTurn' = (inTurn /\ Alone(i))
  \/ Terminating

Spec == Init /\ [][Next]_vars

-----------------------------------------------------------------------------
Steps == {"open", "unlock", "lookup", "prompt", "save", "setup", "store", "write", "end"}

IsEntries(entries) == \A k \in DOMAIN entries : entries[k] \in Entry
IsHeld(store) ==
  \/ store = NotHeld
  \/ /\ store = Unlocked(store.lock, store.entries)
     /\ store.lock \in Lock /\ IsEntries(store.entries)

TypeOK ==
  /\ file = Contents(file.kind, file.salt, file.entries)
  /\ file.kind \in {"absent", "doc", "empty", "garbled"}
  /\ file.salt \in Origins /\ IsEntries(file.entries)
  /\ first \in Start
  /\ command \in [Invocations -> Commands]
  /\ pc \in [Invocations -> Steps]
  /\ DOMAIN held = Invocations /\ \A i \in Invocations : IsHeld(held[i])
  /\ opened \in [Invocations -> BOOLEAN]
  /\ answers \in [Invocations -> Seq(Secret \cup {Nothing})]
  /\ asked \in [Invocations -> [unlock : Nat, setup : Nat]]
  /\ inTurn \in BOOLEAN

(***************************************************************************)
(* Whoever saves what, and however invocations overlap or fail, there is   *)
(* one master password that opens every entry of the file: no entry is     *)
(* ever added under another key, which would make Load refuse the store    *)
(* for ever after.                                                         *)
(***************************************************************************)
OneMasterOpensAll ==
  file.kind = "doc" =>
    \E m \in Masters : Verified(file.entries, [salt |-> file.salt, master |-> m])

\* Some invocation is to save, or may be asked to, under this key.
Told(key) ==
  \E i \in Invocations : \E n \in DOMAIN Requests(command[i]) :
    LET r == Requests(command[i])[n]
    IN  r.kind # "exec" /\ key = FlatKey(r.about, r.keys[1])

(***************************************************************************)
(* Overlapping invocations lose at most passwords they were told to save:  *)
(* every other entry of the first file is in any later one, unchanged,     *)
(* with the same master password; a wrong one, a cancelled prompt, a       *)
(* set-up that comes too late and a failed save never start a new store    *)
(* over it.                                                                *)
(***************************************************************************)
Keeps(entries) ==
  \A k \in DOMAIN first.entries :
    ~Told(k) => k \in DOMAIN entries /\ entries[k] = first.entries[k]

UntouchedPasswordsSurvive == file.kind = "doc" => Keeps(file.entries)

(***************************************************************************)
(* A store nobody can load is left to its owner: it is neither opened, as  *)
(* if it were a missing or an empty one, nor set up anew, unless an        *)
(* invocation still holds a copy from before.                              *)
(***************************************************************************)
Lost ==
  ~Readable(file) /\ \A i \in Invocations : pc[i] = "end" \/ held[i].locked
BrokenStoreIsLeftAlone == [][Lost => UNCHANGED <<file, held>>]_vars

(***************************************************************************)
(* However many hops and saves ask for the store, an invocation asks for   *)
(* its master password at most once, and never asks to set one up after    *)
(* that.                                                                   *)
(***************************************************************************)
AskedOnce ==
  \A i \in Invocations :
    asked[i].unlock <= 1 /\ (asked[i].unlock = 1 => asked[i].setup = 0)

(***************************************************************************)
(* README.md: `exec' never stops to ask for anything.                      *)
(***************************************************************************)
ExecNeverAsks ==
  \A i \in Invocations :
    command[i].op = "exec" /\ ~command[i].sudo => asked[i].unlock = 0

(***************************************************************************)
(* auth.go, savedPassword: what a hop authenticates with is never a sudo   *)
(* password, though both kinds are filed in one map.  It takes that no     *)
(* Host has the name of another followed by "/sudo", which nothing checks. *)
(***************************************************************************)
NamesAreNotSudoKeys == \A name \in Names : SudoKey(name) \notin Names

NeverTheSudoPassword ==
  NamesAreNotSudoKeys =>
    \A i \in Invocations : \A n \in DOMAIN answers[i] :
      Requests(command[i])[n].kind \in {"login", "exec"} => answers[i][n].about # "sudo"

(***************************************************************************)
(* As long as they follow one another, the invocations work on a vault in  *)
(* which SSH and sudo passwords are two things.  A save under way has      *)
(* happened.                                                               *)
(***************************************************************************)
Saving == {i \in Invocations : pc[i] = "write"}

Slots == {"ssh", "sudo"} \X Names
Decoded(entries) ==
  [s \in {s \in Slots : FlatKey(s[1], s[2]) \in DOMAIN entries} |->
     entries[FlatKey(s[1], s[2])].secret]

SavedPasswords ==
  IF Saving # {} THEN Decoded(held[CHOOSE i \in Saving : TRUE].entries)
  ELSE Decoded(file.entries)
KnownPasswords ==
  [i \in Invocations |->
     IF held[i].locked THEN [locked |-> TRUE]
     ELSE [locked |-> FALSE, passwords |-> Decoded(held[i].entries)]]

Vault == INSTANCE Vault WITH
  Start <- {Decoded(f.entries) : f \in Start}, saved <- SavedPasswords,
  intact <- (Readable(file) \/ Saving # {}), known <- KnownPasswords

ImplementsVault == Vault!Spec
-----------------------------------------------------------------------------
(***************************************************************************)
(* The inductive invariant.  Of each invocation: a request is under way    *)
(* until the end; nothing is saved for a hop of exec, nor before the store *)
(* was tried; what is to be saved is unlocked; and what it asked fits.     *)
(***************************************************************************)
Underway(i) == pc[i] # "end" => Len(answers[i]) < Len(Requests(command[i]))
MaySave(i) ==
  pc[i] \in {"prompt", "save", "setup", "store", "write"} => Running(i).kind # "exec"
HoldsToSave(i) == pc[i] \in {"store", "write"} => ~held[i].locked
HasTried(i) ==
  \/ pc[i] \in {"unlock", "lookup", "save", "setup", "store", "write"}
  \/ pc[i] = "prompt" /\ Running(i).kind # "set"
  => opened[i]
AskedTracked(i) ==
  /\ asked[i].unlock <= 1
  /\ ~opened[i] => asked[i].unlock = 0 /\ asked[i].setup = 0
  /\ asked[i].unlock = 1 => asked[i].setup = 0 /\ file.kind # "absent"

(***************************************************************************)
(* The copies in memory keep what the file has to keep: a save writes what *)
(* was loaded some time ago.                                               *)
(***************************************************************************)
CopyKept(i) ==
  ~held[i].locked =>
    /\ Verified(held[i].entries, held[i].lock)
    /\ WellFiled(held[i].entries)
    /\ Keeps(held[i].entries)
AnsweredRightly(i) ==
  NamesAreNotSudoKeys =>
    \A n \in DOMAIN answers[i] :
      Requests(command[i])[n].kind \in {"login", "exec"} => answers[i][n].about # "sudo"
FileKept ==
  /\ OneMasterOpensAll
  /\ UntouchedPasswordsSurvive
  /\ file.kind = "doc" => WellFiled(file.entries)
  /\ file.kind = "absent" => DOMAIN first.entries = {}

Tracked(i) ==
  /\ Underway(i) /\ MaySave(i) /\ HoldsToSave(i) /\ HasTried(i)
  /\ AskedTracked(i) /\ CopyKept(i) /\ AnsweredRightly(i)

IInv == TypeOK /\ FileKept /\ \A i \in Invocations : Tracked(i)

(***************************************************************************)
(* What the refinement of Vault rests on besides.  Of each invocation:     *)
(* nothing is unlocked twice, a set command looks nothing up, sudo asks    *)
(* for a password only if none is known, and a save under way has the      *)
(* typed password in it.                                                   *)
(***************************************************************************)
TypedKey(i) == FlatKey(Typed(i).about, Typed(i).name)
LockedSoFar(i) == ~opened[i] \/ pc[i] \in {"unlock", "setup"} => held[i].locked
LooksUp(i) == pc[i] = "lookup" => Running(i).kind # "set"
SudoUnknown(i) == pc[i] = "prompt" /\ Running(i).kind = "sudo" => Hits(i) = {}
TypedIsHeld(i) ==
  pc[i] = "write" =>
    TypedKey(i) \in DOMAIN held[i].entries /\ held[i].entries[TypedKey(i)].secret = Typed(i)
Fits(i) == LockedSoFar(i) /\ LooksUp(i) /\ SudoUnknown(i) /\ TypedIsHeld(i)

(***************************************************************************)
(* And while they have followed one another: an open store misses nothing  *)
(* that is saved, and nobody else has written during a save.               *)
(***************************************************************************)
CopyIsCurrent(i) ==
  ~held[i].locked /\ pc[i] \notin {"write", "end"} /\ Readable(file) =>
    \A k \in DOMAIN file.entries :
      /\ k \in DOMAIN held[i].entries
      /\ \/ held[i].entries[k].secret = file.entries[k].secret
         \/ held[i].entries[k].secret.by = i
SavesAlone(i) == pc[i] = "write" => file = EmptyFile

TurnInv ==
  /\ file.kind # "doc" => DOMAIN file.entries = {}
  /\ \A i \in Invocations : Fits(i)
  /\ inTurn => \A i \in Invocations : CopyIsCurrent(i) /\ SavesAlone(i)
=============================================================================
