-------------------------- MODULE CredentialsProofs --------------------------
(***************************************************************************)
(* Theorems about Credentials: for any invocations, commands, names, master*)
(* passwords, naming of sudo keys and stores to start with.                *)
(***************************************************************************)
EXTENDS Credentials, TLAPS

Requesting ==
  [kind : {"login", "exec", "set", "sudo"}, about : {"ssh", "sudo"},
   keys : Seq(Names) \ {<<>>}, signs : BOOLEAN]

(***************************************************************************)
(* A command has at least one request, every request an addressed name,    *)
(* and a hop is authenticated with an SSH password.                        *)
(***************************************************************************)
LEMMA RequestsType ==
  ASSUME NEW c \in Command
  PROVE  /\ Requests(c) \in Seq(Requesting)
         /\ Len(Requests(c)) > 0
         /\ \A n \in DOMAIN Requests(c) :
              Requests(c)[n].kind \in {"login", "exec"} => Requests(c)[n].about = "ssh"
<1>1. /\ c.op \in {"login", "exec", "set"} /\ c.sudo \in BOOLEAN
      /\ c.hops \in Seq(Hop) /\ c.hops # <<>>
  BY DEF Command
<1>2. /\ Len(c.hops) > 0 /\ \A n \in DOMAIN c.hops : c.hops[n] \in Hop
  BY <1>1
<1> DEFINE about == IF c.op = "set" /\ c.sudo THEN "sudo" ELSE "ssh"
<1>3. /\ HopRequests(c) = [n \in DOMAIN c.hops |-> Request(c.op, about, c.hops[n])]
      /\ about \in {"ssh", "sudo"}
      /\ c.op \in {"login", "exec"} => about = "ssh"
  BY DEF HopRequests
<1>4. ASSUME NEW hop \in Hop, NEW kind \in {"login", "exec", "set", "sudo"},
             NEW a \in {"ssh", "sudo"}
      PROVE  /\ Request(kind, a, hop) \in Requesting
             /\ Request(kind, a, hop).kind = kind /\ Request(kind, a, hop).about = a
  BY DEF Request, Requesting, Hop
<1> HIDE DEF about
<1>5. \A n \in DOMAIN c.hops :
        /\ HopRequests(c)[n] \in Requesting
        /\ HopRequests(c)[n].kind = c.op /\ HopRequests(c)[n].about = about
  BY <1>1, <1>2, <1>3, <1>4
<1>6. /\ HopRequests(c) \in Seq(Requesting)
      /\ Len(HopRequests(c)) = Len(c.hops) /\ DOMAIN HopRequests(c) = DOMAIN c.hops
  <2>1. Len(c.hops) \in Nat /\ DOMAIN c.hops = 1..Len(c.hops)
    BY <1>1
  <2>2. HopRequests(c) \in [1..Len(c.hops) -> Requesting]
    BY <1>3, <1>5, <2>1
  <2> QED BY <2>1, <2>2
<1>7. SudoRequest(c) \in Requesting /\ SudoRequest(c).kind = "sudo"
  BY <1>1, <1>2, <1>4 DEF SudoRequest
<1>8. CASE c.op = "exec" /\ c.sudo
  <2>1. Requests(c) = Append(HopRequests(c), SudoRequest(c))
    BY <1>8 DEF Requests
  <2>2. /\ Requests(c) \in Seq(Requesting)
        /\ Len(Requests(c)) = Len(HopRequests(c)) + 1
    BY <2>1, <1>6, <1>7
  <2>3. ASSUME NEW n \in DOMAIN Requests(c),
               Requests(c)[n].kind \in {"login", "exec"}
        PROVE  Requests(c)[n].about = "ssh"
    <3>1. CASE n = Len(HopRequests(c)) + 1
      BY <2>1, <2>3, <3>1, <1>6, <1>7
    <3>2. CASE n # Len(HopRequests(c)) + 1
      <4>1. n \in DOMAIN HopRequests(c) /\ Requests(c)[n] = HopRequests(c)[n]
        BY <2>1, <2>2, <3>2, <1>6, <1>7
      <4> QED BY <4>1, <2>3, <1>3, <1>5, <1>6
    <3> QED BY <3>1, <3>2
  <2> QED BY <2>2, <2>3, <1>2, <1>6
<1>9. CASE ~(c.op = "exec" /\ c.sudo)
  <2>1. Requests(c) = HopRequests(c)
    BY <1>9 DEF Requests
  <2> QED BY <2>1, <1>2, <1>3, <1>5, <1>6
<1> QED BY <1>8, <1>9

\* The request that is under way, and the password typed for it.
LEMMA RunningType ==
  ASSUME NEW i \in Invocations, TypeOK, Len(answers[i]) < Len(Requests(command[i]))
  PROVE  /\ Running(i) \in Requesting
         /\ Len(answers[i]) + 1 \in DOMAIN Requests(command[i])
         /\ Running(i).kind \in {"login", "exec"} => Running(i).about = "ssh"
         /\ Running(i).keys[1] \in Names
         /\ Typed(i) \in Secret
         /\ Typed(i).about = Running(i).about /\ Typed(i).name = Running(i).keys[1]
<1>1. command[i] \in Command /\ Len(answers[i]) \in Nat
  BY CommandAssumption DEF TypeOK
<1>2. Requests(command[i]) \in Seq(Requesting)
  BY <1>1, RequestsType
<1>3. Len(answers[i]) + 1 \in DOMAIN Requests(command[i])
  BY <1>1, <1>2
<1>4. Running(i) \in Requesting
  BY <1>2, <1>3 DEF Running
<1>5. Running(i).kind \in {"login", "exec"} => Running(i).about = "ssh"
  BY <1>1, <1>3, RequestsType DEF Running
<1>6. Running(i).keys[1] \in Names /\ Running(i).about \in {"ssh", "sudo"}
  BY <1>4 DEF Requesting
<1>7. /\ Typed(i) \in Secret
      /\ Typed(i).about = Running(i).about /\ Typed(i).name = Running(i).keys[1]
  BY <1>6 DEF Typed, Secret, Origins
<1> QED BY <1>3, <1>4, <1>5, <1>6, <1>7

-----------------------------------------------------------------------------
(***************************************************************************)
(* What a store in memory has to be for a save of it to keep what must be  *)
(* kept.                                                                   *)
(***************************************************************************)
Sound(lock, entries) ==
  /\ lock \in Lock /\ IsEntries(entries)
  /\ Verified(entries, lock) /\ WellFiled(entries) /\ Keeps(entries)

LEMMA LockType ==
  ASSUME NEW salt \in Origins, NEW master \in Masters
  PROVE  [salt |-> salt, master |-> master] \in Lock
BY DEF Lock

LEMMA UnlockedFacts ==
  ASSUME NEW lock, NEW entries
  PROVE  /\ ~Unlocked(lock, entries).locked
         /\ Unlocked(lock, entries).lock = lock
         /\ Unlocked(lock, entries).entries = entries
BY DEF Unlocked

LEMMA ContentsFacts ==
  ASSUME NEW kind, NEW salt, NEW entries
  PROVE  /\ Contents(kind, salt, entries).kind = kind
         /\ Contents(kind, salt, entries).salt = salt
         /\ Contents(kind, salt, entries).entries = entries
BY DEF Contents

LEMMA NoEntriesFacts ==
  DOMAIN NoEntries = {} /\ IsEntries(NoEntries) /\ WellFiled(NoEntries)
BY DEF NoEntries, IsEntries, WellFiled

\* A store that loads is sound: a new one, or the one in the file.
LEMMA LoadedSound ==
  ASSUME TypeOK, FileKept, NEW i \in Invocations, NEW master \in Masters, CanLoad(master)
  PROVE  \E lock, entries : Loaded(i, master) = Unlocked(lock, entries) /\ Sound(lock, entries)
<1>1. file.salt \in Origins /\ IsEntries(file.entries) /\ i \in Origins
  BY DEF TypeOK, Origins
<1>2. CASE file.kind = "absent"
  <2> DEFINE lock == [salt |-> i, master |-> master]
  <2>1. lock \in Lock
    BY <1>1, LockType
  <2>2. Verified(NoEntries, lock)
    BY NoEntriesFacts DEF Verified
  <2>3. Keeps(NoEntries)
    BY <1>2 DEF Keeps, FileKept
  <2>4. Loaded(i, master) = Unlocked(lock, NoEntries)
    BY <1>2 DEF Loaded
  <2> HIDE DEF lock
  <2> QED BY <2>1, <2>2, <2>3, <2>4, NoEntriesFacts DEF Sound
<1>3. CASE file.kind # "absent"
  <2> DEFINE lock == [salt |-> file.salt, master |-> master]
  <2>1. file.kind = "doc" /\ Verified(file.entries, lock)
    BY <1>3 DEF CanLoad, Readable
  <2>2. lock \in Lock
    BY <1>1, LockType
  <2>3. WellFiled(file.entries) /\ Keeps(file.entries)
    BY <2>1 DEF FileKept, UntouchedPasswordsSurvive
  <2>4. Loaded(i, master) = Unlocked(lock, file.entries)
    BY <1>3 DEF Loaded
  <2> HIDE DEF lock
  <2> QED BY <1>1, <2>1, <2>2, <2>3, <2>4 DEF Sound
<1> QED BY <1>2, <1>3

\* So is a sound store with the typed password in it, if saving was asked for.
LEMMA FiledSound ==
  ASSUME NEW i \in Invocations, Sound(held[i].lock, held[i].entries),
         Typed(i) \in Secret, Told(FlatKey(Typed(i).about, Typed(i).name))
  PROVE  Sound(held[i].lock, Filed(i))
<1> DEFINE key == FlatKey(Typed(i).about, Typed(i).name)
           entry == Encrypted(Typed(i), held[i].lock)
           old == held[i].entries
           new == Filed(i)
<1>1. entry \in Entry /\ entry.lock = held[i].lock /\ entry.secret = Typed(i)
  BY DEF Encrypted, Entry, Sound
<1>2. /\ DOMAIN new = DOMAIN old \cup {key}
      /\ new[key] = entry
      /\ \A k \in DOMAIN old \ {key} : new[k] = old[k]
  BY DEF Filed
<1>3. key = FlatKey(Typed(i).about, Typed(i).name) /\ Told(key)
  OBVIOUS
<1> HIDE DEF key, entry, new
<1>4. IsEntries(new)
  BY <1>1, <1>2 DEF IsEntries, Sound
<1>5. Verified(new, held[i].lock)
  BY <1>1, <1>2 DEF Verified, Sound
<1>6. WellFiled(new)
  BY <1>1, <1>2, <1>3 DEF WellFiled, Sound
<1>7. Keeps(new)
  BY <1>2, <1>3 DEF Keeps, Sound
<1> QED BY <1>4, <1>5, <1>6, <1>7 DEF Sound, new

\* What is held is sound.
LEMMA HeldSound ==
  ASSUME TypeOK, NEW i \in Invocations, CopyKept(i), ~held[i].locked
  PROVE  /\ Sound(held[i].lock, held[i].entries)
         /\ held[i] = Unlocked(held[i].lock, held[i].entries)
<1>1. held[i] # NotHeld
  BY DEF NotHeld
<1> QED BY <1>1 DEF TypeOK, IsHeld, CopyKept, Sound

-----------------------------------------------------------------------------
(***************************************************************************)
(* The inductive invariant.                                                *)
(***************************************************************************)
LEMMA InitInv == Init => IInv
<1> SUFFICES ASSUME Init PROVE IInv
  OBVIOUS
<1>1. /\ file = Contents(file.kind, file.salt, file.entries)
      /\ file.kind \in {"absent", "doc"} /\ file.salt \in Origins
      /\ IsEntries(file.entries) /\ WellFiled(file.entries)
      /\ file.kind = "absent" => DOMAIN file.entries = {}
      /\ OneMasterOpensAll
  <2>1. file \in Start /\ (file = NoFile \/ IsStoreFile(file))
    BY StartAssumption DEF Init
  <2>2. CASE file = NoFile
    <3>1. file = Contents("absent", "start", NoEntries)
      BY <2>2 DEF NoFile
    <3>2. file.kind = "absent" /\ file.salt = "start" /\ file.entries = NoEntries
      BY <3>1, ContentsFacts
    <3> QED BY <3>1, <3>2, NoEntriesFacts DEF Origins, OneMasterOpensAll
  <2>3. CASE IsStoreFile(file)
    <3>1. file = Contents("doc", file.salt, file.entries)
      BY <2>3 DEF IsStoreFile, Doc
    <3>2. file.kind = "doc"
      BY <3>1, ContentsFacts
    <3> QED BY <2>3, <3>1, <3>2 DEF IsStoreFile, IsEntries, OneMasterOpensAll
  <2> QED BY <2>1, <2>2, <2>3
<1>2. TypeOK
  <2>1. \A j \in Invocations : held[j] = NotHeld /\ IsHeld(held[j])
    BY DEF Init, IsHeld
  <2>2. /\ pc \in [Invocations -> Steps] /\ opened \in [Invocations -> BOOLEAN]
        /\ answers \in [Invocations -> Seq(Secret \cup {Nothing})]
        /\ asked \in [Invocations -> [unlock : Nat, setup : Nat]]
    BY DEF Init, Steps
  <2> QED BY <1>1, <2>1, <2>2 DEF Init, TypeOK
<1>3. FileKept
  <2>1. Keeps(file.entries)
    BY DEF Init, Keeps
  <2> QED BY <1>1, <2>1 DEF Init, FileKept, UntouchedPasswordsSurvive
<1>4. ASSUME NEW j \in Invocations
      PROVE  Tracked(j)
  <2>1. /\ pc[j] = IF command[j].op = "set" THEN "prompt" ELSE "open"
        /\ held[j] = NotHeld /\ ~opened[j] /\ answers[j] = <<>>
        /\ asked[j] = [unlock |-> 0, setup |-> 0]
    BY DEF Init
  <2>2. command[j] \in Command
    BY CommandAssumption DEF Init
  <2>3. /\ 1 \in DOMAIN Requests(command[j]) /\ Len(Requests(command[j])) > 0
        /\ Running(j) = Requests(command[j])[1]
    BY <2>1, <2>2, RequestsType DEF Running
  <2>4. command[j].op = "set" => Running(j).kind = "set"
    BY <2>2, <2>3
    DEF Command, Requests, HopRequests, Request
  <2>5. Underway(j)
    BY <2>1, <2>3 DEF Underway
  <2>6. MaySave(j)
    BY <2>1, <2>4 DEF MaySave
  <2>7. HoldsToSave(j) /\ CopyKept(j)
    BY <2>1 DEF HoldsToSave, CopyKept, NotHeld
  <2>8. HasTried(j)
    BY <2>1, <2>4 DEF HasTried
  <2>9. AskedTracked(j)
    BY <2>1 DEF AskedTracked
  <2>10. AnsweredRightly(j)
    BY <2>1 DEF AnsweredRightly
  <2> QED BY <2>5, <2>6, <2>7, <2>8, <2>9, <2>10 DEF Tracked
<1> QED BY <1>2, <1>3, <1>4 DEF IInv

\* What invocations are told to save depends on nothing that a step changes.
LEMMA GivenUnchanged ==
  ASSUME UNCHANGED given
  PROVE  /\ command' = command /\ first' = first
         /\ \A k : Told(k)' <=> Told(k)
<1>1. command' = command /\ first' = first
  BY DEF given
<1>2. \A k : Told(k)' <=> Told(k)
  BY <1>1 DEF Told
<1> QED BY <1>1, <1>2

(***************************************************************************)
(* How a step may move an invocation on, of its requests and their answers.*)
(***************************************************************************)
Moves(i) ==
  /\ pc' \in [Invocations -> Steps]
  /\ answers' \in [Invocations -> Seq(Secret \cup {Nothing})]
  /\ \A j \in Invocations \ {i} : pc'[j] = pc[j] /\ answers'[j] = answers[j]
  /\ Underway(i)' /\ AnsweredRightly(i)'

LEMMA MovedOn ==
  ASSUME IInv, UNCHANGED given, NEW i \in Invocations, pc[i] # "end",
         NEW step \in Steps, Goto(i, step), UNCHANGED answers
  PROVE  Moves(i) /\ pc'[i] = step /\ Running(i)' = Running(i)
<1>1. /\ pc \in [Invocations -> Steps] /\ Underway(i) /\ AnsweredRightly(i)
      /\ answers \in [Invocations -> Seq(Secret \cup {Nothing})]
  BY DEF IInv, TypeOK, Tracked
<1>2. command' = command /\ answers' = answers
  BY GivenUnchanged
<1>3. /\ pc' \in [Invocations -> Steps] /\ pc'[i] = step
      /\ \A j \in Invocations \ {i} : pc'[j] = pc[j]
  BY <1>1 DEF Goto
<1>4. Underway(i)'
  BY <1>1, <1>2 DEF Underway
<1>5. AnsweredRightly(i)'
  BY <1>1, <1>2 DEF AnsweredRightly
<1>6. Running(i)' = Running(i)
  BY <1>2 DEF Running
<1> QED BY <1>1, <1>2, <1>3, <1>4, <1>5, <1>6 DEF Moves

LEMMA Answered ==
  ASSUME IInv, UNCHANGED given, NEW i \in Invocations, pc[i] # "end",
         NEW answer \in Secret \cup {Nothing}, Answer(i, answer),
         NamesAreNotSudoKeys /\ Running(i).kind \in {"login", "exec"} =>
           answer.about # "sudo"
  PROVE  Moves(i) /\ pc'[i] \in {"open", "end"}
<1> DEFINE all == Requests(command[i])
           old == answers[i]
           new == answers'[i]
<1>1. /\ pc \in [Invocations -> Steps] /\ Underway(i) /\ AnsweredRightly(i)
      /\ answers \in [Invocations -> Seq(Secret \cup {Nothing})]
  BY DEF IInv, TypeOK, Tracked
<1>2. command' = command
  BY GivenUnchanged
<1>3. command[i] \in Command
  BY CommandAssumption DEF IInv, TypeOK
<1>4. all \in Seq(Requesting) /\ Len(all) \in Nat
  BY <1>3, RequestsType
<1>5. old \in Seq(Secret \cup {Nothing}) /\ Len(old) < Len(all)
  BY <1>1 DEF Underway
<1>6. /\ new = Append(old, answer)
      /\ answers' \in [Invocations -> Seq(Secret \cup {Nothing})]
      /\ \A j \in Invocations \ {i} : pc'[j] = pc[j] /\ answers'[j] = answers[j]
      /\ pc' \in [Invocations -> Steps]
      /\ pc'[i] = IF Len(old) + 1 = Len(all) THEN "end" ELSE "open"
  BY <1>1 DEF Answer, Goto, Steps
<1>7. Len(new) = Len(old) + 1 /\ \A n \in DOMAIN new :
         IF n = Len(old) + 1 THEN new[n] = answer ELSE n \in DOMAIN old /\ new[n] = old[n]
  BY <1>5, <1>6
<1>8. Underway(i)'
  <2>1. pc'[i] # "end" => Len(new) < Len(all)
    BY <1>4, <1>5, <1>6, <1>7
  <2> QED BY <1>2, <2>1 DEF Underway
<1>9. AnsweredRightly(i)'
  <2>1. NamesAreNotSudoKeys =>
           \A n \in DOMAIN new : all[n].kind \in {"login", "exec"} => new[n].about # "sudo"
    BY <1>1, <1>7 DEF AnsweredRightly, Running
  <2> QED BY <1>2, <2>1 DEF AnsweredRightly, NamesAreNotSudoKeys
<1> QED BY <1>6, <1>8, <1>9 DEF Moves

LEMMA AnsweredAsTyped ==
  ASSUME IInv, UNCHANGED given, NEW i \in Invocations, pc[i] # "end", Answer(i, Typed(i))
  PROVE  Moves(i) /\ pc'[i] \in {"open", "end"}
<1>1. Len(answers[i]) < Len(Requests(command[i])) /\ TypeOK
  BY DEF IInv, Tracked, Underway
<1>2. Typed(i) \in Secret /\ (Running(i).kind \in {"login", "exec"} => Typed(i).about = "ssh")
  BY <1>1, RunningType
<1> QED BY <1>2, Answered

LEMMA AnsweredNothing ==
  ASSUME IInv, UNCHANGED given, NEW i \in Invocations, pc[i] # "end", Answer(i, Nothing)
  PROVE  Moves(i) /\ pc'[i] \in {"open", "end"}
<1>1. Nothing.about # "sudo"
  BY DEF Nothing
<1> QED BY <1>1, Answered

LEMMA Ended ==
  ASSUME IInv, UNCHANGED given, NEW i \in Invocations, pc[i] # "end", Goto(i, "end"),
         UNCHANGED answers
  PROVE  Moves(i) /\ pc'[i] \in {"open", "end"}
<1>1. "end" \in Steps
  BY DEF Steps
<1> QED BY <1>1, MovedOn

LEMMA LeftUnsaved ==
  ASSUME IInv, UNCHANGED given, NEW i \in Invocations, pc[i] # "end", NotSaved(i)
  PROVE  Moves(i) /\ pc'[i] \in {"open", "end"}
BY Ended, AnsweredAsTyped DEF NotSaved

(***************************************************************************)
(* How a step may change the store an invocation holds, and the file.      *)
(***************************************************************************)
HoldsOn(i) ==
  /\ DOMAIN held' = Invocations
  /\ \A j \in Invocations \ {i} : held'[j] = held[j]
  /\ \/ held'[i] = held[i]
     \/ \E lock, entries : held'[i] = Unlocked(lock, entries) /\ Sound(lock, entries)

FileFollows ==
  \/ file' = file
  \/ file' \in {EmptyFile, Garbled}
  \/ \E lock, entries : file' = Doc(lock.salt, entries) /\ Sound(lock, entries)

\* What the file may be after a step, in terms of the state before it.
GoodFile(f) ==
  /\ f = Contents(f.kind, f.salt, f.entries)
  /\ f.kind \in {"absent", "doc", "empty", "garbled"}
  /\ f.salt \in Origins /\ IsEntries(f.entries)
  /\ f.kind = "doc" =>
       /\ \E m \in Masters : Verified(f.entries, [salt |-> f.salt, master |-> m])
       /\ Keeps(f.entries) /\ WellFiled(f.entries)
  /\ f.kind = "absent" => DOMAIN first.entries = {} /\ file.kind = "absent"

LEMMA FileStaysGood ==
  ASSUME TypeOK, FileKept, FileFollows
  PROVE  GoodFile(file')
<1>1. GoodFile(file)
  BY DEF GoodFile, TypeOK, FileKept, OneMasterOpensAll, UntouchedPasswordsSurvive
<1>2. ASSUME NEW kind \in {"empty", "garbled"}
      PROVE  GoodFile(Contents(kind, "start", NoEntries))
  <2> DEFINE f == Contents(kind, "start", NoEntries)
  <2>1. f.kind = kind /\ f.salt = "start" /\ f.entries = NoEntries
    BY ContentsFacts
  <2>2. f = Contents(f.kind, f.salt, f.entries)
    BY <2>1
  <2> HIDE DEF f
  <2>3. GoodFile(f)
    BY <2>1, <2>2, NoEntriesFacts DEF GoodFile, Origins
  <2> QED BY <2>3 DEF f
<1>3. ASSUME NEW lock, NEW entries, Sound(lock, entries)
      PROVE  GoodFile(Doc(lock.salt, entries))
  <2> DEFINE f == Doc(lock.salt, entries)
  <2>1. f.kind = "doc" /\ f.salt = lock.salt /\ f.entries = entries
    BY ContentsFacts DEF Doc
  <2>2. f = Contents(f.kind, f.salt, f.entries)
    BY <2>1 DEF Doc
  <2>3. /\ lock.master \in Masters /\ lock.salt \in Origins
        /\ lock = [salt |-> lock.salt, master |-> lock.master]
    BY <1>3 DEF Sound, Lock
  <2> HIDE DEF f
  <2>4. GoodFile(f)
    BY <1>3, <2>1, <2>2, <2>3 DEF GoodFile, Sound
  <2> QED BY <2>4 DEF f
<1> QED BY <1>1, <1>2, <1>3 DEF FileFollows, EmptyFile, Garbled

LEMMA FilePreserved ==
  ASSUME TypeOK, FileKept, UNCHANGED given, FileFollows
  PROVE  /\ FileKept'
         /\ (file = Contents(file.kind, file.salt, file.entries))'
         /\ file'.kind \in {"absent", "doc", "empty", "garbled"}
         /\ file'.salt \in Origins /\ IsEntries(file'.entries)
         /\ file.kind # "absent" => file'.kind # "absent"
<1>1. GoodFile(file')
  BY FileStaysGood
<1>2. first' = first /\ \A k : Told(k)' <=> Told(k)
  BY GivenUnchanged
<1>3. file'.kind = "doc" => Keeps(file.entries)'
  BY <1>1, <1>2 DEF GoodFile, Keeps
<1>4. OneMasterOpensAll'
  BY <1>1 DEF GoodFile, OneMasterOpensAll, Verified
<1>5. file'.kind = "doc" => WellFiled(file.entries)'
  BY <1>1 DEF GoodFile, WellFiled
<1>6. FileKept'
  BY <1>1, <1>2, <1>3, <1>4, <1>5 DEF GoodFile, FileKept, UntouchedPasswordsSurvive
<1>7. (file = Contents(file.kind, file.salt, file.entries))'
  BY <1>1 DEF GoodFile, Contents
<1> QED BY <1>1, <1>6, <1>7 DEF GoodFile

(***************************************************************************)
(* A step of one invocation that keeps these bounds preserves the          *)
(* invariant, the other invocations' part of it included.                  *)
(***************************************************************************)
LEMMA StepPreserves ==
  ASSUME IInv, UNCHANGED given, inTurn' \in BOOLEAN, NEW i \in Invocations,
         Moves(i), HoldsOn(i), FileFollows,
         opened' \in [Invocations -> BOOLEAN],
         asked' \in [Invocations -> [unlock : Nat, setup : Nat]],
         \A j \in Invocations \ {i} : opened'[j] = opened[j] /\ asked'[j] = asked[j],
         MaySave(i)', HoldsToSave(i)', HasTried(i)', AskedTracked(i)'
  PROVE  IInv'
<1>1. /\ command' = command /\ first' = first
      /\ \A k : Told(k)' <=> Told(k)
  BY GivenUnchanged
<1>2. TypeOK /\ FileKept /\ \A j \in Invocations : Tracked(j)
  BY DEF IInv
<1>3. /\ FileKept'
      /\ (file = Contents(file.kind, file.salt, file.entries))'
      /\ file'.kind \in {"absent", "doc", "empty", "garbled"}
      /\ file'.salt \in Origins /\ IsEntries(file'.entries)
      /\ file.kind # "absent" => file'.kind # "absent"
  BY <1>2, FilePreserved
<1>4. IsHeld(held'[i]) /\ CopyKept(i)'
  <2>1. CASE held'[i] = held[i]
    <3>1. IsHeld(held'[i])
      BY <1>2, <2>1 DEF TypeOK
    <3>2. CopyKept(i)
      BY <1>2 DEF Tracked
    <3>3. CopyKept(i)'
      BY <1>1, <2>1, <3>2 DEF CopyKept, Verified, WellFiled, Keeps
    <3> QED BY <3>1, <3>3
  <2>2. ASSUME NEW lock, NEW entries, held'[i] = Unlocked(lock, entries), Sound(lock, entries)
        PROVE  IsHeld(held'[i]) /\ CopyKept(i)'
    <3>1. held'[i].lock = lock /\ held'[i].entries = entries
      BY <2>2, UnlockedFacts
    <3>2. IsHeld(held'[i])
      BY <2>2, <3>1 DEF IsHeld, Sound
    <3>3. Verified(entries, lock) /\ WellFiled(entries) /\ Keeps(entries)
      BY <2>2 DEF Sound
    <3>4. CopyKept(i)'
      BY <1>1, <3>1, <3>3 DEF CopyKept, Verified, WellFiled, Keeps
    <3> QED BY <3>2, <3>4
  <2> QED BY <2>1, <2>2 DEF HoldsOn
<1>5. TypeOK'
  <2>1. \A j \in Invocations : IsHeld(held'[j])
    BY <1>2, <1>4 DEF HoldsOn, TypeOK
  <2>2. \A j \in Invocations : IsHeld(held[j])'
    BY <2>1 DEF IsHeld, IsEntries
  <2>3. (file.salt \in Origins /\ IsEntries(file.entries))'
    BY <1>3 DEF IsEntries
  <2>4. DOMAIN held' = Invocations
    BY DEF HoldsOn
  <2>5. (first \in Start /\ command \in [Invocations -> Commands])'
    BY <1>1, <1>2 DEF TypeOK
  <2> QED BY <1>3, <2>2, <2>3, <2>4, <2>5 DEF TypeOK, Moves
<1>6. ASSUME NEW j \in Invocations
      PROVE  Tracked(j)'
  <2>1. CASE j = i
    BY <1>4, <2>1 DEF Tracked, Moves
  <2>2. CASE j # i
    <3>1. /\ Tracked(j) /\ pc'[j] = pc[j] /\ answers'[j] = answers[j]
          /\ held'[j] = held[j] /\ opened'[j] = opened[j] /\ asked'[j] = asked[j]
      BY <1>2, <2>2 DEF Moves, HoldsOn
    <3>2. Running(j)' = Running(j)
      BY <1>1, <3>1 DEF Running
    <3>3. Underway(j)'
      BY <1>1, <3>1 DEF Tracked, Underway
    <3>4. MaySave(j)'
      BY <3>1, <3>2 DEF Tracked, MaySave
    <3>5. HoldsToSave(j)'
      BY <3>1 DEF Tracked, HoldsToSave
    <3>6. HasTried(j)'
      BY <3>1, <3>2 DEF Tracked, HasTried
    <3>7. AskedTracked(j)'
      BY <1>3, <3>1 DEF Tracked, AskedTracked
    <3>8. CopyKept(j)'
      BY <1>1, <3>1 DEF Tracked, CopyKept, Verified, WellFiled, Keeps
    <3>9. AnsweredRightly(j)'
      BY <1>1, <3>1 DEF Tracked, AnsweredRightly, NamesAreNotSudoKeys
    <3> QED BY <3>3, <3>4, <3>5, <3>6, <3>7, <3>8, <3>9 DEF Tracked
  <2> QED BY <2>1, <2>2
<1> QED BY <1>3, <1>5, <1>6 DEF IInv

\* The same for the steps that do not ask for a master password.
LEMMA QuietStepPreserves ==
  ASSUME IInv, UNCHANGED <<given, opened, asked>>, inTurn' \in BOOLEAN,
         NEW i \in Invocations, Moves(i), HoldsOn(i), FileFollows,
         MaySave(i)', HoldsToSave(i)', HasTried(i)'
  PROVE  IInv'
<1>1. /\ opened' \in [Invocations -> BOOLEAN]
      /\ asked' \in [Invocations -> [unlock : Nat, setup : Nat]]
      /\ \A j \in Invocations : opened'[j] = opened[j] /\ asked'[j] = asked[j]
  BY DEF IInv, TypeOK
<1>2. TypeOK /\ FileKept /\ AskedTracked(i)
  BY DEF IInv, Tracked
<1>3. AskedTracked(i)'
  <2>1. file.kind # "absent" => file'.kind # "absent"
    BY <1>2, FilePreserved
  <2> QED BY <1>1, <1>2, <2>1 DEF AskedTracked
<1> QED BY <1>1, <1>3, StepPreserves

\* A request is answered, or the invocation ends.
LEMMA SettledPreserves ==
  ASSUME IInv, UNCHANGED <<given, opened, asked>>, inTurn' \in BOOLEAN,
         NEW i \in Invocations, Moves(i), pc'[i] \in {"open", "end"},
         HoldsOn(i), FileFollows
  PROVE  IInv'
<1>1. MaySave(i)' /\ HoldsToSave(i)' /\ HasTried(i)'
  BY DEF MaySave, HoldsToSave, HasTried
<1> QED BY <1>1, QuietStepPreserves

LEMMA UnchangedFollows ==
  ASSUME TypeOK, NEW i \in Invocations
  PROVE  /\ held' = held => HoldsOn(i)
         /\ file' = file => FileFollows
BY DEF TypeOK, HoldsOn, FileFollows

-----------------------------------------------------------------------------
(***************************************************************************)
(* Each step of an invocation preserves the invariant.                     *)
(***************************************************************************)
LEMMA AfterOpeningStep ==
  ASSUME NEW i \in Invocations
  PROVE  /\ AfterOpening(i) \in Steps /\ AfterOpening(i) \in {"lookup", "save"}
         /\ AfterOpening(i) = "save" => Running(i).kind = "set"
BY DEF AfterOpening, Steps

LEMMA AskedOnceMore ==
  ASSUME TypeOK, NEW i \in Invocations, NEW what \in {"unlock", "setup"}, Ask(i, what)
  PROVE  /\ asked' \in [Invocations -> [unlock : Nat, setup : Nat]]
         /\ \A j \in Invocations \ {i} : asked'[j] = asked[j]
         /\ what = "unlock" =>
              asked'[i].unlock = asked[i].unlock + 1 /\ asked'[i].setup = asked[i].setup
         /\ what = "setup" => asked'[i].unlock = asked[i].unlock
<1>1. asked \in [Invocations -> [unlock : Nat, setup : Nat]]
  BY DEF TypeOK
<1>2. CASE what = "unlock"
  <2>1. asked' = [asked EXCEPT ![i].unlock = @ + 1]
    BY <1>2 DEF Ask
  <2> QED BY <1>1, <1>2, <2>1
<1>3. CASE what = "setup"
  <2>1. asked' = [asked EXCEPT ![i].setup = @ + 1]
    BY <1>3 DEF Ask
  <2> QED BY <1>1, <1>3, <2>1
<1> QED BY <1>2, <1>3

LEMMA OpenStorePreserves ==
  ASSUME IInv, inTurn' \in BOOLEAN, NEW i \in Invocations, OpenStore(i)
  PROVE  IInv'
<1>1. /\ UNCHANGED given /\ pc[i] = "open" /\ TypeOK
      /\ AskedTracked(i) /\ opened' = [opened EXCEPT ![i] = TRUE]
      /\ UNCHANGED <<file, held, answers>>
  BY DEF OpenStore, IInv, Tracked
<1>2. /\ opened' \in [Invocations -> BOOLEAN] /\ opened'[i] = TRUE
      /\ \A j \in Invocations \ {i} : opened'[j] = opened[j]
  BY <1>1 DEF TypeOK
<1>3. HoldsOn(i) /\ FileFollows
  BY <1>1, UnchangedFollows
<1>4. CASE opened[i] \/ file.kind = "absent"
  <2>1. Goto(i, AfterOpening(i)) /\ asked' = asked
    BY <1>4 DEF OpenStore
  <2>2. Moves(i) /\ pc'[i] = AfterOpening(i) /\ Running(i)' = Running(i)
    BY <1>1, <2>1, MovedOn, AfterOpeningStep
  <2>3. MaySave(i)' /\ HoldsToSave(i)' /\ HasTried(i)'
    BY <1>2, <2>2, AfterOpeningStep DEF MaySave, HoldsToSave, HasTried
  <2>4. AskedTracked(i)'
    BY <1>1, <1>2, <2>1 DEF AskedTracked
  <2>5. /\ asked' \in [Invocations -> [unlock : Nat, setup : Nat]]
        /\ \A j \in Invocations \ {i} : opened'[j] = opened[j] /\ asked'[j] = asked[j]
    BY <1>1, <1>2, <2>1 DEF TypeOK
  <2> QED BY <1>1, <1>2, <1>3, <2>2, <2>3, <2>4, <2>5, StepPreserves
<1>5. CASE ~opened[i] /\ file.kind # "absent"
  <2>1. Goto(i, "unlock") /\ "unlock" \in Steps /\ Ask(i, "unlock")
    BY <1>5 DEF OpenStore, Steps
  <2>2. Moves(i) /\ pc'[i] = "unlock"
    BY <1>1, <2>1, MovedOn
  <2>3. MaySave(i)' /\ HoldsToSave(i)' /\ HasTried(i)'
    BY <1>2, <2>2 DEF MaySave, HoldsToSave, HasTried
  <2>4. /\ asked' \in [Invocations -> [unlock : Nat, setup : Nat]]
        /\ asked'[i].unlock = asked[i].unlock + 1 /\ asked'[i].setup = asked[i].setup
        /\ \A j \in Invocations \ {i} : opened'[j] = opened[j] /\ asked'[j] = asked[j]
    BY <1>1, <1>2, <2>1, AskedOnceMore
  <2>5. AskedTracked(i)'
    BY <1>1, <1>2, <1>5, <2>4 DEF AskedTracked
  <2> QED BY <1>1, <1>2, <1>3, <2>2, <2>3, <2>4, <2>5, StepPreserves
<1> QED BY <1>4, <1>5

\* The store is unlocked, or set up by an invocation that has none.
LEMMA UnlockPreserves ==
  ASSUME IInv, inTurn' \in BOOLEAN, NEW i \in Invocations, Unlock(i) \/ SetUp(i)
  PROVE  IInv'
<1>1. /\ UNCHANGED <<given, opened, asked>> /\ UNCHANGED <<file, answers>>
      /\ pc[i] \in {"unlock", "setup"} /\ pc[i] # "end"
      /\ TypeOK /\ FileKept /\ MaySave(i) /\ HasTried(i)
  BY DEF Unlock, SetUp, IInv, Tracked
<1>2. FileFollows
  BY <1>1, UnchangedFollows
<1>3. HoldsOn(i) /\ ~held'[i].locked
  <2>1. PICK m \in Masters : CanLoad(m) /\ held' = [held EXCEPT ![i] = Loaded(i, m)]
    BY DEF Unlock, SetUp, Hold
  <2>2. PICK lock, entries : Loaded(i, m) = Unlocked(lock, entries) /\ Sound(lock, entries)
    BY <1>1, <2>1, LoadedSound
  <2>3. /\ DOMAIN held' = Invocations /\ held'[i] = Unlocked(lock, entries)
        /\ \A j \in Invocations \ {i} : held'[j] = held[j]
    BY <1>1, <2>1, <2>2 DEF TypeOK
  <2> QED BY <2>2, <2>3, UnlockedFacts DEF HoldsOn
<1>4. /\ Moves(i) /\ Running(i)' = Running(i)
      /\ \/ pc'[i] \in {"lookup", "save"} /\ (pc'[i] = "save" => Running(i).kind = "set")
         \/ pc[i] = "setup" /\ pc'[i] = "store"
  <2>1. CASE Unlock(i)
    <3>1. Goto(i, AfterOpening(i))
      BY <2>1 DEF Unlock
    <3> QED BY <1>1, <3>1, MovedOn, AfterOpeningStep
  <2>2. CASE SetUp(i)
    <3>1. Goto(i, "store") /\ "store" \in Steps /\ pc[i] = "setup"
      BY <2>2 DEF SetUp, Steps
    <3> QED BY <1>1, <3>1, MovedOn
  <2> QED BY <2>1, <2>2
<1>5. opened'[i]
  BY <1>1 DEF HasTried
<1>6. MaySave(i)' /\ HoldsToSave(i)' /\ HasTried(i)'
  BY <1>1, <1>3, <1>4, <1>5 DEF MaySave, HoldsToSave, HasTried
<1> QED BY <1>1, <1>2, <1>3, <1>4, <1>6, QuietStepPreserves

\* The steps that change neither the file nor a store in memory.
LEMMA ReadingPreserves ==
  ASSUME IInv, inTurn' \in BOOLEAN, NEW i \in Invocations,
         UNCHANGED <<given, file, held, opened, asked>>, pc[i] # "end",
         \/ \E secret \in Secret :
              /\ Answer(i, secret)
              /\ NamesAreNotSudoKeys /\ Running(i).kind \in {"login", "exec"} =>
                   secret.about # "sudo"
         \/ Answer(i, Typed(i))
         \/ Answer(i, Nothing)
         \/ NotSaved(i)
         \/ Goto(i, "end") /\ UNCHANGED answers
  PROVE  IInv'
<1>1. UNCHANGED given /\ UNCHANGED <<given, opened, asked>> /\ TypeOK
  BY DEF IInv
<1>2. Moves(i) /\ pc'[i] \in {"open", "end"}
  BY <1>1, Answered, AnsweredAsTyped, AnsweredNothing, LeftUnsaved, Ended
<1>3. HoldsOn(i) /\ FileFollows
  BY <1>1, UnchangedFollows
<1> QED BY <1>1, <1>2, <1>3, SettledPreserves

\* What is found in the store is not a sudo password, unless it is asked for.
LEMMA FindPreserves ==
  ASSUME IInv, inTurn' \in BOOLEAN, NEW i \in Invocations, Find(i)
  PROVE  IInv'
<1>1. PICK n \in Hits(i) : Answer(i, held[i].entries[Candidates(Running(i))[n]].secret)
  BY DEF Find
<1> DEFINE key == Candidates(Running(i))[n]
           secret == held[i].entries[key].secret
<1>2. /\ TypeOK /\ CopyKept(i) /\ Len(answers[i]) < Len(Requests(command[i]))
      /\ pc[i] # "end" /\ UNCHANGED <<given, file, held, opened, asked>>
  BY DEF Find, IInv, Tracked, Underway
<1>3. n \in DOMAIN Candidates(Running(i)) /\ ~held[i].locked /\ key \in DOMAIN held[i].entries
  BY DEF Hits
<1>4. Sound(held[i].lock, held[i].entries)
  BY <1>2, <1>3, HeldSound
<1>5. /\ secret \in Secret /\ key = FlatKey(secret.about, secret.name)
  BY <1>3, <1>4 DEF Sound, IsEntries, WellFiled, Entry
<1>6. ASSUME NamesAreNotSudoKeys, Running(i).kind \in {"login", "exec"}
      PROVE  secret.about # "sudo"
  <2>1. Running(i) \in Requesting
    BY <1>2, RunningType
  <2>2. Candidates(Running(i)) = Running(i).keys
    BY <1>6 DEF Candidates
  <2>3. key \in Names
    BY <1>3, <2>1, <2>2 DEF Requesting
  <2>4. secret.name \in Names
    BY <1>5 DEF Secret
  <2> HIDE DEF key, secret
  <2> QED BY <1>5, <1>6, <2>3, <2>4 DEF FlatKey, NamesAreNotSudoKeys
<1>7. Answer(i, secret)
  BY <1>1
<1> HIDE DEF secret
<1> QED BY <1>2, <1>5, <1>6, <1>7, ReadingPreserves

\* The steps that go on to another stage of the same request.
LEMMA AdvancePreserves ==
  ASSUME IInv, inTurn' \in BOOLEAN, NEW i \in Invocations,
         UNCHANGED <<given, file, held, opened, asked, answers>>,
         NEW step \in {"lookup", "prompt", "open", "save", "store"}, Goto(i, step),
         pc[i] \in {"unlock", "lookup", "prompt", "save"},
         step \in {"prompt", "save", "store"} => Running(i).kind # "exec",
         step = "store" => ~held[i].locked,
         step # "open" => opened[i]
  PROVE  IInv'
<1>1. /\ UNCHANGED given /\ UNCHANGED <<given, opened, asked>> /\ TypeOK
      /\ step \in Steps /\ pc[i] # "end"
  BY DEF IInv, Steps
<1>2. Moves(i) /\ pc'[i] = step /\ Running(i)' = Running(i)
  BY <1>1, MovedOn
<1>3. HoldsOn(i) /\ FileFollows
  BY <1>1, UnchangedFollows
<1>4. MaySave(i)' /\ HoldsToSave(i)' /\ HasTried(i)'
  BY <1>2 DEF MaySave, HoldsToSave, HasTried
<1> QED BY <1>1, <1>2, <1>3, <1>4, QuietStepPreserves

LEMMA UnlockFailsPreserves ==
  ASSUME IInv, inTurn' \in BOOLEAN, NEW i \in Invocations, UnlockFails(i)
  PROVE  IInv'
<1>1. HasTried(i) /\ pc[i] = "unlock" /\ Goto(i, AfterOpening(i))
  BY DEF IInv, Tracked, UnlockFails
<1>2. opened[i]
  BY <1>1 DEF HasTried
<1> QED BY <1>1, <1>2, AfterOpeningStep, AdvancePreserves DEF UnlockFails

LEMMA MissPreserves ==
  ASSUME IInv, inTurn' \in BOOLEAN, NEW i \in Invocations, Miss(i)
  PROVE  IInv'
<1>1. HasTried(i) /\ pc[i] = "lookup"
  BY DEF IInv, Tracked, Miss
<1>2. opened[i]
  BY <1>1 DEF HasTried
<1>3. CASE Running(i).kind = "exec" \/ (Running(i).kind = "login" /\ Running(i).signs)
  BY <1>1, <1>3, ReadingPreserves DEF Miss
<1>4. CASE ~(Running(i).kind = "exec" \/ (Running(i).kind = "login" /\ Running(i).signs))
  BY <1>1, <1>2, <1>4, AdvancePreserves DEF Miss
<1> QED BY <1>3, <1>4

LEMMA PromptPreserves ==
  ASSUME IInv, inTurn' \in BOOLEAN, NEW i \in Invocations,
         PromptFails(i) \/ PromptAnswered(i) \/ DeclineToSave(i)
  PROVE  IInv'
<1>1. HasTried(i) /\ MaySave(i) /\ pc[i] = "prompt"
  BY DEF IInv, Tracked, PromptFails, PromptAnswered, DeclineToSave
<1>2. CASE PromptFails(i) \/ DeclineToSave(i)
  BY <1>1, <1>2, ReadingPreserves DEF PromptFails, DeclineToSave
<1>3. CASE PromptAnswered(i)
  <2>1. Running(i).kind # "exec" /\ (Running(i).kind # "set" => opened[i])
    BY <1>1 DEF HasTried, MaySave
  <2>2. CASE Running(i).kind = "set"
    BY <1>1, <1>3, <2>2, AdvancePreserves DEF PromptAnswered
  <2>3. CASE Running(i).kind # "set"
    BY <1>1, <1>3, <2>1, <2>3, AdvancePreserves DEF PromptAnswered
  <2> QED BY <2>2, <2>3
<1> QED BY <1>2, <1>3

LEMMA SaveStorePreserves ==
  ASSUME IInv, inTurn' \in BOOLEAN, NEW i \in Invocations, SaveStore(i)
  PROVE  IInv'
<1>1. /\ HasTried(i) /\ MaySave(i) /\ AskedTracked(i) /\ pc[i] = "save" /\ TypeOK
      /\ UNCHANGED <<given, file, held, opened>>
  BY DEF IInv, Tracked, SaveStore
<1>2. opened[i] /\ Running(i).kind # "exec"
  BY <1>1 DEF HasTried, MaySave
<1>3. CASE ~held[i].locked
  <2>1. Goto(i, "store") /\ UNCHANGED <<answers, asked>>
    BY <1>3 DEF SaveStore
  <2> QED BY <1>1, <1>2, <1>3, <2>1, AdvancePreserves
<1>4. CASE held[i].locked /\ file.kind = "absent"
  <2>1. Goto(i, "setup") /\ Ask(i, "setup") /\ UNCHANGED answers /\ "setup" \in Steps
    BY <1>4 DEF SaveStore, Steps
  <2>2. Moves(i) /\ pc'[i] = "setup" /\ Running(i)' = Running(i)
    BY <1>1, <2>1, MovedOn
  <2>3. HoldsOn(i) /\ FileFollows
    BY <1>1, UnchangedFollows
  <2>4. /\ asked' \in [Invocations -> [unlock : Nat, setup : Nat]]
        /\ \A j \in Invocations \ {i} : asked'[j] = asked[j]
        /\ asked'[i].unlock = asked[i].unlock
    BY <1>1, <2>1, AskedOnceMore
  <2>5. opened' \in [Invocations -> BOOLEAN] /\ opened' = opened
    BY <1>1 DEF TypeOK
  <2>6. MaySave(i)' /\ HoldsToSave(i)' /\ HasTried(i)'
    BY <1>2, <2>2, <2>5 DEF MaySave, HoldsToSave, HasTried
  <2>7. asked[i].unlock \in Nat /\ asked[i].unlock # 1 /\ asked[i].unlock <= 1
    BY <1>1, <1>4 DEF AskedTracked, TypeOK
  <2>8. AskedTracked(i)'
    BY <1>2, <2>4, <2>5, <2>7 DEF AskedTracked
  <2> QED BY <1>1, <2>2, <2>3, <2>4, <2>5, <2>6, <2>8, StepPreserves
<1>5. CASE held[i].locked /\ file.kind # "absent"
  <2>1. NotSaved(i) /\ UNCHANGED asked
    BY <1>5 DEF SaveStore
  <2> QED BY <1>1, <2>1, ReadingPreserves
<1> QED BY <1>3, <1>4, <1>5

\* A save puts what was typed into the copy in memory, whatever becomes of it.
LEMMA SetInCopy ==
  ASSUME IInv, NEW i \in Invocations, pc[i] = "store",
         Hold(i, Unlocked(held[i].lock, Filed(i)))
  PROVE  HoldsOn(i) /\ ~held'[i].locked
<1>1. /\ TypeOK /\ CopyKept(i) /\ ~held[i].locked /\ Running(i).kind # "exec"
      /\ Len(answers[i]) < Len(Requests(command[i]))
  BY DEF IInv, Tracked, HoldsToSave, MaySave, Underway
<1>2. Sound(held[i].lock, held[i].entries)
  BY <1>1, HeldSound
<1>3. /\ Typed(i) \in Secret /\ Len(answers[i]) + 1 \in DOMAIN Requests(command[i])
      /\ Typed(i).about = Running(i).about /\ Typed(i).name = Running(i).keys[1]
  BY <1>1, RunningType
<1>4. Told(FlatKey(Typed(i).about, Typed(i).name))
  BY <1>1, <1>3 DEF Told, Running
<1>5. Sound(held[i].lock, Filed(i))
  BY <1>2, <1>3, <1>4, FiledSound
<1>6. /\ DOMAIN held' = Invocations
      /\ held'[i] = Unlocked(held[i].lock, Filed(i))
      /\ \A j \in Invocations \ {i} : held'[j] = held[j]
  BY <1>1 DEF Hold, TypeOK
<1> QED BY <1>5, <1>6, UnlockedFacts DEF HoldsOn

LEMMA TruncatePreserves ==
  ASSUME IInv, inTurn' \in BOOLEAN, NEW i \in Invocations, Truncate(i)
  PROVE  IInv'
<1>1. /\ UNCHANGED given /\ UNCHANGED <<given, opened, asked>> /\ UNCHANGED answers
      /\ pc[i] = "store" /\ pc[i] # "end" /\ Goto(i, "write") /\ "write" \in Steps
      /\ HasTried(i) /\ MaySave(i) /\ file' = EmptyFile
  BY DEF Truncate, IInv, Tracked, Steps
<1>2. HoldsOn(i) /\ ~held'[i].locked
  BY <1>1, SetInCopy DEF Truncate
<1>3. FileFollows
  BY <1>1 DEF FileFollows
<1>4. Moves(i) /\ pc'[i] = "write" /\ Running(i)' = Running(i)
  BY <1>1, MovedOn
<1>5. MaySave(i)' /\ HoldsToSave(i)' /\ HasTried(i)'
  BY <1>1, <1>2, <1>4 DEF MaySave, HoldsToSave, HasTried
<1> QED BY <1>1, <1>2, <1>3, <1>4, <1>5, QuietStepPreserves

LEMMA OpenFailsPreserves ==
  ASSUME IInv, inTurn' \in BOOLEAN, NEW i \in Invocations, OpenFails(i)
  PROVE  IInv'
<1>1. /\ UNCHANGED given /\ UNCHANGED <<given, opened, asked>> /\ TypeOK
      /\ pc[i] = "store" /\ pc[i] # "end" /\ file' = file /\ NotSaved(i)
  BY DEF OpenFails, IInv
<1>2. HoldsOn(i)
  BY <1>1, SetInCopy DEF OpenFails
<1>3. FileFollows
  BY <1>1, UnchangedFollows
<1>4. Moves(i) /\ pc'[i] \in {"open", "end"}
  BY <1>1, LeftUnsaved
<1> QED BY <1>1, <1>2, <1>3, <1>4, SettledPreserves

LEMMA WritePreserves ==
  ASSUME IInv, inTurn' \in BOOLEAN, NEW i \in Invocations, Write(i) \/ WriteFails(i)
  PROVE  IInv'
<1>1. /\ UNCHANGED given /\ UNCHANGED <<given, opened, asked>> /\ UNCHANGED held
      /\ pc[i] = "write" /\ pc[i] # "end"
      /\ TypeOK /\ HoldsToSave(i) /\ CopyKept(i)
      /\ Answer(i, Typed(i)) \/ NotSaved(i)
  BY DEF Write, WriteFails, IInv, Tracked
<1>2. Sound(held[i].lock, held[i].entries)
  BY <1>1, HeldSound DEF HoldsToSave
<1>3. file' \in {file, Garbled, Doc(held[i].lock.salt, held[i].entries)}
  BY DEF Write, WriteFails, Overlaid
<1>4. FileFollows
  BY <1>2, <1>3 DEF FileFollows
<1>5. HoldsOn(i)
  BY <1>1, UnchangedFollows
<1>6. Moves(i) /\ pc'[i] \in {"open", "end"}
  BY <1>1, AnsweredAsTyped, LeftUnsaved
<1> QED BY <1>1, <1>4, <1>5, <1>6, SettledPreserves

LEMMA StutterPreserves ==
  ASSUME IInv, UNCHANGED vars
  PROVE  IInv'
<1>1. UNCHANGED given
      /\ UNCHANGED <<file, command, pc, held, opened, answers, asked, first, inTurn>>
  BY DEF vars, given
<1>2. \A k : Told(k)' <=> Told(k)
  BY <1>1, GivenUnchanged
<1>3. TypeOK'
  BY <1>1 DEF IInv, TypeOK, IsHeld, IsEntries
<1>4. FileKept'
  <2>1. FileKept /\ TypeOK /\ FileFollows
    BY <1>1 DEF IInv, FileFollows
  <2> QED BY <1>1, <2>1, FilePreserved
<1>5. ASSUME NEW j \in Invocations
      PROVE  Tracked(j)'
  <2>1. Tracked(j)
    BY DEF IInv
  <2>2. Underway(j)' /\ MaySave(j)' /\ HoldsToSave(j)' /\ HasTried(j)' /\ AskedTracked(j)'
    BY <1>1, <2>1
    DEF Tracked, Underway, MaySave, HoldsToSave, HasTried, AskedTracked, Running
  <2>3. CopyKept(j)'
    BY <1>1, <1>2, <2>1 DEF Tracked, CopyKept, Verified, WellFiled, Keeps
  <2>4. AnsweredRightly(j)'
    BY <1>1, <2>1 DEF Tracked, AnsweredRightly, NamesAreNotSudoKeys
  <2> QED BY <2>2, <2>3, <2>4 DEF Tracked
<1> QED BY <1>3, <1>4, <1>5 DEF IInv

LEMMA NextInv == IInv /\ [Next]_vars => IInv'
<1> SUFFICES ASSUME IInv, [Next]_vars PROVE IInv'
  OBVIOUS
<1>1. ASSUME NEW i \in Invocations, Run(i), inTurn' \in BOOLEAN
      PROVE  IInv'
  <2>1. CASE SetUpFails(i) \/ Stop(i)
    BY <1>1, <2>1, ReadingPreserves DEF SetUpFails, Stop
  <2> QED BY <1>1, <2>1, OpenStorePreserves, UnlockPreserves, UnlockFailsPreserves,
             FindPreserves, MissPreserves, PromptPreserves, SaveStorePreserves,
             TruncatePreserves, OpenFailsPreserves, WritePreserves DEF Run
<1>2. CASE UNCHANGED vars
  BY <1>2, StutterPreserves
<1>3. inTurn \in BOOLEAN
  BY DEF IInv, TypeOK
<1> QED BY <1>1, <1>2, <1>3 DEF Next, Terminating

-----------------------------------------------------------------------------
(***************************************************************************)
(* The inductive invariant always holds.                                   *)
(***************************************************************************)
THEOREM StoreInvariant == Spec => []IInv
<1>1. Init => IInv
  BY InitInv
<1>2. IInv /\ [Next]_vars => IInv'
  BY NextInv
<1> QED BY <1>1, <1>2, PTL DEF Spec

(***************************************************************************)
(* Type correctness, for any number of overlapping invocations: every      *)
(* entry is a password under a key, every answer a password or none.       *)
(***************************************************************************)
THEOREM TypeCorrect == Spec => []TypeOK
<1>1. IInv => TypeOK
  BY DEF IInv
<1> QED BY <1>1, StoreInvariant, PTL

(***************************************************************************)
(* One master password opens every entry of the store, however many        *)
(* invocations set one up, save over one another, fail or are stopped.     *)
(***************************************************************************)
THEOREM OneMasterOpensAllAlways == Spec => []OneMasterOpensAll
<1>1. IInv => OneMasterOpensAll
  BY DEF IInv, FileKept
<1> QED BY <1>1, StoreInvariant, PTL

(***************************************************************************)
(* Every entry nobody was told to save stays in the store, unchanged.      *)
(***************************************************************************)
THEOREM UntouchedPasswordsSurviveAlways == Spec => []UntouchedPasswordsSurvive
<1>1. IInv => UntouchedPasswordsSurvive
  BY DEF IInv, FileKept
<1> QED BY <1>1, StoreInvariant, PTL

(***************************************************************************)
(* However many hops and saves there are, an invocation asks to unlock the *)
(* store at most once, and then never asks to set one up.                  *)
(***************************************************************************)
THEOREM AskedOnceAlways == Spec => []AskedOnce
<1>1. IInv => AskedOnce
  BY DEF IInv, Tracked, AskedTracked, AskedOnce
<1> QED BY <1>1, StoreInvariant, PTL

(***************************************************************************)
(* No hop is ever authenticated with a sudo password, if no name is        *)
(* another one's sudo key.                                                 *)
(***************************************************************************)
THEOREM NeverTheSudoPasswordAlways == Spec => []NeverTheSudoPassword
<1>1. IInv => NeverTheSudoPassword
  BY DEF IInv, Tracked, AnsweredRightly, NeverTheSudoPassword
<1> QED BY <1>1, StoreInvariant, PTL

(***************************************************************************)
(* Once the store is unreadable and no invocation holds a copy, no command *)
(* opens or overwrites it: whoever saves has unlocked it first.            *)
(***************************************************************************)
THEOREM BrokenStoreIsLeftAloneAlways == Spec => BrokenStoreIsLeftAlone
<1>1. ASSUME IInv, [Next]_vars, Lost
      PROVE  UNCHANGED <<file, held>>
  <2>1. ASSUME NEW i \in Invocations, Run(i)
        PROVE  UNCHANGED <<file, held>>
    <3>1. HoldsToSave(i) /\ (pc[i] = "end" \/ held[i].locked) /\ ~Readable(file)
      BY <1>1 DEF IInv, Tracked, Lost
    <3>2. pc[i] \notin {"store", "write"}
      BY <3>1 DEF HoldsToSave
    <3>3. ~Unlock(i) /\ ~SetUp(i)
      BY <3>1 DEF Unlock, SetUp, CanLoad
    <3> QED BY <2>1, <3>2, <3>3
        DEF Run, OpenStore, UnlockFails, Find, Miss, PromptFails, PromptAnswered,
            DeclineToSave, SaveStore, SetUpFails, Truncate, OpenFails, Write,
            WriteFails, Stop
  <2>2. CASE UNCHANGED vars
    BY <2>2 DEF vars
  <2> QED BY <1>1, <2>1, <2>2 DEF Next, Terminating
<1>2. IInv /\ [Next]_vars => [Lost => UNCHANGED <<file, held>>]_vars
  BY <1>1
<1> QED BY <1>2, StoreInvariant, PTL DEF Spec, BrokenStoreIsLeftAlone

-----------------------------------------------------------------------------
(***************************************************************************)
(* The invocations that follow one another work on a vault: first the      *)
(* invariant the refinement rests on.                                      *)
(***************************************************************************)

\* A step of one invocation moves no other.
LEMMA RunLeavesOthers ==
  ASSUME TypeOK, NEW i \in Invocations, Run(i)
  PROVE  /\ command' = command
         /\ \A j \in Invocations \ {i} :
              /\ pc'[j] = pc[j] /\ held'[j] = held[j]
              /\ opened'[j] = opened[j] /\ answers'[j] = answers[j]
<1> USE DEF TypeOK, given, Goto, Hold, Answer, NotSaved
<1>1. CASE OpenStore(i) \/ Unlock(i) \/ UnlockFails(i)
  BY <1>1 DEF OpenStore, Unlock, UnlockFails
<1>2. CASE Find(i) \/ Miss(i) \/ PromptFails(i) \/ PromptAnswered(i) \/ DeclineToSave(i)
  BY <1>2 DEF Find, Miss, PromptFails, PromptAnswered, DeclineToSave
<1>3. CASE SaveStore(i) \/ SetUp(i) \/ SetUpFails(i) \/ Stop(i)
  BY <1>3 DEF SaveStore, SetUp, SetUpFails, Stop
<1>4. CASE Truncate(i) \/ OpenFails(i) \/ Write(i) \/ WriteFails(i)
  BY <1>4 DEF Truncate, OpenFails, Write, WriteFails
<1> QED BY <1>1, <1>2, <1>3, <1>4 DEF Run

\* What a request that stays under way asks for stays the same.
LEMMA SameRequest ==
  ASSUME NEW i \in Invocations, command' = command, answers'[i] = answers[i]
  PROVE  /\ Running(i)' = Running(i) /\ Typed(i)' = Typed(i)
         /\ TypedKey(i)' = TypedKey(i)
         /\ held'[i] = held[i] => Hits(i)' = Hits(i)
<1>1. Running(i)' = Running(i)
  BY DEF Running
<1>2. Typed(i)' = Typed(i)
  BY <1>1 DEF Typed
<1>3. TypedKey(i)' = TypedKey(i)
  BY <1>2 DEF TypedKey
<1>4. held'[i] = held[i] => Hits(i)' = Hits(i)
  BY <1>1 DEF Hits
<1> QED BY <1>1, <1>2, <1>3, <1>4

LEMMA FitsElsewhere ==
  ASSUME TypeOK, NEW i \in Invocations, Run(i), NEW j \in Invocations \ {i}, Fits(j)
  PROVE  Fits(j)'
<1>1. /\ command' = command /\ pc'[j] = pc[j] /\ held'[j] = held[j]
      /\ opened'[j] = opened[j] /\ answers'[j] = answers[j]
  BY RunLeavesOthers
<1>2. /\ Running(j)' = Running(j) /\ Typed(j)' = Typed(j) /\ TypedKey(j)' = TypedKey(j)
      /\ Hits(j)' = Hits(j)
  BY <1>1, SameRequest
<1> QED
  BY <1>1, <1>2 DEF Fits, LockedSoFar, LooksUp, SudoUnknown, TypedIsHeld

\* A request that is settled leaves little to be fitted.
LEMMA FitsSettled ==
  ASSUME NEW i \in Invocations, Fits(i), pc'[i] \in {"open", "end"},
         opened'[i] = opened[i], held'[i].locked = held[i].locked
  PROVE  Fits(i)'
BY DEF Fits, LockedSoFar, LooksUp, SudoUnknown, TypedIsHeld

\* So does one that goes on with what is held.
LEMMA FitsOn ==
  ASSUME NEW i \in Invocations, Fits(i), command' = command, answers'[i] = answers[i],
         held'[i] = held[i], opened'[i] = opened[i],
         pc'[i] \in {"lookup", "prompt", "save", "setup", "store", "open"},
         pc'[i] = "lookup" => Running(i).kind # "set",
         pc'[i] = "prompt" => Hits(i) = {},
         pc'[i] = "setup" => held[i].locked
  PROVE  Fits(i)'
<1>1. Running(i)' = Running(i) /\ Hits(i)' = Hits(i)
  BY SameRequest
<1> QED BY <1>1 DEF Fits, LockedSoFar, LooksUp, SudoUnknown, TypedIsHeld

LEMMA NotSavedSettles ==
  ASSUME TypeOK, NEW i \in Invocations, \/ NotSaved(i) \/ (\E a : Answer(i, a)) \/ Goto(i, "end")
  PROVE  pc'[i] \in {"open", "end"}
BY DEF TypeOK, NotSaved, Answer, Goto

LEMMA RunFits ==
  ASSUME IInv, NEW i \in Invocations, Run(i), Fits(i)
  PROVE  Fits(i)'
<1>0. /\ TypeOK /\ HasTried(i) /\ MaySave(i) /\ command' = command
      /\ pc \in [Invocations -> Steps] /\ DOMAIN held = Invocations
      /\ opened \in [Invocations -> BOOLEAN]
  BY RunLeavesOthers DEF IInv, Tracked, TypeOK
<1>1. CASE OpenStore(i)
  <2>1. /\ opened'[i] = TRUE /\ UNCHANGED <<held, answers>>
        /\ \/ pc'[i] = AfterOpening(i)
           \/ pc'[i] = "unlock" /\ ~opened[i]
    BY <1>0, <1>1 DEF OpenStore, Goto
  <2>2. Running(i)' = Running(i)
    BY <1>0, <2>1, SameRequest
  <2>3. pc'[i] = "unlock" => held[i].locked
    BY <2>1, AfterOpeningStep DEF Fits, LockedSoFar
  <2> QED BY <2>1, <2>2, <2>3, AfterOpeningStep
      DEF Fits, LockedSoFar, LooksUp, SudoUnknown, TypedIsHeld, AfterOpening
<1>2. CASE Unlock(i)
  <2>1. opened'[i] /\ pc'[i] = AfterOpening(i) /\ answers' = answers
    BY <1>0, <1>2 DEF Unlock, Goto, HasTried
  <2>2. Running(i)' = Running(i)
    BY <1>0, <2>1, SameRequest
  <2> QED BY <2>1, <2>2, AfterOpeningStep
      DEF Fits, LockedSoFar, LooksUp, SudoUnknown, TypedIsHeld, AfterOpening
<1>3. CASE UnlockFails(i)
  <2>1. pc'[i] = AfterOpening(i) /\ UNCHANGED <<held, opened, answers>>
    BY <1>0, <1>3 DEF UnlockFails, Goto
  <2> QED BY <1>0, <2>1, AfterOpeningStep, FitsOn DEF AfterOpening
<1>4. CASE Find(i) \/ DeclineToSave(i) \/ Stop(i) \/ SetUpFails(i) \/ Write(i) \/ WriteFails(i)
  <2>1. UNCHANGED <<held, opened>> /\ pc'[i] \in {"open", "end"}
    BY <1>0, <1>4, NotSavedSettles DEF Find, DeclineToSave, Stop, SetUpFails, Write, WriteFails
  <2> QED BY <2>1, FitsSettled
<1>5. CASE Miss(i)
  <2>1. UNCHANGED <<held, opened>> /\ Hits(i) = {}
    BY <1>5 DEF Miss
  <2>2. CASE Answer(i, Nothing)
    BY <1>0, <2>1, <2>2, NotSavedSettles, FitsSettled
  <2>3. CASE Goto(i, "prompt") /\ UNCHANGED answers
    <3>1. pc'[i] = "prompt"
      BY <1>0, <2>3 DEF Goto
    <3> QED BY <1>0, <2>1, <2>3, <3>1, FitsOn
  <2> QED BY <1>5, <2>2, <2>3 DEF Miss
<1>6. CASE PromptFails(i)
  <2>1. UNCHANGED <<held, opened>> /\ pc'[i] \in {"open", "end"}
    BY <1>0, <1>6, NotSavedSettles DEF PromptFails
  <2> QED BY <2>1, FitsSettled
<1>7. CASE PromptAnswered(i)
  <2>1. UNCHANGED <<held, opened, answers>> /\ pc'[i] \in {"open", "save"}
    BY <1>0, <1>7 DEF PromptAnswered, Goto
  <2> QED BY <1>0, <2>1, FitsOn
<1>8. CASE SaveStore(i)
  <2>1. UNCHANGED <<held, opened>>
    BY <1>8 DEF SaveStore
  <2>2. CASE NotSaved(i)
    BY <1>0, <2>1, <2>2, NotSavedSettles, FitsSettled
  <2>3. CASE ~NotSaved(i)
    <3>1. /\ answers' = answers /\ pc'[i] \in {"store", "setup"}
          /\ pc'[i] = "setup" => held[i].locked
      BY <1>0, <1>8, <2>3 DEF SaveStore, Goto
    <3> QED BY <1>0, <2>1, <3>1, FitsOn
  <2> QED BY <2>2, <2>3
<1>9. CASE SetUp(i)
  <2>1. opened'[i] /\ pc'[i] = "store"
    BY <1>0, <1>9 DEF SetUp, Goto, HasTried
  <2> QED BY <2>1 DEF Fits, LockedSoFar, LooksUp, SudoUnknown, TypedIsHeld
<1>10. CASE Truncate(i)
  <2>1. opened'[i] /\ pc'[i] = "write" /\ answers' = answers
        /\ held'[i] = Unlocked(held[i].lock, Filed(i))
    BY <1>0, <1>10 DEF Truncate, Goto, HasTried, Hold
  <2>2. Typed(i)' = Typed(i) /\ TypedKey(i)' = TypedKey(i)
    BY <1>0, <2>1, SameRequest
  <2>3. held'[i].entries = Filed(i)
    BY <2>1, UnlockedFacts
  <2>4. TypedKey(i) \in DOMAIN Filed(i) /\ Filed(i)[TypedKey(i)].secret = Typed(i)
    BY DEF TypedKey, Filed, Encrypted
  <2> QED BY <2>1, <2>2, <2>3, <2>4 DEF Fits, LockedSoFar, LooksUp, SudoUnknown, TypedIsHeld
<1>11. CASE OpenFails(i)
  <2>1. opened'[i] /\ pc'[i] \in {"open", "end"}
    BY <1>0, <1>11, NotSavedSettles DEF OpenFails, HasTried
  <2> QED BY <2>1 DEF Fits, LockedSoFar, LooksUp, SudoUnknown, TypedIsHeld
<1> QED BY <1>1, <1>2, <1>3, <1>4, <1>5, <1>6, <1>7, <1>8, <1>9, <1>10, <1>11 DEF Run

\* Only a document has entries.
OnlyDocsHaveEntries == file.kind # "doc" => DOMAIN file.entries = {}

LEMMA FileKinds ==
  /\ EmptyFile.kind = "empty" /\ DOMAIN EmptyFile.entries = {}
  /\ Garbled.kind = "garbled" /\ DOMAIN Garbled.entries = {}
  /\ NoFile.kind = "absent" /\ DOMAIN NoFile.entries = {}
  /\ \A salt, entries : Doc(salt, entries).kind = "doc" /\ Doc(salt, entries).entries = entries
BY ContentsFacts, NoEntriesFacts DEF EmptyFile, Garbled, NoFile, Doc

LEMMA RunKeepsKinds ==
  ASSUME NEW i \in Invocations, Run(i), OnlyDocsHaveEntries
  PROVE  OnlyDocsHaveEntries'
<1>1. CASE file' = file
  BY <1>1 DEF OnlyDocsHaveEntries
<1>2. CASE file' # file
  <2>1. file' \in {EmptyFile, Garbled, Doc(held[i].lock.salt, held[i].entries)}
    BY <1>2 DEF Run, OpenStore, Unlock, UnlockFails, Find, Miss, PromptFails, PromptAnswered,
       DeclineToSave, SaveStore, SetUp, SetUpFails, Truncate, OpenFails, Write, WriteFails,
       Stop, Overlaid
  <2> QED BY <2>1, FileKinds DEF OnlyDocsHaveEntries
<1> QED BY <1>1, <1>2

LEMMA RunStaysCurrent ==
  ASSUME IInv, OnlyDocsHaveEntries, NEW i \in Invocations, Run(i), CopyIsCurrent(i), SavesAlone(i)
  PROVE  CopyIsCurrent(i)' /\ SavesAlone(i)'
<1>0. /\ TypeOK /\ pc \in [Invocations -> Steps] /\ DOMAIN held = Invocations
  BY DEF IInv, TypeOK
<1>1. ASSUME UNCHANGED <<file, held>>, pc[i] \notin {"write", "end"}, pc'[i] # "write"
      PROVE  CopyIsCurrent(i)' /\ SavesAlone(i)'
  BY <1>1 DEF CopyIsCurrent, SavesAlone, Readable
<1>2. CASE OpenStore(i) \/ UnlockFails(i)
  <2>1. pc'[i] \in {"lookup", "save", "unlock"}
    BY <1>0, <1>2, AfterOpeningStep DEF OpenStore, UnlockFails, Goto
  <2> QED BY <1>1, <1>2, <2>1 DEF OpenStore, UnlockFails
<1>3. CASE Find(i) \/ Miss(i) \/ PromptFails(i) \/ PromptAnswered(i) \/ DeclineToSave(i)
  <2>1. /\ pc[i] \in {"lookup", "prompt"} /\ UNCHANGED <<file, held>>
        /\ pc'[i] \in {"open", "save", "prompt", "end"}
    BY <1>0, <1>3, NotSavedSettles
       DEF Find, Miss, PromptFails, PromptAnswered, DeclineToSave, Goto
  <2> QED BY <1>1, <2>1
<1>4. CASE SaveStore(i) \/ SetUpFails(i)
  <2>1. pc[i] \in {"save", "setup"} /\ UNCHANGED <<file, held>> /\ pc'[i] # "write"
    BY <1>0, <1>4, NotSavedSettles DEF SaveStore, SetUpFails, Goto
  <2> QED BY <1>1, <2>1
<1>5. CASE Unlock(i) \/ SetUp(i)
  <2>1. PICK m \in Masters : held' = [held EXCEPT ![i] = Loaded(i, m)]
    BY <1>5 DEF Unlock, SetUp, Hold
  <2>2. file' = file /\ pc'[i] # "write"
    BY <1>0, <1>5, AfterOpeningStep DEF Unlock, SetUp, Goto
  <2>3. CASE file.kind = "absent"
    <3>1. DOMAIN file'.entries = {}
      BY <2>2, <2>3 DEF OnlyDocsHaveEntries
    <3> QED BY <2>2, <3>1 DEF CopyIsCurrent, SavesAlone
  <2>4. CASE file.kind # "absent"
    <3>1. held'[i].entries = file'.entries
      BY <1>0, <2>1, <2>2, <2>4, UnlockedFacts DEF Loaded
    <3> QED BY <2>2, <3>1 DEF CopyIsCurrent, SavesAlone
  <2> QED BY <2>3, <2>4
<1>6. CASE Truncate(i)
  <2>1. pc'[i] = "write" /\ file' = EmptyFile
    BY <1>0, <1>6 DEF Truncate, Goto
  <2> QED BY <2>1 DEF CopyIsCurrent, SavesAlone, EmptyFile, Contents, NoEntries
<1>7. CASE OpenFails(i)
  <2>1. /\ pc[i] = "store" /\ pc'[i] \in {"open", "end"} /\ file' = file /\ ~held[i].locked
        /\ held'[i] = Unlocked(held[i].lock, Filed(i))
    BY <1>0, <1>7, NotSavedSettles DEF OpenFails, Hold, IInv, Tracked, HoldsToSave
  <2>2. held'[i].entries = Filed(i)
    BY <2>1, UnlockedFacts
  <2> DEFINE old == held[i].entries
  <2>3. Typed(i).by = i
    BY DEF Typed
  <2>4. /\ \A k \in DOMAIN old : k \in DOMAIN Filed(i)
        /\ \A k \in DOMAIN old : Filed(i)[k] = old[k] \/ Filed(i)[k].secret.by = i
    BY <2>3 DEF Filed, Encrypted
  <2> QED BY <2>1, <2>2, <2>4 DEF CopyIsCurrent, SavesAlone, Readable
<1>8. CASE Write(i)
  <2>1. /\ pc'[i] \in {"open", "end"} /\ held' = held
        /\ file' = Doc(held[i].lock.salt, held[i].entries)
    BY <1>0, <1>8, NotSavedSettles DEF Write, SavesAlone, Overlaid
  <2>2. file'.entries = held'[i].entries
    BY <2>1, FileKinds
  <2> QED BY <2>1, <2>2 DEF CopyIsCurrent, SavesAlone
<1>9. CASE WriteFails(i)
  <2>1. pc'[i] \in {"open", "end"} /\ file' \in {EmptyFile, Garbled}
    BY <1>0, <1>9, NotSavedSettles DEF WriteFails, SavesAlone
  <2> QED BY <2>1, FileKinds DEF CopyIsCurrent, SavesAlone, Readable
<1>10. CASE Stop(i)
  <2>1. pc'[i] = "end"
    BY <1>0, <1>10 DEF Stop, Goto
  <2> QED BY <2>1 DEF CopyIsCurrent, SavesAlone
<1> QED BY <1>2, <1>3, <1>4, <1>5, <1>6, <1>7, <1>8, <1>9, <1>10 DEF Run

\* The invocations whose turn it is not have not begun, or are done.
LEMMA OthersStayCurrent ==
  ASSUME TypeOK, NEW i \in Invocations, Run(i), Alone(i),
         NEW j \in Invocations \ {i}, LockedSoFar(j)
  PROVE  CopyIsCurrent(j)' /\ SavesAlone(j)'
<1>1. pc'[j] = pc[j] /\ held'[j] = held[j] /\ (Untried(j) \/ pc[j] = "end")
  BY RunLeavesOthers DEF Alone
<1>2. CASE pc[j] = "end"
  BY <1>1, <1>2 DEF CopyIsCurrent, SavesAlone
<1>3. CASE Untried(j)
  <2>1. held[j].locked /\ pc[j] \in {"prompt", "open"}
    BY <1>3 DEF Untried, NotBegun, LockedSoFar
  <2> QED BY <1>1, <2>1 DEF CopyIsCurrent, SavesAlone
<1> QED BY <1>1, <1>2, <1>3

LEMMA InitTurn == Init => TurnInv
<1> SUFFICES ASSUME Init PROVE TurnInv
  OBVIOUS
<1>1. OnlyDocsHaveEntries
  <2>1. file = NoFile \/ IsStoreFile(file)
    BY StartAssumption DEF Init
  <2> QED BY <2>1, FileKinds DEF OnlyDocsHaveEntries, IsStoreFile
<1>2. \A i \in Invocations : held[i].locked /\ pc[i] \in {"prompt", "open"}
  BY DEF Init, NotHeld
<1>3. ASSUME NEW i \in Invocations PROVE Hits(i) = {}
  BY <1>2 DEF Hits
<1> QED BY <1>1, <1>2, <1>3
    DEF TurnInv, OnlyDocsHaveEntries, Fits, LockedSoFar, LooksUp, SudoUnknown, TypedIsHeld,
        CopyIsCurrent, SavesAlone

LEMMA NextTurn == IInv /\ TurnInv /\ [Next]_vars => TurnInv'
<1> SUFFICES ASSUME IInv, TurnInv, [Next]_vars PROVE TurnInv'
  OBVIOUS
<1>0. TypeOK /\ OnlyDocsHaveEntries /\ \A i \in Invocations : Fits(i)
  BY DEF IInv, TurnInv, OnlyDocsHaveEntries
<1>1. CASE UNCHANGED vars
  <2>1. UNCHANGED <<file, command, pc, held, opened, answers, inTurn>>
    BY <1>1 DEF vars, given
  <2>2. ASSUME NEW i \in Invocations
        PROVE  Fits(i)'
    <3>1. /\ Running(i)' = Running(i) /\ Typed(i)' = Typed(i) /\ TypedKey(i)' = TypedKey(i)
          /\ Hits(i)' = Hits(i)
      BY <2>1, SameRequest
    <3> QED BY <1>0, <2>1, <3>1 DEF Fits, LockedSoFar, LooksUp, SudoUnknown, TypedIsHeld
  <2>3. ASSUME NEW i \in Invocations, inTurn
        PROVE  CopyIsCurrent(i)' /\ SavesAlone(i)'
    BY <2>1, <2>3 DEF TurnInv, CopyIsCurrent, SavesAlone, Readable, EmptyFile, Contents, NoEntries
  <2> QED BY <2>1, <2>2, <2>3 DEF TurnInv
<1>2. ASSUME NEW i \in Invocations, Run(i), inTurn' = (inTurn /\ Alone(i))
      PROVE  TurnInv'
  <2>1. OnlyDocsHaveEntries'
    BY <1>0, <1>2, RunKeepsKinds
  <2>2. \A j \in Invocations : Fits(j)'
    BY <1>0, <1>2, RunFits, FitsElsewhere
  <2>3. ASSUME inTurn'
        PROVE  \A j \in Invocations : CopyIsCurrent(j)' /\ SavesAlone(j)'
    <3>1. inTurn /\ Alone(i)
      BY <1>2, <2>3 DEF IInv, TypeOK
    <3>2. CopyIsCurrent(i)' /\ SavesAlone(i)'
      BY <1>0, <1>2, <3>1, RunStaysCurrent DEF TurnInv
    <3>3. \A j \in Invocations \ {i} : CopyIsCurrent(j)' /\ SavesAlone(j)'
      BY <1>0, <1>2, <3>1, OthersStayCurrent DEF Fits
    <3> QED BY <3>2, <3>3
  <2> QED BY <2>1, <2>2, <2>3 DEF TurnInv, OnlyDocsHaveEntries
<1> QED BY <1>1, <1>2 DEF Next, Terminating

(***************************************************************************)
(* While the invocations follow one another, an open store holds all that  *)
(* is saved, and nobody writes over a save under way.                      *)
(***************************************************************************)
THEOREM TurnInvariant == Spec => []TurnInv
<1>1. Init => TurnInv
  BY InitTurn
<1>2. IInv /\ TurnInv /\ [Next]_vars => TurnInv'
  BY NextTurn
<1> QED BY <1>1, <1>2, StoreInvariant, PTL DEF Spec

(***************************************************************************)
(* SSH and sudo passwords are two things, although one map holds them, if  *)
(* no name is another one's sudo key.                                      *)
(***************************************************************************)
LEMMA FlatKeysDiffer ==
  ASSUME NamesAreNotSudoKeys, NEW a \in {"ssh", "sudo"}, NEW b \in {"ssh", "sudo"},
         NEW m \in Names, NEW n \in Names, FlatKey(a, m) = FlatKey(b, n)
  PROVE  a = b /\ m = n
BY SudoKeyAssumption DEF NamesAreNotSudoKeys, FlatKey

LEMMA DecodedAt ==
  ASSUME NEW entries, NEW about \in {"ssh", "sudo"}, NEW name \in Names
  PROVE  /\ <<about, name>> \in DOMAIN Decoded(entries) <=> FlatKey(about, name) \in DOMAIN entries
         /\ FlatKey(about, name) \in DOMAIN entries =>
              Decoded(entries)[<<about, name>>] = entries[FlatKey(about, name)].secret
<1>1. <<about, name>> \in Slots /\ <<about, name>>[1] = about /\ <<about, name>>[2] = name
  BY DEF Slots
<1> QED BY <1>1 DEF Decoded

\* What is saved or known, and whose it is.
LEMMA KnownAt ==
  ASSUME NEW i \in Invocations, ~held[i].locked
  PROVE  /\ ~KnownPasswords[i].locked
         /\ KnownPasswords[i].passwords = Decoded(held[i].entries)
         /\ KnownPasswords[i] = [locked |-> FALSE, passwords |-> Decoded(held[i].entries)]
BY DEF KnownPasswords

LEMMA LockedAt ==
  ASSUME NEW i \in Invocations, held[i].locked
  PROVE  KnownPasswords[i].locked
BY DEF KnownPasswords

LEMMA VaultTerms ==
  ASSUME NEW i \in Invocations
  PROVE  /\ Vault!Asked(i) = Running(i) /\ Vault!New(i) = Typed(i)
         /\ Vault!Slot(i) = <<Typed(i).about, Typed(i).name>>
         /\ Vault!Busy(i) <=> Len(answers[i]) < Len(Requests(command[i]))
         /\ Vault!Nothing = Nothing
BY DEF Vault!Asked, Vault!New, Vault!Slot, Vault!Busy, Vault!Nothing, Nothing, Running, Typed

\* Whose turn it is, is the only one who may be saving.
LEMMA OnlySaver ==
  ASSUME TypeOK, NEW i \in Invocations, Run(i), Alone(i)
  PROVE  /\ Saving = {j \in {i} : pc[i] = "write"}
         /\ Saving' = {j \in {i} : pc'[i] = "write"}
<1>1. \A j \in Invocations \ {i} : pc[j] # "write" /\ pc'[j] = pc[j]
  BY RunLeavesOthers DEF Alone, Untried, NotBegun
<1> QED BY <1>1 DEF Saving

LEMMA KnownUnchanged == held' = held => KnownPasswords' = KnownPasswords
BY DEF KnownPasswords, Decoded

\* The steps that are no part of a save leave what is saved alone.
LEMMA NothingSaved ==
  ASSUME TypeOK, NEW i \in Invocations, Run(i), Alone(i), file' = file,
         pc[i] # "write", pc'[i] # "write"
  PROVE  /\ SavedPasswords' = SavedPasswords /\ SavedPasswords = Decoded(file.entries)
         /\ (Readable(file) \/ Saving # {})' <=> (Readable(file) \/ Saving # {})
         /\ Saving = {} /\ Saving' = {} /\ command' = command
<1>1. Saving = {} /\ Saving' = {} /\ command' = command
  BY OnlySaver, RunLeavesOthers
<1> QED BY <1>1 DEF SavedPasswords, Decoded, Readable

\* The steps of a request that go on to its next stage.
LEMMA StageMaps ==
  ASSUME TypeOK, NEW i \in Invocations, Run(i), Alone(i),
         UNCHANGED <<file, held, answers, inTurn>>, pc[i] # "write", pc'[i] # "write"
  PROVE  UNCHANGED Vault!vars
BY NothingSaved, KnownUnchanged DEF Vault!vars

\* What a login or sudo is answered with by the user, once.
LEMMA TypedOnceMaps ==
  ASSUME TypeOK, NEW i \in Invocations, Run(i), Alone(i), UNCHANGED <<file, held>>,
         pc[i] \notin {"write", "end"}, pc'[i] # "write", Underway(i),
         Running(i).kind \notin {"set", "exec"}, Answer(i, Typed(i))
  PROVE  Vault!UseOnce(i)
<1>1. Running(i).kind \in {"login", "sudo"} /\ Len(answers[i]) < Len(Requests(command[i]))
  BY RunningType DEF Underway, Requesting
<1>2. answers' = [answers EXCEPT ![i] = Append(@, Typed(i))]
  BY DEF Answer
<1>3. Vault!Give(i, Vault!New(i))
  BY <1>2, VaultTerms DEF Vault!Give
<1> QED BY <1>1, <1>3, NothingSaved, KnownUnchanged, VaultTerms DEF Vault!UseOnce, Vault!MayType

LEMMA NotSavedMaps ==
  ASSUME IInv, NEW i \in Invocations, Run(i), Alone(i), UNCHANGED <<file, held, inTurn>>,
         pc[i] \in {"save", "setup"}, NotSaved(i)
  PROVE  Vault!UseOnce(i) \/ UNCHANGED Vault!vars
<1>1. TypeOK /\ Underway(i) /\ MaySave(i) /\ pc'[i] \in {"open", "end"}
  BY NotSavedSettles DEF IInv, Tracked
<1>2. CASE Running(i).kind = "set"
  BY <1>1, <1>2, StageMaps DEF NotSaved
<1>3. CASE Running(i).kind # "set"
  BY <1>1, <1>3, TypedOnceMaps DEF NotSaved, MaySave
<1> QED BY <1>2, <1>3

\* The store is opened, or a new one made.
LEMMA UnlockMaps ==
  ASSUME IInv, TurnInv, NEW i \in Invocations, Run(i), Alone(i), Unlock(i) \/ SetUp(i)
  PROVE  Vault!Unlock(i)
<1>1. /\ pc[i] \in {"unlock", "setup"} /\ UNCHANGED <<file, answers>>
      /\ pc'[i] # "write" /\ TypeOK /\ held[i].locked
  BY AfterOpeningStep
     DEF Unlock, SetUp, Goto, IInv, TypeOK, TurnInv, Fits, LockedSoFar
<1>2. PICK m \in Masters : CanLoad(m) /\ held' = [held EXCEPT ![i] = Loaded(i, m)]
  BY DEF Unlock, SetUp, Hold
<1>3. /\ SavedPasswords' = SavedPasswords /\ SavedPasswords = Decoded(file.entries)
      /\ (Readable(file) \/ Saving # {})' <=> (Readable(file) \/ Saving # {})
      /\ command' = command /\ Readable(file)
  BY <1>1, <1>2, NothingSaved DEF CanLoad
<1>4. ~Loaded(i, m).locked /\ Decoded(Loaded(i, m).entries) = Decoded(file.entries)
  <2>1. CASE file.kind = "absent"
    <3>1. Loaded(i, m) = Unlocked([salt |-> i, master |-> m], NoEntries)
      BY <2>1 DEF Loaded
    <3>2. DOMAIN file.entries = {}
      BY <2>1 DEF TurnInv
    <3>3. Decoded(file.entries) = Decoded(NoEntries)
      BY <3>2, NoEntriesFacts DEF Decoded
    <3> QED BY <3>1, <3>3, UnlockedFacts
  <2>2. CASE file.kind # "absent"
    BY <2>2, UnlockedFacts DEF Loaded
  <2> QED BY <2>1, <2>2
<1>5. KnownPasswords' =
        [KnownPasswords EXCEPT ![i] = [locked |-> FALSE, passwords |-> Decoded(file.entries)]]
  <2> DEFINE opening == [locked |-> FALSE, passwords |-> Decoded(file.entries)]
  <2>1. held'[i] = Loaded(i, m) /\ \A j \in Invocations \ {i} : held'[j] = held[j]
    BY <1>1, <1>2 DEF TypeOK
  <2>2. KnownPasswords'[i] = opening
    BY <1>4, <2>1 DEF KnownPasswords, Decoded
  <2>3. \A j \in Invocations \ {i} : KnownPasswords'[j] = KnownPasswords[j]
    BY <2>1 DEF KnownPasswords, Decoded
  <2>4. /\ KnownPasswords' = [j \in Invocations |-> KnownPasswords'[j]]
        /\ KnownPasswords = [j \in Invocations |-> KnownPasswords[j]]
    BY DEF KnownPasswords
  <2> HIDE DEF opening
  <2>5. KnownPasswords' = [KnownPasswords EXCEPT ![i] = opening]
    BY <2>2, <2>3, <2>4
  <2> QED BY <2>5 DEF opening
<1>6. KnownPasswords[i].locked
  BY <1>1, LockedAt
<1> QED BY <1>1, <1>3, <1>5, <1>6 DEF Vault!Unlock

(***************************************************************************)
(* A request of the names tried in turn finds what Vault finds: sudo tries *)
(* all its own names before it falls back to the SSH passwords.            *)
(***************************************************************************)
LEMMA CandidatesInOrder ==
  ASSUME NEW r \in Requesting
  PROVE  LET L == Len(r.keys) IN
         /\ L \in Nat /\ DOMAIN r.keys = 1..L /\ \A n \in 1..L : r.keys[n] \in Names
         /\ r.kind # "sudo" => Candidates(r) = r.keys
         /\ r.kind = "sudo" =>
              /\ DOMAIN Candidates(r) = 1..(L + L)
              /\ \A n \in 1..L : Candidates(r)[n] = SudoKey(r.keys[n])
              /\ \A n \in 1..L : Candidates(r)[L + n] = r.keys[n]
<1> DEFINE keys == r.keys
           L == Len(r.keys)
           own == SudoKeys(keys)
<1>1. keys \in Seq(Names) /\ L \in Nat /\ DOMAIN keys = 1..L
  BY DEF Requesting
<1>2. own = [n \in 1..L |-> SudoKey(keys[n])]
  BY <1>1 DEF SudoKeys
<1> DEFINE S == Names \cup {SudoKey(m) : m \in Names}
<1>3. own \in Seq(S) /\ keys \in Seq(S) /\ Len(own) = L
  <2>1. own \in [1..L -> S]
    BY <1>1, <1>2
  <2> QED BY <1>1, <2>1
<1>4. ASSUME r.kind = "sudo"
      PROVE  /\ DOMAIN Candidates(r) = 1..(L + L)
             /\ \A n \in 1..L : Candidates(r)[n] = SudoKey(keys[n])
             /\ \A n \in 1..L : Candidates(r)[L + n] = keys[n]
  <2>1. Candidates(r) = own \o keys
    BY <1>4 DEF Candidates
  <2>2. \A n \in 1..L : own[n] = SudoKey(keys[n])
    BY <1>2
  <2> HIDE DEF own, S, keys, L
  <2>3. /\ DOMAIN (own \o keys) = 1..(L + L)
        /\ \A n \in 1..L : (own \o keys)[n] = own[n]
        /\ \A n \in 1..L : (own \o keys)[L + n] = keys[n]
    <3>1. Len(keys) = L
      BY DEF keys, L
    <3> QED BY <1>1, <1>3, <3>1
  <2> QED BY <2>1, <2>2, <2>3
<1>5. \A n \in 1..L : keys[n] \in Names
  BY <1>1
<1>6. r.kind # "sudo" => Candidates(r) = keys
  BY DEF Candidates
<1> HIDE DEF keys, L
<1>7. keys = r.keys /\ L = Len(r.keys)
  BY DEF keys, L
<1> QED BY <1>1, <1>4, <1>5, <1>6, <1>7

\* Vault's questions, in terms of the entries in memory.
IsHit(i, about, n) ==
  ~held[i].locked /\ FlatKey(about, Running(i).keys[n]) \in DOMAIN held[i].entries

LEMMA HasMeansHit ==
  ASSUME NEW i \in Invocations, Running(i) \in Requesting, NEW about \in {"ssh", "sudo"}
  PROVE  Vault!Has(i, about) <=> \E n \in DOMAIN Running(i).keys : IsHit(i, about, n)
<1>1. \A n \in DOMAIN Running(i).keys : Running(i).keys[n] \in Names
  BY CandidatesInOrder
<1>2. CASE held[i].locked
  BY <1>2, LockedAt DEF Vault!Has, IsHit
<1>3. CASE ~held[i].locked
  <2>1. \A n \in DOMAIN Running(i).keys :
          <<about, Running(i).keys[n]>> \in DOMAIN Decoded(held[i].entries)
            <=> FlatKey(about, Running(i).keys[n]) \in DOMAIN held[i].entries
    BY <1>1, DecodedAt
  <2> QED BY <1>3, <2>1, KnownAt, VaultTerms DEF Vault!Has, IsHit
<1> QED BY <1>2, <1>3

LEMMA FirstHitIsFound ==
  ASSUME NEW i \in Invocations, Running(i) \in Requesting, NEW about \in {"ssh", "sudo"},
         NEW n \in DOMAIN Running(i).keys, IsHit(i, about, n),
         \A m \in 1..(n - 1) : ~IsHit(i, about, m)
  PROVE  Vault!FirstOf(i, about) = held[i].entries[FlatKey(about, Running(i).keys[n])].secret
<1> DEFINE keys == Running(i).keys
           passwords == Decoded(held[i].entries)
           Hit(k) == <<about, keys[k]>> \in DOMAIN passwords
           First(k) == Hit(k) /\ \A m \in 1..(k - 1) : ~Hit(m)
           hit == CHOOSE k \in DOMAIN keys : First(k)
<1>1. /\ DOMAIN keys = 1..Len(keys) /\ Len(keys) \in Nat
      /\ \A k \in DOMAIN keys : keys[k] \in Names
  BY CandidatesInOrder
<1>2. \A k \in DOMAIN keys : Hit(k) <=> IsHit(i, about, k)
  BY <1>1, DecodedAt DEF IsHit
<1>3. /\ ~held[i].locked
      /\ passwords[<<about, keys[n]>>] = held[i].entries[FlatKey(about, keys[n])].secret
  BY <1>1, DecodedAt DEF IsHit
<1>4. Vault!FirstOf(i, about) = passwords[<<about, keys[hit]>>]
  BY <1>3, KnownAt, VaultTerms DEF Vault!FirstOf
<1> HIDE DEF Hit, keys, passwords
<1>5. First(n)
  <2>1. n \in DOMAIN keys /\ \A m \in 1..(n - 1) : m \in DOMAIN keys
    BY <1>1 DEF keys
  <2> QED BY <1>2, <2>1
<1>6. \A k \in DOMAIN keys : First(k) => k = n
  <2> SUFFICES ASSUME NEW k \in DOMAIN keys, First(k) PROVE k = n
    OBVIOUS
  <2>1. k \in Nat /\ n \in Nat /\ k >= 1 /\ n >= 1
    BY <1>1 DEF keys
  <2>2. ~(k < n) /\ ~(n < k)
    BY <1>5, <2>1
  <2> QED BY <2>1, <2>2
<1> HIDE DEF First
<1>7. hit = n
  <2>1. n \in DOMAIN keys
    BY DEF keys
  <2> QED BY <1>5, <1>6, <2>1
<1> QED BY <1>3, <1>4, <1>7 DEF keys

LEMMA HitsAreFound ==
  ASSUME NEW i \in Invocations, CopyKept(i), Running(i) \in Requesting
  PROVE  LET L == Len(Running(i).keys) IN
         /\ Running(i).kind # "sudo" => Hits(i) = {n \in 1..L : IsHit(i, "ssh", n)}
         /\ Running(i).kind = "sudo" =>
              \A n \in 1..L : /\ n \in Hits(i) <=> IsHit(i, "sudo", n)
                              /\ L + n \in Hits(i) <=> IsHit(i, "ssh", n)
<1> DEFINE r == Running(i)
           L == Len(r.keys)
           found == {n \in DOMAIN Candidates(r) :
                       ~held[i].locked /\ Candidates(r)[n] \in DOMAIN held[i].entries}
<1>1. Hits(i) = found
  BY DEF Hits, CopyKept, Verified
<1>2. /\ L \in Nat /\ DOMAIN r.keys = 1..L
      /\ r.kind # "sudo" => Candidates(r) = r.keys
      /\ r.kind = "sudo" =>
           /\ DOMAIN Candidates(r) = 1..(L + L)
           /\ \A n \in 1..L : Candidates(r)[n] = SudoKey(r.keys[n])
           /\ \A n \in 1..L : Candidates(r)[L + n] = r.keys[n]
  BY CandidatesInOrder
<1>3. \A n : IsHit(i, "ssh", n) <=> ~held[i].locked /\ r.keys[n] \in DOMAIN held[i].entries
  BY DEF IsHit, FlatKey
<1>4. \A n : IsHit(i, "sudo", n) <=> ~held[i].locked /\ SudoKey(r.keys[n]) \in DOMAIN held[i].entries
  BY DEF IsHit, FlatKey
<1> HIDE DEF r, L
<1>5. r.kind # "sudo" => found = {n \in 1..L : IsHit(i, "ssh", n)}
  BY <1>2, <1>3
<1>6. r.kind = "sudo" => \A n \in 1..L : /\ n \in found <=> IsHit(i, "sudo", n)
                                         /\ L + n \in found <=> IsHit(i, "ssh", n)
  BY <1>2, <1>3, <1>4
<1>7. r = Running(i) /\ L = Len(Running(i).keys)
  BY DEF r, L
<1> HIDE DEF found
<1> QED BY <1>1, <1>5, <1>6, <1>7

LEMMA RecallMaps ==
  ASSUME IInv, NEW i \in Invocations, Run(i), Alone(i), Find(i), LooksUp(i)
  PROVE  Vault!Recall(i)
<1> DEFINE keys == Running(i).keys
           L == Len(keys)
           key(n) == Candidates(Running(i))[n]
           Minimal(n) == \A m \in Hits(i) : n <= m
<1>1. /\ TypeOK /\ CopyKept(i) /\ Underway(i) /\ pc[i] = "lookup" /\ UNCHANGED <<file, held>>
      /\ pc'[i] # "write" /\ Running(i).kind # "set"
  BY NotSavedSettles DEF IInv, Tracked, Find, LooksUp
<1>2. PICK n \in Hits(i) : Minimal(n) /\ Answer(i, held[i].entries[key(n)].secret)
  BY DEF Find
<1>3. /\ Running(i) \in Requesting /\ Len(answers[i]) < Len(Requests(command[i]))
      /\ Running(i).kind \in {"login", "exec", "sudo"}
  BY <1>1, RunningType DEF Underway, Requesting
<1>4. /\ L \in Nat /\ DOMAIN keys = 1..L
      /\ Running(i).kind # "sudo" => Candidates(Running(i)) = keys
      /\ Running(i).kind = "sudo" =>
           /\ DOMAIN Candidates(Running(i)) = 1..(L + L)
           /\ \A k \in 1..L : key(k) = SudoKey(keys[k])
           /\ \A k \in 1..L : key(L + k) = keys[k]
  BY <1>3, CandidatesInOrder
<1>5. /\ Running(i).kind # "sudo" => Hits(i) = {k \in 1..L : IsHit(i, "ssh", k)}
      /\ Running(i).kind = "sudo" =>
           \A k \in 1..L : /\ k \in Hits(i) <=> IsHit(i, "sudo", k)
                           /\ L + k \in Hits(i) <=> IsHit(i, "ssh", k)
  BY <1>1, <1>3, HitsAreFound
<1>6. n \in DOMAIN Candidates(Running(i))
  BY DEF Hits
<1> SUFFICES \E about \in {"ssh", "sudo"} :
               /\ Vault!Suits(i, about) /\ Vault!Has(i, about)
               /\ Vault!FirstOf(i, about) = held[i].entries[key(n)].secret
  <2>1. answers' = [answers EXCEPT ![i] = Append(@, held[i].entries[key(n)].secret)]
    BY <1>2 DEF Answer
  <2> QED BY <1>1, <1>3, <2>1, NothingSaved, KnownUnchanged, VaultTerms
      DEF Vault!Recall, Vault!Give
<1> HIDE DEF keys, L, key
<1>7. CASE Running(i).kind # "sudo"
  <2>1. n \in 1..L /\ IsHit(i, "ssh", n) /\ key(n) = keys[n]
    BY <1>4, <1>5, <1>7 DEF key
  <2>2. \A m \in 1..(n - 1) : ~IsHit(i, "ssh", m)
    BY <1>2, <1>4, <1>5, <1>7, <2>1
  <2>3. Vault!FirstOf(i, "ssh") = held[i].entries[FlatKey("ssh", keys[n])].secret
    BY <1>3, <1>4, <2>1, <2>2, FirstHitIsFound DEF keys
  <2>4. Vault!Has(i, "ssh")
    BY <1>3, <1>4, <2>1, HasMeansHit DEF keys
  <2>5. Vault!Suits(i, "ssh")
    BY <1>3, <1>7, VaultTerms DEF Vault!Suits
  <2> QED BY <2>1, <2>3, <2>4, <2>5 DEF FlatKey
<1>8. CASE Running(i).kind = "sudo" /\ n <= L
  <2>1. n \in 1..L /\ IsHit(i, "sudo", n) /\ key(n) = SudoKey(keys[n])
    BY <1>4, <1>5, <1>6, <1>8
  <2>2. \A m \in 1..(n - 1) : ~IsHit(i, "sudo", m)
    BY <1>2, <1>4, <1>5, <1>8, <2>1
  <2>3. Vault!FirstOf(i, "sudo") = held[i].entries[FlatKey("sudo", keys[n])].secret
    BY <1>3, <1>4, <2>1, <2>2, FirstHitIsFound DEF keys
  <2>4. Vault!Has(i, "sudo")
    BY <1>3, <1>4, <2>1, HasMeansHit DEF keys
  <2>5. Vault!Suits(i, "sudo")
    BY <1>8, VaultTerms DEF Vault!Suits
  <2> QED BY <2>1, <2>3, <2>4, <2>5 DEF FlatKey
<1>9. CASE Running(i).kind = "sudo" /\ ~(n <= L)
  <2> DEFINE k == n - L
  <2>1. k \in 1..L /\ n = L + k /\ n \in Nat
    BY <1>4, <1>6, <1>9
  <2> HIDE DEF k
  <2>2. IsHit(i, "ssh", k) /\ key(n) = keys[k]
    BY <1>4, <1>5, <1>9, <2>1
  <2>3. \A m \in 1..(k - 1) : ~IsHit(i, "ssh", m)
    <3>1. \A m \in 1..(k - 1) : m \in 1..L /\ ~(n <= L + m)
      BY <1>4, <2>1
    <3> QED BY <1>2, <1>5, <1>9, <3>1
  <2>4. \A m \in 1..L : ~IsHit(i, "sudo", m)
    <3>1. \A m \in 1..L : ~(n <= m)
      BY <1>4, <1>9, <2>1
    <3> QED BY <1>2, <1>5, <1>9, <3>1
  <2>5. Vault!FirstOf(i, "ssh") = held[i].entries[FlatKey("ssh", keys[k])].secret
    BY <1>3, <1>4, <2>1, <2>2, <2>3, FirstHitIsFound DEF keys
  <2>6. Vault!Has(i, "ssh") /\ ~Vault!Has(i, "sudo")
    BY <1>3, <1>4, <2>1, <2>2, <2>4, HasMeansHit DEF keys
  <2>7. Vault!Suits(i, "ssh")
    BY <1>9, <2>6, VaultTerms DEF Vault!Suits
  <2> QED BY <2>2, <2>5, <2>6, <2>7 DEF FlatKey
<1> QED BY <1>7, <1>8, <1>9

\* Nothing is known that would do.
LEMMA DoWithoutMaps ==
  ASSUME IInv, NEW i \in Invocations, Run(i), Alone(i), UNCHANGED <<file, held>>,
         pc[i] \in {"lookup", "prompt"}, Running(i).kind # "set", Hits(i) = {},
         Answer(i, Nothing)
  PROVE  Vault!DoWithout(i)
<1>1. /\ TypeOK /\ CopyKept(i) /\ Underway(i) /\ pc'[i] # "write"
  BY NotSavedSettles DEF IInv, Tracked
<1>2. /\ Running(i) \in Requesting /\ Len(answers[i]) < Len(Requests(command[i]))
      /\ Running(i).kind \in {"login", "exec", "sudo"}
  BY <1>1, RunningType DEF Underway, Requesting
<1>3. /\ ~(Vault!Suits(i, "ssh") /\ Vault!Has(i, "ssh"))
      /\ ~(Vault!Suits(i, "sudo") /\ Vault!Has(i, "sudo"))
  <2> DEFINE L == Len(Running(i).keys)
  <2>1. L \in Nat /\ DOMAIN Running(i).keys = 1..L
    BY <1>2, CandidatesInOrder
  <2>2. /\ Running(i).kind # "sudo" => Hits(i) = {n \in 1..L : IsHit(i, "ssh", n)}
        /\ Running(i).kind = "sudo" =>
             \A n \in 1..L : /\ n \in Hits(i) <=> IsHit(i, "sudo", n)
                             /\ L + n \in Hits(i) <=> IsHit(i, "ssh", n)
    BY <1>1, <1>2, HitsAreFound
  <2> HIDE DEF L
  <2>3. \A n \in 1..L : ~IsHit(i, "ssh", n) /\ (Running(i).kind = "sudo" => ~IsHit(i, "sudo", n))
    BY <2>1, <2>2
  <2>4. ~Vault!Has(i, "ssh") /\ (Running(i).kind = "sudo" => ~Vault!Has(i, "sudo"))
    BY <1>2, <2>1, <2>3, HasMeansHit
  <2> QED BY <2>4, VaultTerms DEF Vault!Suits
<1>4. Vault!Give(i, Vault!Nothing)
  BY VaultTerms DEF Answer, Vault!Give
<1> QED BY <1>1, <1>2, <1>3, <1>4, NothingSaved, KnownUnchanged, VaultTerms DEF Vault!DoWithout

(***************************************************************************)
(* A save adds one password and loses none that was saved.                 *)
(***************************************************************************)
LEMMA SlotType ==
  ASSUME NEW s \in Slots
  PROVE  s = <<s[1], s[2]>> /\ s[1] \in {"ssh", "sudo"} /\ s[2] \in Names
BY DEF Slots

LEMMA FiledDecoded ==
  ASSUME NamesAreNotSudoKeys, NEW i \in Invocations, Typed(i) \in Secret, ~held[i].locked
  PROVE  Decoded(Filed(i)) = Vault!NewlyKnown(i)
<1> DEFINE old == held[i].entries
           slot == <<Typed(i).about, Typed(i).name>>
           key(s) == FlatKey(s[1], s[2])
<1>1. /\ Typed(i).about \in {"ssh", "sudo"} /\ Typed(i).name \in Names
      /\ slot \in Slots /\ slot[1] = Typed(i).about /\ slot[2] = Typed(i).name
  BY DEF Secret, Slots
<1>2. TypedKey(i) = key(slot)
  BY <1>1 DEF TypedKey
<1>3. \A s \in Slots : key(s) = TypedKey(i) <=> s = slot
  <2> SUFFICES ASSUME NEW s \in Slots, key(s) = TypedKey(i) PROVE s = slot
    BY <1>2
  <2> QED BY <1>1, <1>2, SlotType, FlatKeysDiffer DEF TypedKey
<1>4. /\ DOMAIN Filed(i) = DOMAIN old \cup {TypedKey(i)}
      /\ Filed(i)[TypedKey(i)].secret = Typed(i)
      /\ \A k \in DOMAIN old \ {TypedKey(i)} : Filed(i)[k] = old[k]
  BY DEF Filed, Encrypted, TypedKey
<1>5. /\ DOMAIN Decoded(old) = {s \in Slots : key(s) \in DOMAIN old}
      /\ \A s \in DOMAIN Decoded(old) : Decoded(old)[s] = old[key(s)].secret
  BY DEF Decoded
<1>6. Vault!NewlyKnown(i) =
        [s \in DOMAIN Decoded(old) \cup {slot} |-> IF s = slot THEN Typed(i) ELSE Decoded(old)[s]]
  BY KnownAt, VaultTerms DEF Vault!NewlyKnown
<1>7. Decoded(Filed(i)) = [s \in {s \in Slots : key(s) \in DOMAIN Filed(i)} |-> Filed(i)[key(s)].secret]
  BY DEF Decoded
<1> HIDE DEF slot, key, old
<1>8. {s \in Slots : key(s) \in DOMAIN Filed(i)} = DOMAIN Decoded(old) \cup {slot}
  BY <1>1, <1>3, <1>4, <1>5
<1>9. \A s \in DOMAIN Decoded(old) \cup {slot} :
        Filed(i)[key(s)].secret = IF s = slot THEN Typed(i) ELSE Decoded(old)[s]
  BY <1>1, <1>3, <1>4, <1>5
<1> QED BY <1>6, <1>7, <1>8, <1>9

\* The typed password goes into the copy in memory.
LEMMA LearnMaps ==
  ASSUME NamesAreNotSudoKeys, TypeOK, NEW i \in Invocations, Typed(i) \in Secret,
         ~held[i].locked, Hold(i, Unlocked(held[i].lock, Filed(i)))
  PROVE  Vault!Learn(i)
<1> DEFINE learnt == [locked |-> FALSE, passwords |-> Vault!NewlyKnown(i)]
<1>1. /\ held'[i] = Unlocked(held[i].lock, Filed(i))
      /\ \A j \in Invocations \ {i} : held'[j] = held[j]
  BY DEF Hold, TypeOK
<1>2. ~held'[i].locked /\ held'[i].entries = Filed(i)
  BY <1>1, UnlockedFacts
<1>3. KnownPasswords'[i] = learnt
  <2>1. KnownPasswords'[i] = [locked |-> FALSE, passwords |-> Decoded(Filed(i))]
    BY <1>2 DEF KnownPasswords, Decoded
  <2> QED BY <2>1, FiledDecoded
<1>4. \A j \in Invocations \ {i} : KnownPasswords'[j] = KnownPasswords[j]
  BY <1>1 DEF KnownPasswords, Decoded
<1>5. /\ KnownPasswords' = [j \in Invocations |-> KnownPasswords'[j]]
      /\ KnownPasswords = [j \in Invocations |-> KnownPasswords[j]]
  BY DEF KnownPasswords
<1> HIDE DEF learnt
<1>6. KnownPasswords' = [KnownPasswords EXCEPT ![i] = learnt]
  BY <1>3, <1>4, <1>5
<1> QED BY <1>6 DEF learnt, Vault!Learn

\* What there is to say of an invocation that is saving.
LEMMA SaverFacts ==
  ASSUME IInv, NEW i \in Invocations, pc[i] \in {"store", "write"}
  PROVE  /\ TypeOK /\ ~held[i].locked /\ Typed(i) \in Secret
         /\ Running(i).kind \in {"login", "set", "sudo"}
         /\ Len(answers[i]) < Len(Requests(command[i]))
<1>1. TypeOK /\ Underway(i) /\ MaySave(i) /\ HoldsToSave(i)
  BY DEF IInv, Tracked
<1>2. ~held[i].locked /\ Running(i).kind # "exec" /\ Len(answers[i]) < Len(Requests(command[i]))
  BY <1>1 DEF Underway, MaySave, HoldsToSave
<1> QED BY <1>1, <1>2, RunningType DEF Requesting

LEMMA SaveMaps ==
  ASSUME NamesAreNotSudoKeys, IInv, NEW i \in Invocations, Run(i), Alone(i),
         Truncate(i), CopyIsCurrent(i)
  PROVE  Vault!Save(i)
<1>1. /\ pc[i] = "store" /\ pc'[i] = "write" /\ file' = EmptyFile /\ answers' = answers
      /\ Hold(i, Unlocked(held[i].lock, Filed(i))) /\ command' = command
  BY RunLeavesOthers DEF Truncate, Goto, IInv, TypeOK
<1>2. /\ TypeOK /\ ~held[i].locked /\ Typed(i) \in Secret
      /\ Running(i).kind \in {"login", "set", "sudo"}
      /\ Len(answers[i]) < Len(Requests(command[i]))
  BY <1>1, SaverFacts
<1>3. Saving = {} /\ Saving' = {i}
  BY <1>1, <1>2, OnlySaver
<1>4. SavedPasswords = Decoded(file.entries)
  BY <1>3 DEF SavedPasswords
<1>5. SavedPasswords' = Vault!NewlyKnown(i)
  <2>1. (CHOOSE j \in Saving : TRUE)' = i
    BY <1>3
  <2>2. held'[i].entries = Filed(i)
    BY <1>1, <1>2, UnlockedFacts DEF Hold, TypeOK
  <2>3. SavedPasswords' = Decoded(Filed(i))
    BY <1>3, <2>1, <2>2 DEF SavedPasswords, Decoded
  <2> QED BY <1>2, <2>3, FiledDecoded
<1>6. Vault!Learn(i)
  BY <1>1, <1>2, LearnMaps
<1>7. ASSUME Readable(file) \/ Saving # {},
             NEW s \in DOMAIN SavedPasswords \ {Vault!Slot(i)}
      PROVE  /\ s \in DOMAIN SavedPasswords'
             /\ SavedPasswords'[s] = SavedPasswords[s] \/ SavedPasswords'[s].by = i
  <2> DEFINE k == FlatKey(s[1], s[2])
             old == held[i].entries
  <2>1. s \in Slots /\ k \in DOMAIN file.entries /\ SavedPasswords[s] = file.entries[k].secret
    BY <1>4, <1>7 DEF Decoded
  <2>2. /\ k \in DOMAIN old
        /\ old[k].secret = file.entries[k].secret \/ old[k].secret.by = i
    BY <1>1, <1>2, <1>3, <1>7, <2>1 DEF CopyIsCurrent
  <2>3. s \in DOMAIN Decoded(old) /\ Decoded(old)[s] = old[k].secret
    BY <2>1, <2>2 DEF Decoded
  <2> HIDE DEF k, old
  <2>4. Vault!NewlyKnown(i)[s] = Decoded(held[i].entries)[s]
        /\ s \in DOMAIN Vault!NewlyKnown(i)
    BY <1>2, <1>7, <2>3, KnownAt DEF Vault!NewlyKnown, old
  <2> QED BY <1>5, <2>1, <2>2, <2>3, <2>4 DEF old
<1>8. ~KnownPasswords[i].locked
  BY <1>2, KnownAt
<1> QED BY <1>1, <1>2, <1>3, <1>5, <1>6, <1>7, <1>8, VaultTerms DEF Vault!Save

\* It could not be saved, but the copy in memory has it.
LEMMA LearnOnlyMaps ==
  ASSUME NamesAreNotSudoKeys, IInv, NEW i \in Invocations, Run(i), Alone(i), OpenFails(i)
  PROVE  Vault!LearnOnly(i)
<1>1. /\ pc[i] = "store" /\ file' = file /\ NotSaved(i)
      /\ Hold(i, Unlocked(held[i].lock, Filed(i)))
  BY DEF OpenFails
<1>2. /\ TypeOK /\ ~held[i].locked /\ Typed(i) \in Secret
      /\ Running(i).kind \in {"login", "set", "sudo"}
      /\ Len(answers[i]) < Len(Requests(command[i])) /\ pc'[i] # "write"
  BY <1>1, SaverFacts, NotSavedSettles
<1>3. Vault!Learn(i)
  BY <1>1, <1>2, LearnMaps
<1>4. IF Vault!MayType(i) THEN Vault!Give(i, Vault!New(i)) ELSE UNCHANGED answers
  <2>1. Vault!MayType(i) <=> Running(i).kind # "set"
    BY <1>2, VaultTerms DEF Vault!MayType
  <2> QED BY <1>1, <2>1, VaultTerms DEF NotSaved, Answer, Vault!Give
<1>5. ~KnownPasswords[i].locked
  BY <1>2, KnownAt
<1> QED BY <1>1, <1>2, <1>3, <1>4, <1>5, NothingSaved, VaultTerms DEF Vault!LearnOnly

\* What there is of the vault while one of them saves.
LEMMA SavingFacts ==
  ASSUME TypeOK, NEW i \in Invocations, Run(i), Alone(i), pc[i] = "write",
         pc'[i] \in {"open", "end"}
  PROVE  /\ Saving = {i} /\ Saving' = {} /\ command' = command
         /\ SavedPasswords = Decoded(held[i].entries)
         /\ SavedPasswords' = Decoded(file'.entries)
<1>1. Saving = {i} /\ Saving' = {} /\ command' = command
  BY OnlySaver, RunLeavesOthers
<1>2. (CHOOSE j \in Saving : TRUE) = i
  BY <1>1
<1> QED BY <1>1, <1>2 DEF SavedPasswords, Decoded

\* The file has the copy that was saved, and the typed password in it.
LEMMA AcknowledgeMaps ==
  ASSUME IInv, NEW i \in Invocations, Run(i), Alone(i), Write(i), SavesAlone(i), TypedIsHeld(i)
  PROVE  Vault!Acknowledge(i)
<1>1. /\ pc[i] = "write" /\ held' = held /\ Answer(i, Typed(i))
      /\ file' \in Overlaid(Doc(held[i].lock.salt, held[i].entries))
  BY DEF Write
<1>2. /\ TypeOK /\ ~held[i].locked /\ Typed(i) \in Secret
      /\ Len(answers[i]) < Len(Requests(command[i])) /\ pc'[i] \in {"open", "end"}
  BY <1>1, SaverFacts, NotSavedSettles
<1>3. file' = Doc(held[i].lock.salt, held[i].entries)
  BY <1>1 DEF SavesAlone, Overlaid
<1>4. Readable(file)' /\ file'.entries = held[i].entries
  BY <1>3, FileKinds DEF Readable
<1>5. /\ Saving = {i} /\ Saving' = {} /\ command' = command
      /\ SavedPasswords = Decoded(held[i].entries)
      /\ SavedPasswords' = SavedPasswords
  BY <1>1, <1>2, <1>4, SavingFacts
<1>6. /\ <<Typed(i).about, Typed(i).name>> \in DOMAIN SavedPasswords
      /\ SavedPasswords[<<Typed(i).about, Typed(i).name>>] = Typed(i)
  <2>1. Typed(i).about \in {"ssh", "sudo"} /\ Typed(i).name \in Names
    BY <1>2 DEF Secret
  <2> QED BY <1>1, <1>5, <2>1, DecodedAt DEF TypedIsHeld, TypedKey
<1>7. Vault!Give(i, Vault!New(i))
  BY <1>1, VaultTerms DEF Answer, Vault!Give
<1> QED BY <1>1, <1>2, <1>4, <1>5, <1>6, <1>7, KnownUnchanged, VaultTerms DEF Vault!Acknowledge

\* A save that fails or is stopped leaves nothing that can be read.
LEMMA BreakMaps ==
  ASSUME IInv, NEW i \in Invocations, Run(i), Alone(i), SavesAlone(i), pc[i] = "write",
         file' \in {file, Garbled}, held' = held,
         NotSaved(i) \/ (Goto(i, "end") /\ UNCHANGED answers)
  PROVE  Vault!Break(i)
<1>1. /\ TypeOK /\ ~held[i].locked /\ Running(i).kind \in {"login", "set", "sudo"}
      /\ Len(answers[i]) < Len(Requests(command[i])) /\ pc'[i] \in {"open", "end"}
  BY SaverFacts, NotSavedSettles
<1>2. DOMAIN file'.entries = {} /\ ~Readable(file)'
  BY FileKinds DEF SavesAlone, Readable
<1>3. Saving' = {} /\ command' = command /\ DOMAIN SavedPasswords' = {}
  BY <1>1, <1>2, SavingFacts DEF Decoded
<1>4. UNCHANGED answers \/ (Vault!MayType(i) /\ Vault!Give(i, Vault!New(i)))
  <2>1. Vault!MayType(i) <=> Running(i).kind # "set"
    BY <1>1, VaultTerms DEF Vault!MayType
  <2> QED BY <2>1, VaultTerms DEF NotSaved, Answer, Vault!Give
<1>5. ~KnownPasswords[i].locked
  BY <1>1, KnownAt
<1> QED BY <1>1, <1>2, <1>3, <1>4, <1>5, KnownUnchanged, VaultTerms DEF Vault!Break

LEMMA InitMaps == Init => Vault!Init
<1> SUFFICES ASSUME Init PROVE Vault!Init
  OBVIOUS
<1>1. file \in Start /\ Readable(file)
  <2>1. file \in Start /\ (file = NoFile \/ file = Doc(file.salt, file.entries))
    BY StartAssumption DEF Init, IsStoreFile
  <2> QED BY <2>1, FileKinds DEF Readable
<1>2. Saving = {}
  BY DEF Init, Saving
<1>3. SavedPasswords = Decoded(file.entries)
  BY <1>2 DEF SavedPasswords
<1>4. KnownPasswords = [i \in Invocations |-> Vault!Locked]
  BY DEF Init, KnownPasswords, NotHeld, Vault!Locked
<1> QED BY <1>1, <1>3, <1>4 DEF Init, Vault!Init

(***************************************************************************)
(* Every step of an invocation in its turn is a step of Vault, or none.    *)
(***************************************************************************)
LEMMA RunMaps ==
  ASSUME NamesAreNotSudoKeys, IInv, TurnInv, NEW i \in Invocations, CopyIsCurrent(i),
         SavesAlone(i), Run(i), Alone(i), UNCHANGED inTurn
  PROVE  Vault!Next \/ UNCHANGED Vault!vars
<1>0. /\ TypeOK /\ Underway(i) /\ MaySave(i) /\ LooksUp(i) /\ SudoUnknown(i) /\ TypedIsHeld(i)
      /\ pc \in [Invocations -> Steps]
  BY DEF IInv, Tracked, TurnInv, Fits, TypeOK
<1> SUFFICES \/ Vault!Recall(i) \/ Vault!DoWithout(i) \/ Vault!UseOnce(i) \/ Vault!Unlock(i)
             \/ Vault!Save(i) \/ Vault!Acknowledge(i) \/ Vault!LearnOnly(i) \/ Vault!Break(i)
             \/ UNCHANGED Vault!vars
  BY DEF Vault!Next, Vault!Work
<1>1. CASE OpenStore(i) \/ UnlockFails(i) \/ PromptAnswered(i)
  <2>1. /\ UNCHANGED <<file, held, answers>> /\ pc[i] # "write" /\ pc'[i] # "write"
    BY <1>0, <1>1, AfterOpeningStep DEF OpenStore, UnlockFails, PromptAnswered, Goto
  <2> QED BY <1>0, <2>1, StageMaps
<1>2. CASE Unlock(i) \/ SetUp(i)
  BY <1>2, UnlockMaps
<1>3. CASE Find(i)
  BY <1>0, <1>3, RecallMaps
<1>4. CASE Miss(i)
  <2>1. UNCHANGED <<file, held>> /\ pc[i] = "lookup" /\ Hits(i) = {} /\ Running(i).kind # "set"
    BY <1>0, <1>4 DEF Miss, LooksUp
  <2>2. CASE Answer(i, Nothing)
    BY <2>1, <2>2, DoWithoutMaps
  <2>3. CASE Goto(i, "prompt") /\ UNCHANGED answers
    <3>1. pc'[i] # "write"
      BY <1>0, <2>3 DEF Goto
    <3> QED BY <1>0, <2>1, <2>3, <3>1, StageMaps
  <2> QED BY <1>4, <2>2, <2>3 DEF Miss
<1>5. CASE PromptFails(i)
  <2>1. UNCHANGED <<file, held>> /\ pc[i] = "prompt"
    BY <1>5 DEF PromptFails
  <2>2. CASE Running(i).kind = "sudo"
    BY <1>0, <1>5, <2>1, <2>2, DoWithoutMaps DEF PromptFails, SudoUnknown
  <2>3. CASE Running(i).kind # "sudo"
    <3>1. Goto(i, "end") /\ UNCHANGED answers /\ pc'[i] # "write"
      BY <1>0, <1>5, <2>3 DEF PromptFails, Goto
    <3> QED BY <1>0, <2>1, <3>1, StageMaps
  <2> QED BY <2>2, <2>3
<1>6. CASE DeclineToSave(i)
  <2>1. /\ UNCHANGED <<file, held>> /\ pc[i] = "prompt" /\ Answer(i, Typed(i))
        /\ Running(i).kind \notin {"set", "exec"}
    BY <1>0, <1>6 DEF DeclineToSave, MaySave
  <2>2. pc'[i] # "write"
    BY <1>0, <2>1, NotSavedSettles
  <2> QED BY <1>0, <2>1, <2>2, TypedOnceMaps
<1>7. CASE SaveStore(i) \/ SetUpFails(i)
  <2>1. UNCHANGED <<file, held>> /\ pc[i] \in {"save", "setup"}
    BY <1>7 DEF SaveStore, SetUpFails
  <2>2. CASE NotSaved(i)
    BY <2>1, <2>2, NotSavedMaps
  <2>3. CASE ~NotSaved(i)
    <3>1. UNCHANGED answers /\ pc'[i] # "write"
      BY <1>0, <1>7, <2>3 DEF SaveStore, SetUpFails, Goto
    <3> QED BY <1>0, <2>1, <3>1, StageMaps
  <2> QED BY <2>2, <2>3
<1>8. CASE Truncate(i)
  BY <1>8, SaveMaps
<1>9. CASE OpenFails(i)
  BY <1>9, LearnOnlyMaps
<1>10. CASE Write(i)
  BY <1>0, <1>10, AcknowledgeMaps
<1>11. CASE WriteFails(i)
  BY <1>11, BreakMaps DEF WriteFails
<1>12. CASE Stop(i)
  <2>1. UNCHANGED <<file, held, answers>> /\ Goto(i, "end") /\ pc'[i] # "write"
    BY <1>0, <1>12 DEF Stop, Goto
  <2>2. CASE pc[i] = "write"
    BY <2>1, <2>2, BreakMaps
  <2>3. CASE pc[i] # "write"
    BY <1>0, <2>1, <2>3, StageMaps
  <2> QED BY <2>2, <2>3
<1> QED
  BY <1>1, <1>2, <1>3, <1>4, <1>5, <1>6, <1>7, <1>8, <1>9, <1>10, <1>11, <1>12 DEF Run

(***************************************************************************)
(* The invocations, as long as they follow one another, implement Vault:   *)
(* requests are answered by name and in order, and a save adds one         *)
(* password and loses none.  It takes that no Host is named as another one *)
(* followed by "/sudo": the two kinds of passwords share one map, and      *)
(* nothing in the code keeps such a name out of it.                        *)
(***************************************************************************)
THEOREM RefinesVault ==
  ASSUME NamesAreNotSudoKeys
  PROVE  Spec => ImplementsVault
<1>1. Init => Vault!Init
  BY InitMaps
<1>2. IInv /\ TurnInv /\ [Next]_vars => [Vault!Next]_(Vault!vars)
  <2> SUFFICES ASSUME IInv, TurnInv, [Next]_vars
               PROVE  Vault!Next \/ UNCHANGED Vault!vars
    OBVIOUS
  <2>1. CASE UNCHANGED vars
    <3>1. UNCHANGED <<file, command, pc, held, answers, inTurn>>
      BY <2>1 DEF vars, given
    <3>2. Saving' = Saving /\ KnownPasswords' = KnownPasswords
      BY <3>1, KnownUnchanged DEF Saving
    <3>3. SavedPasswords' = SavedPasswords
      BY <3>1, <3>2 DEF SavedPasswords, Decoded
    <3> QED BY <3>1, <3>2, <3>3 DEF Vault!vars, Readable
  <2>2. ASSUME NEW i \in Invocations, Run(i), inTurn' = (inTurn /\ Alone(i))
        PROVE  Vault!Next \/ UNCHANGED Vault!vars
    <3>1. CASE inTurn' = FALSE
      BY <3>1 DEF Vault!Next
    <3>2. CASE inTurn /\ Alone(i)
      <4>1. inTurn' = inTurn /\ CopyIsCurrent(i) /\ SavesAlone(i)
        BY <2>2, <3>2 DEF TurnInv, IInv, TypeOK
      <4> QED BY <2>2, <3>2, <4>1, RunMaps
    <3> QED BY <2>2, <3>1, <3>2
  <2> QED BY <2>1, <2>2 DEF Next, Terminating
<1> QED BY <1>1, <1>2, StoreInvariant, TurnInvariant, PTL DEF Spec, ImplementsVault, Vault!Spec
=============================================================================
