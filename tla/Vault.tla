-------------------------------- MODULE Vault --------------------------------
(***************************************************************************)
(* What the password store promises to invocations as long as they follow  *)
(* one another: SSH and sudo passwords by name, answers in the order in    *)
(* which the names are tried, and saves that add one password and lose     *)
(* none.  There are no files, keys or prompts here.                        *)
(***************************************************************************)
EXTENDS Naturals, Sequences

CONSTANTS
  Invocations,
  Commands,
  Requests(_),  \* what a command asks, in order
  Start         \* the passwords there may be at the start

VARIABLES
  saved,    \* the saved passwords: a function from <<kind, name>>
  intact,   \* whether they can still be read
  known,    \* what each invocation knows of them: locked, or passwords
  command,  \* what each invocation runs
  answers,  \* what its requests so far were answered with
  inTurn    \* whether they have followed one another so far

vars == <<saved, intact, known, command, answers, inTurn>>

Nothing == [about |-> "nothing"]
Locked == [locked |-> TRUE]

Init ==
  /\ saved \in Start
  /\ intact = TRUE
  /\ command \in [Invocations -> Commands]
  /\ known = [i \in Invocations |-> Locked]
  /\ answers = [i \in Invocations |-> <<>>]
  /\ inTurn = TRUE

-----------------------------------------------------------------------------
Busy(i) == Len(answers[i]) < Len(Requests(command[i]))
Asked(i) == Requests(command[i])[Len(answers[i]) + 1]

\* What the user types for the request, and where it belongs.
New(i) == [about |-> Asked(i).about, name |-> Asked(i).keys[1], by |-> i]
Slot(i) == <<Asked(i).about, Asked(i).keys[1]>>

\* Is there a password of this kind under one of the names; the first of them.
Has(i, about) ==
  ~known[i].locked /\ \E n \in DOMAIN Asked(i).keys : <<about, Asked(i).keys[n]>> \in DOMAIN known[i].passwords
FirstOf(i, about) ==
  LET IsHit(n) == <<about, Asked(i).keys[n]>> \in DOMAIN known[i].passwords
      hit == CHOOSE n \in DOMAIN Asked(i).keys :
               IsHit(n) /\ \A m \in 1..(n - 1) : ~IsHit(m)
  IN  known[i].passwords[<<about, Asked(i).keys[hit]>>]

\* sudo has a password of its own or makes do with the SSH password.
Suits(i, about) ==
  \/ Asked(i).kind \in {"login", "exec"} /\ about = "ssh"
  \/ Asked(i).kind = "sudo" /\ (about = "sudo" \/ ~Has(i, "sudo"))

Give(i, answer) == answers' = [answers EXCEPT ![i] = Append(@, answer)]

Recall(i) ==
  /\ Busy(i)
  /\ \E about \in {"ssh", "sudo"} :
       Suits(i, about) /\ Has(i, about) /\ Give(i, FirstOf(i, about))
  /\ UNCHANGED <<saved, intact, known, command>>

\* Nothing is saved for it, or nothing can be looked up.
DoWithout(i) ==
  /\ Busy(i) /\ Asked(i).kind # "set"
  /\ ~(Suits(i, "ssh") /\ Has(i, "ssh")) /\ ~(Suits(i, "sudo") /\ Has(i, "sudo"))
  /\ Give(i, Nothing)
  /\ UNCHANGED <<saved, intact, known, command>>

MayType(i) == Asked(i).kind \in {"login", "sudo"}
NewlyKnown(i) ==
  [s \in DOMAIN known[i].passwords \cup {Slot(i)} |->
     IF s = Slot(i) THEN New(i) ELSE known[i].passwords[s]]
Learn(i) ==
  known' = [known EXCEPT ![i] = [locked |-> FALSE, passwords |-> NewlyKnown(i)]]

\* Typed, and for this once only.
UseOnce(i) ==
  /\ Busy(i) /\ MayType(i)
  /\ Give(i, New(i))
  /\ UNCHANGED <<saved, intact, known, command>>

\* The right master password was given, or there is nothing to open yet.
Unlock(i) ==
  /\ known[i].locked /\ intact = TRUE
  /\ known' = [known EXCEPT ![i] = [locked |-> FALSE, passwords |-> saved]]
  /\ UNCHANGED <<saved, intact, command, answers>>

\* The new password is saved with all that is known: if what was saved is
\* intact, nothing of it is lost but a password that has the same place.
Save(i) ==
  /\ Busy(i) /\ Asked(i).kind # "exec" /\ ~known[i].locked
  /\ Learn(i)
  /\ saved' = NewlyKnown(i)
  /\ intact' = TRUE
  /\ intact =>
       \A s \in DOMAIN saved \ {Slot(i)} :
         s \in DOMAIN saved' /\ (saved'[s] = saved[s] \/ saved'[s].by = i)
  /\ UNCHANGED <<command, answers>>

\* The request is answered with what was saved for it.
Acknowledge(i) ==
  /\ Busy(i) /\ intact = TRUE
  /\ Slot(i) \in DOMAIN saved /\ saved[Slot(i)] = New(i)
  /\ Give(i, New(i))
  /\ UNCHANGED <<saved, intact, known, command>>

\* It could not be saved: known here only, if the store is open.
LearnOnly(i) ==
  /\ Busy(i) /\ Asked(i).kind # "exec" /\ ~known[i].locked
  /\ Learn(i)
  /\ IF MayType(i) THEN Give(i, New(i)) ELSE UNCHANGED answers
  /\ UNCHANGED <<saved, intact, command>>

\* A save is cut short: what was saved is gone.
Break(i) ==
  /\ Busy(i) /\ ~known[i].locked
  /\ intact' = FALSE
  /\ DOMAIN saved' = {}
  /\ UNCHANGED answers \/ (MayType(i) /\ Give(i, New(i)))
  /\ UNCHANGED <<known, command>>

Work ==
  \E i \in Invocations :
    \/ Recall(i) \/ DoWithout(i) \/ UseOnce(i) \/ Unlock(i)
    \/ Save(i) \/ Acknowledge(i) \/ LearnOnly(i) \/ Break(i)

\* Nothing is promised from the first overlap on.
Next == inTurn' = FALSE \/ (UNCHANGED inTurn /\ Work)

Spec == Init /\ [][Next]_vars
=============================================================================
