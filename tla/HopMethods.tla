----------------------------- MODULE HopMethods -----------------------------
(***************************************************************************)
(* What one hop is authenticated with: the strategies of a login and of    *)
(* `exec' (internal/cli/auth.go), and what `info' lists for the same Host  *)
(* before (internal/cli/info.go).  Which password is saved, and how the    *)
(* store is unlocked, is the business of Credentials.                      *)
(***************************************************************************)
EXTENDS Naturals, Sequences, Functions

CONSTANT
  DefaultKeys  \* the names of the default keys, in the order they are tried

Identity == "identity"
KeyFiles == {Identity} \cup Range(DefaultKeys)

ASSUME KeyAssumption ==
  /\ DefaultKeys \in Seq(Range(DefaultKeys))
  /\ Range(DefaultKeys) \cap {Identity, "agent", "store", "typed", "password", "master"} = {}

VARIABLES
  agent,      \* the SSH agent: "none", "empty" or "keys"
  disk,       \* every key file: "missing", "locked" by a passphrase, or "plain"
  identified, \* whether the Host has an IdentityFile
  store,      \* the password store: "absent", "shut" to this invocation, "open"
              \* without a password for this Host, or "saved": open with one
  command,    \* "exec" or "login"
  pc,         \* "info", "agent", "keys", "password", "prompt", "done" or "failed"
  listed,     \* what info listed
  signers,    \* the keys collected so far, in order
  methods,    \* the methods offered: their name and what they are made of
  prompted    \* history: what the user was asked for

machine == <<agent, disk, identified, store, command>>
vars == <<agent, disk, identified, store, command, pc, listed, signers,
          methods, prompted>>

Init ==
  /\ agent \in {"none", "empty", "keys"}
  /\ disk \in [KeyFiles -> {"missing", "locked", "plain"}]
  /\ identified \in BOOLEAN
  /\ store \in {"absent", "shut", "open", "saved"}
  /\ command \in {"exec", "login"}
  /\ pc = "info"
  /\ listed = {}
  /\ signers = <<>>
  /\ methods = <<>>
  /\ prompted = {}

-----------------------------------------------------------------------------
\* Defect: info knows of the first default key only.
DetectFirstDefaultKey == {k \in {DefaultKeys[1]} : disk[k] # "missing"}

\* info stops at the first default key there is.
DetectDefaultKey ==
  {DefaultKeys[n] : n \in {n \in DOMAIN DefaultKeys :
     disk[DefaultKeys[n]] # "missing" /\ \A m \in 1..(n - 1) : disk[DefaultKeys[m]] = "missing"}}

Listing ==
  {"agent" : a \in {agent} \cap {"keys"}}
    \cup {k \in {Identity} : identified /\ disk[k] # "missing"}
    \cup DetectDefaultKey
    \cup {"store" : s \in {store} \ {"absent"}}

\* detectAuthMethods looks whether the files are there, never into them.
ListMethods ==
  /\ pc = "info"
  /\ listed' = Listing
  /\ pc' = "agent"
  /\ UNCHANGED <<machine, signers, methods, prompted>>

AgentSigners ==
  /\ pc = "agent"
  /\ signers' = IF agent = "keys" THEN <<"agent">> ELSE <<>>
  /\ pc' = "keys"
  /\ UNCHANGED <<machine, listed, methods, prompted>>

\* The key files a hop may use: its own, or the default ones.
Candidates == IF identified THEN <<Identity>> ELSE DefaultKeys

\* A login asks for the passphrase of every locked key; exec leaves it out.
Passphrases == {k \in Range(Candidates) : command = "login" /\ disk[k] = "locked"}

\* Defect: the agent's keys and the files make two methods of one name.
PublicKeysSplit(keys) ==
  [n \in DOMAIN keys |-> [name |-> "publickey", from |-> <<keys[n]>>]]

\* All keys share one method.
PublicKeys(keys) ==
  IF keys = <<>> THEN <<>> ELSE <<[name |-> "publickey", from |-> keys]>>

\* keySigners' loop: those of the keys that load, in order.
Loaded(keys, loading) ==
  LET upTo[n \in 0..Len(keys)] ==
        IF n = 0 THEN <<>>
        ELSE IF keys[n] \in loading THEN Append(upTo[n - 1], keys[n])
        ELSE upTo[n - 1]
  IN  upTo[Len(keys)]

KeySigners ==
  /\ pc = "keys"
  /\ \E typed \in SUBSET Passphrases :
       signers' = signers \o Loaded(Candidates, {k \in KeyFiles : disk[k] = "plain"} \cup typed)
  /\ methods' = PublicKeys(signers')
  /\ prompted' = Passphrases
  /\ pc' = "password"
  /\ UNCHANGED <<machine, listed>>

\* Defect: a saved password answers keyboard-interactive as well.
PasswordTwice(from) ==
  <<[name |-> "password", from |-> <<from>>],
    [name |-> "keyboard-interactive", from |-> <<from>>]>>

Password(from) == <<[name |-> "password", from |-> <<from>>]>>

\* openStore asks for the master password of a store that is there, for exec
\* too, unless it was asked for at an earlier hop.  Whether that opens it is the
\* business of Credentials: here a store is "shut" if it does not.
OpenStore ==
  prompted' \in {prompted} \cup {prompted \cup {"master"} : s \in {store} \ {"absent"}}

\* Defect: a hop with keys does not look its saved password up.
SavedPasswordUnlessKeys ==
  /\ pc = "password"
  /\ store = "saved"
  /\ OpenStore
  /\ methods' = IF methods = <<>> THEN Password("store") ELSE methods
  /\ pc' = "done"
  /\ UNCHANGED <<machine, listed, signers>>

\* The lookup for this hop, regardless of whether it also has keys.
SavedPassword ==
  /\ pc = "password"
  /\ store = "saved"
  /\ OpenStore
  /\ methods' = methods \o Password("store")
  /\ pc' = "done"
  /\ UNCHANGED <<machine, listed, signers>>

HasKeyFile == Range(signers) \cap KeyFiles # {}

NoSavedPassword ==
  /\ pc = "password"
  /\ store # "saved"
  /\ OpenStore
  /\ pc' = IF command = "login" /\ ~HasKeyFile THEN "prompt" ELSE "done"
  /\ UNCHANGED <<machine, listed, signers, methods>>

PromptPassword ==
  /\ pc = "prompt"
  /\ prompted' = prompted \cup {"password"}
  /\ \/ methods' = methods \o Password("typed") /\ pc' = "done"
     \/ UNCHANGED methods /\ pc' = "failed"
  /\ UNCHANGED <<machine, listed, signers>>

Terminating == pc \in {"done", "failed"} /\ UNCHANGED vars

Next ==
  \/ ListMethods \/ AgentSigners \/ KeySigners
  \/ SavedPassword \/ NoSavedPassword \/ PromptPassword \/ Terminating

Spec == Init /\ [][Next]_vars

-----------------------------------------------------------------------------
Sources == KeyFiles \cup {"agent", "store", "typed"}
Method == [name : {"publickey", "password"}, from : Seq(Sources)]

TypeOK ==
  /\ pc \in {"info", "agent", "keys", "password", "prompt", "done", "failed"}
  /\ listed \subseteq Sources
  /\ signers \in Seq(Sources)
  /\ methods \in Seq(Method)
  /\ prompted \subseteq Sources \cup {"password", "master"}

Offered == UNION {Range(methods[n].from) : n \in DOMAIN methods}

(***************************************************************************)
(* info leaves out nothing that a connection would offer by itself, though *)
(* it looks at files and not into them: an agent key, the IdentityFile or  *)
(* the store is listed, and for default keys there is one default key.     *)
(***************************************************************************)
OfferedIsListed ==
  pc = "done" =>
    /\ Offered \ ({"typed"} \cup Range(DefaultKeys)) \subseteq listed
    /\ Offered \cap Range(DefaultKeys) # {} => listed \cap Range(DefaultKeys) # {}

(***************************************************************************)
(* The SSH library tries each method name once: were the keys of the agent *)
(* and of files, or two passwords, offered as two methods of one name, the *)
(* second would never be tried.                                            *)
(***************************************************************************)
OneMethodPerName ==
  \A m, n \in DOMAIN methods : methods[m].name = methods[n].name => m = n

\* What a hop can be offered without anybody's answer, once the store is open.
UsableKeys ==
  {k \in Range(Candidates) : disk[k] = "plain"} \cup {"agent" : a \in {agent} \cap {"keys"}}
Usable == UsableKeys \cup {"store" : s \in {store} \cap {"saved"}}

\* What somebody was asked for: a passphrase gives its key, and a password itself.
Answers == (prompted \cap KeyFiles) \cup {"typed" : p \in prompted \cap {"password"}}

(***************************************************************************)
(* Keys and passwords never suppress each other: whatever a hop can use is *)
(* offered, the saved password of a hop that has keys included.  What else *)
(* is offered was asked for, and never by exec, which may ask for nothing  *)
(* but the master password: it offers what can be used, and no more.       *)
(***************************************************************************)
NothingIsHeldBack ==
  pc = "done" =>
    /\ Usable \subseteq Offered
    /\ Offered \subseteq Usable \cup Answers
    /\ command = "exec" => Offered = Usable /\ prompted \subseteq {"master"}

-----------------------------------------------------------------------------
(***************************************************************************)
(* The inductive invariant behind OneMethodPerName: until a password is    *)
(* found there are at most the public keys.                                *)
(***************************************************************************)
MethodsTracked ==
  /\ pc \in {"info", "agent", "keys"} => methods = <<>>
  /\ pc \in {"password", "prompt"} => methods = PublicKeys(signers)

IInv == MethodsTracked /\ OneMethodPerName

(***************************************************************************)
(* The one behind OfferedIsListed: what was listed is what the machine     *)
(* holds, a signer is an agent's key or a key file that is there, and a    *)
(* method is made of signers or of one password.                           *)
(***************************************************************************)
There ==
  {k \in Range(Candidates) : disk[k] # "missing"} \cup {"agent" : a \in {agent} \cap {"keys"}}

ListingTracked == pc # "info" => listed = Listing
SignersTracked == Range(signers) \subseteq There
SourcesTracked ==
  \A n \in DOMAIN methods :
    \/ Range(methods[n].from) \subseteq There
    \/ methods[n].from = <<"store">> /\ store = "saved"
    \/ methods[n].from = <<"typed">>

SourceInv == ListingTracked /\ SignersTracked /\ SourcesTracked

(***************************************************************************)
(* And the one behind NothingIsHeldBack: the signers are all the keys that *)
(* can be used, and otherwise keys that were asked for; only a login comes *)
(* to the prompt, and only without a saved password.                       *)
(***************************************************************************)
SignersHeld ==
  /\ pc = "keys" => Range(signers) = UsableKeys \cap {"agent"}
  /\ pc \in {"password", "prompt"} =>
       UsableKeys \subseteq Range(signers) /\ Range(signers) \subseteq UsableKeys \cup Answers
AskedTracked ==
  /\ pc = "prompt" => command = "login" /\ store # "saved"
  /\ command = "exec" => prompted \subseteq {"master"}

HeldInv == SignersHeld /\ AskedTracked /\ NothingIsHeldBack
=============================================================================
