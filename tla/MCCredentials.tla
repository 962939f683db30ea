---------------------------- MODULE MCCredentials ----------------------------
(***************************************************************************)
(* Credentials for TLC: the Hosts "jump" (at "ten") and "db" (at "eleven", *)
(* alias "main"), reached through one another, with one master password    *)
(* that is right and one that is not.                                      *)
(***************************************************************************)
EXTENDS Credentials, TLC

One == {"first"}
Two == {"first", "second"}

MCSudoKey(name) == name \o "/sudo"
MCNames == {"jump", "ten", "db", "main", "eleven"}
MCMasters == {"right", "other"}

HopOf(keys, signs) == [keys |-> keys, signs |-> signs]
JumpHop == HopOf(<<"jump", "ten">>, FALSE)
DbHop == HopOf(<<"db", "eleven">>, FALSE)
MainHop == HopOf(<<"main", "db", "eleven">>, FALSE)

Cmd(op, hops, sudo) == [op |-> op, hops |-> hops, sudo |-> sudo]
Logins ==
  {Cmd("login", <<JumpHop, MainHop>>, FALSE),
   Cmd("login", <<HopOf(<<"jump", "ten">>, TRUE)>>, FALSE)}
Execs == {Cmd("exec", <<JumpHop, DbHop>>, FALSE), Cmd("exec", <<DbHop>>, TRUE)}
Sets == {Cmd("set", <<HopOf(<<"db">>, FALSE)>>, sudo) : sudo \in BOOLEAN}
AllCommands == Logins \cup Execs \cup Sets

SavedAtStart(about, name) ==
  Encrypted([about |-> about, name |-> name, by |-> "start"],
            [salt |-> "start", master |-> "right"])
Stored ==
  Doc("start", "jump" :> SavedAtStart("ssh", "jump") @@
               "main/sudo" :> SavedAtStart("sudo", "main") @@
               "eleven" :> SavedAtStart("ssh", "eleven"))
MCStart == {NoFile, Stored}

\* The names are such that Vault is implemented.
ASSUME MCNamesAreNotSudoKeys == NamesAreNotSudoKeys
=============================================================================
