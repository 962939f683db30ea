----------------------------- MODULE MCMetaFile -----------------------------
(***************************************************************************)
(* MetaFile for TLC: hosts "a" (imported), "b" (made by hand) and "c" (not *)
(* there), in a file that persists provenance, in an older one that does   *)
(* not, and in none; commands of every kind, the rejected ones included.   *)
(***************************************************************************)
EXTENDS MetaFile, MCHosts, TLC

Two == {"first", "second"}

Cmd(op, host, key, value) == [op |-> op, host |-> host, key |-> key, value |-> value]

Edits ==
  {Cmd("set", "a", "notes", "x"), Cmd("set", "b", "hostname", "h"),
   Cmd("set", "c", "alias", "x"), Cmd("unset", "a", "hostname", ""),
   Cmd("unset", "a", "", ""), Cmd("import", "", "", "")}
Refused ==
  {Cmd("set", "a", "source", "x"), Cmd("unset", "a", "source", ""),
   Cmd("unset", "z", "notes", "")}
AllCommands == Edits \cup Refused

DetailsOf(hostname, jump) ==
  [d \in Details |->
     IF d = "hostname" THEN hostname ELSE IF d = "proxyJump" THEN jump ELSE ""]

MCPatterns == {"z"}
MCSshConfigs ==
  {("a" :> DetailsOf("u", "") @@ "z" :> DetailsOf("h", "")),
   ("b" :> DetailsOf("", "a") @@ "c" :> DetailsOf("h", "b"))}

Imported1 == [NoMeta EXCEPT !.alias = "x", !.hostname = "h"]
Manual1 == [NoMeta EXCEPT !.notes = "none"]
Persisted ==
  Doc("a" :> [Imported1 EXCEPT !.source = "imported"] @@
      "b" :> [Manual1 EXCEPT !.source = "manual"])
Legacy == Doc("a" :> Imported1 @@ "b" :> Manual1)
MCStart == {NoFile, Persisted, Legacy}
=============================================================================
