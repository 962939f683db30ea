------------------------------ MODULE MCHosts ------------------------------
(***************************************************************************)
(* Strings and metadata files for TLC: three hosts "a", "b", "c", an alias *)
(* "x", a name nobody has ("z"), and one spelling of each kind a value may *)
(* have.  " b" is "b" with the spaces a hand-edited file may hold.         *)
(***************************************************************************)
EXTENDS Hosts

MCDirectAddress == {"u@h", "::1", "ssh://a"}
MCManyColons == {"::1"}
MCForeign == {"ssh://a", "a,b"}
MCStr ==
  {"", "none", "22", "root", "imported", "direct", "manual",
   "a", "b", " b", "c", "x", "z", "h", "u", "//a", "ssh", "a,b"} \cup MCDirectAddress
MCTrimSpace == [s \in MCStr |-> IF s = " b" THEN "b" ELSE s]
MCParseDirectAddress ==
  [s \in MCStr |->
     IF s = "u@h" THEN [user |-> "u", hostname |-> "h", port |-> ""]
     ELSE IF s = "ssh://a" THEN [user |-> "", hostname |-> "ssh", port |-> "//a"]
     ELSE [user |-> "", hostname |-> s, port |-> ""]]

Entry(alias, hostname, jump) ==
  [NoMeta EXCEPT !.alias = alias, !.hostname = hostname, !.proxyJump = jump]

\* A file that holds the entries of f, one that does not mention a host being
\* written with Absent.
Absent == Entry("absent", "", "")
Present(f) == [n \in {m \in DOMAIN f : f[m] # Absent} |-> f[n]]
Files(A, B, C) ==
  {[ok |-> TRUE, hosts |-> Present([a |-> a, b |-> b, c |-> c])] :
     a \in A \cup {Absent}, b \in B \cup {Absent}, c \in C \cup {Absent}}
  \cup {[ok |-> FALSE, hosts |-> NoHosts]}

Jumps == {"", "none", "a", " b", "c", "x", "z", "u@h", "::1", "ssh://a"}
Jumping(alias, jumps) == {Entry(alias, "h", j) : j \in jumps}

\* Every kind of value, broken links, an alias, an alias another name hides.
AllFiles ==
  Files(Jumping("", Jumps),
        Jumping("", Jumps),
        {Entry("x", "", "")} \cup
        UNION {Jumping(alias, {"", "a", " b", "x", "::1"}) : alias \in {"", "x", "a"}})

\* Every shape of jump graph over three hosts, to be rewritten at any time, a
\* value of a kind that is not supported, and an alias that is also a name.
Shapes ==
  Files(Jumping("", {"", "a", "b", "c"}),
        Jumping("", {"", "a", "c"}),
        Jumping("", {"", "a", "b", "ssh://a"}) \cup Jumping("a", {""}))

\* Two hosts that share an alias.
Shared ==
  Files(Jumping("x", {"", "b"}), Jumping("x", {"", "a"}), Jumping("", {"", "x"}))

Typed == {"a", "x", "z", "u@h", "::1"}
Names == {"a", "b", "c"}
NamesAndAlias == {"a", "c", "x", ""}

\* The answer is a function of the file only where aliases are unique, and every
\* Host can be addressed by its name only where no name reads as an address.  The
\* empty name is nobody's, and is left to BareNameIsDeclared.
ASSUME MCPlainFiles ==
  /\ \A c \in AllFiles \cup Shapes : UniqueAliases(c.hosts) /\ NamesAreBare(c.hosts)
  /\ "" \notin Typed
=============================================================================
