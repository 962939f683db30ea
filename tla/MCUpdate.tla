------------------------------ MODULE MCUpdate ------------------------------
(***************************************************************************)
(* Update for TLC: releases whose tags have two or three parts, equal ones *)
(* among them, and pre-releases of two of them.                            *)
(***************************************************************************)
EXTENDS Update

Release(core) == [core |-> core, pre |-> 0]
Candidate(core, n) == [core |-> core, pre |-> n]

AllReleases ==
  {Release(<<1, 0>>), Release(<<1, 0, 0>>), Release(<<1, 0, 1>>), Release(<<1, 1>>),
   Release(<<2>>),
   Candidate(<<1, 0, 0>>, 1), Candidate(<<1, 0, 0>>, 2), Candidate(<<1, 1>>, 1)}
AllBuilds == {Dev, Release(<<0, 9, 9>>)} \cup AllReleases
=============================================================================
