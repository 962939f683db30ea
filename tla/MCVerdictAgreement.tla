------------------------- MODULE MCVerdictAgreement -------------------------
(***************************************************************************)
(* VerdictAgreement for TLC, over the files of MCHosts: the ones whose     *)
(* aliases are unique (AllFiles), and the ones in which two hosts share    *)
(* the alias "x" (Shared).                                                 *)
(***************************************************************************)
EXTENDS VerdictAgreement, MCHosts
=============================================================================
