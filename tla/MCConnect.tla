----------------------------- MODULE MCConnect -----------------------------
(***************************************************************************)
(* Connect for TLC: routes of one to MCMaxHosts hosts.  Three hosts give   *)
(* an outermost hop, a hop reached through a tunnel, and the target.       *)
(***************************************************************************)
EXTENDS Connect

MCMaxHosts == 3
=============================================================================
