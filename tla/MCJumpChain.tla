---------------------------- MODULE MCJumpChain ----------------------------
(***************************************************************************)
(* JumpChain for TLC, over the strings and the files of MCHosts.           *)
(***************************************************************************)
EXTENDS JumpChain, MCHosts
=============================================================================
