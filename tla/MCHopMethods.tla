---------------------------- MODULE MCHopMethods ----------------------------
(***************************************************************************)
(* HopMethods for TLC: two of the default keys, on every machine there is. *)
(***************************************************************************)
EXTENDS HopMethods

MCDefaultKeys == <<"id_rsa", "id_ed25519">>
=============================================================================
