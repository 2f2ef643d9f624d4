--------------------------- MODULE MCAccountTokens ---------------------------
(* Two accounts and a CLI that runs with the first of them. *)
EXTENDS AccountTokens
=============================================================================
