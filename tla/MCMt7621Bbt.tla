---------------------------- MODULE MCMt7621Bbt ----------------------------
(***************************************************************************)
(* Mt7621Bbt for TLC; the configuration gives all constants.               *)
(***************************************************************************)
EXTENDS Mt7621Bbt
=============================================================================
