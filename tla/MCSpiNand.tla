----------------------------- MODULE MCSpiNand -----------------------------
(***************************************************************************)
(* SpiNand for TLC; the configuration gives all constants.                 *)
(***************************************************************************)
EXTENDS SpiNand
=============================================================================
