----------------------------- MODULE MCNmbmStore -----------------------------
(***************************************************************************)
(* Values for the constants of NmbmStore.                                  *)
(***************************************************************************)
EXTENDS NmbmStore

EveryBlock   == 0 .. BlockCount - 1
WriteFailure == {"erase", "program"}
AnyFailure   == {"check", "erase", "program", "mark"}
=============================================================================
