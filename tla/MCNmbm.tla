------------------------------- MODULE MCNmbm -------------------------------
(***************************************************************************)
(* Values for the constants of Nmbm.                                       *)
(***************************************************************************)
EXTENDS Nmbm

EveryBlock == 0 .. BlockCount - 1

\* "check" is an I/O error while a bad mark is read: it makes the layer give up
\* a block that stays readable.
AnyFailure    == {"check", "erase", "program", "mark"}
WriteFailure  == {"erase", "program"}
=============================================================================
