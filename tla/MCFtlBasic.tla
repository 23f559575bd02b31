----------------------------- MODULE MCFtlBasic -----------------------------
(***************************************************************************)
(* Values for the constants of FtlBasic.                                   *)
(***************************************************************************)
EXTENDS FtlBasic

EveryFailure == {"program", "erase", "mark", "check", "read"}

\* The requests of one kind, spreading or not as spread says.
Requests(op, p, n, spread, tool) ==
    [op : {op}, page : {p}, count : {n}, spread : spread, tool : {tool}]

\* What changes the marks or the table between the commands.
Maintenance ==
    Requests("markbad", 1, 0, {FALSE}, FALSE) \cup Requests("reprobe", 0, 0, BOOLEAN, FALSE)

\* The commands of ufsnandprog on a partition.
SpreadCommands ==
    Requests("write", 1, 3, {TRUE}, TRUE) \cup Requests("erase", 0, 4, {TRUE}, TRUE)
      \cup Requests("read", 1, 3, {FALSE}, TRUE) \cup Requests("verify", 1, 3, {FALSE}, TRUE)
      \cup Maintenance

\* Callers of the library and of the tool, spreading or not; one names a page
\* behind the partition.
EveryCaller ==
    Requests("write", 1, 4, {FALSE}, FALSE) \cup Requests("write", 10, 1, {FALSE}, FALSE)
      \cup Requests("write", 2, 3, BOOLEAN, TRUE) \cup Requests("erase", 4, 4, {TRUE}, TRUE)
      \cup Requests("read", 2, 2, {FALSE}, TRUE)
      \cup Requests("reprobe", 0, 0, {FALSE}, FALSE)
=============================================================================
