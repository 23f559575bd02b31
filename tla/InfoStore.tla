----------------------------- MODULE InfoStore -----------------------------
(***************************************************************************)
(* What the info tables of NMBM promise (flash/nand/ftl/nmbm/nmbm-core.c): *)
(* the block mapping survives.  Whatever fails on the chip and whenever    *)
(* the power is cut, the next attach finds the last mapping that was saved *)
(* or one that was being saved.  It may be lost only while one table is    *)
(* left, because a lone table is rewritten in place.                       *)
(***************************************************************************)
CONSTANTS Keys,     \* the logic blocks
          Values,   \* what they may be mapped to
          None      \* no mapping: the device is off

VARIABLES ram,      \* the mapping an attached device works with
          disk,     \* the mappings the next attach may find; none: no tables
          redundant \* there are two tables

vars == <<ram, disk, redundant>>

TypeOK == /\ ram \in [Keys -> Values] \cup {None}
          /\ disk \subseteq [Keys -> Values]
          /\ redundant \in BOOLEAN

Init == ram = None /\ disk = {} /\ redundant = FALSE

\* A chip without tables gets an initial mapping.
Format == ram = None /\ disk = {} /\ ram' \in [Keys -> Values] /\ disk' = {}

Boot == ram = None /\ ram' \in disk /\ disk' = {ram'}

\* A logic block gets another physical block, or none.
Edit == /\ ram # None
        /\ \E k \in Keys, v \in Values : ram' = [ram EXCEPT ![k] = v]
        /\ disk' = IF disk = {} THEN {} ELSE disk \cup {ram'}

Save == ram # None /\ disk' = {ram} /\ ram' = ram

Lose == ram # None /\ ~redundant /\ disk' = {} /\ ram' = ram

Off == /\ ram' = None
       /\ disk' = disk \/ (ram # None /\ ~redundant /\ disk' = {})

Next == Format \/ Boot \/ Edit \/ Save \/ Lose \/ Off \/ UNCHANGED <<ram, disk>>

Spec == Init /\ [][Next]_vars
=============================================================================
