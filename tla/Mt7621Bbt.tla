---- MODULE Mt7621Bbt ----
(***************************************************************************)
(* src/flash/nand/bbt/mt7621-bbt/mt7621-bbt.c: the bad block table that    *)
(* MT7621 firmware keeps in the last blocks of the chip, as ufsnandprog    *)
(* uses it through the basic FTL.  create_instance loads the table and     *)
(* scans the marks, markbad changes both, the exit path of the tool        *)
(* commits.  The table fits in one page, and the only states of a block    *)
(* are good and bad, so that the bitmap is the set of the bad blocks.  The *)
(* power may be cut, or the tool killed, between any two steps.            *)
(***************************************************************************)
EXTENDS Integers, FiniteSets, FiniteSetsExt

CONSTANTS
    NBlocks,    \* block_count
    TableNum,   \* FACT_BBT_BLOCK_NUM
    MaxMarks,   \* bound on the marked blocks
    MaxFaults   \* bound on the failing flash operations

ASSUME BbtAssumption ==
    /\ TableNum \in Nat \ {0}
    /\ NBlocks \in Nat /\ NBlocks > TableNum
    /\ MaxMarks \in Nat /\ MaxFaults \in Nat

Blocks == 0 .. NBlocks - 1

(* The blocks both loops visit, from the last one down: one less than the   *)
(* number of blocks set aside for the table.                                *)
Window == {b \in Blocks : b > NBlocks - TableNum}

VARIABLES
    marks,      \* blocks with a bad mark on the chip
    flash,      \* what each block holds
    ram,        \* the bad blocks of the bitmap
    bbt_block,  \* the block of the table, 0 for none
    read_only,  \* BBT_F_READ_ONLY
    changed,
    pc,         \* the call in progress
    cursor,     \* block of the loop of save
    then,       \* where save returns to
    faults,     \* failures so far
    clean,      \* the last process ended by itself
    found,      \* this process has found a table
    disabled    \* this process has logged "BBT auto writeback disabled"

table == <<ram, bbt_block, read_only, changed>>
history == <<clean, found, disabled>>
vars == <<marks, flash, ram, bbt_block, read_only, changed, pc, cursor, then, faults, clean, found, disabled>>

Table(bad) == [kind |-> "table", bad |-> bad]
Other(kind) == [kind |-> kind, bad |-> {}]
Readable == {b \in Window : b \notin marks /\ flash[b].kind = "table"}

Init ==
    /\ marks \in {m \in SUBSET Blocks : Cardinality(m) <= 1}
    /\ flash \in {[b \in Blocks |-> IF b \in home THEN Table(marks) ELSE Other("free")] :
                     home \in {{}} \cup {{b} : b \in Window \ marks}}
    /\ ram = {} /\ bbt_block = 0 /\ read_only = TRUE /\ changed = FALSE
    /\ pc = "off" /\ cursor = 0 /\ then = "ready"
    /\ faults = 0
    /\ clean = TRUE /\ found = FALSE /\ disabled = FALSE

Fault == faults < MaxFaults /\ faults' = faults + 1

(* The calls that only change the RAM copy leave the chip alone. *)
SameChip == UNCHANGED <<marks, flash>>

(* mt7621_nand_bbt_load: the first table from the end that can be read. *)
Take(b) == ram' = flash[b].bad /\ bbt_block' = b /\ read_only' = FALSE
TakeNone == ram' = {} /\ bbt_block' = 0 /\ read_only' = TRUE

Load ==
    /\ pc = "off"
    /\ \E lost \in SUBSET Readable :
          /\ IF lost = {} THEN UNCHANGED faults ELSE Fault
          /\ LET left == Readable \ lost
             IN IF left = {} THEN TakeNone ELSE Take(Max(left))
          /\ found' = (Readable \ lost # {})
    /\ changed' = FALSE
    /\ pc' = "scan"
    /\ clean' = FALSE /\ disabled' = FALSE
    /\ UNCHANGED <<marks, flash, cursor, then>>

(* mt7621_nand_bbt_save begins with the block of the table, or with the last. *)
Save(ret) ==
    /\ pc' = "erase" /\ then' = ret
    /\ bbt_block' = (IF bbt_block = 0 THEN NBlocks - 1 ELSE bbt_block)
    /\ cursor' = bbt_block'

\* Mutant: the marks found are added to the table that was loaded.
RescanAdds ==
    /\ pc = "scan"
    /\ ram' = ram
    /\ changed' = (changed \/ ram # marks)
    /\ pc' = "ready"
    /\ UNCHANGED <<bbt_block, cursor, then, faults, marks, flash, read_only, history>>

(* mt7621_nand_bbt_rescan and the rest of reprobe: every state comes from   *)
(* the mark on the chip; a block that cannot be read ends the process.      *)
Rescan ==
    /\ pc = "scan"
    /\ \/ /\ ram' = marks
          /\ changed' = (changed \/ ram # marks)
          /\ IF ~read_only /\ changed' THEN Save("ready")
             ELSE pc' = "ready" /\ UNCHANGED <<bbt_block, cursor, then>>
          /\ UNCHANGED faults
       \/ Fault /\ pc' = "off" /\ UNCHANGED <<ram, changed, bbt_block, cursor, then>>
    /\ SameChip
    /\ UNCHANGED <<read_only, history>>

(* mt7621_nand_bbt_write: a bad block is passed over, so is one that fails. *)
NextBlock == cursor' = cursor - 1 /\ pc' = "erase"

Finish(to) == pc' = to /\ clean' = (to = "off")

SaveErase ==
    /\ pc = "erase" /\ cursor \in Window
    /\ \/ cursor \in marks /\ NextBlock /\ UNCHANGED <<flash, faults>>
       \/ /\ cursor \notin marks /\ Fault /\ NextBlock
          /\ flash' \in {flash, [flash EXCEPT ![cursor] = Other("free")]}
       \/ /\ cursor \notin marks
          /\ flash' = [flash EXCEPT ![cursor] = Other("free")]
          /\ pc' = "write"
          /\ UNCHANGED <<faults, cursor>>
    /\ UNCHANGED <<marks, table, then, history>>

\* Mutant: the block that took the table is not remembered.
WriteForgets ==
    /\ pc = "write"
    /\ flash' = [flash EXCEPT ![cursor] = Table(ram)]
    /\ changed' = FALSE
    /\ Finish(then)
    /\ UNCHANGED <<marks, ram, bbt_block, read_only, cursor, then, faults, found, disabled>>

SaveWrite ==
    /\ pc = "write"
    /\ \/ /\ flash' = [flash EXCEPT ![cursor] = Table(ram)]
          /\ bbt_block' = cursor
          /\ changed' = FALSE
          /\ Finish(then)
          /\ UNCHANGED <<faults, cursor>>
       \/ /\ Fault /\ NextBlock
          /\ \E left \in {Table(ram), Other("torn"), Other("free")} :
                flash' = [flash EXCEPT ![cursor] = left]
          /\ UNCHANGED <<bbt_block, changed, clean>>
    /\ UNCHANGED <<marks, ram, read_only, then, found, disabled>>

SaveFails ==
    /\ pc = "erase" /\ cursor \notin Window
    /\ pc' = then
    /\ UNCHANGED <<marks, flash, table, cursor, then, faults, history>>

\* Mutant: the block of the table is not reserved.
never_reserved(block) == FALSE

is_reserved(block) == bbt_block # 0 /\ block = bbt_block

(* The basic FTL writes to good blocks that are not reserved. *)
FtlWrite ==
    /\ pc = "ready"
    /\ \E b \in Blocks \ ram : ~is_reserved(b) /\ flash' = [flash EXCEPT ![b] = Other("data")]
    /\ UNCHANGED <<marks, table, pc, cursor, then, faults, history>>

\* Mutant: changed is set only when the block is that of the table.
SetBadUnnoticed(block) ==
    /\ ram' = ram \cup {block}
    /\ changed' = (changed \/ block = bbt_block)
    /\ IF bbt_block # 0 /\ bbt_block = block
       THEN bbt_block' = 0 /\ read_only' = TRUE /\ disabled' = TRUE
       ELSE UNCHANGED <<bbt_block, read_only, disabled>>

(* set_state to bad.  ERASED comes only for good blocks that are not        *)
(* reserved, and changes nothing.                                           *)
SetBad(block) ==
    /\ ram' = ram \cup {block}
    /\ changed' = (changed \/ block \notin ram)
    /\ IF bbt_block # 0 /\ bbt_block = block
       THEN bbt_block' = 0 /\ read_only' = TRUE /\ disabled' = TRUE
       ELSE UNCHANGED <<bbt_block, read_only, disabled>>

(* ftl_basic_block_markbad asks for no reserved block. *)
MarkBad ==
    /\ pc = "ready" /\ Cardinality(marks) < MaxMarks
    /\ \E b \in Blocks :
          \/ marks' = marks \cup {b} /\ SetBad(b) /\ UNCHANGED faults
          \/ /\ Fault /\ marks' \in {marks, marks \cup {b}}
             /\ UNCHANGED <<ram, bbt_block, read_only, changed, disabled>>
    /\ UNCHANGED <<flash, pc, cursor, then, clean, found>>

(* The exit path of ufsnandprog clears BBT_F_READ_ONLY and commits. *)
Exit ==
    /\ pc = "ready"
    /\ read_only' = FALSE
    /\ IF changed THEN Save("off") /\ UNCHANGED clean
       ELSE Finish("off") /\ UNCHANGED <<bbt_block, cursor, then>>
    /\ SameChip
    /\ UNCHANGED <<ram, changed, faults, found, disabled>>

Crash ==
    /\ pc # "off"
    /\ pc' = "off"
    /\ UNCHANGED <<marks, flash, table, cursor, then, faults, history>>

Saving == SaveErase \/ SaveWrite \/ SaveFails
Next == Load \/ Rescan \/ Saving \/ FtlWrite \/ MarkBad \/ Exit \/ Crash

Spec == Init /\ [][Next]_vars

(* Every variable holds a value of its kind. *)
TypeOK ==
    /\ marks \subseteq Blocks /\ ram \subseteq Blocks
    /\ flash \in [Blocks -> [kind : {"free", "data", "torn", "table"}, bad : SUBSET Blocks]]
    /\ bbt_block \in Blocks /\ cursor \in Blocks
    /\ read_only \in BOOLEAN /\ changed \in BOOLEAN
    /\ pc \in {"off", "scan", "ready", "erase", "write"} /\ then \in {"ready", "off"}
    /\ faults \in 0 .. MaxFaults
    /\ clean \in BOOLEAN /\ found \in BOOLEAN /\ disabled \in BOOLEAN

(* When nothing is left to be saved, the block said to hold the table holds *)
(* the bitmap, whatever failed and wherever save had to move it.            *)
TableFollows ==
    (pc = "ready" /\ ~changed /\ bbt_block # 0) => flash[bbt_block] = Table(ram)

(* A block is bad in the bitmap only when it is marked on the chip, and as   *)
(* long as nothing fails every marked block is: neither an old table nor a  *)
(* half finished markbad is believed.                                       *)
RamIsTrue ==
    pc \in {"ready", "erase", "write"} => ram \subseteq marks /\ (faults = 0 => ram = marks)

(* After a process that ended by itself, the table a boot loader finds      *)
(* first, if there is one, tells the truth about every block, also when     *)
(* earlier processes were killed in the middle of a save.                   *)
FirmwareReadsTruth ==
    (pc = "off" /\ clean /\ faults = 0 /\ Readable # {}) => flash[Max(Readable)] = Table(marks)

(* As long as a table was found, its block was not marked bad and nothing   *)
(* fails, no save takes a block that holds data of the FTL.                 *)
SaveSparesData ==
    [][\A b \in Blocks :
          (flash[b].kind = "data" /\ flash'[b].kind # "data") => ~found \/ disabled \/ faults' > 0]_vars

====
