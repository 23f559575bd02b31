-------------------------------- MODULE Nmbm --------------------------------
(***************************************************************************)
(* NMBM, the NAND Mapped-block Management layer                            *)
(* (flash/nand/ftl/nmbm/nmbm-core.c): it hides the bad blocks of a NAND    *)
(* chip by mapping logic blocks to physical ones.  The mapping and the     *)
(* state of every block live in RAM and in an info table that is kept      *)
(* twice in a management area at the end of the chip:                      *)
(*                                                                         *)
(*   0 .. MgmtStart-1      data blocks                                     *)
(*   main                  main info table                                 *)
(*     ...                 spare blocks for the main table                 *)
(*   backup                backup info table                               *)
(*   mapBase .. mapTop     spare blocks, handed out from mapTop downwards  *)
(*   sigBlock              signature                                       *)
(*                                                                         *)
(* One action is one operation on the chip (an erase, a page program of a  *)
(* whole block, a bad mark) or one decision taken between two of them, so  *)
(* the power may be cut between, or in the middle of, any two.  "pc" is    *)
(* the C function being run, "w" the locals of a nmbm_write_mgmt_range or  *)
(* nmbm_erase_range call and "after" where nmbm_update_info_table returns. *)
(*                                                                         *)
(* An info table takes one block: size2blk(info_table_size) is 1 for every *)
(* chip whose erase block is at least 64 KiB.                              *)
(***************************************************************************)
EXTENDS Integers, FiniteSets

CONSTANTS
    BlockCount,     \* ni->block_count
    MgmtStart,      \* ni->mgmt_start_ba, and the number of logic blocks
    SpareBlocks,    \* ni->info_table_spare_blocks
    FactoryBad,     \* blocks that carry a bad mark when the chip is new
    WeakBlocks,     \* blocks on which an operation may fail
    FaultKinds,     \* the operations that may fail
    ForcedCreate,   \* NMBM_F_CREATE is still given once the chip is in use
    MaxFaults,      \* bound: failing chip operations in one behaviour
    MaxRestarts     \* bound: detaches and power cuts in one behaviour

ASSUME GeometryAssumption ==
    /\ BlockCount \in Nat /\ MgmtStart \in Nat /\ SpareBlocks \in Nat
    /\ 0 < MgmtStart /\ MgmtStart < BlockCount

ASSUME EnvironmentAssumption ==
    /\ FactoryBad \subseteq 0 .. BlockCount - 1
    /\ WeakBlocks \subseteq 0 .. BlockCount - 1
    /\ FaultKinds \subseteq {"check", "erase", "program", "mark"}
    /\ ForcedCreate \in BOOLEAN
    /\ MaxFaults \in Nat /\ MaxRestarts \in Nat

VARIABLES
    \* the chip
    content,        \* what a read of a block returns
    marker,         \* the blocks whose bad mark is set
    \* struct nmbm_instance
    state,          \* block_state: "bad", "remap" (NEED_REMAP) or "good"
    mapping,        \* block_mapping
    changed,        \* block_state_changed || block_mapping_changed
    writeCount,     \* info_table.write_count
    cache,          \* info_table_cache, the table that will be written
    main, backup,   \* main_table_ba, backup_table_ba
    mapBase, mapTop,    \* mapping_blocks_ba, mapping_blocks_top_ba
    sigBlock,       \* signature_ba
    dataCount,      \* data_block_count
    protected,
    \* control
    pc, w, after, lb,
    res,            \* what the last call returned
    \* the environment
    born,           \* an attach has succeeded on this chip
    faults, restarts

chip   == <<content, marker>>
table  == <<state, mapping, changed, writeCount, cache>>
layout == <<main, backup, mapBase, mapTop, sigBlock, dataCount, protected>>
env    == <<born, faults, restarts>>
vars   == <<content, marker, state, mapping, changed, writeCount, cache, main,
            backup, mapBase, mapTop, sigBlock, dataCount, protected, pc, w,
            after, lb, res, born, faults, restarts>>

-----------------------------------------------------------------------------
(* Data *)

Blocks   == 0 .. BlockCount - 1
Logical  == 0 .. MgmtStart - 1
Unmapped == -1
NoBlock  == 0       \* "no such table": block 0 is never in the management area

States   == {"bad", "remap", "good"}
Mappings == [Logical -> Blocks \cup {Unmapped}]
Images   == [count : Nat, state : [Blocks -> States], mapping : Mappings]

Blank     == [kind |-> "blank"]
Torn      == [kind |-> "torn"]      \* unreadable: an ECC error
Signature == [kind |-> "signature"]
DataOf(l) == [kind |-> "data", owner |-> l]
TableOf(image) == [kind |-> "table", image |-> image]

Contents == {Blank, Torn, Signature} \cup {DataOf(l) : l \in Logical}
              \cup [kind : {"table"}, image : Images]

NoImage == [count   |-> 0,
            state   |-> [b \in Blocks |-> "good"],
            mapping |-> [l \in Logical |-> Unmapped]]
Idle    == [from |-> 0, ba |-> 0, limit |-> 0, ret |-> "none"]

Good(st, from, to) == {b \in from .. to : b \in Blocks /\ st[b] = "good"}

\* b is the element of S with k elements of S below it.
IsNth(b, S, k) == b \in S /\ Cardinality({x \in S : x < b}) = k

Least(a, b) == IF a < b THEN a ELSE b

-----------------------------------------------------------------------------
(* The chip: every operation is already the outcome of NMBM_TRY_COUNT      *)
(* attempts.                                                               *)

Fails(operation, b) ==
    /\ operation \in FaultKinds /\ b \in WeakBlocks /\ faults < MaxFaults
    /\ faults' = faults + 1

EraseOk(b) ==
    /\ content' = [content EXCEPT ![b] = Blank]
    /\ UNCHANGED <<marker, faults>>

\* A failed erase leaves the old content or an unreadable block.
EraseFails(b) ==
    /\ Fails("erase", b)
    /\ content' \in {content, [content EXCEPT ![b] = Torn]}
    /\ UNCHANGED marker

ProgramOk(b, data) ==
    /\ content' = [content EXCEPT ![b] = data]
    /\ UNCHANGED <<marker, faults>>

\* The write fails, or the verification of complete data does.
ProgramFails(b, data) ==
    /\ Fails("program", b)
    /\ content' \in {[content EXCEPT ![b] = data], [content EXCEPT ![b] = Torn]}
    /\ UNCHANGED marker

\* Nobody looks at the result of nmbm_mark_phys_bad_block.
MarkBad(b) ==
    \/ /\ marker' = marker \cup {b}
       /\ content' = [content EXCEPT ![b] = Torn]
       /\ UNCHANGED faults
    \/ Fails("mark", b) /\ UNCHANGED <<content, marker>>

\* The block check: an I/O error while reading the mark counts as a mark.
FoundBad(b) ==
    \/ b \in marker /\ UNCHANGED faults
    \/ b \notin marker /\ Fails("check", b)
FoundGood(b) == b \notin marker

-----------------------------------------------------------------------------
(* Steps shared by the operations *)

Goto(label) == pc' = label

SetState(b, st) ==
    /\ state' = [state EXCEPT ![b] = st]
    /\ changed' = (changed \/ state[b] # st)

\* A slip: the write count never moves.
SameCount == writeCount

\* nmbm_generate_info_table_cache
NextCount == IF changed THEN writeCount + 1 ELSE writeCount
\* A slip: the mapping table is not copied into the cache.
GenerateStates ==
    /\ writeCount' = NextCount
    /\ cache' = [count |-> NextCount, state |-> state, mapping |-> cache.mapping]

GenerateCache ==
    /\ writeCount' = NextCount
    /\ cache' = [count |-> NextCount, state |-> state, mapping |-> mapping]

\* Call nmbm_write_info_table; the write continues at TableWritten... or
\* ...Failed of the caller "ret".
WriteTable(ba, limit, ret) ==
    /\ w' = [from |-> ba, ba |-> ba, limit |-> limit, ret |-> ret]
    /\ Goto("table")

\* Call nmbm_erase_range.
CleanRange(ba, limit, ret) ==
    /\ w' = [from |-> ba, ba |-> ba, limit |-> limit, ret |-> ret]
    /\ Goto("clean")

\* nmbm_try_reserve_blocks(ba, SpareBlocks, 0, limit): skip SpareBlocks good
\* blocks, or as many as there are, and return the next one.
Reservable(ba) == Good(state, ba, mapTop - 2)
Reserved(ba, b) ==
    IsNth(b, Reservable(ba),
          Least(SpareBlocks, Cardinality(Reservable(ba)) - 1))

\* nmbm_update_info_table, then go on at label.
Update(label) == after' = label /\ Goto("update")

Call(result) == res' = result /\ Goto("idle") /\ w' = Idle

-----------------------------------------------------------------------------
(* nmbm_write_mgmt_range: write the cached table into the first block of   *)
(* w.ba .. w.limit-1 that takes it.                                        *)

InTable(label) == pc = label /\ UNCHANGED <<mapping, writeCount, cache, layout,
                                           after, lb, res, born, restarts>>
NextBlock == w' = [w EXCEPT !.ba = w.ba + 1]

\* A slip: a bad block is not stepped over.
TableSkipStays ==
    /\ InTable("table") /\ w.ba < w.limit /\ state[w.ba] # "good"
    /\ UNCHANGED <<chip, state, changed, pc, w, faults>>

TableSkip ==
    /\ InTable("table") /\ w.ba < w.limit /\ state[w.ba] # "good"
    /\ NextBlock
    /\ UNCHANGED <<chip, state, changed, pc, faults>>

TableFoundBad ==
    /\ InTable("table") /\ w.ba < w.limit /\ state[w.ba] = "good"
    /\ FoundBad(w.ba)
    /\ SetState(w.ba, "bad")
    /\ NextBlock
    /\ UNCHANGED <<chip, pc>>

TableErase ==
    /\ InTable("table") /\ w.ba < w.limit /\ state[w.ba] = "good"
    /\ FoundGood(w.ba)
    /\ \/ EraseOk(w.ba) /\ Goto("program")
       \/ EraseFails(w.ba) /\ Goto("tableMark")
    /\ UNCHANGED <<state, changed, w>>

TableProgram ==
    /\ InTable("program")
    /\ \/ ProgramOk(w.ba, TableOf(cache)) /\ Goto("written")
       \/ ProgramFails(w.ba, TableOf(cache)) /\ Goto("tableMark")
    /\ UNCHANGED <<state, changed, w>>

TableMark ==
    /\ InTable("tableMark")
    /\ MarkBad(w.ba)
    /\ SetState(w.ba, "bad")
    /\ NextBlock
    /\ Goto("table")

\* How the call ends, for the caller named ret.
Written(ret)   == pc = "written" /\ w.ret = ret
Exhausted(ret) == pc = "table" /\ w.ret = ret /\ w.ba >= w.limit
TableStart == w.ba
TableEnd == w.ba + 1

(* nmbm_erase_range *)

CleanSkip ==
    /\ InTable("clean") /\ w.ba < w.limit /\ state[w.ba] # "good"
    /\ NextBlock
    /\ UNCHANGED <<chip, state, changed, pc, faults>>

CleanFoundBad ==
    /\ InTable("clean") /\ w.ba < w.limit /\ state[w.ba] = "good"
    /\ FoundBad(w.ba)
    /\ SetState(w.ba, "bad")
    /\ NextBlock
    /\ UNCHANGED <<chip, pc>>

CleanErase ==
    /\ InTable("clean") /\ w.ba < w.limit /\ state[w.ba] = "good"
    /\ FoundGood(w.ba)
    /\ \/ EraseOk(w.ba) /\ NextBlock /\ UNCHANGED pc
       \/ EraseFails(w.ba) /\ Goto("cleanMark") /\ UNCHANGED w
    /\ UNCHANGED <<state, changed>>

CleanMark ==
    /\ InTable("cleanMark")
    /\ MarkBad(w.ba)
    /\ SetState(w.ba, "bad")
    /\ NextBlock
    /\ Goto("clean")

Cleaned(ret) == pc = "clean" /\ w.ret = ret /\ w.ba >= w.limit

-----------------------------------------------------------------------------
(* nmbm_rebuild_info_table: both tables from scratch.  It is called by     *)
(* nmbm_create_info_table (after = "mapTail") and by an update.            *)

Rebuild(top) ==
    /\ main' = NoBlock /\ backup' = NoBlock /\ mapBase' = top
    /\ WriteTable(MgmtStart, top, "newMain")

RebuildDone == Goto(IF after = "mapTail" THEN "mapTail" ELSE "update")

\* nmbm_update_info_table and nmbm_create_info_table return false.
UpdateFails == Goto(IF after \in {"mapTail", "created"} THEN "attachFails"
                                                       ELSE after)

NewMainFails ==
    /\ Exhausted("newMain")
    /\ protected' = TRUE
    /\ UpdateFails
    /\ UNCHANGED <<chip, table, main, backup, mapBase, mapTop, sigBlock,
                   dataCount, w, after, lb, res, env>>

NewMainWritten ==
    /\ Written("newMain")
    /\ main' = TableStart /\ mapBase' = TableEnd /\ changed' = FALSE
    /\ \/ /\ Reservable(TableEnd) = {}
          /\ RebuildDone /\ UNCHANGED w
       \/ \E b \in Reservable(TableEnd) :
             Reserved(TableEnd, b) /\ WriteTable(b, mapTop, "newBackup")
    /\ UNCHANGED <<chip, state, mapping, writeCount, cache, backup, mapTop,
                   sigBlock, dataCount, protected, after, lb, res, env>>

NewBackupFails ==
    /\ Exhausted("newBackup")
    /\ RebuildDone
    /\ UNCHANGED <<chip, table, layout, w, after, lb, res, env>>

NewBackupWritten ==
    /\ Written("newBackup")
    /\ backup' = TableStart /\ mapBase' = TableEnd
    /\ CleanRange(main + 1, TableStart, "newBackup")
    /\ UNCHANGED <<chip, table, main, mapTop, sigBlock, dataCount, protected,
                   after, lb, res, env>>

NewBackupCleaned ==
    /\ Cleaned("newBackup")
    /\ RebuildDone
    /\ UNCHANGED <<chip, table, layout, w, after, lb, res, env>>

-----------------------------------------------------------------------------
(* nmbm_update_info_table and nmbm_update_info_table_once                  *)

UpdateDone ==
    /\ pc = "update" /\ (protected \/ ~changed)
    /\ Goto(after)
    /\ UNCHANGED <<chip, table, layout, w, after, lb, res, env>>

\* The backup table first, so that the main one still holds the old tables.
\* There is a main table whenever the device is not protected.
UpdateStart ==
    /\ pc = "update" /\ ~protected /\ changed
    /\ GenerateCache
    /\ IF backup # NoBlock THEN WriteTable(backup, mapTop, "backup")
                           ELSE WriteTable(main, mapTop, "main")
    /\ UNCHANGED <<chip, state, mapping, changed, layout, after, lb, res, env>>

BackupWritten ==
    /\ Written("backup")
    /\ backup' = TableStart /\ mapBase' = TableEnd /\ changed' = FALSE
    /\ WriteTable(main, TableStart, "main")
    /\ UNCHANGED <<chip, state, mapping, writeCount, cache, main, mapTop,
                   sigBlock, dataCount, protected, after, lb, res, env>>

BackupFails ==
    /\ Exhausted("backup")
    /\ mapBase' = backup /\ backup' = NoBlock
    /\ WriteTable(main, mapTop, "main")
    /\ UNCHANGED <<chip, table, main, mapTop, sigBlock, dataCount, protected,
                   after, lb, res, env>>

MainWritten ==
    /\ Written("main")
    /\ main' = TableStart /\ changed' = FALSE
    /\ mapBase' = IF backup = NoBlock THEN TableEnd ELSE mapBase
    /\ Goto("update")
    /\ UNCHANGED <<chip, state, mapping, writeCount, cache, backup, mapTop,
                   sigBlock, dataCount, protected, w, after, lb, res, env>>

MainFailsAlone ==
    /\ Exhausted("main") /\ backup = NoBlock
    /\ Rebuild(mapTop)
    /\ UNCHANGED <<chip, table, mapTop, sigBlock, dataCount, protected, after,
                   lb, res, env>>

(* nmbm_rescue_main_info_table: a temporary table above the backup table,  *)
(* then a new main table at the start of the management area.              *)

\* There is no room: the backup table becomes the main one.
BackupTakesOver ==
    /\ main' = backup /\ backup' = NoBlock
    /\ Goto("update")
    /\ UNCHANGED w

MainFails ==
    /\ Exhausted("main") /\ backup # NoBlock
    /\ \/ Reservable(mapBase) = {} /\ BackupTakesOver
       \/ \E b \in Reservable(mapBase) :
             /\ Reserved(mapBase, b) /\ WriteTable(b, mapTop, "temp")
             /\ UNCHANGED <<main, backup>>
    /\ UNCHANGED <<chip, table, mapBase, mapTop, sigBlock, dataCount,
                   protected, after, lb, res, env>>

TempFails ==
    /\ Exhausted("temp")
    /\ IF w.from > mapBase
       THEN WriteTable(w.from - 1, mapTop, "temp") /\ UNCHANGED <<main, backup>>
       ELSE BackupTakesOver
    /\ UNCHANGED <<chip, table, mapBase, mapTop, sigBlock, dataCount,
                   protected, after, lb, res, env>>

TempWritten ==
    /\ Written("temp")
    /\ mapBase' = TableEnd
    /\ WriteTable(MgmtStart, TableStart, "rescue")
    /\ UNCHANGED <<chip, table, main, backup, mapTop, sigBlock, dataCount,
                   protected, after, lb, res, env>>

\* The temporary table starts at the limit of the write, so the new main table
\* ends below it and it is always kept (lines 1439-1485 are not reached).
RescueEnds ==
    /\ \/ Written("rescue") /\ main' = TableStart /\ backup' = w.limit
       \/ Exhausted("rescue") /\ main' = w.limit /\ backup' = NoBlock
    /\ changed' = FALSE
    /\ Goto("update")
    /\ UNCHANGED <<chip, state, mapping, writeCount, cache, mapBase, mapTop,
                   sigBlock, dataCount, protected, w, after, lb, res, env>>

-----------------------------------------------------------------------------
(* nmbm_attach on a chip whose tables are found: nmbm_load_info_table      *)

Unreadable(b) == b \in marker \/ content[b] = Torn

\* nmbm_find_signature searches downwards.  In the searches of an attach a bad mark
\* reads as it is and every page that is not Torn can be read.
SignatureAt(b) ==
    /\ b \in MgmtStart .. BlockCount - 1
    /\ b \notin marker /\ content[b] = Signature
    /\ \A x \in b + 1 .. BlockCount - 1 : ~(x \notin marker /\ content[x] = Signature)

\* nmbm_check_info_table
Accepted(image, b, sig) ==
    /\ \A l \in Logical : image.mapping[l] \notin (MgmtStart .. b) \cup {sig}
    /\ image.state[b] = "good"

\* nmbm_try_load_info_table succeeds at b when the RAM holds the states st.
Loadable(b, st, sig) ==
    /\ st[b] = "good" /\ b \notin marker
    /\ content[b].kind = "table"
    /\ Accepted(content[b].image, b, sig)

Loadables(from, st, sig) == {b \in from .. sig - 2 : b \in Blocks /\ Loadable(b, st, sig)}

\* The states once the search has passed over the blocks from .. to.
Passed(st, from, to) ==
    [b \in Blocks |-> IF b \in from .. to /\ st[b] = "good" /\ Unreadable(b)
                     THEN "bad" ELSE st[b]]

FirstTable(f, sig) ==
    LET found == Loadables(MgmtStart, NoImage.state, sig)
    IN  f \in found /\ \A x \in found : f <= x

SecondTable(f, g, sig) ==
    LET found == Loadables(f + 1, content[f].image.state, sig)
    IN  g \in found /\ \A x \in found : g <= x

\* A slip: every load starts from the top of the spare blocks again.
TopAlways(image, b, sig) == {sig - 1}

\* The block below the lowest mapped block above the table at b.
TopBelow(image, b, sig) ==
    {t \in b .. sig - 1 :
        /\ t = sig - 1 \/ \E l \in Logical : image.mapping[l] = t + 1
        /\ \A l \in Logical : image.mapping[l] \notin b + 1 .. t}

\* data_block_count is one above the last mapped logic block.
CountOf(mp) ==
    {n \in 1 .. MgmtStart :
        /\ \A l \in n .. MgmtStart - 1 : mp[l] = Unmapped
        /\ mp[n - 1] # Unmapped \/ (n = MgmtStart /\ \A l \in Logical : mp[l] = Unmapped)}

\* Which of two tables is loaded; the slip takes the older one.
Older(one, two) == two.count < one.count
Newer(one, two) == two.count > one.count

\* What the search leaves in RAM: image is the newer table, st the states, and
\* "dirty" is set when the search has changed a state.
LoadInto(image, st, dirty) ==
    LET count == IF dirty THEN image.count + 1 ELSE image.count IN
    /\ state' = st /\ mapping' = image.mapping
    /\ writeCount' = count
    /\ cache' = [count |-> count, state |-> st, mapping |-> image.mapping]
    /\ dataCount' \in CountOf(image.mapping)

\* The end of nmbm_load_info_table: attached, perhaps read-only.
Attached(success) ==
    /\ protected' = (mapBase' = mapTop' \/ ~success)
    /\ born' = TRUE
    /\ Call("attached")
    /\ UNCHANGED <<after, lb>>

LoadOne(sig, f) ==
    LET image == content[f].image
        st    == Passed(image.state, f + 1, sig - 2)
        dirty == st # image.state \/ \E b \in MgmtStart .. f - 1 : Unreadable(b)
    IN  /\ SignatureAt(sig) /\ FirstTable(f, sig)
        /\ Loadables(f + 1, image.state, sig) = {}
        /\ LoadInto(image, st, dirty)
        /\ changed' = dirty
        /\ mapTop' \in TopBelow(image, f, sig)
        /\ sigBlock' = sig /\ main' = f /\ backup' = NoBlock
        /\ mapBase' = f + 1
        /\ WriteTable(MgmtStart, f, "front")

AttachOneTable ==
    /\ pc = "off"
    /\ \E sig, f \in Blocks : LoadOne(sig, f)
    /\ UNCHANGED <<chip, protected, after, lb, res, env>>

LoadTwo(sig, f, g) ==
    LET one    == content[f].image
        two    == content[g].image
        passed == Passed(one.state, f + 1, g - 1)
        dirty  == passed # one.state \/ \E b \in MgmtStart .. f - 1 : Unreadable(b)
    IN  /\ SignatureAt(sig) /\ FirstTable(f, sig) /\ SecondTable(f, g, sig)
        /\ IF Newer(one, two) THEN LoadInto(two, two.state, dirty)
                              ELSE LoadInto(one, passed, dirty)
        /\ changed' = (dirty \/ one.count # two.count)
        /\ mapTop' \in IF one.count >= two.count THEN TopBelow(one, f, sig)
                                                 ELSE TopBelow(two, g, sig)
        /\ sigBlock' = sig /\ main' = f /\ backup' = g
        /\ mapBase' = g + 1
        /\ \/ one.count = two.count /\ Attached(TRUE)
           \/ /\ one.count < two.count
              /\ WriteTable(f, g, "loadMain")
              /\ UNCHANGED <<protected, after, lb, res, born>>
           \/ /\ one.count > two.count
              /\ WriteTable(g, mapTop', "loadBackup")
              /\ UNCHANGED <<protected, after, lb, res, born>>

AttachTwoTables ==
    /\ pc = "off"
    /\ \E sig, f, g \in Blocks : LoadTwo(sig, f, g)
    /\ UNCHANGED <<chip, faults, restarts>>

(* nmbm_update_single_info_table *)

LoadMainWritten ==
    /\ Written("loadMain")
    /\ main' = TableStart /\ changed' = FALSE
    /\ UNCHANGED <<mapBase, mapTop>>
    /\ Attached(TRUE)
    /\ UNCHANGED <<chip, state, mapping, writeCount, cache, backup, sigBlock,
                   dataCount, faults, restarts>>

LoadMainFails ==
    /\ Exhausted("loadMain")
    /\ main' = backup /\ backup' = NoBlock
    /\ WriteTable(MgmtStart, backup, "front")
    /\ UNCHANGED <<chip, table, mapBase, mapTop, sigBlock, dataCount,
                   protected, after, lb, res, env>>

LoadBackupEnds ==
    /\ \/ /\ Written("loadBackup")
          /\ backup' = TableStart /\ mapBase' = TableEnd /\ changed' = FALSE
          /\ UNCHANGED mapTop
          /\ Attached(TRUE)
       \/ /\ Exhausted("loadBackup")
          /\ backup' = NoBlock /\ mapBase' = backup
          /\ UNCHANGED <<changed, mapTop>>
          /\ Attached(FALSE)
    /\ UNCHANGED <<chip, state, mapping, writeCount, cache, main, sigBlock,
                   dataCount, faults, restarts>>

(* nmbm_rescue_single_info_table: a second table in front of the existing  *)
(* one or, if that fails, behind it.                                       *)

FrontWritten ==
    /\ Written("front")
    /\ backup' = main /\ main' = TableStart /\ changed' = FALSE
    /\ CleanRange(TableEnd, main, "front")
    /\ UNCHANGED <<chip, state, mapping, writeCount, cache, mapBase, mapTop,
                   sigBlock, dataCount, protected, after, lb, res, env>>

FrontCleaned ==
    /\ Cleaned("front")
    /\ UNCHANGED <<mapBase, mapTop>>
    /\ Attached(TRUE)
    /\ UNCHANGED <<chip, table, main, backup, sigBlock, dataCount, faults, restarts>>

FrontFails ==
    /\ Exhausted("front")
    /\ UNCHANGED <<mapBase, mapTop>>
    /\ \/ Reservable(mapBase) = {} /\ Attached(FALSE)
       \/ \E b \in Reservable(mapBase) :
             /\ Reserved(mapBase, b) /\ WriteTable(b, mapTop, "next")
             /\ UNCHANGED <<protected, after, lb, res, born>>
    /\ UNCHANGED <<chip, table, main, backup, sigBlock, dataCount, faults, restarts>>

NextFails ==
    /\ Exhausted("next")
    /\ UNCHANGED <<mapBase, mapTop>>
    /\ IF w.from > mapBase
       THEN /\ WriteTable(w.from - 1, mapTop, "next")
            /\ UNCHANGED <<protected, after, lb, res, born>>
       ELSE Attached(FALSE)
    /\ UNCHANGED <<chip, table, main, backup, sigBlock, dataCount, faults, restarts>>

NextWritten ==
    /\ Written("next")
    /\ CleanRange(mapBase, TableStart, "next")
    /\ UNCHANGED <<chip, table, layout, after, lb, res, env>>

NextCleaned ==
    /\ Cleaned("next")
    /\ backup' = w.limit /\ mapBase' = w.limit + 1 /\ changed' = FALSE
    /\ UNCHANGED mapTop
    /\ Attached(TRUE)
    /\ UNCHANGED <<chip, state, mapping, writeCount, cache, main, sigBlock,
                   dataCount, faults, restarts>>

-----------------------------------------------------------------------------
(* nmbm_attach on a chip without tables: nmbm_create_new, or the last part *)
(* of nmbm_load_existing, when NMBM_F_CREATE is given.  The operator gives *)
(* it until the chip has been attached once.                               *)

MayCreate == ForcedCreate \/ ~born

\* nmbm_build_mapping_table over the states st
BuildMapping(st) ==
    LET usable == {b \in Logical : st[b] # "bad"}
    IN  [l \in Logical |-> IF \E b \in usable : IsNth(b, usable, l)
                          THEN CHOOSE b \in usable : IsNth(b, usable, l)
                          ELSE Unmapped]

\* nmbm_scan_badblocks after a search that has left the states st, and the mapping
\* over what it takes for bad; at most one mark in a scan cannot be read.
BuildOver(scanned) ==
    /\ state' = scanned
    /\ changed' = (scanned # NoImage.state)
    /\ mapping' = BuildMapping(scanned)
    /\ dataCount' = Cardinality({b \in Logical : scanned[b] # "bad"})
    /\ writeCount' = 0 /\ cache' = NoImage
Scanned(st, bad) == [b \in Blocks |-> IF b \in bad THEN "bad" ELSE st[b]]
ScanAndBuild(st) ==
    \/ BuildOver(Scanned(st, marker)) /\ UNCHANGED faults
    \/ \E b \in Blocks \ marker :
          Fails("check", b) /\ BuildOver(Scanned(st, marker \cup {b}))

AttachNew ==
    /\ pc = "off" /\ MayCreate
    /\ \A b \in Blocks : ~SignatureAt(b)
    /\ ScanAndBuild(NoImage.state)
    /\ w' = [Idle EXCEPT !.ba = BlockCount - 1, !.limit = MgmtStart]
    /\ Goto("sign")
    /\ UNCHANGED <<chip, main, backup, mapBase, mapTop, sigBlock, protected,
                   after, lb, res, born, restarts>>

AttachWithoutTables ==
    /\ pc = "off" /\ MayCreate
    /\ \E sig \in Blocks :
         /\ SignatureAt(sig)
         /\ Loadables(MgmtStart, NoImage.state, sig) = {}
         /\ sigBlock' = sig
         /\ ScanAndBuild(Passed(NoImage.state, MgmtStart, sig - 2))
    /\ Goto("create")
    /\ UNCHANGED <<chip, main, backup, mapBase, mapTop, protected, w, after,
                   lb, res, born, restarts>>

\* -ENODEV: there are no tables and none may be created.
AttachRefused ==
    /\ pc = "off" /\ ~MayCreate
    /\ \A sig \in Blocks :
         SignatureAt(sig) => Loadables(MgmtStart, NoImage.state, sig) = {}
    /\ res' = "enodev"
    /\ UNCHANGED <<chip, table, layout, pc, w, after, lb, env>>

(* nmbm_write_signature: the highest block that takes it *)

InSign(label) == pc = label /\ UNCHANGED <<mapping, writeCount, cache, main,
                   backup, mapBase, mapTop, dataCount, protected, after, lb,
                   res, born, restarts>>
BlockBelow == w' = [w EXCEPT !.ba = w.ba - 1]

SignSkip ==
    /\ InSign("sign") /\ w.ba > w.limit /\ state[w.ba] # "good"
    /\ BlockBelow
    /\ UNCHANGED <<chip, state, changed, sigBlock, pc, faults>>

SignFoundBad ==
    /\ InSign("sign") /\ w.ba > w.limit /\ state[w.ba] = "good"
    /\ FoundBad(w.ba)
    /\ SetState(w.ba, "bad")
    /\ BlockBelow
    /\ UNCHANGED <<chip, sigBlock, pc>>

SignErase ==
    /\ InSign("sign") /\ w.ba > w.limit /\ state[w.ba] = "good"
    /\ FoundGood(w.ba)
    /\ \/ EraseOk(w.ba) /\ Goto("signProgram")
       \/ EraseFails(w.ba) /\ Goto("signMark")
    /\ UNCHANGED <<state, changed, sigBlock, w>>

SignProgram ==
    /\ InSign("signProgram")
    /\ \/ ProgramOk(w.ba, Signature) /\ sigBlock' = w.ba /\ Goto("create")
       \/ ProgramFails(w.ba, Signature) /\ UNCHANGED sigBlock /\ Goto("signMark")
    /\ UNCHANGED <<state, changed, w>>

SignMark ==
    /\ InSign("signMark")
    /\ MarkBad(w.ba)
    /\ SetState(w.ba, "bad")
    /\ BlockBelow
    /\ Goto("sign")
    /\ UNCHANGED sigBlock

SignFails ==
    /\ InSign("sign") /\ w.ba <= w.limit
    /\ Goto("attachFails")
    /\ UNCHANGED <<chip, state, changed, sigBlock, w, faults>>

(* nmbm_create_info_table *)

\* A slip: the block of the signature counts as spare.
SpareTopsWithSignature == {t \in Good(state, MgmtStart + 1, sigBlock) :
                \A x \in Good(state, t, sigBlock) : x = t}

\* Walk down from the signature, skipping one good block: the signature's own.
SpareTops == {t \in Good(state, MgmtStart + 1, sigBlock) :
                Cardinality({x \in Good(state, t, sigBlock) : x > t}) = 1}

CreateTables ==
    /\ pc = "create"
    /\ \/ /\ SpareTops = {} /\ Goto("attachFails")
          /\ UNCHANGED <<writeCount, cache, main, backup, mapBase, mapTop, w, after>>
       \/ /\ \E t \in SpareTops : mapTop' = t /\ Rebuild(t)
          /\ GenerateCache
          /\ after' = "mapTail"
    /\ UNCHANGED <<chip, state, mapping, changed, sigBlock, dataCount, protected,
                   lb, res, env>>

\* nmbm_map_block: walk down from mapTop to the next good block.
SpareBlock(b) ==
    LET spare == Good(state, mapBase + 1, mapTop)
    IN  b \in spare /\ \A x \in spare : x <= b

\* A slip: the top of the spare blocks stays where it is.
MapBlockAgain(l, b) ==
    /\ mapBase # mapTop /\ SpareBlock(b)
    /\ mapping' = [mapping EXCEPT ![l] = b]
    /\ UNCHANGED mapTop

MapBlock(l, b) ==
    /\ mapBase # mapTop /\ SpareBlock(b)
    /\ mapping' = [mapping EXCEPT ![l] = b]
    /\ mapTop' = mapTop - 1

NoSpare == mapBase = mapTop
SpareUsedUp == mapBase # mapTop /\ Good(state, mapBase + 1, mapTop) = {}

\* The logic blocks that the bad blocks have pushed out of the data area get
\* spare blocks.
MapTail ==
    /\ pc = "mapTail" /\ dataCount < MgmtStart
    /\ \E b \in Blocks : MapBlock(dataCount, b)
    /\ dataCount' = dataCount + 1 /\ changed' = TRUE
    /\ UNCHANGED <<chip, state, writeCount, cache, main, backup, mapBase,
                   sigBlock, protected, pc, w, after, lb, res, env>>

MapTailEnds ==
    /\ pc = "mapTail"
    /\ \/ (dataCount = MgmtStart \/ NoSpare) /\ Update("created")
       \/ dataCount < MgmtStart /\ SpareUsedUp /\ Update("tailFull")
    /\ UNCHANGED <<chip, table, layout, w, lb, res, env>>

TailFull ==
    /\ pc = "tailFull"
    /\ mapTop' = mapBase
    /\ Update("created")
    /\ UNCHANGED <<chip, table, main, backup, mapBase, sigBlock, dataCount,
                   protected, w, lb, res, env>>

Created ==
    /\ pc = "created"
    /\ born' = TRUE
    /\ Call("attached")
    /\ UNCHANGED <<chip, table, layout, after, lb, faults, restarts>>

-----------------------------------------------------------------------------
(* The operations of an attached device.  lb is the logic block.           *)

Usable(l) == mapping[l] # Unmapped /\ state[mapping[l]] # "bad"
Block == mapping[lb]

\* A change of a protected device, or an address behind the last logic block.
Refuse ==
    /\ pc = "idle"
    /\ res' = IF protected THEN "erofs" ELSE "einval"
    /\ UNCHANGED <<chip, table, layout, pc, w, after, lb, env>>

Request(label) ==
    /\ pc = "idle" /\ ~protected
    /\ \E l \in Logical : l < dataCount /\ lb' = l
    /\ res' = "none"
    /\ Goto(label)
    /\ UNCHANGED <<chip, table, layout, w, after, env>>

EraseRequest == Request("erase")
WriteRequest == Request("write")

\* Only a read gets as far as nmbm_read_range when the device is protected.
ReadRequest ==
    /\ pc = "idle"
    /\ \E l \in Logical : l < dataCount /\ lb' = l
    /\ res' = "none"
    /\ Goto("read")
    /\ UNCHANGED <<chip, table, layout, w, after, env>>

Return(result) == Call(result) /\ UNCHANGED <<after, lb>>

(* nmbm_erase_logic_block *)

EraseRetired ==
    /\ pc = "erase"
    /\ \/ Block = Unmapped /\ Return("eio")
       \/ /\ Block # Unmapped /\ state[Block] # "good"
          /\ Goto("remap") /\ UNCHANGED <<w, res, after, lb>>
    /\ UNCHANGED <<chip, table, layout, env>>

EraseFoundBad ==
    /\ pc = "erase" /\ Block # Unmapped /\ state[Block] = "good"
    /\ FoundBad(Block)
    /\ SetState(Block, "bad")
    /\ Goto("remap")
    /\ UNCHANGED <<chip, mapping, writeCount, cache, layout, w, after, lb, res,
                   born, restarts>>

EraseBlock ==
    /\ pc = "erase" /\ Block # Unmapped /\ state[Block] = "good"
    /\ FoundGood(Block)
    /\ \/ EraseOk(Block) /\ Return("ok")
       \/ EraseFails(Block) /\ Goto("eraseMark") /\ UNCHANGED <<w, after, lb, res>>
    /\ UNCHANGED <<table, layout, born, restarts>>

EraseMark ==
    /\ pc = "eraseMark"
    /\ MarkBad(Block)
    /\ SetState(Block, "bad")
    /\ Goto("remap")
    /\ UNCHANGED <<mapping, writeCount, cache, layout, w, after, lb, res, born,
                   restarts>>

\* The old block is not used again; NEED_REMAP is kept in its state.
Retire(b) == state' = [state EXCEPT ![b] = IF @ = "remap" THEN @ ELSE "bad"]

\* The info table is updated before the new block is erased.
Remap ==
    /\ pc = "remap"
    /\ \E b \in Blocks : MapBlock(lb, b)
    /\ Retire(Block)
    /\ changed' = TRUE
    /\ Update("erase")
    /\ UNCHANGED <<chip, writeCount, cache, main, backup, mapBase, sigBlock,
                   dataCount, protected, w, lb, res, env>>

\* No spare block: the logic block is given up.  Removing its mapping does not
\* count as a change of the tables.
GiveUp ==
    /\ Retire(Block)
    /\ changed' = (changed \/ state' # state)
    /\ mapping' = [mapping EXCEPT ![lb] = Unmapped]
    /\ Update("failed")

RemapFails ==
    /\ pc = "remap"
    /\ \/ NoSpare /\ GiveUp
       \/ SpareUsedUp /\ Update("mapFull") /\ UNCHANGED <<state, mapping, changed>>
    /\ UNCHANGED <<chip, writeCount, cache, layout, w, lb, res, env>>

MapFull ==
    /\ pc = "mapFull"
    /\ mapTop' = mapBase
    /\ GiveUp
    /\ UNCHANGED <<chip, writeCount, cache, main, backup, mapBase, sigBlock,
                   dataCount, protected, w, lb, res, env>>

Failed ==
    /\ pc = "failed"
    /\ Return("eio")
    /\ UNCHANGED <<chip, table, layout, env>>

(* nmbm_write_logic_page and nmbm_panic_write_logic_page *)

WriteBlock ==
    /\ pc = "write"
    /\ \/ /\ ~Usable(lb)
          /\ Return("eio")
          /\ UNCHANGED <<chip, state, changed, faults>>
       \/ /\ Usable(lb)
          /\ ProgramOk(Block, DataOf(lb))
          /\ Return("ok")
          /\ UNCHANGED <<state, changed>>
       \/ /\ Usable(lb)
          /\ ProgramFails(Block, DataOf(lb))
          /\ SetState(Block, "remap")
          /\ Update("failed")
          /\ UNCHANGED <<w, lb, res>>
    /\ UNCHANGED <<mapping, writeCount, cache, layout, born, restarts>>

(* nmbm_read_range and nmbm_read_logic_page *)

ReadBlock ==
    /\ pc = "read"
    /\ \/ protected /\ Return("erofs")
       \/ ~protected /\ ~Usable(lb) /\ Return("eio")
       \/ ~protected /\ Usable(lb) /\ content[Block] = Torn /\ Return("ebadmsg")
       \/ ~protected /\ Usable(lb) /\ content[Block] # Torn /\ Return("ok")
    /\ UNCHANGED <<chip, table, layout, env>>

(* nmbm_mark_bad_block *)

MarkBadBlock ==
    /\ pc = "idle" /\ ~protected
    /\ \E l \in Logical :
         /\ l < dataCount /\ mapping[l] # Unmapped
         /\ mapping' = [mapping EXCEPT ![l] = Unmapped]
         /\ MarkBad(mapping[l])
         /\ SetState(mapping[l], "bad")
    /\ res' = "none"
    /\ Update("marked")
    /\ UNCHANGED <<writeCount, cache, layout, w, lb, born, restarts>>

\* A logic block that was given up is not marked again.
MarkUnmapped ==
    /\ pc = "idle" /\ ~protected
    /\ \E l \in Logical : l < dataCount /\ mapping[l] = Unmapped
    /\ res' = "ok"
    /\ UNCHANGED <<chip, table, layout, pc, w, after, lb, env>>

Marked ==
    /\ pc = "marked"
    /\ Return("ok")
    /\ UNCHANGED <<chip, table, layout, env>>

(* nmbm_detach *)

Detach ==
    /\ pc = "idle" /\ restarts < MaxRestarts
    /\ restarts' = restarts + 1
    /\ res' = "none"
    /\ Update("detached")
    /\ UNCHANGED <<chip, table, layout, w, lb, born, faults>>

-----------------------------------------------------------------------------
(* Losing the instance: a detach, a failed attach, or a power cut.         *)

Forget ==
    /\ state' = NoImage.state /\ mapping' = NoImage.mapping
    /\ changed' = FALSE /\ writeCount' = 0 /\ cache' = NoImage
    /\ main' = NoBlock /\ backup' = NoBlock
    /\ mapBase' = 0 /\ mapTop' = 0 /\ sigBlock' = 0
    /\ dataCount' = 0 /\ protected' = FALSE
    /\ pc' = "off" /\ w' = Idle /\ after' = "none" /\ lb' = 0 /\ res' = "none"

Release ==
    /\ pc \in {"detached", "attachFails"}
    /\ Forget
    /\ UNCHANGED <<chip, env>>

\* The block an erase or a program is under way on.
InFlight ==
    IF pc \in {"program", "signProgram"} THEN {w.ba}
    ELSE IF pc \in {"table", "clean", "sign"} /\ w.ba \in Blocks /\ state[w.ba] = "good"
            /\ (IF pc = "sign" THEN w.ba > w.limit ELSE w.ba < w.limit)
            /\ w.ba \notin marker
         THEN {w.ba}
    ELSE IF pc = "erase" /\ Block # Unmapped /\ state[Block] = "good" /\ Block \notin marker
         THEN {Block}
    ELSE IF pc = "write" /\ Usable(lb) THEN {Block}
    ELSE {}

PowerCut ==
    /\ pc # "off" /\ restarts < MaxRestarts
    /\ restarts' = restarts + 1
    /\ \/ UNCHANGED content
       \/ \E b \in InFlight : content' = [content EXCEPT ![b] = Torn]
    /\ Forget
    /\ UNCHANGED <<marker, born, faults>>

-----------------------------------------------------------------------------

Init ==
    /\ content = [b \in Blocks |-> IF b \in FactoryBad THEN Torn ELSE Blank]
    /\ marker = FactoryBad
    /\ state = NoImage.state /\ mapping = NoImage.mapping
    /\ changed = FALSE /\ writeCount = 0 /\ cache = NoImage
    /\ main = NoBlock /\ backup = NoBlock
    /\ mapBase = 0 /\ mapTop = 0 /\ sigBlock = 0
    /\ dataCount = 0 /\ protected = FALSE
    /\ pc = "off" /\ w = Idle /\ after = "none" /\ lb = 0 /\ res = "none"
    /\ born = FALSE /\ faults = 0 /\ restarts = 0

WriteTableSteps == TableSkip \/ TableFoundBad \/ TableErase \/ TableProgram \/ TableMark
CleanSteps      == CleanSkip \/ CleanFoundBad \/ CleanErase \/ CleanMark
RebuildSteps    == \/ NewMainFails \/ NewMainWritten \/ NewBackupFails
                   \/ NewBackupWritten \/ NewBackupCleaned
UpdateSteps     == \/ UpdateDone \/ UpdateStart \/ BackupWritten \/ BackupFails
                   \/ MainWritten \/ MainFailsAlone \/ MainFails
                   \/ TempFails \/ TempWritten \/ RescueEnds
LoadSteps       == \/ AttachOneTable \/ AttachTwoTables
                   \/ LoadMainWritten \/ LoadMainFails \/ LoadBackupEnds
                   \/ FrontWritten \/ FrontCleaned \/ FrontFails
                   \/ NextFails \/ NextWritten \/ NextCleaned
CreateSteps     == \/ AttachNew \/ AttachWithoutTables \/ AttachRefused
                   \/ SignSkip \/ SignFoundBad \/ SignErase \/ SignProgram \/ SignMark \/ SignFails
                   \/ CreateTables \/ MapTail \/ MapTailEnds \/ TailFull \/ Created
OperationSteps  == \/ EraseRetired \/ EraseFoundBad \/ EraseBlock \/ EraseMark
                   \/ Remap \/ RemapFails \/ MapFull \/ Failed
                   \/ WriteBlock \/ ReadBlock \/ Marked \/ Release
Requests        == \/ Refuse \/ EraseRequest \/ WriteRequest \/ ReadRequest
                   \/ MarkBadBlock \/ MarkUnmapped \/ Detach

Work == \/ WriteTableSteps \/ CleanSteps \/ RebuildSteps \/ UpdateSteps
        \/ LoadSteps \/ CreateSteps \/ OperationSteps

Next == Work \/ Requests \/ PowerCut

Spec == Init /\ [][Next]_vars

\* A call that has been made runs to its end; nobody has to make one.
FairSpec == Spec /\ WF_vars(pc # "off" /\ Work)

-----------------------------------------------------------------------------
(* Properties *)

PCs == {"off", "idle", "sign", "signProgram", "signMark", "create", "mapTail",
        "tailFull", "created", "erase", "eraseMark", "remap", "mapFull",
        "failed", "write", "read", "marked", "detached", "update", "table", "program",
        "tableMark", "written", "clean", "cleanMark", "attachFails"}

Returns == {"none", "mapTail", "tailFull", "created", "erase", "mapFull",
            "failed", "marked", "detached"}

Callers == {"none", "newMain", "newBackup", "backup", "main", "temp", "rescue",
            "front", "next", "loadMain", "loadBackup"}

WriteRange == [from : Nat, ba : Nat, limit : Nat, ret : Callers]

ChipType    == content \in [Blocks -> Contents] /\ marker \subseteq Blocks
TableType   == /\ state \in [Blocks -> States] /\ mapping \in Mappings
               /\ changed \in BOOLEAN /\ writeCount \in Nat /\ cache \in Images
LayoutType  == /\ main \in Blocks /\ backup \in Blocks /\ mapBase \in Blocks
               /\ mapTop \in Blocks /\ sigBlock \in Blocks
               /\ dataCount \in 0 .. MgmtStart /\ protected \in BOOLEAN
ControlType == /\ pc \in PCs /\ after \in Returns /\ lb \in Logical
               /\ w \in WriteRange
               /\ res \in {"none", "ok", "eio", "erofs", "einval", "ebadmsg",
                           "attached", "enodev"}
EnvType     == born \in BOOLEAN /\ faults \in Nat /\ restarts \in Nat

\* Every variable has its type: among others, the tables, the spare blocks and
\* the signature never leave the chip (nmbm-core.c computes their addresses by
\* stepping one block up or down).
TypeOK == ChipType /\ TableType /\ LayoutType /\ ControlType /\ EnvType

\* The instance knows its layout.
Running == pc \notin {"off", "sign", "signProgram", "signMark", "create",
                      "attachFails"}
Ready   == pc = "idle" /\ ~protected

\* The tables the instance works with.
Tables == {main, backup} \ {NoBlock}

\* Two logic blocks share a physical block only where nmbm_map_block has skipped
\* a bad spare block above it (see SpareWasUnused).
Distinct ==
    \A k, l \in Logical :
        k # l /\ mapping[k] # Unmapped /\ mapping[k] = mapping[l] =>
            \E b \in mapping[k] + 1 .. sigBlock - 1 : state[b] # "good"

\* A block that carries data is not the signature block and is out of reach of
\* the table writes, which end below mapping_blocks_top_ba; again unless
\* nmbm_map_block has skipped a bad spare block above it.
TablesApart ==
    Running => \A l \in Logical :
        /\ mapping[l] # sigBlock
        /\ mapping[l] \in MgmtStart .. mapTop - 1 =>
             \E b \in mapping[l] + 1 .. sigBlock - 1 : state[b] # "good"

\* No block is used twice on a chip whose spare blocks are good: for two logic
\* blocks, or for a logic block and a table (nmbm_map_block,
\* nmbm_build_mapping_table, and the mapping that an attach picks).
BlocksApart == Distinct /\ TablesApart

\* While a table is written or a range is erased, the block worked on is in the
\* management area, below the spare blocks in use and below the signature
\* (nmbm_write_mgmt_range, nmbm_erase_range and the limits their callers give).
TableWritesConfined ==
    pc \in {"program", "tableMark", "written", "cleanMark"} =>
        MgmtStart <= w.ba /\ w.ba < mapTop /\ mapTop < sigBlock

\* Between two calls every table on the chip holds the mapping in RAM
\* (nmbm_update_info_table), but for a logic block that was given up: the code
\* does not count that as a change, in spite of its comment "Mark logic block
\* unusable, and update info table" (nmbm-core.c:2479).  Like BlocksApart this is
\* about chips on which no block is mapped below a bad spare block.
TablesSaved ==
    Ready /\ ~changed =>
        \A t \in Tables :
            /\ content[t].kind = "table"
            /\ \A l \in Logical : mapping[l] # Unmapped =>
                                     content[t].image.mapping[l] = mapping[l]

\* Two tables with the same write count are the same: nmbm_load_info_table compares
\* nothing else before it trusts them both.
CountsIdentify ==
    LET found == {b \in Blocks \ marker : content[b].kind = "table"}
    IN  \A a, b \in found : content[a].image.count = content[b].image.count =>
                               content[a].image = content[b].image

\* A logic block never reads back the data of another one, or a table
\* (nmbm_read_logic_page through the mapping that the remaps, the updates and
\* the attaches have left).
ReadsOwn ==
    Running => \A l \in Logical :
                  Usable(l) => content[mapping[l]] \in {Blank, Torn, DataOf(l)}

\* Every call returns, and every attach ends: the loops of the table writes,
\* the updates, the rescues and the erase's retry come to an end.
CallsReturn == []<>(pc \in {"idle", "off"})

(* What the comments of nmbm-core.c say, and the code does not do *)

\* "Map a bad block to a unused spare block" (nmbm-core.c:1619).
SpareWasUnused ==
    [][\A l \in Logical :
         mapping'[l] # mapping[l] /\ mapping'[l] # Unmapped /\ pc # "off" =>
            \A k \in Logical : mapping[k] # mapping'[l]]_vars
=============================================================================
