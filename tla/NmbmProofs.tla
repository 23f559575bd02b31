----------------------------- MODULE NmbmProofs -----------------------------
(***************************************************************************)
(* Proofs about Nmbm for every geometry, every set of factory bad blocks   *)
(* and any number of failures and power cuts: type correctness, that the   *)
(* writes and erases of the info tables stay between the data blocks and   *)
(* the spare blocks in use, that no block is used twice, that the tables   *)
(* hold the mapping, that equal write counts mean equal tables, that a     *)
(* logic block never reads the data of another, and that the mapping       *)
(* survives: Nmbm with the history variable of NmbmStore implements        *)
(* InfoStore.                                                              *)
(***************************************************************************)
EXTENDS NmbmStore, FiniteSetTheorems, WellFoundedInduction, TLAPS

Writing  == {"table", "program", "tableMark", "written"}
Cleaning == {"clean", "cleanMark"}
UpdateCallers == {"newMain", "newBackup", "backup", "main", "temp", "rescue"}

\* What a running table write knows about its range.
WriteInv ==
    pc \in Writing =>
        /\ w.ret # "none"
        /\ MgmtStart <= w.from /\ MgmtStart <= w.ba
        /\ w.limit <= mapTop
        /\ pc # "table" => w.ba < w.limit
        /\ w.ret # "newMain" => main # NoBlock
        /\ w.ret \in {"backup", "temp", "loadMain", "loadBackup"} => backup # NoBlock
        /\ w.ret = "loadMain" => w.limit = backup
        /\ w.ret = "front" => w.limit = main
        /\ w.ret = "rescue" => MgmtStart <= w.limit

\* What a running nmbm_erase_range knows about its range.
CleanInv ==
    pc \in Cleaning =>
        /\ w.ret \in {"newBackup", "front", "next"}
        /\ main # NoBlock
        /\ MgmtStart <= w.ba
        /\ w.limit <= mapTop
        /\ pc = "cleanMark" => w.ba < w.limit
        /\ w.ret = "next" => MgmtStart <= w.limit /\ w.limit < mapTop

\* What nmbm_write_signature knows about its range.
SignInv ==
    pc \in {"sign", "signProgram", "signMark"} =>
        /\ w.ba \in Blocks /\ w.limit = MgmtStart
        /\ pc # "sign" => w.limit < w.ba

\* An update knows where to return to.
AfterInv ==
    (pc = "update" \/ (pc \in Writing \cup Cleaning /\ w.ret \in UpdateCallers))
        => after # "none"

\* The tables and the spare blocks lie in the management area, below the
\* signature, and an unprotected device has a main table.
LayoutInv ==
    Running =>
        /\ mapTop < sigBlock /\ mapBase < sigBlock
        /\ main < sigBlock /\ backup < sigBlock
        /\ MgmtStart <= mapBase /\ MgmtStart <= mapTop
        /\ main # NoBlock => MgmtStart <= main
        /\ backup # NoBlock => MgmtStart <= backup
        /\ main # NoBlock \/ protected \/ (pc \in Writing /\ w.ret = "newMain")

\* A block that failed to be erased is still mapped when it is marked bad.
EraseInv == pc = "eraseMark" => Block # Unmapped

Ranges ==
    WriteInv /\ CleanInv /\ SignInv /\ AfterInv /\ LayoutInv /\ EraseInv

Inv == TypeOK /\ Ranges

-----------------------------------------------------------------------------
(* The chip and the data *)

USE GeometryAssumption DEF Blocks, Logical, Unmapped, NoBlock, chip, table, layout, env

\* What the layer writes is one of the contents a block may have.
LEMMA ContentKinds ==
    /\ Blank \in Contents /\ Torn \in Contents /\ Signature \in Contents
    /\ \A l \in Logical : DataOf(l) \in Contents
    /\ \A image \in Images : TableOf(image) \in Contents
BY DEF Contents, TableOf

\* What is read back as a table is one.
LEMMA TableImage ==
    ASSUME NEW b \in Blocks, ChipType, content[b].kind = "table"
    PROVE  content[b].image \in Images
BY DEF ChipType, Contents, Blank, Torn, Signature, DataOf

\* Changing one block of the chip.
LEMMA InPlace ==
    ASSUME NEW b, NEW data \in Contents, ChipType
    PROVE  [content EXCEPT ![b] = data] \in [Blocks -> Contents]
BY DEF ChipType

\* An erase, whatever comes of it, leaves a chip of its type.
LEMMA EraseType ==
    ASSUME NEW b, ChipType, EnvType, EraseOk(b) \/ EraseFails(b)
    PROVE  ChipType' /\ faults' \in Nat
<1>1. content' \in [Blocks -> Contents]
    BY InPlace, ContentKinds DEF ChipType, EraseOk, EraseFails
<1>2. marker' = marker /\ faults' \in Nat
    BY DEF EnvType, EraseOk, EraseFails, Fails
<1>. QED BY <1>1, <1>2 DEF ChipType

\* A program, whatever comes of it, leaves a chip of its type.
LEMMA ProgramType ==
    ASSUME NEW b, NEW data \in Contents, ChipType, EnvType,
           ProgramOk(b, data) \/ ProgramFails(b, data)
    PROVE  ChipType' /\ faults' \in Nat
<1>1. content' \in [Blocks -> Contents]
    BY InPlace, ContentKinds DEF ChipType, ProgramOk, ProgramFails
<1>2. marker' = marker /\ faults' \in Nat
    BY DEF EnvType, ProgramOk, ProgramFails, Fails
<1>. QED BY <1>1, <1>2 DEF ChipType

\* nmbm_mark_phys_bad_block leaves a chip of its type.
LEMMA MarkType ==
    ASSUME NEW b \in Blocks, ChipType, EnvType, MarkBad(b)
    PROVE  ChipType' /\ faults' \in Nat
<1>1. content' \in [Blocks -> Contents]
    BY InPlace, ContentKinds DEF ChipType, MarkBad
<1>2. marker' \subseteq Blocks
    BY DEF ChipType, MarkBad, Fails
<1>3. faults' \in Nat
    BY DEF EnvType, MarkBad, Fails
<1>. QED BY <1>1, <1>2, <1>3 DEF ChipType

\* A block check counts at most one failure more.
LEMMA CheckType ==
    ASSUME NEW b, EnvType, FoundBad(b)
    PROVE  faults' \in Nat
BY DEF EnvType, FoundBad, Fails

\* nmbm_set_block_state changes one state.
LEMMA SetStateType ==
    ASSUME NEW b, NEW st \in States, TableType, SetState(b, st)
    PROVE  state' \in [Blocks -> States] /\ changed' \in BOOLEAN
BY DEF TableType, SetState

\* nmbm_generate_info_table_cache makes a table.
LEMMA CacheType ==
    ASSUME TableType, GenerateCache
    PROVE  writeCount' \in Nat /\ cache' \in Images
BY DEF TableType, GenerateCache, NextCount, Images

\* A loop over a range goes to the next block, and changes nothing else.
LEMMA StepType ==
    ASSUME w \in WriteRange, NextBlock
    PROVE  w' \in WriteRange /\ w'.ba = w.ba + 1
           /\ w'.from = w.from /\ w'.limit = w.limit /\ w'.ret = w.ret
<1>1. w.ba + 1 \in Nat BY DEF WriteRange
<1>. QED BY <1>1 DEF WriteRange, NextBlock

\* nmbm_write_signature goes to the block below.
LEMMA BelowType ==
    ASSUME w \in WriteRange, 0 < w.ba, BlockBelow
    PROVE  w' \in WriteRange /\ w'.ba = w.ba - 1
           /\ w'.from = w.from /\ w'.limit = w.limit /\ w'.ret = w.ret
<1>1. w.ba - 1 \in Nat BY DEF WriteRange
<1>. QED BY <1>1 DEF WriteRange, BlockBelow

\* The range a caller passes to nmbm_write_info_table or nmbm_erase_range.
LEMMA CallType ==
    ASSUME NEW ba \in Nat, NEW limit \in Nat, NEW ret \in Callers,
           w' = [from |-> ba, ba |-> ba, limit |-> limit, ret |-> ret]
    PROVE  w' \in WriteRange
BY DEF WriteRange

\* No range.
LEMMA IdleType == Idle \in WriteRange
BY DEF Idle, WriteRange, Callers

\* What nmbm_try_reserve_blocks returns lies between its two limits.
LEMMA ReservableIn ==
    ASSUME LayoutType, NEW ba \in Nat, NEW b \in Reservable(ba)
    PROVE  b \in Blocks /\ ba <= b /\ b <= mapTop - 2
BY DEF LayoutType, Reservable, Good

\* The spare block that nmbm_map_block takes lies above mapping_blocks_ba.
LEMMA SpareBlockIn ==
    ASSUME LayoutType, NEW b, SpareBlock(b)
    PROVE  b \in Blocks /\ mapBase < b /\ b <= mapTop
BY DEF LayoutType, SpareBlock, Good

\* nmbm_map_block picks a block and lowers mapping_blocks_top_ba.
LEMMA MapBlockType ==
    ASSUME TableType, LayoutType, NEW l, NEW b, MapBlock(l, b)
    PROVE  mapping' \in Mappings /\ mapTop' \in Blocks /\ mapTop' = mapTop - 1
<1>1. b \in Blocks /\ mapBase < b /\ b <= mapTop
    BY SpareBlockIn DEF MapBlock
<1>2. mapping' \in Mappings
    BY <1>1 DEF TableType, Mappings, MapBlock
<1>. QED BY <1>1, <1>2 DEF LayoutType, MapBlock

\* A logic block is given up.
LEMMA UnmapType ==
    ASSUME TableType, NEW l, mapping' = [mapping EXCEPT ![l] = Unmapped]
    PROVE  mapping' \in Mappings
BY DEF TableType, Mappings

\* The old block of an erase gets a state.
LEMMA RetireType ==
    ASSUME TableType, NEW b, Retire(b)
    PROVE  state' \in [Blocks -> States]
BY DEF TableType, Retire, States

\* The empty table of a new instance is a table.
LEMMA NoImageType == NoImage \in Images
BY DEF NoImage, Images, Mappings, States

\* An instance that is lost leaves the variables in their types.
LEMMA ForgetType ==
    ASSUME Forget
    PROVE  TableType' /\ LayoutType' /\ ControlType'
<1>1. TableType'
    BY NoImageType DEF TableType, Forget, NoImage, Images
<1>2. LayoutType'
  <2>1. 0 \in Blocks /\ 0 \in 0 .. MgmtStart
    OBVIOUS
  <2>2. protected' \in BOOLEAN
    BY DEF Forget
  <2>. QED BY <2>1, <2>2 DEF LayoutType, Forget
<1>3. ControlType'
    BY IdleType DEF ControlType, Forget, PCs, Returns
<1>. QED BY <1>1, <1>2, <1>3

\* The states after a search, and those after the scan that may follow it.
LEMMA PassedType ==
    ASSUME NEW st \in [Blocks -> States], NEW from, NEW to
    PROVE  Passed(st, from, to) \in [Blocks -> States]
BY DEF Passed, States

\* nmbm_build_mapping_table maps logic blocks to blocks of the data area.
LEMMA BuildMappingType ==
    ASSUME NEW st
    PROVE  BuildMapping(st) \in Mappings
<1>. DEFINE usable == {b \in Logical : st[b] # "bad"}
<1>1. ASSUME NEW l \in Logical, \E b \in usable : IsNth(b, usable, l)
      PROVE  (CHOOSE b \in usable : IsNth(b, usable, l)) \in Blocks
  <2>1. (CHOOSE b \in usable : IsNth(b, usable, l)) \in usable
    BY <1>1
  <2>. QED BY <2>1
<1>. QED BY <1>1 DEF BuildMapping, Mappings

LEMMA BuildOverType ==
    ASSUME NEW scanned \in [Blocks -> States], BuildOver(scanned)
    PROVE  TableType' /\ dataCount' \in 0 .. MgmtStart
<1>. DEFINE mapped == {b \in Logical : scanned[b] # "bad"}
<1>1. state' = scanned /\ changed' \in BOOLEAN /\ mapping' \in Mappings
    BY BuildMappingType DEF BuildOver
<1>2. writeCount' \in Nat /\ cache' \in Images
    BY NoImageType DEF BuildOver
<1>3. Cardinality(mapped) \in 0 .. MgmtStart
  <2>1. IsFiniteSet(Logical) /\ Cardinality(Logical) = MgmtStart
    BY FS_Interval
  <2>2. IsFiniteSet(mapped) /\ Cardinality(mapped) <= Cardinality(Logical)
    BY <2>1, FS_Subset
  <2>3. Cardinality(mapped) \in Nat
    BY <2>2, FS_CardinalityType
  <2>. QED BY <2>1, <2>2, <2>3
<1>4. dataCount' = Cardinality(mapped)
    BY DEF BuildOver
<1>. QED BY <1>1, <1>2, <1>3, <1>4 DEF TableType

LEMMA ScanType ==
    ASSUME NEW st \in [Blocks -> States], ScanAndBuild(st), EnvType
    PROVE  TableType' /\ dataCount' \in 0 .. MgmtStart /\ faults' \in Nat
<1>1. \E bad : BuildOver(Scanned(st, bad))
    BY DEF ScanAndBuild
<1>2. \A bad : Scanned(st, bad) \in [Blocks -> States]
    BY DEF Scanned, States
<1>3. faults' = faults \/ faults' = faults + 1
    BY Zenon DEF ScanAndBuild, Fails
<1>4. faults' \in Nat
    BY <1>3 DEF EnvType
<1>. QED BY <1>1, <1>2, <1>4, BuildOverType

\* What nmbm_load_info_table leaves in RAM has its type.
LEMMA LoadType ==
    ASSUME NEW image \in Images, NEW st \in [Blocks -> States], NEW dirty,
           LoadInto(image, st, dirty)
    PROVE  /\ state' \in [Blocks -> States] /\ mapping' \in Mappings
           /\ writeCount' \in Nat /\ cache' \in Images
           /\ dataCount' \in 0 .. MgmtStart
<1>1. image.count \in Nat /\ image.mapping \in Mappings
    BY DEF Images
<1>2. state' \in [Blocks -> States] /\ mapping' \in Mappings
    BY <1>1 DEF LoadInto
<1>3. writeCount' \in Nat /\ cache' \in Images
    BY <1>1 DEF LoadInto, Images
<1>4. dataCount' \in 0 .. MgmtStart
    BY DEF LoadInto, CountOf
<1>. QED BY <1>2, <1>3, <1>4

\* Where a search finds a table, and where that leaves the spare blocks.
LEMMA LoadableIn ==
    ASSUME ChipType, NEW from \in Nat, NEW st, NEW sig \in Blocks, NEW b \in Loadables(from, st, sig)
    PROVE  /\ b \in Blocks /\ from <= b /\ b <= sig - 2
           /\ content[b].image \in Images
BY TableImage DEF Loadables, Loadable

LEMMA TopBelowIn ==
    ASSUME NEW image, NEW b \in Blocks, NEW sig \in Blocks, NEW t \in TopBelow(image, b, sig)
    PROVE  t \in Blocks /\ b <= t /\ t < sig
BY DEF TopBelow

\* Where the one or two tables lie that nmbm_load_info_table finds.
LEMMA FirstTableIn ==
    ASSUME ChipType, NEW sig \in Blocks, NEW f \in Blocks, FirstTable(f, sig)
    PROVE  MgmtStart <= f /\ f <= sig - 2 /\ content[f].image \in Images
<1>1. f \in Loadables(MgmtStart, NoImage.state, sig)
    BY DEF FirstTable
<1>. QED BY <1>1, LoadableIn

\* The second table lies above the first.
LEMMA SecondTableIn ==
    ASSUME ChipType, NEW sig \in Blocks, NEW f \in Blocks, NEW g \in Blocks,
           SecondTable(f, g, sig)
    PROVE  f < g /\ g <= sig - 2 /\ content[g].image \in Images
<1>1. g \in Loadables(f + 1, content[f].image.state, sig)
    BY DEF SecondTable
<1>2. f + 1 \in Nat
    OBVIOUS
<1>3. f + 1 <= g /\ g <= sig - 2 /\ content[g].image \in Images
    BY <1>1, <1>2, LoadableIn
<1>. QED BY <1>3

\* Where two tables leave the top of the spare blocks.
LEMMA LoadTwoIn ==
    ASSUME NEW sig \in Blocks, NEW f \in Blocks, NEW g \in Blocks, f < g,
           content[f].image \in Images, content[g].image \in Images,
           LoadTwo(sig, f, g)
    PROVE  /\ mapTop' \in Blocks /\ f <= mapTop' /\ mapTop' < sig
           /\ content[f].image.count < content[g].image.count => g <= mapTop'
<1>. DEFINE one == content[f].image
            two == content[g].image
<1>1. one.count \in Nat /\ two.count \in Nat
    BY DEF Images
<1>2. mapTop' \in IF one.count >= two.count THEN TopBelow(one, f, sig)
                                            ELSE TopBelow(two, g, sig)
    BY DEF LoadTwo
<1>. HIDE DEF one, two
<1>3. CASE one.count >= two.count
  <2>1. mapTop' \in Blocks /\ f <= mapTop' /\ mapTop' < sig
    BY <1>2, <1>3, TopBelowIn
  <2>2. ~(one.count < two.count)
    BY <1>1, <1>3
  <2>. QED BY <2>1, <2>2 DEF one, two
<1>4. CASE ~(one.count >= two.count)
  <2>1. mapTop' \in Blocks /\ g <= mapTop' /\ mapTop' < sig
    BY <1>2, <1>4, TopBelowIn
  <2>. QED BY <2>1
<1>. QED BY <1>3, <1>4

\* How an attach ends.
LEMMA AttachedType ==
    ASSUME NEW success \in BOOLEAN, Attached(success)
    PROVE  /\ protected' \in BOOLEAN /\ born' \in BOOLEAN
           /\ pc' = "idle" /\ w' = Idle /\ res' = "attached"
           /\ UNCHANGED <<after, lb>>
BY DEF Attached, Call, Goto

\* mapping_blocks_top_ba starts below the signature.
LEMMA SpareTopIn ==
    ASSUME LayoutType, NEW t \in SpareTops
    PROVE  t \in Blocks /\ MgmtStart < t /\ t < sigBlock
<1>1. t \in Blocks /\ MgmtStart < t /\ t <= sigBlock
    BY DEF LayoutType, SpareTops, Good
<1>2. t # sigBlock
  <2>. SUFFICES ASSUME t = sigBlock PROVE FALSE
    OBVIOUS
  <2>1. {x \in Good(state, t, sigBlock) : x > t} = {}
    BY DEF LayoutType, Good
  <2>2. Cardinality({x \in Good(state, t, sigBlock) : x > t}) = 0
    BY <2>1, FS_EmptySet
  <2>. QED BY <2>2 DEF SpareTops
<1>. QED BY <1>1, <1>2 DEF LayoutType

\* nmbm_write_mgmt_range keeps the invariant: it steps upwards, and stops at its limit.
LEMMA TableWriteKeeps ==
    ASSUME Inv, WriteTableSteps
    PROVE  Inv'
<1>. USE DEF Inv, TypeOK, ChipType, TableType, LayoutType, ControlType,
        EnvType, WriteRange, Ranges, WriteInv, CleanInv, SignInv, AfterInv,
        LayoutInv, EraseInv, Block, Running, Writing, Cleaning, UpdateCallers
<1>1. ASSUME TableSkip PROVE Inv'
  <2>1. ChipType'
    BY <1>1 DEF TableSkip, InTable, NextBlock, States
  <2>2. TableType'
    BY <1>1 DEF TableSkip, InTable, NextBlock, States
  <2>3. LayoutType'
    BY <1>1 DEF TableSkip, InTable, NextBlock
  <2>4. ControlType'
    BY <1>1, StepType DEF TableSkip, InTable, PCs, Returns, Callers
  <2>5. EnvType'
    BY <1>1 DEF TableSkip, InTable, NextBlock
  <2>6. Ranges'
    BY <1>1, <2>3, <2>4 DEF TableSkip, InTable, NextBlock
  <2>. QED BY <2>1, <2>2, <2>3, <2>4, <2>5, <2>6
<1>2. ASSUME TableFoundBad PROVE Inv'
  <2>1. ChipType'
    BY <1>2 DEF TableFoundBad, InTable, SetState, NextBlock, States
  <2>2. TableType'
    BY <1>2, SetStateType DEF TableFoundBad, InTable, FoundBad, Fails,
        NextBlock, States
  <2>3. LayoutType'
    BY <1>2 DEF TableFoundBad, InTable, FoundBad, Fails, SetState, NextBlock
  <2>4. ControlType'
    BY <1>2, StepType DEF TableFoundBad, InTable, FoundBad, Fails, SetState,
        PCs, Returns, Callers
  <2>5. EnvType'
    BY <1>2, CheckType DEF TableFoundBad, InTable, SetState, NextBlock
  <2>6. Ranges'
    BY <1>2, <2>3, <2>4 DEF TableFoundBad, InTable, FoundBad, Fails, SetState,
        NextBlock
  <2>. QED BY <2>1, <2>2, <2>3, <2>4, <2>5, <2>6
<1>3. ASSUME TableErase PROVE Inv'
  <2>1. ChipType'
    BY <1>3, EraseType DEF TableErase, InTable, FoundGood, Goto, States
  <2>2. TableType'
    BY <1>3 DEF TableErase, InTable, FoundGood, EraseOk, Goto, EraseFails,
        Fails, States
  <2>3. LayoutType'
    BY <1>3 DEF TableErase, InTable, FoundGood, EraseOk, Goto, EraseFails,
        Fails
  <2>4. ControlType'
    BY <1>3 DEF TableErase, InTable, FoundGood, EraseOk, Goto, EraseFails,
        Fails, PCs, Returns, Callers
  <2>5. EnvType'
    BY <1>3, EraseType DEF TableErase, InTable, FoundGood, Goto
  <2>6. Ranges'
    BY <1>3, <2>3, <2>4 DEF TableErase, InTable, FoundGood, EraseOk, Goto,
        EraseFails, Fails
  <2>. QED BY <2>1, <2>2, <2>3, <2>4, <2>5, <2>6
<1>4. ASSUME TableProgram PROVE Inv'
  <2>1. ChipType'
    BY <1>4, ProgramType, ContentKinds DEF TableProgram, InTable, Goto, States
  <2>2. TableType'
    BY <1>4 DEF TableProgram, InTable, ProgramOk, Goto, ProgramFails, Fails,
        States
  <2>3. LayoutType'
    BY <1>4 DEF TableProgram, InTable, ProgramOk, Goto, ProgramFails, Fails
  <2>4. ControlType'
    BY <1>4 DEF TableProgram, InTable, ProgramOk, Goto, ProgramFails, Fails,
        PCs, Returns, Callers
  <2>5. EnvType'
    BY <1>4, ProgramType, ContentKinds DEF TableProgram, InTable, Goto
  <2>6. Ranges'
    BY <1>4, <2>3, <2>4 DEF TableProgram, InTable, ProgramOk, Goto,
        ProgramFails, Fails
  <2>. QED BY <2>1, <2>2, <2>3, <2>4, <2>5, <2>6
<1>5. ASSUME TableMark PROVE Inv'
  <2>0. w.ba \in Blocks
    BY <1>5 DEF TableMark, InTable
  <2>1. ChipType'
    BY <1>5, <2>0, MarkType DEF TableMark, InTable, States
  <2>2. TableType'
    BY <1>5, SetStateType DEF TableMark, InTable, MarkBad, Fails, NextBlock,
        Goto, States
  <2>3. LayoutType'
    BY <1>5 DEF TableMark, InTable, MarkBad, Fails, SetState, NextBlock, Goto
  <2>4. ControlType'
    BY <1>5, StepType DEF TableMark, InTable, MarkBad, Fails, SetState, Goto,
        PCs, Returns, Callers
  <2>5. EnvType'
    BY <1>5, <2>0, MarkType DEF TableMark, InTable
  <2>6. Ranges'
    BY <1>5, <2>3, <2>4 DEF TableMark, InTable, MarkBad, Fails, SetState,
        NextBlock, Goto
  <2>. QED BY <2>1, <2>2, <2>3, <2>4, <2>5, <2>6
<1>. QED BY <1>1, <1>2, <1>3, <1>4, <1>5 DEF WriteTableSteps

\* nmbm_erase_range keeps the invariant.
LEMMA CleanKeeps ==
    ASSUME Inv, CleanSteps
    PROVE  Inv'
<1>. USE DEF Inv, TypeOK, ChipType, TableType, LayoutType, ControlType,
        EnvType, WriteRange, Ranges, WriteInv, CleanInv, SignInv, AfterInv,
        LayoutInv, EraseInv, Block, Running, Writing, Cleaning, UpdateCallers
<1>1. ASSUME CleanSkip PROVE Inv'
  <2>1. ChipType'
    BY <1>1 DEF CleanSkip, InTable, NextBlock, States
  <2>2. TableType'
    BY <1>1 DEF CleanSkip, InTable, NextBlock, States
  <2>3. LayoutType'
    BY <1>1 DEF CleanSkip, InTable, NextBlock
  <2>4. ControlType'
    BY <1>1, StepType DEF CleanSkip, InTable, PCs, Returns, Callers
  <2>5. EnvType'
    BY <1>1 DEF CleanSkip, InTable, NextBlock
  <2>6. Ranges'
    BY <1>1, <2>3, <2>4 DEF CleanSkip, InTable, NextBlock
  <2>. QED BY <2>1, <2>2, <2>3, <2>4, <2>5, <2>6
<1>2. ASSUME CleanFoundBad PROVE Inv'
  <2>1. ChipType'
    BY <1>2 DEF CleanFoundBad, InTable, SetState, NextBlock, States
  <2>2. TableType'
    BY <1>2, SetStateType DEF CleanFoundBad, InTable, FoundBad, Fails,
        NextBlock, States
  <2>3. LayoutType'
    BY <1>2 DEF CleanFoundBad, InTable, FoundBad, Fails, SetState, NextBlock
  <2>4. ControlType'
    BY <1>2, StepType DEF CleanFoundBad, InTable, FoundBad, Fails, SetState,
        PCs, Returns, Callers
  <2>5. EnvType'
    BY <1>2, CheckType DEF CleanFoundBad, InTable, SetState, NextBlock
  <2>6. Ranges'
    BY <1>2, <2>3, <2>4 DEF CleanFoundBad, InTable, FoundBad, Fails, SetState,
        NextBlock
  <2>. QED BY <2>1, <2>2, <2>3, <2>4, <2>5, <2>6
<1>3. ASSUME CleanErase PROVE Inv'
  <2>1. ChipType'
    BY <1>3, EraseType DEF CleanErase, InTable, FoundGood, NextBlock, Goto,
        States
  <2>2. TableType'
    BY <1>3 DEF CleanErase, InTable, FoundGood, EraseOk, NextBlock,
        EraseFails, Fails, Goto, States
  <2>3. LayoutType'
    BY <1>3 DEF CleanErase, InTable, FoundGood, EraseOk, NextBlock,
        EraseFails, Fails, Goto
  <2>4. ControlType'
    BY <1>3, StepType DEF CleanErase, InTable, FoundGood, EraseOk, EraseFails,
        Fails, Goto, PCs, Returns, Callers
  <2>5. EnvType'
    BY <1>3, EraseType DEF CleanErase, InTable, FoundGood, NextBlock, Goto
  <2>6. Ranges'
    BY <1>3, StepType, <2>3, <2>4 DEF CleanErase, InTable, Goto
  <2>. QED BY <2>1, <2>2, <2>3, <2>4, <2>5, <2>6
<1>4. ASSUME CleanMark PROVE Inv'
  <2>0. w.ba \in Blocks
    BY <1>4 DEF CleanMark, InTable
  <2>1. ChipType'
    BY <1>4, <2>0, MarkType DEF CleanMark, InTable, States
  <2>2. TableType'
    BY <1>4, SetStateType DEF CleanMark, InTable, MarkBad, Fails, NextBlock,
        Goto, States
  <2>3. LayoutType'
    BY <1>4 DEF CleanMark, InTable, MarkBad, Fails, SetState, NextBlock, Goto
  <2>4. ControlType'
    BY <1>4, StepType DEF CleanMark, InTable, MarkBad, Fails, SetState, Goto,
        PCs, Returns, Callers
  <2>5. EnvType'
    BY <1>4, <2>0, MarkType DEF CleanMark, InTable
  <2>6. Ranges'
    BY <1>4, <2>3, <2>4 DEF CleanMark, InTable, MarkBad, Fails, SetState,
        NextBlock, Goto
  <2>. QED BY <2>1, <2>2, <2>3, <2>4, <2>5, <2>6
<1>. QED BY <1>1, <1>2, <1>3, <1>4 DEF CleanSteps

\* nmbm_rebuild_info_table keeps the invariant: the tables it writes start inside the
\* management area and end below the spare blocks in use.
LEMMA RebuildKeeps ==
    ASSUME Inv, RebuildSteps
    PROVE  Inv'
<1>. USE DEF Inv, TypeOK, ChipType, TableType, LayoutType, ControlType,
        EnvType, WriteRange, Ranges, WriteInv, CleanInv, SignInv, AfterInv,
        LayoutInv, EraseInv, Block, Running, Writing, Cleaning, UpdateCallers
<1>1. ASSUME NewMainFails PROVE Inv'
  <2>1. ChipType'
    BY <1>1 DEF NewMainFails, Exhausted, UpdateFails, Goto, States
  <2>2. TableType'
    BY <1>1 DEF NewMainFails, Exhausted, UpdateFails, Goto, States
  <2>3. LayoutType'
    BY <1>1 DEF NewMainFails, Exhausted, UpdateFails, Goto
  <2>4. ControlType'
    BY <1>1 DEF NewMainFails, Exhausted, UpdateFails, Goto, PCs, Returns,
        Callers
  <2>5. EnvType'
    BY <1>1 DEF NewMainFails, Exhausted, UpdateFails, Goto
  <2>6. Ranges'
    BY <1>1, <2>4 DEF NewMainFails, Exhausted, UpdateFails, Goto, Returns
  <2>. QED BY <2>1, <2>2, <2>3, <2>4, <2>5, <2>6
<1>2. ASSUME NewMainWritten PROVE Inv'
  <2>1. ChipType'
    BY <1>2 DEF NewMainWritten, Written, TableStart, TableEnd, Reservable,
        Good, RebuildDone, Goto, Reserved, IsNth, Least, WriteTable, States
  <2>2. TableType'
    BY <1>2 DEF NewMainWritten, Written, TableStart, TableEnd, Reservable,
        Good, RebuildDone, Goto, Reserved, IsNth, Least, WriteTable, States
  <2>3. LayoutType'
    BY <1>2, ReservableIn DEF NewMainWritten, Written, TableStart, TableEnd,
        RebuildDone, Goto, WriteTable
  <2>4. ControlType'
    BY <1>2, ReservableIn, CallType, IdleType DEF NewMainWritten, Written,
        TableStart, TableEnd, RebuildDone, Goto, WriteTable, PCs, Returns,
        Callers
  <2>5. EnvType'
    BY <1>2 DEF NewMainWritten, Written, TableStart, TableEnd, Reservable,
        Good, RebuildDone, Goto, Reserved, IsNth, Least, WriteTable
  <2>6. Ranges'
    BY <1>2, <2>3, <2>4, ReservableIn, SMTT(30) DEF NewMainWritten, Written, TableStart,
        TableEnd, RebuildDone, Goto, WriteTable
  <2>. QED BY <2>1, <2>2, <2>3, <2>4, <2>5, <2>6
<1>3. ASSUME NewBackupFails PROVE Inv'
  <2>1. ChipType'
    BY <1>3 DEF NewBackupFails, Exhausted, RebuildDone, Goto, States
  <2>2. TableType'
    BY <1>3 DEF NewBackupFails, Exhausted, RebuildDone, Goto, States
  <2>3. LayoutType'
    BY <1>3 DEF NewBackupFails, Exhausted, RebuildDone, Goto
  <2>4. ControlType'
    BY <1>3 DEF NewBackupFails, Exhausted, RebuildDone, Goto, PCs, Returns,
        Callers
  <2>5. EnvType'
    BY <1>3 DEF NewBackupFails, Exhausted, RebuildDone, Goto
  <2>6. Ranges'
    BY <1>3, <2>3, <2>4 DEF NewBackupFails, Exhausted, RebuildDone, Goto
  <2>. QED BY <2>1, <2>2, <2>3, <2>4, <2>5, <2>6
<1>4. ASSUME NewBackupWritten PROVE Inv'
  <2>1. ChipType'
    BY <1>4 DEF NewBackupWritten, Written, TableStart, TableEnd, CleanRange,
        Goto, States
  <2>2. TableType'
    BY <1>4 DEF NewBackupWritten, Written, TableStart, TableEnd, CleanRange,
        Goto, States
  <2>3. LayoutType'
    BY <1>4 DEF NewBackupWritten, Written, TableStart, TableEnd, CleanRange,
        Goto
  <2>4. ControlType'
    BY <1>4, CallType DEF NewBackupWritten, Written, TableStart, TableEnd,
        CleanRange, Goto, PCs, Returns, Callers
  <2>5. EnvType'
    BY <1>4 DEF NewBackupWritten, Written, TableStart, TableEnd, CleanRange,
        Goto
  <2>6. Ranges'
    BY <1>4, <2>3, <2>4 DEF NewBackupWritten, Written, TableStart, TableEnd,
        CleanRange, Goto
  <2>. QED BY <2>1, <2>2, <2>3, <2>4, <2>5, <2>6
<1>5. ASSUME NewBackupCleaned PROVE Inv'
  <2>1. ChipType'
    BY <1>5 DEF NewBackupCleaned, Cleaned, RebuildDone, Goto, States
  <2>2. TableType'
    BY <1>5 DEF NewBackupCleaned, Cleaned, RebuildDone, Goto, States
  <2>3. LayoutType'
    BY <1>5 DEF NewBackupCleaned, Cleaned, RebuildDone, Goto
  <2>4. ControlType'
    BY <1>5 DEF NewBackupCleaned, Cleaned, RebuildDone, Goto, PCs, Returns,
        Callers
  <2>5. EnvType'
    BY <1>5 DEF NewBackupCleaned, Cleaned, RebuildDone, Goto
  <2>6. Ranges'
    BY <1>5, <2>3, <2>4 DEF NewBackupCleaned, Cleaned, RebuildDone, Goto
  <2>. QED BY <2>1, <2>2, <2>3, <2>4, <2>5, <2>6
<1>. QED BY <1>1, <1>2, <1>3, <1>4, <1>5 DEF RebuildSteps

\* nmbm_update_info_table and nmbm_rescue_main_info_table keep the invariant: the
\* temporary table lies below mapTop, and leaves room for the new main table.
LEMMA UpdateKeeps ==
    ASSUME Inv, UpdateSteps
    PROVE  Inv'
<1>. USE DEF Inv, TypeOK, ChipType, TableType, LayoutType, ControlType,
        EnvType, WriteRange, Ranges, WriteInv, CleanInv, SignInv, AfterInv,
        LayoutInv, EraseInv, Block, Running, Writing, Cleaning, UpdateCallers
<1>1. ASSUME UpdateDone PROVE Inv'
  <2>1. ChipType'
    BY <1>1 DEF UpdateDone, Goto, States
  <2>2. TableType'
    BY <1>1 DEF UpdateDone, Goto, States
  <2>3. LayoutType'
    BY <1>1 DEF UpdateDone, Goto
  <2>4. ControlType'
    BY <1>1 DEF UpdateDone, Goto, PCs, Returns, Callers
  <2>5. EnvType'
    BY <1>1 DEF UpdateDone, Goto
  <2>6. Ranges'
    BY <1>1, <2>4 DEF UpdateDone, Goto, Returns
  <2>. QED BY <2>1, <2>2, <2>3, <2>4, <2>5, <2>6
<1>2. ASSUME UpdateStart PROVE Inv'
  <2>1. ChipType'
    BY <1>2 DEF UpdateStart, GenerateCache, NextCount, WriteTable, Goto,
        States
  <2>2. TableType'
    BY <1>2, CacheType DEF UpdateStart, WriteTable, Goto, States
  <2>3. LayoutType'
    BY <1>2 DEF UpdateStart, GenerateCache, NextCount, WriteTable, Goto
  <2>4. ControlType'
    BY <1>2, CallType DEF UpdateStart, GenerateCache, NextCount, WriteTable,
        Goto, PCs, Returns, Callers
  <2>5. EnvType'
    BY <1>2 DEF UpdateStart, GenerateCache, NextCount, WriteTable, Goto
  <2>6. Ranges'
    BY <1>2, <2>3, <2>4 DEF UpdateStart, GenerateCache, NextCount, WriteTable,
        Goto
  <2>. QED BY <2>1, <2>2, <2>3, <2>4, <2>5, <2>6
<1>3. ASSUME BackupWritten PROVE Inv'
  <2>1. ChipType'
    BY <1>3 DEF BackupWritten, Written, TableStart, TableEnd, WriteTable,
        Goto, States
  <2>2. TableType'
    BY <1>3 DEF BackupWritten, Written, TableStart, TableEnd, WriteTable,
        Goto, States
  <2>3. LayoutType'
    BY <1>3 DEF BackupWritten, Written, TableStart, TableEnd, WriteTable, Goto
  <2>4. ControlType'
    BY <1>3, CallType DEF BackupWritten, Written, TableStart, TableEnd,
        WriteTable, Goto, PCs, Returns, Callers
  <2>5. EnvType'
    BY <1>3 DEF BackupWritten, Written, TableStart, TableEnd, WriteTable, Goto
  <2>6. Ranges'
    BY <1>3, <2>3, <2>4 DEF BackupWritten, Written, TableStart, TableEnd,
        WriteTable, Goto
  <2>. QED BY <2>1, <2>2, <2>3, <2>4, <2>5, <2>6
<1>4. ASSUME BackupFails PROVE Inv'
  <2>1. ChipType'
    BY <1>4 DEF BackupFails, Exhausted, WriteTable, Goto, States
  <2>2. TableType'
    BY <1>4 DEF BackupFails, Exhausted, WriteTable, Goto, States
  <2>3. LayoutType'
    BY <1>4 DEF BackupFails, Exhausted, WriteTable, Goto
  <2>4. ControlType'
    BY <1>4, CallType DEF BackupFails, Exhausted, WriteTable, Goto, PCs,
        Returns, Callers
  <2>5. EnvType'
    BY <1>4 DEF BackupFails, Exhausted, WriteTable, Goto
  <2>6. Ranges'
    BY <1>4, <2>3, <2>4 DEF BackupFails, Exhausted, WriteTable, Goto
  <2>. QED BY <2>1, <2>2, <2>3, <2>4, <2>5, <2>6
<1>5. ASSUME MainWritten PROVE Inv'
  <2>1. ChipType'
    BY <1>5 DEF MainWritten, Written, TableStart, TableEnd, Goto, States
  <2>2. TableType'
    BY <1>5 DEF MainWritten, Written, TableStart, TableEnd, Goto, States
  <2>3. LayoutType'
    BY <1>5 DEF MainWritten, Written, TableStart, TableEnd, Goto
  <2>4. ControlType'
    BY <1>5 DEF MainWritten, Written, TableStart, TableEnd, Goto, PCs,
        Returns, Callers
  <2>5. EnvType'
    BY <1>5 DEF MainWritten, Written, TableStart, TableEnd, Goto
  <2>6. Ranges'
    BY <1>5, <2>3, <2>4 DEF MainWritten, Written, TableStart, TableEnd, Goto
  <2>. QED BY <2>1, <2>2, <2>3, <2>4, <2>5, <2>6
<1>6. ASSUME MainFailsAlone PROVE Inv'
  <2>1. ChipType'
    BY <1>6 DEF MainFailsAlone, Exhausted, Rebuild, WriteTable, Goto, States
  <2>2. TableType'
    BY <1>6 DEF MainFailsAlone, Exhausted, Rebuild, WriteTable, Goto, States
  <2>3. LayoutType'
    BY <1>6 DEF MainFailsAlone, Exhausted, Rebuild, WriteTable, Goto
  <2>4. ControlType'
    BY <1>6, CallType DEF MainFailsAlone, Exhausted, Rebuild, WriteTable,
        Goto, PCs, Returns, Callers
  <2>5. EnvType'
    BY <1>6 DEF MainFailsAlone, Exhausted, Rebuild, WriteTable, Goto
  <2>6. Ranges'
    BY <1>6, <2>3, <2>4 DEF MainFailsAlone, Exhausted, Rebuild, WriteTable,
        Goto
  <2>. QED BY <2>1, <2>2, <2>3, <2>4, <2>5, <2>6
<1>7. ASSUME MainFails PROVE Inv'
  <2>1. ChipType'
    BY <1>7 DEF MainFails, Exhausted, Reservable, Good, BackupTakesOver, Goto,
        Reserved, IsNth, Least, WriteTable, States
  <2>2. TableType'
    BY <1>7 DEF MainFails, Exhausted, Reservable, Good, BackupTakesOver, Goto,
        Reserved, IsNth, Least, WriteTable, States
  <2>3. LayoutType'
    BY <1>7, ReservableIn DEF MainFails, Exhausted, BackupTakesOver, Goto,
        WriteTable
  <2>4. ControlType'
    BY <1>7, ReservableIn, CallType, IdleType DEF MainFails, Exhausted,
        BackupTakesOver, Goto, WriteTable, PCs, Returns, Callers
  <2>5. EnvType'
    BY <1>7 DEF MainFails, Exhausted, Reservable, Good, BackupTakesOver, Goto,
        Reserved, IsNth, Least, WriteTable
  <2>6. Ranges'
    BY <1>7, <2>3, <2>4, ReservableIn DEF MainFails, Exhausted, BackupTakesOver,
        Goto, WriteTable
  <2>. QED BY <2>1, <2>2, <2>3, <2>4, <2>5, <2>6
<1>8. ASSUME TempFails PROVE Inv'
  <2>1. ChipType'
    BY <1>8 DEF TempFails, Exhausted, WriteTable, Goto, BackupTakesOver,
        States
  <2>2. TableType'
    BY <1>8 DEF TempFails, Exhausted, WriteTable, Goto, BackupTakesOver,
        States
  <2>3. LayoutType'
    BY <1>8 DEF TempFails, Exhausted, WriteTable, Goto, BackupTakesOver
  <2>4. ControlType'
    BY <1>8, CallType DEF TempFails, Exhausted, WriteTable, Goto,
        BackupTakesOver, PCs, Returns, Callers
  <2>5. EnvType'
    BY <1>8 DEF TempFails, Exhausted, WriteTable, Goto, BackupTakesOver
  <2>6. Ranges'
    BY <1>8, <2>3, <2>4 DEF TempFails, Exhausted, WriteTable, Goto,
        BackupTakesOver
  <2>. QED BY <2>1, <2>2, <2>3, <2>4, <2>5, <2>6
<1>9. ASSUME TempWritten PROVE Inv'
  <2>1. ChipType'
    BY <1>9 DEF TempWritten, Written, TableEnd, WriteTable, Goto, TableStart,
        States
  <2>2. TableType'
    BY <1>9 DEF TempWritten, Written, TableEnd, WriteTable, Goto, TableStart,
        States
  <2>3. LayoutType'
    BY <1>9 DEF TempWritten, Written, TableEnd, WriteTable, Goto, TableStart
  <2>4. ControlType'
    BY <1>9, CallType DEF TempWritten, Written, TableEnd, WriteTable, Goto,
        TableStart, PCs, Returns, Callers
  <2>5. EnvType'
    BY <1>9 DEF TempWritten, Written, TableEnd, WriteTable, Goto, TableStart
  <2>6. Ranges'
    BY <1>9, <2>3, <2>4 DEF TempWritten, Written, TableEnd, WriteTable, Goto,
        TableStart
  <2>. QED BY <2>1, <2>2, <2>3, <2>4, <2>5, <2>6
<1>10. ASSUME RescueEnds PROVE Inv'
  <2>1. ChipType'
    BY <1>10 DEF RescueEnds, Written, TableStart, Exhausted, Goto, States
  <2>2. TableType'
    BY <1>10 DEF RescueEnds, Written, TableStart, Exhausted, Goto, States
  <2>3. LayoutType'
    BY <1>10 DEF RescueEnds, Written, TableStart, Exhausted, Goto
  <2>4. ControlType'
    BY <1>10 DEF RescueEnds, Written, TableStart, Exhausted, Goto, PCs,
        Returns, Callers
  <2>5. EnvType'
    BY <1>10 DEF RescueEnds, Written, TableStart, Exhausted, Goto
  <2>6. Ranges'
    BY <1>10, <2>3, <2>4 DEF RescueEnds, Written, TableStart, Exhausted, Goto
  <2>. QED BY <2>1, <2>2, <2>3, <2>4, <2>5, <2>6
<1>. QED BY <1>1, <1>2, <1>3, <1>4, <1>5, <1>6, <1>7, <1>8, <1>9, <1>10 DEF
        UpdateSteps

\* An attach that finds tables (nmbm_load_info_table, nmbm_rescue_single_info_table)
\* keeps the invariant.
LEMMA LoadKeeps ==
    ASSUME Inv, LoadSteps
    PROVE  Inv'
<1>. USE DEF Inv, TypeOK, ChipType, TableType, LayoutType, ControlType,
        EnvType, WriteRange, Ranges, WriteInv, CleanInv, SignInv, AfterInv,
        LayoutInv, EraseInv, Block, Running, Writing, Cleaning, UpdateCallers
<1>1. ASSUME AttachOneTable PROVE Inv'
  <2>0. PICK sig \in Blocks, f \in Blocks : LoadOne(sig, f)
    BY <1>1 DEF AttachOneTable
  <2>a. MgmtStart <= f /\ f <= sig - 2 /\ content[f].image \in Images
    BY <2>0, LoadableIn DEF LoadOne, FirstTable
  <2>b. mapTop' \in Blocks /\ f <= mapTop' /\ mapTop' < sig
    BY <2>0, TopBelowIn DEF LoadOne
  <2>1. ChipType'
    BY <1>1 DEF AttachOneTable
  <2>2. TableType'
    <3>1. Passed(content[f].image.state, f + 1, sig - 2) \in [Blocks -> States]
      BY <2>a, PassedType DEF Images
    <3>. QED BY <2>0, <2>a, <3>1, LoadType DEF LoadOne
  <2>3. LayoutType'
    <3>1. dataCount' \in 0 .. MgmtStart
      BY <2>0 DEF LoadOne, LoadInto, CountOf
    <3>2. protected' \in BOOLEAN
      BY <1>1 DEF AttachOneTable
    <3>. QED BY <2>0, <2>a, <2>b, <3>1, <3>2 DEF LoadOne
  <2>4. ControlType'
    BY <1>1, <2>0, CallType
    DEF AttachOneTable, LoadOne, WriteTable, Goto, PCs, Callers
  <2>5. EnvType'
    BY <1>1 DEF AttachOneTable
  <2>6. Ranges'
    BY <1>1, <2>0, <2>a, <2>b, <2>3
    DEF AttachOneTable, LoadOne, WriteTable, Goto
  <2>. QED BY <2>1, <2>2, <2>3, <2>4, <2>5, <2>6
<1>2. ASSUME AttachTwoTables PROVE Inv'
  <2>0. PICK sig \in Blocks, f \in Blocks, g \in Blocks : LoadTwo(sig, f, g)
    BY <1>2 DEF AttachTwoTables
  <2>t. FirstTable(f, sig) /\ SecondTable(f, g, sig)
    BY <2>0 DEF LoadTwo
  <2>a. MgmtStart <= f /\ f <= sig - 2 /\ content[f].image \in Images
    BY <2>t, FirstTableIn
  <2>b. f < g /\ g <= sig - 2 /\ content[g].image \in Images
    BY <2>t, SecondTableIn
  <2>c. mapTop' \in Blocks /\ f <= mapTop' /\ mapTop' < sig
    BY <2>0, <2>a, <2>b, LoadTwoIn
  <2>d. content[f].image.count < content[g].image.count => g <= mapTop'
    BY <2>0, <2>a, <2>b, LoadTwoIn
  <2>e. sigBlock' = sig /\ main' = f /\ backup' = g /\ mapBase' = g + 1
    BY <2>0 DEF LoadTwo
  <2>f. \/ Attached(TRUE)
        \/ /\ content[f].image.count < content[g].image.count
           /\ w' = [from |-> f, ba |-> f, limit |-> g, ret |-> "loadMain"]
           /\ pc' = "table" /\ UNCHANGED <<protected, after, lb, res, born>>
        \/ /\ w' = [from |-> g, ba |-> g, limit |-> mapTop', ret |-> "loadBackup"]
           /\ pc' = "table" /\ UNCHANGED <<protected, after, lb, res, born>>
    BY <2>0 DEF LoadTwo, WriteTable, Goto
  <2>g. TableType' /\ dataCount' \in 0 .. MgmtStart
    <3>1. Passed(content[f].image.state, f + 1, g - 1) \in [Blocks -> States]
      BY <2>a, PassedType DEF Images
    <3>2. content[g].image.state \in [Blocks -> States]
      BY <2>b DEF Images
    <3>3. changed' \in BOOLEAN
      BY <2>0 DEF LoadTwo
    <3>. QED BY <2>0, <2>a, <2>b, <3>1, <3>2, <3>3, LoadType DEF LoadTwo
  <2>h. f \in Nat /\ g \in Nat /\ mapTop' \in Nat /\ f # 0 /\ g # 0
    BY <2>a, <2>b, <2>c
  <2>1. ChipType'
    BY <1>2 DEF AttachTwoTables
  <2>2. TableType'
    BY <2>g
  <2>3. LayoutType'
    <3>1. protected' \in BOOLEAN
      BY <2>f, AttachedType
    <3>. QED BY <2>0, <2>a, <2>b, <2>c, <2>e, <2>g, <3>1
  <2>4. ControlType'
    <3>1. CASE Attached(TRUE)
      <4>1. pc' = "idle" /\ w' = Idle /\ res' = "attached" /\ UNCHANGED <<after, lb>>
        BY <3>1, AttachedType
      <4>. QED BY <4>1, IdleType DEF PCs
    <3>2. CASE /\ w' = [from |-> f, ba |-> f, limit |-> g, ret |-> "loadMain"]
               /\ pc' = "table" /\ UNCHANGED <<protected, after, lb, res, born>>
      <4>1. w' \in WriteRange
        BY <2>h, <3>2, CallType DEF Callers
      <4>. QED BY <3>2, <4>1 DEF PCs
    <3>3. CASE /\ w' = [from |-> g, ba |-> g, limit |-> mapTop', ret |-> "loadBackup"]
               /\ pc' = "table" /\ UNCHANGED <<protected, after, lb, res, born>>
      <4>1. w' \in WriteRange
        BY <2>h, <3>3, CallType DEF Callers
      <4>. QED BY <3>3, <4>1 DEF PCs
    <3>. QED BY <2>f, <3>1, <3>2, <3>3
  <2>5. EnvType'
    BY <1>2, <2>f, AttachedType DEF AttachTwoTables
  <2>6. Ranges'
    <3>1. /\ mapTop' < sigBlock' /\ mapBase' < sigBlock'
          /\ main' < sigBlock' /\ backup' < sigBlock'
          /\ MgmtStart <= mapBase' /\ MgmtStart <= mapTop'
          /\ main' # NoBlock /\ MgmtStart <= main'
          /\ backup' # NoBlock /\ MgmtStart <= backup'
      BY <2>a, <2>b, <2>c, <2>e, <2>h
    <3>2. CASE Attached(TRUE)
      <4>1. pc' = "idle"
        BY <3>2, AttachedType
      <4>. QED BY <3>1, <4>1
    <3>3. CASE /\ w' = [from |-> f, ba |-> f, limit |-> g, ret |-> "loadMain"]
               /\ pc' = "table" /\ UNCHANGED <<protected, after, lb, res, born>>
               /\ content[f].image.count < content[g].image.count
      BY <2>a, <2>b, <2>d, <2>e, <2>h, <3>1, <3>3
    <3>4. CASE /\ w' = [from |-> g, ba |-> g, limit |-> mapTop', ret |-> "loadBackup"]
               /\ pc' = "table" /\ UNCHANGED <<protected, after, lb, res, born>>
      BY <2>b, <2>e, <2>h, <3>1, <3>4
    <3>. QED BY <2>f, <3>2, <3>3, <3>4
  <2>. QED BY <2>1, <2>2, <2>3, <2>4, <2>5, <2>6
<1>3. ASSUME LoadMainWritten PROVE Inv'
  <2>1. ChipType'
    BY <1>3 DEF LoadMainWritten, Written, TableStart, Attached, Call, Goto,
        Idle, States
  <2>2. TableType'
    BY <1>3 DEF LoadMainWritten, Written, TableStart, Attached, Call, Goto,
        Idle, States
  <2>3. LayoutType'
    BY <1>3 DEF LoadMainWritten, Written, TableStart, Attached, Call, Goto,
        Idle
  <2>4. ControlType'
    BY <1>3, IdleType DEF LoadMainWritten, Written, TableStart, Attached,
        Call, Goto, PCs, Returns, Callers
  <2>5. EnvType'
    BY <1>3 DEF LoadMainWritten, Written, TableStart, Attached, Call, Goto,
        Idle
  <2>6. Ranges'
    BY <1>3, <2>3, <2>4 DEF LoadMainWritten, Written, TableStart, Attached,
        Call, Goto, Idle
  <2>. QED BY <2>1, <2>2, <2>3, <2>4, <2>5, <2>6
<1>4. ASSUME LoadMainFails PROVE Inv'
  <2>1. ChipType'
    BY <1>4 DEF LoadMainFails, Exhausted, WriteTable, Goto, States
  <2>2. TableType'
    BY <1>4 DEF LoadMainFails, Exhausted, WriteTable, Goto, States
  <2>3. LayoutType'
    BY <1>4 DEF LoadMainFails, Exhausted, WriteTable, Goto
  <2>4. ControlType'
    BY <1>4, CallType DEF LoadMainFails, Exhausted, WriteTable, Goto, PCs,
        Returns, Callers
  <2>5. EnvType'
    BY <1>4 DEF LoadMainFails, Exhausted, WriteTable, Goto
  <2>6. Ranges'
    BY <1>4, <2>3, <2>4 DEF LoadMainFails, Exhausted, WriteTable, Goto
  <2>. QED BY <2>1, <2>2, <2>3, <2>4, <2>5, <2>6
<1>5. ASSUME LoadBackupEnds PROVE Inv'
  <2>1. ChipType'
    BY <1>5 DEF LoadBackupEnds, Written, TableStart, TableEnd, Attached, Call,
        Goto, Idle, Exhausted, States
  <2>2. TableType'
    BY <1>5 DEF LoadBackupEnds, Written, TableStart, TableEnd, Attached, Call,
        Goto, Idle, Exhausted, States
  <2>3. LayoutType'
    <3>1. protected' \in BOOLEAN
      BY <1>5, AttachedType DEF LoadBackupEnds
    <3>2. CASE Written("loadBackup")
      <4>1. backup' = w.ba /\ mapBase' = w.ba + 1
        BY <1>5, <3>2 DEF LoadBackupEnds, Written, TableStart, TableEnd, Exhausted
      <4>2. w.ba \in Nat /\ w.ba < w.limit /\ w.limit <= mapTop
        BY <3>2 DEF Written
      <4>3. backup' \in Blocks /\ mapBase' \in Blocks
        BY <4>1, <4>2
      <4>. QED BY <1>5, <3>1, <4>3 DEF LoadBackupEnds
    <3>3. CASE Exhausted("loadBackup")
      <4>1. backup' = 0 /\ mapBase' = backup
        BY <1>5, <3>3 DEF LoadBackupEnds, Written, Exhausted
      <4>2. backup' \in Blocks /\ mapBase' \in Blocks
        BY <4>1
      <4>. QED BY <1>5, <3>1, <4>2 DEF LoadBackupEnds
    <3>. QED BY <1>5, <3>2, <3>3 DEF LoadBackupEnds
  <2>4. ControlType'
    BY <1>5, IdleType DEF LoadBackupEnds, Written, TableStart, TableEnd,
        Attached, Call, Goto, Exhausted, PCs, Returns, Callers
  <2>5. EnvType'
    BY <1>5 DEF LoadBackupEnds, Written, TableStart, TableEnd, Attached, Call,
        Goto, Idle, Exhausted
  <2>6. Ranges'
    BY <1>5, <2>3, <2>4 DEF LoadBackupEnds, Written, TableStart, TableEnd,
        Attached, Call, Goto, Idle, Exhausted
  <2>. QED BY <2>1, <2>2, <2>3, <2>4, <2>5, <2>6
<1>6. ASSUME FrontWritten PROVE Inv'
  <2>1. ChipType'
    BY <1>6 DEF FrontWritten, Written, TableStart, CleanRange, Goto, TableEnd,
        States
  <2>2. TableType'
    BY <1>6 DEF FrontWritten, Written, TableStart, CleanRange, Goto, TableEnd,
        States
  <2>3. LayoutType'
    BY <1>6 DEF FrontWritten, Written, TableStart, CleanRange, Goto, TableEnd
  <2>4. ControlType'
    <3>1. TableEnd \in Nat /\ main \in Nat
      BY <1>6 DEF TableEnd
    <3>. QED BY <1>6, <3>1, CallType DEF FrontWritten, CleanRange, Goto, PCs, Callers
  <2>5. EnvType'
    BY <1>6 DEF FrontWritten, Written, TableStart, CleanRange, Goto, TableEnd
  <2>6. Ranges'
    BY <1>6, <2>3, <2>4 DEF FrontWritten, Written, TableStart, CleanRange,
        Goto, TableEnd
  <2>. QED BY <2>1, <2>2, <2>3, <2>4, <2>5, <2>6
<1>7. ASSUME FrontCleaned PROVE Inv'
  <2>1. ChipType'
    BY <1>7 DEF FrontCleaned, Cleaned, Attached, Call, Goto, Idle, States
  <2>2. TableType'
    BY <1>7 DEF FrontCleaned, Cleaned, Attached, Call, Goto, Idle, States
  <2>3. LayoutType'
    BY <1>7 DEF FrontCleaned, Cleaned, Attached, Call, Goto, Idle
  <2>4. ControlType'
    BY <1>7, IdleType DEF FrontCleaned, Cleaned, Attached, Call, Goto, PCs,
        Returns, Callers
  <2>5. EnvType'
    BY <1>7 DEF FrontCleaned, Cleaned, Attached, Call, Goto, Idle
  <2>6. Ranges'
    BY <1>7, <2>3, <2>4 DEF FrontCleaned, Cleaned, Attached, Call, Goto, Idle
  <2>. QED BY <2>1, <2>2, <2>3, <2>4, <2>5, <2>6
<1>8. ASSUME FrontFails PROVE Inv'
  <2>1. ChipType'
    BY <1>8 DEF FrontFails, Exhausted, Reservable, Good, Attached, Call, Goto,
        Idle, Reserved, IsNth, Least, WriteTable, States
  <2>2. TableType'
    BY <1>8 DEF FrontFails, Exhausted, Reservable, Good, Attached, Call, Goto,
        Idle, Reserved, IsNth, Least, WriteTable, States
  <2>3. LayoutType'
    BY <1>8, ReservableIn DEF FrontFails, Exhausted, Attached, Call, Goto, Idle,
        WriteTable
  <2>4. ControlType'
    <3>1. CASE Attached(FALSE)
      <4>1. pc' = "idle" /\ w' = Idle /\ res' = "attached" /\ UNCHANGED <<after, lb>>
        BY <3>1, AttachedType
      <4>. QED BY <4>1, IdleType DEF PCs
    <3>2. ASSUME NEW b \in Reservable(mapBase), WriteTable(b, mapTop, "next"),
                 UNCHANGED <<after, lb, res>>
          PROVE  ControlType'
      <4>1. b \in Nat /\ mapTop \in Nat
        BY ReservableIn
      <4>2. w' \in WriteRange
        BY <3>2, <4>1, CallType DEF WriteTable, Callers
      <4>. QED BY <3>2, <4>2 DEF WriteTable, Goto, PCs
    <3>. QED BY <1>8, <3>1, <3>2 DEF FrontFails
  <2>5. EnvType'
    BY <1>8 DEF FrontFails, Exhausted, Reservable, Good, Attached, Call, Goto,
        Idle, Reserved, IsNth, Least, WriteTable
  <2>6. Ranges'
    BY <1>8, <2>3, <2>4, ReservableIn DEF FrontFails, Exhausted, Attached, Call,
        Goto, Idle, WriteTable
  <2>. QED BY <2>1, <2>2, <2>3, <2>4, <2>5, <2>6
<1>9. ASSUME NextFails PROVE Inv'
  <2>1. ChipType'
    BY <1>9 DEF NextFails, Exhausted, WriteTable, Goto, Attached, Call, Idle,
        States
  <2>2. TableType'
    BY <1>9 DEF NextFails, Exhausted, WriteTable, Goto, Attached, Call, Idle,
        States
  <2>3. LayoutType'
    BY <1>9 DEF NextFails, Exhausted, WriteTable, Goto, Attached, Call, Idle
  <2>4. ControlType'
    BY <1>9, CallType, IdleType, SMTT(30) DEF NextFails, Exhausted, WriteTable, Goto,
        Attached, Call, PCs, Returns, Callers
  <2>5. EnvType'
    BY <1>9 DEF NextFails, Exhausted, WriteTable, Goto, Attached, Call, Idle
  <2>6. Ranges'
    BY <1>9, <2>3, <2>4 DEF NextFails, Exhausted, WriteTable, Goto, Attached,
        Call, Idle
  <2>. QED BY <2>1, <2>2, <2>3, <2>4, <2>5, <2>6
<1>10. ASSUME NextWritten PROVE Inv'
  <2>1. ChipType'
    BY <1>10 DEF NextWritten, Written, CleanRange, Goto, TableStart, States
  <2>2. TableType'
    BY <1>10 DEF NextWritten, Written, CleanRange, Goto, TableStart, States
  <2>3. LayoutType'
    BY <1>10 DEF NextWritten, Written, CleanRange, Goto, TableStart
  <2>4. ControlType'
    BY <1>10, CallType DEF NextWritten, Written, CleanRange, Goto, TableStart,
        PCs, Returns, Callers
  <2>5. EnvType'
    BY <1>10 DEF NextWritten, Written, CleanRange, Goto, TableStart
  <2>6. Ranges'
    BY <1>10, <2>3, <2>4 DEF NextWritten, Written, CleanRange, Goto,
        TableStart
  <2>. QED BY <2>1, <2>2, <2>3, <2>4, <2>5, <2>6
<1>11. ASSUME NextCleaned PROVE Inv'
  <2>1. ChipType'
    BY <1>11 DEF NextCleaned, Cleaned, Attached, Call, Goto, Idle, States
  <2>2. TableType'
    BY <1>11 DEF NextCleaned, Cleaned, Attached, Call, Goto, Idle, States
  <2>3. LayoutType'
    BY <1>11 DEF NextCleaned, Cleaned, Attached, Call, Goto, Idle
  <2>4. ControlType'
    BY <1>11, IdleType DEF NextCleaned, Cleaned, Attached, Call, Goto, PCs,
        Returns, Callers
  <2>5. EnvType'
    BY <1>11 DEF NextCleaned, Cleaned, Attached, Call, Goto, Idle
  <2>6. Ranges'
    BY <1>11, <2>3, <2>4 DEF NextCleaned, Cleaned, Attached, Call, Goto, Idle
  <2>. QED BY <2>1, <2>2, <2>3, <2>4, <2>5, <2>6
<1>. QED BY <1>1, <1>2, <1>3, <1>4, <1>5, <1>6, <1>7, <1>8, <1>9, <1>10, <1>11
        DEF LoadSteps

\* An attach that creates tables (nmbm_write_signature, nmbm_create_info_table)
\* keeps the invariant: the spare blocks start below the signature.
LEMMA CreateKeeps ==
    ASSUME Inv, CreateSteps
    PROVE  Inv'
<1>. USE DEF Inv, TypeOK, ChipType, TableType, LayoutType, ControlType,
        EnvType, WriteRange, Ranges, WriteInv, CleanInv, SignInv, AfterInv,
        LayoutInv, EraseInv, Block, Running, Writing, Cleaning, UpdateCallers
<1>1. ASSUME AttachNew PROVE Inv'
  <2>0. w' = [from |-> 0, ba |-> BlockCount - 1, limit |-> MgmtStart, ret |-> "none"]
    BY <1>1 DEF AttachNew, Idle
  <2>a. TableType' /\ dataCount' \in 0 .. MgmtStart /\ faults' \in Nat
    BY <1>1, NoImageType, ScanType DEF AttachNew, Images
  <2>1. ChipType'
    BY <1>1 DEF AttachNew, States
  <2>3. LayoutType'
    BY <1>1, <2>a DEF AttachNew
  <2>4. ControlType'
    <3>1. BlockCount - 1 \in Nat
      OBVIOUS
    <3>. QED BY <1>1, <2>0, <3>1, SMTT(30) DEF AttachNew, Goto, PCs, Callers
  <2>5. EnvType'
    BY <1>1, <2>a DEF AttachNew
  <2>6. Ranges'
    BY <1>1, <2>0, SMTT(30) DEF AttachNew, Goto
  <2>. QED BY <2>1, <2>a, <2>3, <2>4, <2>5, <2>6
<1>2. ASSUME AttachWithoutTables PROVE Inv'
  <2>0. PICK sig \in Blocks :
            sigBlock' = sig /\ ScanAndBuild(Passed(NoImage.state, MgmtStart, sig - 2))
    BY <1>2 DEF AttachWithoutTables
  <2>a. TableType' /\ dataCount' \in 0 .. MgmtStart /\ faults' \in Nat
    BY <2>0, NoImageType, PassedType, ScanType DEF Images
  <2>1. ChipType'
    BY <1>2 DEF AttachWithoutTables, States
  <2>3. LayoutType'
    BY <1>2, <2>0, <2>a DEF AttachWithoutTables
  <2>4. ControlType'
    BY <1>2 DEF AttachWithoutTables, Goto, PCs, Returns, Callers
  <2>5. EnvType'
    BY <1>2, <2>a DEF AttachWithoutTables
  <2>6. Ranges'
    BY <1>2, <2>3, <2>4 DEF AttachWithoutTables, Goto
  <2>. QED BY <2>1, <2>a, <2>3, <2>4, <2>5, <2>6
<1>3. ASSUME AttachRefused PROVE Inv'
  <2>1. ChipType'
    BY <1>3 DEF AttachRefused, MayCreate, SignatureAt, Loadables, Loadable,
        Accepted, NoImage, States
  <2>2. TableType'
    BY <1>3 DEF AttachRefused, MayCreate, SignatureAt, Loadables, Loadable,
        Accepted, NoImage, States
  <2>3. LayoutType'
    BY <1>3 DEF AttachRefused, MayCreate, SignatureAt, Loadables, Loadable,
        Accepted, NoImage
  <2>4. ControlType'
    BY <1>3 DEF AttachRefused, MayCreate, SignatureAt, Loadables, Loadable,
        Accepted, NoImage, PCs, Returns, Callers
  <2>5. EnvType'
    BY <1>3 DEF AttachRefused, MayCreate, SignatureAt, Loadables, Loadable,
        Accepted, NoImage
  <2>6. Ranges'
    BY <1>3, <2>3, <2>4 DEF AttachRefused, MayCreate, SignatureAt, Loadables,
        Loadable, Accepted, NoImage
  <2>. QED BY <2>1, <2>2, <2>3, <2>4, <2>5, <2>6
<1>4. ASSUME SignSkip PROVE Inv'
  <2>1. ChipType'
    BY <1>4 DEF SignSkip, InSign, BlockBelow, States
  <2>2. TableType'
    BY <1>4 DEF SignSkip, InSign, BlockBelow, States
  <2>3. LayoutType'
    BY <1>4 DEF SignSkip, InSign, BlockBelow
  <2>4. ControlType'
    BY <1>4, BelowType DEF SignSkip, InSign, PCs, Returns, Callers
  <2>5. EnvType'
    BY <1>4 DEF SignSkip, InSign, BlockBelow
  <2>6. Ranges'
    BY <1>4, BelowType, <2>3, <2>4 DEF SignSkip, InSign
  <2>. QED BY <2>1, <2>2, <2>3, <2>4, <2>5, <2>6
<1>14. ASSUME SignFoundBad PROVE Inv'
  <2>1. ChipType'
    BY <1>14 DEF SignFoundBad, InSign, States
  <2>2. TableType'
    BY <1>14, SetStateType DEF SignFoundBad, InSign, FoundBad, Fails, States
  <2>3. LayoutType'
    BY <1>14 DEF SignFoundBad, InSign
  <2>4. ControlType'
    BY <1>14, BelowType DEF SignFoundBad, InSign, PCs, Returns, Callers
  <2>5. EnvType'
    BY <1>14, CheckType DEF SignFoundBad, InSign
  <2>6. Ranges'
    BY <1>14, BelowType, <2>3, <2>4 DEF SignFoundBad, InSign
  <2>. QED BY <2>1, <2>2, <2>3, <2>4, <2>5, <2>6
<1>5. ASSUME SignErase PROVE Inv'
  <2>1. ChipType'
    BY <1>5, EraseType DEF SignErase, InSign, FoundGood, Goto, States
  <2>2. TableType'
    BY <1>5 DEF SignErase, InSign, FoundGood, EraseOk, Goto, EraseFails,
        Fails, States
  <2>3. LayoutType'
    BY <1>5 DEF SignErase, InSign, FoundGood, EraseOk, Goto, EraseFails, Fails
  <2>4. ControlType'
    BY <1>5 DEF SignErase, InSign, FoundGood, EraseOk, Goto, EraseFails,
        Fails, PCs, Returns, Callers
  <2>5. EnvType'
    BY <1>5, EraseType DEF SignErase, InSign, FoundGood, Goto
  <2>6. Ranges'
    BY <1>5, <2>3, <2>4 DEF SignErase, InSign, FoundGood, EraseOk, Goto,
        EraseFails, Fails
  <2>. QED BY <2>1, <2>2, <2>3, <2>4, <2>5, <2>6
<1>6. ASSUME SignProgram PROVE Inv'
  <2>1. ChipType'
    BY <1>6, ProgramType, ContentKinds DEF SignProgram, InSign, Goto, States
  <2>2. TableType'
    BY <1>6 DEF SignProgram, InSign, ProgramOk, Goto, ProgramFails, Fails,
        States
  <2>3. LayoutType'
    BY <1>6 DEF SignProgram, InSign, ProgramOk, Goto, ProgramFails, Fails
  <2>4. ControlType'
    BY <1>6 DEF SignProgram, InSign, ProgramOk, Goto, ProgramFails, Fails,
        PCs, Returns, Callers
  <2>5. EnvType'
    BY <1>6, ProgramType, ContentKinds DEF SignProgram, InSign, Goto
  <2>6. Ranges'
    BY <1>6, <2>3, <2>4 DEF SignProgram, InSign, ProgramOk, Goto,
        ProgramFails, Fails
  <2>. QED BY <2>1, <2>2, <2>3, <2>4, <2>5, <2>6
<1>7. ASSUME SignMark PROVE Inv'
  <2>0. w.ba \in Blocks
    BY <1>7 DEF SignMark, InSign
  <2>1. ChipType'
    BY <1>7, <2>0, MarkType DEF SignMark, InSign, States
  <2>2. TableType'
    BY <1>7, SetStateType DEF SignMark, InSign, MarkBad, Fails, BlockBelow,
        Goto, States
  <2>3. LayoutType'
    BY <1>7 DEF SignMark, InSign, MarkBad, Fails, SetState, BlockBelow, Goto
  <2>4. ControlType'
    BY <1>7, BelowType, <2>0 DEF SignMark, InSign, Goto, PCs, Returns, Callers
  <2>5. EnvType'
    BY <1>7, <2>0, MarkType DEF SignMark, InSign
  <2>6. Ranges'
    BY <1>7, BelowType, <2>0, <2>3, <2>4 DEF SignMark, InSign, Goto
  <2>. QED BY <2>1, <2>2, <2>3, <2>4, <2>5, <2>6
<1>8. ASSUME SignFails PROVE Inv'
  <2>1. ChipType'
    BY <1>8 DEF SignFails, InSign, Goto, States
  <2>2. TableType'
    BY <1>8 DEF SignFails, InSign, Goto, States
  <2>3. LayoutType'
    BY <1>8 DEF SignFails, InSign, Goto
  <2>4. ControlType'
    BY <1>8 DEF SignFails, InSign, Goto, PCs, Returns, Callers
  <2>5. EnvType'
    BY <1>8 DEF SignFails, InSign, Goto
  <2>6. Ranges'
    BY <1>8, <2>3, <2>4 DEF SignFails, InSign, Goto
  <2>. QED BY <2>1, <2>2, <2>3, <2>4, <2>5, <2>6
<1>9. ASSUME CreateTables PROVE Inv'
  <2>1. ChipType'
    BY <1>9 DEF CreateTables, SpareTops, Good, Goto, Rebuild, WriteTable,
        GenerateCache, NextCount, States
  <2>2. TableType'
    BY <1>9, CacheType DEF CreateTables, SpareTops, Good, Goto, Rebuild,
        WriteTable, States
  <2>3. LayoutType'
    BY <1>9, SpareTopIn, CallType DEF CreateTables, Goto, Rebuild, WriteTable
  <2>4. ControlType'
    BY <1>9, SpareTopIn, CallType DEF CreateTables, Goto, Rebuild, WriteTable,
        PCs, Returns, Callers
  <2>5. EnvType'
    BY <1>9 DEF CreateTables, SpareTops, Good, Goto, Rebuild, WriteTable,
        GenerateCache, NextCount
  <2>6. Ranges'
    BY <1>9, <2>3, SpareTopIn, CallType DEF CreateTables, Goto, Rebuild,
        WriteTable
  <2>. QED BY <2>1, <2>2, <2>3, <2>4, <2>5, <2>6
<1>10. ASSUME MapTail PROVE Inv'
  <2>1. ChipType'
    BY <1>10 DEF MapTail, MapBlock, SpareBlock, Good, States
  <2>2. TableType'
    BY <1>10, MapBlockType DEF MapTail, States
  <2>3. LayoutType'
    BY <1>10 DEF MapTail, MapBlock, SpareBlock, Good
  <2>4. ControlType'
    BY <1>10 DEF MapTail, MapBlock, SpareBlock, Good, PCs, Returns, Callers
  <2>5. EnvType'
    BY <1>10 DEF MapTail, MapBlock, SpareBlock, Good
  <2>6. Ranges'
    BY <1>10, <2>3, <2>4 DEF MapTail, MapBlock, SpareBlock, Good
  <2>. QED BY <2>1, <2>2, <2>3, <2>4, <2>5, <2>6
<1>11. ASSUME MapTailEnds PROVE Inv'
  <2>1. ChipType'
    BY <1>11 DEF MapTailEnds, NoSpare, Update, Goto, SpareUsedUp, Good, States
  <2>2. TableType'
    BY <1>11 DEF MapTailEnds, NoSpare, Update, Goto, SpareUsedUp, Good, States
  <2>3. LayoutType'
    BY <1>11 DEF MapTailEnds, NoSpare, Update, Goto, SpareUsedUp, Good
  <2>4. ControlType'
    BY <1>11 DEF MapTailEnds, NoSpare, Update, Goto, SpareUsedUp, Good, PCs,
        Returns, Callers
  <2>5. EnvType'
    BY <1>11 DEF MapTailEnds, NoSpare, Update, Goto, SpareUsedUp, Good
  <2>6. Ranges'
    BY <1>11, <2>3, <2>4 DEF MapTailEnds, NoSpare, Update, Goto, SpareUsedUp,
        Good
  <2>. QED BY <2>1, <2>2, <2>3, <2>4, <2>5, <2>6
<1>12. ASSUME TailFull PROVE Inv'
  <2>1. ChipType'
    BY <1>12 DEF TailFull, Update, Goto, States
  <2>2. TableType'
    BY <1>12 DEF TailFull, Update, Goto, States
  <2>3. LayoutType'
    BY <1>12 DEF TailFull, Update, Goto
  <2>4. ControlType'
    BY <1>12 DEF TailFull, Update, Goto, PCs, Returns, Callers
  <2>5. EnvType'
    BY <1>12 DEF TailFull, Update, Goto
  <2>6. Ranges'
    BY <1>12, <2>3, <2>4 DEF TailFull, Update, Goto
  <2>. QED BY <2>1, <2>2, <2>3, <2>4, <2>5, <2>6
<1>13. ASSUME Created PROVE Inv'
  <2>1. ChipType'
    BY <1>13 DEF Created, Call, Goto, Idle, States
  <2>2. TableType'
    BY <1>13 DEF Created, Call, Goto, Idle, States
  <2>3. LayoutType'
    BY <1>13 DEF Created, Call, Goto, Idle
  <2>4. ControlType'
    BY <1>13, IdleType DEF Created, Call, Goto, PCs, Returns, Callers
  <2>5. EnvType'
    BY <1>13 DEF Created, Call, Goto, Idle
  <2>6. Ranges'
    BY <1>13, <2>3, <2>4 DEF Created, Call, Goto, Idle
  <2>. QED BY <2>1, <2>2, <2>3, <2>4, <2>5, <2>6
<1>. QED BY <1>1, <1>2, <1>3, <1>4, <1>5, <1>6, <1>7, <1>8, <1>9, <1>10,
        <1>11, <1>12, <1>13, <1>14 DEF CreateSteps

\* Erase, write, read and mark bad keep the invariant: nmbm_map_block moves mapTop
\* down, and never below mapBase.
LEMMA OperationKeeps ==
    ASSUME Inv, OperationSteps
    PROVE  Inv'
<1>. USE DEF Inv, TypeOK, ChipType, TableType, LayoutType, ControlType,
        EnvType, WriteRange, Ranges, WriteInv, CleanInv, SignInv, AfterInv,
        LayoutInv, EraseInv, Block, Running, Writing, Cleaning, UpdateCallers
<1>1. ASSUME EraseRetired PROVE Inv'
  <2>1. ChipType'
    BY <1>1 DEF EraseRetired, Block, Return, Call, Goto, Idle, States
  <2>2. TableType'
    BY <1>1 DEF EraseRetired, Block, Return, Call, Goto, Idle, States
  <2>3. LayoutType'
    BY <1>1 DEF EraseRetired, Block, Return, Call, Goto, Idle
  <2>4. ControlType'
    BY <1>1, IdleType DEF EraseRetired, Block, Return, Call, Goto, PCs,
        Returns, Callers
  <2>5. EnvType'
    BY <1>1 DEF EraseRetired, Block, Return, Call, Goto, Idle
  <2>6. Ranges'
    BY <1>1, <2>3, <2>4 DEF EraseRetired, Block, Return, Call, Goto, Idle
  <2>. QED BY <2>1, <2>2, <2>3, <2>4, <2>5, <2>6
<1>2. ASSUME EraseFoundBad PROVE Inv'
  <2>1. ChipType'
    BY <1>2 DEF EraseFoundBad, Block, SetState, Goto, States
  <2>2. TableType'
    BY <1>2, SetStateType DEF EraseFoundBad, Block, FoundBad, Fails, Goto,
        States
  <2>3. LayoutType'
    BY <1>2 DEF EraseFoundBad, Block, FoundBad, Fails, SetState, Goto
  <2>4. ControlType'
    BY <1>2 DEF EraseFoundBad, Block, FoundBad, Fails, SetState, Goto, PCs,
        Returns, Callers
  <2>5. EnvType'
    BY <1>2, CheckType DEF EraseFoundBad, Block, SetState, Goto
  <2>6. Ranges'
    BY <1>2, <2>3, <2>4 DEF EraseFoundBad, Block, FoundBad, Fails, SetState,
        Goto
  <2>. QED BY <2>1, <2>2, <2>3, <2>4, <2>5, <2>6
<1>3. ASSUME EraseBlock PROVE Inv'
  <2>1. ChipType'
    BY <1>3, EraseType DEF EraseBlock, Block, FoundGood, Return, Call, Goto,
        Idle, States
  <2>2. TableType'
    BY <1>3 DEF EraseBlock, Block, FoundGood, EraseOk, Return, Call, Goto,
        Idle, EraseFails, Fails, States
  <2>3. LayoutType'
    BY <1>3 DEF EraseBlock, Block, FoundGood, EraseOk, Return, Call, Goto,
        Idle, EraseFails, Fails
  <2>4. ControlType'
    BY <1>3, IdleType DEF EraseBlock, Block, FoundGood, EraseOk, Return, Call,
        Goto, EraseFails, Fails, PCs, Returns, Callers
  <2>5. EnvType'
    BY <1>3, EraseType DEF EraseBlock, Block, FoundGood, Return, Call, Goto,
        Idle
  <2>6. Ranges'
    BY <1>3, <2>3, <2>4 DEF EraseBlock, Block, FoundGood, EraseOk, Return,
        Call, Goto, Idle, EraseFails, Fails
  <2>. QED BY <2>1, <2>2, <2>3, <2>4, <2>5, <2>6
<1>4. ASSUME EraseMark PROVE Inv'
  <2>0. Block \in Blocks
    BY <1>4 DEF EraseMark, Mappings
  <2>1. ChipType'
    BY <1>4, <2>0, MarkType DEF EraseMark, Block, Goto, States
  <2>2. TableType'
    BY <1>4, SetStateType DEF EraseMark, MarkBad, Fails, Block, Goto, States
  <2>3. LayoutType'
    BY <1>4 DEF EraseMark, MarkBad, Fails, Block, SetState, Goto
  <2>4. ControlType'
    BY <1>4 DEF EraseMark, MarkBad, Fails, Block, SetState, Goto, PCs,
        Returns, Callers
  <2>5. EnvType'
    BY <1>4, <2>0, MarkType DEF EraseMark, Block, Goto
  <2>6. Ranges'
    BY <1>4, <2>3, <2>4 DEF EraseMark, MarkBad, Fails, Block, SetState, Goto
  <2>. QED BY <2>1, <2>2, <2>3, <2>4, <2>5, <2>6
<1>5. ASSUME Remap PROVE Inv'
  <2>1. ChipType'
    BY <1>5 DEF Remap, MapBlock, SpareBlock, Good, Retire, Block, Update,
        Goto, States
  <2>2. TableType'
    BY <1>5, MapBlockType, RetireType DEF Remap, States
  <2>3. LayoutType'
    BY <1>5 DEF Remap, MapBlock, SpareBlock, Good, Retire, Block, Update, Goto
  <2>4. ControlType'
    BY <1>5 DEF Remap, MapBlock, SpareBlock, Good, Retire, Block, Update,
        Goto, PCs, Returns, Callers
  <2>5. EnvType'
    BY <1>5 DEF Remap, MapBlock, SpareBlock, Good, Retire, Block, Update, Goto
  <2>6. Ranges'
    BY <1>5, <2>3, <2>4 DEF Remap, MapBlock, SpareBlock, Good, Retire, Block,
        Update, Goto
  <2>. QED BY <2>1, <2>2, <2>3, <2>4, <2>5, <2>6
<1>6. ASSUME RemapFails PROVE Inv'
  <2>1. ChipType'
    BY <1>6 DEF RemapFails, NoSpare, GiveUp, Retire, Block, Update, Goto,
        SpareUsedUp, Good, States
  <2>2. TableType'
    BY <1>6, RetireType, ZenonT(60) DEF RemapFails, GiveUp, Block, States, Mappings
  <2>3. LayoutType'
    BY <1>6 DEF RemapFails, NoSpare, GiveUp, Retire, Block, Update, Goto,
        SpareUsedUp, Good
  <2>4. ControlType'
    BY <1>6 DEF RemapFails, NoSpare, GiveUp, Retire, Block, Update, Goto,
        SpareUsedUp, Good, PCs, Returns, Callers
  <2>5. EnvType'
    BY <1>6 DEF RemapFails, NoSpare, GiveUp, Retire, Block, Update, Goto,
        SpareUsedUp, Good
  <2>6. Ranges'
    BY <1>6, <2>3, <2>4 DEF RemapFails, NoSpare, GiveUp, Retire, Block,
        Update, Goto, SpareUsedUp, Good
  <2>. QED BY <2>1, <2>2, <2>3, <2>4, <2>5, <2>6
<1>7. ASSUME MapFull PROVE Inv'
  <2>1. ChipType'
    BY <1>7 DEF MapFull, GiveUp, Retire, Block, Update, Goto, States
  <2>2. TableType'
    BY <1>7, RetireType DEF MapFull, GiveUp, Block, States, Mappings
  <2>3. LayoutType'
    BY <1>7 DEF MapFull, GiveUp, Retire, Block, Update, Goto
  <2>4. ControlType'
    BY <1>7 DEF MapFull, GiveUp, Retire, Block, Update, Goto, PCs, Returns,
        Callers
  <2>5. EnvType'
    BY <1>7 DEF MapFull, GiveUp, Retire, Block, Update, Goto
  <2>6. Ranges'
    BY <1>7, <2>3, <2>4 DEF MapFull, GiveUp, Retire, Block, Update, Goto
  <2>. QED BY <2>1, <2>2, <2>3, <2>4, <2>5, <2>6
<1>8. ASSUME Failed PROVE Inv'
  <2>1. ChipType'
    BY <1>8 DEF Failed, Return, Call, Goto, Idle, States
  <2>2. TableType'
    BY <1>8 DEF Failed, Return, Call, Goto, Idle, States
  <2>3. LayoutType'
    BY <1>8 DEF Failed, Return, Call, Goto, Idle
  <2>4. ControlType'
    BY <1>8, IdleType DEF Failed, Return, Call, Goto, PCs, Returns, Callers
  <2>5. EnvType'
    BY <1>8 DEF Failed, Return, Call, Goto, Idle
  <2>6. Ranges'
    BY <1>8, <2>3, <2>4 DEF Failed, Return, Call, Goto, Idle
  <2>. QED BY <2>1, <2>2, <2>3, <2>4, <2>5, <2>6
<1>9. ASSUME WriteBlock PROVE Inv'
  <2>1. ChipType'
    BY <1>9, ProgramType, ContentKinds DEF WriteBlock, Usable, Return, Call,
        Goto, Idle, Block, SetState, Update, States
  <2>2. TableType'
    BY <1>9, SetStateType DEF WriteBlock, Usable, Return, Call, Goto, Idle,
        ProgramOk, Block, ProgramFails, Fails, Update, States
  <2>3. LayoutType'
    BY <1>9 DEF WriteBlock, Usable, Return, Call, Goto, Idle, ProgramOk,
        Block, ProgramFails, Fails, SetState, Update
  <2>4. ControlType'
    BY <1>9, IdleType DEF WriteBlock, Usable, Return, Call, Goto, ProgramOk,
        Block, ProgramFails, Fails, SetState, Update, PCs, Returns, Callers
  <2>5. EnvType'
    BY <1>9, ProgramType, ContentKinds DEF WriteBlock, Usable, Return, Call,
        Goto, Idle, Block, SetState, Update
  <2>6. Ranges'
    BY <1>9, <2>3, <2>4 DEF WriteBlock, Usable, Return, Call, Goto, Idle,
        ProgramOk, Block, ProgramFails, Fails, SetState, Update
  <2>. QED BY <2>1, <2>2, <2>3, <2>4, <2>5, <2>6
<1>10. ASSUME ReadBlock PROVE Inv'
  <2>1. ChipType'
    BY <1>10 DEF ReadBlock, Return, Call, Goto, Idle, Usable, Block, States
  <2>2. TableType'
    BY <1>10 DEF ReadBlock, Return, Call, Goto, Idle, Usable, Block, States
  <2>3. LayoutType'
    BY <1>10 DEF ReadBlock, Return, Call, Goto, Idle, Usable, Block
  <2>4. ControlType'
    BY <1>10, IdleType DEF ReadBlock, Return, Call, Goto, Usable, Block, PCs,
        Returns, Callers
  <2>5. EnvType'
    BY <1>10 DEF ReadBlock, Return, Call, Goto, Idle, Usable, Block
  <2>6. Ranges'
    BY <1>10, <2>3, <2>4 DEF ReadBlock, Return, Call, Goto, Idle, Usable,
        Block
  <2>. QED BY <2>1, <2>2, <2>3, <2>4, <2>5, <2>6
<1>11. ASSUME Marked PROVE Inv'
  <2>1. ChipType'
    BY <1>11 DEF Marked, Return, Call, Goto, Idle, States
  <2>2. TableType'
    BY <1>11 DEF Marked, Return, Call, Goto, Idle, States
  <2>3. LayoutType'
    BY <1>11 DEF Marked, Return, Call, Goto, Idle
  <2>4. ControlType'
    BY <1>11, IdleType DEF Marked, Return, Call, Goto, PCs, Returns, Callers
  <2>5. EnvType'
    BY <1>11 DEF Marked, Return, Call, Goto, Idle
  <2>6. Ranges'
    BY <1>11, <2>3, <2>4 DEF Marked, Return, Call, Goto, Idle
  <2>. QED BY <2>1, <2>2, <2>3, <2>4, <2>5, <2>6
<1>12. ASSUME Release PROVE Inv'
  <2>1. ChipType'
    BY <1>12 DEF Release, Forget, NoImage, Idle, States
  <2>2. TableType'
    BY <1>12, ForgetType DEF Release
  <2>3. LayoutType'
    BY <1>12, ForgetType DEF Release
  <2>4. ControlType'
    BY <1>12, ForgetType DEF Release
  <2>5. EnvType'
    BY <1>12 DEF Release, Forget, NoImage, Idle
  <2>6. Ranges'
    BY <1>12, <2>3, <2>4 DEF Release, Forget, NoImage, Idle
  <2>. QED BY <2>1, <2>2, <2>3, <2>4, <2>5, <2>6
<1>. QED BY <1>1, <1>2, <1>3, <1>4, <1>5, <1>6, <1>7, <1>8, <1>9, <1>10,
        <1>11, <1>12 DEF OperationSteps

\* A call of an attached device keeps the invariant.
LEMMA RequestKeeps ==
    ASSUME Inv, Requests
    PROVE  Inv'
<1>. USE DEF Inv, TypeOK, ChipType, TableType, LayoutType, ControlType,
        EnvType, WriteRange, Ranges, WriteInv, CleanInv, SignInv, AfterInv,
        LayoutInv, EraseInv, Block, Running, Writing, Cleaning, UpdateCallers
<1>1. ASSUME Refuse PROVE Inv'
  <2>1. ChipType'
    BY <1>1 DEF Refuse, States
  <2>2. TableType'
    BY <1>1 DEF Refuse, States
  <2>3. LayoutType'
    BY <1>1 DEF Refuse
  <2>4. ControlType'
    BY <1>1 DEF Refuse, PCs, Returns, Callers
  <2>5. EnvType'
    BY <1>1 DEF Refuse
  <2>6. Ranges'
    BY <1>1, <2>3, <2>4 DEF Refuse
  <2>. QED BY <2>1, <2>2, <2>3, <2>4, <2>5, <2>6
<1>2. ASSUME EraseRequest PROVE Inv'
  <2>1. ChipType'
    BY <1>2 DEF EraseRequest, Request, Goto, States
  <2>2. TableType'
    BY <1>2 DEF EraseRequest, Request, Goto, States
  <2>3. LayoutType'
    BY <1>2 DEF EraseRequest, Request, Goto
  <2>4. ControlType'
    BY <1>2 DEF EraseRequest, Request, Goto, PCs, Returns, Callers
  <2>5. EnvType'
    BY <1>2 DEF EraseRequest, Request, Goto
  <2>6. Ranges'
    BY <1>2, <2>3, <2>4 DEF EraseRequest, Request, Goto
  <2>. QED BY <2>1, <2>2, <2>3, <2>4, <2>5, <2>6
<1>3. ASSUME WriteRequest PROVE Inv'
  <2>1. ChipType'
    BY <1>3 DEF WriteRequest, Request, Goto, States
  <2>2. TableType'
    BY <1>3 DEF WriteRequest, Request, Goto, States
  <2>3. LayoutType'
    BY <1>3 DEF WriteRequest, Request, Goto
  <2>4. ControlType'
    BY <1>3 DEF WriteRequest, Request, Goto, PCs, Returns, Callers
  <2>5. EnvType'
    BY <1>3 DEF WriteRequest, Request, Goto
  <2>6. Ranges'
    BY <1>3, <2>3, <2>4 DEF WriteRequest, Request, Goto
  <2>. QED BY <2>1, <2>2, <2>3, <2>4, <2>5, <2>6
<1>4. ASSUME ReadRequest PROVE Inv'
  <2>1. ChipType'
    BY <1>4 DEF ReadRequest, Goto, States
  <2>2. TableType'
    BY <1>4 DEF ReadRequest, Goto, States
  <2>3. LayoutType'
    BY <1>4 DEF ReadRequest, Goto
  <2>4. ControlType'
    BY <1>4 DEF ReadRequest, Goto, PCs, Returns, Callers
  <2>5. EnvType'
    BY <1>4 DEF ReadRequest, Goto
  <2>6. Ranges'
    BY <1>4, <2>3, <2>4 DEF ReadRequest, Goto
  <2>. QED BY <2>1, <2>2, <2>3, <2>4, <2>5, <2>6
<1>5. ASSUME MarkBadBlock PROVE Inv'
  <2>0. PICK l \in Logical :
            /\ mapping[l] # Unmapped
            /\ mapping' = [mapping EXCEPT ![l] = Unmapped]
            /\ MarkBad(mapping[l]) /\ SetState(mapping[l], "bad")
    BY <1>5 DEF MarkBadBlock
  <2>a. mapping[l] \in Blocks
    BY <2>0 DEF Mappings
  <2>1. ChipType'
    BY <2>0, <2>a, MarkType
  <2>2. TableType'
    BY <1>5, <2>0, UnmapType, SetStateType DEF MarkBadBlock, States
  <2>3. LayoutType'
    BY <1>5 DEF MarkBadBlock, MarkBad, Fails, SetState, Update, Goto
  <2>4. ControlType'
    BY <1>5 DEF MarkBadBlock, MarkBad, Fails, SetState, Update, Goto, PCs,
        Returns, Callers
  <2>5. EnvType'
    BY <1>5, <2>0, <2>a, MarkType DEF MarkBadBlock
  <2>6. Ranges'
    BY <1>5, <2>3, <2>4 DEF MarkBadBlock, MarkBad, Fails, SetState, Update,
        Goto
  <2>. QED BY <2>1, <2>2, <2>3, <2>4, <2>5, <2>6
<1>6. ASSUME MarkUnmapped PROVE Inv'
  <2>1. ChipType'
    BY <1>6 DEF MarkUnmapped, States
  <2>2. TableType'
    BY <1>6 DEF MarkUnmapped, States
  <2>3. LayoutType'
    BY <1>6 DEF MarkUnmapped
  <2>4. ControlType'
    BY <1>6 DEF MarkUnmapped, PCs, Returns, Callers
  <2>5. EnvType'
    BY <1>6 DEF MarkUnmapped
  <2>6. Ranges'
    BY <1>6, <2>3, <2>4 DEF MarkUnmapped
  <2>. QED BY <2>1, <2>2, <2>3, <2>4, <2>5, <2>6
<1>7. ASSUME Detach PROVE Inv'
  <2>1. ChipType'
    BY <1>7 DEF Detach, Update, Goto, States
  <2>2. TableType'
    BY <1>7 DEF Detach, Update, Goto, States
  <2>3. LayoutType'
    BY <1>7 DEF Detach, Update, Goto
  <2>4. ControlType'
    BY <1>7 DEF Detach, Update, Goto, PCs, Returns, Callers
  <2>5. EnvType'
    BY <1>7 DEF Detach, Update, Goto
  <2>6. Ranges'
    BY <1>7, <2>3, <2>4 DEF Detach, Update, Goto
  <2>. QED BY <2>1, <2>2, <2>3, <2>4, <2>5, <2>6
<1>. QED BY <1>1, <1>2, <1>3, <1>4, <1>5, <1>6, <1>7 DEF Requests

\* A power cut keeps the invariant, whatever it interrupts.
LEMMA PowerCutKeeps ==
    ASSUME Inv, PowerCut
    PROVE  Inv'
<1>. USE DEF Inv, TypeOK, ChipType, TableType, LayoutType, ControlType,
        EnvType, WriteRange, Ranges, WriteInv, CleanInv, SignInv, AfterInv,
        LayoutInv, EraseInv, Block, Running, Writing, Cleaning, UpdateCallers
<1>1. ASSUME PowerCut PROVE Inv'
  <2>1. ChipType'
    BY <1>1, InPlace, ContentKinds, SMTT(30) DEF PowerCut
  <2>2. TableType'
    BY <1>1, ForgetType DEF PowerCut
  <2>3. LayoutType'
    BY <1>1, ForgetType DEF PowerCut
  <2>4. ControlType'
    BY <1>1, ForgetType DEF PowerCut
  <2>5. EnvType'
    BY <1>1 DEF PowerCut, InFlight, Block, Usable, Forget, NoImage, Idle
  <2>6. Ranges'
    BY <1>1, <2>3, <2>4 DEF PowerCut, InFlight, Block, Usable, Forget,
        NoImage, Idle
  <2>. QED BY <2>1, <2>2, <2>3, <2>4, <2>5, <2>6
<1>. QED BY <1>1

-----------------------------------------------------------------------------
(* The invariant holds, and what follows from it *)

\* A chip on which the layer has never run.
LEMMA InitInv == Init => Inv
<1>. SUFFICES ASSUME Init PROVE Inv
    OBVIOUS
<1>1. ChipType
    BY EnvironmentAssumption, ContentKinds DEF Init, ChipType
<1>2. TableType
    BY NoImageType DEF Init, TableType, NoImage, Images
<1>3. LayoutType
  <2>1. 0 \in Blocks /\ 0 \in 0 .. MgmtStart
    OBVIOUS
  <2>2. protected \in BOOLEAN
    BY DEF Init
  <2>. QED BY <2>1, <2>2 DEF Init, LayoutType
<1>4. ControlType
    BY IdleType DEF Init, ControlType, PCs, Returns
<1>5. EnvType
    BY DEF Init, EnvType
<1>6. Ranges
    BY DEF Init, Ranges, WriteInv, CleanInv, SignInv, AfterInv, LayoutInv,
       EraseInv, Running, Writing, Cleaning
<1>. QED BY <1>1, <1>2, <1>3, <1>4, <1>5, <1>6 DEF Inv, TypeOK

\* A step that changes nothing.
LEMMA StutterKeeps ==
    ASSUME Inv, UNCHANGED vars
    PROVE  Inv'
<1>1. TypeOK'
    BY DEF Inv, TypeOK, ChipType, TableType, LayoutType, ControlType, EnvType, vars
<1>2. Ranges'
    BY DEF Inv, Ranges, WriteInv, CleanInv, SignInv, AfterInv, LayoutInv,
       EraseInv, Running, Block, vars
<1>. QED BY <1>1, <1>2 DEF Inv

\* Every step of the layer, and every power cut, keeps the invariant.
LEMMA NextKeeps == Inv /\ [Next]_vars => Inv'
<1>. SUFFICES ASSUME Inv, [Next]_vars PROVE Inv'
    OBVIOUS
<1>1. CASE Work
    BY <1>1, TableWriteKeeps, CleanKeeps, RebuildKeeps, UpdateKeeps, LoadKeeps,
       CreateKeeps, OperationKeeps DEF Work
<1>2. CASE Requests
    BY <1>2, RequestKeeps
<1>3. CASE PowerCut
    BY <1>3, PowerCutKeeps
<1>4. CASE UNCHANGED vars
    BY <1>4, StutterKeeps
<1>. QED BY <1>1, <1>2, <1>3, <1>4 DEF Next

\* The invariant holds in every state of every behaviour.
THEOREM Invariance == Spec => []Inv
<1>. QED BY InitInv, NextKeeps, PTL DEF Spec

\* Type correctness, for every geometry: the addresses that the attach, the
\* updates and the rescues compute never leave the chip.
THEOREM TypeCorrect == Spec => []TypeOK
<1>1. Inv => TypeOK
    BY DEF Inv
<1>. QED BY <1>1, Invariance, PTL

\* The block that nmbm_write_mgmt_range or nmbm_erase_range works on lies in the
\* management area, below the spare blocks in use and below the signature: no
\* update, rescue or attach, on any chip and after any failures and power cuts,
\* writes a table over the data blocks below the area or over the signature.
THEOREM WritesConfined == Spec => []TableWritesConfined
<1>1. Inv => TableWritesConfined
  <2>. SUFFICES ASSUME Inv, pc \in {"program", "tableMark", "written", "cleanMark"}
                PROVE  MgmtStart <= w.ba /\ w.ba < mapTop /\ mapTop < sigBlock
    BY DEF TableWritesConfined
  <2>1. w \in WriteRange /\ mapTop \in Blocks
    BY DEF Inv, TypeOK, ControlType, LayoutType
  <2>2. MgmtStart <= w.ba /\ w.limit <= mapTop /\ w.ba < w.limit
    BY DEF Inv, Ranges, WriteInv, CleanInv, Writing, Cleaning
  <2>3. mapTop < sigBlock
    BY DEF Inv, Ranges, LayoutInv, Running
  <2>. QED BY <2>1, <2>2, <2>3 DEF WriteRange
<1>. QED BY <1>1, Invariance, PTL

-----------------------------------------------------------------------------
(* No block is used twice *)

\* Above block m, and below the signature, lies a block that is not good.
Above(m, st, sig) == \E b \in m + 1 .. sig - 1 : st[b] # "good"

\* A mapping mp with states st uses no block twice and none in MgmtStart .. top,
\* unless a block that is not good lies above.
Sound(mp, st, top, sig) ==
    \A k, l \in Logical :
        /\ MgmtStart <= mp[k] => mp[k] < sig
        /\ k # l /\ mp[k] # Unmapped /\ mp[k] = mp[l] => Above(mp[k], st, sig)
        /\ MgmtStart <= mp[k] /\ mp[k] <= top => Above(mp[k], st, sig)

\* A signature that an attach can read.
Signs(b) == MgmtStart <= b /\ b \notin marker /\ content[b] = Signature

\* There is no table without a signature, and each was sound when it was written
\* at block b, for the signature that an attach finds.
TablesSound ==
    \A b \in Blocks : content[b].kind = "table" =>
        /\ \E s \in Blocks : Signs(s)
        /\ \A s \in Blocks : SignatureAt(s) =>
              Sound(content[b].image.mapping, content[b].image.state, b + 1, s)

\* The table that is being written is sound.
CacheSound ==
    pc \in Writing => Sound(cache.mapping, cache.state, mapTop, sigBlock)

RamSound == Sound(mapping, state, mapTop, sigBlock)

\* An attach starts with each logic block in the data area, and it has written
\* the signature when it writes the first table.
Starting == {"sign", "signProgram", "signMark"}
Fresh ==
    /\ pc \in Starting => \A b \in Blocks : content[b].kind # "table"
    /\ pc = "signProgram" => w.ba \notin marker
    /\ pc \in Starting \cup {"create"} =>
         \A k, l \in Logical :
            /\ mapping[k] < MgmtStart
            /\ k # l /\ mapping[k] # Unmapped => mapping[k] # mapping[l]

SignKept == Running \/ pc = "create" => Signs(sigBlock)

\* The tables lie below mapping_blocks_ba, and no block in use does.  An attach
\* that cannot write its second table may leave a device of which this is not
\* true, but that device is read-only.
Stuck ==
    \/ pc \in Writing /\ w.ret = "loadBackup"
    \/ protected /\ \/ pc \in {"idle", "read", "detached"}
                    \/ pc = "update" /\ after = "detached"
BaseSound == ~Stuck => Sound(mapping, state, mapBase, sigBlock)
BackupBelow ==
    /\ Running /\ ~Stuck => backup < mapBase
    /\ pc \in Writing =>
         /\ w.ret = "newMain" => backup = NoBlock
         /\ w.ret = "front" => main < mapBase
         /\ w.ret = "temp" => mapBase <= w.ba
         /\ w.ret = "rescue" => w.limit < mapBase

ApartInv ==
    /\ Inv
    /\ TablesSound /\ CacheSound /\ RamSound
    /\ Fresh /\ SignKept /\ BaseSound /\ BackupBelow

-----------------------------------------------------------------------------
(* Sound mappings *)

\* A block that is not good never is again.
Worse(st, st2) == \A b \in Blocks : st[b] # "good" => st2[b] # "good"

LEMMA AboveStays ==
    ASSUME NEW m \in Int, 0 <= m, NEW st, NEW st2, Worse(st, st2),
           NEW sig \in Blocks, NEW sig2 \in Blocks, sig <= sig2,
           Above(m, st, sig)
    PROVE  Above(m, st2, sig2)
<1>1. PICK b \in m + 1 .. sig - 1 : st[b] # "good"
    BY DEF Above
<1>2. b \in Blocks /\ b \in m + 1 .. sig2 - 1
    BY <1>1
<1>. QED BY <1>1, <1>2 DEF Above, Worse

LEMMA MappedInt ==
    ASSUME NEW mp \in Mappings, NEW l \in Logical
    PROVE  mp[l] \in Int /\ mp[l] <= BlockCount - 1 /\ (mp[l] # Unmapped => 0 <= mp[l])
BY DEF Mappings

LEMMA SoundStays ==
    ASSUME NEW mp \in Mappings, NEW st, NEW st2, Worse(st, st2),
           NEW sig \in Blocks, NEW sig2 \in Blocks, sig <= sig2,
           NEW top \in Int, NEW top2 \in Int, top2 <= top,
           Sound(mp, st, top, sig)
    PROVE  Sound(mp, st2, top2, sig2)
<1>. SUFFICES ASSUME NEW k \in Logical, NEW l \in Logical
              PROVE  /\ MgmtStart <= mp[k] => mp[k] < sig2
                     /\ k # l /\ mp[k] # Unmapped /\ mp[k] = mp[l] => Above(mp[k], st2, sig2)
                     /\ MgmtStart <= mp[k] /\ mp[k] <= top2 => Above(mp[k], st2, sig2)
    BY DEF Sound
<1>1. mp[k] \in Int /\ (mp[k] # Unmapped => 0 <= mp[k])
    BY MappedInt
<1>2. /\ MgmtStart <= mp[k] => mp[k] < sig
      /\ k # l /\ mp[k] # Unmapped /\ mp[k] = mp[l] => Above(mp[k], st, sig)
      /\ MgmtStart <= mp[k] /\ mp[k] <= top => Above(mp[k], st, sig)
    BY DEF Sound
<1>3. Above(mp[k], st, sig) /\ 0 <= mp[k] => Above(mp[k], st2, sig2)
    BY <1>1, AboveStays
<1>4. MgmtStart <= mp[k] => mp[k] < sig2
    BY <1>1, <1>2
<1>5. k # l /\ mp[k] # Unmapped /\ mp[k] = mp[l] => Above(mp[k], st2, sig2)
    BY <1>1, <1>2, <1>3
<1>6. MgmtStart <= mp[k] /\ mp[k] <= top2 => Above(mp[k], st2, sig2)
    BY <1>1, <1>2, <1>3
<1>. QED BY <1>4, <1>5, <1>6

\* Taking a logic block's block away leaves a mapping sound.
LEMMA UnmapSound ==
    ASSUME NEW mp \in Mappings, NEW j, NEW st, NEW top \in Int, NEW sig \in Blocks,
           Sound(mp, st, top, sig)
    PROVE  Sound([mp EXCEPT ![j] = Unmapped], st, top, sig)
<1>. DEFINE mq == [mp EXCEPT ![j] = Unmapped]
<1>. SUFFICES ASSUME NEW k \in Logical, NEW l \in Logical
              PROVE  /\ MgmtStart <= mq[k] => mq[k] < sig
                     /\ k # l /\ mq[k] # Unmapped /\ mq[k] = mq[l] => Above(mq[k], st, sig)
                     /\ MgmtStart <= mq[k] /\ mq[k] <= top => Above(mq[k], st, sig)
    BY DEF Sound
<1>1. (mq[k] = mp[k] /\ mq[k] # Unmapped) \/ mq[k] = Unmapped
    BY DEF Mappings
<1>2. mq[l] = mp[l] \/ mq[l] = Unmapped
    BY DEF Mappings
<1>3. CASE mq[k] = Unmapped
    BY <1>3
<1>4. CASE mq[k] = mp[k] /\ mq[k] # Unmapped
    BY <1>2, <1>4 DEF Sound
<1>. QED BY <1>1, <1>3, <1>4

\* nmbm_map_block takes a block that no logic block has, unless a block that is
\* not good lies above, and leaves the spare blocks below it.
LEMMA MapSound ==
    ASSUME TableType, LayoutType, RamSound, MgmtStart <= mapBase, mapTop < sigBlock,
           Sound(mapping, state, mapBase, sigBlock), NEW j \in Logical, NEW b, MapBlock(j, b)
    PROVE  /\ Sound(mapping', state, mapTop', sigBlock)
           /\ Sound(mapping', state, mapBase, sigBlock)
<1>1. b \in Blocks /\ mapBase < b /\ b <= mapTop
    BY SpareBlockIn DEF MapBlock
<1>2. mapping' = [mapping EXCEPT ![j] = b] /\ mapTop' = mapTop - 1
    BY DEF MapBlock
<1>3. mapping \in Mappings /\ state \in [Blocks -> States]
      /\ mapTop \in Blocks /\ sigBlock \in Blocks /\ mapBase \in Blocks
    BY DEF TableType, LayoutType
<1>4. b # mapTop => Above(b, state, sigBlock)
  <2>. SUFFICES ASSUME b # mapTop PROVE Above(b, state, sigBlock)
      OBVIOUS
  <2>1. mapTop \notin Good(state, mapBase + 1, mapTop)
      BY <1>1, <1>3 DEF MapBlock, SpareBlock
  <2>2. mapTop \in mapBase + 1 .. mapTop /\ mapTop \in b + 1 .. sigBlock - 1
      BY <1>1, <1>3
  <2>3. state[mapTop] # "good"
      BY <2>1, <2>2, <1>3 DEF Good
  <2>. QED BY <2>2, <2>3 DEF Above
<1>. SUFFICES ASSUME NEW k \in Logical, NEW l \in Logical
              PROVE  /\ MgmtStart <= mapping'[k] => mapping'[k] < sigBlock
                     /\ k # l /\ mapping'[k] # Unmapped /\ mapping'[k] = mapping'[l] =>
                           Above(mapping'[k], state, sigBlock)
                     /\ MgmtStart <= mapping'[k]
                          /\ (mapping'[k] <= mapTop' \/ mapping'[k] <= mapBase) =>
                               Above(mapping'[k], state, sigBlock)
    BY DEF Sound
<1>5. /\ MgmtStart <= mapping[k] => mapping[k] < sigBlock
      /\ k # l /\ mapping[k] # Unmapped /\ mapping[k] = mapping[l] =>
             Above(mapping[k], state, sigBlock)
      /\ MgmtStart <= mapping[k] /\ mapping[k] <= mapTop => Above(mapping[k], state, sigBlock)
      /\ MgmtStart <= mapping[l] /\ mapping[l] <= mapTop => Above(mapping[l], state, sigBlock)
      /\ MgmtStart <= mapping[k] /\ mapping[k] <= mapBase => Above(mapping[k], state, sigBlock)
    BY DEF RamSound, Sound
<1>6. mapping[k] \in Int /\ mapping[l] \in Int
    BY <1>3, MappedInt
<1>7. mapping'[k] = (IF k = j THEN b ELSE mapping[k])
      /\ mapping'[l] = (IF l = j THEN b ELSE mapping[l])
    BY <1>2, <1>3 DEF Mappings
<1>8. MgmtStart <= mapping'[k] => mapping'[k] < sigBlock
    BY <1>1, <1>3, <1>5, <1>6, <1>7
<1>9. ASSUME MgmtStart <= mapping'[k], mapping'[k] <= mapTop' \/ mapping'[k] <= mapBase
      PROVE  Above(mapping'[k], state, sigBlock)
    BY <1>1, <1>2, <1>3, <1>4, <1>5, <1>6, <1>7, <1>9
<1>10. ASSUME k # l, mapping'[k] # Unmapped, mapping'[k] = mapping'[l]
       PROVE  Above(mapping'[k], state, sigBlock)
  <2>1. CASE k # j /\ l # j
      BY <1>5, <1>7, <1>10, <2>1
  <2>2. CASE k = j
    <3>1. l # j /\ mapping[l] = b /\ mapping'[k] = b
        BY <2>2, <1>7, <1>10
    <3>. QED BY <3>1, <1>1, <1>5, <1>4, <1>3
  <2>3. CASE l = j
    <3>1. k # j /\ mapping[k] = b /\ mapping'[k] = b
        BY <2>3, <1>7, <1>10
    <3>. QED BY <3>1, <1>1, <1>5, <1>4, <1>3
  <2>. QED BY <2>1, <2>2, <2>3
<1>. QED BY <1>8, <1>9, <1>10

-----------------------------------------------------------------------------
(* The tables on the chip *)

\* At most block x of the chip is touched.
OnlyAt(x) ==
    \A b \in Blocks : b # x => content'[b] = content[b] /\ (b \in marker' <=> b \in marker)

\* A step touches a block below the signature at most, and puts a table there
\* only at the end of nmbm_write_mgmt_range.
Touched ==
    \/ UNCHANGED <<content, marker>>
    \/ \E x \in Blocks :
         /\ Running /\ x < sigBlock /\ OnlyAt(x)
         /\ \/ content'[x] = content[x]
            \/ content'[x].kind # "table"
            \/ pc = "program" /\ x = w.ba /\ content'[x] = TableOf(cache)

LEMMA NotTables ==
    /\ Blank.kind # "table" /\ Torn.kind # "table" /\ Signature.kind # "table"
    /\ \A l : DataOf(l).kind # "table"
    /\ Torn # Signature /\ Blank # Signature
    /\ \A image : TableOf(image).kind = "table" /\ TableOf(image).image = image
BY DEF Blank, Torn, Signature, DataOf, TableOf

LEMMA ErasesAt ==
    ASSUME ChipType, NEW x \in Blocks, EraseOk(x) \/ EraseFails(x)
    PROVE  OnlyAt(x) /\ (content'[x] = content[x] \/ content'[x].kind # "table")
BY NotTables DEF ChipType, EraseOk, EraseFails, OnlyAt

LEMMA ProgramsAt ==
    ASSUME ChipType, NEW x \in Blocks, NEW data, ProgramOk(x, data) \/ ProgramFails(x, data)
    PROVE  OnlyAt(x) /\ (content'[x] = data \/ content'[x].kind # "table")
BY NotTables DEF ChipType, ProgramOk, ProgramFails, OnlyAt

LEMMA MarksAt ==
    ASSUME ChipType, NEW x \in Blocks, MarkBad(x)
    PROVE  OnlyAt(x) /\ (content'[x] = content[x] \/ content'[x].kind # "table")
BY NotTables DEF ChipType, MarkBad, OnlyAt

\* Where there is a signature there is a highest one.
LEMMA HighestSignature ==
    ASSUME NEW s \in Blocks, Signs(s)
    PROVE  \E x \in Blocks : SignatureAt(x)
<1>. DEFINE D == {n \in Nat : BlockCount - 1 - n \in Blocks /\ Signs(BlockCount - 1 - n)}
<1>1. BlockCount - 1 - s \in Nat /\ BlockCount - 1 - (BlockCount - 1 - s) = s
    OBVIOUS
<1>2. D # {} /\ D \subseteq Nat
    BY <1>1
<1>3. PICK n \in D : \A m \in D : ~(<<m, n>> \in OpToRel(<, Nat))
    BY <1>2, NatLessThanWellFounded, WFMin
<1>4. \A m \in D : ~(m < n)
    BY <1>3 DEF OpToRel
<1>. DEFINE t == BlockCount - 1 - n
<1>5. n \in Nat /\ t \in Blocks /\ Signs(t)
    BY <1>3
<1>6. ASSUME NEW x \in t + 1 .. BlockCount - 1, x \notin marker, content[x] = Signature
      PROVE  FALSE
  <2>1. x \in Int /\ t < x /\ x <= BlockCount - 1 /\ t \in Int /\ MgmtStart <= t
      BY <1>5, <1>6 DEF Signs
  <2>2. Signs(x)
      BY <1>6, <2>1 DEF Signs
  <2>3. BlockCount - 1 - x \in Nat /\ BlockCount - 1 - (BlockCount - 1 - x) = x /\ x \in Blocks
      BY <2>1, <1>5
  <2>4. BlockCount - 1 - x \in D
      BY <2>2, <2>3
  <2>5. BlockCount - 1 - x < n
      BY <2>1, <1>5
  <2>. QED BY <1>4, <2>4, <2>5
<1>. QED BY <1>5, <1>6 DEF SignatureAt, Signs

\* While the instance knows its layout nothing changes for an attach above its
\* signature, and the tables on the chip stay sound.
LEMMA ChipStays ==
    ASSUME ApartInv, Touched
    PROVE  /\ TablesSound'
           /\ Running \/ pc = "create" => content'[sigBlock] = Signature /\ sigBlock \notin marker'
<1>. USE DEF ApartInv, Inv
<1>1. CASE UNCHANGED <<content, marker>>
  <2>1. SignKept /\ TablesSound
      OBVIOUS
  <2>2. TablesSound'
      BY <1>1, <2>1 DEF TablesSound, Signs, SignatureAt
  <2>. QED BY <1>1, <2>1, <2>2 DEF SignKept, Signs
<1>2. CASE ~UNCHANGED <<content, marker>>
  <2>1. PICK x \in Blocks :
           /\ Running /\ x < sigBlock /\ OnlyAt(x)
           /\ \/ content'[x] = content[x]
              \/ content'[x].kind # "table"
              \/ pc = "program" /\ x = w.ba /\ content'[x] = TableOf(cache)
      BY <1>2 DEF Touched
  <2>2. sigBlock \in Blocks /\ Signs(sigBlock)
      BY <2>1 DEF TypeOK, LayoutType, SignKept
  <2>3. \A s \in Blocks : sigBlock <= s => (Signs(s)' <=> Signs(s))
      BY <2>1, <2>2 DEF OnlyAt, Signs
  <2>4. content'[sigBlock] = Signature /\ sigBlock \notin marker'
      BY <2>2, <2>3 DEF Signs
  <2>5. \A s \in Blocks : SignatureAt(s)' => SignatureAt(s) /\ sigBlock <= s
    <3>. SUFFICES ASSUME NEW s \in Blocks, SignatureAt(s)'
                  PROVE  SignatureAt(s) /\ sigBlock <= s
        OBVIOUS
    <3>1. sigBlock <= s
        BY <2>2, <2>4 DEF SignatureAt, Signs
    <3>2. \A y \in s .. BlockCount - 1 :
              y \in Blocks /\ (content'[y] = content[y] /\ (y \in marker' <=> y \in marker))
        BY <3>1, <2>1, <2>2 DEF OnlyAt
    <3>3. s \in s .. BlockCount - 1 /\ s + 1 .. BlockCount - 1 \subseteq s .. BlockCount - 1
        OBVIOUS
    <3>. QED BY <3>1, <3>2, <3>3 DEF SignatureAt
  <2>6. SUFFICES ASSUME NEW b \in Blocks, content'[b].kind = "table"
                 PROVE  \A s \in Blocks : SignatureAt(s)' =>
                          Sound(content'[b].image.mapping, content'[b].image.state, b + 1, s)
      BY <2>2, <2>3, <2>4 DEF TablesSound
  <2>7. CASE content'[b] = content[b]
      BY <2>5, <2>6, <2>7 DEF TablesSound
  <2>8. CASE content'[b] # content[b]
    <3>1. b = x /\ pc = "program" /\ x = w.ba /\ content'[x] = TableOf(cache)
        BY <2>1, <2>6, <2>8 DEF OnlyAt
    <3>2. /\ Sound(cache.mapping, cache.state, mapTop, sigBlock)
          /\ w.ba < w.limit /\ w.limit <= mapTop /\ w \in WriteRange
          /\ mapTop \in Blocks /\ cache \in Images
        BY <3>1 DEF CacheSound, Writing, Ranges, WriteInv, TypeOK, ControlType, LayoutType, TableType
    <3>3. b + 1 \in Int /\ b + 1 <= mapTop /\ cache.mapping \in Mappings
          /\ cache.state \in [Blocks -> States]
        BY <3>1, <3>2 DEF WriteRange, Images
    <3>4. content'[b].image = cache
        BY <3>1, NotTables
    <3>5. Worse(cache.state, cache.state)
        BY DEF Worse
    <3>6. ASSUME NEW s \in Blocks, SignatureAt(s)'
          PROVE  Sound(cache.mapping, cache.state, b + 1, s)
        BY <2>2, <2>5, <3>2, <3>3, <3>5, <3>6, SoundStays
    <3>. QED BY <3>4, <3>6
  <2>. QED BY <2>7, <2>8
<1>. QED BY <1>1, <1>2

-----------------------------------------------------------------------------
(* Plain steps *)

\* A step that maps no block anew and keeps the limits of the spare blocks.
Plain ==
    /\ Touched
    /\ UNCHANGED <<mapping, sigBlock, mapTop>> /\ Worse(state, state')
    /\ \/ cache' = cache /\ (pc' \in Writing => pc \in Writing)
       \/ GenerateCache /\ UNCHANGED state /\ pc \notin Writing
    /\ pc' \notin Starting \cup {"create"} /\ (Running' => Running)
    /\ ~Stuck' => mapBase' <= mapTop \/ (~Stuck /\ mapBase' <= mapBase)
    /\ BackupBelow'

\* A step that leaves the mapping and the spare blocks as they are keeps all.
LEMMA PlainKeeps ==
    ASSUME ApartInv, Inv', Plain
    PROVE  ApartInv'
<1>. USE DEF ApartInv, Inv
<1>1. /\ mapping \in Mappings /\ state \in [Blocks -> States] /\ cache \in Images
      /\ mapTop \in Blocks /\ sigBlock \in Blocks /\ mapBase \in Blocks /\ mapBase' \in Blocks
    BY DEF TypeOK, TableType, LayoutType
<1>2. /\ mapping' = mapping /\ sigBlock' = sigBlock /\ mapTop' = mapTop
      /\ Worse(state, state') /\ Touched
    BY DEF Plain
<1>3. TablesSound' /\ (Running => content'[sigBlock] = Signature /\ sigBlock \notin marker')
    BY <1>2, ChipStays
<1>4. SignKept' /\ Fresh'
    BY <1>2, <1>3 DEF Plain, SignKept, Fresh, Signs, Starting
<1>5. RamSound'
  <2>1. Sound(mapping, state', mapTop, sigBlock)
      BY <1>1, <1>2, SoundStays DEF RamSound
  <2>. QED BY <1>2, <2>1 DEF RamSound
<1>6. CacheSound'
  <2>. SUFFICES ASSUME pc' \in Writing
                PROVE  Sound(cache'.mapping, cache'.state, mapTop, sigBlock)
      BY <1>2 DEF CacheSound
  <2>1. CASE cache' = cache /\ pc \in Writing
      BY <2>1 DEF CacheSound
  <2>2. CASE GenerateCache /\ UNCHANGED state
      BY <2>2 DEF GenerateCache, RamSound
  <2>. QED BY <2>1, <2>2 DEF Plain
<1>7. BaseSound'
  <2>. SUFFICES ASSUME ~Stuck' PROVE Sound(mapping, state', mapBase', sigBlock)
      BY <1>2 DEF BaseSound
  <2>1. CASE mapBase' <= mapTop
      BY <1>1, <1>2, <2>1, SoundStays DEF RamSound
  <2>2. CASE ~Stuck /\ mapBase' <= mapBase
      BY <1>1, <1>2, <2>2, SoundStays DEF BaseSound
  <2>. QED BY <2>1, <2>2 DEF Plain
<1>8. BackupBelow'
    BY DEF Plain
<1>. QED BY <1>3, <1>4, <1>5, <1>6, <1>7, <1>8

\* The block of a logic block lies below the signature.
LEMMA MappedBelow ==
    ASSUME ApartInv, Running, NEW l \in Logical, mapping[l] # Unmapped
    PROVE  mapping[l] \in Blocks /\ mapping[l] < sigBlock
<1>1. mapping \in Mappings /\ mapTop \in Blocks /\ sigBlock \in Blocks
      /\ MgmtStart <= mapTop /\ mapTop < sigBlock
    BY DEF ApartInv, Inv, TypeOK, TableType, LayoutType, Ranges, LayoutInv
<1>2. mapping[l] \in Blocks /\ (MgmtStart <= mapping[l] => mapping[l] < sigBlock)
    BY <1>1 DEF ApartInv, RamSound, Sound, Mappings
<1>. QED BY <1>1, <1>2

\* The steps of nmbm_write_mgmt_range are plain.
LEMMA TableWritePlain ==
    ASSUME ApartInv, WriteTableSteps
    PROVE  Plain
<1>. USE DEF ApartInv, Inv, TypeOK, LayoutType, ControlType, WriteRange, Ranges,
        WriteInv, CleanInv, LayoutInv, EraseInv, Running, Writing, Cleaning, Stuck, Starting
<1>1. ASSUME TableSkip PROVE Plain
  <2>1. Touched
    BY <1>1 DEF Touched, TableSkip, InTable, NextBlock
  <2>2. /\ UNCHANGED <<mapping, sigBlock, mapTop>> /\ Worse(state, state')
        /\ \/ cache' = cache /\ (pc' \in Writing => pc \in Writing)
           \/ GenerateCache /\ UNCHANGED state /\ pc \notin Writing
        /\ pc' \notin Starting \cup {"create"} /\ (Running' => Running)
    BY <1>1 DEF TableSkip, InTable, NextBlock, Worse, TableType, Block
  <2>3. ~Stuck' => mapBase' <= mapTop \/ (~Stuck /\ mapBase' <= mapBase)
    BY <1>1 DEF BackupBelow, TableSkip, InTable, NextBlock
  <2>4. BackupBelow'
    BY <1>1 DEF BackupBelow, TableSkip, InTable, NextBlock
  <2>. QED BY <2>1, <2>2, <2>3, <2>4 DEF Plain
<1>2. ASSUME TableFoundBad PROVE Plain
  <2>1. Touched
    BY <1>2 DEF Touched, TableFoundBad, InTable, FoundBad, SetState,
        NextBlock, Fails
  <2>2. /\ UNCHANGED <<mapping, sigBlock, mapTop>> /\ Worse(state, state')
        /\ \/ cache' = cache /\ (pc' \in Writing => pc \in Writing)
           \/ GenerateCache /\ UNCHANGED state /\ pc \notin Writing
        /\ pc' \notin Starting \cup {"create"} /\ (Running' => Running)
    BY <1>2 DEF TableFoundBad, InTable, FoundBad, SetState, NextBlock, Fails,
        Worse, TableType, Block
  <2>3. ~Stuck' => mapBase' <= mapTop \/ (~Stuck /\ mapBase' <= mapBase)
    BY <1>2 DEF BackupBelow, TableFoundBad, InTable, FoundBad, SetState,
        NextBlock, Fails
  <2>4. BackupBelow'
    BY <1>2 DEF BackupBelow, TableFoundBad, InTable, FoundBad, SetState,
        NextBlock, Fails
  <2>. QED BY <2>1, <2>2, <2>3, <2>4 DEF Plain
<1>3. ASSUME TableErase PROVE Plain
  <2>0. w.ba \in Blocks /\ w.ba < sigBlock /\ Running
    BY <1>3 DEF TableErase, InTable
  <2>1. Touched
    BY <1>3, <2>0, ErasesAt, NotTables DEF Touched, ChipType, TableErase,
        InTable, FoundGood, Goto, Fails
  <2>2. /\ UNCHANGED <<mapping, sigBlock, mapTop>> /\ Worse(state, state')
        /\ \/ cache' = cache /\ (pc' \in Writing => pc \in Writing)
           \/ GenerateCache /\ UNCHANGED state /\ pc \notin Writing
        /\ pc' \notin Starting \cup {"create"} /\ (Running' => Running)
    BY <1>3 DEF TableErase, InTable, FoundGood, EraseOk, Goto, EraseFails,
        Fails, Worse, TableType, Block
  <2>3. ~Stuck' => mapBase' <= mapTop \/ (~Stuck /\ mapBase' <= mapBase)
    BY <1>3 DEF BackupBelow, TableErase, InTable, FoundGood, EraseOk, Goto,
        EraseFails, Fails
  <2>4. BackupBelow'
    BY <1>3 DEF BackupBelow, TableErase, InTable, FoundGood, EraseOk, Goto,
        EraseFails, Fails
  <2>. QED BY <2>1, <2>2, <2>3, <2>4 DEF Plain
<1>4. ASSUME TableProgram PROVE Plain
  <2>0. w.ba \in Blocks /\ w.ba < sigBlock /\ Running
    BY <1>4 DEF TableProgram, InTable
  <2>1. Touched
    BY <1>4, <2>0, ProgramsAt, NotTables DEF Touched, ChipType, TableProgram,
        InTable, Goto, Fails
  <2>2. /\ UNCHANGED <<mapping, sigBlock, mapTop>> /\ Worse(state, state')
        /\ \/ cache' = cache /\ (pc' \in Writing => pc \in Writing)
           \/ GenerateCache /\ UNCHANGED state /\ pc \notin Writing
        /\ pc' \notin Starting \cup {"create"} /\ (Running' => Running)
    BY <1>4 DEF TableProgram, InTable, ProgramOk, Goto, ProgramFails, Fails,
        Worse, TableType, Block
  <2>3. ~Stuck' => mapBase' <= mapTop \/ (~Stuck /\ mapBase' <= mapBase)
    BY <1>4 DEF BackupBelow, TableProgram, InTable, ProgramOk, Goto,
        ProgramFails, Fails
  <2>4. BackupBelow'
    BY <1>4 DEF BackupBelow, TableProgram, InTable, ProgramOk, Goto,
        ProgramFails, Fails
  <2>. QED BY <2>1, <2>2, <2>3, <2>4 DEF Plain
<1>5. ASSUME TableMark PROVE Plain
  <2>0. w.ba \in Blocks /\ w.ba < sigBlock /\ Running
    BY <1>5 DEF TableMark, InTable
  <2>1. Touched
    BY <1>5, <2>0, MarksAt, NotTables DEF Touched, ChipType, TableMark,
        InTable, SetState, NextBlock, Goto, Fails
  <2>2. /\ UNCHANGED <<mapping, sigBlock, mapTop>> /\ Worse(state, state')
        /\ \/ cache' = cache /\ (pc' \in Writing => pc \in Writing)
           \/ GenerateCache /\ UNCHANGED state /\ pc \notin Writing
        /\ pc' \notin Starting \cup {"create"} /\ (Running' => Running)
    BY <1>5 DEF TableMark, InTable, MarkBad, SetState, NextBlock, Goto, Fails,
        Worse, TableType, Block
  <2>3. ~Stuck' => mapBase' <= mapTop \/ (~Stuck /\ mapBase' <= mapBase)
    BY <1>5 DEF BackupBelow, TableMark, InTable, MarkBad, SetState, NextBlock,
        Goto, Fails
  <2>4. BackupBelow'
    BY <1>5 DEF BackupBelow, TableMark, InTable, MarkBad, SetState, NextBlock,
        Goto, Fails
  <2>. QED BY <2>1, <2>2, <2>3, <2>4 DEF Plain
<1>. QED BY <1>1, <1>2, <1>3, <1>4, <1>5 DEF WriteTableSteps

\* The steps of nmbm_erase_range are plain.
LEMMA CleanPlain ==
    ASSUME ApartInv, CleanSteps
    PROVE  Plain
<1>. USE DEF ApartInv, Inv, TypeOK, LayoutType, ControlType, WriteRange, Ranges,
        WriteInv, CleanInv, LayoutInv, EraseInv, Running, Writing, Cleaning, Stuck, Starting
<1>1. ASSUME CleanSkip PROVE Plain
  <2>1. Touched
    BY <1>1 DEF Touched, CleanSkip, InTable, NextBlock
  <2>2. /\ UNCHANGED <<mapping, sigBlock, mapTop>> /\ Worse(state, state')
        /\ \/ cache' = cache /\ (pc' \in Writing => pc \in Writing)
           \/ GenerateCache /\ UNCHANGED state /\ pc \notin Writing
        /\ pc' \notin Starting \cup {"create"} /\ (Running' => Running)
    BY <1>1 DEF CleanSkip, InTable, NextBlock, Worse, TableType, Block
  <2>3. ~Stuck' => mapBase' <= mapTop \/ (~Stuck /\ mapBase' <= mapBase)
    BY <1>1 DEF BackupBelow, CleanSkip, InTable, NextBlock
  <2>4. BackupBelow'
    BY <1>1 DEF BackupBelow, CleanSkip, InTable, NextBlock
  <2>. QED BY <2>1, <2>2, <2>3, <2>4 DEF Plain
<1>2. ASSUME CleanFoundBad PROVE Plain
  <2>1. Touched
    BY <1>2 DEF Touched, CleanFoundBad, InTable, FoundBad, SetState,
        NextBlock, Fails
  <2>2. /\ UNCHANGED <<mapping, sigBlock, mapTop>> /\ Worse(state, state')
        /\ \/ cache' = cache /\ (pc' \in Writing => pc \in Writing)
           \/ GenerateCache /\ UNCHANGED state /\ pc \notin Writing
        /\ pc' \notin Starting \cup {"create"} /\ (Running' => Running)
    BY <1>2 DEF CleanFoundBad, InTable, FoundBad, SetState, NextBlock, Fails,
        Worse, TableType, Block
  <2>3. ~Stuck' => mapBase' <= mapTop \/ (~Stuck /\ mapBase' <= mapBase)
    BY <1>2 DEF BackupBelow, CleanFoundBad, InTable, FoundBad, SetState,
        NextBlock, Fails
  <2>4. BackupBelow'
    BY <1>2 DEF BackupBelow, CleanFoundBad, InTable, FoundBad, SetState,
        NextBlock, Fails
  <2>. QED BY <2>1, <2>2, <2>3, <2>4 DEF Plain
<1>3. ASSUME CleanErase PROVE Plain
  <2>0. w.ba \in Blocks /\ w.ba < sigBlock /\ Running
    BY <1>3 DEF CleanErase, InTable
  <2>1. Touched
    BY <1>3, <2>0, ErasesAt, NotTables DEF Touched, ChipType, CleanErase,
        InTable, FoundGood, NextBlock, Goto, Fails
  <2>2. /\ UNCHANGED <<mapping, sigBlock, mapTop>> /\ Worse(state, state')
        /\ \/ cache' = cache /\ (pc' \in Writing => pc \in Writing)
           \/ GenerateCache /\ UNCHANGED state /\ pc \notin Writing
        /\ pc' \notin Starting \cup {"create"} /\ (Running' => Running)
    BY <1>3 DEF CleanErase, InTable, FoundGood, EraseOk, NextBlock,
        EraseFails, Goto, Fails, Worse, TableType, Block
  <2>3. ~Stuck' => mapBase' <= mapTop \/ (~Stuck /\ mapBase' <= mapBase)
    BY <1>3 DEF BackupBelow, CleanErase, InTable, FoundGood, EraseOk,
        NextBlock, EraseFails, Goto, Fails
  <2>4. BackupBelow'
    BY <1>3 DEF BackupBelow, CleanErase, InTable, FoundGood, EraseOk,
        NextBlock, EraseFails, Goto, Fails
  <2>. QED BY <2>1, <2>2, <2>3, <2>4 DEF Plain
<1>4. ASSUME CleanMark PROVE Plain
  <2>0. w.ba \in Blocks /\ w.ba < sigBlock /\ Running
    BY <1>4 DEF CleanMark, InTable
  <2>1. Touched
    BY <1>4, <2>0, MarksAt, NotTables DEF Touched, ChipType, CleanMark,
        InTable, SetState, NextBlock, Goto, Fails
  <2>2. /\ UNCHANGED <<mapping, sigBlock, mapTop>> /\ Worse(state, state')
        /\ \/ cache' = cache /\ (pc' \in Writing => pc \in Writing)
           \/ GenerateCache /\ UNCHANGED state /\ pc \notin Writing
        /\ pc' \notin Starting \cup {"create"} /\ (Running' => Running)
    BY <1>4 DEF CleanMark, InTable, MarkBad, SetState, NextBlock, Goto, Fails,
        Worse, TableType, Block
  <2>3. ~Stuck' => mapBase' <= mapTop \/ (~Stuck /\ mapBase' <= mapBase)
    BY <1>4 DEF BackupBelow, CleanMark, InTable, MarkBad, SetState, NextBlock,
        Goto, Fails
  <2>4. BackupBelow'
    BY <1>4 DEF BackupBelow, CleanMark, InTable, MarkBad, SetState, NextBlock,
        Goto, Fails
  <2>. QED BY <2>1, <2>2, <2>3, <2>4 DEF Plain
<1>. QED BY <1>1, <1>2, <1>3, <1>4 DEF CleanSteps

\* The steps of nmbm_rebuild_info_table are plain.
LEMMA RebuildPlain ==
    ASSUME ApartInv, RebuildSteps
    PROVE  Plain
<1>. USE DEF ApartInv, Inv, TypeOK, LayoutType, ControlType, WriteRange, Ranges,
        WriteInv, CleanInv, LayoutInv, EraseInv, Running, Writing, Cleaning, Stuck, Starting
<1>1. ASSUME NewMainFails PROVE Plain
  <2>1. Touched
    BY <1>1 DEF Touched, NewMainFails, Exhausted, UpdateFails, Goto
  <2>2. /\ UNCHANGED <<mapping, sigBlock, mapTop>> /\ Worse(state, state')
        /\ \/ cache' = cache /\ (pc' \in Writing => pc \in Writing)
           \/ GenerateCache /\ UNCHANGED state /\ pc \notin Writing
        /\ pc' \notin Starting \cup {"create"} /\ (Running' => Running)
    BY <1>1 DEF NewMainFails, Exhausted, UpdateFails, Goto, Worse, TableType,
        Block, Returns, AfterInv, UpdateCallers
  <2>3. ~Stuck' => mapBase' <= mapTop \/ (~Stuck /\ mapBase' <= mapBase)
    BY <1>1 DEF BackupBelow, NewMainFails, Exhausted, UpdateFails, Goto
  <2>4. BackupBelow'
    BY <1>1 DEF BackupBelow, NewMainFails, Exhausted, UpdateFails, Goto
  <2>. QED BY <2>1, <2>2, <2>3, <2>4 DEF Plain
<1>2. ASSUME NewMainWritten PROVE Plain
  <2>1. Touched
    BY <1>2 DEF Touched, NewMainWritten, Written, TableStart, TableEnd,
        RebuildDone, WriteTable, Goto
  <2>2. /\ UNCHANGED <<mapping, sigBlock, mapTop>> /\ Worse(state, state')
        /\ \/ cache' = cache /\ (pc' \in Writing => pc \in Writing)
           \/ GenerateCache /\ UNCHANGED state /\ pc \notin Writing
        /\ pc' \notin Starting \cup {"create"} /\ (Running' => Running)
    BY <1>2 DEF NewMainWritten, Written, TableStart, TableEnd, RebuildDone,
        WriteTable, Goto, Worse, TableType, Block
  <2>3. ~Stuck' => mapBase' <= mapTop \/ (~Stuck /\ mapBase' <= mapBase)
    BY <1>2 DEF BackupBelow, NewMainWritten, Written, TableStart, TableEnd,
        RebuildDone, WriteTable, Goto
  <2>4. BackupBelow'
    BY <1>2 DEF BackupBelow, NewMainWritten, Written, TableStart, TableEnd,
        RebuildDone, WriteTable, Goto
  <2>. QED BY <2>1, <2>2, <2>3, <2>4 DEF Plain
<1>3. ASSUME NewBackupFails PROVE Plain
  <2>1. Touched
    BY <1>3 DEF Touched, NewBackupFails, Exhausted, RebuildDone, Goto
  <2>2. /\ UNCHANGED <<mapping, sigBlock, mapTop>> /\ Worse(state, state')
        /\ \/ cache' = cache /\ (pc' \in Writing => pc \in Writing)
           \/ GenerateCache /\ UNCHANGED state /\ pc \notin Writing
        /\ pc' \notin Starting \cup {"create"} /\ (Running' => Running)
    BY <1>3 DEF NewBackupFails, Exhausted, RebuildDone, Goto, Worse,
        TableType, Block
  <2>3. ~Stuck' => mapBase' <= mapTop \/ (~Stuck /\ mapBase' <= mapBase)
    BY <1>3 DEF BackupBelow, NewBackupFails, Exhausted, RebuildDone, Goto
  <2>4. BackupBelow'
    BY <1>3 DEF BackupBelow, NewBackupFails, Exhausted, RebuildDone, Goto
  <2>. QED BY <2>1, <2>2, <2>3, <2>4 DEF Plain
<1>4. ASSUME NewBackupWritten PROVE Plain
  <2>1. Touched
    BY <1>4 DEF Touched, NewBackupWritten, Written, TableStart, TableEnd,
        CleanRange, Goto
  <2>2. /\ UNCHANGED <<mapping, sigBlock, mapTop>> /\ Worse(state, state')
        /\ \/ cache' = cache /\ (pc' \in Writing => pc \in Writing)
           \/ GenerateCache /\ UNCHANGED state /\ pc \notin Writing
        /\ pc' \notin Starting \cup {"create"} /\ (Running' => Running)
    BY <1>4 DEF NewBackupWritten, Written, TableStart, TableEnd, CleanRange,
        Goto, Worse, TableType, Block
  <2>3. ~Stuck' => mapBase' <= mapTop \/ (~Stuck /\ mapBase' <= mapBase)
    BY <1>4 DEF BackupBelow, NewBackupWritten, Written, TableStart, TableEnd,
        CleanRange, Goto
  <2>4. BackupBelow'
    BY <1>4 DEF BackupBelow, NewBackupWritten, Written, TableStart, TableEnd,
        CleanRange, Goto
  <2>. QED BY <2>1, <2>2, <2>3, <2>4 DEF Plain
<1>5. ASSUME NewBackupCleaned PROVE Plain
  <2>1. Touched
    BY <1>5 DEF Touched, NewBackupCleaned, Cleaned, RebuildDone, Goto
  <2>2. /\ UNCHANGED <<mapping, sigBlock, mapTop>> /\ Worse(state, state')
        /\ \/ cache' = cache /\ (pc' \in Writing => pc \in Writing)
           \/ GenerateCache /\ UNCHANGED state /\ pc \notin Writing
        /\ pc' \notin Starting \cup {"create"} /\ (Running' => Running)
    BY <1>5 DEF NewBackupCleaned, Cleaned, RebuildDone, Goto, Worse,
        TableType, Block
  <2>3. ~Stuck' => mapBase' <= mapTop \/ (~Stuck /\ mapBase' <= mapBase)
    BY <1>5 DEF BackupBelow, NewBackupCleaned, Cleaned, RebuildDone, Goto
  <2>4. BackupBelow'
    BY <1>5 DEF BackupBelow, NewBackupCleaned, Cleaned, RebuildDone, Goto
  <2>. QED BY <2>1, <2>2, <2>3, <2>4 DEF Plain
<1>. QED BY <1>1, <1>2, <1>3, <1>4, <1>5 DEF RebuildSteps

\* The steps of nmbm_update_info_table are plain.
LEMMA UpdatePlain ==
    ASSUME ApartInv, UpdateSteps
    PROVE  Plain
<1>. USE DEF ApartInv, Inv, TypeOK, LayoutType, ControlType, WriteRange, Ranges,
        WriteInv, CleanInv, LayoutInv, EraseInv, Running, Writing, Cleaning, Stuck, Starting
<1>1. ASSUME UpdateDone PROVE Plain
  <2>1. Touched
    BY <1>1 DEF Touched, UpdateDone, Goto
  <2>2. /\ UNCHANGED <<mapping, sigBlock, mapTop>> /\ Worse(state, state')
        /\ \/ cache' = cache /\ (pc' \in Writing => pc \in Writing)
           \/ GenerateCache /\ UNCHANGED state /\ pc \notin Writing
        /\ pc' \notin Starting \cup {"create"} /\ (Running' => Running)
    BY <1>1 DEF UpdateDone, Goto, Worse, TableType, Block, Returns, AfterInv
  <2>3. ~Stuck' => mapBase' <= mapTop \/ (~Stuck /\ mapBase' <= mapBase)
    BY <1>1 DEF BackupBelow, UpdateDone, Goto
  <2>4. BackupBelow'
    BY <1>1 DEF BackupBelow, UpdateDone, Goto, Returns, AfterInv
  <2>. QED BY <2>1, <2>2, <2>3, <2>4 DEF Plain
<1>2. ASSUME UpdateStart PROVE Plain
  <2>1. Touched
    BY <1>2 DEF Touched, UpdateStart, WriteTable, Goto
  <2>2. /\ UNCHANGED <<mapping, sigBlock, mapTop>> /\ Worse(state, state')
        /\ \/ cache' = cache /\ (pc' \in Writing => pc \in Writing)
           \/ GenerateCache /\ UNCHANGED state /\ pc \notin Writing
        /\ pc' \notin Starting \cup {"create"} /\ (Running' => Running)
    BY <1>2 DEF UpdateStart, WriteTable, Goto, Worse, TableType, GenerateCache
  <2>3. ~Stuck' => mapBase' <= mapTop \/ (~Stuck /\ mapBase' <= mapBase)
    BY <1>2 DEF BackupBelow, UpdateStart, WriteTable, Goto
  <2>4. BackupBelow'
    BY <1>2 DEF BackupBelow, UpdateStart, WriteTable, Goto
  <2>. QED BY <2>1, <2>2, <2>3, <2>4 DEF Plain
<1>3. ASSUME BackupWritten PROVE Plain
  <2>1. Touched
    BY <1>3 DEF Touched, BackupWritten, Written, TableStart, TableEnd,
        WriteTable, Goto
  <2>2. /\ UNCHANGED <<mapping, sigBlock, mapTop>> /\ Worse(state, state')
        /\ \/ cache' = cache /\ (pc' \in Writing => pc \in Writing)
           \/ GenerateCache /\ UNCHANGED state /\ pc \notin Writing
        /\ pc' \notin Starting \cup {"create"} /\ (Running' => Running)
    BY <1>3 DEF BackupWritten, Written, TableStart, TableEnd, WriteTable,
        Goto, Worse, TableType, Block
  <2>3. ~Stuck' => mapBase' <= mapTop \/ (~Stuck /\ mapBase' <= mapBase)
    BY <1>3 DEF BackupBelow, BackupWritten, Written, TableStart, TableEnd,
        WriteTable, Goto
  <2>4. BackupBelow'
    BY <1>3 DEF BackupBelow, BackupWritten, Written, TableStart, TableEnd,
        WriteTable, Goto
  <2>. QED BY <2>1, <2>2, <2>3, <2>4 DEF Plain
<1>4. ASSUME BackupFails PROVE Plain
  <2>1. Touched
    BY <1>4 DEF Touched, BackupFails, Exhausted, WriteTable, Goto
  <2>2. /\ UNCHANGED <<mapping, sigBlock, mapTop>> /\ Worse(state, state')
        /\ \/ cache' = cache /\ (pc' \in Writing => pc \in Writing)
           \/ GenerateCache /\ UNCHANGED state /\ pc \notin Writing
        /\ pc' \notin Starting \cup {"create"} /\ (Running' => Running)
    BY <1>4 DEF BackupFails, Exhausted, WriteTable, Goto, Worse, TableType,
        Block
  <2>3. ~Stuck' => mapBase' <= mapTop \/ (~Stuck /\ mapBase' <= mapBase)
    BY <1>4 DEF BackupBelow, BackupFails, Exhausted, WriteTable, Goto
  <2>4. BackupBelow'
    BY <1>4 DEF BackupBelow, BackupFails, Exhausted, WriteTable, Goto
  <2>. QED BY <2>1, <2>2, <2>3, <2>4 DEF Plain
<1>5. ASSUME MainWritten PROVE Plain
  <2>1. Touched
    BY <1>5 DEF Touched, MainWritten, Written, TableStart, TableEnd, Goto
  <2>2. /\ UNCHANGED <<mapping, sigBlock, mapTop>> /\ Worse(state, state')
        /\ \/ cache' = cache /\ (pc' \in Writing => pc \in Writing)
           \/ GenerateCache /\ UNCHANGED state /\ pc \notin Writing
        /\ pc' \notin Starting \cup {"create"} /\ (Running' => Running)
    BY <1>5 DEF MainWritten, Written, TableStart, TableEnd, Goto, Worse,
        TableType, Block
  <2>3. ~Stuck' => mapBase' <= mapTop \/ (~Stuck /\ mapBase' <= mapBase)
    BY <1>5 DEF BackupBelow, MainWritten, Written, TableStart, TableEnd, Goto
  <2>4. BackupBelow'
    BY <1>5 DEF BackupBelow, MainWritten, Written, TableStart, TableEnd, Goto
  <2>. QED BY <2>1, <2>2, <2>3, <2>4 DEF Plain
<1>6. ASSUME MainFailsAlone PROVE Plain
  <2>1. Touched
    BY <1>6 DEF Touched, MainFailsAlone, Exhausted, Rebuild, WriteTable, Goto
  <2>2. /\ UNCHANGED <<mapping, sigBlock, mapTop>> /\ Worse(state, state')
        /\ \/ cache' = cache /\ (pc' \in Writing => pc \in Writing)
           \/ GenerateCache /\ UNCHANGED state /\ pc \notin Writing
        /\ pc' \notin Starting \cup {"create"} /\ (Running' => Running)
    BY <1>6 DEF MainFailsAlone, Exhausted, Rebuild, WriteTable, Goto, Worse,
        TableType, Block
  <2>3. ~Stuck' => mapBase' <= mapTop \/ (~Stuck /\ mapBase' <= mapBase)
    BY <1>6 DEF BackupBelow, MainFailsAlone, Exhausted, Rebuild, WriteTable,
        Goto
  <2>4. BackupBelow'
    BY <1>6 DEF BackupBelow, MainFailsAlone, Exhausted, Rebuild, WriteTable,
        Goto
  <2>. QED BY <2>1, <2>2, <2>3, <2>4 DEF Plain
<1>7. ASSUME MainFails PROVE Plain
  <2>1. Touched
    BY <1>7 DEF Touched, MainFails, Exhausted, BackupTakesOver, WriteTable,
        Goto
  <2>2. /\ UNCHANGED <<mapping, sigBlock, mapTop>> /\ Worse(state, state')
        /\ \/ cache' = cache /\ (pc' \in Writing => pc \in Writing)
           \/ GenerateCache /\ UNCHANGED state /\ pc \notin Writing
        /\ pc' \notin Starting \cup {"create"} /\ (Running' => Running)
    BY <1>7 DEF MainFails, Exhausted, BackupTakesOver, WriteTable, Goto,
        Worse, TableType, Block
  <2>3. ~Stuck' => mapBase' <= mapTop \/ (~Stuck /\ mapBase' <= mapBase)
    BY <1>7 DEF BackupBelow, MainFails, Exhausted, BackupTakesOver,
        WriteTable, Goto
  <2>4. BackupBelow'
    BY <1>7, ReservableIn DEF BackupBelow, MainFails, Exhausted,
        BackupTakesOver, WriteTable, Goto
  <2>. QED BY <2>1, <2>2, <2>3, <2>4 DEF Plain
<1>8. ASSUME TempFails PROVE Plain
  <2>1. Touched
    BY <1>8 DEF Touched, TempFails, Exhausted, WriteTable, BackupTakesOver,
        Goto
  <2>2. /\ UNCHANGED <<mapping, sigBlock, mapTop>> /\ Worse(state, state')
        /\ \/ cache' = cache /\ (pc' \in Writing => pc \in Writing)
           \/ GenerateCache /\ UNCHANGED state /\ pc \notin Writing
        /\ pc' \notin Starting \cup {"create"} /\ (Running' => Running)
    BY <1>8 DEF TempFails, Exhausted, WriteTable, BackupTakesOver, Goto,
        Worse, TableType, Block
  <2>3. ~Stuck' => mapBase' <= mapTop \/ (~Stuck /\ mapBase' <= mapBase)
    BY <1>8 DEF BackupBelow, TempFails, Exhausted, WriteTable,
        BackupTakesOver, Goto
  <2>4. BackupBelow'
    BY <1>8 DEF BackupBelow, TempFails, Exhausted, WriteTable,
        BackupTakesOver, Goto
  <2>. QED BY <2>1, <2>2, <2>3, <2>4 DEF Plain
<1>9. ASSUME TempWritten PROVE Plain
  <2>1. Touched
    BY <1>9 DEF Touched, TempWritten, Written, TableEnd, WriteTable,
        TableStart, Goto
  <2>2. /\ UNCHANGED <<mapping, sigBlock, mapTop>> /\ Worse(state, state')
        /\ \/ cache' = cache /\ (pc' \in Writing => pc \in Writing)
           \/ GenerateCache /\ UNCHANGED state /\ pc \notin Writing
        /\ pc' \notin Starting \cup {"create"} /\ (Running' => Running)
    BY <1>9 DEF TempWritten, Written, TableEnd, WriteTable, TableStart, Goto,
        Worse, TableType, Block
  <2>3. ~Stuck' => mapBase' <= mapTop \/ (~Stuck /\ mapBase' <= mapBase)
    BY <1>9 DEF BackupBelow, TempWritten, Written, TableEnd, WriteTable,
        TableStart, Goto
  <2>4. BackupBelow'
    BY <1>9 DEF BackupBelow, TempWritten, Written, TableEnd, WriteTable,
        TableStart, Goto
  <2>. QED BY <2>1, <2>2, <2>3, <2>4 DEF Plain
<1>10. ASSUME RescueEnds PROVE Plain
  <2>1. Touched
    BY <1>10 DEF Touched, RescueEnds, Written, TableStart, Exhausted, Goto
  <2>2. /\ UNCHANGED <<mapping, sigBlock, mapTop>> /\ Worse(state, state')
        /\ \/ cache' = cache /\ (pc' \in Writing => pc \in Writing)
           \/ GenerateCache /\ UNCHANGED state /\ pc \notin Writing
        /\ pc' \notin Starting \cup {"create"} /\ (Running' => Running)
    BY <1>10 DEF RescueEnds, Written, TableStart, Exhausted, Goto, Worse,
        TableType, Block
  <2>3. ~Stuck' => mapBase' <= mapTop \/ (~Stuck /\ mapBase' <= mapBase)
    BY <1>10 DEF BackupBelow, RescueEnds, Written, TableStart, Exhausted, Goto
  <2>4. BackupBelow'
    BY <1>10 DEF BackupBelow, RescueEnds, Written, TableStart, Exhausted, Goto
  <2>. QED BY <2>1, <2>2, <2>3, <2>4 DEF Plain
<1>. QED BY <1>1, <1>2, <1>3, <1>4, <1>5, <1>6, <1>7, <1>8, <1>9, <1>10 DEF UpdateSteps

\* What follows when the tables have been loaded is plain.
LEMMA LoadPlain ==
    ASSUME ApartInv, \/ LoadMainWritten \/ LoadMainFails \/ LoadBackupEnds \/ FrontWritten
           \/ FrontCleaned \/ FrontFails \/ NextFails \/ NextWritten
           \/ NextCleaned
    PROVE  Plain
<1>. USE DEF ApartInv, Inv, TypeOK, LayoutType, ControlType, WriteRange, Ranges,
        WriteInv, CleanInv, LayoutInv, EraseInv, Running, Writing, Cleaning, Stuck, Starting
<1>1. ASSUME LoadMainWritten PROVE Plain
  <2>1. Touched
    BY <1>1 DEF Touched, LoadMainWritten, Written, TableStart, Attached, Call,
        Goto
  <2>2. /\ UNCHANGED <<mapping, sigBlock, mapTop>> /\ Worse(state, state')
        /\ \/ cache' = cache /\ (pc' \in Writing => pc \in Writing)
           \/ GenerateCache /\ UNCHANGED state /\ pc \notin Writing
        /\ pc' \notin Starting \cup {"create"} /\ (Running' => Running)
    BY <1>1 DEF LoadMainWritten, Written, TableStart, Attached, Call, Goto,
        Worse, TableType, Block
  <2>3. ~Stuck' => mapBase' <= mapTop \/ (~Stuck /\ mapBase' <= mapBase)
    BY <1>1 DEF BackupBelow, LoadMainWritten, Written, TableStart, Attached,
        Call, Goto
  <2>4. BackupBelow'
    BY <1>1 DEF BackupBelow, LoadMainWritten, Written, TableStart, Attached,
        Call, Goto
  <2>. QED BY <2>1, <2>2, <2>3, <2>4 DEF Plain
<1>2. ASSUME LoadMainFails PROVE Plain
  <2>1. Touched
    BY <1>2 DEF Touched, LoadMainFails, Exhausted, WriteTable, Goto
  <2>2. /\ UNCHANGED <<mapping, sigBlock, mapTop>> /\ Worse(state, state')
        /\ \/ cache' = cache /\ (pc' \in Writing => pc \in Writing)
           \/ GenerateCache /\ UNCHANGED state /\ pc \notin Writing
        /\ pc' \notin Starting \cup {"create"} /\ (Running' => Running)
    BY <1>2 DEF LoadMainFails, Exhausted, WriteTable, Goto, Worse, TableType,
        Block
  <2>3. ~Stuck' => mapBase' <= mapTop \/ (~Stuck /\ mapBase' <= mapBase)
    BY <1>2 DEF BackupBelow, LoadMainFails, Exhausted, WriteTable, Goto
  <2>4. BackupBelow'
    BY <1>2 DEF BackupBelow, LoadMainFails, Exhausted, WriteTable, Goto
  <2>. QED BY <2>1, <2>2, <2>3, <2>4 DEF Plain
<1>3. ASSUME LoadBackupEnds PROVE Plain
  <2>1. Touched
    BY <1>3 DEF Touched, LoadBackupEnds, Written, TableStart, TableEnd,
        Attached, Exhausted, Call, Goto
  <2>2. /\ UNCHANGED <<mapping, sigBlock, mapTop>> /\ Worse(state, state')
        /\ \/ cache' = cache /\ (pc' \in Writing => pc \in Writing)
           \/ GenerateCache /\ UNCHANGED state /\ pc \notin Writing
        /\ pc' \notin Starting \cup {"create"} /\ (Running' => Running)
    BY <1>3 DEF LoadBackupEnds, Written, TableStart, TableEnd, Attached,
        Exhausted, Call, Goto, Worse, TableType, Block
  <2>3. ~Stuck' => mapBase' <= mapTop \/ (~Stuck /\ mapBase' <= mapBase)
    <3>1. CASE Written("loadBackup") /\ mapBase' = TableEnd
      BY <1>3, <3>1 DEF Written, TableEnd
    <3>2. CASE Exhausted("loadBackup") /\ Attached(FALSE)
      <4>1. protected' = TRUE /\ pc' = "idle"
        BY <3>2 DEF Attached, Call, Goto
      <4>. QED BY <4>1
    <3>. QED BY <1>3, <3>1, <3>2 DEF LoadBackupEnds
  <2>4. BackupBelow'
    BY <1>3 DEF BackupBelow, LoadBackupEnds, Written, TableStart, TableEnd,
        Attached, Exhausted, Call, Goto
  <2>. QED BY <2>1, <2>2, <2>3, <2>4 DEF Plain
<1>4. ASSUME FrontWritten PROVE Plain
  <2>1. Touched
    BY <1>4 DEF Touched, FrontWritten, Written, TableStart, CleanRange,
        TableEnd, Goto
  <2>2. /\ UNCHANGED <<mapping, sigBlock, mapTop>> /\ Worse(state, state')
        /\ \/ cache' = cache /\ (pc' \in Writing => pc \in Writing)
           \/ GenerateCache /\ UNCHANGED state /\ pc \notin Writing
        /\ pc' \notin Starting \cup {"create"} /\ (Running' => Running)
    BY <1>4 DEF FrontWritten, Written, TableStart, CleanRange, TableEnd, Goto,
        Worse, TableType, Block
  <2>3. ~Stuck' => mapBase' <= mapTop \/ (~Stuck /\ mapBase' <= mapBase)
    BY <1>4 DEF BackupBelow, FrontWritten, Written, TableStart, CleanRange,
        TableEnd, Goto
  <2>4. BackupBelow'
    BY <1>4 DEF BackupBelow, FrontWritten, Written, TableStart, CleanRange,
        TableEnd, Goto
  <2>. QED BY <2>1, <2>2, <2>3, <2>4 DEF Plain
<1>5. ASSUME FrontCleaned PROVE Plain
  <2>1. Touched
    BY <1>5 DEF Touched, FrontCleaned, Cleaned, Attached, Call, Goto
  <2>2. /\ UNCHANGED <<mapping, sigBlock, mapTop>> /\ Worse(state, state')
        /\ \/ cache' = cache /\ (pc' \in Writing => pc \in Writing)
           \/ GenerateCache /\ UNCHANGED state /\ pc \notin Writing
        /\ pc' \notin Starting \cup {"create"} /\ (Running' => Running)
    BY <1>5 DEF FrontCleaned, Cleaned, Attached, Call, Goto, Worse, TableType,
        Block
  <2>3. ~Stuck' => mapBase' <= mapTop \/ (~Stuck /\ mapBase' <= mapBase)
    BY <1>5 DEF BackupBelow, FrontCleaned, Cleaned, Attached, Call, Goto
  <2>4. BackupBelow'
    BY <1>5 DEF BackupBelow, FrontCleaned, Cleaned, Attached, Call, Goto
  <2>. QED BY <2>1, <2>2, <2>3, <2>4 DEF Plain
<1>6. ASSUME FrontFails PROVE Plain
  <2>1. Touched
    BY <1>6 DEF Touched, FrontFails, Exhausted, Attached, WriteTable, Call,
        Goto
  <2>2. /\ UNCHANGED <<mapping, sigBlock, mapTop>> /\ Worse(state, state')
        /\ \/ cache' = cache /\ (pc' \in Writing => pc \in Writing)
           \/ GenerateCache /\ UNCHANGED state /\ pc \notin Writing
        /\ pc' \notin Starting \cup {"create"} /\ (Running' => Running)
    BY <1>6 DEF FrontFails, Exhausted, Attached, WriteTable, Call, Goto,
        Worse, TableType, Block
  <2>3. ~Stuck' => mapBase' <= mapTop \/ (~Stuck /\ mapBase' <= mapBase)
    BY <1>6 DEF BackupBelow, FrontFails, Exhausted, Attached, WriteTable,
        Call, Goto
  <2>4. BackupBelow'
    BY <1>6, ReservableIn DEF BackupBelow, FrontFails, Exhausted, Attached,
        WriteTable, Call, Goto
  <2>. QED BY <2>1, <2>2, <2>3, <2>4 DEF Plain
<1>7. ASSUME NextFails PROVE Plain
  <2>1. Touched
    BY <1>7 DEF Touched, NextFails, Exhausted, WriteTable, Attached, Goto,
        Call
  <2>2. /\ UNCHANGED <<mapping, sigBlock, mapTop>> /\ Worse(state, state')
        /\ \/ cache' = cache /\ (pc' \in Writing => pc \in Writing)
           \/ GenerateCache /\ UNCHANGED state /\ pc \notin Writing
        /\ pc' \notin Starting \cup {"create"} /\ (Running' => Running)
    BY <1>7 DEF NextFails, Exhausted, WriteTable, Attached, Goto, Call, Worse,
        TableType, Block
  <2>3. ~Stuck' => mapBase' <= mapTop \/ (~Stuck /\ mapBase' <= mapBase)
    BY <1>7 DEF BackupBelow, NextFails, Exhausted, WriteTable, Attached, Goto,
        Call
  <2>4. BackupBelow'
    BY <1>7 DEF BackupBelow, NextFails, Exhausted, WriteTable, Attached, Goto,
        Call
  <2>. QED BY <2>1, <2>2, <2>3, <2>4 DEF Plain
<1>8. ASSUME NextWritten PROVE Plain
  <2>1. Touched
    BY <1>8 DEF Touched, NextWritten, Written, CleanRange, TableStart, Goto
  <2>2. /\ UNCHANGED <<mapping, sigBlock, mapTop>> /\ Worse(state, state')
        /\ \/ cache' = cache /\ (pc' \in Writing => pc \in Writing)
           \/ GenerateCache /\ UNCHANGED state /\ pc \notin Writing
        /\ pc' \notin Starting \cup {"create"} /\ (Running' => Running)
    BY <1>8 DEF NextWritten, Written, CleanRange, TableStart, Goto, Worse,
        TableType, Block
  <2>3. ~Stuck' => mapBase' <= mapTop \/ (~Stuck /\ mapBase' <= mapBase)
    BY <1>8 DEF BackupBelow, NextWritten, Written, CleanRange, TableStart,
        Goto
  <2>4. BackupBelow'
    BY <1>8 DEF BackupBelow, NextWritten, Written, CleanRange, TableStart,
        Goto
  <2>. QED BY <2>1, <2>2, <2>3, <2>4 DEF Plain
<1>9. ASSUME NextCleaned PROVE Plain
  <2>1. Touched
    BY <1>9 DEF Touched, NextCleaned, Cleaned, Attached, Call, Goto
  <2>2. /\ UNCHANGED <<mapping, sigBlock, mapTop>> /\ Worse(state, state')
        /\ \/ cache' = cache /\ (pc' \in Writing => pc \in Writing)
           \/ GenerateCache /\ UNCHANGED state /\ pc \notin Writing
        /\ pc' \notin Starting \cup {"create"} /\ (Running' => Running)
    BY <1>9 DEF NextCleaned, Cleaned, Attached, Call, Goto, Worse, TableType,
        Block
  <2>3. ~Stuck' => mapBase' <= mapTop \/ (~Stuck /\ mapBase' <= mapBase)
    BY <1>9 DEF BackupBelow, NextCleaned, Cleaned, Attached, Call, Goto
  <2>4. BackupBelow'
    BY <1>9 DEF BackupBelow, NextCleaned, Cleaned, Attached, Call, Goto
  <2>. QED BY <2>1, <2>2, <2>3, <2>4 DEF Plain
<1>. QED BY <1>1, <1>2, <1>3, <1>4, <1>5, <1>6, <1>7, <1>8, <1>9

\* An attach that is refused, and the end of one that creates tables, are plain.
LEMMA CreatePlain ==
    ASSUME ApartInv, AttachRefused \/ MapTailEnds \/ Created
    PROVE  Plain
<1>. USE DEF ApartInv, Inv, TypeOK, LayoutType, ControlType, WriteRange, Ranges,
        WriteInv, CleanInv, LayoutInv, EraseInv, Running, Writing, Cleaning, Stuck, Starting
<1>1. ASSUME AttachRefused PROVE Plain
  <2>1. Touched
    BY <1>1 DEF Touched, AttachRefused, SignatureAt, Loadables, Loadable,
        Accepted
  <2>2. /\ UNCHANGED <<mapping, sigBlock, mapTop>> /\ Worse(state, state')
        /\ \/ cache' = cache /\ (pc' \in Writing => pc \in Writing)
           \/ GenerateCache /\ UNCHANGED state /\ pc \notin Writing
        /\ pc' \notin Starting \cup {"create"} /\ (Running' => Running)
    BY <1>1 DEF AttachRefused, SignatureAt, Loadables, Loadable, Accepted,
        Worse, TableType, Block
  <2>3. ~Stuck' => mapBase' <= mapTop \/ (~Stuck /\ mapBase' <= mapBase)
    BY <1>1 DEF BackupBelow, AttachRefused, SignatureAt, Loadables, Loadable,
        Accepted
  <2>4. BackupBelow'
    BY <1>1 DEF BackupBelow, AttachRefused, SignatureAt, Loadables, Loadable,
        Accepted
  <2>. QED BY <2>1, <2>2, <2>3, <2>4 DEF Plain
<1>2. ASSUME MapTailEnds PROVE Plain
  <2>1. Touched
    BY <1>2 DEF Touched, MapTailEnds, NoSpare, Update, SpareUsedUp, Goto
  <2>2. /\ UNCHANGED <<mapping, sigBlock, mapTop>> /\ Worse(state, state')
        /\ \/ cache' = cache /\ (pc' \in Writing => pc \in Writing)
           \/ GenerateCache /\ UNCHANGED state /\ pc \notin Writing
        /\ pc' \notin Starting \cup {"create"} /\ (Running' => Running)
    BY <1>2 DEF MapTailEnds, NoSpare, Update, SpareUsedUp, Goto, Worse,
        TableType, Block
  <2>3. ~Stuck' => mapBase' <= mapTop \/ (~Stuck /\ mapBase' <= mapBase)
    BY <1>2 DEF BackupBelow, MapTailEnds, NoSpare, Update, SpareUsedUp, Goto
  <2>4. BackupBelow'
    BY <1>2 DEF BackupBelow, MapTailEnds, NoSpare, Update, SpareUsedUp, Goto
  <2>. QED BY <2>1, <2>2, <2>3, <2>4 DEF Plain
<1>3. ASSUME Created PROVE Plain
  <2>1. Touched
    BY <1>3 DEF Touched, Created, Call, Goto
  <2>2. /\ UNCHANGED <<mapping, sigBlock, mapTop>> /\ Worse(state, state')
        /\ \/ cache' = cache /\ (pc' \in Writing => pc \in Writing)
           \/ GenerateCache /\ UNCHANGED state /\ pc \notin Writing
        /\ pc' \notin Starting \cup {"create"} /\ (Running' => Running)
    BY <1>3 DEF Created, Call, Goto, Worse, TableType, Block
  <2>3. ~Stuck' => mapBase' <= mapTop \/ (~Stuck /\ mapBase' <= mapBase)
    BY <1>3 DEF BackupBelow, Created, Call, Goto
  <2>4. BackupBelow'
    BY <1>3 DEF BackupBelow, Created, Call, Goto
  <2>. QED BY <2>1, <2>2, <2>3, <2>4 DEF Plain
<1>. QED BY <1>1, <1>2, <1>3

\* So are the erases, writes and reads that map no block anew.
LEMMA OperationPlain ==
    ASSUME ApartInv, \/ EraseRetired \/ EraseFoundBad \/ EraseBlock \/ EraseMark
           \/ Failed \/ WriteBlock \/ ReadBlock \/ Marked
    PROVE  Plain
<1>. USE DEF ApartInv, Inv, TypeOK, LayoutType, ControlType, WriteRange, Ranges,
        WriteInv, CleanInv, LayoutInv, EraseInv, Running, Writing, Cleaning, Stuck, Starting
<1>1. ASSUME EraseRetired PROVE Plain
  <2>1. Touched
    BY <1>1 DEF Touched, EraseRetired, Return, Goto, Call
  <2>2. /\ UNCHANGED <<mapping, sigBlock, mapTop>> /\ Worse(state, state')
        /\ \/ cache' = cache /\ (pc' \in Writing => pc \in Writing)
           \/ GenerateCache /\ UNCHANGED state /\ pc \notin Writing
        /\ pc' \notin Starting \cup {"create"} /\ (Running' => Running)
    BY <1>1 DEF EraseRetired, Return, Goto, Call, Worse, TableType, Block
  <2>3. ~Stuck' => mapBase' <= mapTop \/ (~Stuck /\ mapBase' <= mapBase)
    BY <1>1 DEF BackupBelow, EraseRetired, Return, Goto, Call
  <2>4. BackupBelow'
    BY <1>1 DEF BackupBelow, EraseRetired, Return, Goto, Call
  <2>. QED BY <2>1, <2>2, <2>3, <2>4 DEF Plain
<1>2. ASSUME EraseFoundBad PROVE Plain
  <2>1. Touched
    BY <1>2 DEF Touched, EraseFoundBad, FoundBad, SetState, Goto, Fails
  <2>2. /\ UNCHANGED <<mapping, sigBlock, mapTop>> /\ Worse(state, state')
        /\ \/ cache' = cache /\ (pc' \in Writing => pc \in Writing)
           \/ GenerateCache /\ UNCHANGED state /\ pc \notin Writing
        /\ pc' \notin Starting \cup {"create"} /\ (Running' => Running)
    BY <1>2 DEF EraseFoundBad, FoundBad, SetState, Goto, Fails, Worse,
        TableType, Block
  <2>3. ~Stuck' => mapBase' <= mapTop \/ (~Stuck /\ mapBase' <= mapBase)
    BY <1>2 DEF BackupBelow, EraseFoundBad, FoundBad, SetState, Goto, Fails
  <2>4. BackupBelow'
    BY <1>2 DEF BackupBelow, EraseFoundBad, FoundBad, SetState, Goto, Fails
  <2>. QED BY <2>1, <2>2, <2>3, <2>4 DEF Plain
<1>3. ASSUME EraseBlock PROVE Plain
  <2>0. Block \in Blocks /\ Block < sigBlock /\ Running
    BY <1>3, MappedBelow DEF EraseBlock, Block, Usable
  <2>1. Touched
    BY <1>3, <2>0, ErasesAt, NotTables DEF Touched, ChipType, EraseBlock,
        FoundGood, Return, Goto, Call, Fails
  <2>2. /\ UNCHANGED <<mapping, sigBlock, mapTop>> /\ Worse(state, state')
        /\ \/ cache' = cache /\ (pc' \in Writing => pc \in Writing)
           \/ GenerateCache /\ UNCHANGED state /\ pc \notin Writing
        /\ pc' \notin Starting \cup {"create"} /\ (Running' => Running)
    BY <1>3 DEF EraseBlock, FoundGood, EraseOk, Return, EraseFails, Goto,
        Call, Fails, Worse, TableType, Block
  <2>3. ~Stuck' => mapBase' <= mapTop \/ (~Stuck /\ mapBase' <= mapBase)
    BY <1>3 DEF BackupBelow, EraseBlock, FoundGood, EraseOk, Return,
        EraseFails, Goto, Call, Fails
  <2>4. BackupBelow'
    BY <1>3 DEF BackupBelow, EraseBlock, FoundGood, EraseOk, Return,
        EraseFails, Goto, Call, Fails
  <2>. QED BY <2>1, <2>2, <2>3, <2>4 DEF Plain
<1>4. ASSUME EraseMark PROVE Plain
  <2>0. Block \in Blocks /\ Block < sigBlock /\ Running
    BY <1>4, MappedBelow DEF EraseMark, Block, Usable
  <2>1. Touched
    BY <1>4, <2>0, MarksAt, NotTables DEF Touched, ChipType, EraseMark,
        SetState, Goto, Fails
  <2>2. /\ UNCHANGED <<mapping, sigBlock, mapTop>> /\ Worse(state, state')
        /\ \/ cache' = cache /\ (pc' \in Writing => pc \in Writing)
           \/ GenerateCache /\ UNCHANGED state /\ pc \notin Writing
        /\ pc' \notin Starting \cup {"create"} /\ (Running' => Running)
    BY <1>4 DEF EraseMark, MarkBad, SetState, Goto, Fails, Worse, TableType,
        Block
  <2>3. ~Stuck' => mapBase' <= mapTop \/ (~Stuck /\ mapBase' <= mapBase)
    BY <1>4 DEF BackupBelow, EraseMark, MarkBad, SetState, Goto, Fails
  <2>4. BackupBelow'
    BY <1>4 DEF BackupBelow, EraseMark, MarkBad, SetState, Goto, Fails
  <2>. QED BY <2>1, <2>2, <2>3, <2>4 DEF Plain
<1>5. ASSUME Failed PROVE Plain
  <2>1. Touched
    BY <1>5 DEF Touched, Failed, Return, Call, Goto
  <2>2. /\ UNCHANGED <<mapping, sigBlock, mapTop>> /\ Worse(state, state')
        /\ \/ cache' = cache /\ (pc' \in Writing => pc \in Writing)
           \/ GenerateCache /\ UNCHANGED state /\ pc \notin Writing
        /\ pc' \notin Starting \cup {"create"} /\ (Running' => Running)
    BY <1>5 DEF Failed, Return, Call, Goto, Worse, TableType, Block
  <2>3. ~Stuck' => mapBase' <= mapTop \/ (~Stuck /\ mapBase' <= mapBase)
    BY <1>5 DEF BackupBelow, Failed, Return, Call, Goto
  <2>4. BackupBelow'
    BY <1>5 DEF BackupBelow, Failed, Return, Call, Goto
  <2>. QED BY <2>1, <2>2, <2>3, <2>4 DEF Plain
<1>6. ASSUME WriteBlock PROVE Plain
  <2>0. Usable(lb) => Block \in Blocks /\ Block < sigBlock /\ Running
    BY <1>6, MappedBelow DEF WriteBlock, Block, Usable
  <2>1. Touched
    BY <1>6, <2>0, ProgramsAt, NotTables DEF Touched, ChipType, WriteBlock,
        Return, SetState, Update, Call, Fails, Goto
  <2>2. /\ UNCHANGED <<mapping, sigBlock, mapTop>> /\ Worse(state, state')
        /\ \/ cache' = cache /\ (pc' \in Writing => pc \in Writing)
           \/ GenerateCache /\ UNCHANGED state /\ pc \notin Writing
        /\ pc' \notin Starting \cup {"create"} /\ (Running' => Running)
    BY <1>6 DEF WriteBlock, Return, ProgramOk, ProgramFails, SetState, Update,
        Call, Fails, Goto, Worse, TableType, Block
  <2>3. ~Stuck' => mapBase' <= mapTop \/ (~Stuck /\ mapBase' <= mapBase)
    BY <1>6 DEF BackupBelow, WriteBlock, Return, ProgramOk, ProgramFails,
        SetState, Update, Call, Fails, Goto
  <2>4. BackupBelow'
    BY <1>6 DEF BackupBelow, WriteBlock, Return, ProgramOk, ProgramFails,
        SetState, Update, Call, Fails, Goto
  <2>. QED BY <2>1, <2>2, <2>3, <2>4 DEF Plain
<1>7. ASSUME ReadBlock PROVE Plain
  <2>1. Touched
    BY <1>7 DEF Touched, ReadBlock, Return, Call, Goto
  <2>2. /\ UNCHANGED <<mapping, sigBlock, mapTop>> /\ Worse(state, state')
        /\ \/ cache' = cache /\ (pc' \in Writing => pc \in Writing)
           \/ GenerateCache /\ UNCHANGED state /\ pc \notin Writing
        /\ pc' \notin Starting \cup {"create"} /\ (Running' => Running)
    BY <1>7 DEF ReadBlock, Return, Call, Goto, Worse, TableType, Block
  <2>3. ~Stuck' => mapBase' <= mapTop \/ (~Stuck /\ mapBase' <= mapBase)
    BY <1>7 DEF BackupBelow, ReadBlock, Return, Call, Goto
  <2>4. BackupBelow'
    BY <1>7 DEF BackupBelow, ReadBlock, Return, Call, Goto
  <2>. QED BY <2>1, <2>2, <2>3, <2>4 DEF Plain
<1>8. ASSUME Marked PROVE Plain
  <2>1. Touched
    BY <1>8 DEF Touched, Marked, Return, Call, Goto
  <2>2. /\ UNCHANGED <<mapping, sigBlock, mapTop>> /\ Worse(state, state')
        /\ \/ cache' = cache /\ (pc' \in Writing => pc \in Writing)
           \/ GenerateCache /\ UNCHANGED state /\ pc \notin Writing
        /\ pc' \notin Starting \cup {"create"} /\ (Running' => Running)
    BY <1>8 DEF Marked, Return, Call, Goto, Worse, TableType, Block
  <2>3. ~Stuck' => mapBase' <= mapTop \/ (~Stuck /\ mapBase' <= mapBase)
    BY <1>8 DEF BackupBelow, Marked, Return, Call, Goto
  <2>4. BackupBelow'
    BY <1>8 DEF BackupBelow, Marked, Return, Call, Goto
  <2>. QED BY <2>1, <2>2, <2>3, <2>4 DEF Plain
<1>. QED BY <1>1, <1>2, <1>3, <1>4, <1>5, <1>6, <1>7, <1>8

\* So are all requests but nmbm_mark_bad_block.
LEMMA RequestPlain ==
    ASSUME ApartInv, \/ Refuse \/ EraseRequest \/ WriteRequest \/ ReadRequest
           \/ MarkUnmapped \/ Detach
    PROVE  Plain
<1>. USE DEF ApartInv, Inv, TypeOK, LayoutType, ControlType, WriteRange, Ranges,
        WriteInv, CleanInv, LayoutInv, EraseInv, Running, Writing, Cleaning, Stuck, Starting
<1>1. ASSUME Refuse PROVE Plain
  <2>1. Touched
    BY <1>1 DEF Touched, Refuse
  <2>2. /\ UNCHANGED <<mapping, sigBlock, mapTop>> /\ Worse(state, state')
        /\ \/ cache' = cache /\ (pc' \in Writing => pc \in Writing)
           \/ GenerateCache /\ UNCHANGED state /\ pc \notin Writing
        /\ pc' \notin Starting \cup {"create"} /\ (Running' => Running)
    BY <1>1 DEF Refuse, Worse, TableType, Block
  <2>3. ~Stuck' => mapBase' <= mapTop \/ (~Stuck /\ mapBase' <= mapBase)
    BY <1>1 DEF BackupBelow, Refuse
  <2>4. BackupBelow'
    BY <1>1 DEF BackupBelow, Refuse
  <2>. QED BY <2>1, <2>2, <2>3, <2>4 DEF Plain
<1>2. ASSUME EraseRequest PROVE Plain
  <2>1. Touched
    BY <1>2 DEF Touched, EraseRequest, Request, Goto
  <2>2. /\ UNCHANGED <<mapping, sigBlock, mapTop>> /\ Worse(state, state')
        /\ \/ cache' = cache /\ (pc' \in Writing => pc \in Writing)
           \/ GenerateCache /\ UNCHANGED state /\ pc \notin Writing
        /\ pc' \notin Starting \cup {"create"} /\ (Running' => Running)
    BY <1>2 DEF EraseRequest, Request, Goto, Worse, TableType, Block
  <2>3. ~Stuck' => mapBase' <= mapTop \/ (~Stuck /\ mapBase' <= mapBase)
    BY <1>2 DEF BackupBelow, EraseRequest, Request, Goto
  <2>4. BackupBelow'
    BY <1>2 DEF BackupBelow, EraseRequest, Request, Goto
  <2>. QED BY <2>1, <2>2, <2>3, <2>4 DEF Plain
<1>3. ASSUME WriteRequest PROVE Plain
  <2>1. Touched
    BY <1>3 DEF Touched, WriteRequest, Request, Goto
  <2>2. /\ UNCHANGED <<mapping, sigBlock, mapTop>> /\ Worse(state, state')
        /\ \/ cache' = cache /\ (pc' \in Writing => pc \in Writing)
           \/ GenerateCache /\ UNCHANGED state /\ pc \notin Writing
        /\ pc' \notin Starting \cup {"create"} /\ (Running' => Running)
    BY <1>3 DEF WriteRequest, Request, Goto, Worse, TableType, Block
  <2>3. ~Stuck' => mapBase' <= mapTop \/ (~Stuck /\ mapBase' <= mapBase)
    BY <1>3 DEF BackupBelow, WriteRequest, Request, Goto
  <2>4. BackupBelow'
    BY <1>3 DEF BackupBelow, WriteRequest, Request, Goto
  <2>. QED BY <2>1, <2>2, <2>3, <2>4 DEF Plain
<1>4. ASSUME ReadRequest PROVE Plain
  <2>1. Touched
    BY <1>4 DEF Touched, ReadRequest, Goto
  <2>2. /\ UNCHANGED <<mapping, sigBlock, mapTop>> /\ Worse(state, state')
        /\ \/ cache' = cache /\ (pc' \in Writing => pc \in Writing)
           \/ GenerateCache /\ UNCHANGED state /\ pc \notin Writing
        /\ pc' \notin Starting \cup {"create"} /\ (Running' => Running)
    BY <1>4 DEF ReadRequest, Goto, Worse, TableType, Block
  <2>3. ~Stuck' => mapBase' <= mapTop \/ (~Stuck /\ mapBase' <= mapBase)
    BY <1>4 DEF BackupBelow, ReadRequest, Goto
  <2>4. BackupBelow'
    BY <1>4 DEF BackupBelow, ReadRequest, Goto
  <2>. QED BY <2>1, <2>2, <2>3, <2>4 DEF Plain
<1>5. ASSUME MarkUnmapped PROVE Plain
  <2>1. Touched
    BY <1>5 DEF Touched, MarkUnmapped
  <2>2. /\ UNCHANGED <<mapping, sigBlock, mapTop>> /\ Worse(state, state')
        /\ \/ cache' = cache /\ (pc' \in Writing => pc \in Writing)
           \/ GenerateCache /\ UNCHANGED state /\ pc \notin Writing
        /\ pc' \notin Starting \cup {"create"} /\ (Running' => Running)
    BY <1>5 DEF MarkUnmapped, Worse, TableType, Block
  <2>3. ~Stuck' => mapBase' <= mapTop \/ (~Stuck /\ mapBase' <= mapBase)
    BY <1>5 DEF BackupBelow, MarkUnmapped
  <2>4. BackupBelow'
    BY <1>5 DEF BackupBelow, MarkUnmapped
  <2>. QED BY <2>1, <2>2, <2>3, <2>4 DEF Plain
<1>6. ASSUME Detach PROVE Plain
  <2>1. Touched
    BY <1>6 DEF Touched, Detach, Update, Goto
  <2>2. /\ UNCHANGED <<mapping, sigBlock, mapTop>> /\ Worse(state, state')
        /\ \/ cache' = cache /\ (pc' \in Writing => pc \in Writing)
           \/ GenerateCache /\ UNCHANGED state /\ pc \notin Writing
        /\ pc' \notin Starting \cup {"create"} /\ (Running' => Running)
    BY <1>6 DEF Detach, Update, Goto, Worse, TableType, Block
  <2>3. ~Stuck' => mapBase' <= mapTop \/ (~Stuck /\ mapBase' <= mapBase)
    BY <1>6 DEF BackupBelow, Detach, Update, Goto
  <2>4. BackupBelow'
    BY <1>6 DEF BackupBelow, Detach, Update, Goto
  <2>. QED BY <2>1, <2>2, <2>3, <2>4 DEF Plain
<1>. QED BY <1>1, <1>2, <1>3, <1>4, <1>5, <1>6

-----------------------------------------------------------------------------
(* Steps that map blocks *)

\* A running step that touches the mapping, and no tables.
LEMMA EditKeeps ==
    ASSUME ApartInv, Inv', Touched, sigBlock' = sigBlock, Running, Running',
           pc' \notin Writing, RamSound', BaseSound', BackupBelow'
    PROVE  ApartInv'
<1>1. TablesSound' /\ Signs(sigBlock)'
    BY ChipStays DEF ApartInv, SignKept, Signs
<1>2. SignKept' /\ Fresh' /\ CacheSound'
    BY <1>1 DEF SignKept, Fresh, CacheSound, Running, Starting
<1>. QED BY <1>1, <1>2 DEF ApartInv

\* The end of the spare blocks: mapping_blocks_top_ba goes down to mapping_blocks_ba.
LEMMA RetireWorse ==
    ASSUME TableType, NEW b, Retire(b)
    PROVE  Worse(state, state')
BY DEF TableType, Retire, Worse

LEMMA MapTailKeeps ==
    ASSUME ApartInv, Inv', MapTail
    PROVE  ApartInv'
<1>. USE DEF ApartInv, Inv, TypeOK
<1>1. /\ UNCHANGED <<content, marker>> /\ state' = state /\ sigBlock' = sigBlock
      /\ pc = "mapTail" /\ pc' = "mapTail" /\ mapBase' = mapBase /\ backup' = backup
      /\ dataCount \in Logical
    BY DEF MapTail, LayoutType
<1>2. PICK b \in Blocks : MapBlock(dataCount, b)
    BY DEF MapTail
<1>3. ~Stuck /\ ~Stuck' /\ Running /\ Running'
    BY <1>1 DEF Stuck, Running, Writing
<1>4. MgmtStart <= mapBase /\ mapTop < sigBlock
    BY <1>3 DEF Ranges, LayoutInv
<1>5. /\ Sound(mapping', state, mapTop', sigBlock)
      /\ Sound(mapping', state, mapBase, sigBlock)
    BY <1>1, <1>2, <1>3, <1>4, MapSound DEF BaseSound
<1>6. RamSound' /\ BaseSound' /\ BackupBelow'
    BY <1>1, <1>3, <1>5 DEF RamSound, BaseSound, BackupBelow, Writing
<1>. QED BY <1>1, <1>3, <1>6, EditKeeps DEF Touched, Writing

LEMMA RemapKeeps ==
    ASSUME ApartInv, Inv', Remap
    PROVE  ApartInv'
<1>. USE DEF ApartInv, Inv, TypeOK
<1>1. /\ UNCHANGED <<content, marker>> /\ sigBlock' = sigBlock /\ Retire(Block)
      /\ pc = "remap" /\ pc' = "update" /\ mapBase' = mapBase /\ backup' = backup
      /\ after' = "erase" /\ lb \in Logical
    BY DEF Remap, Update, Goto, ControlType
<1>2. PICK b \in Blocks : MapBlock(lb, b)
    BY DEF Remap
<1>3. ~Stuck /\ ~Stuck' /\ Running /\ Running'
    BY <1>1 DEF Stuck, Running, Writing
<1>4. MgmtStart <= mapBase /\ mapTop < sigBlock
    BY <1>3 DEF Ranges, LayoutInv
<1>5. /\ Sound(mapping', state, mapTop', sigBlock)
      /\ Sound(mapping', state, mapBase, sigBlock)
    BY <1>1, <1>2, <1>3, <1>4, MapSound DEF BaseSound
<1>6. mapping' \in Mappings /\ mapTop' \in Int /\ mapBase \in Int /\ sigBlock \in Blocks
      /\ Worse(state, state')
    BY <1>1, RetireWorse DEF TableType, LayoutType
<1>7. RamSound' /\ BaseSound' /\ BackupBelow'
    BY <1>1, <1>3, <1>5, <1>6, SoundStays DEF RamSound, BaseSound, BackupBelow, Writing
<1>. QED BY <1>1, <1>3, <1>7, EditKeeps DEF Touched, Writing

\* A logic block without a block leaves the others where they are.
LEMMA GiveUpKeeps ==
    ASSUME ApartInv, Inv', GiveUp, UNCHANGED <<content, marker>>, ~Stuck, Running,
           sigBlock' = sigBlock, backup' = backup, mapBase' = mapBase,
           mapTop' \in {mapTop, mapBase}
    PROVE  ApartInv'
<1>. USE DEF ApartInv, Inv, TypeOK
<1>1. mapping' = [mapping EXCEPT ![lb] = Unmapped] /\ Retire(Block) /\ pc' = "update"
      /\ after' = "failed"
    BY DEF GiveUp, Update, Goto
<1>2. /\ mapping \in Mappings /\ mapping' \in Mappings /\ sigBlock \in Blocks
      /\ mapTop \in Int /\ mapBase \in Int /\ Worse(state, state')
    BY <1>1, RetireWorse DEF TableType, LayoutType
<1>3. ~Stuck' /\ Running' /\ pc' \notin Writing
    BY <1>1 DEF Stuck, Running, Writing
<1>4. Sound(mapping', state, mapTop, sigBlock) /\ Sound(mapping', state, mapBase, sigBlock)
    BY <1>1, <1>2, UnmapSound DEF RamSound, BaseSound
<1>5. Sound(mapping', state', mapTop, sigBlock) /\ Sound(mapping', state', mapBase, sigBlock)
    BY <1>2, <1>4, SoundStays
<1>6. RamSound' /\ BaseSound'
    BY <1>5 DEF RamSound, BaseSound
<1>7. BackupBelow'
    BY <1>3 DEF BackupBelow
<1>. QED BY <1>3, <1>6, <1>7, EditKeeps DEF Touched

LEMMA RemapFailsKeeps ==
    ASSUME ApartInv, Inv', RemapFails \/ MapFull
    PROVE  ApartInv'
<1>. USE DEF ApartInv, Inv
<1>1. pc \in {"remap", "mapFull"} /\ UNCHANGED <<content, marker>> /\ sigBlock' = sigBlock
      /\ backup' = backup /\ mapBase' = mapBase
    BY DEF RemapFails, MapFull
<1>2. ~Stuck /\ Running
    BY <1>1 DEF Stuck, Running, Writing
<1>3. CASE GiveUp
  <2>1. mapTop' \in {mapTop, mapBase}
      BY DEF RemapFails, MapFull
  <2>. QED BY <1>1, <1>2, <1>3, <2>1, GiveUpKeeps
<1>4. CASE ~GiveUp
  <2>1. /\ UNCHANGED <<mapping, mapTop, state, cache>> /\ pc' = "update" /\ after' = "mapFull"
      BY <1>4 DEF RemapFails, MapFull, Update, Goto
  <2>2. ~Stuck' /\ Running' /\ pc' \notin Writing
      BY <2>1 DEF Stuck, Running, Writing
  <2>3. RamSound' /\ BaseSound' /\ BackupBelow'
      BY <1>1, <1>2, <2>1, <2>2 DEF RamSound, BaseSound, BackupBelow
  <2>. QED BY <1>1, <1>2, <2>2, <2>3, EditKeeps DEF Touched
<1>. QED BY <1>3, <1>4

LEMMA TailFullKeeps ==
    ASSUME ApartInv, Inv', TailFull
    PROVE  ApartInv'
<1>. USE DEF ApartInv, Inv
<1>1. /\ UNCHANGED <<content, marker>> /\ sigBlock' = sigBlock /\ state' = state
      /\ mapping' = mapping /\ mapBase' = mapBase /\ mapTop' = mapBase /\ backup' = backup
      /\ pc = "tailFull" /\ pc' = "update" /\ after' = "created"
    BY DEF TailFull, Update, Goto
<1>2. ~Stuck /\ ~Stuck' /\ Running /\ Running' /\ pc' \notin Writing
    BY <1>1 DEF Stuck, Running, Writing
<1>3. RamSound' /\ BaseSound' /\ BackupBelow'
    BY <1>1, <1>2 DEF RamSound, BaseSound, BackupBelow
<1>. QED BY <1>1, <1>2, <1>3, EditKeeps DEF Touched

LEMMA MarkBadBlockKeeps ==
    ASSUME ApartInv, Inv', MarkBadBlock
    PROVE  ApartInv'
<1>. USE DEF ApartInv, Inv, TypeOK
<1>1. PICK l \in Logical :
         /\ mapping[l] # Unmapped
         /\ mapping' = [mapping EXCEPT ![l] = Unmapped]
         /\ MarkBad(mapping[l])
         /\ SetState(mapping[l], "bad")
    BY DEF MarkBadBlock
<1>2. /\ pc = "idle" /\ ~protected /\ pc' = "update" /\ after' = "marked" /\ backup' = backup
      /\ sigBlock' = sigBlock /\ mapBase' = mapBase /\ mapTop' = mapTop
    BY DEF MarkBadBlock, Update, Goto
<1>3. ~Stuck /\ ~Stuck' /\ Running /\ Running' /\ pc' \notin Writing
    BY <1>2 DEF Stuck, Running, Writing
<1>4. Touched
  <2>1. mapping[l] \in Blocks /\ mapping[l] < sigBlock
      BY <1>1, <1>3, MappedBelow
  <2>. QED BY <1>1, <1>3, <2>1, MarksAt DEF Touched
<1>5. /\ mapping \in Mappings /\ mapping' \in Mappings /\ sigBlock \in Blocks
      /\ mapTop \in Int /\ mapBase \in Int
    BY DEF TableType, LayoutType
<1>6. Worse(state, state')
    BY <1>1 DEF Worse, SetState, TableType
<1>7. Sound(mapping', state, mapTop, sigBlock) /\ Sound(mapping', state, mapBase, sigBlock)
    BY <1>1, <1>3, <1>5, UnmapSound DEF RamSound, BaseSound
<1>8. Sound(mapping', state', mapTop, sigBlock) /\ Sound(mapping', state', mapBase, sigBlock)
    BY <1>5, <1>6, <1>7, SoundStays
<1>9. RamSound' /\ BaseSound' /\ BackupBelow'
    BY <1>2, <1>3, <1>8 DEF RamSound, BaseSound, BackupBelow
<1>. QED BY <1>2, <1>3, <1>4, <1>9, EditKeeps

-----------------------------------------------------------------------------
(* Attaches *)

\* A mapping of the data area is sound whatever the states are.
LEMMA FreshSound ==
    ASSUME NEW mp \in Mappings, NEW st, NEW top, NEW sig,
           \A k, l \in Logical : /\ mp[k] < MgmtStart
                                 /\ k # l /\ mp[k] # Unmapped => mp[k] # mp[l]
    PROVE  Sound(mp, st, top, sig)
<1>1. \A k \in Logical : ~(MgmtStart <= mp[k])
    BY MappedInt
<1>. QED BY <1>1 DEF Sound

\* nmbm_build_mapping_table
LEMMA BuildFresh ==
    ASSUME NEW st, NEW k \in Logical, NEW l \in Logical
    PROVE  /\ BuildMapping(st)[k] < MgmtStart
           /\ k # l /\ BuildMapping(st)[k] # Unmapped => BuildMapping(st)[k] # BuildMapping(st)[l]
<1>. DEFINE usable == {b \in Logical : st[b] # "bad"}
            nth(j) == CHOOSE b \in usable : IsNth(b, usable, j)
<1>1. \A j \in Logical :
         \/ BuildMapping(st)[j] = Unmapped
         \/ /\ BuildMapping(st)[j] = nth(j)
            /\ nth(j) \in usable /\ IsNth(nth(j), usable, j)
    BY DEF BuildMapping
<1>2. nth(k) = nth(l) /\ IsNth(nth(k), usable, k) /\ IsNth(nth(l), usable, l) => k = l
    BY DEF IsNth
<1>3. \A j \in Logical : BuildMapping(st)[j] # Unmapped => BuildMapping(st)[j] \in Logical
    BY <1>1
<1>4. BuildMapping(st)[k] < MgmtStart
    BY <1>3
<1>. HIDE DEF nth, usable
<1>. QED BY <1>1, <1>2, <1>4

\* After an attach that scans the blocks.
LEMMA ScanKeeps ==
    ASSUME ApartInv, Inv', ScanAndBuild(NoImage.state) \/ \E sig : ScanAndBuild(Passed(NoImage.state, MgmtStart, sig - 2)),
           UNCHANGED <<content, marker>>, pc' \in {"sign", "create"},
           pc' = "sign" => \A b \in Blocks : content[b].kind # "table",
           pc' = "create" => Signs(sigBlock')
    PROVE  ApartInv'
<1>. USE DEF ApartInv, Inv, TypeOK
<1>1. PICK st : mapping' = BuildMapping(st)
    BY DEF ScanAndBuild, BuildOver
<1>2. mapping' \in Mappings
    BY DEF TableType
<1>3. \A k, l \in Logical : /\ mapping'[k] < MgmtStart
                            /\ k # l /\ mapping'[k] # Unmapped => mapping'[k] # mapping'[l]
    BY <1>1, BuildFresh
<1>4. RamSound' /\ BaseSound'
    BY <1>2, <1>3, FreshSound DEF RamSound, BaseSound
<1>5. TablesSound'
    BY DEF TablesSound, Signs, SignatureAt
<1>6. Fresh' /\ SignKept' /\ CacheSound' /\ BackupBelow'
    BY <1>3 DEF Fresh, SignKept, CacheSound, BackupBelow, Starting, Writing, Running, Signs
<1>. QED BY <1>4, <1>5, <1>6

LEMMA AttachNewKeeps ==
    ASSUME ApartInv, Inv', AttachNew
    PROVE  ApartInv'
<1>1. \A b \in Blocks : content[b].kind # "table"
    BY HighestSignature DEF AttachNew, ApartInv, TablesSound
<1>. QED BY <1>1, ScanKeeps DEF AttachNew, Goto

LEMMA AttachWithoutTablesKeeps ==
    ASSUME ApartInv, Inv', AttachWithoutTables
    PROVE  ApartInv'
<1>1. PICK sig \in Blocks :
         SignatureAt(sig) /\ sigBlock' = sig /\ ScanAndBuild(Passed(NoImage.state, MgmtStart, sig - 2))
    BY DEF AttachWithoutTables
<1>2. Signs(sigBlock')
    BY <1>1 DEF SignatureAt, Signs
<1>. QED BY <1>1, <1>2, ScanKeeps DEF AttachWithoutTables, Goto

\* What a table has passed that an attach loads.
LEMMA LoadedSound ==
    ASSUME ApartInv, NEW sig \in Blocks, SignatureAt(sig), NEW b \in Blocks,
           NEW from \in Nat, NEW st, b \in Loadables(from, st, sig)
    PROVE  /\ content[b].kind = "table" /\ content[b].image \in Images /\ b \notin marker
           /\ Accepted(content[b].image, b, sig)
           /\ Sound(content[b].image.mapping, content[b].image.state, b + 1, sig)
<1>1. content[b].kind = "table" /\ Accepted(content[b].image, b, sig) /\ b \notin marker
    BY DEF Loadables, Loadable
<1>2. content[b].image \in Images
    BY <1>1, TableImage DEF ApartInv, Inv, TypeOK
<1>. QED BY <1>1, <1>2 DEF ApartInv, TablesSound

\* It has no block in use below the top of the spare blocks.
LEMMA TopSound ==
    ASSUME NEW image \in Images, NEW b \in Blocks, NEW sig \in Blocks, NEW st, NEW top,
           NEW t \in TopBelow(image, b, sig), Accepted(image, b, sig),
           Sound(image.mapping, st, top, sig)
    PROVE  Sound(image.mapping, st, t, sig)
<1>. SUFFICES ASSUME NEW k \in Logical, MgmtStart <= image.mapping[k], image.mapping[k] <= t
              PROVE  FALSE
    BY DEF Sound
<1>1. image.mapping \in Mappings
    BY DEF Images
<1>2. image.mapping[k] \in Int
    BY <1>1, MappedInt
<1>3. image.mapping[k] \notin MgmtStart .. b
    BY DEF Accepted
<1>4. t \in Blocks /\ image.mapping[k] \notin b + 1 .. t
    BY DEF TopBelow
<1>. QED BY <1>2, <1>3, <1>4

LEMMA PassedWorse ==
    ASSUME NEW st \in [Blocks -> States], NEW from, NEW to
    PROVE  Worse(st, Passed(st, from, to))
BY DEF Worse, Passed

LEMMA AttachOneKeeps ==
    ASSUME ApartInv, Inv', AttachOneTable
    PROVE  ApartInv'
<1>. USE DEF ApartInv, Inv, TypeOK
<1>1. PICK sig \in Blocks, f \in Blocks : LoadOne(sig, f)
    BY DEF AttachOneTable
<1>. DEFINE image == content[f].image
            st    == Passed(image.state, f + 1, sig - 2)
<1>2. /\ SignatureAt(sig) /\ f \in Loadables(MgmtStart, NoImage.state, sig)
      /\ mapTop' \in TopBelow(image, f, sig)
      /\ state' = st /\ mapping' = image.mapping /\ cache'.state = st /\ cache'.mapping = image.mapping
      /\ sigBlock' = sig /\ main' = f /\ backup' = NoBlock /\ mapBase' = f + 1
      /\ pc' = "table" /\ w'.ret = "front"
    BY <1>1 DEF LoadOne, FirstTable, LoadInto, WriteTable, Goto
<1>3. /\ image \in Images /\ Accepted(image, f, sig)
      /\ Sound(image.mapping, image.state, f + 1, sig)
    BY <1>2, LoadedSound
<1>4. image.mapping \in Mappings /\ image.state \in [Blocks -> States]
    BY <1>3 DEF Images
<1>. HIDE DEF image
<1>5. Worse(image.state, st)
    BY <1>4, PassedWorse
<1>6. f + 1 \in Int
    OBVIOUS
<1>. HIDE DEF st
<1>7. Sound(image.mapping, st, f + 1, sig)
    BY <1>3, <1>4, <1>5, <1>6, SoundStays
<1>8. Sound(image.mapping, st, mapTop', sig)
    BY <1>2, <1>3, <1>7, TopSound
<1>9. RamSound' /\ BaseSound' /\ CacheSound'
    BY <1>2, <1>7, <1>8 DEF RamSound, BaseSound, CacheSound
<1>10. TablesSound'
    BY DEF TablesSound, Signs, SignatureAt, AttachOneTable
<1>11. SignKept'
    BY <1>2 DEF SignKept, Signs, SignatureAt, AttachOneTable
<1>12. Fresh' /\ BackupBelow'
    BY <1>2 DEF Fresh, BackupBelow, Starting, Writing
<1>. QED BY <1>9, <1>10, <1>11, <1>12

\* Only here does it matter that equal write counts mean equal tables: two tables
\* of the same count are trusted without being compared.
LEMMA AttachTwoKeeps ==
    ASSUME ApartInv, Inv', CountsIdentify, AttachTwoTables
    PROVE  ApartInv'
<1>. USE DEF ApartInv, Inv, TypeOK
<1>1. PICK sig \in Blocks, f \in Blocks, g \in Blocks : LoadTwo(sig, f, g)
    BY DEF AttachTwoTables
<1>. DEFINE one    == content[f].image
            two    == content[g].image
            passed == Passed(one.state, f + 1, g - 1)
<1>2. /\ SignatureAt(sig) /\ f \in Loadables(MgmtStart, NoImage.state, sig)
      /\ g \in Loadables(f + 1, one.state, sig)
      /\ sigBlock' = sig /\ main' = f /\ backup' = g /\ mapBase' = g + 1
    BY <1>1 DEF LoadTwo, FirstTable, SecondTable
<1>3. /\ one \in Images /\ Accepted(one, f, sig) /\ Sound(one.mapping, one.state, f + 1, sig)
      /\ content[f].kind = "table" /\ f \notin marker
    BY <1>2, LoadedSound
<1>4. /\ two \in Images /\ Accepted(two, g, sig) /\ Sound(two.mapping, two.state, g + 1, sig)
      /\ content[g].kind = "table" /\ g \notin marker
  <2>1. f + 1 \in Nat
      OBVIOUS
  <2>. QED BY <1>2, <2>1, LoadedSound
<1>5. one.count \in Nat /\ two.count \in Nat
      /\ one.mapping \in Mappings /\ one.state \in [Blocks -> States]
      /\ two.mapping \in Mappings
    BY <1>3, <1>4 DEF Images
<1>6. one.count = two.count => one = two
    BY <1>3, <1>4 DEF CountsIdentify
<1>7. mapTop' \in IF one.count >= two.count THEN TopBelow(one, f, sig)
                                            ELSE TopBelow(two, g, sig)
    BY <1>1 DEF LoadTwo
<1>8. \/ /\ two.count > one.count
         /\ state' = two.state /\ mapping' = two.mapping
         /\ cache'.state = two.state /\ cache'.mapping = two.mapping
      \/ /\ ~(two.count > one.count)
         /\ state' = passed /\ mapping' = one.mapping
         /\ cache'.state = passed /\ cache'.mapping = one.mapping
    BY <1>1 DEF LoadTwo, LoadInto, Newer
<1>9. \/ one.count = two.count /\ pc' = "idle"
      \/ one.count < two.count /\ pc' = "table" /\ w'.ret = "loadMain"
      \/ one.count > two.count /\ pc' = "table" /\ w'.ret = "loadBackup"
    BY <1>1 DEF LoadTwo, Attached, Call, Goto, WriteTable
<1>. HIDE DEF one, two
<1>10. Worse(one.state, passed)
    BY <1>5, PassedWorse
<1>. HIDE DEF passed
<1>11. TablesSound'
    BY DEF TablesSound, Signs, SignatureAt, AttachTwoTables
<1>12. SignKept'
    BY <1>2 DEF SignKept, Signs, SignatureAt, AttachTwoTables
<1>13. Fresh' /\ BackupBelow'
    BY <1>2, <1>9 DEF Fresh, BackupBelow, Starting, Writing
<1>14. CASE one.count < two.count
  <2>0. mapTop' \in TopBelow(two, g, sig)
      BY <1>5, <1>7, <1>14
  <2>. HIDE DEF ApartInv, Inv, TypeOK
  <2>1. Sound(two.mapping, two.state, mapTop', sig)
      BY <1>4, <2>0, TopSound
  <2>. QED BY <1>2, <1>4, <1>5, <1>8, <1>11, <1>12, <1>13, <1>14, <2>1
           DEF ApartInv, RamSound, BaseSound, CacheSound
<1>15. CASE ~(one.count < two.count)
  <2>1. f + 1 \in Int /\ g + 1 \in Int
      OBVIOUS
  <2>9. mapTop' \in TopBelow(one, f, sig)
      BY <1>5, <1>7, <1>15
  <2>. HIDE DEF ApartInv, Inv, TypeOK
  <2>2. Sound(one.mapping, passed, f + 1, sig)
      BY <1>3, <1>5, <1>10, <2>1, SoundStays
  <2>3. Sound(one.mapping, passed, mapTop', sig)
      BY <1>3, <2>9, <2>2, TopSound
  <2>4. state' = passed /\ mapping' = one.mapping /\ cache'.state = passed
        /\ cache'.mapping = one.mapping
      BY <1>5, <1>8, <1>15
  <2>5. RamSound' /\ CacheSound'
      BY <1>2, <2>3, <2>4 DEF RamSound, CacheSound
  <2>6. BaseSound'
    <3>1. CASE one.count = two.count
      <4>1. Sound(one.mapping, one.state, g + 1, sig)
          BY <1>4, <1>6, <3>1
      <4>2. Sound(one.mapping, passed, g + 1, sig)
          BY <1>5, <1>10, <2>1, <4>1, SoundStays
      <4>. QED BY <1>2, <2>4, <4>2 DEF BaseSound
    <3>2. CASE one.count > two.count
      <4>1. Stuck'
          BY <1>5, <1>9, <3>2 DEF Stuck, Writing
      <4>. QED BY <4>1 DEF BaseSound
    <3>. QED BY <1>5, <1>15, <3>1, <3>2
  <2>. QED BY <1>11, <1>12, <1>13, <2>5, <2>6 DEF ApartInv
<1>. QED BY <1>14, <1>15

-----------------------------------------------------------------------------
(* The signature, the first tables, and the end of the instance *)

\* nmbm_write_signature: there are no tables yet.
LEMMA SignKeeps ==
    ASSUME ApartInv, Inv', SignSkip \/ SignFoundBad \/ SignErase \/ SignProgram \/ SignMark \/ SignFails
    PROVE  ApartInv'
<1>. USE DEF ApartInv, Inv, TypeOK
<1>1. /\ pc \in Starting /\ pc' \in Starting \cup {"create", "attachFails"}
      /\ UNCHANGED <<mapping, cache>>
    BY DEF SignSkip, SignFoundBad, SignErase, SignProgram, SignMark, SignFails, InSign, Starting, Goto
<1>2. mapping' \in Mappings /\ \A k, l \in Logical :
         /\ mapping'[k] < MgmtStart
         /\ k # l /\ mapping'[k] # Unmapped => mapping'[k] # mapping'[l]
    BY <1>1 DEF Fresh, TableType
<1>3. RamSound' /\ BaseSound'
    BY <1>2, FreshSound DEF RamSound, BaseSound
<1>4. w.ba \in Blocks
    BY <1>1 DEF Ranges, SignInv, Starting
<1>5. \A b \in Blocks : content'[b].kind # "table"
  <2>1. \A b \in Blocks : content[b].kind # "table"
      BY <1>1 DEF Fresh
  <2>2. CASE SignSkip \/ SignFoundBad \/ SignFails
      BY <2>1, <2>2 DEF SignSkip, SignFoundBad, SignFails
  <2>3. CASE SignErase
      BY <1>4, <2>1, <2>3, ErasesAt DEF SignErase, OnlyAt
  <2>4. CASE SignProgram
    <3>1. OnlyAt(w.ba) /\ (content'[w.ba] = Signature \/ content'[w.ba].kind # "table")
        BY <1>4, <2>4, ProgramsAt DEF SignProgram
    <3>. QED BY <1>4, <2>1, <3>1, NotTables DEF OnlyAt
  <2>5. CASE SignMark
      BY <1>4, <2>1, <2>5, MarksAt DEF SignMark, OnlyAt
  <2>. QED BY <2>2, <2>3, <2>4, <2>5
<1>6. TablesSound'
    BY <1>5 DEF TablesSound
<1>7. pc' = "signProgram" => w'.ba \notin marker'
    BY <1>1 DEF SignSkip, SignFoundBad, SignErase, SignProgram, SignMark, SignFails, InSign, Starting, Goto,
       FoundGood, EraseOk, EraseFails, Fails
<1>8. pc' = "create" => Signs(sigBlock)'
  <2>. SUFFICES ASSUME pc' = "create" PROVE Signs(sigBlock)'
      OBVIOUS
  <2>1. SignProgram /\ ProgramOk(w.ba, Signature) /\ sigBlock' = w.ba /\ pc = "signProgram"
      BY DEF SignSkip, SignFoundBad, SignErase, SignProgram, SignMark, SignFails, InSign, Goto
  <2>2. w.ba \notin marker /\ MgmtStart <= w.ba
      BY <2>1 DEF Fresh, Ranges, SignInv
  <2>. QED BY <1>4, <2>1, <2>2 DEF ProgramOk, Signs, ChipType
<1>9. Fresh' /\ SignKept' /\ CacheSound' /\ BackupBelow'
    BY <1>1, <1>2, <1>5, <1>7, <1>8 DEF Fresh, SignKept, CacheSound, BackupBelow, Starting, Writing, Running
<1>. QED BY <1>3, <1>6, <1>9

LEMMA CreateTablesKeeps ==
    ASSUME ApartInv, Inv', CreateTables
    PROVE  ApartInv'
<1>. USE DEF ApartInv, Inv, TypeOK
<1>1. /\ pc = "create" /\ UNCHANGED <<content, marker, mapping, state, sigBlock>>
      /\ \/ pc' = "attachFails"
         \/ /\ pc' = "table" /\ w'.ret = "newMain" /\ backup' = NoBlock
            /\ cache'.mapping = mapping /\ cache'.state = state
    BY DEF CreateTables, Goto, Rebuild, WriteTable, GenerateCache
<1>2. mapping \in Mappings /\ \A k, l \in Logical :
         /\ mapping[k] < MgmtStart
         /\ k # l /\ mapping[k] # Unmapped => mapping[k] # mapping[l]
    BY <1>1 DEF Fresh, TableType
<1>3. RamSound' /\ BaseSound' /\ CacheSound'
    BY <1>1, <1>2, FreshSound DEF RamSound, BaseSound, CacheSound, Writing
<1>4. TablesSound' /\ SignKept' /\ Fresh'
    BY <1>1 DEF TablesSound, SignKept, Fresh, Signs, SignatureAt, Starting, Running
<1>5. BackupBelow'
  <2>1. CASE pc' = "attachFails"
      BY <2>1 DEF BackupBelow, Running, Writing
  <2>2. CASE pc' = "table"
    <3>1. mapBase' \in Blocks /\ MgmtStart <= mapBase'
        BY <2>2 DEF LayoutType, Ranges, LayoutInv, Running
    <3>. QED BY <1>1, <2>2, <3>1 DEF BackupBelow
  <2>. QED BY <1>1, <2>1, <2>2
<1>. QED BY <1>3, <1>4, <1>5

\* A detach, a failed attach or a power cut takes nothing away from the chip but
\* the block that was being worked on.
LEMMA ForgetKeeps ==
    ASSUME ApartInv, Inv', Forget, TablesSound'
    PROVE  ApartInv'
<1>1. pc' = "off" /\ mapping' = NoImage.mapping /\ mapping' \in Mappings
    BY DEF Forget, ApartInv, Inv, TypeOK, TableType
<1>2. \A k, l \in Logical : mapping'[k] < MgmtStart /\ mapping'[k] = Unmapped
    BY <1>1 DEF NoImage
<1>3. RamSound' /\ BaseSound'
    BY <1>1, <1>2, FreshSound DEF RamSound, BaseSound
<1>4. Fresh' /\ SignKept' /\ CacheSound' /\ BackupBelow'
    BY <1>1 DEF Fresh, SignKept, CacheSound, BackupBelow, Starting, Writing, Running
<1>. QED BY <1>3, <1>4 DEF ApartInv

LEMMA ReleaseKeeps ==
    ASSUME ApartInv, Inv', Release
    PROVE  ApartInv'
<1>1. TablesSound'
    BY DEF Release, ApartInv, TablesSound, Signs, SignatureAt
<1>. QED BY <1>1, ForgetKeeps DEF Release

LEMMA PowerCutApart ==
    ASSUME ApartInv, Inv', PowerCut
    PROVE  ApartInv'
<1>. USE DEF ApartInv, Inv, TypeOK
<1>1. CASE content' = content
  <2>1. TablesSound'
      BY <1>1 DEF PowerCut, TablesSound, Signs, SignatureAt
  <2>. QED BY <2>1, ForgetKeeps DEF PowerCut
<1>2. CASE content' # content
  <2>1. PICK x \in InFlight : content' = [content EXCEPT ![x] = Torn]
      BY <1>2 DEF PowerCut
  <2>2. \A b \in Blocks : content'[b].kind = "table" => content'[b] = content[b]
      BY <2>1, NotTables DEF ChipType
  <2>4. CASE pc \notin Starting
    <3>1. Running
        BY <2>1, <2>4 DEF InFlight, Running, Starting
    <3>2. x \in Blocks /\ x < sigBlock
      <4>1. CASE pc \in {"erase", "write"}
          BY <2>1, <3>1, <4>1, MappedBelow DEF InFlight, Block, Usable, ControlType
      <4>2. CASE pc \in {"program", "table", "clean"}
        <5>1. x = w.ba /\ w.ba < w.limit /\ w.limit <= mapTop /\ mapTop < sigBlock /\ w \in WriteRange
            BY <2>1, <3>1, <4>2 DEF InFlight, Ranges, WriteInv, CleanInv, LayoutInv, Writing, Cleaning, ControlType
        <5>. QED BY <5>1 DEF WriteRange, LayoutType
      <4>. QED BY <2>1, <2>4, <4>1, <4>2 DEF InFlight, Starting
    <3>3. Touched
      <4>1. OnlyAt(x) /\ content'[x] = Torn
          BY <2>1, <3>2 DEF OnlyAt, PowerCut, ChipType
      <4>. QED BY <3>1, <3>2, <4>1, NotTables DEF Touched
    <3>. QED BY <3>3, ChipStays, ForgetKeeps DEF PowerCut
  <2>5. CASE pc \in Starting
    <3>1. TablesSound'
        BY <2>2, <2>5 DEF Fresh, TablesSound
    <3>. QED BY <3>1, ForgetKeeps DEF PowerCut
  <2>. QED BY <2>4, <2>5
<1>. QED BY <1>1, <1>2

LEMMA InitApart == Init => ApartInv
<1>. SUFFICES ASSUME Init PROVE ApartInv
    OBVIOUS
<1>1. Inv
    BY InitInv
<1>2. pc = "off" /\ mapping = NoImage.mapping /\ mapping \in Mappings
    BY <1>1 DEF Init, Inv, TypeOK, TableType
<1>3. \A k, l \in Logical : mapping[k] < MgmtStart /\ mapping[k] = Unmapped
    BY <1>2 DEF NoImage
<1>4. RamSound /\ BaseSound
    BY <1>2, <1>3, FreshSound DEF RamSound, BaseSound
<1>5. TablesSound
    BY NotTables DEF Init, TablesSound
<1>6. Fresh /\ SignKept /\ CacheSound /\ BackupBelow
    BY <1>2 DEF Fresh, SignKept, CacheSound, BackupBelow, Starting, Writing, Running
<1>. QED BY <1>1, <1>4, <1>5, <1>6 DEF ApartInv

LEMMA ApartStutter ==
    ASSUME ApartInv, Inv', UNCHANGED vars
    PROVE  ApartInv'
<1>1. TablesSound' /\ CacheSound' /\ RamSound'
    BY DEF ApartInv, TablesSound, CacheSound, RamSound, SignatureAt, Signs, vars
<1>2. Fresh' /\ SignKept' /\ BaseSound' /\ BackupBelow'
    BY DEF ApartInv, Fresh, SignKept, BaseSound, BackupBelow, Stuck, Running, Signs, vars
<1>. QED BY <1>1, <1>2 DEF ApartInv

\* Every step keeps the blocks apart, as long as equal counts mean equal tables.
LEMMA NextApart == ApartInv /\ CountsIdentify /\ [Next]_vars => ApartInv'
<1>. SUFFICES ASSUME ApartInv, CountsIdentify, [Next]_vars PROVE ApartInv'
    OBVIOUS
<1>1. Inv'
    BY NextKeeps DEF ApartInv
<1>2. CASE WriteTableSteps \/ CleanSteps \/ RebuildSteps \/ UpdateSteps
    BY <1>1, <1>2, TableWritePlain, CleanPlain, RebuildPlain, UpdatePlain, PlainKeeps
<1>3. CASE LoadSteps
    BY <1>1, <1>3, LoadPlain, PlainKeeps, AttachOneKeeps, AttachTwoKeeps DEF LoadSteps
<1>4. CASE CreateSteps
    BY <1>1, <1>4, CreatePlain, PlainKeeps, AttachNewKeeps, AttachWithoutTablesKeeps, SignKeeps,
       CreateTablesKeeps, MapTailKeeps, TailFullKeeps DEF CreateSteps
<1>5. CASE OperationSteps
    BY <1>1, <1>5, OperationPlain, PlainKeeps, RemapKeeps, RemapFailsKeeps, ReleaseKeeps
       DEF OperationSteps
<1>6. CASE Requests
    BY <1>1, <1>6, RequestPlain, PlainKeeps, MarkBadBlockKeeps DEF Requests
<1>7. CASE PowerCut
    BY <1>1, <1>7, PowerCutApart
<1>8. CASE UNCHANGED vars
    BY <1>1, <1>8, ApartStutter
<1>. QED BY <1>2, <1>3, <1>4, <1>5, <1>6, <1>7, <1>8 DEF Next, Work

\* No physical block is used twice, unless a spare block above it is bad: for two
\* logic blocks, or for a logic block and a table or the signature.  For every
\* geometry, after any failures and power cuts, and whichever tables the attaches
\* find, as long as two tables with the same write count are the same: of two such
\* tables nmbm_load_info_table takes the mapping from one and the place of the spare
\* blocks from the other.
THEOREM BlocksStayApart == Spec /\ []CountsIdentify => []BlocksApart
<1>1. ApartInv => BlocksApart
  <2>. SUFFICES ASSUME ApartInv PROVE Distinct /\ TablesApart
      BY DEF BlocksApart
  <2>1. mapping \in Mappings /\ mapTop \in Blocks /\ sigBlock \in Blocks
      BY DEF ApartInv, Inv, TypeOK, TableType, LayoutType
  <2>2. Distinct
      BY DEF ApartInv, RamSound, Sound, Distinct, Above
  <2>3. ASSUME Running, NEW l \in Logical
        PROVE  /\ mapping[l] # sigBlock
               /\ mapping[l] \in MgmtStart .. mapTop - 1 =>
                    \E b \in mapping[l] + 1 .. sigBlock - 1 : state[b] # "good"
    <3>1. MgmtStart <= mapTop /\ mapTop < sigBlock
        BY <2>3 DEF ApartInv, Inv, Ranges, LayoutInv
    <3>2. MgmtStart <= mapping[l] => mapping[l] < sigBlock
        BY DEF ApartInv, RamSound, Sound
    <3>3. MgmtStart <= mapping[l] /\ mapping[l] <= mapTop => Above(mapping[l], state, sigBlock)
        BY DEF ApartInv, RamSound, Sound
    <3>4. mapping[l] \in Int
        BY <2>1, MappedInt
    <3>. QED BY <2>1, <3>1, <3>2, <3>3, <3>4 DEF Above
  <2>. QED BY <2>2, <2>3 DEF TablesApart
<1>. QED BY <1>1, InitApart, NextApart, PTL DEF Spec

-----------------------------------------------------------------------------
(* The tables on the chip hold the mapping *)

\* Block b holds a table with the block of each logic block that has one.
Tells(data, mp) ==
    /\ data.kind = "table"
    /\ \A l \in Logical : mp[l] # Unmapped => data.image.mapping[l] = mp[l]
Saved(b) == Tells(content[b], mapping)

\* What is written is the mapping, and it is there once the write has succeeded.
CacheSaved ==
    pc \in Writing =>
        /\ cache.mapping = mapping
        /\ pc = "written" => content[w.ba] = TableOf(cache)

\* Which tables there are while one is written or the blocks between them are
\* erased, and that the block worked on is none of those that hold the mapping.
Aside ==
    /\ pc \in Writing =>
         /\ w.ret = "newMain" => main = NoBlock
         /\ w.ret \in {"newMain", "newBackup", "front", "next"} => backup = NoBlock
         /\ w.ret \in {"newBackup", "next", "loadBackup"} => main < w.ba
         /\ w.ret = "next" => main < mapBase
         /\ w.ret = "main" /\ backup # NoBlock => w.limit = backup
    /\ pc \in Cleaning =>
         /\ main < w.ba
         /\ w.ret \in {"newBackup", "front"} => w.limit = backup
         /\ w.ret = "next" => backup = NoBlock

\* At any moment some table holds the mapping, or the RAM knows that none does.
Holding ==
    /\ pc \in Writing =>
         /\ w.ret \in {"newBackup", "front", "next", "loadBackup"} => Saved(main)
         /\ w.ret \in {"main", "temp", "loadMain"} /\ backup # NoBlock => Saved(backup)
         /\ w.ret = "rescue" => Saved(w.limit)
    /\ pc \in Cleaning => Saved(main) /\ Saved(w.limit)
    /\ Running /\ pc \notin Writing \cup Cleaning /\ ~changed =>
         \A t \in Tables : Saved(t)

SavedInv == CacheSaved /\ Aside /\ Holding

\* No logic block is mapped to a block that holds a table.
TablesUnused == Running => \A l \in Logical : mapping[l] \notin Tables

-----------------------------------------------------------------------------
(* Steps that leave the saved tables alone *)

\* No logic block gets another block than it had.
Shrinks == \A l \in Logical : mapping'[l] \in {mapping[l], Unmapped}

LEMMA SavedStays ==
    ASSUME NEW b \in Blocks, Saved(b), content'[b] = content[b], Shrinks
    PROVE  Saved(b)'
BY DEF Saved, Tells, Shrinks

\* The table that has just been written holds the mapping.
LEMMA WrittenSaved ==
    ASSUME SavedInv, pc = "written"
    PROVE  Saved(w.ba)
BY NotTables DEF SavedInv, CacheSaved, Saved, Tells, Writing

\* A step within nmbm_write_mgmt_range or nmbm_erase_range.
Turn ==
    /\ \/ pc \in Writing /\ pc' \in Writing
       \/ pc \in Cleaning /\ pc' \in Cleaning
    /\ UNCHANGED <<mapping, cache, main, backup, mapBase>>
    /\ w'.ret = w.ret /\ w'.limit = w.limit /\ w.ba <= w'.ba
    /\ content' = content \/ w.ba < w.limit
    /\ \A b \in Blocks : b # w.ba => content'[b] = content[b]
    /\ pc' = "written" => content'[w'.ba] = TableOf(cache)

LEMMA TurnKeeps ==
    ASSUME Inv, Inv', BackupBelow, SavedInv, Turn
    PROVE  SavedInv'
<1>. USE DEF Inv, TypeOK, LayoutType, ControlType, WriteRange, Ranges
<1>1. CacheSaved'
    BY DEF SavedInv, CacheSaved, Turn, Writing, Cleaning
<1>2. Aside'
    BY DEF SavedInv, Aside, Turn, Writing, Cleaning
<1>3. Shrinks
    BY DEF Shrinks, Turn
<1>4. ASSUME NEW b \in Blocks, Saved(b), b # w.ba \/ ~(w.ba < w.limit)
      PROVE  Saved(b)'
    BY <1>3, <1>4, SavedStays DEF Turn
<1>5. CASE pc \in Writing /\ pc' \in Writing
  <2>1. w.ret \in {"newBackup", "front", "next", "loadBackup"} => Saved(main)'
    <3>. SUFFICES ASSUME w.ret \in {"newBackup", "front", "next", "loadBackup"}
                  PROVE  Saved(main)'
        OBVIOUS
    <3>1. Saved(main) /\ main' = main
        BY <1>5 DEF SavedInv, Holding, Turn
    <3>2. main # w.ba \/ ~(w.ba < w.limit)
        BY <1>5 DEF SavedInv, Aside, WriteInv
    <3>. QED BY <3>1, <3>2, <1>4 DEF Saved
  <2>2. w.ret \in {"main", "temp", "loadMain"} /\ backup # NoBlock => Saved(backup)'
    <3>. SUFFICES ASSUME w.ret \in {"main", "temp", "loadMain"}, backup # NoBlock
                  PROVE  Saved(backup)'
        OBVIOUS
    <3>1. Saved(backup) /\ backup' = backup
        BY <1>5 DEF SavedInv, Holding, Turn
    <3>2. backup # w.ba \/ ~(w.ba < w.limit)
      <4>1. w.ret = "temp" => backup < mapBase /\ mapBase <= w.ba
          BY <1>5 DEF BackupBelow, Running, Stuck, Writing
      <4>. QED BY <1>5, <4>1 DEF SavedInv, Aside, WriteInv
    <3>. QED BY <3>1, <3>2, <1>4 DEF Saved
  <2>3. w.ret = "rescue" => Saved(w.limit)'
    <3>. SUFFICES ASSUME w.ret = "rescue" PROVE Saved(w.limit)'
        OBVIOUS
    <3>1. Saved(w.limit) /\ w'.limit = w.limit /\ w.limit \in Blocks
        BY <1>5 DEF SavedInv, Holding, Turn, WriteInv
    <3>. QED BY <3>1, <1>4 DEF Saved
  <2>. QED BY <1>1, <1>2, <1>5, <2>1, <2>2, <2>3 DEF SavedInv, Holding, Turn, Writing, Cleaning
<1>6. CASE pc \in Cleaning /\ pc' \in Cleaning
  <2>1. Saved(main) /\ Saved(w.limit) /\ main < w.ba /\ w.limit \in Blocks
      BY <1>6 DEF SavedInv, Holding, Aside, CleanInv
  <2>2. Saved(main)' /\ Saved(w.limit)'
    <3>1. main' = main /\ w'.limit = w.limit
        BY DEF Turn
    <3>. QED BY <2>1, <3>1, <1>4 DEF Saved
  <2>. QED BY <1>1, <1>2, <1>6, <2>2 DEF SavedInv, Holding, Writing, Cleaning
<1>. QED BY <1>5, <1>6 DEF Turn

\* The loops of nmbm_write_mgmt_range and nmbm_erase_range.
LEMMA TableTurns ==
    ASSUME Inv, SavedInv, WriteTableSteps
    PROVE  Turn
<1>. USE DEF Inv, TypeOK, ChipType, LayoutType, ControlType, WriteRange, Ranges, WriteInv,
        Writing, Cleaning, Turn, InTable
<1>1. CASE TableSkip
    BY <1>1, StepType DEF TableSkip
<1>2. CASE TableFoundBad
    BY <1>2, StepType DEF TableFoundBad, FoundBad
<1>3. CASE TableErase
  <2>. w.ba \in Blocks
      BY <1>3 DEF TableErase
  <2>1. w.ba < w.limit /\ w' = w
      BY <1>3 DEF TableErase
  <2>2. \A b \in Blocks : b # w.ba => content'[b] = content[b]
      BY <1>3, ErasesAt DEF TableErase, OnlyAt
  <2>. QED BY <1>3, <2>1, <2>2 DEF TableErase, Goto
<1>4. CASE TableProgram
  <2>1. w.ba \in Blocks /\ w.ba < w.limit /\ w' = w
      BY <1>4 DEF TableProgram
  <2>2. \A b \in Blocks : b # w.ba => content'[b] = content[b]
      BY <1>4, <2>1, ProgramsAt DEF TableProgram, OnlyAt
  <2>3. pc' = "written" => content'[w.ba] = TableOf(cache)
      BY <1>4, <2>1 DEF TableProgram, ProgramOk, Goto
  <2>. QED BY <1>4, <2>1, <2>2, <2>3 DEF TableProgram, Goto
<1>5. CASE TableMark
  <2>. w.ba \in Blocks
      BY <1>5 DEF TableMark
  <2>1. w.ba < w.limit
      BY <1>5 DEF TableMark
  <2>2. \A b \in Blocks : b # w.ba => content'[b] = content[b]
      BY <1>5, MarksAt DEF TableMark, OnlyAt
  <2>. QED BY <1>5, <2>1, <2>2, StepType DEF TableMark, Goto
<1>. QED BY <1>1, <1>2, <1>3, <1>4, <1>5 DEF WriteTableSteps

LEMMA CleanTurns ==
    ASSUME Inv, SavedInv, CleanSteps
    PROVE  Turn
<1>. USE DEF Inv, TypeOK, ChipType, LayoutType, ControlType, WriteRange, Ranges, CleanInv,
        Writing, Cleaning, Turn, InTable
<1>1. CASE CleanSkip
    BY <1>1 DEF CleanSkip, NextBlock
<1>2. CASE CleanFoundBad
    BY <1>2 DEF CleanFoundBad, NextBlock
<1>3. CASE CleanErase
  <2>. w.ba \in Blocks
      BY <1>3 DEF CleanErase
  <2>. QED BY <1>3, ErasesAt, SMTT(30) DEF CleanErase, OnlyAt, Goto, NextBlock
<1>4. CASE CleanMark
  <2>. w.ba \in Blocks
      BY <1>4 DEF CleanMark
  <2>. QED BY <1>4, MarksAt, SMTT(30) DEF CleanMark, OnlyAt, Goto, NextBlock
<1>. QED BY <1>1, <1>2, <1>3, <1>4 DEF CleanSteps

-----------------------------------------------------------------------------
(* The callers of nmbm_write_info_table *)

\* nmbm_rebuild_info_table: the backup table is written behind the new main one.
LEMMA RebuildSaves ==
    ASSUME Inv, Inv', BackupBelow, SavedInv, RebuildSteps
    PROVE  SavedInv'
<1>. USE DEF Inv, TypeOK, LayoutType, ControlType, WriteRange, Ranges, WriteInv, CleanInv,
        AfterInv, UpdateCallers, Returns, Writing, Cleaning, SavedInv, CacheSaved, Aside,
        Holding, Saved, Tables, Goto, Exhausted, Written, Cleaned, TableStart, TableEnd,
        WriteTable, CleanRange, RebuildDone
<1>1. CASE NewMainFails
    BY <1>1 DEF NewMainFails, UpdateFails
<1>2. CASE NewMainWritten
  <2>1. Saved(w.ba)
      BY <1>2, WrittenSaved DEF NewMainWritten
  <2>2. CASE \E b \in Reservable(TableEnd) :
               Reserved(TableEnd, b) /\ WriteTable(b, mapTop, "newBackup")
    <3>1. PICK b \in Reservable(TableEnd) : WriteTable(b, mapTop, "newBackup")
        BY <2>2
    <3>2. b \in Blocks /\ w.ba + 1 <= b
      <4>1. w.ba + 1 \in Nat
          OBVIOUS
      <4>. QED BY <4>1, ReservableIn
    <3>. QED BY <1>2, <2>1, <3>1, <3>2 DEF NewMainWritten, BackupBelow
  <2>3. CASE RebuildDone
      BY <1>2, <2>1, <2>3 DEF NewMainWritten, BackupBelow
  <2>. QED BY <1>2, <2>2, <2>3 DEF NewMainWritten
<1>3. CASE NewBackupFails
    BY <1>3 DEF NewBackupFails
<1>4. CASE NewBackupWritten
  <2>1. Saved(w.ba)
      BY <1>4, WrittenSaved DEF NewBackupWritten
  <2>. QED BY <1>4, <2>1 DEF NewBackupWritten
<1>5. CASE NewBackupCleaned
    BY <1>5 DEF NewBackupCleaned
<1>. QED BY <1>1, <1>2, <1>3, <1>4, <1>5 DEF RebuildSteps

\* nmbm_update_info_table: the main table is written only once the backup table
\* holds the mapping, and a rescue starts from a temporary table that does.
LEMMA UpdateSaves ==
    ASSUME Inv, Inv', BackupBelow, SavedInv, UpdateSteps
    PROVE  SavedInv'
<1>. USE DEF Inv, TypeOK, LayoutType, ControlType, WriteRange, Ranges, WriteInv, CleanInv,
        AfterInv, UpdateCallers, Returns, Writing, Cleaning, SavedInv, CacheSaved, Aside,
        Holding, Saved, Tables, Goto, Exhausted, Written, Cleaned, TableStart, TableEnd,
        WriteTable, BackupTakesOver
<1>1. CASE UpdateDone
    BY <1>1 DEF UpdateDone, Running
<1>2. CASE UpdateStart
    BY <1>2 DEF UpdateStart, GenerateCache
<1>3. CASE BackupWritten
  <2>1. Saved(w.ba)
      BY <1>3, WrittenSaved DEF BackupWritten
  <2>. QED BY <1>3, <2>1 DEF BackupWritten
<1>4. CASE BackupFails
    BY <1>4 DEF BackupFails
<1>5. CASE MainWritten
  <2>1. Saved(w.ba)
      BY <1>5, WrittenSaved DEF MainWritten
  <2>. QED BY <1>5, <2>1 DEF MainWritten
<1>6. CASE MainFailsAlone
    BY <1>6 DEF MainFailsAlone, Rebuild
<1>7. CASE MainFails
    BY <1>7 DEF MainFails
<1>8. CASE TempFails
    BY <1>8 DEF TempFails
<1>9. CASE TempWritten
  <2>1. Saved(w.ba)
      BY <1>9, WrittenSaved DEF TempWritten
  <2>. QED BY <1>9, <2>1 DEF TempWritten
<1>10. CASE RescueEnds
  <2>1. pc = "written" => Saved(w.ba)
      BY WrittenSaved
  <2>2. Saved(w.limit) /\ w.limit # NoBlock
      BY <1>10 DEF RescueEnds
  <2>. QED BY <1>10, <2>1, <2>2 DEF RescueEnds
<1>. QED BY <1>1, <1>2, <1>3, <1>4, <1>5, <1>6, <1>7, <1>8, <1>9, <1>10 DEF UpdateSteps

\* The second table after an attach that found one, or two that differ.
LEMMA LoadSaves ==
    ASSUME Inv, Inv', BackupBelow, SavedInv,
           LoadSteps, ~AttachOneTable, ~AttachTwoTables
    PROVE  SavedInv'
<1>. USE DEF Inv, TypeOK, LayoutType, ControlType, WriteRange, Ranges, WriteInv, CleanInv,
        Writing, Cleaning, SavedInv, CacheSaved, Aside, Holding, Saved, Tables, Goto,
        Exhausted, Written, Cleaned, TableStart, TableEnd, WriteTable, CleanRange,
        Attached, Call
<1>1. CASE LoadMainWritten
  <2>1. Saved(w.ba)
      BY <1>1, WrittenSaved DEF LoadMainWritten
  <2>. QED BY <1>1, <2>1 DEF LoadMainWritten
<1>2. CASE LoadMainFails
    BY <1>2 DEF LoadMainFails
<1>3. CASE LoadBackupEnds
  <2>1. pc = "written" => Saved(w.ba)
      BY WrittenSaved
  <2>. QED BY <1>3, <2>1 DEF LoadBackupEnds
<1>4. CASE FrontWritten
  <2>1. Saved(w.ba)
      BY <1>4, WrittenSaved DEF FrontWritten
  <2>. QED BY <1>4, <2>1 DEF FrontWritten
<1>5. CASE FrontCleaned
    BY <1>5 DEF FrontCleaned
<1>6. CASE FrontFails
  <2>1. CASE \E b \in Reservable(mapBase) :
               Reserved(mapBase, b) /\ WriteTable(b, mapTop, "next")
    <3>1. PICK b \in Reservable(mapBase) : WriteTable(b, mapTop, "next")
        BY <2>1
    <3>2. b \in Blocks /\ mapBase <= b
        BY ReservableIn
    <3>. QED BY <1>6, <3>1, <3>2 DEF FrontFails, BackupBelow
  <2>2. CASE Attached(FALSE)
      BY <1>6, <2>2 DEF FrontFails
  <2>. QED BY <1>6, <2>1, <2>2 DEF FrontFails
<1>7. CASE NextFails
    BY <1>7 DEF NextFails
<1>8. CASE NextWritten
  <2>1. Saved(w.ba)
      BY <1>8, WrittenSaved DEF NextWritten
  <2>. QED BY <1>8, <2>1 DEF NextWritten
<1>9. CASE NextCleaned
    BY <1>9 DEF NextCleaned
<1>. QED BY <1>1, <1>2, <1>3, <1>4, <1>5, <1>6, <1>7, <1>8, <1>9 DEF LoadSteps

-----------------------------------------------------------------------------
(* The attach, and the operations *)

\* A table that is loaded is the mapping.
LEMMA LoadedTells ==
    ASSUME NEW image, NEW data, data.kind = "table", data.image = image
    PROVE  Tells(data, image.mapping)
BY DEF Tells

LEMMA AttachOneSaves ==
    ASSUME Inv, AttachOneTable
    PROVE  SavedInv'
<1>1. PICK sig \in Blocks, f \in Blocks : LoadOne(sig, f)
    BY DEF AttachOneTable
<1>2. content[f].kind = "table" /\ content' = content
    BY <1>1 DEF AttachOneTable, LoadOne, FirstTable, Loadables, Loadable
<1>3. /\ mapping' = content[f].image.mapping /\ cache'.mapping = mapping'
      /\ main' = f /\ backup' = NoBlock /\ pc' = "table" /\ w'.ret = "front"
    BY <1>1 DEF LoadOne, LoadInto, WriteTable, Goto
<1>4. Saved(main)'
    BY <1>2, <1>3, LoadedTells DEF Saved
<1>. QED BY <1>3, <1>4 DEF SavedInv, CacheSaved, Aside, Holding, Writing, Cleaning

\* Two tables of one write count are both trusted; otherwise the newer one is loaded
\* and the other one is written again.
LEMMA AttachTwoSaves ==
    ASSUME Inv, CountsIdentify, AttachTwoTables
    PROVE  SavedInv'
<1>. USE DEF Inv, TypeOK
<1>1. PICK sig \in Blocks, f \in Blocks, g \in Blocks : LoadTwo(sig, f, g)
    BY DEF AttachTwoTables
<1>. DEFINE one == content[f].image
            two == content[g].image
<1>2. /\ content[f].kind = "table" /\ f \notin marker /\ one \in Images
      /\ content[g].kind = "table" /\ g \notin marker /\ two \in Images
      /\ f < g /\ content' = content
    BY <1>1, TableImage, SMTT(30) DEF AttachTwoTables, LoadTwo, FirstTable, SecondTable, Loadables, Loadable
<1>3. one.count = two.count => one = two
    BY <1>2 DEF CountsIdentify
<1>4. one.count \in Nat /\ two.count \in Nat
    BY <1>2 DEF Images
<1>5. /\ main' = f /\ backup' = g /\ cache'.mapping = mapping'
      /\ mapping' = IF two.count > one.count THEN two.mapping ELSE one.mapping
    BY <1>1 DEF LoadTwo, LoadInto, Newer
<1>6. \/ one.count = two.count /\ pc' = "idle"
      \/ one.count < two.count /\ pc' = "table" /\ w'.ret = "loadMain"
      \/ one.count > two.count /\ pc' = "table" /\ w'.ret = "loadBackup" /\ w'.ba = g
    BY <1>1 DEF LoadTwo, Attached, Call, Goto, WriteTable
<1>. HIDE DEF one, two
<1>7. CASE one.count = two.count /\ pc' = "idle"
  <2>1. mapping' = one.mapping /\ mapping' = two.mapping
      BY <1>3, <1>4, <1>5, <1>7
  <2>2. Saved(main)' /\ Saved(backup)'
      BY <1>2, <1>5, <2>1, LoadedTells DEF Saved, one, two
  <2>. QED BY <1>7, <2>2 DEF SavedInv, CacheSaved, Aside, Holding, Writing, Cleaning, Saved, Tables
<1>8. CASE one.count < two.count /\ pc' = "table" /\ w'.ret = "loadMain"
  <2>1. Saved(backup)'
      BY <1>2, <1>4, <1>5, <1>8, LoadedTells DEF Saved, two
  <2>. QED BY <1>5, <1>8, <2>1 DEF SavedInv, CacheSaved, Aside, Holding, Writing, Cleaning
<1>9. CASE one.count > two.count /\ pc' = "table" /\ w'.ret = "loadBackup" /\ w'.ba = g
  <2>1. Saved(main)'
      BY <1>2, <1>4, <1>5, <1>9, LoadedTells DEF Saved, one
  <2>. QED BY <1>2, <1>5, <1>9, <2>1 DEF SavedInv, CacheSaved, Aside, Holding, Writing, Cleaning
<1>. QED BY <1>6, <1>7, <1>8, <1>9

\* A step outside the table writes leaves the tables alone, or tells the RAM.
Quiet ==
    /\ pc' \notin Writing \cup Cleaning
    /\ Running' =>
         /\ Running /\ pc \notin Writing \cup Cleaning
         /\ \/ changed'
            \/ /\ ~changed /\ UNCHANGED <<main, backup>> /\ Shrinks
               /\ \A t \in Tables : content'[t] = content[t]

LEMMA QuietKeeps ==
    ASSUME Inv, SavedInv, Quiet
    PROVE  SavedInv'
<1>1. CacheSaved' /\ Aside'
    BY DEF CacheSaved, Aside, Quiet, Writing
<1>2. Tables \subseteq Blocks
    BY DEF Inv, TypeOK, LayoutType, Tables
<1>3. ASSUME Running', ~changed', NEW t \in Tables'
      PROVE  Saved(t)'
  <2>1. /\ Running /\ pc \notin Writing \cup Cleaning /\ ~changed /\ t \in Tables /\ Shrinks
        /\ content'[t] = content[t]
      BY <1>3 DEF Quiet, Tables
  <2>2. Saved(t) /\ t \in Blocks
      BY <1>2, <2>1 DEF SavedInv, Holding
  <2>. QED BY <2>1, <2>2, SavedStays
<1>4. Holding'
    BY <1>3 DEF Holding, Quiet, Saved
<1>. QED BY <1>1, <1>4 DEF SavedInv

\* nmbm_create_new: the first table that is written is the mapping.
LEMMA CreateSaves ==
    ASSUME Inv, SavedInv, CreateSteps
    PROVE  SavedInv'
<1>. USE DEF Writing, Cleaning, Running, Goto
<1>1. CASE CreateTables
    BY <1>1 DEF CreateTables, Rebuild, WriteTable, GenerateCache, SavedInv, CacheSaved, Aside, Holding
<1>2. CASE AttachNew \/ AttachWithoutTables \/ AttachRefused
    BY <1>2, QuietKeeps DEF Quiet, AttachNew, AttachWithoutTables, AttachRefused
<1>3. CASE SignSkip \/ SignFoundBad \/ SignErase \/ SignProgram \/ SignMark \/ SignFails
    BY <1>3, QuietKeeps DEF Quiet, SignSkip, SignFoundBad, SignErase, SignProgram, SignMark, SignFails, InSign
<1>4. CASE MapTail \/ MapTailEnds \/ TailFull \/ Created
  <2>1. Quiet
      BY <1>4 DEF Quiet, Shrinks, MapTail, MapTailEnds, TailFull, Created, Update, Call
  <2>. QED BY <2>1, QuietKeeps
<1>. QED BY <1>1, <1>2, <1>3, <1>4 DEF CreateSteps

\* An operation works on the block of a logic block, which is no table.
LEMMA OperationSaves ==
    ASSUME Inv, SavedInv, TablesUnused, OperationSteps
    PROVE  SavedInv'
<1>. USE DEF Inv, TypeOK, ControlType, Returns, Ranges, EraseInv, Quiet, Writing, Cleaning, Running, Goto, Update, Call, Return, Block
<1>1. CASE EraseRetired
    BY <1>1, QuietKeeps DEF EraseRetired, Shrinks
<1>2. CASE EraseFoundBad
    BY <1>2, QuietKeeps DEF EraseFoundBad, FoundBad, SetState, Shrinks
<1>3. ASSUME pc \in {"erase", "eraseMark", "write"}, Block # Unmapped
      PROVE  Block \in Blocks /\ Block \notin Tables
    BY <1>3 DEF TablesUnused, TableType, Mappings
<1>4. Tables \subseteq Blocks
    BY DEF LayoutType, Tables
<1>5. CASE EraseBlock
  <2>1. \A t \in Tables : content'[t] = content[t]
      BY <1>3, <1>4, <1>5, ErasesAt DEF EraseBlock, OnlyAt
  <2>. QED BY <1>5, <2>1, QuietKeeps DEF EraseBlock, Shrinks
<1>6. CASE EraseMark
  <2>1. \A t \in Tables : content'[t] = content[t]
      BY <1>3, <1>4, <1>6, MarksAt DEF EraseMark, OnlyAt
  <2>. QED BY <1>6, <2>1, QuietKeeps DEF EraseMark, SetState, Shrinks
<1>7. CASE Remap
    BY <1>7, QuietKeeps DEF Remap
<1>8. CASE RemapFails \/ MapFull
  <2>1. CASE GiveUp
    <3>1. Shrinks /\ (changed' \/ ~changed)
        BY <2>1 DEF GiveUp, Shrinks, TableType, Mappings
    <3>2. UNCHANGED <<content, main, backup>>
        BY <1>8 DEF RemapFails, MapFull
    <3>3. Quiet
        BY <1>8, <2>1, <3>1, <3>2 DEF RemapFails, MapFull, GiveUp
    <3>. QED BY <3>3, QuietKeeps
  <2>2. CASE ~GiveUp
      BY <1>8, <2>2, QuietKeeps DEF RemapFails, MapFull, Shrinks
  <2>. QED BY <2>1, <2>2
<1>9. CASE Failed \/ Marked \/ ReadBlock
    BY <1>9, QuietKeeps DEF Failed, Marked, ReadBlock, Shrinks
<1>10. CASE WriteBlock
  <2>1. \A t \in Tables : content'[t] = content[t]
      BY <1>3, <1>4, <1>10, ProgramsAt DEF WriteBlock, OnlyAt, Usable
  <2>2. UNCHANGED <<mapping, main, backup>>
      BY <1>10 DEF WriteBlock
  <2>3. Shrinks
      BY <2>2 DEF Shrinks
  <2>4. changed' \/ ~changed
      BY <1>10 DEF WriteBlock, SetState, TableType
  <2>5. pc = "write" /\ pc' \in {"idle", "update"}
      BY <1>10 DEF WriteBlock
  <2>. QED BY <2>1, <2>2, <2>3, <2>4, <2>5, QuietKeeps
<1>11. CASE Release
    BY <1>11, QuietKeeps DEF Release, Forget
<1>. QED BY <1>1, <1>2, <1>5, <1>6, <1>7, <1>8, <1>9, <1>10, <1>11 DEF OperationSteps

LEMMA RequestSaves ==
    ASSUME Inv, SavedInv, TablesUnused, Requests \/ PowerCut
    PROVE  SavedInv'
<1>. USE DEF Quiet, Writing, Cleaning, Running, Goto, Update
<1>1. CASE Refuse \/ EraseRequest \/ WriteRequest \/ ReadRequest \/ MarkUnmapped \/ Detach
    BY <1>1, QuietKeeps DEF Refuse, EraseRequest, WriteRequest, Request, ReadRequest, MarkUnmapped,
       Detach, Shrinks
<1>2. CASE MarkBadBlock
  <2>1. PICK l \in Logical : /\ mapping[l] # Unmapped /\ MarkBad(mapping[l])
                             /\ mapping' = [mapping EXCEPT ![l] = Unmapped]
                             /\ SetState(mapping[l], "bad")
      BY <1>2 DEF MarkBadBlock
  <2>2. mapping \in Mappings /\ mapping[l] \in Blocks /\ mapping[l] \notin Tables
        /\ Tables \subseteq Blocks /\ ChipType
      BY <1>2, <2>1 DEF MarkBadBlock, TablesUnused, Inv, TypeOK, TableType, LayoutType, Mappings, Tables
  <2>3. \A t \in Tables : content'[t] = content[t]
      BY <2>1, <2>2, MarksAt DEF OnlyAt
  <2>4. Shrinks
      BY <2>1, <2>2 DEF Shrinks, Mappings
  <2>. QED BY <1>2, <2>1, <2>3, <2>4, QuietKeeps DEF MarkBadBlock, SetState
<1>3. CASE PowerCut
    BY <1>3, QuietKeeps DEF PowerCut, Forget
<1>. QED BY <1>1, <1>2, <1>3 DEF Requests

-----------------------------------------------------------------------------

LEMMA InitSaved == Init => SavedInv
BY DEF Init, SavedInv, CacheSaved, Aside, Holding, Running, Writing, Cleaning

LEMMA SavedStutter ==
    ASSUME SavedInv, UNCHANGED vars
    PROVE  SavedInv'
<1>1. CacheSaved'
    BY DEF SavedInv, CacheSaved, Writing, vars
<1>2. Aside'
    BY DEF SavedInv, Aside, Writing, Cleaning, vars
<1>3. Holding'
    BY DEF SavedInv, Holding, Saved, Tables, Running, Writing, Cleaning, vars
<1>. QED BY <1>1, <1>2, <1>3 DEF SavedInv

LEMMA NextSaves ==
    ASSUME Inv, Inv', BackupBelow, CountsIdentify, TablesUnused, SavedInv, [Next]_vars
    PROVE  SavedInv'
<1>1. CASE WriteTableSteps \/ CleanSteps
    BY <1>1, TableTurns, CleanTurns, TurnKeeps
<1>2. CASE RebuildSteps \/ UpdateSteps
    BY <1>2, RebuildSaves, UpdateSaves
<1>3. CASE LoadSteps
    BY <1>3, LoadSaves, AttachOneSaves, AttachTwoSaves
<1>4. CASE CreateSteps \/ OperationSteps \/ Requests \/ PowerCut
    BY <1>4, CreateSaves, OperationSaves, RequestSaves
<1>5. CASE UNCHANGED vars
    BY <1>5, SavedStutter
<1>. QED BY <1>1, <1>2, <1>3, <1>4, <1>5 DEF Next, Work

\* Between two calls every table on the chip holds the mapping, through any failures,
\* power cuts and attaches.  A logic block whose block holds a table would erase it
\* (TablesUnused; BlocksStayApart says when that can be), and of two tables with one
\* write count only one is looked at.
THEOREM TablesStaySaved == Spec /\ []CountsIdentify /\ []TablesUnused => []TablesSaved
<1>1. SavedInv => TablesSaved
    BY DEF SavedInv, Holding, Saved, Tells, TablesSaved, Ready, Running, Writing, Cleaning
<1>2. ApartInv /\ ApartInv' /\ CountsIdentify /\ TablesUnused /\ SavedInv /\ [Next]_vars
        => SavedInv'
    BY NextSaves DEF ApartInv
<1>. QED BY <1>1, <1>2, InitApart, NextApart, InitSaved, PTL DEF Spec

-----------------------------------------------------------------------------
(* Equal write counts mean equal tables *)

\* A bad block can be marked, and its mark be read.
MarksWork == FaultKinds \subseteq {"erase", "program"}

\* No logic block is mapped below the spare blocks that are left.
NoneDisplaced == Running => \A l \in Logical : mapping[l] \notin MgmtStart .. mapTop

\* The tables that an attach may read.
Live     == {b \in Blocks \ marker : content[b].kind = "table"}
Image(b) == content[b].image

\* No table can be written to block x, nor to any block of the management area below n.
Gone(x, st)  == x \in marker \/ st[x] # "good"
Swept(n, st) == \A x \in MgmtStart .. n - 1 : Gone(x, st)

\* Each table takes the blocks of all for good ones, and none for a block in use.
Fit ==
    \A a, b \in Live :
        /\ MgmtStart <= a
        /\ Image(a).state[b] = "good"
        /\ \A l \in Logical : Image(a).mapping[l] \notin MgmtStart .. b + 1

\* The later table knows every bad block of the earlier one, and no table can be
\* written in front of two.
Lineage ==
    \A a, b \in Live :
        /\ Image(a).count <= Image(b).count => Worse(Image(a).state, Image(b).state)
        /\ Image(a).count = Image(b).count => Image(a) = Image(b)
        /\ a < b => Swept(a, Image(a).state) \/ Swept(a, Image(b).state)

\* An attach finds every table, and there are two at most.
Findable ==
    pc = "off" => /\ \E a, b \in Blocks : Live \subseteq {a, b}
                  /\ \A a, s \in Blocks : a \in Live /\ SignatureAt(s) => a < s - 1
Empty == pc \in Starting \cup {"create", "attachFails"} => Live = {}

\* The spare blocks lie above the main table, the backup table between it and their
\* top.
Placed ==
    Running => /\ mapBase <= mapTop /\ main < mapBase
               /\ backup # NoBlock => main < backup /\ backup < mapTop

\* The older of two tables that differ, while it is written again.
Renewed(b) == pc \in Writing /\ w.ret \in {"loadMain", "loadBackup"} /\ b = w.ba /\ w.ba < w.limit

\* The RAM is at least as new as every table on the chip.
Follows(b) ==
    /\ b < mapTop /\ state[b] = "good"
    /\ Worse(Image(b).state, state)
    /\ Image(b).count <= writeCount
    /\ Renewed(b) \/ \A l \in Logical : Image(b).mapping[l] \notin MgmtStart .. mapTop
Known == Running => \A b \in Live : Follows(b)

\* What is being written is newer than every other table, or the same.
Cached ==
    pc \in Writing =>
        /\ cache.count = writeCount /\ cache.mapping = mapping
        /\ \A x \in Blocks : cache.state[x] # state[x] => x \in marker /\ state[x] # "good"
        /\ \A a \in Live : /\ Image(a).count = cache.count => Image(a) = cache
                           /\ Worse(Image(a).state, cache.state)
        /\ pc # "table" => state[w.ba] = "good" /\ w.ba \notin marker
        /\ pc = "written" => content[w.ba] = TableOf(cache)

\* The tables there are while one is written, apart from the one in its place.
Standing ==
    IF w.ret \in {"newBackup", "backup", "front", "next", "loadBackup"} THEN {main}
    ELSE IF w.ret \in {"main", "temp", "loadMain"} THEN {backup}
    ELSE IF w.ret = "rescue" THEN {w.limit} \cup {b \in {backup} : w.ba <= b}
    ELSE {}

Present ==
    /\ pc \in Writing => Live \subseteq Standing \cup {b \in {w.ba} : b < w.limit}
    /\ pc \in Cleaning => Live \subseteq {main, w.limit}
    /\ Running /\ pc \notin Writing \cup Cleaning => Live \subseteq Tables

\* Where a table write begins, and the blocks it has given up.
Course ==
    /\ pc \in Writing =>
         /\ w.ret \in {"newBackup", "backup", "next", "loadBackup"} => main < w.ba /\ Swept(main, cache.state)
         /\ w.ret \in {"newMain", "front", "main", "loadMain", "rescue"} => Swept(w.ba, cache.state)
         /\ w.ret \in {"temp", "rescue"} => Swept(backup, cache.state)
         /\ w.ret = "main" /\ backup # NoBlock => w.limit = backup
         /\ w.ret = "rescue" => backup < w.limit
         /\ w.ret = "newMain" => main = NoBlock
         /\ w.ret = "front" => backup = NoBlock
         /\ w.ret = "loadBackup" => backup < mapBase
    /\ pc \in Cleaning =>
         /\ main < w.ba /\ main < w.limit
         /\ w.ret \in {"newBackup", "front"} => w.limit = backup
    /\ Running /\ pc \notin Writing => Swept(main, state)

CountInv ==
    /\ Fit /\ Lineage /\ Findable /\ Empty
    /\ Placed /\ Known /\ Cached /\ Present /\ Course

-----------------------------------------------------------------------------
(* Steps that lose tables at most *)

LEMMA MarksAreSeen ==
    ASSUME MarksWork, NEW b
    PROVE  /\ FoundBad(b) => b \in marker /\ UNCHANGED faults
           /\ MarkBad(b) => /\ marker' = marker \cup {b}
                            /\ content' = [content EXCEPT ![b] = Torn]
BY DEF MarksWork, FoundBad, MarkBad, Fails

LEMMA TypeFacts ==
    ASSUME Inv
    PROVE  /\ ChipType /\ LayoutType /\ state \in [Blocks -> States] /\ mapping \in Mappings
           /\ writeCount \in Nat /\ cache \in Images /\ cache.count \in Nat
           /\ cache.state \in [Blocks -> States] /\ changed \in BOOLEAN
           /\ main \in Blocks /\ backup \in Blocks /\ mapBase \in Blocks /\ mapTop \in Blocks
           /\ sigBlock \in Blocks /\ w \in WriteRange
           /\ w.ba \in Nat /\ w.limit \in Nat /\ w.from \in Nat /\ w.ret \in Callers
BY DEF Inv, TypeOK, TableType, LayoutType, ControlType, Images, WriteRange

LEMMA WriteFacts ==
    ASSUME Inv, pc \in Writing
    PROVE  /\ Running /\ MgmtStart <= w.ba /\ w.limit <= mapTop /\ mapTop < sigBlock
           /\ w.ret # "none"
           /\ w.ba < w.limit => w.ba \in Blocks /\ w.ba < mapTop
<1>1. Running /\ MgmtStart <= w.ba /\ w.limit <= mapTop /\ mapTop < sigBlock /\ w.ret # "none"
    BY DEF Inv, Ranges, WriteInv, LayoutInv, Running, Writing
<1>. QED BY <1>1, TypeFacts

LEMMA WorseWorse ==
    ASSUME NEW s1, NEW s2, NEW s3, Worse(s1, s2), Worse(s2, s3)
    PROVE  Worse(s1, s3)
BY DEF Worse

LEMMA LiveIn ==
    ASSUME ChipType, NEW b \in Live
    PROVE  /\ b \in Blocks /\ b \notin marker /\ content[b].kind = "table"
           /\ Image(b) \in Images /\ Image(b).count \in Nat
           /\ Image(b).state \in [Blocks -> States] /\ Image(b).mapping \in Mappings
<1>1. b \in Blocks /\ b \notin marker /\ content[b].kind = "table"
    BY DEF Live
<1>2. Image(b) \in Images
    BY <1>1, TableImage DEF Image
<1>. QED BY <1>1, <1>2 DEF Images

LEMMA FamilyStays ==
    ASSUME Fit, Lineage, Live' \subseteq Live, marker \subseteq marker',
           \A b \in Live' : content'[b] = content[b]
    PROVE  Fit' /\ Lineage'
<1>1. \A b \in Live' : Image(b)' = Image(b)
    BY DEF Image
<1>2. Fit'
    BY <1>1 DEF Fit
<1>3. ASSUME NEW n, NEW st, Swept(n, st)
      PROVE  \A x \in MgmtStart .. n - 1 : x \in marker' \/ st[x] # "good"
    BY <1>3 DEF Swept, Gone
<1>4. Lineage'
  <2>. SUFFICES ASSUME NEW a \in Live', NEW b \in Live'
                PROVE  /\ Image(a).count <= Image(b).count => Worse(Image(a).state, Image(b).state)
                       /\ Image(a).count = Image(b).count => Image(a) = Image(b)
                       /\ a < b => Swept(a, Image(a).state)' \/ Swept(a, Image(b).state)'
      BY <1>1 DEF Lineage
  <2>1. a < b => Swept(a, Image(a).state) \/ Swept(a, Image(b).state)
      BY DEF Lineage
  <2>2. a < b => Swept(a, Image(a).state)' \/ Swept(a, Image(b).state)'
      BY <1>1, <1>3, <2>1 DEF Swept, Gone
  <2>. QED BY <2>2 DEF Lineage
<1>. QED BY <1>2, <1>4

\* A step that at most takes tables away or calls blocks bad that hold none.
Loses ==
    /\ Running /\ Running'
    /\ Live' \subseteq Live /\ marker \subseteq marker' /\ Worse(state, state')
    /\ mapTop' <= mapTop /\ writeCount <= writeCount'
    /\ \A b \in Live' :
         /\ content'[b] = content[b] /\ state'[b] = "good" /\ b < mapTop'
         /\ Renewed(b) => \/ Renewed(b)'
                          \/ \A l \in Logical : Image(b).mapping[l] \notin MgmtStart .. mapTop

LEMMA LosesKeeps ==
    ASSUME Inv, Inv', CountInv, Loses
    PROVE  Fit' /\ Lineage' /\ Findable' /\ Empty' /\ Known'
<1>. USE DEF CountInv, Loses, Inv, TypeOK, LayoutType, TableType
<1>1. Fit' /\ Lineage'
    BY FamilyStays
<1>2. Findable' /\ Empty'
    BY DEF Findable, Empty, Running, Starting
<1>3. ASSUME NEW b \in Live'
      PROVE  Follows(b)'
  <2>1. b \in Live /\ Follows(b) /\ Image(b)' = Image(b)
      BY <1>3 DEF Known, Image
  <2>2. Image(b).count \in Nat /\ Image(b).mapping \in Mappings
      BY <2>1, LiveIn
  <2>3. Worse(Image(b).state, state')
      BY <2>1, WorseWorse DEF Follows
  <2>4. Image(b).count <= writeCount'
      BY <2>1, <2>2, SMTT(30) DEF Follows
  <2>5. Renewed(b)' \/ \A l \in Logical : Image(b).mapping[l] \notin MgmtStart .. mapTop'
    <3>1. Renewed(b)' \/ \A l \in Logical : Image(b).mapping[l] \notin MgmtStart .. mapTop
        BY <1>3, <2>1 DEF Follows
    <3>2. MgmtStart .. mapTop' \subseteq MgmtStart .. mapTop
        OBVIOUS
    <3>. QED BY <3>1, <3>2
  <2>. QED BY <1>3, <2>1, <2>3, <2>4, <2>5 DEF Follows
<1>4. Known'
    BY <1>3 DEF Known
<1>. QED BY <1>1, <1>2, <1>4

LEMMA SweptStays ==
    ASSUME NEW n \in Int, NEW m \in Int, m <= n, NEW st, NEW st2, Swept(n, st),
           marker \subseteq marker', \A x \in Blocks : st[x] # "good" => st2[x] # "good" \/ x \in marker',
           n <= BlockCount
    PROVE  \A x \in MgmtStart .. m - 1 : x \in marker' \/ st2[x] # "good"
<1>. SUFFICES ASSUME NEW x \in MgmtStart .. m - 1 PROVE x \in marker' \/ st2[x] # "good"
    OBVIOUS
<1>1. x \in MgmtStart .. n - 1 /\ x \in Blocks
    OBVIOUS
<1>. QED BY <1>1 DEF Swept, Gone

\* Outside the writes and erases of tables.
LEMMA CalmKeeps ==
    ASSUME Inv, Inv', CountInv, Loses, pc \notin Writing \cup Cleaning,
           pc' \notin Writing \cup Cleaning, UNCHANGED <<main, backup, mapBase>>, mapBase <= mapTop',
           mapTop' = mapTop \/ backup < mapBase
    PROVE  CountInv'
<1>. USE DEF CountInv, Loses
<1>1. Fit' /\ Lineage' /\ Findable' /\ Empty' /\ Known'
    BY LosesKeeps
<1>2. Cached' /\ Placed'
  <2>1. backup \in Blocks /\ mapBase \in Blocks /\ mapTop' \in Blocks
      BY TypeFacts DEF Inv, TypeOK, LayoutType
  <2>. QED BY <2>1 DEF Cached, Placed
<1>3. Present'
  <2>1. Live \subseteq Tables /\ Tables' = Tables
      BY DEF Present, Tables
  <2>. QED BY <2>1 DEF Present
<1>4. Course'
  <2>1. Swept(main, state)
      BY DEF Course
  <2>2. main \in Blocks
      BY DEF Inv, TypeOK, LayoutType
  <2>3. \A x \in Blocks : state[x] # "good" => state'[x] # "good" \/ x \in marker'
      BY DEF Worse
  <2>4. \A x \in MgmtStart .. main - 1 : x \in marker' \/ state'[x] # "good"
      BY <2>1, <2>2, <2>3, SweptStays
  <2>. QED BY <2>4 DEF Course, Swept, Gone
<1>. QED BY <1>1, <1>2, <1>3, <1>4

-----------------------------------------------------------------------------
(* nmbm_write_mgmt_range and nmbm_erase_range *)

\* The next block of a table write.
Advances ==
    /\ pc \in Writing /\ pc' = "table" /\ w.ba < w.limit /\ w' = [w EXCEPT !.ba = w.ba + 1]
    /\ UNCHANGED <<mapping, writeCount, cache, layout>>
    /\ Live' \subseteq Live \ {w.ba} /\ \A b \in Live' : content'[b] = content[b]
    /\ marker \subseteq marker'
    /\ w.ba \in marker' \/ cache.state[w.ba] # "good"
    /\ \/ state' = state
       \/ w.ba \in marker' /\ state' = [state EXCEPT ![w.ba] = "bad"]

LEMMA AdvanceKeeps ==
    ASSUME Inv, Inv', CountInv, Advances
    PROVE  CountInv'
<1>1. /\ w.ba \in Blocks /\ w.ba \in Nat /\ w.limit \in Nat /\ w.ba < w.limit /\ w.limit <= mapTop
      /\ mapTop \in Blocks /\ writeCount \in Nat /\ Running /\ Running' /\ pc \in Writing
      /\ pc' = "table" /\ state \in [Blocks -> States]
    BY TypeFacts, WriteFacts DEF Advances, Running
<1>2. w'.ba = w.ba + 1 /\ w'.limit = w.limit /\ w'.ret = w.ret
    BY TypeFacts DEF Advances, WriteRange
<1>3. UNCHANGED <<mapping, writeCount, cache, main, backup, mapBase, mapTop>>
    BY DEF Advances
<1>4. /\ Live' \subseteq Live \ {w.ba} /\ \A b \in Live' : content'[b] = content[b]
      /\ marker \subseteq marker' /\ (w.ba \in marker' \/ cache.state[w.ba] # "good")
    BY DEF Advances
<1>5. /\ Worse(state, state') /\ \A x \in Blocks : x # w.ba => state'[x] = state[x]
      /\ state'[w.ba] # state[w.ba] => w.ba \in marker' /\ state'[w.ba] # "good"
    BY <1>1 DEF Advances, Worse
<1>6. Loses
  <2>1. ASSUME NEW b \in Live'
        PROVE  /\ content'[b] = content[b] /\ state'[b] = "good" /\ b < mapTop' /\ ~Renewed(b)
    <3>1. b \in Live /\ b # w.ba /\ Follows(b) /\ b \in Blocks
        BY <1>1, <1>4, <2>1 DEF CountInv, Known, Live
    <3>. QED BY <1>3, <1>4, <1>5, <2>1, <3>1 DEF Follows, Renewed
  <2>2. mapTop' <= mapTop /\ writeCount <= writeCount'
      BY <1>1, <1>3
  <2>. QED BY <1>1, <1>4, <1>5, <2>1, <2>2 DEF Loses
<1>7. Fit' /\ Lineage' /\ Findable' /\ Empty' /\ Known'
    BY <1>6, LosesKeeps
<1>8. Placed'
    BY <1>1, <1>3 DEF CountInv, Placed
<1>9. Cached'
  <2>1. cache.count = writeCount /\ cache.mapping = mapping
      BY <1>1 DEF CountInv, Cached
  <2>2. ASSUME NEW x \in Blocks, cache.state[x] # state'[x]
        PROVE  x \in marker' /\ state'[x] # "good"
      BY <1>1, <1>4, <1>5, <2>2 DEF CountInv, Cached
  <2>3. ASSUME NEW a \in Live'
        PROVE  /\ Image(a)'.count = cache.count => Image(a)' = cache
               /\ Worse(Image(a)'.state, cache.state)
    <3>1. a \in Live /\ Image(a)' = Image(a)
        BY <1>4, <2>3 DEF Image
    <3>. QED BY <1>1, <3>1 DEF CountInv, Cached
  <2>. QED BY <1>1, <1>3, <2>1, <2>2, <2>3 DEF Cached
<1>10. Present'
  <2>1. Live' \subseteq Standing \ {w.ba}
      BY <1>1, <1>4 DEF CountInv, Present
  <2>2. Standing \ {w.ba} \subseteq Standing'
    <3>1. \A b \in {backup} : w.ba <= b /\ b # w.ba => w.ba + 1 <= b
        BY <1>1, TypeFacts
    <3>. QED BY <1>2, <1>3, <3>1 DEF Standing
  <2>. QED BY <1>1, <2>1, <2>2 DEF Present, Cleaning, Writing
<1>11. Course'
  <2>1. /\ Swept(main, cache.state) => Swept(main, cache.state)'
        /\ Swept(backup, cache.state) => Swept(backup, cache.state)'
      BY <1>3, <1>4 DEF Swept, Gone
  <2>2. Swept(w.ba, cache.state) => Swept(w.ba, cache.state)'
    <3>1. \A x \in MgmtStart .. (w.ba + 1) - 1 : x \in MgmtStart .. w.ba - 1 \/ x = w.ba
        BY <1>1
    <3>. QED BY <1>2, <1>3, <1>4, <3>1 DEF Swept, Gone
  <2>. QED BY <1>1, <1>2, <1>3, <2>1, <2>2, TypeFacts DEF CountInv, Course, Cleaning, Writing
<1>. QED BY <1>7, <1>8, <1>9, <1>10, <1>11 DEF CountInv

\* A block that carries no table is erased.
LEMMA EraseCounts ==
    ASSUME MarksWork, Inv, Inv', CountInv, TableErase
    PROVE  CountInv'
<1>. USE DEF Inv, TypeOK, LayoutType, TableType, ControlType, WriteRange, Ranges, WriteInv,
        Writing, Cleaning, Running, Goto
<1>1. w.ba \in Blocks /\ w.ba < w.limit /\ pc = "table" /\ pc' \in {"program", "tableMark"}
      /\ w' = w /\ state[w.ba] = "good" /\ w.ba \notin marker
    BY DEF TableErase, InTable, FoundGood
<1>2. UNCHANGED <<mapping, writeCount, cache, layout, state, changed, marker>>
    BY DEF TableErase, InTable, EraseOk, EraseFails
<1>3. \A b \in Blocks : content'[b] = content[b] \/ (b = w.ba /\ content'[b].kind # "table")
    BY <1>1, ErasesAt DEF TableErase, OnlyAt
<1>4. Live' \subseteq Live /\ \A b \in Live' : content'[b] = content[b] /\ Image(b)' = Image(b)
    BY <1>2, <1>3 DEF Live, Image
<1>5. Loses
    BY <1>1, <1>2, <1>4 DEF Loses, CountInv, Known, Follows, Renewed, Worse
<1>6. Fit' /\ Lineage' /\ Findable' /\ Empty' /\ Known'
    BY <1>5, LosesKeeps
<1>7. Placed'
    BY <1>1, <1>2 DEF CountInv, Placed
<1>8. Cached'
    BY <1>1, <1>2, <1>4 DEF CountInv, Cached
<1>9. Present'
  <2>1. Standing' = Standing
      BY <1>1, <1>2 DEF Standing
  <2>. QED BY <1>1, <1>4, <2>1 DEF CountInv, Present
<1>10. Course'
    BY <1>1, <1>2 DEF CountInv, Course, Swept, Gone
<1>. QED BY <1>6, <1>7, <1>8, <1>9, <1>10 DEF CountInv

\* The new table fits the one that stands, and follows it.
LEMMA ProgramCounts ==
    ASSUME MarksWork, NoneDisplaced, Inv, Inv', BackupBelow, CountInv, TableProgram
    PROVE  CountInv'
<1>1. w.ba \in Blocks /\ w.ba < w.limit /\ pc = "program" /\ pc' \in {"written", "tableMark"}
      /\ w' = w /\ state[w.ba] = "good" /\ w.ba \notin marker /\ MgmtStart <= w.ba
      /\ w.ba < mapTop /\ Running /\ Running' /\ pc \in Writing /\ pc' \in Writing
  <2>1. pc = "program" /\ pc' \in {"written", "tableMark"} /\ w' = w
      BY DEF TableProgram, InTable, Goto
  <2>2. w.ba < w.limit /\ pc \in Writing /\ pc' \in Writing
      BY <2>1 DEF Inv, Ranges, WriteInv, Writing
  <2>. QED BY <2>1, <2>2, TypeFacts, WriteFacts DEF CountInv, Cached, Running
<1>2. UNCHANGED <<mapping, writeCount, cache, layout, state, changed, marker>>
    BY DEF TableProgram, InTable, ProgramOk, ProgramFails
<1>3. /\ \A b \in Blocks : b # w.ba => content'[b] = content[b]
      /\ content'[w.ba] = TableOf(cache) \/ content'[w.ba].kind # "table"
      /\ pc' = "written" => content'[w.ba] = TableOf(cache)
  <2>1. OnlyAt(w.ba) /\ (content'[w.ba] = TableOf(cache) \/ content'[w.ba].kind # "table")
      BY <1>1, TypeFacts, ProgramsAt DEF TableProgram
  <2>2. pc' = "written" => content'[w.ba] = TableOf(cache)
      BY <1>1, TypeFacts DEF TableProgram, ProgramOk, ChipType, Goto
  <2>. QED BY <2>1, <2>2 DEF OnlyAt
<1>4. ASSUME NEW b \in Live', b # w.ba
      PROVE  /\ b \in Live /\ b \in Blocks /\ Image(b)' = Image(b) /\ b \in Standing
             /\ Follows(b) /\ ~Renewed(b) /\ b # NoBlock
  <2>1. b \in Live /\ b \in Blocks /\ Image(b)' = Image(b)
      BY <1>2, <1>3, <1>4 DEF Live, Image
  <2>2. b \in Standing
      BY <1>1, <1>4, <2>1 DEF CountInv, Present
  <2>3. MgmtStart <= b /\ Follows(b)
      BY <1>1, <2>1 DEF CountInv, Fit, Known
  <2>. QED BY <1>4, <2>1, <2>2, <2>3 DEF Renewed
<1>5. ASSUME NEW b \in Live', b = w.ba
      PROVE  Image(b)' = cache
  <2>1. content'[b].kind = "table"
      BY <1>5 DEF Live
  <2>. QED BY <1>3, <1>5, <2>1, NotTables DEF Image
<1>6. /\ cache.count = writeCount /\ cache.mapping = mapping
      /\ \A x \in Blocks : cache.state[x] # state[x] => x \in marker /\ state[x] # "good"
      /\ \A a \in Live : /\ Image(a).count = cache.count => Image(a) = cache
                         /\ Worse(Image(a).state, cache.state)
    BY <1>1 DEF CountInv, Cached
<1>7. \A l \in Logical : mapping[l] \notin MgmtStart .. mapTop
    BY <1>1 DEF NoneDisplaced
<1>8. \A b \in Blocks : b < mapTop => MgmtStart .. b + 1 \subseteq MgmtStart .. mapTop
    BY TypeFacts
<1>9. cache.state[w.ba] = "good" /\ Worse(cache.state, state)
    BY <1>1, <1>6 DEF Worse
<1>10. Fit'
  <2>. SUFFICES ASSUME NEW a \in Live', NEW b \in Live'
                PROVE  /\ MgmtStart <= a
                       /\ Image(a)'.state[b] = "good"
                       /\ \A l \in Logical : Image(a)'.mapping[l] \notin MgmtStart .. b + 1
      BY DEF Fit
  <2>1. CASE a # w.ba /\ b # w.ba
      BY <1>4, <2>1 DEF CountInv, Fit
  <2>2. CASE a = w.ba
    <3>1. b \in Blocks /\ b < mapTop /\ state[b] = "good"
        BY <1>1, <1>4 DEF Follows
    <3>2. cache.state[b] = "good"
        BY <1>6, <3>1
    <3>. QED BY <1>1, <1>5, <1>6, <1>7, <1>8, <2>2, <3>1, <3>2
  <2>3. CASE a # w.ba /\ b = w.ba
    <3>1. a \in Live /\ Image(a)' = Image(a) /\ Follows(a) /\ ~Renewed(a)
        BY <1>4, <2>3
    <3>2. MgmtStart <= a
        BY <3>1 DEF CountInv, Fit
    <3>3. Image(a).state[b] = "good"
        BY <1>1, <2>3, <3>1 DEF Follows, Worse
    <3>4. \A l \in Logical : Image(a).mapping[l] \notin MgmtStart .. b + 1
        BY <1>1, <1>8, <2>3, <3>1 DEF Follows
    <3>. QED BY <3>1, <3>2, <3>3, <3>4
  <2>. QED BY <2>1, <2>2, <2>3
<1>11. ASSUME NEW b \in Live', b # w.ba
       PROVE  /\ Image(b).count <= cache.count
              /\ cache.count <= Image(b).count => Image(b) = cache
              /\ Worse(Image(b).state, cache.state)
              /\ b < w.ba => Swept(b, cache.state)
              /\ w.ba < b => Swept(w.ba, cache.state)
  <2>1. b \in Live /\ b \in Standing /\ Follows(b) /\ b # NoBlock /\ b \in Blocks
      BY <1>4, <1>11
  <2>2. Image(b).count \in Nat /\ cache.count \in Nat /\ Image(b).count <= writeCount
      BY <1>6, <2>1, TypeFacts, LiveIn DEF Follows
  <2>3. /\ b < w.ba => Swept(b, cache.state)
        /\ w.ba < b => Swept(w.ba, cache.state)
    <3>0. main \in Blocks /\ backup \in Blocks /\ mapBase \in Blocks /\ w.limit \in Nat /\ w.ba \in Nat
          /\ w.ret \in Callers /\ w.ret # "none" /\ (w.ret = "front" => w.limit = main)
          /\ (w.ret = "loadMain" => w.limit = backup)
        BY <1>1, TypeFacts DEF Inv, Ranges, WriteInv
    <3>1. /\ w.ret \in {"newBackup", "backup", "next", "loadBackup"} => main < w.ba /\ Swept(main, cache.state)
          /\ w.ret \in {"newMain", "front", "main", "loadMain", "rescue"} => Swept(w.ba, cache.state)
          /\ w.ret \in {"temp", "rescue"} => Swept(backup, cache.state)
          /\ w.ret = "main" /\ backup # NoBlock => w.limit = backup
        BY <1>1 DEF CountInv, Course
    <3>2. CASE w.ret \in {"newBackup", "backup", "next", "loadBackup"}
        BY <2>1, <3>0, <3>1, <3>2 DEF Standing
    <3>3. CASE w.ret \in {"main", "loadMain"}
        BY <1>1, <2>1, <3>0, <3>1, <3>3 DEF Standing
    <3>4. CASE w.ret = "front"
        BY <1>1, <2>1, <3>0, <3>1, <3>4 DEF Standing
    <3>5. CASE w.ret = "temp"
      <4>1. backup < mapBase /\ mapBase <= w.ba
          BY <1>1, <3>5 DEF BackupBelow, Stuck, Writing
      <4>. QED BY <1>1, <2>1, <3>0, <3>1, <3>5, <4>1 DEF Standing
    <3>6. CASE w.ret = "rescue"
        BY <1>1, <2>1, <3>0, <3>1, <3>6 DEF Standing
    <3>7. CASE w.ret = "newMain"
        BY <2>1, <3>0, <3>7 DEF Standing
    <3>. QED BY <3>0, <3>2, <3>3, <3>4, <3>5, <3>6, <3>7 DEF Callers
  <2>. QED BY <1>6, <2>1, <2>2, <2>3
<1>12. Lineage'
  <2>. SUFFICES ASSUME NEW a \in Live', NEW b \in Live'
                PROVE  /\ Image(a)'.count <= Image(b)'.count => Worse(Image(a)'.state, Image(b)'.state)
                       /\ Image(a)'.count = Image(b)'.count => Image(a)' = Image(b)'
                       /\ a < b => Swept(a, Image(a).state)' \/ Swept(a, Image(b).state)'
      BY DEF Lineage
  <2>0. \A n, st : Swept(n, st) => \A x \in MgmtStart .. n - 1 : x \in marker' \/ st[x] # "good"
      BY <1>2 DEF Swept, Gone
  <2>1. CASE a # w.ba /\ b # w.ba
    <3>1. /\ Image(a).count <= Image(b).count => Worse(Image(a).state, Image(b).state)
          /\ Image(a).count = Image(b).count => Image(a) = Image(b)
          /\ a < b => Swept(a, Image(a).state) \/ Swept(a, Image(b).state)
        BY <1>4, <2>1 DEF CountInv, Lineage
    <3>. QED BY <1>4, <2>0, <2>1, <3>1 DEF Swept, Gone
  <2>2. CASE a = w.ba /\ b # w.ba
    <3>1. Image(a)' = cache /\ Image(b)' = Image(b) /\ Image(b).count \in Nat /\ cache.count \in Nat
        BY <1>4, <1>5, <1>6, <2>2, TypeFacts, LiveIn
    <3>2. a < b => Swept(a, Image(a).state)'
        BY <1>11, <2>0, <2>2, <3>1 DEF Swept, Gone
    <3>3. cache.count <= Image(b).count => Image(b) = cache
        BY <1>11, <2>2
    <3>. QED BY <3>1, <3>2, <3>3 DEF Worse
  <2>3. CASE a # w.ba /\ b = w.ba
    <3>1. Image(b)' = cache /\ Image(a)' = Image(a) /\ Image(a).count \in Nat /\ cache.count \in Nat
        BY <1>4, <1>5, <1>6, <2>3, TypeFacts, LiveIn
    <3>2. a < b => Swept(a, Image(b).state)'
        BY <1>11, <2>0, <2>3, <3>1 DEF Swept, Gone
    <3>3. /\ cache.count <= Image(a).count => Image(a) = cache
          /\ Worse(Image(a).state, cache.state)
        BY <1>11, <2>3
    <3>. QED BY <3>1, <3>2, <3>3
  <2>4. CASE a = w.ba /\ b = w.ba
    <3>1. Image(a)' = Image(b)' /\ ~(a < b)
        BY <1>1, <2>4
    <3>. QED BY <3>1 DEF Worse
  <2>. QED BY <2>1, <2>2, <2>3, <2>4
<1>13. Known'
  <2>1. ASSUME NEW b \in Live', b # w.ba PROVE Follows(b)'
      BY <1>2, <1>4, <2>1 DEF Follows
  <2>2. ASSUME NEW b \in Live', b = w.ba PROVE Follows(b)'
    <3>1. Image(b)' = cache /\ cache.count \in Nat
        BY <1>5, <2>2, TypeFacts
    <3>. QED BY <1>1, <1>2, <1>6, <1>7, <1>9, <2>2, <3>1 DEF Follows
  <2>. QED BY <2>1, <2>2 DEF Known
<1>14. Findable' /\ Empty' /\ Placed'
    BY <1>1, <1>2 DEF CountInv, Findable, Empty, Starting, Placed, Running
<1>15. Cached'
  <2>1. ASSUME NEW a \in Live'
        PROVE  /\ Image(a)'.count = cache.count => Image(a)' = cache
               /\ Worse(Image(a)'.state, cache.state)
    <3>1. CASE a = w.ba
        BY <1>5, <3>1 DEF Worse
    <3>2. CASE a # w.ba
        BY <1>4, <1>6, <3>2
    <3>. QED BY <3>1, <3>2
  <2>. QED BY <1>1, <1>2, <1>3, <1>6, <2>1 DEF Cached
<1>16. Present'
  <2>1. Standing' = Standing
      BY <1>1, <1>2 DEF Standing
  <2>2. \A b \in Live' : b # w.ba => b \in Standing
      BY <1>4
  <2>. QED BY <1>1, <2>1, <2>2 DEF Present, Writing, Cleaning
<1>17. Course'
    BY <1>1, <1>2 DEF CountInv, Course, Swept, Gone, Writing, Cleaning
<1>. QED BY <1>10, <1>12, <1>13, <1>14, <1>15, <1>16, <1>17 DEF CountInv

LEMMA TableWriteCounts ==
    ASSUME MarksWork, NoneDisplaced, Inv, Inv', BackupBelow, CountInv, WriteTableSteps
    PROVE  CountInv'
<1>. USE DEF Inv, TypeOK, LayoutType, TableType, ControlType, WriteRange, Ranges, WriteInv,
        Writing, InTable, NextBlock, Goto
<1>1. CASE TableSkip
  <2>1. w.ba \in Blocks /\ state[w.ba] # "good"
      BY <1>1, SMTT(30) DEF TableSkip
  <2>2. w.ba \notin Live
      BY <1>1, <2>1 DEF TableSkip, CountInv, Known, Follows, Running
  <2>3. w.ba \in marker \/ cache.state[w.ba] # "good"
      BY <1>1, <2>1 DEF TableSkip, CountInv, Cached
  <2>4. Live' = Live
      BY <1>1 DEF TableSkip, Live
  <2>. QED BY <1>1, <2>2, <2>3, <2>4, AdvanceKeeps DEF TableSkip, Advances
<1>2. CASE TableFoundBad
  <2>1. w.ba \in marker /\ UNCHANGED <<content, marker>>
      BY <1>2, MarksAreSeen DEF TableFoundBad
  <2>2. Live' = Live /\ w.ba \notin Live
      BY <2>1 DEF Live
  <2>. QED BY <1>2, <2>1, <2>2, AdvanceKeeps DEF TableFoundBad, SetState, Advances
<1>3. CASE TableErase
    BY <1>3, EraseCounts
<1>4. CASE TableProgram
    BY <1>4, ProgramCounts
<1>5. CASE TableMark
  <2>1. marker' = marker \cup {w.ba} /\ content' = [content EXCEPT ![w.ba] = Torn]
      BY <1>5, MarksAreSeen DEF TableMark
  <2>2. Live' \subseteq Live \ {w.ba} /\ \A b \in Live' : content'[b] = content[b]
      BY <2>1 DEF Live, ChipType
  <2>3. w.ba < w.limit
      BY <1>5 DEF TableMark
  <2>. QED BY <1>5, <2>1, <2>2, <2>3, AdvanceKeeps DEF TableMark, SetState, Advances
<1>. QED BY <1>1, <1>2, <1>3, <1>4, <1>5 DEF WriteTableSteps

\* The blocks between the two tables are erased.
Cleans ==
    /\ pc \in Cleaning /\ pc' \in Cleaning /\ w.ba <= w'.ba /\ w'.limit = w.limit /\ w'.ret = w.ret
    /\ UNCHANGED <<writeCount, main, backup, mapBase, mapTop>>
    /\ Live' \subseteq Live /\ marker \subseteq marker' /\ Worse(state, state')
    /\ \A b \in Live' : content'[b] = content[b] /\ state'[b] = state[b]

LEMMA CleansKeeps ==
    ASSUME Inv, Inv', CountInv, Cleans
    PROVE  CountInv'
<1>1. pc \in Cleaning /\ pc' \in Cleaning /\ Running /\ Running' /\ pc \notin Writing /\ pc' \notin Writing
    BY DEF Cleans, Cleaning, Writing, Running
<1>2. Loses
  <2>1. ASSUME NEW b \in Live'
        PROVE  content'[b] = content[b] /\ state'[b] = "good" /\ b < mapTop' /\ ~Renewed(b)
      BY <1>1, <2>1 DEF Cleans, CountInv, Known, Follows, Renewed
  <2>2. mapTop' <= mapTop /\ writeCount <= writeCount'
      BY TypeFacts DEF Cleans
  <2>. QED BY <1>1, <2>1, <2>2 DEF Cleans, Loses
<1>3. Fit' /\ Lineage' /\ Findable' /\ Empty' /\ Known'
    BY <1>2, LosesKeeps
<1>4. Placed' /\ Cached'
    BY <1>1 DEF CountInv, Cleans, Placed, Cached
<1>5. Present'
    BY <1>1 DEF CountInv, Cleans, Present
<1>6. Course'
  <2>1. /\ main < w.ba /\ main < w.limit /\ Swept(main, state)
        /\ w.ret \in {"newBackup", "front"} => w.limit = backup
      BY <1>1 DEF CountInv, Course
  <2>2. w.ba \in Nat /\ w'.ba \in Nat /\ main \in Blocks
      BY TypeFacts DEF Inv, TypeOK, ControlType, WriteRange
  <2>3. main < w'.ba
      BY <2>1, <2>2 DEF Cleans
  <2>4. Swept(main, state)'
      BY <2>1, <2>2 DEF Cleans, Worse, Swept, Gone
  <2>. QED BY <1>1, <2>1, <2>3, <2>4 DEF Course, Cleans
<1>. QED BY <1>3, <1>4, <1>5, <1>6 DEF CountInv

LEMMA CleanCounts ==
    ASSUME MarksWork, Inv, Inv', CountInv, CleanSteps
    PROVE  CountInv'
<1>. USE DEF Cleaning, InTable, NextBlock, Goto
<1>1. w \in WriteRange /\ w.ba \in Nat /\ state \in [Blocks -> States] /\ ChipType
    BY TypeFacts
<1>2. w.ba + 1 >= w.ba /\ w.ba >= w.ba
    BY <1>1
<1>3. Worse(state, state) /\ Worse(state, [state EXCEPT ![w.ba] = "bad"])
    BY <1>1 DEF Worse
<1>4. CASE CleanSkip
  <2>1. Live' = Live
      BY <1>4 DEF CleanSkip, Live
  <2>. QED BY <1>1, <1>2, <1>3, <1>4, <2>1, CleansKeeps DEF CleanSkip, Cleans, WriteRange
<1>5. CASE CleanFoundBad
  <2>1. w.ba \in marker /\ UNCHANGED <<content, marker>> /\ state' = [state EXCEPT ![w.ba] = "bad"]
      BY <1>5, MarksAreSeen DEF CleanFoundBad, SetState
  <2>2. Live' = Live /\ \A b \in Live' : content'[b] = content[b] /\ state'[b] = state[b]
      BY <1>1, <2>1 DEF Live
  <2>. QED BY <1>1, <1>2, <1>3, <1>5, <2>1, <2>2, CleansKeeps DEF CleanFoundBad, Cleans, WriteRange
<1>6. CASE CleanErase
  <2>1. w.ba \in Blocks
      BY <1>6, TypeFacts DEF CleanErase, Inv, Ranges, CleanInv
  <2>2. \A b \in Blocks : content'[b] = content[b] \/ content'[b].kind # "table"
      BY <1>1, <1>6, <2>1, ErasesAt DEF CleanErase, OnlyAt
  <2>3. UNCHANGED <<marker, state>>
      BY <1>6 DEF CleanErase, EraseOk, EraseFails
  <2>4. Live' \subseteq Live /\ \A b \in Live' : content'[b] = content[b] /\ state'[b] = state[b]
      BY <2>2, <2>3 DEF Live
  <2>. QED BY <1>1, <1>2, <1>3, <1>6, <2>3, <2>4, CleansKeeps DEF CleanErase, Cleans, WriteRange
<1>7. CASE CleanMark
  <2>1. /\ marker' = marker \cup {w.ba} /\ content' = [content EXCEPT ![w.ba] = Torn]
        /\ state' = [state EXCEPT ![w.ba] = "bad"]
      BY <1>7, MarksAreSeen DEF CleanMark, SetState
  <2>2. Live' \subseteq Live /\ \A b \in Live' : content'[b] = content[b] /\ state'[b] = state[b]
      BY <1>1, <2>1 DEF Live, ChipType
  <2>. QED BY <1>1, <1>2, <1>3, <1>7, <2>1, <2>2, CleansKeeps DEF CleanMark, Cleans, WriteRange
<1>. QED BY <1>4, <1>5, <1>6, <1>7 DEF CleanSteps

-----------------------------------------------------------------------------
(* The callers of nmbm_write_info_table *)

\* One table write has ended, and perhaps another begins.
HandsOver ==
    /\ Running /\ Running' /\ UNCHANGED <<content, marker, state, mapping, mapTop>>
    /\ pc \in Writing => pc = "written" \/ w.limit <= w.ba
    /\ pc' \in Writing =>
         /\ pc' = "table"
         /\ \/ pc \in Writing /\ UNCHANGED <<cache, writeCount>>
            \/ changed /\ GenerateCache
    /\ pc' \notin Writing => UNCHANGED writeCount

LEMMA HandsOverKeeps ==
    ASSUME NoneDisplaced, Inv, Inv', CountInv, HandsOver
    PROVE  Fit' /\ Lineage' /\ Findable' /\ Empty' /\ Known' /\ Cached' /\ Live' = Live
<1>1. Running /\ Running' /\ UNCHANGED <<content, marker, state, mapping, mapTop>>
    BY DEF HandsOver
<1>2. Live' = Live /\ \A b \in Live' : Image(b)' = Image(b)
    BY <1>1 DEF Live, Image
<1>3. writeCount \in Nat /\ writeCount <= writeCount' /\ mapTop' <= mapTop
  <2>1. GenerateCache => writeCount' \in {writeCount, writeCount + 1}
      BY DEF GenerateCache, NextCount
  <2>. QED BY <1>1, <2>1, TypeFacts DEF HandsOver
<1>4. ASSUME NEW b \in Live, Renewed(b)
      PROVE  \A l \in Logical : Image(b).mapping[l] \notin MgmtStart .. mapTop
  <2>1. pc = "written" /\ b = w.ba
      BY <1>4, TypeFacts DEF Renewed, HandsOver
  <2>2. Image(b) = cache /\ cache.mapping = mapping
      BY <2>1, NotTables DEF CountInv, Cached, Image, Writing
  <2>. QED BY <1>1, <2>2 DEF NoneDisplaced
<1>5. Loses
  <2>1. ASSUME NEW b \in Live'
        PROVE  /\ content'[b] = content[b] /\ state'[b] = "good" /\ b < mapTop'
               /\ Renewed(b) => \A l \in Logical : Image(b).mapping[l] \notin MgmtStart .. mapTop
      BY <1>1, <1>2, <1>4, <2>1 DEF CountInv, Known, Follows
  <2>2. Worse(state, state')
      BY <1>1 DEF Worse
  <2>. QED BY <1>1, <1>2, <1>3, <2>1, <2>2 DEF Loses
<1>6. Fit' /\ Lineage' /\ Findable' /\ Empty' /\ Known'
    BY <1>5, LosesKeeps
<1>7. Cached'
  <2>. SUFFICES ASSUME pc' \in Writing PROVE Cached'
      BY DEF Cached
  <2>1. pc' = "table"
      BY DEF HandsOver
  <2>2. CASE pc \in Writing /\ UNCHANGED <<cache, writeCount>>
      BY <1>1, <1>2, <2>1, <2>2 DEF CountInv, Cached
  <2>3. CASE changed /\ GenerateCache
    <3>1. /\ cache'.count = writeCount + 1 /\ writeCount' = writeCount + 1
          /\ cache'.state = state /\ cache'.mapping = mapping
        BY <2>3 DEF GenerateCache, NextCount
    <3>2. ASSUME NEW a \in Live
          PROVE  Image(a).count # writeCount + 1 /\ Worse(Image(a).state, state)
      <4>1. Follows(a) /\ Image(a).count \in Nat
          BY <1>1, TypeFacts, LiveIn DEF CountInv, Known
      <4>. QED BY <1>3, <4>1 DEF Follows
    <3>. QED BY <1>1, <1>2, <2>1, <3>1, <3>2 DEF Cached
  <2>. QED BY <2>2, <2>3 DEF HandsOver
<1>. QED BY <1>2, <1>6, <1>7

LEMMA SweptBelow ==
    ASSUME NEW n \in Int, NEW m \in Int, m <= n, NEW st, Swept(n, st)
    PROVE  Swept(m, st)
BY DEF Swept

\* What is known when a table write has ended, or found no block.
LEMMA WriteEnded ==
    ASSUME Inv, CountInv, pc \in Writing
    PROVE  /\ w.limit <= w.ba => Live \subseteq Standing
           /\ Live \subseteq Standing \cup {w.ba}
           /\ \A b \in Live : b \in Blocks /\ MgmtStart <= b /\ b < mapTop /\ b # NoBlock
           /\ \A n \in Int : n <= BlockCount /\ Swept(n, cache.state) => Swept(n, state)
<1>1. Live \subseteq Standing \cup {b \in {w.ba} : b < w.limit}
    BY DEF CountInv, Present
<1>2. w.limit <= w.ba => Live \subseteq Standing
    BY <1>1, TypeFacts
<1>3. ASSUME NEW b \in Live
      PROVE  b \in Blocks /\ MgmtStart <= b /\ b < mapTop /\ b # NoBlock
    BY <1>3, WriteFacts DEF CountInv, Fit, Known, Follows, Live
<1>4. ASSUME NEW n \in Int, n <= BlockCount, Swept(n, cache.state)
      PROVE  Swept(n, state)
    BY <1>4 DEF CountInv, Cached, Swept, Gone
<1>. QED BY <1>1, <1>2, <1>3, <1>4

LEMMA LiveAbove ==
    ASSUME CountInv, NEW b \in Live
    PROVE  b \in Blocks /\ MgmtStart <= b /\ b # NoBlock
BY DEF CountInv, Fit, Live

LEMMA RebuildCounts ==
    ASSUME NoneDisplaced, Inv, Inv', BackupBelow, CountInv, RebuildSteps
    PROVE  CountInv'
<1>. USE DEF Exhausted, Written, Cleaned, TableStart, TableEnd, WriteTable, CleanRange, RebuildDone, Goto
<1>1. CASE NewMainFails
  <2>1. /\ pc = "table" /\ w.ret = "newMain" /\ w.limit <= w.ba /\ pc \in Writing
        /\ UNCHANGED <<content, marker, state, mapping, mapTop, main, backup, mapBase, writeCount>>
      BY <1>1, TypeFacts DEF NewMainFails, Writing
  <2>2. Live = {} /\ main = NoBlock
      BY <2>1, WriteEnded DEF Standing, CountInv, Course
  <2>3. CASE pc' = "attachFails"
    <3>1. Live' = {} /\ pc' \notin Writing \cup Cleaning /\ ~Running'
        BY <2>1, <2>2, <2>3 DEF Live, Writing, Cleaning, Running
    <3>. QED BY <2>3, <3>1 DEF CountInv, Fit, Lineage, Findable, Empty, Placed, Known, Cached, Present, Course
  <2>4. CASE pc' # "attachFails"
    <3>1. pc' = after /\ after \in Returns \ {"none"}
        BY <1>1, <2>1, <2>4 DEF NewMainFails, UpdateFails, Inv, Ranges, AfterInv, UpdateCallers, TypeOK, ControlType
    <3>2. pc' \notin Writing \cup Cleaning /\ Running' /\ Running
        BY <2>1, <3>1 DEF Returns, Writing, Cleaning, Running
    <3>3. HandsOver
        BY <2>1, <3>2 DEF HandsOver
    <3>4. Fit' /\ Lineage' /\ Findable' /\ Empty' /\ Known' /\ Cached' /\ Live' = {}
        BY <2>2, <3>3, HandsOverKeeps
    <3>5. Placed' /\ Present' /\ Course'
        BY <2>1, <2>2, <3>2, <3>4 DEF CountInv, Placed, Present, Course, Swept
    <3>. QED BY <3>4, <3>5 DEF CountInv
  <2>. QED BY <2>3, <2>4
<1>2. CASE NewMainWritten
  <2>1. /\ pc = "written" /\ w.ret = "newMain" /\ pc \in Writing /\ main' = w.ba /\ mapBase' = w.ba + 1
        /\ UNCHANGED <<content, marker, state, mapping, mapTop, backup, writeCount, cache>>
        /\ backup = NoBlock /\ w.ba < w.limit
      BY <1>2 DEF NewMainWritten, Writing, BackupBelow, Inv, Ranges, WriteInv
  <2>2. Running /\ w.ba \in Blocks /\ w.ba < mapTop /\ MgmtStart <= w.ba /\ mapTop \in Blocks
      BY <2>1, TypeFacts, WriteFacts
  <2>3. Live \subseteq {w.ba}
      BY <2>1, WriteEnded DEF Standing
  <2>4. Swept(w.ba, cache.state) /\ Swept(w.ba, state)
      BY <2>1, <2>2, WriteEnded DEF CountInv, Course
  <2>5. CASE RebuildDone /\ UNCHANGED w
    <3>1. pc' \notin Writing \cup Cleaning /\ Running'
        BY <2>5 DEF Writing, Cleaning, Running
    <3>2. HandsOver
        BY <2>1, <2>2, <3>1 DEF HandsOver
    <3>3. Fit' /\ Lineage' /\ Findable' /\ Empty' /\ Known' /\ Cached' /\ Live' = Live
        BY <3>2, HandsOverKeeps
    <3>4. Placed' /\ Present'
        BY <2>1, <2>2, <2>3, <3>1, <3>3 DEF Placed, Present, Tables
    <3>5. Course'
        BY <2>1, <2>4, <3>1 DEF Course, Swept, Gone
    <3>. QED BY <3>3, <3>4, <3>5 DEF CountInv
  <2>6. ASSUME NEW b \in Reservable(TableEnd), WriteTable(b, mapTop, "newBackup")
        PROVE  CountInv'
    <3>1. b \in Blocks /\ w.ba + 1 <= b
      <4>1. w.ba + 1 \in Nat
          BY <2>2
      <4>. QED BY <4>1, TypeFacts, ReservableIn
    <3>2. pc' = "table" /\ w'.ba = b /\ w'.ret = "newBackup" /\ w'.limit = mapTop
          /\ pc' \in Writing /\ Running' /\ pc' \notin Cleaning
        BY <2>6 DEF Writing, Cleaning, Running
    <3>3. HandsOver
        BY <2>1, <2>2, <3>2 DEF HandsOver
    <3>4. Fit' /\ Lineage' /\ Findable' /\ Empty' /\ Known' /\ Cached' /\ Live' = Live
        BY <3>3, HandsOverKeeps
    <3>5. Placed'
        BY <2>1, <2>2 DEF Placed
    <3>6. Present'
        BY <2>1, <2>3, <3>2, <3>4 DEF Present, Standing
    <3>7. Course'
        BY <2>1, <2>2, <2>4, <3>1, <3>2 DEF Course, Swept, Gone
    <3>. QED BY <3>4, <3>5, <3>6, <3>7 DEF CountInv
  <2>. QED BY <1>2, <2>5, <2>6 DEF NewMainWritten
<1>3. CASE NewBackupFails
  <2>1. /\ pc = "table" /\ w.ret = "newBackup" /\ pc \in Writing /\ w.limit <= w.ba
        /\ UNCHANGED <<content, marker, state, mapping, mapTop, main, backup, mapBase, writeCount>>
        /\ pc' \notin Writing \cup Cleaning /\ Running /\ Running'
      BY <1>3, TypeFacts DEF NewBackupFails, Writing, Cleaning, Running
  <2>2. Live \subseteq {main} /\ (\A b \in Live : b # NoBlock)
      BY <2>1, WriteEnded DEF Standing
  <2>3. Swept(main, state)
      BY <2>1, TypeFacts, WriteEnded DEF CountInv, Course
  <2>4. HandsOver
      BY <2>1 DEF HandsOver
  <2>5. Fit' /\ Lineage' /\ Findable' /\ Empty' /\ Known' /\ Cached' /\ Live' = Live
      BY <2>4, HandsOverKeeps
  <2>6. Placed' /\ Present'
      BY <2>1, <2>2, <2>5 DEF CountInv, Placed, Present, Tables
  <2>7. Course'
      BY <2>1, <2>3 DEF Course, Swept, Gone
  <2>. QED BY <2>5, <2>6, <2>7 DEF CountInv
<1>4. CASE NewBackupWritten
  <2>1. /\ pc = "written" /\ w.ret = "newBackup" /\ pc \in Writing /\ backup' = w.ba /\ mapBase' = w.ba + 1
        /\ w'.ba = main + 1 /\ w'.limit = w.ba /\ w'.ret = "newBackup" /\ pc' = "clean"
        /\ UNCHANGED <<content, marker, state, mapping, mapTop, main, writeCount>>
        /\ pc' \notin Writing /\ pc' \in Cleaning /\ Running /\ Running' /\ w.ba < w.limit
      BY <1>4 DEF NewBackupWritten, Writing, Cleaning, Running, Inv, Ranges, WriteInv
  <2>2. w.ba \in Blocks /\ w.ba < mapTop /\ MgmtStart <= w.ba /\ mapTop \in Blocks /\ main \in Blocks
      BY <2>1, TypeFacts, WriteFacts
  <2>3. Live \subseteq {main, w.ba}
      BY <2>1, WriteEnded DEF Standing
  <2>4. Swept(main, state) /\ main < w.ba
      BY <2>1, <2>2, WriteEnded DEF CountInv, Course
  <2>5. HandsOver
      BY <2>1 DEF HandsOver
  <2>6. Fit' /\ Lineage' /\ Findable' /\ Empty' /\ Known' /\ Cached' /\ Live' = Live
      BY <2>5, HandsOverKeeps
  <2>7. Placed' /\ Present'
      BY <2>1, <2>2, <2>3, <2>4, <2>6 DEF Placed, Present
  <2>8. Course'
      BY <2>1, <2>2, <2>4 DEF Course, Swept, Gone
  <2>. QED BY <2>6, <2>7, <2>8 DEF CountInv
<1>5. CASE NewBackupCleaned
  <2>1. /\ pc = "clean" /\ w.ret = "newBackup" /\ pc \in Cleaning /\ pc \notin Writing
        /\ UNCHANGED <<content, marker, state, mapping, mapTop, main, backup, mapBase, writeCount>>
        /\ pc' \notin Writing \cup Cleaning /\ Running /\ Running'
      BY <1>5 DEF NewBackupCleaned, Writing, Cleaning, Running
  <2>2. Live \subseteq {main, backup} /\ (\A b \in Live : b # NoBlock) /\ Swept(main, state)
      BY <2>1, LiveAbove DEF CountInv, Present, Course
  <2>3. HandsOver
      BY <2>1 DEF HandsOver
  <2>4. Fit' /\ Lineage' /\ Findable' /\ Empty' /\ Known' /\ Cached' /\ Live' = Live
      BY <2>3, HandsOverKeeps
  <2>5. Placed' /\ Present'
      BY <2>1, <2>2, <2>4 DEF CountInv, Placed, Present, Tables
  <2>6. Course'
      BY <2>1, <2>2 DEF Course, Swept, Gone
  <2>. QED BY <2>4, <2>5, <2>6 DEF CountInv
<1>. QED BY <1>1, <1>2, <1>3, <1>4, <1>5 DEF RebuildSteps

LEMMA UpdateCounts ==
    ASSUME NoneDisplaced, Inv, Inv', BackupBelow, CountInv, UpdateSteps
    PROVE  CountInv'
<1>. USE DEF Exhausted, Written, TableStart, TableEnd, WriteTable, Goto
<1>0. \A b \in Live : b \in Blocks /\ MgmtStart <= b /\ b # NoBlock
    BY LiveAbove
<1>1. CASE UpdateDone
  <2>1. /\ pc = "update" /\ pc' = after /\ after \in Returns \ {"none"}
        /\ UNCHANGED <<content, marker, state, mapping, mapTop, main, backup, mapBase, writeCount>>
      BY <1>1 DEF UpdateDone, Inv, Ranges, AfterInv, TypeOK, ControlType
  <2>2. pc \notin Writing \cup Cleaning /\ pc' \notin Writing \cup Cleaning /\ Running /\ Running'
      BY <2>1 DEF Writing, Cleaning, Running, Returns
  <2>3. HandsOver
      BY <2>1, <2>2 DEF HandsOver
  <2>4. Fit' /\ Lineage' /\ Findable' /\ Empty' /\ Known' /\ Cached' /\ Live' = Live
      BY <2>3, HandsOverKeeps
  <2>5. Placed' /\ Present' /\ Course'
      BY <2>1, <2>2, <2>4 DEF CountInv, Placed, Present, Tables, Course, Swept, Gone
  <2>. QED BY <2>4, <2>5 DEF CountInv
<1>2. CASE UpdateStart
  <2>1. /\ pc = "update" /\ pc' = "table" /\ changed /\ GenerateCache
        /\ UNCHANGED <<content, marker, state, mapping, mapTop, main, backup, mapBase>>
        /\ w'.limit = mapTop /\ w'.ba = (IF backup # NoBlock THEN backup ELSE main)
        /\ w'.ret = (IF backup # NoBlock THEN "backup" ELSE "main")
        /\ cache'.state = state
      BY <1>2 DEF UpdateStart, GenerateCache
  <2>2. pc \notin Writing \cup Cleaning /\ pc' \in Writing /\ pc' \notin Cleaning /\ Running /\ Running'
      BY <2>1 DEF Writing, Cleaning, Running
  <2>3. Live \subseteq Tables /\ \A b \in Live : b < mapTop
      BY <2>2 DEF CountInv, Present, Known, Follows
  <2>4. Swept(main, state)
      BY <2>2 DEF CountInv, Course
  <2>5. HandsOver
      BY <2>1, <2>2 DEF HandsOver
  <2>6. Fit' /\ Lineage' /\ Findable' /\ Empty' /\ Known' /\ Cached' /\ Live' = Live
      BY <2>5, HandsOverKeeps
  <2>7. Placed'
      BY <2>1, <2>2 DEF CountInv, Placed
  <2>8. Present'
      BY <2>1, <2>2, <2>3, <2>6 DEF Present, Standing, Tables
  <2>9. Course'
      BY <2>1, <2>2, <2>4 DEF CountInv, Placed, Course, Swept, Gone
  <2>. QED BY <2>6, <2>7, <2>8, <2>9 DEF CountInv
<1>3. CASE BackupWritten
  <2>1. /\ pc = "written" /\ w.ret = "backup" /\ backup' = w.ba /\ mapBase' = w.ba + 1
        /\ w'.ba = main /\ w'.limit = w.ba /\ w'.ret = "main" /\ pc' = "table"
        /\ UNCHANGED <<content, marker, state, mapping, mapTop, main, writeCount, cache>>
      BY <1>3 DEF BackupWritten
  <2>2. pc \in Writing /\ pc' \in Writing /\ pc' \notin Cleaning /\ Running /\ Running' /\ w.ba < w.limit
      BY <2>1 DEF Writing, Cleaning, Running, Inv, Ranges, WriteInv
  <2>3. w.ba \in Blocks /\ w.ba < mapTop /\ mapTop \in Blocks /\ main \in Blocks
      BY <2>2, TypeFacts, WriteFacts
  <2>4. Live \subseteq {main, w.ba}
      BY <2>1, <2>2, WriteEnded DEF Standing
  <2>5. Swept(main, cache.state) /\ main < w.ba
      BY <2>1, <2>2 DEF CountInv, Course
  <2>6. HandsOver
      BY <2>1, <2>2 DEF HandsOver
  <2>7. Fit' /\ Lineage' /\ Findable' /\ Empty' /\ Known' /\ Cached' /\ Live' = Live
      BY <2>6, HandsOverKeeps
  <2>8. Placed'
      BY <2>1, <2>2, <2>3, <2>5 DEF Placed
  <2>9. Present'
      BY <2>1, <2>2, <2>4, <2>5, <2>7 DEF Present, Standing
  <2>10. Course'
      BY <2>1, <2>2, <2>5 DEF Course, Swept, Gone
  <2>. QED BY <2>7, <2>8, <2>9, <2>10 DEF CountInv
<1>4. CASE BackupFails
  <2>1. /\ pc = "table" /\ w.ret = "backup" /\ backup' = NoBlock /\ mapBase' = backup
        /\ w'.ba = main /\ w'.limit = mapTop /\ w'.ret = "main" /\ pc' = "table" /\ w.limit <= w.ba
        /\ UNCHANGED <<content, marker, state, mapping, mapTop, main, writeCount, cache>>
      BY <1>4, TypeFacts DEF BackupFails
  <2>2. pc \in Writing /\ pc' \in Writing /\ pc' \notin Cleaning /\ Running /\ Running' /\ backup # NoBlock
      BY <2>1 DEF Writing, Cleaning, Running, Inv, Ranges, WriteInv
  <2>3. Live \subseteq {main} /\ \A b \in Live : b < mapTop
      BY <2>1, <2>2, WriteEnded DEF Standing
  <2>4. Swept(main, cache.state)
      BY <2>1, <2>2 DEF CountInv, Course
  <2>5. HandsOver
      BY <2>1, <2>2 DEF HandsOver
  <2>6. Fit' /\ Lineage' /\ Findable' /\ Empty' /\ Known' /\ Cached' /\ Live' = Live
      BY <2>5, HandsOverKeeps
  <2>7. Placed'
    <3>1. backup < mapBase /\ mapBase <= mapTop /\ main < backup
        BY <2>1, <2>2 DEF BackupBelow, Stuck, CountInv, Placed
    <3>. QED BY <2>1, <2>2, <3>1, TypeFacts DEF Placed
  <2>8. Present'
      BY <2>1, <2>2, <2>3, <2>6 DEF Present, Standing
  <2>9. Course'
      BY <2>1, <2>2, <2>4 DEF Course, Swept, Gone
  <2>. QED BY <2>6, <2>7, <2>8, <2>9 DEF CountInv
<1>5. CASE MainWritten
  <2>1. /\ pc = "written" /\ w.ret = "main" /\ main' = w.ba
        /\ mapBase' = (IF backup = NoBlock THEN w.ba + 1 ELSE mapBase) /\ pc' = "update"
        /\ UNCHANGED <<content, marker, state, mapping, mapTop, backup, writeCount, cache>>
      BY <1>5 DEF MainWritten
  <2>2. pc \in Writing /\ pc' \notin Writing \cup Cleaning /\ Running /\ Running' /\ w.ba < w.limit
      BY <2>1 DEF Writing, Cleaning, Running, Inv, Ranges, WriteInv
  <2>3. w.ba \in Blocks /\ w.ba < mapTop /\ mapTop \in Blocks /\ backup \in Blocks /\ mapBase \in Blocks
      BY <2>2, TypeFacts, WriteFacts
  <2>4. Live \subseteq {backup, w.ba}
      BY <2>1, <2>2, WriteEnded DEF Standing
  <2>5. Swept(w.ba, state) /\ (backup # NoBlock => w.ba < backup)
      BY <2>1, <2>2, <2>3, WriteEnded DEF CountInv, Course
  <2>6. HandsOver
      BY <2>1, <2>2 DEF HandsOver
  <2>7. Fit' /\ Lineage' /\ Findable' /\ Empty' /\ Known' /\ Cached' /\ Live' = Live
      BY <2>6, HandsOverKeeps
  <2>8. Placed'
    <3>1. mapBase <= mapTop /\ (backup # NoBlock => backup < mapBase)
        BY <2>1, <2>2 DEF BackupBelow, Stuck, CountInv, Placed
    <3>. QED BY <2>1, <2>2, <2>3, <2>5, <3>1 DEF Placed
  <2>9. Present'
      BY <1>0, <2>1, <2>2, <2>4, <2>7 DEF Present, Tables
  <2>10. Course'
      BY <2>1, <2>2, <2>5 DEF Course, Swept, Gone
  <2>. QED BY <2>7, <2>8, <2>9, <2>10 DEF CountInv
<1>6. CASE MainFailsAlone
  <2>1. /\ pc = "table" /\ w.ret = "main" /\ backup = NoBlock /\ w.limit <= w.ba
        /\ main' = NoBlock /\ backup' = NoBlock /\ mapBase' = mapTop
        /\ w'.ba = MgmtStart /\ w'.limit = mapTop /\ w'.ret = "newMain" /\ pc' = "table"
        /\ UNCHANGED <<content, marker, state, mapping, mapTop, writeCount, cache>>
      BY <1>6, TypeFacts DEF MainFailsAlone, Rebuild
  <2>2. pc \in Writing /\ pc' \in Writing /\ pc' \notin Cleaning /\ Running /\ Running'
      BY <2>1 DEF Writing, Cleaning, Running
  <2>3. Live = {}
      BY <1>0, <2>1, <2>2, WriteEnded DEF Standing
  <2>4. mapTop \in Blocks /\ MgmtStart <= mapTop
      BY <2>2, TypeFacts DEF Inv, Ranges, LayoutInv
  <2>5. HandsOver
      BY <2>1, <2>2 DEF HandsOver
  <2>6. Fit' /\ Lineage' /\ Findable' /\ Empty' /\ Known' /\ Cached' /\ Live' = Live
      BY <2>5, HandsOverKeeps
  <2>7. Placed' /\ Present'
      BY <2>1, <2>2, <2>3, <2>4, <2>6 DEF Placed, Present
  <2>8. Course'
      BY <2>1, <2>2 DEF Course, Swept
  <2>. QED BY <2>6, <2>7, <2>8 DEF CountInv
<1>7. CASE MainFails \/ TempFails
  <2>1. /\ pc = "table" /\ w.ret \in {"main", "temp"} /\ backup # NoBlock /\ w.limit <= w.ba
        /\ UNCHANGED <<content, marker, state, mapping, mapTop, mapBase, writeCount, cache>>
        /\ pc \in Writing /\ Running
      BY <1>7, TypeFacts DEF MainFails, TempFails, Writing, Running, Inv, Ranges, WriteInv
  <2>2. Live \subseteq {backup}
      BY <2>1, WriteEnded DEF Standing
  <2>3. backup \in Blocks /\ mapBase \in Blocks /\ mapTop \in Blocks /\ backup < mapBase /\ mapBase <= mapTop
        /\ main < mapBase /\ main < backup
      BY <2>1, TypeFacts DEF BackupBelow, Stuck, CountInv, Placed
  <2>4. Swept(backup, cache.state)
    <3>1. CASE w.ret = "temp"
        BY <2>1, <3>1 DEF CountInv, Course
    <3>2. CASE w.ret = "main"
      <4>1. Swept(w.ba, cache.state) /\ backup <= w.ba
          BY <2>1, <3>2 DEF CountInv, Course
      <4>. QED BY <2>3, <4>1, TypeFacts, SweptBelow
    <3>. QED BY <2>1, <3>1, <3>2
  <2>5. Swept(backup, state)
      BY <2>1, <2>3, <2>4, WriteEnded
  <2>6. CASE BackupTakesOver
    <3>1. main' = backup /\ backup' = NoBlock /\ pc' \notin Writing \cup Cleaning /\ Running'
        BY <2>6 DEF BackupTakesOver, Writing, Cleaning, Running
    <3>2. HandsOver
        BY <2>1, <3>1 DEF HandsOver
    <3>3. Fit' /\ Lineage' /\ Findable' /\ Empty' /\ Known' /\ Cached' /\ Live' = Live
        BY <3>2, HandsOverKeeps
    <3>4. Placed' /\ Present'
        BY <1>0, <2>1, <2>2, <2>3, <3>1, <3>3 DEF Placed, Present, Tables
    <3>5. Course'
        BY <2>1, <2>5, <3>1 DEF Course, Swept, Gone
    <3>. QED BY <3>3, <3>4, <3>5 DEF CountInv
  <2>7. ASSUME UNCHANGED <<main, backup>>, NEW b, WriteTable(b, mapTop, "temp")
        PROVE  CountInv'
    <3>1. pc' = "table" /\ w'.ret = "temp" /\ pc' \in Writing /\ pc' \notin Cleaning /\ Running'
        BY <2>7 DEF Writing, Cleaning, Running
    <3>2. HandsOver
        BY <2>1, <3>1 DEF HandsOver
    <3>3. Fit' /\ Lineage' /\ Findable' /\ Empty' /\ Known' /\ Cached' /\ Live' = Live
        BY <3>2, HandsOverKeeps
    <3>4. Placed' /\ Present'
        BY <2>1, <2>2, <2>3, <2>7, <3>1, <3>3 DEF Placed, Present, Standing
    <3>5. Course'
        BY <2>1, <2>4, <2>7, <3>1 DEF Course, Swept, Gone
    <3>. QED BY <3>3, <3>4, <3>5 DEF CountInv
  <2>8. \/ BackupTakesOver
        \/ UNCHANGED <<main, backup>> /\ \E b : WriteTable(b, mapTop, "temp")
      BY <1>7 DEF MainFails, TempFails
  <2>. QED BY <2>6, <2>7, <2>8
<1>8. CASE TempWritten
  <2>1. /\ pc = "written" /\ w.ret = "temp" /\ mapBase' = w.ba + 1
        /\ w'.ba = MgmtStart /\ w'.limit = w.ba /\ w'.ret = "rescue" /\ pc' = "table"
        /\ UNCHANGED <<content, marker, state, mapping, mapTop, main, backup, writeCount, cache>>
      BY <1>8 DEF TempWritten
  <2>2. /\ pc \in Writing /\ pc' \in Writing /\ pc' \notin Cleaning /\ Running /\ Running'
        /\ backup # NoBlock /\ w.ba < w.limit
      BY <2>1 DEF Writing, Cleaning, Running, Inv, Ranges, WriteInv
  <2>3. w.ba \in Blocks /\ w.ba < mapTop /\ MgmtStart <= w.ba /\ backup \in Blocks /\ mapBase \in Blocks
        /\ mapTop \in Blocks /\ main \in Blocks
      BY <2>2, TypeFacts, WriteFacts
  <2>4. /\ Live \subseteq {backup, w.ba} /\ Swept(backup, cache.state)
        /\ backup < mapBase /\ mapBase <= w.ba /\ main < mapBase /\ main < backup
      BY <2>1, <2>2, WriteEnded DEF Standing, CountInv, Course, BackupBelow, Stuck, Placed
  <2>5. HandsOver
      BY <2>1, <2>2 DEF HandsOver
  <2>6. Fit' /\ Lineage' /\ Findable' /\ Empty' /\ Known' /\ Cached' /\ Live' = Live
      BY <2>5, HandsOverKeeps
  <2>7. Placed'
      BY <2>1, <2>2, <2>3, <2>4 DEF Placed
  <2>8. Present'
      BY <1>0, <2>1, <2>2, <2>4, <2>6 DEF Present, Standing
  <2>9. Course'
      BY <2>1, <2>2, <2>3, <2>4 DEF Course, Swept, Gone
  <2>. QED BY <2>6, <2>7, <2>8, <2>9 DEF CountInv
<1>9. CASE RescueEnds
  <2>1. /\ w.ret = "rescue" /\ pc \in {"written", "table"} /\ pc' = "update"
        /\ pc = "written" => main' = w.ba /\ backup' = w.limit
        /\ pc = "table" => main' = w.limit /\ backup' = NoBlock /\ w.limit <= w.ba
        /\ UNCHANGED <<content, marker, state, mapping, mapTop, mapBase, writeCount, cache>>
      BY <1>9, TypeFacts DEF RescueEnds
  <2>2. /\ pc \in Writing /\ pc' \notin Writing \cup Cleaning /\ Running /\ Running'
        /\ pc = "written" => w.ba < w.limit
      BY <2>1 DEF Writing, Cleaning, Running, Inv, Ranges, WriteInv
  <2>3. /\ w.ba \in Nat /\ w.limit \in Nat /\ MgmtStart <= w.ba /\ backup \in Blocks /\ mapBase \in Blocks
        /\ w.limit <= mapTop /\ mapTop \in Blocks /\ (w.ba < w.limit => w.ba \in Blocks)
      BY <2>2, TypeFacts, WriteFacts
  <2>4. /\ Swept(w.ba, cache.state) /\ Swept(backup, cache.state) /\ backup < w.limit
        /\ w.limit < mapBase /\ mapBase <= mapTop
      BY <2>1, <2>2 DEF CountInv, Course, BackupBelow, Stuck, Placed
  <2>5. \A b \in Live : b \in {w.limit, w.ba} \/ (b = backup /\ w.ba <= b)
      BY <2>1, <2>2, WriteEnded DEF Standing
  <2>6. CASE pc = "written"
    <3>1. state[w.ba] = "good" /\ w.ba \notin marker /\ w.ba \in Blocks
        BY <2>2, <2>3, <2>6 DEF CountInv, Cached
    <3>2. ~(w.ba < backup)
      <4>1. cache.state[w.ba] = "good"
          BY <2>2, <3>1 DEF CountInv, Cached
      <4>. QED BY <2>3, <2>4, <3>1, <4>1 DEF Swept, Gone
    <3>3. \A b \in Live : b \in {w.limit, w.ba}
        BY <2>3, <2>5, <3>2
    <3>4. main' = w.ba /\ backup' = w.limit
        BY <2>1, <2>6
    <3>5. HandsOver
        BY <2>1, <2>2, <2>6 DEF HandsOver
    <3>6. Fit' /\ Lineage' /\ Findable' /\ Empty' /\ Known' /\ Cached' /\ Live' = Live
        BY <3>5, HandsOverKeeps
    <3>7. Placed'
        BY <2>1, <2>2, <2>3, <2>4, <2>6, <3>4 DEF Placed
    <3>8. Present'
        BY <1>0, <2>2, <3>3, <3>4, <3>6 DEF Present, Tables
    <3>9. Swept(w.ba, state)
        BY <2>2, <2>3, <2>4, <3>1, WriteEnded
    <3>10. Course'
        BY <2>1, <2>2, <3>4, <3>9 DEF Course, Swept, Gone
    <3>. QED BY <3>6, <3>7, <3>8, <3>10 DEF CountInv
  <2>7. CASE pc = "table"
    <3>1. main' = w.limit /\ backup' = NoBlock /\ w.limit <= w.ba
        BY <2>1, <2>7
    <3>2. \A b \in Live : b = w.limit
      <4>1. Live \subseteq Standing
          BY <2>2, <3>1, WriteEnded
      <4>2. \A b \in Live : b = w.limit \/ (b = backup /\ w.ba <= b)
          BY <2>1, <4>1 DEF Standing
      <4>. QED BY <2>3, <2>4, <3>1, <4>2
    <3>3. HandsOver
        BY <2>1, <2>2, <2>7, <3>1 DEF HandsOver
    <3>4. Fit' /\ Lineage' /\ Findable' /\ Empty' /\ Known' /\ Cached' /\ Live' = Live
        BY <3>3, HandsOverKeeps
    <3>5. Placed'
        BY <2>1, <2>2, <2>4, <3>1 DEF Placed
    <3>6. Present'
        BY <1>0, <2>2, <3>1, <3>2, <3>4 DEF Present, Tables
    <3>7. Swept(w.limit, state)
      <4>1. w.limit \in Int /\ w.limit <= BlockCount
          BY <2>3
      <4>2. Swept(w.limit, cache.state)
          BY <2>3, <2>4, <3>1, SweptBelow
      <4>. QED BY <2>2, <4>1, <4>2, WriteEnded
    <3>8. Course'
        BY <2>1, <2>2, <3>1, <3>7 DEF Course, Swept, Gone
    <3>. QED BY <3>4, <3>5, <3>6, <3>8 DEF CountInv
  <2>. QED BY <2>1, <2>6, <2>7
<1>. QED BY <1>1, <1>2, <1>3, <1>4, <1>5, <1>6, <1>7, <1>8, <1>9 DEF UpdateSteps

LEMMA LoadCounts ==
    ASSUME NoneDisplaced, Inv, Inv', BackupBelow, CountInv, LoadSteps, pc # "off"
    PROVE  CountInv'
<1>. USE DEF Exhausted, Written, Cleaned, TableStart, TableEnd, WriteTable, CleanRange, Attached, Call, Goto
<1>0. \A b \in Live : b \in Blocks /\ MgmtStart <= b /\ b # NoBlock
    BY LiveAbove
<1>1. CASE LoadMainWritten
  <2>1. /\ pc = "written" /\ w.ret = "loadMain" /\ main' = w.ba /\ pc' = "idle"
        /\ UNCHANGED <<content, marker, state, mapping, mapTop, mapBase, backup, writeCount, cache>>
      BY <1>1 DEF LoadMainWritten
  <2>2. /\ pc \in Writing /\ pc' \notin Writing \cup Cleaning /\ Running /\ Running' /\ w.ba < w.limit
        /\ w.limit = backup
      BY <2>1 DEF Writing, Cleaning, Running, Inv, Ranges, WriteInv
  <2>3. w.ba \in Blocks /\ mapTop \in Blocks /\ backup \in Blocks /\ mapBase \in Blocks
      BY <2>2, TypeFacts, WriteFacts
  <2>4. Live \subseteq {backup, w.ba}
      BY <2>1, <2>2, WriteEnded DEF Standing
  <2>5. Swept(w.ba, state) /\ backup < mapBase /\ mapBase <= mapTop
      BY <2>1, <2>2, <2>3, WriteEnded DEF CountInv, Course, BackupBelow, Stuck, Placed
  <2>6. HandsOver
      BY <2>1, <2>2 DEF HandsOver
  <2>7. Fit' /\ Lineage' /\ Findable' /\ Empty' /\ Known' /\ Cached' /\ Live' = Live
      BY <2>6, HandsOverKeeps
  <2>8. Placed'
      BY <2>1, <2>2, <2>3, <2>5 DEF Placed
  <2>9. Present'
      BY <1>0, <2>1, <2>2, <2>4, <2>7 DEF Present, Tables
  <2>10. Course'
      BY <2>1, <2>2, <2>5 DEF Course, Swept, Gone
  <2>. QED BY <2>7, <2>8, <2>9, <2>10 DEF CountInv
<1>2. CASE LoadMainFails
  <2>1. /\ pc = "table" /\ w.ret = "loadMain" /\ w.limit <= w.ba /\ main' = backup /\ backup' = NoBlock
        /\ w'.ba = MgmtStart /\ w'.limit = backup /\ w'.ret = "front" /\ pc' = "table"
        /\ UNCHANGED <<content, marker, state, mapping, mapTop, mapBase, writeCount, cache>>
      BY <1>2, TypeFacts DEF LoadMainFails
  <2>2. pc \in Writing /\ pc' \in Writing /\ pc' \notin Cleaning /\ Running /\ Running'
      BY <2>1 DEF Writing, Cleaning, Running
  <2>3. Live \subseteq {backup} /\ (\A b \in Live : b < mapTop) /\ backup < mapBase /\ mapBase <= mapTop
      BY <2>1, <2>2, WriteEnded DEF Standing, BackupBelow, Stuck, CountInv, Placed
  <2>4. HandsOver
      BY <2>1, <2>2 DEF HandsOver
  <2>5. Fit' /\ Lineage' /\ Findable' /\ Empty' /\ Known' /\ Cached' /\ Live' = Live
      BY <2>4, HandsOverKeeps
  <2>6. Placed' /\ Present'
      BY <2>1, <2>2, <2>3, <2>5 DEF Placed, Present, Standing
  <2>7. Course'
      BY <2>1, <2>2 DEF Course, Swept
  <2>. QED BY <2>5, <2>6, <2>7 DEF CountInv
<1>3. CASE LoadBackupEnds
  <2>1. /\ w.ret = "loadBackup" /\ pc \in {"written", "table"} /\ pc' = "idle"
        /\ pc = "written" => backup' = w.ba /\ mapBase' = w.ba + 1
        /\ pc = "table" => backup' = NoBlock /\ mapBase' = backup /\ w.limit <= w.ba
        /\ UNCHANGED <<content, marker, state, mapping, mapTop, main, writeCount, cache>>
      BY <1>3, TypeFacts DEF LoadBackupEnds
  <2>2. /\ pc \in Writing /\ pc' \notin Writing \cup Cleaning /\ Running /\ Running' /\ backup # NoBlock
        /\ pc = "written" => w.ba < w.limit
      BY <2>1 DEF Writing, Cleaning, Running, Inv, Ranges, WriteInv
  <2>3. /\ mapTop \in Blocks /\ backup \in Blocks /\ mapBase \in Blocks /\ main \in Blocks
        /\ pc = "written" => w.ba \in Blocks /\ w.ba < mapTop
      BY <2>2, TypeFacts, WriteFacts
  <2>4. /\ pc = "written" => Live \subseteq {main, w.ba}
        /\ pc = "table" => Live \subseteq {main}
      BY <2>1, <2>2, WriteEnded DEF Standing
  <2>5. /\ Swept(main, state) /\ main < w.ba /\ main < backup /\ backup < mapBase /\ mapBase <= mapTop
      BY <2>1, <2>2, <2>3, WriteEnded DEF CountInv, Course, Placed
  <2>6. HandsOver
      BY <2>1, <2>2 DEF HandsOver
  <2>7. Fit' /\ Lineage' /\ Findable' /\ Empty' /\ Known' /\ Cached' /\ Live' = Live
      BY <2>6, HandsOverKeeps
  <2>8. Placed'
      BY <2>1, <2>2, <2>3, <2>5 DEF Placed
  <2>9. Present'
      BY <1>0, <2>1, <2>2, <2>4, <2>7 DEF Present, Tables
  <2>10. Course'
      BY <2>1, <2>2, <2>5 DEF Course, Swept, Gone
  <2>. QED BY <2>7, <2>8, <2>9, <2>10 DEF CountInv
<1>4. CASE FrontWritten
  <2>1. /\ pc = "written" /\ w.ret = "front" /\ main' = w.ba /\ backup' = main /\ pc' = "clean"
        /\ w'.ba = w.ba + 1 /\ w'.limit = main /\ w'.ret = "front"
        /\ UNCHANGED <<content, marker, state, mapping, mapTop, mapBase, writeCount, cache>>
      BY <1>4 DEF FrontWritten
  <2>2. /\ pc \in Writing /\ pc' \notin Writing /\ pc' \in Cleaning /\ Running /\ Running'
        /\ w.ba < w.limit /\ w.limit = main
      BY <2>1 DEF Writing, Cleaning, Running, Inv, Ranges, WriteInv
  <2>3. w.ba \in Blocks /\ mapTop \in Blocks /\ main \in Blocks /\ mapBase \in Blocks
      BY <2>2, TypeFacts, WriteFacts
  <2>4. Live \subseteq {main, w.ba}
      BY <2>1, <2>2, WriteEnded DEF Standing
  <2>5. Swept(w.ba, state) /\ main < mapBase /\ mapBase <= mapTop
      BY <2>1, <2>2, <2>3, WriteEnded DEF CountInv, Course, Placed
  <2>6. HandsOver
      BY <2>1, <2>2 DEF HandsOver
  <2>7. Fit' /\ Lineage' /\ Findable' /\ Empty' /\ Known' /\ Cached' /\ Live' = Live
      BY <2>6, HandsOverKeeps
  <2>8. Placed' /\ Present'
      BY <2>1, <2>2, <2>3, <2>4, <2>5, <2>7 DEF Placed, Present
  <2>9. Course'
      BY <2>1, <2>2, <2>3, <2>5 DEF Course, Swept, Gone
  <2>. QED BY <2>7, <2>8, <2>9 DEF CountInv
<1>5. CASE FrontCleaned
  <2>1. /\ pc = "clean" /\ w.ret = "front" /\ pc' = "idle"
        /\ UNCHANGED <<content, marker, state, mapping, mapTop, main, backup, mapBase, writeCount>>
      BY <1>5 DEF FrontCleaned
  <2>2. pc \in Cleaning /\ pc \notin Writing /\ pc' \notin Writing \cup Cleaning /\ Running /\ Running'
      BY <2>1 DEF Writing, Cleaning, Running
  <2>3. Live \subseteq {main, backup} /\ Swept(main, state)
      BY <2>1, <2>2 DEF CountInv, Present, Course
  <2>4. HandsOver
      BY <2>1, <2>2 DEF HandsOver
  <2>5. Fit' /\ Lineage' /\ Findable' /\ Empty' /\ Known' /\ Cached' /\ Live' = Live
      BY <2>4, HandsOverKeeps
  <2>6. Placed' /\ Present'
      BY <1>0, <2>1, <2>2, <2>3, <2>5 DEF CountInv, Placed, Present, Tables
  <2>7. Course'
      BY <2>1, <2>2, <2>3 DEF Course, Swept, Gone
  <2>. QED BY <2>5, <2>6, <2>7 DEF CountInv
<1>6. CASE FrontFails \/ NextFails
  <2>1. /\ pc = "table" /\ w.ret \in {"front", "next"} /\ w.limit <= w.ba
        /\ UNCHANGED <<content, marker, state, mapping, mapTop, mapBase, main, backup, writeCount, cache>>
      BY <1>6, TypeFacts DEF FrontFails, NextFails
  <2>2. pc \in Writing /\ Running /\ (w.ret = "front" => w.limit = main)
      BY <2>1 DEF Writing, Running, Inv, Ranges, WriteInv
  <2>3. mapTop \in Blocks /\ main \in Blocks /\ mapBase \in Blocks /\ w.from \in Nat /\ w.ba \in Nat
      BY TypeFacts
  <2>4. Live \subseteq {main} /\ main < mapBase /\ mapBase <= mapTop
      BY <2>1, <2>2, WriteEnded DEF Standing, CountInv, Placed
  <2>5. Swept(main, cache.state)
    <3>1. CASE w.ret = "next"
        BY <2>2, <3>1 DEF CountInv, Course
    <3>2. CASE w.ret = "front"
      <4>1. Swept(w.ba, cache.state) /\ main <= w.ba
          BY <2>1, <2>2, <3>2 DEF CountInv, Course
      <4>. QED BY <2>3, <4>1, SweptBelow
    <3>. QED BY <2>1, <3>1, <3>2
  <2>6. CASE pc' = "idle"
    <3>1. pc' \notin Writing \cup Cleaning /\ Running'
        BY <2>6 DEF Writing, Cleaning, Running
    <3>2. HandsOver
        BY <2>1, <2>2, <3>1 DEF HandsOver
    <3>3. Fit' /\ Lineage' /\ Findable' /\ Empty' /\ Known' /\ Cached' /\ Live' = Live
        BY <3>2, HandsOverKeeps
    <3>4. Placed' /\ Present'
        BY <1>0, <2>1, <2>2, <2>4, <3>1, <3>3 DEF CountInv, Placed, Present, Tables
    <3>5. Swept(main, state)
        BY <2>2, <2>3, <2>5, WriteEnded
    <3>6. Course'
        BY <2>1, <3>1, <3>5 DEF Course, Swept, Gone
    <3>. QED BY <3>3, <3>4, <3>6 DEF CountInv
  <2>7. ASSUME NEW b, WriteTable(b, mapTop, "next"), main < b
        PROVE  CountInv'
    <3>1. pc' = "table" /\ w'.ba = b /\ w'.ret = "next" /\ pc' \in Writing /\ pc' \notin Cleaning /\ Running'
        BY <2>7 DEF Writing, Cleaning, Running
    <3>2. HandsOver
        BY <2>1, <2>2, <3>1 DEF HandsOver
    <3>3. Fit' /\ Lineage' /\ Findable' /\ Empty' /\ Known' /\ Cached' /\ Live' = Live
        BY <3>2, HandsOverKeeps
    <3>4. Placed' /\ Present'
        BY <2>1, <2>2, <2>4, <3>1, <3>3 DEF CountInv, Placed, Present, Standing
    <3>5. Course'
        BY <2>1, <2>5, <2>7, <3>1 DEF Course, Swept, Gone
    <3>. QED BY <3>3, <3>4, <3>5 DEF CountInv
  <2>8. pc' = "idle" \/ \E b : WriteTable(b, mapTop, "next") /\ main < b
    <3>1. CASE FrontFails
      <4>1. ASSUME NEW b \in Reservable(mapBase)
            PROVE  main < b
        <5>1. b \in Blocks /\ mapBase <= b
            BY <2>3, <4>1, TypeFacts, ReservableIn
        <5>. QED BY <2>3, <2>4, <5>1
      <4>. QED BY <3>1, <4>1 DEF FrontFails
    <3>2. CASE NextFails
      <4>1. w.from > mapBase => main < w.from - 1
          BY <2>3, <2>4
      <4>. QED BY <3>2, <4>1 DEF NextFails
    <3>. QED BY <1>6, <3>1, <3>2
  <2>. QED BY <2>6, <2>7, <2>8
<1>7. CASE NextWritten
  <2>1. /\ pc = "written" /\ w.ret = "next" /\ pc' = "clean"
        /\ w'.ba = mapBase /\ w'.limit = w.ba /\ w'.ret = "next"
        /\ UNCHANGED <<content, marker, state, mapping, mapTop, main, backup, mapBase, writeCount, cache>>
      BY <1>7 DEF NextWritten
  <2>2. /\ pc \in Writing /\ pc' \notin Writing /\ pc' \in Cleaning /\ Running /\ Running'
      BY <2>1 DEF Writing, Cleaning, Running
  <2>3. Live \subseteq {main, w.ba}
      BY <2>1, <2>2, WriteEnded DEF Standing
  <2>4. Swept(main, state) /\ main < w.ba /\ main < mapBase
      BY <2>1, <2>2, TypeFacts, WriteEnded DEF CountInv, Course, Placed
  <2>5. HandsOver
      BY <2>1, <2>2 DEF HandsOver
  <2>6. Fit' /\ Lineage' /\ Findable' /\ Empty' /\ Known' /\ Cached' /\ Live' = Live
      BY <2>5, HandsOverKeeps
  <2>7. Placed' /\ Present'
      BY <2>1, <2>2, <2>3, <2>6 DEF CountInv, Placed, Present
  <2>8. Course'
      BY <2>1, <2>2, <2>4 DEF Course, Swept, Gone
  <2>. QED BY <2>6, <2>7, <2>8 DEF CountInv
<1>8. CASE NextCleaned
  <2>1. /\ pc = "clean" /\ w.ret = "next" /\ pc' = "idle" /\ backup' = w.limit /\ mapBase' = w.limit + 1
        /\ UNCHANGED <<content, marker, state, mapping, mapTop, main, writeCount>>
      BY <1>8 DEF NextCleaned
  <2>2. /\ pc \in Cleaning /\ pc \notin Writing /\ pc' \notin Writing \cup Cleaning /\ Running /\ Running'
        /\ w.limit < mapTop
      BY <2>1 DEF Writing, Cleaning, Running, Inv, Ranges, CleanInv
  <2>3. w.limit \in Nat /\ mapTop \in Blocks /\ main \in Blocks
      BY TypeFacts
  <2>4. Live \subseteq {main, w.limit} /\ Swept(main, state) /\ main < w.limit
      BY <2>1, <2>2 DEF CountInv, Present, Course
  <2>5. HandsOver
      BY <2>1, <2>2 DEF HandsOver
  <2>6. Fit' /\ Lineage' /\ Findable' /\ Empty' /\ Known' /\ Cached' /\ Live' = Live
      BY <2>5, HandsOverKeeps
  <2>7. Placed' /\ Present'
      BY <1>0, <2>1, <2>2, <2>3, <2>4, <2>6 DEF Placed, Present, Tables
  <2>8. Course'
      BY <2>1, <2>2, <2>4 DEF Course, Swept, Gone
  <2>. QED BY <2>6, <2>7, <2>8 DEF CountInv
<1>9. ~AttachOneTable /\ ~AttachTwoTables
    BY DEF AttachOneTable, AttachTwoTables
<1>. QED BY <1>1, <1>2, <1>3, <1>4, <1>5, <1>6, <1>7, <1>8, <1>9 DEF LoadSteps

-----------------------------------------------------------------------------
(* Attaches *)

\* An attach finds every table.
LEMMA LiveLoadable ==
    ASSUME ApartInv, CountInv, pc = "off", NEW sig \in Blocks, SignatureAt(sig),
           NEW b \in Live, NEW from \in Nat, from <= b, NEW st, st[b] = "good"
    PROVE  b \in Loadables(from, st, sig)
<1>1. b \in Blocks /\ b \notin marker /\ content[b].kind = "table" /\ MgmtStart <= b
    BY LiveAbove DEF Live
<1>2. b < sig - 1
    BY <1>1 DEF CountInv, Findable
<1>3. Image(b).state[b] = "good" /\ \A l \in Logical : Image(b).mapping[l] \notin MgmtStart .. b + 1
    BY DEF CountInv, Fit
<1>4. Image(b).mapping \in Mappings
    BY LiveIn DEF ApartInv, Inv, TypeOK
<1>5. \A l \in Logical : MgmtStart <= Image(b).mapping[l] => Image(b).mapping[l] < sig
    BY <1>1 DEF ApartInv, TablesSound, Sound, Image
<1>6. MgmtStart <= sig
    BY DEF SignatureAt
<1>7. ASSUME NEW l \in Logical
      PROVE  Image(b).mapping[l] \notin (MgmtStart .. b) \cup {sig}
    BY <1>1, <1>3, <1>4, <1>5, <1>6, <1>7, MappedInt
<1>8. Accepted(content[b].image, b, sig)
    BY <1>3, <1>7 DEF Accepted, Image
<1>. QED BY <1>1, <1>2, <1>8 DEF Loadables, Loadable

\* The spare blocks begin above the tables, and none in use lies below their top.
LEMMA TopFree ==
    ASSUME NEW image \in Images, NEW b \in Blocks, NEW c \in Blocks, MgmtStart <= b, b <= c,
           NEW sig \in Blocks, c < sig - 1,
           \A l \in Logical : image.mapping[l] \notin MgmtStart .. c + 1,
           NEW t \in TopBelow(image, b, sig)
    PROVE  t \in Blocks /\ c < t /\ \A l \in Logical : image.mapping[l] \notin MgmtStart .. t
<1>1. t \in Blocks /\ b <= t /\ t < sig
    BY TopBelowIn
<1>2. c < t
  <2>1. CASE t = sig - 1
      BY <2>1
  <2>2. ASSUME NEW l \in Logical, image.mapping[l] = t + 1
        PROVE  c < t
    <3>1. t + 1 \notin MgmtStart .. c + 1
        BY <2>2
    <3>. QED BY <1>1, <3>1
  <2>. QED BY <2>1, <2>2 DEF TopBelow
<1>3. ASSUME NEW l \in Logical
      PROVE  image.mapping[l] \notin MgmtStart .. t
  <2>1. image.mapping \in Mappings /\ image.mapping[l] \in Int
      BY MappedInt DEF Images
  <2>2. image.mapping[l] \notin b + 1 .. t /\ image.mapping[l] \notin MgmtStart .. c + 1
      BY DEF TopBelow
  <2>. QED BY <1>1, <1>2, <2>1, <2>2
<1>. QED BY <1>1, <1>2, <1>3

\* What an attach takes from a table.
LEMMA LoadedCount ==
    ASSUME NEW image \in Images, NEW st, NEW dirty, st # image.state => dirty,
           LoadInto(image, st, dirty)
    PROVE  /\ state' = st /\ mapping' = image.mapping
           /\ cache'.count = writeCount' /\ cache'.state = st /\ cache'.mapping = mapping'
           /\ image.count <= writeCount' /\ writeCount' \in Nat
           /\ image.count = writeCount' => cache' = image
<1>1. image.count \in Nat
    BY DEF Images
<1>2. ASSUME image.count = writeCount'
      PROVE  cache' = image
  <2>1. ~dirty /\ st = image.state
      BY <1>1, <1>2 DEF LoadInto
  <2>2. cache' = [count |-> image.count, state |-> image.state, mapping |-> image.mapping]
      BY <2>1 DEF LoadInto
  <2>. QED BY <2>2 DEF Images
<1>. QED BY <1>1, <1>2 DEF LoadInto

LEMMA ChipCounts ==
    ASSUME CountInv, UNCHANGED <<content, marker>>
    PROVE  Fit' /\ Lineage' /\ Live' = Live /\ \A b : Image(b)' = Image(b)
BY DEF CountInv, Fit, Lineage, Swept, Gone, Live, Image

LEMMA AttachOneCounts ==
    ASSUME ApartInv, CountInv, AttachOneTable
    PROVE  CountInv'
<1>1. PICK sig \in Blocks, f \in Blocks : LoadOne(sig, f)
    BY DEF AttachOneTable
<1>. DEFINE image == content[f].image
            st    == Passed(image.state, f + 1, sig - 2)
            dirty == st # image.state \/ \E b \in MgmtStart .. f - 1 : Unreadable(b)
<1>2. /\ pc = "off" /\ UNCHANGED <<content, marker>>
      /\ SignatureAt(sig) /\ FirstTable(f, sig) /\ Loadables(f + 1, image.state, sig) = {}
      /\ LoadInto(image, st, dirty) /\ mapTop' \in TopBelow(image, f, sig)
      /\ main' = f /\ backup' = NoBlock /\ mapBase' = f + 1
      /\ pc' = "table" /\ w'.ba = MgmtStart /\ w'.limit = f /\ w'.ret = "front"
    BY <1>1 DEF AttachOneTable, LoadOne, WriteTable, Goto
<1>3. f \in Loadables(MgmtStart, NoImage.state, sig) /\ f \in Live /\ image = Image(f)
    BY <1>2 DEF FirstTable, Loadables, Loadable, Live, Image
<1>4. /\ image \in Images /\ image.state \in [Blocks -> States] /\ image.state[f] = "good"
      /\ MgmtStart <= f /\ f < sig - 1
      /\ \A l \in Logical : image.mapping[l] \notin MgmtStart .. f + 1
    BY <1>2, <1>3, LiveIn DEF ApartInv, Inv, TypeOK, CountInv, Fit, Findable
<1>5. Live = {f}
  <2>. SUFFICES ASSUME NEW b \in Live, b # f PROVE FALSE
      BY <1>3
  <2>1. b \in Blocks /\ MgmtStart <= b /\ NoImage.state[b] = "good"
      BY LiveAbove DEF NoImage
  <2>2. b \in Loadables(MgmtStart, NoImage.state, sig)
      BY <1>2, <2>1, LiveLoadable
  <2>3. f + 1 <= b /\ f + 1 \in Nat
      BY <1>2, <2>1, <2>2 DEF FirstTable
  <2>4. image.state[b] = "good"
      BY <1>3 DEF CountInv, Fit
  <2>5. b \in Loadables(f + 1, image.state, sig)
      BY <1>2, <2>3, <2>4, LiveLoadable
  <2>. QED BY <1>2, <2>5
<1>6. mapTop' \in Blocks /\ f < mapTop' /\ \A l \in Logical : image.mapping[l] \notin MgmtStart .. mapTop'
  <2>1. f <= f /\ mapTop' \in TopBelow(image, f, sig)
      BY <1>2
  <2>. HIDE DEF image
  <2>. QED BY <1>4, <2>1, TopFree
<1>7. Worse(image.state, st) /\ st[f] = "good"
  <2>1. f \notin f + 1 .. sig - 2
      OBVIOUS
  <2>. QED BY <1>4, <2>1, PassedWorse DEF Passed
<1>8. /\ state' = st /\ mapping' = image.mapping
      /\ cache'.count = writeCount' /\ cache'.state = st /\ cache'.mapping = mapping'
      /\ image.count <= writeCount' /\ writeCount' \in Nat
      /\ image.count = writeCount' => cache' = image
    BY <1>2, <1>4, LoadedCount
<1>9. Fit' /\ Lineage' /\ Live' = {f} /\ \A b : Image(b)' = Image(b)
    BY <1>2, <1>5, ChipCounts
<1>. HIDE DEF st, dirty, image
<1>10. pc' \in Writing /\ pc' \notin Cleaning /\ Running'
    BY <1>2 DEF Writing, Cleaning, Running
<1>11. Findable' /\ Empty'
    BY <1>2 DEF Findable, Empty, Starting
<1>12. Placed'
    BY <1>2, <1>6 DEF Placed
<1>13. Known'
    BY <1>3, <1>6, <1>7, <1>8, <1>9 DEF Known, Follows
<1>14. Cached'
    BY <1>2, <1>3, <1>7, <1>8, <1>9 DEF Cached
<1>15. Present'
    BY <1>2, <1>9, <1>10 DEF Present, Standing
<1>16. Course'
    BY <1>2, <1>10 DEF Course, Swept
<1>. QED BY <1>9, <1>11, <1>12, <1>13, <1>14, <1>15, <1>16 DEF CountInv

LEMMA AttachTwoCounts ==
    ASSUME ApartInv, CountInv, AttachTwoTables
    PROVE  CountInv'
<1>1. PICK sig \in Blocks, f \in Blocks, g \in Blocks : LoadTwo(sig, f, g)
    BY DEF AttachTwoTables
<1>. DEFINE one    == content[f].image
            two    == content[g].image
            passed == Passed(one.state, f + 1, g - 1)
            dirty  == passed # one.state \/ \E b \in MgmtStart .. f - 1 : Unreadable(b)
<1>2. /\ pc = "off" /\ UNCHANGED <<content, marker>>
      /\ SignatureAt(sig) /\ FirstTable(f, sig) /\ SecondTable(f, g, sig)
      /\ main' = f /\ backup' = g /\ mapBase' = g + 1
    BY <1>1 DEF AttachTwoTables, LoadTwo
<1>3. /\ f \in Loadables(MgmtStart, NoImage.state, sig) /\ f \in Live /\ one = Image(f)
      /\ g \in Loadables(f + 1, one.state, sig) /\ g \in Live /\ two = Image(g)
    BY <1>2 DEF FirstTable, SecondTable, Loadables, Loadable, Live, Image
<1>4. f + 1 \in Nat /\ f + 1 <= g
    BY <1>3 DEF Loadables
<1>5. /\ one \in Images /\ two \in Images /\ one.state \in [Blocks -> States] /\ two.state \in [Blocks -> States]
      /\ one.count \in Nat /\ two.count \in Nat
    BY <1>3, LiveIn DEF ApartInv, Inv, TypeOK
<1>6. /\ one.state[f] = "good" /\ one.state[g] = "good" /\ two.state[f] = "good" /\ two.state[g] = "good"
      /\ MgmtStart <= f /\ f < g /\ g < sig - 1
      /\ \A l \in Logical : one.mapping[l] \notin MgmtStart .. g + 1
      /\ \A l \in Logical : two.mapping[l] \notin MgmtStart .. g + 1
    BY <1>2, <1>3, <1>4 DEF CountInv, Fit, Findable
<1>7. /\ one.count <= two.count => Worse(one.state, two.state)
      /\ two.count <= one.count => Worse(two.state, one.state)
      /\ one.count = two.count => one = two
      /\ Swept(f, one.state) \/ Swept(f, two.state)
    BY <1>3, <1>6 DEF CountInv, Lineage
<1>8. Live = {f, g}
  <2>. SUFFICES ASSUME NEW b \in Live, b # f PROVE b = g
      BY <1>3
  <2>1. PICK x \in Blocks, y \in Blocks : Live \subseteq {x, y}
      BY <1>2 DEF CountInv, Findable
  <2>. QED BY <1>3, <1>6, <2>1
<1>9. Fit' /\ Lineage' /\ Live' = {f, g} /\ \A b : Image(b)' = Image(b)
    BY <1>2, <1>8, ChipCounts
<1>10. Worse(one.state, passed) /\ passed[f] = "good" /\ passed[g] = "good"
  <2>1. f \notin f + 1 .. g - 1 /\ g \notin f + 1 .. g - 1
      OBVIOUS
  <2>. QED BY <1>5, <1>6, <2>1, PassedWorse, ZenonT(60) DEF Passed
<1>11. mapTop' \in IF one.count >= two.count THEN TopBelow(one, f, sig)
                                            ELSE TopBelow(two, g, sig)
    BY <1>1 DEF LoadTwo
<1>12. /\ mapTop' \in Blocks /\ g < mapTop'
       /\ one.count >= two.count => \A l \in Logical : one.mapping[l] \notin MgmtStart .. mapTop'
       /\ ~(one.count >= two.count) => \A l \in Logical : two.mapping[l] \notin MgmtStart .. mapTop'
  <2>1. CASE one.count >= two.count
    <3>1. mapTop' \in TopBelow(one, f, sig)
        BY <1>11, <2>1
    <3>2. f <= g /\ g < sig - 1
        BY <1>6
    <3>. HIDE DEF one, two
    <3>. QED BY <1>5, <1>6, <2>1, <3>1, <3>2, TopFree
  <2>2. CASE ~(one.count >= two.count)
    <3>1. mapTop' \in TopBelow(two, g, sig)
        BY <1>11, <2>2
    <3>2. MgmtStart <= g /\ g <= g /\ g < sig - 1
        BY <1>6
    <3>. HIDE DEF one, two
    <3>. QED BY <1>5, <1>6, <2>2, <3>1, <3>2, TopFree
  <2>. QED BY <2>1, <2>2
<1>13. IF two.count > one.count THEN LoadInto(two, two.state, dirty) ELSE LoadInto(one, passed, dirty)
    BY <1>1 DEF LoadTwo, Newer
<1>14. /\ two.count > one.count =>
             /\ state' = two.state /\ mapping' = two.mapping
             /\ cache'.count = writeCount' /\ cache'.state = two.state /\ cache'.mapping = mapping'
             /\ two.count <= writeCount' /\ writeCount' \in Nat
             /\ two.count = writeCount' => cache' = two
       /\ ~(two.count > one.count) =>
             /\ state' = passed /\ mapping' = one.mapping
             /\ cache'.count = writeCount' /\ cache'.state = passed /\ cache'.mapping = mapping'
             /\ one.count <= writeCount' /\ writeCount' \in Nat
             /\ one.count = writeCount' => cache' = one
  <2>1. passed # one.state => dirty
      OBVIOUS
  <2>. HIDE DEF dirty, passed, one, two
  <2>2. CASE two.count > one.count
      BY <1>5, <1>13, <2>2, LoadedCount
  <2>3. CASE ~(two.count > one.count)
      BY <1>5, <1>13, <2>1, <2>3, LoadedCount
  <2>. QED BY <2>2, <2>3
<1>15. \/ one.count = two.count /\ pc' = "idle"
       \/ /\ one.count < two.count /\ pc' = "table"
          /\ w'.ret = "loadMain" /\ w'.ba = f /\ w'.limit = g
       \/ /\ one.count > two.count /\ pc' = "table"
          /\ w'.ret = "loadBackup" /\ w'.ba = g /\ w'.limit = mapTop'
    BY <1>1 DEF LoadTwo, Attached, Call, Goto, WriteTable
<1>. HIDE DEF dirty, passed, one, two
<1>16. Running' /\ Findable' /\ Empty' /\ pc' \notin Cleaning
    BY <1>15 DEF Running, Findable, Empty, Starting, Cleaning
<1>17. Placed'
    BY <1>2, <1>6, <1>12 DEF Placed
<1>18. f # NoBlock /\ g # NoBlock
    BY <1>6
<1>19. CASE one.count = two.count
  <2>1. pc' = "idle" /\ pc' \notin Writing /\ ~(two.count > one.count) /\ one.count >= two.count
      BY <1>5, <1>15, <1>19 DEF Writing
  <2>2. Known'
      BY <1>3, <1>6, <1>7, <1>9, <1>10, <1>12, <1>14, <1>19, <2>1 DEF Known, Follows
  <2>3. Cached' /\ Present'
      BY <1>2, <1>9, <1>16, <1>18, <2>1 DEF Cached, Present, Tables
  <2>4. Swept(f, passed)
    <3>1. Swept(f, one.state)
        BY <1>7, <1>19
    <3>. QED BY <1>10, <3>1 DEF Swept, Gone, Worse
  <2>5. Course'
      BY <1>2, <1>14, <1>16, <2>1, <2>4 DEF Course, Swept, Gone
  <2>. QED BY <1>9, <1>16, <1>17, <2>2, <2>3, <2>5 DEF CountInv
<1>20. CASE one.count < two.count
  <2>1. /\ pc' = "table" /\ w'.ret = "loadMain" /\ w'.ba = f /\ w'.limit = g /\ pc' \in Writing
        /\ two.count > one.count /\ ~(one.count >= two.count) /\ Worse(one.state, two.state)
      BY <1>5, <1>7, <1>15, <1>20 DEF Writing
  <2>2. Follows(f)' /\ Follows(g)'
    <3>1. f < mapTop' /\ one.count <= writeCount'
        BY <1>5, <1>6, <1>12, <1>14, <1>20
    <3>2. Renewed(f)'
        BY <1>6, <2>1 DEF Renewed
    <3>3. Worse(two.state, two.state)
        BY DEF Worse
    <3>. QED BY <1>3, <1>6, <1>9, <1>12, <1>14, <2>1, <3>1, <3>2, <3>3 DEF Follows
  <2>3. Known'
      BY <1>9, <2>2 DEF Known
  <2>4. Cached'
    <3>1. one.count # writeCount'
        BY <1>5, <1>14, <1>20
    <3>2. Worse(two.state, two.state)
        BY DEF Worse
    <3>. QED BY <1>3, <1>9, <1>14, <2>1, <3>1, <3>2 DEF Cached
  <2>5. Present'
      BY <1>2, <1>6, <1>9, <1>16, <2>1 DEF Present, Standing
  <2>6. Swept(f, two.state)
      BY <1>7, <2>1 DEF Swept, Gone, Worse
  <2>7. Course'
      BY <1>2, <1>14, <1>16, <2>1, <2>6 DEF Course, Swept, Gone
  <2>. QED BY <1>9, <1>16, <1>17, <2>3, <2>4, <2>5, <2>7 DEF CountInv
<1>21. CASE one.count > two.count
  <2>1. /\ pc' = "table" /\ w'.ret = "loadBackup" /\ w'.ba = g /\ w'.limit = mapTop' /\ pc' \in Writing
        /\ ~(two.count > one.count) /\ one.count >= two.count /\ Worse(two.state, one.state)
      BY <1>5, <1>7, <1>15, <1>21 DEF Writing
  <2>2. Worse(two.state, passed)
      BY <1>10, <2>1, WorseWorse
  <2>3. Follows(f)' /\ Follows(g)'
    <3>1. f < mapTop' /\ two.count <= writeCount'
        BY <1>5, <1>6, <1>12, <1>14, <1>21
    <3>2. Renewed(g)'
        BY <1>12, <2>1 DEF Renewed
    <3>. QED BY <1>3, <1>9, <1>10, <1>12, <1>14, <2>1, <2>2, <3>1, <3>2 DEF Follows
  <2>4. Known'
      BY <1>9, <2>3 DEF Known
  <2>5. Cached'
    <3>1. two.count # writeCount'
        BY <1>5, <1>14, <1>21
    <3>. QED BY <1>3, <1>9, <1>10, <1>14, <2>1, <2>2, <3>1 DEF Cached
  <2>6. Present'
      BY <1>2, <1>9, <1>12, <1>16, <2>1 DEF Present, Standing
  <2>7. Swept(f, passed)
      BY <1>7, <1>10, <2>2 DEF Swept, Gone, Worse
  <2>8. Course'
      BY <1>2, <1>6, <1>14, <1>16, <2>1, <2>7 DEF Course, Swept, Gone
  <2>. QED BY <1>9, <1>16, <1>17, <2>4, <2>5, <2>6, <2>8 DEF CountInv
<1>. QED BY <1>5, <1>19, <1>20, <1>21

-----------------------------------------------------------------------------
(* A chip without tables *)

LEMMA NoTablesCount ==
    ASSUME Live' = {}, ~Running'
    PROVE  CountInv'
<1>1. pc' \notin Writing \cup Cleaning
    BY DEF Running, Writing, Cleaning
<1>2. Blocks # {}
    BY 0 \in Blocks
<1>. QED BY <1>1, <1>2 DEF CountInv, Fit, Lineage, Findable, Empty, Placed, Known, Cached, Present, Course

LEMMA SignCounts ==
    ASSUME ApartInv, Inv', ApartInv', SignSkip \/ SignFoundBad \/ SignErase \/ SignProgram \/ SignMark \/ SignFails
    PROVE  CountInv'
<1>. USE DEF ApartInv, Inv, TypeOK
<1>1. pc \in Starting /\ pc' \in Starting \cup {"create", "attachFails"}
    BY DEF SignSkip, SignFoundBad, SignErase, SignProgram, SignMark, SignFails, InSign, Starting, Goto
<1>2. \A b \in Blocks : content[b].kind # "table"
    BY <1>1 DEF Fresh
<1>3. CASE pc' \in Starting
  <2>1. \A b \in Blocks : content'[b].kind # "table"
      BY <1>3 DEF Fresh
  <2>2. Live' = {} /\ ~Running'
      BY <1>3, <2>1 DEF Live, Running, Starting
  <2>. QED BY <2>2, NoTablesCount
<1>4. CASE pc' \notin Starting
  <2>1. SignProgram \/ SignFails
      BY <1>4 DEF SignSkip, SignFoundBad, SignErase, SignMark, InSign, Starting, Goto
  <2>2. w.ba \in Blocks
      BY <1>1 DEF Ranges, SignInv, Starting
  <2>3. \A b \in Blocks : content'[b].kind # "table"
    <3>1. CASE SignProgram
      <4>1. OnlyAt(w.ba) /\ (content'[w.ba] = Signature \/ content'[w.ba].kind # "table")
          BY <2>2, <3>1, ProgramsAt DEF SignProgram
      <4>. QED BY <1>2, <4>1, NotTables DEF OnlyAt
    <3>2. CASE SignFails
        BY <1>2, <3>2 DEF SignFails
    <3>. QED BY <2>1, <3>1, <3>2
  <2>4. Live' = {} /\ ~Running'
      BY <1>1, <2>3 DEF Live, Running, Starting
  <2>. QED BY <2>4, NoTablesCount
<1>. QED BY <1>3, <1>4

LEMMA AttachNothingCounts ==
    ASSUME ApartInv, CountInv, AttachNew \/ AttachWithoutTables
    PROVE  CountInv'
<1>1. Live' = Live
    BY DEF AttachNew, AttachWithoutTables, Live
<1>2. Live = {}
  <2>. SUFFICES ASSUME NEW b \in Live PROVE FALSE
      OBVIOUS
  <2>1. b \in Blocks /\ content[b].kind = "table" /\ MgmtStart <= b /\ MgmtStart \in Nat /\ pc = "off"
      BY LiveAbove DEF Live, AttachNew, AttachWithoutTables
  <2>2. CASE AttachNew
    <3>1. \E s \in Blocks : Signs(s)
        BY <2>1 DEF ApartInv, TablesSound
    <3>. QED BY <2>2, <3>1, HighestSignature DEF AttachNew
  <2>3. CASE AttachWithoutTables
    <3>1. PICK sig \in Blocks : SignatureAt(sig) /\ Loadables(MgmtStart, NoImage.state, sig) = {}
        BY <2>3 DEF AttachWithoutTables
    <3>2. NoImage.state[b] = "good"
        BY <2>1 DEF NoImage
    <3>. QED BY <2>1, <3>1, <3>2, LiveLoadable
  <2>. QED BY <2>2, <2>3
<1>3. ~Running'
    BY DEF AttachNew, AttachWithoutTables, Running, Goto
<1>. QED BY <1>1, <1>2, <1>3, NoTablesCount

LEMMA CreateTablesCounts ==
    ASSUME Inv, CountInv, CreateTables
    PROVE  CountInv'
<1>1. pc = "create" /\ UNCHANGED <<content, marker, state, mapping>>
    BY DEF CreateTables
<1>2. Live' = {}
    BY <1>1 DEF CountInv, Empty, Live
<1>3. CASE pc' = "attachFails"
    BY <1>2, <1>3, NoTablesCount DEF Running
<1>4. ASSUME NEW t \in SpareTops, mapTop' = t, Rebuild(t), GenerateCache
      PROVE  CountInv'
  <2>1. /\ pc' = "table" /\ w'.ret = "newMain" /\ w'.ba = MgmtStart /\ w'.limit = t
        /\ main' = NoBlock /\ backup' = NoBlock /\ mapBase' = t
        /\ cache'.count = writeCount' /\ cache'.state = state /\ cache'.mapping = mapping
      BY <1>4 DEF Rebuild, WriteTable, Goto, GenerateCache
  <2>2. t \in Blocks /\ MgmtStart < t
      BY <1>4, SpareTopIn DEF Inv, TypeOK
  <2>3. pc' \in Writing /\ pc' \notin Cleaning /\ Running'
      BY <2>1 DEF Writing, Cleaning, Running
  <2>4. Fit' /\ Lineage' /\ Findable' /\ Empty' /\ Known'
      BY <1>2, <2>1 DEF Fit, Lineage, Findable, Empty, Known, Starting
  <2>5. Placed' /\ Cached' /\ Present'
      BY <1>1, <1>2, <1>4, <2>1, <2>2, <2>3 DEF Placed, Cached, Present
  <2>6. Course'
      BY <2>1, <2>3 DEF Course, Swept
  <2>. QED BY <2>4, <2>5, <2>6 DEF CountInv
<1>. QED BY <1>3, <1>4 DEF CreateTables, Goto

-----------------------------------------------------------------------------
(* Between the writes of the tables *)

\* A step that writes no table and calls no block bad that holds one.
Calm ==
    /\ Running /\ Running' /\ pc \notin Writing \cup Cleaning /\ pc' \notin Writing \cup Cleaning
    /\ UNCHANGED <<main, backup, mapBase, writeCount>> /\ marker \subseteq marker'
    /\ \/ mapTop' = mapTop
       \/ ~Stuck /\ mapBase <= mapTop' /\ mapTop' <= mapTop
    /\ Worse(state, state')
    /\ \A b \in Blocks : /\ content'[b] = content[b] \/ content'[b].kind # "table"
                         /\ state'[b] = state[b] \/ b \notin Live'

LEMMA CalmCounts ==
    ASSUME Inv, Inv', BackupBelow, CountInv, Calm
    PROVE  CountInv'
<1>1. /\ Running /\ Running' /\ pc \notin Writing \cup Cleaning /\ pc' \notin Writing \cup Cleaning
      /\ UNCHANGED <<main, backup, mapBase, writeCount>> /\ marker \subseteq marker' /\ Worse(state, state')
    BY DEF Calm
<1>2. mapTop \in Blocks /\ mapTop' \in Blocks /\ mapBase \in Blocks /\ writeCount \in Nat /\ main \in Blocks
    BY TypeFacts DEF Inv, TypeOK, LayoutType
<1>3. mapBase <= mapTop /\ main < mapBase /\ Live \subseteq Tables
    BY <1>1 DEF CountInv, Placed, Present
<1>4. mapTop' <= mapTop /\ mapBase <= mapTop' /\ writeCount <= writeCount'
    BY <1>1, <1>2, <1>3 DEF Calm
<1>5. ASSUME NEW b \in Live'
      PROVE  b \in Live /\ content'[b] = content[b] /\ state'[b] = "good" /\ b < mapTop' /\ ~Renewed(b)
  <2>1. b \in Blocks /\ b \in Live /\ content'[b] = content[b] /\ state'[b] = state[b]
      BY <1>1, <1>5 DEF Calm, Live
  <2>2. state[b] = "good" /\ b < mapTop
      BY <1>1, <2>1 DEF CountInv, Known, Follows
  <2>3. ~Stuck => b < mapBase
      BY <1>1, <1>3, <2>1 DEF BackupBelow, Tables
  <2>4. b < mapTop'
      BY <1>2, <1>4, <2>1, <2>2, <2>3 DEF Calm
  <2>. QED BY <1>1, <2>1, <2>2, <2>4 DEF Renewed
<1>6. Loses
    BY <1>1, <1>4, <1>5 DEF Loses
<1>7. mapTop' = mapTop \/ backup < mapBase
    BY <1>1 DEF Calm, BackupBelow
<1>. QED BY <1>1, <1>4, <1>6, <1>7, CalmKeeps

\* The block of a logic block holds no table.
LEMMA MappedIsNotLive ==
    ASSUME NoneDisplaced, ApartInv, CountInv, Running, NEW l \in Logical
    PROVE  mapping[l] \notin Live
<1>. SUFFICES ASSUME mapping[l] \in Live PROVE FALSE
    OBVIOUS
<1>1. mapping[l] \in Blocks /\ MgmtStart <= mapping[l] /\ mapping[l] < mapTop
    BY LiveAbove DEF CountInv, Known, Follows
<1>2. mapTop \in Blocks
    BY TypeFacts DEF ApartInv
<1>. QED BY <1>1, <1>2 DEF NoneDisplaced

LEMMA SameStates == Worse(state, state)
BY DEF Worse

LEMMA SpareCounts ==
    ASSUME ApartInv, Inv', CountInv, MapTail \/ MapTailEnds \/ TailFull \/ Created
    PROVE  CountInv'
<1>1. /\ Running /\ Running' /\ pc \notin Writing \cup Cleaning /\ pc' \notin Writing \cup Cleaning /\ ~Stuck
      /\ UNCHANGED <<content, marker, state, main, backup, mapBase, writeCount>>
    BY DEF MapTail, MapTailEnds, TailFull, Created, Running, Writing, Cleaning, Stuck, Update, Call, Goto
<1>2. mapTop \in Blocks /\ mapBase \in Blocks /\ mapBase <= mapTop
    BY <1>1, TypeFacts DEF ApartInv, CountInv, Placed
<1>3. mapBase <= mapTop' /\ mapTop' <= mapTop
  <2>1. mapTop' \in {mapTop, mapBase} \/ (mapBase # mapTop /\ mapTop' = mapTop - 1)
      BY DEF MapTail, MapBlock, MapTailEnds, TailFull, Created
  <2>. QED BY <1>2, <2>1
<1>4. Calm
    BY <1>1, <1>3, SameStates DEF Calm
<1>. QED BY <1>4, CalmCounts DEF ApartInv

-----------------------------------------------------------------------------
(* The operations of an attached device *)

\* A step that erases, programs or marks the block b of a logic block, or calls it
\* bad, touches no table.
LEMMA BlockCalm ==
    ASSUME ApartInv, CountInv, Running, Running', ~Stuck,
           pc \notin Writing \cup Cleaning, pc' \notin Writing \cup Cleaning,
           UNCHANGED <<main, backup, mapBase, writeCount>>,
           mapBase <= mapTop', mapTop' <= mapTop, marker \subseteq marker', Worse(state, state'),
           NEW b, \A x \in Blocks : x # b => content'[x] = content[x] /\ state'[x] = state[x],
           \/ content'[b] = content[b] /\ (state'[b] = state[b] \/ b \notin Live \/ b \in marker')
           \/ content'[b].kind # "table"
    PROVE  Calm
<1>1. b \in Blocks /\ content'[b] = content[b] /\ b \in Live' => b \in Live /\ b \notin marker'
    BY DEF Live
<1>2. b \in Live' => content'[b].kind = "table"
    BY DEF Live
<1>. QED BY <1>1, <1>2 DEF Calm

LEMMA OperationCounts ==
    ASSUME MarksWork, NoneDisplaced, ApartInv, Inv', CountInv,
           \/ EraseRetired \/ EraseFoundBad \/ EraseBlock \/ EraseMark \/ Remap \/ RemapFails
           \/ MapFull \/ Failed \/ WriteBlock \/ ReadBlock \/ Marked
    PROVE  CountInv'
<1>1. /\ Running /\ Running' /\ pc \notin Writing \cup Cleaning /\ pc' \notin Writing \cup Cleaning
      /\ UNCHANGED <<main, backup, mapBase, writeCount>>
  <2>. USE DEF Running, Writing, Cleaning, Update, Return, Call, Goto
  <2>1. CASE EraseRetired \/ EraseFoundBad \/ EraseBlock \/ EraseMark
      BY <2>1 DEF EraseRetired, EraseFoundBad, EraseBlock, EraseMark
  <2>2. CASE Remap \/ RemapFails \/ MapFull \/ Failed
      BY <2>2 DEF Remap, RemapFails, MapFull, GiveUp, Failed
  <2>3. CASE WriteBlock \/ ReadBlock \/ Marked
      BY <2>3 DEF WriteBlock, ReadBlock, Marked
  <2>. QED BY <2>1, <2>2, <2>3
<1>2. mapTop \in Blocks /\ mapBase \in Blocks /\ mapBase <= mapTop /\ ChipType /\ TableType
    BY <1>1, TypeFacts DEF ApartInv, CountInv, Placed, Inv, TypeOK
<1>3. Block \notin Live
    BY <1>1, MappedIsNotLive DEF Block, ApartInv, Inv, TypeOK, ControlType
<1>4. Worse(state, state) /\ \A x : Worse(state, [state EXCEPT ![x] = "bad"])
    BY <1>2 DEF Worse, TableType
<1>5. CASE EraseRetired \/ Failed \/ ReadBlock \/ Marked
  <2>1. UNCHANGED <<content, marker, state, mapTop>>
      BY <1>5 DEF EraseRetired, Failed, ReadBlock, Marked
  <2>2. Calm
      BY <1>1, <1>4, <2>1 DEF Calm
  <2>. QED BY <2>2, CalmCounts DEF ApartInv
<1>6. CASE EraseFoundBad
  <2>1. /\ Block \in marker /\ UNCHANGED <<content, marker, mapTop>>
        /\ state' = [state EXCEPT ![Block] = "bad"] /\ ~Stuck
      BY <1>6, MarksAreSeen DEF EraseFoundBad, SetState, Stuck, Writing
  <2>2. \A x \in Blocks : x # Block => content'[x] = content[x] /\ state'[x] = state[x]
      BY <1>2, <2>1 DEF TableType
  <2>3. /\ mapBase <= mapTop' /\ mapTop' <= mapTop /\ marker \subseteq marker' /\ Worse(state, state')
        /\ content'[Block] = content[Block] /\ Block \in marker'
    <3>1. Worse(state, state')
        BY <1>2, <2>1 DEF Worse, TableType
    <3>. QED BY <1>2, <2>1, <3>1
  <2>4. Calm
      BY <1>1, <2>1, <2>2, <2>3, BlockCalm
  <2>. QED BY <2>4, CalmCounts DEF ApartInv
<1>7. CASE EraseBlock
  <2>1. /\ Block \in Blocks /\ UNCHANGED <<marker, mapTop, state>> /\ ~Stuck
        /\ EraseOk(Block) \/ EraseFails(Block)
      BY <1>2, <1>7 DEF EraseBlock, EraseOk, EraseFails, Stuck, Writing, Block, ApartInv, Inv, TypeOK,
         ControlType, TableType, Mappings
  <2>2. OnlyAt(Block) /\ (content'[Block] = content[Block] \/ content'[Block].kind # "table")
      BY <1>2, <2>1, ErasesAt
  <2>3. \A x \in Blocks : x # Block => content'[x] = content[x] /\ state'[x] = state[x]
      BY <2>1, <2>2 DEF OnlyAt
  <2>4. Calm
      BY <1>1, <1>2, <1>4, <2>1, <2>2, <2>3, BlockCalm
  <2>. QED BY <2>4, CalmCounts DEF ApartInv
<1>8. CASE EraseMark
  <2>1. /\ marker' = marker \cup {Block} /\ content' = [content EXCEPT ![Block] = Torn]
        /\ state' = [state EXCEPT ![Block] = "bad"] /\ mapTop' = mapTop /\ ~Stuck
      BY <1>8, MarksAreSeen DEF EraseMark, SetState, Stuck, Writing
  <2>2. \A x \in Blocks : x # Block => content'[x] = content[x] /\ state'[x] = state[x]
      BY <1>2, <2>1 DEF TableType, ChipType
  <2>3. Block \in Live' => FALSE
      BY <2>1 DEF Live
  <2>4. \A x \in Blocks : content'[x] = content[x] \/ content'[x].kind # "table"
      BY <1>2, <2>1, NotTables DEF ChipType
  <2>5. Calm
      BY <1>1, <1>2, <1>4, <2>1, <2>2, <2>3, <2>4 DEF Calm
  <2>. QED BY <2>5, CalmCounts DEF ApartInv
<1>9. CASE Remap \/ RemapFails \/ MapFull
  <2>1. UNCHANGED <<content, marker>> /\ ~Stuck
      BY <1>9 DEF Remap, RemapFails, MapFull, Stuck, Writing
  <2>2. Retire(Block) \/ state' = state
      BY <1>9 DEF Remap, RemapFails, MapFull, GiveUp
  <2>3. mapBase <= mapTop' /\ mapTop' <= mapTop
    <3>1. mapTop' \in {mapTop, mapBase} \/ (mapBase # mapTop /\ mapTop' = mapTop - 1)
        BY <1>9 DEF Remap, MapBlock, RemapFails, MapFull
    <3>. QED BY <1>2, <3>1
  <2>4. \A x \in Blocks : x # Block => content'[x] = content[x] /\ state'[x] = state[x]
      BY <1>2, <2>1, <2>2 DEF Retire, TableType
  <2>5. Worse(state, state')
      BY <1>2, <1>4, <2>2, RetireWorse
  <2>6. Calm
      BY <1>1, <1>3, <2>1, <2>3, <2>4, <2>5, BlockCalm
  <2>. QED BY <2>6, CalmCounts DEF ApartInv
<1>10. CASE WriteBlock
  <2>1. mapTop' = mapTop /\ marker' = marker /\ ~Stuck /\ (Usable(lb) => Block \in Blocks)
      BY <1>2, <1>10 DEF WriteBlock, ProgramOk, ProgramFails, Stuck, Writing, Usable, Block, ApartInv,
         Inv, TypeOK, ControlType, TableType, Mappings
  <2>2. CASE UNCHANGED <<content, marker, state>>
    <3>1. Calm
        BY <1>1, <1>4, <2>1, <2>2 DEF Calm
    <3>. QED BY <3>1, CalmCounts DEF ApartInv
  <2>3. CASE /\ ProgramOk(Block, DataOf(lb)) \/ ProgramFails(Block, DataOf(lb))
             /\ state' \in {state, [state EXCEPT ![Block] = "remap"]} /\ Usable(lb)
    <3>1. OnlyAt(Block) /\ content'[Block].kind # "table"
        BY <1>2, <2>1, <2>3, ProgramsAt, NotTables
    <3>2. \A x \in Blocks : x # Block => content'[x] = content[x] /\ state'[x] = state[x]
        BY <1>2, <2>3, <3>1 DEF OnlyAt, TableType
    <3>3. Worse(state, state')
        BY <1>2, <2>3 DEF Worse, TableType
    <3>4. mapBase <= mapTop' /\ mapTop' <= mapTop /\ marker \subseteq marker'
        BY <1>2, <2>1
    <3>5. Calm
        BY <1>1, <2>1, <3>1, <3>2, <3>3, <3>4, BlockCalm
    <3>. QED BY <3>5, CalmCounts DEF ApartInv
  <2>. QED BY <1>10, <2>2, <2>3 DEF WriteBlock, SetState
<1>. QED BY <1>5, <1>6, <1>7, <1>8, <1>9, <1>10

LEMMA RequestCounts ==
    ASSUME MarksWork, ApartInv, Inv', CountInv, Requests
    PROVE  CountInv'
<1>1. /\ Running /\ Running' /\ pc \notin Writing \cup Cleaning /\ pc' \notin Writing \cup Cleaning
      /\ UNCHANGED <<main, backup, mapBase, mapTop, writeCount>>
    BY DEF Requests, Refuse, EraseRequest, WriteRequest, ReadRequest, Request, MarkBadBlock,
       MarkUnmapped, Detach, Running, Writing, Cleaning, Update, Goto
<1>2. CASE ~MarkBadBlock
  <2>1. UNCHANGED <<content, marker, state>>
      BY <1>2 DEF Requests, Refuse, EraseRequest, WriteRequest, ReadRequest, Request, MarkUnmapped, Detach
  <2>2. Calm
      BY <1>1, <2>1, SameStates DEF Calm
  <2>. QED BY <2>2, CalmCounts DEF ApartInv
<1>3. CASE MarkBadBlock
  <2>1. PICK b : /\ MarkBad(b) /\ SetState(b, "bad")
      BY <1>3 DEF MarkBadBlock
  <2>2. /\ marker' = marker \cup {b} /\ content' = [content EXCEPT ![b] = Torn]
        /\ state' = [state EXCEPT ![b] = "bad"]
      BY <2>1, MarksAreSeen DEF SetState
  <2>3. ChipType /\ TableType
      BY DEF ApartInv, Inv, TypeOK
  <2>4. \A x \in Blocks : /\ content'[x] = content[x] \/ content'[x].kind # "table"
                          /\ state'[x] = state[x] \/ x \notin Live'
      BY <2>2, <2>3, NotTables DEF ChipType, TableType, Live
  <2>5. Worse(state, state')
      BY <2>2, <2>3 DEF Worse, TableType
  <2>6. Calm
      BY <1>1, <2>2, <2>4, <2>5 DEF Calm
  <2>. QED BY <2>6, CalmCounts DEF ApartInv
<1>. QED BY <1>2, <1>3

-----------------------------------------------------------------------------
(* Losing the instance *)

\* The next attach finds the signature this one has found or written, and every
\* table that is left.
LEMMA UnloadCounts ==
    ASSUME Inv, SignKept, CountInv, Running, pc' = "off", marker' = marker,
           content'[sigBlock] = content[sigBlock],
           \A b \in Blocks : content'[b] = content[b] \/ content'[b].kind # "table",
           NEW x \in Blocks, NEW y \in Blocks, Live \subseteq {x, y}
    PROVE  CountInv'
<1>1. Live' \subseteq Live /\ \A b \in Live' : content'[b] = content[b]
    BY DEF Live
<1>2. Fit' /\ Lineage'
    BY <1>1, FamilyStays DEF CountInv
<1>3. sigBlock \in Blocks /\ mapTop \in Blocks /\ mapTop < sigBlock /\ Signs(sigBlock)
    BY TypeFacts DEF Inv, Ranges, LayoutInv, SignKept
<1>4. ASSUME NEW a \in Blocks, NEW s \in Blocks, a \in Live', SignatureAt(s)'
      PROVE  a < s - 1
  <2>1. a < mapTop
      BY <1>1, <1>4 DEF CountInv, Known, Follows
  <2>2. sigBlock <= s
      BY <1>3, <1>4 DEF SignatureAt, Signs
  <2>. QED BY <1>3, <2>1, <2>2
<1>5. Findable'
    BY <1>1, <1>4 DEF Findable
<1>6. ~Running' /\ pc' \notin Writing \cup Cleaning /\ Empty'
    BY DEF Running, Writing, Cleaning, Empty, Starting
<1>. QED BY <1>2, <1>5, <1>6 DEF CountInv, Placed, Known, Cached, Present, Course

\* There are two tables at most.
LEMMA PairOfTables ==
    ASSUME Inv, CountInv, Running
    PROVE  \E x, y \in Blocks : Live \subseteq {x, y}
<1>1. main \in Blocks /\ backup \in Blocks /\ Live \subseteq Blocks /\ BlockCount \in Nat
    BY TypeFacts DEF Live
<1>2. \A z : Live \subseteq {main, z} \/ Live \subseteq {backup, z} =>
             \E x, y \in Blocks : Live \subseteq {x, y}
  <2>. SUFFICES ASSUME NEW z, NEW m \in Blocks, Live \subseteq {m, z}
                PROVE  \E x, y \in Blocks : Live \subseteq {x, y}
      BY <1>1
  <2>1. CASE z \in Blocks
      BY <2>1
  <2>2. CASE z \notin Blocks
    <3>1. Live \subseteq {m, m}
        BY <1>1, <2>2
    <3>. QED BY <3>1
  <2>. QED BY <2>1, <2>2
<1>3. CASE pc \notin Writing \cup Cleaning
    BY <1>1, <1>3 DEF CountInv, Present, Tables
<1>4. CASE pc \in Cleaning
    BY <1>2, <1>4 DEF CountInv, Present
<1>5. CASE pc \in Writing /\ w.ret # "rescue"
  <2>1. Live \subseteq Standing \cup {w.ba} /\ (Standing \subseteq {main} \/ Standing \subseteq {backup})
      BY <1>5, WriteEnded DEF Standing
  <2>. QED BY <1>2, <2>1
<1>6. CASE pc \in Writing /\ w.ret = "rescue"
  <2>1. \A b \in Live : b \in {w.limit, w.ba} \/ (b = backup /\ w.ba <= b)
      BY <1>6, WriteEnded DEF Standing
  <2>2. backup < w.limit /\ Swept(backup, cache.state) /\ w.limit <= mapTop /\ mapTop \in Blocks
      BY <1>6, TypeFacts, WriteFacts DEF CountInv, Course
  <2>3. CASE w.ba \in Live /\ w.ba < backup
    <3>1. state[w.ba] = "good" /\ w.ba \notin marker /\ w.ba \in Blocks /\ MgmtStart <= w.ba
        BY <2>3, LiveAbove DEF CountInv, Known, Follows, Live
    <3>2. cache.state[w.ba] = "good"
        BY <1>6, <3>1 DEF CountInv, Cached
    <3>3. w.ba \in MgmtStart .. backup - 1
        BY <1>1, <2>3, <3>1
    <3>. QED BY <2>2, <3>1, <3>2, <3>3 DEF Swept, Gone
  <2>4. CASE ~(w.ba \in Live /\ w.ba < backup)
    <3>1. w.ba \in Nat /\ w.limit \in Nat /\ w.limit \in Blocks
        BY <2>2, TypeFacts
    <3>2. CASE w.ba \in Live
      <4>1. Live \subseteq {w.limit, w.ba}
          BY <1>1, <2>1, <2>4, <3>1, <3>2
      <4>. QED BY <1>1, <3>1, <3>2, <4>1
    <3>3. CASE w.ba \notin Live
      <4>1. Live \subseteq {w.limit, backup}
          BY <2>1, <3>3
      <4>. QED BY <1>1, <3>1, <4>1
    <3>. QED BY <3>2, <3>3
  <2>. QED BY <2>3, <2>4
<1>. QED BY <1>3, <1>4, <1>5, <1>6

LEMMA OffCounts ==
    ASSUME ApartInv, CountInv, Release \/ PowerCut
    PROVE  CountInv'
<1>1. pc' = "off" /\ marker' = marker /\ ~Running'
    BY DEF Release, PowerCut, Forget, Running
<1>2. Inv /\ SignKept /\ ChipType
    BY DEF ApartInv, Inv, TypeOK
<1>3. \A b \in Blocks : content'[b] = content[b] \/ content'[b].kind # "table"
    BY <1>2, NotTables DEF Release, PowerCut, ChipType
<1>4. CASE ~Running
  <2>1. pc \in Starting \cup {"create", "attachFails"}
      BY <1>4 DEF Running, Starting, Release, PowerCut, ApartInv, Inv, TypeOK, ControlType, PCs
  <2>2. Live' = {}
      BY <1>1, <1>3, <2>1 DEF CountInv, Empty, Live
  <2>. QED BY <1>1, <2>2, NoTablesCount
<1>5. CASE Running
  <2>1. content'[sigBlock] = content[sigBlock]
    <3>1. CASE content' = content
        BY <3>1
    <3>2. CASE content' # content
      <4>1. PICK x \in InFlight : content' = [content EXCEPT ![x] = Torn]
          BY <3>2 DEF Release, PowerCut
      <4>2. x < sigBlock /\ x \in Int
        <5>1. CASE pc \in {"erase", "write"}
            BY <1>5, <4>1, <5>1, MappedBelow DEF InFlight, Block, Usable, ApartInv, Inv, TypeOK, ControlType
        <5>2. CASE pc \in {"program", "table", "clean"}
          <6>1. x = w.ba /\ w.ba < w.limit /\ w.limit <= mapTop /\ mapTop < sigBlock
              BY <1>2, <1>5, <4>1, <5>2 DEF InFlight, Inv, Ranges, WriteInv, CleanInv, LayoutInv, Writing, Cleaning
          <6>. QED BY <1>2, <6>1, TypeFacts
        <5>. QED BY <1>5, <4>1, <5>1, <5>2 DEF InFlight, Running
      <4>3. x # sigBlock
          BY <1>2, <4>2, TypeFacts
      <4>. QED BY <1>2, <4>1, <4>3 DEF ChipType
    <3>. QED BY <3>1, <3>2
  <2>2. PICK x \in Blocks, y \in Blocks : Live \subseteq {x, y}
      BY <1>2, <1>5, PairOfTables
  <2>. QED BY <1>1, <1>2, <1>3, <1>5, <2>1, <2>2, UnloadCounts
<1>. QED BY <1>4, <1>5

-----------------------------------------------------------------------------

LEMMA InitCount == Init => CountInv
<1>. SUFFICES ASSUME Init PROVE CountInv
    OBVIOUS
<1>1. Live = {}
    BY NotTables DEF Init, Live
<1>2. pc = "off" /\ 0 \in Blocks
    BY DEF Init
<1>. QED BY <1>1, <1>2 DEF CountInv, Fit, Lineage, Findable, Empty, Placed, Known, Cached, Present,
            Course, Running, Writing, Cleaning, Starting

\* A step that at most answers.
LEMMA SameCounts ==
    ASSUME CountInv, UNCHANGED <<chip, table, layout, pc, w>>
    PROVE  CountInv'
<1>1. Live' = Live /\ (\A b : Image(b)' = Image(b)) /\ (Running' <=> Running)
    BY DEF Live, Image, Running
<1>2. Fit' /\ Lineage' /\ Findable' /\ Empty' /\ Placed'
    BY <1>1 DEF CountInv, Fit, Lineage, Swept, Gone, Findable, SignatureAt, Empty, Placed
<1>3. Known' /\ Cached'
    BY <1>1 DEF CountInv, Known, Follows, Renewed, Cached
<1>4. Present' /\ Course'
    BY <1>1 DEF CountInv, Present, Standing, Tables, Course, Swept, Gone
<1>. QED BY <1>2, <1>3, <1>4 DEF CountInv

\* Two tables of the same count are the same in every state that fits CountInv.
LEMMA CountsFollow ==
    ASSUME CountInv
    PROVE  CountsIdentify
BY DEF CountInv, Lineage, CountsIdentify, Live, Image

LEMMA NextCounts == MarksWork /\ NoneDisplaced /\ ApartInv /\ CountInv /\ [Next]_vars => ApartInv' /\ CountInv'
<1>. SUFFICES ASSUME MarksWork, NoneDisplaced, ApartInv, CountInv, [Next]_vars
              PROVE  ApartInv' /\ CountInv'
    OBVIOUS
<1>1. ApartInv'
    BY NextApart, CountsFollow
<1>2. Inv /\ Inv' /\ BackupBelow
    BY <1>1 DEF ApartInv
<1>3. CASE WriteTableSteps \/ CleanSteps \/ RebuildSteps \/ UpdateSteps
    BY <1>2, <1>3, TableWriteCounts, CleanCounts, RebuildCounts, UpdateCounts, <1>1
<1>4. CASE LoadSteps
  <2>1. CASE pc # "off"
      BY <1>1, <1>2, <1>4, <2>1, LoadCounts
  <2>2. CASE pc = "off"
    <3>1. AttachOneTable \/ AttachTwoTables
        BY <1>4, <2>2 DEF LoadSteps, LoadMainWritten, LoadMainFails, LoadBackupEnds, FrontWritten,
           FrontCleaned, FrontFails, NextFails, NextWritten, NextCleaned, Written, Exhausted, Cleaned
    <3>. QED BY <1>1, <3>1, AttachOneCounts, AttachTwoCounts
  <2>. QED BY <1>1, <2>1, <2>2
<1>5. CASE CreateSteps
  <2>1. CASE AttachRefused
      BY <1>1, <2>1, SameCounts DEF AttachRefused
  <2>2. CASE AttachNew \/ AttachWithoutTables
      BY <1>1, <2>2, AttachNothingCounts
  <2>3. CASE SignSkip \/ SignFoundBad \/ SignErase \/ SignProgram \/ SignMark \/ SignFails
      BY <1>1, <1>2, <2>3, SignCounts
  <2>4. CASE CreateTables
      BY <1>1, <1>2, <2>4, CreateTablesCounts
  <2>5. CASE MapTail \/ MapTailEnds \/ TailFull \/ Created
      BY <1>1, <1>2, <2>5, SpareCounts
  <2>. QED BY <1>5, <2>1, <2>2, <2>3, <2>4, <2>5 DEF CreateSteps
<1>6. CASE OperationSteps
  <2>1. CASE Release
      BY <1>1, <2>1, OffCounts
  <2>2. CASE ~Release
      BY <1>1, <1>2, <1>6, <2>2, OperationCounts DEF OperationSteps
  <2>. QED BY <2>1, <2>2
<1>7. CASE Requests
    BY <1>1, <1>2, <1>7, RequestCounts
<1>8. CASE PowerCut
    BY <1>1, <1>8, OffCounts
<1>9. CASE UNCHANGED vars
    BY <1>1, <1>9, SameCounts DEF vars
<1>. QED BY <1>3, <1>4, <1>5, <1>6, <1>7, <1>8, <1>9 DEF Next, Work

\* Two info tables with the same write count are the same, on every chip, after any
\* failures and power cuts: so nmbm_load_info_table may trust two tables whose
\* counts agree.  Provided that a bad block can be marked and its mark be read, and
\* that no spare block was skipped (see SpareWasUnused).
THEOREM CountsAreTrue == MarksWork => (Spec /\ []NoneDisplaced => []CountsIdentify)
<1>. SUFFICES ASSUME MarksWork PROVE Spec /\ []NoneDisplaced => []CountsIdentify
    OBVIOUS
<1>1. Init => ApartInv /\ CountInv
    BY InitApart, InitCount
<1>2. NoneDisplaced /\ (ApartInv /\ CountInv) /\ [Next]_vars => (ApartInv /\ CountInv)'
    BY NextCounts
<1>3. CountInv => CountsIdentify
    BY CountsFollow
<1>. QED BY <1>1, <1>2, <1>3, PTL DEF Spec

\* Then no info table lies on the block of a logic block.
LEMMA TablesLieApart ==
    ASSUME NoneDisplaced, Inv, CountInv
    PROVE  TablesUnused
<1>. SUFFICES ASSUME Running, NEW l \in Logical, mapping[l] \in Tables
              PROVE  FALSE
    BY DEF TablesUnused
<1>1. mapping[l] \in Blocks /\ MgmtStart <= mapping[l] /\ mapping[l] < mapTop /\ mapTop \in Blocks
    BY TypeFacts DEF Tables, Inv, Ranges, LayoutInv, CountInv, Placed
<1>. QED BY <1>1 DEF NoneDisplaced

\* With the counts the two results above hold without a hypothesis about the tables:
\* no block is used twice, and between two calls both tables hold the mapping.
THEOREM AllIsWell == MarksWork => (Spec /\ []NoneDisplaced => [](BlocksApart /\ TablesSaved))
<1>. SUFFICES ASSUME MarksWork PROVE Spec /\ []NoneDisplaced => [](BlocksApart /\ TablesSaved)
    OBVIOUS
<1>1. Init => ApartInv /\ CountInv
    BY InitApart, InitCount
<1>2. NoneDisplaced /\ (ApartInv /\ CountInv) /\ [Next]_vars => (ApartInv /\ CountInv)'
    BY NextCounts
<1>3. NoneDisplaced /\ ApartInv /\ CountInv => CountsIdentify /\ TablesUnused
    BY CountsFollow, TablesLieApart DEF ApartInv
<1>. QED BY <1>1, <1>2, <1>3, BlocksStayApart, TablesStaySaved, PTL DEF Spec

-----------------------------------------------------------------------------
(* A logic block reads its own data *)

\* A mapping that gives no block to two logic blocks.
Single(mp) == \A k, l \in Logical : mp[k] # Unmapped /\ mp[k] = mp[l] => k = l

\* In the chip ct, a block with data is mapped by its owner only, and is no good block
\* any longer once its owner has another.
Owners(ct, mp, st) ==
    \A b \in Blocks, k \in Logical : ct[b] = DataOf(k) =>
        /\ \A l \in Logical : mp[l] = b => l = k
        /\ st[b] = "good" => mp[k] = b

RamOwns   == Running => Single(mapping) /\ Owners(content, mapping, state)
CacheOwns == pc \in Writing => Single(cache.mapping) /\ Owners(content, cache.mapping, cache.state)
TablesOwn ==
    \A a \in Live : Single(Image(a).mapping) /\ Owners(content, Image(a).mapping, Image(a).state)

\* There is no data before the first attach, which alone creates the tables.
Serving  == {"idle", "erase", "eraseMark", "remap", "mapFull", "failed", "write", "read",
             "marked", "detached"}
Creating == Starting \cup {"create", "mapTail", "tailFull", "created"}
Returning == pc = "update" \/ (pc \in Writing \cup Cleaning /\ w.ret \in UpdateCallers)
NoData(ct) == \A b \in Blocks, k \in Logical : ct[b] # DataOf(k)
BornFirst ==
    /\ ~born => NoData(content)
    /\ pc \in Serving \/ (Returning /\ after \in Serving) => born
    /\ pc \in Creating \/ (Returning /\ after \in Creating) => ~born

\* A block that is marked bad holds no table and no signature, and there is one signature.
OneSignature ==
    /\ \A b \in marker : content[b].kind # "table" /\ content[b] # Signature
    /\ \A b \in Blocks : content[b] = Signature => MgmtStart <= b
    /\ \A a, b \in Blocks : content[a] = Signature /\ content[b] = Signature => a = b
    /\ pc \in {"sign", "signProgram"} => \A b \in Blocks : content[b] # Signature
    /\ pc = "signMark" => \A b \in Blocks : content[b] = Signature => b = w.ba

\* Outside the updates every table holds the mapping.
Told ==
    Running /\ ~protected /\ pc \notin Writing \cup Cleaning \cup {"update", "mapTail"} =>
        \A a \in Live : Tells(content[a], mapping)

Writable == pc = "write" => ~protected

OwnInv ==
    RamOwns /\ CacheOwns /\ TablesOwn /\ BornFirst /\ OneSignature /\ Told /\ Writable

-----------------------------------------------------------------------------
(* What one step does to the chip *)

\* The contents tell each other apart.
LEMMA KindsDiffer ==
    /\ \A l : Blank # DataOf(l) /\ Torn # DataOf(l) /\ Signature # DataOf(l)
    /\ \A k, l : DataOf(k) = DataOf(l) => k = l
    /\ \A image, l : TableOf(image) # DataOf(l) /\ TableOf(image) # Signature
    /\ \A l : DataOf(l) # Signature /\ DataOf(l).kind # "table"
    /\ Blank # Signature /\ Torn # Signature
    /\ Blank.kind # "table" /\ Torn.kind # "table" /\ Signature.kind # "table"
<1>1. /\ Blank.kind = "blank" /\ Torn.kind = "torn" /\ Signature.kind = "signature"
      /\ \A l : DataOf(l).kind = "data" /\ DataOf(l).owner = l
      /\ \A image : TableOf(image).kind = "table"
    BY DEF Blank, Torn, Signature, DataOf, TableOf
<1>. QED BY <1>1

\* Block x is erased, spoilt or marked.
Spoils(x) ==
    /\ \A b \in Blocks : b # x => content'[b] = content[b]
    /\ \/ content'[x] \in {content[x], Blank, Torn} /\ marker' = marker
       \/ content'[x] = Torn /\ marker' = marker \cup {x}

\* Block x gets a content.
Fills(x, data) ==
    /\ \A b \in Blocks : b # x => content'[b] = content[b]
    /\ content'[x] \in {data, Torn} /\ marker' = marker

Wipes == UNCHANGED <<content, marker>> \/ \E x \in Blocks : Spoils(x)

LEMMA ErasesSpoil ==
    ASSUME ChipType, NEW x \in Blocks, EraseOk(x) \/ EraseFails(x)
    PROVE  Spoils(x)
BY DEF ChipType, EraseOk, EraseFails, Spoils

LEMMA ProgramsFill ==
    ASSUME ChipType, NEW x \in Blocks, NEW data, ProgramOk(x, data) \/ ProgramFails(x, data)
    PROVE  Fills(x, data)
BY DEF ChipType, ProgramOk, ProgramFails, Fills

LEMMA MarksSpoil ==
    ASSUME ChipType, MarksWork, NEW x \in Blocks, MarkBad(x)
    PROVE  Spoils(x)
BY MarksAreSeen DEF ChipType, Spoils

\* Every step but the three programs wipes at most.
LEMMA MostWipe ==
    ASSUME MarksWork, Inv, [Next]_vars,
           ~TableProgram, ~SignProgram, ~(WriteBlock /\ Usable(lb))
    PROVE  Wipes
<1>. USE DEF Wipes
<1>0. ChipType /\ ControlType /\ TableType
    BY DEF Inv, TypeOK
<1>1. CASE WriteTableSteps
  <2>1. w.ba < w.limit /\ pc \in {"table", "tableMark"} => w.ba \in Blocks
      BY TypeFacts, WriteFacts DEF Writing
  <2>2. CASE TableSkip \/ TableFoundBad
      BY <2>2 DEF TableSkip, TableFoundBad
  <2>3. CASE TableErase
      BY <1>0, <2>1, <2>3, ErasesSpoil DEF TableErase, InTable
  <2>4. CASE TableMark
    <3>1. w.ba < w.limit /\ pc = "tableMark"
        BY <2>4 DEF TableMark, InTable, Inv, Ranges, WriteInv, Writing
    <3>. QED BY <1>0, <2>1, <2>4, <3>1, MarksSpoil DEF TableMark
  <2>. QED BY <1>1, <2>2, <2>3, <2>4 DEF WriteTableSteps
<1>2. CASE CleanSteps
  <2>1. w.ba < w.limit /\ pc \in Cleaning => w.ba \in Blocks
      BY TypeFacts DEF Inv, Ranges, CleanInv
  <2>2. CASE CleanSkip \/ CleanFoundBad
      BY <2>2 DEF CleanSkip, CleanFoundBad
  <2>3. CASE CleanErase
      BY <1>0, <2>1, <2>3, ErasesSpoil DEF CleanErase, InTable, Cleaning
  <2>4. CASE CleanMark
    <3>1. w.ba < w.limit /\ pc \in Cleaning
        BY <2>4 DEF CleanMark, InTable, Inv, Ranges, CleanInv, Cleaning
    <3>. QED BY <1>0, <2>1, <2>4, <3>1, MarksSpoil DEF CleanMark
  <2>. QED BY <1>2, <2>2, <2>3, <2>4 DEF CleanSteps
<1>3. CASE RebuildSteps
    BY <1>3 DEF RebuildSteps, NewMainFails, NewMainWritten, NewBackupFails, NewBackupWritten, NewBackupCleaned
<1>4. CASE UpdateSteps
    BY <1>4 DEF UpdateSteps, UpdateDone, UpdateStart, BackupWritten, BackupFails, MainWritten,
       MainFailsAlone, MainFails, TempFails, TempWritten, RescueEnds
<1>5. CASE LoadSteps
    BY <1>5 DEF LoadSteps, AttachOneTable, AttachTwoTables, LoadMainWritten, LoadMainFails, LoadBackupEnds,
       FrontWritten, FrontCleaned, FrontFails, NextFails, NextWritten, NextCleaned
<1>6. CASE CreateSteps
  <2>1. CASE SignErase \/ SignMark
    <3>1. w.ba \in Blocks
        BY <2>1 DEF SignErase, SignMark, InSign, Inv, Ranges, SignInv
    <3>. QED BY <1>0, <2>1, <3>1, ErasesSpoil, MarksSpoil DEF SignErase, SignMark
  <2>2. CASE ~(SignErase \/ SignMark)
      BY <1>6, <2>2 DEF CreateSteps, AttachNew, AttachWithoutTables, AttachRefused, SignSkip, SignFoundBad,
         SignFails, CreateTables, MapTail, MapTailEnds, TailFull, Created
  <2>. QED BY <2>1, <2>2
<1>7. CASE OperationSteps
  <2>1. Block # Unmapped => Block \in Blocks
      BY <1>0 DEF TableType, ControlType, Mappings, Block
  <2>2. CASE EraseBlock
      BY <1>0, <2>1, <2>2, ErasesSpoil DEF EraseBlock
  <2>3. CASE EraseMark
      BY <1>0, <2>1, <2>3, MarksSpoil DEF EraseMark, Inv, Ranges, EraseInv
  <2>4. CASE WriteBlock
      BY <2>4 DEF WriteBlock
  <2>5. CASE ~(EraseBlock \/ EraseMark \/ WriteBlock)
      BY <1>7, <2>5 DEF OperationSteps, EraseRetired, EraseFoundBad, Remap, RemapFails, MapFull, Failed,
         ReadBlock, Marked, Release
  <2>. QED BY <2>2, <2>3, <2>4, <2>5
<1>8. CASE Requests
  <2>1. CASE MarkBadBlock
    <3>1. PICK l \in Logical : mapping[l] # Unmapped /\ MarkBad(mapping[l])
        BY <2>1 DEF MarkBadBlock
    <3>2. mapping[l] \in Blocks
        BY <1>0, <3>1 DEF TableType, Mappings
    <3>. QED BY <1>0, <3>1, <3>2, MarksSpoil
  <2>2. CASE ~MarkBadBlock
      BY <1>8, <2>2 DEF Requests, Refuse, EraseRequest, WriteRequest, Request, ReadRequest, MarkUnmapped, Detach
  <2>. QED BY <2>1, <2>2
<1>9. CASE PowerCut
  <2>1. InFlight \subseteq Blocks
    <3>1. pc \in {"program", "signProgram"} => w.ba \in Blocks
        BY TypeFacts, WriteFacts DEF Inv, Ranges, SignInv, WriteInv, Writing
    <3>2. Usable(lb) \/ Block # Unmapped => Block \in Blocks
        BY <1>0 DEF TableType, ControlType, Mappings, Block, Usable
    <3>. QED BY <3>1, <3>2 DEF InFlight
  <2>. QED BY <1>0, <1>9, <2>1 DEF PowerCut, Spoils, ChipType
<1>10. CASE UNCHANGED vars
    BY <1>10 DEF vars
<1>. QED BY <1>1, <1>2, <1>3, <1>4, <1>5, <1>6, <1>7, <1>8, <1>9, <1>10 DEF Next, Work

\* Each step wipes, or programs a table, a signature or data.
LEMMA ChipSteps ==
    ASSUME MarksWork, ApartInv, CountInv, [Next]_vars
    PROVE  \/ Wipes
           \/ TableProgram /\ w.ba \in Blocks /\ w.ba \notin marker /\ Fills(w.ba, TableOf(cache))
           \/ SignProgram /\ w.ba \in Blocks /\ w.ba \notin marker /\ MgmtStart < w.ba /\ Fills(w.ba, Signature)
           \/ WriteBlock /\ Usable(lb) /\ pc = "write" /\ Block \in Blocks /\ Fills(Block, DataOf(lb))
<1>0. ChipType /\ ControlType /\ TableType /\ Inv
    BY DEF ApartInv, Inv, TypeOK
<1>1. CASE TableProgram
  <2>1. w.ba \in Blocks /\ w.ba \notin marker
    <3>1. pc = "program"
        BY <1>1 DEF TableProgram, InTable
    <3>. QED BY <1>0, <3>1, WriteFacts DEF Writing, Inv, Ranges, WriteInv, CountInv, Cached
  <2>2. Fills(w.ba, TableOf(cache))
      BY <1>0, <1>1, <2>1, ProgramsFill DEF TableProgram
  <2>. QED BY <1>1, <2>1, <2>2
<1>2. CASE SignProgram
  <2>1. w.ba \in Blocks /\ w.ba \notin marker /\ MgmtStart < w.ba
      BY <1>0, <1>2 DEF SignProgram, InSign, Inv, Ranges, SignInv, ApartInv, Fresh
  <2>2. Fills(w.ba, Signature)
      BY <1>0, <1>2, <2>1, ProgramsFill DEF SignProgram
  <2>. QED BY <1>2, <2>1, <2>2
<1>3. CASE WriteBlock /\ Usable(lb)
  <2>1. Block \in Blocks /\ pc = "write"
      BY <1>0, <1>3 DEF WriteBlock, TableType, ControlType, Mappings, Block, Usable
  <2>2. ProgramOk(Block, DataOf(lb)) \/ ProgramFails(Block, DataOf(lb))
      BY <1>3 DEF WriteBlock
  <2>3. Fills(Block, DataOf(lb))
      BY <1>0, <2>1, <2>2, ProgramsFill
  <2>. QED BY <1>3, <2>1, <2>3
<1>4. CASE ~TableProgram /\ ~SignProgram /\ ~(WriteBlock /\ Usable(lb))
    BY <1>0, <1>4, MostWipe
<1>. QED BY <1>1, <1>2, <1>3, <1>4

\* Data comes from nmbm_write_logic_page only.
LEMMA DataStays ==
    ASSUME MarksWork, ApartInv, CountInv, [Next]_vars, NEW b \in Blocks, NEW k \in Logical,
           content'[b] = DataOf(k)
    PROVE  \/ content[b] = DataOf(k)
           \/ WriteBlock /\ Usable(lb) /\ pc = "write" /\ b = Block /\ k = lb
<1>1. CASE Wipes
    BY <1>1, KindsDiffer DEF Wipes, Spoils
<1>2. CASE ~Wipes
    BY <1>2, ChipSteps, KindsDiffer DEF Fills
<1>. QED BY <1>1, <1>2

\* A signature comes from nmbm_write_signature only.
LEMMA SignatureComes ==
    ASSUME MarksWork, ApartInv, CountInv, [Next]_vars, NEW b \in Blocks, content'[b] = Signature
    PROVE  \/ content[b] = Signature
           \/ SignProgram /\ b = w.ba /\ MgmtStart < b
<1>1. CASE Wipes
    BY <1>1, KindsDiffer DEF Wipes, Spoils
<1>2. CASE ~Wipes
    BY <1>2, ChipSteps, KindsDiffer DEF Fills
<1>. QED BY <1>1, <1>2

\* The steps of nmbm_write_signature, and the attach that calls it.
LEMMA SigningSteps ==
    ASSUME Inv, [Next]_vars, pc' \in Starting
    PROVE  AttachNew \/ SignSkip \/ SignFoundBad \/ SignErase \/ SignProgram \/ SignMark \/ UNCHANGED vars
<1>0. ControlType
    BY DEF Inv, TypeOK
<1>. USE DEF Goto, Starting
<1>1. CASE WriteTableSteps \/ CleanSteps
    BY <1>1 DEF WriteTableSteps, CleanSteps, TableSkip, TableFoundBad, TableErase, TableProgram,
       TableMark, CleanSkip, CleanFoundBad, CleanErase, CleanMark, InTable
<1>2. CASE RebuildSteps \/ UpdateSteps
  <2>. USE <1>0 DEF ControlType, Returns
  <2>. QED BY <1>2 DEF RebuildSteps, UpdateSteps, NewMainFails, NewMainWritten,
       NewBackupFails, NewBackupWritten, NewBackupCleaned, RebuildDone, UpdateFails, UpdateDone, UpdateStart,
       BackupWritten, BackupFails, MainWritten, MainFailsAlone, Rebuild, MainFails, BackupTakesOver,
       TempFails, TempWritten, RescueEnds, WriteTable, CleanRange
<1>3. CASE LoadSteps
    BY <1>3 DEF LoadSteps, AttachOneTable, LoadOne, AttachTwoTables, LoadTwo, LoadMainWritten, LoadMainFails,
       LoadBackupEnds, FrontWritten, FrontCleaned, FrontFails, NextFails, NextWritten, NextCleaned,
       Attached, Call, WriteTable, CleanRange
<1>4. CASE CreateSteps
    BY <1>4 DEF CreateSteps, AttachWithoutTables, AttachRefused, SignFails, CreateTables,
       Rebuild, WriteTable, MapTail, MapTailEnds, TailFull, Created, Update, Call
<1>5. CASE OperationSteps \/ Requests \/ PowerCut
    BY <1>5 DEF OperationSteps, Requests, PowerCut, Forget, EraseRetired, EraseFoundBad, EraseBlock,
       EraseMark, Remap, RemapFails, MapFull, GiveUp, Failed, WriteBlock, ReadBlock, Marked, Release, Refuse,
       EraseRequest, WriteRequest, Request, ReadRequest, MarkBadBlock, MarkUnmapped, Detach, Update, Return, Call
<1>. QED BY <1>1, <1>2, <1>3, <1>4, <1>5 DEF Next, Work

LEMMA SignatureStays ==
    ASSUME MarksWork, ApartInv, CountInv, OneSignature, [Next]_vars
    PROVE  OneSignature'
<1>0. ChipType /\ ControlType /\ Inv
    BY DEF ApartInv, Inv, TypeOK
<1>1. \A b \in marker' : content'[b].kind # "table" /\ content'[b] # Signature
  <2>. SUFFICES ASSUME NEW b \in marker' PROVE content'[b].kind # "table" /\ content'[b] # Signature
      OBVIOUS
  <2>1. CASE UNCHANGED <<content, marker>>
      BY <2>1 DEF OneSignature
  <2>2. ASSUME NEW x \in Blocks, Spoils(x)
        PROVE  content'[b].kind # "table" /\ content'[b] # Signature
    <3>1. b \in marker \/ b = x
        BY <2>2 DEF Spoils
    <3>2. b \in Blocks
        BY <1>0, <3>1 DEF ChipType
    <3>3. (content'[b] = content[b] /\ b \in marker) \/ content'[b] \in {Blank, Torn}
        BY <2>2, <3>1, <3>2 DEF Spoils
    <3>. QED BY <3>3, KindsDiffer DEF OneSignature
  <2>3. CASE ~Wipes
    <3>1. \E x \in Blocks : \/ x \notin marker /\ (Fills(x, TableOf(cache)) \/ Fills(x, Signature))
                          \/ Fills(x, DataOf(lb))
        BY <2>3, ChipSteps
    <3>2. PICK x \in Blocks : \/ x \notin marker /\ (Fills(x, TableOf(cache)) \/ Fills(x, Signature))
                             \/ Fills(x, DataOf(lb))
        BY <3>1
    <3>3. b \in marker /\ b \in Blocks
        BY <1>0, <3>2 DEF Fills, ChipType
    <3>4. content'[b] = content[b] \/ content'[b] \in {Torn, DataOf(lb)}
        BY <3>2, <3>3 DEF Fills
    <3>. QED BY <3>3, <3>4, KindsDiffer DEF OneSignature
  <2>. QED BY <2>1, <2>2, <2>3 DEF Wipes
<1>2. \A b \in Blocks : content'[b] = Signature => MgmtStart <= b
    BY SignatureComes DEF OneSignature
<1>3. \A a, b \in Blocks : content'[a] = Signature /\ content'[b] = Signature => a = b
  <2>1. SignProgram => \A b \in Blocks : content[b] # Signature
      BY DEF SignProgram, InSign, OneSignature
  <2>. QED BY <2>1, SignatureComes DEF OneSignature
<1>4. pc' \in {"sign", "signProgram"} => \A b \in Blocks : content'[b] # Signature
  <2>. SUFFICES ASSUME pc' \in {"sign", "signProgram"}, NEW b \in Blocks, content'[b] = Signature
                PROVE  FALSE
      OBVIOUS
  <2>1. ~SignProgram
      BY DEF SignProgram, Goto
  <2>2. content[b] = Signature
      BY <2>1, SignatureComes
  <2>3. AttachNew \/ SignSkip \/ SignFoundBad \/ SignErase \/ SignMark \/ UNCHANGED vars
      BY <1>0, <2>1, SigningSteps DEF Starting
  <2>4. CASE AttachNew
    <3>1. SignatureAt(b)
      <4>1. b \notin marker /\ MgmtStart <= b
          BY <2>2 DEF OneSignature
      <4>2. \A x \in b + 1 .. BlockCount - 1 : content[x] # Signature
          BY <2>2 DEF OneSignature
      <4>. QED BY <2>2, <4>1, <4>2 DEF SignatureAt
    <3>. QED BY <2>4, <3>1 DEF AttachNew
  <2>5. CASE SignSkip \/ SignFoundBad \/ SignErase
      BY <2>2, <2>5 DEF SignSkip, SignFoundBad, SignErase, InSign, OneSignature
  <2>6. CASE SignMark
    <3>1. b = w.ba /\ w.ba \in Blocks
        BY <2>2, <2>6 DEF SignMark, InSign, OneSignature
    <3>2. content'[w.ba] = Torn
        BY <1>0, <2>6, <3>1, MarksAreSeen DEF SignMark, ChipType
    <3>. QED BY <3>1, <3>2, KindsDiffer
  <2>7. CASE UNCHANGED vars
      BY <2>2, <2>7 DEF vars, OneSignature
  <2>. QED BY <2>3, <2>4, <2>5, <2>6, <2>7
<1>5. pc' = "signMark" => \A b \in Blocks : content'[b] = Signature => b = w'.ba
  <2>. SUFFICES ASSUME pc' = "signMark", NEW b \in Blocks, content'[b] = Signature
                PROVE  b = w'.ba
      OBVIOUS
  <2>1. SignErase \/ SignProgram \/ UNCHANGED vars
      BY <1>0, SigningSteps DEF Starting, AttachNew, SignSkip, SignFoundBad, SignMark, InSign, Goto
  <2>2. content[b] = Signature \/ (SignProgram /\ b = w.ba)
      BY SignatureComes
  <2>3. CASE SignErase
      BY <2>2, <2>3 DEF SignErase, SignProgram, InSign, OneSignature
  <2>4. CASE SignProgram
      BY <2>2, <2>4 DEF SignProgram, InSign, OneSignature
  <2>5. CASE UNCHANGED vars
      BY <2>2, <2>5 DEF vars, OneSignature, SignProgram, Goto
  <2>. QED BY <2>1, <2>3, <2>4, <2>5
<1>. QED BY <1>1, <1>2, <1>3, <1>4, <1>5 DEF OneSignature

-----------------------------------------------------------------------------
(* Before the first attach there is no data *)

LEMMA BornStays ==
    ASSUME MarksWork, ~ForcedCreate, ApartInv, CountInv, BornFirst, [Next]_vars
    PROVE  BornFirst'
<1>0. Inv /\ ControlType
    BY DEF ApartInv, Inv, TypeOK
<1>1. born => born'
  <2>1. CASE WriteTableSteps \/ CleanSteps
      BY <2>1 DEF WriteTableSteps, CleanSteps, TableSkip, TableFoundBad, TableErase, TableProgram,
         TableMark, CleanSkip, CleanFoundBad, CleanErase, CleanMark, InTable
  <2>2. CASE RebuildSteps \/ UpdateSteps
      BY <2>2 DEF RebuildSteps, UpdateSteps, NewMainFails, NewMainWritten, NewBackupFails, NewBackupWritten,
         NewBackupCleaned, UpdateDone, UpdateStart, BackupWritten, BackupFails, MainWritten, MainFailsAlone,
         MainFails, TempFails, TempWritten, RescueEnds
  <2>3. CASE LoadSteps
    <3>1. CASE AttachOneTable
        BY <3>1 DEF AttachOneTable
    <3>2. CASE AttachTwoTables
      <4>1. Attached(TRUE) \/ UNCHANGED born
          BY <3>2, ZenonT(60) DEF AttachTwoTables, LoadTwo
      <4>. QED BY <4>1 DEF Attached
    <3>3. CASE ~(AttachOneTable \/ AttachTwoTables)
        BY <2>3, <3>3 DEF Attached, LoadSteps, LoadMainWritten, LoadMainFails, LoadBackupEnds, FrontWritten, FrontCleaned,
           FrontFails, NextFails, NextWritten, NextCleaned
    <3>. QED BY <3>1, <3>2, <3>3
  <2>4. CASE CreateSteps
      BY <2>4 DEF CreateSteps, AttachNew, AttachWithoutTables, AttachRefused, SignSkip, SignFoundBad, SignErase,
         SignProgram, SignMark, SignFails, InSign, CreateTables, MapTail, MapTailEnds, TailFull, Created
  <2>5. CASE OperationSteps \/ Requests \/ PowerCut
      BY <2>5 DEF OperationSteps, Requests, PowerCut, EraseRetired, EraseFoundBad, EraseBlock,
         EraseMark, Remap, RemapFails, MapFull, Failed, WriteBlock, ReadBlock, Marked, Release, Refuse,
         EraseRequest, WriteRequest, Request, ReadRequest, MarkBadBlock, MarkUnmapped, Detach
  <2>6. CASE UNCHANGED vars
      BY <2>6 DEF vars
  <2>. QED BY <2>1, <2>2, <2>3, <2>4, <2>5, <2>6 DEF Next, Work
<1>2. ~born' => NoData(content')
  <2>. SUFFICES ASSUME ~born', NEW b \in Blocks, NEW k \in Logical, content'[b] = DataOf(k)
                PROVE  FALSE
      BY DEF NoData
  <2>1. ~born /\ content[b] # DataOf(k)
      BY <1>1 DEF BornFirst, NoData
  <2>2. pc = "write"
      BY <2>1, DataStays
  <2>. QED BY <2>1, <2>2 DEF BornFirst, Serving
<1>3. /\ pc' \in Serving \/ (Returning' /\ after' \in Serving) => born'
      /\ pc' \in Creating \/ (Returning' /\ after' \in Creating) => ~born'
  <2>. USE DEF BornFirst, Serving, Creating, Starting, Returning, UpdateCallers, Writing, Cleaning, Goto
  <2>1. CASE WriteTableSteps \/ CleanSteps
      BY <1>0, <2>1 DEF WriteTableSteps, CleanSteps, TableSkip, TableFoundBad, TableErase, TableProgram,
         TableMark, CleanSkip, CleanFoundBad, CleanErase, CleanMark, InTable, NextBlock, ControlType, WriteRange
  <2>2. CASE RebuildSteps
      BY <1>0, <2>2 DEF RebuildSteps, NewMainFails, NewMainWritten, NewBackupFails, NewBackupWritten,
         NewBackupCleaned, UpdateFails, RebuildDone, WriteTable, CleanRange, Written, Exhausted, Cleaned,
         ControlType, Returns
  <2>3. CASE UpdateSteps
      BY <1>0, <2>3 DEF UpdateSteps, UpdateDone, UpdateStart, BackupWritten, BackupFails, MainWritten, MainFailsAlone,
         MainFails, TempFails, TempWritten, RescueEnds, Rebuild, BackupTakesOver, WriteTable, Written, Exhausted,
         ControlType, Returns
  <2>4. CASE LoadSteps
    <3>1. \/ pc' = "idle" /\ born'
          \/ pc' = "table" /\ w'.ret \in {"front", "next", "loadMain", "loadBackup"}
          \/ pc' = "clean" /\ w'.ret \in {"front", "next"}
      <4>. USE DEF Attached, Call, WriteTable, CleanRange
      <4>1. CASE AttachOneTable \/ AttachTwoTables
          BY <4>1 DEF AttachOneTable, LoadOne, AttachTwoTables, LoadTwo
      <4>2. CASE ~(AttachOneTable \/ AttachTwoTables)
          BY <2>4, <4>2 DEF LoadSteps, LoadMainWritten, LoadMainFails, LoadBackupEnds, FrontWritten, FrontCleaned,
             FrontFails, NextFails, NextWritten, NextCleaned
      <4>. QED BY <4>1, <4>2
    <3>2. pc' # "update" /\ pc' \notin Creating /\ ~Returning' /\ (pc' \in Serving => born')
        BY <3>1
    <3>. QED BY <3>2
  <2>5. CASE CreateSteps
      BY <2>5 DEF CreateSteps, AttachNew, MayCreate, AttachWithoutTables, AttachRefused, SignSkip, SignFoundBad, SignErase,
         SignProgram, SignMark, SignFails, InSign, CreateTables, Rebuild, WriteTable, MapTail, MapTailEnds,
         TailFull, Created, Update, Call
  <2>6. CASE OperationSteps
      BY <2>6 DEF OperationSteps, EraseRetired, EraseFoundBad, EraseBlock, EraseMark, Remap, RemapFails,
         MapFull, GiveUp, Failed, WriteBlock, ReadBlock, Marked, Release, Forget, Update, Return, Call
  <2>7. CASE Requests \/ PowerCut
      BY <2>7 DEF Requests, PowerCut, Forget, Refuse, EraseRequest, WriteRequest, Request, ReadRequest,
         MarkBadBlock, MarkUnmapped, Detach, Update
  <2>8. CASE UNCHANGED vars
      BY <2>8 DEF vars
  <2>. QED BY <2>1, <2>2, <2>3, <2>4, <2>5, <2>6, <2>7, <2>8 DEF Next, Work
<1>. QED BY <1>2, <1>3 DEF BornFirst

-----------------------------------------------------------------------------
(* Outside the updates the tables hold the mapping *)

\* Tables come from nmbm_write_mgmt_range only.
LEMMA LiveStays ==
    ASSUME MarksWork, ApartInv, CountInv, [Next]_vars, NEW a \in Live'
    PROVE  \/ a \in Live /\ content'[a] = content[a] /\ Image(a)' = Image(a)
           \/ TableProgram /\ a = w.ba /\ Image(a)' = cache
<1>1. a \in Blocks /\ a \notin marker' /\ content'[a].kind = "table"
    BY DEF Live
<1>2. CASE Wipes
  <2>1. content'[a] = content[a] /\ a \notin marker
      BY <1>1, <1>2, KindsDiffer DEF Wipes, Spoils
  <2>. QED BY <1>1, <2>1 DEF Live, Image
<1>3. CASE ~Wipes
  <2>1. PICK x \in Blocks : \/ TableProgram /\ x = w.ba /\ Fills(x, TableOf(cache))
                            \/ Fills(x, Signature) \/ Fills(x, DataOf(lb))
      BY <1>3, ChipSteps
  <2>2. CASE a # x
      BY <1>1, <2>1, <2>2 DEF Fills, Live, Image
  <2>3. CASE a = x
    <3>1. TableProgram /\ a = w.ba /\ content'[a] = TableOf(cache)
        BY <1>1, <2>1, <2>3, KindsDiffer DEF Fills
    <3>. QED BY <3>1, NotTables DEF Image
  <2>. QED BY <2>2, <2>3
<1>. QED BY <1>2, <1>3

\* Of two tables with one write count an attach takes either.
LEMMA TwoTell ==
    ASSUME ApartInv, CountInv, CountInv', AttachTwoTables, pc' = "idle", NEW a \in Live'
    PROVE  Tells(content'[a], mapping')
<1>1. PICK sig \in Blocks, f \in Blocks, g \in Blocks : LoadTwo(sig, f, g)
    BY DEF AttachTwoTables
<1>2. /\ UNCHANGED <<content, marker>> /\ main' = f /\ backup' = g /\ pc = "off"
      /\ FirstTable(f, sig) /\ SecondTable(f, g, sig)
      /\ content[f].image.count = content[g].image.count
      /\ mapping' \in {content[f].image.mapping, content[g].image.mapping}
    BY <1>1 DEF AttachTwoTables, LoadTwo, LoadInto, WriteTable, Goto
<1>3. f \in Live /\ g \in Live
    BY <1>2 DEF FirstTable, SecondTable, Loadables, Loadable, Live
<1>4. content[f].image = content[g].image
    BY <1>2, <1>3, CountsFollow DEF CountsIdentify, Live
<1>5. a \in {f, g} /\ content'[a].kind = "table"
    BY <1>2 DEF CountInv, Present, Running, Writing, Cleaning, Tables, Live
<1>. QED BY <1>2, <1>4, <1>5 DEF Tells

LEMMA ToldStays ==
    ASSUME MarksWork, ApartInv, CountInv, CountInv', SavedInv, SavedInv', Told, [Next]_vars
    PROVE  Told'
<1>. SUFFICES ASSUME Running', ~protected', pc' \notin Writing \cup Cleaning \cup {"update", "mapTail"},
                     changed', NEW a \in Live'
              PROVE  Tells(content'[a], mapping')
  <2>1. ASSUME Running', pc' \notin Writing \cup Cleaning, ~changed', NEW a \in Live'
        PROVE  Tells(content'[a], mapping')
    <3>1. a \in Tables'
        BY <2>1 DEF CountInv, Present
    <3>. QED BY <2>1, <3>1 DEF SavedInv, Holding, Saved
  <2>. QED BY <2>1 DEF Told
<1>0. Inv /\ ControlType
    BY DEF ApartInv, Inv, TypeOK
<1>1. ASSUME Running, pc \notin Writing \cup Cleaning \cup {"update", "mapTail"}, UNCHANGED <<protected, mapping>>
      PROVE  Tells(content'[a], mapping')
  <2>1. ~TableProgram
      BY <1>1 DEF TableProgram, InTable, Writing
  <2>2. a \in Live /\ content'[a] = content[a]
      BY <2>1, LiveStays
  <2>. QED BY <1>1, <2>2 DEF Told
<1>. USE DEF Running, Writing, Cleaning, Goto
<1>2. CASE WriteTableSteps \/ CleanSteps
    BY <1>2 DEF WriteTableSteps, CleanSteps, TableSkip, TableFoundBad, TableErase, TableProgram,
       TableMark, CleanSkip, CleanFoundBad, CleanErase, CleanMark, InTable
<1>3. CASE RebuildSteps \/ UpdateSteps
  <2>1. CASE UpdateDone \/ NewMainFails
    <3>1. CASE UpdateDone
        BY <3>1 DEF UpdateDone
    <3>2. CASE NewMainFails
        BY <3>2 DEF NewMainFails
    <3>. QED BY <2>1, <3>1, <3>2
  <2>2. CASE ~(UpdateDone \/ NewMainFails)
      BY <1>3, <2>2 DEF RebuildSteps, UpdateSteps, NewMainWritten, NewBackupFails, NewBackupWritten,
         NewBackupCleaned, RebuildDone, UpdateStart, BackupWritten, BackupFails, MainWritten, MainFailsAlone,
         Rebuild, MainFails, BackupTakesOver, TempFails, TempWritten, RescueEnds, WriteTable, CleanRange
  <2>. QED BY <2>1, <2>2
<1>4. CASE LoadSteps
  <2>1. CASE AttachOneTable
      BY <2>1 DEF AttachOneTable, LoadOne, WriteTable
  <2>2. CASE AttachTwoTables
    <3>1. pc' = "idle"
      <4>1. PICK sig \in Blocks, f \in Blocks, g \in Blocks : LoadTwo(sig, f, g)
          BY <2>2 DEF AttachTwoTables
      <4>2. Attached(TRUE) \/ pc' = "table"
          BY <4>1 DEF LoadTwo, WriteTable
      <4>. QED BY <4>2 DEF Attached, Call
    <3>. QED BY <2>2, <3>1, TwoTell
  <2>3. CASE FrontCleaned
    <3>1. pc = "clean" /\ UNCHANGED <<content, marker, mapping>>
        BY <2>3 DEF FrontCleaned, Cleaned
    <3>2. a \in {main, w.limit} /\ content'[a] = content[a]
        BY <3>1 DEF CountInv, Present, Live
    <3>3. Tells(content[a], mapping)
        BY <3>1, <3>2 DEF SavedInv, Holding, Saved
    <3>. QED BY <3>1, <3>2, <3>3
  <2>4. CASE ~(AttachOneTable \/ AttachTwoTables \/ FrontCleaned)
      BY <1>4, <2>4 DEF LoadSteps, LoadMainWritten, LoadMainFails, LoadBackupEnds, FrontWritten,
         FrontFails, NextFails, NextWritten, NextCleaned, Attached, Call, WriteTable, CleanRange
  <2>. QED BY <2>1, <2>2, <2>3, <2>4
<1>5. CASE CreateSteps
  <2>1. CASE Created
      BY <1>1, <2>1 DEF Created
  <2>2. CASE ~Created
      BY <1>5, <2>2 DEF CreateSteps, AttachNew, AttachWithoutTables, AttachRefused, SignSkip, SignFoundBad, SignErase,
         SignProgram, SignMark, SignFails, InSign, CreateTables, Rebuild, WriteTable, MapTail, MapTailEnds, TailFull, Update
  <2>. QED BY <2>1, <2>2
<1>6. CASE OperationSteps \/ Requests \/ PowerCut
  <2>1. CASE EraseRetired \/ EraseFoundBad \/ EraseBlock \/ EraseMark \/ Failed \/ WriteBlock \/ ReadBlock \/ Marked
      BY <1>1, <2>1 DEF EraseRetired, EraseFoundBad, EraseBlock, EraseMark, Failed, WriteBlock, ReadBlock, Marked
  <2>2. CASE Refuse \/ EraseRequest \/ WriteRequest \/ ReadRequest \/ MarkUnmapped
      BY <1>1, <2>2 DEF Refuse, EraseRequest, WriteRequest, Request, ReadRequest, MarkUnmapped
  <2>3. CASE Remap \/ RemapFails \/ MapFull \/ Release \/ MarkBadBlock \/ Detach \/ PowerCut
      BY <2>3 DEF Remap, RemapFails, MapFull, GiveUp, Release, MarkBadBlock, Detach, PowerCut, Forget, Update
  <2>. QED BY <1>6, <2>1, <2>2, <2>3 DEF OperationSteps, Requests
<1>7. CASE UNCHANGED vars
    BY <1>1, <1>7 DEF vars
<1>. QED BY <1>2, <1>3, <1>4, <1>5, <1>6, <1>7 DEF Next, Work

-----------------------------------------------------------------------------
(* Who owns a block *)

\* A write of data is asked of an unprotected device.
LEMMA WritableStays ==
    ASSUME Inv, Writable, [Next]_vars
    PROVE  Writable'
<1>. SUFFICES ASSUME pc' = "write" PROVE ~protected'
    BY DEF Writable
<1>0. ControlType
    BY DEF Inv, TypeOK
<1>. USE DEF Goto
<1>1. CASE WriteTableSteps \/ CleanSteps
    BY <1>1 DEF WriteTableSteps, CleanSteps, TableSkip, TableFoundBad, TableErase, TableProgram,
       TableMark, CleanSkip, CleanFoundBad, CleanErase, CleanMark, InTable
<1>2. CASE RebuildSteps \/ UpdateSteps
  <2>. USE <1>0 DEF ControlType, Returns
  <2>. QED BY <1>2 DEF RebuildSteps, UpdateSteps, NewMainFails, NewMainWritten,
       NewBackupFails, NewBackupWritten, NewBackupCleaned, RebuildDone, UpdateFails, UpdateDone, UpdateStart,
       BackupWritten, BackupFails, MainWritten, MainFailsAlone, Rebuild, MainFails, BackupTakesOver,
       TempFails, TempWritten, RescueEnds, WriteTable, CleanRange
<1>3. CASE LoadSteps
    BY <1>3 DEF LoadSteps, AttachOneTable, LoadOne, AttachTwoTables, LoadTwo, LoadMainWritten, LoadMainFails,
       LoadBackupEnds, FrontWritten, FrontCleaned, FrontFails, NextFails, NextWritten, NextCleaned,
       Attached, Call, WriteTable, CleanRange
<1>4. CASE CreateSteps
    BY <1>4 DEF CreateSteps, AttachNew, AttachWithoutTables, AttachRefused, SignSkip, SignFoundBad, SignErase, SignProgram,
       SignMark, SignFails, InSign, CreateTables, Rebuild, WriteTable, MapTail, MapTailEnds, TailFull, Created,
       Update, Call
<1>5. CASE OperationSteps \/ Requests \/ PowerCut
    BY <1>5 DEF OperationSteps, Requests, PowerCut, Forget, EraseRetired, EraseFoundBad, EraseBlock,
       EraseMark, Remap, RemapFails, MapFull, GiveUp, Failed, WriteBlock, ReadBlock, Marked, Release, Refuse,
       EraseRequest, WriteRequest, Request, ReadRequest, MarkBadBlock, MarkUnmapped, Detach, Update, Return, Call
<1>6. CASE UNCHANGED vars
    BY <1>6 DEF vars, Writable
<1>. QED BY <1>1, <1>2, <1>3, <1>4, <1>5, <1>6 DEF Next, Work

\* No new data, and no block becomes good again.
LEMMA OwnersStay ==
    ASSUME NEW ct, NEW ct2, NEW mp, NEW st, NEW st2, Owners(ct, mp, st), Worse(st, st2),
           \A b \in Blocks, k \in Logical : ct2[b] = DataOf(k) => ct[b] = DataOf(k)
    PROVE  Owners(ct2, mp, st2)
BY DEF Owners, Worse

\* No logic block is mapped to another block, and none loses a good one.
Leaves ==
    /\ Running /\ Worse(state, state')
    /\ \A l \in Logical :
         \/ mapping'[l] = mapping[l]
         \/ mapping'[l] = Unmapped /\ (mapping[l] \in Blocks => state'[mapping[l]] # "good")

LEMMA MostLeave ==
    ASSUME ApartInv, Next, Running'
    PROVE  Leaves \/ MapTail \/ Remap \/ AttachOneTable \/ AttachTwoTables \/ CreateTables
<1>. USE DEF Goto
<1>0. Inv /\ TableType /\ ControlType
    BY DEF ApartInv, Inv, TypeOK
<1>1. ASSUME Plain
      PROVE  Leaves
    BY <1>1 DEF Plain, Leaves
<1>2. CASE WriteTableSteps \/ CleanSteps \/ RebuildSteps \/ UpdateSteps
    BY <1>1, <1>2, TableWritePlain, CleanPlain, RebuildPlain, UpdatePlain
<1>3. CASE LoadSteps
    BY <1>1, <1>3, LoadPlain DEF LoadSteps
<1>4. CASE CreateSteps
  <2>1. CASE MapTailEnds \/ Created
      BY <1>1, <2>1, CreatePlain
  <2>2. CASE TailFull
      BY <2>2 DEF TailFull, Leaves, Worse, Running
  <2>3. CASE AttachNew \/ AttachWithoutTables \/ AttachRefused
      BY <2>3 DEF AttachNew, AttachWithoutTables, AttachRefused, Running
  <2>4. CASE SignSkip \/ SignFoundBad \/ SignErase \/ SignProgram \/ SignMark \/ SignFails
      BY <2>4 DEF SignSkip, SignFoundBad, SignErase, SignProgram, SignMark, SignFails, InSign, Running
  <2>. QED BY <1>4, <2>1, <2>2, <2>3, <2>4 DEF CreateSteps
<1>5. CASE OperationSteps
  <2>1. CASE RemapFails \/ MapFull
    <3>1. Running
        BY <2>1 DEF RemapFails, MapFull, Running
    <3>2. CASE GiveUp
      <4>1. Worse(state, state') /\ (Block \in Blocks => state'[Block] # "good")
          BY <1>0, <3>2 DEF GiveUp, Retire, Worse, TableType
      <4>2. mapping' = [mapping EXCEPT ![lb] = Unmapped] /\ lb \in Logical
          BY <1>0, <3>2 DEF GiveUp, ControlType
      <4>. QED BY <1>0, <3>1, <4>1, <4>2 DEF Leaves, Block, TableType, Mappings
    <3>3. CASE ~GiveUp
        BY <2>1, <3>1, <3>3 DEF RemapFails, MapFull, Leaves, Worse
    <3>. QED BY <3>2, <3>3
  <2>2. CASE Release
      BY <2>2 DEF Release, Forget, Running
  <2>. QED BY <1>1, <1>5, <2>1, <2>2, OperationPlain DEF OperationSteps
<1>6. CASE Requests
  <2>1. CASE MarkBadBlock
    <3>1. PICK l \in Logical : /\ mapping[l] # Unmapped /\ SetState(mapping[l], "bad")
                               /\ mapping' = [mapping EXCEPT ![l] = Unmapped]
        BY <2>1 DEF MarkBadBlock
    <3>2. Running
        BY <2>1 DEF MarkBadBlock, Running
    <3>. QED BY <1>0, <3>1, <3>2 DEF Leaves, SetState, Worse, TableType, Mappings
  <2>. QED BY <1>1, <1>6, <2>1, RequestPlain DEF Requests
<1>7. CASE PowerCut
    BY <1>7 DEF PowerCut, Forget, Running
<1>. QED BY <1>2, <1>3, <1>4, <1>5, <1>6, <1>7 DEF Next, Work

\* New data goes to the block of its owner.
LEMMA WriteOwns ==
    ASSUME MarksWork, ApartInv, CountInv, [Next]_vars, NEW mp, NEW st, NEW st2,
           Single(mp), Owners(content, mp, st), Worse(st, st2),
           WriteBlock /\ Usable(lb) => mp[lb] = mapping[lb]
    PROVE  Owners(content', mp, st2)
<1>. SUFFICES ASSUME NEW b \in Blocks, NEW k \in Logical, content'[b] = DataOf(k)
              PROVE  /\ \A l \in Logical : mp[l] = b => l = k
                     /\ st2[b] = "good" => mp[k] = b
    BY DEF Owners
<1>1. CASE content[b] = DataOf(k)
    BY <1>1 DEF Owners, Worse
<1>2. CASE WriteBlock /\ Usable(lb) /\ b = Block /\ k = lb
    BY <1>2 DEF Single, Block
<1>. QED BY <1>1, <1>2, DataStays

LEMMA TablesOwnStays ==
    ASSUME MarksWork, ApartInv, CountInv, OwnInv, [Next]_vars
    PROVE  TablesOwn'
<1>. SUFFICES ASSUME NEW a \in Live'
              PROVE  Single(Image(a)'.mapping) /\ Owners(content', Image(a)'.mapping, Image(a)'.state)
    BY DEF TablesOwn
<1>1. \A st : Worse(st, st)
    BY DEF Worse
<1>2. CASE a \in Live /\ Image(a)' = Image(a)
  <2>1. Single(Image(a).mapping) /\ Owners(content, Image(a).mapping, Image(a).state)
      BY <1>2 DEF OwnInv, TablesOwn
  <2>2. WriteBlock /\ Usable(lb) => Image(a).mapping[lb] = mapping[lb]
    <3>. SUFFICES ASSUME WriteBlock, Usable(lb) PROVE Image(a).mapping[lb] = mapping[lb]
        OBVIOUS
    <3>1. pc = "write" /\ lb \in Logical /\ mapping[lb] # Unmapped
        BY DEF WriteBlock, Usable, ApartInv, Inv, TypeOK, ControlType
    <3>2. Tells(content[a], mapping)
        BY <1>2, <3>1 DEF OwnInv, Told, Writable, Running, Writing, Cleaning
    <3>. QED BY <3>1, <3>2 DEF Tells, Image
  <2>3. Owners(content', Image(a).mapping, Image(a).state)
      BY <1>1, <2>1, <2>2, WriteOwns
  <2>. QED BY <1>2, <2>1, <2>3
<1>3. CASE TableProgram /\ Image(a)' = cache
  <2>1. Single(cache.mapping) /\ Owners(content, cache.mapping, cache.state) /\ ~WriteBlock
      BY <1>3 DEF OwnInv, CacheOwns, TableProgram, InTable, Writing, WriteBlock
  <2>2. Owners(content', cache.mapping, cache.state)
      BY <1>1, <2>1, WriteOwns
  <2>. QED BY <1>3, <2>1, <2>2
<1>. QED BY <1>2, <1>3, LiveStays

\* An attach takes the mapping of a table, and at least its bad blocks.
LEMMA LoadedOwns ==
    ASSUME ApartInv, OwnInv, AttachOneTable \/ AttachTwoTables
    PROVE  RamOwns'
<1>1. PICK a \in Live : mapping' = Image(a).mapping /\ Worse(Image(a).state, state')
  <2>1. CASE AttachOneTable
    <3>1. PICK sig \in Blocks, f \in Blocks : LoadOne(sig, f)
        BY <2>1 DEF AttachOneTable
    <3>2. /\ FirstTable(f, sig) /\ mapping' = content[f].image.mapping
          /\ state' = Passed(content[f].image.state, f + 1, sig - 2)
        BY <3>1 DEF LoadOne, LoadInto
    <3>3. f \in Live
        BY <3>2 DEF FirstTable, Loadables, Loadable, Live
    <3>4. Image(f).state \in [Blocks -> States]
        BY <3>3, LiveIn DEF ApartInv, Inv, TypeOK
    <3>5. Worse(Image(f).state, state')
        BY <3>2, <3>4, PassedWorse DEF Image
    <3>. QED BY <3>2, <3>3, <3>5 DEF Image
  <2>2. CASE AttachTwoTables
    <3>1. PICK sig \in Blocks, f \in Blocks, g \in Blocks : LoadTwo(sig, f, g)
        BY <2>2 DEF AttachTwoTables
    <3>2. /\ FirstTable(f, sig) /\ SecondTable(f, g, sig)
          /\ \/ mapping' = content[g].image.mapping /\ state' = content[g].image.state
             \/ /\ mapping' = content[f].image.mapping
                /\ state' = Passed(content[f].image.state, f + 1, g - 1)
        BY <3>1 DEF LoadTwo, LoadInto
    <3>3. f \in Live /\ g \in Live
        BY <3>2 DEF FirstTable, SecondTable, Loadables, Loadable, Live
    <3>4. Image(f).state \in [Blocks -> States]
        BY <3>3, LiveIn DEF ApartInv, Inv, TypeOK
    <3>5. /\ Worse(Image(f).state, Passed(Image(f).state, f + 1, g - 1))
          /\ Worse(Image(g).state, Image(g).state)
        BY <3>4, PassedWorse DEF Worse
    <3>. QED BY <3>2, <3>3, <3>5 DEF Image
  <2>. QED BY <2>1, <2>2
<1>2. Single(Image(a).mapping) /\ Owners(content, Image(a).mapping, Image(a).state)
    BY DEF OwnInv, TablesOwn
<1>3. content' = content
    BY DEF AttachOneTable, AttachTwoTables
<1>4. Single(mapping') /\ Owners(content', mapping', state')
    BY <1>1, <1>2, <1>3, OwnersStay
<1>. QED BY <1>4 DEF RamOwns

\* nmbm_map_block takes a block that nobody has and that carries no data.
LEMMA SpareOwns ==
    ASSUME NoneDisplaced, ApartInv, OwnInv, Running,
           NEW j \in Logical, NEW b \in Blocks, MapBlock(j, b), content' = content,
           \/ state' = state /\ NoData(content)
           \/ Retire(mapping[j])
    PROVE  Single(mapping') /\ Owners(content', mapping', state')
<1>0. Inv /\ mapping \in Mappings /\ state \in [Blocks -> States]
    BY DEF ApartInv, Inv, TypeOK, TableType
<1>1. /\ mapping' = [mapping EXCEPT ![j] = b] /\ b \in mapBase + 1 .. mapTop /\ state[b] = "good"
      /\ MgmtStart <= mapBase /\ mapBase \in Int /\ mapTop \in Int
    BY <1>0, TypeFacts DEF MapBlock, SpareBlock, Good, Ranges, LayoutInv, Inv
<1>2. b \in MgmtStart .. mapTop
    BY <1>1
<1>3. \A l \in Logical : mapping[l] # b
    BY <1>2 DEF NoneDisplaced
<1>4. Single(mapping) /\ Owners(content, mapping, state)
    BY DEF OwnInv, RamOwns
<1>5. /\ \A l \in Logical : l # j => mapping'[l] = mapping[l]
      /\ mapping'[j] = b
    BY <1>0, <1>1 DEF Mappings
<1>6. Single(mapping')
    BY <1>3, <1>4, <1>5 DEF Single
<1>7. ASSUME NoData(content)
      PROVE  Owners(content, mapping', state')
    BY <1>7 DEF NoData, Owners
<1>8. ASSUME Retire(mapping[j])
      PROVE  Owners(content, mapping', state')
  <2>1. \A x \in Blocks : state'[x] = "good" => state[x] = "good" /\ x # mapping[j]
      BY <1>0, <1>8 DEF Retire
  <2>2. ASSUME NEW x \in Blocks, NEW k \in Logical, content[x] = DataOf(k)
        PROVE  /\ \A l \in Logical : mapping'[l] = x => l = k
               /\ state'[x] = "good" => mapping'[k] = x
    <3>1. x # b
        BY <1>1, <1>3, <2>2, <1>4 DEF Owners
    <3>2. \A l \in Logical : mapping'[l] = x => l = k
        BY <1>4, <1>5, <2>2, <3>1 DEF Owners
    <3>3. state'[x] = "good" => mapping'[k] = x
        BY <1>4, <1>5, <2>1, <2>2 DEF Owners
    <3>. QED BY <3>2, <3>3
  <2>. HIDE DEF Blocks, Logical
  <2>. QED BY <2>2 DEF Owners
<1>. QED BY <1>6, <1>7, <1>8

LEMMA RamOwnsStays ==
    ASSUME MarksWork, NoneDisplaced, ApartInv, CountInv, OwnInv, Next
    PROVE  RamOwns'
<1>. SUFFICES ASSUME Running' PROVE Single(mapping') /\ Owners(content', mapping', state')
    BY DEF RamOwns
<1>0. Inv /\ mapping \in Mappings /\ ControlType
    BY DEF ApartInv, Inv, TypeOK, TableType
<1>1. CASE Leaves
  <2>1. Single(mapping) /\ Owners(content, mapping, state)
      BY <1>1 DEF Leaves, OwnInv, RamOwns
  <2>2. Single(mapping')
      BY <1>1, <2>1 DEF Leaves, Single
  <2>3. Owners(content', mapping, state')
      BY <1>1, <2>1, WriteOwns DEF Leaves
  <2>4. \A l \in Logical :
          \/ mapping'[l] = mapping[l]
          \/ mapping'[l] = Unmapped /\ (mapping[l] \in Blocks => state'[mapping[l]] # "good")
      BY <1>1 DEF Leaves
  <2>5. Owners(content', mapping', state')
      BY <2>3, <2>4 DEF Owners
  <2>. QED BY <2>2, <2>5
<1>2. CASE MapTail
  <2>1. PICK b \in Blocks : MapBlock(dataCount, b)
      BY <1>2 DEF MapTail
  <2>2. dataCount \in Logical /\ content' = content /\ state' = state /\ pc = "mapTail"
      BY <1>0, <1>2 DEF MapTail, Inv, TypeOK, LayoutType
  <2>3. Running /\ NoData(content)
      BY <2>2 DEF Running, OwnInv, BornFirst, Creating
  <2>. QED BY <2>1, <2>2, <2>3, SpareOwns
<1>3. CASE Remap
  <2>1. PICK b \in Blocks : MapBlock(lb, b)
      BY <1>3 DEF Remap
  <2>2. lb \in Logical /\ content' = content /\ Running /\ Retire(mapping[lb])
      BY <1>0, <1>3 DEF Remap, ControlType, Running, Block
  <2>. QED BY <2>1, <2>2, SpareOwns
<1>4. CASE AttachOneTable \/ AttachTwoTables
    BY <1>4, LoadedOwns DEF RamOwns
<1>5. CASE CreateTables
  <2>1. UNCHANGED <<content, mapping>> /\ pc = "create"
      BY <1>5 DEF CreateTables
  <2>2. NoData(content)
      BY <2>1 DEF OwnInv, BornFirst, Creating
  <2>3. Single(mapping)
      BY <2>1 DEF ApartInv, Fresh, Single
  <2>. QED BY <2>1, <2>2, <2>3 DEF Owners, NoData
<1>. QED BY <1>1, <1>2, <1>3, <1>4, <1>5, MostLeave

\* The table that is written is what the RAM is, or was when it was prepared.
LEMMA CacheIsFresh ==
    ASSUME ApartInv, Next, pc' \in Writing
    PROVE  \/ pc \in Writing /\ cache' = cache
           \/ Running' /\ cache'.mapping = mapping' /\ cache'.state = state'
<1>1. Running'
    BY DEF Writing, Running
<1>2. ASSUME Plain
      PROVE  \/ pc \in Writing /\ cache' = cache
             \/ cache'.mapping = mapping' /\ cache'.state = state'
    BY <1>2 DEF Plain, GenerateCache
<1>3. CASE WriteTableSteps \/ CleanSteps \/ RebuildSteps \/ UpdateSteps
    BY <1>1, <1>2, <1>3, TableWritePlain, CleanPlain, RebuildPlain, UpdatePlain
<1>4. CASE LoadSteps
  <2>1. CASE AttachOneTable
    <3>1. PICK sig \in Blocks, f \in Blocks : LoadOne(sig, f)
        BY <2>1 DEF AttachOneTable
    <3>. QED BY <1>1, <3>1 DEF LoadOne, LoadInto
  <2>2. CASE AttachTwoTables
    <3>1. PICK sig \in Blocks, f \in Blocks, g \in Blocks : LoadTwo(sig, f, g)
        BY <2>2 DEF AttachTwoTables
    <3>. QED BY <1>1, <3>1 DEF LoadTwo, LoadInto
  <2>. QED BY <1>1, <1>2, <1>4, <2>1, <2>2, LoadPlain DEF LoadSteps
<1>5. CASE CreateSteps
  <2>. USE DEF Goto, Writing
  <2>1. CASE CreateTables
      BY <1>1, <2>1 DEF CreateTables, GenerateCache
  <2>2. CASE ~CreateTables
      BY <1>5, <2>2 DEF CreateSteps, AttachNew, AttachWithoutTables, AttachRefused, SignSkip, SignFoundBad, SignErase,
         SignProgram, SignMark, SignFails, InSign, MapTail, MapTailEnds, TailFull, Created, Update, Call
  <2>. QED BY <2>1, <2>2
<1>6. CASE OperationSteps \/ Requests \/ PowerCut
    BY <1>6 DEF OperationSteps, Requests, PowerCut, Forget, EraseRetired, EraseFoundBad, EraseBlock,
       EraseMark, Remap, RemapFails, MapFull, GiveUp, Failed, WriteBlock, ReadBlock, Marked, Release, Refuse,
       EraseRequest, WriteRequest, Request, ReadRequest, MarkBadBlock, MarkUnmapped, Detach, Update, Return, Call,
       Goto, Writing
<1>. QED BY <1>3, <1>4, <1>5, <1>6 DEF Next, Work

LEMMA CacheOwnsStays ==
    ASSUME MarksWork, ApartInv, CountInv, OwnInv, RamOwns', Next
    PROVE  CacheOwns'
<1>. SUFFICES ASSUME pc' \in Writing
              PROVE  Single(cache'.mapping) /\ Owners(content', cache'.mapping, cache'.state)
    BY DEF CacheOwns
<1>1. CASE pc \in Writing /\ cache' = cache
  <2>1. Single(cache.mapping) /\ Owners(content, cache.mapping, cache.state)
      BY <1>1 DEF OwnInv, CacheOwns
  <2>2. ~WriteBlock /\ Worse(cache.state, cache.state)
      BY <1>1 DEF WriteBlock, Writing, Worse
  <2>3. Owners(content', cache.mapping, cache.state)
      BY <2>1, <2>2, WriteOwns
  <2>. QED BY <1>1, <2>1, <2>3
<1>2. CASE Running' /\ cache'.mapping = mapping' /\ cache'.state = state'
    BY <1>2 DEF RamOwns
<1>. QED BY <1>1, <1>2, CacheIsFresh

-----------------------------------------------------------------------------

LEMMA InitOwns == Init => OwnInv
<1>. SUFFICES ASSUME Init PROVE OwnInv
    OBVIOUS
<1>1. /\ \A b \in Blocks : content[b] \in {Blank, Torn}
      /\ marker \subseteq Blocks /\ pc = "off"
    BY EnvironmentAssumption DEF Init
<1>2. Live = {} /\ NoData(content) /\ \A b \in Blocks : content[b] # Signature /\ content[b].kind # "table"
    BY <1>1, KindsDiffer DEF Live, NoData
<1>3. RamOwns /\ CacheOwns /\ Told /\ Writable
    BY <1>1 DEF RamOwns, CacheOwns, Told, Writable, Running, Writing
<1>4. TablesOwn /\ OneSignature
    BY <1>1, <1>2 DEF TablesOwn, OneSignature
<1>5. BornFirst
    BY <1>1, <1>2 DEF BornFirst, Serving, Creating, Starting, Returning, Writing, Cleaning
<1>. QED BY <1>3, <1>4, <1>5 DEF OwnInv

LEMMA NextOwns ==
    ASSUME MarksWork, ~ForcedCreate, NoneDisplaced, ApartInv, CountInv, CountInv', SavedInv, SavedInv',
           OwnInv, [Next]_vars
    PROVE  OwnInv'
<1>1. BornFirst' /\ OneSignature' /\ Told' /\ Writable' /\ TablesOwn'
    BY BornStays, SignatureStays, ToldStays, WritableStays, TablesOwnStays DEF OwnInv, ApartInv
<1>2. RamOwns' /\ CacheOwns'
  <2>1. CASE Next
      BY <2>1, RamOwnsStays, CacheOwnsStays
  <2>2. CASE UNCHANGED vars
    <3>1. RamOwns'
        BY <2>2 DEF OwnInv, RamOwns, Running, vars
    <3>2. CacheOwns'
        BY <2>2 DEF OwnInv, CacheOwns, Writing, vars
    <3>. QED BY <3>1, <3>2
  <2>. QED BY <2>1, <2>2
<1>. QED BY <1>1, <1>2 DEF OwnInv

\* What a mapped block may hold once each block with data is its owner's.
LEMMA OwnReads ==
    ASSUME NoneDisplaced, ApartInv, CountInv, OwnInv
    PROVE  ReadsOwn
<1>. SUFFICES ASSUME Running, NEW l \in Logical, Usable(l)
              PROVE  content[mapping[l]] \in {Blank, Torn, DataOf(l)}
    BY DEF ReadsOwn
<1>1. /\ mapping[l] \in Blocks /\ mapping[l] < sigBlock /\ sigBlock \in Blocks
      /\ content[mapping[l]] \in Contents
  <2>1. mapping[l] \in Blocks /\ mapping[l] < sigBlock
      BY MappedBelow DEF Usable
  <2>. QED BY <2>1, TypeFacts DEF ApartInv, ChipType
<1>2. content[mapping[l]].kind # "table"
  <2>1. mapping[l] \notin Live
      BY MappedIsNotLive
  <2>. QED BY <1>1, <2>1 DEF Live, OwnInv, OneSignature
<1>3. content[mapping[l]] # Signature
  <2>1. content[sigBlock] = Signature
      BY DEF ApartInv, SignKept, Signs
  <2>. QED BY <1>1, <2>1 DEF OwnInv, OneSignature
<1>4. ASSUME NEW k \in Logical, content[mapping[l]] = DataOf(k)
      PROVE  k = l
    BY <1>1, <1>4 DEF OwnInv, RamOwns, Owners
<1>. QED BY <1>1, <1>2, <1>3, <1>4 DEF Contents

\* A read of a logic block returns blank pages, an ECC error or data that was written
\* to that logic block, never another's data, a table or the signature: through any
\* failed erases and programs, power cuts in the middle of them, updates and attaches.
\* Provided that bad marks can be written and read, that no spare block was skipped
\* (see SpareWasUnused), and that NMBM_F_CREATE is not given again once the chip is in
\* use: an attach that then finds no table maps the data area anew.
THEOREM NothingForeignIsRead ==
    MarksWork /\ ~ForcedCreate => (Spec /\ []NoneDisplaced => []ReadsOwn)
<1>. SUFFICES ASSUME MarksWork, ~ForcedCreate PROVE Spec /\ []NoneDisplaced => []ReadsOwn
    OBVIOUS
<1>. DEFINE I == ApartInv /\ CountInv /\ SavedInv /\ OwnInv
<1>1. Init => I
    BY InitApart, InitCount, InitSaved, InitOwns
<1>2. NoneDisplaced /\ I /\ [Next]_vars => I'
  <2>. SUFFICES ASSUME NoneDisplaced, I, [Next]_vars PROVE I'
      OBVIOUS
  <2>1. ApartInv' /\ CountInv'
      BY NextCounts
  <2>2. CountsIdentify /\ TablesUnused
      BY CountsFollow, TablesLieApart DEF ApartInv
  <2>3. SavedInv'
      BY <2>1, <2>2, NextSaves DEF ApartInv
  <2>4. OwnInv'
      BY <2>1, <2>3, NextOwns
  <2>. QED BY <2>1, <2>3, <2>4
<1>3. NoneDisplaced /\ I => ReadsOwn
    BY OwnReads
<1>. HIDE DEF I
<1>. QED BY <1>1, <1>2, <1>3, PTL DEF Spec

-----------------------------------------------------------------------------
(* NMBM implements InfoStore *)

\* Block b holds a table with the mapping.
Exact(b) == b \in Live /\ Image(b).mapping = mapping

\* The tables stand that are not being written.
Stand ==
    /\ pc \in Writing /\ w.ret = "backup" => main \in Live
    /\ Running /\ pc \notin Writing \cup Cleaning => Tables \subseteq Live

\* An update leaves no table behind that gives a logic block another block.
Certain ==
    /\ pc \in Writing =>
         /\ w.ret = "newBackup" => Exact(main)
         /\ w.ret \in {"main", "temp"} /\ backup # NoBlock => Exact(backup)
         /\ w.ret = "rescue" => Exact(w.limit)
    /\ pc \in Cleaning /\ w.ret = "newBackup" => Exact(main) /\ Exact(w.limit)

StandInv == Stand /\ Certain

\* The decisions taken between two operations leave the chip alone.
LEMMA ChipWaits ==
    ASSUME RebuildSteps \/ UpdateSteps \/ LoadSteps
    PROVE  UNCHANGED <<content, marker>>
<1>1. CASE RebuildSteps
    BY <1>1 DEF RebuildSteps, NewMainFails, NewMainWritten, NewBackupFails, NewBackupWritten, NewBackupCleaned
<1>2. CASE UpdateSteps
    BY <1>2 DEF UpdateSteps, UpdateDone, UpdateStart, BackupWritten, BackupFails, MainWritten,
       MainFailsAlone, MainFails, TempFails, TempWritten, RescueEnds
<1>3. CASE LoadSteps
    BY <1>3 DEF LoadSteps, AttachOneTable, AttachTwoTables, LoadMainWritten, LoadMainFails, LoadBackupEnds,
       FrontWritten, FrontCleaned, FrontFails, NextFails, NextWritten, NextCleaned
<1>. QED BY <1>1, <1>2, <1>3

LEMMA StandsOut ==
    ASSUME NEW b \in Live, NEW x, b # x, OnlyAt(x)
    PROVE  b \in Live' /\ content'[b] = content[b] /\ Image(b)' = Image(b)
BY DEF OnlyAt, Live, Image

\* No step touches a table but the one in the place of which another is written, or that
\* nmbm_erase_range has come to.
LEMMA TablesStand ==
    ASSUME NoneDisplaced, ApartInv, CountInv, [Next]_vars, NEW b \in Live,
           pc \in Writing \cup Cleaning => ~(b = w.ba /\ w.ba < w.limit)
    PROVE  b \in Live' /\ content'[b] = content[b] /\ Image(b)' = Image(b)
<1>0. /\ Inv /\ ChipType /\ ControlType /\ TableType /\ pc \notin Starting \cup {"create", "attachFails"}
      /\ b \in Blocks
    BY DEF ApartInv, Inv, TypeOK, CountInv, Empty, Live
<1>1. ASSUME UNCHANGED <<content, marker>>
      PROVE  b \in Live' /\ content'[b] = content[b] /\ Image(b)' = Image(b)
    BY <1>1 DEF Live, Image
<1>2. Running => \A l \in Logical : mapping[l] # b
    BY MappedIsNotLive
<1>3. pc \in Writing \cup Cleaning /\ w.ba < w.limit => w.ba \in Blocks /\ w.ba # b
  <2>1. pc \in Writing \cup Cleaning => w.limit <= mapTop
      BY <1>0 DEF Inv, Ranges, WriteInv, CleanInv
  <2>. QED BY <1>0, <2>1, TypeFacts
<1>4. CASE WriteTableSteps
  <2>1. CASE TableSkip \/ TableFoundBad
      BY <1>1, <2>1 DEF TableSkip, TableFoundBad
  <2>2. CASE TableErase \/ TableProgram \/ TableMark
    <3>1. w.ba \in Blocks /\ w.ba # b
        BY <1>0, <1>3, <2>2 DEF TableErase, TableProgram, TableMark, InTable, Inv, Ranges, WriteInv, Writing
    <3>2. OnlyAt(w.ba)
        BY <1>0, <2>2, <3>1, ErasesAt, ProgramsAt, MarksAt DEF TableErase, TableProgram, TableMark
    <3>. QED BY <3>1, <3>2, StandsOut
  <2>. QED BY <1>4, <2>1, <2>2 DEF WriteTableSteps
<1>5. CASE CleanSteps
  <2>1. CASE CleanSkip \/ CleanFoundBad
      BY <1>1, <2>1 DEF CleanSkip, CleanFoundBad
  <2>2. CASE CleanErase \/ CleanMark
    <3>1. w.ba \in Blocks /\ w.ba # b
        BY <1>0, <1>3, <2>2 DEF CleanErase, CleanMark, InTable, Inv, Ranges, CleanInv, Cleaning
    <3>2. OnlyAt(w.ba)
        BY <1>0, <2>2, <3>1, ErasesAt, MarksAt DEF CleanErase, CleanMark
    <3>. QED BY <3>1, <3>2, StandsOut
  <2>. QED BY <1>5, <2>1, <2>2 DEF CleanSteps
<1>6. CASE RebuildSteps \/ UpdateSteps \/ LoadSteps
    BY <1>1, <1>6, ChipWaits
<1>7. CASE CreateSteps
    BY <1>0, <1>1, <1>7 DEF CreateSteps, AttachNew, AttachWithoutTables, AttachRefused, SignSkip, SignFoundBad, SignErase, SignProgram,
       SignMark, SignFails, InSign, Starting, CreateTables, MapTail, MapTailEnds, TailFull, Created
<1>8. CASE OperationSteps
  <2>1. CASE EraseBlock \/ EraseMark \/ (WriteBlock /\ Usable(lb))
    <3>1. Block \in Blocks /\ Block # b
        BY <1>0, <1>2, <2>1 DEF EraseBlock, EraseMark, WriteBlock, Usable, Block, Running, TableType, ControlType,
           Mappings, Inv, Ranges, EraseInv
    <3>2. OnlyAt(Block)
        BY <1>0, <2>1, <3>1, ErasesAt, ProgramsAt, MarksAt DEF EraseBlock, EraseMark, WriteBlock
    <3>. QED BY <3>1, <3>2, StandsOut
  <2>2. CASE ~(EraseBlock \/ EraseMark \/ (WriteBlock /\ Usable(lb)))
      BY <1>1, <1>8, <2>2 DEF OperationSteps, EraseRetired, EraseFoundBad, Remap, RemapFails, MapFull, Failed,
         WriteBlock, ReadBlock, Marked, Release
  <2>. QED BY <2>1, <2>2
<1>9. CASE Requests
  <2>1. CASE MarkBadBlock
    <3>1. PICK l \in Logical : mapping[l] # Unmapped /\ MarkBad(mapping[l])
        BY <2>1 DEF MarkBadBlock
    <3>2. mapping[l] \in Blocks /\ mapping[l] # b
        BY <1>0, <1>2, <2>1, <3>1 DEF MarkBadBlock, Running, TableType, Mappings
    <3>3. OnlyAt(mapping[l])
        BY <1>0, <3>1, <3>2, MarksAt
    <3>. QED BY <3>2, <3>3, StandsOut
  <2>2. CASE ~MarkBadBlock
      BY <1>1, <1>9, <2>2 DEF Requests, Refuse, EraseRequest, WriteRequest, Request, ReadRequest, MarkUnmapped, Detach
  <2>. QED BY <2>1, <2>2
<1>10. CASE PowerCut
  <2>1. CASE UNCHANGED content
      BY <1>1, <1>10, <2>1 DEF PowerCut
  <2>2. ASSUME NEW x \in InFlight, content' = [content EXCEPT ![x] = Torn]
        PROVE  b \in Live' /\ content'[b] = content[b] /\ Image(b)' = Image(b)
    <3>1. x # b
      <4>1. CASE pc \in {"program", "table", "clean"}
        <5>1. x = w.ba /\ w.ba < w.limit
            BY <1>0, <2>2, <4>1 DEF InFlight, Inv, Ranges, WriteInv, Writing
        <5>. QED BY <1>3, <4>1, <5>1 DEF Writing, Cleaning
      <4>2. CASE pc \in {"erase", "write"}
          BY <1>0, <1>2, <2>2, <4>2 DEF InFlight, Block, Running, ControlType
      <4>. QED BY <1>0, <2>2, <4>1, <4>2 DEF InFlight, Starting
    <3>2. OnlyAt(x)
        BY <1>0, <1>10, <2>2 DEF OnlyAt, PowerCut, ChipType
    <3>. QED BY <3>1, <3>2, StandsOut
  <2>. QED BY <1>10, <2>1, <2>2 DEF PowerCut
<1>11. CASE UNCHANGED vars
    BY <1>1, <1>11 DEF vars
<1>. QED BY <1>4, <1>5, <1>6, <1>7, <1>8, <1>9, <1>10, <1>11 DEF Next, Work

LEMMA SavedLive ==
    ASSUME OneSignature, NEW b \in Blocks, Saved(b)
    PROVE  b \in Live
BY DEF OneSignature, Saved, Tells, Live

\* The table that has just been written is the mapping.
LEMMA WrittenExact ==
    ASSUME Inv, CountInv, pc = "written"
    PROVE  Exact(w.ba) /\ w.ba \in Blocks /\ w.ba < w.limit /\ Image(w.ba) = cache
<1>1. w.ba \in Blocks /\ w.ba < w.limit
    BY WriteFacts DEF Writing, Inv, Ranges, WriteInv
<1>2. content[w.ba] = TableOf(cache) /\ cache.mapping = mapping /\ w.ba \notin marker
    BY DEF CountInv, Cached, Writing
<1>. QED BY <1>1, <1>2, NotTables DEF Exact, Live, Image

\* The loops of nmbm_write_mgmt_range and nmbm_erase_range.
LEMMA TurnStands ==
    ASSUME NoneDisplaced, ApartInv, CountInv, StandInv, Turn, [Next]_vars
    PROVE  StandInv'
<1>. USE DEF Turn, Writing, Cleaning
<1>0. /\ Inv /\ BackupBelow /\ mapping' = mapping /\ w'.ret = w.ret /\ w'.limit = w.limit
      /\ UNCHANGED <<main, backup>>
    BY DEF ApartInv
<1>1. /\ main \in Blocks /\ backup \in Blocks /\ mapBase \in Blocks /\ w.ba \in Nat /\ w.limit \in Nat
    BY <1>0, TypeFacts
<1>2. CASE pc \in Writing /\ pc' \in Writing
  <2>1. w.ret = "backup" => main \in Live'
      BY <1>1, <1>2, TablesStand DEF StandInv, Stand, CountInv, Course
  <2>2. w.ret = "newBackup" => Exact(main)'
    <3>. SUFFICES ASSUME w.ret = "newBackup" PROVE Exact(main)'
        OBVIOUS
    <3>1. Exact(main) /\ main # w.ba
        BY <1>1, <1>2 DEF StandInv, Certain, CountInv, Course
    <3>2. main \in Live' /\ Image(main)' = Image(main)
        BY <1>2, <3>1, TablesStand DEF Exact
    <3>. QED BY <1>0, <3>1, <3>2 DEF Exact, Image
  <2>3. w.ret \in {"main", "temp"} /\ backup # NoBlock => Exact(backup)'
    <3>. SUFFICES ASSUME w.ret \in {"main", "temp"}, backup # NoBlock PROVE Exact(backup)'
        OBVIOUS
    <3>1. Exact(backup)
        BY <1>2 DEF StandInv, Certain
    <3>2. ~(backup = w.ba /\ w.ba < w.limit)
        BY <1>0, <1>1, <1>2 DEF CountInv, Course, BackupBelow, Running, Stuck
    <3>3. backup \in Live' /\ Image(backup)' = Image(backup)
        BY <1>2, <3>1, <3>2, TablesStand DEF Exact
    <3>. QED BY <1>0, <3>1, <3>3 DEF Exact, Image
  <2>4. w.ret = "rescue" => Exact(w.limit)'
    <3>. SUFFICES ASSUME w.ret = "rescue" PROVE Exact(w.limit)'
        OBVIOUS
    <3>1. Exact(w.limit)
        BY <1>2 DEF StandInv, Certain
    <3>2. w.limit \in Live' /\ Image(w.limit)' = Image(w.limit)
        BY <1>1, <1>2, <3>1, TablesStand DEF Exact
    <3>. QED BY <1>0, <3>1, <3>2 DEF Exact, Image
  <2>. QED BY <1>0, <1>2, <2>1, <2>2, <2>3, <2>4 DEF StandInv, Stand, Certain
<1>3. CASE pc \in Cleaning /\ pc' \in Cleaning
  <2>1. w.ret = "newBackup" => Exact(main)' /\ Exact(w.limit)'
    <3>. SUFFICES ASSUME w.ret = "newBackup" PROVE Exact(main)' /\ Exact(w.limit)'
        OBVIOUS
    <3>1. Exact(main) /\ Exact(w.limit) /\ main # w.ba
        BY <1>1, <1>3 DEF StandInv, Certain, CountInv, Course
    <3>2. main \in Live' /\ Image(main)' = Image(main)
        BY <1>3, <3>1, TablesStand DEF Exact
    <3>3. w.limit \in Live' /\ Image(w.limit)' = Image(w.limit)
        BY <1>1, <1>3, <3>1, TablesStand DEF Exact
    <3>. QED BY <1>0, <3>1, <3>2, <3>3 DEF Exact, Image
  <2>. QED BY <1>0, <1>3, <2>1 DEF StandInv, Stand, Certain
<1>. QED BY <1>2, <1>3

\* The callers: a table that has been written is the mapping.
LEMMA CallersStand ==
    ASSUME Inv, CountInv, SavedInv, OneSignature, StandInv, RebuildSteps \/ UpdateSteps
    PROVE  StandInv'
<1>. USE DEF Goto, Exhausted, Written, Cleaned, TableStart, TableEnd, WriteTable, CleanRange
<1>0. /\ ControlType /\ main \in Blocks /\ backup \in Blocks /\ w.ba \in Nat /\ w.limit \in Nat
      /\ (pc \in Writing => w.limit \in Blocks)
  <2>1. pc \in Writing => w.limit \in Blocks
      BY TypeFacts, WriteFacts
  <2>. QED BY <2>1, TypeFacts DEF Inv, TypeOK
<1>1. Live' = Live /\ \A b : Image(b)' = Image(b)
    BY ChipWaits DEF Live, Image
<1>2. mapping' = mapping
    BY DEF RebuildSteps, UpdateSteps, NewMainFails, NewMainWritten, NewBackupFails, NewBackupWritten,
       NewBackupCleaned, UpdateDone, UpdateStart, GenerateCache, BackupWritten, BackupFails, MainWritten,
       MainFailsAlone, MainFails, TempFails, TempWritten, RescueEnds
<1>3. \A b : Exact(b) => b \in Live /\ Live' = Live /\ Image(b)' = Image(b) /\ Image(b).mapping = mapping'
    BY <1>1, <1>2 DEF Exact
<1>4. pc = "written" => Exact(w.ba)
    BY WrittenExact
<1>5. \A b \in Blocks : Saved(b) => b \in Live
    BY SavedLive
<1>. USE DEF Writing, Cleaning, StandInv, Stand, Certain, SavedInv, Aside, Holding, Tables
<1>6. CASE RebuildSteps
  <2>. USE DEF RebuildDone, UpdateFails, Returns, ControlType
  <2>1. CASE NewMainFails
      BY <1>0, <2>1 DEF NewMainFails
  <2>2. CASE NewMainWritten
      BY <1>0, <1>1, <1>3, <1>4, <2>2 DEF NewMainWritten, Exact
  <2>3. CASE NewBackupFails
      BY <1>0, <1>1, <1>3, <2>3 DEF NewBackupFails, Exact
  <2>4. CASE NewBackupWritten
      BY <1>0, <1>1, <1>3, <1>4, <2>4 DEF NewBackupWritten, Exact
  <2>5. CASE NewBackupCleaned
      BY <1>0, <1>1, <1>3, <2>5 DEF NewBackupCleaned, Exact
  <2>. QED BY <1>6, <2>1, <2>2, <2>3, <2>4, <2>5 DEF RebuildSteps
<1>7. CASE UpdateSteps
  <2>. USE DEF BackupTakesOver
  <2>1. CASE UpdateDone
      BY <1>0, <1>1, <2>1 DEF UpdateDone, Running, Returns, ControlType
  <2>2. CASE UpdateStart
      BY <1>1, <2>2 DEF UpdateStart, Running, Inv, Ranges, LayoutInv
  <2>3. CASE BackupWritten
      BY <1>0, <1>1, <1>3, <1>4, <2>3 DEF BackupWritten, Exact
  <2>4. CASE BackupFails
      BY <2>4 DEF BackupFails
  <2>5. CASE MainWritten
      BY <1>0, <1>1, <1>3, <1>4, <2>5 DEF MainWritten, Exact
  <2>6. CASE MainFailsAlone
      BY <2>6 DEF MainFailsAlone, Rebuild
  <2>7. CASE MainFails \/ TempFails
      BY <1>0, <1>1, <1>2, <1>3, <2>7 DEF MainFails, TempFails, Exact, Inv, Ranges, WriteInv
  <2>8. CASE TempWritten
      BY <1>0, <1>1, <1>3, <1>4, <2>8 DEF TempWritten, Exact
  <2>9. CASE RescueEnds
      BY <1>0, <1>1, <1>3, <1>4, <2>9 DEF RescueEnds, Exact
  <2>. QED BY <1>7, <2>1, <2>2, <2>3, <2>4, <2>5, <2>6, <2>7, <2>8, <2>9 DEF UpdateSteps
<1>. QED BY <1>6, <1>7

\* The attach writes no table over the only one, and looks at no mapping.
LEMMA LoadStands ==
    ASSUME Inv, CountInv, SavedInv, OneSignature, StandInv, LoadSteps
    PROVE  StandInv'
<1>. USE DEF Goto, Exhausted, Written, Cleaned, TableStart, TableEnd, WriteTable, CleanRange, Attached, Call
<1>0. /\ main \in Blocks /\ backup \in Blocks /\ w.ba \in Nat /\ w.limit \in Nat
      /\ (pc \in Writing \cup Cleaning => w.limit \in Blocks)
  <2>1. pc \in Writing \cup Cleaning => w.limit <= mapTop
      BY DEF Inv, Ranges, WriteInv, CleanInv
  <2>. QED BY <2>1, TypeFacts
<1>1. Live' = Live
    BY ChipWaits DEF Live
<1>4. pc = "written" => w.ba \in Live
    BY WrittenExact DEF Exact
<1>5. \A b \in Blocks : Saved(b) => b \in Live
    BY SavedLive
<1>6. CASE AttachOneTable
    BY <1>6 DEF AttachOneTable, LoadOne, StandInv, Stand, Certain, Writing, Cleaning
<1>7. CASE AttachTwoTables
  <2>1. PICK sig \in Blocks, f \in Blocks, g \in Blocks : LoadTwo(sig, f, g)
      BY <1>7 DEF AttachTwoTables
  <2>2. f \in Live /\ g \in Live
      BY <2>1 DEF LoadTwo, FirstTable, SecondTable, Loadables, Loadable, Live
  <2>3. /\ main' = f /\ backup' = g
        /\ pc' = "idle" \/ (pc' = "table" /\ w'.ret \in {"loadMain", "loadBackup"})
      BY <2>1 DEF LoadTwo
  <2>. QED BY <1>1, <2>2, <2>3 DEF StandInv, Stand, Certain, Writing, Cleaning, Tables
<1>8. CASE ~(AttachOneTable \/ AttachTwoTables)
  <2>. USE DEF Writing, Cleaning, StandInv, Stand, Certain, SavedInv, Aside, Holding, Tables
  <2>1. CASE LoadMainWritten
      BY <1>0, <1>1, <1>4, <1>5, <2>1 DEF LoadMainWritten
  <2>2. CASE LoadMainFails
      BY <2>2 DEF LoadMainFails
  <2>3. CASE LoadBackupEnds
      BY <1>0, <1>1, <1>4, <1>5, <2>3 DEF LoadBackupEnds
  <2>4. CASE FrontWritten
      BY <2>4 DEF FrontWritten
  <2>5. CASE FrontCleaned
      BY <1>0, <1>1, <1>5, <2>5 DEF FrontCleaned
  <2>6. CASE FrontFails
      BY <1>0, <1>1, <1>5, <2>6 DEF FrontFails
  <2>7. CASE NextFails
      BY <1>0, <1>1, <1>5, <2>7 DEF NextFails
  <2>8. CASE NextWritten
      BY <2>8 DEF NextWritten
  <2>9. CASE NextCleaned
      BY <1>0, <1>1, <1>5, <2>9 DEF NextCleaned
  <2>. QED BY <1>8, <2>1, <2>2, <2>3, <2>4, <2>5, <2>6, <2>7, <2>8, <2>9 DEF LoadSteps
<1>. QED BY <1>6, <1>7, <1>8

\* Any other step touches no table.
LEMMA QuietStands ==
    ASSUME NoneDisplaced, ApartInv, CountInv, StandInv,
           CreateSteps \/ OperationSteps \/ Requests \/ PowerCut
    PROVE  StandInv'
<1>. USE DEF Goto
<1>0. [Next]_vars
    BY DEF Next, Work
<1>1. CASE CreateTables
    BY <1>1 DEF CreateTables, Rebuild, WriteTable, StandInv, Stand, Certain, Running, Writing, Cleaning
<1>2. CASE ~CreateTables
  <2>1. /\ pc' \notin Writing \cup Cleaning
        /\ Running' => Running /\ pc \notin Writing \cup Cleaning /\ UNCHANGED <<main, backup>>
    <3>. USE DEF Running, Writing, Cleaning, Update, Call, Return
    <3>1. CASE CreateSteps
        BY <1>2, <3>1 DEF CreateSteps, AttachNew, AttachWithoutTables, AttachRefused, SignSkip, SignFoundBad, SignErase,
           SignProgram, SignMark, SignFails, InSign, MapTail, MapTailEnds, TailFull, Created
    <3>2. CASE OperationSteps
        BY <3>2 DEF OperationSteps, EraseRetired, EraseFoundBad, EraseBlock, EraseMark, Remap, RemapFails,
           MapFull, GiveUp, Failed, WriteBlock, ReadBlock, Marked, Release, Forget
    <3>3. CASE Requests \/ PowerCut
        BY <3>3 DEF Requests, Refuse, EraseRequest, WriteRequest, Request, ReadRequest, MarkBadBlock,
           MarkUnmapped, Detach, PowerCut, Forget
    <3>. QED BY <1>2, <3>1, <3>2, <3>3
  <2>2. Running' => Tables' \subseteq Live'
    <3>. SUFFICES ASSUME Running', NEW t \in Tables' PROVE t \in Live'
        OBVIOUS
    <3>1. t \in Live
        BY <2>1 DEF Tables, StandInv, Stand
    <3>. QED BY <1>0, <2>1, <3>1, TablesStand
  <2>. QED BY <2>1, <2>2 DEF StandInv, Stand, Certain
<1>. QED BY <1>1, <1>2

LEMMA NextStands ==
    ASSUME NoneDisplaced, ApartInv, CountInv, SavedInv, OneSignature, StandInv, [Next]_vars
    PROVE  StandInv'
<1>0. Inv
    BY DEF ApartInv
<1>1. CASE WriteTableSteps \/ CleanSteps
    BY <1>0, <1>1, TableTurns, CleanTurns, TurnStands
<1>2. CASE RebuildSteps \/ UpdateSteps \/ LoadSteps
    BY <1>0, <1>2, CallersStand, LoadStands
<1>3. CASE CreateSteps \/ OperationSteps \/ Requests \/ PowerCut
    BY <1>3, QuietStands
<1>4. CASE UNCHANGED vars
  <2>1. Live' = Live /\ \A b : Exact(b)' <=> Exact(b)
      BY <1>4 DEF Exact, Live, Image, vars
  <2>. QED BY <1>4, <2>1 DEF StandInv, Stand, Certain, Writing, Cleaning, Running, Tables, vars
<1>. QED BY <1>1, <1>2, <1>3, <1>4 DEF Next, Work

-----------------------------------------------------------------------------
(* What the next attach finds *)

\* An attach reads every table that lies below the signature.
LEMMA LiveIsFound ==
    ASSUME ApartInv, CountInv, NEW sig \in Blocks, SignatureAt(sig), NEW b \in Live, b < sig - 1
    PROVE  b \in Loadables(MgmtStart, NoImage.state, sig)
<1>1. b \in Blocks /\ b \notin marker /\ content[b].kind = "table" /\ MgmtStart <= b
    BY LiveAbove DEF Live
<1>2. Image(b).state[b] = "good" /\ \A l \in Logical : Image(b).mapping[l] \notin MgmtStart .. b + 1
    BY DEF CountInv, Fit
<1>3. Image(b).mapping \in Mappings
    BY LiveIn DEF ApartInv, Inv, TypeOK
<1>4. \A l \in Logical : MgmtStart <= Image(b).mapping[l] => Image(b).mapping[l] < sig
    BY <1>1 DEF ApartInv, TablesSound, Sound, Image
<1>5. MgmtStart <= sig
    BY DEF SignatureAt
<1>6. ASSUME NEW l \in Logical
      PROVE  Image(b).mapping[l] \notin (MgmtStart .. b) \cup {sig}
    BY <1>1, <1>2, <1>3, <1>4, <1>5, <1>6, MappedInt
<1>7. Accepted(content[b].image, b, sig)
    BY <1>2, <1>6 DEF Accepted, Image
<1>8. NoImage.state[b] = "good"
    BY <1>1 DEF NoImage
<1>. QED BY <1>1, <1>7, <1>8 DEF Loadables, Loadable

\* An attach finds tables exactly if a block holds one.
LEMMA TablesFound == ApartInv /\ CountInv /\ OneSignature => (HasTable <=> Live # {})
<1>. SUFFICES ASSUME ApartInv, CountInv, OneSignature
              PROVE  HasTable <=> Live # {}
    OBVIOUS
<1>0. Inv /\ ControlType
    BY DEF ApartInv, Inv, TypeOK
<1>1. ASSUME NEW b \in Live
      PROVE  HasTable
  <2>1. b \in Blocks /\ content[b].kind = "table"
      BY DEF Live
  <2>2. PICK s \in Blocks : Signs(s)
      BY <2>1 DEF ApartInv, TablesSound
  <2>3. PICK sig \in Blocks : SignatureAt(sig)
      BY <2>2, HighestSignature
  <2>4. CASE pc = "off"
      BY <2>1, <2>3, <2>4, LiveIsFound DEF CountInv, Findable, HasTable
  <2>5. CASE Running
    <3>1. b < mapTop /\ mapTop < sigBlock
        BY <1>0, <2>5 DEF CountInv, Known, Follows, Inv, Ranges, LayoutInv
    <3>2. sig = sigBlock
        BY <1>0, <2>3, <2>5, TypeFacts DEF ApartInv, SignKept, Signs, SignatureAt, OneSignature
    <3>3. b < sig - 1
        BY <1>0, <2>1, <3>1, <3>2, TypeFacts
    <3>. QED BY <2>3, <3>3, LiveIsFound DEF HasTable
  <2>6. CASE pc \in Starting \cup {"create", "attachFails"}
      BY <2>6 DEF CountInv, Empty
  <2>. QED BY <2>4, <2>5, <2>6 DEF Running, Starting
<1>2. ASSUME HasTable
      PROVE  Live # {}
  <2>1. PICK sig \in Blocks : Loadables(MgmtStart, NoImage.state, sig) # {}
      BY <1>2 DEF HasTable
  <2>. QED BY <2>1 DEF Loadables, Loadable, Live
<1>. QED BY <1>1, <1>2

\* The table at b is one of the mappings that an attach may find.
Listed(b) == Image(b).mapping \in disk

\* A table that differs from a newer one is not loaded, and is written again.
Outdated(a) ==
    /\ pc = "off" \/ Renewed(a)
    /\ \E b \in Live : Image(a).count < Image(b).count /\ Listed(b)

\* The mappings on the chip, and the one of an attached device, are among those that an
\* attach may find.
DiskInv ==
    /\ disk = {} <=> Live = {}
    /\ pc # "off" => disk = {} \/ mapping \in disk
    /\ \A a \in Live : Listed(a) \/ Outdated(a)

LEMMA OnceReturns ==
    ASSUME [Next]_vars, OnceDone
    PROVE  (RebuildSteps \/ UpdateSteps) /\ mapping' = mapping
<1>. USE DEF Goto, Exhausted, Written, Cleaned, TableStart, TableEnd, WriteTable, CleanRange
<1>0. pc \in {"written", "table", "clean"} /\ pc' = "update"
    BY DEF OnceDone
<1>1. RebuildSteps \/ UpdateSteps
  <2>1. ~(WriteTableSteps \/ CleanSteps)
      BY <1>0 DEF WriteTableSteps, CleanSteps, TableSkip, TableFoundBad, TableErase, TableProgram, TableMark,
         CleanSkip, CleanFoundBad, CleanErase, CleanMark, InTable
  <2>2. ~LoadSteps
      BY <1>0 DEF LoadSteps, AttachOneTable, AttachTwoTables, LoadMainWritten, LoadMainFails,
         LoadBackupEnds, FrontWritten, FrontCleaned, FrontFails, NextFails, NextWritten, NextCleaned, Attached, Call
  <2>3. ~(CreateSteps \/ OperationSteps \/ Requests \/ PowerCut \/ UNCHANGED vars)
      BY <1>0 DEF CreateSteps, AttachNew, AttachWithoutTables, AttachRefused, SignSkip, SignFoundBad, SignErase,
         SignProgram, SignMark, SignFails, InSign, CreateTables, MapTail, MapTailEnds, TailFull, Created,
         OperationSteps, EraseRetired, EraseFoundBad, EraseBlock, EraseMark, Remap, RemapFails, MapFull, Failed,
         WriteBlock, ReadBlock, Marked, Release, Requests, Refuse, EraseRequest, WriteRequest, Request,
         ReadRequest, MarkBadBlock, MarkUnmapped, Detach, PowerCut, Forget, vars
  <2>. QED BY <2>1, <2>2, <2>3 DEF Next, Work
<1>2. mapping' = mapping
    BY <1>1 DEF RebuildSteps, UpdateSteps, NewMainFails, NewMainWritten, NewBackupFails, NewBackupWritten,
       NewBackupCleaned, UpdateDone, UpdateStart, GenerateCache, BackupWritten, BackupFails, MainWritten,
       MainFailsAlone, MainFails, TempFails, TempWritten, RescueEnds
<1>. QED BY <1>1, <1>2

\* After an update every table is the mapping.
LEMMA OnceExact ==
    ASSUME Inv, CountInv, CountInv', SavedInv, StandInv, [Next]_vars, OnceDone, NEW a \in Live'
    PROVE  Image(a)' .mapping = mapping'
<1>. USE DEF Goto, Exhausted, Written, Cleaned, TableStart, TableEnd, WriteTable, CleanRange
<1>0. pc \in {"written", "table", "clean"} /\ pc' = "update"
    BY DEF OnceDone
<1>1. RebuildSteps \/ UpdateSteps
    BY OnceReturns
<1>2. Live' = Live /\ \A b : Image(b)' = Image(b)
    BY <1>1, ChipWaits DEF Live, Image
<1>3. mapping' = mapping
    BY OnceReturns
<1>4. a \in Tables' /\ a \in Blocks
    BY <1>0 DEF CountInv, Present, Running, Writing, Cleaning, Live
<1>5. Exact(a)
  <2>. USE <1>0 DEF StandInv, Certain, Writing, Cleaning, Tables
  <2>0. pc = "written" => Exact(w.ba)
      BY WrittenExact
  <2>1. CASE RebuildSteps
    <3>1. CASE NewMainWritten
        BY <1>4, <2>0, <3>1 DEF NewMainWritten, SavedInv, Aside
    <3>2. CASE NewBackupFails
        BY <1>4, <3>2 DEF NewBackupFails, SavedInv, Aside
    <3>3. CASE NewBackupCleaned
        BY <1>4, <3>3 DEF NewBackupCleaned, SavedInv, Aside
    <3>4. CASE NewMainFails \/ NewBackupWritten
        BY <1>4, <3>4, TypeFacts DEF NewMainFails, UpdateFails, NewBackupWritten, Inv, TypeOK, ControlType, Returns
    <3>. QED BY <2>1, <3>1, <3>2, <3>3, <3>4 DEF RebuildSteps
  <2>2. CASE UpdateSteps
    <3>1. CASE MainWritten
        BY <1>4, <2>0, <3>1 DEF MainWritten
    <3>2. CASE (MainFails \/ TempFails) /\ BackupTakesOver
        BY <1>4, <3>2 DEF MainFails, TempFails, BackupTakesOver
    <3>3. CASE RescueEnds
        BY <1>4, <2>0, <3>3 DEF RescueEnds
    <3>4. CASE ~(MainWritten \/ ((MainFails \/ TempFails) /\ BackupTakesOver) \/ RescueEnds)
        BY <2>2, <3>4 DEF UpdateSteps, UpdateDone, UpdateStart, BackupWritten, BackupFails,
           MainFailsAlone, Rebuild, MainFails, TempFails, TempWritten
    <3>. QED BY <3>1, <3>2, <3>3, <3>4
  <2>. QED BY <1>1, <2>1, <2>2
<1>. QED BY <1>2, <1>3, <1>5 DEF Exact

\* The older of two tables is written again, or is as new as the other.
LEMMA RenewedStays ==
    ASSUME MarksWork, ApartInv, CountInv, [Next]_vars, NEW a \in Live, a \in Live', content'[a] = content[a],
           Renewed(a), pc' # "off"
    PROVE  Renewed(a)' \/ Image(a).mapping = mapping'
<1>. USE DEF Goto, Exhausted, Written, Cleaned, Writing
<1>0. /\ Inv /\ a = w.ba /\ w.ba < w.limit /\ pc \in Writing /\ w.ret \in {"loadMain", "loadBackup"}
      /\ w.ba \in Blocks /\ w.ba \notin marker /\ state[w.ba] = "good" /\ w.ba \in Nat /\ w.limit \in Nat
    BY TypeFacts DEF ApartInv, Renewed, CountInv, Known, Follows, Live, Running
<1>1. CASE WriteTableSteps
  <2>1. ~TableSkip /\ ~TableFoundBad
      BY <1>0, MarksAreSeen DEF TableSkip, TableFoundBad
  <2>2. ~TableMark
    <3>. SUFFICES ASSUME TableMark PROVE FALSE
        OBVIOUS
    <3>1. content'[w.ba] = Torn
        BY <1>0, MarksAreSeen DEF TableMark, ApartInv, Inv, TypeOK, ChipType
    <3>. QED BY <1>0, <3>1, NotTables DEF Live
  <2>3. CASE TableErase \/ TableProgram
      BY <1>0, <2>3 DEF TableErase, TableProgram, InTable, Renewed
  <2>. QED BY <1>1, <2>1, <2>2, <2>3 DEF WriteTableSteps
<1>2. CASE LoadMainWritten \/ LoadBackupEnds
  <2>1. pc = "written" \/ w.limit <= w.ba
      BY <1>0, <1>2 DEF LoadMainWritten, LoadBackupEnds
  <2>2. mapping' = mapping
      BY <1>2 DEF LoadMainWritten, LoadBackupEnds
  <2>. QED BY <1>0, <2>1, <2>2, WrittenExact DEF Exact
<1>3. CASE UNCHANGED vars
    BY <1>0, <1>3 DEF Renewed, vars
<1>4. CASE CleanSteps \/ RebuildSteps \/ UpdateSteps
    BY <1>0, <1>4 DEF CleanSteps, CleanSkip, CleanFoundBad, CleanErase, CleanMark, InTable,
       RebuildSteps, UpdateSteps, NewMainFails, NewMainWritten, NewBackupFails, NewBackupWritten,
       NewBackupCleaned, UpdateDone, UpdateStart, BackupWritten, BackupFails, MainWritten,
       MainFailsAlone, MainFails, TempFails, TempWritten, RescueEnds
<1>5. CASE LoadSteps /\ ~LoadMainWritten /\ ~LoadBackupEnds
  <2>1. CASE AttachOneTable \/ AttachTwoTables
      BY <1>0, <2>1 DEF AttachOneTable, AttachTwoTables
  <2>2. CASE LoadMainFails
      BY <1>0, <2>2 DEF LoadMainFails
  <2>3. CASE FrontWritten \/ FrontCleaned \/ FrontFails \/ NextFails \/ NextWritten \/ NextCleaned
      BY <1>0, <2>3 DEF FrontWritten, FrontCleaned, FrontFails, NextFails, NextWritten, NextCleaned
  <2>. QED BY <1>5, <2>1, <2>2, <2>3 DEF LoadSteps
<1>6. CASE CreateSteps \/ OperationSteps \/ Requests \/ PowerCut
    BY <1>0, <1>6 DEF CreateSteps, AttachNew, AttachWithoutTables, AttachRefused, SignSkip, SignFoundBad, SignErase,
         SignProgram, SignMark, SignFails, InSign, CreateTables, MapTail, MapTailEnds, TailFull, Created,
         OperationSteps, EraseRetired, EraseFoundBad, EraseBlock, EraseMark, Remap, RemapFails, MapFull, Failed,
         WriteBlock, ReadBlock, Marked, Release, Requests, Refuse, EraseRequest, WriteRequest, Request,
         ReadRequest, MarkBadBlock, MarkUnmapped, Detach, PowerCut, Forget
<1>. QED BY <1>1, <1>2, <1>3, <1>4, <1>5, <1>6 DEF Next, Work

\* An attach loads the newest table, and writes the other one again if it is older.
LEMMA AttachLists ==
    ASSUME ApartInv, CountInv, CountInv', AttachOneTable \/ AttachTwoTables, NEW a \in Live
    PROVE  \/ Image(a).mapping = mapping'
           \/ /\ Renewed(a)'
              /\ \E b \in Live : Image(a).count < Image(b).count /\ Image(b).mapping = mapping'
<1>. USE DEF Goto
<1>0. /\ pc = "off" /\ ChipType /\ a \in Blocks /\ a \notin marker /\ content[a].kind = "table"
      /\ Image(a).count \in Nat /\ Image(a).state[a] = "good"
  <2>1. pc = "off"
      BY DEF AttachOneTable, AttachTwoTables
  <2>. QED BY <2>1, LiveIn DEF ApartInv, Inv, TypeOK, CountInv, Fit
<1>1. CASE AttachOneTable
  <2>1. PICK sig \in Blocks, f \in Blocks : LoadOne(sig, f)
      BY <1>1 DEF AttachOneTable
  <2>2. mapping' = Image(f).mapping /\ SignatureAt(sig) /\ Loadables(f + 1, Image(f).state, sig) = {}
      BY <2>1 DEF LoadOne, LoadInto, Image
  <2>3. a = f
    <3>1. f \in Live
        BY <2>1 DEF LoadOne, FirstTable, Loadables, Loadable, Live
    <3>2. f <= a
      <4>1. a \in Loadables(MgmtStart, NoImage.state, sig)
          BY <1>0, <2>2, LiveIsFound DEF CountInv, Findable
      <4>. QED BY <2>1, <4>1 DEF LoadOne, FirstTable
    <3>3. ~(f < a)
      <4>. SUFFICES ASSUME f < a PROVE FALSE
          OBVIOUS
      <4>1. Image(f).state[a] = "good" /\ f + 1 \in Nat /\ f + 1 <= a
          BY <1>0, <3>1 DEF CountInv, Fit
      <4>. QED BY <1>0, <2>2, <4>1, LiveLoadable
    <3>. QED BY <1>0, <3>2, <3>3
  <2>. QED BY <2>2, <2>3
<1>2. CASE AttachTwoTables
  <2>1. PICK sig \in Blocks, f \in Blocks, g \in Blocks : LoadTwo(sig, f, g)
      BY <1>2 DEF AttachTwoTables
  <2>2. f \in Live /\ g \in Live /\ f < g
      BY <2>1 DEF LoadTwo, FirstTable, SecondTable, Loadables, Loadable, Live
  <2>3. Image(f).count \in Nat /\ Image(g).count \in Nat
      BY <1>0, <2>2, LiveIn
  <2>4. a \in {f, g}
    <3>1. PICK x, y \in Blocks : Live \subseteq {x, y}
        BY <1>0 DEF CountInv, Findable
    <3>. QED BY <2>2, <3>1
  <2>5. Image(f).count = Image(g).count => Image(f) = Image(g)
      BY <2>2 DEF CountInv, Lineage
  <2>6. mapping' = IF Image(g).count > Image(f).count THEN Image(g).mapping ELSE Image(f).mapping
      BY <2>1 DEF LoadTwo, LoadInto, Newer, Image
  <2>10. \/ Image(f).count = Image(g).count
         \/ /\ Image(f).count < Image(g).count
            /\ pc' = "table" /\ w'.ret = "loadMain" /\ w'.ba = f /\ w'.limit = g
         \/ /\ Image(f).count > Image(g).count
            /\ pc' = "table" /\ w'.ret = "loadBackup" /\ w'.ba = g /\ w'.limit = mapTop'
    <3>1. \/ content[f].image.count = content[g].image.count
          \/ content[f].image.count < content[g].image.count /\ WriteTable(f, g, "loadMain")
          \/ content[f].image.count > content[g].image.count /\ WriteTable(g, mapTop', "loadBackup")
        BY <2>1 DEF LoadTwo
    <3>. QED BY <3>1 DEF Image, WriteTable
  <2>7. CASE Image(f).count < Image(g).count
    <3>1. pc' = "table" /\ w'.ret = "loadMain" /\ w'.ba = f /\ w'.limit = g
        BY <2>3, <2>7, <2>10
    <3>2. Renewed(f)'
        BY <2>2, <3>1 DEF Renewed, Writing
    <3>. QED BY <2>2, <2>3, <2>4, <2>6, <2>7, <3>2
  <2>8. CASE Image(g).count < Image(f).count
    <3>1. pc' = "table" /\ w'.ret = "loadBackup" /\ w'.ba = g /\ w'.limit = mapTop'
        BY <2>3, <2>8, <2>10
    <3>2. g < mapTop'
      <4>1. g \in Live'
          BY <1>2, <2>2 DEF AttachTwoTables, Live
      <4>. QED BY <3>1, <4>1 DEF CountInv, Known, Follows, Running
    <3>3. Renewed(g)'
        BY <3>1, <3>2 DEF Renewed, Writing
    <3>. QED BY <2>2, <2>3, <2>4, <2>6, <2>8, <3>3
  <2>. QED BY <2>3, <2>4, <2>5, <2>6, <2>7, <2>8
<1>. QED BY <1>1, <1>2

\* With a table on the chip an attach loads it.
LEMMA AttachesFirst ==
    ASSUME CountInv', NEW a \in Live, [Next]_vars, pc = "off", pc' # "off"
    PROVE  AttachOneTable \/ AttachTwoTables
<1>. USE DEF Goto
<1>1. CASE WriteTableSteps \/ CleanSteps \/ RebuildSteps \/ UpdateSteps
    BY <1>1 DEF WriteTableSteps, TableSkip, TableFoundBad, TableErase, TableProgram, TableMark,
       CleanSteps, CleanSkip, CleanFoundBad, CleanErase, CleanMark, InTable,
       RebuildSteps, UpdateSteps, NewMainFails, NewMainWritten, NewBackupFails, NewBackupWritten,
       NewBackupCleaned, UpdateDone, UpdateStart, BackupWritten, BackupFails, MainWritten,
       MainFailsAlone, MainFails, TempFails, TempWritten, RescueEnds, Written, Exhausted, Cleaned
<1>2. CASE LoadSteps
    BY <1>2 DEF LoadSteps, LoadMainWritten, LoadMainFails, LoadBackupEnds, FrontWritten,
       FrontCleaned, FrontFails, NextFails, NextWritten, NextCleaned, Written, Exhausted, Cleaned
<1>3. CASE CreateSteps
  <2>1. CASE AttachNew \/ AttachWithoutTables
    <3>1. Live' = Live /\ pc' \in Starting \cup {"create"}
        BY <2>1 DEF AttachNew, AttachWithoutTables, Live, Starting
    <3>. QED BY <3>1 DEF CountInv, Empty
  <2>2. CASE ~(AttachNew \/ AttachWithoutTables)
      BY <1>3, <2>2 DEF CreateSteps, AttachRefused, SignSkip, SignFoundBad, SignErase, SignProgram, SignMark, SignFails, InSign,
         CreateTables, MapTail, MapTailEnds, TailFull, Created
  <2>. QED BY <2>1, <2>2
<1>4. CASE OperationSteps \/ Requests \/ PowerCut \/ UNCHANGED vars
    BY <1>4 DEF OperationSteps, EraseRetired, EraseFoundBad, EraseBlock, EraseMark, Remap, RemapFails, MapFull, Failed,
       WriteBlock, ReadBlock, Marked, Release, Requests, Refuse, EraseRequest, WriteRequest, Request,
       ReadRequest, MarkBadBlock, MarkUnmapped, Detach, PowerCut, vars
<1>. QED BY <1>1, <1>2, <1>3, <1>4 DEF Next, Work

LEMMA DiskStays ==
    ASSUME MarksWork, NoneDisplaced, ApartInv, CountInv, SavedInv, OneSignature, StandInv, DiskInv,
           ApartInv', CountInv', HasTable' <=> Live' # {}, [Next]_vars, Remember
    PROVE  DiskInv'
<1>0. Inv /\ Inv' /\ ControlType /\ ControlType'
    BY DEF ApartInv, Inv, TypeOK
<1>1. ASSUME NEW a \in Live', pc' = "off"
      PROVE  a \in Live /\ content'[a] = content[a] /\ Image(a)' = Image(a)
    BY <1>1, LiveStays DEF TableProgram, Goto
<1>2. disk' = {} <=> Live' = {}
    BY <1>1 DEF Remember, DiskInv
<1>3. pc' # "off" => disk' = {} \/ mapping' \in disk'
    BY DEF Remember
<1>4. ASSUME NEW a \in Live', NEW b \in Live, Renewed(a), a \in Live, b # a
      PROVE  b \in Live' /\ Image(b)' = Image(b)
    BY <1>4, TablesStand DEF Renewed, Writing, Cleaning
<1>5. ASSUME NEW a \in Live'
      PROVE  Listed(a)' \/ Outdated(a)'
  <2>1. CASE TableProgram /\ Image(a)' = cache
    <3>1. mapping' = cache.mapping /\ pc' # "off" /\ ~OnceDone
        BY <2>1 DEF TableProgram, InTable, Goto, CountInv, Cached, Writing, OnceDone
    <3>2. mapping' \in disk'
        BY <3>1, <1>2, <1>3
    <3>. QED BY <2>1, <3>1, <3>2 DEF Listed
  <2>2. CASE a \in Live /\ content'[a] = content[a] /\ Image(a)' = Image(a)
    <3>0. Image(a).count \in Nat /\ \A b \in Live : Image(b).count \in Nat
        BY <1>0, <2>2, LiveIn DEF Inv, TypeOK
    <3>1. CASE pc' = "off"
      <4>1. disk' = disk
          BY <3>1 DEF Remember
      <4>2. ASSUME Outdated(a)
            PROVE  Outdated(a)'
        <5>1. PICK b \in Live : Image(a).count < Image(b).count /\ Listed(b)
            BY <4>2 DEF Outdated
        <5>2. b # a
            BY <3>0, <5>1
        <5>3. b \in Live' /\ Image(b)' = Image(b)
          <6>1. CASE pc = "off"
              BY <6>1, TablesStand DEF Writing, Cleaning
          <6>2. CASE Renewed(a)
              BY <1>4, <2>2, <5>2, <6>2
          <6>. QED BY <4>2, <6>1, <6>2 DEF Outdated
        <5>. QED BY <2>2, <3>1, <4>1, <5>1, <5>3 DEF Outdated, Listed
      <4>. QED BY <2>2, <4>1, <4>2 DEF DiskInv, Listed
    <3>2. CASE pc' # "off" /\ OnceDone
      <4>1. disk' = {mapping'}
          BY <3>2 DEF Remember
      <4>. QED BY <1>0, <3>2, <4>1, OnceExact DEF Listed
    <3>3. CASE pc' # "off" /\ pc = "off"
      <4>1. disk' = {mapping'}
          BY <3>3 DEF Remember
      <4>2. AttachOneTable \/ AttachTwoTables
          BY <2>2, <3>3, AttachesFirst
      <4>3. \A b \in Live : b \in Live' /\ Image(b)' = Image(b)
          BY <3>3, TablesStand DEF Writing, Cleaning
      <4>4. \/ Image(a).mapping = mapping'
            \/ /\ Renewed(a)'
               /\ \E b \in Live : Image(a).count < Image(b).count /\ Image(b).mapping = mapping'
          BY <2>2, <4>2, AttachLists
      <4>. QED BY <2>2, <4>1, <4>3, <4>4 DEF Outdated, Listed
    <3>4. CASE pc' # "off" /\ ~OnceDone /\ pc # "off"
      <4>1. disk' = disk \cup {mapping'}
        <5>1. disk # {}
            BY <2>2 DEF DiskInv
        <5>. QED BY <3>4, <5>1 DEF Remember
      <4>2. ASSUME Outdated(a)
            PROVE  Listed(a)' \/ Outdated(a)'
        <5>1. PICK b \in Live : Image(a).count < Image(b).count /\ Listed(b)
            BY <4>2 DEF Outdated
        <5>2. Renewed(a) /\ b # a
            BY <3>0, <3>4, <4>2, <5>1 DEF Outdated
        <5>3. b \in Live' /\ Image(b)' = Image(b)
            BY <1>4, <2>2, <5>2
        <5>4. Renewed(a)' \/ Image(a).mapping = mapping'
            BY <2>2, <3>4, <5>2, RenewedStays
        <5>. QED BY <2>2, <4>1, <5>1, <5>3, <5>4 DEF Outdated, Listed
      <4>. QED BY <2>2, <4>1, <4>2 DEF DiskInv, Listed
    <3>. QED BY <3>1, <3>2, <3>3, <3>4
  <2>. QED BY <2>1, <2>2, LiveStays
<1>. QED BY <1>2, <1>3, <1>5 DEF DiskInv

-----------------------------------------------------------------------------
(* Each step is one of the information store *)

\* While there are two tables one of them stands.
LEMMA OneStands ==
    ASSUME Inv, BackupBelow, CountInv, SavedInv, OneSignature, StandInv, Running, backup # NoBlock
    PROVE  \E b \in Live : pc \in Writing \cup Cleaning => ~(b = w.ba /\ w.ba < w.limit)
<1>0. main \in Blocks /\ backup \in Blocks /\ mapBase \in Blocks /\ w.ba \in Nat /\ w.limit \in Nat /\ w.ret \in Callers
    BY TypeFacts
<1>1. \A b \in Blocks : Saved(b) => b \in Live
    BY SavedLive
<1>2. CASE pc \in Writing
  <2>1. w.ret \notin {"none", "newMain", "newBackup", "front", "next"}
      BY <1>2 DEF SavedInv, Aside, BackupBelow, Inv, Ranges, WriteInv
  <2>2. CASE w.ret \in {"backup", "loadBackup"}
    <3>1. main \in Live /\ main # w.ba
        BY <1>0, <1>1, <1>2, <2>2 DEF StandInv, Stand, SavedInv, Holding, CountInv, Course
    <3>. QED BY <3>1
  <2>3. CASE w.ret \in {"main", "temp", "loadMain"}
    <3>1. backup \in Live
        BY <1>0, <1>1, <1>2, <2>3 DEF SavedInv, Holding
    <3>2. w.ret # "temp" => w.limit = backup
        BY <1>2, <2>3 DEF CountInv, Course, Inv, Ranges, WriteInv
    <3>3. w.ret = "temp" => backup < mapBase /\ mapBase <= w.ba
        BY <1>2 DEF BackupBelow, Stuck, Writing
    <3>4. ~(backup = w.ba /\ w.ba < w.limit)
        BY <1>0, <3>2, <3>3 DEF Blocks
    <3>. QED BY <3>1, <3>4
  <2>4. CASE w.ret = "rescue"
      BY <1>0, <1>2, <2>4 DEF StandInv, Certain, Exact
  <2>. QED BY <1>0, <2>1, <2>2, <2>3, <2>4 DEF Callers
<1>3. CASE pc \in Cleaning
    BY <1>0, <1>1, <1>3 DEF SavedInv, Holding, Aside
<1>4. CASE pc \notin Writing \cup Cleaning
    BY <1>4 DEF StandInv, Stand, Tables
<1>. QED BY <1>2, <1>3, <1>4

\* An attached device changes one entry of the mapping at a time, between the writes
\* of the tables.
LEMMA Edits ==
    ASSUME ApartInv, Next, pc # "off", pc' # "off", mapping' # mapping
    PROVE  /\ pc \notin Writing \cup Cleaning /\ ~TableProgram
           /\ \E k \in Logical, v \in Blocks \cup {Unmapped} : mapping' = [mapping EXCEPT ![k] = v]
<1>. USE DEF Writing, Cleaning
<1>0. TableType /\ LayoutType /\ ControlType
    BY DEF ApartInv, Inv, TypeOK
<1>1. MapTail \/ Remap \/ RemapFails \/ MapFull \/ MarkBadBlock
  <2>1. ~(WriteTableSteps \/ CleanSteps)
      BY DEF WriteTableSteps, TableSkip, TableFoundBad, TableErase, TableProgram, TableMark,
         CleanSteps, CleanSkip, CleanFoundBad, CleanErase, CleanMark, InTable
  <2>2. ~(RebuildSteps \/ UpdateSteps)
      BY DEF RebuildSteps, UpdateSteps, NewMainFails, NewMainWritten, NewBackupFails, NewBackupWritten,
         NewBackupCleaned, UpdateDone, UpdateStart, GenerateCache, BackupWritten, BackupFails, MainWritten,
         MainFailsAlone, MainFails, TempFails, TempWritten, RescueEnds
  <2>3. ~LoadSteps
      BY DEF LoadSteps, AttachOneTable, AttachTwoTables, LoadMainWritten, LoadMainFails, LoadBackupEnds,
         FrontWritten, FrontCleaned, FrontFails, NextFails, NextWritten, NextCleaned
  <2>4. CreateSteps => MapTail
      BY DEF CreateSteps, AttachNew, AttachWithoutTables, AttachRefused, SignSkip, SignFoundBad, SignErase,
         SignProgram, SignMark, SignFails, InSign, CreateTables, GenerateCache, MapTailEnds, TailFull, Created
  <2>5. OperationSteps => Remap \/ RemapFails \/ MapFull
      BY DEF OperationSteps, EraseRetired, EraseFoundBad, EraseBlock, EraseMark, Failed,
         WriteBlock, ReadBlock, Marked, Release, Forget
  <2>6. Requests \/ PowerCut => MarkBadBlock
      BY DEF Requests, Refuse, EraseRequest, WriteRequest, Request, ReadRequest, MarkUnmapped, Detach,
         PowerCut, Forget
  <2>. QED BY <2>1, <2>2, <2>3, <2>4, <2>5, <2>6 DEF Next, Work
<1>2. pc \in {"mapTail", "remap", "mapFull", "idle"}
    BY <1>1 DEF MapTail, Remap, RemapFails, MapFull, MarkBadBlock
<1>3. \E k \in Logical, v \in Blocks \cup {Unmapped} : mapping' = [mapping EXCEPT ![k] = v]
  <2>1. CASE MapTail
    <3>1. dataCount \in Logical
        BY <1>0, <2>1, GeometryAssumption DEF MapTail, LayoutType, Logical
    <3>2. PICK b \in Blocks : MapBlock(dataCount, b)
        BY <2>1 DEF MapTail
    <3>3. mapping' = [mapping EXCEPT ![dataCount] = b]
        BY <3>2 DEF MapBlock
    <3>. QED BY <3>1, <3>2, <3>3
  <2>2. CASE Remap
    <3>1. lb \in Logical /\ \E b \in Blocks : mapping' = [mapping EXCEPT ![lb] = b]
        BY <1>0, <2>2 DEF Remap, MapBlock, ControlType
    <3>. QED BY <3>1
  <2>3. CASE RemapFails \/ MapFull
    <3>1. lb \in Logical /\ mapping' = [mapping EXCEPT ![lb] = Unmapped]
        BY <1>0, <2>3 DEF RemapFails, MapFull, GiveUp, ControlType
    <3>. QED BY <3>1
  <2>4. CASE MarkBadBlock
    <3>1. \E l \in Logical : mapping' = [mapping EXCEPT ![l] = Unmapped]
        BY <2>4 DEF MarkBadBlock
    <3>. QED BY <3>1
  <2>. QED BY <1>1, <2>1, <2>2, <2>3, <2>4
<1>. QED BY <1>2, <1>3 DEF TableProgram, InTable

\* The mapping that an attach loads is one it may find.
LEMMA LoadsListed ==
    ASSUME ApartInv, CountInv, CountInv', DiskInv, AttachOneTable \/ AttachTwoTables
    PROVE  Live # {} => mapping' \in disk
<1>. SUFFICES ASSUME NEW a \in Live PROVE mapping' \in disk
    OBVIOUS
<1>0. pc = "off" /\ \A b \in Live : Image(b).count \in Nat
  <2>1. pc = "off"
      BY DEF AttachOneTable, AttachTwoTables
  <2>. QED BY <2>1, LiveIn DEF ApartInv, Inv, TypeOK
<1>1. PICK b \in Live : Image(b).mapping = mapping'
    BY AttachLists
<1>2. CASE Listed(b)
    BY <1>1, <1>2 DEF Listed
<1>3. ASSUME NEW c \in Live, Image(b).count < Image(c).count, Listed(c)
      PROVE  mapping' \in disk
  <2>1. CASE Image(c).mapping = mapping'
      BY <1>3, <2>1 DEF Listed
  <2>2. ASSUME NEW d \in Live, Image(c).count < Image(d).count
        PROVE  FALSE
    <3>1. PICK x \in Blocks, y \in Blocks : Live \subseteq {x, y}
        BY <1>0 DEF CountInv, Findable
    <3>2. b # c /\ c # d /\ b # d
        BY <1>0, <1>3, <2>2
    <3>. QED BY <3>1, <3>2
  <2>. QED BY <2>1, <2>2, AttachLists
<1>. QED BY <1>2, <1>3 DEF DiskInv, Outdated

\* While an instance works with two tables no step loses them all, and no attach does.
LEMMA LostAlone ==
    ASSUME NoneDisplaced, ApartInv, CountInv, SavedInv, OneSignature, StandInv, DiskInv, [Next]_vars,
           disk # {}, Live' = {}
    PROVE  pc # "off" /\ backup = NoBlock
<1>1. PICK a \in Live : TRUE
    BY DEF DiskInv
<1>2. pc # "off"
    BY <1>1, TablesStand DEF Writing, Cleaning
<1>3. Running
    BY <1>1, <1>2 DEF CountInv, Empty, Running, Starting
<1>4. ASSUME backup # NoBlock
      PROVE  FALSE
  <2>1. PICK b \in Live : pc \in Writing \cup Cleaning => ~(b = w.ba /\ w.ba < w.limit)
      BY <1>3, <1>4, OneStands DEF ApartInv
  <2>. QED BY <2>1, TablesStand
<1>. QED BY <1>2, <1>4

\* What the step of an instance does to the mappings that an attach may find.
LEMMA StepImplements ==
    ASSUME MarksWork, NoneDisplaced, ApartInv, CountInv, SavedInv, OneSignature, StandInv, DiskInv,
           ApartInv', CountInv', HasTable' <=> Live' # {}, Next, Remember
    PROVE  Store!Next
<1>. USE DEF Writing, Cleaning
<1>0. /\ mapping \in [Logical -> Blocks \cup {Unmapped}] /\ mapping' \in [Logical -> Blocks \cup {Unmapped}]
      /\ Inv /\ BackupBelow
    BY DEF ApartInv, Inv, TypeOK, TableType, Mappings
<1>1. mapping # [l \in {} |-> Unmapped]
  <2>1. 0 \in DOMAIN mapping /\ DOMAIN [l \in {} |-> Unmapped] = {}
      BY <1>0
  <2>. QED BY <2>1
<1>2. disk = {} <=> Live = {}
    BY DEF DiskInv
<1>3. ~TableProgram => Live' \subseteq Live
    BY LiveStays
<1>4. pc \notin Writing \cup Cleaning => Live \subseteq Live'
    BY TablesStand
<1>5. CASE pc' = "off"
  <2>1. disk' = disk \/ (pc # "off" /\ backup = NoBlock /\ disk' = {})
      BY <1>5, LostAlone DEF Remember
  <2>2. Store!Off
      BY <1>1, <1>5, <2>1 DEF Store!Off
  <2>. QED BY <2>2 DEF Store!Next
<1>6. CASE pc = "off" /\ pc' # "off"
  <2>1. CASE Live = {}
    <3>1. disk = {} /\ disk' = {}
        BY <1>2, <1>3, <1>6, <2>1 DEF Remember, TableProgram, InTable
    <3>2. Store!Format
        BY <1>0, <1>6, <3>1 DEF Store!Format
    <3>. QED BY <3>2 DEF Store!Next
  <2>2. CASE Live # {}
    <3>1. AttachOneTable \/ AttachTwoTables
        BY <1>6, <2>2, AttachesFirst
    <3>2. mapping' \in disk
        BY <2>2, <3>1, LoadsListed
    <3>3. disk' = {mapping'}
        BY <1>4, <1>6, <2>2 DEF Remember
    <3>4. Store!Boot
        BY <1>6, <3>2, <3>3 DEF Store!Boot
    <3>. QED BY <3>4 DEF Store!Next
  <2>. QED BY <2>1, <2>2
<1>7. CASE pc # "off" /\ pc' # "off" /\ mapping' # mapping
  <2>1. /\ pc \notin Writing \cup Cleaning /\ ~TableProgram
        /\ \E k \in Logical, v \in Blocks \cup {Unmapped} : mapping' = [mapping EXCEPT ![k] = v]
      BY <1>7, Edits
  <2>2. Live' = Live /\ ~OnceDone
      BY <1>3, <1>4, <2>1 DEF OnceDone
  <2>3. disk' = IF disk = {} THEN {} ELSE disk \cup {mapping'}
      BY <1>2, <1>7, <2>2 DEF Remember
  <2>4. Store!Edit
      BY <1>1, <1>7, <2>1, <2>3 DEF Store!Edit
  <2>. QED BY <2>4 DEF Store!Next
<1>8. CASE pc # "off" /\ pc' # "off" /\ mapping' = mapping
  <2>1. CASE disk' = {mapping}
    <3>1. Store!Save
        BY <1>1, <1>8, <2>1 DEF Store!Save
    <3>. QED BY <3>1 DEF Store!Next
  <2>2. CASE disk' = disk
      BY <1>8, <2>2 DEF Store!Next
  <2>3. CASE disk # {} /\ Live' = {}
    <3>1. disk' = {} /\ backup = NoBlock
        BY <2>3, LostAlone DEF Remember
    <3>2. Store!Lose
        BY <1>1, <1>8, <3>1 DEF Store!Lose
    <3>. QED BY <3>2 DEF Store!Next
  <2>4. disk' = {mapping} \/ disk' = disk \/ (disk # {} /\ Live' = {})
      BY <1>8 DEF Remember, DiskInv
  <2>. QED BY <2>1, <2>2, <2>3, <2>4
<1>. QED BY <1>5, <1>6, <1>7, <1>8

\* Whatever fails on the chip and whenever the power is cut, the next attach finds the
\* mapping of the last completed nmbm_update_info_table or one that was set after it, and
\* the mapping is lost only while a single table is left.  Provided that bad marks can be
\* written and read and that no spare block was skipped (see SpareWasUnused).
THEOREM MappingSurvives == MarksWork => (StoreSpec /\ []NoneDisplaced => ImplementsStore)
<1>. SUFFICES ASSUME MarksWork PROVE StoreSpec /\ []NoneDisplaced => Store!Spec
    BY DEF ImplementsStore
<1>. DEFINE I == ApartInv /\ CountInv /\ SavedInv /\ OneSignature /\ StandInv /\ DiskInv
            Found == HasTable <=> Live # {}
<1>1. StoreInit => I /\ Store!Init
  <2>. SUFFICES ASSUME StoreInit PROVE I /\ Store!Init
      OBVIOUS
  <2>1. ApartInv /\ CountInv /\ SavedInv /\ OneSignature
      BY InitApart, InitCount, InitSaved, InitOwns DEF StoreInit, OwnInv
  <2>2. pc = "off" /\ disk = {} /\ backup = NoBlock
      BY DEF StoreInit, Init
  <2>3. Live = {}
      BY NotTables DEF StoreInit, Init, Live
  <2>4. StandInv /\ DiskInv
      BY <2>2, <2>3 DEF StandInv, Stand, Certain, DiskInv, Running, Writing, Cleaning
  <2>. QED BY <2>1, <2>2, <2>4 DEF Store!Init
<1>2. ApartInv /\ CountInv /\ OneSignature => Found
    BY TablesFound
<1>3. NoneDisplaced /\ I /\ [StoreNext]_<<vars, disk>> => (ApartInv /\ CountInv /\ OneSignature)'
  <2>. SUFFICES ASSUME NoneDisplaced, I, [StoreNext]_<<vars, disk>>
                PROVE  ApartInv' /\ CountInv' /\ OneSignature'
      OBVIOUS
  <2>1. [Next]_vars
      BY DEF StoreNext
  <2>. QED BY <2>1, NextCounts, SignatureStays
<1>4. NoneDisplaced /\ I /\ [StoreNext]_<<vars, disk>> /\ (ApartInv /\ CountInv /\ OneSignature)' /\ Found'
        => I' /\ [Store!Next]_Store!vars
  <2>. SUFFICES ASSUME NoneDisplaced, I, [StoreNext]_<<vars, disk>>,
                       ApartInv', CountInv', OneSignature', Found'
                PROVE  I' /\ [Store!Next]_Store!vars
      OBVIOUS
  <2>1. [Next]_vars /\ CountsIdentify /\ TablesUnused
      BY CountsFollow, TablesLieApart DEF StoreNext, ApartInv
  <2>2. SavedInv'
      BY <2>1, NextSaves DEF ApartInv
  <2>3. StandInv'
      BY <2>1, NextStands
  <2>4. CASE StoreNext
    <3>1. Next /\ Remember
        BY <2>4 DEF StoreNext
    <3>2. DiskInv'
        BY <2>1, <3>1, DiskStays
    <3>3. Store!Next
        BY <3>1, StepImplements
    <3>. QED BY <2>2, <2>3, <3>2, <3>3
  <2>5. CASE UNCHANGED <<vars, disk>>
    <3>1. DiskInv'
        BY <2>5 DEF DiskInv, Listed, Outdated, Renewed, Live, Image, vars
    <3>2. UNCHANGED Store!vars
        BY <2>5 DEF Store!vars, vars
    <3>. QED BY <2>2, <2>3, <3>1, <3>2
  <2>. QED BY <2>4, <2>5
<1>. HIDE DEF I, Found
<1>. QED BY <1>1, <1>2, <1>3, <1>4, PTL DEF StoreSpec, Store!Spec
=============================================================================
