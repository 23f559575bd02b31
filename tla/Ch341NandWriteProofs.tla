----------------------- MODULE Ch341NandWriteProofs -----------------------
(***************************************************************************)
(* Theorems about Ch341NandWrite: for a chip of any size, any image, any   *)
(* number of retries and of troubles, and Ctrl-C at any moment.            *)
(***************************************************************************)
EXTENDS Ch341NandWrite, TLAPS

Changing == {"erase", "program"}
Rows == Pages \cup Blocks
Commands == {"RESET", "WREN", "WRDI", "UNLOCK", "LOCK", "LOAD", "READ", "erase", "program"}

ChipStates ==
    [op : {"none", "read", "erase", "program"}, row : Pages \cup Blocks,
     wel : BOOLEAN, locked : BOOLEAN, relocks : BOOLEAN, right : BOOLEAN,
     fail : {"none", "erase", "program"},
     cache : Contents, mark : BOOLEAN, cut : BOOLEAN]

\* A tool leaves the chip alone, loses a transfer or has it receive a command.
Given(command, r, data) ==
    /\ Receive(command, r, data) \/ UNCHANGED <<content, chip>>
    /\ UNCHANGED faults \/ Trouble("bus")

-----------------------------------------------------------------------------
(* Numbers *)

LEMMA BlockRange ==
    /\ NBlocks \in Nat \ {0} /\ NBlocks * PagesPerBlock \in Nat
    /\ NBlocks <= NBlocks * PagesPerBlock /\ 0 \in Pages /\ 0 \in Blocks
    /\ Pages \subseteq Nat /\ Blocks \subseteq Pages
<1>1. NBlocks \in Nat \ {0} /\ PagesPerBlock \in Nat /\ PagesPerBlock > 1
    BY GeometryAssumption
<1>2. NBlocks * PagesPerBlock \in Nat
    BY <1>1, SMTT(30)
<1>3. NBlocks <= NBlocks * PagesPerBlock
    BY <1>1, SMTT(30)
<1>. QED BY <1>1, <1>2, <1>3 DEF Pages, Blocks

-----------------------------------------------------------------------------
(* Troubles *)

LEMMA TroubleType ==
    ASSUME ChipType, NEW kind \in Kinds, Trouble(kind)
    PROVE  faults' \in [Kinds -> 0 .. MaxFaults]
<1>1. \A k \in Kinds : faults[k] \in 0 .. MaxFaults
    BY DEF ChipType
<1>2. faults["bus"] \in Nat /\ faults["erase"] \in Nat /\ faults["program"] \in Nat /\ MaxFaults \in Nat
    BY <1>1, GeometryAssumption DEF Kinds
<1>3. faults["bus"] + faults["erase"] + faults["program"] < MaxFaults
    BY DEF Trouble
<1>4. kind = "bus" \/ kind = "erase" \/ kind = "program"
    BY DEF Kinds
<1>5. faults[kind] + 1 \in 0 .. MaxFaults
    BY <1>2, <1>3, <1>4
<1>6. faults' = [faults EXCEPT ![kind] = faults[kind] + 1]
    BY DEF Trouble
<1>. QED BY <1>1, <1>5, <1>6 DEF ChipType

-----------------------------------------------------------------------------
(* Commands *)

LEMMA AbortedPages ==
    ASSUME ChipType
    PROVE  Aborted \in [Pages -> Contents]
<1>1. content \in [Pages -> Contents] /\ Junk \in Contents
    BY DEF ChipType, Contents
<1>2. CASE chip.op = "erase"
    BY <1>1, <1>2 DEF Aborted
<1>3. CASE chip.op = "program"
  <2>1. chip.cache \in Contents
      BY DEF ChipType
  <2>2. \A old \in Contents : HalfProgrammed(old, chip.cache) \in Contents
      BY <2>1 DEF HalfProgrammed, Contents
  <2>3. Aborted = [content EXCEPT ![chip.row] = HalfProgrammed(content[chip.row], chip.cache)]
      BY <1>3 DEF Aborted
  <2>. QED BY <1>1, <1>3, <2>2, <2>3
<1>4. CASE chip.op \notin Changing
    BY <1>1, <1>4 DEF Aborted, Changing
<1>. QED BY <1>2, <1>3, <1>4 DEF Changing

\* What a command changes.
LEMMA ReceiveStep ==
    ASSUME ChipType, NEW command \in Commands, NEW r \in Rows, NEW data \in Contents,
           Receive(command, r, data)
    PROVE  /\ chip' \in ChipStates /\ chip'.right = chip.right
           /\ content' \in [Pages -> Contents]
<1>1. chip \in ChipStates /\ content \in [Pages -> Contents]
    BY DEF ChipType, ChipStates
<1>2. content' = content => content' \in [Pages -> Contents]
    BY <1>1
<1>3. CASE command = "RESET"
  <2>1. chip' = [chip EXCEPT !.op = "none", !.wel = FALSE, !.fail = "none",
                             !.locked = chip.locked \/ chip.relocks,
                             !.cut = chip.cut \/ chip.op \in {"erase", "program"}]
        /\ content' = Aborted
      BY <1>3 DEF Receive
  <2>2. chip' \in ChipStates /\ chip'.right = chip.right
      BY <1>1, <2>1 DEF ChipStates
  <2>. QED BY <2>1, <2>2, AbortedPages
<1>4. CASE command # "RESET" /\ ~Idle
    BY <1>1, <1>2, <1>4 DEF Receive, ChipStates
<1>5. CASE command # "RESET" /\ Idle
  <2>1. content' = content
      BY <1>5 DEF Receive
  <2>2. CASE command \notin Changing \cup {"READ"}
    <3>1. \/ chip' = [chip EXCEPT !.wel = TRUE]
          \/ chip' = [chip EXCEPT !.wel = FALSE]
          \/ chip' = [chip EXCEPT !.locked = FALSE]
          \/ chip' = [chip EXCEPT !.locked = TRUE]
          \/ chip' = [chip EXCEPT !.cache = data, !.mark = FALSE]
        BY <1>5, <2>2 DEF Receive, Commands, Changing
    <3>2. chip' \in ChipStates /\ chip'.right = chip.right
        BY <1>1, <3>1 DEF ChipStates
    <3>. QED BY <1>2, <2>1, <3>2
  <2>3. CASE command = "READ"
    <3>1. chip' = [chip EXCEPT !.op = "read", !.row = r, !.fail = "none"]
        BY <1>5, <2>3 DEF Receive
    <3>2. chip' \in ChipStates /\ chip'.right = chip.right
        BY <1>1, <3>1 DEF Rows, ChipStates
    <3>. QED BY <1>2, <2>1, <2>3, <3>2
  <2>4. CASE command \in Changing
    <3>1. \/ chip' = chip
          \/ chip' = [chip EXCEPT !.fail = command, !.wel = FALSE]
          \/ chip' = [chip EXCEPT !.op = command, !.row = r, !.fail = "none"]
        BY <1>5, <2>4 DEF Receive, Changing
    <3>2. chip' \in ChipStates /\ chip'.right = chip.right
        BY <1>1, <2>4, <3>1 DEF Rows, Changing, ChipStates
    <3>. QED BY <1>2, <2>1, <2>4, <3>2
  <2>. QED BY <2>2, <2>3, <2>4
<1>. QED BY <1>3, <1>4, <1>5

\* What a call of a tool does to the chip.
LEMMA Calling ==
    ASSUME NEW command, NEW r, NEW data
    PROVE  /\ Sent(command, r, data) => Given(command, r, data)
           /\ Lost(command, r, data) => Given(command, r, data)
           /\ StatusLost => Given(command, r, data)
           /\ UNCHANGED device => Given(command, r, data)
BY DEF Sent, Lost, StatusLost, device, Given

LEMMA Resetting == Reset \/ ResetLost => Given("RESET", 0, Blank)
BY Calling DEF Reset, ResetLost

LEMMA GivenStep ==
    ASSUME ChipType, NEW command \in Commands, NEW r \in Rows, NEW data \in Contents,
           Given(command, r, data)
    PROVE  /\ ChipType' /\ chip'.right = chip.right
<1>1. faults' \in [Kinds -> 0 .. MaxFaults]
    BY TroubleType DEF Given, ChipType, Kinds
<1>2. CASE UNCHANGED <<content, chip>>
    BY <1>1, <1>2 DEF ChipType
<1>3. CASE Receive(command, r, data)
    BY <1>1, <1>3, ReceiveStep DEF ChipType, ChipStates
<1>. QED BY <1>2, <1>3 DEF Given

-----------------------------------------------------------------------------
(* The end of an operation *)

LEMMA ProgrammedType ==
    ASSUME NEW old \in Contents, NEW data \in Contents
    PROVE  Programmed(old, data) \subseteq Contents
BY DEF Programmed, Contents

LEMMA ChipDoneStep ==
    ASSUME ChipType, ChipDone
    PROVE  ChipType' /\ chip'.right = chip.right /\ chip'.op = "none"
<1>1. /\ chip \in ChipStates /\ content \in [Pages -> Contents] /\ Blank \in Contents
      /\ faults \in [Kinds -> 0 .. MaxFaults]
    BY DEF ChipType, ChipStates, Contents
<1>2. CASE ReadDone
  <2>1. chip.row \in Pages
      BY <1>1, BlockRange DEF ChipStates
  <2>. DEFINE c == content[chip.row]
              m == chip.row \in Marked
  <2>2. c \in Contents /\ m \in BOOLEAN /\ chip' = [chip EXCEPT !.op = "none", !.cache = c, !.mark = m]
      BY <1>1, <1>2, <2>1 DEF ReadDone
  <2>. HIDE DEF c, m
  <2>3. chip' \in ChipStates /\ chip'.right = chip.right /\ chip'.op = "none"
      BY <1>1, <2>2 DEF ChipStates
  <2>. QED BY <1>1, <1>2, <2>3 DEF ReadDone, ChipType, ChipStates
<1>3. CASE EraseDone
  <2>1. \/ chip' = [chip EXCEPT !.op = "none", !.wel = FALSE]
        \/ chip' = [chip EXCEPT !.op = "none", !.wel = FALSE, !.fail = "erase"]
      BY <1>3 DEF EraseDone
  <2>2. chip' \in ChipStates /\ chip'.right = chip.right /\ chip'.op = "none"
      BY <1>1, <2>1 DEF ChipStates
  <2>3. content' \in [Pages -> Contents]
      BY <1>1, <1>3, AbortedPages DEF EraseDone
  <2>4. faults' \in [Kinds -> 0 .. MaxFaults]
      BY <1>1, <1>3, TroubleType DEF EraseDone, Kinds
  <2>. QED BY <2>2, <2>3, <2>4 DEF ChipType, ChipStates
<1>4. CASE ProgramDone
  <2>1. \/ chip' = [chip EXCEPT !.op = "none", !.wel = FALSE]
        \/ chip' = [chip EXCEPT !.op = "none", !.wel = FALSE, !.fail = "program"]
      BY <1>4 DEF ProgramDone
  <2>2. chip' \in ChipStates /\ chip'.right = chip.right /\ chip'.op = "none"
      BY <1>1, <2>1 DEF ChipStates
  <2>3. content' \in [Pages -> Contents]
    <3>1. CASE content' = Aborted
        BY <3>1, AbortedPages
    <3>2. CASE \E c \in Programmed(content[chip.row], chip.cache) : content' = [content EXCEPT ![chip.row] = c]
      <4>1. chip.row \in Pages /\ chip.cache \in Contents /\ chip.op = "program"
          BY <1>1, <1>4, BlockRange DEF ChipStates, ProgramDone
      <4>2. Programmed(content[chip.row], chip.cache) \subseteq Contents
          BY <1>1, <4>1, ProgrammedType
      <4>. QED BY <1>1, <3>2, <4>1, <4>2
    <3>. QED BY <1>4, <3>1, <3>2 DEF ProgramDone
  <2>4. faults' \in [Kinds -> 0 .. MaxFaults]
      BY <1>1, <1>4, TroubleType DEF ProgramDone, Kinds
  <2>. QED BY <2>2, <2>3, <2>4 DEF ChipType, ChipStates
<1>. QED BY <1>2, <1>3, <1>4 DEF ChipDone

-----------------------------------------------------------------------------
(* The tool *)

Loops == {"erase", "program"}
Beginning == {"start", "reset", "id", "save"}
Clearing == {"clear", "unlock"}
Attempting == {"begin", "wren", "load", "armed", "execute", "wait"}

\* Which calls each stage makes, and how far its loops go.
Shape ==
    /\ pc \in Beginning => stage = "gate" /\ saved = "none"
    /\ pc \in Clearing => stage \in {"gate"} \cup Loops
    /\ pc \in {"head", "try"} \cup Attempting => stage \in Loops
    /\ pc \in {"load", "armed"} => stage = "program"
    /\ stage \in Loops => at <= Required
    /\ (stage \in Loops /\ pc \in {"try"} \cup Clearing \cup Attempting) => at < Required
    /\ (stage \in Loops /\ pc \in Clearing \cup Attempting) => attempt < Retries
    /\ pc = "restore" => saved # "none"
    /\ exit # -1 => pc = "exited"
    /\ exit = 0 => stage = "done" /\ failed["erase"] = {} /\ failed["program"] = {}

\* No transfer has failed, and no program either.
Clean == faults["bus"] = 0
Spotless == Clean /\ faults["program"] = 0

\* The chip works only while the tool waits for it.
Calm == Clean => ~chip.cut /\ (chip.op # "none" => pc = "wait")

\* A0 is saved after the only RESET that changes it, and put back at the end.
PutBack ==
    Clean =>
      /\ pc \in {"id", "save"} => (chip.relocks => chip.locked)
      /\ saved = "UNLOCK" => ~chip.relocks
      /\ (pc \in {"leave", "exited"} /\ saved # "none") => (chip.locked <=> saved = "LOCK")

\* The operation the tool waits for, or what has come of it.
Waiting ==
    /\ pc \in {"load", "armed", "execute"} => chip.wel
    /\ (pc \in {"armed", "execute"} /\ stage = "program") => chip.cache = Image[at]
    /\ pc = "wait" =>
          \/ chip.op = stage /\ chip.row = at /\ (stage = "program" => chip.cache = Image[at])
          \/ chip.op = "none" /\ chip.fail = stage
          \/ /\ chip.op = "none"
             /\ stage = "erase" => \A p \in Pages : BlockOf(p) = at => content[p] = Blank
             /\ (stage = "program" /\ failed["erase"] = {}) =>
                   \A p \in Pages : p = at => content[p] = Image[p]

\* The blocks left behind are blank, the pages left behind hold the image and
\* the pages ahead are blank, but for those on the lists.
Covered ==
    failed["erase"] = {} =>
      /\ stage = "erase" => \A p \in Pages : BlockOf(p) < at => content[p] = Blank
      /\ stage = "program" =>
            \A p \in Pages : /\ p > at => content[p] = Blank
                             /\ p = at => content[p] \in {Blank, Image[p]}
                             /\ p < at /\ failed["program"] = {} => content[p] = Image[p]
      /\ stage = "done" /\ failed["program"] = {} => \A p \in Pages : content[p] = Image[p]

\* TypeOK without the chip.
Ranges ==
    /\ pc \in Labels /\ stage \in Stages
    /\ at \in 0 .. required_pages
    /\ attempt \in 0 .. Retries
    /\ saved \in {"none", "LOCK", "UNLOCK"}
    /\ failed \in [{"erase", "program"} -> SUBSET (Blocks \cup Pages)]
    /\ stop \in BOOLEAN /\ exit \in {-1, 0, 1, 2, 130}

Inv == ChipType /\ Ranges /\ Shape /\ Calm /\ PutBack /\ (Spotless => Waiting /\ Covered)

-----------------------------------------------------------------------------
(* Numbers and types *)

LEMMA Sizes ==
    /\ required_pages \in Nat /\ required_blocks = NBlocks
    /\ Pages = 0 .. required_pages - 1 /\ Blocks = 0 .. required_blocks - 1
    /\ required_blocks \in Nat /\ required_blocks <= required_pages
    /\ Retries \in Nat \ {0} /\ 0 \in Rows /\ Blank \in Contents
    /\ \A p \in Pages : Image[p] \in Contents
<1>1. NBlocks \in Nat \ {0} /\ PagesPerBlock \in Nat /\ PagesPerBlock > 1
    BY GeometryAssumption
<1>. DEFINE all == NBlocks * PagesPerBlock
<1>2. all \in Nat /\ NBlocks <= all
    BY BlockRange
<1>3. NBlocks * PagesPerBlock <= all + PagesPerBlock - 1
    BY <1>1, <1>2
<1>4. all + PagesPerBlock - 1 < (NBlocks + 1) * PagesPerBlock
    BY <1>1, SMTT(30)
<1>. HIDE DEF all
<1>5. (all + PagesPerBlock - 1) \div PagesPerBlock = NBlocks
    BY <1>1, <1>2, <1>3, <1>4, SMTT(30)
<1>6. required_pages = all /\ required_blocks = NBlocks
    BY <1>5 DEF required_pages, required_blocks, all
<1>7. Pages = 0 .. all - 1
    BY DEF Pages, all
<1>. QED BY <1>1, <1>2, <1>6, <1>7, BlockRange, WriteAssumption, DataAssumption DEF Blocks, Contents, Rows

LEMMA BlockOfRange ==
    ASSUME NEW p \in Pages
    PROVE  BlockOf(p) \in Nat /\ BlockOf(p) < required_blocks
<1>1. NBlocks \in Nat /\ PagesPerBlock \in Nat /\ PagesPerBlock > 1 /\ p \in Nat /\ required_blocks = NBlocks
    BY GeometryAssumption, Sizes
<1>2. p < NBlocks * PagesPerBlock
    BY BlockRange DEF Pages
<1>3. p \div PagesPerBlock \in Nat /\ p \div PagesPerBlock < NBlocks
    BY <1>1, <1>2, SMTT(30)
<1>. QED BY <1>1, <1>3 DEF BlockOf

LEMMA TypeParts == TypeOK <=> ChipType /\ Ranges
BY DEF TypeOK, Ranges, required_pages

\* What a step of the tool does to the chip.
LEMMA Commanded ==
    ASSUME Inv, Tool
    PROVE  \E command \in Commands, r \in Rows, data \in Contents : Given(command, r, data)
<1>. DEFINE Some == \E command \in Commands, r \in Rows, data \in Contents : Given(command, r, data)
<1>1. 0 \in Rows /\ Blank \in Contents /\ {"RESET", "WREN", "WRDI", "UNLOCK", "LOCK", "LOAD"} \subseteq Commands
    BY Sizes DEF Commands
<1>2. Given("RESET", 0, Blank) => Some
    BY <1>1
<1>3. \A command \in Commands : Given(command, 0, Blank) => Some
    BY <1>1
<1>4. (stage \in Loops /\ at < Required) => at \in Rows
    BY Sizes DEF Inv, Ranges, Required, Rows, Loops
<1>5. (stage = "program" /\ at < Required) => at \in Pages /\ Image[at] \in Contents
    BY Sizes DEF Inv, Ranges, Required
<1>6. UNCHANGED device \/ StatusLost \/ Reset \/ ResetLost => Some
    BY <1>1, <1>2, Calling, Resetting
<1>. HIDE DEF Some
<1>7. Start \/ InitialReset \/ read_id \/ save_configuration \/ clear_protection \/ MainLoop => Some
    BY <1>6 DEF Start, InitialReset, read_id, save_configuration, clear_protection, MainLoop, Local
<1>8. ClearRegister \/ write_disable \/ cleanup => Some
    BY <1>1, <1>3, <1>6, Calling DEF ClearRegister, write_disable, cleanup
<1>9. restore_configuration => Some
  <2>. SUFFICES ASSUME restore_configuration PROVE Some
      OBVIOUS
  <2>1. saved \in Commands
      BY DEF Inv, Ranges, Shape, restore_configuration, Commands
  <2>. QED BY <1>3, <2>1, Calling DEF restore_configuration
<1>10. erase_block \/ program_page \/ BeginErase \/ BeginProgram \/ CheckAgain \/ wait_ready => Some
    BY <1>6 DEF erase_block, program_page, TryAgain, BeginErase, BeginProgram, CheckAgain, wait_ready, Local
<1>11. write_enable => Some
    BY <1>1, <1>3, <1>6, Calling DEF write_enable
<1>12. program_load => Some
  <2>. SUFFICES ASSUME program_load PROVE Some
      OBVIOUS
  <2>1. at \in Rows /\ Image[at] \in Contents /\ "LOAD" \in Commands
      BY <1>1, <1>4, <1>5 DEF Inv, Shape, program_load, Attempting, Loops
  <2>2. Given("LOAD", at, Image[at])
      BY Calling DEF program_load
  <2>. QED BY <2>1, <2>2 DEF Some
<1>13. erase_block_once \/ program_page_once => Some
  <2>. SUFFICES ASSUME erase_block_once \/ program_page_once PROVE Some
      OBVIOUS
  <2>1. at \in Rows /\ stage \in Commands
      BY <1>4 DEF Inv, Shape, erase_block_once, program_page_once, Execute, Attempting, Loops, Commands
  <2>2. Given(stage, at, Blank)
      BY Calling DEF erase_block_once, program_page_once, Execute
  <2>. QED BY <1>1, <2>1, <2>2 DEF Some
<1>14. Some
    BY <1>7, <1>8, <1>9, <1>10, <1>11, <1>12, <1>13 DEF Tool
<1>. QED BY <1>14 DEF Some

LEMMA ChipKept ==
    ASSUME Inv, Tool \/ Chip
    PROVE  ChipType' /\ (Clean' => Clean) /\ (Clean' /\ Tool => UNCHANGED faults)
<1>1. ChipType /\ faults \in [Kinds -> 0 .. MaxFaults] /\ MaxFaults \in Nat
    BY GeometryAssumption DEF Inv, ChipType
<1>2. ASSUME NEW kind \in Kinds, Trouble(kind)
      PROVE  (Clean' => Clean) /\ (kind = "bus" => ~Clean')
  <2>1. faults' = [faults EXCEPT ![kind] = faults[kind] + 1] /\ faults["bus"] \in Nat
      BY <1>1, <1>2 DEF Trouble, Kinds
  <2>. QED BY <1>1, <2>1 DEF Clean, Kinds
<1>3. UNCHANGED faults => (Clean' => Clean)
    BY DEF Clean
<1>4. CASE Tool
  <2>1. PICK command \in Commands, r \in Rows, data \in Contents : Given(command, r, data)
      BY <1>4, Commanded
  <2>2. ChipType'
      BY <1>1, <2>1, GivenStep
  <2>. QED BY <1>2, <1>3, <2>1, <2>2 DEF Given, Kinds
<1>5. CASE Chip /\ ~Tool
    BY <1>1, <1>2, <1>3, <1>5, ChipDoneStep DEF Chip, ChipDone, ReadDone, EraseDone, ProgramDone, Kinds
<1>. QED BY <1>4, <1>5

-----------------------------------------------------------------------------
(* The loops *)

LEMMA RangesInitially == Init => Ranges /\ Shape
<1>. SUFFICES ASSUME Init PROVE Ranges /\ Shape
    OBVIOUS
<1>1. failed \in [{"erase", "program"} -> SUBSET (Blocks \cup Pages)]
    BY DEF Init
<1>2. 0 \in 0 .. required_pages /\ 0 \in 0 .. Retries
    BY Sizes
<1>3. Ranges
    BY <1>1, <1>2 DEF Init, Ranges, Labels, Stages
<1>4. pc = "start" /\ stage = "gate" /\ saved = "none" /\ exit = -1
    BY DEF Init
<1>5. Shape
    BY <1>4 DEF Shape, Beginning, Clearing, Attempting, Loops
<1>. QED BY <1>3, <1>5

\* An item given up goes on the list of its loop.
LEMMA GivenUp ==
    ASSUME Ranges, Shape, stage \in Loops, at < Required, pc # "exited", GiveUp
    PROVE  Ranges' /\ Shape' /\ failed'[stage] # {} /\ (stage = "program" => failed'["erase"] = failed["erase"])
<1>1. at \in Blocks \cup Pages /\ at \in Nat /\ at + 1 <= Required /\ at + 1 \in 0 .. required_pages
    BY Sizes DEF Ranges, Required, Loops
<1>2. /\ failed' = [failed EXCEPT ![stage] = failed[stage] \cup {at}]
      /\ pc' = "head" /\ stage' = stage /\ at' = at + 1 /\ attempt' = 0 /\ UNCHANGED <<saved, stop, exit>>
    BY DEF GiveUp, NextItem, Enter
<1>3. failed' \in [{"erase", "program"} -> SUBSET (Blocks \cup Pages)] /\ at \in failed'[stage]
      /\ (stage = "program" => failed'["erase"] = failed["erase"])
    BY <1>1, <1>2 DEF Ranges, Loops
<1>4. exit = -1
    BY DEF Shape
<1>5. Ranges'
    BY <1>1, <1>2, <1>3, Sizes DEF Ranges, Labels
<1>6. Shape'
    BY <1>1, <1>2, <1>4 DEF Shape, Required, Beginning, Clearing, Attempting, Loops
<1>. QED BY <1>3, <1>5, <1>6

LEMMA RangesStep ==
    ASSUME Inv, Tool
    PROVE  Ranges' /\ Shape'
<1>1. Ranges /\ Shape /\ Retries \in Nat \ {0} /\ required_pages \in Nat /\ 0 <= required_blocks /\ 0 <= required_pages
      /\ 0 \in 0 .. required_pages
    BY Sizes DEF Inv
<1>2. pc # "exited" => exit = -1
    BY DEF Inv, Shape
<1>3. (stage \in Loops /\ at < Required /\ pc # "exited" /\ GiveUp) => Ranges' /\ Shape'
    BY <1>1, GivenUp
<1>4. (stage \in Loops /\ at < Required /\ pc # "exited" /\ NextItem /\ Quiet) => Ranges' /\ Shape'
  <2>1. (stage \in Loops /\ at < Required) => at + 1 <= Required /\ at + 1 \in 0 .. required_pages
      BY Sizes DEF Inv, Ranges, Required
  <2>. QED BY <1>1, <1>2, <2>1 DEF NextItem, Enter, Quiet, Ranges, Shape, Labels, Required, Beginning,
              Clearing, Attempting, Loops
<1>5. (stage \in Loops /\ at < Required /\ pc # "exited" /\ attempt < Retries /\ NextAttempt) => Ranges' /\ Shape'
    BY <1>1, <1>2 DEF NextAttempt, Quiet, Ranges, Shape, Labels, Required, Beginning, Clearing, Attempting,
       Loops
<1>6. CASE Start \/ InitialReset \/ read_id \/ save_configuration
    BY <1>1, <1>2, <1>6 DEF Start, InitialReset, read_id, save_configuration, Goto, Quiet, Ranges, Shape,
       Labels,
       Beginning, Clearing, Attempting, Loops
<1>7. CASE clear_protection \/ ClearRegister
  <2>1. pc \in Clearing
      BY <1>7 DEF clear_protection, ClearRegister, Clearing
  <2>2. ClearFailed \/ ClearDone \/ (Goto("unlock") /\ Quiet)
      BY <1>7 DEF clear_protection, ClearRegister, Local
  <2>3. CASE stage = "gate"
      BY <1>1, <1>2, <2>1, <2>2, <2>3 DEF ClearFailed, ClearDone, Enter, Goto, Quiet, Ranges, Shape, Labels,
         Stages,
         Required, Beginning, Clearing, Attempting, Loops
  <2>4. CASE stage # "gate"
    <3>1. stage \in Loops /\ at < Required /\ attempt < Retries
        BY <1>1, <2>1, <2>4 DEF Shape
    <3>2. CASE GiveUp
        BY <1>3, <2>1, <3>1, <3>2 DEF Clearing
    <3>3. CASE (Goto("begin") \/ Goto("unlock")) /\ Quiet
        BY <1>1, <1>2, <2>1, <3>1, <3>3 DEF Goto, Quiet, Ranges, Shape, Labels, Required, Beginning,
           Clearing, Attempting, Loops
    <3>. QED BY <2>2, <2>4, <3>2, <3>3 DEF ClearFailed, ClearDone
  <2>. QED BY <2>3, <2>4
<1>8. CASE MainLoop
  <2>1. stage \in Loops /\ at <= Required
      BY <1>1, <1>8 DEF MainLoop, Shape
  <2>. QED BY <1>1, <1>2, <1>8, <2>1, Sizes DEF MainLoop, Enter, Goto, Local, Quiet, Ranges, Shape, Labels,
              Stages,
       Required, Beginning, Clearing, Attempting, Loops
<1>9. CASE erase_block \/ program_page
  <2>1. pc = "try" /\ stage \in Loops /\ at < Required
      BY <1>1, <1>9 DEF erase_block, program_page, TryAgain, Shape
  <2>2. CASE GiveUp
      BY <1>3, <2>1, <2>2
  <2>3. CASE ~GiveUp
      BY <1>1, <1>2, <1>9, <2>1, <2>3 DEF erase_block, program_page, TryAgain, Goto, Local, Quiet, Ranges,
         Shape, Labels,
         Required, Beginning, Clearing, Attempting, Loops
  <2>. QED BY <2>2, <2>3
<1>10. CASE BeginErase \/ BeginProgram \/ write_enable \/ program_load \/ CheckAgain
  <2>1. stage \in Loops /\ at < Required /\ attempt < Retries /\ pc \in Attempting
      BY <1>1, <1>10 DEF BeginErase, BeginProgram, write_enable, program_load, CheckAgain, Shape, Attempting
  <2>2. CASE NextAttempt
      BY <1>5, <2>1, <2>2 DEF Attempting
  <2>3. CASE ~NextAttempt
      BY <1>1, <1>2, <1>10, <2>1, <2>3 DEF BeginErase, BeginProgram, write_enable, program_load, CheckAgain,
         Goto, Local,
         Quiet, Ranges, Shape, Labels, Required, Beginning, Clearing, Attempting, Loops
  <2>. QED BY <2>2, <2>3
<1>11. CASE erase_block_once \/ program_page_once
    BY <1>1, <1>2, <1>11 DEF erase_block_once, program_page_once, Execute, Ranges, Shape, Labels,
       Required, Beginning, Clearing, Attempting, Loops
<1>12. CASE wait_ready
  <2>1. stage \in Loops /\ at < Required /\ attempt < Retries /\ pc = "wait"
      BY <1>1, <1>12 DEF wait_ready, Shape, Attempting
  <2>. QED BY <1>4, <1>5, <1>12, <2>1 DEF wait_ready, Local
<1>13. CASE write_disable \/ restore_configuration
    BY <1>1, <1>2, <1>13 DEF write_disable, restore_configuration, Goto, Quiet, Ranges, Shape, Labels,
       Required, Beginning, Clearing, Attempting, Loops
<1>14. CASE cleanup
    BY <1>1, <1>14 DEF cleanup, Result, Goto, Ranges, Shape, Labels, Required, Beginning, Clearing,
       Attempting, Loops
<1>. QED BY <1>6, <1>7, <1>8, <1>9, <1>10, <1>11, <1>12, <1>13, <1>14 DEF Tool
-----------------------------------------------------------------------------
(* A run without a lost transfer *)

\* What an idle chip makes of the commands.
LEMMA IdleChip ==
    ASSUME ChipType, Idle, NEW r \in Rows, NEW data \in Contents
    PROVE  /\ Reset => chip' = [chip EXCEPT !.op = "none", !.wel = FALSE, !.fail = "none",
                                            !.locked = chip.locked \/ chip.relocks, !.cut = chip.cut \/ FALSE]
           /\ Sent("WREN", r, data) => chip' = [chip EXCEPT !.wel = TRUE]
           /\ Sent("WRDI", r, data) => chip' = [chip EXCEPT !.wel = FALSE]
           /\ Sent("UNLOCK", r, data) => chip' = [chip EXCEPT !.locked = FALSE]
           /\ Sent("LOCK", r, data) => chip' = [chip EXCEPT !.locked = TRUE]
           /\ Sent("LOAD", r, data) => chip' = [chip EXCEPT !.cache = data, !.mark = FALSE]
           /\ Reset \/ (\E command \in Commands \ {"RESET"} : Sent(command, r, data)) => UNCHANGED <<content, faults>>
<1>1. chip.op = "none"
    BY DEF Idle
<1>2. Reset => /\ chip' = [chip EXCEPT !.op = "none", !.wel = FALSE, !.fail = "none",
                                       !.locked = chip.locked \/ chip.relocks, !.cut = chip.cut \/ FALSE]
               /\ UNCHANGED <<content, faults>>
  <2>1. Aborted = content /\ (chip.op \in {"erase", "program"}) = FALSE
      BY <1>1 DEF Aborted
  <2>. QED BY <2>1 DEF Reset, Sent, Receive
<1>3. (\E command \in Commands \ {"RESET"} : Sent(command, r, data)) => UNCHANGED <<content, faults>>
    BY DEF Sent, Receive, Idle
<1>. QED BY <1>1, <1>2, <1>3 DEF Sent, Receive, Idle

LEMMA IdleChipExecutes ==
    ASSUME Idle, NEW operation \in Changing, NEW r, NEW data, Sent(operation, r, data)
    PROVE  chip' = IF ~chip.wel THEN chip
                   ELSE IF chip.locked THEN [chip EXCEPT !.fail = operation, !.wel = FALSE]
                   ELSE [chip EXCEPT !.op = operation, !.row = r, !.fail = "none"]
BY DEF Sent, Receive, Changing

LEMMA TroubleCounts ==
    ASSUME ChipType, NEW kind \in Kinds, Trouble(kind)
    PROVE  faults'[kind] > 0 /\ (\A k \in Kinds : k # kind => faults'[k] = faults[k])
<1>1. faults[kind] \in Nat /\ faults' = [faults EXCEPT ![kind] = faults[kind] + 1] /\ faults \in [Kinds -> 0 .. MaxFaults]
    BY DEF ChipType, Trouble
<1>. QED BY <1>1

\* A transfer that is lost ends the run without a lost transfer.
LEMMA NoLoss ==
    ASSUME ChipType, Clean'
    PROVE  ~StatusLost /\ ~ResetLost /\ (\A command, r, data : ~Lost(command, r, data))
<1>1. ~Trouble("bus")
    BY DEF ChipType, Clean, Trouble, Kinds
<1>. QED BY <1>1 DEF StatusLost, ResetLost, Lost

\* The fields of the chip that the invariant looks at.
LEMMA Fields ==
    ASSUME ChipType
    PROVE  chip \in ChipStates
BY DEF ChipType, ChipStates

Kept == Calm /\ PutBack

\* Nothing changes but the place in the program.
LEMMA KeptLocal ==
    ASSUME Inv, UNCHANGED <<device, saved>>, pc = "wait" => pc' = "wait" \/ Idle,
           (pc' \in {"id", "save"}) => (pc \in {"id", "save"}),
           pc' \in {"leave", "exited"} => saved = "none"
    PROVE  Kept'
BY DEF Inv, Kept, Calm, PutBack, Clean, device, Idle

LEMMA KeptStep ==
    ASSUME Inv, Clean, Clean', Tool
    PROVE  Kept'
<1>1. ChipType /\ chip \in ChipStates /\ UNCHANGED faults /\ Calm /\ PutBack /\ Shape
    BY Fields, ChipKept DEF Inv
<1>2. ~StatusLost /\ ~ResetLost /\ (\A command, r, data : ~Lost(command, r, data))
    BY <1>1, NoLoss
<1>3. pc # "wait" => Idle /\ ~chip.cut
    BY <1>1 DEF Calm, Idle
<1>4. CASE Start \/ clear_protection \/ MainLoop \/ BeginErase \/ BeginProgram \/ CheckAgain
    BY <1>1, <1>2, <1>4, KeptLocal DEF Start, clear_protection, ClearDone, MainLoop, BeginErase,
       BeginProgram, CheckAgain,
       NextAttempt, Enter, Goto, Local, Quiet, Shape, Beginning
<1>5. CASE wait_ready
    BY <1>2, <1>5, KeptLocal DEF wait_ready, NextAttempt, NextItem, Enter, Local, Quiet
<1>6. CASE read_id
    BY <1>2, <1>6, KeptLocal DEF read_id, Goto, Quiet
<1>7. CASE save_configuration
  <2>1. saved' = (IF chip.locked THEN "LOCK" ELSE "UNLOCK") /\ pc' = "clear" /\ UNCHANGED device /\ pc = "save"
      BY <1>2, <1>7 DEF save_configuration, Goto
  <2>. QED BY <1>1, <1>3, <2>1 DEF Kept, Calm, PutBack, Clean, Idle, device
<1>8. CASE InitialReset
  <2>1. Reset /\ pc' = "id" /\ UNCHANGED saved /\ pc = "reset"
      BY <1>2, <1>8 DEF InitialReset, Goto, Quiet
  <2>2. chip'.op = "none" /\ chip'.locked = (chip.locked \/ chip.relocks) /\ chip'.relocks = chip.relocks /\ ~chip'.cut
      BY <1>1, <1>3, <2>1, IdleChip, Sizes DEF ChipStates
  <2>3. saved = "none"
      BY <1>1, <2>1 DEF Shape, Beginning
  <2>. QED BY <2>1, <2>2, <2>3 DEF Kept, Calm, PutBack
<1>9. CASE erase_block \/ program_page
  <2>1. pc = "try"
      BY <1>9 DEF erase_block, program_page, TryAgain
  <2>2. CASE UNCHANGED device
      BY <1>9, <2>1, <2>2, KeptLocal DEF erase_block, program_page, TryAgain, GiveUp, NextItem, Enter, Goto,
         Local, Quiet
  <2>3. CASE Reset /\ pc' = "clear" /\ UNCHANGED saved
    <3>1. chip'.op = "none" /\ chip'.relocks = chip.relocks /\ ~chip'.cut
        BY <1>1, <1>3, <2>1, <2>3, IdleChip, Sizes DEF ChipStates
    <3>. QED BY <1>1, <2>3, <3>1 DEF Kept, Calm, PutBack
  <2>. QED BY <1>2, <1>9, <2>2, <2>3 DEF erase_block, program_page, TryAgain, Goto, Local, Quiet
<1>10. CASE ClearRegister \/ write_enable \/ program_load \/ write_disable
  <2>1. PICK command \in {"UNLOCK", "WREN", "LOAD", "WRDI"}, r \in Rows, data \in Contents :
           Sent(command, r, data) \/ UNCHANGED device
    <3>1. program_load => Sent("LOAD", at, Image[at]) /\ at \in Rows /\ Image[at] \in Contents
        BY <1>1, <1>2, Sizes DEF program_load, Inv, Ranges, Shape, Required, Rows, Attempting
    <3>. QED BY <1>2, <1>10, <3>1, Sizes DEF ClearRegister, write_enable, write_disable
  <2>2. pc # "wait" /\ UNCHANGED saved
      BY <1>2, <1>10 DEF ClearRegister, ClearFailed, ClearDone, GiveUp, NextItem, write_enable, program_load,
         write_disable,
         NextAttempt, Enter, Goto, Quiet
  <2>3. pc' \notin {"id", "save", "wait", "exited"} /\ (pc' = "leave" => saved = "none")
      BY <1>2, <1>10 DEF ClearRegister, ClearFailed, ClearDone, GiveUp, NextItem, write_enable, program_load,
         write_disable,
         NextAttempt, Enter, Goto, Quiet
  <2>4. \/ chip' = chip
        \/ chip' = [chip EXCEPT !.locked = FALSE]
        \/ chip' = [chip EXCEPT !.wel = TRUE]
        \/ chip' = [chip EXCEPT !.wel = FALSE]
        \/ chip' = [chip EXCEPT !.cache = data, !.mark = FALSE]
    <3>1. CASE UNCHANGED device
        BY <3>1 DEF device
    <3>2. CASE Sent(command, r, data)
      <4>1. Idle /\ r \in Rows /\ data \in Contents
          BY <1>3, <2>1, <2>2
      <4>2. CASE command = "UNLOCK"
          BY <1>1, <3>2, <4>1, <4>2, IdleChip
      <4>3. CASE command = "WREN"
          BY <1>1, <3>2, <4>1, <4>3, IdleChip
      <4>4. CASE command = "LOAD"
          BY <1>1, <3>2, <4>1, <4>4, IdleChip
      <4>5. CASE command = "WRDI"
          BY <1>1, <3>2, <4>1, <4>5, IdleChip
      <4>. QED BY <2>1, <4>2, <4>3, <4>4, <4>5
    <3>. QED BY <2>1, <3>1, <3>2
  <2>5. chip'.op = "none" /\ chip'.relocks = chip.relocks /\ ~chip'.cut
      BY <1>1, <1>3, <2>2, <2>4 DEF ChipStates, Idle
  <2>. QED BY <1>1, <2>2, <2>3, <2>5 DEF Kept, Calm, PutBack
<1>11. CASE erase_block_once \/ program_page_once
  <2>1. stage \in Changing /\ at \in Rows /\ pc = "execute"
      BY <1>1, <1>11, Sizes DEF erase_block_once, program_page_once, Execute, Changing, Inv, Ranges, Shape,
         Required, Rows,
         Attempting, Loops
  <2>2. Sent(stage, at, Blank) /\ pc' = "wait" /\ UNCHANGED saved
      BY <1>2, <1>11 DEF erase_block_once, program_page_once, Execute
  <2>3. chip' = IF ~chip.wel THEN chip
                ELSE IF chip.locked THEN [chip EXCEPT !.fail = stage, !.wel = FALSE]
                ELSE [chip EXCEPT !.op = stage, !.row = at, !.fail = "none"]
      BY <1>3, <2>1, <2>2, IdleChipExecutes
  <2>4. chip'.relocks = chip.relocks /\ ~chip'.cut
      BY <1>1, <1>3, <2>1, <2>3 DEF ChipStates
  <2>. QED BY <1>1, <2>2, <2>4 DEF Kept, Calm, PutBack
<1>12. CASE restore_configuration
  <2>1. saved \in {"LOCK", "UNLOCK"} /\ Sent(saved, 0, Blank) /\ pc' = "leave" /\ UNCHANGED saved /\ pc = "restore"
      BY <1>1, <1>2, <1>12 DEF restore_configuration, Goto, Quiet, Inv, Ranges, Shape
  <2>2. chip' = [chip EXCEPT !.locked = (saved = "LOCK")]
    <3>1. CASE saved = "LOCK"
        BY <1>1, <1>3, <2>1, <3>1, IdleChip, Sizes
    <3>2. CASE saved = "UNLOCK"
        BY <1>1, <1>3, <2>1, <3>2, IdleChip, Sizes
    <3>. QED BY <2>1, <3>1, <3>2
  <2>3. chip'.op = "none" /\ chip'.relocks = chip.relocks /\ ~chip'.cut /\ (chip'.locked <=> saved = "LOCK")
      BY <1>1, <1>3, <2>1, <2>2 DEF ChipStates, Idle
  <2>. QED BY <1>1, <2>1, <2>3 DEF Kept, Calm, PutBack
<1>13. CASE cleanup
  <2>1. Reset /\ pc' = "exited" /\ UNCHANGED saved /\ pc = "leave"
      BY <1>2, <1>13 DEF cleanup, Goto
  <2>2. chip'.op = "none" /\ chip'.locked = (chip.locked \/ chip.relocks) /\ chip'.relocks = chip.relocks /\ ~chip'.cut
      BY <1>1, <1>3, <2>1, IdleChip, Sizes DEF ChipStates
  <2>. QED BY <1>1, <2>1, <2>2 DEF Kept, Calm, PutBack, Inv, Ranges
<1>. QED BY <1>4, <1>5, <1>6, <1>7, <1>8, <1>9, <1>10, <1>11, <1>12, <1>13 DEF Tool
-----------------------------------------------------------------------------
(* A run in which no program has failed either *)

\* Where Waiting does not look.
Aside == {"start", "reset", "id", "save", "clear", "unlock", "head", "try", "begin", "wren", "disable", "restore",
          "leave", "exited"}

LEMMA WaitingAside == pc \in Aside => Waiting
BY DEF Waiting, Aside

\* An item given up is listed, so that nothing is promised about it.
LEMMA CoveredGivenUp ==
    ASSUME Inv, Covered, stage \in Loops, at < Required, pc # "exited", GiveUp, UNCHANGED content
    PROVE  Covered' /\ Waiting'
<1>1. /\ failed'[stage] # {} /\ (stage = "program" => failed'["erase"] = failed["erase"])
      /\ pc' = "head" /\ stage' = stage /\ at' = at + 1
    BY GivenUp DEF Inv, GiveUp, NextItem, Enter
<1>2. at \in Nat /\ \A p \in Pages : p \in Nat
    BY Sizes DEF Inv, Ranges
<1>3. Waiting'
    BY <1>1 DEF Waiting
<1>4. CASE stage = "erase"
  <2>1. failed'["erase"] # {} /\ stage' = "erase"
      BY <1>1, <1>4
  <2>. QED BY <1>3, <2>1 DEF Covered
<1>5. CASE stage = "program"
  <2>1. failed'["program"] # {} /\ failed'["erase"] = failed["erase"]
      BY <1>1, <1>5
  <2>2. failed["erase"] = {} => \A p \in Pages : p > at => content[p] = Blank
      BY <1>5 DEF Covered
  <2>3. failed["erase"] = {} => \A p \in Pages : p > at + 1 \/ p = at + 1 => content[p] = Blank
      BY <1>2, <2>2
  <2>. QED BY <1>1, <1>3, <1>5, <2>1, <2>3 DEF Covered
<1>. QED BY <1>3, <1>4, <1>5 DEF Loops

\* The loop goes on once the chip has done its work.
LEMMA CoveredNext ==
    ASSUME Inv, Covered, Waiting, stage \in Loops, at < Required, pc = "wait", Idle, chip.fail # stage, NextItem, Local
    PROVE  Covered' /\ Waiting'
<1>1. pc' = "head" /\ stage' = stage /\ at' = at + 1 /\ UNCHANGED <<failed, content>>
    BY DEF NextItem, Enter, Local, Quiet, device
<1>2. Waiting'
    BY <1>1 DEF Waiting
<1>3. at \in Nat /\ \A p \in Pages : p \in Nat /\ BlockOf(p) \in Nat
    BY Sizes, BlockOfRange DEF Inv, Ranges
<1>4. CASE stage = "erase"
  <2>1. \A p \in Pages : BlockOf(p) = at => content[p] = Blank
      BY <1>4 DEF Waiting, Idle
  <2>2. failed["erase"] = {} => \A p \in Pages : BlockOf(p) < at => content[p] = Blank
      BY <1>4 DEF Covered
  <2>3. failed["erase"] = {} => \A p \in Pages : BlockOf(p) < at + 1 => content[p] = Blank
      BY <1>3, <2>1, <2>2
  <2>. QED BY <1>1, <1>2, <1>4, <2>3 DEF Covered
<1>5. CASE stage = "program"
  <2>1. failed["erase"] = {} => \A p \in Pages : p = at => content[p] = Image[p]
      BY <1>5 DEF Waiting, Idle
  <2>2. failed["erase"] = {} =>
          \A p \in Pages : /\ p > at => content[p] = Blank
                           /\ p < at /\ failed["program"] = {} => content[p] = Image[p]
      BY <1>5 DEF Covered
  <2>3. failed["erase"] = {} =>
          \A p \in Pages : /\ p > at + 1 => content[p] = Blank
                           /\ p = at + 1 => content[p] \in {Blank, Image[p]}
                           /\ p < at + 1 /\ failed["program"] = {} => content[p] = Image[p]
      BY <1>3, <2>1, <2>2
  <2>. QED BY <1>1, <1>2, <1>5, <2>3 DEF Covered
<1>. QED BY <1>4, <1>5 DEF Loops

\* Nothing is covered or promised but what was.
LEMMA CoveredKept ==
    ASSUME Covered, UNCHANGED <<content, failed, stage, at>>
    PROVE  Covered'
BY DEF Covered

LEMMA CoveredHead ==
    ASSUME Inv, Covered, MainLoop
    PROVE  Covered' /\ Waiting'
<1>1. UNCHANGED <<content, failed>> /\ pc' \in Aside /\ stage \in Loops
    BY DEF MainLoop, Enter, Goto, Local, Quiet, device, Aside, Inv, Shape
<1>2. Waiting'
    BY <1>1, WaitingAside DEF Waiting, Aside
<1>3. at \in Nat /\ \A p \in Pages : p \in Nat /\ BlockOf(p) < required_blocks /\ p < required_pages
    BY Sizes, BlockOfRange DEF Inv, Ranges
<1>4. CASE stage = "erase" /\ stage' = "program" /\ at' = 0 /\ at = required_blocks
  <2>1. failed["erase"] = {} => \A p \in Pages : content[p] = Blank
      BY <1>3, <1>4 DEF Covered
  <2>2. \A p \in Pages : ~(p < 0)
      BY <1>3
  <2>. QED BY <1>1, <1>2, <1>4, <2>1, <2>2 DEF Covered
<1>5. CASE stage = "program" /\ stage' = "done" /\ at = required_pages
    BY <1>1, <1>2, <1>3, <1>5 DEF Covered
<1>6. CASE stage' = stage /\ at' = at
    BY <1>1, <1>2, <1>6, CoveredKept
<1>. QED BY <1>1, <1>4, <1>5, <1>6 DEF MainLoop, Required, Enter, Goto, Loops

LEMMA WrittenStep ==
    ASSUME Inv, Clean, Clean', Waiting, Covered, Tool
    PROVE  Waiting' /\ Covered'
<1>1. ChipType /\ chip \in ChipStates /\ Calm /\ Shape
    BY Fields DEF Inv
<1>2. ~StatusLost /\ ~ResetLost /\ (\A command, r, data : ~Lost(command, r, data))
    BY <1>1, NoLoss
<1>3. pc # "wait" => Idle
    BY <1>1 DEF Calm, Idle
<1>4. \A command \in Commands \ {"RESET"}, r \in Rows, data \in Contents :
         pc # "wait" /\ Sent(command, r, data) => UNCHANGED content
    BY <1>1, <1>3, IdleChip
<1>5. pc # "wait" /\ Reset => UNCHANGED content
    BY <1>1, <1>3, IdleChip, Sizes
<1>6. CASE Start \/ InitialReset \/ read_id \/ save_configuration \/ write_disable \/ restore_configuration \/ cleanup
  <2>1. UNCHANGED <<failed, stage, at>> /\ pc' \in Aside /\ pc # "wait"
      BY <1>2, <1>6 DEF Start, InitialReset, read_id, save_configuration, write_disable,
         restore_configuration, cleanup,
         Goto, Quiet, Aside
  <2>2. restore_configuration => saved \in Commands \ {"RESET"}
      BY <1>1 DEF restore_configuration, Inv, Ranges, Shape, Commands
  <2>3. UNCHANGED content
      BY <1>2, <1>4, <1>5, <1>6, <2>1, <2>2, Sizes DEF Start, InitialReset, read_id, save_configuration,
         write_disable,
         restore_configuration, cleanup, device, Commands
  <2>. QED BY <2>1, <2>3, CoveredKept, WaitingAside DEF Waiting, Aside
<1>7. CASE clear_protection \/ ClearRegister
  <2>1. pc \in Clearing /\ pc # "wait" /\ pc # "exited"
      BY <1>7 DEF clear_protection, ClearRegister, Clearing
  <2>2. UNCHANGED content
      BY <1>2, <1>4, <1>7, <2>1, Sizes DEF clear_protection, ClearRegister, Local, device, Commands
  <2>3. ClearFailed \/ ClearDone \/ (Goto("unlock") /\ Quiet)
      BY <1>7 DEF clear_protection, ClearRegister, Local
  <2>4. CASE stage = "gate"
    <3>1. pc' \in Aside /\ (stage' = "gate" \/ (stage' = "erase" /\ at' = 0)) /\ UNCHANGED failed
        BY <2>3, <2>4 DEF ClearFailed, ClearDone, Goto, Enter, Quiet, Aside
    <3>2. \A p \in Pages : ~(BlockOf(p) < 0)
        BY BlockOfRange
    <3>3. Covered'
        BY <2>2, <3>1, <3>2 DEF Covered
    <3>. QED BY <3>1, <3>3, WaitingAside DEF Waiting, Aside
  <2>5. CASE stage # "gate"
    <3>1. stage \in Loops /\ at < Required
        BY <1>1, <2>1, <2>5 DEF Shape
    <3>2. CASE GiveUp
        BY <2>1, <2>2, <3>1, <3>2, CoveredGivenUp
    <3>3. CASE (Goto("begin") \/ Goto("unlock")) /\ Quiet
        BY <2>2, <3>3, CoveredKept DEF Goto, Quiet, Waiting
    <3>. QED BY <2>3, <2>5, <3>2, <3>3 DEF ClearFailed, ClearDone
  <2>. QED BY <2>4, <2>5
<1>8. CASE erase_block \/ program_page
  <2>1. pc = "try" /\ stage \in Loops /\ at < Required
      BY <1>1, <1>8 DEF erase_block, program_page, TryAgain, Shape
  <2>2. UNCHANGED content
      BY <1>2, <1>5, <1>8, <2>1 DEF erase_block, program_page, TryAgain, Local, device
  <2>3. CASE GiveUp
      BY <2>1, <2>2, <2>3, CoveredGivenUp
  <2>4. CASE ~GiveUp
    <3>1. pc' \in Aside /\ UNCHANGED <<failed, stage, at>>
        BY <1>2, <1>8, <2>4 DEF erase_block, program_page, TryAgain, Goto, Local, Quiet, Aside
    <3>. QED BY <2>2, <3>1, CoveredKept DEF Waiting, Aside
  <2>. QED BY <2>3, <2>4
<1>9. CASE BeginErase \/ BeginProgram
  <2>1. pc' \in Aside /\ UNCHANGED <<failed, stage, at, content>>
      BY <1>9 DEF BeginErase, BeginProgram, NextAttempt, Goto, Local, Quiet, Aside, device
  <2>. QED BY <2>1, CoveredKept DEF Waiting, Aside
<1>10. CASE write_enable
  <2>1. UNCHANGED <<failed, stage, at>> /\ pc = "wren" /\ pc' \in {"try", "execute", "load"}
        /\ (pc' # "try" => Sent("WREN", 0, Blank) /\ pc' = IF stage = "erase" THEN "execute" ELSE "load")
      BY <1>2, <1>10 DEF write_enable, NextAttempt, Goto, Quiet
  <2>2. UNCHANGED content
      BY <1>2, <1>4, <1>10, <2>1, Sizes DEF write_enable, device, Commands
  <2>3. pc' # "try" => chip'.wel
      BY <1>1, <1>3, <2>1, IdleChip, Sizes DEF ChipStates
  <2>4. Waiting'
    <3>1. stage = "program" => pc' # "execute"
        BY <2>1
    <3>. QED BY <2>1, <2>3, <3>1 DEF Waiting
  <2>. QED BY <2>1, <2>2, <2>4, CoveredKept
<1>11. CASE program_load
  <2>1. pc = "load" /\ Sent("LOAD", at, Image[at]) /\ pc' = "armed" /\ UNCHANGED <<failed, stage, at>>
      BY <1>2, <1>11 DEF program_load, Goto, Quiet
  <2>2. at \in Rows /\ Image[at] \in Contents
      BY <1>1, <2>1, Sizes DEF Inv, Ranges, Shape, Required, Rows, Attempting
  <2>3. chip' = [chip EXCEPT !.cache = Image[at], !.mark = FALSE] /\ UNCHANGED content
      BY <1>1, <1>3, <1>4, <2>1, <2>2, IdleChip DEF Commands
  <2>4. chip'.cache = Image[at] /\ chip'.wel = chip.wel
      BY <1>1, <2>3 DEF ChipStates
  <2>. QED BY <2>1, <2>3, <2>4, CoveredKept DEF Waiting
<1>12. CASE CheckAgain
  <2>1. UNCHANGED <<content, chip, failed, stage, at>> /\ pc = "armed" /\ pc' \in {"disable", "execute"}
      BY <1>12 DEF CheckAgain, Goto, Local, Quiet, device
  <2>. QED BY <2>1, CoveredKept DEF Waiting
<1>13. CASE erase_block_once \/ program_page_once
  <2>1. stage \in Changing /\ at \in Rows /\ pc = "execute" /\ stage \in Loops
      BY <1>1, <1>13, Sizes DEF erase_block_once, program_page_once, Execute, Changing, Inv, Ranges, Shape,
         Required, Rows,
         Attempting, Loops
  <2>2. Sent(stage, at, Blank) /\ pc' = "wait" /\ UNCHANGED <<failed, stage, at>>
      BY <1>2, <1>13 DEF erase_block_once, program_page_once, Execute
  <2>3. chip' = IF ~chip.wel THEN chip
                ELSE IF chip.locked THEN [chip EXCEPT !.fail = stage, !.wel = FALSE]
                ELSE [chip EXCEPT !.op = stage, !.row = at, !.fail = "none"]
      BY <1>3, <2>1, <2>2, IdleChipExecutes
  <2>4. \/ chip'.op = "none" /\ chip'.fail = stage
        \/ chip'.op = stage /\ chip'.row = at /\ chip'.cache = chip.cache
      BY <1>1, <1>3, <2>1, <2>3 DEF ChipStates, Waiting, Idle
  <2>5. UNCHANGED content
      BY <1>4, <2>1, <2>2, Sizes DEF Commands, Changing
  <2>6. Waiting'
      BY <2>1, <2>2, <2>4 DEF Waiting
  <2>. QED BY <2>2, <2>5, <2>6, CoveredKept
<1>14. CASE wait_ready
  <2>1. stage \in Loops /\ at < Required /\ pc = "wait"
      BY <1>1, <1>14 DEF wait_ready, Shape, Attempting
  <2>2. CASE NextAttempt /\ UNCHANGED device
    <3>1. pc' = "try" /\ UNCHANGED <<content, failed, stage, at>>
        BY <2>2 DEF NextAttempt, Quiet, device
    <3>. QED BY <3>1, CoveredKept DEF Waiting
  <2>3. CASE Idle /\ chip.fail # stage /\ NextItem /\ Local
      BY <2>1, <2>3, CoveredNext
  <2>. QED BY <1>2, <1>14, <2>2, <2>3 DEF wait_ready
<1>. QED BY <1>6, <1>7, <1>8, <1>9, <1>10, <1>11, <1>12, <1>13, <1>14, CoveredHead DEF Tool
-----------------------------------------------------------------------------
(* The chip *)

LEMMA ProgrammedBlank ==
    ASSUME NEW old, NEW data \in Contents, old \in {Blank, data}, data \notin {Old, Junk, Part}
    PROVE  Programmed(old, data) = {data}
<1>1. Part # Blank /\ Part # data
    BY DataAssumption
<1>2. CASE data = Blank
    BY <1>2 DEF Programmed
<1>3. CASE data # Blank
    BY <1>1, <1>3 DEF Programmed
<1>. QED BY <1>2, <1>3

LEMMA ChipWritten ==
    ASSUME Inv, Chip, Clean
    PROVE  Kept' /\ (Spotless' => Spotless) /\ (Spotless' /\ Waiting /\ Covered => Waiting' /\ Covered')
<1>1. /\ ChipType /\ chip \in ChipStates /\ Calm /\ PutBack /\ Shape /\ ChipDone
      /\ UNCHANGED <<pc, stage, at, attempt, saved, failed, stop, exit>>
    BY Fields DEF Inv, Chip
<1>2. /\ chip'.op = "none" /\ chip'.relocks = chip.relocks /\ chip'.locked = chip.locked /\ chip'.cut = chip.cut
      /\ chip'.fail \in {chip.fail, chip.op} /\ chip.op # "none"
  <2>1. ReadDone => chip'.op = "none" /\ chip'.relocks = chip.relocks /\ chip'.locked = chip.locked /\ chip'.cut = chip.cut
                    /\ chip'.fail = chip.fail
    <3>. DEFINE c == content[chip.row]
                m == chip.row \in Marked
    <3>1. ReadDone => chip' = [chip EXCEPT !.op = "none", !.cache = c, !.mark = m]
        BY DEF ReadDone
    <3>. HIDE DEF c, m
    <3>. QED BY <1>1, <3>1 DEF ChipStates
  <2>2. EraseDone \/ ProgramDone =>
            \/ chip' = [chip EXCEPT !.op = "none", !.wel = FALSE]
            \/ chip' = [chip EXCEPT !.op = "none", !.wel = FALSE, !.fail = chip.op]
      BY DEF EraseDone, ProgramDone
  <2>3. ReadDone \/ EraseDone \/ ProgramDone => chip.op # "none"
      BY DEF ReadDone, EraseDone, ProgramDone
  <2>. QED BY <1>1, <2>1, <2>2, <2>3 DEF ChipDone, ChipStates
<1>3. pc = "wait" /\ pc' = "wait"
    BY <1>1, <1>2 DEF Calm
<1>4. Kept'
    BY <1>1, <1>2, <1>3 DEF Kept, Calm, PutBack
<1>5. Spotless' => Spotless /\ ~Trouble("program")
    BY <1>1, TroubleCounts DEF Spotless, Clean, ChipDone, ReadDone, EraseDone, ProgramDone, Kinds
<1>6. SUFFICES ASSUME Spotless', Waiting, Covered
               PROVE  Waiting' /\ Covered'
    BY <1>4, <1>5
<1>7. chip.op = stage /\ chip.row = at /\ (stage = "program" => chip.cache = Image[at])
    BY <1>2, <1>3, <1>6 DEF Waiting
<1>8. at < Required /\ at \in Nat /\ stage \in Loops
    BY <1>1, <1>3, Sizes DEF Shape, Inv, Ranges, Attempting
<1>9. CASE stage = "erase"
  <2>1. EraseDone
      BY <1>1, <1>7, <1>9 DEF ChipDone, ReadDone, EraseDone, ProgramDone
  <2>2. \A p \in Pages : BlockOf(p) # at => content'[p] = content[p]
      BY <1>7, <1>9, <2>1 DEF EraseDone, Aborted
  <2>3. \/ chip'.fail = "erase"
        \/ \A p \in Pages : BlockOf(p) = at => content'[p] = Blank
      BY <1>1, <1>7, <2>1 DEF EraseDone, ChipStates
  <2>4. Waiting'
      BY <1>1, <1>2, <1>3, <1>9, <2>3 DEF Waiting
  <2>5. \A p \in Pages : BlockOf(p) < at => BlockOf(p) # at
      BY <1>8, BlockOfRange
  <2>6. Covered'
      BY <1>1, <1>6, <1>9, <2>2, <2>5 DEF Covered
  <2>. QED BY <2>4, <2>6
<1>10. CASE stage = "program"
  <2>1. ProgramDone /\ at \in Pages
      BY <1>1, <1>7, <1>8, <1>10, Sizes DEF ChipDone, ReadDone, EraseDone, ProgramDone, Required
  <2>2. PICK c \in Programmed(content[at], Image[at]) : content' = [content EXCEPT ![at] = c]
      BY <1>5, <1>6, <1>7, <1>10, <2>1 DEF ProgramDone
  <2>3. content \in [Pages -> Contents]
      BY <1>1 DEF ChipType
  <2>4. failed["erase"] = {} => content[at] \in {Blank, Image[at]}
      BY <1>6, <1>10, <2>1 DEF Covered
  <2>5. Image[at] \in Contents /\ Image[at] \notin {Old, Junk, Part}
      BY <2>1, Sizes, DataAssumption
  <2>6. failed["erase"] = {} => c = Image[at]
      BY <2>2, <2>4, <2>5, ProgrammedBlank
  <2>7. /\ \A p \in Pages : p # at => content'[p] = content[p]
        /\ failed["erase"] = {} => content'[at] = Image[at]
      BY <2>1, <2>2, <2>3, <2>6
  <2>8. Waiting'
      BY <1>1, <1>2, <1>3, <1>10, <2>7 DEF Waiting
  <2>9. failed["erase"] = {} =>
          \A p \in Pages : /\ p > at => content'[p] = Blank
                           /\ p = at => content'[p] \in {Blank, Image[p]}
                           /\ p < at /\ failed["program"] = {} => content'[p] = Image[p]
    <3>1. failed["erase"] = {} =>
            \A p \in Pages : /\ p > at => content[p] = Blank
                             /\ p < at /\ failed["program"] = {} => content[p] = Image[p]
        BY <1>6, <1>10 DEF Covered
    <3>2. \A p \in Pages : p > at \/ p < at => p # at
        BY <1>8, Sizes
    <3>. QED BY <2>7, <3>1, <3>2
  <2>10. Covered'
      BY <1>1, <1>10, <2>9 DEF Covered
  <2>. QED BY <2>8, <2>10
<1>. QED BY <1>8, <1>9, <1>10 DEF Loops

-----------------------------------------------------------------------------
(* The theorems *)

LEMMA Initially == Init => Inv
<1>. SUFFICES ASSUME Init PROVE Inv
    OBVIOUS
<1>1. /\ pc = "start" /\ stage = "gate" /\ saved = "none" /\ faults = [k \in Kinds |-> 0]
      /\ content = [p \in Pages |-> Old]
    BY DEF Init, ChipInit
<1>2. PICK locked, relocks, right \in BOOLEAN :
          chip = [op |-> "none", row |-> 0, wel |-> FALSE, locked |-> locked,
                  relocks |-> relocks, right |-> right, fail |-> "none", cache |-> Old, mark |-> FALSE,
                  cut |-> FALSE]
    BY DEF Init, ChipInit
<1>3. 0 \in Pages \cup Blocks /\ Old \in Contents /\ MaxFaults \in Nat
    BY Sizes, GeometryAssumption DEF Contents, Rows
<1>4. ChipType
    BY <1>1, <1>2, <1>3 DEF ChipType, Kinds
<1>5. Calm /\ PutBack
    BY <1>1, <1>2 DEF Calm, PutBack
<1>6. Waiting /\ Covered
    BY <1>1 DEF Waiting, Covered
<1>. QED BY <1>4, <1>5, <1>6, RangesInitially DEF Inv

LEMMA Stepping == Inv /\ [Next]_vars => Inv'
<1>. SUFFICES ASSUME Inv, [Next]_vars PROVE Inv'
    OBVIOUS
<1>1. CASE Tool
  <2>1. ChipType' /\ Ranges' /\ Shape' /\ (Clean' => Clean) /\ (Clean' => UNCHANGED faults)
      BY <1>1, ChipKept, RangesStep
  <2>2. Clean' => Calm' /\ PutBack'
      BY <1>1, <2>1, KeptStep DEF Kept
  <2>3. ~Clean' => Calm' /\ PutBack'
      BY DEF Calm, PutBack
  <2>4. Spotless' => Spotless /\ Clean /\ Clean'
      BY <2>1 DEF Spotless
  <2>5. Spotless' => Waiting' /\ Covered'
      BY <1>1, <2>4, WrittenStep DEF Inv
  <2>. QED BY <2>1, <2>2, <2>3, <2>5 DEF Inv
<1>2. CASE Chip
  <2>1. ChipType' /\ (Clean' => Clean)
      BY <1>2, ChipKept
  <2>2. Ranges' /\ Shape'
      BY <1>2 DEF Chip, Inv, Ranges, Shape, Required
  <2>3. Calm' /\ PutBack'
      BY <1>2, <2>1, ChipWritten DEF Kept, Calm, PutBack
  <2>4. Spotless' => Waiting' /\ Covered'
      BY <1>2, <2>1, ChipWritten DEF Inv, Spotless
  <2>. QED BY <2>1, <2>2, <2>3, <2>4 DEF Inv
<1>3. CASE console_ctrl_handler \/ UNCHANGED vars
  <2>1. UNCHANGED <<content, chip, faults, pc, stage, at, attempt, saved, failed, exit>> /\ stop' \in BOOLEAN
      BY <1>3 DEF console_ctrl_handler, vars, device, Inv, Ranges
  <2>2. ChipType' /\ Ranges' /\ Shape'
      BY <2>1 DEF Inv, ChipType, Ranges, Shape, Required
  <2>3. Calm' /\ PutBack' /\ (Spotless' => Waiting' /\ Covered')
      BY <2>1 DEF Inv, Calm, PutBack, Spotless, Clean, Waiting, Covered
  <2>. QED BY <2>2, <2>3 DEF Inv
<1>. QED BY <1>1, <1>2, <1>3 DEF Next

\* The invariant holds in every state, whatever fails and whenever Ctrl-C comes.
THEOREM Invariance == Spec => []Inv
BY Initially, Stepping, PTL DEF Spec

\* Every variable keeps its type: no retry counter and no place of a loop
\* leaves its range.
THEOREM TypeCorrect == Spec => []TypeOK
<1>1. Inv => TypeOK
    BY TypeParts DEF Inv
<1>. QED BY <1>1, Invariance, PTL

\* Without a lost transfer no RESET meets a chip that erases or programs, at
\* whatever moment Ctrl-C comes.
THEOREM NothingIsCutShort == Spec => []NeverCutShort
<1>1. Inv => NeverCutShort
  <2>1. Inv => faults["bus"] \in Nat
      BY DEF Inv, ChipType, Kinds
  <2>. QED BY <2>1 DEF Inv, Calm, Clean, NeverCutShort
<1>. QED BY <1>1, Invariance, PTL

\* A run without a lost transfer leaves A0 as it has found it.
THEOREM ProtectionIsPutBack == Spec => []ProtectionRestored
<1>1. Inv => ProtectionRestored
    BY DEF Inv, PutBack, Clean, ProtectionRestored
<1>. QED BY <1>1, Invariance, PTL

\* Exit code 0 of a run without a lost transfer and without a failed program
\* stands for a chip that holds the image, whatever erases have failed.
THEOREM SuccessIsTrue == Spec => []SuccessIsWritten
<1>1. Inv => SuccessIsWritten
  <2>. SUFFICES ASSUME Inv, exit = 0, faults["bus"] + faults["program"] = 0
                PROVE  \A p \in Pages : content[p] = Image[p]
      BY DEF SuccessIsWritten
  <2>1. faults["bus"] \in Nat /\ faults["program"] \in Nat
      BY DEF Inv, ChipType, Kinds
  <2>2. Spotless
      BY <2>1 DEF Spotless, Clean
  <2>. QED BY <2>2 DEF Inv, Shape, Covered
<1>. QED BY <1>1, Invariance, PTL
=============================================================================
