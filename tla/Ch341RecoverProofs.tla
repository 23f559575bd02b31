------------------------ MODULE Ch341RecoverProofs ------------------------
(***************************************************************************)
(* Theorems about Ch341Recover: for a chip of any size with any factory    *)
(* marks, any image, any number of retries and of troubles, and Ctrl-C at  *)
(* any moment, nothing is erased before the gate, no page of a bad block   *)
(* is ever changed, no wrong page is missing from the report, and at most  *)
(* one command follows Ctrl-C.  With two turns for every retry loop a      *)
(* single trouble is mended.                                               *)
(***************************************************************************)
EXTENDS Ch341Recover, TLAPS

Changing == {"erase", "program"}
Rows == Pages \cup Blocks
Commands == {"RESET", "WREN", "WRDI", "UNLOCK", "LOCK", "LOAD", "READ", "erase", "program"}

ChipStates ==
    [op : {"none", "read", "erase", "program"}, row : Pages \cup Blocks,
     wel : BOOLEAN, locked : BOOLEAN, relocks : BOOLEAN, right : BOOLEAN,
     fail : {"none", "erase", "program"},
     cache : Contents, mark : BOOLEAN, cut : BOOLEAN]

\* A tool leaves the chip alone, loses a transfer or has it receive a command.
Given(command, r, data) ==
    /\ Receive(command, r, data) \/ UNCHANGED <<content, chip>>
    /\ UNCHANGED faults \/ Trouble("bus")

\* Pages that the operation in progress changes.
Touched(p) ==
    \/ chip.op = "erase" /\ BlockOf(p) = chip.row
    \/ chip.op = "program" /\ p = chip.row

\* What is in progress afterwards.
Began(command, r) ==
    \/ chip'.op = "none"
    \/ chip'.op = chip.op /\ chip'.row = chip.row
    \/ command = "READ" /\ chip'.op = "read" /\ chip'.row = r
    \/ command \in Changing /\ chip'.op = command /\ chip'.row = r

OnlyTouched == \A p \in Pages : content'[p] = content[p] \/ Touched(p)

-----------------------------------------------------------------------------
(* Numbers *)

LEMMA RowsOfBlock ==
    ASSUME NEW b \in Blocks, NEW i \in {0, 1}
    PROVE  b * PagesPerBlock + i \in Pages
<1>1. NBlocks \in Nat /\ PagesPerBlock \in Nat /\ PagesPerBlock > 1 /\ b \in Nat /\ b + 1 <= NBlocks
    BY GeometryAssumption DEF Blocks
<1>2. (b + 1) * PagesPerBlock <= NBlocks * PagesPerBlock
    BY <1>1, SMTT(30)
<1>3. (b + 1) * PagesPerBlock = b * PagesPerBlock + PagesPerBlock
    BY <1>1, SMTT(30)
<1>4. b * PagesPerBlock \in Nat /\ NBlocks * PagesPerBlock \in Nat
    BY <1>1, SMTT(30)
<1>. QED BY <1>1, <1>2, <1>3, <1>4 DEF Pages

LEMMA BlockRange ==
    /\ NBlocks \in Nat \ {0} /\ NBlocks * PagesPerBlock \in Nat
    /\ NBlocks <= NBlocks * PagesPerBlock /\ 0 \in Pages /\ 0 \in Blocks
    /\ Pages \subseteq Nat /\ Blocks \subseteq Pages
<1>1. NBlocks \in Nat \ {0} /\ PagesPerBlock \in Nat /\ PagesPerBlock > 1
    BY GeometryAssumption
<1>2. NBlocks * PagesPerBlock \in Nat
    BY <1>1, SMTT(30)
<1>3. NBlocks <= NBlocks * PagesPerBlock
    BY <1>1, SMTT(30)
<1>. QED BY <1>1, <1>2, <1>3 DEF Pages, Blocks

LEMMA BlockOfPage ==
    ASSUME NEW p \in Pages
    PROVE  BlockOf(p) \in Int
BY BlockRange, GeometryAssumption, SMTT(30) DEF BlockOf

-----------------------------------------------------------------------------
(* Troubles *)

LEMMA TroubleType ==
    ASSUME ChipType, NEW kind \in Kinds, Trouble(kind)
    PROVE  faults' \in [Kinds -> 0 .. MaxFaults]
<1>1. \A k \in Kinds : faults[k] \in 0 .. MaxFaults
    BY DEF ChipType
<1>2. faults["bus"] \in Nat /\ faults["erase"] \in Nat /\ faults["program"] \in Nat /\ MaxFaults \in Nat
    BY <1>1, GeometryAssumption DEF Kinds
<1>3. faults["bus"] + faults["erase"] + faults["program"] < MaxFaults
    BY DEF Trouble
<1>4. kind = "bus" \/ kind = "erase" \/ kind = "program"
    BY DEF Kinds
<1>5. faults[kind] + 1 \in 0 .. MaxFaults
    BY <1>2, <1>3, <1>4
<1>6. faults' = [faults EXCEPT ![kind] = faults[kind] + 1]
    BY DEF Trouble
<1>. QED BY <1>1, <1>5, <1>6 DEF ChipType

-----------------------------------------------------------------------------
(* Commands *)

LEMMA AbortedPages ==
    ASSUME ChipType
    PROVE  /\ Aborted \in [Pages -> Contents]
           /\ \A p \in Pages : Aborted[p] = content[p] \/ Touched(p)
<1>1. content \in [Pages -> Contents] /\ Junk \in Contents
    BY DEF ChipType, Contents
<1>2. CASE chip.op = "erase"
    BY <1>1, <1>2 DEF Aborted, Touched
<1>3. CASE chip.op = "program"
  <2>1. chip.cache \in Contents
      BY DEF ChipType
  <2>2. \A old \in Contents : HalfProgrammed(old, chip.cache) \in Contents
      BY <2>1 DEF HalfProgrammed, Contents
  <2>3. Aborted = [content EXCEPT ![chip.row] = HalfProgrammed(content[chip.row], chip.cache)]
      BY <1>3 DEF Aborted
  <2>. QED BY <1>1, <1>3, <2>2, <2>3 DEF Touched
<1>4. CASE chip.op \notin Changing
    BY <1>1, <1>4 DEF Aborted, Changing
<1>. QED BY <1>2, <1>3, <1>4 DEF Changing

\* What a command changes.
LEMMA ReceiveStep ==
    ASSUME ChipType, NEW command \in Commands, NEW r \in Rows, NEW data \in Contents,
           Receive(command, r, data)
    PROVE  /\ chip' \in ChipStates /\ chip'.right = chip.right
           /\ content' \in [Pages -> Contents] /\ OnlyTouched
           /\ Began(command, r)
<1>1. chip \in ChipStates /\ content \in [Pages -> Contents]
    BY DEF ChipType, ChipStates
<1>2. content' = content => content' \in [Pages -> Contents] /\ OnlyTouched
    BY <1>1 DEF OnlyTouched
<1>3. CASE command = "RESET"
  <2>1. chip' = [chip EXCEPT !.op = "none", !.wel = FALSE, !.fail = "none",
                             !.locked = chip.locked \/ chip.relocks,
                             !.cut = chip.cut \/ chip.op \in {"erase", "program"}]
        /\ content' = Aborted
      BY <1>3 DEF Receive
  <2>2. chip' \in ChipStates /\ chip'.right = chip.right /\ chip'.op = "none"
      BY <1>1, <2>1 DEF ChipStates
  <2>. QED BY <2>1, <2>2, AbortedPages DEF OnlyTouched, Began
<1>4. CASE command # "RESET" /\ ~Idle
    BY <1>1, <1>2, <1>4 DEF Receive, ChipStates, Began
<1>5. CASE command # "RESET" /\ Idle
  <2>1. content' = content
      BY <1>5 DEF Receive
  <2>2. CASE command \notin Changing \cup {"READ"}
    <3>1. \/ chip' = [chip EXCEPT !.wel = TRUE]
          \/ chip' = [chip EXCEPT !.wel = FALSE]
          \/ chip' = [chip EXCEPT !.locked = FALSE]
          \/ chip' = [chip EXCEPT !.locked = TRUE]
          \/ chip' = [chip EXCEPT !.cache = data, !.mark = FALSE]
        BY <1>5, <2>2 DEF Receive, Commands, Changing
    <3>2. chip' \in ChipStates /\ chip'.right = chip.right /\ chip'.op = chip.op /\ chip'.row = chip.row
        BY <1>1, <3>1 DEF ChipStates
    <3>. QED BY <1>2, <2>1, <3>2 DEF Began
  <2>3. CASE command = "READ"
    <3>1. chip' = [chip EXCEPT !.op = "read", !.row = r, !.fail = "none"]
        BY <1>5, <2>3 DEF Receive
    <3>2. chip' \in ChipStates /\ chip'.right = chip.right /\ chip'.op = "read" /\ chip'.row = r
        BY <1>1, <3>1 DEF Rows, ChipStates
    <3>. QED BY <1>2, <2>1, <2>3, <3>2 DEF Began
  <2>4. CASE command \in Changing
    <3>1. \/ chip' = chip
          \/ chip' = [chip EXCEPT !.fail = command, !.wel = FALSE]
          \/ chip' = [chip EXCEPT !.op = command, !.row = r, !.fail = "none"]
        BY <1>5, <2>4 DEF Receive, Changing
    <3>2. /\ chip' \in ChipStates /\ chip'.right = chip.right
          /\ \/ chip'.op = chip.op /\ chip'.row = chip.row
             \/ chip'.op = command /\ chip'.row = r
        BY <1>1, <2>4, <3>1 DEF Rows, Changing, ChipStates
    <3>. QED BY <1>2, <2>1, <2>4, <3>2 DEF Began
  <2>. QED BY <2>2, <2>3, <2>4
<1>. QED BY <1>3, <1>4, <1>5

\* What a call of a tool does to the chip.
LEMMA Calling ==
    ASSUME NEW command, NEW r, NEW data
    PROVE  /\ Sent(command, r, data) => Given(command, r, data)
           /\ Lost(command, r, data) => Given(command, r, data)
           /\ StatusLost => Given(command, r, data)
           /\ UNCHANGED device => Given(command, r, data)
BY DEF Sent, Lost, StatusLost, device, Given

LEMMA Resetting == Reset \/ ResetLost => Given("RESET", 0, Blank)
BY Calling DEF Reset, ResetLost

LEMMA GivenStep ==
    ASSUME ChipType, NEW command \in Commands, NEW r \in Rows, NEW data \in Contents,
           Given(command, r, data)
    PROVE  /\ ChipType' /\ chip'.right = chip.right /\ OnlyTouched
           /\ Began(command, r)
<1>1. faults' \in [Kinds -> 0 .. MaxFaults]
    BY TroubleType DEF Given, ChipType, Kinds
<1>2. CASE UNCHANGED <<content, chip>>
    BY <1>1, <1>2 DEF ChipType, OnlyTouched, Began
<1>3. CASE Receive(command, r, data)
    BY <1>1, <1>3, ReceiveStep DEF ChipType, ChipStates
<1>. QED BY <1>2, <1>3 DEF Given

LEMMA ReadBegins ==
    ASSUME ChipType, Idle, NEW r, NEW data, Sent("READ", r, data)
    PROVE  chip'.op = "read" /\ chip'.row = r
<1>1. chip' = [chip EXCEPT !.op = "read", !.row = r, !.fail = "none"]
    BY DEF Sent, Receive
<1>. QED BY <1>1 DEF ChipType

-----------------------------------------------------------------------------
(* The end of an operation *)

LEMMA MarkRead ==
    ASSUME ChipType, ChipDone, chip.op = "read"
    PROVE  chip'.mark = (chip.row \in Marked)
<1>. DEFINE c == content[chip.row]
            m == chip.row \in Marked
<1>1. chip' = [chip EXCEPT !.op = "none", !.cache = c, !.mark = m]
    BY DEF ChipDone, ReadDone, EraseDone, ProgramDone
<1>. HIDE DEF c, m
<1>2. chip'.mark = m
    BY <1>1 DEF ChipType
<1>. QED BY <1>2 DEF m

\* A page read ends up in the cache register.
LEMMA CacheRead ==
    ASSUME ChipType, NEW c, NEW m,
           chip' = [chip EXCEPT !.op = "none", !.cache = c, !.mark = m]
    PROVE  chip'.cache = c
BY DEF ChipType

LEMMA ProgrammedType ==
    ASSUME NEW old \in Contents, NEW data \in Contents
    PROVE  Programmed(old, data) \subseteq Contents
BY DEF Programmed, Contents

LEMMA ChipDoneStep ==
    ASSUME ChipType, ChipDone
    PROVE  ChipType' /\ chip'.right = chip.right /\ OnlyTouched /\ chip'.op = "none"
<1>1. /\ chip \in ChipStates /\ content \in [Pages -> Contents] /\ Blank \in Contents
      /\ faults \in [Kinds -> 0 .. MaxFaults]
    BY DEF ChipType, ChipStates, Contents
<1>2. CASE ReadDone
  <2>1. chip.row \in Pages
      BY <1>1, BlockRange DEF ChipStates
  <2>. DEFINE c == content[chip.row]
              m == chip.row \in Marked
  <2>2. c \in Contents /\ m \in BOOLEAN /\ chip' = [chip EXCEPT !.op = "none", !.cache = c, !.mark = m]
      BY <1>1, <1>2, <2>1 DEF ReadDone
  <2>. HIDE DEF c, m
  <2>3. chip' \in ChipStates /\ chip'.right = chip.right /\ chip'.op = "none"
      BY <1>1, <2>2 DEF ChipStates
  <2>. QED BY <1>1, <1>2, <2>3 DEF ReadDone, ChipType, ChipStates, OnlyTouched
<1>3. CASE EraseDone
  <2>1. \/ chip' = [chip EXCEPT !.op = "none", !.wel = FALSE]
        \/ chip' = [chip EXCEPT !.op = "none", !.wel = FALSE, !.fail = "erase"]
      BY <1>3 DEF EraseDone
  <2>2. chip' \in ChipStates /\ chip'.right = chip.right /\ chip'.op = "none"
      BY <1>1, <2>1 DEF ChipStates
  <2>3. content' \in [Pages -> Contents] /\ OnlyTouched
      BY <1>1, <1>3, AbortedPages DEF EraseDone, OnlyTouched, Touched
  <2>4. faults' \in [Kinds -> 0 .. MaxFaults]
      BY <1>1, <1>3, TroubleType DEF EraseDone, Kinds
  <2>. QED BY <2>2, <2>3, <2>4 DEF ChipType, ChipStates
<1>4. CASE ProgramDone
  <2>1. \/ chip' = [chip EXCEPT !.op = "none", !.wel = FALSE]
        \/ chip' = [chip EXCEPT !.op = "none", !.wel = FALSE, !.fail = "program"]
      BY <1>4 DEF ProgramDone
  <2>2. chip' \in ChipStates /\ chip'.right = chip.right /\ chip'.op = "none"
      BY <1>1, <2>1 DEF ChipStates
  <2>3. content' \in [Pages -> Contents] /\ OnlyTouched
    <3>1. CASE content' = Aborted
        BY <3>1, AbortedPages DEF OnlyTouched
    <3>2. CASE \E c \in Programmed(content[chip.row], chip.cache) : content' = [content EXCEPT ![chip.row] = c]
      <4>1. chip.row \in Pages /\ chip.cache \in Contents /\ chip.op = "program"
          BY <1>1, <1>4, BlockRange DEF ChipStates, ProgramDone
      <4>2. Programmed(content[chip.row], chip.cache) \subseteq Contents
          BY <1>1, <4>1, ProgrammedType
      <4>. QED BY <1>1, <3>2, <4>1, <4>2 DEF OnlyTouched, Touched
    <3>. QED BY <1>4, <3>1, <3>2 DEF ProgramDone
  <2>4. faults' \in [Kinds -> 0 .. MaxFaults]
      BY <1>1, <1>4, TroubleType DEF ProgramDone, Kinds
  <2>. QED BY <2>2, <2>3, <2>4 DEF ChipType, ChipStates
<1>. QED BY <1>2, <1>3, <1>4 DEF ChipDone

-----------------------------------------------------------------------------
(* The tool *)

\* The calls that the main loops are in the middle of.
Unlocking == {"clear", "unlock", "unlocking"}
Ending == {"cleanup", "reset", "exited"}
GateLabels == {"start", "id", "scan", "mark", "check"} \cup Unlocking \cup Ending
Working == {"wren", "load", "execute", "wait"} \cup Unlocking
Reading == {"fetch", "compare"}

\* Which calls each stage makes.
Staged ==
    /\ stage = "gate" => pc \in GateLabels
    /\ stage \in {"erase", "program"} => pc \in {"head", "try"} \cup Working \cup Ending
    /\ stage = "now" => pc \in {"try"} \cup Reading \cup Ending
    /\ stage = "final" => pc \in {"head", "try"} \cup Reading \cup Ending
    /\ stage = "done" => pc \in {"finish"} \cup Ending

\* Where the loops are: every block or page that is being worked on is one of
\* the chip and in no block of the list of bad blocks.
Placed ==
    /\ pc \in {"scan", "mark"} => at \in 0 .. NBlocks /\ attempt \in {0, 1}
    /\ pc = "scan" /\ at = NBlocks => attempt = 0
    /\ pc = "mark" => at \in Blocks
    /\ stage \in {"program", "now", "final"} => at \in Nat
    /\ (pc \in {"try"} \cup Working /\ stage = "erase") => at \in Blocks \ bad
    /\ (pc \in {"try"} \cup Working \cup Reading /\ stage \in {"program", "now", "final"})
          => at \in Pages /\ BlockOf(at) \notin bad

\* The turns of the retry loops.
Turned ==
    /\ (pc \in Working /\ stage \in {"erase", "program"}) => attempt < Retries
    /\ pc \in Reading => attempt < VerifyRetries
    /\ (pc = "try" /\ stage \in {"erase", "program"}) => attempt <= Retries
    /\ (pc = "try" /\ stage \in {"now", "final"}) => attempt <= VerifyRetries

\* What the gate has established.
Identified ==
    /\ pc \in {"start", "id"} => correct <= attempt
    /\ correct > 0 => chip.right
    /\ (stage # "gate" \/ pc \in {"scan", "mark", "check"} \cup Unlocking) => correct = IdTests

MarkedPage(page) == page \in Marked
Scanned ==
    /\ pc \in {"start", "id", "scan"} => Idle
    /\ pc = "mark" =>
          /\ chip.op = "read" => chip.row = at * PagesPerBlock + attempt
          /\ chip.op = "none" => chip.mark = MarkedPage(at * PagesPerBlock + attempt)
    /\ pc \in {"start", "id"} => bad = {}
    /\ pc \in {"scan", "mark"} =>
          \A b \in Blocks : b \in bad <=> \/ b < at /\ b \in FactoryBad
                                          \/ b = at /\ attempt = 1 /\ MarkedPage(b * PagesPerBlock)
    /\ (stage # "gate" \/ pc \in {"check"} \cup Unlocking) => bad = FactoryBad

\* Nothing changes before the gate, and a bad block never does.
Guarded ==
    /\ stage = "gate" => (\A p \in Pages : content[p] = Old) /\ chip.op \notin Changing
    /\ chip.op = "erase" => chip.row \in Blocks \ FactoryBad
    /\ chip.op = "program" => chip.row \in Pages /\ BlockOf(chip.row) \notin FactoryBad
    /\ BadUntouched

Inv == TypeOK /\ Staged /\ Placed /\ Turned /\ Identified /\ Scanned /\ Guarded

\* What every call but the ones that change the array does to the chip.
Harmless ==
    /\ ChipType' /\ chip'.right = chip.right /\ OnlyTouched
    /\ chip'.op \in Changing => chip'.op = chip.op /\ chip'.row = chip.row

\* What is in progress goes on or ends.
Still == chip'.op = "none" \/ (chip'.op = chip.op /\ chip'.row = chip.row)

-----------------------------------------------------------------------------
(* Numbers and types *)

LEMMA Retrying ==
    /\ IdTests \in Nat \ {0} /\ Retries \in Nat \ {0} /\ VerifyRetries \in Nat \ {0}
    /\ MaxAttempt \in Nat \ {0} /\ Retries <= MaxAttempt /\ VerifyRetries <= MaxAttempt
BY RetriesAssumption DEF MaxAttempt

LEMMA Places ==
    /\ \A i \in 0 .. NBlocks : i \in 0 .. NBlocks * PagesPerBlock /\ (i # NBlocks => i \in Blocks)
    /\ \A i \in 0 .. NBlocks * PagesPerBlock : i \in Nat /\ (i < NBlocks => i \in Blocks)
    /\ \A b \in Blocks : b \in Nat /\ b + 1 \in 0 .. NBlocks
    /\ \A p \in Pages : p \in Nat /\ p + 1 \in 0 .. NBlocks * PagesPerBlock
    /\ \A p \in Pages : p \in 0 .. NBlocks * PagesPerBlock
    /\ 0 \in 0 .. NBlocks /\ 0 \in 0 .. NBlocks * PagesPerBlock
<1>. DEFINE all == NBlocks * PagesPerBlock
<1>1. NBlocks \in Nat \ {0} /\ all \in Nat /\ NBlocks <= all /\ Pages = 0 .. all - 1 /\ Blocks = 0 .. NBlocks - 1
    BY BlockRange DEF Pages, Blocks
<1>. HIDE DEF all
<1>2. /\ \A i \in 0 .. NBlocks : i \in 0 .. all /\ (i # NBlocks => i \in Blocks)
      /\ \A i \in 0 .. all : i \in Nat /\ (i < NBlocks => i \in Blocks)
      /\ \A b \in Blocks : b \in Nat /\ b + 1 \in 0 .. NBlocks
      /\ \A p \in Pages : p \in Nat /\ p + 1 \in 0 .. all
      /\ \A p \in Pages : p \in 0 .. all
      /\ 0 \in 0 .. NBlocks /\ 0 \in 0 .. all
    BY <1>1
<1>. QED BY <1>2 DEF all

LEMMA ImageType == \A p \in Pages : Image[p] \in Contents
BY DataAssumption DEF Contents

\* What the calls other than an erase or a program do to the chip.
LEMMA HarmlessCall ==
    ASSUME ChipType, NEW command \in Commands \ Changing, NEW r \in Rows, NEW data \in Contents,
           Given(command, r, data)
    PROVE  Harmless /\ (command # "READ" => Still)
BY GivenStep DEF Harmless, Still, Began, Changing, Commands

LEMMA HarmlessLocal ==
    ASSUME ChipType, UNCHANGED device
    PROVE  Harmless /\ Still /\ chip' = chip
BY DEF Harmless, Still, device, ChipType, OnlyTouched

LEMMA ResetGiven == "RESET" \in Commands \ Changing /\ 0 \in Rows /\ Blank \in Contents
BY BlockRange DEF Commands, Changing, Rows, Contents

LEMMA HarmlessReset ==
    ASSUME ChipType, Reset \/ ResetLost
    PROVE  Harmless /\ Still
<1>1. Given("RESET", 0, Blank)
    BY Resetting
<1>. QED BY <1>1, ResetGiven, HarmlessCall

LEMMA HarmlessLoss ==
    ASSUME ChipType, StatusLost
    PROVE  Harmless /\ Still /\ chip' = chip
<1>1. Given("RESET", 0, Blank)
    BY Calling
<1>. QED BY <1>1, ResetGiven, HarmlessCall DEF StatusLost

LEMMA HarmlessSend ==
    ASSUME ChipType, NEW command \in {"WREN", "WRDI", "UNLOCK", "LOAD"},
           NEW r \in Pages, NEW data \in Contents,
           Sent(command, r, data) \/ Lost(command, r, data)
    PROVE  Harmless /\ Still
<1>1. command \in Commands \ Changing /\ command # "READ" /\ r \in Rows
    BY DEF Commands, Changing, Rows
<1>2. Given(command, r, data)
    BY Calling
<1>. QED BY <1>1, <1>2, HarmlessCall

LEMMA HarmlessRead ==
    ASSUME ChipType, NEW r \in Pages, NEW data \in Contents,
           Sent("READ", r, data) \/ Lost("READ", r, data)
    PROVE  Harmless
<1>1. "READ" \in Commands \ Changing /\ r \in Rows
    BY DEF Commands, Changing, Rows
<1>2. Given("READ", r, data)
    BY Calling
<1>. QED BY <1>1, <1>2, HarmlessCall

-----------------------------------------------------------------------------
(* What the steps keep *)

LEMMA GuardKept ==
    ASSUME Inv, Harmless, stage' = "gate" => stage = "gate"
    PROVE  Guarded'
<1>1. CASE chip.op \notin Changing
  <2>1. \A p \in Pages : content'[p] = content[p]
      BY <1>1 DEF Harmless, OnlyTouched, Touched, Changing
  <2>2. chip'.op \notin Changing
      BY <1>1 DEF Harmless
  <2>. QED BY <2>1, <2>2 DEF Inv, Guarded, BadUntouched, Changing
<1>2. CASE chip.op \in Changing
  <2>1. stage' # "gate"
      BY <1>2 DEF Inv, Guarded
  <2>2. \A p \in Pages : BlockOf(p) \in FactoryBad => content'[p] = content[p]
      BY <1>2 DEF Inv, Guarded, Harmless, OnlyTouched, Touched
  <2>. QED BY <2>1, <2>2 DEF Inv, Guarded, Harmless, BadUntouched, Changing
<1>. QED BY <1>1, <1>2

\* After the gate nothing is learned about the chip any more.
LEMMA LaterKept ==
    ASSUME Inv, Harmless, UNCHANGED <<correct, bad>>, Staged', stage # "gate",
           stage' \in Stages \ {"gate"}
    PROVE  Identified' /\ Scanned' /\ Guarded'
<1>1. Guarded'
    BY GuardKept
<1>2. Identified'
    BY DEF Inv, Identified, Staged, Working, Reading, Unlocking, Ending, Harmless, TypeOK, Stages, Lists
<1>3. Scanned'
    BY DEF Inv, Scanned, Staged, Working, Reading, Unlocking, Ending, TypeOK, Stages, Lists
<1>. QED BY <1>1, <1>2, <1>3
-----------------------------------------------------------------------------
(* The steps after the gate *)

Shape == TypeOK /\ Staged /\ Placed /\ Turned

LEMMA Later ==
    ASSUME Inv, Harmless, UNCHANGED <<correct, bad>>, Shape', stage # "gate", stage' # "gate"
    PROVE  Inv'
<1>1. stage' \in Stages \ {"gate"} /\ Staged'
    BY DEF Shape, TypeOK
<1>. QED BY <1>1, LaterKept DEF Inv, Shape

LEMMA FailedType ==
    ASSUME failed \in [Lists -> SUBSET (Blocks \cup Pages)], stage \in Lists, at \in Blocks \cup Pages
    PROVE  [failed EXCEPT ![stage] = @ \cup {at}] \in [Lists -> SUBSET (Blocks \cup Pages)]
OBVIOUS

LEMMA EraseLoopCalm ==
    ASSUME Inv, EraseStage
    PROVE  Harmless /\ Still
BY HarmlessLocal DEF Inv, TypeOK, EraseStage, Local

LEMMA EraseLoop ==
    ASSUME Inv, EraseStage
    PROVE  Inv'
<1>1. stage # "gate" /\ stage \in Stages
    BY DEF Inv, TypeOK, Staged, GateLabels, Unlocking, Ending, EraseStage
<1>2. Harmless
    BY EraseLoopCalm
<1>3. UNCHANGED <<correct, bad>>
    BY DEF EraseStage, Local, Quiet
<1>4. Shape'
    BY <1>1, <1>2, Retrying, Places DEF Inv, Shape, TypeOK, Staged, Placed, Turned, Working, Reading,
       Unlocking, Ending, GateLabels, Stages, Lists, Labels,
       EraseStage, Harmless, Local, Quiet, Goto, Enter
<1>5. stage' # "gate"
    BY <1>1 DEF EraseStage, Local, Goto, Enter
<1>. QED BY <1>1, <1>2, <1>3, <1>4, <1>5, Later

LEMMA ProgramLoopCalm ==
    ASSUME Inv, ProgramStage
    PROVE  Harmless /\ Still
BY HarmlessLocal DEF Inv, TypeOK, ProgramStage, Local

LEMMA ProgramLoop ==
    ASSUME Inv, ProgramStage
    PROVE  Inv'
<1>1. stage # "gate" /\ stage \in Stages
    BY DEF Inv, TypeOK, Staged, GateLabels, Unlocking, Ending, ProgramStage
<1>2. Harmless
    BY ProgramLoopCalm
<1>3. UNCHANGED <<correct, bad>>
    BY DEF ProgramStage, Local, Quiet
<1>4. Shape'
    BY <1>1, <1>2, Retrying, Places DEF Inv, Shape, TypeOK, Staged, Placed, Turned, Working, Reading,
       Unlocking, Ending, GateLabels, Stages, Lists, Labels,
       ProgramStage, Harmless, Local, Quiet, Goto, Enter
<1>5. stage' # "gate"
    BY <1>1 DEF ProgramStage, Local, Goto, Enter
<1>. QED BY <1>1, <1>2, <1>3, <1>4, <1>5, Later

LEMMA FinalLoopCalm ==
    ASSUME Inv, FinalStage
    PROVE  Harmless /\ Still
BY HarmlessLocal DEF Inv, TypeOK, FinalStage, Local

LEMMA FinalLoop ==
    ASSUME Inv, FinalStage
    PROVE  Inv'
<1>1. stage # "gate" /\ stage \in Stages
    BY DEF Inv, TypeOK, Staged, GateLabels, Unlocking, Ending, FinalStage
<1>2. Harmless
    BY FinalLoopCalm
<1>3. UNCHANGED <<correct, bad>>
    BY DEF FinalStage, Local, Quiet
<1>4. Shape'
    BY <1>1, <1>2, Retrying, Places DEF Inv, Shape, TypeOK, Staged, Placed, Turned, Working, Reading,
       Unlocking, Ending, GateLabels, Stages, Lists, Labels,
       FinalStage, Harmless, Local, Quiet, Goto, Enter
<1>5. stage' # "gate"
    BY <1>1 DEF FinalStage, Local, Goto, Enter
<1>. QED BY <1>1, <1>2, <1>3, <1>4, <1>5, Later

LEMMA EraseTurnCalm ==
    ASSUME Inv, erase_block
    PROVE  Harmless /\ Still
BY HarmlessLocal, HarmlessReset DEF Inv, TypeOK, erase_block, GiveUp, Local, device

LEMMA EraseTurn ==
    ASSUME Inv, erase_block
    PROVE  Inv'
<1>1. stage # "gate" /\ stage \in Stages
    BY DEF Inv, TypeOK, Staged, GateLabels, Unlocking, Ending, erase_block
<1>2. Harmless
    BY EraseTurnCalm
<1>3. UNCHANGED <<correct, bad>>
    BY DEF erase_block, Local, Quiet, GiveUp, NextItem
<1>4. Shape'
    BY <1>1, <1>2, Retrying, Places, FailedType DEF Inv, Shape, TypeOK, Staged, Placed, Turned, Working,
       Reading, Unlocking, Ending, GateLabels, Stages, Lists, Labels,
       erase_block, Harmless, Local, Quiet, Goto, Enter, GiveUp, NextItem
<1>5. stage' # "gate"
    BY <1>1 DEF erase_block, Local, Goto, Enter, GiveUp, NextItem
<1>. QED BY <1>1, <1>2, <1>3, <1>4, <1>5, Later

LEMMA ProgramTurnCalm ==
    ASSUME Inv, program_page
    PROVE  Harmless /\ Still
BY HarmlessLocal, HarmlessReset DEF Inv, TypeOK, program_page, GiveUp, Local, device

LEMMA ProgramTurn ==
    ASSUME Inv, program_page
    PROVE  Inv'
<1>1. stage # "gate" /\ stage \in Stages
    BY DEF Inv, TypeOK, Staged, GateLabels, Unlocking, Ending, program_page
<1>2. Harmless
    BY ProgramTurnCalm
<1>3. UNCHANGED <<correct, bad>>
    BY DEF program_page, Local, Quiet, GiveUp, NextItem
<1>4. Shape'
    BY <1>1, <1>2, Retrying, Places, FailedType DEF Inv, Shape, TypeOK, Staged, Placed, Turned, Working,
       Reading, Unlocking, Ending, GateLabels, Stages, Lists, Labels,
       program_page, Harmless, Local, Quiet, Goto, Enter, GiveUp, NextItem
<1>5. stage' # "gate"
    BY <1>1 DEF program_page, Local, Goto, Enter, GiveUp, NextItem
<1>. QED BY <1>1, <1>2, <1>3, <1>4, <1>5, Later

LEMMA VerifyTurnCalm ==
    ASSUME Inv, verify_page
    PROVE  Harmless /\ Still
BY HarmlessLocal, HarmlessReset DEF Inv, TypeOK, verify_page, GiveUp, Local, device

LEMMA VerifyTurn ==
    ASSUME Inv, verify_page
    PROVE  Inv'
<1>1. stage # "gate" /\ stage \in Stages
    BY DEF Inv, TypeOK, Staged, GateLabels, Unlocking, Ending, verify_page
<1>2. Harmless
    BY VerifyTurnCalm
<1>3. UNCHANGED <<correct, bad>>
    BY DEF verify_page, Local, Quiet, GiveUp, NextItem
<1>4. Shape'
    BY <1>1, <1>2, Retrying, Places, FailedType DEF Inv, Shape, TypeOK, Staged, Placed, Turned, Working,
       Reading, Unlocking, Ending, GateLabels, Stages, Lists, Labels,
       verify_page, Harmless, Local, Quiet, Goto, Enter, GiveUp, NextItem
<1>5. stage' # "gate"
    BY <1>1 DEF verify_page, Local, Goto, Enter, GiveUp, NextItem
<1>. QED BY <1>1, <1>2, <1>3, <1>4, <1>5, Later

LEMMA EnablingCalm ==
    ASSUME Inv, EnableWrite
    PROVE  Harmless /\ Still
BY BlockRange, HarmlessLocal, HarmlessSend DEF Inv, TypeOK, EnableWrite, write_enable, Local, Contents

LEMMA Enabling ==
    ASSUME Inv, EnableWrite
    PROVE  Inv'
<1>1. stage # "gate" /\ stage \in Stages
    BY DEF Inv, TypeOK, Staged, GateLabels, Unlocking, Ending, EnableWrite
<1>2. Harmless
    BY EnablingCalm
<1>3. UNCHANGED <<correct, bad>>
    BY DEF EnableWrite, Local, Quiet, write_enable, NextAttempt
<1>4. Shape'
    BY <1>1, <1>2, Retrying, Places DEF Inv, Shape, TypeOK, Staged, Placed, Turned, Working, Reading,
       Unlocking, Ending, GateLabels, Stages, Lists, Labels,
       EnableWrite, Harmless, Local, Quiet, Goto, Enter, write_enable, NextAttempt
<1>5. stage' # "gate"
    BY <1>1 DEF EnableWrite, Local, Goto, Enter, write_enable, NextAttempt
<1>. QED BY <1>1, <1>2, <1>3, <1>4, <1>5, Later

LEMMA LoadingCalm ==
    ASSUME Inv, program_load
    PROVE  Harmless /\ Still
BY ImageType, BlockRange, HarmlessSend DEF Inv, TypeOK, Stages, Lists, Staged, Placed, Working, Unlocking,
   Reading, Ending, GateLabels, program_load

LEMMA Loading ==
    ASSUME Inv, program_load
    PROVE  Inv'
<1>1. stage # "gate" /\ stage \in Stages
    BY DEF Inv, TypeOK, Staged, GateLabels, Unlocking, Ending, program_load
<1>2. Harmless
    BY LoadingCalm
<1>3. UNCHANGED <<correct, bad>>
    BY DEF program_load, Local, Quiet, NextAttempt
<1>4. Shape'
    BY <1>1, <1>2, Retrying, Places DEF Inv, Shape, TypeOK, Staged, Placed, Turned, Working, Reading,
       Unlocking, Ending, GateLabels, Stages, Lists, Labels,
       program_load, Harmless, Local, Quiet, Goto, Enter, NextAttempt
<1>5. stage' # "gate"
    BY <1>1 DEF program_load, Local, Goto, Enter, NextAttempt
<1>. QED BY <1>1, <1>2, <1>3, <1>4, <1>5, Later

LEMMA WaitingCalm ==
    ASSUME Inv, wait_ready
    PROVE  Harmless /\ Still
BY HarmlessLocal, HarmlessLoss DEF Inv, TypeOK, wait_ready, Local

LEMMA Waiting ==
    ASSUME Inv, wait_ready
    PROVE  Inv'
<1>1. stage # "gate" /\ stage \in Stages
    BY DEF Inv, TypeOK, Staged, GateLabels, Unlocking, Ending, wait_ready
<1>2. Harmless
    BY WaitingCalm
<1>3. UNCHANGED <<correct, bad>>
    BY DEF wait_ready, Local, Quiet, NextAttempt, NextItem
<1>4. Shape'
    BY <1>1, <1>2, Retrying, Places DEF Inv, Shape, TypeOK, Staged, Placed, Turned, Working, Reading,
       Unlocking, Ending, GateLabels, Stages, Lists, Labels,
       wait_ready, Harmless, Local, Quiet, Goto, Enter, NextAttempt, NextItem
<1>5. stage' # "gate"
    BY <1>1 DEF wait_ready, Local, Goto, Enter, NextAttempt, NextItem
<1>. QED BY <1>1, <1>2, <1>3, <1>4, <1>5, Later

LEMMA FetchingCalm ==
    ASSUME Inv, page_read
    PROVE  Harmless
BY BlockRange, HarmlessRead DEF Inv, TypeOK, Stages, Lists, Staged, Placed, Working, Unlocking, Reading,
   Ending, GateLabels, page_read, Contents

LEMMA Fetching ==
    ASSUME Inv, page_read
    PROVE  Inv'
<1>1. stage # "gate" /\ stage \in Stages
    BY DEF Inv, TypeOK, Staged, GateLabels, Unlocking, Ending, page_read
<1>2. Harmless
    BY FetchingCalm
<1>3. UNCHANGED <<correct, bad>>
    BY DEF page_read, Local, Quiet, NextAttempt
<1>4. Shape'
    BY <1>1, <1>2, Retrying, Places DEF Inv, Shape, TypeOK, Staged, Placed, Turned, Working, Reading,
       Unlocking, Ending, GateLabels, Stages, Lists, Labels,
       page_read, Harmless, Local, Quiet, Goto, Enter, NextAttempt
<1>5. stage' # "gate"
    BY <1>1 DEF page_read, Local, Goto, Enter, NextAttempt
<1>. QED BY <1>1, <1>2, <1>3, <1>4, <1>5, Later

LEMMA ComparingCalm ==
    ASSUME Inv, read_page_main
    PROVE  Harmless /\ Still
BY HarmlessLocal, HarmlessLoss DEF Inv, TypeOK, read_page_main, Local

LEMMA Comparing ==
    ASSUME Inv, read_page_main
    PROVE  Inv'
<1>1. stage # "gate" /\ stage \in Stages
    BY DEF Inv, TypeOK, Staged, GateLabels, Unlocking, Ending, read_page_main
<1>2. Harmless
    BY ComparingCalm
<1>3. UNCHANGED <<correct, bad>>
    BY DEF read_page_main, Local, Quiet, NextAttempt, NextItem
<1>4. Shape'
    BY <1>1, <1>2, Retrying, Places DEF Inv, Shape, TypeOK, Staged, Placed, Turned, Working, Reading,
       Unlocking, Ending, GateLabels, Stages, Lists, Labels,
       read_page_main, Harmless, Local, Quiet, Goto, Enter, NextAttempt, NextItem
<1>5. stage' # "gate"
    BY <1>1 DEF read_page_main, Local, Goto, Enter, NextAttempt, NextItem
<1>. QED BY <1>1, <1>2, <1>3, <1>4, <1>5, Later

LEMMA FinishingCalm ==
    ASSUME Inv, FinalReset
    PROVE  Harmless /\ Still
BY HarmlessReset DEF Inv, TypeOK, FinalReset

LEMMA Finishing ==
    ASSUME Inv, FinalReset
    PROVE  Inv'
<1>1. stage # "gate" /\ stage \in Stages
    BY DEF Inv, TypeOK, Staged, GateLabels, Unlocking, Ending, FinalReset
<1>2. Harmless
    BY FinishingCalm
<1>3. UNCHANGED <<correct, bad>>
    BY DEF FinalReset, Local, Quiet
<1>4. Shape'
    BY <1>1, <1>2, Retrying, Places DEF Inv, Shape, TypeOK, Staged, Placed, Turned, Working, Reading,
       Unlocking, Ending, GateLabels, Stages, Lists, Labels,
       FinalReset, Harmless, Local, Quiet, Goto, Enter
<1>5. stage' # "gate"
    BY <1>1 DEF FinalReset, Local, Goto, Enter
<1>. QED BY <1>1, <1>2, <1>3, <1>4, <1>5, Later

LEMMA Executing ==
    ASSUME Inv, NEW command \in Changing, Execute(command)
    PROVE  Inv'
<1>1. /\ stage = command /\ pc = "execute" /\ at \in Pages /\ bad = FactoryBad
      /\ stage = "erase" => at \in Blocks \ FactoryBad
      /\ stage = "program" => BlockOf(at) \notin FactoryBad
    BY BlockRange DEF Inv, Placed, Working, Scanned, Execute, Changing
<1>2. Given(command, at, Blank)
    BY Calling DEF Execute
<1>3. ChipType' /\ chip'.right = chip.right /\ OnlyTouched /\ Began(command, at)
    BY <1>1, <1>2, GivenStep DEF Inv, TypeOK, Commands, Changing, Rows, Contents
<1>4. UNCHANGED <<correct, bad, stage>> /\ stage # "gate"
    BY <1>1 DEF Execute, Goto, NextAttempt, Changing
<1>5. Shape'
    BY <1>1, <1>3, <1>4, Retrying, Places DEF Inv, Shape, TypeOK, Staged, Placed, Turned, Working, Reading,
       Unlocking, Ending, GateLabels, Stages, Lists, Labels,
       Execute, Goto, NextAttempt, Changing
<1>6. Identified' /\ Scanned'
    BY <1>1, <1>3, <1>4, <1>5 DEF Inv, Identified, Scanned, Execute, Goto, NextAttempt, Shape, Changing
<1>7. Guarded'
  <2>1. \A p \in Pages : BlockOf(p) \in FactoryBad => content'[p] = content[p]
      BY <1>3 DEF Inv, Guarded, OnlyTouched, Touched
  <2>2. BadUntouched'
      BY <2>1 DEF Inv, Guarded, BadUntouched
  <2>3. /\ chip'.op = "erase" => chip'.row \in Blocks \ FactoryBad
        /\ chip'.op = "program" => chip'.row \in Pages /\ BlockOf(chip'.row) \notin FactoryBad
      BY <1>1, <1>3 DEF Inv, Guarded, Began, Changing
  <2>. QED BY <1>4, <2>2, <2>3 DEF Guarded
<1>. QED BY <1>5, <1>6, <1>7 DEF Inv, Shape

-----------------------------------------------------------------------------
(* The steps before the gate, or on both sides of it *)

\* Calls that neither learn anything nor leave the gate.
LEMMA SideKept ==
    ASSUME Inv, Harmless, Shape', UNCHANGED <<correct, bad, stage>>,
           pc \in Unlocking \cup Ending \cup {"mark", "scan", "id", "start"},
           pc' \in Unlocking \cup {"check", "wren"} => pc \in Unlocking,
           pc' \in Unlocking \cup Ending \cup {"check", "wren"} \cup {"try"}
    PROVE  Inv'
<1>1. Guarded'
    BY GuardKept
<1>2. CASE stage # "gate"
    BY <1>2, Later
<1>3. CASE stage = "gate"
  <2>1. Identified'
      BY <1>3 DEF Inv, Shape, Staged, Identified, Unlocking, Ending, Harmless, GateLabels
  <2>2. Scanned'
      BY <1>3 DEF Inv, Shape, Staged, Scanned, Unlocking, Ending, GateLabels
  <2>. QED BY <1>1, <2>1, <2>2 DEF Inv, Shape
<1>. QED BY <1>2, <1>3

LEMMA ClearingCalm ==
    ASSUME Inv, clear_protection
    PROVE  Harmless /\ Still
BY BlockRange, HarmlessLocal, HarmlessLoss, HarmlessSend DEF Inv, TypeOK, clear_protection, write_enable,
   Local, Contents

LEMMA Clearing ==
    ASSUME Inv, clear_protection
    PROVE  Inv'
<1>1. Harmless
    BY ClearingCalm
<1>2. UNCHANGED <<correct, bad, stage>>
    BY DEF clear_protection, Local, Quiet, Goto, write_enable, ClearFailed, ClearDone
<1>3. Shape'
    BY <1>1, Retrying, Places DEF Inv, Shape, TypeOK, Staged, Placed, Turned, Working, Reading, Unlocking,
       Ending, GateLabels, Stages, Lists, Labels,
       clear_protection, Harmless, Local, Quiet, Goto, write_enable, ClearFailed, ClearDone
<1>4. /\ pc \in Unlocking \cup Ending \cup {"mark", "scan", "id", "start"}
      /\ pc' \in Unlocking \cup {"check", "wren"} => pc \in Unlocking
      /\ pc' \in Unlocking \cup Ending \cup {"check", "wren"} \cup {"try"}
    BY DEF clear_protection, Local, Goto, Unlocking, Ending, write_enable, ClearFailed, ClearDone
<1>. QED BY <1>1, <1>2, <1>3, <1>4, SideKept

LEMMA ClearingRegisterCalm ==
    ASSUME Inv, ClearRegister
    PROVE  Harmless /\ Still
BY BlockRange, HarmlessSend DEF Inv, TypeOK, ClearRegister, Contents

LEMMA ClearingRegister ==
    ASSUME Inv, ClearRegister
    PROVE  Inv'
<1>1. Harmless
    BY ClearingRegisterCalm
<1>2. UNCHANGED <<correct, bad, stage>>
    BY DEF ClearRegister, Local, Quiet, Goto, ClearFailed
<1>3. Shape'
    BY <1>1, Retrying, Places DEF Inv, Shape, TypeOK, Staged, Placed, Turned, Working, Reading, Unlocking,
       Ending, GateLabels, Stages, Lists, Labels,
       ClearRegister, Harmless, Local, Quiet, Goto, ClearFailed
<1>4. /\ pc \in Unlocking \cup Ending \cup {"mark", "scan", "id", "start"}
      /\ pc' \in Unlocking \cup {"check", "wren"} => pc \in Unlocking
      /\ pc' \in Unlocking \cup Ending \cup {"check", "wren"} \cup {"try"}
    BY DEF ClearRegister, Local, Goto, Unlocking, Ending, ClearFailed
<1>. QED BY <1>1, <1>2, <1>3, <1>4, SideKept

LEMMA ReadingBackCalm ==
    ASSUME Inv, ReadBack
    PROVE  Harmless /\ Still
BY HarmlessLocal, HarmlessLoss DEF Inv, TypeOK, ReadBack, Local

LEMMA ReadingBack ==
    ASSUME Inv, ReadBack
    PROVE  Inv'
<1>1. Harmless
    BY ReadingBackCalm
<1>2. UNCHANGED <<correct, bad, stage>>
    BY DEF ReadBack, Local, Quiet, Goto, ClearFailed, ClearDone
<1>3. Shape'
    BY <1>1, Retrying, Places DEF Inv, Shape, TypeOK, Staged, Placed, Turned, Working, Reading, Unlocking,
       Ending, GateLabels, Stages, Lists, Labels,
       ReadBack, Harmless, Local, Quiet, Goto, ClearFailed, ClearDone
<1>4. /\ pc \in Unlocking \cup Ending \cup {"mark", "scan", "id", "start"}
      /\ pc' \in Unlocking \cup {"check", "wren"} => pc \in Unlocking
      /\ pc' \in Unlocking \cup Ending \cup {"check", "wren"} \cup {"try"}
    BY DEF ReadBack, Local, Goto, Unlocking, Ending, ClearFailed, ClearDone
<1>. QED BY <1>1, <1>2, <1>3, <1>4, SideKept

LEMMA DisablingCalm ==
    ASSUME Inv, WriteDisable
    PROVE  Harmless /\ Still
BY BlockRange, HarmlessSend DEF Inv, TypeOK, WriteDisable, Contents

LEMMA Disabling ==
    ASSUME Inv, WriteDisable
    PROVE  Inv'
<1>1. Harmless
    BY DisablingCalm
<1>2. UNCHANGED <<correct, bad, stage>>
    BY DEF WriteDisable, Local, Quiet, Goto
<1>3. Shape'
    BY <1>1, Retrying, Places DEF Inv, Shape, TypeOK, Staged, Placed, Turned, Working, Reading, Unlocking,
       Ending, GateLabels, Stages, Lists, Labels,
       WriteDisable, Harmless, Local, Quiet, Goto
<1>4. /\ pc \in Unlocking \cup Ending \cup {"mark", "scan", "id", "start"}
      /\ pc' \in Unlocking \cup {"check", "wren"} => pc \in Unlocking
      /\ pc' \in Unlocking \cup Ending \cup {"check", "wren"} \cup {"try"}
    BY DEF WriteDisable, Local, Goto, Unlocking, Ending
<1>. QED BY <1>1, <1>2, <1>3, <1>4, SideKept

LEMMA CleaningUpCalm ==
    ASSUME Inv, cleanup
    PROVE  Harmless /\ Still
BY HarmlessReset DEF Inv, TypeOK, cleanup

LEMMA CleaningUp ==
    ASSUME Inv, cleanup
    PROVE  Inv'
<1>1. Harmless
    BY CleaningUpCalm
<1>2. UNCHANGED <<correct, bad, stage>>
    BY DEF cleanup, Local, Quiet, Goto, Result
<1>3. Shape'
    BY <1>1, Retrying, Places DEF Inv, Shape, TypeOK, Staged, Placed, Turned, Working, Reading, Unlocking,
       Ending, GateLabels, Stages, Lists, Labels,
       cleanup, Harmless, Local, Quiet, Goto, Result
<1>4. /\ pc \in Unlocking \cup Ending \cup {"mark", "scan", "id", "start"}
      /\ pc' \in Unlocking \cup {"check", "wren"} => pc \in Unlocking
      /\ pc' \in Unlocking \cup Ending \cup {"check", "wren"} \cup {"try"}
    BY DEF cleanup, Local, Goto, Unlocking, Ending, Result
<1>. QED BY <1>1, <1>2, <1>3, <1>4, SideKept

-----------------------------------------------------------------------------
(* The gate *)

LEMMA Starting ==
    ASSUME Inv, Start
    PROVE  Inv'
<1>1. stage = "gate" /\ UNCHANGED <<correct, bad, stage, attempt>> /\ pc = "start" /\ Idle
    BY DEF Inv, Staged, Start, Quiet, Goto, Working, Reading, Unlocking, Ending, Scanned, TypeOK, Stages,
       Lists
<1>2. Harmless /\ Idle'
    BY <1>1, HarmlessLocal, HarmlessReset DEF Inv, TypeOK, Start, Idle, ChipType, Still
<1>3. Shape'
    BY <1>1, <1>2, Retrying, Places DEF Inv, Shape, TypeOK, Staged, Placed, Turned, Working, Reading,
       Unlocking, Ending, GateLabels, Stages, Lists, Labels, Start, Harmless, Quiet, Goto
<1>4. pc' \in {"id", "cleanup", "exited"}
    BY DEF Start, Goto
<1>5. Identified'
    BY <1>1, <1>2, <1>4 DEF Inv, Identified, Harmless, Unlocking
<1>6. Scanned'
    BY <1>1, <1>2, <1>4 DEF Inv, Scanned, Unlocking
<1>7. Guarded'
    BY <1>1, <1>2, GuardKept
<1>. QED BY <1>3, <1>5, <1>6, <1>7 DEF Inv, Shape

LEMMA Identifying ==
    ASSUME Inv, diagnostic_read_id
    PROVE  Inv'
<1>1. pc = "id" /\ stage = "gate" /\ UNCHANGED <<stage, bad>> /\ Idle /\ correct <= attempt /\ bad = {}
    BY DEF Inv, Staged, diagnostic_read_id, Local, Quiet, Goto, Enter, Working, Reading, Unlocking, Ending,
           Scanned, Identified, TypeOK, Stages, Lists
<1>2. Harmless /\ Idle'
  <2>1. CASE UNCHANGED device
      BY <1>1, <2>1, HarmlessLocal DEF Inv, TypeOK, Idle
  <2>2. CASE Reset \/ ResetLost
      BY <1>1, <2>2, HarmlessReset DEF Inv, TypeOK, Idle, Still
  <2>3. CASE Trouble("bus") /\ Receive("RESET", 0, Blank)
    <3>1. Lost("RESET", 0, Blank)
        BY <2>3 DEF Lost
    <3>. QED BY <1>1, <3>1, HarmlessReset DEF Inv, TypeOK, Idle, Still, ResetLost
  <2>. QED BY <2>1, <2>2, <2>3 DEF diagnostic_read_id, Local
<1>3. CASE attempt < IdTests /\ ~abort_requested
  <2>1. /\ attempt' = attempt + 1 /\ pc' = "id" /\ UNCHANGED <<at, failed, stop, late, exit>>
        /\ correct' = correct \/ (chip.right /\ correct' = correct + 1)
      BY <1>1, <1>3, Retrying DEF diagnostic_read_id, Inv, TypeOK
  <2>2. correct \in Nat /\ attempt \in Nat
      BY Retrying DEF Inv, TypeOK
  <2>3. Shape'
      BY <1>1, <1>2, <1>3, <2>1, <2>2, Retrying, Places DEF Inv, Shape, TypeOK, Staged, Placed, Turned,
         Working, Reading, Unlocking, Ending, GateLabels, Stages, Lists, Labels, Harmless
  <2>4. Identified'
      BY <1>1, <1>2, <2>1, <2>2 DEF Inv, Identified, Harmless, Unlocking
  <2>5. Scanned'
      BY <1>1, <1>2, <2>1 DEF Inv, Scanned, Unlocking
  <2>. QED BY <1>1, <1>2, <2>3, <2>4, <2>5, GuardKept DEF Inv, Shape
<1>4. CASE ~(attempt < IdTests /\ ~abort_requested)
  <2>1. /\ UNCHANGED <<correct, failed, stop, late, exit>>
        /\ \/ pc' = "cleanup" /\ UNCHANGED <<at, attempt>>
           \/ pc' = "scan" /\ correct = IdTests /\ at' = 0 /\ attempt' = 0
      BY <1>4 DEF diagnostic_read_id, Goto, Enter, Local, Quiet
  <2>2. Shape'
      BY <1>1, <1>2, <2>1, Retrying, Places DEF Inv, Shape, TypeOK, Staged, Placed, Turned, Working, Reading,
         Unlocking, Ending, GateLabels, Stages, Lists, Labels, Harmless
  <2>3. Identified'
      BY <1>1, <1>2, <2>1 DEF Inv, Identified, Harmless, Unlocking
  <2>4. Scanned'
    <3>1. \A b \in Blocks : ~ b < 0
        BY Places
    <3>. QED BY <1>1, <1>2, <2>1, <3>1 DEF Inv, Scanned, Unlocking
  <2>. QED BY <1>1, <1>2, <2>2, <2>3, <2>4, GuardKept DEF Inv, Shape
<1>. QED BY <1>3, <1>4

\* The scan stops, goes to the next step of the gate, or reads a marker.
LEMMA Scanning ==
    ASSUME Inv, scan_factory_bad_blocks
    PROVE  Inv'
<1>1. pc = "scan" /\ stage = "gate" /\ Idle /\ UNCHANGED <<correct, failed, stop, late, exit, bad>>
    BY DEF Inv, Staged, scan_factory_bad_blocks, Local, Quiet, Working, Reading, Unlocking, Ending,
           Scanned, TypeOK, Stages, Lists
<1>. DEFINE page == at * PagesPerBlock + attempt
<1>2. at \in 0 .. NBlocks /\ attempt \in {0, 1}
    BY <1>1 DEF Inv, Placed
<1>3. CASE at = NBlocks
  <2>1. pc' = "clear" /\ stage' = "gate" /\ at' = 0 /\ attempt' = 0 /\ UNCHANGED device
      BY <1>1, <1>2, <1>3, Places DEF scan_factory_bad_blocks, Enter, Local, Goto
  <2>2. Harmless
      BY <2>1, HarmlessLocal DEF Inv, TypeOK
  <2>3. Shape'
      BY <1>1, <2>1, <2>2, Retrying, Places DEF Inv, Shape, TypeOK, Staged, Placed, Turned, Working, Reading,
         Unlocking, Ending, GateLabels, Stages, Lists, Labels, Harmless
  <2>4. Identified'
      BY <1>1, <2>1, <2>2 DEF Inv, Identified, Harmless, Unlocking
  <2>5. bad = FactoryBad
    <3>1. \A b \in Blocks : b < NBlocks /\ b # NBlocks
        BY GeometryAssumption DEF Blocks
    <3>2. \A b \in Blocks : b \in bad <=> b \in FactoryBad
        BY <1>1, <1>3, <3>1 DEF Inv, Scanned
    <3>3. bad \subseteq Blocks /\ FactoryBad \subseteq Blocks
        BY DEF Inv, TypeOK, FactoryBad
    <3>. QED BY <3>2, <3>3
  <2>6. Scanned'
      BY <1>1, <2>1, <2>5 DEF Scanned, Unlocking
  <2>. QED BY <1>1, <2>1, <2>2, <2>3, <2>4, <2>6, GuardKept DEF Inv, Shape
<1>4. CASE at # NBlocks
  <2>1. at \in Blocks /\ page \in Pages /\ Blank \in Contents
      BY <1>2, <1>4, Places, RowsOfBlock DEF Contents
  <2>2. \/ pc' = "cleanup" /\ UNCHANGED <<stage, at, attempt>> /\ UNCHANGED device
        \/ pc' = "cleanup" /\ UNCHANGED <<stage, at, attempt>> /\ Lost("READ", page, Blank)
        \/ pc' = "mark" /\ UNCHANGED <<stage, at, attempt>> /\ Sent("READ", page, Blank)
      BY <1>4 DEF scan_factory_bad_blocks, Goto, Local
  <2>. HIDE DEF page
  <2>3. Harmless
      BY <2>1, <2>2, HarmlessLocal, HarmlessRead DEF Inv, TypeOK
  <2>4. Shape'
      BY <1>1, <1>2, <2>1, <2>2, <2>3, Retrying, Places DEF Inv, Shape, TypeOK, Staged, Placed, Turned,
         Working, Reading, Unlocking, Ending, GateLabels, Stages, Lists, Labels, Harmless
  <2>5. Identified'
      BY <1>1, <2>2, <2>3 DEF Inv, Identified, Harmless, Unlocking
  <2>6. pc' = "mark" => chip'.op = "read" /\ chip'.row = page
      BY <1>1, <2>2, ReadBegins DEF Inv, TypeOK
  <2>7. Scanned'
      BY <1>1, <2>2, <2>6 DEF Inv, Scanned, Unlocking, page
  <2>. QED BY <1>1, <2>2, <2>3, <2>4, <2>5, <2>7, GuardKept DEF Inv, Shape
<1>. QED BY <1>3, <1>4

\* The list grows by one block at most, whose two markers have then been read.
LEMMA Marking ==
    ASSUME Inv, check_factory_bad_block
    PROVE  Inv'
<1>1. /\ pc = "mark" /\ stage = "gate" /\ UNCHANGED <<correct, failed, stop, late, exit, stage>>
      /\ at \in Blocks /\ attempt \in {0, 1}
    BY DEF Inv, Staged, Placed, check_factory_bad_block, Local, Quiet, Goto, Working, Reading, Unlocking,
       Ending,
           Scanned, TypeOK, Stages, Lists
<1>2. CASE pc' = "cleanup"
  <2>1. UNCHANGED <<at, attempt, bad>> /\ (UNCHANGED device \/ StatusLost)
      BY <1>2 DEF check_factory_bad_block, Local, Quiet, Goto
  <2>2. Harmless
      BY <2>1, HarmlessLocal, HarmlessLoss DEF Inv, TypeOK
  <2>3. Shape'
      BY <1>1, <1>2, <2>1, <2>2, Retrying, Places DEF Inv, Shape, TypeOK, Staged, Placed, Turned, Working,
         Reading, Unlocking, Ending, GateLabels, Stages, Lists, Labels, Harmless
  <2>. QED BY <1>1, <1>2, <2>1, <2>2, <2>3, SideKept DEF Unlocking, Ending
<1>3. CASE pc' # "cleanup"
  <2>1. /\ pc' = "scan" /\ at' = at + attempt /\ attempt' = 1 - attempt /\ Idle /\ UNCHANGED device
        /\ bad' = (IF chip.mark THEN bad \cup {at} ELSE bad)
      BY <1>3 DEF check_factory_bad_block, Goto
  <2>2. Harmless /\ chip' = chip
      BY <2>1, HarmlessLocal DEF Inv, TypeOK
  <2>3. bad \subseteq Blocks /\ bad' \subseteq Blocks
      BY <1>1, <2>1 DEF Inv, TypeOK
  <2>4. at + attempt \in 0 .. NBlocks /\ 1 - attempt \in {0, 1} /\ (at + attempt = NBlocks => 1 - attempt = 0)
      BY <1>1, GeometryAssumption DEF Blocks
  <2>5. Shape'
      BY <1>1, <2>1, <2>2, <2>3, <2>4, Retrying, Places DEF Inv, Shape, TypeOK, Staged, Placed, Turned,
         Working, Reading, Unlocking, Ending, GateLabels, Stages, Lists, Labels, Harmless
  <2>6. Identified'
      BY <1>1, <2>1, <2>2 DEF Inv, Identified, Harmless, Unlocking
  <2>. DEFINE First(b) == MarkedPage(b * PagesPerBlock)
              Second(b) == MarkedPage(b * PagesPerBlock + 1)
  <2>7. at * PagesPerBlock \in Int /\ \A b \in Blocks : b \in Int
      BY <1>1, GeometryAssumption, BlockRange, Places, SMTT(30)
  <2>8. /\ attempt = 0 => chip.mark = First(at)
        /\ attempt = 1 => chip.mark = Second(at)
    <3>1. chip.mark = MarkedPage(at * PagesPerBlock + attempt)
        BY <1>1, <2>1 DEF Inv, Scanned, Idle
    <3>2. at * PagesPerBlock + 0 = at * PagesPerBlock
        BY <2>7
    <3>. QED BY <3>1, <3>2
  <2>9. \A b \in Blocks : 
        b \in bad <=> (b < at /\ b \in FactoryBad) \/ (b = at /\ attempt = 1 /\ First(b))
      BY <1>1, <2>1 DEF Inv, Scanned, Idle
  <2>10. at \in FactoryBad <=> First(at) \/ Second(at)
      BY <1>1 DEF FactoryBad, MarkedPage
  <2>12. \A b \in Blocks : 
        b \in bad' <=> (b < at' /\ b \in FactoryBad) \/ (b = at' /\ attempt' = 1 /\ First(b))
    <3>. HIDE DEF First, Second
    <3>1. CASE attempt = 0
      <4>1. at' = at /\ attempt' = 1 /\ bad' = (IF First(at) THEN bad \cup {at} ELSE bad)
          BY <2>1, <2>7, <2>8, <3>1, <1>1
      <4>2. \A b \in Blocks : b \in bad <=> b < at /\ b \in FactoryBad
          BY <2>9, <3>1
      <4>. QED BY <1>1, <4>1, <4>2
    <3>2. CASE attempt = 1
      <4>1. at' = at + 1 /\ attempt' = 0 /\ bad' = (IF Second(at) THEN bad \cup {at} ELSE bad)
          BY <2>1, <2>8, <3>2
      <4>2. \A b \in Blocks : b \in bad <=> (b < at /\ b \in FactoryBad) \/ (b = at /\ First(at))
          BY <2>9, <3>2
      <4>3. \A b \in Blocks : b < at + 1 <=> b < at \/ b = at
          BY <1>1, <2>7
      <4>4. \A b \in Blocks : b \in bad' <=> b < at + 1 /\ b \in FactoryBad
          BY <1>1, <2>10, <4>1, <4>2, <4>3
      <4>. QED BY <4>1, <4>4
    <3>. QED BY <1>1, <3>1, <3>2
  <2>11. Scanned'
      BY <1>1, <2>1, <2>2, <2>12 DEF Inv, Scanned, Unlocking, Idle
  <2>. QED BY <1>1, <2>2, <2>5, <2>6, <2>11, GuardKept DEF Inv, Shape
<1>. QED BY <1>2, <1>3

LEMMA Unlocked ==
    ASSUME Inv, VerifyProtection
    PROVE  Inv'
<1>1. pc = "check" /\ stage = "gate" /\ UNCHANGED <<correct, failed, stop, late, exit, bad>>
    BY DEF Inv, Staged, VerifyProtection, Local, Quiet, Working, Reading, Unlocking, Ending, TypeOK, Stages,
       Lists
<1>2. Harmless
    BY HarmlessLocal, HarmlessLoss DEF Inv, TypeOK, VerifyProtection, Local
<1>3. \/ pc' = "cleanup" /\ UNCHANGED <<stage, at, attempt>>
      \/ pc' = "head" /\ stage' = "erase" /\ at' = 0 /\ attempt' = 0
    BY DEF VerifyProtection, Goto, Enter
<1>4. Shape'
    BY <1>1, <1>2, <1>3, Retrying, Places DEF Inv, Shape, TypeOK, Staged, Placed, Turned, Working, Reading,
       Unlocking, Ending, GateLabels, Stages, Lists, Labels, Harmless
<1>5. Identified'
    BY <1>1, <1>2, <1>3 DEF Inv, Identified, Harmless, Unlocking
<1>6. Scanned'
    BY <1>1, <1>3 DEF Inv, Scanned, Unlocking
<1>. QED BY <1>1, <1>2, <1>4, <1>5, <1>6, GuardKept DEF Inv, Shape

-----------------------------------------------------------------------------
(* The handler thread and the chip *)

LEMMA Stopping ==
    ASSUME Inv, console_ctrl_handler
    PROVE  Inv'
<1>1. Harmless /\ chip' = chip
    BY HarmlessLocal DEF Inv, TypeOK, console_ctrl_handler
<1>2. Shape'
    BY <1>1 DEF Inv, Shape, TypeOK, Staged, Placed, Turned, Working, Reading, Unlocking, Ending, GateLabels,
       console_ctrl_handler, Harmless
<1>3. Identified' /\ Scanned'
    BY <1>1 DEF Inv, Identified, Scanned, console_ctrl_handler, Idle
<1>. QED BY <1>1, <1>2, <1>3, GuardKept DEF Inv, Shape, console_ctrl_handler

LEMMA Working_chip ==
    ASSUME Inv, Chip
    PROVE  Inv'
<1>1. ChipType' /\ chip'.right = chip.right /\ OnlyTouched /\ chip'.op = "none" /\ ChipDone /\ ~Idle
    BY ChipDoneStep DEF Inv, TypeOK, Chip, ChipDone, ReadDone, EraseDone, ProgramDone, Idle
<1>2. Harmless
    BY <1>1 DEF Harmless, Changing
<1>3. UNCHANGED <<pc, stage, at, attempt, correct, bad, failed, stop, late, exit>>
    BY DEF Chip
<1>4. Shape'
    BY <1>1, <1>3 DEF Inv, Shape, TypeOK, Staged, Placed, Turned, Working, Reading, Unlocking, Ending,
       GateLabels
<1>5. Identified'
    BY <1>1, <1>3 DEF Inv, Identified
<1>6. pc = "mark" => chip'.mark = MarkedPage(at * PagesPerBlock + attempt)
  <2>1. SUFFICES ASSUME pc = "mark"
                 PROVE  chip'.mark = MarkedPage(at * PagesPerBlock + attempt)
      OBVIOUS
  <2>2. chip.op = "read"
    <3>1. stage = "gate"
        BY <2>1 DEF Inv, Staged, TypeOK, Stages, Lists, Working, Reading, Unlocking, Ending
    <3>. QED BY <1>1, <3>1 DEF Inv, Guarded, Idle, TypeOK, ChipType, Changing
  <2>. QED BY <1>1, <2>1, <2>2, MarkRead DEF Inv, TypeOK, Scanned, MarkedPage
<1>7. Scanned'
    BY <1>1, <1>3, <1>6 DEF Inv, Scanned, Idle
<1>. QED BY <1>2, <1>3, <1>4, <1>5, <1>7, GuardKept DEF Inv, Shape

-----------------------------------------------------------------------------
(* The theorems *)

LEMMA Initially == Init => Inv
<1>. SUFFICES ASSUME Init PROVE Inv
    OBVIOUS
<1>1. PICK l \in BOOLEAN, k \in BOOLEAN, r \in BOOLEAN :
        chip = [op |-> "none", row |-> 0, wel |-> FALSE, locked |-> l,
                relocks |-> k, right |-> r, fail |-> "none", cache |-> Old, mark |-> FALSE, cut |-> FALSE]
    BY DEF Init, ChipInit
<1>2. ChipType
    BY <1>1, BlockRange, GeometryAssumption DEF Init, ChipInit, ChipType, Contents, Kinds
<1>3. TypeOK
  <2>1. failed \in [Lists -> SUBSET (Blocks \cup Pages)]
      BY DEF Init
  <2>2. attempt \in 0 .. (IF stage = "gate" THEN IdTests ELSE MaxAttempt) /\ correct \in 0 .. IdTests
      BY Retrying DEF Init
  <2>. QED BY <1>2, <2>1, <2>2, Places DEF Init, TypeOK, Stages, Lists, Labels
<1>6. Shape
    BY <1>3 DEF Init, Shape, Staged, Placed, Turned, Working, Reading, Unlocking, Ending, GateLabels
<1>4. Identified /\ Scanned
    BY <1>1 DEF Init, Identified, Scanned, Idle, Unlocking
<1>5. Guarded
    BY <1>1 DEF Init, ChipInit, Guarded, BadUntouched, Changing
<1>. QED BY <1>6, <1>4, <1>5 DEF Inv, Shape

LEMMA Stuttering == Inv /\ UNCHANGED vars => Inv'
<1>. SUFFICES ASSUME Inv, UNCHANGED vars PROVE Inv'
    OBVIOUS
<1>1. Harmless /\ chip' = chip
    BY HarmlessLocal DEF Inv, TypeOK, vars, device
<1>2. Shape'
    BY <1>1 DEF Inv, Shape, TypeOK, Staged, Placed, Turned, Working, Reading, Unlocking, Ending, GateLabels,
       vars, Harmless
<1>3. Identified' /\ Scanned'
    BY <1>1 DEF Inv, Identified, Scanned, vars, Idle
<1>. QED BY <1>1, <1>2, <1>3, GuardKept DEF Inv, Shape, vars

LEMMA Stepping == Inv /\ [Next]_vars => Inv'
<1>1. Inv /\ Tool => Inv'
    BY Starting, Identifying, Scanning, Marking, Clearing, ClearingRegister, ReadingBack, Unlocked,
       EraseLoop, ProgramLoop, FinalLoop, EraseTurn, ProgramTurn, Enabling, Loading, Executing,
       Waiting, VerifyTurn, Fetching, Comparing, Finishing, Disabling, CleaningUp
    DEF Tool, erase_block_once, program_page_once, Changing
<1>. QED BY <1>1, Stopping, Working_chip, Stuttering DEF Next

\* The invariant holds in every state, whatever fails and whenever Ctrl-C comes.
THEOREM Invariance == Spec => []Inv
BY Initially, Stepping, PTL DEF Spec

\* Every variable of the tool and of the chip keeps its type: no retry counter
\* and no place of a loop leaves its range.
THEOREM TypeCorrect == Spec => []TypeOK
<1>1. Inv => TypeOK
    BY DEF Inv
<1>. QED BY <1>1, Invariance, PTL

\* No page of a block with a factory mark ever changes.
THEOREM BadBlocksUntouched == Spec => []BadUntouched
<1>1. Inv => BadUntouched
    BY DEF Inv, Guarded
<1>. QED BY <1>1, Invariance, PTL

\* Nothing has changed unless the chip has answered every ID test and the list
\* of bad blocks is that of the factory marks.
THEOREM GateComesFirst == Spec => []GateFirst
<1>1. Inv => GateFirst
  <2>1. SUFFICES ASSUME Inv, NEW p \in Pages, content[p] # Old
                 PROVE  chip.right /\ correct = IdTests /\ bad = FactoryBad
      BY DEF GateFirst
  <2>2. stage # "gate"
      BY <2>1 DEF Inv, Guarded
  <2>. QED BY <2>1, <2>2, Retrying DEF Inv, Identified, Scanned
<1>. QED BY <1>1, Invariance, PTL

-----------------------------------------------------------------------------
(* The report *)

Listed(p) == p \in failed["program"] \cup failed["now"] \cup failed["final"]
Settled(p) == BlockOf(p) \in FactoryBad \/ Listed(p)
Good(p) == Settled(p) \/ content[p] = Image[p]
Behind(p) == stage \in {"final", "done"} \/ (stage \in {"program", "now"} /\ p < at)

\* Every page left behind is good, listed or in a bad block; an operation that
\* is still in progress can only change pages for which the report is made
\* already, or the page of the loop.
Reported ==
    /\ \A p \in Pages : Behind(p) => Good(p)
    /\ chip.op = "erase" => \A p \in Pages : Behind(p) => Settled(p)
    /\ chip.op = "program" => Settled(chip.row) \/ (stage = "program" /\ chip.row = at)

\* The read-back that follows a program looks at the page itself.
Fresh ==
    stage = "now" =>
        /\ chip.op \notin Changing
        /\ chip.op = "read" => chip.row = at
        /\ pc = "compare" => chip.op = "read" \/ chip.cache = content[at]

Judged == Reported /\ Fresh /\ (exit \in {0, 2} => stage = "done")

\* A step that leaves no page behind but those it lists.
LEMMA ReportKept ==
    ASSUME Inv, Reported, Harmless,
           \A p \in Pages : Listed(p) => Listed(p)',
           \A p \in Pages : Behind(p)' => Behind(p) \/ Settled(p)',
           (stage = "program" /\ chip.row = at /\ chip.op = "program")
              => (stage' = "program" /\ at' = at) \/ (\A p \in Pages : p = at => Settled(p)')
    PROVE  Reported'
<1>1. \A p \in Pages : Settled(p) => Settled(p)'
    BY DEF Settled
<1>2. \A p \in Pages : Behind(p) => Good(p)'
  <2>1. SUFFICES ASSUME NEW p \in Pages, Behind(p)
                 PROVE  Good(p)'
      OBVIOUS
  <2>2. CASE Settled(p)
      BY <1>1, <2>2 DEF Good
  <2>3. CASE ~Settled(p)
    <3>1. content[p] = Image[p]
        BY <2>1, <2>3 DEF Reported, Good
    <3>2. p \in Nat /\ ~(p < p)
        BY Places
    <3>3. ~Touched(p)
        BY <2>1, <2>3, <3>2 DEF Reported, Touched, Behind
    <3>. QED BY <3>1, <3>3 DEF Harmless, OnlyTouched, Good
  <2>. QED BY <2>2, <2>3
<1>3. \A p \in Pages : Behind(p)' => Good(p)'
    BY <1>2 DEF Good
<1>4. chip'.op = "erase" => \A p \in Pages : Behind(p)' => Settled(p)'
    BY <1>1 DEF Harmless, Reported, Changing
<1>5. chip'.op = "program" => Settled(chip.row)' \/ (stage' = "program" /\ chip'.row = at')
  <2>1. SUFFICES ASSUME chip'.op = "program"
                 PROVE  Settled(chip.row)' \/ (stage' = "program" /\ chip'.row = at')
      OBVIOUS
  <2>2. chip.op = "program" /\ chip'.row = chip.row /\ chip.row \in Pages
      BY <2>1 DEF Harmless, Changing, Inv, Guarded
  <2>3. PICK p \in Pages : p = chip.row
      BY <2>2
  <2>4. Settled(p)' => Settled(chip.row)'
      BY <2>2, <2>3 DEF Settled, Listed
  <2>5. CASE Settled(p)
      BY <1>1, <2>3, <2>4, <2>5
  <2>6. CASE ~Settled(p)
    <3>1. stage = "program" /\ chip.row = at
        BY <2>2, <2>3, <2>6 DEF Reported
    <3>2. (stage' = "program" /\ at' = at) \/ Settled(p)'
        BY <2>2, <2>3, <3>1
    <3>. QED BY <2>2, <2>4, <3>1, <3>2
  <2>. QED BY <2>5, <2>6
<1>. QED BY <1>3, <1>4, <1>5 DEF Reported

\* A step that stays where it is.
LEMMA JudgedKept ==
    ASSUME Inv, Judged, Harmless, Still, UNCHANGED <<stage, at, failed>>,
           pc' = "compare" => pc = "compare" /\ UNCHANGED <<content, chip>>,
           exit' \in {0, 2} => stage = "done"
    PROVE  Judged'
<1>1. Reported'
    BY ReportKept DEF Judged, Listed, Behind
<1>2. Fresh'
    BY DEF Judged, Fresh, Still, Changing
<1>. QED BY <1>1, <1>2 DEF Judged

LEMMA GateJudged ==
    ASSUME Inv', stage' = "gate", exit' \notin {0, 2}
    PROVE  Judged'
<1>1. chip'.op \notin Changing
    BY DEF Inv, Guarded
<1>2. Reported' /\ Fresh'
    BY <1>1 DEF Reported, Fresh, Behind, Changing
<1>. QED BY <1>2 DEF Judged

\* A step of a loop, which leaves the chip alone.
LEMMA JudgedLoop ==
    ASSUME Inv, Judged, EraseStage \/ ProgramStage \/ FinalStage
    PROVE  Judged'
<1>1. Harmless /\ Still
    BY EraseLoopCalm, ProgramLoopCalm, FinalLoopCalm
<1>2. UNCHANGED <<bad, failed, exit>> /\ stage' # "now" /\ stage # "done" /\ stage # "gate"
      /\ bad = FactoryBad /\ (exit \in {0, 2} => stage = "done")
    BY DEF EraseStage, ProgramStage, FinalStage, Local, Quiet, Enter, Goto, Judged, Inv, Scanned
<1>3. \A p \in Pages : Listed(p) => Listed(p)'
    BY <1>2 DEF Listed
<1>4. \A p \in Pages : p \in Int /\ (at \in Nat /\ at \notin Pages => p < at)
  <2>. DEFINE all == NBlocks * PagesPerBlock
  <2>1. Pages = 0 .. all - 1 /\ all \in Nat
      BY BlockRange DEF Pages
  <2>. HIDE DEF all
  <2>. QED BY <2>1
<1>5. at \in Nat
    BY Places DEF Inv, TypeOK
<1>6. \A p \in Pages : Behind(p)' => Behind(p) \/ Settled(p)'
  <2>1. CASE stage = "erase"
    <3>1. stage' = "erase" \/ (stage' = "program" /\ at' = 0)
        BY <1>2, <2>1 DEF EraseStage, ProgramStage, FinalStage, Goto, Enter
    <3>2. \A p \in Pages : ~(p < 0)
        BY Places
    <3>. QED BY <3>1, <3>2 DEF Behind
  <2>2. CASE stage = "program"
    <3>1. \/ at \notin Pages /\ stage' = "final"
          \/ stage' = "program" /\ at' = at
          \/ stage' = "program" /\ at' = at + 1 /\ BlockOf(at) \in FactoryBad
        BY <1>2, <2>2 DEF EraseStage, ProgramStage, FinalStage, Goto, Enter
    <3>2. \A p \in Pages : p < at + 1 => p < at \/ p = at
        BY <1>4, <1>5
    <3>. QED BY <1>4, <1>5, <2>2, <3>1, <3>2 DEF Behind, Settled
  <2>3. CASE stage = "final"
      BY <2>3 DEF Behind
  <2>. QED BY <1>2, <2>1, <2>2, <2>3 DEF EraseStage, ProgramStage, FinalStage
<1>7. stage = "program" => (stage' = "program" /\ at' = at) \/ (\A p \in Pages : p = at => Settled(p)')
    BY <1>2 DEF EraseStage, ProgramStage, FinalStage, Goto, Enter, Settled
<1>8. Reported'
    BY <1>1, <1>3, <1>6, <1>7, ReportKept DEF Judged
<1>. QED BY <1>2, <1>8 DEF Judged, Fresh

\* An item that is given up is listed.
LEMMA JudgedGiveUp ==
    ASSUME Inv, Judged, GiveUp, stage \in Lists, pc = "try"
    PROVE  Judged'
<1>1. Harmless /\ Still
    BY HarmlessLocal DEF Inv, TypeOK, GiveUp, device
<1>2. /\ failed' = [failed EXCEPT ![stage] = failed[stage] \cup {at}] /\ failed \in [Lists -> SUBSET (Blocks \cup Pages)]
      /\ UNCHANGED exit /\ stage' = (IF stage = "now" THEN "program" ELSE stage) /\ at' = at + 1
    BY DEF GiveUp, NextItem, Enter, Inv, TypeOK
<1>3. \A l \in Lists : failed[l] \subseteq failed'[l]
    BY <1>2
<1>4. \A p \in Pages : Listed(p) => Listed(p)'
    BY <1>3 DEF Listed, Lists
<1>5. stage # "erase" => \A p \in Pages : p = at => Settled(p)'
    BY <1>2 DEF Settled, Listed, Lists
<1>6. \A p \in Pages : p \in Int
    BY Places
<1>7. at \in Nat
    BY Places DEF Inv, TypeOK
<1>8. \A p \in Pages : Behind(p)' => Behind(p) \/ Settled(p)'
    BY <1>2, <1>5, <1>6, <1>7 DEF Behind, Lists
<1>9. Reported'
    BY <1>1, <1>2, <1>4, <1>5, <1>8, ReportKept DEF Judged, Lists
<1>. QED BY <1>2, <1>9 DEF Judged, Fresh, Lists

\* The operation has ended without an error: the program is read back.
LEMMA JudgedWait ==
    ASSUME Inv, Judged, wait_ready
    PROVE  Judged'
<1>1. Harmless /\ Still
    BY WaitingCalm
<1>2. UNCHANGED <<failed, exit>> /\ stage \in Stages /\ stage \in {"erase", "program"} /\ pc = "wait"
    BY DEF wait_ready, Local, Quiet, NextAttempt, NextItem, Enter, Inv, TypeOK, Staged, Stages, Lists,
       Reading, Ending, GateLabels, Unlocking
<1>3. CASE UNCHANGED <<stage, at>>
  <2>1. pc' # "compare"
      BY <1>2 DEF wait_ready, NextAttempt, NextItem, Enter
  <2>. QED BY <1>1, <1>2, <1>3, <2>1, JudgedKept DEF Judged
<1>4. CASE ~UNCHANGED <<stage, at>>
  <2>1. Idle /\ UNCHANGED device /\ \/ stage = "erase" /\ stage' = "erase"
                                    \/ stage = "program" /\ stage' = "now" /\ at' = at /\ pc' = "try"
      BY <1>2, <1>4 DEF wait_ready, NextAttempt, NextItem, Enter, Local
  <2>2. \A p \in Pages : (Listed(p) => Listed(p)') /\ (Behind(p)' => Behind(p))
      BY <1>2, <2>1 DEF Listed, Behind
  <2>3. Reported'
      BY <1>1, <2>1, <2>2, ReportKept DEF Judged, Idle
  <2>4. Fresh'
      BY <2>1 DEF Fresh, Idle, device, Changing
  <2>. QED BY <1>2, <2>1, <2>3, <2>4 DEF Judged
<1>. QED BY <1>3, <1>4

LEMMA JudgedRead ==
    ASSUME Inv, Judged, page_read
    PROVE  Judged'
<1>1. Harmless
    BY FetchingCalm
<1>2. UNCHANGED <<stage, at, failed, exit>> /\ at \in Pages /\ Blank \in Contents
    BY BlockRange DEF page_read, Goto, NextAttempt, Quiet, Inv, Placed, Staged, TypeOK, Stages, Lists,
       Reading, Working, Unlocking, Ending, GateLabels, Contents
<1>3. Reported'
    BY <1>1, <1>2, ReportKept DEF Judged, Listed, Behind
<1>4. Began("READ", at)
  <2>1. "READ" \in Commands /\ at \in Rows
      BY <1>2 DEF Commands, Rows
  <2>2. Given("READ", at, Blank)
      BY Calling DEF page_read
  <2>. QED BY <1>2, <2>1, <2>2, GivenStep DEF Inv, TypeOK
<1>5. CASE stage # "now"
    BY <1>2, <1>3, <1>5 DEF Judged, Fresh
<1>6. CASE stage = "now"
  <2>1. chip.op \notin Changing /\ (chip.op = "read" => chip.row = at)
      BY <1>6 DEF Judged, Fresh
  <2>2. chip'.op \notin Changing /\ (chip'.op = "read" => chip'.row = at)
      BY <1>4, <2>1 DEF Began, Changing
  <2>3. pc' = "compare" => chip'.op = "read"
    <3>1. SUFFICES ASSUME pc' = "compare"
                   PROVE  chip'.op = "read"
        OBVIOUS
    <3>2. Sent("READ", at, Blank)
        BY <3>1 DEF page_read, NextAttempt
    <3>3. CASE Idle
        BY <3>2, <3>3, ReadBegins DEF Inv, TypeOK
    <3>4. CASE ~Idle
        BY <2>1, <3>2, <3>4 DEF Sent, Receive, Inv, TypeOK, ChipType, Idle, Changing
    <3>. QED BY <3>3, <3>4
  <2>4. Fresh'
      BY <1>2, <2>2, <2>3 DEF Fresh
  <2>. QED BY <1>2, <1>3, <2>4 DEF Judged
<1>. QED BY <1>5, <1>6

\* The page that was read back is the page of the loop.
LEMMA JudgedCompare ==
    ASSUME Inv, Judged, read_page_main
    PROVE  Judged'
<1>1. Harmless /\ Still
    BY ComparingCalm
<1>2. UNCHANGED <<failed, exit>> /\ stage \in {"now", "final"} /\ pc = "compare" /\ pc' # "compare" /\ at \in Pages
    BY DEF read_page_main, Local, Quiet, NextAttempt, NextItem, Enter, Inv, TypeOK, Staged, Placed, Stages,
       Lists,
           Reading, Ending, GateLabels, Unlocking, Working
<1>3. CASE UNCHANGED <<stage, at>>
    BY <1>1, <1>2, <1>3, JudgedKept DEF Judged
<1>4. CASE ~UNCHANGED <<stage, at>>
  <2>1. /\ Idle /\ UNCHANGED device /\ chip.cache = Image[at]
        /\ stage' = (IF stage = "now" THEN "program" ELSE stage) /\ at' = at + 1
      BY <1>4 DEF read_page_main, NextAttempt, NextItem, Enter, Local
  <2>2. stage = "now" => content[at] = Image[at]
      BY <1>2, <2>1 DEF Judged, Fresh, Idle
  <2>3. \A p \in Pages : p < at + 1 => p < at \/ p = at
      BY <1>2, Places
  <2>4. \A p \in Pages : (Listed(p) <=> Listed(p)') /\ (Good(p) <=> Good(p)')
      BY <1>2, <2>1 DEF Listed, Good, Settled, device
  <2>5. \A p \in Pages : Behind(p)' => Good(p)
      BY <1>2, <2>1, <2>2, <2>3 DEF Behind, Judged, Reported, Good
  <2>6. Reported'
      BY <2>1, <2>4, <2>5 DEF Reported, Idle, device
  <2>. QED BY <1>2, <2>1, <2>6 DEF Judged, Fresh
<1>. QED BY <1>3, <1>4

\* An erase begins before the first page is programmed, a program on the page
\* of the loop.
LEMMA JudgedExecute ==
    ASSUME Inv, Judged, NEW command \in Changing, Execute(command)
    PROVE  Judged'
<1>1. /\ stage = command /\ at \in Pages /\ UNCHANGED <<stage, at, failed, exit>>
      /\ exit \notin {0, 2}
    BY BlockRange DEF Inv, Placed, Working, Execute, Changing, Goto, NextAttempt, Judged
<1>2. Given(command, at, Blank)
    BY Calling DEF Execute
<1>3. OnlyTouched /\ Began(command, at)
    BY <1>1, <1>2, GivenStep DEF Inv, TypeOK, Commands, Changing, Rows, Contents
<1>4. CASE command = "erase"
    BY <1>1, <1>3, <1>4 DEF Judged, Reported, Fresh, Behind, Began, Settled, Listed
<1>5. CASE command = "program"
  <2>1. \A p \in Pages : (Settled(p) <=> Settled(p)') /\ (Behind(p) <=> Behind(p)')
      BY <1>1 DEF Settled, Listed, Behind
  <2>2. \A p \in Pages : Behind(p) => Good(p)'
    <3>1. SUFFICES ASSUME NEW p \in Pages, Behind(p), ~Settled(p)
                   PROVE  content'[p] = Image[p]
        BY <2>1 DEF Good
    <3>2. content[p] = Image[p] /\ p \in Nat /\ ~(p < p)
        BY <3>1, Places DEF Judged, Reported, Good
    <3>3. ~Touched(p)
        BY <3>1, <3>2 DEF Judged, Reported, Touched, Behind
    <3>. QED BY <1>3, <3>2, <3>3 DEF OnlyTouched
  <2>3. chip'.op = "erase" => \A p \in Pages : Behind(p)' => Settled(p)'
      BY <1>3, <1>5, <2>1 DEF Judged, Reported, Began
  <2>4. chip'.op = "program" => Settled(chip.row)' \/ (stage' = "program" /\ chip'.row = at')
    <3>1. CASE chip'.row = at
        BY <1>1, <1>5, <3>1
    <3>2. CASE chip'.row # at /\ chip'.op = "program"
      <4>1. chip.op = "program" /\ chip'.row = chip.row
          BY <1>3, <3>2 DEF Began
      <4>. QED BY <1>1, <3>2, <4>1 DEF Judged, Reported, Settled, Listed
    <3>. QED BY <3>1, <3>2
  <2>. QED BY <1>1, <1>5, <2>1, <2>2, <2>3, <2>4 DEF Judged, Reported, Fresh
<1>. QED BY <1>4, <1>5 DEF Changing

LEMMA JudgedChip ==
    ASSUME Inv, Judged, Chip
    PROVE  Judged'
<1>1. ChipType' /\ chip'.right = chip.right /\ OnlyTouched /\ chip'.op = "none" /\ ChipDone
    BY ChipDoneStep DEF Inv, TypeOK, Chip
<1>2. Harmless /\ UNCHANGED <<pc, stage, at, failed, exit>>
    BY <1>1 DEF Harmless, Changing, Chip
<1>3. Reported'
    BY <1>2, ReportKept DEF Judged, Listed, Behind
<1>4. Fresh'
  <2>1. SUFFICES ASSUME stage = "now", pc = "compare"
                 PROVE  chip'.cache = content'[at]
      BY <1>1, <1>2 DEF Fresh, Changing
  <2>2. chip.op = "read" /\ chip.row = at
      BY <1>1, <2>1 DEF Judged, Fresh, ChipDone, ReadDone, EraseDone, ProgramDone, Changing
  <2>3. chip' = [chip EXCEPT !.op = "none", !.cache = content[chip.row], !.mark = chip.row \in Marked]
        /\ content' = content
      BY <1>1, <2>2 DEF ChipDone, ReadDone, EraseDone, ProgramDone
  <2>. QED BY <2>2, <2>3, CacheRead DEF Inv, TypeOK
<1>. QED BY <1>2, <1>3, <1>4 DEF Judged

LEMMA JudgedTool ==
    ASSUME Inv, Inv', Judged, Tool
    PROVE  Judged'
<1>1. CASE Start \/ diagnostic_read_id \/ scan_factory_bad_blocks \/ check_factory_bad_block
  <2>1. stage = "gate"
      BY <1>1 DEF Inv, TypeOK, Staged, Stages, Lists, Working, Reading, Unlocking, Ending,
         Start, diagnostic_read_id, scan_factory_bad_blocks, check_factory_bad_block
  <2>2. stage' = "gate" /\ exit' \notin {0, 2}
      BY <1>1, <2>1 DEF Judged, Start, diagnostic_read_id, scan_factory_bad_blocks, check_factory_bad_block,
         Goto, Enter, Local, Quiet
  <2>. QED BY <2>2, GateJudged
<1>2. CASE VerifyProtection
  <2>1. stage' \in {"gate", "erase"} /\ UNCHANGED <<exit>> /\ chip'.op \notin Changing /\ exit \notin {0, 2}
      BY <1>2, HarmlessLocal, HarmlessLoss DEF Inv, TypeOK, Staged, Stages, Lists, Working, Reading,
         Unlocking,
         Ending, Guarded, Judged, VerifyProtection, Goto, Enter, Local, Quiet
  <2>. QED BY <2>1 DEF Judged, Reported, Fresh, Behind, Changing
<1>3. CASE EraseStage \/ ProgramStage \/ FinalStage
    BY <1>3, JudgedLoop
<1>4. CASE erase_block \/ program_page \/ verify_page
  <2>1. CASE GiveUp
      BY <1>4, <2>1, JudgedGiveUp DEF erase_block, program_page, verify_page, Lists
  <2>2. CASE ~GiveUp
    <3>1. Harmless /\ Still
        BY <1>4, EraseTurnCalm, ProgramTurnCalm, VerifyTurnCalm
    <3>2. UNCHANGED <<stage, at, failed, exit>> /\ pc' # "compare"
        BY <1>4, <2>2 DEF erase_block, program_page, verify_page, Goto, Local, Quiet
    <3>. QED BY <3>1, <3>2, JudgedKept DEF Judged
  <2>. QED BY <2>1, <2>2
<1>5. CASE clear_protection \/ ClearRegister \/ ReadBack \/ EnableWrite
  <2>1. Harmless /\ Still
      BY <1>5, ClearingCalm, ClearingRegisterCalm, ReadingBackCalm, EnablingCalm
  <2>2. UNCHANGED <<stage, at, failed, exit>> /\ pc' # "compare"
      BY <1>5 DEF clear_protection, ClearRegister, ReadBack, EnableWrite, write_enable, ClearFailed,
         ClearDone,
         NextAttempt, Goto, Local, Quiet
  <2>. QED BY <2>1, <2>2, JudgedKept DEF Judged
<1>6. CASE program_load \/ FinalReset \/ WriteDisable \/ cleanup
  <2>1. Harmless /\ Still
      BY <1>6, LoadingCalm, FinishingCalm, DisablingCalm, CleaningUpCalm
  <2>2. UNCHANGED <<stage, at, failed>> /\ pc' # "compare" /\ (exit' \in {0, 2} => stage = "done")
      BY <1>6 DEF program_load, FinalReset, WriteDisable, cleanup, Result, NextAttempt, Goto, Quiet, Judged
  <2>. QED BY <2>1, <2>2, JudgedKept
<1>. QED BY <1>1, <1>2, <1>3, <1>4, <1>5, <1>6, JudgedWait, JudgedRead, JudgedCompare, JudgedExecute
     DEF Tool, erase_block_once, program_page_once, Changing

LEMMA JudgedStep == Inv /\ Inv' /\ Judged /\ [Next]_vars => Judged'
<1>1. ASSUME Inv, Judged, UNCHANGED device, UNCHANGED <<stage, at, failed, exit, pc>>
      PROVE  Judged'
  <2>1. ChipType
      BY <1>1 DEF Inv, TypeOK
  <2>2. Harmless /\ Still
      BY <1>1, <2>1, HarmlessLocal
  <2>3. CASE pc = "compare"
      BY <1>1, <2>3 DEF Judged, Reported, Fresh, Behind, Good, Settled, Listed, device
  <2>4. CASE pc # "compare"
      BY <1>1, <2>2, <2>4, JudgedKept DEF Judged
  <2>. QED BY <2>3, <2>4
<1>2. console_ctrl_handler \/ UNCHANGED vars => UNCHANGED device /\ UNCHANGED <<stage, at, failed, exit, pc>>
    BY DEF console_ctrl_handler, vars, device
<1>. QED BY <1>1, <1>2, JudgedTool, JudgedChip DEF Next

\* Exit codes 0 and 2 stand for a report in which no wrong page of a good block
\* is missing, however many transfers, erases and programs have failed.
THEOREM ReportComplete == Spec => []UnlistedIsGood
<1>1. Init => Judged
    BY DEF Init, ChipInit, Judged, Reported, Fresh, Behind, Changing
<1>2. Spec => []Judged
    BY <1>1, Invariance, JudgedStep, PTL DEF Spec
<1>3. Judged => UnlistedIsGood
    BY DEF Judged, Reported, Behind, Good, Settled, Listed, UnlistedIsGood
<1>. QED BY <1>2, <1>3, PTL

-----------------------------------------------------------------------------
(* Ctrl-C *)

OnItsWay == {"load", "execute"}

\* Before the stop nothing is late; after it the one command that may still be
\* sent is the one whose write enable had gone out before.
Prompt ==
    /\ ~stop => late = 0
    /\ stop => late = 0 \/ (late = 1 /\ pc \notin OnItsWay)

\* Nothing is on its way to the array but behind a write enable before the stop.
LEMMA ArmedBefore ==
    ASSUME Inv, Tool, pc' \in OnItsWay, pc \notin OnItsWay
    PROVE  ~stop
<1>1. ~(Start \/ diagnostic_read_id \/ scan_factory_bad_blocks \/ check_factory_bad_block \/ VerifyProtection)
    BY DEF OnItsWay, Start, diagnostic_read_id, scan_factory_bad_blocks, check_factory_bad_block,
       VerifyProtection, Goto, Enter
<1>2. ~(clear_protection \/ ClearRegister \/ ReadBack)
    BY DEF OnItsWay, clear_protection, ClearRegister, ReadBack, ClearFailed, ClearDone, write_enable, Goto
<1>3. ~(EraseStage \/ ProgramStage \/ FinalStage \/ erase_block \/ program_page \/ verify_page)
    BY DEF OnItsWay, EraseStage, ProgramStage, FinalStage, erase_block, program_page, verify_page,
       Goto, Enter, NextItem, GiveUp
<1>4. ~(wait_ready \/ page_read \/ read_page_main \/ FinalReset \/ WriteDisable \/ cleanup)
    BY DEF OnItsWay, wait_ready, page_read, read_page_main, FinalReset, WriteDisable, cleanup,
       Goto, Enter, NextAttempt, NextItem
<1>5. ~(program_load \/ erase_block_once \/ program_page_once)
    BY DEF OnItsWay, program_load, erase_block_once, program_page_once, Execute
<1>6. EnableWrite
    BY <1>1, <1>2, <1>3, <1>4, <1>5 DEF Tool
<1>. QED BY <1>6 DEF EnableWrite, write_enable, abort_requested, NextAttempt, Goto, OnItsWay

LEMMA PromptTool ==
    ASSUME Inv, Prompt, Tool
    PROVE  Prompt'
<1>1. late \in Nat /\ stop \in BOOLEAN
    BY DEF Inv, TypeOK
<1>2. CASE erase_block_once \/ program_page_once
  <2>1. stop' = stop /\ late' = (IF stop THEN late + 1 ELSE late) /\ pc = "execute" /\ pc' \notin OnItsWay
      BY <1>2 DEF erase_block_once, program_page_once, Execute, Goto, NextAttempt, OnItsWay
  <2>. QED BY <1>1, <2>1 DEF Prompt, OnItsWay
<1>3. CASE ~(erase_block_once \/ program_page_once)
  <2>1. stop' = stop /\ late' = late
      BY <1>3 DEF Tool, Start, diagnostic_read_id, scan_factory_bad_blocks, check_factory_bad_block,
         clear_protection, ClearRegister, ReadBack, VerifyProtection, EraseStage, ProgramStage, FinalStage,
         erase_block, program_page, EnableWrite, program_load, wait_ready, verify_page, page_read,
         read_page_main, FinalReset, WriteDisable, cleanup, write_enable, GiveUp, Local, Quiet
  <2>2. pc' \in OnItsWay => ~stop \/ pc \in OnItsWay
      BY ArmedBefore
  <2>. QED BY <1>1, <2>1, <2>2 DEF Prompt
<1>. QED BY <1>2, <1>3

\* Whenever Ctrl-C comes, at most one erase or program command still follows.
THEOREM StopsAtOnce == Spec => []StopIsPrompt
<1>1. Init => Prompt
    BY DEF Init, Prompt
<1>2. Inv /\ Prompt /\ [Next]_vars => Prompt'
  <2>1. ASSUME Inv, Prompt, console_ctrl_handler
        PROVE  Prompt'
      BY <2>1 DEF Prompt, console_ctrl_handler
  <2>2. ASSUME Prompt, Chip \/ UNCHANGED vars
        PROVE  Prompt'
      BY <2>2 DEF Prompt, Chip, vars
  <2>. QED BY <2>1, <2>2, PromptTool DEF Next
<1>3. Prompt /\ Inv => StopIsPrompt
    BY DEF Prompt, StopIsPrompt, Inv, TypeOK
<1>. QED BY <1>1, <1>2, <1>3, Invariance, PTL DEF Spec

-----------------------------------------------------------------------------
(* One trouble *)

Hurt == faults["bus"] + faults["erase"] = 1
Mild ==
    /\ ~stop /\ ~chip.cut
    /\ faults["program"] = 0 /\ faults["bus"] + faults["erase"] <= 1

Holds(p) == content[p] = Image[p]
Empty(p) == content[p] = Blank
Erased(b) == \A p \in Pages : BlockOf(p) = b => Empty(p)
Usable(p) == BlockOf(p) \notin bad

\* What the loops have made of the pages of the good blocks.
Progress ==
    /\ stage = "erase" => \A p \in Pages : Usable(p) /\ BlockOf(p) < at => Empty(p)
    /\ stage = "program" => \A p \in Pages : Usable(p) =>
          (p < at => Holds(p)) /\ (p > at => Empty(p)) /\ (p = at => Holds(p) \/ Empty(p))
    /\ stage = "now" => \A p \in Pages : Usable(p) => (p <= at => Holds(p)) /\ (p > at => Empty(p))
    /\ stage = "final" => \A p \in Pages : Usable(p) => Holds(p)

\* The operation that the call in progress waits for.
Awaited == IF stage \in Changing THEN stage ELSE "read"
Arrived == IF stage = "erase" THEN Erased(at) ELSE Holds(at)

\* What the chip is at, at each call of the loops.
Ready ==
    /\ attempt = 0 \/ (attempt = 1 /\ Hurt)
    /\ pc = "head" => attempt = 0
    /\ pc \in Unlocking => attempt = 1
    /\ chip.locked => /\ Hurt
                      /\ attempt = 0 => stage # "erase"
                      /\ attempt = 1 => pc \notin {"unlocking", "wren", "load", "execute", "wait"}
    /\ ~Idle => /\ pc \in {"wait", "compare"} \/ (pc = "try" /\ attempt = 1)
                /\ chip.op = Awaited /\ chip.row = at /\ chip.fail = "none"
                /\ stage = "program" => chip.cache = Image[at]
    /\ pc = "load" => stage = "program"
    /\ pc \in {"load", "execute"} => chip.wel
    /\ pc = "execute" /\ stage = "program" => chip.cache = Image[at]
    /\ pc = "wait" /\ Idle =>
          \/ chip.fail = stage /\ Hurt /\ attempt = 0
          \/ chip.fail # stage /\ Arrived
    /\ pc = "compare" /\ Idle => chip.cache = Image[at]

\* A trouble before the main loops ends the run.
Untroubled ==
    /\ pc \in {"start", "id"} => ~Hurt \/ correct < attempt
    /\ pc \in {"scan", "mark", "check"} \cup Unlocking => ~Hurt
    /\ pc \in {"check"} \cup Unlocking => Idle

OnTrack ==
    /\ \A l \in Lists : failed[l] = {}
    /\ stage = "gate" => Untroubled
    /\ stage \in Lists /\ pc \notin Ending => Progress /\ Ready
Mended == Mild => OnTrack

-----------------------------------------------------------------------------
(* One trouble: what the calls do *)

LEMMA PageInBlock == \A p \in Pages : BlockOf(p) \in Blocks /\ BlockOf(p) \in Nat /\ p \in Nat
<1>. SUFFICES ASSUME NEW p \in Pages
              PROVE  BlockOf(p) \in Blocks /\ BlockOf(p) \in Nat /\ p \in Nat
    OBVIOUS
<1>. DEFINE q == p \div PagesPerBlock
            r == p % PagesPerBlock
<1>1. NBlocks \in Nat /\ PagesPerBlock \in Nat /\ PagesPerBlock > 1 /\ p \in Nat /\ p < NBlocks * PagesPerBlock
    BY GeometryAssumption, BlockRange DEF Pages
<1>2. q \in Int /\ r \in 0 .. PagesPerBlock - 1 /\ p = q * PagesPerBlock + r
    BY <1>1, SMTT(30)
<1>. HIDE DEF q, r
<1>3. q >= 0
  <2>1. q < 0 => q * PagesPerBlock <= -PagesPerBlock
      BY <1>1, <1>2, SMTT(30)
  <2>. QED BY <1>1, <1>2, <2>1
<1>4. q < NBlocks
  <2>1. q >= NBlocks => q * PagesPerBlock >= NBlocks * PagesPerBlock
      BY <1>1, <1>2, SMTT(30)
  <2>. QED BY <1>1, <1>2, <2>1
<1>. QED BY <1>1, <1>2, <1>3, <1>4 DEF q, Blocks, BlockOf

LEMMA Counted ==
    ASSUME ChipType
    PROVE  /\ faults["bus"] \in Nat /\ faults["erase"] \in Nat /\ faults["program"] \in Nat
           /\ faults \in [Kinds -> 0 .. MaxFaults] /\ chip \in ChipStates
BY GeometryAssumption DEF ChipType, ChipStates, Kinds

\* Troubles are not taken back.
LEMMA TroubleCounts ==
    ASSUME ChipType, NEW kind \in Kinds, Trouble(kind)
    PROVE  /\ faults'[kind] = faults[kind] + 1
           /\ \A k \in Kinds \ {kind} : faults'[k] = faults[k]
BY Counted DEF Trouble

LEMMA Worse ==
    ASSUME ChipType, NEW command \in Commands, NEW r, NEW data, Given(command, r, data), ~stop' => ~stop, Mild'
    PROVE  Mild
<1>1. chip.cut => chip'.cut
  <2>1. CASE command = "RESET"
      BY <2>1, Counted DEF Given, Receive, ChipStates
  <2>2. CASE command # "RESET"
      BY <2>2, Counted DEF Given, Receive, ChipStates, Commands
  <2>. QED BY <2>1, <2>2
<1>2. CASE UNCHANGED faults
    BY <1>1, <1>2 DEF Mild
<1>3. CASE Trouble("bus")
    BY <1>1, <1>3, Counted, TroubleCounts DEF Mild, Kinds
<1>. QED BY <1>2, <1>3 DEF Given

\* A trouble that still leaves the run with one is its first.
LEMMA First ==
    ASSUME ChipType, NEW kind \in Kinds, Trouble(kind), Mild'
    PROVE  ~Hurt /\ Hurt' /\ kind # "program"
BY Counted, TroubleCounts DEF Mild, Hurt, Kinds

LEMMA Lossless ==
    ASSUME ChipType, NEW command, NEW r, NEW data, Mild'
    PROVE  /\ Lost(command, r, data) => ~Hurt /\ Hurt'
           /\ StatusLost => ~Hurt /\ Hurt' /\ UNCHANGED <<content, chip>>
           /\ Sent(command, r, data) \/ UNCHANGED device => (Hurt' <=> Hurt)
BY First DEF Lost, StatusLost, Sent, device, Hurt, Kinds

\* The RESET of a retry finds the chip at a read at most: nothing is cut short.
LEMMA RetryReset ==
    ASSUME ChipType, Reset \/ ResetLost, Hurt, Mild'
    PROVE  /\ content' = content /\ (Hurt' <=> Hurt)
           /\ chip'.op = "none" /\ chip'.cache = chip.cache
<1>1. Sent("RESET", 0, Blank)
    BY Lossless DEF Reset, ResetLost
<1>2. chip' = [chip EXCEPT !.op = "none", !.wel = FALSE, !.fail = "none",
                           !.locked = chip.locked \/ chip.relocks,
                           !.cut = chip.cut \/ chip.op \in {"erase", "program"}]
      /\ content' = Aborted
    BY <1>1 DEF Sent, Receive
<1>3. chip'.op = "none" /\ chip'.cache = chip.cache /\ chip'.cut = (chip.cut \/ chip.op \in {"erase", "program"})
    BY <1>2, Counted DEF ChipStates
<1>4. chip.op \notin {"erase", "program"}
    BY <1>3 DEF Mild
<1>. QED BY <1>1, <1>2, <1>3, <1>4, Lossless DEF Aborted

\* The commands that leave the chip idle.
LEMMA Setting ==
    ASSUME ChipType, Idle, NEW command \in {"WREN", "UNLOCK", "LOAD"}, NEW r, NEW data \in Contents,
           Sent(command, r, data)
    PROVE  /\ content' = content /\ chip'.op = "none"
           /\ command = "WREN" => chip'.wel /\ chip'.locked = chip.locked
           /\ command = "UNLOCK" => ~chip'.locked
           /\ command = "LOAD" => chip'.wel = chip.wel /\ chip'.locked = chip.locked /\ chip'.cache = data
<1>1. content' = content
    BY DEF Sent, Receive
<1>2. CASE command = "WREN"
  <2>1. chip' = [chip EXCEPT !.wel = TRUE]
      BY <1>2 DEF Sent, Receive
  <2>. QED BY <1>1, <1>2, <2>1, Counted DEF ChipStates, Idle
<1>3. CASE command = "UNLOCK"
  <2>1. chip' = [chip EXCEPT !.locked = FALSE]
      BY <1>3 DEF Sent, Receive
  <2>. QED BY <1>1, <1>3, <2>1, Counted DEF ChipStates, Idle
<1>4. CASE command = "LOAD"
  <2>1. chip' = [chip EXCEPT !.cache = data, !.mark = FALSE]
      BY <1>4 DEF Sent, Receive
  <2>. QED BY <1>1, <1>4, <2>1, Counted DEF ChipStates, Idle
<1>. QED BY <1>2, <1>3, <1>4

\* A transfer that is lost has been received or not.
LEMMA SettingLost ==
    ASSUME ChipType, Idle, NEW command \in {"WREN", "UNLOCK", "LOAD"}, NEW r, NEW data \in Contents,
           Lost(command, r, data)
    PROVE  content' = content /\ chip'.op = "none" /\ (command # "UNLOCK" => chip'.locked = chip.locked)
<1>1. content' = content
    BY DEF Lost, Receive
<1>2. \/ chip' = chip
      \/ command = "WREN" /\ chip' = [chip EXCEPT !.wel = TRUE]
      \/ command = "UNLOCK" /\ chip' = [chip EXCEPT !.locked = FALSE]
      \/ command = "LOAD" /\ chip' = [chip EXCEPT !.cache = data, !.mark = FALSE]
    BY DEF Lost, Receive
<1>. QED BY <1>1, <1>2, Counted DEF ChipStates, Idle

\* An operation that an unlocked chip has been enabled for begins, a locked
\* one reports its failure.
LEMMA Beginning ==
    ASSUME ChipType, Idle, chip.wel, NEW command \in Changing, NEW r, NEW data,
           Receive(command, r, data)
    PROVE  /\ content' = content /\ chip'.locked = chip.locked /\ chip'.cache = chip.cache
           /\ chip.locked => chip'.op = "none" /\ chip'.fail = command
           /\ ~chip.locked => chip'.op = command /\ chip'.row = r /\ chip'.fail = "none"
<1>1. content' = content /\ chip' = IF chip.locked THEN [chip EXCEPT !.fail = command, !.wel = FALSE]
                                    ELSE [chip EXCEPT !.op = command, !.row = r, !.fail = "none"]
    BY DEF Receive, Changing
<1>. QED BY <1>1, Counted DEF ChipStates, Idle

LEMMA Fetched ==
    ASSUME ChipType, Idle, NEW r, NEW data, Receive("READ", r, data)
    PROVE  content' = content /\ chip'.locked = chip.locked /\ chip'.op = "read" /\ chip'.row = r /\ chip'.fail = "none"
<1>1. content' = content /\ chip' = [chip EXCEPT !.op = "read", !.row = r, !.fail = "none"]
    BY DEF Receive
<1>. QED BY <1>1, Counted DEF ChipStates


-----------------------------------------------------------------------------
(* One trouble: the gate and the end *)

\* The calls of the tool, as the chip sees them.
Called == \E command \in Commands : \E r, data : Given(command, r, data)

LEMMA Calls ==
    /\ UNCHANGED device => Called
    /\ StatusLost => Called
    /\ Reset => Called
    /\ ResetLost => Called
    /\ \A command \in Commands : \A r, data : Sent(command, r, data) => Called
    /\ \A command \in Commands : \A r, data : Lost(command, r, data) => Called
<1>1. "RESET" \in Commands
    BY DEF Commands
<1>2. UNCHANGED device \/ StatusLost \/ Reset \/ ResetLost => Called
    BY <1>1, Calling, Resetting, Zenon DEF Called
<1>3. ASSUME NEW command \in Commands, NEW r, NEW data, Sent(command, r, data) \/ Lost(command, r, data)
      PROVE  Called
  <2>1. Given(command, r, data)
      BY <1>3, Calling
  <2>. QED BY <2>1, Zenon DEF Called
<1>. QED BY <1>2, <1>3

LEMMA ToolCalls ==
    ASSUME Tool
    PROVE  stop' = stop /\ Called
<1>1. Start \/ diagnostic_read_id => stop' = stop /\ Called
  <2>1. Start \/ diagnostic_read_id =>
          stop' = stop /\ (UNCHANGED device \/ Reset \/ ResetLost \/ Given("RESET", 0, Blank))
      BY DEF Start, diagnostic_read_id, Local, Quiet, Given
  <2>2. Given("RESET", 0, Blank) => Called
    <3>1. "RESET" \in Commands
        BY DEF Commands
    <3>. QED BY <3>1, Zenon DEF Called
  <2>. QED BY <2>1, <2>2, Calls
<1>2. scan_factory_bad_blocks \/ check_factory_bad_block \/ page_read => stop' = stop /\ Called
    BY Calls DEF scan_factory_bad_blocks, check_factory_bad_block, page_read, Local, Quiet, device, Commands
<1>3. clear_protection \/ EnableWrite \/ ClearRegister \/ program_load => stop' = stop /\ Called
    BY Calls DEF clear_protection, EnableWrite, write_enable, ClearRegister, program_load, Local, Quiet, Commands
<1>4. ReadBack \/ VerifyProtection \/ EraseStage \/ ProgramStage \/ FinalStage => stop' = stop /\ Called
    BY Calls DEF ReadBack, VerifyProtection, EraseStage, ProgramStage, FinalStage, Local, Quiet
<1>5. erase_block \/ program_page \/ verify_page => stop' = stop /\ Called
    BY Calls DEF erase_block, program_page, verify_page, GiveUp, Local, Quiet
<1>6. erase_block_once \/ program_page_once => stop' = stop /\ Called
    BY Calls DEF erase_block_once, program_page_once, Execute, Commands
<1>7. wait_ready \/ read_page_main => stop' = stop /\ Called
    BY Calls DEF wait_ready, read_page_main, Local, Quiet
<1>8. FinalReset \/ WriteDisable \/ cleanup => stop' = stop /\ Called
    BY Calls DEF FinalReset, WriteDisable, cleanup, Quiet, Commands
<1>. QED BY <1>1, <1>2, <1>3, <1>4, <1>5, <1>6, <1>7, <1>8 DEF Tool

LEMMA MildTool ==
    ASSUME Inv, Tool, Mild'
    PROVE  Mild /\ (Hurt => Hurt')
<1>1. PICK command \in Commands : \E r, data : Given(command, r, data)
    BY ToolCalls DEF Called
<1>2. PICK r, data : Given(command, r, data)
    BY <1>1
<1>3. Mild
    BY <1>2, Worse, ToolCalls DEF Inv, TypeOK
<1>4. Hurt => Hurt'
    BY <1>2, First DEF Given, Hurt, Inv, TypeOK, Kinds
<1>. QED BY <1>3, <1>4

\* Before the main loops a trouble ends the run.
LEMMA OnTrackStart ==
    ASSUME Inv, OnTrack, Mild', Start \/ diagnostic_read_id
    PROVE  OnTrack'
<1>1. stage = "gate" /\ correct \in Nat /\ attempt \in Nat /\ correct <= attempt /\ UNCHANGED <<failed, stage>>
    BY Retrying DEF Inv, TypeOK, Staged, Identified, Start, diagnostic_read_id, Stages, Lists, Working, Reading,
       Unlocking, Ending, Quiet, Local, Goto, Enter
<1>2. CASE Start
    BY <1>1, <1>2, Lossless DEF Start, OnTrack, Untroubled, Goto, Quiet, Reset, Inv, TypeOK, Ending, Unlocking, Lists
<1>3. CASE diagnostic_read_id
  <2>1. CASE attempt = IdTests
      BY <1>1, <1>3, <2>1, Lossless DEF diagnostic_read_id, OnTrack, Untroubled, Goto, Enter, Local, Quiet, Inv,
         TypeOK, Ending, Unlocking, Lists
  <2>2. CASE pc' = "cleanup"
      BY <1>1, <2>2 DEF OnTrack, Untroubled, Unlocking, Lists
  <2>3. CASE attempt # IdTests /\ pc' # "cleanup"
    <3>1. attempt' = attempt + 1 /\ pc' = "id" /\ pc = "id"
        BY <1>3, <2>3 DEF diagnostic_read_id, Goto
    <3>2. \/ correct' = correct
          \/ Reset /\ correct' = correct + 1
        BY <1>3, <2>3 DEF diagnostic_read_id, Goto
    <3>. QED BY <1>1, <3>1, <3>2, Lossless DEF Reset, OnTrack, Untroubled, Inv, TypeOK, Unlocking, Lists
  <2>. QED BY <2>1, <2>2, <2>3
<1>. QED BY <1>2, <1>3

LEMMA OnTrackScan ==
    ASSUME Inv, OnTrack, Mild', scan_factory_bad_blocks \/ check_factory_bad_block
    PROVE  OnTrack'
<1>1. stage = "gate" /\ stage' = "gate" /\ UNCHANGED failed /\ ~Hurt
    BY DEF Inv, TypeOK, Staged, OnTrack, Untroubled, scan_factory_bad_blocks, check_factory_bad_block, Stages,
       Lists, Working, Reading, Unlocking, Ending, Quiet, Local, Goto, Enter
<1>2. pc' \in {"cleanup", "scan", "mark", "clear"}
    BY DEF scan_factory_bad_blocks, check_factory_bad_block, Goto, Enter
<1>3. pc' # "cleanup" => ~Hurt'
    BY <1>1, Lossless DEF scan_factory_bad_blocks, check_factory_bad_block, Goto, Inv, TypeOK, Local, device
<1>4. pc' = "clear" => Idle'
    BY <1>1 DEF scan_factory_bad_blocks, check_factory_bad_block, Goto, Local, device, Inv, Scanned, Idle
<1>. QED BY <1>1, <1>2, <1>3, <1>4 DEF OnTrack, Untroubled, Unlocking, Lists

\* The first unlocking, before the first erase.
LEMMA OnTrackGate ==
    ASSUME Inv, OnTrack, Mild', stage = "gate",
           clear_protection \/ ClearRegister \/ ReadBack \/ VerifyProtection
    PROVE  OnTrack'
<1>1. UNCHANGED failed /\ ~Hurt /\ Idle /\ ChipType /\ Blank \in Contents
    BY DEF Inv, TypeOK, OnTrack, Untroubled, Unlocking, clear_protection, ClearRegister, ReadBack,
       VerifyProtection, write_enable, ClearFailed, ClearDone, Quiet, Local, Contents
<1>2. CASE stage' = "gate" /\ pc' = "cleanup"
    BY <1>1, <1>2 DEF OnTrack, Untroubled, Unlocking, Lists
<1>3. CASE stage' = "gate" /\ pc' # "cleanup"
  <2>1. \/ UNCHANGED device
        \/ Sent("WREN", 0, Blank)
        \/ Sent("UNLOCK", 0, Blank)
      BY <1>3 DEF clear_protection, ClearRegister, ReadBack, VerifyProtection, write_enable, ClearFailed,
         ClearDone, Goto, Enter, Local
  <2>2. ~Hurt' /\ Idle'
      BY <1>1, <2>1, Lossless, Setting DEF device, Idle
  <2>. QED BY <1>1, <1>3, <2>2 DEF OnTrack, Untroubled, Lists
<1>4. CASE stage' # "gate"
  <2>1. VerifyProtection /\ Enter("head", "erase", 0) /\ ~chip.locked /\ UNCHANGED device
      BY <1>4 DEF clear_protection, ClearRegister, ReadBack, VerifyProtection, write_enable, ClearFailed,
         ClearDone, Goto, Enter, Local
  <2>2. Progress'
    <3>1. \A p \in Pages : ~(BlockOf(p) < 0)
        BY PageInBlock
    <3>. QED BY <2>1, <3>1 DEF Progress, Enter
  <2>3. Ready'
      BY <1>1, <2>1 DEF Ready, Enter, Unlocking, Idle, device
  <2>. QED BY <1>1, <2>1, <2>2, <2>3 DEF OnTrack, Enter, Lists
<1>. QED BY <1>2, <1>3, <1>4

-----------------------------------------------------------------------------
(* One trouble: the loops *)

LEMMA Stopped ==
    ASSUME OnTrack, stage \in Lists, pc' \in Ending, UNCHANGED failed, stage' \in Lists \cup {"done"}
    PROVE  OnTrack'
BY DEF OnTrack, Lists

\* The next item, or the first turn of an item, with an idle chip.
LEMMA ReadyAnew ==
    ASSUME UNCHANGED device, Idle, chip.locked => Hurt /\ stage' # "erase",
           pc' \in {"head", "try"}, attempt' = 0
    PROVE  Ready'
BY DEF Ready, device, Idle, Hurt, Unlocking

LEMMA PageOrder ==
    \A p \in Pages, i \in Nat :
        /\ p \in Nat /\ (i = 0 => ~(p < i))
        /\ p < i \/ p = i \/ p > i
        /\ ~(p < i /\ p >= i) /\ (p <= i <=> p < i \/ p = i)
        /\ p < i + 1 <=> p < i \/ p = i
        /\ p > i + 1 => p > i
        /\ p = i + 1 => p > i
BY PageInBlock

LEMMA EndOfPages ==
    ASSUME at \in 0 .. NBlocks * PagesPerBlock, at \notin Pages
    PROVE  \A p \in Pages : p < at
<1>. DEFINE all == NBlocks * PagesPerBlock
<1>1. Pages = 0 .. all - 1 /\ all \in Nat /\ at \in 0 .. all
    BY BlockRange DEF Pages
<1>. HIDE DEF all
<1>. QED BY <1>1

LEMMA OnTrackErases ==
    ASSUME Inv, OnTrack, Mild', EraseStage
    PROVE  OnTrack'
<1>1. /\ stage = "erase" /\ pc = "head" /\ UNCHANGED device /\ UNCHANGED <<failed, bad>>
      /\ at \in Nat
    BY Places DEF EraseStage, Local, Quiet, Inv, TypeOK
<1>2. Progress /\ Ready
    BY <1>1 DEF OnTrack, Lists, Ending
<1>3. Idle /\ ~chip.locked
    BY <1>1, <1>2 DEF Ready
<1>4. CASE pc' = "cleanup"
    BY <1>1, <1>4, Stopped DEF EraseStage, Goto, Enter, Lists, Ending
<1>5. CASE pc' # "cleanup"
  <2>1. Ready'
      BY <1>1, <1>3, <1>5, ReadyAnew DEF EraseStage, Goto, Enter
  <2>2. CASE at = NBlocks
    <3>1. stage' = "program" /\ at' = 0 /\ pc' = "head"
        BY <1>1, <1>5, <2>2, GeometryAssumption DEF EraseStage, Goto, Enter
    <3>2. \A p \in Pages : Usable(p) => Empty(p)
        BY <1>1, <1>2, <2>2, PageInBlock DEF Progress, Blocks
    <3>3. Progress'
        BY <1>1, <3>1, <3>2, PageOrder DEF Progress, Usable, Empty, device
    <3>. QED BY <1>1, <2>1, <3>1, <3>3 DEF OnTrack, Lists
  <2>3. CASE at # NBlocks
    <3>1. stage' = "erase" /\ (at' = at \/ (at' = at + 1 /\ at \in bad)) /\ pc' \in {"head", "try"}
        BY <1>1, <1>5, <2>3 DEF EraseStage, Goto, Enter
    <3>2. \A p \in Pages : BlockOf(p) < at + 1 => BlockOf(p) < at \/ BlockOf(p) = at
        BY <1>1, PageInBlock
    <3>3. Progress'
        BY <1>1, <1>2, <3>1, <3>2 DEF Progress, Usable, Empty, device
    <3>. QED BY <1>1, <2>1, <3>1, <3>3 DEF OnTrack, Lists
  <2>. QED BY <2>2, <2>3
<1>. QED BY <1>4, <1>5

LEMMA OnTrackPrograms ==
    ASSUME Inv, OnTrack, Mild', ProgramStage
    PROVE  OnTrack'
<1>1. /\ stage = "program" /\ pc = "head" /\ UNCHANGED device /\ UNCHANGED <<failed, bad>>
      /\ at \in Nat /\ at \in 0 .. NBlocks * PagesPerBlock
    BY Places DEF ProgramStage, Local, Quiet, Inv, TypeOK
<1>2. Progress /\ Ready
    BY <1>1 DEF OnTrack, Lists, Ending
<1>3. Idle /\ (chip.locked => Hurt)
    BY <1>1, <1>2 DEF Ready
<1>4. CASE pc' = "cleanup"
    BY <1>1, <1>4, Stopped DEF ProgramStage, Goto, Enter, Lists, Ending
<1>5. CASE pc' # "cleanup"
  <2>0. stage' \in {"program", "final"} /\ pc' \in {"head", "try"} /\ attempt' = 0
      BY <1>1, <1>5 DEF ProgramStage, Goto, Enter
  <2>1. Ready'
      BY <1>1, <1>3, <2>0, ReadyAnew
  <2>2. CASE at \notin Pages
    <3>1. stage' = "final" /\ at' = 0 /\ pc' = "head"
        BY <1>1, <1>5, <2>2 DEF ProgramStage, Goto, Enter
    <3>2. \A p \in Pages : Usable(p) => Holds(p)
        BY <1>1, <1>2, <2>2, EndOfPages DEF Progress
    <3>3. Progress'
        BY <1>1, <3>1, <3>2 DEF Progress, Usable, Holds, device
    <3>. QED BY <1>1, <2>1, <3>1, <3>3 DEF OnTrack, Lists
  <2>3. CASE at \in Pages
    <3>1. stage' = "program" /\ (at' = at \/ (at' = at + 1 /\ ~Usable(at)))
        BY <1>1, <1>5, <2>3 DEF ProgramStage, Goto, Enter, Usable
    <3>2. Progress'
        BY <1>1, <1>2, <3>1, PageOrder DEF Progress, Usable, Holds, Empty, device
    <3>. QED BY <1>1, <2>0, <2>1, <3>1, <3>2 DEF OnTrack, Lists
  <2>. QED BY <2>2, <2>3
<1>. QED BY <1>4, <1>5

LEMMA OnTrackFinal ==
    ASSUME Inv, OnTrack, Mild', FinalStage
    PROVE  OnTrack'
<1>1. stage = "final" /\ pc = "head" /\ UNCHANGED device /\ UNCHANGED <<failed, bad>>
    BY DEF FinalStage, Local, Quiet
<1>2. Progress /\ Ready
    BY <1>1 DEF OnTrack, Lists, Ending
<1>3. Idle /\ (chip.locked => Hurt)
    BY <1>1, <1>2 DEF Ready
<1>4. CASE pc' = "cleanup"
    BY <1>1, <1>4, Stopped DEF FinalStage, Goto, Enter, Lists, Ending
<1>5. CASE stage' = "done"
    BY <1>1, <1>5 DEF OnTrack, Lists
<1>6. CASE pc' # "cleanup" /\ stage' # "done"
  <2>1. stage' = "final" /\ pc' \in {"head", "try"} /\ attempt' = 0
      BY <1>1, <1>6 DEF FinalStage, Goto, Enter
  <2>2. Ready'
      BY <1>1, <1>3, <2>1, ReadyAnew
  <2>3. Progress'
      BY <1>1, <1>2, <2>1 DEF Progress, Usable, Holds, device
  <2>. QED BY <1>1, <2>1, <2>2, <2>3 DEF OnTrack, Lists
<1>. QED BY <1>4, <1>5, <1>6

\* A retry finds the chip with nothing in progress that it would cut short.
LEMMA OnTrackTurn ==
    ASSUME Inv, OnTrack, Mild', Retries >= 2, VerifyRetries >= 2, erase_block \/ program_page \/ verify_page
    PROVE  OnTrack'
<1>1. stage \in Lists /\ pc = "try" /\ pc \notin Ending
    BY DEF erase_block, program_page, verify_page, Lists, Ending
<1>2. Progress /\ Ready /\ attempt \in {0, 1}
    BY <1>1 DEF OnTrack, Ready
<1>3. /\ UNCHANGED <<failed, bad, stage, at, attempt>>
      /\ \/ pc' = "cleanup"
         \/ /\ attempt = 0 /\ UNCHANGED device
            /\ pc' = (IF stage \in Changing THEN "wren" ELSE "fetch")
         \/ /\ attempt = 1 /\ (Reset \/ ResetLost)
            /\ pc' = (IF stage \in Changing THEN "clear" ELSE "fetch")
    BY <1>2, Retrying DEF erase_block, program_page, verify_page, GiveUp, Goto, Local, Quiet, Changing
<1>4. CASE pc' = "cleanup"
    BY <1>1, <1>3, <1>4, Stopped DEF Ending
<1>5. CASE pc' # "cleanup" /\ attempt = 0
  <2>1. Ready'
      BY <1>1, <1>2, <1>3, <1>5 DEF Ready, device, Idle, Hurt, Unlocking, Changing
  <2>2. Progress'
      BY <1>2, <1>3, <1>5 DEF Progress, Usable, Holds, Empty, device
  <2>. QED BY <1>1, <1>3, <2>1, <2>2 DEF OnTrack, Lists
<1>6. CASE pc' # "cleanup" /\ attempt = 1
  <2>1. Hurt /\ Hurt' /\ Idle' /\ UNCHANGED content
      BY <1>2, <1>3, <1>6, RetryReset DEF Inv, TypeOK, Ready, Idle
  <2>2. Ready'
      BY <1>1, <1>2, <1>3, <1>6, <2>1 DEF Ready, Unlocking, Changing
  <2>3. Progress'
      BY <1>2, <1>3, <2>1 DEF Progress, Usable, Holds, Empty
  <2>. QED BY <1>1, <1>3, <2>2, <2>3 DEF OnTrack, Lists
<1>. QED BY <1>2, <1>4, <1>5, <1>6

-----------------------------------------------------------------------------
(* One trouble: the commands *)

\* What a call of the loops starts from.
LEMMA Within ==
    ASSUME Inv, OnTrack, pc \in Working \cup Reading, stage # "gate"
    PROVE  /\ Progress /\ Ready /\ ChipType /\ stage \in Lists
           /\ pc \in Working => stage \in Changing
           /\ pc \in Reading => stage \in {"now", "final"}
           /\ stage # "erase" => at \in Pages /\ Usable(at) /\ Image[at] \in Contents
           /\ stage = "erase" => at \in Blocks /\ at \notin bad
           /\ at \in Nat /\ Blank \in Contents
<1>1. stage \in Lists /\ pc \notin Ending /\ (pc \in Working => stage \in Changing)
      /\ (pc \in Reading => stage \in {"now", "final"})
    BY DEF Inv, TypeOK, Stages, Lists, Staged, Working, Reading, Unlocking, Ending, Changing
<1>. QED BY <1>1, ImageType, Places DEF OnTrack, Inv, TypeOK, Placed, Usable, Contents, Lists, Changing

\* A call that is not the last of its item and leaves the array alone.
LEMMA OnTrackGoes ==
    ASSUME OnTrack, Progress, stage \in Lists, UNCHANGED <<content, failed, bad, stage, at>>, Ready'
    PROVE  OnTrack'
BY DEF OnTrack, Progress, Usable, Holds, Empty, Lists

LEMMA OnTrackUnlocks ==
    ASSUME Inv, OnTrack, Mild', stage # "gate", clear_protection \/ ClearRegister \/ ReadBack
    PROVE  OnTrack'
<1>1. pc \in Unlocking /\ pc \in Working
    BY DEF clear_protection, ClearRegister, ReadBack, Unlocking, Working
<1>2. Progress /\ Ready /\ ChipType /\ stage \in Lists /\ Blank \in Contents
    BY <1>1, Within
<1>3. attempt = 1 /\ Hurt /\ Idle /\ (pc = "unlocking" => ~chip.locked)
    BY <1>1, <1>2 DEF Ready, Unlocking
<1>4. Mild /\ ~stop
    BY MildTool DEF Tool, Mild
<1>5. UNCHANGED <<failed, bad, stage, at, attempt>>
    BY <1>2 DEF clear_protection, ClearRegister, ReadBack, write_enable, ClearFailed, ClearDone, Goto, Quiet, Local
<1>6. \/ pc' = "wren" /\ ~chip.locked /\ UNCHANGED device
      \/ pc' \in {"unlock", "wren"} /\ Sent("WREN", 0, Blank) /\ (pc' = "wren" => ~chip'.wel)
      \/ pc' = "unlocking" /\ Sent("UNLOCK", 0, Blank)
    BY <1>2, <1>3, <1>4, Lossless DEF clear_protection, ClearRegister, ReadBack, write_enable, ClearFailed,
       ClearDone, Goto, Local, abort_requested, Lists
<1>7. Idle' /\ UNCHANGED content /\ Hurt' /\ (pc' \in {"unlocking", "wren"} => ~chip'.locked)
    BY <1>2, <1>3, <1>6, Setting, Lossless DEF device, Idle
<1>8. Ready'
    BY <1>3, <1>5, <1>6, <1>7 DEF Ready, Unlocking
<1>. QED BY <1>2, <1>5, <1>7, <1>8, OnTrackGoes

\* A lost command is the first trouble and costs the first turn.
LEMMA ReadyAgain ==
    ASSUME Ready, ~Hurt, Hurt', NextAttempt, chip'.locked = chip.locked, stage \in Lists,
           ~Idle' => /\ chip'.op = Awaited /\ chip'.row = at /\ chip'.fail = "none"
                     /\ stage = "program" => chip'.cache = Image[at]
    PROVE  Ready'
BY DEF Ready, NextAttempt, Awaited, Unlocking, Idle

LEMMA OnTrackEnables ==
    ASSUME Inv, OnTrack, Mild', EnableWrite
    PROVE  OnTrack'
<1>1. pc = "wren" /\ pc \in Working /\ stage # "gate"
    BY DEF EnableWrite, Working, Inv, Staged, GateLabels, Unlocking, Ending
<1>2. Progress /\ Ready /\ ChipType /\ stage \in Changing /\ stage \in Lists /\ Blank \in Contents
    BY <1>1, Within
<1>3. Idle /\ (chip.locked => Hurt /\ attempt = 0 /\ stage # "erase")
    BY <1>1, <1>2 DEF Ready
<1>4. ~stop
    BY MildTool DEF Tool, Mild
<1>5. UNCHANGED <<failed, bad, stage, at>>
    BY DEF EnableWrite, write_enable, Goto, NextAttempt, Quiet, Local
<1>6. CASE Sent("WREN", 0, Blank)
  <2>1. Idle' /\ chip'.wel /\ chip'.locked = chip.locked /\ UNCHANGED content /\ (Hurt' <=> Hurt)
      BY <1>2, <1>3, <1>6, Setting, Lossless DEF Idle
  <2>2. pc' = (IF stage = "erase" THEN "execute" ELSE "load") /\ UNCHANGED attempt
      BY <1>2, <1>3, <1>4, <1>6, <2>1, Lossless DEF EnableWrite, write_enable, abort_requested, Goto, Lost, Trouble,
         Sent, Hurt
  <2>3. Ready'
      BY <1>2, <1>3, <1>5, <2>1, <2>2 DEF Ready, Unlocking, Changing
  <2>. QED BY <1>2, <1>5, <2>1, <2>3, OnTrackGoes
<1>7. CASE Lost("WREN", 0, Blank) /\ NextAttempt
  <2>1. Idle' /\ chip'.locked = chip.locked /\ UNCHANGED content /\ ~Hurt /\ Hurt'
      BY <1>2, <1>3, <1>7, SettingLost, Lossless DEF Idle
  <2>2. Ready'
      BY <1>2, <1>7, <2>1, ReadyAgain
  <2>. QED BY <1>2, <1>5, <2>1, <2>2, OnTrackGoes
<1>. QED BY <1>4, <1>6, <1>7 DEF EnableWrite, write_enable, abort_requested

LEMMA OnTrackLoads ==
    ASSUME Inv, OnTrack, Mild', program_load
    PROVE  OnTrack'
<1>1. pc = "load" /\ pc \in Working /\ stage # "gate"
    BY DEF program_load, Working, Inv, Staged, GateLabels, Unlocking, Ending
<1>2. Progress /\ Ready /\ ChipType /\ stage = "program" /\ stage \in Lists /\ Image[at] \in Contents
    BY <1>1, Within DEF Ready, Changing
<1>3. Idle /\ chip.wel /\ (chip.locked => Hurt /\ attempt = 0 /\ stage # "erase")
    BY <1>1, <1>2 DEF Ready
<1>5. UNCHANGED <<failed, bad, stage, at>>
    BY DEF program_load, Goto, NextAttempt, Quiet
<1>6. CASE Sent("LOAD", at, Image[at]) /\ Goto("execute")
  <2>1. /\ Idle' /\ chip'.wel /\ chip'.locked = chip.locked /\ UNCHANGED content /\ (Hurt' <=> Hurt)
        /\ chip'.cache = Image[at]
      BY <1>2, <1>3, <1>6, Setting, Lossless DEF Idle
  <2>3. Ready'
      BY <1>2, <1>3, <1>5, <1>6, <2>1 DEF Ready, Unlocking, Changing, Goto
  <2>. QED BY <1>2, <1>5, <2>1, <2>3, OnTrackGoes
<1>7. CASE Lost("LOAD", at, Image[at]) /\ NextAttempt
  <2>1. Idle' /\ chip'.locked = chip.locked /\ UNCHANGED content /\ ~Hurt /\ Hurt'
      BY <1>2, <1>3, <1>7, SettingLost, Lossless DEF Idle
  <2>2. Ready'
      BY <1>2, <1>7, <2>1, ReadyAgain
  <2>. QED BY <1>2, <1>5, <2>1, <2>2, OnTrackGoes
<1>. QED BY <1>6, <1>7 DEF program_load

LEMMA OnTrackExecutes ==
    ASSUME Inv, OnTrack, Mild', NEW command \in Changing, Execute(command)
    PROVE  OnTrack'
<1>1. pc = "execute" /\ pc \in Working /\ stage # "gate" /\ stage = command
    BY DEF Execute, Working, Inv, Staged, GateLabels, Unlocking, Ending
<1>2. Progress /\ Ready /\ ChipType /\ stage \in Lists
    BY <1>1, Within
<1>3. /\ Idle /\ chip.wel /\ (chip.locked => Hurt /\ attempt = 0 /\ stage # "erase")
      /\ (stage = "program" => chip.cache = Image[at])
    BY <1>1, <1>2 DEF Ready
<1>4. Awaited = command
    BY <1>1 DEF Awaited
<1>5. UNCHANGED <<failed, bad, stage, at>>
    BY DEF Execute, Goto, NextAttempt
<1>6. CASE Sent(command, at, Blank) /\ Goto("wait")
  <2>1. /\ UNCHANGED content /\ chip'.locked = chip.locked /\ chip'.cache = chip.cache
        /\ chip.locked => chip'.op = "none" /\ chip'.fail = command
        /\ ~chip.locked => chip'.op = command /\ chip'.row = at /\ chip'.fail = "none"
      BY <1>2, <1>3, <1>6, Beginning DEF Sent
  <2>2. Hurt' <=> Hurt
      BY <1>2, <1>6, Lossless
  <2>3. Ready'
      BY <1>1, <1>2, <1>3, <1>4, <1>5, <1>6, <2>1, <2>2 DEF Ready, Unlocking, Changing, Goto, Idle, Awaited
  <2>. QED BY <1>2, <1>5, <2>1, <2>3, OnTrackGoes
<1>7. CASE Lost(command, at, Blank) /\ NextAttempt
  <2>1. ~Hurt /\ Hurt' /\ ~chip.locked
      BY <1>2, <1>3, <1>7, Lossless
  <2>2. UNCHANGED <<content, chip>> \/ Receive(command, at, Blank)
      BY <1>7 DEF Lost
  <2>3. /\ UNCHANGED content /\ chip'.locked = chip.locked /\ chip'.cache = chip.cache
        /\ ~Idle' => chip'.op = command /\ chip'.row = at /\ chip'.fail = "none"
      BY <1>2, <1>3, <2>1, <2>2, Beginning DEF Idle
  <2>4. Ready'
      BY <1>2, <1>3, <1>4, <1>7, <2>1, <2>3, ReadyAgain
  <2>. QED BY <1>2, <1>5, <2>3, <2>4, OnTrackGoes
<1>. QED BY <1>6, <1>7 DEF Execute

LEMMA OnTrackWaits ==
    ASSUME Inv, OnTrack, Mild', wait_ready
    PROVE  OnTrack'
<1>1. pc = "wait" /\ pc \in Working /\ stage # "gate"
    BY DEF wait_ready, Working, Inv, Staged, GateLabels, Unlocking, Ending
<1>2. Progress /\ Ready /\ ChipType /\ stage \in Changing /\ stage \in Lists
    BY <1>1, Within
<1>3. ~stop
    BY MildTool DEF Tool, Mild
<1>4. UNCHANGED <<failed, bad>>
    BY DEF wait_ready, Quiet, Local
<1>5. CASE StatusLost /\ NextAttempt
  <2>1. ~Hurt /\ Hurt' /\ UNCHANGED <<content, chip>>
      BY <1>2, <1>5, Lossless
  <2>2. Ready'
      BY <1>2, <1>5, <2>1, ReadyAgain DEF Ready, Idle
  <2>. QED BY <1>2, <1>4, <1>5, <2>1, <2>2, OnTrackGoes DEF NextAttempt
<1>6. CASE UNCHANGED device /\ Idle /\ chip.fail = stage /\ NextAttempt
  <2>1. Hurt /\ attempt = 0
      BY <1>1, <1>2, <1>6 DEF Ready
  <2>2. Ready'
      BY <1>2, <1>6, <2>1 DEF Ready, NextAttempt, device, Idle, Hurt, Unlocking
  <2>. QED BY <1>2, <1>4, <1>6, <2>2, OnTrackGoes DEF NextAttempt, device
<1>7. CASE UNCHANGED device /\ Idle /\ chip.fail # stage /\ (IF stage = "erase" THEN NextItem ELSE Enter("try", "now", at))
  <2>1. Arrived /\ (chip.locked => Hurt /\ stage # "erase")
      BY <1>1, <1>2, <1>7 DEF Ready
  <2>2. /\ pc' \in {"head", "try"} /\ attempt' = 0
        /\ IF stage = "erase" THEN stage' = "erase" /\ at' = at + 1 ELSE stage' = "now" /\ at' = at
      BY <1>7 DEF NextItem, Enter
  <2>3. Ready'
      BY <1>7, <2>1, <2>2, ReadyAnew
  <2>4. CASE stage = "erase"
    <3>1. at \in Nat
        BY <1>1, Within
    <3>2. \A p \in Pages : BlockOf(p) < at + 1 => BlockOf(p) < at \/ BlockOf(p) = at
        BY <3>1, PageInBlock
    <3>3. Progress'
        BY <1>2, <1>4, <1>7, <2>1, <2>2, <2>4, <3>2 DEF Progress, Arrived, Erased, Usable, Empty, device
    <3>. QED BY <1>2, <1>4, <2>2, <2>3, <2>4, <3>3 DEF OnTrack, Lists
  <2>5. CASE stage = "program"
    <3>1. at \in Nat
        BY <1>1, Within
    <3>2. Progress'
        BY <1>2, <1>4, <1>7, <2>1, <2>2, <2>5, <3>1, PageOrder DEF Progress, Arrived, Usable, Holds, Empty, device
    <3>. QED BY <1>2, <1>4, <2>2, <2>3, <2>5, <3>2 DEF OnTrack, Lists
  <2>. QED BY <1>2, <2>4, <2>5 DEF Changing
<1>. QED BY <1>3, <1>5, <1>6, <1>7 DEF wait_ready, abort_requested, Local

LEMMA OnTrackReads ==
    ASSUME Inv, OnTrack, Mild', page_read
    PROVE  OnTrack'
<1>1. pc = "fetch" /\ pc \in Reading /\ stage # "gate"
    BY DEF page_read, Reading, Inv, Staged, GateLabels, Unlocking, Ending
<1>2. Progress /\ Ready /\ ChipType /\ stage \in {"now", "final"} /\ stage \in Lists
    BY <1>1, Within
<1>3. Idle
    BY <1>1, <1>2 DEF Ready
<1>4. Awaited = "read"
    BY <1>2 DEF Awaited, Changing
<1>5. UNCHANGED <<failed, bad, stage, at>>
    BY DEF page_read, Goto, NextAttempt, Quiet
<1>6. CASE Sent("READ", at, Blank) /\ Goto("compare")
  <2>1. UNCHANGED content /\ chip'.locked = chip.locked /\ chip'.op = "read" /\ chip'.row = at /\ chip'.fail = "none"
      BY <1>2, <1>3, <1>6, Fetched DEF Sent
  <2>2. Hurt' <=> Hurt
      BY <1>2, <1>6, Lossless
  <2>3. Ready'
      BY <1>1, <1>2, <1>3, <1>4, <1>5, <1>6, <2>1, <2>2 DEF Ready, Unlocking, Goto, Idle, Awaited
  <2>. QED BY <1>2, <1>5, <2>1, <2>3, OnTrackGoes
<1>7. CASE Lost("READ", at, Blank) /\ NextAttempt
  <2>1. ~Hurt /\ Hurt'
      BY <1>2, <1>7, Lossless
  <2>2. UNCHANGED <<content, chip>> \/ Receive("READ", at, Blank)
      BY <1>7 DEF Lost
  <2>3. /\ UNCHANGED content /\ chip'.locked = chip.locked
        /\ ~Idle' => chip'.op = "read" /\ chip'.row = at /\ chip'.fail = "none"
      BY <1>2, <1>3, <2>2, Fetched DEF Idle
  <2>4. Ready'
      BY <1>2, <1>4, <1>7, <2>1, <2>3, ReadyAgain
  <2>. QED BY <1>2, <1>5, <2>3, <2>4, OnTrackGoes
<1>. QED BY <1>6, <1>7 DEF page_read

LEMMA OnTrackCompares ==
    ASSUME Inv, OnTrack, Mild', read_page_main
    PROVE  OnTrack'
<1>1. pc = "compare" /\ pc \in Reading /\ stage # "gate"
    BY DEF read_page_main, Reading, Inv, Staged, GateLabels, Unlocking, Ending
<1>2. Progress /\ Ready /\ ChipType /\ stage \in {"now", "final"} /\ stage \in Lists /\ at \in Nat
    BY <1>1, Within
<1>3. ~stop
    BY MildTool DEF Tool, Mild
<1>4. UNCHANGED <<failed, bad>>
    BY DEF read_page_main, Quiet, Local
<1>5. CASE StatusLost /\ NextAttempt
  <2>1. ~Hurt /\ Hurt' /\ UNCHANGED <<content, chip>>
      BY <1>2, <1>5, Lossless
  <2>2. Ready'
      BY <1>2, <1>5, <2>1, ReadyAgain DEF Ready, Idle
  <2>. QED BY <1>2, <1>4, <1>5, <2>1, <2>2, OnTrackGoes DEF NextAttempt
<1>6. CASE UNCHANGED device /\ Idle /\ NextItem
  <2>1. /\ pc' = "head" /\ attempt' = 0 /\ at' = at + 1
        /\ stage' = (IF stage = "now" THEN "program" ELSE stage)
      BY <1>6 DEF NextItem, Enter
  <2>2. Ready'
      BY <1>2, <1>6, <2>1, ReadyAnew DEF Ready
  <2>3. Progress'
      BY <1>2, <1>4, <1>6, <2>1, PageOrder DEF Progress, Usable, Holds, Empty, device
  <2>. QED BY <1>2, <1>4, <2>1, <2>2, <2>3 DEF OnTrack, Lists
<1>7. Idle => chip.cache = Image[at]
    BY <1>1, <1>2 DEF Ready
<1>. QED BY <1>3, <1>5, <1>6, <1>7 DEF read_page_main, abort_requested, Local

LEMMA OnTrackEnds ==
    ASSUME Inv, OnTrack, FinalReset \/ WriteDisable \/ cleanup
    PROVE  OnTrack'
<1>1. pc' \in Ending /\ UNCHANGED <<failed, stage>> /\ stage \in Stages
    BY DEF FinalReset, WriteDisable, cleanup, Ending, Goto, Quiet, Inv, TypeOK
<1>2. CASE stage = "gate"
    BY <1>1, <1>2 DEF OnTrack, Untroubled, Lists, Ending, Unlocking
<1>3. CASE stage # "gate"
    BY <1>1, <1>3, Stopped DEF OnTrack, Stages, Lists
<1>. QED BY <1>2, <1>3

-----------------------------------------------------------------------------
(* One trouble: the chip *)

\* What the chip finishes while the run has one trouble at most: only an erase
\* may fail, as the first one.
Finished ==
    \/ /\ chip.op = "read" /\ UNCHANGED <<content, faults>>
       /\ chip'.cache = content[chip.row]
    \/ /\ chip.op = "erase" /\ chip'.fail = chip.fail /\ UNCHANGED faults
       /\ content' = [p \in Pages |-> IF BlockOf(p) = chip.row THEN Blank ELSE content[p]]
    \/ /\ chip.op = "erase" /\ chip'.fail = "erase" /\ ~Hurt /\ Hurt'
       /\ \A p \in Pages : BlockOf(p) # chip.row => content'[p] = content[p]
    \/ /\ chip.op = "program" /\ chip'.fail = chip.fail /\ UNCHANGED faults
       /\ \E c \in Programmed(content[chip.row], chip.cache) : content' = [content EXCEPT ![chip.row] = c]

LEMMA ChipFinishes ==
    ASSUME ChipType, ChipDone, Mild', stop' = stop
    PROVE  /\ Finished /\ Mild /\ chip'.op = "none" /\ chip'.locked = chip.locked
<1>1. chip \in ChipStates /\ content \in [Pages -> Contents]
    BY Counted DEF ChipType
<1>2. CASE ReadDone
  <2>. DEFINE c == content[chip.row]
              m == chip.row \in Marked
  <2>1. chip' = [chip EXCEPT !.op = "none", !.cache = c, !.mark = m]
      BY <1>2 DEF ReadDone
  <2>. HIDE DEF c, m
  <2>2. /\ chip'.op = "none" /\ chip'.locked = chip.locked /\ chip'.cache = c
        /\ chip'.cut = chip.cut
      BY <1>1, <2>1 DEF ChipStates
  <2>. QED BY <1>2, <2>2 DEF ReadDone, Finished, Mild, c
<1>3. CASE EraseDone /\ UNCHANGED faults
  <2>1. ~Trouble("erase")
      BY <1>3, TroubleCounts, Counted DEF Kinds
  <2>2. chip' = [chip EXCEPT !.op = "none", !.wel = FALSE]
      BY <1>3, <2>1 DEF EraseDone
  <2>3. /\ chip'.op = "none" /\ chip'.locked = chip.locked /\ chip'.fail = chip.fail
        /\ chip'.cut = chip.cut
      BY <1>1, <2>2 DEF ChipStates
  <2>. QED BY <1>3, <2>1, <2>3 DEF EraseDone, Finished, Mild
<1>4. CASE EraseDone /\ Trouble("erase")
  <2>1. /\ chip' = [chip EXCEPT !.op = "none", !.wel = FALSE, !.fail = "erase"]
        /\ content' = Aborted
      BY <1>4, TroubleCounts, Counted DEF EraseDone, Kinds
  <2>2. /\ chip'.op = "none" /\ chip'.locked = chip.locked /\ chip'.fail = "erase"
        /\ chip'.cut = chip.cut
      BY <1>1, <2>1 DEF ChipStates
  <2>3. ~Hurt /\ Hurt'
      BY <1>4, First DEF Kinds
  <2>4. Mild
      BY <1>4, <2>2, TroubleCounts, Counted DEF Mild, Kinds
  <2>5. \A p \in Pages : BlockOf(p) # chip.row => content'[p] = content[p]
      BY <1>1, <1>4, <2>1 DEF EraseDone, Aborted
  <2>. QED BY <1>4, <2>2, <2>3, <2>4, <2>5 DEF EraseDone, Finished
<1>5. CASE ProgramDone
  <2>1. ~Trouble("program")
      BY First DEF Kinds
  <2>2. chip' = [chip EXCEPT !.op = "none", !.wel = FALSE]
      BY <1>5, <2>1 DEF ProgramDone
  <2>3. /\ chip'.op = "none" /\ chip'.locked = chip.locked /\ chip'.fail = chip.fail
        /\ chip'.cut = chip.cut
      BY <1>1, <2>2 DEF ChipStates
  <2>. QED BY <1>5, <2>1, <2>3 DEF ProgramDone, Finished, Mild
<1>. QED BY <1>2, <1>3, <1>4, <1>5 DEF ChipDone, EraseDone

\* Programming the image over an empty page or over itself.
LEMMA ProgramsImage ==
    ASSUME NEW data \in Data, NEW old \in {Blank, data}
    PROVE  Programmed(old, data) = {data}
<1>1. Part \notin Data \cup {Blank}
    BY DataAssumption
<1>. QED BY <1>1 DEF Programmed

LEMMA ChipReady ==
    ASSUME Inv, Progress, Ready, Chip, Mild', stage \in Lists, pc \notin Ending
    PROVE  Progress' /\ Ready'
<1>1. /\ ChipType /\ chip.op # "none" /\ UNCHANGED <<pc, stage, at, attempt, bad>> /\ stop' = stop
      /\ ChipDone /\ content \in [Pages -> Contents]
    BY DEF Inv, TypeOK, Chip, ChipType, ChipDone, ReadDone, EraseDone, ProgramDone
<1>2. Finished /\ Idle' /\ chip'.locked = chip.locked
    BY <1>1, ChipFinishes DEF Idle
<1>3. /\ pc \in {"wait", "compare"} \/ (pc = "try" /\ attempt = 1)
      /\ chip.op = Awaited /\ chip.row = at /\ chip.fail = "none"
      /\ stage = "program" => chip.cache = Image[at]
    BY <1>1 DEF Ready, Idle
<1>4. /\ pc = "wait" => stage \in Changing
      /\ pc = "compare" => stage \in {"now", "final"}
      /\ stage # "erase" => at \in Pages /\ Usable(at)
    BY <1>3 DEF Inv, TypeOK, Staged, Placed, Working, Reading, Unlocking, Ending, Lists, Stages, Usable, Changing
<1>5. CASE chip.op = "read"
  <2>1. stage \notin Changing /\ UNCHANGED <<content, faults>> /\ chip'.cache = content[at]
      BY <1>2, <1>3, <1>5 DEF Finished, Awaited, Changing
  <2>2. Progress'
      BY <1>1, <2>1 DEF Progress, Usable, Holds, Empty
  <2>3. stage \in {"now", "final"} => content[at] = Image[at]
      BY <1>4, PageOrder DEF Progress, Holds
  <2>4. Ready'
      BY <1>1, <1>2, <1>3, <1>4, <2>1, <2>3 DEF Ready, Hurt, Idle, Unlocking, Changing
  <2>. QED BY <2>2, <2>4
<1>6. CASE chip.op = "erase"
  <2>1. stage = "erase" /\ pc # "compare"
      BY <1>3, <1>4, <1>6 DEF Awaited, Changing
  <2>2. \/ /\ UNCHANGED faults /\ chip'.fail = "none"
           /\ \A p \in Pages : content'[p] = (IF BlockOf(p) = at THEN Blank ELSE content[p])
        \/ chip'.fail = "erase" /\ ~Hurt /\ Hurt' /\ \A p \in Pages : BlockOf(p) # at => content'[p] = content[p]
      BY <1>2, <1>3, <1>6 DEF Finished
  <2>3. at \in Nat /\ ~(at < at)
      BY Places DEF Inv, TypeOK
  <2>4. Progress'
      BY <1>1, <2>1, <2>2, <2>3 DEF Progress, Usable, Empty
  <2>5. CASE UNCHANGED faults /\ chip'.fail = "none" /\ \A p \in Pages : BlockOf(p) = at => content'[p] = Blank
    <3>1. Arrived'
        BY <1>1, <2>1, <2>5 DEF Arrived, Erased, Empty
    <3>. QED BY <1>1, <1>2, <1>3, <2>1, <2>4, <2>5, <3>1 DEF Ready, Hurt, Idle, Unlocking
  <2>6. CASE chip'.fail = "erase" /\ ~Hurt /\ Hurt'
      BY <1>1, <1>2, <1>3, <2>1, <2>4, <2>6 DEF Ready, Idle, Unlocking
  <2>. QED BY <2>2, <2>5, <2>6
<1>7. CASE chip.op = "program"
  <2>1. stage = "program" /\ pc # "compare" /\ at \in Pages /\ Usable(at)
      BY <1>3, <1>4, <1>7 DEF Awaited, Changing
  <2>2. content[at] \in {Blank, Image[at]}
      BY <2>1, PageOrder DEF Progress, Holds, Empty
  <2>3. content' = [content EXCEPT ![at] = Image[at]] /\ UNCHANGED faults /\ chip'.fail = "none"
    <3>1. Image[at] \in Data
        BY <2>1, DataAssumption
    <3>2. Programmed(content[at], Image[at]) = {Image[at]}
        BY <2>2, <3>1, ProgramsImage
    <3>. QED BY <1>2, <1>3, <1>7, <2>1, <3>2 DEF Finished
  <2>4. content'[at] = Image[at] /\ \A p \in Pages : p # at => content'[p] = content[p]
      BY <1>1, <2>1, <2>3
  <2>5. Progress'
      BY <1>1, <2>1, <2>4 DEF Progress, Usable, Holds, Empty
  <2>6. Arrived'
      BY <1>1, <2>1, <2>4 DEF Arrived, Holds
  <2>7. Ready'
      BY <1>1, <1>2, <1>3, <2>1, <2>3, <2>6 DEF Ready, Hurt, Idle, Unlocking
  <2>. QED BY <2>5, <2>7
<1>. QED BY <1>1, <1>5, <1>6, <1>7 DEF ChipType

LEMMA OnTrackChip ==
    ASSUME Inv, Mended, Chip, Mild'
    PROVE  OnTrack'
<1>1. /\ ChipType /\ UNCHANGED <<pc, stage, at, attempt, bad, correct, failed>> /\ stop' = stop
      /\ ChipDone
    BY DEF Inv, TypeOK, Chip
<1>2. Mild /\ Finished /\ Idle'
    BY <1>1, ChipFinishes DEF Idle
<1>3. OnTrack
    BY <1>2 DEF Mended
<1>4. CASE stage = "gate"
  <2>1. chip.op = "read"
      BY <1>1, <1>2, <1>4 DEF Inv, Guarded, Finished, Changing
  <2>2. Hurt' <=> Hurt
      BY <1>2, <2>1 DEF Finished, Hurt
  <2>. QED BY <1>1, <1>2, <1>3, <1>4, <2>2 DEF OnTrack, Untroubled, Lists
<1>5. CASE stage \in Lists /\ pc \notin Ending
  <2>1. Progress' /\ Ready'
      BY <1>3, <1>5, ChipReady DEF OnTrack
  <2>. QED BY <1>1, <1>3, <1>5, <2>1 DEF OnTrack, Lists
<1>. QED BY <1>1, <1>3, <1>4, <1>5 DEF OnTrack, Lists

LEMMA VerifiesAtGate == Inv /\ VerifyProtection => stage = "gate"
BY DEF Inv, TypeOK, Staged, Stages, Lists, VerifyProtection, Working, Reading, Unlocking, Ending

-----------------------------------------------------------------------------
(* One trouble: the theorem *)

LEMMA MendedStep ==
    ASSUME Inv, Mended, [Next]_vars, Retries >= 2, VerifyRetries >= 2
    PROVE  Mended'
<1>. SUFFICES ASSUME Mild'
              PROVE  OnTrack'
    BY DEF Mended
<1>1. CASE Tool
  <2>1. OnTrack
      BY <1>1, MildTool DEF Mended
  <2>. QED BY <1>1, <2>1, OnTrackStart, OnTrackScan, OnTrackGate, OnTrackErases, OnTrackPrograms, OnTrackFinal,
              OnTrackTurn, OnTrackUnlocks, OnTrackEnables, OnTrackLoads, OnTrackExecutes, OnTrackWaits,
              OnTrackReads, OnTrackCompares, OnTrackEnds, VerifiesAtGate
       DEF Tool, erase_block_once, program_page_once, Changing
<1>2. CASE Chip
    BY <1>2, OnTrackChip
<1>3. CASE console_ctrl_handler
    BY <1>3 DEF console_ctrl_handler, Mild
<1>4. CASE UNCHANGED vars
  <2>1. UNCHANGED <<content, chip, faults, pc, stage, at, attempt, correct, bad, failed, stop>>
      BY <1>4 DEF vars
  <2>2. OnTrack
      BY <2>1 DEF Mended, Mild
  <2>3. Progress => Progress'
      BY <2>1 DEF Progress, Usable, Holds, Empty
  <2>4. Ready => Ready'
      BY <2>1 DEF Ready, Hurt, Idle, Awaited, Arrived, Erased, Holds, Empty
  <2>5. Untroubled => Untroubled'
      BY <2>1 DEF Untroubled, Hurt, Idle
  <2>. QED BY <2>1, <2>2, <2>3, <2>4, <2>5 DEF OnTrack
<1>. QED BY <1>1, <1>2, <1>3, <1>4 DEF Next

\* With two turns for every retry loop, a single lost transfer or failed erase
\* leaves no block and no page behind that is listed as failed, unless a RESET
\* has cut an operation short: also when that RESET has locked the chip again.
THEOREM OneTroubleMended ==
    ASSUME Retries >= 2, VerifyRetries >= 2
    PROVE  Spec => []OneTroubleIsMended
<1>1. Init => Mended
    BY DEF Init, ChipInit, Mended, OnTrack, Untroubled, Hurt, Lists, Kinds, Unlocking
<1>2. Inv /\ Mended /\ [Next]_vars => Mended'
    BY MendedStep
<1>3. Mended => OneTroubleIsMended
    BY DEF Mended, Mild, OnTrack, OneTroubleIsMended
<1>. QED BY <1>1, <1>2, <1>3, Invariance, PTL DEF Spec
=============================================================================
