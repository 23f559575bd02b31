---- MODULE RawNand ----
(***************************************************************************)
(* The SPI-NAND chip and the CH341 bus that the three command line tools   *)
(* of src/program/spi-nand talk to.  Both are outside the repository: they *)
(* are modelled from the commands the tools send and from the status bits  *)
(* they test.                                                              *)
(*                                                                         *)
(* A busy chip ignores every command except RESET, which aborts what it is *)
(* doing.  A transfer that returns an error may or may not have reached    *)
(* the chip: the tool cannot tell.  Every trouble is taken from one budget, *)
(* MaxFaults: a failed transfer, a misread or an operation that outlasts   *)
(* its timeout ("bus"), an erase or a program that fails.                  *)
(***************************************************************************)
EXTENDS Integers, FiniteSets

CONSTANTS
    NBlocks,        \* NAND_BLOCKS
    PagesPerBlock,  \* NAND_PAGES_PER_BLOCK
    Marked,         \* pages whose first OOB byte is not FF
    Data,           \* what a page of the image may hold
    Image,          \* the page of the image written to each page
    Blank,          \* an erased page, which the image may ask for too
    Old, Junk, Part,\* not yet touched; unreadable; programmed in part
    MaxFaults       \* bound on the troubles of one run

Blocks == 0 .. NBlocks - 1
Pages == 0 .. NBlocks * PagesPerBlock - 1
BlockOf(page) == page \div PagesPerBlock
FactoryBad == {b \in Blocks : \E p \in {b * PagesPerBlock, b * PagesPerBlock + 1} : p \in Marked}

Contents == Data \cup {Blank, Old, Junk, Part}

ASSUME GeometryAssumption ==
    /\ NBlocks \in Nat \ {0}
    /\ PagesPerBlock \in Nat \ {0, 1}
    /\ MaxFaults \in Nat

ASSUME DataAssumption ==
    /\ Image \in [Pages -> Data]
    /\ {Old, Junk, Part} \cap (Data \cup {Blank}) = {}

VARIABLES
    content,    \* what each page of the array holds
    chip,       \* operation in progress, its row, WEL, A0, E_FAIL or P_FAIL, cache
                \* register, and cut: a RESET has cut an erase or a program short
    faults      \* troubles so far, by kind

device == <<content, chip, faults>>

Kinds == {"bus", "erase", "program"}

Idle == chip.op = "none"

ChipType ==
    /\ content \in [Pages -> Contents]
    /\ chip \in [op : {"none", "read", "erase", "program"}, row : Pages \cup Blocks,
                 wel : BOOLEAN, locked : BOOLEAN, relocks : BOOLEAN, right : BOOLEAN,
                 fail : {"none", "erase", "program"},
                 cache : Contents, mark : BOOLEAN, cut : BOOLEAN]
    /\ faults \in [Kinds -> 0 .. MaxFaults]

(* The chip is the expected one or not.  Some parts come back locked from a *)
(* RESET, some keep A0.                                                     *)
ChipInit ==
    /\ content = [p \in Pages |-> Old]
    /\ \E locked, relocks, right \in BOOLEAN :
          chip = [op |-> "none", row |-> 0, wel |-> FALSE, locked |-> locked,
                  relocks |-> relocks, right |-> right, fail |-> "none", cache |-> Old, mark |-> FALSE,
                  cut |-> FALSE]
    /\ faults = [k \in Kinds |-> 0]

(* What programming data over a page may leave: bits only go from 1 to 0. *)
Programmed(old, data) ==
    CASE data = Blank             -> {old}
      [] old \in {Blank, data}    -> {data}
      [] old = Part               -> {data, Junk}
      [] OTHER                    -> {Junk}

HalfProgrammed(old, data) ==
    CASE data = Blank \/ old = data -> old
      [] old \in {Blank, Part}      -> Part
      [] OTHER                      -> Junk

Aborted ==
    CASE chip.op = "erase"   -> [p \in Pages |-> IF BlockOf(p) = chip.row THEN Junk ELSE content[p]]
      [] chip.op = "program" -> [content EXCEPT ![chip.row] = HalfProgrammed(@, chip.cache)]
      [] OTHER               -> content

(* The chip receives a command. *)
Receive(command, row, data) ==
    \/ /\ command = "RESET"
       /\ chip' = [chip EXCEPT !.op = "none", !.wel = FALSE, !.fail = "none",
                               !.locked = @ \/ chip.relocks,
                               !.cut = @ \/ chip.op \in {"erase", "program"}]
       /\ content' = Aborted
    \/ /\ command # "RESET"
       /\ ~Idle
       /\ UNCHANGED <<chip, content>>
    \/ /\ command # "RESET"
       /\ Idle
       /\ chip' = CASE command = "WREN"   -> [chip EXCEPT !.wel = TRUE]
                    [] command = "WRDI"   -> [chip EXCEPT !.wel = FALSE]
                    [] command = "UNLOCK" -> [chip EXCEPT !.locked = FALSE]
                    [] command = "LOCK"   -> [chip EXCEPT !.locked = TRUE]
                    [] command = "LOAD"   -> [chip EXCEPT !.cache = data, !.mark = FALSE]
                    [] command = "READ"   -> [chip EXCEPT !.op = "read", !.row = row, !.fail = "none"]
                    [] command \in {"erase", "program"} ->
                          IF ~chip.wel THEN chip
                          ELSE IF chip.locked THEN [chip EXCEPT !.fail = command, !.wel = FALSE]
                          ELSE [chip EXCEPT !.op = command, !.row = row, !.fail = "none"]
       /\ UNCHANGED content

(* A transfer that succeeds, and one that fails before or after the chip. *)
Sent(command, row, data) == Receive(command, row, data) /\ UNCHANGED faults

Trouble(kind) ==
    /\ faults["bus"] + faults["erase"] + faults["program"] < MaxFaults
    /\ faults' = [faults EXCEPT ![kind] = @ + 1]

Lost(command, row, data) ==
    /\ Trouble("bus")
    /\ Receive(command, row, data) \/ UNCHANGED <<chip, content>>

Reset == Sent("RESET", 0, Blank)
ResetLost == Lost("RESET", 0, Blank)

(* The status register cannot be read, or OIP is still set at the timeout. *)
StatusLost == Trouble("bus") /\ UNCHANGED <<chip, content>>

(* The chip finishes the operation in progress. *)
ReadDone ==
    /\ chip.op = "read"
    /\ chip' = [chip EXCEPT !.op = "none", !.cache = content[chip.row], !.mark = chip.row \in Marked]
    /\ UNCHANGED <<content, faults>>

EraseDone ==
    /\ chip.op = "erase"
    /\ \/ /\ content' = [p \in Pages |-> IF BlockOf(p) = chip.row THEN Blank ELSE content[p]]
          /\ chip' = [chip EXCEPT !.op = "none", !.wel = FALSE]
          /\ UNCHANGED faults
       \/ /\ Trouble("erase")
          /\ content' = Aborted
          /\ chip' = [chip EXCEPT !.op = "none", !.wel = FALSE, !.fail = "erase"]

ProgramDone ==
    /\ chip.op = "program"
    /\ \/ /\ \E c \in Programmed(content[chip.row], chip.cache) :
                content' = [content EXCEPT ![chip.row] = c]
          /\ chip' = [chip EXCEPT !.op = "none", !.wel = FALSE]
          /\ UNCHANGED faults
       \/ /\ Trouble("program")
          /\ content' = Aborted
          /\ chip' = [chip EXCEPT !.op = "none", !.wel = FALSE, !.fail = "program"]

ChipDone == ReadDone \/ EraseDone \/ ProgramDone

====
