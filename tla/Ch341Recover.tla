---- MODULE Ch341Recover ----
(***************************************************************************)
(* src/program/spi-nand/ch341-recover.c: identify the chip, scan the       *)
(* factory bad blocks, erase the good blocks, program and verify every     *)
(* page, verify all of them again.  The console handler runs in a thread   *)
(* of its own and sets stop at any time; the tool reads it where the code  *)
(* calls abort_requested.                                                  *)
(*                                                                         *)
(* pc is the call in progress, stage the loop of wmain it is made from     *)
(* ("now" and "final" are the two verifications), at the block or page of  *)
(* that loop and attempt the turn of the retry loop.                       *)
(***************************************************************************)
EXTENDS RawNand

CONSTANTS
    IdTests,        \* ID_TEST_COUNT
    Retries,        \* ERASE_RETRIES and PROGRAM_RETRIES
    VerifyRetries   \* VERIFY_RETRIES

ASSUME RetriesAssumption ==
    /\ IdTests \in Nat \ {0}
    /\ Retries \in Nat \ {0}
    /\ VerifyRetries \in Nat \ {0}

VARIABLES
    pc, stage, at, attempt,
    correct,    \* ID reads that matched
    bad,        \* factory_bad_blocks
    failed,     \* the failed_..._blocks and failed_..._pages arrays
    stop,       \* stop_requested
    late,       \* erase and program commands sent after the stop
    exit        \* the exit code

vars == <<content, chip, faults, pc, stage, at, attempt, correct, bad, failed, stop, late, exit>>

Lists == {"erase", "program", "now", "final"}
Stages == {"gate", "done"} \cup Lists
Labels == {"start", "id", "scan", "mark", "clear", "unlock", "unlocking", "check", "head", "try",
           "wren", "load", "execute", "wait", "fetch", "compare", "finish", "cleanup", "reset", "exited"}
MaxAttempt == IF Retries >= VerifyRetries THEN Retries ELSE VerifyRetries

Init ==
    /\ ChipInit
    /\ pc = "start" /\ stage = "gate" /\ at = 0 /\ attempt = 0 /\ correct = 0
    /\ bad = {}
    /\ failed = [l \in Lists |-> {}]
    /\ stop = FALSE /\ late = 0 /\ exit = -1

\* Mutant: the flag set by the handler thread is not seen.
abort_unseen == FALSE

abort_requested == stop

Goto(label) == pc' = label /\ UNCHANGED <<stage, at, attempt>>
Enter(label, newStage, first) == pc' = label /\ stage' = newStage /\ at' = first /\ attempt' = 0
Quiet == UNCHANGED <<correct, bad, failed, stop, late, exit>>
Local == UNCHANGED device /\ Quiet

(* wmain up to the first RESET: the image or the device may be missing. *)
Start ==
    /\ pc = "start"
    /\ \/ Goto("exited") /\ exit' = 1 /\ UNCHANGED <<device, correct, bad, failed, stop, late>>
       \/ Goto("id") /\ Reset /\ Quiet
       \/ Goto("cleanup") /\ ResetLost /\ Quiet

\* Mutant: one good read of the ID is enough.
diagnostic_read_once ==
    /\ pc = "id"
    /\ \/ /\ attempt < IdTests /\ abort_requested
          /\ Goto("cleanup") /\ Local
       \/ /\ attempt < IdTests /\ ~abort_requested
          /\ attempt' = attempt + 1
          /\ \/ Reset /\ correct' = (IF chip.right THEN correct + 1 ELSE correct)
             \/ ResetLost /\ UNCHANGED correct
          /\ UNCHANGED <<pc, stage, at, bad, failed, stop, late, exit>>
       \/ /\ attempt = IdTests
          /\ IF correct > 0 THEN Enter("scan", "gate", 0) ELSE Goto("cleanup")
          /\ Local

(* diagnostic_read_id: each test resets the chip and reads the ID. *)
diagnostic_read_id ==
    /\ pc = "id"
    /\ \/ /\ attempt < IdTests /\ abort_requested
          /\ Goto("cleanup") /\ Local
       \/ /\ attempt < IdTests /\ ~abort_requested
          /\ attempt' = attempt + 1
          /\ \/ Reset /\ correct' = (IF chip.right THEN correct + 1 ELSE correct)
             \/ ResetLost /\ UNCHANGED correct
             \/ Trouble("bus") /\ Receive("RESET", 0, Blank) /\ UNCHANGED correct
          /\ UNCHANGED <<pc, stage, at, bad, failed, stop, late, exit>>
       \/ /\ attempt = IdTests
          /\ IF correct = IdTests THEN Enter("scan", "gate", 0) ELSE Goto("cleanup")
          /\ Local

(* scan_factory_bad_blocks: the markers of pages 0 and 1 of every block. *)
scan_factory_bad_blocks ==
    /\ pc = "scan"
    /\ \/ at = NBlocks /\ Enter("clear", "gate", 0) /\ Local
       \/ /\ at < NBlocks /\ attempt = 0 /\ abort_requested
          /\ Goto("cleanup") /\ Local
       \/ /\ at < NBlocks /\ ~(attempt = 0 /\ abort_requested)
          /\ LET page == at * PagesPerBlock + attempt
             IN \/ Goto("mark") /\ Sent("READ", page, Blank)
                \/ Goto("cleanup") /\ Lost("READ", page, Blank)
          /\ Quiet

\* Mutant: the marker of page 1 is not looked at.
check_first_page ==
    /\ pc = "mark"
    /\ ~abort_requested /\ Idle
    /\ bad' = (IF chip.mark /\ attempt = 0 THEN bad \cup {at} ELSE bad)
    /\ pc' = "scan"
    /\ at' = at + attempt
    /\ attempt' = 1 - attempt
    /\ UNCHANGED <<device, stage, correct, failed, stop, late, exit>>

check_factory_bad_block ==
    /\ pc = "mark"
    /\ \/ abort_requested /\ Goto("cleanup") /\ Local
       \/ ~abort_requested /\ Goto("cleanup") /\ StatusLost /\ Quiet
       \/ /\ ~abort_requested /\ Idle
          /\ bad' = (IF chip.mark THEN bad \cup {at} ELSE bad)
          /\ pc' = "scan"
          /\ at' = at + attempt
          /\ attempt' = 1 - attempt
          /\ UNCHANGED <<device, stage, correct, failed, stop, late, exit>>

(* clear_protection, whose failure counts only before the first erase. *)
ClearFailed == Goto(IF stage = "gate" THEN "cleanup" ELSE "wren")
ClearDone == Goto(IF stage = "gate" THEN "check" ELSE "wren")

write_enable(done, error) ==
    \/ abort_requested /\ error /\ Local
    \/ /\ ~abort_requested /\ Sent("WREN", 0, Blank) /\ Quiet
       /\ IF chip'.wel THEN done ELSE error
    \/ ~abort_requested /\ Lost("WREN", 0, Blank) /\ error /\ Quiet

clear_protection ==
    /\ pc = "clear"
    /\ \/ StatusLost /\ ClearFailed /\ Quiet
       \/ ~chip.locked /\ ClearDone /\ Local
       \/ chip.locked /\ write_enable(Goto("unlock"), ClearFailed)

ClearRegister ==
    /\ pc = "unlock"
    /\ \/ Sent("UNLOCK", 0, Blank) /\ Goto("unlocking")
       \/ Lost("UNLOCK", 0, Blank) /\ ClearFailed
    /\ Quiet

ReadBack ==
    /\ pc = "unlocking"
    /\ \/ abort_requested /\ ClearFailed /\ Local
       \/ ~abort_requested /\ StatusLost /\ ClearFailed /\ Quiet
       \/ ~abort_requested /\ Idle /\ (IF chip.locked THEN ClearFailed ELSE ClearDone) /\ Local

(* wmain reads A0 once more before it erases anything. *)
VerifyProtection ==
    /\ pc = "check"
    /\ \/ StatusLost /\ Goto("cleanup") /\ Quiet
       \/ chip.locked /\ Goto("cleanup") /\ Local
       \/ ~chip.locked /\ Enter("head", "erase", 0) /\ Local

(* The loops of wmain over the blocks and, twice, over the pages. *)
EraseStage ==
    /\ pc = "head" /\ stage = "erase"
    /\ \/ at = NBlocks /\ Enter("head", "program", 0)
       \/ at < NBlocks /\ abort_requested /\ Goto("cleanup")
       \/ at < NBlocks /\ ~abort_requested /\ at \in bad /\ Enter("head", "erase", at + 1)
       \/ at < NBlocks /\ ~abort_requested /\ at \notin bad /\ Enter("try", "erase", at)
    /\ Local

ProgramStage ==
    /\ pc = "head" /\ stage = "program"
    /\ \/ at \notin Pages /\ Enter("head", "final", 0)
       \/ at \in Pages /\ abort_requested /\ Goto("cleanup")
       \/ at \in Pages /\ ~abort_requested /\ BlockOf(at) \in bad /\ Enter("head", "program", at + 1)
       \/ at \in Pages /\ ~abort_requested /\ BlockOf(at) \notin bad /\ Enter("try", "program", at)
    /\ Local

FinalStage ==
    /\ pc = "head" /\ stage = "final"
    /\ \/ at \notin Pages /\ Enter("finish", "done", 0)
       \/ at \in Pages /\ abort_requested /\ Goto("cleanup")
       \/ at \in Pages /\ ~abort_requested /\ BlockOf(at) \in bad /\ Enter("head", "final", at + 1)
       \/ at \in Pages /\ ~abort_requested /\ BlockOf(at) \notin bad /\ Enter("try", "final", at)
    /\ Local

(* The loop goes on with the next block or page, whatever became of this. *)
NextItem == Enter("head", IF stage = "now" THEN "program" ELSE stage, at + 1)
GiveUp ==
    /\ failed' = [failed EXCEPT ![stage] = @ \cup {at}]
    /\ NextItem
    /\ UNCHANGED <<device, correct, bad, stop, late, exit>>

\* Mutant: a failed attempt is not counted.
SameAttempt == pc' = "try" /\ UNCHANGED <<stage, at, attempt>>

NextAttempt == pc' = "try" /\ attempt' = attempt + 1 /\ UNCHANGED <<stage, at>>

(* A retry resets the chip and unlocks it, whatever these calls return. *)
erase_block ==
    /\ pc = "try" /\ stage = "erase"
    /\ \/ attempt = Retries /\ GiveUp
       \/ attempt < Retries /\ abort_requested /\ Goto("cleanup") /\ Local
       \/ attempt = 0 /\ ~abort_requested /\ Goto("wren") /\ Local
       \/ attempt \in 1 .. Retries - 1 /\ ~abort_requested /\ Goto("clear") /\ (Reset \/ ResetLost) /\ Quiet

\* Mutant: a retry does not unlock the chip again.
ProgramStillLocked ==
    /\ pc = "try" /\ stage = "program"
    /\ \/ attempt = Retries /\ GiveUp
       \/ attempt < Retries /\ abort_requested /\ Goto("cleanup") /\ Local
       \/ attempt = 0 /\ ~abort_requested /\ Goto("wren") /\ Local
       \/ attempt \in 1 .. Retries - 1 /\ ~abort_requested /\ Goto("wren") /\ (Reset \/ ResetLost) /\ Quiet

program_page ==
    /\ pc = "try" /\ stage = "program"
    /\ \/ attempt = Retries /\ GiveUp
       \/ attempt < Retries /\ abort_requested /\ Goto("cleanup") /\ Local
       \/ attempt = 0 /\ ~abort_requested /\ Goto("wren") /\ Local
       \/ attempt \in 1 .. Retries - 1 /\ ~abort_requested /\ Goto("clear") /\ (Reset \/ ResetLost) /\ Quiet

EnableWrite ==
    /\ pc = "wren"
    /\ write_enable(Goto(IF stage = "erase" THEN "execute" ELSE "load"), NextAttempt)

program_load ==
    /\ pc = "load"
    /\ \/ Sent("LOAD", at, Image[at]) /\ Goto("execute")
       \/ Lost("LOAD", at, Image[at]) /\ NextAttempt
    /\ Quiet

(* The command that changes the array, sent by erase_block_once or program_page_once. *)
Execute(command) ==
    /\ pc = "execute" /\ stage = command
    /\ \/ Sent(command, at, Blank) /\ Goto("wait")
       \/ Lost(command, at, Blank) /\ NextAttempt
    /\ late' = (IF stop THEN late + 1 ELSE late)
    /\ UNCHANGED <<correct, bad, failed, stop, exit>>

erase_block_once == Execute("erase")
program_page_once == Execute("program")

wait_ready ==
    /\ pc = "wait"
    /\ \/ abort_requested /\ NextAttempt /\ Local
       \/ ~abort_requested /\ StatusLost /\ NextAttempt /\ Quiet
       \/ ~abort_requested /\ Idle /\ chip.fail = stage /\ NextAttempt /\ Local
       \/ /\ ~abort_requested /\ Idle /\ chip.fail # stage
          /\ IF stage = "erase" THEN NextItem ELSE Enter("try", "now", at)
          /\ Local

(* verify_page: a page is read at most VerifyRetries times. *)
verify_page ==
    /\ pc = "try" /\ stage \in {"now", "final"}
    /\ \/ attempt = VerifyRetries /\ GiveUp
       \/ attempt < VerifyRetries /\ abort_requested /\ Goto("cleanup") /\ Local
       \/ attempt = 0 /\ ~abort_requested /\ Goto("fetch") /\ Local
       \/ attempt \in 1 .. VerifyRetries - 1 /\ ~abort_requested /\ Goto("fetch") /\ (Reset \/ ResetLost) /\ Quiet

page_read ==
    /\ pc = "fetch"
    /\ \/ Sent("READ", at, Blank) /\ Goto("compare")
       \/ Lost("READ", at, Blank) /\ NextAttempt
    /\ Quiet

\* Mutant: a readable page is taken for the right one.
read_without_compare ==
    /\ pc = "compare"
    /\ \/ abort_requested /\ NextAttempt /\ Local
       \/ ~abort_requested /\ StatusLost /\ NextAttempt /\ Quiet
       \/ /\ ~abort_requested /\ Idle
          /\ IF chip.cache # Junk THEN NextItem ELSE NextAttempt
          /\ Local

read_page_main ==
    /\ pc = "compare"
    /\ \/ abort_requested /\ NextAttempt /\ Local
       \/ ~abort_requested /\ StatusLost /\ NextAttempt /\ Quiet
       \/ /\ ~abort_requested /\ Idle
          /\ IF chip.cache = Image[at] THEN NextItem ELSE NextAttempt
          /\ Local

(* The last RESET, then cleanup and the exit code. *)
FinalReset == pc = "finish" /\ Goto("cleanup") /\ (Reset \/ ResetLost) /\ Quiet

Result ==
    IF stage = "done" THEN (IF \E l \in Lists : failed[l] # {} THEN 2 ELSE 0)
    ELSE IF abort_requested THEN 130 ELSE 1

WriteDisable ==
    /\ pc = "cleanup"
    /\ Sent("WRDI", 0, Blank) \/ Lost("WRDI", 0, Blank)
    /\ Goto("reset")
    /\ Quiet

cleanup ==
    /\ pc = "reset"
    /\ Reset \/ ResetLost
    /\ Goto("exited")
    /\ exit' = Result
    /\ UNCHANGED <<correct, bad, failed, stop, late>>

console_ctrl_handler ==
    /\ ~stop /\ pc # "exited"
    /\ stop' = TRUE
    /\ UNCHANGED <<device, pc, stage, at, attempt, correct, bad, failed, late, exit>>

Tool ==
    \/ Start \/ diagnostic_read_id \/ scan_factory_bad_blocks \/ check_factory_bad_block
    \/ clear_protection \/ ClearRegister \/ ReadBack \/ VerifyProtection
    \/ EraseStage \/ ProgramStage \/ FinalStage
    \/ erase_block \/ program_page \/ EnableWrite \/ program_load \/ erase_block_once
    \/ program_page_once \/ wait_ready \/ verify_page \/ page_read \/ read_page_main
    \/ FinalReset \/ WriteDisable \/ cleanup

Chip ==
    /\ ChipDone
    /\ UNCHANGED <<pc, stage, at, attempt, correct, bad, failed, stop, late, exit>>

Next == Tool \/ Chip \/ console_ctrl_handler

(* The tool runs on and the chip finishes; nothing has to fail and nobody   *)
(* has to press Ctrl-C.                                                     *)
Spec == Init /\ [][Next]_vars /\ WF_vars(Tool /\ UNCHANGED faults) /\ WF_vars(Chip)

(* Every variable holds a value of its kind. *)
TypeOK ==
    /\ ChipType
    /\ pc \in Labels /\ stage \in Stages
    /\ at \in 0 .. NBlocks * PagesPerBlock
    /\ attempt \in 0 .. (IF stage = "gate" THEN IdTests ELSE MaxAttempt)
    /\ correct \in 0 .. IdTests
    /\ bad \subseteq Blocks
    /\ failed \in [Lists -> SUBSET (Blocks \cup Pages)]
    /\ stop \in BOOLEAN /\ late \in Nat /\ exit \in {-1, 0, 1, 2, 130}

(* Whatever fails and whenever Ctrl-C comes, no page of a block with a      *)
(* factory mark changes ("Factory bad blocks must never reach this          *)
(* function", erase_block).                                                 *)
BadUntouched ==
    \A p \in Pages : BlockOf(p) \in FactoryBad => content[p] = Old

(* Nothing is erased before every ID test has passed and every marker has   *)
(* been read right ("NOTHING DESTRUCTIVE BEFORE THIS PASSES", wmain).       *)
GateFirst ==
    (\E p \in Pages : content[p] # Old) => chip.right /\ correct = IdTests /\ bad = FactoryBad

(* A run that reports a result, successful or not, has listed every page of *)
(* a good block that does not hold the image: lost replies, commands that a *)
(* busy chip ignores and a stale cache register do not hide one.            *)
UnlistedIsGood ==
    exit \in {0, 2} =>
        \A p \in Pages :
            \/ BlockOf(p) \in FactoryBad
            \/ p \in failed["program"] \cup failed["now"] \cup failed["final"]
            \/ content[p] = Image[p]

(* After Ctrl-C at most the one command that was already on its way is sent. *)
StopIsPrompt == late <= 1

(* The retries mend a single lost transfer or failed erase, also on a part   *)
(* that comes back locked from the RESET of a verification.  An operation    *)
(* that this RESET has cut short may leave a page that cannot be repaired.   *)
OneTroubleIsMended ==
    (stage = "done" /\ ~stop /\ ~chip.cut /\ faults["program"] = 0 /\ faults["bus"] + faults["erase"] <= 1)
        => \A l \in Lists : failed[l] = {}

(* Every run ends, with Ctrl-C or without: no retry goes on for ever. *)
EveryRunEnds == <>(pc = "exited")

====
