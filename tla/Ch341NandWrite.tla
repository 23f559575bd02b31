---- MODULE Ch341NandWrite ----
(***************************************************************************)
(* src/program/spi-nand/ch341-nand-write.c: save A0, unlock the chip,      *)
(* erase all blocks, program all pages, put A0 back.  It does not look at  *)
(* the ID nor at the factory marks and, as built, does not read anything   *)
(* back.  wait_ready ignores Ctrl-C, so that the chip is idle when cleanup *)
(* resets it.                                                              *)
(***************************************************************************)
EXTENDS RawNand

CONSTANT
    Retries     \* ERASE_RETRIES and PROGRAM_RETRIES

ASSUME WriteAssumption == Retries \in Nat \ {0}

VARIABLES
    pc, stage, at, attempt,
    saved,      \* original_protection, once it is valid
    failed,     \* failed_erase_blocks and failed_program_pages
    stop,       \* stop_requested
    exit        \* the exit code

vars == <<content, chip, faults, pc, stage, at, attempt, saved, failed, stop, exit>>

Stages == {"gate", "erase", "program", "done"}
Labels == {"start", "reset", "id", "save", "clear", "unlock", "head", "try", "begin", "wren",
           "load", "armed", "execute", "wait", "disable", "restore", "leave", "exited"}

Init ==
    /\ ChipInit
    /\ pc = "start" /\ stage = "gate" /\ at = 0 /\ attempt = 0
    /\ saved = "none"
    /\ failed = [l \in {"erase", "program"} |-> {}]
    /\ stop = FALSE /\ exit = -1

(* The image fills the chip. *)
required_pages == NBlocks * PagesPerBlock
required_blocks == (required_pages + PagesPerBlock - 1) \div PagesPerBlock
Required == IF stage = "erase" THEN required_blocks ELSE required_pages

abort_requested == stop

Goto(label) == pc' = label /\ UNCHANGED <<stage, at, attempt>>
Enter(label, newStage, first) == pc' = label /\ stage' = newStage /\ at' = first /\ attempt' = 0
Quiet == UNCHANGED <<saved, failed, stop, exit>>
Local == UNCHANGED device /\ Quiet

(* load_bin and the opening of the device come first. *)
Start ==
    /\ pc = "start"
    /\ \/ Goto("exited") /\ exit' \in {1} \cup (IF stop THEN {130} ELSE {})
       \/ Goto("reset") /\ UNCHANGED exit
    /\ UNCHANGED <<device, saved, failed, stop>>

InitialReset ==
    /\ pc = "reset"
    /\ \/ Goto("id") /\ Reset
       \/ Goto("disable") /\ ResetLost
    /\ Quiet

(* read_id shows the ID and never rejects it. *)
read_id ==
    /\ pc = "id"
    /\ \/ Goto("save") /\ UNCHANGED device
       \/ Goto("disable") /\ StatusLost
    /\ Quiet

save_configuration ==
    /\ pc = "save"
    /\ \/ /\ saved' = (IF chip.locked THEN "LOCK" ELSE "UNLOCK")
          /\ Goto("clear")
          /\ UNCHANGED device
       \/ /\ Goto("disable") /\ StatusLost
          /\ UNCHANGED saved
    /\ UNCHANGED <<failed, stop, exit>>

(* The item is given up and the loop goes on. *)
NextItem == Enter("head", stage, at + 1)
GiveUp ==
    /\ failed' = [failed EXCEPT ![stage] = @ \cup {at}]
    /\ NextItem
    /\ UNCHANGED <<saved, stop, exit>>
NextAttempt == pc' = "try" /\ attempt' = attempt + 1 /\ UNCHANGED <<stage, at>> /\ Quiet

(* clear_protection is called before the first erase and by every retry. *)
ClearFailed == IF stage = "gate" THEN Goto("disable") /\ Quiet ELSE GiveUp
ClearDone == (IF stage = "gate" THEN Enter("head", "erase", 0) ELSE Goto("begin")) /\ Quiet

clear_protection ==
    /\ pc = "clear"
    /\ \/ StatusLost /\ ClearFailed
       \/ ~chip.locked /\ ClearDone /\ UNCHANGED device
       \/ chip.locked /\ Goto("unlock") /\ Local

ClearRegister ==
    /\ pc = "unlock"
    /\ \/ Sent("UNLOCK", 0, Blank) /\ (IF chip'.locked THEN ClearFailed ELSE ClearDone)
       \/ Lost("UNLOCK", 0, Blank) /\ ClearFailed

(* The two loops of wmain. *)
MainLoop ==
    /\ pc = "head"
    /\ \/ at = Required /\ stage = "erase" /\ Enter("head", "program", 0)
       \/ at = Required /\ stage = "program" /\ Enter("disable", "done", 0)
       \/ at < Required /\ abort_requested /\ Goto("disable")
       \/ at < Required /\ ~abort_requested /\ Enter("try", stage, at)
    /\ Local

(* erase_block or program_page: no retry after Ctrl-C, a RESET before each. *)
TryAgain(operation) ==
    /\ pc = "try" /\ stage = operation
    /\ \/ attempt = Retries /\ GiveUp /\ UNCHANGED device
       \/ attempt < Retries /\ abort_requested /\ Goto("disable") /\ Local
       \/ attempt = 0 /\ ~abort_requested /\ Goto("begin") /\ Local
       \/ /\ attempt \in 1 .. Retries - 1 /\ ~abort_requested
          /\ \/ Reset /\ Goto("clear") /\ Quiet
             \/ ResetLost /\ GiveUp

erase_block == TryAgain("erase")
program_page == TryAgain("program")

(* erase_block does not tell a stop from a failed attempt; program_page does. *)
BeginErase ==
    /\ pc = "begin" /\ stage = "erase"
    /\ IF abort_requested THEN NextAttempt ELSE Goto("wren") /\ Quiet
    /\ UNCHANGED device

BeginProgram ==
    /\ pc = "begin" /\ stage = "program"
    /\ Goto(IF abort_requested THEN "disable" ELSE "wren")
    /\ Local

write_enable ==
    /\ pc = "wren"
    /\ \/ abort_requested /\ NextAttempt /\ UNCHANGED device
       \/ /\ ~abort_requested /\ Sent("WREN", 0, Blank)
          /\ IF chip'.wel THEN Goto(IF stage = "erase" THEN "execute" ELSE "load") /\ Quiet
             ELSE NextAttempt
       \/ ~abort_requested /\ Lost("WREN", 0, Blank) /\ NextAttempt

program_load ==
    /\ pc = "load"
    /\ \/ Sent("LOAD", at, Image[at]) /\ Goto("armed") /\ Quiet
       \/ Lost("LOAD", at, Image[at]) /\ NextAttempt

(* No PROGRAM EXECUTE once the stop is seen. *)
CheckAgain ==
    /\ pc = "armed"
    /\ Goto(IF abort_requested THEN "disable" ELSE "execute")
    /\ Local

Execute(command) ==
    /\ pc = "execute" /\ stage = command
    /\ \/ Sent(command, at, Blank) /\ pc' = "wait" /\ UNCHANGED attempt
       \/ Lost(command, at, Blank) /\ pc' = "try" /\ attempt' = attempt + 1
    /\ UNCHANGED <<stage, at, saved, failed, stop, exit>>

erase_block_once == Execute("erase")
program_page_once == Execute("program")

\* Mutants: Ctrl-C ends the wait; E_FAIL and P_FAIL are not tested.
wait_until_stop ==
    /\ pc = "wait"
    /\ \/ stop /\ NextAttempt /\ UNCHANGED device
       \/ ~stop /\ StatusLost /\ NextAttempt
       \/ ~stop /\ Idle /\ chip.fail = stage /\ NextAttempt /\ UNCHANGED device
       \/ ~stop /\ Idle /\ chip.fail # stage /\ NextItem /\ Local
wait_only ==
    /\ pc = "wait"
    /\ \/ StatusLost /\ NextAttempt
       \/ Idle /\ NextItem /\ Local

(* Ctrl-C does not interrupt the wait. *)
wait_ready ==
    /\ pc = "wait"
    /\ \/ StatusLost /\ NextAttempt
       \/ Idle /\ chip.fail = stage /\ NextAttempt /\ UNCHANGED device
       \/ Idle /\ chip.fail # stage /\ NextItem /\ Local

\* Mutant: after Ctrl-C A0 is left as it is.
disable_and_leave ==
    /\ pc = "disable"
    /\ Sent("WRDI", 0, Blank) \/ Lost("WRDI", 0, Blank)
    /\ Goto(IF saved = "none" \/ stop THEN "leave" ELSE "restore")
    /\ Quiet

(* cleanup: WRITE DISABLE, A0 as it was, RESET. *)
write_disable ==
    /\ pc = "disable"
    /\ Sent("WRDI", 0, Blank) \/ Lost("WRDI", 0, Blank)
    /\ Goto(IF saved = "none" THEN "leave" ELSE "restore")
    /\ Quiet

restore_configuration ==
    /\ pc = "restore"
    /\ Sent(saved, 0, Blank) \/ Lost(saved, 0, Blank)
    /\ Goto("leave")
    /\ Quiet

Result ==
    IF stage = "done" THEN (IF failed["erase"] \cup failed["program"] # {} THEN 2 ELSE 0)
    ELSE IF abort_requested THEN 130 ELSE 1

cleanup ==
    /\ pc = "leave"
    /\ Reset \/ ResetLost
    /\ Goto("exited")
    /\ exit' = Result
    /\ UNCHANGED <<saved, failed, stop>>

console_ctrl_handler ==
    /\ ~stop /\ pc # "exited"
    /\ stop' = TRUE
    /\ UNCHANGED <<device, pc, stage, at, attempt, saved, failed, exit>>

Tool ==
    \/ Start \/ InitialReset \/ read_id \/ save_configuration
    \/ clear_protection \/ ClearRegister \/ MainLoop
    \/ erase_block \/ program_page \/ BeginErase \/ BeginProgram \/ write_enable
    \/ program_load \/ CheckAgain \/ erase_block_once \/ program_page_once \/ wait_ready
    \/ write_disable \/ restore_configuration \/ cleanup

Chip ==
    /\ ChipDone
    /\ UNCHANGED <<pc, stage, at, attempt, saved, failed, stop, exit>>

Next == Tool \/ Chip \/ console_ctrl_handler

Spec == Init /\ [][Next]_vars

(* Every variable holds a value of its kind. *)
TypeOK ==
    /\ ChipType
    /\ pc \in Labels /\ stage \in Stages
    /\ at \in 0 .. NBlocks * PagesPerBlock
    /\ attempt \in 0 .. Retries
    /\ saved \in {"none", "LOCK", "UNLOCK"}
    /\ failed \in [{"erase", "program"} -> SUBSET (Blocks \cup Pages)]
    /\ stop \in BOOLEAN /\ exit \in {-1, 0, 1, 2, 130}

(* Ctrl-C never makes the tool reset a chip that is erasing or programming   *)
(* ("At this point all active NAND operations should already have            *)
(* completed", cleanup): only a lost reply can, by a retry.                  *)
NeverCutShort == chip.cut => faults["bus"] > 0

(* However the run ends, A0 is what it was ("Restores original A0/B0        *)
(* configuration"), unless a transfer failed.                               *)
ProtectionRestored ==
    (pc = "exited" /\ saved # "none" /\ faults["bus"] = 0) => (chip.locked <=> saved = "LOCK")

(* Exit code 0 means that the image is on the chip, also when erases had to *)
(* be retried.  Nothing is read back: a lost reply, or a page programmed a  *)
(* second time, can make it untrue.                                         *)
SuccessIsWritten ==
    (exit = 0 /\ faults["bus"] + faults["program"] = 0) =>
        \A p \in Pages : content[p] = Image[p]

====
