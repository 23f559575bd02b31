---- MODULE Ch341NandProgram ----
(***************************************************************************)
(* src/program/spi-nand/ch341-nand-program.c: erase the blocks the image   *)
(* needs, program each page and read it back, then verify the whole image. *)
(* It gives up at the first failure.  program_page loads the cache         *)
(* register and never sends PROGRAM EXECUTE.                               *)
(***************************************************************************)
EXTENDS RawNand

CONSTANT
    ImagePages  \* image_page_count of the image file

(* The image fits the chip. *)
ImageFits == ImagePages \in 1 .. NBlocks * PagesPerBlock

VARIABLES
    pc, stage, at,
    stop,       \* g_ctrl_c
    result,     \* result
    exit        \* the exit code

vars == <<content, chip, faults, pc, stage, at, stop, result, exit>>

Stages == {"gate", "erase", "select", "program", "readback", "verify"}
Labels == {"start", "opened", "id", "status", "resetting", "head", "wren", "execute", "wait",
           "fetch", "compare", "disable", "undo", "cleanup", "reset", "exited"}

Init ==
    /\ ChipInit
    /\ pc = "start" /\ stage = "gate" /\ at = 0
    /\ stop = FALSE /\ result = 1 /\ exit = -1

image_block_count == (ImagePages + PagesPerBlock - 1) \div PagesPerBlock

Goto(label) == pc' = label /\ UNCHANGED <<stage, at, result>>
Enter(label, newStage, first) == pc' = label /\ stage' = newStage /\ at' = first /\ UNCHANGED result
Quiet == UNCHANGED <<stop, exit>>
Local == UNCHANGED device /\ Quiet

(* A call failed: wmain looks at g_ctrl_c to choose the result. *)
Finish(code) == pc' = "cleanup" /\ result' = code /\ UNCHANGED <<stage, at>>
Fail == Finish(IF stop THEN 130 ELSE IF stage = "verify" THEN 2 ELSE 1)

(* load_image and the opening of the device come first. *)
Start ==
    /\ pc = "start"
    /\ \/ Goto("exited") /\ exit' = 1
       \/ Goto("opened") /\ UNCHANGED exit
    /\ UNCHANGED <<device, stop>>

InitialReset ==
    /\ pc = "opened"
    /\ \/ stop /\ Finish(130) /\ UNCHANGED device
       \/ ~stop /\ Goto("id") /\ Reset
       \/ ~stop /\ Finish(1) /\ ResetLost
    /\ Quiet

(* read_id warns of another chip and goes on. *)
read_id ==
    /\ pc = "id"
    /\ \/ stop /\ Finish(130) /\ UNCHANGED device
       \/ ~stop /\ Goto("status") /\ UNCHANGED device
       \/ ~stop /\ Finish(1) /\ StatusLost
    /\ Quiet

(* The chip may not have finished its RESET. *)
ReadStatus ==
    /\ pc = "status"
    /\ \/ stop /\ Finish(130) /\ UNCHANGED device
       \/ ~stop /\ Enter("head", "erase", 0) /\ UNCHANGED device
       \/ ~stop /\ Goto("resetting") /\ UNCHANGED device
       \/ ~stop /\ Finish(1) /\ StatusLost
    /\ Quiet

(* A wait that Ctrl-C ends is a failure; after one that does not, the next *)
(* look at g_ctrl_c is that of erase_image_area.                           *)
WaitReset ==
    /\ pc = "resetting"
    /\ \/ Enter("head", "erase", 0) /\ UNCHANGED device
       \/ stop /\ Finish(1) /\ UNCHANGED device
       \/ StatusLost /\ Finish(1)
    /\ Quiet

erase_image_area ==
    /\ pc = "head" /\ stage = "erase"
    /\ \/ at = image_block_count /\ Enter("head", "select", 0)
       \/ at < image_block_count /\ stop /\ Finish(130)
       \/ at < image_block_count /\ ~stop /\ Goto("wren")
    /\ Local

(* Each page is read, loaded and read back. *)
program_image ==
    /\ pc = "head" /\ stage = "select"
    /\ \/ at = ImagePages /\ Enter("head", "verify", 0)
       \/ at < ImagePages /\ stop /\ Finish(130)
       \/ at < ImagePages /\ ~stop /\ Goto("fetch")
    /\ Local

verify_image ==
    /\ pc = "head" /\ stage = "verify"
    /\ \/ at = ImagePages /\ Finish(0)
       \/ at < ImagePages /\ stop /\ Finish(130)
       \/ at < ImagePages /\ ~stop /\ Goto("fetch")
    /\ Local

write_enable ==
    /\ pc = "wren"
    /\ \/ Sent("WREN", 0, Blank) /\ (IF chip'.wel THEN Goto("execute") ELSE Fail)
       \/ Lost("WREN", 0, Blank) /\ Fail
    /\ Quiet

erase_block ==
    /\ pc = "execute" /\ stage = "erase"
    /\ \/ Sent("erase", at, Blank) /\ Goto("wait")
       \/ Lost("erase", at, Blank) /\ Goto("undo")
    /\ Quiet

program_page ==
    /\ pc = "execute" /\ stage = "program"
    /\ \/ Sent("LOAD", at, Image[at]) /\ Goto("wait")
       \/ Lost("LOAD", at, Image[at]) /\ Goto("undo")
    /\ Quiet

(* The status is read before g_ctrl_c. *)
wait_ready ==
    /\ pc = "wait"
    /\ \/ StatusLost /\ Goto("undo")
       \/ ~Idle /\ stop /\ Goto("undo") /\ UNCHANGED device
       \/ Idle /\ Goto("disable") /\ UNCHANGED device
    /\ Quiet

(* WRITE DISABLE after every operation, whatever became of it. *)
write_disable ==
    /\ pc \in {"disable", "undo"}
    /\ Sent("WRDI", 0, Blank) \/ Lost("WRDI", 0, Blank)
    /\ CASE pc = "undo"        -> Fail
         [] chip.fail = stage  -> Fail
         [] stage = "erase"    -> Enter("head", "erase", at + 1)
         [] stage = "program"  -> Enter("fetch", "readback", at)
    /\ Quiet

page_read ==
    /\ pc = "fetch"
    /\ \/ Sent("READ", at, Blank) /\ Goto("compare")
       \/ Lost("READ", at, Blank) /\ Fail
    /\ Quiet

(* Junk is an uncorrectable page, which page_read rejects as well. *)
program_and_verify_page ==
    /\ pc = "compare"
    /\ \/ StatusLost /\ Fail
       \/ ~Idle /\ stop /\ Fail /\ UNCHANGED device
       \/ /\ Idle /\ UNCHANGED device
          /\ CASE stage = "select" /\ chip.cache # Junk              -> Enter("wren", "program", at)
               [] stage = "readback" /\ chip.cache = Image[at]       -> Enter("head", "select", at + 1)
               [] stage = "verify" /\ chip.cache = Image[at]         -> Enter("head", "verify", at + 1)
               [] OTHER                                              -> Fail
    /\ Quiet

(* "wait for the NAND to finish": wait_ready gives up at once after Ctrl-C. *)
CleanupWait ==
    /\ pc = "cleanup"
    /\ \/ Idle /\ UNCHANGED device
       \/ ~Idle /\ stop /\ UNCHANGED device
       \/ StatusLost
    /\ Goto("reset")
    /\ Quiet

cleanup ==
    /\ pc = "reset"
    /\ Reset \/ ResetLost
    /\ Goto("exited")
    /\ exit' = result
    /\ UNCHANGED <<stop>>

console_handler ==
    /\ ~stop /\ pc # "exited"
    /\ stop' = TRUE
    /\ UNCHANGED <<device, pc, stage, at, result, exit>>

Tool ==
    \/ Start \/ InitialReset \/ read_id \/ ReadStatus \/ WaitReset
    \/ erase_image_area \/ program_image \/ verify_image
    \/ write_enable \/ erase_block \/ program_page \/ wait_ready \/ write_disable
    \/ page_read \/ program_and_verify_page \/ CleanupWait \/ cleanup

Chip ==
    /\ ChipDone
    /\ UNCHANGED <<pc, stage, at, stop, result, exit>>

Next == Tool \/ Chip \/ console_handler

Spec == Init /\ [][Next]_vars

(* A run that has begun to erase, that nothing went wrong in and that nobody *)
(* stopped, on a chip that is not locked, has written the image ("4. Program  *)
(* image page-by-page", the header of the file).                            *)
CleanRunWrites ==
    (/\ exit >= 0 /\ stage # "gate" /\ ~stop /\ ~chip.locked
     /\ \A k \in Kinds : faults[k] = 0)
        => \A p \in 0 .. ImagePages - 1 : content[p] = Image[p]

====
