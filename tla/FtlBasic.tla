------------------------------ MODULE FtlBasic ------------------------------
(***************************************************************************)
(* The default FTL of the NAND programmer: flash/nand/core/ftl-basic.c,    *)
(* with the RAM bad block table (bbt-ram.c), the bad marks and the torture *)
(* test (nand.c) below it and the write, read, verify and erase loops of   *)
(* ufsnandprog (program/spi-nand/ufsnand-common.c) above.                  *)
(*                                                                         *)
(* A logical page is found by counting the good blocks of a partition.     *)
(* The file of a request holds, for logical page q, the data "q", so that  *)
(* data names the place where it belongs.                                  *)
(*                                                                         *)
(* The buffer of the torture test (page_cache[0]) is taken to hold a whole *)
(* block.  A chip's page program only clears bits, so that a page that is  *)
(* programmed twice with different data holds neither.                     *)
(***************************************************************************)
EXTENDS Integers, FiniteSets

CONSTANTS
    BlockCount, PagesPerBlock,
    MarkPages,      \* bbm_config.pages: the pages of a block that carry the bad mark
    UsePart,        \* calls name a partition; else they name physical pages
    PartBase, PartBlocks,
    CheckBad,       \* FTL_BASIC_F_DONT_CHECK_BAD is not set
    Overwrite,      \* random_page_write && nops > 1: the torture test writes a pattern
    MapPages,       \* pages of the file mapped at a time
    FactoryBad,     \* blocks that are marked bad when the chip is new
    Worn,           \* blocks on which every page program fails
    Dead,           \* blocks on which every erase fails
    FaultKinds,     \* the operations that may fail on any block
    Calls,          \* the calls that may be made
    MaxFaults       \* bound: failing chip operations

Operations == {"write", "erase", "read", "verify", "markbad", "reprobe"}

CallRecords == [op : Operations, page : Nat, count : Nat, spread : BOOLEAN, tool : BOOLEAN]

ASSUME ChipAssumption ==
    /\ BlockCount \in Nat \ {0} /\ PagesPerBlock \in Nat \ {0}
    /\ MarkPages \subseteq 0 .. PagesPerBlock - 1 /\ MarkPages # {}
    /\ IsFiniteSet(MarkPages)
    /\ PartBase \in Nat /\ PartBlocks \in Nat \ {0}
    /\ PartBase + PartBlocks <= BlockCount

ASSUME CallAssumption ==
    /\ UsePart \in BOOLEAN /\ CheckBad \in BOOLEAN /\ Overwrite \in BOOLEAN
    /\ MapPages \in Nat \ {0} /\ MaxFaults \in Nat
    /\ FaultKinds \subseteq {"program", "erase", "mark", "check", "read"}
    /\ FactoryBad \subseteq 0 .. BlockCount - 1
    /\ Worn \subseteq 0 .. BlockCount - 1 /\ Dead \subseteq 0 .. BlockCount - 1
    /\ Calls \subseteq CallRecords
    \* The tools always name a partition, and only they verify.
    /\ \A r \in Calls : (r.tool => UsePart) /\ (r.op = "verify" => r.tool)

VARIABLES
    \* the chip
    page,       \* the data of every page
    marks,      \* the pages of a block that carry a bad mark
    \* struct nand_bbt_ram
    bbt,        \* the state of every block, probed when first asked for
    \* control
    pc,
    req,        \* what the user asked for
    call,       \* the locals of the FTL call under way
    tx,         \* buf.tx, buf.rx: the page of the file that is next
    file,       \* what a read has stored
    res,        \* what the last call returned
    \* the environment
    faults

vars == <<page, marks, bbt, pc, req, call, tx, file, res, faults>>
chip == <<page, marks>>

-----------------------------------------------------------------------------
(* Data *)

Blocks == 0 .. BlockCount - 1
Pages  == 0 .. PagesPerBlock - 1
Retries == 3        \* FTL_SKB_RETRIES

Blank == -1
Junk  == -2         \* a failed program or erase, a test pattern
Mixed == -3         \* programmed twice
None  == -4         \* nothing was stored here

LogicalPages == 0 .. BlockCount * PagesPerBlock - 1
Contents == Nat \cup {Blank, Junk, Mixed}

BbtStates == {"unknown", "good", "bad", "erased"}

Least(a, b) == IF a < b THEN a ELSE b

\* The block where a call starts to look, and the end of its range.
Base(p) == IF UsePart THEN PartBase ELSE p \div PagesPerBlock
End     == IF UsePart THEN PartBase + PartBlocks ELSE BlockCount

\* The number of usable blocks in front of page p.
Skip(p) == IF UsePart THEN p \div PagesPerBlock ELSE 0

\* validate_virt_part_info
Valid(r) ==
    LET last == IF r.op = "erase"
                THEN ((r.page + r.count + PagesPerBlock - 1) \div PagesPerBlock)
                       * PagesPerBlock
                ELSE r.page + r.count
    IN  IF UsePart
        THEN /\ r.page < PartBlocks * PagesPerBlock
             /\ last <= PartBlocks * PagesPerBlock
        ELSE r.page < BlockCount * PagesPerBlock

-----------------------------------------------------------------------------
(* The chip *)

Fails(operation) ==
    operation \in FaultKinds /\ faults < MaxFaults /\ faults' = faults + 1

Programmed(old, data) == IF old \in {Blank, data} THEN data ELSE Mixed

\* The pages from k0 on, n of them, are programmed with consecutive data, but
\* those in failed are left alone or unreadable.
Program(b, k0, n, data, failed) ==
    \E torn \in SUBSET failed :
        page' = [page EXCEPT ![b] = [k \in Pages |->
                    IF k \notin k0 .. k0 + n - 1 THEN page[b][k]
                    ELSE IF k \in torn THEN Junk
                    ELSE IF k \in failed THEN page[b][k]
                    ELSE Programmed(page[b][k], data + k - k0)]]

ErasedBlock(b) ==
    /\ page' = [page EXCEPT ![b] = [k \in Pages |-> Blank]]
    /\ marks' = [marks EXCEPT ![b] = {}]

EraseOk(b) == b \notin Dead /\ ErasedBlock(b)

EraseFails(b) ==
    /\ \/ b \in Dead /\ UNCHANGED faults
       \/ Fails("erase")
    /\ page' \in {page, [page EXCEPT ![b] = [k \in Pages |-> Junk]]}
    /\ UNCHANGED marks

\* A slip: a block is bad when all its pages are marked.
CheckedAll(b, unread) ==
    IF MarkPages \ unread \subseteq marks[b] THEN "bad" ELSE "good"

\* ufprog_nand_checkbad: the pages in unread cannot be read.
Checked(b, unread) ==
    IF marks[b] \ unread # {} THEN "bad"
    ELSE IF unread = MarkPages THEN "unknown" ELSE "good"

\* bbt_ram_reprobe_block
Probe(b, state) ==
    /\ \/ state = Checked(b, {}) /\ UNCHANGED faults
       \/ \E unread \in SUBSET MarkPages :
             unread # {} /\ state = Checked(b, unread) /\ Fails("check")
    /\ bbt' = [bbt EXCEPT ![b] = state]

\* ufprog_nand_markbad: one page that was marked and read back is enough.
MarkOk(b) ==
    /\ \/ marks' = [marks EXCEPT ![b] = MarkPages] /\ UNCHANGED faults
       \/ /\ Fails("mark")
          /\ \E some \in SUBSET MarkPages :
                some # {} /\ marks' = [marks EXCEPT ![b] = @ \cup some]
    /\ UNCHANGED page

\* No page could be marked, or none that was marked could be read back.
MarkFails(b) ==
    /\ \/ Fails("mark") /\ UNCHANGED marks
       \/ /\ Fails("check")
          /\ \E some \in SUBSET MarkPages : marks' = [marks EXCEPT ![b] = @ \cup some]
    /\ UNCHANGED page

-----------------------------------------------------------------------------
(* Calls of the FTL *)

Locals == [page : Nat, count : Nat, block : Nat, skip : Nat,
           offset : Pages, left : Nat, done : Nat, tries : 0 .. Retries]
NoCall == [page |-> 0, count |-> 0, block |-> 0, skip |-> 0, offset |-> 0,
           left |-> 0, done |-> 0, tries |-> 0]
NoReq  == [op |-> "read", page |-> 0, count |-> 0, spread |-> FALSE, tool |-> FALSE]

\* nand_erase: the blocks that the pages of a request cover.
Covered(r) ==
    ((r.page + r.count + PagesPerBlock - 1) \div PagesPerBlock)
      - (r.page \div PagesPerBlock)

\* ftl_basic_get_block_page starts to count the good blocks, or computes.
Enter(r, p, n) ==
    /\ call' = [page   |-> p,
                count  |-> n,
                block  |-> IF CheckBad THEN Base(p) ELSE Base(p) + Skip(p),
                skip   |-> IF CheckBad THEN Skip(p) ELSE 0,
                offset |-> IF r.op = "erase" THEN 0 ELSE p % PagesPerBlock,
                left   |-> IF r.op = "erase" THEN Covered(r) ELSE n,
                done   |-> 0,
                tries  |-> Retries]
    /\ tx' = p
    /\ pc' = "locate"

\* The tools pass at most the mapped part of the file to the FTL.
Batch(r, left) ==
    IF r.tool /\ r.op # "erase" THEN Least(MapPages, left) ELSE left

Ranged(r) == r.op \in {"write", "erase", "read", "verify"}

Start(r) ==
    /\ pc = "idle"
    /\ Ranged(r) /\ Valid(r) /\ r.count > 0
    /\ Enter(r, r.page, Batch(r, r.count))
    /\ req' = r /\ res' = "none"
    /\ file' = IF r.op = "read" THEN [q \in LogicalPages |-> None] ELSE file
    /\ UNCHANGED <<chip, bbt, faults>>

Rejected(r) ==
    /\ pc = "idle"
    /\ Ranged(r) /\ ~Valid(r)
    /\ req' = r /\ res' = "einval"
    /\ UNCHANGED <<chip, bbt, pc, call, tx, file, faults>>

\* The FTL call returns r.  After a success the tools go on behind what they
\* asked for, whatever the FTL says it has done.
Return(r) ==
    LET next == call.page + call.count
        left == req.page + req.count - next
    IN  /\ IF r = "ok" /\ left > 0
           THEN Enter(req, next, Batch(req, left)) /\ UNCHANGED res
           ELSE pc' = "idle" /\ res' = r /\ UNCHANGED <<call, tx>>
        /\ UNCHANGED req

\* Nothing but the control and the call changes.
Move(c, target) ==
    call' = c /\ pc' = target /\ UNCHANGED <<req, res>>

-----------------------------------------------------------------------------
(* Looking for the next good block *)

\* ftl_basic_is_good_block: the answer for block b.
Look(b, answer) ==
    IF bbt[b] = "unknown"
    THEN \E state \in BbtStates :
            Probe(b, state) /\ answer = state
    ELSE /\ answer = IF bbt[b] = "bad" THEN "bad" ELSE "good"
         /\ UNCHANGED <<bbt, faults>>

Looking == pc \in {"locate", "next"} /\ call.block < End
Counting == pc = "locate" /\ call.skip > 0
Choosing == pc = "next" /\ call.left > 0 /\ call.tries > 0

\* One of the good blocks in front of the range is passed.
PassGood ==
    /\ Looking /\ Counting
    /\ Look(call.block, "good")
    /\ Move([call EXCEPT !.block = @ + 1, !.skip = @ - 1], "locate")
    /\ UNCHANGED <<chip, tx, file>>

\* A slip: a bad block counts as one of the blocks in front of the range.
PassBadCounted ==
    /\ Looking /\ (Counting \/ (Choosing /\ CheckBad))
    /\ Look(call.block, "bad")
    /\ Move([call EXCEPT !.block = @ + 1, !.skip = IF Counting THEN @ - 1 ELSE @], pc)
    /\ UNCHANGED <<chip, tx, file>>

PassBad ==
    /\ Looking /\ (Counting \/ (Choosing /\ CheckBad))
    /\ Look(call.block, "bad")
    /\ Move([call EXCEPT !.block = @ + 1], pc)
    /\ UNCHANGED <<chip, tx, file>>

LookFails ==
    /\ Looking /\ (Counting \/ (Choosing /\ CheckBad))
    /\ Look(call.block, "unknown")
    /\ Return("io")
    /\ UNCHANGED <<chip, file>>

Located ==
    /\ pc = "locate" /\ call.skip = 0
    /\ Move(call, "next")
    /\ UNCHANGED <<chip, bbt, tx, file, faults>>

NoSpace ==
    /\ (Counting \/ Choosing) /\ call.block >= End
    /\ Return("range")
    /\ UNCHANGED <<chip, bbt, file, faults>>

Chosen ==
    /\ Looking /\ Choosing
    /\ IF CheckBad THEN Look(call.block, "good") ELSE UNCHANGED <<bbt, faults>>
    /\ Move(call, "do")
    /\ UNCHANGED <<chip, tx, file>>

\* All is done, or too many blocks have failed in a row.
Ends ==
    /\ pc = "next" /\ (call.left = 0 \/ call.tries = 0)
    /\ Return("ok")
    /\ UNCHANGED <<chip, bbt, file, faults>>

\* A slip: the next block is not written from its start.
AfterKeepsOffset(n) == [call EXCEPT !.done = @ + n, !.left = @ - n,
                                    !.block = @ + 1, !.tries = Retries]
\* The loop goes on behind n pages or blocks.
After(n) == [call EXCEPT !.offset = 0, !.done = @ + n, !.left = @ - n,
                         !.block = @ + 1, !.tries = Retries]

\* The pages of this round of the loop.
Chunk == Least(PagesPerBlock - call.offset, call.left)

-----------------------------------------------------------------------------
(* ftl_basic_write_pages *)

Writing == pc = "do" /\ req.op = "write"

\* The data for this round: the callback of the tool goes through the file,
\* once per attempt; other callers pass a buffer.
Data == IF req.tool THEN tx ELSE call.page + call.done
\* A slip: the callback stays where it is.
TxStays == UNCHANGED tx
TxMoves == tx' = IF req.tool THEN tx + Chunk ELSE tx

WriteOk ==
    /\ Writing /\ call.block \notin Worn
    /\ Program(call.block, call.offset, Chunk, Data, {})
    /\ TxMoves
    /\ Move(After(Chunk), "next")
    /\ UNCHANGED <<marks, bbt, file, faults>>

\* ignore_error: the pages that fail do not count.
WriteIgnored ==
    /\ Writing /\ req.spread
    /\ \E failed \in SUBSET (call.offset .. call.offset + Chunk - 1) :
          /\ failed # {}
          /\ IF call.block \in Worn
             THEN failed = call.offset .. call.offset + Chunk - 1 /\ UNCHANGED faults
             ELSE Fails("program")
          /\ Program(call.block, call.offset, Chunk, Data, failed)
    /\ TxMoves
    /\ Move(After(Chunk), "next")
    /\ UNCHANGED <<marks, bbt, file>>

\* Without it the write stops at the first failure, after k pages.
StopsAfter(k) ==
    /\ Writing /\ ~req.spread
    /\ IF call.block \in Worn THEN k = 0 /\ UNCHANGED faults ELSE Fails("program")
    /\ Program(call.block, call.offset, k + 1, Data, {call.offset + k})
    /\ UNCHANGED <<marks, bbt, file>>

\* The result of the post callback replaces the error.
WriteSwallowed ==
    /\ req.tool
    /\ \E k \in 1 .. Chunk - 1 : StopsAfter(k)
    /\ TxMoves
    /\ Move(After(Chunk), "next")

WriteFails ==
    /\ \E k \in 0 .. Chunk - 1 : StopsAfter(k) /\ (req.tool => k = 0)
    /\ IF call.offset = 0
       THEN TxMoves /\ Move(call, "erase1")
       ELSE Return("io")

-----------------------------------------------------------------------------
(* ftl_basic_erase_blocks *)

Erasing == pc = "do" /\ req.op = "erase"

SetState(b, state) == bbt' = [bbt EXCEPT ![b] = state]

EraseBlock ==
    /\ Erasing
    /\ EraseOk(call.block)
    /\ SetState(call.block, "erased")
    /\ Move(After(1), "next")
    /\ UNCHANGED <<tx, file, faults>>

EraseToTorture ==
    /\ Erasing
    /\ EraseFails(call.block)
    /\ Move(call, "erase1")
    /\ UNCHANGED <<bbt, tx, file>>

-----------------------------------------------------------------------------
(* ufprog_nand_torture_block.  nand_torture_test_pattern returns after the   *)
(* erased block was checked, whatever was found, so the first two patterns   *)
(* are never programmed.  The third one is, where Overwrite.                 *)

\* What follows the check of the erased block.
AfterErase ==
    CASE pc = "erase1" -> "erase2"
      [] pc = "erase2" -> IF Overwrite THEN "pattern" ELSE "erase3"
      [] OTHER -> "next"

TortureErases ==
    /\ pc \in {"erase1", "erase2"}
    /\ EraseOk(call.block)
    /\ Move(call, AfterErase)
    /\ UNCHANGED <<bbt, tx, file, faults>>

\* The raw pattern covers the bytes of the bad mark.
PatternOn(n) ==
    /\ page' = [page EXCEPT ![call.block] = [k \in Pages |->
                   IF k < n THEN Junk ELSE page[call.block][k]]]
    /\ marks' = [marks EXCEPT ![call.block] = @ \cup {k \in MarkPages : k < n}]

TorturePrograms ==
    /\ pc = "pattern" /\ call.block \notin Worn
    /\ PatternOn(PagesPerBlock)
    /\ Move(call, "erase3")
    /\ UNCHANGED <<bbt, tx, file, faults>>

\* A slip: the attempts at a block that passes the test are not counted.
TorturePassesFree ==
    /\ pc = "erase3"
    /\ EraseOk(call.block)
    /\ SetState(call.block, "erased")
    /\ IF req.op = "write" THEN Move(call, "next") ELSE Move(After(1), "next")
    /\ UNCHANGED <<tx, file, faults>>

\* A write tries the block again; an erase is done with it.
TorturePasses ==
    /\ pc = "erase3"
    /\ EraseOk(call.block)
    /\ SetState(call.block, "erased")
    /\ IF req.op = "write"
       THEN Move([call EXCEPT !.tries = @ - 1], "next")
       ELSE Move(After(1), "next")
    /\ UNCHANGED <<tx, file, faults>>

TortureFault ==
    \/ pc \in {"erase1", "erase2", "erase3"} /\ EraseFails(call.block)
    \/ /\ pc \in {"erase1", "erase2"}
       /\ EraseOk(call.block) /\ Fails("read")
    \/ /\ pc = "pattern"
       /\ \E n \in Pages : PatternOn(n) \/ PatternOn(n + 1)
       /\ IF call.block \in Worn THEN UNCHANGED faults ELSE Fails("program")
    \/ /\ pc = "pattern" /\ call.block \notin Worn
       /\ PatternOn(PagesPerBlock) /\ Fails("read")

TortureFails ==
    /\ TortureFault
    /\ IF req.spread
       THEN Move(call, "mark") /\ UNCHANGED tx
       ELSE Return("io")
    /\ UNCHANGED <<bbt, file>>

\* Slips: the block is counted as erased; the table does not learn of it.
GiveUpCounted ==
    /\ pc = "mark"
    /\ MarkOk(call.block)
    /\ SetState(call.block, "bad")
    /\ Move(After(1), "next")
    /\ UNCHANGED <<tx, file>>

GiveUpUntold ==
    /\ pc = "mark"
    /\ MarkOk(call.block)
    /\ Move([call EXCEPT !.block = @ + 1, !.tries = @ - 1], "next")
    /\ UNCHANGED <<bbt, tx, file>>

GiveUpBlock ==
    /\ pc = "mark"
    /\ MarkOk(call.block)
    /\ SetState(call.block, "bad")
    /\ Move([call EXCEPT !.block = @ + 1, !.tries = @ - 1], "next")
    /\ UNCHANGED <<tx, file>>

GiveUpFails ==
    /\ pc = "mark"
    /\ MarkFails(call.block)
    /\ Return("io")
    /\ UNCHANGED <<bbt, file>>

-----------------------------------------------------------------------------
(* ftl_basic_read_pages, with errors of the ECC ignored as the tools do: a   *)
(* page that cannot be corrected is delivered.                               *)

Reading == pc = "do" /\ req.op \in {"read", "verify"}

\* The first k pages are stored where the data goes, or compared.
Stored(k) ==
    file' = [q \in DOMAIN file |->
               IF req.op = "read" /\ q \in Data .. Data + k - 1
               THEN page[call.block][call.offset + q - Data] ELSE file[q]]

SameAsFile(k) ==
    \A i \in 0 .. k - 1 : page[call.block][call.offset + i] = Data + i

Accepted(k) == req.op = "verify" => SameAsFile(k)

\* A slip: the callback stays where it is.
RxStays(k) == UNCHANGED tx

RxMoves(k) == tx' = IF req.tool THEN tx + k ELSE tx

ReadBlock ==
    /\ Reading
    /\ Accepted(Chunk) /\ Stored(Chunk) /\ RxMoves(Chunk)
    /\ Move(After(Chunk), "next")
    /\ UNCHANGED <<chip, bbt, faults>>

Differs ==
    /\ Reading
    /\ \/ ~Accepted(Chunk) /\ UNCHANGED faults
       \/ \E k \in 1 .. Chunk - 1 : ~Accepted(k) /\ Fails("read")
    /\ Return("fail")
    /\ UNCHANGED <<chip, bbt, file>>

\* The read stops after k pages; the post callback replaces the error.
ReadSwallowed ==
    /\ Reading /\ req.tool
    /\ Fails("read")
    /\ \E k \in 1 .. Chunk - 1 : Accepted(k) /\ Stored(k) /\ RxMoves(k)
    /\ Move(After(Chunk), "next")
    /\ UNCHANGED <<chip, bbt>>

ReadFails ==
    /\ Reading
    /\ Fails("read")
    /\ \E k \in 0 .. Chunk - 1 : Stored(k) /\ (req.tool => k = 0)
    /\ Return("io")
    /\ UNCHANGED <<chip, bbt>>

-----------------------------------------------------------------------------
(* ftl_basic_block_markbad, bbt_ram_reprobe *)

Asked(r) ==
    /\ pc = "idle"
    /\ req' = r
    /\ UNCHANGED <<pc, call, tx, file>>

MarkBad(r) ==
    /\ r.op = "markbad" /\ r.page < BlockCount
    /\ Asked(r)
    /\ \/ MarkOk(r.page) /\ SetState(r.page, "bad") /\ res' = "ok"
       \/ MarkFails(r.page) /\ UNCHANGED bbt /\ res' = "io"

\* Without a full scan the table is forgotten.
Reprobe(r) ==
    /\ r.op = "reprobe" /\ ~r.spread
    /\ Asked(r)
    /\ bbt' = [b \in Blocks |-> "unknown"] /\ res' = "ok"
    /\ UNCHANGED <<chip, faults>>

FullScan(r) ==
    /\ r.op = "reprobe" /\ r.spread
    /\ Asked(r)
    /\ \/ bbt' = [b \in Blocks |-> Checked(b, {})] /\ UNCHANGED faults
       \/ \E b \in Blocks, unread \in SUBSET MarkPages :
             /\ unread # {} /\ Fails("check")
             /\ bbt' = [c \in Blocks |-> Checked(c, IF c = b THEN unread ELSE {})]
    /\ res' = IF \A b \in Blocks : bbt'[b] = "unknown" THEN "io" ELSE "ok"
    /\ UNCHANGED chip

-----------------------------------------------------------------------------

\* The chip comes with its bad blocks marked and old data on some pages.
Init ==
    /\ page \in [Blocks -> {[k \in Pages |-> Blank], [k \in Pages |-> Junk]}]
    /\ marks = [b \in Blocks |-> IF b \in FactoryBad THEN MarkPages ELSE {}]
    /\ bbt = [b \in Blocks |-> "unknown"]
    /\ pc = "idle" /\ req = NoReq /\ call = NoCall /\ tx = 0
    /\ file = [q \in LogicalPages |-> None]
    /\ res = "none" /\ faults = 0

Serve ==
    \/ PassGood \/ PassBad \/ LookFails \/ Located \/ NoSpace \/ Chosen \/ Ends
    \/ WriteOk \/ WriteIgnored \/ WriteSwallowed \/ WriteFails
    \/ EraseBlock \/ EraseToTorture
    \/ TortureErases \/ TorturePrograms \/ TorturePasses \/ TortureFails
    \/ GiveUpBlock \/ GiveUpFails
    \/ ReadBlock \/ Differs \/ ReadSwallowed \/ ReadFails

Ask ==
    \E r \in Calls : Start(r) \/ Rejected(r) \/ MarkBad(r) \/ Reprobe(r) \/ FullScan(r)

Next == Ask \/ Serve

Spec == Init /\ [][Next]_vars

\* One thread runs a call to its end.
FairSpec == Spec /\ WF_vars(Serve)

-----------------------------------------------------------------------------
(* Properties *)

TypeOK ==
    /\ page \in [Blocks -> [Pages -> Contents]]
    /\ marks \in [Blocks -> SUBSET MarkPages]
    /\ bbt \in [Blocks -> BbtStates]
    /\ pc \in {"idle", "locate", "next", "do", "mark",
               "erase1", "erase2", "pattern", "erase3"}
    /\ req \in CallRecords
    /\ call \in Locals
    /\ tx \in Nat
    /\ file \in [LogicalPages -> Contents \cup {None}]
    /\ res \in {"none", "ok", "io", "range", "fail", "einval"}
    /\ faults \in 0 .. MaxFaults

Usable(b) == CheckBad => marks[b] = {}

\* The number of usable blocks in front of block b.
Nth(b) == Cardinality({c \in Base(call.page) .. b - 1 : Usable(c)})

\* The usable block, counted from where the call starts to look, that logical
\* page q lies in.
LogicalBlock(q) ==
    q \div PagesPerBlock - (IF UsePart THEN 0 ELSE call.page \div PagesPerBlock)

\* Block b is the place of logical block n.
IsPlace(b, n) == b \in Base(call.page) .. End - 1 /\ Usable(b) /\ Nth(b) = n

\* At the place of logical page q lies what allowed contains.
Lies(q, allowed) ==
    \E b \in Blocks : /\ IsPlace(b, LogicalBlock(q))
                      /\ page[b][q % PagesPerBlock] \in allowed

Requested == req.page .. req.page + req.count - 1

\* The request was served and the FTL says that all is well.
Served(op) == pc = "idle" /\ req.op = op /\ res = "ok"

\* What the table in RAM says of a block agrees with the marks on the chip: a
\* block that is marked, by the factory, by the FTL or by the user, is never
\* taken for a good one, nor a good one for a bad one.
BbtTruthful ==
    \A b \in Blocks :
        /\ bbt[b] \in {"good", "erased"} => marks[b] = {}
        /\ CheckBad /\ bbt[b] = "bad" => marks[b] # {}

\* Nothing the FTL does programs or erases a block that is marked bad, or
\* takes a mark away.
BadUntouched ==
    [][\A b \in Blocks : CheckBad /\ marks[b] # {} =>
            page'[b] = page[b] /\ marks[b] \subseteq marks'[b]]_vars

\* What a call changes lies at the places of the logical blocks it was asked
\* for: counting from the start of the partition, neither in front of the
\* first nor behind the last of them.
ChangesInRange ==
    [][\A b \in Blocks : page'[b] # page[b] =>
          \E q \in Requested : IsPlace(b, LogicalBlock(q))]_vars

\* The pages that ftl_basic_write_pages counts in retcount, for a caller that
\* passes a buffer and wants to know of errors, are at their places, through
\* failing writes, torture tests and retries (a page that was not blank before
\* may hold a mixture).
RetcountIsTrue ==
    req.op = "write" /\ ~req.tool /\ ~req.spread /\ res # "einval" =>
        \A i \in 0 .. call.done - 1 :
            Lies(call.page + i, {call.page + i, Mixed})

\* The blocks that ftl_basic_erase_blocks counts are blank and usable, also
\* the ones that failed at first and passed the torture test, as long as the
\* table agrees with the marks.
ErasedIsBlank ==
    BbtTruthful /\ req.op = "erase" /\ res # "einval" =>
        \A i \in 0 .. call.done - 1 : \E b \in Blocks :
            /\ IsPlace(b, LogicalBlock(call.page) + i)
            /\ \A k \in Pages : page[b][k] = Blank

\* After the write command of ufsnandprog has succeeded, every page of the file
\* is at its place, however the file was mapped; and after the read command the
\* file is what the flash holds: "Read flash data to file." (ufsnandprog.c:124)
SuccessIsTrue ==
    BbtTruthful => \A q \in Requested :
        /\ Served("write") => Lies(q, {q, Mixed})
        /\ Served("read") /\ req.tool => Lies(q, {file[q]})

\* Every call ends, with blocks on which every program or erase fails too:
\* the retries of a block that passes each torture test are counted.
EveryCallEnds == pc # "idle" ~> pc = "idle"

=============================================================================
