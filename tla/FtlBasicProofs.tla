--------------------------- MODULE FtlBasicProofs ---------------------------
(***************************************************************************)
(* Theorems about FtlBasic, for a chip of any size, any set of bad, worn   *)
(* and dead blocks, any calls and any number of failures.                  *)
(***************************************************************************)
EXTENDS FtlBasic, FiniteSetTheorems, TLAPS

Working == {"do", "mark", "erase1", "erase2", "pattern", "erase3"}
Results == {"ok", "io", "range", "fail"}
PageStates == [Blocks -> [Pages -> Contents]]
MarkStates == [Blocks -> SUBSET MarkPages]

\* A block that is being programmed, erased, tested or marked is a block of the
\* chip, there is something left to do and the table takes it for a good one.
InUse ==
    pc \in Working =>
        /\ call.block \in Blocks /\ call.left > 0 /\ call.tries > 0
        /\ CheckBad => bbt[call.block] \in {"good", "erased"}

\* The inductive invariant.
Inv == TypeOK /\ InUse

-----------------------------------------------------------------------------
(* Types of the operators *)

LEMMA Division ==
    ASSUME NEW p \in Nat, NEW n \in Nat \ {0}
    PROVE  p \div n \in Nat /\ p % n \in 0 .. n - 1
BY SMTT(30)

LEMMA DivisionGrows ==
    ASSUME NEW p \in Nat, NEW q \in Nat, p <= q, NEW n \in Nat \ {0}
    PROVE  p \div n <= q \div n
BY SMTT(30)

LEMMA Bounds ==
    /\ BlockCount \in Nat /\ PagesPerBlock \in Nat \ {0} /\ MapPages \in Nat \ {0}
    /\ End \in Nat /\ End <= BlockCount
BY ChipAssumption, CallAssumption DEF End

LEMMA BaseSkip ==
    ASSUME NEW p \in Nat
    PROVE  Base(p) \in Nat /\ Skip(p) \in Nat /\ p % PagesPerBlock \in Pages
BY Division, ChipAssumption DEF Base, Skip, Pages

LEMMA CoveredNat ==
    ASSUME NEW r \in CallRecords
    PROVE  Covered(r) \in Nat
<1>1. r.page \in Nat /\ r.count \in Nat /\ PagesPerBlock \in Nat \ {0}
    BY ChipAssumption DEF CallRecords
<1>2. r.page + r.count + PagesPerBlock - 1 \in Nat
    BY <1>1
<1>3. r.page <= r.page + r.count + PagesPerBlock - 1
    BY <1>1
<1>4. /\ (r.page + r.count + PagesPerBlock - 1) \div PagesPerBlock \in Nat
      /\ r.page \div PagesPerBlock \in Nat
      /\ r.page \div PagesPerBlock <= (r.page + r.count + PagesPerBlock - 1) \div PagesPerBlock
    BY <1>1, <1>2, <1>3, Division, DivisionGrows
<1>. QED BY <1>4 DEF Covered

LEMMA EnterTypes ==
    ASSUME NEW r \in CallRecords, NEW p \in Nat, NEW n \in Nat, Enter(r, p, n)
    PROVE  call' \in Locals /\ tx' \in Nat /\ pc' = "locate"
<1>1. /\ Base(p) \in Nat /\ Skip(p) \in Nat /\ p % PagesPerBlock \in Pages
      /\ Covered(r) \in Nat /\ 0 \in Pages
    BY BaseSkip, CoveredNat, ChipAssumption DEF Pages
<1>2. (IF CheckBad THEN Base(p) ELSE Base(p) + Skip(p)) \in Nat
    BY <1>1
<1>. QED BY <1>1, <1>2 DEF Enter, Locals, Retries

LEMMA BatchNat ==
    ASSUME NEW r \in CallRecords, NEW n \in Nat
    PROVE  Batch(r, n) \in Nat
BY CallAssumption DEF Batch, Least

\* A call that returns is over, or the next one begins.
LEMMA ReturnTypes ==
    ASSUME TypeOK, NEW x \in Results, Return(x)
    PROVE  /\ call' \in Locals /\ tx' \in Nat /\ pc' \in {"idle", "locate"}
           /\ req' \in CallRecords
           /\ res' \in {"none", "ok", "io", "range", "fail", "einval"}
<1>. DEFINE next == call.page + call.count
            left == req.page + req.count - next
<1>1. next \in Nat /\ left \in Int /\ req \in CallRecords
    BY DEF TypeOK, Locals, CallRecords
<1>2. CASE x = "ok" /\ left > 0
  <2>1. Enter(req, next, Batch(req, left)) /\ UNCHANGED <<res, req>>
      BY <1>2 DEF Return
  <2>2. Batch(req, left) \in Nat
      BY <1>1, <1>2, BatchNat
  <2>. QED BY <1>1, <2>1, <2>2, EnterTypes DEF TypeOK
<1>3. CASE ~(x = "ok" /\ left > 0)
    BY <1>3 DEF Return, TypeOK, Results
<1>. QED BY <1>2, <1>3

LEMMA FailsType ==
    ASSUME TypeOK, NEW kind, Fails(kind)
    PROVE  faults' \in 0 .. MaxFaults
BY CallAssumption DEF Fails, TypeOK

LEMMA AfterTypes ==
    ASSUME call \in Locals, NEW n \in Nat, n <= call.left
    PROVE  After(n) \in Locals
<1>1. /\ 0 \in Pages /\ Retries \in 0 .. Retries
      /\ call.block + 1 \in Nat /\ call.left - n \in Nat /\ call.done + n \in Nat
    BY ChipAssumption DEF Pages, Retries, Locals
<1>2. [call EXCEPT !.offset = 0] \in Locals
    BY <1>1 DEF Locals
<1>3. [call EXCEPT !.offset = 0, !.done = @ + n] \in Locals
    BY <1>1, <1>2 DEF Locals
<1>4. [call EXCEPT !.offset = 0, !.done = @ + n, !.left = @ - n] \in Locals
    BY <1>1, <1>3 DEF Locals
<1>5. [call EXCEPT !.offset = 0, !.done = @ + n, !.left = @ - n,
                   !.block = @ + 1] \in Locals
    BY <1>1, <1>4 DEF Locals
<1>. QED BY <1>1, <1>5 DEF After, Locals

\* A round of the loop stays in its block.
LEMMA ChunkFits ==
    ASSUME Inv, pc = "do"
    PROVE  /\ Chunk \in Nat \ {0} /\ Chunk <= call.left
           /\ call.offset \in Pages /\ call.offset + Chunk <= PagesPerBlock
<1>1. call.left \in Nat /\ call.left > 0 /\ call.offset \in Pages
    BY DEF Inv, TypeOK, Locals, InUse, Working
<1>. QED BY <1>1, ChipAssumption DEF Chunk, Least, Pages

LEMMA DataNat ==
    ASSUME TypeOK
    PROVE  Data \in Nat
BY DEF Data, TypeOK, Locals

LEMMA LookTypes ==
    ASSUME TypeOK, NEW answer, Look(call.block, answer)
    PROVE  /\ bbt' \in [Blocks -> BbtStates] /\ faults' \in 0 .. MaxFaults
           /\ answer = "good" /\ call.block \in Blocks =>
                 bbt'[call.block] \in {"good", "erased"}
<1>1. CASE bbt[call.block] = "unknown"
  <2>1. PICK state \in BbtStates : Probe(call.block, state) /\ answer = state
      BY <1>1 DEF Look
  <2>2. bbt' = [bbt EXCEPT ![call.block] = state]
      BY <2>1 DEF Probe
  <2>3. faults' \in 0 .. MaxFaults
      BY <2>1, FailsType DEF Probe, TypeOK
  <2>. QED BY <2>1, <2>2, <2>3 DEF TypeOK
<1>2. CASE bbt[call.block] # "unknown"
    BY <1>2 DEF Look, TypeOK, BbtStates
<1>. QED BY <1>1, <1>2

LEMMA ProgramTypes ==
    ASSUME TypeOK, NEW b, NEW k0 \in Nat, NEW n \in Nat, NEW data \in Nat,
           NEW failed, Program(b, k0, n, data, failed)
    PROVE  page' \in PageStates
<1>1. PICK torn \in SUBSET failed :
        page' = [page EXCEPT ![b] = [k \in Pages |->
                    IF k \notin k0 .. k0 + n - 1 THEN page[b][k]
                    ELSE IF k \in torn THEN Junk
                    ELSE IF k \in failed THEN page[b][k]
                    ELSE Programmed(page[b][k], data + k - k0)]]
    BY DEF Program
<1>2. CASE b \in Blocks
  <2>1. ASSUME NEW k \in Pages
        PROVE  (IF k \notin k0 .. k0 + n - 1 THEN page[b][k]
                ELSE IF k \in torn THEN Junk
                ELSE IF k \in failed THEN page[b][k]
                ELSE Programmed(page[b][k], data + k - k0)) \in Contents
    <3>1. page[b][k] \in Contents
        BY <1>2 DEF TypeOK
    <3>2. k \in k0 .. k0 + n - 1 => data + k - k0 \in Nat
        BY DEF Pages
    <3>. QED BY <3>1, <3>2 DEF Contents, Programmed
  <2>. QED BY <1>1, <2>1 DEF TypeOK, PageStates
<1>3. CASE b \notin Blocks
    BY <1>1, <1>3 DEF TypeOK, PageStates
<1>. QED BY <1>2, <1>3

LEMMA ErasedTypes ==
    ASSUME TypeOK, NEW b, ErasedBlock(b)
    PROVE  page' \in PageStates /\ marks' \in MarkStates
BY DEF ErasedBlock, TypeOK, PageStates, MarkStates, Contents

LEMMA EraseFailsTypes ==
    ASSUME TypeOK, NEW b, EraseFails(b)
    PROVE  page' \in PageStates /\ marks' \in MarkStates /\ faults' \in 0 .. MaxFaults
<1>1. faults' \in 0 .. MaxFaults
    BY FailsType DEF EraseFails, TypeOK
<1>2. [page EXCEPT ![b] = [k \in Pages |-> Junk]] \in PageStates
    BY DEF TypeOK, PageStates, Contents
<1>. QED BY <1>1, <1>2 DEF EraseFails, TypeOK, PageStates, MarkStates

LEMMA MarkTypes ==
    ASSUME TypeOK, NEW b, MarkOk(b) \/ MarkFails(b)
    PROVE  page' \in PageStates /\ marks' \in MarkStates /\ faults' \in 0 .. MaxFaults
<1>1. faults' \in 0 .. MaxFaults
    BY FailsType DEF MarkOk, MarkFails, TypeOK
<1>2. page' \in PageStates
    BY DEF MarkOk, MarkFails, TypeOK, PageStates
<1>3. marks' \in MarkStates
    BY DEF MarkOk, MarkFails, TypeOK, MarkStates
<1>. QED BY <1>1, <1>2, <1>3

LEMMA PatternTypes ==
    ASSUME TypeOK, NEW n, PatternOn(n)
    PROVE  page' \in PageStates /\ marks' \in MarkStates
<1>1. page' \in PageStates
    BY DEF PatternOn, TypeOK, PageStates, Contents
<1>2. marks' \in MarkStates
    BY DEF PatternOn, TypeOK, MarkStates
<1>. QED BY <1>1, <1>2

LEMMA TxTypes ==
    ASSUME Inv, pc = "do", TxMoves \/ \E k \in Nat : RxMoves(k)
    PROVE  tx' \in Nat
BY ChunkFits DEF TxMoves, RxMoves, Inv, TypeOK

LEMMA StoredTypes ==
    ASSUME Inv, pc = "do", NEW k \in Nat, k <= Chunk, Stored(k)
    PROVE  file' \in [LogicalPages -> Contents \cup {None}]
<1>1. ASSUME NEW q \in LogicalPages
      PROVE  (IF req.op = "read" /\ q \in Data .. Data + k - 1
              THEN page[call.block][call.offset + q - Data] ELSE file[q])
                \in Contents \cup {None}
  <2>1. CASE q \in Data .. Data + k - 1
    <3>1. call.offset + q - Data \in Pages
        BY <2>1, ChunkFits, DataNat, ChipAssumption DEF Pages, Inv, LogicalPages
    <3>2. call.block \in Blocks
        BY DEF Inv, InUse, Working
    <3>. QED BY <3>1, <3>2 DEF Inv, TypeOK
  <2>2. CASE q \notin Data .. Data + k - 1
      BY <2>2 DEF Inv, TypeOK
  <2>. QED BY <2>1, <2>2
<1>. QED BY <1>1 DEF Stored, Inv, TypeOK

-----------------------------------------------------------------------------
(* The steps keep the invariant *)

\* A step that returns, or goes on with the loop, has no block in use.
LEMMA Released ==
    ASSUME pc' \in {"idle", "locate", "next"}
    PROVE  InUse'
BY DEF InUse, Working

LEMMA InitInv == Init => Inv
<1>. SUFFICES ASSUME Init PROVE Inv
    OBVIOUS
<1>1. page \in PageStates /\ marks \in MarkStates
    BY DEF Init, PageStates, MarkStates, Contents
<1>2. call \in Locals
    BY ChipAssumption DEF Init, NoCall, Locals, Pages, Retries
<1>3. req \in CallRecords
    BY DEF Init, NoReq, CallRecords, Operations
<1>4. file \in [LogicalPages -> Contents \cup {None}] /\ bbt \in [Blocks -> BbtStates]
    BY DEF Init, BbtStates
<1>5. TypeOK
    BY <1>1, <1>2, <1>3, <1>4, CallAssumption DEF TypeOK, PageStates, MarkStates, Init
<1>. QED BY <1>5 DEF Inv, InUse, Working, Init

\* ftl_basic_get_block_page and the search for the next good block.
LEMMA SearchKeeps ==
    ASSUME Inv, PassGood \/ PassBad \/ Located \/ Chosen
    PROVE  Inv'
<1>1. CASE PassGood
  <2>1. call.skip - 1 \in Nat /\ call.block + 1 \in Nat
      BY <1>1 DEF PassGood, Counting, Inv, TypeOK, Locals
  <2>2. [call EXCEPT !.block = @ + 1] \in Locals
      BY <2>1 DEF Inv, TypeOK, Locals
  <2>3. call' \in Locals
      BY <1>1, <2>1, <2>2 DEF PassGood, Move, Locals
  <2>4. bbt' \in [Blocks -> BbtStates] /\ faults' \in 0 .. MaxFaults
      BY <1>1, LookTypes DEF PassGood, Inv
  <2>. QED BY <1>1, <2>3, <2>4, Released DEF PassGood, Move, chip, Inv, TypeOK
<1>2. CASE PassBad
  <2>1. call' \in Locals
      BY <1>2 DEF PassBad, Move, Inv, TypeOK, Locals
  <2>2. bbt' \in [Blocks -> BbtStates] /\ faults' \in 0 .. MaxFaults
      BY <1>2, LookTypes DEF PassBad, Inv
  <2>3. pc' \in {"locate", "next"}
      BY <1>2 DEF PassBad, Move, Looking
  <2>. QED BY <1>2, <2>1, <2>2, <2>3, Released DEF PassBad, Move, chip, Inv, TypeOK
<1>3. CASE Located
    BY <1>3, Released DEF Located, Move, chip, Inv, TypeOK
<1>4. CASE Chosen
  <2>1. /\ call' = call /\ pc' = "do" /\ call.left > 0 /\ call.tries > 0
        /\ UNCHANGED <<page, marks, req, tx, file, res>>
      BY <1>4 DEF Chosen, Move, Choosing, chip
  <2>2. call.block \in Blocks
      BY <1>4, Bounds DEF Chosen, Looking, Blocks, Inv, TypeOK, Locals
  <2>3. CASE CheckBad
    <3>1. /\ bbt' \in [Blocks -> BbtStates] /\ faults' \in 0 .. MaxFaults
          /\ bbt'[call.block] \in {"good", "erased"}
        BY <1>4, <2>2, <2>3, LookTypes DEF Chosen, Inv
    <3>. QED BY <2>1, <2>2, <3>1 DEF Inv, TypeOK, InUse, Working
  <2>4. CASE ~CheckBad
      BY <1>4, <2>1, <2>2, <2>4 DEF Chosen, Inv, TypeOK, InUse, Working
  <2>. QED BY <2>3, <2>4
<1>. QED BY <1>1, <1>2, <1>3, <1>4

\* The call returns, or the tool makes the next one.
LEMMA ReturnKeeps ==
    ASSUME Inv, NEW x \in Results, Return(x),
           page' \in PageStates, marks' \in MarkStates,
           bbt' \in [Blocks -> BbtStates], faults' \in 0 .. MaxFaults,
           file' \in [LogicalPages -> Contents \cup {None}]
    PROVE  Inv'
<1>1. /\ call' \in Locals /\ tx' \in Nat /\ pc' \in {"idle", "locate"}
      /\ req' \in CallRecords
      /\ res' \in {"none", "ok", "io", "range", "fail", "einval"}
    BY ReturnTypes DEF Inv
<1>. QED BY <1>1, Released DEF Inv, TypeOK, PageStates, MarkStates

LEMMA SearchEndsKeeps ==
    ASSUME Inv, LookFails \/ NoSpace \/ Ends
    PROVE  Inv'
<1>1. page' \in PageStates /\ marks' \in MarkStates
      /\ file' \in [LogicalPages -> Contents \cup {None}]
    BY DEF LookFails, NoSpace, Ends, chip, Inv, TypeOK, PageStates, MarkStates
<1>2. bbt' \in [Blocks -> BbtStates] /\ faults' \in 0 .. MaxFaults
    BY LookTypes DEF LookFails, NoSpace, Ends, Inv, TypeOK
<1>3. \E x \in Results : Return(x)
    BY DEF LookFails, NoSpace, Ends, Results
<1>. QED BY <1>1, <1>2, <1>3, ReturnKeeps

\* The loop goes on behind n pages or blocks.
LEMMA AfterKeeps ==
    ASSUME Inv, NEW n \in Nat, n <= call.left, Move(After(n), "next"),
           page' \in PageStates, marks' \in MarkStates,
           bbt' \in [Blocks -> BbtStates], faults' \in 0 .. MaxFaults, tx' \in Nat,
           file' \in [LogicalPages -> Contents \cup {None}]
    PROVE  Inv'
<1>1. call' \in Locals /\ pc' = "next" /\ UNCHANGED <<req, res>>
    BY AfterTypes DEF Move, Inv, TypeOK
<1>. QED BY <1>1, Released DEF Inv, TypeOK, PageStates, MarkStates

\* The call goes on with the same block, as the table has it.
LEMMA StayKeeps ==
    ASSUME Inv, pc \in Working, NEW target \in Working, Move(call, target), UNCHANGED bbt,
           page' \in PageStates, marks' \in MarkStates, faults' \in 0 .. MaxFaults,
           tx' \in Nat, file' \in [LogicalPages -> Contents \cup {None}]
    PROVE  Inv'
BY DEF Move, Inv, TypeOK, InUse, Working, PageStates, MarkStates

\* ftl_basic_write_pages
LEMMA WriteKeeps ==
    ASSUME Inv, WriteOk \/ WriteIgnored \/ WriteSwallowed \/ WriteFails
    PROVE  Inv'
<1>. USE DEF Inv
<1>1. /\ pc = "do" /\ Chunk \in Nat \ {0} /\ Chunk <= call.left
      /\ call.offset \in Nat /\ Data \in Nat
  <2>1. pc = "do"
      BY DEF WriteOk, WriteIgnored, WriteSwallowed, WriteFails, StopsAfter, Writing
  <2>. QED BY <2>1, ChunkFits, DataNat DEF Pages
<1>2. /\ marks' \in MarkStates /\ bbt' \in [Blocks -> BbtStates]
      /\ file' \in [LogicalPages -> Contents \cup {None}] /\ UNCHANGED bbt
  <2>1. UNCHANGED <<marks, bbt, file>>
    <3>1. CASE WriteOk \/ WriteIgnored
        BY <3>1 DEF WriteOk, WriteIgnored
    <3>2. CASE WriteSwallowed \/ WriteFails
        BY <3>2 DEF WriteSwallowed, WriteFails, StopsAfter
    <3>. QED BY <3>1, <3>2
  <2>. QED BY <2>1 DEF TypeOK, MarkStates
<1>3. page' \in PageStates
  <2>1. CASE WriteOk \/ WriteIgnored
      BY <1>1, <2>1, ProgramTypes DEF WriteOk, WriteIgnored
  <2>2. CASE WriteSwallowed \/ WriteFails
    <3>1. PICK k \in 0 .. Chunk - 1 :
              Program(call.block, call.offset, k + 1, Data, {call.offset + k})
      <4>1. \E k \in 0 .. Chunk - 1 : StopsAfter(k)
          BY <1>1, <2>2 DEF WriteSwallowed, WriteFails
      <4>. QED BY <4>1 DEF StopsAfter
    <3>2. k + 1 \in Nat
        BY <1>1
    <3>. QED BY <1>1, <3>1, <3>2, ProgramTypes
  <2>. QED BY <2>1, <2>2
<1>4. faults' \in 0 .. MaxFaults
    BY FailsType DEF WriteOk, WriteIgnored, WriteSwallowed, WriteFails, StopsAfter, TypeOK
<1>5. CASE WriteOk \/ WriteIgnored \/ WriteSwallowed
  <2>1. tx' \in Nat /\ Move(After(Chunk), "next")
      BY <1>1, <1>5, TxTypes DEF WriteOk, WriteIgnored, WriteSwallowed
  <2>. QED BY <1>1, <1>2, <1>3, <1>4, <2>1, AfterKeeps
<1>6. CASE WriteFails
  <2>1. CASE call.offset = 0
    <3>1. tx' \in Nat /\ Move(call, "erase1")
        BY <1>1, <1>6, <2>1, TxTypes DEF WriteFails
    <3>. QED BY <1>1, <1>2, <1>3, <1>4, <3>1, StayKeeps DEF Working
  <2>2. CASE call.offset # 0
    <3>1. Return("io") /\ "io" \in Results
        BY <1>6, <2>2 DEF WriteFails, Results
    <3>. QED BY <1>2, <1>3, <1>4, <3>1, ReturnKeeps
  <2>. QED BY <2>1, <2>2
<1>. QED BY <1>5, <1>6

\* ftl_basic_erase_blocks
LEMMA EraseKeeps ==
    ASSUME Inv, EraseBlock \/ EraseToTorture
    PROVE  Inv'
<1>. USE DEF Inv
<1>1. pc = "do" /\ call.left \in Nat /\ call.left > 0
    BY DEF EraseBlock, EraseToTorture, Erasing, InUse, Working, TypeOK, Locals
<1>2. CASE EraseBlock
  <2>1. page' \in PageStates /\ marks' \in MarkStates
      BY <1>2, ErasedTypes DEF EraseBlock, EraseOk
  <2>2. /\ bbt' \in [Blocks -> BbtStates] /\ UNCHANGED <<tx, file, faults>>
        /\ Move(After(1), "next")
      BY <1>2 DEF EraseBlock, SetState, TypeOK, BbtStates
  <2>. QED BY <1>1, <2>1, <2>2, AfterKeeps DEF TypeOK
<1>3. CASE EraseToTorture
  <2>1. page' \in PageStates /\ marks' \in MarkStates /\ faults' \in 0 .. MaxFaults
      BY <1>3, EraseFailsTypes DEF EraseToTorture
  <2>2. Move(call, "erase1") /\ UNCHANGED <<bbt, tx, file>>
      BY <1>3 DEF EraseToTorture
  <2>. QED BY <1>1, <2>1, <2>2, StayKeeps DEF TypeOK, Working
<1>. QED BY <1>2, <1>3

\* ufprog_nand_torture_block
LEMMA TortureKeeps ==
    ASSUME Inv, TortureErases \/ TorturePrograms \/ TorturePasses \/ TortureFails
    PROVE  Inv'
<1>. USE DEF Inv
<1>1. CASE TortureErases
  <2>1. page' \in PageStates /\ marks' \in MarkStates
      BY <1>1, ErasedTypes DEF TortureErases, EraseOk
  <2>2. /\ Move(call, AfterErase) /\ AfterErase \in Working /\ pc \in Working
        /\ UNCHANGED <<bbt, tx, file, faults>>
      BY <1>1 DEF TortureErases, AfterErase, Working
  <2>. QED BY <2>1, <2>2, StayKeeps DEF TypeOK
<1>2. CASE TorturePrograms
  <2>1. page' \in PageStates /\ marks' \in MarkStates
      BY <1>2, PatternTypes DEF TorturePrograms
  <2>2. /\ Move(call, "erase3") /\ pc \in Working
        /\ UNCHANGED <<bbt, tx, file, faults>>
      BY <1>2 DEF TorturePrograms, Working
  <2>. QED BY <2>1, <2>2, StayKeeps DEF TypeOK, Working
<1>3. CASE TorturePasses
  <2>1. page' \in PageStates /\ marks' \in MarkStates
      BY <1>3, ErasedTypes DEF TorturePasses, EraseOk
  <2>2. /\ bbt' \in [Blocks -> BbtStates] /\ UNCHANGED <<tx, file, faults>>
        /\ call.left \in Nat /\ call.left > 0 /\ call.tries > 0
      BY <1>3 DEF TorturePasses, SetState, TypeOK, BbtStates, InUse, Working, Locals
  <2>3. CASE req.op = "write"
    <3>1. call' = [call EXCEPT !.tries = @ - 1] /\ pc' = "next" /\ UNCHANGED <<req, res>>
        BY <1>3, <2>3 DEF TorturePasses, Move
    <3>2. call' \in Locals
        BY <2>2, <3>1 DEF TypeOK, Locals, Retries
    <3>. QED BY <2>1, <2>2, <3>1, <3>2, Released DEF TypeOK, PageStates, MarkStates
  <2>4. CASE req.op # "write"
    <3>1. Move(After(1), "next")
        BY <1>3, <2>4 DEF TorturePasses
    <3>. QED BY <2>1, <2>2, <3>1, AfterKeeps DEF TypeOK
  <2>. QED BY <2>3, <2>4
<1>4. CASE TortureFails
  <2>1. pc \in Working
      BY <1>4 DEF TortureFails, TortureFault, Working
  <2>2. page' \in PageStates /\ marks' \in MarkStates
    <3>1. \/ EraseFails(call.block) \/ ErasedBlock(call.block) \/ \E n \in Nat : PatternOn(n)
        BY <1>4, ChipAssumption DEF TortureFails, TortureFault, EraseOk, Pages
    <3>. QED BY <3>1, EraseFailsTypes, ErasedTypes, PatternTypes
  <2>3. faults' \in 0 .. MaxFaults
    <3>1. \/ EraseFails(call.block) \/ UNCHANGED faults
          \/ \E kind \in {"read", "program"} : Fails(kind)
        BY <1>4 DEF TortureFails, TortureFault
    <3>. QED BY <3>1, EraseFailsTypes, FailsType DEF TypeOK
  <2>4. UNCHANGED <<bbt, file>>
      BY <1>4 DEF TortureFails
  <2>5. CASE req.spread
    <3>1. Move(call, "mark") /\ UNCHANGED tx
        BY <1>4, <2>5 DEF TortureFails
    <3>. QED BY <2>1, <2>2, <2>3, <2>4, <3>1, StayKeeps DEF TypeOK, Working
  <2>6. CASE ~req.spread
    <3>1. Return("io") /\ "io" \in Results
        BY <1>4, <2>6 DEF TortureFails, Results
    <3>. QED BY <2>2, <2>3, <2>4, <3>1, ReturnKeeps DEF TypeOK
  <2>. QED BY <2>5, <2>6
<1>. QED BY <1>1, <1>2, <1>3, <1>4

LEMMA GiveUpKeeps ==
    ASSUME Inv, GiveUpBlock \/ GiveUpFails
    PROVE  Inv'
<1>. USE DEF Inv
<1>1. page' \in PageStates /\ marks' \in MarkStates /\ faults' \in 0 .. MaxFaults
    BY MarkTypes DEF GiveUpBlock, GiveUpFails
<1>2. CASE GiveUpBlock
  <2>1. bbt' \in [Blocks -> BbtStates] /\ UNCHANGED <<tx, file, req, res>> /\ pc' = "next"
      BY <1>2 DEF GiveUpBlock, SetState, Move, TypeOK, BbtStates
  <2>2. call.tries - 1 \in 0 .. Retries
      BY <1>2 DEF GiveUpBlock, InUse, Working, TypeOK, Locals, Retries
  <2>3. [call EXCEPT !.block = @ + 1] \in Locals
      BY DEF TypeOK, Locals
  <2>4. call' \in Locals
      BY <1>2, <2>2, <2>3 DEF GiveUpBlock, Move, Locals
  <2>. QED BY <1>1, <2>1, <2>4, Released DEF TypeOK, PageStates, MarkStates
<1>3. CASE GiveUpFails
  <2>1. Return("io") /\ "io" \in Results /\ UNCHANGED <<bbt, file>>
      BY <1>3 DEF GiveUpFails, Results
  <2>. QED BY <1>1, <2>1, ReturnKeeps DEF TypeOK
<1>. QED BY <1>2, <1>3

\* ftl_basic_read_pages
LEMMA ReadKeeps ==
    ASSUME Inv, ReadBlock \/ Differs \/ ReadSwallowed \/ ReadFails
    PROVE  Inv'
<1>. USE DEF Inv
<1>1. pc = "do"
    BY DEF ReadBlock, Differs, ReadSwallowed, ReadFails, Reading
<1>2. Chunk \in Nat \ {0} /\ Chunk <= call.left
    BY <1>1, ChunkFits
<1>3. /\ page' \in PageStates /\ marks' \in MarkStates /\ bbt' \in [Blocks -> BbtStates]
    BY DEF ReadBlock, Differs, ReadSwallowed, ReadFails, chip, TypeOK, PageStates, MarkStates
<1>4. faults' \in 0 .. MaxFaults
    BY FailsType DEF ReadBlock, Differs, ReadSwallowed, ReadFails, TypeOK
<1>5. CASE ReadBlock \/ ReadSwallowed
  <2>1. PICK k \in Nat : k <= Chunk /\ Stored(k) /\ RxMoves(k)
      BY <1>2, <1>5 DEF ReadBlock, ReadSwallowed
  <2>2. tx' \in Nat /\ file' \in [LogicalPages -> Contents \cup {None}]
      BY <1>1, <2>1, TxTypes, StoredTypes
  <2>3. Move(After(Chunk), "next")
      BY <1>5 DEF ReadBlock, ReadSwallowed
  <2>. QED BY <1>2, <1>3, <1>4, <2>2, <2>3, AfterKeeps
<1>6. CASE ReadFails
  <2>1. PICK k \in Nat : k <= Chunk /\ Stored(k)
      BY <1>2, <1>6 DEF ReadFails
  <2>2. file' \in [LogicalPages -> Contents \cup {None}]
      BY <1>1, <2>1, StoredTypes
  <2>3. Return("io") /\ "io" \in Results
      BY <1>6 DEF ReadFails, Results
  <2>. QED BY <1>3, <1>4, <2>2, <2>3, ReturnKeeps
<1>7. CASE Differs
  <2>1. Return("fail") /\ "fail" \in Results /\ UNCHANGED file
      BY <1>7 DEF Differs, Results
  <2>. QED BY <1>3, <1>4, <2>1, ReturnKeeps DEF TypeOK
<1>. QED BY <1>5, <1>6, <1>7

\* What the user asks for.
LEMMA AskKeeps ==
    ASSUME Inv, Ask
    PROVE  Inv'
<1>. USE DEF Inv
<1>1. PICK r \in Calls : Start(r) \/ Rejected(r) \/ MarkBad(r) \/ Reprobe(r) \/ FullScan(r)
    BY DEF Ask
<1>2. r \in CallRecords /\ r.page \in Nat /\ r.count \in Nat
    BY CallAssumption DEF CallRecords
<1>3. CASE Start(r)
  <2>1. call' \in Locals /\ tx' \in Nat /\ pc' = "locate"
      BY <1>2, <1>3, BatchNat, EnterTypes DEF Start
  <2>2. file' \in [LogicalPages -> Contents \cup {None}]
      BY <1>3 DEF Start, TypeOK
  <2>. QED BY <1>2, <1>3, <2>1, <2>2, Released DEF Start, chip, TypeOK
<1>4. CASE Rejected(r)
    BY <1>2, <1>4, Released DEF Rejected, chip, TypeOK
<1>5. CASE MarkBad(r)
  <2>1. page' \in PageStates /\ marks' \in MarkStates /\ faults' \in 0 .. MaxFaults
      BY <1>5, MarkTypes DEF MarkBad
  <2>2. bbt' \in [Blocks -> BbtStates] /\ res' \in {"ok", "io"}
      BY <1>5 DEF MarkBad, SetState, TypeOK, BbtStates
  <2>. QED BY <1>2, <1>5, <2>1, <2>2, Released DEF MarkBad, Asked, TypeOK, PageStates, MarkStates
<1>6. CASE Reprobe(r)
    BY <1>2, <1>6, Released DEF Reprobe, Asked, chip, TypeOK, BbtStates
<1>7. CASE FullScan(r)
  <2>1. bbt' \in [Blocks -> BbtStates]
      BY <1>7 DEF FullScan, Checked, BbtStates
  <2>2. faults' \in 0 .. MaxFaults
      BY <1>7, FailsType DEF FullScan, TypeOK
  <2>. QED BY <1>2, <1>7, <2>1, <2>2, Released DEF FullScan, Asked, chip, TypeOK
<1>. QED BY <1>1, <1>3, <1>4, <1>5, <1>6, <1>7

LEMMA NextKeeps == Inv /\ [Next]_vars => Inv'
<1>. SUFFICES ASSUME Inv, [Next]_vars PROVE Inv'
    OBVIOUS
<1>1. CASE UNCHANGED vars
    BY <1>1 DEF vars, Inv, TypeOK, InUse
<1>2. CASE Ask
    BY <1>2, AskKeeps
<1>3. CASE Serve
    BY <1>3, SearchKeeps, SearchEndsKeeps, WriteKeeps, EraseKeeps, TortureKeeps,
       GiveUpKeeps, ReadKeeps DEF Serve
<1>. QED BY <1>1, <1>2, <1>3 DEF Next

\* The inductive invariant holds in every state.
THEOREM Invariance == Spec => []Inv
<1>. QED BY InitInv, NextKeeps, PTL DEF Spec

\* Type correctness for every chip and any calls and failures: the block that a
\* call has arrived at is a block of the chip, what is left never falls below
\* zero and data is only read from pages of the block.
THEOREM TypeCorrect == Spec => []TypeOK
<1>1. Inv => TypeOK
    BY DEF Inv
<1>. QED BY <1>1, Invariance, PTL

-----------------------------------------------------------------------------
(* The table in RAM and the marks on the chip *)

\* Bad marks can be read, and the torture test programs no pattern over them.
MarksReadable == "check" \notin FaultKinds /\ ~Overwrite

Truth == Inv /\ BbtTruthful /\ pc # "pattern"

\* What the bad marks of a block say.
LEMMA CheckedReads ==
    ASSUME NEW b
    PROVE  Checked(b, {}) = IF marks[b] # {} THEN "bad" ELSE "good"
BY ChipAssumption DEF Checked

\* A probe writes down what the marks say.
LEMMA LookTruthful ==
    ASSUME Truth, MarksReadable, NEW answer, Look(call.block, answer), UNCHANGED marks
    PROVE  BbtTruthful'
<1>1. CASE bbt[call.block] = "unknown"
  <2>1. /\ bbt' = [bbt EXCEPT ![call.block] = Checked(call.block, {})]
      BY <1>1 DEF Look, Probe, Fails, MarksReadable
  <2>. QED BY <2>1, CheckedReads DEF BbtTruthful, Truth, Inv, TypeOK
<1>2. CASE bbt[call.block] # "unknown"
    BY <1>2 DEF Look, BbtTruthful, Truth
<1>. QED BY <1>1, <1>2

\* An erase takes no mark away: the block has none.
LEMMA ErasedTruthful ==
    ASSUME Truth, pc \in Working, ErasedBlock(call.block),
           UNCHANGED bbt \/ SetState(call.block, "erased")
    PROVE  BbtTruthful'
<1>1. /\ call.block \in Blocks /\ CheckBad => bbt[call.block] \in {"good", "erased"}
      /\ marks \in MarkStates /\ bbt \in [Blocks -> BbtStates]
    BY DEF Truth, Inv, InUse, TypeOK, MarkStates
<1>2. marks' = [marks EXCEPT ![call.block] = {}]
    BY DEF ErasedBlock
<1>. QED BY <1>1, <1>2 DEF BbtTruthful, Truth, SetState, MarkStates

\* Marking adds marks, to the block that is then known as bad.
LEMMA MarkedTruthful ==
    ASSUME Truth, MarksReadable, NEW b \in Blocks,
           \/ MarkOk(b) /\ SetState(b, "bad")
           \/ MarkFails(b) /\ UNCHANGED bbt
    PROVE  BbtTruthful'
<1>1. marks \in MarkStates /\ bbt \in [Blocks -> BbtStates]
    BY DEF Truth, Inv, TypeOK, MarkStates
<1>2. CASE MarkOk(b) /\ SetState(b, "bad")
  <2>1. PICK some \in SUBSET MarkPages :
            some # {} /\ marks' = [marks EXCEPT ![b] = some]
    <3>1. CASE marks' = [marks EXCEPT ![b] = MarkPages]
        BY <3>1, ChipAssumption
    <3>2. CASE \E s \in SUBSET MarkPages : s # {} /\ marks' = [marks EXCEPT ![b] = @ \cup s]
      <4>1. PICK s \in SUBSET MarkPages : s # {} /\ marks' = [marks EXCEPT ![b] = @ \cup s]
          BY <3>2
      <4>2. marks[b] \cup s \in SUBSET MarkPages /\ marks[b] \cup s # {}
          BY <1>1, <4>1 DEF MarkStates
      <4>. QED BY <4>1, <4>2
    <3>. QED BY <1>2, <3>1, <3>2 DEF MarkOk
  <2>. QED BY <1>1, <1>2, <2>1 DEF BbtTruthful, Truth, SetState, MarkStates
<1>3. CASE MarkFails(b) /\ UNCHANGED bbt
  <2>1. UNCHANGED marks
      BY <1>3 DEF MarkFails, Fails, MarksReadable
  <2>. QED BY <1>3, <2>1 DEF BbtTruthful, Truth
<1>. QED BY <1>2, <1>3

LEMMA SameTruthful ==
    ASSUME BbtTruthful, UNCHANGED <<marks, bbt>>
    PROVE  BbtTruthful'
BY DEF BbtTruthful

\* The third pattern is never reached.
LEMMA NoPattern ==
    ASSUME Truth, MarksReadable, [Next]_vars
    PROVE  pc' # "pattern"
<1>. USE DEF Truth, MarksReadable
<1>1. ASSUME NEW x, Return(x) PROVE pc' # "pattern"
    BY <1>1 DEF Return, Enter
<1>2. ASSUME NEW c, NEW target, target # "pattern", Move(c, target) PROVE pc' # "pattern"
    BY <1>2 DEF Move
<1>3. CASE Serve
  <2>1. CASE PassGood \/ Located \/ Chosen \/ LookFails \/ NoSpace \/ Ends
      BY <1>1, <1>2, <2>1 DEF PassGood, Located, Chosen, LookFails, NoSpace, Ends
  <2>2. CASE PassBad
      BY <1>2, <2>2 DEF PassBad
  <2>3. CASE WriteOk \/ WriteIgnored \/ WriteSwallowed \/ WriteFails
      BY <1>1, <1>2, <2>3 DEF WriteOk, WriteIgnored, WriteSwallowed, WriteFails
  <2>4. CASE EraseBlock \/ EraseToTorture \/ GiveUpBlock \/ GiveUpFails
      BY <1>1, <1>2, <2>4 DEF EraseBlock, EraseToTorture, GiveUpBlock, GiveUpFails
  <2>5. CASE TortureErases
      BY <1>2, <2>5 DEF TortureErases, AfterErase
  <2>6. CASE TorturePrograms \/ TorturePasses \/ TortureFails
      BY <1>1, <1>2, <2>6 DEF TorturePrograms, TorturePasses, TortureFails
  <2>7. CASE ReadBlock \/ Differs \/ ReadSwallowed \/ ReadFails
      BY <1>1, <1>2, <2>7 DEF ReadBlock, Differs, ReadSwallowed, ReadFails
  <2>. QED BY <1>3, <2>1, <2>2, <2>3, <2>4, <2>5, <2>6, <2>7 DEF Serve
<1>4. CASE Ask
    BY <1>4 DEF Ask, Start, Enter, Rejected, MarkBad, Reprobe, FullScan, Asked
<1>5. CASE UNCHANGED vars
    BY <1>5 DEF vars
<1>. QED BY <1>3, <1>4, <1>5 DEF Next

LEMMA TruthKept ==
    ASSUME Truth, MarksReadable, [Next]_vars
    PROVE  BbtTruthful'
<1>1. CASE PassGood \/ PassBad \/ LookFails
  <2>1. UNCHANGED marks /\ \E answer \in {"good", "bad", "unknown"} : Look(call.block, answer)
      BY <1>1 DEF PassGood, PassBad, LookFails, chip
  <2>. QED BY <2>1, LookTruthful
<1>2. CASE Chosen
  <2>1. UNCHANGED marks /\ (Look(call.block, "good") \/ UNCHANGED bbt)
      BY <1>2 DEF Chosen, chip
  <2>. QED BY <2>1, LookTruthful, SameTruthful DEF Truth
<1>3. CASE \/ Located \/ NoSpace \/ Ends \/ WriteOk \/ WriteIgnored
           \/ ReadBlock \/ Differs \/ ReadSwallowed \/ ReadFails
  <2>1. UNCHANGED <<marks, bbt>>
      BY <1>3 DEF Located, NoSpace, Ends, WriteOk, WriteIgnored, chip,
                  ReadBlock, Differs, ReadSwallowed, ReadFails
  <2>. QED BY <2>1, SameTruthful DEF Truth
<1>4. CASE WriteSwallowed \/ WriteFails
  <2>1. UNCHANGED <<marks, bbt>>
      BY <1>4 DEF WriteSwallowed, WriteFails, StopsAfter
  <2>. QED BY <2>1, SameTruthful DEF Truth
<1>5. CASE EraseBlock \/ TortureErases \/ TorturePasses
  <2>1. /\ pc \in Working /\ ErasedBlock(call.block)
        /\ UNCHANGED bbt \/ SetState(call.block, "erased")
      BY <1>5 DEF EraseBlock, Erasing, TortureErases, TorturePasses, EraseOk, Working
  <2>. QED BY <2>1, ErasedTruthful
<1>6. CASE EraseToTorture
  <2>1. UNCHANGED <<marks, bbt>>
      BY <1>6 DEF EraseToTorture, EraseFails
  <2>. QED BY <2>1, SameTruthful DEF Truth
<1>7. CASE TorturePrograms
    BY <1>7 DEF TorturePrograms, Truth
<1>8. CASE TortureFails
  <2>1. UNCHANGED bbt /\ pc \in Working
      BY <1>8 DEF TortureFails, TortureFault, Working
  <2>2. ErasedBlock(call.block) \/ UNCHANGED marks
      BY <1>8 DEF TortureFails, TortureFault, EraseFails, EraseOk, Truth
  <2>. QED BY <2>1, <2>2, ErasedTruthful, SameTruthful DEF Truth
<1>9. CASE GiveUpBlock \/ GiveUpFails
  <2>1. call.block \in Blocks
      BY <1>9 DEF GiveUpBlock, GiveUpFails, Truth, Inv, InUse, Working
  <2>. QED BY <1>9, <2>1, MarkedTruthful DEF GiveUpBlock, GiveUpFails
<1>10. CASE Ask
  <2>1. PICK r \in Calls : Start(r) \/ Rejected(r) \/ MarkBad(r) \/ Reprobe(r) \/ FullScan(r)
      BY <1>10 DEF Ask
  <2>2. CASE Start(r) \/ Rejected(r)
      BY <2>2, SameTruthful DEF Start, Rejected, chip, Truth
  <2>3. CASE MarkBad(r)
    <3>1. r.page \in Blocks
        BY <2>1, <2>3, ChipAssumption, CallAssumption DEF MarkBad, Blocks, CallRecords
    <3>. QED BY <2>3, <3>1, MarkedTruthful DEF MarkBad
  <2>4. CASE Reprobe(r)
      BY <2>4 DEF Reprobe, BbtTruthful
  <2>5. CASE FullScan(r)
    <3>1. bbt' = [b \in Blocks |-> Checked(b, {})] /\ UNCHANGED marks
        BY <2>5 DEF FullScan, Fails, MarksReadable, chip
    <3>. QED BY <3>1, CheckedReads DEF BbtTruthful
  <2>. QED BY <2>1, <2>2, <2>3, <2>4, <2>5
<1>11. CASE UNCHANGED vars
    BY <1>11, SameTruthful DEF vars, Truth
<1>. QED BY <1>1, <1>2, <1>3, <1>4, <1>5, <1>6, <1>7, <1>8, <1>9, <1>10, <1>11
         DEF Next, Serve

LEMMA TruthStep ==
    ASSUME MarksReadable
    PROVE  Truth /\ [Next]_vars => Truth'
BY TruthKept, NoPattern, NextKeeps DEF Truth

LEMMA TruthHolds ==
    ASSUME MarksReadable
    PROVE  Spec => []Truth
<1>1. Init => Truth
    BY InitInv DEF Truth, BbtTruthful, Init
<1>. QED BY <1>1, TruthStep, PTL DEF Spec

\* As long as bad marks can be read, the table in RAM never takes a marked block
\* for a good one, however erases, tests and marks fail; and where bad blocks
\* are checked, it never takes an unmarked one for a bad one.
THEOREM TableTruthful ==
    ASSUME MarksReadable
    PROVE  Spec => []BbtTruthful
<1>1. Truth => BbtTruthful
    BY DEF Truth
<1>. QED BY <1>1, TruthHolds, PTL

\* A step leaves the pages and the marks of a bad block alone.
LEMMA StepSpares ==
    ASSUME Truth, MarksReadable, Next, CheckBad, NEW b \in Blocks, marks[b] # {}
    PROVE  page'[b] = page[b] /\ marks[b] \subseteq marks'[b]
<1>1. /\ page \in PageStates /\ marks \in MarkStates
      /\ pc \in Working => call.block \in Blocks /\ call.block # b
    BY DEF Truth, Inv, TypeOK, InUse, BbtTruthful, PageStates, MarkStates
<1>2. ASSUME NEW c \in Blocks, MarkOk(c) \/ MarkFails(c)
      PROVE  page'[b] = page[b] /\ marks[b] \subseteq marks'[b]
    BY <1>1, <1>2 DEF MarkOk, MarkFails, MarkStates
<1>3. CASE \/ PassGood \/ PassBad \/ LookFails \/ Located \/ NoSpace \/ Chosen \/ Ends
           \/ ReadBlock \/ Differs \/ ReadSwallowed \/ ReadFails
    BY <1>3 DEF PassGood, PassBad, LookFails, Located, NoSpace, Chosen, Ends,
                ReadBlock, Differs, ReadSwallowed, ReadFails, chip
<1>4. CASE WriteOk \/ WriteIgnored \/ WriteSwallowed \/ WriteFails
  <2>1. pc \in Working /\ UNCHANGED marks
      BY <1>4 DEF WriteOk, WriteIgnored, WriteSwallowed, WriteFails, StopsAfter,
                  Writing, Working
  <2>2. \E k0, n, data, failed : Program(call.block, k0, n, data, failed)
      BY <1>4 DEF WriteOk, WriteIgnored, WriteSwallowed, WriteFails, StopsAfter
  <2>. QED BY <1>1, <2>1, <2>2 DEF Program, PageStates
<1>5. CASE EraseBlock \/ TortureErases \/ TorturePasses
  <2>1. pc \in Working /\ ErasedBlock(call.block)
      BY <1>5 DEF EraseBlock, Erasing, TortureErases, TorturePasses, EraseOk, Working
  <2>. QED BY <1>1, <2>1 DEF ErasedBlock, PageStates, MarkStates
<1>6. CASE EraseToTorture \/ TortureFails
  <2>1. pc \in Working /\ (ErasedBlock(call.block) \/ EraseFails(call.block))
      BY <1>6 DEF EraseToTorture, Erasing, TortureFails, TortureFault, EraseOk, Working, Truth
  <2>. QED BY <1>1, <2>1 DEF ErasedBlock, EraseFails, PageStates, MarkStates
<1>7. CASE TorturePrograms
    BY <1>7 DEF TorturePrograms, Truth
<1>8. CASE GiveUpBlock \/ GiveUpFails
  <2>1. pc \in Working
      BY <1>8 DEF GiveUpBlock, GiveUpFails, Working
  <2>. QED BY <1>1, <1>2, <1>8, <2>1 DEF GiveUpBlock, GiveUpFails
<1>9. CASE Ask
  <2>1. PICK r \in Calls : Start(r) \/ Rejected(r) \/ MarkBad(r) \/ Reprobe(r) \/ FullScan(r)
      BY <1>9 DEF Ask
  <2>2. CASE MarkBad(r)
    <3>1. r.page \in Blocks
        BY <2>1, <2>2, ChipAssumption, CallAssumption DEF MarkBad, Blocks, CallRecords
    <3>. QED BY <1>2, <2>2, <3>1 DEF MarkBad
  <2>3. CASE Start(r) \/ Rejected(r) \/ Reprobe(r) \/ FullScan(r)
      BY <2>3 DEF Start, Rejected, Reprobe, FullScan, chip
  <2>. QED BY <2>1, <2>2, <2>3
<1>. QED BY <1>3, <1>4, <1>5, <1>6, <1>7, <1>8, <1>9 DEF Next, Serve

\* With bad blocks checked and readable marks, nothing programs or erases a
\* marked block or takes a mark away: not a write, an erase, a torture test, a
\* retry, nor the marking of another block.
THEOREM MarkedBlocksKept ==
    ASSUME MarksReadable
    PROVE  Spec => BadUntouched
<1>1. Truth /\ [Next]_vars =>
        [\A b \in Blocks : CheckBad /\ marks[b] # {} =>
            page'[b] = page[b] /\ marks[b] \subseteq marks'[b]]_vars
    BY StepSpares
<1>. QED BY <1>1, TruthHolds, PTL DEF Spec, BadUntouched

-----------------------------------------------------------------------------
(* Pages, blocks and the number of usable blocks *)

LEMMA DivisionParts ==
    ASSUME NEW p \in Nat, NEW n \in Nat \ {0}
    PROVE  p = n * (p \div n) + (p % n)
BY SMTT(30)

LEMMA DivisionUnique ==
    ASSUME NEW n \in Nat \ {0}, NEW a \in Nat, NEW b \in Nat,
           NEW r \in 0 .. n - 1, NEW s \in 0 .. n - 1, n * a + r = n * b + s
    PROVE  a = b /\ r = s
<1>1. ASSUME NEW x \in Nat, NEW y \in Nat, x < y, NEW u \in 0 .. n - 1, NEW v \in 0 .. n - 1
      PROVE  n * x + u # n * y + v
  <2>1. PICK d \in Nat : y = x + 1 + d
      <3>1. y - x - 1 \in Nat /\ y = x + 1 + (y - x - 1)
          BY <1>1
      <3>. QED BY <3>1
  <2>2. n * y = n * x + n + n * d /\ n * d \in Nat
      BY <2>1
  <2>. QED BY <1>1, <2>2
<1>2. ~(a < b) /\ ~(b < a)
    BY <1>1
<1>. QED BY <1>2

\* The pages up to the end of the block of page p.
LEMMA SameBlock ==
    ASSUME NEW p \in Nat, NEW n \in Nat \ {0}, NEW j \in Nat, (p % n) + j < n
    PROVE  (p + j) \div n = p \div n /\ (p + j) % n = (p % n) + j
<1>1. /\ p = n * (p \div n) + (p % n) /\ p + j = n * ((p + j) \div n) + ((p + j) % n)
      /\ p + j \in Nat
    BY DivisionParts
<1>2. /\ p \div n \in Nat /\ p % n \in 0 .. n - 1
      /\ (p + j) \div n \in Nat /\ (p + j) % n \in 0 .. n - 1
    BY <1>1, Division
<1>3. (p % n) + j \in 0 .. n - 1
    BY <1>2
<1>. QED BY <1>1, <1>2, <1>3, DivisionUnique

LEMMA NextBlock ==
    ASSUME NEW p \in Nat, NEW n \in Nat \ {0}
    PROVE  /\ (p + (n - (p % n))) \div n = (p \div n) + 1
           /\ (p + (n - (p % n))) % n = 0
<1>. DEFINE z == p + (n - (p % n))
<1>1. /\ p = n * (p \div n) + (p % n) /\ p \div n \in Nat /\ p % n \in 0 .. n - 1
    BY DivisionParts, Division
<1>2. z \in Nat /\ z = n * ((p \div n) + 1) + 0
    BY <1>1
<1>3. z = n * (z \div n) + (z % n) /\ z \div n \in Nat /\ z % n \in 0 .. n - 1
    BY <1>2, DivisionParts, Division
<1>4. (p \div n) + 1 \in Nat /\ 0 \in 0 .. n - 1
    BY <1>1
<1>5. n * (z \div n) + (z % n) = n * ((p \div n) + 1) + 0
    BY <1>2, <1>3
<1>. HIDE DEF z
<1>6. z \div n = (p \div n) + 1 /\ z % n = 0
    BY <1>3, <1>4, <1>5, DivisionUnique
<1>. QED BY <1>6 DEF z

\* The usable blocks from lo up to hi, where m holds the marks.
Count(m, lo, hi) == Cardinality({c \in lo .. hi - 1 : CheckBad => m[c] = {}})

LEMMA CountFinite ==
    ASSUME NEW m, NEW lo \in Nat, NEW hi \in Nat
    PROVE  /\ IsFiniteSet({c \in lo .. hi - 1 : CheckBad => m[c] = {}})
           /\ Count(m, lo, hi) \in Nat
<1>1. IsFiniteSet(lo .. hi - 1)
    BY FS_Interval
<1>2. {c \in lo .. hi - 1 : CheckBad => m[c] = {}} \subseteq lo .. hi - 1
    OBVIOUS
<1>3. IsFiniteSet({c \in lo .. hi - 1 : CheckBad => m[c] = {}})
    BY <1>1, <1>2, FS_Subset
<1>. QED BY <1>3, FS_CardinalityType DEF Count

LEMMA CountNone ==
    ASSUME NEW m, NEW lo \in Nat
    PROVE  Count(m, lo, lo) = 0
<1>1. {c \in lo .. lo - 1 : CheckBad => m[c] = {}} = {}
    OBVIOUS
<1>. QED BY <1>1, FS_EmptySet DEF Count

LEMMA CountNext ==
    ASSUME NEW m, NEW lo \in Nat, NEW hi \in Nat, lo <= hi
    PROVE  Count(m, lo, hi + 1) =
             Count(m, lo, hi) + (IF CheckBad => m[hi] = {} THEN 1 ELSE 0)
<1>. DEFINE S(h) == {c \in lo .. h - 1 : CheckBad => m[c] = {}}
<1>1. IsFiniteSet(S(hi)) /\ Count(m, lo, hi) \in Nat
    BY CountFinite
<1>2. hi \notin S(hi)
    OBVIOUS
<1>3. CASE CheckBad => m[hi] = {}
  <2>1. S(hi + 1) = S(hi) \cup {hi}
      BY <1>3
  <2>2. Cardinality(S(hi) \cup {hi}) = Cardinality(S(hi)) + 1
      BY <1>1, <1>2, FS_AddElement
  <2>. QED BY <1>3, <2>1, <2>2 DEF Count
<1>4. CASE ~(CheckBad => m[hi] = {})
  <2>1. ASSUME NEW c \in lo .. (hi + 1) - 1, CheckBad => m[c] = {}
        PROVE  c \in lo .. hi - 1
    <3>1. c # hi
        BY <1>4, <2>1
    <3>. QED BY <3>1
  <2>2. S(hi + 1) \subseteq S(hi) /\ S(hi) \subseteq S(hi + 1)
      BY <2>1
  <2>3. S(hi + 1) = S(hi)
      BY <2>2
  <2>4. Count(m, lo, hi + 1) = Count(m, lo, hi)
      BY <2>3 DEF Count
  <2>5. (IF CheckBad => m[hi] = {} THEN 1 ELSE 0) = 0
      BY <1>4
  <2>. QED BY <1>1, <2>4, <2>5
<1>. QED BY <1>3, <1>4

LEMMA CountSame ==
    ASSUME NEW m, NEW w, NEW lo \in Nat, NEW hi \in Nat,
           \A c \in lo .. hi - 1 : m[c] = w[c]
    PROVE  Count(m, lo, hi) = Count(w, lo, hi)
<1>1. {c \in lo .. hi - 1 : CheckBad => m[c] = {}}
        = {c \in lo .. hi - 1 : CheckBad => w[c] = {}}
    OBVIOUS
<1>. QED BY <1>1 DEF Count

LEMMA NthIsCount ==
    ASSUME NEW b
    PROVE  /\ Nth(b) = Count(marks, Base(call.page), b)
           /\ Nth(b)' = Count(marks', Base(call'.page), b')
BY DEF Nth, Count, Usable, Base

-----------------------------------------------------------------------------
(* Where a call is *)

\* The call that is under way lies in the request.
InRequest ==
    pc # "idle" =>
        /\ Ranged(req) /\ req.count > 0 /\ res = "none"
        /\ req.page <= call.page /\ call.page + call.count <= req.page + req.count
        /\ ~req.tool \/ req.op = "erase" => call.page = req.page /\ call.count = req.count
        /\ call.done + call.left = IF req.op = "erase" THEN Covered(req) ELSE call.count
        /\ pc = "locate" => call.done = 0
        /\ pc \in Working => pc = "do" \/ req.op \in {"write", "erase"}

\* The page or block that comes next belongs to the block that the call is at,
\* by the number of usable blocks in front of it.
InPlace ==
    pc # "idle" =>
        /\ Base(call.page) <= call.block
        /\ IF req.op = "erase" THEN call.offset = 0
           ELSE call.left > 0 => call.offset = (call.page + call.done) % PagesPerBlock
        /\ pc = "locate" => call.skip + Nth(call.block) = Skip(call.page)
        /\ pc # "locate" =>
               IF req.op = "erase" THEN Nth(call.block) = Skip(call.page) + call.done
               ELSE call.left > 0 =>
                        Nth(call.block) = LogicalBlock(call.page + call.done)
        /\ pc \in Working => call.block < End

Placed == Truth /\ InRequest /\ InPlace

\* The kinds of steps of a call.  All of them leave the blocks alone that the
\* call is not at.
Spared == \A b \in Blocks : b # call.block => page'[b] = page[b] /\ marks'[b] = marks[b]

SameCall == UNCHANGED <<req, res>> /\ call'.page = call.page /\ call'.count = call.count

SameWork == UNCHANGED <<call.offset, call.left, call.done>>

CountsOff ==
    /\ pc = "locate" /\ pc' = "locate" /\ SameCall /\ SameWork
    /\ call'.block = call.block + 1 /\ call'.skip = call.skip - 1
    /\ call.block \in Blocks /\ marks'[call.block] = {}

PassesOver ==
    /\ \/ pc \in {"locate", "next"} /\ pc' = pc
       \/ pc = "mark" /\ pc' = "next"
    /\ SameCall /\ SameWork
    /\ call'.block = call.block + 1 /\ call'.skip = call.skip
    /\ call.block \in Blocks /\ marks'[call.block] # {}

Stays ==
    /\ pc \in Working /\ pc' \in Working \cup {"next"} /\ req.op \in {"write", "erase"}
    /\ SameCall /\ SameWork /\ call'.block = call.block

GoesOn ==
    LET n == IF req.op = "erase" THEN 1 ELSE Chunk
    IN  /\ pc \in Working /\ pc' = "next" /\ SameCall
        /\ req.op # "erase" => pc = "do"
        /\ call'.block = call.block + 1 /\ call'.offset = 0
        /\ call'.left = call.left - n /\ call'.done = call.done + n
        /\ marks'[call.block] = {}

Returns == \E x \in Results : Return(x)

\* What the answer for a block says of its marks.
LEMMA LookSays ==
    ASSUME Truth, MarksReadable, CheckBad, call.block \in Blocks, UNCHANGED marks,
           NEW answer, Look(call.block, answer)
    PROVE  /\ answer = "good" => marks[call.block] = {}
           /\ answer = "bad" => marks[call.block] # {}
<1>1. BbtTruthful' /\ BbtTruthful /\ bbt \in [Blocks -> BbtStates]
    BY LookTruthful DEF Truth, Inv, TypeOK
<1>2. CASE bbt[call.block] = "unknown"
  <2>1. answer = Checked(call.block, {})
      BY <1>2 DEF Look, Probe, Fails, MarksReadable
  <2>. QED BY <2>1, CheckedReads
<1>3. CASE bbt[call.block] # "unknown"
  <2>1. answer = IF bbt[call.block] = "bad" THEN "bad" ELSE "good"
      BY <1>3 DEF Look
  <2>2. bbt[call.block] \in {"good", "bad", "erased"}
      BY <1>1, <1>3 DEF BbtStates
  <2>. QED BY <1>1, <2>1, <2>2 DEF BbtTruthful
<1>. QED BY <1>2, <1>3

\* The block in use is a good one.
LEMMA UsedIsGood ==
    ASSUME Truth, CheckBad, pc \in Working
    PROVE  /\ call.block \in Blocks /\ marks[call.block] = {}
           /\ call.left \in Nat \ {0}
BY DEF Truth, Inv, InUse, BbtTruthful, TypeOK, Locals

LEMMA SearchKinds ==
    ASSUME Truth, MarksReadable, CheckBad, PassGood \/ PassBad
    PROVE  Spared /\ (CountsOff \/ PassesOver)
<1>1. /\ call \in Locals /\ call.block \in Blocks /\ UNCHANGED <<page, marks>>
      /\ pc \in {"locate", "next"}
    BY Bounds DEF PassGood, PassBad, Looking, chip, Truth, Inv, TypeOK, Locals, Blocks
<1>2. Spared
    BY <1>1 DEF Spared
<1>3. CASE PassGood
  <2>1. Look(call.block, "good")
      BY <1>3 DEF PassGood
  <2>2. marks'[call.block] = {}
      BY <1>1, <2>1, LookSays
  <2>. QED BY <1>1, <1>2, <1>3, <2>2
           DEF PassGood, Counting, Move, CountsOff, SameCall, SameWork, Locals
<1>4. CASE PassBad
  <2>1. Look(call.block, "bad")
      BY <1>4 DEF PassBad
  <2>2. marks'[call.block] # {}
      BY <1>1, <2>1, LookSays
  <2>3. call' = [call EXCEPT !.block = @ + 1] /\ pc' = pc /\ UNCHANGED <<req, res>>
      BY <1>4 DEF PassBad, Move
  <2>4. SameCall /\ SameWork /\ call'.block = call.block + 1 /\ call'.skip = call.skip
      BY <1>1, <2>3 DEF SameCall, SameWork, Locals
  <2>. QED BY <1>1, <1>2, <2>2, <2>3, <2>4 DEF PassesOver
<1>. QED BY <1>3, <1>4

LEMMA AfterFields ==
    ASSUME call \in Locals, NEW n, Move(After(n), "next")
    PROVE  /\ pc' = "next" /\ SameCall
           /\ call'.block = call.block + 1 /\ call'.offset = 0
           /\ call'.left = call.left - n /\ call'.done = call.done + n
BY DEF Move, After, SameCall, Locals

LEMMA WriteKinds ==
    ASSUME Truth, CheckBad, WriteOk \/ WriteIgnored \/ WriteSwallowed \/ WriteFails
    PROVE  Spared /\ (GoesOn \/ Stays \/ Returns)
<1>1. pc = "do" /\ req.op = "write" /\ UNCHANGED marks
    BY DEF WriteOk, WriteIgnored, WriteSwallowed, WriteFails, StopsAfter, Writing
<1>2. /\ page \in PageStates /\ call.block \in Blocks /\ marks[call.block] = {}
      /\ pc \in Working /\ call \in Locals
    BY <1>1, UsedIsGood DEF Truth, Inv, TypeOK, PageStates, Working
<1>3. Spared
  <2>1. \E k0, n, data, failed : Program(call.block, k0, n, data, failed)
      BY DEF WriteOk, WriteIgnored, WriteSwallowed, WriteFails, StopsAfter
  <2>. QED BY <1>1, <1>2, <2>1 DEF Program, PageStates, Spared
<1>4. CASE WriteOk \/ WriteIgnored \/ WriteSwallowed
  <2>1. Move(After(Chunk), "next")
      BY <1>4 DEF WriteOk, WriteIgnored, WriteSwallowed
  <2>. QED BY <1>1, <1>2, <1>3, <2>1, AfterFields DEF GoesOn
<1>5. CASE WriteFails
  <2>1. CASE call.offset = 0
      BY <1>1, <1>2, <1>3, <1>5, <2>1 DEF WriteFails, Move, Stays, SameCall, SameWork, Working
  <2>2. CASE call.offset # 0
      BY <1>3, <1>5, <2>2 DEF WriteFails, Returns, Results
  <2>. QED BY <2>1, <2>2
<1>. QED BY <1>4, <1>5

LEMMA EraseKinds ==
    ASSUME Truth, CheckBad, EraseBlock \/ EraseToTorture
    PROVE  Spared /\ (GoesOn \/ Stays)
<1>1. /\ page \in PageStates /\ marks \in MarkStates /\ call.block \in Blocks
      /\ marks[call.block] = {} /\ pc \in Working /\ call \in Locals /\ req.op = "erase"
    BY UsedIsGood DEF EraseBlock, EraseToTorture, Erasing, Truth, Inv, TypeOK,
                      PageStates, MarkStates, Working
<1>2. CASE EraseBlock
  <2>1. ErasedBlock(call.block) /\ Move(After(1), "next")
      BY <1>2 DEF EraseBlock, EraseOk
  <2>2. Spared /\ marks'[call.block] = {}
      BY <1>1, <2>1 DEF ErasedBlock, Spared, PageStates, MarkStates
  <2>. QED BY <1>1, <2>1, <2>2, AfterFields DEF GoesOn
<1>3. CASE EraseToTorture
  <2>1. Spared
      BY <1>1, <1>3 DEF EraseToTorture, EraseFails, Spared, PageStates
  <2>. QED BY <1>1, <1>3, <2>1 DEF EraseToTorture, Move, Stays, SameCall, SameWork, Working
<1>. QED BY <1>2, <1>3

LEMMA TortureKinds ==
    ASSUME Truth, CheckBad, InRequest,
           TortureErases \/ TorturePrograms \/ TorturePasses \/ TortureFails
    PROVE  Spared /\ (GoesOn \/ Stays \/ Returns)
<1>1. /\ page \in PageStates /\ marks \in MarkStates /\ call \in Locals /\ pc \in Working
      /\ pc # "pattern" /\ pc # "do"
    BY DEF TortureErases, TorturePrograms, TorturePasses, TortureFails, TortureFault,
           Truth, Inv, TypeOK, PageStates, MarkStates, Working
<1>2. /\ call.block \in Blocks /\ marks[call.block] = {}
      /\ req.op \in {"write", "erase"}
    BY <1>1, UsedIsGood DEF InRequest, Working
<1>3. CASE TortureErases
  <2>1. Spared
      BY <1>1, <1>2, <1>3 DEF TortureErases, EraseOk, ErasedBlock, Spared, PageStates, MarkStates
  <2>. QED BY <1>1, <1>2, <1>3, <2>1
           DEF TortureErases, Move, AfterErase, Stays, SameCall, SameWork, Working
<1>4. CASE TorturePasses
  <2>1. Spared /\ marks'[call.block] = {}
      BY <1>1, <1>2, <1>4 DEF TorturePasses, EraseOk, ErasedBlock, Spared, PageStates, MarkStates
  <2>2. CASE req.op = "write"
      BY <1>1, <1>4, <2>1, <2>2
         DEF TorturePasses, Move, Stays, SameCall, SameWork, Working, Locals
  <2>3. CASE req.op = "erase"
    <3>1. Move(After(1), "next")
        BY <1>4, <2>3 DEF TorturePasses
    <3>. QED BY <1>1, <2>1, <2>3, <3>1, AfterFields DEF GoesOn
  <2>. QED BY <1>2, <2>2, <2>3
<1>5. CASE TortureFails
  <2>1. Spared
    <3>1. ErasedBlock(call.block) \/ EraseFails(call.block)
        BY <1>1, <1>5 DEF TortureFails, TortureFault, EraseOk
    <3>. QED BY <1>1, <1>2, <3>1 DEF ErasedBlock, EraseFails, Spared, PageStates, MarkStates
  <2>. QED BY <1>1, <1>2, <1>5, <2>1
           DEF TortureFails, Move, Stays, SameCall, SameWork, Working, Returns, Results
<1>. QED BY <1>1, <1>3, <1>4, <1>5 DEF TorturePrograms

LEMMA GiveUpKinds ==
    ASSUME Truth, CheckBad, GiveUpBlock \/ GiveUpFails
    PROVE  Spared /\ (PassesOver \/ Returns)
<1>1. /\ page \in PageStates /\ marks \in MarkStates /\ call \in Locals /\ pc = "mark"
      /\ call.block \in Blocks
    BY UsedIsGood DEF GiveUpBlock, GiveUpFails, Truth, Inv, TypeOK, PageStates,
                      MarkStates, Working
<1>2. Spared
    BY <1>1 DEF GiveUpBlock, GiveUpFails, MarkOk, MarkFails, Spared, MarkStates
<1>3. CASE GiveUpBlock
  <2>1. marks'[call.block] # {}
      BY <1>1, <1>3, ChipAssumption DEF GiveUpBlock, MarkOk, MarkStates
  <2>2. /\ call' = [call EXCEPT !.block = @ + 1, !.tries = @ - 1] /\ pc' = "next"
        /\ UNCHANGED <<req, res>>
      BY <1>3 DEF GiveUpBlock, Move
  <2>3. SameCall /\ SameWork /\ call'.block = call.block + 1 /\ call'.skip = call.skip
      BY <1>1, <2>2 DEF SameCall, SameWork, Locals
  <2>. QED BY <1>1, <1>2, <2>1, <2>2, <2>3 DEF PassesOver
<1>4. CASE GiveUpFails
    BY <1>2, <1>4 DEF GiveUpFails, Returns, Results
<1>. QED BY <1>3, <1>4

LEMMA ReadKinds ==
    ASSUME Truth, CheckBad, ReadBlock \/ Differs \/ ReadSwallowed \/ ReadFails
    PROVE  Spared /\ (GoesOn \/ Returns)
<1>1. /\ pc = "do" /\ req.op \in {"read", "verify"} /\ UNCHANGED <<page, marks>>
      /\ call \in Locals
    BY DEF ReadBlock, Differs, ReadSwallowed, ReadFails, Reading, chip, Truth, Inv, TypeOK
<1>2. Spared /\ pc \in Working /\ marks'[call.block] = {}
    BY <1>1, UsedIsGood DEF Spared, Working
<1>3. CASE ReadBlock \/ ReadSwallowed
  <2>1. Move(After(Chunk), "next")
      BY <1>3 DEF ReadBlock, ReadSwallowed
  <2>. QED BY <1>1, <1>2, <2>1, AfterFields DEF GoesOn
<1>4. CASE Differs \/ ReadFails
    BY <1>2, <1>4 DEF Differs, ReadFails, Returns, Results
<1>. QED BY <1>3, <1>4

\* Every step of a call is of one of these kinds.
LEMMA ServeKinds ==
    ASSUME Truth, MarksReadable, CheckBad, InRequest, Serve
    PROVE  /\ Spared
           /\ CountsOff \/ Located \/ Chosen \/ PassesOver \/ Stays \/ GoesOn \/ Returns
<1>1. CASE Located \/ Chosen
    BY <1>1 DEF Located, Chosen, chip, Spared
<1>2. CASE LookFails \/ NoSpace \/ Ends
    BY <1>2 DEF LookFails, NoSpace, Ends, chip, Spared, Returns, Results
<1>3. CASE PassGood \/ PassBad
    BY <1>3, SearchKinds
<1>4. CASE WriteOk \/ WriteIgnored \/ WriteSwallowed \/ WriteFails
    BY <1>4, WriteKinds
<1>5. CASE EraseBlock \/ EraseToTorture
    BY <1>5, EraseKinds
<1>6. CASE TortureErases \/ TorturePrograms \/ TorturePasses \/ TortureFails
    BY <1>6, TortureKinds
<1>7. CASE GiveUpBlock \/ GiveUpFails
    BY <1>7, GiveUpKinds
<1>8. CASE ReadBlock \/ Differs \/ ReadSwallowed \/ ReadFails
    BY <1>8, ReadKinds
<1>. QED BY <1>1, <1>2, <1>3, <1>4, <1>5, <1>6, <1>7, <1>8 DEF Serve

LEMMA CallFacts ==
    ASSUME Truth
    PROVE  /\ call.page \in Nat /\ call.count \in Nat /\ call.block \in Nat
           /\ call.skip \in Nat /\ call.offset \in Nat /\ call.offset < PagesPerBlock
           /\ call.left \in Nat /\ call.done \in Nat
           /\ Base(call.page) \in Nat /\ Skip(call.page) \in Nat
           /\ req \in CallRecords /\ req.page \in Nat /\ req.count \in Nat
           /\ PagesPerBlock \in Nat \ {0}
<1>1. call \in Locals /\ req \in CallRecords /\ PagesPerBlock \in Nat \ {0}
    BY ChipAssumption DEF Truth, Inv, TypeOK
<1>2. call.page \in Nat /\ req.page \in Nat /\ req.count \in Nat
    BY <1>1 DEF Locals, CallRecords
<1>3. /\ call.count \in Nat /\ call.block \in Nat /\ call.skip \in Nat
      /\ call.left \in Nat /\ call.done \in Nat /\ call.offset \in Pages
    BY <1>1 DEF Locals
<1>4. Base(call.page) \in Nat /\ Skip(call.page) \in Nat
    BY <1>2, BaseSkip
<1>. QED BY <1>1, <1>2, <1>3, <1>4 DEF Pages

\* The blocks in front of the one that the call is at are counted as before.
LEMMA NthKept ==
    ASSUME Truth, Spared, call'.page = call.page, NEW b \in Blocks, b <= call.block
    PROVE  Count(marks', Base(call'.page), b) = Nth(b)
<1>1. Base(call.page) \in Nat /\ call.block \in Nat /\ b \in Nat
    BY CallFacts, Bounds DEF Blocks
<1>2. \A c \in Base(call.page) .. b - 1 : marks'[c] = marks[c]
    BY <1>1, Bounds DEF Spared, Blocks
<1>3. Count(marks', Base(call.page), b) = Count(marks, Base(call.page), b)
    BY <1>1, <1>2, CountSame
<1>4. Base(call'.page) = Base(call.page)
    OBVIOUS
<1>. QED BY <1>3, <1>4, NthIsCount

\* A call that is entered lies at the start of what it was asked for.
LEMMA EnterPlaces ==
    ASSUME CheckBad, NEW r \in CallRecords, Ranged(r), r.count > 0, NEW p \in Nat, NEW n \in Nat,
           Enter(r, p, n), req' = r, res' = "none", r.page <= p, p + n <= r.page + r.count,
           ~r.tool \/ r.op = "erase" => p = r.page /\ n = r.count
    PROVE  InRequest' /\ InPlace'
<1>1. /\ pc' = "locate" /\ call'.page = p /\ call'.count = n /\ call'.block = Base(p)
      /\ call'.skip = Skip(p) /\ call'.done = 0
      /\ call'.offset = IF r.op = "erase" THEN 0 ELSE p % PagesPerBlock
      /\ call'.left = IF r.op = "erase" THEN Covered(r) ELSE n
    BY DEF Enter
<1>2. Base(p) \in Nat /\ Skip(p) \in Nat /\ Covered(r) \in Nat
    BY BaseSkip, CoveredNat
<1>3. InRequest'
  <2>1. Ranged(r)' /\ Ranged(req)'
      BY DEF Ranged
  <2>2. Covered(req)' = Covered(r)
      BY DEF Covered
  <2>. QED BY <1>1, <1>2, <2>1, <2>2 DEF InRequest, Working
<1>4. Nth(call.block)' = 0
    BY <1>1, <1>2, CountNone, NthIsCount DEF Nth, Usable, Count, Base
<1>5. InPlace'
  <2>1. Skip(call.page)' = Skip(p) /\ Base(call.page)' = Base(p)
      BY <1>1 DEF Skip, Base
  <2>. QED BY <1>1, <1>2, <1>4, <2>1 DEF InPlace, Working
<1>. QED BY <1>3, <1>5

LEMMA BatchFits ==
    ASSUME NEW r \in CallRecords, NEW n \in Nat
    PROVE  /\ Batch(r, n) \in Nat /\ Batch(r, n) <= n
           /\ ~r.tool \/ r.op = "erase" => Batch(r, n) = n
BY CallAssumption DEF Batch, Least

LEMMA ReturnsPlaced ==
    ASSUME Truth, CheckBad, InRequest, pc # "idle", Returns
    PROVE  InRequest' /\ InPlace'
<1>. DEFINE next == call.page + call.count
            left == req.page + req.count - next
<1>1. PICK x \in Results : Return(x)
    BY DEF Returns
<1>2. CASE x = "ok" /\ left > 0
  <2>1. Enter(req, next, Batch(req, left)) /\ req' = req /\ res' = res
      BY <1>1, <1>2 DEF Return
  <2>2. next \in Nat /\ left \in Nat /\ req \in CallRecords
      BY <1>2, CallFacts
  <2>3. req.tool /\ req.op # "erase" /\ req.page <= next /\ Ranged(req) /\ req.count > 0
        /\ res = "none"
      BY <1>2, CallFacts DEF InRequest
  <2>4. Batch(req, left) \in Nat /\ next + Batch(req, left) <= req.page + req.count
      BY <2>2, BatchFits, CallFacts
  <2>. HIDE DEF next, left
  <2>. QED BY <2>1, <2>2, <2>3, <2>4, EnterPlaces
<1>3. CASE ~(x = "ok" /\ left > 0)
    BY <1>1, <1>3 DEF Return, InRequest, InPlace, Working
<1>. QED BY <1>2, <1>3

\* The block that was passed counts if it carries no mark.
LEMMA NthNext ==
    ASSUME Truth, CheckBad, Spared, call.block \in Blocks, call'.page = call.page,
           Base(call.page) <= call.block
    PROVE  Count(marks', Base(call'.page), call.block + 1)
             = Nth(call.block) + (IF marks'[call.block] = {} THEN 1 ELSE 0)
<1>1. /\ call.block \in Nat /\ Base(call'.page) \in Nat
      /\ Base(call'.page) <= call.block
    BY CallFacts
<1>2. Count(marks', Base(call'.page), call.block) = Nth(call.block)
    BY <1>1, NthKept
<1>3. Count(marks', Base(call'.page), call.block + 1)
        = Count(marks', Base(call'.page), call.block)
            + (IF CheckBad => marks'[call.block] = {} THEN 1 ELSE 0)
    BY <1>1, CountNext
<1>4. (CheckBad => marks'[call.block] = {}) <=> marks'[call.block] = {}
    OBVIOUS
<1>. QED BY <1>2, <1>3, <1>4

LEMMA NthNat ==
    ASSUME Truth
    PROVE  Nth(call.block) \in Nat
<1>1. Count(marks, Base(call.page), call.block) \in Nat
    BY CallFacts, CountFinite
<1>. QED BY <1>1, NthIsCount

LEMMA SearchPlaced ==
    ASSUME Truth, CheckBad, InRequest, InPlace, Spared,
           CountsOff \/ PassesOver \/ Located \/ Chosen
    PROVE  InRequest' /\ InPlace'
<1>1. CASE CountsOff
  <2>1. /\ pc = "locate" /\ pc' = "locate" /\ UNCHANGED <<req, res>>
        /\ UNCHANGED <<call.page, call.count, call.offset, call.left, call.done>>
        /\ call'.block = call.block + 1 /\ call'.skip = call.skip - 1
      BY <1>1 DEF CountsOff, SameCall, SameWork
  <2>2. InRequest'
      BY <2>1 DEF InRequest, Ranged, Covered, Working
  <2>3. Nth(call.block)' = Nth(call.block) + 1
    <3>1. Base(call.page) <= call.block
        BY <2>1 DEF InPlace
    <3>2. Count(marks', Base(call'.page), call.block + 1) = Nth(call.block) + 1
        BY <1>1, <2>1, <3>1, NthNext DEF CountsOff
    <3>. QED BY <2>1, <3>2, NthIsCount DEF Nth, Count, Usable, Base
  <2>4. Base(call.page)' = Base(call.page) /\ Skip(call.page)' = Skip(call.page)
      BY <2>1 DEF Base, Skip
  <2>5. InPlace'
      BY <2>1, <2>3, <2>4, CallFacts, NthNat DEF InPlace, Working
  <2>. QED BY <2>2, <2>5
<1>2. CASE PassesOver
  <2>1. /\ pc \in {"locate", "next", "mark"} /\ pc' \in {"locate", "next"}
        /\ pc = "locate" <=> pc' = "locate"
        /\ UNCHANGED <<req, res, call.page, call.count, call.offset, call.left, call.done>>
        /\ call'.block = call.block + 1 /\ call'.skip = call.skip
      BY <1>2 DEF PassesOver, SameCall, SameWork
  <2>2. InRequest'
      BY <2>1 DEF InRequest, Ranged, Covered, Working
  <2>3. Nth(call.block)' = Nth(call.block)
    <3>1. Base(call.page) <= call.block
        BY <2>1 DEF InPlace
    <3>2. Count(marks', Base(call'.page), call.block + 1) = Nth(call.block) + 0
        BY <1>2, <2>1, <3>1, NthNext DEF PassesOver
    <3>. QED BY <2>1, <3>2, NthNat, NthIsCount DEF Nth, Count, Usable, Base
  <2>4. /\ Base(call.page)' = Base(call.page) /\ Skip(call.page)' = Skip(call.page)
        /\ LogicalBlock(call.page + call.done)' = LogicalBlock(call.page + call.done)
      BY <2>1 DEF Base, Skip, LogicalBlock
  <2>5. InPlace'
      BY <2>1, <2>3, <2>4, CallFacts, NthNat DEF InPlace, Working
  <2>. QED BY <2>2, <2>5
<1>3. CASE Located \/ Chosen
  <2>1. /\ UNCHANGED <<req, res, call, page, marks>>
        /\ \/ pc = "locate" /\ pc' = "next" /\ call.skip = 0
           \/ pc = "next" /\ pc' = "do" /\ call.block < End
      BY <1>3 DEF Located, Chosen, Looking, Choosing, Move, chip
  <2>2. InRequest'
      BY <2>1 DEF InRequest, Ranged, Covered, Working
  <2>3. /\ Nth(call.block)' = Nth(call.block)
        /\ Base(call.page)' = Base(call.page) /\ Skip(call.page)' = Skip(call.page)
        /\ LogicalBlock(call.page + call.done)' = LogicalBlock(call.page + call.done)
      BY <2>1 DEF Base, Skip, LogicalBlock, Nth, Usable
  <2>4. call.done = 0 => LogicalBlock(call.page + call.done) = Skip(call.page)
    <3>1. call.page \in Nat /\ PagesPerBlock \in Nat \ {0}
        BY CallFacts
    <3>2. call.page \div PagesPerBlock \in Nat
        BY <3>1, Division
    <3>3. call.page + 0 = call.page
        BY <3>1
    <3>. QED BY <3>2, <3>3 DEF LogicalBlock, Skip
  <2>5. InPlace'
      BY <2>1, <2>3, <2>4, CallFacts, NthNat DEF InPlace, InRequest, Working
  <2>. QED BY <2>2, <2>5
<1>. QED BY <1>1, <1>2, <1>3

LEMMA StaysPlaced ==
    ASSUME Truth, CheckBad, InRequest, InPlace, Spared, Stays
    PROVE  InRequest' /\ InPlace'
<1>1. /\ pc \in Working /\ pc' \in Working \cup {"next"} /\ req.op \in {"write", "erase"}
      /\ UNCHANGED <<req, res, call.page, call.count, call.offset, call.left, call.done,
                     call.block>>
    BY DEF Stays, SameCall, SameWork
<1>2. InRequest'
    BY <1>1 DEF InRequest, Ranged, Covered, Working
<1>3. /\ Base(call.page)' = Base(call.page) /\ Skip(call.page)' = Skip(call.page)
      /\ LogicalBlock(call.page + call.done)' = LogicalBlock(call.page + call.done)
    BY <1>1 DEF Base, Skip, LogicalBlock
<1>4. Nth(call.block)' = Nth(call.block)
  <2>1. call.block \in Blocks /\ call.block \in Nat
      BY <1>1, UsedIsGood, CallFacts
  <2>2. Count(marks', Base(call'.page), call.block) = Nth(call.block)
      BY <1>1, <2>1, NthKept
  <2>. QED BY <1>1, <2>2, NthIsCount DEF Nth, Count, Usable, Base
<1>5. InPlace'
    BY <1>1, <1>3, <1>4 DEF InPlace, Working
<1>. QED BY <1>2, <1>5

LEMMA GoesOnPlaced ==
    ASSUME Truth, CheckBad, InRequest, InPlace, Spared, GoesOn
    PROVE  InRequest' /\ InPlace'
<1>. DEFINE n == IF req.op = "erase" THEN 1 ELSE Chunk
            p == call.page + call.done
<1>1. /\ pc \in Working /\ pc' = "next" /\ UNCHANGED <<req, res, call.page, call.count>>
      /\ req.op # "erase" => pc = "do"
      /\ call'.block = call.block + 1 /\ call'.offset = 0
      /\ call'.left = call.left - n /\ call'.done = call.done + n
      /\ marks'[call.block] = {}
    BY DEF GoesOn, SameCall
<1>2. /\ n \in Nat /\ n <= call.left /\ call.left \in Nat /\ call.done \in Nat
      /\ call.block \in Blocks
    BY <1>1, ChunkFits, UsedIsGood, CallFacts DEF Truth
<1>3. InRequest'
  <2>1. call'.done + call'.left = call.done + call.left
      BY <1>1, <1>2
  <2>. QED BY <1>1, <2>1 DEF InRequest, Ranged, Covered, Working
<1>4. Nth(call.block)' = Nth(call.block) + 1
  <2>1. Base(call.page) <= call.block
      BY <1>1 DEF InPlace, Working
  <2>2. Count(marks', Base(call'.page), call.block + 1) = Nth(call.block) + 1
      BY <1>1, <1>2, <2>1, NthNext
  <2>. QED BY <1>1, <2>2, NthIsCount DEF Nth, Count, Usable, Base
<1>5. /\ Base(call.page)' = Base(call.page) /\ Skip(call.page)' = Skip(call.page)
      /\ Base(call.page) <= call.block
    BY <1>1 DEF Base, Skip, InPlace, Working
<1>6. CASE req.op = "erase"
  <2>1. Nth(call.block) = Skip(call.page) + call.done
      BY <1>1, <1>6 DEF InPlace, Working
  <2>2. Nth(call.block)' = Skip(call.page)' + call'.done
      BY <1>1, <1>4, <1>5, <1>6, <2>1, CallFacts
  <2>. QED BY <1>1, <1>3, <1>5, <1>6, <2>2, CallFacts DEF InPlace, Working
<1>7. CASE req.op # "erase" /\ ~(call'.left > 0)
    BY <1>1, <1>3, <1>5, <1>7, CallFacts DEF InPlace, Working
<1>8. CASE req.op # "erase" /\ call'.left > 0
  <2>1. /\ p \in Nat /\ PagesPerBlock \in Nat \ {0}
        /\ call.left > 0 /\ call.offset = p % PagesPerBlock
        /\ Nth(call.block) = LogicalBlock(p)
      BY <1>1, <1>2, <1>8, CallFacts, UsedIsGood DEF InPlace, Working
  <2>2. n = PagesPerBlock - (p % PagesPerBlock)
      BY <1>1, <1>2, <1>8, <2>1, CallFacts DEF Chunk, Least
  <2>3. call'.page + call'.done = p + (PagesPerBlock - (p % PagesPerBlock))
      BY <1>1, <1>2, <2>2, CallFacts
  <2>4. /\ (call'.page + call'.done) \div PagesPerBlock = (p \div PagesPerBlock) + 1
        /\ (call'.page + call'.done) % PagesPerBlock = 0
      BY <2>1, <2>3, NextBlock
  <2>5. LogicalBlock(call.page + call.done)' = LogicalBlock(p) + 1
    <3>1. p \div PagesPerBlock \in Nat /\ call.page \div PagesPerBlock \in Nat
        BY <2>1, CallFacts, Division
    <3>. QED BY <1>1, <2>4, <3>1 DEF LogicalBlock
  <2>. QED BY <1>1, <1>3, <1>4, <1>5, <1>8, <2>1, <2>4, <2>5, CallFacts DEF InPlace, Working
<1>. QED BY <1>6, <1>7, <1>8

LEMMA ServeRuns == Serve => pc # "idle"
BY DEF Serve, PassGood, PassBad, LookFails, Located, NoSpace, Chosen, Ends,
       WriteOk, WriteIgnored, WriteSwallowed, WriteFails, StopsAfter, Writing,
       EraseBlock, EraseToTorture, Erasing, TortureErases, TorturePrograms,
       TorturePasses, TortureFails, TortureFault, GiveUpBlock, GiveUpFails,
       ReadBlock, Differs, ReadSwallowed, ReadFails, Reading, Looking, Counting, Choosing

\* What a call of the FTL is at lies where the request says, by the number of
\* blocks that carry no mark.
LEMMA PlacedStep ==
    ASSUME MarksReadable, CheckBad
    PROVE  Placed /\ [Next]_vars => Placed'
<1>. SUFFICES ASSUME Placed, [Next]_vars PROVE InRequest' /\ InPlace'
    BY TruthStep DEF Placed
<1>. USE DEF Placed
<1>1. CASE Serve
  <2>1. pc # "idle"
      BY <1>1, ServeRuns
  <2>. QED BY <1>1, <2>1, ServeKinds, SearchPlaced, StaysPlaced, GoesOnPlaced, ReturnsPlaced
<1>2. CASE Ask
  <2>1. PICK r \in Calls : Start(r) \/ Rejected(r) \/ MarkBad(r) \/ Reprobe(r) \/ FullScan(r)
      BY <1>2 DEF Ask
  <2>2. CASE Start(r)
    <3>1. r \in CallRecords /\ r.page \in Nat /\ r.count \in Nat
        BY CallAssumption DEF CallRecords
    <3>2. /\ Batch(r, r.count) \in Nat /\ Batch(r, r.count) <= r.count
          /\ ~r.tool \/ r.op = "erase" => Batch(r, r.count) = r.count
        BY <3>1, BatchFits
    <3>3. Enter(r, r.page, Batch(r, r.count)) /\ req' = r /\ Ranged(r) /\ r.count > 0
          /\ res' = "none"
        BY <2>2 DEF Start
    <3>. QED BY <3>1, <3>2, <3>3, EnterPlaces
  <2>3. CASE Rejected(r) \/ MarkBad(r) \/ Reprobe(r) \/ FullScan(r)
      BY <2>3 DEF Rejected, MarkBad, Reprobe, FullScan, Asked, InRequest, InPlace, Working
  <2>. QED BY <2>1, <2>2, <2>3
<1>3. CASE UNCHANGED vars
    BY <1>3 DEF vars, InRequest, InPlace, Ranged, Covered, Base, Skip, Nth, LogicalBlock, Usable
<1>. QED BY <1>1, <1>2, <1>3 DEF Next

LEMMA PlacedHolds ==
    ASSUME MarksReadable, CheckBad
    PROVE  Spec => []Placed
<1>1. Init => InRequest /\ InPlace
    BY DEF Init, InRequest, InPlace, Working
<1>2. Init => Truth
    BY InitInv DEF Truth, BbtTruthful, Init
<1>. QED BY <1>1, <1>2, PlacedStep, PTL DEF Spec, Placed

-----------------------------------------------------------------------------
(* What a call has done *)

\* The place of page q is a block that the call has passed.
LiesBehind(q, allowed) ==
    \E b \in Blocks : /\ b < call.block /\ IsPlace(b, LogicalBlock(q))
                      /\ page[b][q % PagesPerBlock] \in allowed

WrittenBehind ==
    req.op = "write" /\ ~req.tool /\ ~req.spread /\ res # "einval" =>
        \A i \in 0 .. call.done - 1 :
            LiesBehind(call.page + i, {call.page + i, Mixed})

BlankBehind(n) ==
    \E b \in Blocks : /\ b < call.block /\ IsPlace(b, n)
                      /\ \A k \in Pages : page[b][k] = Blank

ErasedBehind ==
    req.op = "erase" /\ res # "einval" =>
        \A i \in 0 .. call.done - 1 : BlankBehind(Skip(call.page) + i)

Done == Placed /\ WrittenBehind /\ ErasedBehind

\* A place behind the call stays one.
LEMMA PlaceKept ==
    ASSUME Truth, Spared, call'.page = call.page, NEW b \in Blocks, b < call.block,
           NEW n \in Int, IsPlace(b, n)
    PROVE  IsPlace(b, n)' /\ page'[b] = page[b]
<1>1. b # call.block /\ b <= call.block
    BY CallFacts, Bounds DEF Blocks
<1>2. Count(marks', Base(call'.page), b) = n
    BY <1>1, NthKept DEF IsPlace
<1>3. Nth(b)' = n
    BY <1>2 DEF Nth, Count, Usable, Base
<1>4. Usable(b)' /\ page'[b] = page[b]
    BY <1>1 DEF Spared, IsPlace, Usable
<1>. QED BY <1>3, <1>4 DEF IsPlace, Base

LEMMA LogicalBlockInt ==
    ASSUME Truth, NEW q \in Nat
    PROVE  /\ LogicalBlock(q) \in Int
           /\ call'.page = call.page => LogicalBlock(q)' = LogicalBlock(q)
<1>1. q \div PagesPerBlock \in Nat /\ call.page \div PagesPerBlock \in Nat
    BY CallFacts, Division
<1>. QED BY <1>1 DEF LogicalBlock

\* A step that does not go back keeps what lies behind the call.
LEMMA BehindKept ==
    ASSUME Truth, Spared, call'.page = call.page, call'.block >= call.block,
           call'.block \in Nat
    PROVE  /\ \A q \in Nat : \A allowed : LiesBehind(q, allowed) => LiesBehind(q, allowed)'
           /\ \A n \in Int : BlankBehind(n) => BlankBehind(n)'
<1>1. ASSUME NEW b \in Blocks, b < call.block PROVE b < call'.block
    BY <1>1, CallFacts, Bounds DEF Blocks
<1>2. ASSUME NEW q \in Nat, NEW allowed, LiesBehind(q, allowed)
      PROVE  LiesBehind(q, allowed)'
  <2>1. PICK b \in Blocks : /\ b < call.block /\ IsPlace(b, LogicalBlock(q))
                            /\ page[b][q % PagesPerBlock] \in allowed
      BY <1>2 DEF LiesBehind
  <2>2. PICK n \in Int : n = LogicalBlock(q) /\ LogicalBlock(q)' = n
      BY LogicalBlockInt
  <2>3. IsPlace(b, n)' /\ page'[b] = page[b]
      BY <2>1, <2>2, PlaceKept
  <2>4. IsPlace(b, LogicalBlock(q))'
      BY <2>2, <2>3 DEF IsPlace
  <2>. QED BY <1>1, <2>1, <2>3, <2>4 DEF LiesBehind, Blocks
<1>3. ASSUME NEW n \in Int, BlankBehind(n) PROVE BlankBehind(n)'
  <2>1. PICK b \in Blocks : /\ b < call.block /\ IsPlace(b, n)
                            /\ \A k \in Pages : page[b][k] = Blank
      BY <1>3 DEF BlankBehind
  <2>2. IsPlace(b, n)' /\ page'[b] = page[b]
      BY <2>1, PlaceKept
  <2>. QED BY <1>1, <2>1, <2>2 DEF BlankBehind, Blocks, Pages
<1>. QED BY <1>2, <1>3

\* As long as a call goes on, what it has done stays done.
LEMMA DoneKept ==
    ASSUME Done, Spared, call'.page = call.page,
           call'.block >= call.block, call'.block \in Nat
    PROVE  /\ req.op = "write" /\ ~req.tool /\ ~req.spread /\ res # "einval" =>
                \A f \in Nat : f = call.page =>
                    \A i \in 0 .. call.done - 1 : LiesBehind(f + i, {f + i, Mixed})'
           /\ req.op = "erase" /\ res # "einval" =>
                \A s \in Nat : s = Skip(call.page) =>
                    \A i \in 0 .. call.done - 1 : BlankBehind(s + i)'
<1>1. /\ \A q \in Nat : \A allowed : LiesBehind(q, allowed) => LiesBehind(q, allowed)'
      /\ \A n \in Int : BlankBehind(n) => BlankBehind(n)'
    BY BehindKept DEF Done, Placed
<1>2. ASSUME NEW i \in 0 .. call.done - 1
      PROVE  call.page + i \in Nat /\ Skip(call.page) + i \in Int
    BY CallFacts DEF Done, Placed
<1>. QED BY <1>1, <1>2 DEF Done, WrittenBehind, ErasedBehind

\* While the call is the same and no page or block is added, all stays as it is.
LEMMA SameDone ==
    ASSUME Done, Spared, UNCHANGED req, res # "einval", call'.page = call.page,
           call'.block >= call.block, call'.block \in Nat, call'.done = call.done
    PROVE  WrittenBehind' /\ ErasedBehind'
<1>1. PICK f \in Nat, s \in Nat : f = call.page /\ s = Skip(call.page)
    BY CallFacts DEF Done, Placed
<1>2. /\ req.op = "write" /\ ~req.tool /\ ~req.spread /\ res # "einval" =>
            \A i \in 0 .. call.done - 1 : LiesBehind(f + i, {f + i, Mixed})'
      /\ req.op = "erase" /\ res # "einval" =>
            \A i \in 0 .. call.done - 1 : BlankBehind(s + i)'
    BY <1>1, DoneKept
<1>3. Skip(call.page)' = s
    BY <1>1 DEF Skip
<1>. QED BY <1>1, <1>2, <1>3 DEF WrittenBehind, ErasedBehind

\* A round of ftl_basic_write_pages that goes on has written its pages.
LEMMA WriteGoesOn ==
    ASSUME Serve, GoesOn, req.op = "write", ~req.tool, ~req.spread
    PROVE  WriteOk
<1>1. pc = "do" /\ pc' = "next"
    BY DEF GoesOn
<1>. QED BY <1>1
     DEF Serve, PassGood, PassBad, Looking, LookFails, Located, NoSpace, Counting, Choosing,
         Chosen, Ends, WriteIgnored, WriteSwallowed, WriteFails, Return, Enter, Move,
         EraseBlock, EraseToTorture, Erasing, TortureErases, TorturePrograms,
         TorturePasses, TortureFails, TortureFault, GiveUpBlock, GiveUpFails,
         ReadBlock, Differs, ReadSwallowed, ReadFails, Reading

\* A round of ftl_basic_erase_blocks that goes on has erased its block.
LEMMA EraseGoesOn ==
    ASSUME Truth, Serve, GoesOn, req.op = "erase"
    PROVE  ErasedBlock(call.block)
<1>1. pc \in Working /\ pc' = "next" /\ call'.done = call.done + 1 /\ call.done \in Nat
    BY CallFacts DEF GoesOn
<1>2. CASE EraseBlock \/ TorturePasses
    BY <1>2 DEF EraseBlock, TorturePasses, EraseOk
<1>3. CASE GiveUpBlock
  <2>1. call'.done = call.done
      BY <1>3 DEF GiveUpBlock, Move, Truth, Inv, TypeOK, Locals
  <2>. QED BY <1>1, <2>1
<1>4. CASE TortureErases
    BY <1>1, <1>4 DEF TortureErases, Move, AfterErase
<1>. QED BY <1>1, <1>2, <1>3, <1>4
     DEF Serve, PassGood, PassBad, Looking, LookFails, Located, NoSpace, Counting, Choosing,
         Chosen, Ends, WriteOk, WriteIgnored, WriteSwallowed, WriteFails, StopsAfter, Writing,
         Return, Enter, Move, EraseToTorture, TorturePrograms, TortureFails, GiveUpFails,
         ReadBlock, Differs, ReadSwallowed, ReadFails, Reading, Working

\* The block in use is the place of what comes next.
LEMMA UsedIsPlace ==
    ASSUME Placed, CheckBad, pc \in Working
    PROVE  /\ req.op = "erase" => IsPlace(call.block, Skip(call.page) + call.done)
           /\ req.op # "erase" => IsPlace(call.block, LogicalBlock(call.page + call.done))
<1>1. /\ call.block \in Blocks /\ marks[call.block] = {} /\ call.left > 0
      /\ Base(call.page) <= call.block /\ call.block < End
      /\ IF req.op = "erase" THEN Nth(call.block) = Skip(call.page) + call.done
         ELSE Nth(call.block) = LogicalBlock(call.page + call.done)
    BY UsedIsGood DEF Placed, InPlace, Working
<1>2. call.block \in Base(call.page) .. End - 1
    BY <1>1, CallFacts, Bounds DEF Placed
<1>. QED BY <1>1, <1>2 DEF IsPlace, Usable

\* When the call goes on behind its block, the block still is the place.
LEMMA PassedIsPlace ==
    ASSUME Placed, CheckBad, Spared, GoesOn, NEW n \in Int, IsPlace(call.block, n),
           NEW b \in Blocks, b = call.block
    PROVE  IsPlace(b, n)' /\ b < call'.block
<1>1. call'.page = call.page /\ call'.block = call.block + 1 /\ marks'[call.block] = {}
    BY DEF GoesOn, SameCall
<1>2. Count(marks', Base(call'.page), b) = n
    BY <1>1, NthKept, CallFacts DEF IsPlace, Placed
<1>3. Nth(b)' = n
    BY <1>2 DEF Nth, Count, Usable, Base
<1>. QED BY <1>1, <1>3, CallFacts DEF IsPlace, Base, Usable, Placed

LEMMA WriteDone ==
    ASSUME Done, CheckBad, Serve, Spared, GoesOn,
           req.op = "write", ~req.tool, ~req.spread, res # "einval"
    PROVE  WrittenBehind'
<1>1. Placed /\ Truth /\ Inv /\ InPlace
    BY DEF Done, Placed, Truth
<1>2. /\ pc = "do" /\ pc \in Working /\ WriteOk /\ UNCHANGED <<req, res>>
      /\ call'.page = call.page /\ call'.block = call.block + 1
      /\ call'.done = call.done + Chunk
    BY WriteGoesOn DEF GoesOn, SameCall
<1>3. PICK f \in Nat : f = call.page
    BY <1>1, CallFacts
<1>4. PICK p \in Nat : p = call.page + call.done
    BY <1>1, CallFacts
<1>5. /\ Chunk \in Nat \ {0} /\ call.offset + Chunk <= PagesPerBlock /\ Chunk <= call.left
      /\ call.offset \in Nat
    BY <1>2, <1>1, ChunkFits DEF Pages
<1>6. PagesPerBlock \in Nat \ {0} /\ call.block \in Nat /\ call.done \in Nat
    BY <1>1, CallFacts
<1>7. /\ call.offset = p % PagesPerBlock /\ call.block \in Blocks
      /\ IsPlace(call.block, LogicalBlock(p))
    BY <1>2, <1>4, <1>1, UsedIsPlace, UsedIsGood DEF InPlace
<1>8. \A i \in 0 .. call.done - 1 : LiesBehind(f + i, {f + i, Mixed})'
    BY <1>2, <1>3, <1>6, DoneKept
<1>9. ASSUME NEW j \in 0 .. Chunk - 1
      PROVE  LiesBehind(p + j, {p + j, Mixed})'
  <2>1. j \in Nat /\ j < Chunk
      BY <1>5
  <2>2. (p % PagesPerBlock) + j < PagesPerBlock
      BY <1>5, <1>7, <1>6, <2>1
  <2>3. /\ (p + j) \div PagesPerBlock = p \div PagesPerBlock
        /\ (p + j) % PagesPerBlock = (p % PagesPerBlock) + j
      BY <1>6, <2>1, <2>2, SameBlock
  <2>4. /\ p + j \in Nat /\ (p + j) \div PagesPerBlock = p \div PagesPerBlock
        /\ (p + j) % PagesPerBlock = call.offset + j
      BY <1>7, <2>1, <2>3
  <2>5. page'[call.block][call.offset + j] \in {p + j, Mixed}
    <3>1. PICK torn \in SUBSET {} :
            page' = [page EXCEPT ![call.block] = [k \in Pages |->
                    IF k \notin call.offset .. call.offset + Chunk - 1
                    THEN page[call.block][k]
                    ELSE IF k \in torn THEN Junk
                    ELSE IF k \in {} THEN page[call.block][k]
                    ELSE Programmed(page[call.block][k], Data + k - call.offset)]]
        BY <1>2 DEF WriteOk, Program
    <3>2. /\ call.offset + j \in Pages
          /\ call.offset + j \in call.offset .. call.offset + Chunk - 1
        BY <1>5, <1>6, <2>1 DEF Pages
    <3>3. page'[call.block][call.offset + j]
            = Programmed(page[call.block][call.offset + j], Data + (call.offset + j) - call.offset)
        BY <1>7, <1>1, <3>1, <3>2 DEF Inv, TypeOK
    <3>4. Data + (call.offset + j) - call.offset = p + j
        BY <1>2, <1>5, <1>4 DEF Data
    <3>. QED BY <3>3, <3>4 DEF Programmed
  <2>6. PICK n \in Int : n = LogicalBlock(p)
      BY <1>1, LogicalBlockInt
  <2>7. LogicalBlock(p + j)' = n
      BY <1>2, <2>4, <2>6 DEF LogicalBlock
  <2>8. PICK c \in Blocks : c = call.block
      BY <1>7
  <2>9. IsPlace(c, n)' /\ c < call'.block
      BY <1>7, <1>1, <2>6, <2>8, PassedIsPlace
  <2>10. IsPlace(c, LogicalBlock(p + j))'
      BY <2>7, <2>9 DEF IsPlace
  <2>11. page'[c][(p + j) % PagesPerBlock] \in {p + j, Mixed}
      BY <2>4, <2>5, <2>8
  <2>. QED BY <1>2, <2>9, <2>10, <2>11 DEF LiesBehind, Blocks
<1>10. ASSUME NEW i \in 0 .. call'.done - 1
      PROVE  LiesBehind(f + i, {f + i, Mixed})'
  <2>1. CASE i < call.done
      BY <1>2, <1>5, <1>6, <1>8, <2>1
  <2>2. CASE ~(i < call.done)
    <3>1. i - call.done \in 0 .. Chunk - 1 /\ p + (i - call.done) = f + i
        BY <1>2, <1>5, <1>3, <1>4, <1>6, <2>2
    <3>. QED BY <1>9, <3>1
  <2>. QED BY <2>1, <2>2
<1>. QED BY <1>2, <1>10, <1>3 DEF WrittenBehind

\* What a round of ftl_basic_erase_blocks has erased is blank.
LEMMA EraseDone ==
    ASSUME Done, CheckBad, Serve, Spared, GoesOn, req.op = "erase", res # "einval"
    PROVE  ErasedBehind'
<1>1. /\ Placed /\ Truth /\ page \in PageStates
    BY DEF Done, Placed, Truth, Inv, TypeOK, PageStates
<1>2. /\ pc \in Working /\ UNCHANGED <<req, res>> /\ call'.page = call.page
      /\ call'.block = call.block + 1 /\ call'.done = call.done + 1
    BY DEF GoesOn, SameCall
<1>3. PICK s \in Nat, c \in Blocks, d \in Nat :
          s = Skip(call.page) /\ c = call.block /\ d = call.done
    BY <1>1, <1>2, CallFacts, UsedIsGood
<1>4. call.block \in Nat
    BY <1>1, CallFacts
<1>5. \A i \in 0 .. d - 1 : BlankBehind(s + i)'
    BY <1>2, <1>3, <1>4, DoneKept
<1>6. BlankBehind(s + d)'
  <2>1. ErasedBlock(call.block)
      BY <1>1, EraseGoesOn
  <2>2. \A k \in Pages : page'[c][k] = Blank
      BY <1>1, <1>3, <2>1 DEF ErasedBlock, PageStates
  <2>3. IsPlace(call.block, s + d) /\ s + d \in Int
      BY <1>1, <1>2, <1>3, UsedIsPlace
  <2>4. IsPlace(c, s + d)' /\ c < call'.block
      BY <1>1, <1>3, <2>3, PassedIsPlace
  <2>. QED BY <2>2, <2>4 DEF BlankBehind, Blocks, Pages
<1>7. Skip(call.page)' = s
    BY <1>2, <1>3 DEF Skip
<1>8. ASSUME NEW i \in 0 .. call'.done - 1 PROVE BlankBehind(s + i)'
  <2>1. i \in 0 .. d - 1 \/ i = d
      BY <1>2, <1>3
  <2>. QED BY <1>5, <1>6, <2>1
<1>. QED BY <1>7, <1>8 DEF ErasedBehind

LEMMA DoneStep ==
    ASSUME MarksReadable, CheckBad
    PROVE  Done /\ [Next]_vars => Done'
<1>. SUFFICES ASSUME Done, [Next]_vars PROVE WrittenBehind' /\ ErasedBehind'
    BY PlacedStep DEF Done
<1>1. Placed /\ Truth /\ InRequest /\ InPlace
    BY DEF Done, Placed
<1>2. CASE Serve
  <2>1. /\ Spared
        /\ CountsOff \/ Located \/ Chosen \/ PassesOver \/ Stays \/ GoesOn \/ Returns
      BY <1>1, <1>2, ServeKinds
  <2>2. call.block \in Nat
      BY <1>1, CallFacts
  <2>6. res # "einval"
    <3>1. pc # "idle"
        BY <1>2, ServeRuns
    <3>. QED BY <1>1, <3>1 DEF InRequest
  <2>3. CASE CountsOff \/ Located \/ Chosen \/ PassesOver \/ Stays
    <3>1. /\ UNCHANGED <<req, res>> /\ call'.page = call.page /\ call'.done = call.done
          /\ call'.block >= call.block /\ call'.block \in Nat
        BY <2>2, <2>3 DEF CountsOff, Located, Chosen, PassesOver, Stays, SameCall,
                          SameWork, Move
    <3>. QED BY <2>1, <2>6, <3>1, SameDone
  <2>4. CASE GoesOn
    <3>1. UNCHANGED <<req, res>>
        BY <2>4 DEF GoesOn, SameCall
    <3>2. req.op = "write" /\ ~req.tool /\ ~req.spread /\ res # "einval" => WrittenBehind'
        BY <1>2, <2>1, <2>4, WriteDone
    <3>3. req.op = "erase" /\ res # "einval" => ErasedBehind'
        BY <1>2, <2>1, <2>4, EraseDone
    <3>. QED BY <3>1, <3>2, <3>3 DEF WrittenBehind, ErasedBehind
  <2>5. CASE Returns
    <3>1. PICK x \in Results : Return(x)
        BY <2>5 DEF Returns
    <3>2. res # "einval"
        BY <2>6
    <3>3. CASE call'.done = 0
        BY <3>3 DEF WrittenBehind, ErasedBehind
    <3>4. CASE UNCHANGED <<req, call>>
        BY <2>1, <2>2, <3>2, <3>4, SameDone
    <3>. QED BY <3>1, <3>3, <3>4 DEF Return, Enter
  <2>. QED BY <2>1, <2>3, <2>4, <2>5
<1>3. CASE Ask
  <2>1. PICK r \in Calls : Start(r) \/ Rejected(r) \/ MarkBad(r) \/ Reprobe(r) \/ FullScan(r)
      BY <1>3 DEF Ask
  <2>2. CASE Start(r)
    <3>1. call'.done = 0
        BY <2>2 DEF Start, Enter
    <3>. QED BY <3>1 DEF WrittenBehind, ErasedBehind
  <2>3. CASE Rejected(r) \/ MarkBad(r) \/ Reprobe(r) \/ FullScan(r)
      BY <2>3 DEF Rejected, MarkBad, Reprobe, FullScan, Asked, WrittenBehind, ErasedBehind
  <2>. QED BY <2>1, <2>2, <2>3
<1>4. CASE UNCHANGED vars
  <2>1. Spared /\ UNCHANGED <<req, res, call>>
      BY <1>4 DEF vars, Spared
  <2>2. CASE res = "einval"
      BY <2>1, <2>2 DEF WrittenBehind, ErasedBehind
  <2>3. CASE res # "einval"
      BY <1>1, <2>1, <2>3, SameDone, CallFacts
  <2>. QED BY <2>2, <2>3
<1>. QED BY <1>2, <1>3, <1>4 DEF Next

LEMMA DoneHolds ==
    ASSUME MarksReadable, CheckBad
    PROVE  Spec => []Done
<1>1. Init => WrittenBehind /\ ErasedBehind
    BY DEF Init, NoReq, WrittenBehind, ErasedBehind
<1>2. Init => Placed
    BY InitInv DEF Placed, Truth, BbtTruthful, Init, InRequest, InPlace, Working
<1>3. Init => Done
    BY <1>1, <1>2 DEF Done
<1>. QED BY <1>3, DoneStep, PTL DEF Spec

\* The pages that a write counts in retcount are at their places, where the
\* marks of bad blocks are checked and can be read: however programs and erases
\* fail, whatever blocks are tested and given up on the way.
THEOREM CountedPagesLie ==
    ASSUME MarksReadable, CheckBad
    PROVE  Spec => []RetcountIsTrue
<1>1. Done => RetcountIsTrue
    BY DEF Done, WrittenBehind, LiesBehind, Lies, RetcountIsTrue
<1>. QED BY <1>1, DoneHolds, PTL

\* The blocks that an erase counts are blank and usable, those that failed at
\* first and passed the torture test too, and the n-th of them is the n-th usable
\* block of the range.
THEOREM CountedBlocksBlank ==
    ASSUME MarksReadable, CheckBad
    PROVE  Spec => []ErasedIsBlank
<1>1. Done => ErasedIsBlank
  <2>1. SUFFICES ASSUME Done PROVE ErasedIsBlank
      OBVIOUS
  <2>2. LogicalBlock(call.page) = Skip(call.page)
    <3>1. call.page \in Nat /\ PagesPerBlock \in Nat \ {0}
        BY <2>1, CallFacts DEF Done, Placed
    <3>2. call.page \div PagesPerBlock \in Nat
        BY <3>1, Division
    <3>. QED BY <3>2 DEF LogicalBlock, Skip
  <2>. QED BY <2>1, <2>2 DEF Done, ErasedBehind, BlankBehind, ErasedIsBlank
<1>. QED BY <1>1, DoneHolds, PTL

-----------------------------------------------------------------------------
(* What a call changes *)

LEMMA Times ==
    ASSUME NEW n \in Nat \ {0}, NEW a \in Int, NEW b \in Int, a <= b
    PROVE  n * a <= n * b
<1>1. PICK d \in Nat : b = a + d
  <2>1. b - a \in Nat /\ b = a + (b - a)
      OBVIOUS
  <2>. QED BY <2>1
<1>2. n * b = n * a + n * d /\ n * d \in Nat /\ n * a \in Int
    BY <1>1
<1>. QED BY <1>2

\* Every block that an erase covers holds a page of the request.
LEMMA CoveredPage ==
    ASSUME NEW r \in CallRecords, r.count > 0, NEW d \in Nat, d < Covered(r)
    PROVE  \E q \in r.page .. r.page + r.count - 1 :
               q \div PagesPerBlock = (r.page \div PagesPerBlock) + d
<1>1. PICK n \in Nat \ {0} : n = PagesPerBlock
    BY ChipAssumption
<1>2. PICK p \in Nat, c \in Nat : p = r.page /\ c = r.count
    BY DEF CallRecords
<1>3. PICK z \in Nat : z = p + c + n - 1
    BY <1>1, <1>2
<1>4. PICK f \in Nat, l \in Nat, m \in 0 .. n - 1, o \in 0 .. n - 1 :
          /\ f = p \div n /\ l = z \div n /\ p = n * f + m /\ z = n * l + o
  <2>1. /\ p \div n \in Nat /\ p % n \in 0 .. n - 1 /\ p = n * (p \div n) + (p % n)
        /\ z \div n \in Nat /\ z % n \in 0 .. n - 1 /\ z = n * (z \div n) + (z % n)
      BY Division, DivisionParts
  <2>. DEFINE f == p \div n  l == z \div n  m == p % n  o == z % n
  <2>2. f = p \div n /\ l = z \div n
      OBVIOUS
  <2>3. /\ f \in Nat /\ l \in Nat /\ m \in 0 .. n - 1 /\ o \in 0 .. n - 1
        /\ p = n * f + m /\ z = n * l + o
      BY <2>1
  <2>. HIDE DEF f, l, m, o
  <2>. QED BY <2>2, <2>3
<1>5. d < l - f
    BY <1>1, <1>2, <1>3, <1>4 DEF Covered
<1>6. CASE d = 0
  <2>1. p \in p .. p + c - 1
      BY <1>2
  <2>2. p \div n = f + d
      BY <1>4, <1>6
  <2>. QED BY <1>1, <1>2, <1>4, <2>1, <2>2
<1>7. CASE d > 0
  <2>1. PICK k \in Nat : k = f + d
      OBVIOUS
  <2>2. n * (f + 1) <= n * k /\ n * k <= n * (l - 1)
      BY <1>5, <1>7, <2>1, Times
  <2>3. n * (f + 1) = n * f + n /\ n * (l - 1) = n * l - n /\ n * k \in Nat
      OBVIOUS
  <2>4. p <= n * k /\ n * k <= p + c - 1
      BY <1>3, <1>4, <2>2, <2>3
  <2>5. PICK q \in Nat : q = n * k
      BY <2>3
  <2>6. q \div n = k
    <3>1. /\ q = n * (q \div n) + (q % n) /\ q \div n \in Nat /\ q % n \in 0 .. n - 1
        BY Division, DivisionParts
    <3>2. n * (q \div n) + (q % n) = n * k + 0 /\ 0 \in 0 .. n - 1
        BY <2>3, <2>5, <3>1
    <3>. QED BY <3>1, <3>2, DivisionUnique
  <2>7. q \in p .. p + c - 1
      BY <2>4, <2>5
  <2>. QED BY <1>1, <1>2, <1>4, <2>1, <2>6, <2>7
<1>. QED BY <1>6, <1>7

\* Only a block in use is changed.
LEMMA ChangedIsUsed ==
    ASSUME Next, page' # page
    PROVE  pc \in Working /\ Serve
<1>1. CASE Ask
    BY <1>1 DEF Ask, Start, Rejected, MarkBad, Reprobe, FullScan, MarkOk, MarkFails, chip
<1>2. CASE Serve
    BY <1>2 DEF Serve, PassGood, PassBad, LookFails, Located, NoSpace, Chosen, Ends,
       WriteOk, WriteIgnored, WriteSwallowed, WriteFails, StopsAfter, Writing,
       EraseBlock, EraseToTorture, Erasing, TortureErases, TorturePrograms,
       TorturePasses, TortureFails, TortureFault, GiveUpBlock, GiveUpFails,
       ReadBlock, Differs, ReadSwallowed, ReadFails, chip, Working
<1>. QED BY <1>1, <1>2 DEF Next

\* The block in use is the place of a page that was asked for.
LEMMA UsedIsRequested ==
    ASSUME Placed, CheckBad, pc \in Working
    PROVE  \E q \in Requested : IsPlace(call.block, LogicalBlock(q))
<1>1. /\ req.page <= call.page /\ call.page + call.count <= req.page + req.count
      /\ ~req.tool \/ req.op = "erase" => call.page = req.page /\ call.count = req.count
      /\ call.done + call.left = IF req.op = "erase" THEN Covered(req) ELSE call.count
      /\ call.left > 0 /\ req.count > 0
    BY UsedIsGood DEF Placed, InRequest, Working
<1>2. CASE req.op # "erase"
  <2>1. call.page + call.done \in Requested
      BY <1>1, <1>2, CallFacts DEF Placed, Requested
  <2>. QED BY <1>2, <2>1, UsedIsPlace
<1>3. CASE req.op = "erase"
  <2>1. /\ call.done \in Nat /\ call.done < Covered(req) /\ req \in CallRecords
        /\ PagesPerBlock \in Nat \ {0} /\ req.page \in Nat
      BY <1>1, <1>3, CallFacts, CoveredNat DEF Placed
  <2>2. PICK q \in Requested :
            q \div PagesPerBlock = (req.page \div PagesPerBlock) + call.done
      BY <1>1, <2>1, CoveredPage DEF Requested
  <2>3. req.page \div PagesPerBlock \in Nat
      BY <2>1, Division
  <2>4. LogicalBlock(q) = Skip(call.page) + call.done
      BY <1>1, <1>3, <2>1, <2>2, <2>3 DEF LogicalBlock, Skip
  <2>. QED BY <1>3, <2>4, UsedIsPlace
<1>. QED BY <1>2, <1>3

\* Writes, erases, retries and torture tests change only the blocks that the
\* usable blocks of the range, counted from its start, assign to the pages that
\* were asked for.
THEOREM RangeIsKept ==
    ASSUME MarksReadable, CheckBad
    PROVE  Spec => ChangesInRange
<1>1. Placed /\ [Next]_vars =>
        [\A b \in Blocks : page'[b] # page[b] =>
            \E q \in Requested : IsPlace(b, LogicalBlock(q))]_vars
  <2>1. SUFFICES ASSUME Placed, Next, NEW b \in Blocks, page'[b] # page[b]
                 PROVE  \E q \in Requested : IsPlace(b, LogicalBlock(q))
      OBVIOUS
  <2>2. pc \in Working /\ Serve
      BY <2>1, ChangedIsUsed
  <2>3. b = call.block
      BY <2>1, <2>2, ServeKinds DEF Placed, Spared
  <2>. QED BY <2>1, <2>2, <2>3, UsedIsRequested
<1>. QED BY <1>1, PlacedHolds, PTL DEF Spec, ChangesInRange

-----------------------------------------------------------------------------
(* What a successful write or read has done *)

\* No program and no read fails.
NoLoss == "program" \notin FaultKinds /\ "read" \notin FaultKinds /\ Worn = {}

Transferring == pc # "idle" /\ req.op \in {"write", "read"}

\* A transfer never comes to a torture test or a retry, and the callback of the
\* tool is at the page that the FTL is at.
OnTime ==
    /\ pc # "idle" /\ req.tool /\ req.op # "erase" =>
           UsePart /\ req.page + req.count <= PartBlocks * PagesPerBlock
    /\ Transferring => /\ pc \in {"locate", "next", "do"} /\ call.tries = Retries
                       /\ req.tool => tx = call.page + call.done

\* The pages of the request that were transferred.
SoFar == IF pc = "idle" THEN Requested ELSE req.page .. call.page + call.done - 1

Delivered ==
    (pc = "idle" => res = "ok") =>
        /\ req.op = "write" => \A q \in SoFar : Lies(q, {q, Mixed})
        /\ req.op = "read" /\ req.tool => \A q \in SoFar : Lies(q, {file[q]})

Faithful == Placed /\ OnTime /\ Delivered

\* The steps of a transfer.
Searches ==
    /\ pc' \in {"locate", "next", "do"} /\ UNCHANGED <<page, req, res, tx, file>>
    /\ UNCHANGED <<call.page, call.count, call.done, call.tries>>

Transfers ==
    /\ pc = "do" /\ pc' = "next" /\ UNCHANGED <<req, res>>
    /\ UNCHANGED <<call.page, call.count>> /\ call'.done = call.done + Chunk
    /\ call'.tries = Retries
    /\ tx' = IF req.tool THEN tx + Chunk ELSE tx
    /\ \/ /\ req.op = "write" /\ UNCHANGED file
          /\ Program(call.block, call.offset, Chunk, Data, {})
       \/ req.op = "read" /\ UNCHANGED page /\ Stored(Chunk)

Finishes ==
    /\ UNCHANGED <<page, file>>
    /\ \E x \in Results : Return(x) /\ (x = "ok" => call.left = 0)

LEMMA TransferKinds ==
    ASSUME Truth, OnTime, NoLoss, CheckBad, Serve, Transferring
    PROVE  UNCHANGED marks /\ (Searches \/ Transfers \/ Finishes)
<1>1. /\ pc \in {"locate", "next", "do"} /\ call.tries = Retries /\ call \in Locals
      /\ req.op \in {"write", "read"} /\ call.left \in Nat
    BY DEF OnTime, Transferring, Truth, Inv, TypeOK, Locals
<1>2. ~Fails("program") /\ ~Fails("read") /\ Worn = {}
    BY DEF Fails, NoLoss
<1>3. CASE PassGood \/ PassBad
  <2>1. UNCHANGED marks
      BY <1>3 DEF PassGood, PassBad, chip
  <2>2. Searches
      BY <1>1, <1>3 DEF PassGood, PassBad, Looking, Move, chip, Searches, Locals
  <2>. QED BY <2>1, <2>2
<1>4. CASE Located \/ Chosen
    BY <1>1, <1>4 DEF Located, Chosen, Move, chip, Searches
<1>5. CASE LookFails \/ NoSpace \/ Ends
    BY <1>1, <1>5 DEF LookFails, NoSpace, Ends, chip, Finishes, Results, Retries
<1>6. CASE WriteOk
  <2>1. Move(After(Chunk), "next")
      BY <1>6 DEF WriteOk
  <2>2. call' = After(Chunk) /\ pc' = "next" /\ UNCHANGED <<req, res>>
      BY <2>1 DEF Move
  <2>3. /\ call'.page = call.page /\ call'.count = call.count
        /\ call'.done = call.done + Chunk /\ call'.tries = Retries
      BY <1>1, <2>2 DEF After, Locals
  <2>. QED BY <1>6, <2>2, <2>3 DEF WriteOk, Writing, TxMoves, Transfers
<1>7. CASE WriteIgnored \/ WriteSwallowed \/ WriteFails
    BY <1>2, <1>7 DEF WriteIgnored, WriteSwallowed, WriteFails, StopsAfter
<1>8. CASE ReadBlock
  <2>1. Move(After(Chunk), "next")
      BY <1>8 DEF ReadBlock
  <2>2. call' = After(Chunk) /\ pc' = "next" /\ UNCHANGED <<req, res>>
      BY <2>1 DEF Move
  <2>3. /\ call'.page = call.page /\ call'.count = call.count
        /\ call'.done = call.done + Chunk /\ call'.tries = Retries
      BY <1>1, <2>2 DEF After, Locals
  <2>. QED BY <1>1, <1>8, <2>2, <2>3 DEF ReadBlock, Reading, RxMoves, chip, Transfers
<1>9. CASE Differs \/ ReadSwallowed \/ ReadFails
    BY <1>1, <1>2, <1>9 DEF Differs, ReadSwallowed, ReadFails, Accepted
<1>. QED BY <1>1, <1>3, <1>4, <1>5, <1>6, <1>7, <1>8, <1>9
     DEF Serve, EraseBlock, EraseToTorture, Erasing, TortureErases, TorturePrograms,
         TorturePasses, TortureFails, TortureFault, GiveUpBlock, GiveUpFails

\* The place of a page, as the marks have it.
LEMMA LiesKept ==
    ASSUME UNCHANGED marks, UNCHANGED call.page \/ UsePart, NEW b, NEW n, NEW q
    PROVE  IsPlace(b, n)' = IsPlace(b, n) /\ LogicalBlock(q)' = LogicalBlock(q)
BY DEF IsPlace, Usable, Nth, Base, LogicalBlock

\* The pages of a round lie in the block in use, one behind the other.
LEMMA RoundLies ==
    ASSUME Placed, CheckBad, pc = "do", req.op # "erase",
           NEW p \in Nat, p = call.page + call.done
    PROVE  /\ call.block \in Blocks /\ IsPlace(call.block, LogicalBlock(p))
           /\ call.offset = p % PagesPerBlock
           /\ \A j \in 0 .. Chunk - 1 :
                 /\ LogicalBlock(p + j) = LogicalBlock(p)
                 /\ (p + j) % PagesPerBlock = call.offset + j /\ call.offset + j \in Pages
<1>1. /\ Truth /\ Inv /\ InPlace /\ pc \in Working
    BY DEF Placed, Truth, Working
<1>2. /\ call.offset = p % PagesPerBlock /\ call.block \in Blocks
      /\ IsPlace(call.block, LogicalBlock(p))
    BY <1>1, UsedIsPlace, UsedIsGood DEF InPlace
<1>3. /\ Chunk \in Nat /\ call.offset + Chunk <= PagesPerBlock /\ call.offset \in Nat
      /\ PagesPerBlock \in Nat \ {0}
    BY <1>1, ChunkFits, CallFacts
<1>4. ASSUME NEW j \in 0 .. Chunk - 1
      PROVE  /\ LogicalBlock(p + j) = LogicalBlock(p)
             /\ (p + j) % PagesPerBlock = call.offset + j /\ call.offset + j \in Pages
  <2>1. j \in Nat /\ (p % PagesPerBlock) + j < PagesPerBlock
      BY <1>2, <1>3
  <2>2. /\ (p + j) \div PagesPerBlock = p \div PagesPerBlock
        /\ (p + j) % PagesPerBlock = (p % PagesPerBlock) + j
      BY <1>3, <2>1, SameBlock
  <2>3. call.offset + j \in Pages
      BY <1>2, <1>3, <2>1 DEF Pages
  <2>. QED BY <1>2, <2>2, <2>3 DEF LogicalBlock
<1>. QED BY <1>2, <1>4

\* A page of the block in use that came earlier lies in front of the round.
LEMMA EarlierLies ==
    ASSUME Placed, CheckBad, pc = "do", req.op # "erase",
           NEW p \in Nat, p = call.page + call.done,
           NEW q \in Nat, q < p, IsPlace(call.block, LogicalBlock(q))
    PROVE  q % PagesPerBlock < call.offset /\ q % PagesPerBlock \in Pages
<1>1. PICK n \in Nat \ {0} : n = PagesPerBlock
    BY ChipAssumption
<1>2. LogicalBlock(q) = LogicalBlock(p) /\ call.offset = p % n
    BY <1>1, RoundLies DEF IsPlace
<1>3. /\ q \div n \in Nat /\ q % n \in 0 .. n - 1 /\ q = n * (q \div n) + (q % n)
      /\ p \div n \in Nat /\ p % n \in 0 .. n - 1 /\ p = n * (p \div n) + (p % n)
    BY Division, DivisionParts
<1>4. q \div n = p \div n
  <2>1. call.page \div n \in Nat
      BY <1>1, CallFacts, Division DEF Placed
  <2>2. q \div n - (IF UsePart THEN 0 ELSE call.page \div n)
          = p \div n - (IF UsePart THEN 0 ELSE call.page \div n)
      BY <1>1, <1>2 DEF LogicalBlock
  <2>3. (IF UsePart THEN 0 ELSE call.page \div n) \in Int
    <3>1. CASE UsePart
        BY <3>1
    <3>2. CASE ~UsePart
        BY <2>1, <3>2
    <3>. QED BY <3>1, <3>2
  <2>4. PICK u \in Nat, v \in Nat, w \in Int :
            /\ u = q \div n /\ v = p \div n
            /\ w = (IF UsePart THEN 0 ELSE call.page \div n)
      BY <1>3, <2>3
  <2>5. u = v
      BY <2>2, <2>4
  <2>. QED BY <2>4, <2>5
<1>5. q % n < p % n
  <2>1. PICK k \in Nat, r \in Nat, s \in Nat :
            k = p \div n /\ r = q % n /\ s = p % n
      BY <1>3
  <2>2. PICK m \in Int : m = n * k
      OBVIOUS
  <2>3. q = m + r /\ p = m + s
      BY <1>3, <1>4, <2>1, <2>2
  <2>4. r < s
      BY <2>3
  <2>. QED BY <2>1, <2>4
<1>. QED BY <1>1, <1>2, <1>3, <1>5 DEF Pages

LEMMA RequestFits ==
    ASSUME Placed, OnTime, pc = "do", req.op # "erase"
    PROVE  /\ req.page + req.count \in Nat
           /\ call.page + call.done + Chunk <= req.page + req.count
           /\ req.tool => req.page + req.count <= BlockCount * PagesPerBlock
<1>1. /\ call.page + call.count <= req.page + req.count
      /\ call.done + call.left = call.count
      /\ req.tool => req.page + req.count <= PartBlocks * PagesPerBlock
    BY DEF Placed, InRequest, OnTime
<1>2. /\ Chunk \in Nat /\ Chunk <= call.left
    BY ChunkFits DEF Placed, Truth
<1>3. /\ call.page \in Nat /\ call.done \in Nat /\ call.left \in Nat /\ call.count \in Nat
      /\ req.page \in Nat /\ req.count \in Nat
    BY CallFacts DEF Placed
<1>4. PartBlocks * PagesPerBlock <= BlockCount * PagesPerBlock
  <2>1. /\ PagesPerBlock \in Nat \ {0} /\ PartBlocks \in Int /\ BlockCount \in Int
        /\ PartBlocks <= BlockCount
      BY ChipAssumption
  <2>2. PagesPerBlock * PartBlocks <= PagesPerBlock * BlockCount
      BY <2>1, Times
  <2>. QED BY <2>1, <2>2
<1>5. /\ PartBlocks * PagesPerBlock \in Int /\ BlockCount * PagesPerBlock \in Int
    BY ChipAssumption
<1>. QED BY <1>1, <1>2, <1>3, <1>4, <1>5

\* Which data a round takes.
LEMMA RoundData ==
    ASSUME OnTime, pc = "do", Transferring
    PROVE  Data = call.page + call.done
BY DEF OnTime, Data

LEMMA WriteDelivers ==
    ASSUME Faithful, CheckBad, UNCHANGED marks, Transfers, req.op = "write"
    PROVE  Delivered'
<1>1. /\ Placed /\ OnTime /\ Truth /\ page \in PageStates /\ Transferring /\ pc = "do"
    BY DEF Faithful, Placed, Truth, Inv, TypeOK, PageStates, Transfers, Transferring
<1>2. PICK p \in Nat, f \in Nat, c \in Blocks :
          p = call.page + call.done /\ f = req.page /\ c = call.block
  <2>1. call.block \in Blocks
      BY <1>1, UsedIsGood DEF Truth, Inv, InUse, Working
  <2>. QED BY <1>1, <2>1, CallFacts
<1>3. /\ pc' = "next" /\ UNCHANGED <<req, call.page>> /\ call'.done = call.done + Chunk
      /\ Program(c, call.offset, Chunk, p, {})
    BY <1>1, <1>2, RoundData DEF Transfers
<1>4. /\ Chunk \in Nat \ {0} /\ call.offset \in Nat /\ PagesPerBlock \in Nat \ {0}
      /\ call.page \in Nat /\ call.done \in Nat
    BY <1>1, ChunkFits, CallFacts DEF Truth
<1>5. \A b \in Blocks, k \in Pages :
          page'[b][k] = IF b = c /\ k \in call.offset .. call.offset + Chunk - 1
                        THEN Programmed(page[b][k], p + k - call.offset)
                        ELSE page[b][k]
    BY <1>1, <1>3 DEF Program, PageStates
<1>6. ASSUME NEW q \in f .. p - 1 PROVE Lies(q, {q, Mixed})'
  <2>1. SoFar = f .. p - 1
      BY <1>1, <1>2, <1>4 DEF SoFar
  <2>2. q \in SoFar /\ q \in Nat /\ q < p
      BY <2>1
  <2>3. PICK b \in Blocks : /\ IsPlace(b, LogicalBlock(q))
                            /\ page[b][q % PagesPerBlock] \in {q, Mixed}
      BY <1>1, <2>2 DEF Faithful, Delivered, Transferring, Transfers, Lies
  <2>4. q % PagesPerBlock \in Pages
      BY <1>4, <2>2, Division DEF Pages
  <2>5. b = c => q % PagesPerBlock < call.offset
      BY <1>1, <1>2, <2>2, <2>3, EarlierLies DEF Transfers
  <2>6. page'[b][q % PagesPerBlock] \in {q, Mixed}
      BY <1>4, <1>5, <2>3, <2>4, <2>5 DEF Pages
  <2>7. IsPlace(b, LogicalBlock(q))'
      BY <1>3, <2>3, LiesKept
  <2>. QED BY <2>6, <2>7 DEF Lies, Blocks
<1>7. ASSUME NEW j \in 0 .. Chunk - 1 PROVE Lies(p + j, {p + j, Mixed})'
  <2>1. /\ LogicalBlock(p + j) = LogicalBlock(p) /\ IsPlace(c, LogicalBlock(p))
        /\ (p + j) % PagesPerBlock = call.offset + j /\ call.offset + j \in Pages
      BY <1>1, <1>2, RoundLies
  <2>2. page'[c][call.offset + j]
          = Programmed(page[c][call.offset + j], p + (call.offset + j) - call.offset)
      BY <1>4, <1>5, <2>1
  <2>3. p + (call.offset + j) - call.offset = p + j
      BY <1>4
  <2>4. page'[c][(p + j) % PagesPerBlock] \in {p + j, Mixed}
      BY <2>1, <2>2, <2>3 DEF Programmed
  <2>5. IsPlace(c, LogicalBlock(p + j))'
      BY <1>3, <2>1, LiesKept
  <2>. QED BY <2>4, <2>5 DEF Lies, Blocks
<1>8. ASSUME NEW q \in SoFar' PROVE Lies(q, {q, Mixed})'
  <2>1. q \in f .. p + Chunk - 1
      BY <1>2, <1>3, <1>4 DEF SoFar
  <2>2. CASE q < p
      BY <1>6, <2>1, <2>2
  <2>3. CASE ~(q < p)
    <3>1. q - p \in 0 .. Chunk - 1 /\ p + (q - p) = q
        BY <1>4, <2>1, <2>3
    <3>. QED BY <1>7, <3>1
  <2>. QED BY <2>2, <2>3
<1>. QED BY <1>3, <1>8 DEF Delivered, Transfers

LEMMA ReadDelivers ==
    ASSUME Faithful, CheckBad, UNCHANGED marks, Transfers, req.op = "read"
    PROVE  Delivered'
<1>. SUFFICES ASSUME req.tool PROVE Delivered'
    BY DEF Delivered, Transfers
<1>1. /\ Placed /\ OnTime /\ Truth /\ Transferring /\ pc = "do"
      /\ file \in [LogicalPages -> Contents \cup {None}]
    BY DEF Faithful, Placed, Truth, Inv, TypeOK, Transfers, Transferring
<1>2. PICK p \in Nat, f \in Nat, c \in Blocks :
          p = call.page + call.done /\ f = req.page /\ c = call.block
  <2>1. call.block \in Blocks
      BY <1>1, UsedIsGood DEF Truth, Inv, InUse, Working
  <2>. QED BY <1>1, <2>1, CallFacts
<1>3. /\ pc' = "next" /\ UNCHANGED <<req, call.page, page>> /\ call'.done = call.done + Chunk
      /\ Stored(Chunk) /\ Data = p
    BY <1>1, <1>2, RoundData DEF Transfers
<1>4. /\ Chunk \in Nat \ {0} /\ call.offset \in Nat /\ PagesPerBlock \in Nat \ {0}
      /\ call.page \in Nat /\ call.done \in Nat /\ BlockCount \in Nat
    BY <1>1, ChunkFits, CallFacts, ChipAssumption DEF Truth
<1>5. \A q \in LogicalPages :
          file'[q] = IF q \in p .. p + Chunk - 1 THEN page[c][call.offset + q - p] ELSE file[q]
    BY <1>1, <1>2, <1>3 DEF Stored
<1>6. \A q \in f .. p + Chunk - 1 : q \in LogicalPages
  <2>1. PICK e \in Int : e = BlockCount * PagesPerBlock
      BY <1>4
  <2>2. p + Chunk <= e
      BY <1>1, <1>2, <1>4, <2>1, RequestFits, CallFacts
  <2>3. LogicalPages = 0 .. e - 1
      BY <2>1 DEF LogicalPages
  <2>. QED BY <1>4, <2>2, <2>3
<1>7. ASSUME NEW q \in f .. p - 1 PROVE Lies(q, {file[q]})'
  <2>1. SoFar = f .. p - 1
      BY <1>1, <1>2, <1>4 DEF SoFar
  <2>2. q \in SoFar /\ q \in Nat /\ q < p /\ q \in LogicalPages
      BY <1>4, <1>6, <2>1
  <2>3. PICK b \in Blocks : IsPlace(b, LogicalBlock(q)) /\ page[b][q % PagesPerBlock] = file[q]
      BY <1>1, <2>2 DEF Faithful, Delivered, Transferring, Transfers, Lies
  <2>4. file'[q] = file[q]
      BY <1>5, <2>2
  <2>5. IsPlace(b, LogicalBlock(q))'
      BY <1>3, <2>3, LiesKept
  <2>. QED BY <1>3, <2>3, <2>4, <2>5 DEF Lies, Blocks
<1>8. ASSUME NEW j \in 0 .. Chunk - 1, NEW q, q = p + j PROVE Lies(q, {file[q]})'
  <2>1. /\ LogicalBlock(p + j) = LogicalBlock(p) /\ IsPlace(c, LogicalBlock(p))
        /\ (p + j) % PagesPerBlock = call.offset + j
      BY <1>1, <1>2, RoundLies
  <2>2. file'[q] = page[c][call.offset + j]
    <3>1. /\ q \in f .. p + Chunk - 1 /\ q \in p .. p + Chunk - 1
          /\ call.offset + q - p = call.offset + j
        BY <1>1, <1>2, <1>4, <1>8, CallFacts DEF Placed, InRequest
    <3>. QED BY <1>5, <1>6, <3>1
  <2>3. IsPlace(c, LogicalBlock(q))'
      BY <1>3, <1>8, <2>1, LiesKept
  <2>. QED BY <1>3, <1>8, <2>1, <2>2, <2>3 DEF Lies, Blocks
<1>9. ASSUME NEW q \in SoFar' PROVE Lies(q, {file[q]})'
  <2>1. q \in f .. p + Chunk - 1
      BY <1>2, <1>3, <1>4 DEF SoFar
  <2>2. CASE q < p
      BY <1>7, <2>1, <2>2
  <2>3. CASE ~(q < p)
    <3>1. q - p \in 0 .. Chunk - 1 /\ q = p + (q - p)
        BY <1>4, <2>1, <2>3
    <3>. QED BY <1>8, <3>1
  <2>. QED BY <2>2, <2>3
<1>. QED BY <1>3, <1>9 DEF Delivered, Transfers

\* What was delivered stays so while nothing moves.
LEMMA StillDelivered ==
    ASSUME Delivered, pc # "idle" \/ UNCHANGED <<pc, res>>,
           UNCHANGED <<page, marks, file, req>>, UNCHANGED call.page \/ UsePart, SoFar' = SoFar
    PROVE  Delivered'
<1>. SUFFICES ASSUME pc' = "idle" => res' = "ok" PROVE Delivered'
    BY DEF Delivered
<1>1. pc = "idle" => res = "ok"
    OBVIOUS
<1>2. \A q : /\ Lies(q, {q, Mixed})' = Lies(q, {q, Mixed})
             /\ Lies(q, {file[q]})' = Lies(q, {file[q]})
    BY LiesKept DEF Lies, Blocks
<1>3. req.op = "write" => \A q \in SoFar' : Lies(q, {q, Mixed})'
    BY <1>1, <1>2 DEF Delivered
<1>4. req.op = "read" /\ req.tool => \A q \in SoFar' : Lies(q, {file[q]})'
    BY <1>1, <1>2 DEF Delivered
<1>. QED BY <1>3, <1>4 DEF Delivered

\* When a call of the FTL returns, all of its pages were transferred.
LEMMA FinishDelivers ==
    ASSUME Faithful, CheckBad, UNCHANGED marks, Transferring, Finishes
    PROVE  OnTime' /\ Delivered'
<1>. DEFINE next == call.page + call.count
            left == req.page + req.count - next
<1>1. /\ Placed /\ OnTime /\ Truth /\ pc # "idle" /\ InRequest /\ req.op \in {"write", "read"}
    BY DEF Faithful, Placed, Transferring
<1>2. PICK x \in Results : Return(x) /\ (x = "ok" => call.left = 0)
    BY DEF Finishes
<1>3. UNCHANGED <<page, file, req>> /\ call.page \in Nat /\ call.count \in Nat /\ call.done \in Nat
      /\ req.page \in Nat /\ req.count \in Nat
    BY <1>1, <1>2, CallFacts DEF Finishes, Return
<1>4. x = "ok" => call.done = call.count /\ SoFar = req.page .. next - 1
    BY <1>1, <1>2, <1>3 DEF InRequest, SoFar
<1>6. CASE x = "ok" /\ left > 0
  <2>1. /\ pc' = "locate" /\ call'.page = next /\ call'.done = 0 /\ call'.tries = Retries
        /\ tx' = next
      BY <1>2, <1>6 DEF Return, Enter
  <2>2. req.tool /\ UsePart
      BY <1>1, <1>3, <1>6 DEF InRequest, OnTime
  <2>3. SoFar' = SoFar
      BY <1>3, <1>4, <1>6, <2>1 DEF SoFar
  <2>4. Delivered'
      BY <1>1, <1>3, <2>2, <2>3, StillDelivered DEF Faithful
  <2>5. OnTime'
      BY <1>1, <1>3, <2>1, <2>2 DEF OnTime, Transferring
  <2>. QED BY <2>4, <2>5
<1>7. CASE x = "ok" /\ ~(left > 0)
  <2>1. pc' = "idle" /\ UNCHANGED call
      BY <1>2, <1>7 DEF Return
  <2>2. SoFar' = SoFar
      BY <1>1, <1>3, <1>4, <1>7, <2>1 DEF InRequest, SoFar, Requested
  <2>3. Delivered'
      BY <1>1, <1>3, <2>1, <2>2, StillDelivered DEF Faithful
  <2>. QED BY <2>1, <2>3 DEF OnTime, Transferring
<1>8. CASE x # "ok"
    BY <1>2, <1>8 DEF Return, Delivered, OnTime, Transferring
<1>. QED BY <1>6, <1>7, <1>8

LEMMA FaithfulStep ==
    ASSUME MarksReadable, CheckBad, NoLoss
    PROVE  Faithful /\ [Next]_vars => Faithful'
<1>. SUFFICES ASSUME Faithful, [Next]_vars PROVE OnTime' /\ Delivered'
    BY PlacedStep DEF Faithful
<1>1. Placed /\ OnTime /\ Delivered /\ Truth /\ InRequest
    BY DEF Faithful, Placed
<1>2. CASE Serve /\ Transferring
  <2>1. UNCHANGED marks /\ (Searches \/ Transfers \/ Finishes)
      BY <1>1, <1>2, TransferKinds
  <2>2. pc # "idle"
      BY <1>2 DEF Transferring
  <2>3. CASE Searches
    <3>1. SoFar' = SoFar
        BY <2>2, <2>3 DEF SoFar, Searches
    <3>2. Delivered'
        BY <1>1, <2>1, <2>2, <2>3, <3>1, StillDelivered DEF Searches
    <3>. QED BY <1>1, <1>2, <2>3, <3>2 DEF Searches, OnTime, Transferring
  <2>4. CASE Transfers
    <3>1. Delivered'
        BY <1>2, <2>1, <2>4, WriteDelivers, ReadDelivers DEF Transferring
    <3>2. /\ Chunk \in Nat /\ call.page \in Nat /\ call.done \in Nat
        BY <1>1, <2>4, ChunkFits, CallFacts DEF Truth, Transfers
    <3>3. OnTime'
        BY <1>1, <1>2, <2>4, <3>2 DEF Transfers, OnTime, Transferring
    <3>. QED BY <3>1, <3>3
  <2>5. CASE Finishes
      BY <1>2, <2>1, <2>5, FinishDelivers
  <2>. QED BY <2>1, <2>3, <2>4, <2>5
<1>3. CASE Serve /\ ~Transferring
  <2>1. pc # "idle" /\ req.op \notin {"write", "read"}
      BY <1>3, ServeRuns DEF Transferring
  <2>2. UNCHANGED req
      BY <1>1, <1>3, ServeKinds DEF CountsOff, Located, Chosen, PassesOver, Stays, GoesOn,
                                    Returns, Return, SameCall, Move
  <2>. QED BY <1>1, <2>1, <2>2 DEF OnTime, Transferring, Delivered
<1>4. CASE Ask
  <2>1. PICK r \in Calls : Start(r) \/ Rejected(r) \/ MarkBad(r) \/ Reprobe(r) \/ FullScan(r)
      BY <1>4 DEF Ask
  <2>2. r.page \in Nat /\ r.count \in Nat /\ (r.tool => UsePart)
      BY CallAssumption DEF CallRecords
  <2>3. CASE Start(r)
    <3>1. /\ pc' = "locate" /\ call'.page = r.page /\ call'.done = 0
          /\ call'.tries = Retries /\ tx' = r.page /\ req' = r /\ Valid(r)
        BY <2>3 DEF Start, Enter
    <3>2. SoFar' = {}
        BY <2>2, <3>1 DEF SoFar
    <3>3. Delivered'
        BY <3>2 DEF Delivered
    <3>4. OnTime'
        BY <2>2, <3>1 DEF OnTime, Transferring, Valid
    <3>. QED BY <3>3, <3>4
  <2>4. CASE Rejected(r) \/ MarkBad(r) \/ Reprobe(r) \/ FullScan(r)
      BY <2>4 DEF Rejected, MarkBad, Reprobe, FullScan, Asked, OnTime, Transferring, Delivered
  <2>. QED BY <2>1, <2>3, <2>4
<1>5. CASE UNCHANGED vars
  <2>1. OnTime'
      BY <1>1, <1>5 DEF vars, OnTime, Transferring
  <2>2. SoFar' = SoFar
      BY <1>5 DEF vars, SoFar, Requested
  <2>3. Delivered'
      BY <1>1, <1>5, <2>2, StillDelivered DEF vars
  <2>. QED BY <2>1, <2>3
<1>. QED BY <1>2, <1>3, <1>4, <1>5 DEF Next

\* On a chip on which no program and no read fails, a write that returns success
\* has put every page at its place and the file of a successful read holds what
\* lies there: however the file is mapped, wherever the bad blocks are, whatever
\* erases or marks failed before.
THEOREM SuccessMeansDone ==
    ASSUME MarksReadable, CheckBad, NoLoss
    PROVE  Spec => []SuccessIsTrue
<1>1. Init => Faithful
  <2>1. Init => OnTime /\ Delivered
      BY DEF Init, NoReq, OnTime, Transferring, Delivered, SoFar
  <2>2. Init => Placed
      BY InitInv DEF Placed, Truth, BbtTruthful, Init, InRequest, InPlace, Working
  <2>. QED BY <2>1, <2>2 DEF Faithful
<1>2. Faithful => SuccessIsTrue
    BY DEF Faithful, Delivered, SoFar, SuccessIsTrue, Served
<1>. QED BY <1>1, <1>2, FaithfulStep, PTL DEF Spec
=============================================================================
