------------------------------- MODULE SpiNor -------------------------------
(***************************************************************************)
(* The read, write, update, verify and erase commands of ufsnorprog        *)
(* (program/spi-nor/ufsnor-common.c) and the part of the SPI-NOR driver    *)
(* they use (flash/spi-nor/spi-nor.c): chip set-up, die selection, the     *)
(* extended address byte, page program and erase.                          *)
(*                                                                         *)
(* An address counts cells; a page, a window (what three address bytes     *)
(* reach), an erase type and a die are numbers of cells.  A command is     *)
(* turned into a list of jobs, each of which walks over the dies; a step   *)
(* is one operation on the flash array.  Every command is a process of its *)
(* own, which sets the chip up first.                                      *)
(*                                                                         *)
(* A program only clears bits, so that a cell programmed twice with        *)
(* different data holds neither.  A read that runs over the end of a       *)
(* window is taken to go on in the next one.                               *)
(***************************************************************************)
EXTENDS Integers, Sequences, FiniteSets

CONSTANTS
    Parts,          \* the chips that may be attached
    Commands,       \* the commands that may be given
    MaxOp,          \* ufprog_spi_mem_adjust_op_size: cells of one operation
    FaultKinds,     \* the bus operations that may fail
    MaxFaults       \* bound: failing bus operations of a process

AllDies == -1       \* the die option is not given

CommandRecords ==
    [op : {"read", "write", "update", "erase"}, die : {AllDies} \cup Nat,
     addr : Nat, size : Nat \ {0}, verify : BOOLEAN]

Regions == [base : Nat, size : Nat \ {0}, types : SUBSET (Nat \ {0})]

PartRecords ==
    [dies : Nat \ {0},          \* param.ndies
     size : Nat \ {0},          \* param.size: one die
     window : Nat,              \* what an address reaches without the extended byte; 0: all
     page : Nat \ {0},          \* param.page_size
     regions : Seq(Regions)]    \* ext_param.erase_regions

ASSUME PartsAssumption ==
    /\ Parts \subseteq PartRecords
    /\ \A p \in Parts :
         \* Regions follow each other and cover a die.
         /\ p.regions # <<>> /\ p.regions[1].base = 0
         /\ \A i \in 2 .. Len(p.regions) :
              p.regions[i].base = p.regions[i - 1].base + p.regions[i - 1].size
         /\ \A a \in 0 .. p.size - 1 : \E i \in 1 .. Len(p.regions) :
              p.regions[i].base <= a /\ a < p.regions[i].base + p.regions[i].size
         \* A region has erase types, at most four of them.
         /\ \A i \in 1 .. Len(p.regions) :
              /\ \E t \in p.regions[i].types : \A u \in p.regions[i].types : t <= u
              /\ \A T \in SUBSET p.regions[i].types :
                   T # {} => \E t \in T : \A u \in T : u <= t
         \* curr_high_addr is kept for the chip, not for a die.
         /\ p.dies = 1 \/ p.window = 0

ASSUME CommandsAssumption ==
    /\ Commands \subseteq CommandRecords /\ MaxOp \in Nat \ {0} /\ MaxFaults \in Nat
    /\ FaultKinds \subseteq {"setup", "select", "address", "command"}

VARIABLES
    part,
    \* the chip
    mem,        \* the cells of all dies, one die after the other
    sel,        \* the die that listens
    ear,        \* the extended address byte of every die
    \* snor->state
    curr_die,
    curr_high_addr,
    \* the process
    pc,
    req,
    jobs,       \* the passes over the flash that are left
    got,        \* what reads stored, by the address of the command
    res,
    faults,
    \* history
    start,      \* mem when the command was given
    astray      \* selecting a die failed while the chip was set up

chip == <<mem, sel, ear>>
state == <<curr_die, curr_high_addr>>
vars == <<part, mem, sel, ear, curr_die, curr_high_addr, pc, req, jobs, got, res, faults, start,
          astray>>

-----------------------------------------------------------------------------
(* Data *)

Dies == 0 .. part.dies - 1
Cells == 0 .. part.dies * part.size - 1

Blank == -1
Mixed == -2         \* programmed twice
Junk == -3         \* a program or erase that failed
None == -4         \* nothing was read

\* The data of the file for an address of a command, and what a chip may hold
\* when it is new: data that tells its cell.
FileData(a) == (part.dies * part.size) + a
OldData(c) == c
Contents == Nat \cup {Blank, Mixed, Junk}

Least(a, b) == IF a < b THEN a ELSE b
Smallest(S) == CHOOSE x \in S : \A y \in S : x <= y
IsPowerOf2(n) == \E k \in 0 .. n : n = 2 ^ k

\* die_start, die_count and the cell of an address.
DieStart(r) == IF r.die = AllDies THEN 0 ELSE r.die
DieCount(r) == IF r.die = AllDies THEN part.dies ELSE 1
OpSize(r) == part.size * DieCount(r)
Cell(r, a) == (DieStart(r) * part.size) + a

\* Chips whose pages fill a die and whose sectors fill a region, each erase type
\* a power of two.  The range of an erase is rounded down where the smallest
\* erase type of its last region is none.
EvenSectors ==
    \A p \in Parts :
        /\ p.size % p.page = 0
        /\ \A i \in DOMAIN p.regions :
             /\ p.regions[i].base + p.regions[i].size <= p.size
             /\ \A j \in DOMAIN p.regions :
                  i < j => p.regions[i].base + p.regions[i].size <= p.regions[j].base
             /\ \A t \in p.regions[i].types :
                  /\ IsPowerOf2(t)
                  /\ p.regions[i].base % t = 0 /\ p.regions[i].size % t = 0
                  /\ \A u \in p.regions[i].types : u <= t => t % u = 0

-----------------------------------------------------------------------------
(* Erase regions *)

RegionsAt(a) ==
    IF Len(part.regions) = 1
    THEN {1}
    ELSE {i \in DOMAIN part.regions :
             /\ part.regions[i].base <= a
             /\ a < part.regions[i].base + part.regions[i].size}

MinEraseSize(g) == Least(Smallest(g.types), g.size)

\* The last multiple of the smallest erase size that is not behind a.
RoundDown(g, a) ==
    LET min == MinEraseSize(g)
    IN  IF IsPowerOf2(min) THEN a - (a % min)
                           ELSE g.base + ((a - g.base) \div min) * min

\* Mutant: the end is rounded like the start.
RangeEndDown(g, end) == RoundDown(g, end)

RangeEnd(g, end) ==
    IF IsPowerOf2(MinEraseSize(g))
    THEN RoundDown(g, end + MinEraseSize(g) - 1)
    ELSE RoundDown(g, end)

\* ufprog_spi_nor_get_erase_range
HasEraseRange(r) ==
    /\ r.addr < part.size
    /\ RegionsAt(r.addr) # {} /\ RegionsAt(r.addr + r.size - 1) # {}

EraseRange(r) ==
    LET first == CHOOSE i \in RegionsAt(r.addr) : TRUE
        last  == CHOOSE i \in RegionsAt(r.addr + r.size - 1) : TRUE
    IN  [from |-> RoundDown(part.regions[first], r.addr),
         to   |-> RangeEnd(part.regions[last], r.addr + r.size)]

\* spi_nor_erase_at: where an erase of at most n cells at a starts and ends.
EraseFrom(g, a) == RoundDown(g, a)
EraseTo(g, a, n) == Least(RoundDown(g, a + n), g.base + g.size)

Aligned(g, from, size) ==
    IF IsPowerOf2(size) THEN from % size = 0 ELSE (from - g.base) % size = 0

\* Mutant: an erase type may be larger than what is to be erased.
FittingLarger(g, from, to) == {t \in g.types : Aligned(g, from, Least(t, g.size))}

Fitting(g, from, to) ==
    {t \in g.types : /\ Aligned(g, from, Least(t, g.size))
                     /\ to - from >= Least(t, g.size)}

Chosen(g, from, to) ==
    CHOOSE t \in Fitting(g, from, to) :
        \A u \in Fitting(g, from, to) : Least(u, g.size) <= Least(t, g.size)

-----------------------------------------------------------------------------
(* The chip *)

Programmed(old, data) == IF old \in {Blank, data} THEN data ELSE Mixed

\* An erase of type t clears the block of that size around a, as far as it lies
\* in the region.
Block(g, t, a) ==
    {x \in g.base .. g.base + g.size - 1 : x \div t = a \div t}

-----------------------------------------------------------------------------
(* The driver *)

HighByte(a) == a \div part.window

\* ufprog_spi_nor_select_die: the die that listens when die d was selected.
Listening(d) == IF d = curr_die THEN sel ELSE d

\* spi_nor_setup_addr: the extended address bytes when the bytes for address a
\* of die d were set.
NeedsHighByte(a) == part.window > 0 /\ HighByte(a) # curr_high_addr

\* Mutant: the write to the register is lost.
HighBytesLost(d, a) == ear

HighBytes(d, a) ==
    IF NeedsHighByte(a) THEN [ear EXCEPT ![Listening(d)] = HighByte(a)] ELSE ear

Addressed(d, a) ==
    /\ sel' = Listening(d) /\ curr_die' = d
    /\ ear' = HighBytes(d, a)
    /\ curr_high_addr' = IF NeedsHighByte(a) THEN HighByte(a) ELSE curr_high_addr

\* Where an operation at address a of die d really starts.
Reached(d, a) ==
    (Listening(d) * part.size)
      + IF part.window = 0 THEN a
        ELSE (HighBytes(d, a)[Listening(d)] * part.window) + (a % part.window)

Fails(operation) ==
    operation \in FaultKinds /\ faults < MaxFaults /\ faults' = faults + 1

Ends(result) ==
    pc' = "idle" /\ res' = result /\ jobs' = <<>>

-----------------------------------------------------------------------------
(* A command begins *)

Job(kind, data, addr, left) == [kind |-> kind, data |-> data, addr |-> addr, left |-> left]

\* do_snor_erase shortens an erase that goes past the end.
Clipped(r) ==
    IF r.op = "erase" /\ r.addr < OpSize(r) /\ r.addr + r.size > OpSize(r)
    THEN [r EXCEPT !.size = OpSize(r) - r.addr] ELSE r

Refused(r) ==
    \/ r.die >= part.dies
    \/ r.addr >= OpSize(r)
    \/ r.addr + r.size > OpSize(r)
    \/ r.op # "read" /\ ~HasEraseRange(r)

\* write_flash_no_erase
Written(data, addr, size, verify) ==
    IF size = 0 THEN <<>>
    ELSE <<Job("write", data, addr, size)>>
           \o IF verify THEN <<Job("verify", data, addr, size)>> ELSE <<>>

Saved(addr, size) ==
    IF size = 0 THEN <<>> ELSE <<Job("read", "backup", addr, size)>>

\* erase_flash
Erased(r) ==
    <<Job("erase", "none", EraseRange(r).from, EraseRange(r).to - EraseRange(r).from)>>

\* What an update saves in front of and behind the data.
Front(r) == IF r.op = "update" /\ EraseRange(r).from < r.addr
            THEN r.addr - EraseRange(r).from ELSE 0
\* Mutant: the second backup takes the place of the first.
BackOnly(r) == IF /\ r.op = "update" /\ r.addr + r.size < EraseRange(r).to
                  /\ EraseRange(r).from = r.addr
               THEN EraseRange(r).to - (r.addr + r.size) ELSE 0

Back(r) == IF r.op = "update" /\ r.addr + r.size < EraseRange(r).to
            THEN EraseRange(r).to - (r.addr + r.size) ELSE 0

\* write_flash
Rewritten(r) ==
    Saved(EraseRange(r).from, Front(r)) \o Saved(r.addr + r.size, Back(r))
      \o Erased(r)
      \o Written("file", r.addr, r.size, r.verify)
      \o Written("backup", EraseRange(r).from, Front(r), r.verify)
      \o Written("backup", r.addr + r.size, Back(r), r.verify)

Plan(r) ==
    CASE r.op = "read"  -> <<Job("read", "file", r.addr, r.size)>>
      [] r.op = "erase" -> Erased(r)
      [] OTHER          -> Rewritten(r)

\* ufprog_main selects the first die of the command after set-up.
FirstDie(r) == IF r.die \in Dies THEN r.die ELSE 0

\* Mutant: a new process takes the extended address byte for zero.
SetUpStateOnly(r) ==
    /\ sel' = FirstDie(r)
    /\ curr_die' = FirstDie(r) /\ curr_high_addr' = 0
    /\ UNCHANGED ear

\* spi_nor_chip_setup: the last die first, so that the first one listens.
SetUp(r) ==
    /\ sel' = FirstDie(r) /\ ear' = [d \in Dies |-> 0]
    /\ curr_die' = FirstDie(r) /\ curr_high_addr' = 0

\* spi_nor_chip_die_setup does not look at the result of selecting die k: what
\* listened before is set up in its place.
SetUpMissing(r, k) ==
    /\ sel' = IF k = 0 /\ FirstDie(r) = 0 THEN 1 ELSE FirstDie(r)
    /\ ear' = [d \in Dies |-> IF d # k \/ (k = part.dies - 1 /\ sel = k) THEN 0 ELSE ear[d]]
    /\ curr_die' = FirstDie(r) /\ curr_high_addr' = 0

Started(r) ==
    IF Refused(r) THEN Ends("failed")
    ELSE pc' = "run" /\ res' = "none" /\ jobs' = Plan(r)

Given(r) ==
    /\ pc = "idle"
    /\ req' = Clipped(r) /\ start' = mem
    /\ got' = [a \in Cells |-> None]
    /\ UNCHANGED <<part, mem>>

Start(r) ==
    /\ Given(r) /\ SetUp(r) /\ faults' = 0 /\ astray' = FALSE
    /\ Started(Clipped(r))

StartMissing(r) ==
    /\ Given(r)
    /\ "select" \in FaultKinds /\ MaxFaults > 0 /\ faults' = 1 /\ astray' = TRUE
    /\ part.dies > 1 /\ \E k \in Dies : SetUpMissing(r, k)
    /\ Started(Clipped(r))

\* Setting up die k fails, or selecting the first die of the command.
StartFails(r) ==
    /\ Given(r)
    /\ MaxFaults > 0 /\ faults' = 1 /\ astray' = FALSE
    /\ \/ /\ "setup" \in FaultKinds
          /\ \E k \in Dies : sel' = k /\ ear' = [d \in Dies |-> IF d > k THEN 0 ELSE ear[d]]
       \/ /\ "select" \in FaultKinds /\ FirstDie(r) # 0
          /\ sel' \in {0, FirstDie(r)} /\ ear' = [d \in Dies |-> 0]
    /\ curr_die' = 0 /\ curr_high_addr' = 0
    /\ Ends("failed")

-----------------------------------------------------------------------------
(* A job walks over the dies *)

job == jobs[1]

OnDie == pc = "run" /\ jobs # <<>> /\ job.left > 0 /\ job.addr < OpSize(req)

Die == DieStart(req) + (job.addr \div part.size)
Offset == job.addr % part.size
Here == Least(part.size - Offset, job.left)

Region == part.regions[CHOOSE i \in RegionsAt(Offset) : TRUE]
From == EraseFrom(Region, Offset)
To == EraseTo(Region, Offset, Here)

\* The address of the next operation and the cells of its data.
OpAddr == IF job.kind = "erase" THEN From ELSE Offset

\* Mutants: the end of a page is not looked at, or is one too early.
OpLengthAcross == Least(Here, MaxOp)
OpLengthShort ==
    IF job.kind = "write"
    THEN Least(Least((part.page - 1) - (Offset % part.page), Here), MaxOp)
    ELSE Least(Here, MaxOp)

OpLength ==
    IF job.kind = "write"
    THEN Least(Least(part.page - (Offset % part.page), Here), MaxOp)
    ELSE Least(Here, MaxOp)

Moved(n) ==
    jobs' = <<[job EXCEPT !.addr = @ + n, !.left = @ - n]>> \o Tail(jobs)

Data(a) == IF job.data = "file" THEN FileData(a) ELSE got[a]

\* The cells an operation reaches: a program goes on at the start of its page.
Slot(i) ==
    LET a == Reached(Die, Offset)
    IN  (a - (a % part.page)) + ((a + i) % part.page)
Target == {Slot(i) : i \in 0 .. OpLength - 1}
EraseTarget(t) == {Reached(Die, From) + (x - From) : x \in Block(Region, t, From)}

\* The flash with one value in some of its cells.
With(cells, value) == [c \in Cells |-> IF c \in cells THEN value ELSE mem[c]]

Addressing == Addressed(Die, OpAddr)

\* ufprog_spi_nor_read_no_check
Read ==
    /\ OnDie /\ job.kind = "read"
    /\ Addressing
    /\ got' = [a \in Cells |->
                 IF a \in job.addr .. job.addr + OpLength - 1
                 THEN mem[Reached(Die, Offset) + (a - job.addr)] ELSE got[a]]
    /\ Moved(OpLength)
    /\ UNCHANGED <<part, mem, pc, req, res, faults, start, astray>>

\* verify_flash_die
Same == \A i \in 0 .. OpLength - 1 :
    mem[Reached(Die, Offset) + i] = Data(job.addr + i)

Verify ==
    /\ OnDie /\ job.kind = "verify"
    /\ Addressing
    /\ IF Same THEN Moved(OpLength) /\ UNCHANGED <<pc, res>>
               ELSE Ends("failed")
    /\ UNCHANGED <<part, mem, req, got, faults, start, astray>>

\* spi_nor_page_program
Program ==
    /\ OnDie /\ job.kind = "write"
    /\ Addressing
    /\ mem' = [c \in Cells |->
                 IF c \in Target
                 THEN LET i == CHOOSE i \in 0 .. OpLength - 1 : Slot(i) = c
                      IN  Programmed(mem[c], Data(job.addr + i))
                 ELSE mem[c]]
    /\ Moved(OpLength)
    /\ UNCHANGED <<part, pc, req, got, res, faults, start, astray>>

\* spi_nor_erase_at
EraseAt ==
    /\ OnDie /\ job.kind = "erase"
    /\ IF Fitting(Region, From, To) # {}
       THEN LET t == Chosen(Region, From, To)
            IN  /\ Addressing
                /\ mem' = With(EraseTarget(t), Blank)
                /\ Moved(Least(t, To - From))
                /\ UNCHANGED <<pc, res>>
       ELSE \* The smallest erase type is larger than what is left.
            /\ sel' = Listening(Die) /\ curr_die' = Die
            /\ UNCHANGED <<mem, ear, curr_high_addr>>
            /\ Ends("failed")
    /\ UNCHANGED <<part, req, got, faults, start, astray>>

NextJob ==
    /\ pc = "run" /\ jobs # <<>>
    /\ job.left = 0 \/ job.addr >= OpSize(req)
    /\ jobs' = Tail(jobs)
    /\ UNCHANGED <<part, chip, state, pc, req, got, res, faults, start, astray>>

Finish ==
    /\ pc = "run" /\ jobs = <<>>
    /\ Ends("ok")
    /\ UNCHANGED <<part, chip, state, req, got, faults, start, astray>>

-----------------------------------------------------------------------------
(* A bus operation fails and the command ends *)

SelectFails ==
    /\ OnDie /\ Die # curr_die
    /\ Fails("select") /\ Ends("failed")
    /\ sel' \in {sel, Die}
    /\ UNCHANGED <<part, mem, ear, state, req, got, start, astray>>

\* Writing the extended address byte, or reading it back, fails.
AddressFails ==
    /\ OnDie /\ NeedsHighByte(OpAddr)
    /\ Fails("address") /\ Ends("failed")
    /\ sel' = Listening(Die) /\ curr_die' = Die
    /\ ear' \in {ear, HighBytes(Die, OpAddr)}
    /\ UNCHANGED <<part, mem, curr_high_addr, req, got, start, astray>>

\* A read stores nothing; a program or erase may have left anything.
CommandFails ==
    /\ OnDie
    /\ Fails("command") /\ Ends("failed")
    /\ Addressing
    /\ job.kind = "erase" => Fitting(Region, From, To) # {}
    /\ \/ UNCHANGED mem
       \/ /\ job.kind = "write"
          /\ mem' = With(Target, Junk)
       \/ /\ job.kind = "erase"
          /\ mem' = With(EraseTarget(Chosen(Region, From, To)), Junk)
    /\ UNCHANGED <<part, req, got, start, astray>>

-----------------------------------------------------------------------------
(* The specification *)

NoRequest == [op |-> "read", die |-> AllDies, addr |-> 0, size |-> 1, verify |-> FALSE]

Init ==
    /\ part \in Parts
    /\ mem = [c \in Cells |-> OldData(c)] /\ start = mem
    /\ sel = 0 /\ ear = [d \in Dies |-> 0]
    /\ curr_die = 0 /\ curr_high_addr = 0
    /\ pc = "idle" /\ req = NoRequest /\ jobs = <<>>
    /\ got = [a \in Cells |-> None]
    /\ res = "none" /\ faults = 0 /\ astray = FALSE

Step ==
    \/ Read \/ Verify \/ Program \/ EraseAt
    \/ SelectFails \/ AddressFails \/ CommandFails
    \/ NextJob \/ Finish

Next ==
    \/ \E r \in Commands : Start(r) \/ StartMissing(r) \/ StartFails(r)
    \/ Step

Spec == Init /\ [][Next]_vars

-----------------------------------------------------------------------------
(* Properties *)

Covered == req.addr .. req.addr + req.size - 1

\* The cells that the erases of a command may clear.
RangeCells == EraseRange(req).from .. EraseRange(req).to - 1

Succeeded(op) == pc = "idle" /\ res = "ok" /\ req.op = op /\ ~astray

\* The types of all variables.
TypeOK ==
    /\ part \in Parts
    /\ mem \in [Cells -> Contents] /\ start \in [Cells -> Contents]
    /\ sel \in Dies /\ ear \in [Dies -> Nat]
    /\ curr_die \in Dies /\ curr_high_addr \in Nat
    /\ pc \in {"idle", "run"} /\ res \in {"none", "ok", "failed"}
    /\ req \in CommandRecords
    /\ got \in [Cells -> Contents \cup {None}]
    /\ faults \in 0 .. MaxFaults /\ astray \in BOOLEAN
    /\ jobs \in Seq([kind : {"read", "write", "verify", "erase"},
                     data : {"file", "backup", "none"}, addr : Nat, left : Nat])

\* While a command runs, the driver knows which die listens and the extended
\* address byte of that die (curr_die and curr_high_addr of snor->state), so
\* that leaving out a selection or a register write is safe.
CacheTrue ==
    pc = "run" /\ ~astray => /\ curr_die = sel
                             /\ part.window > 0 => curr_high_addr = ear[sel]

\* A read that succeeds stores what the flash holds (read_flash).
ReadIsFlash ==
    Succeeded("read") => \A a \in Covered : got[a] = mem[Cell(req, a)]

\* An erase that succeeds leaves nothing in the range it was given, and a write
\* that succeeds leaves the file there (erase_flash, write_flash).
SuccessIsDone ==
    \A a \in Covered :
        /\ Succeeded("erase") => mem[Cell(req, a)] = Blank
        /\ Succeeded("write") => mem[Cell(req, a)] = FileData(a)

\* An update that succeeds leaves the file in the flash and every other cell as
\* it was, those of the blocks it erased included (write_flash).
UpdateKeepsRest ==
    Succeeded("update") =>
        mem = [c \in Cells |-> IF \E a \in Covered : c = Cell(req, a)
                               THEN FileData(c - Cell(req, 0)) ELSE start[c]]

\* Whatever fails, no cell outside the blocks of the range changes.
ChangesInBlocks ==
    [][~astray => \A c \in Cells : mem'[c] # mem[c] => \E a \in RangeCells : c = Cell(req, a)]_vars

\* Every command ends: a step finishes a pass or leaves less of it, and what is
\* left is a natural number (the loops of ufsnor-common.c; erase_flash_die gives
\* up where nothing can be erased, and would ask for the same place for ever).
StepsShorten ==
    [][pc = "run" =>
         \/ pc' = "idle"
         \/ Len(jobs') < Len(jobs)
         \/ Len(jobs') = Len(jobs) /\ jobs'[1].left < jobs[1].left]_vars
=============================================================================
