# A verification project for ufprog

ufprog reads, writes and erases SPI flash chips through USB bridges.  This
directory holds TLA+ models of its logic, TLC runs on small instances and TLAPS
proofs.  Line numbers are those of `src/`.

## 1. The system

| Component | State it keeps | Operations | Interacts with |
|---|---|---|---|
| NMBM (`flash/nand/ftl/nmbm`) | block states and mapping in RAM, two info tables and a signature on the chip | attach, create, update, rescue, erase, write, read, mark bad, detach | drives the NAND core; is one FTL driver |
| FTL basic, RAM BBT, block torture (`flash/nand/core/ftl-basic.c`, `bbt-ram.c`, `nand.c`) | one state per block, probed lazily; bad marks on the chip | read, write and erase that skip bad blocks, retry, mark bad | called by `ufsnandprog` with callbacks |
| MT7621 BBT (`flash/nand/bbt`) | a table in RAM, its copies in the last blocks of the chip | load, scan, get/set state, commit | NAND core, FTL basic |
| SPI-NAND (`flash/nand/spi-nand`) | the selected die, the configuration register of each die as last written | probe, page read, program, erase, OTP, UID | SPI interface; called by `nand.c` |
| SPI-NOR (`flash/spi-nor`) | current die, address mode, quad enable, status registers | probe, read, program (page, AAI), erase, write protection, OTP, SFDP | SPI interface |
| `ch341-recover`, `ch341-nand-write`, `ch341-nand-program` (`program/spi-nand`) | place in their loops, retries, a stop flag, lists of bad and failed blocks and pages | identify, scan, unlock, erase, program, verify a raw chip | drive a CH341 themselves; a console handler in a second thread |
| MT7622 ECC, ECC and FTL drivers | codec parameters, driver lists | encode, decode, load, unload | NAND core, plugins |
| SPI interface (`interface/spi`) | an open device | attach, execute, adjust, poll | controllers |
| Controllers (`controller/*`) | drivers loaded, devices open, transfer queues | load/unload driver, open/close device, lock/unlock | plugins, libusb |
| Common (`common/`) | plugin list, configuration tree, bitmaps, lookup tables | load/unload plugin, get/set | all |
| Programs (`program/`) | options, a mapped file, progress | the user commands | all |

The `ufs*` programs run one thread.  What is hard in them is not interleaving of
threads but failure: every erase, page program, read or bad mark may fail, a USB
cable may be pulled and the power cut between any two of them, and several
layers repair, retry and remap.  NMBM is the only part that must survive a power
cut of its own state: it stores its mapping on the chip that is failing under
it.  The MT7621 table is saved on exit and may be cut short too.  The `ch341-*`
tools talk to a chip that goes on working while they wait, time out or are
interrupted by Ctrl-C in another thread.

What makes the components correct:

* NMBM: a logic block keeps its data; no two share a block; tables and data
  never overlap; a saved mapping is not lost; every call ends.
* FTL basic: what is reported as written is on good blocks, in order; a bad
  block is neither written nor erased; a bad block stays known as bad.
* MT7621 BBT: the table in RAM, the copy the firmware will find and the marks
  agree; saving it does not run over data.
* SPI-NOR: the die and the high address byte that the driver remembers agree
  with the chip; what a command reports as done was done, at the right address;
  an erase or program stays in the blocks of the range asked for.  Before that:
  a chip is found in whatever width, address mode and wait clocks the process
  before has left it, and is driven with opcodes, address bytes and clocks that
  it understands; the tables say enough and say the truth.
* SPI-NAND: likewise for dies and registers; a command goes to the die and page
  that the caller named; a result is not reported for an operation that did not
  happen.
* CH341 tools: a factory bad block is neither erased nor written; nothing is
  touched before the checks are over; a stop is obeyed soon and does not cut an
  operation short; success means that the image is on the chip.

## 2. Modules

| Module | Models |
|---|---|
| `Nmbm` | the NMBM layer and the chip below it |
| `InfoStore` | abstract: a mapping that survives power cuts |
| `NmbmStore` | `Nmbm` with a history variable, and the refinement to `InfoStore` |
| `FtlBasic` | the default FTL with the RAM bad block table, the bad marks and the torture test below it and the loops of `ufsnandprog` above |
| `Mt7621Bbt` | the MT7621 table with its load, scan and commit, the calls that change it and the copies on the chip |
| `SpiNor` | the commands of `ufsnorprog`, the SPI-NOR driver below them and the chip |
| `SpiNorPart`, `PartsAtmel`, `PartsEon`, `PartsGigaDevice`, `PartsIssi`, `PartsMacronix`, `PartsMicron`, `PartsWinbond` | an entry of the vendor tables and how it is found; the entries of all vendors |
| `SpiNorFixups`, `SpiNorSetup`, `SpiNorDummies`, `SpiNorPlan` | what SFDP and the fixups change in an entry, the transfers and opcodes chosen for a controller, the wait clock tables, and the plan they make together |
| `SpiNorWpTables`, `SpiNorProtect` | the write protection tables, and the regions listed, set and read back with them |
| `SpiNorChip` | a chip that one process after another finds, sets up and reads |
| `SpiNand` | the SPI-NAND driver below the page calls of the NAND core, and a chip of several dies |
| `RawNand` | the chip and the bus that the `ch341-*` tools drive |
| `Ch341Recover`, `Ch341NandWrite`, `Ch341NandProgram` | the three tools, each with its console handler and `RawNand` |
| `MCNmbm`, `MCNmbmStore`, `MCFtlBasic`, `MCMt7621Bbt`, `MCSpiNor`, `MCSpiNorChip`, `MCSpiNand`, `MCCh341Recover`, `MCCh341NandWrite`, `MCCh341NandProgram` | values of the constants for TLC |
| `NmbmProofs`, `FtlBasicProofs`, `Mt7621BbtProofs`, `SpiNorProofs`, `SpiNorChipProofs`, `SpiNandProofs`, `Ch341RecoverProofs`, `Ch341NandWriteProofs` | the theorems about the module of that name |

### Nmbm

The variables are the fields of `struct nmbm_instance` (`state`, `mapping`,
`main`, `backup`, `mapBase`, `mapTop`, `sigBlock`, ...), what is on the chip
(`content`, `marker`), and the place in the code: `pc` is the function that runs, `w`
holds the locals of the one `nmbm_write_mgmt_range` or `nmbm_erase_range` that
may be under way with the caller it returns to, and `after` is where
`nmbm_update_info_table` returns to.  An action is one operation on the chip or
one decision between two, so that a power cut falls between any two of them;
`InFlight` says which block may be left unreadable in the middle of one.

| Code | Actions |
|---|---|
| `nmbm_write_mgmt_range`, `nmbm_write_verify_data` | `TableSkip`, `TableFoundBad`, `TableErase`, `TableProgram`, `TableMark` |
| `nmbm_erase_range` | `CleanSkip`, `CleanFoundBad`, `CleanErase`, `CleanMark` |
| `nmbm_rebuild_info_table` | `Rebuild`, `NewMain...`, `NewBackup...` |
| `nmbm_update_info_table(_once)` | `UpdateStart`, `BackupWritten`, `BackupFails`, `MainWritten`, `MainFailsAlone`, `UpdateDone` |
| `nmbm_rescue_main_info_table` | `MainFails`, `BackupTakesOver`, `TempWritten`, `TempFails`, `RescueEnds` |
| `nmbm_rescue_single_info_table`, `nmbm_update_single_info_table` | `Front...`, `Next...`, `Load...` |
| `nmbm_attach`, `nmbm_load_existing`, `nmbm_load_info_table` | `AttachOneTable`, `AttachTwoTables`, `AttachWithoutTables`, `AttachNew`, `AttachRefused` |
| `nmbm_create_new`, `nmbm_scan_badblocks`, `nmbm_write_signature`, `nmbm_create_info_table` | `ScanAndBuild`, `Sign...`, `CreateTables`, `MapTail`, `MapTailEnds`, `TailFull`, `Created` |
| `nmbm_erase_logic_block` | `EraseRequest`, `EraseRetired`, `EraseFoundBad`, `EraseBlock`, `EraseMark`, `Remap`, `RemapFails`, `MapFull`, `Failed` |
| `nmbm_write_*`, `nmbm_read_*`, `nmbm_mark_bad_block`, `nmbm_detach` | `WriteBlock`, `ReadBlock`, `MarkBadBlock`, `MarkUnmapped`, `Detach` |

Abstractions.  A block is written as a whole and holds nothing, an unreadable
mess, a signature, an info table or the data of one logic block.  The
`NMBM_TRY_COUNT` attempts of an operation are one step with the final outcome.
An info table takes one block (true of every chip with erase blocks of 64 KiB
and more).  Checksums are perfect: what is torn is not taken for a table.  A scan
of the whole chip misreads at most one bad mark (`ScanAndBuild`).  The searches of an
attach for the signature and the tables read every mark (`nmbm-core.c:1850`, `:2155`)
and every page that can be read (`:1860`) as it is: no failure falls into them.

### FtlBasic

`page` and `marks` are the chip, `bbt` the states of `struct nand_bbt_ram`,
`call` the locals of the `ftl_basic_*` function under way, `req` the command or
library call that made it, `tx` the place in the mapped file, `file` what a read
has stored.  `pc` is the place in the loop: `locate` (counting the good blocks
in front of the range), `next` (choosing a block), `do`, the four phases of the
torture test, and `mark`.

| Code | Actions |
|---|---|
| `ftl_basic_get_block_page`, `ftl_basic_is_good_block` | `PassGood`, `PassBad`, `LookFails`, `Located`, `NoSpace`, `Chosen` |
| `ftl_basic_write_pages` | `WriteOk`, `WriteIgnored`, `WriteSwallowed`, `WriteFails`, `Ends` |
| `ftl_basic_erase_blocks` | `EraseBlock`, `EraseToTorture`, `Ends` |
| `ufprog_nand_torture_block` | `TortureErases`, `TorturePrograms`, `TorturePasses`, `TortureFails` |
| `ufprog_nand_markbad` and the table | `GiveUpBlock`, `GiveUpFails`, `MarkBad` |
| `ftl_basic_read_pages` with the read and verify callbacks | `ReadBlock`, `Differs`, `ReadSwallowed`, `ReadFails` |
| `bbt_ram_reprobe` | `Reprobe`, `FullScan` |
| `nand_read`, `nand_write`, `nand_verify`, `nand_erase` | `Start`, `Rejected`, and `Return`, which makes the next call |

Abstractions.  The file of a request holds for logical page q the data "q", so
that what a page holds says where it belongs; `Junk` is a failed program or
erase or a test pattern, `Mixed` a page that was programmed twice.  A failed
erase leaves a block as it was or spoils all of it.  The torture test's buffer
is taken to hold a block.  Errors of the ECC are ignored by the reader, as the
tools ask for.

### SpiNor

`mem`, `sel` and `ear` are the chip: its cells, the die that listens and the
extended address byte of every die.  `curr_die` and `curr_high_addr` are the
driver's memory of the last two in `snor->state`, which lets it leave out
selections and register writes.  A command is turned into a list of `jobs`
(an update: read what is in front of the data and behind it, erase, write the
file, write back the two parts, each write verified if asked), each of which
walks over the dies as the loops of `ufsnor-common.c` do; a step is one
operation on the flash array.

| Code | Actions and operators |
|---|---|
| `ufprog_main`, `spi_nor_chip_setup` | `Start`, `StartMissing` (a selection that failed unnoticed), `StartFails` |
| `do_snor_*`, `read_flash`, `erase_flash`, `write_flash(_no_erase)` | `Refused`, `Clipped`, `Plan`, `NextJob`, `Finish` |
| `ufprog_spi_nor_read_no_check`, `verify_flash_die` | `Read`, `Verify` |
| `spi_nor_page_program` | `Program` |
| `ufprog_spi_nor_get_erase_range`, `spi_nor_erase_at` | `EraseRange`, `EraseAt` |
| `ufprog_spi_nor_select_die`, `spi_nor_setup_addr` | `Addressed`, `SelectFails`, `AddressFails` |

Abstractions.  A cell is erased, holds data that names its cell or its place in
the file, was programmed twice (`Mixed`) or spoilt by a failure (`Junk`).  A
failing bus operation ends the command, as everywhere in the code, and every
command is a process that sets the chip up again.  How it is set up is
`SpiNorChip`'s subject and left out here.  A program that passes
the end of its page goes on at its start; a read that passes the end of a
16 MB window goes on behind it.

### SpiNorChip and its tables

Identification and set-up are one long pure computation between two short
conversations with the chip, and are modelled that way.  `SpiNorPlan` computes
for an entry, what a chip that has it says of itself (its SFDP, abstracted to the
fields the code looks at) and a controller, what the driver will do: `found` (the
first entry with the id), `Driven` (SFDP, then the entry's fixups, which may take
it for another model, then the vendor's), `SetupParam` (opcodes, address bytes,
transfers, wait clocks).  The tables are in `Parts*`, `SpiNorDummies` and
`SpiNorWpTables`, an entry for each entry of the code, in its order.  The state
machine takes the result as a constant, `Chips`: the hardware and the plan that each
controller makes of it.  Its variables are the chip (`dies`: width, address mode,
quad enable and wait clocks of each; `sel`; what a `reset` does) and the driver's
`width` (`state.cmd_buswidth_curr`) and `a4b_mode`.  The assumption `ChipsFit` says of
the tables what the proofs need: which operations a plan has for the modes that a
plan for another controller may have entered (`ModesFit`), which opcodes and address
modes go together (`AddressesFit`), what wait clocks (`ClocksFit`) and dies (`DiesFit`)
it counts.  TLC evaluates it, for every chip and plan of the tables, in each run.

| Code | Actions and operators |
|---|---|
| `spi_nor_probe_jedec_id(_retry)` | `SearchSpi`, `SearchQpi`, `SearchDpi`, `LeaveMode` |
| `spi_nor_find_vendor_part(_by_name)`, `spi_nor_reprobe_part` | `FindVendorPart`, `FindVendorPartByName`, `ReprobePart` |
| `spi_nor_probe_sfdp` and what it calls | `ProbeSfdp`, `ParseSfdpFill`, `ParseSfdpFillTime` |
| the fixups of `vendor-*.c` | `ModelOf`, `WpOf`, `PartFixup`, `VendorFixup` |
| `spi_nor_setup_param`, `spi_nor_setup_opcode`, `spi_nor_choose_io_type` | `SetupParam`, `SetupOpcode`, `ChooseIoType`, `DummyCycles` |
| `spi_nor_init`, `spi_nor_setup_param_final`, `spi_nor_chip_setup` | `Prepare`, `SetupDie` |
| `ufprog_spi_nor_read`, `spi_nor_set_bus_width` | `StartRead`, `EndRead` |
| a process that ends anywhere and the next one | `Start` |
| `wp.c` | `GenWpRegion`, `GetWpRegionList`, `SetWpRegion` (through `SetThrough`), `GetWpRegion` |

Abstractions.  SFDP is well formed and its opcodes are the usual ones.  The user
does not restrict the transfers or the speed, and a controller does the same for
all lengths of an address.  Bus errors, the one-time areas, the register displays
and the user's own table (`ext_id.c`) are left out, and so are the size that SFDP
itself gives, an `a4b_en_type` without `a4b_flags`, and `UFP_SPI_NO_QPI_BULK_READ`
(`spi-nor.c:1011`), which no controller sets.  The high byte register
(`spi-nor.c:1265`) is `SpiNor`'s.

The hardware is what the entry and its vendor's fixups say a chip is, for there is
nothing else in the repository to take it from.  The properties of `SpiNorChip` are thus
about the tables and the code being consistent: two processes with different
controllers, what one leaves and the other finds, what is chosen early and set late.
That an entry is true of the chip in its data sheet they do not say.

### Mt7621Bbt

`marks` and `flash` are the chip, `ram`, `bbt_block`, `read_only` and `changed` the
fields of `struct mt7621_nand_bbt`; the bitmap is the set of the bad blocks.  `pc`
is the call under way and `cursor` the block of the loop of
`mt7621_nand_bbt_write`; `clean`, `found` and `disabled` remember what happened
and are read by the properties only.

| Code | Actions and operators |
|---|---|
| `mt7621_nand_bbt_load`, `mt7621_nand_bbt_read` | `Load`, `Take`, `TakeNone` |
| `mt7621_nand_bbt_rescan`, `reprobe` | `Rescan` |
| `mt7621_nand_bbt_save`, `mt7621_nand_bbt_write` | `Save`, `SaveErase`, `SaveWrite`, `SaveFails` |
| `mt7621_nand_bbt_set_state`, `ftl_basic_block_markbad` | `SetBad`, `MarkBad` |
| `mt7621_nand_bbt_is_reserved`, `ftl_basic_write_pages` | `is_reserved`, `FtlWrite` |
| `mt7621_nand_bbt_commit`, the end of `ufsnandprog` | `Exit` |
| a killed process, a power cut | `Crash` |

Abstractions.  The table fits in one page.  A block of the window holds a table,
data, nothing, or what an interrupted write leaves; a table is read as a whole
or not at all.

### SpiNand

`content`, `otp`, `fused` and `chip` are external: the array, an OTP page for each
die, the permanent lock, and the state machine with its registers, its write
enable latch and the operation in progress.  `cfg`, `curr_die` and `ecc_enabled`
are the driver's memory in `snand->state`.  Each action is a transfer on the bus
or a decision behind one, so that an operation of the chip (`Chip`) may end
before or after it, and has the name of the function it comes from.

| Code | Actions |
|---|---|
| `spi_nand_reprobe_part`, `spi_nand_probe_onfi_generic`, `spi_nand_chip_setup` | `chip_reset`, `probe_onfi`, `chip_setup`, `refresh_config`, `unlock`, `chip_die_setup` |
| `ufprog_spi_nand_read_page`, `write_page`, `erase_block` | `read_page`, `write_page`, `erase_block`, `select_die_page`, `ondie_ecc_control`, `WriteEnable`, `program_load`, `page_op`, `wait_busy`, `check_ecc`, `read_cache` |
| `spi_nand_select_die`, `spi_nand_update_config` | `select_die`, `update_config` |
| `otp.c` | `otp_read`, `otp_write`, `otp_lock`, `otp_locked`, `enter_otp`, `set_lock_bit`, `otp_write_enable`, `leave_otp`, `write_disable`, `leave_for_locked`, `read_lock_bit` |
| `ufprog_spi_nand_read_uid` | `read_uid` |

Abstractions.  A die has one block.  The register has the ECC, OTP and lock
bits; the QE and continuous read bits are left out, as no call changes them
after the set-up.  The parameter page and the UID are read and thrown away, and so is
what the ONFI probe returns: with the part known its caller goes on to the set-up
either way (`spi-nand.c:1646`).

### RawNand and the three tools

`content` is the array and `chip` the state of the flash, its cache register and
the bits of A0 and B0.  `Receive` is what it does with a command, `Sent` a
transfer that works and `Lost` one that returns an error and may still have
arrived.  In each tool `pc` is the call in progress, `stage` the loop of `wmain`
it is made from, `at` the block or page and `attempt` the turn of the retry
loop; actions have the names of the functions.  `console_ctrl_handler` (in
`ch341-nand-program` `console_handler`) sets `stop` at any time.

| Tool | What it models |
|---|---|
| `Ch341Recover` | the ID gate, the scan of the factory marks, unlock and check of A0, and the four loops erase, program, verify now, verify again, with their retries, waits, cleanup and exit codes |
| `Ch341NandWrite` | the first reset, saving A0, unlocking, the two loops with `wait_ready` and the retries in place, putting A0 back |
| `Ch341NandProgram` | the erase of what the image needs, load, read back and verify of each page with the RESET and wait of its retries, and the last verification |

Abstractions.  A page holds one of a few values: what was there, nothing, a page
of the image, or the mess (`Junk`, `Part`) of an operation that failed or was cut
short.  The bytes of the transfers, the printing and the reading of the image
file are left out.

## 3. Runs

F is `MaxFaults` and R `MaxRestarts` (detaches and power cuts together); both are
guards on the environment only.  In `Nmbm` and `FtlBasic` `FaultKinds` says which
operations may fail: reading a bad mark (`check`), `erase`, `program` and writing
a bad `mark`.

| Run | Instance | Shows |
|---|---|---|
| `calls_return` | 9 blocks, 4 of them bad, no spare blocks for data, F 4 of all kinds, R 1 | table writes stay in the management area; the tables hold the mapping between calls; no block is used twice, also for a table and for data; every call and every attach ends |
| `information_store` | 9 blocks, one bad, 2 spare blocks, F 1 (erase, program), R 2 | `Nmbm` implements `InfoStore`; equal write counts mean equal tables; data is never seen through another logic block and changed only by its owner |
| `ftl_calls` | 5 blocks of 2 pages: one bad, one worn, one dead, F 1 of all kinds but `check` | table and marks agree, `retcount` tells the truth, marked blocks stay as they are, changes stay in range, every call ends |
| `ftl_tool` | partition behind block 0, 3 pages of the file mapped, one bad and one dead block, pages may be programmed twice, F 1 (erase, mark, check) | what a command reports as written, erased, read or verified was |
| `mt7621_bbt` | 5 blocks, a window of 3, two new marks, F 1, kills at any step | the copy that is found on the chip is the one in RAM; RAM agrees with the marks; the firmware reads the truth after a clean end; saving spares data |
| `nor_tool` | three chips: two windows; two dies; two regions (all of even size). All commands, operations of up to 3 cells, one failure in each command | the driver's memory of die and address byte is true; reads, erases, writes and updates that succeed did what they say; nothing outside the blocks changes; every command ends |
| `nor_setup` | every entry that can be found by its id, with SFDP of no, an old or a new revision, with QPI mode or without, and what its fixups look at; four controllers: 1 bit, up to 1-4-4, DPI, QPI; processes that end anywhere | a chip is found however it was left and sent commands of its width; address bytes, wait clocks and data lines agree; a chip of which enough is told is served, as what it is; what a protection table offers can be set and read back |
| `spi_nand` | 2 dies of one page, F 1 of any kind | the driver's memory of die and registers is true; commands are aimed at the die, area and ECC mode of the caller; success is true |
| `ch341_recover` | 3 blocks of 2 pages, one bad block with its mark on the second page, F 3, 5 ID tests, 3 retries, 2 verify retries, Ctrl-C at any time | bad blocks are untouched, nothing is erased before the gate, the report misses nothing, one trouble is mended, a stop is obeyed, every run ends |
| `ch341_write` | the same chip, F 3, 3 retries | no operation is cut short unless a transfer was lost, the protection is put back, success is true |
| `spare_reused`, `ch341_program` | | what a comment, the help or a message says and the code does not do (section 6) |

Why the bounds are enough.

* NMBM: four failures with four bad blocks use up the management area; with nine
  blocks a table can be moved twice; two failures are a failed write and the
  failure of its rescue; two power cuts interrupt a repair that an attach makes
  of the first one.  A third restart adds nothing new, as an attach starts from
  the chip alone.
* FTL: retries are three in a row, so a worn block, which fails every program,
  is one that is retried to the end, and the one free failure is a block that
  recovers; a `Dead` block fails every erase.  A block of two pages is one the
  file may end in the middle of.  The calls come in any order and number.
* MT7621: a window of three has a table, a block it moves to and one behind it;
  two marks may be both of them, or one of them and a block of data.
* SPI-NOR: a page has two cells, an erase block two or four, an operation at most
  three, so that every command crosses pages, blocks, windows or dies and starts
  and ends in the middle of one.  A failure ends its command; what it leaves
  behind meets every next command.
* SPI-NOR set-up: the tables are complete, and the shapes of SFDP those that the
  code tells apart.  What does not differ for the properties is one chip
  (`Hardware`, `Plan`), which leaves about 5000 of them.  The state of a die is
  bounded by itself: processes of any number meet what any other left.
* SPI-NAND: two dies are enough to be on the wrong one.  A process meets one failure,
  of any kind and anywhere; the theorems are for any number of them.
* CH341 tools: three retries and three failures use up a retry loop; the gate is
  passed with 5 reads.  Two good blocks are one that fails and one that is
  programmed after it.

Deadlock is checked except where the system stops: a run of the `ch341-*` tools
ends with `pc = "exited"`, and a SPI-NAND process whose set-up fails ends.  A
switched-off device may always be attached, an idle one always takes a request.

Fairness.  `FairSpec` of `Nmbm` and `FtlBasic`: weak fairness of the steps of a
call that has been made, since one thread runs it to its end; nobody is obliged
to call or to attach.  `Ch341Recover`: weak fairness of the tool's steps that need
no new failure, and of the chip, which ends what it has begun; nothing obliges a
transfer to fail or anyone to press Ctrl-C.  That SPI-NOR commands end is stated
without fairness: `StepsShorten` says that every step leaves fewer jobs or less
of the first.

## 4. Boundaries found

NMBM.

* With transient failures of a bad-mark read (`check`, `nmbm-core.c:325`), a block is
  given up that stays readable and may later offer a stale table; `ReadsOwn`,
  `CountsIdentify` and `ImplementsStore` do not hold then and their runs leave
  this kind out.  The other properties hold with it.  With a mark that cannot be
  written (`mark`), a given-up table stays readable too: `CountsIdentify` fails on 7
  blocks with three failures and two restarts.
* `ImplementsStore` needs a failing erase to be followed by a working mark: with
  an erase and the mark failing on the same block (F 2, R 2) the old table
  survives in a block that the layer has left.
* A logic block that is given up is not saved (`nmbm-core.c:2480`);
  `TablesSaved` leaves it out.  A read-only device refuses reads (`:2609`).
* `BlocksApart` (`Distinct` and `TablesApart`) holds on every chip whose spare blocks are good.
  `nmbm_map_block` skips a bad one but lowers `mapping_blocks_top_ba` by one
  only; it leaves out blocks below a bad spare block, and
  `ReadsOwn` is checked on chips with good ones.  `BlocksApart` also wants two
  tables of one write count to be the same, as `CountsIdentify` says.
* The same displaced block may be overwritten by a table: the limit of a table write
  is `mapping_blocks_top_ba`, above the block.  With 9 blocks, two bad ones at
  the top of the spare blocks and two that fail under the backup table, TLC sees the
  backup table written into the block that has just been mapped, and the erase that
  asked for that block wipes it out: `TablesSaved` fails.
* `ReadsOwn` and `ImplementsStore` need a chip on which no block is displaced either.
  With a displaced block at `mapping_blocks_top_ba`, the next attach begins the spare
  blocks below it, which may be the block of the backup table and below
  `mapping_blocks_base_ba`; when the table cannot be written again for want of room,
  its old block is handed out, and the logic block mapped to it reads back a
  table until it is erased (8 blocks, 2 failing operations, 3 restarts;
  `CountsIdentify`, `BlocksApart` and `TablesSaved` hold there).  And a backup table
  written into a displaced block is refused by an attach, since its own mapping
  points among the tables: while the main one is written again, no table is left
  that could be found (9 blocks, 3 failing operations, 1 restart).
* `ReadsOwn` needs an operator who gives `NMBM_F_CREATE` for a new chip only.  If it is
  given always (`ForcedCreate`), an attach that finds no table, after a power cut
  while the only one is written again, maps the data area from scratch, and a logic
  block gets the block with another's data (8 blocks, block 0 bad, 2 failing
  operations, 2 restarts).
* An update of the tables may end with blocks unsaved that its last table
  write found bad (`:1605`), against the comment above it; `TablesSaved` is about
  the mapping.

NAND core and FTL.

* A mark of which one page cannot be read makes a block look good
  (`nand.c:698`), and a mark that was written but could not be read back is not
  entered in the table: `BbtTruthful` and `BadUntouched` are checked and proved
  without `check`.
* Where a page may be programmed twice, the torture test programs the pattern
  over the bytes of the bad mark; if it fails then, the block is marked and the
  table does not know: both properties are about chips where it is not done.
* Otherwise the torture test returns before it programs anything, for want of an
  `if` (`nand.c:1127`): a worn block passes it, although the comment at 1180 says
  that the test passed after the patterns.
* The torture test erases the whole block, so also pages behind the end of the
  request; `ChangesInRange` is about blocks.
* With `ignore_error`, which the tool uses unless `nospread` is given, a failing
  page program is dropped and the command succeeds (`ftl-basic.c:321`); with
  `nospread`, for which the help promises an immediate error (`ufsnandprog.c:92`),
  the result of the write is replaced by that of the callback, and the command
  succeeds as well.  The first half of `SuccessIsTrue` is checked where none
  fails.  The second, about what was read, likewise for failing reads: the
  callback's result replaces the error, and the file has a hole.
* Three dead blocks in a row end an erase with success (`ftl-basic.c:397`), so
  `ErasedIsBlank` is about the blocks in `retcount`, not about the request.
* All runs look at the bad blocks (`CheckBad`); the theorems are for both.

MT7621 BBT.

* After the block of the table has gone bad the code logs "BBT auto writeback
  disabled" (`mt7621-bbt.c:432`), but the tool clears the read-only flag at its
  end and commits (`ufsnandprog.c:1682`): the table is written after all.
* Without a table on the chip the commit takes the last block, whatever it
  holds; `SaveSparesData` is about processes that found a table.  A save that fails
  walks down the window (`:207`) onto blocks that may hold data, which the
  property leaves out too: it is about saves that do not fail.
* The loops visit one block less than the last 32 of the comment, and a chip of
  fewer than 32 blocks makes their bound wrap; `Mt7621BbtAssumption` excludes it.

SPI-NOR.

* A die selection that fails during the set-up is not noticed (`spi-nor.c:2014`).
  A command that starts so (`astray`) may work on the wrong die; the properties
  leave it out until the next set-up.
* `curr_high_addr` is one for all dies: `PartsAssumption` excludes chips with
  several dies and an extended address byte, of which the tables have none.
* In a region of a sector map that is smaller than its erase type, the end of an
  erase range is rounded down (`spi-nor.c:2993`): an erase that ends there leaves
  blocks out, or erases nothing, and succeeds.  Only a sector map can have one.
  `SuccessIsDone`, `UpdateKeepsRest` and `ChangesInBlocks` are checked and proved
  for `EvenSectors`: pages fill a die, regions do not overlap, the sectors of a region
  fill it, and their sizes are powers of two.  Every chip of the tables, those with
  several regions included, is such a chip.
* Erases, writes and updates of several dies must begin in the first one
  (`spi-nor.c:2970`); the model refuses the others as the code does.

SPI-NOR set-up.  `Told` says when enough is told of a chip; these are refused:

* `GD25L*256` (`vendor-gigadevice.c:2412`, for LB256D, LE256D, LE255E and LQ255E) and
  `MX25L25655*`: they do not want SFDP and say nothing of 4-byte addresses.
* `IS25L*025`, `512`, `010`, `020` with SFDP of revision B: their fixups name models that
  no table has (`vendor-issi.c:1127-1229`).
* Entries of 256 KB sectors (`M25P128`, `S25FL128P0XxFI01`, `S25FL129P0Xxxx01`,
  `S25FL256Sxxxxxx1`) with SFDP of revision A: their erase command is generated
  twice, and the second time 256 KB is no longer a size it is made from.

And these are served as something else, or otherwise strange:

* `GD25S512MD` and `GD25S513MD` have two dies; the entry found for their id has one.
  `EN25QX128A` and `EN25QX64A` share an id, and so do `IS25LD040` and `PM25LV040`, of other
  sizes: `ToldIsTrue` is about chips alone with their id.
* XTX's fixups send 32h, of 3-byte addresses, for a page program of 4
  (`vendor-xtx.c:693`), which `AddressesAgree` leaves out.  Of a Winbond stack only
  the selected die is told to leave 4-byte addresses.
* `setup_multi_io` looks at the kind of the read before it is chosen; the Eon
  fixups look at flags before they are filled in; two of XMC's look at a byte of
  the SFDP header for one of the vendor's table and never find their second
  model; Micron's and one of XMC's read a table without asking whether there is
  one.  `get_4b_3b_opcodes` lacks an else (`spi-nor.c:1108`).
* The protection bits of `EN25Q40B`, `EN25Q80C`, `EN25S32A` and `EN25QH256A`
  (`vendor-eon.c:1385`, `:1522`, `:1886`, `:2296`) are set through an access whose
  registers have no bytes (`eon_sr1_sr4_acc`, `:71`): the commands are sent without
  data, and the call compares what it never read.  `ToldIsTrue` leaves them out.  Where the
  comparison of `ufprog_spi_nor_set_wp_region` fails it clears the bits and returns
  success (`wp.c:810`).
* `is25xp256ek_wpr_4bp_tbs0` and `1` count in steps of 16 (`vendor-issi.c:510-548`)
  where their comments name sizes that double.

SPI-NAND.

* A register command that reached the chip although its transfer returned an
  error makes the driver's memory wrong; the three properties are about
  processes without one (`faults["unacked"] = 0`).
* What an error leaves behind is collected in `slipped`: a die selection of the
  set-up that failed unnoticed, the OTP mode left on by `otp_write` when its
  first `write_enable` fails, or by any failing `leave_otp`, and a chip that is
  still busy after a timeout.  `OnTarget` and `CallsTellTruth` are about the calls
  before.
* `otp_lock` sets the lock bit, programs, and does not look at P_FAIL; if it
  fails half way, the bit stays set and the next call reads its own bit and
  reports success (`otp.c:96-149`).  The properties say nothing of its success.
* `chip_reset` during the probe of a part may leave `curr_die` stale, and OTP reads
  with ECC never turn the chip's ECC on.  `ufprog_spi_nand_read_pages`
  (`spi-nand.c:1891` tests `ret` for `ecc_ret`) is not called by the core for the
  parts modelled.

CH341 tools.

* A lost status reply, or P_FAIL, makes `ch341-nand-write` repeat the program in
  place; the page may then hold a mess and the tool exit with 0: its comments at
  870 and 1072 are true only as long as no reply is lost.  `SuccessIsWritten` is
  about runs without such a failure.
* `OneTroubleIsMended` leaves out an operation that the RESET of a verification
  has cut short: the page can no longer be programmed.
* `wait_ready` of `ch341-nand-program` gives up on Ctrl-C (273-321) and the cleanup
  resets a busy chip, although the comment at 1620 says it waits.

## 5. Proofs

Each theorem holds for every value of the constants that satisfies the
assumptions named in its module: any number of blocks, pages and dies, any set
of bad blocks, any number of failures and restarts.  TLC checked every inductive
invariant on the instances above before it was proved.

| Module | Theorems | Inductive invariant |
|---|---|---|
| `NmbmProofs` | `TypeCorrect`, `WritesConfined` (`TableWritesConfined`), `BlocksStayApart` (`BlocksApart`), `TablesStaySaved` (`TablesSaved`), `CountsAreTrue` (`CountsIdentify`), `AllIsWell` (`BlocksApart`, `TablesSaved`), `NothingForeignIsRead` (`ReadsOwn`), `MappingSurvives` (`ImplementsStore`) | `TypeOK /\ Ranges`; `ApartInv`; `SavedInv`; `CountInv`; `OwnInv`; `StandInv`, `DiskInv` |
| `FtlBasicProofs` | `TypeCorrect`, `TableTruthful` (`BbtTruthful`), `MarkedBlocksKept` (`BadUntouched`), `CountedPagesLie` (`RetcountIsTrue`), `CountedBlocksBlank` (`ErasedIsBlank`), `RangeIsKept` (`ChangesInRange`), `SuccessMeansDone` (`SuccessIsTrue`) | `TypeOK /\ InUse`, `Truth`, and what lies behind the call |
| `Mt7621BbtProofs` | `TypeCorrect`, `TableIsFollowed`, `BitmapIsTrue`, `FirmwareIsTold`, `DataIsSpared` | `TypeOK`, `Held`, `Awake`, and while nothing failed `Known` and `Found` |
| `SpiNorProofs` | `CacheIsTrue` (`CacheTrue`), `CommandsShorten` (`StepsShorten`), `ReadsAreTrue` (`ReadIsFlash`), `SuccessfulIsDone` (`SuccessIsDone`), `RestIsKept` (`UpdateKeepsRest`), `ChangesStayInBlocks` (`ChangesInBlocks`) | `CacheTrue`, ranges, `Framed`, `Reading`, `Storing` |
| `SpiNorChipProofs` | `TypeCorrect`, `LeftoversAlwaysFound` (`LeftoversAreFound`), `AddressesAlwaysAgree` (`AddressesAgree`), `TransfersAlwaysAgree` (`TransfersAgree`) | `SetupInv`: `TypeOK`, `LeftSo`, `Sought`, `Driven` |
| `SpiNandProofs` | `TypeCorrect`, `CacheIsTrue` (`CacheIsRegister`), `CommandsAreAimed` (`OnTarget`), `ResultsAreTrue` (`CallsTellTruth`) | `TypeOK`, `Shape`, `Calm`, and without the excluded failures `Known`, `Aimed`, `Done` |
| `Ch341RecoverProofs` | `TypeCorrect`, `BadBlocksUntouched`, `GateComesFirst`, `ReportComplete`, `StopsAtOnce` (`StopIsPrompt`), `OneTroubleMended` (`OneTroubleIsMended`) | `TypeOK`, `Staged`, `Placed`, `Turned`, `Identified`, `Scanned`, `Guarded`; `Judged`; `Prompt`; `Mild => OnTrack` |
| `Ch341NandWriteProofs` | `TypeCorrect`, `NothingIsCutShort`, `ProtectionIsPutBack`, `SuccessIsTrue` | `TypeOK`, `Shape`, `Calm`, `PutBack`, and while `Spotless` `Waiting` and `Covered` |

Some theorems have hypotheses of their own, each a boundary of section 4:

* `MarksReadable`: no bad mark fails to be read and no test pattern is programmed
  over one.  `CheckBad`: the bad blocks are looked at.  Without it a given-up block
  takes a place of the request but none of the file, and where a page of the file
  lies is no longer a matter of counting.  `NoLoss`: no page program or read of the
  tool's is allowed to fail, whose errors the tool drops.
* `EvenSectors`, see above.
* `BlocksStayApart` assumes `[]CountsIdentify`: `nmbm_load_info_table` takes the
  mapping from one table and the place of the spare blocks from the other when
  their write counts agree, so if these were two different tables a block in use
  could be handed out again.
* `TablesStaySaved` assumes that too, and `[]TablesUnused`: no logic block is mapped
  to a block that holds a table.  By `BlocksStayApart` this fails only below a bad
  block, as in section 4.
* `CountsAreTrue`, `AllIsWell`, `NothingForeignIsRead` and `MappingSurvives` assume `MarksWork`,
  that only erases and programs fail: with the others TLC refutes `CountsIdentify` and
  `ImplementsStore` (section 4).  And they assume
  `[]NoneDisplaced`, that no logic block is mapped at or below the top of the spare
  blocks, which only a bad spare block brings about.  Under these `AllIsWell` needs none
  of the hypotheses of the two theorems before, which hold for every kind of failure.
  `NothingForeignIsRead` also assumes `~ForcedCreate`, that the operator stops giving
  `NMBM_F_CREATE` once the chip is in use (section 4).
* The theorems about `SpiNorChip` assume `ChipsFit` (section 2), which the tables of
  parts satisfy: any chips, any controllers, any number of dies and processes, as
  long as each plan fits.  Whoever adds a part has it evaluated by the run `nor_setup`.
* `OneTroubleMended` wants `Retries >= 2` and `VerifyRetries >= 2`; the code has 3 and
  2.  With one there is no second attempt and the property is false.

Why the invariants are what they are.

* NMBM.  `TypeOK` is not inductive: block addresses are stepped up and down, and
  stay on the chip only because each write knows its limit.  `Ranges` supplies
  what is missing, one conjunct for each phase of the code: `WriteInv` and
  `CleanInv` relate the locals of a table write to the layout and to the caller
  (the rescue of the main table, say, writes up to the backup), `SignInv` the
  search for the signature block, `LayoutInv` keeps both tables and the spare
  blocks in the area below the signature and says that an unprotected device has
  a main table, `AfterInv` and `EraseInv` are about control.
  For `BlocksApart` the tables on the chip count as much as the one in RAM, since an
  attach believes them: each was `Sound` when it was written, for the block it was
  written to and the signature an attach will find (`TablesSound`), and that
  signature does not change once there are tables, since all that is
  touched lies below it (`SignKept`).  `BaseSound` and `BackupBelow` keep the spare
  blocks in use above both tables; the one state where that fails is a device
  whose attach could not write its second table, which is read-only (`Stuck`).
  `SavedInv` names, for each phase of an update, a rescue or an attach, the table that
  holds the mapping while the other one is written (`Holding`), and why the write does
  not reach it (`Aside`).
  `CountInv` is about the history of the tables.  Any two on the chip fit each other
  (`Fit`): one was made from the other by a call, so counts and bad blocks grow
  together (`Lineage`), which is why a table never finds room in front of two that
  are in use.  What the device has in RAM, or an attach has found so far, is at least
  as new as every table on the chip (`Known`, `Cached`); `Present` and `Course` say
  for each phase of a write where the other table is, and `Findable` that there are two
  at most and both lie below every block an attach could take for the signature.
  `OwnInv` follows the data.  Whatever mapping the layer works with or may load (the
  RAM's, that of the table being written, that of each table on the chip) maps a
  block with data to its owner only, and takes it for a good block only while it is
  the owner's (`Owners`): a block its owner has left is bad in the same table that
  knows of the move, so nobody else is given it.  New data needs `Told`, that outside the updates every table
  has the mapping the write went by, since the next attach may load any of them.
  Before the first attach there is no data at all (`BornFirst`), which is why a
  chip may be mapped from scratch, and there is never a second signature for an
  attach to find (`OneSignature`).
  For `MappingSurvives`, a step of `Nmbm` with its history variable is one step of
  `InfoStore`, or none: an attach is `Boot` or, on a chip without tables, `Format`; each
  change of the mapping is an `Edit` (`Edits`: it happens between the writes of the
  tables); the end of an update is `Save`; what takes the last table away is `Lose`, or
  `Off` with a loss.  `OneStands` is why `Lose` needs a lone table: with two of them
  there is in every phase a table that no write in progress has come to, by `SavedInv`
  and by `StandInv`, which adds which tables hold exactly the mapping between the
  writes of one update (`Certain`) and that outside the updates both are there
  (`Stand`).  So each table on the chip is the mapping once an update ends
  (`OnceExact`), and only then may the other mappings be forgotten.  `DiskInv` says
  that a later attach can only load a mapping that `disk` records: each table on the
  chip is `Listed` or `Outdated`, older than a listed one.  It is outdated when an
  attach has chosen the newer table and the power is cut before the older is written
  again.  `disk` is empty just when the chip has no table, and what an attach looks
  for it finds (`TablesFound`).
* FTL.  `page'[b]` is a function again only if the block worked on is a block of
  the chip, and the retries stay in range only if there are some left when a
  block fails; `InUse` says both, and that the table takes that block for a good
  one, which is what `MarkedBlocksKept` needs.  `MarksReadable` (no `check`
  failures, no test pattern) is the boundary of section 4.  For the results, every
  step is of one of a few kinds (it counts a block, skips one, gives one up, or
  changes the block it is on); the place of a page is the number of usable blocks
  in front of it, and the invariant says what holds of the pages behind that
  place, and that the marks of the blocks behind it have not changed since.
* MT7621.  `Held` ties the block of a save that is under way to the window and to
  the block it began with; `Found` says that no table lies behind the one that was
  taken, for which the proof needs that a highest block with a table exists
  (by well-founded induction).
* SPI-NOR.  That an address byte was written to the die that is selected says
  something of `ear[sel]` only if the die is one of the chip.  `Framed` says that
  the jobs of a command have addresses and its die exists; `RegionFacts`,
  `FoundRegion` and `RoundDownInt` give the erase range: a region is found at
  every address, and rounding down does not leave the natural numbers, whether or
  not the erase size is a power of two.  `Reading` follows a read: what the buffer
  holds and the jobs left are the cells of the request in order.  `Storing` looks at
  the jobs left as a set: they stay in the blocks of the request (`Proper`), the
  reads of an update come before its erases and those before its programs
  (`Sorted`, `ReadsFirst`), a cell outside the request is as it was or in the
  buffer that will be written back (`Kept`), and the cells that no job covers any
  longer are blank (`HalfErased`) or hold what was asked for (`HalfWritten`).  That
  the erase stays on multiples of the smallest erase type is where `EvenSectors`
  comes in; that a command reaches the cell it means is `CacheTrue`.
  Of the set-up, `LeftSo` says what a chip may be left in by any process: a width, an
  address mode or wait clocks that some controller's plan chooses, a stack of dies
  never in another width, and a step of the search or a reset opens nothing (`Milder`).
  `Sought` follows the search: where the id is read four or two bits wide the chip
  is not one bit wide, and a mode in which it is found again was not left by the
  operation tried first, so that it is the entry's type that tells the other one,
  before SFDP.  `Driven` says that the selected die has the driver's width, and the
  dies behind the loop of the set-up are as the plan wants them (`DieReady`).
* SPI-NAND.  `Shape` says which calls reach which step with which result; `Calm`
  that the chip is idle whenever the driver is not waiting, unless something
  slipped; `Known` is the truth of the cache in the middle of a call; `Aimed`
  follows a call from the die over the ECC mode or the OTP area to the command;
  `Done` says what the array holds once the chip has finished.
* `ch341-recover`.  `Scanned` says that the blocks in front of the scan are in
  `bad` when they should be, and `Guarded` that the block under way is not; a lost
  RESET and a busy chip that ignores a command are why `BadUntouched` needs the
  whole of it.  `Judged` is for the report: every page behind the loop is listed
  or true.  For `StopsAtOnce`, `Prompt` says in which calls a stop that was asked
  for can still be unnoticed.  `OneTroubleMended` rests on `Mild` (at most one
  trouble so far) never being regained, on the chip being, in every call, at the
  step the tool waits for, and on a page being tried again only after the trouble.
* `ch341-nand-write`.  `Calm`: the chip is busy only while the tool waits for it or
  after a transfer was lost; `PutBack`: A0 was read before it was changed;
  `Waiting` and `Covered` follow each page from the load to the status that ends it.

Only model-checked: `Served` of `SpiNorChip` and its `ChipsFit`, which are about the
tables of parts and are decided by going through them; `TypeOK` of `SpiNor`; `Ch341NandProgram`; and
`CallsReturn`, `EveryCallEnds` and `EveryRunEnds` (liveness under fairness is out of the
prover's reach).

## 6. Findings

Each is a run that violates the property stating the comment, the help or the
message.

* `spare_reused`: two logic blocks mapped to one block (`nmbm-core.c:1643`).
* `ch341_program`: `program_page` fills the cache of the chip and never sends
  PROGRAM EXECUTE (`ch341-nand-program.c:491`); a run in which nothing fails leaves
  the pages blank and ends at the first read back.

## 7. Not modelled, and the plan

* NMBM: the read-only attach, tables of several blocks, failures in the searches of
  an attach, and the loops over several blocks of the range calls.
* FTL basic: tables of other drivers, reserved blocks, and the calls of `nand.c`
  for a single page.
* SPI-NOR: AAI writes, register displays, OTP, dumps, the user's table, malformed
  SFDP, whether an entry is true of its data sheet, and bus errors during the set-up.
* SPI-NAND: identification, I/O modes and bus width, sequential reads, the choice
  of planes.
* Plugin, driver and device lifetimes: lists with counters that one thread
  changes.
* Bitmap, lookup table, the MT7622 codec and parameter pages: algorithms and
  parsers over bytes without state between calls.
* The SPI-NAND vendor tables and `ext_id.c` are data; the controllers translate transfers to the
  byte protocols of USB bridges; the OS layer is I/O; the other `ch341-*` test
  programs and the Python scripts look at a chip or a dump and change nothing.

What comes next: the lifetimes of plugins, drivers and devices.
