---------------------------- MODULE SpiNorSetup ----------------------------
(***************************************************************************)
(* The commands that the SPI-NOR driver settles on for a chip and an SPI   *)
(* controller: spi_nor_setup_param and what it calls (spi-nor.c).          *)
(*                                                                         *)
(* A controller is the set ios of the transfers it can do and its speed    *)
(* limit in MHz; it is the same for every length of an address, so that    *)
(* the high byte of an address never has to be kept in a register.  The    *)
(* user has not restricted the transfers allowed or the speed.             *)
(***************************************************************************)
EXTENDS SpiNorFixups, SpiNorDummies

\* spi_nor_test_io_opcode_full: the dummy clocks must make whole bytes.
TestIo(ctl, io, clocks) == io \in ctl.ios /\ (clocks * AddrBw(io)) % 8 = 0

Highest(S) == CHOOSE i \in S : \A j \in S : j <= i

\* What spi_nor_choose_io_type finds: a kind of transfer and its dummy clocks, and,
\* if the chip has to be told of them, the value of its register and the clock rate
\* it is good for (0 when it is not).
Choice(io, clocks, idx, mhz) == [io |-> io, clocks |-> clocks, idx |-> idx, mhz |-> mhz]
NoChoice == Choice("none", 0, 0, 0)

\* The walk through the rows <<idx, clocks, MHz>> of a dummy cycle table, as far as
\* they are faster than the controller: the last that can be sent or, of those with
\* its rate (which are next to each other), the one with fewest clocks; the first that
\* can be sent if none is faster.
DummyCycles(ctl, io, rows) ==
    LET sent == {i \in DOMAIN rows : TestIo(ctl, io, rows[i][2])}
        fast == {i \in sent : \A j \in sent : j <= i => rows[j][3] > ctl.mhz}
        alike == {i \in fast : rows[i][3] = rows[Highest(fast)][3]}
        fewest == {i \in alike : \A j \in alike : rows[i][2] <= rows[j][2]}
    IN  IF sent = {} THEN <<>> ELSE IF fast = {} THEN rows[First(sent)] ELSE rows[First(fewest)]

\* spi_nor_choose_io_type, for one kind of transfer and for all.
IoChoice(ctl, op, io, row) ==
    IF row # <<>> THEN Choice(io, row[2], row[1], row[3])
    ELSE IF TestIo(ctl, io, op.ndummy) THEN Choice(io, op.ndummy, 0, 0) ELSE NoChoice
LastChoice(choices) ==
    LET found == {i \in DOMAIN choices : choices[i] # NoChoice}
    IN  IF found = {} THEN NoChoice ELSE choices[Highest(found)]
ChooseIoType(ctl, table, caps, dc) ==
    LET Row(io) == IF io \in DOMAIN dc THEN DummyCycles(ctl, io, dc[io]) ELSE <<>>
        ChoiceOf(io) == IF io \in caps \cap DOMAIN table
                        THEN IoChoice(ctl, table[io], io, Row(io)) ELSE NoChoice
    IN  LastChoice([i \in DOMAIN IoTypes |-> ChoiceOf(IoTypes[i])])

-----------------------------------------------------------------------------
(* Opcodes *)

Opcodes(p, read, pp, erase) ==
    [read |-> read, pp |-> pp,
     erase |-> IF p.flags \cap Sectors # {} THEN GenEraseInfo(p, erase) ELSE erase]

\* spi_nor_get_3b_opcodes, spi_nor_get_4b_3b_opcodes (where an else is missing: the
\* erase commands are always those of 3-byte addresses), spi_nor_get_4b_opcodes.
Get3bOpcodes(p) ==
    Opcodes(p, Or(p.read_opcodes_3b, default_read_opcodes_3b),
            Or(p.pp_opcodes_3b, default_pp_opcodes_3b), OrErase(p.erase_info_3b, default_erase_opcodes_3b))
Get4b3bOpcodes(p) ==
    Opcodes(p, Or(p.read_opcodes_4b, Or(p.read_opcodes_3b, default_read_opcodes_3b)),
            Or(p.pp_opcodes_4b, Or(p.pp_opcodes_3b, default_pp_opcodes_3b)),
            OrErase(p.erase_info_3b, default_erase_opcodes_3b))
Get4bOpcodes(p) ==
    Opcodes(p, Or(p.read_opcodes_4b, default_read_opcodes_4b),
            Or(p.pp_opcodes_4b, default_pp_opcodes_4b), OrErase(p.erase_info_4b, default_erase_opcodes_4b))

DcTable(p) == IF p.dc_table = "none" THEN NoTable ELSE dc_tables[p.dc_table]

\* spi_nor_test_read_pp_opcode, and the erase commands that there have to be.
Chosen(opcodes, read, pp, naddr, a4b) ==
    [ok |-> read # NoChoice /\ pp # NoChoice /\ opcodes.erase # {},
     naddr |-> naddr, a4b |-> a4b, read |-> read, pp |-> pp, erase |-> opcodes.erase,
     read_opcode |-> IF read = NoChoice THEN 0 ELSE opcodes.read[read.io].opcode,
     pp_opcode |-> IF pp = NoChoice THEN 0 ELSE opcodes.pp[pp.io].opcode]
Tested(ctl, p, opcodes, naddr, a4b) ==
    Chosen(opcodes, ChooseIoType(ctl, opcodes.read, p.read_io_caps, DcTable(p)),
           ChooseIoType(ctl, opcodes.pp, p.pp_io_caps, NoTable), naddr, a4b)

\* How the mode of 4-byte addresses is entered and left, in the order of preference.
ModeSwitches == <<"B7H_E9H", "WREN_B7H_E9H", "BANK", "NVCR">>

Failed == [ok |-> FALSE]

\* spi_nor_setup_opcode chooses opcodes, address bytes and how the mode is entered.
\* The high byte register is SpiNor's.

\* Mutant: the modes of 4-byte addresses are not tried.
SetupOpcodeOnly(ctl, p) ==
    LET opcode == Tested(ctl, p, Get4bOpcodes(p), 4, "none")
    IN  IF ~Large(p) THEN Tested(ctl, p, Get3bOpcodes(p), 3, "none")
        ELSE IF "OPCODE" \in p.a4b_flags THEN opcode ELSE Failed

\* spi_nor_setup_opcode: the ways to send an address, in the order they are tried.
Ways(p) ==
    LET modes == {i \in DOMAIN ModeSwitches : ModeSwitches[i] \in p.a4b_flags}
    IN  IF ~Large(p) THEN <<<<Get3bOpcodes(p), 3, "none">>>>
        ELSE (IF "ALWAYS" \in p.a4b_flags THEN <<<<Get4b3bOpcodes(p), 4, "none">>>> ELSE <<>>)
          \o (IF "OPCODE" \in p.a4b_flags THEN <<<<Get4bOpcodes(p), 4, "none">>>> ELSE <<>>)
          \o (IF modes = {} THEN <<>>
              ELSE <<<<Get3bOpcodes(p), 4, ModeSwitches[First(modes)]>>>>)
FirstGood(tested) ==
    LET good == {i \in DOMAIN tested : tested[i].ok}
    IN  IF good = {} THEN Failed ELSE tested[First(good)]
SetupOpcode(ctl, p) ==
    FirstGood([i \in 1..4 |-> IF i \in DOMAIN Ways(p)
                               THEN Tested(ctl, p, Ways(p)[i][1], Ways(p)[i][2], Ways(p)[i][3])
                               ELSE Failed])

-----------------------------------------------------------------------------
(* Everything together *)

\* How QPI and DPI are entered and left: by what the entry says, and by Micron's
\* fixups for a chip that can be programmed in that mode.
MicronMode(f, io) ==
    /\ f.vendor_init = "micron" /\ io \in f.part.pp_io_caps
    /\ "BYPASS_VENDOR_FIXUPS" \notin f.part.flags
Method(f, type) ==
    IF type \in {"VENDOR", "NONE"} THEN IF type = "VENDOR" /\ MicronMode(f, "4_4_4") THEN "EVCR" ELSE "NONE"
    ELSE type
QpiEn(f) == Method(f, f.part.qpi_en_type)
QpiDis(f) == Method(f, f.part.qpi_dis_type)
DpiEn(f) == IF MicronMode(f, "2_2_2") THEN "EVCR" ELSE "NONE"

\* spi_nor_setup_param: what the chip cannot be told is not used.
UsedCaps(f, caps) ==
    caps \ ((IF f.part.qe_type = "UNKNOWN" THEN X4 ELSE {})
              \cup (IF QpiEn(f) = "NONE" THEN {"4_4_4"} ELSE {})
              \cup (IF DpiEn(f) = "NONE" THEN {"2_2_2"} ELSE {}))
SetupParam(ctl, f) ==
    LET p == [f.part EXCEPT
                !.read_io_caps = UsedCaps(f, @),
                !.pp_io_caps = UsedCaps(f, @) \cup
                               (IF "PP_DUAL_INPUT" \in f.part.flags THEN {"1_1_2"} ELSE {})]
    IN  IF f = NoVendorPart THEN Failed
        ELSE IF (QpiEn(f) = "NONE") # (QpiDis(f) = "NONE") THEN Failed ELSE SetupOpcode(ctl, p)
=============================================================================
