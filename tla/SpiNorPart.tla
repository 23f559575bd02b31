----------------------------- MODULE SpiNorPart -----------------------------
(***************************************************************************)
(* What the SPI-NOR driver knows of a chip (flash/spi-nor/part.h, part.c): *)
(* an entry of a vendor's table, how an entry is found, and the opcodes    *)
(* used for what an entry leaves out.                                      *)
(*                                                                         *)
(* Sizes count KB, clock rates MHz.  The register displays, the one-time   *)
(* areas and the names shown for a vendor are left out.                    *)
(***************************************************************************)
EXTENDS Integers, Sequences, FiniteSets, TLC

\* enum spi_mem_io_type, the widths of command, address and data, worst first.
IoTypes == <<"1_1_1", "1_1_2", "1_2_2", "2_2_2", "1_1_4", "1_4_4", "4_4_4">>
Ios == {IoTypes[i] : i \in DOMAIN IoTypes}

Widths ==
    [io \in Ios |-> CASE io = "1_1_1" -> <<1, 1, 1>> [] io = "1_1_2" -> <<1, 1, 2>>
                      [] io = "1_2_2" -> <<1, 2, 2>> [] io = "2_2_2" -> <<2, 2, 2>>
                      [] io = "1_1_4" -> <<1, 1, 4>> [] io = "1_4_4" -> <<1, 4, 4>>
                      [] io = "4_4_4" -> <<4, 4, 4>>]
CmdBw(io) == Widths[io][1]
AddrBw(io) == Widths[io][2]
DataBw(io) == Widths[io][3]

\* BIT_SPI_MEM_IO_X2, X4, DPI and QPI.
X2 == {"1_1_2", "1_2_2"}
X4 == {"1_1_4", "1_4_4"}
DPI == X2 \cup {"2_2_2"}
QPI == X4 \cup {"4_4_4"}

-----------------------------------------------------------------------------
(* Opcodes *)

NoTable == <<>>     \* a null pointer to a table

\* SNOR_IO_OPCODE: a command that transfers data, with its dummy and mode clocks.
Cmd(opcode, ndummy) == [opcode |-> opcode, ndummy |-> ndummy]

default_read_opcodes_3b ==
    [io \in Ios |-> CASE io = "1_1_1" -> Cmd(\h0b, 8) [] io = "1_1_2" -> Cmd(\h3b, 8)
                      [] io = "1_2_2" -> Cmd(\hbb, 4) [] io = "2_2_2" -> Cmd(\hbb, 8)
                      [] io = "1_1_4" -> Cmd(\h6b, 8) [] io = "1_4_4" -> Cmd(\heb, 6)
                      [] io = "4_4_4" -> Cmd(\heb, 8)]
default_read_opcodes_4b ==
    [io \in Ios |-> CASE io = "1_1_1" -> Cmd(\h0c, 8) [] io = "1_1_2" -> Cmd(\h3c, 8)
                      [] io = "1_2_2" -> Cmd(\hbc, 4) [] io = "2_2_2" -> Cmd(\hbc, 8)
                      [] io = "1_1_4" -> Cmd(\h6c, 8) [] io = "1_4_4" -> Cmd(\hec, 6)
                      [] io = "4_4_4" -> Cmd(\hec, 8)]

default_pp_opcodes_3b ==
    ("1_1_1" :> Cmd(\h02, 0)) @@ ("1_1_2" :> Cmd(\ha2, 0)) @@ ("1_1_4" :> Cmd(\h32, 0))
      @@ ("4_4_4" :> Cmd(\h02, 0))
default_pp_opcodes_4b ==
    ("1_1_1" :> Cmd(\h12, 0)) @@ ("1_1_4" :> Cmd(\h34, 0)) @@ ("4_4_4" :> Cmd(\h12, 0))

\* SNOR_ERASE_SECTOR
Sector(size, opcode) == [size |-> size, opcode |-> opcode]

NoErase == {Sector(0, 0)}   \* a null pointer
default_erase_opcodes_3b == {Sector(4, \h20), Sector(32, \h52), Sector(64, \hd8)}
default_erase_opcodes_4b == {Sector(4, \h21), Sector(64, \hdc)}

-----------------------------------------------------------------------------
(* Entries *)

\* Erase sizes, and how the status register is written.
S4_32_64 == {"SECT_4K", "SECT_32K", "SECT_64K"}
S4_64 == {"SECT_4K", "SECT_64K"}
S4_32 == {"SECT_4K", "SECT_32K"}
S4 == {"SECT_4K"}
S32 == {"SECT_32K"}
S64 == {"SECT_64K"}
S256 == {"SECT_256K"}
Sectors == S4_32_64 \cup S256

Bypass == {"BYPASS_VENDOR_FIXUPS", "NO_SFDP"}
BypassMeta == Bypass \cup {"META"}

NV == {"SR_NON_VOLATILE"}
V == {"SR_VOLATILE"}
V50 == {"SR_VOLATILE_WREN_50H"}
NV50 == NV \cup V50
NVV == NV \cup V
NVV50 == NVV \cup V50

NoId == <<>>
Plain == <<>>       \* an entry without anything special

\* What an entry may add to or change in the others.
Ordinary ==
    [r |-> {}, p |-> {}, dual |-> 0, quad |-> 0, qe |-> "UNKNOWN", qpi |-> "NONE", srp |-> FALSE,
     a4b |-> {}, erase3 |-> NoErase, erase4 |-> NoErase, read3 |-> NoTable, pp3 |-> NoTable,
     mask |-> NoTable, wp |-> "none", wpacc |-> "none", dc |-> "none", dcacc |-> "none",
     fix |-> "none", ops |-> "none", alias |-> {}, dies |-> 0, page |-> 0, vf |-> {}]

\* SNOR_QPI: how a chip enters QPI mode, and how it leaves it.
QpiPair(qpi) ==
    CASE qpi = "38H_FFH" -> <<"38H", "FFH">> [] qpi = "35H_F5H" -> <<"35H", "F5H">>
      [] OTHER -> <<qpi, qpi>>

\* struct spi_nor_flash_part_blank: an entry and the tables it points to.
EntryWith(model, id, size, flags, caps, mhz, o) ==
    [model |-> model, alias |-> o.alias, id |-> id, mask |-> o.mask, size |-> size,
     flags |-> flags, vendor_flags |-> o.vf,
     read_io_caps |-> caps \cup o.r, pp_io_caps |-> caps \cup o.p,
     read_opcodes_3b |-> o.read3, read_opcodes_4b |-> NoTable,
     pp_opcodes_3b |-> o.pp3, pp_opcodes_4b |-> NoTable,
     erase_info_3b |-> o.erase3, erase_info_4b |-> o.erase4,
     qe_type |-> o.qe, qpi_en_type |-> QpiPair(o.qpi)[1], qpi_dis_type |-> QpiPair(o.qpi)[2],
     a4b_flags |-> o.a4b, ndies |-> o.dies, page_size |-> o.page,
     spi_mhz |-> mhz, dual_mhz |-> o.dual, quad_mhz |-> o.quad,
     wp_ranges |-> o.wp, wp_regacc |-> o.wpacc,
     dc_table |-> o.dc, dc_acc |-> o.dcacc, dc_qpi_srp |-> o.srp,
     fixups |-> o.fix, ops |-> o.ops]
Entry(model, id, size, flags, caps, mhz, opts) ==
    EntryWith(model, id, size, flags, caps, mhz, opts @@ Ordinary)

\* The four common kinds of entries.
NoSfdp(model, id, size, sect, sr, mhz, opts) ==
    Entry(model, id, size, {"NO_SFDP"} \cup sect \cup sr, {"1_1_1"}, mhz, opts)
Meta(model, id, size, sect, sr, mhz, opts) ==
    Entry(model, id, size, {"META", "NO_SFDP"} \cup sect \cup sr, {"1_1_1"}, mhz, opts)
Sfdp(model, id, size, mhz, opts) == Entry(model, id, size, {}, {}, mhz, opts)
MetaSfdp(model, id, size, mhz, opts) == Entry(model, id, size, {"META"}, {}, mhz, opts)

-----------------------------------------------------------------------------
(* Finding an entry *)

Masked(byte, mask) == IF mask = 0 THEN 0 ELSE byte     \* masks are 00h or FFh

\* spi_nor_id_match: the bytes of an entry against those of a chip.
IdMatches(entry, id) ==
    /\ entry.id # NoId /\ Len(entry.id) <= Len(id)
    /\ \A i \in DOMAIN entry.id :
         IF entry.mask = NoTable THEN entry.id[i] = id[i]
         ELSE Masked(entry.id[i], entry.mask[i]) = Masked(id[i], entry.mask[i])

First(S) == CHOOSE i \in S : \A j \in S : i <= j

\* spi_nor_find_part: the places of a table that match the id of a chip.
Matching(parts, id) == {i \in DOMAIN parts : IdMatches(parts[i], id)}

\* spi_nor_find_part_by_name
Named(parts, model) ==
    {i \in DOMAIN parts : model = parts[i].model \/ model \in parts[i].alias}

-----------------------------------------------------------------------------
(* What an entry leaves out *)

Or(table, default) == IF table = NoTable THEN default ELSE table
OrErase(sectors, default) == IF sectors = NoErase THEN default ELSE sectors

Sz16M == 16384
Large(p) == p.size > Sz16M

\* spi_nor_blank_part_fill_default_opcodes
FillDefaultOpcodes(p) ==
    LET four == Large(p) /\ "OPCODE" \in p.a4b_flags
    IN  [p EXCEPT !.erase_info_3b = OrErase(@, default_erase_opcodes_3b),
                  !.erase_info_4b = OrErase(@, default_erase_opcodes_4b),
                  !.read_opcodes_3b = Or(@, default_read_opcodes_3b),
                  !.pp_opcodes_3b = Or(@, default_pp_opcodes_3b),
                  !.read_opcodes_4b = IF four THEN Or(@, default_read_opcodes_4b) ELSE @,
                  !.pp_opcodes_4b = IF four THEN Or(@, default_pp_opcodes_4b) ELSE @]

\* spi_nor_gen_erase_info: the sectors that the flags of an entry allow; 64KB
\* stands for 256KB.
GenEraseInfo(p, sectors) ==
    LET Size(s) == IF s.size = 64 /\ "SECT_256K" \in p.flags THEN 256 ELSE s.size
        Allowed(s) ==
            \/ s.size = 4 /\ "SECT_4K" \in p.flags
            \/ s.size = 32 /\ "SECT_32K" \in p.flags
            \/ s.size = 64 /\ p.flags \cap {"SECT_64K", "SECT_256K"} # {}
    IN  {[s EXCEPT !.size = Size(s)] : s \in {t \in sectors : Allowed(t)}}
=============================================================================
