---------------------------- MODULE SpiNorFixups ----------------------------
(***************************************************************************)
(* How an entry is corrected for the chip it was found for: from what the  *)
(* chip says of itself (SFDP, sfdp.c), by the fixups of the entry, which   *)
(* may find that the chip is another model with the same id, and by those  *)
(* of the vendor (the vendor-*.c files).                                   *)
(***************************************************************************)
EXTENDS PartsAtmel, PartsEon, PartsGigaDevice, PartsIssi, PartsMacronix, PartsMicron, PartsWinbond

\* vendor.c: the tables in the order they are searched.
vendors == <<"atmel", "eon", "esmt", "gigadevice", "intel", "issi", "pmc", "macronix", "micron",
             "spansion", "sst", "winbond", "xmc", "xtx">>
parts_of ==
    [atmel |-> atmel_parts, eon |-> eon_parts, esmt |-> esmt_parts, gigadevice |-> gigadevice_parts,
     intel |-> intel_parts, issi |-> issi_parts, pmc |-> pmc_parts, macronix |-> macronix_parts,
     micron |-> micron_parts, spansion |-> spansion_parts, sst |-> sst_parts,
     winbond |-> winbond_parts, xmc |-> xmc_parts, xtx |-> xtx_parts]

\* struct spi_nor_vendor_part: an entry, its vendor, and the vendor whose fixups
\* and operations are used.
VendorPart(vendor, part) == [vendor |-> vendor, vendor_init |-> vendor, part |-> part]
NoVendorPart == [vendor |-> "none"]

\* spi_nor_find_vendor_part, spi_nor_find_vendor_part_by_name: the first of the places
\* that each vendor's table has.
NoPart == [model |-> "none"]
FirstPart(parts, places) == IF places = {} THEN NoPart ELSE parts[First(places)]
FirstVendor(part_of) ==
    LET having == {i \in DOMAIN vendors : part_of[vendors[i]] # NoPart}
        v == vendors[First(having)]
    IN  IF having = {} THEN NoVendorPart ELSE VendorPart(v, part_of[v])

Vendors == {vendors[i] : i \in DOMAIN vendors}
PartById(parts, id) == FirstPart(parts, Matching(parts, id))
PartByName(parts, model) == FirstPart(parts, Named(parts, model))
FindVendorPart(id) == FirstVendor([v \in Vendors |-> PartById(parts_of[v], id)])
FindVendorPartByName(model) == FirstVendor([v \in Vendors |-> PartByName(parts_of[v], model)])

-----------------------------------------------------------------------------
(* What a chip says of itself *)

RevA == 5   \* SFDP_REV_MINOR_A
RevB == 6   \* SFDP_REV_MINOR_B

\* A chip without SFDP.  minor is the revision of the header, rev that of the basic
\* table, which has 9 double words before revision A and 16 from then on; byte is
\* the byte that the vendor's fixups look at; bit is not SFDP: it is the bit of a
\* register, often written only once, that says where protection starts.
Bare ==
    [data |-> FALSE, minor |-> 0, bfpt |-> FALSE, rev |-> 0, read_io_caps |-> {}, page_size |-> 0,
     a4bit |-> FALSE, qe_type |-> "UNKNOWN", qpi |-> <<"NONE", "NONE">>, a4b_flags |-> {},
     byte |-> 0, bit |-> 0]

AtLeast(c, rev) == c.bfpt /\ c.rev >= rev
Exactly(c, rev) == c.bfpt /\ c.rev = rev
Supports(c, io) == c.bfpt /\ io \in c.read_io_caps

\* spi_nor_parse_sfdp_fill_time: an entry that does not want SFDP still has its
\* erase commands made here, from its flags.
ParseSfdpFillTime(p, c) ==
    IF AtLeast(c, RevA) /\ p.erase_info_3b = NoErase /\ p.erase_info_4b = NoErase
    THEN [p EXCEPT !.erase_info_3b = GenEraseInfo(p, default_erase_opcodes_3b),
                   !.erase_info_4b = IF Large(p) /\ "OPCODE" \in p.a4b_flags
                                     THEN GenEraseInfo(p, default_erase_opcodes_4b) ELSE @]
    ELSE p

\* The commands of a table for the widths that a chip supports.
For(caps, table) == [io \in caps \cap DOMAIN table |-> table[io]]

\* The sixteenth double word: how the chip gets to 4-byte addresses, and how its
\* status register is written.
FillAddressing(p, c) ==
    [p EXCEPT !.a4b_flags = IF Large(p) THEN c.a4b_flags ELSE @, !.flags = @ \cup NVV]

\* The erase types of the basic table: those of every chip here are the usual ones.
basic_erase_types == default_erase_opcodes_3b

\* spi_nor_parse_sfdp_fill
ParseSfdpFill(p, c) ==
    LET caps == {"1_1_1"} \cup c.read_io_caps
        New == c.rev >= RevA
        Four == c.a4bit /\ Large(p)
        q == IF New THEN FillAddressing(p, c) ELSE p
    IN  [q EXCEPT
           !.read_io_caps = caps, !.read_opcodes_3b = For(caps, default_read_opcodes_3b),
           !.pp_io_caps = {"1_1_1"}, !.pp_opcodes_3b = For({"1_1_1"}, default_pp_opcodes_3b),
           !.page_size = IF New THEN c.page_size ELSE @,
           !.qpi_en_type = IF New /\ c.qpi[1] # "NONE" THEN c.qpi[1] ELSE @,
           !.qpi_dis_type = IF New /\ c.qpi[2] # "NONE" THEN c.qpi[2] ELSE @,
           !.qe_type = IF New /\ c.qe_type # "UNKNOWN" THEN c.qe_type ELSE @,
           !.erase_info_3b = basic_erase_types,
           !.read_opcodes_4b = IF Four THEN For(caps, default_read_opcodes_4b) ELSE @,
           !.pp_opcodes_4b = IF Four THEN For({"1_1_1"}, default_pp_opcodes_4b) ELSE @,
           !.erase_info_4b = IF Four THEN default_erase_opcodes_4b ELSE @]

\* spi_nor_probe_sfdp
ProbeSfdp(p, c) ==
    IF ~c.bfpt THEN p
    ELSE IF "NO_SFDP" \in p.flags THEN ParseSfdpFillTime(p, c) ELSE ParseSfdpFill(p, c)

-----------------------------------------------------------------------------
(* Which model it is: what the fixups of an entry reprobe it as *)

Stay == ""      \* the entry itself

w25qxv_fixup_model(c, k, jv, qpi, other, bv) ==
    IF c.data /\ c.minor = 1 THEN k
    ELSE IF Exactly(c, RevA) THEN jv
    ELSE IF Supports(c, "4_4_4") THEN qpi
    ELSE IF c.bfpt THEN other ELSE bv

w25qxw_fixup_model(c, jw, fw, dw) ==
    IF Exactly(c, RevB) THEN jw ELSE IF Exactly(c, RevA) THEN fw ELSE dw

w25q256xv_fixup_model(c) ==
    IF ~c.bfpt THEN Stay
    ELSE IF c.rev = RevA THEN "W25Q256JV"
    ELSE IF Supports(c, "4_4_4") THEN "W25Q256FV" ELSE "W25Q256BV"

WinbondModel(fix, c) ==
    CASE fix = "w25q16xv" ->
           w25qxv_fixup_model(c, "S25FL016K", "W25Q16JV", "W25Q16BV", "W25Q16BV", "W25Q16BV")
      [] fix = "w25q32xv" ->
           w25qxv_fixup_model(c, "S25FL032K", "W25Q32JV", "W25Q32FV", "W25Q32BV", "W25Q32BV")
      [] fix = "w25q64xv" ->
           w25qxv_fixup_model(c, "S25FL064K", "W25Q64JV", "W25Q64FV", "W25Q64CV", "W25Q64BV")
      [] fix = "w25q128xv" ->
           w25qxv_fixup_model(c, "S25FL128K", "W25Q128JV", "W25Q128FV", "W25Q128BV", "W25Q128BV")
      [] fix = "w25q256xv" -> w25q256xv_fixup_model(c)
      [] fix = "w25q16xw" -> w25qxw_fixup_model(c, "W25Q16JW", "W25Q16FW", "W25Q16DW")
      [] fix = "w25q32xw" -> w25qxw_fixup_model(c, "W25Q32JW", "W25Q32FW", "W25Q32DW")
      [] fix = "w25q64xw" -> w25qxw_fixup_model(c, "W25Q64JW", "W25Q64FW", "W25Q64DW")
      [] fix = "w25q128xw" -> w25qxw_fixup_model(c, "W25Q128JW", "W25Q128FW", "W25Q128DW")
      [] OTHER -> Stay

BySfdp(c, without, with) == IF c.bfpt THEN with ELSE without

AtmelModel(fix, c) ==
    CASE fix = "at25sf041" -> BySfdp(c, "AT25SF041", "AT25SF041B")
      [] fix = "at25sf081" -> BySfdp(c, "AT25SF081", "AT25SF081B")
      [] fix = "at25sf161" -> BySfdp(c, "AT25SF161", "AT25SF161B")
      [] fix = "at25sf321" -> BySfdp(c, "AT25SF321", "AT25SF321B")
      [] OTHER -> Stay

\* The opcode for 1-1-4 that the chip gives is the usual one.
BySixB(c, with, other) ==
    IF ~c.bfpt THEN Stay ELSE IF Supports(c, "1_1_4") THEN with ELSE other

EonModel(fix, c) ==
    CASE fix = "en25f10" -> BySfdp(c, "EN25F10", "EN25F10A")
      [] fix = "en25s10" -> BySfdp(c, "EN25S10", "EN25S10A")
      [] fix = "en25f20" -> BySfdp(c, "EN25F20", "EN25F20A")
      [] fix = "en25s20" -> BySfdp(c, "EN25S20", "EN25S20A")
      [] fix = "en25f40" -> BySfdp(c, "EN25F40", "EN25F40A")
      [] fix = "en25s40" -> BySfdp(c, "EN25S40", "EN25S40A")
      [] fix = "en25q40" -> IF c.bfpt THEN BySixB(c, "EN25Q40B", "EN25Q40A") ELSE "EN25Q40"
      [] fix = "en25s32" -> BySfdp(c, "EN25S32", "EN25S32A")
      [] fix = "en25q32" -> BySfdp(c, "EN25Q32B", "EN25Q32C")
      [] fix = "en25s64" -> BySfdp(c, "EN25S64", "EN25S64A")
      [] OTHER -> Stay

EonQaQhModel(fix, c) ==
    CASE fix = "en25qa32" -> BySixB(c, "EN25QA32B", "EN25QA32A")
      [] fix = "en25qh16" -> BySixB(c, "EN25QH16B", "EN25QH16A")
      [] fix = "en25qh32" -> BySixB(c, "EN25QH32B", "EN25QH32A")
      [] fix = "en25qh64" -> BySixB(c, "EN25QH64A", "EN25QH64")
      [] fix = "en25qh128" -> BySixB(c, "EN25QH128A", "EN25QH128")
      [] fix = "en25qh256" ->
           IF ~c.bfpt THEN Stay ELSE IF c.rev = RevB THEN "EN25QH256A" ELSE "EN25QH256"
      [] OTHER -> Stay

GigaDeviceModel(fix, c) ==
    CASE fix = "gd25lx05" -> BySfdp(c, "GD25LD05C", "GD25LE05C")
      [] fix = "gd25lx10" -> BySfdp(c, "GD25LD10C", "GD25LE10C")
      [] OTHER -> Stay

ByRev(c, a, b) == IF Exactly(c, RevA) THEN a ELSE IF Exactly(c, RevB) THEN b ELSE Stay
Ek(c) == Exactly(c, RevB) /\ c.page_size = 512

IssiModel(fix, c) ==
    CASE fix = "is25lx025" -> ByRev(c, "IS25LQ025B", "IS25LP025E")
      [] fix = "is25lx512" -> ByRev(c, "IS25LQ512B", "IS25LP512E")
      [] fix = "is25lx010" -> ByRev(c, "IS25LQ010B", "IS25LP010E")
      [] fix = "is25lx020" -> ByRev(c, "IS25LQ020B", "IS25LP020E")
      [] fix = "is25wp080x" -> ByRev(c, "IS25WP080", "IS25WP080D")
      [] fix = "is25cd512" -> BySfdp(c, Stay, "PM25LQ512B")
      [] fix = "is25cd010" -> BySfdp(c, Stay, "PM25LQ010B")
      [] fix = "is25lx040" -> BySfdp(c, Stay, "PM25LQ040B")
      [] OTHER -> Stay

IssiEkModel(fix, c) ==
    CASE fix = "is25lp128x" -> IF Ek(c) THEN "IS25LE128EK" ELSE Stay
      [] fix = "is25wp128x" -> IF Ek(c) THEN "IS25WE128EK" ELSE Stay
      [] OTHER -> Stay

MacronixModel(fix, c) ==
    LET Old == Exactly(c, 0)
    IN  CASE fix = "mx25x512" -> BySfdp(c, Stay, "MX25L512E")
          [] fix = "mx25l10xx" -> BySfdp(c, Stay, "MX25L1006E")
          [] fix = "mx25u32xx" -> IF Old /\ c.byte = \h36 THEN "MX25L3239E" ELSE Stay
          [] fix = "mx25u64xx" -> IF Old /\ c.byte = \h36 THEN "MX25L6439E" ELSE Stay
          [] fix = "mx66l512xxx" -> IF Old THEN "MX66L51235F" ELSE Stay
          [] OTHER -> Stay

\* These read the header of the basic table without asking whether there is one.
MicronModel(fix, c) ==
    CASE ~AtLeast(c, RevB) -> Stay
      [] OTHER ->
           CASE fix = "n25q128ax3" -> "MT25QL128ABA" [] fix = "n25q128ax1" -> "MT25QU128ABA"
             [] fix = "n25q256ax3" -> "MT25QL256ABA" [] fix = "n25q256ax1" -> "MT25QU256ABA"
             [] fix = "n25q512ax3" -> "MT25QL512ABB" [] fix = "n25q512ax1" -> "MT25QU512ABB"
             [] fix = "n25q00aax3" -> "MT25QL01GBBB" [] fix = "n25q00aax1" -> "MT25QU01GBBB"
             [] OTHER -> Stay

SpansionModel(fix, c) ==
    CASE fix = "s25flx16k" -> IF c.data THEN "S25FL116K" ELSE "S25FL216K"
      [] fix = "s25flxs_model" -> IF c.data THEN "S25FL127S" ELSE "S25FL128Sxxxxxx0"
      [] fix = "s25flxs_256k_model" -> IF c.data THEN "S25FL127S" ELSE "S25FL128Sxxxxxx1"
      [] OTHER -> Stay

\* The last three test a byte of the SFDP header (always 46h) where they mean the
\* vendor's table, and never find the second model.
XmcModel(fix, c) ==
    LET New(new, old) == IF ~c.bfpt THEN Stay ELSE IF c.rev = RevB THEN new ELSE old
        Cu(model) == IF c.bfpt /\ c.byte = \h19 THEN model ELSE Stay
    IN  CASE fix = "xm25qh16" -> New("XM25QH16C", "XM25QH16B")
          [] fix = "xm25qu16" -> New("XM25QU16C", "XM25QU16B")
          [] fix = "xm25qx32" ->
               New("XM25QH32C", CASE c.byte = \h27 -> "XM25QH32B" [] c.byte = \h23 -> "XM25QE32C"
                                  [] OTHER -> Stay)
          [] fix = "xm25xu32c" -> Cu("XM25QU32C")
          [] fix = "xm25xu64c" -> Cu("XM25QU64C")
          [] fix = "xm25xu128c" -> Cu("XM25QU128C")
          [] OTHER -> Stay

\* Chips that XMC makes to another vendor's design.
XmcBorrowedModel(fix) ==
    CASE fix = "xm25qh64a" -> "EN25QH64A" [] fix = "xm25qh128a" -> "EN25QH128A"
      [] fix = "xm25qh256b" -> "IS25LP256D" [] fix = "xm25qu256b" -> "IS25WP256D"
      [] OTHER -> Stay

XtxModel(fix, c) ==
    LET New(new, old) == IF ~c.bfpt THEN Stay ELSE IF c.rev = RevB THEN new ELSE old
    IN  CASE fix = "xf25f04x" -> BySfdp(c, "XT25F04B", "XT25F04D")
          [] fix = "xf25f32x" -> New("XT25F32F", "XT25F32B")
          [] fix = "xf25f64x" -> New("XT25F64F", "XT25F64B")
          [] fix = "xf25f128x" -> New("XT25F128F", "XT25F128B")
          [] OTHER -> Stay

ModelOf(fix, c) ==
    LET told == {WinbondModel(fix, c), AtmelModel(fix, c), EonModel(fix, c), EonQaQhModel(fix, c),
                 GigaDeviceModel(fix, c), IssiModel(fix, c), IssiEkModel(fix, c),
                 MacronixModel(fix, c), MicronModel(fix, c), SpansionModel(fix, c),
                 XmcModel(fix, c), XmcBorrowedModel(fix), XtxModel(fix, c)} \ {Stay}
    IN  IF told = {} THEN Stay ELSE CHOOSE model \in told : TRUE

-----------------------------------------------------------------------------
(* What else the fixups of an entry change *)

\* The protection tables that a bit of the chip chooses between.
ByBit(c, set, clear) == IF c.bit = 1 THEN set ELSE clear

EonWp(fix, c) ==
    CASE fix = "en25qa32b_wpr_4bp_tbl" -> ByBit(c, "en25qa32b_wpr_4bp_tbl1", "en25qa32b_wpr_4bp_tbl0")
      [] fix = "en25qa64a_wpr_4bp_tbl" -> ByBit(c, "en25qa64a_wpr_4bp_tbl1", "en25qa64a_wpr_4bp_tbl0")
      [] fix = "en25qa128a_wpr_4bp_tbl" -> ByBit(c, "wpr_3bp_tb_cmp_only_ratio", "wpr_3bp_tb_ratio")
      [] fix = "en25qh16b_wpr_4bp_cmp" -> ByBit(c, "wpr_3bp_tb_sec_cmp_only", "wpr_3bp_tb_sec")
      [] OTHER -> Stay

Ek256Wp(c) == ByBit(c, "is25xp256ek_wpr_4bp_tbs1", "is25xp256ek_wpr_4bp_tbs0")

\* Entries that stand for their EK versions too.
EkFixups == {"is25lx256", "is25wx256", "is25lx512m", "is25wx512m", "is25lx01g", "is25wx01g",
             "is25lx02gg", "is25wx02gg"}

IssiWp(fix, c) ==
    CASE fix = "is25xpxab_wpr_4bp_tbs" -> ByBit(c, "wpr_4bp_lo", "wpr_4bp_up")
      [] fix = "is25xp064db_wpr_4bp_tbs" ->
           ByBit(c, "is25xp064db_wpr_4bp_tbs1", "is25xp064db_wpr_4bp_tbs0")
      [] fix = "is25xp128d_wpr_4bp_tbs" ->
           ByBit(c, "is25xp128d_wpr_4bp_tbs1", "is25xp128d_wpr_4bp_tbs0")
      [] fix = "is25xp256ej_wpr_4bp_tbs" ->
           ByBit(c, "is25xp256ej_wpr_4bp_tbs1", "is25xp256ej_wpr_4bp_tbs0")
      [] fix = "is25xp512mj_wpr_4bp_tbs" ->
           ByBit(c, "is25xp512mj_wpr_4bp_tbs1", "is25xp512mj_wpr_4bp_tbs0")
      [] fix = "is25xp01gj_wpr_4bp_tbs" ->
           ByBit(c, "is25xp01gj_wpr_4bp_tbs1", "is25xp01gj_wpr_4bp_tbs0")
      [] fix = "is25xp02ggj_wpr_4bp_tbs" ->
           ByBit(c, "is25xp02ggj_wpr_4bp_tbs1", "is25xp02ggj_wpr_4bp_tbs0")
      [] fix = "is25xp256ek_wpr_4bp_tbs" -> Ek256Wp(c)
      [] fix \in EkFixups /\ Ek(c) -> Ek256Wp(c)
      [] OTHER -> Stay

MacronixWp(fix, c) ==
    IF fix = "mx25x_wpr_type2_4bp_tb"
    THEN ByBit(c, "mx25x_wpr_type2_4bp_tb1", "mx25x_wpr_type2_4bp_tb0") ELSE Stay

SpansionWp(fix, c) ==
    IF fix \in {"s25flxp", "s25flxs", "s25fl127s", "s25fl512s", "s25fsxs"}
    THEN ByBit(c, "wpr_3bp_lo_ratio", "wpr_3bp_up_ratio") ELSE Stay

WpOf(fix, c, p) ==
    LET told == {EonWp(fix, c), IssiWp(fix, c), MacronixWp(fix, c), SpansionWp(fix, c)} \ {Stay}
    IN  IF told = {} THEN p.wp_ranges ELSE CHOOSE wp \in told : TRUE

\* An opcode put into a table, if there is one.
Put(table, io, opcode) == IF table = NoTable THEN table ELSE (io :> Cmd(opcode, 0)) @@ table

pm25lq512b_erase_op_fixup(p) ==
    LET Chip(s) == IF s.size = 64 THEN Sector(64, \hc7) ELSE s
    IN  IF p.erase_info_3b = NoErase THEN p
        ELSE [p EXCEPT !.erase_info_3b = {Chip(s) : s \in @}]

at25eu_fixup_model(p) == [p EXCEPT !.read_io_caps = @ \ X4]

is25x256_fixup_model(fix, p, c) ==
    IF ~Ek(c) THEN p
    ELSE [p EXCEPT !.spi_mhz = 166, !.quad_mhz = 151,
                   !.dc_acc = IF fix = "is25lx256" THEN "issi_rr_dc6_3" ELSE @]

s25fl512s_fixup(p) ==
    [p EXCEPT !.pp_io_caps = @ \cup {"1_1_4"}, !.pp_opcodes_3b = Put(@, "1_1_4", \h32),
              !.pp_opcodes_4b = Put(@, "1_1_4", \h34)]

\* The fixups of an entry that is not another model.  Spansion's fill in the default
\* opcodes themselves; s25fl1xk's keep the vendor's from being called.
PartFixup(f, c) ==
    LET fix == f.part.fixups
        p == [f.part EXCEPT !.wp_ranges = WpOf(fix, c, f.part)]
        q == FillDefaultOpcodes(p)
        Of(part) == [f EXCEPT !.part = part]
    IN  CASE fix = "pm25lq512b" -> Of(pm25lq512b_erase_op_fixup(p))
          [] fix = "at25eu" -> Of(at25eu_fixup_model(p))
          [] fix \in {"is25lx256", "is25wx256"} -> Of(is25x256_fixup_model(fix, p, c))
          [] fix \in {"s25flxp", "s25flxs", "s25fl127s"} -> Of(q)
          [] fix = "s25fl512s" -> Of(s25fl512s_fixup(q))
          [] fix = "s25fsxs" -> Of([q EXCEPT !.page_size = 256])
          [] fix = "s25fl1xk" -> [f EXCEPT !.vendor_init = "none", !.part = q]
          [] OTHER -> Of(p)

\* spi_nor_reprobe_part: the chip is another model, its bytes stay what they are.
\* XMC keeps its name, and the fixups of the vendor whose design it is are used.
\* Set-up ends here if no table has the model.
ReprobedAs(f, g, c) ==
    LET h == [g EXCEPT !.part = ProbeSfdp([g.part EXCEPT !.id = f.part.id], c)]
        i == PartFixup(h, c)
    IN  IF g = NoVendorPart THEN g
        ELSE IF XmcBorrowedModel(f.part.fixups) # Stay THEN [i EXCEPT !.vendor = "xmc"] ELSE i
ReprobePart(f, model, c) == ReprobedAs(f, FindVendorPartByName(model), c)

-----------------------------------------------------------------------------
(* The fixups of a vendor, for every entry it has *)

Sz32M == 32768

\* Quad page program for the chips whose SFDP says that they are new enough.
QuadPp(p, four) ==
    LET qpi == "4_4_4" \in p.read_io_caps
        q == [p EXCEPT !.pp_io_caps = @ \cup {"1_1_4"}, !.pp_opcodes_3b = Put(@, "1_1_4", \h32),
                       !.pp_opcodes_4b = IF four THEN Put(@, "1_1_4", \h34) ELSE @]
    IN  IF qpi THEN [q EXCEPT !.pp_io_caps = @ \cup {"4_4_4"}, !.pp_opcodes_3b = Put(@, "4_4_4", \h02)]
        ELSE q

FourOpcodes(p) == Large(p) /\ "OPCODE" \in p.a4b_flags

\* Opcodes with 4-byte addresses do not work in QPI mode: they are not used if the
\* controller could send one of them in it.
NoQpiFourOpcodes(p, ios) ==
    IF FourOpcodes(p) /\ "4_4_4" \in ios
         /\ "4_4_4" \in DOMAIN p.read_opcodes_4b \cup DOMAIN p.pp_opcodes_4b
    THEN [p EXCEPT !.a4b_flags = @ \ {"OPCODE"}] ELSE p

winbond_part_fixup(p, c, ios) ==
    LET q == IF AtLeast(c, RevA) THEN QuadPp(p, FourOpcodes(p)) ELSE p
        r == NoQpiFourOpcodes(q, ios)
    IN  IF r.size > Sz32M /\ r.wp_ranges = "none" THEN [r EXCEPT !.wp_ranges = "wpr_4bp_tb_cmp"]
        ELSE r

gd_pre_param_setup(p, c, ios) ==
    LET q == IF Large(p) /\ p.qe_type = "UNKNOWN" THEN [p EXCEPT !.qe_type = "DONT_CARE"] ELSE p
        r == IF AtLeast(c, RevB) THEN QuadPp(q, FALSE) ELSE q
        s == IF "QPI_4B_OPCODE" \notin r.vendor_flags /\ "4_4_4" \in r.read_io_caps \cup r.pp_io_caps
             THEN NoQpiFourOpcodes(r, ios) ELSE r
        quad == \/ s.qe_type \in {"SR2_BIT1_WR_SR1", "SR2_BIT1"}
                \/ s.qe_type = "DONT_CARE" /\ s.read_io_caps \cap X4 # {}
    IN  IF quad /\ V50 \subseteq s.flags THEN [s EXCEPT !.flags = (@ \ V50) \cup NVV] ELSE s

eon_part_fixup(p, c) == IF AtLeast(c, RevA) THEN QuadPp(p, FourOpcodes(p)) ELSE p

issi_part_fixup(p, c) ==
    LET q == IF AtLeast(c, RevB) THEN QuadPp(p, FourOpcodes(p)) ELSE p
    IN  [q EXCEPT !.flags = (@ \ V50) \cup NVV]

macronix_part_fixup(p, c) ==
    LET big == p.size >= Sz32M
        q == IF "PP_1_4_4" \in p.vendor_flags THEN [p EXCEPT !.pp_io_caps = @ \cup {"1_4_4"}] ELSE p
        r == IF "1_4_4" \in q.pp_io_caps
             THEN [q EXCEPT !.pp_opcodes_3b = Put(@, "1_4_4", \h38),
                            !.pp_opcodes_4b = IF big THEN Put(@, "1_4_4", \h3e) ELSE @]
             ELSE q
        s == IF AtLeast(c, RevA) /\ "4_4_4" \in r.read_io_caps
             THEN [r EXCEPT !.pp_io_caps = @ \cup {"4_4_4"}, !.pp_opcodes_3b = Put(@, "4_4_4", \h02),
                            !.pp_opcodes_4b = IF big THEN Put(@, "4_4_4", \h12) ELSE @]
             ELSE r
        t == IF big /\ ~(c.a4bit /\ c.bfpt)
             THEN [s EXCEPT !.erase_info_4b = @ \cup {Sector(32, \h5c)}] ELSE s
    IN  IF "WPR_4BP_TB_OTP" \in t.vendor_flags
        THEN [t EXCEPT !.wp_ranges = ByBit(c, "wpr_4bp_lo", "wpr_4bp_up")] ELSE t

micron_part_fixup(p, c) ==
    LET big == p.size >= Sz32M
        new == IF ~AtLeast(c, RevA) THEN {}
               ELSE DPI \cup {"1_1_4", "4_4_4"} \cup (IF c.rev >= RevB THEN {"1_4_4"} ELSE {})
        caps == p.pp_io_caps \cup new
        three == ("1_1_2" :> Cmd(\ha2, 0)) @@ ("1_2_2" :> Cmd(\hd2, 0)) @@ ("2_2_2" :> Cmd(\h02, 0))
                   @@ ("1_4_4" :> Cmd(\h38, 0)) @@ ("4_4_4" :> Cmd(\h02, 0))
        four == ("1_1_4" :> Cmd(\h34, 0)) @@ ("4_4_4" :> Cmd(\h12, 0))
        Four(table) ==
            LET t == IF new # {} THEN four @@ table ELSE table
            IN  For(DOMAIN t \ {"1_1_2", "1_2_2", "2_2_2", "1_4_4"}, t)
    IN  [p EXCEPT !.pp_io_caps = caps,
                  !.pp_opcodes_3b = For(caps, three) @@
                                    (IF new # {} THEN Put(@, "1_1_4", \h32) ELSE @),
                  !.pp_opcodes_4b = IF big /\ @ # NoTable THEN Four(@) ELSE @]

spansion_part_fixup(p, c) ==
    IF ~AtLeast(c, RevB) THEN p
    ELSE LET qpi == "4_4_4" \in p.read_io_caps
             caps == (IF p.fixups = "s25fsxs" THEN {} ELSE {"1_1_4"})
                       \cup (IF qpi THEN {"4_4_4"} ELSE {})
             three == ("1_1_4" :> Cmd(\h32, 0)) @@ ("4_4_4" :> Cmd(\h02, 0))
             four == ("1_1_4" :> Cmd(\h34, 0)) @@ ("4_4_4" :> Cmd(\h12, 0))
         IN  [p EXCEPT !.pp_io_caps = @ \cup caps, !.pp_opcodes_3b = For(caps, three) @@ @,
                       !.pp_opcodes_4b = IF FourOpcodes(p) /\ @ # NoTable
                                         THEN For(caps \cup {"1_1_4"}, four) @@ @ ELSE @]

atmel_part_fixup(p, c) ==
    IF ~AtLeast(c, RevA) THEN p
    ELSE [p EXCEPT !.pp_io_caps = @ \cup {"1_1_4"}, !.pp_opcodes_3b = Put(@, "1_1_4", \h32),
                   !.pp_opcodes_4b = IF FourOpcodes(p) THEN Put(@, "1_1_4", \h34) ELSE @]

esmt_part_fixup(p) ==
    [p EXCEPT !.pp_opcodes_3b = IF "1_4_4" \in p.pp_io_caps THEN Put(@, "1_4_4", \h38) ELSE @,
              !.read_opcodes_3b = IF "4_4_4" \in p.read_io_caps
                                  THEN [@ EXCEPT !["4_4_4"].ndummy = 6] ELSE @]

sst_part_fixup(p, c) == IF AtLeast(c, RevA) THEN QuadPp(p, FALSE) ELSE p

\* 32h with a 4-byte address is what the code sends for 1-1-4, for 34h.
xtx_part_fixup(p, c) ==
    LET big == p.size >= Sz32M
        q == IF ~AtLeast(c, RevA) THEN p
             ELSE LET r == QuadPp(p, FALSE)
                      s == [r EXCEPT !.pp_opcodes_4b = IF big THEN Put(@, "1_1_4", \h32) ELSE @]
                  IN  [s EXCEPT !.pp_opcodes_4b = IF big /\ "4_4_4" \in s.read_io_caps
                                                  THEN Put(@, "4_4_4", \h12) ELSE @]
    IN  IF "1_4_4" \in q.pp_io_caps
        THEN [q EXCEPT !.pp_opcodes_3b = Put(@, "1_4_4", \h38),
                       !.pp_opcodes_4b = IF big THEN Put(@, "1_4_4", \h3e) ELSE @]
        ELSE q

\* All but XMC's and Intel's, which have none, fill in the default opcodes.
VendorFixup(vendor, part, c, ios) ==
    LET p == FillDefaultOpcodes(part)
    IN  CASE vendor = "winbond" -> winbond_part_fixup(p, c, ios)
          [] vendor = "gigadevice" -> gd_pre_param_setup(p, c, ios)
          [] vendor = "eon" -> eon_part_fixup(p, c)
          [] vendor \in {"issi", "pmc"} -> issi_part_fixup(p, c)
          [] vendor = "macronix" -> macronix_part_fixup(p, c)
          [] vendor = "micron" -> micron_part_fixup(p, c)
          [] vendor = "spansion" -> spansion_part_fixup(p, c)
          [] vendor = "atmel" -> atmel_part_fixup(p, c)
          [] vendor = "esmt" -> esmt_part_fixup(p)
          [] vendor = "sst" -> sst_part_fixup(p, c)
          [] vendor = "xtx" -> xtx_part_fixup(p, c)
          [] OTHER -> part

\* The pre_param_setup of the entry, then the vendor's, as spi_nor_init calls them.
PartPreParamSetup(f, model, c) ==
    IF model = Stay THEN PartFixup(f, c) ELSE ReprobePart(f, model, c)
VendorPreParamSetup(g, c, ios) ==
    IF g = NoVendorPart \/ "BYPASS_VENDOR_FIXUPS" \in g.part.flags THEN g
    ELSE [g EXCEPT !.part = VendorFixup(g.vendor_init, g.part, c, ios)]
PreParamSetup(f, c, ios) ==
    LET model == IF f.part.fixups = "none" THEN Stay ELSE ModelOf(f.part.fixups, c)
    IN  VendorPreParamSetup(PartPreParamSetup(f, model, c), c, ios)
=============================================================================
