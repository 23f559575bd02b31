----------------------------- MODULE SpiNorPlan -----------------------------
(***************************************************************************)
(* What a process makes of a SPI-NOR chip before it commands it: the entry *)
(* found by its id, corrected by SFDP and the fixups (spi_nor_init), and   *)
(* the commands, address bytes, wait clocks and operations chosen for a    *)
(* controller (spi_nor_setup_param_final).                                 *)
(*                                                                         *)
(* A sample is <<vendor, entry, shape>>: an entry of the tables and what a *)
(* chip that has it says of itself.  It stands by what the driver's own    *)
(* path says of it without a controller (Hardware); what a process does    *)
(* with it follows from the controller (Plan).  Samples that do not differ *)
(* in these are one chip.                                                  *)
(***************************************************************************)
EXTENDS SpiNorSetup

\* The entry that stands for each id of the tables.
IdsOf(parts) == {parts[i].id : i \in DOMAIN parts} \ {NoId}
ids == UNION {IdsOf(parts_of[v]) : v \in Vendors}
found == [id \in ids |-> FindVendorPart(id)]

\* The entry e that was found, as the chip c and the transfers of a controller change it.
Driven(e, c, ios) == PreParamSetup([e EXCEPT !.part = ProbeSfdp(@, c)], c, ios)

\* The operations that a vendor has for all of its entries, and FS-S's own.
DefaultQpiDis(vendor) ==
    CASE vendor \in {"winbond", "sst", "xmc", "xtx"} -> "FFH"
      [] vendor \in {"issi", "pmc", "macronix", "spansion"} -> "F5H"
      [] vendor = "micron" -> "EVCR"
      [] OTHER -> "NONE"
DefaultDpiDis(vendor) == IF vendor = "micron" THEN "EVCR" ELSE "NONE"
PartQpiDis(part) == IF part.ops = "s25fsxs" THEN "800003H" ELSE "NONE"

Ndies(p) == IF p.ndies = 0 THEN 1 ELSE p.ndies

\* Winbond's chips, and most of GigaDevice's, do not take the opcodes for 4-byte
\* addresses four bits wide.
NoFourInQpi(f) ==
    \/ f.vendor_init = "winbond"
    \/ f.vendor_init = "gigadevice" /\ "QPI_4B_OPCODE" \notin f.part.vendor_flags

\* What an entry and the chip must tell for the chip to be driven at all: the fixups
\* find its model in the tables, it has SFDP if its entry counts on that, and someone
\* says how it takes 4-byte addresses.  Entries of 256KB sectors are left out: with
\* SFDP their erase command is generated twice, and the second time dropped.
Told(p, c) ==
    /\ p.flags \cap {"NO_OP", "SECT_256K"} = {}
    /\ c.bfpt \/ "NO_SFDP" \in p.flags
    /\ ~Large(p) \/ p.a4b_flags # {}

\* An id that chips of several sizes have does not tell the size.
Size(e) == <<e.id, e.size, Ndies(e)>>
Alone(e, sizes) == \A z \in sizes : z[1] = e.id => z = Size(e)

Hardware(s, f, sizes) ==
    LET p == f.part
    IN  IF f = NoVendorPart
        THEN [known |-> FALSE, size |-> s[2].size, dies |-> 1, data |-> s[3].data, told |-> FALSE]
        ELSE [known |-> TRUE, told |-> Told(p, s[3]), alone |-> Alone(s[2], sizes),
              size |-> s[2].size, dies |-> Ndies(s[2]),
              qe |-> p.qe_type, qpi |-> <<QpiEn(f), QpiDis(f)>>, four |-> p.a4b_flags,
              no_four_in_qpi |-> NoFourInQpi(f), xtx |-> f.vendor_init = "xtx",
              data |-> s[3].data, dc |-> DcTable(p),
              kept |-> p.dc_acc # "none" /\ dc_accs[p.dc_acc].nonvolatile]

\* How the wait clocks are set: in a register, with C0h by Winbond's operation, or
\* with C0h whenever QPI mode is entered.
DcMethod(f, read) ==
    IF read.mhz = 0 THEN "none"
    ELSE IF f.part.dc_qpi_srp /\ CmdBw(read.io) = 4 THEN "srp"
    ELSE IF f.part.dc_acc # "none" THEN "acc"
    ELSE IF f.vendor_init = "winbond" /\ AddrBw(read.io) = 4 THEN "c0h" ELSE "none"

\* What the fixups send to leave 4-byte addresses before anything else is set up.
Leaving4b(f, c) ==
    LET p == f.part
        Vendor == "BYPASS_VENDOR_FIXUPS" \notin p.flags
    IN  IF p.fixups = "s25fsxs" THEN "CR2V"
        ELSE IF p.fixups \in {"s25flxs", "s25fl127s"} THEN "BANK"
        ELSE IF Vendor /\ f.vendor_init \in {"winbond", "gigadevice", "eon"} /\ Large(p) THEN "E9H"
        ELSE IF Vendor /\ f.vendor_init = "spansion" /\ AtLeast(c, RevB) THEN "E9H" ELSE "none"

Plan(s, e, f, r) ==
    LET search == [by_part |-> PartQpiDis(e.part), by_type |-> e.part.qpi_dis_type,
                   by_vendor |-> DefaultQpiDis(e.vendor), dpi |-> DefaultDpiDis(e.vendor)]
    IN  IF ~r.ok THEN [ok |-> FALSE, search |-> search, leaving_4b |-> "none"]
        ELSE [ok |-> TRUE, search |-> search, leaving_4b |-> Leaving4b(f, s[3]),
              size |-> f.part.size, dies |-> Ndies(f.part), naddr |-> r.naddr, a4b |-> r.a4b,
              read |-> r.read, pp_io |-> r.pp.io,
              opcodes |-> {r.read_opcode, r.pp_opcode} \cup {e3.opcode : e3 \in r.erase},
              read_opcode |-> r.read_opcode,
              qe |-> f.part.qe_type, qpi |-> <<QpiEn(f), QpiDis(f)>>, dc |-> DcMethod(f, r.read),
              restores_3b |-> f.vendor_init = "micron",
              wp |-> f.part.wp_ranges, wp_regacc |-> f.part.wp_regacc]

\* The chips: every sample as the hardware it is and what each controller does with
\* it, from the entry that entries, which is found, has for its id.
ChipsOf(samples, entries, controllers) ==
    LET sizes == {Size(s[2]) : s \in samples}
        PlanFor(s, e, f, ctl) == Plan(s, e, f, SetupParam(ctl, f))
        Chip(s, e) == [hw |-> Hardware(s, Driven(e, s[3], {}), sizes),
                       plan |-> [c \in DOMAIN controllers |->
                                   PlanFor(s, e, Driven(e, s[3], controllers[c].ios), controllers[c])]]
    IN  {Chip(s, entries[s[2].id]) : s \in samples}
=============================================================================
