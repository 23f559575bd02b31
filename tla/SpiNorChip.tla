----------------------------- MODULE SpiNorChip -----------------------------
(***************************************************************************)
(* A SPI-NOR chip being found, set up and read by one process of the tool  *)
(* after another (ufprog_spi_nor_probe_init and ufprog_spi_nor_read,       *)
(* spi-nor.c).  A process may end anywhere, and the next one, maybe with   *)
(* another controller, finds the chip as it was left: taking commands four *)
(* or two bits wide, with 4-byte addresses, with other wait clocks.        *)
(*                                                                         *)
(* A chip is the hardware it is and what each controller makes of it, as   *)
(* SpiNorPlan tells for every entry of the tables.                         *)
(*                                                                         *)
(* External to the code: a chip only takes a command of the width it is    *)
(* set to, opcodes of their own for 4-byte addresses always take 4 bytes,  *)
(* SFDP is read at any width, and the Quad-Enable bit does not survive a   *)
(* reset, the worse of the two cases.                                      *)
(***************************************************************************)
EXTENDS SpiNorPart, SpiNorProtect

CONSTANTS
    Controllers,    \* name -> [ios, mhz]: the transfers a controller can do, its speed
    Chips           \* [hw, plan]: the chips and what becomes of them

ASSUME ControllersAssumption ==
    \A c \in DOMAIN Controllers :
        /\ Controllers[c].mhz \in Nat \ {0}
        /\ "1_1_1" \in Controllers[c].ios /\ Controllers[c].ios \subseteq Ios

-----------------------------------------------------------------------------
(* Chips and what is made of them *)

Factory == -1       \* the wait clocks of a chip that was never told
QeTypes == {"SR1_BIT6", "SR2_BIT1", "SR2_BIT1_WR_SR1", "SR2_BIT7", "NVCR_BIT4"}
OpcodesOf4b ==
    {\h0c, \h3c, \hbc, \h6c, \hec, \h12, \h34, \h3e, \h21, \h5c, \hdc, \h13}

\* Four data lines are needed for one of the two transfers of data.
UsesQuad(p) == DataBw(p.read.io) = 4 \/ DataBw(p.pp_io) = 4

\* The operation that leaves a mode of width w when the chip was found in it, and the
\* one when it was found in it again, where the entry's type counts too.
LeftFirst(s, w) == IF w = 2 THEN s.dpi ELSE IF s.by_part # "NONE" THEN s.by_part ELSE s.by_vendor
LeftAgain(s, w) ==
    IF w = 2 \/ s.by_part # "NONE" \/ s.by_type = "NONE" THEN LeftFirst(s, w) ELSE s.by_type

\* What the wait clocks of transfer io are when idx was chosen.
WaitClocks(h, io, idx) ==
    {h.dc[io][n][2] : n \in {r \in DOMAIN h.dc[io] : h.dc[io][r][1] = idx}}

\* The state a chip c may be left in, by a process with one or another controller: a
\* width, 4-byte addresses, wait clocks.
Plans(c) == {c.plan[n] : n \in {m \in DOMAIN Controllers : c.plan[m].ok}}
Enters(c, w) == \E p \in Plans(c) : CmdBw(p.read.io) = w
Enters4b(c) == \E p \in Plans(c) : p.a4b # "none"
ClocksSet(c) == {p.read.idx : p \in {q \in Plans(c) : q.dc # "none"}}

IsChip(c) ==
    /\ c.hw.dies \in Nat \ {0}
    /\ DOMAIN c.plan = DOMAIN Controllers
    /\ \A p \in Plans(c) : c.hw.known /\ p.dies \in 1..c.hw.dies /\ p.read.io \in Ios

\* A plan knows how to leave the mode that another one has entered.
ModesFit(c, p) ==
    LET h == c.hw
        LeavesBy(w, method) == /\ method = h.qpi[2]
                               /\ h.data \/ method \in {LeftFirst(p.search, w), LeftAgain(p.search, w)}
    IN  /\ CmdBw(p.read.io) = 4 => p.qpi[1] = h.qpi[1]
        /\ Enters(c, 4) => /\ h.dies = 1 /\ LeavesBy(4, p.qpi[2])
                           /\ h.qpi[2] \notin {"NONE", "66H_99H"}
        /\ Enters(c, 2) => h.dies = 1 /\ LeavesBy(2, "EVCR")
        /\ UsesQuad(p) /\ h.qe \in QeTypes => p.qe \in QeTypes

\* The opcodes of a plan have the addresses that the chip takes in the mode that the
\* plan chooses, and a plan without a mode leaves the one of another plan.
AddressesFit(c, p) ==
    LET h == c.hw
        always == "ALWAYS" \in h.four
        sent == p.opcodes \ (IF h.xtx THEN {\h32} ELSE {})
        Leaves(method, mode) == p.leaving_4b = method /\ mode \in h.four
    IN  /\ p.naddr = 3 => ~always /\ ~Enters4b(c) /\ sent \cap OpcodesOf4b = {}
        /\ p.naddr # 3 => p.naddr = 4 /\ (p.a4b # "none" \/ always \/ sent \subseteq OpcodesOf4b)
        /\ p.a4b = "none" /\ Enters4b(c) /\ h.dies = 1 =>
               \/ p.restores_3b /\ "B7H_E9H" \in h.four
               \/ p.leaving_4b = "CR2V" \/ Leaves("E9H", "B7H_E9H") \/ Leaves("BANK", "BANK")
        /\ CmdBw(p.read.io) = 4 /\ h.no_four_in_qpi => p.read_opcode \notin OpcodesOf4b

\* The wait clocks that a plan counts are those that it sets, or those of any other.
ClocksFit(c, p) ==
    LET h == c.hw
    IN  /\ p.read.idx \in Nat
        /\ p.dc \in {"none", "acc", "c0h", "srp"}
        /\ p.dc = "srp" => CmdBw(p.read.io) = 4
        /\ p.read.io \in DOMAIN h.dc =>
               /\ p.dc = "none" => p.read.mhz = 0
               /\ \A idx \in IF p.dc = "none" THEN ClocksSet(c) ELSE {p.read.idx} :
                      WaitClocks(h, p.read.io, idx) = {p.read.clocks}

\* A plan for fewer dies than there are needs nothing of the others.
DiesFit(c, p) == p.dies = c.hw.dies \/ (c.hw.qe \notin QeTypes /\ p.a4b = "none")

\* What the proofs need of the tables: it is decided by going through them.
ChipsFit ==
    \A c \in Chips :
        /\ IsChip(c)
        /\ \A p \in Plans(c) : DiesFit(c, p) /\ ModesFit(c, p) /\ AddressesFit(c, p) /\ ClocksFit(c, p)

ASSUME ChipsAssumption == ChipsFit

-----------------------------------------------------------------------------

VARIABLES
    chip,       \* which of the chips is connected
    reset,      \* what 66h 99h resets: nothing, the die that hears it, or all dies
    dies,       \* per die its width w, whether addresses have 4 bytes (a4), whether
                \* four data lines are enabled (qe), and the wait clocks chosen (dc)
    sel,        \* the die that takes commands
    spi,        \* the controller of the running process
    phase,      \* where the process is
    again,      \* the chip was found in another width and told to leave it
    left,       \* dies still to be set up
    width,      \* state.cmd_buswidth_curr
    a4b_mode    \* state.a4b_mode

vars == <<chip, reset, dies, sel, spi, phase, again, left, width, a4b_mode>>

-----------------------------------------------------------------------------

H == chip.hw
P == chip.plan[spi]
Can(io) == io \in Controllers[spi].ios

-----------------------------------------------------------------------------
(* The chip *)

Always4b == H.known /\ "ALWAYS" \in H.four
PoweredUp == [w |-> 1, a4 |-> FALSE, qe |-> FALSE, dc |-> Factory]
WasReset(d) == [PoweredUp EXCEPT !.dc = IF H.known /\ H.kept THEN d.dc ELSE Factory]

\* The dies after 66h 99h of width w, and after the selected die took a command.
AfterReset(ds, w) ==
    IF reset = "none" \/ ds[sel].w # w THEN ds
    ELSE [i \in DOMAIN ds |-> IF i = sel \/ (reset = "all" /\ ds[i].w = w) THEN WasReset(ds[i]) ELSE ds[i]]

\* Whether four data lines work: a chip without the bit has them always.
QuadWorks(d) == H.qe \in QeTypes => d.qe

Took(d, w, after) == IF d.w = w THEN after ELSE d

Narrowed(d, w, method) == Took(d, w, IF H.known /\ method = H.qpi[2] THEN [d EXCEPT !.w = 1] ELSE d)
Without4b(d, w, method) ==
    LET works == CASE method = "E9H" -> "B7H_E9H" \in H.four
                   [] method = "BANK" -> "BANK" \in H.four
                   [] OTHER -> FALSE
    IN  Took(d, w, IF method = "CR2V" THEN [d EXCEPT !.a4 = FALSE, !.w = 1]
                   ELSE IF works THEN [d EXCEPT !.a4 = FALSE] ELSE d)

\* Leaving QPI mode may be a reset.
Leave(ds, w, method) ==
    IF method = "66H_99H" THEN AfterReset(ds, w) ELSE [ds EXCEPT ![sel] = Narrowed(@, w, method)]

-----------------------------------------------------------------------------
(* A process *)

Init ==
    /\ chip \in Chips
    /\ reset \in {"none", "die"} \cup (IF H.dies > 1 THEN {"all"} ELSE {})
    /\ dies = [i \in 0..(H.dies - 1) |-> PoweredUp]
    /\ sel = 0 /\ spi \in DOMAIN Controllers
    /\ phase = "off" /\ again = FALSE /\ left = 0 /\ width = 1 /\ a4b_mode = FALSE

\* A process starts, the one before having ended anywhere; the chip may have been
\* without power in between.  spi_nor_reset_param
Start(c) ==
    /\ phase' = "spi" /\ spi' = c /\ again' = FALSE /\ left' = 0 /\ width' = 1 /\ a4b_mode' = FALSE
    /\ \/ UNCHANGED <<dies, sel>>
       \/ dies' = [i \in DOMAIN dies |-> WasReset(dies[i])] /\ sel' = 0
    /\ UNCHANGED <<chip, reset>>

\* spi_nor_probe_jedec_id_retry: the id is read one, four and two bits wide; three
\* more rounds over a chip that answered none of them are left out.
Next4 == IF Can("4_4_4") THEN "qpi" ELSE IF Can("2_2_2") THEN "dpi" ELSE "lost"
Next2 == IF Can("2_2_2") THEN "dpi" ELSE "lost"

SearchSpi ==
    /\ phase = "spi"
    /\ dies' = AfterReset(dies, 1)
    /\ width' = 1
    /\ phase' = IF dies'[sel].w = 1 THEN "prepare" ELSE Next4
    /\ UNCHANGED <<chip, reset, sel, spi, again, left, a4b_mode>>

SearchQpi ==
    /\ phase = "qpi"
    /\ IF dies[sel].w = 4
       THEN /\ width' = 4
            /\ phase' = IF again THEN "prepare" ELSE "leave"
       ELSE /\ width' = 1
            /\ phase' = Next2
    /\ UNCHANGED <<chip, reset, dies, sel, spi, again, left, a4b_mode>>

SearchDpi ==
    /\ phase = "dpi"
    /\ IF dies[sel].w = 2
       THEN /\ width' = 2
            /\ phase' = IF again THEN "prepare" ELSE "leave"
       ELSE /\ width' = 1
            /\ phase' = "lost"
    /\ UNCHANGED <<chip, reset, dies, sel, spi, again, left, a4b_mode>>

\* spi_nor_probe_jedec_id: QPI or DPI mode is left, by the entry's or the vendor's
\* operation if there is one, and the id read again.
LeaveMode ==
    /\ phase = "leave"
    /\ dies' = Leave(dies, width, LeftFirst(P.search, width))
    /\ phase' = "spi" /\ again' = TRUE
    /\ UNCHANGED <<chip, reset, sel, spi, left, width, a4b_mode>>

\* spi_nor_probe_sfdp, the fixups, spi_nor_setup_param and spi_nor_setup_param_final.
\* Where there is no SFDP to read, a mode that the chip is still in is left first.
Prepare ==
    /\ phase = "prepare"
    /\ LET by == IF H.data \/ width = 1 THEN "NONE" ELSE LeftAgain(P.search, width)
           w == IF by = "NONE" THEN width ELSE 1
           narrow == Leave(dies, width, by)
       IN  /\ dies' = [narrow EXCEPT ![sel] = IF H.known THEN Without4b(@, w, P.leaving_4b) ELSE @]
           /\ width' = IF P.leaving_4b = "CR2V" THEN 1 ELSE w
    /\ a4b_mode' = FALSE
    /\ IF P.ok THEN phase' = "die" /\ left' = P.dies ELSE phase' = "refused" /\ left' = 0
    /\ UNCHANGED <<chip, reset, sel, spi, again>>

QuadData == UsesQuad(P)

\* Mutant: the wait clocks are counted on and never set.
DcNotSet(dc) == dc

\* Mutant: of several dies only the first one that is set up is told.
A4bOfOneDie(a4) == (a4 /\ ~(P.restores_3b /\ "B7H_E9H" \in H.four)) \/ (P.a4b # "none" /\ left = P.dies)

\* spi_nor_chip_die_setup, for the last die first.  Writing 0 to the status register
\* clears the Quad-Enable bit if that is where it is, or if it is in the second one
\* and the chip takes a write of one byte as one of two.
QeAfterWriteSr(qe) == qe /\ P.qe \notin {"SR1_BIT6", "SR2_BIT1_WR_SR1"}
DcAfterSetup(dc) == IF P.dc \in {"acc", "c0h"} THEN P.read.idx ELSE dc
QeAfterSetup(qe) == qe \/ (QuadData /\ P.qe \in QeTypes)
A4bAfterSetup(a4) == (a4 /\ ~(P.restores_3b /\ "B7H_E9H" \in H.four)) \/ P.a4b # "none"

SetupDie ==
    /\ phase = "die"
    /\ sel' = left - 1
    /\ LET d == dies[sel']
           by == IF width = 4 THEN P.qpi[2] ELSE IF width = 2 THEN "EVCR" ELSE "NONE"
           set == [d EXCEPT !.qe = QeAfterSetup(QeAfterWriteSr(@)), !.dc = DcAfterSetup(@)]
           narrow == Took(d, width, Narrowed(set, width, by))
       IN  dies' = [dies EXCEPT ![sel'] = Took(narrow, 1, [narrow EXCEPT !.a4 = A4bAfterSetup(@)])]
    /\ width' = 1
    /\ a4b_mode' = (a4b_mode \/ P.a4b # "none")
    /\ left' = left - 1
    /\ phase' = IF left = 1 THEN "ready" ELSE "die"
    /\ UNCHANGED <<chip, reset, spi, again>>

\* ufprog_spi_nor_read, first half: spi_nor_set_bus_width and the read command.
StartRead ==
    /\ phase = "ready"
    /\ LET w == CmdBw(P.read.io)
           dc == IF w = 4 /\ P.dc = "srp" THEN P.read.idx ELSE dies[sel].dc
           taken == w = 2 \/ (w = 4 /\ P.qpi[1] = H.qpi[1] /\ (H.qpi[1] = "38H" => QuadWorks(dies[sel])))
           widened == IF taken THEN [dies[sel] EXCEPT !.w = w, !.dc = dc] ELSE dies[sel]
       IN  /\ dies' = [dies EXCEPT ![sel] = Took(@, width, widened)]
           /\ width' = w
    /\ phase' = "reading"
    /\ UNCHANGED <<chip, reset, sel, spi, again, left, a4b_mode>>

\* Mutant: the chip stays in the mode the data was read in.
EndReadStays ==
    /\ phase = "reading"
    /\ width' = 1
    /\ phase' = "ready"
    /\ UNCHANGED <<chip, reset, dies, sel, spi, again, left, a4b_mode>>

\* Second half: back to commands of one bit.
EndRead ==
    /\ phase = "reading"
    /\ dies' = CASE width = 4 -> Leave(dies, 4, P.qpi[2])
                 [] width = 2 -> [dies EXCEPT ![sel] = Took(@, 2, [@ EXCEPT !.w = 1])]
                 [] OTHER -> dies
    /\ width' = 1
    /\ phase' = "ready"
    /\ UNCHANGED <<chip, reset, sel, spi, again, left, a4b_mode>>

\* ufprog_spi_nor_select_die
SelectDie(i) ==
    /\ phase = "ready" /\ i < P.dies
    /\ sel' = i
    /\ UNCHANGED <<chip, reset, dies, spi, phase, again, left, width, a4b_mode>>

Next ==
    \/ \E c \in DOMAIN Controllers : Start(c)
    \/ SearchSpi \/ SearchQpi \/ SearchDpi \/ LeaveMode \/ Prepare \/ SetupDie
    \/ StartRead \/ EndRead
    \/ \E i \in DOMAIN dies : SelectDie(i)

Spec == Init /\ [][Next]_vars

-----------------------------------------------------------------------------
(* Properties *)

TypeOK ==
    /\ chip \in Chips /\ reset \in {"none", "die", "all"} /\ spi \in DOMAIN Controllers
    /\ dies \in [0..(H.dies - 1) -> [w : {1, 2, 4}, a4 : BOOLEAN, qe : BOOLEAN, dc : Int]]
    /\ sel \in DOMAIN dies /\ width \in {1, 2, 4} /\ left \in 0..H.dies
    /\ phase \in {"off", "spi", "qpi", "dpi", "leave", "prepare", "die", "ready", "reading",
                  "refused", "lost"}
    /\ again \in BOOLEAN /\ a4b_mode \in BOOLEAN

\* However a process has left a chip, the next one finds it, unless its controller
\* cannot send commands as wide as the chip expects them; and the driver then sends
\* every command as wide as the selected die takes it (spi_nor_probe_jedec_id,
\* spi_nor_chip_die_setup, spi_nor_set_bus_width).
LeftoversAreFound ==
    /\ phase = "lost" => \/ dies[sel].w = 4 /\ ~Can("4_4_4")
                         \/ dies[sel].w = 2 /\ ~Can("2_2_2")
    /\ phase \in {"prepare", "die", "ready", "reading"} => dies[sel].w = width

\* As many address bytes are sent as the chip expects, from every die of it, for the
\* read, the program and every erase command, and a4b_mode is the mode the chip is in,
\* whatever mode a process before had put it in; and a chip that does not take the
\* opcodes for 4-byte addresses in QPI mode is not sent one.  Left out: XTX's 32h (see
\* xtx_part_fixup), and the mode of the dies of a stack, of which only the selected one
\* is told to leave it.
AddressBytes(d, opcode) ==
    IF opcode \in OpcodesOf4b \/ Always4b \/ d.a4 THEN 4 ELSE 3
Excepted == IF H.xtx THEN {\h32} ELSE {}
AddressesAgree ==
    phase \in {"ready", "reading"} =>
        /\ \A i \in DOMAIN dies, opcode \in P.opcodes \ Excepted :
               AddressBytes(dies[i], opcode) = P.naddr
        /\ H.dies = 1 => dies[sel].a4 = a4b_mode
        /\ dies[sel].w = 4 /\ H.no_four_in_qpi => P.read_opcode \notin OpcodesOf4b

\* Data comes when it is expected and on lines that are on: the wait clocks that the
\* driver counts in a read are those that the chip is set to, in the width it is read
\* in, and where four lines carry data they are enabled in every die
\* (spi_nor_choose_io_type, spi_nor_setup_dc, spi_nor_quad_enable).
TransfersAgree ==
    /\ phase = "reading" /\ P.read.io \in DOMAIN H.dc =>
           IF dies[sel].dc = Factory THEN P.read.mhz = 0
           ELSE WaitClocks(H, P.read.io, dies[sel].dc) = {P.read.clocks}
    /\ phase \in {"ready", "reading"} /\ QuadData => \A i \in DOMAIN dies : QuadWorks(dies[i])

\* A chip of which the tables and the chip itself tell enough is never refused,
\* whatever the controller (spi_nor_setup_param, spi_nor_setup_opcode).
ToldIsServed == phase = "refused" => ~H.told

\* What the driver tells its caller of a chip it has set up is so: the size and the
\* number of dies, unless chips of several sizes have the id; and every region of the
\* write protection that it offers can be set and is read back as what was set, unless
\* the entry sets it through the access that transfers nothing (vendor-eon.c:71).
sizes == {2^k : k \in 5..18}   \* of the chips there are, in KB
reads_back ==
    [regacc \in {"none", "srcr_comb"} |->
        [w \in DOMAIN wp_tables |-> [size \in sizes |-> ReadsBack(wp_tables[w], regacc, size)]]]
ToldIsTrue ==
    phase = "ready" /\ H.alone =>
        /\ P.size = H.size /\ P.dies = H.dies
        /\ P.wp # "none" /\ P.wp_regacc # "eon_sr1_sr4" => reads_back[P.wp_regacc][P.wp][P.size]

\* A chip is served whenever enough is told of it, and served as what it is.
Served == ToldIsServed /\ ToldIsTrue
=============================================================================
