--------------------------- MODULE SpiNorProtect ----------------------------
(***************************************************************************)
(* The write protection of a SPI-NOR chip (wp.c): the regions that its     *)
(* table of block protection bits offers, how one is set and how it is     *)
(* read back.                                                              *)
(*                                                                         *)
(* A region is <<base, size>> in KB.  The bits that a table does not       *)
(* mention are kept by both, so that only those of its mask appear.  They  *)
(* are read back through the access of the table, and set through that of  *)
(* the chip's entry if it has one.                                         *)
(***************************************************************************)
EXTENDS SpiNorWpTables

Least(a, b) == IF a < b THEN a ELSE b

\* No chip has 2^Shifts KB: a size shifted so far is cut to that of the chip.
Shifts == 22

\* spi_nor_gen_wp_region: the size that a row gives, and the region on a chip of
\* total KB.
RowSize(row, total) ==
    CASE row.type = "NONE" -> 0
      [] row.type = "ALL" -> total
      [] row.type = "LSHIFT" /\ row.scale >= Shifts -> total
      [] row.type = "LSHIFT" /\ row.scale < Shifts -> Least(row.granularity * 2^row.scale, total)
      [] row.type = "RSHIFT" -> total \div 2^row.scale
GenWpRegion(row, total) ==
    LET raw == RowSize(row, total)
        size == IF ~(row.cmp /\ row.full) THEN raw
                ELSE IF raw = 0 THEN total ELSE IF raw = total THEN 0 ELSE raw
        base == IF row.cmp THEN (IF row.lower THEN size ELSE 0)
                ELSE IF row.lower THEN 0 ELSE total - size
    IN  <<IF base = total THEN 0 ELSE base, IF row.cmp THEN total - size ELSE size>>

Generated(wpr, total) == [i \in DOMAIN wpr.rows |-> GenWpRegion(wpr.rows[i], total)]

\* ufprog_spi_nor_get_wp_region_list: nothing and everything once, any other region
\* unless it is that of the row before.
GetWpRegionList(wpr, total) ==
    LET all == Generated(wpr, total)
        Shown(i) ==
            IF all[i][2] \in {0, total} THEN \A j \in 1..(i - 1) : all[j][2] # all[i][2]
            ELSE i = 1 \/ all[i] # all[i - 1]
        shown == SelectSeq([i \in DOMAIN all |-> i], Shown)
    IN  [n \in DOMAIN shown |-> all[shown[n]]]

\* The status registers that an access transfers.  The one for Eon's chips names two
\* but counts no byte of either: it sends a write without data, and reads nothing.
Transferred(access) ==
    CASE access = "sr" -> {"SR"}
      [] access \in {"srcr", "srcr_comb"} -> {"SR", "CR"}
      [] access = "eon_sr1_sr4" -> {}

\* The access that the bits are set through, of an entry that has regacc or none.
SetThrough(wpr, regacc) == IF regacc = "none" THEN wpr.access ELSE regacc

Smallest(S) == CHOOSE i \in S : \A j \in S : i <= j
NotSet == -1    \* UFP_NOT_EXIST: no row has the region

\* The bits afterwards when row i is set on a chip that holds held.  Where they are
\* not reached the check of what was set compares whatever the read left in memory,
\* then clears as little as was set, and the call succeeds all the same.
Written(wpr, regacc, i, held) ==
    IF Transferred(wpr.access) \subseteq Transferred(SetThrough(wpr, regacc))
    THEN wpr.rows[i].bits ELSE held

\* Mutant: the first row with a region as large.
SetWpRegionBySize(wpr, regacc, total, region, held) ==
    LET rows == {i \in DOMAIN wpr.rows : GenWpRegion(wpr.rows[i], total)[2] = region[2]}
    IN  IF rows = {} THEN NotSet ELSE Written(wpr, regacc, Smallest(rows), held)

\* ufprog_spi_nor_set_wp_region: the bits of the first row with the region; the
\* base does not matter when it is the whole chip.
SetWpRegion(wpr, regacc, total, region, held) ==
    LET base == IF region[2] = total THEN 0 ELSE region[1]
        rows == {i \in DOMAIN wpr.rows : GenWpRegion(wpr.rows[i], total) = <<base, region[2]>>}
    IN  IF rows = {} THEN NotSet ELSE Written(wpr, regacc, Smallest(rows), held)

\* ufprog_spi_nor_get_wp_region: the region of the first row with the bits.
NoRegion == <<>>
GetWpRegion(wpr, total, bits) ==
    LET rows == {i \in DOMAIN wpr.rows : wpr.rows[i].bits = bits}
    IN  IF rows = {} THEN NoRegion ELSE GenWpRegion(wpr.rows[Smallest(rows)], total)

-----------------------------------------------------------------------------

\* What is set is what is read back, for every region that the list offers and a chip
\* that protected nothing before.
ReadsBack(wpr, regacc, total) ==
    \A n \in DOMAIN GetWpRegionList(wpr, total) :
        LET region == GetWpRegionList(wpr, total)[n]
            bits == SetWpRegion(wpr, regacc, total, region, 0)
        IN  bits # NotSet /\ GetWpRegion(wpr, total, bits) = region
=============================================================================
