---------------------------- MODULE MCSpiNorChip ----------------------------
(***************************************************************************)
(* The chips of SpiNorChip: every entry that can be found by its id, as    *)
(* the chips that may have it, on four kinds of controllers.               *)
(***************************************************************************)
EXTENDS SpiNorPlan, SpiNorChip

MCControllers ==
    [single |-> [ios |-> {"1_1_1"}, mhz |-> 30],
     quad |-> [ios |-> {"1_1_1"} \cup X2 \cup X4, mhz |-> 60],
     dpi |-> [ios |-> {"1_1_1"} \cup DPI, mhz |-> 60],
     qpi |-> [ios |-> Ios, mhz |-> 133]]

\* How a chip that has QPI mode enters and leaves it.
QpiOf(v, e) ==
    IF e.qpi_en_type # "NONE" THEN <<e.qpi_en_type, e.qpi_dis_type>>
    ELSE CASE v \in {"macronix", "issi", "pmc"} -> <<"35H", "F5H">>
           [] v = "micron" -> <<"VENDOR", "VENDOR">>
           [] OTHER -> <<"38H", "FFH">>

\* The bytes of SFDP that tell the models with one id apart.
BytesFor(fix) ==
    CASE fix = "xm25qx32" -> {\h46, \h27, \h23}
      [] fix \in {"mx25u32xx", "mx25u64xx"} -> {0, \h36}
      [] OTHER -> {\h46}

\* What chips of an entry may say of themselves: an old or new basic table or none,
\* with QPI mode or without, the bit that chooses a protection table clear or set,
\* and what the fixups fixs look at.
ShapesFor(v, e, fixs) ==
    LET fixed == fixs # {"none"}
        own == IF "NO_SFDP" \in e.flags THEN e.read_io_caps \ {"4_4_4", "2_2_2"}
               ELSE {"1_1_1"} \cup X2 \cup X4
        caps == {own} \cup (IF v = "eon" /\ fixed THEN {own \ X4} ELSE {})
        four == IF ~Large(e) THEN {} ELSE IF e.a4b_flags # {} THEN e.a4b_flags ELSE {"OPCODE", "B7H_E9H"}
        qpis == IF e.ndies > 1 THEN {<<"NONE", "NONE">>} ELSE {<<"NONE", "NONE">>, QpiOf(v, e)}
        revs == IF "NO_SFDP" \notin e.flags /\ Large(e) /\ e.a4b_flags = {} THEN {RevA, RevB}
                ELSE {0, RevA, RevB}
        pages == IF v = "issi" /\ fixed THEN {256, 512} ELSE {256}
        minors == IF v \in {"winbond", "spansion"} /\ fixed THEN {0, 1} ELSE {0}
        Shape(rev, qpi, page, minor, byte, bit, ios) ==
            [data |-> TRUE, minor |-> minor, bfpt |-> TRUE, rev |-> rev,
             read_io_caps |-> ios \cup (IF qpi[1] = "NONE" THEN {} ELSE {"4_4_4"})
                                  \cup (IF v = "micron" /\ qpi[1] # "NONE" THEN {"2_2_2"} ELSE {}),
             page_size |-> page, a4bit |-> rev >= RevB /\ "OPCODE" \in four,
             qe_type |-> IF e.qe_type = "UNKNOWN" THEN "SR2_BIT1" ELSE e.qe_type,
             qpi |-> qpi, a4b_flags |-> four, byte |-> byte, bit |-> bit]
    IN  {Shape(r, q, p, m, b, t, io) :
             r \in revs, q \in qpis, p \in pages, m \in minors, b \in UNION {BytesFor(f) : f \in fixs},
             t \in IF fixed THEN {0, 1} ELSE {0}, io \in caps}
          \cup (IF "NO_SFDP" \in e.flags THEN {Bare} \cup (IF fixed THEN {[Bare EXCEPT !.bit = 1]} ELSE {}) ELSE {})

\* The samples of an entry: the shapes for which its own fixups do not take it for
\* another model and, if there are any, for which the entry found by its id, often an
\* earlier one, is corrected to it.
SamplesOf(v, e, first) ==
    LET Stays(c) == ModelOf(e.fixups, c) \in {Stay, e.model}
        shapes == {c \in ShapesFor(v, e, {e.fixups, first.fixups}) : Stays(c)}
        Becomes(c) == LET m == ModelOf(first.fixups, c) IN IF m = Stay THEN first.model ELSE m
        reaching == {c \in shapes : Becomes(c) \in {e.model} \cup e.alias}
    IN  {<<v, e, c>> : c \in IF reaching # {} THEN reaching ELSE shapes}

Sampled(parts) ==
    {parts[i] : i \in {n \in DOMAIN parts :
                         parts[n].id # NoId /\ parts[n].flags \cap {"META", "NO_OP"} = {}}}
SamplesWith(entries) ==
    UNION {UNION {SamplesOf(v, e, entries[e.id].part) : e \in Sampled(parts_of[v])} : v \in Vendors}

ChipsWith(entries) == ChipsOf(SamplesWith(entries), entries, MCControllers)
MCChips == ChipsWith(found)
=============================================================================
