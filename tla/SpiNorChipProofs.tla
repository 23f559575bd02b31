-------------------------- MODULE SpiNorChipProofs --------------------------
(***************************************************************************)
(* Theorems about SpiNorChip: for any chips with any number of dies, any   *)
(* controllers and any number of processes that end anywhere, as long as   *)
(* what the driver makes of each chip fits it (ChipsFit).                  *)
(***************************************************************************)
EXTENDS SpiNorChip, TLAPS

DieStates == [w : {1, 2, 4}, a4 : BOOLEAN, qe : BOOLEAN, dc : Int]

\* A step that opens no mode and chooses no wait clocks leads from d to e.
Milder(d, e) ==
    /\ e \in DieStates
    /\ e.w \in {1, d.w} /\ (e.a4 => d.a4) /\ e.dc \in {Factory, d.dc}

\* What one process or another has done to the dies.
LeftSo ==
    \A i \in DOMAIN dies :
        /\ dies[i].w # 1 => Enters(chip, dies[i].w)
        /\ dies[i].a4 => Enters4b(chip)
        /\ dies[i].dc # Factory => dies[i].dc \in ClocksSet(chip)

\* What the search for a chip knows of its width.
Sought ==
    /\ phase = "qpi" => dies[sel].w # 1 /\ Can("4_4_4")
    /\ phase = "dpi" => dies[sel].w # 1 /\ (dies[sel].w = 4 => ~Can("4_4_4"))
    /\ phase = "lost" => \/ dies[sel].w = 4 /\ ~Can("4_4_4")
                         \/ dies[sel].w = 2 /\ ~Can("2_2_2")
    /\ phase = "leave" => dies[sel].w = width /\ width # 1
    /\ phase = "prepare" => dies[sel].w = width /\ (width # 1 => again)
    /\ phase \in {"spi", "qpi", "dpi", "prepare"} /\ again /\ P.ok /\ dies[sel].w # 1 =>
           LeftFirst(P.search, dies[sel].w) # H.qpi[2]

\* The die d is as the plan wants it.
DieReady(d) ==
    /\ QuadData => QuadWorks(d)
    /\ P.a4b # "none" => d.a4
    /\ P.a4b = "none" /\ H.dies = 1 => ~d.a4
    /\ P.dc \in {"acc", "c0h"} => d.dc = P.read.idx

\* The set-up goes through the dies from the last to the first, and knows the width of
\* the selected one.
Driven ==
    phase \in {"die", "ready", "reading"} =>
        /\ P.ok /\ dies[sel].w = width
        /\ left \in IF phase = "die" THEN 1 .. P.dies ELSE {0}
        /\ \A i \in left .. P.dies - 1 : DieReady(dies[i])
        /\ a4b_mode <=> left < P.dies /\ P.a4b # "none"
        /\ phase = "die" /\ H.dies = 1 /\ P.a4b = "none" /\ dies[sel].a4 =>
               P.restores_3b /\ "B7H_E9H" \in H.four
        /\ phase # "die" => sel < P.dies
        /\ phase = "ready" => width = 1
        /\ phase = "reading" => /\ width = CmdBw(P.read.io)
                                /\ P.dc = "srp" => dies[sel].dc = P.read.idx

SetupInv == TypeOK /\ LeftSo /\ Sought /\ Driven

USE DEF H, P

\* What is known of a chip for which there is a plan.
LEMMA PlanFacts ==
    ASSUME NEW c \in Chips, NEW p \in Plans(c)
    PROVE  /\ c.hw.known /\ c.hw.dies \in Nat \ {0} /\ p.dies \in 1 .. c.hw.dies /\ p.ok
           /\ DiesFit(c, p) /\ ModesFit(c, p) /\ AddressesFit(c, p) /\ ClocksFit(c, p)
           /\ CmdBw(p.read.io) \in {1, 2, 4}
           /\ CmdBw(p.read.io) = 4 => UsesQuad(p)
           /\ Enters(c, CmdBw(p.read.io))
           /\ p.a4b # "none" => Enters4b(c)
           /\ p.dc # "none" => p.read.idx \in ClocksSet(c)
<1>1. p \in {c.plan[n] : n \in {m \in DOMAIN Controllers : c.plan[m].ok}}
    BY DEF Plans
<1>2. IsChip(c) /\ p.read.io \in Ios
    BY ChipsAssumption DEF ChipsFit, IsChip
<1>3. /\ CmdBw(p.read.io) \in {1, 2, 4}
      /\ CmdBw(p.read.io) = 4 => p.read.io = "4_4_4"
    BY <1>2 DEF CmdBw, Widths, Ios, IoTypes
<1>4. DataBw("4_4_4") = 4
    BY DEF DataBw, Widths, Ios, IoTypes
<1>5. CmdBw(p.read.io) = 4 => UsesQuad(p)
    BY <1>3, <1>4 DEF UsesQuad
<1>6. /\ Enters(c, CmdBw(p.read.io))
      /\ p.a4b # "none" => Enters4b(c)
      /\ p.dc # "none" => p.read.idx \in ClocksSet(c)
    BY DEF Enters, Enters4b, ClocksSet
<1>. QED BY <1>1, <1>2, <1>3, <1>5, <1>6, ChipsAssumption DEF ChipsFit, IsChip

LEMMA OwnPlan ==
    ASSUME TypeOK
    PROVE  /\ chip \in Chips /\ chip.hw.dies \in Nat \ {0} /\ spi \in DOMAIN Controllers
           /\ P.ok => P \in Plans(chip)
           /\ dies \in [0 .. chip.hw.dies - 1 -> DieStates] /\ sel \in 0 .. chip.hw.dies - 1
BY ChipsAssumption DEF TypeOK, Plans, ChipsFit, IsChip, DieStates

\* A chip with several dies is never left in another width.
LEMMA StackedAreNarrow ==
    ASSUME TypeOK, LeftSo, NEW i \in DOMAIN dies, dies[i].w # 1
    PROVE  chip.hw.dies = 1 /\ sel = i /\ i = 0
<1>1. dies[i].w \in {2, 4} /\ Enters(chip, dies[i].w)
    BY OwnPlan DEF LeftSo, DieStates
<1>2. PICK p \in Plans(chip) : CmdBw(p.read.io) = dies[i].w
    BY <1>1 DEF Enters
<1>3. ModesFit(chip, p)
    BY OwnPlan, PlanFacts
<1>4. chip.hw.dies = 1
    BY <1>1, <1>3 DEF ModesFit
<1>. QED BY <1>4, OwnPlan

-----------------------------------------------------------------------------
(* The commands that narrow a chip *)

LEMMA MilderIsTransitive ==
    ASSUME NEW d \in DieStates, NEW e, NEW f, Milder(d, e), Milder(e, f)
    PROVE  Milder(d, f)
BY DEF Milder, DieStates

LEMMA ResetIsMild ==
    ASSUME NEW d \in DieStates
    PROVE  Milder(d, WasReset(d)) /\ WasReset(d).w = 1
<1>. DEFINE clocks == IF H.known /\ H.kept THEN d.dc ELSE Factory
<1>1. WasReset(d) = [PoweredUp EXCEPT !.dc = clocks]
    BY DEF WasReset
<1>2. clocks \in {Factory, d.dc} /\ clocks \in Int
    BY DEF DieStates, Factory
<1>. HIDE DEF clocks
<1>3. WasReset(d) = [w |-> 1, a4 |-> FALSE, qe |-> FALSE, dc |-> clocks]
    BY <1>1 DEF PoweredUp
<1>. QED BY <1>2, <1>3 DEF Milder, DieStates

LEMMA AfterResetIsMild ==
    ASSUME TypeOK, NEW ds \in [DOMAIN dies -> DieStates], NEW w \in {1, 2, 4}
    PROVE  /\ AfterReset(ds, w) \in [DOMAIN dies -> DieStates]
           /\ \A i \in DOMAIN dies : Milder(ds[i], AfterReset(ds, w)[i])
<1>. DEFINE after(i) == IF i = sel \/ (reset = "all" /\ ds[i].w = w)
                        THEN WasReset(ds[i]) ELSE ds[i]
<1>1. AfterReset(ds, w) = ds \/ AfterReset(ds, w) = [i \in DOMAIN ds |-> after(i)]
    BY DEF AfterReset
<1>2. \A i \in DOMAIN ds : Milder(ds[i], ds[i])
    BY DEF Milder, DieStates
<1>3. \A i \in DOMAIN ds : Milder(ds[i], after(i))
    BY <1>2, ResetIsMild
<1>4. \A i \in DOMAIN ds : after(i) \in DieStates
    BY <1>3 DEF Milder
<1>. QED BY <1>1, <1>2, <1>3, <1>4

\* Only the width may change.
OnlyNarrower(d, e) == e \in DieStates /\ e.w \in {1, d.w} /\ e.a4 = d.a4 /\ e.qe = d.qe /\ e.dc = d.dc

LEMMA NarrowedFacts ==
    ASSUME NEW d \in DieStates, NEW w \in {1, 2, 4}, NEW method
    PROVE  /\ OnlyNarrower(d, Narrowed(d, w, method))
           /\ d.w = w /\ H.known /\ method = H.qpi[2] =>
                  Narrowed(d, w, method) = [d EXCEPT !.w = 1]
           /\ d.w = w /\ method # H.qpi[2] => Narrowed(d, w, method) = d
BY DEF OnlyNarrower, DieStates, Narrowed, Took

LEMMA LeaveFacts ==
    ASSUME TypeOK, NEW w \in {1, 2, 4}, NEW method
    PROVE  /\ Leave(dies, w, method) \in [DOMAIN dies -> DieStates]
           /\ \A i \in DOMAIN dies : Milder(dies[i], Leave(dies, w, method)[i])
           /\ method # "66H_99H" =>
                  /\ \A i \in DOMAIN dies : OnlyNarrower(dies[i], Leave(dies, w, method)[i])
                  /\ dies[sel].w = w =>
                         /\ H.known /\ method = H.qpi[2] =>
                                Leave(dies, w, method)[sel].w = 1
                         /\ method # H.qpi[2] => Leave(dies, w, method)[sel] = dies[sel]
<1>1. dies \in [DOMAIN dies -> DieStates] /\ sel \in DOMAIN dies
    BY OwnPlan
<1>2. CASE method = "66H_99H"
    BY <1>1, <1>2, AfterResetIsMild DEF Leave
<1>3. CASE method # "66H_99H"
    <2>. DEFINE one == Narrowed(dies[sel], w, method)
    <2>1. Leave(dies, w, method) = [dies EXCEPT ![sel] = one]
        BY <1>3 DEF Leave
    <2>2. /\ OnlyNarrower(dies[sel], one)
          /\ dies[sel].w = w /\ H.known /\ method = H.qpi[2] => one = [dies[sel] EXCEPT !.w = 1]
          /\ dies[sel].w = w /\ method # H.qpi[2] => one = dies[sel]
        BY <1>1, NarrowedFacts
    <2>3. \A i \in DOMAIN dies : OnlyNarrower(dies[i], dies[i])
        BY <1>1 DEF OnlyNarrower, DieStates
    <2>4. \A i \in DOMAIN dies : OnlyNarrower(dies[i], Leave(dies, w, method)[i])
        <3>. HIDE DEF one
        <3>. QED BY <1>1, <2>1, <2>2, <2>3
    <2>5. Leave(dies, w, method) \in [DOMAIN dies -> DieStates]
        <3>. HIDE DEF one
        <3>. QED BY <1>1, <2>1, <2>2 DEF OnlyNarrower
    <2>6. \A i \in DOMAIN dies : Milder(dies[i], Leave(dies, w, method)[i])
        BY <2>4 DEF OnlyNarrower, Milder
    <2>7. Leave(dies, w, method)[sel] = one
        BY <1>1, <2>1
    <2>8. dies[sel].w = w /\ H.known /\ method = H.qpi[2] => one.w = 1
        <3>. HIDE DEF one
        <3>. QED BY <1>1, <2>2 DEF DieStates
    <2>. HIDE DEF one
    <2>. QED BY <1>1, <1>3, <2>2, <2>4, <2>5, <2>6, <2>7, <2>8
<1>. QED BY <1>2, <1>3

\* The chip is told in a way that it knows to go back to 3-byte addresses.
Leaves4b(method) ==
    \/ method = "CR2V"
    \/ method = "E9H" /\ "B7H_E9H" \in H.four
    \/ method = "BANK" /\ "BANK" \in H.four

LEMMA Without4bFacts ==
    ASSUME NEW d \in DieStates, NEW w \in {1, 2, 4}, NEW method
    PROVE  /\ Milder(d, Without4b(d, w, method))
           /\ d.w = w =>
                  /\ Without4b(d, w, method).w = IF method = "CR2V" THEN 1 ELSE w
                  /\ Leaves4b(method) => Without4b(d, w, method).a4 = FALSE
BY DEF Milder, DieStates, Leaves4b, Without4b, Took

\* What was left so is left so by a step that opens nothing.
LEMMA MildIsLeftSo ==
    ASSUME TypeOK, LeftSo, UNCHANGED chip, DOMAIN dies' = DOMAIN dies,
           \A i \in DOMAIN dies : Milder(dies[i], dies'[i])
    PROVE  LeftSo'
BY DEF LeftSo, Milder, Enters, Enters4b, ClocksSet, Plans

-----------------------------------------------------------------------------
(* A process searches for the chip *)

\* The type invariant after a step that only changes the dies, the width and where the
\* process is.
LEMMA StaysTyped ==
    ASSUME TypeOK, UNCHANGED <<chip, reset>>,
           dies' \in [DOMAIN dies -> DieStates], sel' \in DOMAIN dies, spi' \in DOMAIN Controllers,
           width' \in {1, 2, 4}, left' \in 0 .. H.dies, again' \in BOOLEAN, a4b_mode' \in BOOLEAN,
           phase' \in {"spi", "qpi", "dpi", "leave", "prepare", "die", "ready", "reading", "refused", "lost"}
    PROVE  TypeOK'
BY DEF TypeOK, DieStates

LEMMA InitIsInv ==
    ASSUME Init
    PROVE  SetupInv
<1>1. H.dies \in Nat \ {0} /\ chip \in Chips
    BY ChipsAssumption DEF Init, ChipsFit, IsChip
<1>2. /\ PoweredUp \in DieStates /\ PoweredUp.w = 1
      /\ ~PoweredUp.a4 /\ PoweredUp.dc = Factory
    BY DEF PoweredUp, Factory, DieStates
<1>3. dies = [i \in 0 .. H.dies - 1 |-> PoweredUp]
    BY DEF Init
<1>4. TypeOK
    <2>1. dies \in [0 .. H.dies - 1 -> DieStates] /\ 0 \in DOMAIN dies
        BY <1>1, <1>2, <1>3
    <2>2. /\ sel = 0 /\ width = 1 /\ left = 0 /\ phase = "off" /\ again = FALSE /\ a4b_mode = FALSE
          /\ spi \in DOMAIN Controllers /\ reset \in {"none", "die", "all"}
        BY DEF Init
    <2>3. dies \in [0 .. H.dies - 1 -> [w : {1, 2, 4}, a4 : BOOLEAN, qe : BOOLEAN, dc : Int]]
        BY <2>1 DEF DieStates
    <2>4. sel \in DOMAIN dies /\ left \in 0 .. H.dies
        BY <1>1, <2>1, <2>2
    <2>. QED BY <1>1, <2>2, <2>3, <2>4 DEF TypeOK
<1>5. LeftSo
    BY <1>2, <1>3 DEF LeftSo
<1>6. Sought /\ Driven
    BY DEF Init, Sought, Driven
<1>. QED BY <1>4, <1>5, <1>6 DEF SetupInv

LEMMA StartKeeps ==
    ASSUME SetupInv, NEW c \in DOMAIN Controllers, Start(c)
    PROVE  SetupInv'
<1>1. /\ TypeOK /\ LeftSo /\ sel \in DOMAIN dies /\ 0 \in DOMAIN dies
      /\ dies \in [DOMAIN dies -> DieStates] /\ 0 \in 0 .. H.dies
    BY OwnPlan DEF SetupInv
<1>2. /\ phase' = "spi" /\ again' = FALSE /\ spi' = c /\ left' = 0 /\ width' = 1 /\ a4b_mode' = FALSE
      /\ UNCHANGED <<chip, reset>>
    BY DEF Start
<1>3. /\ dies' \in [DOMAIN dies -> DieStates] /\ sel' \in DOMAIN dies
      /\ \A i \in DOMAIN dies : Milder(dies[i], dies'[i])
    <2>1. CASE UNCHANGED <<dies, sel>>
        BY <1>1, <2>1 DEF Milder, DieStates
    <2>2. CASE dies' = [i \in DOMAIN dies |-> WasReset(dies[i])] /\ sel' = 0
        <3>1. \A i \in DOMAIN dies : Milder(dies[i], WasReset(dies[i]))
            BY <1>1, ResetIsMild
        <3>2. \A i \in DOMAIN dies : WasReset(dies[i]) \in DieStates
            BY <3>1 DEF Milder
        <3>. QED BY <1>1, <2>2, <3>1, <3>2
    <2>. QED BY <2>1, <2>2 DEF Start
<1>4. TypeOK'
    BY <1>1, <1>2, <1>3, StaysTyped
<1>5. LeftSo'
    BY <1>1, <1>2, <1>3, MildIsLeftSo
<1>6. Sought' /\ Driven'
    BY <1>2 DEF Sought, Driven
<1>. QED BY <1>4, <1>5, <1>6 DEF SetupInv

LEMMA SearchSpiKeeps ==
    ASSUME SetupInv, SearchSpi
    PROVE  SetupInv'
<1>1. /\ TypeOK /\ LeftSo /\ Sought /\ sel \in DOMAIN dies
      /\ dies \in [DOMAIN dies -> DieStates] /\ left \in 0 .. H.dies
      /\ spi \in DOMAIN Controllers /\ again \in BOOLEAN /\ a4b_mode \in BOOLEAN
    BY OwnPlan DEF SetupInv, TypeOK
<1>2. /\ phase = "spi" /\ width' = 1 /\ dies' = AfterReset(dies, 1)
      /\ phase' = IF dies'[sel].w = 1 THEN "prepare" ELSE Next4
      /\ UNCHANGED <<chip, reset, sel, spi, again, left, a4b_mode>>
    BY DEF SearchSpi
<1>3. /\ dies' \in [DOMAIN dies -> DieStates]
      /\ \A i \in DOMAIN dies : Milder(dies[i], dies'[i])
    BY <1>1, <1>2, AfterResetIsMild
<1>4. phase' \in {"prepare", "qpi", "dpi", "lost"}
    BY <1>2 DEF Next4
<1>5. TypeOK'
    BY <1>1, <1>2, <1>3, <1>4, StaysTyped
<1>6. LeftSo'
    BY <1>1, <1>2, <1>3, MildIsLeftSo
<1>7. dies'[sel].w \in {1, dies[sel].w} /\ dies'[sel].w \in {1, 2, 4}
    BY <1>1, <1>3 DEF Milder, DieStates
<1>8. Sought'
    <2>1. /\ phase' = "qpi" => dies'[sel].w # 1 /\ Can("4_4_4")
          /\ phase' = "dpi" => dies'[sel].w # 1 /\ ~Can("4_4_4")
          /\ phase' = "lost" => dies'[sel].w # 1 /\ ~Can("4_4_4") /\ ~Can("2_2_2")
          /\ phase' = "prepare" => dies'[sel].w = 1
        BY <1>2 DEF Next4
    <2>2. again /\ P.ok /\ dies'[sel].w # 1 =>
              LeftFirst(P.search, dies'[sel].w) # H.qpi[2]
        BY <1>1, <1>2, <1>7 DEF Sought
    <2>. QED BY <1>2, <1>4, <1>7, <2>1, <2>2 DEF Sought, Can
<1>9. Driven'
    BY <1>4 DEF Driven
<1>. QED BY <1>5, <1>6, <1>8, <1>9 DEF SetupInv

\* The id is read in another width: nothing changes in the chip.
LEMMA SearchWiderKeeps ==
    ASSUME SetupInv, SearchQpi \/ SearchDpi
    PROVE  SetupInv'
<1>1. /\ TypeOK /\ LeftSo /\ Sought /\ sel \in DOMAIN dies
      /\ dies \in [DOMAIN dies -> DieStates] /\ left \in 0 .. H.dies
      /\ spi \in DOMAIN Controllers /\ again \in BOOLEAN /\ a4b_mode \in BOOLEAN
    BY OwnPlan DEF SetupInv, TypeOK
<1>2. /\ phase \in {"qpi", "dpi"} /\ width' \in {1, 2, 4} /\ phase' \in {"leave", "prepare", "dpi", "lost"}
      /\ UNCHANGED <<chip, reset, dies, sel, spi, again, left, a4b_mode>>
    BY DEF SearchQpi, SearchDpi, Next2
<1>3. TypeOK'
    BY <1>1, <1>2, StaysTyped
<1>4. LeftSo'
    BY <1>1, <1>2 DEF LeftSo, Enters, Enters4b, ClocksSet, Plans
<1>5. dies[sel].w \in {1, 2, 4}
    BY <1>1 DEF DieStates
<1>6. Sought'
    <2>1. /\ phase' = "dpi" => dies[sel].w # 1 /\ (dies[sel].w = 4 => ~Can("4_4_4"))
          /\ phase' = "lost" => \/ dies[sel].w = 4 /\ ~Can("4_4_4")
                                \/ dies[sel].w = 2 /\ ~Can("2_2_2")
          /\ phase' = "leave" => dies[sel].w = width' /\ width' # 1
          /\ phase' = "prepare" => dies[sel].w = width' /\ again
        BY <1>1, <1>5 DEF Sought, SearchQpi, SearchDpi, Next2
    <2>2. again /\ P.ok /\ dies[sel].w # 1 =>
              LeftFirst(P.search, dies[sel].w) # H.qpi[2]
        BY <1>1, <1>2 DEF Sought
    <2>. QED BY <1>2, <2>1, <2>2 DEF Sought, Can
<1>7. Driven'
    BY <1>2 DEF Driven
<1>. QED BY <1>3, <1>4, <1>6, <1>7 DEF SetupInv

\* What the chip's own plan says of the mode that the chip was left in.
LEMMA ModeIsKnown ==
    ASSUME SetupInv, P.ok, NEW i \in DOMAIN dies, dies[i].w # 1
    PROVE  LET w == dies[i].w
               h == H
               s == P.search
           IN  /\ w \in {2, 4} /\ h.known /\ h.dies = 1 /\ h.qpi[2] \notin {"NONE", "66H_99H"}
               /\ w = 4 => P.qpi[2] = h.qpi[2]
               /\ w = 2 => "EVCR" = h.qpi[2]
               /\ h.data \/ h.qpi[2] \in {LeftFirst(s, w), LeftAgain(s, w)}
<1>1. dies[i].w \in {2, 4} /\ Enters(chip, dies[i].w)
    BY OwnPlan DEF SetupInv, LeftSo, DieStates
<1>2. ModesFit(chip, P) /\ H.known
    BY OwnPlan, PlanFacts DEF SetupInv
<1>3. CASE dies[i].w = 4
    BY <1>1, <1>2, <1>3 DEF ModesFit
<1>4. CASE dies[i].w = 2
    BY <1>1, <1>2, <1>4 DEF ModesFit
<1>. QED BY <1>1, <1>3, <1>4

LEMMA LeaveModeKeeps ==
    ASSUME SetupInv, LeaveMode
    PROVE  SetupInv'
<1>. DEFINE method == LeftFirst(P.search, width)
<1>1. /\ TypeOK /\ LeftSo /\ Sought /\ sel \in DOMAIN dies
      /\ dies \in [DOMAIN dies -> DieStates] /\ left \in 0 .. H.dies
      /\ spi \in DOMAIN Controllers /\ a4b_mode \in BOOLEAN /\ width \in {1, 2, 4}
    BY OwnPlan DEF SetupInv, TypeOK
<1>2. /\ phase = "leave" /\ dies' = Leave(dies, width, method)
      /\ phase' = "spi" /\ again' = TRUE
      /\ UNCHANGED <<chip, reset, sel, spi, left, width, a4b_mode>>
    BY DEF LeaveMode
<1>3. dies[sel].w = width /\ width # 1
    BY <1>1, <1>2 DEF Sought
<1>4. /\ dies' \in [DOMAIN dies -> DieStates]
      /\ \A i \in DOMAIN dies : Milder(dies[i], dies'[i])
      /\ method # "66H_99H" /\ H.known /\ method = H.qpi[2] => dies'[sel].w = 1
    <2>. HIDE DEF method
    <2>. QED BY <1>1, <1>2, <1>3, LeaveFacts
<1>5. TypeOK'
    BY <1>1, <1>2, <1>4, StaysTyped
<1>6. LeftSo'
    BY <1>1, <1>2, <1>4, MildIsLeftSo
<1>7. P.ok /\ dies'[sel].w # 1 => dies'[sel].w = width /\ method # H.qpi[2]
    <2>1. dies'[sel].w \in {1, width}
        BY <1>1, <1>3, <1>4 DEF Milder
    <2>2. P.ok => H.known /\ H.qpi[2] # "66H_99H"
        BY <1>1, <1>3, ModeIsKnown
    <2>. HIDE DEF method
    <2>. QED BY <1>4, <2>1, <2>2
<1>8. Sought'
    BY <1>2, <1>7 DEF Sought
<1>9. Driven'
    BY <1>2 DEF Driven
<1>. QED BY <1>5, <1>6, <1>8, <1>9 DEF SetupInv

-----------------------------------------------------------------------------
(* The chip is set up *)

LEMMA PrepareKeeps ==
    ASSUME SetupInv, Prepare
    PROVE  SetupInv'
<1>. DEFINE by == IF H.data \/ width = 1 THEN "NONE" ELSE LeftAgain(P.search, width)
            w == IF by = "NONE" THEN width ELSE 1
            narrow == Leave(dies, width, by)
            method == P.leaving_4b
            last == IF H.known THEN Without4b(narrow[sel], w, method) ELSE narrow[sel]
<1>1. /\ TypeOK /\ LeftSo /\ Sought /\ sel \in DOMAIN dies
      /\ dies \in [DOMAIN dies -> DieStates] /\ left \in 0 .. H.dies
      /\ spi \in DOMAIN Controllers /\ width \in {1, 2, 4} /\ again \in BOOLEAN
      /\ H.dies \in Nat \ {0}
    BY OwnPlan DEF SetupInv, TypeOK
<1>2. /\ phase = "prepare" /\ dies' = [narrow EXCEPT ![sel] = last]
      /\ width' = (IF method = "CR2V" THEN 1 ELSE w) /\ a4b_mode' = FALSE
      /\ IF P.ok THEN phase' = "die" /\ left' = P.dies ELSE phase' = "refused" /\ left' = 0
      /\ UNCHANGED <<chip, reset, sel, spi, again>>
    BY DEF Prepare
<1>3. dies[sel].w = width /\ (width # 1 => again)
    BY <1>1, <1>2 DEF Sought
<1>4. w \in {1, 2, 4} /\ width' \in {1, 2, 4}
    BY <1>1, <1>2
<1>5. narrow \in [DOMAIN dies -> DieStates] /\ \A i \in DOMAIN dies : Milder(dies[i], narrow[i])
    <2>. HIDE DEF by
    <2>. QED BY <1>1, LeaveFacts
<1>6. Milder(narrow[sel], last)
    <2>1. Milder(narrow[sel], narrow[sel])
        <3>. HIDE DEF narrow
        <3>. QED BY <1>1, <1>5 DEF Milder, DieStates
    <2>2. narrow[sel] \in DieStates
        <3>. HIDE DEF narrow
        <3>. QED BY <1>1, <1>5
    <2>3. Milder(narrow[sel], Without4b(narrow[sel], w, method))
        <3>. HIDE DEF narrow, w, method
        <3>. QED BY <1>4, <2>2, Without4bFacts
    <2>. HIDE DEF narrow, w, method
    <2>. QED BY <2>1, <2>3
<1>7. /\ dies' \in [DOMAIN dies -> DieStates] /\ dies'[sel] = last
      /\ \A i \in DOMAIN dies : Milder(dies[i], dies'[i])
    <2>. HIDE DEF narrow, last
    <2>1. last \in DieStates
        BY <1>6 DEF Milder
    <2>2. Milder(dies[sel], last)
        BY <1>1, <1>5, <1>6, MilderIsTransitive
    <2>. QED BY <1>1, <1>2, <1>5, <2>1, <2>2
<1>8. P.ok => P.dies \in 1 .. H.dies /\ H.known /\ AddressesFit(chip, P)
    BY <1>1, OwnPlan, PlanFacts
<1>9. TypeOK'
    <2>1. left' \in 0 .. H.dies /\ phase' \in {"die", "refused"}
        BY <1>1, <1>2, <1>8
    <2>. QED BY <1>1, <1>2, <1>4, <1>7, <2>1, StaysTyped
<1>10. LeftSo'
    BY <1>1, <1>2, <1>7, MildIsLeftSo
<1>11. Sought'
    BY <1>2 DEF Sought
<1>12. ASSUME P.ok
       PROVE  narrow[sel].w = w
    <2>1. CASE width = 1
        <3>1. narrow[sel].w \in {1, dies[sel].w}
            <4>. HIDE DEF narrow
            <4>. QED BY <1>1, <1>5 DEF Milder
        <3>. HIDE DEF narrow
        <3>. QED BY <1>3, <2>1, <3>1
    <2>2. CASE width # 1
        <3>1. /\ H.known /\ H.qpi[2] \notin {"NONE", "66H_99H"}
              /\ \/ H.data
                 \/ H.qpi[2] \in {LeftFirst(P.search, width),
                                        LeftAgain(P.search, width)}
            BY <1>1, <1>3, <1>12, <2>2, ModeIsKnown
        <3>2. CASE H.data
            <4>1. by = "NONE" /\ w = width
                BY <3>2
            <4>2. by # "66H_99H" /\ by # H.qpi[2]
                BY <3>1, <4>1
            <4>3. narrow[sel] = dies[sel]
                <5>. HIDE DEF by
                <5>. QED BY <1>1, <1>3, <4>2, LeaveFacts
            <4>. QED BY <1>3, <4>1, <4>3
        <3>3. CASE ~H.data
            <4>1. LeftFirst(P.search, width) # H.qpi[2]
                BY <1>1, <1>2, <1>3, <1>12, <2>2 DEF Sought
            <4>2. by = H.qpi[2]
                BY <2>2, <3>1, <3>3, <4>1
            <4>3. by # "66H_99H" /\ w = 1
                BY <3>1, <4>2
            <4>4. narrow[sel].w = 1
                <5>. HIDE DEF by
                <5>. QED BY <1>1, <1>3, <3>1, <4>2, <4>3, LeaveFacts
            <4>. QED BY <4>3, <4>4
        <3>. QED BY <3>2, <3>3
    <2>. QED BY <2>1, <2>2
<1>13. ASSUME P.ok
       PROVE  /\ dies'[sel].w = width'
              /\ H.dies = 1 /\ P.a4b = "none" /\ dies'[sel].a4 =>
                     P.restores_3b /\ "B7H_E9H" \in H.four
    <2>1. narrow[sel] \in DieStates /\ last = Without4b(narrow[sel], w, method)
        <3>. HIDE DEF narrow, w, method
        <3>. QED BY <1>1, <1>5, <1>8, <1>13
    <2>2. /\ last.w = IF method = "CR2V" THEN 1 ELSE w
          /\ Leaves4b(method) => ~last.a4
        <3>1. narrow[sel].w = w
            BY <1>12, <1>13
        <3>. DEFINE after == Without4b(narrow[sel], w, method)
        <3>2. /\ after.w = IF method = "CR2V" THEN 1 ELSE w
              /\ Leaves4b(method) => after.a4 = FALSE
            <4>. HIDE DEF narrow, w, method
            <4>. QED BY <1>4, <2>1, <3>1, Without4bFacts
        <3>. HIDE DEF narrow, w, method, last
        <3>. QED BY <2>1, <3>2
    <2>3. dies'[sel].a4 => Enters4b(chip)
        BY <1>1, <1>2, <1>7, <1>10 DEF LeftSo, Enters4b, Plans
    <2>4. H.dies = 1 /\ P.a4b = "none" /\ Enters4b(chip) =>
              Leaves4b(method) \/ (P.restores_3b /\ "B7H_E9H" \in H.four)
        BY <1>8, <1>13 DEF AddressesFit, Leaves4b
    <2>. HIDE DEF narrow, w, method, last
    <2>. QED BY <1>2, <1>7, <2>2, <2>3, <2>4
<1>14. Driven'
    <2>1. CASE P.ok
        <3>1. phase' = "die" /\ left' = P.dies /\ a4b_mode' = FALSE /\ UNCHANGED <<chip, spi, sel>>
            BY <1>2, <2>1
        <3>2. P.dies \in Nat \ {0}
            BY <1>1, <1>8, <2>1
        <3>. HIDE DEF narrow, w, method, last
        <3>. QED BY <1>13, <2>1, <3>1, <3>2 DEF Driven
    <2>2. CASE ~P.ok
        BY <1>2, <2>2 DEF Driven
    <2>. QED BY <2>1, <2>2
<1>. QED BY <1>9, <1>10, <1>11, <1>14 DEF SetupInv

LEMMA SetupDieKeeps ==
    ASSUME SetupInv, SetupDie
    PROVE  SetupInv'
<1>. DEFINE k == left - 1
            d == dies[k]
            by == IF width = 4 THEN P.qpi[2] ELSE IF width = 2 THEN "EVCR" ELSE "NONE"
            set == [d EXCEPT !.qe = QeAfterSetup(QeAfterWriteSr(@)), !.dc = DcAfterSetup(@)]
            narrow == Took(d, width, Narrowed(set, width, by))
            last == Took(narrow, 1, [narrow EXCEPT !.a4 = A4bAfterSetup(@)])
<1>1. /\ TypeOK /\ LeftSo /\ Driven /\ sel \in DOMAIN dies
      /\ dies \in [0 .. H.dies - 1 -> DieStates] /\ spi \in DOMAIN Controllers
      /\ width \in {1, 2, 4} /\ again \in BOOLEAN /\ a4b_mode \in BOOLEAN /\ H.dies \in Nat \ {0}
    BY OwnPlan DEF SetupInv, TypeOK
<1>2. /\ phase = "die" /\ sel' = k /\ dies' = [dies EXCEPT ![k] = last] /\ width' = 1
      /\ a4b_mode' = (a4b_mode \/ P.a4b # "none") /\ left' = k
      /\ phase' = (IF left = 1 THEN "ready" ELSE "die")
      /\ UNCHANGED <<chip, reset, spi, again>>
    BY DEF SetupDie
<1>3. /\ P.ok /\ dies[sel].w = width /\ left \in 1 .. P.dies
      /\ \A i \in left .. P.dies - 1 : DieReady(dies[i])
      /\ a4b_mode => P.a4b # "none"
      /\ H.dies = 1 /\ P.a4b = "none" /\ dies[sel].a4 =>
             P.restores_3b /\ "B7H_E9H" \in H.four
    BY <1>1, <1>2 DEF Driven
<1>4. /\ P.dies \in 1 .. H.dies /\ H.known
      /\ ModesFit(chip, P) /\ ClocksFit(chip, P)
      /\ P.a4b # "none" => Enters4b(chip)
      /\ P.dc # "none" => P.read.idx \in ClocksSet(chip)
    BY <1>1, <1>3, OwnPlan, PlanFacts
<1>5. k \in DOMAIN dies /\ d \in DieStates /\ k \in 0 .. P.dies - 1
    BY <1>1, <1>3, <1>4
<1>6. d.w = width /\ (H.dies = 1 => k = sel)
    BY <1>1, <1>3, <1>5, StackedAreNarrow DEF DieStates
<1>7. /\ set \in DieStates /\ set.w = width /\ set.a4 = d.a4
      /\ set.qe = QeAfterSetup(QeAfterWriteSr(d.qe)) /\ set.dc = DcAfterSetup(d.dc)
    <2>1. DcAfterSetup(d.dc) \in Int
        BY <1>4, <1>5 DEF DieStates, DcAfterSetup, ClocksFit
    <2>2. QeAfterSetup(QeAfterWriteSr(d.qe)) \in BOOLEAN
        BY <1>5 DEF DieStates, QeAfterSetup, QeAfterWriteSr
    <2>. HIDE DEF d
    <2>. QED BY <1>5, <1>6, <2>1, <2>2 DEF DieStates
<1>8. narrow = [set EXCEPT !.w = 1]
    <2>1. narrow = Narrowed(set, width, by)
        BY <1>6 DEF Took
    <2>2. CASE width = 1
        <3>1. Narrowed(set, width, by) \in {set, [set EXCEPT !.w = 1]}
            BY DEF Narrowed, Took
        <3>. HIDE DEF set, by, narrow
        <3>2. set = [set EXCEPT !.w = 1]
            BY <1>7, <2>2 DEF DieStates
        <3>. QED BY <2>1, <3>1, <3>2
    <2>3. CASE width # 1
        <3>1. by = H.qpi[2]
            BY <1>1, <1>3, <2>3, ModeIsKnown
        <3>. HIDE DEF set, by, narrow
        <3>. QED BY <1>1, <1>4, <1>7, <2>1, <3>1, NarrowedFacts
    <2>. QED BY <2>2, <2>3
<1>9. /\ last \in DieStates /\ last.w = 1 /\ last.dc = DcAfterSetup(d.dc)
      /\ last.a4 = A4bAfterSetup(d.a4) /\ last.qe = QeAfterSetup(QeAfterWriteSr(d.qe))
    <2>1. narrow \in DieStates /\ narrow.w = 1 /\ narrow.a4 = d.a4 /\ narrow.dc = set.dc /\ narrow.qe = set.qe
        <3>. HIDE DEF set, narrow, d
        <3>. QED BY <1>7, <1>8 DEF DieStates
    <2>2. last = [narrow EXCEPT !.a4 = A4bAfterSetup(d.a4)]
        <3>. HIDE DEF narrow, d
        <3>. QED BY <2>1 DEF Took
    <2>3. A4bAfterSetup(d.a4) \in BOOLEAN
        BY <1>5 DEF DieStates, A4bAfterSetup
    <2>. HIDE DEF set, narrow, d, last
    <2>. QED BY <1>7, <2>1, <2>2, <2>3 DEF DieStates
<1>10. dies' \in [DOMAIN dies -> DieStates] /\ \A i \in DOMAIN dies : dies'[i] = IF i = k THEN last ELSE dies[i]
    <2>. HIDE DEF last, k
    <2>. QED BY <1>1, <1>2, <1>5, <1>9
<1>11. TypeOK'
    <2>1. /\ k \in 0 .. H.dies /\ a4b_mode' \in BOOLEAN /\ phase' \in {"die", "ready"} /\ width' = 1
        BY <1>1, <1>2, <1>5
    <2>. QED BY <1>1, <1>2, <1>5, <1>10, <2>1, StaysTyped
<1>12. LeftSo'
    <2>1. /\ last.a4 => Enters4b(chip)
          /\ last.dc # Factory => last.dc \in ClocksSet(chip)
        <3>1. d.a4 => Enters4b(chip)
            BY <1>1, <1>5 DEF LeftSo
        <3>2. d.dc # Factory => d.dc \in ClocksSet(chip)
            BY <1>1, <1>5 DEF LeftSo
        <3>. HIDE DEF last, d
        <3>. QED BY <1>4, <1>9, <3>1, <3>2 DEF A4bAfterSetup, DcAfterSetup
    <2>2. \A i \in DOMAIN dies' :
              /\ dies'[i].w # 1 => Enters(chip, dies'[i].w)
              /\ dies'[i].a4 => Enters4b(chip)
              /\ dies'[i].dc # Factory => dies'[i].dc \in ClocksSet(chip)
        <3>. HIDE DEF last, k
        <3>. QED BY <1>1, <1>9, <1>10, <2>1 DEF LeftSo
    <2>3. UNCHANGED chip
        BY <1>2
    <2>. HIDE DEF last, k, d, set, narrow, by
    <2>. QED BY <2>2, <2>3 DEF LeftSo
<1>13. Sought'
    BY <1>2 DEF Sought
<1>14. DieReady(last)
    <2>1. QuadData => QuadWorks(last)
        BY <1>4, <1>9 DEF QuadData, QuadWorks, ModesFit, QeAfterSetup
    <2>2. /\ P.a4b # "none" => last.a4
          /\ P.a4b = "none" /\ H.dies = 1 => ~last.a4
        <3>1. H.dies = 1 => d = dies[sel]
            BY <1>6
        <3>. HIDE DEF last, d
        <3>. QED BY <1>3, <1>9, <3>1 DEF A4bAfterSetup
    <2>3. P.dc \in {"acc", "c0h"} => last.dc = P.read.idx
        BY <1>9 DEF DcAfterSetup
    <2>. HIDE DEF last
    <2>. QED BY <2>1, <2>2, <2>3 DEF DieReady
<1>15. Driven'
    <2>1. \A i \in k .. P.dies - 1 : DieReady(dies'[i])
        <3>1. \A i \in k .. P.dies - 1 : i \in DOMAIN dies /\ (i = k \/ i \in left .. P.dies - 1)
            BY <1>1, <1>3, <1>4, <1>5
        <3>. HIDE DEF last, k
        <3>. QED BY <1>3, <1>10, <1>14, <3>1
    <2>2. UNCHANGED <<chip, spi>>
        BY <1>2
    <2>3. \A i \in left' .. P'.dies - 1 : DieReady(dies[i])'
        <3>1. left' = k /\ P' = P
            BY <1>2
        <3>2. \A i \in k .. P.dies - 1 : DieReady(dies[i])'
            <4>. HIDE DEF last, k
            <4>. QED BY <2>1, <2>2 DEF DieReady, QuadData, QuadWorks
        <3>. HIDE DEF last, k
        <3>. QED BY <3>1, <3>2
    <2>4. left' < P.dies /\ sel' < P.dies
        BY <1>2, <1>4, <1>5
    <2>5. dies'[sel'].w = 1
        <3>. HIDE DEF last, k
        <3>. QED BY <1>2, <1>5, <1>9, <1>10
    <2>6. phase' = "die" => left' \in 1 .. P.dies /\ H.dies # 1
        BY <1>1, <1>2, <1>3, <1>4
    <2>7. phase' = "ready" => left' = 0
        BY <1>2, <1>3
    <2>8. a4b_mode' <=> P.a4b # "none"
        BY <1>2, <1>3
    <2>9. phase' \in {"die", "ready"} /\ width' = 1
        BY <1>2
    <2>. HIDE DEF last, k, d, set, narrow, by
    <2>. QED BY <1>3, <2>2, <2>3, <2>4, <2>5, <2>6, <2>7, <2>8, <2>9 DEF Driven
<1>. QED BY <1>11, <1>12, <1>13, <1>15 DEF SetupInv

-----------------------------------------------------------------------------
(* The chip is read *)

\* All that a step of a chip in service needs to keep.
LEMMA ServiceKeeps ==
    ASSUME SetupInv, phase \in {"ready", "reading"}, phase' \in {"ready", "reading"},
           UNCHANGED <<chip, reset, spi, again, left, a4b_mode>>,
           dies' \in [DOMAIN dies -> DieStates], LeftSo', width' \in {1, 2, 4},
           sel' \in DOMAIN dies, sel' < P.dies, dies'[sel'].w = width',
           \A i \in DOMAIN dies :
               /\ dies'[i].a4 = dies[i].a4 /\ dies'[i].qe = dies[i].qe
               /\ P.dc \in {"acc", "c0h"} => dies'[i].dc = dies[i].dc,
           phase' = "ready" => width' = 1,
           phase' = "reading" => /\ width' = CmdBw(P.read.io)
                                 /\ P.dc = "srp" => dies'[sel'].dc = P.read.idx
    PROVE  SetupInv'
<1>1. /\ TypeOK /\ LeftSo /\ Driven /\ left \in 0 .. H.dies
      /\ dies \in [0 .. H.dies - 1 -> DieStates] /\ spi \in DOMAIN Controllers
      /\ again \in BOOLEAN /\ a4b_mode \in BOOLEAN /\ H.dies \in Nat
    BY OwnPlan DEF SetupInv, TypeOK
<1>2. TypeOK'
    BY <1>1, StaysTyped
<1>3. Sought'
    BY DEF Sought
<1>4. /\ P.ok /\ left = 0 /\ \A i \in 0 .. P.dies - 1 : DieReady(dies[i])
      /\ a4b_mode <=> left < P.dies /\ P.a4b # "none"
    BY <1>1 DEF Driven
<1>5. P.dies \in 1 .. H.dies
    BY <1>1, <1>4, OwnPlan, PlanFacts
<1>6. \A i \in 0 .. P.dies - 1 : DieReady(dies[i])'
    <2>1. \A i \in 0 .. P.dies - 1 : i \in DOMAIN dies
        BY <1>1, <1>5
    <2>. QED BY <1>4, <2>1 DEF DieReady, QuadData, QuadWorks
<1>7. Driven'
    BY <1>4, <1>6 DEF Driven
<1>. QED BY <1>2, <1>3, <1>7 DEF SetupInv

LEMMA StartReadKeeps ==
    ASSUME SetupInv, StartRead
    PROVE  SetupInv'
<1>. DEFINE w == CmdBw(P.read.io)
            d == dies[sel]
            srp == w = 4 /\ P.dc = "srp"
            dc == IF srp THEN P.read.idx ELSE d.dc
            taken == w = 2 \/ (w = 4 /\ P.qpi[1] = H.qpi[1]
                                 /\ (H.qpi[1] = "38H" => QuadWorks(d)))
            widened == IF taken THEN [d EXCEPT !.w = w, !.dc = dc] ELSE d
            last == Took(d, width, widened)
<1>1. /\ TypeOK /\ LeftSo /\ Driven /\ sel \in DOMAIN dies
      /\ dies \in [0 .. H.dies - 1 -> DieStates]
    BY OwnPlan DEF SetupInv, TypeOK
<1>2. /\ phase = "ready" /\ phase' = "reading" /\ width' = w
      /\ UNCHANGED <<chip, reset, sel, spi, again, left, a4b_mode>>
    BY DEF StartRead
<1>3. dies' = [dies EXCEPT ![sel] = last]
    BY DEF StartRead
<1>4. /\ P.ok /\ d.w = width /\ width = 1 /\ sel < P.dies
      /\ sel \in 0 .. P.dies - 1 => DieReady(d)
    BY <1>1, <1>2 DEF Driven
<1>5. /\ w \in {1, 2, 4} /\ Enters(chip, w) /\ (w = 4 => UsesQuad(P))
      /\ P.dc # "none" => P.read.idx \in ClocksSet(chip)
      /\ ModesFit(chip, P) /\ ClocksFit(chip, P)
      /\ P.dies \in 1 .. H.dies
    BY <1>1, <1>4, OwnPlan, PlanFacts
<1>6. d \in DieStates /\ sel \in 0 .. P.dies - 1
    BY <1>1, <1>4, <1>5
<1>7. w = 4 => taken
    <2>1. w = 4 => P.qpi[1] = H.qpi[1]
        BY <1>5 DEF ModesFit
    <2>2. w = 4 => QuadWorks(d)
        BY <1>4, <1>5, <1>6 DEF DieReady, QuadData
    <2>. QED BY <2>1, <2>2
<1>8. dc \in Int /\ (srp <=> P.dc = "srp")
    BY <1>5, <1>6 DEF ClocksFit, DieStates
<1>9. /\ last \in DieStates /\ last.w = w /\ last.a4 = d.a4 /\ last.qe = d.qe
      /\ last.dc = dc
    <2>1. last = widened
        BY <1>4 DEF Took
    <2>2. CASE taken
        <3>1. last = [d EXCEPT !.w = w, !.dc = dc]
            BY <2>1, <2>2
        <3>. HIDE DEF w, d, dc, last
        <3>. QED BY <1>5, <1>6, <1>8, <3>1 DEF DieStates
    <2>3. CASE ~taken
        <3>1. last = d /\ w = 1 /\ dc = d.dc
            BY <1>5, <1>7, <2>1, <2>3
        <3>. HIDE DEF w, d, dc, last
        <3>. QED BY <1>4, <1>6, <3>1
    <2>. QED BY <2>2, <2>3
<1>10. /\ dies' \in [DOMAIN dies -> DieStates] /\ dies'[sel] = last
       /\ \A i \in DOMAIN dies : dies'[i] = IF i = sel THEN last ELSE dies[i]
    <2>. HIDE DEF last
    <2>. QED BY <1>1, <1>3, <1>9
<1>11. LeftSo'
    <2>1. /\ last.w # 1 => Enters(chip, last.w)
          /\ last.a4 => Enters4b(chip)
          /\ last.dc # Factory => last.dc \in ClocksSet(chip)
        <3>1. (d.a4 => Enters4b(chip)) /\ (d.dc # Factory => d.dc \in ClocksSet(chip))
            BY <1>1 DEF LeftSo
        <3>2. dc = d.dc \/ (P.dc # "none" /\ dc = P.read.idx)
            OBVIOUS
        <3>. HIDE DEF w, d, dc, last
        <3>. QED BY <1>5, <1>9, <3>1, <3>2
    <2>2. UNCHANGED chip
        BY <1>2
    <2>. HIDE DEF last
    <2>. QED BY <1>1, <1>10, <2>1, <2>2 DEF LeftSo
<1>12. \A i \in DOMAIN dies :
           /\ dies'[i].a4 = dies[i].a4 /\ dies'[i].qe = dies[i].qe
           /\ P.dc \in {"acc", "c0h"} => dies'[i].dc = dies[i].dc
    <2>1. P.dc \in {"acc", "c0h"} => dc = d.dc
        OBVIOUS
    <2>. HIDE DEF last, dc
    <2>. QED BY <1>9, <1>10, <2>1
<1>13. P.dc = "srp" => dies'[sel].dc = P.read.idx
    <2>. HIDE DEF last
    <2>. QED BY <1>8, <1>9, <1>10
<1>. HIDE DEF last
<1>. QED BY <1>1, <1>2, <1>4, <1>5, <1>9, <1>10, <1>11, <1>12, <1>13, ServiceKeeps

LEMMA EndReadKeeps ==
    ASSUME SetupInv, EndRead
    PROVE  SetupInv'
<1>1. /\ TypeOK /\ LeftSo /\ Driven /\ sel \in DOMAIN dies
      /\ dies \in [DOMAIN dies -> DieStates]
    BY OwnPlan DEF SetupInv, TypeOK
<1>2. /\ phase = "reading" /\ phase' = "ready" /\ width' = 1
      /\ UNCHANGED <<chip, reset, sel, spi, again, left, a4b_mode>>
    BY DEF EndRead
<1>3. P.ok /\ dies[sel].w = width /\ sel < P.dies
    BY <1>1, <1>2 DEF Driven
<1>4. /\ dies' \in [DOMAIN dies -> DieStates] /\ dies'[sel].w = 1
      /\ \A i \in DOMAIN dies : OnlyNarrower(dies[i], dies'[i])
    <2>1. CASE width = 4
        <3>1. /\ H.known /\ H.qpi[2] # "66H_99H" /\ P.qpi[2] = H.qpi[2]
            BY <1>1, <1>3, <2>1, ModeIsKnown
        <3>2. dies' = Leave(dies, 4, P.qpi[2])
            BY <2>1 DEF EndRead
        <3>. QED BY <1>1, <1>3, <2>1, <3>1, <3>2, LeaveFacts
    <2>2. CASE width = 2
        <3>1. dies' = [dies EXCEPT ![sel] = [dies[sel] EXCEPT !.w = 1]]
            BY <1>3, <2>2 DEF EndRead, Took
        <3>2. OnlyNarrower(dies[sel], [dies[sel] EXCEPT !.w = 1]) /\ [dies[sel] EXCEPT !.w = 1].w = 1
            BY <1>1 DEF OnlyNarrower, DieStates
        <3>3. \A i \in DOMAIN dies : OnlyNarrower(dies[i], dies[i])
            BY <1>1 DEF OnlyNarrower, DieStates
        <3>. DEFINE last == [dies[sel] EXCEPT !.w = 1]
        <3>4. last \in DieStates
            BY <3>2 DEF OnlyNarrower
        <3>. HIDE DEF last
        <3>. QED BY <1>1, <3>1, <3>2, <3>3, <3>4 DEF last
    <2>3. CASE width = 1
        <3>1. dies' = dies
            BY <2>3 DEF EndRead
        <3>. QED BY <1>1, <1>3, <2>3, <3>1 DEF OnlyNarrower, DieStates
    <2>. QED BY <1>1, <2>1, <2>2, <2>3 DEF TypeOK
<1>5. LeftSo'
    BY <1>1, <1>2, <1>4, MildIsLeftSo DEF OnlyNarrower, Milder
<1>. QED BY <1>1, <1>2, <1>3, <1>4, <1>5, ServiceKeeps DEF OnlyNarrower

LEMMA SelectDieKeeps ==
    ASSUME SetupInv, NEW i \in DOMAIN dies, SelectDie(i)
    PROVE  SetupInv'
<1>1. /\ TypeOK /\ LeftSo /\ Driven /\ sel \in DOMAIN dies
      /\ dies \in [DOMAIN dies -> DieStates]
    BY OwnPlan DEF SetupInv, TypeOK
<1>2. /\ phase = "ready" /\ sel' = i /\ i < P.dies
      /\ UNCHANGED <<chip, reset, dies, spi, phase, again, left, width, a4b_mode>>
    BY DEF SelectDie
<1>3. dies[sel].w = 1 /\ width = 1
    BY <1>1, <1>2 DEF Driven
<1>4. dies[i].w = 1
    BY <1>1, <1>3, StackedAreNarrow
<1>5. LeftSo'
    <2>1. UNCHANGED <<chip, dies>>
        BY <1>2
    <2>. QED BY <1>1, <2>1 DEF LeftSo
<1>. QED BY <1>1, <1>2, <1>3, <1>4, <1>5, ServiceKeeps

-----------------------------------------------------------------------------
(* The theorems *)

LEMMA SetupStepKeeps ==
    ASSUME SetupInv, [Next]_vars
    PROVE  SetupInv'
<1>1. CASE UNCHANGED vars
    <2>1. UNCHANGED <<chip, reset, dies, sel, spi, phase, again, left, width, a4b_mode>>
        BY <1>1 DEF vars
    <2>2. TypeOK'
        BY <2>1 DEF SetupInv, TypeOK
    <2>3. LeftSo'
        BY <2>1 DEF SetupInv, LeftSo
    <2>4. Sought'
        BY <2>1 DEF SetupInv, Sought, Can
    <2>5. Driven'
        <3>1. \A i \in left .. P.dies - 1 : DieReady(dies[i])' <=> DieReady(dies[i])
            BY <2>1 DEF DieReady, QuadData, QuadWorks
        <3>. QED BY <2>1, <3>1 DEF SetupInv, Driven
    <2>. QED BY <2>2, <2>3, <2>4, <2>5 DEF SetupInv
<1>2. CASE \E c \in DOMAIN Controllers : Start(c)
    BY <1>2, StartKeeps
<1>3. CASE SearchSpi
    BY <1>3, SearchSpiKeeps
<1>4. CASE SearchQpi \/ SearchDpi
    BY <1>4, SearchWiderKeeps
<1>5. CASE LeaveMode
    BY <1>5, LeaveModeKeeps
<1>6. CASE Prepare
    BY <1>6, PrepareKeeps
<1>7. CASE SetupDie
    BY <1>7, SetupDieKeeps
<1>8. CASE StartRead
    BY <1>8, StartReadKeeps
<1>9. CASE EndRead
    BY <1>9, EndReadKeeps
<1>10. CASE \E i \in DOMAIN dies : SelectDie(i)
    BY <1>10, SelectDieKeeps
<1>. QED BY <1>1, <1>2, <1>3, <1>4, <1>5, <1>6, <1>7, <1>8, <1>9, <1>10 DEF Next

\* SetupInv always holds of chips that their plans fit.
THEOREM SetupIsInductive == Spec => []SetupInv
<1>1. Init => SetupInv
    BY InitIsInv
<1>2. SetupInv /\ [Next]_vars => SetupInv'
    BY SetupStepKeeps
<1>. QED BY <1>1, <1>2, PTL DEF Spec

LEMMA InvFindsLeftovers ==
    ASSUME SetupInv
    PROVE  LeftoversAreFound
BY DEF SetupInv, Sought, Driven, LeftoversAreFound

\* What holds of the dies of a chip in service.
LEMMA InService ==
    ASSUME SetupInv, phase \in {"ready", "reading"}
    PROVE  /\ LeftSo /\ P.ok /\ sel \in DOMAIN dies /\ sel < P.dies
           /\ dies \in [DOMAIN dies -> DieStates]
           /\ \A i \in DOMAIN dies : i < P.dies => DieReady(dies[i])
           /\ \A i \in DOMAIN dies :
                  ~(i < P.dies) => H.qe \notin QeTypes /\ P.a4b = "none"
           /\ a4b_mode <=> P.a4b # "none"
<1>1. /\ TypeOK /\ LeftSo /\ Driven /\ sel \in 0 .. H.dies - 1
      /\ dies \in [0 .. H.dies - 1 -> DieStates] /\ H.dies \in Nat
    BY OwnPlan DEF SetupInv
<1>2. /\ P.ok /\ left = 0 /\ sel < P.dies
      /\ \A i \in 0 .. P.dies - 1 : DieReady(dies[i])
      /\ a4b_mode <=> 0 < P.dies /\ P.a4b # "none"
    BY <1>1 DEF Driven
<1>3. P.dies \in 1 .. H.dies /\ DiesFit(chip, P)
    BY <1>1, <1>2, OwnPlan, PlanFacts
<1>4. \A i \in DOMAIN dies : i < P.dies => i \in 0 .. P.dies - 1
    BY <1>1, <1>3
<1>5. \A i \in DOMAIN dies : ~(i < P.dies) => H.qe \notin QeTypes /\ P.a4b = "none"
    BY <1>1, <1>3 DEF DiesFit
<1>. QED BY <1>1, <1>2, <1>3, <1>4, <1>5

LEMMA InvAgreesOnAddresses ==
    ASSUME SetupInv
    PROVE  AddressesAgree
<1>. SUFFICES ASSUME phase \in {"ready", "reading"}
              PROVE  /\ \A i \in DOMAIN dies, opcode \in P.opcodes \ Excepted :
                            AddressBytes(dies[i], opcode) = P.naddr
                     /\ H.dies = 1 => dies[sel].a4 = a4b_mode
                     /\ dies[sel].w = 4 /\ H.no_four_in_qpi =>
                            P.read_opcode \notin OpcodesOf4b
    BY DEF AddressesAgree
<1>1. /\ AddressesFit(chip, P) /\ H.known
      /\ P.a4b # "none" => Enters4b(chip)
    BY InService, OwnPlan, PlanFacts DEF SetupInv
<1>2. ASSUME NEW i \in DOMAIN dies, NEW opcode \in P.opcodes \ Excepted
      PROVE  AddressBytes(dies[i], opcode) = P.naddr
    <2>1. opcode \in P.opcodes \ (IF chip.hw.xtx THEN {\h32} ELSE {})
        BY DEF Excepted
    <2>2. CASE P.naddr = 3
        <3>1. ~Always4b /\ ~Enters4b(chip) /\ opcode \notin OpcodesOf4b
            BY <1>1, <2>1, <2>2 DEF AddressesFit, Always4b
        <3>2. ~dies[i].a4
            BY <3>1, InService DEF LeftSo
        <3>. QED BY <2>2, <3>1, <3>2 DEF AddressBytes
    <2>3. CASE P.naddr # 3
        <3>1. /\ P.naddr = 4
              /\ P.a4b # "none" \/ Always4b \/ opcode \in OpcodesOf4b
            BY <1>1, <2>1, <2>3 DEF AddressesFit, Always4b
        <3>2. P.a4b # "none" => dies[i].a4
            BY InService DEF DieReady
        <3>. QED BY <3>1, <3>2 DEF AddressBytes
    <2>. QED BY <2>2, <2>3
<1>3. H.dies = 1 => dies[sel].a4 = a4b_mode
    <2>1. sel \in DOMAIN dies /\ sel < P.dies /\ dies[sel].a4 \in BOOLEAN
        BY InService DEF DieStates
    <2>2. DieReady(dies[sel]) /\ (a4b_mode <=> P.a4b # "none")
        BY <2>1, InService
    <2>3. a4b_mode \in BOOLEAN
        BY DEF SetupInv, TypeOK
    <2>. QED BY <2>1, <2>2, <2>3 DEF DieReady
<1>4. dies[sel].w = 4 => CmdBw(P.read.io) = 4
    BY DEF SetupInv, Driven
<1>5. dies[sel].w = 4 /\ H.no_four_in_qpi => P.read_opcode \notin OpcodesOf4b
    BY <1>1, <1>4 DEF AddressesFit
<1>. QED BY <1>2, <1>3, <1>5

LEMMA InvAgreesOnTransfers ==
    ASSUME SetupInv
    PROVE  TransfersAgree
<1>1. ASSUME phase = "reading", P.read.io \in DOMAIN H.dc
      PROVE  IF dies[sel].dc = Factory THEN P.read.mhz = 0
             ELSE WaitClocks(H, P.read.io, dies[sel].dc) = {P.read.clocks}
    <2>1. ClocksFit(chip, P)
        BY <1>1, InService, OwnPlan, PlanFacts DEF SetupInv
    <2>2. sel \in DOMAIN dies /\ sel < P.dies
        BY <1>1, InService
    <2>3. CASE P.dc = "none"
        <3>1. dies[sel].dc # Factory => dies[sel].dc \in ClocksSet(chip)
            BY <1>1, <2>2, InService DEF LeftSo
        <3>. QED BY <1>1, <2>1, <2>3, <3>1 DEF ClocksFit
    <2>4. CASE P.dc # "none"
        <3>1. dies[sel].dc = P.read.idx
            <4>1. CASE P.dc \in {"acc", "c0h"}
                BY <1>1, <2>2, <4>1, InService DEF DieReady
            <4>2. CASE P.dc = "srp"
                BY <1>1, <4>2 DEF SetupInv, Driven
            <4>. QED BY <2>1, <2>4, <4>1, <4>2 DEF ClocksFit
        <3>2. dies[sel].dc # Factory
            BY <2>1, <3>1 DEF ClocksFit, Factory
        <3>. QED BY <1>1, <2>1, <2>4, <3>1, <3>2 DEF ClocksFit
    <2>. QED BY <2>3, <2>4
<1>2. ASSUME phase \in {"ready", "reading"}, QuadData, NEW i \in DOMAIN dies
      PROVE  QuadWorks(dies[i])
    BY <1>2, InService DEF DieReady, QuadWorks
<1>. QED BY <1>1, <1>2 DEF TransfersAgree

\* The variables keep their types: a die's width, its address mode and its wait clocks
\* stay those of a chip, whatever the driver sends.
THEOREM TypeCorrect == Spec => []TypeOK
<1>1. SetupInv => TypeOK
    BY DEF SetupInv
<1>. QED BY <1>1, SetupIsInductive, PTL

\* However a process has left a chip, the next one finds it, if its controller can send
\* commands as wide, and then sends every command as wide as the selected die takes it.
THEOREM LeftoversAlwaysFound == Spec => []LeftoversAreFound
<1>1. SetupInv => LeftoversAreFound
    BY InvFindsLeftovers
<1>. QED BY <1>1, SetupIsInductive, PTL

\* As many address bytes are sent as every die expects, and a4b_mode is the mode the
\* chip is in, whatever mode a process before had put it in.
THEOREM AddressesAlwaysAgree == Spec => []AddressesAgree
<1>1. SetupInv => AddressesAgree
    BY InvAgreesOnAddresses
<1>. QED BY <1>1, SetupIsInductive, PTL

\* The wait clocks counted in a read are those that the chip is set to, and where four
\* lines carry data they are enabled in every die.
THEOREM TransfersAlwaysAgree == Spec => []TransfersAgree
<1>1. SetupInv => TransfersAgree
    BY InvAgreesOnTransfers
<1>. QED BY <1>1, SetupIsInductive, PTL
=============================================================================
