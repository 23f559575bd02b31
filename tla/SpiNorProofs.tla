---------------------------- MODULE SpiNorProofs ----------------------------
(***************************************************************************)
(* Theorems about SpiNor, for any chips, any commands, operations of any   *)
(* length and any number of failures.                                      *)
(***************************************************************************)
EXTENDS SpiNor, SequenceTheorems, TLAPS

JobRecords ==
    [kind : {"read", "write", "verify", "erase"}, data : {"file", "backup", "none"},
     addr : Nat, left : Int]

\* What a step needs to know of the command: that it is about dies of the chip,
\* and that its jobs have addresses.
Framed ==
    /\ part \in Parts
    /\ req \in CommandRecords /\ jobs \in Seq(JobRecords)
    /\ pc = "run" => req.die < part.dies

\* The inductive invariant.
Inv ==
    /\ Framed
    /\ sel \in Dies /\ curr_die \in Dies
    /\ ear \in [Dies -> Nat] /\ curr_high_addr \in Nat
    /\ CacheTrue

-----------------------------------------------------------------------------
(* Numbers and regions *)

LEMMA Division ==
    ASSUME NEW a \in Nat, NEW n \in Nat \ {0}
    PROVE  a \div n \in Nat /\ a % n \in 0 .. n - 1
BY SMTT(30)

LEMMA Remainder ==
    ASSUME NEW a \in Nat, NEW n \in Nat \ {0}
    PROVE  a % n \in Nat /\ a % n <= a
BY SMTT(30)

LEMMA Quotient ==
    ASSUME NEW a \in Nat, NEW n \in Nat \ {0}, NEW m \in Nat, a < m * n
    PROVE  a \div n < m
BY SMTT(30)

LEMMA Product ==
    ASSUME NEW a \in Int, NEW n \in Int
    PROVE  a * n \in Int /\ (a \in Nat /\ n \in Nat => a * n \in Nat)
BY SMTT(30)

LEMMA PartFacts ==
    ASSUME part \in Parts
    PROVE  /\ part.dies \in Nat \ {0} /\ part.size \in Nat \ {0}
           /\ part.window \in Nat /\ part.page \in Nat \ {0}
           /\ part.regions \in Seq(Regions) /\ part.regions # <<>>
           /\ part.dies = 1 \/ part.window = 0
           /\ 0 \in Dies
BY PartsAssumption DEF PartRecords, Dies

\* Regions follow each other, so that the region found at an address is one of
\* the part and has a smallest erase type; what it is rounded to is a number.
LEMMA RegionFacts ==
    ASSUME part \in Parts, NEW i \in 1 .. Len(part.regions)
    PROVE  /\ part.regions[i] \in Regions
           /\ part.regions[i].base \in Nat /\ part.regions[i].size \in Nat \ {0}
           /\ MinEraseSize(part.regions[i]) \in Nat \ {0}
<1>1. /\ part.regions \in Seq(Regions) /\ part.regions[i] \in Regions
    BY PartFacts, ElementOfSeq
<1>2. /\ part.regions[i].base \in Nat /\ part.regions[i].size \in Nat \ {0}
      /\ part.regions[i].types \subseteq Nat \ {0}
    BY <1>1 DEF Regions
<1>3. \E t \in part.regions[i].types : \A u \in part.regions[i].types : t <= u
    BY PartsAssumption
<1>4. Smallest(part.regions[i].types) \in Nat \ {0}
    BY <1>2, <1>3 DEF Smallest
<1>. QED BY <1>1, <1>2, <1>4 DEF MinEraseSize, Least

LEMMA FoundRegion ==
    ASSUME part \in Parts, NEW a \in Nat, RegionsAt(a) # {}
    PROVE  LET i == CHOOSE i \in RegionsAt(a) : TRUE
           IN  i \in 1 .. Len(part.regions) /\ part.regions[i].base <= a
<1>1. PICK j \in RegionsAt(a) : j = CHOOSE i \in RegionsAt(a) : TRUE
    OBVIOUS
<1>2. part.regions \in Seq(Regions) /\ part.regions # <<>> /\ part.regions[1].base = 0
    BY PartsAssumption, PartFacts
<1>3. CASE Len(part.regions) = 1
    BY <1>1, <1>2, <1>3 DEF RegionsAt
<1>4. CASE Len(part.regions) # 1
    BY <1>1, <1>2, <1>4 DEF RegionsAt
<1>. QED BY <1>3, <1>4

LEMMA CoveredByRegion ==
    ASSUME part \in Parts, NEW a \in 0 .. part.size - 1
    PROVE  RegionsAt(a) # {}
<1>1. PICK i \in 1 .. Len(part.regions) :
        part.regions[i].base <= a /\ a < part.regions[i].base + part.regions[i].size
    BY PartsAssumption
<1>. QED BY <1>1, PartFacts DEF RegionsAt

LEMMA RoundDownInt ==
    ASSUME part \in Parts, NEW i \in 1 .. Len(part.regions), NEW a \in Int
    PROVE  /\ RoundDown(part.regions[i], a) \in Int
           /\ (a \in Nat /\ part.regions[i].base <= a) => RoundDown(part.regions[i], a) \in Nat
<1>. DEFINE g == part.regions[i]
            n == MinEraseSize(g)
<1>1. n \in Nat \ {0} /\ g.base \in Nat
    BY RegionFacts
<1>. HIDE DEF n
<1>2. CASE IsPowerOf2(n)
  <2>1. RoundDown(g, a) = a - (a % n)
      BY <1>2 DEF RoundDown, n
  <2>2. a % n \in Int
      BY <1>1
  <2>3. ASSUME a \in Nat PROVE a % n \in Nat /\ a % n <= a
      BY <2>3, <1>1, Remainder, Zenon
  <2>. QED BY <2>1, <2>2, <2>3
<1>3. CASE ~IsPowerOf2(n)
  <2>1. RoundDown(g, a) = g.base + ((a - g.base) \div n) * n
      BY <1>3 DEF RoundDown, n
  <2>2. (a - g.base) \div n \in Int
      BY <1>1
  <2>3. ASSUME a \in Nat, g.base <= a PROVE (a - g.base) \div n \in Nat
    <3>1. a - g.base \in Nat
        BY <1>1, <2>3
    <3>. QED BY <1>1, <3>1, Division, Zenon
  <2>4. ((a - g.base) \div n) * n \in Int
        /\ ((a \in Nat /\ g.base <= a) => ((a - g.base) \div n) * n \in Nat)
      BY <1>1, <2>2, <2>3, Product
  <2>. QED BY <1>1, <2>1, <2>4
<1>. QED BY <1>2, <1>3

-----------------------------------------------------------------------------
(* Commands and their jobs *)

LEMMA RangeFacts ==
    ASSUME part \in Parts, NEW r \in CommandRecords, HasEraseRange(r)
    PROVE  EraseRange(r).from \in Nat /\ EraseRange(r).to \in Int
<1>. DEFINE first == CHOOSE i \in RegionsAt(r.addr) : TRUE
            last  == CHOOSE i \in RegionsAt(r.addr + r.size - 1) : TRUE
<1>1. /\ r.addr \in Nat /\ r.size \in Nat /\ r.addr + r.size - 1 \in Nat
      /\ r.addr + r.size \in Int /\ r.addr \in Int
    BY DEF CommandRecords
<1>2. /\ first \in 1 .. Len(part.regions) /\ part.regions[first].base <= r.addr
      /\ last \in 1 .. Len(part.regions)
    BY <1>1, FoundRegion DEF HasEraseRange
<1>. HIDE DEF first, last
<1>3. RoundDown(part.regions[first], r.addr) \in Nat
    BY <1>1, <1>2, RoundDownInt, Zenon
<1>4. MinEraseSize(part.regions[last]) \in Nat
    BY <1>2, RegionFacts
<1>5. r.addr + r.size + MinEraseSize(part.regions[last]) - 1 \in Int
    BY <1>1, <1>4
<1>6. RangeEnd(part.regions[last], r.addr + r.size) \in Int
    BY <1>1, <1>2, <1>5, RoundDownInt DEF RangeEnd
<1>. QED BY <1>3, <1>6 DEF EraseRange, first, last

LEMMA PlanType ==
    ASSUME part \in Parts, NEW r \in CommandRecords, ~Refused(r)
    PROVE  Plan(r) \in Seq(JobRecords)
<1>1. /\ r.addr \in Nat /\ r.size \in Nat /\ r.size \in Int /\ r.addr + r.size \in Nat
      /\ r.verify \in BOOLEAN
    BY DEF CommandRecords
<1>2. CASE r.op = "read"
    BY <1>1, <1>2 DEF Plan, Job, JobRecords
<1>3. CASE r.op # "read"
  <2>1. EraseRange(r).from \in Nat /\ EraseRange(r).to \in Int
      BY <1>3, RangeFacts DEF Refused
  <2>2. Front(r) \in Int /\ Back(r) \in Int
      BY <1>1, <2>1 DEF Front, Back
  <2>3. Erased(r) \in Seq(JobRecords)
      BY <2>1 DEF Erased, Job, JobRecords
  <2>4. ASSUME NEW a \in Nat, NEW n \in Int, NEW data \in {"file", "backup"}, NEW v \in BOOLEAN
        PROVE  Written(data, a, n, v) \in Seq(JobRecords)
    <3>1. <<Job("write", data, a, n)>> \in Seq(JobRecords)
          /\ <<Job("verify", data, a, n)>> \in Seq(JobRecords)
        BY DEF Job, JobRecords
    <3>. QED BY <3>1, ConcatProperties, EmptySeq DEF Written
  <2>5. ASSUME NEW a \in Nat, NEW n \in Int PROVE Saved(a, n) \in Seq(JobRecords)
    <3>1. Job("read", "backup", a, n) \in JobRecords
        BY DEF Job, JobRecords
    <3>. QED BY <3>1 DEF Saved
  <2>6. Rewritten(r) \in Seq(JobRecords)
    <3>1. /\ Saved(EraseRange(r).from, Front(r)) \in Seq(JobRecords)
          /\ Saved(r.addr + r.size, Back(r)) \in Seq(JobRecords)
        BY <1>1, <2>1, <2>2, <2>5
    <3>2. /\ Written("file", r.addr, r.size, r.verify) \in Seq(JobRecords)
          /\ Written("backup", EraseRange(r).from, Front(r), r.verify) \in Seq(JobRecords)
          /\ Written("backup", r.addr + r.size, Back(r), r.verify) \in Seq(JobRecords)
        BY <1>1, <2>1, <2>2, <2>4
    <3>. QED BY <3>1, <3>2, <2>3, ConcatProperties DEF Rewritten
  <2>. QED BY <1>3, <2>3, <2>6 DEF Plan
<1>. QED BY <1>2, <1>3

\* The operation that is next is about a die of the chip and gets on.
LEMMA Position ==
    ASSUME Framed, OnDie
    PROVE  /\ jobs \in Seq(JobRecords) /\ jobs # <<>> /\ job \in JobRecords
           /\ Die \in Dies /\ Offset \in 0 .. part.size - 1
           /\ Here \in Nat \ {0} /\ OpLength \in Nat \ {0}
<1>1. jobs \in Seq(JobRecords) /\ jobs # <<>> /\ jobs[1] \in JobRecords
    BY DEF Framed, OnDie
<1>2. job.addr \in Nat /\ job.left \in Nat \ {0} /\ job.addr < OpSize(req)
    BY <1>1 DEF job, OnDie, JobRecords
<1>3. /\ part.dies \in Nat \ {0} /\ part.size \in Nat \ {0} /\ part.page \in Nat \ {0}
      /\ MaxOp \in Nat \ {0}
    BY PartFacts, CommandsAssumption DEF Framed
<1>4. Offset \in 0 .. part.size - 1
    BY <1>2, <1>3, Division DEF Offset
<1>5. Offset \in Nat /\ Offset % part.page \in 0 .. part.page - 1
  <2>1. Offset \in Nat
      BY <1>3, <1>4
  <2>. QED BY <1>3, <2>1, Division, Zenon
<1>6. Here \in Nat \ {0}
    BY <1>2, <1>3, <1>4 DEF Here, Least
<1>7. OpLength \in Nat \ {0}
    BY <1>3, <1>5, <1>6 DEF OpLength, Least
<1>8. Die \in Dies
  <2>1. job.addr \div part.size \in Nat
      BY <1>2, <1>3, Division, Zenon
  <2>2. CASE req.die = AllDies
    <3>1. job.addr < part.dies * part.size
        BY <1>2, <1>3, <2>2 DEF OpSize, DieCount
    <3>2. job.addr \div part.size < part.dies
        BY <1>2, <1>3, <3>1, Quotient
    <3>. QED BY <2>1, <2>2, <3>2, <1>3 DEF Die, Dies, DieStart
  <2>3. CASE req.die # AllDies
    <3>1. job.addr < 1 * part.size
        BY <1>2, <1>3, <2>3 DEF OpSize, DieCount
    <3>2. job.addr \div part.size < 1
        BY <1>2, <1>3, <3>1, Quotient
    <3>3. req.die \in Nat /\ req.die < part.dies
        BY <2>3 DEF Framed, OnDie, CommandRecords
    <3>. QED BY <2>1, <2>3, <3>2, <3>3, <1>3 DEF Die, Dies, DieStart
  <2>. QED BY <2>2, <2>3
<1>. QED BY <1>1, <1>4, <1>6, <1>7, <1>8 DEF job

LEMMA OpAddrNat ==
    ASSUME Framed, OnDie
    PROVE  From \in Nat /\ OpAddr \in Nat
<1>. DEFINE i == CHOOSE i \in RegionsAt(Offset) : TRUE
<1>1. Offset \in 0 .. part.size - 1 /\ Offset \in Nat /\ Offset \in Int /\ part \in Parts
    BY Position DEF Framed
<1>2. i \in 1 .. Len(part.regions) /\ part.regions[i].base <= Offset
    BY <1>1, CoveredByRegion, FoundRegion
<1>. HIDE DEF i
<1>3. RoundDown(part.regions[i], Offset) \in Nat
    BY <1>1, <1>2, RoundDownInt, Zenon
<1>. QED BY <1>1, <1>3 DEF From, EraseFrom, Region, OpAddr, i

LEMMA Erases ==
    ASSUME Framed, OnDie, Fitting(Region, From, To) # {}
    PROVE  Least(Chosen(Region, From, To), To - From) \in Nat \ {0}
<1>. DEFINE i == CHOOSE i \in RegionsAt(Offset) : TRUE
<1>1. Offset \in 0 .. part.size - 1 /\ Offset \in Nat /\ Here \in Nat /\ part \in Parts
    BY Position DEF Framed
<1>2. i \in 1 .. Len(part.regions) /\ part.regions[i].base <= Offset
    BY <1>1, CoveredByRegion, FoundRegion
<1>. HIDE DEF i
<1>3. /\ Region = part.regions[i] /\ Region \in Regions
      /\ Region.base \in Nat /\ Region.size \in Nat \ {0}
      /\ Region.types \subseteq Nat \ {0}
    BY <1>1, <1>2, RegionFacts DEF Region, i, Regions
<1>4. From \in Int
    BY OpAddrNat
<1>5. To \in Int
  <2>1. RoundDown(Region, Offset + Here) \in Int
      BY <1>1, <1>2, <1>3, RoundDownInt
  <2>. QED BY <1>3, <2>1 DEF To, EraseTo, Least
<1>6. Fitting(Region, From, To) \in SUBSET Region.types
    BY DEF Fitting
<1>7. PICK t \in Fitting(Region, From, To) : \A u \in Fitting(Region, From, To) : u <= t
    BY <1>1, <1>2, <1>3, <1>6, PartsAssumption
<1>8. \A u \in Fitting(Region, From, To) : Least(u, Region.size) <= Least(t, Region.size)
    BY <1>3, <1>6, <1>7 DEF Least
<1>9. Chosen(Region, From, To) \in Fitting(Region, From, To)
    BY <1>7, <1>8 DEF Chosen
<1>10. /\ Chosen(Region, From, To) \in Nat \ {0}
       /\ To - From >= Least(Chosen(Region, From, To), Region.size)
    BY <1>3, <1>6, <1>9 DEF Fitting
<1>. QED BY <1>3, <1>4, <1>5, <1>10 DEF Least

-----------------------------------------------------------------------------
(* The invariant is inductive *)

LEMMA InvInit == Init => Inv
<1>1. SUFFICES ASSUME Init PROVE Inv
    OBVIOUS
<1>2. part \in Parts /\ 0 \in Dies
    BY <1>1, PartFacts DEF Init
<1>3. NoRequest \in CommandRecords
    BY DEF NoRequest, CommandRecords, AllDies
<1>4. Framed
    BY <1>1, <1>2, <1>3 DEF Init, Framed
<1>. QED BY <1>1, <1>2, <1>4 DEF Init, Inv, CacheTrue

\* What a new command leaves is framed, whatever the set-up of the chip did.
LEMMA StartedFramed ==
    ASSUME Framed, NEW r \in CommandRecords, Given(r),
           Started(Clipped(r)) \/ Ends("failed")
    PROVE  Framed'
<1>1. part' = part /\ part \in Parts /\ req' = Clipped(r)
    BY DEF Given, Framed
<1>2. /\ part.dies \in Nat \ {0} /\ part.size \in Nat \ {0}
      /\ part.size * part.dies \in Int /\ part.size * 1 \in Int
    BY <1>1, PartFacts, Product
<1>3. Clipped(r) \in CommandRecords
  <2>1. OpSize(r) \in Int /\ r.addr \in Nat
      BY <1>2 DEF OpSize, DieCount, CommandRecords
  <2>2. CASE r.addr < OpSize(r)
    <3>1. OpSize(r) - r.addr \in Nat \ {0}
        BY <2>1, <2>2
    <3>. QED BY <3>1 DEF Clipped, CommandRecords
  <2>3. CASE ~(r.addr < OpSize(r))
      BY <2>3 DEF Clipped
  <2>. QED BY <2>2, <2>3
<1>4. CASE Ends("failed")
    BY <1>1, <1>3, <1>4, EmptySeq DEF Framed, Ends
<1>5. CASE Started(Clipped(r)) /\ ~Refused(Clipped(r))
  <2>1. jobs' \in Seq(JobRecords)
      BY <1>1, <1>3, <1>5, PlanType DEF Started
  <2>2. Clipped(r).die < part.dies
      BY <1>2, <1>3, <1>5 DEF Refused, CommandRecords, AllDies
  <2>. QED BY <1>1, <1>3, <2>1, <2>2 DEF Framed
<1>. QED BY <1>4, <1>5 DEF Started

LEMMA MovedJob ==
    ASSUME NEW j \in JobRecords, NEW n \in Nat
    PROVE  /\ [j EXCEPT !.addr = @ + n, !.left = @ - n] \in JobRecords
           /\ [j EXCEPT !.addr = @ + n, !.left = @ - n].left = j.left - n
<1>1. j.addr + n \in Nat /\ j.left - n \in Int
    BY DEF JobRecords
<1>. QED BY <1>1 DEF JobRecords

\* A step of a command that goes on with its jobs.
LEMMA MovedFramed ==
    ASSUME Framed, OnDie, NEW n \in Nat, Moved(n),
           UNCHANGED <<part, req, pc>>
    PROVE  Framed'
<1>1. jobs \in Seq(JobRecords) /\ jobs # <<>> /\ job \in JobRecords
    BY Position
<1>2. [job EXCEPT !.addr = @ + n, !.left = @ - n] \in JobRecords
    BY <1>1, MovedJob
<1>3. Tail(jobs) \in Seq(JobRecords)
    BY <1>1, HeadTailProperties
<1>4. jobs' \in Seq(JobRecords)
    BY <1>2, <1>3, ConcatProperties DEF Moved
<1>. QED BY <1>4 DEF Framed

LEMMA EndsFramed ==
    ASSUME Framed, NEW r, Ends(r), UNCHANGED <<part, req>>
    PROVE  Framed'
BY EmptySeq DEF Framed, Ends

LEMMA HighBytesType ==
    ASSUME Inv, NEW d \in Dies, NEW a \in Nat
    PROVE  /\ Listening(d) \in Dies
           /\ HighBytes(d, a) \in [Dies -> Nat]
           /\ NeedsHighByte(a) => HighByte(a) \in Nat
<1>1. Listening(d) \in Dies
    BY DEF Listening, Inv
<1>2. part.window \in Nat
    BY PartFacts DEF Inv, Framed
<1>3. NeedsHighByte(a) => HighByte(a) \in Nat
  <2>1. ASSUME part.window \in Nat \ {0} PROVE a \div part.window \in Nat
      BY <2>1, Division, Zenon
  <2>. QED BY <1>2, <2>1 DEF NeedsHighByte, HighByte
<1>. QED BY <1>1, <1>3 DEF HighBytes, Inv

\* Addressing keeps what the driver knows of the chip true: only a chip of one
\* die has the register, so that selecting another die cannot make it stale.
LEMMA AddressedTrue ==
    ASSUME Inv, NEW d \in Dies, NEW a \in Nat, Addressed(d, a), part' = part,
           pc = "run", astray' = astray
    PROVE  /\ sel' \in Dies' /\ curr_die' \in Dies'
           /\ ear' \in [Dies' -> Nat] /\ curr_high_addr' \in Nat
           /\ CacheTrue'
<1>1. Dies' = Dies /\ part \in Parts
    BY DEF Inv, Framed, Dies
<1>2. Listening(d) \in Dies
    BY HighBytesType
<1>3. part.window \in Nat /\ (part.dies = 1 \/ part.window = 0)
    BY <1>1, PartFacts
<1>5. ear' \in [Dies -> Nat] /\ curr_high_addr' \in Nat
    BY HighBytesType DEF Addressed, Inv
<1>6. ASSUME ~astray
      PROVE  /\ curr_die' = sel'
             /\ part.window > 0 => curr_high_addr' = ear'[sel']
  <2>1. curr_die = sel /\ (part.window > 0 => curr_high_addr = ear[sel])
      BY <1>6 DEF Inv, CacheTrue
  <2>2. Listening(d) = d /\ sel' = d /\ curr_die' = d
      BY <2>1 DEF Listening, Addressed
  <2>3. ASSUME part.window > 0 PROVE curr_high_addr' = ear'[d]
    <3>1. CASE NeedsHighByte(a)
        BY <2>2, <3>1 DEF Addressed, HighBytes, Inv
    <3>2. CASE ~NeedsHighByte(a)
      <4>1. part.dies = 1
          BY <1>3, <2>3
      <4>2. d = 0 /\ sel = 0
          BY <4>1 DEF Dies, Inv
      <4>. QED BY <2>1, <2>3, <3>2, <4>2 DEF Addressed, HighBytes
    <3>. QED BY <3>1, <3>2
  <2>. QED BY <2>2, <2>3
<1>. QED BY <1>1, <1>2, <1>5, <1>6 DEF Addressed, CacheTrue

LEMMA InvNext == ASSUME Inv, [Next]_vars PROVE Inv'
<1>1. part \in Parts /\ Framed
    BY DEF Inv, Framed
<1>2. ASSUME part' = part PROVE Dies' = Dies
    BY <1>2 DEF Dies
<1>3. 0 \in Dies /\ (part.dies > 1 => 1 \in Dies)
    BY <1>1, PartFacts DEF Dies
<1>4. ASSUME NEW r \in Commands, Start(r) PROVE Inv'
  <2>1. r \in CommandRecords
      BY CommandsAssumption
  <2>2. Framed' /\ part' = part
      BY <1>1, <1>4, <2>1, StartedFramed DEF Start, Given
  <2>3. FirstDie(r) \in Dies
      BY <1>3 DEF FirstDie
  <2>4. /\ sel' = FirstDie(r) /\ curr_die' = FirstDie(r)
        /\ ear' = [d \in Dies |-> 0] /\ curr_high_addr' = 0
      BY <1>4 DEF Start, SetUp
  <2>. QED BY <1>2, <2>2, <2>3, <2>4 DEF Inv, CacheTrue
<1>5. ASSUME NEW r \in Commands, StartMissing(r) PROVE Inv'
  <2>1. r \in CommandRecords
      BY CommandsAssumption
  <2>2. Framed' /\ part' = part
      BY <1>1, <1>5, <2>1, StartedFramed DEF StartMissing, Given
  <2>3. FirstDie(r) \in Dies
      BY <1>3 DEF FirstDie
  <2>4. PICK k \in Dies : SetUpMissing(r, k)
      BY <1>5 DEF StartMissing
  <2>5. /\ sel' \in Dies /\ curr_die' \in Dies
        /\ ear' \in [Dies -> Nat] /\ curr_high_addr' \in Nat /\ astray' = TRUE
      BY <1>3, <1>5, <2>3, <2>4 DEF StartMissing, SetUpMissing, Inv
  <2>. QED BY <1>2, <2>2, <2>5 DEF Inv, CacheTrue
<1>6. ASSUME NEW r \in Commands, StartFails(r) PROVE Inv'
  <2>1. r \in CommandRecords
      BY CommandsAssumption
  <2>2. Framed' /\ part' = part /\ pc' = "idle"
      BY <1>1, <1>6, <2>1, StartedFramed DEF StartFails, Given, Ends
  <2>3. FirstDie(r) \in Dies
      BY <1>3 DEF FirstDie
  <2>4. /\ sel' \in Dies /\ curr_die' \in Dies
        /\ ear' \in [Dies -> Nat] /\ curr_high_addr' \in Nat
      BY <1>3, <1>6, <2>3 DEF StartFails, Inv
  <2>. QED BY <1>2, <2>2, <2>4 DEF Inv, CacheTrue
<1>7. ASSUME OnDie, Addressing, UNCHANGED <<part, req, astray>>,
             \/ pc' = pc /\ \E n \in Nat : Moved(n)
             \/ \E e \in {"failed"} : Ends(e)
      PROVE  Inv'
  <2>1. Die \in Dies /\ OpAddr \in Nat
      BY <1>1, <1>7, Position, OpAddrNat
  <2>2. /\ sel' \in Dies' /\ curr_die' \in Dies'
        /\ ear' \in [Dies' -> Nat] /\ curr_high_addr' \in Nat
        /\ CacheTrue'
      BY <1>7, <2>1, AddressedTrue DEF Addressing, OnDie
  <2>3. Framed'
      BY <1>1, <1>7, MovedFramed, EndsFramed
  <2>. QED BY <2>2, <2>3 DEF Inv
<1>8. ASSUME OnDie PROVE OpLength \in Nat
    BY <1>1, <1>8, Position
<1>9. ASSUME Read PROVE Inv'
    BY <1>7, <1>8, <1>9 DEF Read
<1>10. ASSUME Verify PROVE Inv'
    BY <1>7, <1>8, <1>10 DEF Verify
<1>11. ASSUME Program PROVE Inv'
    BY <1>7, <1>8, <1>11 DEF Program
<1>12. ASSUME EraseAt PROVE Inv'
  <2>1. CASE Fitting(Region, From, To) # {}
    <3>1. Least(Chosen(Region, From, To), To - From) \in Nat
        BY <1>1, <1>12, <2>1, Erases DEF EraseAt
    <3>2. /\ OnDie /\ Addressing /\ UNCHANGED <<part, req, astray, pc>>
          /\ Moved(Least(Chosen(Region, From, To), To - From))
        BY <1>12, <2>1 DEF EraseAt
    <3>. QED BY <1>7, <3>1, <3>2
  <2>2. CASE Fitting(Region, From, To) = {}
    <3>1. Die \in Dies
        BY <1>1, <1>12, Position DEF EraseAt
    <3>2. Framed' /\ pc' = "idle" /\ part' = part
        BY <1>1, <1>12, <2>2, EndsFramed DEF EraseAt, Ends
    <3>. QED BY <1>2, <1>12, <2>2, <3>1, <3>2 DEF EraseAt, Listening, Inv, CacheTrue
  <2>. QED BY <2>1, <2>2
<1>13. ASSUME SelectFails PROVE Inv'
  <2>1. Die \in Dies
      BY <1>1, <1>13, Position DEF SelectFails
  <2>2. Framed' /\ pc' = "idle" /\ part' = part
      BY <1>1, <1>13, EndsFramed DEF SelectFails, Ends
  <2>. QED BY <1>2, <1>13, <2>1, <2>2 DEF SelectFails, state, Inv, CacheTrue
<1>14. ASSUME AddressFails PROVE Inv'
  <2>1. Die \in Dies /\ OpAddr \in Nat
      BY <1>1, <1>14, Position, OpAddrNat DEF AddressFails
  <2>2. Framed' /\ pc' = "idle" /\ part' = part
      BY <1>1, <1>14, EndsFramed DEF AddressFails, Ends
  <2>3. Listening(Die) \in Dies /\ HighBytes(Die, OpAddr) \in [Dies -> Nat]
      BY <2>1, HighBytesType
  <2>. QED BY <1>2, <1>14, <2>1, <2>2, <2>3 DEF AddressFails, Inv, CacheTrue
<1>15. ASSUME CommandFails PROVE Inv'
    BY <1>7, <1>15 DEF CommandFails
<1>16. ASSUME NextJob PROVE Inv'
  <2>1. Tail(jobs) \in Seq(JobRecords)
      BY <1>1, <1>16, HeadTailProperties DEF NextJob, Framed
  <2>2. Framed'
      BY <1>1, <1>16, <2>1 DEF NextJob, Framed
  <2>. QED BY <1>2, <1>16, <2>2 DEF NextJob, chip, state, Inv, CacheTrue
<1>17. ASSUME Finish PROVE Inv'
  <2>1. Framed'
      BY <1>1, <1>17, EndsFramed DEF Finish
  <2>. QED BY <1>2, <1>17, <2>1 DEF Finish, Ends, chip, state, Inv, CacheTrue
<1>18. ASSUME UNCHANGED vars PROVE Inv'
  <2>1. Framed'
      BY <1>1, <1>18 DEF vars, Framed
  <2>. QED BY <1>2, <1>18, <2>1 DEF vars, Inv, CacheTrue
<1>. QED BY <1>4, <1>5, <1>6, <1>9, <1>10, <1>11, <1>12, <1>13, <1>14, <1>15, <1>16, <1>17,
            <1>18 DEF Next, Step

\* What the driver keeps of the chip is true: while a command runs, curr_die is
\* the die that listens and curr_high_addr its extended address byte, for any
\* chips and any commands, unless selecting a die failed during set-up.
THEOREM CacheIsTrue == Spec => []CacheTrue
<1>1. Inv => CacheTrue
    BY DEF Inv
<1>. QED BY InvInit, InvNext, <1>1, PTL DEF Spec

\* Every step of a command leaves less to do: no pass over the flash asks for the
\* same place again, whatever regions and erase types the chip has.
THEOREM CommandsShorten == Spec => StepsShorten
<1>. DEFINE Shortens ==
        pc = "run" =>
          \/ pc' = "idle"
          \/ Len(jobs') < Len(jobs)
          \/ Len(jobs') = Len(jobs) /\ jobs'[1].left < jobs[1].left
<1>1. ASSUME Inv, [Next]_vars PROVE [Shortens]_vars
  <2>1. Framed
      BY <1>1 DEF Inv
  <2>2. ASSUME OnDie, NEW n \in Nat \ {0}, Moved(n)
        PROVE  Len(jobs') = Len(jobs) /\ jobs'[1].left < jobs[1].left
    <3>1. jobs \in Seq(JobRecords) /\ jobs # <<>> /\ job \in JobRecords
        BY <2>1, <2>2, Position
    <3>2. Tail(jobs) \in Seq(JobRecords) /\ Len(Tail(jobs)) = Len(jobs) - 1
        BY <3>1, HeadTailProperties
    <3>3. /\ [job EXCEPT !.addr = @ + n, !.left = @ - n] \in JobRecords
          /\ [job EXCEPT !.addr = @ + n, !.left = @ - n].left < job.left
      <4>1. [job EXCEPT !.addr = @ + n, !.left = @ - n].left = job.left - n /\ job.left \in Int
          BY <3>1, MovedJob DEF JobRecords
      <4>2. [job EXCEPT !.addr = @ + n, !.left = @ - n] \in JobRecords
          BY <3>1, MovedJob
      <4>3. job.left - n < job.left
          BY <4>1
      <4>. QED BY <4>1, <4>2, <4>3
    <3>4. /\ Len(jobs') = Len(jobs)
          /\ jobs'[1] = [job EXCEPT !.addr = @ + n, !.left = @ - n]
        BY <2>2, <3>1, <3>2, <3>3, ConcatProperties, LenProperties DEF Moved
    <3>. QED BY <3>3, <3>4 DEF job
  <2>3. ASSUME OnDie PROVE OpLength \in Nat \ {0}
      BY <2>1, <2>3, Position
  <2>4. ASSUME NEW r \in Commands, Start(r) \/ StartMissing(r) \/ StartFails(r)
        PROVE  Shortens
      BY <2>4 DEF Start, StartMissing, StartFails, Given
  <2>5. ASSUME Read \/ Verify \/ Program PROVE Shortens
      BY <2>2, <2>3, <2>5 DEF Read, Verify, Program, Ends
  <2>6. ASSUME EraseAt PROVE Shortens
    <3>1. CASE Fitting(Region, From, To) # {}
      <4>1. Least(Chosen(Region, From, To), To - From) \in Nat \ {0}
          BY <2>1, <2>6, <3>1, Erases DEF EraseAt
      <4>2. OnDie /\ Moved(Least(Chosen(Region, From, To), To - From))
          BY <2>6, <3>1 DEF EraseAt
      <4>. QED BY <2>2, <4>1, <4>2
    <3>2. CASE Fitting(Region, From, To) = {}
        BY <2>6, <3>2 DEF EraseAt, Ends
    <3>. QED BY <3>1, <3>2
  <2>7. ASSUME SelectFails \/ AddressFails \/ CommandFails \/ Finish PROVE Shortens
      BY <2>7 DEF SelectFails, AddressFails, CommandFails, Finish, Ends
  <2>8. ASSUME NextJob PROVE Shortens
      BY <2>1, <2>8, HeadTailProperties, LenProperties DEF NextJob, Framed
  <2>. QED BY <1>1, <2>4, <2>5, <2>6, <2>7, <2>8 DEF Next, Step
<1>. QED BY InvInit, InvNext, <1>1, PTL DEF Spec, StepsShorten

-----------------------------------------------------------------------------
(* Multiples *)

LEMMA DivisionParts ==
    ASSUME NEW a \in Nat, NEW n \in Nat \ {0}
    PROVE  a = n * (a \div n) + (a % n) /\ a \div n \in Nat /\ a % n \in 0 .. n - 1
BY SMTT(30)

LEMMA Times ==
    ASSUME NEW n \in Nat, NEW k \in Nat
    PROVE  n * k \in Nat /\ k * n = n * k /\ n * (k + 1) = n * k + n
BY SMTT(30)

LEMMA TimesOrder ==
    ASSUME NEW n \in Nat \ {0}, NEW k \in Nat, NEW m \in Nat
    PROVE  /\ n * k < n * (m + 1) => k <= m
           /\ k <= m => n * k <= n * m
BY SMTT(30)

LEMMA TimesSum ==
    ASSUME NEW n \in Nat, NEW k \in Nat, NEW m \in Nat
    PROVE  n * k + n * m = n * (k + m) /\ (n * k) * m = n * (k * m)
BY SMTT(30)

LEMMA DivisionUnique ==
    ASSUME NEW n \in Nat \ {0}, NEW k \in Nat, NEW r \in 0 .. n - 1
    PROVE  (n * k + r) \div n = k /\ (n * k + r) % n = r
<1>. DEFINE a == n * k + r
            q == a \div n
            s == a % n
<1>1. a \in Nat /\ n * k \in Nat
    BY Times
<1>2. a = n * q + s /\ q \in Nat /\ s \in 0 .. n - 1
    BY <1>1, DivisionParts, Zenon
<1>. HIDE DEF q, s
<1>3. n * q \in Nat /\ n * (k + 1) = n * k + n /\ n * (q + 1) = n * q + n
    BY <1>2, Times, Zenon
<1>4. n * k < n * (q + 1) /\ n * q < n * (k + 1)
    BY <1>1, <1>2, <1>3
<1>5. k <= q /\ q <= k
    BY <1>2, <1>4, TimesOrder
<1>6. q = k /\ s = r
    BY <1>1, <1>2, <1>5
<1>. QED BY <1>6 DEF q, s

LEMMA Multiple ==
    ASSUME NEW n \in Nat \ {0}, NEW k \in Nat
    PROVE  (n * k) % n = 0
<1>1. n * k + 0 = n * k /\ 0 \in 0 .. n - 1
    BY Times
<1>2. (n * k + 0) % n = 0
    BY <1>1, DivisionUnique
<1>. QED BY <1>1, <1>2

LEMMA Factor ==
    ASSUME NEW n \in Nat \ {0}, NEW a \in Nat, a % n = 0
    PROVE  \E k \in Nat : a = n * k
<1>1. a = n * (a \div n) + 0 /\ a \div n \in Nat
    BY DivisionParts
<1>2. n * (a \div n) \in Nat
    BY <1>1, Times, Zenon
<1>3. a = n * (a \div n)
    BY <1>1, <1>2
<1>. QED BY <1>1, <1>3, Zenon

LEMMA MultiplesAdd ==
    ASSUME NEW n \in Nat \ {0}, NEW a \in Nat, NEW b \in Nat, a % n = 0
    PROVE  (a + b) % n = b % n
<1>1. PICK k \in Nat : a = n * k
    BY Factor
<1>. DEFINE q == b \div n
            r == b % n
<1>2. b = n * q + r /\ q \in Nat /\ r \in 0 .. n - 1
    BY DivisionParts
<1>. HIDE DEF q, r
<1>3. n * k + n * q = n * (k + q) /\ n * k \in Nat /\ n * q \in Nat /\ k + q \in Nat
    BY <1>2, TimesSum, Times
<1>. DEFINE z == k + q
<1>4. a + b = n * z + r /\ z \in Nat
    BY <1>1, <1>2, <1>3
<1>. HIDE DEF z
<1>6. (n * z + r) % n = r
    BY <1>2, <1>4, DivisionUnique
<1>5. (a + b) % n = r
    BY <1>4, <1>6
<1>. QED BY <1>5 DEF r

LEMMA MultiplesTimes ==
    ASSUME NEW n \in Nat \ {0}, NEW a \in Nat, NEW m \in Nat, a % n = 0
    PROVE  (a * m) % n = 0
<1>1. PICK k \in Nat : a = n * k
    BY Factor
<1>2. a * m = n * (k * m) /\ k * m \in Nat
    BY <1>1, TimesSum, Times
<1>. QED BY <1>2, Multiple

LEMMA MultiplesNest ==
    ASSUME NEW n \in Nat \ {0}, NEW t \in Nat \ {0}, NEW a \in Nat, t % n = 0, a % t = 0
    PROVE  a % n = 0
<1>1. PICK k \in Nat : a = t * k
    BY Factor
<1>. QED BY <1>1, MultiplesTimes

\* Rounding down to a multiple.
LEMMA Floor ==
    ASSUME NEW n \in Nat \ {0}, NEW a \in Nat
    PROVE  /\ a - (a % n) \in Nat /\ (a - (a % n)) % n = 0
           /\ a - (a % n) <= a /\ a < a - (a % n) + n
           /\ \A m \in Nat : m % n = 0 /\ m <= a => m <= a - (a % n)
           /\ \A m \in Nat : m % n = 0 /\ a < m + n => a - (a % n) <= m
<1>. DEFINE q == a \div n
            r == a % n
<1>1. a = n * q + r /\ q \in Nat /\ r \in 0 .. n - 1
    BY DivisionParts
<1>2. n * q \in Nat /\ n * (q + 1) = n * q + n
    BY <1>1, Times, Zenon
<1>. HIDE DEF q, r
<1>3. a - r = n * q /\ a < n * (q + 1)
    BY <1>1, <1>2
<1>4. ASSUME NEW m \in Nat, m % n = 0
      PROVE  /\ m <= a => m <= n * q
             /\ a < m + n => n * q <= m
  <2>1. PICK k \in Nat : m = n * k
      BY <1>4, Factor
  <2>2. n * k \in Nat /\ n * (k + 1) = n * k + n
      BY Times
  <2>3. m <= a => n * k <= n * q
    <3>1. m <= a => n * k < n * (q + 1)
        BY <1>1, <1>2, <1>3, <2>1, <2>2
    <3>. QED BY <1>1, <3>1, TimesOrder
  <2>4. a < m + n => n * q <= n * k
    <3>1. a < m + n => n * q < n * (k + 1)
        BY <1>1, <1>2, <1>3, <2>1, <2>2
    <3>. QED BY <1>1, <3>1, TimesOrder
  <2>. QED BY <2>1, <2>3, <2>4
<1>5. (n * q) % n = 0
    BY <1>1, Multiple
<1>. DEFINE f == a - r
<1>6. f = n * q /\ f \in Nat /\ f <= a /\ a < f + n
    BY <1>1, <1>2, <1>3
<1>. HIDE DEF f
<1>7. f % n = 0
    BY <1>5, <1>6
<1>8. \A m \in Nat : (m % n = 0 /\ m <= a => m <= f) /\ (m % n = 0 /\ a < m + n => f <= m)
    BY <1>4, <1>6
<1>9. f = a - (a % n)
    BY DEF f, r
<1>. QED BY <1>6, <1>7, <1>8, <1>9

\* The numbers with the same quotient as a multiple.
LEMMA SameQuotient ==
    ASSUME NEW n \in Nat \ {0}, NEW a \in Nat, a % n = 0, NEW x \in Nat
    PROVE  x \div n = a \div n <=> a <= x /\ x < a + n
<1>1. PICK k \in Nat : a = n * k
    BY Factor
<1>2. n * k \in Nat /\ n * (k + 1) = n * k + n /\ 0 \in 0 .. n - 1 /\ n * k + 0 = n * k
    BY Times
<1>3. a \div n = k
    BY <1>1, <1>2, DivisionUnique
<1>4. x = n * (x \div n) + (x % n) /\ x \div n \in Nat /\ x % n \in 0 .. n - 1
    BY DivisionParts
<1>5. ASSUME x \div n = k PROVE a <= x /\ x < a + n
    BY <1>1, <1>2, <1>4, <1>5
<1>6. ASSUME a <= x, x < a + n PROVE x \div n = k
  <2>1. x = n * k + (x - a) /\ x - a \in 0 .. n - 1
      BY <1>1, <1>2, <1>6
  <2>. QED BY <2>1, DivisionUnique
<1>. QED BY <1>3, <1>5, <1>6

-----------------------------------------------------------------------------
(* Where the cells of a command are *)

LEMMA SizeFacts ==
    ASSUME part \in Parts, NEW r \in CommandRecords, r.die < part.dies
    PROVE  /\ DieStart(r) \in Nat /\ DieStart(r) * part.size \in Nat
           /\ OpSize(r) \in Nat \ {0} /\ part.dies * part.size \in Nat
           /\ (DieStart(r) * part.size) + OpSize(r) <= part.dies * part.size
           /\ part.size <= OpSize(r)
<1>1. part.dies \in Nat \ {0} /\ part.size \in Nat \ {0}
    BY PartFacts
<1>. DEFINE n == part.size
            D == part.dies
<1>2. n \in Nat \ {0} /\ D \in Nat \ {0}
    BY <1>1
<1>3. CASE r.die = AllDies
  <2>1. DieStart(r) = 0 /\ OpSize(r) = n * D /\ 0 * n = 0
      BY <1>2, <1>3, Times DEF DieStart, OpSize, DieCount
  <2>2. n * D \in Nat /\ D * n = n * D /\ n * 1 <= n * D
      BY <1>2, Times, TimesOrder
  <2>3. n * 1 = n
      BY <1>2
  <2>. QED BY <1>2, <2>1, <2>2, <2>3
<1>4. CASE r.die # AllDies
  <2>1. DieStart(r) = r.die /\ OpSize(r) = n * 1 /\ r.die \in Nat
      BY <1>4 DEF DieStart, OpSize, DieCount, CommandRecords
  <2>. DEFINE k == r.die
  <2>2. k \in Nat /\ k + 1 <= D /\ n * (k + 1) = n * k + n /\ n * k \in Nat /\ k * n = n * k
      BY <1>2, <2>1, Times
  <2>3. n * (k + 1) <= n * D
      BY <1>2, <2>2, TimesOrder
  <2>4. n * D \in Nat /\ D * n = n * D /\ n * 1 = n
      BY <1>2, Times
  <2>. QED BY <1>2, <2>1, <2>2, <2>3, <2>4
<1>. QED BY <1>3, <1>4

LEMMA Addresses ==
    ASSUME part \in Parts, NEW r \in CommandRecords, r.die < part.dies,
           NEW a \in Nat, a < OpSize(r)
    PROVE  a \in Cells /\ Cell(r, a) \in Cells
<1>. DEFINE b == DieStart(r) * part.size
            z == part.dies * part.size
<1>1. b \in Nat /\ OpSize(r) \in Nat /\ z \in Nat /\ b + OpSize(r) <= z
    BY SizeFacts
<1>2. Cells = 0 .. z - 1 /\ Cell(r, a) = b + a
    BY DEF Cells, Cell
<1>. HIDE DEF b, z
<1>. QED BY <1>1, <1>2

LEMMA CellSum ==
    ASSUME part \in Parts, NEW r \in CommandRecords, r.die < part.dies, NEW a \in Nat
    PROVE  Cell(r, 0) \in Nat /\ Cell(r, a) = Cell(r, 0) + a
<1>. DEFINE b == DieStart(r) * part.size
<1>1. b \in Nat
    BY SizeFacts
<1>2. Cell(r, a) = b + a /\ Cell(r, 0) = b + 0
    BY DEF Cell
<1>. HIDE DEF b
<1>. QED BY <1>1, <1>2

\* The command runs and the driver knows the chip.
Sound == Inv /\ OnDie /\ ~astray

LEMMA JobFacts ==
    ASSUME Sound
    PROVE  /\ part \in Parts /\ req \in CommandRecords /\ req.die < part.dies
           /\ job \in JobRecords /\ job.addr \in Nat /\ job.left \in Nat \ {0}
           /\ jobs \in Seq(JobRecords) /\ jobs # <<>>
           /\ Die \in Dies /\ Offset \in 0 .. part.size - 1 /\ Offset \in Nat
           /\ Here \in Nat \ {0} /\ Here <= job.left /\ Offset + Here <= part.size
           /\ OpLength \in Nat \ {0} /\ OpLength <= Here
<1>1. Framed /\ OnDie
    BY DEF Sound, Inv
<1>2. /\ job \in JobRecords /\ Offset \in 0 .. part.size - 1
      /\ Here \in Nat \ {0} /\ OpLength \in Nat \ {0}
    BY <1>1, Position
<1>3. job.addr \in Nat /\ job.left \in Nat \ {0}
    BY <1>1, <1>2 DEF OnDie, JobRecords
<1>4. part.page \in Nat \ {0} /\ part.size \in Nat \ {0} /\ part \in Parts
    BY <1>1, PartFacts DEF Framed
<1>5. Here <= job.left /\ Offset + Here <= part.size
    BY <1>2, <1>3, <1>4 DEF Here, Least
<1>6. OpLength <= Here
  <2>1. Offset % part.page \in 0 .. part.page - 1
    <3>1. Offset \in Nat
        BY <1>2, <1>4
    <3>. QED BY <1>4, <3>1, Division, Zenon
  <2>2. MaxOp \in Nat
      BY CommandsAssumption
  <2>. QED BY <1>2, <1>4, <2>1, <2>2 DEF OpLength, Least
<1>. QED BY <1>1, <1>2, <1>3, <1>4, <1>5, <1>6, Position DEF Framed, OnDie

\* An operation of the driver reaches the cell of the address that is next.
LEMMA Place ==
    ASSUME Sound
    PROVE  Reached(Die, Offset) = Cell(req, job.addr)
<1>. DEFINE n == part.size
            q == job.addr \div n
            b == DieStart(req)
<1>1. /\ part \in Parts /\ job.addr \in Nat /\ Die \in Dies /\ Offset \in Nat
      /\ req \in CommandRecords /\ req.die < part.dies
    BY JobFacts
<1>2. n \in Nat \ {0} /\ part.window \in Nat /\ (part.dies = 1 \/ part.window = 0)
    BY <1>1, PartFacts
<1>3. job.addr = n * q + Offset /\ q \in Nat
    BY <1>1, <1>2, DivisionParts DEF Offset
<1>4. Die = b + q /\ b \in Nat
    BY <1>1, SizeFacts DEF Die
<1>. HIDE DEF q
<1>5. Die * n + Offset = Cell(req, job.addr)
  <2>1. n * b + n * q = n * (b + q) /\ n * b \in Nat /\ n * q \in Nat /\ b * n = n * b
        /\ (b + q) * n = n * (b + q) /\ n * (b + q) \in Nat
    <3>1. b + q \in Nat
        BY <1>3, <1>4
    <3>2. n * b + n * q = n * (b + q) /\ n * b \in Nat /\ n * q \in Nat /\ b * n = n * b
        BY <1>2, <1>3, <1>4, TimesSum, Times
    <3>3. (b + q) * n = n * (b + q) /\ n * (b + q) \in Nat
        BY <1>2, <3>1, Times
    <3>. QED BY <3>2, <3>3
  <2>2. Cell(req, job.addr) = b * n + job.addr
      BY DEF Cell
  <2>. DEFINE x == n * q
              y == n * b
  <2>3. Die * n = y + x /\ Cell(req, job.addr) = y + job.addr /\ job.addr = x + Offset
        /\ x \in Nat /\ y \in Nat
      BY <1>3, <1>4, <2>1, <2>2
  <2>. HIDE DEF x, y
  <2>. QED BY <1>1, <2>3
<1>6. Listening(Die) = Die /\ (part.window > 0 => curr_high_addr = ear[sel])
    BY DEF Sound, OnDie, Inv, CacheTrue, Listening
<1>7. CASE part.window = 0
    BY <1>5, <1>6, <1>7 DEF Reached
<1>8. CASE part.window > 0
  <2>1. Die = 0 /\ sel = 0 /\ ear \in [Dies -> Nat]
      BY <1>1, <1>2, <1>8 DEF Dies, Sound, Inv
  <2>2. HighBytes(Die, Offset)[Die] = HighByte(Offset)
      BY <1>1, <1>6, <1>8, <2>1 DEF HighBytes, NeedsHighByte
  <2>. DEFINE w == part.window
  <2>a. w \in Nat \ {0}
      BY <1>2, <1>8
  <2>3. Offset = w * (Offset \div w) + (Offset % w) /\ Offset \div w \in Nat
        /\ Offset % w \in Int
    <3>1. Offset = w * (Offset \div w) + (Offset % w) /\ Offset \div w \in Nat
          /\ Offset % w \in 0 .. w - 1
        BY <1>1, <2>a, DivisionParts, Zenon
    <3>. QED BY <3>1, <2>a
  <2>4. (Offset \div w) * w = w * (Offset \div w)
      BY <2>a, <2>3, Times
  <2>5. Reached(Die, Offset) = Die * n + (HighByte(Offset) * w + (Offset % w))
      BY <1>6, <1>8, <2>2 DEF Reached
  <2>6. HighByte(Offset) * w + (Offset % w) = Offset
      BY <2>3, <2>4 DEF HighByte
  <2>. QED BY <1>5, <2>5, <2>6
<1>. QED BY <1>2, <1>7, <1>8

\* The cells that a program reaches follow each other: pages fill a die, and a
\* program ends with its page.
LEMMA Slots ==
    ASSUME Sound, part.size % part.page = 0, job.kind = "write",
           NEW i \in 0 .. OpLength - 1
    PROVE  Slot(i) = Cell(req, job.addr + i)
<1>. DEFINE n == part.size
            p == part.page
            c == Cell(req, job.addr)
            q == job.addr \div n
            b == DieStart(req)
<1>1. /\ part \in Parts /\ job.addr \in Nat /\ Offset \in Nat /\ Here \in Nat
      /\ req \in CommandRecords /\ req.die < part.dies /\ OpLength \in Nat
    BY JobFacts
<1>2. n \in Nat \ {0} /\ p \in Nat \ {0} /\ MaxOp \in Nat \ {0}
    BY <1>1, PartFacts, CommandsAssumption
<1>3. job.addr = n * q + Offset /\ q \in Nat /\ b \in Nat /\ b * n \in Nat /\ b * n = n * b
    BY <1>1, <1>2, DivisionParts, SizeFacts, Times DEF Offset
<1>4. c = n * (b + q) + Offset /\ n * (b + q) \in Nat
  <2>1. n * b + n * q = n * (b + q) /\ n * b \in Nat /\ n * q \in Nat
      BY <1>2, <1>3, TimesSum, Times
  <2>2. c = b * n + job.addr
      BY DEF Cell
  <2>. HIDE DEF q, b, c
  <2>. DEFINE x == n * q
              y == n * b
              z == n * (b + q)
  <2>3. z = y + x /\ x \in Nat /\ y \in Nat /\ c = y + job.addr /\ job.addr = x + Offset
      BY <1>3, <2>1, <2>2
  <2>. HIDE DEF x, y, z
  <2>4. c = z + Offset /\ z \in Nat
      BY <1>1, <2>3
  <2>. QED BY <2>4 DEF z
<1>5. (n * (b + q)) % p = 0
  <2>1. b + q \in Nat
      BY <1>3
  <2>. QED BY <1>2, <2>1, MultiplesTimes
<1>. DEFINE z == n * (b + q)
            r == Offset % p
<1>6. r \in 0 .. p - 1
    BY <1>1, <1>2, DivisionParts
<1>7. i < p - r
    BY <1>1, <1>2, <1>6 DEF OpLength, Least
<1>8. /\ z \in Nat /\ z % p = 0 /\ c = z + Offset
    BY <1>4, <1>5
<1>. HIDE DEF z
<1>. HIDE DEF c
<1>9. c % p = r
    BY <1>1, <1>2, <1>8, MultiplesAdd
<1>10. (c + i) % p = r + i
  <2>. DEFINE k == Offset \div p
  <2>1. Offset = p * k + r /\ k \in Nat /\ p * k \in Nat
    <3>1. Offset = p * k + r /\ k \in Nat
        BY <1>1, <1>2, DivisionParts, Zenon
    <3>. QED BY <1>2, <3>1, Times
  <2>. HIDE DEF k, r
  <2>2. r + i \in 0 .. p - 1
      BY <1>1, <1>2, <1>6, <1>7
  <2>. DEFINE s == r + i
              e == p * k + s
  <2>3. e % p = s
      BY <1>2, <2>1, <2>2, DivisionUnique
  <2>4. e = Offset + i /\ e \in Nat
      BY <1>1, <1>2, <1>6, <2>1, <2>2
  <2>. HIDE DEF e, s
  <2>5. c + i = z + e
      BY <1>1, <1>8, <2>4
  <2>6. (z + e) % p = e % p
      BY <1>2, <1>8, <2>4, MultiplesAdd
  <2>. QED BY <2>3, <2>5, <2>6 DEF s
<1>11. Reached(Die, Offset) = c
    BY Place DEF c
<1>12. Slot(i) = (c - r) + (r + i)
    BY <1>9, <1>10, <1>11 DEF Slot
<1>. HIDE DEF r
<1>13. Slot(i) = c + i
    BY <1>1, <1>6, <1>8, <1>12, <1>2
<1>14. Cell(req, job.addr + i) = c + i
  <2>1. /\ Cell(req, 0) \in Nat /\ c = Cell(req, 0) + job.addr
        /\ Cell(req, job.addr + i) = Cell(req, 0) + (job.addr + i)
    <3>1. job.addr + i \in Nat
        BY <1>1
    <3>. QED BY <1>1, <3>1, CellSum DEF c
  <2>. QED BY <1>1, <2>1
<1>. QED BY <1>13, <1>14

-----------------------------------------------------------------------------
(* A read stores what the flash holds *)

\* How far the read of a command is, and what it stored so far.
ReadsSo ==
    /\ req.addr + req.size <= OpSize(req)
    /\ \/ jobs = <<>>
       \/ /\ Len(jobs) = 1 /\ job.kind = "read" /\ job.left \in Nat
          /\ job.addr + job.left = req.addr + req.size
    /\ \A a \in Covered :
         jobs = <<>> \/ a < job.addr => got[a] = mem[Cell(req, a)]

Reading == pc = "run" /\ ~astray /\ req.op = "read" => ReadsSo

ReadInv == Inv /\ Reading /\ ReadIsFlash

\* What a command of one job leaves.
LEMMA Single ==
    ASSUME Framed, OnDie, Len(jobs) = 1, NEW n \in Nat, Moved(n)
    PROVE  /\ Tail(jobs) = <<>> /\ jobs' # <<>> /\ Len(jobs') = 1
           /\ job' = [job EXCEPT !.addr = @ + n, !.left = @ - n]
           /\ job'.kind = job.kind /\ job'.addr = job.addr + n /\ job'.left = job.left - n
<1>1. jobs \in Seq(JobRecords) /\ jobs # <<>> /\ job \in JobRecords
    BY Position
<1>2. Tail(jobs) \in Seq(JobRecords) /\ Len(Tail(jobs)) = 0
    BY <1>1, HeadTailProperties
<1>3. Tail(jobs) = <<>>
    BY <1>2, EmptySeq
<1>. DEFINE j == [job EXCEPT !.addr = @ + n, !.left = @ - n]
<1>4. /\ j \in JobRecords /\ j.left = job.left - n /\ j.addr = job.addr + n
      /\ j.kind = job.kind
    BY <1>1, MovedJob DEF JobRecords
<1>. HIDE DEF j
<1>5. jobs' = <<j>> \o <<>>
    BY <1>3 DEF Moved, j
<1>6. jobs' = <<j>>
    BY <1>4, <1>5, ConcatEmptySeq
<1>. QED BY <1>3, <1>4, <1>6 DEF job, j

LEMMA ReadInit == Init => Reading /\ ReadIsFlash
BY DEF Init, Reading, ReadIsFlash, Succeeded

LEMMA ReadStarts ==
    ASSUME ReadInv, NEW r \in Commands, Start(r) \/ StartMissing(r) \/ StartFails(r)
    PROVE  Reading' /\ ReadIsFlash'
<1>1. pc' = "idle" => res' = "failed"
    BY DEF Start, StartMissing, StartFails, Started, Ends
<1>2. ReadIsFlash'
    BY <1>1 DEF ReadIsFlash, Succeeded
<1>3. ASSUME pc' = "run", req'.op = "read" PROVE ReadsSo'
  <2>1. /\ req' = Clipped(r) /\ part' = part /\ ~Refused(Clipped(r))
        /\ jobs' = Plan(Clipped(r))
      BY <1>3 DEF Start, StartMissing, StartFails, Started, Given, Ends
  <2>2. Clipped(r) \in CommandRecords
    <3>1. r \in CommandRecords /\ Framed
        BY CommandsAssumption DEF ReadInv, Inv
    <3>2. Framed'
        BY <3>1, StartedFramed DEF Start, StartMissing, StartFails
    <3>. QED BY <2>1, <3>2 DEF Framed
  <2>. DEFINE q == Clipped(r)
              j == Job("read", "file", q.addr, q.size)
  <2>. HIDE DEF q
  <2>3. jobs' = <<j>> /\ req' = q
      BY <1>3, <2>1 DEF Plan, q
  <2>4. Len(jobs') = 1 /\ jobs' # <<>> /\ job' = j
      BY <2>3 DEF job
  <2>5. q.addr \in Nat /\ q.size \in Nat
      BY <2>2 DEF q, CommandRecords
  <2>6. OpSize(req)' = OpSize(q)
      BY <2>1, <2>3 DEF OpSize, DieCount
  <2>7. q.addr + q.size <= OpSize(q)
    <3>1. OpSize(q) \in Int
      <4>1. part.size * part.dies \in Int /\ part.size * 1 \in Int
        <5>1. part \in Parts
            BY DEF ReadInv, Inv, Framed
        <5>. QED BY <5>1, PartFacts, Product
      <4>. QED BY <4>1 DEF OpSize, DieCount
    <3>2. ~(q.addr + q.size > OpSize(q))
        BY <2>1 DEF Refused, q
    <3>. QED BY <3>1, <3>2, <2>5
  <2>8. \A a \in Covered' : ~(a < job'.addr)
      BY <2>3, <2>4, <2>5 DEF Covered, Job
  <2>. QED BY <2>3, <2>4, <2>5, <2>6, <2>7, <2>8 DEF ReadsSo, Job
<1>. QED BY <1>2, <1>3 DEF Reading

LEMMA ReadReads ==
    ASSUME ReadInv, Read, ~astray, req.op = "read"
    PROVE  ReadsSo'
<1>1. Sound /\ Framed /\ OnDie /\ ReadsSo
    BY DEF ReadInv, Read, Sound, OnDie, Inv, Reading
<1>2. /\ part \in Parts /\ req \in CommandRecords /\ req.die < part.dies
      /\ job.addr \in Nat /\ job.left \in Nat /\ OpLength \in Nat \ {0} /\ OpLength <= job.left
      /\ jobs # <<>>
  <2>1. /\ part \in Parts /\ req \in CommandRecords /\ req.die < part.dies
        /\ job.addr \in Nat /\ job.left \in Nat /\ OpLength \in Nat \ {0}
        /\ OpLength <= Here /\ Here <= job.left /\ Here \in Nat /\ jobs # <<>>
      BY <1>1, JobFacts
  <2>. QED BY <2>1
<1>3. /\ Len(jobs) = 1 /\ job.kind = "read" /\ job.addr + job.left = req.addr + req.size
      /\ req.addr + req.size <= OpSize(req)
      /\ \A a \in Covered : a < job.addr => got[a] = mem[Cell(req, a)]
    BY <1>1, <1>2 DEF ReadsSo
<1>. DEFINE n == OpLength
            c == Cell(req, job.addr)
<1>4. /\ Moved(n) /\ UNCHANGED <<part, mem, req>>
      /\ got' = [a \in Cells |-> IF a \in job.addr .. job.addr + n - 1
                                 THEN mem[c + (a - job.addr)] ELSE got[a]]
    BY <1>1, Place DEF Read
<1>5. /\ jobs' # <<>> /\ Len(jobs') = 1
      /\ job'.kind = "read" /\ job'.addr = job.addr + n /\ job'.left = job.left - n
    BY <1>1, <1>2, <1>3, <1>4, Single
<1>6. req.addr \in Nat /\ req.size \in Nat /\ OpSize(req) \in Nat
    BY <1>2, SizeFacts DEF CommandRecords
<1>7. ASSUME NEW a \in Covered, a < job.addr + n PROVE got'[a] = mem[Cell(req, a)]
  <2>1. a \in Nat /\ a < OpSize(req)
      BY <1>3, <1>6 DEF Covered
  <2>2. a \in Cells
      BY <1>2, <2>1, Addresses
  <2>3. CASE a < job.addr
      BY <1>2, <1>3, <1>4, <2>1, <2>2, <2>3
  <2>4. CASE job.addr <= a
    <3>1. a \in job.addr .. job.addr + n - 1
        BY <1>2, <1>7, <2>1, <2>4
    <3>2. got'[a] = mem[c + (a - job.addr)]
        BY <1>4, <2>2, <3>1
    <3>3. /\ Cell(req, 0) \in Nat /\ c = Cell(req, 0) + job.addr
          /\ Cell(req, a) = Cell(req, 0) + a
        BY <1>2, <2>1, CellSum
    <3>4. c + (a - job.addr) = Cell(req, a)
        BY <1>2, <2>1, <3>3
    <3>. QED BY <3>2, <3>4
  <2>. QED BY <1>2, <2>1, <2>3, <2>4
<1>8. /\ Covered' = Covered /\ OpSize(req)' = OpSize(req)
      /\ \A a : Cell(req, a)' = Cell(req, a)
    BY <1>4 DEF Covered, OpSize, DieCount, Cell, DieStart
<1>9. \A a \in Covered' : a < job'.addr => got'[a] = (mem[Cell(req, a)])'
    BY <1>4, <1>5, <1>7, <1>8
<1>10. job'.left \in Nat /\ job'.addr + job'.left = job.addr + job.left
    BY <1>2, <1>5
<1>11. (req.addr + req.size <= OpSize(req))'
    BY <1>3, <1>4, <1>8
<1>. QED BY <1>3, <1>4, <1>5, <1>9, <1>10, <1>11 DEF ReadsSo

\* Nothing that ReadsSo speaks of changes but the jobs.
LEMMA ReadDone ==
    ASSUME ReadInv, NextJob, ~astray, req.op = "read"
    PROVE  ReadsSo'
<1>1. Framed /\ ReadsSo /\ jobs # <<>> /\ jobs \in Seq(JobRecords)
      /\ (job.left = 0 \/ job.addr >= OpSize(req)) /\ jobs' = Tail(jobs)
      /\ UNCHANGED <<part, mem, req, got>>
    BY DEF ReadInv, NextJob, Inv, Reading, Framed, chip
<1>2. Len(jobs) = 1 /\ job.addr + job.left = req.addr + req.size /\ job.left \in Nat
      /\ req.addr + req.size <= OpSize(req)
      /\ \A a \in Covered : a < job.addr => got[a] = mem[Cell(req, a)]
    BY <1>1 DEF ReadsSo
<1>3. jobs' = <<>>
  <2>1. Tail(jobs) \in Seq(JobRecords) /\ Len(Tail(jobs)) = 0
      BY <1>1, <1>2, HeadTailProperties
  <2>. QED BY <1>1, <2>1, EmptySeq
<1>4. job.addr \in Nat
  <2>1. jobs[1] \in JobRecords
      BY <1>1
  <2>. QED BY <2>1 DEF job, JobRecords
<1>5. req.addr \in Nat /\ req.size \in Nat
    BY <1>1 DEF Framed, CommandRecords
<1>6. OpSize(req) \in Nat
  <2>1. part \in Parts /\ req \in CommandRecords /\ req.die < part.dies
      BY <1>1 DEF Framed, NextJob
  <2>. QED BY <2>1, SizeFacts
<1>7. \A a \in Covered : a < job.addr
  <2>1. req.addr + req.size <= job.addr
      BY <1>1, <1>2, <1>4, <1>5, <1>6
  <2>. QED BY <1>4, <1>5, <2>1 DEF Covered
<1>8. /\ Covered' = Covered /\ OpSize(req)' = OpSize(req)
      /\ \A a : Cell(req, a)' = Cell(req, a)
    BY <1>1 DEF Covered, OpSize, DieCount, Cell, DieStart
<1>. QED BY <1>1, <1>2, <1>3, <1>7, <1>8 DEF ReadsSo

LEMMA ReadNext == ASSUME ReadInv, [Next]_vars PROVE Reading' /\ ReadIsFlash'
<1>1. Inv
    BY DEF ReadInv
<1>2. ASSUME NEW r \in Commands, Start(r) \/ StartMissing(r) \/ StartFails(r)
      PROVE  Reading' /\ ReadIsFlash'
    BY <1>2, ReadStarts
<1>3. ASSUME Read PROVE Reading' /\ ReadIsFlash'
  <2>1. pc' = pc /\ pc = "run" /\ UNCHANGED <<req, astray>>
      BY <1>3 DEF Read, OnDie
  <2>2. Reading'
      BY <1>3, <2>1, ReadReads DEF Reading
  <2>. QED BY <2>1, <2>2 DEF ReadIsFlash, Succeeded
<1>4. ASSUME NextJob PROVE Reading' /\ ReadIsFlash'
  <2>1. pc' = pc /\ pc = "run" /\ UNCHANGED <<req, astray>>
      BY <1>4 DEF NextJob
  <2>2. Reading'
      BY <1>4, <2>1, ReadDone DEF Reading
  <2>. QED BY <2>1, <2>2 DEF ReadIsFlash, Succeeded
<1>5. ASSUME Finish PROVE Reading' /\ ReadIsFlash'
  <2>1. /\ pc' = "idle" /\ pc = "run" /\ jobs = <<>>
        /\ UNCHANGED <<part, mem, req, got, astray>>
      BY <1>5 DEF Finish, Ends, chip
  <2>2. Covered' = Covered /\ \A a : Cell(req, a)' = Cell(req, a)
      BY <2>1 DEF Covered, Cell, DieStart
  <2>. QED BY <2>1, <2>2 DEF ReadInv, Reading, ReadsSo, ReadIsFlash, Succeeded
<1>6. ASSUME Verify \/ Program \/ EraseAt \/ SelectFails \/ AddressFails \/ CommandFails
      PROVE  Reading' /\ ReadIsFlash'
  <2>1. /\ pc = "run" /\ OnDie /\ UNCHANGED <<req, astray>>
        /\ (pc' = "run" \/ res' = "failed")
      BY <1>6 DEF Verify, Program, EraseAt, SelectFails, AddressFails, CommandFails, OnDie, Ends
  <2>2. pc' # "run" \/ job.kind # "read"
      BY <1>6 DEF Verify, Program, EraseAt, SelectFails, AddressFails, CommandFails, Ends
  <2>3. Reading'
      BY <2>1, <2>2 DEF ReadInv, Reading, ReadsSo, OnDie
  <2>. QED BY <2>1, <2>3 DEF ReadIsFlash, Succeeded
<1>7. ASSUME UNCHANGED vars PROVE Reading' /\ ReadIsFlash'
  <2>1. UNCHANGED <<part, mem, pc, req, jobs, got, res, astray>>
      BY <1>7 DEF vars
  <2>2. /\ Covered' = Covered /\ OpSize(req)' = OpSize(req)
        /\ \A a : Cell(req, a)' = Cell(req, a)
      BY <2>1 DEF Covered, OpSize, DieCount, Cell, DieStart
  <2>. QED BY <2>1, <2>2 DEF ReadInv, Reading, ReadsSo, ReadIsFlash, Succeeded, job
<1>. QED BY <1>2, <1>3, <1>4, <1>5, <1>6, <1>7 DEF Next, Step

\* A read that succeeds stores what the flash holds at every address it was asked
\* for, for any chips and commands and operations of any length, although
\* selections and register writes are left out wherever the driver thinks that
\* it may, unless selecting a die failed during set-up.
THEOREM ReadsAreTrue == Spec => []ReadIsFlash
<1>1. Init => ReadInv
    BY InvInit, ReadInit DEF ReadInv
<1>2. ReadInv /\ [Next]_vars => ReadInv'
    BY InvNext, ReadNext DEF ReadInv
<1>3. ReadInv => ReadIsFlash
    BY DEF ReadInv
<1>. QED BY <1>1, <1>2, <1>3, PTL DEF Spec

-----------------------------------------------------------------------------
(* Sectors that fill their regions *)

RegionOf(x) == part.regions[CHOOSE i \in RegionsAt(x) : TRUE]

\* An address that the smallest erase type of its region divides.
Grid(a) == (a % part.size) % MinEraseSize(RegionOf(a % part.size)) = 0

LEMMA MultipleOrder ==
    ASSUME NEW n \in Nat \ {0}, NEW a \in Nat \ {0}, a % n = 0
    PROVE  n <= a
<1>1. PICK k \in Nat : a = n * k
    BY Factor
<1>2. k # 0
    BY <1>1
<1>3. n * 1 <= n * k /\ n * 1 = n
    BY <1>2, TimesOrder
<1>. QED BY <1>1, <1>3

LEMMA EvenRegion ==
    ASSUME part \in Parts, EvenSectors, NEW i \in 1 .. Len(part.regions)
    PROVE  LET g == part.regions[i]
               m == MinEraseSize(g)
           IN  /\ m \in Nat \ {0} /\ m \in g.types /\ IsPowerOf2(m)
               /\ g.base % m = 0 /\ g.size % m = 0
               /\ g.base \in Nat /\ g.size \in Nat \ {0} /\ g.base + g.size <= part.size
               /\ \A t \in g.types :
                    /\ t \in Nat \ {0} /\ Least(t, g.size) = t /\ t <= g.size
                    /\ IsPowerOf2(t) /\ t % m = 0
               /\ \A a : RoundDown(g, a) = a - (a % m)
<1>. DEFINE g == part.regions[i]
            m == MinEraseSize(g)
<1>1. /\ g \in Regions /\ g.base \in Nat /\ g.size \in Nat \ {0}
      /\ g.types \subseteq Nat \ {0} /\ i \in DOMAIN part.regions
    BY RegionFacts, PartFacts DEF Regions
<1>2. /\ g.base + g.size <= part.size
      /\ \A t \in g.types :
           /\ IsPowerOf2(t) /\ g.base % t = 0 /\ g.size % t = 0
           /\ \A u \in g.types : u <= t => t % u = 0
    BY <1>1 DEF EvenSectors
<1>3. \E t \in g.types : \A u \in g.types : t <= u
    BY PartsAssumption
<1>4. /\ Smallest(g.types) \in g.types /\ \A u \in g.types : Smallest(g.types) <= u
    BY <1>3 DEF Smallest
<1>5. \A t \in g.types : t <= g.size
    BY <1>1, <1>2, MultipleOrder
<1>6. m = Smallest(g.types)
    BY <1>1, <1>4, <1>5 DEF MinEraseSize, Least
<1>7. \A t \in g.types : Least(t, g.size) = t
    BY <1>1, <1>5 DEF Least
<1>8. /\ m \in g.types /\ \A u \in g.types : m <= u
    BY <1>4, <1>6
<1>9. \A a : RoundDown(g, a) = a - (a % m)
    BY <1>2, <1>8 DEF RoundDown
<1>. HIDE DEF m, g
<1>10. m \in Nat \ {0} /\ \A t \in g.types : t \in Nat \ {0} /\ t % m = 0
    BY <1>1, <1>2, <1>8
<1>11. IsPowerOf2(m) /\ g.base % m = 0 /\ g.size % m = 0
    BY <1>2, <1>8
<1>. QED BY <1>1, <1>2, <1>5, <1>7, <1>8, <1>9, <1>10, <1>11 DEF m, g

\* The region found at an address of a die holds it, and no other does.
LEMMA FoundHolds ==
    ASSUME part \in Parts, EvenSectors, NEW a \in Nat, a < part.size
    PROVE  LET i == CHOOSE i \in RegionsAt(a) : TRUE
           IN  /\ i \in 1 .. Len(part.regions) /\ RegionOf(a) = part.regions[i]
               /\ part.regions[i].base <= a
               /\ a < part.regions[i].base + part.regions[i].size
               /\ \A j \in 1 .. Len(part.regions) :
                    /\ part.regions[j].base <= a
                    /\ a < part.regions[j].base + part.regions[j].size
                    => j = i
<1>. DEFINE i == CHOOSE i \in RegionsAt(a) : TRUE
            Holds(j) == /\ part.regions[j].base <= a
                        /\ a < part.regions[j].base + part.regions[j].size
<1>1. a \in 0 .. part.size - 1 /\ part.size \in Nat /\ part.regions \in Seq(Regions)
    BY PartFacts
<1>2. RegionsAt(a) # {}
    BY <1>1, CoveredByRegion
<1>3. i \in RegionsAt(a)
    BY <1>2
<1>4. PICK k \in 1 .. Len(part.regions) : Holds(k)
    BY <1>1, PartsAssumption
<1>5. i \in 1 .. Len(part.regions) /\ Holds(i)
  <2>1. CASE Len(part.regions) = 1
    <3>1. i = 1 /\ k = 1
        BY <1>3, <1>4, <2>1 DEF RegionsAt
    <3>. QED BY <1>4, <3>1
  <2>2. CASE Len(part.regions) # 1
    <3>1. i \in {x \in DOMAIN part.regions :
             /\ part.regions[x].base <= a
             /\ a < part.regions[x].base + part.regions[x].size}
        BY <1>3, <2>2, Zenon DEF RegionsAt
    <3>. QED BY <1>1, <3>1
  <2>. QED BY <2>1, <2>2
<1>. HIDE DEF i
<1>6. ASSUME NEW x \in 1 .. Len(part.regions), NEW y \in 1 .. Len(part.regions),
             Holds(x), Holds(y), x < y
      PROVE  FALSE
  <2>1. part.regions[x].base + part.regions[x].size <= part.regions[y].base
      BY <1>1, <1>6 DEF EvenSectors
  <2>2. part.regions[x].base \in Nat /\ part.regions[x].size \in Nat /\ part.regions[y].base \in Nat
      BY RegionFacts
  <2>. QED BY <1>6, <2>1, <2>2
<1>7. \A j \in 1 .. Len(part.regions) : Holds(j) => j = i
    BY <1>1, <1>5, <1>6
<1>. QED BY <1>5, <1>7 DEF i, RegionOf

\* What the smallest erase type divides in a region, its end included, is on the
\* grid of the die.
LEMMA GridIn ==
    ASSUME part \in Parts, EvenSectors, NEW i \in 1 .. Len(part.regions),
           NEW x \in Nat, x < part.size, x % MinEraseSize(part.regions[i]) = 0,
           part.regions[i].base <= x, x <= part.regions[i].base + part.regions[i].size
    PROVE  x % MinEraseSize(RegionOf(x)) = 0
<1>. DEFINE k == CHOOSE k \in RegionsAt(x) : TRUE
            B(j) == part.regions[j].base
            E(j) == part.regions[j].base + part.regions[j].size
<1>1. /\ k \in 1 .. Len(part.regions) /\ RegionOf(x) = part.regions[k]
      /\ B(k) <= x /\ x < E(k)
      /\ \A j \in 1 .. Len(part.regions) : B(j) <= x /\ x < E(j) => j = k
    BY FoundHolds
<1>. HIDE DEF k
<1>2. \A j \in 1 .. Len(part.regions) : B(j) \in Nat /\ E(j) \in Nat /\ B(j) < E(j)
  <2>1. SUFFICES ASSUME NEW j \in 1 .. Len(part.regions)
                 PROVE  B(j) \in Nat /\ E(j) \in Nat /\ B(j) < E(j)
      OBVIOUS
  <2>2. part.regions[j].base \in Nat /\ part.regions[j].size \in Nat \ {0}
      BY RegionFacts
  <2>. QED BY <2>2
<1>3. part.regions \in Seq(Regions)
    BY PartFacts
<1>4. \A j, l \in 1 .. Len(part.regions) : j < l => E(j) <= B(l)
    BY <1>3 DEF EvenSectors
<1>5. \A j \in 2 .. Len(part.regions) : B(j) = E(j - 1)
    BY PartsAssumption
<1>6. CASE x < E(i)
  <2>1. i = k
      BY <1>1, <1>6
  <2>. QED BY <1>1, <2>1
<1>7. CASE x = E(i)
  <2>1. ~(k <= i)
    <3>1. k < i => E(k) <= B(i)
        BY <1>1, <1>4
    <3>2. k # i
        BY <1>1, <1>7
    <3>3. E(k) \in Nat /\ B(i) \in Nat /\ E(i) \in Nat /\ B(i) < E(i)
        BY <1>1, <1>2
    <3>4. ~(k < i)
        BY <1>1, <1>7, <3>1, <3>3
    <3>. QED BY <1>1, <3>2, <3>4
  <2>2. i + 1 \in 2 .. Len(part.regions) /\ (i + 1) - 1 = i
      BY <1>1, <2>1
  <2>3. B(i + 1) = E(i) /\ i + 1 \in 1 .. Len(part.regions)
      BY <1>5, <2>2
  <2>4. i + 1 = k
      BY <1>1, <1>2, <1>7, <2>3
  <2>5. B(k) = x
      BY <1>7, <2>3, <2>4
  <2>6. B(k) % MinEraseSize(part.regions[k]) = 0
      BY <1>1, EvenRegion
  <2>. QED BY <1>1, <2>5, <2>6
<1>8. x < E(i) \/ x = E(i)
    BY <1>2
<1>. QED BY <1>6, <1>7, <1>8

-----------------------------------------------------------------------------
(* The range of a command *)

LEMMA EvenRange ==
    ASSUME part \in Parts, EvenSectors, NEW r \in CommandRecords, r.op # "read", ~Refused(r)
    PROVE  /\ r.die < part.dies /\ r.addr \in Nat /\ r.size \in Nat \ {0} /\ OpSize(r) \in Nat
           /\ EraseRange(r).from \in Nat /\ EraseRange(r).to \in Nat
           /\ EraseRange(r).from <= r.addr /\ r.addr + r.size <= EraseRange(r).to
           /\ EraseRange(r).to <= OpSize(r)
           /\ Grid(EraseRange(r).from)
<1>. DEFINE first == CHOOSE i \in RegionsAt(r.addr) : TRUE
            last  == CHOOSE i \in RegionsAt(r.addr + r.size - 1) : TRUE
            g == part.regions[first]
            h == part.regions[last]
            m == MinEraseSize(g)
            n == MinEraseSize(h)
            end == r.addr + r.size
<1>1. /\ r.addr \in Nat /\ r.size \in Nat \ {0} /\ end \in Nat \ {0} /\ end - 1 \in Nat
      /\ r.addr + r.size - 1 = end - 1
    BY DEF CommandRecords
<1>2. r.die < part.dies
  <2>1. ~(r.die >= part.dies) /\ r.die \in Int /\ part.dies \in Int
      BY PartFacts DEF Refused, CommandRecords, AllDies
  <2>. QED BY <2>1
<1>3. OpSize(r) \in Nat /\ part.size \in Nat \ {0} /\ part.size <= OpSize(r)
    BY <1>2, SizeFacts, PartFacts
<1>4. /\ end <= OpSize(r) /\ r.addr < part.size
      /\ RegionsAt(r.addr) # {} /\ RegionsAt(end - 1) # {}
    BY <1>1, <1>3 DEF Refused, HasEraseRange
<1>5. /\ first \in 1 .. Len(part.regions) /\ g.base <= r.addr /\ r.addr < g.base + g.size
    BY <1>1, <1>4, FoundHolds
<1>6. /\ m \in Nat \ {0} /\ g.base \in Nat /\ g.base % m = 0 /\ \A a : RoundDown(g, a) = a - (a % m)
      /\ g.size \in Nat
    BY <1>5, EvenRegion
<1>. DEFINE from == r.addr - (r.addr % m)
<1>7. EraseRange(r).from = from
    BY <1>6 DEF EraseRange
<1>8. /\ from \in Nat /\ from % m = 0 /\ from <= r.addr
      /\ g.base <= from
    BY <1>1, <1>5, <1>6, Floor
<1>. HIDE DEF from, first, g, m
<1>9. Grid(from)
  <2>0. /\ from \in Nat /\ from <= r.addr /\ r.addr \in Nat /\ r.addr < part.size
        /\ r.addr < g.base + g.size /\ g.base \in Nat /\ g.size \in Nat /\ part.size \in Nat
      BY <1>1, <1>3, <1>4, <1>5, <1>6, <1>8, Zenon
  <2>1. from < part.size /\ from <= g.base + g.size
      BY <2>0
  <2>2. from % MinEraseSize(RegionOf(from)) = 0
      BY <1>5, <1>8, <2>1, GridIn DEF g, m
  <2>3. from % part.size = from
      BY <1>3, <1>8, <2>1
  <2>. QED BY <2>2, <2>3 DEF Grid
<1>10. last \in 1 .. Len(part.regions)
    BY <1>1, <1>4, FoundRegion
<1>11. /\ n \in Nat \ {0} /\ IsPowerOf2(n) /\ \A a : RoundDown(h, a) = a - (a % n)
       /\ h.base \in Nat /\ h.size \in Nat /\ h.base % n = 0 /\ h.size % n = 0
       /\ h.base + h.size <= part.size
    BY <1>10, EvenRegion
<1>12. EraseRange(r).to = (end + n - 1) - ((end + n - 1) % n)
    BY <1>11 DEF EraseRange, RangeEnd
<1>. HIDE DEF last, h, n
<1>13. \E b \in Nat : b % n = 0 /\ end <= b /\ b <= OpSize(r)
  <2>1. CASE Len(part.regions) = 1
    <3>1. last = 1 /\ h.base = 0
        BY <1>10, <2>1, PartsAssumption DEF h
    <3>2. part.size <= h.size
      <4>1. part.size - 1 \in 0 .. part.size - 1
          BY <1>3
      <4>2. PICK i \in 1 .. Len(part.regions) :
                part.size - 1 < part.regions[i].base + part.regions[i].size
          BY <4>1, PartsAssumption
      <4>3. i = last
          BY <2>1, <3>1
      <4>4. part.size - 1 < h.base + h.size
          BY <4>2, <4>3 DEF h
      <4>. QED BY <1>3, <1>11, <3>1, <4>4
    <3>3. part.size % n = 0
      <4>0. /\ h.base + h.size <= part.size /\ h.base = 0 /\ part.size <= h.size
            /\ part.size \in Nat /\ h.size \in Nat
          BY <1>3, <1>11, <3>1, <3>2, Zenon
      <4>1. part.size = h.size
          BY <4>0
      <4>. QED BY <1>11, <4>1
    <3>4. OpSize(r) % n = 0
      <4>1. DieCount(r) \in Nat
          BY PartFacts DEF DieCount
      <4>2. (part.size * DieCount(r)) % n = 0
          BY <1>3, <1>11, <3>3, <4>1, MultiplesTimes
      <4>. QED BY <4>2 DEF OpSize
    <3>5. OpSize(r) <= OpSize(r)
        BY <1>3
    <3>. QED BY <1>3, <1>4, <3>4, <3>5
  <2>2. CASE Len(part.regions) # 1
    <3>1. last \in RegionsAt(end - 1)
        BY <1>1, <1>4 DEF last
    <3>2. end - 1 < h.base + h.size
        BY <2>2, <3>1 DEF RegionsAt, h
    <3>. DEFINE b == h.base + h.size
    <3>3. b % n = 0
      <4>1. (h.base + h.size) % n = h.size % n
          BY <1>11, MultiplesAdd
      <4>. QED BY <1>11, <4>1
    <3>a. /\ end - 1 < h.base + h.size /\ h.base \in Nat /\ h.size \in Nat /\ end \in Nat
          /\ h.base + h.size <= part.size /\ part.size <= OpSize(r)
          /\ part.size \in Nat /\ OpSize(r) \in Nat
        BY <1>1, <1>3, <1>11, <3>2, Zenon
    <3>4. b \in Nat /\ end <= b /\ b <= OpSize(r)
        BY <3>a
    <3>. HIDE DEF b
    <3>. QED BY <3>3, <3>4
  <2>. QED BY <2>1, <2>2
<1>. HIDE DEF end
<1>14. /\ EraseRange(r).to \in Nat /\ end <= EraseRange(r).to /\ EraseRange(r).to <= OpSize(r)
  <2>1. PICK b \in Nat : b % n = 0 /\ end <= b /\ b <= OpSize(r)
      BY <1>13
  <2>. DEFINE a == end + n - 1
              f == a - (a % n)
  <2>2. a \in Nat /\ a < b + n /\ a + 1 = end + n
      BY <1>1, <1>11, <2>1
  <2>3. f \in Nat /\ a < f + n /\ f <= b
      BY <1>11, <2>1, <2>2, Floor
  <2>4. EraseRange(r).to = f
      BY <1>12
  <2>. HIDE DEF f, a
  <2>. QED BY <1>1, <1>3, <1>11, <2>1, <2>2, <2>3, <2>4
<1>. QED BY <1>1, <1>2, <1>3, <1>7, <1>8, <1>9, <1>14 DEF end

-----------------------------------------------------------------------------
(* What an erase clears *)

LEMMA EvenErase ==
    ASSUME Sound, EvenSectors, Fitting(Region, From, To) # {}, Grid(job.addr)
    PROVE  LET t == Chosen(Region, From, To)
           IN  /\ t \in Nat \ {0} /\ Least(t, To - From) = t /\ t <= job.left
               /\ EraseTarget(t) = {Cell(req, a) : a \in job.addr .. job.addr + t - 1}
               /\ Grid(job.addr + t)
<1>. DEFINE i == CHOOSE i \in RegionsAt(Offset) : TRUE
            g == part.regions[i]
            m == MinEraseSize(g)
            s == part.size
            addr == job.addr
<1>1. /\ part \in Parts /\ req \in CommandRecords /\ req.die < part.dies
      /\ addr \in Nat /\ job.left \in Nat /\ Offset \in Nat
      /\ Here \in Nat \ {0} /\ Here <= job.left /\ Offset + Here <= s
      /\ s \in Nat \ {0} /\ Offset < s
  <2>1. /\ part \in Parts /\ req \in CommandRecords /\ req.die < part.dies
        /\ addr \in Nat /\ job.left \in Nat /\ Offset \in Nat
        /\ Here \in Nat \ {0} /\ Here <= job.left /\ Offset + Here <= s
      BY JobFacts
  <2>2. s \in Nat \ {0}
      BY <2>1, PartFacts
  <2>. QED BY <2>1, <2>2
<1>2. /\ i \in 1 .. Len(part.regions) /\ RegionOf(Offset) = g /\ Region = g
      /\ g.base <= Offset /\ Offset < g.base + g.size
    BY <1>1, FoundHolds DEF Region
<1>3. /\ m \in Nat \ {0} /\ m \in g.types /\ g.base \in Nat /\ g.size \in Nat \ {0}
      /\ \A t \in g.types :
           t \in Nat \ {0} /\ Least(t, g.size) = t /\ IsPowerOf2(t) /\ t % m = 0
      /\ \A a : RoundDown(g, a) = a - (a % m)
      /\ g.base + g.size <= s
    BY <1>1, <1>2, EvenRegion
<1>4. Offset % m = 0
    BY <1>2 DEF Grid, Offset
<1>. HIDE DEF i, m, g
<1>5. From = Offset
    BY <1>1, <1>2, <1>3, <1>4 DEF From, EraseFrom
<1>6. To \in Int /\ To <= Offset + Here /\ To <= g.base + g.size
  <2>1. To = Least((Offset + Here) - ((Offset + Here) % m), g.base + g.size)
      BY <1>2, <1>3 DEF To, EraseTo
  <2>. DEFINE e == Offset + Here
              f == e - (e % m)
  <2>2. e \in Nat
      BY <1>1
  <2>3. f \in Nat /\ f <= e
      BY <1>3, <2>2, Floor
  <2>. HIDE DEF f
  <2>4. To = Least(f, g.base + g.size)
      BY <2>1 DEF f
  <2>. QED BY <1>3, <2>2, <2>3, <2>4 DEF Least
<1>. DEFINE t == Chosen(Region, From, To)
<1>7. t \in Fitting(Region, From, To)
  <2>1. Fitting(Region, From, To) \in SUBSET g.types
      BY <1>2 DEF Fitting
  <2>2. PICK u \in Fitting(Region, From, To) : \A v \in Fitting(Region, From, To) : v <= u
      BY <1>1, <1>2, <2>1, PartsAssumption DEF g
  <2>3. \A v \in Fitting(Region, From, To) : Least(v, Region.size) <= Least(u, Region.size)
      BY <1>2, <1>3, <2>1, <2>2
  <2>. QED BY <2>2, <2>3 DEF Chosen
<1>8. t \in g.types /\ t \in Nat \ {0} /\ Offset % t = 0 /\ To - Offset >= t /\ t % m = 0
    BY <1>2, <1>3, <1>5, <1>7 DEF Fitting, Aligned
<1>. HIDE DEF t
<1>a. /\ addr \in Nat /\ Offset \in Nat /\ Here \in Nat /\ Here <= job.left /\ Offset + Here <= s
      /\ job.left \in Nat /\ s \in Nat /\ g.base \in Nat /\ g.size \in Nat
      /\ g.base + g.size <= s /\ g.base <= Offset
      /\ To \in Int /\ To <= Offset + Here /\ To <= g.base + g.size
      /\ t \in Nat /\ t # 0 /\ To - Offset >= t
    BY <1>1, <1>2, <1>3, <1>6, <1>8
<1>9. /\ Least(t, To - From) = t /\ t <= Here /\ t <= job.left /\ Offset + t <= g.base + g.size
      /\ Offset + t <= s
    BY <1>a, <1>5 DEF Least
<1>10. Block(Region, t, From) = Offset .. Offset + t - 1
  <2>1. \A x \in Nat : x \div t = Offset \div t <=> Offset <= x /\ x < Offset + t
      BY <1>1, <1>8, SameQuotient
  <2>2. ASSUME NEW x PROVE x \in Block(Region, t, From) <=> x \in Offset .. Offset + t - 1
    <3>1. x \in Block(Region, t, From)
            <=> x \in g.base .. g.base + g.size - 1 /\ x \div t = Offset \div t
        BY <1>2, <1>5 DEF Block
    <3>2. ASSUME x \in g.base .. g.base + g.size - 1, x \div t = Offset \div t
          PROVE  x \in Offset .. Offset + t - 1
        BY <1>a, <2>1, <3>2
    <3>3. ASSUME x \in Offset .. Offset + t - 1
          PROVE  x \in g.base .. g.base + g.size - 1 /\ x \div t = Offset \div t
        BY <1>a, <1>9, <2>1, <3>3
    <3>. QED BY <3>1, <3>2, <3>3
  <2>. QED BY <2>2
<1>11. EraseTarget(t) = {Cell(req, a) : a \in addr .. addr + t - 1}
  <2>1. EraseTarget(t) = {Cell(req, addr) + (x - Offset) : x \in Offset .. Offset + t - 1}
      BY <1>5, <1>10, Place DEF EraseTarget
  <2>2. Cell(req, 0) \in Nat /\ \A a \in Nat : Cell(req, a) = Cell(req, 0) + a
      BY <1>1, CellSum
  <2>3. ASSUME NEW x \in Offset .. Offset + t - 1
        PROVE  \E a \in addr .. addr + t - 1 : Cell(req, addr) + (x - Offset) = Cell(req, a)
    <3>1. addr + (x - Offset) \in addr .. addr + t - 1 /\ addr + (x - Offset) \in Nat
          /\ x - Offset \in Int
        BY <1>1, <1>8
    <3>2. Cell(req, addr) + (x - Offset) = Cell(req, addr + (x - Offset))
        BY <1>1, <2>2, <3>1
    <3>. QED BY <3>1, <3>2
  <2>4. ASSUME NEW a \in addr .. addr + t - 1
        PROVE  \E x \in Offset .. Offset + t - 1 : Cell(req, addr) + (x - Offset) = Cell(req, a)
    <3>1. Offset + (a - addr) \in Offset .. Offset + t - 1 /\ a \in Nat
          /\ (Offset + (a - addr)) - Offset = a - addr /\ a - addr \in Int
        BY <1>1, <1>8
    <3>2. Cell(req, addr) + (a - addr) = Cell(req, a)
        BY <1>1, <2>2, <3>1
    <3>. QED BY <3>1, <3>2
  <2>. HIDE DEF addr
  <2>. QED BY <2>1, <2>3, <2>4
<1>12. Grid(addr + t)
  <2>. DEFINE q == addr \div s
  <2>1. addr = s * q + Offset /\ q \in Nat /\ s * q \in Nat /\ s * (q + 1) = s * q + s
    <3>1. addr = s * q + Offset /\ q \in Nat
        BY <1>1, DivisionParts DEF Offset
    <3>. QED BY <1>1, <3>1, Times
  <2>. HIDE DEF q
  <2>2. CASE Offset + t < s
    <3>. DEFINE x == Offset + t
    <3>1. x \in 0 .. s - 1 /\ x \in Nat /\ x < s
        BY <1>1, <1>8, <2>2
    <3>2. (s * q + x) % s = x
        BY <1>1, <2>1, <3>1, DivisionUnique
    <3>3. x % m = 0
        BY <1>1, <1>3, <1>4, <1>8, MultiplesAdd
    <3>. HIDE DEF x
    <3>4. x % MinEraseSize(RegionOf(x)) = 0
      <4>1. g.base <= x /\ x <= g.base + g.size
          BY <1>a, <1>9 DEF x
      <4>. QED BY <1>1, <1>2, <3>1, <3>3, <4>1, GridIn DEF g, m
    <3>5. addr + t = s * q + x
        BY <1>1, <1>8, <2>1 DEF x
    <3>6. (addr + t) % s = x
        BY <3>2, <3>5
    <3>. QED BY <3>4, <3>6 DEF Grid
  <2>3. CASE Offset + t = s
    <3>1. addr + t = s * (q + 1) /\ q + 1 \in Nat
        BY <1>1, <1>8, <2>1, <2>3
    <3>2. (addr + t) % s = 0
        BY <1>1, <3>1, Multiple
    <3>3. 0 % MinEraseSize(RegionOf(0)) = 0
      <4>. DEFINE k == CHOOSE k \in RegionsAt(0) : TRUE
      <4>1. k \in 1 .. Len(part.regions) /\ RegionOf(0) = part.regions[k]
          BY <1>1, FoundHolds
      <4>. HIDE DEF k
      <4>2. MinEraseSize(RegionOf(0)) \in Nat \ {0}
          BY <1>1, <4>1, RegionFacts
      <4>. QED BY <4>2
    <3>. QED BY <3>2, <3>3 DEF Grid
  <2>. QED BY <1>9, <1>1, <1>8, <2>2, <2>3
<1>. QED BY <1>8, <1>9, <1>11, <1>12 DEF t

-----------------------------------------------------------------------------
(* What a command that stores keeps true *)

Items(s) == {s[i] : i \in DOMAIN s}

Covers(j, a) == j.addr <= a /\ a < j.addr + j.left

\* What a command that succeeds leaves at an address of its range.
FileCell(a) == a \in Covered /\ req.op \in {"write", "update"}
KeptCell(a) == a \in RangeCells \ Covered /\ req.op = "update"

Final(a) ==
    IF FileCell(a) THEN FileData(a) ELSE IF KeptCell(a) THEN start[Cell(req, a)] ELSE Blank

Waits(s, a) == \E j \in Items(s) : j.kind = "write" /\ Covers(j, a)

\* A job stays in the range; an erase goes to its end, and a write has the data
\* that belongs there.
Proper(j) ==
    /\ j.left \in Nat
    /\ EraseRange(req).from <= j.addr /\ j.addr + j.left <= EraseRange(req).to
    /\ j.kind = "erase" => j.addr + j.left = EraseRange(req).to /\ Grid(j.addr)
    /\ j.kind = "write" =>
         \A a \in RangeCells : Covers(j, a) =>
             IF j.data = "file" THEN FileCell(a) ELSE KeptCell(a)

\* Reads come first, then the erase.
Sorted(s) ==
    \A i, j \in 1 .. Len(s) : i < j /\ s[j].kind \in {"read", "erase"} => s[i].kind = "read"

\* What is read is read before anything is erased.
ReadsFirst(s) ==
    \A j \in Items(s) : j.kind = "read" =>
        \E e \in Items(s) : e.kind = "erase" /\ e.addr = EraseRange(req).from

\* What is not read yet will be.
Kept(s) ==
    \A a \in RangeCells : KeptCell(a) =>
        \/ got[a] = start[Cell(req, a)]
        \/ \E j \in Items(s) : j.kind = "read" /\ Covers(j, a)

\* The blocks in front of the erase are blank, those behind it as they were, and
\* what belongs there is still to be written.
HalfErased(s) ==
    \A e \in Items(s) : e.kind = "erase" =>
        \A a \in RangeCells :
            /\ mem[Cell(req, a)] = IF a < e.addr THEN Blank ELSE start[Cell(req, a)]
            /\ FileCell(a) \/ KeptCell(a) => Waits(s, a)

\* After the erase a cell holds what belongs there, or it will be written.
HalfWritten(s) ==
    (\A e \in Items(s) : e.kind # "erase") =>
        \A a \in RangeCells :
            \/ mem[Cell(req, a)] = Final(a)
            \/ mem[Cell(req, a)] = Blank /\ Waits(s, a)

Outside ==
    /\ mem = [c \in Cells |-> mem[c]]
    /\ \A c \in Cells : mem[c] = start[c] \/ \E a \in RangeCells : c = Cell(req, a)

Stores(s) ==
    /\ ~Refused(req)
    /\ \A j \in Items(s) : Proper(j)
    /\ Sorted(s) /\ ReadsFirst(s) /\ Kept(s) /\ HalfErased(s) /\ HalfWritten(s)
    /\ Outside

Storing == pc = "run" /\ ~astray /\ req.op # "read" => Stores(jobs)

-----------------------------------------------------------------------------
(* Lists of jobs *)

LEMMA ItemsOf ==
    ASSUME NEW s \in Seq(JobRecords)
    PROVE  \A j : j \in Items(s) <=> \E i \in 1 .. Len(s) : s[i] = j
BY DEF Items

LEMMA ItemsTyped ==
    ASSUME NEW s \in Seq(JobRecords)
    PROVE  Items(s) \subseteq JobRecords
BY DEF Items

LEMMA ItemsConcat ==
    ASSUME NEW s \in Seq(JobRecords), NEW t \in Seq(JobRecords)
    PROVE  Items(s \o t) = Items(s) \cup Items(t)
<1>. DEFINE z == s \o t
<1>1. /\ z \in Seq(JobRecords) /\ Len(z) = Len(s) + Len(t)
      /\ Len(s) \in Nat /\ Len(t) \in Nat
      /\ \A i \in 1 .. Len(s) + Len(t) : z[i] = IF i <= Len(s) THEN s[i] ELSE t[i - Len(s)]
    BY ConcatProperties, LenProperties
<1>2. ASSUME NEW i \in 1 .. Len(z) PROVE z[i] \in Items(s) \cup Items(t)
  <2>1. CASE i <= Len(s)
      BY <1>1, <2>1, ItemsOf
  <2>2. CASE Len(s) < i
    <3>1. i - Len(s) \in 1 .. Len(t) /\ z[i] = t[i - Len(s)]
        BY <1>1, <2>2
    <3>. QED BY <3>1, ItemsOf
  <2>. QED BY <1>1, <2>1, <2>2
<1>3. ASSUME NEW i \in 1 .. Len(s) PROVE s[i] \in Items(z)
  <2>1. i \in 1 .. Len(z) /\ z[i] = s[i]
      BY <1>1
  <2>. QED BY <1>1, <2>1, ItemsOf
<1>4. ASSUME NEW i \in 1 .. Len(t) PROVE t[i] \in Items(z)
  <2>1. i + Len(s) \in 1 .. Len(z) /\ z[i + Len(s)] = t[i]
      BY <1>1
  <2>. QED BY <1>1, <2>1, ItemsOf
<1>. HIDE DEF z
<1>5. Items(z) \subseteq Items(s) \cup Items(t)
    BY <1>1, <1>2, ItemsOf
<1>6. Items(s) \subseteq Items(z) /\ Items(t) \subseteq Items(z)
    BY <1>3, <1>4, ItemsOf
<1>. QED BY <1>5, <1>6 DEF z

LEMMA SortedConcat ==
    ASSUME NEW s \in Seq(JobRecords), NEW t \in Seq(JobRecords), Sorted(s), Sorted(t),
           \/ \A j \in Items(s) : j.kind = "read"
           \/ \A j \in Items(t) : j.kind \notin {"read", "erase"}
    PROVE  Sorted(s \o t)
<1>. DEFINE z == s \o t
<1>1. /\ z \in Seq(JobRecords) /\ Len(z) = Len(s) + Len(t)
      /\ Len(s) \in Nat /\ Len(t) \in Nat
      /\ \A i \in 1 .. Len(s) + Len(t) : z[i] = IF i <= Len(s) THEN s[i] ELSE t[i - Len(s)]
    BY ConcatProperties, LenProperties
<1>2. SUFFICES ASSUME NEW i \in 1 .. Len(z), NEW j \in 1 .. Len(z), i < j,
                      z[j].kind \in {"read", "erase"}
               PROVE  z[i].kind = "read"
    BY DEF Sorted
<1>3. CASE j <= Len(s)
  <2>1. i \in 1 .. Len(s) /\ j \in 1 .. Len(s) /\ z[i] = s[i] /\ z[j] = s[j]
      BY <1>1, <1>2, <1>3
  <2>. QED BY <1>2, <2>1 DEF Sorted
<1>4. CASE i <= Len(s) /\ Len(s) < j
  <2>1. i \in 1 .. Len(s) /\ z[i] = s[i] /\ j - Len(s) \in 1 .. Len(t) /\ z[j] = t[j - Len(s)]
      BY <1>1, <1>4
  <2>2. z[i] \in Items(s) /\ z[j] \in Items(t)
      BY <2>1, ItemsOf
  <2>. QED BY <1>2, <2>2
<1>5. CASE Len(s) < i /\ Len(s) < j
  <2>1. /\ i - Len(s) \in 1 .. Len(t) /\ z[i] = t[i - Len(s)]
        /\ j - Len(s) \in 1 .. Len(t) /\ z[j] = t[j - Len(s)]
        /\ i - Len(s) < j - Len(s)
      BY <1>1, <1>2, <1>5
  <2>. QED BY <1>2, <2>1 DEF Sorted
<1>. QED BY <1>1, <1>2, <1>3, <1>4, <1>5

LEMMA OneJob ==
    ASSUME NEW j \in JobRecords
    PROVE  /\ <<j>> \in Seq(JobRecords) /\ Items(<<j>>) = {j} /\ Sorted(<<j>>)
BY DEF Items, Sorted

LEMMA NoJob == <<>> \in Seq(JobRecords) /\ Items(<<>>) = {} /\ Sorted(<<>>)
BY DEF Items, Sorted

\* The first job and the others.
LEMMA FirstJob ==
    ASSUME NEW s \in Seq(JobRecords), s # <<>>
    PROVE  /\ s[1] \in JobRecords /\ Tail(s) \in Seq(JobRecords)
           /\ Items(s) = {s[1]} \cup Items(Tail(s))
           /\ Sorted(s) =>
                /\ Sorted(Tail(s))
                /\ s[1].kind # "read" =>
                     \A k \in Items(Tail(s)) : k.kind \notin {"read", "erase"}
                /\ \A j \in JobRecords : j.kind = s[1].kind => Sorted(<<j>> \o Tail(s))
<1>. DEFINE t == Tail(s)
<1>1. /\ s[1] \in JobRecords /\ t \in Seq(JobRecords) /\ Len(t) = Len(s) - 1
      /\ Len(s) \in Nat /\ Len(s) > 0 /\ \A i \in 1 .. Len(t) : t[i] = s[i + 1]
    BY HeadTailProperties, LenProperties
<1>. HIDE DEF t
<1>2. ASSUME NEW i \in 1 .. Len(s) PROVE s[i] \in {s[1]} \cup Items(t)
  <2>1. CASE i # 1
    <3>1. i - 1 \in 1 .. Len(t) /\ t[i - 1] = s[i]
        BY <1>1, <2>1
    <3>. QED BY <1>1, <3>1, ItemsOf
  <2>. QED BY <2>1
<1>3. ASSUME NEW i \in 1 .. Len(t) PROVE t[i] \in Items(s) /\ i + 1 \in 1 .. Len(s)
  <2>1. i + 1 \in 1 .. Len(s) /\ t[i] = s[i + 1]
      BY <1>1
  <2>. QED BY <2>1, ItemsOf
<1>4. Items(s) = {s[1]} \cup Items(t)
  <2>1. Items(s) \subseteq {s[1]} \cup Items(t)
      BY <1>2, ItemsOf
  <2>2. Items(t) \subseteq Items(s)
      BY <1>1, <1>3, ItemsOf
  <2>3. s[1] \in Items(s)
    <3>1. 1 \in 1 .. Len(s)
        BY <1>1
    <3>. QED BY <3>1, ItemsOf
  <2>. QED BY <2>1, <2>2, <2>3
<1>5. ASSUME Sorted(s)
      PROVE  /\ Sorted(t)
             /\ s[1].kind # "read" => \A k \in Items(t) : k.kind \notin {"read", "erase"}
  <2>1. ASSUME NEW i \in 1 .. Len(t), NEW j \in 1 .. Len(t), i < j,
               t[j].kind \in {"read", "erase"}
        PROVE  t[i].kind = "read"
    <3>1. i + 1 < j + 1 /\ t[i] = s[i + 1] /\ t[j] = s[j + 1]
        BY <1>1, <2>1
    <3>. QED BY <1>3, <1>5, <2>1, <3>1 DEF Sorted
  <2>2. ASSUME NEW i \in 1 .. Len(t), t[i].kind \in {"read", "erase"} PROVE s[1].kind = "read"
    <3>1. 1 < i + 1 /\ 1 \in 1 .. Len(s) /\ t[i] = s[i + 1]
        BY <1>1
    <3>. QED BY <1>3, <1>5, <2>2, <3>1 DEF Sorted
  <2>. QED BY <1>1, <2>1, <2>2, ItemsOf DEF Sorted
<1>6. ASSUME Sorted(s), NEW j \in JobRecords, j.kind = s[1].kind
      PROVE  Sorted(<<j>> \o t)
  <2>1. <<j>> \in Seq(JobRecords) /\ Items(<<j>>) = {j} /\ Sorted(<<j>>)
      BY OneJob
  <2>2. \/ \A k \in Items(<<j>>) : k.kind = "read"
        \/ \A k \in Items(t) : k.kind \notin {"read", "erase"}
      BY <1>5, <1>6, <2>1
  <2>. QED BY <1>1, <1>5, <1>6, <2>1, <2>2, SortedConcat
<1>. QED BY <1>1, <1>4, <1>5, <1>6 DEF t

-----------------------------------------------------------------------------
(* The plan of a command that stores *)

LEMMA InRange ==
    ASSUME EvenSectors, part \in Parts, req \in CommandRecords, req.op # "read", ~Refused(req)
    PROVE  /\ req.die < part.dies /\ req.addr \in Nat /\ req.size \in Nat \ {0}
           /\ EraseRange(req).from \in Nat /\ EraseRange(req).to \in Nat
           /\ EraseRange(req).from <= req.addr /\ req.addr + req.size <= EraseRange(req).to
           /\ EraseRange(req).to <= OpSize(req) /\ OpSize(req) \in Nat
           /\ Grid(EraseRange(req).from)
           /\ \A a \in RangeCells :
                /\ a \in Nat /\ EraseRange(req).from <= a /\ a < EraseRange(req).to
                /\ a \in Cells /\ Cell(req, a) \in Cells
           /\ \A a, b \in RangeCells : Cell(req, a) = Cell(req, b) => a = b
           /\ Covered \subseteq RangeCells
<1>1. /\ req.die < part.dies /\ req.addr \in Nat /\ req.size \in Nat \ {0}
      /\ EraseRange(req).from \in Nat /\ EraseRange(req).to \in Nat
      /\ EraseRange(req).from <= req.addr /\ req.addr + req.size <= EraseRange(req).to
      /\ EraseRange(req).to <= OpSize(req) /\ OpSize(req) \in Nat
      /\ Grid(EraseRange(req).from)
    BY EvenRange
<1>2. \A a \in RangeCells :
        a \in Nat /\ EraseRange(req).from <= a /\ a < EraseRange(req).to /\ a < OpSize(req)
    BY <1>1 DEF RangeCells
<1>3. \A a \in RangeCells : a \in Cells /\ Cell(req, a) \in Cells
    BY <1>1, <1>2, Addresses
<1>4. \A a \in RangeCells : Cell(req, a) = Cell(req, 0) + a /\ Cell(req, 0) \in Nat
    BY <1>1, <1>2, CellSum
<1>5. \A a, b \in RangeCells : Cell(req, a) = Cell(req, b) => a = b
    BY <1>2, <1>4
<1>6. Covered \subseteq RangeCells
    BY <1>1 DEF Covered, RangeCells
<1>. QED BY <1>1, <1>2, <1>3, <1>5, <1>6

LEMMA SavedJobs ==
    ASSUME NEW a \in Nat, NEW n \in Nat
    PROVE  /\ Saved(a, n) \in Seq(JobRecords) /\ Sorted(Saved(a, n))
           /\ Items(Saved(a, n)) = IF n = 0 THEN {} ELSE {Job("read", "backup", a, n)}
<1>1. Job("read", "backup", a, n) \in JobRecords
    BY DEF Job, JobRecords
<1>. QED BY <1>1, OneJob, NoJob DEF Saved

LEMMA WrittenJobs ==
    ASSUME NEW a \in Nat, NEW n \in Nat, NEW data \in {"file", "backup"}, NEW v \in BOOLEAN
    PROVE  /\ Written(data, a, n, v) \in Seq(JobRecords) /\ Sorted(Written(data, a, n, v))
           /\ Items(Written(data, a, n, v))
                \subseteq {Job("write", data, a, n), Job("verify", data, a, n)}
           /\ n # 0 => Job("write", data, a, n) \in Items(Written(data, a, n, v))
<1>. DEFINE w == Job("write", data, a, n)
            u == Job("verify", data, a, n)
<1>1. w \in JobRecords /\ u \in JobRecords /\ w.kind = "write" /\ u.kind = "verify"
    BY DEF Job, JobRecords
<1>. HIDE DEF w, u
<1>2. CASE n = 0
    BY <1>2, NoJob DEF Written
<1>3. CASE n # 0 /\ v
  <2>1. Written(data, a, n, v) = <<w>> \o <<u>>
      BY <1>3 DEF Written, w, u
  <2>2. Items(<<w>>) = {w} /\ Items(<<u>>) = {u} /\ <<w>> \in Seq(JobRecords)
        /\ <<u>> \in Seq(JobRecords) /\ Sorted(<<w>>) /\ Sorted(<<u>>)
      BY <1>1, OneJob
  <2>3. Sorted(<<w>> \o <<u>>)
      BY <1>1, <2>2, SortedConcat
  <2>4. Items(<<w>> \o <<u>>) = {w} \cup {u} /\ <<w>> \o <<u>> \in Seq(JobRecords)
      BY <2>2, ItemsConcat, ConcatProperties
  <2>. QED BY <2>1, <2>3, <2>4 DEF w, u
<1>4. CASE n # 0 /\ ~v
  <2>1. Written(data, a, n, v) = <<w>> \o <<>>
      BY <1>4 DEF Written, w
  <2>2. Written(data, a, n, v) = <<w>>
      BY <1>1, <2>1, OneJob, ConcatEmptySeq
  <2>. QED BY <1>1, <2>2, OneJob DEF w, u
<1>. QED BY <1>2, <1>3, <1>4

LEMMA SidesOf ==
    ASSUME EvenSectors, part \in Parts, req \in CommandRecords, req.op # "read", ~Refused(req)
    PROVE  /\ Front(req) \in Nat /\ Back(req) \in Nat
           /\ EraseRange(req).from + Front(req) <= req.addr
           /\ req.addr + req.size + Back(req) <= EraseRange(req).to
           /\ req.op = "update" =>
                /\ EraseRange(req).from + Front(req) = req.addr
                /\ req.addr + req.size + Back(req) = EraseRange(req).to
           /\ req.op # "update" => Front(req) = 0 /\ Back(req) = 0
BY InRange DEF Front, Back

LEMMA RewrittenJobs ==
    ASSUME EvenSectors, part \in Parts, req \in CommandRecords, req.op \in {"write", "update"},
           ~Refused(req)
    PROVE  LET p  == Plan(req)
               from == EraseRange(req).from
               end == req.addr + req.size
           IN  /\ p \in Seq(JobRecords) /\ Sorted(p)
               /\ \A j \in Items(p) :
                    \/ j.kind = "verify"
                    \/ j = Job("read", "backup", from, Front(req))
                    \/ j = Job("read", "backup", end, Back(req))
                    \/ j = Job("erase", "none", from, EraseRange(req).to - from)
                    \/ j = Job("write", "file", req.addr, req.size)
                    \/ j = Job("write", "backup", from, Front(req))
                    \/ j = Job("write", "backup", end, Back(req))
               /\ \A j \in Items(p) : j.kind = "verify" =>
                    \/ j = Job("verify", "file", req.addr, req.size)
                    \/ j = Job("verify", "backup", from, Front(req))
                    \/ j = Job("verify", "backup", end, Back(req))
               /\ Job("erase", "none", from, EraseRange(req).to - from) \in Items(p)
               /\ Job("write", "file", req.addr, req.size) \in Items(p)
               /\ Front(req) # 0 =>
                    /\ Job("read", "backup", from, Front(req)) \in Items(p)
                    /\ Job("write", "backup", from, Front(req)) \in Items(p)
               /\ Back(req) # 0 =>
                    /\ Job("read", "backup", end, Back(req)) \in Items(p)
                    /\ Job("write", "backup", end, Back(req)) \in Items(p)
<1>. DEFINE from == EraseRange(req).from
            end == req.addr + req.size
            e == Job("erase", "none", from, EraseRange(req).to - from)
            v == req.verify
            s1 == Saved(from, Front(req))
            s2 == Saved(end, Back(req))
            w1 == Written("file", req.addr, req.size, v)
            w2 == Written("backup", from, Front(req), v)
            w3 == Written("backup", end, Back(req), v)
<1>1. /\ from \in Nat /\ end \in Nat /\ req.addr \in Nat /\ req.size \in Nat \ {0}
      /\ EraseRange(req).to - from \in Nat /\ v \in BOOLEAN
      /\ Front(req) \in Nat /\ Back(req) \in Nat
  <2>1. /\ req.addr \in Nat /\ req.size \in Nat \ {0} /\ EraseRange(req).to \in Nat
        /\ from \in Nat /\ from <= req.addr /\ end <= EraseRange(req).to
      BY InRange
  <2>2. EraseRange(req).to - from \in Nat /\ end \in Nat
      BY <2>1
  <2>. QED BY <2>1, <2>2, SidesOf DEF CommandRecords
<1>. HIDE DEF from, end, v
<1>2. /\ s1 \in Seq(JobRecords) /\ Sorted(s1)
      /\ Items(s1) = IF Front(req) = 0 THEN {} ELSE {Job("read", "backup", from, Front(req))}
      /\ s2 \in Seq(JobRecords) /\ Sorted(s2)
      /\ Items(s2) = IF Back(req) = 0 THEN {} ELSE {Job("read", "backup", end, Back(req))}
    BY <1>1, SavedJobs
<1>3. /\ w1 \in Seq(JobRecords) /\ Sorted(w1)
      /\ Items(w1) \subseteq {Job("write", "file", req.addr, req.size),
                              Job("verify", "file", req.addr, req.size)}
      /\ Job("write", "file", req.addr, req.size) \in Items(w1)
    BY <1>1, WrittenJobs
<1>4. /\ w2 \in Seq(JobRecords) /\ Sorted(w2)
      /\ Items(w2) \subseteq {Job("write", "backup", from, Front(req)),
                              Job("verify", "backup", from, Front(req))}
      /\ Front(req) # 0 => Job("write", "backup", from, Front(req)) \in Items(w2)
    BY <1>1, WrittenJobs
<1>5. /\ w3 \in Seq(JobRecords) /\ Sorted(w3)
      /\ Items(w3) \subseteq {Job("write", "backup", end, Back(req)),
                              Job("verify", "backup", end, Back(req))}
      /\ Back(req) # 0 => Job("write", "backup", end, Back(req)) \in Items(w3)
    BY <1>1, WrittenJobs
<1>6. e \in JobRecords /\ e.kind = "erase"
    BY <1>1 DEF Job, JobRecords
<1>7. \A data, a, n : /\ Job("read", data, a, n).kind = "read"
                      /\ Job("write", data, a, n).kind = "write"
                      /\ Job("verify", data, a, n).kind = "verify"
    BY DEF Job
<1>. HIDE DEF e, s1, s2, w1, w2, w3
<1>. DEFINE z1 == s1 \o s2
            z2 == z1 \o <<e>>
            z3 == z2 \o w1
            z4 == z3 \o w2
            z5 == z4 \o w3
<1>8. z1 \in Seq(JobRecords) /\ Sorted(z1) /\ Items(z1) = Items(s1) \cup Items(s2)
      /\ \A j \in Items(z1) : j.kind = "read"
  <2>1. (\A j \in Items(s1) : j.kind = "read") /\ (\A j \in Items(s2) : j.kind = "read")
      BY <1>2, <1>7
  <2>. QED BY <1>2, <2>1, ItemsConcat, SortedConcat, ConcatProperties
<1>. HIDE DEF z1
<1>9. z2 \in Seq(JobRecords) /\ Sorted(z2) /\ Items(z2) = Items(z1) \cup {e}
    BY <1>6, <1>8, OneJob, ItemsConcat, SortedConcat, ConcatProperties
<1>. HIDE DEF z2
<1>10. z3 \in Seq(JobRecords) /\ Sorted(z3) /\ Items(z3) = Items(z2) \cup Items(w1)
  <2>1. \A j \in Items(w1) : j.kind \notin {"read", "erase"}
      BY <1>3, <1>7
  <2>. QED BY <1>3, <1>9, <2>1, ItemsConcat, SortedConcat, ConcatProperties
<1>. HIDE DEF z3
<1>11. z4 \in Seq(JobRecords) /\ Sorted(z4) /\ Items(z4) = Items(z3) \cup Items(w2)
  <2>1. \A j \in Items(w2) : j.kind \notin {"read", "erase"}
      BY <1>4, <1>7
  <2>. QED BY <1>4, <1>10, <2>1, ItemsConcat, SortedConcat, ConcatProperties
<1>. HIDE DEF z4
<1>12. z5 \in Seq(JobRecords) /\ Sorted(z5) /\ Items(z5) = Items(z4) \cup Items(w3)
  <2>1. \A j \in Items(w3) : j.kind \notin {"read", "erase"}
      BY <1>5, <1>7
  <2>. QED BY <1>5, <1>11, <2>1, ItemsConcat, SortedConcat, ConcatProperties
<1>13. Plan(req) = z5
    BY DEF Plan, Rewritten, Erased, z1, z2, z3, z4, s1, s2, w1, w2, w3, e, from, end, v
<1>. HIDE DEF z5
<1>14. Items(z5) = Items(s1) \cup Items(s2) \cup {e} \cup Items(w1) \cup Items(w2) \cup Items(w3)
    BY <1>8, <1>9, <1>10, <1>11, <1>12
<1>15. \A j \in Items(z5) :
         \/ j.kind = "verify"
         \/ j = Job("read", "backup", from, Front(req))
         \/ j = Job("read", "backup", end, Back(req))
         \/ j = e
         \/ j = Job("write", "file", req.addr, req.size)
         \/ j = Job("write", "backup", from, Front(req))
         \/ j = Job("write", "backup", end, Back(req))
    BY <1>2, <1>3, <1>4, <1>5, <1>7, <1>14
<1>16. \A j \in Items(z5) : j.kind = "verify" =>
         \/ j = Job("verify", "file", req.addr, req.size)
         \/ j = Job("verify", "backup", from, Front(req))
         \/ j = Job("verify", "backup", end, Back(req))
    BY <1>2, <1>3, <1>4, <1>5, <1>6, <1>7, <1>14
<1>17. e \in Items(z5) /\ Job("write", "file", req.addr, req.size) \in Items(z5)
    BY <1>3, <1>14
<1>18. Front(req) # 0 =>
         /\ Job("read", "backup", from, Front(req)) \in Items(z5)
         /\ Job("write", "backup", from, Front(req)) \in Items(z5)
    BY <1>2, <1>4, <1>14
<1>19. Back(req) # 0 =>
         /\ Job("read", "backup", end, Back(req)) \in Items(z5)
         /\ Job("write", "backup", end, Back(req)) \in Items(z5)
    BY <1>2, <1>5, <1>14
<1>. QED BY <1>12, <1>13, <1>15, <1>16, <1>17, <1>18, <1>19 DEF e, from, end

\* What an erase has to do.
LEMMA ErasedJobs ==
    ASSUME EvenSectors, part \in Parts, req \in CommandRecords, req.op = "erase", ~Refused(req)
    PROVE  LET p == Plan(req)
               e == Job("erase", "none", EraseRange(req).from,
                        EraseRange(req).to - EraseRange(req).from)
           IN  p \in Seq(JobRecords) /\ Sorted(p) /\ Items(p) = {e}
<1>. DEFINE e == Job("erase", "none", EraseRange(req).from,
                     EraseRange(req).to - EraseRange(req).from)
<1>1. EraseRange(req).from \in Nat /\ EraseRange(req).to \in Nat
    BY InRange
<1>2. e \in JobRecords
    BY <1>1 DEF Job, JobRecords
<1>3. Plan(req) = <<e>>
    BY DEF Plan, Erased
<1>. HIDE DEF e
<1>4. Plan(req) \in Seq(JobRecords) /\ Sorted(Plan(req)) /\ Items(Plan(req)) = {e}
    BY <1>2, <1>3, OneJob
<1>. QED BY <1>4 DEF e

\* A command that begins keeps its promises.
Begins ==
    /\ part \in Parts /\ req \in CommandRecords /\ req.op # "read" /\ ~Refused(req)
    /\ jobs = Plan(req) /\ start = mem /\ mem = [c \in Cells |-> mem[c]]

LEMMA PlanStores == EvenSectors => (Begins => Stores(jobs))
<1>. SUFFICES ASSUME EvenSectors, Begins PROVE Stores(jobs)
    OBVIOUS
<1>. DEFINE from == EraseRange(req).from
            to == EraseRange(req).to
            end == req.addr + req.size
            J == Items(jobs)
            e == Job("erase", "none", from, to - from)
<1>1. /\ part \in Parts /\ req \in CommandRecords /\ req.op # "read" /\ ~Refused(req)
      /\ jobs = Plan(req) /\ start = mem /\ mem = [c \in Cells |-> mem[c]]
    BY DEF Begins
<1>2. /\ req.addr \in Nat /\ req.size \in Nat \ {0}
      /\ from \in Nat /\ to \in Nat /\ from <= req.addr /\ end <= to
      /\ Grid(from)
      /\ \A a \in RangeCells : a \in Nat /\ from <= a /\ a < to
    BY <1>1, InRange
<1>3. /\ Front(req) \in Nat /\ Back(req) \in Nat
      /\ from + Front(req) <= req.addr /\ end + Back(req) <= to
      /\ req.op = "update" => from + Front(req) = req.addr /\ end + Back(req) = to
      /\ req.op # "update" => Front(req) = 0 /\ Back(req) = 0
    BY <1>1, SidesOf
<1>4. /\ req.op \in {"write", "update", "erase"}
    BY <1>1 DEF CommandRecords
<1>. HIDE DEF from, to
<1>5. \A k, data, a, n : /\ Job(k, data, a, n).kind = k /\ Job(k, data, a, n).data = data
                         /\ Job(k, data, a, n).addr = a /\ Job(k, data, a, n).left = n
    BY DEF Job
<1>6. \A a \in RangeCells : KeptCell(a) => req.op = "update" /\ (a < req.addr \/ end <= a)
    BY <1>2 DEF KeptCell, Covered
<1>7. \A a \in RangeCells : req.op = "update" /\ (a < req.addr \/ end <= a) => KeptCell(a)
    BY <1>2 DEF KeptCell, Covered
<1>8. /\ Sorted(jobs) /\ e \in J
      /\ \A j \in J : j.kind \in {"read", "erase", "write", "verify"}
      /\ \A j \in J : j.kind = "erase" => j = e
  <2>1. CASE req.op = "erase"
    <3>1. Sorted(jobs) /\ J = {e}
        BY <1>1, <2>1, ErasedJobs DEF from, to
    <3>. QED BY <1>5, <3>1
  <2>2. CASE req.op \in {"write", "update"}
    <3>1. /\ Sorted(jobs) /\ e \in J
          /\ \A j \in J :
               \/ j.kind = "verify"
               \/ j = Job("read", "backup", from, Front(req))
               \/ j = Job("read", "backup", end, Back(req))
               \/ j = e
               \/ j = Job("write", "file", req.addr, req.size)
               \/ j = Job("write", "backup", from, Front(req))
               \/ j = Job("write", "backup", end, Back(req))
        BY <1>1, <2>2, RewrittenJobs DEF from, to
    <3>. QED BY <1>5, <3>1
  <2>. QED BY <1>4, <2>1, <2>2
<1>9. e.addr = from /\ e.left = to - from /\ e.kind = "erase"
    BY <1>5
<1>10. Proper(e)
  <2>1. e.left \in Nat /\ from <= e.addr /\ e.addr + e.left = to
      BY <1>2, <1>9
  <2>2. e.addr + e.left <= to
      BY <1>2, <2>1
  <2>. QED BY <1>2, <1>9, <2>1, <2>2 DEF Proper, from, to
<1>. HIDE DEF e
<1>11. ASSUME req.op \in {"write", "update"}
       PROVE  /\ \A j \in J : Proper(j)
              /\ \A a \in RangeCells : FileCell(a) \/ KeptCell(a) => Waits(jobs, a)
              /\ \A a \in RangeCells : KeptCell(a) =>
                   \E j \in J : j.kind = "read" /\ Covers(j, a)
  <2>1. /\ \A j \in J :
             \/ j.kind = "verify"
             \/ j = Job("read", "backup", from, Front(req))
             \/ j = Job("read", "backup", end, Back(req))
             \/ j = e
             \/ j = Job("write", "file", req.addr, req.size)
             \/ j = Job("write", "backup", from, Front(req))
             \/ j = Job("write", "backup", end, Back(req))
        /\ \A j \in J : j.kind = "verify" =>
             \/ j = Job("verify", "file", req.addr, req.size)
             \/ j = Job("verify", "backup", from, Front(req))
             \/ j = Job("verify", "backup", end, Back(req))
        /\ Job("write", "file", req.addr, req.size) \in J
        /\ Front(req) # 0 =>
             /\ Job("read", "backup", from, Front(req)) \in J
             /\ Job("write", "backup", from, Front(req)) \in J
        /\ Back(req) # 0 =>
             /\ Job("read", "backup", end, Back(req)) \in J
             /\ Job("write", "backup", end, Back(req)) \in J
      BY <1>1, <1>11, RewrittenJobs DEF from, to, e
  <2>2. ASSUME NEW j \in J, j.kind # "erase" PROVE Proper(j)
    <3>1. /\ \/ j.addr = req.addr /\ j.left = req.size
             \/ j.addr = from /\ j.left = Front(req)
             \/ j.addr = end /\ j.left = Back(req)
        BY <1>5, <1>8, <1>9, <2>1, <2>2
    <3>2. j.left \in Nat /\ from <= j.addr /\ j.addr + j.left <= to
        BY <1>2, <1>3, <3>1
    <3>3. ASSUME j.kind = "write", NEW a \in RangeCells, Covers(j, a)
          PROVE  IF j.data = "file" THEN FileCell(a) ELSE KeptCell(a)
      <4>0. j.addr <= a /\ a < j.addr + j.left
          BY <3>3 DEF Covers
      <4>1. CASE j = Job("write", "file", req.addr, req.size)
        <5>1. j.data = "file" /\ j.addr = req.addr /\ j.left = req.size
            BY <1>5, <4>1
        <5>2. a \in Covered
            BY <1>2, <4>0, <5>1 DEF Covered
        <5>. QED BY <1>11, <5>1, <5>2 DEF FileCell
      <4>2. CASE j = Job("write", "backup", from, Front(req))
        <5>1. j.data = "backup" /\ j.addr = from /\ j.left = Front(req)
            BY <1>5, <4>2
        <5>2. a < req.addr /\ req.op = "update"
            BY <1>2, <1>3, <4>0, <5>1
        <5>. QED BY <1>7, <5>1, <5>2
      <4>3. CASE j = Job("write", "backup", end, Back(req))
        <5>1. j.data = "backup" /\ j.addr = end /\ j.left = Back(req)
            BY <1>5, <4>3
        <5>2. end <= a /\ req.op = "update"
            BY <1>2, <1>3, <4>0, <5>1
        <5>. QED BY <1>7, <5>1, <5>2
      <4>. QED BY <1>5, <1>9, <2>1, <3>3, <4>1, <4>2, <4>3
    <3>. QED BY <2>2, <3>2, <3>3 DEF Proper, from, to
  <2>3. \A j \in J : Proper(j)
      BY <1>8, <1>10, <2>2
  <2>4. ASSUME NEW a \in RangeCells, FileCell(a) PROVE Waits(jobs, a)
    <3>. DEFINE j == Job("write", "file", req.addr, req.size)
    <3>1. j \in J /\ j.kind = "write" /\ j.addr = req.addr /\ j.left = req.size
        BY <1>5, <2>1
    <3>. HIDE DEF j
    <3>2. Covers(j, a)
        BY <1>2, <2>4, <3>1 DEF FileCell, Covered, Covers
    <3>. QED BY <3>1, <3>2 DEF Waits
  <2>5. ASSUME NEW a \in RangeCells, KeptCell(a)
        PROVE  Waits(jobs, a) /\ \E j \in J : j.kind = "read" /\ Covers(j, a)
    <3>1. CASE a < req.addr
      <4>. DEFINE j == Job("write", "backup", from, Front(req))
                  k == Job("read", "backup", from, Front(req))
      <4>1. Front(req) # 0 /\ from <= a /\ a < from + Front(req)
          BY <1>2, <1>3, <1>6, <2>5, <3>1
      <4>2. /\ j \in J /\ j.kind = "write" /\ j.addr = from /\ j.left = Front(req)
            /\ k \in J /\ k.kind = "read" /\ k.addr = from /\ k.left = Front(req)
          BY <1>5, <2>1, <4>1
      <4>. HIDE DEF j, k
      <4>3. Covers(j, a) /\ Covers(k, a)
          BY <4>1, <4>2 DEF Covers
      <4>. QED BY <4>2, <4>3 DEF Waits
    <3>2. CASE end <= a
      <4>. DEFINE j == Job("write", "backup", end, Back(req))
                  k == Job("read", "backup", end, Back(req))
      <4>1. Back(req) # 0 /\ end <= a /\ a < end + Back(req)
          BY <1>2, <1>3, <1>6, <2>5, <3>2
      <4>2. /\ j \in J /\ j.kind = "write" /\ j.addr = end /\ j.left = Back(req)
            /\ k \in J /\ k.kind = "read" /\ k.addr = end /\ k.left = Back(req)
          BY <1>5, <2>1, <4>1
      <4>. HIDE DEF j, k, end
      <4>3. Covers(j, a) /\ Covers(k, a)
          BY <4>1, <4>2 DEF Covers
      <4>. QED BY <4>2, <4>3 DEF Waits
    <3>. QED BY <1>6, <2>5, <3>1, <3>2
  <2>. QED BY <2>3, <2>4, <2>5
<1>12. ASSUME req.op = "erase"
       PROVE  J = {e} /\ \A a : ~FileCell(a) /\ ~KeptCell(a)
    BY <1>1, <1>12, ErasedJobs DEF from, to, e, FileCell, KeptCell
<1>13. \A j \in J : Proper(j)
    BY <1>4, <1>10, <1>11, <1>12
<1>14. \A a \in RangeCells : FileCell(a) \/ KeptCell(a) => Waits(jobs, a)
    BY <1>4, <1>11, <1>12
<1>15. Kept(jobs)
    BY <1>4, <1>11, <1>12 DEF Kept
<1>16. ReadsFirst(jobs)
    BY <1>8, <1>9 DEF ReadsFirst, from
<1>17. HalfErased(jobs)
  <2>1. \A a \in RangeCells : ~(a < e.addr)
      BY <1>2, <1>9
  <2>. QED BY <1>1, <1>8, <1>14, <2>1 DEF HalfErased
<1>18. HalfWritten(jobs)
    BY <1>8, <1>9 DEF HalfWritten
<1>19. Outside
    BY <1>1 DEF Outside
<1>. QED BY <1>1, <1>8, <1>13, <1>15, <1>16, <1>17, <1>18, <1>19 DEF Stores

-----------------------------------------------------------------------------
(* The steps of a command that stores *)

\* The command and the chip stay what they are while it runs.
LEMMA SameCommand ==
    ASSUME UNCHANGED <<part, req, start>>
    PROVE  /\ Cells' = Cells /\ RangeCells' = RangeCells /\ Covered' = Covered
           /\ EraseRange(req)' = EraseRange(req)
           /\ Refused(req)' = Refused(req)
           /\ \A a : /\ Cell(req, a)' = Cell(req, a) /\ FileData(a)' = FileData(a)
                     /\ FileCell(a)' = FileCell(a) /\ KeptCell(a)' = KeptCell(a)
                     /\ Final(a)' = Final(a) /\ Grid(a)' = Grid(a)
           /\ \A j : Proper(j)' = Proper(j)
<1>1. Cells' = Cells /\ Covered' = Covered /\ \A a : RegionsAt(a)' = RegionsAt(a)
    BY DEF Cells, Covered, RegionsAt
<1>2. EraseRange(req)' = EraseRange(req)
    BY <1>1 DEF EraseRange
<1>3. RangeCells' = RangeCells
    BY <1>2 DEF RangeCells
<1>4. Refused(req)' = Refused(req)
    BY <1>1 DEF Refused, HasEraseRange, OpSize, DieCount
<1>5. \A a : /\ Cell(req, a)' = Cell(req, a) /\ FileData(a)' = FileData(a)
             /\ Grid(a)' = Grid(a)
    BY <1>1 DEF Cell, DieStart, FileData, Grid, RegionOf
<1>6. \A a : FileCell(a)' = FileCell(a) /\ KeptCell(a)' = KeptCell(a)
    BY <1>1, <1>3 DEF FileCell, KeptCell
<1>7. \A a : Final(a)' = Final(a)
    BY <1>5, <1>6 DEF Final
<1>8. \A j : Proper(j)' = Proper(j)
    BY <1>2, <1>3, <1>5, <1>6 DEF Proper
<1>. QED BY <1>1, <1>2, <1>3, <1>4, <1>5, <1>6, <1>7, <1>8

\* A command that stores, at an operation.
Storer == Sound /\ EvenSectors /\ req.op # "read" /\ Stores(jobs)

\* The jobs before and after an operation.
LEMMA Advance ==
    ASSUME Storer, NEW n \in Nat, Moved(n)
    PROVE  LET T == Items(Tail(jobs))
               j == [job EXCEPT !.addr = @ + n, !.left = @ - n]
           IN  /\ Items(jobs) = {job} \cup T /\ Items(jobs') = {j} \cup T
               /\ j.kind = job.kind /\ j.data = job.data
               /\ j.addr = job.addr + n /\ j.left = job.left - n
               /\ Sorted(jobs')
               /\ job.kind # "read" => \A k \in T : k.kind \notin {"read", "erase"}
<1>1. jobs \in Seq(JobRecords) /\ jobs # <<>> /\ job \in JobRecords
    BY JobFacts DEF Storer
<1>. DEFINE j == [job EXCEPT !.addr = @ + n, !.left = @ - n]
<1>2. /\ j \in JobRecords /\ j.kind = job.kind /\ j.data = job.data
      /\ j.addr = job.addr + n /\ j.left = job.left - n
    BY <1>1, MovedJob DEF JobRecords
<1>3. jobs' = <<j>> \o Tail(jobs)
    BY DEF Moved
<1>. HIDE DEF j
<1>4. Sorted(jobs)
    BY DEF Storer, Stores
<1>5. /\ Tail(jobs) \in Seq(JobRecords) /\ Items(jobs) = {job} \cup Items(Tail(jobs))
      /\ job.kind # "read" => \A k \in Items(Tail(jobs)) : k.kind \notin {"read", "erase"}
      /\ Sorted(<<j>> \o Tail(jobs))
    BY <1>1, <1>2, <1>4, FirstJob DEF job
<1>6. Items(<<j>> \o Tail(jobs)) = {j} \cup Items(Tail(jobs))
    BY <1>2, <1>5, OneJob, ItemsConcat
<1>. QED BY <1>2, <1>3, <1>5, <1>6 DEF j

\* What an operation may move over lies in the range of the command.
LEMMA InJob ==
    ASSUME Storer, NEW n \in Nat, n <= job.left
    PROVE  /\ \A a \in job.addr .. job.addr + n - 1 : a \in RangeCells /\ Covers(job, a)
           /\ Proper(job) /\ job \in Items(jobs)
<1>1. /\ part \in Parts /\ req \in CommandRecords /\ req.op # "read" /\ ~Refused(req)
      /\ job.addr \in Nat /\ job.left \in Nat /\ jobs \in Seq(JobRecords) /\ jobs # <<>>
    BY JobFacts DEF Storer, Stores
<1>2. job \in Items(jobs)
    BY <1>1, FirstJob DEF job
<1>3. Proper(job)
    BY <1>2 DEF Storer, Stores
<1>4. EraseRange(req).from \in Nat /\ EraseRange(req).to \in Nat
    BY <1>1, InRange DEF Storer
<1>5. EraseRange(req).from <= job.addr /\ job.addr + job.left <= EraseRange(req).to
    BY <1>3 DEF Proper
<1>6. \A a \in job.addr .. job.addr + n - 1 : a \in RangeCells /\ Covers(job, a)
    BY <1>1, <1>4, <1>5 DEF RangeCells, Covers
<1>. QED BY <1>2, <1>3, <1>6

\* The moved job is as proper as it was.
LEMMA MovedProper ==
    ASSUME Storer, NEW n \in Nat, n <= job.left, Moved(n), UNCHANGED <<part, req, start>>,
           job.kind = "erase" => Grid(job.addr + n)
    PROVE  /\ (\A k \in Items(jobs) : Proper(k))' /\ Sorted(jobs)'
           /\ Refused(req)' = FALSE
<1>. DEFINE T == Items(Tail(jobs))
            j == [job EXCEPT !.addr = @ + n, !.left = @ - n]
<1>1. /\ Items(jobs) = {job} \cup T /\ Items(jobs') = {j} \cup T
      /\ j.kind = job.kind /\ j.data = job.data
      /\ j.addr = job.addr + n /\ j.left = job.left - n
      /\ Sorted(jobs')
    BY Advance
<1>. HIDE DEF T, j
<1>2. /\ part \in Parts /\ req \in CommandRecords /\ req.op # "read" /\ ~Refused(req)
      /\ job.addr \in Nat /\ job.left \in Nat
    BY JobFacts DEF Storer, Stores
<1>3. /\ EraseRange(req).from \in Nat /\ EraseRange(req).to \in Nat
      /\ \A a \in RangeCells : a \in Nat
    BY <1>2, InRange DEF Storer
<1>4. /\ EraseRange(req).from <= job.addr /\ job.addr + job.left <= EraseRange(req).to
      /\ job.kind = "erase" => job.addr + job.left = EraseRange(req).to
      /\ job.kind = "write" =>
           \A a \in RangeCells : Covers(job, a) =>
               IF job.data = "file" THEN FileCell(a) ELSE KeptCell(a)
    BY InJob DEF Proper
<1>5. /\ j.left \in Nat /\ EraseRange(req).from <= j.addr /\ j.addr + j.left = job.addr + job.left
      /\ j.addr + j.left <= EraseRange(req).to
    BY <1>1, <1>2, <1>3, <1>4
<1>6. \A a \in RangeCells : Covers(j, a) => Covers(job, a)
    BY <1>1, <1>2, <1>3 DEF Covers
<1>7. Proper(j)
    BY <1>1, <1>4, <1>5, <1>6 DEF Proper
<1>8. \A k \in T : Proper(k)
    BY <1>1 DEF Storer, Stores
<1>9. \A k : Proper(k)' = Proper(k)
    BY SameCommand
<1>10. (\A k \in Items(jobs) : Proper(k))'
    BY <1>1, <1>7, <1>8, <1>9
<1>11. Sorted(jobs)'
    BY <1>1
<1>12. Refused(req)' = FALSE
    BY <1>2, SameCommand
<1>. QED BY <1>10, <1>11, <1>12

LEMMA ReadStores ==
    ASSUME Storer, Read
    PROVE  Stores(jobs)'
<1>. DEFINE T == Items(Tail(jobs))
            n == OpLength
            j == [job EXCEPT !.addr = @ + n, !.left = @ - n]
<1>1. /\ part \in Parts /\ req \in CommandRecords /\ req.op # "read" /\ ~Refused(req)
      /\ req.die < part.dies
      /\ job.addr \in Nat /\ job.left \in Nat /\ n \in Nat /\ n <= job.left
  <2>1. /\ part \in Parts /\ req \in CommandRecords /\ req.op # "read" /\ ~Refused(req)
        /\ req.die < part.dies /\ Here \in Nat
        /\ job.addr \in Nat /\ job.left \in Nat /\ n \in Nat /\ n <= Here /\ Here <= job.left
      BY JobFacts DEF Storer, Stores
  <2>. QED BY <2>1
<1>2. /\ job.kind = "read" /\ Moved(n) /\ UNCHANGED <<part, req, start, mem>>
      /\ got' = [a \in Cells |->
                   IF a \in job.addr .. job.addr + n - 1
                   THEN mem[Cell(req, job.addr) + (a - job.addr)] ELSE got[a]]
    BY Place DEF Read, Storer
<1>3. /\ Items(jobs) = {job} \cup T /\ Items(jobs') = {j} \cup T
      /\ j.kind = job.kind /\ j.addr = job.addr + n /\ j.left = job.left - n
    BY <1>1, <1>2, Advance
<1>4. (\A k \in Items(jobs) : Proper(k))' /\ Sorted(jobs)' /\ Refused(req)' = FALSE
    BY <1>1, <1>2, MovedProper
<1>. HIDE DEF T, j, n
<1>5. /\ RangeCells' = RangeCells /\ Cells' = Cells /\ EraseRange(req)' = EraseRange(req)
      /\ \A a : /\ Cell(req, a)' = Cell(req, a) /\ FileCell(a)' = FileCell(a)
                /\ KeptCell(a)' = KeptCell(a) /\ Final(a)' = Final(a)
    BY <1>2, SameCommand
<1>6. PICK e \in T : e.kind = "erase" /\ e.addr = EraseRange(req).from
    BY <1>2, <1>3 DEF Storer, Stores, ReadsFirst
<1>7. \A a \in RangeCells :
        /\ a \in Nat /\ EraseRange(req).from <= a /\ a \in Cells /\ EraseRange(req).from \in Nat
    BY <1>1, InRange DEF Storer
<1>8. \A a \in RangeCells : mem[Cell(req, a)] = start[Cell(req, a)]
    BY <1>3, <1>6, <1>7 DEF Storer, Stores, HalfErased
<1>9. ReadsFirst(jobs)'
  <2>1. \A k \in Items(jobs') : k.kind = "read" =>
          \E x \in Items(jobs') : x.kind = "erase" /\ x.addr = EraseRange(req).from
      BY <1>3, <1>6
  <2>. QED BY <1>5, <2>1 DEF ReadsFirst
<1>10. Kept(jobs)'
  <2>1. ASSUME NEW a \in RangeCells, KeptCell(a)
        PROVE  \/ got'[a] = start[Cell(req, a)]
               \/ \E k \in Items(jobs') : k.kind = "read" /\ Covers(k, a)
    <3>1. CASE a \in job.addr .. job.addr + n - 1
      <4>1. got'[a] = mem[Cell(req, job.addr) + (a - job.addr)]
          BY <1>2, <1>7, <3>1
      <4>2. /\ Cell(req, 0) \in Nat /\ Cell(req, job.addr) = Cell(req, 0) + job.addr
            /\ Cell(req, a) = Cell(req, 0) + a
          BY <1>1, <1>7, CellSum
      <4>3. Cell(req, job.addr) + (a - job.addr) = Cell(req, a)
          BY <1>1, <1>7, <4>2
      <4>. QED BY <1>8, <4>1, <4>3
    <3>2. CASE a \notin job.addr .. job.addr + n - 1
      <4>1. got'[a] = got[a]
          BY <1>2, <1>7, <3>2
      <4>2. CASE got[a] = start[Cell(req, a)]
          BY <4>1, <4>2
      <4>3. CASE got[a] # start[Cell(req, a)]
        <5>1. PICK k \in Items(jobs) : k.kind = "read" /\ Covers(k, a)
            BY <2>1, <4>3 DEF Storer, Stores, Kept
        <5>2. CASE k = job
          <6>1. Covers(j, a)
              BY <1>1, <1>3, <1>7, <3>2, <5>1, <5>2 DEF Covers
          <6>. QED BY <1>2, <1>3, <6>1
        <5>. QED BY <1>3, <5>1, <5>2
      <4>. QED BY <4>2, <4>3
    <3>. QED BY <3>1, <3>2
  <2>. QED BY <1>2, <1>5, <2>1 DEF Kept
<1>11. HalfErased(jobs)'
  <2>1. ASSUME NEW x \in Items(jobs'), x.kind = "erase", NEW a \in RangeCells
        PROVE  /\ mem[Cell(req, a)] = IF a < x.addr THEN Blank ELSE start[Cell(req, a)]
               /\ FileCell(a) \/ KeptCell(a) => Waits(jobs', a)
    <3>1. x \in T
        BY <1>2, <1>3, <2>1
    <3>2. /\ mem[Cell(req, a)] = IF a < x.addr THEN Blank ELSE start[Cell(req, a)]
          /\ FileCell(a) \/ KeptCell(a) => Waits(jobs, a)
        BY <1>3, <2>1, <3>1 DEF Storer, Stores, HalfErased
    <3>3. Waits(jobs, a) => Waits(jobs', a)
        BY <1>2, <1>3 DEF Waits
    <3>. QED BY <3>2, <3>3
  <2>2. \A a : Waits(jobs', a) => Waits(jobs, a)'
      BY DEF Waits
  <2>. QED BY <1>2, <1>5, <2>1, <2>2 DEF HalfErased
<1>12. HalfWritten(jobs)'
    BY <1>3, <1>6 DEF HalfWritten
<1>13. Outside'
  <2>1. Outside
      BY DEF Storer, Stores
  <2>. QED BY <1>2, <1>5, <2>1 DEF Outside
<1>. QED BY <1>4, <1>9, <1>10, <1>11, <1>12, <1>13 DEF Stores

LEMMA VerifyStores ==
    ASSUME Storer, Verify, pc' = "run"
    PROVE  Stores(jobs)'
<1>. DEFINE T == Items(Tail(jobs))
            n == OpLength
            j == [job EXCEPT !.addr = @ + n, !.left = @ - n]
<1>1. n \in Nat /\ n <= job.left
  <2>1. Here \in Nat /\ n \in Nat /\ n <= Here /\ Here <= job.left /\ job.left \in Nat
      BY JobFacts DEF Storer
  <2>. QED BY <2>1
<1>2. job.kind = "verify" /\ Moved(n) /\ UNCHANGED <<part, req, start, mem, got>>
    BY DEF Verify, Ends
<1>3. Items(jobs) = {job} \cup T /\ Items(jobs') = {j} \cup T /\ j.kind = job.kind
    BY <1>1, <1>2, Advance
<1>4. (\A k \in Items(jobs) : Proper(k))' /\ Sorted(jobs)' /\ Refused(req)' = FALSE
    BY <1>1, <1>2, MovedProper
<1>. HIDE DEF T, j, n
<1>5. /\ RangeCells' = RangeCells /\ Cells' = Cells /\ EraseRange(req)' = EraseRange(req)
      /\ \A a : /\ Cell(req, a)' = Cell(req, a) /\ FileCell(a)' = FileCell(a)
                /\ KeptCell(a)' = KeptCell(a) /\ Final(a)' = Final(a)
    BY <1>2, SameCommand
<1>6. \A k : k.kind \in {"read", "erase", "write"} => (k \in Items(jobs) <=> k \in Items(jobs'))
    BY <1>2, <1>3
<1>7. \A a : Waits(jobs, a)' <=> Waits(jobs, a)
    BY <1>6 DEF Waits
<1>8. ReadsFirst(jobs) /\ Kept(jobs) /\ HalfErased(jobs) /\ HalfWritten(jobs) /\ Outside
    BY DEF Storer, Stores
<1>9. ReadsFirst(jobs)'
    BY <1>5, <1>6, <1>8 DEF ReadsFirst
<1>10. Kept(jobs)'
    BY <1>2, <1>5, <1>6, <1>8 DEF Kept
<1>11. HalfErased(jobs)'
    BY <1>2, <1>5, <1>6, <1>7, <1>8 DEF HalfErased
<1>12. HalfWritten(jobs)'
    BY <1>2, <1>5, <1>6, <1>7, <1>8 DEF HalfWritten
<1>13. Outside'
    BY <1>2, <1>5, <1>8 DEF Outside
<1>. QED BY <1>4, <1>9, <1>10, <1>11, <1>12, <1>13 DEF Stores

\* The cells that a program reaches.
LEMMA Programs ==
    ASSUME Storer, job.kind = "write"
    PROVE  /\ \A i \in 0 .. OpLength - 1 :
                Slot(i) = Cell(req, job.addr + i) /\ job.addr + i \in RangeCells
           /\ Target = {Cell(req, a) : a \in job.addr .. job.addr + OpLength - 1}
<1>1. part \in Parts /\ job.addr \in Nat /\ OpLength \in Nat /\ OpLength <= job.left
  <2>1. /\ part \in Parts /\ job.addr \in Nat /\ OpLength \in Nat /\ OpLength <= Here
        /\ Here <= job.left /\ Here \in Nat /\ job.left \in Nat
      BY JobFacts DEF Storer
  <2>. QED BY <2>1
<1>2. part.size % part.page = 0
    BY <1>1 DEF Storer, EvenSectors
<1>3. \A a \in job.addr .. job.addr + OpLength - 1 : a \in RangeCells
    BY <1>1, InJob
<1>4. \A i \in 0 .. OpLength - 1 :
        Slot(i) = Cell(req, job.addr + i) /\ job.addr + i \in job.addr .. job.addr + OpLength - 1
    BY <1>1, <1>2, Slots DEF Storer
<1>5. Target = {Cell(req, job.addr + i) : i \in 0 .. OpLength - 1}
    BY <1>4 DEF Target
<1>6. ASSUME NEW a \in job.addr .. job.addr + OpLength - 1
      PROVE  a - job.addr \in 0 .. OpLength - 1 /\ job.addr + (a - job.addr) = a
    BY <1>1
<1>7. {Cell(req, job.addr + i) : i \in 0 .. OpLength - 1}
        = {Cell(req, a) : a \in job.addr .. job.addr + OpLength - 1}
    BY <1>4, <1>6
<1>. QED BY <1>3, <1>4, <1>5, <1>7

LEMMA ProgramStores ==
    ASSUME Storer, Program
    PROVE  Stores(jobs)'
<1>. DEFINE T == Items(Tail(jobs))
            n == OpLength
            j == [job EXCEPT !.addr = @ + n, !.left = @ - n]
<1>1. /\ part \in Parts /\ req \in CommandRecords /\ req.op # "read" /\ ~Refused(req)
      /\ req.die < part.dies
      /\ job.addr \in Nat /\ job.left \in Nat /\ n \in Nat /\ n <= job.left
  <2>1. /\ part \in Parts /\ req \in CommandRecords /\ req.op # "read" /\ ~Refused(req)
        /\ req.die < part.dies /\ Here \in Nat
        /\ job.addr \in Nat /\ job.left \in Nat /\ n \in Nat /\ n <= Here /\ Here <= job.left
      BY JobFacts DEF Storer, Stores
  <2>. QED BY <2>1
<1>2. /\ job.kind = "write" /\ Moved(n) /\ UNCHANGED <<part, req, start, got>>
      /\ mem' = [c \in Cells |->
                   IF c \in Target
                   THEN LET i == CHOOSE i \in 0 .. n - 1 : Slot(i) = c
                        IN  Programmed(mem[c], Data(job.addr + i))
                   ELSE mem[c]]
    BY DEF Program
<1>3. /\ Items(jobs) = {job} \cup T /\ Items(jobs') = {j} \cup T
      /\ j.kind = job.kind /\ j.addr = job.addr + n /\ j.left = job.left - n
      /\ \A k \in T : k.kind \notin {"read", "erase"}
    BY <1>1, <1>2, Advance
<1>4. (\A k \in Items(jobs) : Proper(k))' /\ Sorted(jobs)' /\ Refused(req)' = FALSE
    BY <1>1, <1>2, MovedProper
<1>5. /\ \A i \in 0 .. n - 1 :
           Slot(i) = Cell(req, job.addr + i) /\ job.addr + i \in RangeCells
      /\ Target = {Cell(req, a) : a \in job.addr .. job.addr + n - 1}
    BY <1>2, Programs
<1>6. \A a \in job.addr .. job.addr + n - 1 : a \in RangeCells /\ Covers(job, a)
    BY <1>1, InJob
<1>7. \A a \in RangeCells : Covers(job, a) =>
        IF job.data = "file" THEN FileCell(a) ELSE KeptCell(a)
  <2>1. 0 \in Nat /\ 0 <= job.left
      BY <1>1
  <2>2. Proper(job)
      BY <2>1, InJob
  <2>. QED BY <1>2, <2>2 DEF Proper
<1>. HIDE DEF T, j, n
<1>8. /\ RangeCells' = RangeCells /\ Cells' = Cells /\ EraseRange(req)' = EraseRange(req)
      /\ \A a : /\ Cell(req, a)' = Cell(req, a) /\ FileCell(a)' = FileCell(a)
                /\ KeptCell(a)' = KeptCell(a) /\ Final(a)' = Final(a)
    BY <1>2, SameCommand
<1>9. /\ \A a \in RangeCells : a \in Nat /\ a \in Cells /\ Cell(req, a) \in Cells
      /\ \A a, b \in RangeCells : Cell(req, a) = Cell(req, b) => a = b
    BY <1>1, InRange DEF Storer
<1>10. \A k \in Items(jobs) : k.kind \notin {"read", "erase"}
    BY <1>2, <1>3
<1>11. \A k \in Items(jobs') : k.kind \notin {"read", "erase"}
    BY <1>2, <1>3
<1>12. \A a \in RangeCells :
         /\ KeptCell(a) => got[a] = start[Cell(req, a)]
         /\ mem[Cell(req, a)] = Final(a) \/ (mem[Cell(req, a)] = Blank /\ Waits(jobs, a))
    BY <1>10 DEF Storer, Stores, Kept, HalfWritten
<1>13. ASSUME NEW a \in job.addr .. job.addr + n - 1
       PROVE  mem'[Cell(req, a)] = Final(a)
  <2>1. a \in RangeCells /\ Cell(req, a) \in Cells /\ Cell(req, a) \in Target
      BY <1>5, <1>6, <1>9
  <2>. DEFINE i == CHOOSE i \in 0 .. n - 1 : Slot(i) = Cell(req, a)
  <2>2. a - job.addr \in 0 .. n - 1 /\ job.addr + (a - job.addr) = a
      BY <1>1
  <2>3. i \in 0 .. n - 1 /\ Slot(i) = Cell(req, a)
      BY <1>5, <2>2
  <2>4. job.addr + i = a
      BY <1>5, <1>9, <2>1, <2>3
  <2>5. mem'[Cell(req, a)] = Programmed(mem[Cell(req, a)], Data(job.addr + i))
      BY <1>2, <2>1
  <2>. HIDE DEF i
  <2>6. Data(a) = Final(a)
    <3>1. CASE job.data = "file"
        BY <1>6, <1>7, <3>1 DEF Data, Final
    <3>2. CASE job.data # "file"
      <4>1. KeptCell(a) /\ ~FileCell(a)
          BY <1>6, <1>7, <3>2 DEF KeptCell, FileCell
      <4>. QED BY <1>12, <2>1, <3>2, <4>1 DEF Data, Final
    <3>. QED BY <3>1, <3>2
  <2>7. mem[Cell(req, a)] \in {Blank, Final(a)}
      BY <1>12, <2>1
  <2>. QED BY <2>4, <2>5, <2>6, <2>7 DEF Programmed
<1>14. ASSUME NEW c \in Cells, \A a \in job.addr .. job.addr + n - 1 : c # Cell(req, a)
       PROVE  mem'[c] = mem[c]
  <2>1. c \notin Target
      BY <1>5, <1>14
  <2>. QED BY <1>2, <2>1
<1>15. HalfWritten(jobs)'
  <2>1. ASSUME NEW a \in RangeCells, mem'[Cell(req, a)] # Final(a)
        PROVE  mem'[Cell(req, a)] = Blank /\ Waits(jobs', a)
    <3>1. a \notin job.addr .. job.addr + n - 1
        BY <1>13, <2>1
    <3>2. mem'[Cell(req, a)] = mem[Cell(req, a)]
        BY <1>6, <1>9, <1>14, <3>1
    <3>3. mem[Cell(req, a)] = Blank /\ Waits(jobs, a)
        BY <1>12, <2>1, <3>2
    <3>4. PICK k \in Items(jobs) : k.kind = "write" /\ Covers(k, a)
        BY <3>3 DEF Waits
    <3>5. CASE k = job
      <4>1. Covers(j, a)
          BY <1>1, <1>3, <1>9, <3>1, <3>4, <3>5 DEF Covers
      <4>. QED BY <1>2, <1>3, <3>2, <3>3, <4>1 DEF Waits
    <3>6. CASE k # job
        BY <1>3, <3>2, <3>3, <3>4, <3>6 DEF Waits
    <3>. QED BY <3>5, <3>6
  <2>2. \A a : Waits(jobs', a) => Waits(jobs, a)'
      BY DEF Waits
  <2>. QED BY <1>8, <2>1, <2>2 DEF HalfWritten
<1>16. Outside'
  <2>1. mem' = [c \in Cells |-> mem'[c]]
      BY <1>2
  <2>2. ASSUME NEW c \in Cells, mem'[c] # start[c] PROVE \E a \in RangeCells : c = Cell(req, a)
    <3>1. CASE mem'[c] = mem[c]
        BY <2>2, <3>1 DEF Storer, Stores, Outside
    <3>2. CASE mem'[c] # mem[c]
        BY <1>6, <1>14, <3>2
    <3>. QED BY <3>1, <3>2
  <2>. QED BY <1>2, <1>8, <2>1, <2>2 DEF Outside
<1>17. ReadsFirst(jobs)' /\ HalfErased(jobs)'
    BY <1>11 DEF ReadsFirst, HalfErased
<1>18. Kept(jobs)'
    BY <1>2, <1>8, <1>12 DEF Kept
<1>. QED BY <1>4, <1>15, <1>16, <1>17, <1>18 DEF Stores

LEMMA EraseStores ==
    ASSUME Storer, EraseAt, pc' = "run"
    PROVE  Stores(jobs)'
<1>. DEFINE T == Items(Tail(jobs))
            n == Chosen(Region, From, To)
            j == [job EXCEPT !.addr = @ + n, !.left = @ - n]
<1>1. /\ part \in Parts /\ req \in CommandRecords /\ req.op # "read" /\ ~Refused(req)
      /\ job.addr \in Nat /\ job.left \in Nat
    BY JobFacts DEF Storer, Stores
<1>2. job.kind = "erase" /\ UNCHANGED <<part, req, start, got>> /\ Fitting(Region, From, To) # {}
    BY DEF EraseAt, Ends
<1>3. Grid(job.addr) /\ job.addr + job.left = EraseRange(req).to
  <2>1. 0 \in Nat /\ 0 <= job.left
      BY <1>1
  <2>. QED BY <1>2, <2>1, InJob DEF Proper
<1>4. /\ n \in Nat \ {0} /\ Least(n, To - From) = n /\ n <= job.left
      /\ EraseTarget(n) = {Cell(req, a) : a \in job.addr .. job.addr + n - 1}
      /\ Grid(job.addr + n)
    BY <1>2, <1>3, EvenErase DEF Storer
<1>5. mem' = With(EraseTarget(n), Blank) /\ Moved(n)
    BY <1>2, <1>4 DEF EraseAt
<1>. HIDE DEF n
<1>6. /\ Items(jobs) = {job} \cup T /\ Items(jobs') = {j} \cup T
      /\ j.kind = job.kind /\ j.addr = job.addr + n /\ j.left = job.left - n
      /\ \A k \in T : k.kind \notin {"read", "erase"}
    BY <1>2, <1>4, <1>5, Advance
<1>7. (\A k \in Items(jobs) : Proper(k))' /\ Sorted(jobs)' /\ Refused(req)' = FALSE
    BY <1>2, <1>4, <1>5, MovedProper
<1>8. \A a \in job.addr .. job.addr + n - 1 : a \in RangeCells
    BY <1>4, InJob
<1>. HIDE DEF T, j
<1>9. /\ RangeCells' = RangeCells /\ Cells' = Cells /\ EraseRange(req)' = EraseRange(req)
      /\ \A a : /\ Cell(req, a)' = Cell(req, a) /\ FileCell(a)' = FileCell(a)
                /\ KeptCell(a)' = KeptCell(a) /\ Final(a)' = Final(a)
    BY <1>2, SameCommand
<1>10. /\ \A a \in RangeCells : a \in Nat /\ Cell(req, a) \in Cells
       /\ \A a, b \in RangeCells : Cell(req, a) = Cell(req, b) => a = b
    BY <1>1, InRange DEF Storer
<1>11. \A a \in RangeCells :
         /\ KeptCell(a) => got[a] = start[Cell(req, a)]
         /\ mem[Cell(req, a)] = IF a < job.addr THEN Blank ELSE start[Cell(req, a)]
         /\ FileCell(a) \/ KeptCell(a) => Waits(jobs, a)
  <2>1. \A k \in Items(jobs) : k.kind # "read"
      BY <1>2, <1>6
  <2>. QED BY <1>2, <1>6, <2>1 DEF Storer, Stores, Kept, HalfErased
<1>12. \A c \in Cells :
         mem'[c] = IF c \in {Cell(req, a) : a \in job.addr .. job.addr + n - 1}
                   THEN Blank ELSE mem[c]
    BY <1>4, <1>5 DEF With
<1>13. \A a : Waits(jobs, a) => Waits(jobs, a)'
    BY <1>2, <1>6 DEF Waits
<1>14. HalfErased(jobs)'
  <2>1. ASSUME NEW a \in RangeCells
        PROVE  mem'[Cell(req, a)] = IF a < job.addr + n THEN Blank ELSE start[Cell(req, a)]
    <3>1. a \in Nat /\ Cell(req, a) \in Cells
        BY <1>10
    <3>2. CASE a \in job.addr .. job.addr + n - 1
      <4>1. mem'[Cell(req, a)] = Blank
          BY <1>12, <3>1, <3>2
      <4>2. a < job.addr + n
          BY <1>1, <1>4, <3>1, <3>2
      <4>. QED BY <4>1, <4>2
    <3>3. CASE a \notin job.addr .. job.addr + n - 1
      <4>1. Cell(req, a) \notin {Cell(req, b) : b \in job.addr .. job.addr + n - 1}
          BY <1>8, <1>10, <3>3
      <4>2. mem'[Cell(req, a)] = mem[Cell(req, a)]
          BY <1>12, <3>1, <4>1
      <4>3. a < job.addr + n <=> a < job.addr
          BY <1>1, <1>4, <3>1, <3>3
      <4>. QED BY <1>11, <4>2, <4>3
    <3>. QED BY <3>2, <3>3
  <2>2. \A x \in Items(jobs') : x.kind = "erase" => x.addr = job.addr + n
      BY <1>6
  <2>3. ASSUME NEW x \in Items(jobs)', x.kind = "erase", NEW a \in RangeCells'
        PROVE  /\ (mem[Cell(req, a)])' = IF a < x.addr THEN Blank ELSE (start[Cell(req, a)])'
               /\ FileCell(a)' \/ KeptCell(a)' => Waits(jobs, a)'
      BY <1>2, <1>9, <1>11, <1>13, <2>1, <2>2, <2>3
  <2>. QED BY <2>3 DEF HalfErased
<1>15. HalfWritten(jobs)' /\ ReadsFirst(jobs)'
    BY <1>2, <1>6 DEF HalfWritten, ReadsFirst
<1>16. Kept(jobs)'
    BY <1>2, <1>9, <1>11 DEF Kept
<1>17. Outside'
  <2>1. mem' = [c \in Cells |-> mem'[c]]
      BY <1>5 DEF With
  <2>2. ASSUME NEW c \in Cells, mem'[c] # start[c] PROVE \E a \in RangeCells : c = Cell(req, a)
    <3>1. CASE mem'[c] = mem[c]
        BY <2>2, <3>1 DEF Storer, Stores, Outside
    <3>2. CASE mem'[c] # mem[c]
        BY <1>8, <1>12, <3>2
    <3>. QED BY <3>1, <3>2
  <2>. QED BY <1>2, <1>9, <2>1, <2>2 DEF Outside
<1>. QED BY <1>7, <1>14, <1>15, <1>16, <1>17 DEF Stores

LEMMA NextJobStores ==
    ASSUME Inv, EvenSectors, pc = "run", req.op # "read", Stores(jobs), NextJob
    PROVE  Stores(jobs)'
<1>. DEFINE T == Items(Tail(jobs))
<1>1. /\ part \in Parts /\ req \in CommandRecords /\ ~Refused(req)
      /\ jobs \in Seq(JobRecords) /\ jobs # <<>>
    BY DEF Inv, Framed, Stores, NextJob
<1>2. /\ jobs' = Tail(jobs) /\ UNCHANGED <<part, req, start, got, mem>>
      /\ (job.left = 0 \/ job.addr >= OpSize(req))
    BY DEF NextJob, chip
<1>3. /\ job \in JobRecords /\ Items(jobs) = {job} \cup T /\ Sorted(Tail(jobs))
      /\ job.kind # "read" => \A k \in T : k.kind \notin {"read", "erase"}
    BY <1>1, FirstJob DEF Stores, job
<1>4. Items(jobs') = T
    BY <1>2
<1>. HIDE DEF T
<1>5. /\ EraseRange(req).from \in Nat /\ EraseRange(req).to \in Nat /\ OpSize(req) \in Nat
      /\ EraseRange(req).to <= OpSize(req)
      /\ \A a \in RangeCells : a \in Nat /\ EraseRange(req).from <= a /\ a < EraseRange(req).to
      /\ req.size \in Nat \ {0} /\ req.addr \in Nat
      /\ EraseRange(req).from <= req.addr /\ req.addr + req.size <= EraseRange(req).to
    BY <1>1, InRange
<1>6. /\ job.addr \in Nat /\ job.left \in Nat
      /\ job.addr + job.left <= EraseRange(req).to
      /\ job.kind = "erase" => job.addr + job.left = EraseRange(req).to
    BY <1>3 DEF Stores, Proper, JobRecords
<1>7. job.left = 0
    BY <1>2, <1>5, <1>6
<1>8. \A a \in RangeCells : ~Covers(job, a)
    BY <1>5, <1>6, <1>7 DEF Covers
<1>9. /\ RangeCells' = RangeCells /\ Cells' = Cells /\ EraseRange(req)' = EraseRange(req)
      /\ Refused(req)' = Refused(req)
      /\ \A a : /\ Cell(req, a)' = Cell(req, a) /\ FileCell(a)' = FileCell(a)
                /\ KeptCell(a)' = KeptCell(a) /\ Final(a)' = Final(a)
      /\ \A k : Proper(k)' = Proper(k)
    BY <1>2, SameCommand
<1>10. /\ \A k \in Items(jobs) : Proper(k)
       /\ ReadsFirst(jobs) /\ Kept(jobs) /\ HalfErased(jobs) /\ HalfWritten(jobs) /\ Outside
    BY DEF Stores
<1>11. \A a \in RangeCells : Waits(jobs, a) => Waits(jobs', a)
    BY <1>3, <1>4, <1>8 DEF Waits
<1>12. \A a : Waits(jobs', a) <=> Waits(jobs, a)'
    BY DEF Waits
<1>13. (\A k \in Items(jobs) : Proper(k))' /\ Sorted(jobs)' /\ Refused(req)' = FALSE
    BY <1>1, <1>2, <1>3, <1>4, <1>9, <1>10
<1>14. ReadsFirst(jobs)'
    BY <1>3, <1>4, <1>9, <1>10 DEF ReadsFirst
<1>15. Kept(jobs)'
    BY <1>2, <1>3, <1>4, <1>8, <1>9, <1>10 DEF Kept
<1>16. HalfErased(jobs)'
    BY <1>2, <1>3, <1>4, <1>9, <1>10, <1>11, <1>12 DEF HalfErased
<1>17. HalfWritten(jobs)'
  <2>1. CASE job.kind = "erase"
    <3>1. ASSUME NEW a \in RangeCells
          PROVE  mem[Cell(req, a)] = Final(a) \/ (mem[Cell(req, a)] = Blank /\ Waits(jobs', a))
      <4>1. a < job.addr
          BY <1>5, <1>6, <1>7, <2>1
      <4>2. mem[Cell(req, a)] = Blank /\ (FileCell(a) \/ KeptCell(a) => Waits(jobs, a))
          BY <1>3, <1>10, <2>1, <4>1 DEF HalfErased
      <4>. QED BY <1>11, <4>2 DEF Final
    <3>. QED BY <1>2, <1>9, <1>12, <3>1 DEF HalfWritten
  <2>2. CASE job.kind # "erase"
      BY <1>2, <1>3, <1>4, <1>9, <1>10, <1>11, <1>12, <2>2 DEF HalfWritten
  <2>. QED BY <2>1, <2>2
<1>18. Outside'
    BY <1>2, <1>9, <1>10 DEF Outside
<1>. QED BY <1>13, <1>14, <1>15, <1>16, <1>17, <1>18 DEF Stores

-----------------------------------------------------------------------------
(* Commands that store *)

StoreInv ==
    /\ Inv /\ Reading /\ ReadIsFlash
    /\ mem = [c \in Cells |-> mem[c]]
    /\ Storing
    /\ SuccessIsDone /\ UpdateKeepsRest

LEMMA StoreInit == Init => StoreInv
<1>1. ASSUME Init PROVE StoreInv
  <2>1. Inv /\ Reading /\ ReadIsFlash
      BY <1>1, InvInit, ReadInit
  <2>2. pc = "idle" /\ res = "none" /\ mem = [c \in Cells |-> mem[c]]
      BY <1>1 DEF Init
  <2>. QED BY <2>1, <2>2 DEF StoreInv, Storing, SuccessIsDone, UpdateKeepsRest, Succeeded
<1>. QED BY <1>1

LEMMA SamePlan ==
    ASSUME part' = part, NEW q, req' = q
    PROVE  Plan(req)' = Plan(q) /\ Refused(req)' = Refused(q)
<1>1. \A a : RegionsAt(a)' = RegionsAt(a)
    BY DEF RegionsAt
<1>2. EraseRange(req)' = EraseRange(q)
    BY <1>1 DEF EraseRange
<1>3. Front(req)' = Front(q) /\ Back(req)' = Back(q) /\ Erased(req)' = Erased(q)
    BY <1>2 DEF Front, Back, Erased
<1>4. Plan(req)' = Plan(q)
    BY <1>2, <1>3 DEF Plan, Rewritten
<1>5. Refused(req)' = Refused(q)
    BY <1>1 DEF Refused, HasEraseRange, OpSize, DieCount
<1>. QED BY <1>4, <1>5

LEMMA StoreStarts ==
    ASSUME StoreInv, EvenSectors,
           NEW r \in Commands, Start(r) \/ StartMissing(r) \/ StartFails(r)
    PROVE  /\ (mem = [c \in Cells |-> mem[c]])' /\ Storing'
           /\ SuccessIsDone' /\ UpdateKeepsRest'
<1>1. pc' = "idle" => res' = "failed"
    BY DEF Start, StartMissing, StartFails, Started, Ends
<1>2. SuccessIsDone' /\ UpdateKeepsRest'
    BY <1>1 DEF SuccessIsDone, UpdateKeepsRest, Succeeded
<1>3. UNCHANGED <<part, mem>> /\ req' = Clipped(r) /\ start' = mem
    BY DEF Start, StartMissing, StartFails, Given
<1>4. (mem = [c \in Cells |-> mem[c]])'
    BY <1>3 DEF StoreInv, Cells
<1>5. ASSUME pc' = "run", req'.op # "read" PROVE Stores(jobs)'
  <2>1. /\ ~Refused(Clipped(r)) /\ jobs' = Plan(Clipped(r))
      BY <1>5 DEF Start, StartMissing, StartFails, Started, Ends
  <2>2. Plan(req)' = Plan(Clipped(r)) /\ Refused(req)' = Refused(Clipped(r))
      BY <1>3, SamePlan
  <2>3. Framed'
    <3>1. r \in CommandRecords /\ Framed
        BY CommandsAssumption DEF StoreInv, Inv
    <3>. QED BY <3>1, StartedFramed DEF Start, StartMissing, StartFails
  <2>4. Begins'
      BY <1>3, <1>4, <1>5, <2>1, <2>2, <2>3 DEF Begins, Framed
  <2>5. EvenSectors => (Begins => Stores(jobs))'
      BY PlanStores, PTL
  <2>. QED BY <2>4, <2>5
<1>. QED BY <1>2, <1>4, <1>5 DEF Storing

\* What a command leaves when its jobs are done.
LEMMA StoreDone ==
    ASSUME StoreInv, EvenSectors, Finish
    PROVE  SuccessIsDone' /\ UpdateKeepsRest'
<1>1. /\ pc = "run" /\ jobs = <<>> /\ part \in Parts /\ req \in CommandRecords
      /\ UNCHANGED <<part, req, start, mem, astray>>
    BY DEF Finish, chip, StoreInv, Inv, Framed
<1>2. /\ Cells' = Cells /\ Covered' = Covered
      /\ \A a : Cell(req, a)' = Cell(req, a) /\ FileData(a)' = FileData(a)
    BY <1>1, SameCommand
<1>3. ASSUME ~astray, req.op # "read"
      PROVE  /\ \A a \in RangeCells : mem[Cell(req, a)] = Final(a)
             /\ Outside /\ ~Refused(req) /\ Covered \subseteq RangeCells /\ req.die < part.dies
             /\ \A a \in RangeCells : a \in Nat
  <2>1. Stores(jobs)
      BY <1>1, <1>3 DEF StoreInv, Storing
  <2>2. Items(jobs) = {}
      BY <1>1, NoJob
  <2>3. \A a \in RangeCells : mem[Cell(req, a)] = Final(a)
      BY <2>1, <2>2 DEF Stores, HalfWritten, Waits
  <2>. QED BY <1>1, <1>3, <2>1, <2>3, InRange DEF Stores
<1>4. SuccessIsDone'
  <2>1. ASSUME ~astray, NEW a \in Covered
        PROVE  /\ req.op = "erase" => mem[Cell(req, a)] = Blank
               /\ req.op = "write" => mem[Cell(req, a)] = FileData(a)
      BY <1>3, <2>1 DEF Final, FileCell, KeptCell
  <2>. QED BY <1>1, <1>2, <2>1 DEF SuccessIsDone, Succeeded
<1>5. UpdateKeepsRest'
  <2>1. ASSUME ~astray, req.op = "update"
        PROVE  mem = [c \in Cells |-> IF \E a \in Covered : c = Cell(req, a)
                                      THEN FileData(c - Cell(req, 0)) ELSE start[c]]
    <3>1. ASSUME NEW c \in Cells
          PROVE  mem[c] = IF \E a \in Covered : c = Cell(req, a)
                          THEN FileData(c - Cell(req, 0)) ELSE start[c]
      <4>1. ASSUME NEW a \in Covered, c = Cell(req, a) PROVE mem[c] = FileData(c - Cell(req, 0))
        <5>1. a \in RangeCells /\ a \in Nat
            BY <1>3, <2>1, <4>1
        <5>2. mem[c] = FileData(a)
            BY <1>3, <2>1, <4>1, <5>1 DEF Final, FileCell
        <5>3. Cell(req, 0) \in Nat /\ c = Cell(req, 0) + a
            BY <1>1, <1>3, <2>1, <4>1, <5>1, CellSum
        <5>4. c - Cell(req, 0) = a
            BY <5>1, <5>3
        <5>. QED BY <5>2, <5>4
      <4>2. ASSUME \A a \in Covered : c # Cell(req, a) PROVE mem[c] = start[c]
        <5>1. CASE \E a \in RangeCells : c = Cell(req, a)
          <6>1. PICK a \in RangeCells : c = Cell(req, a)
              BY <5>1
          <6>2. KeptCell(a) /\ ~FileCell(a)
              BY <2>1, <4>2, <6>1 DEF KeptCell, FileCell
          <6>. QED BY <1>3, <2>1, <6>1, <6>2 DEF Final
        <5>2. CASE \A a \in RangeCells : c # Cell(req, a)
            BY <1>3, <2>1, <5>2 DEF Outside
        <5>. QED BY <5>1, <5>2
      <4>. QED BY <4>1, <4>2
    <3>2. mem = [c \in Cells |-> mem[c]]
        BY DEF StoreInv
    <3>. QED BY <3>1, <3>2
  <2>. QED BY <1>1, <1>2, <2>1 DEF UpdateKeepsRest, Succeeded
<1>. QED BY <1>4, <1>5

LEMMA StoreNext == ASSUME EvenSectors, StoreInv, [Next]_vars PROVE StoreInv'
<1>1. Inv' /\ Reading' /\ ReadIsFlash'
    BY InvNext, ReadNext DEF StoreInv, ReadInv
<1>. DEFINE Full == mem = [c \in Cells |-> mem[c]]
            Done == SuccessIsDone /\ UpdateKeepsRest
<1>2. SUFFICES Full' /\ Storing' /\ Done'
    BY <1>1 DEF StoreInv
<1>3. ASSUME part' = part, mem' = mem PROVE Full'
    BY <1>3 DEF StoreInv, Cells
<1>4. ASSUME part' = part, NEW S, NEW v, mem' = With(S, v) PROVE Full'
    BY <1>4 DEF With, Cells
<1>5. ASSUME pc = "run", ~astray, req.op # "read", OnDie PROVE Storer
    BY <1>5 DEF StoreInv, Storing, Storer, Sound
<1>6. ASSUME pc' = "run" PROVE Done'
    BY <1>6 DEF SuccessIsDone, UpdateKeepsRest, Succeeded
<1>7. ASSUME pc' = "idle", res' = "failed" PROVE Done' /\ Storing'
    BY <1>7 DEF SuccessIsDone, UpdateKeepsRest, Succeeded, Storing
<1>8. ASSUME NEW r \in Commands, Start(r) \/ StartMissing(r) \/ StartFails(r)
      PROVE  Full' /\ Storing' /\ Done'
    BY <1>8, StoreStarts
<1>9. ASSUME Read PROVE Full' /\ Storing' /\ Done'
  <2>1. pc = "run" /\ pc' = "run" /\ OnDie /\ UNCHANGED <<part, mem, req, astray>>
      BY <1>9 DEF Read, OnDie
  <2>2. Storing'
      BY <1>5, <1>9, <2>1, ReadStores DEF Storing
  <2>. QED BY <1>3, <1>6, <2>1, <2>2
<1>10. ASSUME Verify PROVE Full' /\ Storing' /\ Done'
  <2>1. pc = "run" /\ OnDie /\ UNCHANGED <<part, mem, req, astray>>
        /\ (pc' = "run" \/ (pc' = "idle" /\ res' = "failed"))
      BY <1>10 DEF Verify, OnDie, Ends
  <2>2. ASSUME pc' = "run" PROVE Storing'
      BY <1>5, <1>10, <2>1, <2>2, VerifyStores DEF Storing
  <2>. QED BY <1>3, <1>6, <1>7, <2>1, <2>2
<1>11. ASSUME Program PROVE Full' /\ Storing' /\ Done'
  <2>1. pc = "run" /\ pc' = "run" /\ OnDie /\ UNCHANGED <<part, req, astray>>
      BY <1>11 DEF Program, OnDie
  <2>2. Storing'
      BY <1>5, <1>11, <2>1, ProgramStores DEF Storing
  <2>3. Full'
      BY <1>11, <2>1 DEF Program, Cells
  <2>. QED BY <1>6, <2>1, <2>2, <2>3
<1>12. ASSUME EraseAt PROVE Full' /\ Storing' /\ Done'
  <2>1. /\ pc = "run" /\ OnDie /\ UNCHANGED <<part, req, astray>>
        /\ (pc' = "run" \/ (pc' = "idle" /\ res' = "failed"))
        /\ (mem' = mem \/ mem' = With(EraseTarget(Chosen(Region, From, To)), Blank))
      BY <1>12 DEF EraseAt, OnDie, Ends
  <2>2. ASSUME pc' = "run" PROVE Storing'
      BY <1>5, <1>12, <2>1, <2>2, EraseStores DEF Storing
  <2>. QED BY <1>3, <1>4, <1>6, <1>7, <2>1, <2>2
<1>13. ASSUME SelectFails \/ AddressFails PROVE Full' /\ Storing' /\ Done'
  <2>1. pc' = "idle" /\ res' = "failed" /\ UNCHANGED <<part, mem>>
      BY <1>13 DEF SelectFails, AddressFails, Ends
  <2>. QED BY <1>3, <1>7, <2>1
<1>14. ASSUME CommandFails PROVE Full' /\ Storing' /\ Done'
  <2>1. /\ pc' = "idle" /\ res' = "failed" /\ part' = part
        /\ \/ mem' = mem
           \/ mem' = With(Target, Junk)
           \/ mem' = With(EraseTarget(Chosen(Region, From, To)), Junk)
      BY <1>14 DEF CommandFails, Ends
  <2>. QED BY <1>3, <1>4, <1>7, <2>1
<1>15. ASSUME NextJob PROVE Full' /\ Storing' /\ Done'
  <2>1. pc = "run" /\ pc' = "run" /\ UNCHANGED <<part, mem, req, astray>>
      BY <1>15 DEF NextJob, chip
  <2>2. Storing'
      BY <1>15, <2>1, NextJobStores DEF Storing, StoreInv
  <2>. QED BY <1>3, <1>6, <2>1, <2>2
<1>16. ASSUME Finish PROVE Full' /\ Storing' /\ Done'
  <2>1. pc' = "idle" /\ UNCHANGED <<part, mem>>
      BY <1>16 DEF Finish, Ends, chip
  <2>2. Storing'
      BY <2>1 DEF Storing
  <2>. QED BY <1>3, <1>16, <2>1, <2>2, StoreDone
<1>17. ASSUME UNCHANGED vars PROVE Full' /\ Storing' /\ Done'
  <2>1. UNCHANGED <<part, mem, pc, req, jobs, got, res, start, astray>>
      BY <1>17 DEF vars
  <2>2. /\ Cells' = Cells /\ RangeCells' = RangeCells /\ Covered' = Covered
        /\ EraseRange(req)' = EraseRange(req) /\ Refused(req)' = Refused(req)
        /\ \A a : /\ Cell(req, a)' = Cell(req, a) /\ FileData(a)' = FileData(a)
                  /\ FileCell(a)' = FileCell(a) /\ KeptCell(a)' = KeptCell(a)
                  /\ Final(a)' = Final(a) /\ Grid(a)' = Grid(a)
        /\ \A j : Proper(j)' = Proper(j)
      BY <2>1, SameCommand
  <2>3. \A a : Waits(jobs, a)' = Waits(jobs, a)
      BY <2>1 DEF Waits
  <2>4. Storing'
    <3>1. ASSUME Stores(jobs) PROVE Stores(jobs)'
        BY <2>1, <2>2, <2>3, <3>1
           DEF Stores, ReadsFirst, Kept, HalfErased, HalfWritten, Outside
    <3>. QED BY <2>1, <3>1 DEF StoreInv, Storing
  <2>5. Done'
      BY <2>1, <2>2 DEF StoreInv, SuccessIsDone, UpdateKeepsRest, Succeeded
  <2>. QED BY <1>3, <2>1, <2>4, <2>5
<1>. QED BY <1>8, <1>9, <1>10, <1>11, <1>12, <1>13, <1>14, <1>15, <1>16, <1>17 DEF Next, Step

\* An erase that succeeds leaves its range blank and a write the file, for any
\* chips whose sectors are even, whatever erase types are chosen and however the
\* range is cut at pages, dies, regions and operations, unless selecting a die
\* failed during set-up.
THEOREM SuccessfulIsDone == ASSUME EvenSectors PROVE Spec => []SuccessIsDone
<1>1. StoreInv /\ [Next]_vars => StoreInv'
    BY StoreNext
<1>2. StoreInv => SuccessIsDone
    BY DEF StoreInv
<1>. QED BY StoreInit, <1>1, <1>2, PTL DEF Spec

\* An update that succeeds leaves the file and every other cell of the chip as it
\* was, under the same conditions.
THEOREM RestIsKept == ASSUME EvenSectors PROVE Spec => []UpdateKeepsRest
<1>1. StoreInv /\ [Next]_vars => StoreInv'
    BY StoreNext
<1>2. StoreInv => UpdateKeepsRest
    BY DEF StoreInv
<1>. QED BY StoreInit, <1>1, <1>2, PTL DEF Spec

\* Whatever fails, no step changes a cell outside the range of the command.
THEOREM ChangesStayInBlocks == ASSUME EvenSectors PROVE Spec => ChangesInBlocks
<1>. DEFINE InBlocks == ~astray =>
        \A c \in Cells : mem'[c] # mem[c] => \E a \in RangeCells : c = Cell(req, a)
<1>1. StoreInv /\ [Next]_vars => StoreInv'
    BY StoreNext
<1>2. ASSUME StoreInv, [Next]_vars PROVE [InBlocks]_vars
  <2>1. ASSUME OnDie, ~astray, job.kind \in {"write", "erase"} PROVE Storer
    <3>1. pc = "run" /\ jobs # <<>>
        BY <2>1 DEF OnDie
    <3>2. req.op # "read"
        BY <1>2, <2>1, <3>1 DEF StoreInv, Reading, ReadsSo
    <3>. QED BY <1>2, <2>1, <3>1, <3>2 DEF StoreInv, Storing, Storer, Sound
  <2>2. ASSUME OnDie, ~astray, job.kind = "write"
        PROVE  \A c \in Target : \E a \in RangeCells : c = Cell(req, a)
      BY <2>1, <2>2, Programs DEF Target
  <2>3. ASSUME OnDie, ~astray, job.kind = "erase", Fitting(Region, From, To) # {}
        PROVE  \A c \in EraseTarget(Chosen(Region, From, To)) :
                 \E a \in RangeCells : c = Cell(req, a)
    <3>. DEFINE n == Chosen(Region, From, To)
    <3>1. Storer
        BY <2>1, <2>3
    <3>2. 0 \in Nat /\ 0 <= job.left
        BY <3>1, JobFacts DEF Storer
    <3>3. Grid(job.addr)
        BY <2>3, <3>1, <3>2, InJob DEF Proper
    <3>4. /\ n \in Nat /\ n <= job.left
          /\ EraseTarget(n) = {Cell(req, a) : a \in job.addr .. job.addr + n - 1}
        BY <2>3, <3>1, <3>3, EvenErase DEF Storer
    <3>. HIDE DEF n
    <3>5. \A a \in job.addr .. job.addr + n - 1 : a \in RangeCells
        BY <3>1, <3>4, InJob
    <3>6. \A c \in EraseTarget(n) : \E a \in RangeCells : c = Cell(req, a)
        BY <3>4, <3>5
    <3>. QED BY <3>6 DEF n
  <2>4. ASSUME Program PROVE InBlocks
      BY <2>2, <2>4 DEF Program
  <2>5. ASSUME EraseAt PROVE InBlocks
      BY <2>3, <2>5 DEF EraseAt, With
  <2>6. ASSUME CommandFails PROVE InBlocks
      BY <2>2, <2>3, <2>6 DEF CommandFails, With
  <2>7. ASSUME mem' = mem PROVE InBlocks
      BY <2>7
  <2>8. ASSUME NEW r \in Commands, Start(r) \/ StartMissing(r) \/ StartFails(r)
        PROVE  mem' = mem
      BY <2>8 DEF Start, StartMissing, StartFails, Given
  <2>9. ASSUME Read \/ Verify \/ SelectFails \/ AddressFails \/ NextJob \/ Finish
        PROVE  mem' = mem
      BY <2>9 DEF Read, Verify, SelectFails, AddressFails, NextJob, Finish, chip
  <2>. QED BY <1>2, <2>4, <2>5, <2>6, <2>7, <2>8, <2>9 DEF Next, Step
<1>. QED BY StoreInit, <1>1, <1>2, PTL DEF Spec, ChangesInBlocks
=============================================================================
