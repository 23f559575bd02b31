-------------------------- MODULE Mt7621BbtProofs --------------------------
(***************************************************************************)
(* Theorems about Mt7621Bbt: for a chip and a table window of any size,    *)
(* any number of marks and of failures, and a process that may be killed   *)
(* between any two steps.                                                  *)
(***************************************************************************)
EXTENDS Mt7621Bbt, WellFoundedInduction, TLAPS

Usable(b) == b \in Window /\ b \notin marks
Saves == {"erase", "write"}

\* No table of a good block lies above b.
Topmost(b) == \A c \in Readable : c <= b

\* The bitmap, its table and the save in progress, whatever fails.
Held ==
    /\ pc = "scan" => ~changed /\ (bbt_block # 0 => flash[bbt_block] = Table(ram))
    /\ (pc = "ready" /\ ~changed /\ bbt_block # 0) => flash[bbt_block] = Table(ram)
    /\ pc \in Saves => changed /\ bbt_block # 0
    /\ pc \in {"ready"} \cup Saves => ram \subseteq marks
    /\ pc = "write" => Usable(cursor) /\ flash[cursor].kind = "free"

\* A process that runs has not ended by itself.
Awake == pc # "off" => ~clean

\* What a process without a failure knows.
Known ==
    /\ pc \in {"ready"} \cup Saves => ram = marks
    /\ (pc \in {"scan", "ready"} /\ bbt_block # 0 /\ ~changed) => Usable(bbt_block)
    /\ (found /\ ~disabled /\ pc # "off") =>
          /\ bbt_block # 0 /\ Usable(bbt_block) /\ flash[bbt_block].kind # "data"
          /\ pc \in Saves => cursor = bbt_block

\* Which table a boot loader finds first.
Found ==
    /\ (pc \in {"scan", "ready"} /\ bbt_block # 0) => Topmost(bbt_block)
    /\ (pc \in {"scan", "ready"} /\ bbt_block = 0 /\ ~changed) => Readable = {}
    /\ pc \in Saves => Topmost(cursor)
    /\ (pc = "off" /\ clean) => \A b \in Readable : Topmost(b) => flash[b] = Table(marks)

Inv == TypeOK /\ Held /\ Awake /\ (faults = 0 => Known /\ Found)

-----------------------------------------------------------------------------
(* Numbers *)

LEMMA Numbers ==
    /\ NBlocks \in Nat /\ TableNum \in Nat \ {0} /\ NBlocks > TableNum /\ MaxFaults \in Nat
    /\ 0 \in Blocks /\ NBlocks - 1 \in Blocks /\ NBlocks - 1 # 0
    /\ Window \subseteq Blocks /\ Blocks \subseteq Nat
    /\ \A b \in Window : b - 1 \in Blocks /\ b # 0
    /\ \A b \in Window, c \in Blocks : c \notin Window => c < b
    /\ \A b \in Blocks : b <= NBlocks - 1
BY BbtAssumption DEF Blocks, Window

\* A set of blocks that is not empty has a last one.
LEMMA LastBlock ==
    ASSUME NEW S \in SUBSET Blocks, S # {}
    PROVE  Max(S) \in S /\ (\A b \in S : b <= Max(S))
<1>. DEFINE D == {n \in Nat : NBlocks - 1 - n \in S}
<1>1. PICK s \in S : TRUE
    OBVIOUS
<1>2. NBlocks - 1 - s \in Nat /\ NBlocks - 1 - (NBlocks - 1 - s) = s
    BY <1>1, Numbers
<1>3. D # {} /\ D \subseteq Nat
    BY <1>2
<1>4. PICK n \in D : \A m \in D : ~(<<m, n>> \in OpToRel(<, Nat))
    BY <1>3, NatLessThanWellFounded, WFMin
<1>5. \A m \in D : ~(m < n)
    BY <1>4 DEF OpToRel
<1>6. ASSUME NEW b \in S PROVE NBlocks - 1 - n >= b
  <2>1. b \in Nat /\ b <= NBlocks - 1 /\ NBlocks \in Nat
      BY Numbers
  <2>2. NBlocks - 1 - b \in Nat /\ NBlocks - 1 - (NBlocks - 1 - b) = b
      BY <2>1
  <2>3. NBlocks - 1 - b \in D
      BY <2>2
  <2>. QED BY <1>5, <2>1, <2>2, <2>3
<1>7. \E x \in S : \A y \in S : x >= y
    BY <1>6
<1>8. Max(S) \in S /\ \A y \in S : Max(S) >= y
    BY <1>7 DEF Max
<1>. QED BY <1>8, Numbers

LEMMA ReadableBlocks == Readable \subseteq Blocks /\ \A b \in Readable : Usable(b)
BY Numbers DEF Readable, Usable

-----------------------------------------------------------------------------
(* Types *)

Kinds == {"free", "data", "torn", "table"}
States == [kind : Kinds, bad : SUBSET Blocks]

LEMMA StateType ==
    /\ \A bad \in SUBSET Blocks : Table(bad) \in States /\ Table(bad).kind = "table" /\ Table(bad).bad = bad
    /\ \A kind \in Kinds : Other(kind) \in States /\ Other(kind).kind = kind
<1>1. {} \in SUBSET Blocks /\ "table" \in Kinds
    BY DEF Kinds
<1>2. \A bad \in SUBSET Blocks : Table(bad) \in States /\ Table(bad).kind = "table" /\ Table(bad).bad = bad
    BY <1>1 DEF Table, States
<1>3. \A kind \in Kinds : Other(kind) \in States /\ Other(kind).kind = kind
    BY <1>1 DEF Other, States
<1>. QED BY <1>2, <1>3

LEMMA FaultType == TypeOK /\ Fault => faults' \in 0 .. MaxFaults /\ faults' > 0
BY Numbers DEF TypeOK, Fault

LEMMA NoFaultBefore == TypeOK /\ Fault => faults' # 0
BY Numbers DEF TypeOK, Fault

LEMMA SaveType == TypeOK => \A to : Save(to) => bbt_block' \in Blocks /\ bbt_block' # 0 /\ cursor' = bbt_block'
BY Numbers DEF Save, TypeOK

LEMMA TypeInit == Init => TypeOK
<1>. SUFFICES ASSUME Init PROVE TypeOK
    OBVIOUS
<1>1. marks \subseteq Blocks
    BY DEF Init
<1>2. PICK home \in SUBSET Blocks : flash = [b \in Blocks |-> IF b \in home THEN Table(marks) ELSE Other("free")]
    BY Numbers DEF Init
<1>3. flash \in [Blocks -> States]
    BY <1>1, <1>2, StateType DEF Kinds
<1>4. 0 \in 0 .. MaxFaults
    BY Numbers
<1>. QED BY <1>1, <1>3, <1>4, Numbers DEF Init, TypeOK, States, Kinds

LEMMA TypeStep == TypeOK /\ Held /\ [Next]_vars => TypeOK'
<1>. SUFFICES ASSUME TypeOK, Held, [Next]_vars PROVE TypeOK'
    OBVIOUS
<1>1. flash \in [Blocks -> States] /\ marks \subseteq Blocks /\ ram \subseteq Blocks /\ faults \in 0 .. MaxFaults
    BY DEF TypeOK, States, Kinds
<1>2. \A b \in Blocks, s \in States : [flash EXCEPT ![b] = s] \in [Blocks -> States]
    BY <1>1
<1>3. Other("free") \in States /\ Other("data") \in States /\ Other("torn") \in States /\ Table(ram) \in States
    BY <1>1, StateType DEF Kinds
<1>4. CASE Load
  <2>1. PICK lost \in SUBSET Readable :
           /\ IF lost = {} THEN UNCHANGED faults ELSE Fault
           /\ IF Readable \ lost = {} THEN TakeNone ELSE Take(Max(Readable \ lost))
           /\ found' = (Readable \ lost # {})
      BY <1>4 DEF Load
  <2>2. Readable \ lost # {} => Max(Readable \ lost) \in Blocks
      BY ReadableBlocks, LastBlock
  <2>. DEFINE m == Max(Readable \ lost)
  <2>5. m \in Blocks => flash[m].bad \subseteq Blocks
      BY <1>1 DEF States
  <2>. HIDE DEF m
  <2>3. ram' \subseteq Blocks /\ bbt_block' \in Blocks /\ read_only' \in BOOLEAN
    <3>1. CASE TakeNone
        BY <3>1, Numbers DEF TakeNone
    <3>2. CASE Take(m) /\ m \in Blocks
        BY <2>5, <3>2 DEF Take
    <3>. QED BY <2>1, <2>2, <3>1, <3>2 DEF m
  <2>4. faults' \in 0 .. MaxFaults /\ found' \in BOOLEAN
      BY <1>1, <2>1, FaultType
  <2>. QED BY <1>4, <2>3, <2>4 DEF Load, TypeOK
<1>5. CASE Rescan
  <2>1. bbt_block' \in Blocks /\ cursor' \in Blocks /\ faults' \in 0 .. MaxFaults /\ ram' \subseteq Blocks
      BY <1>1, <1>5, SaveType, FaultType DEF Rescan, TypeOK
  <2>2. pc' \in {"off", "ready", "erase"} /\ then' \in {"ready", "off"} /\ changed' \in BOOLEAN
      BY <1>5 DEF Rescan, Save, TypeOK
  <2>. QED BY <1>5, <2>1, <2>2 DEF Rescan, SameChip, history, TypeOK
<1>6. CASE SaveErase
  <2>1. cursor \in Window /\ cursor \in Blocks /\ cursor - 1 \in Blocks
      BY <1>6, Numbers DEF SaveErase
  <2>2. flash' \in [Blocks -> States]
      BY <1>1, <1>2, <1>3, <1>6, <2>1 DEF SaveErase
  <2>3. faults' \in 0 .. MaxFaults /\ cursor' \in Blocks /\ pc' \in {"erase", "write"}
      BY <1>1, <1>6, <2>1, FaultType DEF SaveErase, NextBlock
  <2>. QED BY <1>6, <2>2, <2>3 DEF SaveErase, table, history, TypeOK, States, Kinds
<1>7. CASE SaveWrite
  <2>1. cursor \in Window /\ cursor \in Blocks /\ cursor - 1 \in Blocks
      BY <1>7, Numbers DEF SaveWrite, Held, Usable
  <2>2. flash' \in [Blocks -> States]
      BY <1>2, <1>3, <1>7, <2>1 DEF SaveWrite
  <2>3. faults' \in 0 .. MaxFaults /\ cursor' \in Blocks /\ bbt_block' \in Blocks
      BY <1>1, <1>7, <2>1, FaultType DEF SaveWrite, NextBlock, TypeOK
  <2>. QED BY <1>7, <2>2, <2>3 DEF SaveWrite, NextBlock, Finish, TypeOK, States, Kinds
<1>8. CASE FtlWrite
  <2>1. flash' \in [Blocks -> States]
      BY <1>2, <1>3, <1>8 DEF FtlWrite
  <2>. QED BY <1>8, <2>1 DEF FtlWrite, table, history, TypeOK, States, Kinds
<1>9. CASE MarkBad
  <2>1. marks' \subseteq Blocks /\ ram' \subseteq Blocks /\ bbt_block' \in Blocks /\ changed' \in BOOLEAN
        /\ read_only' \in BOOLEAN /\ disabled' \in BOOLEAN
      BY <1>1, <1>9, Numbers DEF MarkBad, SetBad, TypeOK
  <2>2. faults' \in 0 .. MaxFaults
      BY <1>1, <1>9, FaultType DEF MarkBad
  <2>. QED BY <1>9, <2>1, <2>2 DEF MarkBad, TypeOK
<1>10. CASE Exit
  <2>1. bbt_block' \in Blocks /\ cursor' \in Blocks
      BY <1>10, SaveType DEF Exit, TypeOK
  <2>. QED BY <1>10, <2>1 DEF Exit, SameChip, Save, Finish, TypeOK
<1>11. CASE SaveFails \/ Crash \/ UNCHANGED vars
    BY <1>11 DEF SaveFails, Crash, vars, table, history, TypeOK
<1>. QED BY <1>4, <1>5, <1>6, <1>7, <1>8, <1>9, <1>10, <1>11 DEF Next, Saving
-----------------------------------------------------------------------------
(* The bitmap and its table *)

LEMMA HeldStep ==
    ASSUME TypeOK, Held, [Next]_vars
    PROVE  Held'
<1>1. flash \in [Blocks -> States] /\ bbt_block \in Blocks /\ cursor \in Blocks /\ ram \subseteq Blocks
    BY DEF TypeOK, States, Kinds
<1>2. Window \subseteq Blocks /\ 0 \in Blocks
    BY Numbers
<1>3. CASE Load
  <2>1. PICK lost \in SUBSET Readable : IF Readable \ lost = {} THEN TakeNone ELSE Take(Max(Readable \ lost))
      BY <1>3 DEF Load
  <2>. DEFINE m == Max(Readable \ lost)
  <2>2. Readable \ lost # {} => m \in Readable
    <3>1. Readable \ lost \in SUBSET Blocks
        BY ReadableBlocks
    <3>. QED BY <3>1, LastBlock
  <2>3. m \in Readable => flash[m] = Table(flash[m].bad)
      BY <1>1, ReadableBlocks DEF Readable, Table, States
  <2>. HIDE DEF m
  <2>4. bbt_block' # 0 => flash[bbt_block'] = Table(ram')
    <3>1. CASE TakeNone
        BY <3>1 DEF TakeNone
    <3>2. CASE Take(m) /\ m \in Readable
        BY <2>3, <3>2 DEF Take
    <3>. QED BY <2>1, <2>2, <3>1, <3>2 DEF m
  <2>. QED BY <1>3, <2>4 DEF Load, Held, Saves
<1>4. CASE Rescan
  <2>1. pc = "scan" /\ UNCHANGED <<marks, flash>>
      BY <1>4 DEF Rescan, SameChip
  <2>2. CASE Fault /\ pc' = "off"
      BY <2>2 DEF Held, Saves
  <2>3. CASE Save("ready") /\ changed' /\ ram' = marks
      BY <1>1, <2>1, <2>3, SaveType DEF Save, Held, Saves
  <2>4. CASE pc' = "ready" /\ ram' = marks /\ UNCHANGED bbt_block /\ changed' = (changed \/ ram # marks)
      BY <2>1, <2>4 DEF Held, Saves
  <2>. QED BY <1>4, <2>2, <2>3, <2>4 DEF Rescan
<1>5. CASE SaveErase
  <2>1. pc = "erase" /\ UNCHANGED <<marks, table>> /\ cursor \in Window
      BY <1>5 DEF SaveErase
  <2>2. pc' = "write" => Usable(cursor)' /\ flash'[cursor'].kind = "free"
      BY <1>1, <1>2, <1>5, <2>1, StateType DEF SaveErase, NextBlock, Usable, Kinds
  <2>3. pc' \in Saves
      BY <1>5 DEF SaveErase, NextBlock, Saves
  <2>. QED BY <2>1, <2>2, <2>3 DEF Held, Saves, table
<1>6. CASE SaveWrite
  <2>1. pc = "write" /\ UNCHANGED <<marks, ram>> /\ Usable(cursor) /\ cursor \in Blocks
      BY <1>1, <1>6 DEF SaveWrite, Held
  <2>2. CASE pc' = "erase"
      BY <1>6, <2>1, <2>2 DEF SaveWrite, NextBlock, Finish, TypeOK, Held, Saves
  <2>3. CASE pc' # "erase"
    <3>1. pc' = then /\ then \in {"ready", "off"} /\ bbt_block' = cursor /\ flash'[cursor] = Table(ram)
        BY <1>1, <1>6, <2>1, <2>3 DEF SaveWrite, NextBlock, Finish, TypeOK
    <3>. QED BY <2>1, <3>1 DEF Held, Saves
  <2>. QED BY <2>2, <2>3
<1>7. CASE FtlWrite
  <2>1. PICK b \in Blocks : ~is_reserved(b) /\ flash' = [flash EXCEPT ![b] = Other("data")]
      BY <1>7 DEF FtlWrite
  <2>2. bbt_block # 0 => flash'[bbt_block] = flash[bbt_block]
      BY <1>1, <2>1 DEF is_reserved
  <2>. QED BY <1>7, <2>2 DEF FtlWrite, table, Held, Saves
<1>8. CASE MarkBad
  <2>1. pc = "ready" /\ pc' = "ready" /\ UNCHANGED flash /\ ram \subseteq marks
      BY <1>8 DEF MarkBad, Held
  <2>2. ram' \subseteq marks'
      BY <1>8, <2>1 DEF MarkBad, SetBad
  <2>3. (~changed' /\ bbt_block' # 0) => ~changed /\ bbt_block' = bbt_block /\ ram' = ram
      BY <1>8 DEF MarkBad, SetBad
  <2>. QED BY <2>1, <2>2, <2>3 DEF Held, Saves
<1>9. CASE Exit
  <2>1. pc' = "off" \/ (pc' = "erase" /\ changed' /\ bbt_block' # 0 /\ ram' = ram /\ marks' = marks /\ pc = "ready")
      BY <1>9, SaveType DEF Exit, Save, Finish, SameChip, TypeOK
  <2>. QED BY <2>1 DEF Held, Saves
<1>10. CASE SaveFails
    BY <1>10 DEF SaveFails, table, Held, Saves, TypeOK
<1>11. CASE Crash \/ UNCHANGED vars
    BY <1>11 DEF Crash, vars, table, Held, Usable, Saves
<1>. QED BY <1>3, <1>4, <1>5, <1>6, <1>7, <1>8, <1>9, <1>10, <1>11 DEF Next, Saving
-----------------------------------------------------------------------------
(* A process without a failure *)

LEMMA AwakeStep ==
    ASSUME TypeOK, Awake, [Next]_vars
    PROVE  Awake'
<1>1. CASE Load \/ Rescan \/ SaveErase \/ SaveFails \/ FtlWrite \/ MarkBad \/ Crash \/ UNCHANGED vars
    BY <1>1 DEF Awake, Load, Rescan, Save, SaveErase, SaveFails, FtlWrite, MarkBad, Crash, vars, history,
       NextBlock
<1>2. CASE SaveWrite \/ Exit
    BY <1>2 DEF Awake, SaveWrite, Exit, Finish, NextBlock, Save, TypeOK
<1>. QED BY <1>1, <1>2 DEF Next, Saving

LEMMA SameReadable ==
    ASSUME UNCHANGED <<marks, flash>>
    PROVE  UNCHANGED Readable
BY DEF Readable

LEMMA QuietStep ==
    ASSUME TypeOK, Held, Awake, faults' = 0, faults = 0, Known, Found, Next
    PROVE  Known' /\ Found'
<1>1. /\ flash \in [Blocks -> States] /\ bbt_block \in Blocks /\ cursor \in Blocks /\ ram \subseteq Blocks
      /\ marks \subseteq Blocks /\ then \in {"ready", "off"}
    BY DEF TypeOK, States, Kinds
<1>2. Window \subseteq Blocks /\ 0 \in Blocks /\ ~Fault
    BY Numbers, NoFaultBefore
<1>3. Readable \subseteq Blocks /\ \A b \in Readable : Usable(b) /\ b <= NBlocks - 1 /\ b # 0
    BY ReadableBlocks, Numbers DEF Usable
<1>4. \A b \in Blocks : b \in Readable <=> Usable(b) /\ flash[b].kind = "table"
    BY <1>2 DEF Readable, Usable
<1>5. CASE Load
  <2>1. /\ IF Readable = {} THEN TakeNone ELSE Take(Max(Readable))
        /\ found' = (Readable # {}) /\ pc' = "scan" /\ UNCHANGED <<marks, flash>> /\ ~disabled'
    <3>1. PICK lost \in SUBSET Readable :
             /\ IF lost = {} THEN UNCHANGED faults ELSE Fault
             /\ IF Readable \ lost = {} THEN TakeNone ELSE Take(Max(Readable \ lost))
             /\ found' = (Readable \ lost # {})
        BY <1>5 DEF Load
    <3>2. Readable \ lost = Readable
        BY <1>2, <3>1
    <3>. QED BY <1>5, <3>1, <3>2 DEF Load
  <2>2. CASE Readable = {}
      BY <2>1, <2>2, SameReadable DEF TakeNone, Known, Found, Saves
  <2>3. CASE Readable # {}
    <3>1. Max(Readable) \in Readable /\ \A b \in Readable : b <= Max(Readable)
        BY <1>3, <2>3, LastBlock
    <3>2. PICK m \in Readable : m = Max(Readable)
        BY <3>1
    <3>4. bbt_block' = m /\ \A b \in Readable : b <= m
        BY <2>1, <2>3, <3>1, <3>2 DEF Take
    <3>3. Usable(m)' /\ m # 0 /\ flash'[m].kind = "table" /\ Topmost(m)'
        BY <1>3, <1>4, <2>1, <3>4, SameReadable DEF Usable, Topmost
    <3>. QED BY <2>1, <3>4, <3>3 DEF Known, Found, Saves, Usable, Topmost
  <2>. QED BY <2>2, <2>3
<1>6. CASE Rescan
  <2>1. pc = "scan" /\ UNCHANGED <<marks, flash, found, disabled, clean, Readable>> /\ ram' = marks /\ ~changed
        /\ changed' = (ram # marks)
      BY <1>2, <1>6, SameReadable DEF Rescan, SameChip, history, Held
  <2>2. bbt_block # 0 => Usable(bbt_block)
      BY <2>1 DEF Known
  <2>3. CASE Save("ready") /\ changed'
    <3>1. pc' = "erase" /\ cursor' = bbt_block' /\ bbt_block' # 0 /\ bbt_block' = IF bbt_block = 0 THEN NBlocks - 1 ELSE bbt_block
        BY <2>3, SaveType, Numbers DEF Save
    <3>2. Topmost(cursor')
        BY <1>3, <2>1, <3>1 DEF Topmost, Found
    <3>3. Known'
        BY <2>1, <3>1 DEF Known, Usable, Saves
    <3>. QED BY <2>1, <3>1, <3>2, <3>3 DEF Found, Saves, Topmost
  <2>4. CASE pc' = "ready" /\ UNCHANGED bbt_block
    <3>1. Known'
        BY <2>1, <2>2, <2>4 DEF Known, Usable, Saves
    <3>2. Found'
        BY <2>1, <2>4 DEF Found, Saves, Topmost
    <3>. QED BY <3>1, <3>2
  <2>. QED BY <1>2, <1>6, <2>1, <2>3, <2>4 DEF Rescan
<1>7. CASE SaveErase
  <2>1. pc = "erase" /\ UNCHANGED <<marks, table, then, found, disabled, clean>> /\ cursor \in Window /\ ram = marks
      BY <1>7 DEF SaveErase, Known, history, Saves
  <2>2. CASE cursor \in marks /\ NextBlock /\ UNCHANGED flash
    <3>1. cursor \notin Readable /\ \A b \in Readable : b <= cursor - 1
      <4>1. \A b \in Readable : b \in Nat /\ b <= cursor /\ b # cursor
          BY <1>3, <2>1, <2>2, Numbers DEF Found, Topmost, Saves, Usable
      <4>. QED BY <1>1, <4>1, Numbers
    <3>2. Found'
        BY <2>1, <2>2, <3>1, SameReadable DEF Found, NextBlock, Topmost, Saves
    <3>3. ~(found /\ ~disabled)
        BY <2>1, <2>2 DEF Known, Usable, Saves
    <3>. QED BY <2>1, <2>2, <3>2, <3>3 DEF Known, NextBlock, Saves, table
  <2>3. CASE cursor \notin marks /\ flash' = [flash EXCEPT ![cursor] = Other("free")] /\ pc' = "write" /\ UNCHANGED cursor
    <3>1. flash'[cursor].kind = "free" /\ \A b \in Blocks : b # cursor => flash'[b] = flash[b]
        BY <1>1, <2>3, StateType DEF Kinds
    <3>2. Readable' \subseteq Readable
        BY <1>2, <2>1, <3>1 DEF Readable
    <3>3. Found'
        BY <2>1, <2>3, <3>2 DEF Found, Topmost, Saves
    <3>4. Known'
        BY <1>1, <2>1, <2>3, <3>1 DEF Known, Usable, Saves, table
    <3>. QED BY <3>3, <3>4
  <2>. QED BY <1>2, <1>7, <2>2, <2>3 DEF SaveErase
<1>8. CASE SaveWrite
  <2>1. /\ pc = "write" /\ UNCHANGED <<marks, ram, found, disabled>> /\ ram = marks /\ Usable(cursor)
        /\ flash' = [flash EXCEPT ![cursor] = Table(ram)] /\ bbt_block' = cursor /\ ~changed' /\ Finish(then)
        /\ UNCHANGED cursor
      BY <1>2, <1>8 DEF SaveWrite, Known, Held, Saves
  <2>2. flash'[cursor] = Table(marks) /\ Table(marks).kind = "table" /\ \A b \in Blocks : b # cursor => flash'[b] = flash[b]
      BY <1>1, <2>1, StateType
  <2>3. cursor \in Readable' /\ cursor # 0
      BY <1>1, <2>1, <2>2, Numbers DEF Readable, Usable
  <2>4. Topmost(cursor)'
    <3>1. \A b \in Readable' : b \in Readable \/ b = cursor
        BY <1>2, <2>1, <2>2 DEF Readable
    <3>2. \A b \in Readable : b <= cursor
        BY <2>1 DEF Found, Saves, Topmost
    <3>. QED BY <1>1, <2>1, <3>1, <3>2, Numbers DEF Topmost
  <2>5. \A b \in Readable' : Topmost(b)' => b = cursor
    <3>1. \A b \in Readable' : b \in Nat
        BY Numbers DEF Readable
    <3>. QED BY <1>1, <2>1, <2>3, <2>4, <3>1, Numbers DEF Topmost
  <2>6. pc' \in {"ready", "off"}
      BY <1>1, <2>1 DEF Finish
  <2>7. Found'
      BY <2>1, <2>2, <2>3, <2>4, <2>5, <2>6 DEF Found, Saves, Topmost
  <2>8. Known'
      BY <2>1, <2>2, <2>3, <2>6 DEF Known, Saves, Usable
  <2>. QED BY <2>7, <2>8
<1>9. CASE FtlWrite
  <2>1. PICK b \in Blocks : ~is_reserved(b) /\ flash' = [flash EXCEPT ![b] = Other("data")]
      BY <1>9 DEF FtlWrite
  <2>2. /\ bbt_block # 0 => flash'[bbt_block] = flash[bbt_block]
        /\ flash'[b].kind = "data" /\ \A c \in Blocks : c # b => flash'[c] = flash[c]
      BY <1>1, <2>1, StateType DEF is_reserved, Kinds
  <2>3. UNCHANGED <<marks, ram, bbt_block, changed, pc, found, disabled>> /\ pc = "ready"
      BY <1>9 DEF FtlWrite, table, history
  <2>4. Readable' \subseteq Readable
      BY <1>2, <2>1, <2>2, <2>3 DEF Readable
  <2>5. Found'
      BY <2>3, <2>4 DEF Found, Saves, Topmost
  <2>6. Known'
      BY <2>2, <2>3 DEF Known, Saves, Usable
  <2>. QED BY <2>5, <2>6
<1>10. CASE MarkBad
  <2>1. PICK b \in Blocks : marks' = marks \cup {b} /\ SetBad(b)
      BY <1>2, <1>10 DEF MarkBad
  <2>2. pc = "ready" /\ pc' = "ready" /\ UNCHANGED <<flash, found>> /\ ram = marks
      BY <1>10 DEF MarkBad, Known
  <2>3. ram' = marks' /\ Readable' \subseteq Readable
      BY <2>1, <2>2 DEF SetBad, Readable
  <2>4. \/ bbt_block = b /\ bbt_block # 0 /\ bbt_block' = 0 /\ disabled' /\ changed'
        \/ UNCHANGED <<bbt_block, disabled>> /\ changed' = (changed \/ b \notin ram) /\ (bbt_block = 0 \/ bbt_block # b)
    <3>1. (bbt_block = b /\ bbt_block # 0) => changed'
      <4>1. (bbt_block # 0 /\ ~changed) => bbt_block \notin ram
          BY <2>2 DEF Known, Usable
      <4>. QED BY <2>1, <4>1 DEF SetBad
    <3>. QED BY <2>1, <3>1 DEF SetBad
  <2>5. CASE bbt_block = b /\ bbt_block # 0 /\ bbt_block' = 0 /\ disabled' /\ changed'
      BY <2>2, <2>3, <2>5 DEF Known, Found, Saves
  <2>6. CASE UNCHANGED <<bbt_block, disabled>> /\ changed' = (changed \/ b \notin ram) /\ (bbt_block = 0 \/ bbt_block # b)
    <3>1. Known'
        BY <2>1, <2>2, <2>3, <2>6 DEF Known, Usable, Saves
    <3>2. Found'
        BY <2>2, <2>3, <2>6 DEF Found, Saves, Topmost
    <3>. QED BY <3>1, <3>2
  <2>. QED BY <2>4, <2>5, <2>6
<1>11. CASE Exit
  <2>1. pc = "ready" /\ UNCHANGED <<marks, flash, ram, changed, found, disabled, Readable>> /\ ram = marks
      BY <1>11, SameReadable DEF Exit, SameChip, Known
  <2>2. CASE changed
    <3>1. pc' = "erase" /\ cursor' = bbt_block' /\ bbt_block' # 0 /\ bbt_block' = IF bbt_block = 0 THEN NBlocks - 1 ELSE bbt_block
        BY <1>11, <2>2, Numbers DEF Exit, Save
    <3>2. Topmost(cursor')
        BY <1>3, <2>1, <3>1 DEF Topmost, Found
    <3>3. Known'
        BY <2>1, <3>1 DEF Known, Usable, Saves
    <3>. QED BY <2>1, <3>1, <3>2, <3>3 DEF Found, Saves, Topmost
  <2>3. CASE ~changed
    <3>1. pc' = "off"
        BY <1>11, <2>3 DEF Exit, Finish
    <3>2. \A b \in Readable : Topmost(b) => flash[b] = Table(marks)
      <4>1. CASE bbt_block = 0
          BY <2>1, <2>3, <4>1 DEF Found
      <4>2. CASE bbt_block # 0
        <5>1. flash[bbt_block] = Table(marks) /\ Table(marks).kind = "table" /\ Usable(bbt_block) /\ Topmost(bbt_block)
            BY <1>1, <2>1, <2>3, <4>2, StateType DEF Held, Known, Found
        <5>2. bbt_block \in Readable
            BY <1>1, <1>4, <5>1
        <5>3. \A b \in Readable : Topmost(b) => b = bbt_block
            BY <1>1, <1>3, <5>1, <5>2, Numbers DEF Topmost
        <5>. QED BY <5>1, <5>3
      <4>. QED BY <4>1, <4>2
    <3>. QED BY <2>1, <3>1, <3>2 DEF Known, Found, Saves, Topmost
  <2>. QED BY <2>2, <2>3
<1>12. CASE SaveFails
  <2>1. pc = "erase" /\ pc' = then /\ UNCHANGED <<marks, flash, table, history, Readable>> /\ cursor \notin Window
        /\ ram = marks /\ changed
      BY <1>12, SameReadable DEF SaveFails, Known, Held, Saves
  <2>2. Readable = {}
    <3>1. \A b \in Readable : b \in Window /\ b \in Nat /\ b <= cursor
        BY <1>3, <2>1, Numbers DEF Found, Topmost, Saves, Usable
    <3>2. \A b \in Window : cursor < b
        BY <1>1, <2>1, Numbers
    <3>3. cursor \in Nat
        BY <1>1, Numbers
    <3>. QED BY <3>1, <3>2, <3>3
  <2>3. Found'
      BY <1>1, <2>1, <2>2 DEF Found, Topmost, Saves, table, history
  <2>4. ~(found /\ ~disabled)
      BY <2>1 DEF Known, Saves, Usable
  <2>. QED BY <1>1, <2>1, <2>3, <2>4 DEF Known, Saves, table, history
<1>13. CASE Crash
  <2>1. pc' = "off" /\ UNCHANGED <<marks, flash, clean>> /\ pc # "off"
      BY <1>13 DEF Crash, history
  <2>2. ~clean'
      BY <2>1 DEF Awake
  <2>. QED BY <2>1, <2>2 DEF Known, Found, Saves
<1>. QED BY <1>5, <1>6, <1>7, <1>8, <1>9, <1>10, <1>11, <1>12, <1>13 DEF Next, Saving
-----------------------------------------------------------------------------
(* The theorems *)

LEMMA Initially == Init => Inv
<1>. SUFFICES ASSUME Init PROVE Inv
    OBVIOUS
<1>1. TypeOK /\ pc = "off" /\ found = FALSE
    BY TypeInit DEF Init
<1>2. Held /\ Awake /\ Known
    BY <1>1 DEF Held, Awake, Known, Saves
<1>3. PICK home \in SUBSET Blocks : flash = [b \in Blocks |-> IF b \in home THEN Table(marks) ELSE Other("free")]
    BY Numbers DEF Init
<1>4. \A b \in Blocks : flash[b].kind = "table" => flash[b] = Table(marks)
  <2>1. Other("free").kind # "table"
      BY StateType DEF Kinds
  <2>. QED BY <1>3, <2>1
<1>5. \A b \in Readable : b \in Blocks /\ flash[b].kind = "table"
    BY Numbers DEF Readable
<1>6. Found
    BY <1>1, <1>4, <1>5 DEF Found, Saves
<1>. QED BY <1>1, <1>2, <1>6 DEF Inv

LEMMA Stepping == Inv /\ [Next]_vars => Inv'
<1>1. Inv /\ Next => Inv'
  <2>. SUFFICES ASSUME Inv, Next PROVE Inv'
      OBVIOUS
  <2>1. TypeOK' /\ Held' /\ Awake'
      BY TypeStep, HeldStep, AwakeStep DEF Inv
  <2>2. faults' = 0 => faults = 0
      BY NoFaultBefore DEF Inv, Next, Load, Rescan, Saving, SaveErase, SaveWrite, SaveFails, FtlWrite,
         MarkBad, Exit, Crash
  <2>3. faults' = 0 => Known' /\ Found'
      BY <2>2, QuietStep DEF Inv
  <2>. QED BY <2>1, <2>3 DEF Inv
<1>2. Inv /\ UNCHANGED vars => Inv'
    BY DEF Inv, vars, TypeOK, Held, Awake, Known, Found, Usable, Topmost, Readable
<1>. QED BY <1>1, <1>2

\* The invariant holds in every state, whatever fails and whenever a process is
\* killed.
THEOREM Invariance == Spec => []Inv
BY Initially, Stepping, PTL DEF Spec

\* Every variable keeps its type: neither the block of the table nor the loop
\* of save leaves the chip.
THEOREM TypeCorrect == Spec => []TypeOK
<1>1. Inv => TypeOK
    BY DEF Inv
<1>. QED BY <1>1, Invariance, PTL

\* When nothing is left to be saved, the block said to hold the table holds the
\* bitmap, whatever has failed and wherever save had to move it.
THEOREM TableIsFollowed == Spec => []TableFollows
<1>1. Inv => TableFollows
    BY DEF Inv, Held, TableFollows
<1>. QED BY <1>1, Invariance, PTL

\* The bitmap holds no good block, and as long as nothing fails every bad one.
THEOREM BitmapIsTrue == Spec => []RamIsTrue
<1>1. Inv => RamIsTrue
    BY DEF Inv, Held, Known, Saves, RamIsTrue
<1>. QED BY <1>1, Invariance, PTL

\* The first table a boot loader finds after a process that ended by itself
\* tells the truth, whatever processes were killed before.
THEOREM FirmwareIsTold == Spec => []FirmwareReadsTruth
<1>1. Inv => FirmwareReadsTruth
  <2>. SUFFICES ASSUME Inv, pc = "off", clean, faults = 0, Readable # {}
                PROVE  flash[Max(Readable)] = Table(marks)
      BY DEF FirmwareReadsTruth
  <2>1. Max(Readable) \in Readable /\ Topmost(Max(Readable))
      BY ReadableBlocks, LastBlock DEF Topmost
  <2>. QED BY <2>1 DEF Inv, Found
<1>. QED BY <1>1, Invariance, PTL

\* Only a failure, a new table or the loss of the block of the old one lets save
\* take a block with data of the FTL.
THEOREM DataIsSpared == Spec => SaveSparesData
<1>1. Inv /\ Inv' /\ [Next]_vars =>
        [\A b \in Blocks :
            (flash[b].kind = "data" /\ flash'[b].kind # "data") => ~found \/ disabled \/ faults' > 0]_vars
  <2>. SUFFICES ASSUME Inv, Inv', Next, NEW b \in Blocks, flash[b].kind = "data", flash'[b].kind # "data",
                       found, ~disabled, ~(faults' > 0)
                PROVE  FALSE
      BY DEF vars
  <2>1. faults' = 0 /\ flash \in [Blocks -> States]
      BY Numbers DEF Inv, TypeOK, States, Kinds
  <2>2. faults = 0 /\ ~Fault
      BY <2>1, NoFaultBefore DEF Inv, Next, Load, Rescan, Saving, SaveErase, SaveWrite, SaveFails, FtlWrite,
         MarkBad, Exit,
         Crash
  <2>3. TypeOK /\ Held /\ Known
      BY <2>2 DEF Inv
  <2>4. CASE SaveErase
      BY <2>1, <2>2, <2>3, <2>4 DEF SaveErase, Known, Saves
  <2>5. CASE SaveWrite
      BY <2>1, <2>2, <2>3, <2>5 DEF SaveWrite, Held, Usable
  <2>6. CASE FtlWrite
      BY <2>1, <2>6, StateType DEF FtlWrite, Kinds
  <2>7. flash' = flash \/ SaveErase \/ SaveWrite \/ FtlWrite
      BY DEF Next, Load, Rescan, SameChip, Saving, SaveFails, MarkBad, Exit, Crash
  <2>. QED BY <2>4, <2>5, <2>6, <2>7
<1>. QED BY <1>1, Invariance, PTL DEF Spec, SaveSparesData
=============================================================================
