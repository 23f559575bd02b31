--------------------------- MODULE SpiNandProofs ---------------------------
(***************************************************************************)
(* Theorems about SpiNand: for a chip of any number of dies and pages and  *)
(* any number of failures.                                                 *)
(***************************************************************************)
EXTENDS SpiNand, TLAPS

\* The calls of the probe, of the setup of a die, and of the OTP area.
Probing == {"reset", "config", "enter", "send", "wait", "fetch", "leave", "setup", "refresh", "unlock", "off", "failed"}
Setup == {"setup", "refresh", "unlock", "off"}
Session == {"bit", "first", "wren", "load", "send", "wait", "check", "fetch", "leave", "enter"}
Otp == {"otp_read", "otp_write", "otp_lock", "otp_locked", "uid"}

\* Which steps each call makes.
Shape ==
    /\ call.op \in Plain \cup Otp \cup {"probe"}
    /\ call.op = "probe" => pc \in Probing \cup {"idle"} /\ ~ecc_enabled
    /\ call.op = "read" => pc \in {"select", "ecc", "send", "wait", "check", "fetch", "idle"}
    /\ call.op = "write" => pc \in {"select", "ecc", "wren", "load", "send", "wait", "disable", "idle"}
    /\ call.op = "erase" => pc \in {"select", "wren", "send", "wait", "disable", "idle"}
    /\ call.op = "otp_read" => pc \in {"enter", "send", "wait", "check", "fetch", "leave", "idle"}
    /\ call.op = "otp_write" => pc \in {"enter", "first", "wren", "load", "send", "wait", "leave", "disable", "idle"}
    /\ call.op = "otp_lock" => pc \in {"plain", "locked", "enter", "bit", "wren", "send", "wait", "leave", "disable", "idle"}
    /\ call.op = "otp_lock" /\ pc \in {"plain", "locked"} => ret \in {"none", "ok"}
    /\ call.op = "otp_locked" => pc \in {"plain", "locked", "idle"}
    /\ call.op = "uid" => pc \in {"ecc", "enter", "send", "wait", "fetch", "leave", "idle"}

\* The chip works only while the driver waits, unless a timeout was too
\* short or a command was not acknowledged.
Acked == faults["unacked"] = 0
Calm == Acked => Idle \/ pc = "wait" \/ "busy" \in slipped
Sure == Acked /\ slipped \subseteq {"otp"}

\* What the driver remembers of the dies from d on.
Remembered(d) == \A e \in Dies : e >= d => cfg[e] = chip.reg[e]

Known ==
    /\ (call.op = "probe" /\ pc \in Probing \ (Setup \cup {"failed"})) => curr_die = 0 /\ die = NDies - 1
    /\ (call.op = "probe" /\ pc \in {"enter", "send", "wait", "fetch", "leave"}) => cfg[0] = chip.reg[chip.die]
    /\ pc \in Setup =>
          /\ die = NDies - 1 /\ pc = "setup" => curr_die = 0
          /\ die < NDies - 1 \/ pc # "setup" => curr_die = chip.die
          /\ pc # "setup" => curr_die = die
          /\ Remembered(die + 1)
          /\ pc \in {"unlock", "off"} => Remembered(die)
    /\ (call.op # "probe" \/ pc = "idle") => curr_die = chip.die /\ Remembered(0)

\* Between the calls every die is in the page array.
Clear == Acked /\ slipped = {}
InSession == call.op \in Otp \cup {"probe"} /\ pc \in Session

Aimed ==
    /\ \A d \in Dies : (InSession /\ d = chip.die) \/ ~chip.reg[d].otp
    /\ (call.op \in Otp /\ pc \in Session \ {"enter", "leave"}) => chip.reg[chip.die].otp
    /\ (call.op \in Plain /\ pc \in {"ecc", "wren", "load", "send", "wait", "check", "fetch"}) => chip.die = DieOf(call.page)
    /\ (call.op \in {"read", "write"} /\ pc \in {"wren", "load", "send", "wait", "check", "fetch"})
          => chip.reg[chip.die].ecc = ecc_enabled

\* What a plain call has done so far.
Reads == call.op = "read" => (chip.cache = content[call.page])
Done ==
    /\ call.op \in {"write", "erase"} /\ pc = "send" => chip.wel
    /\ call.op = "write" /\ pc = "load" => chip.wel
    /\ call.op = "write" /\ pc \in {"send", "wait"} => chip.cache = "data"
    /\ call.op \in Plain /\ pc = "wait" =>
          \/ chip.op = Operation /\ chip.page = call.page % PagesPerDie
          \/ /\ Idle
             /\ Reads
             /\ call.op = "write" => chip.fail \/ content[call.page] # "blank"
             /\ call.op = "erase" => chip.fail \/ \A p \in Pages : DieOf(p) = DieOf(call.page) => content[p] = "blank"
    /\ call.op = "read" /\ pc \in {"check", "fetch"} => Reads
    /\ call.op = "read" /\ pc = "fetch" /\ ecc_enabled => ret # "none" /\ (ret = "ok" => chip.cache # "torn")
    /\ call.op \in Plain /\ pc \notin {"fetch", "idle", "disable"} => ret = "none"
    /\ call.op \in Plain /\ pc = "disable" => ret = "fail"
    /\ call.op \in Plain /\ pc = "idle" /\ ret = "ok" =>
          /\ call.op = "read" => buf = content[call.page] /\ (ecc_enabled => buf # "torn")
          /\ call.op = "write" => content[call.page] # "blank"
          /\ call.op = "erase" => \A p \in Pages : DieOf(p) = DieOf(call.page) => content[p] = "blank"

Inv == TypeOK /\ Shape /\ Calm /\ (Sure => Known) /\ (Clear => Aimed /\ Done)

-----------------------------------------------------------------------------
(* Numbers and types *)

ChipStates ==
    [die : Dies, op : {"none", "read", "program", "erase"}, page : 0 .. PagesPerDie - 1,
     wel : BOOLEAN, fail : BOOLEAN, cache : Contents,
     reg : [Dies -> Register], protected : [Dies -> BOOLEAN]]

DeviceOK ==
    /\ content \in [Pages -> Contents] /\ otp \in [Dies -> Contents] /\ fused \in [Dies -> BOOLEAN]
    /\ chip \in ChipStates
    /\ faults \in [Kinds -> 0 .. MaxFaults] /\ cfg \in [Dies -> Register]

LocalOK ==
    /\ curr_die \in Dies /\ die \in Dies
    /\ ecc_enabled \in BOOLEAN
    /\ ret \in {"none", "ok", "fail", "uncorrectable", "locked", "open"} /\ buf \in Contents
    /\ call.page \in Pages /\ slipped \subseteq {"die", "otp", "busy"}

LEMMA TypeParts == TypeOK <=> DeviceOK /\ LocalOK
BY DEF TypeOK, DeviceOK, LocalOK, ChipStates

LEMMA Numbers ==
    /\ NDies \in Nat \ {0} /\ PagesPerDie \in Nat \ {0} /\ MaxFaults \in Nat
    /\ 0 \in Dies /\ NDies - 1 \in Dies /\ 0 \in 0 .. PagesPerDie - 1
    /\ \A d \in Dies : d \in Nat /\ d <= NDies - 1 /\ (d # 0 => d - 1 \in Dies)
    /\ "blank" \in Contents /\ "data" \in Contents /\ "torn" \in Contents
    /\ Off \in Register
BY SpiNandAssumption DEF Dies, Contents, Off, Register

LEMMA Sizes == NDies * PagesPerDie \in Nat \ {0}
BY SpiNandAssumption, SMTT(30)

LEMMA FirstPage == 0 \in Pages
<1>. DEFINE all == NDies * PagesPerDie
<1>1. all \in Nat \ {0} /\ Pages = 0 .. all - 1
    BY Sizes DEF Pages
<1>. HIDE DEF all
<1>. QED BY <1>1

\* A page is a page of a die.
LEMMA PagePlace ==
    ASSUME NEW p \in Pages
    PROVE  /\ DieOf(p) \in Dies /\ p % PagesPerDie \in 0 .. PagesPerDie - 1
           /\ DieOf(p) * PagesPerDie + (p % PagesPerDie) = p
<1>1. NDies \in Nat /\ PagesPerDie \in Nat \ {0} /\ NDies * PagesPerDie \in Nat
    BY Numbers, Sizes
<1>2. p \in Nat /\ p < NDies * PagesPerDie
    BY <1>1 DEF Pages
<1>3. p \div PagesPerDie \in Nat /\ p \div PagesPerDie < NDies
    BY <1>1, <1>2, SMTT(30)
<1>4. p % PagesPerDie \in 0 .. PagesPerDie - 1
    BY <1>1, <1>2, SMTT(30)
<1>5. p = PagesPerDie * (p \div PagesPerDie) + (p % PagesPerDie)
    BY <1>1, <1>2, SMTT(30)
<1>6. PagesPerDie * (p \div PagesPerDie) = (p \div PagesPerDie) * PagesPerDie
    BY <1>1, <1>3, SMTT(30)
<1>7. (p \div PagesPerDie) * PagesPerDie + (p % PagesPerDie) = p /\ p \div PagesPerDie \in Dies
    BY <1>1, <1>3, <1>5, <1>6 DEF Dies
<1>. QED BY <1>4, <1>7 DEF DieOf

LEMMA RowPlace ==
    ASSUME NEW d \in Dies, NEW i \in 0 .. PagesPerDie - 1
    PROVE  d * PagesPerDie + i \in Pages /\ DieOf(d * PagesPerDie + i) = d
<1>1. NDies \in Nat /\ PagesPerDie \in Nat \ {0} /\ d \in Nat /\ d + 1 <= NDies /\ i \in Nat /\ i < PagesPerDie
    BY Numbers DEF Dies
<1>2. (d + 1) * PagesPerDie <= NDies * PagesPerDie /\ (d + 1) * PagesPerDie = d * PagesPerDie + PagesPerDie
    BY <1>1, SMTT(30)
<1>3. d * PagesPerDie \in Nat /\ NDies * PagesPerDie \in Nat
    BY <1>1, SMTT(30)
<1>4. (d * PagesPerDie + i) \div PagesPerDie = d
    BY <1>1, <1>3, SMTT(30)
<1>. QED BY <1>1, <1>2, <1>3, <1>4 DEF Pages, DieOf

LEMMA FaultStep ==
    ASSUME DeviceOK, NEW kind \in Kinds, Fault(kind)
    PROVE  /\ faults' \in [Kinds -> 0 .. MaxFaults] /\ faults'[kind] > 0
           /\ \A k \in Kinds : k # kind => faults'[k] = faults[k]
<1>1. \A k \in Kinds : faults[k] \in 0 .. MaxFaults
    BY DEF DeviceOK
<1>2. faults["unsent"] \in Nat /\ faults["unacked"] \in Nat /\ faults["slow"] \in Nat /\ faults["failed"] \in Nat
      /\ MaxFaults \in Nat
    BY <1>1, Numbers DEF Kinds
<1>3. faults["unsent"] + faults["unacked"] + faults["slow"] + faults["failed"] < MaxFaults
    BY DEF Fault
<1>4. kind = "unsent" \/ kind = "unacked" \/ kind = "slow" \/ kind = "failed"
    BY DEF Kinds
<1>5. faults[kind] + 1 \in 0 .. MaxFaults /\ faults[kind] + 1 > 0
    BY <1>2, <1>3, <1>4
<1>6. faults' = [faults EXCEPT ![kind] = faults[kind] + 1] /\ faults \in [Kinds -> 0 .. MaxFaults]
    BY DEF Fault, DeviceOK
<1>. QED BY <1>5, <1>6

\* What a failure or none does to the counts.
Counted == faults' \in [Kinds -> 0 .. MaxFaults] /\ (Acked' => Acked)

LEMMA Counts ==
    ASSUME DeviceOK
    PROVE  /\ UNCHANGED faults => Counted
           /\ Fault("unsent") => Counted
           /\ Fault("slow") => Counted
           /\ Fault("failed") => Counted
           /\ Fault("unacked") => Counted /\ ~Acked'
<1>1. UNCHANGED faults => Counted
    BY DEF Counted, Acked, DeviceOK
<1>2. \A kind \in Kinds : Fault(kind) => Counted
  <2>. SUFFICES ASSUME NEW kind \in Kinds, Fault(kind) PROVE Counted
      OBVIOUS
  <2>1. faults["unacked"] \in Nat /\ "unacked" \in Kinds
      BY DEF DeviceOK, Kinds
  <2>. QED BY <2>1, FaultStep DEF Counted, Acked
<1>3. Fault("unacked") => ~Acked'
    BY FaultStep DEF Acked, Kinds
<1>. QED BY <1>1, <1>2, <1>3 DEF Kinds

-----------------------------------------------------------------------------
(* What the driver does to the chip *)

Apart == UNCHANGED <<content, otp, fused>>
SameMode == chip'.die = chip.die /\ chip'.reg = chip.reg
SameWork == chip'.op = chip.op /\ chip'.page = chip.page /\ chip'.fail = chip.fail
SameData == chip'.cache = chip.cache /\ chip'.wel = chip.wel

\* Nothing is sent.
Silent == UNCHANGED <<device, cfg>> /\ Counted

\* A register is written.
Written(bits) ==
    /\ Apart /\ SameWork /\ SameData /\ chip'.die = chip.die
    /\ \A d \in Dies : d # chip.die => chip'.reg[d] = chip.reg[d]
    /\ \A d \in Dies : d # curr_die => cfg'[d] = cfg[d]
    /\ (Acked' /\ Idle) => \/ chip'.reg = chip.reg /\ cfg' = cfg
                           \/ chip'.reg[chip.die] = bits /\ cfg'[curr_die] = bits

LEMMA Accepting ==
    ASSUME DeviceOK, NEW bits \in Register, Accepts(bits)
    PROVE  /\ Apart /\ SameWork /\ SameData /\ chip'.die = chip.die /\ chip' \in ChipStates
           /\ \A d \in Dies : d # chip.die => chip'.reg[d] = chip.reg[d]
           /\ Idle => chip'.reg[chip.die] = bits
<1>1. chip \in ChipStates /\ chip.die \in Dies /\ chip.reg \in [Dies -> Register]
    BY DEF DeviceOK, ChipStates
<1>. DEFINE reg == [chip.reg EXCEPT ![chip.die] = bits]
<1>2. reg \in [Dies -> Register] /\ reg[chip.die] = bits /\ \A d \in Dies : d # chip.die => reg[d] = chip.reg[d]
    BY <1>1
<1>3. Apart /\ (chip' = chip \/ (Idle /\ chip' = [chip EXCEPT !.reg = reg])) /\ (Idle => chip' = [chip EXCEPT !.reg = reg])
    BY DEF Accepts, Takes, Apart
<1>. HIDE DEF reg
<1>4. CASE chip' = chip /\ ~Idle
    BY <1>1, <1>3, <1>4 DEF SameWork, SameData
<1>5. CASE chip' = [chip EXCEPT !.reg = reg]
    BY <1>1, <1>2, <1>3, <1>5 DEF SameWork, SameData, ChipStates
<1>. QED BY <1>3, <1>4, <1>5

LEMMA Configuring ==
    ASSUME DeviceOK, curr_die \in Dies, NEW bits \in Register,
           update_config(bits, TRUE, FALSE) \/ update_config(bits, FALSE, TRUE)
    PROVE  /\ Written(bits) /\ DeviceOK' /\ Counted
           /\ update_config(bits, TRUE, FALSE) => cfg'[curr_die] = bits
<1>1. chip \in ChipStates /\ cfg \in [Dies -> Register] /\ faults \in [Kinds -> 0 .. MaxFaults]
      /\ content \in [Pages -> Contents] /\ otp \in [Dies -> Contents] /\ fused \in [Dies -> BOOLEAN]
    BY DEF DeviceOK
<1>2. \A new \in Register : Remember(new) =>
          cfg' \in [Dies -> Register] /\ cfg'[curr_die] = new /\ \A d \in Dies : d # curr_die => cfg'[d] = cfg[d]
    BY <1>1 DEF Remember
<1>3. CASE UNCHANGED <<device, cfg>> /\ (UNCHANGED faults \/ Fault("unsent"))
  <2>1. Counted /\ UNCHANGED <<content, otp, fused, chip, cfg>>
      BY <1>3, Counts DEF device
  <2>2. Written(bits) /\ DeviceOK'
      BY <1>1, <2>1 DEF Written, Apart, SameWork, SameData, DeviceOK, Counted
  <2>3. update_config(bits, TRUE, FALSE) => cfg'[curr_die] = bits
      BY <2>1 DEF update_config
  <2>. QED BY <2>1, <2>2, <2>3
<1>4. CASE Fault("unacked") /\ Accepts(bits) /\ UNCHANGED cfg
  <2>1. Counted /\ ~Acked'
      BY <1>4, Counts
  <2>2. Written(bits) /\ DeviceOK'
      BY <1>1, <1>4, <2>1, Accepting DEF Written, Apart, DeviceOK, Counted
  <2>3. update_config(bits, TRUE, FALSE) => cfg'[curr_die] = bits
      BY <1>4 DEF update_config
  <2>. QED BY <2>1, <2>2, <2>3
<1>5. CASE Accepts(bits) /\ Fault("unsent") /\ Remember(bits)
  <2>1. Counted /\ Apart /\ SameWork /\ SameData /\ chip'.die = chip.die /\ chip' \in ChipStates
        /\ (\A d \in Dies : d # chip.die => chip'.reg[d] = chip.reg[d])
        /\ (Idle => chip'.reg[chip.die] = bits)
      BY <1>5, Counts, Accepting
  <2>2. cfg' \in [Dies -> Register] /\ cfg'[curr_die] = bits /\ \A d \in Dies : d # curr_die => cfg'[d] = cfg[d]
      BY <1>2, <1>5
  <2>. QED BY <1>1, <2>1, <2>2 DEF Written, Apart, DeviceOK, Counted
<1>6. CASE Accepts(bits) /\ UNCHANGED faults /\ Remember(chip'.reg[chip'.die])
  <2>1. Counted /\ Apart /\ SameWork /\ SameData /\ chip'.die = chip.die /\ chip' \in ChipStates
        /\ (\A d \in Dies : d # chip.die => chip'.reg[d] = chip.reg[d])
        /\ (Idle => chip'.reg[chip.die] = bits)
      BY <1>6, Counts, Accepting
  <2>2. chip'.reg[chip'.die] \in Register
      BY <2>1 DEF ChipStates
  <2>3. cfg' \in [Dies -> Register] /\ cfg'[curr_die] = chip'.reg[chip'.die] /\ \A d \in Dies : d # curr_die => cfg'[d] = cfg[d]
      BY <1>2, <1>6, <2>2
  <2>4. Written(bits) /\ DeviceOK'
      BY <1>1, <2>1, <2>3 DEF Written, Apart, DeviceOK, Counted
  <2>5. update_config(bits, TRUE, FALSE) => cfg'[curr_die] = bits
      BY <1>1 DEF update_config, device
  <2>. QED BY <2>1, <2>4, <2>5
<1>. QED BY <1>3, <1>4, <1>5, <1>6 DEF update_config

LEMMA Selecting ==
    ASSUME DeviceOK, curr_die \in Dies, UNCHANGED cfg, NEW d \in Dies,
           select_die(d, TRUE, FALSE) \/ select_die(d, FALSE, TRUE)
    PROVE  /\ Apart /\ SameWork /\ SameData /\ chip'.reg = chip.reg /\ DeviceOK' /\ Counted /\ curr_die' \in Dies
           /\ select_die(d, TRUE, FALSE) => curr_die' = d /\ chip'.die = IF curr_die = d THEN chip.die ELSE d
           /\ select_die(d, FALSE, TRUE) => curr_die' = curr_die /\ (Acked' => chip'.die = chip.die)
<1>1. chip \in ChipStates /\ content \in [Pages -> Contents] /\ otp \in [Dies -> Contents] /\ fused \in [Dies -> BOOLEAN]
      /\ cfg \in [Dies -> Register]
    BY DEF DeviceOK
<1>. DEFINE new == [chip EXCEPT !.die = d]
<1>2. new \in ChipStates /\ new.die = d /\ new.op = chip.op /\ new.page = chip.page /\ new.fail = chip.fail
      /\ new.cache = chip.cache /\ new.wel = chip.wel /\ new.reg = chip.reg
    BY <1>1 DEF ChipStates
<1>3. /\ Apart /\ Counted /\ (chip' = chip \/ chip' = new) /\ curr_die' \in Dies
      /\ select_die(d, TRUE, FALSE) => curr_die' = d /\ chip' = IF curr_die = d THEN chip ELSE new
      /\ select_die(d, FALSE, TRUE) => curr_die' = curr_die /\ (Acked' => chip' = chip)
  <2>1. select_die(d, TRUE, FALSE) =>
            Apart /\ UNCHANGED faults /\ curr_die' = d /\ chip' = IF curr_die = d THEN chip ELSE new
      BY DEF select_die, SelectsDie, Apart, device
  <2>2. select_die(d, FALSE, TRUE) =>
            /\ Apart /\ UNCHANGED curr_die
            /\ (Fault("unsent") /\ chip' = chip) \/ (Fault("unacked") /\ chip' = new)
      BY DEF select_die, SelectsDie, Apart, device
  <2>. QED BY <2>1, <2>2, Counts
<1>. HIDE DEF new
<1>4. chip' \in ChipStates
    BY <1>1, <1>2, <1>3
<1>. QED BY <1>1, <1>2, <1>3, <1>4 DEF SameWork, SameData, DeviceOK, Apart, Counted

LEMMA Enabling ==
    ASSUME DeviceOK, write_enable(TRUE, FALSE) \/ write_enable(FALSE, TRUE)
    PROVE  /\ Apart /\ SameMode /\ SameWork /\ chip'.cache = chip.cache /\ UNCHANGED cfg /\ DeviceOK' /\ Counted
           /\ write_enable(TRUE, FALSE) => chip'.wel
<1>1. chip \in ChipStates /\ content \in [Pages -> Contents] /\ otp \in [Dies -> Contents] /\ fused \in [Dies -> BOOLEAN]
      /\ cfg \in [Dies -> Register]
    BY DEF DeviceOK
<1>2. Apart /\ UNCHANGED cfg /\ (UNCHANGED faults \/ Fault("unsent")) /\ (chip' = chip \/ chip' = [chip EXCEPT !.wel = TRUE])
      /\ (write_enable(TRUE, FALSE) => chip'.wel)
    BY DEF write_enable, Takes, Apart, device
<1>3. Counted
    BY <1>2, Counts
<1>4. chip' \in ChipStates /\ SameMode /\ SameWork /\ chip'.cache = chip.cache
    BY <1>1, <1>2 DEF ChipStates, SameMode, SameWork
<1>. QED BY <1>1, <1>2, <1>3, <1>4 DEF DeviceOK, Apart, Counted

LEMMA Transferring ==
    ASSUME DeviceOK, NEW new \in ChipStates, UNCHANGED cfg, Transfer(new, TRUE, FALSE) \/ Transfer(new, FALSE, TRUE)
    PROVE  /\ Apart /\ DeviceOK' /\ Counted /\ chip' \in {chip, new}
           /\ Transfer(new, TRUE, FALSE) => chip' = IF Idle THEN new ELSE chip
           /\ Transfer(new, FALSE, TRUE) => (Acked' => chip' = chip)
<1>1. chip \in ChipStates /\ content \in [Pages -> Contents] /\ otp \in [Dies -> Contents] /\ fused \in [Dies -> BOOLEAN]
      /\ cfg \in [Dies -> Register]
    BY DEF DeviceOK
<1>2. Transfer(new, TRUE, FALSE) => Apart /\ UNCHANGED faults /\ chip' = IF Idle THEN new ELSE chip
    BY DEF Transfer, Takes, Apart
<1>3. Transfer(new, FALSE, TRUE) => /\ Apart /\ chip' \in {chip, new}
                                    /\ (Fault("unsent") /\ chip' = chip) \/ Fault("unacked")
    BY DEF Transfer, Takes, Apart, device
<1>4. Apart /\ Counted /\ chip' \in {chip, new} /\ (Transfer(new, FALSE, TRUE) => (Acked' => chip' = chip))
    BY <1>2, <1>3, Counts
<1>. QED BY <1>1, <1>2, <1>4 DEF DeviceOK, Apart, Counted

\* Nothing is sent, or a register is read.
LEMMA Keeping ==
    ASSUME DeviceOK, UNCHANGED device, UNCHANGED faults \/ Fault("unsent") \/ Fault("slow")
    PROVE  Counted /\ Apart /\ chip' = chip /\ (cfg' \in [Dies -> Register] => DeviceOK')
BY Counts DEF DeviceOK, Counted, Apart, device

LEMMA Resetting ==
    ASSUME DeviceOK, NEW d \in Dies, NEW ecc \in BOOLEAN,
           chip' = [chip EXCEPT !.die = d, !.reg = [e \in Dies |-> [@[e] EXCEPT !.ecc = ecc]]]
    PROVE  /\ chip' \in ChipStates /\ SameWork
           /\ \A e \in Dies : chip'.reg[e].otp = chip.reg[e].otp
<1>1. chip \in ChipStates /\ chip.reg \in [Dies -> Register]
    BY DEF DeviceOK, ChipStates
<1>. DEFINE reg == [e \in Dies |-> [chip.reg[e] EXCEPT !.ecc = ecc]]
<1>2. reg \in [Dies -> Register] /\ \A e \in Dies : reg[e].otp = chip.reg[e].otp
    BY <1>1 DEF Register
<1>3. chip' = [chip EXCEPT !.die = d, !.reg = reg]
    OBVIOUS
<1>. HIDE DEF reg
<1>. QED BY <1>1, <1>2, <1>3 DEF ChipStates, SameWork

\* The states the driver asks for.
LEMMA Requests ==
    ASSUME DeviceOK, LocalOK
    PROVE  /\ [chip EXCEPT !.protected[chip.die] = FALSE] \in ChipStates
           /\ [chip EXCEPT !.cache = "data"] \in ChipStates
           /\ [chip EXCEPT !.wel = FALSE] \in ChipStates
           /\ [chip EXCEPT !.op = Operation, !.page = call.page % PagesPerDie, !.fail = FALSE] \in ChipStates
           /\ [cfg[curr_die] EXCEPT !.ecc = TRUE] \in Register /\ [cfg[curr_die] EXCEPT !.ecc = FALSE] \in Register
           /\ [cfg[curr_die] EXCEPT !.otp = TRUE] \in Register /\ [cfg[curr_die] EXCEPT !.otp = FALSE] \in Register
           /\ [cfg[curr_die] EXCEPT !.lock = TRUE] \in Register /\ mode \in Register
<1>1. chip \in ChipStates /\ cfg[curr_die] \in Register /\ chip.die \in Dies /\ chip.reg \in [Dies -> Register]
    BY DEF DeviceOK, LocalOK, ChipStates
<1>2. Operation \in {"program", "erase", "read"}
    BY DEF Operation
<1>3. call.page % PagesPerDie \in 0 .. PagesPerDie - 1
    BY PagePlace DEF LocalOK
<1>4. [chip EXCEPT !.op = Operation, !.page = call.page % PagesPerDie, !.fail = FALSE] \in ChipStates
    BY <1>1, <1>2, <1>3 DEF ChipStates
<1>5. [chip EXCEPT !.protected[chip.die] = FALSE] \in ChipStates /\ [chip EXCEPT !.wel = FALSE] \in ChipStates
    BY <1>1 DEF ChipStates
<1>6. [chip EXCEPT !.cache = "data"] \in ChipStates
    BY <1>1, Numbers DEF ChipStates
<1>7. mode \in Register
    BY <1>1 DEF mode
<1>. QED BY <1>1, <1>4, <1>5, <1>6, <1>7 DEF Register

\* The chip finishes what it does.
LEMMA Finishing ==
    ASSUME DeviceOK, Chip
    PROVE  DeviceOK' /\ Counted /\ SameMode /\ chip'.op = "none" /\ chip.op # "none" /\ chip'.page = chip.page
           /\ UNCHANGED <<cfg, curr_die, ecc_enabled, pc, call, ret, buf, die, slipped>>
<1>1. /\ chip \in ChipStates /\ content \in [Pages -> Contents] /\ otp \in [Dies -> Contents]
      /\ fused \in [Dies -> BOOLEAN] /\ cfg \in [Dies -> Register]
    BY DEF DeviceOK
<1>2. chip.die \in Dies /\ row \in Pages /\ mode \in Register
    BY <1>1, RowPlace DEF ChipStates, row, mode
<1>3. \A old \in Contents : Programmed(old) \in Contents
    BY <1>1, Numbers DEF Programmed, ChipStates
<1>4. ASSUME Works, chip.op \in {"program", "erase"}
      PROVE  content' \in [Pages -> Contents] /\ otp' \in [Dies -> Contents] /\ fused' \in [Dies -> BOOLEAN]
  <2>1. CASE mode.otp /\ mode.lock
      BY <1>1, <1>2, <1>4, <2>1 DEF Works
  <2>2. CASE mode.otp /\ ~mode.lock
    <3>1. otp[chip.die] \in Contents /\ Programmed(otp[chip.die]) \in Contents
        BY <1>1, <1>2, <1>3
    <3>2. UNCHANGED <<content, fused>> /\ otp' = [otp EXCEPT ![chip.die] = Programmed(otp[chip.die])]
        BY <1>4, <2>2 DEF Works
    <3>. QED BY <1>1, <3>1, <3>2
  <2>3. CASE ~mode.otp /\ chip.op = "program"
    <3>1. content[row] \in Contents /\ Programmed(content[row]) \in Contents
        BY <1>1, <1>2, <1>3
    <3>2. UNCHANGED <<otp, fused>> /\ content' = [content EXCEPT ![row] = Programmed(content[row])]
        BY <1>4, <2>3 DEF Works
    <3>. QED BY <1>1, <3>1, <3>2
  <2>4. CASE ~mode.otp /\ chip.op = "erase"
    <3>1. UNCHANGED <<otp, fused>>
       /\ content' = [p \in Pages |-> IF DieOf(p) = chip.die THEN "blank" ELSE content[p]]
        BY <1>4, <2>4 DEF Works
    <3>. QED BY <1>1, <3>1, Numbers
  <2>. QED BY <1>2, <1>4, <2>1, <2>2, <2>3, <2>4 DEF Register
<1>5. Breaks => content' \in [Pages -> Contents] /\ otp' \in [Dies -> Contents] /\ fused' \in [Dies -> BOOLEAN]
    BY <1>1, <1>2, Numbers DEF Breaks
<1>6. \A fail \in BOOLEAN : Finished(fail) => chip' \in ChipStates /\ SameMode /\ chip'.op = "none" /\ chip'.page = chip.page
    BY <1>1 DEF Finished, ChipStates, SameMode
<1>7. CASE chip.op = "read"
  <2>. DEFINE c == IF mode.otp THEN otp[chip.die] ELSE content[row]
  <2>1. c \in Contents
      BY <1>1, <1>2
  <2>2. chip' = [chip EXCEPT !.op = "none", !.cache = c] /\ UNCHANGED <<content, otp, fused, faults>>
      BY <1>7 DEF Chip
  <2>. HIDE DEF c
  <2>3. chip' \in ChipStates /\ SameMode /\ chip'.op = "none" /\ chip'.page = chip.page
      BY <1>1, <2>1, <2>2 DEF ChipStates, SameMode
  <2>. QED BY <1>1, <1>7, <2>2, <2>3, Counts DEF Chip, DeviceOK, Counted
<1>8. CASE chip.op \in {"program", "erase"}
  <2>1. /\ \E fail \in BOOLEAN : Finished(fail)
        /\ Counted
        /\ content' \in [Pages -> Contents] /\ otp' \in [Dies -> Contents] /\ fused' \in [Dies -> BOOLEAN]
      BY <1>1, <1>4, <1>5, <1>8, Counts DEF Chip
  <2>. QED BY <1>1, <1>6, <1>8, <2>1 DEF Chip, DeviceOK, Counted
<1>. QED BY <1>7, <1>8 DEF Chip

-----------------------------------------------------------------------------
(* What each action does, its result apart from its effect on the chip *)

Names == UNCHANGED <<curr_die, ecc_enabled, call, die>>
Kept == DeviceOK' /\ Counted /\ Apart

LEMMA ResetStep ==
    ASSUME DeviceOK, LocalOK, chip_reset
    PROVE  /\ pc = "reset" /\ Kept /\ SameWork /\ UNCHANGED cfg /\ Same
           /\ \A e \in Dies : chip'.reg[e].otp = chip.reg[e].otp
           /\ Goto("config") \/ Goto("setup") \/ Goto("failed")
<1>1. CASE UNCHANGED device /\ (UNCHANGED faults \/ Fault("unsent"))
    BY <1>1, Keeping DEF chip_reset, Kept, SameWork, DeviceOK, Same
<1>2. ASSUME NEW d \in {0, chip.die}, NEW ecc \in BOOLEAN, UNCHANGED <<content, otp, fused, faults>>,
             chip' = [chip EXCEPT !.die = d, !.reg = [e \in Dies |-> [@[e] EXCEPT !.ecc = ecc]]]
      PROVE  Kept /\ SameWork /\ \A e \in Dies : chip'.reg[e].otp = chip.reg[e].otp
  <2>1. d \in Dies
      BY Numbers DEF DeviceOK, ChipStates
  <2>2. Counted
      BY <1>2, Counts
  <2>3. chip' \in ChipStates /\ SameWork /\ \A e \in Dies : chip'.reg[e].otp = chip.reg[e].otp
      BY <1>2, <2>1, Resetting
  <2>4. UNCHANGED cfg
      BY DEF chip_reset
  <2>. QED BY <1>2, <2>2, <2>3, <2>4 DEF Kept, Apart, DeviceOK, Counted
<1>3. pc = "reset" /\ UNCHANGED cfg /\ Same
    BY DEF chip_reset
<1>4. Goto("config") \/ Goto("setup") \/ Goto("failed")
    BY DEF chip_reset
<1>5. \/ UNCHANGED device /\ (UNCHANGED faults \/ Fault("unsent"))
      \/ /\ UNCHANGED <<content, otp, fused, faults>>
         /\ \E d \in {0, chip.die}, ecc \in BOOLEAN :
               chip' = [chip EXCEPT !.die = d, !.reg = [e \in Dies |-> [@[e] EXCEPT !.ecc = ecc]]]
    BY DEF chip_reset, device
<1>. QED BY <1>1, <1>2, <1>3, <1>4, <1>5

LEMMA ProbeStep ==
    ASSUME DeviceOK, LocalOK, probe_onfi
    PROVE  /\ pc = "config" /\ Kept /\ SameWork /\ chip'.die = chip.die /\ Same
           /\ \A d \in Dies : d # chip.die => chip'.reg[d] = chip.reg[d]
           /\ chip'.reg[chip.die].otp => chip.reg[chip.die].otp
           /\ \/ Goto("enter") /\ cfg'[curr_die] = Off /\ (Idle => chip'.reg[chip.die] = Off)
              \/ Goto("setup")
<1>1. chip \in ChipStates /\ cfg \in [Dies -> Register] /\ chip.die \in Dies /\ curr_die \in Dies
      /\ mode \in Register /\ Off \in Register /\ mode = chip.reg[chip.die] /\ ~Off.otp
    BY Numbers, Requests DEF DeviceOK, LocalOK, ChipStates, mode, Off
<1>2. \A new \in Register : Remember(new) => cfg' \in [Dies -> Register] /\ cfg'[curr_die] = new
    BY <1>1 DEF Remember
<1>3. CASE UNCHANGED device /\ (UNCHANGED faults \/ Fault("unsent"))
  <2>1. UNCHANGED cfg \/ Remember(Off) \/ Remember(mode)
      BY DEF probe_onfi
  <2>2. Kept /\ chip' = chip
      BY <1>1, <1>2, <1>3, <2>1, Keeping DEF Kept
  <2>3. \/ Goto("enter") /\ cfg'[curr_die] = Off /\ (Idle => chip'.reg[chip.die] = Off)
        \/ Goto("setup")
    <3>1. Goto("setup") \/ (mode = Off /\ Remember(Off) /\ Goto("enter"))
                        \/ (Accepts(Off) /\ Remember(Off) /\ Goto("enter"))
        BY DEF probe_onfi, get_feature
    <3>. QED BY <1>1, <1>2, <2>2, <3>1, Accepting
  <2>. QED BY <1>1, <2>2, <2>3 DEF SameWork, probe_onfi
<1>4. CASE Accepts(Off) /\ (UNCHANGED faults \/ Fault("unacked"))
  <2>1. Remember(Off) \/ Remember(mode) \/ UNCHANGED cfg
      BY DEF probe_onfi
  <2>2. Counted
      BY <1>4, Counts
  <2>3. Kept
      BY <1>1, <1>2, <1>4, <2>1, <2>2, Accepting DEF Kept, Apart, DeviceOK, Counted
  <2>4. /\ SameWork /\ chip'.die = chip.die /\ (Idle => chip'.reg[chip.die] = Off) /\ (~Idle => chip' = chip)
        /\ \A d \in Dies : d # chip.die => chip'.reg[d] = chip.reg[d]
      BY <1>1, <1>4, Accepting DEF Accepts, Takes
  <2>5. \/ Goto("enter") /\ Remember(Off)
        \/ Goto("setup")
      BY DEF probe_onfi, get_feature
  <2>. QED BY <1>1, <1>2, <2>3, <2>4, <2>5 DEF probe_onfi
<1>. QED BY <1>3, <1>4 DEF probe_onfi, get_feature, device

LEMMA SetupStep ==
    ASSUME DeviceOK, LocalOK, chip_setup
    PROVE  /\ pc = "setup" /\ Kept /\ SameWork /\ SameData /\ chip'.reg = chip.reg /\ curr_die' \in Dies
           /\ UNCHANGED <<cfg, ecc_enabled, call, die>> /\ Goto("refresh")
           /\ \/ curr_die' = die /\ chip'.die = (IF curr_die = die THEN chip.die ELSE die) /\ UNCHANGED slipped
              \/ Slip("die")
<1>1. pc = "setup" /\ UNCHANGED <<cfg, ecc_enabled, call, die>> /\ die \in Dies /\ curr_die \in Dies
    BY DEF chip_setup, LocalOK
<1>2. \/ select_die(die, TRUE, FALSE) /\ Goto("refresh") /\ UNCHANGED slipped
      \/ select_die(die, FALSE, TRUE) /\ Goto("refresh") /\ Slip("die")
    BY DEF chip_setup, select_die, SelectsDie
<1>. QED BY <1>1, <1>2, Selecting DEF Kept

LEMMA RefreshStep ==
    ASSUME DeviceOK, LocalOK, refresh_config
    PROVE  /\ pc = "refresh" /\ Kept /\ chip' = chip /\ Same
           /\ \/ Goto("unlock") /\ cfg' = [cfg EXCEPT ![curr_die] = chip.reg[chip.die]]
              \/ Goto("failed") /\ UNCHANGED cfg
<1>1. \/ UNCHANGED <<device, faults>> /\ Goto("unlock") /\ cfg' = [cfg EXCEPT ![curr_die] = chip.reg[chip.die]]
      \/ Fault("unsent") /\ UNCHANGED device /\ Goto("failed") /\ UNCHANGED cfg
    BY DEF refresh_config, get_feature, Remember, mode
<1>2. mode \in Register /\ mode = chip.reg[chip.die] /\ curr_die \in Dies /\ cfg \in [Dies -> Register]
    BY Requests DEF mode, LocalOK, DeviceOK
<1>3. cfg' \in [Dies -> Register]
    BY <1>1, <1>2
<1>. QED BY <1>1, <1>3, Keeping DEF Kept, refresh_config

LEMMA UnlockStep ==
    ASSUME DeviceOK, LocalOK, unlock
    PROVE  /\ pc = "unlock" /\ Kept /\ SameWork /\ SameMode /\ SameData /\ UNCHANGED cfg /\ Same
           /\ Goto("off") \/ Goto("failed")
<1>. DEFINE new == [chip EXCEPT !.protected[chip.die] = FALSE]
<1>1. new \in ChipStates /\ new.die = chip.die /\ new.reg = chip.reg /\ new.op = chip.op /\ new.page = chip.page
      /\ new.fail = chip.fail /\ new.cache = chip.cache /\ new.wel = chip.wel
    BY Requests DEF DeviceOK, ChipStates
<1>2. /\ pc = "unlock" /\ UNCHANGED cfg /\ Same /\ (Goto("off") \/ Goto("failed"))
      /\ Transfer(new, TRUE, FALSE) \/ Transfer(new, FALSE, TRUE)
    BY DEF unlock, Transfer
<1>. HIDE DEF new
<1>3. Kept /\ chip' \in {chip, new}
    BY <1>1, <1>2, Transferring DEF Kept
<1>. QED BY <1>1, <1>2, <1>3 DEF SameWork, SameMode, SameData

LEMMA DieStep ==
    ASSUME DeviceOK, LocalOK, chip_die_setup
    PROVE  /\ pc = "off" /\ Kept /\ Written([cfg[curr_die] EXCEPT !.ecc = FALSE])
           /\ Goto(IF die = 0 THEN "idle" ELSE "setup") /\ die' = (IF die = 0 THEN 0 ELSE die - 1)
           /\ UNCHANGED <<curr_die, ecc_enabled, call, slipped>>
<1>. DEFINE bits == [cfg[curr_die] EXCEPT !.ecc = FALSE]
<1>1. bits \in Register /\ curr_die \in Dies
    BY Requests DEF LocalOK
<1>2. update_config(bits, TRUE, FALSE) \/ update_config(bits, FALSE, TRUE)
    BY DEF chip_die_setup, ecc_control, update_config
<1>3. Goto(IF die = 0 THEN "idle" ELSE "setup")
    BY DEF chip_die_setup, ecc_control, update_config
<1>. HIDE DEF bits
<1>4. Written(bits) /\ Kept
    BY <1>1, <1>2, Configuring DEF Kept, Written
<1>. QED BY <1>3, <1>4 DEF chip_die_setup, bits

\* Where each call begins.
Label(op) ==
    CASE op \in Plain                      -> "select"
      [] op \in {"otp_read", "otp_write"}  -> "enter"
      [] op \in {"otp_lock", "otp_locked"} -> "plain"
      [] op = "uid"                        -> "ecc"

LEMMA CallStep ==
    ASSUME LocalOK, Call
    PROVE  \E op \in Plain \cup Otp, page \in Pages, ecc \in BOOLEAN : Calls(op, page, ecc, Label(op))
<1>. DEFINE Some == \E op \in Plain \cup Otp, page \in Pages, ecc \in BOOLEAN : Calls(op, page, ecc, Label(op))
<1>1. \A op \in Plain \cup Otp, page \in Pages, ecc \in BOOLEAN : Calls(op, page, ecc, Label(op)) => Some
    OBVIOUS
<1>2. /\ \A op \in Plain : op \in Plain \cup Otp /\ Label(op) = "select"
      /\ Label("otp_read") = "enter" /\ Label("otp_write") = "enter" /\ Label("otp_lock") = "plain"
      /\ Label("otp_locked") = "plain" /\ Label("uid") = "ecc"
      /\ Otp \subseteq Plain \cup Otp /\ Otp = {"otp_read", "otp_write", "otp_lock", "otp_locked", "uid"}
      /\ Plain = {"read", "write", "erase"} /\ 0 \in Pages /\ ecc_enabled \in BOOLEAN
    BY FirstPage DEF LocalOK, Label, Plain, Otp
<1>. HIDE DEF Some
<1>3. (\E page \in Pages : erase_block(page)) => Some
    BY <1>1, <1>2 DEF erase_block
<1>4. (\E page \in Pages, raw \in BOOLEAN : read_page(page, raw) \/ write_page(page, raw)) => Some
  <2>1. \A page \in Pages, raw \in BOOLEAN : read_page(page, raw) => Some
      BY <1>1, <1>2 DEF read_page
  <2>2. \A page \in Pages, raw \in BOOLEAN : write_page(page, raw) => Some
      BY <1>1, <1>2 DEF write_page
  <2>. QED BY <2>1, <2>2
<1>5. (\E raw \in BOOLEAN : otp_read(raw) \/ otp_write(raw)) => Some
  <2>1. \A raw \in BOOLEAN : otp_read(raw) => Some
      BY <1>1, <1>2 DEF otp_read
  <2>2. \A raw \in BOOLEAN : otp_write(raw) => Some
      BY <1>1, <1>2 DEF otp_write
  <2>. QED BY <2>1, <2>2
<1>6. otp_lock => Some
    BY <1>1, <1>2 DEF otp_lock
<1>7. otp_locked => Some
    BY <1>1, <1>2 DEF otp_locked
<1>8. read_uid => Some
    BY <1>1, <1>2 DEF read_uid
<1>9. Some
    BY <1>3, <1>4, <1>5, <1>6, <1>7, <1>8 DEF Call
<1>. QED BY <1>9 DEF Some

LEMMA SelectStep ==
    ASSUME DeviceOK, LocalOK, select_die_page
    PROVE  /\ pc = "select" /\ Kept /\ SameWork /\ SameData /\ chip'.reg = chip.reg /\ curr_die' \in Dies
           /\ UNCHANGED <<cfg, ecc_enabled, call, die, slipped>>
           /\ \/ /\ curr_die' = DieOf(call.page) /\ Goto(IF call.op = "erase" THEN "wren" ELSE "ecc")
                 /\ chip'.die = IF curr_die = DieOf(call.page) THEN chip.die ELSE DieOf(call.page)
              \/ UNCHANGED curr_die /\ Return("fail") /\ (Acked' => chip'.die = chip.die)
<1>1. pc = "select" /\ UNCHANGED <<cfg, ecc_enabled, call, die, slipped>> /\ DieOf(call.page) \in Dies /\ curr_die \in Dies
    BY PagePlace DEF select_die_page, LocalOK
<1>2. \/ select_die(DieOf(call.page), TRUE, FALSE) /\ Goto(IF call.op = "erase" THEN "wren" ELSE "ecc")
      \/ select_die(DieOf(call.page), FALSE, TRUE) /\ Return("fail")
    BY DEF select_die_page, select_die, SelectsDie
<1>. QED BY <1>1, <1>2, Selecting DEF Kept

\* The actions that write a register of the die the driver believes in.
LEMMA EccStep ==
    ASSUME DeviceOK, LocalOK, ondie_ecc_control
    PROVE  /\ pc = "ecc" /\ Kept /\ UNCHANGED curr_die /\ Same
           /\ Written([cfg[curr_die] EXCEPT !.ecc = (call.op # "uid" /\ ecc_enabled)])
           /\ \/ /\ Goto(CASE call.op = "read" -> "send" [] call.op = "write" -> "wren" [] OTHER -> "enter")
                 /\ cfg'[curr_die].ecc = (call.op # "uid" /\ ecc_enabled)
              \/ Return("fail")
<1>. DEFINE on == call.op # "uid" /\ ecc_enabled
            bits == [cfg[curr_die] EXCEPT !.ecc = on]
            Ahead == Goto(CASE call.op = "read" -> "send" [] call.op = "write" -> "wren" [] OTHER -> "enter")
<1>1. on \in BOOLEAN /\ curr_die \in Dies /\ cfg[curr_die] \in Register
    BY DEF LocalOK, DeviceOK
<1>. HIDE DEF on
<1>2. bits \in Register /\ bits.ecc = on
    BY <1>1 DEF Register
<1>3. \/ update_config(bits, TRUE, FALSE) /\ Ahead
      \/ update_config(bits, FALSE, TRUE) /\ Return("fail")
  <2>. HIDE DEF Ahead, bits
  <2>1. update_config(bits, Ahead, Return("fail"))
      BY DEF ondie_ecc_control, ecc_control, on, bits, Ahead
  <2>. QED BY <2>1 DEF update_config
<1>4. pc = "ecc" /\ Same
    BY DEF ondie_ecc_control
<1>. HIDE DEF bits, Ahead
<1>5. Written(bits) /\ Kept /\ (update_config(bits, TRUE, FALSE) => cfg'[curr_die] = bits)
    BY <1>1, <1>2, <1>3, Configuring DEF Kept, Written
<1>6. (Ahead /\ cfg'[curr_die].ecc = on) \/ Return("fail")
    BY <1>2, <1>3, <1>5
<1>. QED BY <1>4, <1>5, <1>6 DEF bits, on, Ahead, Same

LEMMA EnterStep ==
    ASSUME DeviceOK, LocalOK, enter_otp
    PROVE  /\ pc = "enter" /\ Kept /\ Same /\ Written([cfg[curr_die] EXCEPT !.otp = TRUE])
           /\ \/ /\ Goto(CASE call.op = "otp_write" -> "first" [] call.op = "otp_lock" -> "bit" [] OTHER -> "send")
                 /\ cfg'[curr_die].otp
              \/ Fails
<1>. DEFINE bits == [cfg[curr_die] EXCEPT !.otp = TRUE]
            Ahead == Goto(CASE call.op = "otp_write" -> "first" [] call.op = "otp_lock" -> "bit" [] OTHER -> "send")
<1>1. bits \in Register /\ bits.otp /\ curr_die \in Dies
    BY Requests DEF LocalOK, DeviceOK, Register
<1>. HIDE DEF bits, Ahead
<1>2. \/ update_config(bits, TRUE, FALSE) /\ Ahead
      \/ update_config(bits, FALSE, TRUE) /\ Fails
  <2>1. update_config(bits, Ahead, Fails)
      BY DEF enter_otp, otp_control, bits, Ahead
  <2>. QED BY <2>1 DEF update_config
<1>3. pc = "enter" /\ Same
    BY DEF enter_otp
<1>4. Written(bits) /\ Kept /\ (update_config(bits, TRUE, FALSE) => cfg'[curr_die] = bits)
    BY <1>1, <1>2, Configuring DEF Kept, Written
<1>5. (Ahead /\ cfg'[curr_die].otp) \/ Fails
    BY <1>1, <1>2, <1>4
<1>. QED BY <1>3, <1>4, <1>5 DEF bits, Ahead

LEMMA LockBitStep ==
    ASSUME DeviceOK, LocalOK, set_lock_bit
    PROVE  /\ pc = "bit" /\ Kept /\ Same /\ Written([cfg[curr_die] EXCEPT !.lock = TRUE])
           /\ Goto("wren") \/ Fails
<1>. DEFINE bits == [cfg[curr_die] EXCEPT !.lock = TRUE]
<1>1. bits \in Register /\ curr_die \in Dies
    BY Requests DEF LocalOK
<1>. HIDE DEF bits
<1>2. \/ update_config(bits, TRUE, FALSE) /\ Goto("wren")
      \/ update_config(bits, FALSE, TRUE) /\ Fails
  <2>1. update_config(bits, Goto("wren"), Fails)
      BY DEF set_lock_bit, bits
  <2>. QED BY <2>1 DEF update_config
<1>3. pc = "bit" /\ Same
    BY DEF set_lock_bit
<1>4. Written(bits) /\ Kept
    BY <1>1, <1>2, Configuring DEF Kept, Written
<1>. QED BY <1>2, <1>3, <1>4 DEF bits

\* leave_otp and leave_for_locked differ in where they go.
LEMMA LeavingStep ==
    ASSUME DeviceOK, LocalOK, NEW next, Names,
           otp_control(FALSE, Goto(next) /\ UNCHANGED slipped, Goto(next) /\ Slip("otp"))
    PROVE  /\ Kept /\ Goto(next) /\ Written([cfg[curr_die] EXCEPT !.otp = FALSE])
           /\ \/ UNCHANGED slipped /\ ~cfg'[curr_die].otp
              \/ Slip("otp")
<1>. DEFINE bits == [cfg[curr_die] EXCEPT !.otp = FALSE]
<1>1. bits \in Register /\ ~bits.otp /\ curr_die \in Dies
    BY Requests DEF LocalOK, DeviceOK, Register
<1>. HIDE DEF bits
<1>2. \/ update_config(bits, TRUE, FALSE) /\ Goto(next) /\ UNCHANGED slipped
      \/ update_config(bits, FALSE, TRUE) /\ Goto(next) /\ Slip("otp")
  <2>1. update_config(bits, Goto(next) /\ UNCHANGED slipped, Goto(next) /\ Slip("otp"))
      BY DEF otp_control, bits
  <2>. QED BY <2>1 DEF update_config
<1>3. Written(bits) /\ Kept /\ (update_config(bits, TRUE, FALSE) => cfg'[curr_die] = bits)
    BY <1>1, <1>2, Configuring DEF Kept, Written
<1>. QED BY <1>1, <1>2, <1>3 DEF bits

LEMMA FirstStep ==
    ASSUME DeviceOK, LocalOK, otp_write_enable
    PROVE  /\ pc = "first" /\ Kept /\ SameMode /\ SameWork /\ UNCHANGED cfg /\ Names
           /\ (Goto("wren") /\ UNCHANGED slipped) \/ (Return("fail") /\ Slip("otp"))
<1>1. \/ write_enable(TRUE, FALSE) /\ Goto("wren") /\ UNCHANGED slipped
      \/ write_enable(FALSE, TRUE) /\ Return("fail") /\ Slip("otp")
    BY DEF otp_write_enable, write_enable
<1>. QED BY <1>1, Enabling DEF Kept, Names, otp_write_enable

LEMMA WrenStep ==
    ASSUME DeviceOK, LocalOK, WriteEnable
    PROVE  /\ pc = "wren" /\ Kept /\ SameMode /\ SameWork /\ UNCHANGED cfg /\ Same
           /\ \/ Goto(IF call.op \in {"write", "otp_write"} THEN "load" ELSE "send") /\ chip'.wel
              \/ call.op = "erase" /\ Return("fail")
              \/ call.op # "erase" /\ Fails
<1>. DEFINE Ahead == Goto(IF call.op \in {"write", "otp_write"} THEN "load" ELSE "send")
            Back == IF call.op = "erase" THEN Return("fail") ELSE Fails
<1>1. (Back => (call.op = "erase" /\ Return("fail")) \/ (call.op # "erase" /\ Fails))
    OBVIOUS
<1>. HIDE DEF Ahead, Back
<1>2. \/ write_enable(TRUE, FALSE) /\ Ahead
      \/ write_enable(FALSE, TRUE) /\ Back
  <2>1. write_enable(Ahead, Back)
      BY DEF WriteEnable, Ahead, Back
  <2>. QED BY <2>1 DEF write_enable
<1>3. pc = "wren" /\ Same
    BY DEF WriteEnable
<1>4. Kept /\ SameMode /\ SameWork /\ UNCHANGED cfg /\ (write_enable(TRUE, FALSE) => chip'.wel)
    BY <1>2, Enabling DEF Kept
<1>. QED BY <1>1, <1>2, <1>3, <1>4 DEF Ahead

LEMMA LoadStep ==
    ASSUME DeviceOK, LocalOK, program_load
    PROVE  /\ pc = "load" /\ Kept /\ SameMode /\ SameWork /\ UNCHANGED cfg /\ Same /\ chip'.wel = chip.wel
           /\ \/ Goto("send") /\ (Idle => chip'.cache = "data")
              \/ Fails
<1>. DEFINE new == [chip EXCEPT !.cache = "data"]
<1>1. new \in ChipStates /\ new.die = chip.die /\ new.reg = chip.reg /\ new.op = chip.op /\ new.page = chip.page
      /\ new.fail = chip.fail /\ new.wel = chip.wel /\ new.cache = "data"
    BY Requests DEF DeviceOK, ChipStates
<1>. HIDE DEF new
<1>2. /\ pc = "load" /\ UNCHANGED cfg /\ Same
      /\ (Transfer(new, TRUE, FALSE) /\ Goto("send")) \/ (Transfer(new, FALSE, TRUE) /\ Fails)
  <2>1. pc = "load" /\ UNCHANGED cfg /\ Same /\ Transfer(new, Goto("send"), Fails)
      BY DEF program_load, new
  <2>. QED BY <2>1 DEF Transfer
<1>3. Kept /\ chip' \in {chip, new} /\ (Transfer(new, TRUE, FALSE) => chip' = IF Idle THEN new ELSE chip)
    BY <1>1, <1>2, Transferring DEF Kept
<1>. QED BY <1>1, <1>2, <1>3 DEF SameWork, SameMode

\* What the chip is asked to do.
Asked == IF Operation = "read" \/ chip.wel
         THEN [chip EXCEPT !.op = Operation, !.page = call.page % PagesPerDie, !.fail = FALSE] ELSE chip

LEMMA SendStep ==
    ASSUME DeviceOK, LocalOK, page_op
    PROVE  /\ pc = "send" /\ Kept /\ SameMode /\ SameData /\ UNCHANGED cfg /\ Same
           /\ \/ Goto("wait") /\ chip' = IF Idle THEN Asked ELSE chip
              \/ Fails /\ (Acked' => chip' = chip)
<1>1. Asked \in ChipStates /\ Asked.die = chip.die /\ Asked.reg = chip.reg /\ Asked.wel = chip.wel /\ Asked.cache = chip.cache
    BY Requests DEF DeviceOK, ChipStates, Asked
<1>2. pc = "send" /\ UNCHANGED cfg /\ Same /\ Transfer(Asked, Goto("wait"), Fails)
    BY DEF page_op, Asked
<1>3. (Transfer(Asked, TRUE, FALSE) /\ Goto("wait")) \/ (Transfer(Asked, FALSE, TRUE) /\ Fails)
    BY <1>2 DEF Transfer
<1>4. Kept /\ chip' \in {chip, Asked} /\ (Transfer(Asked, TRUE, FALSE) => chip' = IF Idle THEN Asked ELSE chip)
      /\ (Transfer(Asked, FALSE, TRUE) => (Acked' => chip' = chip))
    BY <1>1, <1>2, <1>3, Transferring DEF Kept
<1>. QED BY <1>1, <1>2, <1>3, <1>4 DEF SameMode, SameData

LEMMA DisableStep ==
    ASSUME DeviceOK, LocalOK, write_disable
    PROVE  /\ pc = "disable" /\ Kept /\ SameMode /\ SameWork /\ chip'.cache = chip.cache /\ UNCHANGED cfg /\ Same
           /\ Goto(IF call.op = "otp_lock" /\ ret = "ok" THEN "plain" ELSE "idle")
<1>. DEFINE new == [chip EXCEPT !.wel = FALSE]
            next == Goto(IF call.op = "otp_lock" /\ ret = "ok" THEN "plain" ELSE "idle")
<1>1. new \in ChipStates /\ new.die = chip.die /\ new.reg = chip.reg /\ new.op = chip.op /\ new.page = chip.page
      /\ new.fail = chip.fail /\ new.cache = chip.cache
    BY Requests DEF DeviceOK, ChipStates
<1>. HIDE DEF new, next
<1>2. pc = "disable" /\ UNCHANGED cfg /\ Same /\ Transfer(new, next, next)
    BY DEF write_disable, new, next
<1>3. next /\ (Transfer(new, TRUE, FALSE) \/ Transfer(new, FALSE, TRUE))
    BY <1>2 DEF Transfer
<1>4. Kept /\ chip' \in {chip, new}
    BY <1>1, <1>2, <1>3, Transferring DEF Kept
<1>. QED BY <1>1, <1>2, <1>3, <1>4 DEF SameWork, SameMode, next

\* The actions that only read.
LEMMA ReadingStep ==
    ASSUME DeviceOK, LocalOK, wait_busy \/ check_ecc \/ read_cache \/ read_lock_bit
    PROVE  Kept /\ chip' = chip /\ UNCHANGED cfg /\ Names
<1>1. wait_busy => UNCHANGED device /\ UNCHANGED cfg /\ Names /\ (UNCHANGED faults \/ Fault("unsent") \/ Fault("slow"))
    BY DEF wait_busy, Names
<1>2. check_ecc => UNCHANGED device /\ UNCHANGED cfg /\ Names /\ (UNCHANGED faults \/ Fault("unsent") \/ Fault("slow"))
    BY DEF check_ecc, get_feature, Names, Same, device
<1>3. read_cache => UNCHANGED device /\ UNCHANGED cfg /\ Names /\ (UNCHANGED faults \/ Fault("unsent") \/ Fault("slow"))
    BY DEF read_cache, Names, Same, device
<1>4. read_lock_bit => UNCHANGED device /\ UNCHANGED cfg /\ Names /\ (UNCHANGED faults \/ Fault("unsent") \/ Fault("slow"))
    BY DEF read_lock_bit, Names, Same, device
<1>5. UNCHANGED device /\ UNCHANGED cfg /\ Names /\ (UNCHANGED faults \/ Fault("unsent") \/ Fault("slow"))
    BY <1>1, <1>2, <1>3, <1>4
<1>6. cfg' \in [Dies -> Register]
    BY <1>5 DEF DeviceOK
<1>. QED BY <1>5, <1>6, Keeping DEF Kept

LEMMA WaitStep ==
    ASSUME LocalOK, Shape, wait_busy
    PROVE  /\ pc = "wait"
           /\ \/ Fails /\ (Idle => UNCHANGED slipped) /\ (~Idle => Slip("busy"))
              \/ /\ Idle /\ UNCHANGED slipped
                 /\ \/ Fails /\ call.op \in {"write", "erase", "otp_write"}
                    \/ Return("ok") /\ call.op \in {"write", "erase"} /\ ~chip.fail
                    \/ Cleanup("leave", "ok") /\ call.op \in {"otp_write", "otp_lock"}
                    \/ Goto("check") /\ call.op \in {"read", "otp_read"} /\ ecc_enabled
                    \/ Goto("fetch") /\ call.op \in {"read", "otp_read"} /\ ~ecc_enabled
                    \/ Goto("fetch") /\ call.op \in {"uid", "probe"}
<1>1. ecc_enabled \in BOOLEAN /\ pc = "wait"
    BY DEF LocalOK, wait_busy
<1>2. call.op \in {"read", "write", "erase", "otp_read", "otp_write", "otp_lock", "uid", "probe"}
    BY <1>1 DEF Shape, Plain, Otp
<1>3. \/ Fails /\ (IF Idle THEN UNCHANGED slipped ELSE Slip("busy"))
      \/ /\ Idle /\ UNCHANGED slipped
         /\ CASE call.op \in {"write", "erase", "otp_write"} /\ chip.fail -> Fails
              [] call.op \in {"write", "erase"} /\ ~chip.fail -> Return("ok")
              [] (call.op = "otp_write" /\ ~chip.fail) \/ call.op = "otp_lock" -> Cleanup("leave", "ok")
              [] call.op \in {"read", "otp_read"} /\ ecc_enabled -> Goto("check")
              [] call.op \in {"read", "otp_read"} /\ ~ecc_enabled -> Goto("fetch")
              [] call.op \in {"uid", "probe"} -> Goto("fetch")
    BY DEF wait_busy
<1>. QED BY <1>1, <1>2, <1>3

LEMMA CheckStep ==
    ASSUME check_ecc
    PROVE  /\ pc = "check" /\ UNCHANGED slipped
           /\ \/ Cleanup("fetch", IF mode.ecc /\ chip.cache = "torn" THEN "uncorrectable" ELSE "ok")
              \/ Fails
BY DEF check_ecc, get_feature, Same

LEMMA FetchStep ==
    ASSUME read_cache
    PROVE  /\ pc = "fetch" /\ UNCHANGED slipped
           /\ \/ /\ buf' = chip.cache /\ ret' = (IF ret = "none" THEN "ok" ELSE ret)
                 /\ pc' = (IF call.op = "read" THEN "idle" ELSE "leave")
              \/ Fails
BY DEF read_cache, Same

LEMMA LockedStep ==
    ASSUME DeviceOK, LocalOK, Shape, read_lock_bit
    PROVE  /\ pc = "locked" /\ UNCHANGED slipped /\ call.op \in {"otp_lock", "otp_locked"}
           /\ \/ \E r \in {"locked", "open", "ok", "fail"} : Return(r)
              \/ Goto("enter") /\ call.op = "otp_lock"
<1>. DEFINE Ends == \E r \in {"locked", "open", "ok", "fail"} : Return(r)
<1>1. Return("locked") \/ Return("open") \/ Return("ok") \/ Return("fail") => Ends
    OBVIOUS
<1>2. pc = "locked" /\ UNCHANGED slipped /\ mode.lock \in BOOLEAN
    BY Requests DEF read_lock_bit, Same, Register
<1>3. call.op = "otp_locked" \/ (call.op = "otp_lock" /\ ret \in {"none", "ok"})
    BY <1>2 DEF Shape, Plain, Otp, Probing
<1>. HIDE DEF Ends
<1>4. CASE call.op = "otp_locked"
    BY <1>1, <1>2, <1>4 DEF read_lock_bit
<1>5. CASE call.op = "otp_lock" /\ ret \in {"none", "ok"}
    BY <1>1, <1>2, <1>5 DEF read_lock_bit
<1>. QED BY <1>2, <1>3, <1>4, <1>5 DEF Ends

-----------------------------------------------------------------------------
(* Types and control *)

\* Errors add up.
Grows == Counted /\ slipped \subseteq slipped'
Control == LocalOK /\ Shape /\ Calm

LEMMA ResetControl ==
    ASSUME DeviceOK, Control, chip_reset
    PROVE  DeviceOK' /\ Control' /\ Grows
<1>1. LocalOK /\ Shape /\ Calm
    BY DEF Control
<1>2. DeviceOK' /\ Grows
    BY <1>1, ResetStep DEF Kept, Grows, Names, Same, Slip, chip_reset
<1>3. LocalOK'
    BY <1>1, ResetStep DEF chip_reset, LocalOK, Same, Names, Goto, Return, Cleanup, Fails, result, Slip
<1>4. Shape'
    BY <1>1, ResetStep DEF chip_reset, Shape, Plain, Otp, Probing, Same, Names, Goto, Return, Cleanup, Fails,
       result, AfterLeaving
<1>5. Calm'
    BY <1>1, <1>2, ResetStep DEF chip_reset, Grows, Counted, Kept, Written, Calm, SameWork, Idle, Same,
       Names, Goto, Slip
<1>. QED BY <1>2, <1>3, <1>4, <1>5 DEF Control

LEMMA ProbeControl ==
    ASSUME DeviceOK, Control, probe_onfi
    PROVE  DeviceOK' /\ Control' /\ Grows
<1>1. LocalOK /\ Shape /\ Calm
    BY DEF Control
<1>2. DeviceOK' /\ Grows
    BY <1>1, ProbeStep DEF Kept, Grows, Names, Same, Slip, probe_onfi
<1>3. LocalOK'
    BY <1>1, ProbeStep DEF probe_onfi, LocalOK, Same, Names, Goto, Return, Cleanup, Fails, result, Slip
<1>4. Shape'
    BY <1>1, ProbeStep DEF probe_onfi, Shape, Plain, Otp, Probing, Same, Names, Goto, Return, Cleanup, Fails,
       result, AfterLeaving
<1>5. Calm'
    BY <1>1, <1>2, ProbeStep DEF probe_onfi, Grows, Counted, Kept, Written, Calm, SameWork, Idle, Same,
       Names, Goto, Slip
<1>. QED BY <1>2, <1>3, <1>4, <1>5 DEF Control

LEMMA SetupControl ==
    ASSUME DeviceOK, Control, chip_setup
    PROVE  DeviceOK' /\ Control' /\ Grows
<1>1. LocalOK /\ Shape /\ Calm
    BY DEF Control
<1>2. DeviceOK' /\ Grows
    BY <1>1, SetupStep DEF Kept, Grows, Names, Same, Slip, chip_setup
<1>3. LocalOK'
    BY <1>1, SetupStep DEF chip_setup, LocalOK, Same, Names, Goto, Return, Cleanup, Fails, result, Slip
<1>4. Shape'
    BY <1>1, SetupStep DEF chip_setup, Shape, Plain, Otp, Probing, Same, Names, Goto, Return, Cleanup, Fails,
       result, AfterLeaving
<1>5. Calm'
    BY <1>1, <1>2, SetupStep DEF chip_setup, Grows, Counted, Kept, Written, Calm, SameWork, Idle, Same,
       Names, Goto, Slip
<1>. QED BY <1>2, <1>3, <1>4, <1>5 DEF Control

LEMMA RefreshControl ==
    ASSUME DeviceOK, Control, refresh_config
    PROVE  DeviceOK' /\ Control' /\ Grows
<1>1. LocalOK /\ Shape /\ Calm
    BY DEF Control
<1>2. DeviceOK' /\ Grows
    BY <1>1, RefreshStep DEF Kept, Grows, Names, Same, Slip, refresh_config
<1>3. LocalOK'
    BY <1>1, RefreshStep DEF refresh_config, LocalOK, Same, Names, Goto, Return, Cleanup, Fails, result, Slip
<1>4. Shape'
    BY <1>1, RefreshStep DEF refresh_config, Shape, Plain, Otp, Probing, Same, Names, Goto, Return, Cleanup,
       Fails, result, AfterLeaving
<1>5. Calm'
    BY <1>1, <1>2, RefreshStep DEF refresh_config, Grows, Counted, Kept, Written, Calm, SameWork, Idle, Same,
       Names, Goto, Slip
<1>. QED BY <1>2, <1>3, <1>4, <1>5 DEF Control

LEMMA UnlockControl ==
    ASSUME DeviceOK, Control, unlock
    PROVE  DeviceOK' /\ Control' /\ Grows
<1>1. LocalOK /\ Shape /\ Calm
    BY DEF Control
<1>2. DeviceOK' /\ Grows
    BY <1>1, UnlockStep DEF Kept, Grows, Names, Same, Slip, unlock
<1>3. LocalOK'
    BY <1>1, UnlockStep DEF unlock, LocalOK, Same, Names, Goto, Return, Cleanup, Fails, result, Slip
<1>4. Shape'
    BY <1>1, UnlockStep DEF unlock, Shape, Plain, Otp, Probing, Same, Names, Goto, Return, Cleanup, Fails,
       result, AfterLeaving
<1>5. Calm'
    BY <1>1, <1>2, UnlockStep DEF unlock, Grows, Counted, Kept, Written, Calm, SameWork, Idle, Same, Names,
       Goto, Slip
<1>. QED BY <1>2, <1>3, <1>4, <1>5 DEF Control

LEMMA DieControl ==
    ASSUME DeviceOK, Control, chip_die_setup
    PROVE  DeviceOK' /\ Control' /\ Grows
<1>1. LocalOK /\ Shape /\ Calm
    BY DEF Control
<1>2. DeviceOK' /\ Grows
    BY <1>1, DieStep, Numbers DEF Kept, Grows, Names, Same, Slip, chip_die_setup
<1>3. LocalOK'
    BY <1>1, DieStep, Numbers DEF chip_die_setup, LocalOK, Same, Names, Goto, Return, Cleanup, Fails, result,
       Slip
<1>4. Shape'
    BY <1>1, DieStep, Numbers DEF chip_die_setup, Shape, Plain, Otp, Probing, Same, Names, Goto, Return,
       Cleanup, Fails, result, AfterLeaving
<1>5. Calm'
    BY <1>1, <1>2, DieStep, Numbers DEF chip_die_setup, Grows, Counted, Kept, Written, Calm, SameWork, Idle,
       Same, Names, Goto, Slip
<1>. QED BY <1>2, <1>3, <1>4, <1>5 DEF Control

LEMMA SelectControl ==
    ASSUME DeviceOK, Control, select_die_page
    PROVE  DeviceOK' /\ Control' /\ Grows
<1>1. LocalOK /\ Shape /\ Calm
    BY DEF Control
<1>2. DeviceOK' /\ Grows
    BY <1>1, SelectStep DEF Kept, Grows, Names, Same, Slip, select_die_page
<1>3. LocalOK'
    BY <1>1, SelectStep DEF select_die_page, LocalOK, Same, Names, Goto, Return, Cleanup, Fails, result, Slip
<1>4. Shape'
    BY <1>1, SelectStep DEF select_die_page, Shape, Plain, Otp, Probing, Same, Names, Goto, Return, Cleanup,
       Fails, result, AfterLeaving
<1>5. Calm'
    BY <1>1, <1>2, SelectStep DEF select_die_page, Grows, Counted, Kept, Written, Calm, SameWork, Idle, Same,
       Names, Goto, Slip
<1>. QED BY <1>2, <1>3, <1>4, <1>5 DEF Control

LEMMA EccControl ==
    ASSUME DeviceOK, Control, ondie_ecc_control
    PROVE  DeviceOK' /\ Control' /\ Grows
<1>1. LocalOK /\ Shape /\ Calm
    BY DEF Control
<1>2. DeviceOK' /\ Grows
    BY <1>1, EccStep DEF Kept, Grows, Names, Same, Slip, ondie_ecc_control
<1>3. LocalOK'
    BY <1>1, EccStep DEF ondie_ecc_control, LocalOK, Same, Names, Goto, Return, Cleanup, Fails, result, Slip
<1>4. Shape'
    BY <1>1, EccStep DEF ondie_ecc_control, Shape, Plain, Otp, Probing, Same, Names, Goto, Return, Cleanup,
       Fails, result, AfterLeaving
<1>5. Calm'
    BY <1>1, <1>2, EccStep DEF ondie_ecc_control, Grows, Counted, Kept, Written, Calm, SameWork, Idle, Same,
       Names, Goto, Slip
<1>. QED BY <1>2, <1>3, <1>4, <1>5 DEF Control

LEMMA EnterControl ==
    ASSUME DeviceOK, Control, enter_otp
    PROVE  DeviceOK' /\ Control' /\ Grows
<1>1. LocalOK /\ Shape /\ Calm
    BY DEF Control
<1>2. DeviceOK' /\ Grows
    BY <1>1, EnterStep DEF Kept, Grows, Names, Same, Slip, enter_otp
<1>3. LocalOK'
    BY <1>1, EnterStep DEF enter_otp, LocalOK, Same, Names, Goto, Return, Cleanup, Fails, result, Slip
<1>4. Shape'
    BY <1>1, EnterStep DEF enter_otp, Shape, Plain, Otp, Probing, Same, Names, Goto, Return, Cleanup, Fails,
       result, AfterLeaving
<1>5. Calm'
    BY <1>1, <1>2, EnterStep DEF enter_otp, Grows, Counted, Kept, Written, Calm, SameWork, Idle, Same, Names,
       Goto, Slip
<1>. QED BY <1>2, <1>3, <1>4, <1>5 DEF Control

LEMMA LockBitControl ==
    ASSUME DeviceOK, Control, set_lock_bit
    PROVE  DeviceOK' /\ Control' /\ Grows
<1>1. LocalOK /\ Shape /\ Calm
    BY DEF Control
<1>2. DeviceOK' /\ Grows
    BY <1>1, LockBitStep DEF Kept, Grows, Names, Same, Slip, set_lock_bit
<1>3. LocalOK'
    BY <1>1, LockBitStep DEF set_lock_bit, LocalOK, Same, Names, Goto, Return, Cleanup, Fails, result, Slip
<1>4. Shape'
    BY <1>1, LockBitStep DEF set_lock_bit, Shape, Plain, Otp, Probing, Same, Names, Goto, Return, Cleanup,
       Fails, result, AfterLeaving
<1>5. Calm'
    BY <1>1, <1>2, LockBitStep DEF set_lock_bit, Grows, Counted, Kept, Written, Calm, SameWork, Idle, Same,
       Names, Goto, Slip
<1>. QED BY <1>2, <1>3, <1>4, <1>5 DEF Control

LEMMA FirstControl ==
    ASSUME DeviceOK, Control, otp_write_enable
    PROVE  DeviceOK' /\ Control' /\ Grows
<1>1. LocalOK /\ Shape /\ Calm
    BY DEF Control
<1>2. DeviceOK' /\ Grows
    BY <1>1, FirstStep DEF Kept, Grows, Names, Same, Slip, otp_write_enable
<1>3. LocalOK'
    BY <1>1, FirstStep DEF otp_write_enable, LocalOK, Same, Names, Goto, Return, Cleanup, Fails, result, Slip
<1>4. Shape'
    BY <1>1, FirstStep DEF otp_write_enable, Shape, Plain, Otp, Probing, Same, Names, Goto, Return, Cleanup,
       Fails, result, AfterLeaving
<1>5. Calm'
    BY <1>1, <1>2, FirstStep DEF otp_write_enable, Grows, Counted, Kept, Written, Calm, SameWork, Idle, Same,
       Names, Goto, Slip
<1>. QED BY <1>2, <1>3, <1>4, <1>5 DEF Control

LEMMA WrenControl ==
    ASSUME DeviceOK, Control, WriteEnable
    PROVE  DeviceOK' /\ Control' /\ Grows
<1>1. LocalOK /\ Shape /\ Calm
    BY DEF Control
<1>2. DeviceOK' /\ Grows
    BY <1>1, WrenStep DEF Kept, Grows, Names, Same, Slip, WriteEnable
<1>3. LocalOK'
    BY <1>1, WrenStep DEF WriteEnable, LocalOK, Same, Names, Goto, Return, Cleanup, Fails, result, Slip
<1>4. Shape'
    BY <1>1, WrenStep DEF WriteEnable, Shape, Plain, Otp, Probing, Same, Names, Goto, Return, Cleanup, Fails,
       result, AfterLeaving
<1>5. Calm'
    BY <1>1, <1>2, WrenStep DEF WriteEnable, Grows, Counted, Kept, Written, Calm, SameWork, Idle, Same,
       Names, Goto, Slip
<1>. QED BY <1>2, <1>3, <1>4, <1>5 DEF Control

LEMMA LoadControl ==
    ASSUME DeviceOK, Control, program_load
    PROVE  DeviceOK' /\ Control' /\ Grows
<1>1. LocalOK /\ Shape /\ Calm
    BY DEF Control
<1>2. DeviceOK' /\ Grows
    BY <1>1, LoadStep DEF Kept, Grows, Names, Same, Slip, program_load
<1>3. LocalOK'
    BY <1>1, LoadStep DEF program_load, LocalOK, Same, Names, Goto, Return, Cleanup, Fails, result, Slip
<1>4. Shape'
    BY <1>1, LoadStep DEF program_load, Shape, Plain, Otp, Probing, Same, Names, Goto, Return, Cleanup,
       Fails, result, AfterLeaving
<1>5. Calm'
    BY <1>1, <1>2, LoadStep DEF program_load, Grows, Counted, Kept, Written, Calm, SameWork, Idle, Same,
       Names, Goto, Slip
<1>. QED BY <1>2, <1>3, <1>4, <1>5 DEF Control

LEMMA SendControl ==
    ASSUME DeviceOK, Control, page_op
    PROVE  DeviceOK' /\ Control' /\ Grows
<1>1. LocalOK /\ Shape /\ Calm
    BY DEF Control
<1>2. DeviceOK' /\ Grows
    BY <1>1, SendStep DEF Kept, Grows, Names, Same, Slip, page_op
<1>3. LocalOK'
    BY <1>1, SendStep DEF page_op, LocalOK, Same, Names, Goto, Return, Cleanup, Fails, result, Slip
<1>4. Shape'
    BY <1>1, SendStep DEF page_op, Shape, Plain, Otp, Probing, Same, Names, Goto, Return, Cleanup, Fails,
       result, AfterLeaving
<1>5. Calm'
    BY <1>1, <1>2, SendStep DEF page_op, Grows, Counted, Kept, Written, Calm, SameWork, Idle, Same, Names,
       Goto, Slip
<1>. QED BY <1>2, <1>3, <1>4, <1>5 DEF Control

LEMMA DisableControl ==
    ASSUME DeviceOK, Control, write_disable
    PROVE  DeviceOK' /\ Control' /\ Grows
<1>1. LocalOK /\ Shape /\ Calm
    BY DEF Control
<1>2. DeviceOK' /\ Grows
    BY <1>1, DisableStep DEF Kept, Grows, Names, Same, Slip, write_disable
<1>3. LocalOK'
    BY <1>1, DisableStep DEF write_disable, LocalOK, Same, Names, Goto, Return, Cleanup, Fails, result, Slip
<1>4. Shape'
    BY <1>1, DisableStep DEF write_disable, Shape, Plain, Otp, Probing, Same, Names, Goto, Return, Cleanup,
       Fails, result, AfterLeaving
<1>5. Calm'
    BY <1>1, <1>2, DisableStep DEF write_disable, Grows, Counted, Kept, Written, Calm, SameWork, Idle, Same,
       Names, Goto, Slip
<1>. QED BY <1>2, <1>3, <1>4, <1>5 DEF Control

LEMMA WaitControl ==
    ASSUME DeviceOK, Control, wait_busy
    PROVE  DeviceOK' /\ Control' /\ Grows
<1>1. LocalOK /\ Shape /\ Calm
    BY DEF Control
<1>2. DeviceOK' /\ Grows
    BY <1>1, ReadingStep, WaitStep DEF Kept, Grows, Names, Same, Slip, wait_busy
<1>3. LocalOK'
    BY <1>1, ReadingStep, WaitStep DEF LocalOK, Same, Names, Goto, Return, Cleanup, Fails, result, Slip
<1>4. Shape'
    BY <1>1, ReadingStep, WaitStep DEF Shape, Plain, Otp, Probing, Same, Names, Goto, Return, Cleanup, Fails,
       result, AfterLeaving
<1>5. Calm'
    BY <1>1, <1>2, ReadingStep, WaitStep DEF Grows, Counted, Kept, Written, Calm, SameWork, Idle, Same,
       Names, Goto, Slip
<1>. QED BY <1>2, <1>3, <1>4, <1>5 DEF Control

LEMMA CheckControl ==
    ASSUME DeviceOK, Control, check_ecc
    PROVE  DeviceOK' /\ Control' /\ Grows
<1>1. LocalOK /\ Shape /\ Calm
    BY DEF Control
<1>2. DeviceOK' /\ Grows
    BY <1>1, ReadingStep DEF Kept, Grows, Names, Same, Slip, check_ecc
<1>3. LocalOK'
    BY <1>1, ReadingStep, CheckStep DEF LocalOK, Same, Names, Goto, Return, Cleanup, Fails, result, Slip
<1>4. Shape'
    BY <1>1, ReadingStep, CheckStep DEF Shape, Plain, Otp, Probing, Same, Names, Goto, Return, Cleanup,
       Fails, result, AfterLeaving
<1>5. Calm'
    BY <1>1, <1>2, ReadingStep, CheckStep DEF Grows, Counted, Kept, Written, Calm, SameWork, Idle, Same,
       Names, Goto, Slip
<1>. QED BY <1>2, <1>3, <1>4, <1>5 DEF Control

LEMMA FetchControl ==
    ASSUME DeviceOK, Control, read_cache
    PROVE  DeviceOK' /\ Control' /\ Grows
<1>1. LocalOK /\ Shape /\ Calm
    BY DEF Control
<1>2. DeviceOK' /\ Grows
    BY <1>1, ReadingStep DEF Kept, Grows, Names, Same, Slip, read_cache
<1>3. LocalOK'
  <2>1. chip.cache \in Contents
      BY DEF DeviceOK, ChipStates
  <2>. QED BY <1>1, <2>1, ReadingStep, FetchStep DEF LocalOK, Same, Names, Goto, Return, Cleanup, Fails,
              result, Slip
<1>4. Shape'
    BY <1>1, ReadingStep, FetchStep DEF Shape, Plain, Otp, Probing, Same, Names, Goto, Return, Cleanup,
       Fails, result, AfterLeaving
<1>5. Calm'
    BY <1>1, <1>2, ReadingStep, FetchStep DEF Grows, Counted, Kept, Written, Calm, SameWork, Idle, Same,
       Names, Goto, Slip
<1>. QED BY <1>2, <1>3, <1>4, <1>5 DEF Control

LEMMA LockedControl ==
    ASSUME DeviceOK, Control, read_lock_bit
    PROVE  DeviceOK' /\ Control' /\ Grows
<1>1. LocalOK /\ Shape /\ Calm
    BY DEF Control
<1>2. DeviceOK' /\ Grows
    BY <1>1, ReadingStep DEF Kept, Grows, Names, Same, Slip, read_lock_bit
<1>3. LocalOK'
    BY <1>1, ReadingStep, LockedStep DEF LocalOK, Same, Names, Goto, Return, Cleanup, Fails, result, Slip
<1>4. Shape'
    BY <1>1, ReadingStep, LockedStep DEF Shape, Plain, Otp, Probing, Same, Names, Goto, Return, Cleanup,
       Fails, result, AfterLeaving
<1>5. Calm'
    BY <1>1, <1>2, ReadingStep, LockedStep DEF Grows, Counted, Kept, Written, Calm, SameWork, Idle, Same,
       Names, Goto, Slip
<1>. QED BY <1>2, <1>3, <1>4, <1>5 DEF Control

LEMMA LeaveStep ==
    ASSUME DeviceOK, LocalOK, leave_otp
    PROVE  /\ pc = "leave" /\ Kept /\ Names /\ Goto(AfterLeaving) /\ Written([cfg[curr_die] EXCEPT !.otp = FALSE])
           /\ (UNCHANGED slipped /\ ~cfg'[curr_die].otp) \/ Slip("otp")
BY LeavingStep DEF leave_otp, Names

LEMMA PlainStep ==
    ASSUME DeviceOK, LocalOK, leave_for_locked
    PROVE  /\ pc = "plain" /\ Kept /\ Names /\ Goto("locked") /\ Written([cfg[curr_die] EXCEPT !.otp = FALSE])
           /\ (UNCHANGED slipped /\ ~cfg'[curr_die].otp) \/ Slip("otp")
BY LeavingStep DEF leave_for_locked, Names

LEMMA LeaveControl ==
    ASSUME DeviceOK, Control, leave_otp
    PROVE  DeviceOK' /\ Control' /\ Grows
<1>1. LocalOK /\ Shape /\ Calm
    BY DEF Control
<1>2. DeviceOK' /\ Grows
    BY <1>1, LeaveStep DEF Kept, Grows, Names, Same, Slip, leave_otp
<1>3. LocalOK'
    BY <1>1, LeaveStep DEF leave_otp, LocalOK, Same, Names, Goto, Return, Cleanup, Fails, result, Slip
<1>4. Shape'
    BY <1>1, LeaveStep DEF leave_otp, Shape, Plain, Otp, Probing, Same, Names, Goto, Return, Cleanup, Fails,
       result, AfterLeaving
<1>5. Calm'
    BY <1>1, <1>2, LeaveStep DEF leave_otp, Grows, Counted, Kept, Written, Calm, SameWork, Idle, Same, Names,
       Goto, Slip
<1>. QED BY <1>2, <1>3, <1>4, <1>5 DEF Control

LEMMA PlainControl ==
    ASSUME DeviceOK, Control, leave_for_locked
    PROVE  DeviceOK' /\ Control' /\ Grows
<1>1. LocalOK /\ Shape /\ Calm
    BY DEF Control
<1>2. DeviceOK' /\ Grows
    BY <1>1, PlainStep DEF Kept, Grows, Names, Same, Slip, leave_for_locked
<1>3. LocalOK'
    BY <1>1, PlainStep DEF leave_for_locked, LocalOK, Same, Names, Goto, Return, Cleanup, Fails, result, Slip
<1>4. Shape'
    BY <1>1, PlainStep DEF leave_for_locked, Shape, Plain, Otp, Probing, Same, Names, Goto, Return, Cleanup,
       Fails, result, AfterLeaving
<1>5. Calm'
    BY <1>1, <1>2, PlainStep DEF leave_for_locked, Grows, Counted, Kept, Written, Calm, SameWork, Idle, Same,
       Names, Goto, Slip
<1>. QED BY <1>2, <1>3, <1>4, <1>5 DEF Control

LEMMA CallControl ==
    ASSUME DeviceOK, Control, Call
    PROVE  DeviceOK' /\ Control' /\ Grows
<1>1. LocalOK /\ Shape /\ Calm
    BY DEF Control
<1>2. PICK op \in Plain \cup Otp, page \in Pages, ecc \in BOOLEAN : Calls(op, page, ecc, Label(op))
    BY <1>1, CallStep
<1>3. UNCHANGED <<content, otp, fused, chip, faults, cfg, curr_die, die, slipped>> /\ pc = "idle"
    BY <1>2 DEF Calls, device
<1>4. DeviceOK' /\ Grows
    BY <1>3, Counts DEF DeviceOK, Grows
<1>5. LocalOK'
    BY <1>1, <1>2, <1>3, Numbers DEF LocalOK, Calls
<1>6. call'.op = op /\ pc' = Label(op) /\ ret' = "none" /\ ecc_enabled' = ecc
    BY <1>2 DEF Calls
<1>7. Shape'
    BY <1>2, <1>6 DEF Shape, Label, Plain, Otp
<1>8. Calm'
    BY <1>1, <1>3 DEF Calm, Acked, Idle
<1>. QED BY <1>4, <1>5, <1>7, <1>8 DEF Control

LEMMA ChipControl ==
    ASSUME DeviceOK, Control, Chip
    PROVE  DeviceOK' /\ Control' /\ Grows
<1>1. /\ DeviceOK' /\ Counted /\ chip'.op = "none" /\ LocalOK /\ Shape /\ Calm
      /\ UNCHANGED <<cfg, curr_die, ecc_enabled, pc, call, ret, buf, die, slipped>>
    BY Finishing DEF Control
<1>2. LocalOK' /\ Shape'
    BY <1>1 DEF LocalOK, Shape
<1>3. Calm' /\ Grows
    BY <1>1 DEF Calm, Idle, Grows
<1>. QED BY <1>1, <1>2, <1>3 DEF Control

LEMMA Controlled ==
    ASSUME DeviceOK, Control, Next
    PROVE  DeviceOK' /\ Control' /\ Grows
BY CallControl, ChipControl, ResetControl, ProbeControl, SetupControl, RefreshControl, UnlockControl,
   DieControl,
   SelectControl, EccControl, EnterControl, LockBitControl, FirstControl, WrenControl, LoadControl, SendControl,
   WaitControl, CheckControl, FetchControl, LeaveControl, DisableControl, PlainControl, LockedControl
   DEF Next, Driver

-----------------------------------------------------------------------------
(* What the driver knows *)

LEMMA WrittenKnown ==
    ASSUME DeviceOK, LocalOK, Acked', Idle, NEW bits, Written(bits), UNCHANGED curr_die
    PROVE  /\ chip'.die = chip.die
           /\ cfg[curr_die] = chip.reg[chip.die] => cfg'[curr_die] = chip'.reg[chip.die]
           /\ curr_die = chip.die => \A e \in Dies : cfg[e] = chip.reg[e] => cfg'[e] = chip'.reg[e]
BY DEF Written, DeviceOK, LocalOK, ChipStates

\* No action but the commands of a page leaves the chip at work.
LEMMA Rests ==
    ASSUME Sure, Calm, pc # "wait"
    PROVE  Idle
BY DEF Sure, Calm

\* Before the first die is set up there is nothing to remember.
LEMMA SetupBegins == \A e \in Dies : ~(e >= NDies - 1 + 1)
BY Numbers

LEMMA ResetKnown ==
    ASSUME DeviceOK, Control, Sure, Known, Sure', chip_reset
    PROVE  Known'
<1>1. LocalOK /\ Shape /\ Calm /\ Acked'
    BY DEF Control, Sure
<1>2. /\ call.op = "probe" /\ curr_die = 0 /\ die = NDies - 1
      /\ call' = call /\ curr_die' = 0 /\ die' = NDies - 1 /\ pc' \in {"config", "setup", "failed"}
    BY <1>1, ResetStep DEF Shape, Known, Plain, Otp, Probing, Setup, Same, Goto
<1>. QED BY <1>2, SetupBegins DEF Known, Probing, Setup, Remembered

LEMMA ProbeKnown ==
    ASSUME DeviceOK, Control, Sure, Known, Sure', probe_onfi
    PROVE  Known'
<1>1. LocalOK /\ Shape /\ Calm /\ Acked'
    BY DEF Control, Sure
<1>2. /\ call.op = "probe" /\ curr_die = 0 /\ die = NDies - 1
      /\ call' = call /\ curr_die' = 0 /\ die' = NDies - 1
    BY <1>1, ProbeStep DEF Shape, Known, Plain, Otp, Probing, Setup, Same
<1>3. CASE pc' = "setup"
    BY <1>2, <1>3, SetupBegins DEF Known, Probing, Setup, Remembered
<1>4. CASE pc' = "enter" /\ cfg'[curr_die] = Off /\ (Idle => chip'.reg[chip.die] = Off)
  <2>1. Idle
      BY <1>1, ProbeStep, Rests
  <2>2. cfg'[0] = chip'.reg[chip'.die]
      BY <1>1, <1>2, <1>4, <2>1, ProbeStep
  <2>. QED BY <1>2, <1>4, <2>2 DEF Known, Probing, Setup, Remembered
<1>. QED BY <1>1, <1>3, <1>4, ProbeStep DEF Goto

LEMMA SetupKnown ==
    ASSUME DeviceOK, Control, Sure, Known, Sure', chip_setup
    PROVE  Known'
<1>1. LocalOK /\ Shape /\ Calm /\ Acked'
    BY DEF Control, Sure
<1>2. /\ curr_die' = die /\ chip'.die = (IF curr_die = die THEN chip.die ELSE die) /\ chip'.reg = chip.reg
      /\ UNCHANGED <<cfg, call, die>> /\ pc = "setup" /\ pc' = "refresh"
    BY <1>1, SetupStep DEF Slip, Sure, Goto
<1>3. /\ call.op = "probe" /\ Remembered(die + 1)
      /\ die = NDies - 1 => curr_die = 0
      /\ die < NDies - 1 => curr_die = chip.die
    BY <1>1, <1>2 DEF Shape, Known, Plain, Otp, Setup
<1>4. /\ die \in Nat /\ die <= NDies - 1 /\ NDies \in Nat /\ chip.die \in Nat /\ chip.die <= NDies - 1
    BY <1>1, Numbers DEF LocalOK, DeviceOK, ChipStates
<1>5. chip'.die = die
    BY <1>2, <1>3, <1>4
<1>6. Remembered(die + 1)'
    BY <1>2, <1>3 DEF Remembered
<1>. QED BY <1>2, <1>3, <1>5, <1>6 DEF Known, Probing, Setup

LEMMA RefreshKnown ==
    ASSUME DeviceOK, Control, Sure, Known, Sure', refresh_config
    PROVE  Known'
<1>1. LocalOK /\ Shape /\ Calm /\ Acked'
    BY DEF Control, Sure
<1>2. chip' = chip /\ UNCHANGED <<call, curr_die, die>> /\ pc = "refresh"
    BY <1>1, RefreshStep DEF Same
<1>3. call.op = "probe" /\ Remembered(die + 1) /\ curr_die = chip.die /\ curr_die = die
    BY <1>1, <1>2, Numbers DEF Shape, Known, Plain, Otp, Setup, LocalOK
<1>4. die \in Nat /\ die \in Dies /\ (\A e \in Dies : e \in Nat) /\ cfg \in [Dies -> Register]
    BY <1>1, Numbers DEF LocalOK, DeviceOK
<1>5. CASE pc' = "failed"
    BY <1>2, <1>3, <1>5 DEF Known, Probing, Setup, Remembered
<1>6. CASE pc' = "unlock" /\ cfg' = [cfg EXCEPT ![curr_die] = chip.reg[chip.die]]
  <2>1. \A e \in Dies : cfg'[e] = IF e = die THEN chip.reg[e] ELSE cfg[e]
      BY <1>3, <1>6, <1>4
  <2>2. \A e \in Dies : e >= die => (e = die \/ e >= die + 1)
      BY <1>4
  <2>3. \A e \in Dies : e >= die => cfg'[e] = chip'.reg[e]
      BY <1>2, <1>3, <2>1, <2>2 DEF Remembered
  <2>4. \A e \in Dies : e >= die + 1 => e >= die
      BY <1>4
  <2>. QED BY <1>2, <1>3, <1>6, <2>3, <2>4 DEF Known, Probing, Setup, Remembered
<1>. QED BY <1>1, <1>5, <1>6, RefreshStep DEF Goto

LEMMA UnlockKnown ==
    ASSUME DeviceOK, Control, Sure, Known, Sure', unlock
    PROVE  Known'
<1>1. LocalOK /\ Shape /\ Calm /\ Acked'
    BY DEF Control, Sure
<1>. QED BY <1>1, UnlockStep, Numbers DEF Shape, Plain, Otp, Sure, Slip, SameMode, Known, Setup, Probing,
            Remembered, Same, Names, Goto, Return, Cleanup, Fails, result, AfterLeaving

LEMMA DieKnown ==
    ASSUME DeviceOK, Control, Sure, Known, Sure', chip_die_setup
    PROVE  Known'
<1>1. LocalOK /\ Shape /\ Calm /\ Acked'
    BY DEF Control, Sure
<1>2. pc = "off" /\ UNCHANGED <<call, curr_die>> /\ pc' = (IF die = 0 THEN "idle" ELSE "setup")
      /\ die' = (IF die = 0 THEN 0 ELSE die - 1)
    BY <1>1, DieStep DEF Goto
<1>3. call.op = "probe" /\ curr_die = chip.die /\ curr_die = die /\ Remembered(die)
    BY <1>1, <1>2 DEF Shape, Known, Plain, Otp, Setup
<1>4. chip'.die = chip.die /\ \A e \in Dies : cfg[e] = chip.reg[e] => cfg'[e] = chip'.reg[e]
    BY <1>1, <1>2, <1>3, DieStep, WrittenKnown, Rests
<1>5. \A e \in Dies : e >= die => cfg'[e] = chip'.reg[e]
    BY <1>3, <1>4 DEF Remembered
<1>6. die \in Nat /\ die <= NDies - 1 /\ NDies \in Nat
    BY <1>1, Numbers DEF LocalOK
<1>7. CASE die = 0
    BY <1>2, <1>3, <1>4, <1>5, <1>7 DEF Known, Probing, Setup, Remembered
<1>8. CASE die # 0
  <2>1. die' + 1 = die /\ die' < NDies - 1 /\ die' # NDies - 1
      BY <1>2, <1>6, <1>8
  <2>2. \A e \in Dies : e >= die' + 1 => e >= die
      BY <2>1
  <2>3. \A e \in Dies : e >= die => cfg'[e] = chip'.reg[e]
      BY <1>5
  <2>4. \A e \in Dies : e >= die' + 1 => cfg'[e] = chip'.reg[e]
      BY <2>2, <2>3
  <2>5. pc' = "setup" /\ curr_die' = chip'.die /\ call'.op = "probe"
      BY <1>2, <1>3, <1>4, <1>8
  <2>. QED BY <2>1, <2>4, <2>5 DEF Known, Probing, Setup, Remembered
<1>. QED BY <1>7, <1>8

LEMMA SelectKnown ==
    ASSUME DeviceOK, Control, Sure, Known, Sure', select_die_page
    PROVE  Known'
<1>1. LocalOK /\ Shape /\ Calm /\ Acked'
    BY DEF Control, Sure
<1>. QED BY <1>1, SelectStep, Numbers DEF Shape, Plain, Otp, Sure, Slip, SameMode, Known, Setup, Probing,
            Remembered, Same, Names, Goto, Return, Cleanup, Fails, result, AfterLeaving

LEMMA EccKnown ==
    ASSUME DeviceOK, Control, Sure, Known, Sure', ondie_ecc_control
    PROVE  Known'
<1>1. LocalOK /\ Shape /\ Calm /\ Acked'
    BY DEF Control, Sure
<1>2. pc # "wait"
    BY EccStep, <1>1
<1>3. /\ chip'.die = chip.die /\ UNCHANGED curr_die
      /\ cfg[curr_die] = chip.reg[chip.die] => cfg'[curr_die] = chip'.reg[chip.die]
      /\ curr_die = chip.die => \A e \in Dies : cfg[e] = chip.reg[e] => cfg'[e] = chip'.reg[e]
    BY <1>1, <1>2, EccStep, WrittenKnown, Rests DEF Same, Names
<1>. QED BY <1>1, <1>3, EccStep, Numbers DEF Shape, Plain, Otp, Sure, Slip, Known, Setup, Probing,
            Remembered, Same, Names, Goto, Return, Cleanup, Fails, result, AfterLeaving

LEMMA EnterKnown ==
    ASSUME DeviceOK, Control, Sure, Known, Sure', enter_otp
    PROVE  Known'
<1>1. LocalOK /\ Shape /\ Calm /\ Acked'
    BY DEF Control, Sure
<1>2. pc # "wait"
    BY EnterStep, <1>1
<1>3. /\ chip'.die = chip.die /\ UNCHANGED curr_die
      /\ cfg[curr_die] = chip.reg[chip.die] => cfg'[curr_die] = chip'.reg[chip.die]
      /\ curr_die = chip.die => \A e \in Dies : cfg[e] = chip.reg[e] => cfg'[e] = chip'.reg[e]
    BY <1>1, <1>2, EnterStep, WrittenKnown, Rests DEF Same, Names
<1>. QED BY <1>1, <1>3, EnterStep, Numbers DEF Shape, Plain, Otp, Sure, Slip, Known, Setup, Probing,
            Remembered, Same, Names, Goto, Return, Cleanup, Fails, result, AfterLeaving

LEMMA LockBitKnown ==
    ASSUME DeviceOK, Control, Sure, Known, Sure', set_lock_bit
    PROVE  Known'
<1>1. LocalOK /\ Shape /\ Calm /\ Acked'
    BY DEF Control, Sure
<1>2. pc # "wait"
    BY LockBitStep, <1>1
<1>3. /\ chip'.die = chip.die /\ UNCHANGED curr_die
      /\ cfg[curr_die] = chip.reg[chip.die] => cfg'[curr_die] = chip'.reg[chip.die]
      /\ curr_die = chip.die => \A e \in Dies : cfg[e] = chip.reg[e] => cfg'[e] = chip'.reg[e]
    BY <1>1, <1>2, LockBitStep, WrittenKnown, Rests DEF Same, Names
<1>. QED BY <1>1, <1>3, LockBitStep, Numbers DEF Shape, Plain, Otp, Sure, Slip, Known, Setup, Probing,
            Remembered, Same, Names, Goto, Return, Cleanup, Fails, result, AfterLeaving

LEMMA FirstKnown ==
    ASSUME DeviceOK, Control, Sure, Known, Sure', otp_write_enable
    PROVE  Known'
<1>1. LocalOK /\ Shape /\ Calm /\ Acked'
    BY DEF Control, Sure
<1>. QED BY <1>1, FirstStep, Numbers DEF Shape, Plain, Otp, Sure, Slip, SameMode, Known, Setup, Probing,
            Remembered, Same, Names, Goto, Return, Cleanup, Fails, result, AfterLeaving

LEMMA WrenKnown ==
    ASSUME DeviceOK, Control, Sure, Known, Sure', WriteEnable
    PROVE  Known'
<1>1. LocalOK /\ Shape /\ Calm /\ Acked'
    BY DEF Control, Sure
<1>. QED BY <1>1, WrenStep, Numbers DEF Shape, Plain, Otp, Sure, Slip, SameMode, Known, Setup, Probing,
            Remembered, Same, Names, Goto, Return, Cleanup, Fails, result, AfterLeaving

LEMMA LoadKnown ==
    ASSUME DeviceOK, Control, Sure, Known, Sure', program_load
    PROVE  Known'
<1>1. LocalOK /\ Shape /\ Calm /\ Acked'
    BY DEF Control, Sure
<1>. QED BY <1>1, LoadStep, Numbers DEF Shape, Plain, Otp, Sure, Slip, SameMode, Known, Setup, Probing,
            Remembered, Same, Names, Goto, Return, Cleanup, Fails, result, AfterLeaving

LEMMA SendKnown ==
    ASSUME DeviceOK, Control, Sure, Known, Sure', page_op
    PROVE  Known'
<1>1. LocalOK /\ Shape /\ Calm /\ Acked'
    BY DEF Control, Sure
<1>. QED BY <1>1, SendStep, Numbers DEF Shape, Plain, Otp, Sure, Slip, SameMode, Known, Setup, Probing,
            Remembered, Same, Names, Goto, Return, Cleanup, Fails, result, AfterLeaving

LEMMA DisableKnown ==
    ASSUME DeviceOK, Control, Sure, Known, Sure', write_disable
    PROVE  Known'
<1>1. LocalOK /\ Shape /\ Calm /\ Acked'
    BY DEF Control, Sure
<1>. QED BY <1>1, DisableStep, Numbers DEF Shape, Plain, Otp, Sure, Slip, SameMode, Known, Setup, Probing,
            Remembered, Same, Names, Goto, Return, Cleanup, Fails, result, AfterLeaving

LEMMA WaitKnown ==
    ASSUME DeviceOK, Control, Sure, Known, Sure', wait_busy
    PROVE  Known'
<1>1. LocalOK /\ Shape /\ Calm /\ Acked'
    BY DEF Control, Sure
<1>. QED BY <1>1, ReadingStep, WaitStep, Numbers DEF Shape, Plain, Otp, Sure, Slip, SameMode, Known, Setup,
            Probing, Remembered, Same, Names, Goto, Return, Cleanup, Fails, result, AfterLeaving

LEMMA CheckKnown ==
    ASSUME DeviceOK, Control, Sure, Known, Sure', check_ecc
    PROVE  Known'
<1>1. LocalOK /\ Shape /\ Calm /\ Acked'
    BY DEF Control, Sure
<1>. QED BY <1>1, ReadingStep, CheckStep, Numbers DEF Shape, Plain, Otp, Sure, Slip, SameMode, Known, Setup,
            Probing, Remembered, Same, Names, Goto, Return, Cleanup, Fails, result, AfterLeaving

LEMMA FetchKnown ==
    ASSUME DeviceOK, Control, Sure, Known, Sure', read_cache
    PROVE  Known'
<1>1. LocalOK /\ Shape /\ Calm /\ Acked'
    BY DEF Control, Sure
<1>. QED BY <1>1, ReadingStep, FetchStep, Numbers DEF Shape, Plain, Otp, Sure, Slip, SameMode, Known, Setup,
            Probing, Remembered, Same, Names, Goto, Return, Cleanup, Fails, result, AfterLeaving

LEMMA LockedKnown ==
    ASSUME DeviceOK, Control, Sure, Known, Sure', read_lock_bit
    PROVE  Known'
<1>1. LocalOK /\ Shape /\ Calm /\ Acked'
    BY DEF Control, Sure
<1>. QED BY <1>1, ReadingStep, LockedStep, Numbers DEF Shape, Plain, Otp, Sure, Slip, SameMode, Known, Setup,
            Probing, Remembered, Same, Names, Goto, Return, Cleanup, Fails, result, AfterLeaving

LEMMA LeaveKnown ==
    ASSUME DeviceOK, Control, Sure, Known, Sure', leave_otp
    PROVE  Known'
<1>1. LocalOK /\ Shape /\ Calm /\ Acked'
    BY DEF Control, Sure
<1>2. pc # "wait"
    BY LeaveStep, <1>1
<1>3. /\ chip'.die = chip.die /\ UNCHANGED curr_die
      /\ cfg[curr_die] = chip.reg[chip.die] => cfg'[curr_die] = chip'.reg[chip.die]
      /\ curr_die = chip.die => \A e \in Dies : cfg[e] = chip.reg[e] => cfg'[e] = chip'.reg[e]
    BY <1>1, <1>2, LeaveStep, WrittenKnown, Rests DEF Same, Names
<1>. QED BY <1>1, <1>3, LeaveStep, Numbers DEF Shape, Plain, Otp, Sure, Slip, Known, Setup, Probing,
            Remembered, Same, Names, Goto, Return, Cleanup, Fails, result, AfterLeaving

LEMMA PlainKnown ==
    ASSUME DeviceOK, Control, Sure, Known, Sure', leave_for_locked
    PROVE  Known'
<1>1. LocalOK /\ Shape /\ Calm /\ Acked'
    BY DEF Control, Sure
<1>2. pc # "wait"
    BY PlainStep, <1>1
<1>3. /\ chip'.die = chip.die /\ UNCHANGED curr_die
      /\ cfg[curr_die] = chip.reg[chip.die] => cfg'[curr_die] = chip'.reg[chip.die]
      /\ curr_die = chip.die => \A e \in Dies : cfg[e] = chip.reg[e] => cfg'[e] = chip'.reg[e]
    BY <1>1, <1>2, PlainStep, WrittenKnown, Rests DEF Same, Names
<1>. QED BY <1>1, <1>3, PlainStep, Numbers DEF Shape, Plain, Otp, Sure, Slip, Known, Setup, Probing,
            Remembered, Same, Names, Goto, Return, Cleanup, Fails, result, AfterLeaving

LEMMA CallKnown ==
    ASSUME DeviceOK, Control, Sure, Known, Sure', Call
    PROVE  Known'
<1>1. LocalOK
    BY DEF Control
<1>2. PICK op \in Plain \cup Otp, page \in Pages, ecc \in BOOLEAN : Calls(op, page, ecc, Label(op))
    BY <1>1, CallStep
<1>3. UNCHANGED <<chip, cfg, curr_die, die>> /\ pc = "idle" /\ call'.op = op /\ pc' = Label(op)
    BY <1>2 DEF Calls, device
<1>4. op # "probe" /\ pc' \notin Setup
    BY <1>3 DEF Plain, Otp, Label, Setup
<1>. QED BY <1>3, <1>4 DEF Known, Remembered

LEMMA ChipKnown ==
    ASSUME DeviceOK, Sure, Known, Sure', Chip
    PROVE  Known'
<1>1. SameMode /\ UNCHANGED <<cfg, curr_die, ecc_enabled, pc, call, ret, buf, die, slipped>>
    BY Finishing
<1>. QED BY <1>1 DEF SameMode, Known, Remembered

LEMMA StaysKnown ==
    ASSUME DeviceOK, Control, Sure => Known, Next
    PROVE  Sure' => Known'
<1>. SUFFICES ASSUME Sure' PROVE Known'
    OBVIOUS
<1>1. Grows
    BY Controlled
<1>2. Sure /\ Known
    BY <1>1 DEF Grows, Counted, Sure
<1>. QED
    BY <1>2, CallKnown, ChipKnown, ResetKnown, ProbeKnown, SetupKnown, RefreshKnown, UnlockKnown, DieKnown,
       SelectKnown, EccKnown, EnterKnown, LockBitKnown, FirstKnown, WrenKnown, LoadKnown, SendKnown,
       WaitKnown, CheckKnown, FetchKnown, LeaveKnown, DisableKnown, PlainKnown, LockedKnown
       DEF Next, Driver

-----------------------------------------------------------------------------
(* Where the commands of a page go *)

Firm == DeviceOK /\ Control /\ Clear /\ Known /\ Aimed /\ Done

LEMMA FirmParts ==
    ASSUME Firm
    PROVE  /\ DeviceOK /\ LocalOK /\ Shape /\ Calm /\ Sure /\ Known /\ Aimed /\ Done /\ slipped = {} /\ Acked
           /\ pc # "wait" => Idle
           /\ chip.die \in Dies /\ chip.reg \in [Dies -> Register] /\ curr_die \in Dies
BY DEF Firm, Control, Clear, Sure, Calm, DeviceOK, LocalOK, ChipStates

\* A register that is written ends as the driver remembers it.
LEMMA WrittenMode ==
    ASSUME Firm, Clear', Known', NEW bits, Written(bits), UNCHANGED curr_die, pc # "wait"
    PROVE  /\ chip'.die = chip.die /\ Apart /\ SameWork /\ SameData
           /\ \A d \in Dies : d # chip.die => chip'.reg[d] = chip.reg[d]
           /\ chip'.reg = chip.reg \/ (chip'.reg[chip.die] = bits /\ cfg'[curr_die] = bits)
           /\ cfg[curr_die] = chip.reg[chip.die] => cfg'[curr_die] = chip'.reg[chip.die]
<1>1. /\ DeviceOK /\ LocalOK /\ Acked' /\ Idle /\ Idle
    BY FirmParts DEF Clear
<1>. QED BY <1>1, WrittenKnown DEF Written

LEMMA CurrentKnown ==
    ASSUME Firm, pc \in {"off", "ecc", "enter", "bit", "leave", "plain"}
    PROVE  cfg[curr_die] = chip.reg[chip.die]
<1>1. /\ Shape /\ Known /\ curr_die \in Dies
      /\ \A e \in Dies : e \in Nat
    BY FirmParts, Numbers
<1>2. CASE pc = "off"
    BY <1>1, <1>2 DEF Known, Remembered, Setup
<1>3. CASE pc # "off" /\ call.op = "probe"
    BY <1>1, <1>3 DEF Known, Shape, Probing, Setup
<1>4. CASE call.op # "probe"
    BY <1>1, <1>4 DEF Known, Remembered
<1>. QED BY <1>2, <1>3, <1>4

LEMMA ResetAimed ==
    ASSUME Firm, Clear', Known', chip_reset
    PROVE  Aimed'
<1>. QED BY FirmParts, ResetStep DEF Aimed, InSession, Session, Shape, Plain, Otp, Probing, Setup, Slip,
            Clear, SameMode, Same, Names, Goto, Return, Cleanup, Fails, result, AfterLeaving

LEMMA ProbeAimed ==
    ASSUME Firm, Clear', Known', probe_onfi
    PROVE  Aimed'
<1>. QED BY FirmParts, ProbeStep DEF Aimed, InSession, Session, Shape, Plain, Otp, Probing, Setup, Slip,
            Clear, SameMode, Same, Names, Goto, Return, Cleanup, Fails, result, AfterLeaving

LEMMA SetupAimed ==
    ASSUME Firm, Clear', Known', chip_setup
    PROVE  Aimed'
<1>. QED BY FirmParts, SetupStep DEF Aimed, InSession, Session, Shape, Plain, Otp, Probing, Setup, Slip,
            Clear, SameMode, Same, Names, Goto, Return, Cleanup, Fails, result, AfterLeaving

LEMMA RefreshAimed ==
    ASSUME Firm, Clear', Known', refresh_config
    PROVE  Aimed'
<1>. QED BY FirmParts, RefreshStep DEF Aimed, InSession, Session, Shape, Plain, Otp, Probing, Setup, Slip,
            Clear, SameMode, Same, Names, Goto, Return, Cleanup, Fails, result, AfterLeaving

LEMMA UnlockAimed ==
    ASSUME Firm, Clear', Known', unlock
    PROVE  Aimed'
<1>. QED BY FirmParts, UnlockStep DEF Aimed, InSession, Session, Shape, Plain, Otp, Probing, Setup, Slip,
            Clear, SameMode, Same, Names, Goto, Return, Cleanup, Fails, result, AfterLeaving

LEMMA DieAimed ==
    ASSUME Firm, Clear', Known', chip_die_setup
    PROVE  Aimed'
<1>1. pc # "wait" /\ UNCHANGED curr_die
    BY FirmParts, DieStep DEF Same, Names
<1>2. cfg[curr_die] = chip.reg[chip.die]
    BY DieStep, FirmParts, CurrentKnown
<1>3. /\ chip'.die = chip.die
      /\ \A d \in Dies : d # chip.die => chip'.reg[d] = chip.reg[d]
      /\ chip'.reg = chip.reg \/ (chip'.reg[chip.die] = [cfg[curr_die] EXCEPT !.ecc = FALSE] /\ cfg'[curr_die] = [cfg[curr_die] EXCEPT !.ecc = FALSE])
      /\ cfg'[curr_die] = chip'.reg[chip.die]
    BY <1>1, <1>2, FirmParts, DieStep, WrittenMode
<1>4. [cfg[curr_die] EXCEPT !.ecc = FALSE].otp = chip.reg[chip.die].otp
    BY <1>2, FirmParts DEF Register
<1>. QED BY <1>3, <1>4, FirmParts, DieStep DEF Aimed, InSession, Session, Shape, Plain, Otp, Probing, Setup,
            Slip, Clear, SameMode, Same, Names, Goto, Return, Cleanup, Fails, result, AfterLeaving

LEMMA SelectAimed ==
    ASSUME Firm, Clear', Known', select_die_page
    PROVE  Aimed'
<1>. QED BY FirmParts, SelectStep DEF Known, Aimed, InSession, Session, Shape, Plain, Otp, Probing, Setup,
            Slip, Clear, SameMode, Same, Names, Goto, Return, Cleanup, Fails, result, AfterLeaving

LEMMA EccAimed ==
    ASSUME Firm, Clear', Known', ondie_ecc_control
    PROVE  Aimed'
<1>1. pc # "wait" /\ UNCHANGED curr_die
    BY FirmParts, EccStep DEF Same, Names
<1>2. cfg[curr_die] = chip.reg[chip.die]
    BY EccStep, FirmParts, CurrentKnown
<1>3. /\ chip'.die = chip.die
      /\ \A d \in Dies : d # chip.die => chip'.reg[d] = chip.reg[d]
      /\ chip'.reg = chip.reg \/ (chip'.reg[chip.die] = [cfg[curr_die] EXCEPT !.ecc = (call.op # "uid" /\ ecc_enabled)] /\ cfg'[curr_die] = [cfg[curr_die] EXCEPT !.ecc = (call.op # "uid" /\ ecc_enabled)])
      /\ cfg'[curr_die] = chip'.reg[chip.die]
    BY <1>1, <1>2, FirmParts, EccStep, WrittenMode
<1>4. [cfg[curr_die] EXCEPT !.ecc = (call.op # "uid" /\ ecc_enabled)].otp = chip.reg[chip.die].otp
    BY <1>2, FirmParts DEF Register
<1>5. chip'.reg[chip.die].otp = chip.reg[chip.die].otp
    BY <1>3, <1>4
<1>6. pc = "ecc" /\ call' = call /\ ecc_enabled' = ecc_enabled /\ call.op \in {"read", "write", "uid"}
    BY FirmParts, EccStep DEF Same, Shape, Plain, Otp, Probing
<1>7. \A d \in Dies : ~chip.reg[d].otp
    BY <1>6, FirmParts DEF Aimed, InSession, Session
<1>8. \A d \in Dies : ~chip'.reg[d].otp
    BY <1>3, <1>5, <1>7
<1>9. pc' \in {"send", "wren", "enter", "idle"} /\ (pc' \in {"send", "wren"} => call.op \in {"read", "write"})
    BY <1>6, FirmParts, EccStep DEF Goto, Return
<1>10. call.op \in {"read", "write"} /\ pc' \in {"send", "wren"} => chip'.reg[chip.die].ecc = ecc_enabled
  <2>1. ecc_enabled \in BOOLEAN
      BY FirmParts DEF LocalOK
  <2>2. pc' # "idle" => cfg'[curr_die].ecc = (call.op # "uid" /\ ecc_enabled)
      BY FirmParts, EccStep DEF Goto, Return
  <2>3. call.op \in {"read", "write"} => (call.op # "uid" /\ ecc_enabled) = ecc_enabled
      BY <2>1
  <2>. QED BY <1>3, <2>2, <2>3
<1>11. call.op \in Plain => chip.die = DieOf(call.page)
    BY <1>6, FirmParts DEF Aimed
<1>. QED BY <1>3, <1>6, <1>8, <1>9, <1>10, <1>11 DEF Aimed, Session, Plain, Otp

LEMMA EnterAimed ==
    ASSUME Firm, Clear', Known', enter_otp
    PROVE  Aimed'
<1>1. pc # "wait" /\ UNCHANGED curr_die
    BY FirmParts, EnterStep DEF Same, Names
<1>2. cfg[curr_die] = chip.reg[chip.die]
    BY EnterStep, FirmParts, CurrentKnown
<1>3. /\ chip'.die = chip.die
      /\ \A d \in Dies : d # chip.die => chip'.reg[d] = chip.reg[d]
      /\ chip'.reg = chip.reg \/ (chip'.reg[chip.die] = [cfg[curr_die] EXCEPT !.otp = TRUE] /\ cfg'[curr_die] = [cfg[curr_die] EXCEPT !.otp = TRUE])
      /\ cfg'[curr_die] = chip'.reg[chip.die]
    BY <1>1, <1>2, FirmParts, EnterStep, WrittenMode
<1>4. [cfg[curr_die] EXCEPT !.otp = TRUE].ecc = chip.reg[chip.die].ecc
    BY <1>2, FirmParts DEF Register
<1>. QED BY <1>3, <1>4, FirmParts, EnterStep DEF Aimed, InSession, Session, Shape, Plain, Otp, Probing,
            Setup, Slip, Clear, SameMode, Same, Names, Goto, Return, Cleanup, Fails, result, AfterLeaving

LEMMA LockBitAimed ==
    ASSUME Firm, Clear', Known', set_lock_bit
    PROVE  Aimed'
<1>1. pc # "wait" /\ UNCHANGED curr_die
    BY FirmParts, LockBitStep DEF Same, Names
<1>2. cfg[curr_die] = chip.reg[chip.die]
    BY LockBitStep, FirmParts, CurrentKnown
<1>3. /\ chip'.die = chip.die
      /\ \A d \in Dies : d # chip.die => chip'.reg[d] = chip.reg[d]
      /\ chip'.reg = chip.reg \/ (chip'.reg[chip.die] = [cfg[curr_die] EXCEPT !.lock = TRUE] /\ cfg'[curr_die] = [cfg[curr_die] EXCEPT !.lock = TRUE])
      /\ cfg'[curr_die] = chip'.reg[chip.die]
    BY <1>1, <1>2, FirmParts, LockBitStep, WrittenMode
<1>4. [cfg[curr_die] EXCEPT !.lock = TRUE].otp = chip.reg[chip.die].otp
    BY <1>2, FirmParts DEF Register
<1>. QED BY <1>3, <1>4, FirmParts, LockBitStep DEF Aimed, InSession, Session, Shape, Plain, Otp, Probing,
            Setup, Slip, Clear, SameMode, Same, Names, Goto, Return, Cleanup, Fails, result, AfterLeaving

LEMMA FirstAimed ==
    ASSUME Firm, Clear', Known', otp_write_enable
    PROVE  Aimed'
<1>. QED BY FirmParts, FirstStep DEF Aimed, InSession, Session, Shape, Plain, Otp, Probing, Setup, Slip,
            Clear, SameMode, Same, Names, Goto, Return, Cleanup, Fails, result, AfterLeaving

LEMMA WrenAimed ==
    ASSUME Firm, Clear', Known', WriteEnable
    PROVE  Aimed'
<1>. QED BY FirmParts, WrenStep DEF Aimed, InSession, Session, Shape, Plain, Otp, Probing, Setup, Slip,
            Clear, SameMode, Same, Names, Goto, Return, Cleanup, Fails, result, AfterLeaving

LEMMA LoadAimed ==
    ASSUME Firm, Clear', Known', program_load
    PROVE  Aimed'
<1>. QED BY FirmParts, LoadStep DEF Aimed, InSession, Session, Shape, Plain, Otp, Probing, Setup, Slip,
            Clear, SameMode, Same, Names, Goto, Return, Cleanup, Fails, result, AfterLeaving

LEMMA SendAimed ==
    ASSUME Firm, Clear', Known', page_op
    PROVE  Aimed'
<1>. QED BY FirmParts, SendStep DEF Aimed, InSession, Session, Shape, Plain, Otp, Probing, Setup, Slip,
            Clear, SameMode, Same, Names, Goto, Return, Cleanup, Fails, result, AfterLeaving

LEMMA DisableAimed ==
    ASSUME Firm, Clear', Known', write_disable
    PROVE  Aimed'
<1>. QED BY FirmParts, DisableStep DEF Aimed, InSession, Session, Shape, Plain, Otp, Probing, Setup, Slip,
            Clear, SameMode, Same, Names, Goto, Return, Cleanup, Fails, result, AfterLeaving

LEMMA WaitAimed ==
    ASSUME Firm, Clear', Known', wait_busy
    PROVE  Aimed'
<1>. QED BY FirmParts, ReadingStep, WaitStep DEF Aimed, InSession, Session, Shape, Plain, Otp, Probing,
            Setup, Slip, Clear, SameMode, Same, Names, Goto, Return, Cleanup, Fails, result, AfterLeaving

LEMMA CheckAimed ==
    ASSUME Firm, Clear', Known', check_ecc
    PROVE  Aimed'
<1>. QED BY FirmParts, ReadingStep, CheckStep DEF Aimed, InSession, Session, Shape, Plain, Otp, Probing,
            Setup, Slip, Clear, SameMode, Same, Names, Goto, Return, Cleanup, Fails, result, AfterLeaving

LEMMA FetchAimed ==
    ASSUME Firm, Clear', Known', read_cache
    PROVE  Aimed'
<1>. QED BY FirmParts, ReadingStep, FetchStep DEF Aimed, InSession, Session, Shape, Plain, Otp, Probing,
            Setup, Slip, Clear, SameMode, Same, Names, Goto, Return, Cleanup, Fails, result, AfterLeaving

LEMMA LockedAimed ==
    ASSUME Firm, Clear', Known', read_lock_bit
    PROVE  Aimed'
<1>. QED BY FirmParts, ReadingStep, LockedStep DEF Aimed, InSession, Session, Shape, Plain, Otp, Probing,
            Setup, Slip, Clear, SameMode, Same, Names, Goto, Return, Cleanup, Fails, result, AfterLeaving

LEMMA LeaveAimed ==
    ASSUME Firm, Clear', Known', leave_otp
    PROVE  Aimed'
<1>1. pc # "wait" /\ UNCHANGED curr_die
    BY FirmParts, LeaveStep DEF Same, Names
<1>2. cfg[curr_die] = chip.reg[chip.die]
    BY LeaveStep, FirmParts, CurrentKnown
<1>3. /\ chip'.die = chip.die
      /\ \A d \in Dies : d # chip.die => chip'.reg[d] = chip.reg[d]
      /\ chip'.reg = chip.reg \/ (chip'.reg[chip.die] = [cfg[curr_die] EXCEPT !.otp = FALSE] /\ cfg'[curr_die] = [cfg[curr_die] EXCEPT !.otp = FALSE])
      /\ cfg'[curr_die] = chip'.reg[chip.die]
    BY <1>1, <1>2, FirmParts, LeaveStep, WrittenMode
<1>4. [cfg[curr_die] EXCEPT !.otp = FALSE].ecc = chip.reg[chip.die].ecc
    BY <1>2, FirmParts DEF Register
<1>. QED BY <1>3, <1>4, FirmParts, LeaveStep DEF Aimed, InSession, Session, Shape, Plain, Otp, Probing,
            Setup, Slip, Clear, SameMode, Same, Names, Goto, Return, Cleanup, Fails, result, AfterLeaving

LEMMA PlainAimed ==
    ASSUME Firm, Clear', Known', leave_for_locked
    PROVE  Aimed'
<1>1. pc # "wait" /\ UNCHANGED curr_die
    BY FirmParts, PlainStep DEF Same, Names
<1>2. cfg[curr_die] = chip.reg[chip.die]
    BY PlainStep, FirmParts, CurrentKnown
<1>3. /\ chip'.die = chip.die
      /\ \A d \in Dies : d # chip.die => chip'.reg[d] = chip.reg[d]
      /\ chip'.reg = chip.reg \/ (chip'.reg[chip.die] = [cfg[curr_die] EXCEPT !.otp = FALSE] /\ cfg'[curr_die] = [cfg[curr_die] EXCEPT !.otp = FALSE])
      /\ cfg'[curr_die] = chip'.reg[chip.die]
    BY <1>1, <1>2, FirmParts, PlainStep, WrittenMode
<1>4. [cfg[curr_die] EXCEPT !.otp = FALSE].ecc = chip.reg[chip.die].ecc
    BY <1>2, FirmParts DEF Register
<1>. QED BY <1>3, <1>4, FirmParts, PlainStep DEF Aimed, InSession, Session, Shape, Plain, Otp, Probing,
            Setup, Slip, Clear, SameMode, Same, Names, Goto, Return, Cleanup, Fails, result, AfterLeaving

LEMMA CallAimed ==
    ASSUME Firm, Clear', Known', Call
    PROVE  Aimed'
<1>1. PICK op \in Plain \cup Otp, page \in Pages, ecc \in BOOLEAN : Calls(op, page, ecc, Label(op))
    BY FirmParts, CallStep
<1>2. UNCHANGED <<chip, cfg, curr_die, die>> /\ pc = "idle" /\ call'.op = op /\ pc' = Label(op)
    BY <1>1 DEF Calls, device
<1>3. pc' \in {"select", "enter", "plain", "ecc"} /\ (pc' = "ecc" => op = "uid")
    BY <1>1, <1>2 DEF Label, Plain, Otp
<1>4. ~InSession
    BY <1>2 DEF InSession, Session
<1>. QED BY <1>2, <1>3, <1>4, FirmParts DEF Aimed, Session, Plain

LEMMA ChipAimed ==
    ASSUME Firm, Clear', Known', Chip
    PROVE  Aimed'
<1>1. SameMode /\ UNCHANGED <<cfg, curr_die, ecc_enabled, pc, call, ret, buf, die, slipped>>
    BY FirmParts, Finishing
<1>. QED BY <1>1, FirmParts DEF SameMode, Aimed, InSession

LEMMA StaysAimed ==
    ASSUME Firm, Clear', Known', Next
    PROVE  Aimed'
BY CallAimed, ChipAimed, ResetAimed, ProbeAimed, SetupAimed, RefreshAimed, UnlockAimed, DieAimed,
   SelectAimed, EccAimed, EnterAimed, LockBitAimed, FirstAimed, WrenAimed, LoadAimed, SendAimed,
   WaitAimed, CheckAimed, FetchAimed, LeaveAimed, DisableAimed, PlainAimed, LockedAimed
   DEF Next, Driver

-----------------------------------------------------------------------------
(* What a call has done *)

\* Only the calls of pages count.
LEMMA OtherDone ==
    ASSUME call'.op \notin Plain
    PROVE  Done'
BY DEF Done, Plain, Reads

LEMMA NotPlain ==
    ASSUME Shape, pc \in {"reset", "config", "setup", "refresh", "unlock", "off", "enter", "bit", "first", "leave", "plain", "locked"}
    PROVE  call.op \notin Plain
BY DEF Shape, Plain, Probing, Otp

LEMMA SelectDone ==
    ASSUME Firm, Clear', Known', select_die_page
    PROVE  Done'
<1>. QED BY FirmParts, SelectStep DEF Done, Reads, Shape, Plain, Otp, Probing, SameData, SameWork, SameMode,
            Operation, Idle, Same, Names, Goto, Return, Cleanup, Fails, result, Kept, Apart

LEMMA EccDone ==
    ASSUME Firm, Clear', Known', ondie_ecc_control
    PROVE  Done'
<1>. QED BY FirmParts, EccStep DEF Done, Reads, Shape, Plain, Otp, Probing, SameData, SameWork, SameMode,
            Operation, Idle, Same, Names, Goto, Return, Cleanup, Fails, result, Kept, Apart

LEMMA WrenDone ==
    ASSUME Firm, Clear', Known', WriteEnable
    PROVE  Done'
<1>. QED BY FirmParts, WrenStep DEF Done, Reads, Shape, Plain, Otp, Probing, SameData, SameWork, SameMode,
            Operation, Idle, Same, Names, Goto, Return, Cleanup, Fails, result, Kept, Apart

LEMMA LoadDone ==
    ASSUME Firm, Clear', Known', program_load
    PROVE  Done'
<1>. QED BY FirmParts, LoadStep DEF Done, Reads, Shape, Plain, Otp, Probing, SameData, SameWork, SameMode,
            Operation, Idle, Same, Names, Goto, Return, Cleanup, Fails, result, Kept, Apart

LEMMA SendDone ==
    ASSUME Firm, Clear', Known', page_op
    PROVE  Done'
<1>1. /\ pc = "send" /\ UNCHANGED <<call, ecc_enabled, content>> /\ Idle /\ chip \in ChipStates /\ Acked'
      /\ (Goto("wait") /\ chip' = Asked) \/ (Fails /\ chip' = chip)
    BY FirmParts, SendStep DEF Kept, Apart, Same, Clear, DeviceOK
<1>2. CASE Fails /\ chip' = chip
    BY <1>1, <1>2, FirmParts DEF Done, Shape, Plain, Otp, Fails, Return, Cleanup
<1>3. CASE call.op \notin Plain
    BY <1>1, <1>3, OtherDone
<1>4. CASE Goto("wait") /\ chip' = Asked /\ call.op \in Plain
  <2>1. call.op \in {"write", "erase"} => chip.wel
      BY <1>1, FirmParts DEF Done
  <2>2. Operation' = Operation /\ (call.op = "read" => Operation = "read")
      BY <1>1 DEF Operation
  <2>3. chip' = [chip EXCEPT !.op = Operation, !.page = call.page % PagesPerDie, !.fail = FALSE]
      BY <1>4, <2>1, <2>2 DEF Asked, Plain
  <2>4. chip'.op = Operation' /\ chip'.page = call'.page % PagesPerDie /\ chip'.cache = chip.cache
      BY <1>1, <2>2, <2>3 DEF ChipStates
  <2>5. call.op = "write" => chip.cache = "data"
      BY <1>1, FirmParts DEF Done
  <2>6. pc' = "wait" /\ ret' = ret /\ (call.op \in Plain => ret = "none")
      BY <1>1, <1>4, FirmParts DEF Goto, result, Done
  <2>. QED BY <1>1, <2>4, <2>5, <2>6 DEF Done, Plain
<1>. QED BY <1>1, <1>2, <1>3, <1>4

LEMMA WaitDone ==
    ASSUME Firm, Clear', Known', wait_busy
    PROVE  Done'
<1>. QED BY FirmParts, ReadingStep, WaitStep DEF Done, Reads, Shape, Plain, Otp, Probing, SameData, SameWork,
            SameMode, Operation, Idle, Same, Names, Goto, Return, Cleanup, Fails, result, Kept, Apart

LEMMA CheckDone ==
    ASSUME Firm, Clear', Known', check_ecc
    PROVE  Done'
<1>1. pc = "check" /\ UNCHANGED <<call, ecc_enabled, content, chip>>
    BY FirmParts, ReadingStep, CheckStep DEF Kept, Apart, Names
<1>2. CASE call.op \notin Plain
    BY <1>1, <1>2, OtherDone
<1>3. CASE Fails
    BY <1>1, <1>3, FirmParts DEF Done, Shape, Plain, Otp, Fails, Return, Cleanup
<1>4. CASE call.op \in Plain /\ Cleanup("fetch", IF mode.ecc /\ chip.cache = "torn" THEN "uncorrectable" ELSE "ok")
  <2>1. call.op = "read" /\ chip.cache = content[call.page]
      BY <1>1, <1>4, FirmParts DEF Done, Reads, Shape, Plain, Otp
  <2>2. mode.ecc = ecc_enabled
      BY <1>1, <2>1, FirmParts DEF Aimed, mode
  <2>3. pc' = "fetch" /\ ret' # "none" /\ (ecc_enabled /\ ret' = "ok" => chip.cache # "torn")
      BY <1>4, <2>2 DEF Cleanup
  <2>4. Reads'
      BY <1>1, <2>1 DEF Reads
  <2>. QED BY <1>1, <2>1, <2>3, <2>4 DEF Done
<1>. QED BY <1>2, <1>3, <1>4, FirmParts, CheckStep

LEMMA FetchDone ==
    ASSUME Firm, Clear', Known', read_cache
    PROVE  Done'
<1>. QED BY FirmParts, ReadingStep, FetchStep DEF Done, Reads, Shape, Plain, Otp, Probing, SameData,
            SameWork, SameMode, Operation, Idle, Same, Names, Goto, Return, Cleanup, Fails, result, Kept,
            Apart

LEMMA DisableDone ==
    ASSUME Firm, Clear', Known', write_disable
    PROVE  Done'
<1>. QED BY FirmParts, DisableStep DEF Done, Reads, Shape, Plain, Otp, Probing, SameData, SameWork, SameMode,
            Operation, Idle, Same, Names, Goto, Return, Cleanup, Fails, result, Kept, Apart

LEMMA RestDone ==
    ASSUME Firm,
           \/ chip_reset \/ probe_onfi \/ chip_setup \/ refresh_config \/ unlock \/ chip_die_setup
           \/ enter_otp \/ set_lock_bit \/ otp_write_enable \/ leave_otp \/ leave_for_locked \/ read_lock_bit
    PROVE  Done'
<1>1. pc \in {"reset", "config", "setup", "refresh", "unlock", "off", "enter", "bit", "first", "leave", "plain", "locked"}
    BY DEF chip_reset, probe_onfi, chip_setup, refresh_config, unlock, chip_die_setup, enter_otp,
       set_lock_bit,
           otp_write_enable, leave_otp, leave_for_locked, read_lock_bit
<1>2. UNCHANGED call
    BY DEF chip_reset, probe_onfi, chip_setup, refresh_config, unlock, chip_die_setup, enter_otp,
       set_lock_bit,
           otp_write_enable, leave_otp, leave_for_locked, read_lock_bit, Same
<1>. QED BY <1>1, <1>2, FirmParts, NotPlain, OtherDone

LEMMA CallDone ==
    ASSUME Firm, Call
    PROVE  Done'
<1>1. PICK op \in Plain \cup Otp, page \in Pages, ecc \in BOOLEAN : Calls(op, page, ecc, Label(op))
    BY FirmParts, CallStep
<1>2. call'.op = op /\ pc' = Label(op) /\ ret' = "none"
    BY <1>1 DEF Calls
<1>. QED BY <1>1, <1>2, OtherDone DEF Done, Label, Plain, Otp

LEMMA ChipDone ==
    ASSUME Firm, Clear', Known', Chip
    PROVE  Done'
<1>1. /\ SameMode /\ chip'.op = "none" /\ chip.op # "none"
      /\ UNCHANGED <<cfg, curr_die, ecc_enabled, pc, call, ret, buf, die, slipped>>
    BY FirmParts, Finishing
<1>2. CASE call.op \notin Plain
    BY <1>1, <1>2, OtherDone
<1>3. CASE call.op \in Plain
  <2>1. pc = "wait"
      BY <1>1, FirmParts DEF Idle
  <2>2. chip.op = Operation /\ chip.page = call.page % PagesPerDie /\ (call.op = "write" => chip.cache = "data") /\ ret = "none"
      BY <1>1, <1>3, <2>1, FirmParts DEF Done, Idle
  <2>3. ~mode.otp /\ chip.die = DieOf(call.page)
      BY <1>3, <2>1, FirmParts DEF Aimed, InSession, Plain, Otp, mode
  <2>4. row = call.page /\ call.page \in Pages
      BY <2>2, <2>3, FirmParts, PagePlace DEF row, LocalOK
  <2>5. chip \in ChipStates /\ content \in [Pages -> Contents]
      BY FirmParts DEF DeviceOK
  <2>6. CASE call.op = "read"
    <3>1. chip.op = "read"
        BY <2>2, <2>6 DEF Operation
    <3>2. chip' = [chip EXCEPT !.op = "none", !.cache = content[call.page]] /\ UNCHANGED content
        BY <2>3, <2>4, <3>1 DEF Chip
    <3>3. chip'.cache = content[call.page]
        BY <2>5, <3>2 DEF ChipStates
    <3>. QED BY <1>1, <2>1, <2>2, <2>6, <3>2, <3>3 DEF Done, Reads, Idle, Plain
  <2>7. CASE call.op = "write"
    <3>1. chip.op = "program"
        BY <2>2, <2>7 DEF Operation
    <3>2. \/ Finished(TRUE)
          \/ Finished(FALSE) /\ content' = [content EXCEPT ![call.page] = Programmed(content[call.page])]
        BY <2>3, <2>4, <3>1 DEF Chip, Works
    <3>3. Programmed(content[call.page]) # "blank"
        BY <2>2, <2>7 DEF Programmed
    <3>4. chip'.fail \/ content'[call.page] # "blank"
        BY <2>4, <2>5, <3>2, <3>3 DEF Finished, ChipStates
    <3>5. chip'.cache = chip.cache
        BY <2>5, <3>2 DEF Finished, ChipStates
    <3>. QED BY <1>1, <2>1, <2>2, <2>7, <3>4, <3>5 DEF Done, Reads, Idle, Plain
  <2>8. CASE call.op = "erase"
    <3>1. chip.op = "erase"
        BY <2>2, <2>8 DEF Operation
    <3>2. \/ Finished(TRUE)
          \/ Finished(FALSE) /\ content' = [p \in Pages |-> IF DieOf(p) = chip.die THEN "blank" ELSE content[p]]
        BY <2>3, <3>1 DEF Chip, Works
    <3>3. chip'.fail \/ \A p \in Pages : DieOf(p) = DieOf(call.page) => content'[p] = "blank"
      <4>1. Finished(TRUE) => chip'.fail
          BY <2>5 DEF Finished, ChipStates
      <4>. QED BY <2>3, <3>2, <4>1
    <3>. QED BY <1>1, <2>1, <2>2, <2>8, <3>3 DEF Done, Reads, Idle, Plain
  <2>. QED BY <1>3, <2>6, <2>7, <2>8 DEF Plain
<1>. QED BY <1>2, <1>3

LEMMA StaysDone ==
    ASSUME Firm, Clear', Known', Next
    PROVE  Done'
BY CallDone, ChipDone, RestDone, SelectDone, EccDone, WrenDone, LoadDone, SendDone, WaitDone, CheckDone,
   FetchDone,
   DisableDone
   DEF Next, Driver

-----------------------------------------------------------------------------
LEMMA InitHolds == Init => Inv
<1>. SUFFICES ASSUME Init PROVE Inv
    OBVIOUS
<1>1. TypeOK
  <2>1. PICK d \in Dies, ecc \in BOOLEAN :
            chip = [die |-> d, op |-> "none", page |-> 0, wel |-> FALSE, fail |-> FALSE, cache |-> "blank",
                    reg |-> [e \in Dies |-> [ecc |-> ecc, otp |-> FALSE, lock |-> FALSE]],
                    protected |-> [e \in Dies |-> TRUE]]
      BY DEF Init
  <2>2. chip \in ChipStates
      BY <2>1, Numbers DEF ChipStates, Register
  <2>3. DeviceOK
      BY <2>2, Numbers DEF Init, DeviceOK
  <2>4. LocalOK
      BY Numbers, FirstPage DEF Init, LocalOK
  <2>. QED BY <2>3, <2>4, TypeParts
<1>2. pc = "reset" /\ call.op = "probe" /\ Idle /\ ~ecc_enabled /\ curr_die = 0 /\ die = NDies - 1
      /\ \A d \in Dies : ~chip.reg[d].otp
    BY DEF Init, Idle
<1>3. Shape /\ Calm
    BY <1>2 DEF Shape, Calm, Plain, Otp, Probing
<1>4. Known
    BY <1>2 DEF Known, Setup
<1>5. Aimed /\ Done
    BY <1>2 DEF Aimed, Done, Plain, Otp, Reads
<1>. QED BY <1>1, <1>3, <1>4, <1>5 DEF Inv

LEMMA StepHolds ==
    ASSUME Inv, Next
    PROVE  Inv'
<1>1. DeviceOK /\ Control /\ (Sure => Known) /\ (Clear => Aimed /\ Done)
    BY TypeParts DEF Inv, Control
<1>2. DeviceOK' /\ Control' /\ Grows
    BY <1>1, Controlled
<1>3. TypeOK' /\ Shape' /\ Calm'
    BY <1>2, TypeParts DEF Control, TypeOK, DeviceOK, LocalOK, ChipStates
<1>4. Sure' => Known'
    BY <1>1, StaysKnown
<1>5. Clear' => Aimed' /\ Done'
  <2>. SUFFICES ASSUME Clear' PROVE Aimed' /\ Done'
      OBVIOUS
  <2>1. Clear /\ Sure /\ Sure'
      BY <1>2 DEF Clear, Sure, Grows, Counted
  <2>2. Firm /\ Known'
      BY <1>1, <1>4, <2>1 DEF Firm
  <2>. QED BY <2>2, StaysAimed, StaysDone
<1>. QED BY <1>3, <1>4, <1>5 DEF Inv

LEMMA StutterHolds ==
    ASSUME Inv, UNCHANGED vars
    PROVE  Inv'
<1>1. UNCHANGED <<content, otp, fused, chip, faults, cfg, curr_die, ecc_enabled, pc, call, ret, buf, die, slipped>>
    BY DEF vars
<1>2. TypeOK'
    BY <1>1 DEF Inv, TypeOK
<1>3. Shape' /\ Calm'
    BY <1>1 DEF Inv, Shape, Calm, Acked, Idle
<1>4. (Sure => Known)'
    BY <1>1 DEF Inv, Sure, Acked, Known, Remembered
<1>5. (Clear => Aimed)'
    BY <1>1 DEF Inv, Clear, Acked, Aimed, InSession
<1>6. (Clear => Done)'
    BY <1>1 DEF Inv, Clear, Acked, Done, Reads, Idle, Operation
<1>. QED BY <1>2, <1>3, <1>4, <1>5, <1>6 DEF Inv

(* The inductive invariant: which steps each call makes, and, as long as no  *)
(* error has left a register, a die or the OTP mode behind, what the driver  *)
(* knows of the chip and what the call has done so far.                      *)
THEOREM Invariance == Spec => []Inv
<1>1. Inv /\ [Next]_vars => Inv'
    BY StepHolds, StutterHolds
<1>. QED BY <1>1, InitHolds, PTL DEF Spec

(* Every variable holds a value of its kind. *)
THEOREM TypeCorrect == Spec => []TypeOK
<1>1. Inv => TypeOK
    BY DEF Inv
<1>. QED BY <1>1, Invariance, PTL

(* For any number of dies and any failures: as long as no command that       *)
(* changes a register fails after it has reached the chip, select_die and    *)
(* update_config leave out a command only when it would change nothing.      *)
THEOREM CacheIsTrue == Spec => []CacheIsRegister
<1>1. Inv => CacheIsRegister
  <2>. SUFFICES ASSUME Inv, call.op # "probe", Sure PROVE curr_die = chip.die /\ cfg = chip.reg
      BY DEF CacheIsRegister, Sure, Acked
  <2>1. curr_die = chip.die /\ Remembered(0)
      BY DEF Inv, Known
  <2>2. cfg \in [Dies -> Register] /\ chip.reg \in [Dies -> Register]
      BY DEF Inv, TypeOK
  <2>3. \A e \in Dies : cfg[e] = chip.reg[e]
      BY <2>1, Numbers DEF Remembered
  <2>. QED BY <2>1, <2>2, <2>3
<1>. QED BY <1>1, Invariance, PTL

(* For any number of dies and any failures: a page command goes to the die,  *)
(* the area and the ECC mode the caller asked for.                           *)
THEOREM CommandsAreAimed == Spec => []OnTarget
<1>1. Inv => OnTarget
  <2>. SUFFICES ASSUME Inv, pc = "send", call.op # "probe", Clear
                PROVE  /\ mode.otp = (call.op \notin Plain)
                       /\ call.op \in Plain => chip.die = DieOf(call.page)
                       /\ call.op \in {"read", "write"} => mode.ecc = ecc_enabled
      BY DEF OnTarget, Clear, Acked
  <2>1. Aimed /\ Shape /\ chip.die \in Dies /\ chip.reg \in [Dies -> Register] /\ mode = chip.reg[chip.die]
      BY DEF Inv, TypeOK, mode
  <2>2. call.op \in Plain \/ (call.op \in Otp /\ call.op \notin Plain)
      BY <2>1 DEF Shape, Plain, Otp
  <2>3. call.op \in Plain => ~mode.otp
      BY <2>1 DEF Aimed, InSession, Plain, Otp
  <2>4. call.op \in Otp => mode.otp
      BY <2>1 DEF Aimed, Session
  <2>5. mode.otp \in BOOLEAN
      BY <2>1 DEF Register
  <2>6. mode.otp = (call.op \notin Plain)
      BY <2>2, <2>3, <2>4, <2>5
  <2>. QED BY <2>1, <2>6 DEF Aimed
<1>. QED BY <1>1, Invariance, PTL

(* For any number of dies and any failures: success of a read, a write or an *)
(* erase means that it happened.                                             *)
THEOREM ResultsAreTrue == Spec => []CallsTellTruth
<1>1. Inv => CallsTellTruth
    BY DEF Inv, Clear, Acked, Done, CallsTellTruth, Plain
<1>. QED BY <1>1, Invariance, PTL
=============================================================================
