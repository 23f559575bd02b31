---- MODULE SpiNand ----
(***************************************************************************)
(* src/flash/nand/spi-nand (spi-nand.c, otp.c, ecc.c) below the page calls *)
(* of src/flash/nand/core/nand.c: one process probes a chip of several     *)
(* dies, sets it up and then reads, writes and erases pages and uses the   *)
(* OTP area.  What the driver remembers of the chip, the selected die and  *)
(* the configuration register of each die, decides which commands it sends *)
(* and may be wrong.                                                       *)
(*                                                                         *)
(* The chip is external, modelled from the commands the code sends and the *)
(* bits it tests.  A transfer that fails may have reached the chip         *)
(* ("unacked") or not ("unsent"); an operation may outlast its timeout     *)
(* ("slow") or fail ("failed").  A busy chip ignores every command but the *)
(* selection of a die and the reading of a register.                       *)
(***************************************************************************)
EXTENDS Integers

CONSTANTS
    NDies,          \* memorg.luns_per_cs
    PagesPerDie,    \* one block in each die
    MaxFaults       \* bound on the failures of one process

ASSUME SpiNandAssumption ==
    /\ NDies \in Nat \ {0}
    /\ PagesPerDie \in Nat \ {0}
    /\ MaxFaults \in Nat

Dies == 0 .. NDies - 1
Pages == 0 .. NDies * PagesPerDie - 1
DieOf(page) == page \div PagesPerDie

Contents == {"blank", "data", "torn"}
Kinds == {"unsent", "unacked", "slow", "failed"}
Register == [ecc : BOOLEAN, otp : BOOLEAN, lock : BOOLEAN]

VARIABLES
    content,        \* the array
    otp,            \* one OTP page in each die
    fused,          \* the OTP area of a die is locked for good
    chip,           \* registers, operation in progress, WEL, E_FAIL or P_FAIL, cache
    faults,         \* failures so far, by kind
    cfg,            \* state.cfg, the configuration registers as remembered
    curr_die,       \* state.curr_die
    ecc_enabled,    \* state.ecc_enabled
    pc,             \* the call in progress
    call,           \* what the caller asked for
    ret,            \* the result, "none" while there is none; ecc_ret on the way
    buf,            \* what was read
    die,            \* the die chip_setup is at
    slipped         \* what an error has left behind: a die, the OTP mode, a busy chip

device == <<content, otp, fused, chip>>
result == <<ret, buf>>
vars == <<content, otp, fused, chip, faults, cfg, curr_die, ecc_enabled, pc, call, ret, buf, die,
          slipped>>

Idle == chip.op = "none"
Off == [ecc |-> FALSE, otp |-> FALSE, lock |-> FALSE]
Plain == {"read", "write", "erase"}

Init ==
    /\ content = [p \in Pages |-> "blank"]
    /\ otp = [d \in Dies |-> "blank"]
    /\ fused = [d \in Dies |-> FALSE]
    /\ \E d \in Dies, ecc \in BOOLEAN :
          chip = [die |-> d, op |-> "none", page |-> 0, wel |-> FALSE, fail |-> FALSE, cache |-> "blank",
                  reg |-> [e \in Dies |-> [ecc |-> ecc, otp |-> FALSE, lock |-> FALSE]],
                  protected |-> [e \in Dies |-> TRUE]]
    /\ faults = [k \in Kinds |-> 0]
    /\ cfg = [d \in Dies |-> Off] /\ curr_die = 0
    /\ ecc_enabled = FALSE
    /\ pc = "reset" /\ call = [op |-> "probe", page |-> 0]
    /\ ret = "none" /\ buf = "blank" /\ die = NDies - 1 /\ slipped = {}

(* ---------------------------------------------------------------- the chip *)

Fault(kind) ==
    /\ faults["unsent"] + faults["unacked"] + faults["slow"] + faults["failed"] < MaxFaults
    /\ faults' = [faults EXCEPT ![kind] = @ + 1]

Takes(new) ==
    /\ chip' = (IF Idle THEN new ELSE chip)
    /\ UNCHANGED <<content, otp, fused>>

Transfer(new, done, error) ==
    \/ Takes(new) /\ UNCHANGED faults /\ done
    \/ Fault("unsent") /\ UNCHANGED device /\ error
    \/ Fault("unacked") /\ Takes(new) /\ error

get_feature(done, error) ==
    \/ UNCHANGED <<device, faults>> /\ done
    \/ Fault("unsent") /\ UNCHANGED device /\ error

(* What a finished operation does, in the mode the register of the die asks *)
(* for.  PROGRAM EXECUTE locks the OTP area when its lock bit is set.        *)
mode == chip.reg[chip.die]
row == chip.die * PagesPerDie + chip.page

Programmed(old) == IF old = "torn" THEN "torn" ELSE chip.cache

Forbidden ==
    \/ mode.otp /\ (chip.op = "erase" \/ (fused[chip.die] /\ ~mode.lock))
    \/ ~mode.otp /\ chip.protected[chip.die]

Works ==
    CASE mode.otp /\ mode.lock -> fused' = [fused EXCEPT ![chip.die] = TRUE] /\ UNCHANGED <<content, otp>>
      [] mode.otp /\ ~mode.lock ->
            otp' = [otp EXCEPT ![chip.die] = Programmed(@)] /\ UNCHANGED <<content, fused>>
      [] ~mode.otp /\ chip.op = "program" ->
            content' = [content EXCEPT ![row] = Programmed(@)] /\ UNCHANGED <<otp, fused>>
      [] ~mode.otp /\ chip.op = "erase" ->
            content' = [p \in Pages |-> IF DieOf(p) = chip.die THEN "blank" ELSE content[p]]
            /\ UNCHANGED <<otp, fused>>

Breaks ==
    /\ content' = IF mode.otp THEN content ELSE [content EXCEPT ![row] = "torn"]
    /\ UNCHANGED <<otp, fused>>

Finished(fail) == chip' = [chip EXCEPT !.op = "none", !.wel = FALSE, !.fail = fail]

Chip ==
    /\ \/ /\ chip.op = "read"
          /\ chip' = [chip EXCEPT !.op = "none",
                         !.cache = IF mode.otp THEN otp[chip.die] ELSE content[row]]
          /\ UNCHANGED <<content, otp, fused, faults>>
       \/ /\ chip.op \in {"program", "erase"} /\ Forbidden
          /\ Finished(TRUE) /\ UNCHANGED <<content, otp, fused, faults>>
       \/ /\ chip.op \in {"program", "erase"} /\ ~Forbidden
          /\ \/ Finished(FALSE) /\ Works /\ UNCHANGED faults
             \/ Fault("failed") /\ Finished(TRUE) /\ Breaks
    /\ UNCHANGED <<cfg, curr_die, ecc_enabled, pc, call, ret, buf, die, slipped>>

(* -------------------------------------------------- registers and commands *)

Accepts(bits) == Takes([chip EXCEPT !.reg[chip.die] = bits])
Remember(bits) == cfg' = [cfg EXCEPT ![curr_die] = bits]

(* update_config: SET FEATURE, then the register is read back. *)
update_config(bits, done, error) ==
    \/ bits = cfg[curr_die] /\ UNCHANGED <<device, faults, cfg>> /\ done
    \/ /\ bits # cfg[curr_die]
       /\ \/ Fault("unsent") /\ UNCHANGED <<device, cfg>> /\ error
          \/ Fault("unacked") /\ Accepts(bits) /\ UNCHANGED cfg /\ error
          \/ Accepts(bits) /\ Fault("unsent") /\ Remember(bits) /\ error
          \/ /\ Accepts(bits) /\ UNCHANGED faults /\ Remember(chip'.reg[chip'.die])
             /\ IF cfg'[curr_die] = bits THEN done ELSE error

ecc_control(on, done, error) == update_config([cfg[curr_die] EXCEPT !.ecc = on], done, error)
otp_control(on, done, error) == update_config([cfg[curr_die] EXCEPT !.otp = on], done, error)

(* write_enable, write_disable: the command, then WEL is read. *)
write_enable(done, error) ==
    /\ \/ Takes([chip EXCEPT !.wel = TRUE]) /\ UNCHANGED faults /\ (IF chip'.wel THEN done ELSE error)
       \/ Fault("unsent") /\ (Takes([chip EXCEPT !.wel = TRUE]) \/ UNCHANGED device) /\ error
    /\ UNCHANGED cfg

SelectsDie(d, done, error) ==
    LET new == [chip EXCEPT !.die = d]
    IN \/ chip' = new /\ UNCHANGED <<content, otp, fused, faults>> /\ done
       \/ Fault("unsent") /\ UNCHANGED device /\ error
       \/ Fault("unacked") /\ chip' = new /\ UNCHANGED <<content, otp, fused>> /\ error

\* Mutant: the die is remembered although it was not selected.
SelectAnyway(d, done, error) ==
    \/ curr_die = d /\ UNCHANGED <<device, faults, curr_die>> /\ done
    \/ curr_die # d /\ curr_die' = d /\ SelectsDie(d, done, error)

select_die(d, done, error) ==
    \/ curr_die = d /\ UNCHANGED <<device, faults, curr_die>> /\ done
    \/ curr_die # d /\ SelectsDie(d, done /\ curr_die' = d, error /\ UNCHANGED curr_die)

(* ------------------------------------------------------------- leaving a call *)

Goto(label) == pc' = label /\ UNCHANGED result
Return(r) == pc' = "idle" /\ ret' = r /\ UNCHANGED buf
Cleanup(label, r) == pc' = label /\ ret' = r /\ UNCHANGED buf

(* Where a step that fails takes the call. *)
Fails ==
    CASE call.op = "read"                -> Return("fail")
      [] call.op \in {"write", "erase"}  -> Cleanup("disable", "fail")
      [] OTHER                           -> Cleanup("leave", "fail")

Slip(what) == slipped' = slipped \cup {what}

Same == UNCHANGED <<curr_die, ecc_enabled, call, die, slipped>>

(* --------------------------------------------------- probing and setting up *)

(* probe_init resets the chip, part_init does not; the parameter page is    *)
(* read unless the part has none.  A part may fall back on die 0 and on the *)
(* default of its ECC bits.                                                 *)
chip_reset ==
    /\ pc = "reset"
    /\ \/ /\ \/ UNCHANGED chip
             \/ \E d \in {0, chip.die}, ecc \in BOOLEAN :
                   chip' = [chip EXCEPT !.die = d, !.reg = [e \in Dies |-> [@[e] EXCEPT !.ecc = ecc]]]
          /\ Goto("config") \/ Goto("setup")
          /\ UNCHANGED <<content, otp, fused, faults>>
       \/ Fault("unsent") /\ Goto("failed") /\ UNCHANGED device
    /\ UNCHANGED cfg /\ Same

(* probe_onfi_generic turns everything off, then reads a page of the OTP    *)
(* area.  A register that cannot be read or written ends the probe; its      *)
(* result is of no use to a caller who knows the part and goes on anyway.    *)
probe_onfi ==
    /\ pc = "config"
    /\ \/ get_feature(FALSE, Goto("setup")) /\ UNCHANGED cfg
       \/ mode = Off /\ UNCHANGED <<device, faults>> /\ Remember(Off) /\ Goto("enter")
       \/ /\ mode # Off
          /\ \/ Accepts(Off) /\ UNCHANGED faults /\ Remember(Off) /\ Goto("enter")
             \/ Fault("unsent") /\ UNCHANGED device /\ Remember(mode) /\ Goto("setup")
             \/ Fault("unacked") /\ Accepts(Off) /\ Remember(mode) /\ Goto("setup")
    /\ Same

(* chip_setup selects each die, from the last to the first, whatever        *)
(* select_die returns.                                                      *)
chip_setup ==
    /\ pc = "setup"
    /\ select_die(die, Goto("refresh") /\ UNCHANGED slipped, Goto("refresh") /\ Slip("die"))
    /\ UNCHANGED <<cfg, ecc_enabled, call, die>>

refresh_config ==
    /\ pc = "refresh"
    /\ get_feature(Remember(mode) /\ Goto("unlock"), UNCHANGED cfg /\ Goto("failed"))
    /\ Same

unlock ==
    /\ pc = "unlock"
    /\ Transfer([chip EXCEPT !.protected[chip.die] = FALSE], Goto("off"), Goto("failed"))
    /\ UNCHANGED cfg /\ Same

chip_die_setup ==
    /\ pc = "off"
    /\ LET next == IF die = 0 THEN "idle" ELSE "setup"
       IN ecc_control(FALSE, Goto(next), Goto(next))
    /\ die' = IF die = 0 THEN 0 ELSE die - 1
    /\ UNCHANGED <<curr_die, ecc_enabled, call, slipped>>

(* ------------------------------------------------------------------ the calls *)

(* The calls of nand.c, which say whether ECC is wanted. *)
Calls(op, page, ecc, label) ==
    /\ pc = "idle"
    /\ call' = [op |-> op, page |-> page]
    /\ ecc_enabled' = ecc
    /\ pc' = label /\ ret' = "none" /\ buf' = "blank"
    /\ UNCHANGED <<device, faults, cfg, curr_die, die, slipped>>

read_page(page, raw) == Calls("read", page, ~raw, "select")
write_page(page, raw) == Calls("write", page, ~raw, "select")
erase_block(page) == Calls("erase", page, ecc_enabled, "select")
otp_read(raw) == Calls("otp_read", 0, ~raw, "enter")
otp_write(raw) == Calls("otp_write", 0, ~raw, "enter")
otp_lock == Calls("otp_lock", 0, ecc_enabled, "plain")
otp_locked == Calls("otp_locked", 0, ecc_enabled, "plain")
read_uid == Calls("uid", 0, ecc_enabled, "ecc")

Call ==
    \/ \E page \in Pages : erase_block(page)
    \/ \E page \in Pages, raw \in BOOLEAN : read_page(page, raw) \/ write_page(page, raw)
    \/ \E raw \in BOOLEAN : otp_read(raw) \/ otp_write(raw)
    \/ otp_lock \/ otp_locked \/ read_uid

select_die_page ==
    /\ pc = "select"
    /\ select_die(DieOf(call.page), Goto(IF call.op = "erase" THEN "wren" ELSE "ecc"), Return("fail"))
    /\ UNCHANGED <<cfg, ecc_enabled, call, die, slipped>>

ondie_ecc_control ==
    /\ pc = "ecc"
    /\ ecc_control(call.op # "uid" /\ ecc_enabled,
                   Goto(CASE call.op = "read" -> "send" [] call.op = "write" -> "wren" [] OTHER -> "enter"),
                   Return("fail"))
    /\ Same

(* Entering the OTP area, and the lock bit that otp_lock sets there. *)
enter_otp ==
    /\ pc = "enter"
    /\ otp_control(TRUE,
                   Goto(CASE call.op = "otp_write" -> "first" [] call.op = "otp_lock" -> "bit" [] OTHER -> "send"),
                   Fails)
    /\ Same

set_lock_bit ==
    /\ pc = "bit"
    /\ update_config([cfg[curr_die] EXCEPT !.lock = TRUE], Goto("wren"), Fails)
    /\ Same

(* The first write_enable of otp_write returns without leaving the OTP area. *)
otp_write_enable ==
    /\ pc = "first"
    /\ write_enable(Goto("wren") /\ UNCHANGED slipped, Return("fail") /\ Slip("otp"))
    /\ UNCHANGED <<curr_die, ecc_enabled, call, die>>

WriteEnable ==
    /\ pc = "wren"
    /\ write_enable(Goto(IF call.op \in {"write", "otp_write"} THEN "load" ELSE "send"),
                    IF call.op = "erase" THEN Return("fail") ELSE Fails)
    /\ Same

program_load ==
    /\ pc = "load"
    /\ Transfer([chip EXCEPT !.cache = "data"], Goto("send"), Fails)
    /\ UNCHANGED cfg /\ Same

Operation ==
    CASE call.op \in {"write", "otp_write", "otp_lock"} -> "program"
      [] call.op = "erase"                              -> "erase"
      [] OTHER                                          -> "read"

page_op ==
    /\ pc = "send"
    /\ Transfer(IF Operation = "read" \/ chip.wel
                THEN [chip EXCEPT !.op = Operation, !.page = call.page % PagesPerDie, !.fail = FALSE] ELSE chip,
                Goto("wait"), Fails)
    /\ UNCHANGED cfg /\ Same

\* Mutant: E_FAIL and P_FAIL are not looked at.
WaitOnly ==
    /\ pc = "wait"
    /\ \/ (Fault("unsent") \/ (~Idle /\ Fault("slow"))) /\ Fails
          /\ IF Idle THEN UNCHANGED slipped ELSE Slip("busy")
       \/ Idle /\ UNCHANGED <<faults, slipped>>
          /\ CASE call.op \in {"write", "erase"} -> Return("ok")
               [] call.op \in {"otp_write", "otp_lock"} -> Cleanup("leave", "ok")
               [] call.op \in {"read", "otp_read"} /\ ecc_enabled -> Goto("check")
               [] call.op \in {"read", "otp_read"} /\ ~ecc_enabled -> Goto("fetch")
               [] call.op \in {"uid", "probe"} -> Goto("fetch")
    /\ UNCHANGED <<device, cfg, curr_die, ecc_enabled, call, die>>

(* Both reads of the status, E_FAIL and P_FAIL; otp_lock looks at neither. *)
wait_busy ==
    /\ pc = "wait"
    /\ \/ (Fault("unsent") \/ (~Idle /\ Fault("slow"))) /\ Fails
          /\ IF Idle THEN UNCHANGED slipped ELSE Slip("busy")
       \/ Idle /\ UNCHANGED <<faults, slipped>>
          /\ CASE call.op \in {"write", "erase", "otp_write"} /\ chip.fail -> Fails
               [] call.op \in {"write", "erase"} /\ ~chip.fail -> Return("ok")
               [] (call.op = "otp_write" /\ ~chip.fail) \/ call.op = "otp_lock" -> Cleanup("leave", "ok")
               [] call.op \in {"read", "otp_read"} /\ ecc_enabled -> Goto("check")
               [] call.op \in {"read", "otp_read"} /\ ~ecc_enabled -> Goto("fetch")
               [] call.op \in {"uid", "probe"} -> Goto("fetch")
    /\ UNCHANGED <<device, cfg, curr_die, ecc_enabled, call, die>>

check_ecc ==
    /\ pc = "check"
    /\ get_feature(Cleanup("fetch", IF mode.ecc /\ chip.cache = "torn" THEN "uncorrectable" ELSE "ok"), Fails)
    /\ UNCHANGED cfg /\ Same

read_cache ==
    /\ pc = "fetch"
    /\ \/ /\ UNCHANGED <<device, faults>>
          /\ buf' = chip.cache
          /\ ret' = (IF ret = "none" THEN "ok" ELSE ret)
          /\ pc' = (IF call.op = "read" THEN "idle" ELSE "leave")
       \/ Fault("unsent") /\ UNCHANGED device /\ Fails
    /\ UNCHANGED cfg /\ Same

AfterLeaving ==
    CASE call.op = "probe"                    -> "setup"
      [] call.op \in {"otp_write", "otp_lock"} -> "disable"
      [] OTHER                                -> "idle"

\* Mutant: the OTP area is not left after an error.
LeaveAfterSuccess ==
    /\ pc = "leave"
    /\ IF ret = "fail" THEN Goto(AfterLeaving) /\ UNCHANGED <<device, faults, cfg, slipped>>
       ELSE otp_control(FALSE, Goto(AfterLeaving) /\ UNCHANGED slipped, Goto(AfterLeaving) /\ Slip("otp"))
    /\ UNCHANGED <<curr_die, ecc_enabled, call, die>>

(* Leaving the OTP area; whether it works is not looked at. *)
leave_otp ==
    /\ pc = "leave"
    /\ otp_control(FALSE, Goto(AfterLeaving) /\ UNCHANGED slipped, Goto(AfterLeaving) /\ Slip("otp"))
    /\ UNCHANGED <<curr_die, ecc_enabled, call, die>>

write_disable ==
    /\ pc = "disable"
    /\ LET next == Goto(IF call.op = "otp_lock" /\ ret = "ok" THEN "plain" ELSE "idle")
       IN Transfer([chip EXCEPT !.wel = FALSE], next, next)
    /\ UNCHANGED cfg /\ Same

(* otp_locked, which otp_lock calls first and last. *)
leave_for_locked ==
    /\ pc = "plain"
    /\ otp_control(FALSE, Goto("locked") /\ UNCHANGED slipped, Goto("locked") /\ Slip("otp"))
    /\ UNCHANGED <<curr_die, ecc_enabled, call, die>>

read_lock_bit ==
    /\ pc = "locked"
    /\ \/ /\ UNCHANGED <<device, faults>>
          /\ CASE call.op = "otp_locked" -> Return(IF mode.lock THEN "locked" ELSE "open")
               [] call.op = "otp_lock" /\ mode.lock -> Return("ok")
               [] call.op = "otp_lock" /\ ~mode.lock /\ ret = "none" -> Goto("enter")
               [] call.op = "otp_lock" /\ ~mode.lock /\ ret = "ok" -> Return("fail")
       \/ Fault("unsent") /\ UNCHANGED device /\ Return("fail")
    /\ UNCHANGED cfg /\ Same

Driver ==
    \/ chip_reset \/ probe_onfi \/ chip_setup \/ refresh_config \/ unlock \/ chip_die_setup
    \/ select_die_page \/ ondie_ecc_control \/ enter_otp \/ set_lock_bit \/ otp_write_enable
    \/ WriteEnable \/ program_load \/ page_op \/ wait_busy \/ check_ecc \/ read_cache
    \/ leave_otp \/ write_disable \/ leave_for_locked \/ read_lock_bit

Next == Call \/ Driver \/ Chip

Spec == Init /\ [][Next]_vars

(* Every variable holds a value of its kind. *)
TypeOK ==
    /\ content \in [Pages -> Contents] /\ otp \in [Dies -> Contents] /\ fused \in [Dies -> BOOLEAN]
    /\ chip \in [die : Dies, op : {"none", "read", "program", "erase"}, page : 0 .. PagesPerDie - 1,
                 wel : BOOLEAN, fail : BOOLEAN, cache : Contents,
                 reg : [Dies -> Register], protected : [Dies -> BOOLEAN]]
    /\ faults \in [Kinds -> 0 .. MaxFaults]
    /\ cfg \in [Dies -> Register] /\ curr_die \in Dies /\ die \in Dies
    /\ ecc_enabled \in BOOLEAN
    /\ ret \in {"none", "ok", "fail", "uncorrectable", "locked", "open"} /\ buf \in Contents
    /\ call.page \in Pages /\ slipped \subseteq {"die", "otp", "busy"}

(* As long as no command that changes a register fails after it has reached *)
(* the chip, the driver knows the selected die and every configuration      *)
(* register, whichever transfers fail before it: all that decides which     *)
(* commands are left out (select_die, update_config).                       *)
CacheIsRegister ==
    (call.op # "probe" /\ faults["unacked"] = 0 /\ slipped \subseteq {"otp"})
        => curr_die = chip.die /\ cfg = chip.reg

(* Every page command goes to the die, the area and the ECC mode the caller *)
(* asked for, also after calls on another die, of another mode or of the    *)
(* OTP area that have failed.                                               *)
OnTarget ==
    (/\ pc = "send" /\ call.op # "probe"
     /\ faults["unacked"] = 0 /\ slipped = {})
        => /\ mode.otp = (call.op \notin Plain)
           /\ call.op \in Plain => chip.die = DieOf(call.page)
           /\ call.op \in {"read", "write"} => mode.ecc = ecc_enabled

(* A read, write or erase that returns success has done what it says, and a *)
(* read with ECC has not returned a page that cannot be corrected.          *)
CallsTellTruth ==
    (/\ pc = "idle" /\ ret = "ok"
     /\ faults["unacked"] = 0 /\ slipped = {})
        => /\ call.op = "read" => buf = content[call.page] /\ (ecc_enabled => buf # "torn")
           /\ call.op = "write" => content[call.page] # "blank"
           /\ call.op = "erase" => \A p \in Pages : DieOf(p) = DieOf(call.page) => content[p] = "blank"

====
