------------------------------- MODULE Storage -------------------------------
(***************************************************************************)
(* A USB stick as the mass-storage driver meets it: the fake stick of      *)
(* crates/usb/src/testing/storage (Bulk-Only Transport and SCSI) behind    *)
(* the bus of crates/usb/src/bus.rs.  Every operator gives the set of      *)
(* outcomes of one transfer: a stick x, what the bus returns and what it   *)
(* brought.  A block is the unit of data; an answer that is not blocks is  *)
(* one unit.  Each thing that goes wrong costs one of x.faults.            *)
(***************************************************************************)
EXTENDS Naturals, Sequences


CONSTANTS LAST10   \* the last block a 10-byte command reaches (2^32 - 1)

(* A stick of last + 1 blocks that is not ready for some TEST UNIT READYs. *)
NewStick(kind) ==
    [kind |-> kind, disk |-> [l \in 0..kind.last |-> "old"], faults |-> kind.faults, waits |-> kind.waits,
     phase |-> [at |-> "cbw"], sense |-> "none", halted |-> {}, uncleared |-> {},
     nak |-> FALSE, gone |-> FALSE, synced |-> FALSE, broken |-> FALSE, failed |-> FALSE]

Costs(x) == [x EXCEPT !.faults = @ - 1]
Out(x, res) == [x |-> x, res |-> res, data |-> <<>>]
Minus(a, b) == IF a > b THEN a - b ELSE 0

-----------------------------------------------------------------------------
(* SCSI *)

(* What a command does: its status, its sense and the data it sends. *)
Passed(data) == [status |-> "passed", sense |-> "none", data |-> data, stall |-> FALSE]
Failed(x, sense) == [status |-> "failed", sense |-> sense, data |-> <<>>, stall |-> x.kind.stalls]

Capacity(x, most) == [last |-> IF x.kind.last < most THEN x.kind.last ELSE most, size |-> x.kind.size]

Answer(x, c) ==
    CASE c.op = "request_sense" -> Passed(<<x.sense>>)
      [] c.op = "inquiry" -> Passed(<<x.kind.type>>)
      [] OTHER ->
            IF ~x.kind.medium THEN Failed(x, "no_medium")
            ELSE IF x.waits > 0 THEN Failed(x, "not_ready")
            ELSE CASE c.op = "test_unit_ready"   -> Passed(<<>>)
                   [] c.op = "read_capacity_10"  -> Passed(<<Capacity(x, LAST10)>>)
                   [] c.op = "read_capacity_16"  -> Passed(<<Capacity(x, x.kind.last)>>)
                   [] c.op = "read"              -> Passed([i \in 1..c.blocks |-> x.disk[c.lba + i - 1]])
                   [] c.op = "write"             -> IF x.kind.protected THEN Failed(x, "data_protect")
                                                    ELSE Passed(<<>>)
                   [] c.op = "synchronize_cache" -> IF x.kind.cache THEN Passed(<<>>)
                                                    ELSE Failed(x, "illegal_request")

(* Errors of the stick itself: a unit attention, a bad block, a command    *)
(* that gives up its data phase, a phase error.                            *)
Troubles(x, c) ==
    IF x.faults = 0 THEN {}
    ELSE {[status |-> "phase_error", sense |-> x.sense, data |-> <<>>, stall |-> FALSE]}
         \cup (IF c.op \in {"inquiry", "request_sense"} THEN {} ELSE {Failed(x, "unit_attention")})
         \cup (IF c.op = "read" THEN {Failed(x, "medium_error")} ELSE {})
         \cup (IF c.length > 0 THEN {[Failed(x, "aborted") EXCEPT !.stall = TRUE]} ELSE {})

Zeros(c) == IF c.op \in {"read_capacity_10", "read_capacity_16"} THEN [last |-> 0, size |-> "0"] ELSE "zeros"

(* begin: the data phase.  A command that did not pass stalls it or moves  *)
(* what was announced: zeros in, data out discarded.                       *)
Begin(x, c, a) ==
    LET csw == [at |-> "csw", tag |-> c.tag, residue |-> 0, status |-> a.status]
        y   == [x EXCEPT !.sense = IF c.op = "request_sense" THEN "none" ELSE a.sense,
                         !.waits = IF c.op = "test_unit_ready" THEN Minus(@, 1) ELSE @,
                         !.synced = @ \/ (c.op = "synchronize_cache" /\ a.status = "passed")]
    IN  CASE c.length = 0 -> [y EXCEPT !.phase = csw]
          [] c.length > 0 /\ c.dir = "in" ->
                [y EXCEPT !.phase = [at |-> "in", csw |-> csw, left |-> c.length, stall |-> a.stall,
                                     data |-> IF a.status = "passed" THEN a.data
                                              ELSE [i \in 1..c.length |-> Zeros(c)]]]
          [] c.length > 0 /\ c.dir = "out" ->
                [y EXCEPT !.phase = [at |-> "out", csw |-> csw, left |-> c.length, stall |-> a.stall,
                                     lba |-> c.lba, writes |-> a.status = "passed"]]

(* command: a block address past the end is for the stick to refuse. *)
Command(x, c) ==
    IF c.op \in {"read", "write"} /\ c.lba + c.blocks > x.kind.last + 1
    THEN {[Begin(x, c, Failed(x, "illegal_request")) EXCEPT !.broken = TRUE]}
    ELSE {Begin(x, c, Answer(x, c))} \cup {Begin(Costs(x), c, a) : a \in Troubles(x, c)}

-----------------------------------------------------------------------------
(* Bulk-Only Transport *)

Stalls(x, ep, phase) == Out([x EXCEPT !.halted = @ \cup {ep}, !.phase = phase], "stall")

(* cbw: a new command.  After a reset both halts must be cleared first. *)
Cbw(x, c) ==
    {Out([y EXCEPT !.broken = @ \/ x.uncleared # {}], "ok") : y \in Command(x, c)}

(* The blocks of a data-out phase are stored when the last one came. *)
DataOut(x, data) ==
    LET p == x.phase
        c == [p.csw EXCEPT !.residue = 0]
    IN  IF p.stall THEN {Stalls(x, "out", [p.csw EXCEPT !.residue = p.left])}
        ELSE {Out([x EXCEPT !.phase = c,
                            !.disk = [l \in DOMAIN @ |->
                                        IF p.writes /\ l \in p.lba..(p.lba + p.left - 1)
                                        THEN data[l - p.lba + 1] ELSE @[l]]], "ok")}

(* What does not belong into the phase breaks the rules: the stick may     *)
(* refuse it, or take a command for the data it waits for.                 *)
Misplaced(x) == {Stalls([x EXCEPT !.broken = TRUE], "out", x.phase)}
Swallowed(x) ==
    LET y == [x EXCEPT !.broken = TRUE]
    IN  Misplaced(x) \cup DataOut(y, [i \in 1..x.phase.left |-> "junk"])

data_out(x, what, payload) ==
    CASE x.nak -> {Out(x, "timeout")}
      [] ~x.nak /\ "out" \in x.halted -> {Out(x, "stall")}
      [] OTHER ->
            CASE x.phase.at = "cbw" /\ what = "cbw" -> Cbw(x, payload)
              [] x.phase.at = "out" /\ what = "data" /\ Len(payload) = x.phase.left -> DataOut(x, payload)
              [] x.phase.at = "out" /\ (what = "cbw" \/ Len(payload) # x.phase.left) -> Swallowed(x)
              [] OTHER -> Misplaced(x)

(* The data phase in: perhaps a unit short, which the CSW reports. *)
DataIn(x, max) ==
    LET p == x.phase
        Sends(y, n) == [x |-> [y EXCEPT !.phase = [p.csw EXCEPT !.residue = p.left - n]],
                        res |-> "ok", data |-> SubSeq(p.data, 1, n)]
    IN  CASE p.stall -> {Stalls(x, "in", [p.csw EXCEPT !.residue = p.left])}
          [] ~p.stall /\ max # p.left -> {Stalls([x EXCEPT !.broken = TRUE], "in", p)}
          [] OTHER -> {Sends(x, Len(p.data))}
                      \cup (IF x.faults > 0 THEN {Sends(Costs(x), Len(p.data) - 1)} ELSE {})

(* The CSW: read stalls, a bad signature, tag or length, a wrong residue. *)
Csw(x) ==
    LET p == x.phase
        Gives(y, c) == [x |-> [y EXCEPT !.phase = [at |-> "cbw"]], res |-> "ok", data |-> <<c>>]
        good == [tag |-> p.tag, residue |-> p.residue, status |-> p.status, valid |-> TRUE]
    IN  {Gives(x, good)}
        \cup (IF x.faults = 0 THEN {}
              ELSE {Stalls(Costs(x), "in", p),
                    Gives(Costs(x), [good EXCEPT !.valid = FALSE]),
                    Gives(Costs(x), [good EXCEPT !.tag = @ + 1]),
                    Gives(Costs(x), [good EXCEPT !.residue = 1 - @])})

data_in(x, max, what) ==
    CASE x.nak -> {Out(x, "timeout")}
      [] ~x.nak /\ "in" \in x.halted -> {Out(x, "stall")}
      [] OTHER ->
            CASE x.phase.at = "in" -> DataIn(x, IF what = "csw" THEN 0 ELSE max)
              [] x.phase.at = "csw" -> Csw(x)
              [] OTHER -> {Out([x EXCEPT !.broken = TRUE], "timeout")}

-----------------------------------------------------------------------------
(* The bus *)

(***************************************************************************)
(* A stick that is gone answers nothing.  Else a transfer is done, or it   *)
(* fails before or after the stick saw it, or the stick stops answering    *)
(* (from now on, until it likes to again), or it is pulled out.            *)
(***************************************************************************)
OnBus(x, Does(_)) ==
    IF x.gone THEN {Out(x, "gone")}
    ELSE Does(x)
         \cup (IF x.nak THEN Does([x EXCEPT !.nak = FALSE]) ELSE {})
         \cup (IF x.faults = 0 THEN {}
               ELSE {Out(Costs([x EXCEPT !.gone = TRUE]), "gone"),
                     Out(Costs([x EXCEPT !.nak = TRUE]), "timeout"),
                     Out(Costs(x), "error")}
                    \cup {Out(Costs(o.x), "error") : o \in {o \in Does(x) : o.x.faults > 0}})

BulkOut(x, what, payload) == OnBus(x, LAMBDA y : data_out(y, what, payload))
BulkIn(x, max, what) == OnBus(x, LAMBDA y : data_in(y, max, what))

(* Control requests: a Bulk-Only Mass Storage Reset, and a halt cleared.   *)
(* "failed" remembers that one of them did not get through.                *)
Control(x, Does(_)) ==
    IF x.gone THEN {Out(x, "gone")}
    ELSE {Out(Does(x), "ok")}
         \cup (IF x.faults = 0 THEN {}
               ELSE {Out(Costs([x EXCEPT !.gone = TRUE]), "gone"),
                     Out([Costs(x) EXCEPT !.failed = TRUE], "error"),
                     Out([Costs(Does(x)) EXCEPT !.failed = TRUE], "error")})

Reset(x) == Control(x, LAMBDA y : [y EXCEPT !.phase = [at |-> "cbw"], !.uncleared = {"in", "out"}])
ClearHalt(x, ep) == Control(x, LAMBDA y : [y EXCEPT !.halted = @ \ {ep}, !.uncleared = @ \ {ep}])

-----------------------------------------------------------------------------
(***************************************************************************)
(* The USB mass-storage driver (crates/usb/src/storage) and the disks of   *)
(* the host (crates/usb/src/host.rs), against that stick: setting a        *)
(* stick up, reads, writes and flushes as SCSI commands over Bulk-Only     *)
(* Transport, with their retries and reset recoveries.  Each step is one   *)
(* transfer and all the code up to the next one.                           *)
(***************************************************************************)


CONSTANTS Kinds,       \* the sticks there are; "faults" bounds what goes wrong
                       \* with one, "calls" what is asked of it,
                       \* "replug" whether another follows it
          Data,        \* what a block is written with
          PER,         \* blocks of one command (MAX_BULK / block size)
          MAX_TRIES,   \* tries of a command (3)
          POLLS        \* TEST UNIT READYs within READY_TIMEOUT

VARIABLES dev,         \* the stick
          ms,          \* its driver (struct MassStorage, its DiskId)
          k,           \* where the driver is: a command and its try
          call,        \* the request
          torn         \* ghost: blocks of failed writes

stickVars == <<dev, ms, k, call, torn>>

NoCall == [op |-> "none", id |-> 0, lba |-> 0, n |-> 0, data |-> <<>>, got |-> <<>>, res |-> "none"]
Idle == [pc |-> "idle", cmd |-> [op |-> "none"], try |-> 1, polls |-> 1, done |-> 0, sensing |-> FALSE,
         cause |-> "ok", moved |-> 0, buf |-> <<>>]
NewDriver(i, kind) == [id |-> i, up |-> FALSE, count |-> 0, no_cache |-> FALSE, not_answering |-> FALSE,
                 tag |-> 1, calls |-> kind.calls]

is_fatal(e) == e = "gone"

-----------------------------------------------------------------------------
(* Command blocks.  READ(10) and WRITE(10) carry 32 bits of the LBA.       *)

Cdb(op, length, dir, need) ==
    [op |-> op, lba |-> 0, blocks |-> 0, length |-> length, dir |-> dir, need |-> need]
inquiry == Cdb("inquiry", 1, "in", "up_to")
test_unit_ready == Cdb("test_unit_ready", 0, "out", "up_to")
request_sense == Cdb("request_sense", 1, "in", "up_to")
read_capacity_10 == Cdb("read_capacity_10", 1, "in", "up_to")
read_capacity_16 == Cdb("read_capacity_16", 1, "in", "up_to")
synchronize_cache_10 == Cdb("synchronize_cache", 0, "out", "up_to")
rw_10(op, lba, n) ==
    [Cdb(op, n, IF op = "read" THEN "in" ELSE "out", "all") EXCEPT !.lba = lba % (LAST10 + 1), !.blocks = n]

-----------------------------------------------------------------------------
(* What follows a transfer. *)

(* exchange: the next tag, and a CBW to send. *)
Exchange(x) == [x EXCEPT !.pc = "cbw", !.moved = 0, !.buf = <<>>]
NewCommand(cdb) == Exchange([k EXCEPT !.cmd = cdb, !.try = 1, !.sensing = FALSE])

(* The call ends.  A device whose last try timed out is given up, once it  *)
(* is in use; one that was set up is a disk.                               *)
Finish(r) ==
    /\ k' = Idle
    /\ ms' = [ms EXCEPT !.not_answering = @ \/ (r = "timeout" /\ call.op # "start")]
    /\ call' = [call EXCEPT !.res = r]
    /\ torn' = CASE r = "ok" /\ call.n > 0 -> {}
                 [] r # "ok" /\ call.op = "write" -> torn \cup {call.lba + i - 1 : i \in 1..call.n}
                 [] OTHER -> torn

GoOn(x) == k' = x /\ UNCHANGED <<ms, call, torn>>
Sends(x) == k' = Exchange(x) /\ ms' = [ms EXCEPT !.tag = @ + 1] /\ UNCHANGED <<call, torn>>

(* request: one command per PER blocks. *)
NextChunk(done) ==
    rw_10(call.op, call.lba + done, IF call.n - done > PER THEN PER ELSE call.n - done)

(* capacity: what 32-bit block addresses reach, of a block size we know. *)
Capacious(c) ==
    IF c.size # "512" THEN Finish("unsupported")
    ELSE IF c.last > LAST10 THEN Finish("unsupported")
    ELSE /\ k' = Idle
         /\ ms' = [ms EXCEPT !.up = TRUE, !.count = c.last + 1]
         /\ call' = [call EXCEPT !.res = "ok"]
         /\ UNCHANGED torn

(* A command succeeded: the next one of the call. *)
Succeeded(x) ==
    CASE x.cmd.op = "inquiry" ->
            IF x.moved = 0 THEN Finish("protocol")
            ELSE IF x.buf[1] # "disk" THEN Finish("unsupported")
            ELSE Sends([NewCommand(test_unit_ready) EXCEPT !.polls = 1])
      [] x.cmd.op = "test_unit_ready" -> Sends(NewCommand(read_capacity_10))
      [] x.cmd.op = "read_capacity_10" ->
            IF x.moved = 0 THEN Finish("protocol")
            ELSE IF x.buf[1].last = LAST10 THEN Sends(NewCommand(read_capacity_16))
            ELSE Capacious(x.buf[1])
      [] x.cmd.op = "read_capacity_16" ->
            IF x.moved = 0 THEN Finish("protocol") ELSE Capacious(x.buf[1])
      [] x.cmd.op \in {"read", "write"} ->
            LET done == x.done + x.cmd.length
                got  == call.got \o x.buf
            IN  IF done < call.n
                THEN /\ k' = Exchange([NewCommand(NextChunk(done)) EXCEPT !.done = done])
                     /\ ms' = [ms EXCEPT !.tag = @ + 1]
                     /\ call' = [call EXCEPT !.got = got]
                     /\ UNCHANGED torn
                ELSE /\ k' = Idle
                     /\ call' = [call EXCEPT !.got = got, !.res = "ok"]
                     /\ torn' = {}
                     /\ UNCHANGED ms
      [] x.cmd.op = "synchronize_cache" -> Finish("ok")

(* A slip: any refusal of SYNCHRONIZE CACHE means there is no cache. *)
RefusedAny(e) ==
    IF k.cmd.op = "synchronize_cache"
    THEN /\ k' = Idle
         /\ ms' = [ms EXCEPT !.no_cache = TRUE]
         /\ call' = [call EXCEPT !.res = "ok"]
         /\ UNCHANGED torn
    ELSE Finish(e)

(* flush: a device that does not know the command has no cache. *)
Refused(e) ==
    IF k.cmd.op = "synchronize_cache" /\ e = "illegal_request"
    THEN /\ k' = Idle
         /\ ms' = [ms EXCEPT !.no_cache = TRUE]
         /\ call' = [call EXCEPT !.res = "ok"]
         /\ UNCHANGED torn
    ELSE Finish(e)

(* wait_until_ready's loop for TEST UNIT READY, Transport::command's for   *)
(* the others.                                                             *)
ExecuteFails(e) ==
    CASE is_fatal(e) -> Finish(e)
      [] ~is_fatal(e) /\ k.cmd.op = "test_unit_ready" ->
            IF e = "no_medium" \/ k.polls >= POLLS THEN Finish(e)
            ELSE Sends([k EXCEPT !.polls = @ + 1, !.sensing = FALSE])
      [] ~is_fatal(e) /\ k.cmd.op # "test_unit_ready" ->
            IF e = "illegal_request" \/ k.try >= MAX_TRIES THEN Refused(e)
            ELSE Sends([k EXCEPT !.try = @ + 1, !.sensing = FALSE])

(* recover: the reset recovery after "e" comes first. *)
Recover(e) ==
    IF is_fatal(e) THEN ExecuteFails(e) ELSE GoOn([k EXCEPT !.pc = "reset", !.cause = e])

(* Csw::parse. *)
Parse(c, length) ==
    CASE ~c.valid \/ c.tag # ms.tag - 1 -> "protocol"
      [] c.valid /\ c.tag = ms.tag - 1 /\ c.status # "phase_error" /\ c.residue > length -> "protocol"
      [] OTHER -> c.status

(* A slip: the residue is believed. *)
CompleteByResidue(c) == k.cmd.need = "all" => c.residue = 0

(* Need::All: a data phase that moved less, or a residue, is an error. *)
Complete(c) == k.cmd.need = "all" => k.moved = k.cmd.length /\ c.residue = 0

(* The CSW came: execute, or request_sense after a command that failed. *)
Length == IF k.sensing THEN 1 ELSE k.cmd.length
HaveCsw(c) ==
    LET status == IF "valid" \notin DOMAIN c THEN "protocol" ELSE Parse(c, Length)
    IN  CASE status \in {"protocol", "phase_error"} -> Recover("protocol")
          [] status = "passed" /\ k.sensing -> ExecuteFails(IF k.moved = 0 THEN "protocol" ELSE k.buf[1])
          [] status = "passed" /\ ~k.sensing ->
                IF Complete(c) THEN Succeeded(k) ELSE ExecuteFails("protocol")
          [] status = "failed" /\ k.sensing -> ExecuteFails("protocol")
          [] status = "failed" /\ ~k.sensing -> Sends([k EXCEPT !.sensing = TRUE])

-----------------------------------------------------------------------------
(* The transfers. *)

At(pc) == k.pc = pc
Step(outcomes, Then(_)) == \E o \in outcomes : dev' = o.x /\ Then(o)
Goto(pc) == GoOn([k EXCEPT !.pc = pc])

Payload == SubSeq(call.data, k.done + 1, k.done + k.cmd.length)
Current == IF k.sensing THEN request_sense ELSE k.cmd
WithTag(c) == [tag |-> ms.tag - 1, op |-> c.op, lba |-> c.lba, blocks |-> c.blocks,
               length |-> c.length, dir |-> c.dir]

SendCbw ==
    /\ At("cbw")
    /\ Step(BulkOut(dev, "cbw", WithTag(Current)),
            LAMBDA o : IF o.res # "ok" THEN Recover(o.res)
                       ELSE Goto(IF Length > 0 THEN "data" ELSE "csw"))

DataPhase ==
    /\ At("data")
    /\ Step(IF Current.dir = "in" THEN BulkIn(dev, Length, "data") ELSE BulkOut(dev, "data", Payload),
            LAMBDA o : CASE o.res = "stall" -> Goto("unstall")
                         [] o.res = "ok" -> GoOn([k EXCEPT !.pc = "csw", !.buf = o.data,
                                                           !.moved = IF Current.dir = "in" THEN Len(o.data) ELSE Length])
                         [] OTHER -> Recover(o.res))

Unstall ==
    /\ At("unstall")
    /\ Step(ClearHalt(dev, Current.dir), LAMBDA o : IF o.res = "ok" THEN Goto("csw") ELSE Recover(o.res))

ReadCsw ==
    /\ At("csw")
    /\ Step(BulkIn(dev, 1, "csw"),
            LAMBDA o : CASE o.res = "stall" -> Goto("unstall_csw")
                         [] o.res = "ok" -> HaveCsw(o.data[1])
                         [] OTHER -> Recover(o.res))

UnstallCsw ==
    /\ At("unstall_csw")
    /\ Step(ClearHalt(dev, "in"), LAMBDA o : IF o.res = "ok" THEN Goto("csw_again") ELSE Recover(o.res))

ReadCswAgain ==
    /\ At("csw_again")
    /\ Step(BulkIn(dev, 1, "csw"), LAMBDA o : IF o.res = "ok" THEN HaveCsw(o.data[1]) ELSE Recover(o.res))

(* A slip: the recovery ends with the reset. *)
RecoveryStepResets ==
    /\ k.pc \in {"reset", "clear_in", "clear_out"}
    /\ Step(IF At("reset") THEN Reset(dev) ELSE ClearHalt(dev, IF At("clear_in") THEN "in" ELSE "out"),
            LAMBDA o : IF is_fatal(o.res) THEN ExecuteFails(o.res) ELSE ExecuteFails(k.cause))

(* recover's steps: one that fails is only logged. *)
RecoveryStep ==
    /\ k.pc \in {"reset", "clear_in", "clear_out"}
    /\ Step(IF At("reset") THEN Reset(dev) ELSE ClearHalt(dev, IF At("clear_in") THEN "in" ELSE "out"),
            LAMBDA o : CASE is_fatal(o.res) -> ExecuteFails(o.res)
                         [] ~is_fatal(o.res) /\ At("reset") -> Goto("clear_in")
                         [] ~is_fatal(o.res) /\ At("clear_in") -> Goto("clear_out")
                         [] ~is_fatal(o.res) /\ At("clear_out") -> ExecuteFails(k.cause))

(* max_lun: its answer is not used, its failure means one LUN. *)
MaxLun ==
    /\ At("lun")
    /\ Step({[o EXCEPT !.x.failed = dev.failed] : o \in Control(dev, LAMBDA y : y)},
            LAMBDA o : IF is_fatal(o.res) THEN Finish(o.res) ELSE Sends(NewCommand(inquiry)))

-----------------------------------------------------------------------------
(* The calls. *)

(* MassStorage::start of the stick that is in. *)
StartCall ==
    /\ At("idle") /\ ~ms.up /\ call.op = "none"
    /\ call' = [NoCall EXCEPT !.op = "start", !.id = ms.id, !.res = "busy"]
    /\ k' = [Idle EXCEPT !.pc = "lun"]
    /\ UNCHANGED <<dev, ms, torn>>

(* Host::read, write and flush: a number that is not a disk's any more     *)
(* fails, as does a device given up; so does a request past the end.       *)
Ask(c) ==
    /\ At("idle") /\ call.op # "none" /\ ms.calls > 0
    /\ LET r == CASE c.id # ms.id \/ ~ms.up -> "gone"
                  [] c.id = ms.id /\ ms.up /\ ms.not_answering -> "timeout"
                  [] OTHER -> IF c.op = "flush" THEN IF ms.no_cache THEN "ok" ELSE "busy"
                              ELSE IF c.lba + c.n > ms.count THEN "unsupported"
                              ELSE IF c.n = 0 THEN "ok" ELSE "busy"
       IN  /\ call' = [c EXCEPT !.res = r]
           /\ IF r # "busy" THEN ms' = [ms EXCEPT !.calls = @ - 1] /\ UNCHANGED <<k, dev>>
              ELSE /\ ms' = [ms EXCEPT !.calls = @ - 1, !.tag = @ + 1]
                   /\ dev' = [dev EXCEPT !.synced = FALSE]
                   /\ k' = Exchange([Idle EXCEPT !.cmd =
                               IF c.op = "flush" THEN synchronize_cache_10
                               ELSE rw_10(c.op, c.lba, IF c.n > PER THEN PER ELSE c.n)])
    /\ UNCHANGED torn

Reads == \E i \in 1..ms.id, l \in 0..(LAST10 + 1), n \in 0..(PER + 1) :
            Ask([NoCall EXCEPT !.op = "read", !.id = i, !.lba = l, !.n = n])
Writes == \E i \in 1..ms.id, l \in 0..(LAST10 + 1), n \in 0..(PER + 1) : \E v \in [1..n -> Data] :
            Ask([NoCall EXCEPT !.op = "write", !.id = i, !.lba = l, !.n = n, !.data = v])
Flushes == \E i \in 1..ms.id : Ask([NoCall EXCEPT !.op = "flush", !.id = i])

(* Host::service: the old stick's driver is dropped, another is set up,    *)
(* with the next number.                                                   *)
Replug ==
    /\ At("idle") /\ call.op # "none" /\ dev.kind.replug
    /\ \E kind \in {x \in Kinds : ~x.replug} : dev' = NewStick(kind) /\ ms' = NewDriver(ms.id + 1, kind)
    /\ call' = NoCall
    /\ torn' = {}
    /\ UNCHANGED k

StickInit ==
    /\ \E kind \in Kinds : dev = NewStick(kind) /\ ms = NewDriver(1, kind)
    /\ k = Idle
    /\ call = NoCall
    /\ torn = {}

StickNext ==
    \/ StartCall \/ MaxLun \/ Reads \/ Writes \/ Flushes \/ Replug
    \/ SendCbw \/ DataPhase \/ Unstall \/ ReadCsw \/ UnstallCsw \/ ReadCswAgain \/ RecoveryStep

StickSpec == StickInit /\ [][StickNext]_stickVars

-----------------------------------------------------------------------------
(***************************************************************************)
(* Through stalls, retries, resets and sticks that stop answering, the     *)
(* driver is a block device: a request that succeeds moved every block to  *)
(* or from the place it named on the stick it named.                       *)
(***************************************************************************)
Disk == INSTANCE BlockDevice WITH disk <- dev.disk, id <- ms.id
ImplementsBlockDevice == Disk!Spec

(***************************************************************************)
(* As long as no step of a reset recovery got lost, the stick never sees   *)
(* what Bulk-Only Transport does not allow at that point: a CBW before     *)
(* both halts are cleared, a phase out of turn, a block that is not there. *)
(***************************************************************************)
InTurn == dev.broken => dev.failed

(***************************************************************************)
(* A flush that succeeds reached the stick's cache, unless the stick has   *)
(* said once that it knows no such command, or missed a step of a reset    *)
(* recovery (it may then take the CBW for data it still waits for, and     *)
(* answer with the CSW of the command before, under the wrong tag); and a  *)
(* disk that was given up is sent nothing.                                 *)
(***************************************************************************)
FlushReaches ==
    /\ call.op = "flush" /\ call.res = "ok" =>
          dev.synced \/ (ms.no_cache /\ ~dev.kind.cache) \/ dev.failed
    /\ ms.not_answering => At("idle")
=============================================================================
