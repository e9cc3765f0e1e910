--------------------------- MODULE StorageProofs ---------------------------
(***************************************************************************)
(* Proofs about Storage, for every kind of stick, of whatever size and     *)
(* with any number of faults, and every number of tries.                   *)
(***************************************************************************)
EXTENDS StickProofs

(* What a command of a read or a write has moved, with what was before. *)
LEMMA PieceDone ==
    ASSUME Sizes, SInv, k.pc \notin {"idle", "lun"}, ~k.sensing, call.op \in {"read", "write"},
           Told(dev, ms, k, call), dev.phase.status = "passed", k.moved = k.cmd.length
    PROVE  LET done == k.done + k.cmd.length
           IN  /\ done \in Nat /\ done <= call.n
               /\ call.op = "read" => call.got \o k.buf = [i \in 1..done |-> dev.disk[call.lba + i - 1]]
               /\ call.op = "write" => \A i \in 1..done : dev.disk[call.lba + i - 1] = call.data[i]
<1> DEFINE done == k.done + k.cmd.length
<1>1. /\ call.n \in Nat /\ call.lba \in Nat /\ k.done \in Nat /\ k.done < call.n
      /\ call.lba + call.n <= dev.kind.last + 1
  BY BusyDriver DEF RequestOK
<1>2. /\ k.cmd.op = call.op /\ k.cmd.lba = call.lba + k.done /\ k.cmd.length \in Nat \ {0}
      /\ k.done + k.cmd.length <= call.n /\ k.cmd.dir = IF call.op = "read" THEN "in" ELSE "out"
  BY SentOK DEF Piece
<1>3. dev.kind.last \in Nat /\ dev.disk \in [0..dev.kind.last -> Values]
  BY ZenonT(30) DEF SInv, Agree, StickOK, Sizes
<1>4. Sent(k) = k.cmd
  BY DEF Sent
<1>5. done \in Nat /\ done <= call.n
  BY <1>1, <1>2
<1>6. CASE call.op = "read"
  <2>1. k.buf = [i \in 1..k.cmd.length |-> dev.disk[k.cmd.lba + i - 1]]
    BY ZenonT(30), <1>2, <1>4, <1>6 DEF Told, Tells
  <2>2. call.got = [i \in 1..k.done |-> dev.disk[call.lba + i - 1]]
    BY ZenonT(30), <1>6, BusyDriver DEF SInv, Agree, DiskOK
  <2> DEFINE L == k.cmd.length
  <2>3. L \in Nat /\ call.lba + k.done + L <= dev.kind.last + 1
    <3>1. L \in Nat /\ k.done + L <= call.n
      BY <1>2
    <3> HIDE DEF L
    <3>2. \A a, b, c, n, m \in Nat : b + c <= n /\ a + n <= m + 1 => a + b + c <= m + 1
      OBVIOUS
    <3> QED BY ZenonT(30), <1>1, <1>3, <3>1, <3>2
  <2>4. k.buf = [i \in 1..L |-> dev.disk[call.lba + k.done + i - 1]]
    BY <1>2, <2>1, Zenon
  <2> HIDE DEF L
  <2>5. call.got \o k.buf = [i \in 1..(k.done + L) |-> dev.disk[call.lba + i - 1]]
    <3> DEFINE n == k.done
               l == call.lba
               f == dev.disk
               last == dev.kind.last
    <3>1. l \in Nat /\ n \in Nat /\ L \in Nat /\ last \in Nat /\ f \in [0..last -> Values] /\ l + n + L <= last + 1
      BY <1>1, <1>3, <2>3
    <3> HIDE DEF n, l, f, last
    <3>2. [i \in 1..n |-> f[l + i - 1]] \o [i \in 1..L |-> f[l + n + i - 1]] = [i \in 1..(n + L) |-> f[l + i - 1]]
      BY <3>1, Stretches
    <3> QED BY <2>2, <2>4, <3>2, Zenon DEF n, l, f
  <2> QED BY <1>5, <1>6, <2>5 DEF L
<1>7. CASE call.op = "write"
  <2>1. \A i \in 1..k.cmd.length : dev.disk[k.cmd.lba + i - 1] = call.data[k.done + i]
    BY <1>2, <1>4, <1>7 DEF Told
  <2>2. \A i \in 1..k.done : dev.disk[call.lba + i - 1] = call.data[i]
    BY ZenonT(30), <1>7, BusyDriver DEF SInv, Agree, DiskOK
  <2>3. ASSUME NEW i \in 1..done PROVE dev.disk[call.lba + i - 1] = call.data[i]
    <3>1. CASE i <= k.done
      BY <1>1, <2>2, <3>1
    <3>2. CASE i > k.done
      <4> DEFINE j == i - k.done
      <4>1. j \in 1..k.cmd.length /\ k.cmd.lba + j - 1 = call.lba + i - 1 /\ k.done + j = i
        BY <1>1, <1>2, <3>2
      <4> HIDE DEF j
      <4> QED BY <2>1, <4>1
    <3> QED BY <1>1, <1>2, <3>1, <3>2
  <2> QED BY <1>5, <1>7, <2>3
<1> QED BY ZenonT(30), <1>6, <1>7

(* A command of a read or a write succeeded: the next one, or the end. *)
LEMMA PieceKeeps ==
    ASSUME Sizes, SInv, k.pc \notin {"idle", "lun"}, ~k.sensing, call.op \in {"read", "write"},
           Took(dev'), Settled(dev'), dev'.phase.at = "cbw", dev'.disk = dev.disk,
           Told(dev, ms, k, call), dev.phase.status = "passed", k.moved = k.cmd.length, Succeeded(k)
    PROVE  SInv' /\ (Disk!Works \/ Disk!Ends)
<1> DEFINE done == k.done + k.cmd.length
           got == call.got \o k.buf
<1>1. /\ done \in Nat /\ done <= call.n
      /\ call.op = "read" => got = [i \in 1..done |-> dev'.disk[call.lba + i - 1]]
      /\ call.op = "write" => \A i \in 1..done : dev'.disk[call.lba + i - 1] = call.data[i]
  <2>1. /\ done \in Nat /\ done <= call.n
        /\ call.op = "read" => got = [i \in 1..done |-> dev.disk[call.lba + i - 1]]
        /\ call.op = "write" => \A i \in 1..done : dev.disk[call.lba + i - 1] = call.data[i]
    BY PieceDone, Zenon
  <2> HIDE DEF done, got
  <2>2. dev'.disk = dev.disk
    OBVIOUS
  <2>3. call.op = "write" => \A i \in 1..done : dev'.disk[call.lba + i - 1] = call.data[i]
    BY <2>1, <2>2, Zenon
  <2>4. call.op = "read" => got = [i \in 1..done |-> dev'.disk[call.lba + i - 1]]
    BY <2>1, <2>2
  <2> QED BY <2>1, <2>3, <2>4, Zenon
<1>2. /\ call.n \in Nat /\ call.lba \in Nat /\ k.done \in Nat /\ k.done < call.n /\ ms.up /\ call.id = ms.id
      /\ call.op = "write" => call.data \in Seq(Data) /\ Len(call.data) = call.n
      /\ call.lba + call.n <= ms.count
  BY ZenonT(30), BusyDriver DEF RequestOK
<1>3. k.cmd.op = call.op
  BY ZenonT(30), SentOK DEF Piece
<1>4. /\ DOMAIN dev.disk = 0..dev.kind.last /\ DOMAIN dev'.disk = 0..dev.kind.last /\ dev.kind.last \in Nat
      /\ dev'.kind = dev.kind
  BY ZenonT(30) DEF SInv, Agree, StickOK, Took, Sizes
<1>5. OutBlocks(dev'.phase) = {} /\ \A t : TagBelow(dev'.phase, t)
  BY DEF OutBlocks, TagBelow
<1>6. \/ /\ done < call.n
         /\ k' = Exchange([NewCommand(NextChunk(done)) EXCEPT !.done = done])
         /\ ms' = [ms EXCEPT !.tag = @ + 1]
         /\ call' = [call EXCEPT !.got = got]
         /\ torn' = torn
      \/ /\ ~(done < call.n)
         /\ k' = Idle
         /\ call' = [call EXCEPT !.got = got, !.res = "ok"]
         /\ torn' = {}
         /\ ms' = ms
  BY ZenonT(30), <1>3 DEF Succeeded
<1> HIDE DEF done, got
<1>7. CASE /\ done < call.n
           /\ k' = Exchange([NewCommand(NextChunk(done)) EXCEPT !.done = done])
           /\ ms' = [ms EXCEPT !.tag = @ + 1]
           /\ call' = [call EXCEPT !.got = got]
           /\ torn' = torn
  <2>1. /\ DOMAIN ms' = DOMAIN ms /\ ms'.id = ms.id /\ ms'.tag = ms.tag + 1 /\ ms'.calls = ms.calls /\ ms'.up = ms.up
        /\ ms'.count = ms.count /\ ms'.no_cache = ms.no_cache /\ ms'.not_answering = ms.not_answering
    BY <1>7
  <2>2. /\ DOMAIN call' = DOMAIN call /\ call'.got = got /\ call'.op = call.op /\ call'.id = call.id /\ call'.n = call.n
        /\ call'.lba = call.lba /\ call'.data = call.data /\ call'.res = call.res
        /\ [call' EXCEPT !.got = <<>>] = [call EXCEPT !.got = <<>>]
    BY ZenonT(30), <1>7, BusyDriver
  <2>3. /\ DOMAIN k' = DOMAIN k /\ k'.pc = "cbw" /\ k'.cmd = NextChunk(done) /\ k'.done = done /\ k'.sensing = FALSE
        /\ k'.cause = k.cause /\ k'.moved = 0
    <3> DEFINE w == NewCommand(NextChunk(done))
               v == [w EXCEPT !.done = done]
    <3>1. /\ DOMAIN w = DOMAIN k /\ w.cmd = NextChunk(done) /\ w.sensing = FALSE /\ w.cause = k.cause
      BY ZenonT(30), NewCommandIs, BusyDriver
    <3>2. k' = Exchange(v)
      BY <1>7
    <3> HIDE DEF w
    <3>3. DOMAIN v = DOMAIN k /\ v.cmd = NextChunk(done) /\ v.sensing = FALSE /\ v.cause = k.cause /\ v.done = done
      BY <3>1
    <3> HIDE DEF v
    <3> QED BY <3>2, <3>3 DEF Exchange
  <2>4. Disk!Works
    BY <1>7, <2>1, <2>2, RequestGoesOn, BusyDriver
  <2>5. NextChunk(done) = Chunk(call', done)
    BY <2>2 DEF NextChunk, Chunk
  <2>6. RequestOK(ms', k', call')
    BY <1>1, <1>2, <1>7, <2>1, <2>2, <2>3, <2>5 DEF RequestOK
  <2>7. DriverOK(ms', k', call', dev'.kind)
    <3>1. Busy(call) /\ ~ms.not_answering /\ k.cause \in Causes \cup {"ok"}
      BY BusyDriver
    <3>2. /\ DOMAIN ms' = {"id", "up", "count", "no_cache", "not_answering", "tag", "calls"}
          /\ DOMAIN k' = {"pc", "cmd", "try", "polls", "done", "sensing", "cause", "moved", "buf"}
          /\ DOMAIN call' = {"op", "id", "lba", "n", "data", "got", "res"}
      BY <2>1, <2>2, <2>3, BusyDriver
    <3>3. ms'.id \in Nat \ {0} /\ ms'.tag \in Nat \ {0} /\ ms'.calls \in Nat
      BY <2>1, BusyDriver
    <3> QED BY ZenonT(30), <1>4, <2>1, <2>2, <2>3, <2>6, <3>1, <3>2, <3>3, BusyDriver DEF DriverOK, Busy, Places, Recovering
  <2>8. Placed(dev', ms', k', call')
    BY ZenonT(30), <1>5, <2>3 DEF Placed, AfterData
  <2>9. DiskOK(dev', k', call', torn')
    BY <1>1, <1>5, <2>2, <2>3 DEF DiskOK
  <2>10. TurnOK(dev', ms', k')
    BY ZenonT(30), <2>3 DEF TurnOK, Took, Settled, InStep, Quiet, Recovering
  <2>11. FlushOK(dev', ms', call')
    BY <2>2 DEF FlushOK
  <2> QED BY ZenonT(30), <2>4, <2>7, <2>8, <2>9, <2>10, <2>11 DEF SInv, Agree, Took
<1>8. CASE /\ ~(done < call.n)
           /\ k' = Idle
           /\ call' = [call EXCEPT !.got = got, !.res = "ok"]
           /\ torn' = {}
           /\ ms' = ms
  <2>1. done = call.n
    BY <1>1, <1>2, <1>8
  <2>2. /\ DOMAIN call' = DOMAIN call /\ call'.got = got /\ call'.op = call.op /\ call'.res = "ok"
        /\ [call' EXCEPT !.res = "busy", !.got = <<>>] = [call EXCEPT !.got = <<>>]
    BY ZenonT(60), <1>8, BusyDriver DEF Busy
  <2>3. Disk!Blocks(call) \subseteq DOMAIN dev.disk
    <3>1. \A i \in 1..call.n : call.lba + i - 1 \in 0..dev.kind.last
      BY SMTT(60), <1>2, <1>4, BusyDriver
    <3> QED BY <1>4, <3>1 DEF Disk!Blocks
  <2>4. Disk!Ends
    <3>1. call.op = "read" => call'.got = [i \in 1..call.n |-> dev.disk[call.lba + i - 1]]
      BY <1>1, <2>1, <2>2
    <3>2. call.op = "write" => \A i \in 1..call.n : dev'.disk[call.lba + i - 1] = call.data[i]
      BY <1>1, <2>1
    <3>3. call.n > 0
      BY <1>2
    <3>4. \A l \in DOMAIN dev.disk : dev'.disk[l] = dev.disk[l]
      OBVIOUS
    <3>5. torn' = CASE call'.res = "ok" /\ call.n > 0 -> {}
                   [] call'.res # "ok" /\ call.op = "write" -> torn \cup Disk!Blocks(call)
                   [] OTHER -> torn
      BY <1>8, <2>2, <3>3
    <3> QED BY <1>2, <1>4, <1>8, <2>2, <2>3, <3>1, <3>2, <3>4, <3>5, BusyDriver DEF Disk!Ends, Busy
  <2>5. DriverOK(ms', Idle, call', dev'.kind)
    <3>1. Idle.pc = "idle" /\ Idle.sensing = FALSE /\ Idle.cause = "ok"
          /\ DOMAIN Idle = {"pc", "cmd", "try", "polls", "done", "sensing", "cause", "moved", "buf"}
      BY DEF Idle
    <3> QED BY ZenonT(30), <1>4, <1>8, <2>2, <3>1, BusyDriver DEF DriverOK, Busy, Places, Recovering
  <2>6. FlushOK(dev', ms', call')
    BY <2>2 DEF FlushOK
  <2>7. Agree(dev', ms', Idle, call', torn')
    BY <1>5, <1>8, <2>5, <2>6, IdleAgrees
  <2> QED BY <1>8, <2>4, <2>7 DEF SInv
<1> QED BY <1>6, <1>7, <1>8

(* A command succeeded. *)
LEMMA SucceededKeeps ==
    ASSUME Sizes, SInv, k.pc \notin {"idle", "lun"}, ~k.sensing,
           Took(dev'), Settled(dev'), dev'.phase.at = "cbw", dev'.disk = dev.disk, dev'.synced = dev.synced,
           dev'.failed = dev.failed,
           \/ Told(dev, ms, k, call) /\ dev.phase.status = "passed"
           \/ k.moved = 0 /\ dev.failed,
           k.cmd.need = "all" => k.moved = k.cmd.length, Succeeded(k)
    PROVE  SInv' /\ (Disk!Works \/ Disk!Ends)
<1>1. Sent(k) = k.cmd
  BY DEF Sent
<1>2. CASE call.op \in {"read", "write"}
  <2>1. k.moved = k.cmd.length /\ k.cmd.length # 0
    BY ZenonT(30), <1>2, SentOK DEF Piece
  <2> QED BY <1>2, <2>1, PieceKeeps
<1>3. CASE call.op = "flush"
  <2>1. k.cmd = synchronize_cache_10
    BY <1>3, BusyDriver DEF RequestOK
  <2>2. k.cmd.op = "synchronize_cache" /\ k.cmd.length = 0
    BY <2>1 DEF synchronize_cache_10, Cdb
  <2>3. Finish("ok")
    BY <2>2 DEF Succeeded
  <2>4. Told(dev, ms, k, call) /\ dev.phase.status = "passed" => dev.synced
    BY <1>1, <2>2 DEF Told
  <2> QED BY <1>3, <2>3, <2>4, FinishKeeps
<1>4. CASE call.op = "start"
  <2>1. k.cmd \in Setup
    BY <1>4, BusyDriver DEF RequestOK
  <2>2. CASE Finish("protocol") \/ Finish("unsupported")
    BY <2>2, FinishKeeps
  <2>3. ASSUME NEW cdb \in Setup, Sends(NewCommand(cdb)) PROVE SInv' /\ Disk!Works
    <3> DEFINE w == NewCommand(cdb)
    <3>1. /\ DOMAIN w = {"pc", "cmd", "try", "polls", "done", "sensing", "cause", "moved", "buf"}
          /\ w.cmd = cdb /\ w.sensing = FALSE /\ w.cause = k.cause /\ w.done = k.done /\ w.pc = "cbw"
      BY ZenonT(30), NewCommandIs
    <3> HIDE DEF w
    <3> QED BY ZenonT(30), <1>4, <2>3, <3>1, StartGoesOn DEF w
  <2>4. CASE k.cmd = inquiry
    <3>1. k.cmd.op = "inquiry"
      BY <2>4 DEF inquiry, Cdb
    <3>2. CASE Sends([NewCommand(test_unit_ready) EXCEPT !.polls = 1])
      <4> DEFINE v == NewCommand(test_unit_ready)
                 w == [v EXCEPT !.polls = 1]
      <4>1. /\ DOMAIN v = {"pc", "cmd", "try", "polls", "done", "sensing", "cause", "moved", "buf"}
            /\ v.cmd = test_unit_ready /\ v.sensing = FALSE /\ v.cause = k.cause /\ v.done = k.done
        BY ZenonT(30), NewCommandIs
      <4> HIDE DEF v
      <4>2. /\ DOMAIN w = {"pc", "cmd", "try", "polls", "done", "sensing", "cause", "moved", "buf"}
            /\ w.cmd \in Setup /\ w.sensing = FALSE /\ w.cause = k.cause /\ w.done = k.done
        BY <4>1 DEF Setup
      <4>3. Sends(w)
        BY <3>2 DEF v
      <4> HIDE DEF w
      <4> QED BY ZenonT(30), <1>4, <4>2, <4>3, StartGoesOn
    <3> QED BY <2>2, <3>1, <3>2 DEF Succeeded
  <2>5. CASE k.cmd = test_unit_ready
    <3>1. k.cmd.op = "test_unit_ready"
      BY <2>5 DEF test_unit_ready, Cdb
    <3>2. Sends(NewCommand(read_capacity_10))
      BY <3>1 DEF Succeeded
    <3> QED BY <2>3, <3>2 DEF Setup
  <2>6. ASSUME k.moved # 0, k.cmd \in {read_capacity_10, read_capacity_16}
        PROVE  Told(dev, ms, k, call) /\ Tells(dev, k.cmd, k.buf)
    <3>1. k.cmd.length = 1 /\ k.cmd.dir = "in"
      BY <2>6 DEF read_capacity_10, read_capacity_16, Cdb
    <3> QED BY <1>1, <2>6, <3>1 DEF Told
  <2>7. dev.kind.last \in Nat /\ LAST10 \in Nat
    BY ZenonT(30) DEF SInv, Agree, StickOK, Sizes
  <2>8. CASE k.cmd = read_capacity_10
    <3>1. k.cmd.op = "read_capacity_10"
      BY <2>8 DEF read_capacity_10, Cdb
    <3>2. CASE Sends(NewCommand(read_capacity_16))
      BY ZenonT(30), <2>3, <3>2 DEF Setup
    <3>3. CASE k.moved # 0 /\ k.buf[1].last # LAST10 /\ Capacious(k.buf[1])
      <4>1. k.buf[1] = Capacity(dev, LAST10)
        BY ZenonT(30), <2>6, <2>8, <3>1, <3>3 DEF Tells
      <4>2. k.buf[1].last = IF dev.kind.last < LAST10 THEN dev.kind.last ELSE LAST10
        BY <4>1 DEF Capacity
      <4>3. k.buf[1].last = dev.kind.last
        BY ZenonT(30), <3>3, <4>2
      <4> QED BY ZenonT(30), <1>4, <2>7, <3>3, <4>3, CapaciousKeeps
    <3> QED BY <2>2, <3>1, <3>2, <3>3 DEF Succeeded
  <2>9. CASE k.cmd = read_capacity_16
    <3>1. k.cmd.op = "read_capacity_16"
      BY <2>9 DEF read_capacity_16, Cdb
    <3>2. CASE k.moved # 0 /\ Capacious(k.buf[1])
      <4>1. k.buf[1] = Capacity(dev, dev.kind.last)
        BY ZenonT(30), <2>6, <2>9, <3>1, <3>2 DEF Tells
      <4>2. k.buf[1].last = dev.kind.last
        BY <4>1 DEF Capacity
      <4> QED BY <1>4, <2>7, <3>2, <4>2, CapaciousKeeps
    <3> QED BY <2>2, <3>1, <3>2 DEF Succeeded
  <2> QED BY <2>1, <2>4, <2>5, <2>8, <2>9 DEF Setup
<1> QED BY <1>2, <1>3, <1>4, BusyDriver

(* The CSW c came. *)
LEMMA HaveCswKeeps ==
    ASSUME Sizes, SInv, k.pc \in {"csw", "csw_again"}, ~dev.gone, dev.phase.at = "csw",
           Took(dev'), Settled(dev'), dev'.phase.at = "cbw", dev'.disk = dev.disk, dev'.synced = dev.synced,
           dev'.failed = dev.failed, NEW c, "valid" \in DOMAIN c, c.status = dev.phase.status, HaveCsw(c)
    PROVE  SInv' /\ (Disk!Works \/ Disk!Ends)
<1> DEFINE status == Parse(c, Length)
<1>1. c.status \in Statuses
  BY DEF SInv, Agree, StickOK, PhaseOK, CswOK
<1>2. status \in {"protocol", c.status}
  BY DEF Parse
<1>3. \/ Told(dev, ms, k, call)
      \/ k.moved = 0 /\ Stale(dev, ms.tag - 1)
  <2>1. \/ k.moved = 0 /\ (Runs(dev, Sent(k), ms.tag - 1) \/ Stale(dev, ms.tag - 1))
        \/ Told(dev, ms, k, call)
    BY ZenonT(30) DEF SInv, Agree, Placed, AfterData
  <2>2. CmdOK(Sent(k))
    BY ZenonT(30), SentOK
  <2>3. ~Runs(dev, Sent(k), ms.tag - 1)
    BY ZenonT(30), <2>2 DEF Runs, CmdOK
  <2> QED BY ZenonT(30), <2>1, <2>3
<1>4. Stale(dev, ms.tag - 1) => dev.failed
  BY BusyDriver DEF SInv, Agree, TurnOK, InStep, Stale
<1>5. k.pc \notin {"idle", "lun"}
  BY ZenonT(30)
<1>6. CASE status \in {"protocol", "phase_error"}
  <2>1. Recover("protocol")
    BY ZenonT(30), <1>6 DEF HaveCsw
  <2> QED BY <1>5, <2>1, RecoverKeeps DEF Causes
<1> HIDE DEF status
<1>7. CASE status = "passed" /\ k.sensing
  <2> DEFINE e == IF k.moved = 0 THEN "protocol" ELSE k.buf[1]
  <2>1. ExecuteFails(e)
    BY <1>7 DEF HaveCsw, status
  <2>2. e \notin {"ok", "busy"} /\ (e = "illegal_request" => ~dev.kind.cache)
    <3>1. CASE k.moved = 0
      BY <3>1
    <3>2. CASE k.moved # 0
      <4>1. Told(dev, ms, k, call) /\ dev.phase.status = "passed"
        BY <1>2, <1>3, <1>7, <3>2
      <4>2. Sent(k) = request_sense
        BY <1>7 DEF Sent
      <4>3. Sent(k).length = 1 /\ Sent(k).dir = "in" /\ Sent(k).op = "request_sense"
        BY <4>2 DEF request_sense, Cdb
      <4>4. SenseOK(k.buf[1], dev.kind)
        BY <3>2, <4>1, <4>3 DEF Told, Tells
      <4> QED BY <3>2, <4>4 DEF SenseOK, Senses
    <3> QED BY <3>1, <3>2
  <2> HIDE DEF e
  <2> QED BY <1>5, <2>1, <2>2, ExecuteFailsKeeps
<1>8. CASE status = "passed" /\ ~k.sensing
  <2>1. CASE Complete(c) /\ Succeeded(k)
    <3>1. k.cmd.need = "all" => k.moved = k.cmd.length
      BY ZenonT(30), <2>1 DEF Complete
    <3>2. dev.phase.status = "passed"
      BY <1>2, <1>8
    <3> QED BY ZenonT(30), <1>3, <1>4, <1>5, <1>8, <2>1, <3>1, <3>2, SucceededKeeps
  <2>2. CASE ExecuteFails("protocol")
    BY <1>5, <2>2, ExecuteFailsKeeps
  <2> QED BY <1>8, <2>1, <2>2 DEF HaveCsw, status
<1>9. CASE status = "failed" /\ k.sensing
  <2>1. ExecuteFails("protocol")
    BY <1>9 DEF HaveCsw, status
  <2> QED BY <1>5, <2>1, ExecuteFailsKeeps
<1>10. CASE status = "failed" /\ ~k.sensing
  <2> DEFINE w == [k EXCEPT !.sensing = TRUE]
  <2>1. Sends(w)
    BY ZenonT(30), <1>10 DEF HaveCsw, status
  <2>2. /\ DOMAIN w = DOMAIN k /\ w.pc = k.pc /\ w.cmd = k.cmd /\ w.done = k.done /\ w.sensing = TRUE
        /\ w.cause = k.cause
    OBVIOUS
  <2> HIDE DEF w
  <2>3. RequestOK(ms, [w EXCEPT !.pc = "cbw"], call)
    <3> DEFINE v == [w EXCEPT !.pc = "cbw"]
    <3>1. v.pc = "cbw" /\ v.cmd = k.cmd /\ v.done = k.done
      BY <2>2
    <3> HIDE DEF v
    <3>2. RequestOK(ms, v, call)
      BY <1>5, <3>1, BusyDriver DEF RequestOK
    <3> QED BY <3>2 DEF v
  <2> QED BY ZenonT(30), <2>1, <2>2, <2>3, SendsKeeps, BusyDriver
<1> QED BY <1>1, <1>2, <1>6, <1>7, <1>8, <1>9, <1>10 DEF Statuses
-----------------------------------------------------------------------------
(* The steps. *)

(* A CBW is sent. *)
LEMMA SendCbwStep ==
    ASSUME Sizes, SInv, SendCbw
    PROVE  SInv' /\ (Disk!Works \/ Disk!Ends)
<1> DEFINE c == Sent(k)
           t == ms.tag - 1
<1>1. k.pc = "cbw"
  BY DEF SendCbw, At
<1>2. t \in Nat /\ t + 1 = ms.tag
  BY <1>1, BusyDriver
<1>3. StickOK(dev) /\ TagBelow(dev.phase, t) /\ k.moved = 0
  BY <1>1 DEF SInv, Agree, Placed
<1>4. CmdOK(c) /\ InRange(dev, c)
  BY <1>1, SentOK
<1>5. WithTag(Current) = Wrapped(c, t)
  BY DEF WithTag, Current, Wrapped, Sent
<1>6. Length = c.length
  BY DEF Length, Sent, request_sense, Cdb
<1>7. PICK o \in BulkOut(dev, "cbw", Wrapped(c, t)) :
         /\ dev' = o.x
         /\ IF o.res # "ok" THEN Recover(o.res) ELSE Goto(IF c.length > 0 THEN "data" ELSE "csw")
  BY <1>5, <1>6 DEF SendCbw, Step
<1>8. CbwSent(dev, dev', o.res, c, t) /\ Absent(dev, o)
  BY <1>2, <1>3, <1>4, <1>7, CbwOutcome
<1> HIDE DEF c, t
<1>9. dev.failed \/ dev.gone \/ Quiet(dev)
  BY <1>1 DEF SInv, Agree, TurnOK, InStep
<1>10. Took(dev')
  <2>1. dev'.broken => dev'.failed
    BY ZenonT(30), <1>7, <1>8, <1>9 DEF CbwSent, Moved, Absent, SInv, Agree, TurnOK
  <2>2. StickOK(dev') /\ Moved(dev, dev') /\ TagBelow(dev'.phase, ms.tag)
    BY <1>2, <1>8 DEF CbwSent
  <2>3. OutBlocks(dev'.phase) \subseteq
           OutBlocks(dev.phase) \cup (IF k.pc \notin {"idle", "lun"} /\ Sent(k).op = "write"
                                      THEN Sent(k).lba..(Sent(k).lba + Sent(k).length - 1) ELSE {})
    BY <1>1, <1>8 DEF CbwSent, c
  <2> QED BY <2>1, <2>2, <2>3, TookMoved
<1>11. CASE o.res # "ok"
  BY <1>1, <1>7, <1>8, <1>10, <1>11, RecoverKeeps DEF CbwSent
<1>12. CASE o.res = "ok"
  <2> DEFINE w == [k EXCEPT !.pc = IF c.length > 0 THEN "data" ELSE "csw"]
  <2>1. GoOn(w)
    BY <1>7, <1>12 DEF Goto
  <2>2. /\ DOMAIN w = DOMAIN k /\ w.pc = (IF c.length > 0 THEN "data" ELSE "csw") /\ w.cmd = k.cmd
        /\ w.done = k.done /\ w.sensing = k.sensing /\ w.cause = k.cause /\ w.moved = k.moved
    BY <1>1
  <2> HIDE DEF w
  <2>3. Sent(w) = c
    BY <2>2 DEF Sent, c
  <2>4. w.pc \in {"data", "csw"} /\ (w.pc = "data" <=> c.length > 0)
    BY <2>2
  <2>5. c.length \in Nat /\ (c.length = 0 => c.dir = "out" /\ c.op # "write")
    BY <1>4 DEF CmdOK
  <2>6. Taken(dev', c, t) \/ (Stale(dev', t) /\ ~Quiet(dev))
    BY <1>8, <1>12 DEF CbwSent
  <2>7. Taken(dev', c, t) /\ c.length = 0 => Told(dev', ms, w, call)
    <3> SUFFICES ASSUME Taken(dev', c, t), c.length = 0 PROVE Told(dev', ms, w, call)
      OBVIOUS
    <3>1. /\ CswOK(dev'.phase) /\ dev'.phase.tag = t
          /\ c.op = "synchronize_cache" /\ dev'.phase.status = "passed" => dev'.synced
      BY DEF Taken
    <3>2. w.moved \in 0..c.length
      BY <1>3, <2>2
    <3> QED BY <2>3, <2>5, <3>1, <3>2 DEF Told, CswOK, t
  <2>8. Placed(dev', ms, w, call)
    <3>1. TagBelow(dev'.phase, ms.tag)
      BY <1>2, <1>8 DEF CbwSent
    <3>2. w.pc = "data" => Runs(dev', c, t) \/ Stale(dev', t)
      BY <2>4, <2>6 DEF Taken
    <3>3. w.pc = "csw" => Stale(dev', t) \/ Told(dev', ms, w, call)
      BY <2>4, <2>5, <2>6, <2>7
    <3> QED BY <1>3, <2>2, <2>3, <2>4, <3>1, <3>2, <3>3 DEF Placed, AfterData, t
  <2>9. dev'.failed \/ dev'.gone \/ InStep(dev', ms, w)
    <3> SUFFICES ASSUME ~dev'.failed, ~dev'.gone PROVE InStep(dev', ms, w)
      OBVIOUS
    <3>1. Quiet(dev)
      BY <1>8, <1>9 DEF CbwSent, Moved
    <3>2. dev'.uncleared = {} /\ dev'.halted = {}
      BY <1>8, <3>1 DEF CbwSent, Moved, Quiet
    <3>3. Taken(dev', c, t)
      BY <2>6, <3>1
    <3>4. w.pc = "data" => Runs(dev', c, t)
      BY <2>4, <3>3 DEF Taken
    <3>5. w.pc = "csw" => dev'.phase.at = "csw" /\ dev'.phase.tag = t
      BY <2>4, <2>5, <3>3 DEF Taken, CswOK
    <3> QED BY <2>3, <2>4, <3>2, <3>4, <3>5 DEF InStep, Recovering, t
  <2>10. w.pc \in Places \ {"idle", "lun"} /\ w.pc \notin Recovering
    BY <2>4 DEF Places, Recovering
  <2> QED BY <1>1, <1>10, <2>1, <2>2, <2>8, <2>9, <2>10, GoOnKeeps, BusyDriver
<1> QED BY <1>11, <1>12

(* The blocks that a write sends with its command. *)
LEMMA PayloadIs ==
    ASSUME Sizes, SInv, k.pc = "data", Sent(k).dir = "out"
    PROVE  /\ Len(Payload) = Sent(k).length /\ Sent(k).op = "write"
           /\ \A i \in 1..Sent(k).length : Payload[i] \in Data /\ Payload[i] = call.data[k.done + i]
<1>1. CmdOK(Sent(k)) /\ Sent(k).length > 0
  BY SentOK DEF SInv, Agree, Placed
<1>2. Sent(k).op = "write"
  BY <1>1 DEF CmdOK
<1>3. ~k.sensing
  BY <1>2 DEF Sent, request_sense, Cdb
<1>4. Sent(k) = k.cmd
  BY <1>3 DEF Sent
<1>5. call.op = "write"
  <2>1. call.op # "start"
    <3>1. k.cmd \notin Setup
      BY <1>2, <1>4 DEF Setup, inquiry, test_unit_ready, read_capacity_10, read_capacity_16, Cdb
    <3> QED BY <3>1, BusyDriver DEF RequestOK
  <2>2. call.op # "flush"
    <3>1. k.cmd # synchronize_cache_10
      BY <1>2, <1>4 DEF synchronize_cache_10, Cdb
    <3> QED BY <3>1, BusyDriver DEF RequestOK
  <2>3. call.op \in {"read", "write"} => k.cmd.op = call.op
    BY SentOK DEF Piece
  <2> QED BY <1>2, <1>4, <2>1, <2>2, <2>3, BusyDriver
<1>6. call.data \in Seq(Data) /\ Len(call.data) = call.n /\ k.done \in Nat /\ call.n \in Nat
  BY <1>5, BusyDriver DEF RequestOK
<1>7. k.cmd.length \in Nat /\ k.done + k.cmd.length <= call.n
  BY <1>5, SentOK DEF Piece
<1> HIDE BusyDriver
<1> DEFINE s == call.data
           a == k.done
           b == k.cmd.length
           p == SubSeq(s, a + 1, a + b)
<1>8. s \in Seq(Data) /\ a \in Nat /\ b \in Nat /\ a + b <= Len(s) /\ Payload = p
  BY <1>6, <1>7 DEF Payload
<1> HIDE DEF s, a, b
<1>9. Len(p) = b
  BY ONLY <1>8
<1>10. ASSUME NEW i \in 1..b PROVE p[i] = s[a + i] /\ a + i \in 1..Len(s)
  <2>1. i \in 1..((a + b) - (a + 1) + 1)
    BY ONLY <1>8, i \in 1..b
  <2> QED BY ONLY <1>8, <2>1, i \in 1..b
<1>11. ASSUME NEW i \in 1..Len(s) PROVE s[i] \in Data
  BY ONLY <1>8, i \in 1..Len(s)
<1> HIDE DEF p
<1> QED BY <1>2, <1>4, <1>8, <1>9, <1>10, <1>11 DEF s, a, b

(* Blocks or an answer are moved. *)
LEMMA DataPhaseStep ==
    ASSUME Sizes, SInv, DataPhase
    PROVE  SInv' /\ (Disk!Works \/ Disk!Ends)
<1> DEFINE c == Sent(k)
           t == ms.tag - 1
<1>1. k.pc = "data"
  BY DEF DataPhase, At
<1>2. t \in Nat /\ t + 1 = ms.tag
  BY <1>1, BusyDriver
<1>3. StickOK(dev) /\ k.moved = 0 /\ c.length > 0 /\ (Runs(dev, c, t) \/ Stale(dev, t))
  BY <1>1 DEF SInv, Agree, Placed
<1>4. CmdOK(c) /\ InRange(dev, c)
  BY <1>1, SentOK
<1>5. c.dir \in Ends /\ c.length \in Nat \ {0} /\ c.op # "synchronize_cache"
  BY <1>3, <1>4 DEF CmdOK, Ends
<1>6. Current = c /\ Length = c.length
  BY DEF Length, Current, Sent, request_sense, Cdb
<1>7. PICK o \in IF c.dir = "in" THEN BulkIn(dev, c.length, "data") ELSE BulkOut(dev, "data", Payload) :
         /\ dev' = o.x
         /\ CASE o.res = "stall" -> Goto("unstall")
              [] o.res = "ok" -> GoOn([k EXCEPT !.pc = "csw", !.buf = o.data,
                                                !.moved = IF c.dir = "in" THEN Len(o.data) ELSE c.length])
              [] OTHER -> Recover(o.res)
  BY ZenonT(30), <1>6 DEF DataPhase, Step
<1>8. DataSent(dev, dev', o.res, o.data, c, t, Payload) /\ Absent(dev, o)
  <2>1. CASE c.dir = "in"
    BY ZenonT(30), <1>2, <1>3, <1>4, <1>7, <2>1, DataInOutcome
  <2>2. CASE c.dir = "out"
    <3>1. Len(Payload) = c.length /\ \A i \in 1..c.length : Payload[i] \in Data
      BY <1>1, <2>2, PayloadIs
    <3>2. o \in BulkOut(dev, "data", Payload)
      BY <1>7, <2>2
    <3> HIDE DEF c, t
    <3> QED BY <1>2, <1>3, <1>4, <1>7, <2>2, <3>1, <3>2, DataOutOutcome
  <2> QED BY <1>5, <2>1, <2>2 DEF Ends
<1>9. dev.failed \/ dev.gone \/ (Runs(dev, c, t) /\ dev.halted = {} /\ dev.uncleared = {})
  BY <1>1 DEF SInv, Agree, TurnOK, InStep, Recovering
<1> HIDE DEF c, t
<1>10. Took(dev')
  <2>1. dev'.broken => dev'.failed
    BY ZenonT(30), <1>7, <1>8, <1>9 DEF DataSent, Moved, Absent, SInv, Agree, TurnOK
  <2>2. StickOK(dev') /\ Moved(dev, dev') /\ TagBelow(dev'.phase, ms.tag)
    BY <1>2, <1>8 DEF DataSent
  <2>3. OutBlocks(dev'.phase) \subseteq OutBlocks(dev.phase)
    BY <1>8 DEF DataSent
  <2> QED BY <2>1, <2>2, <2>3, TookMoved
<1>11. o.res \in Causes \cup {"ok", "gone"} /\ (o.res = "gone" => dev'.gone)
  BY <1>8 DEF DataSent
<1>12. ASSUME NEW w, GoOn(w), DOMAIN w = DOMAIN k, w.pc \in {"unstall", "csw"}, w.cmd = k.cmd, w.done = k.done,
              w.sensing = k.sensing, w.cause = k.cause, w.pc = "unstall" => w.moved = 0,
              \/ dev'.phase.at = "cbw"
              \/ w.moved = 0 /\ (Runs(dev', c, t) \/ Stale(dev', t))
              \/ Told(dev', ms, w, call),
              Runs(dev, c, t) /\ dev.halted = {} =>
                 /\ dev'.phase.at = "csw" /\ dev'.phase.tag = t
                 /\ dev'.halted = IF w.pc = "csw" THEN {} ELSE {c.dir}
       PROVE  SInv' /\ Disk!Works
  <2>1. Sent(w) = c
    BY <1>12 DEF Sent, c
  <2>2. Placed(dev', ms, w, call)
    BY <1>3, <1>10, <1>12, <2>1 DEF Placed, AfterData, Took, t
  <2>3. dev'.failed \/ dev'.gone \/ InStep(dev', ms, w)
    <3> SUFFICES ASSUME ~dev'.failed, ~dev'.gone PROVE InStep(dev', ms, w)
      OBVIOUS
    <3>1. Runs(dev, c, t) /\ dev.halted = {} /\ dev.uncleared = {}
      BY <1>8, <1>9 DEF DataSent, Moved
    <3>2. dev'.uncleared = {}
      BY <1>8, <3>1 DEF DataSent, Moved
    <3> QED BY <1>12, <2>1, <3>1, <3>2 DEF InStep, Recovering, t
  <2>4. w.pc \in Places \ {"idle", "lun"} /\ w.pc \notin Recovering
    BY <1>12 DEF Places, Recovering
  <2> QED BY <1>1, <1>10, <1>12, <2>2, <2>3, <2>4, GoOnKeeps, BusyDriver
<1>13. CASE o.res = "stall"
  <2> DEFINE w == [k EXCEPT !.pc = "unstall"]
  <2>1. GoOn(w)
    BY <1>7, <1>13 DEF Goto
  <2>2. /\ DOMAIN w = DOMAIN k /\ w.pc = "unstall" /\ w.cmd = k.cmd
        /\ w.done = k.done /\ w.sensing = k.sensing /\ w.cause = k.cause /\ w.moved = 0
    BY <1>1, <1>3
  <2> HIDE DEF w
  <2>3. dev'.phase.at = "csw" /\ dev'.phase.tag = t => Told(dev', ms, w, call)
    <3>1. Sent(w) = c
      BY <2>2 DEF Sent, c
    <3> QED BY <1>5, <2>2, <3>1 DEF Told, t
  <2>4. Runs(dev', c, t) \/ Stale(dev', t) \/ Told(dev', ms, w, call)
    BY <1>8, <1>13, <2>3 DEF DataSent
  <2>5. Runs(dev, c, t) /\ dev.halted = {} => dev'.phase.at = "csw" /\ dev'.phase.tag = t /\ dev'.halted = {c.dir}
    BY <1>8, <1>13 DEF DataSent
  <2> QED BY ZenonT(30), <1>12, <2>1, <2>2, <2>4, <2>5
<1>14. CASE o.res = "ok"
  <2> DEFINE n == IF c.dir = "in" THEN Len(o.data) ELSE c.length
             w == [k EXCEPT !.pc = "csw", !.buf = o.data, !.moved = n]
  <2>1. GoOn(w)
    BY <1>7, <1>14
  <2>2. /\ DOMAIN w = DOMAIN k /\ w.pc = "csw" /\ w.cmd = k.cmd /\ w.buf = o.data
        /\ w.done = k.done /\ w.sensing = k.sensing /\ w.cause = k.cause /\ w.moved = n
    BY <1>1
  <2> HIDE DEF w
  <2>3. dev'.phase.at = "cbw" \/ DataDone(dev', c, t, n, o.data, Payload)
    BY <1>8, <1>14 DEF DataSent
  <2> HIDE DEF n
  <2>4. DataDone(dev', c, t, n, o.data, Payload) => Told(dev', ms, w, call)
    <3>1. Sent(w) = c
      BY <2>2 DEF Sent, c
    <3>2. c.op = "write" => \A i \in 1..c.length : Payload[i] = call.data[k.done + i]
      <4>1. c.op = "write" => c.dir = "out"
        BY <1>4 DEF CmdOK
      <4> QED BY <1>1, <4>1, PayloadIs DEF c
    <3> SUFFICES ASSUME DataDone(dev', c, t, n, o.data, Payload) PROVE Told(dev', ms, w, call)
      OBVIOUS
    <3>3. dev'.phase.at = "csw" /\ dev'.phase.tag = t /\ n \in 0..c.length
      BY DEF DataDone
    <3>4. ASSUME dev'.phase.status = "passed", n = c.length
          PROVE  /\ c.dir = "in" => Tells(dev', c, o.data)
                 /\ c.op = "write" => \A i \in 1..c.length : dev'.disk[c.lba + i - 1] = call.data[k.done + i]
      BY <3>2, <3>4 DEF DataDone
    <3> QED BY <1>5, <2>2, <3>1, <3>3, <3>4 DEF Told, t
  <2>5. Runs(dev, c, t) /\ dev.halted = {} => dev'.phase.at = "csw" /\ dev'.phase.tag = t /\ dev'.halted = {}
    BY <1>8, <1>14 DEF DataSent
  <2> QED BY ZenonT(30), <1>12, <2>1, <2>2, <2>3, <2>4, <2>5
<1>15. CASE o.res \notin {"stall", "ok"}
  <2>1. Recover(o.res)
    BY <1>7, <1>15
  <2>2. o.res \in Causes \cup {"gone"}
    BY <1>11, <1>15
  <2> QED BY <1>1, <1>10, <1>11, <2>1, <2>2, RecoverKeeps
<1> QED BY <1>13, <1>14, <1>15

(* A stick whose blocks did not change, with no new data phase. *)
LEMMA TookKept ==
    ASSUME Sizes, SInv, NEW y, StickOK(y), y.kind = dev.kind, y.disk = dev.disk, y.broken => y.failed,
           \/ y.phase = dev.phase
           \/ y.phase.at = "cbw"
           \/ dev.phase.at = "in" /\ CswOK(y.phase) /\ y.phase.tag = dev.phase.csw.tag
    PROVE  Took(y)
<1>1. DiskOK(dev, k, call, torn) /\ TagBelow(dev.phase, ms.tag)
  BY DEF SInv, Agree, Placed
<1>2. TagBelow(y.phase, ms.tag)
  BY <1>1 DEF TagBelow, TagOf, CswOK
<1>3. OutBlocks(y.phase) = OutBlocks(dev.phase) \/ OutBlocks(y.phase) = {}
  BY DEF OutBlocks, CswOK
<1>4. DiskOK(y, k, call, torn)
  BY <1>1, <1>3 DEF DiskOK
<1> QED BY <1>2, <1>4 DEF Took

(* What was told, and where the stick is, as long as nothing changes it. *)
LEMMA PlacedKept ==
    ASSUME Sizes, SInv, k.pc \in AfterData, NEW y, y.kind = dev.kind, y.disk = dev.disk, y.synced = dev.synced,
           y.phase = dev.phase, NEW w, w.pc \in AfterData \ {"unstall"}, w.cmd = k.cmd, w.done = k.done,
           w.sensing = k.sensing, w.moved = k.moved, w.buf = k.buf
    PROVE  Placed(y, ms, w, call)
<1>1. Sent(w) = Sent(k)
  BY DEF Sent
<1>2. \A data : Tells(dev, Sent(k), data) <=> Tells(y, Sent(k), data)
  BY DEF Tells, Capacity
<1>3. Told(dev, ms, k, call) => Told(y, ms, w, call)
  BY <1>1, <1>2 DEF Told
<1>4. Runs(dev, Sent(k), ms.tag - 1) => Runs(y, Sent(k), ms.tag - 1)
  BY <1>2 DEF Runs
<1>5. Stale(dev, ms.tag - 1) => Stale(y, ms.tag - 1)
  BY DEF Stale
<1>6. /\ TagBelow(dev.phase, ms.tag)
      /\ \/ dev.phase.at = "cbw"
         \/ k.moved = 0 /\ (Runs(dev, Sent(k), ms.tag - 1) \/ Stale(dev, ms.tag - 1))
         \/ Told(dev, ms, k, call)
  BY DEF SInv, Agree, Placed
<1> QED BY <1>1, <1>3, <1>4, <1>5, <1>6 DEF Placed, AfterData

(* A halt is cleared between a stall and the CSW. *)
LEMMA ClearedKeeps ==
    ASSUME Sizes, SInv, NEW pc, NEW ep \in Ends, NEW o \in ClearHalt(dev, ep), dev' = o.x,
           \/ k.pc = "unstall" /\ ep = Sent(k).dir /\ pc = "csw"
           \/ k.pc = "unstall_csw" /\ ep = "in" /\ pc = "csw_again",
           IF o.res = "ok" THEN Goto(pc) ELSE Recover(o.res)
    PROVE  SInv' /\ (Disk!Works \/ Disk!Ends)
<1>1. /\ Controlled(dev, dev') /\ o.res \in {"ok", "gone", "error"}
      /\ dev'.phase = dev.phase
      /\ o.res = "ok" => dev'.halted = dev.halted \ {ep} /\ dev'.uncleared = dev.uncleared \ {ep}
      /\ o.res = "gone" => dev'.gone
      /\ o.res = "error" => dev'.failed
  BY ClearOutcome DEF SInv, Agree
<1>2. Took(dev')
  <2>1. dev'.broken => dev'.failed
    BY <1>1 DEF Controlled, SInv, Agree, TurnOK
  <2> QED BY <1>1, <2>1, TookKept DEF Controlled
<1>3. CASE o.res # "ok"
  BY <1>1, <1>2, <1>3, RecoverKeeps DEF Causes
<1>4. CASE o.res = "ok"
  <2> DEFINE w == [k EXCEPT !.pc = pc]
  <2>1. GoOn(w)
    BY <1>4 DEF Goto
  <2>2. /\ DOMAIN w = DOMAIN k /\ w.pc = pc /\ w.cmd = k.cmd /\ w.buf = k.buf
        /\ w.done = k.done /\ w.sensing = k.sensing /\ w.cause = k.cause /\ w.moved = k.moved
    OBVIOUS
  <2> HIDE DEF w
  <2>3. Placed(dev', ms, w, call)
    BY <1>1, <2>2, PlacedKept DEF AfterData, Controlled
  <2>4. dev'.failed \/ dev'.gone \/ InStep(dev', ms, w)
    <3> SUFFICES ASSUME ~dev'.failed, ~dev'.gone PROVE InStep(dev', ms, w)
      OBVIOUS
    <3>1. InStep(dev, ms, k)
      BY <1>1 DEF Controlled, SInv, Agree, TurnOK
    <3>2. /\ dev.phase.at = "csw" /\ dev.phase.tag = ms.tag - 1 /\ dev.uncleared = {}
          /\ dev.halted = {ep}
      BY <3>1 DEF InStep, Recovering
    <3> QED BY <1>1, <1>4, <2>2, <3>2 DEF InStep, Recovering
  <2>5. w.pc \in Places \ {"idle", "lun"} /\ w.pc \notin Recovering
    BY <2>2 DEF Places, Recovering
  <2> QED BY <1>2, <2>1, <2>2, <2>3, <2>4, <2>5, GoOnKeeps, BusyDriver
<1> QED BY <1>3, <1>4

(* The endpoint that stalled the data phase. *)
LEMMA UnstallStep ==
    ASSUME Sizes, SInv, Unstall
    PROVE  SInv' /\ (Disk!Works \/ Disk!Ends)
<1>1. k.pc = "unstall"
  BY DEF Unstall, At
<1>2. Current.dir = Sent(k).dir /\ Sent(k).dir \in Ends
  BY <1>1, SentOK DEF Current, Sent, CmdOK, Ends
<1>3. PICK o \in ClearHalt(dev, Sent(k).dir) :
         dev' = o.x /\ IF o.res = "ok" THEN Goto("csw") ELSE Recover(o.res)
  BY <1>2 DEF Unstall, Step
<1> QED BY <1>1, <1>2, <1>3, ClearedKeeps

(* The endpoint that stalled the CSW. *)
LEMMA UnstallCswStep ==
    ASSUME Sizes, SInv, UnstallCsw
    PROVE  SInv' /\ (Disk!Works \/ Disk!Ends)
<1>1. k.pc = "unstall_csw"
  BY DEF UnstallCsw, At
<1>2. PICK o \in ClearHalt(dev, "in") :
         dev' = o.x /\ IF o.res = "ok" THEN Goto("csw_again") ELSE Recover(o.res)
  BY DEF UnstallCsw, Step
<1>3. "in" \in Ends
  BY DEF Ends
<1> QED BY <1>1, <1>2, <1>3, ClearedKeeps

(* The CSW was asked for. *)
LEMMA CswTook ==
    ASSUME Sizes, SInv, k.pc \in {"csw", "csw_again"}, NEW o \in BulkIn(dev, 1, "csw"), dev' = o.x
    PROVE  /\ CswRead(dev, dev', o.res, o.data) /\ (dev.gone => o.res = "gone") /\ Took(dev')
           /\ dev.failed \/ dev.gone \/ (dev.phase.at = "csw" /\ dev.phase.tag = ms.tag - 1 /\ dev.halted = {} /\ dev.uncleared = {})
<1>1. CswRead(dev, dev', o.res, o.data) /\ Absent(dev, o)
  BY CswOutcome DEF SInv, Agree
<1>2. dev.failed \/ dev.gone \/ (dev.phase.at = "csw" /\ dev.phase.tag = ms.tag - 1 /\ dev.halted = {} /\ dev.uncleared = {})
  BY DEF SInv, Agree, TurnOK, InStep, Recovering
<1>3. dev'.broken => dev'.failed
  BY ZenonT(30), <1>1, <1>2 DEF CswRead, Absent, SInv, Agree, TurnOK
<1>4. Took(dev')
  <2>1. /\ StickOK(dev') /\ dev'.kind = dev.kind /\ dev'.disk = dev.disk
        /\ \/ dev'.phase = dev.phase
           \/ dev'.phase.at = "cbw"
           \/ dev.phase.at = "in" /\ CswOK(dev'.phase) /\ dev'.phase.tag = dev.phase.csw.tag
    BY <1>1 DEF CswRead
  <2> QED BY <1>3, <2>1, TookKept
<1> QED BY <1>1, <1>2, <1>4 DEF Absent

(* The CSW came, or the transfer failed. *)
LEMMA CswCame ==
    ASSUME Sizes, SInv, k.pc \in {"csw", "csw_again"}, NEW o \in BulkIn(dev, 1, "csw"), dev' = o.x,
           IF o.res = "ok" THEN HaveCsw(o.data[1]) ELSE Recover(o.res)
    PROVE  SInv' /\ (Disk!Works \/ Disk!Ends)
<1>1. /\ CswRead(dev, dev', o.res, o.data) /\ (dev.gone => o.res = "gone") /\ Took(dev')
      /\ dev.failed \/ dev.gone \/ (dev.phase.at = "csw" /\ dev.phase.tag = ms.tag - 1 /\ dev.halted = {} /\ dev.uncleared = {})
  BY CswTook
<1>2. CASE o.res # "ok"
  <2>1. o.res \in Causes \cup {"gone"} /\ (o.res = "gone" => dev'.gone)
    BY <1>1, <1>2 DEF CswRead
  <2> QED BY <1>1, <1>2, <2>1, RecoverKeeps
<1>3. CASE o.res = "ok"
  <2>1. /\ dev.phase.at = "csw" /\ dev'.phase.at = "cbw" /\ dev'.disk = dev.disk /\ dev'.synced = dev.synced
        /\ dev'.failed = dev.failed
    BY <1>1, <1>3 DEF CswRead
  <2>2. PICK v : o.data = <<v>> /\ "valid" \in DOMAIN v /\ v.status = dev.phase.status
    BY <1>1, <1>3 DEF CswRead
  <2>3. HaveCsw(v)
    BY <1>3, <2>2
  <2>4. ~dev.gone /\ Settled(dev')
    BY <1>1, <1>3, <2>1 DEF CswRead, Settled, Quiet
  <2> QED BY <1>1, <2>1, <2>2, <2>3, <2>4, HaveCswKeeps
<1> QED BY <1>2, <1>3

(* The second read of the CSW. *)
LEMMA ReadCswAgainStep ==
    ASSUME Sizes, SInv, ReadCswAgain
    PROVE  SInv' /\ (Disk!Works \/ Disk!Ends)
<1>1. k.pc = "csw_again"
  BY DEF ReadCswAgain, At
<1>2. PICK o \in BulkIn(dev, 1, "csw") :
         dev' = o.x /\ IF o.res = "ok" THEN HaveCsw(o.data[1]) ELSE Recover(o.res)
  BY DEF ReadCswAgain, Step
<1> QED BY <1>1, <1>2, CswCame

(* The first read of the CSW, which may stall. *)
LEMMA ReadCswStep ==
    ASSUME Sizes, SInv, ReadCsw
    PROVE  SInv' /\ (Disk!Works \/ Disk!Ends)
<1>1. k.pc = "csw"
  BY DEF ReadCsw, At
<1>2. PICK o \in BulkIn(dev, 1, "csw") :
         /\ dev' = o.x
         /\ CASE o.res = "stall" -> Goto("unstall_csw")
              [] o.res = "ok" -> HaveCsw(o.data[1])
              [] OTHER -> Recover(o.res)
  BY DEF ReadCsw, Step
<1>3. CASE o.res # "stall"
  <2>1. IF o.res = "ok" THEN HaveCsw(o.data[1]) ELSE Recover(o.res)
    BY <1>2, <1>3
  <2> QED BY <1>1, <1>2, <2>1, CswCame
<1>4. CASE o.res = "stall"
  <2>1. /\ CswRead(dev, dev', o.res, o.data) /\ Took(dev')
        /\ dev.failed \/ dev.gone \/ (dev.phase.at = "csw" /\ dev.phase.tag = ms.tag - 1 /\ dev.halted = {} /\ dev.uncleared = {})
    BY <1>1, <1>2, CswTook
  <2> DEFINE w == [k EXCEPT !.pc = "unstall_csw"]
  <2>2. GoOn(w)
    BY <1>2, <1>4 DEF Goto
  <2>3. /\ DOMAIN w = DOMAIN k /\ w.pc = "unstall_csw" /\ w.cmd = k.cmd /\ w.buf = k.buf
        /\ w.done = k.done /\ w.sensing = k.sensing /\ w.cause = k.cause /\ w.moved = k.moved
    BY <1>1
  <2> HIDE DEF w
  <2>4. Placed(dev', ms, w, call)
    <3>1. CASE dev'.phase = dev.phase
      BY <1>1, <2>1, <2>3, <3>1, PlacedKept DEF AfterData, CswRead
    <3>2. CASE dev'.phase.at = "cbw"
      BY ZenonT(30), <2>1, <2>3, <3>2 DEF Placed, AfterData, Took
    <3>3. CASE dev.phase.at = "in" /\ CswOK(dev'.phase) /\ dev'.phase.tag = dev.phase.csw.tag
      <4>1. k.moved = 0 /\ Runs(dev, Sent(k), ms.tag - 1)
        BY <1>1, <3>3 DEF SInv, Agree, Placed, AfterData, Stale, Told
      <4>2. Sent(w) = Sent(k)
        BY <2>3 DEF Sent
      <4>3. CmdOK(Sent(k))
        BY <1>1, SentOK
      <4>4. dev'.phase.tag = ms.tag - 1 /\ dev'.phase.at = "csw" /\ Sent(k).length > 0 /\ Sent(k).length \in Nat
        BY <3>3, <4>1, <4>3 DEF Runs, CswOK, CmdOK
      <4>5. Told(dev', ms, w, call)
        BY <2>3, <4>1, <4>2, <4>4 DEF Told
      <4> QED BY <2>1, <2>3, <4>5 DEF Placed, AfterData, Took
    <3> QED BY ZenonT(30), <2>1, <3>1, <3>2, <3>3 DEF CswRead
  <2>5. dev'.failed \/ dev'.gone \/ InStep(dev', ms, w)
    BY <1>4, <2>1, <2>3 DEF InStep, Recovering, CswRead
  <2>6. w.pc \in Places \ {"idle", "lun"} /\ w.pc \notin Recovering
    BY <2>3 DEF Places, Recovering
  <2> QED BY <1>1, <2>1, <2>2, <2>3, <2>4, <2>5, <2>6, GoOnKeeps, BusyDriver
<1> QED BY <1>3, <1>4

(* A step of a reset recovery. *)
LEMMA RecoveryStepStep ==
    ASSUME Sizes, SInv, RecoveryStep
    PROVE  SInv' /\ (Disk!Works \/ Disk!Ends)
<1>1. k.pc \in Recovering
  BY DEF RecoveryStep, Recovering
<1> DEFINE ep == IF k.pc = "clear_in" THEN "in" ELSE "out"
<1>2. PICK o \in IF k.pc = "reset" THEN Reset(dev) ELSE ClearHalt(dev, ep) :
         /\ dev' = o.x
         /\ CASE is_fatal(o.res) -> ExecuteFails(o.res)
              [] ~is_fatal(o.res) /\ k.pc = "reset" -> Goto("clear_in")
              [] ~is_fatal(o.res) /\ k.pc = "clear_in" -> Goto("clear_out")
              [] ~is_fatal(o.res) /\ k.pc = "clear_out" -> ExecuteFails(k.cause)
  BY ZenonT(30) DEF RecoveryStep, Step, At
<1>3. k.cause \in Causes /\ StickOK(dev) /\ (dev.failed \/ dev.gone \/ InStep(dev, ms, k)) /\ (dev.broken => dev.failed)
  BY <1>1 DEF SInv, Agree, DriverOK, TurnOK
<1>4. /\ Controlled(dev, dev') /\ o.res \in {"ok", "gone", "error"}
      /\ dev'.phase = [at |-> "cbw"] \/ dev'.phase = dev.phase
      /\ o.res = "ok" => IF k.pc = "reset" THEN dev'.phase = [at |-> "cbw"]
                         ELSE /\ dev'.phase = dev.phase /\ dev'.halted = dev.halted \ {ep}
                              /\ dev'.uncleared = dev.uncleared \ {ep}
      /\ o.res = "gone" => dev'.gone
      /\ o.res = "error" => dev'.failed
  <2>1. ep \in Ends
    BY DEF Ends
  <2> HIDE DEF ep
  <2>2. CASE k.pc = "reset"
    <3>1. o \in Reset(dev)
      BY <1>2, <2>2
    <3> QED BY <1>2, <1>3, <2>2, <3>1, ResetOutcome
  <2>3. CASE k.pc # "reset"
    <3>1. o \in ClearHalt(dev, ep)
      BY <1>2, <2>3
    <3> QED BY <1>2, <1>3, <2>1, <2>3, <3>1, ClearOutcome
  <2> QED BY <2>2, <2>3
<1>5. Took(dev')
  <2>1. dev'.phase = dev.phase \/ dev'.phase.at = "cbw"
    BY <1>4
  <2> QED BY <1>3, <1>4, <2>1, TookKept DEF Controlled
<1>6. k.pc \notin {"idle", "lun"}
  BY <1>1 DEF Recovering
<1>7. CASE o.res = "gone"
  <2>1. ExecuteFails("gone")
    BY <1>2, <1>7 DEF is_fatal
  <2>2. Settled(dev')
    BY <1>4, <1>7 DEF Settled
  <2> QED BY <1>5, <1>6, <2>1, <2>2, ExecuteFailsKeeps
<1>8. CASE o.res # "gone" /\ k.pc = "clear_out"
  <2>1. ExecuteFails(k.cause)
    BY ZenonT(30), <1>2, <1>8 DEF is_fatal
  <2>2. Settled(dev')
    <3> SUFFICES ASSUME ~dev'.failed, ~dev'.gone PROVE Quiet(dev')
      BY DEF Settled
    <3>1. InStep(dev, ms, k) /\ o.res = "ok"
      BY <1>3, <1>4 DEF Controlled
    <3>2. dev.phase.at = "cbw" /\ dev.halted \subseteq {"out"} /\ dev.uncleared \subseteq {"out"}
      BY <1>8, <3>1 DEF InStep
    <3> QED BY <1>4, <1>8, <3>1, <3>2 DEF Quiet
  <2>3. k.cause \notin {"ok", "busy", "illegal_request"}
    BY <1>3 DEF Causes
  <2> QED BY <1>5, <1>6, <2>1, <2>2, <2>3, ExecuteFailsKeeps
<1>9. CASE o.res # "gone" /\ k.pc \in {"reset", "clear_in"}
  <2> DEFINE pc == IF k.pc = "reset" THEN "clear_in" ELSE "clear_out"
             w == [k EXCEPT !.pc = pc]
  <2>1. GoOn(w)
    BY ZenonT(30), <1>2, <1>9 DEF Goto, is_fatal
  <2>2. /\ DOMAIN w = DOMAIN k /\ w.pc = pc /\ w.cmd = k.cmd
        /\ w.done = k.done /\ w.sensing = k.sensing /\ w.cause = k.cause
    BY <1>6
  <2> HIDE DEF w
  <2>3. Placed(dev', ms, w, call)
    BY <1>5, <2>2 DEF Placed, AfterData, Took
  <2>4. dev'.failed \/ dev'.gone \/ InStep(dev', ms, w)
    <3> SUFFICES ASSUME ~dev'.failed, ~dev'.gone PROVE InStep(dev', ms, w)
      OBVIOUS
    <3>1. InStep(dev, ms, k) /\ o.res = "ok"
      BY <1>3, <1>4, <1>9 DEF Controlled
    <3>2. CASE k.pc = "reset"
      BY <1>4, <2>2, <3>1, <3>2 DEF InStep, Recovering
    <3>3. CASE k.pc = "clear_in"
      <4>1. dev'.phase.at = "cbw" /\ dev'.halted = dev.halted \ {"in"} /\ dev'.uncleared = dev.uncleared \ {"in"}
        BY <1>4, <3>1, <3>3 DEF InStep
      <4>2. dev'.halted \subseteq {"out"} /\ dev'.uncleared \subseteq {"out"}
        BY <1>3, <4>1 DEF StickOK, Ends
      <4> QED BY ZenonT(30), <2>2, <3>3, <4>1, <4>2 DEF InStep, Recovering
    <3> QED BY <1>9, <3>2, <3>3
  <2>5. w.pc \in Places \ {"idle", "lun"} /\ w.cause \in Causes
    BY <1>3, <2>2 DEF Places
  <2> QED BY <1>5, <1>6, <2>1, <2>2, <2>3, <2>4, <2>5, GoOnKeeps, BusyDriver
<1> QED BY <1>1, <1>7, <1>8, <1>9 DEF Recovering

(* max_lun: the stick is as it was. *)
LEMMA MaxLunStep ==
    ASSUME Sizes, SInv, MaxLun
    PROVE  SInv' /\ (Disk!Works \/ Disk!Ends)
<1>1. k.pc = "lun"
  BY DEF MaxLun, At
<1>2. StickOK(dev) /\ IsStick(dev)
  BY DEF SInv, Agree, StickOK
<1>3. PICK r \in Control(dev, LAMBDA y : y) :
         LET o == [r EXCEPT !.x.failed = dev.failed]
         IN  /\ dev' = o.x
             /\ IF is_fatal(o.res) THEN Finish(o.res) ELSE Sends(NewCommand(inquiry))
  BY ZenonT(30) DEF MaxLun, Step
<1>4. Asked(dev, dev, r) /\ DOMAIN r = {"x", "res", "data"}
  <2>1. r \in IF dev.gone THEN {Out(dev, "gone")}
              ELSE {Out(dev, "ok")}
                   \cup (IF dev.faults = 0 THEN {}
                         ELSE {Out(Costs([dev EXCEPT !.gone = TRUE]), "gone"),
                               Out([Costs(dev) EXCEPT !.failed = TRUE], "error"),
                               Out([Costs(dev) EXCEPT !.failed = TRUE], "error")})
    BY <1>3 DEF Control
  <2>2. Asked(dev, dev, r)
    BY <1>2, <2>1, ControlCases
  <2> QED BY <2>1, <2>2 DEF Out
<1>5. dev' = [r.x EXCEPT !.failed = dev.failed]
  BY <1>3, <1>4
<1>6. /\ r.res \in {"ok", "gone", "error"}
      /\ IF r.res = "gone" THEN Finish("gone") ELSE Sends(NewCommand(inquiry))
  BY <1>3, <1>4 DEF is_fatal, Asked
<1>7. Like(dev, dev') /\ dev'.gone \in BOOLEAN /\ (dev.gone \/ r.res = "gone" => dev'.gone)
  <2>1. CASE r.res = "ok" /\ r.x = dev
    <3>1. dev' = [dev EXCEPT !.failed = dev.failed]
      BY <1>5, <2>1
    <3> HIDE BusyDriver
    <3> QED BY <1>2, <2>1, <3>1 DEF Like, IsStick
  <2>2. CASE r.res = "gone" /\ Like(dev, r.x) /\ r.x.gone = TRUE
    BY ZenonT(30), <1>2, <1>5, <2>2 DEF Like, IsStick
  <2>3. CASE r.res = "error" /\ r.x = [Costs(dev) EXCEPT !.failed = TRUE]
    <3>1. DOMAIN Costs(dev) = DOMAIN dev /\ Like(dev, Costs(dev)) /\ Costs(dev).gone = dev.gone
      BY <1>2 DEF Costs, Like, IsStick
    <3> QED BY <1>2, <1>5, <2>3, <3>1 DEF Like, IsStick
  <2> QED BY ZenonT(30), <1>4, <2>1, <2>2, <2>3 DEF Asked
<1>8. Took(dev')
  <2>1. StickOK(dev') /\ (dev'.broken => dev'.failed)
    BY <1>2, <1>7, LikeOK DEF Like, SInv, Agree, TurnOK
  <2> QED BY <1>7, <2>1, TookKept DEF Like
<1>9. Settled(dev')
  <2>1. dev.failed \/ dev.gone \/ Quiet(dev)
    BY <1>1 DEF SInv, Agree, TurnOK, InStep
  <2> QED BY <1>7, <2>1 DEF Settled, Like, Quiet
<1>10. CASE r.res = "gone"
  BY <1>1, <1>6, <1>8, <1>9, <1>10, FinishKeeps
<1>11. CASE r.res # "gone"
  <2> DEFINE w == NewCommand(inquiry)
  <2>1. Sends(w)
    BY <1>6, <1>11
  <2>2. /\ DOMAIN w = {"pc", "cmd", "try", "polls", "done", "sensing", "cause", "moved", "buf"}
        /\ w.cmd = inquiry /\ w.sensing = FALSE /\ w.cause = k.cause /\ w.done = k.done
    BY ZenonT(30), <1>1, NewCommandIs
  <2>3. call.op = "start"
    BY <1>1, BusyDriver DEF RequestOK
  <2> HIDE DEF w
  <2> QED BY ZenonT(30), <1>1, <1>8, <1>9, <2>1, <2>2, <2>3, StartGoesOn DEF Setup
<1> QED BY <1>10, <1>11

(* A driver that is idle, and its stick. *)
LEMMA IdleDriver ==
    ASSUME Sizes, SInv, k.pc = "idle"
    PROVE  /\ DOMAIN ms = {"id", "up", "count", "no_cache", "not_answering", "tag", "calls"}
           /\ ms.id \in Nat \ {0} /\ ms.tag \in Nat \ {0} /\ ms.calls \in Nat
           /\ ms.up => ms.count = dev.kind.last + 1 /\ dev.kind.last <= LAST10
           /\ ms.no_cache => ~dev.kind.cache
           /\ ms.not_answering => call.op # "none"
           /\ k = Idle /\ ~Busy(call) /\ DOMAIN call = {"op", "id", "lba", "n", "data", "got", "res"}
           /\ StickOK(dev) /\ TagBelow(dev.phase, ms.tag) /\ OutBlocks(dev.phase) \subseteq torn
           /\ dev.broken => dev.failed
           /\ dev.failed \/ dev.gone \/ Quiet(dev)
<1>1. /\ StickOK(dev) /\ DriverOK(ms, k, call, dev.kind) /\ Placed(dev, ms, k, call)
      /\ DiskOK(dev, k, call, torn) /\ TurnOK(dev, ms, k)
  BY DEF SInv, Agree
<1>2. ~Busy(call)
  BY <1>1 DEF DriverOK
<1>3. OutBlocks(dev.phase) \subseteq torn
  BY <1>1, <1>2 DEF DiskOK, Written
<1>4. TagBelow(dev.phase, ms.tag)
  BY <1>1 DEF Placed
<1>5. (dev.broken => dev.failed) /\ (dev.failed \/ dev.gone \/ Quiet(dev))
  BY <1>1 DEF TurnOK, InStep
<1> QED BY <1>1, <1>2, <1>3, <1>4, <1>5 DEF DriverOK

(* A stick is to be set up. *)
LEMMA StartStep ==
    ASSUME Sizes, SInv, StartCall
    PROVE  SInv' /\ Disk!Asks
<1>1. k.pc = "idle" /\ call.op = "none" /\ dev' = dev /\ ms' = ms /\ torn' = torn
  BY DEF StartCall, At
<1>2. /\ DOMAIN call' = {"op", "id", "lba", "n", "data", "got", "res"}
      /\ call'.op = "start" /\ call'.id = ms.id /\ call'.res = "busy" /\ call'.n = 0
  BY DEF StartCall, NoCall
<1>3. /\ DOMAIN k' = {"pc", "cmd", "try", "polls", "done", "sensing", "cause", "moved", "buf"}
      /\ k'.pc = "lun" /\ k'.done = 0 /\ k'.sensing = FALSE /\ k'.cause = "ok"
  BY DEF StartCall, Idle
<1>4. DriverOK(ms, k', call', dev.kind)
  <2>1. RequestOK(ms, k', call')
    BY <1>2, <1>3 DEF RequestOK
  <2> QED BY ZenonT(30), <1>1, <1>2, <1>3, <2>1, IdleDriver DEF DriverOK, Busy, Places, Recovering
<1>5. Placed(dev, ms, k', call')
  BY <1>1, <1>3, IdleDriver DEF Placed, AfterData
<1>6. DiskOK(dev, k', call', torn)
  BY <1>1, <1>2, <1>3, IdleDriver DEF DiskOK, Written
<1>7. TurnOK(dev, ms, k')
  BY <1>1, <1>3, IdleDriver DEF TurnOK, InStep, Recovering, Quiet
<1>8. FlushOK(dev, ms, call')
  BY <1>2 DEF FlushOK
<1>9. Disk!Asks
  BY <1>1, <1>2, IdleDriver DEF Disk!Asks, Busy
<1> QED BY <1>1, <1>4, <1>5, <1>6, <1>7, <1>8, <1>9 DEF SInv, Agree

(* A stick that is plugged in, and its driver. *)
LEMMA NewAgrees ==
    ASSUME Sizes, NEW kind \in Kinds, NEW i \in Nat \ {0}
    PROVE  Agree(NewStick(kind), NewDriver(i, kind), Idle, NoCall, {})
<1> DEFINE x == NewStick(kind)
           d == NewDriver(i, kind)
<1>1. /\ DOMAIN x = {"kind", "disk", "faults", "waits", "phase", "sense", "halted", "uncleared", "nak",
                     "gone", "synced", "broken", "failed"}
      /\ x.kind = kind /\ x.disk = [l \in 0..kind.last |-> "old"] /\ x.phase = [at |-> "cbw"]
      /\ x.sense = "none" /\ x.halted = {} /\ x.uncleared = {} /\ x.nak = FALSE /\ x.gone = FALSE
      /\ x.synced = FALSE /\ x.broken = FALSE /\ x.failed = FALSE
  BY ZenonT(30) DEF NewStick
<1>2. /\ DOMAIN d = {"id", "up", "count", "no_cache", "not_answering", "tag", "calls"}
      /\ d.id = i /\ ~d.up /\ ~d.no_cache /\ ~d.not_answering /\ d.tag = 1
      /\ d.calls = kind.calls
  BY DEF NewDriver
<1>3. /\ DOMAIN Idle = {"pc", "cmd", "try", "polls", "done", "sensing", "cause", "moved", "buf"}
      /\ Idle.pc = "idle" /\ Idle.sensing = FALSE /\ Idle.cause = "ok" /\ Idle.done = 0
  BY DEF Idle
<1>4. /\ DOMAIN NoCall = {"op", "id", "lba", "n", "data", "got", "res"}
      /\ NoCall.op = "none" /\ NoCall.res = "none"
  BY DEF NoCall
<1> HIDE DEF x, d
<1>5. StickOK(x)
  <2>1. x.disk \in [0..kind.last -> Values]
    BY <1>1 DEF Values
  <2>2. SenseOK(x.sense, kind) /\ PhaseOK(x.phase)
    BY <1>1 DEF SenseOK, Senses, PhaseOK
  <2> QED BY ZenonT(30), <1>1, <2>1, <2>2 DEF StickOK, IsStick
<1>6. DriverOK(d, Idle, NoCall, kind)
  <2>1. kind.calls \in Nat
    BY DEF Sizes
  <2>2. Idle.pc \in Places /\ Idle.pc \notin Recovering /\ ~Busy(NoCall)
    BY <1>3, <1>4 DEF Places, Recovering, Busy
  <2>3. d.id \in Nat \ {0} /\ d.tag \in Nat \ {0} /\ d.calls \in Nat
    BY <1>2, <2>1
  <2>4. Idle.pc = "idle" /\ Idle.sensing \in BOOLEAN /\ Idle.cause \in Causes \cup {"ok"}
    BY ZenonT(30), <1>3
  <2>5. ~d.up /\ ~d.no_cache /\ ~d.not_answering
    BY <1>2
  <2>6. /\ DOMAIN d = {"id", "up", "count", "no_cache", "not_answering", "tag", "calls"}
        /\ DOMAIN Idle = {"pc", "cmd", "try", "polls", "done", "sensing", "cause", "moved", "buf"}
        /\ DOMAIN NoCall = {"op", "id", "lba", "n", "data", "got", "res"}
    BY <1>2, <1>3, <1>4
  <2> QED BY <2>2, <2>3, <2>4, <2>5, <2>6, Zenon DEF DriverOK
<1>7. Placed(x, d, Idle, NoCall)
  BY <1>1, <1>3 DEF Placed, TagBelow, AfterData
<1>8. DiskOK(x, Idle, NoCall, {})
  BY <1>1, <1>3, <1>4 DEF DiskOK, OutBlocks, Busy
<1>9. TurnOK(x, d, Idle) /\ FlushOK(x, d, NoCall)
  BY <1>1, <1>3, <1>4 DEF TurnOK, InStep, Recovering, Quiet, FlushOK
<1> QED BY <1>1, <1>5, <1>6, <1>7, <1>8, <1>9 DEF Agree, x, d

(* Another stick. *)
LEMMA ReplugStep ==
    ASSUME Sizes, SInv, Replug
    PROVE  SInv' /\ Disk!Changed
<1>1. k.pc = "idle" /\ call' = NoCall /\ torn' = {} /\ k' = k
  BY DEF Replug, At
<1>2. PICK kind \in Kinds : dev' = NewStick(kind) /\ ms' = NewDriver(ms.id + 1, kind)
  BY DEF Replug
<1>3. k = Idle /\ ~Busy(call) /\ ms.id \in Nat \ {0}
  BY <1>1, IdleDriver
<1>4. Agree(dev', ms', k', call', torn')
  BY <1>1, <1>2, <1>3, NewAgrees
<1>5. ms'.id = ms.id + 1 /\ call'.res = "none"
  BY <1>1, <1>2 DEF NewDriver, NoCall
<1> QED BY <1>1, <1>3, <1>4, <1>5 DEF SInv, Disk!Changed, Busy

(* A request as it is made. *)
Request(c) ==
    /\ DOMAIN c = {"op", "id", "lba", "n", "data", "got", "res"}
    /\ c.op \in {"read", "write", "flush"} /\ c.lba \in Nat /\ c.n \in Nat /\ c.got = <<>>
    /\ c.op = "flush" => c.n = 0
    /\ c.op = "write" => c.data \in Seq(Data) /\ Len(c.data) = c.n

(* A request is refused, or has nothing to do, or begins. *)
LEMMA AskKeeps ==
    ASSUME Sizes, SInv, NEW c, Request(c), Ask(c)
    PROVE  SInv' /\ Disk!Asks
<1> DEFINE r == CASE c.id # ms.id \/ ~ms.up -> "gone"
                  [] c.id = ms.id /\ ms.up /\ ms.not_answering -> "timeout"
                  [] OTHER -> IF c.op = "flush" THEN IF ms.no_cache THEN "ok" ELSE "busy"
                              ELSE IF c.lba + c.n > ms.count THEN "unsupported"
                              ELSE IF c.n = 0 THEN "ok" ELSE "busy"
<1>1. /\ k.pc = "idle" /\ call.op # "none" /\ ms.calls > 0 /\ torn' = torn /\ call' = [c EXCEPT !.res = r]
      /\ IF r # "busy" THEN ms' = [ms EXCEPT !.calls = @ - 1] /\ k' = k /\ dev' = dev
         ELSE /\ ms' = [ms EXCEPT !.calls = @ - 1, !.tag = @ + 1]
              /\ dev' = [dev EXCEPT !.synced = FALSE]
              /\ k' = Exchange([Idle EXCEPT !.cmd =
                          IF c.op = "flush" THEN synchronize_cache_10
                          ELSE rw_10(c.op, c.lba, IF c.n > PER THEN PER ELSE c.n)])
  BY DEF Ask, At
<1>2. r \in {"gone", "timeout", "ok", "busy", "unsupported"}
  OBVIOUS
<1>3. r = "ok" => c.n = 0 /\ (c.op = "flush" => ms.no_cache)
  BY DEF Request
<1>4. r = "busy" => /\ c.id = ms.id /\ ms.up /\ ~ms.not_answering
                    /\ c.op # "flush" => c.lba + c.n <= ms.count /\ c.n # 0
  <2>1. dev.kind.last \in Nat /\ (ms.up => ms.count = dev.kind.last + 1)
    BY <1>1, IdleDriver DEF StickOK, Sizes
  <2> QED BY <2>1 DEF Request
<1> HIDE DEF r
<1>5. /\ DOMAIN call' = {"op", "id", "lba", "n", "data", "got", "res"} /\ call'.op = c.op /\ call'.id = c.id
      /\ call'.lba = c.lba /\ call'.n = c.n /\ call'.data = c.data /\ call'.got = c.got /\ call'.res = r
  BY <1>1 DEF Request
<1>6. /\ DOMAIN Idle = {"pc", "cmd", "try", "polls", "done", "sensing", "cause", "moved", "buf"}
      /\ Idle.pc = "idle" /\ Idle.sensing = FALSE /\ Idle.cause = "ok" /\ Idle.done = 0
  BY DEF Idle
<1>7. CASE r # "busy"
  <2>1. dev' = dev /\ k' = Idle
    BY <1>1, <1>7, IdleDriver
  <2>2. /\ DOMAIN ms' = DOMAIN ms /\ ms'.id = ms.id /\ ms'.tag = ms.tag /\ ms'.calls = ms.calls - 1 /\ ms'.up = ms.up
        /\ ms'.count = ms.count /\ ms'.no_cache = ms.no_cache /\ ms'.not_answering = ms.not_answering
    BY <1>1, <1>7, IdleDriver
  <2>3. DriverOK(ms', Idle, call', dev.kind)
    <3>1. ms'.calls \in Nat /\ ms'.id \in Nat \ {0} /\ ms'.tag \in Nat \ {0}
      BY <1>1, <2>2, IdleDriver
    <3>2. call'.op # "none" /\ ~Busy(call')
      BY <1>5, <1>7 DEF Request, Busy
    <3> QED BY ZenonT(30), <1>1, <1>5, <1>6, <2>2, <3>1, <3>2, IdleDriver DEF DriverOK, Places, Recovering
  <2>4. Placed(dev, ms', Idle, call')
    BY <1>1, <1>6, <2>2, IdleDriver DEF Placed, AfterData
  <2>5. DiskOK(dev, Idle, call', torn)
    BY <1>1, <1>5, <1>6, <1>7, IdleDriver DEF DiskOK, Written, Busy
  <2>6. TurnOK(dev, ms', Idle)
    BY <1>1, <1>6, IdleDriver DEF TurnOK, InStep, Recovering, Quiet
  <2>7. FlushOK(dev, ms', call')
    BY <1>1, <1>3, <1>5, <2>2, IdleDriver DEF FlushOK
  <2>8. Disk!Asks
    BY <1>1, <1>3, <1>5, <2>1, <2>2, IdleDriver DEF Disk!Asks, Busy
  <2> QED BY <1>1, <2>1, <2>3, <2>4, <2>5, <2>6, <2>7, <2>8 DEF SInv, Agree
<1>8. CASE r = "busy"
  <2> DEFINE cdb == IF c.op = "flush" THEN synchronize_cache_10
                    ELSE rw_10(c.op, c.lba, IF c.n > PER THEN PER ELSE c.n)
  <2>1. /\ DOMAIN ms' = DOMAIN ms /\ ms'.id = ms.id /\ ms'.tag = ms.tag + 1 /\ ms'.calls = ms.calls - 1
        /\ ms'.up = ms.up
        /\ ms'.count = ms.count /\ ms'.no_cache = ms.no_cache /\ ms'.not_answering = ms.not_answering
    BY ZenonT(30), <1>1, <1>8, IdleDriver
  <2>2. /\ DOMAIN k' = {"pc", "cmd", "try", "polls", "done", "sensing", "cause", "moved", "buf"}
        /\ k'.pc = "cbw" /\ k'.cmd = cdb /\ k'.done = 0 /\ k'.sensing = FALSE /\ k'.cause = "ok" /\ k'.moved = 0
    <3> HIDE DEF cdb
    <3>1. k' = Exchange([Idle EXCEPT !.cmd = cdb])
      BY <1>1, <1>8 DEF cdb
    <3> QED BY <1>6, <3>1 DEF Exchange
  <2>3. /\ StickOK(dev') /\ dev'.kind = dev.kind /\ dev'.disk = dev.disk /\ dev'.phase = dev.phase
        /\ dev'.halted = dev.halted /\ dev'.uncleared = dev.uncleared /\ dev'.gone = dev.gone
        /\ dev'.broken = dev.broken /\ dev'.failed = dev.failed
    <3>1. dev' = [dev EXCEPT !.synced = FALSE]
      BY <1>1, <1>8
    <3>2. StickOK(dev)
      BY <1>1, IdleDriver
    <3> QED BY <3>1, <3>2 DEF StickOK, IsStick
  <2>4. RequestOK(ms', k', call')
    <3>1. call'.id = ms'.id /\ ms'.up
      BY <1>4, <1>5, <1>8, <2>1
    <3>2. CASE c.op = "flush"
      BY <1>5, <2>2, <3>1, <3>2 DEF RequestOK, Request
    <3>3. CASE c.op \in {"read", "write"}
      <4>1. c.n \in Nat /\ c.lba \in Nat /\ c.n # 0 /\ c.lba + c.n <= ms.count
        BY <1>4, <1>8, <3>3 DEF Request
      <4>2. cdb = Chunk(call', 0)
        <5>1. c.lba + 0 = c.lba /\ c.n - 0 = c.n
          BY <4>1
        <5> QED BY <1>5, <3>3, <5>1 DEF Chunk
      <4>3. c.op = "write" => c.data \in Seq(Data) /\ Len(c.data) = c.n
        BY DEF Request
      <4>4. 0 < c.n
        BY <4>1
      <4> HIDE DEF cdb
      <4> QED BY <1>5, <2>1, <2>2, <3>1, <3>3, <4>1, <4>2, <4>3, <4>4 DEF RequestOK
    <3> QED BY <3>2, <3>3 DEF Request
  <2> HIDE DEF cdb
  <2>5. DriverOK(ms', k', call', dev.kind)
    <3>1. ms'.calls \in Nat /\ ms'.id \in Nat \ {0} /\ ms'.tag \in Nat \ {0}
      BY <1>1, <2>1, IdleDriver
    <3>2. Busy(call') /\ ~ms'.not_answering
      BY <1>4, <1>5, <1>8, <2>1 DEF Busy
    <3> QED BY ZenonT(30), <1>1, <1>5, <2>1, <2>2, <2>4, <3>1, <3>2, IdleDriver DEF DriverOK, Places, Recovering
  <2>6. Placed(dev', ms', k', call')
    <3>1. TagBelow(dev.phase, ms.tag) /\ TagBelow(dev.phase, ms.tag + 1)
      BY <1>1, IdleDriver DEF TagBelow, TagOf, StickOK, PhaseOK, CswOK
    <3>2. ms'.tag - 1 = ms.tag
      BY <1>1, <2>1, IdleDriver
    <3> QED BY <2>1, <2>2, <2>3, <3>1, <3>2 DEF Placed, AfterData
  <2>7. DiskOK(dev', k', call', torn)
    <3>1. call'.got = [i \in 1..0 |-> dev'.disk[call'.lba + i - 1]]
      BY <1>5 DEF Request
    <3>2. 1..k'.done = {} /\ k'.done = 0
      BY <2>2
    <3>3. OutBlocks(dev'.phase) \subseteq torn
      BY <1>1, <2>3, IdleDriver
    <3> QED BY <3>1, <3>2, <3>3 DEF DiskOK
  <2>8. TurnOK(dev', ms', k')
    BY <1>1, <2>2, <2>3, IdleDriver DEF TurnOK, InStep, Recovering, Quiet
  <2>9. FlushOK(dev', ms', call')
    BY <1>5, <1>8 DEF FlushOK
  <2>10. Disk!Asks
    BY <1>1, <1>5, <1>8, <2>1, <2>3, IdleDriver DEF Disk!Asks, Busy
  <2> QED BY <1>1, <2>3, <2>5, <2>6, <2>7, <2>8, <2>9, <2>10 DEF SInv, Agree
<1> QED BY <1>7, <1>8

(* Reads, writes and flushes. *)
LEMMA AskStep ==
    ASSUME Sizes, SInv, Reads \/ Writes \/ Flushes
    PROVE  SInv' /\ Disk!Asks
<1>1. CASE Reads
  <2>1. PICK i \in 1..ms.id, l \in 0..(LAST10 + 1), n \in 0..(PER + 1) :
           Ask([NoCall EXCEPT !.op = "read", !.id = i, !.lba = l, !.n = n])
    BY ZenonT(30), <1>1 DEF Reads
  <2> DEFINE c == [NoCall EXCEPT !.op = "read", !.id = i, !.lba = l, !.n = n]
  <2>2. Request(c)
    BY DEF Request, NoCall, Sizes
  <2> HIDE DEF c
  <2> QED BY <2>1, <2>2, AskKeeps DEF c
<1>2. CASE Writes
  <2>1. PICK i \in 1..ms.id, l \in 0..(LAST10 + 1), n \in 0..(PER + 1) : \E v \in [1..n -> Data] :
           Ask([NoCall EXCEPT !.op = "write", !.id = i, !.lba = l, !.n = n, !.data = v])
    BY ZenonT(30), <1>2 DEF Writes
  <2>2. PICK v \in [1..n -> Data] :
           Ask([NoCall EXCEPT !.op = "write", !.id = i, !.lba = l, !.n = n, !.data = v])
    BY ZenonT(30), <2>1
  <2> DEFINE c == [NoCall EXCEPT !.op = "write", !.id = i, !.lba = l, !.n = n, !.data = v]
  <2>3. n \in Nat /\ l \in Nat
    BY DEF Sizes
  <2>4. v \in Seq(Data) /\ Len(v) = n
    BY <2>3
  <2>5. Request(c)
    BY <2>3, <2>4 DEF Request, NoCall
  <2> HIDE DEF c
  <2> QED BY <2>2, <2>5, AskKeeps DEF c
<1>3. CASE Flushes
  <2>1. PICK i \in 1..ms.id : Ask([NoCall EXCEPT !.op = "flush", !.id = i])
    BY ZenonT(30), <1>3 DEF Flushes
  <2> DEFINE c == [NoCall EXCEPT !.op = "flush", !.id = i]
  <2>2. Request(c)
    BY DEF Request, NoCall
  <2> HIDE DEF c
  <2> QED BY <2>1, <2>2, AskKeeps DEF c
<1> QED BY <1>1, <1>2, <1>3

-----------------------------------------------------------------------------
(* The start, and every step of the driver and of the stick. *)
LEMMA InitAgrees ==
    ASSUME Sizes, StickInit
    PROVE  SInv /\ call.res # "busy" /\ torn = {}
<1>1. PICK kind \in Kinds : dev = NewStick(kind) /\ ms = NewDriver(1, kind)
  BY DEF StickInit
<1>2. k = Idle /\ call = NoCall /\ torn = {}
  BY DEF StickInit
<1>3. SInv
  BY <1>1, <1>2, NewAgrees DEF SInv
<1>4. NoCall.res = "none"
  BY DEF NoCall
<1> QED BY <1>2, <1>3, <1>4

(* Every step keeps the invariant, and is one of the block device or       *)
(* changes nothing of it.                                                  *)
LEMMA StorageStep ==
    ASSUME Sizes, SInv, [StickNext]_stickVars
    PROVE  SInv' /\ [Disk!Next]_<<dev.disk, ms.id, call, torn>>
<1>1. CASE UNCHANGED stickVars
  <2>1. dev' = dev /\ ms' = ms /\ k' = k /\ call' = call /\ torn' = torn
    BY <1>1 DEF stickVars
  <2> QED BY <2>1 DEF SInv
<1>2. CASE StartCall
  BY <1>2, StartStep DEF Disk!Next
<1>3. CASE MaxLun
  BY <1>3, MaxLunStep DEF Disk!Next
<1>4. CASE Reads \/ Writes \/ Flushes
  BY <1>4, AskStep DEF Disk!Next
<1>5. CASE Replug
  BY <1>5, ReplugStep DEF Disk!Next
<1>6. CASE SendCbw
  BY <1>6, SendCbwStep DEF Disk!Next
<1>7. CASE DataPhase
  BY <1>7, DataPhaseStep DEF Disk!Next
<1>8. CASE Unstall
  BY <1>8, UnstallStep DEF Disk!Next
<1>9. CASE ReadCsw
  BY <1>9, ReadCswStep DEF Disk!Next
<1>10. CASE UnstallCsw
  BY <1>10, UnstallCswStep DEF Disk!Next
<1>11. CASE ReadCswAgain
  BY <1>11, ReadCswAgainStep DEF Disk!Next
<1>12. CASE RecoveryStep
  BY <1>12, RecoveryStepStep DEF Disk!Next
<1> QED BY <1>1, <1>2, <1>3, <1>4, <1>5, <1>6, <1>7, <1>8, <1>9, <1>10, <1>11, <1>12 DEF StickNext

(* The driver and the stick agree, whatever goes wrong. *)
THEOREM StickAndDriverAgree ==
    ASSUME Sizes PROVE StickSpec => []SInv
<1>1. StickInit => SInv
  BY InitAgrees
<1>2. SInv /\ [StickNext]_stickVars => SInv'
  BY StorageStep
<1> QED BY <1>1, <1>2, PTL DEF StickSpec

(***************************************************************************)
(* Through any number of stalls, lost transfers, resets and retries, a     *)
(* stick whose reset recoveries all got through is sent nothing that       *)
(* Bulk-Only Transport does not allow at that point (exchange, execute and *)
(* recover of transport.rs, against the phases of the fake stick).         *)
(***************************************************************************)
THEOREM StickStaysInTurn ==
    ASSUME Sizes PROVE StickSpec => []InTurn
<1>1. SInv => InTurn
  BY DEF SInv, Agree, TurnOK, InTurn
<1> QED BY <1>1, StickAndDriverAgree, PTL

(***************************************************************************)
(* A flush that succeeds reached the stick's cache, unless the stick has   *)
(* none and said so, or missed a step of a recovery; and a disk that was   *)
(* given up is sent nothing (flush of disk.rs, Transport::command).        *)
(***************************************************************************)
THEOREM FlushesReach ==
    ASSUME Sizes PROVE StickSpec => []FlushReaches
<1>1. SInv => FlushReaches
  BY DEF SInv, Agree, DriverOK, FlushOK, FlushReaches, At
<1> QED BY <1>1, StickAndDriverAgree, PTL

(***************************************************************************)
(* The driver over its stick is a block device: a request that succeeds    *)
(* moved every block to or from the place it named, a read changes         *)
(* nothing, a write its own blocks only (request of io.rs and the command, *)
(* data and status phases of transport.rs), for every size of stick and    *)
(* request and whatever goes wrong.                                        *)
(***************************************************************************)
THEOREM StickIsBlockDevice ==
    ASSUME Sizes PROVE StickSpec => ImplementsBlockDevice
<1>1. StickInit => SInv /\ call.res # "busy" /\ torn = {}
  BY InitAgrees
<1>2. SInv /\ [StickNext]_stickVars => SInv' /\ [Disk!Next]_<<dev.disk, ms.id, call, torn>>
  BY StorageStep
<1> QED BY <1>1, <1>2, PTL DEF StickSpec, ImplementsBlockDevice, Disk!Spec
=============================================================================
