---------------------------- MODULE StickProofs ----------------------------
(***************************************************************************)
(* How the stick and its driver agree, what each transfer leaves of that,  *)
(* and what the driver does with the outcome of one.  Lemmas for           *)
(* StorageProofs.                                                          *)
(***************************************************************************)
EXTENDS Storage, Integers, TLAPS

(* The constants: a command moves at least one block; what a kind says. *)
Sizes ==
    /\ LAST10 \in Nat /\ PER \in Nat \ {0}
    /\ \A kind \in Kinds : /\ kind.last \in Nat /\ kind.calls \in Nat
                           /\ kind.stalls \in BOOLEAN

-----------------------------------------------------------------------------
(* What is true of a stick x, whatever is asked of it. *)

Senses == {"none", "no_medium", "not_ready", "data_protect", "illegal_request", "unit_attention",
           "medium_error", "aborted"}
Statuses == {"passed", "failed", "phase_error"}
Ends == {"in", "out"}
Values == Data \cup {"old", "junk"}
Units == Values \cup Senses \cup {"zeros"} \cup {kind.type : kind \in Kinds}
         \cup [last : Nat, size : {kind.size : kind \in Kinds} \cup {"0"}]

(* Only a stick without a cache calls a command illegal. *)
SenseOK(s, kind) == s \in Senses /\ (s = "illegal_request" => ~kind.cache)

CswOK(c) == /\ DOMAIN c = {"at", "tag", "residue", "status"}
            /\ c.at = "csw" /\ c.tag \in Nat /\ c.status \in Statuses

PhaseOK(p) ==
    \/ p = [at |-> "cbw"]
    \/ CswOK(p)
    \/ /\ p.at = "in" /\ CswOK(p.csw) /\ p.left \in Nat \ {0} /\ p.stall \in BOOLEAN
       /\ p.data \in Seq(Units) /\ Len(p.data) = p.left
    \/ /\ p.at = "out" /\ CswOK(p.csw) /\ p.left \in Nat \ {0} /\ p.stall \in BOOLEAN
       /\ p.lba \in Nat /\ p.writes \in BOOLEAN

IsStick(x) ==
    /\ DOMAIN x = {"kind", "disk", "faults", "waits", "phase", "sense", "halted", "uncleared", "nak",
                   "gone", "synced", "broken", "failed"}
    /\ x.nak \in BOOLEAN /\ x.gone \in BOOLEAN /\ x.synced \in BOOLEAN /\ x.broken \in BOOLEAN
    /\ x.failed \in BOOLEAN

StickOK(x) ==
    /\ IsStick(x)
    /\ x.kind \in Kinds
    /\ x.disk \in [0..x.kind.last -> Values]
    /\ x.halted \subseteq Ends /\ x.uncleared \subseteq Ends
    /\ SenseOK(x.sense, x.kind)
    /\ PhaseOK(x.phase)

(* The tag of the command that a phase belongs to. *)
TagOf(p) == IF p.at = "csw" THEN p.tag ELSE p.csw.tag
TagBelow(p, t) == p.at # "cbw" => TagOf(p) < t

(* The blocks that a phase may still write. *)
OutBlocks(p) == IF p.at = "out" /\ p.writes THEN p.lba..(p.lba + p.left - 1) ELSE {}

(* data is what x has to say to the command c. *)
Tells(x, c, data) ==
    /\ c.op = "read" => /\ c.lba + c.length <= x.kind.last + 1
                        /\ data = [i \in 1..c.length |-> x.disk[c.lba + i - 1]]
    /\ c.op = "read_capacity_10" => data[1] = Capacity(x, LAST10)
    /\ c.op = "read_capacity_16" => data[1] = Capacity(x, x.kind.last)
    /\ c.op = "request_sense" => SenseOK(data[1], x.kind)

(* x is in the data phase of c, whose tag is t. *)
Runs(x, c, t) ==
    LET p == x.phase
    IN  /\ c.length > 0 /\ p.at = c.dir /\ p.csw.tag = t /\ p.left = c.length
        /\ p.at = "in" /\ p.csw.status = "passed" => Tells(x, c, p.data)
        /\ p.at = "out" => p.lba = c.lba /\ p.writes = (p.csw.status = "passed")

(* It has the CSW of an earlier command. *)
Stale(x, t) == x.phase.at = "csw" /\ x.phase.tag < t

-----------------------------------------------------------------------------
(* What is true of the driver d, the request q and the place of d in it. *)

Setup == {inquiry, test_unit_ready, read_capacity_10, read_capacity_16}
Places == {"idle", "lun", "cbw", "data", "unstall", "csw", "unstall_csw", "csw_again",
           "reset", "clear_in", "clear_out"}
Recovering == {"reset", "clear_in", "clear_out"}
AfterData == {"unstall", "csw", "unstall_csw", "csw_again"}
Causes == {"timeout", "stall", "error", "protocol"}
Chunk(q, done) == rw_10(q.op, q.lba + done, IF q.n - done > PER THEN PER ELSE q.n - done)
Sent(w) == IF w.sensing THEN request_sense ELSE w.cmd
Busy(q) == q.res = "busy"

RequestOK(d, w, q) ==
    /\ q.id = d.id
    /\ \/ /\ q.op = "start" /\ q.n = 0 /\ w.done = 0
          /\ w.pc # "lun" => w.cmd \in Setup
       \/ /\ q.op = "flush" /\ q.n = 0 /\ w.done = 0 /\ w.cmd = synchronize_cache_10 /\ w.pc # "lun"
          /\ d.up
       \/ /\ q.op \in {"read", "write"} /\ q.n \in Nat /\ q.lba \in Nat /\ w.done \in Nat /\ w.done < q.n
          /\ q.op = "write" => q.data \in Seq(Data) /\ Len(q.data) = q.n
          /\ d.up /\ q.lba + q.n <= d.count
          /\ w.cmd = Chunk(q, w.done) /\ w.pc # "lun"

DriverOK(d, w, q, kind) ==
    /\ DOMAIN d = {"id", "up", "count", "no_cache", "not_answering", "tag", "calls"}
    /\ DOMAIN w = {"pc", "cmd", "try", "polls", "done", "sensing", "cause", "moved", "buf"}
    /\ DOMAIN q = {"op", "id", "lba", "n", "data", "got", "res"}
    /\ d.id \in Nat \ {0} /\ d.tag \in Nat \ {0} /\ d.calls \in Nat
    /\ d.up => d.count = kind.last + 1 /\ kind.last <= LAST10
    /\ d.no_cache => ~kind.cache
    /\ d.not_answering => w.pc = "idle" /\ q.op # "none"
    /\ w.pc \in Places /\ w.sensing \in BOOLEAN /\ w.cause \in Causes \cup {"ok"}
    /\ w.pc \in Recovering => w.cause \in Causes
    /\ w.pc = "idle" => w = Idle /\ ~Busy(q)
    /\ w.pc # "idle" => Busy(q) /\ RequestOK(d, w, q)

-----------------------------------------------------------------------------
(* How the two agree. *)

(* The CSW is that of the command, and says what became of it. *)
Told(x, d, w, q) ==
    LET c == Sent(w)
    IN  /\ x.phase.at = "csw" /\ x.phase.tag = d.tag - 1
        /\ w.moved \in 0..c.length
        /\ x.phase.status = "passed" /\ w.moved = c.length =>
              /\ c.dir = "in" => Tells(x, c, w.buf)
              /\ c.op = "write" => \A i \in 1..c.length : x.disk[c.lba + i - 1] = q.data[w.done + i]
              /\ c.op = "synchronize_cache" => x.synced

(* Where the stick may be, wherever the driver is. *)
Placed(x, d, w, q) ==
    LET c == Sent(w)
        t == d.tag - 1
    IN  /\ TagBelow(x.phase, d.tag)
        /\ w.pc = "cbw" => TagBelow(x.phase, t) /\ w.moved = 0
        /\ w.pc = "data" => w.moved = 0 /\ c.length > 0 /\ (Runs(x, c, t) \/ Stale(x, t))
        /\ w.pc = "unstall" => w.moved = 0 /\ c.length > 0
        /\ w.pc \in AfterData => \/ x.phase.at = "cbw"
                                 \/ w.moved = 0 /\ (Runs(x, c, t) \/ Stale(x, t))
                                 \/ Told(x, d, w, q)

(* The blocks of a request that were moved are on the disk, and no phase   *)
(* that is left over can change them.                                      *)
Written(q) == IF Busy(q) /\ q.op = "write" THEN Disk!Blocks(q) ELSE {}
DiskOK(x, w, q, lost) ==
    /\ OutBlocks(x.phase) \subseteq lost \cup Written(q)
    /\ \A i \in 1..w.done : q.lba + i - 1 \notin OutBlocks(x.phase)
    /\ Busy(q) /\ q.op = "read" => q.got = [i \in 1..w.done |-> x.disk[q.lba + i - 1]]
    /\ Busy(q) /\ q.op = "write" => \A i \in 1..w.done : x.disk[q.lba + i - 1] = q.data[i]

(* As long as all of every recovery got through, the stick and the driver  *)
(* are at the same place.                                                  *)
Quiet(x) == x.phase.at = "cbw" /\ x.halted = {} /\ x.uncleared = {}
InStep(x, d, w) ==
    LET p == x.phase
        ours == p.at = "csw" /\ p.tag = d.tag - 1
    IN  /\ w.pc \in {"idle", "lun", "cbw"} => Quiet(x)
        /\ w.pc \notin Recovering => x.uncleared = {}
        /\ w.pc = "data" => Runs(x, Sent(w), d.tag - 1) /\ x.halted = {}
        /\ w.pc = "unstall" => ours /\ x.halted = {Sent(w).dir}
        /\ w.pc \in {"csw", "csw_again"} => ours /\ x.halted = {}
        /\ w.pc = "unstall_csw" => ours /\ x.halted = {"in"}
        /\ w.pc \in {"clear_in", "clear_out"} => p.at = "cbw"
        /\ w.pc = "clear_out" => x.halted \subseteq {"out"} /\ x.uncleared \subseteq {"out"}
TurnOK(x, d, w) ==
    /\ x.broken => x.failed
    /\ x.failed \/ x.gone \/ InStep(x, d, w)

FlushOK(x, d, q) ==
    q.op = "flush" /\ q.res = "ok" => x.synced \/ (d.no_cache /\ ~x.kind.cache) \/ x.failed

Agree(x, d, w, q, lost) ==
    /\ StickOK(x)
    /\ DriverOK(d, w, q, x.kind)
    /\ Placed(x, d, w, q)
    /\ DiskOK(x, w, q, lost)
    /\ TurnOK(x, d, w)
    /\ FlushOK(x, d, q)

SInv == Agree(dev, ms, k, call, torn)
-----------------------------------------------------------------------------
(* What a transfer or a control request does to a stick. *)

(* y is x but for what may still go wrong, and whether it answers. *)
Like(x, y) ==
    /\ DOMAIN y = DOMAIN x
    /\ y.kind = x.kind /\ y.disk = x.disk /\ y.phase = x.phase /\ y.sense = x.sense
    /\ y.halted = x.halted /\ y.uncleared = x.uncleared
    /\ y.synced = x.synced /\ y.broken = x.broken /\ y.failed = x.failed
    /\ y.nak \in BOOLEAN

(* Nothing reached the stick. *)
Lost(x, o) == /\ Like(x, o.x) /\ o.res \in {"gone", "timeout", "error"} /\ o.x.gone \in BOOLEAN
              /\ x.gone \/ o.res = "gone" => o.x.gone
              /\ x.gone => o.res = "gone"

(* A stick that is gone answers nothing. *)
Absent(x, o) == x.gone => o.res = "gone" /\ o.x.broken = x.broken

(* What r was on the stick is o on the bus. *)
Shown(r, o) == o = r \/ (o.res = "error" /\ Like(r.x, o.x) /\ o.x.gone = r.x.gone)

(* A stick like another one is as sound. *)
LEMMA LikeOK ==
    ASSUME NEW x, NEW y, StickOK(x), Like(x, y), y.gone \in BOOLEAN
    PROVE  StickOK(y)
  BY DEF StickOK, IsStick, Like

(* What the bus makes of what a stick does. *)
LEMMA OnBusCases ==
    ASSUME NEW x, IsStick(x), NEW D, NEW E, \A r \in D : IsStick(r.x),
           NEW o \in IF x.gone THEN {Out(x, "gone")}
                     ELSE D \cup (IF x.nak THEN E ELSE {})
                          \cup (IF x.faults = 0 THEN {}
                                ELSE {Out(Costs([x EXCEPT !.gone = TRUE]), "gone"),
                                      Out(Costs([x EXCEPT !.nak = TRUE]), "timeout"),
                                      Out(Costs(x), "error")}
                                     \cup {Out(Costs(r.x), "error") : r \in {r \in D : r.x.faults > 0}})
    PROVE  \/ Lost(x, o)
           \/ ~x.gone /\ \E r \in D : Shown(r, o)
           \/ ~x.gone /\ x.nak /\ \E r \in E : Shown(r, o)
<1>1. CASE x.gone
  <2>1. o.x = x /\ o.res = "gone"
    BY <1>1 DEF Out
  <2> QED BY ZenonT(30), <1>1, <2>1 DEF Lost, Like, IsStick
<1>2. CASE ~x.gone /\ (o \in D \/ (x.nak /\ o \in E))
  BY <1>2 DEF Shown
<1>3. CASE ~x.gone /\ o = Out(Costs([x EXCEPT !.gone = TRUE]), "gone")
  BY ZenonT(30), <1>3 DEF Out, Lost, Like, IsStick, Costs
<1>4. CASE ~x.gone /\ o = Out(Costs([x EXCEPT !.nak = TRUE]), "timeout")
  BY ZenonT(30), <1>4 DEF Out, Lost, Like, IsStick, Costs
<1>5. CASE ~x.gone /\ o = Out(Costs(x), "error")
  BY <1>5 DEF Out, Lost, Like, IsStick, Costs
<1>6. ASSUME NEW r \in D, o = Out(Costs(r.x), "error")
      PROVE  Shown(r, o)
  <2>1. IsStick(r.x)
    OBVIOUS
  <2>2. Like(r.x, Costs(r.x)) /\ Costs(r.x).gone = r.x.gone
    BY <2>1 DEF IsStick, Costs, Like
  <2> QED BY <1>6, <2>2 DEF Out, Shown
<1> QED BY <1>1, <1>2, <1>3, <1>4, <1>5, <1>6
-----------------------------------------------------------------------------
(* A command c, as the driver makes them, and its CBW with the tag t. *)
CmdOK(c) ==
    /\ c.lba \in Nat /\ c.blocks \in Nat /\ c.length \in Nat
    /\ \/ c.op = "read" /\ c.dir = "in" /\ c.length > 0 /\ c.blocks = c.length
       \/ c.op = "write" /\ c.dir = "out" /\ c.length > 0 /\ c.blocks = c.length
       \/ /\ c.op \in {"inquiry", "request_sense", "read_capacity_10", "read_capacity_16"}
          /\ c.dir = "in" /\ c.length = 1
       \/ c.op \in {"test_unit_ready", "synchronize_cache"} /\ c.dir = "out" /\ c.length = 0
InRange(x, c) == c.op \in {"read", "write"} => c.lba + c.blocks <= x.kind.last + 1
Wrapped(c, t) == [tag |-> t, op |-> c.op, lba |-> c.lba, blocks |-> c.blocks, length |-> c.length,
                  dir |-> c.dir]

(* An answer a of x to c. *)
AnswerOK(x, c, a) ==
    /\ a.status \in Statuses /\ SenseOK(a.sense, x.kind) /\ a.stall \in BOOLEAN
    /\ a.status = "passed" /\ c.dir = "in" => a.data \in Seq(Units) /\ Len(a.data) = c.length /\ Tells(x, c, a.data)

(* x has taken c, and is y. *)
Started(x, y, c, t) ==
    /\ y.kind = x.kind /\ y.disk = x.disk /\ y.failed = x.failed /\ y.gone = x.gone
    /\ y.halted = x.halted /\ y.uncleared = x.uncleared /\ (x.synced => y.synced)
    /\ IF c.length > 0 THEN Runs(y, c, t)
       ELSE /\ CswOK(y.phase) /\ y.phase.tag = t
            /\ c.op = "synchronize_cache" /\ y.phase.status = "passed" => y.synced

(* What a stick that passes a command sends it. *)
LEMMA AnswerIsOK ==
    ASSUME Sizes, NEW x, StickOK(x), NEW c, CmdOK(c), InRange(x, c), NEW t
    PROVE  AnswerOK(x, c, Answer(x, Wrapped(c, t)))
<1> DEFINE w == Wrapped(c, t)
<1>1. w.op = c.op /\ w.lba = c.lba /\ w.blocks = c.blocks
  BY DEF Wrapped
<1> SUFFICES AnswerOK(x, c, Answer(x, w))
  OBVIOUS
<1> HIDE DEF w
<1>2. x.kind \in Kinds /\ x.kind.last \in Nat /\ x.kind.stalls \in BOOLEAN /\ x.disk \in [0..x.kind.last -> Values]
      /\ SenseOK(x.sense, x.kind)
  BY DEF StickOK, Sizes
<1>3. ASSUME NEW s, SenseOK(s, x.kind) PROVE AnswerOK(x, c, Failed(x, s))
  BY <1>2, <1>3 DEF AnswerOK, Failed, Statuses
<1>4. ASSUME NEW u \in Units, c.length = 1, Tells(x, c, <<u>>) PROVE AnswerOK(x, c, Passed(<<u>>))
  <2>1. <<u>> \in Seq(Units) /\ Len(<<u>>) = 1
    OBVIOUS
  <2> QED BY <1>4, <2>1 DEF AnswerOK, Passed, Statuses, SenseOK, Senses
<1>5. ASSUME c.dir = "out" PROVE AnswerOK(x, c, Passed(<<>>))
  BY <1>5 DEF AnswerOK, Passed, Statuses, SenseOK, Senses
<1>6. CASE c.op = "request_sense"
  <2>1. Answer(x, w) = Passed(<<x.sense>>) /\ x.sense \in Units
    BY <1>1, <1>2, <1>6 DEF Answer, Units, SenseOK
  <2>2. Tells(x, c, <<x.sense>>)
    BY <1>2, <1>6 DEF Tells
  <2> QED BY <1>4, <1>6, <2>1, <2>2 DEF CmdOK
<1>7. CASE c.op = "inquiry"
  <2>1. Answer(x, w) = Passed(<<x.kind.type>>) /\ x.kind.type \in Units
    BY <1>1, <1>2, <1>7 DEF Answer, Units
  <2>2. Tells(x, c, <<x.kind.type>>)
    BY <1>7 DEF Tells
  <2> QED BY <1>4, <1>7, <2>1, <2>2 DEF CmdOK
<1>8. CASE c.op \notin {"request_sense", "inquiry"} /\ (~x.kind.medium \/ x.waits > 0)
  <2>1. Answer(x, w) = Failed(x, "no_medium") \/ Answer(x, w) = Failed(x, "not_ready")
    BY ZenonT(30), <1>1, <1>8 DEF Answer
  <2> QED BY <1>3, <2>1 DEF SenseOK, Senses
<1>9. CASE c.op \notin {"request_sense", "inquiry"} /\ x.kind.medium /\ ~(x.waits > 0)
  <2>1. CASE c.op \in {"test_unit_ready", "synchronize_cache", "write"}
    <3>1. \/ Answer(x, w) = Passed(<<>>)
          \/ Answer(x, w) = Failed(x, "data_protect")
          \/ Answer(x, w) = Failed(x, "illegal_request") /\ ~x.kind.cache
      BY ZenonT(30), <1>1, <1>9, <2>1 DEF Answer
    <3> QED BY <1>3, <1>5, <2>1, <3>1 DEF SenseOK, Senses, CmdOK
  <2>2. CASE c.op = "read_capacity_10"
    <3>1. Answer(x, w) = Passed(<<Capacity(x, LAST10)>>)
      BY <1>1, <1>9, <2>2 DEF Answer
    <3>2. Capacity(x, LAST10) \in Units
      BY <1>2 DEF Capacity, Units, Sizes
    <3>3. Tells(x, c, <<Capacity(x, LAST10)>>)
      BY <2>2 DEF Tells
    <3> QED BY <1>4, <2>2, <3>1, <3>2, <3>3 DEF CmdOK
  <2>3. CASE c.op = "read_capacity_16"
    <3>1. Answer(x, w) = Passed(<<Capacity(x, x.kind.last)>>)
      BY <1>1, <1>9, <2>3 DEF Answer
    <3>2. Capacity(x, x.kind.last) \in Units
      BY <1>2 DEF Capacity, Units
    <3>3. Tells(x, c, <<Capacity(x, x.kind.last)>>)
      BY <2>3 DEF Tells
    <3> QED BY <1>4, <2>3, <3>1, <3>2, <3>3 DEF CmdOK
  <2>4. CASE c.op = "read"
    <3> DEFINE read == [i \in 1..c.blocks |-> x.disk[c.lba + i - 1]]
    <3>1. Answer(x, w) = Passed(read)
      BY <1>1, <1>9, <2>4 DEF Answer
    <3>2. c.lba \in Nat /\ c.length \in Nat /\ c.blocks = c.length /\ c.lba + c.length <= x.kind.last + 1
      BY <2>4 DEF CmdOK, InRange
    <3>3. \A i \in 1..c.blocks : x.disk[c.lba + i - 1] \in Values
      BY SMTT(60), <1>2, <3>2
    <3>4. read \in Seq(Units) /\ Len(read) = c.length
      <4>1. Values \subseteq Units
        BY Zenon DEF Units
      <4> QED BY <3>2, <3>3, <4>1
    <3>5. Tells(x, c, read)
      BY <2>4, <3>2 DEF Tells
    <3> HIDE DEF read
    <3> QED BY <3>1, <3>4, <3>5 DEF AnswerOK, Passed, Statuses, SenseOK, Senses
  <2> QED BY <1>9, <2>1, <2>2, <2>3, <2>4 DEF CmdOK
<1> QED BY <1>6, <1>7, <1>8, <1>9

(* What a stick in trouble answers. *)
LEMMA TroubleIsOK ==
    ASSUME Sizes, NEW x, StickOK(x), NEW c, CmdOK(c), NEW t, NEW a \in Troubles(x, Wrapped(c, t))
    PROVE  AnswerOK(x, c, a)
<1>1. x.kind \in Kinds /\ x.kind.stalls \in BOOLEAN /\ SenseOK(x.sense, x.kind)
  BY DEF StickOK, Sizes
<1>2. \/ a = [status |-> "phase_error", sense |-> x.sense, data |-> <<>>, stall |-> FALSE]
      \/ a = Failed(x, "unit_attention") \/ a = Failed(x, "medium_error")
      \/ a = [Failed(x, "aborted") EXCEPT !.stall = TRUE]
  BY DEF Troubles
<1>3. a.status \in {"failed", "phase_error"}
  BY <1>2 DEF Failed
<1>5. a.stall \in BOOLEAN
  <2>1. CASE a = [status |-> "phase_error", sense |-> x.sense, data |-> <<>>, stall |-> FALSE]
    BY <2>1
  <2>2. CASE a = Failed(x, "unit_attention") \/ a = Failed(x, "medium_error")
    BY <1>1, <2>2 DEF Failed
  <2>3. CASE a = [Failed(x, "aborted") EXCEPT !.stall = TRUE]
    BY <2>3 DEF Failed
  <2> QED BY <1>2, <2>1, <2>2, <2>3
<1>4. a.sense \in {x.sense, "unit_attention", "medium_error", "aborted"}
  BY <1>2 DEF Failed
<1> QED BY <1>1, <1>3, <1>4, <1>5 DEF AnswerOK, Statuses, SenseOK, Senses

(* begin: the stick is in the command's data phase, or has its CSW. *)
LEMMA BeginStarts ==
    ASSUME NEW x, StickOK(x), NEW c, CmdOK(c), NEW t \in Nat, NEW a, AnswerOK(x, c, a)
    PROVE  LET y == Begin(x, Wrapped(c, t), a)
           IN  StickOK(y) /\ Started(x, y, c, t) /\ y.broken = x.broken /\ y.nak = x.nak
<1> DEFINE w == Wrapped(c, t)
           csw == [at |-> "csw", tag |-> t, residue |-> 0, status |-> a.status]
           z == [x EXCEPT !.sense = IF c.op = "request_sense" THEN "none" ELSE a.sense,
                          !.waits = IF c.op = "test_unit_ready" THEN Minus(@, 1) ELSE @,
                          !.synced = @ \/ (c.op = "synchronize_cache" /\ a.status = "passed")]
           y == Begin(x, w, a)
           data == IF a.status = "passed" THEN a.data ELSE [i \in 1..c.length |-> Zeros(w)]
<1> SUFFICES StickOK(y) /\ Started(x, y, c, t) /\ y.broken = x.broken /\ y.nak = x.nak
  OBVIOUS
<1>1. /\ w.op = c.op /\ w.lba = c.lba /\ w.blocks = c.blocks /\ w.length = c.length /\ w.dir = c.dir
      /\ w.tag = t
  BY DEF Wrapped
<1>2. CswOK(csw) /\ csw.tag = t /\ csw.status = a.status
  BY DEF CswOK, AnswerOK
<1>3. /\ IsStick(z) /\ z.kind = x.kind /\ z.disk = x.disk /\ z.failed = x.failed /\ z.gone = x.gone
      /\ z.halted = x.halted /\ z.uncleared = x.uncleared /\ z.broken = x.broken /\ z.nak = x.nak
      /\ x.synced => z.synced
      /\ c.op = "synchronize_cache" /\ a.status = "passed" => z.synced
  BY ZenonT(30) DEF StickOK, IsStick
<1>4. SenseOK(z.sense, x.kind)
  BY DEF StickOK, IsStick, AnswerOK, SenseOK, Senses
<1>5. ASSUME NEW p, PhaseOK(p)
      PROVE  LET v == [z EXCEPT !.phase = p]
             IN  /\ StickOK(v) /\ v.phase = p /\ v.kind = x.kind /\ v.disk = x.disk /\ v.failed = x.failed
                 /\ v.gone = x.gone /\ v.halted = x.halted /\ v.uncleared = x.uncleared
                 /\ v.broken = x.broken /\ v.nak = x.nak /\ v.synced = z.synced
  <2> HIDE DEF z
  <2>1. /\ x.kind \in Kinds /\ x.disk \in [0..x.kind.last -> Values]
        /\ x.halted \subseteq Ends /\ x.uncleared \subseteq Ends
    BY DEF StickOK
  <2> QED BY <1>3, <1>4, <1>5, <2>1 DEF StickOK, IsStick
<1>6. CASE c.length = 0
  <2>1. y = [z EXCEPT !.phase = csw]
    BY <1>1, <1>6 DEF Begin
  <2>2. PhaseOK(csw)
    BY <1>2 DEF PhaseOK
  <2> HIDE DEF z, csw, w, y
  <2> QED BY <1>2, <1>3, <1>5, <1>6, <2>1, <2>2 DEF Started
<1>7. CASE c.length > 0 /\ c.dir = "in"
  <2> DEFINE p == [at |-> "in", csw |-> csw, left |-> c.length, stall |-> a.stall, data |-> data]
  <2>1. y = [z EXCEPT !.phase = p]
    BY <1>1, <1>7 DEF Begin
  <2>2. Zeros(w) \in Units
    BY <1>1 DEF Zeros, Units
  <2>3. c.length \in Nat
    BY DEF CmdOK
  <2>4. data \in Seq(Units) /\ Len(data) = c.length /\ (a.status = "passed" => Tells(x, c, data))
    <3>1. CASE a.status = "passed"
      BY <1>7, <3>1 DEF AnswerOK
    <3>2. CASE a.status # "passed"
      <4> HIDE DEF w
      <4> QED BY <3>2, <2>2, <2>3
    <3> QED BY ZenonT(30), <3>1, <3>2
  <2> HIDE DEF data, csw
  <2>5. p.at = "in" /\ p.csw = csw /\ p.left = c.length /\ p.stall = a.stall /\ p.data = data
    OBVIOUS
  <2> HIDE DEF p, z, w, y
  <2>6. PhaseOK(p)
    BY <1>2, <1>7, <2>3, <2>4, <2>5 DEF PhaseOK, AnswerOK
  <2>7. Started(x, y, c, t)
    <3>1. /\ y.kind = x.kind /\ y.disk = x.disk /\ y.failed = x.failed /\ y.gone = x.gone
          /\ y.halted = x.halted /\ y.uncleared = x.uncleared /\ (x.synced => y.synced) /\ y.phase = p
      BY <1>3, <1>5, <2>1, <2>6
    <3>2. Runs(y, c, t)
      <4>1. a.status = "passed" => Tells(y, c, data)
        BY <2>4, <3>1 DEF Tells, Capacity
      <4> QED BY <1>2, <1>7, <2>5, <3>1, <4>1 DEF Runs
    <3> QED BY <1>7, <3>1, <3>2 DEF Started
  <2> QED BY <1>5, <2>1, <2>6, <2>7
<1>8. CASE c.length > 0 /\ c.dir = "out"
  <2> DEFINE p == [at |-> "out", csw |-> csw, left |-> c.length, stall |-> a.stall,
                   lba |-> c.lba, writes |-> a.status = "passed"]
  <2>1. y = [z EXCEPT !.phase = p]
    BY <1>1, <1>8 DEF Begin
  <2> HIDE DEF csw
  <2>5. /\ p.at = "out" /\ p.csw = csw /\ p.left = c.length /\ p.stall = a.stall /\ p.lba = c.lba
        /\ p.writes = (a.status = "passed")
    OBVIOUS
  <2> HIDE DEF p, z, w, y
  <2>6. PhaseOK(p)
    BY <1>2, <1>8, <2>5 DEF PhaseOK, AnswerOK, CmdOK
  <2>7. Started(x, y, c, t)
    <3>1. /\ y.kind = x.kind /\ y.disk = x.disk /\ y.failed = x.failed /\ y.gone = x.gone
          /\ y.halted = x.halted /\ y.uncleared = x.uncleared /\ (x.synced => y.synced) /\ y.phase = p
      BY <1>3, <1>5, <2>1, <2>6
    <3>2. Runs(y, c, t)
      BY <1>2, <1>8, <2>5, <3>1 DEF Runs
    <3> QED BY <1>8, <3>1, <3>2 DEF Started
  <2> QED BY <1>5, <2>1, <2>6, <2>7
<1> QED BY <1>6, <1>7, <1>8 DEF CmdOK

-----------------------------------------------------------------------------
(* A transfer changes no blocks but those that a data phase still writes. *)
Moved(x, y) ==
    /\ y.kind = x.kind /\ y.failed = x.failed /\ y.uncleared = x.uncleared
    /\ x.synced => y.synced
    /\ \A l \in 0..x.kind.last : l \notin OutBlocks(x.phase) => y.disk[l] = x.disk[l]

(* The stick took the blocks of a data phase, or stalled it. *)
Received(x, r, data) ==
    /\ StickOK(r.x) /\ Moved(x, r.x)
    /\ CswOK(r.x.phase) /\ r.x.phase.tag = x.phase.csw.tag /\ r.x.phase.status = x.phase.csw.status
    /\ r.x.gone = x.gone /\ r.x.broken = x.broken
    /\ IF x.phase.stall THEN r.res = "stall" /\ r.x.halted = x.halted \cup {"out"}
       ELSE /\ r.res = "ok" /\ r.x.halted = x.halted
            /\ x.phase.writes =>
                  \A i \in 1..x.phase.left :
                     x.phase.lba + i - 1 <= x.kind.last => r.x.disk[x.phase.lba + i - 1] = data[i]

(* A stalled endpoint. *)
LEMMA StallsKeeps ==
    ASSUME NEW x, StickOK(x), NEW ep \in Ends, NEW p, PhaseOK(p)
    PROVE  LET y == Stalls(x, ep, p).x
           IN  /\ StickOK(y) /\ Stalls(x, ep, p).res = "stall" /\ y.phase = p /\ y.halted = x.halted \cup {ep}
               /\ y.kind = x.kind /\ y.disk = x.disk /\ y.failed = x.failed /\ y.broken = x.broken
               /\ y.uncleared = x.uncleared /\ y.synced = x.synced /\ y.gone = x.gone
<1> DEFINE y == [x EXCEPT !.halted = @ \cup {ep}, !.phase = p]
<1>1. Stalls(x, ep, p).x = y /\ Stalls(x, ep, p).res = "stall"
  BY DEF Stalls, Out
<1>2. /\ IsStick(y) /\ y.phase = p /\ y.halted = x.halted \cup {ep}
      /\ y.kind = x.kind /\ y.disk = x.disk /\ y.failed = x.failed /\ y.broken = x.broken
      /\ y.uncleared = x.uncleared /\ y.synced = x.synced /\ y.gone = x.gone /\ y.sense = x.sense
  BY DEF StickOK, IsStick
<1> HIDE DEF y
<1>3. StickOK(y)
  BY <1>2 DEF StickOK
<1> QED BY <1>1, <1>2, <1>3

(* The CSW that follows a data phase. *)
LEMMA CswFollows ==
    ASSUME NEW p, CswOK(p.csw), NEW n
    PROVE  LET c == [p.csw EXCEPT !.residue = n]
           IN  CswOK(c) /\ PhaseOK(c) /\ c.tag = p.csw.tag /\ c.status = p.csw.status
  BY DEF CswOK, PhaseOK

(* The stick stores the blocks of a data-out phase, or stalls it. *)
LEMMA DataOutKeeps ==
    ASSUME Sizes, NEW x, StickOK(x), x.phase.at = "out",
           NEW data, \A i \in 1..x.phase.left : data[i] \in Values,
           NEW r \in DataOut(x, data)
    PROVE  Received(x, r, data)
<1> DEFINE p == x.phase
<1>1. /\ CswOK(p.csw) /\ p.left \in Nat \ {0} /\ p.lba \in Nat /\ p.writes \in BOOLEAN /\ p.stall \in BOOLEAN
      /\ x.kind.last \in Nat /\ x.disk \in [0..x.kind.last -> Values]
  BY DEF StickOK, PhaseOK, CswOK, Sizes
<1>2. CASE p.stall
  <2> DEFINE c == [p.csw EXCEPT !.residue = p.left]
  <2>1. r = Stalls(x, "out", c)
    BY <1>2 DEF DataOut
  <2>2. CswOK(c) /\ PhaseOK(c) /\ c.tag = p.csw.tag /\ c.status = p.csw.status
    BY ZenonT(30), <1>1, CswFollows
  <2> HIDE DEF c
  <2>3. Moved(x, r.x)
    BY SMTT(60), <2>1, <2>2, StallsKeeps DEF Moved, Ends
  <2> QED BY SMTT(60), <1>2, <2>1, <2>2, <2>3, StallsKeeps DEF Received, Ends
<1>3. CASE ~p.stall
  <2> DEFINE c == [p.csw EXCEPT !.residue = 0]
             disk == [l \in DOMAIN x.disk |->
                        IF p.writes /\ l \in p.lba..(p.lba + p.left - 1) THEN data[l - p.lba + 1] ELSE x.disk[l]]
             y == [x EXCEPT !.phase = c, !.disk = disk]
  <2>1. r.x = y /\ r.res = "ok"
    BY <1>3 DEF DataOut, Out
  <2>2. CswOK(c) /\ PhaseOK(c) /\ c.tag = p.csw.tag /\ c.status = p.csw.status
    BY ZenonT(30), <1>1, CswFollows
  <2>3. /\ IsStick(y) /\ y.phase = c /\ y.disk = disk /\ y.halted = x.halted
        /\ y.kind = x.kind /\ y.failed = x.failed /\ y.broken = x.broken
        /\ y.uncleared = x.uncleared /\ y.synced = x.synced /\ y.gone = x.gone /\ y.sense = x.sense
    <3> HIDE DEF c, disk
    <3> QED BY DEF StickOK, IsStick
  <2>4. disk \in [0..x.kind.last -> Values]
    BY SMTT(60), <1>1
  <2>5. \A l \in 0..x.kind.last : l \notin OutBlocks(p) => disk[l] = x.disk[l]
    BY <1>1 DEF OutBlocks
  <2>6. p.writes => \A i \in 1..p.left : p.lba + i - 1 <= x.kind.last => disk[p.lba + i - 1] = data[i]
    <3> SUFFICES ASSUME p.writes, NEW i \in 1..p.left, p.lba + i - 1 <= x.kind.last
                 PROVE  disk[p.lba + i - 1] = data[i]
      BY ZenonT(30)
    <3> DEFINE l == p.lba + i - 1
    <3>1. l \in 0..x.kind.last /\ l \in p.lba..(p.lba + p.left - 1) /\ l - p.lba + 1 = i
      BY <1>1
    <3> HIDE DEF l
    <3>2. disk[l] = data[l - p.lba + 1]
      BY <1>1, <3>1
    <3> QED BY <3>1, <3>2 DEF l
  <2> HIDE DEF c, disk, y
  <2>7. StickOK(y)
    BY <2>2, <2>3, <2>4 DEF StickOK
  <2>8. Moved(x, y)
    BY <2>3, <2>5 DEF Moved
  <2> QED BY <1>3, <2>1, <2>2, <2>3, <2>6, <2>7, <2>8 DEF Received
<1> QED BY <1>1, <1>2, <1>3

-----------------------------------------------------------------------------
(* The stick has taken c with the tag t. *)
Taken(y, c, t) ==
    IF c.length > 0 THEN Runs(y, c, t)
    ELSE /\ CswOK(y.phase) /\ y.phase.tag = t
         /\ c.op = "synchronize_cache" /\ y.phase.status = "passed" => y.synced

(* The CBW of c was sent to x, which is y: the answer is res. *)
CbwSent(x, y, res, c, t) ==
    /\ StickOK(y) /\ Moved(x, y) /\ TagBelow(y.phase, t + 1)
    /\ OutBlocks(y.phase) \subseteq OutBlocks(x.phase) \cup (IF c.op = "write" THEN c.lba..(c.lba + c.length - 1) ELSE {})
    /\ res \in Causes \cup {"ok", "gone"} /\ (x.gone \/ res = "gone" => y.gone)
    /\ res = "ok" => Taken(y, c, t) \/ (Stale(y, t) /\ ~Quiet(x))
    /\ Quiet(x) => y.broken = x.broken /\ y.halted = {}

(* A CBW that got lost. *)
LEMMA CbwLost ==
    ASSUME NEW x, StickOK(x), NEW c, NEW t \in Nat, TagBelow(x.phase, t), NEW o, Lost(x, o)
    PROVE  CbwSent(x, o.x, o.res, c, t)
<1>1. StickOK(o.x)
  BY LikeOK DEF Lost
<1>2. TagBelow(o.x.phase, t + 1)
  BY DEF Lost, Like, TagBelow, TagOf, StickOK, PhaseOK, CswOK
<1>3. Moved(x, o.x)
  BY DEF Moved, Lost, Like
<1> QED BY <1>1, <1>2, <1>3 DEF CbwSent, Lost, Like, Causes, Quiet

(* What the bus shows of a CBW that the stick saw. *)
LEMMA CbwShown ==
    ASSUME NEW x, NEW z, Like(x, z), z.gone = x.gone, NEW c, NEW t, NEW r, NEW o, Shown(r, o),
           CbwSent(z, r.x, r.res, c, t)
    PROVE  CbwSent(x, o.x, o.res, c, t)
<1>1. CbwSent(x, r.x, r.res, c, t)
  BY DEF CbwSent, Like, Moved, Quiet
<1>2. CASE o = r
  BY <1>1, <1>2
<1>3. CASE o.res = "error" /\ Like(r.x, o.x) /\ o.x.gone = r.x.gone
  <2>1. StickOK(o.x)
    <3>1. StickOK(r.x) /\ r.x.gone \in BOOLEAN
      BY <1>1 DEF CbwSent, StickOK, IsStick
    <3> QED BY <1>3, <3>1, LikeOK
  <2>2. Moved(x, o.x)
    BY <1>1, <1>3 DEF CbwSent, Like, Moved
  <2> QED BY <1>1, <1>3, <2>1, <2>2 DEF CbwSent, Like, Causes
<1> QED BY <1>2, <1>3 DEF Shown

(* A stick that waits for a CBW. *)
LEMMA CbwTaken ==
    ASSUME Sizes, NEW x, StickOK(x), NEW c, CmdOK(c), InRange(x, c), NEW t \in Nat,
           x.phase.at = "cbw", NEW r \in Cbw(x, Wrapped(c, t))
    PROVE  CbwSent(x, r.x, r.res, c, t)
<1> DEFINE w == Wrapped(c, t)
<1>1. w.op = c.op /\ w.lba = c.lba /\ w.blocks = c.blocks
  BY DEF Wrapped
<1>2. ~(w.op \in {"read", "write"} /\ w.lba + w.blocks > x.kind.last + 1)
  BY SMTT(60), <1>1 DEF InRange, CmdOK, StickOK, Sizes
<1>3. PICK y \in Command(x, w) : r = Out([y EXCEPT !.broken = @ \/ x.uncleared # {}], "ok")
  BY SMTT(60) DEF Cbw
<1>4. y = Begin(x, w, Answer(x, w)) \/ \E a \in Troubles(x, w) : y = Begin(Costs(x), w, a)
  <2> HIDE DEF w
  <2> QED BY <1>2, <1>3 DEF Command
<1>5. StickOK(y) /\ Started(x, y, c, t) /\ y.broken = x.broken
  <2>1. CASE y = Begin(x, w, Answer(x, w))
    BY <2>1, AnswerIsOK, BeginStarts
  <2>2. ASSUME NEW a \in Troubles(x, w), y = Begin(Costs(x), w, a)
        PROVE  StickOK(y) /\ Started(x, y, c, t) /\ y.broken = x.broken
    <3> DEFINE z == Costs(x)
    <3>1. Like(x, z) /\ z.gone = x.gone /\ z.gone \in BOOLEAN
      BY DEF Costs, Like, StickOK, IsStick
    <3> HIDE DEF z, w
    <3>2. StickOK(z)
      BY <3>1, LikeOK
    <3>3. AnswerOK(x, c, a)
      BY TroubleIsOK DEF w
    <3>4. AnswerOK(z, c, a)
      BY <3>1, <3>3 DEF Like, AnswerOK, Tells, Capacity
    <3>5. StickOK(y) /\ Started(z, y, c, t) /\ y.broken = z.broken
      BY <2>2, <3>2, <3>4, BeginStarts DEF w, z
    <3> QED BY <3>1, <3>5 DEF Like, Started
  <2> QED BY <1>4, <2>1, <2>2
<1> DEFINE v == [y EXCEPT !.broken = @ \/ x.uncleared # {}]
<1>6. r.x = v /\ r.res = "ok"
  BY <1>3 DEF Out
<1>7. /\ IsStick(v) /\ v.kind = y.kind /\ v.disk = y.disk /\ v.phase = y.phase /\ v.sense = y.sense
      /\ v.halted = y.halted /\ v.uncleared = y.uncleared /\ v.gone = y.gone /\ v.synced = y.synced
      /\ v.failed = y.failed /\ (x.uncleared = {} => v.broken = y.broken)
  BY <1>5 DEF StickOK, IsStick
<1> HIDE DEF v, w
<1>8. StickOK(v)
  BY <1>5, <1>7 DEF StickOK
<1>9. Taken(v, c, t)
  BY <1>5, <1>7 DEF Taken, Started, Runs, Tells, Capacity
<1>10. Moved(x, v)
  BY <1>5, <1>7 DEF Moved, Started
<1>11. TagBelow(v.phase, t + 1)
  BY <1>9 DEF Taken, Runs, CswOK, TagBelow, TagOf, CmdOK
<1>12. OutBlocks(v.phase) \subseteq (IF c.op = "write" THEN c.lba..(c.lba + c.length - 1) ELSE {})
  BY <1>9 DEF Taken, Runs, CswOK, OutBlocks, CmdOK
<1> QED BY <1>5, <1>6, <1>7, <1>8, <1>9, <1>10, <1>11, <1>12 DEF CbwSent, Quiet, Started, Causes

(* The next tag is above those below the one before it. *)
LEMMA TagUp ==
    ASSUME NEW p, PhaseOK(p), NEW t \in Nat, TagBelow(p, t)
    PROVE  TagBelow(p, t + 1)
  BY DEF PhaseOK, CswOK, TagBelow, TagOf

(* A stick that broke the rules is sound. *)
LEMMA BrokenOK ==
    ASSUME NEW x, StickOK(x)
    PROVE  LET y == [x EXCEPT !.broken = TRUE]
           IN  /\ StickOK(y) /\ y.kind = x.kind /\ y.disk = x.disk /\ y.phase = x.phase
               /\ y.halted = x.halted /\ y.uncleared = x.uncleared /\ y.gone = x.gone
               /\ y.synced = x.synced /\ y.failed = x.failed
  BY DEF StickOK, IsStick

(* A transfer that the stick refuses, or does not expect. *)
LEMMA MisplacedKeeps ==
    ASSUME NEW x, StickOK(x), NEW r \in Misplaced(x)
    PROVE  /\ StickOK(r.x) /\ Moved(x, r.x) /\ r.x.phase = x.phase /\ r.x.gone = x.gone /\ r.res = "stall"
           /\ r.x.disk = x.disk /\ r.x.synced = x.synced
<1> DEFINE y == [x EXCEPT !.broken = TRUE]
<1>1. r = Stalls(y, "out", x.phase)
  BY DEF Misplaced
<1>2. /\ StickOK(y) /\ y.kind = x.kind /\ y.disk = x.disk /\ y.uncleared = x.uncleared /\ y.gone = x.gone
      /\ y.synced = x.synced /\ y.failed = x.failed /\ PhaseOK(x.phase)
  BY BrokenOK DEF StickOK
<1> HIDE DEF y
<1> QED BY SMTT(60), <1>1, <1>2, StallsKeeps DEF Moved, Ends

(* A stick that waits for something else. *)
LEMMA CbwMisplaced ==
    ASSUME NEW x, StickOK(x), NEW c, NEW t \in Nat, TagBelow(x.phase, t), x.phase.at # "cbw",
           NEW r \in Misplaced(x)
    PROVE  CbwSent(x, r.x, r.res, c, t)
<1>1. TagBelow(r.x.phase, t + 1)
  BY MisplacedKeeps, TagUp DEF StickOK
<1> QED BY <1>1, MisplacedKeeps DEF CbwSent, Causes, Quiet

(* A stick that waits for data may take a CBW for it. *)
LEMMA CbwSwallowed ==
    ASSUME Sizes, NEW x, StickOK(x), NEW c, NEW t \in Nat, TagBelow(x.phase, t), x.phase.at = "out",
           NEW r \in Swallowed(x)
    PROVE  CbwSent(x, r.x, r.res, c, t)
<1>1. CASE r \in Misplaced(x)
  BY <1>1, CbwMisplaced
<1> DEFINE y == [x EXCEPT !.broken = TRUE]
           junk == [i \in 1..x.phase.left |-> "junk"]
<1>2. CASE r \in DataOut(y, junk)
  <2>1. /\ StickOK(y) /\ y.kind = x.kind /\ y.disk = x.disk /\ y.phase = x.phase /\ y.uncleared = x.uncleared
        /\ y.gone = x.gone /\ y.synced = x.synced /\ y.failed = x.failed
    BY BrokenOK
  <2>2. \A i \in 1..x.phase.left : junk[i] \in Values
    BY DEF Values
  <2> HIDE DEF y, junk
  <2>3. Received(y, r, junk)
    BY <1>2, <2>1, <2>2, DataOutKeeps
  <2>4. CswOK(r.x.phase) /\ r.x.phase.tag < t
    BY <2>1, <2>3 DEF Received, TagBelow, TagOf
  <2>5. TagBelow(r.x.phase, t + 1) /\ OutBlocks(r.x.phase) = {} /\ Stale(r.x, t)
    BY <2>4 DEF CswOK, TagBelow, TagOf, OutBlocks, Stale
  <2>6. StickOK(r.x) /\ Moved(x, r.x) /\ r.x.gone = x.gone /\ r.res \in {"ok", "stall"}
    BY <2>1, <2>3 DEF Received, Moved
  <2> QED BY <2>5, <2>6 DEF CbwSent, Quiet, Causes
<1> QED BY <1>1, <1>2 DEF Swallowed

(* What a stick does with a CBW, wherever it is. *)
LEMMA CbwOnStick ==
    ASSUME Sizes, NEW x, StickOK(x), NEW c, CmdOK(c), InRange(x, c), NEW t \in Nat, TagBelow(x.phase, t),
           NEW r \in data_out(x, "cbw", Wrapped(c, t))
    PROVE  CbwSent(x, r.x, r.res, c, t)
<1>1. CASE x.nak
  <2>1. r.x = x /\ r.res = "timeout"
    BY <1>1 DEF data_out, Out
  <2>2. TagBelow(x.phase, t + 1)
    BY DEF TagBelow, TagOf, StickOK, PhaseOK, CswOK
  <2> QED BY <2>1, <2>2 DEF CbwSent, Moved, Causes, Quiet
<1>2. CASE ~x.nak /\ "out" \in x.halted
  <2>1. r.x = x /\ r.res = "stall"
    BY <1>2 DEF data_out, Out
  <2>2. TagBelow(x.phase, t + 1)
    BY DEF TagBelow, TagOf, StickOK, PhaseOK, CswOK
  <2> QED BY <1>2, <2>1, <2>2 DEF CbwSent, Moved, Causes, Quiet
<1>3. CASE ~x.nak /\ "out" \notin x.halted
  <2>1. CASE x.phase.at = "cbw"
    <3>1. r \in Cbw(x, Wrapped(c, t))
      BY <1>3, <2>1 DEF data_out
    <3> QED BY <2>1, <3>1, CbwTaken
  <2>2. CASE x.phase.at = "out"
    <3>1. r \in Swallowed(x)
      BY <1>3, <2>2 DEF data_out
    <3> QED BY ZenonT(30), <2>2, <3>1, CbwSwallowed
  <2>3. CASE x.phase.at \notin {"cbw", "out"}
    <3>1. r \in Misplaced(x)
      BY <1>3, <2>3 DEF data_out
    <3> QED BY <2>3, <3>1, CbwMisplaced
  <2> QED BY <2>1, <2>2, <2>3
<1> QED BY <1>1, <1>2, <1>3

(* The stick without its NAKs. *)
LEMMA Unnaked ==
    ASSUME NEW x, StickOK(x)
    PROVE  LET z == [x EXCEPT !.nak = FALSE] IN StickOK(z) /\ Like(x, z) /\ z.gone = x.gone
  BY DEF StickOK, IsStick, Like

(* A CBW on the bus. *)
LEMMA CbwOutcome ==
    ASSUME Sizes, NEW x, StickOK(x), NEW c, CmdOK(c), InRange(x, c), NEW t \in Nat, TagBelow(x.phase, t),
           NEW o \in BulkOut(x, "cbw", Wrapped(c, t))
    PROVE  CbwSent(x, o.x, o.res, c, t) /\ Absent(x, o)
<1> DEFINE z == [x EXCEPT !.nak = FALSE]
           w == Wrapped(c, t)
           D == data_out(x, "cbw", w)
           E == data_out(z, "cbw", w)
<1>1. StickOK(z) /\ Like(x, z) /\ z.gone = x.gone
  BY Unnaked
<1>2. \A r \in D : CbwSent(x, r.x, r.res, c, t)
  BY CbwOnStick
<1>3. \A r \in E : CbwSent(z, r.x, r.res, c, t)
  <2> HIDE DEF z
  <2>1. InRange(z, c) /\ TagBelow(z.phase, t)
    BY <1>1 DEF InRange, Like
  <2> QED BY <1>1, <2>1, CbwOnStick
<1>4. \A r \in D : IsStick(r.x)
  BY <1>2, Zenon DEF CbwSent, StickOK
<1>5. IsStick(x)
  BY DEF StickOK
<1>6. o \in IF x.gone THEN {Out(x, "gone")}
            ELSE D \cup (IF x.nak THEN E ELSE {})
                 \cup (IF x.faults = 0 THEN {}
                       ELSE {Out(Costs([x EXCEPT !.gone = TRUE]), "gone"),
                             Out(Costs([x EXCEPT !.nak = TRUE]), "timeout"),
                             Out(Costs(x), "error")}
                            \cup {Out(Costs(r.x), "error") : r \in {r \in D : r.x.faults > 0}})
  BY DEF BulkOut, OnBus
<1> HIDE DEF D, E, z, w
<1>7. \/ Lost(x, o)
      \/ ~x.gone /\ \E r \in D : Shown(r, o)
      \/ ~x.gone /\ x.nak /\ \E r \in E : Shown(r, o)
  BY ZenonT(30), <1>4, <1>5, <1>6, OnBusCases
<1>8. ASSUME Lost(x, o) PROVE CbwSent(x, o.x, o.res, c, t)
  BY <1>8, CbwLost
<1>9. ASSUME NEW r \in D, Shown(r, o) PROVE CbwSent(x, o.x, o.res, c, t)
  <2>1. Like(x, x)
    BY DEF Like, StickOK, IsStick
  <2> QED BY <1>2, <1>9, <2>1, CbwShown
<1>10. ASSUME NEW r \in E, Shown(r, o) PROVE CbwSent(x, o.x, o.res, c, t)
  BY <1>1, <1>3, <1>10, CbwShown
<1>11. Absent(x, o)
  BY <1>7 DEF Absent, Lost, Like
<1> QED BY <1>7, <1>8, <1>9, <1>10, <1>11

-----------------------------------------------------------------------------
(* The stick gave its CSW, in one of the ways it may look, or stalled. *)
CswGiven(x, r) ==
    /\ StickOK(r.x) /\ r.x.kind = x.kind /\ r.x.disk = x.disk /\ r.x.failed = x.failed
    /\ r.x.broken = x.broken /\ r.x.gone = x.gone /\ r.x.synced = x.synced /\ r.x.uncleared = x.uncleared
    /\ \/ r.res = "stall" /\ r.x.phase = x.phase /\ r.x.halted = x.halted \cup {"in"}
       \/ /\ r.res = "ok" /\ r.x.phase = [at |-> "cbw"] /\ r.x.halted = x.halted
          /\ \E v : /\ r.data = <<v>> /\ "valid" \in DOMAIN v /\ v.status = x.phase.status
                    /\ v.tag \in {x.phase.tag, x.phase.tag + 1}

(* The stick gives its CSW, right or wrong, or stalls. *)
LEMMA CswKeeps ==
    ASSUME NEW x, StickOK(x), CswOK(x.phase), NEW r \in Csw(x)
    PROVE  CswGiven(x, r)
<1> DEFINE p == x.phase
           z == Costs(x)
           good == [tag |-> p.tag, residue |-> p.residue, status |-> p.status, valid |-> TRUE]
           Gives(y, v) == [x |-> [y EXCEPT !.phase = [at |-> "cbw"]], res |-> "ok", data |-> <<v>>]
<1>1. Like(x, z) /\ z.gone = x.gone /\ z.gone \in BOOLEAN
  BY DEF Costs, Like, StickOK, IsStick
<1>2. Like(x, x) /\ x.gone \in BOOLEAN
  BY DEF Like, StickOK, IsStick
<1>3. \/ r = Stalls(z, "in", p)
      \/ \E y \in {x, z}, v \in {good, [good EXCEPT !.valid = FALSE], [good EXCEPT !.tag = @ + 1],
                                 [good EXCEPT !.residue = 1 - @]} : r = Gives(y, v)
  BY ZenonT(30) DEF Csw
<1>4. \A v \in {good, [good EXCEPT !.valid = FALSE], [good EXCEPT !.tag = @ + 1], [good EXCEPT !.residue = 1 - @]} :
         "valid" \in DOMAIN v /\ v.status = p.status /\ v.tag \in {p.tag, p.tag + 1}
  OBVIOUS
<1>5. PhaseOK(p) /\ PhaseOK([at |-> "cbw"])
  BY DEF PhaseOK
<1> HIDE DEF z, good
<1>6. CASE r = Stalls(z, "in", p)
  <2>1. StickOK(z)
    BY <1>1, LikeOK
  <2>2. "in" \in Ends
    BY DEF Ends
  <2>3. /\ StickOK(r.x) /\ r.res = "stall" /\ r.x.phase = p /\ r.x.halted = z.halted \cup {"in"}
        /\ r.x.kind = z.kind /\ r.x.disk = z.disk /\ r.x.failed = z.failed /\ r.x.broken = z.broken
        /\ r.x.uncleared = z.uncleared /\ r.x.synced = z.synced /\ r.x.gone = z.gone
    BY <1>5, <1>6, <2>1, <2>2, StallsKeeps
  <2> QED BY <1>1, <2>3 DEF CswGiven, Like
<1>7. ASSUME NEW y \in {x, z},
             NEW v \in {good, [good EXCEPT !.valid = FALSE], [good EXCEPT !.tag = @ + 1], [good EXCEPT !.residue = 1 - @]},
             r = Gives(y, v)
      PROVE  CswGiven(x, r)
  <2>1. Like(x, y) /\ y.gone = x.gone
    BY <1>1, <1>2
  <2>2. StickOK(y)
    BY <1>2, <2>1, LikeOK
  <2> DEFINE u == [y EXCEPT !.phase = [at |-> "cbw"]]
  <2>3. r.x = u /\ r.res = "ok" /\ r.data = <<v>>
    BY <1>7
  <2>4. /\ IsStick(u) /\ u.kind = y.kind /\ u.disk = y.disk /\ u.failed = y.failed /\ u.broken = y.broken
        /\ u.gone = y.gone /\ u.synced = y.synced /\ u.uncleared = y.uncleared /\ u.halted = y.halted
        /\ u.sense = y.sense /\ u.phase = [at |-> "cbw"]
    BY <2>2 DEF StickOK, IsStick
  <2> HIDE DEF u
  <2>5. StickOK(u)
    BY <1>5, <2>2, <2>4 DEF StickOK
  <2> QED BY ZenonT(30), <1>4, <2>1, <2>3, <2>4, <2>5 DEF CswGiven, Like
<1> QED BY <1>3, <1>6, <1>7

(* The data phase of c is over: moved units of it were moved. *)
DataDone(y, c, t, moved, data, payload) ==
    /\ y.phase.at = "csw" /\ y.phase.tag = t /\ moved \in 0..c.length
    /\ y.phase.status = "passed" /\ moved = c.length =>
          /\ c.dir = "in" => Tells(y, c, data)
          /\ c.op = "write" => \A i \in 1..c.length : y.disk[c.lba + i - 1] = payload[i]

(* A transfer for the data phase of c was done on x, which is y. *)
DataSent(x, y, res, data, c, t, payload) ==
    /\ StickOK(y) /\ Moved(x, y) /\ TagBelow(y.phase, t + 1) /\ OutBlocks(y.phase) \subseteq OutBlocks(x.phase)
    /\ res \in Causes \cup {"ok", "gone"} /\ (x.gone \/ res = "gone" => y.gone)
    /\ res = "ok" => \/ y.phase.at = "cbw"
                     \/ DataDone(y, c, t, IF c.dir = "in" THEN Len(data) ELSE c.length, data, payload)
    /\ res = "stall" => Runs(y, c, t) \/ Stale(y, t) \/ (y.phase.at = "csw" /\ y.phase.tag = t)
    /\ Runs(x, c, t) /\ x.halted = {} =>
          /\ y.broken = x.broken
          /\ res = "ok" => y.phase.at = "csw" /\ y.phase.tag = t /\ y.halted = {}
          /\ res = "stall" => y.phase.at = "csw" /\ y.phase.tag = t /\ y.halted = {c.dir}

(* What Runs says of the tag. *)
LEMMA RunsTag ==
    ASSUME NEW x, StickOK(x), NEW c, CmdOK(c), NEW t \in Nat, Runs(x, c, t) \/ Stale(x, t)
    PROVE  TagBelow(x.phase, t + 1)
  BY DEF Runs, Stale, TagBelow, TagOf, CmdOK, StickOK, PhaseOK, CswOK

(* What a stick does when its data are asked for, wherever it is. *)
LEMMA DataInOnStick ==
    ASSUME Sizes, NEW x, StickOK(x), NEW c, CmdOK(c), c.dir = "in", c.length > 0, NEW t \in Nat,
           Runs(x, c, t) \/ Stale(x, t), NEW r \in data_in(x, c.length, "data"), NEW payload
    PROVE  DataSent(x, r.x, r.res, r.data, c, t, payload)
<1>1. TagBelow(x.phase, t + 1)
  BY RunsTag
<1>2. CASE x.nak
  <2>1. r.x = x /\ r.res = "timeout"
    BY <1>2 DEF data_in, Out
  <2> QED BY <1>1, <2>1 DEF DataSent, Moved, Causes
<1>3. CASE ~x.nak /\ "in" \in x.halted
  <2>1. r.x = x /\ r.res = "stall"
    BY <1>3 DEF data_in, Out
  <2> QED BY <1>1, <1>3, <2>1 DEF DataSent, Moved, Causes
<1>4. CASE ~x.nak /\ "in" \notin x.halted /\ Stale(x, t)
  <2>1. r \in Csw(x) /\ CswOK(x.phase)
    BY <1>4 DEF data_in, Stale, StickOK, PhaseOK, CswOK
  <2>2. CswGiven(x, r)
    BY <2>1, CswKeeps
  <2>3. Moved(x, r.x)
    BY <2>2 DEF CswGiven, Moved
  <2>4. ~Runs(x, c, t)
    BY <1>4 DEF Runs, Stale, CmdOK
  <2>5. TagBelow(r.x.phase, t + 1) /\ OutBlocks(r.x.phase) = {}
    BY <1>1, <1>4, <2>2 DEF CswGiven, Stale, TagBelow, OutBlocks
  <2>6. /\ StickOK(r.x) /\ r.x.gone = x.gone
        /\ \/ r.res = "stall" /\ Stale(r.x, t)
           \/ r.res = "ok" /\ r.x.phase.at = "cbw"
    BY <1>4, <2>2 DEF CswGiven, Stale
  <2> QED BY <2>3, <2>4, <2>5, <2>6 DEF DataSent, Causes
<1>5. CASE ~x.nak /\ "in" \notin x.halted /\ Runs(x, c, t)
  <2> DEFINE p == x.phase
  <2>1. /\ p.at = "in" /\ p.csw.tag = t /\ p.left = c.length /\ (p.csw.status = "passed" => Tells(x, c, p.data))
        /\ CswOK(p.csw) /\ p.left \in Nat \ {0} /\ p.data \in Seq(Units) /\ Len(p.data) = p.left
    BY <1>5 DEF Runs, StickOK, PhaseOK, CswOK
  <2>2. r \in DataIn(x, c.length)
    BY <1>5, <2>1 DEF data_in
  <2>3. OutBlocks(p) = {}
    BY <2>1 DEF OutBlocks
  <2>4. CASE p.stall
    <3> DEFINE v == [p.csw EXCEPT !.residue = p.left]
    <3>1. r = Stalls(x, "in", v)
      BY <2>2, <2>4 DEF DataIn
    <3>2. CswOK(v) /\ PhaseOK(v) /\ v.tag = t
      BY ZenonT(30), <2>1, CswFollows
    <3>3. TagBelow(v, t + 1) /\ OutBlocks(v) = {}
      BY <3>2 DEF CswOK, TagBelow, TagOf, OutBlocks
    <3> HIDE DEF v
    <3>4. Moved(x, r.x)
      BY SMTT(60), <3>1, <3>2, StallsKeeps DEF Moved, Ends
    <3>5. /\ StickOK(r.x) /\ r.res = "stall" /\ r.x.phase = v /\ r.x.halted = x.halted \cup {"in"}
          /\ r.x.broken = x.broken /\ r.x.gone = x.gone
      BY SMTT(60), <3>1, <3>2, StallsKeeps DEF Ends
    <3> QED BY <1>5, <3>2, <3>3, <3>4, <3>5 DEF DataSent, Causes, CswOK
  <2>5. ASSUME ~p.stall, NEW y, NEW n \in 0..p.left,
               \/ y = x /\ n = p.left
               \/ y = Costs(x) /\ n < p.left,
               r = [x |-> [y EXCEPT !.phase = [p.csw EXCEPT !.residue = p.left - n]],
                    res |-> "ok", data |-> SubSeq(p.data, 1, n)]
        PROVE  DataSent(x, r.x, r.res, r.data, c, t, payload)
    <3> DEFINE v == [p.csw EXCEPT !.residue = p.left - n]
               u == [y EXCEPT !.phase = v]
    <3>1. r.x = u /\ r.res = "ok" /\ r.data = SubSeq(p.data, 1, n)
      BY <2>5
    <3>2. CswOK(v) /\ PhaseOK(v) /\ v.tag = t /\ v.status = p.csw.status
      BY ZenonT(30), <2>1, CswFollows
    <3>3. TagBelow(v, t + 1) /\ OutBlocks(v) = {}
      BY <3>2 DEF CswOK, TagBelow, TagOf, OutBlocks
    <3>4. Like(x, y) /\ y.gone = x.gone
      BY <2>5 DEF Costs, Like, StickOK, IsStick
    <3> HIDE DEF v
    <3>5. /\ IsStick(u) /\ u.kind = x.kind /\ u.disk = x.disk /\ u.failed = x.failed /\ u.broken = x.broken
          /\ u.gone = x.gone /\ u.synced = x.synced /\ u.uncleared = x.uncleared /\ u.halted = x.halted
          /\ u.sense = x.sense /\ u.phase = v
      BY <3>4 DEF Like, StickOK, IsStick
    <3> HIDE DEF u
    <3>6. StickOK(u)
      BY <3>2, <3>5 DEF StickOK
    <3>7. Moved(x, u)
      BY <3>5 DEF Moved
    <3>8. Len(r.data) = n /\ (n = p.left => r.data = p.data)
      BY <2>1, <3>1
    <3>9. DataDone(u, c, t, n, r.data, payload)
      BY ZenonT(30), <2>1, <2>5, <3>2, <3>5, <3>8 DEF DataDone, CswOK, Tells, Capacity, CmdOK
    <3> QED BY <1>5, <2>3, <3>1, <3>2, <3>3, <3>5, <3>6, <3>7, <3>8, <3>9 DEF DataSent, Causes, CswOK
  <2>6. CASE ~p.stall
    <3>1. \/ r = [x |-> [x EXCEPT !.phase = [p.csw EXCEPT !.residue = p.left - p.left]],
                  res |-> "ok", data |-> SubSeq(p.data, 1, p.left)]
          \/ r = [x |-> [Costs(x) EXCEPT !.phase = [p.csw EXCEPT !.residue = p.left - (p.left - 1)]],
                  res |-> "ok", data |-> SubSeq(p.data, 1, p.left - 1)]
      BY <2>1, <2>2, <2>6 DEF DataIn
    <3>2. p.left \in 0..p.left /\ p.left - 1 \in 0..p.left /\ p.left - 1 < p.left
      BY <2>1
    <3> QED BY ZenonT(30), <2>5, <2>6, <3>1, <3>2
  <2> QED BY <2>4, <2>6
<1> QED BY <1>2, <1>3, <1>4, <1>5

(* What a stick does with the blocks of a write, wherever it is. *)
LEMMA DataOutOnStick ==
    ASSUME Sizes, NEW x, StickOK(x), NEW c, CmdOK(c), c.dir = "out", c.length > 0, InRange(x, c), NEW t \in Nat,
           Runs(x, c, t) \/ Stale(x, t), NEW payload, Len(payload) = c.length,
           \A i \in 1..c.length : payload[i] \in Data, NEW r \in data_out(x, "data", payload)
    PROVE  DataSent(x, r.x, r.res, r.data, c, t, payload)
<1>1. TagBelow(x.phase, t + 1)
  BY RunsTag
<1>2. CASE x.nak
  <2>1. r.x = x /\ r.res = "timeout"
    BY <1>2 DEF data_out, Out
  <2> QED BY <1>1, <2>1 DEF DataSent, Moved, Causes
<1>3. CASE ~x.nak /\ "out" \in x.halted
  <2>1. r.x = x /\ r.res = "stall"
    BY <1>3 DEF data_out, Out
  <2> QED BY <1>1, <1>3, <2>1 DEF DataSent, Moved, Causes
<1>4. CASE ~x.nak /\ "out" \notin x.halted /\ Stale(x, t)
  <2>1. r \in Misplaced(x) /\ x.phase.at = "csw"
    BY <1>4 DEF data_out, Stale
  <2>2. /\ StickOK(r.x) /\ Moved(x, r.x) /\ r.x.phase = x.phase /\ r.x.gone = x.gone /\ r.res = "stall"
    BY <2>1, MisplacedKeeps
  <2>3. ~Runs(x, c, t)
    BY <1>4 DEF Runs, Stale, CmdOK
  <2> QED BY <1>1, <1>4, <2>2, <2>3 DEF DataSent, Stale, Causes
<1>5. CASE ~x.nak /\ "out" \notin x.halted /\ Runs(x, c, t)
  <2> DEFINE p == x.phase
  <2>1. /\ p.at = "out" /\ p.csw.tag = t /\ p.left = c.length /\ p.lba = c.lba
        /\ p.writes = (p.csw.status = "passed") /\ p.stall \in BOOLEAN
    BY <1>5 DEF Runs, StickOK, PhaseOK, CswOK
  <2>2. r \in DataOut(x, payload)
    BY <1>5, <2>1 DEF data_out
  <2>3. Received(x, r, payload)
    BY <2>1, <2>2, DataOutKeeps DEF Values
  <2>4. /\ StickOK(r.x) /\ Moved(x, r.x) /\ r.x.phase.at = "csw" /\ r.x.phase.tag = t
        /\ r.x.phase.status = p.csw.status /\ r.x.gone = x.gone /\ r.x.broken = x.broken
    BY <2>1, <2>3 DEF Received, CswOK
  <2>5. TagBelow(r.x.phase, t + 1) /\ OutBlocks(r.x.phase) = {}
    BY <2>4 DEF TagBelow, TagOf, OutBlocks
  <2>6. CASE p.stall
    <3>1. r.res = "stall" /\ r.x.halted = x.halted \cup {"out"}
      BY <2>3, <2>6 DEF Received
    <3> QED BY <1>5, <2>4, <2>5, <3>1 DEF DataSent, Causes
  <2>7. CASE ~p.stall
    <3>1. r.res = "ok" /\ r.x.halted = x.halted
      BY <2>3, <2>7 DEF Received
    <3>2. c.length \in Nat /\ c.lba \in Nat /\ c.op = "write" /\ c.lba + c.length <= x.kind.last + 1
      BY DEF CmdOK, InRange
    <3>3. p.writes => \A i \in 1..c.length : r.x.disk[c.lba + i - 1] = payload[i]
      <4>1. \A i \in 1..c.length : c.lba + i - 1 <= x.kind.last
        <5>1. x.kind.last \in Nat
          BY DEF StickOK, Sizes
        <5> QED BY <3>2, <5>1
      <4> QED BY <2>1, <2>3, <2>7, <4>1 DEF Received
    <3>4. DataDone(r.x, c, t, c.length, r.data, payload)
      <4>1. p.csw.status = "passed" => p.writes
        BY ZenonT(30), <2>1
      <4> HIDE DEF p
      <4> QED BY <2>4, <3>2, <3>3, <4>1 DEF DataDone
    <3> QED BY <1>5, <2>4, <2>5, <3>1, <3>4 DEF DataSent, Causes
  <2> QED BY <2>1, <2>6, <2>7
<1> QED BY <1>2, <1>3, <1>4, <1>5

(* A data transfer that got lost, and what the bus shows of one. *)
LEMMA DataLost ==
    ASSUME NEW x, StickOK(x), NEW c, CmdOK(c), NEW t \in Nat, Runs(x, c, t) \/ Stale(x, t), NEW o, Lost(x, o),
           NEW payload
    PROVE  DataSent(x, o.x, o.res, o.data, c, t, payload)
<1>1. StickOK(o.x)
  BY LikeOK DEF Lost
<1>2. TagBelow(x.phase, t + 1)
  BY RunsTag
<1>3. Moved(x, o.x)
  BY DEF Moved, Lost, Like
<1> QED BY <1>1, <1>2, <1>3 DEF DataSent, Lost, Like, Causes

(* What the bus shows of a data transfer that the stick saw. *)
LEMMA DataShown ==
    ASSUME NEW x, NEW z, Like(x, z), z.gone = x.gone, NEW c, NEW t, NEW r, NEW o, Shown(r, o), NEW payload,
           DataSent(z, r.x, r.res, r.data, c, t, payload)
    PROVE  DataSent(x, o.x, o.res, o.data, c, t, payload)
<1>1. Runs(x, c, t) => Runs(z, c, t)
  BY DEF Like, Runs, Tells, Capacity
<1>2. DataSent(x, r.x, r.res, r.data, c, t, payload)
  BY ZenonT(30), <1>1 DEF DataSent, Like, Moved
<1>3. CASE o = r
  BY <1>2, <1>3
<1>4. CASE o.res = "error" /\ Like(r.x, o.x) /\ o.x.gone = r.x.gone
  <2>1. StickOK(o.x)
    <3>1. StickOK(r.x) /\ r.x.gone \in BOOLEAN
      BY ZenonT(30), <1>2 DEF DataSent, StickOK, IsStick
    <3> QED BY ZenonT(30), <1>4, <3>1, LikeOK
  <2>2. Moved(x, o.x)
    BY ZenonT(30), <1>2, <1>4 DEF DataSent, Like, Moved
  <2> QED BY ZenonT(30), <1>2, <1>4, <2>1, <2>2 DEF DataSent, Like, Causes
<1> QED BY <1>3, <1>4 DEF Shown

(* A data phase on the bus. *)
LEMMA DataInOutcome ==
    ASSUME Sizes, NEW x, StickOK(x), NEW c, CmdOK(c), c.dir = "in", c.length > 0, NEW t \in Nat,
           Runs(x, c, t) \/ Stale(x, t), NEW o \in BulkIn(x, c.length, "data"), NEW payload
    PROVE  DataSent(x, o.x, o.res, o.data, c, t, payload) /\ Absent(x, o)
<1> DEFINE z == [x EXCEPT !.nak = FALSE]
           D == data_in(x, c.length, "data")
           E == data_in(z, c.length, "data")
<1>1. StickOK(z) /\ Like(x, z) /\ z.gone = x.gone
  BY Unnaked
<1>2. \A r \in D : DataSent(x, r.x, r.res, r.data, c, t, payload)
  BY DataInOnStick
<1>3. \A r \in E : DataSent(z, r.x, r.res, r.data, c, t, payload)
  <2> HIDE DEF z
  <2>1. Runs(z, c, t) \/ Stale(z, t)
    BY ZenonT(30), <1>1 DEF Like, Runs, Stale, Tells, Capacity
  <2> QED BY <1>1, <2>1, DataInOnStick
<1>4. \A r \in D : IsStick(r.x)
  BY <1>2, Zenon DEF DataSent, StickOK
<1>5. IsStick(x)
  BY DEF StickOK
<1>6. o \in IF x.gone THEN {Out(x, "gone")}
            ELSE D \cup (IF x.nak THEN E ELSE {})
                 \cup (IF x.faults = 0 THEN {}
                       ELSE {Out(Costs([x EXCEPT !.gone = TRUE]), "gone"),
                             Out(Costs([x EXCEPT !.nak = TRUE]), "timeout"),
                             Out(Costs(x), "error")}
                            \cup {Out(Costs(r.x), "error") : r \in {r \in D : r.x.faults > 0}})
  BY DEF BulkIn, OnBus
<1> HIDE DEF D, E, z
<1>7. \/ Lost(x, o)
      \/ ~x.gone /\ \E r \in D : Shown(r, o)
      \/ ~x.gone /\ x.nak /\ \E r \in E : Shown(r, o)
  BY <1>4, <1>5, <1>6, OnBusCases, Zenon
<1>8. ASSUME Lost(x, o) PROVE DataSent(x, o.x, o.res, o.data, c, t, payload)
  BY <1>8, DataLost
<1>9. ASSUME NEW r \in D, Shown(r, o) PROVE DataSent(x, o.x, o.res, o.data, c, t, payload)
  <2>1. Like(x, x)
    BY DEF Like, StickOK, IsStick
  <2> QED BY ZenonT(30), <1>2, <1>9, <2>1, DataShown
<1>10. ASSUME NEW r \in E, Shown(r, o) PROVE DataSent(x, o.x, o.res, o.data, c, t, payload)
  BY ZenonT(30), <1>1, <1>3, <1>10, DataShown
<1>11. Absent(x, o)
  BY <1>7 DEF Absent, Lost, Like
<1> QED BY <1>7, <1>8, <1>9, <1>10, <1>11

(* The same of a data phase out. *)
LEMMA DataOutOutcome ==
    ASSUME Sizes, NEW x, StickOK(x), NEW c, CmdOK(c), c.dir = "out", c.length > 0, InRange(x, c), NEW t \in Nat,
           Runs(x, c, t) \/ Stale(x, t), NEW payload, Len(payload) = c.length,
           \A i \in 1..c.length : payload[i] \in Data, NEW o \in BulkOut(x, "data", payload)
    PROVE  DataSent(x, o.x, o.res, o.data, c, t, payload) /\ Absent(x, o)
<1> DEFINE z == [x EXCEPT !.nak = FALSE]
           D == data_out(x, "data", payload)
           E == data_out(z, "data", payload)
<1>1. StickOK(z) /\ Like(x, z) /\ z.gone = x.gone
  BY Unnaked
<1>2. \A r \in D : DataSent(x, r.x, r.res, r.data, c, t, payload)
  BY DataOutOnStick
<1>3. \A r \in E : DataSent(z, r.x, r.res, r.data, c, t, payload)
  <2> HIDE DEF z
  <2>1. (Runs(z, c, t) \/ Stale(z, t)) /\ InRange(z, c)
    BY <1>1 DEF Like, Runs, Stale, Tells, Capacity, InRange
  <2> QED BY <1>1, <2>1, DataOutOnStick
<1>4. \A r \in D : IsStick(r.x)
  BY <1>2, Zenon DEF DataSent, StickOK
<1>5. IsStick(x)
  BY ZenonT(30) DEF StickOK
<1>6. o \in IF x.gone THEN {Out(x, "gone")}
            ELSE D \cup (IF x.nak THEN E ELSE {})
                 \cup (IF x.faults = 0 THEN {}
                       ELSE {Out(Costs([x EXCEPT !.gone = TRUE]), "gone"),
                             Out(Costs([x EXCEPT !.nak = TRUE]), "timeout"),
                             Out(Costs(x), "error")}
                            \cup {Out(Costs(r.x), "error") : r \in {r \in D : r.x.faults > 0}})
  BY DEF BulkOut, OnBus
<1> HIDE DEF D, E, z
<1>7. \/ Lost(x, o)
      \/ ~x.gone /\ \E r \in D : Shown(r, o)
      \/ ~x.gone /\ x.nak /\ \E r \in E : Shown(r, o)
  BY <1>4, <1>5, <1>6, OnBusCases, Zenon
<1>8. ASSUME Lost(x, o) PROVE DataSent(x, o.x, o.res, o.data, c, t, payload)
  BY <1>8, DataLost
<1>9. ASSUME NEW r \in D, Shown(r, o) PROVE DataSent(x, o.x, o.res, o.data, c, t, payload)
  <2>1. Like(x, x)
    BY DEF Like, StickOK, IsStick
  <2> QED BY ZenonT(30), <1>2, <1>9, <2>1, DataShown
<1>10. ASSUME NEW r \in E, Shown(r, o) PROVE DataSent(x, o.x, o.res, o.data, c, t, payload)
  BY ZenonT(30), <1>1, <1>3, <1>10, DataShown
<1>11. Absent(x, o)
  BY <1>7 DEF Absent, Lost, Like
<1> QED BY <1>7, <1>8, <1>9, <1>10, <1>11

-----------------------------------------------------------------------------
(* The CSW of x was asked for: x is y. *)
CswRead(x, y, res, data) ==
    /\ StickOK(y) /\ y.kind = x.kind /\ y.disk = x.disk /\ y.failed = x.failed /\ y.synced = x.synced
    /\ y.uncleared = x.uncleared
    /\ \/ y.phase = x.phase
       \/ y.phase.at = "cbw"
       \/ x.phase.at = "in" /\ CswOK(y.phase) /\ y.phase.tag = x.phase.csw.tag
    /\ res \in Causes \cup {"ok", "gone"} /\ (x.gone \/ res = "gone" => y.gone)
    /\ res = "ok" => /\ x.phase.at = "csw" /\ y.phase.at = "cbw"
                     /\ \E v : /\ data = <<v>> /\ "valid" \in DOMAIN v /\ v.status = x.phase.status
                               /\ v.tag \in {x.phase.tag, x.phase.tag + 1}
    /\ res = "stall" /\ y.phase.at = "cbw" => x.phase.at = "cbw"
    /\ x.phase.at = "csw" /\ x.halted = {} =>
          /\ y.broken = x.broken
          /\ res = "ok" => y.halted = {}
          /\ res = "stall" => y.phase = x.phase /\ y.halted = {"in"}

(* What a stick does when its CSW is asked for, wherever it is. *)
LEMMA CswOnStick ==
    ASSUME Sizes, NEW x, StickOK(x), NEW r \in data_in(x, 1, "csw")
    PROVE  CswRead(x, r.x, r.res, r.data)
<1>1. CASE x.nak
  <2>1. r.x = x /\ r.res = "timeout"
    BY <1>1 DEF data_in, Out
  <2> QED BY <2>1 DEF CswRead, Causes
<1>2. CASE ~x.nak /\ "in" \in x.halted
  <2>1. r.x = x /\ r.res = "stall"
    BY <1>2 DEF data_in, Out
  <2> QED BY <1>2, <2>1 DEF CswRead, Causes
<1>3. CASE ~x.nak /\ "in" \notin x.halted /\ x.phase.at = "csw"
  <2>1. r \in Csw(x) /\ CswOK(x.phase)
    BY <1>3 DEF data_in, StickOK, PhaseOK, CswOK
  <2>2. CswGiven(x, r)
    BY <2>1, CswKeeps
  <2> QED BY <1>3, <2>2 DEF CswRead, CswGiven, Causes
<1>4. CASE ~x.nak /\ "in" \notin x.halted /\ x.phase.at = "in"
  <2> DEFINE p == x.phase
  <2>1. CswOK(p.csw) /\ p.left \in Nat \ {0} /\ p.stall \in BOOLEAN
    BY <1>4 DEF StickOK, PhaseOK, CswOK
  <2>2. r \in DataIn(x, 0)
    BY <1>4 DEF data_in
  <2>3. "in" \in Ends
    BY DEF Ends
  <2>4. CASE p.stall
    <3> DEFINE v == [p.csw EXCEPT !.residue = p.left]
    <3>1. r = Stalls(x, "in", v)
      BY <2>2, <2>4 DEF DataIn
    <3>2. CswOK(v) /\ PhaseOK(v) /\ v.tag = p.csw.tag
      BY <2>1, CswFollows
    <3> HIDE DEF v
    <3>3. /\ StickOK(r.x) /\ r.res = "stall" /\ r.x.phase = v
          /\ r.x.kind = x.kind /\ r.x.disk = x.disk /\ r.x.failed = x.failed
          /\ r.x.uncleared = x.uncleared /\ r.x.synced = x.synced /\ r.x.gone = x.gone
      BY <2>3, <3>1, <3>2, StallsKeeps
    <3> QED BY <1>4, <3>2, <3>3 DEF CswRead, Causes, CswOK
  <2>5. CASE ~p.stall
    <3> DEFINE y == [x EXCEPT !.broken = TRUE]
    <3>1. r = Stalls(y, "in", p)
      BY <2>1, <2>2, <2>5 DEF DataIn
    <3>2. /\ StickOK(y) /\ y.kind = x.kind /\ y.disk = x.disk /\ y.uncleared = x.uncleared /\ y.gone = x.gone
          /\ y.synced = x.synced /\ y.failed = x.failed /\ PhaseOK(p)
      BY BrokenOK DEF StickOK
    <3> HIDE DEF y
    <3>3. /\ StickOK(r.x) /\ r.res = "stall" /\ r.x.phase = p
          /\ r.x.kind = x.kind /\ r.x.disk = x.disk /\ r.x.failed = x.failed
          /\ r.x.uncleared = x.uncleared /\ r.x.synced = x.synced /\ r.x.gone = x.gone
      BY <2>3, <3>1, <3>2, StallsKeeps
    <3> QED BY <1>4, <3>3 DEF CswRead, Causes
  <2> QED BY <2>1, <2>4, <2>5
<1>5. CASE ~x.nak /\ "in" \notin x.halted /\ x.phase.at \notin {"in", "csw"}
  <2> DEFINE y == [x EXCEPT !.broken = TRUE]
  <2>1. r.x = y /\ r.res = "timeout"
    <3>1. data_in(x, 1, "csw") = {Out(y, "timeout")}
      <4>1. ~(x.phase.at = "in") /\ ~(x.phase.at = "csw")
        BY <1>5
      <4> HIDE DEF y
      <4> QED BY <1>5, <4>1 DEF data_in, y
    <3> HIDE DEF y
    <3> QED BY <3>1 DEF Out
  <2>2. /\ StickOK(y) /\ y.kind = x.kind /\ y.disk = x.disk /\ y.uncleared = x.uncleared /\ y.gone = x.gone
        /\ y.synced = x.synced /\ y.failed = x.failed /\ y.phase = x.phase
    BY BrokenOK
  <2> HIDE DEF y
  <2> QED BY <1>5, <2>1, <2>2 DEF CswRead, Causes
<1> QED BY <1>1, <1>2, <1>3, <1>4, <1>5

(* What the bus shows of a CSW that the stick gave. *)
LEMMA CswShown ==
    ASSUME NEW x, NEW z, Like(x, z), z.gone = x.gone, NEW r, NEW o, Shown(r, o),
           CswRead(z, r.x, r.res, r.data)
    PROVE  CswRead(x, o.x, o.res, o.data)
<1>1. CswRead(x, r.x, r.res, r.data)
  BY DEF CswRead, Like
<1>2. CASE o = r
  BY <1>1, <1>2
<1>3. CASE o.res = "error" /\ Like(r.x, o.x) /\ o.x.gone = r.x.gone
  <2>1. StickOK(o.x)
    <3>1. StickOK(r.x) /\ r.x.gone \in BOOLEAN
      BY ZenonT(30), <1>1 DEF CswRead, StickOK, IsStick
    <3> QED BY <1>3, <3>1, LikeOK
  <2> QED BY ZenonT(30), <1>1, <1>3, <2>1 DEF CswRead, Like, Causes
<1> QED BY <1>2, <1>3 DEF Shown

(* The CSW on the bus. *)
LEMMA CswOutcome ==
    ASSUME Sizes, NEW x, StickOK(x), NEW o \in BulkIn(x, 1, "csw")
    PROVE  CswRead(x, o.x, o.res, o.data) /\ Absent(x, o)
<1> DEFINE z == [x EXCEPT !.nak = FALSE]
           D == data_in(x, 1, "csw")
           E == data_in(z, 1, "csw")
<1>1. StickOK(z) /\ Like(x, z) /\ z.gone = x.gone
  BY Unnaked
<1>2. \A r \in D : CswRead(x, r.x, r.res, r.data)
  BY CswOnStick
<1>3. \A r \in E : CswRead(z, r.x, r.res, r.data)
  <2> HIDE DEF z
  <2> QED BY <1>1, CswOnStick
<1>4. \A r \in D : IsStick(r.x)
  BY <1>2, Zenon DEF CswRead, StickOK
<1>5. IsStick(x)
  BY DEF StickOK
<1>6. o \in IF x.gone THEN {Out(x, "gone")}
            ELSE D \cup (IF x.nak THEN E ELSE {})
                 \cup (IF x.faults = 0 THEN {}
                       ELSE {Out(Costs([x EXCEPT !.gone = TRUE]), "gone"),
                             Out(Costs([x EXCEPT !.nak = TRUE]), "timeout"),
                             Out(Costs(x), "error")}
                            \cup {Out(Costs(r.x), "error") : r \in {r \in D : r.x.faults > 0}})
  BY DEF BulkIn, OnBus
<1> HIDE DEF D, E, z
<1>7. \/ Lost(x, o)
      \/ ~x.gone /\ \E r \in D : Shown(r, o)
      \/ ~x.gone /\ x.nak /\ \E r \in E : Shown(r, o)
  BY <1>4, <1>5, <1>6, OnBusCases, Zenon
<1>8. ASSUME Lost(x, o) PROVE CswRead(x, o.x, o.res, o.data)
  <2>1. StickOK(o.x)
    BY <1>8, LikeOK DEF Lost
  <2> QED BY <1>8, <2>1 DEF CswRead, Lost, Like, Causes
<1>9. ASSUME NEW r \in D, Shown(r, o) PROVE CswRead(x, o.x, o.res, o.data)
  <2>1. Like(x, x)
    BY DEF Like, StickOK, IsStick
  <2> QED BY <1>2, <1>9, <2>1, CswShown
<1>10. ASSUME NEW r \in E, Shown(r, o) PROVE CswRead(x, o.x, o.res, o.data)
  BY <1>1, <1>3, <1>10, CswShown
<1>11. Absent(x, o)
  BY <1>7 DEF Absent, Lost, Like
<1> QED BY <1>7, <1>8, <1>9, <1>10, <1>11

-----------------------------------------------------------------------------
(* Control requests. *)

(* A request that gets through makes x to y. *)
Asked(x, y, o) ==
    \/ o.res = "ok" /\ o.x = y
    \/ o.res = "gone" /\ Like(x, o.x) /\ o.x.gone = TRUE
    \/ /\ o.res = "error" /\ o.x.failed = TRUE
       /\ \E z \in {x, y} : o.x = [Costs(z) EXCEPT !.failed = TRUE]

(* A control request gets through, or is lost on the way there or back. *)
LEMMA ControlCases ==
    ASSUME NEW x, IsStick(x), NEW y, IsStick(y),
           NEW o \in IF x.gone THEN {Out(x, "gone")}
                     ELSE {Out(y, "ok")}
                          \cup (IF x.faults = 0 THEN {}
                                ELSE {Out(Costs([x EXCEPT !.gone = TRUE]), "gone"),
                                      Out([Costs(x) EXCEPT !.failed = TRUE], "error"),
                                      Out([Costs(y) EXCEPT !.failed = TRUE], "error")})
    PROVE  Asked(x, y, o)
<1>1. CASE x.gone
  BY <1>1 DEF Out, Asked, Like, IsStick
<1>2. CASE ~x.gone /\ o = Out(y, "ok")
  BY <1>2 DEF Out, Asked
<1>3. CASE ~x.gone /\ o = Out(Costs([x EXCEPT !.gone = TRUE]), "gone")
  BY ZenonT(30), <1>3 DEF Out, Asked, Like, IsStick, Costs
<1>4. ASSUME NEW z \in {x, y}, o = Out([Costs(z) EXCEPT !.failed = TRUE], "error")
      PROVE  Asked(x, y, o)
  <2>1. o.x = [Costs(z) EXCEPT !.failed = TRUE] /\ o.res = "error"
    BY <1>4 DEF Out
  <2>2. [Costs(z) EXCEPT !.failed = TRUE].failed = TRUE
    <3>1. IsStick(z)
      OBVIOUS
    <3> QED BY <3>1 DEF Costs, IsStick
  <2> QED BY ZenonT(30), <2>1, <2>2 DEF Asked
<1> QED BY <1>1, <1>2, <1>3, <1>4

(* What a control request leaves alone. *)
Controlled(x, y) ==
    /\ StickOK(y) /\ y.kind = x.kind /\ y.disk = x.disk /\ y.synced = x.synced /\ y.broken = x.broken
    /\ x.failed => y.failed
    /\ x.gone => y.gone

(* A Bulk-Only Mass Storage Reset. *)
LEMMA ResetOutcome ==
    ASSUME NEW x, StickOK(x), NEW o \in Reset(x)
    PROVE  /\ Controlled(x, o.x) /\ o.res \in {"ok", "gone", "error"}
           /\ o.x.phase = [at |-> "cbw"] \/ o.x.phase = x.phase
           /\ o.res = "ok" => o.x.phase = [at |-> "cbw"]
           /\ o.res = "gone" => o.x.gone
           /\ o.res = "error" => o.x.failed
<1> DEFINE y == [x EXCEPT !.phase = [at |-> "cbw"], !.uncleared = {"in", "out"}]
<1>1. IsStick(x)
  BY DEF StickOK
<1>2. /\ IsStick(y) /\ y.kind = x.kind /\ y.disk = x.disk /\ y.synced = x.synced /\ y.broken = x.broken
      /\ y.failed = x.failed /\ y.gone = x.gone /\ y.phase = [at |-> "cbw"] /\ y.halted = x.halted
      /\ y.uncleared = {"in", "out"} /\ y.sense = x.sense
  BY DEF StickOK, IsStick
<1>3. Asked(x, y, o)
  <2>1. o \in IF x.gone THEN {Out(x, "gone")}
              ELSE {Out(y, "ok")}
                   \cup (IF x.faults = 0 THEN {}
                         ELSE {Out(Costs([x EXCEPT !.gone = TRUE]), "gone"),
                               Out([Costs(x) EXCEPT !.failed = TRUE], "error"),
                               Out([Costs(y) EXCEPT !.failed = TRUE], "error")})
    BY DEF Reset, Control
  <2> HIDE DEF y
  <2> QED BY <1>1, <1>2, <2>1, ControlCases
<1> HIDE DEF y
<1>4. StickOK(y)
  BY <1>2 DEF StickOK, PhaseOK, Ends
<1>5. CASE o.res = "ok" /\ o.x = y
  BY <1>2, <1>4, <1>5 DEF Controlled
<1>6. CASE o.res = "gone" /\ Like(x, o.x) /\ o.x.gone = TRUE
  <2>1. StickOK(o.x)
    BY ZenonT(30), <1>6, LikeOK
  <2> QED BY <1>6, <2>1 DEF Controlled, Like
<1>7. ASSUME o.res = "error", NEW z \in {x, y}, o.x = [Costs(z) EXCEPT !.failed = TRUE]
      PROVE  Controlled(x, o.x) /\ o.x.phase = z.phase /\ o.x.failed
  <2>1. StickOK(z) /\ z.kind = x.kind /\ z.disk = x.disk /\ z.synced = x.synced /\ z.broken = x.broken /\ z.gone = x.gone
    BY <1>2, <1>4
  <2>2. /\ StickOK(o.x) /\ o.x.kind = z.kind /\ o.x.disk = z.disk /\ o.x.synced = z.synced /\ o.x.broken = z.broken
        /\ o.x.gone = z.gone /\ o.x.phase = z.phase /\ o.x.failed = TRUE
    BY <1>7, <2>1 DEF StickOK, IsStick, Costs
  <2> QED BY <2>1, <2>2 DEF Controlled
<1> QED BY ZenonT(30), <1>2, <1>3, <1>5, <1>6, <1>7 DEF Asked

(* A halt is cleared. *)
LEMMA ClearOutcome ==
    ASSUME NEW x, StickOK(x), NEW ep \in Ends, NEW o \in ClearHalt(x, ep)
    PROVE  /\ Controlled(x, o.x) /\ o.res \in {"ok", "gone", "error"}
           /\ o.x.phase = x.phase
           /\ o.res = "ok" => o.x.halted = x.halted \ {ep} /\ o.x.uncleared = x.uncleared \ {ep}
           /\ o.res = "gone" => o.x.gone
           /\ o.res = "error" => o.x.failed
<1> DEFINE y == [x EXCEPT !.halted = @ \ {ep}, !.uncleared = @ \ {ep}]
<1>1. IsStick(x)
  BY DEF StickOK
<1>2. /\ IsStick(y) /\ y.kind = x.kind /\ y.disk = x.disk /\ y.synced = x.synced /\ y.broken = x.broken
      /\ y.failed = x.failed /\ y.gone = x.gone /\ y.phase = x.phase /\ y.halted = x.halted \ {ep}
      /\ y.uncleared = x.uncleared \ {ep} /\ y.sense = x.sense
  BY DEF StickOK, IsStick
<1>3. Asked(x, y, o)
  <2>1. o \in IF x.gone THEN {Out(x, "gone")}
              ELSE {Out(y, "ok")}
                   \cup (IF x.faults = 0 THEN {}
                         ELSE {Out(Costs([x EXCEPT !.gone = TRUE]), "gone"),
                               Out([Costs(x) EXCEPT !.failed = TRUE], "error"),
                               Out([Costs(y) EXCEPT !.failed = TRUE], "error")})
    BY DEF ClearHalt, Control
  <2> HIDE DEF y
  <2> QED BY <1>1, <1>2, <2>1, ControlCases
<1> HIDE DEF y
<1>4. StickOK(y)
  BY <1>2 DEF StickOK
<1>5. CASE o.res = "ok" /\ o.x = y
  BY <1>2, <1>4, <1>5 DEF Controlled
<1>6. CASE o.res = "gone" /\ Like(x, o.x) /\ o.x.gone = TRUE
  <2>1. StickOK(o.x)
    BY ZenonT(30), <1>6, LikeOK
  <2> QED BY <1>6, <2>1 DEF Controlled, Like
<1>7. ASSUME o.res = "error", NEW z \in {x, y}, o.x = [Costs(z) EXCEPT !.failed = TRUE]
      PROVE  Controlled(x, o.x) /\ o.x.phase = x.phase /\ o.x.failed
  <2>1. /\ StickOK(z) /\ z.kind = x.kind /\ z.disk = x.disk /\ z.synced = x.synced /\ z.broken = x.broken
        /\ z.gone = x.gone /\ z.phase = x.phase
    BY <1>2, <1>4
  <2>2. /\ StickOK(o.x) /\ o.x.kind = z.kind /\ o.x.disk = z.disk /\ o.x.synced = z.synced /\ o.x.broken = z.broken
        /\ o.x.gone = z.gone /\ o.x.phase = z.phase /\ o.x.failed = TRUE
    BY <1>7, <2>1 DEF StickOK, IsStick, Costs
  <2> QED BY <2>1, <2>2 DEF Controlled
<1> QED BY ZenonT(30), <1>3, <1>5, <1>6, <1>7 DEF Asked

-----------------------------------------------------------------------------
(* The driver. *)

(* A command of a read or a write: the blocks from the first that is not   *)
(* done, and no more than are left.                                        *)
Piece(c, q, done) ==
    /\ c.op = q.op /\ c.lba = q.lba + done /\ c.length \in Nat \ {0} /\ c.blocks = c.length
    /\ done + c.length <= q.n /\ c.need = "all"
    /\ c.dir = IF c.op = "read" THEN "in" ELSE "out"

(* The driver cuts a request into such commands (request of io.rs). *)
LEMMA ChunkIsPiece ==
    ASSUME Sizes, NEW q, q.op \in {"read", "write"}, q.lba \in Nat, q.n \in Nat, NEW done \in Nat, done < q.n,
           q.lba + q.n <= LAST10 + 1
    PROVE  Piece(Chunk(q, done), q, done)
<1> DEFINE m == IF q.n - done > PER THEN PER ELSE q.n - done
           l == q.lba + done
<1>1. m \in Nat \ {0} /\ done + m <= q.n
  BY DEF Sizes
<1>2. l \in Nat /\ l < LAST10 + 1 /\ LAST10 \in Nat
  BY DEF Sizes
<1>3. l % (LAST10 + 1) = l
  <2> HIDE DEF l
  <2> QED BY <1>2
<1>4. Chunk(q, done) = rw_10(q.op, l, m)
  BY DEF Chunk
<1> HIDE DEF m, l
<1>5. Chunk(q, done) = [op |-> q.op, lba |-> l, blocks |-> m, length |-> m,
                        dir |-> IF q.op = "read" THEN "in" ELSE "out", need |-> "all"]
  BY ZenonT(30), <1>3, <1>4 DEF rw_10, Cdb
<1> QED BY <1>1, <1>5 DEF Piece, l

(* The commands of the driver are those the stick knows, on blocks it has. *)
LEMMA SentOK ==
    ASSUME Sizes, SInv, k.pc \notin {"idle", "lun"}
    PROVE  /\ CmdOK(Sent(k)) /\ InRange(dev, Sent(k))
           /\ call.op \in {"read", "write"} => Piece(k.cmd, call, k.done)
<1>1. RequestOK(ms, k, call) /\ dev.kind \in Kinds /\ (ms.up => ms.count = dev.kind.last + 1 /\ dev.kind.last <= LAST10)
  BY DEF SInv, Agree, DriverOK, StickOK
<1>2. dev.kind.last \in Nat /\ LAST10 \in Nat
  BY <1>1 DEF Sizes
<1>3. call.op \in {"read", "write"} => Piece(k.cmd, call, k.done)
  <2> SUFFICES ASSUME call.op \in {"read", "write"} PROVE Piece(k.cmd, call, k.done)
    OBVIOUS
  <2>1. /\ call.n \in Nat /\ call.lba \in Nat /\ k.done \in Nat /\ k.done < call.n
        /\ call.lba + call.n <= dev.kind.last + 1 /\ dev.kind.last <= LAST10 /\ k.cmd = Chunk(call, k.done)
    BY <1>1 DEF RequestOK
  <2> QED BY <1>2, <2>1, ChunkIsPiece
<1>4. CASE k.sensing
  BY <1>3, <1>4 DEF Sent, request_sense, Cdb, CmdOK, InRange
<1>5. CASE ~k.sensing /\ k.cmd \in Setup \cup {synchronize_cache_10}
  BY <1>3, <1>5 DEF Sent, Setup, synchronize_cache_10, inquiry, test_unit_ready, read_capacity_10,
                    read_capacity_16, Cdb, CmdOK, InRange
<1>6. CASE ~k.sensing /\ call.op \in {"read", "write"}
  <2>1. call.n \in Nat /\ call.lba \in Nat /\ k.done \in Nat /\ call.lba + call.n <= dev.kind.last + 1
    BY <1>1, <1>6 DEF RequestOK
  <2>2. Piece(k.cmd, call, k.done)
    BY <1>3, <1>6
  <2>3. CmdOK(k.cmd)
    BY <1>6, <2>1, <2>2 DEF CmdOK, Piece
  <2>4. InRange(dev, k.cmd)
    BY <1>2, <2>1, <2>2 DEF InRange, Piece
  <2> QED BY <1>3, <1>6, <2>3, <2>4 DEF Sent
<1> QED BY <1>1, <1>4, <1>5, <1>6 DEF RequestOK

-----------------------------------------------------------------------------
(* What follows a transfer that makes the stick y. *)

(* The stick is sound, and no blocks changed but those that may. *)
Took(y) ==
    /\ StickOK(y) /\ y.kind = dev.kind /\ TagBelow(y.phase, ms.tag)
    /\ y.broken => y.failed
    /\ DiskOK(y, k, call, torn)
    /\ \A l \in 0..dev.kind.last : l \notin torn \cup Written(call) => y.disk[l] = dev.disk[l]
Settled(y) == y.failed \/ y.gone \/ Quiet(y)

(* The request goes on. *)
LEMMA RequestGoesOn ==
    ASSUME SInv, Busy(call), Took(dev'), ms'.id = ms.id, torn' = torn,
           [call' EXCEPT !.got = <<>>] = [call EXCEPT !.got = <<>>]
    PROVE  Disk!Works
<1>1. DOMAIN dev.disk = 0..dev.kind.last /\ DOMAIN dev'.disk = 0..dev.kind.last
  BY DEF SInv, Agree, StickOK, Took
<1>2. \A l \in DOMAIN dev.disk : \/ dev'.disk[l] = dev.disk[l]
                                 \/ l \in torn
                                 \/ call.op = "write" /\ l \in Disk!Blocks(call)
  BY <1>1 DEF Took, Written
<1> QED BY <1>1, <1>2 DEF Disk!Works, Busy

(* The request ends, without success or with nothing to move. *)
LEMMA RequestEnds ==
    ASSUME SInv, Busy(call), Took(dev'), ms'.id = ms.id, NEW r, r # "busy", r = "ok" => call.n = 0 /\ call.op # "write",
           call' = [call EXCEPT !.res = r],
           torn' = IF r # "ok" /\ call.op = "write" THEN torn \cup Disk!Blocks(call) ELSE torn
    PROVE  Disk!Ends
<1>1. DOMAIN dev.disk = 0..dev.kind.last /\ DOMAIN dev'.disk = 0..dev.kind.last
  BY DEF SInv, Agree, StickOK, Took
<1>2. \A l \in DOMAIN dev.disk : \/ dev'.disk[l] = dev.disk[l]
                                 \/ l \in torn
                                 \/ call.op = "write" /\ l \in Disk!Blocks(call)
  BY <1>1 DEF Took, Written
<1>3. DOMAIN call = {"op", "id", "lba", "n", "data", "got", "res"}
  BY DEF SInv, Agree, DriverOK
<1>4. /\ call'.res = r
      /\ [call' EXCEPT !.res = "busy", !.got = <<>>] = [call EXCEPT !.got = <<>>]
  BY ZenonT(30), <1>3 DEF Busy
<1>5. ~(call'.res = "ok" /\ call.n > 0)
  BY <1>4
<1> QED BY <1>1, <1>2, <1>4, <1>5 DEF Disk!Ends, Busy

(* The commands that move no blocks. *)
LEMMA OwnCommands == \A c \in Setup \cup {synchronize_cache_10} : c.op \notin {"read", "write"}
  BY DEF Setup, synchronize_cache_10, inquiry, test_unit_ready, read_capacity_10, read_capacity_16, Cdb

(* A busy driver, its request and its stick. *)
LEMMA BusyDriver ==
    ASSUME Sizes, SInv, k.pc # "idle"
    PROVE  /\ DOMAIN ms = {"id", "up", "count", "no_cache", "not_answering", "tag", "calls"}
           /\ DOMAIN k = {"pc", "cmd", "try", "polls", "done", "sensing", "cause", "moved", "buf"}
           /\ DOMAIN call = {"op", "id", "lba", "n", "data", "got", "res"}
           /\ ms.id \in Nat \ {0} /\ ms.tag \in Nat \ {0} /\ ms.calls \in Nat
           /\ ms.up => ms.count = dev.kind.last + 1 /\ dev.kind.last <= LAST10
           /\ ms.no_cache => ~dev.kind.cache
           /\ ~ms.not_answering
           /\ k.sensing \in BOOLEAN /\ k.cause \in Causes \cup {"ok"}
           /\ Busy(call) /\ RequestOK(ms, k, call)
           /\ call.op \in {"start", "flush", "read", "write"}
  BY ZenonT(30) DEF SInv, Agree, DriverOK, RequestOK

(* The driver is idle, on a stick that it left in order. *)
LEMMA IdleAgrees ==
    ASSUME Sizes, NEW y, Took(y), Settled(y), NEW d, NEW q, NEW lost,
           DriverOK(d, Idle, q, y.kind), d.tag = ms.tag, OutBlocks(y.phase) \subseteq lost, FlushOK(y, d, q)
    PROVE  Agree(y, d, Idle, q, lost)
<1>1. Idle.pc = "idle" /\ Idle.done = 0 /\ ~Busy(q)
  BY ZenonT(30) DEF Idle, DriverOK
<1>2. Placed(y, d, Idle, q)
  BY ZenonT(30), <1>1 DEF Took, Placed, AfterData
<1>3. DiskOK(y, Idle, q, lost)
  <2>1. Written(q) = {}
    BY <1>1 DEF Written
  <2> QED BY <1>1, <2>1 DEF DiskOK
<1>4. TurnOK(y, d, Idle)
  BY ZenonT(30), <1>1 DEF TurnOK, Took, Settled, InStep, Quiet, Recovering
<1> QED BY ZenonT(30), <1>2, <1>3, <1>4 DEF Agree, Took

(* The request ends: the driver is idle, and its stick in order. *)
LEMMA FinishKeeps ==
    ASSUME Sizes, SInv, k.pc # "idle", Took(dev'), Settled(dev'), NEW r, r # "busy",
           r = "ok" => call.op = "flush" /\ (dev'.synced \/ dev'.failed), Finish(r)
    PROVE  SInv' /\ Disk!Ends
<1>1. r = "ok" => call.n = 0 /\ call.op = "flush"
  BY BusyDriver DEF RequestOK
<1>2. torn' = IF r # "ok" /\ call.op = "write" THEN torn \cup Disk!Blocks(call) ELSE torn
  BY <1>1 DEF Finish, Disk!Blocks
<1>3. /\ k' = Idle /\ ms' = [ms EXCEPT !.not_answering = @ \/ (r = "timeout" /\ call.op # "start")]
      /\ call' = [call EXCEPT !.res = r]
  BY DEF Finish
<1>4. /\ DOMAIN ms' = DOMAIN ms /\ ms'.id = ms.id /\ ms'.tag = ms.tag /\ ms'.calls = ms.calls /\ ms'.up = ms.up
      /\ ms'.count = ms.count /\ ms'.no_cache = ms.no_cache
  BY <1>3
<1>5. /\ DOMAIN call' = DOMAIN call /\ call'.res = r /\ call'.op = call.op
  BY <1>3
<1>6. Disk!Ends
  BY <1>1, <1>2, <1>3, <1>4, RequestEnds, BusyDriver
<1>7. DriverOK(ms', Idle, call', dev'.kind)
  <2>1. Idle.pc = "idle" /\ Idle.sensing = FALSE /\ Idle.cause = "ok"
        /\ DOMAIN Idle = {"pc", "cmd", "try", "polls", "done", "sensing", "cause", "moved", "buf"}
    BY DEF Idle
  <2> QED BY ZenonT(30), <1>4, <1>5, <2>1, BusyDriver DEF DriverOK, Busy, Took, Places, Recovering
<1>8. OutBlocks(dev'.phase) \subseteq torn'
  BY <1>1, <1>2 DEF Took, DiskOK, Written
<1>9. FlushOK(dev', ms', call')
  BY <1>5 DEF FlushOK
<1>10. Agree(dev', ms', Idle, call', torn')
  BY <1>4, <1>7, <1>8, <1>9, IdleAgrees
<1> QED BY <1>3, <1>6, <1>10 DEF SInv

(* The next command, or the next try of the same one. *)
LEMMA SendsKeeps ==
    ASSUME Sizes, SInv, k.pc # "idle", Took(dev'), Settled(dev'), NEW w,
           DOMAIN w = {"pc", "cmd", "try", "polls", "done", "sensing", "cause", "moved", "buf"},
           w.sensing \in BOOLEAN, w.cause \in Causes \cup {"ok"}, w.done = k.done,
           RequestOK(ms, [w EXCEPT !.pc = "cbw"], call), Sends(w)
    PROVE  SInv' /\ Disk!Works
<1>1. k' = Exchange(w) /\ ms' = [ms EXCEPT !.tag = @ + 1] /\ call' = call /\ torn' = torn
  BY DEF Sends
<1>2. /\ DOMAIN ms' = DOMAIN ms /\ ms'.id = ms.id /\ ms'.tag = ms.tag + 1 /\ ms'.calls = ms.calls /\ ms'.up = ms.up
      /\ ms'.count = ms.count /\ ms'.no_cache = ms.no_cache /\ ms'.not_answering = ms.not_answering
  BY <1>1
<1>3. /\ DOMAIN k' = DOMAIN w /\ k'.pc = "cbw" /\ k'.cmd = w.cmd /\ k'.done = w.done /\ k'.sensing = w.sensing
      /\ k'.cause = w.cause /\ k'.moved = 0
  BY <1>1 DEF Exchange
<1>4. Disk!Works
  BY <1>1, <1>2, RequestGoesOn, BusyDriver
<1>5. RequestOK(ms', k', call)
  BY <1>2, <1>3 DEF RequestOK
<1>6. DriverOK(ms', k', call, dev'.kind)
  BY <1>2, <1>3, <1>5, BusyDriver DEF DriverOK, Took, Places, Recovering
<1>7. TagBelow(dev'.phase, ms.tag) /\ TagBelow(dev'.phase, ms.tag + 1)
  BY BusyDriver DEF Took, TagBelow, TagOf, StickOK, PhaseOK, CswOK
<1>8. Placed(dev', ms', k', call)
  BY <1>2, <1>3, <1>7, BusyDriver DEF Placed, AfterData
<1>9. DiskOK(dev', k', call, torn)
  BY <1>3 DEF Took, DiskOK
<1>10. TurnOK(dev', ms', k')
  BY <1>3 DEF TurnOK, Took, Settled, InStep, Quiet, Recovering
<1>11. FlushOK(dev', ms', call)
  BY BusyDriver DEF FlushOK, Busy
<1> QED BY <1>1, <1>4, <1>6, <1>8, <1>9, <1>10, <1>11 DEF SInv, Agree, Took

(* The driver goes on with the same command. *)
LEMMA GoOnKeeps ==
    ASSUME Sizes, SInv, k.pc \notin {"idle", "lun"}, Took(dev'), NEW w,
           DOMAIN w = {"pc", "cmd", "try", "polls", "done", "sensing", "cause", "moved", "buf"},
           w.pc \in Places \ {"idle", "lun"}, w.cmd = k.cmd, w.done = k.done, w.sensing = k.sensing,
           w.cause \in Causes \cup {"ok"}, w.pc \in Recovering => w.cause \in Causes,
           Placed(dev', ms, w, call), dev'.failed \/ dev'.gone \/ InStep(dev', ms, w), GoOn(w)
    PROVE  SInv' /\ Disk!Works
<1>1. k' = w /\ ms' = ms /\ call' = call /\ torn' = torn
  BY DEF GoOn
<1>2. Disk!Works
  BY <1>1, RequestGoesOn, BusyDriver
<1>3. RequestOK(ms, w, call)
  BY ZenonT(30), BusyDriver DEF RequestOK
<1>4. DriverOK(ms, w, call, dev'.kind)
  BY ZenonT(30), <1>3, BusyDriver DEF DriverOK, Took
<1>5. DiskOK(dev', w, call, torn)
  BY ZenonT(30) DEF Took, DiskOK
<1>6. TurnOK(dev', ms, w)
  BY ZenonT(30) DEF TurnOK, Took
<1>7. FlushOK(dev', ms, call)
  BY BusyDriver DEF FlushOK, Busy
<1> QED BY ZenonT(30), <1>1, <1>2, <1>4, <1>5, <1>6, <1>7 DEF SInv, Agree, Took

(* A try of a command failed with e. *)
LEMMA ExecuteFailsKeeps ==
    ASSUME Sizes, SInv, k.pc \notin {"idle", "lun"}, Took(dev'), Settled(dev'), NEW e, e \notin {"ok", "busy"},
           e = "illegal_request" => ~dev.kind.cache, ExecuteFails(e)
    PROVE  SInv' /\ (Disk!Works \/ Disk!Ends)
<1>1. CASE Finish(e)
  BY <1>1, FinishKeeps
<1>2. ASSUME NEW w, w \in {[k EXCEPT !.polls = @ + 1, !.sensing = FALSE], [k EXCEPT !.try = @ + 1, !.sensing = FALSE]},
             Sends(w)
      PROVE  SInv' /\ (Disk!Works \/ Disk!Ends)
  <2>1. /\ DOMAIN w = DOMAIN k /\ w.pc = k.pc /\ w.cmd = k.cmd /\ w.done = k.done /\ w.sensing = FALSE
        /\ w.cause = k.cause
    BY ZenonT(30), <1>2, BusyDriver
  <2>2. RequestOK(ms, [w EXCEPT !.pc = "cbw"], call)
    <3> DEFINE v == [w EXCEPT !.pc = "cbw"]
    <3>1. v.pc = "cbw" /\ v.cmd = k.cmd /\ v.done = k.done
      BY <2>1
    <3> HIDE DEF v
    <3>2. RequestOK(ms, v, call)
      BY <3>1, BusyDriver DEF RequestOK
    <3> QED BY <3>2 DEF v
  <2> QED BY ZenonT(30), <1>2, <2>1, <2>2, SendsKeeps, BusyDriver
<1>3. CASE /\ k.cmd.op = "synchronize_cache" /\ e = "illegal_request"
           /\ k' = Idle
           /\ ms' = [ms EXCEPT !.no_cache = TRUE]
           /\ call' = [call EXCEPT !.res = "ok"]
           /\ UNCHANGED torn
  <2>1. call.op = "flush" /\ call.n = 0
    <3>1. call.op \in {"read", "write"} => k.cmd.op = call.op
      BY SentOK DEF Piece
    <3> QED BY <1>3, <3>1, BusyDriver DEF RequestOK, Setup, inquiry, test_unit_ready, read_capacity_10, read_capacity_16, Cdb
  <2>2. /\ DOMAIN ms' = DOMAIN ms /\ ms'.id = ms.id /\ ms'.tag = ms.tag /\ ms'.calls = ms.calls /\ ms'.up = ms.up
        /\ ms'.count = ms.count /\ ms'.no_cache = TRUE /\ ms'.not_answering = ms.not_answering
    BY <1>3
  <2>3. DOMAIN call' = DOMAIN call /\ call'.res = "ok" /\ call'.op = call.op
    BY <1>3
  <2>4. Disk!Ends
    BY <1>3, <2>1, <2>2, RequestEnds, BusyDriver
  <2>5. dev'.kind = dev.kind /\ ~dev.kind.cache
    BY <1>3 DEF Took
  <2>6. DriverOK(ms', Idle, call', dev'.kind)
    <3>1. Idle.pc = "idle" /\ Idle.sensing = FALSE /\ Idle.cause = "ok"
          /\ DOMAIN Idle = {"pc", "cmd", "try", "polls", "done", "sensing", "cause", "moved", "buf"}
      BY DEF Idle
    <3> QED BY ZenonT(30), <2>2, <2>3, <2>5, <3>1, BusyDriver DEF DriverOK, Busy, Places, Recovering
  <2>7. OutBlocks(dev'.phase) \subseteq torn'
    BY <1>3, <2>1 DEF Took, DiskOK, Written
  <2>8. FlushOK(dev', ms', call')
    BY <2>2, <2>5 DEF FlushOK
  <2>9. Agree(dev', ms', Idle, call', torn')
    BY <2>2, <2>6, <2>7, <2>8, IdleAgrees
  <2> QED BY <1>3, <2>4, <2>9 DEF SInv
<1> QED BY ZenonT(30), <1>1, <1>2, <1>3 DEF ExecuteFails, Refused

(* A transfer failed with e. *)
LEMMA RecoverKeeps ==
    ASSUME Sizes, SInv, k.pc \notin {"idle", "lun"}, Took(dev'), NEW e \in Causes \cup {"gone"},
           e = "gone" => dev'.gone, Recover(e)
    PROVE  SInv' /\ (Disk!Works \/ Disk!Ends)
<1>1. CASE e = "gone"
  <2>1. ExecuteFails("gone")
    BY <1>1 DEF Recover, is_fatal
  <2> QED BY <1>1, <2>1, ExecuteFailsKeeps DEF Settled
<1>2. CASE e # "gone"
  <2> DEFINE w == [k EXCEPT !.pc = "reset", !.cause = e]
  <2>1. GoOn(w)
    BY <1>2 DEF Recover, is_fatal
  <2>2. /\ DOMAIN w = DOMAIN k /\ w.pc = "reset" /\ w.cmd = k.cmd /\ w.done = k.done /\ w.sensing = k.sensing
        /\ w.cause = e
    OBVIOUS
  <2> HIDE DEF w
  <2>3. Placed(dev', ms, w, call)
    BY ZenonT(30), <2>2 DEF Placed, Took, AfterData
  <2>4. InStep(dev', ms, w)
    BY <2>2 DEF InStep, Recovering
  <2> QED BY <1>2, <2>1, <2>2, <2>3, <2>4, GoOnKeeps, BusyDriver DEF Places
<1> QED BY <1>1, <1>2

(* A transfer that changed only blocks of data phases. *)
LEMMA TookMoved ==
    ASSUME Sizes, SInv, NEW y, StickOK(y), Moved(dev, y), TagBelow(y.phase, ms.tag), y.broken => y.failed,
           OutBlocks(y.phase) \subseteq
              OutBlocks(dev.phase) \cup (IF k.pc \notin {"idle", "lun"} /\ Sent(k).op = "write"
                                         THEN Sent(k).lba..(Sent(k).lba + Sent(k).length - 1) ELSE {})
    PROVE  Took(y)
<1> DEFINE old == OutBlocks(dev.phase)
           more == IF k.pc \notin {"idle", "lun"} /\ Sent(k).op = "write"
                   THEN Sent(k).lba..(Sent(k).lba + Sent(k).length - 1) ELSE {}
<1>1. /\ old \subseteq torn \cup Written(call)
      /\ \A i \in 1..k.done : call.lba + i - 1 \notin old
      /\ Busy(call) /\ call.op = "read" => call.got = [i \in 1..k.done |-> dev.disk[call.lba + i - 1]]
      /\ Busy(call) /\ call.op = "write" => \A i \in 1..k.done : dev.disk[call.lba + i - 1] = call.data[i]
  BY ZenonT(30) DEF SInv, Agree, DiskOK
<1>2. dev.kind.last \in Nat /\ y.kind = dev.kind
  BY ZenonT(30) DEF SInv, Agree, StickOK, Sizes, Moved
<1>3. \/ k.done = 0
      \/ /\ k.pc \notin {"idle", "lun"} /\ Busy(call) /\ call.op \in {"read", "write"} /\ call.n \in Nat /\ call.lba \in Nat
         /\ k.done \in Nat /\ k.done < call.n /\ call.lba + call.n <= dev.kind.last + 1
  <2>1. CASE k.pc = "idle"
    <3>1. DriverOK(ms, k, call, dev.kind)
      BY DEF SInv, Agree
    <3> QED BY <2>1, <3>1 DEF DriverOK, Idle
  <2>2. CASE k.pc # "idle"
    <3>1. Busy(call) /\ RequestOK(ms, k, call) /\ (ms.up => ms.count = dev.kind.last + 1)
      BY ZenonT(30), <2>2, BusyDriver
    <3> QED BY ZenonT(30), <2>2, <3>1 DEF RequestOK
  <2> QED BY <2>1, <2>2
<1>4. more # {} => /\ call.op = "write" /\ Busy(call) /\ call.n \in Nat /\ call.lba \in Nat /\ k.done \in Nat
                   /\ Piece(k.cmd, call, k.done) /\ Sent(k) = k.cmd
  <2> SUFFICES ASSUME k.pc \notin {"idle", "lun"}, Sent(k).op = "write"
               PROVE  /\ call.op = "write" /\ Busy(call) /\ call.n \in Nat /\ call.lba \in Nat /\ k.done \in Nat
                      /\ Piece(k.cmd, call, k.done) /\ Sent(k) = k.cmd
    OBVIOUS
  <2>1. Busy(call) /\ RequestOK(ms, k, call) /\ Sent(k) = k.cmd
    BY ZenonT(30), BusyDriver DEF Sent, request_sense, Cdb
  <2>2. call.op \in {"read", "write"}
    BY ZenonT(30), <2>1, OwnCommands DEF RequestOK
  <2> QED BY ZenonT(30), <2>1, <2>2, SentOK DEF RequestOK, Piece
<1> HIDE DEF old
<1>5. more \subseteq Written(call)
  <2> SUFFICES ASSUME NEW l \in more PROVE l \in Written(call)
    OBVIOUS
  <2>1. /\ call.op = "write" /\ Busy(call) /\ call.n \in Nat /\ call.lba \in Nat /\ k.done \in Nat
        /\ Piece(k.cmd, call, k.done) /\ Sent(k) = k.cmd
    BY <1>4
  <2>2. l \in k.cmd.lba..(k.cmd.lba + k.cmd.length - 1)
    BY <2>1
  <2> HIDE DEF more
  <2> DEFINE j == l - call.lba + 1
  <2>3. j \in 1..call.n /\ l = call.lba + j - 1
    BY <2>1, <2>2 DEF Piece
  <2> QED BY ZenonT(30), <2>1, <2>3 DEF Written, Disk!Blocks
<1>6. \A i \in 1..k.done : call.lba + i - 1 \notin more
  <2> SUFFICES ASSUME NEW i \in 1..k.done, call.lba + i - 1 \in more PROVE FALSE
    OBVIOUS
  <2>1. /\ call.n \in Nat /\ call.lba \in Nat /\ k.done \in Nat
        /\ Piece(k.cmd, call, k.done) /\ Sent(k) = k.cmd
    BY ZenonT(30), <1>4
  <2> QED BY SMTT(60), <2>1 DEF Piece
<1>7. \A i \in 1..k.done : y.disk[call.lba + i - 1] = dev.disk[call.lba + i - 1]
  <2> SUFFICES ASSUME NEW i \in 1..k.done PROVE y.disk[call.lba + i - 1] = dev.disk[call.lba + i - 1]
    OBVIOUS
  <2>1. call.lba + i - 1 \in 0..dev.kind.last
    BY <1>2, <1>3
  <2> QED BY <1>1, <2>1 DEF Moved, old
<1> HIDE DEF more
<1>8. OutBlocks(y.phase) \subseteq old \cup more
  BY DEF old, more
<1>9. DiskOK(y, k, call, torn)
  <2>1. Busy(call) /\ call.op = "read" => call.got = [i \in 1..k.done |-> y.disk[call.lba + i - 1]]
    BY ZenonT(30), <1>1, <1>7
  <2>2. Busy(call) /\ call.op = "write" => \A i \in 1..k.done : y.disk[call.lba + i - 1] = call.data[i]
    BY <1>1, <1>7
  <2>3. OutBlocks(y.phase) \subseteq torn \cup Written(call)
    BY <1>1, <1>5, <1>8
  <2>4. \A i \in 1..k.done : call.lba + i - 1 \notin OutBlocks(y.phase)
    BY <1>1, <1>6, <1>8
  <2> QED BY <2>1, <2>2, <2>3, <2>4 DEF DiskOK
<1>10. \A l \in 0..dev.kind.last : l \notin torn \cup Written(call) => y.disk[l] = dev.disk[l]
  BY <1>1 DEF Moved, old
<1> QED BY ZenonT(30), <1>2, <1>9, <1>10 DEF Took

(* A stick is set up by one command after the other. *)
LEMMA StartGoesOn ==
    ASSUME Sizes, SInv, k.pc # "idle", call.op = "start", Took(dev'), Settled(dev'), NEW w,
           DOMAIN w = {"pc", "cmd", "try", "polls", "done", "sensing", "cause", "moved", "buf"},
           w.cmd \in Setup, w.sensing = FALSE, w.cause = k.cause, w.done = k.done, Sends(w)
    PROVE  SInv' /\ Disk!Works
<1> DEFINE v == [w EXCEPT !.pc = "cbw"]
<1>1. v.pc = "cbw" /\ v.cmd = w.cmd /\ v.done = k.done
  OBVIOUS
<1>2. RequestOK(ms, v, call)
  <2> HIDE DEF v
  <2> QED BY <1>1, BusyDriver DEF RequestOK
<1> QED BY ZenonT(30), <1>2, SendsKeeps, BusyDriver

(* What NewCommand leaves of the driver's place. *)
LEMMA NewCommandIs ==
    ASSUME Sizes, SInv, k.pc # "idle", NEW cdb
    PROVE  LET w == NewCommand(cdb)
           IN  /\ DOMAIN w = {"pc", "cmd", "try", "polls", "done", "sensing", "cause", "moved", "buf"}
               /\ w.cmd = cdb /\ w.sensing = FALSE /\ w.cause = k.cause /\ w.done = k.done /\ w.pc = "cbw"
  BY BusyDriver DEF NewCommand, Exchange

(* The capacity is known: the stick is a disk. *)
LEMMA CapaciousKeeps ==
    ASSUME Sizes, SInv, k.pc # "idle", call.op = "start", Took(dev'), Settled(dev'), NEW c,
           c.last \in Nat, c.last <= LAST10 => c.last = dev.kind.last, Capacious(c)
    PROVE  SInv' /\ Disk!Ends
<1>1. CASE Finish("unsupported")
  BY <1>1, FinishKeeps
<1>2. CASE /\ c.last <= LAST10
           /\ k' = Idle
           /\ ms' = [ms EXCEPT !.up = TRUE, !.count = c.last + 1]
           /\ call' = [call EXCEPT !.res = "ok"]
           /\ torn' = torn
  <2>1. call.n = 0
    BY BusyDriver DEF RequestOK
  <2>2. /\ DOMAIN ms' = DOMAIN ms /\ ms'.id = ms.id /\ ms'.tag = ms.tag /\ ms'.calls = ms.calls /\ ms'.up = TRUE
        /\ ms'.count = dev.kind.last + 1 /\ ms'.no_cache = ms.no_cache /\ ms'.not_answering = ms.not_answering
    BY <1>2
  <2>3. DOMAIN call' = DOMAIN call /\ call'.res = "ok" /\ call'.op = call.op
    BY <1>2
  <2>4. Disk!Ends
    BY <1>2, <2>1, <2>2, RequestEnds, BusyDriver
  <2>5. DriverOK(ms', Idle, call', dev'.kind)
    <3>1. Idle.pc = "idle" /\ Idle.sensing = FALSE /\ Idle.cause = "ok"
          /\ DOMAIN Idle = {"pc", "cmd", "try", "polls", "done", "sensing", "cause", "moved", "buf"}
      BY DEF Idle
    <3>2. dev'.kind = dev.kind /\ dev.kind.last <= LAST10
      BY <1>2 DEF Took
    <3> QED BY ZenonT(30), <2>2, <2>3, <3>1, <3>2, BusyDriver DEF DriverOK, Busy, Places, Recovering
  <2>6. OutBlocks(dev'.phase) \subseteq torn'
    BY <1>2 DEF Took, DiskOK, Written
  <2>7. FlushOK(dev', ms', call')
    BY <2>3 DEF FlushOK
  <2>8. Agree(dev', ms', Idle, call', torn')
    BY <2>2, <2>5, <2>6, <2>7, IdleAgrees
  <2> QED BY <1>2, <2>4, <2>8 DEF SInv
<1>3. ~(c.last > LAST10) => c.last <= LAST10
  BY DEF Sizes
<1> QED BY <1>1, <1>2, <1>3 DEF Capacious

(* Two stretches of a function, one after the other. *)
LEMMA Stretches ==
    ASSUME NEW V, NEW last \in Nat, NEW f \in [0..last -> V], NEW l \in Nat, NEW a \in Nat, NEW b \in Nat,
           l + a + b <= last + 1
    PROVE  [i \in 1..a |-> f[l + i - 1]] \o [i \in 1..b |-> f[l + a + i - 1]]
           = [i \in 1..(a + b) |-> f[l + i - 1]]
<1> DEFINE s == [i \in 1..a |-> f[l + i - 1]]
           u == [i \in 1..b |-> f[l + a + i - 1]]
           w == [i \in 1..(a + b) |-> f[l + i - 1]]
<1>1. s \in Seq(V) /\ Len(s) = a
  <2>1. \A i \in 1..a : f[l + i - 1] \in V
    OBVIOUS
  <2> QED BY <2>1
<1>2. u \in Seq(V) /\ Len(u) = b
  <2>1. \A i \in 1..b : f[l + a + i - 1] \in V
    OBVIOUS
  <2> QED BY <2>1
<1>3. w \in Seq(V) /\ Len(w) = a + b
  <2>1. \A i \in 1..(a + b) : f[l + i - 1] \in V
    OBVIOUS
  <2>2. a + b \in Nat
    OBVIOUS
  <2> QED BY <2>1, <2>2
<1>4. \A i \in 1..(a + b) : (s \o u)[i] = w[i]
  <2> SUFFICES ASSUME NEW i \in 1..(a + b) PROVE (s \o u)[i] = f[l + i - 1]
    OBVIOUS
  <2>1. CASE i <= a
    <3>1. s[i] = f[l + i - 1]
      BY <2>1
    <3> HIDE DEF s, u
    <3> QED BY <1>1, <1>2, <2>1, <3>1
  <2>2. CASE i > a
    <3>1. i - a \in 1..b /\ l + a + (i - a) - 1 = l + i - 1
      BY <2>2
    <3>2. u[i - a] = f[l + i - 1]
      BY <3>1
    <3> HIDE DEF s, u
    <3>3. (s \o u)[i] = u[i - a]
      BY SMTT(60), <1>1, <1>2, <2>2
    <3> QED BY <3>2, <3>3
  <2> QED BY <2>1, <2>2
<1>5. s \o u \in Seq(V) /\ Len(s \o u) = a + b
  <2> HIDE DEF s, u
  <2> QED BY SMTT(60), <1>1, <1>2
<1> HIDE DEF s, u, w
<1>6. s \o u = w
  BY SMTT(60), <1>3, <1>4, <1>5
<1> QED BY <1>6 DEF s, u, w

=============================================================================
