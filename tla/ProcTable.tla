------------------------------ MODULE ProcTable ------------------------------
(***************************************************************************)
(* The process table with its run queue, and the chain of groups that hold *)
(* the console (kernel/src/proc/table.rs, holders.rs).                     *)
(***************************************************************************)
EXTENDS Naturals, FiniteSets, Functions, Sequences
(***************************************************************************)
(* The elements of a finite set as a sequence in a given order: what the   *)
(* kernel's loops over its tables visit, one after the other.              *)
(***************************************************************************)


(* Every way to put the elements of S one after the other. *)
Enumerations(S) == Bijection(1..Cardinality(S), S)

(* s visits its elements by increasing rank. *)
Ranked(s, rank) == \A i, j \in DOMAIN s : i < j => rank[s[i]] < rank[s[j]]

(***************************************************************************)
(* The elements of S by increasing rank.  One such sequence exists when    *)
(* the ranks differ; the other branch keeps the choice an enumeration of S *)
(* without having to show that by induction on S.                          *)
(***************************************************************************)
InOrder(S, rank) ==
    LET sorted == {s \in Enumerations(S) : Ranked(s, rank)}
    IN  CHOOSE s \in (IF sorted = {} THEN Enumerations(S) ELSE sorted) : TRUE

(* The position of x in the sequence s. *)
Position(s, x) == CHOOSE i \in DOMAIN s : s[i] = x

-----------------------------------------------------------------------------
(***************************************************************************)
(* The chain of process groups that handed the console on                  *)
(* (kernel/src/proc/holders.rs): process 1's group at the bottom, the      *)
(* foreground group at the top.                                            *)
(***************************************************************************)


CONSTANT MAX            \* the most processes, and so groups, at once (64)

ASSUME MaxAssumption == MAX \in Nat \ {0}

INIT == 1               \* process 1, and its group

(* Process 1's group alone. *)
NewHolders == <<INIT>>

(* The group at the top. *)
Foreground(chain) == chain[Len(chain)]

(* Whether the group pgid may change the console. *)
Holds(chain, pgid) == pgid \in Range(chain)

(* The chain without the groups that no longer exist, but process 1's. *)
Kept(chain, exists) ==
    LET rest == Range(Tail(chain)) \cap exists
    IN  <<Head(chain)>> \o InOrder(rest, [g \in rest |-> Position(chain, g)])

(* The chain cut back to the group g, which holds the console. *)
CutTo(chain, g) == SubSeq(chain, 1, Position(chain, g))

(* A slip: a group that is in the chain is not cut back to. *)
GiveOnTop(chain, by, to, exists) ==
    LET kept == Kept(chain, exists)
        cut  == CutTo(kept, by)
    IN  IF ~Holds(kept, by) THEN [chain |-> kept, err |-> "EPERM"]
        ELSE IF Len(cut) < MAX THEN [chain |-> Append(cut, to), err |-> "ok"]
        ELSE [chain |-> cut, err |-> "EAGAIN"]

(***************************************************************************)
(* The group by gives the console to the group to: the chain afterwards,   *)
(* and the error if there is one.  The groups that are gone leave the      *)
(* chain whether or not the rest succeeds.                                 *)
(***************************************************************************)
Give(chain, by, to, exists) ==
    LET kept == Kept(chain, exists)
        cut  == CutTo(kept, by)
    IN  IF ~Holds(kept, by) THEN [chain |-> kept, err |-> "EPERM"]
        ELSE IF Holds(cut, to) THEN [chain |-> CutTo(cut, to), err |-> "ok"]
        ELSE IF Len(cut) < MAX THEN [chain |-> Append(cut, to), err |-> "ok"]
        ELSE [chain |-> cut, err |-> "EAGAIN"]

(* Process 1 takes the console back from everyone. *)
Reset(chain) == SubSeq(chain, 1, 1)

-----------------------------------------------------------------------------
(***************************************************************************)
(* The process table and the run queue (kernel/src/proc/table.rs): its     *)
(* state as a record t and each method as an operator that gives the table *)
(* afterwards.  Names, tick statistics and the payload of a process are    *)
(* left out.  A pid is never used again, so a table indexed by pid keeps   *)
(* the order of the kernel's vector, the order in which processes came.    *)
(***************************************************************************)


CONSTANTS PIDMAX,       \* the largest pid (2^32 - 1)
          SLICE         \* the ticks in a time slice (10)

ASSUME PidAssumption == PIDMAX \in Nat \ {0}
ASSUME SliceAssumption == SLICE \in Nat \ {0}

Pid == 1..PIDMAX

(* What a blocked process waits for. *)
Blocked == {"Wait", "WaitCtrlC", "Console", "Sleep", "Pipe"}

(* "Free" stands for a pid that has no entry. *)
States == {"Free", "Ready", "Running", "Zombie"} \cup Blocked

(***************************************************************************)
(* arg[p] is what a blocked process waits for: the ticks until a sleeper   *)
(* is due (the clock is kept at zero and the due times move towards it),   *)
(* or a pipe's id.                                                         *)
(***************************************************************************)
Table == [st      : [Pid -> States],
          arg     : [Pid -> Nat],
          ppid    : [Pid -> 0..PIDMAX],
          pgid    : [Pid -> 0..PIDMAX],
          killed  : [Pid -> BOOLEAN],
          next    : 0..PIDMAX,          \* 0 once every pid has been used
          ready   : Seq(Pid),
          current : 0..PIDMAX,          \* 0 while the idle task runs
          slice   : 1..SLICE,
          console : Seq(Pid)]

Entries(t) == {p \in Pid : t.st[p] # "Free"}
Alive(t) == {p \in Entries(t) : t.st[p] # "Zombie"}

NewTable == [st      |-> [p \in Pid |-> "Free"],
             arg     |-> [p \in Pid |-> 0],
             ppid    |-> [p \in Pid |-> 0],
             pgid    |-> [p \in Pid |-> 0],
             killed  |-> [p \in Pid |-> FALSE],
             next    |-> 1,
             ready   |-> <<>>,
             current |-> 0,
             slice   |-> SLICE,
             console |-> NewHolders]

(* Whether a process of the group still runs or waits. *)
HasGroup(t, g) == \E p \in Alive(t) : t.pgid[p] = g

(* Every group with an entry, zombies included. *)
Groups(t) == {t.pgid[p] : p \in Entries(t)}

MayChangeConsole(t, p) == p \in Entries(t) /\ Holds(t.console, t.pgid[p])

GiveConsole(t, p, to) == Give(t.console, t.pgid[p], to, Groups(t))

HasRoom(t) == Cardinality(Entries(t)) < MAX /\ t.next # 0

MayJoin(t, parent, g) ==
    \E p \in Entries(t) : t.ppid[p] = parent /\ t.pgid[p] = g

(***************************************************************************)
(* A new ready process, a child of parent, in the group g says: its        *)
(* parent's ("Parent"), a new one ("New"), or another child's, by number.  *)
(***************************************************************************)
GroupOf(t, parent, g) ==
    CASE g.kind = "Join"                     -> g.pgid
      [] g.kind = "Parent" /\ parent \in Pid -> t.pgid[parent]
      [] OTHER                               -> t.next

(* A slip: the new process runs before those that were ready. *)
InsertInFront(t, parent, g) ==
    LET pid == t.next
    IN  [t EXCEPT !.next = IF pid = PIDMAX THEN 0 ELSE pid + 1,
                  !.st[pid] = "Ready",
                  !.ppid[pid] = parent,
                  !.pgid[pid] = GroupOf(t, parent, g),
                  !.ready = <<pid>> \o @]

Insert(t, parent, g) ==
    LET pid == t.next
    IN  [t EXCEPT !.next = IF pid = PIDMAX THEN 0 ELSE pid + 1,
                  !.st[pid] = "Ready",
                  !.ppid[pid] = parent,
                  !.pgid[pid] = GroupOf(t, parent, g),
                  !.ready = Append(@, pid)]

(***************************************************************************)
(* Gives up the CPU for the running process, which stays ready unless it   *)
(* has blocked or ended, to the next ready one, or to the idle task.       *)
(***************************************************************************)
Schedule(t) ==
    LET me == t.current
        preempted == me # 0 /\ t.st[me] = "Running"
        queue == IF preempted THEN Append(t.ready, me) ELSE t.ready
        next == IF queue = <<>> THEN 0 ELSE Head(queue)
    IN  [t EXCEPT !.st = [p \in Pid |-> IF p = next THEN "Running"
                                        ELSE IF preempted /\ p = me THEN "Ready"
                                        ELSE @[p]],
                  !.ready = IF queue = <<>> THEN <<>> ELSE Tail(queue),
                  !.current = next,
                  !.slice = SLICE]

(* The running process blocks on why. *)
BlockOn(t, why, arg) ==
    [t EXCEPT !.st[t.current] = why, !.arg[t.current] = arg]

(* A slip in the wake-up: a process that is not blocked is queued again.   *)
WakeReadyToo(t, S) ==
    [t EXCEPT !.st = [p \in Pid |-> IF p \in S THEN "Ready" ELSE @[p]],
              !.ready = @ \o InOrder(S, [p \in S |-> p])]

(* Makes the processes of S that are blocked ready, in the order of pids. *)
Wake(t, S) ==
    LET woken == {p \in S : t.st[p] \in Blocked}
    IN  [t EXCEPT !.st = [p \in Pid |-> IF p \in woken THEN "Ready" ELSE @[p]],
                  !.arg = [p \in Pid |-> IF p \in woken THEN 0 ELSE @[p]],
                  !.ready = @ \o InOrder(woken, [p \in woken |-> p])]

WakeAll(t, why, arg) == Wake(t, {p \in Pid : t.st[p] = why /\ t.arg[p] = arg})

(* Those of the group that wait for a child or a Ctrl-C. *)
WakeWaiting(t, g) ==
    Wake(t, {p \in Pid : t.st[p] = "WaitCtrlC" /\ t.pgid[p] = g})

(* The sleepers that are due. *)
WakeSleepers(t) == Wake(t, {p \in Pid : t.st[p] = "Sleep" /\ t.arg[p] = 0})

(* A tick of the clock: every sleeper's due time is one tick nearer. *)
Elapse(t) ==
    [t EXCEPT !.arg = [p \in Pid |-> IF t.st[p] = "Sleep" /\ @[p] > 0
                                     THEN @[p] - 1 ELSE @[p]]]

OthersReady(t) == t.ready # <<>>

(* A slip: nobody has to give up the CPU. *)
NeverUsedUp(t, n) == FALSE

(***************************************************************************)
(* n ticks charged to the running process: its slice counts down and       *)
(* starts again at its end; UsedUp is whether it ended while another       *)
(* process was ready.                                                      *)
(***************************************************************************)
Tick(t, n) ==
    [t EXCEPT !.slice = IF n < @ THEN @ - n ELSE SLICE - ((n - @) % SLICE)]
UsedUp(t, n) == n >= t.slice /\ OthersReady(t)

InWait(t, p) == p \in Pid /\ t.st[p] \in {"Wait", "WaitCtrlC"}

Children(t, p) == {c \in Entries(t) : t.ppid[c] = p}

(* A slip: the parent is not told.                                         *)
EndForgetsParent(t, pid) ==
    [t EXCEPT !.st[pid] = "Zombie",
              !.arg[pid] = 0,
              !.ppid = [c \in Pid |-> IF c \in Children(t, pid) THEN INIT ELSE @[c]]]

(***************************************************************************)
(* pid has ended: it is a zombie, its children pass to process 1, and a    *)
(* parent blocked in wait is woken, process 1 too if it got a zombie.      *)
(***************************************************************************)
Dead(t, pid) ==
    [t EXCEPT !.st[pid] = "Zombie",
              !.arg[pid] = 0,
              !.ready = IF t.st[pid] = "Ready"
                        THEN SelectSeq(@, LAMBDA p : p # pid) ELSE @,
              !.ppid = [c \in Pid |-> IF c \in Children(t, pid) THEN INIT ELSE @[c]]]

End(t, pid) ==
    LET dead == Dead(t, pid)
        parent == {p \in {t.ppid[pid]} : InWait(dead, p)}
        orphaned == \E c \in Children(t, pid) : t.st[c] = "Zombie"
        adopter == {p \in {INIT} : orphaned /\ InWait(dead, p)}
    IN  Wake(Wake(dead, parent), adopter)

(* The children of parent that wait(want) is about; 0 stands for any. *)
Mine(t, parent, want) ==
    {c \in Children(t, parent) : want = 0 \/ want = c}

Ended(t, parent, want) == {c \in Mine(t, parent, want) : t.st[c] = "Zombie"}

(* The zombie that reap takes: the first of the table. *)
First(S) == CHOOSE p \in S : \A q \in S : p <= q

Reap(t, z) == [t EXCEPT !.st[z] = "Free", !.ppid[z] = 0, !.pgid[z] = 0,
                        !.killed[z] = FALSE]

(* A slip: who is blocked stays so. *)
MarkOnly(t, S) == [t EXCEPT !.killed = [p \in Pid |-> p \in S \cap Alive(t) \/ @[p]]]

(* Marks the processes of S that have not ended, and wakes the blocked. *)
Mark(t, S) ==
    LET hit == S \cap Alive(t)
    IN  Wake([t EXCEPT !.killed = [p \in Pid |-> p \in hit \/ @[p]]], hit)

(* The processes a kill of one pid, or of one group, is about. *)
Target(t, kind, n) ==
    {p \in Entries(t) : IF kind = "Pid" THEN p = n ELSE t.pgid[p] = n}

(* Nothing is marked if there are none, or process 1 is among them. *)
Kill(t, S) == IF S = {} \/ INIT \in S THEN t ELSE Mark(t, S)

KillAllButInit(t) == Mark(t, Entries(t) \ {INIT})
=============================================================================
