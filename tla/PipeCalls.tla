----------------------------- MODULE PipeCalls -----------------------------
(***************************************************************************)
(* Pipes between processes: the pipe call, reading and writing the ends    *)
(* with their waiting (kernel/src/syscall/pipes.rs), the fd tables that    *)
(* share the ends (kernel/src/fd.rs), and the closing of an end when its   *)
(* last fd goes (kernel/src/pipe.rs, Drop).  Of a ring only the number of  *)
(* its bytes counts here (module Pipe has the bytes).  The kernel is not   *)
(* preemptible, so a call runs until it waits or returns; it waits only    *)
(* while it has done nothing, so that a process that is woken makes its    *)
(* whole call again.  Who runs next is left open (module Processes).       *)
(***************************************************************************)
EXTENDS Naturals, FiniteSets, FiniteSetsExt

CONSTANTS Proc,         \* the processes
          PipeId,       \* the pipes: the addresses their memory may have
          FDS,          \* the fds of a process (32)
          RING_SIZE     \* the bytes a ring holds (16384)

CONSTANT None

Side == {"read", "write"}
End == PipeId \X Side

VARIABLE s              \* the pipes, fds and processes, as a record:
                        \*   len     the bytes each ring holds
                        \*   open    how many read and write ends it has open
                        \*   fds     what each process has open
                        \*   call    the read or write a process is in
                        \*   st      its state
                        \*   killed  whether it was killed

States == [len    : [PipeId -> 0..RING_SIZE],
           open   : [End -> 0..1],
           fds    : [Proc -> [1..FDS -> End \cup {None}]],
           call   : [Proc -> (End \X (1..RING_SIZE)) \cup {None}],
           st     : [Proc -> {"free", "ready", "waiting"}],
           killed : [Proc -> BOOLEAN]]

PipesInit == s = [len    |-> [i \in PipeId |-> 0],
             open   |-> [e \in End |-> 0],
             fds    |-> [p \in Proc |-> [f \in 1..FDS |-> None]],
             call   |-> [p \in Proc |-> None],
             st     |-> [p \in Proc |-> "free"],
             killed |-> [p \in Proc |-> FALSE]]

Fewer(a, b) == IF a < b THEN a ELSE b

(* The references to an end: fds, and the call that uses it. *)
HasEnd(x, p, e) == \/ \E f \in 1..FDS : x.fds[p][f] = e
                   \/ x.call[p] # None /\ x.call[p][1] = e
Held(x, e) == \E p \in Proc : HasEnd(x, p, e)

(* Wakes the processes that wait on pipe i. *)
WakePipe(x, i) ==
    [x EXCEPT !.st = [p \in Proc |->
        IF @[p] = "waiting" /\ x.call[p][1][1] = i THEN "ready" ELSE @[p]]]

(* A slip: closing an end tells nobody. *)
ReleaseQuietly(x, ends) ==
    [x EXCEPT !.open = [e \in End |-> IF e \in ends /\ ~Held(x, e) THEN 0 ELSE @[e]]]

(* A slip: a copy of an end that goes closes it. *)
ReleaseCopies(x, ends) ==
    LET wake == {p \in Proc : x.st[p] = "waiting" /\ \E e \in ends : e[1] = x.call[p][1][1]}
    IN [x EXCEPT !.open = [e \in End |-> IF e \in ends THEN 0 ELSE @[e]],
                 !.st   = [p \in Proc |-> IF p \in wake THEN "ready" ELSE @[p]]]

(***************************************************************************)
(* References to ends are dropped: an end without any left closes, and     *)
(* those that wait on its pipe are woken.                                  *)
(***************************************************************************)
Release(x, ends) ==
    LET gone == {e \in ends : ~Held(x, e)}
        wake == {p \in Proc : x.st[p] = "waiting" /\ \E e \in gone : e[1] = x.call[p][1][1]}
    IN [x EXCEPT !.open = [e \in End |-> IF e \in gone THEN @[e] - 1 ELSE @[e]],
                 !.st   = [p \in Proc |-> IF p \in wake THEN "ready" ELSE @[p]]]

EndsOf(x, p) == {e \in End : HasEnd(x, p, e)}

(* The call returns: its reference to the end goes. *)
Return(x, p) == Release([x EXCEPT !.call[p] = None], {x.call[p][1]})

(* pipe_wait: a process that was killed gets EINTR instead. *)
PipeWait(x, p) ==
    IF x.killed[p] THEN Return(x, p) ELSE [x EXCEPT !.st[p] = "waiting"]

(* The read that process p is in takes what the pipe holds, or waits. *)
ReadPipe(x, p) ==
    LET i == x.call[p][1][1]
        n == Fewer(x.call[p][2], x.len[i])
    IN  IF n > 0 THEN Return(WakePipe([x EXCEPT !.len[i] = @ - n], i), p)
        ELSE IF x.open[<<i, "write">>] = 0 THEN Return(x, p)
        ELSE PipeWait(x, p)

(* The write that process p is in puts what fits, or waits. *)
WritePipe(x, p) ==
    LET i == x.call[p][1][1]
        n == Fewer(x.call[p][2], RING_SIZE - x.len[i])
    IN  IF x.open[<<i, "read">>] = 0 THEN Return(x, p)
        ELSE IF n > 0 THEN Return(WakePipe([x EXCEPT !.len[i] = @ + n], i), p)
        ELSE PipeWait(x, p)

Transfer(x, p) == IF x.call[p][1][2] = "read" THEN ReadPipe(x, p) ELSE WritePipe(x, p)
-----------------------------------------------------------------------------
(* The program of p runs: it was not killed, and is in no call. *)
Runs(p) == s.st[p] = "ready" /\ s.call[p] = None /\ ~s.killed[p]

Free(p) == {f \in 1..FDS : s.fds[p][f] = None}

(***************************************************************************)
(* The pipe call: a pipe's memory that nobody uses, and two lowest fds.    *)
(***************************************************************************)
PipeCall(p) ==
    /\ Runs(p)
    /\ Cardinality(Free(p)) >= 2
    /\ \E i \in PipeId :
        /\ s.open[<<i, "read">>] = 0 /\ s.open[<<i, "write">>] = 0
        /\ LET r == Min(Free(p))
               w == Min(Free(p) \ {r})
           IN s' = [s EXCEPT !.len[i] = 0,
                             !.open[<<i, "read">>] = 1, !.open[<<i, "write">>] = 1,
                             !.fds[p][r] = <<i, "read">>, !.fds[p][w] = <<i, "write">>]

(* A read or write of n bytes. *)
Call(p, f, n) ==
    /\ Runs(p)
    /\ s.fds[p][f] # None
    /\ s' = Transfer([s EXCEPT !.call[p] = <<s.fds[p][f], n>>], p)

(* A process that was woken goes on in its call. *)
Resume(p) ==
    /\ s.st[p] = "ready" /\ s.call[p] # None
    /\ s' = Transfer(s, p)

(* close: the fd's reference goes. *)
Close(p, f) ==
    /\ Runs(p)
    /\ s.fds[p][f] # None
    /\ s' = Release([s EXCEPT !.fds[p][f] = None], {s.fds[p][f]})

(* spawn: the child gets the parent's files that it is given. *)
Spawn(p, q) ==
    /\ Runs(p)
    /\ s.st[q] = "free"
    /\ \E maps \in [1..FDS -> 0..FDS] :
        /\ \A f \in 1..FDS : maps[f] # 0 => s.fds[p][maps[f]] # None
        /\ s' = [s EXCEPT !.st[q] = "ready",
                          !.fds[q] = [f \in 1..FDS |-> IF maps[f] = 0 THEN None
                                                       ELSE s.fds[p][maps[f]]]]

(* Process 1 starts a process without pipes. *)
Start(q) == s.st[q] = "free" /\ s' = [s EXCEPT !.st[q] = "ready"]

(* kill, by a process or by Ctrl-C: a process that waits is woken. *)
Kill(p) ==
    /\ s.st[p] # "free" /\ ~s.killed[p]
    /\ s' = [s EXCEPT !.killed[p] = TRUE, !.st[p] = "ready"]

(* exit, or the end of a process that was killed: its fds go. *)
EndProcess(p) ==
    /\ s.st[p] = "ready" /\ s.call[p] = None
    /\ s' = Release([s EXCEPT !.st[p] = "free", !.killed[p] = FALSE,
                              !.fds[p] = [f \in 1..FDS |-> None]], EndsOf(s, p))

PipesNext ==
    \E p \in Proc :
        \/ PipeCall(p) \/ Resume(p) \/ Start(p) \/ Kill(p) \/ EndProcess(p)
        \/ \E f \in 1..FDS : Close(p, f) \/ \E n \in 1..RING_SIZE : Call(p, f, n)
        \/ \E q \in Proc : Spawn(p, q)

PipesSpec == PipesInit /\ [][PipesNext]_s
-----------------------------------------------------------------------------
(* The state is well-formed; a pipe has at most one end of a side open. *)
PipesTyped == s \in States

(***************************************************************************)
(* The counts of open ends (Ring's readers and writers) are right: an end  *)
(* is open exactly while an fd or a call of some process has it, so that   *)
(* readers see the end of the data and writers EPIPE when they should, and *)
(* a pipe's memory and id are used again only when nobody has it.          *)
(***************************************************************************)
EndsCounted == PipesTyped /\ \A e \in End : s.open[e] = IF Held(s, e) THEN 1 ELSE 0

(***************************************************************************)
(* No wake-up is lost: a process waits on a pipe only while there is       *)
(* really nothing for it to do, a reader of an empty ring that has a       *)
(* writer, a writer of a full one that has a reader, and neither killed.   *)
(***************************************************************************)
WaitsForAReason ==
    \A p \in Proc : s.st[p] = "waiting" =>
        LET i == s.call[p][1][1] IN
        /\ ~s.killed[p]
        /\ IF s.call[p][1][2] = "read"
           THEN s.len[i] = 0 /\ s.open[<<i, "write">>] = 1
           ELSE s.len[i] = RING_SIZE /\ s.open[<<i, "read">>] = 1

(* An end of a pipe is open exactly while somebody has it, and nobody      *)
(* waits on a pipe without a reason: no wake-up is lost (pipe.rs,          *)
(* syscall/pipes.rs).                                                      *)
PipesSound == EndsCounted /\ WaitsForAReason
=============================================================================
