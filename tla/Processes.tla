----------------------------- MODULE Processes -----------------------------
(***************************************************************************)
(* The kernel's side of running processes (kernel/src/proc.rs) with        *)
(* process 1 (kernel/src/init.rs) and the error screen: system calls,      *)
(* ticks, the idle task, and what the console's input does to processes.   *)
(*                                                                         *)
(* The kernel is not preemptible: only the running process, or the idle    *)
(* task, takes a step, and a switch happens only at the end of one.  at[p] *)
(* is where process p goes on when it has the CPU:                         *)
(*   "check"  it ends if it was killed, or else its program runs           *)
(*   "user"   its program runs                                             *)
(*   "ret"    a system call returns (before_user)                          *)
(*   "wait", "waitC"  in wait's loop, without and with WAIT_CTRL_C         *)
(*   "read"   in the console read's loop                                   *)
(* and for process 1, which has no program:                                *)
(*   "start"  it starts a shell          "find"   it looks for its shell   *)
(*   "any"    it collects any child      "ended"  its shell has ended      *)
(*   "screen" it waits for a key at the error screen                       *)
(***************************************************************************)
EXTENDS ProcTable, TtyInput

CONSTANTS SLEEPMAX,     \* the longest sleep, in ticks
          KTMAX,        \* the most ticks counted while the kernel runs
          Calls,        \* the system calls that programs make
          Typing        \* whether keys are typed

ASSUME SleepAssumption == SLEEPMAX \in Nat
ASSUME KtAssumption == KTMAX \in Nat
ASSUME TypingAssumption == Typing \in BOOLEAN

VARIABLES t,            \* the process table (PROCS)
          at,           \* where each process goes on
          want,         \* the child it waits for; 0 for any
          kt,           \* KERNEL_TICKS
          fg,           \* the console's foreground group (tty's FOREGROUND)
          inp           \* the console's input (tty's INPUT)

vars == <<t, at, want, kt, fg, inp>>

Places == {"check", "user", "ret", "wait", "waitC", "read",
           "start", "find", "any", "ended", "screen"}

(* The machine has started: process 1 is ready, and the idle task runs. *)
Booted == [t    |-> Insert(NewTable, 0, [kind |-> "New", pgid |-> 0]),
           at   |-> [p \in Pid |-> IF p = INIT THEN "start" ELSE "check"],
           want |-> [p \in Pid |-> 0]]

Init == /\ t = Booted.t
        /\ at = Booted.at
        /\ want = Booted.want
        /\ kt = 0
        /\ fg = INIT
        /\ inp = NewInput

Reboot == /\ t' = Booted.t
          /\ at' = Booted.at
          /\ want' = Booted.want
          /\ kt' = 0
          /\ fg' = INIT
          /\ inp' = NewInput

-----------------------------------------------------------------------------
(* What the steps are made of. *)

(* The running process is p, and it is at one of the places S. *)
Runs(p, S) == t.current = p /\ at[p] \in S

GoTo(p, a) == at' = [at EXCEPT ![p] = a]

(* What a poll of the console may make of its input. *)
Poll == IF Typing THEN Polled(inp) ELSE {inp}

(***************************************************************************)
(* The steps below pass a table on from one operation to the next; \E s    *)
(* \in {x} names the table x once, so that TLC computes it once.           *)
(***************************************************************************)

(* The CPU goes to the next process; the ticks so far are settled. *)
Reschedule(x) ==
    /\ \E s \in {x} : \E woken \in {IF s.current # 0 THEN WakeSleepers(s) ELSE s} :
          t' = Schedule(woken)
    /\ kt' = 0

(* The running process p blocks, to go on at a. *)
BlockAt(p, why, arg, a) == Reschedule(BlockOn(t, why, arg)) /\ GoTo(p, a)

(* A slip: sleepers are left to the idle task. *)
SettleTicksOnly(s, n) ==
    IF UsedUp(s, n) THEN Reschedule(Tick(s, n)) ELSE t' = Tick(s, n) /\ kt' = 0

(***************************************************************************)
(* Due sleepers are woken, then n ticks charged to the running process,    *)
(* which gives up the CPU if its slice is used up.                         *)
(***************************************************************************)
Settle(s, n) ==
    \E woken \in {WakeSleepers(s)} :
        IF UsedUp(woken, n) THEN Reschedule(Tick(woken, n))
        ELSE t' = Tick(woken, n) /\ kt' = 0

(***************************************************************************)
(* What the console's input i asks of the processes of the table s: a      *)
(* Ctrl-C in line mode kills the foreground group, input wakes the         *)
(* readers, and a raw Ctrl-C the foreground group's WAIT_CTRL_C.           *)
(***************************************************************************)
CtrlCKills(s, i) == IF i.interrupted /\ HasGroup(s, fg)
                    THEN Kill(s, Target(s, "Group", fg)) ELSE s
InputWakes(s, i) == IF HasInput(i) THEN WakeAll(s, "Console", 0) ELSE s
CtrlCWakes(s, i) == IF HasRawCtrlC(i) THEN WakeWaiting(s, fg) ELSE s

ConsoleInput(s, i) ==
    {CtrlCWakes(read, i) : read \in {InputWakes(killed, i) : killed \in {CtrlCKills(s, i)}}}

(* The console is polled, its input is acted on, and n ticks settled. *)
PollAndSettle(x, n) ==
    \E i \in Poll, s \in {x} :
        /\ inp' = TakeCtrlC(i, HasGroup(s, fg))
        /\ \E heard \in ConsoleInput(s, i) : Settle(heard, n)

(* Process p ends, and the CPU goes to the next one for good. *)
EndProcess(p) == /\ Reschedule(End(t, p))
                 /\ GoTo(p, "check")
                 /\ UNCHANGED <<want, fg, inp>>

-----------------------------------------------------------------------------
(* Ticks of the timer.  Each brings the sleepers' due times nearer. *)

(* A tick interrupts the program of the running process p. *)
UserTick(p) == /\ Runs(p, {"user"})
               /\ PollAndSettle(Elapse(t), kt + 1)
               /\ GoTo(p, "check")
               /\ UNCHANGED <<want, fg>>

(* A tick interrupts the kernel: it is only counted. *)
KernelTick == /\ t.current # 0
              /\ at[t.current] # "user"
              /\ kt < KTMAX
              /\ kt' = kt + 1
              /\ t' = Elapse(t)
              /\ UNCHANGED <<at, want, fg, inp>>

(* A tick interrupts the idle task, whose ticks are dropped later. *)
IdleTick == /\ t.current = 0
            /\ kt' = IF kt < KTMAX THEN kt + 1 ELSE kt
            /\ t' = Elapse(t)
            /\ UNCHANGED <<at, want, fg, inp>>

(* One round of the idle task's loop. *)
IdleGoesOn(heard) ==
    \E woken \in {WakeSleepers(heard)} :
        IF OthersReady(woken) THEN Reschedule(woken) ELSE t' = woken /\ kt' = kt

Idle == /\ t.current = 0
        /\ \E i \in Poll : /\ inp' = TakeCtrlC(i, HasGroup(t, fg))
                          /\ \E heard \in ConsoleInput(t, i) : IdleGoesOn(heard)
        /\ UNCHANGED <<at, want, fg>>

(* A system call of p returns: ticks that passed meanwhile are settled. *)
BeforeUser(p) == /\ Runs(p, {"ret"})
                 /\ IF kt > 0 THEN PollAndSettle(t, kt)
                    ELSE Settle(t, 0) /\ inp' = inp
                 /\ GoTo(p, "check")
                 /\ UNCHANGED <<want, fg>>

(* p ends if it was killed; or else its program goes on, or first runs. *)
EndIfKilled(p) == /\ Runs(p, {"check"})
                  /\ IF t.killed[p] THEN EndProcess(p)
                     ELSE GoTo(p, "user") /\ UNCHANGED <<t, want, kt, fg, inp>>

-----------------------------------------------------------------------------
(* System calls of the program of the running process p. *)

Return(p) == GoTo(p, "ret")

(* A slip: the readers are not woken. *)
TakeConsoleQuietly(s, give, toLineMode) ==
    /\ t' = [s EXCEPT !.console = give.chain]
    /\ fg' = IF give.err = "ok" THEN Foreground(give.chain) ELSE fg
    /\ inp' \in IF toLineMode THEN SetLineMode(inp, TRUE) ELSE {inp}

(***************************************************************************)
(* The console goes to the group at the top of give's chain, if nothing    *)
(* is wrong; dead groups have left the chain even if something is.  The    *)
(* readers wake, to find whether they still have the console.              *)
(***************************************************************************)
TakeConsole(s, give, toLineMode) ==
    \E given \in {[s EXCEPT !.console = give.chain]} :
        IF give.err = "ok"
        THEN /\ t' = WakeAll(given, "Console", 0)
             /\ fg' = Foreground(give.chain)
             /\ inp' \in IF toLineMode THEN SetLineMode(inp, TRUE) ELSE {inp}
        ELSE t' = given /\ UNCHANGED <<fg, inp>>

(***************************************************************************)
(* spawn: a child in the group g, with the console if front says so.  The  *)
(* caller's group gave its claim to the console when it was checked, and   *)
(* nothing ran since.                                                      *)
(***************************************************************************)
MaySpawn(p, g, front) == /\ HasRoom(t)
                         /\ g.kind = "Join" => MayJoin(t, p, g.pgid)
                         /\ front => MayChangeConsole(t, p)

StartChild(p, g, front) ==
    /\ MaySpawn(p, g, front)
    /\ \E s \in {Insert(t, p, g)} :
       IF front THEN \E give \in {GiveConsole(s, p, t.next)} :
                        TakeConsole(s, give, TRUE)
       ELSE t' = s /\ UNCHANGED <<fg, inp>>

NewGroup == [kind |-> "New", pgid |-> 0]
SpawnGroups == [kind : {"Parent", "New"}, pgid : {0}] \cup [kind : {"Join"}, pgid : Pid]

Spawn(p, g, front) == /\ Runs(p, {"user"})
                      /\ front => g.kind = "New"
                      /\ StartChild(p, g, front)
                      /\ Return(p)
                      /\ UNCHANGED <<want, kt>>

(* exit, or an exception that kills p. *)
Exit(p) == Runs(p, {"user"}) /\ EndProcess(p)

(* kill of a process or of a group. *)
KillCall(p, kind, n) == /\ Runs(p, {"user"})
                        /\ t' = Kill(t, Target(t, kind, n))
                        /\ Return(p)
                        /\ UNCHANGED <<want, kt, fg, inp>>

(* wait without WAIT_NOHANG: its loop is Collect. *)
Wait(p, c, place) == /\ Runs(p, {"user"})
                     /\ GoTo(p, place)
                     /\ want' = [want EXCEPT ![p] = c]
                     /\ UNCHANGED <<t, kt, fg, inp>>

WaitNoHang(p, c) == /\ Runs(p, {"user"})
                    /\ t' = IF t.killed[p] \/ Ended(t, p, c) = {} THEN t
                            ELSE Reap(t, First(Ended(t, p, c)))
                    /\ Return(p)
                    /\ UNCHANGED <<want, kt, fg, inp>>

(* Whether the Ctrl-C that waits in the raw input i is p's to take. *)
HoldsCtrlC(p, i) == t.pgid[p] = fg /\ HasRawCtrlC(i)

(* One round of wait's loop. *)
Collect(p) ==
    /\ Runs(p, {"wait", "waitC"})
    /\ UNCHANGED fg
    /\ \/ /\ t.killed[p] \/ Mine(t, p, want[p]) = {}
          /\ Return(p)
          /\ want' = [want EXCEPT ![p] = 0]
          /\ UNCHANGED <<t, kt, inp>>
       \/ /\ ~t.killed[p]
          /\ Ended(t, p, want[p]) # {}
          /\ t' = Reap(t, First(Ended(t, p, want[p])))
          /\ Return(p)
          /\ want' = [want EXCEPT ![p] = 0]
          /\ UNCHANGED <<kt, inp>>
       \/ /\ ~t.killed[p]
          /\ Mine(t, p, want[p]) # {}
          /\ Ended(t, p, want[p]) = {}
          /\ IF at[p] = "wait"
             THEN BlockAt(p, "Wait", 0, "wait") /\ UNCHANGED <<want, inp>>
             ELSE \E i \in Poll :
                    IF HoldsCtrlC(p, i)
                    THEN /\ inp' \in TakeRawCtrlC(i)
                         /\ Return(p)
                         /\ want' = [want EXCEPT ![p] = 0]
                         /\ UNCHANGED <<t, kt>>
                    ELSE /\ inp' = i
                         /\ BlockAt(p, "WaitCtrlC", 0, "waitC")
                         /\ UNCHANGED want

(* wait(0, WAIT_NOHANG | WAIT_CTRL_C): only asks for a Ctrl-C. *)
AskCtrlC(p) == /\ Runs(p, {"user"})
               /\ \E i \in Poll :
                     inp' \in IF HoldsCtrlC(p, i) THEN TakeRawCtrlC(i) ELSE {i}
               /\ Return(p)
               /\ UNCHANGED <<t, want, kt, fg>>

(* A read of the console: its loop is ReadConsole. *)
Read(p) == /\ Runs(p, {"user"})
           /\ GoTo(p, "read")
           /\ UNCHANGED <<t, want, kt, fg, inp>>

(* One round of the loop; a group without the console reads nothing. *)
ReadConsole(p) ==
    /\ Runs(p, {"read"})
    /\ UNCHANGED <<want, fg>>
    /\ \/ /\ t.killed[p] \/ t.pgid[p] # fg
          /\ Return(p)
          /\ UNCHANGED <<t, kt, inp>>
       \/ /\ ~t.killed[p] /\ t.pgid[p] = fg
          /\ \E i \in Poll :
                IF HasInput(i)
                THEN inp' \in ReadInput(i) /\ Return(p) /\ UNCHANGED <<t, kt>>
                ELSE inp' = i /\ BlockAt(p, "Console", 0, "read")

(* A console read of no bytes polls the console and returns. *)
ReadNothing(p) == /\ Runs(p, {"user"})
                  /\ t.pgid[p] = fg
                  /\ inp' \in Poll
                  /\ Return(p)
                  /\ UNCHANGED <<t, want, kt, fg>>

ConsoleMode(p, line) == /\ Runs(p, {"user"})
                        /\ MayChangeConsole(t, p)
                        /\ inp' \in SetLineMode(inp, line)
                        /\ t' = WakeAll(t, "Console", 0)
                        /\ Return(p)
                        /\ UNCHANGED <<want, kt, fg>>

ConsoleForeground(p, g) ==
    /\ Runs(p, {"user"})
    /\ HasGroup(t, g)
    /\ \E give \in {GiveConsole(t, p, g)} : TakeConsole(t, give, FALSE)
    /\ Return(p)
    /\ UNCHANGED <<want, kt>>

(* The clock's next tick is not counted: a sleep never ends early. *)
Sleep(p, ticks) == /\ Runs(p, {"user"})
                   /\ BlockAt(p, "Sleep", ticks + 1, "ret")
                   /\ UNCHANGED <<want, fg, inp>>

(* A call refused, or one that leaves all of this alone. *)
OtherCall(p) == /\ Runs(p, {"user"})
                /\ Return(p)
                /\ UNCHANGED <<t, want, kt, fg, inp>>

(* reboot, or poweroff and the next start of the machine. *)
Power(p) == Runs(p, {"user"}) /\ Reboot

-----------------------------------------------------------------------------
(* Process 1. *)

(* It starts a shell, a group of its own with the console. *)
StartShell == /\ Runs(INIT, {"start"})
              /\ StartChild(INIT, NewGroup, TRUE)
              /\ GoTo(INIT, "find")
              /\ want' = [want EXCEPT ![INIT] = t.next]
              /\ UNCHANGED kt

(* It looks whether the shell has ended, which must be its child. *)
FindShell ==
    LET ended == Ended(t, INIT, want[INIT])
    IN  /\ Runs(INIT, {"find"})
        /\ Mine(t, INIT, want[INIT]) # {}
        /\ t' = IF ended = {} THEN t ELSE Reap(t, First(ended))
        /\ GoTo(INIT, IF ended = {} THEN "any" ELSE "ended")
        /\ UNCHANGED <<want, kt, fg, inp>>

(* A slip: it does not see that the child it collected was the shell. *)
CollectAnyBlindly ==
    LET ended == Ended(t, INIT, 0)
    IN  /\ Runs(INIT, {"any"})
        /\ Children(t, INIT) # {}
        /\ IF ended = {} THEN BlockAt(INIT, "Wait", 0, "any")
           ELSE t' = Reap(t, First(ended)) /\ UNCHANGED <<at, kt>>
        /\ UNCHANGED <<want, fg, inp>>

(* It collects any child until the shell ends. *)
CollectAny ==
    LET ended == Ended(t, INIT, 0)
    IN  /\ Runs(INIT, {"any"})
        /\ Children(t, INIT) # {}
        /\ IF ended = {} THEN BlockAt(INIT, "Wait", 0, "any")
           ELSE /\ t' = Reap(t, First(ended))
                /\ GoTo(INIT, IF First(ended) = want[INIT] THEN "ended" ELSE "any")
                /\ UNCHANGED kt
        /\ UNCHANGED <<want, fg, inp>>

(* The shell has not ended too often lately. *)
Again == /\ Runs(INIT, {"ended"})
         /\ GoTo(INIT, "start")
         /\ want' = [want EXCEPT ![INIT] = 0]
         /\ UNCHANGED <<t, kt, fg, inp>>

(***************************************************************************)
(* It cannot start a shell, or the shell has ended too often: the error    *)
(* screen ends every other process, takes the console back, and drops      *)
(* what was typed before.                                                  *)
(***************************************************************************)
ErrorScreen ==
    /\ Runs(INIT, {"start", "ended"})
    /\ \E killed \in {KillAllButInit(t)} :
       \E mine \in {[killed EXCEPT !.console = Reset(@)]} :
          /\ t' = WakeAll(mine, "Console", 0)
          /\ fg' = Foreground(mine.console)
    /\ inp' = NewInput
    /\ GoTo(INIT, "screen")
    /\ want' = [want EXCEPT ![INIT] = 0]
    /\ UNCHANGED kt

(* A key at the error screen restarts the machine. *)
AwaitKey == /\ Runs(INIT, {"screen"})
            /\ \E i \in Poll :
                  IF HasInput(i) THEN Reboot
                  ELSE /\ inp' = i
                       /\ BlockAt(INIT, "Console", 0, "screen")
                       /\ UNCHANGED <<want, fg>>

-----------------------------------------------------------------------------
Call(p) ==
    \/ /\ "spawn" \in Calls
       /\ \E g \in SpawnGroups, front \in BOOLEAN : Spawn(p, g, front)
    \/ Exit(p)
    \/ /\ "kill" \in Calls
       /\ \E kind \in {"Pid", "Group"}, n \in Pid : KillCall(p, kind, n)
    \/ /\ "wait" \in Calls
       /\ \E c \in 0..PIDMAX : Wait(p, c, "wait") \/ WaitNoHang(p, c)
    \/ /\ "wait_ctrl_c" \in Calls
       /\ AskCtrlC(p) \/ \E c \in 0..PIDMAX : Wait(p, c, "waitC")
    \/ /\ "read" \in Calls
       /\ Read(p) \/ ReadNothing(p)
    \/ /\ "console_mode" \in Calls
       /\ \E line \in BOOLEAN : ConsoleMode(p, line)
    \/ /\ "console_foreground" \in Calls
       /\ \E g \in Pid : ConsoleForeground(p, g)
    \/ /\ "sleep" \in Calls
       /\ \E ticks \in 1..SLEEPMAX : Sleep(p, ticks)
    \/ OtherCall(p)
    \/ Power(p)

(* The kernel's own steps for the process p. *)
Kernel(p) == BeforeUser(p) \/ EndIfKilled(p) \/ Collect(p) \/ ReadConsole(p)

InitProcess == StartShell \/ FindShell \/ CollectAny \/ Again \/ ErrorScreen \/ AwaitKey

System == (\E p \in Pid : Kernel(p)) \/ InitProcess \/ Idle

Timer == KernelTick \/ IdleTick \/ \E p \in Pid : UserTick(p)

Next == (\E p \in Pid : Call(p)) \/ System \/ Timer

Spec == Init /\ [][Next]_vars

(***************************************************************************)
(* The timer ticks for ever, and the CPU goes on with the kernel code of   *)
(* whoever runs, which has no unbounded loop and waits for nothing but in  *)
(* block.  Programs need make no call.                                     *)
(***************************************************************************)
Fairness == WF_vars(System) /\ WF_vars(Timer)

FairSpec == Spec /\ Fairness

-----------------------------------------------------------------------------
(* Invariants. *)

(* The variables have their types: the table, the places where processes   *)
(* go on, the ticks counted and the console's input.                       *)
TypeOK == /\ t \in Table
          /\ at \in [Pid -> Places]
          /\ want \in [Pid -> 0..PIDMAX]
          /\ kt \in 0..KTMAX
          /\ fg \in Pid
          /\ inp \in TtyInputs

(* The run queue of table.rs holds every ready process, and each once, so  *)
(* that none waits for ever or runs twice; the process that runs is the    *)
(* one the table says runs.                                                *)
QueueExact == /\ IsInjective(t.ready)
              /\ Range(t.ready) = {p \in Pid : t.st[p] = "Ready"}
              /\ \A p \in Pid : t.st[p] = "Running" <=> p = t.current

(* A process that was killed never sleeps on: mark wakes it, and every     *)
(* loop that blocks looks for the mark first.                              *)
KilledNeverBlocked == \A p \in Pid : t.killed[p] => t.st[p] \notin Blocked

(* A process that was killed runs no instruction of its program: not       *)
(* after the tick or the call that marked it, nor its first (proc.rs's     *)
(* end_if_killed).                                                         *)
NoProgramAfterKill == t.current # 0 /\ at[t.current] = "user" => ~t.killed[t.current]

(* A process that was killed does nothing but end, wherever the kill met   *)
(* it: it neither sleeps on nor runs its program.                          *)
KilledOnlyEnds == KilledNeverBlocked /\ NoProgramAfterKill

(* Every process has a parent that can still collect it (table.rs's end    *)
(* passes the children on): no zombie stays because nobody may reap it.    *)
ParentAlive == /\ INIT \in Alive(t)
               /\ \A p \in Entries(t) \ {INIT} : t.ppid[p] \in Alive(t)

(* The child that a blocked process waits for: process 1 waits for any.    *)
WaitsFor(p) == IF p = INIT THEN 0 ELSE want[p]

(* No exit is lost: every process has a parent that lives, and who blocks  *)
(* in wait has a child to wait for and none of them has ended, whatever    *)
(* happened between the check in collect and the block, and after.         *)
NoLostExit == /\ ParentAlive
              /\ \A p \in Pid : InWait(t, p) => /\ Mine(t, p, WaitsFor(p)) # {}
                                               /\ Ended(t, p, WaitsFor(p)) = {}

(* Who blocks in a console read has the console: whoever lost it was       *)
(* woken to find that out (take_console, console_foreground, spawn).       *)
ReaderHasConsole == \A p \in Pid : t.st[p] = "Console" => t.pgid[p] = fg

(* The two records of the foreground group agree while it has a process    *)
(* that can use the console: holders.rs's top and tty.rs's FOREGROUND.     *)
ForegroundAgrees == HasGroup(t, fg) => Foreground(t.console) = fg

(* The console is one group's: its readers, the chain of holders and the   *)
(* terminal agree on whose, through every hand-over and every end.         *)
ConsoleAgrees == ReaderHasConsole /\ ForegroundAgrees

(* The chain of holders starts with process 1's group, has no group twice, *)
(* and has room for every group that may be given the console: EAGAIN of   *)
(* Holders::give is never seen.                                            *)
HoldersHaveRoom ==
    /\ t.console # <<>> /\ Head(t.console) = INIT
    /\ IsInjective(t.console)
    /\ \A p \in Alive(t), g \in Groups(t) : GiveConsole(t, p, g).err # "EAGAIN"

(* While process 1 waits for its shell, the shell is its child and not     *)
(* collected: the expect in init.rs's run never fails.                     *)
ShellIsInits == at[INIT] \in {"find", "any"} => want[INIT] \in Children(t, INIT)

-----------------------------------------------------------------------------
(* Action properties.  A restart of the machine starts everything anew. *)

(* The run queue is first in, first out: a process that stays ready never  *)
(* has more processes before it than it had.                               *)
NoOvertaking ==
    [][\A p \in Range(t.ready) \cap Range(t'.ready) :
          Position(t'.ready, p) <= Position(t.ready, p) \/ t' = Booted.t]_vars

(* A Ctrl-C typed in line mode is not lost: it ends all of the foreground  *)
(* group, or waits as raw input for the group that sets raw mode, unless   *)
(* process 1's group, which it cannot kill, has the console, or the error  *)
(* screen comes.                                                           *)
CtrlCReaches ==
    [][inp.interrupted /\ ~inp'.interrupted =>
          \/ HasGroup(t, fg) /\ \A p \in Alive(t) : t.pgid[p] = fg => t'.killed[p]
          \/ HasRawCtrlC(inp')
          \/ fg = INIT
          \/ at'[INIT] \in {"screen", "start"}]_vars

-----------------------------------------------------------------------------
(* Liveness, under FairSpec. *)

Programs == Pid \ {INIT}

(* A ready process gets the CPU (or is taken out of the queue).            *)
ReadyRuns == \A p \in Pid : t.st[p] = "Ready" ~> t.st[p] # "Ready"

(* A killed process ends, wherever it was when it was marked.              *)
KilledEnds == \A p \in Programs : t.killed[p] ~> p \notin Alive(t)

(* What a blocked process waits for has come: a sleeper's time always      *)
(* does, a reader has input, and a raw Ctrl-C is there for the foreground  *)
(* group's WAIT_CTRL_C.                                                    *)
Due(p) == \/ t.st[p] = "Sleep"
          \/ t.st[p] = "Console" /\ HasInput(inp)
          \/ t.st[p] = "WaitCtrlC" /\ HasRawCtrlC(inp) /\ t.pgid[p] = fg

(* Whatever a blocked process waits for, when it comes the process wakes   *)
(* (or another takes it first), although another may keep the CPU for      *)
(* ever.                                                                   *)
WaitsEnd == \A p \in Programs : Due(p) ~> ~Due(p)

(* When the shell has ended, process 1 starts another or gives up.         *)
ShellReplaced ==
    want[INIT] \in Pid /\ t.st[want[INIT]] = "Zombie"
        ~> at[INIT] \in {"start", "screen"}
=============================================================================
