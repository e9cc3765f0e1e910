----------------------------- MODULE StepProofs -----------------------------
(***************************************************************************)
(* Every step of Processes keeps its first inductive invariant: the types, *)
(* a sound table whose running process is the current one, and no killed   *)
(* process in its program.  Then what the parts of the steps do to the     *)
(* processes as a family.  Lemmas for ProcessesProofs.                     *)
(***************************************************************************)
EXTENDS Processes, ProcTableProofs

(* Only the current process can be in its program, and not if killed. *)
UserIsCurrent == \A p \in Pid : at[p] = "user" => p = t.current /\ ~t.killed[p]

IInv == TypeOK /\ Settled(t) /\ UserIsCurrent

-----------------------------------------------------------------------------
(* What the parts of the steps do to the table. *)

(* After reschedule, who has the CPU runs. *)
LEMMA RescheduleSettles ==
    ASSUME Counting, NEW x, Sound(x), Reschedule(x)
    PROVE  Settled(t') /\ kt' = 0 /\ Later(x, t')
<1> DEFINE woken == IF x.current # 0 THEN WakeSleepers(x) ELSE x
<1>1. Stirred(x, woken)
  BY WakeOpsStir, StirredReflexive DEF Sound
<1>2. Sound(woken)
  BY <1>1, StirredSound
<1>3. t' = Schedule(woken) /\ kt' = 0
  BY DEF Reschedule
<1> HIDE DEF woken
<1>4. Settled(Schedule(woken))
  BY <1>2, ScheduleKeeps DEF Settled, Sound, Ran, Blocked
<1>5. Later(woken, Schedule(woken))
  BY <1>2, SwitchedIsLater DEF Sound
<1>6. Later(x, t')
  BY <1>1, <1>3, <1>5, LaterAfterStirred DEF Sound
<1> QED BY <1>3, <1>4, <1>6

(* settle_ticks, with the switch it may ask for. *)
LEMMA SettleSettles ==
    ASSUME Counting, NEW s, Settled(s), NEW n \in Nat, Settle(s, n)
    PROVE  Settled(t') /\ kt' = 0 /\ Later(s, t')
<1> DEFINE woken == WakeSleepers(s)
           charged == Tick(woken, n)
<1>1. Settled(woken) /\ Stirred(s, woken) /\ TableOK(s)
  BY WakeOpsStir, StirredSound DEF Settled, Sound
<1>2. Settled(charged) /\ Stirred(s, charged)
  <2> HIDE DEF woken
  <2>1. Stirred(woken, charged)
    BY <1>1, TickStirs DEF Settled, Sound
  <2> HIDE DEF charged
  <2> QED BY <1>1, <2>1, StirredSound, StirredTransitive DEF Settled
<1>3. CASE UsedUp(woken, n)
  <2>1. Reschedule(charged)
    BY <1>3 DEF Settle
  <2> HIDE DEF charged
  <2> QED BY <1>1, <1>2, <2>1, RescheduleSettles, LaterAfterStirred DEF Settled
<1>4. CASE ~UsedUp(woken, n)
  <2>1. t' = charged /\ kt' = 0
    BY <1>4 DEF Settle
  <2> HIDE DEF charged
  <2> QED BY <1>1, <1>2, <2>1, StirredIsLater
<1> QED BY <1>3, <1>4

(* A process that blocks gives the CPU to another. *)
LEMMA BlockAtSettles ==
    ASSUME Counting, NEW p \in Pid, t.current = p, Settled(t), ~t.killed[p],
           NEW why \in Blocked, NEW n \in Nat, NEW a, BlockAt(p, why, n, a)
    PROVE  Settled(t') /\ kt' = 0 /\ GoTo(p, a) /\ Later(BlockOn(t, why, n), t')
<1> DEFINE w == BlockOn(t, why, n)
<1>1. Sound(w)
  <2>1. t.st \in [Pid -> States] /\ t.current # 0 /\ t.st[t.current] = "Running"
    BY InitIsPid DEF Settled, Sound, TableOK, Table
  <2>2. TableOK(w) /\ w.st = [t.st EXCEPT ![p] = why] /\ w.killed = t.killed
    BY ZenonT(30), <2>1, BlockOnKeeps DEF Settled, Sound
  <2> HIDE DEF w
  <2> QED BY <2>1, <2>2 DEF Settled, Sound
<1> QED BY <1>1, RescheduleSettles DEF BlockAt

(* So does a process that ends. *)
LEMMA EndProcessSettles ==
    ASSUME Counting, NEW p \in Pid, t.current = p, Settled(t), EndProcess(p)
    PROVE  /\ Settled(t') /\ kt' = 0 /\ GoTo(p, "check") /\ UNCHANGED <<want, fg, inp>>
           /\ Later(End(t, p), t')
<1> DEFINE dead == Dead(t, p)
<1>1. t.st[p] = "Running" /\ TableOK(t)
  BY InitIsPid DEF Settled, Sound
<1>2. Sound(dead)
  <2>1. t.st \in [Pid -> States]
    BY <1>1 DEF TableOK, Table
  <2>2. TableOK(dead) /\ dead.st = [t.st EXCEPT ![p] = "Zombie"] /\ dead.killed = t.killed
    BY ZenonT(30), <1>1, DeadKeeps
  <2> HIDE DEF dead
  <2> QED BY <2>1, <2>2 DEF Settled, Sound, Blocked
<1>3. Sound(End(t, p))
  BY <1>1, <1>2, EndStirs, StirredSound
<1> QED BY <1>3, RescheduleSettles DEF EndProcess

(* What the console's input asks of the processes; a Ctrl-C marks all of   *)
(* the foreground group.                                                   *)
LEMMA HeardSettled ==
    ASSUME Counting, NEW s, Settled(s), NEW i
    PROVE  LET w == CtrlCWakes(InputWakes(CtrlCKills(s, i), i), i)
           IN  /\ Settled(w) /\ Stirred(s, w)
               /\ i.interrupted /\ HasGroup(s, fg) /\ s.pgid[INIT] # fg =>
                     \A p \in Alive(s) : s.pgid[p] = fg => w.killed[p]
<1> DEFINE group == Target(s, "Group", fg)
           killed == CtrlCKills(s, i)
           read == InputWakes(killed, i)
           w == CtrlCWakes(read, i)
<1>0. TableOK(s)
  BY DEF Settled, Sound
<1>1. group \in SUBSET Pid
  BY DEF Target, Entries
<1>2. Stirred(s, killed)
  BY <1>0, <1>1, KillStirs, StirredReflexive DEF CtrlCKills
<1>3. i.interrupted /\ HasGroup(s, fg) /\ s.pgid[INIT] # fg =>
         \A p \in Alive(s) : s.pgid[p] = fg => killed.killed[p]
  <2> SUFFICES ASSUME i.interrupted, HasGroup(s, fg), s.pgid[INIT] # fg,
                      NEW p \in Alive(s), s.pgid[p] = fg
               PROVE  killed.killed[p]
    OBVIOUS
  <2>1. killed = Kill(s, group)
    BY DEF CtrlCKills
  <2>2. INIT \notin group /\ p \in group \cap Alive(s)
    BY DEF Target, Alive
  <2> HIDE DEF group, killed
  <2> QED BY <1>0, <1>1, <2>1, <2>2, KillStirs
<1> HIDE DEF killed
<1>4. TableOK(killed)
  BY <1>2 DEF Stirred
<1>5. Stirred(killed, read)
  BY <1>4, WakeOpsStir, StirredReflexive DEF InputWakes
<1> HIDE DEF read
<1>6. TableOK(read)
  BY <1>5 DEF Stirred
<1>7. Stirred(read, w)
  BY <1>6, WakeOpsStir, StirredReflexive DEF CtrlCWakes
<1> HIDE DEF w
<1>8. Stirred(killed, w) /\ Stirred(s, w)
  BY <1>0, <1>2, <1>4, <1>5, <1>7, StirredTransitive
<1>9. Settled(w)
  BY <1>8, StirredSound DEF Settled
<1>10. \A p \in Pid : killed.killed[p] => w.killed[p]
  BY <1>8 DEF Stirred
<1>11. \A p \in Alive(s) : p \in Pid
  BY DEF Alive, Entries
<1>12. i.interrupted /\ HasGroup(s, fg) /\ s.pgid[INIT] # fg =>
          \A p \in Alive(s) : s.pgid[p] = fg => w.killed[p]
  BY <1>3, <1>10, <1>11
<1> QED BY <1>8, <1>9, <1>12 DEF w, read, killed

(* A Ctrl-C that was taken from the input killed the foreground group of s. *)
Taken(s) ==
    inp.interrupted /\ ~inp'.interrupted =>
        /\ HasGroup(s, fg)
        /\ s.pgid[INIT] # fg => \A p \in Alive(s) : s.pgid[p] = fg => t'.killed[p]

(* What a poll may find, and what is left when the Ctrl-C was taken. *)
LEMMA PollKeeps ==
    ASSUME inp \in TtyInputs, NEW i \in Poll, NEW alive \in BOOLEAN
    PROVE  /\ i \in TtyInputs /\ TakeCtrlC(i, alive) \in TtyInputs
           /\ inp.interrupted => i.interrupted
           /\ i.interrupted /\ ~TakeCtrlC(i, alive).interrupted => alive
<1>1. i \in TtyInputs /\ (inp.interrupted => i.interrupted)
  BY DEF Poll, Polled
<1> QED BY ZenonT(30), <1>1 DEF TakeCtrlC, TtyInputs

(* A poll of the console and what it asks of the processes. *)
LEMMA PollAndSettleSettles ==
    ASSUME Counting, NEW x, Settled(x), NEW n \in Nat, inp \in TtyInputs,
           PollAndSettle(x, n)
    PROVE  Settled(t') /\ kt' = 0 /\ inp' \in TtyInputs /\ Later(x, t') /\ Taken(x)
<1>1. PICK i \in Poll : /\ inp' = TakeCtrlC(i, HasGroup(x, fg))
                       /\ \E heard \in ConsoleInput(x, i) : Settle(heard, n)
  BY DEF PollAndSettle
<1> DEFINE heard == CtrlCWakes(InputWakes(CtrlCKills(x, i), i), i)
<1>2. /\ inp' \in TtyInputs
      /\ inp.interrupted /\ ~inp'.interrupted => i.interrupted /\ HasGroup(x, fg)
  <2>1. HasGroup(x, fg) \in BOOLEAN
    BY DEF HasGroup
  <2> QED BY <1>1, <2>1, PollKeeps
<1>3. Settle(heard, n)
  BY <1>1 DEF ConsoleInput
<1>4. /\ Settled(heard) /\ Stirred(x, heard)
      /\ i.interrupted /\ HasGroup(x, fg) /\ x.pgid[INIT] # fg =>
            \A p \in Alive(x) : x.pgid[p] = fg => heard.killed[p]
  BY HeardSettled
<1> HIDE DEF heard
<1>5. Settled(t') /\ kt' = 0 /\ Later(heard, t')
  BY <1>3, <1>4, SettleSettles
<1>6. Later(x, t')
  BY <1>4, <1>5, LaterAfterStirred DEF Settled, Sound
<1>7. Taken(x)
  BY <1>2, <1>4, <1>5 DEF Taken, Later, Alive, Entries
<1> QED BY <1>2, <1>5, <1>6, <1>7

(* One round of the idle task. *)
LEMMA IdleSettles ==
    ASSUME Counting, Settled(t), inp \in TtyInputs, kt \in 0..KTMAX, Idle
    PROVE  /\ Settled(t') /\ kt' \in 0..KTMAX /\ inp' \in TtyInputs
           /\ Later(t, t') /\ Taken(t)
<1>1. PICK i \in Poll : /\ inp' = TakeCtrlC(i, HasGroup(t, fg))
                       /\ \E heard \in ConsoleInput(t, i) : IdleGoesOn(heard)
  BY DEF Idle
<1> DEFINE heard == CtrlCWakes(InputWakes(CtrlCKills(t, i), i), i)
           woken == WakeSleepers(heard)
<1>2. /\ inp' \in TtyInputs
      /\ inp.interrupted /\ ~inp'.interrupted => i.interrupted /\ HasGroup(t, fg)
  <2>1. HasGroup(t, fg) \in BOOLEAN
    BY DEF HasGroup
  <2> QED BY <1>1, <2>1, PollKeeps
<1>3. IdleGoesOn(heard)
  BY <1>1 DEF ConsoleInput
<1>4. /\ Settled(heard) /\ Stirred(t, heard)
      /\ i.interrupted /\ HasGroup(t, fg) /\ t.pgid[INIT] # fg =>
            \A p \in Alive(t) : t.pgid[p] = fg => heard.killed[p]
  BY HeardSettled
<1> HIDE DEF heard
<1>5. Settled(woken) /\ Stirred(heard, woken)
  BY <1>4, WakeOpsStir, StirredSound DEF Settled, Sound
<1>6. Settled(t') /\ kt' \in 0..KTMAX /\ Later(woken, t')
  <2>1. CASE OthersReady(woken)
    <3>1. Reschedule(woken)
      BY <1>3, <2>1 DEF IdleGoesOn
    <3> HIDE DEF woken
    <3> QED BY <1>5, <3>1, RescheduleSettles, KtAssumption DEF Settled
  <2>2. CASE ~OthersReady(woken)
    <3>1. t' = woken /\ kt' = kt
      BY <1>3, <2>2 DEF IdleGoesOn
    <3> HIDE DEF woken
    <3> QED BY <1>5, <3>1, StirredReflexive, StirredIsLater DEF Settled, Sound
  <2> QED BY <2>1, <2>2
<1> HIDE DEF woken
<1>7. Later(heard, t')
  BY <1>4, <1>5, <1>6, LaterAfterStirred DEF Settled, Sound
<1>8. Later(t, t')
  BY ZenonT(30), <1>4, <1>7, LaterAfterStirred DEF Settled, Sound
<1>9. Taken(t)
  BY <1>2, <1>4, <1>7 DEF Taken, Later, Alive, Entries
<1> QED BY <1>2, <1>6, <1>8, <1>9

(* A change of mode leaves an input of the console. *)
LEMMA SetLineModeType ==
    ASSUME NEW i \in TtyInputs, NEW line \in BOOLEAN
    PROVE  SetLineMode(i, line) \subseteq TtyInputs
  BY ZenonT(30) DEF SetLineMode

(* Handing the console on changes the chain and wakes its readers. *)
LEMMA TakeConsoleSettles ==
    ASSUME Counting, NEW s, Settled(s), fg \in Pid, inp \in TtyInputs,
           NEW by, NEW to \in Pid, NEW exists, NEW line \in BOOLEAN,
           TakeConsole(s, Give(s.console, by, to, exists), line)
    PROVE  Settled(t') /\ fg' \in Pid /\ inp' \in TtyInputs
<1> DEFINE give == Give(s.console, by, to, exists)
           given == [s EXCEPT !.console = give.chain]
<1>1. s.console \in Seq(Pid) /\ IsChain(s.console)
  BY DEF Settled, Sound, TableOK, Table, Held
<1>2. give.chain \in Seq(Pid) /\ IsChain(give.chain) /\ Foreground(give.chain) \in Pid
  BY <1>1, GiveKeeps
<1>3. TakeConsole(s, give, line)
  OBVIOUS
<1> HIDE DEF give
<1>4. Settled(given)
  BY <1>2, ChainSound DEF Settled
<1>5. CASE give.err = "ok"
  <2>1. /\ t' = WakeAll(given, "Console", 0)
        /\ fg' = Foreground(give.chain)
        /\ inp' \in IF line THEN SetLineMode(inp, TRUE) ELSE {inp}
    BY ZenonT(30), <1>3, <1>5 DEF TakeConsole
  <2>2. Settled(WakeAll(given, "Console", 0))
    <3> HIDE DEF given
    <3> QED BY <1>4, WakeOpsStir, StirredSound DEF Settled, Sound
  <2>3. inp' \in TtyInputs
    BY ZenonT(30), <2>1, SetLineModeType
  <2> QED BY <1>2, <2>1, <2>2, <2>3
<1>6. CASE give.err # "ok"
  BY <1>3, <1>4, <1>6 DEF TakeConsole
<1> QED BY <1>5, <1>6

(* A new process leaves the table settled. *)
LEMMA InsertSettled ==
    ASSUME NEW s, Settled(s), s.next # 0, NEW parent \in 0..PIDMAX, NEW g,
           GroupOf(s, parent, g) \in 0..PIDMAX
    PROVE  Settled(Insert(s, parent, g)) /\ s.next \in Pid
<1> DEFINE w == Insert(s, parent, g)
<1>1. /\ TableOK(w) /\ s.next \in Pid /\ s.st[s.next] = "Free"
      /\ w.st = [s.st EXCEPT ![s.next] = "Ready"]
      /\ w.killed = s.killed /\ w.current = s.current
  <2>1. TableOK(s)
    BY DEF Settled, Sound
  <2>2. Inserted(s, parent, g, w)
    BY <2>1, InsertKeeps
  <2> QED BY <2>2 DEF Inserted
<1>2. /\ s.st \in [Pid -> States] /\ s.current # 0 => s.current \in Pid
  BY DEF Settled, Sound, TableOK, Table, Pid
<1> HIDE DEF w
<1>3. Sound(w)
  BY <1>1, <1>2 DEF Settled, Sound, Blocked
<1>4. w.current # 0 => w.st[w.current] = "Running"
  BY <1>1, <1>2 DEF Settled
<1> QED BY <1>1, <1>3, <1>4 DEF Settled, w

(* spawn, with the console given to the child or not. *)
LEMMA StartChildSettles ==
    ASSUME Counting, Settled(t), fg \in Pid, inp \in TtyInputs, NEW p \in Pid,
           NEW g \in SpawnGroups, NEW front \in BOOLEAN, StartChild(p, g, front)
    PROVE  Settled(t') /\ t.next \in Pid /\ fg' \in Pid /\ inp' \in TtyInputs
<1> DEFINE s == Insert(t, p, g)
<1>1. t.next # 0 /\ t \in Table
  BY ZenonT(30) DEF StartChild, MaySpawn, HasRoom, Settled, Sound, TableOK
<1>2. p \in 0..PIDMAX /\ GroupOf(t, p, g) \in 0..PIDMAX
  <2>1. t.next \in 0..PIDMAX /\ t.pgid[p] \in 0..PIDMAX
    BY <1>1 DEF Table
  <2>2. g.kind = "Join" => g.pgid \in Pid
    BY DEF SpawnGroups
  <2>3. Pid \subseteq 0..PIDMAX
    BY DEF Pid
  <2> QED BY <2>1, <2>2, <2>3 DEF GroupOf
<1>3. Settled(s) /\ t.next \in Pid
  BY <1>1, <1>2, InsertSettled
<1>4. CASE front
  <2>1. TakeConsole(s, GiveConsole(s, p, t.next), TRUE)
    BY ZenonT(30), <1>4 DEF StartChild
  <2> HIDE DEF s
  <2>2. TakeConsole(s, Give(s.console, s.pgid[p], t.next, Groups(s)), TRUE)
    BY ZenonT(30), <2>1 DEF GiveConsole
  <2> QED BY ZenonT(30), <1>3, <2>2, TakeConsoleSettles
<1>5. CASE ~front
  BY <1>3, <1>5 DEF StartChild
<1> QED BY <1>4, <1>5

(* Collecting a zombie takes only its entry. *)
LEMMA ReapSettled ==
    ASSUME NEW s, Settled(s), NEW z \in Pid, s.st[z] = "Zombie"
    PROVE  Settled(Reap(s, z))
<1> DEFINE w == Reap(s, z)
<1>1. /\ TableOK(w) /\ w.st = [s.st EXCEPT ![z] = "Free"]
      /\ w.killed = [s.killed EXCEPT ![z] = FALSE] /\ w.current = s.current
  BY ZenonT(30), ReapKeeps DEF Settled, Sound
<1>2. /\ s.st \in [Pid -> States] /\ s.killed \in [Pid -> BOOLEAN]
      /\ s.current # 0 => s.current \in Pid
  BY DEF Settled, Sound, TableOK, Table, Pid
<1> HIDE DEF w
<1>3. Sound(w)
  BY <1>1, <1>2, InitIsPid DEF Settled, Sound, Blocked
<1> QED BY <1>1, <1>2, <1>3 DEF Settled, w

(* The zombie that is collected is one of those that ended. *)
LEMMA FirstIsEnded ==
    ASSUME NEW s, NEW parent, NEW c, Ended(s, parent, c) # {}
    PROVE  First(Ended(s, parent, c)) \in Ended(s, parent, c)
<1> DEFINE S == Ended(s, parent, c)
<1>1. S \in SUBSET Nat /\ S # {}
  BY DEF Ended, Mine, Children, Entries, Pid
<1>2. \E p \in S : \A q \in S : p <= q
  <2> HIDE DEF S
  <2> QED BY <1>1, SmallestExists
<1> QED BY <1>2 DEF First

(* wait collects the first child that has ended. *)
LEMMA ReapFirstSettled ==
    ASSUME NEW s, Settled(s), NEW parent, NEW c, Ended(s, parent, c) # {}
    PROVE  Settled(Reap(s, First(Ended(s, parent, c))))
<1>1. First(Ended(s, parent, c)) \in Ended(s, parent, c)
  BY FirstIsEnded
<1>2. /\ First(Ended(s, parent, c)) \in Pid
      /\ s.st[First(Ended(s, parent, c))] = "Zombie"
  BY <1>1 DEF Ended, Mine, Children, Entries
<1> QED BY <1>2, ReapSettled

(* The table the machine starts with. *)
LEMMA BootedSettled ==
    /\ Settled(Booted.t) /\ Booted.t.current = 0
    /\ Booted.at \in [Pid -> Places \ {"user"}]
    /\ Booted.want \in [Pid -> 0..PIDMAX]
<1> DEFINE new == NewTable
           g == [kind |-> "New", pgid |-> 0]
<1>1. /\ new \in Table
      /\ new.st = [p \in Pid |-> "Free"] /\ new.killed = [p \in Pid |-> FALSE]
      /\ new.ready = <<>> /\ new.current = 0 /\ new.next = 1 /\ new.console = <<1>>
  BY PidAssumption, SliceAssumption, InitIsPid DEF NewTable, Table, States, NewHolders, INIT
<1>2. Queued(new) /\ NextFree(new) /\ Held(new)
  BY <1>1 DEF Queued, NextFree, Held, IsChain, IsInjective, Range, INIT
<1>3. Settled(new)
  BY <1>1, <1>2, InitIsPid DEF Settled, Sound, TableOK
<1>4. GroupOf(new, 0, g) \in 0..PIDMAX
  BY <1>1, PidAssumption DEF GroupOf
<1> HIDE DEF new
<1>5. Settled(Insert(new, 0, g)) /\ Insert(new, 0, g).current = 0
  <2> HIDE DEF g
  <2>1. 0 \in 0..PIDMAX /\ new.next # 0 /\ TableOK(new)
    BY <1>1, <1>3, PidAssumption DEF Settled, Sound
  <2>2. Settled(Insert(new, 0, g))
    BY <1>3, <1>4, <2>1, InsertSettled
  <2>3. Insert(new, 0, g).current = new.current
    <3>1. Inserted(new, 0, g, Insert(new, 0, g))
      BY <1>4, <2>1, InsertKeeps
    <3> QED BY <3>1 DEF Inserted
  <2> QED BY <1>1, <2>2, <2>3
<1> QED BY <1>5, PidAssumption DEF Booted, new, Places

-----------------------------------------------------------------------------
(* The invariant is inductive: one lemma for each group of actions. *)

(* The parts of the inductive invariant after a step, put together. *)
LEMMA Assembled ==
    ASSUME Settled(t'), at' \in [Pid -> Places], want' \in [Pid -> 0..PIDMAX],
           kt' \in 0..KTMAX, fg' \in Pid, inp' \in TtyInputs, UserIsCurrent'
    PROVE  IInv'
  BY DEF IInv, TypeOK, Settled, Sound, TableOK

(* The running process leaves its program: then none is in its program. *)
LEMMA Moved ==
    ASSUME IInv, NEW p \in Pid, t.current = p, NEW a \in Places, a # "user", GoTo(p, a)
    PROVE  at' \in [Pid -> Places] /\ UserIsCurrent'
<1>1. at \in [Pid -> Places] /\ UserIsCurrent
  BY DEF IInv, TypeOK
<1>2. at' = [at EXCEPT ![p] = a]
  BY DEF GoTo
<1>3. \A q \in Pid : at'[q] # "user"
  BY <1>1, <1>2 DEF UserIsCurrent
<1> QED BY <1>1, <1>2, <1>3 DEF UserIsCurrent

(* The machine restarts. *)
LEMMA RebootKeeps == ASSUME Reboot PROVE IInv'
<1>1. /\ Settled(t') /\ at' \in [Pid -> Places \ {"user"}]
      /\ want' \in [Pid -> 0..PIDMAX]
  BY BootedSettled DEF Reboot
<1>2. kt' \in 0..KTMAX /\ fg' \in Pid /\ inp' \in TtyInputs
  BY KtAssumption, InitIsPid DEF Reboot, NewInput, TtyInputs
<1>3. at' \in [Pid -> Places] /\ UserIsCurrent'
  BY <1>1 DEF UserIsCurrent
<1> QED BY <1>1, <1>2, <1>3, Assembled

(* Ticks keep the inductive invariant. *)
LEMMA TimerKeeps == ASSUME Counting, IInv, Timer PROVE IInv'
<1> USE DEF IInv, TypeOK
<1>1. ASSUME NEW p \in Pid, UserTick(p) PROVE IInv'
  <2>1. t.current = p /\ GoTo(p, "check") /\ UNCHANGED <<want, fg>>
    BY <1>1 DEF UserTick, Runs
  <2>2. PollAndSettle(Elapse(t), kt + 1) /\ kt + 1 \in Nat
    BY <1>1, KtAssumption DEF UserTick
  <2>3. Settled(Elapse(t))
    BY ElapseStirs, StirredSound DEF Settled, Sound
  <2>4. Settled(t') /\ kt' = 0 /\ inp' \in TtyInputs
    BY <2>2, <2>3, PollAndSettleSettles
  <2>5. at' \in [Pid -> Places] /\ UserIsCurrent'
    BY <2>1, Moved DEF Places
  <2>6. kt' \in 0..KTMAX
    BY <2>4, KtAssumption
  <2> QED BY <2>1, <2>4, <2>5, <2>6, Assembled
<1>2. ASSUME KernelTick \/ IdleTick PROVE IInv'
  <2>1. t' = Elapse(t) /\ UNCHANGED <<at, want, fg, inp>>
    BY <1>2 DEF KernelTick, IdleTick
  <2>2. kt' \in 0..KTMAX
    BY <1>2, KtAssumption DEF KernelTick, IdleTick
  <2>3. Settled(t')
    BY <2>1, ElapseStirs, StirredSound DEF Settled, Sound
  <2>4. \A p \in Pid : at[p] # "user"
    BY <1>2, InitIsPid DEF KernelTick, IdleTick, UserIsCurrent
  <2>5. UserIsCurrent'
    BY <2>1, <2>4 DEF UserIsCurrent
  <2> QED BY <2>1, <2>2, <2>3, <2>5, Assembled
<1> QED BY <1>1, <1>2 DEF Timer

(* The idle task keeps it. *)
LEMMA IdleKeeps == ASSUME Counting, IInv, Idle PROVE IInv'
<1> USE DEF IInv, TypeOK
<1>1. Settled(t') /\ kt' \in 0..KTMAX /\ inp' \in TtyInputs
  BY IdleSettles
<1>2. UNCHANGED <<at, want, fg>> /\ t.current = 0
  BY DEF Idle
<1>3. UserIsCurrent'
  BY <1>2, InitIsPid DEF UserIsCurrent
<1> QED BY <1>1, <1>2, <1>3, Assembled

(* So does kernel code of a process, where a system call goes on or        *)
(* returns.                                                                *)
LEMMA KernelKeeps == ASSUME Counting, IInv, NEW p \in Pid, Kernel(p) PROVE IInv'
<1> USE DEF IInv, TypeOK
<1>1. ASSUME BeforeUser(p) PROVE IInv'
  <2>1. t.current = p /\ GoTo(p, "check") /\ UNCHANGED <<want, fg>>
    BY <1>1 DEF BeforeUser, Runs
  <2>2. Settled(t') /\ kt' = 0 /\ inp' \in TtyInputs
    <3>1. CASE kt > 0
      BY <1>1, <3>1, PollAndSettleSettles, KtAssumption DEF BeforeUser
    <3>2. CASE ~(kt > 0)
      BY <1>1, <3>2, SettleSettles DEF BeforeUser
    <3> QED BY <3>1, <3>2
  <2>3. at' \in [Pid -> Places] /\ UserIsCurrent'
    BY <2>1, Moved DEF Places
  <2> QED BY <2>1, <2>2, <2>3, KtAssumption, Assembled
<1>2. ASSUME EndIfKilled(p) PROVE IInv'
  <2>1. t.current = p /\ at[p] = "check"
    BY <1>2 DEF EndIfKilled, Runs
  <2>2. CASE t.killed[p]
    <3>1. Settled(t') /\ kt' = 0 /\ GoTo(p, "check") /\ UNCHANGED <<want, fg, inp>>
      BY <1>2, <2>1, <2>2, EndProcessSettles DEF EndIfKilled
    <3>2. at' \in [Pid -> Places] /\ UserIsCurrent'
      BY <2>1, <3>1, Moved DEF Places
    <3> QED BY <3>1, <3>2, KtAssumption, Assembled
  <2>3. CASE ~t.killed[p]
    <3>1. at' = [at EXCEPT ![p] = "user"] /\ UNCHANGED <<t, want, kt, fg, inp>>
      BY <1>2, <2>3 DEF EndIfKilled, GoTo
    <3>2. at' \in [Pid -> Places] /\ UserIsCurrent'
      BY <2>1, <2>3, <3>1 DEF UserIsCurrent, Places
    <3> QED BY <3>1, <3>2, Assembled
  <2> QED BY <2>2, <2>3
<1>3. ASSUME Collect(p) PROVE IInv'
  <2>1. t.current = p /\ UNCHANGED fg
    BY <1>3 DEF Collect, Runs
  <2>2. CASE /\ GoTo(p, "ret")
             /\ want' = [want EXCEPT ![p] = 0]
             /\ UNCHANGED kt
             /\ inp' \in TtyInputs
             /\ Settled(t')
    <3>1. at' \in [Pid -> Places] /\ UserIsCurrent'
      BY <2>1, <2>2, Moved DEF Places
    <3>2. want' \in [Pid -> 0..PIDMAX]
      BY <2>2, PidAssumption
    <3> QED BY <2>1, <2>2, <3>1, <3>2, Assembled
  <2>3. CASE UNCHANGED t /\ (t.killed[p] \/ Mine(t, p, want[p]) = {})
                         /\ Return(p)
                         /\ want' = [want EXCEPT ![p] = 0]
                         /\ UNCHANGED <<kt, inp>>
    BY <2>2, <2>3 DEF Return
  <2>4. CASE /\ Ended(t, p, want[p]) # {}
             /\ t' = Reap(t, First(Ended(t, p, want[p])))
             /\ Return(p)
             /\ want' = [want EXCEPT ![p] = 0]
             /\ UNCHANGED <<kt, inp>>
    BY <2>2, <2>4, ReapFirstSettled DEF Return
  <2>5. ASSUME ~t.killed[p], NEW why \in Blocked, NEW a \in {"wait", "waitC"},
               BlockAt(p, why, 0, a), UNCHANGED want, inp' \in TtyInputs
        PROVE  IInv'
    <3>1. Settled(t') /\ kt' = 0 /\ GoTo(p, a)
      BY <2>1, <2>5, BlockAtSettles
    <3>2. at' \in [Pid -> Places] /\ UserIsCurrent'
      BY <2>1, <3>1, Moved DEF Places
    <3> QED BY <2>1, <2>5, <3>1, <3>2, KtAssumption, Assembled
  <2>6. ASSUME NEW i \in Poll, ~t.killed[p],
               IF HoldsCtrlC(p, i)
               THEN /\ inp' \in TakeRawCtrlC(i)
                    /\ Return(p)
                    /\ want' = [want EXCEPT ![p] = 0]
                    /\ UNCHANGED <<t, kt>>
               ELSE /\ inp' = i
                    /\ BlockAt(p, "WaitCtrlC", 0, "waitC")
                    /\ UNCHANGED want
        PROVE  IInv'
    <3>1. i \in TtyInputs
      BY DEF Poll, Polled
    <3>2. CASE HoldsCtrlC(p, i)
      <4>1. inp' \in TtyInputs
        BY <2>6, <3>1, <3>2 DEF HoldsCtrlC, HasRawCtrlC, TakeRawCtrlC, TtyInputs
      <4> QED BY <2>2, <2>6, <3>2, <4>1 DEF Return
    <3>3. CASE ~HoldsCtrlC(p, i)
      BY <2>5, <2>6, <3>1, <3>3 DEF Blocked
    <3> QED BY <3>2, <3>3
  <2>7. CASE ~t.killed[p] /\ BlockAt(p, "Wait", 0, "wait") /\ UNCHANGED <<want, inp>>
    BY <2>5, <2>7 DEF Blocked
  <2> QED BY <1>3, <2>3, <2>4, <2>6, <2>7 DEF Collect
<1>4. ASSUME ReadConsole(p) PROVE IInv'
  <2>1. t.current = p /\ UNCHANGED <<want, fg>>
    BY <1>4 DEF ReadConsole, Runs
  <2>2. CASE Return(p) /\ UNCHANGED <<t, kt>> /\ inp' \in TtyInputs
    <3>1. at' \in [Pid -> Places] /\ UserIsCurrent'
      BY <2>1, <2>2, Moved DEF Places, Return
    <3> QED BY <2>1, <2>2, <3>1, Assembled
  <2>3. ASSUME NEW i \in Poll, ~t.killed[p],
               inp' = i /\ BlockAt(p, "Console", 0, "read")
        PROVE  IInv'
    <3>1. Settled(t') /\ kt' = 0 /\ GoTo(p, "read")
      BY <2>1, <2>3, BlockAtSettles DEF Blocked
    <3>2. at' \in [Pid -> Places] /\ UserIsCurrent'
      BY <2>1, <3>1, Moved DEF Places
    <3>3. inp' \in TtyInputs
      BY <2>3 DEF Poll, Polled
    <3> QED BY <2>1, <3>1, <3>2, <3>3, KtAssumption, Assembled
  <2>4. ASSUME NEW i \in Poll, inp' \in ReadInput(i) PROVE inp' \in TtyInputs
    BY <2>4 DEF ReadInput
  <2> QED BY <1>4, <2>2, <2>3, <2>4 DEF ReadConsole
<1> QED BY <1>1, <1>2, <1>3, <1>4 DEF Kernel

(* A call that returns at once, whatever it did to the table. *)
LEMMA Returned ==
    ASSUME IInv, NEW p \in Pid, Runs(p, {"user"}), Return(p), Settled(t'),
           UNCHANGED <<want, kt>>, fg' \in Pid, inp' \in TtyInputs
    PROVE  IInv'
<1>1. at' \in [Pid -> Places] /\ UserIsCurrent'
  BY Moved DEF Places, Return, Runs
<1> QED BY <1>1, Assembled DEF IInv, TypeOK

(* So does every system call. *)
LEMMA CallKeeps == ASSUME Counting, IInv, NEW p \in Pid, Call(p) PROVE IInv'
<1> USE DEF IInv, TypeOK
<1>1. ASSUME NEW g \in SpawnGroups, NEW front \in BOOLEAN, Spawn(p, g, front)
      PROVE  IInv'
  <2>1. Settled(t') /\ fg' \in Pid /\ inp' \in TtyInputs
    BY <1>1, StartChildSettles DEF Spawn
  <2> QED BY <1>1, <2>1, Returned DEF Spawn
<1>2. ASSUME Exit(p) PROVE IInv'
  <2>1. t.current = p
    BY <1>2 DEF Exit, Runs
  <2>2. Settled(t') /\ kt' = 0 /\ GoTo(p, "check") /\ UNCHANGED <<want, fg, inp>>
    BY <1>2, <2>1, EndProcessSettles DEF Exit
  <2>3. at' \in [Pid -> Places] /\ UserIsCurrent'
    BY <2>1, <2>2, Moved DEF Places
  <2> QED BY <2>2, <2>3, KtAssumption, Assembled
<1>3. ASSUME NEW kind, NEW n, KillCall(p, kind, n) PROVE IInv'
  <2>1. Target(t, kind, n) \in SUBSET Pid
    BY DEF Target, Entries
  <2>2. Settled(t')
    BY <1>3, <2>1, KillStirs, StirredSound DEF KillCall, Settled, Sound
  <2> QED BY <1>3, <2>2, Returned DEF KillCall
<1>4. ASSUME NEW c \in 0..PIDMAX, NEW a \in {"wait", "waitC"}, Wait(p, c, a) PROVE IInv'
  <2>1. /\ t.current = p /\ GoTo(p, a) /\ UNCHANGED <<t, kt, fg, inp>>
        /\ want' = [want EXCEPT ![p] = c]
    BY <1>4 DEF Wait, Runs
  <2>2. at' \in [Pid -> Places] /\ UserIsCurrent'
    BY <2>1, Moved DEF Places
  <2> QED BY ZenonT(30), <2>1, <2>2, Assembled
<1>5. ASSUME NEW c \in 0..PIDMAX, WaitNoHang(p, c) PROVE IInv'
  <2>1. Settled(t')
    BY <1>5, ReapFirstSettled DEF WaitNoHang
  <2> QED BY <1>5, <2>1, Returned DEF WaitNoHang
<1>6. ASSUME AskCtrlC(p) PROVE IInv'
  <2>1. PICK i \in Poll : inp' \in IF HoldsCtrlC(p, i) THEN TakeRawCtrlC(i) ELSE {i}
    BY <1>6 DEF AskCtrlC
  <2>2. i \in TtyInputs
    BY DEF Poll, Polled
  <2>3. inp' \in TtyInputs
    BY <2>1, <2>2 DEF HoldsCtrlC, HasRawCtrlC, TakeRawCtrlC, TtyInputs
  <2> QED BY <1>6, <2>3, Returned DEF AskCtrlC
<1>7. ASSUME Read(p) PROVE IInv'
  <2>1. t.current = p /\ GoTo(p, "read") /\ UNCHANGED <<t, want, kt, fg, inp>>
    BY <1>7 DEF Read, Runs
  <2>2. at' \in [Pid -> Places] /\ UserIsCurrent'
    BY <2>1, Moved DEF Places
  <2> QED BY <2>1, <2>2, Assembled
<1>8. ASSUME ReadNothing(p) PROVE IInv'
  <2>1. inp' \in TtyInputs
    BY <1>8 DEF ReadNothing, Poll, Polled
  <2> QED BY <1>8, <2>1, Returned DEF ReadNothing
<1>9. ASSUME NEW line \in BOOLEAN, ConsoleMode(p, line) PROVE IInv'
  <2>1. Settled(t')
    BY <1>9, WakeOpsStir, StirredSound DEF ConsoleMode, Settled, Sound
  <2>2. inp' \in TtyInputs
    BY <1>9, SetLineModeType DEF ConsoleMode
  <2> QED BY <1>9, <2>1, <2>2, Returned DEF ConsoleMode
<1>10. ASSUME NEW g \in Pid, ConsoleForeground(p, g) PROVE IInv'
  <2>1. TakeConsole(t, Give(t.console, t.pgid[p], g, Groups(t)), FALSE)
    BY ZenonT(30), <1>10 DEF ConsoleForeground, GiveConsole
  <2>2. Settled(t') /\ fg' \in Pid /\ inp' \in TtyInputs
    BY ZenonT(30), <2>1, TakeConsoleSettles
  <2> QED BY ZenonT(30), <1>10, <2>2, Returned DEF ConsoleForeground
<1>11. ASSUME NEW ticks \in 1..SLEEPMAX, Sleep(p, ticks) PROVE IInv'
  <2>1. t.current = p /\ ~t.killed[p]
    BY <1>11 DEF Sleep, Runs, UserIsCurrent
  <2>2. ticks + 1 \in Nat
    BY SleepAssumption
  <2>3. Settled(t') /\ kt' = 0 /\ GoTo(p, "ret")
    BY <1>11, <2>1, <2>2, BlockAtSettles DEF Sleep, Blocked
  <2>4. at' \in [Pid -> Places] /\ UserIsCurrent'
    BY <2>1, <2>3, Moved DEF Places
  <2> QED BY <1>11, <2>3, <2>4, KtAssumption, Assembled DEF Sleep
<1>12. ASSUME OtherCall(p) PROVE IInv'
  BY <1>12, Returned DEF OtherCall
<1>13. ASSUME Power(p) PROVE IInv'
  BY <1>13, RebootKeeps DEF Power
<1> QED
  BY <1>1, <1>2, <1>3, <1>4, <1>5, <1>6, <1>7, <1>8, <1>9, <1>10, <1>11, <1>12, <1>13
     DEF Call

(* So does process 1. *)
LEMMA InitProcessKeeps == ASSUME Counting, IInv, InitProcess PROVE IInv'
<1> USE DEF IInv, TypeOK
<1>1. INIT \in Pid /\ ~t.killed[INIT]
  BY InitIsPid DEF Settled, Sound
<1>2. ASSUME NEW a \in Places, a # "user", t.current = INIT, GoTo(INIT, a),
             Settled(t'), NEW c \in 0..PIDMAX, want' = [want EXCEPT ![INIT] = c],
             UNCHANGED kt, fg' \in Pid, inp' \in TtyInputs
      PROVE  IInv'
  <2>1. at' \in [Pid -> Places] /\ UserIsCurrent'
    BY <1>1, <1>2, Moved
  <2>2. want' \in [Pid -> 0..PIDMAX]
    BY ZenonT(30), <1>2
  <2> QED BY <1>2, <2>1, <2>2, Assembled
<1>3. want = [want EXCEPT ![INIT] = want[INIT]] /\ want[INIT] \in 0..PIDMAX
  BY <1>1
<1>4. ASSUME NEW a \in Places, a # "user", t.current = INIT, NEW why \in Blocked,
             BlockAt(INIT, why, 0, a), UNCHANGED <<want, fg>>, inp' \in TtyInputs
      PROVE  IInv'
  <2>1. Settled(t') /\ kt' = 0 /\ GoTo(INIT, a)
    BY <1>1, <1>4, BlockAtSettles
  <2>2. at' \in [Pid -> Places] /\ UserIsCurrent'
    BY <1>1, <1>4, <2>1, Moved
  <2> QED BY <1>4, <2>1, <2>2, KtAssumption, Assembled
<1>5. ASSUME StartShell PROVE IInv'
  <2>1. NewGroup \in SpawnGroups
    BY DEF NewGroup, SpawnGroups
  <2>2. Settled(t') /\ t.next \in Pid /\ fg' \in Pid /\ inp' \in TtyInputs
    BY ZenonT(30), <1>1, <1>5, <2>1, StartChildSettles DEF StartShell
  <2>3. t.next \in 0..PIDMAX
    BY <2>2 DEF Pid
  <2> QED BY ZenonT(30), <1>2, <1>5, <2>2, <2>3 DEF StartShell, Runs, Places
<1>6. ASSUME FindShell PROVE IInv'
  <2>1. Settled(t')
    BY <1>6, ReapFirstSettled DEF FindShell
  <2> QED BY <1>2, <1>3, <1>6, <2>1 DEF FindShell, Runs, Places
<1>7. ASSUME CollectAny PROVE IInv'
  <2>1. CASE Ended(t, INIT, 0) = {}
    BY <1>4, <1>7, <2>1 DEF CollectAny, Runs, Places, Blocked
  <2>2. CASE Ended(t, INIT, 0) # {}
    <3>1. Settled(t')
      BY <1>7, <2>2, ReapFirstSettled DEF CollectAny
    <3> QED BY <1>2, <1>3, <1>7, <2>2, <3>1 DEF CollectAny, Runs, Places
  <2> QED BY <2>1, <2>2
<1>0. 0 \in 0..PIDMAX
  BY PidAssumption
<1>8. ASSUME Again PROVE IInv'
  <2>1. Settled(t') /\ fg' \in Pid /\ inp' \in TtyInputs
    BY <1>8 DEF Again
  <2> QED BY ZenonT(30), <1>0, <1>2, <1>8, <2>1 DEF Again, Runs, Places
<1>9. ASSUME ErrorScreen PROVE IInv'
  <2> DEFINE killed == KillAllButInit(t)
             mine == [killed EXCEPT !.console = Reset(@)]
  <2>1. /\ t' = WakeAll(mine, "Console", 0) /\ fg' = Foreground(mine.console)
        /\ inp' = NewInput
    BY ZenonT(30), <1>9 DEF ErrorScreen
  <2>2. Settled(killed)
    BY KillStirs, StirredSound DEF Settled, Sound
  <2> HIDE DEF killed
  <2>3. killed.console \in Seq(Pid) /\ IsChain(killed.console)
    BY <2>2 DEF Settled, Sound, TableOK, Table, Held
  <2>4. Reset(killed.console) = <<INIT>>
    <3> DEFINE c == killed.console
    <3>1. c \in Seq(Pid) /\ Len(c) \in Nat /\ Len(c) >= 1 /\ c[1] = INIT
      BY <2>3, SeqShape DEF IsChain
    <3> HIDE DEF c
    <3>2. SubSeq(c, 1, 1) = <<c[1]>>
      <4>1. SubSeq(c, 1, 1) = [i \in 1..1 |-> c[i]]
        BY <3>1
      <4>2. <<c[1]>> = [i \in 1..1 |-> c[i]]
        BY <3>1
      <4> QED BY ZenonT(30), <4>1, <4>2
    <3> QED BY <3>1, <3>2 DEF Reset, c
  <2>5. <<INIT>> \in Seq(Pid) /\ IsChain(<<INIT>>) /\ Foreground(<<INIT>>) = INIT
    BY <1>1 DEF IsChain, IsInjective, Foreground
  <2>6. mine = [killed EXCEPT !.console = <<INIT>>]
    BY <2>4
  <2>7. Settled(mine) /\ mine.console = <<INIT>>
    <3>1. Sound(killed)
      BY <2>2 DEF Settled
    <3> HIDE DEF mine
    <3> QED BY ZenonT(30), <2>2, <2>5, <2>6, <3>1, ChainSound
  <2> HIDE DEF mine
  <2>8. Settled(t')
    BY <2>1, <2>7, WakeOpsStir, StirredSound DEF Settled, Sound
  <2>9. fg' \in Pid /\ inp' \in TtyInputs
    BY <1>1, <2>1, <2>5, <2>7 DEF NewInput, TtyInputs
  <2> QED BY ZenonT(30), <1>0, <1>2, <1>9, <2>8, <2>9 DEF ErrorScreen, Runs, Places
<1>10. ASSUME AwaitKey PROVE IInv'
  <2>1. PICK i \in Poll : IF HasInput(i) THEN Reboot
                          ELSE /\ inp' = i
                               /\ BlockAt(INIT, "Console", 0, "screen")
                               /\ UNCHANGED <<want, fg>>
    BY <1>10 DEF AwaitKey
  <2>2. i \in TtyInputs
    BY DEF Poll, Polled
  <2>3. CASE HasInput(i)
    BY <2>1, <2>3, RebootKeeps
  <2>4. CASE ~HasInput(i)
    BY <1>4, <1>10, <2>1, <2>2, <2>4 DEF AwaitKey, Runs, Places, Blocked
  <2> QED BY <2>3, <2>4
<1> QED BY <1>5, <1>6, <1>7, <1>8, <1>9, <1>10 DEF InitProcess

-----------------------------------------------------------------------------
(* Handing the console on, or failing to, keeps the family. *)
LEMMA TakeConsoleFamily ==
    ASSUME Counting, NEW s, Settled(s), NEW by, NEW to \in Groups(s), NEW line,
           NEW wanted, Family(s, wanted, fg),
           TakeConsole(s, Give(s.console, by, to, Groups(s)), line)
    PROVE  /\ Family(t', wanted, fg')
           /\ Children(t', INIT) = Children(s, INIT) /\ Extends(s.ready, t'.ready)
<1> DEFINE give == Give(s.console, by, to, Groups(s))
           c == give.chain
           given == [s EXCEPT !.console = c]
<1>1. Sound(s) /\ TableOK(s) /\ INIT \in Alive(s) /\ Born(s) /\ Readers(s, fg)
  BY DEF Settled, Sound, Family, Kin
<1>2. to \in Pid /\ (s.next # 0 => to < s.next)
  BY <1>1 DEF Groups, Born
<1>3. /\ c \in Seq(Pid) /\ IsChain(c)
      /\ give.err = "ok" => Foreground(c) = to
      /\ give.err # "ok" => (fg \in Groups(s) => Foreground(c) = fg)
  BY ZenonT(30), <1>1, <1>2, GiveAgrees DEF Family
<1>4. TakeConsole(s, give, line)
  OBVIOUS
<1> HIDE DEF give
<1>5. CASE give.err = "ok"
  <2>1. t' = WakeAll(given, "Console", 0) /\ fg' = Foreground(c)
    BY <1>4, <1>5 DEF TakeConsole
  <2>2. Handed(s, c, t') /\ \A p \in Pid : t'.st[p] # "Console"
    BY <1>1, <1>3, <2>1, ReadersHanded
  <2>3. Born(t') /\ Kin(t') /\ Awaited(t', wanted)
    BY <2>2 DEF Handed, Family
  <2>4. Readers(t', fg') /\ Front(t', fg')
    BY <1>2, <1>3, <1>5, <2>1, <2>2 DEF Readers, Front, Handed
  <2> QED BY ZenonT(30), <2>2, <2>3, <2>4 DEF Family, Handed
<1>6. CASE give.err # "ok"
  <2>1. t' = given /\ fg' = fg
    BY <1>4, <1>6 DEF TakeConsole
  <2>2. Handed(s, c, t') /\ t'.st = s.st /\ t'.arg = s.arg /\ t'.pgid = s.pgid
    BY <1>1, <1>3, <2>1, ChainHanded
  <2>3. Born(t') /\ Kin(t') /\ Awaited(t', wanted)
    BY <2>2 DEF Handed, Family
  <2>4. Readers(t', fg') /\ Front(t', fg')
    BY <1>3, <1>6, <2>1, <2>2 DEF Readers, Front, Handed, Family
  <2> QED BY <2>2, <2>3, <2>4 DEF Family, Handed
<1> QED BY <1>5, <1>6

(* spawn keeps the family, which has one more. *)
LEMMA StartChildFamily ==
    ASSUME Counting, Settled(t), fg \in Pid, Family(t, want, fg),
           NEW p \in Pid, p = t.current,
           NEW g \in SpawnGroups, NEW front \in BOOLEAN, front => g.kind = "New",
           StartChild(p, g, front), Settled(t')
    PROVE  /\ Family(t', want, fg')
           /\ Children(t, INIT) \subseteq Children(t', INIT)
           /\ p = INIT => t.next \in Children(t', INIT)
           /\ Extends(t.ready, t'.ready)
<1> DEFINE s == Insert(t, p, g)
           group == GroupOf(t, p, g)
<1>1. /\ HasRoom(t) /\ (g.kind = "Join" => MayJoin(t, p, g.pgid))
      /\ t.st[p] = "Running" /\ t.next # 0
  BY ZenonT(30), InitIsPid DEF StartChild, MaySpawn, Settled, HasRoom
<1>2. group \in Groups(t) \cup {t.next} /\ (g.kind = "New" => group = t.next)
  <2>1. t.pgid[p] \in Groups(t)
    BY <1>1 DEF Groups, Entries
  <2>2. g.kind = "Join" => g.pgid \in Groups(t)
    BY <1>1 DEF MayJoin, Groups
  <2>3. g.kind \in {"Parent", "New", "Join"}
    BY DEF SpawnGroups
  <2> QED BY <2>1, <2>2, <2>3 DEF GroupOf
<1>3. /\ Family(s, want, fg)
      /\ Children(t, INIT) \subseteq Children(s, INIT)
      /\ t.next \in Children(s, p)
      /\ s.pgid[t.next] = group /\ t.next \in Alive(s)
      /\ Extends(t.ready, s.ready)
  BY ZenonT(30), <1>1, <1>2, InsertFamily
<1>4. Settled(s)
  <2>1. p \in 0..PIDMAX /\ group \in 0..PIDMAX
    <3>1. t.next \in 0..PIDMAX /\ Pid \subseteq 0..PIDMAX
      BY DEF Settled, Sound, TableOK, Table, Pid
    <3>2. Groups(t) \subseteq Pid
      BY DEF Family, Born, Groups
    <3> HIDE DEF group
    <3> QED BY <1>2, <3>1, <3>2
  <2> QED BY <1>1, <2>1, InsertSettled
<1>5. CASE front
  <2>1. TakeConsole(s, Give(s.console, s.pgid[p], t.next, Groups(s)), TRUE)
    BY ZenonT(30), <1>5 DEF StartChild, GiveConsole
  <2> HIDE DEF s, group
  <2>2. t.next \in Groups(s)
    BY ZenonT(30), <1>2, <1>3, <1>5 DEF Groups, Alive
  <2>3. /\ Family(t', want, fg')
        /\ Children(t', INIT) = Children(s, INIT) /\ Extends(s.ready, t'.ready)
    BY ZenonT(30), <1>3, <1>4, <2>1, <2>2, TakeConsoleFamily
  <2>4. Extends(t.ready, t'.ready)
    <3>1. t.ready \in Seq(Pid) /\ s.ready \in Seq(Pid)
      BY <1>4 DEF Settled, Sound, TableOK, Table
    <3>2. t'.ready \in Seq(Pid)
      BY DEF Settled, Sound, TableOK, Table
    <3>3. Len(t.ready) \in Nat /\ Len(s.ready) \in Nat /\ Len(t'.ready) \in Nat
      BY <3>1, <3>2, SeqShape
    <3> QED BY <1>3, <2>3, <3>3 DEF Extends
  <2> QED BY <1>3, <2>3, <2>4
<1>6. CASE ~front
  <2>1. t' = s /\ fg' = fg
    BY <1>6 DEF StartChild
  <2> QED BY <1>3, <2>1
<1> QED BY <1>5, <1>6

-----------------------------------------------------------------------------
(* The inductive invariant.  Process 1 and the programs' processes are at  *)
(* places of their own, and at the error screen everyone else is killed    *)
(* and process 1's group has the console.                                  *)

InitPlaces == {"start", "find", "any", "ended", "screen"}

Roles == /\ at[INIT] \in InitPlaces
         /\ \A p \in Pid \ {INIT} : at[p] \notin InitPlaces

AtScreen == at[INIT] = "screen" => /\ fg = INIT
                                   /\ \A p \in Alive(t) \ {INIT} : t.killed[p]

KInv == IInv /\ Family(t, want, fg) /\ Roles /\ ShellIsInits /\ AtScreen

(* A Ctrl-C typed in line mode is not lost in this step. *)
Heeded ==
    inp.interrupted /\ ~inp'.interrupted =>
        \/ HasGroup(t, fg) /\ \A p \in Alive(t) : t.pgid[p] = fg => t'.killed[p]
        \/ HasRawCtrlC(inp')
        \/ fg = INIT
        \/ at'[INIT] \in {"screen", "start"}

(* What is to be shown of every step: the invariant, that the queue goes   *)
(* on in order unless the machine restarts, and that no Ctrl-C is lost.    *)
Stepped == KInv' /\ (Advanced(t.ready, t'.ready) \/ t' = Booted.t) /\ Heeded

(* A queue that grew and then advanced has advanced. *)
LEMMA ExtendedAdvances ==
    ASSUME NEW q \in Seq(Pid), NEW r \in Seq(Pid), Extends(q, r)
    PROVE  /\ IsInjective(r) => Advanced(q, r)
           /\ \A x : Advanced(r, x) => Advanced(q, x)
<1>1. Len(q) \in Nat /\ Len(r) \in Nat
  BY SeqShape
<1>2. IsInjective(r) => Advanced(q, r)
  BY DEF Advanced
<1>3. ASSUME NEW x, Advanced(r, x) PROVE Advanced(q, x)
  <2>1. PICK y \in Seq(Pid) : /\ IsInjective(y) /\ Extends(r, y)
                              /\ x = y \/ (y # <<>> /\ x = Tail(y))
    BY <1>3 DEF Advanced
  <2>2. Len(y) \in Nat
    BY SeqShape
  <2>3. Extends(q, y)
    BY <1>1, <2>1, <2>2 DEF Extends
  <2> QED BY <2>1, <2>3 DEF Advanced
<1> QED BY <1>2, <1>3

(* A step that leaves the places of process 1 and of the others apart, and *)
(* process 1 its shell.                                                    *)
LEMMA OthersStep ==
    ASSUME KInv, IInv', at'[INIT] = at[INIT],
           \A q \in Pid \ {INIT} : at'[q] \notin InitPlaces,
           want'[INIT] = want[INIT], Family(t', want', fg'),
           Children(t, INIT) \subseteq Children(t', INIT),
           at[INIT] = "screen" => Continues(t, t') /\ fg' = fg
    PROVE  KInv'
<1>1. Roles'
  BY DEF KInv, Roles
<1>2. ShellIsInits'
  BY DEF KInv, ShellIsInits
<1>3. AtScreen'
  BY DEF KInv, AtScreen, Continues
<1> QED BY <1>1, <1>2, <1>3 DEF KInv

(* The process p of a program takes a step. *)
LEMMA ProgramStep ==
    ASSUME KInv, IInv', NEW p \in Pid \ {INIT}, NEW a \in Places \ InitPlaces, GoTo(p, a),
           want'[INIT] = want[INIT], Family(t', want', fg'),
           Children(t, INIT) \subseteq Children(t', INIT),
           at[INIT] = "screen" => Continues(t, t') /\ fg' = fg
    PROVE  KInv'
<1>1. at \in [Pid -> Places] /\ INIT \in Pid
  BY InitIsPid DEF KInv, IInv, TypeOK
<1>2. at' = [at EXCEPT ![p] = a]
  BY DEF GoTo
<1>3. at'[INIT] = at[INIT]
  BY <1>1, <1>2
<1>4. \A q \in Pid \ {INIT} : at'[q] \notin InitPlaces
  BY <1>1, <1>2 DEF KInv, Roles
<1> QED BY <1>3, <1>4, OthersStep

(* Time passes, or the idle task looks around. *)
LEMMA Passes ==
    ASSUME KInv, IInv', UNCHANGED <<at, want, fg>>, Later(t, t'), Heeded PROVE Stepped
<1>1. Family(t', want', fg')
  BY LaterFamily DEF KInv
<1>2. Continues(t, t')
  BY LaterContinues DEF Continues
<1>3. Advanced(t.ready, t'.ready)
  BY DEF Later
<1>4. KInv'
  BY <1>1, <1>2, OthersStep DEF Continues, KInv, Roles
<1> QED BY <1>3, <1>4 DEF Stepped

(* The running process of a program is not blocked, nor process 1. *)
LEMMA RunningIsNot ==
    ASSUME KInv, NEW p \in Pid, t.current = p
    PROVE  t.st[p] = "Running" /\ ~InWait(t, p) /\ p \in Alive(t)
<1>1. t.st[p] = "Running"
  BY InitIsPid DEF KInv, IInv, Settled
<1> QED BY <1>1 DEF InWait, Alive, Entries

(* It goes on at a, later, and may change what it waits for. *)
LEMMA GoesOn ==
    ASSUME KInv, IInv', NEW p \in Pid \ {INIT}, t.current = p,
           NEW a \in Places \ InitPlaces, GoTo(p, a), Later(t, t'),
           NEW c, want' = [want EXCEPT ![p] = c], UNCHANGED fg, Heeded
    PROVE  Stepped
<1>1. want \in [Pid -> 0..PIDMAX] /\ Family(t, want, fg) /\ INIT \in Pid
  BY InitIsPid DEF KInv, IInv, TypeOK
<1>2. Family(t, want', fg)
  BY ZenonT(30), <1>1, RunningIsNot, WantFamily
<1>3. Family(t', want', fg')
  BY <1>2, LaterFamily
<1>4. Continues(t, t')
  BY LaterContinues DEF Continues
<1>5. want'[INIT] = want[INIT]
  BY <1>1
<1>6. KInv'
  BY ZenonT(30), <1>3, <1>4, <1>5, ProgramStep DEF Continues
<1> QED BY <1>6 DEF Stepped, Later

(* A table that did not change is a later one. *)
LEMMA SameIsLater == ASSUME KInv, UNCHANGED t PROVE Later(t, t')
<1>1. TableOK(t)
  BY DEF KInv, IInv, Settled, Sound
<1>2. Later(t, t)
  BY <1>1, StirredReflexive, StirredIsLater
<1> QED BY <1>2

(* It blocks. *)
LEMMA Blocks ==
    ASSUME Counting, KInv, IInv', NEW p \in Pid, t.current = p, ~t.killed[p],
           NEW why \in Blocked, NEW n \in Nat, NEW a, BlockAt(p, why, n, a),
           UNCHANGED <<want, fg>>,
           why \in {"Wait", "WaitCtrlC"} => /\ Mine(t, p, Awaits(p, want)) # {}
                                            /\ Ended(t, p, Awaits(p, want)) = {},
           why = "Console" => t.pgid[p] = fg /\ n = 0
    PROVE  /\ Family(t', want', fg') /\ Continues(t, t')
           /\ Advanced(t.ready, t'.ready) /\ GoTo(p, a)
<1> DEFINE w == BlockOn(t, why, n)
<1>1. /\ Settled(t) /\ TableOK(t) /\ t.current # 0 /\ t.current \in Pid
      /\ t.st[t.current] = "Running"
  BY InitIsPid DEF KInv, IInv, Settled, Sound
<1>2. Later(w, t') /\ GoTo(p, a)
  BY <1>1, BlockAtSettles
<1>3. Family(w, want, fg) /\ Continues(t, w)
  BY <1>1, BlockFamily DEF KInv
<1>4. w.ready = t.ready
  BY ZenonT(30), <1>1, BlockOnKeeps
<1> HIDE DEF w
<1>5. Advanced(t.ready, t'.ready)
  BY ZenonT(30), <1>2, <1>4 DEF Later
<1>6. Family(t', want', fg')
  BY <1>2, <1>3, LaterFamily
<1>7. Continues(t, t')
  BY <1>2, <1>3, LaterContinues
<1> QED BY <1>2, <1>5, <1>6, <1>7

(* A program's process ends. *)
LEMMA Ends ==
    ASSUME Counting, KInv, IInv', NEW p \in Pid \ {INIT}, t.current = p, EndProcess(p)
    PROVE  Stepped
<1> DEFINE d == Dead(t, p)
           w == End(t, p)
<1>1. Settled(t) /\ TableOK(t) /\ t.st[p] = "Running"
  BY RunningIsNot DEF KInv, IInv, Settled, Sound
<1>2. GoTo(p, "check") /\ UNCHANGED <<want, fg, inp>> /\ Later(w, t')
  BY <1>1, EndProcessSettles
<1>3. Family(w, want, fg) /\ Continues(t, w)
  BY <1>1, EndFamily DEF KInv
<1>4. d.ready = t.ready /\ Stirred(d, w) /\ TableOK(d)
  BY ZenonT(30), <1>1, DeadKeeps, EndStirs
<1> HIDE DEF d, w
<1>5. Later(d, t')
  BY <1>2, <1>4, LaterAfterStirred
<1>6. Advanced(t.ready, t'.ready)
  BY <1>4, <1>5 DEF Later
<1>7. Family(t', want', fg')
  BY <1>2, <1>3, LaterFamily
<1>8. Continues(t, t')
  BY <1>2, <1>3, LaterContinues
<1>9. "check" \in Places \ InitPlaces
  BY DEF Places, InitPlaces
<1>10. KInv'
  BY <1>2, <1>7, <1>8, <1>9, ProgramStep DEF Continues
<1> QED BY <1>2, <1>6, <1>10 DEF Stepped, Heeded

(* The running process collects the first of the children it waits for     *)
(* that has ended.                                                         *)
LEMMA Reaps ==
    ASSUME Counting, KInv, NEW p \in Pid, t.current = p, NEW c, Ended(t, p, c) # {},
           t' = Reap(t, First(Ended(t, p, c))), NEW d, UNCHANGED fg,
           want' = [want EXCEPT ![p] = d]
    PROVE  /\ Family(t', want', fg')
           /\ Children(t, INIT) \ {First(Ended(t, p, c))} \subseteq Children(t', INIT)
           /\ p # INIT => Continues(t, t')
           /\ Advanced(t.ready, t'.ready)
<1> DEFINE z == First(Ended(t, p, c))
<1>1. z \in Children(t, p) /\ t.st[z] = "Zombie" /\ z \in Pid
  <2>1. z \in Ended(t, p, c)
    BY FirstIsEnded
  <2> HIDE DEF z
  <2> QED BY <2>1 DEF Ended, Mine, Children, Entries
<1> HIDE DEF z
<1>2. Settled(t) /\ t.st \in [Pid -> States] /\ t' = Reap(t, z)
  BY ZenonT(30) DEF KInv, IInv, Settled, Sound, TableOK, Table, z
<1>3. /\ Family(t', want, fg) /\ Children(t, INIT) \ {z} \subseteq Children(t', INIT)
      /\ p # INIT => Continues(t, t')
      /\ t'.ready = t.ready /\ t'.st = [t.st EXCEPT ![z] = "Free"]
  <2>1. Family(t, want, fg)
    BY DEF KInv
  <2>2. z \in Children(t, t.current) /\ t.current \in Pid
    BY <1>1
  <2>3. LET w == Reap(t, z)
        IN  /\ Family(w, want, fg) /\ Children(t, INIT) \ {z} \subseteq Children(w, INIT)
            /\ t.current # INIT => Continues(t, w)
            /\ w.ready = t.ready /\ w.st = [t.st EXCEPT ![z] = "Free"]
    BY ZenonT(30), <1>1, <1>2, <2>1, <2>2, ReapFamily
  <2> QED BY ZenonT(30), <1>2, <2>3
<1>4. ~InWait(t', p)
  BY <1>2, <1>3, RunningIsNot DEF InWait
<1>5. Family(t', want', fg')
  BY ZenonT(30), <1>3, <1>4, WantFamily DEF KInv, IInv, TypeOK
<1>6. Advanced(t.ready, t'.ready)
  BY ZenonT(30), <1>3, SameIsLater, StirredReflexive, StirredIsLater DEF Later, KInv, IInv, Settled, Sound
<1> QED BY <1>3, <1>5, <1>6 DEF z

-----------------------------------------------------------------------------
(* One lemma for each group of actions. *)

(* A Ctrl-C that a poll took was heeded: process 1 is in its own group. *)
LEMMA TakenIsHeeded ==
    ASSUME KInv, NEW s, Taken(s), s.st = t.st, s.pgid = t.pgid PROVE Heeded
<1>1. Alive(s) = Alive(t)
  BY DEF Alive, Entries
<1>2. HasGroup(s, fg) <=> HasGroup(t, fg)
  BY <1>1 DEF HasGroup
<1>3. t.pgid[INIT] = INIT
  BY DEF KInv, Family, Born
<1> QED BY <1>1, <1>2, <1>3 DEF Taken, Heeded

(* A poll keeps a Ctrl-C of line mode; there is none in raw mode. *)
LEMMA PolledHeeds ==
    ASSUME KInv, NEW i \in Poll, NEW j,
           \/ j = i
           \/ j \in ReadInput(i)
           \/ j \in TakeRawCtrlC(i) /\ HasRawCtrlC(i)
    PROVE  j \in TtyInputs /\ (inp.interrupted => j.interrupted)
<1>1. inp \in TtyInputs
  BY DEF KInv, IInv, TypeOK
<1>2. i \in TtyInputs /\ (inp.interrupted => i.interrupted)
  BY ZenonT(30), <1>1, PollKeeps
<1> QED BY <1>2 DEF ReadInput, TakeRawCtrlC, HasRawCtrlC, TtyInputs

(* A change of mode keeps it or turns it into raw input. *)
LEMMA LineModeHeeds ==
    ASSUME KInv, NEW line \in BOOLEAN, NEW j \in SetLineMode(inp, line)
    PROVE  inp.interrupted => j.interrupted \/ (~line /\ HasRawCtrlC(j))
<1>1. inp \in TtyInputs
  BY DEF KInv, IInv, TypeOK
<1> QED BY <1>1 DEF SetLineMode, TtyInputs, HasRawCtrlC
=============================================================================
