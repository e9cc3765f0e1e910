-------------------------- MODULE ProcessesProofs --------------------------
(***************************************************************************)
(* Proofs about Processes, for every number of processes, pids and ticks:  *)
(* its type, the run queue and the fate of killed processes, and then      *)
(* parents and their children, process 1 and its shell, and the groups     *)
(* that share the console.                                                 *)
(***************************************************************************)
EXTENDS StepProofs

-----------------------------------------------------------------------------
(* Every step keeps the second inductive invariant. *)

(* Ticks. *)
LEMMA TimerSteps == ASSUME Counting, KInv, Timer PROVE Stepped
<1>1. IInv' /\ TableOK(t) /\ Settled(t) /\ want \in [Pid -> 0..PIDMAX]
  BY TimerKeeps DEF KInv, IInv, Settled, Sound, TypeOK
<1>2. Stirred(t, Elapse(t))
  BY <1>1, ElapseStirs
<1>3. ASSUME NEW p \in Pid, UserTick(p) PROVE Stepped
  <2>1. /\ t.current = p /\ at[p] = "user" /\ GoTo(p, "check") /\ UNCHANGED <<want, fg>>
        /\ PollAndSettle(Elapse(t), kt + 1) /\ kt + 1 \in Nat
    BY <1>3, KtAssumption DEF UserTick, Runs, KInv, IInv, TypeOK
  <2>2. p # INIT /\ "check" \in Places \ InitPlaces
    BY <2>1 DEF KInv, Roles, InitPlaces, Places
  <2>3. Later(Elapse(t), t') /\ Taken(Elapse(t))
    <3>1. Settled(Elapse(t))
      BY <1>1, <1>2, StirredSound DEF Settled
    <3> QED BY <2>1, <3>1, PollAndSettleSettles DEF KInv, IInv, TypeOK
  <2>4. Later(t, t')
    BY <1>1, <1>2, <2>3, LaterAfterStirred
  <2>5. Heeded
    <3>1. Elapse(t).st = t.st /\ Elapse(t).pgid = t.pgid
      BY <1>1 DEF Elapse, TableOK, Table
    <3> QED BY <2>3, <3>1, TakenIsHeeded
  <2>6. want' = [want EXCEPT ![p] = want[p]]
    BY <1>1, <2>1
  <2> QED BY ZenonT(30), <1>1, <2>1, <2>2, <2>4, <2>5, <2>6, GoesOn
<1>4. ASSUME KernelTick \/ IdleTick PROVE Stepped
  <2>1. t' = Elapse(t) /\ UNCHANGED <<at, want, fg, inp>>
    BY <1>4 DEF KernelTick, IdleTick
  <2>2. Later(t, t')
    BY <1>1, <1>2, <2>1, StirredIsLater
  <2> QED BY <1>1, <2>1, <2>2, Passes DEF Heeded
<1> QED BY <1>3, <1>4 DEF Timer

(* The idle task. *)
LEMMA IdleSteps == ASSUME Counting, KInv, Idle PROVE Stepped
<1>1. IInv' /\ UNCHANGED <<at, want, fg>>
  BY IdleKeeps DEF KInv, Idle
<1>2. Later(t, t') /\ Taken(t)
  BY IdleSettles DEF KInv, IInv, TypeOK
<1>3. Heeded
  BY <1>2, TakenIsHeeded
<1> QED BY <1>1, <1>2, <1>3, Passes

(* Kernel code of a process, where a system call goes on or returns. *)
LEMMA KernelSteps == ASSUME Counting, KInv, NEW p \in Pid, Kernel(p) PROVE Stepped
<1>1. /\ IInv' /\ TableOK(t) /\ Settled(t) /\ want \in [Pid -> 0..PIDMAX]
      /\ inp \in TtyInputs /\ kt \in Nat
  <2>1. IInv /\ TypeOK /\ Settled(t) /\ TableOK(t)
    BY DEF KInv, IInv, Settled, Sound
  <2>2. IInv'
    BY <2>1, KernelKeeps
  <2>3. want \in [Pid -> 0..PIDMAX] /\ inp \in TtyInputs /\ kt \in Nat
    BY <2>1, KtAssumption DEF TypeOK
  <2> QED BY <2>1, <2>2, <2>3
<1>2. t.current = p /\ p \in Pid \ {INIT}
  BY DEF Kernel, BeforeUser, EndIfKilled, Collect, ReadConsole, Runs, KInv, Roles, InitPlaces
<1>3. {"check", "user", "ret", "wait", "waitC", "read"} \subseteq Places \ InitPlaces
  BY DEF Places, InitPlaces
<1>4. want = [want EXCEPT ![p] = want[p]] /\ INIT \in Pid
  BY <1>1, InitIsPid
<1>5. ASSUME BeforeUser(p) PROVE Stepped
  <2>1. GoTo(p, "check") /\ UNCHANGED <<want, fg>>
    BY <1>5 DEF BeforeUser
  <2>2. Later(t, t') /\ Heeded
    <3>1. CASE kt > 0
      <4>1. Later(t, t') /\ Taken(t)
        BY <1>1, <1>5, <3>1, PollAndSettleSettles DEF BeforeUser
      <4> QED BY <4>1, TakenIsHeeded
    <3>2. CASE ~(kt > 0)
      BY <1>1, <1>5, <3>2, SettleSettles DEF BeforeUser, Heeded
    <3> QED BY <3>1, <3>2
  <2> QED BY <1>1, <1>2, <1>3, <1>4, <2>1, <2>2, GoesOn
<1>6. ASSUME EndIfKilled(p) PROVE Stepped
  <2>1. CASE t.killed[p]
    BY <1>1, <1>2, <1>6, <2>1, Ends DEF EndIfKilled
  <2>2. CASE ~t.killed[p]
    <3>1. GoTo(p, "user") /\ UNCHANGED <<t, want, kt, fg, inp>>
      BY <1>6, <2>2 DEF EndIfKilled
    <3>2. Later(t, t') /\ Heeded
      BY <3>1, SameIsLater DEF Heeded
    <3> QED BY <1>1, <1>2, <1>3, <1>4, <3>1, <3>2, GoesOn
  <2> QED BY <2>1, <2>2
<1>7. ASSUME ~t.killed[p], NEW why \in {"Wait", "WaitCtrlC", "Console"},
             NEW a \in {"wait", "waitC", "read"}, BlockAt(p, why, 0, a),
             UNCHANGED <<want, fg>>, inp.interrupted => inp'.interrupted,
             why # "Console" => Mine(t, p, want[p]) # {} /\ Ended(t, p, want[p]) = {},
             why = "Console" => t.pgid[p] = fg
      PROVE  Stepped
  <2>1. why \in Blocked /\ 0 \in Nat /\ Awaits(p, want) = want[p]
    BY <1>2 DEF Blocked, Awaits
  <2>2. /\ Family(t', want', fg') /\ Continues(t, t')
        /\ Advanced(t.ready, t'.ready) /\ GoTo(p, a)
    BY <1>1, <1>2, <1>7, <2>1, Blocks
  <2>3. KInv'
    BY <1>1, <1>2, <1>3, <1>7, <2>2, ProgramStep DEF Continues
  <2> QED BY <1>7, <2>2, <2>3 DEF Stepped, Heeded
<1>8. ASSUME Return(p), UNCHANGED <<t, fg>>, NEW c, want' = [want EXCEPT ![p] = c],
             inp.interrupted => inp'.interrupted
      PROVE  Stepped
  <2>1. Later(t, t') /\ Heeded /\ GoTo(p, "ret")
    BY <1>8, SameIsLater DEF Heeded, Return
  <2> QED BY ZenonT(30), <1>1, <1>2, <1>3, <1>8, <2>1, GoesOn
<1>9. ASSUME Collect(p) PROVE Stepped
  <2>1. UNCHANGED fg
    BY <1>9 DEF Collect
  <2>2. CASE UNCHANGED t /\ Return(p) /\ want' = [want EXCEPT ![p] = 0] /\ UNCHANGED inp
    BY ZenonT(30), <1>8, <2>1, <2>2
  <2>3. CASE /\ Ended(t, p, want[p]) # {}
             /\ t' = Reap(t, First(Ended(t, p, want[p])))
             /\ Return(p)
             /\ want' = [want EXCEPT ![p] = 0]
             /\ UNCHANGED inp
    <3>1. Family(t', want', fg') /\ Continues(t, t') /\ Advanced(t.ready, t'.ready)
      BY ZenonT(30), <1>2, <2>1, <2>3, Reaps
    <3>2. want'[INIT] = want[INIT] /\ GoTo(p, "ret")
      BY <1>1, <1>2, <1>4, <2>3 DEF Return
    <3>3. KInv'
      BY <1>1, <1>2, <1>3, <2>1, <3>1, <3>2, ProgramStep DEF Continues
    <3> QED BY <2>3, <3>1, <3>3 DEF Stepped, Heeded
  <2>4. CASE /\ ~t.killed[p] /\ Mine(t, p, want[p]) # {} /\ Ended(t, p, want[p]) = {}
             /\ BlockAt(p, "Wait", 0, "wait") /\ UNCHANGED <<want, inp>>
    BY <1>7, <2>1, <2>4
  <2>5. ASSUME ~t.killed[p], Mine(t, p, want[p]) # {}, Ended(t, p, want[p]) = {},
               NEW i \in Poll,
               IF HoldsCtrlC(p, i)
               THEN /\ inp' \in TakeRawCtrlC(i)
                    /\ Return(p)
                    /\ want' = [want EXCEPT ![p] = 0]
                    /\ UNCHANGED <<t, kt>>
               ELSE /\ inp' = i
                    /\ BlockAt(p, "WaitCtrlC", 0, "waitC")
                    /\ UNCHANGED want
        PROVE  Stepped
    <3>1. inp.interrupted => inp'.interrupted
      BY <2>5, PolledHeeds DEF HoldsCtrlC
    <3>2. CASE HoldsCtrlC(p, i)
      BY <1>8, <2>1, <2>5, <3>1, <3>2
    <3>3. CASE ~HoldsCtrlC(p, i)
      BY <1>7, <2>1, <2>5, <3>1, <3>3
    <3> QED BY <3>2, <3>3
  <2> QED BY <1>9, <2>2, <2>3, <2>4, <2>5 DEF Collect
<1>10. ASSUME ReadConsole(p) PROVE Stepped
  <2>1. UNCHANGED <<want, fg>>
    BY <1>10 DEF ReadConsole
  <2>2. CASE Return(p) /\ UNCHANGED <<t, kt, inp>>
    BY <1>4, <1>8, <2>1, <2>2
  <2>3. ASSUME ~t.killed[p], t.pgid[p] = fg, NEW i \in Poll,
               IF HasInput(i)
               THEN inp' \in ReadInput(i) /\ Return(p) /\ UNCHANGED <<t, kt>>
               ELSE inp' = i /\ BlockAt(p, "Console", 0, "read")
        PROVE  Stepped
    <3>1. inp.interrupted => inp'.interrupted
      BY <2>3, PolledHeeds
    <3>2. CASE HasInput(i)
      BY <1>4, <1>8, <2>1, <2>3, <3>1, <3>2
    <3>3. CASE ~HasInput(i)
      BY <1>7, <2>1, <2>3, <3>1, <3>3
    <3> QED BY <3>2, <3>3
  <2> QED BY <1>10, <2>2, <2>3 DEF ReadConsole
<1> QED BY <1>5, <1>6, <1>9, <1>10 DEF Kernel

(* The machine as it starts. *)
LEMMA BootedFamily ==
    ASSUME Counting
    PROVE  /\ Family(Booted.t, Booted.want, INIT) /\ Booted.at[INIT] = "start"
           /\ \A p \in Pid \ {INIT} : Booted.at[p] \notin InitPlaces
<1> DEFINE new == NewTable
           g == [kind |-> "New", pgid |-> 0]
           w == Insert(new, 0, g)
<1>1. /\ new \in Table
      /\ new.st = [p \in Pid |-> "Free"] /\ new.pgid = [p \in Pid |-> 0]
      /\ new.killed = [p \in Pid |-> FALSE]
      /\ new.ready = <<>> /\ new.current = 0 /\ new.next = 1 /\ new.console = <<INIT>>
  BY PidAssumption, SliceAssumption, InitIsPid DEF NewTable, Table, States, NewHolders, INIT
<1>2. TableOK(new)
  BY <1>1 DEF TableOK, Queued, NextFree, Held, IsChain, IsInjective, Range, INIT
<1>3. GroupOf(new, 0, g) = 1 /\ 1 \in 0..PIDMAX /\ 0 \in 0..PIDMAX /\ 1 \in Pid
  BY <1>1, PidAssumption, InitIsPid DEF GroupOf, Pid
<1> HIDE DEF new
<1>4. /\ w.st = [new.st EXCEPT ![1] = "Ready"] /\ w.pgid = [new.pgid EXCEPT ![1] = 1]
      /\ w.console = <<INIT>> /\ (w.next # 0 => w.next = 2)
  <2> HIDE DEF g
  <2>1. Inserted(new, 0, g, w)
    BY <1>1, <1>2, <1>3, InsertKeeps
  <2> HIDE DEF w
  <2>2. /\ w.st = [new.st EXCEPT ![new.next] = "Ready"]
        /\ w.pgid = [new.pgid EXCEPT ![new.next] = GroupOf(new, 0, g)]
        /\ w.console = new.console /\ (w.next # 0 => w.next = new.next + 1)
    BY <2>1 DEF Inserted
  <2>3. new.next = 1 /\ GroupOf(new, 0, g) = 1
    BY <1>1, <1>3
  <2>4. w.next # 0 => w.next = 2
    BY <2>2, <2>3
  <2> QED BY ZenonT(30), <1>1, <2>2, <2>3, <2>4
<1> HIDE DEF w, g
<1>5. \A p \in Pid : w.st[p] = IF p = INIT THEN "Ready" ELSE "Free"
  BY <1>1, <1>3, <1>4 DEF INIT
<1>6. Entries(w) = {INIT} /\ Alive(w) = {INIT} /\ w.pgid[INIT] = INIT /\ INIT \in Pid
  BY <1>1, <1>3, <1>4, <1>5 DEF Entries, Alive, INIT
<1>7. Born(w)
  <2>1. Cardinality({INIT}) = 1
    <3>1. {} \in SUBSET Pid /\ INIT \in Pid \ {} /\ {INIT} = {} \cup {INIT}
      BY <1>6
    <3> QED BY <3>1 DEF Counting
  <2>2. Cardinality(Entries(w)) <= MAX
    BY <1>6, <2>1, MaxAssumption
  <2>3. w.next # 0 => INIT < w.next
    BY <1>4 DEF INIT
  <2> QED BY <1>6, <2>2, <2>3 DEF Born
<1>8. Kin(w)
  BY <1>6 DEF Kin
<1>9. Awaited(w, Booted.want) /\ Readers(w, INIT)
  BY <1>5 DEF Awaited, InWait, Readers
<1>10. Front(w, INIT)
  <2>1. Foreground(<<INIT>>) = INIT
    BY DEF Foreground
  <2> QED BY <1>4, <2>1 DEF Front, INIT
<1>11. Booted.t = w
  BY DEF Booted, w, new, g
<1>12. Booted.at[INIT] = "start" /\ \A p \in Pid \ {INIT} : Booted.at[p] \notin InitPlaces
  BY <1>6 DEF Booted, InitPlaces
<1> QED BY <1>7, <1>8, <1>9, <1>10, <1>11, <1>12 DEF Family

(* The machine restarts. *)
LEMMA RebootSteps == ASSUME Counting, Reboot PROVE Stepped
<1>1. IInv' /\ Family(t', want', fg')
  BY RebootKeeps, BootedFamily DEF Reboot
<1>2. at'[INIT] = "start" /\ Roles' /\ ShellIsInits' /\ AtScreen'
  BY BootedFamily DEF Reboot, Roles, InitPlaces, ShellIsInits, AtScreen
<1>3. KInv'
  BY <1>1, <1>2 DEF KInv
<1> QED BY <1>2, <1>3 DEF Stepped, Heeded, Reboot

(* The console is handed on without losing a Ctrl-C. *)
LEMMA TakeConsoleHeeds ==
    ASSUME KInv, NEW s, NEW give, NEW line \in BOOLEAN, TakeConsole(s, give, line)
    PROVE  Heeded
<1>1. inp' = inp \/ inp' \in SetLineMode(inp, TRUE)
  BY ZenonT(30) DEF TakeConsole
<1> QED BY ZenonT(30), <1>1, LineModeHeeds DEF Heeded

(* So is a child started. *)
LEMMA StartChildHeeds ==
    ASSUME KInv, NEW p, NEW g, NEW front \in BOOLEAN, StartChild(p, g, front) PROVE Heeded
<1>1. CASE front
  <2>1. TakeConsole(Insert(t, p, g), GiveConsole(Insert(t, p, g), p, t.next), TRUE)
    BY ZenonT(30), <1>1 DEF StartChild
  <2> QED BY ZenonT(30), <2>1, TakeConsoleHeeds
<1>2. CASE ~front
  BY <1>2 DEF StartChild, Heeded
<1> QED BY <1>1, <1>2

(* System calls.  At the error screen no program makes any. *)
LEMMA CallSteps == ASSUME Counting, KInv, NEW p \in Pid, Call(p) PROVE Stepped
<1>1. /\ IInv' /\ TableOK(t) /\ Settled(t) /\ want \in [Pid -> 0..PIDMAX]
      /\ inp \in TtyInputs /\ fg \in Pid /\ Family(t, want, fg)
      /\ Settled(t') /\ t'.ready \in Seq(Pid) /\ IsInjective(t'.ready) /\ t.ready \in Seq(Pid)
  <2>1. IInv'
    BY CallKeeps DEF KInv
  <2>2. Settled(t') /\ t'.ready \in Seq(Pid) /\ IsInjective(t'.ready)
    BY <2>1 DEF IInv, Settled, Sound, TableOK, Table, Queued
  <2> QED BY ZenonT(30), <2>1, <2>2 DEF KInv, IInv, Settled, Sound, TypeOK, TableOK, Table
<1>2. t.current = p /\ at[p] = "user"
  BY ZenonT(30) DEF Call, Spawn, Exit, KillCall, Wait, WaitNoHang, AskCtrlC, Read, ReadNothing,
         ConsoleMode, ConsoleForeground, Sleep, OtherCall, Power, Runs
<1>3. p \in Pid \ {INIT} /\ ~t.killed[p] /\ p \in Alive(t)
  BY <1>2, RunningIsNot DEF KInv, Roles, InitPlaces, IInv, UserIsCurrent
<1>4. at[INIT] # "screen"
  BY <1>3 DEF KInv, AtScreen
<1>5. {"check", "ret", "wait", "waitC", "read"} \subseteq Places \ InitPlaces
  BY DEF Places, InitPlaces
<1>6. want = [want EXCEPT ![p] = want[p]] /\ INIT \in Pid
  BY <1>1, InitIsPid
<1>7. ASSUME NEW a \in {"ret", "wait", "waitC", "read"}, GoTo(p, a), Later(t, t'),
             NEW c, want' = [want EXCEPT ![p] = c], UNCHANGED fg, Heeded
      PROVE  Stepped
  BY ZenonT(30), <1>1, <1>2, <1>3, <1>5, <1>7, GoesOn
<1>8. ASSUME Return(p), Later(t, t'), UNCHANGED <<want, fg>>, Heeded PROVE Stepped
  BY <1>6, <1>7, <1>8 DEF Return
<1>9. ASSUME Return(p), UNCHANGED want, Family(t', want, fg'), Heeded,
             Children(t, INIT) \subseteq Children(t', INIT), Extends(t.ready, t'.ready)
      PROVE  Stepped
  <2>1. KInv'
    BY ZenonT(30), <1>1, <1>3, <1>4, <1>5, <1>9, ProgramStep DEF Return
  <2>2. Advanced(t.ready, t'.ready)
    BY <1>1, <1>9, ExtendedAdvances
  <2> QED BY <1>9, <2>1, <2>2 DEF Stepped
<1>10. ASSUME NEW g \in SpawnGroups, NEW front \in BOOLEAN, Spawn(p, g, front)
       PROVE  Stepped
  <2>1. StartChild(p, g, front) /\ (front => g.kind = "New") /\ Return(p) /\ UNCHANGED want
    BY <1>10 DEF Spawn
  <2>2. /\ Family(t', want, fg') /\ Children(t, INIT) \subseteq Children(t', INIT)
        /\ Extends(t.ready, t'.ready)
    BY <1>1, <1>2, <2>1, StartChildFamily
  <2>3. Heeded
    BY <2>1, StartChildHeeds
  <2> QED BY <1>9, <2>1, <2>2, <2>3
<1>11. ASSUME Exit(p) PROVE Stepped
  BY <1>1, <1>2, <1>3, <1>11, Ends DEF Exit
<1>12. ASSUME NEW kind, NEW n, KillCall(p, kind, n) PROVE Stepped
  <2>1. Target(t, kind, n) \in SUBSET Pid
    BY DEF Target, Entries
  <2>2. Stirred(t, t')
    BY <1>1, <1>12, <2>1, KillStirs DEF KillCall
  <2>3. Later(t, t') /\ Return(p) /\ UNCHANGED <<want, fg>> /\ Heeded
    BY <1>1, <1>12, <2>2, StirredIsLater DEF KillCall, Heeded
  <2> QED BY <1>8, <2>3
<1>13. ASSUME NEW c, NEW a \in {"wait", "waitC"}, Wait(p, c, a) PROVE Stepped
  <2>1. GoTo(p, a) /\ UNCHANGED <<t, fg, inp>> /\ want' = [want EXCEPT ![p] = c]
    BY <1>13 DEF Wait
  <2>2. Later(t, t') /\ Heeded
    BY <2>1, SameIsLater DEF Heeded
  <2> QED BY ZenonT(30), <1>7, <2>1, <2>2
<1>14. ASSUME NEW c, WaitNoHang(p, c) PROVE Stepped
  <2>1. Return(p) /\ UNCHANGED <<want, fg, inp>>
    BY <1>14 DEF WaitNoHang
  <2>2. CASE Ended(t, p, c) = {}
    <3>1. UNCHANGED t
      BY <1>14, <2>2 DEF WaitNoHang
    <3>2. Later(t, t') /\ Heeded
      BY <2>1, <3>1, SameIsLater DEF Heeded
    <3> QED BY <1>8, <2>1, <3>2
  <2>3. CASE Ended(t, p, c) # {}
    <3>1. t' = Reap(t, First(Ended(t, p, c))) /\ want' = [want EXCEPT ![p] = want[p]]
      BY <1>3, <1>6, <1>14, <2>1, <2>3 DEF WaitNoHang
    <3>2. Family(t', want', fg') /\ Continues(t, t') /\ Advanced(t.ready, t'.ready)
      BY ZenonT(30), <1>2, <1>3, <2>1, <2>3, <3>1, Reaps
    <3>3. KInv'
      BY <1>1, <1>3, <1>5, <2>1, <3>2, ProgramStep DEF Continues, Return
    <3> QED BY <2>1, <3>2, <3>3 DEF Stepped, Heeded
  <2> QED BY <2>2, <2>3
<1>15. ASSUME AskCtrlC(p) PROVE Stepped
  <2>1. PICK i \in Poll : inp' \in IF HoldsCtrlC(p, i) THEN TakeRawCtrlC(i) ELSE {i}
    BY <1>15 DEF AskCtrlC
  <2>2. inp.interrupted => inp'.interrupted
    BY <2>1, PolledHeeds DEF HoldsCtrlC
  <2>3. Later(t, t') /\ Return(p) /\ UNCHANGED <<want, fg>> /\ Heeded
    BY <1>15, <2>2, SameIsLater DEF AskCtrlC, Heeded
  <2> QED BY <1>8, <2>3
<1>16. ASSUME Read(p) PROVE Stepped
  <2>1. GoTo(p, "read") /\ Later(t, t') /\ UNCHANGED <<want, fg>> /\ Heeded
    BY <1>16, SameIsLater DEF Read, Heeded
  <2> QED BY <1>6, <1>7, <2>1
<1>17. ASSUME ReadNothing(p) PROVE Stepped
  <2>1. inp.interrupted => inp'.interrupted
    BY <1>17, PolledHeeds DEF ReadNothing
  <2>2. Later(t, t') /\ Return(p) /\ UNCHANGED <<want, fg>> /\ Heeded
    BY <1>17, <2>1, SameIsLater DEF ReadNothing, Heeded
  <2> QED BY <1>8, <2>2
<1>18. ASSUME NEW line \in BOOLEAN, ConsoleMode(p, line) PROVE Stepped
  <2>1. Stirred(t, t')
    BY <1>1, <1>18, WakeOpsStir DEF ConsoleMode
  <2>2. Later(t, t') /\ Return(p) /\ UNCHANGED <<want, fg>>
    BY <1>1, <1>18, <2>1, StirredIsLater DEF ConsoleMode
  <2>3. Heeded
    BY <1>18, LineModeHeeds DEF ConsoleMode, Heeded
  <2> QED BY <1>8, <2>2, <2>3
<1>19. ASSUME NEW g \in Pid, ConsoleForeground(p, g) PROVE Stepped
  <2>1. /\ TakeConsole(t, Give(t.console, t.pgid[p], g, Groups(t)), FALSE)
        /\ HasGroup(t, g) /\ Return(p) /\ UNCHANGED want
    BY ZenonT(30), <1>19 DEF ConsoleForeground, GiveConsole
  <2>2. g \in Groups(t)
    BY ZenonT(30), <2>1 DEF HasGroup, Groups, Alive
  <2>3. /\ Family(t', want, fg') /\ Children(t', INIT) = Children(t, INIT)
        /\ Extends(t.ready, t'.ready)
    BY ZenonT(30), <1>1, <2>1, <2>2, TakeConsoleFamily
  <2>4. Heeded
    BY ZenonT(30), <2>1, TakeConsoleHeeds
  <2> QED BY ZenonT(30), <1>9, <2>1, <2>3, <2>4
<1>20. ASSUME NEW ticks \in 1..SLEEPMAX, Sleep(p, ticks) PROVE Stepped
  <2>1. "Sleep" \in Blocked /\ ticks + 1 \in Nat
    BY SleepAssumption DEF Blocked
  <2>2. BlockAt(p, "Sleep", ticks + 1, "ret") /\ UNCHANGED <<want, fg, inp>>
    BY <1>20 DEF Sleep
  <2>3. /\ Family(t', want', fg') /\ Continues(t, t')
        /\ Advanced(t.ready, t'.ready) /\ GoTo(p, "ret")
    BY <1>1, <1>2, <1>3, <2>1, <2>2, Blocks
  <2>4. KInv'
    BY <1>1, <1>3, <1>5, <2>2, <2>3, ProgramStep DEF Continues
  <2> QED BY <2>2, <2>3, <2>4 DEF Stepped, Heeded
<1>21. ASSUME OtherCall(p) PROVE Stepped
  <2>1. Later(t, t') /\ Return(p) /\ UNCHANGED <<want, fg>> /\ Heeded
    BY <1>21, SameIsLater DEF OtherCall, Heeded
  <2> QED BY <1>8, <2>1
<1>22. ASSUME Power(p) PROVE Stepped
  BY <1>22, RebootSteps DEF Power
<1> QED
  BY <1>10, <1>11, <1>12, <1>13, <1>14, <1>15, <1>16, <1>17, <1>18, <1>19, <1>20, <1>21,
     <1>22 DEF Call

(* Process 1 takes a step. *)
LEMMA InitStep ==
    ASSUME KInv, IInv', NEW a \in InitPlaces, GoTo(INIT, a), Family(t', want', fg'),
           a \in {"find", "any"} => want'[INIT] \in Children(t', INIT),
           a = "screen" => fg' = INIT /\ \A p \in Alive(t') \ {INIT} : t'.killed[p],
           Advanced(t.ready, t'.ready), Heeded
    PROVE  Stepped
<1>1. at \in [Pid -> Places] /\ INIT \in Pid /\ at' = [at EXCEPT ![INIT] = a]
  BY InitIsPid DEF KInv, IInv, TypeOK, GoTo
<1>2. at'[INIT] = a /\ Roles'
  BY <1>1 DEF KInv, Roles
<1>3. ShellIsInits' /\ AtScreen'
  BY <1>2 DEF ShellIsInits, AtScreen
<1> QED BY <1>2, <1>3 DEF KInv, Stepped

(* The error screen: every other process is killed, and the console is     *)
(* process 1's.                                                            *)
LEMMA ErrorScreenSteps == ASSUME Counting, KInv, ErrorScreen PROVE Stepped
<1> DEFINE killed == KillAllButInit(t)
           mine == [killed EXCEPT !.console = Reset(@)]
<1>1. /\ t' = WakeAll(mine, "Console", 0) /\ fg' = Foreground(mine.console)
      /\ GoTo(INIT, "screen") /\ want' = [want EXCEPT ![INIT] = 0]
  BY ZenonT(30) DEF ErrorScreen
<1>2. TableOK(t) /\ Settled(t) /\ INIT \in Pid /\ want \in [Pid -> 0..PIDMAX]
  BY InitIsPid DEF KInv, IInv, Settled, Sound, TypeOK
<1>3. Stirred(t, killed) /\ \A p \in Alive(t) \ {INIT} : killed.killed[p]
  BY <1>2, KillStirs
<1> HIDE DEF killed
<1>4. Settled(killed) /\ TableOK(killed)
  BY <1>2, <1>3, StirredSound DEF Settled, Sound
<1>5. Later(t, killed)
  BY <1>2, <1>3, StirredIsLater
<1>6. Family(killed, want, fg)
  BY <1>5, LaterFamily DEF KInv
<1>7. Reset(killed.console) = <<INIT>>
  <2> DEFINE c == killed.console
  <2>1. c \in Seq(Pid) /\ Len(c) \in Nat /\ Len(c) >= 1 /\ c[1] = INIT
    BY <1>4, SeqShape DEF TableOK, Table, Held, IsChain
  <2> HIDE DEF c
  <2>2. SubSeq(c, 1, 1) = <<c[1]>>
    <3>1. SubSeq(c, 1, 1) = [i \in 1..1 |-> c[i]]
      BY <2>1
    <3>2. <<c[1]>> = [i \in 1..1 |-> c[i]]
      BY <2>1
    <3> QED BY ZenonT(30), <3>1, <3>2
  <2> QED BY <2>1, <2>2 DEF Reset, c
<1>8. <<INIT>> \in Seq(Pid) /\ IsChain(<<INIT>>) /\ Foreground(<<INIT>>) = INIT
  BY <1>2 DEF IsChain, IsInjective, Foreground
<1>9. mine = [killed EXCEPT !.console = <<INIT>>] /\ mine.console = <<INIT>>
  BY <1>4, <1>7 DEF TableOK, Table
<1> HIDE DEF mine
<1>10. Handed(killed, <<INIT>>, t') /\ \A p \in Pid : t'.st[p] # "Console"
  BY ZenonT(30), <1>1, <1>4, <1>6, <1>8, <1>9, ReadersHanded DEF Settled, Family
<1>11. fg' = INIT
  BY <1>1, <1>8, <1>9
<1>12. Family(t', want, fg')
  <2>1. Born(t') /\ Kin(t') /\ Awaited(t', want)
    BY <1>6, <1>10 DEF Handed, Family
  <2>2. Readers(t', fg')
    BY <1>10 DEF Readers
  <2>3. t'.next # 0 => INIT < t'.next
    BY <2>1 DEF Born, Kin, Alive
  <2>4. Front(t', fg')
    BY <1>8, <1>10, <1>11, <2>3 DEF Front, Handed
  <2> QED BY <2>1, <2>2, <2>4 DEF Family
<1>13. Family(t', want', fg')
  BY ZenonT(30), <1>1, <1>2, <1>12, WantFamily
<1>14. \A p \in Alive(t') \ {INIT} : t'.killed[p]
  <2>1. Alive(t') = Alive(t)
    BY <1>5, <1>10 DEF Handed, Later, Alive, Entries
  <2> QED BY <1>3, <1>10, <2>1 DEF Handed, Alive, Entries
<1>15. IInv'
  BY InitProcessKeeps DEF InitProcess, KInv
<1>16. Advanced(t.ready, t'.ready)
  <2>1. /\ t.ready \in Seq(Pid) /\ killed.ready \in Seq(Pid) /\ t'.ready \in Seq(Pid)
        /\ IsInjective(t'.ready)
    BY ZenonT(30), <1>2, <1>4, <1>15 DEF TableOK, Table, IInv, Settled, Sound, Queued
  <2>2. Extends(t.ready, killed.ready) /\ Extends(killed.ready, t'.ready)
    BY ZenonT(30), <1>3, <1>10 DEF Stirred, Handed
  <2> QED BY <2>1, <2>2, ExtendedAdvances
<1>17. at'[INIT] = "screen"
  BY <1>1, <1>2 DEF GoTo, KInv, IInv, TypeOK
<1> QED BY <1>1, <1>11, <1>13, <1>14, <1>15, <1>16, <1>17, InitStep DEF InitPlaces, Heeded

(* Process 1. *)
LEMMA InitProcessSteps == ASSUME Counting, KInv, InitProcess PROVE Stepped
<1>1. /\ IInv' /\ TableOK(t) /\ Settled(t) /\ want \in [Pid -> 0..PIDMAX] /\ fg \in Pid
      /\ INIT \in Pid /\ Family(t, want, fg) /\ ~t.killed[INIT]
  BY ZenonT(30), InitProcessKeeps, InitIsPid DEF KInv, IInv, Settled, Sound, TypeOK
<1>2. want = [want EXCEPT ![INIT] = want[INIT]]
  BY <1>1
<1>3. ASSUME UNCHANGED t PROVE Advanced(t.ready, t'.ready)
  BY <1>3, SameIsLater DEF Later
<1>4. ASSUME StartShell PROVE Stepped
  <2>1. /\ t.current = INIT /\ StartChild(INIT, NewGroup, TRUE) /\ GoTo(INIT, "find")
        /\ want' = [want EXCEPT ![INIT] = t.next]
    BY ZenonT(30), <1>4 DEF StartShell, Runs
  <2>2. NewGroup \in SpawnGroups /\ NewGroup.kind = "New"
    BY DEF NewGroup, SpawnGroups
  <2>3. /\ Settled(t') /\ t.ready \in Seq(Pid) /\ t'.ready \in Seq(Pid)
        /\ IsInjective(t'.ready)
    BY ZenonT(30), <1>1 DEF IInv, Settled, Sound, TableOK, Table, Queued
  <2>4. /\ Family(t', want, fg') /\ t.next \in Children(t', INIT)
        /\ Extends(t.ready, t'.ready)
    BY ZenonT(30), <1>1, <2>1, <2>2, <2>3, StartChildFamily
  <2>5. Family(t', want', fg')
    BY ZenonT(30), <1>1, <2>1, <2>4, WantFamily
  <2>6. Advanced(t.ready, t'.ready)
    BY <2>3, <2>4, ExtendedAdvances
  <2>7. want'[INIT] = t.next
    BY ZenonT(30), <1>1, <2>1
  <2>8. Heeded
    BY ZenonT(30), <2>1, StartChildHeeds
  <2> QED BY ZenonT(30), <1>1, <2>1, <2>4, <2>5, <2>6, <2>7, <2>8, InitStep DEF InitPlaces
<1>5. ASSUME FindShell PROVE Stepped
  <2> DEFINE ended == Ended(t, INIT, want[INIT])
  <2>1. /\ t.current = INIT /\ at[INIT] = "find" /\ UNCHANGED <<want, fg, inp>>
        /\ t' = IF ended = {} THEN t ELSE Reap(t, First(ended))
        /\ GoTo(INIT, IF ended = {} THEN "any" ELSE "ended")
    BY <1>5 DEF FindShell, Runs
  <2>2. Heeded
    BY <2>1 DEF Heeded
  <2>3. CASE ended = {}
    <3>1. Family(t', want', fg') /\ want'[INIT] \in Children(t', INIT)
      BY <1>1, <2>1, <2>3 DEF KInv, ShellIsInits
    <3> QED BY <1>1, <1>3, <2>1, <2>2, <2>3, <3>1, InitStep DEF InitPlaces
  <2>4. CASE ended # {}
    <3>1. Family(t', want', fg') /\ Advanced(t.ready, t'.ready)
      BY <1>1, <1>2, <2>1, <2>4, Reaps
    <3> QED BY <1>1, <2>1, <2>2, <2>4, <3>1, InitStep DEF InitPlaces
  <2> QED BY <2>3, <2>4
<1>6. ASSUME CollectAny PROVE Stepped
  <2> DEFINE ended == Ended(t, INIT, 0)
  <2>1. /\ t.current = INIT /\ at[INIT] = "any" /\ UNCHANGED <<want, fg, inp>>
        /\ Children(t, INIT) # {}
    BY <1>6 DEF CollectAny, Runs
  <2>2. Heeded
    BY <2>1 DEF Heeded
  <2>3. want[INIT] \in Children(t, INIT)
    BY <2>1 DEF KInv, ShellIsInits
  <2>4. CASE ended = {}
    <3>1. BlockAt(INIT, "Wait", 0, "any")
      BY <1>6, <2>4 DEF CollectAny
    <3>2. "Wait" \in Blocked /\ Awaits(INIT, want) = 0 /\ Mine(t, INIT, 0) # {} /\ 0 \in Nat
      BY <2>1 DEF Blocked, Awaits, Mine
    <3>3. /\ Family(t', want', fg') /\ Continues(t, t')
          /\ Advanced(t.ready, t'.ready) /\ GoTo(INIT, "any")
      BY <1>1, <2>1, <2>4, <3>1, <3>2, Blocks
    <3>4. want'[INIT] \in Children(t', INIT)
      BY <2>1, <2>3, <3>3 DEF Continues
    <3> QED BY <1>1, <2>2, <3>3, <3>4, InitStep DEF InitPlaces
  <2>5. CASE ended # {}
    <3>1. /\ t' = Reap(t, First(ended))
          /\ GoTo(INIT, IF First(ended) = want[INIT] THEN "ended" ELSE "any")
      BY <1>6, <2>5 DEF CollectAny
    <3>2. /\ Family(t', want', fg') /\ Advanced(t.ready, t'.ready)
          /\ Children(t, INIT) \ {First(ended)} \subseteq Children(t', INIT)
      BY <1>1, <1>2, <2>1, <2>5, <3>1, Reaps
    <3> HIDE DEF ended
    <3>3. First(ended) # want[INIT] => want'[INIT] \in Children(t', INIT)
      BY <2>1, <2>3, <3>2
    <3> QED BY <1>1, <2>2, <3>1, <3>2, <3>3, InitStep DEF InitPlaces
  <2> QED BY <2>4, <2>5
<1>7. ASSUME Again PROVE Stepped
  <2>1. /\ GoTo(INIT, "start") /\ want' = [want EXCEPT ![INIT] = 0]
        /\ UNCHANGED <<t, fg, inp>>
    BY <1>7 DEF Again
  <2>2. Family(t', want', fg') /\ Heeded
    BY ZenonT(30), <1>1, <2>1, WantFamily DEF Heeded
  <2> QED BY <1>1, <1>3, <2>1, <2>2, InitStep DEF InitPlaces
<1>8. ASSUME AwaitKey PROVE Stepped
  <2>1. PICK i \in Poll : IF HasInput(i) THEN Reboot
                          ELSE /\ inp' = i
                               /\ BlockAt(INIT, "Console", 0, "screen")
                               /\ UNCHANGED <<want, fg>>
    BY <1>8 DEF AwaitKey
  <2>2. CASE HasInput(i)
    BY <2>1, <2>2, RebootSteps
  <2>3. CASE ~HasInput(i)
    <3>1. t.current = INIT /\ at[INIT] = "screen"
      BY <1>8 DEF AwaitKey, Runs
    <3>2. fg = INIT /\ t.pgid[INIT] = fg /\ \A p \in Alive(t) \ {INIT} : t.killed[p]
      BY <1>1, <3>1 DEF KInv, AtScreen, Family, Born
    <3>3. "Console" \in Blocked /\ 0 \in Nat
      BY DEF Blocked
    <3>4. /\ Family(t', want', fg') /\ Continues(t, t')
          /\ Advanced(t.ready, t'.ready) /\ GoTo(INIT, "screen")
      BY <1>1, <2>1, <2>3, <3>1, <3>2, <3>3, Blocks
    <3>5. fg' = INIT /\ \A p \in Alive(t') \ {INIT} : t'.killed[p]
      BY <2>1, <2>3, <3>2, <3>4 DEF Continues
    <3>6. Heeded
      BY <3>2 DEF Heeded
    <3> QED BY <1>1, <3>4, <3>5, <3>6, InitStep DEF InitPlaces
  <2> QED BY <2>2, <2>3
<1> QED BY <1>4, <1>5, <1>6, <1>7, <1>8, ErrorScreenSteps DEF InitProcess

(* Every step. *)
LEMMA NextSteps == ASSUME Counting, KInv, Next PROVE Stepped
  BY CallSteps, KernelSteps, InitProcessSteps, IdleSteps, TimerSteps DEF Next, System

-----------------------------------------------------------------------------
(* The facts about counting that the lemmas assume. *)
INSTANCE FiniteSetTheorems

LEMMA CountingHolds == Counting
<1>1. ASSUME NEW S \in SUBSET Pid PROVE IsFiniteSet(S)
  <2>1. 1 \in Int /\ PIDMAX \in Int
    BY PidAssumption
  <2>2. IsFiniteSet(Pid)
    BY <2>1, FS_Interval DEF Pid
  <2> QED BY <2>2, FS_Subset
<1>2. Cardinality({}) = 0
  BY FS_EmptySet
<1>3. ASSUME NEW S \in SUBSET Pid PROVE Cardinality(S) \in Nat /\ Enumerations(S) # {}
  BY <1>1, FS_CardinalityType DEF Enumerations, ExistsBijection
<1>4. ASSUME NEW S \in SUBSET Pid, NEW x \in Pid \ S
      PROVE  Cardinality(S \cup {x}) = Cardinality(S) + 1
  BY <1>1, FS_AddElement
<1>5. ASSUME NEW S \in SUBSET Pid, NEW T \in SUBSET S
      PROVE  Cardinality(T) <= Cardinality(S)
  BY <1>1, FS_Subset
<1>6. ASSUME NEW S \in SUBSET Pid, NEW T \in SUBSET Pid, Surjection(S, T) # {}
      PROVE  Cardinality(T) <= Cardinality(S)
  BY <1>1, <1>6, FS_Surjection
<1>7. ASSUME NEW c \in Seq(Pid), IsInjective(c)
      PROVE  Cardinality(Range(c)) = Len(c)
  <2>1. Len(c) \in Nat /\ DOMAIN c = 1..Len(c) /\ c \in [1..Len(c) -> Range(c)]
    BY SeqShape DEF Range
  <2>2. c \in Bijection(1..Len(c), Range(c))
    BY <1>7, <2>1 DEF Bijection, Injection, Surjection, Range
  <2> QED BY <2>1, <2>2, FS_CountingElements DEF ExistsBijection
<1> QED BY <1>2, <1>3, <1>4, <1>5, <1>6, <1>7 DEF Counting

(* The inductive invariant: the types, a sound table whose running process *)
(* is the current one, and no killed process in its program.               *)
THEOREM Inductive == Spec => []IInv
<1>1. Init => IInv
  <2> SUFFICES ASSUME Init PROVE IInv
    OBVIOUS
  <2>1. /\ Settled(t) /\ at \in [Pid -> Places \ {"user"}]
        /\ want \in [Pid -> 0..PIDMAX]
    BY BootedSettled DEF Init
  <2>2. kt \in 0..KTMAX /\ fg \in Pid /\ inp \in TtyInputs
    BY KtAssumption, InitIsPid DEF Init, NewInput, TtyInputs
  <2> QED BY <2>1, <2>2 DEF IInv, TypeOK, UserIsCurrent, Settled, Sound, TableOK
<1>2. IInv /\ [Next]_vars => IInv'
  <2> SUFFICES ASSUME IInv, [Next]_vars PROVE IInv'
    OBVIOUS
  <2>1. CASE UNCHANGED vars
    BY <2>1 DEF IInv, TypeOK, UserIsCurrent, vars
  <2>2. CASE Next
    BY <2>2, CountingHolds, CallKeeps, KernelKeeps, InitProcessKeeps, IdleKeeps, TimerKeeps
       DEF Next, System
  <2> QED BY <2>1, <2>2
<1> QED BY <1>1, <1>2, PTL DEF Spec

-----------------------------------------------------------------------------
(* The variables keep their types. *)
THEOREM TypeCorrect == Spec => []TypeOK
<1>1. IInv => TypeOK
  BY DEF IInv
<1> QED BY <1>1, Inductive, PTL

(* The run queue is exact: the scheduler forgets no ready process, runs    *)
(* none twice, and the running one is the current one.                     *)
THEOREM QueueIsExact == Spec => []QueueExact
<1>1. IInv => QueueExact
  BY InitIsPid DEF IInv, Settled, Sound, TableOK, Queued, QueueExact
<1> QED BY <1>1, Inductive, PTL

(* A killed process never stays blocked and runs no instruction of its     *)
(* program.                                                                *)
THEOREM KilledProcessesOnlyEnd == Spec => []KilledOnlyEnds
<1>1. IInv => KilledNeverBlocked
  BY DEF IInv, Settled, Sound, KilledNeverBlocked
<1>2. IInv => NoProgramAfterKill
  <2> SUFFICES ASSUME IInv, t.current # 0, at[t.current] = "user"
               PROVE  ~t.killed[t.current]
    BY DEF NoProgramAfterKill
  <2>1. t.current \in Pid
    BY DEF IInv, TypeOK, Table, Pid
  <2> QED BY <2>1 DEF IInv, UserIsCurrent
<1>3. IInv => KilledOnlyEnds   BY <1>1, <1>2 DEF KilledOnlyEnds
<1> QED BY <1>3, Inductive, PTL

(* The inductive invariant: beside what Inductive says, that the processes *)
(* are a family, that process 1 and the programs are each at places of     *)
(* their own, that process 1 has its shell, and what the error screen      *)
(* leaves.                                                                 *)
THEOREM FamilyInductive == Spec => []KInv
<1>1. Init => KInv
  <2> SUFFICES ASSUME Init PROVE KInv
    OBVIOUS
  <2>1. IInv
    <3>1. /\ Settled(t) /\ at \in [Pid -> Places \ {"user"}]
          /\ want \in [Pid -> 0..PIDMAX]
      BY BootedSettled DEF Init
    <3>2. kt \in 0..KTMAX /\ fg \in Pid /\ inp \in TtyInputs
      BY KtAssumption, InitIsPid DEF Init, NewInput, TtyInputs
    <3> QED BY <3>1, <3>2 DEF IInv, TypeOK, UserIsCurrent, Settled, Sound, TableOK
  <2>2. Family(t, want, fg) /\ at[INIT] = "start" /\ Roles
    BY CountingHolds, BootedFamily DEF Init, Roles, InitPlaces
  <2>3. ShellIsInits /\ AtScreen
    BY <2>2 DEF ShellIsInits, AtScreen
  <2> QED BY <2>1, <2>2, <2>3 DEF KInv
<1>2. KInv /\ [Next]_vars => KInv'
  <2> SUFFICES ASSUME KInv, [Next]_vars PROVE KInv'
    OBVIOUS
  <2>1. CASE UNCHANGED vars
    <3>1. IInv'
      BY <2>1 DEF KInv, IInv, TypeOK, UserIsCurrent, vars
    <3>2. Family(t', want', fg') /\ Roles' /\ ShellIsInits' /\ AtScreen'
      BY <2>1 DEF KInv, Roles, ShellIsInits, AtScreen, vars
    <3> QED BY <3>1, <3>2 DEF KInv
  <2>2. CASE Next
    BY <2>2, CountingHolds, NextSteps DEF Stepped
  <2> QED BY <2>1, <2>2
<1> QED BY <1>1, <1>2, PTL DEF Spec

-----------------------------------------------------------------------------
(* What follows. *)

(* No exit is lost: every process has a parent that lives to collect it,   *)
(* and who blocks in wait has a child to wait for and none that ended.     *)
THEOREM NoExitIsLost == Spec => []NoLostExit
<1>1. KInv => NoLostExit
  <2> SUFFICES ASSUME KInv PROVE NoLostExit
    OBVIOUS
  <2>1. ParentAlive
    BY DEF KInv, Family, Kin, ParentAlive
  <2>2. \A p \in Pid : WaitsFor(p) = Awaits(p, want)
    BY DEF WaitsFor, Awaits
  <2> QED BY <2>1, <2>2 DEF KInv, Family, Awaited, NoLostExit
<1> QED BY <1>1, FamilyInductive, PTL

(* While process 1 waits for its shell, the shell is its child: the expect *)
(* in init.rs's run never fails.                                           *)
THEOREM ShellStaysInits == Spec => []ShellIsInits
<1>1. KInv => ShellIsInits
  BY DEF KInv
<1> QED BY <1>1, FamilyInductive, PTL

(* The readers of the console, the chain of its holders and the terminal   *)
(* agree on whose it is.                                                   *)
THEOREM ConsoleIsOneGroups == Spec => []ConsoleAgrees
<1>1. KInv => ConsoleAgrees
  <2> SUFFICES ASSUME KInv PROVE ConsoleAgrees
    OBVIOUS
  <2>1. ReaderHasConsole
    BY DEF KInv, Family, Readers, ReaderHasConsole
  <2>2. HasGroup(t, fg) => fg \in Groups(t)
    BY DEF HasGroup, Groups, Alive
  <2>3. ForegroundAgrees
    BY <2>2 DEF KInv, Family, Front, ForegroundAgrees
  <2> QED BY <2>1, <2>3 DEF ConsoleAgrees
<1> QED BY <1>1, FamilyInductive, PTL

(* The chain of holders is well formed, and never too short for a group    *)
(* that is given the console.                                              *)
THEOREM ChainHasRoom == Spec => []HoldersHaveRoom
<1>1. KInv => HoldersHaveRoom
  <2> SUFFICES ASSUME KInv PROVE HoldersHaveRoom
    OBVIOUS
  <2>1. TableOK(t) /\ Born(t) /\ INIT \in Alive(t)
    BY DEF KInv, IInv, Settled, Sound, Family, Kin
  <2>2. t.console # <<>> /\ Head(t.console) = INIT /\ IsInjective(t.console)
    BY <2>1 DEF TableOK, Held, IsChain
  <2>3. ASSUME NEW p \in Alive(t), NEW g \in Groups(t)
        PROVE  GiveConsole(t, p, g).err # "EAGAIN"
    BY <2>1, CountingHolds, RoomForAll DEF GiveConsole
  <2> QED BY <2>2, <2>3 DEF HoldersHaveRoom
<1> QED BY <1>1, FamilyInductive, PTL

(* The run queue is first in, first out, unless the machine restarts. *)
THEOREM QueueIsFair == Spec => NoOvertaking
<1> DEFINE InOrderStill == \A p \in Range(t.ready) \cap Range(t'.ready) :
                      Position(t'.ready, p) <= Position(t.ready, p) \/ t' = Booted.t
<1>1. ASSUME KInv, KInv', Next PROVE InOrderStill
  <2>1. /\ t.ready \in Seq(Pid) /\ t'.ready \in Seq(Pid)
        /\ IsInjective(t.ready) /\ IsInjective(t'.ready)
    BY <1>1 DEF KInv, IInv, Settled, Sound, TableOK, Table, Queued
  <2>2. Advanced(t.ready, t'.ready) \/ t' = Booted.t
    BY <1>1, CountingHolds, NextSteps DEF Stepped
  <2> QED BY <2>1, <2>2, AdvancedOvertakesNone
<1>2. KInv /\ KInv' /\ [Next]_vars => [InOrderStill]_vars
  BY <1>1
<1> QED BY <1>2, FamilyInductive, PTL DEF Spec, NoOvertaking

(* A Ctrl-C typed in line mode ends the foreground group or waits as raw   *)
(* input, unless the console is process 1's or the error screen comes.     *)
THEOREM CtrlCIsHeeded == Spec => CtrlCReaches
<1>1. KInv /\ [Next]_vars => [Heeded]_vars
  BY CountingHolds, NextSteps DEF Stepped
<1> QED BY <1>1, FamilyInductive, PTL DEF Spec, CtrlCReaches, Heeded
=============================================================================
