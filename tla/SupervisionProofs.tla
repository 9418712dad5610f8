------------------------- MODULE SupervisionProofs -------------------------
(***************************************************************************)
(* Proofs about the supervisors of a queue, for any number of them and     *)
(* every setting in which one gives up before its row expires (MaxFailures *)
(* < SupervisorTtl); and about the workers one of them spawns, for any     *)
(* number of them and any setting of the health check: a restart is        *)
(* neither counted as a crash nor triggered by answers about another       *)
(* worker.                                                                 *)
(***************************************************************************)
EXTENDS Supervision, TLAPS

\* A supervisor that runs and was never suspended holds the row, unless its process is
\* cleaning up; and the row it holds is no older than the refreshes that have failed or
\* are due: this is what keeps it from expiring.
Watches(s) == Sup!Running(s) /\ ~stalled[s]
Keeps(s) ==
  /\ holder = s \/ Sup!CleansUp(s)
  /\ holder = s => idle <= failures[s] + (IF due[s] THEN 1 ELSE 0)
KeepsRow == \A s \in Supervisors : Watches(s) => Keeps(s)

\* Only these phases leave a worker untold.
UpWhile ==
  \A s \in Supervisors :
    worker[s] = "up" => (supPhase[s] \in {"running", "releasing", "killed"} \/ Sup!CleansUp(s))

HandoverInv == Sup!TypeOK /\ KeepsRow /\ UpWhile

LEMMA SupLimits ==
  ASSUME Sup!SupervisorConstants
  PROVE  /\ SupervisorTtl \in Nat /\ MaxFailures \in Nat
         /\ MaxFailures > 0 /\ MaxFailures + 1 <= SupervisorTtl
         /\ NoSupervisor \notin Supervisors
  BY SMT DEF Sup!SupervisorConstants

LEMMA SupInit == ASSUME Sup!SupervisorConstants PROVE Sup!Init => HandoverInv
<1> SUFFICES ASSUME Sup!Init PROVE HandoverInv
  OBVIOUS
<1>1. Sup!TypeOK
  BY SupLimits DEF Sup!Init, Sup!TypeOK, Sup!Phase
<1>2. KeepsRow /\ UpWhile
  BY DEF Sup!Init, KeepsRow, Watches, Sup!Running, UpWhile
<1> QED
  BY <1>1, <1>2 DEF HandoverInv

-----------------------------------------------------------------------------
\* One lemma per conjunct.

LEMMA TypeStep ==
  ASSUME Sup!SupervisorConstants, Sup!TypeOK, [Sup!Next]_(Sup!vars) PROVE Sup!TypeOK'
<1>0. /\ SupervisorTtl \in Nat /\ MaxFailures \in Nat
      /\ MaxFailures > 0 /\ MaxFailures + 1 <= SupervisorTtl
      /\ NoSupervisor \notin Supervisors
  BY SupLimits
<1> USE <1>0 DEF Sup!TypeOK, Sup!Set
<1>1. ASSUME NEW s \in Supervisors,
             \/ Sup!Start(s) \/ Sup!Spawn(s) \/ Sup!WorkerEnds(s) \/ Sup!Refresh(s)
             \/ Sup!Stall(s)
      PROVE  Sup!TypeOK'
  <2>1. CASE Sup!Start(s)
    BY <2>1 DEF Sup!Start, Sup!Goes, Sup!Phase
  <2>2. CASE Sup!Spawn(s) \/ Sup!WorkerEnds(s) \/ Sup!Stall(s)
    BY <2>2 DEF Sup!Spawn, Sup!WorkerEnds, Sup!Stall, Sup!row
  <2>3. CASE Sup!Refresh(s)
    <3>1. failures' \in [Supervisors -> 0..(MaxFailures - 1)] /\ idle' \in 0..(SupervisorTtl + 1)
      BY <2>3 DEF Sup!Refresh
    <3> QED
      BY <2>3, <3>1 DEF Sup!Refresh
  <2> QED
    BY <1>1, <2>1, <2>2, <2>3
<1>2. ASSUME NEW s \in Supervisors, Sup!RefreshFails(s)
      PROVE  Sup!TypeOK'
  <2>1. failures[s] + 1 \in 0..(MaxFailures - 1)
    BY <1>2 DEF Sup!RefreshFails, Sup!LastFailure
  <2> QED
    BY <1>2, <2>1 DEF Sup!RefreshFails, Sup!row
<1>3. ASSUME NEW s \in Supervisors,
             \/ Sup!LoseLock(s) \/ Sup!Interrupt(s) \/ Sup!Terminate(s)
             \/ Sup!CleanUpOver(s) \/ Sup!Crash(s)
      PROVE  Sup!TypeOK'
  <2>1. PICK ph \in {"releasing", "gone", "killed"} : Sup!Leaves(s, ph)
    BY <1>3 DEF Sup!LoseLock, Sup!Interrupt, Sup!Terminate, Sup!CleanUpOver, Sup!Crash
  <2>2. /\ supPhase' \in [Supervisors -> Sup!Phase] /\ failures' \in [Supervisors -> 0..(MaxFailures - 1)]
        /\ due' \in [Supervisors -> BOOLEAN]
    BY <2>1 DEF Sup!Leaves, Sup!Goes, Sup!Phase
  <2>3. exiting' \in [Supervisors -> {"none", "SIGHUP", "SIGTERM"}]
    BY <1>3 DEF Sup!LoseLock, Sup!Interrupt, Sup!Terminate, Sup!CleanUpOver, Sup!Crash
  <2> QED
    BY <1>3, <2>2, <2>3 DEF Sup!LoseLock, Sup!Interrupt, Sup!Terminate, Sup!CleanUpOver,
                            Sup!Crash, Sup!row
<1>4. ASSUME NEW s \in Supervisors,
             \/ Sup!HangUp(s) \/ Sup!DeleteRow(s) \/ Sup!Release(s) \/ Sup!Exit(s)
             \/ Sup!Kill(s)
      PROVE  Sup!TypeOK'
  BY <1>4 DEF Sup!HangUp, Sup!DeleteRow, Sup!Release, Sup!Exit, Sup!Kill, Sup!Goes, Sup!row,
              Sup!Phase
<1>5. ASSUME Sup!Tick PROVE Sup!TypeOK'
  <2>1. idle' \in 0..(SupervisorTtl + 1)
    BY <1>5 DEF Sup!Tick
  <2>2. due' \in [Supervisors -> BOOLEAN]
    BY <1>5 DEF Sup!Tick, Sup!Running
  <2> QED
    BY <1>5, <2>1, <2>2 DEF Sup!Tick
<1>6. ASSUME UNCHANGED Sup!vars PROVE Sup!TypeOK'
  BY <1>6 DEF Sup!vars, Sup!row
<1> QED
  BY <1>1, <1>2, <1>3, <1>4, <1>5, <1>6 DEF Sup!Next

\* An expired row, or a dead holder's, is not that of a supervisor that watches it.
LEMMA NotTaken ==
  ASSUME Sup!SupervisorConstants, Sup!TypeOK, KeepsRow,
         NEW s \in Supervisors, Watches(s), holder = s
  PROVE  ~Sup!LockFree
<1>1. holder # NoSupervisor /\ ~Sup!Over(holder)
  BY SupLimits DEF Watches, Sup!Running, Sup!Over
<1>2. idle <= failures[s] + 1
  BY DEF KeepsRow, Keeps, Sup!TypeOK
<1>3. failures[s] \in 0..(MaxFailures - 1) /\ idle \in Nat
  BY SupLimits DEF Sup!TypeOK
<1>4. ~(idle > SupervisorTtl)
  BY <1>2, <1>3, SupLimits
<1> QED
  BY <1>1, <1>4 DEF Sup!LockFree

\* Only Start makes a supervisor run.
LEMMA WatchedBefore ==
  ASSUME Sup!TypeOK, NEW s \in Supervisors, Watches(s)', [Sup!Next]_(Sup!vars)
  PROVE  Sup!Start(s) \/ Watches(s)
<1> USE DEF Sup!TypeOK, Sup!Set, Watches, Sup!Running
<1>1. ASSUME NEW t \in Supervisors,
             \/ Sup!Spawn(t) \/ Sup!WorkerEnds(t) \/ Sup!Refresh(t) \/ Sup!RefreshFails(t)
             \/ Sup!Stall(t) \/ Sup!HangUp(t) \/ Sup!DeleteRow(t)
      PROVE  Watches(s)
  BY <1>1 DEF Sup!Spawn, Sup!WorkerEnds, Sup!Refresh, Sup!RefreshFails, Sup!Stall,
              Sup!HangUp, Sup!DeleteRow
<1>2. ASSUME NEW t \in Supervisors,
             \/ Sup!LoseLock(t) \/ Sup!Interrupt(t) \/ Sup!Terminate(t)
             \/ Sup!CleanUpOver(t) \/ Sup!Crash(t)
      PROVE  Watches(s)
  BY <1>2 DEF Sup!LoseLock, Sup!Interrupt, Sup!Terminate, Sup!CleanUpOver, Sup!Crash,
              Sup!Leaves, Sup!Goes
<1>3. ASSUME NEW t \in Supervisors, Sup!Release(t) \/ Sup!Exit(t) \/ Sup!Kill(t)
      PROVE  Watches(s)
  BY <1>3 DEF Sup!Release, Sup!Exit, Sup!Kill, Sup!Goes
<1>4. ASSUME NEW t \in Supervisors, Sup!Start(t) PROVE Sup!Start(s) \/ Watches(s)
  BY <1>4 DEF Sup!Start, Sup!Goes
<1>5. ASSUME Sup!Tick \/ UNCHANGED Sup!vars PROVE Watches(s)
  BY <1>5 DEF Sup!Tick, Sup!vars
<1> QED
  BY <1>1, <1>2, <1>3, <1>4, <1>5 DEF Sup!Next

\* No step of another supervisor makes the row of s older, or another's.
LEMMA KeepsStep ==
  ASSUME Sup!SupervisorConstants, Sup!TypeOK, KeepsRow, [Sup!Next]_(Sup!vars)
  PROVE  KeepsRow'
<1> SUFFICES ASSUME NEW s \in Supervisors, Watches(s)' PROVE Keeps(s)'
  BY DEF KeepsRow
<1>0. /\ SupervisorTtl \in Nat /\ MaxFailures \in Nat
      /\ MaxFailures > 0 /\ MaxFailures + 1 <= SupervisorTtl
      /\ NoSupervisor \notin Supervisors
  BY SupLimits
<1>1. CASE Sup!Start(s)
  BY <1>0, <1>1 DEF Sup!Start, Keeps, Sup!TypeOK
<1>2. CASE ~Sup!Start(s)
  <2>1. Watches(s) /\ Keeps(s)
    BY <1>2, WatchedBefore DEF KeepsRow
  <2> USE <1>0, <2>1 DEF Sup!TypeOK, Sup!Set, Keeps, Sup!CleansUp
  <2>2. ASSUME NEW t \in Supervisors, Sup!Start(t) PROVE Keeps(s)'
    <3>1. t # s
      BY <1>2, <2>2
    <3>2. Sup!LockFree
      BY <2>2 DEF Sup!Start
    <3>3. holder # s
      BY <2>1, <3>2, NotTaken
    <3> QED
      BY <2>2, <3>1, <3>3 DEF Sup!Start
  <2>3. ASSUME NEW t \in Supervisors,
               \/ Sup!Spawn(t) \/ Sup!WorkerEnds(t) \/ Sup!Stall(t)
               \/ Sup!Release(t) \/ Sup!Exit(t) \/ Sup!Kill(t)
        PROVE  Keeps(s)'
    <3>1. UNCHANGED <<holder, idle, failures, due, exiting>>
      BY <2>3 DEF Sup!Spawn, Sup!WorkerEnds, Sup!Stall, Sup!Release, Sup!Exit, Sup!Kill,
                  Sup!row
    <3> QED
      BY <3>1
  <2>4. ASSUME NEW t \in Supervisors, Sup!HangUp(t) PROVE Keeps(s)'
    BY <2>4 DEF Sup!HangUp, Sup!row
  <2>5. ASSUME NEW t \in Supervisors, Sup!Refresh(t) \/ Sup!RefreshFails(t)
        PROVE  Keeps(s)'
    BY <2>5 DEF Sup!Refresh, Sup!RefreshFails, Sup!row
  <2>6. ASSUME NEW t \in Supervisors,
               \/ Sup!LoseLock(t) \/ Sup!Interrupt(t) \/ Sup!Terminate(t)
               \/ Sup!CleanUpOver(t) \/ Sup!Crash(t)
        PROVE  Keeps(s)'
    <3>1. t # s
      BY <2>6 DEF Sup!LoseLock, Sup!Interrupt, Sup!Terminate, Sup!CleanUpOver, Sup!Crash,
                  Sup!Leaves, Sup!Goes, Watches, Sup!Running
    <3> QED
      BY <2>6, <3>1 DEF Sup!LoseLock, Sup!Interrupt, Sup!Terminate, Sup!CleanUpOver,
                        Sup!Crash, Sup!Leaves, Sup!row
  <2>7. ASSUME NEW t \in Supervisors, Sup!DeleteRow(t) PROVE Keeps(s)'
    BY <2>7 DEF Sup!DeleteRow, Watches, Sup!Running
  <2>8. CASE Sup!Tick
    <3>1. ~due[s] /\ due'[s] = TRUE /\ UNCHANGED <<holder, failures, exiting>>
      BY <2>8 DEF Sup!Tick, Sup!Prompt, Watches
    <3>2. failures[s] \in Nat /\ idle \in Nat /\ idle' \in Nat /\ idle' <= idle + 1
      BY <2>8 DEF Sup!Tick
    <3>3. holder = s => idle' <= failures[s] + 1
      BY <3>1, <3>2
    <3> QED
      BY <3>1, <3>3
  <2>9. CASE UNCHANGED Sup!vars
    BY <2>9 DEF Sup!vars, Sup!row
  <2> QED
    BY <2>2, <2>3, <2>4, <2>5, <2>6, <2>7, <2>8, <2>9 DEF Sup!Next
<1> QED
  BY <1>1, <1>2

\* No phase with an untold worker is left but by telling it, by a kill or by a clean-up.
LEMMA WorkerStep ==
  ASSUME Sup!TypeOK, UpWhile, [Sup!Next]_(Sup!vars) PROVE UpWhile'
<1> DEFINE Excused(s) == supPhase[s] \in {"running", "releasing", "killed"} \/ exiting[s] # "none"
<1> SUFFICES ASSUME NEW s \in Supervisors, worker'[s] = "up" PROVE Excused(s)'
  BY DEF UpWhile, Sup!CleansUp
<1> USE DEF Sup!TypeOK, UpWhile, Sup!Set, Sup!Running, Sup!CleansUp, Sup!Live
<1>1. ASSUME NEW t \in Supervisors, Sup!Start(t) \/ Sup!Spawn(t) \/ Sup!WorkerEnds(t)
      PROVE  Excused(s)'
  BY <1>1 DEF Sup!Start, Sup!Spawn, Sup!WorkerEnds, Sup!Goes
<1>2. ASSUME NEW t \in Supervisors,
             \/ Sup!LoseLock(t) \/ Sup!Interrupt(t) \/ Sup!Terminate(t)
             \/ Sup!CleanUpOver(t) \/ Sup!Crash(t)
      PROVE  Excused(s)'
  BY <1>2 DEF Sup!LoseLock, Sup!Interrupt, Sup!Terminate, Sup!CleanUpOver, Sup!Crash,
              Sup!Leaves, Sup!Goes
<1>3. ASSUME NEW t \in Supervisors,
             Sup!Release(t) \/ Sup!Exit(t) \/ Sup!Kill(t) \/ Sup!HangUp(t)
      PROVE  Excused(s)'
  BY <1>3 DEF Sup!Release, Sup!Exit, Sup!Kill, Sup!HangUp, Sup!Goes
<1>4. ASSUME \/ \E t \in Supervisors :
                  Sup!Refresh(t) \/ Sup!RefreshFails(t) \/ Sup!Stall(t) \/ Sup!DeleteRow(t)
             \/ Sup!Tick \/ UNCHANGED Sup!vars
      PROVE  Excused(s)'
  <2>1. UNCHANGED <<supPhase, worker, exiting>>
    BY <1>4 DEF Sup!Refresh, Sup!RefreshFails, Sup!Stall, Sup!DeleteRow, Sup!Tick, Sup!vars
  <2> QED
    BY <2>1
<1> QED
  BY <1>1, <1>2, <1>3, <1>4 DEF Sup!Next

LEMMA SupStep ==
  ASSUME Sup!SupervisorConstants PROVE HandoverInv /\ [Sup!Next]_(Sup!vars) => HandoverInv'
  BY TypeStep, KeepsStep, WorkerStep DEF HandoverInv

LEMMA SupInvariant == ASSUME Sup!SupervisorConstants PROVE Sup!Spec => []HandoverInv
  BY SupInit, SupStep, PTL DEF Sup!Spec

-----------------------------------------------------------------------------
\* However supervisors start, fail to refresh, shut down, are killed or hung up on, two
\* of them have an untold worker at once only if one of the two went astray.
THEOREM OneWorkerAtATime ==
  ASSUME Sup!SupervisorConstants PROVE Sup!Spec => []Handover
<1>1. HandoverInv => Handover
  <2> SUFFICES ASSUME HandoverInv, NEW s \in Supervisors, NEW t \in Supervisors, s # t,
                      worker[s] = "up", worker[t] = "up", ~Sup!Astray(s), ~Sup!Astray(t)
               PROVE  FALSE
    BY DEF Handover, Sup!Handover
  <2>1. ASSUME NEW u \in {s, t} PROVE Watches(u) /\ ~Sup!CleansUp(u)
    BY <2>1 DEF HandoverInv, UpWhile, Sup!Astray, Watches, Sup!Running
  <2>2. holder = s /\ holder = t
    BY <2>1 DEF HandoverInv, KeepsRow, Keeps
  <2> QED
    BY <2>2
<1> QED
  BY SupInvariant, <1>1, PTL

\* Nobody takes over from a supervisor that still runs, however many of its refreshes
\* fail, unless it was suspended or hangs in one of them.
THEOREM StopsBeforeLapse ==
  ASSUME Sup!SupervisorConstants PROVE Sup!Spec => GivesUpInTime
<1>1. HandoverInv /\ [Sup!Next]_(Sup!vars)
        => [\A s \in Supervisors :
              Sup!TakenFrom(s) => (~Sup!Running(s) \/ stalled[s])]_(Sup!vars)
  <2> SUFFICES ASSUME HandoverInv, Sup!Next, NEW s \in Supervisors, Sup!TakenFrom(s),
                      Watches(s)
               PROVE  FALSE
    BY DEF Watches
  <2>1. PICK t \in Supervisors : Sup!Start(t)
    BY DEF Sup!TakenFrom, Sup!Next, Sup!Spawn, Sup!WorkerEnds, Sup!Refresh,
           Sup!RefreshFails, Sup!LoseLock, Sup!Stall, Sup!Interrupt, Sup!Terminate,
           Sup!HangUp, Sup!DeleteRow, Sup!Release, Sup!Exit, Sup!Kill, Sup!CleanUpOver,
           Sup!Crash, Sup!Tick, Sup!row
  <2>2. Sup!LockFree /\ holder = s
    BY <2>1 DEF Sup!Start, Sup!TakenFrom
  <2> QED
    BY <2>2, NotTaken DEF HandoverInv
<1> QED
  BY SupInvariant, <1>1, PTL DEF Sup!Spec, GivesUpInTime, Sup!GivesUpInTime

\* Every variable keeps its type.
THEOREM SupervisorTypes ==
  ASSUME Sup!SupervisorConstants PROVE Sup!Spec => []Sup!TypeOK
<1>1. HandoverInv => Sup!TypeOK
  BY DEF HandoverInv
<1> QED
  BY SupInvariant, <1>1, PTL

-----------------------------------------------------------------------------
\* The variables, as far as the arguments need them.
WorkerTypes ==
  /\ spawned \in 0..MaxSpawns /\ fate \in [Spawns!Worker -> Spawns!Fate]
  /\ wedged \in Nat /\ judged \in Nat /\ restarts \in Nat
  /\ restarted \subseteq 1..spawned

\* _intentionalRestart is set exactly while a restarted worker still runs.
FlagInStep == ~stopping => (intentional <=> (Spawns!Child /\ spawned \in restarted))

\* Of the bad answers counted at most one is not about the worker.  Once it is counted
\* the worker is past its grace, so every check begun since is about it.
Counted ==
  /\ wedged <= judged + 1
  /\ (wedged > judged /\ Spawns!Child) => (childAge # "young" /\ (check = "asking" => own))

RestartInv == WorkerTypes /\ FlagInStep /\ Spawns!WedgeNotCrash /\ Counted

LEMMA SpawnLimits ==
  ASSUME Spawns!SpawnConstants
  PROVE  MaxSpawns \in Nat /\ WedgeChecks \in Nat /\ LoopBudget \in Nat
  BY SMT DEF Spawns!SpawnConstants

LEMMA SpawnInit == ASSUME Spawns!SpawnConstants, Spawns!Init PROVE RestartInv
<1>0. MaxSpawns \in Nat
  BY SpawnLimits
<1>1. WorkerTypes
  BY <1>0 DEF Spawns!Init, WorkerTypes, Spawns!Fate, Spawns!Worker
<1>2. FlagInStep /\ Spawns!WedgeNotCrash /\ Counted
  BY <1>0 DEF Spawns!Init, FlagInStep, Spawns!WedgeNotCrash, Counted, Spawns!Child,
              Spawns!Worker
<1> QED
  BY <1>1, <1>2 DEF RestartInv

-----------------------------------------------------------------------------
\* A worker that runs is the last one spawned, so a step that leaves it running or
\* not running leaves Child as it was.
LEMMA ChildTypes ==
  ASSUME Spawns!SpawnConstants, WorkerTypes, Spawns!Child
  PROVE  spawned \in Spawns!Worker /\ spawned \in Nat /\ fate[spawned] \in Spawns!Alive
  BY SpawnLimits DEF WorkerTypes, Spawns!Child, Spawns!Worker

LEMMA SpawnStep ==
  ASSUME Spawns!SpawnConstants, RestartInv, [Spawns!Next]_(Spawns!vars) PROVE RestartInv'
<1>0. MaxSpawns \in Nat /\ WedgeChecks \in Nat /\ LoopBudget \in Nat
  BY SpawnLimits
<1> USE <1>0 DEF RestartInv, WorkerTypes, FlagInStep, Spawns!WedgeNotCrash, Counted,
                 Spawns!Worker, Spawns!Fate, Spawns!Alive, Spawns!Child
<1>1. CASE Spawns!Spawn
  <2>1. /\ WorkerTypes'
        /\ spawned' = spawned + 1 /\ fate'[spawned'] = "up" /\ spawned' \notin restarted'
    BY <1>1 DEF Spawns!Spawn, Spawns!CountAtSpawn, Spawns!Deciding
  <2> QED
    BY <1>1, <2>1 DEF Spawns!Spawn, Spawns!CountAtSpawn, Spawns!Deciding
<1>2. CASE Spawns!SpawnFails \/ Spawns!Return
  <2>1. UNCHANGED <<spawned, fate, intentional, childAge, Spawns!health>>
    BY <1>2 DEF Spawns!SpawnFails, Spawns!Return
  <2>2. stopping => stopping'
    BY <1>2 DEF Spawns!SpawnFails, Spawns!Return
  <2> QED
    BY <2>1, <2>2 DEF Spawns!health
<1>3. ASSUME NEW how \in {"clean", "crash"}, Spawns!End(how) PROVE RestartInv'
  <2>1. Spawns!Class(how) \in {"last", "excused", "clean", "crash"}
    BY DEF Spawns!Class
  <2>2. spawned \in Spawns!Worker /\ WorkerTypes'
    BY <1>3, <2>1, ChildTypes DEF Spawns!End, Spawns!health
  <2>3. fate' = [fate EXCEPT ![spawned] = Spawns!Class(how)] /\ ~Spawns!Child'
    BY <1>3, <2>1, <2>2 DEF Spawns!End
  <2>4. /\ Spawns!Class(how) = "crash" => spawned \notin restarted
        /\ Spawns!Class(how) = "excused" => spawned \in restarted
    BY <1>3 DEF Spawns!End, Spawns!Class, Spawns!Provoked
  <2>5. Spawns!WedgeNotCrash'
    BY <1>3, <2>2, <2>3, <2>4 DEF Spawns!End, Spawns!health
  <2> QED
    BY <1>3, <2>2, <2>3, <2>5 DEF Spawns!End, Spawns!health
<1>4. CASE Spawns!Ages
  BY <1>4 DEF Spawns!Ages, Spawns!health
<1>5. CASE Spawns!ShutDown
  <2>1. WorkerTypes' /\ (Spawns!Child' <=> Spawns!Child) /\ Spawns!WedgeNotCrash'
    BY <1>5, ChildTypes DEF Spawns!ShutDown, Spawns!health
  <2> QED
    BY <1>5, <2>1 DEF Spawns!ShutDown, Spawns!health
<1>6. CASE Spawns!BeginCheck
  BY <1>6 DEF Spawns!BeginCheck, Spawns!loop
<1>7. CASE Spawns!CheckFails \/ Spawns!AnswerGood \/ Spawns!Alert
  <2>1. CASE Spawns!CheckFails
    BY <2>1 DEF Spawns!CheckFails, Spawns!loop
  <2>2. CASE Spawns!AnswerGood
    BY <2>2 DEF Spawns!AnswerGood, Spawns!Answered, Spawns!loop
  <2>3. CASE Spawns!Alert
    BY <2>3 DEF Spawns!Alert, Spawns!Answered, Spawns!loop
  <2> QED
    BY <1>7, <2>1, <2>2, <2>3
<1>8. CASE Spawns!AnswerBad
  <2>1. /\ UNCHANGED <<spawned, fate, intentional, stopping, childAge, restarts, restarted>>
        /\ check' = "idle" /\ wedged' = wedged + 1 /\ judged' = Spawns!Judged
        /\ Spawns!Child /\ childAge # "young" /\ check = "asking"
    BY <1>8 DEF Spawns!AnswerBad, Spawns!Answered, Spawns!Suspect, Spawns!loop
  <2>2. judged' \in Nat /\ wedged' <= judged' + 1
    <3>1. CASE own
      BY <2>1, <3>1 DEF Spawns!Judged
    <3>2. CASE ~own
      BY <2>1, <3>2 DEF Spawns!Judged
    <3> QED
      BY <3>1, <3>2
  <2>3. WorkerTypes' /\ Spawns!WedgeNotCrash'
    BY <2>1, <2>2
  <2>4. Counted'
    BY <2>1, <2>2
  <2> QED
    BY <2>1, <2>3, <2>4
<1>9. CASE Spawns!Restart
  <2>1. Spawns!Child /\ spawned \in Spawns!Worker /\ fate[spawned] \in Spawns!Alive
    BY <1>9, ChildTypes DEF Spawns!Restart, Spawns!Suspect
  <2>2. WorkerTypes' /\ Spawns!Child' /\ spawned' = spawned /\ spawned \in restarted'
    BY <1>9, <2>1 DEF Spawns!Restart, Spawns!Answered
  <2>3. Spawns!WedgeNotCrash'
    BY <1>9, <2>1 DEF Spawns!Restart
  <2> QED
    BY <1>9, <2>2, <2>3 DEF Spawns!Restart, Spawns!Answered
<1>10. CASE Spawns!RestartSeen \/ Spawns!WindowSlides
  <2>1. CASE Spawns!RestartSeen
    BY <2>1 DEF Spawns!RestartSeen, Spawns!loop
  <2>2. CASE Spawns!WindowSlides
    BY <2>2 DEF Spawns!WindowSlides, Spawns!loop
  <2> QED
    BY <1>10, <2>1, <2>2
<1>11. CASE Spawns!RestartKills
  <2>1. WorkerTypes' /\ (Spawns!Child' <=> Spawns!Child) /\ Spawns!WedgeNotCrash'
    <3>1. CASE captured \in Spawns!Worker
      BY <1>11, <3>1 DEF Spawns!RestartKills, Spawns!StillRuns
    <3>2. CASE captured \notin Spawns!Worker
      <4>1. fate' = fate
        BY <1>11, <3>2 DEF Spawns!RestartKills
      <4> QED
        BY <1>11, <4>1 DEF Spawns!RestartKills
    <3> QED
      BY <3>1, <3>2
  <2> QED
    BY <1>11, <2>1 DEF Spawns!RestartKills
<1>12. ASSUME NEW k \in Spawns!Worker, Spawns!OrphanEnds(k) PROVE RestartInv'
  BY <1>12 DEF Spawns!OrphanEnds, Spawns!health
<1>13. CASE UNCHANGED Spawns!vars
  BY <1>13 DEF Spawns!vars, Spawns!loop, Spawns!health
<1> QED
  BY <1>1, <1>2, <1>3, <1>4, <1>5, <1>6, <1>7, <1>8, <1>9, <1>10, <1>11, <1>12,
     <1>13 DEF Spawns!Next

LEMMA SpawnInvariant == ASSUME Spawns!SpawnConstants PROVE Spawns!Spec => []RestartInv
  BY SpawnInit, SpawnStep, PTL DEF Spawns!Spec

-----------------------------------------------------------------------------
\* Whatever a restarted worker ends with, and whenever it ends, its end is excused, and
\* no other worker's end is excused instead.
THEOREM RestartsExcused ==
  ASSUME Spawns!SpawnConstants PROVE Spawns!Spec => []WedgeNotCrash
<1>1. RestartInv => WedgeNotCrash
  BY DEF RestartInv, WedgeNotCrash
<1> QED
  BY SpawnInvariant, <1>1, PTL

\* At most one of the answers that condemn a worker is not about it.
THEOREM RestartsFair ==
  ASSUME Spawns!SpawnConstants PROVE Spawns!Spec => FairChance
<1>1. RestartInv /\ [Spawns!Next]_(Spawns!vars)
        => [restarts' > restarts => Spawns!Judged >= WedgeChecks - 1]_(Spawns!vars)
  <2> SUFFICES ASSUME RestartInv, Spawns!Next, restarts' > restarts
               PROVE  Spawns!Judged >= WedgeChecks - 1
    OBVIOUS
  <2>0. WedgeChecks \in Nat
    BY SpawnLimits DEF Spawns!SpawnConstants
  <2>1. Spawns!Restart
    <3>1. restarts \in Nat
      BY DEF RestartInv, WorkerTypes
    <3> QED
      BY <3>1 DEF Spawns!Next, Spawns!Spawn, Spawns!SpawnFails, Spawns!Return, Spawns!Ages,
                  Spawns!ShutDown, Spawns!End, Spawns!OrphanEnds, Spawns!BeginCheck, Spawns!CheckFails,
                  Spawns!AnswerGood, Spawns!AnswerBad, Spawns!Alert, Spawns!RestartSeen,
                  Spawns!RestartKills, Spawns!WindowSlides, Spawns!health
  <2> QED
    BY <2>0, <2>1 DEF Spawns!Restart, Spawns!Answered, Spawns!Suspect, Spawns!Judged,
                      RestartInv, WorkerTypes, Counted
<1> QED
  BY SpawnInvariant, <1>1, PTL DEF Spawns!Spec, FairChance, Spawns!FairChance
=============================================================================
