--------------------------- MODULE ChildSupervisor ---------------------------
(***************************************************************************)
(* One supervisor and the worker processes it spawns one after the other   *)
(* (child-worker-supervisor.ts, and healthCheck of supervisor.ts).  The    *)
(* loop spawns a worker, waits for it to end, classifies the end, and      *)
(* spawns the next unless too many have crashed.  On a timer of its own    *)
(* the health check asks the database whether the worker makes progress;   *)
(* after several bad answers it restarts the worker: SIGTERM, a grace      *)
(* period, SIGKILL.  A restart must neither count as a crash nor hit the   *)
(* worker that has replaced the wedged one, and an answer may be about a   *)
(* worker that is gone when it comes.                                      *)
(*                                                                         *)
(* Where tini is installed the child that is spawned, signalled and waited *)
(* for is tini, and the worker is a child of it.  tini passes SIGTERM on,  *)
(* but SIGKILL ends tini alone: the worker may run on, an orphan that the  *)
(* supervisor takes to have ended.                                         *)
(*                                                                         *)
(* Backoff and alerts are left out, and time is three ages of a worker.    *)
(***************************************************************************)
EXTENDS Naturals

CONSTANTS
  MaxSpawns,    \* bound on workers spawned
  HardStop,     \* hardStopMaxCrashes
  WedgeChecks,  \* wedgeRestartChecks
  LoopBudget    \* wedgeRestartLoopBudget

SpawnConstants == {MaxSpawns, HardStop, WedgeChecks, LoopBudget} \subseteq Nat \ {0}

VARIABLES
  spawned,     \* how many workers have been spawned; the last one's number
  fate,        \* what each child is doing or how its end was classified
  tini,        \* detectTini() found it
  orphans,     \* the workers that outlived the tini around them
  crashes,     \* _crashCount
  intentional, \* _intentionalRestart
  stopping,
  over,        \* run() has returned
  age,         \* of the last worker: "young", past its "startup" grace, or "stable"
  check,       \* healthCheck: "idle", "asking" or "restarting"
  captured,    \* the worker being restarted
  wedged,      \* consecutiveWedgedChecks
  restarts,    \* wedgeRestartTimestamps within the window
  restarted,   \* history: the workers ever restarted
  own,         \* history: the check under way began in the last worker's life, past its grace
  judged       \* history: bad answers of such checks about the last worker

wrapper == <<tini, orphans>>
loop == <<spawned, fate, wrapper, crashes, intentional, stopping, over, age>>
health == <<check, captured, wedged, restarts, restarted, own, judged>>
vars == <<loop, health>>

Worker == 1..MaxSpawns
Alive == {"up", "told", "killed"}   \* "told" by SIGTERM, "killed" by SIGKILL
Fate == Alive \union {"unborn", "clean", "crash", "excused", "last"}

TypeOK ==
  /\ spawned \in 0..MaxSpawns /\ fate \in [Worker -> Fate]
  /\ tini \in BOOLEAN /\ orphans \subseteq Worker
  /\ crashes \in 0..HardStop
  /\ {intentional, stopping, over, own} \subseteq BOOLEAN
  /\ age \in {"young", "startup", "stable"}
  /\ check \in {"idle", "asking", "restarting"} /\ captured \in 0..MaxSpawns
  /\ wedged \in 0..(WedgeChecks - 1) /\ restarts \in 0..LoopBudget
  /\ restarted \subseteq Worker /\ judged \in 0..WedgeChecks

Init ==
  /\ spawned = 0 /\ fate = [k \in Worker |-> "unborn"]
  /\ tini \in BOOLEAN /\ orphans = {}
  /\ crashes = 0 /\ intentional = FALSE /\ stopping = FALSE /\ over = FALSE
  /\ age = "young" /\ check = "idle" /\ captured = 0
  /\ wedged = 0 /\ restarts = 0 /\ restarted = {} /\ own = FALSE /\ judged = 0

-----------------------------------------------------------------------------
\* childAlive
Child == spawned > 0 /\ fate[spawned] \in Alive

\* run() between two workers.
Deciding == ~Child /\ ~over

\* isStopping(), or onMaxCrashesExceeded, which shuts down.
Return ==
  /\ Deciding
  /\ stopping \/ crashes >= HardStop
  /\ over' = TRUE /\ stopping' = TRUE
  /\ UNCHANGED <<spawned, fate, wrapper, crashes, intentional, age, health>>

\* spawnOnce; worker_spawned starts the health check's count afresh.
CountKept == wedged  \* mutant: the count carried over to the new worker
CountAtSpawn == 0

Spawn ==
  /\ Deciding /\ ~stopping /\ crashes < HardStop /\ spawned < MaxSpawns
  /\ spawned' = spawned + 1 /\ fate' = [fate EXCEPT ![spawned + 1] = "up"]
  /\ age' = "young" /\ wedged' = CountAtSpawn
  /\ own' = FALSE /\ judged' = 0
  /\ UNCHANGED <<wrapper, crashes, intentional, stopping, over,
                 check, captured, restarts, restarted>>

\* spawn() throws.
SpawnFails ==
  /\ Deciding /\ ~stopping /\ crashes < HardStop
  /\ crashes' = crashes + 1
  /\ UNCHANGED <<spawned, fate, wrapper, intentional, stopping, over, age, health>>

\* The exit handler.  A clean exit is code 0 or the memory watchdog's.
ProvokedNever == FALSE  \* mutant: a restart classified by its exit code
Provoked == intentional

Class(how) == IF stopping THEN "last" ELSE IF Provoked THEN "excused" ELSE how

\* SIGKILL ended tini; the worker was still at work.
Orphaned == tini /\ fate[spawned] = "killed"

End(how) ==
  /\ Child /\ fate' = [fate EXCEPT ![spawned] = Class(how)]
  /\ intentional' = (intentional /\ stopping)
  /\ crashes' = IF Class(how) # "crash" THEN crashes
                ELSE IF age = "stable" THEN 1 ELSE crashes + 1
  /\ \/ UNCHANGED orphans
     \/ Orphaned /\ orphans' = orphans \union {spawned}
  /\ UNCHANGED <<spawned, tini, stopping, over, age, health>>

\* The child, which SIGKILL does end.
EndOfKilled == Child /\ fate[spawned] = "killed" /\ End("crash")

OrphanEnds(k) ==
  /\ k \in orphans /\ orphans' = orphans \ {k}
  /\ UNCHANGED <<spawned, fate, tini, crashes, intentional, stopping, over, age, health>>

\* startupGraceMs, then stableRunResetMs, have passed.
Ages ==
  /\ Child /\ age # "stable"
  /\ age' = IF age = "young" THEN "startup" ELSE "stable"
  /\ UNCHANGED <<spawned, fate, wrapper, crashes, intentional, stopping, over, health>>

\* shutdown(): the timer stops, and so does the worker.
ShutDown ==
  /\ ~stopping /\ stopping' = TRUE
  /\ fate' = IF Child /\ fate[spawned] = "up" THEN [fate EXCEPT ![spawned] = "told"] ELSE fate
  /\ UNCHANGED <<spawned, wrapper, crashes, intentional, over, age, health>>

-----------------------------------------------------------------------------
\* healthCheck; healthInFlight keeps a second one away.
BeginCheck ==
  /\ check = "idle" /\ ~stopping /\ check' = "asking"
  /\ own' = (Child /\ age # "young")
  /\ UNCHANGED <<loop, captured, wedged, restarts, restarted, judged>>

\* The query fails.
CheckFails ==
  /\ check = "asking" /\ check' = "idle" /\ own' = FALSE
  /\ UNCHANGED <<loop, captured, wedged, restarts, restarted, judged>>

\* Work waits, none is under way and none has been done for long: the answer is the
\* database's, the rest is looked up when the answer comes.
Suspect == Child /\ age # "young" /\ ~stopping
Judged == judged + IF own THEN 1 ELSE 0

Answered == check = "asking" /\ own' = FALSE

AnswerGood ==
  /\ Answered /\ check' = "idle" /\ wedged' = 0 /\ judged' = 0
  /\ UNCHANGED <<loop, captured, restarts, restarted>>

AnswerBad ==
  /\ Answered /\ Suspect /\ wedged + 1 < WedgeChecks
  /\ check' = "idle" /\ wedged' = wedged + 1 /\ judged' = Judged
  /\ UNCHANGED <<loop, captured, restarts, restarted>>

\* escalateWedgedWorker with the budget of its window used up: an alert.
Alert ==
  /\ Answered /\ Suspect /\ wedged + 1 = WedgeChecks /\ restarts = LoopBudget
  /\ check' = "idle" /\ wedged' = 0 /\ judged' = 0
  /\ UNCHANGED <<loop, captured, restarts, restarted>>

\* restartCurrentChild: SIGTERM, and the wait for that worker's end.
Restart ==
  /\ Answered /\ Suspect /\ wedged + 1 = WedgeChecks /\ restarts < LoopBudget
  /\ check' = "restarting" /\ wedged' = 0 /\ judged' = 0
  /\ restarts' = restarts + 1 /\ restarted' = restarted \union {spawned}
  /\ captured' = spawned /\ intentional' = TRUE
  /\ fate' = [fate EXCEPT ![spawned] = IF @ = "up" THEN "told" ELSE @]
  /\ UNCHANGED <<spawned, wrapper, crashes, stopping, over, age>>

RestartSeen ==
  /\ check = "restarting" /\ fate[captured] \notin Alive /\ check' = "idle"
  /\ UNCHANGED <<loop, captured, wedged, restarts, restarted, own, judged>>

\* The grace is over and the captured child still runs: SIGKILL.
StillRunsNever(k) == FALSE  \* mutant: child.killed asked, true once a signal was sent
StillRuns(k) == fate[k] \in Alive

RestartKills ==
  /\ check = "restarting" /\ check' = "idle" /\ StillRuns(captured)
  /\ fate' = [fate EXCEPT ![captured] = "killed"]
  /\ UNCHANGED <<spawned, wrapper, crashes, intentional, stopping, over, age,
                 captured, wedged, restarts, restarted, own, judged>>

\* The oldest restart leaves wedgeRestartLoopWindowMs.
WindowSlides ==
  /\ restarts > 0 /\ restarts' = restarts - 1
  /\ UNCHANGED <<loop, check, captured, wedged, restarted, own, judged>>

Next ==
  \/ Spawn \/ SpawnFails \/ Return \/ Ages \/ ShutDown
  \/ \E how \in {"clean", "crash"} : End(how)
  \/ \E k \in Worker : OrphanEnds(k)
  \/ BeginCheck \/ CheckFails \/ AnswerGood \/ AnswerBad \/ Alert
  \/ Restart \/ RestartSeen \/ RestartKills \/ WindowSlides

Spec == Init /\ [][Next]_vars

\* The timer of the grace, and SIGKILL of the child.  No worker need ever end, an orphan
\* least of all.
Fairness == WF_vars(RestartSeen \/ RestartKills) /\ WF_vars(EndOfKilled)

-----------------------------------------------------------------------------
\* Properties.

\* A worker that the health check restarted is not held against the supervisor's crash
\* budget, whatever signal or code it ends with, and no other worker's crash is forgiven
\* in its place.
WedgeNotCrash ==
  \A k \in Worker :
    /\ fate[k] = "crash" => k \notin restarted
    /\ fate[k] = "excused" => k \in restarted

\* A worker is restarted for its own lack of progress: of the consecutive bad answers
\* that condemn it at most one, the one under way when it was spawned, is not about it.
FairChance == [][restarts' > restarts => Judged >= WedgeChecks - 1]_vars

\* A worker that ignores SIGTERM does not survive its restart, where no tini comes
\* between it and SIGKILL.  Under tini it may: it stays an orphan for as long as it
\* likes, and the worker that replaces it runs beside it.
RestartRuns == \E k \in restarted : fate[k] \in Alive \/ k \in orphans
RestartEnds == (RestartRuns /\ ~tini) ~> ~RestartRuns
=============================================================================
