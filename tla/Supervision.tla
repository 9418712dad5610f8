----------------------------- MODULE Supervision -----------------------------
(***************************************************************************)
(* The two sides of gbrain jobs supervisor: the supervisors of one queue,  *)
(* which follow one another by way of a database row (Supervisor), and     *)
(* what one of them does with the workers it spawns (ChildSupervisor).     *)
(* They share no variable; what either promises is stated here under the   *)
(* name it is checked and proved by.                                       *)
(***************************************************************************)
EXTENDS Naturals

CONSTANTS
  Supervisors, SupervisorTtl, MaxFailures, NoSupervisor,
  MaxSpawns, HardStop, WedgeChecks, LoopBudget

VARIABLES
  holder, idle, supPhase, worker, due, failures, exiting, stalled,
  spawned, fate, tini, orphans, crashCount, intentional, stopping, over, childAge,
  check, captured, wedged, restarts, restarted, own, judged

supVars == <<holder, idle, supPhase, worker, due, failures, exiting, stalled>>
childVars == <<spawned, fate, tini, orphans, crashCount, intentional, stopping, over, childAge,
               check, captured, wedged, restarts, restarted, own, judged>>

Sup == INSTANCE Supervisor WITH
  Process <- Supervisors, Ttl <- SupervisorTtl, Nobody <- NoSupervisor, phase <- supPhase

Spawns == INSTANCE ChildSupervisor WITH crashes <- crashCount, age <- childAge

-----------------------------------------------------------------------------
\* The next supervisor's worker starts when the last one's was told to stop.
Handover == Sup!Handover

\* A supervisor whose refreshes fail stops before its row expires.
GivesUpInTime == Sup!GivesUpInTime

\* A worker restarted by the health check is not counted as a crash.
WedgeNotCrash == Spawns!WedgeNotCrash

\* A worker is restarted for its own lack of progress.
FairChance == Spawns!FairChance

\* A worker that is restarted ends, if SIGKILL reaches it.
RestartEnds == Spawns!RestartEnds
=============================================================================
