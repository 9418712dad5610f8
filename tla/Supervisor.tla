----------------------------- MODULE Supervisor -----------------------------
(***************************************************************************)
(* The supervisors of one queue on one database (supervisor.ts): who may   *)
(* run, how one hands over to the next, and what becomes of its worker.  A *)
(* supervisor runs while it holds a row of gbrain_cycle_locks, which it    *)
(* refreshes once a minute; it spawns a worker process again whenever the  *)
(* last one has ended.  shutdown() releases the row, tells the worker to   *)
(* stop, waits for it and exits.                                           *)
(*                                                                         *)
(* The same process carries the signal handlers of process-cleanup.ts,     *)
(* which cli.ts installs first: on SIGTERM or SIGHUP they delete the row   *)
(* and exit, and nothing waits for the other.  Pidfiles are left out: two  *)
(* supervisors may have different ones, and the row is the authority.      *)
(*                                                                         *)
(* Time is counted in refresh intervals.  A process never restarts under   *)
(* its own name, and no two have one pid: what equal pids do to a row is   *)
(* in DbLock.                                                              *)
(***************************************************************************)
EXTENDS Naturals

CONSTANTS
  Process,       \* supervisor processes
  Ttl,           \* SUPERVISOR_LOCK_TTL_MIN
  MaxFailures,   \* SUPERVISOR_LOCK_REFRESH_MAX_FAILURES
  Nobody

SupervisorConstants ==
  /\ {Ttl, MaxFailures} \subseteq Nat \ {0} /\ MaxFailures < Ttl
  /\ Nobody \notin Process

VARIABLES
  holder,     \* who wrote the row
  idle,       \* refresh intervals since it was refreshed
  phase,      \* how far each supervisor is
  worker,     \* its worker: "none", "up", or "told" to stop
  due,        \* its refresh timer has fired
  failures,   \* lockRefreshFailures
  exiting,    \* the signal on which process-cleanup.ts is about to exit the process, or "none"
  stalled     \* history: it has been suspended, or a refresh has hung

row == <<holder, idle>>
vars == <<row, phase, worker, due, failures, exiting, stalled>>

\* "killed" is the end by SIGKILL, "gone" any other.
Phase == {"new", "running", "releasing", "draining", "gone", "killed"}

TypeOK ==
  /\ holder \in Process \union {Nobody} /\ idle \in 0..(Ttl + 1)
  /\ phase \in [Process -> Phase]
  /\ worker \in [Process -> {"none", "up", "told"}]
  /\ failures \in [Process -> 0..(MaxFailures - 1)]
  /\ exiting \in [Process -> {"none", "SIGHUP", "SIGTERM"}]
  /\ due \in [Process -> BOOLEAN] /\ stalled \in [Process -> BOOLEAN]

Init ==
  /\ holder = Nobody /\ idle = 0
  /\ phase = [s \in Process |-> "new"]
  /\ worker = [s \in Process |-> "none"]
  /\ failures = [s \in Process |-> 0]
  /\ due = [s \in Process |-> FALSE] /\ exiting = [s \in Process |-> "none"]
  /\ stalled = [s \in Process |-> FALSE]

-----------------------------------------------------------------------------
Running(s) == phase[s] = "running"
Over(s) == phase[s] \in {"gone", "killed"}
CleansUp(s) == exiting[s] # "none"
Live(s) == phase[s] \in {"running", "releasing", "draining"}

Goes(s, ph) == phase' = [phase EXCEPT ![s] = ph]
Set(f, s, x) == [f EXCEPT ![s] = x]

\* The refresh timer and its failures matter only while the supervisor runs.
Leaves(s, ph) == Goes(s, ph) /\ due' = Set(due, s, FALSE) /\ failures' = Set(failures, s, 0)

\* tryAcquireDbLock: the row is free, has expired, or its holder is known to be dead.
LockFreeAlways == TRUE  \* mutant: no singleton lock
LockFree == holder # Nobody => (idle > Ttl \/ Over(holder))

Start(s) ==
  /\ phase[s] = "new" /\ LockFree
  /\ holder' = s /\ idle' = 0 /\ Goes(s, "running")
  /\ UNCHANGED <<worker, due, failures, exiting, stalled>>

\* The loop of ChildWorkerSupervisor; isStopping() is false.
Spawn(s) ==
  /\ Running(s) /\ worker[s] = "none" /\ worker' = Set(worker, s, "up")
  /\ UNCHANGED <<row, phase, due, failures, exiting, stalled>>

\* A worker ends by itself, or as it was told.  One whose supervisor is gone runs on.
WorkerEnds(s) ==
  /\ worker[s] # "none" /\ worker' = Set(worker, s, "none")
  /\ UNCHANGED <<row, phase, due, failures, exiting, stalled>>

\* refreshDbLock on its timer.  The update matches no row that somebody else has taken
\* over, and does not fail for that.
Refresh(s) ==
  /\ Running(s) /\ due[s]
  /\ due' = Set(due, s, FALSE) /\ failures' = Set(failures, s, 0)
  /\ idle' = IF holder = s THEN 0 ELSE idle
  /\ UNCHANGED <<holder, phase, worker, exiting, stalled>>

LastFailureNever(s) == FALSE  \* mutant: a failed refresh is only logged
LastFailure(s) == failures[s] + 1 = MaxFailures

RefreshFails(s) ==
  /\ Running(s) /\ due[s] /\ ~LastFailure(s)
  /\ due' = Set(due, s, FALSE) /\ failures' = Set(failures, s, failures[s] + 1)
  /\ UNCHANGED <<row, phase, worker, exiting, stalled>>

\* supervisor_lock_lost: shutdown().
LoseLock(s) ==
  /\ Running(s) /\ due[s] /\ LastFailure(s)
  /\ Leaves(s, "releasing")
  /\ UNCHANGED <<row, worker, exiting, stalled>>

\* A suspended machine, or a refresh that neither succeeds nor throws.
Stall(s) ==
  /\ Running(s) /\ ~stalled[s] /\ stalled' = Set(stalled, s, TRUE)
  /\ UNCHANGED <<row, phase, worker, due, failures, exiting>>

\* A minute passes.
Prompt(s) == (Running(s) /\ ~stalled[s]) => ~due[s]
Tick ==
  /\ holder # Nobody /\ \A s \in Process : Prompt(s)
  /\ idle' = IF idle <= Ttl THEN idle + 1 ELSE idle
  /\ due' = [s \in Process |-> Running(s)]
  /\ UNCHANGED <<holder, phase, worker, failures, exiting, stalled>>

-----------------------------------------------------------------------------
\* shutdown() on SIGINT, or by onMaxCrashesExceeded between two workers.
Interrupt(s) ==
  /\ Running(s) /\ Leaves(s, "releasing")
  /\ UNCHANGED <<row, worker, exiting, stalled>>

\* SIGHUP, a closed stdout, an uncaught exception, or SIGTERM when shutdown() has begun:
\* process-cleanup.ts alone.
HangUp(s) ==
  /\ Live(s) /\ ~CleansUp(s) /\ exiting' = Set(exiting, s, "SIGHUP")
  /\ UNCHANGED <<row, phase, worker, due, failures, stalled>>

\* SIGTERM: process-cleanup.ts and then, in the same turn, shutdown().
Terminate(s) ==
  /\ Running(s) /\ Leaves(s, "releasing") /\ exiting' = Set(exiting, s, "SIGTERM")
  /\ UNCHANGED <<row, worker, stalled>>

\* The delete of either takes effect; both are best effort.
DeleteRow(s) ==
  /\ phase[s] = "releasing" \/ (Live(s) /\ CleansUp(s))
  /\ holder = s /\ holder' = Nobody /\ idle' = 0
  /\ UNCHANGED <<phase, worker, due, failures, exiting, stalled>>

\* release() returns: killChild(SIGTERM).
Release(s) ==
  /\ phase[s] = "releasing" /\ Goes(s, "draining")
  /\ worker' = Set(worker, s, IF worker[s] = "up" THEN "told" ELSE worker[s])
  /\ UNCHANGED <<row, due, failures, exiting, stalled>>

\* awaitChildExit returns, and the worker has ended,
Exit(s) ==
  /\ phase[s] = "draining" /\ worker[s] = "none" /\ Goes(s, "gone")
  /\ UNCHANGED <<row, worker, due, failures, exiting, stalled>>

\* or 35 seconds are over: SIGKILL.  It ends a worker that is the child itself; one that
\* tini wraps loses its parent, and runs on as it was told.
Kill(s) ==
  /\ phase[s] = "draining" /\ worker[s] # "none" /\ Goes(s, "gone")
  /\ worker' = Set(worker, s, "none") \/ UNCHANGED worker
  /\ UNCHANGED <<row, due, failures, exiting, stalled>>

\* runCleanupPass is over: process.exit.
CleanUpOver(s) ==
  /\ Live(s) /\ CleansUp(s) /\ Leaves(s, "gone")
  /\ UNCHANGED <<row, worker, exiting, stalled>>

\* SIGKILL, or out of memory.
Crash(s) ==
  /\ Live(s) /\ Leaves(s, "killed")
  /\ UNCHANGED <<row, worker, exiting, stalled>>

Next ==
  \/ \E s \in Process :
       \/ Start(s) \/ Spawn(s) \/ WorkerEnds(s)
       \/ Refresh(s) \/ RefreshFails(s) \/ LoseLock(s) \/ Stall(s)
       \/ Interrupt(s) \/ Terminate(s) \/ HangUp(s)
       \/ DeleteRow(s) \/ Release(s) \/ Exit(s) \/ Kill(s) \/ CleanUpOver(s) \/ Crash(s)
  \/ Tick

Spec == Init /\ [][Next]_vars

-----------------------------------------------------------------------------
\* Properties.

\* A supervisor that was killed, hung up on or suspended, or whose release() is still
\* under way, may have a worker nobody has told to stop.
Astray(s) == phase[s] \in {"killed", "releasing"} \/ CleansUp(s) \/ stalled[s]

\* Two workers of one queue do not both go on taking jobs: the next supervisor spawns its
\* worker only when the last one's has been told to stop, unless that one went astray.
\* Failing refreshes do not break it: the supervisor gives up before its row expires.
Handover ==
  \A s, t \in Process :
    (s # t /\ worker[s] = "up" /\ worker[t] = "up") => (Astray(s) \/ Astray(t))

\* What supervisor.ts says of its refreshes: it always stops before its row could lapse
\* and let another take over.  Whoever supersedes a row finds a supervisor that runs no
\* more, or one that was suspended or hangs in a refresh.
TakenFrom(s) == holder = s /\ holder' \notin {s, Nobody}
GivesUpInTime == [][\A s \in Process : TakenFrom(s) => (~Running(s) \/ stalled[s])]_vars

\* What supervisor.ts says of SIGTERM and SIGINT alike: the worker was drained.
StopDrains ==
  \A s \in Process : (phase[s] = "gone" /\ exiting[s] # "SIGHUP") => worker[s] = "none"
=============================================================================
