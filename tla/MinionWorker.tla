---------------------------- MODULE MinionWorker ----------------------------
(***************************************************************************)
(* One worker process (src/src/core/minions/worker.ts): the poll loop of   *)
(* MinionWorker.start, the in-flight map, the executions launchJob starts, *)
(* their abort controllers and grace timers, quiet hours and shutdown.     *)
(* Executions are numbered by the worker's claims, and their numbers are   *)
(* their lock tokens.  Of a row the worker sees only whether a claim of    *)
(* its own holds it: what else happens to rows is in MinionQueue, and when *)
(* a renewal aborts an execution is in LockRenewal.                        *)
(***************************************************************************)
EXTENDS Naturals, FiniteSets

CONSTANTS
  Jobs,         \* the rows of the worker's queue
  Concurrency,  \* opts.concurrency
  MaxClaims     \* bound: how often the worker claims

ASSUME JobsAssumption == Jobs # {}
ASSUME ConcurrencyAssumption == Concurrency \in Nat \ {0} /\ MaxClaims \in Nat

Executions == 1..MaxClaims
Live == {"running", "completing", "failing"}
Reasons == {"none", "job", "infrastructure"}  \* "job": a timeout, or the watchdog's drain

VARIABLES
  active,    \* the rows active since this worker's last claim of them
  token,     \* the execution whose lock_token it carries, 0 for none
  loop,      \* where the poll loop is
  claims,    \* how often it has claimed
  running,   \* this.running
  gracefulShutdownFired,
  spared,    \* the claim under way when the watchdog's shutdown walked the map, or 0
  inFlight,  \* the in-flight map, 0 where there is no entry
  drain,     \* the promises the shutdown waits for
  job, pc,   \* of an execution: its job, and where executeJob is
  reason,    \* abort.signal.reason
  graceFired \* those whose grace timer has fired

rows == <<active, token>>
process == <<loop, claims, running, gracefulShutdownFired, spared, drain>>
executions == <<job, pc, reason, graceFired>>
vars == <<rows, process, inFlight, executions>>

RowTypes == active \subseteq Jobs /\ token \in [Jobs -> 0..claims]

ProcessTypes ==
  /\ loop \in {"poll", "promoting", "claiming", "skipping", "draining", "stopped"}
  /\ loop \in {"claiming", "skipping"} => claims > 0
  /\ claims \in 0..MaxClaims
  /\ running \in BOOLEAN /\ gracefulShutdownFired \in BOOLEAN
  /\ drain \subseteq Executions /\ spared \in 0..(MaxClaims + 1)

ExecutionTypes ==
  /\ inFlight \in [Jobs -> 0..claims]
  /\ job \in [Executions -> Jobs]
  /\ pc \in [Executions -> {"none", "claimed", "dropped", "over"} \cup Live]
  /\ reason \in [Executions -> Reasons]
  /\ graceFired \subseteq Executions

\* A token is that of a claim of its row, and its row is active.
TokensOwned == \A j \in Jobs : token[j] # 0 => j \in active /\ job[token[j]] = j

TypeOK == RowTypes /\ ProcessTypes /\ ExecutionTypes /\ TokensOwned

Init ==
  /\ active = {} /\ token = [j \in Jobs |-> 0]
  /\ loop = "poll" /\ claims = 0
  /\ running = TRUE /\ gracefulShutdownFired = FALSE /\ spared = 0
  /\ inFlight = [j \in Jobs |-> 0] /\ drain = {}
  /\ job = [e \in Executions |-> CHOOSE j \in Jobs : TRUE]
  /\ pc = [e \in Executions |-> "none"]
  /\ reason = [e \in Executions |-> "none"]
  /\ graceFired = {}

Holds(e) == token[job[e]] = e
Entries == {inFlight[j] : j \in Jobs} \ {0}

\* The row leaves active, its lock cleared: it is delayed, requeued or ended.
Release(j) ==
  /\ active' = active \ {j}
  /\ token' = [token EXCEPT ![j] = 0]

\* Another actor does this: the stall sweep, a time limit, cancelJob.  A row that is
\* not active may or may not be there to be claimed.
Lose(j) ==
  /\ j \in active /\ Release(j)
  /\ UNCHANGED <<process, inFlight, executions>>

-----------------------------------------------------------------------------
\* The poll loop.

HasRoom == Cardinality({j \in Jobs : inFlight[j] # 0}) < Concurrency

\* while (this.running): promoteDelayed, during whose await the flag may fall.
BeginTurn ==
  /\ loop = "poll" /\ running /\ loop' = "promoting"
  /\ UNCHANGED <<rows, claims, running, gracefulShutdownFired, spared, drain, inFlight, executions>>

\* claim() commits; the answer is on its way.
Claim(j) ==
  /\ loop = "promoting" /\ HasRoom
  /\ j \notin active /\ claims < MaxClaims
  /\ active' = active \cup {j}
  /\ claims' = claims + 1
  /\ token' = [token EXCEPT ![j] = claims']
  /\ job' = [job EXCEPT ![claims'] = j]
  /\ pc' = [pc EXCEPT ![claims'] = "claimed"]
  /\ loop' = "claiming"
  /\ UNCHANGED <<running, gracefulShutdownFired, spared, drain, inFlight, reason, graceFired>>

\* No room, no row, or every row locked by others.
FindNothing ==
  /\ loop = "promoting" /\ loop' = "poll"
  /\ UNCHANGED <<rows, claims, running, gracefulShutdownFired, spared, drain, inFlight, executions>>

\* launchJob
Launch ==
  /\ loop = "claiming" /\ loop' = "poll"
  /\ pc' = [pc EXCEPT ![claims] = "running"]
  /\ inFlight' = [inFlight EXCEPT ![job[claims]] = claims]
  /\ UNCHANGED <<rows, claims, running, gracefulShutdownFired, spared, drain, job, reason, graceFired>>

\* The claim is not followed by an execution.
Drop == pc' = [pc EXCEPT ![claims] = "dropped"]

\* The answer is lost: the loop goes on after a connection error, and ends on another.
LoseAnswer ==
  /\ loop = "claiming" /\ loop' \in {"poll", "draining"}
  /\ drain' = IF loop' = "draining" THEN Entries ELSE drain
  /\ Drop
  /\ UNCHANGED <<rows, claims, running, gracefulShutdownFired, spared, inFlight, job, reason, graceFired>>

\* handleQuietHoursDefer, 'defer'; a statement that fails is logged and changes nothing.
QuietDefer ==
  /\ loop = "claiming" /\ loop' = "poll"
  /\ \/ Holds(claims) /\ Release(job[claims])
     \/ UNCHANGED rows
  /\ Drop
  /\ UNCHANGED <<claims, running, gracefulShutdownFired, spared, drain, inFlight, job, reason, graceFired>>

\* 'skip', first statement: the lock is cleared, and the row stays active.
QuietUnlock ==
  /\ loop = "claiming"
  /\ \/ /\ loop' = "skipping"
        /\ token' = IF Holds(claims) THEN [token EXCEPT ![job[claims]] = 0] ELSE token
     \/ loop' = "poll" /\ UNCHANGED token
  /\ Drop
  /\ UNCHANGED <<active, claims, running, gracefulShutdownFired, spared, drain, inFlight, job, reason,
                 graceFired>>

\* 'skip', then cancelJob or the plain UPDATE: by id, whoever has the row by now.
QuietCancel ==
  /\ loop = "skipping" /\ loop' = "poll"
  /\ Release(job[claims]) \/ UNCHANGED rows
  /\ UNCHANGED <<claims, running, gracefulShutdownFired, spared, drain, inFlight, executions>>

-----------------------------------------------------------------------------
\* executeJob and the timers of launchJob.

\* The map is keyed by job: whatever entry the job has is deleted.
FreeSlotIfOwnRow(e) ==  \* mutant: not reached when the ending was dropped
  inFlight' = IF Holds(e) THEN [inFlight EXCEPT ![job[e]] = 0] ELSE inFlight
FreeSlot(e) == inFlight' = [inFlight EXCEPT ![job[e]] = 0]

Step(e, from, to) == pc[e] = from /\ pc' = [pc EXCEPT ![e] = to]

\* The finally of launchJob: the timers are cleared, the controller is forgotten.
End(e, from) ==
  /\ Step(e, from, "over") /\ FreeSlot(e)
  /\ reason' = [reason EXCEPT ![e] = "none"]
  /\ graceFired' = graceFired \ {e}

HandlerReturns(e) ==
  /\ Step(e, "running", "completing")
  /\ UNCHANGED <<rows, process, inFlight, job, reason, graceFired>>

\* The catch of executeJob, reached from the handler or from a completeJob that
\* failed: after an infrastructure abort the row is left to the stall sweep.
Catch(e, from) ==
  /\ IF reason[e] = "infrastructure"
       THEN End(e, from)
       ELSE Step(e, from, "failing") /\ UNCHANGED <<inFlight, reason, graceFired>>
  /\ UNCHANGED <<rows, process, job>>

\* completeJob answers.
Complete(e) ==
  /\ End(e, "completing")
  /\ IF Holds(e) THEN Release(job[e]) ELSE UNCHANGED rows
  /\ UNCHANGED <<process, job>>

\* failJob or releaseLeaseFullJob answers, or fails.
Fail(e) ==
  /\ End(e, "failing")
  /\ \/ Holds(e) /\ Release(job[e])
     \/ UNCHANGED rows
  /\ UNCHANGED <<process, job>>

\* The renewal tick (lock lost, or not renewable) or the timeout timer aborts the
\* execution; the first reason stays.
AbortFreeing(e, why) ==  \* mutant: the slot is given up at once
  /\ pc[e] \in Live /\ reason[e] = "none"
  /\ reason' = [reason EXCEPT ![e] = why]
  /\ FreeSlot(e)
  /\ UNCHANGED <<rows, process, job, pc, graceFired>>
Abort(e, why) ==
  /\ pc[e] \in Live /\ reason[e] = "none"
  /\ reason' = [reason EXCEPT ![e] = why]
  /\ UNCHANGED <<rows, process, inFlight, job, pc, graceFired>>

\* 30 s after any abort, if the execution has not ended: whatever entry its job
\* has is deleted, and the row failed unless the abort was infrastructure's.
GraceDueTimeoutOnly(e) ==  \* mutant: as before the timer covered every abort
  pc[e] \in Live /\ reason[e] = "job" /\ e \notin graceFired
GraceDue(e) == pc[e] \in Live /\ reason[e] # "none" /\ e \notin graceFired

GraceFire(e) ==
  /\ GraceDue(e)
  /\ graceFired' = graceFired \cup {e}
  /\ FreeSlot(e)
  /\ \/ /\ inFlight[job[e]] # 0 /\ reason[e] # "infrastructure" /\ Holds(e)
        /\ Release(job[e])
     \/ UNCHANGED rows
  /\ UNCHANGED <<process, job, pc, reason>>

-----------------------------------------------------------------------------
\* Shutdown.

\* stop(), SIGTERM or SIGINT: nothing is aborted.  (In the CLI process the handlers of
\* process-cleanup.ts exit at once on SIGTERM, which to the queue is a crash.)
Stop ==
  /\ running /\ running' = FALSE
  /\ UNCHANGED <<rows, loop, claims, gracefulShutdownFired, spared, drain, inFlight, executions>>

\* The turn of the loop under way may still claim, or have claimed and not yet launched.
UnderWay ==
  CASE loop = "promoting" -> claims + 1
    [] loop = "claiming" -> claims
    [] OTHER -> 0

\* gracefulShutdown, by the memory watchdog: every entry of the map is aborted.
ReachedOlder == Entries \ {claims}  \* mutant: the walk ends one entry early
Reached == Entries
GracefulShutdown ==
  /\ running /\ running' = FALSE
  /\ gracefulShutdownFired' = TRUE /\ spared' = UnderWay
  /\ reason' = [e \in Executions |->
       IF e \in Reached /\ reason[e] = "none" THEN "job" ELSE reason[e]]
  /\ UNCHANGED <<rows, loop, claims, drain, inFlight, job, pc, graceFired>>

LeaveLoop ==
  /\ loop = "poll" /\ ~running
  /\ loop' = "draining" /\ drain' = Entries
  /\ UNCHANGED <<rows, claims, running, gracefulShutdownFired, spared, inFlight, executions>>

StopLoop ==
  /\ loop = "draining" /\ loop' = "stopped"
  /\ UNCHANGED <<rows, claims, running, gracefulShutdownFired, spared, drain, inFlight, executions>>

\* Promise.race: all promises of the map have settled, or 30 s have passed.
Settled == \A e \in drain : pc[e] = "over"
DrainSettled == Settled /\ StopLoop
DrainTimeoutSettled == Settled /\ StopLoop  \* mutant: allSettled alone
DrainTimeout == ~Settled /\ StopLoop

-----------------------------------------------------------------------------
Answer == Launch \/ LoseAnswer \/ QuietDefer \/ QuietUnlock

Next ==
  \/ \E j \in Jobs : Lose(j) \/ Claim(j)
  \/ BeginTurn \/ FindNothing \/ Answer \/ QuietCancel
  \/ \E e \in Executions :
       \/ HandlerReturns(e) \/ Catch(e, "running") \/ Catch(e, "completing") \/ Complete(e) \/ Fail(e) \/ GraceFire(e)
       \/ \E why \in {"job", "infrastructure"} : Abort(e, why)
  \/ Stop \/ GracefulShutdown \/ LeaveLoop \/ DrainSettled \/ DrainTimeout

Spec == Init /\ [][Next]_vars

\* Statements of the loop are answered and timers fire; no handler need ever end.
Fairness ==
  /\ WF_vars(FindNothing) /\ WF_vars(Answer) /\ WF_vars(QuietCancel)
  /\ WF_vars(LeaveLoop) /\ WF_vars(DrainSettled) /\ WF_vars(DrainTimeout)
  /\ \A e \in Executions : WF_vars(GraceFire(e))

FairSpec == Spec /\ Fairness

-----------------------------------------------------------------------------
\* Properties.

\* An entry of the in-flight map belongs to an execution of that job that has not
\* ended, so no slot is lost for good, although entries are overwritten and deleted
\* by job id.
SlotsLive ==
  \A j \in Jobs : inFlight[j] # 0 => job[inFlight[j]] = j /\ pc[inFlight[j]] \in Live

Ran(e) == pc[e] \in Live \cup {"over"}
Reclaimed(e) == \E f \in Executions \ {e} : job[f] = job[e] /\ Ran(f)

\* An execution at work is missing from the map only if it was evicted, or if this
\* worker claimed the same job twice.
TrackedUnlessReclaimed ==
  \A e \in Executions :
    pc[e] \in Live /\ inFlight[job[e]] # e => e \in graceFired \/ Reclaimed(e)

\* gracefulShutdown reaches every execution at work, the newest too, but the one whose
\* claim was under way when it walked the map, and those whose job was claimed twice.
ShutdownReaches ==
  gracefulShutdownFired =>
    \A e \in Executions :
      pc[e] \in Live /\ reason[e] = "none" => e = spared \/ Reclaimed(e)

\* A slot whose execution has been aborted is freed, or goes to an execution that has
\* not been, whether or not the handler heeds the signal.
HeldByAborted(j) == inFlight[j] # 0 /\ reason[inFlight[j]] # "none"
SlotsFreed == \A j \in Jobs : HeldByAborted(j) ~> ~HeldByAborted(j)

\* The worker stops after it is told to, whatever its handlers do.
ShutdownEnds == ~running ~> loop = "stopped"

\* What worker.ts:4 says: up to `concurrency` jobs at a time.  Executions that have
\* been aborted are not counted.
WithinConcurrency ==
  Cardinality({job[e] : e \in {f \in Executions : pc[f] \in Live /\ reason[f] = "none"}})
    <= Concurrency
=============================================================================
