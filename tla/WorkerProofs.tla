----------------------------- MODULE WorkerProofs -----------------------------
(***************************************************************************)
(* Proofs about a worker, for any set of jobs, any concurrency and any     *)
(* number of claims: no slot of the in-flight map is lost, and the map and *)
(* the watchdog's shutdown miss only executions of jobs claimed twice.     *)
(* About the renewal of a lock, for every setting of the knobs within      *)
(* KnobsAssumption: a job whose renewals succeed keeps its lock, and one   *)
(* whose renewals fail is told to stop within Overrun of the lock's        *)
(* expiry.  About a row against the clock, for any workers and every       *)
(* setting of its times: it is not active past the wall-clock threshold    *)
(* and one sweep, and its child ends before it runs.                       *)
(***************************************************************************)
EXTENDS MinionWorker, JobTiming, TLAPS

USE ConcurrencyAssumption
USE DEF Executions, Live, Reasons, rows, process, executions, vars

-----------------------------------------------------------------------------
\* Type correctness.

LEMMA TypeInit == Init => TypeOK
<1> SUFFICES ASSUME Init PROVE TypeOK
  OBVIOUS
<1>1. (CHOOSE j \in Jobs : TRUE) \in Jobs
  BY JobsAssumption
<1>2. RowTypes /\ TokensOwned
  BY DEF Init, RowTypes, TokensOwned
<1>3. ProcessTypes
  <2>1. running \in BOOLEAN /\ gracefulShutdownFired \in BOOLEAN
    BY Zenon DEF Init
  <2>2. /\ drain \subseteq Executions /\ claims \in 0..MaxClaims
        /\ spared \in 0..(MaxClaims + 1)
    BY DEF Init
  <2>3. /\ loop \in {"poll", "promoting", "claiming", "skipping", "draining", "stopped"}
        /\ loop \in {"claiming", "skipping"} => claims > 0
    BY DEF Init
  <2> QED
    BY <2>1, <2>2, <2>3 DEF ProcessTypes
<1>4. ExecutionTypes
  BY <1>1 DEF Init, ExecutionTypes
<1> QED
  BY <1>2, <1>3, <1>4 DEF TypeOK

\* A row that is released, or left alone, keeps the types of rows.
LEMMA ReleasedRow ==
  ASSUME TypeOK, NEW j \in Jobs, Release(j) \/ UNCHANGED rows,
         UNCHANGED <<claims, job>>
  PROVE  RowTypes' /\ TokensOwned'
<1>1. CASE Release(j)
  <2>1. RowTypes'
    BY <1>1 DEF TypeOK, RowTypes, ProcessTypes, Release
  <2>2. TokensOwned'
    BY <1>1 DEF TypeOK, RowTypes, TokensOwned, Release
  <2> QED
    BY <2>1, <2>2
<1>2. CASE UNCHANGED rows
  BY <1>2 DEF TypeOK, RowTypes, TokensOwned
<1> QED
  BY <1>1, <1>2

\* A step of the poll loop that makes no claim keeps the types of the process.
LEMMA LoopMoves ==
  ASSUME TypeOK, claims' = claims, running' = running,
         gracefulShutdownFired' = gracefulShutdownFired, spared' = spared,
         \/ loop' \in {"poll", "promoting", "draining", "stopped"}
         \/ loop' = "skipping" /\ loop = "claiming",
         drain' \in {drain, Entries}
  PROVE  ProcessTypes'
<1>1. Entries \subseteq Executions
  BY DEF TypeOK, ExecutionTypes, ProcessTypes, Entries
<1>2. drain' \subseteq Executions /\ spared' \in 0..(MaxClaims + 1)
  BY <1>1 DEF TypeOK, ProcessTypes
<1>3. running' \in BOOLEAN /\ gracefulShutdownFired' \in BOOLEAN
  BY DEF TypeOK, ProcessTypes
<1>4. /\ loop' \in {"poll", "promoting", "claiming", "skipping", "draining", "stopped"}
      /\ loop' \in {"claiming", "skipping"} => claims' > 0
      /\ claims' \in 0..MaxClaims
  BY DEF TypeOK, ProcessTypes
<1> QED
  BY <1>2, <1>3, <1>4 DEF ProcessTypes

\* An execution that ends keeps the types of executions.
LEMMA Ended ==
  ASSUME TypeOK, NEW e \in Executions, NEW from, End(e, from), UNCHANGED <<claims, job>>
  PROVE  ExecutionTypes'
<1>1. inFlight' \in [Jobs -> 0..claims']
  BY DEF TypeOK, ExecutionTypes, ProcessTypes, End, FreeSlot
<1>2. pc' \in [Executions -> {"none", "claimed", "dropped", "over"} \cup Live]
  BY DEF TypeOK, ExecutionTypes, End, Step
<1>3. reason' \in [Executions -> Reasons] /\ graceFired' \subseteq Executions
  BY DEF TypeOK, ExecutionTypes, End
<1> QED
  BY <1>1, <1>2, <1>3 DEF TypeOK, ExecutionTypes

LEMMA ProcessKept == ASSUME TypeOK, UNCHANGED process PROVE ProcessTypes'
BY DEF TypeOK, ProcessTypes

LEMMA RowsKept ==
  ASSUME TypeOK, UNCHANGED <<rows, claims, job>> PROVE RowTypes' /\ TokensOwned'
BY DEF TypeOK, RowTypes, TokensOwned

LEMMA ExecutionsKept ==
  ASSUME TypeOK, UNCHANGED <<inFlight, executions, claims>> PROVE ExecutionTypes'
BY DEF TypeOK, ExecutionTypes

\* Every step keeps the types; a token is given out and cleared with the row.
LEMMA TypeStep == TypeOK /\ [Next]_vars => TypeOK'
<1> SUFFICES ASSUME TypeOK, [Next]_vars PROVE TypeOK'
  OBVIOUS
<1>1. ASSUME NEW j \in Jobs, Lose(j) PROVE TypeOK'
  BY <1>1, ReleasedRow, ProcessKept, ExecutionsKept DEF TypeOK, Lose
<1>2. ASSUME NEW j \in Jobs, Claim(j) PROVE TypeOK'
  <2>1. RowTypes'
    BY <1>2 DEF TypeOK, RowTypes, ProcessTypes, Claim
  <2>2. ProcessTypes'
    BY <1>2 DEF TypeOK, ProcessTypes, Claim
  <2>3. ExecutionTypes'
    BY <1>2 DEF TypeOK, ProcessTypes, ExecutionTypes, Claim
  <2>4. TokensOwned'
    BY <1>2 DEF TypeOK, RowTypes, ProcessTypes, ExecutionTypes, TokensOwned, Claim
  <2> QED
    BY <2>1, <2>2, <2>3, <2>4 DEF TypeOK
<1>3. ASSUME BeginTurn \/ FindNothing \/ LeaveLoop \/ DrainSettled \/ DrainTimeout
      PROVE  TypeOK'
  <2>1. ProcessTypes'
    <3>1. /\ claims' = claims /\ running' = running
          /\ gracefulShutdownFired' = gracefulShutdownFired /\ spared' = spared
      BY <1>3 DEF BeginTurn, FindNothing, LeaveLoop, DrainSettled, DrainTimeout, StopLoop
    <3>2. loop' \in {"poll", "promoting", "draining", "stopped"}
      BY <1>3 DEF BeginTurn, FindNothing, LeaveLoop, DrainSettled, DrainTimeout, StopLoop
    <3>3. drain' \in {drain, Entries}
      BY <1>3 DEF BeginTurn, FindNothing, LeaveLoop, DrainSettled, DrainTimeout, StopLoop
    <3> QED
      BY <3>1, <3>2, <3>3, LoopMoves
  <2>2. UNCHANGED <<rows, claims, inFlight, executions>>
    BY <1>3 DEF BeginTurn, FindNothing, LeaveLoop, DrainSettled, DrainTimeout, StopLoop
  <2> QED
    BY <2>1, <2>2, RowsKept, ExecutionsKept DEF TypeOK
<1>4. CASE Launch
  <2>1. ExecutionTypes'
    BY <1>4 DEF TypeOK, ProcessTypes, ExecutionTypes, Launch
  <2> QED
    BY <1>4, <2>1, RowsKept, LoopMoves DEF TypeOK, Launch
<1>5. ASSUME LoseAnswer \/ QuietDefer \/ QuietUnlock PROVE TypeOK'
  <2>1. ExecutionTypes'
    BY <1>5 DEF TypeOK, ProcessTypes, ExecutionTypes, LoseAnswer, QuietDefer, QuietUnlock,
                Drop
  <2>2. ProcessTypes'
    BY <1>5, LoopMoves DEF LoseAnswer, QuietDefer, QuietUnlock
  <2>3. job[claims] \in Jobs
    BY <1>5 DEF TypeOK, ProcessTypes, ExecutionTypes, LoseAnswer, QuietDefer, QuietUnlock
  <2>4. CASE LoseAnswer
    BY <2>1, <2>2, <2>4, RowsKept DEF TypeOK, LoseAnswer
  <2>5. CASE QuietDefer
    BY <2>1, <2>2, <2>3, <2>5, ReleasedRow DEF TypeOK, QuietDefer
  <2>6. CASE QuietUnlock
    <3>1. token' = token \/ token' = [token EXCEPT ![job[claims]] = 0]
      BY <2>6 DEF QuietUnlock
    <3>2. RowTypes'
      BY <2>6, <2>3, <3>1 DEF TypeOK, RowTypes, ProcessTypes, QuietUnlock
    <3>3. TokensOwned'
      BY <2>6, <2>3, <3>1 DEF TypeOK, RowTypes, TokensOwned, QuietUnlock
    <3> QED
      BY <2>1, <2>2, <3>2, <3>3 DEF TypeOK
  <2> QED
    BY <1>5, <2>4, <2>5, <2>6
<1>6. CASE QuietCancel
  <2>1. job[claims] \in Jobs
    BY <1>6 DEF TypeOK, ProcessTypes, ExecutionTypes, QuietCancel
  <2>2. ProcessTypes'
    <3>1. /\ claims' = claims /\ running' = running /\ drain' = drain
          /\ gracefulShutdownFired' = gracefulShutdownFired /\ spared' = spared
      BY <1>6 DEF QuietCancel
    <3>2. loop' = "poll"
      BY <1>6 DEF QuietCancel
    <3> QED
      BY <3>1, <3>2, LoopMoves
  <2> QED
    BY <1>6, <2>1, <2>2, ReleasedRow, ExecutionsKept DEF TypeOK, QuietCancel
<1>7. ASSUME NEW e \in Executions, HandlerReturns(e) PROVE TypeOK'
  <2>1. ExecutionTypes'
    BY <1>7 DEF TypeOK, ExecutionTypes, HandlerReturns, Step
  <2> QED
    BY <1>7, <2>1, RowsKept, ProcessKept DEF TypeOK, HandlerReturns
<1>8. ASSUME NEW e \in Executions, NEW from \in {"running", "completing"}, Catch(e, from)
      PROVE TypeOK'
  <2>1. ASSUME End(e, from) PROVE ExecutionTypes'
    BY <1>8, <2>1, Ended DEF Catch
  <2>2. ASSUME Step(e, from, "failing"), UNCHANGED <<inFlight, reason, graceFired>>
        PROVE ExecutionTypes'
    BY <1>8, <2>2 DEF TypeOK, ExecutionTypes, Catch, Step
  <2>3. ExecutionTypes'
    BY <1>8, <2>1, <2>2 DEF Catch
  <2> QED
    BY <1>8, <2>3, RowsKept, ProcessKept DEF TypeOK, Catch
<1>9. ASSUME NEW e \in Executions, Complete(e) \/ Fail(e) PROVE TypeOK'
  <2>1. job[e] \in Jobs
    BY DEF TypeOK, ExecutionTypes
  <2>2. ExecutionTypes'
    BY <1>9, Ended DEF Complete, Fail
  <2> QED
    BY <1>9, <2>1, <2>2, ReleasedRow, ProcessKept DEF TypeOK, Complete, Fail
<1>10. ASSUME NEW e \in Executions, GraceFire(e) PROVE TypeOK'
  <2>1. job[e] \in Jobs
    BY DEF TypeOK, ExecutionTypes
  <2>2. ExecutionTypes'
    <3>1. inFlight' \in [Jobs -> 0..claims']
      BY <1>10 DEF TypeOK, ExecutionTypes, ProcessTypes, GraceFire, FreeSlot
    <3>2. graceFired' \subseteq Executions /\ UNCHANGED <<job, pc, reason>>
      BY <1>10 DEF TypeOK, ExecutionTypes, GraceFire
    <3> QED
      BY <3>1, <3>2 DEF TypeOK, ExecutionTypes
  <2> QED
    BY <1>10, <2>1, <2>2, ReleasedRow, ProcessKept DEF TypeOK, GraceFire
<1>11. ASSUME NEW e \in Executions, NEW why \in {"job", "infrastructure"}, Abort(e, why)
       PROVE TypeOK'
  <2>1. ExecutionTypes'
    BY <1>11 DEF TypeOK, ExecutionTypes, Abort
  <2> QED
    BY <1>11, <2>1, RowsKept, ProcessKept DEF TypeOK, Abort
<1>12. CASE Stop \/ GracefulShutdown
  <2>1. ExecutionTypes'
    BY <1>12 DEF TypeOK, ExecutionTypes, Stop, GracefulShutdown
  <2>2. ProcessTypes'
    <3>1. UnderWay \in 0..(MaxClaims + 1)
      BY DEF TypeOK, ProcessTypes, UnderWay
    <3> QED
      BY <1>12, <3>1 DEF TypeOK, ProcessTypes, Stop, GracefulShutdown
  <2> QED
    BY <1>12, <2>1, <2>2, RowsKept DEF TypeOK, Stop, GracefulShutdown
<1>13. CASE UNCHANGED vars
  BY <1>13, RowsKept, ProcessKept, ExecutionsKept DEF TypeOK
<1> QED
  BY <1>1, <1>2, <1>3, <1>4, <1>5, <1>6, <1>7, <1>8, <1>9, <1>10, <1>11, <1>12, <1>13
  DEF Next, Answer

\* The variables of the worker keep their types, and a row that carries a token of
\* this worker is active and was claimed with it.
THEOREM TypeCorrect == Spec => []TypeOK
BY TypeInit, TypeStep, PTL DEF Spec

-----------------------------------------------------------------------------
\* What a step does to the executions and to the map.

Turning == loop \in {"promoting", "claiming"}

\* It leaves them alone,
Idles ==
  /\ UNCHANGED <<inFlight, job, pc, reason, graceFired, claims>>
  /\ loop' = "claiming" => loop = "claiming"
  /\ gracefulShutdownFired' = gracefulShutdownFired /\ spared' = spared
  /\ ~running => ~running' /\ (Turning' => loop' = loop)

\* claims,
Claims(j) ==
  /\ UNCHANGED <<inFlight, reason, graceFired, running, gracefulShutdownFired, spared>>
  /\ loop = "promoting" /\ loop' = "claiming"
  /\ claims < MaxClaims /\ claims' = claims + 1
  /\ job' = [job EXCEPT ![claims + 1] = j]
  /\ pc' = [pc EXCEPT ![claims + 1] = "claimed"]

\* ends a claim without an execution,
Drops ==
  /\ UNCHANGED <<inFlight, job, reason, graceFired, claims, running, gracefulShutdownFired,
                 spared>>
  /\ loop = "claiming" /\ ~Turning'
  /\ pc' = [pc EXCEPT ![claims] = "dropped"]

\* takes an execution on,
Advances(e) ==
  /\ UNCHANGED <<inFlight, job, reason, graceFired, process>>
  /\ pc[e] \in Live /\ \E to \in Live : pc' = [pc EXCEPT ![e] = to]

\* or ends it.
Ends(e) == (\E from \in Live : End(e, from)) /\ UNCHANGED <<job, process>>

StepShape ==
  \/ Idles \/ Launch \/ Drops \/ GracefulShutdown
  \/ \E j \in Jobs : Claims(j)
  \/ \E e \in Executions :
       \/ Advances(e) \/ Ends(e) \/ GraceFire(e)
       \/ \E why \in {"job", "infrastructure"} : Abort(e, why)

LEMMA StepIsShaped == [Next]_vars => StepShape
<1> SUFFICES ASSUME [Next]_vars PROVE StepShape
  OBVIOUS
<1>1. ASSUME NEW j \in Jobs, Lose(j) PROVE Idles
  BY <1>1 DEF Lose, Idles, Turning
<1>2. CASE BeginTurn
  BY <1>2 DEF BeginTurn, Idles, Turning, StepShape
<1>3. CASE FindNothing
  BY <1>3 DEF FindNothing, Idles, Turning, StepShape
<1>4. CASE QuietCancel
  BY <1>4 DEF QuietCancel, Idles, Turning, StepShape
<1>5. CASE Stop
  BY <1>5 DEF Stop, Idles, Turning, StepShape
<1>6. CASE LeaveLoop
  BY <1>6 DEF LeaveLoop, Idles, Turning, StepShape
<1>7. CASE DrainSettled \/ DrainTimeout
  BY <1>7 DEF DrainSettled, DrainTimeout, StopLoop, Idles, Turning, StepShape
<1>8. ASSUME NEW j \in Jobs, Claim(j) PROVE Claims(j)
  BY <1>8 DEF Claim, Claims
<1>9. CASE Answer
  BY <1>9 DEF Answer, LoseAnswer, QuietDefer, QuietUnlock, Drop, Drops, Turning,
               StepShape
<1>10. ASSUME NEW e \in Executions, HandlerReturns(e) PROVE Advances(e)
  BY <1>10 DEF HandlerReturns, Step, Advances
<1>11. ASSUME NEW e \in Executions, NEW from \in {"running", "completing"}, Catch(e, from)
       PROVE  Advances(e) \/ Ends(e)
  BY <1>11 DEF Catch, Step, Advances, Ends
<1>12. ASSUME NEW e \in Executions, Complete(e) \/ Fail(e) PROVE Ends(e)
  BY <1>12 DEF Complete, Fail, Ends
<1>13. CASE UNCHANGED vars
  BY <1>13 DEF Idles, Turning, StepShape
<1> QED
  BY <1>1, <1>2, <1>3, <1>4, <1>5, <1>6, <1>7, <1>8, <1>9, <1>10, <1>11, <1>12, <1>13
  DEF Next, StepShape

-----------------------------------------------------------------------------
\* The inductive invariant.  SlotsLive needs to know that a claim not answered yet is
\* not in the map; TrackedUnlessReclaimed, that an execution that ran is not run
\* again; ShutdownReaches, that an evicted execution had been aborted and that the only
\* execution to come after the walk is that of the turn it found under way.
Book ==
  /\ \A e \in Executions : e > claims => pc[e] = "none"
  /\ loop = "claiming" => pc[claims] = "claimed"
  /\ \A e \in graceFired : reason[e] # "none"

StopsOnce ==
  gracefulShutdownFired =>
    /\ ~running
    /\ loop = "promoting" => spared = claims + 1
    /\ loop = "claiming" => spared = claims
    /\ \A e \in Executions :
         pc[e] \in Live /\ reason[e] = "none" => Reclaimed(e) \/ e = spared

WorkerInv == Book /\ SlotsLive /\ TrackedUnlessReclaimed /\ StopsOnce

LEMMA WorkerInit == Init => WorkerInv
BY DEF Init, WorkerInv, Book, SlotsLive, TrackedUnlessReclaimed, StopsOnce

LEMMA BookStep == TypeOK /\ Book /\ StepShape => Book'
<1> SUFFICES ASSUME TypeOK, Book, StepShape PROVE Book'
  OBVIOUS
<1> USE DEF Book, TypeOK, ProcessTypes, ExecutionTypes
<1>1. CASE Idles
  BY <1>1 DEF Idles
<1>2. CASE Launch
  BY <1>2 DEF Launch
<1>3. CASE Drops
  BY <1>3 DEF Drops, Turning
<1>4. CASE GracefulShutdown
  BY <1>4 DEF GracefulShutdown
<1>5. ASSUME NEW j \in Jobs, Claims(j) PROVE Book'
  BY <1>5 DEF Claims
<1>6. ASSUME NEW e \in Executions, Advances(e) PROVE Book'
  BY <1>6 DEF Advances
<1>7. ASSUME NEW e \in Executions, Ends(e) PROVE Book'
  BY <1>7 DEF Ends, End, Step
<1>8. ASSUME NEW e \in Executions, GraceFire(e) PROVE Book'
  BY <1>8 DEF GraceFire, GraceDue
<1>9. ASSUME NEW e \in Executions, NEW why \in {"job", "infrastructure"}, Abort(e, why)
      PROVE  Book'
  BY <1>9 DEF Abort
<1> QED
  BY <1>1, <1>2, <1>3, <1>4, <1>5, <1>6, <1>7, <1>8, <1>9 DEF StepShape

\* An execution that ran has run, and keeps its job; so has the one that ran beside it.
LEMMA RanForGood ==
  ASSUME TypeOK, Book, StepShape, NEW e \in Executions, Ran(e)
  PROVE  Ran(e)' /\ job'[e] = job[e]
<1> USE DEF Book, TypeOK, ProcessTypes, ExecutionTypes, Ran
<1>1. CASE Idles \/ Launch \/ Drops \/ GracefulShutdown
  BY <1>1 DEF Idles, Launch, Drops, GracefulShutdown
<1>2. ASSUME NEW j \in Jobs, Claims(j) PROVE Ran(e)' /\ job'[e] = job[e]
  BY <1>2 DEF Claims
<1>3. ASSUME NEW f \in Executions, Advances(f) \/ Ends(f) PROVE Ran(e)' /\ job'[e] = job[e]
  BY <1>3 DEF Advances, Ends, End, Step
<1>4. ASSUME NEW f \in Executions, GraceFire(f) PROVE Ran(e)' /\ job'[e] = job[e]
  BY <1>4 DEF GraceFire
<1>5. ASSUME NEW f \in Executions, NEW why \in {"job", "infrastructure"}, Abort(f, why)
      PROVE  Ran(e)' /\ job'[e] = job[e]
  BY <1>5 DEF Abort
<1> QED
  BY <1>1, <1>2, <1>3, <1>4, <1>5 DEF StepShape

LEMMA ReclaimedForGood ==
  ASSUME TypeOK, Book, StepShape, NEW e \in Executions, Ran(e), Reclaimed(e)
  PROVE  Reclaimed(e)'
<1>1. PICK f \in Executions \ {e} : job[f] = job[e] /\ Ran(f)
  BY DEF Reclaimed
<1>2. Ran(f)' /\ job'[f] = job'[e]
  BY <1>1, RanForGood
<1> QED
  BY <1>2 DEF Reclaimed

-----------------------------------------------------------------------------
LEMMA SlotsLiveStep == TypeOK /\ Book /\ SlotsLive /\ StepShape => SlotsLive'
<1> SUFFICES ASSUME TypeOK, Book, SlotsLive, StepShape PROVE SlotsLive'
  OBVIOUS
<1> USE DEF Book, TypeOK, ProcessTypes, ExecutionTypes, SlotsLive
<1>1. CASE Idles \/ Drops \/ GracefulShutdown
  BY <1>1 DEF Idles, Drops, GracefulShutdown
<1>2. CASE Launch
  BY <1>2 DEF Launch
<1>3. ASSUME NEW j \in Jobs, Claims(j) PROVE SlotsLive'
  BY <1>3 DEF Claims
<1>4. ASSUME NEW e \in Executions, Advances(e) PROVE SlotsLive'
  BY <1>4 DEF Advances
<1>5. ASSUME NEW e \in Executions, Ends(e) PROVE SlotsLive'
  BY <1>5 DEF Ends, End, Step, FreeSlot
<1>6. ASSUME NEW e \in Executions, GraceFire(e) PROVE SlotsLive'
  BY <1>6 DEF GraceFire, FreeSlot
<1>7. ASSUME NEW e \in Executions, NEW why \in {"job", "infrastructure"}, Abort(e, why)
      PROVE  SlotsLive'
  BY <1>7 DEF Abort
<1> QED
  BY <1>1, <1>2, <1>3, <1>4, <1>5, <1>6, <1>7 DEF StepShape

\* An execution that has run displaces, or is displaced by, one of its own job.
LEMMA TrackedStep ==
  TypeOK /\ Book /\ TrackedUnlessReclaimed /\ StepShape => TrackedUnlessReclaimed'
<1> SUFFICES ASSUME TypeOK, Book, TrackedUnlessReclaimed, StepShape,
                    NEW e \in Executions, pc'[e] \in Live, inFlight'[job'[e]] # e,
                    e \notin graceFired'
             PROVE  Reclaimed(e)'
  BY DEF TrackedUnlessReclaimed
<1> USE DEF Book, TypeOK, ProcessTypes, ExecutionTypes
\* It suffices that it was missing already, or that another ran.
<1>1. SUFFICES ASSUME ~Reclaimed(e)'
               PROVE  /\ pc[e] \in Live /\ inFlight[job[e]] # e /\ e \notin graceFired
  BY ReclaimedForGood DEF TrackedUnlessReclaimed, Ran
<1>2. \A f \in Executions \ {e} : Ran(f)' => job'[f] # job'[e]
  BY <1>1 DEF Reclaimed
<1>3. CASE Idles \/ Drops \/ GracefulShutdown
  BY <1>3 DEF Idles, Drops, GracefulShutdown
<1>4. CASE Launch
  <2>1. e # claims
    BY <1>4 DEF Launch
  <2>2. Ran(claims)'
    BY <1>4 DEF Launch, Ran
  <2>3. job[claims] # job[e]
    BY <1>2, <1>4, <2>1, <2>2 DEF Launch
  <2> QED
    BY <1>4, <2>1, <2>3 DEF Launch
<1>5. ASSUME NEW j \in Jobs, Claims(j)
      PROVE  pc[e] \in Live /\ inFlight[job[e]] # e /\ e \notin graceFired
  BY <1>5 DEF Claims
<1>6. ASSUME NEW f \in Executions, Advances(f)
      PROVE  pc[e] \in Live /\ inFlight[job[e]] # e /\ e \notin graceFired
  BY <1>6 DEF Advances
<1>7. ASSUME NEW f \in Executions, Ends(f)
      PROVE  pc[e] \in Live /\ inFlight[job[e]] # e /\ e \notin graceFired
  <2>1. e # f /\ Ran(f)'
    BY <1>7 DEF Ends, End, Step, Ran
  <2>2. job[f] # job[e]
    BY <1>2, <1>7, <2>1 DEF Ends
  <2> QED
    BY <1>7, <2>1, <2>2 DEF Ends, End, Step, FreeSlot
<1>8. ASSUME NEW f \in Executions, GraceFire(f)
      PROVE  pc[e] \in Live /\ inFlight[job[e]] # e /\ e \notin graceFired
  <2>1. e # f /\ Ran(f)'
    BY <1>8 DEF GraceFire, GraceDue, Ran
  <2>2. job[f] # job[e]
    BY <1>2, <1>8, <2>1 DEF GraceFire
  <2> QED
    BY <1>8, <2>1, <2>2 DEF GraceFire, FreeSlot
<1>9. ASSUME NEW f \in Executions, NEW why \in {"job", "infrastructure"}, Abort(f, why)
      PROVE  pc[e] \in Live /\ inFlight[job[e]] # e /\ e \notin graceFired
  BY <1>9 DEF Abort
<1> QED
  BY <1>3, <1>4, <1>5, <1>6, <1>7, <1>8, <1>9 DEF StepShape

LEMMA StopsOnceStep ==
  TypeOK /\ Book /\ TrackedUnlessReclaimed /\ StopsOnce /\ StepShape => StopsOnce'
<1> SUFFICES ASSUME TypeOK, Book, TrackedUnlessReclaimed, StopsOnce, StepShape,
                    gracefulShutdownFired'
             PROVE  StopsOnce'
  BY DEF StopsOnce
<1> USE DEF Book, TypeOK, ProcessTypes, ExecutionTypes
<1> DEFINE Missed(e) == pc[e] \in Live /\ reason[e] = "none"
\* An execution that was missed before, and was claimed twice, stays so.
<1>1. ASSUME NEW e \in Executions, Missed(e), Reclaimed(e) PROVE Reclaimed(e)'
  BY <1>1, ReclaimedForGood DEF Ran
<1>2. CASE GracefulShutdown
  <2>1. ASSUME NEW e \in Executions, Missed(e)' PROVE Reclaimed(e)'
    <3>1. Missed(e) /\ e \notin Entries
      BY <1>2, <2>1 DEF GracefulShutdown, Reached
    <3>2. inFlight[job[e]] # e
      BY <3>1 DEF Entries
    <3>3. Reclaimed(e)
      BY <3>1, <3>2 DEF TrackedUnlessReclaimed
    <3> QED
      BY <3>1, <3>3, <1>1
  <2>2. /\ ~running'
        /\ loop' = "promoting" => spared' = claims' + 1
        /\ loop' = "claiming" => spared' = claims'
    BY <1>2 DEF GracefulShutdown, UnderWay
  <2> QED
    BY <2>1, <2>2 DEF StopsOnce
<1>3. ASSUME gracefulShutdownFired, ~running', spared' = spared,
             loop' = "promoting" => spared' = claims' + 1,
             loop' = "claiming" => spared' = claims',
             \A e \in Executions : Missed(e)' => Missed(e) \/ e = spared
      PROVE  StopsOnce'
  <2>1. ASSUME NEW e \in Executions, Missed(e)' PROVE Reclaimed(e)' \/ e = spared'
    <3>1. CASE e = spared
      BY <1>3, <3>1
    <3>2. CASE Missed(e)
      <4>1. Reclaimed(e) \/ e = spared
        BY <1>3, <3>2 DEF StopsOnce
      <4> QED
        BY <1>1, <1>3, <3>2, <4>1
    <3> QED
      BY <1>3, <2>1, <3>1, <3>2
  <2> QED
    BY <1>3, <2>1 DEF StopsOnce
<1>4. CASE Idles
  <2>1. /\ gracefulShutdownFired /\ ~running /\ ~running' /\ spared' = spared
        /\ claims' = claims /\ UNCHANGED <<pc, reason>>
        /\ (loop' = "promoting" \/ loop' = "claiming") => loop' = loop
    BY <1>4 DEF Idles, Turning, StopsOnce
  <2> QED
    BY <1>3, <2>1 DEF StopsOnce
<1>5. CASE Launch
  BY <1>3, <1>5 DEF Launch, StopsOnce
<1>6. CASE Drops
  BY <1>3, <1>6 DEF Drops, Turning, StopsOnce
<1>7. ASSUME NEW j \in Jobs, Claims(j) PROVE StopsOnce'
  BY <1>3, <1>7 DEF Claims, StopsOnce
<1>8. ASSUME NEW e \in Executions, Advances(e) PROVE StopsOnce'
  BY <1>3, <1>8 DEF Advances, StopsOnce
<1>9. ASSUME NEW e \in Executions, Ends(e) PROVE StopsOnce'
  BY <1>3, <1>9 DEF Ends, End, Step, StopsOnce
<1>10. ASSUME NEW e \in Executions, GraceFire(e) PROVE StopsOnce'
  BY <1>3, <1>10 DEF GraceFire, StopsOnce
<1>11. ASSUME NEW e \in Executions, NEW why \in {"job", "infrastructure"}, Abort(e, why)
       PROVE  StopsOnce'
  BY <1>3, <1>11 DEF Abort, StopsOnce
<1> QED
  BY <1>2, <1>4, <1>5, <1>6, <1>7, <1>8, <1>9, <1>10, <1>11 DEF StepShape

-----------------------------------------------------------------------------
LEMMA WorkerInvariant == Spec => []WorkerInv
<1>1. TypeOK /\ WorkerInv /\ [Next]_vars => WorkerInv'
  BY StepIsShaped, BookStep, SlotsLiveStep, TrackedStep, StopsOnceStep DEF WorkerInv
<1> QED
  BY WorkerInit, TypeCorrect, <1>1, PTL DEF Spec

\* An entry of the in-flight map belongs to an execution of that job that has not
\* ended: no order of claims, endings and grace timers loses a slot.
THEOREM SlotsAreLive == Spec => []SlotsLive
<1>1. WorkerInv => SlotsLive
  BY DEF WorkerInv
<1> QED
  BY WorkerInvariant, <1>1, PTL

\* The map misses an execution at work only if it was evicted or its job was claimed
\* twice by this worker.
THEOREM TrackedOrReclaimed == Spec => []TrackedUnlessReclaimed
<1>1. WorkerInv => TrackedUnlessReclaimed
  BY DEF WorkerInv
<1> QED
  BY WorkerInvariant, <1>1, PTL

\* The watchdog's shutdown aborts every execution, the newest too, except the one whose
\* claim was under way when it walked the map and those of jobs claimed twice.
THEOREM ShutdownReachesAll == Spec => []ShutdownReaches
<1>1. WorkerInv => ShutdownReaches
  BY Zenon DEF WorkerInv, StopsOnce, ShutdownReaches
<1> QED
  BY WorkerInvariant, <1>1, PTL

-----------------------------------------------------------------------------
HIDE ConcurrencyAssumption
HIDE DEF Executions, Live, Reasons, rows, process, executions, vars

\* The interval and the calls against the clock.
TimerInv ==
  /\ phase = "none" => call = "idle"
  /\ phase = "aborted" => call = "idle"
  /\ phase = "over" => call = "idle"
  /\ expiry <= now + LockDuration
  /\ Renewal!Ticking => (now <= due /\ due <= now + RenewInterval)
  /\ (call = "renewing" /\ reply = "renewed") => since + LockDuration <= expiry

\* While nothing has failed: the lock outlasts the next tick's time limit.
CleanInv ==
  /\ (call = "renewing" /\ reply = "refused") => ~owned
  /\ (Renewal!Ticking /\ owned /\ ~failed) =>
       /\ call # "reconnecting"
       /\ call = "idle" => due + CallTimeout <= expiry
       /\ call = "renewing" =>
            /\ due = since + RenewInterval
            /\ since + CallTimeout <= expiry

\* The last moment at which a tick that leaves the execution running may fail, and
\* the last moment at which the tick after it starts.
LastFailure == last + LockDuration - SafetyMargin
LastStart == LastFailure + CallTimeout + RenewInterval

\* While the execution runs on: how far it is past its last good renewal.
RunInv ==
  phase = "running" =>
    /\ last <= now /\ last + LockDuration <= expiry + CallTimeout
    /\ call = "idle" => due < LastStart
    /\ call = "renewing" => since < LastStart
    /\ call = "reconnecting" => since < LastFailure

RenewalInv == Renewal!TypeOK /\ TimerInv /\ CleanInv /\ RunInv

\* The part of the type invariant Zenon proves, for SMT to cite.
Flags == owned \in BOOLEAN /\ stray \in BOOLEAN /\ failed \in BOOLEAN

USE DEF Renewal!KnobsAssumption, Renewal!Ticking, Renewal!row, Renewal!timer

\* The initial state, where no execution runs, satisfies the invariant.
LEMMA RenewalInit == ASSUME Renewal!KnobsAssumption, Renewal!Init PROVE RenewalInv
<1>1. Flags /\ ~owned /\ ~stray /\ ~failed
  BY Zenon DEF Renewal!Init, Flags
<1>2. QED
  BY <1>1 DEF Renewal!Init, Flags, RenewalInv, Renewal!TypeOK, TimerInv, CleanInv, RunInv

\* Every statement, timer and answer keeps the invariant.
LEMMA RenewalStep ==
  ASSUME Renewal!KnobsAssumption, RenewalInv, [Renewal!Next]_(Renewal!vars)
  PROVE  RenewalInv'
<1> USE Renewal!KnobsAssumption DEF RenewalInv, Renewal!TypeOK, TimerInv, CleanInv, RunInv,
                            LastFailure, LastStart
<1>1. CASE Renewal!Claim
  BY <1>1 DEF Renewal!Claim
<1>2. CASE Renewal!Fire
  BY <1>2 DEF Renewal!Fire
<1>3. CASE Renewal!Apply
  BY <1>3 DEF Renewal!Apply, Renewal!Renew
<1>4. CASE Renewal!ApplyLate
  <2>1. ~stray' /\ stray' \in BOOLEAN
    BY <1>4, Zenon DEF Renewal!ApplyLate
  <2>2. QED
    BY <1>4, <2>1 DEF Renewal!ApplyLate, Renewal!Renew
<1>5. CASE Renewal!Answer
  BY <1>5 DEF Renewal!Answer, Renewal!Abort
<1>6. CASE Renewal!Fail
  BY <1>6 DEF Renewal!Fail, Renewal!Abort, Renewal!DeadlinePassed
<1>7. CASE Renewal!Reconnected
  BY <1>7 DEF Renewal!Reconnected
<1>8. CASE Renewal!TimeOut
  BY <1>8 DEF Renewal!TimeOut
<1>9. CASE Renewal!Finish
  <2>1. ~owned' /\ owned' \in BOOLEAN /\ stray' \in BOOLEAN
    BY <1>9, Zenon DEF Renewal!Finish, Renewal!Over
  <2>2. QED
    BY <1>9, <2>1 DEF Renewal!Finish, Renewal!Over
<1>10. CASE Renewal!Vanish
  <2>1. stray' \in BOOLEAN
    BY <1>10, Zenon DEF Renewal!Vanish, Renewal!Over
  <2>2. QED
    BY <1>10, <2>1 DEF Renewal!Vanish, Renewal!Over
<1>11. CASE Renewal!HandleStalled \/ Renewal!PauseJob
  <2>1. ~owned' /\ owned' \in BOOLEAN
    BY <1>11, Zenon DEF Renewal!HandleStalled, Renewal!PauseJob, Renewal!Lose
  <2>2. QED
    BY <1>11, <2>1 DEF Renewal!HandleStalled, Renewal!PauseJob, Renewal!Lose
<1>12. CASE Renewal!Tick
  BY <1>12 DEF Renewal!Tick, Renewal!CallOverdue
<1>13. CASE UNCHANGED Renewal!vars
  BY <1>13 DEF Renewal!vars
<1>14. QED
  BY <1>1, <1>2, <1>3, <1>4, <1>5, <1>6, <1>7, <1>8, <1>9, <1>10, <1>11,
     <1>12, <1>13 DEF Renewal!Next

\* Every variable keeps its type, and no call outlives its time limit: the race
\* against callTimeoutMs in runLockRenewalTick.
THEOREM RenewalTypes ==
  ASSUME Renewal!KnobsAssumption PROVE Renewal!Spec => []Renewal!TypeOK
<1>1. Renewal!Init => RenewalInv
  BY RenewalInit
<1>2. RenewalInv /\ [Renewal!Next]_(Renewal!vars) => RenewalInv'
  BY RenewalStep
<1>3. RenewalInv => Renewal!TypeOK
  BY DEF RenewalInv
<1>4. QED
  BY <1>1, <1>2, <1>3, PTL DEF Renewal!Spec

\* A job whose renewals are answered in time is never reclaimed by handleStalled.
THEOREM RenewalsKeepLock ==
  ASSUME Renewal!KnobsAssumption PROVE Renewal!Spec => []RenewedInTime
<1>1. Renewal!Init => RenewalInv
  BY RenewalInit
<1>2. RenewalInv /\ [Renewal!Next]_(Renewal!vars) => RenewalInv'
  BY RenewalStep
<1>3. ASSUME RenewalInv PROVE RenewedInTime
  BY <1>3 DEF RenewalInv, Renewal!TypeOK, TimerInv, CleanInv, RenewedInTime,
              Renewal!RenewedInTime
<1>4. QED
  BY <1>1, <1>2, <1>3, PTL DEF Renewal!Spec

\* An execution is told to stop within Overrun of its lock's expiry, however its
\* renewals fail.
THEOREM StopsInTime == ASSUME Renewal!KnobsAssumption PROVE Renewal!Spec => []OverrunBounded
<1>1. Renewal!Init => RenewalInv
  BY RenewalInit
<1>2. RenewalInv /\ [Renewal!Next]_(Renewal!vars) => RenewalInv'
  BY RenewalStep
<1>3. ASSUME RenewalInv PROVE OverrunBounded
  BY <1>3 DEF RenewalInv, Renewal!TypeOK, TimerInv, RunInv, OverrunBounded,
              Renewal!OverrunBounded, Renewal!Overrun,
              LastFailure, LastStart
<1>4. QED
  BY <1>1, <1>2, <1>3, PTL DEF Renewal!Spec

HIDE DEF Renewal!KnobsAssumption, Renewal!Ticking, Renewal!row, Renewal!timer

-----------------------------------------------------------------------------
\* The variables, as far as the arguments need them.
ClockTypes ==
  /\ status \in {"waiting", "active", "delayed", "waiting-children"} \cup Clock!Terminal
  /\ age \in Nat /\ sinceClaim \in Nat /\ started \in BOOLEAN
  /\ sinceSweep \in 0..StalledInterval /\ revivals \in Nat /\ overridden \in BOOLEAN
  /\ does \in [Claimers -> {"idle", "claimed", "skipping", "running"}]
  /\ owner \in Claimers \cup {NoClaimer} /\ policy \in {"defer", "skip"}
  /\ child \in {"none", "open", "ended"}

\* started_at is at least as old as the last claim, until it is too old to matter.
AgeCovers == started => (sinceClaim <= age \/ age = Clock!AgeCap)

\* Since the last wall-clock sweep the row aged no more than the sweep timer did.
AgesWithSweep == status = "active" => (started /\ sinceClaim <= Clock!Threshold + sinceSweep)

\* Only rows with a skip policy are cancelled with their lock left on them.
SkipOnly ==
  /\ (\E w \in Claimers : does[w] = "skipping") => policy = "skip"
  /\ (policy = "defer" /\ status \in Clock!Terminal) => owner = NoClaimer

\* A parent of an open child is not even delayed, which promotion would end.
ChildHolds ==
  (child = "open" /\ ~overridden /\ revivals = 0)
    => status \notin {"waiting", "active", "delayed"}

ClockInv == ClockTypes /\ AgeCovers /\ AgesWithSweep /\ SkipOnly /\ ChildHolds

\* The times the sweeps compare, and how they are ordered.
LEMMA ClockConstants ==
  ASSUME Clock!ClockAssumption
  PROVE  /\ Clock!Threshold \in Nat /\ StalledInterval \in Nat /\ StalledInterval > 0
         /\ Clock!AgeCap \in Nat
         /\ Clock!ClaimCap \in Nat /\ Clock!AgeCap = Clock!Threshold + 1
         /\ Clock!ClaimCap > Clock!AgeCap
         /\ RowLock \in Nat /\ RowLock > 0 /\ NoClaimer \notin Claimers
         /\ Policies \subseteq {"defer", "skip"}
<1>1. Timeout \in Nat /\ RowLock \in Nat /\ MaxStalled \in Nat /\ StalledInterval \in Nat
      /\ StalledInterval > 0 /\ RowLock > 0
  BY DEF Clock!ClockAssumption
<1>2. RowLock * MaxStalled \in Nat
  BY <1>1
<1>3. 2 * RowLock * MaxStalled = 2 * (RowLock * MaxStalled)
  BY <1>1
<1>4. Clock!Threshold \in Nat
  BY <1>1, <1>2, <1>3 DEF Clock!Threshold
<1> QED
  BY <1>1, <1>4 DEF Clock!ClockAssumption, Clock!AgeCap, Clock!ClaimCap

\* A row that waits for its first claim.
LEMMA ClockInit == ASSUME Clock!ClockAssumption, Clock!Init PROVE ClockInv
<1>1. /\ Clock!Threshold \in Nat /\ StalledInterval \in Nat /\ StalledInterval > 0
      /\ Policies \subseteq {"defer", "skip"}
  BY ClockConstants
<1>2. ClockTypes
  <2>1. policy \in {"defer", "skip"} /\ sinceSweep \in 0..StalledInterval
    BY <1>1 DEF Clock!Init
  <2>2. does \in [Claimers -> {"idle", "claimed", "skipping", "running"}]
    BY DEF Clock!Init
  <2>3. started \in BOOLEAN /\ overridden \in BOOLEAN
    BY DEF Clock!Init
  <2> QED
    BY <2>1, <2>2, <2>3 DEF Clock!Init, ClockTypes
<1> QED
  BY <1>1, <1>2 DEF Clock!Init, ClockInv, ClockTypes, AgeCovers, AgesWithSweep, SkipOnly,
                    ChildHolds, Clock!Terminal

\* Every statement about the row keeps the invariant: those of a worker, the operator's,
\* the sweeps and the clock.
LEMMA ClockStep ==
  ASSUME Clock!ClockAssumption, ClockInv, [Clock!Next]_(Clock!vars) PROVE ClockInv'
<1>0. /\ Clock!Threshold \in Nat /\ StalledInterval \in Nat /\ StalledInterval > 0
      /\ Clock!AgeCap \in Nat
      /\ Clock!ClaimCap \in Nat /\ Clock!AgeCap = Clock!Threshold + 1
      /\ Clock!ClaimCap > Clock!AgeCap
      /\ RowLock \in Nat /\ RowLock > 0 /\ NoClaimer \notin Claimers
  BY ClockConstants
<1> USE <1>0 DEF ClockInv, ClockTypes, AgeCovers, AgesWithSweep, SkipOnly, ChildHolds,
                 Clock!Terminal,
                 Clock!Unlock, Clock!Now, Clock!Holds, Clock!lock, Clock!deadlines,
                 Clock!counters, Clock!window, Clock!family, Clock!timer
<1>1. ASSUME NEW w \in Claimers, Clock!Claim(w) PROVE ClockInv'
  <2>1. /\ status' = "active" /\ started' = TRUE /\ sinceClaim' = 0
        /\ age' = IF started THEN age ELSE 0
        /\ owner' \in Claimers /\ does' = [does EXCEPT ![w] = "claimed"]
        /\ UNCHANGED <<sinceSweep, revivals, overridden, policy, child>>
    BY <1>1 DEF Clock!Claim
  <2>2. ClockTypes' /\ AgeCovers' /\ AgesWithSweep'
    BY <2>1
  <2>3. ChildHolds'
    BY <1>1, <2>1 DEF Clock!Claim
  <2>4. SkipOnly'
    BY <2>1
  <2> QED
    BY <2>2, <2>3, <2>4
<1>2. ASSUME NEW w \in Claimers, Clock!Launch(w) \/ Clock!Renew(w) \/ Clock!Vanish(w)
      PROVE  ClockInv'
  BY <1>2 DEF Clock!Launch, Clock!Renew, Clock!Vanish
<1>3. ASSUME NEW w \in Claimers, Clock!Defer(w) PROVE ClockInv'
  <2>1. CASE UNCHANGED <<status, delayLeft, Clock!lock, overridden>>
    BY <1>3, <2>1 DEF Clock!Defer
  <2>2. CASE /\ owner = w /\ status' = "delayed" /\ Clock!Unlock
             /\ overridden' = (overridden \/ status = "waiting-children")
    <3>1. /\ does' = [does EXCEPT ![w] = "idle"] /\ policy = "defer"
          /\ UNCHANGED <<policy, age, sinceClaim, started, sinceSweep, revivals, child>>
      BY <1>3 DEF Clock!Defer
    <3>2. ChildHolds'
      BY <2>2, <3>1
    <3>3. ClockTypes' /\ AgeCovers' /\ AgesWithSweep' /\ SkipOnly'
      BY <2>2, <3>1
    <3> QED
      BY <3>2, <3>3
  <2> QED
    BY <1>3, <2>1, <2>2 DEF Clock!Defer
<1>4. ASSUME NEW w \in Claimers, Clock!SkipUnlocks(w) PROVE ClockInv'
  BY <1>4 DEF Clock!SkipUnlocks
<1>5. ASSUME NEW w \in Claimers, Clock!SkipCancels(w) PROVE ClockInv'
  BY <1>5 DEF Clock!SkipCancels
<1>6. ASSUME NEW w \in Claimers, Clock!Complete(w) \/ Clock!Fail(w) PROVE ClockInv'
  BY <1>6 DEF Clock!Complete, Clock!Fail
<1>7. CASE Clock!PromoteDelayed \/ Clock!RetryJob
  BY <1>7 DEF Clock!PromoteDelayed, Clock!RetryJob
<1>8. CASE Clock!AddChild \/ Clock!EndChild
  BY <1>8 DEF Clock!AddChild, Clock!EndChild, Clock!Flips
<1>9. CASE Clock!HandleStalled
  BY <1>9 DEF Clock!HandleStalled, Clock!Stalls
<1>10. CASE Clock!HandleTimeouts
  <2>1. CASE Clock!TimesOut
    BY <1>10, <2>1 DEF Clock!HandleTimeouts, Clock!DeadLetter
  <2>2. CASE ~Clock!TimesOut
    BY <1>10, <2>2 DEF Clock!HandleTimeouts, Clock!Spared
  <2> QED
    BY <2>1, <2>2
<1>11. CASE Clock!HandleWallClockTimeouts
  <2>1. CASE Clock!Overdue
    BY <1>11, <2>1 DEF Clock!HandleWallClockTimeouts, Clock!DeadLetter
  <2>2. CASE ~Clock!Overdue
    BY <1>11, <2>2 DEF Clock!HandleWallClockTimeouts, Clock!Overdue, Clock!Spared
  <2> QED
    BY <2>1, <2>2
<1>12. CASE Clock!Tick
  <2>1. /\ sinceSweep' = sinceSweep + 1 /\ sinceSweep' \in 0..StalledInterval
        /\ sinceClaim' \in Nat /\ sinceClaim' <= sinceClaim + 1
        /\ age' \in Nat
        /\ started => age' = IF age < Clock!AgeCap THEN age + 1 ELSE Clock!AgeCap
    BY <1>12 DEF Clock!Tick, Clock!Older
  <2>2. UNCHANGED <<status, error, owner, started, Clock!counters, does, Clock!window,
                   sweep, Clock!family, revivals>>
    BY <1>12 DEF Clock!Tick
  <2>3. AgeCovers'
    BY <2>1, <2>2
  <2> QED
    BY <2>1, <2>2, <2>3
<1>13. CASE Clock!TurnHour \/ UNCHANGED Clock!vars
  BY <1>13 DEF Clock!TurnHour, Clock!vars
<1> QED
  BY <1>1, <1>2, <1>3, <1>4, <1>5, <1>6, <1>7, <1>8, <1>9, <1>10, <1>11, <1>12, <1>13
     DEF Clock!Next, Clock!Sweep

\* However its claim ends, a row is not active for longer than the wall-clock threshold
\* and one sweep: handleWallClockTimeouts looks at no lock.
THEOREM ActiveRowsSwept == ASSUME Clock!ClockAssumption PROVE Clock!Spec => []ActiveBounded
<1>1. ClockInv => ActiveBounded
  BY ClockConstants DEF ClockInv, ClockTypes, AgesWithSweep, ActiveBounded,
                        Clock!ActiveBounded
<1> QED BY ClockInit, ClockStep, <1>1, PTL DEF Clock!Spec

\* A row given a child is not claimed before the child ended, unless a deferral or
\* retryJob overrode that.
THEOREM ChildrenFirst == ASSUME Clock!ClockAssumption PROVE Clock!Spec => []ChildFirst
<1>1. ClockInv => ChildFirst
  BY DEF ClockInv, ClockTypes, ChildHolds, ChildFirst, Clock!ChildFirst
<1> QED BY ClockInit, ClockStep, <1>1, PTL DEF Clock!Spec
=============================================================================
