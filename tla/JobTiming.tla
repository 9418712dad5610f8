------------------------------ MODULE JobTiming ------------------------------
(***************************************************************************)
(* A worker's dealings with time, one job at a time: the renewal of one    *)
(* lock (LockRenewal) and one row against the clock (JobClock).  The parts *)
(* share no variable.  Both have a lockDuration: that of the row is called *)
(* RowLock here.                                                           *)
(***************************************************************************)
EXTENDS Naturals

CONSTANTS
  LockDuration, RenewInterval, CallTimeout, SafetyMargin, MaxTime,
  Claimers, NoClaimer, RowLock, Timeout, MaxStalled, MaxAttempts, Backoff,
  Policies, QuietDelay, StalledInterval, MaxRevivals, Crashes, WithChild

VARIABLES
  now, owned, expiry, phase, last, due, call, since, reply, stray, failed,
  status, error, owner, lockLeft, timeoutLeft, delayLeft, started, age,
  attemptsMade, stalledCounter, does, policy, quiet, sweep, sinceSweep,
  child, overridden, sinceClaim, revivals

renewalVars == <<now, owned, expiry, phase, last, due, call, since, reply, stray, failed>>
clockVars == <<status, error, owner, lockLeft, timeoutLeft, delayLeft, started, age,
               attemptsMade, stalledCounter, does, policy, quiet, sweep, sinceSweep,
               child, overridden, sinceClaim, revivals>>

Renewal == INSTANCE LockRenewal WITH Interval <- RenewInterval

Clock == INSTANCE JobClock WITH
  Worker <- Claimers, Nobody <- NoClaimer, LockDuration <- RowLock,
  Interval <- StalledInterval

-----------------------------------------------------------------------------
\* Two executions of one job overlap for a bounded time, whatever its renewals do.
OverrunBounded == Renewal!OverrunBounded
\* A lock whose renewals are answered in time does not run out.
RenewedInTime == Renewal!RenewedInTime

\* A row is not active for longer than the wall-clock threshold and one sweep.
ActiveBounded == Clock!ActiveBounded
\* A row runs after its child, unless a deferral or an operator's retry overrode that.
ChildFirst == Clock!ChildFirst
\* A job ends once its quiet hours are over for good.
JobSettles == Clock!JobSettles
=============================================================================
