---------------------------- MODULE LockRenewal ----------------------------
(***************************************************************************)
(* The lock of one execution of a job against the clock.  launchJob        *)
(* (worker.ts) runs runLockRenewalTick (lock-renewal-tick.ts) on an        *)
(* interval of lockDuration / 2; a tick races renewLock against            *)
(* callTimeoutMs, and on an error either gives the execution up or         *)
(* rebuilds the pool and waits for the next tick.  Meanwhile handleStalled *)
(* requeues the row once its lock has run out.  Other executions of the    *)
(* job carry other tokens: to this one they are the row being lost.        *)
(*                                                                         *)
(* Time is a number of equal steps.  Timers fire on time; a statement      *)
(* takes effect in the database at any moment from its start, also after   *)
(* the worker has stopped waiting for it, or never.                        *)
(***************************************************************************)
EXTENDS Integers

CONSTANTS
  LockDuration,   \* lockDuration
  Interval,       \* lockDuration / 2
  CallTimeout,    \* knobs.callTimeoutMs
  SafetyMargin,   \* knobs.safetyMarginMs
  MaxTime         \* when the clock stops

\* The defaults are a third and a sixth of lockDuration.  A callTimeoutMs of a whole
\* interval, which the environment may set, loses the lock with no renewal failing.
KnobsAssumption ==
  /\ {LockDuration, Interval, CallTimeout, SafetyMargin, MaxTime} \subseteq Nat
  /\ 0 < CallTimeout /\ CallTimeout < Interval
  /\ Interval + CallTimeout <= LockDuration
  /\ SafetyMargin <= LockDuration

VARIABLES
  now,
  owned,     \* the row is active and carries this execution's token
  expiry,    \* the lock_until this execution was last given
  phase,     \* "none", "running", "timedOut", "aborted" or "over"
  last,      \* lastSuccessfulRenewalAt
  due,       \* when the renewal interval fires next
  call,      \* what the tick awaits: "idle", "renewing" or "reconnecting"
  since,     \* when it began to
  reply,     \* what the database made of renewLock: "pending", "renewed", "refused"
  stray,     \* a renewLock nobody awaits any more may still take effect
  failed     \* history: a renewLock has failed

row == <<owned, expiry>>
timer == <<last, due, call, since, reply, stray, failed>>
vars == <<now, row, phase, timer>>

Ticking == phase \in {"running", "timedOut"}   \* the interval is not cleared

\* No call is awaited longer than its time limit.
TypeOK ==
  /\ now \in Nat /\ expiry \in Nat /\ last \in Nat /\ due \in Nat /\ since \in Nat
  /\ owned \in BOOLEAN /\ stray \in BOOLEAN /\ failed \in BOOLEAN
  /\ phase \in {"none", "running", "timedOut", "aborted", "over"}
  /\ call \in {"idle", "renewing", "reconnecting"}
  /\ reply \in {"pending", "renewed", "refused"}
  /\ call # "idle" => now - since \in 0..CallTimeout

Init ==
  /\ now = 0 /\ expiry = 0 /\ last = 0 /\ due = 0 /\ since = 0
  /\ owned = FALSE /\ stray = FALSE /\ failed = FALSE
  /\ phase = "none" /\ call = "idle" /\ reply = "pending"

-----------------------------------------------------------------------------
\* The worker claims the job and launches the execution.
Claim ==
  /\ phase = "none"
  /\ phase' = "running" /\ owned' = TRUE
  /\ expiry' = now + LockDuration
  /\ last' = now /\ due' = now + Interval
  /\ UNCHANGED <<now, call, since, reply, stray, failed>>

\* The interval fires; while a tick is in flight it does nothing.
Fire ==
  /\ Ticking /\ due = now
  /\ due' = now + Interval
  /\ IF call = "idle"
       THEN call' = "renewing" /\ since' = now /\ reply' = "pending"
       ELSE UNCHANGED <<call, since, reply>>
  /\ UNCHANGED <<now, row, phase, last, stray, failed>>

\* UPDATE ... SET lock_until WHERE lock_token = $3 AND status = 'active'
Renew == expiry' = IF owned THEN now + LockDuration ELSE expiry

Apply ==
  /\ call = "renewing" /\ reply = "pending" /\ Renew
  /\ reply' = IF owned THEN "renewed" ELSE "refused"
  /\ UNCHANGED <<now, owned, phase, last, due, call, since, stray, failed>>

ApplyLate ==
  /\ stray /\ Renew /\ stray' = FALSE
  /\ UNCHANGED <<now, owned, phase, last, due, call, since, reply, failed>>

\* The first abort clears the interval; one after a timeout does nothing.
Abort == phase' = IF phase = "running" THEN "aborted" ELSE phase

\* renewLock answers in time: renewed, or the token no longer matches.
Answer ==
  /\ Ticking /\ call = "renewing" /\ reply # "pending"
  /\ call' = "idle"
  /\ IF reply = "renewed" THEN last' = now /\ UNCHANGED phase
                          ELSE Abort /\ UNCHANGED last
  /\ UNCHANGED <<now, row, due, since, reply, stray, failed>>

\* renewLock throws, or its time is up.
DeadlinePassedLate == now - last > LockDuration + SafetyMargin  \* mutant: margin added
DeadlinePassed == now - last >= LockDuration - SafetyMargin

Fail ==
  /\ Ticking /\ call = "renewing"
  /\ failed' = TRUE
  /\ stray' = (stray \/ reply = "pending")
  /\ IF DeadlinePassed
       THEN call' = "idle" /\ Abort /\ UNCHANGED since
       ELSE call' = "reconnecting" /\ since' = now /\ UNCHANGED phase
  /\ UNCHANGED <<now, row, last, due, reply>>

\* The bounded reconnect is over, whatever came of it.
Reconnected ==
  /\ Ticking /\ call = "reconnecting" /\ call' = "idle"
  /\ UNCHANGED <<now, row, phase, last, due, since, reply, stray, failed>>

\* timeout_ms has passed: abort.abort('timeout') leaves the interval running.
TimeOut == phase = "running" /\ phase' = "timedOut" /\ UNCHANGED <<now, row, timer>>

Over ==
  /\ phase \in {"running", "timedOut", "aborted"}
  /\ phase' = "over" /\ call' = "idle"
  /\ stray' = (stray \/ (call = "renewing" /\ reply = "pending"))
  /\ UNCHANGED <<now, expiry, last, due, since, reply, failed>>

\* The handler returns and completeJob or failJob gives the row up, or the grace
\* timer evicts it.
Finish == Over /\ owned' = FALSE

\* The process dies, or the execution was aborted for its lock: the row keeps its
\* token until the stall sweep.
Vanish == Over /\ UNCHANGED owned

\* handleStalled takes the row: lock_until < now().  pauseJob does at any time.
Lose == owned /\ owned' = FALSE /\ UNCHANGED <<now, expiry, phase, timer>>
HandleStalled == expiry < now /\ Lose
PauseJob == Lose

\* Time passes unless a timer is due.
CallOverdueNever == FALSE  \* mutant: renewLock awaited without the race
CallOverdue == call # "idle" /\ now >= since + CallTimeout

Tick ==
  /\ now < MaxTime
  /\ ~(Ticking /\ (due = now \/ CallOverdue))
  /\ now' = now + 1
  /\ UNCHANGED <<row, phase, timer>>

Next ==
  \/ Claim \/ Fire \/ Apply \/ ApplyLate \/ Answer \/ Fail \/ Reconnected
  \/ TimeOut \/ Finish \/ Vanish \/ HandleStalled \/ PauseJob \/ Tick

Spec == Init /\ [][Next]_vars

-----------------------------------------------------------------------------
\* Properties.

\* How long an execution may run on after its lock has expired: the tick at
\* hand, its reconnect and the tick after it may each take their whole time limit, and the
\* answer to the last good renewal may have come late.
Overrun == 3 * CallTimeout + Interval - SafetyMargin

\* Two executions overlap for a bounded time.  However renewals fail, hang or are
\* answered late, an execution is told to stop (launchJob's abort) within Overrun
\* of its lock's expiry: a hung connection cannot wedge the renewal timer.
OverrunBounded == phase = "running" => now < expiry + Overrun

\* While every renewal is answered within its time limit the lock does not run
\* out: handleStalled takes no job from an execution that can renew.
RenewedInTime == (Ticking /\ owned /\ ~failed) => now <= expiry

\* What lock-renewal-tick.ts says of its deadline: the worker gives the job up
\* before the stall sweep can take it.
ReleasedBeforeReclaim == (phase = "running" /\ owned) => now <= expiry
=============================================================================
