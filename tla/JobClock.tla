------------------------------ MODULE JobClock ------------------------------
(***************************************************************************)
(* One row of minion_jobs against the clock: what its lock, its deadlines  *)
(* and the sweeps do to it over time.  MinionQueue lets a sweep take any   *)
(* active row; here the row carries the times the sweeps compare.  It may  *)
(* have quiet hours: the worker that claims it inside its window puts it   *)
(* off, or clears its lock in one statement and cancels it in the next.    *)
(*                                                                         *)
(* Times are durations: how much is left of a lock, a deadline or a delay, *)
(* and how long ago something happened.  A worker here is one claim of the *)
(* row and what becomes of it, so a process that crashed and came back is  *)
(* a worker that is idle again.  The row has no parent and may be given    *)
(* one child, whose end wakes it; of the operator's commands only retryJob *)
(* is here.                                                                *)
(***************************************************************************)
EXTENDS Naturals

CONSTANTS
  Worker,
  Nobody,        \* lock_token IS NULL, and so is lock_until
  LockDuration,
  Timeout,       \* timeout_ms; 0 is NULL
  MaxStalled, MaxAttempts,
  Backoff,       \* the delay of a retry
  Policies,      \* what the row's quiet_hours.policy may be
  QuietDelay,    \* the 15 minutes of a deferral
  Interval,      \* stalledInterval
  MaxRevivals,   \* bound: how often an operator retries the dead job
  Crashes,       \* whether processes crash
  WithChild      \* whether the row may be given a child

ClockAssumption ==
  /\ Nobody \notin Worker
  /\ {LockDuration, MaxStalled, MaxAttempts, Interval} \subseteq Nat \ {0}
  /\ {Timeout, Backoff, QuietDelay, MaxRevivals} \subseteq Nat
  /\ Policies \subseteq {"defer", "skip"} /\ {Crashes, WithChild} \subseteq BOOLEAN

VARIABLES
  status, error,
  owner,          \* lock_token: the worker whose claim it names
  lockLeft,       \* time until lock_until
  timeoutLeft,    \* time until timeout_at
  delayLeft,      \* time until delay_until
  started,        \* started_at IS NOT NULL
  age,            \* time since started_at
  attemptsMade, stalledCounter,
  does,           \* what each worker does with its claim
  policy,         \* quiet_hours.policy, set by add()
  quiet,          \* the wall clock is inside the window
  sweep,          \* the next statement of a sweep under way
  sinceSweep,     \* time since the last one
  child,          \* the row's child: none yet, open, ended
  overridden,     \* history: a deferral hit the row as it waited for its child
  sinceClaim,     \* history: time since the last claim
  revivals        \* history: how often retryJob revived the row

lock == <<owner, lockLeft>>
deadlines == <<timeoutLeft, delayLeft, started, age, sinceClaim>>
counters == <<attemptsMade, stalledCounter>>
window == <<policy, quiet>>
family == <<child, overridden>>
timer == <<sweep, sinceSweep>>
vars == <<status, error, lock, deadlines, counters, does, window, timer, family, revivals>>

Terminal == {"completed", "dead", "cancelled"}

\* What handleWallClockTimeouts compares now() - started_at with.
Threshold == IF Timeout # 0 THEN 2 * Timeout ELSE 2 * LockDuration * MaxStalled

\* Beyond these ages nothing changes.
AgeCap == Threshold + 1
ClaimCap == Threshold + Interval + 2
Older(t, cap) == IF t < cap THEN t + 1 ELSE cap
Sooner(t) == IF t = 0 THEN 0 ELSE t - 1
DelayCap == IF Backoff > QuietDelay THEN Backoff ELSE QuietDelay

TypeOK ==
  /\ status \in {"waiting", "active", "delayed", "waiting-children"} \cup Terminal
  /\ error \in {"none", "error", "stalled", "timeout", "wall-clock"}
  /\ owner \in Worker \cup {Nobody}
  /\ lockLeft \in 0..LockDuration
  /\ timeoutLeft \in 0..Timeout
  /\ delayLeft \in 0..DelayCap
  /\ started \in BOOLEAN /\ age \in 0..AgeCap /\ sinceClaim \in 0..ClaimCap
  /\ attemptsMade \in 0..(MaxAttempts + MaxRevivals)
  /\ stalledCounter \in 0..(MaxStalled + MaxRevivals)
  /\ does \in [Worker -> {"idle", "claimed", "skipping", "running"}]
  /\ policy \in Policies /\ quiet \in BOOLEAN
  /\ sweep \in {"stalled", "timeouts", "wall-clock"} /\ sinceSweep \in 0..Interval
  /\ child \in {"none", "open", "ended"} /\ overridden \in BOOLEAN
  /\ revivals \in 0..MaxRevivals

Init ==
  /\ status = "waiting" /\ error = "none"
  /\ owner = Nobody /\ lockLeft = 0 /\ timeoutLeft = 0 /\ delayLeft = 0
  /\ started = FALSE /\ age = 0 /\ sinceClaim = 0
  /\ attemptsMade = 0 /\ stalledCounter = 0
  /\ does = [w \in Worker |-> "idle"]
  /\ policy \in Policies /\ quiet \in BOOLEAN
  /\ sweep = "stalled" /\ sinceSweep = 0
  /\ child = "none" /\ overridden = FALSE
  /\ revivals = 0

-----------------------------------------------------------------------------
\* The statements.  Every one that ends an execution clears token and lock.
Unlock == owner' = Nobody /\ lockLeft' = 0
Holds(w) == status = "active" /\ owner = w
Now(w, phase) == does' = [does EXCEPT ![w] = phase]

\* claim(): started_at keeps the time of the first claim.
ClaimUnstamped(w) ==  \* mutant: started_at is left to the first statement of the execution
  /\ status = "waiting" /\ does[w] = "idle" /\ Now(w, "claimed")
  /\ status' = "active" /\ owner' = w /\ lockLeft' = LockDuration
  /\ timeoutLeft' = Timeout
  /\ UNCHANGED <<started, age>>
  /\ sinceClaim' = 0
  /\ UNCHANGED <<error, delayLeft, counters, window, timer, family, revivals>>
Claim(w) ==
  /\ status = "waiting" /\ does[w] = "idle" /\ Now(w, "claimed")
  /\ status' = "active" /\ owner' = w /\ lockLeft' = LockDuration
  /\ timeoutLeft' = Timeout
  /\ started' = TRUE /\ age' = IF started THEN age ELSE 0
  /\ sinceClaim' = 0
  /\ UNCHANGED <<error, delayLeft, counters, window, timer, family, revivals>>

\* The row is outside its window, or has none: then it is never quiet.
Launch(w) ==
  /\ does[w] = "claimed" /\ ~quiet /\ Now(w, "running")
  /\ UNCHANGED <<status, error, lock, deadlines, counters, window, timer, family, revivals>>

\* handleQuietHoursDefer, 'defer'.  It compares the token only; a statement that
\* fails is logged and changes nothing.
Defer(w) ==
  /\ does[w] = "claimed" /\ policy = "defer" /\ quiet /\ Now(w, "idle")
  /\ \/ /\ owner = w
        /\ status' = "delayed" /\ delayLeft' = QuietDelay /\ Unlock
        /\ overridden' = (overridden \/ status = "waiting-children")
     \/ UNCHANGED <<status, delayLeft, lock, overridden>>
  /\ UNCHANGED <<error, timeoutLeft, started, age, sinceClaim, counters, window, timer>>
  /\ UNCHANGED <<child, revivals>>

\* 'skip', the first statement.
SkipUnlocks(w) ==
  /\ does[w] = "claimed" /\ policy = "skip" /\ quiet
  /\ \/ /\ Now(w, "skipping")
        /\ IF owner = w THEN Unlock ELSE UNCHANGED lock
     \/ Now(w, "idle") /\ UNCHANGED lock
  /\ UNCHANGED <<status, error, deadlines, counters, window, timer, family, revivals>>

\* 'skip', then cancelJob, or when it throws the plain UPDATE, which leaves the
\* lock and the child as they are: whoever has the row by now.  Both may fail.
SkipCancels(w) ==
  /\ does[w] = "skipping" /\ Now(w, "idle")
  /\ \/ /\ status \notin Terminal /\ status' = "cancelled"
        /\ \/ Unlock /\ child' = IF child = "open" THEN "ended" ELSE child
           \/ UNCHANGED <<lock, child>>
     \/ UNCHANGED <<status, lock, child>>
  /\ UNCHANGED <<error, deadlines, counters, window, timer, overridden, revivals>>

\* renewLock().
Renew(w) ==
  /\ does[w] = "running" /\ Holds(w) /\ lockLeft' = LockDuration
  /\ UNCHANGED <<status, error, owner, deadlines, counters, does, window, timer, family, revivals>>

Complete(w) ==
  /\ does[w] = "running" /\ Holds(w) /\ Now(w, "idle")
  /\ status' = "completed" /\ Unlock
  /\ UNCHANGED <<error, deadlines, counters, window, timer, family, revivals>>

\* failJob(): another attempt after the backoff while the budget lasts, unless the
\* error is an unrecoverable one.
AttemptLeft == attemptsMade + 1 < MaxAttempts
Fail(w) ==
  /\ does[w] = "running" /\ Holds(w) /\ Now(w, "idle")
  /\ \/ AttemptLeft /\ status' = "delayed" /\ delayLeft' = Backoff
     \/ status' = "dead" /\ UNCHANGED delayLeft
  /\ error' = "error" /\ attemptsMade' = attemptsMade + 1 /\ Unlock
  /\ UNCHANGED <<timeoutLeft, started, age, sinceClaim, stalledCounter, window, timer>>
  /\ UNCHANGED <<family, revivals>>

\* The execution ends without a word: its last call finds the row in other hands;
\* or it was aborted for a lock about to expire, or its process crashed.
Vanish(w) ==
  /\ does[w] # "idle" /\ Now(w, "idle")
  /\ Crashes \/ (does[w] = "running" /\ ~Holds(w))
  /\ UNCHANGED <<status, error, lock, deadlines, counters, window, timer, family, revivals>>

PromoteDelayed ==
  /\ status = "delayed" /\ delayLeft = 0
  /\ status' = "waiting" /\ Unlock
  /\ UNCHANGED <<error, deadlines, counters, does, window, timer, family, revivals>>

\* retryJob(): no counter and no time is reset.
RetryJob ==
  /\ status = "dead" /\ revivals < MaxRevivals
  /\ status' = "waiting" /\ error' = "none" /\ Unlock /\ delayLeft' = 0
  /\ revivals' = revivals + 1
  /\ UNCHANGED <<timeoutLeft, started, age, sinceClaim, counters, does, window, timer, family>>

\* add() of a child, by a handler or from outside.  It does not look at the lock.
FlipsUndelayed == status \in {"waiting", "active"}  \* mutant
Flips == status \in {"waiting", "active", "delayed"}
AddChild ==
  /\ WithChild /\ child = "none" /\ child' = "open"
  /\ status' = IF Flips THEN "waiting-children" ELSE status
  /\ UNCHANGED <<error, lock, deadlines, counters, does, window, timer, overridden, revivals>>

\* The child completes, or ends otherwise under 'continue' or 'ignore'.
EndChild ==
  /\ child = "open" /\ child' = "ended"
  /\ status' = IF status = "waiting-children" THEN "waiting" ELSE status
  /\ UNCHANGED <<error, lock, deadlines, counters, does, window, timer, overridden, revivals>>

-----------------------------------------------------------------------------
\* The sweep timer of some worker: three statements, in this order, once per
\* Interval.  None is ever late and none fails.

\* A lock_until that is NULL is never less than now().
Stalls == status = "active" /\ owner # Nobody /\ lockLeft = 0
HandleStalled ==
  /\ sweep = "stalled" /\ sinceSweep = Interval /\ sweep' = "timeouts"
  /\ IF Stalls
     THEN /\ stalledCounter' = stalledCounter + 1
          /\ \/ /\ stalledCounter + 1 < MaxStalled
                /\ status' = "waiting" /\ UNCHANGED <<error, attemptsMade>>
             \/ /\ stalledCounter + 1 >= MaxStalled
                /\ status' = "dead" /\ error' = "stalled" /\ attemptsMade' = attemptsMade + 1
          /\ Unlock
     ELSE UNCHANGED <<status, error, lock, counters>>
  /\ UNCHANGED <<deadlines, does, window, sinceSweep, family, revivals>>

\* What handleTimeouts() and handleWallClockTimeouts() do to a row they match.
DeadLetter(text) ==
  /\ status' = "dead" /\ error' = text /\ attemptsMade' = attemptsMade + 1 /\ Unlock
Spared == UNCHANGED <<status, error, lock, attemptsMade>>

TimesOut == status = "active" /\ Timeout # 0 /\ timeoutLeft = 0 /\ lockLeft > 0
HandleTimeouts ==
  /\ sweep = "timeouts" /\ sweep' = "wall-clock"
  /\ IF TimesOut THEN DeadLetter("timeout") ELSE Spared
  /\ UNCHANGED <<deadlines, stalledCounter, does, window, sinceSweep, family, revivals>>

OverdueIfLocked ==  \* mutant: the wall-clock sweep compares lock_until too
  status = "active" /\ started /\ age > Threshold /\ owner # Nobody
Overdue == status = "active" /\ started /\ age > Threshold
HandleWallClockTimeouts ==
  /\ sweep = "wall-clock" /\ sweep' = "stalled" /\ sinceSweep' = 0
  /\ IF Overdue THEN DeadLetter("wall-clock") ELSE Spared
  /\ UNCHANGED <<deadlines, stalledCounter, does, window, family, revivals>>

\* Nothing compares the times of a row that has completed or was cancelled.
Over == status \in {"completed", "cancelled"}

\* Time passes while no sweep is due.
Tick ==
  /\ ~Over
  /\ sweep = "stalled" /\ sinceSweep < Interval /\ sinceSweep' = sinceSweep + 1
  /\ lockLeft' = Sooner(lockLeft) /\ timeoutLeft' = Sooner(timeoutLeft)
  /\ delayLeft' = Sooner(delayLeft)
  /\ age' = IF started THEN Older(age, AgeCap) ELSE age
  /\ sinceClaim' = Older(sinceClaim, ClaimCap)
  /\ UNCHANGED <<status, error, owner, started, counters, does, window, sweep, family, revivals>>

\* The window opens or closes.
TurnHour ==
  /\ ~Over /\ quiet' = ~quiet /\ UNCHANGED policy
  /\ UNCHANGED <<status, error, lock, deadlines, counters, does, timer, family, revivals>>

Sweep == HandleStalled \/ HandleTimeouts \/ HandleWallClockTimeouts

Next ==
  \/ \E w \in Worker :
       \/ Claim(w) \/ Launch(w) \/ Defer(w) \/ SkipUnlocks(w) \/ SkipCancels(w)
       \/ Renew(w) \/ Complete(w) \/ Fail(w) \/ Vanish(w)
  \/ PromoteDelayed \/ RetryJob \/ AddChild \/ EndChild \/ Sweep \/ Tick \/ TurnHour

Spec == Init /\ [][Next]_vars

\* Time passes, the sweeps run, delayed rows are promoted and waiting ones claimed;
\* the child, a row of this kind, ends; a worker gets past the one statement it awaits
\* after its claim, and an execution that lost the row ends (LockRenewal).  Nothing
\* obliges a handler to return.
Fairness ==
  /\ WF_vars(Tick) /\ WF_vars(Sweep) /\ WF_vars(PromoteDelayed) /\ WF_vars(EndChild)
  /\ WF_vars(\E w \in Worker : Claim(w))
  /\ \A w \in Worker :
       /\ WF_vars(Launch(w) \/ Defer(w) \/ SkipUnlocks(w) \/ SkipCancels(w))
       /\ WF_vars(does[w] = "running" /\ ~Holds(w) /\ Vanish(w))

FairSpec == Spec /\ Fairness

-----------------------------------------------------------------------------
\* Properties.

\* However its claim ends, a row stays active no longer than the wall-clock
\* threshold and one sweep: also when a skip cleared its lock and died before the
\* cancel, which leaves a row no other sweep matches.
ActiveBounded == status = "active" => sinceClaim <= Threshold + Interval

\* A job ends: once its window closes for good, deferrals, retries, stalls,
\* crashes and handlers that hang do not keep it from a terminal status.
JobSettles == <>[](~quiet) => <>[](status \in Terminal)

\* A row given a child runs after it, with two exceptions: retryJob does not ask, and
\* a deferral compares only the token, which add() leaves on the row it puts to sleep.
ChildFirst ==
  status \in {"waiting", "active"} /\ child = "open" => overridden \/ revivals > 0

\* handleWallClockTimeouts() dead-letters active jobs "that exceed a wall-clock
\* runtime threshold": one that no sweep found stalled and no operator revived has
\* run that long when it is killed, and one put off by quiet hours is picked up
\* again and runs.
RunsItsTime ==
  [][error # "wall-clock" /\ error' = "wall-clock" =>
       stalledCounter > 0 \/ revivals > 0 \/ sinceClaim > Threshold]_vars
=============================================================================
