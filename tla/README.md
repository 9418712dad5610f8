# A formal model of GBrain's job system

GBrain is a Bun/TypeScript knowledge base over PostgreSQL (or the embedded
PGLite). Most of it is stateless processing: parsing, chunking, ranking, calls
to model providers. The part whose correctness rests on the order of things is
the *minions* job system in `src/src/core/minions`: a queue of jobs in a
database table, any number of worker processes, jobs with children, locks with a
time to live, sweeps that take back what a dead worker left. Around it stand the
processes and tables that keep it safe to run: the supervisor of a worker,
database locks with a time to live, leases on the model provider, the ledger of
a subagent's tool calls, and, beside the job system, the checkpoint from which
an interrupted sync goes on. This directory models these.

- [System inventory](#system-inventory)
- [Modules](#modules)
- [Runs](#runs)
- [Proofs](#proofs)
- [What the runs disagree with](#what-the-runs-disagree-with)
- [Not modelled](#not-modelled)
- [Plan](#plan)

## System inventory

Paths are relative to `src/src/`.

| Component | State | Operations | What makes it hard | What makes it correct |
|---|---|---|---|---|
| Queue (`core/minions/queue.ts`) | `minion_jobs` rows: status, lock token and expiry, attempt and stall counters, parent, depth, options; `minion_inbox` | add, claim, completeJob, failJob, releaseLeaseFullJob, cancelJob, retryJob, pause, resume, remove, prune; sweeps promoteDelayed, handleStalled, handleTimeouts, handleWallClockTimeouts | any worker may call at any time, also with a token it lost long ago; every method is its own transaction at READ COMMITTED; sleeping parents are woken only by the step that ends the last child | one owner per job; budgets kept; no lost wake-up and no early one; every ending told to the parent; cancellation reaches the subtree; final is final |
| Lock renewal (`core/minions/lock-renewal-tick.ts`, `launchJob`) | last success, the interval timer, a call in flight, the row's `lock_until` | tick, renewLock, bounded reconnect, abort | statements that hang, fail, or land after nobody waits for them, against a lock that expires | a healthy job keeps its lock; an unhealthy one is stopped within a bounded time |
| Worker (`core/minions/worker.ts`) | in-flight map, abort controllers, grace timers, running flag | poll loop, launchJob, executeJob, quiet hours, memory watchdog, health probes, shutdown | timers against late promises; the same job claimed twice by one worker; shutdown while jobs run | concurrency limit; every slot is freed; infrastructure faults burn no attempt |
| Supervisors (`supervisor.ts`, `child-worker-supervisor.ts`, `core/process-cleanup.ts`) | lock row, child process, crash counter, refresh failures, health-check counters, PID file | start, spawn, refresh, exit classification, health check and restart, shutdown, signals | a suspended or failing supervisor and its successor; two listeners of one signal; an answer about a worker that has been replaced | one supervisor's worker at a time; a supervisor stops before its row lapses; a restart is no crash, and is earned |
| Fan-out (`commands/agent.ts`, `handlers/subagent-aggregator.ts`) | aggregator row, children, `children_ids`, inbox | submit, aggregate | the aggregator is claimable before its children exist; reading the inbox marks it read | every child is reported once |
| Subagent loop (`handlers/subagent.ts`) | conversation and tool-call ledger | claim, model call, two-phase tool call, replay, synthesis of results | a crash between any two statements; a second execution beside the first | no tool call that is not idempotent runs twice; the conversation stays one the provider accepts |
| Rate leases (`rate-leases.ts`, `lease-cap-controller.ts`) | lease rows with expiry, the cap | acquire, release, expiry (renew and adjust have no caller) | a holder that outlives its lease or crashes; `now()` of a transaction that waited | at most `max` live calls; capacity comes back |
| Locks (`core/db-lock.ts`, `page-lock.ts`, `pglite-lock.ts`) | lock row, or directory and file: holder, expiry, last refresh | acquire, refresh, release, takeover, reap, break | dead and slow holders; a look and a delete in two steps; files that are half written; pids shared or used again | mutual exclusion while refreshed; a dead holder's row goes |
| Sync (`commands/sync.ts`, `core/op-checkpoint.ts`, `core/sync-failure-ledger.ts`) | bookmark, pinned target and banked paths, failure rows | pin, import, bank, resume, gate, advance, acknowledge, auto-skip | a kill between any two writes; a tree that moves on, or is rewritten, under the run | no file skipped that nobody remembers |
| Pools and pacing (`worker-pool.ts`, `db-pacer.ts`, `retry.ts`) | in-flight counts | run, pace, retry | abort with work under way | limits kept |
| OAuth provider (`oauth-provider.ts`) | codes, tokens | issue, rotate, revoke | concurrent use of one code | single use |

They meet in the database: `add` is called by the command line, by handlers and
by the overnight cycle; a worker's poll loop calls `promoteDelayed` and `claim`
and launches an execution for every row it receives; the execution ends in
`completeJob`, `failJob` or `releaseLeaseFullJob`; a timer of every worker runs
the three sweeps one after the other; an operator's commands call the rest.
Nothing else carries a message between processes: a worker learns that it lost a
job only when a statement with its token matches no row. A worker runs under a
supervisor, and a supervisor under a lock row; a subagent job takes a rate lease
around each model call; a sync runs under a lock row too.

The hazards this gives rise to are listed, each at its line, in `PROJECT.json`.

## Modules

| Module | Models | Proofs |
|---|---|---|
| `JobOwnership` | abstract: what the queue promises about executions | |
| `MinionQueue` | every state-changing queue operation, each as one indivisible step | `MinionQueueProofs` |
| `MCMinionQueue` | its constants for TLC | |
| `AtomicRollup` | abstract: how the endings of one parent's children are meant to look | |
| `ParentRollup` | the transactions behind those endings, statement by statement | `ParentRollupProofs` |
| `MCParentRollup` | symmetry for TLC | |
| `MCRollupSync` | `ParentRollup` and `SourceSync`, side by side, for TLC | |
| `MinionWorker` | one worker: poll loop, in-flight map, executions, shutdown | `WorkerProofs` |
| `LockRenewal` | one execution's lock against the clock | `WorkerProofs` |
| `JobClock` | one row against the clock: lock, deadlines, quiet hours, sweeps | `WorkerProofs` |
| `FanOut` | an aggregator, its children, its inbox and its executions | `FanOutProofs` |
| `DbLock` | one row of `gbrain_cycle_locks` and its contenders | `LocksProofs` |
| `PgliteLock` | the lock directory of a PGLite database, one file-system call at a time | `LocksProofs` |
| `RateLeases` | leases on one key, transaction by transaction | `AgentsProofs` |
| `SubagentLoop` | a subagent job: conversation, tool ledger, executions | `AgentsProofs` |
| `Supervisor` | the supervisors of one queue, their lock row, shutdown and signals | `SupervisionProofs` |
| `ChildSupervisor` | one supervisor's worker processes and its health check | `SupervisionProofs` |
| `SyncResume` | incremental sync of one source, its checkpoint and its failure ledger | `SourceSyncProofs` |
| `JobTiming` | `LockRenewal` and `JobClock` with variables of their own, and what they promise | `WorkerProofs` |
| `Locks` | likewise `DbLock` and `PgliteLock` | `LocksProofs` |
| `Supervision` | likewise `Supervisor` and `ChildSupervisor` | `SupervisionProofs` |
| `Agents` | likewise `RateLeases` and `SubagentLoop` | `AgentsProofs` |
| `SourceSync` | likewise `SyncResume` | `SourceSyncProofs` |
| `MCWorker` | `MinionWorker` and `JobTiming`, side by side, for TLC | |
| `MCServices` | `FanOut`, `Locks`, `Agents` and `Supervision`, side by side, for TLC | |

### MinionQueue

A column of `minion_jobs` is a function of the job id; a row that does not exist
has status `"none"`. One action per method of `MinionQueue` (the class), named
after it. `Commit` is what every method ends with: the new statuses and parents,
with rows deleted under `remove_on_complete`, `remove_on_fail`, `removeJob` or
`prune`, and the foreign keys' `ON DELETE SET NULL` and `CASCADE`. `failJob` is
two actions, by the status the worker asks for; `FailJob` holds the worker's
decision (`executeJob`'s `attemptsExhausted`, or an unrecoverable error or a
forced eviction).

Abstractions, each of which only adds behaviours unless said:

- A lock token is the number of the claim that made it (`attempts_started`). The
  code's token is `workerId:Date.now()`, fresh for each claim of one job.
- The clock: a sweep acts on *any* set of rows with the right status, so every
  choice of deadlines, delays and expiries is covered. What depends on real
  durations is in `LockRenewal`.
- Which waiting row a claim takes (priority, names, `SKIP LOCKED`).
- Every execution ever started may call back with its token at any later time,
  or never: a crashed worker, a lost answer to `claim`, a handler that ignores
  its abort are all cases of this.
- Operator commands (cancel, retry, pause, remove, prune) and lease bounces
  share the bound `MaxInterventions`, and each run names the ones it allows.
- `prune` deletes the statuses its command-line caller uses. An idempotency or
  `maxWaiting` hit in `add` returns a row and changes nothing, which is a
  stutter.

That each method is indivisible is an assumption. `ParentRollup` examines it.

### ParentRollup

The transactions that end or add children of one parent: *finishers*
(completeJob, failJob), which take `FOR UPDATE` on the parent first, *sweepers*
(handleTimeouts, handleWallClockTimeouts, cancelJob), which do not, and
*adders*. `pc` is the next statement of each. Of PostgreSQL it models what
matters here: a statement sees the committed state at its start and its own
writes; row locks in three modes with their conflicts, held to the end; an
UPDATE re-tests its row conditions, but not its `NOT EXISTS`, on a row it waited
for; the key-share lock that inserting into `minion_inbox` takes on the parent;
rollback at any point. PGLite has one connection and no such interleaving.

`AtomicRollup` is the same with indivisible steps. `ImplementsRollup` says that
what is committed always looks like it.

### LockRenewal

One execution, its renewal interval and the stall sweep. Time is a counter;
timers fire when due (`Tick` waits for them), so a starved event loop is outside
the model. A statement takes effect at any moment after it is sent, or never,
also after the tick has given up on it (`stray`). `TimeOut` is the per-job
timeout, after which `launchJob` leaves the interval running. Other executions
of the job carry other tokens; to this one they are `owned` becoming false.

### MinionWorker

The poll loop is a process of its own (`loop`), since it awaits between reading
`this.running`, reading the size of the map and launching. An execution is
numbered by the claim that began it, and `pc` follows `executeJob`. Abort
reasons matter only as infrastructure's or the job's; when an execution ends its
controller and timers are gone, and `End` resets them. `inFlight` is keyed by
job as in the code, so that `FreeSlot` deletes whatever entry the job has. Of a
row the module keeps whether it is active and which token of this worker it
carries: a row that is not active may or may not be there to claim
(`FindNothing` is always possible), and `Lose` is any other actor. Rows have no
children here. What happens after `start()` has returned is the embedding
process's affair; the model lets executions go on. `spared` is history: the
claim under way (`UnderWay`), if there was one, when the watchdog's shutdown
walked the map. A shutdown that finds none under way spares nobody.

### JobClock

What `MinionQueue` leaves to choice, the times a sweep compares, for one row:
how much is left of its lock, of `timeout_at` and of `delay_until`, and how long
ago `started_at` was (`age`). The sweep timer is three statements in the code's
order, once per interval, never late and never failing; between them, and
between a worker's own statements, anything else may happen. `Claim` sets
`started_at` only the first time and nothing clears it, as in the code. A claim
made inside the row's quiet hours goes to `Defer`, or to `SkipUnlocks` and then
`SkipCancels`; a job without quiet hours is one whose window never opens. The
row may get a child at any moment (`AddChild`), which puts it to sleep with its
token. A worker here is one claim of the row, and a crash (`Vanish`) may come at
any statement. `sinceClaim` is history: the time the present execution has had.
Lease bounces and operator commands other than `retryJob` are left out.

### FanOut

`runFanout` as three kinds of step that may each be its last (`AddAggregator`,
`AddChild`, `WriteIds`), the endings of the children, and every execution of the
aggregator's handler: `known` is the `children_ids` its claim returned, and
`readInbox` is two statements (`CheckLock`, `ReadInbox`), between which the row
may be lost. The queue's own steps are those of `MinionQueue`, reduced to one
parent whose children have `on_child_fail = 'continue'`; here they are written
again because `MinionQueue` has no contents of jobs and messages. How a child
ends is one of two outcomes, or `"stalled"` when `handleStalled` ended it.
Operators' commands are left out: `MinionQueue` has them.

### DbLock

One lock row with two clocks: its age and the time since its last refresh. Every
statement of `db-lock.ts` that touches the row is an action. Those that first
look and then delete keep in `seen` what they saw, and other processes act in
between: `tryAcquireDbLock`'s takeover, the background reaper and `sync
--break-lock`. A statement finds the row by primary key and pid as the SQL does
(`Matches`), not by host and not by who acquired it.

A process is born (`Born`) with a pid that no living process of its host has;
processes on other hosts may have it too (containers do), and one that is born
after a death may be given it again. So a refresh, a release or a late delete may
reach a namesake's row, and `kill(pid, 0)` may answer for another process. A
process may die without clean-up. On a signal `CleanUp` deletes its row and it
works on, for up to 3 s in the code, until `Exit`: it counts as working all that
time. `loose` is history: the process let its row lapse, is or was in its exit
clean-up, or lost its row to a delete that was meant for a namesake.

### PgliteLock

The directory is named by the process whose `mkdir` made it and the file by the
process whose token it has; a file opened but not yet filled, or absent, is what
`JSON.parse` throws on. `writeFileSync` and `rmSync` are two calls each, between
which other processes act; `open` remembers whether the file a process has open
is still the one in the directory. If two processes have the same file open the
later write wins (in fact it may leave the tail of the earlier one, which reads
as unreadable). Waiting is a return to the look; the time limit may end it at
any look. `misread` is history: a living process lost its directory to one that
had read something else. Processes of another user, whose `kill(pid, 0)` answer
the code takes for death, and two engines in one process are left out.

### RateLeases

`acquireLease` in its statements: BEGIN, which fixes `now()`; advisory lock,
prune and count; insert or reject; COMMIT frees the lock. A lease is its time to
expiry. A caller is the sequence of executions of one worker slot; it may crash,
and its release may fail unnoticed, as the handler's `.catch(() => {})` allows.
`renewLease`, `renewLeaseWithBackoff` and `controllerTick` have no caller in the
repository and are left out.

### SubagentLoop

`subagentHandler` on its Anthropic path: an execution loads both tables, decides
where to go on (`NextPhase`), replays or runs the tools of a turn without
results, and alternates model calls and turns. Each insert and update is an
action and each may be the last. A tool is idempotent, unsafe, or not in the
registry. `MaxLive` allows overlapping executions; what the properties say they
say of a job whose executions have not overlapped (`crossed`), because the code
has no fence.

### Supervisor and ChildSupervisor

`Supervisor` is about who may have a worker: the lock row of a queue, the
refresh timer and its failures, loss of the row, `shutdown()` in its statements,
and the handlers of `process-cleanup.ts`, which `cli.ts` installs first. A
supervisor may be suspended (`Stall`), killed, hung up on or interrupted at any
point; its worker lives on or ends by itself. `release()` may take any time, as
nothing in the code limits it. Where tini is installed, the child that is
spawned and signalled is tini and the worker is a child of it: SIGTERM is passed
on and SIGKILL cannot be. So `Kill`, at the end of the drain window, may leave
the worker running. `ChildSupervisor` is the inside:
`run()`'s loop, the classification of exits, the hard stop, and `healthCheck`,
whose query and restart are awaited while the worker may end and be replaced.
Time is three ages of a worker (within its startup grace, past it, and stable
enough to forgive an earlier crash). `tini` is chosen at the start; a child
killed under it may leave its worker in `orphans`, which the supervisor takes to
have ended and replaces. Backoff and alerts are left out.

### SyncResume

A commit is its history, a sequence of trees (what each file holds, or that it
is absent). The run's pinned target, its banked paths, the bookmark and the
ledger rows are written at different times, and `Stop` may come after any of
them. `Commit` and `Rewrite` change the tree at any moment; imports read it as
it is then. The gate (`applySyncFailureGate`) writes the ledger, then moves the
bookmark, then marks rows: three actions.

A checkpoint's key contains the bookmark it started from. Whoever moves the
bookmark deletes the rows of the old key afterwards, paths first and then the
target; `clearOpCheckpoint` swallows a failure, and a kill may come first.
`MoveAnchor` therefore leaves any part of the old checkpoint in `left`, and finds
there what the new bookmark once left: after a reset of the tree the bookmark
may come back. That the deletes take effect together with the bookmark or never
loses nothing: a run reads the checkpoint of its own bookmark, so nobody can
look at the old rows before they are gone.

`NothingSkipped` says of every file whose page is not what the working tree has
that a diff to come names it, or it has a row in the ledger. What it excepts,
file by file (`astray`), is what the code does let through; see
[below](#what-the-runs-disagree-with).

### Putting modules side by side

`JobTiming`, `Locks`, `Supervision`, `Agents` and `SourceSync` hold instances of
the component modules. They give every part its own variables and constants
(`Lock` and `Directory` both have a `phase`, so `Locks` has `lockPhase` and
`filePhase`), and they name the properties. `MCWorker`, `MCServices` and
`MCRollupSync` extend them and give the constants small values; the proof modules
extend the same modules and leave the constants open. So a run and a theorem
speak of one definition: `Locks!Exclusive` is what `services` checks of four
processes and what `LockExclusive` states of any number.

`MCWorker` puts three views of a worker beside each other, its slots, one lock
and one row against the clock; `MCServices` does so with the parts around the
queue, and `MCRollupSync` with one parent's roll-up and the sync of one source.
Each is one run: a behaviour chooses one part, and the others rest in a
state without steps. They are sums of instances, not products, and say nothing
about interactions, which each module has inside.

## Runs

| Run | Instance | Checks | Result |
|---|---|---|---|
| `queue_operators` | 3 jobs, depth 2, two option records, all commands, one intervention | `AttemptsOrder`, `NoEarlyWake`, `ChildDoneDelivered`, `ChildCap`, `ImplementsOwnership`, `CancelReachesSubtree`, `DoneIsFinal` | holds, 1.8 million states |
| `queue_unattended` | 3 jobs, depth 2, three option records, no commands | `BudgetsRespected`, `LastChildWakesParent`, `ParentsWake` (fair) | holds, 330 thousand states |
| `queue_unreported` | 2 jobs | `ChildDoneOnEveryEnding` | violated |
| `rollup_and_sync` | roll-up: 3 children, 2 finishers, 2 adders, 2 sweepers in turn; sync: bounds below | roll-up: `NoStrandedParent`, `ImplementsRollup`; sync: `NothingSkipped` | holds, 429 thousand states, those of the roll-up up to symmetry |
| `rollup_overlapping_sweeps` | 2 children, 2 sweepers at once | `NoStrandedParent` | violated |
| `worker` | one part of a worker per behaviour; bounds below | slots: `SlotsLive`, `TrackedUnlessReclaimed`, `ShutdownReaches`, `SlotsFreed`, `ShutdownEnds` (fair); lock: `OverrunBounded`, `RenewedInTime`; clock: `ActiveBounded`, `ChildFirst`, `JobSettles` (fair) | holds, 413 thousand states |
| `worker_overcommit` | `MinionWorker`: 3 jobs, 2 slots, 4 claims | `WithinConcurrency` | violated |
| `renewal_reclaim` | `LockRenewal`: lock 6, interval 3, call time limit 2, margin 1, clock to 24 | `ReleasedBeforeReclaim` | violated |
| `clock_deferred` | `JobClock`: 2 workers, lock 2, timeout 2, sweep interval 2, deferral 5, 1 attempt, no crash, child or operator | `RunsItsTime` | violated |
| `services` | the parts around the queue, one per behaviour; bounds below | fan-out: `AggregatesLast`, `HonestReport`, `OnlyReadOnceLost`, `Settles` (fair); lock row: `Exclusive`, `CrashCleared` (fair); PGLite lock: `OneWriter`; leases: `CallsWithinCap`, `CapacityReturns` (fair); subagent: `UnsafeOnce`, `TranscriptSound`, `FinalAnswerStands`; supervisors: `Handover`, `GivesUpInTime`; worker loop: `WedgeNotCrash`, `FairChance`, `RestartEnds` (fair) | holds, 232 thousand states |
| `supervisor_sigterm` | 2 supervisors | `StopDrains` | violated |
| `fanout_missing` | 2 children that never stall, 1 requeue | `NoneMissing` | violated |

Why the bounds are enough to be interesting:

- Three jobs give a chain of grandparent, parent and child, and a parent with
  two children, which is what wake-up, cancellation and the failure policies
  tell apart. The option records are chosen so that each `on_child_fail` branch,
  a second attempt, a second stall, a child cap and both removal flags occur.
- One intervention, at any point, is enough to revive, pause, delete or cancel
  any row in any state the rest can reach; two would multiply the states by ten.
- `worker`:
  - Slots: one job, two slots, three claims. The properties concern the
    executions of one job, which meet in that job's entry and nowhere else;
    three claims let one execution displace another and a third follow. The
    theorems cover any number of jobs, slots and claims.
  - Lock: lock 4, interval 2, call time limit and margin 1, clock to 10, which
    is longer than the lock and the longest overrun. `renewal_reclaim` uses
    the defaults' proportions (a third, a sixth, a half of lockDuration).
  - Clock: two workers, lock 2, timeout, backoff and sweep interval 1,
    deferral 2, 2 attempts, 2 stalls, both policies, one child, one retry by
    an operator, crashes. The durations are small but of different lengths, so
    each sweep meets the row before, at and after every deadline. Ages are
    counted up to the point from which nothing changes (`AgeCap`, `ClaimCap`).
- `clock_deferred`: the deferral is longer than the wall-clock threshold, as 15
  minutes are for a job with a `timeout_ms` below 7.5 minutes, or with none and
  default settings.
- `services`:
  - Fan-out: two children, one of which may stall, and two requeues
    (`MaxRequeues`). Submissions bound the other claims, so that no claim the
    code would make is refused. Two requeues let one execution read the inbox, a
    second find it empty and a third complete; two children let the aggregator
    be claimed before, between and after their submissions.
  - Lock: `a`, `b` and `d` on one host and `c` on another; time to live, graces
    and `--max-age` 1. A holder, a contender on its host and one elsewhere are
    the cases the code tells apart; `c` has the pid of `a` on its own host, and
    `d` is given it on theirs once `a` is dead. `a` and `d` differ in the name
    only, so `FirstBorn` takes `a` to be the first of the two, which loses
    nothing. Three contend for the PGLite directory: two suffice to break it,
    the third for a lock that was made anew.
  - Leases: two callers of one slot, time to live 3, a transaction that waits at
    most 1, two crashes or lost deletes.
  - Subagent: two turns, three executions (two kills), four kinds of answer.
  - Supervisors: two, a row that expires after 3 missed refreshes, and 2
    failures before a supervisor gives up.
  - Worker loop: three workers, and 2 crashes, 2 bad answers and 2 restarts as
    the limits, so that each limit is reached, with tini and without.
- `rollup_and_sync`: three children are one more than the transactions of one
  kind, and the cap of two is met by adders that meet each other and endings.
  Sync: two files that are there or not, two commits, one rewrite, an auto-skip
  after 2 attempts, and one checkpoint at a time that its bookmark left behind
  (`MaxLeft`). One rewrite and one such checkpoint are what it takes for the
  bookmark to come back to rows it had left.

Fairness (`queue_unattended`): weak fairness of claiming a given job, of
promoting it and of the wall-clock sweep reaching it. Every worker's loop
promotes and claims, and its timer runs the sweep for as long as it lives, so a
row that *stays* waiting, delayed or active is eventually taken; it assumes that
some worker is alive and has a handler for the job. No fairness is assumed of
handlers, of the two other sweeps, or of operators.

In `worker` the slots assume that the loop's own statements are answered (the
health probe, not modelled, is the code's remedy when they are not) and that
timers fire; no handler need ever end. The clock assumes that time passes and
the sweep timer fires, that delayed rows are promoted and waiting ones claimed,
that a worker gets past the statement it awaits after a claim, that an execution
that lost the row ends (`OverrunBounded`), and that the child ends.

In `services` the fan-out assumes the same of one aggregator and its children:
it is claimed, and time limits end what does not end itself. Nothing obliges
`runFanout` or a handler to go on. The lock assumes that time passes and that
each contender retries and finishes what it began; nobody owes a refresh or a
reaper's round. The leases assume that time passes, calls return, some caller
comes back, and that the waiters for an advisory lock are served in turn, as
PostgreSQL's lock queue does (strong fairness of `Count`). The worker loop
assumes only the grace timer of a restart and that SIGKILL ends the process it
is sent to; an orphan need never end. Subagent and supervisors, and both parts
of `rollup_and_sync`, have no fairness, and only safety properties.

The symmetry of `rollup_and_sync` permutes children and transactions of one
kind, which no definition tells apart; the properties are safety properties.

Deadlock is not checked: a finite instance runs out of job ids, transactions,
commits, kills or time.

The type invariants of `MinionQueue`, `LockRenewal`, `MinionWorker` and
`Supervisor` are theorems; those of `ParentRollup`, `PgliteLock`, `RateLeases`
and `FanOut` are part of proved invariants. The others document their variables:
they hold on the instances above, the proofs have the part of them they need
(`SyncTypes`, `LoopTypes`, `ClockTypes`), and no run spends a property on them.

## Proofs

`MinionQueueProofs` proves, for any number of jobs, any set of option records
and any bounds:

- `TypeCorrect`: the type invariant.
- `AttemptsOrdered`: `attempts_made <= attempts_started`, the table's
  `chk_attempts_order`. It is not inductive: a failing execution holds a token,
  and the token is a claim number at most `attempts_started`, but that its
  attempt has not been counted yet needs `CountersInv`: an active row holds the
  token of its last claim and has started at least one attempt more than it was
  charged.
- `BudgetsHold`: attempts and stalls stay within their budgets plus one per
  `retryJob`, and an open row has some of both left. The invariant carries the
  stronger bound for open rows, since only terminal rows may be at the limit.
- `ExclusiveOwnership`: the queue refines `JobOwnership`, with the epoch read
  off `attempts_started` and the owner off the token of an active row.
- `EndingsStand` (`DoneIsFinal`): a completed or cancelled row is left alone or
  deleted. It needs `CountersInv` for one case, an insert that would reuse the
  row's id.
- `NoParentRunsEarly` (`NoEarlyWake`): a claimable or running row has no open
  child. The invariant, `TreeInv`, adds that the parent of a row is a row
  (`ON DELETE SET NULL`), without which an insert could take the id an older
  row names, and that a paused row is known to have been paused.
- `NoWakeUpLost` (`LastChildWakesParent`): the step that ends the last open
  child of a sleeping parent wakes or ends the parent, the two endings of
  `queue_unreported` apart.
- `CancelIsComplete` (`CancelReachesSubtree`): nothing below a row that becomes
  cancelled is open. Descendants are the least set closed under children, so
  what is below a descendant is below the row (`DescendantsNest`).
- `EndingsDelivered` (`ChildDoneDelivered`): every ending but the two of
  `queue_unreported` is told to a parent that is open. The invariant,
  `DeliveryInv`, adds to the property that an id not yet handed out is no row
  that failed a child; the message survives what a commit may delete
  (`CommitDelivers`), and posting comes before anything ends the parent
  (`PostingDelivery`).
- `ChildrenWithinCap` (`ChildCap`): an insert counts under the parent's lock,
  and no other step but `retryJob` adds to what is counted (`CapSubset`).

These are all of the module's safety properties that the runs check.

The steps are reduced to shapes once: `StepShape` for a row's counters and
`TreeShape` for parents and children, the latter from what every commit that
resolves parents has in common (`Closing`, `CommitShape`).

`ParentRollupProofs` proves, for any children, cap and transactions whose sweeps
take turns (`Serial`; `rollup_overlapping_sweeps` shows that without it neither
statement holds):

- `NoParentStranded` (`NoStrandedParent`): when no transaction is under way, a
  sleeping parent has an open child.
- `RollupIsAtomic` (`ImplementsRollup`): the transactions refine `AtomicRollup`.
  Every statement but a commit is a stutter; a commit is one step of it.

The invariant follows each transaction (`TxInv`): the statements its role runs,
what it has written over which rows, how far its report to the parent is, and
that it decided to wake the parent exactly if it should. What makes these
stable is `LocksInv` with one observation: a transaction that has ended children
holds a lock on the parent's row from its post on, or found the parent ended. So
nobody else changes the parent, or ends a sibling and reports it, before it
commits (`OneHolds`). For a sweeper that lock is the key share of its inbox row,
which is why two sweepers do not exclude each other, and why the proof needs
`Serial`. Statements that change only their own transaction are treated once
(`LocalKeeps`).

`WorkerProofs` has three parts. Of `MinionWorker`, for any jobs, concurrency and
number of claims:

- `TypeCorrect`: types, and that a token of this worker marks an active row
  claimed with it.
- `SlotsAreLive`: no entry outlives its execution, so no slot is lost.
- `TrackedOrReclaimed`: the map misses a running execution only after an
  eviction or a second claim of the same job.
- `ShutdownReachesAll`: the watchdog's drain misses only those and the claim
  that was under way when it walked the map, if one was.

All three come from one inductive invariant, `WorkerInv`. Steps are first
reduced to a few shapes (`StepIsShaped`). An execution that ran has run for good
(`RanForGood`), so a second claim stays a valid excuse. For the shutdown the
invariant says that a worker told to stop finishes at most the turn it is in:
the one unaborted execution can only appear when the loop will not claim again.

Of `LockRenewal`, for every lock duration and all knobs that satisfy
`KnobsAssumption` (it holds for the defaults; the code does not check it of
values from the environment):

- `RenewalTypes`: no call is awaited longer than its limit.
- `RenewalsKeepLock` (`RenewedInTime`): while every renewal is answered in time,
  the lock does not run out. The invariant relates the lock's expiry to the
  moment the next tick is due.
- `StopsInTime` (`OverrunBounded`): the overrun is less than `3 * CallTimeout +
  Interval - SafetyMargin`. The invariant follows the chain behind the bound: the
  last failure that was too early to abort, its reconnect, the wait for the next
  tick, that tick's time limit.

Of `JobClock`, for any workers, durations, budgets and policies:

- `ActiveRowsSwept` (`ActiveBounded`): a row is active for no longer than the
  wall-clock threshold and one sweep interval. An active row has a `started_at`
  at least as old as its last claim (`AgeCovers`), and since the last wall-clock
  sweep, which leaves no overdue row active, it aged by no more than the sweep
  timer (`AgesWithSweep`).
- `ChildrenFirst` (`ChildFirst`): a row with an open child is not claimable,
  a deferral and `retryJob` apart. The invariant is stronger: such a row is not
  even delayed, since promotion asks nothing (`ChildHolds`); and that a `skip`
  leaves no token a later deferral could match is `SkipOnly`.

`FanOutProofs` proves, for any manifest and number of requeues, `RunsLast`,
`ReportsTruly` and `LosesNothingElse`. The invariant says that a runnable
aggregator has no open child (`AsleepInv`), so nothing is posted while an
execution holds the row (`HandlerInv`): what it reads is complete. Claims are
bounded by submissions and requeues (`ClaimsInv`), which is why no execution is
missing from the finite instance.

`LocksProofs`, of `DbLock` for any processes on any hosts with any pids:

- `LockExclusive` (`Exclusive`): two processes work under one lock only after
  one of them, or a process with the pid of one, got loose.
- `LockKept`: a process that works has its row as long as no process with its
  pid is loose. The invariant says of every process about to delete a row that
  the owner it saw is dead or loose (`SeenInv`), neither of which is ever undone,
  so the delete may come as late as it likes: what it finds is that owner's row
  or a namesake's, which gets loose by it. And a process that works without its
  row has a loose namesake or is loose, so a release that finds another's row by
  its pid takes it from a namesake of a loose one.

Nothing is assumed of pids. What the theorem excuses is what they bring about: a
delete that was meant for one holder and reached another.

Of `PgliteLock`, for any number of processes, `OnlyWriter` (`OneWriter`): two
have the data directory open only after a living one lost its directory to a
process that had not seen it there (`misread`). The invariant: a process that
claims the directory is the one whose `mkdir` made it (`ClaimsDir`), and a
process whose token somebody took for a dead one's is dead for good
(`SeenDead`). So a removal, however late, of what was seen takes the directory
from nobody (`SightsAreNotBlind`).

`AgentsProofs`, of `RateLeases` for any callers, cap, crashes and lost deletes:
`CapHolds` (`CallsWithinCap`) and `RowsWithinCap`. Rows are counted and inserted
under one advisory lock, so there are never more than the cap (`CountInv`); and
a call younger than its lease can be has a row of its own (`OwnerInv`,
`AgeInv`).

Of `SubagentLoop`, for any number of turns, executions and tools, and any set of
answers; each for as long as no two executions have overlapped (`crossed`):

- `UnsafeCallsOnce` (`UnsafeOnce`): a tool that is not idempotent takes effect
  at most once. The invariant relates an execution in the middle of a turn to
  both tables: what it has collected is recorded (`OutsRecorded`); of the calls
  to come it knows from its load what the ledger says now (`PriorAgrees`); and
  an unsafe call about to be made has not taken effect (`Acting`), because a
  call takes effect only after its row was written as pending and a pending row
  of an unsafe tool is never dispatched again.
- `TranscriptAccepted` (`TranscriptSound`): roles alternate and every turn with
  calls is answered by what the ledger has of them. What is recorded later
  belongs to the last turn, so it does not disturb those before (`Settled`).
- `NothingAfterFinal` (`FinalAnswerStands`): after a final answer the
  conversation, the ledger and the tools are left alone. An execution that
  has loaded holds the whole transcript (`Follows`), so it sees the answer.

`SupervisionProofs`, of `Supervisor` for any number of supervisors that give up
before their row expires (`MaxFailures < SupervisorTtl`): `SupervisorTypes`,
`OneWorkerAtATime` (`Handover`) and `StopsBeforeLapse` (`GivesUpInTime`). The
invariant bounds the row's age by the refreshes that have failed or are due, for
every supervisor that runs and was not suspended (`KeepsRow`); both theorems
follow the row from there, the first to the next supervisor's worker, the second
to the step that takes the row. Of `ChildSupervisor`, for any limits: `RestartsExcused`
(`WedgeNotCrash`) and `RestartsFair` (`FairChance`). `FlagInStep` says that
`_intentionalRestart` is set exactly while a restarted worker still runs;
`Counted`, that a bad answer not about the current worker is counted at most
once.

`SourceSyncProofs` proves `NoFileSkipped` (`NothingSkipped`) for any files,
contents, commits and rewrites and any threshold. The invariant follows a page
that is not `astray` and not in the ledger: it is the bookmark's or the target's,
and the target's once its path is banked or done (`PageInv`); the diff from the
bookmark to the target is to do, failed, done or banked, and past the gate every
failure has a row, also between the bookmark's move and the marks (`RunInv`). So
where page and working tree differ, bookmark and target differ and the path is
not banked, or the tree has left the target: `Ahead` names it. A checkpoint that
was not read, or is found again because it was never cleared, puts the files it
speaks of into `astray` and no others, so the rest of the argument is not
disturbed.

Only model-checked: the eight liveness properties, `ParentsWake`, `SlotsFreed`,
`ShutdownEnds`, `JobSettles`, `Settles`, `CrashCleared`, `CapacityReturns` and
`RestartEnds`, which this prover cannot do under fairness. Every safety
property that a passing run checks is a theorem.

## What the runs disagree with

- `queue_unreported`: `types.ts` says child_done is posted on every terminal
  transition. The stall sweep's dead-letter posts none and does not wake the
  parent; a parent whose last open child dies this way sleeps for ever. Nor does
  a parent failed through `fail_parent` count as an ended child of its own
  parent. `LastChildWakesParent` and `ParentsWake` hold with these two endings
  excepted, so they are the only ones.
- `rollup_overlapping_sweeps`: two sweeps, or a sweep and a cancel, that end the
  last two children of a parent at once leave it asleep. It is the race that the
  comment in `completeJob` describes and prevents. Overlap needs two workers, or
  one whose sweep takes longer than its interval.
- `renewal_reclaim`: the tick's deadline is said to make the worker release
  before the sweep can reclaim. A renewal that fails fast at half the duration,
  and one that hangs at the whole of it, end after the lock has expired.
- `worker_overcommit`: a worker is said to process up to `concurrency` jobs at a
  time. When it claims again a job that its own older execution has lost, the
  end of the older one deletes the newer one's entry, and a slot too many is
  free. `TrackedUnlessReclaimed` says that this, and eviction, are the only
  ways.
- `fanout_missing`: the aggregator's handler says that at its claim all messages
  are in the inbox and that none can be missing. Reading commits before the
  handler completes, so an execution that follows one that read and then lost
  the row reports every child as failed. `OnlyReadOnceLost` says that this and
  the stall sweep's dead-letter are the only causes.
- `supervisor_sigterm`: `supervisor.ts` says of a clean shutdown, on SIGTERM
  too, that the worker was drained. `cli.ts` installs the handlers of
  `process-cleanup.ts` first; they delete the lock row and exit, while
  `shutdown()` still awaits the release of the same row before it tells the
  worker to stop. The worker runs on and the row is free.
- `clock_deferred`: the wall-clock sweep is said to kill active jobs that exceed
  a runtime, and a deferred job to be picked up again after the quiet hours.
  `started_at` is the first claim's, and the claim that led to the deferral
  counts: 15 minutes later the job is overdue when it is claimed, and the next
  sweep kills it. A parent that slept long for its child, a retry after a long
  backoff and a job revived by an operator have the same `started_at`.

`PgliteLock` also shows two processes with one PGLite database open, which
`OneWriter` excepts (`misread`). `pglite-lock.ts:28` says that a holder whose
pid is alive is never reaped. The shortest way there: one process has made the
directory and opened the file, another reads it empty, takes it for corrupt and
removes it after the first has written its token and gone on. Every heartbeat
rewrites the file in the same way and opens the same window again. The other
ways are a remover that acts on what it read before the directory was made
anew: two that saw the same dead holder, or a release whose directory another
process found without its file.

`JobClock` also shows a parent that runs before its child has ended: the
deferral's UPDATE compares the token only, and `add` leaves the token on the row
it puts to sleep. `ChildFirst` says that this, and `retryJob`, are the only ways
past an open child.

`FanOut` also shows that an aggregator claimed before its first child is added
completes with "(no children)" while its children run: `NothingToReport` is
reachable in `services`, whose properties allow it.

Reading the code for `SyncResume` showed five things, which `NothingSkipped`
excepts or the model leaves out:

- A page read from the tree past the pin, or imported from commits later
  rewritten away (a killed run, `git commit --amend`, a resume), stays stale if
  the tree takes the change back: the diff between the endpoints does not name
  the file (`astray`). `sync.ts:2678` calls forward progress safe.
- When the target's row cannot be read, the run pins HEAD while the old paths
  stay under the same key, so a later resume skips files that have changed since.
  `op-checkpoint.ts:110` says that a failed load only re-walks.
- A checkpoint that was not cleared, because the run was killed after it moved
  the bookmark or because the delete failed, is read again when the tree is reset
  to the old bookmark and the bookmark follows: the paths it has banked are
  skipped (`op-checkpoint.ts:263` names this of a swallowed clear).
- A delete that fails is in the failures and in the resolved paths of the same
  run, so its attempts restart at 1 and the auto-skip valve never opens for it.
- A renamed file that does not parse is banked as done and has no ledger row
  (`sync.ts:2313`). Renames are not in the model.

`ChildSupervisor` and `Supervisor` also show a worker that outlives SIGKILL: the
signal reaches the tini around it. After a wedge restart the replacement runs
beside it, and after a shutdown it runs without a supervisor. `RestartEnds` is
stated for supervisors without tini.

`DbLock` also shows two holders of one row by way of a shared pid or of the exit
clean-up, which `Exclusive` excepts (`loose`): the release or the late delete of
one holder matches its namesake's row, and a process whose clean-up has deleted
its row works on while others wait for their own clean-ups.

Smaller things, seen and modelled as the code has them: a refresh of a stolen
row matches nothing and does not fail (`db-lock.ts:241`); the header of
`subagent.ts` speaks of a lease renewed during a call, which nothing does; in a
CLI process SIGTERM ends `jobs work` at once, so that the worker's own 30 s
drain does not take place; of a crash between the bookmark and the marks the
ledger keeps rows as "open" that are past the bookmark.

Documented limits the models confirm without calling them wrong: `cancelJob`
misses a child added while it runs; `retryJob` can exceed `max_children` and
revives a parent that has missed messages.

## Not modelled

Left for later: the worker's health probes, the lock files of `page-lock.ts`,
the supervisor's PID file and backoff, the gateway path of the subagent handler,
full sync and renames, `worker-pool.ts` and `db-pacer.ts`, and the OAuth
provider. One hazard of the list has no property: the overlap of two executions
of a subagent job, which the code does not fence. Out of scope: search,
embedding, content processing (no protocol state), user interfaces, request
dispatch, storage engines beyond the semantics `ParentRollup` states, and token
totals, progress, attachments and operator messages of a job (payload that no
control depends on). `lease-cap-controller.ts` has no caller.

Most of the repository's lines are of the kind left out for good. The models
cover the parts whose correctness depends on the order of steps of several
actors.

## Plan

Done: `MinionQueue` refining `JobOwnership`; `ParentRollup` refining
`AtomicRollup`; `LockRenewal`; `MinionWorker`; `JobClock`; `FanOut`; `DbLock`,
`PgliteLock`; `RateLeases`, `SubagentLoop`; `Supervisor`, `ChildSupervisor`;
`SyncResume`; all their safety properties as theorems.

Next, most important first:

1. The remaining type invariants as theorems (`JobClock`, `SubagentLoop`,
   `SyncResume`, `ChildSupervisor`).
2. `ParentRollup` for sweeps that overlap: what does hold there (every ending
   told, no early wake-up, the cap) apart from the wake-up that is lost.
3. Renames and full sync in `SyncResume`; page locks; the supervisor's PID file.
