---------------------------- MODULE MinionQueue ----------------------------
(***************************************************************************)
(* The minion_jobs table and the MinionQueue methods that change it        *)
(* (src/src/core/minions/queue.ts).  Every method is one SQL statement or  *)
(* one transaction, and is one action here; what two overlapping           *)
(* transactions can see of each other is the subject of ParentRollup.      *)
(*                                                                         *)
(* A column of the table is a function of the job id.  Ids come from a     *)
(* sequence and are never reused, so a row whose status is "none" has not  *)
(* been inserted yet (id >= nextId) or has been deleted; its other columns *)
(* then mean nothing.                                                      *)
(*                                                                         *)
(* A lock token is `workerId:now`, fresh for every claim of a job: it is   *)
(* abstracted to the number of that claim (attempts_started), and 0 is     *)
(* NULL.  The clock is abstracted: a sweep acts on whichever subset of the *)
(* rows it matches has run out of lock, deadline or delay by then.         *)
(***************************************************************************)
EXTENDS Naturals, FiniteSets

CONSTANTS
  MaxJobs,          \* how many ids the sequence may hand out
  Options,          \* the option records a job may be submitted with
  MaxSpawnDepth,    \* MinionQueue.maxSpawnDepth
  Interventions,    \* the operator commands and lease bounces that may occur
  MaxInterventions  \* how many of them, in all

Jobs == 1..MaxJobs
NoJob == 0          \* parent_job_id IS NULL

Policies == {"fail_parent", "remove_dep", "ignore", "continue"}

\* The columns of a row that add() sets and nothing changes afterwards.
\* maxChildren = 0 is NULL (no cap); timed is timeout_ms IS NOT NULL.
OptionType ==
  [onChildFail : Policies, maxChildren : Nat, maxAttempts : Nat \ {0},
   maxStalled : Nat \ {0}, timed : BOOLEAN,
   removeOnComplete : BOOLEAN, removeOnFail : BOOLEAN]

InterventionKinds == {"cancel", "retry", "pause", "remove", "prune", "lease"}

ASSUME MaxJobsAssumption == MaxJobs \in Nat
ASSUME OptionsAssumption == Options # {} /\ Options \subseteq OptionType
ASSUME DepthAssumption == MaxSpawnDepth \in Nat
ASSUME InterventionsAssumption ==
  Interventions \subseteq InterventionKinds /\ MaxInterventions \in Nat

Terminal == {"completed", "failed", "dead", "cancelled"}
Open == {"waiting", "active", "delayed", "waiting-children", "paused"}
Statuses == Terminal \cup Open \cup {"none"}
ErrorTexts == {"none", "error", "timeout", "stalled", "child-failed"}
Outcomes == {"complete", "dead", "cancelled", "timeout"}

VARIABLES
  nextId,           \* the id the next INSERT receives
  status, parent, depth, opts, token, error,
  attemptsMade, attemptsStarted, stalledCounter,
  result,           \* the claim whose result completeJob stored, 0 if none
  inbox,            \* child_done rows of minion_inbox
  retries,          \* history: how often retryJob revived the row
  everPaused,       \* history: rows that pauseJob has stopped
  interventions     \* history: operator commands spent, for the bound

tree == <<nextId, parent, depth, opts>>
counters == <<attemptsMade, attemptsStarted, stalledCounter>>
history == <<retries, everPaused>>
vars == <<nextId, status, parent, depth, opts, token, error, attemptsMade,
          attemptsStarted, stalledCounter, result, inbox, retries,
          everPaused, interventions>>

ChildDone == [to : Jobs, child : Jobs, claim : Nat, outcome : Outcomes]

TypeOK ==
  /\ nextId \in 1..(MaxJobs + 1)
  /\ status \in [Jobs -> Statuses]
  /\ parent \in [Jobs -> Jobs \cup {NoJob}]
  /\ depth \in [Jobs -> 0..MaxSpawnDepth]
  /\ opts \in [Jobs -> Options]
  /\ token \in [Jobs -> Nat]
  /\ error \in [Jobs -> ErrorTexts]
  /\ attemptsMade \in [Jobs -> Nat]
  /\ attemptsStarted \in [Jobs -> Nat]
  /\ stalledCounter \in [Jobs -> Nat]
  /\ result \in [Jobs -> Nat]
  /\ inbox \subseteq ChildDone
  /\ retries \in [Jobs -> Nat]
  /\ everPaused \subseteq Jobs
  /\ interventions \in 0..MaxInterventions

Init ==
  /\ nextId = 1
  /\ status = [j \in Jobs |-> "none"]
  /\ parent = [j \in Jobs |-> NoJob]
  /\ depth = [j \in Jobs |-> 0]
  /\ opts = [j \in Jobs |-> CHOOSE o \in Options : TRUE]
  /\ token = [j \in Jobs |-> 0]
  /\ error = [j \in Jobs |-> "none"]
  /\ attemptsMade = [j \in Jobs |-> 0]
  /\ attemptsStarted = [j \in Jobs |-> 0]
  /\ stalledCounter = [j \in Jobs |-> 0]
  /\ result = [j \in Jobs |-> 0]
  /\ inbox = {}
  /\ retries = [j \in Jobs |-> 0]
  /\ everPaused = {}
  /\ interventions = 0

-----------------------------------------------------------------------------
\* Parts of the SQL that several methods share.

\* The rows with parent_job_id = p whose status is not terminal, in a table
\* whose status and parent columns are st and par.
OpenChildrenDeadOpen(st, par, p) ==  \* mutant: 'dead' missing from the terminal set
  {c \in Jobs : par[c] = p /\ st[c] \in Open \cup {"dead"}}
OpenChildren(st, par, p) == {c \in Jobs : par[c] = p /\ st[c] \in Open}

\* UPDATE ... SET status = 'waiting' WHERE id IN P AND status =
\* 'waiting-children' AND NOT EXISTS (an open child).
ResolveEager(st, par, P) ==  \* mutant: without the NOT EXISTS
  [j \in Jobs |->
     IF j \in P /\ st[j] = "waiting-children" THEN "waiting" ELSE st[j]]
ResolveChildless(st, par, P) ==  \* mutant: the NOT EXISTS without its status filter
  [j \in Jobs |->
     IF j \in P /\ st[j] = "waiting-children" /\ ~\E c \in Jobs : par[c] = j
     THEN "waiting" ELSE st[j]]
Resolve(st, par, P) ==
  [j \in Jobs |->
     IF /\ j \in P
        /\ st[j] = "waiting-children"
        /\ OpenChildren(st, par, j) = {}
     THEN "waiting" ELSE st[j]]

\* INSERT INTO minion_inbox ... WHERE EXISTS (the parent, not terminal), for
\* every row of S that has a parent.
PostIfAsleep(S, st, outcome) ==  \* mutant: posts to a sleeping parent only
  {[to |-> parent[c], child |-> c, claim |-> attemptsStarted[c],
    outcome |-> outcome] :
     c \in {c \in S : parent[c] # NoJob /\ st[parent[c]] = "waiting-children"}}
Post(S, st, outcome) ==
  {[to |-> parent[c], child |-> c, claim |-> attemptsStarted[c],
    outcome |-> outcome] :
     c \in {c \in S : parent[c] # NoJob /\ st[parent[c]] \in Open}}

\* Commit the new status, parent and inbox after deleting the rows `gone`:
\* parent_job_id is ON DELETE SET NULL, minion_inbox.job_id ON DELETE CASCADE.
Commit(st, par, box, gone) ==
  /\ status' = [j \in Jobs |-> IF j \in gone THEN "none" ELSE st[j]]
  /\ parent' = [j \in Jobs |-> IF par[j] \in gone THEN NoJob ELSE par[j]]
  /\ inbox' = {m \in box : m.to \notin gone}

ReleaseLocks(S) == token' = [j \in Jobs |-> IF j \in S THEN 0 ELSE token[j]]
SetErrors(S, text) == error' = [j \in Jobs |-> IF j \in S THEN text ELSE error[j]]
Count(f, S) == [j \in Jobs |-> IF j \in S THEN f[j] + 1 ELSE f[j]]

\* WHERE id = j AND status = 'active' AND lock_token = t
HoldsUnfenced(j, t) == status[j] = "active"  \* mutant: lock_token not compared
Holds(j, t) == status[j] = "active" /\ token[j] = t /\ t # 0

\* One operator command (or lease bounce) out of the bound MaxInterventions.
Intervene(kind) ==
  /\ kind \in Interventions
  /\ interventions < MaxInterventions
  /\ interventions' = interventions + 1

-----------------------------------------------------------------------------
\* add(): insert a row, under parent p unless p = NoJob.  A hit on the
\* idempotency key or on maxWaiting returns an existing row and changes
\* nothing; an exceeded depth or child cap throws.
RoomForChildOffByOne(p) ==  \* mutant: live <= max_children
  \/ opts[p].maxChildren = 0
  \/ Cardinality(OpenChildren(status, parent, p)) <= opts[p].maxChildren
RoomForChild(p) ==
  \/ opts[p].maxChildren = 0
  \/ Cardinality(OpenChildren(status, parent, p)) < opts[p].maxChildren

Add(p, o, first) ==
  /\ nextId \in Jobs
  /\ p # NoJob => /\ status[p] # "none"
                  /\ depth[p] + 1 <= MaxSpawnDepth
                  /\ RoomForChild(p)
  /\ nextId' = nextId + 1
  /\ status' = [j \in Jobs |->
                  IF j = nextId THEN first
                  ELSE IF j = p /\ status[j] \in {"waiting", "active", "delayed"}
                       THEN "waiting-children"
                  ELSE status[j]]
  /\ parent' = [parent EXCEPT ![nextId] = p]
  /\ depth' = [depth EXCEPT ![nextId] = IF p = NoJob THEN 0 ELSE depth[p] + 1]
  /\ opts' = [opts EXCEPT ![nextId] = o]
  /\ UNCHANGED <<token, error, counters, result, inbox, history, interventions>>

\* claim(): some waiting row the worker has a handler for.  Which one the
\* ORDER BY, the registered names and SKIP LOCKED leave it is abstracted.
Claim(j) ==
  /\ status[j] = "waiting"
  /\ status' = [status EXCEPT ![j] = "active"]
  /\ attemptsStarted' = [attemptsStarted EXCEPT ![j] = @ + 1]
  /\ token' = [token EXCEPT ![j] = attemptsStarted[j] + 1]
  /\ UNCHANGED <<tree, error, attemptsMade, stalledCounter, result, inbox,
                 history, interventions>>

\* completeJob(), called by the execution that claim number t started.
CompleteJob(j, t) ==
  /\ Holds(j, t)
  /\ LET done == [status EXCEPT ![j] = "completed"] IN
       Commit(Resolve(done, parent, {parent[j]}), parent,
              inbox \cup Post({j}, done, "complete"),
              IF opts[j].removeOnComplete THEN {j} ELSE {})
  /\ result' = [result EXCEPT ![j] = t]
  /\ ReleaseLocks({j})
  /\ UNCHANGED <<nextId, depth, opts, error, counters, history, interventions>>

\* failJob(.., 'delayed'): the attempt is spent, the row waits for its backoff.
FailForRetry(j, t) ==
  /\ Holds(j, t)
  /\ status' = [status EXCEPT ![j] = "delayed"]
  /\ attemptsMade' = Count(attemptsMade, {j})
  /\ SetErrors({j}, "error")
  /\ ReleaseLocks({j})
  /\ UNCHANGED <<tree, attemptsStarted, stalledCounter, result, inbox, history,
                 interventions>>

\* failJob(.., 'dead'): child_done first, then the on_child_fail policy.
FailForGood(j, t) ==
  LET p == parent[j]
      policy == opts[j].onChildFail
      dead == [status EXCEPT ![j] = "dead"]
      sinks == policy = "fail_parent" /\ p # NoJob /\ dead[p] = "waiting-children"
      freed == IF policy = "remove_dep" THEN [parent EXCEPT ![j] = NoJob] ELSE parent
  IN
  /\ Holds(j, t)
  /\ Commit(IF policy = "fail_parent"
              THEN [k \in Jobs |-> IF sinks /\ k = p THEN "failed" ELSE dead[k]]
              ELSE Resolve(dead, freed, {p}),
            freed,
            inbox \cup Post({j}, dead, "dead"),
            IF opts[j].removeOnFail THEN {j} ELSE {})
  /\ attemptsMade' = Count(attemptsMade, {j})
  /\ error' = [k \in Jobs |-> IF k = j THEN "error"
                              ELSE IF sinks /\ k = p THEN "child-failed"
                              ELSE error[k]]
  /\ ReleaseLocks({j})
  /\ UNCHANGED <<nextId, depth, opts, attemptsStarted, stalledCounter, result,
                 history, interventions>>

\* The worker asks for another attempt while the budget lasts; an
\* unrecoverable error or a handler that ignores its abort is final at once.
MayRetryOffByOne(j) == attemptsMade[j] < opts[j].maxAttempts  \* mutant
MayRetry(j) == attemptsMade[j] + 1 < opts[j].maxAttempts

FailJob(j, t) == (MayRetry(j) /\ FailForRetry(j, t)) \/ FailForGood(j, t)

\* releaseLeaseFullJob(): back to delayed, the attempt not counted.
ReleaseLeaseFullJob(j, t) ==
  /\ Intervene("lease")
  /\ Holds(j, t)
  /\ status' = [status EXCEPT ![j] = "delayed"]
  /\ SetErrors({j}, "error")
  /\ ReleaseLocks({j})
  /\ UNCHANGED <<tree, counters, result, inbox, history>>

-----------------------------------------------------------------------------
\* The sweeps of the worker's timer.

\* promoteDelayed(), for the rows S whose delay_until has passed.
PromoteDelayed(S) ==
  /\ S # {} /\ \A j \in S : status[j] = "delayed"
  /\ status' = [j \in Jobs |-> IF j \in S THEN "waiting" ELSE status[j]]
  /\ ReleaseLocks(S)
  /\ UNCHANGED <<tree, error, counters, result, inbox, history, interventions>>

\* handleStalled(), for the rows S whose lock has expired and which no other
\* transaction has locked.  Neither branch looks at the parent.
ToleratesStall(j) == stalledCounter[j] + 1 < opts[j].maxStalled

HandleStalled(S) ==
  LET dead == {j \in S : ~ToleratesStall(j)} IN
  /\ S # {} /\ \A j \in S : status[j] = "active"
  /\ status' = [j \in Jobs |-> IF j \in dead THEN "dead"
                               ELSE IF j \in S THEN "waiting" ELSE status[j]]
  /\ stalledCounter' = Count(stalledCounter, S)
  /\ attemptsMade' = Count(attemptsMade, dead)
  /\ SetErrors(dead, "stalled")
  /\ ReleaseLocks(S)
  /\ UNCHANGED <<tree, attemptsStarted, result, inbox, history, interventions>>

\* What handleTimeouts() and handleWallClockTimeouts() share: dead-letter S,
\* tell the parents, and wake those with no open child left.
OverdueUnlessTerminal(S) ==  \* mutant: the sweep matches every open row
  S # {} /\ \A j \in S : status[j] \in Open
Overdue(S) == S # {} /\ \A j \in S : status[j] = "active"

DeadLetter(S) ==
  LET dead == [j \in Jobs |-> IF j \in S THEN "dead" ELSE status[j]] IN
  /\ Overdue(S)
  /\ Commit(Resolve(dead, parent, {parent[c] : c \in S}), parent,
            inbox \cup Post(S, dead, "timeout"), {})
  /\ attemptsMade' = Count(attemptsMade, S)
  /\ SetErrors(S, "timeout")
  /\ ReleaseLocks(S)
  /\ UNCHANGED <<nextId, depth, opts, attemptsStarted, stalledCounter, result,
                 history, interventions>>

HandleTimeouts(S) == (\A j \in S : opts[j].timed) /\ DeadLetter(S)
HandleWallClockTimeouts(S) == DeadLetter(S)

-----------------------------------------------------------------------------
\* Operator commands.

\* The recursive CTE of cancelJob(): j and all below it, whatever their
\* status, as the least set that holds j and is closed under children.
Descendants(j) ==
  {k \in Jobs : \A D \in SUBSET Jobs :
     (j \in D /\ \A c \in Jobs : parent[c] \in D => c \in D) => k \in D}

CancellableUndelayed == {"waiting", "active", "waiting-children", "paused"}  \* mutant
Cancellable == {"waiting", "active", "delayed", "waiting-children", "paused"}

\* cancelJob(): every open descendant in one statement, then the inboxes and
\* parents of all of them.
CancelJob(j) ==
  LET hit == {k \in Descendants(j) : status[k] \in Cancellable}
      st == [k \in Jobs |-> IF k \in hit THEN "cancelled" ELSE status[k]]
  IN
  /\ Intervene("cancel")
  /\ hit # {}
  /\ Commit(Resolve(st, parent, {parent[k] : k \in hit}), parent,
            inbox \cup Post(hit, st, "cancelled"), {})
  /\ ReleaseLocks(hit)
  /\ UNCHANGED <<nextId, depth, opts, error, counters, result, history>>

\* retryJob(): no counter is reset and the parent is not looked at.
RetryableTerminal == Terminal  \* mutant
Retryable == {"failed", "dead"}

RetryJob(j) ==
  /\ Intervene("retry")
  /\ status[j] \in Retryable
  /\ status' = [status EXCEPT ![j] = "waiting"]
  /\ SetErrors({j}, "none")
  /\ ReleaseLocks({j})
  /\ retries' = [retries EXCEPT ![j] = @ + 1]
  /\ UNCHANGED <<tree, counters, result, inbox, everPaused>>

PauseJob(j) ==
  /\ Intervene("pause")
  /\ status[j] \in {"waiting", "active", "delayed"}
  /\ status' = [status EXCEPT ![j] = "paused"]
  /\ ReleaseLocks({j})
  /\ everPaused' = everPaused \cup {j}
  /\ UNCHANGED <<tree, error, counters, result, inbox, retries>>

ResumeJob(j) ==
  /\ status[j] = "paused"
  /\ status' = [status EXCEPT ![j] = "waiting"]
  /\ ReleaseLocks({j})
  /\ UNCHANGED <<tree, error, counters, result, inbox, history, interventions>>

RemoveJob(j) ==
  /\ Intervene("remove")
  /\ status[j] \in Terminal
  /\ Commit(status, parent, inbox, {j})
  /\ UNCHANGED <<nextId, depth, opts, token, error, counters, result, history>>

\* prune(): the rows S are the old enough ones; 'failed' rows are kept.
Prune(S) ==
  /\ Intervene("prune")
  /\ S # {} /\ \A j \in S : status[j] \in {"completed", "dead", "cancelled"}
  /\ Commit(status, parent, inbox, S)
  /\ UNCHANGED <<nextId, depth, opts, token, error, counters, result, history>>

-----------------------------------------------------------------------------
\* Any execution ever started may still call back with its own claim number,
\* long after the job was requeued and claimed again.
Next ==
  \/ \E p \in Jobs \cup {NoJob}, o \in Options, first \in {"waiting", "delayed"} :
       Add(p, o, first)
  \/ \E j \in Jobs : \/ Claim(j)
                     \/ CancelJob(j) \/ RetryJob(j) \/ RemoveJob(j)
                     \/ PauseJob(j) \/ ResumeJob(j)
                     \/ \E t \in 1..attemptsStarted[j] :
                          \/ CompleteJob(j, t)
                          \/ FailJob(j, t)
                          \/ ReleaseLeaseFullJob(j, t)
  \/ \E S \in SUBSET Jobs : \/ PromoteDelayed(S)
                            \/ HandleStalled(S)
                            \/ HandleTimeouts(S) \/ HandleWallClockTimeouts(S)
                            \/ Prune(S)

Spec == Init /\ [][Next]_vars

\* Every worker's loop promotes and claims, and its timer runs the wall-clock
\* sweep: a row that stays delayed, waiting or active is eventually due.
\* Nothing obliges a handler to return or an operator to act.
Fairness ==
  \A j \in Jobs :
    /\ WF_vars(Claim(j))
    /\ WF_vars(\E S \in SUBSET Jobs : j \in S /\ PromoteDelayed(S))
    /\ WF_vars(\E S \in SUBSET Jobs : j \in S /\ HandleWallClockTimeouts(S))

FairSpec == Spec /\ Fairness

-----------------------------------------------------------------------------
\* Properties.

IsRow(j) == status[j] # "none"

\* The retry and stall budgets.  Only retryJob, which resets no counter, lets a
\* row spend one more attempt or stall than it was submitted with; an open row
\* always has an attempt and a stall left (the worker's attemptsExhausted test,
\* handleStalled's comparison, and no sweep counting an attempt twice).
BudgetsRespected ==
  \A j \in Jobs :
    /\ IsRow(j) => /\ attemptsMade[j] <= opts[j].maxAttempts + retries[j]
                   /\ stalledCounter[j] <= opts[j].maxStalled + retries[j]
    /\ status[j] \in Open =>
         /\ attemptsMade[j] < opts[j].maxAttempts + retries[j]
         /\ stalledCounter[j] < opts[j].maxStalled + retries[j]

\* The table's chk_attempts_order constraint: no interleaving of failures,
\* lease bounces, sweeps and retries counts an attempt that was never started.
\* A step that broke it would make PostgreSQL reject the whole transaction.
AttemptsOrder ==
  \A j \in Jobs : IsRow(j) => attemptsMade[j] <= attemptsStarted[j]

\* No parent runs too early.  A row that is waiting, delayed or active has no
\* open child, unless an operator paused or retried the parent or that child
\* (add flips the parent, every resolve waits for the last child).
NoEarlyWake ==
  \A p, c \in Jobs :
    (/\ parent[c] = p /\ IsRow(c) /\ status[c] \in Open
     /\ status[p] \in {"waiting", "delayed", "active"})
      => \/ p \in everPaused \/ c \in everPaused
         \/ retries[p] > 0 \/ retries[c] > 0

\* child_done delivery.  While a parent is open (and was never revived by
\* retryJob) its inbox holds a message for every child that has ended, except
\* for the two endings the queue does not report: a child dead-lettered by
\* handleStalled, and a child failed by its own child.  And a parent that its
\* child failed has that child's message: it is posted before the parent is
\* made terminal.
Outcome(c) ==
  CASE status[c] = "completed" -> "complete"
    [] status[c] = "cancelled" -> "cancelled"
    [] status[c] = "dead" /\ error[c] = "timeout" -> "timeout"
    [] OTHER -> "dead"

Told(p, c) ==
  [to |-> p, child |-> c, claim |-> attemptsStarted[c], outcome |-> Outcome(c)]
    \in inbox

ChildDoneDelivered ==
  /\ \A p, c \in Jobs :
       (/\ parent[c] = p /\ status[c] \in Terminal
        /\ status[p] \in Open /\ retries[p] = 0
        /\ error[c] \notin {"stalled", "child-failed"})
         => Told(p, c)
  /\ \A p \in Jobs :
       (IsRow(p) /\ error[p] = "child-failed")
         => \E m \in inbox : m.to = p /\ m.outcome = "dead"

\* Cancellation is complete: when a row becomes cancelled, nothing below it is
\* open any more, sleeping and paused descendants included.
CancelReachesSubtree ==
  [][\A j \in Jobs :
       (status[j] # "cancelled" /\ status'[j] = "cancelled")
         => \A k \in Descendants(j) : status'[k] \notin Open]_vars

\* A completed or cancelled row is final: late calls, sweeps and operator
\* commands leave its status, result and attempt counters alone, or delete it.
DoneIsFinal ==
  [][\A j \in Jobs :
       status[j] \in {"completed", "cancelled"} =>
         \/ status'[j] = "none"
         \/ <<status[j], result[j], attemptsMade[j]>>' =
              <<status[j], result[j], attemptsMade[j]>>]_vars

\* No lost wake-up.  The step that ends the last open child of a sleeping parent
\* also takes the parent out of waiting-children, except in the two endings
\* that do not look at it: handleStalled's dead-letter and fail_parent on a
\* parent that is itself a child.
LastChildWakesParent ==
  [][\A p \in Jobs :
       (/\ status[p] = "waiting-children" /\ status'[p] = "waiting-children"
        /\ OpenChildren(status, parent, p) # {}
        /\ OpenChildren(status', parent', p) = {})
         => \E c \in OpenChildren(status, parent, p) :
              error'[c] \in {"stalled", "child-failed"}]_vars

\* The cap of max_children.  However children are added, end and are deleted, at
\* most max_children of those that retryJob never revived are open at a time
\* (retryJob reopens a child without counting its siblings).
ChildCap ==
  \A p \in Jobs :
    (IsRow(p) /\ opts[p].maxChildren # 0)
      => Cardinality({c \in OpenChildren(status, parent, p) : retries[c] = 0})
           <= opts[p].maxChildren

\* The queue implements exclusive ownership in epochs: the epoch is
\* attempts_started, the owner is the token of an active row.
owner == [j \in Jobs |-> IF status[j] = "active" THEN token[j] ELSE 0]
Ownership == INSTANCE JobOwnership WITH epoch <- attemptsStarted
ImplementsOwnership == Ownership!Spec

\* What types.ts says of ChildDoneMessage: posted on every terminal transition.
ChildDoneOnEveryEnding ==
  \A p, c \in Jobs :
    (parent[c] = p /\ status[c] \in Terminal /\ status[p] \in Open /\ retries[p] = 0)
      => \E m \in inbox : m.to = p /\ m.child = c

\* A sleeping parent wakes or ends, however its children end: by a handler, by
\* a sweep, or by their own children.  The exception is a subtree with a child
\* that ended unreported, which may strand every parent above it.
ParentsWake ==
  \A p \in Jobs :
    (status[p] = "waiting-children") ~>
      (\/ status[p] # "waiting-children"
       \/ \E c \in Descendants(p) : error[c] \in {"stalled", "child-failed"})
=============================================================================
