-------------------------- MODULE MinionQueueProofs --------------------------
(***************************************************************************)
(* Theorems about MinionQueue, for every number of jobs, every set of      *)
(* submission options and every spawn depth.                               *)
(***************************************************************************)
EXTENDS MinionQueue, FiniteSetTheorems, TLAPS

-----------------------------------------------------------------------------
\* What the shared pieces of SQL do, row by row.

\* Resolving parents keeps the table well typed.
LEMMA ResolveType ==
  ASSUME NEW st \in [Jobs -> Statuses], NEW par, NEW P
  PROVE  Resolve(st, par, P) \in [Jobs -> Statuses]
BY DEF Resolve, Statuses, Open, Terminal

\* Resolving leaves a row alone, or wakes a sleeping one of P without children.
LEMMA ResolveRow ==
  ASSUME NEW st \in [Jobs -> Statuses], NEW par, NEW P, NEW j \in Jobs
  PROVE  \/ Resolve(st, par, P)[j] = st[j]
         \/ /\ Resolve(st, par, P)[j] = "waiting"
            /\ st[j] = "waiting-children"
            /\ OpenChildren(st, par, j) = {}
BY DEF Resolve

\* A sleeping row of P without children does not stay asleep.
LEMMA ResolveWakes ==
  ASSUME NEW st \in [Jobs -> Statuses], NEW par, NEW P, NEW j \in Jobs,
         j \in P, st[j] = "waiting-children", OpenChildren(st, par, j) = {}
  PROVE  Resolve(st, par, P)[j] = "waiting"
BY DEF Resolve

\* The posted messages are child_done messages.
LEMMA PostType ==
  ASSUME TypeOK, NEW S \in SUBSET Jobs, NEW st, NEW outcome \in Outcomes
  PROVE  Post(S, st, outcome) \subseteq ChildDone
BY DEF Post, ChildDone, TypeOK

\* Committing keeps the three columns well typed.
LEMMA CommitType ==
  ASSUME NEW st \in [Jobs -> Statuses], NEW par \in [Jobs -> Jobs \cup {NoJob}],
         NEW box \in SUBSET ChildDone, NEW gone, Commit(st, par, box, gone)
  PROVE  /\ status' \in [Jobs -> Statuses]
         /\ parent' \in [Jobs -> Jobs \cup {NoJob}]
         /\ inbox' \subseteq ChildDone
BY DEF Commit, Statuses

\* Counting rows keeps a column of naturals.
LEMMA CountType ==
  ASSUME NEW f \in [Jobs -> Nat], NEW S
  PROVE  /\ Count(f, S) \in [Jobs -> Nat]
         /\ \A j \in Jobs : Count(f, S)[j] = IF j \in S THEN f[j] + 1 ELSE f[j]
BY DEF Count

LEMMA InitType == Init => TypeOK
<1> SUFFICES ASSUME Init PROVE TypeOK
  OBVIOUS
<1>1. (CHOOSE o \in Options : TRUE) \in Options
  BY OptionsAssumption
<1>2. MaxJobs \in Nat /\ MaxSpawnDepth \in Nat /\ MaxInterventions \in Nat
  BY MaxJobsAssumption, DepthAssumption, InterventionsAssumption
<1>3. nextId \in 1..(MaxJobs + 1) /\ interventions \in 0..MaxInterventions
  BY <1>2 DEF Init
<1>4. depth \in [Jobs -> 0..MaxSpawnDepth]
  BY <1>2 DEF Init
<1>5. opts \in [Jobs -> Options]
  BY <1>1 DEF Init
<1>6. error \in [Jobs -> ErrorTexts] /\ status \in [Jobs -> Statuses]
  BY DEF Init, ErrorTexts, Statuses
<1> QED
  BY <1>3, <1>4, <1>5, <1>6 DEF Init, TypeOK, NoJob

\* Every step keeps the table well typed.
LEMMA NextType == TypeOK /\ [Next]_vars => TypeOK'
<1> SUFFICES ASSUME TypeOK, [Next]_vars PROVE TypeOK'
  OBVIOUS
<1> USE MaxJobsAssumption, DepthAssumption, InterventionsAssumption DEF TypeOK
<1>1. ASSUME NEW p \in Jobs \cup {NoJob}, NEW o \in Options,
             NEW first \in {"waiting", "delayed"}, Add(p, o, first)
      PROVE  TypeOK'
  <2>1. status' \in [Jobs -> Statuses]
    BY <1>1 DEF Add, Statuses, Open, Terminal
  <2>2. depth' \in [Jobs -> 0..MaxSpawnDepth]
    <3>1. (IF p = NoJob THEN 0 ELSE depth[p] + 1) \in 0..MaxSpawnDepth
      BY <1>1 DEF Add, NoJob
    <3> QED BY <1>1, <3>1 DEF Add
  <2>3. nextId' \in 1..(MaxJobs + 1)
    BY <1>1 DEF Add, Jobs
  <2>4. parent' \in [Jobs -> Jobs \cup {NoJob}]
    BY <1>1 DEF Add
  <2> QED BY <1>1, <2>1, <2>2, <2>3, <2>4 DEF Add, counters, history
<1>2. ASSUME NEW j \in Jobs, Claim(j) PROVE TypeOK'
  BY <1>2 DEF Claim, tree, history, Statuses, Open
<1>3. ASSUME NEW j \in Jobs, NEW t \in 1..attemptsStarted[j], CompleteJob(j, t)
      PROVE  TypeOK'
  <2> DEFINE done == [status EXCEPT ![j] = "completed"]
  <2>1. done \in [Jobs -> Statuses]
    BY DEF Statuses, Terminal
  <2>2. Post({j}, done, "complete") \subseteq ChildDone
    BY PostType DEF Outcomes
  <2>3. /\ status' \in [Jobs -> Statuses]
        /\ parent' \in [Jobs -> Jobs \cup {NoJob}]
        /\ inbox' \subseteq ChildDone
    <3> DEFINE st == Resolve(done, parent, {parent[j]})
               box == inbox \cup Post({j}, done, "complete")
               gone == IF opts[j].removeOnComplete THEN {j} ELSE {}
    <3>1. Commit(st, parent, box, gone)
      BY <1>3 DEF CompleteJob
    <3>2. st \in [Jobs -> Statuses] /\ box \in SUBSET ChildDone
      BY <2>1, <2>2, ResolveType
    <3> HIDE DEF st, box, gone
    <3> QED BY <3>1, <3>2, CommitType
  <2>4. result' \in [Jobs -> Nat] /\ token' \in [Jobs -> Nat]
    BY <1>3 DEF CompleteJob, ReleaseLocks
  <2> QED BY <1>3, <2>3, <2>4 DEF CompleteJob, counters, history
<1>4. ASSUME NEW j \in Jobs, NEW t \in 1..attemptsStarted[j], FailForRetry(j, t)
      PROVE  TypeOK'
  <2>1. attemptsMade' \in [Jobs -> Nat]
    BY <1>4, CountType DEF FailForRetry
  <2> QED
    BY <1>4, <2>1
    DEF FailForRetry, SetErrors, ReleaseLocks, tree, history, Statuses, Open, ErrorTexts
<1>5. ASSUME NEW j \in Jobs, NEW t \in 1..attemptsStarted[j], FailForGood(j, t)
      PROVE  TypeOK'
  <2> DEFINE p == parent[j]
             policy == opts[j].onChildFail
             dead == [status EXCEPT ![j] = "dead"]
             sinks == policy = "fail_parent" /\ p # NoJob /\ dead[p] = "waiting-children"
             freed == IF policy = "remove_dep" THEN [parent EXCEPT ![j] = NoJob] ELSE parent
             st == IF policy = "fail_parent"
                     THEN [k \in Jobs |-> IF sinks /\ k = p THEN "failed" ELSE dead[k]]
                     ELSE Resolve(dead, freed, {p})
             box == inbox \cup Post({j}, dead, "dead")
             gone == IF opts[j].removeOnFail THEN {j} ELSE {}
  <2>1. dead \in [Jobs -> Statuses]
    BY DEF Statuses, Terminal
  <2>2. freed \in [Jobs -> Jobs \cup {NoJob}]
    OBVIOUS
  <2>3. st \in [Jobs -> Statuses]
    <3>1. [k \in Jobs |-> IF sinks /\ k = p THEN "failed" ELSE dead[k]] \in [Jobs -> Statuses]
      BY <2>1 DEF Statuses, Terminal
    <3>2. Resolve(dead, freed, {p}) \in [Jobs -> Statuses]
      BY <2>1, ResolveType
    <3> QED BY <3>1, <3>2
  <2>4. box \in SUBSET ChildDone
    <3>1. Post({j}, dead, "dead") \subseteq ChildDone
      BY PostType DEF Outcomes
    <3> QED BY <3>1
  <2>5. Commit(st, freed, box, gone)
    BY <1>5 DEF FailForGood
  <2>6. /\ status' \in [Jobs -> Statuses]
        /\ parent' \in [Jobs -> Jobs \cup {NoJob}]
        /\ inbox' \subseteq ChildDone
    <3> HIDE DEF st, box, gone, freed
    <3> QED BY <2>2, <2>3, <2>4, <2>5, CommitType
  <2>7. attemptsMade' \in [Jobs -> Nat]
    BY <1>5, CountType DEF FailForGood
  <2>8. error' \in [Jobs -> ErrorTexts] /\ token' \in [Jobs -> Nat]
    BY <1>5 DEF FailForGood, ReleaseLocks, ErrorTexts
  <2> QED BY <1>5, <2>6, <2>7, <2>8 DEF FailForGood, history
<1>6. ASSUME NEW j \in Jobs, NEW t \in 1..attemptsStarted[j], ReleaseLeaseFullJob(j, t)
      PROVE  TypeOK'
  <2>1. /\ interventions' \in 0..MaxInterventions
        /\ status' \in [Jobs -> Statuses]
    BY <1>6 DEF ReleaseLeaseFullJob, Intervene, Statuses, Open
  <2>2. error' \in [Jobs -> ErrorTexts] /\ token' \in [Jobs -> Nat]
    BY <1>6 DEF ReleaseLeaseFullJob, SetErrors, ReleaseLocks, ErrorTexts
  <2> QED BY <1>6, <2>1, <2>2 DEF ReleaseLeaseFullJob, tree, counters, history
<1>7. ASSUME NEW S \in SUBSET Jobs, PromoteDelayed(S) PROVE TypeOK'
  BY <1>7 DEF PromoteDelayed, ReleaseLocks, tree, counters, history, Statuses, Open
<1>8. ASSUME NEW S \in SUBSET Jobs, HandleStalled(S) PROVE TypeOK'
  <2> DEFINE dead == {j \in S : ~ToleratesStall(j)}
  <2>1. stalledCounter' \in [Jobs -> Nat] /\ attemptsMade' \in [Jobs -> Nat]
    BY <1>8, CountType DEF HandleStalled
  <2>2. status' \in [Jobs -> Statuses]
    BY <1>8 DEF HandleStalled, Statuses, Open, Terminal
  <2>3. error' \in [Jobs -> ErrorTexts] /\ token' \in [Jobs -> Nat]
    BY <1>8 DEF HandleStalled, SetErrors, ReleaseLocks, ErrorTexts
  <2> QED BY <1>8, <2>1, <2>2, <2>3 DEF HandleStalled, tree, history
<1>9. ASSUME NEW S \in SUBSET Jobs, DeadLetter(S) PROVE TypeOK'
  <2> DEFINE dead == [j \in Jobs |-> IF j \in S THEN "dead" ELSE status[j]]
             st == Resolve(dead, parent, {parent[c] : c \in S})
             box == inbox \cup Post(S, dead, "timeout")
  <2>1. dead \in [Jobs -> Statuses]
    BY DEF Statuses, Terminal
  <2>2. st \in [Jobs -> Statuses]
    BY <2>1, ResolveType
  <2>3. box \in SUBSET ChildDone
    <3>1. Post(S, dead, "timeout") \subseteq ChildDone
      BY PostType DEF Outcomes
    <3> QED BY <3>1
  <2>4. Commit(st, parent, box, {})
    BY <1>9 DEF DeadLetter
  <2>5. /\ status' \in [Jobs -> Statuses]
        /\ parent' \in [Jobs -> Jobs \cup {NoJob}]
        /\ inbox' \subseteq ChildDone
    <3> HIDE DEF st, box
    <3> QED BY <2>2, <2>3, <2>4, CommitType
  <2>6. attemptsMade' \in [Jobs -> Nat]
    BY <1>9, CountType DEF DeadLetter
  <2>7. error' \in [Jobs -> ErrorTexts] /\ token' \in [Jobs -> Nat]
    BY <1>9 DEF DeadLetter, SetErrors, ReleaseLocks, ErrorTexts
  <2> QED BY <1>9, <2>5, <2>6, <2>7 DEF DeadLetter, history
<1>10. ASSUME NEW j \in Jobs, CancelJob(j) PROVE TypeOK'
  <2> DEFINE hit == {k \in Descendants(j) : status[k] \in Cancellable}
             down == [k \in Jobs |-> IF k \in hit THEN "cancelled" ELSE status[k]]
             st == Resolve(down, parent, {parent[k] : k \in hit})
             box == inbox \cup Post(hit, down, "cancelled")
  <2>1. hit \in SUBSET Jobs
    BY DEF Descendants
  <2> HIDE DEF hit
  <2>2. down \in [Jobs -> Statuses]
    BY DEF Statuses, Terminal
  <2>3. st \in [Jobs -> Statuses]
    BY <2>2, ResolveType
  <2>4. box \in SUBSET ChildDone
    <3>1. Post(hit, down, "cancelled") \subseteq ChildDone
      BY <2>1, PostType DEF Outcomes
    <3> QED BY <3>1
  <2>5. Commit(st, parent, box, {}) /\ ReleaseLocks(hit)
    BY <1>10 DEF CancelJob, hit
  <2>6. /\ status' \in [Jobs -> Statuses]
        /\ parent' \in [Jobs -> Jobs \cup {NoJob}]
        /\ inbox' \subseteq ChildDone
    <3> HIDE DEF st, box
    <3> QED BY <2>3, <2>4, <2>5, CommitType
  <2>7. token' \in [Jobs -> Nat]
    BY <2>5 DEF ReleaseLocks
  <2> QED BY <1>10, <2>6, <2>7 DEF CancelJob, Intervene, counters, history
<1>11. ASSUME NEW j \in Jobs, RetryJob(j) PROVE TypeOK'
  <2>1. /\ interventions' \in 0..MaxInterventions
        /\ status' \in [Jobs -> Statuses]
    BY <1>11 DEF RetryJob, Intervene, Statuses, Open
  <2>2. error' \in [Jobs -> ErrorTexts] /\ token' \in [Jobs -> Nat]
    BY <1>11 DEF RetryJob, SetErrors, ReleaseLocks, ErrorTexts
  <2>3. retries' \in [Jobs -> Nat]
    BY <1>11 DEF RetryJob
  <2> QED BY <1>11, <2>1, <2>2, <2>3 DEF RetryJob, tree, counters
<1>12. ASSUME NEW j \in Jobs, PauseJob(j) \/ ResumeJob(j) PROVE TypeOK'
  BY <1>12 DEF PauseJob, ResumeJob, Intervene, ReleaseLocks, tree, counters, history,
               Statuses, Open
<1>13. ASSUME NEW S \in SUBSET Jobs, Commit(status, parent, inbox, S),
              interventions' \in 0..MaxInterventions,
              UNCHANGED <<nextId, depth, opts, token, error, counters, result, history>>
       PROVE  TypeOK'
  <2>1. /\ status' \in [Jobs -> Statuses]
        /\ parent' \in [Jobs -> Jobs \cup {NoJob}]
        /\ inbox' \subseteq ChildDone
    BY <1>13, CommitType
  <2> QED BY <1>13, <2>1 DEF counters, history
<1>14. ASSUME NEW j \in Jobs, RemoveJob(j) PROVE TypeOK'
  BY <1>13, <1>14 DEF RemoveJob, Intervene
<1>15. ASSUME NEW S \in SUBSET Jobs, Prune(S) PROVE TypeOK'
  BY <1>13, <1>15 DEF Prune, Intervene
<1>16. CASE UNCHANGED vars
  BY <1>16 DEF vars
<1> QED
  BY <1>1, <1>2, <1>3, <1>4, <1>5, <1>6, <1>7, <1>8, <1>9, <1>10, <1>11, <1>12, <1>14,
     <1>15, <1>16
  DEF Next, FailJob, HandleTimeouts, HandleWallClockTimeouts

\* Every reachable table is well typed.
THEOREM TypeCorrect == Spec => []TypeOK
BY InitType, NextType, PTL DEF Spec

-----------------------------------------------------------------------------
\* What a step may do to the columns of one row: the only ways in which a
\* counter, a result, a lock token or a status ever changes.

CountersKept(j) ==
  /\ attemptsMade'[j] = attemptsMade[j]
  /\ attemptsStarted'[j] = attemptsStarted[j]
  /\ stalledCounter'[j] = stalledCounter[j]
  /\ retries'[j] = retries[j]
  /\ result'[j] = result[j]

Stays(j) == CountersKept(j) /\ opts'[j] = opts[j] /\ status'[j] = status[j]
            /\ token'[j] = token[j]

\* An open row gives up its execution, or its place, without being counted.
Yields(j) ==
  /\ CountersKept(j) /\ opts'[j] = opts[j]
  /\ status[j] \in Open
  /\ status'[j] \in {"waiting", "delayed", "waiting-children", "paused", "failed",
                     "cancelled"}

Vanishes(j) == CountersKept(j) /\ opts'[j] = opts[j] /\ status'[j] = "none"

Inserted(j) ==
  /\ CountersKept(j) /\ opts'[j] \in Options
  /\ j = nextId /\ nextId' = nextId + 1
  /\ status'[j] \in {"waiting", "delayed"}

Fails(j) ==
  /\ status[j] = "active"
  /\ \/ status'[j] = "delayed" /\ MayRetry(j)
     \/ status'[j] \in {"dead", "none"}
  /\ attemptsMade'[j] = attemptsMade[j] + 1
  /\ attemptsStarted'[j] = attemptsStarted[j]
  /\ stalledCounter'[j] = stalledCounter[j]
  /\ retries'[j] = retries[j] /\ result'[j] = result[j] /\ opts'[j] = opts[j]

Stalls(j) ==
  /\ status[j] = "active"
  /\ \/ /\ ToleratesStall(j) /\ status'[j] = "waiting"
        /\ attemptsMade'[j] = attemptsMade[j]
     \/ /\ status'[j] = "dead"
        /\ attemptsMade'[j] = attemptsMade[j] + 1
  /\ stalledCounter'[j] = stalledCounter[j] + 1
  /\ attemptsStarted'[j] = attemptsStarted[j]
  /\ retries'[j] = retries[j] /\ result'[j] = result[j] /\ opts'[j] = opts[j]

Revives(j) ==
  /\ status[j] \in {"failed", "dead"} /\ status'[j] = "waiting"
  /\ retries'[j] = retries[j] + 1
  /\ attemptsMade'[j] = attemptsMade[j]
  /\ attemptsStarted'[j] = attemptsStarted[j]
  /\ stalledCounter'[j] = stalledCounter[j]
  /\ result'[j] = result[j] /\ opts'[j] = opts[j]

Claims(j) ==
  /\ status[j] = "waiting" /\ status'[j] = "active"
  /\ attemptsStarted'[j] = attemptsStarted[j] + 1
  /\ token'[j] = attemptsStarted[j] + 1
  /\ attemptsMade'[j] = attemptsMade[j]
  /\ stalledCounter'[j] = stalledCounter[j]
  /\ retries'[j] = retries[j] /\ result'[j] = result[j] /\ opts'[j] = opts[j]

Completes(j) ==
  /\ status[j] = "active" /\ token[j] # 0
  /\ status'[j] \in {"completed", "none"}
  /\ result'[j] = token[j]
  /\ attemptsMade'[j] = attemptsMade[j]
  /\ attemptsStarted'[j] = attemptsStarted[j]
  /\ stalledCounter'[j] = stalledCounter[j]
  /\ retries'[j] = retries[j] /\ opts'[j] = opts[j]

\* Neither the start of an execution nor its success.
Quiet(j) ==
  \/ Stays(j) \/ Yields(j) \/ Vanishes(j) \/ Inserted(j) \/ Fails(j)
  \/ Stalls(j) \/ Revives(j)

\* A row that is not what the step is about: at most, it wakes.
Bystander(j) ==
  \/ Stays(j)
  \/ Yields(j) /\ status[j] = "waiting-children" /\ status'[j] = "waiting"

StepShape ==
  /\ nextId' = nextId \/ (nextId \in Jobs /\ nextId' = nextId + 1)
  /\ \/ \A k \in Jobs : Quiet(k)
     \/ \E j \in Jobs : Claims(j) /\ \A k \in Jobs \ {j} : Bystander(k)
     \/ \E j \in Jobs : Completes(j) /\ \A k \in Jobs \ {j} : Bystander(k)

\* Every step has that shape.
LEMMA NextShape == TypeOK /\ [Next]_vars => StepShape
<1> SUFFICES ASSUME TypeOK, [Next]_vars PROVE StepShape
  OBVIOUS
<1> USE DEF TypeOK
<1>1. ASSUME NEW p \in Jobs \cup {NoJob}, NEW o \in Options,
             NEW first \in {"waiting", "delayed"}, Add(p, o, first)
      PROVE  StepShape
  <2>1. ASSUME NEW k \in Jobs PROVE Quiet(k)
    <3>1. CASE k = nextId
      BY <1>1, <3>1 DEF Add, Quiet, Inserted, CountersKept, counters, history
    <3>2. CASE k # nextId
      BY <1>1, <3>2 DEF Add, Quiet, Stays, Yields, CountersKept, counters, history, Open
    <3> QED BY <3>1, <3>2
  <2> QED BY <1>1, <2>1 DEF Add, StepShape
<1>2. ASSUME NEW j \in Jobs, Claim(j) PROVE StepShape
  <2>1. Claims(j)
    BY <1>2 DEF Claim, Claims, tree, history
  <2>2. ASSUME NEW k \in Jobs \ {j} PROVE Bystander(k)
    BY <1>2 DEF Claim, Bystander, Stays, CountersKept, tree, history
  <2> QED BY <1>2, <2>1, <2>2 DEF StepShape, Claim, tree
<1>3. ASSUME NEW j \in Jobs, NEW t \in 1..attemptsStarted[j], CompleteJob(j, t)
      PROVE  StepShape
  <2> DEFINE done == [status EXCEPT ![j] = "completed"]
             st == Resolve(done, parent, {parent[j]})
             gone == IF opts[j].removeOnComplete THEN {j} ELSE {}
  <2>1. done \in [Jobs -> Statuses]
    BY DEF Statuses, Terminal
  <2>2. \A k \in Jobs : status'[k] = IF k \in gone THEN "none" ELSE st[k]
    BY <1>3 DEF CompleteJob, Commit
  <2>3. ASSUME NEW k \in Jobs
        PROVE  st[k] = done[k] \/ (st[k] = "waiting" /\ done[k] = "waiting-children")
    <3> HIDE DEF done
    <3> QED BY <2>1, ResolveRow
  <2> HIDE DEF st
  <2>4. Completes(j)
    BY <1>3, <2>2, <2>3 DEF CompleteJob, Holds, Completes, counters, history
  <2>5. ASSUME NEW k \in Jobs \ {j} PROVE Bystander(k)
    <3>1. status'[k] = status[k] \/ (status'[k] = "waiting" /\ status[k] = "waiting-children")
      BY <2>2, <2>3
    <3> QED
      BY <1>3, <3>1 DEF CompleteJob, Bystander, Stays, Yields, CountersKept, counters, history,
                        ReleaseLocks, Open
  <2> QED BY <1>3, <2>4, <2>5 DEF StepShape, CompleteJob
<1>4. ASSUME NEW j \in Jobs, NEW t \in 1..attemptsStarted[j], MayRetry(j), FailForRetry(j, t)
      PROVE  StepShape
  <2>1. ASSUME NEW k \in Jobs PROVE Quiet(k)
    <3>1. CASE k = j
      BY <1>4, <3>1, CountType DEF FailForRetry, Holds, Quiet, Fails, tree, history
    <3>2. CASE k # j
      BY <1>4, <3>2, CountType DEF FailForRetry, Quiet, Stays, CountersKept, tree, history,
                                   ReleaseLocks
    <3> QED BY <3>1, <3>2
  <2> QED BY <1>4, <2>1 DEF StepShape, FailForRetry, tree
<1>5. ASSUME NEW j \in Jobs, NEW t \in 1..attemptsStarted[j], FailForGood(j, t)
      PROVE  StepShape
  <2> DEFINE p == parent[j]
             policy == opts[j].onChildFail
             dead == [status EXCEPT ![j] = "dead"]
             sinks == policy = "fail_parent" /\ p # NoJob /\ dead[p] = "waiting-children"
             freed == IF policy = "remove_dep" THEN [parent EXCEPT ![j] = NoJob] ELSE parent
             st == IF policy = "fail_parent"
                     THEN [k \in Jobs |-> IF sinks /\ k = p THEN "failed" ELSE dead[k]]
                     ELSE Resolve(dead, freed, {p})
             gone == IF opts[j].removeOnFail THEN {j} ELSE {}
  <2>1. dead \in [Jobs -> Statuses]
    BY DEF Statuses, Terminal
  <2>2. \A k \in Jobs : status'[k] = IF k \in gone THEN "none" ELSE st[k]
    BY <1>5 DEF FailForGood, Commit
  <2>3. ASSUME NEW k \in Jobs
        PROVE  \/ st[k] = dead[k]
               \/ st[k] \in {"waiting", "failed"} /\ dead[k] = "waiting-children"
    <3>1. CASE policy = "fail_parent"
      BY <2>1, <3>1
    <3>2. CASE policy # "fail_parent"
      <4>1. st = Resolve(dead, freed, {p})
        BY <3>2
      <4> HIDE DEF dead, freed, st
      <4> QED BY <2>1, <4>1, ResolveRow
    <3> QED BY <3>1, <3>2
  <2> HIDE DEF st
  <2>4. /\ attemptsMade' = Count(attemptsMade, {j}) /\ ReleaseLocks({j}) /\ Holds(j, t)
        /\ UNCHANGED <<nextId, opts, attemptsStarted, stalledCounter, result, history>>
    BY <1>5 DEF FailForGood
  <2>5. Quiet(j)
    <3>1. status'[j] \in {"dead", "none"}
      BY <2>2, <2>3
    <3> QED BY <2>4, <3>1, CountType DEF Holds, Quiet, Fails, history
  <2>6. ASSUME NEW k \in Jobs \ {j} PROVE Quiet(k)
    <3>1. \/ status'[k] = status[k]
          \/ status'[k] \in {"waiting", "failed"} /\ status[k] = "waiting-children"
      BY <2>2, <2>3
    <3> QED
      BY <2>4, <3>1, CountType
      DEF Quiet, Stays, Yields, CountersKept, history, ReleaseLocks, Open
  <2> QED BY <2>4, <2>5, <2>6 DEF StepShape
<1>6. ASSUME NEW j \in Jobs, NEW t \in 1..attemptsStarted[j], ReleaseLeaseFullJob(j, t)
      PROVE  StepShape
  <2>1. ASSUME NEW k \in Jobs PROVE Quiet(k)
    BY <1>6 DEF ReleaseLeaseFullJob, Holds, Quiet, Stays, Yields, CountersKept, tree,
                counters, history, ReleaseLocks, Open
  <2> QED BY <1>6, <2>1 DEF StepShape, ReleaseLeaseFullJob, tree
<1>7. ASSUME NEW S \in SUBSET Jobs, PromoteDelayed(S) PROVE StepShape
  <2>1. ASSUME NEW k \in Jobs PROVE Quiet(k)
    BY <1>7 DEF PromoteDelayed, Quiet, Stays, Yields, CountersKept, tree, counters, history,
                ReleaseLocks, Open
  <2> QED BY <1>7, <2>1 DEF StepShape, PromoteDelayed, tree
<1>8. ASSUME NEW S \in SUBSET Jobs, HandleStalled(S) PROVE StepShape
  <2>1. ASSUME NEW k \in Jobs PROVE Quiet(k)
    <3>1. CASE k \in S
      BY <1>8, <3>1, CountType DEF HandleStalled, Quiet, Stalls, tree, history
    <3>2. CASE k \notin S
      BY <1>8, <3>2, CountType DEF HandleStalled, Quiet, Stays, CountersKept, tree, history,
                                   ReleaseLocks
    <3> QED BY <3>1, <3>2
  <2> QED BY <1>8, <2>1 DEF StepShape, HandleStalled, tree
<1>9. ASSUME NEW S \in SUBSET Jobs, DeadLetter(S) PROVE StepShape
  <2> DEFINE dead == [j \in Jobs |-> IF j \in S THEN "dead" ELSE status[j]]
             st == Resolve(dead, parent, {parent[c] : c \in S})
  <2>1. dead \in [Jobs -> Statuses]
    BY DEF Statuses, Terminal
  <2>2. \A k \in Jobs : status'[k] = st[k]
    BY <1>9 DEF DeadLetter, Commit
  <2>3. ASSUME NEW k \in Jobs
        PROVE  st[k] = dead[k] \/ (st[k] = "waiting" /\ dead[k] = "waiting-children")
    BY <2>1, ResolveRow
  <2> HIDE DEF st
  <2>4. ASSUME NEW k \in Jobs PROVE Quiet(k)
    <3>1. CASE k \in S
      <4>1. status[k] = "active" /\ status'[k] = "dead"
        BY <1>9, <2>2, <2>3, <3>1 DEF DeadLetter, Overdue
      <4> QED
        BY <1>9, <3>1, <4>1, CountType DEF DeadLetter, Quiet, Fails, history
    <3>2. CASE k \notin S
      <4>1. status'[k] = status[k] \/ (status'[k] = "waiting" /\ status[k] = "waiting-children")
        BY <2>2, <2>3, <3>2
      <4> QED
        BY <1>9, <3>2, <4>1, CountType
        DEF DeadLetter, Quiet, Stays, Yields, CountersKept, history, ReleaseLocks, Open
    <3> QED BY <3>1, <3>2
  <2> QED BY <1>9, <2>4 DEF StepShape, DeadLetter
<1>10. ASSUME NEW j \in Jobs, CancelJob(j) PROVE StepShape
  <2> DEFINE hit == {k \in Descendants(j) : status[k] \in Cancellable}
             down == [k \in Jobs |-> IF k \in hit THEN "cancelled" ELSE status[k]]
             st == Resolve(down, parent, {parent[k] : k \in hit})
  <2>1. down \in [Jobs -> Statuses]
    BY DEF Statuses, Terminal
  <2>2. \A k \in Jobs : status'[k] = st[k]
    BY <1>10 DEF CancelJob, Commit
  <2>3. ASSUME NEW k \in Jobs
        PROVE  st[k] = down[k] \/ (st[k] = "waiting" /\ down[k] = "waiting-children")
    BY <2>1, ResolveRow
  <2>4. \A k \in hit : status[k] \in Open
    BY DEF Cancellable, Open
  <2>5. /\ ReleaseLocks(hit)
        /\ UNCHANGED <<nextId, opts, counters, result, history>>
    BY <1>10 DEF CancelJob
  <2> HIDE DEF st, hit
  <2>6. ASSUME NEW k \in Jobs PROVE Quiet(k)
    <3>1. CASE k \in hit
      BY <2>2, <2>3, <2>4, <2>5, <3>1 DEF Quiet, Yields, CountersKept, counters, history
    <3>2. CASE k \notin hit
      BY <2>2, <2>3, <2>5, <3>2
      DEF Quiet, Stays, Yields, CountersKept, counters, history, ReleaseLocks, Open
    <3> QED BY <3>1, <3>2
  <2> QED BY <2>5, <2>6 DEF StepShape
<1>11. ASSUME NEW j \in Jobs, RetryJob(j) PROVE StepShape
  <2>1. ASSUME NEW k \in Jobs PROVE Quiet(k)
    BY <1>11 DEF RetryJob, Retryable, Quiet, Stays, Revives, CountersKept, tree, counters,
                 ReleaseLocks
  <2> QED BY <1>11, <2>1 DEF StepShape, RetryJob, tree
<1>12. ASSUME NEW j \in Jobs, PauseJob(j) \/ ResumeJob(j) PROVE StepShape
  <2>1. ASSUME NEW k \in Jobs PROVE Quiet(k)
    BY <1>12 DEF PauseJob, ResumeJob, Quiet, Stays, Yields, CountersKept, tree, counters,
                 history, ReleaseLocks, Open
  <2> QED BY <1>12, <2>1 DEF StepShape, PauseJob, ResumeJob, tree
<1>13. ASSUME NEW S \in SUBSET Jobs, Commit(status, parent, inbox, S),
              UNCHANGED <<nextId, opts, token, counters, result, history>>
       PROVE  StepShape
  <2>1. ASSUME NEW k \in Jobs PROVE Quiet(k)
    BY <1>13 DEF Commit, Quiet, Stays, Vanishes, CountersKept, counters, history
  <2> QED BY <1>13, <2>1 DEF StepShape
<1>14. ASSUME NEW j \in Jobs, RemoveJob(j) PROVE StepShape
  BY <1>13, <1>14 DEF RemoveJob
<1>15. ASSUME NEW S \in SUBSET Jobs, Prune(S) PROVE StepShape
  BY <1>13, <1>15 DEF Prune
<1>16. CASE UNCHANGED vars
  BY <1>16 DEF vars, StepShape, Quiet, Stays, CountersKept
<1> QED
  BY <1>1, <1>2, <1>3, <1>4, <1>5, <1>6, <1>7, <1>8, <1>9, <1>10, <1>11, <1>12, <1>14,
     <1>15, <1>16
  DEF Next, FailJob, HandleTimeouts, HandleWallClockTimeouts

-----------------------------------------------------------------------------
\* The inductive invariant of the counters.  AttemptsOrder and BudgetsRespected
\* are not inductive alone: an active row must have been started once more than
\* it was charged, and a row not inserted yet must be blank.
Blank(j) ==
  /\ status[j] = "none" /\ result[j] = 0 /\ retries[j] = 0
  /\ attemptsMade[j] = 0 /\ attemptsStarted[j] = 0 /\ stalledCounter[j] = 0

CountersOK(j) ==
  /\ attemptsMade[j] <= attemptsStarted[j]
  /\ status[j] = "active" =>
       /\ attemptsMade[j] < attemptsStarted[j]
       /\ token[j] = attemptsStarted[j]
  /\ status[j] # "none" =>
       /\ attemptsMade[j] <= opts[j].maxAttempts + retries[j]
       /\ stalledCounter[j] <= opts[j].maxStalled + retries[j]
  /\ status[j] \in Open =>
       /\ attemptsMade[j] < opts[j].maxAttempts + retries[j]
       /\ stalledCounter[j] < opts[j].maxStalled + retries[j]
  /\ status[j] \in Open \cup {"failed", "dead"} => result[j] = 0

CountersInv == \A j \in Jobs : (j >= nextId => Blank(j)) /\ CountersOK(j)

\* A row that keeps its columns, or is inserted blank, keeps the invariant.
LEMMA CountersStep ==
  ASSUME TypeOK, TypeOK', CountersInv, NEW j \in Jobs,
         Quiet(j) \/ Claims(j) \/ Completes(j)
  PROVE  CountersOK(j)'
<1> DEFINE Num == /\ attemptsMade[j] \in Nat /\ attemptsStarted[j] \in Nat
                  /\ stalledCounter[j] \in Nat /\ retries[j] \in Nat
                  /\ result[j] \in Nat /\ token[j] \in Nat
                  /\ opts[j].maxAttempts \in Nat \ {0} /\ opts[j].maxStalled \in Nat \ {0}
                  /\ opts'[j].maxAttempts \in Nat \ {0} /\ opts'[j].maxStalled \in Nat \ {0}
<1>1. Num
  BY OptionsAssumption DEF TypeOK, OptionType
<1>2. CountersOK(j) /\ (j >= nextId => Blank(j))
  BY DEF CountersInv
<1>3. CASE Stays(j)
  BY <1>2, <1>3 DEF Stays, CountersKept, CountersOK
<1>4. CASE Yields(j)
  BY <1>1, <1>2, <1>4 DEF Yields, CountersKept, CountersOK, Open
<1>5. CASE Vanishes(j)
  BY <1>1, <1>2, <1>5 DEF Vanishes, CountersKept, CountersOK, Open
<1>6. CASE Inserted(j)
  <2>1. Blank(j)
    BY <1>2, <1>6 DEF Inserted, TypeOK
  <2> QED BY <1>1, <1>6, <2>1 DEF Inserted, Blank, CountersKept, CountersOK, Open
<1>7. CASE Fails(j)
  BY <1>1, <1>2, <1>7 DEF Fails, MayRetry, CountersOK, Open
<1>8. CASE Stalls(j)
  BY <1>1, <1>2, <1>8 DEF Stalls, ToleratesStall, CountersOK, Open
<1>9. CASE Revives(j)
  BY <1>1, <1>2, <1>9 DEF Revives, CountersOK, Open
<1>10. CASE Claims(j)
  BY <1>1, <1>2, <1>10 DEF Claims, CountersOK, Open
<1>11. CASE Completes(j)
  BY <1>1, <1>2, <1>11 DEF Completes, CountersOK, Open
<1> QED BY <1>3, <1>4, <1>5, <1>6, <1>7, <1>8, <1>9, <1>10, <1>11 DEF Quiet

\* Rows beyond the sequence stay blank: nothing claims, ends or revives them.
LEMMA BlankStep ==
  ASSUME TypeOK, CountersInv, StepShape, NEW j \in Jobs, j >= nextId'
  PROVE  Blank(j)'
<1>1. Blank(j) /\ (j # nextId \/ nextId' = nextId)
  BY DEF CountersInv, StepShape, TypeOK, Jobs
<1>2. Quiet(j)
  BY <1>1 DEF StepShape, Bystander, Quiet, Claims, Completes, Blank
<1>3. Stays(j) \/ Vanishes(j)
  BY <1>1, <1>2 DEF Quiet, Yields, Inserted, Fails, Stalls, Revives, Blank, Open, TypeOK
<1> QED BY <1>1, <1>3 DEF Stays, Vanishes, CountersKept, Blank

LEMMA CountersInductive == TypeOK /\ CountersInv /\ [Next]_vars => CountersInv'
<1> SUFFICES ASSUME TypeOK, CountersInv, [Next]_vars, NEW j \in Jobs
             PROVE  (j >= nextId' => Blank(j)') /\ CountersOK(j)'
  BY DEF CountersInv
<1>1. StepShape /\ TypeOK'
  BY NextShape, NextType
<1>2. Quiet(j) \/ Claims(j) \/ Completes(j)
  BY <1>1 DEF StepShape, Bystander, Quiet
<1> QED BY <1>1, <1>2, CountersStep, BlankStep

LEMMA CountersInit == Init => CountersInv
<1> SUFFICES ASSUME Init, NEW j \in Jobs PROVE Blank(j) /\ CountersOK(j)
  BY DEF CountersInv
<1> QED BY DEF Init, Blank, CountersOK, Open

\* The counters of a row follow its history: the strengthening CountersSane needs.
THEOREM CountersInvariant == Spec => []CountersInv
<1>1. Init => CountersInv
  BY CountersInit
<1>2. TypeOK /\ CountersInv /\ [Next]_vars => CountersInv'
  BY CountersInductive
<1> QED BY <1>1, <1>2, TypeCorrect, PTL DEF Spec

\* No sequence of failures, bounces, sweeps and retries violates the table's
\* chk_attempts_order constraint.
THEOREM AttemptsOrdered == Spec => []AttemptsOrder
<1>1. CountersInv => AttemptsOrder
  BY DEF CountersInv, CountersOK, AttemptsOrder
<1> QED BY <1>1, CountersInvariant, PTL

\* A row is charged no more attempts and stalls than it was submitted with, one
\* more for each time retryJob revived it.
THEOREM BudgetsHold == Spec => []BudgetsRespected
<1>1. CountersInv => BudgetsRespected
  BY DEF CountersInv, CountersOK, BudgetsRespected, IsRow
<1> QED BY <1>1, CountersInvariant, PTL

\* A row that is completed or cancelled, and so is no longer open, can only stay
\* as it is or be deleted: a late completion, failure, sweep or retryJob finds
\* its guard false, and no insert reuses its id.
LEMMA DoneStep ==
  ASSUME TypeOK, CountersInv, StepShape, NEW j \in Jobs,
         status[j] \in {"completed", "cancelled"}
  PROVE  Stays(j) \/ Vanishes(j)
<1>1. Quiet(j)
  BY DEF StepShape, Bystander, Quiet, Claims, Completes
<1>2. j # nextId
  BY DEF CountersInv, Blank, TypeOK, Jobs
<1> QED
  BY <1>1, <1>2 DEF Quiet, Yields, Inserted, Fails, Stalls, Revives, Open

\* Late calls, sweeps and operator commands leave a completed or cancelled row
\* alone, or delete it.
THEOREM EndingsStand == Spec => DoneIsFinal
<1> DEFINE Final(j) ==
             status[j] \in {"completed", "cancelled"} =>
               \/ status'[j] = "none"
               \/ <<status[j], result[j], attemptsMade[j]>>' =
                    <<status[j], result[j], attemptsMade[j]>>
<1>1. ASSUME TypeOK, CountersInv, [Next]_vars, NEW j \in Jobs PROVE Final(j)
  <2>1. CASE status[j] \in {"completed", "cancelled"}
    <3>1. Stays(j) \/ Vanishes(j)
      BY <1>1, <2>1, NextShape, DoneStep
    <3> QED BY <3>1 DEF Stays, Vanishes, CountersKept
  <2> QED BY <2>1
<1>2. TypeOK /\ CountersInv /\ [Next]_vars => [\A j \in Jobs : Final(j)]_vars
  BY <1>1
<1> QED
  BY <1>2, TypeCorrect, CountersInvariant, PTL DEF Spec, DoneIsFinal

-----------------------------------------------------------------------------
\* The queue implements JobOwnership.

LEMMA OwnershipInit == Init => Ownership!Init
BY DEF Init, Ownership!Init, owner

\* Quiet rows keep their epoch and result, and lose their owner or keep it.
LEMMA QuietOwner ==
  ASSUME TypeOK, NEW j \in Jobs, Quiet(j)
  PROVE  /\ attemptsStarted'[j] = attemptsStarted[j]
         /\ result'[j] = result[j]
         /\ owner'[j] \in {0, owner[j]}
BY DEF Quiet, Stays, Yields, Vanishes, Inserted, Fails, Stalls, Revives, CountersKept,
       owner, TypeOK

\* Bystanders keep their epoch, result and owner.
LEMMA BystanderOwner ==
  ASSUME TypeOK, NEW j \in Jobs, Bystander(j)
  PROVE  /\ attemptsStarted'[j] = attemptsStarted[j]
         /\ result'[j] = result[j]
         /\ owner'[j] = owner[j]
BY DEF Bystander, Stays, Yields, CountersKept, owner, TypeOK

LEMMA OwnershipStep ==
  ASSUME TypeOK, TypeOK', CountersInv, [Next]_vars
  PROVE  Ownership!Next
<1>1. StepShape
  BY NextShape
<1>2. /\ attemptsStarted \in [Jobs -> Nat] /\ attemptsStarted' \in [Jobs -> Nat]
      /\ result \in [Jobs -> Nat] /\ result' \in [Jobs -> Nat]
      /\ owner \in [Jobs -> Nat] /\ owner' \in [Jobs -> Nat]
  BY DEF TypeOK, owner
<1>3. CASE \A k \in Jobs : Quiet(k)
  <2> DEFINE S == {k \in Jobs : owner'[k] # owner[k]}
  <2>1. \A k \in Jobs : /\ attemptsStarted'[k] = attemptsStarted[k]
                        /\ result'[k] = result[k]
                        /\ owner'[k] \in {0, owner[k]}
    BY <1>3, QuietOwner
  <2> HIDE DEF owner
  <2>2. attemptsStarted' = attemptsStarted /\ result' = result
    BY <1>2, <2>1
  <2>3. owner' = [k \in Jobs |-> IF k \in S THEN 0 ELSE owner[k]]
    BY <1>2, <2>1
  <2>4. Ownership!Revoke(S)
    BY <2>2, <2>3 DEF Ownership!Revoke
  <2> QED BY <2>4 DEF Ownership!Next
<1>4. ASSUME NEW j \in Jobs, Claims(j), \A k \in Jobs \ {j} : Bystander(k)
      PROVE  Ownership!Next
  <2>1. owner[j] = 0 /\ result[j] = 0
    BY <1>4 DEF Claims, owner, CountersInv, CountersOK, Open
  <2>2. owner'[j] = attemptsStarted[j] + 1
    BY <1>4 DEF Claims, owner
  <2>3. \A k \in Jobs \ {j} : /\ attemptsStarted'[k] = attemptsStarted[k]
                              /\ result'[k] = result[k]
                              /\ owner'[k] = owner[k]
    BY <1>4, BystanderOwner
  <2>4. attemptsStarted' = [attemptsStarted EXCEPT ![j] = @ + 1] /\ result' = result
    BY <1>2, <1>4, <2>3 DEF Claims
  <2>5. owner' = [owner EXCEPT ![j] = attemptsStarted[j] + 1]
    BY <1>2, <2>2, <2>3
  <2>6. Ownership!Grant(j)
    BY <2>1, <2>4, <2>5 DEF Ownership!Grant
  <2> QED BY <2>6 DEF Ownership!Next
<1>5. ASSUME NEW j \in Jobs, Completes(j), \A k \in Jobs \ {j} : Bystander(k)
      PROVE  Ownership!Next
  <2>1. owner[j] = token[j] /\ owner'[j] = 0
    BY <1>5 DEF Completes, owner
  <2>2. \A k \in Jobs \ {j} : /\ attemptsStarted'[k] = attemptsStarted[k]
                              /\ result'[k] = result[k]
                              /\ owner'[k] = owner[k]
    BY <1>5, BystanderOwner
  <2>3. result' = [result EXCEPT ![j] = owner[j]] /\ attemptsStarted' = attemptsStarted
    BY <1>2, <1>5, <2>1, <2>2 DEF Completes
  <2>4. owner' = [owner EXCEPT ![j] = 0]
    BY <1>2, <2>1, <2>2
  <2>5. Ownership!Finish(j)
    BY <1>5, <2>1, <2>3, <2>4 DEF Ownership!Finish, Completes
  <2> QED BY <2>5 DEF Ownership!Next
<1> QED BY <1>1, <1>3, <1>4, <1>5 DEF StepShape

\* At most one execution owns a job at a time, and only the owner's result is
\* ever stored, once: every behaviour of the queue is one of JobOwnership.
THEOREM ExclusiveOwnership == Spec => ImplementsOwnership
<1>1. TypeOK /\ TypeOK' /\ CountersInv /\ [Next]_vars => [Ownership!Next]_(Ownership!vars)
  BY OwnershipStep
<1> QED
  BY <1>1, OwnershipInit, TypeCorrect, CountersInvariant, PTL
  DEF Spec, ImplementsOwnership, Ownership!Spec

-----------------------------------------------------------------------------
\* Parents and children.  What every step but add() does to them: no child
\* changes its parent, except to lose it; no child reopens except by retryJob; a
\* row becomes claimable only from another claimable status, from a pause, by
\* retryJob, or when it has no open child; and a parent that loses its last open
\* child does not sleep on, but for the two endings that do not look at it.
Ready == {"waiting", "delayed", "active"}

Orphans(c) ==
  parent'[c] # NoJob => /\ parent'[c] = parent[c]
                        /\ status[parent[c]] # "none" => status'[parent[c]] # "none"

Reopens(c) == status'[c] \in Open => status[c] \in Open \/ retries'[c] > 0

Wakes(p) ==
  status'[p] \in Ready =>
    \/ status[p] \in Ready \cup {"paused"}
    \/ retries'[p] > 0
    \/ OpenChildren(status', parent', p) = {}

Follows(p) ==
  (/\ status[p] = "waiting-children" /\ status'[p] = "waiting-children"
   /\ OpenChildren(status, parent, p) # {}
   /\ OpenChildren(status', parent', p) = {})
    => \E c \in OpenChildren(status, parent, p) : error'[c] \in {"stalled", "child-failed"}

TreeShape ==
  /\ everPaused \subseteq everPaused'
  /\ \A k \in Jobs :
       /\ retries'[k] >= retries[k]
       /\ status[k] = "none" => status'[k] = "none"
       /\ status'[k] = "paused" => status[k] = "paused" \/ k \in everPaused'
       /\ Orphans(k) /\ Reopens(k) /\ Wakes(k) /\ Follows(k)

\* NULL is no job id.
LEMMA RealJobs == NoJob \notin Jobs
BY MaxJobsAssumption DEF NoJob, Jobs

\* In the table st, with the parents par, rows were only closed or detached, or
\* are about to be deleted; P holds every sleeping parent of such a row, the two
\* excused endings apart.
Closing(st, par, P, gone) ==
  \A k \in Jobs :
    /\ st[k] = status[k] \/ (st[k] \in Terminal /\ status[k] # "none")
    /\ par[k] \in {parent[k], NoJob}
    /\ k \in gone => st[k] \in Terminal
    /\ st[k] # status[k] \/ par[k] # parent[k] =>
         \/ parent[k] \in P \cup {NoJob}
         \/ error'[k] \in {"stalled", "child-failed"}
         \/ st[parent[k]] # "waiting-children"

\* A commit that resolves the parents P of such a table has that shape.
LEMMA CommitShape ==
  ASSUME TypeOK, NEW st \in [Jobs -> Statuses],
         NEW par \in [Jobs -> Jobs \cup {NoJob}], NEW P, NEW box, NEW gone,
         Commit(Resolve(st, par, P), par, box, gone),
         Closing(st, par, P, gone),
         UNCHANGED history
  PROVE  TreeShape
<1> DEFINE new == Resolve(st, par, P)
<1>1. new \in [Jobs -> Statuses]
  BY ResolveType
<1>2. ASSUME NEW k \in Jobs
      PROVE  \/ new[k] = st[k]
             \/ /\ new[k] = "waiting" /\ st[k] = "waiting-children"
                /\ OpenChildren(st, par, k) = {}
  BY ResolveRow
<1>3. ASSUME NEW k \in Jobs
      PROVE  /\ status'[k] = IF k \in gone THEN "none" ELSE new[k]
             /\ parent'[k] = IF par[k] \in gone THEN NoJob ELSE par[k]
  BY DEF Commit
<1>4. ASSUME NEW k \in Jobs, k \in P, st[k] = "waiting-children", new[k] # "waiting"
      PROVE  OpenChildren(st, par, k) # {}
  BY <1>4, ResolveWakes
<1> HIDE DEF new
<1>5. ASSUME NEW k \in Jobs
      PROVE  /\ st[k] = status[k] \/ (st[k] \in Terminal /\ status[k] # "none")
             /\ par[k] \in {parent[k], NoJob}
             /\ k \in gone => st[k] \in Terminal
             /\ parent[k] \in Jobs \cup {NoJob}
  BY DEF Closing, TypeOK
<1>6. ASSUME NEW k \in Jobs PROVE Orphans(k)
  <2>1. CASE par[k] = NoJob \/ par[k] \in gone
    BY <1>3, <2>1 DEF Orphans
  <2>2. CASE par[k] # NoJob /\ par[k] \notin gone
    <3>1. parent[k] = par[k] /\ parent'[k] = par[k] /\ par[k] \in Jobs
      BY <1>3, <1>5, <2>2
    <3>2. status'[par[k]] = new[par[k]]
      BY <1>3, <2>2, <3>1
    <3>3. status[par[k]] # "none" => st[par[k]] # "none"
      BY <1>5, <3>1 DEF Terminal
    <3>4. status[par[k]] # "none" => new[par[k]] # "none"
      BY <1>2, <3>1, <3>3
    <3> QED BY <3>1, <3>2, <3>4 DEF Orphans
  <2> QED BY <2>1, <2>2
<1>7. ASSUME NEW k \in Jobs PROVE Reopens(k)
  BY <1>2, <1>3, <1>5 DEF Reopens, Open, Terminal
<1>8. ASSUME NEW k \in Jobs PROVE Wakes(k)
  <2>1. CASE OpenChildren(st, par, k) = {}
    <3>1. ASSUME NEW c \in Jobs, parent'[c] = k PROVE status'[c] \notin Open
      <4>1. par[c] = k
        BY <1>3, <3>1 DEF NoJob, Jobs
      <4>2. st[c] \notin Open
        BY <2>1, <4>1 DEF OpenChildren
      <4> QED BY <1>2, <1>3, <4>2 DEF Open
    <3> QED BY <3>1 DEF Wakes, OpenChildren
  <2>2. CASE OpenChildren(st, par, k) # {}
    BY <1>2, <1>3, <1>5, <2>2 DEF Wakes, Ready, Terminal
  <2> QED BY <2>1, <2>2
<1>9. ASSUME NEW p \in Jobs PROVE Follows(p)
  <2> SUFFICES ASSUME status[p] = "waiting-children", status'[p] = "waiting-children",
                      NEW c \in OpenChildren(status, parent, p),
                      error'[c] \notin {"stalled", "child-failed"}
               PROVE  OpenChildren(status', parent', p) # {}
    BY DEF Follows
  <2>1. p \notin gone /\ new[p] = "waiting-children" /\ st[p] = "waiting-children"
    BY <1>2, <1>3
  <2>2. OpenChildren(st, par, p) # {}
    <3>1. CASE p \in P
      BY <1>4, <2>1, <3>1
    <3>2. CASE p \notin P
      <4>1. c \in Jobs /\ parent[c] = p /\ status[c] \in Open
        BY DEF OpenChildren
      <4>2. st[c] # status[c] \/ par[c] # parent[c] =>
              \/ p \in P \cup {NoJob}
              \/ error'[c] \in {"stalled", "child-failed"}
              \/ st[p] # "waiting-children"
        BY <4>1 DEF Closing
      <4>3. p # NoJob
        BY RealJobs
      <4>4. st[c] = status[c] /\ par[c] = parent[c]
        BY <2>1, <3>2, <4>2, <4>3
      <4> QED BY <4>1, <4>4 DEF OpenChildren
    <3> QED BY <3>1, <3>2
  <2>3. PICK d \in Jobs : par[d] = p /\ st[d] \in Open
    BY <2>2 DEF OpenChildren
  <2>4. parent'[d] = p
    BY <1>3, <2>1, <2>3
  <2>5. status'[d] \in Open
    BY <1>2, <1>3, <1>5, <2>3 DEF Open, Terminal
  <2> QED BY <2>4, <2>5 DEF OpenChildren
<1>10. ASSUME NEW k \in Jobs
       PROVE  /\ status[k] = "none" => status'[k] = "none"
              /\ status'[k] = "paused" => status[k] = "paused"
  BY <1>2, <1>3, <1>5 DEF Terminal
<1> QED
  BY <1>6, <1>7, <1>8, <1>9, <1>10 DEF TreeShape, TypeOK, history

\* A step that leaves parent_job_id alone, closes no row but by a stall and makes
\* nothing claimable that was asleep, has that shape.
LEMMA PlainShape ==
  ASSUME TypeOK, parent' = parent, everPaused \subseteq everPaused',
         \A k \in Jobs :
           /\ retries'[k] >= retries[k]
           /\ status[k] = "none" <=> status'[k] = "none"
           /\ status'[k] = "paused" => status[k] = "paused" \/ k \in everPaused'
           /\ status'[k] \in Open => status[k] \in Open \/ retries'[k] > 0
           /\ status'[k] \in Ready =>
                status[k] \in Ready \cup {"paused"} \/ retries'[k] > 0
           /\ status[k] \in Open => status'[k] \in Open \/ error'[k] = "stalled"
  PROVE  TreeShape
<1>1. ASSUME NEW p \in Jobs PROVE Follows(p)
  BY DEF Follows, OpenChildren
<1> QED BY <1>1 DEF TypeOK, TreeShape, Orphans, Reopens, Wakes

\* Every step is an add() or has that shape.
LEMMA NextTree ==
  ASSUME TypeOK, [Next]_vars,
         ~\E p \in Jobs \cup {NoJob}, o \in Options, first \in {"waiting", "delayed"} :
            Add(p, o, first)
  PROVE  TreeShape
<1> USE DEF TypeOK
<1>1. ASSUME NEW j \in Jobs, Claim(j) PROVE TreeShape
  BY <1>1, PlainShape DEF Claim, tree, history, Ready, Open
<1>2. ASSUME NEW j \in Jobs, NEW t \in 1..attemptsStarted[j], CompleteJob(j, t)
      PROVE  TreeShape
  <2> DEFINE done == [status EXCEPT ![j] = "completed"]
  <2>1. done \in [Jobs -> Statuses]
    BY DEF Statuses, Terminal
  <2> DEFINE gone == IF opts[j].removeOnComplete THEN {j} ELSE {}
             box == inbox \cup Post({j}, done, "complete")
  <2>2. Closing(done, parent, {parent[j]}, gone)
    BY <1>2 DEF CompleteJob, Holds, Terminal, Closing
  <2>3. Commit(Resolve(done, parent, {parent[j]}), parent, box, gone) /\ UNCHANGED history
    BY <1>2 DEF CompleteJob
  <2> HIDE DEF done, gone, box
  <2> QED BY <2>1, <2>2, <2>3, CommitShape
<1>3. ASSUME NEW j \in Jobs, NEW t \in 1..attemptsStarted[j], FailForRetry(j, t)
      PROVE  TreeShape
  BY <1>3, PlainShape DEF FailForRetry, Holds, tree, history, Ready, Open
<1>4. ASSUME NEW j \in Jobs, NEW t \in 1..attemptsStarted[j], FailForGood(j, t)
      PROVE  TreeShape
  <2> DEFINE p == parent[j]
             policy == opts[j].onChildFail
             dead == [status EXCEPT ![j] = "dead"]
             sinks == policy = "fail_parent" /\ p # NoJob /\ dead[p] = "waiting-children"
             sunk == [k \in Jobs |-> IF sinks /\ k = p THEN "failed" ELSE dead[k]]
             freed == IF policy = "remove_dep" THEN [parent EXCEPT ![j] = NoJob] ELSE parent
             gone == IF opts[j].removeOnFail THEN {j} ELSE {}
             box == inbox \cup Post({j}, dead, "dead")
  <2>1. /\ dead \in [Jobs -> Statuses] /\ sunk \in [Jobs -> Statuses]
        /\ freed \in [Jobs -> Jobs \cup {NoJob}]
    BY DEF Statuses, Terminal
  <2>2. CASE policy = "fail_parent"
    <3>1. Closing(sunk, parent, {}, gone)
      BY <1>4, <2>2 DEF FailForGood, Holds, Terminal, Closing
    <3>2. freed = parent /\ sunk = Resolve(sunk, parent, {})
      BY <2>1, <2>2 DEF Resolve
    <3>3. Commit(Resolve(sunk, parent, {}), parent, box, gone) /\ UNCHANGED history
      BY <1>4, <2>2, <3>2 DEF FailForGood
    <3> HIDE DEF dead, sunk, freed, box, gone
    <3> QED BY <2>1, <3>1, <3>3, CommitShape
  <2>3. CASE policy # "fail_parent"
    <3>1. Closing(dead, freed, {p}, gone)
      BY <1>4 DEF FailForGood, Holds, Terminal, Closing
    <3>2. Commit(Resolve(dead, freed, {p}), freed, box, gone) /\ UNCHANGED history
      BY <1>4, <2>3 DEF FailForGood
    <3> HIDE DEF dead, sunk, freed, box, gone
    <3> QED BY <2>1, <3>1, <3>2, CommitShape
  <2> QED BY <2>2, <2>3
<1>5. ASSUME NEW j \in Jobs, NEW t \in 1..attemptsStarted[j], ReleaseLeaseFullJob(j, t)
      PROVE  TreeShape
  BY <1>5, PlainShape DEF ReleaseLeaseFullJob, Holds, tree, history, Ready, Open
<1>6. ASSUME NEW S \in SUBSET Jobs, PromoteDelayed(S) PROVE TreeShape
  BY <1>6, PlainShape DEF PromoteDelayed, tree, history, Ready, Open
<1>7. ASSUME NEW S \in SUBSET Jobs, HandleStalled(S) PROVE TreeShape
  <2> DEFINE dead == {j \in S : ~ToleratesStall(j)}
  <2>1. /\ S # {} /\ \A j \in S : status[j] = "active"
        /\ status' = [j \in Jobs |-> IF j \in dead THEN "dead"
                                     ELSE IF j \in S THEN "waiting" ELSE status[j]]
        /\ SetErrors(dead, "stalled") /\ UNCHANGED <<tree, history>>
    BY <1>7 DEF HandleStalled
  <2>2. ASSUME NEW k \in Jobs
        PROVE  \/ status'[k] = status[k]
               \/ status[k] = "active" /\ status'[k] = "waiting"
               \/ status[k] = "active" /\ status'[k] = "dead" /\ error'[k] = "stalled"
    BY <2>1 DEF SetErrors
  <2> QED BY <2>1, <2>2, PlainShape DEF tree, history, Ready, Open
<1>8. ASSUME NEW S \in SUBSET Jobs, DeadLetter(S) PROVE TreeShape
  <2> DEFINE dead == [j \in Jobs |-> IF j \in S THEN "dead" ELSE status[j]]
  <2>1. dead \in [Jobs -> Statuses]
    BY DEF Statuses, Terminal
  <2>2. Closing(dead, parent, {parent[c] : c \in S}, {})
    BY <1>8 DEF DeadLetter, Overdue, Terminal, Closing
  <2>3. /\ Commit(Resolve(dead, parent, {parent[c] : c \in S}), parent,
                  inbox \cup Post(S, dead, "timeout"), {})
        /\ UNCHANGED history
    BY <1>8 DEF DeadLetter
  <2> HIDE DEF dead
  <2> QED BY <2>1, <2>2, <2>3, CommitShape
<1>9. ASSUME NEW j \in Jobs, CancelJob(j) PROVE TreeShape
  <2> DEFINE hit == {k \in Descendants(j) : status[k] \in Cancellable}
             st == [k \in Jobs |-> IF k \in hit THEN "cancelled" ELSE status[k]]
  <2>1. st \in [Jobs -> Statuses]
    BY DEF Statuses, Terminal
  <2>2. Closing(st, parent, {parent[k] : k \in hit}, {})
    BY DEF Cancellable, Terminal, Closing
  <2>3. /\ Commit(Resolve(st, parent, {parent[k] : k \in hit}), parent,
                  inbox \cup Post(hit, st, "cancelled"), {})
        /\ UNCHANGED history
    BY <1>9 DEF CancelJob
  <2> HIDE DEF st, hit
  <2> QED BY <2>1, <2>2, <2>3, CommitShape
<1>10. ASSUME NEW j \in Jobs, RetryJob(j) PROVE TreeShape
  BY <1>10, PlainShape DEF RetryJob, Retryable, tree, Ready, Open
<1>11. ASSUME NEW j \in Jobs, PauseJob(j) \/ ResumeJob(j) PROVE TreeShape
  BY <1>11, PlainShape DEF PauseJob, ResumeJob, tree, history, Ready, Open
<1>12. ASSUME NEW S \in SUBSET Jobs, \A j \in S : status[j] \in Terminal,
              Commit(status, parent, inbox, S), UNCHANGED history
       PROVE  TreeShape
  <2>1. status = Resolve(status, parent, {})
    BY DEF Resolve
  <2>2. Commit(Resolve(status, parent, {}), parent, inbox, S)
    BY <1>12, <2>1
  <2>3. Closing(status, parent, {}, S)
    BY <1>12 DEF Closing
  <2> QED BY <1>12, <2>2, <2>3, CommitShape
<1>13. ASSUME NEW j \in Jobs, RemoveJob(j) PROVE TreeShape
  BY <1>12, <1>13 DEF RemoveJob
<1>14. ASSUME NEW S \in SUBSET Jobs, Prune(S) PROVE TreeShape
  BY <1>12, <1>14 DEF Prune, Terminal
<1>15. CASE UNCHANGED vars
  BY <1>15, PlainShape DEF vars, Ready
<1> QED
  BY <1>1, <1>2, <1>3, <1>4, <1>5, <1>6, <1>7, <1>8, <1>9, <1>10, <1>11, <1>13, <1>14,
     <1>15
  DEF Next, FailJob, HandleTimeouts, HandleWallClockTimeouts

\* The inductive invariant of the tree.  NoEarlyWake is not inductive alone: the
\* parent of a row must be a row, or an insert could take the id an older row
\* names, and a paused row must be known to have been paused.
ReferencesHold ==
  \A c \in Jobs : IsRow(c) /\ parent[c] # NoJob => IsRow(parent[c])

PausedKnown == \A p \in Jobs : status[p] = "paused" => p \in everPaused

TreeInv == ReferencesHold /\ PausedKnown /\ NoEarlyWake

\* An insert takes a blank id, which no row names, and puts its parent to sleep.
LEMMA AddTree ==
  ASSUME TypeOK, CountersInv, NEW p \in Jobs \cup {NoJob}, NEW o \in Options,
         NEW first \in {"waiting", "delayed"}, Add(p, o, first)
  PROVE  /\ TreeInv => TreeInv'
         /\ \A k \in Jobs : Follows(k)
<1>1. /\ nextId \in Jobs /\ status[nextId] = "none"
      /\ p # NoJob => p \in Jobs /\ status[p] # "none"
  BY DEF Add, CountersInv, Blank, TypeOK, Jobs
<1>2. ASSUME NEW k \in Jobs
      PROVE  /\ parent'[k] = IF k = nextId THEN p ELSE parent[k]
             /\ status'[k] = IF k = nextId THEN first
                             ELSE IF k = p /\ status[k] \in Ready THEN "waiting-children"
                             ELSE status[k]
  BY DEF Add, TypeOK, Ready
<1>3. UNCHANGED history
  BY DEF Add
<1>4. ASSUME TreeInv PROVE ReferencesHold'
  BY <1>1, <1>2, <1>4, RealJobs DEF TreeInv, ReferencesHold, IsRow, TypeOK
<1>5. ASSUME TreeInv PROVE PausedKnown'
  BY <1>2, <1>3, <1>5 DEF TreeInv, PausedKnown, history
<1>6. ASSUME TreeInv, NEW q \in Jobs, NEW c \in Jobs, parent'[c] = q,
             IsRow(c)', status'[c] \in Open, status'[q] \in Ready
      PROVE  q \in everPaused \/ c \in everPaused \/ retries[q] > 0 \/ retries[c] > 0
  <2>1. c # nextId
    BY <1>1, <1>2, <1>6, RealJobs DEF Ready
  <2>2. parent[c] = q /\ IsRow(c)
    BY <1>2, <1>6, <2>1 DEF IsRow, Ready
  <2>3. q # nextId
    BY <1>1, <1>6, <2>2, RealJobs DEF TreeInv, ReferencesHold, IsRow
  <2>4. status[q] \in Ready
    BY <1>2, <1>6, <2>3 DEF Ready
  <2>5. status[c] \in Open
    BY <1>2, <1>6, <2>1 DEF Ready, Open
  <2> QED BY <1>6, <2>2, <2>4, <2>5 DEF TreeInv, NoEarlyWake, Ready
<1>7. ASSUME TreeInv PROVE NoEarlyWake'
  BY <1>3, <1>6, <1>7 DEF NoEarlyWake, history, Ready
<1>8. ASSUME NEW k \in Jobs PROVE Follows(k)
  BY <1>1, <1>2 DEF Follows, OpenChildren, Open, Ready
<1> QED BY <1>4, <1>5, <1>7, <1>8 DEF TreeInv

\* Every other step keeps the invariant by its shape.
LEMMA ShapeTree ==
  ASSUME TypeOK, TypeOK', TreeShape, TreeInv PROVE TreeInv'
<1>1. ReferencesHold'
  BY RealJobs DEF TreeShape, Orphans, TreeInv, ReferencesHold, IsRow, TypeOK
<1>2. PausedKnown'
  BY DEF TreeShape, TreeInv, PausedKnown
<1>3. ASSUME NEW p \in Jobs, NEW c \in Jobs, parent'[c] = p,
             IsRow(c)', status'[c] \in Open, status'[p] \in Ready
      PROVE  \/ p \in everPaused' \/ c \in everPaused'
             \/ retries'[p] > 0 \/ retries'[c] > 0
  <2> USE RealJobs
  <2>1. parent[c] = p
    BY <1>3 DEF TreeShape, Orphans
  <2>2. IsRow(c)
    BY <1>3 DEF TreeShape, IsRow
  <2>3. status[c] \in Open \/ retries'[c] > 0
    BY <1>3 DEF TreeShape, Reopens
  <2>4. status[p] \in Ready \cup {"paused"} \/ retries'[p] > 0
    BY <1>3 DEF TreeShape, Wakes, OpenChildren
  <2>5. CASE status[p] = "paused"
    BY <2>5 DEF TreeShape, TreeInv, PausedKnown
  <2>6. CASE status[p] \in Ready /\ status[c] \in Open
    <3>1. \/ p \in everPaused \/ c \in everPaused \/ retries[p] > 0 \/ retries[c] > 0
      BY <2>1, <2>2, <2>6 DEF TreeInv, NoEarlyWake, Ready
    <3>2. /\ everPaused \subseteq everPaused'
          /\ retries'[p] >= retries[p] /\ retries'[c] >= retries[c]
          /\ retries[p] \in Nat /\ retries[c] \in Nat
          /\ retries'[p] \in Nat /\ retries'[c] \in Nat
      BY DEF TreeShape, TypeOK
    <3> QED BY <3>1, <3>2
  <2> QED BY <2>3, <2>4, <2>5, <2>6
<1>4. NoEarlyWake'
  BY <1>3 DEF NoEarlyWake, Ready
<1> QED BY <1>1, <1>2, <1>4 DEF TreeInv

LEMMA TreeStep ==
  ASSUME TypeOK, CountersInv, TreeInv, [Next]_vars PROVE TreeInv'
BY AddTree, NextTree, NextType, ShapeTree

LEMMA TreeInit == Init => TreeInv
BY DEF Init, TreeInv, ReferencesHold, PausedKnown, NoEarlyWake, IsRow

\* No parent runs too early: a row that can be claimed, or is running, has no
\* open child, operator pauses and retries apart.
THEOREM NoParentRunsEarly == Spec => []NoEarlyWake
<1>1. Init => TreeInv
  BY TreeInit
<1>2. TypeOK /\ CountersInv /\ TreeInv /\ [Next]_vars => TreeInv'
  BY TreeStep
<1>3. TreeInv => NoEarlyWake
  BY DEF TreeInv
<1> QED BY <1>1, <1>2, <1>3, TypeCorrect, CountersInvariant, PTL DEF Spec

\* No lost wake-up: the step that ends the last open child of a sleeping parent
\* wakes or ends the parent, but for the two endings that do not look at it.
THEOREM NoWakeUpLost == Spec => LastChildWakesParent
<1>1. ASSUME TypeOK, CountersInv, [Next]_vars, NEW p \in Jobs PROVE Follows(p)
  BY <1>1, AddTree, NextTree DEF TreeShape
<1>2. TypeOK /\ CountersInv /\ [Next]_vars => [\A p \in Jobs : Follows(p)]_vars
  BY <1>1
<1> QED
  BY <1>2, TypeCorrect, CountersInvariant, PTL DEF Spec, LastChildWakesParent, Follows

-----------------------------------------------------------------------------
\* The inbox and the cap.  What every step but add() does to them: options stay, a
\* parent keeps its messages for as long as it is a row, and a row that ends under
\* an open parent is told of, but for the two endings that are not reported.
Message(p, c, outcome) ==
  [to |-> p, child |-> c, claim |-> attemptsStarted[c], outcome |-> outcome]

Tells(c) ==
  (status'[c] \in Terminal /\ parent'[c] # NoJob /\ status'[parent'[c]] \in Open)
    => \/ /\ status'[c] = status[c] /\ error'[c] = error[c]
          /\ attemptsStarted'[c] = attemptsStarted[c]
       \/ error'[c] \in {"stalled", "child-failed"}
       \/ Told(parent[c], c)'

Blames(p) ==
  error'[p] = "child-failed" =>
    \/ error[p] = "child-failed"
    \/ status[p] # "none" /\ \E m \in inbox' : m.to = p /\ m.outcome = "dead"

DeliveryShape ==
  /\ opts' = opts
  /\ \A m \in inbox : status'[m.to] # "none" => m \in inbox'
  /\ \A k \in Jobs : Tells(k) /\ Blames(k)

\* The messages of kept rows stay, those of box are posted, and a row that has a
\* parent which is still open afterwards had it, open, in the table st.
Delivers(st, box, gone) ==
  /\ \A m \in inbox : status'[m.to] # "none" => m \in inbox'
  /\ \A m \in box : m.to \notin gone => m \in inbox'
  /\ \A k \in Jobs :
       /\ status'[k] \in Terminal => st[k] = status'[k]
       /\ (parent'[k] # NoJob /\ status'[parent'[k]] \in Open)
            => /\ parent'[k] = parent[k] /\ parent[k] \in Jobs
               /\ st[parent[k]] \in Open /\ parent[k] \notin gone

\* A commit keeps the messages of the rows it keeps, and those it was given for
\* rows that ended under a parent that stays open.
LEMMA CommitDelivers ==
  ASSUME TypeOK, NEW st \in [Jobs -> Statuses],
         NEW par \in [Jobs -> Jobs \cup {NoJob}], NEW P,
         NEW box \in SUBSET ChildDone, NEW gone \in SUBSET Jobs,
         Commit(Resolve(st, par, P), par, box, gone),
         inbox \subseteq box,
         \A k \in Jobs : par[k] \in {parent[k], NoJob}
  PROVE  Delivers(st, box, gone)
<1> DEFINE new == Resolve(st, par, P)
<1>1. ASSUME NEW k \in Jobs
      PROVE  new[k] = st[k] \/ (new[k] = "waiting" /\ st[k] = "waiting-children")
  BY ResolveRow
<1> HIDE DEF new
<1>2. ASSUME NEW k \in Jobs
      PROVE  /\ status'[k] = IF k \in gone THEN "none" ELSE new[k]
             /\ parent'[k] = IF par[k] \in gone THEN NoJob ELSE par[k]
  BY DEF Commit, new
<1>3. \A m \in box : m.to \notin gone => m \in inbox'
  BY DEF Commit
<1>4. \A m \in inbox : status'[m.to] # "none" => m \in inbox'
  BY <1>2, <1>3 DEF ChildDone
<1>5. ASSUME NEW k \in Jobs, status'[k] \in Terminal PROVE st[k] = status'[k]
  BY <1>1, <1>2, <1>5 DEF Terminal
<1>6. ASSUME NEW k \in Jobs, parent'[k] # NoJob, status'[parent'[k]] \in Open
      PROVE  /\ parent'[k] = parent[k] /\ parent[k] \in Jobs
             /\ st[parent[k]] \in Open /\ parent[k] \notin gone
  <2>1. parent'[k] = parent[k] /\ parent[k] \in Jobs
    BY <1>2, <1>6 DEF TypeOK
  <2>2. status'[parent[k]] \in Open
    BY <1>6, <2>1
  <2> QED BY <1>1, <1>2, <2>1, <2>2 DEF Open
<1> QED BY <1>3, <1>4, <1>5, <1>6 DEF Delivers

\* A posted row is told of.
LEMMA PostTells ==
  ASSUME NEW S \in SUBSET Jobs, NEW st, NEW outcome, NEW c \in S,
         parent[c] # NoJob, st[parent[c]] \in Open
  PROVE  Message(parent[c], c, outcome) \in Post(S, st, outcome)
BY DEF Post, Message

\* A step that leaves the inbox alone and ends no row but by a stall has that shape.
LEMMA PlainDelivery ==
  ASSUME TypeOK, opts' = opts, inbox' = inbox,
         \A k \in Jobs :
           /\ status'[k] \in Terminal =>
                \/ /\ status'[k] = status[k] /\ error'[k] = error[k]
                   /\ attemptsStarted'[k] = attemptsStarted[k]
                \/ error'[k] = "stalled"
           /\ error'[k] = "child-failed" => error[k] = "child-failed"
  PROVE  DeliveryShape
BY DEF DeliveryShape, Tells, Blames

\* The outcome of a row with this status and this error.
EndsAs(st, text) ==
  IF st = "completed" THEN "complete"
  ELSE IF st = "cancelled" THEN "cancelled"
  ELSE IF st = "dead" /\ text = "timeout" THEN "timeout"
  ELSE "dead"

LEMMA EndsAsTexts ==
  /\ \A text : EndsAs("completed", text) = "complete"
  /\ \A text : EndsAs("cancelled", text) = "cancelled"
  /\ EndsAs("dead", "timeout") = "timeout"
  /\ EndsAs("dead", "error") = "dead"
BY DEF EndsAs

\* In the table st the rows S have ended with this outcome, and what they are told
\* with is the table told.  Other rows are as they were, or are failed by a row of
\* S, and have its message.
Reporting(st, par, told, S, outcome, gone) ==
  \A k \in Jobs :
    /\ par[k] \in {parent[k], NoJob}
    /\ st[k] \in Open => told[k] \in Open
    /\ \/ st[k] = status[k] /\ error'[k] = error[k]
       \/ /\ k \in S /\ EndsAs(st[k], error'[k]) = outcome
          /\ error'[k] \in {"error", "timeout", error[k]}
       \/ /\ error'[k] = "child-failed" /\ status[k] # "none"
          /\ \E m \in Post(S, told, outcome) :
               m.to = k /\ m.outcome = "dead" /\ k \notin gone

\* A commit that posts the rows of such a table has that shape.
LEMMA PostingDelivery ==
  ASSUME TypeOK, NEW st \in [Jobs -> Statuses],
         NEW par \in [Jobs -> Jobs \cup {NoJob}], NEW P, NEW S \in SUBSET Jobs,
         NEW outcome \in Outcomes, NEW gone \in SUBSET Jobs,
         NEW told \in [Jobs -> Statuses],
         Commit(Resolve(st, par, P), par, inbox \cup Post(S, told, outcome), gone),
         Reporting(st, par, told, S, outcome, gone),
         UNCHANGED <<opts, attemptsStarted>>
  PROVE  DeliveryShape
<1> DEFINE box == inbox \cup Post(S, told, outcome)
<1>1. box \in SUBSET ChildDone /\ inbox \subseteq box
  BY PostType DEF TypeOK
<1>2. Delivers(st, box, gone)
  <2> HIDE DEF box
  <2>1. Commit(Resolve(st, par, P), par, box, gone)
    BY DEF box
  <2>2. \A k \in Jobs : par[k] \in {parent[k], NoJob}
    BY DEF Reporting
  <2> QED BY <1>1, <2>1, <2>2, CommitDelivers
<1>3. ASSUME NEW k \in Jobs PROVE Tells(k)
  <2> SUFFICES ASSUME status'[k] \in Terminal, parent'[k] # NoJob,
                      status'[parent'[k]] \in Open,
                      error'[k] \notin {"stalled", "child-failed"},
                      status'[k] # status[k] \/ error'[k] # error[k]
               PROVE  Told(parent[k], k)'
    BY DEF Tells
  <2>1. /\ parent'[k] = parent[k] /\ parent[k] # NoJob
        /\ told[parent[k]] \in Open /\ parent[k] \notin gone
    BY <1>2 DEF Delivers, Reporting
  <2>2. k \in S /\ EndsAs(status'[k], error'[k]) = outcome
    BY <1>2 DEF Delivers, Reporting
  <2>3. Message(parent[k], k, outcome) \in box
    BY <2>1, <2>2, PostTells
  <2>4. Message(parent[k], k, outcome) \in inbox'
    BY <1>2, <2>1, <2>3 DEF Delivers, Message
  <2>5. Outcome(k)' = outcome
    BY <2>2 DEF Outcome, EndsAs
  <2> QED BY <2>1, <2>4, <2>5 DEF Told, Message
<1>4. ASSUME NEW k \in Jobs PROVE Blames(k)
  BY <1>2 DEF Delivers, Blames, Reporting
<1> QED BY <1>2, <1>3, <1>4 DEF Delivers, DeliveryShape

\* Every step is an add() or has that shape.
LEMMA NextDelivery ==
  ASSUME TypeOK, [Next]_vars,
         ~\E p \in Jobs \cup {NoJob}, o \in Options, first \in {"waiting", "delayed"} :
            Add(p, o, first)
  PROVE  DeliveryShape
<1> USE DEF TypeOK
<1>1. ASSUME NEW j \in Jobs, Claim(j) PROVE DeliveryShape
  BY <1>1, PlainDelivery DEF Claim, tree, Terminal
<1>2. ASSUME NEW j \in Jobs, NEW t \in 1..attemptsStarted[j], CompleteJob(j, t)
      PROVE  DeliveryShape
  <2> DEFINE done == [status EXCEPT ![j] = "completed"]
             gone == IF opts[j].removeOnComplete THEN {j} ELSE {}
  <2>1. done \in [Jobs -> Statuses] /\ gone \in SUBSET Jobs
    BY DEF Statuses, Terminal
  <2>2. /\ Commit(Resolve(done, parent, {parent[j]}), parent,
                  inbox \cup Post({j}, done, "complete"), gone)
        /\ UNCHANGED <<opts, attemptsStarted, error>>
    BY <1>2 DEF CompleteJob, counters
  <2>3. Reporting(done, parent, done, {j}, "complete", gone)
    BY <2>2, EndsAsTexts DEF Reporting
  <2> HIDE DEF done, gone
  <2> QED BY <2>1, <2>2, <2>3, PostingDelivery DEF Outcomes
<1>3. ASSUME NEW j \in Jobs, NEW t \in 1..attemptsStarted[j],
             FailForRetry(j, t) \/ ReleaseLeaseFullJob(j, t)
      PROVE  DeliveryShape
  BY <1>3, PlainDelivery
  DEF FailForRetry, ReleaseLeaseFullJob, SetErrors, tree, counters, Terminal
<1>4. ASSUME NEW j \in Jobs, NEW t \in 1..attemptsStarted[j], FailForGood(j, t)
      PROVE  DeliveryShape
  <2> DEFINE p == parent[j]
             policy == opts[j].onChildFail
             dead == [status EXCEPT ![j] = "dead"]
             sinks == policy = "fail_parent" /\ p # NoJob /\ dead[p] = "waiting-children"
             sunk == [k \in Jobs |-> IF sinks /\ k = p THEN "failed" ELSE dead[k]]
             freed == IF policy = "remove_dep" THEN [parent EXCEPT ![j] = NoJob] ELSE parent
             gone == IF opts[j].removeOnFail THEN {j} ELSE {}
  <2>1. /\ dead \in [Jobs -> Statuses] /\ sunk \in [Jobs -> Statuses]
        /\ freed \in [Jobs -> Jobs \cup {NoJob}] /\ gone \in SUBSET Jobs
    BY DEF Statuses, Terminal
  <2>2. /\ UNCHANGED <<opts, attemptsStarted>>
        /\ error' = [k \in Jobs |-> IF k = j THEN "error"
                                    ELSE IF sinks /\ k = p THEN "child-failed"
                                    ELSE error[k]]
        /\ status[j] = "active"
    BY <1>4 DEF FailForGood, Holds
  <2>3. EndsAs("dead", "error") = "dead"
    BY EndsAsTexts
  <2>4. sinks => p \in Jobs \ {j} /\ status[p] = "waiting-children"
    OBVIOUS
  <2>5. sinks => \E m \in Post({j}, dead, "dead") : m.to = p /\ m.outcome = "dead"
    <3>1. sinks => Message(p, j, "dead") \in Post({j}, dead, "dead")
      BY PostTells DEF Open
    <3> QED BY <3>1 DEF Message
  <2>6. \A k \in Jobs : freed[k] \in {parent[k], NoJob}
    OBVIOUS
  <2>7. CASE policy = "fail_parent"
    <3>1. sunk = Resolve(sunk, parent, {})
      BY <2>1 DEF Resolve
    <3>2. Commit(Resolve(sunk, parent, {}), parent, inbox \cup Post({j}, dead, "dead"), gone)
      BY <1>4, <2>7, <3>1 DEF FailForGood
    <3>3. ASSUME NEW k \in Jobs
          PROVE  /\ sunk[k] \in Open => dead[k] \in Open
                 /\ \/ sunk[k] = status[k] /\ error'[k] = error[k]
                    \/ /\ k \in {j} /\ EndsAs(sunk[k], error'[k]) = "dead"
                       /\ error'[k] \in {"error", "timeout", error[k]}
                    \/ /\ error'[k] = "child-failed" /\ status[k] # "none"
                       /\ \E m \in Post({j}, dead, "dead") :
                            m.to = k /\ m.outcome = "dead" /\ k \notin gone
      <4>1. CASE k = j
        BY <2>2, <2>3, <2>4, <4>1
      <4>2. CASE sinks /\ k = p
        BY <2>2, <2>4, <2>5, <4>2 DEF Open
      <4>3. CASE k # j /\ ~(sinks /\ k = p)
        BY <2>2, <4>3
      <4> QED BY <4>1, <4>2, <4>3
    <3>4. Reporting(sunk, parent, dead, {j}, "dead", gone)
      BY <3>3 DEF Reporting
    <3> HIDE DEF sunk, dead, gone, policy
    <3> QED BY <2>1, <2>2, <3>2, <3>4, PostingDelivery DEF Outcomes
  <2>8. CASE policy # "fail_parent"
    <3>1. Commit(Resolve(dead, freed, {p}), freed, inbox \cup Post({j}, dead, "dead"), gone)
      BY <1>4, <2>8 DEF FailForGood
    <3>2. ASSUME NEW k \in Jobs
          PROVE  \/ dead[k] = status[k] /\ error'[k] = error[k]
                 \/ /\ k \in {j} /\ EndsAs(dead[k], error'[k]) = "dead"
                    /\ error'[k] \in {"error", "timeout", error[k]}
      <4>1. CASE k = j
        BY <2>2, <2>3, <4>1
      <4>2. CASE k # j
        BY <2>2, <2>8, <4>2
      <4> QED BY <4>1, <4>2
    <3>3. Reporting(dead, freed, dead, {j}, "dead", gone)
      BY <2>6, <3>2 DEF Reporting
    <3> HIDE DEF dead, freed, gone
    <3> QED BY <2>1, <2>2, <3>1, <3>3, PostingDelivery DEF Outcomes
  <2> QED BY <2>7, <2>8
<1>5. ASSUME NEW S \in SUBSET Jobs, PromoteDelayed(S) PROVE DeliveryShape
  BY <1>5, PlainDelivery DEF PromoteDelayed, tree, counters, Terminal
<1>6. ASSUME NEW S \in SUBSET Jobs, HandleStalled(S) PROVE DeliveryShape
  <2> DEFINE dead == {j \in S : ~ToleratesStall(j)}
  <2>1. /\ status' = [j \in Jobs |-> IF j \in dead THEN "dead"
                                     ELSE IF j \in S THEN "waiting" ELSE status[j]]
        /\ SetErrors(dead, "stalled")
        /\ UNCHANGED <<opts, attemptsStarted, inbox>>
    BY <1>6 DEF HandleStalled, tree
  <2> HIDE DEF dead
  <2> QED BY <2>1, PlainDelivery DEF SetErrors, Terminal
<1>7. ASSUME NEW S \in SUBSET Jobs, DeadLetter(S) PROVE DeliveryShape
  <2> DEFINE dead == [j \in Jobs |-> IF j \in S THEN "dead" ELSE status[j]]
  <2>1. dead \in [Jobs -> Statuses]
    BY DEF Statuses, Terminal
  <2>2. /\ Commit(Resolve(dead, parent, {parent[c] : c \in S}), parent,
                  inbox \cup Post(S, dead, "timeout"), {})
        /\ SetErrors(S, "timeout") /\ UNCHANGED <<opts, attemptsStarted>>
    BY <1>7 DEF DeadLetter
  <2>3. Reporting(dead, parent, dead, S, "timeout", {})
    BY <2>2, EndsAsTexts DEF SetErrors, Reporting
  <2> HIDE DEF dead
  <2> QED BY <2>1, <2>2, <2>3, PostingDelivery DEF Outcomes
<1>8. ASSUME NEW j \in Jobs, CancelJob(j) PROVE DeliveryShape
  <2> DEFINE hit == {k \in Descendants(j) : status[k] \in Cancellable}
             st == [k \in Jobs |-> IF k \in hit THEN "cancelled" ELSE status[k]]
  <2>1. st \in [Jobs -> Statuses] /\ hit \in SUBSET Jobs
    BY DEF Statuses, Terminal, Descendants
  <2>2. /\ Commit(Resolve(st, parent, {parent[k] : k \in hit}), parent,
                  inbox \cup Post(hit, st, "cancelled"), {})
        /\ UNCHANGED <<opts, attemptsStarted, error>>
    BY <1>8 DEF CancelJob, counters
  <2>3. Reporting(st, parent, st, hit, "cancelled", {})
    BY <2>2, EndsAsTexts DEF Reporting
  <2> HIDE DEF st, hit
  <2> QED BY <2>1, <2>2, <2>3, PostingDelivery DEF Outcomes
<1>9. ASSUME NEW j \in Jobs, RetryJob(j) \/ PauseJob(j) \/ ResumeJob(j) PROVE DeliveryShape
  BY <1>9, PlainDelivery
  DEF RetryJob, PauseJob, ResumeJob, SetErrors, tree, counters, Terminal
<1>10. ASSUME NEW S \in SUBSET Jobs, Commit(status, parent, inbox, S),
              UNCHANGED <<opts, error, attemptsStarted>>
       PROVE  DeliveryShape
  <2>1. status = Resolve(status, parent, {}) /\ inbox = inbox \cup Post({}, status, "dead")
    BY DEF Resolve, Post
  <2>2. Commit(Resolve(status, parent, {}), parent, inbox \cup Post({}, status, "dead"), S)
    BY <1>10, <2>1
  <2>3. Reporting(status, parent, status, {}, "dead", S)
    BY <1>10 DEF Reporting
  <2> QED BY <1>10, <2>2, <2>3, PostingDelivery DEF Outcomes
<1>11. ASSUME NEW j \in Jobs, RemoveJob(j) PROVE DeliveryShape
  BY <1>10, <1>11 DEF RemoveJob, counters
<1>12. ASSUME NEW S \in SUBSET Jobs, Prune(S) PROVE DeliveryShape
  BY <1>10, <1>12 DEF Prune, counters
<1>13. CASE UNCHANGED vars
  BY <1>13, PlainDelivery DEF vars
<1> QED
  BY <1>1, <1>2, <1>3, <1>4, <1>5, <1>6, <1>7, <1>8, <1>9, <1>11, <1>12, <1>13
  DEF Next, FailJob, HandleTimeouts, HandleWallClockTimeouts

\* An id that was not handed out yet belongs to no row that its child has failed.
UnusedClean == \A j \in Jobs : j >= nextId => error[j] # "child-failed"

DeliveryInv == ChildDoneDelivered /\ UnusedClean

\* An insert ends nothing, and nothing names the row it inserts.
LEMMA AddDelivery ==
  ASSUME TypeOK, CountersInv, ReferencesHold, DeliveryInv,
         NEW p \in Jobs \cup {NoJob}, NEW o \in Options,
         NEW first \in {"waiting", "delayed"}, Add(p, o, first)
  PROVE  ChildDoneDelivered'
<1>1. nextId \in Jobs /\ status[nextId] = "none"
  BY DEF Add, CountersInv, Blank, TypeOK, Jobs
<1>2. ASSUME NEW k \in Jobs
      PROVE  /\ parent'[k] = IF k = nextId THEN p ELSE parent[k]
             /\ status'[k] = IF k = nextId THEN first
                             ELSE IF k = p /\ status[k] \in Ready THEN "waiting-children"
                             ELSE status[k]
  BY DEF Add, TypeOK, Ready
<1>3. UNCHANGED <<error, attemptsStarted, inbox, retries>>
  BY DEF Add, counters, history
<1>4. ASSUME NEW q \in Jobs, NEW c \in Jobs, parent'[c] = q, status'[c] \in Terminal,
             status'[q] \in Open, retries'[q] = 0,
             error'[c] \notin {"stalled", "child-failed"}
      PROVE  Told(q, c)'
  <2>1. c # nextId /\ parent[c] = q /\ status[c] = status'[c]
    BY <1>2, <1>4 DEF Terminal
  <2>2. IsRow(q)
    BY <1>4, <2>1, RealJobs DEF ReferencesHold, IsRow, Terminal
  <2>3. status[q] \in Open
    BY <1>1, <1>2, <1>4, <2>2 DEF IsRow, Ready, Open
  <2>4. Told(q, c)
    BY <1>3, <1>4, <2>1, <2>3 DEF DeliveryInv, ChildDoneDelivered
  <2> QED BY <1>3, <2>1, <2>4 DEF Told, Outcome
<1>5. ASSUME NEW q \in Jobs, IsRow(q)', error'[q] = "child-failed"
      PROVE  \E m \in inbox' : m.to = q /\ m.outcome = "dead"
  <2>1. q # nextId
    BY <1>3, <1>5 DEF DeliveryInv, UnusedClean, TypeOK
  <2>2. IsRow(q)
    BY <1>2, <1>5, <2>1 DEF IsRow, Ready
  <2> QED BY <1>3, <1>5, <2>2 DEF DeliveryInv, ChildDoneDelivered
<1> QED BY <1>4, <1>5 DEF ChildDoneDelivered

\* Every other step keeps what was delivered by its shapes.
LEMMA ShapeDelivery ==
  ASSUME TypeOK, TypeOK', TreeShape, DeliveryShape, ChildDoneDelivered
  PROVE  ChildDoneDelivered'
<1>1. ASSUME NEW q \in Jobs, NEW c \in Jobs, parent'[c] = q, status'[c] \in Terminal,
             status'[q] \in Open, retries'[q] = 0,
             error'[c] \notin {"stalled", "child-failed"}
      PROVE  Told(q, c)'
  <2>1. parent[c] = q /\ q # NoJob
    BY <1>1, RealJobs DEF TreeShape, Orphans
  <2>2. status[q] \in Open /\ retries[q] = 0
    BY <1>1 DEF TreeShape, Reopens, TypeOK
  <2>3. CASE /\ status'[c] = status[c] /\ error'[c] = error[c]
             /\ attemptsStarted'[c] = attemptsStarted[c]
    <3>1. Told(q, c)
      BY <1>1, <2>1, <2>2, <2>3 DEF ChildDoneDelivered
    <3>2. Told(q, c)' <=> Message(q, c, Outcome(c)) \in inbox'
      BY <2>3 DEF Told, Message, Outcome
    <3>3. Message(q, c, Outcome(c)) \in inbox /\ Message(q, c, Outcome(c)).to = q
      BY <3>1 DEF Told, Message
    <3>4. status'[q] # "none"
      BY <1>1 DEF Open
    <3> QED BY <3>2, <3>3, <3>4 DEF DeliveryShape
  <2>4. CASE Told(parent[c], c)'
    BY <1>1, <2>4
  <2> QED BY <1>1, <2>1, <2>3, <2>4 DEF DeliveryShape, Tells
<1>2. ASSUME NEW q \in Jobs, IsRow(q)', error'[q] = "child-failed"
      PROVE  \E m \in inbox' : m.to = q /\ m.outcome = "dead"
  <2>1. IsRow(q)
    BY <1>2 DEF TreeShape, IsRow
  <2>2. CASE error[q] = "child-failed"
    <3>1. PICK m \in inbox : m.to = q /\ m.outcome = "dead"
      BY <2>1, <2>2 DEF ChildDoneDelivered
    <3> QED BY <1>2, <3>1 DEF DeliveryShape, IsRow
  <2> QED BY <1>2, <2>2 DEF DeliveryShape, Blames
<1> QED BY <1>1, <1>2 DEF ChildDoneDelivered

LEMMA UnusedStep ==
  ASSUME TypeOK, CountersInv, UnusedClean, [Next]_vars PROVE UnusedClean'
<1> SUFFICES ASSUME NEW j \in Jobs, j >= nextId' PROVE error'[j] # "child-failed"
  BY DEF UnusedClean
<1>1. j >= nextId /\ status[j] = "none"
  BY NextShape DEF StepShape, CountersInv, Blank, TypeOK, Jobs
<1>2. error[j] # "child-failed"
  BY <1>1 DEF UnusedClean
<1>3. ASSUME NEW p \in Jobs \cup {NoJob}, NEW o \in Options,
             NEW first \in {"waiting", "delayed"}, Add(p, o, first)
      PROVE  error' = error
  BY <1>3 DEF Add
<1> QED BY <1>1, <1>2, <1>3, NextDelivery DEF DeliveryShape, Blames

LEMMA DeliveryStep ==
  ASSUME TypeOK, CountersInv, TreeInv, DeliveryInv, [Next]_vars PROVE DeliveryInv'
<1>1. ReferencesHold /\ ChildDoneDelivered /\ UnusedClean /\ TypeOK'
  BY NextType DEF TreeInv, DeliveryInv
<1>2. ChildDoneDelivered'
  BY <1>1, AddDelivery, NextTree, NextDelivery, ShapeDelivery
<1> QED BY <1>1, <1>2, UnusedStep DEF DeliveryInv

\* Every ending but the two unreported ones is told to a parent that is still open,
\* and a parent that its child failed has that child's message.
THEOREM EndingsDelivered == Spec => []ChildDoneDelivered
<1>1. Init => TreeInv /\ DeliveryInv
  BY TreeInit DEF Init, DeliveryInv, ChildDoneDelivered, UnusedClean, Terminal, IsRow
<1>2. TypeOK /\ CountersInv /\ TreeInv /\ DeliveryInv /\ [Next]_vars => TreeInv' /\ DeliveryInv'
  BY TreeStep, DeliveryStep
<1>3. DeliveryInv => ChildDoneDelivered
  BY DEF DeliveryInv
<1> QED BY <1>1, <1>2, <1>3, TypeCorrect, CountersInvariant, PTL DEF Spec

\* The children that max_children counts, revived ones apart.
Counted(p) == {c \in OpenChildren(status, parent, p) : retries[c] = 0}

CapInv == ReferencesHold /\ ChildCap

LEMMA JobsFinite == IsFiniteSet(Jobs)
BY FS_Interval, MaxJobsAssumption DEF Jobs

\* Fewer children are within the cap.
LEMMA CapSubset ==
  ASSUME TypeOK, NEW S \in SUBSET Jobs, NEW T \in SUBSET S
  PROVE  /\ IsFiniteSet(T) /\ Cardinality(T) \in Nat /\ Cardinality(S) \in Nat
         /\ Cardinality(T) <= Cardinality(S)
BY JobsFinite, FS_Subset, FS_CardinalityType

\* No step but an insert adds to the children that are counted.
LEMMA ShapeCounted ==
  ASSUME TypeOK, TypeOK', TreeShape, NEW p \in Jobs
  PROVE  Counted(p)' \subseteq Counted(p)
BY RealJobs DEF Counted, OpenChildren, TreeShape, Orphans, Reopens, TypeOK

LEMMA ShapeCap ==
  ASSUME TypeOK, TypeOK', TreeShape, DeliveryShape, ChildCap PROVE ChildCap'
<1> SUFFICES ASSUME NEW p \in Jobs, IsRow(p)', opts'[p].maxChildren # 0
             PROVE  Cardinality(Counted(p)') <= opts'[p].maxChildren
  BY DEF ChildCap, Counted
<1>1. IsRow(p) /\ opts'[p] = opts[p] /\ opts[p].maxChildren \in Nat
  BY OptionsAssumption DEF TreeShape, IsRow, DeliveryShape, TypeOK, OptionType
<1>2. Cardinality(Counted(p)) <= opts[p].maxChildren
  BY <1>1 DEF ChildCap, Counted
<1>3. Counted(p)' \subseteq Counted(p) /\ Counted(p) \subseteq Jobs
  BY ShapeCounted DEF Counted, OpenChildren
<1>4. /\ Cardinality(Counted(p)') \in Nat /\ Cardinality(Counted(p)) \in Nat
      /\ Cardinality(Counted(p)') <= Cardinality(Counted(p))
  BY <1>3, CapSubset
<1> QED BY <1>1, <1>2, <1>4

\* An insert adds one child to a parent that has room for it.
LEMMA AddCap ==
  ASSUME TypeOK, TypeOK', CountersInv, CapInv, NEW q \in Jobs \cup {NoJob},
         NEW o \in Options, NEW first \in {"waiting", "delayed"}, Add(q, o, first)
  PROVE  ChildCap'
<1> SUFFICES ASSUME NEW p \in Jobs, IsRow(p)', opts'[p].maxChildren # 0
             PROVE  Cardinality(Counted(p)') <= opts'[p].maxChildren
  BY DEF ChildCap, Counted
<1>1. nextId \in Jobs /\ status[nextId] = "none"
  BY DEF Add, CountersInv, Blank, TypeOK, Jobs
<1>2. /\ retries' = retries
      /\ \A k \in Jobs :
           /\ parent'[k] = IF k = nextId THEN q ELSE parent[k]
           /\ k # nextId => opts'[k] = opts[k]
           /\ k # nextId => (status'[k] \in Open <=> status[k] \in Open)
           /\ k # nextId => (IsRow(k)' <=> IsRow(k))
  BY DEF Add, TypeOK, Open, IsRow, history
<1>3. \A k \in Jobs : opts[k].maxChildren \in Nat /\ opts'[k].maxChildren \in Nat
  BY OptionsAssumption DEF TypeOK, OptionType
<1>4. Counted(p)' \subseteq OpenChildren(status, parent, p) \cup {nextId}
  BY <1>2 DEF Counted, OpenChildren
<1>5. CASE p = nextId
  <2>1. q # nextId
    BY <1>1 DEF Add, NoJob, Jobs
  <2>2. ASSUME NEW c \in Jobs, parent'[c] = nextId, status'[c] \in Open PROVE FALSE
    BY <1>1, <1>2, <2>1, <2>2, RealJobs DEF CapInv, ReferencesHold, IsRow, Open
  <2>3. Counted(p)' = {}
    BY <1>5, <2>2 DEF Counted, OpenChildren
  <2> QED BY <1>3, <2>3, FS_EmptySet
<1>6. CASE p # nextId /\ p # q
  <2>1. Counted(p)' \subseteq Counted(p) /\ Counted(p) \subseteq Jobs
    BY <1>2, <1>6 DEF Counted, OpenChildren
  <2>2. Cardinality(Counted(p)) <= opts[p].maxChildren /\ opts'[p] = opts[p]
    BY <1>2, <1>6 DEF CapInv, ChildCap, Counted
  <2>3. /\ Cardinality(Counted(p)') \in Nat /\ Cardinality(Counted(p)) \in Nat
        /\ Cardinality(Counted(p)') <= Cardinality(Counted(p))
    BY <2>1, CapSubset
  <2> QED BY <1>3, <2>2, <2>3
<1>7. CASE p # nextId /\ p = q
  <2> DEFINE O == OpenChildren(status, parent, p)
  <2>1. O \subseteq Jobs /\ nextId \notin O
    BY <1>1 DEF OpenChildren, Open
  <2>2. opts'[p] = opts[p] /\ Cardinality(O) < opts[p].maxChildren
    BY <1>2, <1>7, RealJobs DEF Add, RoomForChild
  <2>3. /\ Cardinality(O \cup {nextId}) = Cardinality(O) + 1
        /\ Cardinality(O) \in Nat
    <3>1. IsFiniteSet(O) /\ Cardinality(O) \in Nat
      BY <2>1, CapSubset
    <3> QED BY <2>1, <3>1, FS_AddElement
  <2>4. O \cup {nextId} \in SUBSET Jobs /\ Counted(p)' \in SUBSET (O \cup {nextId})
    BY <1>1, <1>4, <2>1
  <2> HIDE DEF O
  <2>5. /\ Cardinality(Counted(p)') \in Nat
        /\ Cardinality(Counted(p)') <= Cardinality(O \cup {nextId})
    BY <2>4, CapSubset
  <2> QED BY <1>3, <2>2, <2>3, <2>5
<1> QED BY <1>5, <1>6, <1>7

\* The cap of max_children: it is checked under the parent's lock, and nothing but
\* retryJob reopens a child.
THEOREM ChildrenWithinCap == Spec => []ChildCap
<1>1. Init => TreeInv /\ ChildCap
  BY TreeInit DEF Init, ChildCap, IsRow
<1>2. ASSUME TypeOK, CountersInv, TreeInv, ChildCap, [Next]_vars
      PROVE  TreeInv' /\ ChildCap'
  <2>1. TypeOK' /\ CapInv
    BY <1>2, NextType DEF TreeInv, CapInv
  <2> QED BY <1>2, <2>1, TreeStep, AddCap, NextTree, NextDelivery, ShapeCap
<1>3. TypeOK /\ CountersInv /\ TreeInv /\ ChildCap /\ [Next]_vars => TreeInv' /\ ChildCap'
  BY <1>2
<1> QED BY <1>1, <1>3, TypeCorrect, CountersInvariant, PTL DEF Spec

-----------------------------------------------------------------------------
\* Cancellation.

\* What is below a descendant of j is below j.
LEMMA DescendantsNest ==
  ASSUME NEW j \in Jobs, NEW k \in Descendants(j), NEW m \in Descendants(k)
  PROVE  m \in Descendants(j)
BY DEF Descendants

\* Committing a resolved table cancels no row that the table does not.
LEMMA CommitCancels ==
  ASSUME NEW st \in [Jobs -> Statuses], NEW par, NEW P, NEW box, NEW gone,
         Commit(Resolve(st, par, P), par, box, gone), NEW k \in Jobs
  PROVE  /\ status'[k] = "cancelled" => st[k] = "cancelled"
         /\ status'[k] \in Open => st[k] \in Open
BY ResolveRow DEF Commit, Open

\* Nothing but cancelJob() cancels a row.
LEMMA OnlyCancelJob ==
  ASSUME TypeOK, [Next]_vars, ~\E j \in Jobs : CancelJob(j),
         NEW k \in Jobs, status[k] # "cancelled"
  PROVE  status'[k] # "cancelled"
<1> USE DEF TypeOK
<1>1. ASSUME NEW j \in Jobs, NEW t \in 1..attemptsStarted[j], CompleteJob(j, t)
      PROVE  status'[k] # "cancelled"
  <2> DEFINE done == [status EXCEPT ![j] = "completed"]
  <2>1. done \in [Jobs -> Statuses] /\ done[k] # "cancelled"
    BY DEF Statuses, Terminal
  <2> HIDE DEF done
  <2> QED BY <1>1, <2>1, CommitCancels DEF CompleteJob, done
<1>2. ASSUME NEW j \in Jobs, NEW t \in 1..attemptsStarted[j], FailForGood(j, t)
      PROVE  status'[k] # "cancelled"
  <2> DEFINE policy == opts[j].onChildFail
             dead == [status EXCEPT ![j] = "dead"]
             freed == IF policy = "remove_dep" THEN [parent EXCEPT ![j] = NoJob] ELSE parent
             st == Resolve(dead, freed, {parent[j]})
  <2>1. dead \in [Jobs -> Statuses] /\ dead[k] # "cancelled"
    BY DEF Statuses, Terminal
  <2>2. st[k] # "cancelled"
    <3> HIDE DEF dead
    <3> QED BY <2>1, ResolveRow
  <2> HIDE DEF st
  <2>3. status'[k] \in {"none", "failed", dead[k], st[k]}
    BY <1>2 DEF FailForGood, Commit, st
  <2> QED BY <2>1, <2>2, <2>3
<1>3. ASSUME NEW S \in SUBSET Jobs, DeadLetter(S)
      PROVE  status'[k] # "cancelled"
  <2> DEFINE dead == [j \in Jobs |-> IF j \in S THEN "dead" ELSE status[j]]
  <2>1. dead \in [Jobs -> Statuses] /\ dead[k] # "cancelled"
    BY DEF Statuses, Terminal
  <2>2. Commit(Resolve(dead, parent, {parent[c] : c \in S}), parent,
               inbox \cup Post(S, dead, "timeout"), {})
    BY <1>3 DEF DeadLetter
  <2> HIDE DEF dead
  <2> QED BY <2>1, <2>2, CommitCancels
<1> QED
  BY <1>1, <1>2, <1>3
  DEF Next, vars, Add, Claim, FailJob, FailForRetry, ReleaseLeaseFullJob, PromoteDelayed,
      HandleStalled, HandleTimeouts, HandleWallClockTimeouts, RetryJob, PauseJob,
      ResumeJob, RemoveJob, Prune, Commit

\* Cancellation is complete: when a row becomes cancelled, everything below it has
\* ended.
THEOREM CancelIsComplete == Spec => CancelReachesSubtree
<1> DEFINE Reached(j) ==
             (status[j] # "cancelled" /\ status'[j] = "cancelled")
               => \A k \in Descendants(j) : status'[k] \notin Open
<1>1. ASSUME TypeOK, NEW j \in Jobs, CancelJob(j), NEW k \in Jobs PROVE Reached(k)
  <2> DEFINE hit == {m \in Descendants(j) : status[m] \in Cancellable}
             st == [m \in Jobs |-> IF m \in hit THEN "cancelled" ELSE status[m]]
  <2>1. st \in [Jobs -> Statuses]
    BY <1>1 DEF TypeOK, Statuses, Terminal
  <2>2. Commit(Resolve(st, parent, {parent[m] : m \in hit}), parent,
               inbox \cup Post(hit, st, "cancelled"), {})
    BY <1>1 DEF CancelJob
  <2>3. \A m \in Descendants(j) : m \in Jobs /\ st[m] \notin Open
    BY DEF Descendants, Open, Cancellable
  <2>4. st[k] = "cancelled" => status[k] = "cancelled" \/ k \in Descendants(j)
    OBVIOUS
  <2> HIDE DEF st, hit
  <2>5. SUFFICES ASSUME status[k] # "cancelled", status'[k] = "cancelled",
                        NEW m \in Descendants(k)
                 PROVE  status'[m] \notin Open
    OBVIOUS
  <2>6. k \in Descendants(j)
    BY <2>1, <2>2, <2>4, <2>5, CommitCancels
  <2>7. m \in Jobs /\ st[m] \notin Open
    BY <2>3, <2>6, DescendantsNest
  <2> QED BY <2>1, <2>2, <2>7, CommitCancels
<1>2. ASSUME TypeOK, [Next]_vars, NEW k \in Jobs PROVE Reached(k)
  BY <1>1, <1>2, OnlyCancelJob
<1>3. TypeOK /\ [Next]_vars => [\A j \in Jobs : Reached(j)]_vars
  BY <1>2
<1> QED
  BY <1>3, TypeCorrect, PTL DEF Spec, CancelReachesSubtree, Descendants
=============================================================================
