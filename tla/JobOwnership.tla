---------------------------- MODULE JobOwnership ----------------------------
(***************************************************************************)
(* What the queue promises about executions, with nothing of how it does   *)
(* it: every job is handed out in epochs, at most one epoch owns the job   *)
(* at a time, ownership may be revoked at any moment and for many jobs at  *)
(* once, and the job's result is written once, by the epoch that owns it.  *)
(***************************************************************************)
EXTENDS Naturals

CONSTANT Jobs

VARIABLES
  epoch,   \* how often the job has been handed out
  owner,   \* the epoch that owns the job, 0 if none
  result   \* the epoch whose result the job has, 0 if none

vars == <<epoch, owner, result>>

Init ==
  /\ epoch = [j \in Jobs |-> 0]
  /\ owner = [j \in Jobs |-> 0]
  /\ result = [j \in Jobs |-> 0]

Grant(j) ==
  /\ owner[j] = 0 /\ result[j] = 0
  /\ epoch' = [epoch EXCEPT ![j] = @ + 1]
  /\ owner' = [owner EXCEPT ![j] = epoch[j] + 1]
  /\ UNCHANGED result

Finish(j) ==
  /\ owner[j] # 0
  /\ result' = [result EXCEPT ![j] = owner[j]]
  /\ owner' = [owner EXCEPT ![j] = 0]
  /\ UNCHANGED epoch

Revoke(S) ==
  /\ owner' = [j \in Jobs |-> IF j \in S THEN 0 ELSE owner[j]]
  /\ UNCHANGED <<epoch, result>>

Next ==
  \/ \E j \in Jobs : Grant(j) \/ Finish(j)
  \/ \E S \in SUBSET Jobs : Revoke(S)

Spec == Init /\ [][Next]_vars
=============================================================================
