--------------------------- MODULE MCMinionQueue ---------------------------
(* Values for model checking MinionQueue. *)
EXTENDS MinionQueue

Option(policy, cap, attempts, stalls, timed, onComplete, onFail) ==
  [onChildFail |-> policy, maxChildren |-> cap, maxAttempts |-> attempts,
   maxStalled |-> stalls, timed |-> timed,
   removeOnComplete |-> onComplete, removeOnFail |-> onFail]

\* A job that takes its parent down with it and one that does not, may be tried
\* twice and may have one child.
OperatorOptions ==
  {Option("fail_parent", 0, 1, 1, TRUE, FALSE, TRUE),
   Option("continue", 1, 2, 1, FALSE, TRUE, FALSE)}

\* The three on_child_fail branches; a second attempt and a second stall.
PolicyOptions ==
  {Option("fail_parent", 0, 1, 2, FALSE, FALSE, FALSE),
   Option("remove_dep", 0, 1, 1, TRUE, FALSE, TRUE),
   Option("ignore", 0, 2, 1, FALSE, TRUE, FALSE)}

\* Jobs that are dead-lettered by their first stall.
StallOptions == {Option("continue", 0, 1, 1, FALSE, FALSE, FALSE)}
=============================================================================
