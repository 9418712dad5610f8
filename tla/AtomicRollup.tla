---------------------------- MODULE AtomicRollup ----------------------------
(***************************************************************************)
(* How the endings of a parent's children are meant to look: children end  *)
(* in one indivisible step, which tells the parent and, with the last open *)
(* child, wakes it.  MinionQueue assumes this; ParentRollup implements it. *)
(***************************************************************************)
EXTENDS Naturals, FiniteSets

CONSTANTS Children, Cap

VARIABLES
  parent,   \* the parent's status
  child,    \* "none" (not added yet), "open" or "ended"
  told      \* the children whose child_done the parent has

vars == <<parent, child, told>>

OpenParent == {"waiting-children", "waiting", "active"}
OpenChildren == {c \in Children : child[c] = "open"}
Ended(S) == [c \in Children |-> IF c \in S THEN "ended" ELSE child[c]]
Asleep(some) == IF some THEN "waiting-children" ELSE "active"

Init ==
  /\ child \in [Children -> {"none", "open"}]
  /\ Cardinality(OpenChildren) <= Cap
  /\ parent = Asleep(OpenChildren # {})
  /\ told = {}

\* A parent that is terminal need not be told, and may be if it only just became so.
Tell(S) ==
  \/ told' = told \cup S
  \/ parent \notin OpenParent /\ UNCHANGED told

EndChildren(S) ==
  /\ S # {} /\ S \subseteq OpenChildren
  /\ child' = Ended(S)
  /\ parent' = IF parent = "waiting-children" /\ OpenChildren = S
               THEN "waiting" ELSE parent
  /\ Tell(S)

FailParent(c) ==
  /\ c \in OpenChildren
  /\ child' = Ended({c})
  /\ parent' = IF parent = "waiting-children" THEN "failed" ELSE parent
  /\ Tell({c})

\* Cancelling the parent takes the children it can see with it; one that is being
\* added meanwhile may escape.
CancelTree(S) ==
  /\ S \subseteq OpenChildren
  /\ child' = Ended(S)
  /\ parent' = IF parent \in OpenParent THEN "cancelled" ELSE parent
  /\ UNCHANGED told

Add(c) ==
  /\ child[c] = "none" /\ Cardinality(OpenChildren) < Cap
  /\ child' = [child EXCEPT ![c] = "open"]
  /\ parent' = IF parent \in {"waiting", "active"} THEN "waiting-children" ELSE parent
  /\ UNCHANGED told

Claim == parent = "waiting" /\ parent' = "active" /\ UNCHANGED <<child, told>>
Complete == parent = "active" /\ parent' = "completed" /\ UNCHANGED <<child, told>>

Next ==
  \/ \E S \in SUBSET Children : EndChildren(S) \/ CancelTree(S)
  \/ \E c \in Children : FailParent(c) \/ Add(c)
  \/ Claim \/ Complete

Spec == Init /\ [][Next]_vars
=============================================================================
