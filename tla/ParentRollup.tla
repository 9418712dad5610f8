---------------------------- MODULE ParentRollup ----------------------------
(***************************************************************************)
(* The transactions of queue.ts that end or add children of one parent     *)
(* row, statement by statement, as PostgreSQL runs them at READ COMMITTED  *)
(* with several connections: every statement sees what is committed when   *)
(* it starts plus its own transaction's writes; a row lock is held to the  *)
(* end of the transaction; an UPDATE that waited for a row tests its WHERE *)
(* again on the row's new version, though not its NOT EXISTS.              *)
(*                                                                         *)
(*   finisher  completeJob, or failJob for good: FOR UPDATE on the parent, *)
(*             end the child, post child_done, then wake or fail the parent*)
(*   sweeper   handleTimeouts, handleWallClockTimeouts, cancelJob: the same*)
(*             without the lock, for any number of children                *)
(*   adder     add: FOR UPDATE on the parent, count, insert, flip it       *)
(*                                                                         *)
(* Posting to the parent's inbox takes a KEY SHARE lock on the parent row  *)
(* (foreign key minion_inbox.job_id), which FOR UPDATE excludes.  Any      *)
(* transaction may be rolled back at any point: deadlock victim, crash.    *)
(***************************************************************************)
EXTENDS Naturals, FiniteSets

CONSTANTS
  Parent, Children,   \* the rows
  Finishers, Sweepers, Adders,   \* the transactions, each run at most once
  Cap,                \* the parent's max_children
  SweepersOverlap     \* may two sweepers run at once, as with two workers, or a
                      \* worker and an operator's cancel

Rows == Children \cup {Parent}
Txs == Finishers \cup Sweepers \cup Adders

ASSUME RowsAssumption == Parent \notin Children /\ IsFiniteSet(Children)
ASSUME TxsAssumption ==
  /\ Finishers \cap Sweepers = {} /\ Finishers \cap Adders = {}
  /\ Sweepers \cap Adders = {}
ASSUME CapAssumption == Cap \in Nat /\ SweepersOverlap \in BOOLEAN

ChildStatuses == {"none", "open", "ended"}
ParentStatuses ==
  {"waiting-children", "waiting", "active", "completed", "failed", "cancelled"}
OpenParent == {"waiting-children", "waiting", "active"}
Modes == {"update", "no key update", "key share"}
Steps == {"idle", "lock", "end", "post", "key", "rollup", "wake", "insert", "flip",
          "commit", "done"}
Kinds == {"end", "fail_parent", "tree", "add"}

VARIABLES
  row,     \* the committed status of every row
  inbox,   \* the children whose child_done is committed
  pc,      \* the statement each transaction runs next
  kind,    \* what it does
  work,    \* the rows its first UPDATE (or its INSERT) has still to visit
  write,   \* the statuses it has written, "kept" where it has not
  posted,  \* the child_done messages it has written
  lock     \* the row locks it holds

vars == <<row, inbox, pc, kind, work, write, posted, lock>>
tx == <<kind, work, write, posted, lock>>

Unwritten == [r \in Rows |-> "kept"]
Unlocked == [r \in Rows |-> {}]

TypeOK ==
  /\ row \in [Rows -> ChildStatuses \cup ParentStatuses]
  /\ row[Parent] \in ParentStatuses
  /\ \A c \in Children : row[c] \in ChildStatuses
  /\ inbox \subseteq Children
  /\ pc \in [Txs -> Steps]
  /\ kind \in [Txs -> Kinds]
  /\ work \in [Txs -> SUBSET Rows]
  /\ write \in [Txs -> [Rows -> ChildStatuses \cup ParentStatuses \cup {"kept"}]]
  /\ posted \in [Txs -> SUBSET Children]
  /\ lock \in [Txs -> [Rows -> SUBSET Modes]]

Init ==
  /\ \E open \in SUBSET Children :
       /\ Cardinality(open) <= Cap
       /\ row = [r \in Rows |->
                   IF r = Parent THEN IF open = {} THEN "active" ELSE "waiting-children"
                   ELSE IF r \in open THEN "open" ELSE "none"]
  /\ inbox = {}
  /\ pc = [x \in Txs |-> "idle"]
  /\ kind = [x \in Txs |-> "end"]
  /\ work = [x \in Txs |-> {}]
  /\ write = [x \in Txs |-> Unwritten]
  /\ posted = [x \in Txs |-> {}]
  /\ lock = [x \in Txs |-> Unlocked]

-----------------------------------------------------------------------------
\* Row locks and visibility (PostgreSQL).

Excludes(mode) ==
  CASE mode = "update" -> Modes
    [] mode = "no key update" -> {"update", "no key update"}
    [] mode = "key share" -> {"update"}

Free(x, r, mode) == \A y \in Txs \ {x} : lock[y][r] \cap Excludes(mode) = {}
Lock(x, r, mode) == lock' = [lock EXCEPT ![x][r] = @ \cup {mode}]
View(x) == [r \in Rows |-> IF write[x][r] = "kept" THEN row[r] ELSE write[x][r]]
Write(x, r, st) == write' = [write EXCEPT ![x][r] = st]
Goto(x, step) == pc' = [pc EXCEPT ![x] = step]

IsOpen(st) == st = "open" \/ st \in OpenParent
OpenIn(view) == {c \in Children : view[c] = "open"}

-----------------------------------------------------------------------------
\* The transactions begin.

Start(x, k, rows, step) ==
  /\ pc[x] = "idle"
  /\ kind' = [kind EXCEPT ![x] = k]
  /\ work' = [work EXCEPT ![x] = rows]
  /\ Goto(x, step)
  /\ UNCHANGED <<row, inbox, write, posted, lock>>

\* completeJob or failJob for child c.  Which parent to lock is read first; it
\* never changes here.
FirstStepUnlocked == "end"  \* mutant: without SELECT ... FOR UPDATE
FirstStep == "lock"

BeginFinish(x, c, k) ==
  /\ x \in Finishers /\ row[c] = "open" /\ k \in {"end", "fail_parent"}
  /\ Start(x, k, {c}, FirstStep)

\* A sweep of the children S, or cancelJob of one child.
MaySweep(x) ==
  /\ x \in Sweepers
  /\ ~SweepersOverlap => \A y \in Sweepers : pc[y] \in {"idle", "done"}

BeginSweep(x, S) ==
  /\ MaySweep(x) /\ S # {} /\ S \subseteq OpenIn(row)
  /\ Start(x, "end", S, "end")

\* cancelJob of the parent: the descendants its statement sees.
BeginCancelTree(x) ==
  /\ MaySweep(x)
  /\ \E r \in Rows : IsOpen(row[r])
  /\ Start(x, "tree", {r \in Rows : IsOpen(row[r])}, "end")

\* add() of child c; the sequence gives every adder an id of its own.
BeginAdd(x, c) ==
  /\ x \in Adders /\ row[c] = "none"
  /\ \A y \in Adders : c \notin work[y]
  /\ Start(x, "add", {c}, "lock")

-----------------------------------------------------------------------------
\* Their statements.

\* SELECT ... FROM minion_jobs WHERE id = parent FOR UPDATE
LockParent(x) ==
  /\ pc[x] = "lock" /\ Free(x, Parent, "update")
  /\ Lock(x, Parent, "update")
  /\ Goto(x, IF kind[x] = "add" THEN "insert" ELSE "end")
  /\ UNCHANGED <<row, inbox, kind, work, write, posted>>

\* UPDATE ... SET status = <terminal>: one row of those the statement found, in
\* any order, tested again when its lock is free.
EndedStatus(r) == IF r = Parent THEN "cancelled" ELSE "ended"

EndRow(x, r) ==
  /\ pc[x] = "end" /\ r \in work[x] /\ Free(x, r, "no key update")
  /\ IF IsOpen(row[r])
       THEN Write(x, r, EndedStatus(r)) /\ Lock(x, r, "no key update")
       ELSE UNCHANGED <<write, lock>>
  /\ work' = [work EXCEPT ![x] = @ \ {r}]
  /\ Goto(x, IF work[x] = {r} THEN "post" ELSE "end")
  /\ UNCHANGED <<row, inbox, kind, posted>>

EndedBy(x) == {c \in Children : write[x][c] = "ended"}

\* INSERT INTO minion_inbox ... WHERE EXISTS (the parent, not terminal).  When
\* nothing was ended the method returns at once.
Post(x) ==
  /\ pc[x] = "post"
  /\ Goto(x, CASE EndedBy(x) = {} -> "commit"
               [] EndedBy(x) # {} /\ View(x)[Parent] \in OpenParent -> "key"
               [] OTHER -> "rollup")
  /\ UNCHANGED <<row, inbox, tx>>

\* The row is in; its foreign key locks the parent row.
PostKey(x) ==
  /\ pc[x] = "key" /\ Free(x, Parent, "key share")
  /\ Lock(x, Parent, "key share")
  /\ posted' = [posted EXCEPT ![x] = EndedBy(x)]
  /\ Goto(x, "rollup")
  /\ UNCHANGED <<row, inbox, kind, work, write>>

\* UPDATE ... SET status = 'waiting' WHERE status = 'waiting-children' AND NOT
\* EXISTS (an open child), or for fail_parent SET status = 'failed' without the
\* NOT EXISTS: does the statement find the row?
RollsUpEarly(x) == View(x)[Parent] = "waiting-children"  \* mutant: no NOT EXISTS
RollsUp(x) ==
  /\ View(x)[Parent] = "waiting-children"
  /\ kind[x] = "fail_parent" \/ OpenIn(View(x)) = {}

Rollup(x) ==
  /\ pc[x] = "rollup"
  /\ Goto(x, IF RollsUp(x) THEN "wake" ELSE "commit")
  /\ UNCHANGED <<row, inbox, tx>>

\* It does: write it, unless its status has changed while waiting for the lock.
Wake(x) ==
  /\ pc[x] = "wake" /\ Free(x, Parent, "no key update")
  /\ IF View(x)[Parent] = "waiting-children"
       THEN /\ Write(x, Parent, IF kind[x] = "fail_parent" THEN "failed" ELSE "waiting")
            /\ Lock(x, Parent, "no key update")
       ELSE UNCHANGED <<write, lock>>
  /\ Goto(x, "commit")
  /\ UNCHANGED <<row, inbox, kind, work, posted>>

\* add(): SELECT count(*) of the open children, then INSERT; throws at the cap.
Insert(x) ==
  /\ pc[x] = "insert"
  /\ IF Cardinality(OpenIn(View(x))) < Cap
       THEN /\ write' = [write EXCEPT ![x] = [r \in Rows |->
                            IF r \in work[x] THEN "open" ELSE @[r]]]
            /\ Goto(x, "flip")
       ELSE UNCHANGED write /\ Goto(x, "commit")
  /\ UNCHANGED <<row, inbox, kind, work, posted, lock>>

\* add(): UPDATE the parent to 'waiting-children' WHERE status IN (...)
Flip(x) ==
  /\ pc[x] = "flip"
  /\ IF View(x)[Parent] \in {"waiting", "active"}
       THEN Write(x, Parent, "waiting-children") /\ Lock(x, Parent, "no key update")
       ELSE UNCHANGED <<write, lock>>
  /\ Goto(x, "commit")
  /\ UNCHANGED <<row, inbox, kind, work, posted>>

\* The end of a transaction, by COMMIT or by ROLLBACK.
Release(x) ==
  /\ Goto(x, "done")
  /\ write' = [write EXCEPT ![x] = Unwritten]
  /\ posted' = [posted EXCEPT ![x] = {}]
  /\ lock' = [lock EXCEPT ![x] = Unlocked]
  /\ kind' = [kind EXCEPT ![x] = "end"]
  /\ work' = [work EXCEPT ![x] = {}]

Commit(x) ==
  /\ pc[x] = "commit"
  /\ row' = View(x)
  /\ inbox' = inbox \cup posted[x]
  /\ Release(x)

Rollback(x) ==
  /\ pc[x] \notin {"idle", "done"}
  /\ Release(x)
  /\ UNCHANGED <<row, inbox>>

-----------------------------------------------------------------------------
\* claim() of the parent, which skips it while it is locked, and completeJob()
\* of the parent, which has no parent itself: one statement each.
ClaimParent ==
  /\ row[Parent] = "waiting"
  /\ \A x \in Txs : lock[x][Parent] = {}
  /\ row' = [row EXCEPT ![Parent] = "active"]
  /\ UNCHANGED <<inbox, pc, tx>>

CompleteParent ==
  /\ row[Parent] = "active"
  /\ \A x \in Txs : lock[x][Parent] \cap Excludes("no key update") = {}
  /\ row' = [row EXCEPT ![Parent] = "completed"]
  /\ UNCHANGED <<inbox, pc, tx>>

Next ==
  \/ \E x \in Txs :
       \/ \E c \in Children : \/ \E k \in Kinds : BeginFinish(x, c, k)
                              \/ BeginAdd(x, c)
       \/ \E S \in SUBSET Children : BeginSweep(x, S)
       \/ BeginCancelTree(x)
       \/ LockParent(x)
       \/ \E r \in Rows : EndRow(x, r)
       \/ Post(x) \/ PostKey(x) \/ Rollup(x) \/ Wake(x)
       \/ Insert(x) \/ Flip(x)
       \/ Commit(x) \/ Rollback(x)
  \/ ClaimParent \/ CompleteParent

Spec == Init /\ [][Next]_vars

-----------------------------------------------------------------------------
\* Properties.

\* Whatever their statements interleave to, the transactions look like the
\* indivisible steps MinionQueue takes: at every commit the children that end are
\* told to the parent, the last one wakes it, nothing wakes it earlier, and no two
\* add() calls exceed the cap.  This needs the FOR UPDATE of finishers and adders,
\* and for a sweeper the foreign-key lock of its inbox row.
Committed == INSTANCE AtomicRollup
  WITH parent <- row[Parent], child <- [c \in Children |-> row[c]], told <- inbox
ImplementsRollup == Committed!Spec

\* The comments in handleTimeouts and cancelJob: the parent whose last open child
\* was just killed is unblocked.  When no transaction is under way, a sleeping
\* parent has a child to wait for.
NoStrandedParent ==
  (/\ \A x \in Txs : pc[x] \in {"idle", "done"}
   /\ row[Parent] = "waiting-children")
    => OpenIn(row) # {}
=============================================================================
