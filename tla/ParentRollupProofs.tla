------------------------- MODULE ParentRollupProofs -------------------------
(***************************************************************************)
(* For any set of children, any cap and any number of transactions whose   *)
(* sweeps take turns: what the transactions commit looks like the          *)
(* indivisible steps of AtomicRollup, and no parent is left asleep.        *)
(* Whoever has ended children holds a lock on the parent row from its post *)
(* to its end, or found the parent ended: so what it read of the parent    *)
(* and the siblings in between is still true when it commits.              *)
(***************************************************************************)
EXTENDS ParentRollup, FiniteSetTheorems, TLAPS

\* Sweeps take turns, as those of one worker do.
Serial == ~SweepersOverlap

Over(x) == pc[x] \in {"idle", "done"}
Ending(x) == x \in Finishers \cup Sweepers
Added(x) == \E c \in Children : write[x][c] = "open"
OwnsRow(x, r) == lock[x][r] \cap {"update", "no key update"} # {}

-----------------------------------------------------------------------------
\* The invariant, one transaction at a time.

\* The statements a transaction runs, by its role, and the rows it works on.
Roles(x) ==
  /\ Over(x) => work[x] = {}
  /\ Over(x) \/ pc[x] = "lock" =>
       write[x] = Unwritten /\ lock[x] = Unlocked /\ posted[x] = {}
  /\ x \in Adders /\ ~Over(x) =>
       /\ pc[x] \in {"lock", "insert", "flip", "commit"}
       /\ kind[x] = "add" /\ posted[x] = {}
       /\ \E c \in Children : work[x] = {c}
  /\ x \in Finishers /\ ~Over(x) =>
       /\ pc[x] \notin {"insert", "flip"}
       /\ kind[x] \in {"end", "fail_parent"}
       /\ \E c \in Children : work[x] \cup EndedBy(x) \subseteq {c}
  /\ x \in Sweepers /\ ~Over(x) =>
       /\ pc[x] \notin {"lock", "insert", "flip"}
       /\ kind[x] \in {"end", "tree"}
       /\ kind[x] = "end" => work[x] \subseteq Children
  /\ pc[x] \notin {"lock", "end"} /\ Ending(x) => work[x] = {}
  /\ x \notin Sweepers /\ pc[x] \notin {"idle", "done", "lock"} => "update" \in lock[x][Parent]

\* What it has written, over what, and under which locks.
Writes(x) ==
  /\ write[x][Parent] # "kept" => OwnsRow(x, Parent) /\ row[Parent] \in OpenParent
  /\ x \notin Adders => \A c \in Children :
       /\ write[x][c] \in {"kept", "ended"}
       /\ write[x][c] = "ended" => row[c] = "open" /\ OwnsRow(x, c)
  /\ x \in Adders => \A c \in Children :
       /\ write[x][c] \in {"kept", "open"}
       /\ write[x][c] = "open" => c \in work[x]
       /\ c \in work[x] => row[c] = "none"

\* Where a transaction that ends children stands with the parent.
Ends(x) ==
  Ending(x) /\ ~Over(x) =>
    /\ pc[x] = "key" => EndedBy(x) # {} /\ kind[x] # "tree"
    /\ pc[x] \in {"rollup", "wake"} => EndedBy(x) # {}
    /\ pc[x] \in {"lock", "end", "post", "key"} => posted[x] = {}
    /\ kind[x] = "tree" =>
         /\ write[x][Parent] \in {"kept", "cancelled"} /\ posted[x] = {}
         /\ pc[x] # "wake"
         /\ write[x][Parent] = "kept" /\ Parent \notin work[x] => row[Parent] \notin OpenParent
    /\ kind[x] # "tree" =>
         /\ pc[x] # "commit" => write[x][Parent] = "kept"
         /\ pc[x] \in {"rollup", "wake", "commit"} /\ EndedBy(x) # {} =>
              \/ posted[x] = EndedBy(x) /\ lock[x][Parent] # {}
              \/ posted[x] = {} /\ row[Parent] \notin OpenParent
         /\ EndedBy(x) = {} => posted[x] = {} /\ write[x][Parent] = "kept"

\* The parent is woken, or failed, if and only if it should be.
Wakes(x) ==
  Ending(x) =>
    /\ pc[x] = "wake" =>
         /\ row[Parent] = "waiting-children"
         /\ kind[x] = "end" => OpenIn(View(x)) = {}
    /\ pc[x] = "commit" /\ EndedBy(x) # {} /\ kind[x] = "end" =>
         write[x][Parent] =
           IF row[Parent] = "waiting-children" /\ OpenIn(View(x)) = {} THEN "waiting" ELSE "kept"
    /\ pc[x] = "commit" /\ EndedBy(x) # {} /\ kind[x] = "fail_parent" =>
         write[x][Parent] = IF row[Parent] = "waiting-children" THEN "failed" ELSE "kept"

\* What an adder has counted, and how it puts the parent to sleep.
Adds(x) ==
  x \in Adders =>
    /\ pc[x] = "insert" => write[x] = Unwritten
    /\ pc[x] = "flip" => write[x][Parent] = "kept" /\ Added(x)
    /\ Added(x) =>
         /\ Cardinality(OpenIn(row)) < Cap
         /\ \A c \in work[x] : write[x][c] = "open"
    /\ pc[x] = "commit" =>
         write[x][Parent] = IF row[Parent] \in {"waiting", "active"} /\ Added(x)
                            THEN "waiting-children" ELSE "kept"

TxInv(x) == Roles(x) /\ Writes(x) /\ Ends(x) /\ Wakes(x) /\ Adds(x)

\* The invariant, between transactions: locks exclude one another, sweeps take turns,
\* no two adders have the same child, and a sleeping parent has an open child.
LocksInv ==
  \A x, y \in Txs, r \in Rows : x # y =>
    /\ "update" \in lock[x][r] => lock[y][r] = {}
    /\ "no key update" \in lock[x][r] => "no key update" \notin lock[y][r]

TurnsInv == \A x, y \in Sweepers : x # y => Over(x) \/ Over(y)
IdsInv == \A x, y \in Adders : x # y => work[x] \cap work[y] = {}
Awake == row[Parent] = "waiting-children" => OpenIn(row) # {}

IInv ==
  /\ TypeOK /\ LocksInv /\ TurnsInv /\ IdsInv /\ Awake
  /\ \A x \in Txs : TxInv(x)

-----------------------------------------------------------------------------
\* A statement of x other than its commit changes nothing of any other transaction.
Same(y) ==
  /\ pc'[y] = pc[y] /\ kind'[y] = kind[y] /\ work'[y] = work[y]
  /\ write'[y] = write[y] /\ posted'[y] = posted[y] /\ lock'[y] = lock[y]

\* The locks x holds next are compatible with those the others have.
Compatible(x) ==
  \A y \in Txs \ {x}, r \in Rows :
    /\ "update" \in lock'[x][r] => lock[y][r] = {}
    /\ "update" \in lock[y][r] => lock'[x][r] = {}
    /\ "no key update" \in lock'[x][r] => "no key update" \notin lock[y][r]

Alone(x) ==
  /\ \A y \in Txs \ {x} : Same(y)
  /\ Compatible(x)
  /\ x \in Sweepers /\ ~Over(x)' => \A y \in Sweepers \ {x} : Over(y)
  /\ x \in Adders => \A y \in Adders \ {x} : work'[x] \cap work[y] = {}

Local(x) == Alone(x) /\ UNCHANGED <<row, inbox>>

\* What holds of a transaction still holds when neither it nor the rows change.
LEMMA SameKeeps ==
  ASSUME NEW y \in Txs, TxInv(y), Same(y), row' = row PROVE TxInv(y)'
<1>1. EndedBy(y)' = EndedBy(y) /\ View(y)' = View(y) /\ OpenIn(row)' = OpenIn(row)
  BY DEF Same, EndedBy, View, OpenIn
<1>2. OpenIn(View(y))' = OpenIn(View(y))
  BY <1>1 DEF OpenIn
<1>3. (Over(y)' <=> Over(y)) /\ (Added(y)' <=> Added(y))
      /\ \A r \in Rows : OwnsRow(y, r)' <=> OwnsRow(y, r)
  BY DEF Same, Over, Added, OwnsRow
<1>4. Roles(y)'
  BY <1>1, <1>3 DEF Same, TxInv, Roles
<1>5. Writes(y)'
  BY <1>1, <1>3 DEF Same, TxInv, Writes, Rows
<1>6. Ends(y)'
  BY <1>1, <1>3 DEF Same, TxInv, Ends, Ending
<1>7. Wakes(y)'
  BY <1>1, <1>2, <1>3 DEF Same, TxInv, Wakes, Ending
<1>8. Adds(y)'
  BY <1>1, <1>3 DEF Same, TxInv, Adds
<1> QED BY <1>4, <1>5, <1>6, <1>7, <1>8 DEF TxInv

\* What holds between transactions is kept by a step of x that leaves the others alone.
LEMMA SharedKeeps ==
  ASSUME IInv, NEW x \in Txs, Alone(x) PROVE LocksInv' /\ TurnsInv' /\ IdsInv'
<1>1. LocksInv'
  <2> SUFFICES ASSUME NEW z \in Txs, NEW y \in Txs, NEW r \in Rows, z # y
      PROVE /\ "update" \in lock'[z][r] => lock'[y][r] = {}
            /\ "no key update" \in lock'[z][r] => "no key update" \notin lock'[y][r]
    BY DEF LocksInv
  <2>0. Compatible(x) /\ \A t \in Txs \ {x} : lock'[t] = lock[t]
    BY DEF Alone, Same
  <2>1. CASE z = x
    <3>1. y \in Txs \ {x}
      BY <2>1
    <3> QED BY <2>0, <2>1, <3>1 DEF Compatible
  <2>2. CASE y = x
    <3>1. z \in Txs \ {x}
      BY <2>2
    <3> QED BY <2>0, <2>2, <3>1 DEF Compatible
  <2>3. CASE z # x /\ y # x
    BY <2>0, <2>3 DEF IInv, LocksInv
  <2> QED BY <2>1, <2>2, <2>3
<1>2. TurnsInv'
  BY DEF IInv, TurnsInv, Alone, Same, Over, Txs
<1>3. IdsInv'
  BY DEF IInv, IdsInv, Alone, Same, Txs
<1> QED BY <1>1, <1>2, <1>3

\* A statement that keeps what holds of its own transaction keeps the invariant.
LEMMA LocalKeeps ==
  ASSUME IInv, NEW x \in Txs, Local(x), TypeOK', TxInv(x)' PROVE IInv'
<1>1. \A y \in Txs : TxInv(y)'
  <2>1. ASSUME NEW y \in Txs \ {x} PROVE TxInv(y)'
    BY SameKeeps DEF IInv, Local, Alone
  <2> QED BY <2>1
<1>2. LocksInv' /\ TurnsInv' /\ IdsInv'
  BY SharedKeeps DEF Local
<1>3. Awake'
  BY DEF IInv, Awake, Local, OpenIn
<1> QED BY <1>1, <1>2, <1>3 DEF IInv

\* The lock just taken was free.
LEMMA TakesFreeLock ==
  ASSUME TypeOK, LocksInv, NEW x \in Txs, NEW r \in Rows, NEW mode \in Modes,
         Free(x, r, mode), Lock(x, r, mode)
  PROVE  /\ lock' \in [Txs -> [Rows -> SUBSET Modes]] /\ Compatible(x)
         /\ lock'[x][r] = lock[x][r] \cup {mode}
         /\ \A q \in Rows \ {r} : lock'[x][q] = lock[x][q]
         /\ \A y \in Txs \ {x} : lock'[y] = lock[y]
<1>1. /\ lock' = [lock EXCEPT ![x] = [lock[x] EXCEPT ![r] = lock[x][r] \cup {mode}]]
  BY DEF TypeOK, Lock
<1>2. lock[x] \in [Rows -> SUBSET Modes]
  BY DEF TypeOK
<1>3. [lock[x] EXCEPT ![r] = lock[x][r] \cup {mode}] \in [Rows -> SUBSET Modes]
  BY <1>2
<1>4. lock' \in [Txs -> [Rows -> SUBSET Modes]]
  BY <1>1, <1>3 DEF TypeOK
<1>5. /\ lock'[x][r] = lock[x][r] \cup {mode}
      /\ \A q \in Rows \ {r} : lock'[x][q] = lock[x][q]
      /\ \A y \in Txs \ {x} : lock'[y] = lock[y]
  BY <1>1, <1>2 DEF TypeOK
<1>6. Compatible(x)
  <2> SUFFICES ASSUME NEW y \in Txs \ {x}, NEW q \in Rows
      PROVE /\ "update" \in lock'[x][q] => lock[y][q] = {}
            /\ "update" \in lock[y][q] => lock'[x][q] = {}
            /\ "no key update" \in lock'[x][q] => "no key update" \notin lock[y][q]
    BY DEF Compatible
  <2>1. CASE q # r
    BY <2>1, <1>5 DEF LocksInv
  <2>2. CASE q = r
    <3>1. lock[y][r] \cap Excludes(mode) = {} /\ lock[y][r] \subseteq Modes
      BY DEF Free, TypeOK
    <3>2. CASE mode = "update"
      BY <3>1, <3>2, <2>2, <1>5 DEF Excludes, LocksInv
    <3>3. CASE mode = "no key update"
      BY <3>1, <3>3, <2>2, <1>5 DEF Excludes, LocksInv
    <3>4. CASE mode = "key share"
      BY <3>1, <3>4, <2>2, <1>5 DEF Excludes, LocksInv
    <3> QED BY <3>2, <3>3, <3>4 DEF Modes
  <2> QED BY <2>1, <2>2
<1> QED BY <1>4, <1>5, <1>6

\* Locks that are kept as they are, or given up, are compatible still.
LEMMA KeepsLocks ==
  ASSUME LocksInv, NEW x \in Txs, lock'[x] = lock[x] \/ lock'[x] = Unlocked
  PROVE  Compatible(x)
BY DEF LocksInv, Compatible, Unlocked

\* A status just written.
LEMMA WritesStatus ==
  ASSUME TypeOK, NEW x \in Txs, NEW r \in Rows,
         NEW st \in ChildStatuses \cup ParentStatuses, Write(x, r, st)
  PROVE  /\ write' \in [Txs -> [Rows -> ChildStatuses \cup ParentStatuses \cup {"kept"}]]
         /\ write'[x][r] = st
         /\ \A q \in Rows \ {r} : write'[x][q] = write[x][q]
         /\ \A y \in Txs \ {x} : write'[y] = write[y]
<1>1. write' = [write EXCEPT ![x] = [write[x] EXCEPT ![r] = st]]
  BY DEF TypeOK, Write
<1>2. write[x] \in [Rows -> ChildStatuses \cup ParentStatuses \cup {"kept"}]
  BY DEF TypeOK
<1>3. [write[x] EXCEPT ![r] = st] \in [Rows -> ChildStatuses \cup ParentStatuses \cup {"kept"}]
  BY <1>2
<1> QED BY <1>1, <1>2, <1>3 DEF TypeOK

\* No two transactions hold locks on the parent row.
LEMMA OneHolds ==
  ASSUME IInv, NEW x \in Txs, NEW y \in Txs, x # y, lock[x][Parent] # {}
  PROVE  lock[y][Parent] = {}
<1>1. Parent \in Rows /\ Roles(x) /\ Roles(y)
  BY DEF Rows, IInv, TxInv
<1>2. CASE x \notin Sweepers
  BY <1>1, <1>2 DEF Roles, Over, Unlocked, IInv, LocksInv
<1>3. CASE y \notin Sweepers
  BY <1>1, <1>3 DEF Roles, Over, Unlocked, IInv, LocksInv
<1>4. CASE x \in Sweepers /\ y \in Sweepers
  BY <1>1, <1>4 DEF Roles, Unlocked, IInv, TurnsInv
<1> QED BY <1>2, <1>3, <1>4
-----------------------------------------------------------------------------
\* The statements before the commit, each a step of one transaction.

\* A transaction that is not running holds, has written and has posted nothing.
LEMMA IdleIsEmpty ==
  ASSUME IInv, NEW x \in Txs, Over(x)
  PROVE  /\ work[x] = {} /\ write[x] = Unwritten /\ lock[x] = Unlocked /\ posted[x] = {}
         /\ EndedBy(x) = {} /\ View(x) = row
<1>1. work[x] = {} /\ write[x] = Unwritten /\ lock[x] = Unlocked /\ posted[x] = {}
  BY DEF IInv, TxInv, Roles
<1>2. row = [r \in Rows |-> row[r]]
  BY DEF IInv, TypeOK
<1> QED BY <1>1, <1>2 DEF EndedBy, View, Unwritten, Rows

\* Every transaction has one role.
LEMMA OneRole ==
  ASSUME NEW x \in Txs
  PROVE  \/ x \in Finishers /\ x \notin Sweepers /\ x \notin Adders
         \/ x \in Sweepers /\ x \notin Finishers /\ x \notin Adders
         \/ x \in Adders /\ x \notin Finishers /\ x \notin Sweepers
BY TxsAssumption DEF Txs

LEMMA StartKeeps ==
  ASSUME IInv, NEW x \in Txs, NEW k \in Kinds, NEW rows \in SUBSET Rows,
         NEW step \in {"lock", "end"}, Start(x, k, rows, step),
         x \in Adders => /\ step = "lock" /\ k = "add"
                         /\ \E c \in Children : rows = {c} /\ row[c] = "none"
                         /\ \A y \in Adders : rows \cap work[y] = {},
         x \in Finishers => /\ step = "lock" /\ k \in {"end", "fail_parent"}
                            /\ \E c \in Children : rows = {c},
         x \in Sweepers => /\ step = "end" /\ k \in {"end", "tree"}
                           /\ \A y \in Sweepers : Over(y)
                           /\ k = "end" => rows \subseteq Children
                           /\ Parent \notin rows /\ k = "tree" => row[Parent] \notin OpenParent
  PROVE  IInv'
<1>1. /\ TypeOK' /\ pc'[x] = step /\ kind'[x] = k /\ work'[x] = rows
      /\ row' = row /\ inbox' = inbox
      /\ write'[x] = write[x] /\ posted'[x] = posted[x] /\ lock'[x] = lock[x]
      /\ \A y \in Txs \ {x} : Same(y)
  BY DEF IInv, TypeOK, Start, Goto, Same, Steps
<1>2. /\ pc[x] = "idle" /\ Over(x) /\ ~Over(x)'
      /\ write[x] = Unwritten /\ lock[x] = Unlocked /\ posted[x] = {}
      /\ EndedBy(x)' = {} /\ View(x)' = row /\ ~Added(x)' /\ Parent \in Rows
      /\ \A r \in Rows : write[x][r] = "kept" /\ lock[x][r] = {}
  <2>1. pc[x] = "idle" /\ Over(x) /\ ~Over(x)'
    BY <1>1 DEF Start, Over
  <2>2. EndedBy(x)' = EndedBy(x) /\ View(x)' = View(x) /\ (Added(x)' <=> Added(x))
    BY <1>1 DEF EndedBy, View, Added
  <2>3. ~Added(x) /\ \A r \in Rows : write[x][r] = "kept" /\ lock[x][r] = {}
    BY <2>1, IdleIsEmpty DEF Added, Unwritten, Unlocked, Rows
  <2> QED BY <2>1, <2>2, <2>3, IdleIsEmpty DEF Rows
<1>3. Local(x)
  <2>1. Compatible(x)
    BY <1>1, KeepsLocks DEF IInv
  <2>2. x \in Adders => \A y \in Adders \ {x} : work'[x] \cap work[y] = {}
    BY <1>1
  <2> QED BY <1>1, <2>1, <2>2 DEF Local, Alone, Start
<1>4. Roles(x)'
  BY <1>1, <1>2, OneRole DEF Roles, Ending
<1>5. Writes(x)'
  BY <1>1, <1>2, OneRole DEF Writes, Rows
<1>6. Ends(x)'
  BY <1>1, <1>2, OneRole DEF Ends, Ending
<1>7. Wakes(x)'
  BY <1>1, <1>2 DEF Wakes
<1>8. Adds(x)'
  BY <1>1, <1>2 DEF Adds
<1> QED BY <1>1, <1>3, <1>4, <1>5, <1>6, <1>7, <1>8, LocalKeeps DEF TxInv

LEMMA BeginKeeps ==
  ASSUME Serial, IInv, NEW x \in Txs,
         \/ \E c \in Children : \/ \E k \in Kinds : BeginFinish(x, c, k)
                                \/ BeginAdd(x, c)
         \/ \E S \in SUBSET Children : BeginSweep(x, S)
         \/ BeginCancelTree(x)
  PROVE  IInv'
<1>1. ASSUME NEW c \in Children, NEW k \in Kinds, BeginFinish(x, c, k) PROVE IInv'
  BY <1>1, StartKeeps, OneRole DEF BeginFinish, FirstStep, Rows
<1>2. ASSUME NEW c \in Children, BeginAdd(x, c) PROVE IInv'
  <2>1. \A y \in Adders : {c} \cap work[y] = {}
    BY <1>2 DEF BeginAdd
  <2> QED BY <1>2, <2>1, StartKeeps, OneRole DEF BeginAdd, Rows, Kinds
<1>3. ASSUME MaySweep(x) PROVE x \in Sweepers /\ \A y \in Sweepers : Over(y)
  BY <1>3 DEF MaySweep, Serial, Over
<1>4. ASSUME NEW S \in SUBSET Children, BeginSweep(x, S) PROVE IInv'
  BY <1>3, <1>4, StartKeeps, OneRole DEF BeginSweep, Rows, Kinds
<1>5. ASSUME BeginCancelTree(x) PROVE IInv'
  <2> DEFINE rows == {r \in Rows : IsOpen(row[r])}
  <2>1. Parent \notin rows => row[Parent] \notin OpenParent
    BY DEF IsOpen, Rows
  <2>2. MaySweep(x) /\ Start(x, "tree", rows, "end") /\ rows \in SUBSET Rows
    BY <1>5 DEF BeginCancelTree
  <2> HIDE DEF rows
  <2> QED BY <1>3, <2>1, <2>2, StartKeeps, OneRole DEF Kinds
<1> QED BY <1>1, <1>2, <1>4, <1>5

\* Holding the parent row's lock from here on is what a finisher and an adder rely on.
LEMMA LockParentKeeps ==
  ASSUME IInv, NEW x \in Txs, LockParent(x) PROVE IInv'
<1>1. /\ pc[x] = "lock" /\ ~Over(x) /\ x \notin Sweepers /\ Parent \in Rows
      /\ TypeOK /\ Roles(x) /\ Writes(x) /\ Ends(x) /\ Wakes(x) /\ Adds(x) /\ LocksInv
  BY DEF IInv, TxInv, Roles, LockParent, Over, Rows
<1>2. /\ lock' \in [Txs -> [Rows -> SUBSET Modes]] /\ Compatible(x)
      /\ lock'[x][Parent] = lock[x][Parent] \cup {"update"}
      /\ \A y \in Txs \ {x} : lock'[y] = lock[y]
  BY <1>1, TakesFreeLock DEF LockParent, Modes
<1>3. /\ row' = row /\ inbox' = inbox /\ kind' = kind /\ work' = work /\ write' = write
      /\ posted' = posted /\ pc' \in [Txs -> Steps]
      /\ pc'[x] = IF kind[x] = "add" THEN "insert" ELSE "end"
      /\ \A y \in Txs \ {x} : Same(y)
  BY <1>1, <1>2 DEF LockParent, Goto, Same, TypeOK, Steps
<1>4. TypeOK'
  BY <1>1, <1>2, <1>3 DEF TypeOK
<1>5. Local(x)
  BY <1>1, <1>2, <1>3 DEF Local, Alone, IInv, IdsInv
<1>6. /\ ~Over(x)' /\ write[x] = Unwritten /\ posted[x] = {}
      /\ EndedBy(x)' = {} /\ ~Added(x)' /\ \A r \in Rows : write[x][r] = "kept"
  <2>1. write[x] = Unwritten /\ posted[x] = {} /\ ~Over(x)'
    BY <1>1, <1>3 DEF Roles, Over
  <2>2. \A r \in Rows : write[x][r] = "kept"
    BY <2>1 DEF Unwritten
  <2> QED BY <1>3, <2>1, <2>2 DEF EndedBy, Added, Rows
<1>7. Roles(x)'
  BY <1>1, <1>2, <1>3, <1>6, OneRole DEF Roles, Ending, EndedBy
<1>8. Writes(x)'
  BY <1>1, <1>3, <1>6 DEF Writes, Rows
<1>9. Ends(x)'
  BY <1>1, <1>3, <1>6, OneRole DEF Ends, Ending, Roles
<1>10. Wakes(x)'
  BY <1>3 DEF Wakes
<1>11. Adds(x)'
  BY <1>1, <1>3, <1>6 DEF Adds
<1> QED BY <1>4, <1>5, <1>7, <1>8, <1>9, <1>10, <1>11, LocalKeeps DEF TxInv

LEMMA EndRowKeeps ==
  ASSUME IInv, NEW x \in Txs, NEW r \in Rows, EndRow(x, r) PROVE IInv'
<1>1. /\ pc[x] = "end" /\ r \in work[x] /\ ~Over(x) /\ Ending(x) /\ x \notin Adders /\ Parent \in Rows
      /\ TypeOK /\ Roles(x) /\ Writes(x) /\ Ends(x) /\ Wakes(x) /\ Adds(x) /\ LocksInv
  <2>1. pc[x] = "end" /\ r \in work[x] /\ ~Over(x) /\ TxInv(x) /\ Parent \in Rows
    BY DEF IInv, EndRow, Over, Rows
  <2>2. x \notin Adders
    BY <2>1 DEF TxInv, Roles
  <2> QED BY <2>1, <2>2 DEF IInv, TxInv, Ending, Txs
<1>2. /\ row' = row /\ inbox' = inbox /\ kind' = kind /\ posted' = posted
      /\ work' \in [Txs -> SUBSET Rows] /\ work'[x] = work[x] \ {r}
      /\ pc' \in [Txs -> Steps] /\ pc'[x] = IF work[x] = {r} THEN "post" ELSE "end"
      /\ \A y \in Txs \ {x} : work'[y] = work[y] /\ pc'[y] = pc[y]
  BY <1>1 DEF EndRow, Goto, TypeOK, Steps
<1>3. (pc'[x] = "post" => work'[x] = {}) /\ ~Over(x)'
  BY <1>2 DEF Over
<1>4. r = Parent => kind[x] = "tree"
  BY <1>1, OneRole, RowsAssumption DEF Roles, Ending
<1>5. CASE IsOpen(row[r])
  <2>1. Write(x, r, EndedStatus(r)) /\ Lock(x, r, "no key update") /\ Free(x, r, "no key update")
    BY <1>5 DEF EndRow
  <2>2. /\ lock' \in [Txs -> [Rows -> SUBSET Modes]] /\ Compatible(x)
        /\ lock'[x][r] = lock[x][r] \cup {"no key update"}
        /\ \A q \in Rows \ {r} : lock'[x][q] = lock[x][q]
        /\ \A y \in Txs \ {x} : lock'[y] = lock[y]
    BY <1>1, <2>1, TakesFreeLock DEF Modes
  <2>3. /\ write' \in [Txs -> [Rows -> ChildStatuses \cup ParentStatuses \cup {"kept"}]]
        /\ write'[x][r] = EndedStatus(r)
        /\ \A q \in Rows \ {r} : write'[x][q] = write[x][q]
        /\ \A y \in Txs \ {x} : write'[y] = write[y]
    BY <1>1, <2>1, WritesStatus DEF EndedStatus, ChildStatuses, ParentStatuses
  <2>4. TypeOK'
    BY <1>1, <1>2, <2>2, <2>3 DEF TypeOK
  <2>5. Local(x)
    BY <1>1, <1>2, <2>2, <2>3 DEF Local, Alone, Same, IInv, TurnsInv
  <2>6. /\ r = Parent => row[r] \in OpenParent /\ EndedStatus(r) = "cancelled"
        /\ r # Parent => r \in Children /\ row[r] = "open" /\ EndedStatus(r) = "ended"
    BY <1>1, <1>5 DEF TypeOK, IsOpen, EndedStatus, Rows, ParentStatuses, ChildStatuses, OpenParent
  <2>7. /\ EndedBy(x)' = IF r = Parent THEN EndedBy(x) ELSE EndedBy(x) \cup {r}
    BY <2>3, <2>6, RowsAssumption DEF EndedBy, Rows
  <2>8. \A q \in Rows : OwnsRow(x, q) \/ q = r => OwnsRow(x, q)'
    BY <2>2 DEF OwnsRow
  <2>9. Roles(x)'
    BY <1>1, <1>2, <1>3, <2>2, <2>6, <2>7, OneRole DEF Roles, Ending
  <2>10. Writes(x)'
    BY <1>1, <1>2, <2>3, <2>6, <2>8, RowsAssumption DEF Writes, Rows
  <2>11. Ends(x)'
    <3>1. write'[x][Parent] = IF r = Parent THEN "cancelled" ELSE write[x][Parent]
      BY <2>3, <2>6, <1>1
    <3>2. Parent \notin work'[x] /\ r # Parent => Parent \notin work[x]
      BY <1>2
    <3> QED BY <1>1, <1>2, <1>3, <1>4, <2>7, <3>1, <3>2 DEF Ends, Ending
  <2>12. Wakes(x)'
    BY <1>2 DEF Wakes
  <2>13. Adds(x)'
    BY <1>1 DEF Adds
  <2> QED BY <2>4, <2>5, <2>9, <2>10, <2>11, <2>12, <2>13, LocalKeeps DEF TxInv
<1>6. CASE ~IsOpen(row[r])
  <2>1. write' = write /\ lock' = lock
    BY <1>6 DEF EndRow
  <2>2. TypeOK'
    BY <1>1, <1>2, <2>1 DEF TypeOK
  <2>3. Local(x)
    <3>1. Compatible(x)
      BY <1>1, <2>1, KeepsLocks
    <3> QED BY <1>1, <1>2, <2>1, <3>1 DEF Local, Alone, Same, IInv, TurnsInv
  <2>4. EndedBy(x)' = EndedBy(x) /\ \A q \in Rows : OwnsRow(x, q)' <=> OwnsRow(x, q)
    BY <2>1 DEF EndedBy, OwnsRow
  <2>5. Roles(x)'
    BY <1>1, <1>2, <1>3, <2>1, <2>4, OneRole DEF Roles, Ending
  <2>6. Writes(x)'
    BY <1>1, <1>2, <2>1, <2>4 DEF Writes, Rows
  <2>7. Ends(x)'
    <3>1. r = Parent => row[Parent] \notin OpenParent
      BY <1>6 DEF IsOpen
    <3> QED BY <1>1, <1>2, <1>3, <2>1, <2>4, <3>1 DEF Ends, Ending
  <2>8. Wakes(x)'
    BY <1>2 DEF Wakes
  <2>9. Adds(x)'
    BY <1>1 DEF Adds
  <2> QED BY <2>2, <2>3, <2>5, <2>6, <2>7, <2>8, <2>9, LocalKeeps DEF TxInv
<1> QED BY <1>5, <1>6

\* A statement of an ending transaction that writes no status and takes no lock.
LEMMA QuietKeeps ==
  ASSUME IInv, NEW x \in Txs, NEW step \in Steps, Goto(x, step), UNCHANGED <<row, inbox, tx>>,
         TxInv(x)', x \in Sweepers => ~Over(x)
  PROVE  IInv'
<1>1. TypeOK'
  BY DEF IInv, TypeOK, Goto, tx
<1>2. Local(x)
  <2>1. Compatible(x)
    BY KeepsLocks DEF IInv, tx
  <2> QED BY <2>1 DEF Local, Alone, Same, Goto, IInv, TurnsInv, IdsInv, TypeOK, tx
<1> QED BY <1>1, <1>2, LocalKeeps

LEMMA PostKeeps ==
  ASSUME IInv, NEW x \in Txs, Post(x) PROVE IInv'
<1>1. /\ pc[x] = "post" /\ ~Over(x) /\ Ending(x) /\ x \notin Adders /\ TypeOK /\ Parent \in Rows
      /\ Roles(x) /\ Writes(x) /\ Ends(x) /\ Wakes(x) /\ Adds(x)
  <2>1. pc[x] = "post" /\ ~Over(x) /\ TxInv(x)
    BY DEF IInv, Post, Over
  <2>2. x \notin Adders
    BY <2>1 DEF TxInv, Roles
  <2> QED BY <2>1, <2>2 DEF IInv, TxInv, Ending, Txs, Rows
<1> DEFINE step == CASE EndedBy(x) = {} -> "commit"
                     [] EndedBy(x) # {} /\ View(x)[Parent] \in OpenParent -> "key"
                     [] OTHER -> "rollup"
<1>2. /\ Goto(x, step) /\ pc'[x] = step /\ step \in {"commit", "key", "rollup"}
      /\ kind' = kind /\ work' = work /\ write' = write /\ posted' = posted /\ lock' = lock
      /\ row' = row /\ inbox' = inbox
  BY <1>1 DEF Post, Goto, TypeOK, tx
<1>3. /\ EndedBy(x) = {} => step = "commit"
      /\ step = "commit" => EndedBy(x) = {}
      /\ step = "key" => View(x)[Parent] \in OpenParent
      /\ step = "rollup" => View(x)[Parent] \notin OpenParent
  OBVIOUS
<1>4. View(x)[Parent] = IF write[x][Parent] = "kept" THEN row[Parent] ELSE write[x][Parent]
  BY <1>1 DEF View
<1> HIDE DEF step
<1>5. EndedBy(x)' = EndedBy(x) /\ \A q \in Rows : OwnsRow(x, q)' <=> OwnsRow(x, q)
  BY <1>2 DEF EndedBy, OwnsRow
<1>6. Roles(x)'
  BY <1>1, <1>2, <1>5, OneRole DEF Roles, Ending, Over
<1>7. Writes(x)'
  BY <1>1, <1>2, <1>5 DEF Writes, Rows
<1>8. Ends(x)'
  BY <1>1, <1>2, <1>3, <1>4, <1>5, OneRole DEF Ends, Ending, Over, Roles, OpenParent
<1>9. Wakes(x)'
  BY <1>1, <1>2, <1>3, <1>5 DEF Wakes
<1>10. Adds(x)'
  BY <1>1 DEF Adds
<1> QED BY <1>1, <1>2, <1>6, <1>7, <1>8, <1>9, <1>10, QuietKeeps DEF TxInv, Post, Steps

LEMMA RollupKeeps ==
  ASSUME IInv, NEW x \in Txs, Rollup(x) PROVE IInv'
<1>1. /\ pc[x] = "rollup" /\ ~Over(x) /\ Ending(x) /\ x \notin Adders /\ TypeOK /\ Parent \in Rows
      /\ Roles(x) /\ Writes(x) /\ Ends(x) /\ Wakes(x) /\ Adds(x) /\ EndedBy(x) # {}
  <2>1. pc[x] = "rollup" /\ ~Over(x) /\ TxInv(x)
    BY DEF IInv, Rollup, Over
  <2>2. x \notin Adders
    BY <2>1 DEF TxInv, Roles
  <2> QED BY <2>1, <2>2 DEF IInv, TxInv, Ending, Txs, Rows, Ends
<1> DEFINE step == IF RollsUp(x) THEN "wake" ELSE "commit"
<1>2. /\ Goto(x, step) /\ pc'[x] = step
      /\ kind' = kind /\ work' = work /\ write' = write /\ posted' = posted /\ lock' = lock
      /\ row' = row /\ inbox' = inbox
  BY <1>1 DEF Rollup, Goto, TypeOK, tx
<1>3. View(x)[Parent] = IF write[x][Parent] = "kept" THEN row[Parent] ELSE write[x][Parent]
  BY <1>1 DEF View
<1>4. /\ EndedBy(x)' = EndedBy(x) /\ View(x)' = View(x) /\ OpenIn(View(x))' = OpenIn(View(x))
      /\ \A q \in Rows : OwnsRow(x, q)' <=> OwnsRow(x, q)
  BY <1>2 DEF EndedBy, OwnsRow, View, OpenIn
<1>5. Roles(x)'
  BY <1>1, <1>2, <1>4, OneRole DEF Roles, Ending, Over
<1>6. Writes(x)'
  BY <1>1, <1>2, <1>4 DEF Writes, Rows
<1>7. Ends(x)' /\ Wakes(x)'
  <2>1. CASE kind[x] = "tree"
    <3>1. step = "commit"
      <4>1. work[x] = {}
        BY <1>1 DEF Roles
      <4> QED BY <1>1, <1>3, <2>1, <4>1 DEF Ends, RollsUp, OpenParent
    <3> QED BY <1>1, <1>2, <1>4, <2>1, <3>1 DEF Ends, Wakes, Ending, Over
  <2>2. CASE kind[x] # "tree"
    <3>1. write[x][Parent] = "kept" /\ View(x)[Parent] = row[Parent]
      BY <1>1, <1>3, <2>2 DEF Ends
    <3>2. Ends(x)'
      BY <1>1, <1>2, <1>4, <2>2, <3>1 DEF Ends, Ending, Over
    <3>3. Wakes(x)'
      BY <1>1, <1>2, <1>4, <2>2, <3>1 DEF Wakes, RollsUp
    <3> QED BY <3>2, <3>3
  <2> QED BY <2>1, <2>2
<1>8. Adds(x)'
  BY <1>1 DEF Adds
<1> QED BY <1>1, <1>2, <1>5, <1>6, <1>7, <1>8, QuietKeeps DEF TxInv, Rollup, Steps

LEMMA PostKeyKeeps ==
  ASSUME IInv, NEW x \in Txs, PostKey(x) PROVE IInv'
<1>1. /\ pc[x] = "key" /\ ~Over(x) /\ Ending(x) /\ x \notin Adders /\ TypeOK /\ Parent \in Rows
      /\ Roles(x) /\ Writes(x) /\ Ends(x) /\ Wakes(x) /\ Adds(x) /\ LocksInv
      /\ EndedBy(x) # {} /\ kind[x] # "tree"
  <2>1. pc[x] = "key" /\ ~Over(x) /\ TxInv(x)
    BY DEF IInv, PostKey, Over
  <2>2. x \notin Adders
    BY <2>1 DEF TxInv, Roles
  <2> QED BY <2>1, <2>2 DEF IInv, TxInv, Ending, Txs, Rows, Ends
<1>2. /\ lock' \in [Txs -> [Rows -> SUBSET Modes]] /\ Compatible(x)
      /\ lock'[x][Parent] = lock[x][Parent] \cup {"key share"}
      /\ \A q \in Rows \ {Parent} : lock'[x][q] = lock[x][q]
      /\ \A y \in Txs \ {x} : lock'[y] = lock[y]
  BY <1>1, TakesFreeLock DEF PostKey, Modes
<1>3. /\ row' = row /\ inbox' = inbox /\ kind' = kind /\ work' = work /\ write' = write
      /\ posted' \in [Txs -> SUBSET Children] /\ posted'[x] = EndedBy(x)
      /\ pc' \in [Txs -> Steps] /\ pc'[x] = "rollup"
      /\ \A y \in Txs \ {x} : Same(y)
  BY <1>1, <1>2 DEF PostKey, Goto, Same, TypeOK, Steps, EndedBy
<1>4. TypeOK'
  BY <1>1, <1>2, <1>3 DEF TypeOK
<1>5. Local(x)
  BY <1>1, <1>2, <1>3 DEF Local, Alone, IInv, TurnsInv
<1>6. /\ EndedBy(x)' = EndedBy(x) /\ \A q \in Rows : OwnsRow(x, q) => OwnsRow(x, q)'
  BY <1>2, <1>3 DEF EndedBy, OwnsRow
<1>7. Roles(x)'
  BY <1>1, <1>2, <1>3, <1>6, OneRole DEF Roles, Ending, Over
<1>8. Writes(x)'
  BY <1>1, <1>3, <1>6 DEF Writes, Rows
<1>9. Ends(x)'
  BY <1>1, <1>2, <1>3, <1>6 DEF Ends, Ending, Over
<1>10. Wakes(x)'
  BY <1>3 DEF Wakes
<1>11. Adds(x)'
  BY <1>1 DEF Adds
<1> QED BY <1>4, <1>5, <1>7, <1>8, <1>9, <1>10, <1>11, LocalKeeps DEF TxInv

\* Nobody else can have ended a sibling or woken the parent while this one waited.
LEMMA WakeKeeps ==
  ASSUME IInv, NEW x \in Txs, Wake(x) PROVE IInv'
<1>1. /\ pc[x] = "wake" /\ ~Over(x) /\ Ending(x) /\ x \notin Adders /\ TypeOK /\ Parent \in Rows
      /\ Roles(x) /\ Writes(x) /\ Ends(x) /\ Wakes(x) /\ Adds(x) /\ LocksInv
      /\ EndedBy(x) # {} /\ kind[x] # "tree" /\ write[x][Parent] = "kept"
      /\ row[Parent] = "waiting-children"
  <2>1. pc[x] = "wake" /\ ~Over(x) /\ TxInv(x)
    BY DEF IInv, Wake, Over
  <2>2. x \notin Adders
    BY <2>1 DEF TxInv, Roles
  <2> QED BY <2>1, <2>2 DEF IInv, TxInv, Ending, Txs, Rows, Ends, Wakes
<1> DEFINE st == IF kind[x] = "fail_parent" THEN "failed" ELSE "waiting"
<1>2. Write(x, Parent, st) /\ Lock(x, Parent, "no key update") /\ Free(x, Parent, "no key update")
  BY <1>1 DEF Wake, View
<1>3. /\ lock' \in [Txs -> [Rows -> SUBSET Modes]] /\ Compatible(x)
      /\ lock'[x][Parent] = lock[x][Parent] \cup {"no key update"}
      /\ \A q \in Rows \ {Parent} : lock'[x][q] = lock[x][q]
      /\ \A y \in Txs \ {x} : lock'[y] = lock[y]
  BY <1>1, <1>2, TakesFreeLock DEF Modes
<1>4. /\ write' \in [Txs -> [Rows -> ChildStatuses \cup ParentStatuses \cup {"kept"}]]
      /\ write'[x][Parent] = st
      /\ \A q \in Rows \ {Parent} : write'[x][q] = write[x][q]
      /\ \A y \in Txs \ {x} : write'[y] = write[y]
  BY <1>1, <1>2, WritesStatus DEF ParentStatuses
<1>5. /\ row' = row /\ inbox' = inbox /\ kind' = kind /\ work' = work /\ posted' = posted
      /\ pc' \in [Txs -> Steps] /\ pc'[x] = "commit"
      /\ \A y \in Txs \ {x} : Same(y)
  BY <1>1, <1>3, <1>4 DEF Wake, Goto, Same, TypeOK, Steps
<1>6. TypeOK'
  BY <1>1, <1>3, <1>4, <1>5 DEF TypeOK
<1>7. Local(x)
  BY <1>1, <1>3, <1>5 DEF Local, Alone, IInv, TurnsInv
<1>8. /\ EndedBy(x)' = EndedBy(x)
      /\ \A q \in Rows : OwnsRow(x, q) \/ q = Parent => OwnsRow(x, q)'
      /\ \A c \in Children : View(x)'[c] = View(x)[c]
  <2>1. \A c \in Children : c \in Rows /\ c # Parent
    BY RowsAssumption DEF Rows
  <2> QED BY <1>3, <1>4, <1>5, <2>1 DEF EndedBy, OwnsRow, View
<1>9. OpenIn(View(x)') = OpenIn(View(x)) /\ OpenIn(View(x))' = OpenIn(View(x)')
  BY <1>8 DEF OpenIn
<1>10. Roles(x)'
  BY <1>1, <1>3, <1>5, <1>8, OneRole DEF Roles, Ending, Over
<1>11. Writes(x)'
  BY <1>1, <1>4, <1>5, <1>8, RowsAssumption DEF Writes, Rows, OpenParent
<1>12. Ends(x)'
  BY <1>1, <1>3, <1>5, <1>8 DEF Ends, Ending, Over
<1>13. Wakes(x)'
  BY <1>1, <1>4, <1>5, <1>8, <1>9 DEF Wakes
<1>14. Adds(x)'
  BY <1>1 DEF Adds
<1> QED BY <1>6, <1>7, <1>10, <1>11, <1>12, <1>13, <1>14, LocalKeeps DEF TxInv

\* The children an adder counts are those it will find committed.
LEMMA InsertKeeps ==
  ASSUME IInv, NEW x \in Txs, Insert(x) PROVE IInv'
<1>1. /\ pc[x] = "insert" /\ ~Over(x) /\ x \in Adders /\ ~Ending(x) /\ TypeOK /\ Parent \in Rows
      /\ Roles(x) /\ Writes(x) /\ Adds(x) /\ LocksInv /\ x \notin Sweepers /\ x \notin Finishers
      /\ write[x] = Unwritten
  <2>1. pc[x] = "insert" /\ ~Over(x) /\ TxInv(x)
    BY DEF IInv, Insert, Over
  <2>2. x \in Adders
    BY <2>1, OneRole DEF TxInv, Roles
  <2> QED BY <2>1, <2>2, OneRole DEF IInv, TxInv, Ending, Rows, Adds
<1>2. PICK c \in Children : work[x] = {c}
  BY <1>1 DEF Roles
<1>3. /\ row' = row /\ inbox' = inbox /\ kind' = kind /\ work' = work /\ posted' = posted
      /\ lock' = lock
  BY DEF Insert
<1>4. View(x) = row /\ \A r \in Rows : write[x][r] = "kept"
  <2>1. \A r \in Rows : write[x][r] = "kept"
    BY <1>1 DEF Unwritten
  <2>2. row = [r \in Rows |-> row[r]]
    BY <1>1 DEF TypeOK
  <2> QED BY <2>1, <2>2 DEF View
<1>5. c \in Rows /\ c # Parent /\ \A d \in Children : d \in Rows /\ d # Parent
  BY RowsAssumption DEF Rows
<1>6. \A q \in Rows : OwnsRow(x, q)' <=> OwnsRow(x, q)
  BY <1>3 DEF OwnsRow
<1>7. Compatible(x)
  BY <1>1, <1>3, KeepsLocks
<1>8. CASE Cardinality(OpenIn(View(x))) < Cap
  <2>1. /\ write' = [write EXCEPT ![x] = [r \in Rows |-> IF r \in work[x] THEN "open" ELSE write[x][r]]]
        /\ Goto(x, "flip")
    BY <1>8 DEF Insert
  <2>2. [r \in Rows |-> IF r \in work[x] THEN "open" ELSE write[x][r]]
          \in [Rows -> ChildStatuses \cup ParentStatuses \cup {"kept"}]
    BY <1>1 DEF TypeOK, ChildStatuses
  <2>3. /\ write' \in [Txs -> [Rows -> ChildStatuses \cup ParentStatuses \cup {"kept"}]]
        /\ \A r \in Rows : write'[x][r] = IF r = c THEN "open" ELSE "kept"
        /\ pc' \in [Txs -> Steps] /\ pc'[x] = "flip"
        /\ \A y \in Txs \ {x} : Same(y)
    BY <1>1, <1>2, <1>3, <1>4, <2>1, <2>2 DEF TypeOK, Goto, Same, Steps
  <2>4. TypeOK'
    BY <1>1, <1>3, <2>3 DEF TypeOK
  <2>5. Local(x)
    BY <1>1, <1>3, <1>7, <2>3 DEF Local, Alone, IInv, IdsInv
  <2>6. Added(x)'
    BY <1>5, <2>3 DEF Added
  <2>7. Roles(x)'
    BY <1>1, <1>2, <1>3, <2>3 DEF Roles, Over, Ending
  <2>8. Writes(x)'
    BY <1>1, <1>2, <1>3, <1>5, <1>6, <2>3 DEF Writes
  <2>9. Adds(x)'
    <3>1. OpenIn(row)' = OpenIn(row)
      BY <1>3 DEF OpenIn
    <3>2. \A d \in work'[x] : write'[x][d] = "open"
      BY <1>2, <1>3, <1>5, <2>3
    <3>3. write'[x][Parent] = "kept"
      BY <1>1, <1>5, <2>3
    <3> QED BY <1>4, <1>8, <2>3, <2>6, <3>1, <3>2, <3>3 DEF Adds
  <2>10. Ends(x)' /\ Wakes(x)'
    BY <1>1 DEF Ends, Wakes, Ending
  <2> QED BY <2>4, <2>5, <2>7, <2>8, <2>9, <2>10, LocalKeeps DEF TxInv
<1>9. CASE ~(Cardinality(OpenIn(View(x))) < Cap)
  <2>1. write' = write /\ Goto(x, "commit")
    BY <1>9 DEF Insert
  <2>2. /\ pc' \in [Txs -> Steps] /\ pc'[x] = "commit"
        /\ \A y \in Txs \ {x} : Same(y)
    BY <1>1, <1>3, <2>1 DEF TypeOK, Goto, Same, Steps
  <2>3. TypeOK'
    BY <1>1, <1>3, <2>1, <2>2 DEF TypeOK
  <2>4. Local(x)
    BY <1>1, <1>3, <1>7, <2>2 DEF Local, Alone, IInv, IdsInv
  <2>5. ~Added(x)'
    BY <1>4, <1>5, <2>1 DEF Added
  <2>6. Roles(x)'
    BY <1>1, <1>2, <1>3, <2>1, <2>2 DEF Roles, Over, Ending
  <2>7. Writes(x)'
    BY <1>1, <1>3, <1>6, <2>1, <2>2 DEF Writes
  <2>8. Adds(x)'
    BY <1>3, <1>4, <1>1, <2>1, <2>2, <2>5 DEF Adds
  <2>9. Ends(x)' /\ Wakes(x)'
    BY <1>1 DEF Ends, Wakes, Ending
  <2> QED BY <2>3, <2>4, <2>6, <2>7, <2>8, <2>9, LocalKeeps DEF TxInv
<1> QED BY <1>8, <1>9

LEMMA FlipKeeps ==
  ASSUME IInv, NEW x \in Txs, Flip(x) PROVE IInv'
<1>1. /\ pc[x] = "flip" /\ ~Over(x) /\ x \in Adders /\ ~Ending(x) /\ TypeOK /\ Parent \in Rows
      /\ Roles(x) /\ Writes(x) /\ Adds(x) /\ LocksInv /\ x \notin Sweepers /\ x \notin Finishers
      /\ write[x][Parent] = "kept" /\ Added(x)
  <2>1. pc[x] = "flip" /\ ~Over(x) /\ TxInv(x)
    BY DEF IInv, Flip, Over
  <2>2. x \in Adders
    BY <2>1, OneRole DEF TxInv, Roles
  <2> QED BY <2>1, <2>2, OneRole DEF IInv, TxInv, Ending, Rows, Adds
<1>2. /\ row' = row /\ inbox' = inbox /\ kind' = kind /\ work' = work /\ posted' = posted
      /\ pc' \in [Txs -> Steps] /\ pc'[x] = "commit"
      /\ \A y \in Txs \ {x} : pc'[y] = pc[y]
  BY <1>1 DEF Flip, Goto, TypeOK, Steps
<1>3. View(x)[Parent] = row[Parent]
  BY <1>1 DEF View
<1>4. \A c \in Children : c \in Rows /\ c # Parent
  BY RowsAssumption DEF Rows
<1>5. CASE row[Parent] \in {"waiting", "active"}
  <2>1. Write(x, Parent, "waiting-children") /\ Lock(x, Parent, "no key update")
    BY <1>3, <1>5 DEF Flip
  <2>2. "update" \in lock[x][Parent]
    BY <1>1 DEF Roles, Over
  <2>3. Free(x, Parent, "no key update")
    <3> SUFFICES ASSUME NEW y \in Txs \ {x} PROVE lock[y][Parent] = {}
      BY DEF Free
    <3> QED BY <1>1, <2>2 DEF LocksInv
  <2>4. /\ lock' \in [Txs -> [Rows -> SUBSET Modes]] /\ Compatible(x)
        /\ lock'[x][Parent] = lock[x][Parent] \cup {"no key update"}
        /\ \A q \in Rows \ {Parent} : lock'[x][q] = lock[x][q]
        /\ \A y \in Txs \ {x} : lock'[y] = lock[y]
    BY <1>1, <2>1, <2>3, TakesFreeLock DEF Modes
  <2>5. /\ write' \in [Txs -> [Rows -> ChildStatuses \cup ParentStatuses \cup {"kept"}]]
        /\ write'[x][Parent] = "waiting-children"
        /\ \A q \in Rows \ {Parent} : write'[x][q] = write[x][q]
        /\ \A y \in Txs \ {x} : write'[y] = write[y]
    BY <1>1, <2>1, WritesStatus DEF ParentStatuses
  <2>6. TypeOK'
    BY <1>1, <1>2, <2>4, <2>5 DEF TypeOK
  <2>7. Local(x)
    BY <1>1, <1>2, <2>4, <2>5 DEF Local, Alone, Same, IInv, IdsInv
  <2>8. Added(x)' /\ \A q \in Rows : OwnsRow(x, q) \/ q = Parent => OwnsRow(x, q)'
    BY <1>1, <1>4, <2>4, <2>5 DEF Added, OwnsRow
  <2>9. Roles(x)'
    BY <1>1, <1>2, <2>4 DEF Roles, Over, Ending
  <2>10. Writes(x)'
    BY <1>1, <1>2, <1>4, <1>5, <2>5, <2>8 DEF Writes, OpenParent
  <2>11. Adds(x)'
    <3>1. OpenIn(row)' = OpenIn(row)
      BY <1>2 DEF OpenIn
    <3>2. \A c \in work[x] : c \in Children
      BY <1>1 DEF Roles
    <3> QED BY <1>1, <1>2, <1>4, <1>5, <2>5, <2>8, <3>1, <3>2 DEF Adds
  <2>12. Ends(x)' /\ Wakes(x)'
    BY <1>1 DEF Ends, Wakes, Ending
  <2> QED BY <2>6, <2>7, <2>9, <2>10, <2>11, <2>12, LocalKeeps DEF TxInv
<1>6. CASE row[Parent] \notin {"waiting", "active"}
  <2>1. write' = write /\ lock' = lock
    BY <1>3, <1>6 DEF Flip
  <2>2. TypeOK'
    BY <1>1, <1>2, <2>1 DEF TypeOK
  <2>3. Local(x)
    <3>1. Compatible(x)
      BY <1>1, <2>1, KeepsLocks
    <3> QED BY <1>1, <1>2, <2>1, <3>1 DEF Local, Alone, Same, IInv, IdsInv
  <2>4. (Added(x)' <=> Added(x)) /\ \A q \in Rows : OwnsRow(x, q)' <=> OwnsRow(x, q)
    BY <2>1 DEF Added, OwnsRow
  <2>5. Roles(x)'
    BY <1>1, <1>2, <2>1 DEF Roles, Over, Ending
  <2>6. Writes(x)'
    BY <1>1, <1>2, <2>1, <2>4 DEF Writes, Rows
  <2>7. Adds(x)'
    <3>1. OpenIn(row)' = OpenIn(row)
      BY <1>2 DEF OpenIn
    <3> QED BY <1>1, <1>2, <1>6, <2>1, <2>4, <3>1 DEF Adds
  <2>8. Ends(x)' /\ Wakes(x)'
    BY <1>1 DEF Ends, Wakes, Ending
  <2> QED BY <2>2, <2>3, <2>5, <2>6, <2>7, <2>8, LocalKeeps DEF TxInv
<1> QED BY <1>5, <1>6

-----------------------------------------------------------------------------
\* The steps that change the rows.

\* What a transaction relies on survives a change of the rows that leaves alone
\* what it has written and, while it holds the parent row, the parent and the
\* children, unless the parent had ended before.
LEMMA OthersKeep ==
  ASSUME TypeOK, TypeOK', NEW y \in Txs, TxInv(y), Same(y),
         \A c \in Children : write[y][c] = "ended" => row'[c] = row[c],
         y \in Adders => \A c \in work[y] : row'[c] = row[c],
         row[Parent] \notin OpenParent => row'[Parent] \notin OpenParent,
         lock[y][Parent] # {} =>
           \/ row' = row
           \/ row[Parent] \notin OpenParent /\ OpenIn(row') \subseteq OpenIn(row)
           \/ ~OwnsRow(y, Parent) /\ "waiting-children" \notin {row[Parent], row'[Parent]}
  PROVE  TxInv(y)'
<1>1. CASE row' = row
  BY <1>1, SameKeeps
<1>2. CASE \/ lock[y][Parent] = {} \/ row[Parent] \notin OpenParent
           \/ ~OwnsRow(y, Parent) /\ "waiting-children" \notin {row[Parent], row'[Parent]}
  <2>1. /\ Roles(y) /\ Writes(y) /\ Ends(y) /\ Wakes(y) /\ Adds(y) /\ Parent \in Rows
        /\ write[y][Parent] = "kept"
        /\ \A c \in Children : c \in Rows
    <3>1. OwnsRow(y, Parent) => lock[y][Parent] # {}
      BY DEF OwnsRow
    <3> QED BY <1>2, <3>1 DEF TxInv, Writes, Rows
  <2>2. EndedBy(y)' = EndedBy(y) /\ (Over(y)' <=> Over(y)) /\ (Added(y)' <=> Added(y))
        /\ (\A r \in Rows : OwnsRow(y, r)' <=> OwnsRow(y, r))
    BY DEF Same, EndedBy, Over, Added, OwnsRow
  <2>3. y \notin Sweepers /\ pc[y] \notin {"idle", "done", "lock"} =>
          lock[y][Parent] # {} /\ OwnsRow(y, Parent) /\ row[Parent] \notin OpenParent
    BY <1>2, <2>1 DEF Roles, OwnsRow
  <2>4. Roles(y)'
    BY <2>1, <2>2 DEF Same, Roles
  <2>5. Writes(y)'
    <3>1. y \in Adders => work[y] \subseteq Children
      BY <2>1 DEF Roles, Over
    <3> QED BY <2>1, <2>2, <3>1 DEF Same, Writes
  <2>6. Ends(y)'
    BY <2>1, <2>2 DEF Same, Ends, Ending
  <2>7. Wakes(y)'
    <3>1. Ending(y) /\ pc[y] \in {"wake", "commit"} /\ EndedBy(y) # {} /\ kind[y] # "tree" =>
            row[Parent] # "waiting-children" /\ row'[Parent] # "waiting-children"
      BY <1>2, <2>1 DEF Ends, Over, OpenParent
    <3>2. Ending(y) => pc[y] # "wake"
      BY <2>1, <3>1 DEF Ends, Wakes, Over
    <3> QED BY <2>1, <2>2, <3>1, <3>2 DEF Same, Wakes, Ending
  <2>8. Adds(y)'
    <3> SUFFICES ASSUME y \in Adders PROVE Adds(y)'
      BY DEF Adds
    <3>1. Added(y) => lock[y][Parent] # {} /\ OwnsRow(y, Parent) /\ row[Parent] \notin OpenParent
      <4>1. Added(y) => pc[y] \notin {"idle", "done", "lock"}
        BY <2>1 DEF Roles, Added, Unwritten, Over
      <4> QED BY <2>3, <4>1, OneRole
    <3>2. Added(y) => Cardinality(OpenIn(row')) < Cap
      <4> SUFFICES ASSUME Added(y) PROVE Cardinality(OpenIn(row')) < Cap
        OBVIOUS
      <4>1. Cardinality(OpenIn(row)) < Cap /\ OpenIn(row') \subseteq OpenIn(row)
        BY <2>1, <3>1 DEF Adds
      <4>2. IsFiniteSet(OpenIn(row))
        BY FS_Subset, RowsAssumption DEF OpenIn
      <4> QED BY <4>1, <4>2, FS_Subset, FS_CardinalityType, CapAssumption
    <3>3. OpenIn(row)' = OpenIn(row')
      BY DEF OpenIn
    <3>4. Added(y) => row[Parent] \notin {"waiting", "active"} /\ row'[Parent] \notin {"waiting", "active"}
      BY <3>1 DEF OpenParent
    <3> QED BY <2>1, <2>2, <3>2, <3>3, <3>4 DEF Same, Adds
  <2> QED BY <2>4, <2>5, <2>6, <2>7, <2>8 DEF TxInv
<1> QED BY <1>1, <1>2

\* A transaction that is over relies on nothing.
LEMMA ReleaseKeeps ==
  ASSUME TypeOK, NEW x \in Txs, Release(x), LocksInv PROVE TxInv(x)' /\ Alone(x)
<1>1. /\ pc'[x] = "done" /\ work'[x] = {} /\ write'[x] = Unwritten /\ lock'[x] = Unlocked
      /\ posted'[x] = {} /\ Over(x)' /\ \A y \in Txs \ {x} : Same(y)
  BY DEF TypeOK, Release, Goto, Over, Same
<1>2. \A r \in Rows : write'[x][r] = "kept"
  BY <1>1 DEF Unwritten
<1>3. ~Added(x)' /\ EndedBy(x)' = {}
  BY <1>2 DEF Added, EndedBy, Rows
<1>4. TxInv(x)'
  <2>1. Roles(x)'
    BY <1>1 DEF Roles
  <2>2. Writes(x)'
    BY <1>1, <1>2 DEF Writes, Rows
  <2>3. Ends(x)'
    BY <1>1 DEF Ends
  <2>4. Wakes(x)'
    BY <1>1 DEF Wakes
  <2>5. Adds(x)'
    BY <1>1, <1>3 DEF Adds
  <2> QED BY <2>1, <2>2, <2>3, <2>4, <2>5 DEF TxInv
<1>5. Compatible(x)
  BY <1>1, KeepsLocks
<1> QED BY <1>1, <1>4, <1>5 DEF Alone

LEMMA ReleaseTypes ==
  ASSUME TypeOK, NEW x \in Txs, Release(x)
  PROVE  /\ pc' \in [Txs -> Steps] /\ kind' \in [Txs -> Kinds] /\ work' \in [Txs -> SUBSET Rows]
         /\ write' \in [Txs -> [Rows -> ChildStatuses \cup ParentStatuses \cup {"kept"}]]
         /\ posted' \in [Txs -> SUBSET Children] /\ lock' \in [Txs -> [Rows -> SUBSET Modes]]
<1>1. /\ Unwritten \in [Rows -> ChildStatuses \cup ParentStatuses \cup {"kept"}]
      /\ Unlocked \in [Rows -> SUBSET Modes]
  BY DEF Unwritten, Unlocked
<1> QED BY <1>1 DEF TypeOK, Release, Goto, Steps, Kinds

LEMMA RollbackKeeps ==
  ASSUME IInv, NEW x \in Txs, Rollback(x) PROVE IInv'
<1>1. TypeOK /\ LocksInv /\ Release(x) /\ UNCHANGED <<row, inbox>>
  BY DEF IInv, Rollback
<1>2. TypeOK'
  BY <1>1, ReleaseTypes DEF TypeOK
<1>3. Local(x) /\ TxInv(x)'
  BY <1>1, ReleaseKeeps DEF Local
<1> QED BY <1>2, <1>3, LocalKeeps

\* What a commit does to the rows.
LEMMA CommitWrites ==
  ASSUME IInv, NEW x \in Txs, Commit(x)
  PROVE  /\ TypeOK'
         /\ row'[Parent] = IF write[x][Parent] = "kept" THEN row[Parent] ELSE write[x][Parent]
         /\ row[Parent] \notin OpenParent => write[x][Parent] = "kept"
         /\ x \notin Adders => \A c \in Children :
              row'[c] = IF c \in EndedBy(x) THEN "ended" ELSE row[c]
         /\ x \notin Adders => EndedBy(x) \subseteq OpenIn(row)
         /\ x \in Adders => \A c \in Children :
              row'[c] = IF write[x][c] = "open" THEN "open" ELSE row[c]
<1>1. TypeOK /\ Writes(x) /\ pc[x] = "commit" /\ row' = View(x) /\ Release(x) /\ Parent \in Rows
      /\ inbox' = inbox \cup posted[x]
  BY DEF IInv, TxInv, Commit, Rows
<1>2. \A r \in Rows : row'[r] = IF write[x][r] = "kept" THEN row[r] ELSE write[x][r]
  BY <1>1 DEF View
<1>3. /\ x \notin Adders => \A c \in Children :
            row'[c] = IF c \in EndedBy(x) THEN "ended" ELSE row[c]
      /\ x \notin Adders => EndedBy(x) \subseteq OpenIn(row)
      /\ x \in Adders => \A c \in Children :
            row'[c] = IF write[x][c] = "open" THEN "open" ELSE row[c]
  BY <1>1, <1>2 DEF EndedBy, OpenIn, Writes, Rows
<1>4. row[Parent] \notin OpenParent => write[x][Parent] = "kept"
  BY <1>1 DEF Writes
<1>5. \A c \in Children : row'[c] \in ChildStatuses
  BY <1>1, <1>3 DEF TypeOK, ChildStatuses
<1>6. row'[Parent] \in ParentStatuses
  <2>1. Roles(x) /\ Ends(x) /\ Wakes(x) /\ Adds(x) /\ ~Over(x)
    BY <1>1 DEF IInv, TxInv, Over
  <2>2. write[x][Parent] \in {"kept", "cancelled", "waiting", "failed", "waiting-children"}
    <3>1. CASE x \in Adders
      BY <1>1, <2>1, <3>1 DEF Adds
    <3>2. CASE x \notin Adders
      BY <1>1, <2>1, <3>2, OneRole DEF Roles, Ends, Wakes, Ending
    <3> QED BY <3>1, <3>2
  <2> QED BY <1>1, <1>2, <2>2 DEF TypeOK, ParentStatuses
<1>7. row' = [r \in Rows |-> row'[r]] /\ \A r \in Rows : row'[r] \in ChildStatuses \cup ParentStatuses
  <2>1. row' = [r \in Rows |-> row'[r]]
    BY <1>1 DEF View
  <2> QED BY <2>1, <1>5, <1>6 DEF Rows
<1>8. TypeOK'
  <2>1. inbox' \subseteq Children
    BY <1>1 DEF TypeOK
  <2> QED BY <1>1, <1>5, <1>6, <1>7, <2>1, ReleaseTypes DEF TypeOK
<1> QED BY <1>1, <1>2, <1>3, <1>4, <1>8

\* A transaction that commits without a lock on the parent row changes neither the
\* parent nor, while the parent is open, any child.
LEMMA CommitUnlocked ==
  ASSUME IInv, NEW x \in Txs, Commit(x), lock[x][Parent] = {}
  PROVE  \/ row' = row
         \/ row[Parent] \notin OpenParent /\ OpenIn(row') \subseteq OpenIn(row)
<1>1. TypeOK /\ TxInv(x) /\ pc[x] = "commit" /\ ~Over(x) /\ Parent \in Rows
  BY DEF IInv, Commit, Over, Rows
<1>2. x \in Sweepers /\ x \notin Adders /\ Ending(x)
  BY <1>1, OneRole DEF TxInv, Roles, Ending
<1>3. write[x][Parent] = "kept"
  BY <1>1 DEF TxInv, Writes, OwnsRow
<1>4. CASE row[Parent] \in OpenParent
  <2>1. kind[x] = "end" /\ EndedBy(x) = {}
    BY <1>1, <1>2, <1>3, <1>4 DEF TxInv, Roles, Ends
  <2>2. \A r \in Rows : row'[r] = row[r]
    BY <1>2, <1>3, <2>1, CommitWrites DEF Rows
  <2>3. row' \in [Rows -> ChildStatuses \cup ParentStatuses] /\ row \in [Rows -> ChildStatuses \cup ParentStatuses]
    BY <1>1, CommitWrites DEF TypeOK
  <2> QED BY <2>2, <2>3
<1>5. CASE row[Parent] \notin OpenParent
  BY <1>2, <1>5, CommitWrites DEF OpenIn
<1> QED BY <1>4, <1>5

LEMMA CommitSpares ==
  ASSUME IInv, NEW x \in Txs, Commit(x), NEW y \in Txs \ {x} PROVE TxInv(y)'
<1>1. TypeOK /\ LocksInv /\ IdsInv /\ TxInv(x) /\ TxInv(y) /\ Same(y) /\ TypeOK' /\ Parent \in Rows
  BY CommitWrites, ReleaseKeeps DEF IInv, Commit, Alone, Rows
<1>2. ASSUME NEW c \in Children, write[y][c] = "ended" PROVE row'[c] = row[c]
  <2>1. row[c] = "open" /\ OwnsRow(y, c) /\ c \in Rows
    BY <1>1, <1>2, OneRole DEF TxInv, Writes, Rows
  <2>2. CASE x \in Adders
    BY <1>1, <2>1, <2>2, CommitWrites DEF TxInv, Writes
  <2>3. CASE x \notin Adders
    <3>1. write[x][c] = "ended" => OwnsRow(x, c)
      BY <1>1, <2>3 DEF TxInv, Writes
    <3>2. ~(OwnsRow(x, c) /\ OwnsRow(y, c))
      BY <1>1, <2>1 DEF LocksInv, OwnsRow
    <3> QED BY <2>1, <2>3, <3>1, <3>2, CommitWrites DEF EndedBy
  <2> QED BY <2>2, <2>3
<1>3. ASSUME y \in Adders, NEW c \in work[y] PROVE row'[c] = row[c]
  <2>1. c \in Children /\ row[c] = "none"
    BY <1>1, <1>3 DEF TxInv, Roles, Writes
  <2>2. CASE x \in Adders
    <3>1. c \notin work[x]
      BY <1>1, <1>3, <2>2 DEF IdsInv
    <3> QED BY <1>1, <2>1, <2>2, <3>1, CommitWrites DEF TxInv, Writes
  <2>3. CASE x \notin Adders
    BY <2>1, <2>3, CommitWrites DEF OpenIn
  <2> QED BY <2>2, <2>3
<1>4. row[Parent] \notin OpenParent => row'[Parent] \notin OpenParent
  BY CommitWrites
<1>5. ASSUME lock[y][Parent] # {}
      PROVE  row' = row \/ (row[Parent] \notin OpenParent /\ OpenIn(row') \subseteq OpenIn(row))
  BY <1>5, OneHolds, CommitUnlocked
<1> QED BY <1>1, <1>2, <1>3, <1>4, <1>5, OthersKeep

-----------------------------------------------------------------------------
\* Every step is one of AtomicRollup, or changes nothing it can see.

LEMMA SameCardinality ==
  ASSUME NEW S PROVE Committed!Cardinality(S) = Cardinality(S)
BY DEF Committed!Cardinality, Cardinality

LEMMA SameToAbstract ==
  ASSUME row' = row, inbox' = inbox PROVE UNCHANGED Committed!vars
BY DEF Committed!vars

LEMMA CommitImplements ==
  ASSUME IInv, NEW x \in Txs, Commit(x)
  PROVE  Committed!Next \/ UNCHANGED Committed!vars
<1> DEFINE child == [c \in Children |-> row[c]]
<1>0. PICK E \in SUBSET Children : E = EndedBy(x)
  BY DEF EndedBy
<1>1. /\ TypeOK /\ TxInv(x) /\ pc[x] = "commit" /\ ~Over(x) /\ Parent \in Rows
      /\ inbox' = inbox \cup posted[x]
      /\ Roles(x) /\ Writes(x) /\ Ends(x) /\ Wakes(x) /\ Adds(x)
  BY DEF IInv, Commit, Over, Rows, TxInv
<1>2. Committed!OpenChildren = OpenIn(row)
  BY DEF Committed!OpenChildren, OpenIn
<1>3. ASSUME x \notin Adders
      PROVE  /\ E \subseteq OpenIn(row) /\ [c \in Children |-> row'[c]] = Committed!Ended(E)
  BY <1>0, <1>3, CommitWrites DEF Committed!Ended
<1>4. ASSUME row'[Parent] = row[Parent], \A c \in Children : row'[c] = row[c], posted[x] = {}
      PROVE  UNCHANGED Committed!vars
  BY <1>1, <1>4 DEF Committed!vars
<1>5. CASE x \in Adders
  <2>1. PICK c \in Children : work[x] = {c}
    BY <1>1, <1>5 DEF Roles
  <2>2. posted[x] = {}
    BY <1>1, <1>5 DEF Roles
  <2>3. CASE Added(x)
    <3>1. /\ row[c] = "none" /\ write[x][c] = "open" /\ Cardinality(OpenIn(row)) < Cap
          /\ \A d \in Children : write[x][d] = "open" => d = c
      BY <1>1, <1>5, <2>1, <2>3 DEF Writes, Adds
    <3>2. [d \in Children |-> row'[d]] = [child EXCEPT ![c] = "open"]
      BY <1>5, <3>1, CommitWrites
    <3>3. row'[Parent] = IF row[Parent] \in {"waiting", "active"} THEN "waiting-children" ELSE row[Parent]
      BY <1>1, <1>5, <2>3, CommitWrites DEF Adds
    <3>4. Committed!Add(c)
      BY <1>1, <1>2, <2>2, <3>1, <3>2, <3>3, SameCardinality DEF Committed!Add
    <3> QED BY <3>4 DEF Committed!Next
  <2>4. CASE ~Added(x)
    <3>1. write[x][Parent] = "kept"
      BY <1>1, <1>5, <2>4 DEF Adds
    <3> QED BY <1>4, <1>5, <2>2, <2>4, <3>1, CommitWrites DEF Added
  <2> QED BY <2>3, <2>4
<1>6. CASE x \notin Adders /\ kind[x] = "tree"
  <2>1. Ending(x) /\ posted[x] = {} /\ work[x] = {}
    BY <1>0, <1>1, <1>6, OneRole DEF Ending, Ends, Roles
  <2>2. row'[Parent] = IF row[Parent] \in OpenParent THEN "cancelled" ELSE row[Parent]
    BY <1>0, <1>1, <1>6, <2>1, CommitWrites DEF Ends, Writes
  <2>3. Committed!CancelTree(E)
    BY <1>0, <1>1, <1>2, <1>3, <1>6, <2>1, <2>2
    DEF Committed!CancelTree, Committed!OpenParent, OpenParent
  <2> QED BY <2>3 DEF Committed!Next
<1>7. CASE x \notin Adders /\ kind[x] # "tree" /\ E = {}
  <2>1. Ending(x) /\ posted[x] = {} /\ write[x][Parent] = "kept"
    BY <1>0, <1>1, <1>7, OneRole DEF Ending, Ends
  <2> QED BY <1>0, <1>4, <1>7, <2>1, CommitWrites
<1>8. CASE x \notin Adders /\ kind[x] # "tree" /\ E # {}
  <2>1. Ending(x) /\ kind[x] \in {"end", "fail_parent"}
    BY <1>0, <1>1, <1>8, OneRole DEF Ending, Roles
  <2>2. inbox' = inbox \cup E \/ (inbox' = inbox /\ row[Parent] \notin OpenParent)
    BY <1>0, <1>1, <1>8, <2>1 DEF Ends
  <2>3. Committed!Tell(E)
    BY <2>2 DEF Committed!Tell, Committed!OpenParent, OpenParent
  <2>4. CASE kind[x] = "end"
    <3>1. OpenIn(View(x)) = OpenIn(row) \ E
      BY <1>0, <1>1, <1>8, RowsAssumption DEF OpenIn, View, Rows, EndedBy, Writes
    <3>2. OpenIn(View(x)) = {} <=> OpenIn(row) = E
      BY <1>3, <1>8, <3>1
    <3>3. row'[Parent] = IF row[Parent] = "waiting-children" /\ OpenIn(row) = E
                         THEN "waiting" ELSE row[Parent]
      BY <1>0, <1>1, <1>8, <2>1, <2>4, <3>2, CommitWrites DEF Wakes
    <3>4. Committed!EndChildren(E)
      BY <1>2, <1>3, <1>8, <2>3, <3>3 DEF Committed!EndChildren
    <3> QED BY <3>4 DEF Committed!Next
  <2>5. CASE kind[x] = "fail_parent"
    <3>1. PICK c \in Children : E = {c}
      BY <1>0, <1>1, <1>8, <2>5, OneRole DEF Roles
    <3>2. row'[Parent] = IF row[Parent] = "waiting-children" THEN "failed" ELSE row[Parent]
      BY <1>0, <1>1, <1>8, <2>1, <2>5, CommitWrites DEF Wakes
    <3>3. Committed!FailParent(c)
      BY <1>2, <1>3, <1>8, <2>3, <3>1, <3>2 DEF Committed!FailParent
    <3> QED BY <3>3 DEF Committed!Next
  <2> QED BY <2>1, <2>4, <2>5
<1> QED BY <1>5, <1>6, <1>7, <1>8

LEMMA ParentStepImplements ==
  ASSUME TypeOK, ClaimParent \/ CompleteParent PROVE Committed!Next
<1>1. [c \in Children |-> row'[c]] = [c \in Children |-> row[c]] /\ Parent \in Rows
  BY RowsAssumption DEF ClaimParent, CompleteParent, TypeOK, Rows
<1>2. CASE ClaimParent
  BY <1>1, <1>2 DEF ClaimParent, Committed!Next, Committed!Claim, TypeOK
<1>3. CASE CompleteParent
  BY <1>1, <1>3 DEF CompleteParent, Committed!Next, Committed!Complete, TypeOK
<1> QED BY <1>2, <1>3

LEMMA StepImplements ==
  ASSUME IInv, [Next]_vars PROVE [Committed!Next]_(Committed!vars)
<1>1. ASSUME NEW x \in Txs, Commit(x) PROVE [Committed!Next]_(Committed!vars)
  BY <1>1, CommitImplements
<1>2. CASE ClaimParent \/ CompleteParent
  BY <1>2, ParentStepImplements DEF IInv
<1>3. CASE row' = row /\ inbox' = inbox
  BY <1>3, SameToAbstract
<1> QED
  BY <1>1, <1>2, <1>3
  DEF Next, vars, BeginFinish, BeginAdd, BeginSweep, BeginCancelTree, Start, LockParent,
      EndRow, Post, PostKey, Rollup, Wake, Insert, Flip, Rollback

\* No step of AtomicRollup leaves a parent asleep with no open child.
LEMMA StepKeepsAwake ==
  ASSUME TypeOK, Awake, [Committed!Next]_(Committed!vars) PROVE Awake'
<1> DEFINE child == [c \in Children |-> row[c]]
<1>1. /\ Committed!OpenChildren = OpenIn(row)
      /\ OpenIn(row)' = {c \in Children : row'[c] = "open"}
      /\ \A c \in Children : [d \in Children |-> row'[d]][c] = row'[c]
  BY DEF Committed!OpenChildren, OpenIn
<1>2. ASSUME NEW S \in SUBSET Children, Committed!EndChildren(S) PROVE Awake'
  <2>1. \A c \in Children : row'[c] = IF c \in S THEN "ended" ELSE row[c]
    BY <1>1, <1>2 DEF Committed!EndChildren, Committed!Ended
  <2>2. OpenIn(row)' = OpenIn(row) \ S
    BY <1>1, <2>1 DEF OpenIn
  <2> QED BY <1>1, <1>2, <2>2 DEF Committed!EndChildren, Awake
<1>3. ASSUME NEW S \in SUBSET Children, Committed!CancelTree(S) PROVE Awake'
  BY <1>3 DEF Committed!CancelTree, Committed!OpenParent, Awake
<1>4. ASSUME NEW c \in Children, Committed!FailParent(c) PROVE Awake'
  BY <1>4 DEF Committed!FailParent, Awake
<1>5. ASSUME NEW c \in Children, Committed!Add(c) PROVE Awake'
  <2>1. row'[c] = "open"
    BY <1>1, <1>5 DEF Committed!Add
  <2> QED BY <1>1, <2>1 DEF Awake
<1>6. CASE Committed!Claim \/ Committed!Complete
  BY <1>6 DEF Committed!Claim, Committed!Complete, Awake
<1>7. CASE UNCHANGED Committed!vars
  <2>1. row'[Parent] = row[Parent] /\ \A c \in Children : row'[c] = row[c]
    BY <1>1, <1>7 DEF Committed!vars
  <2> QED BY <1>1, <2>1 DEF Awake, OpenIn
<1> QED BY <1>2, <1>3, <1>4, <1>5, <1>6, <1>7 DEF Committed!Next

-----------------------------------------------------------------------------
LEMMA CommitKeeps ==
  ASSUME IInv, NEW x \in Txs, Commit(x) PROVE IInv'
<1>1. TypeOK'
  BY CommitWrites
<1>2. TxInv(x)' /\ Alone(x)
  BY ReleaseKeeps DEF IInv, Commit
<1>3. \A y \in Txs : TxInv(y)'
  <2>1. \A y \in Txs \ {x} : TxInv(y)'
    BY CommitSpares
  <2> QED BY <1>2, <2>1
<1>4. LocksInv' /\ TurnsInv' /\ IdsInv'
  BY <1>2, SharedKeeps
<1>5. Awake'
  BY CommitImplements, StepKeepsAwake DEF IInv
<1> QED BY <1>1, <1>3, <1>4, <1>5 DEF IInv

\* The parent is claimed while nobody has it locked, and completed while nobody has
\* it locked for an update: by then no child is open.
LEMMA ParentStepKeeps ==
  ASSUME IInv, ClaimParent \/ CompleteParent PROVE IInv'
<1>1. /\ TypeOK /\ UNCHANGED <<inbox, pc, tx>> /\ Parent \in Rows
      /\ row[Parent] \in OpenParent
      /\ \A c \in Children : row'[c] = row[c] /\ c # Parent
  BY RowsAssumption DEF IInv, ClaimParent, CompleteParent, Rows, OpenParent, TypeOK
<1>2. TypeOK'
  BY <1>1 DEF ClaimParent, CompleteParent, TypeOK, tx, Rows, ParentStatuses
<1>3. \A y \in Txs : Same(y)
  BY <1>1 DEF Same, tx
<1>4. \A y \in Txs : TxInv(y)'
  <2> SUFFICES ASSUME NEW y \in Txs PROVE TxInv(y)'
    OBVIOUS
  <2>1. TxInv(y) /\ (y \in Adders => work[y] \subseteq Children)
    BY DEF IInv, TxInv, Roles
  <2>2. lock[y][Parent] # {} => ~OwnsRow(y, Parent) /\ CompleteParent
    BY DEF ClaimParent, CompleteParent, OwnsRow, Excludes
  <2>3. CompleteParent => "waiting-children" \notin {row[Parent], row'[Parent]}
    BY <1>1 DEF CompleteParent, TypeOK
  <2> QED BY <1>1, <1>2, <1>3, <2>1, <2>2, <2>3, OthersKeep
<1>5. LocksInv' /\ TurnsInv' /\ IdsInv'
  BY <1>1 DEF IInv, LocksInv, TurnsInv, IdsInv, Over, tx
<1>6. Awake'
  BY ParentStepImplements, StepKeepsAwake DEF IInv
<1> QED BY <1>2, <1>4, <1>5, <1>6 DEF IInv

-----------------------------------------------------------------------------
LEMMA InitHolds == Init => IInv /\ Committed!Init
<1> SUFFICES ASSUME Init PROVE IInv /\ Committed!Init
  OBVIOUS
<1>1. PICK open \in SUBSET Children :
        /\ Cardinality(open) <= Cap
        /\ row = [r \in Rows |->
                    IF r = Parent THEN IF open = {} THEN "active" ELSE "waiting-children"
                    ELSE IF r \in open THEN "open" ELSE "none"]
  BY DEF Init
<1>2. /\ row[Parent] = IF open = {} THEN "active" ELSE "waiting-children"
      /\ \A c \in Children : row[c] = IF c \in open THEN "open" ELSE "none"
      /\ OpenIn(row) = open
  BY <1>1, RowsAssumption DEF Rows, OpenIn
<1>3. TypeOK
  <2>1. row \in [Rows -> ChildStatuses \cup ParentStatuses]
    BY <1>1 DEF ChildStatuses, ParentStatuses
  <2>2. /\ Unwritten \in [Rows -> ChildStatuses \cup ParentStatuses \cup {"kept"}]
        /\ Unlocked \in [Rows -> SUBSET Modes]
    BY DEF Unwritten, Unlocked
  <2> QED
    BY <1>2, <2>1, <2>2 DEF Init, TypeOK, ChildStatuses, ParentStatuses, Steps, Kinds
<1>4. ASSUME NEW x \in Txs PROVE TxInv(x)
  <2>1. /\ pc[x] = "idle" /\ work[x] = {} /\ write[x] = Unwritten /\ posted[x] = {}
        /\ lock[x] = Unlocked /\ Over(x)
    BY DEF Init, Over
  <2>2. \A r \in Rows : write[x][r] = "kept"
    BY <2>1 DEF Unwritten
  <2>3. ~Added(x)
    BY <2>2 DEF Added, Rows
  <2>4. Roles(x)
    BY <2>1 DEF Roles
  <2>5. Writes(x)
    BY <2>1, <2>2 DEF Writes, Rows
  <2>6. Ends(x) /\ Wakes(x)
    BY <2>1 DEF Ends, Wakes
  <2>7. Adds(x)
    BY <2>1, <2>3 DEF Adds
  <2> QED BY <2>4, <2>5, <2>6, <2>7 DEF TxInv
<1>5. LocksInv
  <2>1. \A x \in Txs, r \in Rows : lock[x][r] = {}
    BY DEF Init, Unlocked
  <2> QED BY <2>1 DEF LocksInv
<1>6. TurnsInv /\ IdsInv
  BY DEF Init, TurnsInv, IdsInv, Over, Txs
<1>7. Awake
  BY <1>2 DEF Awake
<1>8. Committed!Init
  <2>1. [c \in Children |-> row[c]] \in [Children -> {"none", "open"}]
    BY <1>2
  <2>2. Committed!OpenChildren = open
    BY <1>2 DEF Committed!OpenChildren
  <2>3. inbox = {}
    BY DEF Init
  <2> QED
    BY <1>1, <1>2, <2>1, <2>2, <2>3, SameCardinality DEF Committed!Init, Committed!Asleep
<1> QED BY <1>3, <1>4, <1>5, <1>6, <1>7, <1>8 DEF IInv

LEMMA StepKeeps ==
  ASSUME Serial, IInv, [Next]_vars PROVE IInv'
<1>1. ASSUME NEW x \in Txs,
             \/ \E c \in Children : \/ \E k \in Kinds : BeginFinish(x, c, k)
                                    \/ BeginAdd(x, c)
             \/ \E S \in SUBSET Children : BeginSweep(x, S)
             \/ BeginCancelTree(x)
      PROVE  IInv'
  BY <1>1, BeginKeeps
<1>2. ASSUME NEW x \in Txs, LockParent(x) PROVE IInv'
  BY <1>2, LockParentKeeps
<1>3. ASSUME NEW x \in Txs, NEW r \in Rows, EndRow(x, r) PROVE IInv'
  BY <1>3, EndRowKeeps
<1>4. ASSUME NEW x \in Txs, Post(x) \/ PostKey(x) \/ Rollup(x) \/ Wake(x) PROVE IInv'
  BY <1>4, PostKeeps, PostKeyKeeps, RollupKeeps, WakeKeeps
<1>5. ASSUME NEW x \in Txs, Insert(x) \/ Flip(x) PROVE IInv'
  BY <1>5, InsertKeeps, FlipKeeps
<1>6. ASSUME NEW x \in Txs, Commit(x) \/ Rollback(x) PROVE IInv'
  BY <1>6, CommitKeeps, RollbackKeeps
<1>7. CASE ClaimParent \/ CompleteParent
  BY <1>7, ParentStepKeeps
<1>8. CASE UNCHANGED vars
  <2>1. /\ UNCHANGED <<row, inbox, pc, tx>> /\ \A y \in Txs : Same(y)
    BY <1>8 DEF vars, tx, Same
  <2>2. \A y \in Txs : TxInv(y)'
    BY <2>1, SameKeeps DEF IInv
  <2>3. TypeOK' /\ LocksInv' /\ TurnsInv' /\ IdsInv' /\ Awake'
    BY <2>1 DEF IInv, TypeOK, LocksInv, TurnsInv, IdsInv, Awake, Over, OpenIn, tx
  <2> QED BY <2>2, <2>3 DEF IInv
<1> QED BY <1>1, <1>2, <1>3, <1>4, <1>5, <1>6, <1>7, <1>8 DEF Next

LEMMA Invariant == ASSUME Serial PROVE Spec => []IInv
<1>1. Init => IInv
  BY InitHolds
<1>2. IInv /\ [Next]_vars => IInv'
  BY StepKeeps
<1> QED BY <1>1, <1>2, PTL DEF Spec

-----------------------------------------------------------------------------
\* When sweeps take turns, no parent waits with all its children ended: neither two
\* last children completing at once, nor a sweep or a cancellation beside them, nor a
\* transaction rolled back half-way, loses the wake-up.
THEOREM NoParentStranded == ASSUME Serial PROVE Spec => []NoStrandedParent
<1>1. IInv => NoStrandedParent
  BY DEF IInv, Awake, NoStrandedParent
<1> QED BY <1>1, Invariant, PTL

\* When sweeps take turns, what the transactions commit is a behaviour of
\* AtomicRollup: the endings MinionQueue writes as one step are as good as one.
THEOREM RollupIsAtomic == ASSUME Serial PROVE Spec => ImplementsRollup
<1>1. Init => Committed!Init
  BY InitHolds
<1>2. IInv /\ [Next]_vars => [Committed!Next]_(Committed!vars)
  BY StepImplements
<1> QED BY <1>1, <1>2, Invariant, PTL DEF Spec, ImplementsRollup, Committed!Spec

=============================================================================
