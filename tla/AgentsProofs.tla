---------------------------- MODULE AgentsProofs ----------------------------
(***************************************************************************)
(* Proofs about the two halves of an agent job, for any number of callers  *)
(* and executions.                                                         *)
(*                                                                         *)
(* The leases, for any cap: the provider never sees more calls at once     *)
(* than there are leases, but for those that outlast theirs.  Rows are     *)
(* counted and inserted under one lock, and what a transaction did not     *)
(* find expired when it counted, it does not find more of when it inserts; *)
(* so there are never more rows than the cap.  A call that is not too old  *)
(* has a row of its own among them.                                        *)
(*                                                                         *)
(* The conversation, for any number of executions that do not overlap, of  *)
(* turns, and of tool calls in a turn: an unsafe tool takes effect once,   *)
(* the persisted messages are what the provider accepts, and nothing       *)
(* follows a final answer.  The argument is that what an execution holds   *)
(* in memory of the turn it is at - the results so far, the calls it found *)
(* recorded, the place of the next one - is what the two tables say, and   *)
(* that the next one finds it there after any crash.                       *)
(***************************************************************************)
EXTENDS Agents, FiniteSetTheorems, TLAPS

\* There are no more rows than leases.
RowsInv == Cardinality(Leases!Rows) <= MaxConcurrent

\* Who has counted has the lock, and has counted every row it will not prune.
CountInv ==
  \A c \in Callers : phase[c] = "counted" =>
    /\ lock = c
    /\ Cardinality(Leases!Rows \ Leases!ExpiredBy(c)) <= active[c]

\* A row has one caller, which is calling.
OwnerInv ==
  \A c \in Callers : mine[c] # 0 =>
    /\ phase[c] = "calling" /\ mine[c] \in Leases!Rows
    /\ \A d \in Callers : mine[d] = mine[c] => d = c

\* A row lives as long as the call is young, and is the caller's for as long.
AgeInv ==
  \A c \in Callers :
    /\ phase[c] # "calling" => age[c] = 0
    /\ mine[c] # 0 => lease[mine[c]] + age[c] >= LeaseTtl - MaxWait
    /\ (phase[c] = "calling" /\ mine[c] = 0) => age[c] >= LeaseTtl - MaxWait

LeaseInv == Leases!TypeOK /\ RowsInv /\ CountInv /\ OwnerInv /\ AgeInv

-----------------------------------------------------------------------------
\* The library's facts speak of the Cardinality and IsFiniteSet this module extends; the
\* instance's have the same definitions.
LEMMA LeaseCard ==
  /\ \A S : Leases!Cardinality(S) = Cardinality(S)
  /\ \A S : Leases!IsFiniteSet(S) <=> IsFiniteSet(S)
<1>1. ASSUME NEW S PROVE Leases!Cardinality(S) = Cardinality(S)
  BY DEF Leases!Cardinality, Cardinality
<1>2. ASSUME NEW S PROVE Leases!IsFiniteSet(S) <=> IsFiniteSet(S)
  BY DEF Leases!IsFiniteSet, IsFiniteSet
<1> QED
  BY <1>1, <1>2

\* Ids are finitely many, and so are the rows; the cap leaves one for each caller.
LEMMA FiniteRows ==
  ASSUME Leases!LeaseConstants
  PROVE  /\ Cardinality(Callers) \in Nat
         /\ IsFiniteSet(Leases!Id)
         /\ Cardinality(Leases!Id) = MaxConcurrent + Cardinality(Callers)
         /\ \A S \in SUBSET Leases!Id : IsFiniteSet(S) /\ Cardinality(S) \in Nat
<1>1. Cardinality(Callers) \in Nat
  BY FS_CardinalityType, LeaseCard DEF Leases!LeaseConstants
<1>2. IsFiniteSet(Leases!Id) /\ Cardinality(Leases!Id) = MaxConcurrent + Cardinality(Callers)
  <2>1. MaxConcurrent + Cardinality(Callers) \in Nat /\ 1 \in Int
    BY <1>1 DEF Leases!LeaseConstants
  <2> DEFINE n == MaxConcurrent + Cardinality(Callers)
  <2> HIDE DEF n
  <2>2. n \in Nat
    BY <2>1 DEF n
  <2>3. IsFiniteSet(1..n) /\ Cardinality(1..n) = n
    BY <2>2, FS_Interval
  <2>4. QED
    BY <2>3, LeaseCard DEF Leases!Id, n
<1>3. QED
  BY <1>1, <1>2, FS_Subset, FS_CardinalityType

\* A smaller set of ids has no more members.
LEMMA FewerRows ==
  ASSUME Leases!LeaseConstants, NEW S \in SUBSET Leases!Id, NEW T \in SUBSET S
  PROVE  Cardinality(T) <= Cardinality(S)
BY FiniteRows, FS_Subset

\* While the rows keep to the cap there is an id for a new one.
LEMMA FreeIdIsFree ==
  ASSUME Leases!LeaseConstants, RowsInv, NEW c \in Callers
  PROVE  Leases!FreeId \in Leases!Id /\ Leases!FreeId \notin Leases!Rows
<1>1. Leases!Rows \subseteq Leases!Id
  BY DEF Leases!Rows
<1>2. Cardinality(Callers) # 0
  BY FS_EmptySet, LeaseCard DEF Leases!LeaseConstants
<1>3. Leases!Rows # Leases!Id
  BY <1>2, FiniteRows DEF RowsInv, Leases!LeaseConstants
<1>4. \E i \in Leases!Id : i \notin Leases!Rows
  BY <1>1, <1>3
<1>5. QED
  BY <1>4 DEF Leases!FreeId

\* A step that adds no row keeps the rows within the cap and the counts right.
LEMMA NoNewRows ==
  ASSUME Leases!LeaseConstants, Leases!TypeOK, RowsInv, CountInv,
         Leases!Rows' \subseteq Leases!Rows,
         \A d \in Callers : phase'[d] = "counted" =>
           /\ phase[d] = "counted" /\ lock' = d /\ active'[d] = active[d]
           /\ Leases!ExpiredBy(d) \intersect Leases!Rows' \subseteq Leases!ExpiredBy(d)'
  PROVE  RowsInv' /\ CountInv'
<1>1. Leases!Rows \subseteq Leases!Id /\ Leases!Rows' \subseteq Leases!Id
  BY DEF Leases!Rows, Leases!Id
<1>2. RowsInv'
  <2>1. Cardinality(Leases!Rows') <= Cardinality(Leases!Rows)
    BY <1>1, FewerRows
  <2>2. Cardinality(Leases!Rows) \in Nat /\ Cardinality(Leases!Rows') \in Nat
    BY <1>1, FiniteRows
  <2>3. QED
    BY <2>1, <2>2 DEF RowsInv, Leases!LeaseConstants
<1>3. ASSUME NEW d \in Callers, phase'[d] = "counted"
      PROVE  lock' = d /\ Cardinality(Leases!Rows' \ Leases!ExpiredBy(d)') <= active'[d]
  <2>1. Leases!Rows' \ Leases!ExpiredBy(d)' \subseteq Leases!Rows \ Leases!ExpiredBy(d)
    BY <1>3
  <2>2. Cardinality(Leases!Rows' \ Leases!ExpiredBy(d)')
          <= Cardinality(Leases!Rows \ Leases!ExpiredBy(d))
    BY <1>1, <2>1, FewerRows
  <2>3. /\ Cardinality(Leases!Rows \ Leases!ExpiredBy(d)) \in Nat
        /\ Cardinality(Leases!Rows' \ Leases!ExpiredBy(d)') \in Nat
    BY <1>1, FiniteRows
  <2>4. Cardinality(Leases!Rows \ Leases!ExpiredBy(d)) <= active[d] /\ active[d] \in Int
    BY <1>3 DEF CountInv, Leases!TypeOK, Leases!Id
  <2>5. QED
    BY <1>3, <2>2, <2>3, <2>4
<1>4. QED
  BY <1>2, <1>3 DEF CountInv

-----------------------------------------------------------------------------
\* Initially there is no row and no caller.
LEMMA LeaseInit == ASSUME Leases!LeaseConstants, Leases!Init PROVE LeaseInv
<1>1. Leases!Rows = {}
  BY DEF Leases!Init, Leases!Rows
<1>2. Leases!TypeOK
  BY FiniteRows, LeaseCard DEF Leases!Init, Leases!TypeOK, Leases!LeaseConstants
<1>3. RowsInv
  BY <1>1, FS_EmptySet DEF RowsInv, Leases!LeaseConstants
<1>4. QED
  BY <1>2, <1>3 DEF LeaseInv, CountInv, OwnerInv, AgeInv, Leases!Init

\* Time, which only makes rows expire.
LEMMA TickInv == ASSUME Leases!LeaseConstants, LeaseInv, Leases!Tick PROVE LeaseInv'
<1> USE DEF LeaseInv, Leases!LeaseConstants
<1>1. ASSUME NEW i \in Leases!Id
      PROVE  lease'[i] = IF lease[i] \in Int /\ lease[i] > -MaxWait
                            THEN lease[i] - 1 ELSE lease[i]
  BY DEF Leases!Tick
<1>2. Leases!TypeOK'
  BY DEF Leases!TypeOK, Leases!Tick
<1>3. \A i \in Leases!Id : lease'[i] = NoLease <=> lease[i] = NoLease
  BY <1>1 DEF Leases!TypeOK
<1>4. Leases!Rows' = Leases!Rows
  BY <1>3 DEF Leases!Rows, Leases!Id
<1>5. \A i \in Leases!Rows : lease[i] \in (-MaxWait)..LeaseTtl
  BY DEF Leases!Rows, Leases!TypeOK
<1>6. ASSUME NEW d \in Callers, phase'[d] = "counted"
      PROVE  Leases!ExpiredBy(d) \intersect Leases!Rows' \subseteq Leases!ExpiredBy(d)'
  <2>1. waited'[d] = waited[d] + 1 /\ waited[d] \in 0..MaxWait /\ waited[d] < MaxWait
    BY <1>6 DEF Leases!Tick, Leases!InTransaction, Leases!TypeOK
  <2>2. ASSUME NEW i \in Leases!Rows, lease[i] + waited[d] <= 0
        PROVE  lease'[i] + waited'[d] <= 0
    BY <1>1, <1>5, <2>1, <2>2 DEF Leases!Rows
  <2>3. QED
    BY <1>4, <2>2 DEF Leases!ExpiredBy
<1>7. RowsInv' /\ CountInv'
  BY <1>4, <1>6, NoNewRows DEF Leases!Tick, CountInv
<1>8. OwnerInv'
  BY <1>4 DEF Leases!Tick, OwnerInv
<1>9. AgeInv'
  <2>1. ASSUME NEW c \in Callers, mine'[c] # 0
        PROVE  lease'[mine'[c]] + age'[c] >= LeaseTtl - MaxWait
    <3>1. mine[c] = mine'[c] /\ mine[c] \in Leases!Rows /\ phase[c] = "calling"
      BY <2>1 DEF Leases!Tick, OwnerInv
    <3>2. age'[c] = IF age[c] < LeaseTtl THEN age[c] + 1 ELSE age[c]
      BY <3>1 DEF Leases!Tick
    <3>3. age[c] \in 0..LeaseTtl /\ lease[mine[c]] + age[c] >= LeaseTtl - MaxWait
      BY <2>1, <3>1 DEF AgeInv, Leases!TypeOK
    <3>4. mine[c] \in Leases!Id /\ lease[mine[c]] \in (-MaxWait)..LeaseTtl
      BY <3>1, <1>5 DEF Leases!Rows
    <3>5. QED
      BY <1>1, <3>1, <3>2, <3>3, <3>4
  <2>2. QED
    BY <2>1 DEF Leases!Tick, AgeInv, Leases!TypeOK
<1>10. QED
  BY <1>2, <1>7, <1>8, <1>9

\* The count, by the one transaction that has the lock.
LEMMA CountStepInv ==
  ASSUME Leases!LeaseConstants, LeaseInv, NEW c \in Callers,
         Leases!Begin(c) \/ Leases!Count(c)
  PROVE  LeaseInv'
<1> USE DEF LeaseInv, Leases!Goes
<1>1. Leases!TypeOK'
  <2>1. CASE Leases!Begin(c)
    BY <2>1 DEF Leases!Begin, Leases!TypeOK
  <2>2. CASE Leases!Count(c)
    <3>1. /\ Leases!Rows \ Leases!ExpiredBy(c) \in SUBSET Leases!Id
          /\ Leases!Id \in SUBSET Leases!Id
      BY DEF Leases!Rows
    <3>2. Cardinality(Leases!Rows \ Leases!ExpiredBy(c)) \in Nat /\ Cardinality(Leases!Id) \in Nat
      BY <3>1, FiniteRows
    <3>3. Cardinality(Leases!Rows \ Leases!ExpiredBy(c)) <= Cardinality(Leases!Id)
      BY <3>1, FewerRows
    <3>4. active' \in [Callers -> 0..Cardinality(Leases!Id)]
      BY <2>2, <3>2, <3>3, LeaseCard DEF Leases!Count, Leases!TypeOK
    <3>5. QED
      BY <2>2, <3>4, LeaseCard DEF Leases!Count, Leases!TypeOK
  <2>3. QED
    BY <2>1, <2>2
<1>2. /\ Leases!Rows' = Leases!Rows
      /\ \A d \in Callers : Leases!ExpiredBy(d)' = Leases!ExpiredBy(d)
  BY DEF Leases!Begin, Leases!Count, Leases!Rows, Leases!ExpiredBy
<1>3. RowsInv'
  BY <1>2 DEF RowsInv
<1>4. CountInv'
  <2>1. CASE Leases!Begin(c)
    BY <1>2, <2>1 DEF Leases!Begin, CountInv, Leases!TypeOK
  <2>2. CASE Leases!Count(c)
    <3>1. ASSUME NEW d \in Callers, phase'[d] = "counted" PROVE d = c
      BY <2>2, <3>1 DEF Leases!Count, CountInv, Leases!LockFree, Leases!LeaseConstants,
                        Leases!TypeOK
    <3>2. active'[c] = Cardinality(Leases!Rows \ Leases!ExpiredBy(c)) /\ lock' = c
      BY <2>2, LeaseCard DEF Leases!Count, Leases!TypeOK
    <3>3. Cardinality(Leases!Rows \ Leases!ExpiredBy(c)) \in Nat
      BY FiniteRows DEF Leases!Rows
    <3>4. Cardinality(Leases!Rows' \ Leases!ExpiredBy(c)') <= active'[c]
      BY <1>2, <3>2, <3>3
    <3>5. QED
      BY <3>1, <3>2, <3>4 DEF CountInv
  <2>3. QED
    BY <2>1, <2>2
<1>5. OwnerInv' /\ AgeInv'
  BY <1>2 DEF Leases!Begin, Leases!Count, OwnerInv, AgeInv, Leases!TypeOK
<1>6. QED
  BY <1>1, <1>3, <1>4, <1>5

\* What a transaction prunes belongs to calls that are old.
LEMMA PrunedAreOld ==
  ASSUME Leases!LeaseConstants, LeaseInv, NEW c \in Callers, NEW d \in Callers,
         mine[d] \in Leases!ExpiredBy(c)
  PROVE  phase[d] = "calling" /\ age[d] >= LeaseTtl - MaxWait
<1>1. mine[d] \in Leases!Rows /\ lease[mine[d]] + waited[c] <= 0
  BY DEF Leases!ExpiredBy
<1>2. mine[d] # 0 /\ lease[mine[d]] \in Int
  BY <1>1 DEF Leases!Rows, Leases!Id, LeaseInv, Leases!TypeOK
<1>3. QED
  BY <1>1, <1>2 DEF LeaseInv, OwnerInv, AgeInv, Leases!TypeOK, Leases!LeaseConstants

\* The transaction commits without a row of its own.
LEMMA RejectInv ==
  ASSUME Leases!LeaseConstants, LeaseInv, NEW c \in Callers, Leases!Reject(c)
  PROVE  LeaseInv'
<1> USE DEF LeaseInv, Leases!Goes
<1>1. /\ lease' = Leases!Without(Leases!ExpiredBy(c))
      /\ phase' = [phase EXCEPT ![c] = "idle"]
      /\ mine' = [d \in Callers |-> IF mine[d] \in Leases!ExpiredBy(c) THEN 0 ELSE mine[d]]
      /\ waited' = [waited EXCEPT ![c] = 0] /\ active' = [active EXCEPT ![c] = 0]
      /\ lock' = NoCaller /\ UNCHANGED <<age, crashes>> /\ phase[c] = "counted"
  BY DEF Leases!Reject, Leases!Commit, Leases!Clear, Leases!Forget
<1>2. Leases!TypeOK'
  <2>1. /\ lease' \in [Leases!Id -> (-MaxWait)..LeaseTtl \union {NoLease}]
        /\ mine' \in [Callers -> Leases!Id \union {0}]
    BY <1>1 DEF Leases!TypeOK, Leases!Without
  <2>2. 0 \in 0..MaxWait /\ 0 \in 0..Cardinality(Leases!Id)
    BY FiniteRows DEF Leases!LeaseConstants
  <2>3. QED
    BY <1>1, <2>1, <2>2, LeaseCard DEF Leases!TypeOK
<1>3. Leases!Rows' = Leases!Rows \ Leases!ExpiredBy(c)
  BY <1>1 DEF Leases!Rows, Leases!Without
<1>4. \A d \in Callers : phase'[d] # "counted"
  BY <1>1 DEF CountInv, Leases!TypeOK
<1>5. RowsInv' /\ CountInv'
  BY <1>3, <1>4, NoNewRows
<1>6. OwnerInv'
  BY <1>1, <1>3 DEF OwnerInv, Leases!TypeOK
<1>7. AgeInv'
  <2>1. ASSUME NEW d \in Callers, mine'[d] # 0
        PROVE  lease'[mine'[d]] + age'[d] >= LeaseTtl - MaxWait
    <3>1. mine'[d] = mine[d] /\ mine[d] \notin Leases!ExpiredBy(c) /\ mine[d] \in Leases!Rows
      BY <1>1, <2>1 DEF OwnerInv
    <3>2. lease'[mine[d]] = lease[mine[d]]
      BY <1>1, <3>1 DEF Leases!Without, Leases!Rows
    <3>3. QED
      BY <1>1, <2>1, <3>1, <3>2 DEF AgeInv
  <2>2. ASSUME NEW d \in Callers, phase'[d] = "calling", mine'[d] = 0
        PROVE  age'[d] >= LeaseTtl - MaxWait
    BY <1>1, <2>2, PrunedAreOld DEF AgeInv, Leases!TypeOK
  <2>3. QED
    BY <1>1, <2>1, <2>2 DEF AgeInv, Leases!TypeOK
<1>8. QED
  BY <1>2, <1>5, <1>6, <1>7

\* The transaction commits with a row of its own, which the count leaves room for.
LEMMA GrantInv ==
  ASSUME Leases!LeaseConstants, LeaseInv, NEW c \in Callers, Leases!Grant(c) PROVE LeaseInv'
<1> USE DEF LeaseInv, Leases!Goes
<1> DEFINE id == Leases!FreeId
           Old == Leases!ExpiredBy(c)
           Kept == Leases!Rows \ Old
<1>0. id \in Leases!Id /\ id \notin Leases!Rows /\ id # 0
  BY FreeIdIsFree DEF Leases!Id
<1> HIDE DEF id
<1>1. /\ lease' = [Leases!Without(Old) EXCEPT ![id] = LeaseTtl - waited[c]]
      /\ phase' = [phase EXCEPT ![c] = "calling"]
      /\ mine' = [d \in Callers |-> IF d = c THEN id ELSE IF mine[d] \in Old THEN 0 ELSE mine[d]]
      /\ waited' = [waited EXCEPT ![c] = 0] /\ active' = [active EXCEPT ![c] = 0]
      /\ lock' = NoCaller /\ UNCHANGED <<age, crashes>> /\ phase[c] = "counted"
      /\ active[c] < MaxConcurrent
  BY DEF Leases!Grant, Leases!Commit, Leases!Clear, id
<1>2. waited[c] \in 0..MaxWait /\ LeaseTtl - waited[c] \in (LeaseTtl - MaxWait)..LeaseTtl
  BY DEF Leases!TypeOK, Leases!LeaseConstants
<1>3. Leases!TypeOK'
  <2>1. lease' \in [Leases!Id -> (-MaxWait)..LeaseTtl \union {NoLease}]
    BY <1>0, <1>1, <1>2 DEF Leases!TypeOK, Leases!Without, Leases!LeaseConstants
  <2>2. mine' \in [Callers -> Leases!Id \union {0}]
    BY <1>0, <1>1 DEF Leases!TypeOK
  <2>3. 0 \in 0..MaxWait /\ 0 \in 0..Cardinality(Leases!Id)
    BY FiniteRows DEF Leases!LeaseConstants
  <2>4. QED
    BY <1>1, <2>1, <2>2, <2>3, LeaseCard DEF Leases!TypeOK
<1>4. Leases!Rows' = Kept \union {id}
  <2>1. \A i \in Leases!Id : lease'[i] # NoLease <=> (i = id \/ i \in Kept)
    BY <1>0, <1>1, <1>2 DEF Leases!Without, Leases!Rows, Leases!LeaseConstants
  <2>2. QED
    BY <1>0, <2>1 DEF Leases!Rows
<1>5. RowsInv'
  <2>1. Kept \in SUBSET Leases!Id /\ IsFiniteSet(Kept) /\ Cardinality(Kept) \in Nat
    BY FiniteRows DEF Leases!Rows
  <2>2. Cardinality(Kept \union {id}) = Cardinality(Kept) + 1
    BY <1>0, <2>1, FS_AddElement
  <2>3. Cardinality(Kept) <= active[c]
    BY <1>1 DEF CountInv
  <2>4. active[c] \in Int
    BY FiniteRows DEF Leases!TypeOK
  <2>5. QED
    BY <1>1, <1>4, <2>1, <2>2, <2>3, <2>4 DEF RowsInv, Leases!LeaseConstants
<1>6. CountInv'
  BY <1>1 DEF CountInv, Leases!TypeOK
<1>7. OwnerInv'
  BY <1>0, <1>1, <1>4 DEF OwnerInv, Leases!TypeOK
<1>8. AgeInv'
  <2>1. age[c] = 0 /\ mine[c] = 0
    BY <1>1 DEF AgeInv, OwnerInv
  <2>2. ASSUME NEW d \in Callers, mine'[d] # 0
        PROVE  lease'[mine'[d]] + age'[d] >= LeaseTtl - MaxWait
    <3>1. CASE d = c
      BY <1>0, <1>1, <1>2, <2>1, <3>1 DEF Leases!Without, Leases!LeaseConstants
    <3>2. CASE d # c
      <4>1. mine'[d] = mine[d] /\ mine[d] \notin Old /\ mine[d] \in Leases!Rows
        BY <1>1, <2>2, <3>2 DEF OwnerInv
      <4>2. lease'[mine[d]] = lease[mine[d]]
        BY <1>0, <1>1, <4>1 DEF Leases!Without, Leases!Rows
      <4>3. QED
        BY <1>1, <2>2, <4>1, <4>2 DEF AgeInv
    <3>3. QED
      BY <3>1, <3>2
  <2>3. ASSUME NEW d \in Callers, phase'[d] = "calling", mine'[d] = 0
        PROVE  age'[d] >= LeaseTtl - MaxWait
    <3>1. d # c
      BY <1>0, <1>1, <2>3
    <3>2. phase[d] = "calling" /\ (mine[d] = 0 \/ mine[d] \in Old)
      BY <1>1, <2>3, <3>1 DEF Leases!TypeOK
    <3>3. QED
      BY <1>1, <3>2, PrunedAreOld DEF AgeInv
  <2>4. QED
    BY <1>1, <2>1, <2>2, <2>3 DEF AgeInv, Leases!TypeOK
<1>9. QED
  BY <1>3, <1>5, <1>6, <1>7, <1>8

\* A caller forgets its row, which it may or may not have deleted.
LEMMA LeaveInv ==
  ASSUME Leases!LeaseConstants, LeaseInv, NEW c \in Callers,
         phase' = [phase EXCEPT ![c] = "idle"],
         mine' = [mine EXCEPT ![c] = 0], age' = [age EXCEPT ![c] = 0],
         lease' \in {lease, Leases!Without({mine[c]})},
         \A d \in Callers \ {c} : waited'[d] = waited[d] /\ active'[d] = active[d],
         lock # c => lock' = lock,
         Leases!TypeOK'
  PROVE  LeaseInv'
<1> USE DEF LeaseInv
<1>1. Leases!Rows' \in {Leases!Rows, Leases!Rows \ {mine[c]}}
  BY DEF Leases!Rows, Leases!Without
<1>2. \A i \in Leases!Rows' : lease'[i] = lease[i]
  BY DEF Leases!Rows, Leases!Without
<1>3. \A d \in Callers : phase'[d] = "counted" => d # c
  BY DEF Leases!TypeOK
<1>4. \A d \in Callers \ {c} :
        Leases!ExpiredBy(d) \intersect Leases!Rows' \subseteq Leases!ExpiredBy(d)'
  BY <1>2 DEF Leases!ExpiredBy
<1>5. RowsInv' /\ CountInv'
  <2>1. ASSUME NEW d \in Callers, phase'[d] = "counted"
        PROVE  /\ phase[d] = "counted" /\ lock' = d /\ active'[d] = active[d]
               /\ Leases!ExpiredBy(d) \intersect Leases!Rows' \subseteq Leases!ExpiredBy(d)'
    BY <1>3, <1>4, <2>1 DEF CountInv, Leases!TypeOK
  <2>2. Leases!Rows' \subseteq Leases!Rows
    BY <1>1
  <2>3. QED
    BY <2>1, <2>2, NoNewRows
<1>6. \A d \in Callers :
        mine'[d] # 0 => (d # c /\ mine'[d] = mine[d] /\ mine[d] \in Leases!Rows')
  BY <1>1 DEF OwnerInv, Leases!TypeOK
<1>7. OwnerInv'
  BY <1>6 DEF OwnerInv, Leases!TypeOK
<1>8. AgeInv'
  BY <1>2, <1>6 DEF AgeInv, Leases!TypeOK
<1>9. QED
  BY <1>5, <1>7, <1>8

\* Every statement, every crash and the clock keep the invariant.
LEMMA LeaseStep ==
  ASSUME Leases!LeaseConstants, LeaseInv, [Leases!Next]_(Leases!vars) PROVE LeaseInv'
<1>1. CASE UNCHANGED Leases!vars
  BY <1>1 DEF Leases!vars, LeaseInv, Leases!TypeOK, RowsInv, CountInv, OwnerInv, AgeInv,
              Leases!Rows, Leases!ExpiredBy
<1>2. CASE Leases!Tick
  BY <1>2, TickInv
<1>3. ASSUME NEW c \in Callers, Leases!Begin(c) \/ Leases!Count(c) PROVE LeaseInv'
  BY <1>3, CountStepInv
<1>4. ASSUME NEW c \in Callers, Leases!Reject(c) PROVE LeaseInv'
  BY <1>4, RejectInv
<1>5. ASSUME NEW c \in Callers, Leases!Grant(c) PROVE LeaseInv'
  BY <1>5, GrantInv
<1>6. ASSUME NEW c \in Callers, Leases!Return(c) \/ Leases!ReturnUnreleased(c)
      PROVE  LeaseInv'
  <2>1. Leases!TypeOK'
    BY <1>6 DEF Leases!Return, Leases!ReturnUnreleased, Leases!Over, Leases!Goes,
                Leases!Clear, Leases!Fault, Leases!Without, LeaseInv, Leases!TypeOK,
                Leases!LeaseConstants
  <2>2. QED
    BY <1>6, <2>1, LeaveInv DEF Leases!Return, Leases!ReturnUnreleased, Leases!Over,
                                Leases!Goes, Leases!Clear, Leases!Fault
<1>7. ASSUME NEW c \in Callers, Leases!Crash(c) PROVE LeaseInv'
  <2>1. Leases!TypeOK'
    <3>1. 0 \in 0..MaxWait /\ 0 \in 0..LeaseTtl /\ 0 \in 0..Cardinality(Leases!Id)
      BY FiniteRows DEF Leases!LeaseConstants
    <3>2. QED
      BY <1>7, <3>1, LeaseCard DEF Leases!Crash, Leases!Goes, Leases!Clear, Leases!Fault,
                                   LeaseInv, Leases!TypeOK, Leases!LeaseConstants
  <2>2. QED
    BY <1>7, <2>1, LeaveInv DEF Leases!Crash, Leases!Goes, Leases!Clear, Leases!Fault,
                                LeaseInv, Leases!TypeOK
<1>8. QED
  BY <1>1, <1>2, <1>3, <1>4, <1>5, <1>6, <1>7 DEF Leases!Next

-----------------------------------------------------------------------------
\* The calls that are not too old have rows of their own.
LEMMA TimelyCallsHaveRows == ASSUME Leases!LeaseConstants, LeaseInv PROVE CallsWithinCap
<1> DEFINE S == {c \in Callers : Leases!Timely(c)}
           f == [c \in S |-> mine[c]]
<1>1. \A c \in S : mine[c] # 0
  BY DEF Leases!Timely, LeaseInv, AgeInv, Leases!TypeOK, Leases!LeaseConstants
<1>2. \A c \in S : mine[c] \in Leases!Rows /\ \A d \in S : mine[d] = mine[c] => d = c
  BY <1>1 DEF LeaseInv, OwnerInv
<1>3. f \in Injection(S, Leases!Rows)
  BY <1>2 DEF Injection, IsInjective
<1>4. IsFiniteSet(Leases!Rows) /\ Cardinality(Leases!Rows) \in Nat
  BY FiniteRows DEF Leases!Rows
<1>5. IsFiniteSet(S) /\ Cardinality(S) <= Cardinality(Leases!Rows)
  BY <1>3, <1>4, FS_Injection
<1>6. Cardinality(S) \in Nat
  BY <1>5, FS_CardinalityType
<1>7. QED
  BY <1>4, <1>5, <1>6, LeaseCard DEF LeaseInv, RowsInv, CallsWithinCap,
                                     Leases!CallsWithinCap, Leases!LeaseConstants

\* Whatever crashes, fails to be released or waits for the lock, there are never more
\* calls under way than the cap allows, not counting those older than their lease.
THEOREM CapHolds == ASSUME Leases!LeaseConstants PROVE Leases!Spec => []CallsWithinCap
<1>1. Leases!Init => LeaseInv
  BY LeaseInit
<1>2. LeaseInv /\ [Leases!Next]_(Leases!vars) => LeaseInv'
  BY LeaseStep
<1>3. LeaseInv => CallsWithinCap
  BY TimelyCallsHaveRows
<1>4. QED
  BY <1>1, <1>2, <1>3, PTL DEF Leases!Spec

\* The table never holds more rows than the cap, expired ones among them.
THEOREM RowsWithinCap == ASSUME Leases!LeaseConstants PROVE Leases!Spec => []RowsInv
<1>1. Leases!Init => LeaseInv
  BY LeaseInit
<1>2. LeaseInv /\ [Leases!Next]_(Leases!vars) => LeaseInv'
  BY LeaseStep
<1>3. LeaseInv => RowsInv
  BY DEF LeaseInv
<1>4. QED
  BY <1>1, <1>2, <1>3, PTL DEF Leases!Spec

-----------------------------------------------------------------------------
\* The values of the variables, as far as the argument needs them.
Out == {"ok", "error"}
Status == {"pending", "complete", "failed"}
Ledgers == UNION {[D -> Status] : D \in SUBSET Loop!CallId}
Message ==
  [role : {"prompt"}]
    \union [role : {"assistant"}, by : Loop!Run, uses : Seq(Loop!Kind)]
    \union [role : {"results"}, by : Loop!Run, outs : Seq(Out)]
RunState == [phase : Loop!Phase, conv : Seq(Message), prior : Ledgers, outs : Seq(Out)]

LoopTypes ==
  /\ transcript \in Seq(Message) /\ ledger \in Ledgers
  /\ outcome \in {"open", "completed", "dead"} /\ runs \in Nat
  /\ run \in [Loop!Run -> RunState]
  /\ effected \subseteq Loop!CallId /\ repeated \subseteq Loop!CallId

\* One execution at most is under way: the latest claim's.
Alone == \A r \in Loop!Run : Loop!Live(r) => r = runs

\* A call's place: the n-th of the turn the transcript ends with.
Place(n) == <<Loop!Last(transcript).by, Len(transcript), n>>

\* The calls of the turn that have a result or are about to get one.
CallsDone(r) == IF run[r].phase = "tools" THEN Len(run[r].outs) ELSE Len(run[r].outs) + 1

\* What the execution holds of the turn it is at is what the tables hold.
InTurn(r) ==
  run[r].phase \in {"tools", "acting", "acted"} =>
    /\ transcript # <<>> /\ Loop!Last(transcript).role = "assistant"
    /\ Loop!Last(transcript).uses # <<>>
    /\ Len(run[r].outs) <= Len(Loop!Last(transcript).uses)
    /\ run[r].phase # "tools" => Len(run[r].outs) < Len(Loop!Last(transcript).uses)

\* The ledger has the results the execution has collected.
OutsRecorded(r) ==
  run[r].phase \in {"tools", "acting", "acted"} =>
    \A n \in 1..Len(run[r].outs) :
      /\ Place(n) \in DOMAIN ledger
      /\ ledger[Place(n)] = IF run[r].outs[n] = "ok" THEN "complete" ELSE "failed"
      /\ run[r].outs[n] = "ok" => Place(n) \in effected

\* Of the calls that are still to come the execution knows what the ledger knows.
PriorAgrees(r) ==
  run[r].phase \in {"tools", "acting", "acted"} =>
    \A n \in Nat : n > CallsDone(r) =>
      /\ Place(n) \in DOMAIN run[r].prior <=> Place(n) \in DOMAIN ledger
      /\ Place(n) \in DOMAIN run[r].prior => run[r].prior[Place(n)] = ledger[Place(n)]

\* A call being made is recorded, and an unsafe one has not taken effect before.
Acting(r) ==
  /\ run[r].phase \in {"acting", "acted"} => Place(CallsDone(r)) \in DOMAIN ledger
  /\ run[r].phase = "acting" =>
       (Loop!Last(transcript).uses[CallsDone(r)] = "unsafe"
          => Place(CallsDone(r)) \notin effected)
  /\ run[r].phase = "acted" => Place(CallsDone(r)) \in effected

\* An execution that has read the transcript holds all of it, and asks the model only
\* where an answer may follow.
Follows(r) ==
  /\ run[r].phase \notin {"tools", "acting", "acted"} => run[r].outs = <<>>
  /\ run[r].phase \in {"loaded", "turn", "tools", "acting", "acted", "done"} =>
       run[r].conv = transcript
  /\ run[r].phase = "turn" => (transcript # <<>> /\ Loop!Last(transcript).role # "assistant")
  /\ run[r].phase \in {"turn", "tools", "acting", "acted"} =>
       DOMAIN run[r].prior \subseteq DOMAIN ledger

\* What holds of each execution, of the ledger, and of the transcript.
RunInv(r) == InTurn(r) /\ OutsRecorded(r) /\ PriorAgrees(r) /\ Acting(r) /\ Follows(r)

LedgerInv ==
  /\ \A u \in DOMAIN ledger : u[2] <= Len(transcript)
  /\ \A u \in DOMAIN ledger : ledger[u] = "complete" => u \in effected
  /\ effected \subseteq DOMAIN ledger
  /\ \A u \in repeated : u[2] \in DOMAIN transcript /\ Loop!KindAt(u) # "unsafe"

Sent ==
  \A i \in DOMAIN transcript :
    /\ transcript[i].role = "prompt" <=> i = 1
    /\ transcript[i].role = "results" => Loop!Answered(i)
    /\ (transcript[i].role = "assistant" /\ i > 1) => transcript[i - 1].role # "assistant"

\* All of it, for as long as no two executions have overlapped.
Sound == LoopTypes /\ Alone /\ (\A r \in Loop!Run : RunInv(r)) /\ LedgerInv /\ Sent

LoopInv == crossed \in BOOLEAN /\ (crossed \/ Sound)

-----------------------------------------------------------------------------
\* Facts about ledgers, messages and sequences of them.
LEMMA LedgerTypes ==
  ASSUME NEW f \in Ledgers
  PROVE  DOMAIN f \subseteq Loop!CallId /\ \A u \in DOMAIN f : f[u] \in Status
BY DEF Ledgers

LEMMA EmptyLedger == <<>> \in Ledgers
<1>1. <<>> \in [{} -> Status]
  OBVIOUS
<1> QED
  BY <1>1 DEF Ledgers

LEMMA Recorded ==
  ASSUME ledger \in Ledgers, NEW u \in Loop!CallId, NEW st \in Status, Loop!Records(u, st)
  PROVE  /\ ledger' \in Ledgers /\ DOMAIN ledger' = DOMAIN ledger \union {u}
         /\ ledger'[u] = st
         /\ \A v \in DOMAIN ledger : v # u => ledger'[v] = ledger[v]
<1>1. DOMAIN ledger \subseteq Loop!CallId /\ \A v \in DOMAIN ledger : ledger[v] \in Status
  BY LedgerTypes
<1>2. ledger' = [v \in DOMAIN ledger \union {u} |-> IF v = u THEN st ELSE ledger[v]]
  BY DEF Loop!Records
<1>3. ledger' \in [DOMAIN ledger \union {u} -> Status]
  BY <1>1, <1>2
<1> QED
  BY <1>1, <1>2, <1>3 DEF Ledgers

LEMMA MessageTypes ==
  ASSUME NEW m \in Message
  PROVE  /\ m.role \in {"prompt", "assistant", "results"}
         /\ m.role = "assistant" => (m.by \in Loop!Run /\ m.uses \in Seq(Loop!Kind))
BY DEF Message

LEMMA Grown ==
  ASSUME NEW s \in Seq(Message), NEW m \in Message
  PROVE  /\ Append(s, m) \in Seq(Message) /\ Len(Append(s, m)) = Len(s) + 1
         /\ Loop!Last(Append(s, m)) = m /\ Append(s, m) # <<>>
         /\ Append(s, m)[Len(s) + 1] = m
         /\ \A i \in 1..Len(s) : Append(s, m)[i] = s[i]
         /\ DOMAIN Append(s, m) = 1..(Len(s) + 1)
BY DEF Loop!Last

\* Initially there is nothing.
LEMMA InitLoop == ASSUME Loop!Init PROVE LoopInv
<1>1. LoopTypes
  BY EmptyLedger DEF Loop!Init, LoopTypes, RunState, Loop!Idle, Loop!Phase
<1>2. Alone /\ LedgerInv /\ Sent
  BY DEF Loop!Init, Alone, LedgerInv, Sent, Loop!Live, Loop!Idle
<1>3. ASSUME NEW r \in Loop!Run PROVE RunInv(r)
  <2>1. run[r] = Loop!Idle
    BY DEF Loop!Init
  <2> QED
    BY <2>1 DEF RunInv, InTurn, OutsRecorded, PriorAgrees, Acting, Follows, Loop!Idle
<1> QED
  BY <1>1, <1>2, <1>3 DEF LoopInv, Sound, Loop!Init

-----------------------------------------------------------------------------
\* A step of the execution under way leaves the others as they are.
LEMMA Others ==
  ASSUME Sound, NEW r \in Loop!Run, runs' = r, RunInv(r)', 
         \A q \in Loop!Run : q # r => (run'[q] = run[q] /\ ~Loop!Live(q))
  PROVE  Alone' /\ \A q \in Loop!Run : RunInv(q)'
<1>1. ASSUME NEW q \in Loop!Run, q # r PROVE RunInv(q)' /\ ~Loop!Live(q)'
  <2>1. run'[q] = run[q] /\ run[q].phase \in {"none", "gone"}
    BY <1>1 DEF Loop!Live
  <2>2. run[q].outs = <<>>
    BY <2>1 DEF Sound, RunInv, Follows
  <2> QED
    BY <2>1, <2>2 DEF RunInv, InTurn, OutsRecorded, PriorAgrees, Acting, Follows, Loop!Live
<1> QED
  BY <1>1 DEF Alone

\* The transcript grows by a message that may follow its last one.
LEMMA Grows ==
  ASSUME Sound, NEW m \in Message, transcript' = Append(transcript, m),
         UNCHANGED <<ledger, effected, repeated>>,
         m.role = "prompt" <=> transcript = <<>>,
         \A i \in Nat : (i = Len(transcript) + 1 /\ m.role = "results") => Loop!Answered(i)',
         (m.role = "assistant" /\ transcript # <<>>) => Loop!Last(transcript).role # "assistant"
  PROVE  LedgerInv' /\ Sent'
<1>0. transcript \in Seq(Message) /\ Len(transcript) \in Nat
  BY DEF Sound, LoopTypes
<1>1. /\ Len(transcript') = Len(transcript) + 1 /\ transcript'[Len(transcript) + 1] = m
      /\ \A i \in 1..Len(transcript) : transcript'[i] = transcript[i]
      /\ DOMAIN transcript' = 1..(Len(transcript) + 1)
      /\ DOMAIN transcript = 1..Len(transcript)
  BY <1>0, Grown
<1>2. LedgerInv'
  <2>1. \A u \in DOMAIN ledger : u[2] <= Len(transcript) /\ u[2] \in Nat
    BY LedgerTypes DEF Sound, LoopTypes, LedgerInv, Loop!CallId
  <2>2. ASSUME NEW u \in repeated
        PROVE  u[2] \in DOMAIN transcript' /\ transcript'[u[2]].uses[u[3]] # "unsafe"
    BY <1>0, <1>1 DEF Sound, LedgerInv, Loop!KindAt
  <2> QED
    BY <1>0, <1>1, <2>1, <2>2 DEF Sound, LedgerInv, Loop!KindAt
<1>3. ASSUME NEW i \in DOMAIN transcript'
      PROVE  /\ transcript'[i].role = "prompt" <=> i = 1
             /\ transcript'[i].role = "results" => Loop!Answered(i)'
             /\ (transcript'[i].role = "assistant" /\ i > 1) => transcript'[i - 1].role # "assistant"
  <2>1. CASE i = Len(transcript) + 1
    <3>1. transcript = <<>> <=> i = 1
      BY <1>0, <2>1
    <3>2. transcript'[i] = m
      BY <1>1, <2>1
    <3>3. CASE i = 1
      BY <2>1, <3>1, <3>2, <3>3
    <3>4. CASE i # 1
      <4>1. i - 1 = Len(transcript) /\ i - 1 \in 1..Len(transcript)
        BY <1>0, <2>1, <3>4
      <4>2. transcript'[i - 1] = transcript[Len(transcript)]
        BY <1>1, <4>1
      <4>3. transcript'[i - 1] = Loop!Last(transcript)
        BY <4>2 DEF Loop!Last
      <4> QED
        BY <2>1, <3>1, <3>2, <3>4, <4>3
    <3> QED
      BY <3>3, <3>4
  <2>2. CASE i \in DOMAIN transcript
    <3>1. transcript'[i] = transcript[i] /\ (i > 1 => transcript'[i - 1] = transcript[i - 1])
      BY <1>0, <1>1, <2>2
    <3>2. /\ transcript[i].role = "prompt" <=> i = 1
          /\ transcript[i].role = "results" => Loop!Answered(i)
          /\ (transcript[i].role = "assistant" /\ i > 1) => transcript[i - 1].role # "assistant"
      BY <2>2 DEF Sound, Sent
    <3>3. transcript[i].role = "results" => i > 1
      BY <1>0, <1>1, <2>2, <3>2
    <3>4. Loop!Answered(i) /\ i > 1 => Loop!Answered(i)'
      BY <3>1 DEF Loop!Answered
    <3> QED
      BY <3>1, <3>2, <3>3, <3>4
  <2> QED
    BY <1>0, <1>1, <2>1, <2>2
<1> QED
  BY <1>2, <1>3 DEF Sent

\* What is recorded of the turn under way does not touch the turns before it.
LEMMA Settled ==
  ASSUME Sound, UNCHANGED transcript, DOMAIN ledger \subseteq DOMAIN ledger',
         \A u \in DOMAIN ledger : u[2] # Len(transcript) => ledger'[u] = ledger[u],
         effected \subseteq effected'
  PROVE  Sent'
<1>0. transcript \in Seq(Message) /\ Len(transcript) \in Nat
  BY DEF Sound, LoopTypes
<1>1. ASSUME NEW i \in DOMAIN transcript, transcript[i].role = "results"
      PROVE  Loop!Answered(i)'
  <2>1. Loop!Answered(i) /\ i \in 1..Len(transcript)
    BY <1>0, <1>1 DEF Sound, Sent
  <2>2. ASSUME NEW n \in DOMAIN transcript[i].outs
        PROVE  LET u == <<transcript[i - 1].by, i - 1, n>>
               IN /\ u \in DOMAIN ledger'
                  /\ ledger'[u] = IF transcript[i].outs[n] = "ok" THEN "complete" ELSE "failed"
                  /\ transcript[i].outs[n] = "ok" => u \in effected'
    <3> DEFINE u == <<transcript[i - 1].by, i - 1, n>>
    <3>1. u[2] # Len(transcript)
      BY <1>0, <2>1
    <3>2. /\ u \in DOMAIN ledger
          /\ ledger[u] = IF transcript[i].outs[n] = "ok" THEN "complete" ELSE "failed"
          /\ transcript[i].outs[n] = "ok" => u \in effected
      BY <2>1, <2>2 DEF Loop!Answered
    <3> HIDE DEF u
    <3>3. u \in DOMAIN ledger' /\ ledger'[u] = ledger[u]
      BY <3>1, <3>2
    <3> QED
      BY <3>2, <3>3 DEF u
  <2> QED
    BY <2>1, <2>2 DEF Loop!Answered
<1> QED
  BY <1>1 DEF Sound, Sent

-----------------------------------------------------------------------------
\* At a turn, the execution holds the transcript, and the next call has its place.
LEMMA AtTurn ==
  ASSUME Sound, NEW r \in Loop!Run, run[r].phase \in {"tools", "acting", "acted"}
  PROVE  /\ r = runs /\ \A q \in Loop!Run : q # r => ~Loop!Live(q)
         /\ transcript \in Seq(Message) /\ transcript # <<>> /\ Len(transcript) \in Nat
         /\ run[r].conv = transcript /\ Loop!Turn(r) = Loop!Last(transcript)
         /\ Loop!Last(transcript) = transcript[Len(transcript)]
         /\ Len(transcript) \in DOMAIN transcript
         /\ Loop!Turn(r).role = "assistant" /\ Loop!Turn(r).by \in Loop!Run
         /\ Loop!Turn(r).uses \in Seq(Loop!Kind)
         /\ run[r].outs \in Seq(Out) /\ Len(run[r].outs) \in Nat
         /\ \A n \in Nat :
                Place(n) \in Loop!CallId /\ Place(n)[2] = Len(transcript) /\ Place(n)[3] = n
         /\ Loop!Call(r) = Place(Len(run[r].outs) + 1)
<1>1. r = runs /\ \A q \in Loop!Run : q # r => ~Loop!Live(q)
  BY DEF Sound, Alone, Loop!Live
<1>2. /\ transcript \in Seq(Message) /\ transcript # <<>> /\ run[r].conv = transcript
      /\ Loop!Last(transcript).role = "assistant" /\ Len(transcript) \in Nat
  BY DEF Sound, LoopTypes, RunInv, InTurn, Follows
<1>3. Loop!Turn(r) = Loop!Last(transcript) /\ Loop!Last(transcript) \in Message
      /\ Loop!Last(transcript) = transcript[Len(transcript)]
      /\ Len(transcript) \in DOMAIN transcript
  BY <1>2 DEF Loop!Turn, Loop!Last
<1>4. Loop!Turn(r).by \in Loop!Run /\ Loop!Turn(r).uses \in Seq(Loop!Kind)
  BY <1>2, <1>3, MessageTypes
<1>5. run[r].outs \in Seq(Out) /\ Len(run[r].outs) \in Nat
  <2>1. run[r] \in RunState
    BY DEF Sound, LoopTypes
  <2> QED
    BY <2>1 DEF RunState
<1>6. \A n \in Nat :
        Place(n) \in Loop!CallId /\ Place(n)[2] = Len(transcript) /\ Place(n)[3] = n
  BY <1>2, <1>3, <1>4 DEF Place, Loop!CallId, Loop!Run
<1>7. Loop!Call(r) = Place(Len(run[r].outs) + 1)
  BY <1>2, <1>3 DEF Loop!Call, Place
<1> QED
  BY <1>1, <1>2, <1>3, <1>4, <1>5, <1>6, <1>7

\* The call under way gets its result, which the ledger says too.
LEMMA ResultAdded ==
  ASSUME Sound, NEW r \in Loop!Run, run[r].phase \in {"tools", "acting", "acted"},
         Loop!CallsLeft(r),
         NEW out \in Out, Loop!AddsResult(r, out),
         ledger' \in Ledgers, DOMAIN ledger' = DOMAIN ledger \union {Loop!Call(r)},
         \A u \in DOMAIN ledger : u # Loop!Call(r) => ledger'[u] = ledger[u],
         ledger'[Loop!Call(r)] = IF out = "ok" THEN "complete" ELSE "failed",
         out = "ok" => Loop!Call(r) \in effected,
         UNCHANGED <<transcript, outcome, runs, effected, repeated>>
  PROVE  Sound'
<1>0. /\ r = runs /\ \A q \in Loop!Run : q # r => ~Loop!Live(q)
      /\ transcript \in Seq(Message) /\ transcript # <<>> /\ Len(transcript) \in Nat
      /\ run[r].conv = transcript /\ Loop!Turn(r) = Loop!Last(transcript)
      /\ Loop!Turn(r).role = "assistant" /\ Loop!Turn(r).by \in Loop!Run
      /\ Loop!Turn(r).uses \in Seq(Loop!Kind)
      /\ run[r].outs \in Seq(Out) /\ Len(run[r].outs) \in Nat
      /\ \A n \in Nat :
                Place(n) \in Loop!CallId /\ Place(n)[2] = Len(transcript) /\ Place(n)[3] = n
      /\ Loop!Call(r) = Place(Len(run[r].outs) + 1)
  BY AtTurn
<1> DEFINE k == Len(run[r].outs)
           C == Loop!Call(r)
<1>1. /\ run \in [Loop!Run -> RunState] /\ run[r] \in RunState
      /\ run' = [run EXCEPT ![r].phase = "tools", ![r].outs = Append(@, out)]
  BY DEF Sound, LoopTypes, Loop!AddsResult
<1>2. /\ run' \in [Loop!Run -> RunState]
      /\ run'[r].phase = "tools" /\ run'[r].outs = Append(run[r].outs, out)
      /\ run'[r].conv = run[r].conv /\ run'[r].prior = run[r].prior
      /\ \A q \in Loop!Run : q # r => run'[q] = run[q]
  BY <1>0, <1>1 DEF RunState, Loop!Phase
<1>3. LoopTypes'
  BY <1>2 DEF Sound, LoopTypes
<1>4. /\ Len(run'[r].outs) = k + 1 /\ run'[r].outs[k + 1] = out
      /\ \A n \in 1..k : run'[r].outs[n] = run[r].outs[n]
  BY <1>0, <1>2
<1>5. \A n : Place(n)' = Place(n)
  BY DEF Place
<1>6. C[2] = Len(transcript) /\ C[3] = k + 1 /\ C = Place(k + 1)
  BY <1>0
<1>7. InTurn(r)'
  <2>1. Len(run'[r].outs) <= Len(Loop!Last(transcript).uses)
    BY <1>0, <1>4 DEF Loop!CallsLeft
  <2> QED
    BY <1>2, <2>1 DEF Sound, RunInv, InTurn
<1>8. OutsRecorded(r)'
  <2> SUFFICES ASSUME NEW n \in 1..(k + 1)
               PROVE  /\ Place(n) \in DOMAIN ledger'
                      /\ ledger'[Place(n)] = IF run'[r].outs[n] = "ok" THEN "complete" ELSE "failed"
                      /\ run'[r].outs[n] = "ok" => Place(n) \in effected
    BY <1>0, <1>4, <1>5 DEF OutsRecorded
  <2>1. CASE n = k + 1
    BY <1>4, <1>6, <2>1
  <2>2. CASE n \in 1..k
    <3>1. Place(n) \in DOMAIN ledger /\ Place(n) # C
          /\ ledger[Place(n)] = (IF run[r].outs[n] = "ok" THEN "complete" ELSE "failed")
          /\ (run[r].outs[n] = "ok" => Place(n) \in effected)
      BY <1>0, <1>6, <2>2 DEF Sound, RunInv, OutsRecorded
    <3> QED
      BY <1>4, <2>2, <3>1
  <2>3. n = k + 1 \/ n \in 1..k
    BY <1>0
  <2> QED
    BY <2>1, <2>2, <2>3
<1>9. PriorAgrees(r)'
  <2>1. CallsDone(r)' = k + 1
    BY <1>0, <1>2, <1>4 DEF CallsDone
  <2>4. CallsDone(r) \in {k, k + 1}
    BY <1>0 DEF CallsDone
  <2> SUFFICES ASSUME NEW n \in Nat, n > k + 1
               PROVE  /\ Place(n) \in DOMAIN run'[r].prior <=> Place(n) \in DOMAIN ledger'
                      /\ Place(n) \in DOMAIN run'[r].prior =>
                            run'[r].prior[Place(n)] = ledger'[Place(n)]
    BY <1>5, <2>1 DEF PriorAgrees
  <2>2. Place(n) # C /\ n > CallsDone(r)
    BY <1>0, <1>6, <2>4
  <2>3. /\ Place(n) \in DOMAIN run[r].prior <=> Place(n) \in DOMAIN ledger
        /\ Place(n) \in DOMAIN run[r].prior => run[r].prior[Place(n)] = ledger[Place(n)]
    BY <2>2 DEF Sound, RunInv, PriorAgrees
  <2> QED
    BY <1>2, <2>2, <2>3
<1>10. Acting(r)' /\ Follows(r)'
  BY <1>0, <1>2 DEF Acting, Follows, Sound, RunInv
<1>11. LedgerInv'
  BY <1>0, <1>6 DEF Sound, LedgerInv, Loop!KindAt
<1>12. Sent'
  BY <1>0, <1>6, Settled
<1>13. Alone' /\ \A q \in Loop!Run : RunInv(q)'
  BY <1>0, <1>2, <1>7, <1>8, <1>9, <1>10, Others DEF RunInv
<1> QED
  BY <1>3, <1>11, <1>12, <1>13 DEF Sound

-----------------------------------------------------------------------------
\* A dispatched call is in the ledger; one that must not be repeated has had no effect.
LEMMA DispatchStep == ASSUME Sound, NEW r \in Loop!Run, Loop!Dispatch(r) PROVE Sound'
<1>a. run[r].phase = "tools" /\ Loop!CallsLeft(r)
  BY DEF Loop!Dispatch
<1>0. /\ r = runs /\ \A q \in Loop!Run : q # r => ~Loop!Live(q)
      /\ transcript \in Seq(Message) /\ transcript # <<>> /\ Len(transcript) \in Nat
      /\ run[r].conv = transcript /\ Loop!Turn(r) = Loop!Last(transcript)
      /\ Loop!Turn(r).role = "assistant" /\ Loop!Turn(r).by \in Loop!Run
      /\ Loop!Turn(r).uses \in Seq(Loop!Kind)
      /\ run[r].outs \in Seq(Out) /\ Len(run[r].outs) \in Nat
      /\ \A n \in Nat :
                Place(n) \in Loop!CallId /\ Place(n)[2] = Len(transcript) /\ Place(n)[3] = n
      /\ Loop!Call(r) = Place(Len(run[r].outs) + 1)
  BY <1>a, AtTurn
<1> DEFINE k == Len(run[r].outs)
           C == Loop!Call(r)
<1>1. /\ run \in [Loop!Run -> RunState] /\ run[r] \in RunState
      /\ run' = [run EXCEPT ![r].phase = "acting"]
  BY DEF Sound, LoopTypes, Loop!Dispatch, Loop!Goes
<1>2. /\ run' \in [Loop!Run -> RunState]
      /\ run'[r].phase = "acting" /\ run'[r].outs = run[r].outs
      /\ run'[r].conv = run[r].conv /\ run'[r].prior = run[r].prior
      /\ \A q \in Loop!Run : q # r => run'[q] = run[q]
  BY <1>0, <1>1 DEF RunState, Loop!Phase
<1>3. UNCHANGED <<transcript, outcome, runs, effected, repeated>>
  BY DEF Loop!Dispatch
<1>4. /\ ledger' \in Ledgers /\ DOMAIN ledger' = DOMAIN ledger \union {C}
      /\ \A u \in DOMAIN ledger : ledger'[u] = ledger[u]
      /\ C \notin DOMAIN ledger => ledger'[C] = "pending"
  <2>1. CASE C \in DOMAIN ledger
    BY <2>1 DEF Loop!Dispatch, Sound, LoopTypes
  <2>2. CASE C \notin DOMAIN ledger
    <3>1. Loop!Records(C, "pending") /\ C \in Loop!CallId /\ ledger \in Ledgers /\ "pending" \in Status
      BY <1>0, <2>2 DEF Loop!Dispatch, Sound, LoopTypes, Status
    <3> QED
      BY <2>2, <3>1, Recorded
  <2> QED
    BY <2>1, <2>2
<1>5. LoopTypes'
  BY <1>2, <1>3, <1>4 DEF Sound, LoopTypes
<1>6. C[2] = Len(transcript) /\ C[3] = k + 1 /\ C = Place(k + 1)
  BY <1>0
<1>7. \A n : Place(n)' = Place(n)
  BY <1>3 DEF Place
<1>8. Loop!Turn(r).uses[k + 1] = "unsafe" => C \notin effected
  <2> SUFFICES ASSUME Loop!Turn(r).uses[k + 1] = "unsafe", C \in effected PROVE FALSE
    OBVIOUS
  <2>1. Loop!Prior(r) = "none"
    BY DEF Loop!Dispatch, Loop!MayDispatch, Loop!KindOf
  <2>2. C \in DOMAIN ledger
    BY DEF Sound, LedgerInv
  <2>3. C \in DOMAIN run[r].prior
    BY <1>a, <1>0, <1>6, <2>2 DEF Sound, RunInv, PriorAgrees, CallsDone
  <2>4. run[r].prior[C] \in Status
    BY <1>1, <2>3, LedgerTypes DEF RunState
  <2> QED
    BY <2>1, <2>3, <2>4 DEF Loop!Prior, Status
<1>9. InTurn(r)'
  BY <1>a, <1>0, <1>2, <1>3 DEF Sound, RunInv, InTurn, Loop!CallsLeft
<1>10. OutsRecorded(r)'
  <2> SUFFICES ASSUME NEW n \in 1..k
               PROVE  /\ Place(n) \in DOMAIN ledger'
                      /\ ledger'[Place(n)] = IF run[r].outs[n] = "ok" THEN "complete" ELSE "failed"
                      /\ run[r].outs[n] = "ok" => Place(n) \in effected
    BY <1>2, <1>3, <1>7 DEF OutsRecorded
  <2>1. /\ Place(n) \in DOMAIN ledger
        /\ ledger[Place(n)] = (IF run[r].outs[n] = "ok" THEN "complete" ELSE "failed")
        /\ (run[r].outs[n] = "ok" => Place(n) \in effected)
    BY <1>a DEF Sound, RunInv, OutsRecorded
  <2> QED
    BY <1>4, <2>1
<1>11. PriorAgrees(r)'
  <2>1. CallsDone(r)' = k + 1 /\ CallsDone(r) = k
    BY <1>a, <1>2 DEF CallsDone
  <2> SUFFICES ASSUME NEW n \in Nat, n > k + 1
               PROVE  /\ Place(n) \in DOMAIN run'[r].prior <=> Place(n) \in DOMAIN ledger'
                      /\ Place(n) \in DOMAIN run'[r].prior =>
                            run'[r].prior[Place(n)] = ledger'[Place(n)]
    BY <1>7, <2>1 DEF PriorAgrees
  <2>2. Place(n) # C /\ n > CallsDone(r)
    BY <1>0, <1>6, <2>1
  <2>3. /\ Place(n) \in DOMAIN run[r].prior <=> Place(n) \in DOMAIN ledger
        /\ Place(n) \in DOMAIN run[r].prior => run[r].prior[Place(n)] = ledger[Place(n)]
    BY <1>a, <2>2 DEF Sound, RunInv, PriorAgrees
  <2> QED
    BY <1>2, <1>4, <2>2, <2>3
<1>12. Acting(r)'
  <2>1. CallsDone(r)' = k + 1 /\ Place(k + 1)' = C
    BY <1>2, <1>6, <1>7 DEF CallsDone
  <2> QED
    BY <1>0, <1>2, <1>3, <1>4, <1>8, <2>1 DEF Acting
<1>13. Follows(r)'
  BY <1>a, <1>2, <1>3, <1>4 DEF Follows, Sound, RunInv
<1>14. LedgerInv'
  BY <1>0, <1>3, <1>4, <1>6 DEF Sound, LedgerInv, Loop!KindAt
<1>15. Sent'
  BY <1>3, <1>4, Settled
<1>16. Alone' /\ \A q \in Loop!Run : RunInv(q)'
  BY <1>0, <1>2, <1>3, <1>9, <1>10, <1>11, <1>12, <1>13, Others DEF RunInv
<1> QED
  BY <1>5, <1>14, <1>15, <1>16 DEF Sound

\* A call takes effect again only if it may.
LEMMA ActStep == ASSUME Sound, NEW r \in Loop!Run, Loop!Act(r) PROVE Sound'
<1>a. run[r].phase = "acting"
  BY DEF Loop!Act
<1>0. /\ r = runs /\ \A q \in Loop!Run : q # r => ~Loop!Live(q)
      /\ transcript \in Seq(Message) /\ transcript # <<>> /\ Len(transcript) \in Nat
      /\ run[r].conv = transcript /\ Loop!Turn(r) = Loop!Last(transcript)
      /\ Loop!Last(transcript) = transcript[Len(transcript)]
      /\ Len(transcript) \in DOMAIN transcript
      /\ run[r].outs \in Seq(Out) /\ Len(run[r].outs) \in Nat
      /\ \A n \in Nat :
                Place(n) \in Loop!CallId /\ Place(n)[2] = Len(transcript) /\ Place(n)[3] = n
      /\ Loop!Call(r) = Place(Len(run[r].outs) + 1)
  BY <1>a, AtTurn
<1> DEFINE k == Len(run[r].outs)
           C == Loop!Call(r)
<1>1. /\ run \in [Loop!Run -> RunState] /\ run[r] \in RunState
      /\ run' = [run EXCEPT ![r].phase = "acted"]
  BY DEF Sound, LoopTypes, Loop!Act, Loop!Goes
<1>2. /\ run' \in [Loop!Run -> RunState]
      /\ run'[r].phase = "acted" /\ run'[r].outs = run[r].outs
      /\ run'[r].conv = run[r].conv /\ run'[r].prior = run[r].prior
      /\ \A q \in Loop!Run : q # r => run'[q] = run[q]
  BY <1>0, <1>1 DEF RunState, Loop!Phase
<1>3. /\ UNCHANGED <<transcript, ledger, outcome, runs>>
      /\ effected' = effected \union {C}
      /\ repeated' = repeated \union ({C} \intersect effected)
  BY DEF Loop!Act
<1>4. C \in Loop!CallId /\ C[2] = Len(transcript) /\ C[3] = k + 1 /\ C = Place(k + 1)
  BY <1>0
<1>5. LoopTypes'
  BY <1>2, <1>3, <1>4 DEF Sound, LoopTypes
<1>6. \A n : Place(n)' = Place(n)
  BY <1>3 DEF Place
<1>7. CallsDone(r) = k + 1 /\ CallsDone(r)' = k + 1
  BY <1>a, <1>2 DEF CallsDone
<1>8. C \in DOMAIN ledger /\ (Loop!Last(transcript).uses[k + 1] = "unsafe" => C \notin effected)
  BY <1>a, <1>4, <1>7 DEF Sound, RunInv, Acting
<1>9. InTurn(r)' /\ OutsRecorded(r)' /\ Follows(r)'
  BY <1>a, <1>0, <1>2, <1>3, <1>6 DEF Sound, RunInv, InTurn, OutsRecorded, Follows
<1>10. PriorAgrees(r)'
  BY <1>a, <1>2, <1>3, <1>6, <1>7 DEF Sound, RunInv, PriorAgrees
<1>11. Acting(r)'
  BY <1>2, <1>3, <1>4, <1>6, <1>7, <1>8 DEF Acting
<1>12. LedgerInv'
  <2>1. C \in effected => (C[2] \in DOMAIN transcript /\ Loop!KindAt(C) # "unsafe")
    BY <1>0, <1>4, <1>8 DEF Loop!KindAt
  <2> QED
    BY <1>3, <1>8, <2>1 DEF Sound, LedgerInv, Loop!KindAt
<1>13. Sent'
  BY <1>3, Settled
<1>14. Alone' /\ \A q \in Loop!Run : RunInv(q)'
  BY <1>0, <1>2, <1>3, <1>9, <1>10, <1>11, Others DEF RunInv
<1> QED
  BY <1>5, <1>12, <1>13, <1>14 DEF Sound

\* However a call gets its result, by the ledger, refused, made or failed.
LEMMA ResultStep ==
  ASSUME Sound, NEW r \in Loop!Run,
         Loop!Replay(r) \/ Loop!RefuseUnlisted(r) \/ Loop!Settle(r) \/ Loop!SettleFailed(r)
  PROVE  Sound'
<1>0. run[r].phase \in {"tools", "acting", "acted"} /\ Loop!CallsLeft(r)
  BY DEF Loop!Replay, Loop!RefuseUnlisted, Loop!Settle, Loop!SettleFailed, Sound, RunInv,
         InTurn, Follows, Loop!Turn, Loop!CallsLeft
<1>1. /\ Loop!Call(r) = Place(Len(run[r].outs) + 1) /\ Loop!Call(r) \in Loop!CallId
      /\ Len(run[r].outs) \in Nat
      /\ run[r].prior \in Ledgers /\ ledger \in Ledgers
  BY <1>0, AtTurn DEF Sound, LoopTypes, RunState
<1> DEFINE C == Loop!Call(r)
<1>2. CASE Loop!Replay(r)
  <2>1. run[r].phase = "tools" /\ C \in DOMAIN run[r].prior
        /\ run[r].prior[C] = Loop!Prior(r) /\ Loop!Prior(r) \in {"complete", "failed"}
    BY <1>2 DEF Loop!Replay, Loop!Prior
  <2>2. C \in DOMAIN ledger /\ ledger[C] = Loop!Prior(r)
    BY <1>1, <2>1 DEF Sound, RunInv, PriorAgrees, CallsDone
  <2>3. PICK out \in Out : Loop!AddsResult(r, out) /\ (out = "ok" <=> Loop!Prior(r) = "complete")
    BY <1>2 DEF Loop!Replay, Out
  <2>4. out = "ok" => C \in effected
    BY <2>2, <2>3 DEF Sound, LedgerInv
  <2>5. UNCHANGED <<transcript, ledger, outcome, runs, effected, repeated>>
    BY <1>2 DEF Loop!Replay
  <2>6. DOMAIN ledger' = DOMAIN ledger \union {C} /\ ledger' \in Ledgers
    BY <1>1, <2>2, <2>5
  <2>7. ledger'[C] = IF out = "ok" THEN "complete" ELSE "failed"
    BY <2>1, <2>2, <2>3, <2>5
  <2> QED
    BY <1>0, <2>3, <2>4, <2>5, <2>6, <2>7, ResultAdded
<1>3. ASSUME NEW st \in Status, NEW out \in Out, Loop!Records(C, st),
             Loop!AddsResult(r, out),
             st = IF out = "ok" THEN "complete" ELSE "failed", out = "ok" => C \in effected,
             UNCHANGED <<transcript, outcome, runs, effected, repeated>>
      PROVE  Sound'
  <2>1. /\ ledger' \in Ledgers /\ DOMAIN ledger' = DOMAIN ledger \union {C}
        /\ ledger'[C] = st
        /\ \A v \in DOMAIN ledger : v # C => ledger'[v] = ledger[v]
    BY <1>1, <1>3, Recorded
  <2> QED
    BY <1>0, <1>3, <2>1, ResultAdded
<1>4. CASE Loop!RefuseUnlisted(r) \/ Loop!SettleFailed(r)
  BY <1>3, <1>4 DEF Loop!RefuseUnlisted, Loop!SettleFailed, Status, Out
<1>5. CASE Loop!Settle(r)
  <2>1. C \in effected
    BY <1>1, <1>5 DEF Loop!Settle, Sound, RunInv, Acting, CallsDone
  <2> QED
    BY <1>3, <1>5, <2>1 DEF Loop!Settle, Status, Out
<1> QED
  BY <1>2, <1>4, <1>5

\* The message that ends a turn has a result for each of its calls.
LEMMA ReturnStep == ASSUME Sound, NEW r \in Loop!Run, Loop!ReturnResults(r) PROVE Sound'
<1>a. run[r].phase = "tools" /\ ~Loop!CallsLeft(r)
  BY DEF Loop!ReturnResults
<1>0. /\ r = runs /\ \A q \in Loop!Run : q # r => ~Loop!Live(q)
      /\ transcript \in Seq(Message) /\ transcript # <<>> /\ Len(transcript) \in Nat
      /\ run[r].conv = transcript /\ Loop!Turn(r) = Loop!Last(transcript)
      /\ Loop!Last(transcript) = transcript[Len(transcript)]
      /\ Len(transcript) \in DOMAIN transcript
      /\ Loop!Turn(r).role = "assistant" /\ Loop!Turn(r).by \in Loop!Run
      /\ Loop!Turn(r).uses \in Seq(Loop!Kind)
      /\ run[r].outs \in Seq(Out) /\ Len(run[r].outs) \in Nat
  BY <1>a, AtTurn
<1> DEFINE m == Loop!Results(Loop!Turn(r), run[r].outs)
<1>1. m \in Message /\ m.role = "results" /\ m.by = Loop!Turn(r).by /\ m.outs = run[r].outs
  BY <1>0 DEF Loop!Results, Message
<1> HIDE DEF m
<1>2. transcript' = Append(transcript, m)
      /\ run' = [run EXCEPT ![r].phase = "turn", ![r].conv = Append(@, m), ![r].outs = <<>>]
      /\ UNCHANGED <<ledger, outcome, runs, effected, repeated>>
  BY <1>0 DEF Loop!ReturnResults, Loop!Persist, m
<1>3. /\ transcript' \in Seq(Message) /\ transcript' # <<>> /\ Loop!Last(transcript') = m
      /\ transcript'[Len(transcript) + 1] = m
      /\ transcript'[Len(transcript)] = Loop!Last(transcript)
  BY <1>0, <1>1, <1>2, Grown
<1>4. run \in [Loop!Run -> RunState] /\ run[r] \in RunState
  BY DEF Sound, LoopTypes
<1>5. /\ run' \in [Loop!Run -> RunState]
      /\ run'[r].phase = "turn" /\ run'[r].outs = <<>>
      /\ run'[r].conv = transcript' /\ run'[r].prior = run[r].prior
      /\ \A q \in Loop!Run : q # r => run'[q] = run[q]
  <2>1. run' = [run EXCEPT ![r].phase = "turn", ![r].conv = transcript', ![r].outs = <<>>]
    BY <1>0, <1>2, <1>4
  <2> HIDE <1>2
  <2>2. <<>> \in Seq(Out)
    OBVIOUS
  <2> QED
    BY <1>3, <1>4, <2>1, <2>2 DEF RunState, Loop!Phase
<1>6. LoopTypes'
  BY <1>2, <1>3, <1>5 DEF Sound, LoopTypes
<1>7. ASSUME NEW i \in Nat, i = Len(transcript) + 1 PROVE Loop!Answered(i)'
  <2>1. transcript'[i] = m /\ i - 1 = Len(transcript) /\ transcript'[i - 1] = Loop!Turn(r)
    BY <1>0, <1>3, <1>7
  <2>2. Len(run[r].outs) = Len(Loop!Turn(r).uses)
    BY <1>a, <1>0 DEF Sound, RunInv, InTurn, Loop!CallsLeft
  <2>3. ASSUME NEW n \in DOMAIN m.outs
        PROVE  LET u == <<Loop!Turn(r).by, i - 1, n>>
               IN /\ u \in DOMAIN ledger
                  /\ ledger[u] = IF m.outs[n] = "ok" THEN "complete" ELSE "failed"
                  /\ m.outs[n] = "ok" => u \in effected
    <3>1. n \in 1..Len(run[r].outs) /\ Place(n) = <<Loop!Turn(r).by, i - 1, n>>
      BY <1>0, <1>1, <2>1 DEF Place
    <3> QED
      BY <1>a, <1>1, <3>1 DEF Sound, RunInv, OutsRecorded
  <2> QED
    BY <1>0, <1>1, <1>2, <2>1, <2>2, <2>3 DEF Loop!Answered
<1>8. LedgerInv' /\ Sent'
  BY <1>0, <1>1, <1>2, <1>7, Grows
<1>9. RunInv(r)'
  <2>1. DOMAIN run[r].prior \subseteq DOMAIN ledger
    BY <1>a DEF Sound, RunInv, Follows
  <2> QED
    BY <1>1, <1>2, <1>3, <1>5, <2>1 DEF RunInv, InTurn, OutsRecorded, PriorAgrees, Acting,
                                        Follows
<1>10. Alone' /\ \A q \in Loop!Run : RunInv(q)'
  BY <1>0, <1>2, <1>5, <1>9, Others
<1> QED
  BY <1>6, <1>8, <1>10 DEF Sound

\* An answer follows a message that is not one.
LEMMA AnswerStep ==
  ASSUME Loop!LoopConstants, Sound, NEW r \in Loop!Run, NEW uses \in Answers,
         Loop!Answer(r, uses)
  PROVE  Sound'
<1>a. run[r].phase = "turn"
  BY DEF Loop!Answer
<1>0. /\ r = runs /\ \A q \in Loop!Run : q # r => ~Loop!Live(q)
      /\ transcript \in Seq(Message) /\ transcript # <<>> /\ Len(transcript) \in Nat
      /\ run[r].conv = transcript /\ run[r].outs = <<>>
      /\ Loop!Last(transcript).role # "assistant"
      /\ DOMAIN run[r].prior \subseteq DOMAIN ledger
  BY <1>a DEF Sound, Alone, Loop!Live, LoopTypes, RunInv, Follows
<1> DEFINE m == Loop!Assistant(r, uses)
<1>1. /\ m \in Message /\ m.role = "assistant" /\ m.uses = uses
      /\ uses \in Seq(Loop!Kind) /\ m.by = r
  BY DEF Loop!Assistant, Message, Loop!LoopConstants
<1> HIDE DEF m
<1>2. /\ transcript' = Append(transcript, m)
      /\ run' = [run EXCEPT ![r].phase = IF uses = <<>> THEN "done" ELSE "tools",
                            ![r].conv = Append(transcript, m)]
      /\ UNCHANGED <<ledger, outcome, runs, effected, repeated>>
  BY <1>0 DEF Loop!Answer, Loop!Persist, m
<1>3. /\ transcript' \in Seq(Message) /\ transcript' # <<>> /\ Loop!Last(transcript') = m
      /\ Len(transcript') = Len(transcript) + 1
  BY <1>0, <1>1, <1>2, Grown
<1>4. run \in [Loop!Run -> RunState] /\ run[r] \in RunState
  BY DEF Sound, LoopTypes
<1>5. /\ run' \in [Loop!Run -> RunState]
      /\ run'[r].phase = IF uses = <<>> THEN "done" ELSE "tools"
      /\ run'[r].outs = <<>> /\ run'[r].conv = transcript' /\ run'[r].prior = run[r].prior
      /\ \A q \in Loop!Run : q # r => run'[q] = run[q]
  BY <1>0, <1>2, <1>3, <1>4 DEF RunState, Loop!Phase
<1>6. LoopTypes'
  BY <1>2, <1>3, <1>5 DEF Sound, LoopTypes
<1>7. LedgerInv' /\ Sent'
  BY <1>0, <1>1, <1>2, Grows
<1>8. ASSUME NEW n \in Nat PROVE Place(n)' \notin DOMAIN ledger'
  <2>1. Place(n)'[2] = Len(transcript) + 1
    BY <1>3 DEF Place
  <2>2. \A u \in DOMAIN ledger : u[2] <= Len(transcript)
    BY DEF Sound, LedgerInv
  <2> QED
    BY <1>0, <1>2, <2>1, <2>2
<1>9. RunInv(r)'
  <2>1. InTurn(r)' /\ OutsRecorded(r)' /\ Acting(r)'
    BY <1>1, <1>3, <1>5 DEF InTurn, OutsRecorded, Acting
  <2>2. PriorAgrees(r)'
    BY <1>0, <1>2, <1>5, <1>8 DEF PriorAgrees
  <2>3. Follows(r)'
    BY <1>0, <1>2, <1>5 DEF Follows
  <2> QED
    BY <2>1, <2>2, <2>3 DEF RunInv
<1>10. Alone' /\ \A q \in Loop!Run : RunInv(q)'
  BY <1>0, <1>2, <1>5, <1>9, Others
<1> QED
  BY <1>6, <1>7, <1>10 DEF Sound

\* A step that leaves the tables alone and the execution outside any turn.
LEMMA QuietStep ==
  ASSUME Sound, NEW r \in Loop!Run, run' \in [Loop!Run -> RunState], runs' = r,
         \A q \in Loop!Run : q # r => (run'[q] = run[q] /\ ~Loop!Live(q)),
         run'[r].phase \notin {"tools", "acting", "acted"}, Follows(r)',
         outcome' \in {"open", "completed", "dead"},
         UNCHANGED <<transcript, ledger, effected, repeated>>
  PROVE  Sound'
<1>1. LoopTypes'
  BY DEF Sound, LoopTypes, Loop!Run
<1>2. RunInv(r)'
  BY DEF RunInv, InTurn, OutsRecorded, PriorAgrees, Acting
<1>3. Alone' /\ \A q \in Loop!Run : RunInv(q)'
  BY <1>2, Others
<1>4. LedgerInv' /\ Sent'
  BY DEF Sound, LedgerInv, Loop!KindAt, Sent, Loop!Answered
<1> QED
  BY <1>1, <1>3, <1>4 DEF Sound

\* The beginning and the end of an execution, and its first read.
LEMMA EdgeStep ==
  ASSUME Sound, NEW r \in Loop!Run, ~crossed',
         \/ Loop!Claim(r) \/ Loop!LoadMessages(r) \/ Loop!MaxTurnsReached(r)
         \/ Loop!Complete(r) \/ Loop!Crash(r) \/ Loop!Throw(r)
  PROVE  Sound'
<1>1. run \in [Loop!Run -> RunState] /\ run[r] \in RunState /\ transcript \in Seq(Message)
  BY DEF Sound, LoopTypes
<1>2. runs' = r /\ \A q \in Loop!Run : q # r => ~Loop!Live(q)
  BY DEF Loop!Claim, Loop!LoadMessages, Loop!MaxTurnsReached, Loop!Complete, Loop!Crash,
         Loop!Throw, Sound, Alone, Loop!Live
<1>3. outcome' \in {"open", "completed", "dead"}
  BY DEF Loop!Claim, Loop!LoadMessages, Loop!MaxTurnsReached, Loop!Complete, Loop!Crash,
         Loop!Throw, Sound, LoopTypes
<1>4. UNCHANGED <<transcript, ledger, effected, repeated>>
  BY DEF Loop!Claim, Loop!LoadMessages, Loop!MaxTurnsReached, Loop!Complete, Loop!Crash,
         Loop!Throw
<1>5. Follows(r) /\ (Loop!Claim(r) => run[r].outs = <<>>)
  BY <1>2 DEF Sound, RunInv, Follows, Loop!Claim, Loop!Live, Alone, LoopTypes
<1>6. CASE Loop!Claim(r) \/ Loop!MaxTurnsReached(r)
  <2>1. PICK ph \in {"loading", "done"} : Loop!Goes(r, ph)
    BY <1>6 DEF Loop!Claim, Loop!MaxTurnsReached
  <2>2. run' \in [Loop!Run -> RunState] /\ (\A q \in Loop!Run : q # r => run'[q] = run[q])
        /\ run'[r].phase = ph /\ run'[r].outs = run[r].outs /\ run'[r].conv = run[r].conv
    BY <1>1, <2>1 DEF Loop!Goes, RunState, Loop!Phase
  <2>3. Follows(r)'
    <3>1. CASE Loop!Claim(r)
      <4>1. run'[r].phase = "loading" /\ run'[r].outs = <<>>
        BY <1>1, <1>5, <2>2, <3>1 DEF Loop!Claim, Loop!Goes, RunState
      <4> QED
        BY <4>1 DEF Follows
    <3>2. CASE Loop!MaxTurnsReached(r)
      <4>1. run'[r].phase = "done" /\ run[r].phase = "turn"
        BY <1>1, <3>2 DEF Loop!MaxTurnsReached, Loop!Goes, RunState
      <4> QED
        BY <1>4, <1>5, <2>2, <4>1 DEF Follows
    <3> QED
      BY <1>6, <3>1, <3>2
  <2> QED
    BY <1>2, <1>3, <1>4, <2>2, <2>3, QuietStep
<1>7. CASE Loop!LoadMessages(r)
  <2>1. run' = [run EXCEPT ![r].phase = "loaded", ![r].conv = transcript]
    BY <1>7 DEF Loop!LoadMessages
  <2>2. run' \in [Loop!Run -> RunState] /\ (\A q \in Loop!Run : q # r => run'[q] = run[q])
        /\ run'[r].phase = "loaded" /\ run'[r].outs = run[r].outs
        /\ run'[r].conv = transcript
    BY <1>1, <2>1 DEF RunState, Loop!Phase
  <2>3. Follows(r)'
    BY <1>4, <1>5, <1>7, <2>2 DEF Follows, Loop!LoadMessages
  <2> QED
    BY <1>2, <1>3, <1>4, <2>2, <2>3, QuietStep
<1>8. CASE Loop!Complete(r) \/ Loop!Crash(r) \/ Loop!Throw(r)
  <2>1. run' = [run EXCEPT ![r] = [Loop!Idle EXCEPT !.phase = "gone"]]
    BY <1>8 DEF Loop!Complete, Loop!Crash, Loop!Throw
  <2>2. [Loop!Idle EXCEPT !.phase = "gone"]
          = [phase |-> "gone", conv |-> <<>>, prior |-> <<>>, outs |-> <<>>]
    BY DEF Loop!Idle
  <2>3. [phase |-> "gone", conv |-> <<>>, prior |-> <<>>, outs |-> <<>>] \in RunState
    BY EmptyLedger DEF RunState, Loop!Phase
  <2>4. run' \in [Loop!Run -> RunState] /\ (\A q \in Loop!Run : q # r => run'[q] = run[q])
        /\ run'[r].phase = "gone" /\ run'[r].outs = <<>>
    BY <1>1, <2>1, <2>2, <2>3
  <2>5. Follows(r)'
    BY <2>4 DEF Follows
  <2> QED
    BY <1>2, <1>3, <1>4, <2>4, <2>5, QuietStep
<1> QED
  BY <1>6, <1>7, <1>8

\* An execution goes on where the transcript ends.
LEMMA LoadStep == ASSUME Sound, NEW r \in Loop!Run, Loop!LoadTools(r) PROVE Sound'
<1>a. run[r].phase = "loaded"
  BY DEF Loop!LoadTools
<1>0. /\ r = runs /\ \A q \in Loop!Run : q # r => ~Loop!Live(q)
      /\ transcript \in Seq(Message) /\ Len(transcript) \in Nat /\ ledger \in Ledgers
      /\ run[r].conv = transcript /\ run[r].outs = <<>>
      /\ run \in [Loop!Run -> RunState] /\ run[r] \in RunState
  BY <1>a DEF Sound, Alone, Loop!Live, LoopTypes, RunInv, Follows
<1>1. UNCHANGED <<ledger, outcome, runs, effected, repeated>>
  BY DEF Loop!LoadTools
<1>2. CASE transcript = <<>>
  <2>1. /\ transcript' = Append(transcript, Loop!Prompt) /\ transcript' = <<Loop!Prompt>>
        /\ run' = [run EXCEPT ![r].phase = "turn", ![r].prior = ledger,
                              ![r].conv = <<Loop!Prompt>>]
    BY <1>0, <1>2 DEF Loop!LoadTools, Loop!Persist
  <2>2. Loop!Prompt \in Message /\ Loop!Prompt.role = "prompt"
    BY DEF Loop!Prompt, Message
  <2>3. /\ transcript' \in Seq(Message) /\ transcript' # <<>>
        /\ Loop!Last(transcript') = Loop!Prompt
    <3>1. /\ <<Loop!Prompt>> \in Seq(Message) /\ <<Loop!Prompt>> # <<>>
          /\ Loop!Last(<<Loop!Prompt>>) = Loop!Prompt
      BY <2>2 DEF Loop!Last
    <3> QED
      BY <2>1, <3>1
  <2>4. /\ run' \in [Loop!Run -> RunState] /\ (\A q \in Loop!Run : q # r => run'[q] = run[q])
        /\ run'[r].phase = "turn" /\ run'[r].outs = <<>> /\ run'[r].conv = transcript'
        /\ run'[r].prior = ledger
    BY <1>0, <2>1, <2>3 DEF RunState, Loop!Phase
  <2>5. LoopTypes'
    BY <1>1, <2>3, <2>4 DEF Sound, LoopTypes
  <2>6. LedgerInv' /\ Sent'
    BY <1>1, <1>2, <2>1, <2>2, Grows
  <2>7. RunInv(r)'
    BY <1>1, <2>2, <2>3, <2>4 DEF RunInv, InTurn, OutsRecorded, PriorAgrees, Acting, Follows
  <2>8. Alone' /\ \A q \in Loop!Run : RunInv(q)'
    BY <1>0, <1>1, <2>4, <2>7, Others
  <2> QED
    BY <2>5, <2>6, <2>8 DEF Sound
<1>3. CASE transcript # <<>>
  <2>1. /\ UNCHANGED transcript
        /\ run' = [run EXCEPT ![r].phase = Loop!NextPhase(transcript), ![r].prior = ledger]
    BY <1>0, <1>3 DEF Loop!LoadTools
  <2>2. Loop!NextPhase(transcript) \in {"done", "tools", "turn"}
    BY DEF Loop!NextPhase
  <2>3. /\ run' \in [Loop!Run -> RunState] /\ (\A q \in Loop!Run : q # r => run'[q] = run[q])
        /\ run'[r].phase = Loop!NextPhase(transcript) /\ run'[r].outs = <<>>
        /\ run'[r].conv = transcript /\ run'[r].prior = ledger
    BY <1>0, <2>1, <2>2 DEF RunState, Loop!Phase
  <2>4. LoopTypes'
    BY <1>1, <2>1, <2>3 DEF Sound, LoopTypes
  <2>5. Loop!Last(transcript) \in Message
    BY <1>0, <1>3 DEF Loop!Last
  <2>6. Loop!NextPhase(transcript) = "tools" =>
          (Loop!Last(transcript).role = "assistant" /\ Loop!Last(transcript).uses # <<>>
           /\ Len(Loop!Last(transcript).uses) \in Nat)
    BY <1>3, <2>5, MessageTypes DEF Loop!NextPhase, Loop!Ended
  <2>7. Loop!NextPhase(transcript) = "turn" => Loop!Last(transcript).role # "assistant"
    BY DEF Loop!NextPhase
  <2>8. InTurn(r)'
    BY <1>3, <2>1, <2>2, <2>3, <2>6 DEF InTurn
  <2>9. OutsRecorded(r)' /\ PriorAgrees(r)' /\ Acting(r)'
    BY <1>1, <2>1, <2>2, <2>3 DEF OutsRecorded, PriorAgrees, Acting
  <2>10. Follows(r)'
    BY <1>1, <1>3, <2>1, <2>2, <2>3, <2>7 DEF Follows
  <2>11. LedgerInv' /\ Sent'
    BY <1>1, <2>1 DEF Sound, LedgerInv, Loop!KindAt, Sent, Loop!Answered
  <2>12. Alone' /\ \A q \in Loop!Run : RunInv(q)'
    BY <1>0, <1>1, <2>3, <2>8, <2>9, <2>10, Others DEF RunInv
  <2> QED
    BY <2>4, <2>11, <2>12 DEF Sound
<1> QED
  BY <1>2, <1>3

\* That executions have overlapped is never forgotten.
LEMMA Crossing ==
  ASSUME Loop!Next PROVE UNCHANGED crossed \/ \E b \in BOOLEAN : crossed' = (crossed \/ b)
<1>1. ASSUME NEW r \in Loop!Run, Loop!Claim(r)
      PROVE  \E b \in BOOLEAN : crossed' = (crossed \/ b)
  BY <1>1, Zenon DEF Loop!Claim
<1> QED
  BY <1>1 DEF Loop!Next, Loop!LoadMessages, Loop!LoadTools, Loop!MaxTurnsReached,
              Loop!Answer, Loop!Replay,
     Loop!RefuseUnlisted, Loop!Dispatch, Loop!Act, Loop!Settle, Loop!SettleFailed,
     Loop!ReturnResults, Loop!Complete, Loop!Crash, Loop!Throw

\* As long as no two executions overlap, every step of each keeps the invariant.
LEMMA StepLoop == ASSUME Loop!LoopConstants, LoopInv, [Loop!Next]_(Loop!vars) PROVE LoopInv'
<1>1. CASE UNCHANGED Loop!vars
  <2>1. CASE crossed
    BY <1>1, <2>1 DEF Loop!vars, LoopInv
  <2>2. CASE ~crossed
    <3>1. Sound
      BY <2>2 DEF LoopInv
    <3>2. Sound'
      BY <1>1, <3>1 DEF Loop!vars, Sound, LoopTypes, Alone, Loop!Live, RunInv, InTurn,
                        OutsRecorded, PriorAgrees,
                        Acting, Follows, Place, CallsDone, LedgerInv, Loop!KindAt, Sent,
                        Loop!Answered
    <3> QED
      BY <1>1, <3>2 DEF Loop!vars, LoopInv
  <2> QED
    BY <2>1, <2>2
<1>2. CASE Loop!Next
  <2>1. crossed' \in BOOLEAN /\ (crossed => crossed')
    <3>1. crossed \in BOOLEAN
      BY DEF LoopInv
    <3> QED
      BY <1>2, <3>1, Crossing, Zenon
  <2>2. CASE crossed'
    BY <2>1, <2>2 DEF LoopInv
  <2>3. CASE ~crossed'
    <3>1. Sound
      BY <2>1, <2>3 DEF LoopInv
    <3>2. PICK r \in Loop!Run :
            \/ Loop!Claim(r) \/ Loop!LoadMessages(r) \/ Loop!LoadTools(r)
            \/ Loop!MaxTurnsReached(r) \/ \E uses \in Answers : Loop!Answer(r, uses)
            \/ Loop!Replay(r) \/ Loop!RefuseUnlisted(r) \/ Loop!Dispatch(r) \/ Loop!Act(r)
            \/ Loop!Settle(r) \/ Loop!SettleFailed(r)
            \/ Loop!ReturnResults(r) \/ Loop!Complete(r) \/ Loop!Crash(r) \/ Loop!Throw(r)
      BY <1>2 DEF Loop!Next
    <3>3. Sound'
      BY <2>3, <3>1, <3>2, EdgeStep, LoadStep, AnswerStep, ResultStep, DispatchStep,
         ActStep, ReturnStep
    <3> QED
      BY <2>1, <3>3 DEF LoopInv
  <2> QED
    BY <2>2, <2>3
<1> QED
  BY <1>1, <1>2

LEMMA LoopInvariant == ASSUME Loop!LoopConstants PROVE Loop!Spec => []LoopInv
  BY InitLoop, StepLoop, PTL DEF Loop!Spec

\* However often the job is killed between two statements and resumed, a tool that is not
\* idempotent takes effect once, as long as no two executions have overlapped.
THEOREM UnsafeCallsOnce == ASSUME Loop!LoopConstants PROVE Loop!Spec => []UnsafeOnce
<1>1. LoopInv => UnsafeOnce
  BY DEF LoopInv, Sound, LedgerInv, UnsafeOnce, Loop!UnsafeOnce
<1> QED
  BY LoopInvariant, <1>1, PTL

\* The messages that any such history leaves in the table are a conversation the provider
\* accepts: every turn with calls is followed by the results the ledger has of them.
THEOREM TranscriptAccepted == ASSUME Loop!LoopConstants PROVE Loop!Spec => []TranscriptSound
<1>1. LoopInv => TranscriptSound
  BY DEF LoopInv, Sound, Sent, TranscriptSound, Loop!TranscriptSound
<1> QED
  BY LoopInvariant, <1>1, PTL

\* After a final answer no execution, however late it is resumed, adds a message, records a
\* tool call or makes one.
THEOREM NothingAfterFinal == ASSUME Loop!LoopConstants PROVE Loop!Spec => FinalAnswerStands
<1>1. LoopInv /\ [Loop!Next]_(Loop!vars) =>
        [(~crossed' /\ Loop!Ended(transcript))
            => UNCHANGED <<transcript, ledger, effected, repeated>>]_(Loop!vars)
  <2> SUFFICES ASSUME LoopInv, Loop!Next, ~crossed', Loop!Ended(transcript)
               PROVE  UNCHANGED <<transcript, ledger, effected, repeated>>
    OBVIOUS
  <2>1. Sound
    BY Crossing, Zenon DEF LoopInv
  <2>2. ASSUME NEW r \in Loop!Run
        PROVE  run[r].phase \notin {"turn", "tools", "acting", "acted"}
    BY <2>1 DEF Sound, RunInv, InTurn, Follows, Loop!Ended
  <2>3. ASSUME NEW r \in Loop!Run, Loop!LoadTools(r)
        PROVE  UNCHANGED <<transcript, ledger, effected, repeated>>
    <3>1. run[r].conv = transcript
      BY <2>1, <2>3 DEF Loop!LoadTools, Sound, RunInv, Follows
    <3> QED
      BY <2>3, <3>1 DEF Loop!LoadTools, Loop!Ended
  <2> QED
    BY <2>2, <2>3 DEF Loop!Next, Loop!Claim, Loop!LoadMessages, Loop!MaxTurnsReached,
                      Loop!Answer, Loop!Replay,
       Loop!RefuseUnlisted, Loop!Dispatch, Loop!Act, Loop!Settle, Loop!SettleFailed,
       Loop!ReturnResults, Loop!Complete, Loop!Crash, Loop!Throw
<1> QED
  BY LoopInvariant, <1>1, PTL DEF Loop!Spec, FinalAnswerStands, Loop!FinalAnswerStands
=============================================================================
