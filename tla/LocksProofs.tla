---------------------------- MODULE LocksProofs ----------------------------
(***************************************************************************)
(* Proofs about the two locks, for any set of processes.                   *)
(*                                                                         *)
(* The row of a database lock, for any hosts, any pids and any setting of  *)
(* the times: a process works under the lock alone unless it, or one with  *)
(* its pid, has gone without a refresh for longer than it may, is exiting, *)
(* or lost its row in place of another.  The argument is that it keeps its *)
(* row until then: whoever deletes a row looked at one whose owner was     *)
(* dead or loose, or finds by its pid alone the row of a namesake, and     *)
(* then it has lost its own, which takes a loose namesake.                 *)
(*                                                                         *)
(* The directory of a PGLite database: mkdir makes it for one process, and *)
(* it stays that process's while it claims it, unless another removes it   *)
(* without having seen its owner, which the history variable records.      *)
(***************************************************************************)
EXTENDS Locks, FiniteSetTheorems, TLAPS

\* The variables, as far as the argument needs them.
RowTypes ==
  /\ lockRow \in {NoRow} \union [owner : Contenders, age : Nat, idle : Nat]
  /\ lockPhase \in [Contenders -> Lock!Phase]
  /\ lockSeen \in [Contenders -> Contenders \union {Nobody}]
  /\ loose \subseteq Contenders

\* Only a working or a dead process has a row.
OwnerInv == Lock!Held => lockPhase[lockRow.owner] \in {"holding", "dead"}

\* A working process with an old row is loose.
LapseInv ==
  (Lock!Held /\ Lock!Working(lockRow.owner) /\ lockRow.idle > Lock!Patience)
    => lockRow.owner \in loose

\* Whoever is about to delete a row saw one of a dead or of a loose process.
SeenInv ==
  \A p \in Contenders :
    /\ lockPhase[p] \in {"takeover", "reaping"} =>
         (lockSeen[p] \in Contenders /\ lockPhase[lockSeen[p]] = "dead")
    /\ lockPhase[p] = "breaking" =>
         (lockSeen[p] \in Contenders /\ (lockPhase[lockSeen[p]] = "dead" \/ lockSeen[p] \in loose))

\* A working process has its row, or a namesake of it is loose.
LooseNamesake(p) == \E r \in Lock!Namesakes(p) : r \in loose
KeepsRow ==
  \A p \in Contenders :
    (Lock!Working(p) /\ ~LooseNamesake(p)) => (Lock!Held /\ lockRow.owner = p)

LockInv == RowTypes /\ OwnerInv /\ LapseInv /\ SeenInv /\ KeepsRow

-----------------------------------------------------------------------------
\* The patience of the operator and of the contenders bounds both of their limits.
LEMMA PatienceLimits ==
  ASSUME Lock!LockConstants
  PROVE  Lock!Patience \in Nat /\ Lock!Patience <= LockTtl /\ Lock!Patience <= MaxAge
<1>1. \E m \in {LockTtl, MaxAge} : \A n \in {LockTtl, MaxAge} : m <= n
  BY DEF Lock!LockConstants
<1>2. Lock!Patience \in {LockTtl, MaxAge} /\ \A n \in {LockTtl, MaxAge} : Lock!Patience <= n
  BY <1>1 DEF Lock!Patience
<1>3. QED
  BY <1>2 DEF Lock!LockConstants

\* A row that a contender may supersede has gone without a refresh for too long.
LEMMA StaleRows ==
  ASSUME Lock!LockConstants, RowTypes, Lock!Held
  PROVE  Lock!Expired \/ lockRow.idle > MaxAge => lockRow.idle > Lock!Patience
BY PatienceLimits DEF Lock!LockConstants, RowTypes, Lock!Held, Lock!Expired

\* A process is its own namesake, and namesakes share their namesakes.
LEMMA Namesakes ==
  ASSUME NEW p \in Contenders
  PROVE  /\ p \in Lock!Namesakes(p)
         /\ \A q \in Contenders : PidOf[q] = PidOf[p] => Lock!Namesakes(q) = Lock!Namesakes(p)
BY DEF Lock!Namesakes

\* A statement that finds a row by the pid of p, which works, deletes it: whoever loses
\* the row shares its pid with p, and either is p or p had lost its own.
LEMMA RobbedByNamesake ==
  ASSUME LockInv, NEW p \in Contenders, Lock!Working(p), Lock!Matches(p),
         lockRow.owner # p
  PROVE  LooseNamesake(lockRow.owner)
<1>1. lockRow.owner \in Contenders /\ PidOf[lockRow.owner] = PidOf[p]
  BY DEF LockInv, RowTypes, Lock!Matches, Lock!Held
<1>2. LooseNamesake(p)
  BY DEF LockInv, KeepsRow
<1> QED
  BY <1>1, <1>2, Namesakes DEF LooseNamesake

\* Initially nobody works and there is no row.
LEMMA LockInit == ASSUME Lock!LockConstants, Lock!Init PROVE LockInv
BY DEF Lock!LockConstants, Lock!Init, LockInv, RowTypes, OwnerInv, LapseInv, SeenInv,
       KeepsRow,
       Lock!Held, Lock!Working, Lock!Phase

\* Every statement of every process, and the clock, keep the invariant.
LEMMA LockStep ==
  ASSUME Lock!LockConstants, LockInv, [Lock!Next]_(Lock!vars) PROVE LockInv'
<1> USE Lock!LockConstants
    DEF LockInv, RowTypes, OwnerInv, LapseInv, SeenInv, Lock!Held, Lock!Working, Lock!Phase
\* What is loose stays so, and it suffices to look at those who lose their row.
<1>0. ASSUME loose \subseteq loose',
             \A q \in Contenders :
               Lock!Working(q)' =>
                 \/ (Lock!Held /\ lockRow.owner = q)'
                 \/ LooseNamesake(q) \/ q \in loose'
                 \/ Lock!Working(q) /\ ~(Lock!Held /\ lockRow.owner = q)
      PROVE  KeepsRow'
  <2> SUFFICES ASSUME NEW q \in Contenders, Lock!Working(q)',
                      ~(Lock!Held /\ lockRow.owner = q)'
               PROVE  LooseNamesake(q)'
    BY DEF KeepsRow
  <2>1. LooseNamesake(q) \/ q \in loose'
    BY <1>0 DEF KeepsRow
  <2> QED
    BY <1>0, <2>1, Namesakes DEF LooseNamesake
<1>1. CASE UNCHANGED Lock!vars
  <2>1. KeepsRow'
    BY <1>1, <1>0 DEF Lock!vars
  <2> QED
    BY <1>1, <2>1 DEF Lock!vars
<1>2. CASE Lock!Tick
  <2>1. lockRow' \in [owner : Contenders, age : Nat, idle : Nat] /\ lockRow'.owner = lockRow.owner
    <3>1. lockRow \in [owner : Contenders, age : Nat, idle : Nat]
      BY <1>2 DEF Lock!Tick
    <3>2. /\ Lock!Older(lockRow.age, Lock!AgeCap) \in Nat
          /\ Lock!Older(lockRow.idle, Lock!IdleCap) \in Nat
      BY <3>1 DEF Lock!Older
    <3>3. lockRow' = [lockRow EXCEPT !.age = Lock!Older(lockRow.age, Lock!AgeCap),
                                     !.idle = Lock!Older(lockRow.idle, Lock!IdleCap)]
      BY <1>2 DEF Lock!Tick
    <3>4. QED
      BY <3>1, <3>2, <3>3
  <2>2. RowTypes' /\ Lock!Held'
    BY <1>2, <2>1 DEF Lock!Tick, Lock!LockConstants
  <2>3. loose \subseteq loose' /\ UNCHANGED <<lockPhase, lockSeen>>
    BY <1>2 DEF Lock!Tick
  <2>4. KeepsRow'
    BY <1>0, <1>2, <2>1, <2>2, <2>3 DEF Lock!Tick
  <2>5. QED
    BY <1>2, <2>1, <2>2, <2>3, <2>4 DEF Lock!Tick
<1>3. ASSUME NEW p \in Contenders, Lock!Upsert(p), lockPhase[p] \in {"idle", "retry"}
      PROVE  LockInv'
  <2>1. /\ lockRow' = [owner |-> p, age |-> 0, idle |-> 0]
        /\ lockPhase' = [lockPhase EXCEPT ![p] = "holding"]
        /\ lockSeen' = [lockSeen EXCEPT ![p] = Nobody]
        /\ UNCHANGED <<leaving, loose>>
    BY <1>3 DEF Lock!Upsert, Lock!Write, Lock!Becomes
  <2>2. lockRow' \in [owner : Contenders, age : Nat, idle : Nat] /\ lockRow' # NoRow
    BY <2>1 DEF Lock!LockConstants
  <2>3. ASSUME NEW q \in Contenders, Lock!Working(q), Lock!Held, lockRow.owner = q
        PROVE  q \in loose
    BY <1>3, <2>3, StaleRows DEF Lock!Upsert, Lock!Stealable
  <2>4. KeepsRow'
    BY <1>0, <1>3, <2>1, <2>2, <2>3
  <2> QED
    BY <1>3, <2>1, <2>2, <2>4, PatienceLimits
\* A process that does not work turns to something else, and the row stays.
<1>4. ASSUME NEW p \in Contenders, NEW ph \in Lock!Phase \ {"holding"},
             NEW q \in Contenders \union {Nobody}, Lock!Becomes(p, ph, q),
             ~Lock!Working(p) \/ ph = "dead", ph # "unborn",
             lockPhase[p] = "dead" => ph = "dead",
             ph \in {"takeover", "reaping"} => q \in Contenders /\ lockPhase[q] = "dead",
             ph = "breaking" =>
               q \in Contenders /\ (lockPhase[q] = "dead" \/ q \in loose),
             UNCHANGED <<lockRow, loose>>
      PROVE  LockInv'
  <2>1. lockPhase' = [lockPhase EXCEPT ![p] = ph] /\ lockSeen' = [lockSeen EXCEPT ![p] = q]
    BY <1>4 DEF Lock!Becomes
  <2>2. KeepsRow'
    BY <1>0, <1>4, <2>1
  <2>3. RowTypes'
    BY <1>4, <2>1
  <2>4. OwnerInv' /\ LapseInv'
    BY <1>4, <2>1
  <2>5. SeenInv'
    BY <1>4, <2>1
  <2> QED
    BY <2>2, <2>3, <2>4, <2>5
\* A process that does not work deletes the row of a dead or a loose owner.
<1>5. ASSUME NEW p \in Contenders, NEW ph \in {"idle", "retry"}, NEW match \in BOOLEAN,
             Lock!DeleteIf(match), Lock!Becomes(p, ph, Nobody),
             lockPhase[p] \in {"takeover", "reaping", "breaking"},
             match => Lock!Held /\ (lockPhase[lockRow.owner] = "dead" \/ lockRow.owner \in loose'),
             loose \subseteq loose' /\ loose' \subseteq Contenders
      PROVE  LockInv'
  <2>1. /\ lockPhase' = [lockPhase EXCEPT ![p] = ph]
        /\ lockSeen' = [lockSeen EXCEPT ![p] = Nobody]
        /\ lockRow' = IF match THEN NoRow ELSE lockRow
    BY <1>5 DEF Lock!Becomes, Lock!DeleteIf
  <2>2. KeepsRow'
    BY <1>0, <1>5, <2>1
  <2>3. RowTypes'
    BY <1>5, <2>1
  <2>4. OwnerInv' /\ LapseInv'
    BY <1>5, <2>1
  <2>5. SeenInv'
    BY <1>5, <2>1
  <2> QED
    BY <2>2, <2>3, <2>4, <2>5
\* The delete by the pid that was looked at.
<1>6. ASSUME NEW p \in Contenders, lockPhase[p] \in {"takeover", "breaking"},
             Lock!DeleteSeen(p)
      PROVE  /\ loose \subseteq loose' /\ loose' \subseteq Contenders
             /\ Lock!Matches(lockSeen[p]) =>
                  (lockPhase[lockRow.owner] = "dead" \/ lockRow.owner \in loose')
  BY <1>6 DEF Lock!DeleteSeen, Lock!Matches
<1>7. ASSUME NEW p \in Contenders, Lock!Born(p) PROVE LockInv'
  BY <1>4, <1>7 DEF Lock!Born
<1>8. ASSUME NEW p \in Contenders, Lock!Contend(p) PROVE LockInv'
  <2>1. CASE Lock!TryAcquire(p) \/ Lock!AcquireAgain(p)
    BY <2>1, <1>3 DEF Lock!TryAcquire, Lock!AcquireAgain
  <2>2. CASE Lock!StillBusy(p)
    BY <1>4, <2>2 DEF Lock!StillBusy
  <2>3. CASE Lock!InspectHolder(p)
    <3>1. lockRow.owner \in Contenders /\ lockPhase[lockRow.owner] = "dead"
      BY <2>3 DEF Lock!InspectHolder, Lock!HolderDead, Lock!Probe, Lock!Alive
    <3> QED
      BY <1>4, <2>3, <3>1 DEF Lock!InspectHolder
  <2>4. CASE Lock!TakeOver(p)
    BY <1>5, <1>6, <2>4 DEF Lock!TakeOver, Lock!DeleteSeen, Lock!Matches
  <2>5. QED
    BY <1>8, <2>1, <2>2, <2>3, <2>4 DEF Lock!Contend
<1>9. ASSUME NEW p \in Contenders, Lock!Refresh(p) PROVE LockInv'
  <2>1. lockRow' = [lockRow EXCEPT !.idle = 0]
    BY <1>9 DEF Lock!Refresh
  <2>2. /\ lockRow' \in [owner : Contenders, age : Nat, idle : Nat]
        /\ lockRow'.owner = lockRow.owner /\ lockRow'.idle = 0
    BY <1>9, <2>1 DEF Lock!Refresh, Lock!Matches
  <2>3. lockRow' # NoRow
    BY <2>2 DEF Lock!LockConstants
  <2>4. UNCHANGED <<lockPhase, lockSeen, leaving, loose>> /\ Lock!Held
    BY <1>9 DEF Lock!Refresh, Lock!Matches
  <2>5. KeepsRow'
    BY <1>0, <2>2, <2>3, <2>4
  <2>6. QED
    BY <2>2, <2>3, <2>4, <2>5, PatienceLimits
\* The deletes by the process's own pid.
<1>10. ASSUME NEW p \in Contenders, NEW ph \in {"idle", "holding"}, Lock!Working(p),
              Lock!DeleteIf(Lock!Matches(p)),
              lockPhase' = [lockPhase EXCEPT ![p] = ph],
              lockSeen' \in {lockSeen, [lockSeen EXCEPT ![p] = Nobody]},
              ph = "holding" => p \in loose',
              loose \subseteq loose' /\ loose' \subseteq Contenders
       PROVE  LockInv'
  <2>1. lockRow' = IF Lock!Matches(p) THEN NoRow ELSE lockRow
    BY <1>10 DEF Lock!DeleteIf
  <2>2. (Lock!Matches(p) /\ lockRow.owner # p) => LooseNamesake(lockRow.owner)
    BY <1>10, RobbedByNamesake
  <2>3. (Lock!Held /\ lockRow.owner = p) => Lock!Matches(p)
    BY DEF Lock!Matches
  <2>4. KeepsRow'
    BY <1>0, <1>10, <2>1, <2>2
  <2>5. RowTypes'
    BY <1>10, <2>1
  <2>6. OwnerInv' /\ LapseInv'
    BY <1>10, <2>1, <2>3
  <2>7. SeenInv'
    BY <1>10, <2>1
  <2> QED
    BY <2>4, <2>5, <2>6, <2>7
<1>11. ASSUME NEW p \in Contenders, Lock!Release(p) \/ Lock!CleanUp(p) PROVE LockInv'
  <2>1. CASE Lock!Release(p)
    BY <1>10, <2>1 DEF Lock!Release, Lock!Becomes
  <2>2. CASE Lock!CleanUp(p)
    <3>1. lockPhase' = [lockPhase EXCEPT ![p] = "holding"]
      BY <2>2 DEF Lock!CleanUp
    <3> QED
      BY <1>10, <2>2, <3>1 DEF Lock!CleanUp
  <2> QED
    BY <1>11, <2>1, <2>2
<1>12. ASSUME NEW p \in Contenders, Lock!Exit(p) \/ Lock!Die(p) PROVE LockInv'
  BY <1>4, <1>12 DEF Lock!Exit, Lock!Die
<1>13. ASSUME NEW p \in Contenders, Lock!Inspect(p) PROVE LockInv'
  <2>1. lockRow.owner \in Contenders /\ lockPhase[lockRow.owner] = "dead"
    BY <1>13 DEF Lock!Inspect, Lock!HolderDead, Lock!Probe, Lock!Alive
  <2> QED
    BY <1>4, <1>13, <2>1 DEF Lock!Inspect
<1>14. ASSUME NEW p \in Contenders, Lock!Reap(p) PROVE LockInv'
  BY <1>5, <1>14 DEF Lock!Reap
<1>15. ASSUME NEW p \in Contenders, Lock!InspectToBreak(p) PROVE LockInv'
  <2>1. /\ lockRow.owner \in Contenders
        /\ lockPhase[lockRow.owner] = "dead" \/ lockRow.owner \in loose
    BY <1>15, StaleRows DEF Lock!InspectToBreak, Lock!HolderDead, Lock!Probe, Lock!Alive
  <2> QED
    BY <1>4, <1>15, <2>1 DEF Lock!InspectToBreak
<1>16. ASSUME NEW p \in Contenders, Lock!Break(p) PROVE LockInv'
  BY <1>5, <1>6, <1>16 DEF Lock!Break, Lock!DeleteSeen, Lock!Matches
<1>17. ASSUME NEW p \in Contenders, Lock!BreakStale(p) PROVE LockInv'
  <2>1. lockRow' = NoRow /\ Lock!Held /\ UNCHANGED <<lockPhase, lockSeen, leaving, loose>>
    BY <1>17 DEF Lock!BreakStale
  <2>2. Lock!Working(lockRow.owner) => lockRow.owner \in loose
    BY <1>17, StaleRows DEF Lock!BreakStale
  <2>3. KeepsRow'
    BY <1>0, <2>1, <2>2
  <2> QED
    BY <2>1, <2>3
<1>18. QED
  BY <1>1, <1>2, <1>7, <1>8, <1>9, <1>11, <1>12, <1>13, <1>14, <1>15, <1>16, <1>17
  DEF Lock!Next

\* Two processes work under one lock only after one of their pids has got loose: no
\* takeover, reaper, break, refresh or release, with any delay between its look and its
\* delete and however pids are shared, gives a lock to another before that.
THEOREM LockExclusive == ASSUME Lock!LockConstants PROVE Lock!Spec => []Exclusive
<1>1. Lock!Init => LockInv
  BY LockInit
<1>2. LockInv /\ [Lock!Next]_(Lock!vars) => LockInv'
  BY LockStep
<1>3. LockInv => Exclusive
  <2> SUFFICES ASSUME LockInv, NEW p \in Contenders, NEW q \in Contenders, p # q,
                      Lock!Working(p), Lock!Working(q)
               PROVE  \E r \in Lock!Namesakes(p) \union Lock!Namesakes(q) : r \in loose
    BY DEF Exclusive, Lock!Exclusive
  <2> QED
    BY DEF LockInv, KeepsRow, LooseNamesake
<1>4. QED
  BY <1>1, <1>2, <1>3, PTL DEF Lock!Spec

\* A working process has its row until one with its pid, or itself, gets loose.
THEOREM LockKept == ASSUME Lock!LockConstants PROVE Lock!Spec => []KeepsRow
<1>1. Lock!Init => LockInv
  BY LockInit
<1>2. LockInv /\ [Lock!Next]_(Lock!vars) => LockInv'
  BY LockStep
<1>3. LockInv => KeepsRow
  BY DEF LockInv
<1>4. QED
  BY <1>1, <1>2, <1>3, PTL DEF Lock!Spec

-----------------------------------------------------------------------------
\* The dead holder whose directory a process is about to remove stays dead.
SeenDead == \A p \in Openers : fileSeen[p] \in Openers => filePhase[fileSeen[p]] = "dead"
\* A process that has made the directory finds it its own for as long as it claims it,
\* unless somebody removed it without having seen whose it was.
ClaimsDir == misread \/ \A p \in Openers : filePhase[p] \in Directory!Claiming => dir = p
\* A file that is open in its place is there.
OpenInPlace == \A p \in Openers : open[p] => file # Nobody
DirInv == Directory!TypeOK /\ OpenInPlace /\ SeenDead /\ ClaimsDir

\* The library's facts about Cardinality speak of the one this module extends; the
\* instance's has the same definition.
LEMMA DirectoryCard == ASSUME NEW S PROVE Directory!Cardinality(S) = Cardinality(S)
BY DEF Directory!Cardinality, Cardinality

\* Initially there is no directory and nobody claims one.
LEMMA DirInit == ASSUME Directory!PgliteConstants, Directory!Init PROVE DirInv
BY DEF Directory!PgliteConstants, Directory!Init, DirInv, Directory!TypeOK, OpenInPlace,
       SeenDead, ClaimsDir, Directory!Claiming, Directory!Working, Directory!Phase,
       Directory!Removing

\* Whoever removes a directory that it has seen to be a dead process's takes it from
\* nobody who claims it.
LEMMA SightsAreNotBlind ==
  ASSUME Directory!PgliteConstants, DirInv, NEW p \in Openers,
         filePhase[p] \in Directory!Removing, ~Directory!Blind(p),
         NEW q \in Openers, filePhase[q] \in Directory!Claiming
  PROVE  dir # q
<1> SUFFICES ASSUME dir = q PROVE FALSE
  OBVIOUS
<1>1. q # p /\ filePhase[q] # "dead"
  BY DEF Directory!Claiming, Directory!Working, Directory!Removing
<1>2. dir # Nobody
  BY DEF Directory!PgliteConstants
<1>3. fileSeen[p] = q
  BY <1>1, <1>2 DEF Directory!Blind
<1> QED BY <1>1, <1>3 DEF DirInv, SeenDead

\* Every call of every process to the file system keeps the invariant.
LEMMA DirStep ==
  ASSUME Directory!PgliteConstants, DirInv, [Directory!Next]_(Directory!vars) PROVE DirInv'
<1> USE Directory!PgliteConstants DEF DirInv, Directory!TypeOK, OpenInPlace, SeenDead,
                                      ClaimsDir, Directory!Phase, Directory!Removing,
                                      Directory!Claiming, Directory!Working, Directory!Step,
                                      Directory!PgliteConstants, Directory!disk
<1>1. ASSUME NEW p \in Openers,
             Directory!Begin(p) \/ Directory!GiveUp(p) \/ Directory!Look(p)
      PROVE  DirInv'
  BY <1>1 DEF Directory!Begin, Directory!GiveUp, Directory!Look
<1>2. ASSUME NEW p \in Openers, Directory!Read(p) PROVE DirInv'
  BY <1>2 DEF Directory!Read, Directory!Alive
<1>3. ASSUME NEW p \in Openers, NEW from \in {"reap", "free"},
             NEW to \in {"reaping", "freeing"}, Directory!Unlink(p, from, to)
      PROVE  DirInv'
  BY <1>3 DEF Directory!Unlink
<1>4. ASSUME NEW p \in Openers, NEW from \in {"reaping", "freeing"},
             NEW to \in {"make", "idle"}, Directory!Rmdir(p, from, to)
      PROVE  DirInv'
  <2>1. CASE misread'
    BY <1>4, <2>1 DEF Directory!Rmdir
  <2>2. CASE ~misread' /\ file = Nobody
    BY <1>4, <2>2, SightsAreNotBlind DEF Directory!Rmdir
  <2>3. CASE file # Nobody
    BY <1>4, <2>3 DEF Directory!Rmdir
  <2> QED BY <2>1, <2>2, <2>3
<1>5. ASSUME NEW p \in Openers, Directory!Make(p) PROVE DirInv'
  <2>1. Directory!TypeOK' /\ OpenInPlace'
    BY <1>5 DEF Directory!Make
  <2>2. SeenDead' /\ ClaimsDir'
    BY <1>5 DEF Directory!Make
  <2> QED BY <2>1, <2>2
<1>6. ASSUME NEW p \in Openers, NEW from \in {"open", "beat"},
             NEW to \in {"write", "rewrite"},
             NEW failed \in {"look", "held"}, from = "open" => failed = "look",
             Directory!Open(p, from, to, failed)
      PROVE  DirInv'
  <2>1. CASE dir = Nobody
    BY <1>6, <2>1 DEF Directory!Open
  <2>2. CASE dir # Nobody
    <3>1. /\ file' = Unreadable /\ open' = [open EXCEPT ![p] = TRUE]
          /\ UNCHANGED <<dir, fileSeen, misread>>
          /\ filePhase' = [filePhase EXCEPT ![p] = to] /\ filePhase[p] = from
      BY <1>6, <2>2 DEF Directory!Open
    <3>2. Directory!TypeOK' /\ OpenInPlace'
      BY <3>1, <2>2
    <3>3. SeenDead' /\ ClaimsDir'
      BY <3>1
    <3> QED BY <3>2, <3>3
  <2> QED BY <2>1, <2>2
<1>7. ASSUME NEW p \in Openers, NEW from \in {"write", "rewrite"},
             Directory!Fill(p, from)
      PROVE  DirInv'
  <2>1. Directory!TypeOK' /\ OpenInPlace'
    BY <1>7 DEF Directory!Fill
  <2>2. SeenDead' /\ ClaimsDir'
    BY <1>7 DEF Directory!Fill
  <2> QED BY <2>1, <2>2
<1>8. ASSUME NEW p \in Openers, NEW to \in {"idle", "free", "beat"},
             Directory!Step(p, "held", to),
             UNCHANGED <<Directory!disk, fileSeen, misread>>
      PROVE  DirInv'
  BY <1>8
<1>9. ASSUME NEW p \in Openers, Directory!Die(p) PROVE DirInv'
  BY <1>9 DEF Directory!Die, Directory!Alive
<1>10. CASE UNCHANGED Directory!vars
  BY <1>10 DEF Directory!vars
<1> QED
  BY <1>1, <1>2, <1>3, <1>4, <1>5, <1>6, <1>7, <1>8, <1>9, <1>10 DEF Directory!Next,
       Directory!Acquire, Directory!Reap, Directory!WriteToken, Directory!Heartbeat,
       Directory!Release

\* However the calls of the processes interleave, and whoever dies between two of them:
\* at most one process has the data directory open, unless a directory was removed by one
\* that had not seen the living process it belonged to.
THEOREM OnlyWriter == ASSUME Directory!PgliteConstants PROVE Directory!Spec => []OneWriter
<1>1. Directory!Init => DirInv
  BY DirInit
<1>2. DirInv /\ [Directory!Next]_(Directory!vars) => DirInv'
  BY DirStep
<1>3. DirInv => OneWriter
  <2> SUFFICES ASSUME DirInv, ~misread
               PROVE  Cardinality({p \in Openers : filePhase[p] \in Directory!Working}) <= 1
    BY DirectoryCard DEF OneWriter, Directory!OneWriter
  <2>1. {p \in Openers : filePhase[p] \in Directory!Working} \subseteq {dir}
    BY DEF DirInv, ClaimsDir, Directory!Claiming
  <2>2. IsFiniteSet({dir}) /\ Cardinality({dir}) = 1
    BY FS_Singleton
  <2>3. Cardinality({p \in Openers : filePhase[p] \in Directory!Working}) <= Cardinality({dir})
    BY <2>1, <2>2, FS_Subset
  <2> QED BY <2>2, <2>3
<1> QED BY <1>1, <1>2, <1>3, PTL DEF Directory!Spec
=============================================================================
