----------------------------- MODULE RateLeases -----------------------------
(***************************************************************************)
(* The leases that bound the model calls of all subagent jobs              *)
(* (rate-leases.ts). Before a call the subagent handler inserts a row of   *)
(* subagent_rate_leases in a transaction that first takes an advisory      *)
(* lock, prunes expired rows and counts the rest; after the call it        *)
(* deletes the row.  A crash, or a delete that fails, leaves the row to    *)
(* expire.  now() is the time the transaction began, before it waited for  *)
(* the lock: a caller prunes by that time, and its own row expires one     *)
(* time to live after it.                                                  *)
(*                                                                         *)
(* A caller is the sequence of executions that one worker slot runs.       *)
(***************************************************************************)
EXTENDS Integers, FiniteSets

CONSTANTS
  Caller,
  MaxConcurrent,
  Ttl,
  MaxWait,      \* bound: how long a transaction waits for the advisory lock
  MaxCrashes,   \* bound on crashes and failed deletes
  NoLease,
  Nobody

LeaseConstants ==
  /\ IsFiniteSet(Caller) /\ Nobody \notin Caller
  /\ {MaxConcurrent, Ttl, MaxWait, MaxCrashes} \subseteq Nat
  /\ MaxWait < Ttl
  /\ NoLease \notin Int

VARIABLES
  lease,    \* the rows: by id, the time to expires_at (negative when it is past)
  phase,    \* "idle", "begun", "counted" or "calling"
  mine,     \* the id of the caller's row while it lasts, else 0
  waited,   \* time since the caller's transaction began
  active,   \* the count it has read
  age,      \* time since the call began
  lock,     \* who has the advisory lock
  crashes   \* crashes and failed deletes so far

vars == <<lease, phase, mine, waited, active, age, lock, crashes>>

\* More ids than rows can be in use.
Id == 1..(MaxConcurrent + Cardinality(Caller))
Rows == {i \in Id : lease[i] # NoLease}

TypeOK ==
  /\ lease \in [Id -> (-MaxWait)..Ttl \union {NoLease}]
  /\ phase \in [Caller -> {"idle", "begun", "counted", "calling"}]
  /\ mine \in [Caller -> Id \union {0}]
  /\ waited \in [Caller -> 0..MaxWait] /\ active \in [Caller -> 0..Cardinality(Id)]
  /\ age \in [Caller -> 0..Ttl]
  /\ lock \in Caller \union {Nobody} /\ crashes \in 0..MaxCrashes

Init ==
  /\ lease = [i \in Id |-> NoLease]
  /\ phase = [c \in Caller |-> "idle"]
  /\ mine = [c \in Caller |-> 0]
  /\ waited = [c \in Caller |-> 0] /\ active = [c \in Caller |-> 0]
  /\ age = [c \in Caller |-> 0]
  /\ lock = Nobody /\ crashes = 0

-----------------------------------------------------------------------------
\* expires_at <= now(), where now() is the start of the caller's transaction.
ExpiredNever(c) == {}  \* mutant: no pre-prune
ExpiredBy(c) == {i \in Rows : lease[i] + waited[c] <= 0}

LockFreeAlways == TRUE  \* mutant: no advisory lock
LockFree == lock = Nobody

Goes(c, ph) == phase' = [phase EXCEPT ![c] = ph]
Forget(ids) == mine' = [d \in Caller |-> IF mine[d] \in ids THEN 0 ELSE mine[d]]
Without(ids) == [i \in Id |-> IF i \in ids THEN NoLease ELSE lease[i]]
FreeId == CHOOSE i \in Id : i \notin Rows

\* acquireLease: BEGIN fixes now().
Begin(c) ==
  /\ phase[c] = "idle" /\ Goes(c, "begun")
  /\ UNCHANGED <<lease, mine, waited, active, age, lock, crashes>>

\* pg_advisory_xact_lock, the prune (which others see at commit) and the count.
Count(c) ==
  /\ phase[c] = "begun" /\ LockFree
  /\ lock' = c /\ Goes(c, "counted")
  /\ active' = [active EXCEPT ![c] = Cardinality(Rows \ ExpiredBy(c))]
  /\ UNCHANGED <<lease, mine, waited, age, crashes>>

\* A time or a count is kept only as long as it is used.
Clear(f, c) == [f EXCEPT ![c] = 0]

Commit(c) ==
  /\ phase[c] = "counted" /\ lock' = Nobody
  /\ waited' = Clear(waited, c) /\ active' = Clear(active, c)
  /\ UNCHANGED <<age, crashes>>

\* No slot: the caller throws RateLeaseUnavailableError and the job is requeued.
Reject(c) ==
  /\ Commit(c) /\ active[c] >= MaxConcurrent
  /\ lease' = Without(ExpiredBy(c)) /\ Forget(ExpiredBy(c))
  /\ Goes(c, "idle")

Grant(c) ==
  /\ Commit(c) /\ active[c] < MaxConcurrent
  /\ lease' = [Without(ExpiredBy(c)) EXCEPT ![FreeId] = Ttl - waited[c]]
  /\ mine' = [d \in Caller |-> IF d = c THEN FreeId
                               ELSE IF mine[d] \in ExpiredBy(c) THEN 0 ELSE mine[d]]
  /\ Goes(c, "calling")

\* The call returns or throws and releaseLease deletes the row, if it is still there.
Over(c) ==
  /\ phase[c] = "calling" /\ Goes(c, "idle")
  /\ mine' = Clear(mine, c) /\ age' = Clear(age, c)
  /\ UNCHANGED <<waited, active, lock>>

Return(c) == Over(c) /\ lease' = Without({mine[c]}) /\ UNCHANGED crashes

Fault == crashes < MaxCrashes /\ crashes' = crashes + 1

\* An error of the delete is swallowed.
ReturnUnreleased(c) == Over(c) /\ Fault /\ UNCHANGED lease

\* The worker process dies: an open transaction is rolled back, a row stays.
Crash(c) ==
  /\ phase[c] # "idle" /\ Fault /\ Goes(c, "idle")
  /\ mine' = Clear(mine, c) /\ waited' = Clear(waited, c)
  /\ active' = Clear(active, c) /\ age' = Clear(age, c)
  /\ lock' = IF lock = c THEN Nobody ELSE lock
  /\ UNCHANGED lease

InTransaction(c) == phase[c] \in {"begun", "counted"}

Tick ==
  /\ \A c \in Caller : InTransaction(c) => waited[c] < MaxWait
  /\ lease' = [i \in Id |-> IF lease[i] \in Int /\ lease[i] > -MaxWait THEN lease[i] - 1
                                                                       ELSE lease[i]]
  /\ waited' = [c \in Caller |-> IF InTransaction(c) THEN waited[c] + 1 ELSE waited[c]]
  /\ age' = [c \in Caller |-> IF phase[c] = "calling" /\ age[c] < Ttl THEN age[c] + 1 ELSE age[c]]
  /\ UNCHANGED <<phase, mine, active, lock, crashes>>

Next ==
  \/ \E c \in Caller :
       \/ Begin(c) \/ Count(c) \/ Reject(c) \/ Grant(c)
       \/ Return(c) \/ ReturnUnreleased(c) \/ Crash(c)
  \/ Tick

Spec == Init /\ [][Next]_vars

\* Calls return, the clock runs, some caller always comes back, and the waiters for an
\* advisory lock are served in turn.
Fairness ==
  /\ WF_vars(Tick) /\ WF_vars(\E c \in Caller : Begin(c))
  /\ \A c \in Caller :
       SF_vars(Count(c)) /\ WF_vars(Reject(c) \/ Grant(c) \/ Return(c))

-----------------------------------------------------------------------------
\* Properties.

\* The provider sees at most MaxConcurrent calls, not counting those that outlast their
\* lease.  The time to live a call can count on is short of Ttl by the time its
\* transaction waited for the lock.
Timely(c) == phase[c] = "calling" /\ age[c] < Ttl - MaxWait
CallsWithinCap == Cardinality({c \in Caller : Timely(c)}) <= MaxConcurrent

\* Slots whose callers crashed, or whose release failed, all come back once that stops
\* happening.
Leaked == \E i \in Rows : \A c \in Caller : mine[c] # i
CapacityReturns == Leaked ~> ~Leaked
=============================================================================
