------------------------------- MODULE DbLock -------------------------------
(***************************************************************************)
(* One row of gbrain_cycle_locks and the processes that contend for it     *)
(* (db-lock.ts).  A process acquires the lock with an upsert that          *)
(* supersedes an expired row, refreshes it by primary key and pid while it *)
(* works, and deletes it by primary key and pid.  A holder that died is    *)
(* superseded before its time to live is over by a contender on its host,  *)
(* by the background reaper, or by an operator's sync --break-lock; each   *)
(* reads the row first and deletes it in a statement of its own.           *)
(* --force-break-lock, which asks no question, is left out.                *)
(*                                                                         *)
(* Statements compare holder_pid and never holder_host, so processes with  *)
(* one pid on two hosts, or one after the other on one host, act on each   *)
(* other's rows.  A restart is another member of Process, born later.      *)
(* Statements that fail are left out, and the host's clock and the         *)
(* database's agree.                                                       *)
(***************************************************************************)
EXTENDS Naturals

CONSTANTS
  Process,
  Host,         \* os.hostname() of each process
  Pid,          \* process.pid of each process
  Ttl,          \* ttlMinutes
  StealGrace,   \* resolveStealGraceSeconds(ttlMinutes)
  DeathGrace,   \* HOLDER_TAKEOVER_GRACE_MS
  MaxAge,       \* sync --break-lock --max-age
  NoRow,
  Nobody

LockConstants ==
  /\ Ttl \in Nat \ {0} /\ {StealGrace, DeathGrace, MaxAge} \subseteq Nat
  /\ Host \in [Process -> STRING] /\ Pid \in [Process -> Nat]
  /\ NoRow \notin [owner : Process, age : Nat, idle : Nat]
  /\ Nobody \notin Process

VARIABLES
  row,      \* the row: who wrote it, time since acquired_at, time since last_refreshed_at
  phase,    \* what each process is doing
  seen,     \* the owner of the row a process has decided to delete
  leaving,  \* the processes whose signal handler has deleted their row
  loose     \* history: the processes whose statements may reach a row not their own

vars == <<row, phase, seen, leaving, loose>>

\* A row is rewritten whole by an acquisition, so acquired_at identifies the process
\* that wrote it: a dead one writes no other.
\* "retry" is the second upsert of a takeover.
Phase ==
  {"unborn", "idle", "holding", "takeover", "retry", "reaping", "breaking", "dead"}

\* Beyond these ages nothing changes.
AgeCap == DeathGrace
IdleCap == (CHOOSE m \in {Ttl, StealGrace, MaxAge} :
              \A n \in {Ttl, StealGrace, MaxAge} : n <= m) + 1

TypeOK ==
  /\ row \in {NoRow} \union [owner : Process, age : 0..AgeCap, idle : 0..IdleCap]
  /\ phase \in [Process -> Phase]
  /\ seen \in [Process -> Process \union {Nobody}]
  /\ leaving \subseteq Process /\ loose \subseteq Process

Init ==
  /\ row = NoRow
  /\ phase = [p \in Process |-> "unborn"]
  /\ seen = [p \in Process |-> Nobody]
  /\ leaving = {} /\ loose = {}

-----------------------------------------------------------------------------
Held == row # NoRow
Alive(p) == phase[p] \notin {"unborn", "dead"}
Namesakes(p) == {q \in Process : Pid[q] = Pid[p]}

\* Every statement that names a holder finds the row by holder_pid.
Matches(p) == Held /\ Pid[row.owner] = Pid[p]

\* ttl_expires_at and last_refreshed_at are always written together.
ExpiredNever == row.idle > IdleCap  \* mutant: the time to live in the wrong unit
Expired == row.idle > Ttl
Stealable == Expired /\ row.idle > StealGrace

\* process.kill(pid, 0) on the holder's host: some process has the pid.
Probe(q) == \E r \in Process : Host[r] = Host[q] /\ Pid[r] = Pid[q] /\ Alive(r)

\* classifyHolderLiveness = 'dead_eligible'
HolderOld(p) == Held /\ Host[row.owner] = Host[p] /\ row.age >= DeathGrace  \* mutant: not probed
HolderDead(p) ==
  /\ Held /\ Host[row.owner] = Host[p]
  /\ ~Probe(row.owner)
  /\ row.age >= DeathGrace

Becomes(p, ph, q) ==
  /\ phase' = [phase EXCEPT ![p] = ph]
  /\ seen' = [seen EXCEPT ![p] = q]

Write(p) == row' = [owner |-> p, age |-> 0, idle |-> 0]
DeleteIf(match) == row' = IF match THEN NoRow ELSE row

\* deleteLockRow(engine, lockId, pid of the holder looked at): by now the row may be that
\* of another holder with the pid.
DeleteSeen(p) ==
  /\ DeleteIf(Matches(seen[p]))
  /\ loose' = IF Matches(seen[p]) /\ row.owner # seen[p]
                 THEN loose \union {row.owner} ELSE loose

-----------------------------------------------------------------------------
\* INSERT ... ON CONFLICT (id) DO UPDATE ... WHERE ttl_expires_at < NOW() AND ...
Upsert(p) ==
  /\ Held => Stealable
  /\ Write(p) /\ Becomes(p, "holding", Nobody)
  /\ UNCHANGED <<leaving, loose>>

\* The system gives a process a pid that no process of the host has.
Born(p) ==
  /\ phase[p] = "unborn"
  /\ \A q \in Namesakes(p) : Host[q] = Host[p] => ~Alive(q)
  /\ Becomes(p, "idle", Nobody) /\ UNCHANGED <<row, leaving, loose>>

TryAcquire(p) == phase[p] = "idle" /\ Upsert(p)
AcquireAgain(p) == phase[p] = "retry" /\ Upsert(p)

StillBusy(p) ==
  /\ phase[p] = "retry" /\ Held /\ ~Stealable
  /\ Becomes(p, "idle", Nobody) /\ UNCHANGED <<row, leaving, loose>>

\* The lock is held: inspectLock, and takeover if the holder is provably dead.  A lock
\* that is busy otherwise leaves the process as it was.
InspectHolder(p) ==
  /\ phase[p] = "idle" /\ Held /\ ~Stealable
  /\ ~Expired /\ HolderDead(p)
  /\ Becomes(p, "takeover", row.owner) /\ UNCHANGED <<row, leaving, loose>>

TakeOver(p) ==
  /\ phase[p] = "takeover" /\ DeleteSeen(p)
  /\ Becomes(p, IF Matches(seen[p]) THEN "retry" ELSE "idle", Nobody)
  /\ UNCHANGED leaving

\* The timer of withRefreshingLock, or the caller's own refresh.  It updates what rows
\* match, and nobody looks how many did.
Refresh(p) ==
  /\ phase[p] = "holding" /\ Matches(p)
  /\ row' = [row EXCEPT !.idle = 0]
  /\ UNCHANGED <<phase, seen, leaving, loose>>

\* However long ago the lock was lost, the work ran to its end.
Release(p) ==
  /\ phase[p] = "holding"
  /\ DeleteIf(Matches(p)) /\ Becomes(p, "idle", Nobody)
  /\ UNCHANGED <<leaving, loose>>

\* reapDeadHolderLocks: a snapshot, then a delete that pins acquired_at as well.
Inspect(p) ==
  /\ phase[p] = "idle" /\ HolderDead(p)
  /\ Becomes(p, "reaping", row.owner) /\ UNCHANGED <<row, leaving, loose>>

Reap(p) ==
  /\ phase[p] = "reaping"
  /\ DeleteIf(Held /\ row.owner = seen[p])
  /\ Becomes(p, "idle", Nobody) /\ UNCHANGED <<leaving, loose>>

\* runBreakLock without --force: on the holder's host, expired or provably dead when it
\* looks.  The delete compares the pid only.
InspectToBreak(p) ==
  /\ phase[p] = "idle" /\ Held /\ Host[row.owner] = Host[p]
  /\ Expired \/ HolderDead(p)
  /\ Becomes(p, "breaking", row.owner) /\ UNCHANGED <<row, leaving, loose>>

Break(p) ==
  /\ phase[p] = "breaking" /\ DeleteSeen(p)
  /\ Becomes(p, "idle", Nobody) /\ UNCHANGED leaving

\* --max-age: deleteLockRowIfStale compares last_refreshed_at in the statement itself.
BreakStale(p) ==
  /\ phase[p] = "idle" /\ Held /\ Host[row.owner] = Host[p]
  /\ row.idle > MaxAge
  /\ row' = NoRow /\ UNCHANGED <<phase, seen, leaving, loose>>

\* SIGKILL or the loss of the machine leaves the row.
Die(p) ==
  /\ Alive(p) /\ Becomes(p, "dead", Nobody)
  /\ leaving' = leaving \ {p} /\ UNCHANGED <<row, loose>>

\* A signal: process-cleanup.ts deletes the row and exits when every registered clean-up
\* has settled or 3 s have passed.  The work goes on until then, refreshes, its release
\* and other locks included.
CleanUp(p) ==
  /\ phase[p] = "holding" /\ p \notin leaving
  /\ DeleteIf(Matches(p))
  /\ leaving' = leaving \union {p} /\ loose' = loose \union {p}
  /\ UNCHANGED <<phase, seen>>

Exit(p) == p \in leaving /\ Die(p)

\* Time passes.  A holder whose row may be taken although it is alive is loose.
Patience == CHOOSE m \in {Ttl, MaxAge} : \A n \in {Ttl, MaxAge} : m <= n
Older(n, cap) == IF n < cap THEN n + 1 ELSE n

Tick ==
  /\ Held
  /\ row' = [row EXCEPT !.age = Older(@, AgeCap), !.idle = Older(@, IdleCap)]
  /\ loose' = IF phase[row.owner] = "holding" /\ row'.idle > Patience
                 THEN loose \union {row.owner} ELSE loose
  /\ UNCHANGED <<phase, seen, leaving>>

Contend(p) == TryAcquire(p) \/ AcquireAgain(p) \/ StillBusy(p) \/ InspectHolder(p) \/ TakeOver(p)

Next ==
  \/ \E p \in Process :
       \/ Born(p) \/ Contend(p) \/ Refresh(p) \/ Release(p) \/ CleanUp(p) \/ Exit(p) \/ Die(p)
       \/ Inspect(p) \/ Reap(p) \/ InspectToBreak(p) \/ Break(p) \/ BreakStale(p)
  \/ Tick

Spec == Init /\ [][Next]_vars

\* The clock, whoever retries its acquisition or finishes what it began, and work that
\* comes to an end: nobody owes anybody a refresh or a reaper's round.
Fairness ==
  /\ WF_vars(Tick)
  /\ \A p \in Process :
       WF_vars(Contend(p) \/ Release(p) \/ Exit(p) \/ Reap(p) \/ Break(p))

-----------------------------------------------------------------------------
\* Properties.

Working(p) == phase[p] = "holding"

\* Two processes work under one lock at once only if one of them, or a process with the
\* pid of one of them, is loose: it has gone without a refresh for its whole time to live
\* (or the operator's --max-age), its signal handler deleted its row and it works on, or
\* its row was deleted in place of a namesake's that was dead or had lapsed.  No takeover,
\* reaper or break removes the row of another live holder that refreshes in time, and a
\* release that finds its row by pid alone takes no other's but then, whatever happens
\* between a look and a delete, and however pids are given twice.
Exclusive ==
  \A p, q \in Process : (p # q /\ Working(p) /\ Working(q)) =>
    \E r \in Namesakes(p) \union Namesakes(q) : r \in loose

\* The row of a crashed holder does not stay: while somebody lives to contend for the
\* lock it is cleared, from its own host or by its time to live.
DeadRow == Held /\ ~Alive(row.owner)
CrashCleared == DeadRow ~> (~DeadRow \/ \A q \in Process : ~Alive(q))
=============================================================================
