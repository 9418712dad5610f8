----------------------------- MODULE PgliteLock -----------------------------
(***************************************************************************)
(* The lock of a PGLite data directory (pglite-lock.ts): a directory that  *)
(* mkdir makes for one process only, and in it a file with its pid, which  *)
(* the holder rewrites every HEARTBEAT_INTERVAL_MS.  Each action is one    *)
(* call to the file system.  Writing the file is two, as writeFileSync     *)
(* opens it empty and then fills it; so is rmSync, which unlinks the file  *)
(* and then removes the directory.  A process may die between any two.     *)
(*                                                                         *)
(* Processes belong to one user on one host, where process.kill(pid, 0)    *)
(* tells the living from the dead; a restart is another member of Process. *)
(* Databases in memory take no lock.                                       *)
(***************************************************************************)
EXTENDS Naturals, FiniteSets

CONSTANTS Process, Nobody, Unreadable

PgliteConstants == {Nobody, Unreadable} \cap Process = {} /\ Nobody # Unreadable

VARIABLES
  dir,      \* the process whose mkdir made the lock directory, Nobody when there is none
  file,     \* the process whose token the lock file has; Unreadable: it is not JSON
  open,     \* is the file that a process has open the one in the directory?
  phase,    \* the call each process makes next
  seen,     \* the dead holder whose lock a process is about to remove
  misread   \* history: a living process lost its directory to one that had not seen it

vars == <<dir, file, open, phase, seen, misread>>

Removing == {"reap", "reaping", "free", "freeing"}
Working == {"held", "beat", "rewrite"}
Claiming == {"open", "write"} \union Working
Phase == {"idle", "look", "read", "make", "dead"} \union Claiming \union Removing

TypeOK ==
  /\ dir \in Process \union {Nobody}
  /\ file \in Process \union {Nobody, Unreadable}
  /\ dir = Nobody => file = Nobody
  /\ open \in [Process -> BOOLEAN]
  /\ phase \in [Process -> Phase]
  /\ seen \in [Process -> Process \union {Nobody}]
  /\ misread \in BOOLEAN

Init ==
  /\ dir = Nobody /\ file = Nobody
  /\ open = [p \in Process |-> FALSE]
  /\ phase = [p \in Process |-> "idle"]
  /\ seen = [p \in Process |-> Nobody]
  /\ misread = FALSE

-----------------------------------------------------------------------------
disk == <<dir, file, open>>

Alive(p) == phase[p] # "dead"
Step(p, from, to) == phase[p] = from /\ phase' = [phase EXCEPT ![p] = to]

\* writeFileSync, first half: open(O_CREAT | O_TRUNC), which fails without the directory.
Open(p, from, to, failed) ==
  /\ Step(p, from, IF dir = Nobody THEN failed ELSE to)
  /\ IF dir = Nobody
       THEN UNCHANGED disk
       ELSE /\ file' = Unreadable
            /\ open' = [open EXCEPT ![p] = TRUE]
            /\ UNCHANGED dir
  /\ UNCHANGED <<seen, misread>>

\* Its second half fills the file it has open, which may be in the directory no more.
Fill(p, from) ==
  /\ Step(p, from, "held")
  /\ file' = IF open[p] THEN p ELSE file
  /\ open' = [open EXCEPT ![p] = FALSE]
  /\ UNCHANGED <<dir, seen, misread>>

\* p removes what a living process has claimed, and has not been seen by p to be alive
\* or dead: the file was unreadable, or was another's when p read it.
Blind(p) == dir \notin {Nobody, p} /\ phase[dir] \in Claiming /\ seen[p] # dir

\* rmSync: what is not there is no error.
Unlink(p, from, to) ==
  /\ Step(p, from, to)
  /\ file' = Nobody /\ open' = [q \in Process |-> FALSE]
  /\ misread' = (misread \/ Blind(p))
  /\ UNCHANGED <<dir, seen>>

\* A directory in which a file has appeared stays, and the error is caught.
Rmdir(p, from, to) ==
  /\ Step(p, from, to)
  /\ IF file = Nobody
       THEN dir' = Nobody /\ misread' = (misread \/ Blind(p))
       ELSE UNCHANGED <<dir, misread>>
  /\ seen' = [seen EXCEPT ![p] = Nobody]
  /\ UNCHANGED <<file, open>>

-----------------------------------------------------------------------------
\* acquireLock, called from connect().
Begin(p) == Step(p, "idle", "look") /\ UNCHANGED <<disk, seen, misread>>

\* The time limit has passed between two attempts.
GiveUp(p) == Step(p, "look", "idle") /\ UNCHANGED <<disk, seen, misread>>

\* existsSync(lockDir)
Look(p) ==
  /\ Step(p, "look", IF dir = Nobody THEN "make" ELSE "read")
  /\ UNCHANGED <<disk, seen, misread>>

\* readFileSync, JSON.parse and isProcessAlive: wait for a living holder, remove what is
\* a dead one's or cannot be read.
ReadHeartbeat(p) ==  \* mutant: a holder is as alive as its heartbeat, which may be late
  /\ Step(p, "read", "reap")
  /\ seen' = [seen EXCEPT ![p] = IF file \in Process THEN file ELSE Nobody]
  /\ UNCHANGED <<disk, misread>>
Read(p) ==
  /\ IF file \in Process /\ Alive(file)
       THEN Step(p, "read", "look") /\ UNCHANGED seen
       ELSE /\ Step(p, "read", "reap")
            /\ seen' = [seen EXCEPT ![p] = IF file \in Process THEN file ELSE Nobody]
  /\ UNCHANGED <<disk, misread>>

Reap(p) == Unlink(p, "reap", "reaping") \/ Rmdir(p, "reaping", "make")

\* mkdirSync, which is exclusive; on EEXIST, wait and try again.
Make(p) ==
  /\ Step(p, "make", IF dir = Nobody THEN "open" ELSE "look")
  /\ dir' = IF dir = Nobody THEN p ELSE dir
  /\ UNCHANGED <<file, open, seen, misread>>

\* The first token; if the directory is gone by now the error counts as a lost mkdir.
WriteToken(p) == Open(p, "open", "write", "look") \/ Fill(p, "write")

\* The timer: read the token and, when it is one's own, write the file again.
Heartbeat(p) ==
  \/ /\ file = p /\ Step(p, "held", "beat")
     /\ UNCHANGED <<disk, seen, misread>>
  \/ Open(p, "beat", "rewrite", "held")
  \/ Fill(p, "rewrite")

\* releaseLock, called when the database is closed: a lock with another's token is left
\* alone, one that is unreadable or gone is removed like one's own.
Release(p) ==
  \/ /\ Step(p, "held", IF file \in Process \ {p} THEN "idle" ELSE "free")
     /\ UNCHANGED <<disk, seen, misread>>
  \/ Unlink(p, "free", "freeing")
  \/ Rmdir(p, "freeing", "idle")

\* The process is killed and leaves what it has written.
Die(p) ==
  /\ Alive(p)
  /\ phase' = [phase EXCEPT ![p] = "dead"]
  /\ open' = [open EXCEPT ![p] = FALSE]
  /\ seen' = [seen EXCEPT ![p] = Nobody]
  /\ UNCHANGED <<dir, file, misread>>

Acquire(p) == Begin(p) \/ GiveUp(p) \/ Look(p) \/ Read(p) \/ Reap(p) \/ Make(p) \/ WriteToken(p)

Next == \E p \in Process : Acquire(p) \/ Heartbeat(p) \/ Release(p) \/ Die(p)

Spec == Init /\ [][Next]_vars

-----------------------------------------------------------------------------
\* Properties.

\* The comment on #2348: PGLite is strictly single-writer, and a holder whose pid is alive
\* is never reaped.  Two processes have the database open at once only after a living one
\* lost its directory to a process that had read something else: an empty or half-written
\* file, or the token of a dead predecessor.  Nothing else the calls can interleave to,
\* deaths and late heartbeats included, lets a second writer in.
OneWriter == misread \/ Cardinality({p \in Process : phase[p] \in Working}) <= 1
=============================================================================
