-------------------------------- MODULE Locks --------------------------------
(***************************************************************************)
(* The two locks that keep processes apart: one row of gbrain_cycle_locks, *)
(* which every engine has (DbLock), and the lock directory of a PGLite     *)
(* data directory, which an engine without a server needs (PgliteLock).    *)
(* They share no variable; what either promises is stated here under the   *)
(* name it is checked and proved by.                                       *)
(***************************************************************************)
EXTENDS Naturals, FiniteSets

CONSTANTS
  Contenders,                             \* the processes that want the row
  HostOf, PidOf,                          \* where each runs, and its pid there
  Openers,                                \* the processes that want the directory
  LockTtl, StealGrace, DeathGrace, MaxAge,
  NoRow, Unreadable, Nobody

VARIABLES
  lockRow, lockPhase, lockSeen, leaving, loose,
  dir, file, open, filePhase, fileSeen, misread

lockVars == <<lockRow, lockPhase, lockSeen, leaving, loose>>
fileVars == <<dir, file, open, filePhase, fileSeen, misread>>

Lock == INSTANCE DbLock WITH
  Process <- Contenders, Host <- HostOf, Pid <- PidOf, Ttl <- LockTtl,
  row <- lockRow, phase <- lockPhase, seen <- lockSeen

Directory == INSTANCE PgliteLock WITH
  Process <- Openers, phase <- filePhase, seen <- fileSeen

-----------------------------------------------------------------------------
\* One holder of a database lock at a time, unless one, or a process with the pid of one,
\* let its row lapse, is exiting, or lost its row in place of another.
Exclusive == Lock!Exclusive

\* The row of a crashed holder is cleared, by whoever finds it.
CrashCleared == Lock!CrashCleared

\* One process has a PGLite directory open, unless one was robbed of its lock unseen.
OneWriter == Directory!OneWriter
=============================================================================
