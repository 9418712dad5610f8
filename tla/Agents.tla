-------------------------------- MODULE Agents --------------------------------
(***************************************************************************)
(* What an agent job does between its claim and its end: the leases it     *)
(* takes for its model calls (RateLeases), and the conversation it carries *)
(* on with the model and the tools (SubagentLoop).  They share no          *)
(* variable; what either promises is stated here under the name it is      *)
(* checked and proved by.                                                  *)
(***************************************************************************)
EXTENDS Integers, Sequences, FiniteSets

CONSTANTS
  Callers, MaxConcurrent, LeaseTtl, MaxWait, MaxCrashes, NoLease, NoCaller,
  MaxTurns, MaxRuns, MaxLive, Answers

VARIABLES
  lease, phase, mine, waited, active, age, lock, crashes,
  transcript, ledger, outcome, runs, run, effected, repeated, crossed

leaseVars == <<lease, phase, mine, waited, active, age, lock, crashes>>
loopVars == <<transcript, ledger, outcome, runs, run, effected, repeated, crossed>>

Leases == INSTANCE RateLeases WITH
  Caller <- Callers, Ttl <- LeaseTtl, Nobody <- NoCaller

Loop == INSTANCE SubagentLoop WITH claims <- runs

-----------------------------------------------------------------------------
\* No more model calls at once than there are leases.
CallsWithinCap == Leases!CallsWithinCap

\* The lease of a crashed caller comes back.
CapacityReturns == Leases!CapacityReturns

\* A tool that is not idempotent takes effect once, across crashes of the subagent job.
UnsafeOnce == Loop!UnsafeOnce

\* The conversation a subagent job persists is one the provider accepts.
TranscriptSound == Loop!TranscriptSound

\* A persisted final answer ends the conversation.
FinalAnswerStands == Loop!FinalAnswerStands
=============================================================================
