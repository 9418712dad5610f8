------------------------------ MODULE SourceSync ------------------------------
(***************************************************************************)
(* The sync of one source (SyncResume), as a part of the whole: its names  *)
(* apart from those of the other parts, and what it promises.              *)
(***************************************************************************)
EXTENDS Naturals, Sequences

CONSTANTS
  Files, Content, Absent, Threshold, MaxCommits, MaxRewrites, MaxLeft

VARIABLES
  history, commits, rewrites, anchor, page, target, banked, left, failureLedger,
  stage, pin, todo, undone, failed, succeeded, astray

syncVars == <<history, commits, rewrites, anchor, page, target, banked, left, failureLedger,
              stage, pin, todo, undone, failed, succeeded, astray>>

Sync == INSTANCE SyncResume WITH File <- Files, ledger <- failureLedger

-----------------------------------------------------------------------------
\* No file of a source is skipped for good.
NothingSkipped == Sync!NothingSkipped
=============================================================================
