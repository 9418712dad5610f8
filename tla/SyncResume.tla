----------------------------- MODULE SyncResume -----------------------------
(***************************************************************************)
(* Incremental sync of one source: a git working tree into pages           *)
(* (performSyncInner in commands/sync.ts, op-checkpoint.ts,                *)
(* sync-failure-ledger.ts).                                                *)
(* A run pins a target commit, imports what the diff from the bookmark     *)
(* last_commit to the target names, banks what is done so that a killed    *)
(* run is resumed, and moves the bookmark when the failure ledger's gate   *)
(* allows.  Meanwhile commits are added to the tree and the history is     *)
(* rewritten; files are read from the tree as it is then.                  *)
(*                                                                         *)
(* A commit is its history, a sequence of trees.  Renames are left out.    *)
(* The sync lock admits one run at a time (see DbLock).                    *)
(*                                                                         *)
(* A checkpoint is keyed by the bookmark it started from.  Whoever moves   *)
(* the bookmark clears its rows afterwards, in two deletes that may fail   *)
(* unnoticed or never be reached: what they leave is read again by the     *)
(* run that finds the bookmark back at that commit.                        *)
(***************************************************************************)
EXTENDS Naturals, Sequences, FiniteSets, SequencesExt

CONSTANTS
  File,
  Content,      \* what a file may hold
  Absent,
  Threshold,    \* resolveAutoSkipThreshold()
  MaxCommits,   \* bound on commits
  MaxRewrites,  \* bound on rewrites
  MaxLeft       \* bound on the checkpoints left uncleared

SyncConstants ==
  /\ IsFiniteSet(File) /\ Absent \notin Content /\ Content # {}
  /\ {Threshold, MaxCommits} \subseteq Nat \ {0} /\ {MaxRewrites, MaxLeft} \subseteq Nat

VARIABLES
  history,    \* HEAD
  commits, rewrites,
  anchor,     \* last_commit
  page,       \* the pages, by file
  target,     \* the checkpoint's pinned commit
  banked,     \* its paths
  left,       \* the checkpoint rows of earlier bookmarks
  ledger,     \* the failure ledger
  stage,      \* how far the run is
  pin, todo, undone, failed, succeeded,  \* the run's own state
  astray      \* history: files whose page was read from another tree than the pinned, or
              \* that are banked for another pin than the one they count for

NoCommit == <<>>

repo == <<history, commits, rewrites>>
checkpoint == <<target, banked, left>>
stored == <<anchor, page, checkpoint, ledger>>
own == <<stage, pin, todo, undone, failed, succeeded>>
vars == <<repo, stored, own, astray>>

Tree == [File -> Content \union {Absent}]
Row == [state : {"open", "acknowledged", "auto_skipped"}, attempts : 1..Threshold]
NoFailure == [state |-> "none", attempts |-> 0]

TypeOK ==
  /\ \A c \in {history, anchor} : c \in Seq(Tree) /\ Len(c) \in 1..(commits + 1)
  /\ commits \in 0..MaxCommits /\ rewrites \in 0..MaxRewrites
  /\ page \in Tree /\ banked \subseteq File
  /\ ledger \in [File -> Row \union {NoFailure}]
  /\ stage \in {"idle", "draining", "advancing", "acknowledging", "autoskipping",
               "marking_all", "marking_own"}
  /\ UNION {todo, undone, failed, succeeded, astray} \subseteq File
  /\ \A r \in left : r.banked \subseteq File /\ r.anchor # anchor

Init ==
  /\ history \in {<<t>> : t \in {[f \in File |-> c] : c \in Content}}
  /\ commits = 0 /\ rewrites = 0 /\ anchor = history /\ page = Last(history)
  /\ target = NoCommit /\ banked = {} /\ left = {}
  /\ ledger = [f \in File |-> NoFailure]
  /\ stage = "idle" /\ pin = NoCommit
  /\ todo = {} /\ undone = {} /\ failed = {} /\ succeeded = {}
  /\ astray = {}

-----------------------------------------------------------------------------
Differ(t, u) == {f \in File : t[f] # u[f]}
Diff(c, d) == Differ(Last(c), Last(d))
Working == Last(history)

\* git merge-base --is-ancestor c HEAD
Reachable(c) == IsPrefix(c, history)

\* What the checkpoint says when it can be read.
Resumable == target # NoCommit /\ Reachable(target)
Stored == target # NoCommit \/ banked # {}

EndRun ==
  /\ stage' = "idle" /\ pin' = NoCommit
  /\ todo' = {} /\ undone' = {} /\ failed' = {} /\ succeeded' = {}

NewAnchorHead(c) == history  \* mutant: the bookmark moved to HEAD
NewAnchor(c) == c

\* writeSyncAnchor, then clearOpCheckpoint of the paths and of the target: each may fail
\* unnoticed, and a kill may come before it.  The rows now read are those the new bookmark
\* once left.
MoveAnchor(c, lost) ==
  \E t \in {NoCommit, target}, b \in {{}, banked} :
    LET rows == {r \in left \union {[anchor |-> anchor, target |-> t, banked |-> b]} :
                   r.target # NoCommit \/ r.banked # {}}
        found == {r \in rows : r.anchor = NewAnchor(c)}
    IN  /\ anchor' = NewAnchor(c) /\ left' = rows \ found
        /\ Cardinality(left') <= MaxLeft
        /\ IF found = {} THEN target' = NoCommit /\ banked' = {}
                         ELSE \E r \in found : target' = r.target /\ banked' = r.banked
        /\ astray' = astray \union lost \union banked'

-----------------------------------------------------------------------------
\* The repository.

Commit(f, c) ==
  /\ commits < MaxCommits /\ commits' = commits + 1 /\ Working[f] # c
  /\ history' = Append(history, [Working EXCEPT ![f] = c])
  /\ UNCHANGED <<rewrites, stored, own, astray>>

\* A reset or a force-push drops commits; others may take their place.  What was imported
\* since the bookmark may have come from those.
Rewrite(n) ==
  /\ n < Len(history) /\ rewrites < MaxRewrites
  /\ history' = SubSeq(history, 1, n) /\ rewrites' = rewrites + 1
  /\ astray' = astray \union Differ(page, Last(anchor))
  /\ UNCHANGED <<commits, stored, own>>

-----------------------------------------------------------------------------
\* One run.

\* The pinned target was rewritten away.  Either clear may fail, unnoticed.
Discard ==
  /\ stage = "idle" /\ target # NoCommit /\ ~Reachable(target)
  /\ target' \in {NoCommit, target} /\ banked' \in {{}, banked}
  /\ UNCHANGED <<repo, anchor, page, left, ledger, own, astray>>

\* The diff to the pin is empty, or its undone part is begun and the pin is recorded.
Drain(c, done, lost) ==
  IF Diff(anchor, c) = {}
    THEN MoveAnchor(c, lost) /\ UNCHANGED own
    ELSE /\ stage' = "draining" /\ pin' = c /\ todo' = Diff(anchor, c) \ done
         /\ target' = c /\ astray' = astray \union lost
         /\ UNCHANGED <<anchor, banked, left, undone, failed, succeeded>>

Outdated == stage = "idle" /\ anchor # history

\* A checkpoint whose target HEAD still contains; its paths may be unreadable.
Resume ==
  /\ Outdated /\ Resumable
  /\ \E done \in {banked, {}} : Drain(target, done, {})
  /\ UNCHANGED <<repo, page, ledger>>

\* No checkpoint; or one that could not be read, has been purged in part or not been
\* cleared: its paths now count for another pin, and what was imported towards the old one
\* need not be in the new diff.
Unread == IF Stored THEN banked \union Differ(page, Last(anchor)) ELSE {}
Begin ==
  /\ Outdated /\ Drain(history, {}, Unread)
  /\ UNCHANGED <<repo, page, ledger>>

\* A run that is killed, aborted, out of time, or cannot record its pin.
Stop ==
  /\ stage # "idle" /\ EndRun
  /\ UNCHANGED <<repo, stored, astray>>

\* Every page written counts as astray unless it is what the pin says and the pin is HEAD's.
Done(f, asPinned) ==
  /\ todo' = todo \ {f} /\ undone' = undone \union {f}
  /\ astray' = IF asPinned /\ Reachable(pin) THEN astray \ {f} ELSE astray \union {f}

\* importOnePath: a file that is gone by now counts as done, and as a success; one that holds
\* what its page does is not written, and not counted.
Import(f) ==
  /\ stage = "draining" /\ f \in todo /\ Last(pin)[f] # Absent
  /\ Done(f, Working[f] = Last(pin)[f])
  /\ page' = [page EXCEPT ![f] = IF Working[f] = Absent THEN @ ELSE Working[f]]
  /\ succeeded' = IF Working[f] = page[f] /\ Working[f] # Absent
                    THEN succeeded ELSE succeeded \union {f}
  /\ UNCHANGED <<repo, anchor, checkpoint, ledger, stage, pin, failed>>

Delete(f) ==
  /\ stage = "draining" /\ f \in todo /\ Last(pin)[f] = Absent
  /\ Done(f, TRUE) /\ page' = [page EXCEPT ![f] = Absent]
  /\ UNCHANGED <<repo, anchor, checkpoint, ledger, stage, pin, failed, succeeded>>

\* The file does not parse, or the database refuses it.
Fail(f) ==
  /\ stage = "draining" /\ f \in todo
  /\ Last(pin)[f] = Absent \/ Working[f] # Absent
  /\ todo' = todo \ {f} /\ failed' = failed \union {f}
  /\ UNCHANGED <<repo, stored, stage, pin, undone, succeeded, astray>>

\* flushCheckpoint.
Flush ==
  /\ stage = "draining" /\ undone # {}
  /\ banked' = banked \union undone /\ undone' = {}
  /\ UNCHANGED <<repo, anchor, page, target, left, ledger, stage, pin, todo, failed,
                 succeeded, astray>>

-----------------------------------------------------------------------------
\* applySyncFailureGate.

\* Every deleted path counts as resolved, even if its delete has failed.
Resolved == succeeded \union {f \in Diff(anchor, pin) : Last(pin)[f] = Absent}

Capped(n) == IF n < Threshold THEN n + 1 ELSE n
Recorded(f) ==
  IF f \in failed
    THEN [state |-> "open",
          attempts |-> IF f \notin Resolved /\ ledger[f].state = "open"
                         THEN Capped(ledger[f].attempts) ELSE 1]
    ELSE IF f \in Resolved THEN NoFailure ELSE ledger[f]

\* _recordAndClear, then decideGateAction: the rows are written whatever is decided.
Record == ledger' = [f \in File |-> Recorded(f)]
AtGate == stage = "draining" /\ todo = {}

\* All failures are old enough, and there are some.
Chronic == failed # {} /\ \A f \in failed : Recorded(f).attempts = Threshold

Advances(st) ==
  /\ AtGate /\ Reachable(pin) /\ Record /\ stage' = st
  /\ UNCHANGED <<repo, anchor, page, checkpoint, pin, todo, undone, failed, succeeded,
                 astray>>

Pass == Advances("advancing") /\ failed = {}
PassSkipping == Advances("acknowledging")  \* --skip-failed
PassChronic == Advances("autoskipping") /\ Chronic

\* A fresh failure, or the <head> sentinel of a rewritten history.
Block ==
  /\ AtGate /\ Record
  /\ ~Reachable(pin) \/ (failed # {} /\ ~Chronic)
  /\ EndRun
  /\ UNCHANGED <<repo, anchor, page, checkpoint, astray>>

\* advance(): before any failure is marked as skipped.
Advance ==
  /\ stage = "advancing" /\ MoveAnchor(pin, {}) /\ EndRun
  /\ UNCHANGED <<repo, page, ledger>>

AdvanceMarking ==
  /\ \/ stage = "acknowledging" /\ stage' = "marking_all"
     \/ stage = "autoskipping" /\ stage' = "marking_own"
  /\ MoveAnchor(pin, {}) /\ pin' = NoCommit /\ undone' = {} /\ succeeded' = {}
  /\ UNCHANGED <<repo, page, ledger, todo, failed>>

Marked(S, st) ==
  [f \in File |-> IF f \in S /\ ledger[f].state = "open" THEN [ledger[f] EXCEPT !.state = st]
                                                          ELSE ledger[f]]

\* acknowledgeFailures takes every open row of the source, autoSkipFailures this run's.
Mark ==
  /\ \/ stage = "marking_all" /\ ledger' = Marked(File, "acknowledged")
     \/ stage = "marking_own" /\ ledger' = Marked(failed, "auto_skipped")
  /\ EndRun
  /\ UNCHANGED <<repo, anchor, page, checkpoint, astray>>

Next ==
  \/ \E f \in File : \E c \in Content \union {Absent} : Commit(f, c)
  \/ \E n \in 1..MaxCommits : Rewrite(n)
  \/ Discard \/ Resume \/ Begin \/ Stop
  \/ \E f \in File : Import(f) \/ Delete(f) \/ Fail(f)
  \/ Flush \/ Pass \/ PassSkipping \/ PassChronic \/ Block
  \/ Advance \/ AdvanceMarking \/ Mark

Spec == Init /\ [][Next]_vars

-----------------------------------------------------------------------------
\* Properties.

\* What the next runs look at: the target's diff but for what is banked, and what has
\* come after the target.
Ahead ==
  IF Resumable THEN (Diff(anchor, target) \ banked) \union Diff(target, history)
               ELSE Diff(anchor, history)

\* No file is skipped for good: a page that is not what the working tree holds will be
\* looked at by the next runs, or its failure is in the ledger, whatever was killed,
\* banked, blocked, skipped or committed in between.  The exceptions, file by file: a page
\* read from a tree past the pinned one or from commits rewritten away, and a path that a
\* checkpoint not read, or not cleared, has banked for another pin.
NothingSkipped ==
  \A f \in Differ(page, Working) : f \in Ahead \/ ledger[f].state # "none" \/ f \in astray
=============================================================================
