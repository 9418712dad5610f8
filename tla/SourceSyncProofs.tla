-------------------------- MODULE SourceSyncProofs --------------------------
(***************************************************************************)
(* For any set of files, any contents, any number of commits and rewrites: *)
(* no file of a source is skipped for good.  The argument follows a page   *)
(* from the bookmark to the target: it is one of the two, it is the        *)
(* target's once its path is done or banked, and the failure ledger has it *)
(* before the bookmark passes it.  A rewrite of the history under a run,   *)
(* and a checkpoint that outlives its run or goes unread, break the second *)
(* of these for the files they concern, and those are noted.               *)
(***************************************************************************)
EXTENDS SourceSync, TLAPS

\* The values of the variables, as far as the argument needs them; the stages past the gate,
\* before and after the bookmark has moved.
Entry == [state : {"none", "open", "acknowledged", "auto_skipped"}, attempts : Nat]
Leaving == {"advancing", "acknowledging", "autoskipping"}
Marking == {"marking_all", "marking_own"}

SyncTypes ==
  /\ history \in Seq(Sync!Tree) /\ history # <<>> /\ anchor \in Seq(Sync!Tree)
  /\ anchor # <<>>
  /\ target \in Seq(Sync!Tree) /\ pin \in Seq(Sync!Tree) /\ page \in Sync!Tree
  /\ \A r \in left : r.target \in Seq(Sync!Tree)
  /\ failureLedger \in [Files -> Entry]
  /\ stage \in {"idle", "draining"} \union Leaving \union Marking
  /\ failed \subseteq Files

\* Once the bookmark has moved there is nothing left of the run but its failures, and
\* between two runs nothing but the checkpoint.
IdleInv ==
  /\ stage = "idle" => failed = {}
  /\ stage \in {"idle"} \union Marking => undone = {} /\ succeeded = {}

\* A run is under way, and its bookmark where it was.
Under == stage \in {"draining"} \union Leaving

\* It works on the checkpoint's target, and its diff is accounted for: to do, done,
\* banked or failed; once it is past the gate the failures are in the ledger.
RunInv ==
  /\ Under =>
       /\ target # Sync!NoCommit /\ pin = target
       /\ succeeded \subseteq undone \union banked
       /\ Sync!Diff(anchor, pin) \subseteq todo \union failed \union undone \union banked
  /\ stage \in Leaving =>
       todo = {} /\ \A f \in failed : failureLedger[f].state # "none"

\* A page is the bookmark's or the target's; what is done is the target's; and once the
\* target has been rewritten away every page is the bookmark's: under a run all of them.
PageInv ==
  \A f \in Files \ astray :
    /\ target = Sync!NoCommit => (failureLedger[f].state = "none" => page[f] = Sync!Last(anchor)[f])
    /\ target # Sync!NoCommit =>
         /\ failureLedger[f].state = "none" => page[f] \in {Sync!Last(anchor)[f], Sync!Last(target)[f]}
         /\ f \in banked \union undone => page[f] = Sync!Last(target)[f]
         /\ (~Sync!Reachable(target) /\ (Under \/ failureLedger[f].state = "none"))
              => page[f] = Sync!Last(anchor)[f]

SyncInv == SyncTypes /\ IdleInv /\ RunInv /\ PageInv

-----------------------------------------------------------------------------
\* The tree of a commit; what one more commit keeps.
LEMMA LastTree ==
  ASSUME NEW c \in Seq(Sync!Tree), c # <<>>
  PROVE  Sync!Last(c) \in Sync!Tree
BY DEF Sync!Last

LEMMA PrefixGrows ==
  ASSUME NEW S, NEW c \in Seq(S), NEW h \in Seq(S), NEW t \in S, Sync!IsPrefix(c, h)
  PROVE  Sync!IsPrefix(c, Append(h, t))
<1>1. Len(c) \in Nat /\ Len(h) \in Nat /\ Len(c) <= Len(h)
  BY DEF Sync!IsPrefix
<1>2. Append(h, t) \in Seq(S) /\ Len(Append(h, t)) = Len(h) + 1
      /\ \A i \in 1..Len(h) : Append(h, t)[i] = h[i]
  OBVIOUS
<1>3. SubSeq(Append(h, t), 1, Len(c)) = SubSeq(h, 1, Len(c))
  BY <1>1, <1>2
<1> QED
  BY <1>1, <1>2, <1>3 DEF Sync!IsPrefix

LEMMA PrefixSelf == ASSUME NEW S, NEW c \in Seq(S) PROVE Sync!IsPrefix(c, c)
BY DEF Sync!IsPrefix

\* Initially everything is imported.
LEMMA SyncInit == ASSUME Sync!SyncConstants, Sync!Init PROVE SyncInv
<1>1. PICK c \in Content : history = <<[f \in Files |-> c]>>
  BY DEF Sync!Init
<1>2. [f \in Files |-> c] \in Sync!Tree
  BY DEF Sync!Tree
<1>3. /\ history \in Seq(Sync!Tree) /\ history # <<>> /\ anchor = history
      /\ target = <<>> /\ pin = <<>>
  BY <1>1, <1>2 DEF Sync!Init, Sync!NoCommit
<1>4. SyncTypes
  BY <1>3, LastTree DEF Sync!Init, SyncTypes, Entry, Sync!NoFailure
<1>5. IdleInv /\ RunInv /\ PageInv
  BY <1>3 DEF Sync!Init, IdleInv, RunInv, Under, PageInv, Sync!NoCommit, Leaving, Marking
<1> QED
  BY <1>4, <1>5 DEF SyncInv

-----------------------------------------------------------------------------
\* The repository.  Commits keep what is reachable.
LEMMA CommitStep ==
  ASSUME SyncInv, NEW f \in Files, NEW c \in Content \union {Absent}, Sync!Commit(f, c)
  PROVE  SyncInv'
<1>1. [Sync!Working EXCEPT ![f] = c] \in Sync!Tree
  BY LastTree DEF SyncInv, SyncTypes, Sync!Working, Sync!Tree
<1>2. /\ history' = Append(history, [Sync!Working EXCEPT ![f] = c])
      /\ UNCHANGED <<anchor, page, target, banked, left, failureLedger, stage, pin, todo, undone, failed,
                     succeeded, astray>>
  BY DEF Sync!Commit, Sync!stored, Sync!checkpoint, Sync!own
<1>3. history' \in Seq(Sync!Tree) /\ history' # <<>>
  BY <1>1, <1>2 DEF SyncInv, SyncTypes
<1>4. Sync!Reachable(target) => Sync!Reachable(target)'
  BY <1>1, <1>2, PrefixGrows DEF SyncInv, SyncTypes, Sync!Reachable
<1>5. SyncTypes' /\ IdleInv'
  BY <1>2, <1>3 DEF SyncInv, SyncTypes, IdleInv
<1>6. RunInv'
  BY <1>2 DEF SyncInv, RunInv, Under, Sync!Diff
<1>7. PageInv'
  BY <1>2, <1>4 DEF SyncInv, PageInv, Under
<1> QED
  BY <1>5, <1>6, <1>7 DEF SyncInv

\* After a rewrite every page off the bookmark is astray.
LEMMA RewriteStep == ASSUME SyncInv, NEW n \in 1..MaxCommits, Sync!Rewrite(n) PROVE SyncInv'
<1>1. /\ history' = SubSeq(history, 1, n) /\ n < Len(history) /\ n \in Nat /\ n > 0
      /\ astray' = astray \union Sync!Differ(page, Sync!Last(anchor))
      /\ UNCHANGED <<anchor, page, target, banked, left, failureLedger, stage, pin, todo, undone, failed,
                     succeeded>>
  BY DEF Sync!Rewrite, Sync!stored, Sync!checkpoint, Sync!own
<1>2. history' \in Seq(Sync!Tree) /\ Len(history') = n
  BY <1>1 DEF SyncInv, SyncTypes
<1>a. history' # <<>>
  BY <1>1, <1>2
<1>3. SyncTypes' /\ IdleInv'
  BY <1>1, <1>2, <1>a DEF SyncInv, SyncTypes, IdleInv
<1>4. RunInv'
  BY <1>1 DEF SyncInv, RunInv, Under, Sync!Diff
<1>5. PageInv'
  BY <1>1 DEF SyncInv, PageInv, Under, Sync!Differ
<1> QED
  BY <1>3, <1>4, <1>5 DEF SyncInv

\* Between two runs: a target that was rewritten away is given up.
LEMMA DiscardStep == ASSUME SyncInv, Sync!Discard PROVE SyncInv'
<1>1. /\ stage = "idle" /\ target # Sync!NoCommit /\ ~Sync!Reachable(target)
      /\ target' \in {Sync!NoCommit, target} /\ banked' \subseteq banked
      /\ UNCHANGED <<history, anchor, page, left, failureLedger, stage, pin, todo, undone,
                     failed, succeeded, astray>>
  BY DEF Sync!Discard, Sync!repo, Sync!own
<1>2. SyncTypes' /\ IdleInv' /\ RunInv'
  <2>1. target' \in Seq(Sync!Tree)
    <3>1. Sync!NoCommit \in Seq(Sync!Tree)
      BY DEF Sync!NoCommit
    <3>2. target \in Seq(Sync!Tree)
      BY DEF SyncInv, SyncTypes
    <3> QED
      BY <1>1, <3>1, <3>2
  <2>2. SyncTypes'
    BY <1>1, <2>1 DEF SyncInv, SyncTypes
  <2>3. IdleInv' /\ RunInv'
    BY <1>1 DEF SyncInv, IdleInv, RunInv, Under, Leaving
  <2> QED
    BY <2>2, <2>3
<1>3. PageInv'
  <2>1. CASE target' = Sync!NoCommit
    BY <1>1, <2>1 DEF SyncInv, PageInv
  <2>2. CASE target' = target
    BY <1>1, <2>2 DEF SyncInv, PageInv, Under, Sync!Reachable
  <2> QED
    BY <1>1, <2>1, <2>2
<1> QED
  BY <1>2, <1>3 DEF SyncInv

\* The bookmark moves to a commit that every page off it is noted against.  Whatever
\* checkpoint is found there, what it has banked is noted as astray.
LEMMA Moves ==
  ASSUME SyncInv, NEW c \in Seq(Sync!Tree), c # <<>>, NEW lost, Sync!MoveAnchor(c, lost),
         UNCHANGED <<history, page, failureLedger>>, undone' = {}, ~Under',
         \A f \in Files \ (astray \union lost) :
           failureLedger[f].state = "none" => page[f] = Sync!Last(c)[f]
  PROVE  /\ anchor' = c /\ target' \in Seq(Sync!Tree)
         /\ \A r \in left' : r.target \in Seq(Sync!Tree)
         /\ PageInv'
<1>1. PICK t \in {Sync!NoCommit, target}, b \in {{}, banked} :
        LET rows == {r \in left \union {[anchor |-> anchor, target |-> t, banked |-> b]} :
                       r.target # Sync!NoCommit \/ r.banked # {}}
            found == {r \in rows : r.anchor = c}
        IN  /\ anchor' = c /\ left' = rows \ found
            /\ IF found = {} THEN target' = Sync!NoCommit /\ banked' = {}
                             ELSE \E r \in found : target' = r.target /\ banked' = r.banked
            /\ astray' = astray \union lost \union banked'
  BY DEF Sync!MoveAnchor, Sync!NewAnchor
<1> DEFINE all == left \union {[anchor |-> anchor, target |-> t, banked |-> b]}
<1>2. Sync!NoCommit \in Seq(Sync!Tree)
  BY DEF Sync!NoCommit
<1>3. \A r \in all : r.target \in Seq(Sync!Tree)
  BY <1>2 DEF SyncInv, SyncTypes
<1>4. /\ anchor' = c /\ left' \subseteq all
      /\ target' = Sync!NoCommit \/ \E r \in all : target' = r.target
      /\ astray' = astray \union lost \union banked'
  BY <1>1
<1> HIDE DEF all
<1>5. PageInv'
  BY <1>4 DEF PageInv
<1> QED
  BY <1>2, <1>3, <1>4, <1>5

\* A run begins, or finds that there is nothing to do.
LEMMA DrainStep ==
  ASSUME SyncInv, stage = "idle", NEW c \in Seq(Sync!Tree), c # <<>>, NEW done, NEW lost,
         Sync!Drain(c, done, lost), Sync!Reachable(c),
         UNCHANGED <<history, page, failureLedger>>,
         done \subseteq banked,
         \A f \in Files \ (astray \union lost) :
           /\ failureLedger[f].state = "none" =>
                page[f] \in {Sync!Last(anchor)[f], Sync!Last(c)[f]}
           /\ f \in banked => page[f] = Sync!Last(c)[f]
  PROVE  SyncInv'
<1>0. undone = {} /\ failed = {} /\ succeeded = {}
  BY DEF SyncInv, IdleInv
<1>1. CASE Sync!Diff(anchor, c) = {}
  <2>1. Sync!MoveAnchor(c, lost) /\ UNCHANGED <<stage, pin, todo, undone, failed, succeeded>>
    BY <1>1 DEF Sync!Drain, Sync!own
  <2>2. \A f \in Files \ (astray \union lost) :
          failureLedger[f].state = "none" => page[f] = Sync!Last(c)[f]
    BY <1>1 DEF Sync!Diff, Sync!Differ
  <2>3. undone' = {} /\ ~Under'
    BY <1>0, <2>1 DEF Under, Leaving
  <2>4. /\ anchor' = c /\ target' \in Seq(Sync!Tree) /\ PageInv'
        /\ \A r \in left' : r.target \in Seq(Sync!Tree)
    BY <2>1, <2>2, <2>3, Moves
  <2>5. SyncTypes' /\ IdleInv' /\ RunInv'
    BY <2>1, <2>4 DEF SyncInv, SyncTypes, IdleInv, RunInv, Under, Leaving
  <2> QED
    BY <2>4, <2>5 DEF SyncInv
<1>2. CASE Sync!Diff(anchor, c) # {}
  <2>1. /\ stage' = "draining" /\ pin' = c /\ todo' = Sync!Diff(anchor, c) \ done
        /\ target' = c /\ astray' = astray \union lost
        /\ UNCHANGED <<anchor, banked, left, undone, failed, succeeded>>
    BY <1>2 DEF Sync!Drain
  <2>2. c # Sync!NoCommit
    BY DEF Sync!NoCommit
  <2>3. SyncTypes' /\ IdleInv'
    BY <1>0, <2>1 DEF SyncInv, SyncTypes, IdleInv, Marking
  <2>4. RunInv'
    BY <1>0, <2>1, <2>2 DEF RunInv, Under, Leaving, Sync!Diff
  <2>5. PageInv'
    <3>1. Sync!Reachable(c)'
      BY DEF Sync!Reachable
    <3> QED
      BY <1>0, <2>1, <2>2, <3>1 DEF PageInv
  <2> QED
    BY <2>3, <2>4, <2>5 DEF SyncInv
<1> QED
  BY <1>1, <1>2

\* A run goes on where the checkpoint says.
LEMMA ResumeStep == ASSUME SyncInv, Sync!Resume PROVE SyncInv'
<1>1. PICK done \in {banked, {}} : Sync!Drain(target, done, {})
  BY DEF Sync!Resume
<1>2. /\ stage = "idle" /\ target \in Seq(Sync!Tree) /\ target # <<>>
      /\ Sync!Reachable(target)
      /\ UNCHANGED <<history, page, failureLedger>>
  BY DEF Sync!Resume, Sync!Outdated, Sync!Resumable, SyncInv, SyncTypes, Sync!NoCommit,
         Sync!repo
<1>3. \A f \in Files \ (astray \union {}) :
        /\ failureLedger[f].state = "none" =>
             page[f] \in {Sync!Last(anchor)[f], Sync!Last(target)[f]}
        /\ f \in banked => page[f] = Sync!Last(target)[f]
  BY <1>2 DEF SyncInv, PageInv, Sync!NoCommit
<1> QED
  BY <1>1, <1>2, <1>3, DrainStep

\* A run that reads no checkpoint finds every page at the bookmark, but for what the one
\* it did not read has left astray.
LEMMA BeginStep == ASSUME SyncInv, Sync!Begin PROVE SyncInv'
<1>1. /\ stage = "idle" /\ history \in Seq(Sync!Tree) /\ history # <<>>
      /\ Sync!Reachable(history)
      /\ Sync!Drain(history, {}, Sync!Unread) /\ UNCHANGED <<history, page, failureLedger>>
  BY PrefixSelf DEF Sync!Begin, Sync!Outdated, SyncInv, SyncTypes, Sync!Reachable, Sync!repo
<1>2. \A f \in Files \ (astray \union Sync!Unread) :
        /\ failureLedger[f].state = "none" =>
             page[f] \in {Sync!Last(anchor)[f], Sync!Last(history)[f]}
        /\ f \in banked => page[f] = Sync!Last(history)[f]
  <2>1. CASE Sync!Stored
    BY <2>1 DEF Sync!Unread, Sync!Differ
  <2>2. CASE ~Sync!Stored
    BY <2>2 DEF Sync!Unread, Sync!Stored, SyncInv, PageInv
  <2> QED
    BY <2>1, <2>2
<1> HIDE DEF Sync!Unread
<1> QED
  BY <1>1, <1>2, DrainStep

\* What a run has not banked is to do again.
LEMMA EndStep ==
  ASSUME SyncInv, Sync!EndRun,
         UNCHANGED <<history, anchor, page, target, banked, left, failureLedger, astray>>
  PROVE  SyncInv'
<1>1. stage' = "idle" /\ pin' = <<>> /\ undone' = {} /\ failed' = {} /\ succeeded' = {}
  BY DEF Sync!EndRun, Sync!NoCommit
<1>2. SyncTypes' /\ IdleInv' /\ RunInv'
  BY <1>1 DEF SyncInv, SyncTypes, IdleInv, RunInv, Under, Leaving
<1>3. PageInv'
  BY <1>1 DEF SyncInv, PageInv, Under, Leaving, Sync!Reachable
<1> QED
  BY <1>2, <1>3 DEF SyncInv

-----------------------------------------------------------------------------
\* A page that is written is the target's, or astray.
LEMMA WorkStep ==
  ASSUME SyncInv, stage = "draining", NEW f \in Files, f \in todo,
         NEW v \in Content \union {Absent}, page' = [page EXCEPT ![f] = v],
         NEW b \in BOOLEAN, Sync!Done(f, b), b => v = Sync!Last(pin)[f],
         succeeded' \in {succeeded, succeeded \union {f}},
         UNCHANGED <<history, anchor, target, banked, left, failureLedger, stage, pin, failed>>
  PROVE  SyncInv'
<1>1. pin = target /\ target # Sync!NoCommit
  BY DEF SyncInv, RunInv, Under
<1>2. todo' = todo \ {f} /\ undone' = undone \union {f}
  BY DEF Sync!Done
<1>3. page' \in Sync!Tree /\ page'[f] = v /\ \A g \in Files : g # f => page'[g] = page[g]
  BY DEF SyncInv, SyncTypes, Sync!Tree
<1>4. SyncTypes' /\ IdleInv'
  BY <1>3 DEF SyncInv, SyncTypes, IdleInv, Marking
<1>5. RunInv'
  BY <1>1, <1>2 DEF SyncInv, RunInv, Under, Sync!Diff, Leaving
<1>6. Sync!Reachable(target)' <=> Sync!Reachable(target)
  BY DEF Sync!Reachable
<1>7. PageInv'
  <2>1. CASE b /\ Sync!Reachable(pin)
    <3>1. astray' = astray \ {f} /\ v = Sync!Last(target)[f]
      BY <1>1, <2>1 DEF Sync!Done
    <3> QED
      BY <1>1, <1>2, <1>3, <1>6, <2>1, <3>1 DEF SyncInv, PageInv, Under
  <2>2. CASE ~(b /\ Sync!Reachable(pin))
    <3>1. astray' = astray \union {f}
      BY <2>2 DEF Sync!Done
    <3> QED
      BY <1>1, <1>2, <1>3, <1>6, <3>1 DEF SyncInv, PageInv, Under
  <2> QED
    BY <2>1, <2>2
<1> QED
  BY <1>4, <1>5, <1>7 DEF SyncInv

\* An import or a delete makes the page what the tree says, which may have moved on.
LEMMA ImportStep ==
  ASSUME SyncInv, NEW f \in Files, Sync!Import(f) \/ Sync!Delete(f) PROVE SyncInv'
<1>0. stage = "draining" /\ f \in todo /\ page \in Sync!Tree /\ Sync!Working \in Sync!Tree
      /\ UNCHANGED <<history, anchor, target, banked, left, failureLedger, stage, pin, failed>>
  BY LastTree DEF Sync!Import, Sync!Delete, Sync!repo, Sync!checkpoint, SyncInv, SyncTypes, Sync!Working
<1>1. CASE Sync!Import(f)
  <2> DEFINE v == IF Sync!Working[f] = Absent THEN page[f] ELSE Sync!Working[f]
             b == Sync!Working[f] = Sync!Last(pin)[f]
  <2>1. v \in Content \union {Absent} /\ b \in BOOLEAN /\ (b => v = Sync!Last(pin)[f])
    BY <1>0, <1>1 DEF Sync!Tree, Sync!Import
  <2>2. page' = [page EXCEPT ![f] = v] /\ Sync!Done(f, b)
        /\ succeeded' \in {succeeded, succeeded \union {f}}
    BY <1>1 DEF Sync!Import
  <2> HIDE DEF v, b
  <2> QED
    BY <1>0, <2>1, <2>2, WorkStep
<1>2. CASE Sync!Delete(f)
  BY <1>0, <1>2, WorkStep DEF Sync!Delete
<1> QED
  BY <1>1, <1>2

\* A file that cannot be imported, and the paths that are banked.
LEMMA FailStep == ASSUME SyncInv, NEW f \in Files, Sync!Fail(f) PROVE SyncInv'
<1>1. /\ stage = "draining" /\ todo' = todo \ {f} /\ failed' = failed \union {f}
      /\ UNCHANGED <<history, anchor, page, target, banked, left, failureLedger, stage,
                     pin, undone, succeeded, astray>>
  BY DEF Sync!Fail, Sync!repo, Sync!stored, Sync!checkpoint
<1>2. SyncTypes' /\ IdleInv' /\ RunInv'
  BY <1>1 DEF SyncInv, SyncTypes, IdleInv, RunInv, Under, Sync!Diff, Leaving
<1>3. PageInv'
  BY <1>1 DEF SyncInv, PageInv, Under, Leaving, Sync!Reachable
<1> QED
  BY <1>2, <1>3 DEF SyncInv

LEMMA FlushStep == ASSUME SyncInv, Sync!Flush PROVE SyncInv'
<1>1. /\ stage = "draining" /\ banked' = banked \union undone /\ undone' = {}
      /\ UNCHANGED <<history, anchor, page, target, left, failureLedger, stage, pin, todo,
                     failed, succeeded, astray>>
  BY DEF Sync!Flush, Sync!repo
<1>2. SyncTypes' /\ IdleInv' /\ RunInv'
  BY <1>1 DEF SyncInv, SyncTypes, IdleInv, RunInv, Under, Sync!Diff, Leaving
<1>3. PageInv'
  BY <1>1 DEF SyncInv, PageInv, Under, Leaving, Sync!Reachable
<1> QED
  BY <1>2, <1>3 DEF SyncInv

-----------------------------------------------------------------------------
\* What the gate writes: a failure is noted, and only what is done is struck off.
LEMMA RecordKeeps ==
  ASSUME Sync!SyncConstants, SyncInv, Sync!AtGate, Sync!Record
  PROVE  /\ failureLedger' \in [Files -> Entry]
         /\ \A f \in failed : failureLedger'[f].state # "none"
         /\ \A f \in Files : failureLedger'[f].state = "none" =>
              failureLedger[f].state = "none" \/ f \in banked \union undone
<1>0. /\ stage = "draining" /\ target # Sync!NoCommit /\ pin = target
      /\ todo = {} /\ failed \subseteq Files
      /\ succeeded \subseteq undone \union banked
      /\ Sync!Diff(anchor, pin) \subseteq failed \union undone \union banked
  BY DEF Sync!AtGate, SyncInv, RunInv, Under, SyncTypes
<1>1. ASSUME NEW f \in Files
      PROVE  /\ Sync!Recorded(f) \in Entry
             /\ f \in failed => Sync!Recorded(f).state # "none"
             /\ Sync!Recorded(f).state = "none" =>
                  failureLedger[f].state = "none" \/ f \in banked \union undone
  <2>1. failureLedger[f] \in Entry /\ failureLedger[f].attempts \in Nat
    BY DEF SyncInv, SyncTypes, Entry
  <2>2. CASE f \in failed
    <3>1. Sync!Capped(failureLedger[f].attempts) \in Nat
      BY <2>1 DEF Sync!Capped
    <3>2. PICK n \in Nat : Sync!Recorded(f) = [state |-> "open", attempts |-> n]
      BY <2>2, <3>1 DEF Sync!Recorded
    <3> QED
      BY <3>2 DEF Entry
  <2>3. CASE f \notin failed /\ f \in Sync!Resolved
    <3>1. Sync!Recorded(f) = Sync!NoFailure
      BY <2>3 DEF Sync!Recorded
    <3>2. f \in banked \union undone
      BY <1>0, <2>3 DEF Sync!Resolved
    <3> QED
      BY <2>3, <3>1, <3>2 DEF Sync!NoFailure, Entry
  <2>4. CASE f \notin failed /\ f \notin Sync!Resolved
    BY <2>1, <2>4 DEF Sync!Recorded
  <2> QED
    BY <2>2, <2>3, <2>4
<1>2. failureLedger' = [f \in Files |-> Sync!Recorded(f)]
  BY DEF Sync!Record
<1> QED
  BY <1>0, <1>1, <1>2

\* Recording changes what is said of pages that are the target's only.
LEMMA RecordPages ==
  ASSUME Sync!SyncConstants, SyncInv, Sync!AtGate, Sync!Record,
         UNCHANGED <<history, anchor, page, target, banked, left, astray>>,
         undone' \subseteq undone
  PROVE  PageInv'
<1>1. \A f \in Files :
        failureLedger'[f].state = "none"
          => failureLedger[f].state = "none" \/ f \in banked \union undone
  BY RecordKeeps
<1>2. target # Sync!NoCommit /\ Under
  BY DEF SyncInv, Sync!AtGate, RunInv, Under
<1>3. Sync!Reachable(target)' <=> Sync!Reachable(target)
  BY DEF Sync!Reachable
<1> QED
  BY <1>1, <1>2, <1>3 DEF SyncInv, PageInv

\* The gate lets the run advance, or blocks it.
LEMMA GateStep ==
  ASSUME Sync!SyncConstants, SyncInv, NEW st \in Leaving, Sync!Advances(st) PROVE SyncInv'
<1>1. /\ Sync!AtGate /\ Sync!Record /\ stage' = st
      /\ UNCHANGED <<history, anchor, page, target, banked, left, pin, todo, undone,
                     failed, succeeded, astray>>
  BY DEF Sync!Advances, Sync!repo, Sync!checkpoint
<1>2. failureLedger' \in [Files -> Entry] /\ \A f \in failed : failureLedger'[f].state # "none"
  BY <1>1, RecordKeeps
<1>3. stage = "draining" /\ todo = {} /\ target # Sync!NoCommit /\ pin = target
  BY <1>1 DEF Sync!AtGate, SyncInv, RunInv, Under
<1>4. SyncTypes' /\ IdleInv'
  BY <1>1, <1>2, <1>3 DEF SyncInv, SyncTypes, IdleInv, Leaving, Marking
<1>5. RunInv'
  BY <1>1, <1>2, <1>3 DEF SyncInv, RunInv, Under, Sync!Diff, Leaving
<1>6. PageInv'
  BY <1>1, RecordPages
<1> QED
  BY <1>4, <1>5, <1>6 DEF SyncInv

LEMMA BlockStep == ASSUME Sync!SyncConstants, SyncInv, Sync!Block PROVE SyncInv'
<1>1. /\ Sync!AtGate /\ Sync!Record /\ stage' = "idle" /\ pin' = <<>>
      /\ undone' = {} /\ failed' = {} /\ succeeded' = {}
      /\ UNCHANGED <<history, anchor, page, target, banked, left, astray>>
  BY DEF Sync!Block, Sync!EndRun, Sync!NoCommit, Sync!repo, Sync!checkpoint
<1>2. failureLedger' \in [Files -> Entry]
  BY <1>1, RecordKeeps
<1>3. SyncTypes' /\ IdleInv' /\ RunInv'
  BY <1>1, <1>2 DEF SyncInv, SyncTypes, IdleInv, RunInv, Under, Leaving
<1>4. PageInv'
  BY <1>1, RecordPages
<1> QED
  BY <1>3, <1>4 DEF SyncInv

\* Past the gate every page off the pin is noted.
LEMMA PastGate ==
  ASSUME SyncInv, stage \in Leaving
  PROVE  \A f \in Files \ astray : failureLedger[f].state = "none" => page[f] = Sync!Last(pin)[f]
<1>1. /\ pin = target /\ target # Sync!NoCommit
      /\ Sync!Diff(anchor, pin) \subseteq failed \union undone \union banked
      /\ \A f \in failed : failureLedger[f].state # "none"
  BY DEF SyncInv, RunInv, Under
<1> SUFFICES ASSUME NEW f \in Files \ astray, failureLedger[f].state = "none"
             PROVE  page[f] = Sync!Last(target)[f]
  BY <1>1
<1>2. CASE f \in Sync!Diff(anchor, pin)
  BY <1>1, <1>2 DEF SyncInv, PageInv
<1>3. CASE f \notin Sync!Diff(anchor, pin)
  <2>1. Sync!Last(anchor)[f] = Sync!Last(target)[f]
    BY <1>1, <1>3 DEF Sync!Diff, Sync!Differ
  <2> QED
    BY <1>1, <2>1 DEF SyncInv, PageInv
<1> QED
  BY <1>2, <1>3

\* The bookmark moves to the pin; then the failures are marked.
LEMMA AdvanceStep == ASSUME SyncInv, Sync!Advance \/ Sync!AdvanceMarking PROVE SyncInv'
<1>1. /\ stage \in Leaving /\ Sync!MoveAnchor(pin, {}) /\ pin' = <<>>
      /\ UNCHANGED <<history, page, failureLedger>>
      /\ undone' = {} /\ succeeded' = {}
      /\ \/ stage' = "idle" /\ failed' = {}
         \/ stage' \in Marking /\ failed' = failed
  BY DEF Sync!Advance, Sync!AdvanceMarking, Sync!EndRun, Leaving, Marking, Sync!NoCommit,
         Sync!repo
<1>2. pin \in Seq(Sync!Tree) /\ pin # <<>>
  BY <1>1 DEF SyncInv, SyncTypes, RunInv, Under, Sync!NoCommit
<1>3. ~Under'
  BY <1>1 DEF Under, Leaving, Marking
<1>4. /\ anchor' = pin /\ target' \in Seq(Sync!Tree) /\ PageInv'
      /\ \A r \in left' : r.target \in Seq(Sync!Tree)
  BY <1>1, <1>2, <1>3, PastGate, Moves
<1>5. SyncTypes'
  BY <1>1, <1>2, <1>4 DEF SyncInv, SyncTypes
<1>6. IdleInv' /\ RunInv'
  BY <1>1, <1>3 DEF IdleInv, RunInv, Under, Leaving, Marking
<1> QED
  BY <1>4, <1>5, <1>6 DEF SyncInv

LEMMA MarkStep == ASSUME SyncInv, Sync!Mark PROVE SyncInv'
<1>1. /\ Sync!EndRun /\ UNCHANGED <<history, anchor, page, target, banked, left, astray>>
  BY DEF Sync!Mark, Sync!repo, Sync!checkpoint
<1>2. PICK S \in SUBSET Files, st \in {"acknowledged", "auto_skipped"} :
        failureLedger' = Sync!Marked(S, st)
  BY DEF Sync!Mark, SyncInv, SyncTypes
<1>3. /\ failureLedger' \in [Files -> Entry]
      /\ \A f \in Files : failureLedger'[f].state = "none" <=> failureLedger[f].state = "none"
  BY <1>2 DEF Sync!Marked, SyncInv, SyncTypes, Entry
<1>4. stage' = "idle" /\ pin' = <<>> /\ undone' = {} /\ failed' = {} /\ succeeded' = {}
  BY <1>1 DEF Sync!EndRun, Sync!NoCommit
<1>5. SyncTypes' /\ IdleInv' /\ RunInv'
  BY <1>1, <1>3, <1>4 DEF SyncInv, SyncTypes, IdleInv, RunInv, Under, Leaving
<1>6. PageInv'
  BY <1>1, <1>3, <1>4 DEF SyncInv, PageInv, Under, Leaving, Sync!Reachable
<1> QED
  BY <1>5, <1>6 DEF SyncInv

-----------------------------------------------------------------------------
\* Every step of a run and of the repository keeps the invariant.
LEMMA SyncStep ==
  ASSUME Sync!SyncConstants, SyncInv, [Sync!Next]_(Sync!vars) PROVE SyncInv'
<1>1. ASSUME Sync!Stop PROVE SyncInv'
  BY <1>1, EndStep DEF Sync!Stop, Sync!repo, Sync!stored, Sync!checkpoint
<1>2. ASSUME Sync!Pass \/ Sync!PassSkipping \/ Sync!PassChronic PROVE SyncInv'
  BY <1>2, GateStep DEF Sync!Pass, Sync!PassSkipping, Sync!PassChronic, Leaving
<1>3. CASE UNCHANGED Sync!vars
  BY <1>3 DEF Sync!vars, Sync!repo, Sync!stored, Sync!checkpoint, Sync!own, SyncInv,
              SyncTypes, IdleInv, RunInv, Under, PageInv, Sync!Diff, Sync!Reachable
<1> QED
  BY <1>1, <1>2, <1>3, CommitStep, RewriteStep, DiscardStep, ResumeStep, BeginStep,
     ImportStep, FailStep, FlushStep, BlockStep, AdvanceStep, MarkStep DEF Sync!Next

\* Whatever is committed or rewritten meanwhile, wherever runs are killed and resumed, and
\* whatever fails: a page that is not what its file holds is ahead of the bookmark, in the
\* failure ledger, or astray: it was read from another tree than the pinned one, or a
\* checkpoint that was not read, or not cleared, has banked it for another pin.
THEOREM NoFileSkipped == ASSUME Sync!SyncConstants PROVE Sync!Spec => []NothingSkipped
<1>1. SyncInv => NothingSkipped
  <2> SUFFICES ASSUME SyncInv, NEW f \in Sync!Differ(page, Sync!Working),
                      failureLedger[f].state = "none", f \notin astray
               PROVE  f \in Sync!Ahead
    BY DEF NothingSkipped, Sync!NothingSkipped
  <2>0. f \in Files /\ page[f] # Sync!Last(history)[f]
    BY DEF Sync!Differ, Sync!Working
  <2>1. CASE target = Sync!NoCommit
    BY <2>0, <2>1 DEF Sync!Ahead, Sync!Resumable, SyncInv, PageInv, Under, Sync!Diff, Sync!Differ
  <2>2. CASE target # Sync!NoCommit /\ ~Sync!Reachable(target)
    BY <2>0, <2>2 DEF Sync!Ahead, Sync!Resumable, SyncInv, PageInv, Under, Sync!Diff, Sync!Differ
  <2>3. CASE target # Sync!NoCommit /\ Sync!Reachable(target)
    BY <2>0, <2>3 DEF Sync!Ahead, Sync!Resumable, SyncInv, PageInv, Under, Sync!Diff, Sync!Differ
  <2> QED
    BY <2>1, <2>2, <2>3
<1> QED
  BY SyncInit, SyncStep, <1>1, PTL DEF Sync!Spec
=============================================================================
