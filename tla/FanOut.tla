------------------------------- MODULE FanOut -------------------------------
(***************************************************************************)
(* A fan-out: runFanout (commands/agent.ts) submits an aggregator job,     *)
(* then its children, then writes children_ids into the aggregator's data; *)
(* the queue wakes the aggregator when the children have ended; every      *)
(* execution of the aggregator runs subagentAggregatorHandler, which reads *)
(* the inbox and reports on each child.  The queue's steps are those of    *)
(* MinionQueue, for one parent whose children have on_child_fail =         *)
(* 'continue'.                                                             *)
(***************************************************************************)
EXTENDS Naturals, FiniteSets

CONSTANTS
  Children,    \* the entries of the manifest
  MayStall,    \* the children that handleStalled may dead-letter
  MaxRequeues  \* bound: how often an execution of the aggregator loses its row

FanOutConstants ==
  /\ Children # {} /\ IsFiniteSet(Children)
  /\ MayStall \subseteq Children /\ MaxRequeues \in Nat

\* The aggregator is waiting after its submission, and again after a requeue or
\* after a child that put it to sleep.
MaxClaims == 1 + Cardinality(Children) + MaxRequeues
Executions == 1..MaxClaims
Ended == {"complete", "dead", "stalled"}
Outcomes == {"complete", "dead"}
Terminal == {"completed", "dead"}

VARIABLES
  status,   \* the aggregator's row
  token,    \* its lock_token: the number of its last claim, 0 if none
  claims,   \* how often it has been claimed
  requeues, \* how often it has been requeued from active
  child,    \* the children's rows, "none" before they are added
  ids,      \* data.children_ids of the aggregator's row
  unread, read,   \* the inbox: child_done messages by read_at
  pc,       \* where each execution's handler is
  known,    \* the children_ids its claim returned
  seen,     \* the messages its readInbox returned
  report    \* the result of the completed aggregator

row == <<status, token, claims, requeues>>
inbox == <<unread, read>>
handler == <<pc, known, seen>>
vars == <<row, child, ids, inbox, handler, report>>

Messages == [child : Children, outcome : Outcomes]
Reports == UNION {[S -> Outcomes \cup {"missing"}] : S \in SUBSET Children}

TypeOK ==
  /\ status \in {"none", "waiting", "active", "waiting-children"} \cup Terminal
  /\ token \in 0..claims /\ claims \in 0..MaxClaims /\ requeues \in 0..MaxRequeues
  /\ child \in [Children -> {"none", "open"} \cup Ended]
  /\ ids \in {{}, Children}
  /\ unread \subseteq Messages /\ read \subseteq Messages /\ unread \cap read = {}
  /\ pc \in [Executions -> {"none", "begun", "reading", "reporting", "over"}]
  /\ known \in [Executions -> {{}, Children}]
  /\ seen \in [Executions -> SUBSET Messages]
  /\ report \in Reports

NoReport == [c \in {} |-> "missing"]

Init ==
  /\ status = "none" /\ token = 0 /\ claims = 0 /\ requeues = 0
  /\ child = [c \in Children |-> "none"]
  /\ ids = {} /\ unread = {} /\ read = {}
  /\ pc = [e \in Executions |-> "none"]
  /\ known = [e \in Executions |-> {}]
  /\ seen = [e \in Executions |-> {}]
  /\ report = NoReport

-----------------------------------------------------------------------------
\* runFanout.  It may stop for good between any two of its steps.

AddAggregator ==
  /\ status = "none" /\ status' = "waiting"
  /\ UNCHANGED <<token, claims, requeues, child, ids, inbox, handler, report>>

\* queue.add of a child, which puts a runnable parent to sleep.
AddChild(c) ==
  /\ status # "none" /\ child[c] = "none"
  /\ child' = [child EXCEPT ![c] = "open"]
  /\ status' = IF status \in {"waiting", "active"} THEN "waiting-children" ELSE status
  /\ UNCHANGED <<token, claims, requeues, ids, inbox, handler, report>>

\* UPDATE ... SET data = jsonb_set(data, '{children_ids}', ...), unfenced
WriteIds ==
  /\ ids = {} /\ \A c \in Children : child[c] # "none"
  /\ ids' = Children
  /\ UNCHANGED <<row, child, inbox, handler, report>>

-----------------------------------------------------------------------------
\* The children end, as completeJob, failJob and the timeout sweeps end them.

\* UPDATE ... SET status = 'waiting' WHERE 'waiting-children' AND NOT EXISTS (open)
WakeEager(ch) ==  \* mutant: without the NOT EXISTS
  IF status = "waiting-children" THEN "waiting" ELSE status
WakeOnSuccess(ch) ==  \* mutant: a dead child still counts as open
  IF status = "waiting-children" /\ \A c \in Children : ch[c] \notin {"open", "dead"}
  THEN "waiting" ELSE status
Wake(ch) ==
  IF status = "waiting-children" /\ \A c \in Children : ch[c] # "open"
  THEN "waiting" ELSE status

PostSuccesses(c, outcome) ==  \* mutant: as before v0.15, only successes are posted
  IF status \in Terminal \/ outcome = "dead" THEN {}
  ELSE {[child |-> c, outcome |-> outcome]}
PostAnonymous(c, outcome) ==  \* mutant: outcome left out, which reads as complete
  IF status \in Terminal THEN {} ELSE {[child |-> c, outcome |-> "complete"]}
Post(c, outcome) ==
  IF status \in Terminal THEN {} ELSE {[child |-> c, outcome |-> outcome]}

EndChild(c, outcome) ==
  /\ child[c] = "open"
  /\ child' = [child EXCEPT ![c] = outcome]
  /\ unread' = unread \cup Post(c, outcome)
  /\ status' = Wake(child')
  /\ UNCHANGED <<token, claims, requeues, ids, read, handler, report>>

\* handleStalled's dead-letter neither posts nor wakes.
StallChild(c) ==
  /\ c \in MayStall /\ child[c] = "open"
  /\ child' = [child EXCEPT ![c] = "stalled"]
  /\ UNCHANGED <<row, ids, inbox, handler, report>>

-----------------------------------------------------------------------------
\* The aggregator's row and its executions.

Holds(e) == status = "active" /\ token = e

\* claim() returns the row, and with it the data the handler will use.
Claim ==
  /\ status = "waiting"
  /\ status' = "active" /\ claims' = claims + 1 /\ token' = claims + 1
  /\ pc' = [pc EXCEPT ![claims + 1] = "begun"]
  /\ known' = [known EXCEPT ![claims + 1] = ids]
  /\ UNCHANGED <<requeues, child, ids, inbox, seen, report>>

\* handleStalled requeues the row, or an error of the database makes executeJob
\* fail it for a retry.
Requeue ==
  /\ status = "active" /\ requeues < MaxRequeues
  /\ status' = "waiting" /\ token' = 0 /\ requeues' = requeues + 1
  /\ UNCHANGED <<claims, child, ids, inbox, handler, report>>

\* Its stalls, its attempts or its time are used up.
DeadLetter ==
  /\ status = "active"
  /\ status' = "dead" /\ token' = 0
  /\ UNCHANGED <<claims, requeues, child, ids, inbox, handler, report>>

Step(e, from, to) == pc[e] = from /\ pc' = [pc EXCEPT ![e] = to]

\* completeJob, token-fenced.
Complete(e, result) ==
  /\ IF Holds(e)
       THEN status' = "completed" /\ token' = 0 /\ report' = result
       ELSE UNCHANGED <<status, token, report>>
  /\ UNCHANGED <<claims, requeues, child, ids, inbox, known, seen>>

\* children_ids is empty: '(no children)'.
NothingToReport(e) == known[e] = {} /\ Step(e, "begun", "over") /\ Complete(e, NoReport)

\* readInbox, first statement: does the token still hold the row?
CheckLock(e) ==
  /\ known[e] # {}
  /\ Step(e, "begun", IF Holds(e) THEN "reading" ELSE "reporting")
  /\ UNCHANGED <<row, child, ids, inbox, known, seen, report>>

\* readInbox, second statement: UPDATE ... SET read_at WHERE read_at IS NULL
ReadInbox(e) ==
  /\ Step(e, "reading", "reporting")
  /\ seen' = [seen EXCEPT ![e] = unread]
  /\ read' = read \cup unread /\ unread' = {}
  /\ UNCHANGED <<row, child, ids, known, report>>

\* The handler's result: one entry for every expected child.
Told(e, c) == {m \in seen[e] : m.child = c}
Outcome(e, c) ==
  IF Told(e, c) = {} THEN "missing" ELSE (CHOOSE m \in Told(e, c) : TRUE).outcome

Report(e) ==
  /\ Step(e, "reporting", "over")
  /\ Complete(e, [c \in known[e] |-> Outcome(e, c)])

Execute(e) == NothingToReport(e) \/ CheckLock(e) \/ ReadInbox(e) \/ Report(e)

Next ==
  \/ AddAggregator \/ WriteIds
  \/ \E c \in Children : \/ AddChild(c) \/ StallChild(c)
                         \/ \E outcome \in Outcomes : EndChild(c, outcome)
  \/ Claim \/ Requeue \/ DeadLetter
  \/ \E e \in Executions : Execute(e)

Spec == Init /\ [][Next]_vars

\* Workers claim, sweeps end what does not end itself; nothing obliges runFanout or
\* a handler to go on.
Fairness ==
  /\ WF_vars(Claim) /\ WF_vars(DeadLetter)
  /\ \A c \in Children : WF_vars(EndChild(c, "dead"))

FairSpec == Spec /\ Fairness

-----------------------------------------------------------------------------
\* Properties.

\* An aggregator that knows its children runs after all of them have ended: the
\* queue's wake-up, across submission, requeues and claims.
AggregatesLast ==
  (status = "active" /\ known[token] # {}) => \A c \in Children : child[c] \in Ended

\* What is reported of a child is how it ended.
HonestReport ==
  \A c \in DOMAIN report : report[c] # "missing" => report[c] = child[c]

\* A child is missing from the report of the execution that completed only if
\* handleStalled ended it, or if an earlier execution had read its message: none is
\* unposted, and none comes after the inbox was read.
OnlyReadOnceLost ==
  \A c \in DOMAIN report : report[c] = "missing" =>
    \/ child[c] = "stalled"
    \/ \E e \in Executions : Told(e, c) # {}

\* Once children_ids is written the aggregator settles, unless a child was
\* dead-lettered by handleStalled.
Settles ==
  ids # {} ~> (status \in Terminal \/ \E c \in Children : child[c] = "stalled")

\* What the handler's comment says: every terminal path emits child_done, so no
\* expected child lacks a message.
NoneMissing == \A c \in DOMAIN report : report[c] # "missing"
=============================================================================
