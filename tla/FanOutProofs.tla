---------------------------- MODULE FanOutProofs ----------------------------
(***************************************************************************)
(* For any manifest and any number of requeues: an aggregator that knows   *)
(* its children runs after them, what it reports of a child is how it      *)
(* ended, and the order of submission, claims, crashes and messages loses  *)
(* nothing but what an earlier execution had read.  The argument: a        *)
(* runnable aggregator has no open child, so nothing is posted while one   *)
(* of its executions has the row.                                          *)
(***************************************************************************)
EXTENDS FanOut, FiniteSetTheorems, TLAPS

Added == {c \in Children : child[c] # "none"}
Runnable == status \in {"waiting", "active"}

\* Every claim is of a row that was submitted, requeued, or put to sleep by a child.
ClaimsInv ==
  /\ claims + (IF status \in {"waiting", "waiting-children"} THEN 1 ELSE 0)
       <= 1 + Cardinality(Added) + requeues
  /\ status = "none" => (claims = 0 /\ Added = {})
  /\ status = "active" => token # 0

\* A runnable aggregator has no open child.
AsleepInv == Runnable => \A c \in Children : child[c] # "open"

\* The children are known when all of them have been added.
IdsInv ==
  /\ ids # {} => Added = Children
  /\ \A e \in Executions : known[e] # {} => ids # {}

\* Messages tell how children ended; a message that has been read has a reader; until
\* the aggregator ends every ending is told, except the stall sweep's.
MailInv ==
  /\ \A m \in unread \cup read : child[m.child] = m.outcome
  /\ \A e \in Executions : seen[e] \subseteq read
  /\ \A m \in read : \E e \in Executions : m \in seen[e]
  /\ status \notin Terminal =>
       \A c \in Children : child[c] \in Outcomes => \E m \in unread \cup read : m.child = c

\* An execution that has read the inbox and still has the row has missed nothing.
HandlerInv ==
  \A e \in Executions :
    /\ e > claims => pc[e] = "none"
    /\ pc[e] \in {"none", "begun", "reading"} => seen[e] = {}
    /\ pc[e] \in {"reading", "reporting"} => known[e] # {}
    /\ (Holds(e) /\ pc[e] = "reporting") => unread = {}

ReportInv == HonestReport /\ OnlyReadOnceLost

Row == TypeOK /\ ClaimsInv
IInv == Row /\ AsleepInv /\ IdsInv /\ MailInv /\ HandlerInv /\ ReportInv

-----------------------------------------------------------------------------
\* Initially there is nothing but the manifest.
LEMMA InitInv == ASSUME FanOutConstants, Init PROVE IInv
<1> USE DEF FanOutConstants, Init
<1>1. Cardinality(Children) \in Nat /\ MaxClaims \in Nat
  BY FS_CardinalityType DEF MaxClaims
<1>2. NoReport \in Reports /\ DOMAIN NoReport = {}
  <2>1. NoReport \in [{} -> Outcomes \cup {"missing"}]
    BY DEF NoReport
  <2>2. QED
    BY <2>1 DEF Reports, NoReport
<1>3. TypeOK
  BY <1>1, <1>2 DEF TypeOK, Executions
<1>4. Added = {} /\ Cardinality(Added) = 0
  BY FS_EmptySet DEF Added
<1>5. Row
  BY <1>3, <1>4 DEF Row, ClaimsInv
<1>6. AsleepInv /\ IdsInv /\ MailInv /\ HandlerInv
  BY <1>1 DEF AsleepInv, Runnable, IdsInv, MailInv, HandlerInv, Executions, Outcomes, Holds
<1>7. ReportInv
  BY <1>2 DEF ReportInv, HonestReport, OnlyReadOnceLost
<1>8. QED
  BY <1>5, <1>6, <1>7 DEF IInv

\* A row that is waiting has a claim left.
LEMMA ClaimLeft ==
  ASSUME FanOutConstants, Row
  PROVE  /\ MaxClaims \in Nat /\ Cardinality(Added) \in Nat
         /\ IsFiniteSet(Added)
         /\ status \in {"waiting", "waiting-children"} => claims + 1 <= MaxClaims
<1>1. /\ IsFiniteSet(Added) /\ Cardinality(Added) \in Nat
      /\ Cardinality(Added) <= Cardinality(Children) /\ Cardinality(Children) \in Nat
  BY FS_Subset, FS_CardinalityType DEF FanOutConstants, Added
<1>2. QED
  BY <1>1 DEF FanOutConstants, Row, TypeOK, ClaimsInv, MaxClaims

\* An addition counts for one claim.
LEMMA AddChildRow ==
  ASSUME FanOutConstants, Row, NEW c \in Children, AddChild(c) PROVE Row'
<1> USE DEF AddChild, Row
<1>1. Added' = Added \cup {c} /\ c \notin Added
  BY DEF Added, TypeOK
<1>2. Cardinality(Added') = Cardinality(Added) + 1 /\ Cardinality(Added) \in Nat
  BY <1>1, ClaimLeft, FS_AddElement
<1>3. TypeOK'
  BY DEF TypeOK, inbox, handler
<1>4. ClaimsInv'
  BY <1>2 DEF ClaimsInv, TypeOK
<1>5. QED
  BY <1>3, <1>4

\* What a handler reports is a report.
LEMMA ReportType ==
  ASSUME TypeOK, NEW e \in Executions
  PROVE  [c \in known[e] |-> Outcome(e, c)] \in Reports /\ NoReport \in Reports
<1>1. ASSUME NEW c \in known[e] PROVE Outcome(e, c) \in Outcomes \cup {"missing"}
  <2>1. CASE Told(e, c) = {}
    BY <2>1 DEF Outcome
  <2>2. CASE Told(e, c) # {}
    <3>1. (CHOOSE m \in Told(e, c) : TRUE) \in Told(e, c)
      BY <2>2
    <3>2. Told(e, c) \subseteq Messages
      BY DEF Told, TypeOK
    <3>3. QED
      BY <2>2, <3>1, <3>2 DEF Outcome, Messages
  <2>3. QED
    BY <2>1, <2>2
<1>2. known[e] \in SUBSET Children
  BY DEF TypeOK
<1>3. [c \in known[e] |-> Outcome(e, c)] \in [known[e] -> Outcomes \cup {"missing"}]
  BY <1>1
<1>4. NoReport \in [{} -> Outcomes \cup {"missing"}] /\ {} \in SUBSET Children
  BY DEF NoReport
<1>5. QED
  BY <1>2, <1>3, <1>4 DEF Reports

\* Every step keeps the types, and the claims within what the row has been through.
LEMMA RowStep == ASSUME FanOutConstants, Row, MailInv, [Next]_vars PROVE Row'
<1> USE DEF Row
<1>1. CASE UNCHANGED vars
  BY <1>1 DEF vars, row, inbox, handler, TypeOK, ClaimsInv, Added
<1>2. CASE AddAggregator
  <2>1. Added' = Added
    BY <1>2 DEF AddAggregator, Added
  <2>2. TypeOK'
    BY <1>2 DEF AddAggregator, TypeOK, inbox, handler
  <2>3. QED
    BY <1>2, <2>1, <2>2, ClaimLeft DEF AddAggregator, ClaimsInv, TypeOK
<1>3. CASE WriteIds
  BY <1>3 DEF WriteIds, TypeOK, ClaimsInv, Added, row, inbox, handler
<1>4. ASSUME NEW c \in Children, AddChild(c) PROVE Row'
  BY <1>4, AddChildRow
<1>5. ASSUME NEW c \in Children, StallChild(c) \/ \E outcome \in Outcomes : EndChild(c, outcome)
      PROVE  Row'
  <2>1. Added' = Added
    BY <1>5 DEF StallChild, EndChild, Added, Outcomes, TypeOK
  <2>2. TypeOK'
    <3>1. CASE StallChild(c)
      BY <3>1 DEF StallChild, TypeOK, Ended, row, inbox, handler
    <3>2. ASSUME NEW outcome \in Outcomes, EndChild(c, outcome) PROVE TypeOK'
      <4>1. Post(c, outcome) \subseteq {[child |-> c, outcome |-> outcome]}
        BY DEF Post
      <4>2. unread' \subseteq Messages
        BY <3>2, <4>1 DEF EndChild, TypeOK, Messages
      <4>3. unread' \cap read' = {}
        <5>1. [child |-> c, outcome |-> outcome] \notin read
          BY <3>2 DEF EndChild, MailInv, Outcomes
        <5>2. QED
          BY <3>2, <4>1, <5>1 DEF EndChild, TypeOK
      <4>4. QED
        BY <3>2, <4>2, <4>3 DEF EndChild, Wake, TypeOK, Ended, Outcomes, handler
    <3>3. QED
      BY <1>5, <3>1, <3>2
  <2>3. QED
    BY <1>5, <2>1, <2>2 DEF StallChild, EndChild, Wake, ClaimsInv, row
<1>6. CASE Claim
  BY <1>6, ClaimLeft DEF Claim, TypeOK, ClaimsInv, Added, Executions, inbox
<1>7. CASE Requeue
  <2>1. Added' = Added
    BY <1>7 DEF Requeue, Added
  <2>2. TypeOK'
    BY <1>7 DEF Requeue, TypeOK, FanOutConstants, inbox, handler
  <2>3. QED
    BY <1>7, <2>1, <2>2, ClaimLeft DEF Requeue, ClaimsInv, TypeOK
<1>8. CASE DeadLetter
  BY <1>8 DEF DeadLetter, TypeOK, ClaimsInv, Added, Terminal, inbox, handler
<1>9. ASSUME NEW e \in Executions, Execute(e) PROVE Row'
  <2>1. ASSUME NEW result \in Reports, Complete(e, result), Step(e, pc[e], "over")
        PROVE  Row'
    <3>1. Added' = Added
      BY <2>1 DEF Complete, Added
    <3>2. /\ UNCHANGED <<claims, requeues, child, ids, unread, read, known, seen>>
          /\ pc' = [pc EXCEPT ![e] = "over"]
      BY <2>1 DEF Complete, Step, inbox
    <3>3. CASE Holds(e)
      BY <2>1, <3>1, <3>2, <3>3, ClaimLeft DEF Complete, Holds, TypeOK, ClaimsInv, Terminal
    <3>4. CASE ~Holds(e)
      BY <2>1, <3>1, <3>2, <3>4 DEF Complete, TypeOK, ClaimsInv
    <3>5. QED
      BY <3>3, <3>4
  <2>2. CASE NothingToReport(e)
    BY <2>1, <2>2, ReportType DEF NothingToReport, Step
  <2>3. CASE CheckLock(e)
    BY <2>3 DEF CheckLock, Step, TypeOK, ClaimsInv, Added, row, inbox
  <2>4. CASE ReadInbox(e)
    BY <2>4 DEF ReadInbox, Step, TypeOK, ClaimsInv, Added, row
  <2>5. CASE Report(e)
    BY <2>1, <2>5, ReportType DEF Report, Step
  <2>6. QED
    BY <1>9, <2>2, <2>3, <2>4, <2>5 DEF Execute
<1>10. QED
  BY <1>1, <1>2, <1>3, <1>4, <1>5, <1>6, <1>7, <1>8, <1>9 DEF Next

-----------------------------------------------------------------------------
\* A runnable aggregator has no open child: a child that is added puts it to sleep, and
\* it is woken when none is open.
LEMMA AsleepStep == ASSUME IInv, [Next]_vars PROVE AsleepInv'
<1> USE DEF IInv, AsleepInv, Runnable
<1>1. CASE UNCHANGED vars
  BY <1>1 DEF vars, row
<1>2. CASE AddAggregator
  BY <1>2 DEF AddAggregator, Row, ClaimsInv, Added
<1>3. ASSUME NEW c \in Children, AddChild(c) \/ StallChild(c) PROVE AsleepInv'
  BY <1>3 DEF AddChild, StallChild, row, Row, TypeOK, Terminal
<1>4. ASSUME NEW c \in Children, NEW outcome \in Outcomes, EndChild(c, outcome) PROVE AsleepInv'
  BY <1>4 DEF EndChild, Wake
<1>5. CASE Claim \/ Requeue \/ DeadLetter \/ WriteIds
  BY <1>5 DEF Claim, Requeue, DeadLetter, WriteIds, row
<1>6. ASSUME NEW e \in Executions, Execute(e) PROVE AsleepInv'
  BY <1>6 DEF Execute, NothingToReport, CheckLock, ReadInbox, Report, Complete, row
<1>7. QED
  BY <1>1, <1>2, <1>3, <1>4, <1>5, <1>6 DEF Next

\* children_ids is written once, after the last child, and claims copy it.
LEMMA IdsStep == ASSUME FanOutConstants, IInv, [Next]_vars PROVE IdsInv'
<1> USE DEF IInv, IdsInv, Added
<1>1. CASE UNCHANGED vars
  BY <1>1 DEF vars, handler
<1>2. CASE WriteIds
  BY <1>2 DEF WriteIds, handler, FanOutConstants
<1>3. ASSUME NEW c \in Children,
             AddChild(c) \/ StallChild(c) \/ \E outcome \in Outcomes : EndChild(c, outcome)
      PROVE  IdsInv'
  <2>1. Added \subseteq Added' /\ UNCHANGED <<ids, known>>
    BY <1>3 DEF AddChild, StallChild, EndChild, Outcomes, handler, Row, TypeOK
  <2>2. QED
    BY <2>1
<1>4. CASE Claim
  BY <1>4 DEF Claim, Row, TypeOK
<1>5. CASE AddAggregator \/ Requeue \/ DeadLetter
  BY <1>5 DEF AddAggregator, Requeue, DeadLetter, handler
<1>6. ASSUME NEW e \in Executions, Execute(e) PROVE IdsInv'
  BY <1>6 DEF Execute, NothingToReport, CheckLock, ReadInbox, Report, Complete
<1>7. QED
  BY <1>1, <1>2, <1>3, <1>4, <1>5, <1>6 DEF Next

\* Every ending is told as it was, once, for as long as the aggregator has not ended.
LEMMA MailStep == ASSUME FanOutConstants, IInv, [Next]_vars PROVE MailInv'
<1> USE DEF IInv, Row
<1>1. CASE UNCHANGED vars
  BY <1>1 DEF vars, row, inbox, handler, MailInv
<1>2. ASSUME UNCHANGED <<inbox, seen>>,
             \A c \in Children : child[c] \in Outcomes => child'[c] = child[c],
             \A c \in Children : child'[c] \in Outcomes => child[c] \in Outcomes,
             status' \notin Terminal => status \notin Terminal
      PROVE  MailInv'
  <2>1. \A m \in unread \cup read : m.child \in Children /\ m.outcome \in Outcomes
    BY DEF TypeOK, Messages
  <2>2. QED
    BY <1>2, <2>1 DEF inbox, MailInv
<1>3. CASE AddAggregator \/ Requeue \/ DeadLetter \/ Claim \/ WriteIds
  BY <1>2, <1>3 DEF AddAggregator, Requeue, DeadLetter, Claim, WriteIds, row, handler, Terminal
<1>4. ASSUME NEW c \in Children, AddChild(c) \/ StallChild(c) PROVE MailInv'
  <2>1. UNCHANGED <<inbox, seen>> /\ (status' \notin Terminal => status \notin Terminal)
    BY <1>4 DEF AddChild, StallChild, row, handler, Terminal
  <2>2. child' \in {[child EXCEPT ![c] = "open"], [child EXCEPT ![c] = "stalled"]}
        /\ child[c] \in {"none", "open"}
    BY <1>4 DEF AddChild, StallChild
  <2>3. QED
    BY <1>2, <2>1, <2>2 DEF TypeOK, Outcomes
<1>5. ASSUME NEW c \in Children, NEW outcome \in Outcomes, EndChild(c, outcome) PROVE MailInv'
  <2> DEFINE msg == [child |-> c, outcome |-> outcome]
  <2>1. /\ child' = [child EXCEPT ![c] = outcome] /\ child[c] = "open"
        /\ unread' = unread \cup Post(c, outcome) /\ UNCHANGED <<read, seen>>
        /\ status' \in Terminal <=> status \in Terminal
    BY <1>5 DEF EndChild, handler, Wake, Terminal
  <2>2. Post(c, outcome) = IF status \in Terminal THEN {} ELSE {msg}
    BY DEF Post
  <2>3. \A m \in unread \cup read : m.child \in Children /\ m.child # c
    BY <2>1 DEF TypeOK, Messages, MailInv, Outcomes
  <2>4. \A m \in unread' \cup read' : child'[m.child] = m.outcome
    BY <2>1, <2>2, <2>3 DEF MailInv, TypeOK
  <2>5. ASSUME status' \notin Terminal, NEW d \in Children, child'[d] \in Outcomes
        PROVE  \E m \in unread' \cup read' : m.child = d
    <3>1. CASE d = c
      <4>1. msg \in unread' /\ msg.child = c
        BY <2>1, <2>2, <2>5
      <4>2. QED
        BY <3>1, <4>1
    <3>2. CASE d # c
      BY <2>1, <2>5, <3>2 DEF MailInv, TypeOK
    <3>3. QED
      BY <3>1, <3>2
  <2>6. QED
    BY <2>1, <2>4, <2>5 DEF MailInv
<1>6. ASSUME NEW e \in Executions, ReadInbox(e) PROVE MailInv'
  <2>1. /\ seen' = [seen EXCEPT ![e] = unread] /\ seen[e] = {}
        /\ read' = read \cup unread /\ unread' = {} /\ UNCHANGED <<row, child>>
    BY <1>6 DEF ReadInbox, Step, HandlerInv
  <2>2. \A m \in read' : \E x \in Executions : m \in seen'[x]
    BY <2>1 DEF MailInv, TypeOK
  <2>3. \A x \in Executions : seen'[x] \subseteq read'
    BY <2>1 DEF MailInv, TypeOK
  <2>4. QED
    BY <2>1, <2>2, <2>3 DEF MailInv, row
<1>7. ASSUME NEW e \in Executions, NothingToReport(e) \/ CheckLock(e) \/ Report(e) PROVE MailInv'
  BY <1>2, <1>7 DEF NothingToReport, CheckLock, Report, Complete, row, Terminal, Holds
<1>8. QED
  BY <1>1, <1>3, <1>4, <1>5, <1>6, <1>7 DEF Next, Execute

\* While an execution has the row nothing is posted, so what it read was all.
LEMMA HandlerStep == ASSUME FanOutConstants, IInv, [Next]_vars PROVE HandlerInv'
<1> USE DEF IInv, Row
<1>1. CASE UNCHANGED vars
  BY <1>1 DEF vars, row, inbox, handler, HandlerInv, Holds
<1>2. ASSUME UNCHANGED <<handler, claims>>, unread' = unread,
             \A e \in Executions : Holds(e)' => Holds(e)
      PROVE  HandlerInv'
  BY <1>2 DEF handler, HandlerInv
<1>3. CASE AddAggregator \/ Requeue \/ DeadLetter \/ WriteIds
  BY <1>2, <1>3 DEF AddAggregator, Requeue, DeadLetter, WriteIds, row, inbox, Holds
<1>4. ASSUME NEW c \in Children, AddChild(c) \/ StallChild(c) PROVE HandlerInv'
  BY <1>2, <1>4 DEF AddChild, StallChild, row, inbox, Holds
<1>5. ASSUME NEW c \in Children, NEW outcome \in Outcomes, EndChild(c, outcome) PROVE HandlerInv'
  <2>1. status # "active" /\ status' # "active"
    BY <1>5 DEF EndChild, Wake, AsleepInv, Runnable
  <2>2. UNCHANGED <<handler, claims>>
    BY <1>5 DEF EndChild
  <2>3. QED
    BY <2>1, <2>2 DEF handler, HandlerInv, Holds
<1>6. CASE Claim
  <2>1. claims + 1 \in Executions /\ claims \in Nat
    BY <1>6, ClaimLeft DEF Claim, TypeOK, Executions
  <2>2. /\ pc' = [pc EXCEPT ![claims + 1] = "begun"] /\ token' = claims + 1
        /\ claims' = claims + 1 /\ UNCHANGED <<seen, unread>>
        /\ \A e \in Executions \ {claims + 1} : known'[e] = known[e]
    BY <1>6 DEF Claim, TypeOK, inbox
  <2>3. ASSUME NEW e \in Executions, e # claims + 1, pc'[e] = "reporting" PROVE ~Holds(e)'
    BY <2>2, <2>3 DEF Holds
  <2>4. pc[claims + 1] = "none" /\ seen[claims + 1] = {}
    BY <2>1 DEF HandlerInv
  <2>5. QED
    BY <2>1, <2>2, <2>3, <2>4 DEF HandlerInv, TypeOK, Executions
<1>7. ASSUME NEW e \in Executions, Execute(e) PROVE HandlerInv'
  <2>1. claims' = claims /\ \A x \in Executions \ {e} : pc'[x] = pc[x] /\ seen'[x] = seen[x]
    BY <1>7 DEF Execute, NothingToReport, CheckLock, ReadInbox, Report, Complete, Step, row, TypeOK
  <2>2. pc[e] # "none" /\ pc'[e] # "none" /\ known' = known
    BY <1>7 DEF Execute, NothingToReport, CheckLock, ReadInbox, Report, Complete, Step, TypeOK
  <2>3. \A x \in Executions : Holds(x)' => Holds(x)
    BY <1>7 DEF Execute, NothingToReport, CheckLock, ReadInbox, Report, Complete, row, Holds
  <2>4. unread' \subseteq unread
    BY <1>7 DEF Execute, NothingToReport, CheckLock, ReadInbox, Report, Complete, row, inbox
  <2>5. /\ pc'[e] \in {"begun", "reading"} => seen'[e] = {}
        /\ pc'[e] \in {"reading", "reporting"} => known'[e] # {}
        /\ (Holds(e)' /\ pc'[e] = "reporting") => unread' = {}
    <3>1. CASE CheckLock(e)
      BY <2>3, <3>1 DEF CheckLock, Step, TypeOK, HandlerInv, Holds, row, inbox
    <3>2. CASE ReadInbox(e)
      BY <3>2 DEF ReadInbox, Step, TypeOK, HandlerInv
    <3>3. CASE NothingToReport(e) \/ Report(e)
      BY <3>3 DEF NothingToReport, Report, Step, TypeOK
    <3>4. QED
      BY <1>7, <3>1, <3>2, <3>3 DEF Execute
  <2>6. QED
    BY <2>1, <2>2, <2>3, <2>4, <2>5 DEF HandlerInv
<1>8. QED
  BY <1>1, <1>3, <1>4, <1>5, <1>6, <1>7 DEF Next

\* The report that completes the aggregator is true, and lacks nothing but what an earlier
\* execution read, or the stall sweep kept from being told.
LEMMA ReportStep == ASSUME FanOutConstants, IInv, [Next]_vars PROVE ReportInv'
<1> USE DEF IInv, Row
<1>1. \A c \in Children : child[c] \in Ended => child'[c] = child[c]
  BY DEF Next, vars, row, AddAggregator, WriteIds, AddChild, StallChild, EndChild, Claim, Requeue,
         DeadLetter, Execute, NothingToReport, CheckLock, ReadInbox, Report, Complete, Ended, TypeOK
<1>2. \A e \in Executions : seen[e] \subseteq seen'[e]
  <2>1. ASSUME NEW x \in Executions, ReadInbox(x) PROVE \A e \in Executions : seen[e] \subseteq seen'[e]
    BY <2>1 DEF ReadInbox, Step, HandlerInv, TypeOK
  <2>2. QED
    BY <2>1 DEF Next, vars, handler, AddAggregator, WriteIds, AddChild, StallChild, EndChild, Claim,
                Requeue, DeadLetter, Execute, NothingToReport, CheckLock, Report, Complete
<1>3. ASSUME report' = report PROVE ReportInv'
  <2>1. DOMAIN report \subseteq Children /\ \A c \in DOMAIN report : report[c] \in Outcomes \cup {"missing"}
    BY DEF TypeOK, Reports
  <2>2. ASSUME NEW c \in DOMAIN report, report[c] # "missing" PROVE report'[c] = child'[c]
    BY <1>1, <1>3, <2>1, <2>2 DEF ReportInv, HonestReport, Outcomes, Ended
  <2>3. ASSUME NEW c \in DOMAIN report, report[c] = "missing"
        PROVE  child'[c] = "stalled" \/ \E e \in Executions : Told(e, c)' # {}
    BY <1>1, <1>2, <1>3, <2>1, <2>3 DEF ReportInv, OnlyReadOnceLost, Told, Ended
  <2>4. QED
    BY <1>3, <2>2, <2>3 DEF ReportInv, HonestReport, OnlyReadOnceLost
<1>4. ASSUME NEW e \in Executions, NothingToReport(e) PROVE ReportInv'
  BY <1>3, <1>4 DEF NothingToReport, Complete, NoReport, ReportInv, HonestReport, OnlyReadOnceLost
<1>5. ASSUME NEW e \in Executions, Report(e), Holds(e) PROVE ReportInv'
  <2>1. /\ report' = [c \in known[e] |-> Outcome(e, c)] /\ UNCHANGED <<child, seen>>
        /\ pc[e] = "reporting"
    BY <1>5 DEF Report, Complete, Step
  <2>2. /\ known[e] \subseteq Children /\ unread = {} /\ status = "active"
        /\ \A c \in Children : child[c] \in Ended
    BY <1>5, <2>1 DEF HandlerInv, IdsInv, AsleepInv, Runnable, Added, TypeOK, Holds, Ended
  <2>3. ASSUME NEW c \in known[e], Told(e, c) # {} PROVE Outcome(e, c) = child[c]
    <3>1. (CHOOSE m \in Told(e, c) : TRUE) \in Told(e, c)
      BY <2>3
    <3>2. \A m \in Told(e, c) : m.child = c /\ child[m.child] = m.outcome
      BY DEF Told, MailInv
    <3>3. QED
      BY <2>3, <3>1, <3>2 DEF Outcome
  <2>4. ASSUME NEW c \in known[e], Told(e, c) = {}
        PROVE  child[c] = "stalled" \/ \E x \in Executions : Told(x, c) # {}
    BY <2>2 DEF MailInv, Told, Ended, Outcomes, Terminal
  <2>5. \A c \in known[e] : Outcome(e, c) = "missing" => Told(e, c) = {}
    BY <2>2, <2>3 DEF Ended
  <2>6. \A c \in known[e] : Told(e, c) = {} => Outcome(e, c) = "missing"
    BY DEF Outcome
  <2>7. QED
    BY <2>1, <2>3, <2>4, <2>5, <2>6 DEF ReportInv, HonestReport, OnlyReadOnceLost, Told
<1>6. QED
  BY <1>3, <1>4, <1>5 DEF Next, vars, AddAggregator, WriteIds, AddChild, StallChild, EndChild, Claim,
     Requeue, DeadLetter, Execute, CheckLock, ReadInbox, Report, Complete

-----------------------------------------------------------------------------
\* The invariant that the theorems share.
LEMMA StepInv == ASSUME FanOutConstants, IInv, [Next]_vars PROVE IInv'
BY RowStep, AsleepStep, IdsStep, MailStep, HandlerStep, ReportStep DEF IInv

\* A fan-out keeps its types: above all, no execution is one too many.
THEOREM TypeCorrect == ASSUME FanOutConstants PROVE Spec => []TypeOK
<1>1. Init => IInv
  BY InitInv
<1>2. IInv /\ [Next]_vars => IInv'
  BY StepInv
<1>3. IInv => TypeOK
  BY DEF IInv, Row
<1>4. QED
  BY <1>1, <1>2, <1>3, PTL DEF Spec

\* An aggregator that knows its children runs when all of them have ended, whatever the
\* order of submission, claims and requeues.
THEOREM RunsLast == ASSUME FanOutConstants PROVE Spec => []AggregatesLast
<1>1. Init => IInv
  BY InitInv
<1>2. IInv /\ [Next]_vars => IInv'
  BY StepInv
<1>3. ASSUME IInv PROVE AggregatesLast
  <2>1. status = "active" => token \in Executions
    BY <1>3, ClaimLeft DEF IInv, Row, TypeOK, ClaimsInv, Executions
  <2>2. status = "active" => \A c \in Children : child[c] # "open"
    BY <1>3 DEF IInv, AsleepInv, Runnable
  <2>3. (status = "active" /\ known[token] # {}) => \A c \in Children : child[c] # "none"
    BY <1>3, <2>1 DEF IInv, IdsInv, Added
  <2>4. QED
    BY <1>3, <2>2, <2>3 DEF IInv, Row, TypeOK, AggregatesLast, Ended
<1>4. QED
  BY <1>1, <1>2, <1>3, PTL DEF Spec

\* What is reported of a child is how it ended.
THEOREM ReportsTruly == ASSUME FanOutConstants PROVE Spec => []HonestReport
<1>1. Init => IInv
  BY InitInv
<1>2. IInv /\ [Next]_vars => IInv'
  BY StepInv
<1>3. IInv => HonestReport
  BY DEF IInv, ReportInv
<1>4. QED
  BY <1>1, <1>2, <1>3, PTL DEF Spec

\* Two causes, and no other, make a child missing from the report.
THEOREM LosesNothingElse == ASSUME FanOutConstants PROVE Spec => []OnlyReadOnceLost
<1>1. Init => IInv
  BY InitInv
<1>2. IInv /\ [Next]_vars => IInv'
  BY StepInv
<1>3. IInv => OnlyReadOnceLost
  BY DEF IInv, ReportInv
<1>4. QED
  BY <1>1, <1>2, <1>3, PTL DEF Spec
=============================================================================
