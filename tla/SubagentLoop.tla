---------------------------- MODULE SubagentLoop ----------------------------
(***************************************************************************)
(* One subagent job: the conversation it persists, the ledger of its tool  *)
(* calls, and the executions that carry it on (handlers/subagent.ts, the   *)
(* Anthropic path). An execution rebuilds its conversation from the two    *)
(* tables, finishes the tools of an assistant turn that was left without   *)
(* its results, and then alternates model calls and tools.  Each statement *)
(* commits by itself, so an execution that stops leaves any prefix of its  *)
(* writes to the next one.                                                 *)
(*                                                                         *)
(* Executions are claims of the job, in order.  One may begin while        *)
(* another is still under way when the job's lock has run out (see         *)
(* LockRenewal); nothing in the loop tells the earlier one.  What the      *)
(* properties say they say of a job whose executions have not overlapped;  *)
(* history variables keep what they need.                                  *)
(***************************************************************************)
EXTENDS Naturals, Sequences, FiniteSets, SequencesExt

CONSTANTS
  MaxTurns,     \* data.max_turns
  MaxRuns,      \* bound on the executions of the job
  MaxLive,      \* bound on the executions under way at once
  Answers       \* the tool calls an answer of the model may make, as sequences of kinds

\* "unlisted" is a name the registry does not have.
Kind == {"idempotent", "unsafe", "unlisted"}

LoopConstants == {MaxTurns, MaxRuns, MaxLive} \subseteq Nat /\ Answers \subseteq Seq(Kind)

VARIABLES
  transcript,   \* subagent_messages by message_idx
  ledger,       \* subagent_tool_executions: status by tool_use_id
  outcome,      \* the job: "open", "completed" or "dead"
  claims,       \* executions begun
  run,          \* their state
  effected,     \* history: the tool calls that took effect
  repeated,     \* history: those that did so again
  crossed       \* history: an execution began while another was under way

vars == <<transcript, ledger, outcome, claims, run, effected, repeated, crossed>>

\* The model names each tool call anew: by the execution that asked, its turn's place
\* and the place in the answer.
CallId == (1..MaxRuns) \X Nat \X Nat

Prompt == [role |-> "prompt"]
Assistant(r, uses) == [role |-> "assistant", by |-> r, uses |-> uses]
Results(m, outs) == [role |-> "results", by |-> m.by, outs |-> outs]

Run == 1..MaxRuns
Idle == [phase |-> "none", conv |-> <<>>, prior |-> <<>>, outs |-> <<>>]

\* "loading" between the two reads, "turn" before a model call, "tools" between tool
\* calls, "acting" and "acted" inside one, "done" when the handler has returned.
Phase == {"none", "loading", "loaded", "turn", "tools", "acting", "acted", "done", "gone"}
Live(r) == run[r].phase \notin {"none", "gone"}

TypeOK ==
  /\ \A i \in DOMAIN transcript : transcript[i].role \in {"prompt", "assistant", "results"}
  /\ DOMAIN ledger \subseteq CallId
  /\ \A u \in DOMAIN ledger : ledger[u] \in {"pending", "complete", "failed"}
  /\ outcome \in {"open", "completed", "dead"}
  /\ claims \in 0..MaxRuns
  /\ \A r \in Run : run[r].phase \in Phase /\ Len(run[r].conv) <= 2 * MaxTurns + 1
  /\ repeated \subseteq effected /\ effected \subseteq CallId
  /\ crossed \in BOOLEAN

Init ==
  /\ transcript = <<>> /\ ledger = <<>>
  /\ outcome = "open" /\ claims = 0
  /\ run = [r \in Run |-> Idle]
  /\ effected = {} /\ repeated = {} /\ crossed = FALSE

-----------------------------------------------------------------------------
\* The turn that the execution is at.
Turn(r) == Last(run[r].conv)
Ended(msgs) == msgs # <<>> /\ Last(msgs).role = "assistant" /\ Last(msgs).uses = <<>>
Turns(msgs) == Len(SelectSeq(msgs, LAMBDA m : m.role = "assistant"))

\* The tool call it is at.
Call(r) == <<Turn(r).by, Len(run[r].conv), Len(run[r].outs) + 1>>
KindOf(r) == Turn(r).uses[Len(run[r].outs) + 1]
CallsLeft(r) == Len(run[r].outs) < Len(Turn(r).uses)

\* What the ledger said when the execution loaded it.
PriorAnyRow(r) ==  \* mutant: a row counts whatever its status
  IF Call(r) \in DOMAIN run[r].prior THEN "complete" ELSE "none"
Prior(r) == IF Call(r) \in DOMAIN run[r].prior THEN run[r].prior[Call(r)] ELSE "none"

\* INSERT ... ON CONFLICT (job_id, message_idx) DO NOTHING at nextMessageIdx.
Persist(r, m) ==
  transcript' = IF Len(run[r].conv) < Len(transcript) THEN transcript
                                                      ELSE Append(transcript, m)

Goes(r, ph) == run' = [run EXCEPT ![r].phase = ph]
Records(u, st) == ledger' = [v \in DOMAIN ledger \union {u} |-> IF v = u THEN st ELSE ledger[v]]
AddsResult(r, out) ==
  run' = [run EXCEPT ![r].phase = "tools", ![r].outs = Append(@, out)]

-----------------------------------------------------------------------------
\* The worker claims the job: it was waiting, or its lock has run out.
Claim(r) ==
  /\ outcome = "open" /\ r = claims + 1 /\ claims' = r
  /\ Cardinality({q \in Run : Live(q)}) < MaxLive
  /\ crossed' = (crossed \/ \E q \in Run : Live(q))
  /\ Goes(r, "loading")
  /\ UNCHANGED <<transcript, ledger, outcome, effected, repeated>>

LoadMessages(r) ==
  /\ run[r].phase = "loading"
  /\ run' = [run EXCEPT ![r].phase = "loaded", ![r].conv = transcript]
  /\ UNCHANGED <<transcript, ledger, outcome, claims, effected, repeated, crossed>>

\* Where the conversation is resumed.
NextPhaseAtTurn(msgs) == "turn"  \* mutant: a model call at once
NextPhase(msgs) ==
  IF Ended(msgs) THEN "done" ELSE IF Last(msgs).role = "assistant" THEN "tools" ELSE "turn"

LoadTools(r) ==
  /\ run[r].phase = "loaded"
  /\ IF run[r].conv = <<>>
       THEN /\ Persist(r, Prompt)
            /\ run' = [run EXCEPT ![r].phase = "turn", ![r].prior = ledger, ![r].conv = <<Prompt>>]
       ELSE /\ UNCHANGED transcript
            /\ run' = [run EXCEPT ![r].phase = NextPhase(run[r].conv), ![r].prior = ledger]
  /\ UNCHANGED <<ledger, outcome, claims, effected, repeated, crossed>>

MaxTurnsReached(r) ==
  /\ run[r].phase = "turn" /\ Turns(run[r].conv) >= MaxTurns
  /\ Goes(r, "done")
  /\ UNCHANGED <<transcript, ledger, outcome, claims, effected, repeated, crossed>>

\* The model answers; the answer is persisted before any of its tools runs.
Answer(r, uses) ==
  /\ run[r].phase = "turn" /\ Turns(run[r].conv) < MaxTurns
  /\ Persist(r, Assistant(r, uses))
  /\ LET conv == Append(run[r].conv, Assistant(r, uses))
     IN run' = [run EXCEPT ![r].phase = IF uses = <<>> THEN "done" ELSE "tools", ![r].conv = conv]
  /\ UNCHANGED <<ledger, outcome, claims, effected, repeated, crossed>>

\* A settled call is not made again.
Replay(r) ==
  /\ run[r].phase = "tools" /\ CallsLeft(r) /\ Prior(r) \in {"complete", "failed"}
  /\ AddsResult(r, IF Prior(r) = "complete" THEN "ok" ELSE "error")
  /\ UNCHANGED <<transcript, ledger, outcome, claims, effected, repeated, crossed>>

RefuseUnlisted(r) ==
  /\ run[r].phase = "tools" /\ CallsLeft(r) /\ Prior(r) \in {"none", "pending"}
  /\ KindOf(r) = "unlisted"
  /\ Records(Call(r), "failed") /\ AddsResult(r, "error")
  /\ UNCHANGED <<transcript, outcome, claims, effected, repeated, crossed>>

\* A pending call that must not be made twice is never dispatched.
MayDispatchAny(r) == KindOf(r) # "unlisted"  \* mutant: idempotence not asked
MayDispatch(r) ==
  \/ KindOf(r) = "idempotent"
  \/ KindOf(r) = "unsafe" /\ Prior(r) = "none"

\* persistToolExecPending: ON CONFLICT (job_id, tool_use_id) DO NOTHING.
Dispatch(r) ==
  /\ run[r].phase = "tools" /\ CallsLeft(r) /\ Prior(r) \in {"none", "pending"} /\ MayDispatch(r)
  /\ IF Call(r) \in DOMAIN ledger THEN UNCHANGED ledger ELSE Records(Call(r), "pending")
  /\ Goes(r, "acting")
  /\ UNCHANGED <<transcript, outcome, claims, effected, repeated, crossed>>

Act(r) ==
  /\ run[r].phase = "acting" /\ Goes(r, "acted")
  /\ repeated' = repeated \union ({Call(r)} \intersect effected)
  /\ effected' = effected \union {Call(r)}
  /\ UNCHANGED <<transcript, ledger, outcome, claims, crossed>>

\* persistToolExecComplete updates the row if there is one.
Settle(r) ==
  /\ run[r].phase = "acted"
  /\ Records(Call(r), "complete") /\ AddsResult(r, "ok")
  /\ UNCHANGED <<transcript, outcome, claims, effected, repeated, crossed>>

\* The tool throws before it takes effect, or after, or the update that settles it does:
\* the catch records a failure in each case.
SettleFailed(r) ==
  /\ run[r].phase \in {"acting", "acted"}
  /\ Records(Call(r), "failed") /\ AddsResult(r, "error")
  /\ UNCHANGED <<transcript, outcome, claims, effected, repeated, crossed>>

\* The results of all the calls of a turn are one message.
ReturnResults(r) ==
  /\ run[r].phase = "tools" /\ ~CallsLeft(r)
  /\ LET m == Results(Turn(r), run[r].outs)
     IN /\ Persist(r, m)
        /\ run' = [run EXCEPT ![r].phase = "turn", ![r].conv = Append(@, m), ![r].outs = <<>>]
  /\ UNCHANGED <<ledger, outcome, claims, effected, repeated, crossed>>

\* completeJob, which matches the token of the latest claim only.
Complete(r) ==
  /\ run[r].phase = "done"
  /\ outcome' = IF r = claims /\ outcome = "open" THEN "completed" ELSE outcome
  /\ run' = [run EXCEPT ![r] = [Idle EXCEPT !.phase = "gone"]]
  /\ UNCHANGED <<transcript, ledger, claims, effected, repeated, crossed>>

\* The process dies between two statements, wherever it is.
Crash(r) ==
  /\ Live(r)
  /\ run' = [run EXCEPT ![r] = [Idle EXCEPT !.phase = "gone"]]
  /\ UNCHANGED <<transcript, ledger, outcome, claims, effected, repeated, crossed>>

\* The handler throws: no lease, an error of the provider or the database, an abort, or
\* an unsafe call that is pending.  failJob makes the job wait again or dead.
Throw(r) ==
  /\ Live(r)
  /\ outcome' \in IF r = claims /\ outcome = "open" THEN {"open", "dead"} ELSE {outcome}
  /\ run' = [run EXCEPT ![r] = [Idle EXCEPT !.phase = "gone"]]
  /\ UNCHANGED <<transcript, ledger, claims, effected, repeated, crossed>>

Next ==
  \E r \in Run :
    \/ Claim(r) \/ LoadMessages(r) \/ LoadTools(r)
    \/ MaxTurnsReached(r) \/ \E uses \in Answers : Answer(r, uses)
    \/ Replay(r) \/ RefuseUnlisted(r) \/ Dispatch(r) \/ Act(r) \/ Settle(r) \/ SettleFailed(r)
    \/ ReturnResults(r) \/ Complete(r) \/ Crash(r) \/ Throw(r)

Spec == Init /\ [][Next]_vars

-----------------------------------------------------------------------------
\* Properties of a job whose executions have not overlapped.

KindAt(u) == transcript[u[2]].uses[u[3]]

\* A tool that is not idempotent takes effect at most once, however often the job is
\* killed and resumed between the statements of the two-phase ledger.
UnsafeOnce == crossed \/ \A u \in repeated : KindAt(u) # "unsafe"

\* The conversation the provider is sent again is one it accepts: roles alternate, each
\* turn with tool calls is followed by the results of those very calls, and a result says
\* what the ledger says; "ok" only of a call that took effect.
Answered(i) ==
  LET res == transcript[i] turn == transcript[i - 1]
  IN /\ turn.role = "assistant" /\ res.by = turn.by /\ Len(res.outs) = Len(turn.uses)
     /\ \A n \in DOMAIN res.outs :
          LET u == <<turn.by, i - 1, n>>
          IN /\ u \in DOMAIN ledger
             /\ ledger[u] = IF res.outs[n] = "ok" THEN "complete" ELSE "failed"
             /\ res.outs[n] = "ok" => u \in effected
TranscriptSound ==
  crossed \/ \A i \in DOMAIN transcript :
               /\ transcript[i].role = "prompt" <=> i = 1
               /\ transcript[i].role = "results" => Answered(i)
               /\ (transcript[i].role = "assistant" /\ i > 1) => transcript[i - 1].role # "assistant"

\* Once the final answer is persisted the job only has to be completed: no execution asks
\* the model again or runs another tool.
FinalAnswerStands ==
  [][(~crossed' /\ Ended(transcript)) =>
        UNCHANGED <<transcript, ledger, effected, repeated>>]_vars
=============================================================================
