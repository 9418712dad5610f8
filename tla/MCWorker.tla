------------------------------- MODULE MCWorker -------------------------------
(***************************************************************************)
(* Small instances of what a worker does: its slots and its shutdown       *)
(* (MinionWorker), the renewal of one lock, and one row against the clock  *)
(* (JobTiming).  They share no variable: a behaviour is one of a single    *)
(* part, chosen at its start, while the others rest in a state without     *)
(* steps.                                                                  *)
(***************************************************************************)
EXTENDS MinionWorker, JobTiming

CONSTANTS w1, w2

ASSUME InstancesAllowed == Renewal!KnobsAssumption /\ Clock!ClockAssumption

\* The worker has stopped; the execution is over and its clock stands; the row has
\* completed.
SlotsRest ==
  /\ active = {} /\ token = [j \in Jobs |-> 0]
  /\ loop = "stopped" /\ claims = MaxClaims
  /\ running = FALSE /\ gracefulShutdownFired = FALSE /\ spared = 0
  /\ inFlight = [j \in Jobs |-> 0] /\ drain = {}
  /\ job = [e \in Executions |-> CHOOSE j \in Jobs : TRUE]
  /\ pc = [e \in Executions |-> "none"]
  /\ reason = [e \in Executions |-> "none"] /\ graceFired = {}

RenewalRests ==
  /\ now = MaxTime /\ expiry = MaxTime /\ last = 0 /\ due = 0 /\ since = 0
  /\ owned = FALSE /\ stray = FALSE /\ failed = FALSE
  /\ phase = "over" /\ call = "idle" /\ reply = "pending"

ClockRests ==
  /\ status = "completed" /\ error = "none"
  /\ owner = NoClaimer /\ lockLeft = 0 /\ timeoutLeft = 0 /\ delayLeft = 0
  /\ started = TRUE /\ age = 0 /\ sinceClaim = 0
  /\ attemptsMade = 0 /\ stalledCounter = 0
  /\ does = [w \in Claimers |-> "idle"]
  /\ policy = "defer" /\ quiet = FALSE
  /\ sweep = "stalled" /\ sinceSweep = 0
  /\ child = "ended" /\ overridden = FALSE /\ revivals = 0

slotVars == vars

WorkerInit ==
  \/ Init /\ RenewalRests /\ ClockRests
  \/ SlotsRest /\ Renewal!Init /\ ClockRests
  \/ SlotsRest /\ RenewalRests /\ Clock!Init

WorkerNext ==
  \/ Next /\ UNCHANGED <<renewalVars, clockVars>>
  \/ Renewal!Next /\ UNCHANGED <<slotVars, clockVars>>
  \/ Clock!Next /\ UNCHANGED <<slotVars, renewalVars>>

WorkerSpec ==
  /\ WorkerInit /\ [][WorkerNext]_<<slotVars, renewalVars, clockVars>>
  /\ Fairness /\ Clock!Fairness

=============================================================================
