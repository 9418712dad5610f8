------------------------------ MODULE MCServices ------------------------------
(***************************************************************************)
(* Small instances of the parts that meet the job queue only through the   *)
(* database: one fan-out, the locks, the leases and the conversation of an *)
(* agent job, and the supervisors of a queue with one supervisor's worker  *)
(* loop: the modules extended here, which state the properties too.  They  *)
(* share no variable, so a behaviour is one of a single part, chosen at    *)
(* its start, while every other part is at rest: in a state in which it    *)
(* has no step.                                                            *)
(***************************************************************************)
EXTENDS FanOut, Locks, Supervision, Agents

CONSTANTS c1, c2

\* The constants.  "a", "b" and "d" share a host, and "c" has the other one; "c" has the
\* pid of "a" there, and "d" is given it on their host when "a" is dead.
MCContenders == {"a", "b", "c", "d"}
MCHostOf == [p \in MCContenders |-> IF p = "c" THEN "h2" ELSE "h1"]
MCPidOf == [p \in MCContenders |-> IF p = "b" THEN 2 ELSE 1]
MCOpeners == {"a", "b", "c"}

\* "a" and "d" differ in nothing but the name: "a" is the first of them.
FirstBorn == lockPhase'["d"] # "unborn" => lockPhase'["a"] # "unborn"

\* A final answer, one tool, and a turn of two of which one is unknown.
MCAnswers == {<<>>, <<"idempotent">>, <<"unsafe">>, <<"unsafe", "unlisted">>}

ASSUME InstancesAllowed ==
  /\ Lock!LockConstants /\ Directory!PgliteConstants
  /\ Leases!LeaseConstants /\ Loop!LoopConstants /\ FanOutConstants
  /\ Sup!SupervisorConstants /\ Spawns!SpawnConstants

-----------------------------------------------------------------------------
\* Nobody is left; or the advisory lock is never given back.
LockRests ==
  /\ lockRow = NoRow
  /\ lockPhase = [p \in Contenders |-> "dead"]
  /\ lockSeen = [p \in Contenders |-> Nobody]
  /\ leaving = {} /\ loose = {}

DirectoryRests ==
  /\ dir = Nobody /\ file = Nobody /\ open = [p \in Openers |-> FALSE]
  /\ filePhase = [p \in Openers |-> "dead"]
  /\ fileSeen = [p \in Openers |-> Nobody] /\ misread = FALSE

LeasesRest ==
  /\ lease = [i \in Leases!Id |-> NoLease]
  /\ phase = [c \in Callers |-> "begun"]
  /\ mine = [c \in Callers |-> 0] /\ active = [c \in Callers |-> 0]
  /\ age = [c \in Callers |-> 0]
  /\ waited = [c \in Callers |-> 1] /\ lock = c1 /\ crashes = 2

LoopRests ==
  /\ transcript = <<>> /\ ledger = <<>> /\ outcome = "completed" /\ runs = 3
  /\ run = [r \in Loop!Run |-> Loop!Idle]
  /\ effected = {} /\ repeated = {} /\ crossed = FALSE

FanRests ==
  /\ status = "dead" /\ token = 0 /\ claims = 0 /\ requeues = 0
  /\ child = [c \in Children |-> "dead"] /\ ids = Children
  /\ unread = {} /\ read = {}
  /\ pc = [e \in Executions |-> "none"]
  /\ known = [e \in Executions |-> {}] /\ seen = [e \in Executions |-> {}]
  /\ report = NoReport

SupRests ==
  /\ holder = NoSupervisor /\ idle = 0
  /\ supPhase = [s \in Supervisors |-> "gone"]
  /\ worker = [s \in Supervisors |-> "none"]
  /\ failures = [s \in Supervisors |-> 0]
  /\ due = [s \in Supervisors |-> FALSE] /\ exiting = [s \in Supervisors |-> "none"]
  /\ stalled = [s \in Supervisors |-> FALSE]

SpawnsRest ==
  /\ spawned = 0 /\ fate = [k \in Spawns!Worker |-> "unborn"] /\ crashCount = 0
  /\ tini = FALSE /\ orphans = {}
  /\ intentional = FALSE /\ stopping = TRUE /\ over = TRUE
  /\ childAge = "young" /\ check = "idle" /\ captured = 0
  /\ wedged = 0 /\ restarts = 0 /\ restarted = {} /\ own = FALSE /\ judged = 0

fanVars == vars

ServicesInit ==
  \/ /\ Lock!Init /\ DirectoryRests /\ LeasesRest /\ LoopRests /\ FanRests
     /\ SupRests /\ SpawnsRest
  \/ /\ LockRests /\ Directory!Init /\ LeasesRest /\ LoopRests /\ FanRests
     /\ SupRests /\ SpawnsRest
  \/ /\ LockRests /\ DirectoryRests /\ Leases!Init /\ LoopRests /\ FanRests
     /\ SupRests /\ SpawnsRest
  \/ /\ LockRests /\ DirectoryRests /\ LeasesRest /\ Loop!Init /\ FanRests
     /\ SupRests /\ SpawnsRest
  \/ /\ LockRests /\ DirectoryRests /\ LeasesRest /\ LoopRests /\ Init
     /\ SupRests /\ SpawnsRest
  \/ /\ LockRests /\ DirectoryRests /\ LeasesRest /\ LoopRests /\ FanRests
     /\ Sup!Init /\ SpawnsRest
  \/ /\ LockRests /\ DirectoryRests /\ LeasesRest /\ LoopRests /\ FanRests
     /\ SupRests /\ Spawns!Init

ServicesNext ==
  \/ /\ Lock!Next /\ FirstBorn
     /\ UNCHANGED <<fileVars, leaseVars, loopVars, fanVars, supVars, childVars>>
  \/ Directory!Next /\ UNCHANGED <<lockVars, leaseVars, loopVars, fanVars, supVars, childVars>>
  \/ Leases!Next /\ UNCHANGED <<lockVars, fileVars, loopVars, fanVars, supVars, childVars>>
  \/ Loop!Next /\ UNCHANGED <<lockVars, fileVars, leaseVars, fanVars, supVars, childVars>>
  \/ Next /\ UNCHANGED <<lockVars, fileVars, leaseVars, loopVars, supVars, childVars>>
  \/ Sup!Next /\ UNCHANGED <<lockVars, fileVars, leaseVars, loopVars, fanVars, childVars>>
  \/ Spawns!Next /\ UNCHANGED <<lockVars, fileVars, leaseVars, loopVars, fanVars, supVars>>

servicesVars ==
  <<lockVars, fileVars, leaseVars, loopVars, fanVars, supVars, childVars>>

ServicesSpec ==
  /\ ServicesInit /\ [][ServicesNext]_servicesVars
  /\ Lock!Fairness /\ Leases!Fairness /\ Fairness /\ Spawns!Fairness

=============================================================================
