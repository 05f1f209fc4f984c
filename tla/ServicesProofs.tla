--------------------------- MODULE ServicesProofs -----------------------------
(***************************************************************************)
(* Theorems of the components that share no state, for any callers,         *)
(* requests, groups, apps, visits, limits, carts, stocks and errands.       *)
(***************************************************************************)
EXTENDS Services, SumTheorems, TLAPS

-----------------------------------------------------------------------------
(* CircuitBreaker                                                           *)

(* There are never more calls pending than callers.                        *)
LEMMA PendingBound ==
  /\ IsFiniteSet(Pending) /\ Cardinality(Pending) \in Nat /\ Cardinality(Callers) \in Nat
  /\ Cardinality(Pending) <= Cardinality(Callers)
<1>1. Pending \subseteq Callers
  BY DEF Pending
<1> QED
  BY <1>1, BreakerAssumption, FS_Subset, FS_CardinalityType DEF BreakerAssumption

(* Closed, and nobody calls.                                                *)
LEMMA BreakerInitially == BreakerInit => BreakerInv
<1> SUFFICES ASSUME BreakerInit PROVE BreakerInv
  OBVIOUS
<1> USE BreakerAssumption DEF BreakerAssumption
<1>1. Pending = {}
  BY DEF BreakerInit, Pending
<1>2. Cardinality(Pending) = 0 /\ Cardinality(Callers) \in Nat
  BY <1>1, FS_EmptySet, FS_CardinalityType
<1>3. BreakerTypeOK /\ failureCount = 0
  BY DEF BreakerInit, BreakerTypeOK
<1>4. OpenAtThreshold
  <2>1. ~(failureCount >= Threshold)
    BY <1>3
  <2> QED
    BY <2>1 DEF BreakerInit, OpenAtThreshold
<1>5. \A c \in Callers : (pc[c] = "probe") <=> (mu = c)
  BY DEF BreakerInit
<1>6. failureCount + Cardinality(Pending) < Threshold + Cardinality(Callers)
  BY <1>2, <1>3
<1> QED
  BY <1>3, <1>4, <1>5, <1>6 DEF BreakerInv

(* Every step is of the types.                                              *)
LEMMA BreakerTypeStep ==
  ASSUME BreakerInv, [BreakerNext]_breakerVars
  PROVE  BreakerTypeOK'
<1> USE BreakerAssumption DEF BreakerAssumption
<1>1. BreakerTypeOK
  BY DEF BreakerInv
<1>2. ASSUME NEW c \in Callers, Execute(c)
      PROVE  BreakerTypeOK'
  <2>1. CASE Refuse(c) \/ Pass(c) \/ Decide(c) \/ CallReturns(c)
    BY <1>1, <2>1 DEF BreakerTypeOK, Refuse, Pass, Decide, CallReturns, Goto, breakerVars
  <2>2. CASE Probe(c) \/ ProbeFails(c)
    BY <1>1, <2>2 DEF BreakerTypeOK, Probe, ProbeFails, Goto
  <2>3. CASE ProbeSucceeds(c) \/ Reset(c)
    <3>1. isOpen' = FALSE /\ failureCount' = 0
          /\ UNCHANGED <<recent, serving>> /\ mu' \in {mu, Free}
          /\ pc' = [pc EXCEPT ![c] = "idle"]
      BY <2>3 DEF ProbeSucceeds, Reset, Goto
    <3> QED
      BY <1>1, <3>1 DEF BreakerTypeOK
  <2>4. CASE RecordFailure(c)
    <3>1. isOpen' \in BOOLEAN
      BY <2>4 DEF RecordFailure
    <3> QED
      BY <1>1, <2>4, <3>1 DEF BreakerTypeOK, RecordFailure, Goto
  <2> QED
    BY <1>2, <2>1, <2>2, <2>3, <2>4 DEF Execute
<1>3. CASE Elapse \/ Switch \/ UNCHANGED breakerVars
  BY <1>1, <1>3 DEF BreakerTypeOK, Elapse, Switch, breakerVars
<1> QED
  BY <1>2, <1>3 DEF BreakerNext

(* Flag and counter change together, in recordFailure and in a reset.      *)
LEMMA FlagStep ==
  ASSUME BreakerInv, [BreakerNext]_breakerVars
  PROVE  OpenAtThreshold'
<1> USE BreakerAssumption DEF BreakerAssumption
<1>1. failureCount \in Nat /\ isOpen \in BOOLEAN /\ (isOpen <=> failureCount >= Threshold)
  BY DEF BreakerInv, BreakerTypeOK, OpenAtThreshold
<1>2. ASSUME NEW c \in Callers, ProbeSucceeds(c) \/ Reset(c)
      PROVE  OpenAtThreshold'
  <2>1. isOpen' = FALSE /\ failureCount' = 0
    BY <1>2 DEF ProbeSucceeds, Reset
  <2>2. ~(failureCount' >= Threshold)
    BY <2>1
  <2> QED
    BY <2>1, <2>2 DEF OpenAtThreshold
<1>3. ASSUME NEW c \in Callers, RecordFailure(c)
      PROVE  OpenAtThreshold'
  <2>1. failureCount' = failureCount + 1 /\ isOpen' = (isOpen \/ failureCount' >= Threshold)
    BY <1>3 DEF RecordFailure
  <2>2. failureCount >= Threshold => failureCount' >= Threshold
    BY <1>1, <2>1
  <2> QED
    BY <1>1, <2>1, <2>2, Zenon DEF OpenAtThreshold
<1>4. CASE UNCHANGED <<isOpen, failureCount>>
  BY <1>1, <1>4 DEF OpenAtThreshold
<1> QED
  BY <1>2, <1>3, <1>4
     DEF BreakerNext, Execute, Refuse, Pass, Decide, Probe, ProbeFails, CallReturns, Elapse, Switch, breakerVars

(* Whoever probes holds the lock, and nobody else.                          *)
LEMMA LockStep ==
  ASSUME BreakerInv, [BreakerNext]_breakerVars
  PROVE  \A c \in Callers : (pc'[c] = "probe") <=> (mu' = c)
<1> USE BreakerAssumption DEF BreakerAssumption
<1>1. /\ pc \in [Callers -> {"idle", "call", "lock", "probe", "record", "reset"}]
      /\ \A c \in Callers : (pc[c] = "probe") <=> (mu = c)
  BY DEF BreakerInv, BreakerTypeOK
<1>2. ASSUME NEW c \in Callers,
             \/ Pass(c) \/ Decide(c) \/ CallReturns(c) \/ RecordFailure(c) \/ Reset(c)
      PROVE  \A d \in Callers : (pc'[d] = "probe") <=> (mu' = d)
  <2>1. mu' = mu /\ pc[c] # "probe"
        /\ \E l \in {"call", "lock", "reset", "record", "idle"} : pc' = [pc EXCEPT ![c] = l]
    BY <1>2 DEF Pass, Decide, CallReturns, RecordFailure, Reset, Goto
  <2> QED
    BY <1>1, <2>1
<1>3. ASSUME NEW c \in Callers, Probe(c)
      PROVE  \A d \in Callers : (pc'[d] = "probe") <=> (mu' = d)
  <2>1. mu = Free /\ mu' = c /\ pc' = [pc EXCEPT ![c] = "probe"]
    BY <1>3 DEF Probe, Goto
  <2> QED
    BY <1>1, <2>1
<1>4. ASSUME NEW c \in Callers, ProbeSucceeds(c) \/ ProbeFails(c)
      PROVE  \A d \in Callers : (pc'[d] = "probe") <=> (mu' = d)
  <2>1. pc[c] = "probe" /\ mu' = Free /\ pc' = [pc EXCEPT ![c] = "idle"]
    BY <1>4 DEF ProbeSucceeds, ProbeFails, Goto
  <2> QED
    BY <1>1, <2>1
<1>5. CASE UNCHANGED <<pc, mu>>
  BY <1>1, <1>5
<1> QED
  BY <1>2, <1>3, <1>4, <1>5 DEF BreakerNext, Execute, Refuse, Elapse, Switch, breakerVars

(* A call joins the pending ones only while the breaker is closed, and     *)
(* leaves them when its failure is counted.                                *)
LEMMA CountStep ==
  ASSUME BreakerInv, [BreakerNext]_breakerVars
  PROVE  (failureCount + Cardinality(Pending))' < Threshold + Cardinality(Callers)
<1> USE BreakerAssumption DEF BreakerAssumption
<1>1. /\ failureCount \in Nat /\ Cardinality(Callers) \in Nat /\ Cardinality(Pending) \in Nat
      /\ IsFiniteSet(Pending) /\ failureCount + Cardinality(Pending) < Threshold + Cardinality(Callers)
      /\ isOpen <=> failureCount >= Threshold
      /\ pc \in [Callers -> {"idle", "call", "lock", "probe", "record", "reset"}]
  BY PendingBound DEF BreakerInv, BreakerTypeOK, OpenAtThreshold
<1>2. Pending' \subseteq Callers
  BY DEF Pending
<1>3. IsFiniteSet(Pending') /\ Cardinality(Pending') \in Nat /\ Cardinality(Pending') <= Cardinality(Callers)
  BY <1>2, FS_Subset, FS_CardinalityType
<1>4. CASE failureCount' < Threshold
  BY <1>1, <1>3, <1>4, BreakerTypeStep DEF BreakerTypeOK
<1>5. CASE Pending' \subseteq Pending /\ failureCount' = failureCount
  <2>1. Cardinality(Pending') <= Cardinality(Pending)
    BY <1>1, <1>5, FS_Subset
  <2> QED
    BY <1>1, <1>3, <1>5, <2>1
<1>6. ASSUME NEW c \in Callers, RecordFailure(c)
      PROVE  failureCount' + Cardinality(Pending') < Threshold + Cardinality(Callers)
  <2>1. c \in Pending /\ Pending' = Pending \ {c} /\ failureCount' = failureCount + 1
    BY <1>1, <1>6 DEF RecordFailure, Pending, Goto
  <2>2. Cardinality(Pending') = Cardinality(Pending) - 1
    BY <1>1, <2>1, FS_RemoveElement
  <2> QED
    BY <1>1, <1>3, <2>1, <2>2
<1>7. ASSUME NEW c \in Callers, Pass(c)
      PROVE  failureCount' < Threshold
  BY <1>1, <1>7 DEF Pass
<1>8. ASSUME NEW c \in Callers, Refuse(c) \/ Decide(c) \/ Probe(c) \/ ProbeFails(c) \/ CallReturns(c)
      PROVE  Pending' \subseteq Pending /\ failureCount' = failureCount
  BY <1>1, <1>8 DEF Refuse, Decide, Probe, ProbeFails, CallReturns, Goto, Pending, breakerVars
<1>9. ASSUME NEW c \in Callers, ProbeSucceeds(c) \/ Reset(c)
      PROVE  failureCount' < Threshold
  BY <1>9 DEF ProbeSucceeds, Reset
<1>10. CASE Elapse \/ Switch \/ UNCHANGED breakerVars
  BY <1>5, <1>10 DEF Elapse, Switch, breakerVars, Pending
<1> QED
  BY <1>4, <1>5, <1>6, <1>7, <1>8, <1>9, <1>10 DEF BreakerNext, Execute

(* The invariant holds in every behaviour.                                  *)
LEMMA BreakerInvariant == BreakerSpec => []BreakerInv
<1>1. BreakerInv /\ [BreakerNext]_breakerVars => BreakerInv'
  BY BreakerTypeStep, FlagStep, LockStep, CountStep DEF BreakerInv
<1> QED
  BY <1>1, BreakerInitially, PTL DEF BreakerSpec

(* The flag and the counter agree whatever calls are recorded late.        *)
THEOREM FlagMatchesCount == BreakerSpec => []OpenAtThreshold
<1>1. BreakerInv => OpenAtThreshold
  BY DEF BreakerInv
<1> QED
  BY <1>1, BreakerInvariant, PTL

(* The counter passes the threshold by less than the number of callers.    *)
THEOREM CountIsBounded == BreakerSpec => []CountBounded
<1>1. BreakerInv => CountBounded
  BY PendingBound, BreakerAssumption DEF BreakerInv, BreakerTypeOK, CountBounded, BreakerAssumption
<1> QED
  BY <1>1, BreakerInvariant, PTL

(* At most one half-open call runs.                                        *)
THEOREM ProbesExclude == BreakerSpec => []OneProbe
<1>1. BreakerInv => OneProbe
  BY DEF BreakerInv, OneProbe
<1> QED
  BY <1>1, BreakerInvariant, PTL

-----------------------------------------------------------------------------
(* Lifecycle                                                                *)

(* The process alone.                                                      *)
LifecycleSpec == LifecycleInit /\ [][LifecycleNext]_lifecycleVars

StartStates == {"config", "postgres", "redis", "scylla", "nats", "streams", "required", "workers",
                "storage", "hub", "bridge", "policy", "stories"}
MainStates == StartStates \cup {"serving", "draining", "closing", "exited"}
RequestStates == {"none", "running", "query", "done", "broken", "failed"}
TaskStates == {"none", "queued", "refused", "executing", "done", "broken", "panicked"}

ProcessTypeOK ==
  /\ main \in MainStates /\ turn \in 1..8 /\ forced \in BOOLEAN /\ told \in BOOLEAN
  /\ request \in [Requests -> RequestStates]
  /\ task \in [Requests -> TaskStates]

(* Nothing is closed before the drain is over; it ends early by force, or  *)
(* when no handler is left.                                                *)
DrainInv ==
  /\ turn > 1 => main \in {"closing", "exited"}
  /\ main = "closing" => forced \/ \A r \in Requests : Ended(r)
  /\ \A r \in Requests : request[r] = "broken" => forced

(* The workers are closed when no task is under way, before the stores.    *)
WorkersInv == \A r \in Requests : task[r] # "broken" /\ (turn > 3 => task[r] # "executing")

(* Before it serves, the process has neither answered nor been asked; what *)
(* was wired by then is what there is.                                     *)
WiredInv ==
  /\ main \in StartStates => ~told /\ \A r \in Requests : request[r] = "none" /\ task[r] = "none"
  /\ told => "nats" \in wired
  /\ \A r \in Requests : request[r] = "failed" \/ task[r] = "panicked" => "nats" \notin wired

ProcessInv == ProcessTypeOK /\ DrainInv /\ WorkersInv /\ WiredInv


(* How far the cleanup is tells which parts are closed.                    *)
LEMMA ClosedInTurn ==
  ASSUME turn \in 1..8
  PROVE  /\ "workers" \in ClosedParts <=> turn > 3
         /\ ClosedParts \cap {"nats", "redis", "scylla"} # {} => turn > 4
         /\ ClosedParts \cap {"nats", "scylla", "postgres"} # {} => turn > 4
<1>1. \A i \in 1..7 : Cleanup[i] = "workers" <=> i = 3
  BY DEF Cleanup
<1>2. \A i \in 1..7 : Cleanup[i] \in {"nats", "redis", "scylla", "postgres"} => i > 3
  BY DEF Cleanup
<1>3. \A i \in 1..(turn - 1) : i \in 1..7
  OBVIOUS
<1> QED
  BY <1>1, <1>2, <1>3 DEF ClosedParts

(* Nothing is made yet.                                                     *)
LEMMA ProcessInitially == LifecycleInit => ProcessInv
<1> SUFFICES ASSUME LifecycleInit PROVE ProcessInv
  OBVIOUS
<1>1. ProcessTypeOK
  <2>1. main \in MainStates /\ turn \in 1..8
    BY DEF LifecycleInit, MainStates, StartStates
  <2>2. forced \in BOOLEAN /\ told \in BOOLEAN
    BY Zenon DEF LifecycleInit
  <2>3. request \in [Requests -> RequestStates] /\ task \in [Requests -> TaskStates]
    BY DEF LifecycleInit, RequestStates, TaskStates
  <2> QED
    BY <2>1, <2>2, <2>3 DEF ProcessTypeOK
<1>2. DrainInv
  BY DEF LifecycleInit, DrainInv
<1>3. WorkersInv /\ WiredInv
  BY DEF LifecycleInit, WorkersInv, WiredInv
<1> QED
  BY <1>1, <1>2, <1>3 DEF ProcessInv

(* The steps of the start touch neither requests nor the cleanup.          *)
LEMMA StartingKeeps == ProcessInv /\ Starting => ProcessInv'
<1> SUFFICES ASSUME ProcessInv, Starting
             PROVE  ProcessInv'
  OBVIOUS
<1>1. /\ main \in StartStates /\ main' \in StartStates \cup {"serving", "exited"}
      /\ UNCHANGED <<told, turn, forced, request, task>>
  BY DEF Starting, Load, NewPostgresPool, NewRedis, NewScylla, Connect, EnsureStreams, RequireBus,
         StartWorkers, NewStorage, RunHub, SubscribeEventBridge, NewDefaultEnforcer,
         RegisterStoriesRoutes, StartFails, GoesOn, StartStates
<1>2. turn = 1
  BY <1>1 DEF ProcessInv, ProcessTypeOK, DrainInv, StartStates
<1>3. ~told /\ \A r \in Requests : request[r] = "none" /\ task[r] = "none"
  BY <1>1 DEF ProcessInv, WiredInv
<1> QED
  BY <1>1, <1>2, <1>3 DEF ProcessInv, ProcessTypeOK, DrainInv, WorkersInv, WiredInv, MainStates, StartStates, Ended

(* What a handler or a task does.                                          *)
Handling(r) ==
  \/ Accept(r) \/ Acquire(r) \/ Release(r) \/ Use(r) \/ PublishPanics(r) \/ Answer(r)
  \/ SubmitTask(r) \/ ExecuteTask(r) \/ TaskEnds(r) \/ TaskPanics(r)

(* The steps of a request and of its task are of the types.                 *)
LEMMA HandlingKeepsTypes ==
  ASSUME NEW r \in Requests, ProcessInv, Handling(r)
  PROVE  ProcessTypeOK'
  BY DEF Handling, ProcessInv, ProcessTypeOK, Accept, Acquire, Release, Use, PublishPanics, Answer, SubmitTask,
         ExecuteTask, TaskEnds, TaskPanics, made, MainStates, RequestStates, TaskStates

(* A handler that a closed part breaks is one that was not waited for.     *)
LEMMA HandlingKeepsDrain ==
  ASSUME NEW r \in Requests, ProcessInv, Handling(r)
  PROVE  DrainInv'
<1>1. Use(r) => turn > 1
  BY ClosedInTurn DEF Use, ProcessInv, ProcessTypeOK
<1>2. CASE Accept(r)
  BY <1>2 DEF Accept, made, ProcessInv, ProcessTypeOK, DrainInv, Ended
<1>3. CASE Acquire(r) \/ Use(r)
  <2>1. turn > 1 => forced
    BY <1>3 DEF Acquire, Use, Serves, ProcessInv, ProcessTypeOK, DrainInv, Ended
  <2>2. request'[r] = "broken" => forced
    BY <1>1, <1>3, <2>1 DEF Acquire, Use, PoolCloses, ProcessInv, ProcessTypeOK
  <2>3. main = "closing" => forced
    BY <1>3 DEF Acquire, Use, ProcessInv, DrainInv, Ended
  <2> QED
    BY <1>3, <2>1, <2>2, <2>3 DEF Acquire, Use, made, ProcessInv, ProcessTypeOK, DrainInv, Ended
<1>4. CASE Release(r) \/ PublishPanics(r) \/ Answer(r)
  BY <1>4 DEF Release, PublishPanics, Answer, made, ProcessInv, ProcessTypeOK, DrainInv, Ended
<1>5. CASE SubmitTask(r) \/ ExecuteTask(r) \/ TaskEnds(r) \/ TaskPanics(r)
  BY <1>5 DEF SubmitTask, ExecuteTask, TaskEnds, TaskPanics, made, Serves, ProcessInv, ProcessTypeOK, DrainInv, Ended
<1> QED
  BY <1>2, <1>3, <1>4, <1>5 DEF Handling

(* A task that is executing has all its stores.                            *)
LEMMA HandlingKeepsWorkers ==
  ASSUME NEW r \in Requests, ProcessInv, Handling(r)
  PROVE  WorkersInv'
<1>1. CASE ExecuteTask(r)
  BY <1>1, ClosedInTurn DEF ExecuteTask, made, ProcessInv, ProcessTypeOK, WorkersInv
<1>2. CASE TaskEnds(r)
  <2>1. ClosedParts \cap {"nats", "scylla", "postgres"} = {}
    BY <1>2, ClosedInTurn DEF TaskEnds, ProcessInv, ProcessTypeOK, WorkersInv
  <2> QED
    BY <1>2, <2>1 DEF TaskEnds, made, ProcessInv, ProcessTypeOK, WorkersInv
<1>3. CASE SubmitTask(r) \/ TaskPanics(r)
  BY <1>3 DEF SubmitTask, TaskPanics, made, ProcessInv, ProcessTypeOK, WorkersInv
<1>4. CASE Accept(r) \/ Acquire(r) \/ Release(r) \/ Use(r) \/ PublishPanics(r) \/ Answer(r)
  BY <1>4 DEF Accept, Acquire, Release, Use, PublishPanics, Answer, made, ProcessInv, WorkersInv
<1> QED
  BY <1>1, <1>2, <1>3, <1>4 DEF Handling

(* Only a process without a bus panics, and that one was never ready.      *)
LEMMA HandlingKeepsWired ==
  ASSUME NEW r \in Requests, ProcessInv, Handling(r)
  PROVE  WiredInv'
<1>1. main \notin StartStates /\ main' \notin StartStates /\ UNCHANGED <<told, wired>>
  <2>1. main = "serving" \/ Serves
    BY DEF Handling, Accept, Acquire, Release, Use, PublishPanics, Answer, SubmitTask, ExecuteTask,
           TaskEnds, TaskPanics
  <2> QED
    BY <2>1 DEF Serves, Handling, Accept, Acquire, Release, Use, PublishPanics, Answer, SubmitTask,
           ExecuteTask, TaskEnds, TaskPanics, made, StartStates
<1>2. \A q \in Requests : request'[q] = "failed" \/ task'[q] = "panicked" => "nats" \notin wired
  BY DEF Handling, Accept, Acquire, Release, Use, PublishPanics, Answer, SubmitTask, ExecuteTask,
         TaskEnds, TaskPanics, made, ProcessInv, ProcessTypeOK, WiredInv
<1> QED
  BY <1>1, <1>2 DEF ProcessInv, WiredInv

(* Of the steps of the end only ClosePart moves the cleanup on.            *)
LEMMA EndingKeeps == ProcessInv /\ (Ready \/ Signal \/ Ending \/ ListenFails) => ProcessInv'
<1> SUFFICES ASSUME ProcessInv, Ready \/ Signal \/ Ending \/ ListenFails
             PROVE  ProcessInv'
  OBVIOUS
<1>1. CASE Ready
  BY <1>1 DEF Ready, Needed, ProcessInv, ProcessTypeOK, DrainInv, WorkersInv, WiredInv, StartStates, Ended
<1>2. CASE Signal \/ ListenFails
  BY <1>2 DEF Signal, ListenFails, made, ProcessInv, ProcessTypeOK, DrainInv, WorkersInv, WiredInv, StartStates,
              MainStates, Ended
<1>3. CASE Drained
  BY <1>3 DEF Drained, made, ProcessInv, ProcessTypeOK, DrainInv, WorkersInv, WiredInv, StartStates, MainStates, Ended
<1>4. CASE TimeRunsOut
  BY <1>4 DEF TimeRunsOut, made, ProcessInv, ProcessTypeOK, DrainInv, WorkersInv, WiredInv, StartStates, MainStates, Ended
<1>5. CASE Exit
  BY <1>5 DEF Exit, made, ProcessInv, ProcessTypeOK, DrainInv, WorkersInv, WiredInv, StartStates, MainStates, Ended
<1>6. CASE ClosePart
  <2>0. Len(Cleanup) = 7
    BY DEF Cleanup
  <2>1. turn \in 1..7 /\ turn' = turn + 1 /\ main = "closing" /\ UNCHANGED <<made, main, forced, request, task>>
    BY <1>6, <2>0 DEF ClosePart, ProcessInv, ProcessTypeOK
  <2>2. turn = 3 => \A r \in Requests : task[r] # "executing"
    BY <1>6 DEF ClosePart, MayClose, Cleanup
  <2>3. ProcessTypeOK' /\ DrainInv'
    BY <2>1 DEF made, ProcessInv, ProcessTypeOK, DrainInv, Ended
  <2>4. WorkersInv' /\ WiredInv'
    BY <2>1, <2>2 DEF made, ProcessInv, WorkersInv, WiredInv
  <2> QED
    BY <2>3, <2>4 DEF ProcessInv
<1> QED
  BY <1>1, <1>2, <1>3, <1>4, <1>5, <1>6 DEF Ending

(* Every step of the process keeps the invariant.                           *)
LEMMA ProcessStep == ProcessInv /\ [LifecycleNext]_lifecycleVars => ProcessInv'
<1> SUFFICES ASSUME ProcessInv, [LifecycleNext]_lifecycleVars
             PROVE  ProcessInv'
  OBVIOUS
<1>1. CASE \E r \in Requests : Handling(r)
  BY <1>1, HandlingKeepsTypes, HandlingKeepsDrain, HandlingKeepsWorkers, HandlingKeepsWired DEF ProcessInv
<1>2. CASE Starting
  BY <1>2, StartingKeeps
<1>3. CASE Ready \/ Signal \/ Ending \/ ListenFails
  BY <1>3, EndingKeeps
<1>4. CASE UNCHANGED lifecycleVars
  BY <1>4 DEF lifecycleVars, made, ProcessInv, ProcessTypeOK, DrainInv, WorkersInv, WiredInv, Ended
<1> QED
  BY <1>1, <1>2, <1>3, <1>4 DEF LifecycleNext, Handling, Ending

(* It holds in every behaviour.                                             *)
LEMMA ProcessInvariant == LifecycleSpec => []ProcessInv
  BY ProcessInitially, ProcessStep, PTL DEF LifecycleSpec


(* No task is cut off from a store, and only handlers that the forced      *)
(* drain left behind are; and a process that once answered that it is      *)
(* ready has its bus: main.go's order of the cleanup, and the order in     *)
(* which BuildApp makes its parts.                                         *)
THEOREM ProcessHoldsAlways == LifecycleSpec => []ProcessHolds
<1>1. ProcessInv => ProcessHolds
  BY DEF ProcessInv, DrainInv, WorkersInv, WiredInv, ProcessHolds, StoresOutliveUsers, ReadyCanPublish
<1> QED
  BY <1>1, ProcessInvariant, PTL

-----------------------------------------------------------------------------
(* Community                                                                *)

(* A ban is a row of a group that is there, and a handler that has         *)
(* compared the owner of a group writes to one that is.                    *)
BansAreRows ==
  \A p \in expelled : p \in runs \X People /\ role[p[1]][p[2]] = {"banned"}
OwnersWriteToGroups ==
  \A c \in Asking(OwnerOps) : call[c] = "write" => Group(c) \in runs

BanInv ==
  /\ runs \subseteq Groups /\ role \in [Groups -> [People -> SUBSET Roles]]
  /\ call \in [GroupCalls -> {"idle", "insert", "write", "inserts", "done", "refused", "failed"}]
  /\ BansAreRows /\ OwnersWriteToGroups

(* Nobody is banned at first.                                               *)
LEMMA BansInitially == CommunityInit => BanInv
BY CommunityAssumption DEF CommunityAssumption, CommunityInit, BanInv, BansAreRows, OwnersWriteToGroups, Roles, Asking

(* A step that leaves the roles and the bans alone.                        *)
LEMMA BansFrame ==
  ASSUME BanInv, NEW c \in GroupCalls,
         NEW l \in {"idle", "insert", "write", "inserts", "done", "refused", "failed"},
         call' = [call EXCEPT ![c] = l] \/ UNCHANGED call, runs \subseteq runs', runs' \subseteq Groups,
         l = "write" /\ c \in Asking(OwnerOps) => Group(c) \in runs, UNCHANGED <<role, expelled>>
  PROVE  BanInv'
BY DEF BanInv, BansAreRows, OwnersWriteToGroups, Asking, Group

(* What a call names.                                                       *)
LEMMA CallerTypes ==
  ASSUME NEW c \in GroupCalls
  PROVE  /\ Group(c) \in Groups /\ Caller(c) \in People
         /\ GroupCall[c].op \in {"ban", "unban", "role"} => Other(c) \in People
         /\ GroupCall[c].op = "role" => Arg(c) \in Roles
BY CommunityAssumption DEF CommunityAssumption, Group, Caller, Other, Arg

(* One row becomes another: the row of a ban changes only with the ban.    *)
LEMMA RoleFrame ==
  ASSUME BanInv, NEW c \in GroupCalls, NEW l \in {"done", "failed"}, NEW u \in People, NEW r \in SUBSET Roles,
         CallGoto(c, l), UNCHANGED runs, role' = [role EXCEPT ![Group(c)][u] = r],
         \/ expelled' = expelled \cup {<<Group(c), u>>} /\ r = {"banned"} /\ Group(c) \in runs
         \/ expelled' = expelled \ {<<Group(c), u>>}
         \/ expelled' = expelled /\ (role[Group(c)][u] = {"banned"} => r = {"banned"})
  PROVE  BanInv'
<1>1. Group(c) \in Groups
  BY CallerTypes
<1>2. /\ role' \in [Groups -> [People -> SUBSET Roles]] /\ role'[Group(c)][u] = r
      /\ \A g \in Groups, v \in People : g # Group(c) \/ v # u => role'[g][v] = role[g][v]
  BY <1>1 DEF BanInv
<1>3. BansAreRows'
  BY <1>1, <1>2 DEF BanInv, BansAreRows
<1>4. OwnersWriteToGroups'
  BY DEF BanInv, OwnersWriteToGroups, CallGoto, Asking, Group
<1> QED
  BY <1>2, <1>3, <1>4 DEF BanInv, CallGoto

(* Founding, joining and leaving: a row that is banned stays so.            *)
LEMMA GroupStep ==
  ASSUME BanInv, NEW c \in GroupCalls,
         CreateCommunity(c) \/ CreateGroup(c) \/ JoinLoads(c) \/ Join(c) \/ LeaveCommunity(c)
  PROVE  BanInv'
<1> USE CallerTypes
<1>1. CASE CreateCommunity(c)
  BY <1>1, BansFrame DEF CreateCommunity, CallGoto, InsertCommunity, BanInv, Asking, OwnerOps, Opens, Does
<1>2. CASE JoinLoads(c)
  BY <1>2, BansFrame DEF JoinLoads, CallGoto, groupVars, BanInv
<1>3. ASSUME NEW as \in {"owner", "member"}, JoinCommunity(c, as)
      PROVE  BanInv'
  <2>1. CASE role[Group(c)][Caller(c)] = {}
    BY <1>3, <2>1, RoleFrame DEF JoinCommunity, Roles
  <2>2. CASE role[Group(c)][Caller(c)] # {}
    BY <1>3, <2>2, BansFrame DEF JoinCommunity, CallGoto, BanInv
  <2> QED
    BY <2>1, <2>2
<1>4. CASE LeaveCommunity(c)
  <2> DEFINE r == role[Group(c)][Caller(c)] \cap {"banned"}
  <2>1. r \in SUBSET Roles
    BY DEF BanInv, Roles
  <2>2. role' = [role EXCEPT ![Group(c)][Caller(c)] = r]
    BY <1>4 DEF LeaveCommunity, DeleteMember, BanInv
  <2> QED
    BY <1>4, <2>1, <2>2, RoleFrame DEF LeaveCommunity
<1> QED
  BY <1>1, <1>2, <1>3, <1>4 DEF CreateGroup, Join

(* What an owner does to a group, once the handler has compared.            *)
LEMMA OwnerStep ==
  ASSUME BanInv, NEW c \in Asking(OwnerOps),
         \/ OwnerLoads(c) \/ UpdateSettings(c) \/ BanMember(c) \/ UnbanMember(c) \/ UpdateMemberRole(c)
         \/ DeleteGuidelines(c) \/ InsertGuideline(c) \/ UpdatedGuidelines(c)
  PROVE  BanInv'
<1> c \in GroupCalls
  BY DEF Asking
<1> USE CallerTypes
<1>1. CASE OwnerLoads(c)
  BY <1>1, BansFrame DEF OwnerLoads, CallGoto, groupVars, BanInv
<1>2. CASE UpdateSettings(c) \/ DeleteGuidelines(c) \/ InsertGuideline(c) \/ UpdatedGuidelines(c)
  BY <1>2, BansFrame DEF UpdateSettings, DeleteGuidelines, InsertGuideline, UpdatedGuidelines, CallGoto, groupVars, BanInv
<1>3. CASE BanMember(c)
  <2>1. Group(c) \in runs /\ Other(c) \in People
    BY <1>3 DEF BanMember, Goes, Does, BanInv, OwnersWriteToGroups
  <2> DEFINE r == IF HasRow(c) THEN {"banned"} ELSE {}
  <2>2. r \in SUBSET Roles /\ role' = [role EXCEPT ![Group(c)][Other(c)] = r]
    BY <1>3 DEF BanMember, Roles
  <2> QED
    BY <1>3, <2>1, <2>2, RoleFrame DEF BanMember, HasRow, Case
<1>4. CASE UnbanMember(c)
  <2>1. Other(c) \in People
    BY <1>4 DEF UnbanMember, Goes, Does
  <2> DEFINE r == IF role[Group(c)][Other(c)] = {"banned"} THEN {"member"} ELSE role[Group(c)][Other(c)]
  <2>2. r \in SUBSET Roles
    BY <2>1 DEF BanInv, Roles
  <2>3. role' = [role EXCEPT ![Group(c)][Other(c)] = r]
    BY <1>4 DEF UnbanMember, BanInv
  <2> QED
    BY <1>4, <2>1, <2>2, <2>3, RoleFrame DEF UnbanMember, Case
<1>5. CASE UpdateMemberRole(c)
  <2>1. Group(c) \in runs /\ Other(c) \in People /\ Arg(c) \in Roles
    BY <1>5 DEF UpdateMemberRole, Goes, Does, BanInv, OwnersWriteToGroups
  <2>2. CASE HasRow(c)
    <3>1. {Arg(c)} \in SUBSET Roles /\ role' = [role EXCEPT ![Group(c)][Other(c)] = {Arg(c)}]
      BY <1>5, <2>1, <2>2 DEF UpdateMemberRole
    <3>2. \/ expelled' = expelled \cup {<<Group(c), Other(c)>>} /\ {Arg(c)} = {"banned"}
          \/ expelled' = expelled \ {<<Group(c), Other(c)>>}
      BY <1>5, <2>2 DEF UpdateMemberRole, Case
    <3>3. CallGoto(c, "done") /\ UNCHANGED runs
      BY <1>5, <2>2 DEF UpdateMemberRole
    <3> QED
      BY <2>1, <3>1, <3>2, <3>3, RoleFrame
  <2>3. CASE ~HasRow(c)
    BY <1>5, <2>3, BansFrame DEF UpdateMemberRole, CallGoto, BanInv
  <2> QED
    BY <2>2, <2>3
<1> QED
  BY <1>1, <1>2, <1>3, <1>4, <1>5

(* The rest of the module reads the groups, and changes none of them.      *)
LEMMA OtherStep ==
  ASSUME BanInv, NEW c \in GroupCalls, 
         \/ c \in Asking({"organize", "rsvp", "cancel"})
             /\ (CreateEvent(c) \/ RSVP(c) \/ CancelEvent(c) \/ WriteCancelled(c))
         \/ c \in Asking({"gather", "enter"}) /\ (CreateCollective(c) \/ JoinCollective(c))
         \/ c \in Asking({"thread", "resonate", "pin", "lock", "reply"})
             /\ (CreateThread(c) \/ ResonateThread(c) \/ PinThread(c) \/ LockThread(c) \/ CreateThreadReply(c))
         \/ c \in Asking({"subscribe", "unsubscribe", "tier"})
             /\ (CreateSubscription(c) \/ SubscriberLoads(c) \/ CancelSubscription(c) \/ UpdateSubscription(c))
         \/ CallFails(c)
  PROVE  BanInv'
<1>1. UNCHANGED groupVars /\ UNCHANGED expelled
  BY DEF CreateEvent, RSVP, CancelEvent, WriteCancelled, CreateCollective, JoinCollective, CreateThread,
         ResonateThread, PinThread, LockThread, CreateThreadReply, CreateSubscription, SubscriberLoads,
         CancelSubscription, UpdateSubscription, CallFails
<1>2. \E l \in {"write", "done", "refused", "failed"} :
        CallGoto(c, l) /\ (l = "write" => c \notin Asking(OwnerOps))
  BY DEF CreateEvent, RSVP, CancelEvent, WriteCancelled, CreateCollective, JoinCollective, CreateThread,
         ResonateThread, PinThread, LockThread, CreateThreadReply, CreateSubscription, SubscriberLoads,
         CancelSubscription, UpdateSubscription, CallFails, Asking, OwnerOps
<1> QED
  BY <1>1, <1>2, BansFrame DEF CallGoto, groupVars, BanInv

(* Every step keeps the invariant.                                          *)
LEMMA BansInductive == BanInv /\ [CommunityNext]_communityVars => BanInv'
<1>1. ASSUME BanInv, UNCHANGED communityVars
      PROVE  BanInv'
  BY <1>1 DEF communityVars, groupVars, BanInv, BansAreRows, OwnersWriteToGroups, Asking, Group
<1> QED
  BY <1>1, GroupStep, OwnerStep, OtherStep DEF CommunityNext, Asking

(* Whoever is banned is counted as no member, and flagged as none.         *)
LEMMA BansAreShown == BanInv => BansHold
<1> SUFFICES ASSUME BanInv, NEW p \in expelled
             PROVE  LET g == p[1]
                        u == p[2]
                    IN  /\ role[g][u] = {"banned"}
                        /\ MemberCount(g) <= Cardinality({v \in People \ {u} : role[g][v] # {}})
                        /\ g \in DOMAIN Analytics(GroupOwner[g])
                        /\ Analytics(GroupOwner[g])[g].members <= Cardinality({v \in People \ {u} : role[g][v] # {}})
                        /\ \A v \in ListCommunities(u) : v.group = g => ~v.joined
                        /\ \A w \in People : \A m \in Members(w, g) : m.user = u => ~m.active
                        /\ ListEvents(u) \cap EventsOf(g) \subseteq GetUpcomingEvents(u)
  BY DEF BansHold
<1> DEFINE g == p[1]
           u == p[2]
<1>1. g \in runs /\ u \in People /\ role[g][u] = {"banned"} /\ ~Belongs(u, g)
  BY DEF BanInv, BansAreRows, Belongs
<1> DEFINE all == {v \in People \ {u} : role[g][v] # {}}
           mine == {v \in People : Belongs(v, g)}
<1>2. Cardinality(mine) <= Cardinality(all)
  <2>1. mine \subseteq all /\ all \subseteq People
    BY <1>1 DEF Belongs
  <2> QED
    BY <2>1, FS_Subset, CommunityAssumption DEF CommunityAssumption
<1>3. MemberCount(g) = Cardinality(mine)
  BY DEF MemberCount
<1>4. g \in DOMAIN Analytics(GroupOwner[g]) /\ Analytics(GroupOwner[g])[g].members = Cardinality(mine)
  BY <1>1 DEF Analytics, GetCommunityAnalytics, Belongs
<1>5. \A v \in ListCommunities(u) : v.group = g => ~v.joined
  <2>1. \A h : Listing(u, h).group = h /\ Listing(u, h).joined = Belongs(u, h)
    BY DEF Listing
  <2>2. \A v \in ListCommunities(u) : \E h : v = Listing(u, h)
    BY DEF ListCommunities
  <2> QED
    <3> TAKE v \in ListCommunities(u)
    <3>1. PICK h : v = Listing(u, h)
      BY <2>2
    <3>2. v.group = h /\ v.joined = Belongs(u, h)
      BY <2>1, <3>1
    <3>3. ~Belongs(u, g)
      BY <1>1
    <3> HIDE DEF g, u
    <3> QED
      BY <3>2, <3>3, Zenon
<1>6. \A w \in People : \A m \in Members(w, g) : m.user = u => ~m.active
  <2> TAKE w \in People
  <2> TAKE m \in Members(w, g)
  <2>1. m \in GetCommunityMembers(g)
    BY DEF Members
  <2>2. PICK v \in People : m = [user |-> v, role |-> role[g][v], active |-> role[g][v] # {"banned"}]
    BY <2>1 DEF GetCommunityMembers
  <2>3. m.user = v /\ m.active = (role[g][v] # {"banned"})
    BY <2>2
  <2>4. role[g][u] = {"banned"}
    BY <1>1
  <2> HIDE DEF g, u
  <2> QED
    BY <2>3, <2>4, Zenon
<1>7. ListEvents(u) \cap EventsOf(g) \subseteq GetUpcomingEvents(u)
  BY <1>1 DEF ListEvents, EventsOf, GetUpcomingEvents, GetAttendees
<1> QED
  BY <1>1, <1>2, <1>3, <1>4, <1>5, <1>6, <1>7

(* Whoever an owner has banned, by the ban or by a role, keeps the row of   *)
(* the ban until the owner pardons them, in whatever order joins, leaves,   *)
(* bans and pardons come: it counts for none of the members, is_joined is   *)
(* FALSE of it, and IsActive as well.                                       *)
THEOREM BansHoldAlways == CommunitySpec => []BansHold
  BY BansInitially, BansInductive, BansAreShown, PTL DEF CommunitySpec

-----------------------------------------------------------------------------
(* Developer                                                                *)

DevStates == {"idle", "app", "write", "reread", "rows"} \cup DevEnded

(* Whose a row is that a call names.                                       *)
OwnerOf(x) == AppOwner[IF x \in Apps THEN x ELSE PartOf[x]]

AppRows == [id: Apps, owner: Developers, verified: BOOLEAN]
PartRows == [id: Parts, app: Apps, active: BOOLEAN]

(* The rows carry their owners, apps and webhooks.                         *)
DevRows ==
  /\ apps \subseteq AppRows /\ parts \subseteq PartRows
  /\ \A r \in apps : r.id \in Apps /\ r.owner = AppOwner[r.id]
  /\ \A r \in parts : r.id \in Parts /\ r.app = PartOf[r.id] /\ \E a \in apps : a.id = r.app
  /\ \A d \in deliveries : d[2] \in Hooks /\ \E r \in parts : r.id = d[2]

(* A call that has come past the comparison is one of the owner's; only    *)
(* lists of webhooks keep their rows open.                                 *)
DevCallIsSound(c) ==
  /\ dev[c] \in DevStates
  /\ dev[c] = "app" => DevOp(c) \in OnParts
  /\ dev[c] \in {"write", "reread"} /\ DevOp(c) \in OnApps => Coder(c) = AppOwner[App(c)]
  /\ dev[c] \in {"write", "reread"} /\ DevOp(c) \in OnParts => Coder(c) = AppOwner[PartOf[Part(c)]]
  /\ dev[c] \in {"write", "reread"} => DevOp(c) \in OnApps \cup OnParts
  /\ dev[c] = "reread" => DevOp(c) \in {"editApp", "add"}
  /\ dev[c] = "rows" => c \in Lists

DevHistory == \A t \in touched \cup revealed : t[2] = OwnerOf(t[1])

DevInv ==
  /\ dev \in [DevCalls -> DevStates] /\ DevRows /\ DevHistory
  /\ \A c \in DevCalls : DevCallIsSound(c)

(* A row that is changed keeps its id and its owner.                        *)
LEMMA RowTypes ==
  /\ \A r \in AppRows : r.id \in Apps /\ LET q == [r EXCEPT !.verified = TRUE]
                                            IN  q \in AppRows /\ q.id = r.id /\ q.owner = r.owner
  /\ \A r \in PartRows, flag \in BOOLEAN : 
       r.id \in Parts /\ r.app \in Apps /\ LET q == [r EXCEPT !.active = flag]
                                            IN  q \in PartRows /\ q.id = r.id /\ q.app = r.app
BY DEF AppRows, PartRows

(* What a call names, and whose it is.                                      *)
LEMMA DevCallTypes ==
  ASSUME NEW c \in DevCalls
  PROVE  /\ App(c) \in Apps /\ Part(c) \in Parts /\ Coder(c) \in Developers
         /\ DevCall[c].active \in BOOLEAN
         /\ DevOp(c) \in {"register", "apps"} \cup OnApps \cup OnParts
         /\ OwnerOf(App(c)) = AppOwner[App(c)]
         /\ \A p \in Parts : OwnerOf(p) = AppOwner[PartOf[p]]
         /\ DevOp(c) = "register" => Coder(c) = AppOwner[App(c)]
         /\ DevOp(c) = "add" => PartOf[Part(c)] = App(c)
         /\ DevOp(c) = "test" => Part(c) \in Hooks
         /\ OnApps \cap OnParts = {} /\ "register" \notin OnApps \cup OnParts
BY DeveloperAssumption DEF DeveloperAssumption, App, Part, Coder, DevOp, OwnerOf, OnApps, OnParts

(* The rows of the start carry their owners.                                *)
LEMMA DevInitially == DeveloperInit => DevInv
<1> SUFFICES ASSUME DeveloperInit PROVE DevInv
  OBVIOUS
<1> USE DeveloperAssumption DEF DeveloperAssumption, DeveloperInit
<1>1. ASSUME NEW r \in apps
      PROVE  r \in AppRows /\ r.id \in Apps /\ r.owner = AppOwner[r.id]
  <2>1. PICK a \in AppsAtFirst : r = [id |-> a, owner |-> AppOwner[a], verified |-> FALSE]
    BY DEF AppRow
  <2>2. a \in Apps /\ AppOwner[a] \in Developers
    BY <2>1
  <2> QED
    BY <2>1, <2>2 DEF AppRows
<1>2. ASSUME NEW r \in parts
      PROVE  r \in PartRows /\ r.id \in Parts /\ r.app = PartOf[r.id] /\ \E a \in apps : a.id = r.app
  <2>1. r.id \in PartsAtFirst /\ r.app = PartOf[r.id]
    OBVIOUS
  <2>2. r.app \in AppsAtFirst
    BY <2>1
  <2>3. AppRow(r.app, AppOwner[r.app]) \in apps /\ AppRow(r.app, AppOwner[r.app]).id = r.app
    BY <2>2 DEF AppRow
  <2>4. r \in PartRows
    <3>1. PICK p \in PartsAtFirst : r = [id |-> p, app |-> PartOf[p], active |-> TRUE]
      OBVIOUS
    <3> QED
      BY <3>1 DEF PartRows
  <2> QED
    BY <2>1, <2>3, <2>4
<1> QED
  BY <1>1, <1>2 DEF DevInv, DevRows, DevHistory, DevCallIsSound, DevStates

(* A step that only moves a call on.                                       *)
LEMMA DevMoves ==
  ASSUME DevInv, NEW c \in DevCalls, NEW l \in DevStates, dev' = [dev EXCEPT ![c] = l],
         DevCallIsSound(c)', DevRows', DevHistory'
  PROVE  DevInv'
BY DEF DevInv, DevCallIsSound, DevStates, DevOp, App, Part, Coder, Lists

(* Rows that do not change.                                                 *)
LEMMA DevRowsFrame ==
  ASSUME DevInv, UNCHANGED <<apps, parts, deliveries>>
  PROVE  DevRows'
BY DEF DevInv, DevRows

(* A comparison that succeeds is with the owner of the row.                 *)
LEMMA AllowedIsOwner ==
  ASSUME DevInv, NEW c \in DevCalls, NEW a \in Apps, Allowed(c, a)
  PROVE  Coder(c) = AppOwner[a]
BY DEF DevInv, DevRows, Allowed, GetApp, GetAppsByOwner

(* A call is shown rows of its own.                                         *)
LEMMA ShownAreOwn ==
  ASSUME DevInv, NEW c \in DevCalls, NEW rows, \A r \in rows : OwnerOf(r.id) = Coder(c), Show(c, rows), UNCHANGED touched
  PROVE  DevHistory'
BY DEF DevInv, DevHistory, Show, OwnerOf

(* A call changes a row of its own.                                         *)
LEMMA TouchedAreOwn ==
  ASSUME DevInv, NEW c \in DevCalls, NEW x, OwnerOf(x) = Coder(c), Touch(c, x) \/ UNCHANGED touched, UNCHANGED revealed
  PROVE  DevHistory'
BY DEF DevInv, DevHistory, Touch, OwnerOf

(* A call that ends.                                                        *)
LEMMA DevEnds ==
  ASSUME DevInv, NEW c \in DevCalls, NEW l \in DevEnded, DevGoto(c, l)
  PROVE  l \in DevStates /\ dev' = [dev EXCEPT ![c] = l] /\ DevCallIsSound(c)'
BY DEF DevInv, DevCallIsSound, DevEnded, DevStates, DevGoto

(* The comparisons with the owner, of an app or of the app of a part.       *)
LEMMA ComparisonStep ==
  ASSUME DevInv, NEW c \in DevCalls,
         RequireAppOwner(c) \/ RequireKeyOwner(c) \/ RequireWebhookOwner(c) \/ RequireBotOwner(c) \/ RequireItsApp(c)
  PROVE  DevInv'
<1> USE DevCallTypes
<1>1. DevRows' /\ DevHistory'
  BY DevRowsFrame DEF RequireAppOwner, RequireKeyOwner, RequireWebhookOwner, RequireBotOwner, RequireItsApp, RequirePart,
     DevInv, DevHistory
<1>2. CASE RequireAppOwner(c)
  <2>1. PICK l \in {"refused", "write"} :
          DevGoto(c, l) /\ DevOp(c) \in OnApps /\ (l = "write" => Coder(c) = AppOwner[App(c)])
    BY <1>2, AllowedIsOwner DEF RequireAppOwner
  <2>2. dev' = [dev EXCEPT ![c] = l] /\ l \in DevStates
    BY <2>1 DEF DevGoto, DevStates, DevEnded
  <2>3. DevCallIsSound(c)'
    BY <2>1, <2>2 DEF DevInv, DevCallIsSound, DevOp, App, Part, Coder
  <2> QED
    BY <1>1, <2>2, <2>3, DevMoves
<1>3. CASE RequireKeyOwner(c) \/ RequireWebhookOwner(c) \/ RequireBotOwner(c)
  <2>1. PICK l \in {"refused", "app"} : DevGoto(c, l) /\ DevOp(c) \in OnParts
    BY <1>3 DEF RequireKeyOwner, RequireWebhookOwner, RequireBotOwner, RequirePart
  <2>2. dev' = [dev EXCEPT ![c] = l] /\ l \in DevStates
    BY <2>1 DEF DevGoto, DevStates, DevEnded
  <2>3. DevCallIsSound(c)'
    BY <2>1, <2>2 DEF DevInv, DevCallIsSound, DevOp, App, Part, Coder
  <2> QED
    BY <1>1, <2>2, <2>3, DevMoves
<1>4. CASE RequireItsApp(c)
  <2>1. DevOp(c) \in OnParts
    BY <1>4 DEF RequireItsApp, DevInv, DevCallIsSound
  <2>a. PartOf[Part(c)] \in Apps
    BY DeveloperAssumption DEF DeveloperAssumption
  <2>2. PICK l \in {"refused", "write"} : DevGoto(c, l) /\ (l = "write" => Coder(c) = AppOwner[PartOf[Part(c)]])
    BY <1>4, <2>a, AllowedIsOwner DEF RequireItsApp
  <2>3. dev' = [dev EXCEPT ![c] = l] /\ l \in DevStates
    BY <2>2 DEF DevGoto, DevStates, DevEnded
  <2>4. DevCallIsSound(c)'
    BY <2>1, <2>2, <2>3 DEF DevInv, DevCallIsSound, DevOp, App, Part, Coder
  <2> QED
    BY <1>1, <2>3, <2>4, DevMoves
<1> QED
  BY <1>2, <1>3, <1>4

(* An app is registered, changed, verified or deleted with its parts.       *)
LEMMA AppStep ==
  ASSUME DevInv, NEW c \in DevCalls, CreateApp(c) \/ UpdateApp(c) \/ VerifyApp(c) \/ DeleteApp(c)
  PROVE  DevInv'
<1> USE DevCallTypes
<1>1. CASE CreateApp(c)
  <2> DEFINE n == AppRow(App(c), AppOwner[App(c)])
  <2>a. n \in AppRows /\ n.id = App(c) /\ n.owner = AppOwner[App(c)]
    BY DeveloperAssumption DEF DeveloperAssumption, AppRows, AppRow
  <2>b. apps' = apps \cup {n} /\ UNCHANGED <<parts, deliveries>>
    BY <1>1 DEF CreateApp, InsertApp, NewApp
  <2>1. DevRows'
    BY <2>a, <2>b DEF DevInv, DevRows
  <2>2. DevHistory'
    BY <1>1, TouchedAreOwn DEF CreateApp
  <2> QED
    BY <1>1, <2>1, <2>2, DevEnds, DevMoves DEF CreateApp, DevEnded
<1>2. CASE UpdateApp(c)
  <2>1. DevOp(c) = "editApp" /\ Coder(c) = AppOwner[App(c)] /\ DevGoto(c, "reread")
    BY <1>2 DEF UpdateApp, Writes, DevInv, DevCallIsSound, OnApps
  <2>2. DevRows' /\ DevHistory'
    BY <1>2, <2>1, DevRowsFrame, TouchedAreOwn DEF UpdateApp
  <2>3. dev' = [dev EXCEPT ![c] = "reread"] /\ "reread" \in DevStates
    BY <2>1 DEF DevGoto, DevStates
  <2>4. DevCallIsSound(c)'
    BY <2>1, <2>3 DEF DevInv, DevCallIsSound, DevOp, App, Part, Coder, OnApps
  <2> QED
    BY <2>2, <2>3, <2>4, DevMoves
<1>3. CASE VerifyApp(c)
  <2>1. ASSUME NEW r \in apps' PROVE r \in AppRows /\ \E q \in apps : r.id = q.id /\ r.owner = q.owner
    <3>1. PICK q \in apps : r = IF q.id = App(c) THEN [q EXCEPT !.verified = TRUE] ELSE q
      BY <1>3 DEF VerifyApp, SetVerified
    <3>2. r \in AppRows /\ r.id = q.id /\ r.owner = q.owner
      BY <3>1, RowTypes DEF DevInv, DevRows
    <3> QED
      BY <3>2
  <2>2. ASSUME NEW q \in apps PROVE \E r \in apps' : r.id = q.id
    <3> DEFINE r == IF q.id = App(c) THEN [q EXCEPT !.verified = TRUE] ELSE q
    <3>1. r \in apps'
      BY <1>3 DEF VerifyApp, SetVerified
    <3>2. r.id = q.id
      BY RowTypes DEF DevInv, DevRows
    <3> QED
      BY <3>1, <3>2
  <2>3. DevRows' /\ DevHistory'
    BY <1>3, <2>1, <2>2 DEF VerifyApp, DevInv, DevRows, DevHistory
  <2> QED
    BY <1>3, <2>3, DevEnds, DevMoves DEF VerifyApp, DevEnded
<1>4. CASE DeleteApp(c)
  <2>1. DevRows'
    BY <1>4 DEF DeleteApp, DeleteRows, GetApp, DevInv, DevRows
  <2>2. DevHistory'
    BY <1>4 DEF DeleteApp, DevInv, DevHistory
  <2> QED
    BY <1>4, <2>1, <2>2, DevEnds, DevMoves DEF DeleteApp, DevEnded
<1> QED
  BY <1>1, <1>2, <1>3, <1>4

(* A part is inserted, changed or deleted, a webhook is tested.             *)
LEMMA PartStep ==
  ASSUME DevInv, NEW c \in DevCalls,
         \/ CreateKey(c) \/ CreateWebhook(c) \/ CreateBot(c) \/ UpdateKey(c) \/ UpdateWebhook(c) \/ UpdateBot(c)
         \/ RevokeKey(c) \/ DeleteWebhook(c) \/ DeleteBot(c) \/ TestWebhook(c)
  PROVE  DevInv'
<1> USE DevCallTypes
<1>1. ASSUME NEW l \in {"reread", "done"}, NEW row \in PartRows, row.id = Part(c), row.app = App(c), InsertPart(c, row, l)
      PROVE  DevInv'
  <2>1. DevOp(c) = "add" /\ Coder(c) = AppOwner[App(c)] /\ OwnerOf(Part(c)) = Coder(c)
    BY <1>1 DEF InsertPart, Writes, DevInv, DevCallIsSound, OnApps
  <2>2. DevRows'
    BY <1>1, <2>1 DEF InsertPart, GetApp, DevInv, DevRows
  <2>3. DevHistory'
    BY <1>1, <2>1, TouchedAreOwn DEF InsertPart
  <2>4. \E m \in {l, "failed"} : dev' = [dev EXCEPT ![c] = m] /\ m \in DevStates
    BY <1>1 DEF InsertPart, DevGoto, DevStates, DevEnded
  <2>5. DevCallIsSound(c)'
    BY <2>1, <2>4 DEF DevInv, DevCallIsSound, DevOp, App, Part, Coder, OnApps, DevStates
  <2> QED
    BY <2>2, <2>3, <2>4, <2>5, DevMoves
<1>2. CASE CreateKey(c) \/ CreateWebhook(c) \/ CreateBot(c)
  <2> DEFINE row == [id |-> Part(c), app |-> App(c), active |-> TRUE]
  <2>1. row \in PartRows /\ row.id = Part(c) /\ row.app = App(c)
    BY DEF PartRows
  <2>2. \E l \in {"reread", "done"} : InsertPart(c, row, l)
    BY <1>2 DEF CreateKey, CreateWebhook, CreateBot, NewKey, NewWebhook, NewBot
  <2> HIDE DEF row
  <2> QED
    BY <1>1, <2>1, <2>2
<1>3. CASE UpdateKey(c) \/ UpdateWebhook(c) \/ UpdateBot(c) \/ RevokeKey(c)
  <2>1. /\ DevOp(c) \in {"edit", "revoke"} /\ dev[c] = "write" /\ DevGoto(c, "done")
        /\ \E flag \in BOOLEAN : SetPart(Part(c), flag)
        /\ Touch(c, Part(c)) \/ UNCHANGED touched
        /\ UNCHANGED <<apps, deliveries, revealed>>
    BY <1>3 DEF UpdateKey, UpdateWebhook, UpdateBot, UpdatePart, RevokeKey, Writes
  <2>2. OwnerOf(Part(c)) = Coder(c)
    BY <2>1 DEF DevInv, DevCallIsSound, OnParts
  <2>a. PICK flag \in BOOLEAN : SetPart(Part(c), flag)
    BY <2>1
  <2> DEFINE Set(q) == IF q.id = Part(c) THEN [q EXCEPT !.active = flag] ELSE q
  <2>b. parts' = {Set(q) : q \in parts}
    BY <2>a DEF SetPart
  <2>c. \A q \in parts : Set(q) \in PartRows /\ Set(q).id = q.id /\ Set(q).app = q.app
    BY RowTypes DEF DevInv, DevRows
  <2>3. /\ parts' \subseteq PartRows
        /\ \A r \in parts' : \E q \in parts : r.id = q.id /\ r.app = q.app
        /\ \A q \in parts : \E r \in parts' : r.id = q.id
    <3> HIDE DEF Set
    <3> QED
      BY <2>b, <2>c
  <2>4. DevRows'
    BY <2>1, <2>3 DEF DevInv, DevRows
  <2>5. DevHistory'
    BY <2>1, <2>2, TouchedAreOwn
  <2> QED
    BY <2>1, <2>4, <2>5, DevEnds, DevMoves DEF DevEnded
<1>4. CASE DeleteWebhook(c) \/ DeleteBot(c)
  <2>1. DevRows'
    BY <1>4 DEF DeleteWebhook, DeleteBot, DeletePart, DeleteRows, DevInv, DevRows
  <2>2. DevHistory'
    BY <1>4 DEF DeleteWebhook, DeleteBot, DeletePart, DevInv, DevHistory
  <2> QED
    BY <1>4, <2>1, <2>2, DevEnds, DevMoves DEF DeleteWebhook, DeleteBot, DeletePart, DevEnded
<1>5. CASE TestWebhook(c)
  <2>1. DevRows'
    BY <1>5 DEF TestWebhook, InsertDelivery, GetWebhook, DevInv, DevRows
  <2>2. DevHistory'
    BY <1>5 DEF TestWebhook, DevInv, DevHistory
  <2> QED
    BY <1>5, <2>1, <2>2, DevEnds, DevMoves DEF TestWebhook, DevEnded
<1> QED
  BY <1>2, <1>3, <1>4, <1>5

(* The answers of one row or of a list.                                     *)
LEMMA ReadStep ==
  ASSUME DevInv, NEW c \in DevCalls,
         \/ ListApps(c) \/ ReadApp(c) \/ ReadKey(c) \/ ReadWebhook(c) \/ ReadBot(c)
         \/ ListKeys(c) \/ ListBots(c) \/ GetMetrics(c) \/ TestSuite(c) \/ Reread(c)
  PROVE  DevInv'
<1> USE DevCallTypes
<1>1. ASSUME NEW rows, NEW l \in DevEnded, \A r \in rows : OwnerOf(r.id) = Coder(c), Show(c, rows), DevGoto(c, l),
             UNCHANGED <<apps, parts, deliveries, touched>>
      PROVE  DevInv'
  BY <1>1, DevRowsFrame, ShownAreOwn, DevEnds, DevMoves
<1>2. /\ \A a \in Apps : a \in Apps => \A r \in GetApp(a) : OwnerOf(r.id) = AppOwner[a]
      /\ \A r \in GetAppsByOwner(Coder(c)) : OwnerOf(r.id) = Coder(c)
  BY DEF GetApp, GetAppsByOwner, DevInv, DevRows, OwnerOf
<1>3. /\ \A r \in PartRow(Part(c)) : r.id = Part(c)
      /\ \A r \in GetAPIKeysByAppID(App(c)) \cup GetBotsByAppID(App(c)) : OwnerOf(r.id) = AppOwner[App(c)]
  BY DEF PartRow, GetAPIKey, GetWebhook, GetBot, GetAPIKeysByAppID, GetBotsByAppID, DevInv, DevRows
<1>4. dev[c] = "write" => /\ DevOp(c) \in OnApps => Coder(c) = AppOwner[App(c)]
                          /\ DevOp(c) \in OnParts => Coder(c) = OwnerOf(Part(c))
  BY DEF DevInv, DevCallIsSound
<1>5. "done" \in DevEnded /\ "failed" \in DevEnded
  BY DEF DevEnded
<1>6. CASE ListApps(c)
  BY <1>1, <1>2, <1>5, <1>6 DEF ListApps, Answers
<1>7. CASE ReadApp(c) \/ TestSuite(c)
  BY <1>1, <1>2, <1>4, <1>5, <1>7 DEF ReadApp, TestSuite, Answers, Writes, OnApps
<1>8. CASE ReadKey(c) \/ ReadWebhook(c) \/ ReadBot(c)
  BY <1>1, <1>3, <1>4, <1>5, <1>8 DEF ReadKey, ReadWebhook, ReadBot, PartRow, Answers, Writes, OnParts
<1>9. CASE ListKeys(c) \/ ListBots(c)
  BY <1>1, <1>3, <1>4, <1>5, <1>9 DEF ListKeys, ListBots, Answers, Writes, OnApps
<1>10. CASE GetMetrics(c)
  BY <1>1, <1>5, <1>10 DEF GetMetrics, Answers
<1>11. CASE Reread(c)
  <2>1. DevOp(c) \in {"editApp", "add"} /\ Coder(c) = AppOwner[App(c)]
    BY <1>11 DEF Reread, DevInv, DevCallIsSound, OnApps
  <2>2. DevOp(c) = "add" => OwnerOf(Part(c)) = Coder(c)
    BY <2>1
  <2> DEFINE found == IF DevOp(c) = "add" THEN GetAPIKey(Part(c)) ELSE GetApp(App(c))
  <2>3. \A r \in found : OwnerOf(r.id) = Coder(c)
    BY <2>1, <2>2, <1>2, <1>3 DEF PartRow
  <2>4. Show(c, found) /\ (DevGoto(c, "done") \/ DevGoto(c, "failed")) /\ UNCHANGED <<apps, parts, deliveries, touched>>
    BY <1>11 DEF Reread
  <2> QED
    BY <1>1, <1>5, <2>3, <2>4
<1> QED
  BY <1>6, <1>7, <1>8, <1>9, <1>10, <1>11

(* The list of webhooks, and a call that fails.                             *)
LEMMA ListStep ==
  ASSUME DevInv, NEW c \in DevCalls,
         ListWebhooks(c) \/ ScanWebhook(c) \/ ScanPanics(c) \/ CloseRows(c) \/ DevFails(c)
  PROVE  DevInv'
<1> USE DevCallTypes
<1>1. CASE ListWebhooks(c)
  <2>1. DevOp(c) = "list" /\ c \in Lists /\ Coder(c) = AppOwner[App(c)]
    BY <1>1 DEF ListWebhooks, Writes, Lists, DevInv, DevCallIsSound, OnApps
  <2>2. DevRows'
    BY <1>1, DevRowsFrame DEF ListWebhooks
  <2>3. \A h \in GetWebhooksByAppID(App(c)) : OwnerOf(h) = Coder(c)
    BY <2>1 DEF GetWebhooksByAppID, DevInv, DevRows
  <2>4. DevHistory'
    BY <1>1, <2>3 DEF ListWebhooks, DevInv, DevHistory, OwnerOf
  <2>5. dev' = [dev EXCEPT ![c] = "rows"] /\ "rows" \in DevStates
    BY <1>1 DEF ListWebhooks, DevStates
  <2>6. DevCallIsSound(c)'
    BY <2>1, <2>5 DEF DevInv, DevCallIsSound, DevStates, Lists, DevOp, Part
  <2> QED
    BY <2>2, <2>4, <2>5, <2>6, DevMoves
<1>2. CASE ScanWebhook(c)
  BY <1>2 DEF ScanWebhook, DevInv, DevRows, DevHistory, DevCallIsSound, Lists, DevOp, App, Part, Coder
<1>3. CASE ScanPanics(c) \/ CloseRows(c) \/ DevFails(c)
  <2>1. /\ \E l \in DevEnded : DevGoto(c, l)
        /\ UNCHANGED <<apps, parts, deliveries, touched, revealed>>
    BY <1>3 DEF ScanPanics, CloseRows, DevFails, DevEnded
  <2>2. DevRows' /\ DevHistory'
    BY <2>1, DevRowsFrame DEF DevInv, DevHistory
  <2> QED
    BY <2>1, <2>2, DevEnds, DevMoves
<1> QED
  BY <1>1, <1>2, <1>3

(* Every step keeps the invariant.                                          *)
LEMMA DevInductive == DevInv /\ [DeveloperNext]_devVars => DevInv'
<1>1. ASSUME DevInv, UNCHANGED devVars
      PROVE  DevInv'
  BY <1>1 DEF devVars, DevInv, DevRows, DevHistory, DevCallIsSound, Lists, DevOp, App, Part, Coder
<1> QED
  BY <1>1, ComparisonStep, AppStep, PartStep, ReadStep, ListStep DEF DeveloperNext, DevAsks, DevProceeds

(* What it says of the rows, and of the pool.                               *)
LEMMA DevInvImplies == DevInv => RowsAreOwned /\ PoolSuffices
<1> SUFFICES ASSUME DevInv PROVE RowsAreOwned /\ PoolSuffices
  OBVIOUS
<1>1. RowsAreOwned
  BY DEF DevInv, DevRows, DevHistory, OwnerOf, RowsAreOwned, GetApp, GetWebhook
<1>2. Cardinality(Holding) <= Cardinality(Lists) /\ Cardinality(Holding) \in Nat /\ Cardinality(Lists) \in Nat
  <2>1. Holding \subseteq Lists /\ Lists \subseteq DevCalls
    BY DEF DevInv, DevCallIsSound, Holding, Lists
  <2>2. IsFiniteSet(Lists)
    BY <2>1, FS_Subset, DeveloperAssumption DEF DeveloperAssumption
  <2> QED
    BY <2>1, <2>2, FS_Subset, FS_CardinalityType
<1> QED
  BY <1>1, <1>2, DeveloperAssumption DEF DeveloperAssumption, PoolSuffices, Connected

(* However calls interleave with the deletion of an app, parts stay with   *)
(* their app, deliveries with their webhook, and only the owner of an app  *)
(* has touched or been shown a row: the comparison of the handlers, and    *)
(* the deletes that cascade.                                               *)
THEOREM RowsAreOwnedAlways == DeveloperSpec => []RowsAreOwned
  BY DevInitially, DevInductive, DevInvImplies, PTL DEF DeveloperSpec

(* A pool with more connections than lists of webhooks never has all of    *)
(* them held by lists that wait for one more: ListWebhooks, which asks for *)
(* a connection with its rows still open.                                  *)
THEOREM PoolSufficesAlways == DeveloperSpec => []PoolSuffices
  BY DevInitially, DevInductive, DevInvImplies, PTL DEF DeveloperSpec

-----------------------------------------------------------------------------
(* Admission                                                                *)

(* What a request passes, alone.                                           *)
AdmissionSpec == AdmissionInit /\ [][AdmissionNext]_admissionVars

VisitStates == {"none", "global", "globalCount", "auth", "authCount", "token", "blacklist",
                "logout", "list", "left", "served", "refused"}

AdmissionTypeOK ==
  /\ now \in Nat /\ listed \in Int /\ visit \in [Visits -> VisitStates]
  /\ stamp \in [Visits -> Nat] /\ \A v \in Visits : stamp[v] <= now
  /\ expiry \in [Limiters -> Nat] /\ latest \in [Limiters -> Nat]
  /\ window \in [Limiters -> SUBSET (Visits \X Nat)] /\ passed \in [Limiters -> SUBSET (Visits \X Nat)]
  /\ \A l \in Limiters : IsFiniteSet(window[l])

(* The times at hand: nothing has passed later than now, or later than the *)
(* latest script, and the set outlives the window of all that has passed.  *)
TimesInv ==
  \A l \in Limiters :
    /\ expiry[l] <= now + Window + Slack
    /\ \A x \in passed[l] : x[2] <= now /\ x[2] + Window + Slack <= expiry[l]

(* What still counts at the latest script is in the set.                   *)
WindowIsWhole ==
  \A l \in Limiters \ strained : \A x \in passed[l] :
    x[2] <= latest[l] /\ (x[2] > latest[l] - Window => x \in window[l])

(* What passed in a window that ends at t.                                 *)
PassedIn(l, t) == {x \in passed[l] : t - Window < x[2] /\ x[2] <= t}
LoadIsLimited == \A l \in Limiters \ strained : \A t \in Int : Cardinality(PassedIn(l, t)) <= LimitOf(l)

(* A logout is answered only with the token over, or listed to its end.    *)
TokenIsOver == now >= TokenEnds \/ listed >= TokenEnds
LeftInv == (\E v \in Visits : visit[v] = "left") \/ after # {} => TokenIsOver

AdmissionInv == AdmissionTypeOK /\ TimesInv /\ WindowIsWhole /\ LoadIsLimited /\ LeftInv

(* The limits, the window and its slack.                                    *)
LEMMA AdmissionNumbers ==
  /\ Window \in Nat \ {0} /\ TokenEnds \in Nat \ {0} /\ Slack \in Nat
  /\ \A l \in Limiters : LimitOf(l) \in Nat \ {0}
BY AdmissionAssumption DEF AdmissionAssumption, Slack, LimitOf, GlobalLimit, AuthLimit, Limiters

(* One more element makes a set larger by one at most.                     *)
LEMMA AddOne ==
  ASSUME NEW S, IsFiniteSet(S), NEW x
  PROVE  IsFiniteSet(S \cup {x}) /\ Cardinality(S \cup {x}) <= Cardinality(S) + 1
<1>1. IsFiniteSet(S \cup {x}) /\ (x \in S \/ Cardinality(S \cup {x}) = Cardinality(S) + 1)
  BY FS_AddElement
<1>2. Cardinality(S) \in Nat /\ Cardinality(S \cup {x}) \in Nat
  BY <1>1, FS_CardinalityType
<1>3. CASE x \in S
  <2>1. S \cup {x} = S
    BY <1>3
  <2> QED
    BY <1>1, <1>2, <2>1
<1> QED
  BY <1>1, <1>2, <1>3

(* No visit and no entry.                                                   *)
LEMMA AdmissionInitially == AdmissionInit => AdmissionInv
<1> SUFFICES ASSUME AdmissionInit PROVE AdmissionInv
  OBVIOUS
<1> USE AdmissionNumbers DEF AdmissionInit
<1>1. AdmissionTypeOK
  BY FS_EmptySet DEF AdmissionTypeOK, VisitStates
<1>2. TimesInv /\ WindowIsWhole /\ LeftInv
  BY DEF TimesInv, WindowIsWhole, LeftInv
<1>3. LoadIsLimited
  <2>1. \A l \in Limiters, t \in Int : PassedIn(l, t) = {}
    BY DEF PassedIn
  <2>2. Cardinality({}) = 0
    BY FS_EmptySet
  <2> SUFFICES ASSUME NEW l \in Limiters, NEW t \in Int PROVE Cardinality(PassedIn(l, t)) <= LimitOf(l)
    BY DEF LoadIsLimited
  <2>3. 0 <= LimitOf(l)
    <3>1. LimitOf(l) \in Nat
      BY AdmissionNumbers
    <3> QED
      BY <3>1
  <2> QED
    BY <2>1, <2>2, <2>3, Zenon
<1> QED
  BY <1>1, <1>2, <1>3 DEF AdmissionInv

(* Steps that leave the limiters alone.                                    *)
LEMMA LimitersFrame ==
  ASSUME AdmissionInv, now' >= now, now' \in Nat, UNCHANGED <<window, expiry, passed, latest, strained>>
  PROVE  TimesInv' /\ WindowIsWhole' /\ LoadIsLimited'
<1>1. TimesInv'
  BY AdmissionNumbers DEF AdmissionInv, AdmissionTypeOK, TimesInv
<1>2. WindowIsWhole' /\ LoadIsLimited'
  BY DEF AdmissionInv, WindowIsWhole, LoadIsLimited, PassedIn
<1> QED
  BY <1>1, <1>2

(* A visit goes on, past the limiters.                                      *)
LEMMA VisitStep ==
  ASSUME AdmissionInv, NEW v \in Visits,
         \/ AnomalyDetectorMiddleware(v) \/ TakeTime(v) \/ ValidateToken(v) \/ CheckTokenBlacklist(v)
         \/ Logout(v) \/ BlacklistToken(v) \/ Unavailable(v)
  PROVE  AdmissionInv'
<1> USE AdmissionNumbers
<1>1. /\ UNCHANGED <<now, window, expiry, passed, latest, strained>>
      /\ \E s \in VisitStates : VisitGoto(v, s)
      /\ stamp' = stamp \/ ReadClock(v) \/ Forget(v)
      /\ listed' = listed \/ (visit[v] = "list" /\ listed' = now + Remaining(v))
  BY DEF AnomalyDetectorMiddleware, AnalyzePayload, TakeTime, ValidateToken, CheckTokenBlacklist, Logout, BlacklistToken,
         Unavailable, past, Limiters, Counts, VisitStates
<1>2. stamp \in [Visits -> Nat] /\ stamp[v] <= now /\ now \in Nat
  BY DEF AdmissionInv, AdmissionTypeOK
<1>3. stamp' \in [Visits -> Nat] /\ \A w \in Visits : stamp'[w] <= now
  BY <1>1, <1>2 DEF AdmissionInv, AdmissionTypeOK, ReadClock, Forget
<1>4. listed' \in Int /\ (listed' = listed \/ listed' >= TokenEnds)
  BY <1>1, <1>2 DEF AdmissionInv, AdmissionTypeOK, Remaining
<1>5. AdmissionTypeOK'
  BY <1>1, <1>3, <1>4 DEF AdmissionInv, AdmissionTypeOK, VisitGoto
<1>6. TokenIsOver => TokenIsOver'
  BY <1>1, <1>4 DEF TokenIsOver
<1>7. LeftInv'
  <2>1. visit'[v] = "left" /\ visit[v] # "left" => TokenIsOver'
    <3>1. CASE Logout(v)
      BY <3>1, <1>2 DEF Logout, VisitGoto, TokenIsOver, AdmissionInv, AdmissionTypeOK
    <3>2. CASE BlacklistToken(v)
      BY <3>2, <1>2 DEF BlacklistToken, Remaining, TokenIsOver
    <3> QED
      BY <3>1, <3>2 DEF AnomalyDetectorMiddleware, AnalyzePayload, TakeTime, ValidateToken, CheckTokenBlacklist,
         Unavailable, VisitGoto, Limiters, Counts, AdmissionInv, AdmissionTypeOK
  <2>2. after' # {} => after # {} \/ LoggedOut
    BY DEF AnomalyDetectorMiddleware, TakeTime, ValidateToken, CheckTokenBlacklist, Logout, BlacklistToken,
         Unavailable, past
  <2>3. LoggedOut => TokenIsOver
    BY AdmissionAssumption DEF AdmissionAssumption, LoggedOut, AdmissionInv, LeftInv
  <2>4. \A w \in Visits \ {v} : visit'[w] = visit[w]
    BY <1>1 DEF VisitGoto, AdmissionInv, AdmissionTypeOK
  <2> QED
    BY <1>6, <2>1, <2>2, <2>3, <2>4 DEF AdmissionInv, LeftInv
<1> QED
  BY <1>1, <1>2, <1>5, <1>7, LimitersFrame DEF AdmissionInv

(* A script that is in order sees all that still counts.                   *)
LEMMA ScriptSeesAll ==
  ASSUME AdmissionInv, NEW l \in Limiters, l \notin strained, NEW t \in Nat, ~Strains(l, t), t <= now,
         NEW x \in passed[l], x[2] > t - Window
  PROVE  x \in Kept(l, t)
<1> USE AdmissionNumbers
<1>1. now \in Nat /\ latest[l] \in Nat /\ expiry[l] \in Nat /\ x[2] \in Nat /\ t >= latest[l] /\ now <= t + Slack
  BY DEF AdmissionInv, AdmissionTypeOK, Strains
<1>2. x \in window[l]
  BY <1>1 DEF AdmissionInv, WindowIsWhole
<1>3. x[2] + Window + Slack <= expiry[l]
  BY DEF AdmissionInv, TimesInv
<1> QED
  BY <1>1, <1>2, <1>3 DEF Kept

(* The script of a limiter, in order or not.                                *)
LEMMA WindowStep ==
  ASSUME AdmissionInv, NEW v \in Visits, NEW l \in Limiters, SlidingWindow(v, l)
  PROVE  AdmissionInv'
<1> USE AdmissionNumbers
<1> DEFINE t == stamp[v]
           k == Kept(l, t)
           passes == Cardinality(k) < LimitOf(l)
<1>1. /\ visit[v] = Counts(l) /\ UNCHANGED <<now, listed, after>> /\ Forget(v)
      /\ latest' = [latest EXCEPT ![l] = IF t > latest[l] THEN t ELSE latest[l]]
      /\ strained' = IF Strains(l, t) THEN strained \cup {l} ELSE strained
      /\ passes => /\ window' = [window EXCEPT ![l] = k \cup {<<v, t>>}]
                   /\ expiry' = [expiry EXCEPT ![l] = now + Window + Slack]
                   /\ passed' = [passed EXCEPT ![l] = passed[l] \cup {<<v, t>>}]
      /\ ~passes => window' = [window EXCEPT ![l] = k] /\ UNCHANGED <<expiry, passed>>
  BY DEF SlidingWindow, AdmissionInv, AdmissionTypeOK
<1>2. /\ t \in Nat /\ t <= now /\ now \in Nat /\ k \subseteq window[l] /\ k \subseteq Visits \X Nat
      /\ IsFiniteSet(window[l]) /\ expiry[l] \in Nat
  BY DEF AdmissionInv, AdmissionTypeOK, Kept
<1>3. IsFiniteSet(k) /\ Cardinality(k) \in Nat
  BY <1>2, FS_Subset, FS_CardinalityType
<1>4. /\ IsFiniteSet(k \cup {<<v, t>>})
      /\ Cardinality(k \cup {<<v, t>>}) <= Cardinality(k) + 1
  BY <1>3, AddOne
<1>5. \E s \in VisitStates : VisitGoto(v, s) /\ s # "left" /\ visit[v] # "left"
  BY DEF SlidingWindow, AfterLimiter, VisitStates, Counts
<1>6. AdmissionTypeOK'
  <2>1. window' \in [Limiters -> SUBSET (Visits \X Nat)] /\ \A m \in Limiters : IsFiniteSet(window'[m])
    <3> DEFINE w == IF passes THEN k \cup {<<v, t>>} ELSE k
    <3>1. window' = [window EXCEPT ![l] = w] /\ w \in SUBSET (Visits \X Nat) /\ IsFiniteSet(w)
      BY <1>1, <1>2, <1>3, <1>4
    <3> HIDE DEF w
    <3> QED
      BY <3>1 DEF AdmissionInv, AdmissionTypeOK
  <2>2. passed' \in [Limiters -> SUBSET (Visits \X Nat)]
    BY <1>1, <1>2 DEF AdmissionInv, AdmissionTypeOK
  <2>3. expiry' \in [Limiters -> Nat] /\ latest' \in [Limiters -> Nat]
    BY <1>1, <1>2 DEF AdmissionInv, AdmissionTypeOK
  <2>4. stamp' \in [Visits -> Nat] /\ \A w \in Visits : stamp'[w] <= now
    BY <1>1, <1>2 DEF Forget, AdmissionInv, AdmissionTypeOK
  <2> QED
    <3>1. visit' \in [Visits -> VisitStates] /\ UNCHANGED <<now, listed>>
      BY <1>1, <1>5 DEF VisitGoto, AdmissionInv, AdmissionTypeOK
    <3> QED
      BY <3>1, <2>1, <2>2, <2>3, <2>4 DEF AdmissionInv, AdmissionTypeOK
<1>7. TimesInv'
  <2> SUFFICES ASSUME NEW m \in Limiters
               PROVE  /\ expiry'[m] <= now + Window + Slack
                      /\ \A x \in passed'[m] : x[2] <= now /\ x[2] + Window + Slack <= expiry'[m]
    BY <1>1 DEF TimesInv
  <2>1. /\ expiry[m] <= now + Window + Slack /\ expiry[m] \in Nat /\ expiry'[m] \in Nat
        /\ \A x \in passed[m] : x[2] \in Nat /\ x[2] <= now /\ x[2] + Window + Slack <= expiry[m]
    BY <1>6 DEF AdmissionInv, TimesInv, AdmissionTypeOK
  <2>2. \/ expiry'[m] = expiry[m] /\ passed'[m] = passed[m]
        \/ expiry'[m] = now + Window + Slack /\ passed'[m] = passed[m] \cup {<<v, t>>}
    BY <1>1 DEF AdmissionInv, AdmissionTypeOK
  <2> QED
    BY <1>2, <2>1, <2>2
<1>8. \A m \in Limiters \ {l} :
        /\ window'[m] = window[m] /\ passed'[m] = passed[m] /\ latest'[m] = latest[m]
        /\ (m \in strained' <=> m \in strained)
  BY <1>1 DEF AdmissionInv, AdmissionTypeOK
<1>9. ASSUME l \notin strained'
      PROVE  /\ l \notin strained /\ ~Strains(l, t) /\ latest'[l] = t /\ latest[l] <= t /\ latest[l] \in Nat
             /\ \A x \in passed[l] : x[2] \in Nat /\ x[2] <= t /\ (x[2] > t - Window => x \in k)
  <2>1. l \notin strained /\ ~Strains(l, t)
    BY <1>1, <1>9
  <2>2. latest[l] \in Nat /\ latest[l] <= t
    BY <2>1, <1>2 DEF Strains, AdmissionInv, AdmissionTypeOK
  <2>3. latest'[l] = t
    BY <1>1, <1>2, <2>2 DEF AdmissionInv, AdmissionTypeOK
  <2>4. \A x \in passed[l] : x[2] \in Nat /\ x[2] <= t
    BY <1>2, <2>1, <2>2 DEF AdmissionInv, AdmissionTypeOK, WindowIsWhole
  <2> QED
    BY <1>2, <2>1, <2>2, <2>3, <2>4, ScriptSeesAll
<1>10. WindowIsWhole'
  <2>1. ASSUME l \notin strained', NEW x \in passed'[l]
        PROVE  x[2] <= latest'[l] /\ (x[2] > latest'[l] - Window => x \in window'[l])
    BY <1>1, <1>2, <1>9, <2>1 DEF AdmissionInv, AdmissionTypeOK
  <2>2. ASSUME NEW m \in Limiters \ {l}, m \notin strained', NEW x \in passed'[m]
        PROVE  x[2] <= latest'[m] /\ (x[2] > latest'[m] - Window => x \in window'[m])
    BY <1>8, <2>2 DEF AdmissionInv, WindowIsWhole
  <2> QED
    BY <2>1, <2>2 DEF WindowIsWhole
<1>11. LoadIsLimited'
  <2>1. ASSUME NEW m \in Limiters \ {l}, m \notin strained', NEW e \in Int
        PROVE  Cardinality(PassedIn(m, e)') <= LimitOf(m)
    <3>1. passed'[m] = passed[m] /\ m \notin strained
      BY <1>8, <2>1
    <3>2. PassedIn(m, e)' = PassedIn(m, e)
      BY <3>1 DEF PassedIn
    <3> QED
      BY <3>1, <3>2 DEF AdmissionInv, LoadIsLimited
  <2>2. ASSUME l \notin strained', NEW e \in Int
        PROVE  Cardinality(PassedIn(l, e)') <= LimitOf(l)
    <3>1. Cardinality(PassedIn(l, e)) <= LimitOf(l)
      BY <1>9, <2>2 DEF AdmissionInv, LoadIsLimited
    <3>2. CASE PassedIn(l, e)' = PassedIn(l, e)
      BY <3>1, <3>2
    <3>3. CASE PassedIn(l, e)' # PassedIn(l, e)
      <4>1. passes /\ passed'[l] = passed[l] \cup {<<v, t>>}
        BY <1>1, <3>3 DEF PassedIn, AdmissionInv, AdmissionTypeOK
      <4>2. e - Window < t /\ t <= e
        BY <3>3, <4>1 DEF PassedIn
      <4>3. PassedIn(l, e)' \subseteq k \cup {<<v, t>>}
        BY <1>2, <1>9, <2>2, <4>1, <4>2 DEF PassedIn
      <4>4. Cardinality(PassedIn(l, e)') <= Cardinality(k \cup {<<v, t>>}) /\ Cardinality(PassedIn(l, e)') \in Nat
              /\ Cardinality(k \cup {<<v, t>>}) \in Nat
        BY <1>4, <4>3, FS_Subset, FS_CardinalityType
      <4> QED
        BY <1>3, <1>4, <4>1, <4>4
    <3> QED
      BY <3>2, <3>3
  <2> QED
    BY <2>1, <2>2 DEF LoadIsLimited
<1>12. LeftInv'
  BY <1>1, <1>5 DEF AdmissionInv, AdmissionTypeOK, LeftInv, VisitGoto, TokenIsOver
<1> QED
  BY <1>6, <1>7, <1>10, <1>11, <1>12 DEF AdmissionInv

(* Every step keeps the invariant.                                          *)
LEMMA AdmissionInductive == AdmissionInv /\ [AdmissionNext]_admissionVars => AdmissionInv'
<1>1. ASSUME AdmissionInv, Tick \/ UNCHANGED admissionVars
      PROVE  AdmissionInv'
  <2>1. now' \in Nat /\ now' >= now
    BY <1>1 DEF Tick, admissionVars, AdmissionInv, AdmissionTypeOK
  <2>2. UNCHANGED <<window, expiry, passed, latest, strained, listed, visit, stamp, after>>
    BY <1>1 DEF Tick, admissionVars, past
  <2>3. AdmissionTypeOK' /\ LeftInv'
    BY <1>1, <2>1, <2>2, AdmissionNumbers DEF AdmissionInv, AdmissionTypeOK, LeftInv, TokenIsOver
  <2> QED
    BY <1>1, <2>1, <2>2, <2>3, LimitersFrame DEF AdmissionInv
<1> QED
  BY <1>1, VisitStep, WindowStep DEF AdmissionNext

(* It holds in every behaviour.                                             *)
LEMMA AdmissionInvariant == AdmissionSpec => []AdmissionInv
  BY AdmissionInitially, AdmissionInductive, PTL DEF AdmissionSpec

(* As long as the scripts of a limiter come in the order of the times they *)
(* were given, and soon enough, it lets no more than the limit pass in any *)
(* window, of any length and for any number of requests: SlidingWindow.    *)
THEOREM LimitHoldsAlways == AdmissionSpec => []LimitHolds
<1>1. AdmissionInv => LimitHolds
  <2>1. \A t \in 0..LastTick : t \in Int
    OBVIOUS
  <2> QED
    BY <2>1 DEF AdmissionInv, LoadIsLimited, PassedIn, LimitHolds
<1> QED
  BY <1>1, AdmissionInvariant, PTL

(* Once a logout has been answered, no request that comes after it is let  *)
(* in with the token before the token is over: Logout and BlacklistToken,  *)
(* which lists the token for what remains of it.                           *)
THEOREM LogoutIsFinal == AdmissionSpec => LoggedOutStaysOut
<1> DEFINE Stays == \A v \in after \cap Bearing :
                      visit[v] = "blacklist" /\ visit'[v] \in {"served", "logout"} => now >= TokenEnds
<1>1. AdmissionInv /\ [AdmissionNext]_admissionVars => [Stays]_admissionVars
  <2> SUFFICES ASSUME AdmissionInv, AdmissionNext, NEW v \in after \cap Bearing,
                      visit[v] = "blacklist", visit'[v] \in {"served", "logout"}
               PROVE  now >= TokenEnds
    OBVIOUS
  <2>1. v \in Visits /\ TokenIsOver
    BY AdmissionAssumption DEF AdmissionAssumption, AdmissionInv, LeftInv
  <2>2. CheckTokenBlacklist(v)
    BY <2>1 DEF AdmissionInv, AdmissionTypeOK, AdmissionNext, AnomalyDetectorMiddleware, AnalyzePayload, TakeTime,
       SlidingWindow, Counts, Limiters, ValidateToken, CheckTokenBlacklist, Logout, BlacklistToken, Unavailable, Tick, VisitGoto
  <2>3. ~(now < listed)
    BY <2>1, <2>2 DEF CheckTokenBlacklist, VisitGoto, AdmissionInv, AdmissionTypeOK
  <2> QED
    BY <2>1, <2>3, AdmissionNumbers DEF TokenIsOver, AdmissionInv, AdmissionTypeOK
<1>2. AdmissionInv /\ [AdmissionNext]_admissionVars => [Stays]_admissionVars
  BY <1>1
<1> QED
  BY <1>2, AdmissionInvariant, PTL DEF AdmissionSpec, LoggedOutStaysOut

-----------------------------------------------------------------------------
(* Market                                                                   *)

(* A behaviour of the market alone.                                       *)
MarketSpec == MarketInit /\ [][MarketNext]_marketVars

SalePcs == {"idle", "check", "reserve", "insert", "ordered", "failed"}
SaleType == [pc : SalePcs, line : Nat, total : Int, taken : [Products -> Nat]]

(* The lines a reservation has passed, and what they ask of a product.     *)
Passed(b) == IF sale[b].pc = "insert" THEN Len(Cart[b]) ELSE sale[b].line - 1
AskedSoFar(b, p) == SumFunctionOnSet(Wanted(b, p), 1..Passed(b))

(* What a transaction has taken of a row it holds: all that was asked of   *)
(* it, or all that there was.                                              *)
Holds(b, p) ==
  /\ locked[p] = b \/ (AskedSoFar(b, p) = 0 /\ sale[b].taken[p] = 0)
  /\ sale[b].taken[p] <= stock[p] /\ sale[b].taken[p] <= AskedSoFar(b, p)
  /\ sale[b].taken[p] < stock[p] => sale[b].taken[p] = AskedSoFar(b, p)

SaleInv(b) ==
  /\ sale[b].line \in 1..Len(Cart[b]) /\ sale[b].total <= MaxAmount
  /\ sale[b].pc = "idle" => sale[b].line = 1
  /\ sale[b].pc = "check" => \A i \in 1..(sale[b].line - 1) : Cart[b][i].product \in offered
  /\ sale[b].pc \in {"reserve", "insert", "ordered"} => \A i \in DOMAIN Cart[b] : Cart[b][i].product \in offered
  /\ sale[b].pc \in {"reserve", "insert"} => \A p \in Products : Holds(b, p)

StockInv(p) ==
  /\ stock[p] <= InitialStock[p]
  /\ stock[p] > 0 => stock[p] + Sold(p) = InitialStock[p]
  /\ stock[p] = 0 => Sold(p) >= InitialStock[p]

MarketType ==
  /\ stock \in [Products -> Nat] /\ offered \subseteq Products
  /\ locked \in [Products -> Purchases \cup {Nobody}]
  /\ sale \in [Purchases -> SaleType]

MarketInv ==
  /\ MarketType /\ IsFiniteSet(Ordered)
  /\ \A b \in Purchases : SaleInv(b)
  /\ \A p \in Products : StockInv(p)
  /\ \A s \in browsed : s.product \in offered /\ s.left \in stock[s.product]..InitialStock[s.product]

(* The lines of a cart.                                                    *)
LEMMA CartFacts ==
  ASSUME NEW b \in Purchases
  PROVE  /\ Len(Cart[b]) \in Nat /\ Len(Cart[b]) >= 1 /\ DOMAIN Cart[b] = 1..Len(Cart[b])
         /\ \A i \in 1..Len(Cart[b]) : Cart[b][i].product \in Products /\ Cart[b][i].quantity \in Nat \ {0}
<1> DEFINE Lines == [product: Products, quantity: Nat \ {0}]
<1>1. Cart[b] \in Seq(Lines) /\ Cart[b] # <<>>
  BY MarketAssumption DEF MarketAssumption
<1>2. PICK cart : cart = Cart[b]
  OBVIOUS
<1> HIDE DEF Lines
<1>3. cart \in Seq(Lines) /\ cart # <<>>
  BY <1>1, <1>2
<1>4. Len(cart) \in Nat /\ Len(cart) >= 1 /\ DOMAIN cart = 1..Len(cart)
  BY <1>3
<1>5. \A i \in 1..Len(cart) : cart[i] \in Lines
  BY <1>3
<1> QED
  BY <1>2, <1>4, <1>5 DEF Lines

(* What is asked of a product is a number of it, and positive only if some *)
(* line names it.                                                          *)
LEMMA AskedFacts ==
  ASSUME NEW b \in Purchases, NEW p \in Products
  PROVE  /\ Asked(b, p) \in Nat
         /\ (\A i \in DOMAIN Cart[b] : Cart[b][i].product # p) => Asked(b, p) = 0
         /\ \A n \in 0..Len(Cart[b]) : SumFunctionOnSet(Wanted(b, p), 1..n) \in Nat
         /\ SumFunctionOnSet(Wanted(b, p), 1..0) = 0
         /\ \A n \in 1..Len(Cart[b]) :
              SumFunctionOnSet(Wanted(b, p), 1..n)
                = SumFunctionOnSet(Wanted(b, p), 1..(n - 1)) + Wanted(b, p)[n]
<1> DEFINE f == Wanted(b, p)
           D == 1..Len(Cart[b])
<1>1. DOMAIN Cart[b] = D /\ f \in [D -> Nat] /\ Len(Cart[b]) \in Nat
  BY CartFacts DEF Wanted
<1>2. \A n \in 0..Len(Cart[b]) : 1..n \in SUBSET D /\ IsFiniteSet(1..n)
  BY <1>1, FS_Interval
<1>3. IsFiniteSet(D)
  BY <1>1, FS_Interval
<1>4. (\A i \in D : Cart[b][i].product # p) => \A i \in D : f[i] = 0
  BY <1>1 DEF Wanted
<1>5. f \in [D -> Int] /\ Asked(b, p) = SumFunctionOnSet(f, D)
  BY <1>1 DEF Asked
<1>6. ASSUME NEW n \in 1..Len(Cart[b])
      PROVE  SumFunctionOnSet(f, 1..n) = SumFunctionOnSet(f, 1..(n - 1)) + f[n]
  <2>1. PICK S, x : S = 1..(n - 1) /\ x = n
    OBVIOUS
  <2>2. 1..n = S \cup {x}
    BY <1>1, <2>1
  <2>3. S \in SUBSET D /\ IsFiniteSet(S) /\ x \notin S /\ x \in D
    <3>1. n - 1 \in 0..Len(Cart[b])
      BY <1>1
    <3> QED
      BY <1>1, <1>2, <2>1, <3>1
  <2> HIDE DEF f, D
  <2>4. SumFunctionOnSet(f, S \cup {x}) = f[x] + SumFunctionOnSet(f, S)
    BY <1>5, <2>3, SumAdds
  <2>5. SumFunctionOnSet(f, S) \in Int /\ f[x] \in Int
    BY <1>5, <2>3, SumIsInt
  <2>6. SumFunctionOnSet(f, 1..n) = SumFunctionOnSet(f, S \cup {x})
    BY <2>2, Zenon
  <2> QED
    BY <2>1, <2>4, <2>5, <2>6
<1>7. SumFunctionOnSet(f, 1..0) = 0
  <2>1. 1..0 = {}
    OBVIOUS
  <2>2. SumFunctionOnSet(f, {}) = 0
    BY SumSteps, FS_EmptySet
  <2> QED
    BY <2>1, <2>2, Zenon
<1> HIDE DEF f, D
<1>8. ASSUME NEW n \in 0..Len(Cart[b])
      PROVE  SumFunctionOnSet(f, 1..n) \in Nat
  BY <1>1, <1>2, SumIsNat
<1>9. SumFunctionOnSet(f, D) \in Nat /\ ((\A i \in D : f[i] = 0) => SumFunctionOnSet(f, D) = 0)
  BY <1>1, <1>3, SumIsNat
<1> QED
  BY <1>1, <1>4, <1>5, <1>6, <1>7, <1>8, <1>9 DEF f

(* At first nothing is reserved or sold.                                   *)
LEMMA MarketStarts == MarketInit => MarketInv
<1> SUFFICES ASSUME MarketInit PROVE MarketInv
  OBVIOUS
<1> USE MarketAssumption DEF MarketAssumption
<1>1. MarketType
  BY DEF MarketInit, MarketType, SaleType, Fresh, SalePcs, NoneReserved
<1>2. Ordered = {}
  BY DEF MarketInit, Ordered, Fresh
<1>3. IsFiniteSet(Ordered)
  BY <1>2, FS_EmptySet
<1>4. ASSUME NEW b \in Purchases PROVE SaleInv(b)
  BY CartFacts DEF MarketInit, SaleInv, Fresh
<1>5. ASSUME NEW p \in Products PROVE StockInv(p)
  <2>1. SumFunctionOnSet([b \in Purchases |-> Asked(b, p)], {}) = 0
    BY SumSteps, FS_EmptySet
  <2>2. Sold(p) = 0
    BY <1>2, <2>1, Zenon DEF Sold
  <2> QED
    BY <2>2 DEF StockInv, MarketInit
<1> QED
  BY <1>1, <1>3, <1>4, <1>5 DEF MarketInv, MarketInit

(* A purchase that nothing happens to, while its rows stay as they are.    *)
LEMMA SaleStays ==
  ASSUME MarketType, MarketType', NEW d \in Purchases, SaleInv(d), sale'[d] = sale[d], offered \subseteq offered',
         \A p \in Products : locked[p] = d => locked'[p] = d /\ stock'[p] = stock[p]
  PROVE  SaleInv(d)'
<1>1. ASSUME NEW p \in Products, Holds(d, p) PROVE Holds(d, p)'
  <2>1. AskedSoFar(d, p)' = AskedSoFar(d, p)
    BY DEF AskedSoFar, Passed
  <2>2. stock'[p] \in Nat /\ sale[d].taken[p] \in Nat
    BY DEF MarketType, SaleType
  <2> QED
    BY <1>1, <2>1, <2>2 DEF Holds
<1> QED
  BY <1>1 DEF SaleInv

(* What is not committed leaves stock and sales as they are.               *)
LEMMA SalesStay ==
  ASSUME MarketInv, stock' = stock, offered \subseteq offered', Ordered' = Ordered
  PROVE  /\ IsFiniteSet(Ordered)' /\ \A p \in Products : StockInv(p)'
         /\ \A s \in browsed : s.product \in offered' /\ s.left \in stock'[s.product]..InitialStock[s.product]
<1>1. ASSUME NEW p \in Products PROVE StockInv(p)'
  <2>1. Sold(p)' = Sold(p)
    BY DEF Sold
  <2> QED
    BY <2>1 DEF MarketInv, StockInv
<1> QED
  BY <1>1 DEF MarketInv

(* A step of one purchase, short of its commit.                            *)
LEMMA SaleStep ==
  ASSUME MarketInv, MarketType', NEW b \in Purchases, SaleInv(b)',
         \A d \in Purchases \ {b} : sale'[d] = sale[d],
         sale[b].pc # "ordered", sale'[b].pc # "ordered",
         UNCHANGED <<stock, offered, browsed>>,
         \A d \in Purchases \ {b}, p \in Products : locked[p] = d => locked'[p] = d
  PROVE  MarketInv'
<1>1. Ordered' = Ordered
  BY DEF Ordered
<1>2. ASSUME NEW d \in Purchases PROVE SaleInv(d)'
  BY SaleStays DEF MarketInv
<1> QED
  BY <1>1, <1>2, SalesStay DEF MarketInv

(* A purchase that fails gives back what it has reserved.                  *)
LEMMA SaleFails ==
  ASSUME MarketInv, NEW b \in Purchases, sale[b].pc \in {"check", "reserve", "insert"}, Abort(b)
  PROVE  MarketInv'
<1> USE MarketAssumption DEF MarketAssumption
<1>1. MarketType /\ SaleInv(b)
  BY DEF MarketInv
<1>2. /\ sale'[b].pc = "failed" /\ sale'[b].line = sale[b].line /\ sale'[b].total = sale[b].total
      /\ sale'[b] \in SaleType /\ \A d \in Purchases \ {b} : sale'[d] = sale[d]
  <2>1. sale' = [sale EXCEPT ![b] = [sale[b] EXCEPT !.pc = "failed", !.taken = NoneReserved]]
    BY DEF Abort
  <2>2. sale[b] \in SaleType /\ NoneReserved \in [Products -> Nat]
    BY <1>1 DEF MarketType, NoneReserved
  <2> QED
    BY <1>1, <2>1, <2>2 DEF MarketType, SaleType, SalePcs
<1>3. MarketType'
  BY <1>1, <1>2 DEF MarketType, Abort, Unlocked
<1>4. SaleInv(b)'
  BY <1>1, <1>2 DEF SaleInv
<1>5. \A d \in Purchases \ {b}, p \in Products : locked[p] = d => locked'[p] = d
  BY DEF Abort, Unlocked
<1>6. UNCHANGED <<stock, offered, browsed>>
  BY DEF Abort
<1> QED
  BY <1>2, <1>3, <1>4, <1>5, <1>6, SaleStep

(* A purchase begins at its first line.                                    *)
LEMMA SaleBegins ==
  ASSUME MarketInv, NEW b \in Purchases, Start(b)
  PROVE  MarketInv'
<1>1. MarketType /\ SaleInv(b) /\ sale[b].pc = "idle"
  BY DEF MarketInv, Start
<1>2. /\ sale'[b].pc = "check" /\ sale'[b].line = sale[b].line /\ sale'[b].total = sale[b].total
      /\ sale'[b] \in SaleType /\ \A d \in Purchases \ {b} : sale'[d] = sale[d]
  BY <1>1 DEF Start, MarketType, SaleType, SalePcs
<1>3. MarketType'
  BY <1>1, <1>2 DEF MarketType, Start
<1>4. SaleInv(b)'
  BY <1>1, <1>2, CartFacts DEF SaleInv
<1>5. UNCHANGED <<stock, offered, browsed, locked>>
  BY DEF Start
<1> QED
  BY <1>1, <1>2, <1>3, <1>4, <1>5, SaleStep

(* To the next line, or from the last one on.                              *)
LEMMA AdvanceFacts ==
  ASSUME MarketType, NEW b \in Purchases, SaleInv(b), ~Overflows(b),
         NEW to \in {"reserve", "insert"}, NEW taken \in [Products -> Nat], Advance(b, to, taken)
  PROVE  /\ sale'[b] \in SaleType /\ sale'[b].taken = taken /\ sale'[b].total <= MaxAmount
         /\ \A d \in Purchases \ {b} : sale'[d] = sale[d]
         /\ sale'[b].line \in 1..Len(Cart[b])
         /\ LastLine(b) => sale'[b].pc = to /\ sale'[b].line = 1
         /\ ~LastLine(b) => sale'[b].pc = sale[b].pc /\ sale'[b].line = sale[b].line + 1
<1>1. sale[b] \in SaleType /\ sale[b].line \in 1..Len(Cart[b]) /\ Line(b).product \in Products
      /\ Line(b).quantity \in Nat
  BY CartFacts DEF MarketType, SaleInv, Line
<1>2. PICK x : x = LineTotal(b)
  OBVIOUS
<1>3. x \in Int
  BY <1>1, <1>2, MarketAssumption DEF LineTotal, MarketAssumption
<1>4. sale[b].total + x \in Int /\ sale[b].total + x <= MaxAmount /\ 0 <= MaxAmount
  <2>1. ~ (sale[b].total > MaxAmount - x)
    BY <1>2 DEF Overflows
  <2>2. sale[b].total \in Int /\ MaxAmount \in Nat
    BY <1>1, MarketAssumption DEF SaleType, MarketAssumption
  <2> QED
    BY <1>3, <2>1, <2>2
<1> DEFINE next == IF LastLine(b)
                   THEN [pc |-> to, line |-> 1, total |-> IF to = "reserve" THEN 0 ELSE sale[b].total + x,
                         taken |-> taken]
                   ELSE [sale[b] EXCEPT !.line = sale[b].line + 1, !.total = sale[b].total + x, !.taken = taken]
<1>5. sale' = [sale EXCEPT ![b] = next]
  <2>1. sale' = [sale EXCEPT ![b] =
                   IF LastLine(b)
                   THEN [pc |-> to, line |-> 1, total |-> IF to = "reserve" THEN 0 ELSE sale[b].total + LineTotal(b),
                         taken |-> taken]
                   ELSE [sale[b] EXCEPT !.line = sale[b].line + 1, !.total = sale[b].total + LineTotal(b),
                                        !.taken = taken]]
    BY DEF Advance
  <2> QED
    BY <1>2, <2>1, Zenon
<1>6. sale'[b] = next /\ \A d \in Purchases \ {b} : sale'[d] = sale[d]
  <2> HIDE DEF next
  <2> QED
    BY <1>5 DEF MarketType
<1>7. CASE LastLine(b)
  <2>1. next = [pc |-> to, line |-> 1, total |-> IF to = "reserve" THEN 0 ELSE sale[b].total + x, taken |-> taken]
    BY <1>7
  <2>2. 1 \in 1..Len(Cart[b])
    BY CartFacts
  <2> QED
    BY <1>4, <1>6, <1>7, <2>1, <2>2 DEF SaleType, SalePcs
<1>8. CASE ~LastLine(b)
  <2>1. next = [sale[b] EXCEPT !.line = sale[b].line + 1, !.total = sale[b].total + x, !.taken = taken]
    BY <1>8
  <2>2. sale[b].line + 1 \in 1..Len(Cart[b]) /\ sale[b].line + 1 \in Nat
    BY <1>1, <1>8, CartFacts DEF LastLine
  <2> HIDE DEF next
  <2> QED
    BY <1>1, <1>4, <1>6, <1>8, <2>1, <2>2 DEF SaleType
<1> QED
  BY <1>7, <1>8

(* A line that passes the checks of the service was posted.                *)
LEMMA SaleIsChecked ==
  ASSUME MarketInv, NEW b \in Purchases, Check(b)
  PROVE  MarketInv'
<1> USE MarketAssumption DEF MarketAssumption
<1>1. CASE Lacks(b) \/ Overflows(b)
  BY <1>1, SaleFails DEF Check
<1>2. CASE ~ (Lacks(b) \/ Overflows(b))
  <2>1. /\ MarketType /\ SaleInv(b) /\ sale[b].pc = "check" /\ Line(b).product \in offered
        /\ Advance(b, "reserve", NoneReserved) /\ UNCHANGED <<stock, offered, browsed, locked>>
    BY <1>2 DEF MarketInv, Check, Lacks
  <2>2. NoneReserved \in [Products -> Nat] /\ \A p \in Products : NoneReserved[p] = 0
    BY DEF NoneReserved
  <2>3. /\ sale'[b] \in SaleType /\ sale'[b].taken = NoneReserved /\ sale'[b].total <= MaxAmount
        /\ \A d \in Purchases \ {b} : sale'[d] = sale[d]
        /\ sale'[b].line \in 1..Len(Cart[b])
        /\ LastLine(b) => sale'[b].pc = "reserve" /\ sale'[b].line = 1
        /\ ~LastLine(b) => sale'[b].pc = sale[b].pc /\ sale'[b].line = sale[b].line + 1
    BY <1>2, <2>1, <2>2, AdvanceFacts
  <2>4. MarketType'
    <3>1. sale' \in [Purchases -> SaleType]
      <4>1. DOMAIN sale' = Purchases /\ sale' = [d \in Purchases |-> sale'[d]]
        BY <2>1 DEF Advance, MarketType
      <4>2. \A d \in Purchases : sale'[d] \in SaleType
        BY <2>1, <2>3 DEF MarketType
      <4> QED
        BY <4>1, <4>2
    <3> QED
      BY <2>1, <3>1 DEF MarketType
  <2>5. \A i \in 1..sale[b].line : Cart[b][i].product \in offered
    <3>1. \A i \in 1..(sale[b].line - 1) : Cart[b][i].product \in offered
      BY <2>1 DEF SaleInv
    <3>2. Cart[b][sale[b].line].product \in offered
      BY <2>1 DEF Line
    <3>3. sale[b].line \in Nat
      BY <2>1, CartFacts DEF SaleInv
    <3>4. \A n \in Nat : \A i \in 1..n : i \in 1..(n - 1) \/ i = n
      OBVIOUS
    <3> QED
      BY <3>1, <3>2, <3>3, <3>4
  <2>6. CASE LastLine(b)
    <3>1. \A i \in DOMAIN Cart[b] : Cart[b][i].product \in offered
      BY <2>5, <2>6, CartFacts DEF LastLine
    <3>2. ASSUME NEW p \in Products PROVE Holds(b, p)'
      <4>1. Passed(b)' = 0
        BY <2>3, <2>6 DEF Passed
      <4>2. AskedSoFar(b, p)' = 0
        BY <4>1, AskedFacts DEF AskedSoFar
      <4>3. sale'[b].taken[p] = 0 /\ stock'[p] \in Nat
        BY <2>1, <2>2, <2>3 DEF MarketType
      <4> QED
        BY <4>2, <4>3 DEF Holds
    <3>3. SaleInv(b)'
      BY <2>1, <2>3, <2>6, <3>1, <3>2 DEF SaleInv
    <3> QED
      BY <2>1, <2>3, <2>4, <2>6, <3>3, SaleStep
  <2>7. CASE ~LastLine(b)
    <3>1. sale'[b].pc = "check" /\ sale'[b].line - 1 = sale[b].line /\ offered' = offered
      <4>1. sale[b].line \in Nat
        BY <2>1, CartFacts DEF SaleInv
      <4>2. sale'[b].pc = "check" /\ sale'[b].line = sale[b].line + 1
        BY <2>1, <2>3, <2>7
      <4> QED
        BY <2>1, <4>1, <4>2
    <3>2. \A i \in 1..(sale'[b].line - 1) : Cart[b][i].product \in offered'
      BY <2>5, <3>1
    <3>3. SaleInv(b)'
      BY <2>3, <3>1, <3>2 DEF SaleInv
    <3> QED
      BY <2>1, <2>3, <2>4, <3>1, <3>3, SaleStep
  <2> QED
    BY <2>6, <2>7
<1> QED
  BY <1>1, <1>2

(* The UPDATE takes the quantity of its line under the lock of the row, or *)
(* nothing of a row that is down to 0.                                     *)
LEMMA SaleReserves ==
  ASSUME MarketInv, NEW b \in Purchases, Reserve(b)
  PROVE  MarketInv'
<1> USE MarketAssumption DEF MarketAssumption
<1> DEFINE p == Line(b).product
           k == Line(b).quantity
           has == Visible(b, p)
           taken == [sale[b].taken EXCEPT ![p] = IF has = 0 THEN @ ELSE @ + k]
<1>1. CASE ~Suffices(has, k) \/ Overflows(b)
  BY <1>1, SaleFails DEF Reserve
<1>2. CASE Suffices(has, k) /\ ~Overflows(b)
  <2>1. /\ MarketType /\ SaleInv(b) /\ sale[b].pc = "reserve" /\ Unheld(b, p)
        /\ locked' = [locked EXCEPT ![p] = b]
        /\ Advance(b, "insert", taken) /\ UNCHANGED <<stock, offered, browsed>>
    BY <1>2 DEF MarketInv, Reserve
  <2>2. /\ sale[b].line \in 1..Len(Cart[b]) /\ p \in Products /\ k \in Nat \ {0}
        /\ sale[b].taken \in [Products -> Nat] /\ stock[p] \in Nat
        /\ \A q \in Products : Holds(b, q)
    BY <2>1, CartFacts DEF SaleInv, Line, MarketType, SaleType
  <2>3. /\ taken \in [Products -> Nat]
        /\ taken[p] = IF has = 0 THEN sale[b].taken[p] ELSE sale[b].taken[p] + k
        /\ \A q \in Products \ {p} : taken[q] = sale[b].taken[q]
    <3>1. PICK t : t = sale[b].taken
      OBVIOUS
    <3>2. PICK n : n = IF has = 0 THEN t[p] ELSE t[p] + k
      OBVIOUS
    <3>3. t \in [Products -> Nat] /\ p \in Products /\ k \in Nat
      BY <2>2, <3>1
    <3>4. taken = [t EXCEPT ![p] = n]
      BY <3>1, <3>2
    <3> HIDE DEF taken, has, p, k
    <3>5. n \in Nat
      BY <3>2, <3>3
    <3> QED
      BY <3>1, <3>2, <3>3, <3>4, <3>5
  <2>4. has = stock[p] - sale[b].taken[p] /\ (has = 0 \/ has >= k)
    BY <1>2 DEF Visible, Suffices
  <2> HIDE DEF taken, has
  <2>5. /\ sale'[b] \in SaleType /\ sale'[b].taken = taken /\ sale'[b].total <= MaxAmount
        /\ \A d \in Purchases \ {b} : sale'[d] = sale[d]
        /\ sale'[b].line \in 1..Len(Cart[b])
        /\ LastLine(b) => sale'[b].pc = "insert" /\ sale'[b].line = 1
        /\ ~LastLine(b) => sale'[b].pc = sale[b].pc /\ sale'[b].line = sale[b].line + 1
    BY <1>2, <2>1, <2>3, AdvanceFacts
  <2>6. MarketType'
    <3>1. sale' \in [Purchases -> SaleType]
      <4>1. DOMAIN sale' = Purchases /\ sale' = [d \in Purchases |-> sale'[d]]
        BY <2>1 DEF Advance, MarketType
      <4>2. \A d \in Purchases : sale'[d] \in SaleType
        BY <2>1, <2>5 DEF MarketType
      <4> QED
        BY <4>1, <4>2
    <3> QED
      BY <2>1, <3>1 DEF MarketType
  <2>7. Passed(b)' = sale[b].line /\ Passed(b) = sale[b].line - 1
    <3>1. sale[b].line \in Nat /\ Passed(b) = sale[b].line - 1
      <4>1. sale[b].line \in Nat
        BY <2>1 DEF MarketType, SaleType
      <4>2. sale[b].pc = "reserve"
        BY <2>1
      <4> QED
        BY <4>1, <4>2 DEF Passed
    <3>2. CASE LastLine(b)
      <4>1. sale'[b].pc = "insert" /\ sale[b].line = Len(Cart[b])
        BY <2>5, <3>2 DEF LastLine
      <4> QED
        BY <3>1, <4>1 DEF Passed
    <3>3. CASE ~LastLine(b)
      <4>1. sale'[b].pc = "reserve" /\ sale'[b].line = sale[b].line + 1
        BY <2>1, <2>5, <3>3
      <4>2. Passed(b)' = sale'[b].line - 1
        BY <4>1 DEF Passed
      <4> QED
        BY <3>1, <4>1, <4>2
    <3> QED
      BY <3>2, <3>3
  <2>8. ASSUME NEW q \in Products PROVE Holds(b, q)'
    <3>1. PICK n : n = sale[b].line
      OBVIOUS
    <3>2. /\ AskedSoFar(b, q)' = SumFunctionOnSet(Wanted(b, q), 1..n)
          /\ AskedSoFar(b, q) = SumFunctionOnSet(Wanted(b, q), 1..(n - 1))
      BY <2>7, <3>1 DEF AskedSoFar
    <3>3. n \in 1..Len(Cart[b]) /\ n - 1 \in 0..Len(Cart[b])
      <4>1. sale[b].line \in 1..Len(Cart[b]) /\ Len(Cart[b]) \in Nat
        BY <2>2, CartFacts
      <4>2. n \in 1..Len(Cart[b])
        BY <3>1, <4>1
      <4>3. \A m \in Nat : \A i \in 1..m : i - 1 \in 0..m
        OBVIOUS
      <4> QED
        BY <4>1, <4>2, <4>3
    <3>4. AskedSoFar(b, q)' = AskedSoFar(b, q) + Wanted(b, q)[n] /\ AskedSoFar(b, q) \in Nat
      <4>1. SumFunctionOnSet(Wanted(b, q), 1..n) = SumFunctionOnSet(Wanted(b, q), 1..(n - 1)) + Wanted(b, q)[n]
        BY <3>3, AskedFacts
      <4>2. SumFunctionOnSet(Wanted(b, q), 1..(n - 1)) \in Nat
        BY <3>3, AskedFacts
      <4> QED
        BY <3>2, <4>1, <4>2
    <3>5. Wanted(b, q)[n] = IF q = p THEN k ELSE 0
      BY <3>1, <3>3, CartFacts DEF Wanted, Line
    <3>6. Holds(b, q) /\ stock'[q] = stock[q] /\ stock[q] \in Nat /\ sale[b].taken[q] \in Nat
      BY <2>1, <2>2 DEF MarketType
    <3> HIDE DEF p, k
    <3>7. CASE q = p
      <4>1. locked'[q] = b
        BY <2>1, <2>2, <3>7 DEF MarketType
      <4>2. sale'[b].taken[q] = IF has = 0 THEN sale[b].taken[q] ELSE sale[b].taken[q] + k
        BY <2>3, <2>5, <3>7
      <4>3. AskedSoFar(b, q)' = AskedSoFar(b, q) + k
        BY <3>4, <3>5, <3>7
      <4>4. k \in Nat /\ has = stock[q] - sale[b].taken[q] /\ (has = 0 \/ has >= k)
        BY <2>2, <2>4, <3>7
      <4>5. /\ sale[b].taken[q] <= stock[q] /\ sale[b].taken[q] <= AskedSoFar(b, q)
            /\ sale[b].taken[q] < stock[q] => sale[b].taken[q] = AskedSoFar(b, q)
        BY <3>6 DEF Holds
      <4>6. /\ sale'[b].taken[q] <= stock[q] /\ sale'[b].taken[q] <= AskedSoFar(b, q)'
            /\ sale'[b].taken[q] < stock[q] => sale'[b].taken[q] = AskedSoFar(b, q)'
        <5>1. PICK st, tk, tk2, ask, ask2 : /\ st = stock[q] /\ tk = sale[b].taken[q] /\ tk2 = sale'[b].taken[q]
                                           /\ ask = AskedSoFar(b, q) /\ ask2 = AskedSoFar(b, q)'
          OBVIOUS
        <5>2. st \in Nat /\ tk \in Nat /\ ask \in Nat /\ k \in Nat /\ ask2 = ask + k
          BY <3>4, <3>6, <4>3, <4>4, <5>1
        <5>3. has = st - tk /\ (has = 0 \/ has >= k) /\ tk2 = IF has = 0 THEN tk ELSE tk + k
          BY <4>2, <4>4, <5>1
        <5>4. tk <= st /\ tk <= ask /\ (tk < st => tk = ask)
          BY <4>5, <5>1
        <5>5. tk2 <= st /\ tk2 <= ask2 /\ (tk2 < st => tk2 = ask2)
          BY <5>2, <5>3, <5>4
        <5> QED
          BY <5>1, <5>5
      <4> QED
        <5>1. stock'[q] = stock[q]
          BY <3>6
        <5> HIDE MarketAssumption
        <5> QED
          BY <4>1, <4>6, <5>1 DEF Holds
    <3>8. CASE q # p
      <4>1. AskedSoFar(b, q)' = AskedSoFar(b, q)
        BY <3>4, <3>5, <3>8
      <4>2. sale'[b].taken[q] = sale[b].taken[q] /\ locked'[q] = locked[q]
        BY <2>1, <2>3, <2>5, <3>8 DEF MarketType
      <4> QED
        BY <3>6, <4>1, <4>2 DEF Holds
    <3> QED
      BY <3>7, <3>8
  <2>9. SaleInv(b)'
    <3>1. sale'[b].pc \in {"reserve", "insert"} /\ offered' = offered
      BY <2>1, <2>5
    <3>2. \A i \in DOMAIN Cart[b] : Cart[b][i].product \in offered
      BY <2>1 DEF SaleInv
    <3> QED
      BY <2>5, <2>8, <3>1, <3>2 DEF SaleInv
  <2>10. \A d \in Purchases \ {b}, q \in Products : locked[q] = d => locked'[q] = d
    BY <2>1 DEF Unheld, MarketType
  <2>11. sale[b].pc # "ordered" /\ sale'[b].pc # "ordered"
    BY <2>1, <2>5
  <2> QED
    BY <2>1, <2>5, <2>6, <2>9, <2>10, <2>11, SaleStep
<1> QED
  BY <1>1, <1>2

(* A commit takes from the stocks what it has reserved, and makes one more *)
(* order.                                                                  *)
LEMMA SaleCommits ==
  ASSUME MarketInv, NEW b \in Purchases, Commit(b)
  PROVE  MarketInv'
<1> USE MarketAssumption DEF MarketAssumption
<1>1. /\ MarketType /\ SaleInv(b) /\ sale[b].pc = "insert" /\ IsFiniteSet(Ordered)
      /\ offered' = offered /\ browsed' = browsed
  BY DEF MarketInv, Commit
<1>2. /\ sale[b] \in SaleType /\ sale'[b] = [sale[b] EXCEPT !.pc = "ordered"]
      /\ \A d \in Purchases \ {b} : sale'[d] = sale[d]
  BY <1>1 DEF Commit, MarketType
<1>3. /\ sale'[b] \in SaleType /\ sale'[b].pc = "ordered" /\ sale'[b].line = sale[b].line
      /\ sale'[b].total = sale[b].total
  BY <1>2 DEF SaleType, SalePcs
<1>4. ASSUME NEW p \in Products
      PROVE  /\ stock[p] \in Nat /\ stock'[p] \in Nat /\ stock'[p] = stock[p] - sale[b].taken[p]
             /\ sale[b].taken[p] \in Nat /\ Asked(b, p) \in Nat
             /\ sale[b].taken[p] <= Asked(b, p)
             /\ sale[b].taken[p] < stock[p] => sale[b].taken[p] = Asked(b, p)
             /\ locked[p] # b => stock'[p] = stock[p]
  <2>1. stock[p] \in Nat /\ stock'[p] = stock[p] - sale[b].taken[p] /\ sale[b].taken[p] \in Nat /\ Holds(b, p)
    BY <1>1, <1>2 DEF Commit, MarketType, SaleType, SaleInv
  <2>2. AskedSoFar(b, p) = Asked(b, p)
    BY <1>1, CartFacts DEF AskedSoFar, Asked, Passed
  <2>3. Asked(b, p) \in Nat
    BY AskedFacts
  <2>4. /\ sale[b].taken[p] <= stock[p] /\ sale[b].taken[p] <= Asked(b, p)
        /\ sale[b].taken[p] < stock[p] => sale[b].taken[p] = Asked(b, p)
    BY <2>1, <2>2 DEF Holds
  <2>5. locked[p] # b => sale[b].taken[p] = 0
    BY <2>1 DEF Holds
  <2>6. \A n, m \in Nat : m <= n => n - m \in Nat
    OBVIOUS
  <2>7. \A n \in Nat : n - 0 = n
    OBVIOUS
  <2> QED
    BY <2>1, <2>3, <2>4, <2>5, <2>6, <2>7
<1>5. MarketType'
  <2>1. stock' \in [Products -> Nat]
    <3>1. stock' = [p \in Products |-> stock[p] - sale[b].taken[p]]
      BY DEF Commit
    <3> QED
      BY <1>4, <3>1
  <2> QED
    BY <1>1, <1>3, <2>1 DEF MarketType, Commit, Unlocked
<1>6. ASSUME NEW d \in Purchases PROVE SaleInv(d)'
  <2>1. CASE d = b
    BY <1>1, <1>3, <2>1 DEF SaleInv
  <2>2. CASE d # b
    <3>1. \A p \in Products : locked[p] = d => locked'[p] = d /\ stock'[p] = stock[p]
      BY <1>4, <2>2 DEF Commit, Unlocked
    <3> QED
      BY <1>1, <1>2, <1>5, <2>2, <3>1, SaleStays DEF MarketInv
  <2> QED
    BY <2>1, <2>2
<1>7. Ordered' = Ordered \cup {b} /\ b \notin Ordered /\ Ordered \in SUBSET Purchases
  <2>1. b \notin Ordered /\ sale'[b].pc = "ordered"
    BY <1>1, <1>3 DEF Ordered
  <2>2. \A d \in Purchases \ {b} : (d \in Ordered)' <=> d \in Ordered
    BY <1>2 DEF Ordered
  <2> QED
    BY <2>1, <2>2 DEF Ordered
<1>8. IsFiniteSet(Ordered')
  BY <1>1, <1>7, FS_AddElement
<1>9. ASSUME NEW p \in Products PROVE StockInv(p)'
  <2> DEFINE f == [d \in Purchases |-> Asked(d, p)]
  <2>1. f \in [Purchases -> Nat] /\ f[b] = Asked(b, p) /\ f \in [Purchases -> Int]
    BY AskedFacts
  <2>2. Sold(p)' = SumFunctionOnSet(f, Ordered') /\ Sold(p) = SumFunctionOnSet(f, Ordered)
    BY DEF Sold
  <2> HIDE DEF f
  <2>3. SumFunctionOnSet(f, Ordered \cup {b}) = f[b] + SumFunctionOnSet(f, Ordered)
    <3>1. IsFiniteSet(Ordered) /\ Ordered \in SUBSET Purchases /\ b \notin Ordered
      BY <1>1, <1>7
    <3>2. PICK S : S = Ordered
      OBVIOUS
    <3>3. IsFiniteSet(S) /\ S \in SUBSET Purchases /\ b \notin S
      BY <3>1, <3>2
    <3>4. f \in [Purchases -> Int]
      BY <2>1
    <3> HIDE MarketAssumption
    <3>5. SumFunctionOnSet(f, S \cup {b}) = f[b] + SumFunctionOnSet(f, S)
      BY <3>3, <3>4, SumAdds
    <3> QED
      BY <3>2, <3>5, Zenon
  <2>4. SumFunctionOnSet(f, Ordered) \in Nat
    BY <1>1, <1>7, <2>1, SumIsNat
  <2>5. SumFunctionOnSet(f, Ordered') = SumFunctionOnSet(f, Ordered \cup {b})
    BY <1>7, Zenon
  <2>6. Sold(p)' = Sold(p) + Asked(b, p) /\ Sold(p) \in Nat
    BY <1>4, <2>1, <2>2, <2>3, <2>4, <2>5
  <2>7. StockInv(p) /\ InitialStock[p] \in Nat
    BY DEF MarketInv
  <2> QED
    <3>1. PICK st, tk, sold, ask, init : /\ st = stock[p] /\ tk = sale[b].taken[p] /\ sold = Sold(p)
                                         /\ ask = Asked(b, p) /\ init = InitialStock[p]
      OBVIOUS
    <3>2. /\ st \in Nat /\ tk \in Nat /\ sold \in Nat /\ ask \in Nat /\ st - tk \in Nat /\ init \in Nat
          /\ tk <= ask /\ (tk < st => tk = ask)
          /\ stock'[p] = st - tk /\ Sold(p)' = sold + ask
      BY <1>4, <2>6, <2>7, <3>1
    <3>3. /\ st <= init /\ (st > 0 => st + sold = init)
          /\ (st = 0 => sold >= init)
      BY <2>7, <3>1 DEF StockInv
    <3> HIDE MarketAssumption
    <3>4. /\ st - tk <= init /\ (st - tk > 0 => st - tk + (sold + ask) = init)
          /\ (st - tk = 0 => sold + ask >= init)
      BY <3>2, <3>3
    <3> QED
      BY <3>1, <3>2, <3>4 DEF StockInv
<1>10. ASSUME NEW s \in browsed
      PROVE  s.product \in offered /\ s.left \in stock'[s.product]..InitialStock[s.product]
  <2>1. s.product \in offered /\ s.left \in stock[s.product]..InitialStock[s.product] /\ offered \subseteq Products
    BY <1>1 DEF MarketInv, MarketType
  <2>2. s.product \in Products /\ InitialStock[s.product] \in Nat
    BY <2>1
  <2> HIDE MarketAssumption
  <2>3. stock'[s.product] <= stock[s.product] /\ stock[s.product] \in Nat /\ stock'[s.product] \in Nat
    <3>1. PICK q : q = s.product
      OBVIOUS
    <3>2. stock[q] \in Nat /\ stock'[q] \in Nat /\ stock'[q] = stock[q] - sale[b].taken[q] /\ sale[b].taken[q] \in Nat
      <4>1. q \in Products
        BY <2>2, <3>1
      <4> QED
        BY <1>4, <4>1
    <3>3. stock'[q] <= stock[q]
      BY <3>2
    <3> QED
      BY <3>1, <3>2, <3>3
  <2> QED
    BY <2>1, <2>2, <2>3
<1> QED
  BY <1>1, <1>5, <1>6, <1>8, <1>9, <1>10 DEF MarketInv

(* One step of any kind.                                                   *)
LEMMA MarketSteps == MarketInv /\ [MarketNext]_marketVars => MarketInv'
<1> SUFFICES ASSUME MarketInv, [MarketNext]_marketVars PROVE MarketInv'
  OBVIOUS
<1> USE MarketAssumption DEF MarketAssumption
<1>1. MarketType /\ \A p \in Products : StockInv(p)
  BY DEF MarketInv
<1>2. ASSUME UNCHANGED <<stock, locked, sale>>, offered \subseteq offered', offered' \subseteq Products,
             \A s \in browsed' \ browsed : s.product \in offered /\ s.left = stock[s.product]
      PROVE  MarketInv'
  <2>1. MarketType' /\ Ordered' = Ordered
    BY <1>1, <1>2 DEF MarketType, Ordered
  <2>2. \A d \in Purchases : SaleInv(d)'
    BY <1>1, <1>2, <2>1, SaleStays DEF MarketInv
  <2>3. ASSUME NEW s \in browsed' \ browsed
        PROVE  s.product \in offered' /\ s.left \in stock'[s.product]..InitialStock[s.product]
    <3>1. s.product \in Products /\ s.left = stock[s.product] /\ stock[s.product] \in Nat
      BY <1>1, <1>2, <2>3 DEF MarketType
    <3>2. stock[s.product] <= InitialStock[s.product] /\ InitialStock[s.product] \in Nat
      BY <1>1, <3>1 DEF StockInv
    <3> QED
      BY <1>2, <2>3, <3>1, <3>2
  <2> QED
    BY <1>2, <2>1, <2>2, <2>3, SalesStay DEF MarketInv
<1>3. ASSUME NEW b \in Purchases, Start(b) \/ Serve(b) \/ Fail(b) PROVE MarketInv'
  <2>1. CASE Start(b)
    BY <2>1, SaleBegins
  <2>2. CASE Check(b)
    BY <2>2, SaleIsChecked
  <2>3. CASE Reserve(b)
    BY <2>3, SaleReserves
  <2>4. CASE Commit(b)
    BY <2>4, SaleCommits
  <2>5. CASE BreakDeadlock(b) \/ Fail(b)
    BY <2>5, SaleFails, Zenon DEF BreakDeadlock, Fail
  <2> QED
    BY <1>3, <2>1, <2>2, <2>3, <2>4, <2>5 DEF Serve
<1>4. ASSUME NEW p \in Products, PostProduct(p) PROVE MarketInv'
  BY <1>1, <1>2, <1>4 DEF PostProduct, CreateProduct, MarketType
<1>5. ASSUME SearchProducts PROVE MarketInv'
  <2>1. UNCHANGED <<stock, locked, sale>> /\ offered' = offered /\ offered \subseteq Products
    BY <1>1, <1>5 DEF SearchProducts, MarketType
  <2>2. \A s \in browsed' : s.product \in offered /\ s.left = stock[s.product]
    BY <1>5 DEF SearchProducts, ListProducts
  <2> QED
    BY <1>2, <2>1, <2>2
<1>6. CASE UNCHANGED marketVars
  BY <1>1, <1>2, <1>6 DEF marketVars, MarketType
<1> QED
  BY <1>3, <1>4, <1>5, <1>6 DEF MarketNext, Over

(* What the invariant says of orders and stock.                            *)
LEMMA StockFollows == MarketInv => StockIsSold
<1> SUFFICES ASSUME MarketInv PROVE StockIsSold
  OBVIOUS
<1>1. \A b \in Ordered : b \in Purchases /\ sale[b].pc = "ordered" /\ SaleInv(b)
  BY DEF MarketInv, Ordered
<1>2. \A b \in Ordered : sale[b].total <= MaxAmount
  BY <1>1 DEF SaleInv
<1>3. ASSUME NEW p \in Products, p \notin offered PROVE ~ (Sold(p) > 0)
  <2> DEFINE f == [d \in Purchases |-> Asked(d, p)]
  <2>1. f \in [Purchases -> Nat] /\ Sold(p) = SumFunctionOnSet(f, Ordered)
    BY AskedFacts DEF Sold
  <2>2. ASSUME NEW b \in Ordered PROVE f[b] = 0
    <3>1. b \in Purchases /\ \A i \in DOMAIN Cart[b] : Cart[b][i].product # p
      BY <1>1, <1>3 DEF SaleInv
    <3> QED
      BY <3>1, AskedFacts
  <2> HIDE DEF f
  <2>3. SumFunctionOnSet(f, Ordered) = 0
    <3>1. Ordered \in SUBSET Purchases /\ IsFiniteSet(Ordered)
      BY DEF Ordered, MarketInv
    <3> QED
      BY <2>1, <2>2, <3>1, SumIsNat
  <2> QED
    BY <2>1, <2>3
<1>4. \A p \in Products : StockInv(p) /\ stock[p] \in Nat
  BY DEF MarketInv, MarketType
<1> QED
  BY <1>2, <1>3, <1>4 DEF StockIsSold, StockInv, MarketInv

(* Whatever is gone from a stock was sold, and all of it, however many     *)
(* purchases, lines and products there are and in whatever order they lock *)
(* the rows: no sale is lost between the check and the commit, and none    *)
(* commits a line the stock did not cover, save where 0 means no limit:    *)
(* Purchase and CreateOrder.                                               *)
THEOREM StockIsSoldAlways == MarketSpec => []StockIsSold
BY MarketStarts, MarketSteps, StockFollows, PTL DEF MarketSpec

-----------------------------------------------------------------------------
(* Personal                                                                 *)

(* A behaviour of the four modules alone.                                  *)
PersonalSpec == PersonalInit /\ [][PersonalNext]_personalVars

Audited(c) == <<"vault.access.audited", c>> \in sent
SentFor(c) == {e \in sent : e[2] = c}
TipEvents(c) == {<<"lumia.xp.award_requested", c>>, <<"lumia.signal.tipped", c>>}
Receivers == {Errand[c].arg : c \in Errands}
NoteRows == [id: Errands, receiver: Receivers, read: BOOLEAN, created: Nat]

(* What a call has done by the point it has come to.                       *)
ErrandInv(c) ==
  /\ at[c] = "audit" => Errand[c].op \in {"store", "items"}
  /\ Errand[c].op = "store" =>
       (at[c] \in {"write", "done"} => Audited(c)) /\ (at[c] = "done" => c \in Ids(items))
  /\ Errand[c].op = "items" => (at[c] = "read" \/ shown[c] # {} => Audited(c))
  /\ Errand[c].op = "tip" =>
       /\ at[c] \in {"idle", "write", "tell"} => SentFor(c) = {}
       /\ at[c] \in {"tell", "done"} => Drop(c) \in drops
       /\ at[c] = "done" => SentFor(c) = TipEvents(c)
  /\ Errand[c].op = "notify" /\ at[c] = "done" => c \in Ids(notes) \cup cleared

(* A reader has seen what was due, or it is on a page still to come.       *)
ReaderInv(c) ==
  /\ cursor[c] \in Nat /\ (at[c] = "idle" => cursor[c] = 0)
  /\ \A i \in due[c] : i \in Errands /\ Errand[i].arg = By(c) /\ at[i] # "idle"
  /\ at[c] = "turn" => \A r \in NotesOf(By(c)) :
       r.id \in due[c] => r.id \in shown[c] \/ Place(r, NotesOf(By(c))) > cursor[c] * PageSize
  /\ at[c] = "done" => due[c] \cap Ids(notes) \subseteq shown[c]

PersonalTypes ==
  /\ DOMAIN at = Errands /\ IsFiniteSet(Begun)
  /\ cursor \in [Errands -> Nat] /\ DOMAIN shown = Errands /\ DOMAIN due = Errands
  /\ DOMAIN history = Users
  /\ notes \subseteq NoteRows /\ IsFiniteSet(notes)

RowsInv ==
  /\ \A r \in items : r.id \in Errands /\ Errand[r.id].op = "store" /\ r.user = By(r.id) /\ Audited(r.id)
  /\ \A r \in notes :
       r.id \in Errands /\ Errand[r.id].op = "notify" /\ r.receiver = Errand[r.id].arg /\ at[r.id] # "idle"

PersonalInv ==
  /\ PersonalTypes /\ RowsInv /\ RowsAreOnesOwn
  /\ \A c \in Errands : ErrandInv(c) /\ (Errand[c].op = "activity" => ReaderInv(c))

(* At first nobody has asked for anything.                                 *)
LEMMA PersonalStarts == PersonalInit => PersonalInv
<1> SUFFICES ASSUME PersonalInit PROVE PersonalInv
  OBVIOUS
<1>1. PersonalTypes
  <2>1. Begun = {} /\ notes = {} /\ IsFiniteSet({})
    BY FS_EmptySet DEF PersonalInit, Begun
  <2> QED
    BY <2>1 DEF PersonalInit, PersonalTypes
<1>2. RowsInv /\ RowsAreOnesOwn
  BY DEF PersonalInit, RowsInv, RowsAreOnesOwn
<1>3. ASSUME NEW c \in Errands PROVE ErrandInv(c) /\ ReaderInv(c)
  BY DEF PersonalInit, ErrandInv, ReaderInv, SentFor, Ids
<1> QED
  BY <1>1, <1>2, <1>3 DEF PersonalInv

(* A call of which nothing changes, while all that was kept stays.         *)
LEMMA ErrandFrame ==
  ASSUME NEW d \in Errands, ErrandInv(d), at'[d] = at[d], shown'[d] = shown[d], sent \subseteq sent',
         SentFor(d)' = SentFor(d), items \subseteq items', drops \subseteq drops',
         Ids(notes) \cup cleared \subseteq Ids(notes)' \cup cleared'
  PROVE  ErrandInv(d)'
<1>1. Ids(items) \subseteq Ids(items)'
  BY DEF Ids
<1>2. Audited(d) => Audited(d)'
  BY DEF Audited
<1> HIDE DEF Ids, SentFor, Audited
<1> QED
  BY <1>1, <1>2 DEF ErrandInv, Drop, TipEvents, By

(* A reader of whom nothing changes, while the notifications stay.         *)
LEMMA ReaderFrame ==
  ASSUME NEW d \in Errands, ReaderInv(d), UNCHANGED <<at[d], cursor[d], shown[d], due[d], notes>>,
         \A i \in Errands : at[i] # "idle" => at'[i] # "idle"
  PROVE  ReaderInv(d)'
BY DEF ReaderInv, NotesOf, Place, Ids, By

(* A step of one call that leaves the notifications as they are.           *)
LEMMA ErrandStep ==
  ASSUME PersonalInv, NEW c \in Errands,
         DOMAIN at' = Errands, at'[c] # "idle",
         \A d \in Errands \ {c} : at'[d] = at[d] /\ cursor'[d] = cursor[d] /\ shown'[d] = shown[d],
         cursor' \in [Errands -> Nat], DOMAIN shown' = Errands, DOMAIN history' = Users,
         UNCHANGED <<due, notes, cleared>>,
         items \subseteq items', drops \subseteq drops', sent \subseteq sent',
         \A d \in Errands \ {c} : SentFor(d)' = SentFor(d),
         ErrandInv(c)', Errand[c].op = "activity" => ReaderInv(c)', RowsInv', RowsAreOnesOwn'
  PROVE  PersonalInv'
<1>1. Begun' \subseteq Begun \cup {c} /\ \A i \in Errands : at[i] # "idle" => at'[i] # "idle"
  BY DEF Begun
<1>2. IsFiniteSet(Begun')
  BY <1>1, FS_AddElement, FS_Subset DEF PersonalInv, PersonalTypes
<1>3. PersonalTypes'
  BY <1>2 DEF PersonalInv, PersonalTypes
<1>4. ASSUME NEW d \in Errands \ {c} PROVE ErrandInv(d)' /\ (Errand[d].op = "activity" => ReaderInv(d)')
  <2>1. Ids(notes)' = Ids(notes)
    BY DEF Ids
  <2>2. ErrandInv(d)'
    BY <2>1, ErrandFrame DEF PersonalInv
  <2>3. Errand[d].op = "activity" => ReaderInv(d)'
    BY <1>1, ReaderFrame DEF PersonalInv
  <2> QED
    BY <2>2, <2>3
<1> QED
  BY <1>3, <1>4 DEF PersonalInv

(* Rows that stay, stay whose they are and audited.                        *)
LEMMA RowsFrame ==
  ASSUME RowsInv, UNCHANGED <<items, notes>>, sent \subseteq sent',
         \A i \in Errands : at[i] # "idle" => at'[i] # "idle"
  PROVE  RowsInv'
BY DEF RowsInv, Audited, By

(* Nobody has seen or changed more than before.                            *)
LEMMA OwnFrame ==
  ASSUME RowsAreOnesOwn, UNCHANGED <<history, handled>>
  PROVE  RowsAreOnesOwn'
BY DEF RowsAreOnesOwn, By

(* A call that only goes on.                                               *)
LEMMA OnlyMoves ==
  ASSUME PersonalInv, NEW c \in Errands, NEW l, Moves(c, l), l # "idle",
         UNCHANGED <<stores, sent, cursor, shown, due, cleared, handled>>,
         ErrandInv(c)', Errand[c].op = "activity" => l \notin {"turn", "done"}
  PROVE  PersonalInv'
<1>1. /\ DOMAIN at' = Errands /\ at'[c] = l /\ \A d \in Errands \ {c} : at'[d] = at[d]
      /\ cursor \in [Errands -> Nat] /\ DOMAIN shown = Errands /\ DOMAIN history = Users
  BY DEF Moves, PersonalInv, PersonalTypes
<1>2. RowsInv' /\ RowsAreOnesOwn'
  BY <1>1, RowsFrame, OwnFrame DEF PersonalInv, stores
<1>3. Errand[c].op = "activity" => ReaderInv(c)'
  BY <1>1 DEF PersonalInv, ReaderInv
<1>4. \A d \in Errands : SentFor(d)' = SentFor(d)
  BY DEF SentFor
<1> QED
  BY <1>1, <1>2, <1>3, <1>4, ErrandStep DEF stores

(* A call comes in, or a statement fails.                                  *)
LEMMA ArrivalStep ==
  ASSUME PersonalInv, NEW c \in Errands,
         \/ StatementFails(c) \/ StoreItem(c) \/ ListItems(c) \/ Tip(c) \/ Search(c) \/ FindPosts(c)
         \/ UpdateInterests(c)
  PROVE  PersonalInv'
<1>1. ErrandInv(c) /\ DOMAIN at = Errands
  BY DEF PersonalInv, PersonalTypes
<1>2. UNCHANGED <<stores, sent, cursor, shown, due, cleared, handled>>
  BY DEF StatementFails, StoreItem, ListItems, Tip, Search, FindPosts, UpdateInterests
<1>3. SentFor(c)' = SentFor(c) /\ Ids(items)' = Ids(items)
  BY <1>2 DEF SentFor, Ids, stores
<1>4. PICK l \in {"failed", "audit", "refused", "write", "note", "done", "add"} :
        /\ Moves(c, l)
        /\ l = "audit" => Errand[c].op \in {"store", "items"} /\ at[c] = "idle"
        /\ l = "write" => Errand[c].op = "tip" /\ at[c] = "idle"
        /\ l = "done" => Errand[c].op = "search"
  BY DEF StatementFails, StoreItem, ListItems, Tip, Search, FindPosts, UpdateInterests, Arrives, Now
<1>5. at'[c] = l
  BY <1>1, <1>4 DEF Moves
<1>6. ErrandInv(c)'
  BY <1>1, <1>2, <1>3, <1>4, <1>5 DEF ErrandInv, Audited, stores
<1>7. l # "idle" /\ (Errand[c].op = "activity" => l \notin {"turn", "done"})
  BY <1>4
<1> QED
  BY <1>2, <1>4, <1>6, <1>7, OnlyMoves

(* An event is published, or the call has failed.                          *)
LEMMA PublishFacts ==
  ASSUME NEW c \in Errands, NEW subjects, NEW next, Publish(c, subjects, next), PersonalInv, next # "idle"
  PROVE  /\ DOMAIN at' = Errands /\ \A d \in Errands \ {c} : at'[d] = at[d] /\ SentFor(d)' = SentFor(d)
         /\ sent \subseteq sent' /\ at'[c] \in {next, "failed"}
         /\ next # "failed" /\ at'[c] = next => sent' = sent \cup {<<s, c>> : s \in subjects}
         /\ \A d \in Errands : at[d] # "idle" => at'[d] # "idle"
<1>1. DOMAIN at = Errands
  BY DEF PersonalInv, PersonalTypes
<1>2. CASE linked
  <2>1. sent' = sent \cup {<<s, c>> : s \in subjects} /\ at' = [at EXCEPT ![c] = next]
    BY <1>2 DEF Publish, Moves
  <2>2. ASSUME NEW d \in Errands \ {c} PROVE SentFor(d)' = SentFor(d)
    BY <2>1 DEF SentFor
  <2> QED
    BY <1>1, <2>1, <2>2
<1>3. CASE ~linked
  <2>1. sent' = sent /\ at' = [at EXCEPT ![c] = "failed"]
    BY <1>3 DEF Publish, Moves
  <2> QED
    BY <1>1, <2>1 DEF SentFor
<1> QED
  BY <1>2, <1>3

(* The audit comes before the access.                                      *)
LEMMA AuditStep ==
  ASSUME PersonalInv, NEW c \in Errands, AuditAccessAttempt(c)
  PROVE  PersonalInv'
<1> DEFINE next == IF Errand[c].op = "store" THEN "write" ELSE "read"
<1>1. ErrandInv(c) /\ at[c] = "audit" /\ Errand[c].op \in {"store", "items"} /\ Publish(c, {"vault.access.audited"}, next)
  BY DEF PersonalInv, ErrandInv, AuditAccessAttempt
<1>2. UNCHANGED <<items, drops, history, interests, notes, cursor, shown, due, cleared, handled>>
  BY DEF AuditAccessAttempt, stores
<1>3. next \in {"write", "read"}
  OBVIOUS
<1> HIDE DEF next
<1>4. /\ DOMAIN at' = Errands /\ \A d \in Errands \ {c} : at'[d] = at[d] /\ SentFor(d)' = SentFor(d)
      /\ sent \subseteq sent' /\ at'[c] \in {next, "failed"}
      /\ at'[c] = next => sent' = sent \cup {<<s, c>> : s \in {"vault.access.audited"}}
      /\ \A d \in Errands : at[d] # "idle" => at'[d] # "idle"
  BY <1>1, <1>3, PublishFacts
<1>5. /\ at'[c] \in {"write", "read", "failed"} /\ (at'[c] \in {"write", "read"} => Audited(c)')
      /\ Audited(c) => Audited(c)'
  BY <1>3, <1>4 DEF Audited
<1>6. ErrandInv(c)'
  BY <1>1, <1>2, <1>5 DEF ErrandInv
<1>7. RowsInv' /\ RowsAreOnesOwn'
  BY <1>2, <1>4, RowsFrame, OwnFrame DEF PersonalInv
<1>8. cursor \in [Errands -> Nat] /\ DOMAIN shown = Errands /\ DOMAIN history = Users
  BY DEF PersonalInv, PersonalTypes
<1> QED
  BY <1>1, <1>2, <1>4, <1>5, <1>6, <1>7, <1>8, ErrandStep

(* A tip's two events, after its row.                                      *)
LEMMA TellStep ==
  ASSUME PersonalInv, NEW c \in Errands, TipSignal(c)
  PROVE  PersonalInv'
<1> DEFINE subjects == {"lumia.xp.award_requested", "lumia.signal.tipped"}
<1>1. ErrandInv(c) /\ at[c] = "tell" /\ Errand[c].op = "tip" /\ Publish(c, subjects, "done")
  BY DEF PersonalInv, TipSignal, Now
<1>2. UNCHANGED <<items, drops, history, interests, notes, cursor, shown, due, cleared, handled>>
  BY DEF TipSignal, stores
<1>3. {<<s, c>> : s \in subjects} = TipEvents(c)
  BY DEF TipEvents
<1> HIDE DEF subjects
<1>4. /\ DOMAIN at' = Errands /\ \A d \in Errands \ {c} : at'[d] = at[d] /\ SentFor(d)' = SentFor(d)
      /\ sent \subseteq sent' /\ at'[c] \in {"done", "failed"}
      /\ at'[c] = "done" => sent' = sent \cup {<<s, c>> : s \in subjects}
      /\ \A d \in Errands : at[d] # "idle" => at'[d] # "idle"
  BY <1>1, PublishFacts
<1>5. at'[c] = "done" => SentFor(c)' = TipEvents(c)
  <2> SUFFICES ASSUME at'[c] = "done" PROVE SentFor(c)' = TipEvents(c)
    OBVIOUS
  <2>1. sent' = sent \cup TipEvents(c)
    BY <1>3, <1>4
  <2>2. SentFor(c) = {}
    BY <1>1 DEF ErrandInv
  <2>3. \A e \in TipEvents(c) : e[2] = c
    BY DEF TipEvents
  <2> QED
    BY <2>1, <2>2, <2>3 DEF SentFor
<1>6. ErrandInv(c)'
  BY <1>1, <1>2, <1>4, <1>5 DEF ErrandInv, TipEvents, Drop, By
<1>7. RowsInv' /\ RowsAreOnesOwn'
  BY <1>2, <1>4, RowsFrame, OwnFrame DEF PersonalInv
<1>8. cursor \in [Errands -> Nat] /\ DOMAIN shown = Errands /\ DOMAIN history = Users
  BY DEF PersonalInv, PersonalTypes
<1> QED
  BY <1>1, <1>2, <1>4, <1>6, <1>7, <1>8, ErrandStep

(* Rows that one sees or changes are one's own.                            *)
LEMMA HandleOwn ==
  ASSUME RowsAreOnesOwn, history' = history, NEW c \in Errands, NEW ids, Handle(c, ids),
         \A i \in ids : i \in Errands => By(c) = IF Errand[i].op = "notify" THEN Errand[i].arg ELSE By(i)
  PROVE  RowsAreOnesOwn'
<1>1. ASSUME NEW h \in handled', NEW d \in Errands, d = h[2]
      PROVE  h[1] = IF Errand[d].op = "notify" THEN Errand[d].arg ELSE By(d)
  <2>1. CASE h \in handled
    BY <1>1, <2>1 DEF RowsAreOnesOwn
  <2>2. CASE h \notin handled
    <3>1. PICK i \in ids : h = <<By(c), i>>
      BY <1>1, <2>2 DEF Handle
    <3> QED
      BY <1>1, <3>1
  <2> QED
    BY <2>1, <2>2
<1> QED
  BY <1>1 DEF RowsAreOnesOwn, By

(* The notifications of a user are those to that user.                     *)
LEMMA NotesAreOwn ==
  ASSUME RowsInv, NEW u
  PROVE  \A i \in Ids(NotesOf(u)) : i \in Errands /\ Errand[i].op = "notify" /\ Errand[i].arg = u /\ at[i] # "idle"
BY DEF RowsInv, Ids, NotesOf

(* The vault's two accesses.                                               *)
LEMMA VaultStep ==
  ASSUME PersonalInv, NEW c \in Errands, AddItem(c) \/ GetItems(c)
  PROVE  PersonalInv'
<1>1. /\ ErrandInv(c) /\ DOMAIN at = Errands /\ DOMAIN shown = Errands /\ cursor \in [Errands -> Nat]
      /\ DOMAIN history = Users /\ RowsInv /\ RowsAreOnesOwn
  BY DEF PersonalInv, PersonalTypes
<1>2. /\ UNCHANGED <<drops, history, interests, notes, sent, cursor, due, cleared>> /\ at' = [at EXCEPT ![c] = "done"]
      /\ Errand[c].op # "activity"
  BY DEF AddItem, GetItems, stores, Moves, Now
<1>3. at'[c] = "done" /\ DOMAIN at' = Errands /\ \A d \in Errands \ {c} : at'[d] = at[d]
  BY <1>1, <1>2
<1>4. \A d \in Errands : SentFor(d)' = SentFor(d) /\ (Audited(d) => Audited(d)')
  BY <1>2 DEF SentFor, Audited
<1>5. CASE AddItem(c)
  <2>1. /\ items' = items \cup {Item(c)} /\ shown' = shown /\ handled' = handled
        /\ Errand[c].op = "store" /\ at[c] = "write"
    BY <1>5 DEF AddItem, AddVaultItem, Now
  <2>2. c \in Ids(items)' /\ Audited(c)
    <3>1. Item(c) \in items' /\ Item(c).id = c
      BY <2>1 DEF Item
    <3> QED
      BY <1>1, <2>1, <3>1 DEF Ids, ErrandInv
  <2>3. ErrandInv(c)'
    BY <1>3, <1>4, <2>1, <2>2 DEF ErrandInv
  <2>4. RowsInv'
    <3>1. \A r \in items : r.id \in Errands /\ Errand[r.id].op = "store" /\ r.user = By(r.id) /\ Audited(r.id)'
      BY <1>1, <1>4 DEF RowsInv
    <3>2. Item(c).id = c /\ Item(c).user = By(c) /\ Audited(c)'
      BY <1>4, <2>2 DEF Item
    <3>3. \A r \in notes : at'[r.id] # "idle"
      BY <1>1, <1>3 DEF RowsInv
    <3> QED
      BY <1>1, <1>2, <2>1, <3>1, <3>2, <3>3 DEF RowsInv, By
  <2> QED
    BY <1>1, <1>2, <1>3, <1>4, <2>1, <2>3, <2>4, OwnFrame, ErrandStep
<1>6. CASE GetItems(c)
  <2> DEFINE ids == GetUserVault(By(c))
  <2>1. /\ items' = items /\ shown' = [shown EXCEPT ![c] = shown[c] \cup ids] /\ Handle(c, ids)
        /\ Errand[c].op = "items" /\ at[c] = "read"
    BY <1>6 DEF GetItems, ShowRows, stores, Now
  <2>2. \A i \in ids : i \in Errands => By(c) = IF Errand[i].op = "notify" THEN Errand[i].arg ELSE By(i)
    BY <1>1 DEF GetUserVault, Ids, RowsInv
  <2> HIDE DEF ids
  <2>3. RowsAreOnesOwn'
    BY <1>1, <1>2, <2>1, <2>2, HandleOwn
  <2>4. ErrandInv(c)'
    BY <1>1, <1>3, <1>4, <2>1 DEF ErrandInv
  <2>5. RowsInv'
    BY <1>1, <1>2, <1>3, <2>1, RowsFrame
  <2>6. DOMAIN shown' = Errands /\ \A d \in Errands \ {c} : shown'[d] = shown[d]
    BY <1>1, <2>1
  <2> QED
    BY <1>1, <1>2, <1>3, <1>4, <2>1, <2>3, <2>4, <2>5, <2>6, ErrandStep
<1> QED
  BY <1>5, <1>6

(* The row of a tip, and the bookkeeping of search.                        *)
LEMMA SearchStep ==
  ASSUME PersonalInv, NEW c \in Errands,
         AddEnergyDrop(c) \/ SaveHistory(c) \/ GetHistory(c) \/ GetInterests(c) \/ AddInterest(c)
  PROVE  PersonalInv'
<1>1. /\ ErrandInv(c) /\ DOMAIN at = Errands /\ DOMAIN shown = Errands /\ cursor \in [Errands -> Nat]
      /\ DOMAIN history = Users /\ RowsInv /\ RowsAreOnesOwn
  BY DEF PersonalInv, PersonalTypes
<1>2. /\ UNCHANGED <<items, notes, sent, due, cleared, handled>>
      /\ Errand[c].op \in {"tip", "search", "history", "interests", "choose"}
  BY DEF AddEnergyDrop, SaveHistory, GetHistory, GetInterests, AddInterest, stores, Now, Arrives
<1>3. /\ at'[c] \in {"tell", "read", "done", "add"} /\ DOMAIN at' = Errands /\ \A d \in Errands \ {c} : at'[d] = at[d]
      /\ Errand[c].op = "tip" => at'[c] = "tell" /\ at[c] = "write"
  BY <1>1 DEF AddEnergyDrop, SaveHistory, GetHistory, GetInterests, AddInterest, Moves, Now, Arrives
<1>4. /\ DOMAIN shown' = Errands /\ \A d \in Errands \ {c} : shown'[d] = shown[d]
      /\ cursor' \in [Errands -> Nat] /\ \A d \in Errands \ {c} : cursor'[d] = cursor[d]
  <2>1. cursor' = cursor \/ cursor' = [cursor EXCEPT ![c] = @ + 1]
    BY DEF AddEnergyDrop, SaveHistory, GetHistory, GetInterests, AddInterest
  <2>2. shown' = shown \/ \E x : shown' = [shown EXCEPT ![c] = x]
    BY DEF AddEnergyDrop, SaveHistory, GetHistory, GetInterests, AddInterest
  <2> QED
    BY <1>1, <2>1, <2>2
<1>5. drops \subseteq drops' /\ (Errand[c].op = "tip" => Drop(c) \in drops')
  BY DEF AddEnergyDrop, InsertDrop, SaveHistory, GetHistory, GetInterests, AddInterest, stores, Now, Arrives
<1>6. \A d \in Errands : SentFor(d)' = SentFor(d)
  BY <1>2 DEF SentFor
<1>7. ErrandInv(c)'
  BY <1>1, <1>2, <1>3, <1>5, <1>6 DEF ErrandInv, Drop, By
<1>8. RowsInv'
  BY <1>1, <1>2, <1>3, RowsFrame
<1>9. RowsAreOnesOwn' /\ DOMAIN history' = Users
  <2>1. CASE history' = history
    BY <1>1, <1>2, <2>1, OwnFrame
  <2>2. CASE SaveHistory(c) /\ history' # history
    <3>1. PICK q, n : history' = [history EXCEPT ![By(c)] = {r \in @ : r.query # q} \cup {[query |-> q, created |-> n]}]
      BY <2>2 DEF SaveHistory, UpsertQuery
    <3>2. ASSUME NEW u \in Users, NEW r \in history'[u], NEW s \in history'[u], r.query = s.query
          PROVE  r = s
      <4>1. CASE u # By(c)
        BY <1>1, <3>1, <3>2, <4>1 DEF RowsAreOnesOwn
      <4>2. CASE u = By(c)
        <5>1. history'[u] = {r1 \in history[u] : r1.query # q} \cup {[query |-> q, created |-> n]}
          BY <1>1, <3>1, <4>2
        <5> QED
          BY <1>1, <3>2, <5>1 DEF RowsAreOnesOwn
      <4> QED
        BY <4>1, <4>2
    <3> QED
      BY <1>1, <1>2, <3>1, <3>2 DEF RowsAreOnesOwn, By
  <2>3. SaveHistory(c) \/ history' = history
    BY DEF AddEnergyDrop, GetHistory, GetInterests, AddInterest, stores
  <2> QED
    BY <2>1, <2>2, <2>3
<1> QED
  BY <1>2, <1>3, <1>4, <1>5, <1>6, <1>7, <1>8, <1>9, ErrandStep

(* No place among times is left out: where there is one beyond the m-th,   *)
(* there is one at m + 1.                                                  *)
LEMMA PlacesAreAll ==
  ASSUME NEW T \in SUBSET Nat, IsFiniteSet(T), NEW m \in Nat,
         NEW t \in T, Cardinality({x \in T : x >= t}) > m
  PROVE  \E s \in T : Cardinality({x \in T : x >= s}) = m + 1
<1> DEFINE C(s) == Cardinality({x \in T : x >= s})
           M == {C(s) : s \in {x \in T : C(x) > m}}
<1>1. \A s \in T : C(s) \in Nat /\ IsFiniteSet({x \in T : x >= s})
  BY FS_Subset, FS_CardinalityType
<1>2. M \subseteq Nat /\ M # {}
  BY <1>1
<1>3. PICK k \in M : \A j \in M : k <= j
  <2> HIDE DEF M
  <2> QED
    BY <1>2, LeastNatural
<1>4. PICK s \in T : k = C(s) /\ C(s) > m
  OBVIOUS
<1>5. ASSUME k # m + 1
      PROVE  FALSE
  <2> DEFINE U == {x \in T : x > s}
             S == {x \in T : x >= s}
  <2>1. U = S \ {s} /\ s \in S /\ IsFiniteSet(S) /\ k = Cardinality(S)
    <3>1. \A x, y \in Nat : x > y <=> (x >= y /\ x # y)
      OBVIOUS
    <3>2. U = S \ {s} /\ s \in S
      <4>1. s \in Nat /\ s >= s
        OBVIOUS
      <4>2. \A x \in T : x \in Nat
        OBVIOUS
      <4>3. \A x \in T : x > s <=> (x >= s /\ x # s)
        BY <3>1, <4>1, <4>2
      <4>4. \A x : x \in U <=> x \in S /\ x # s
        BY <4>3
      <4> QED
        BY <4>1, <4>4, Zenon
    <3>3. IsFiniteSet(S) /\ k = Cardinality(S)
      BY <1>1, <1>4
    <3> QED
      BY <3>2, <3>3
  <2>2. Cardinality(U) = k - 1 /\ k \in Nat
    <3> HIDE DEF C, M, U, S
    <3> QED
      BY <1>2, <1>3, <2>1, FS_RemoveElement
  <2>3. U # {} /\ k - 1 > m
    <3>1. k > m
      BY <1>4
    <3>2. Cardinality(U) # 0
      BY <1>5, <2>2, <3>1
    <3>3. U # {}
      BY <3>2, FS_EmptySet
    <3> QED
      BY <1>5, <2>2, <3>1, <3>3
  <2>4. PICK u \in U : \A x \in U : u <= x
    <3>1. U \subseteq Nat
      OBVIOUS
    <3> HIDE DEF U
    <3> QED
      BY <2>3, <3>1, LeastNatural
  <2>5. {x \in T : x >= u} = U
    <3>1. s \in Nat /\ u \in Nat /\ u > s /\ u \in T
      OBVIOUS
    <3>2. \A x \in T : x \in Nat /\ (x > s => u <= x)
      BY <2>4
    <3>3. \A x \in T : x >= u <=> x > s
      BY <3>1, <3>2
    <3> QED
      BY <3>3
  <2>6. C(u) = k - 1 /\ u \in T
    BY <2>2, <2>5
  <2>7. k - 1 \in M
    <3> HIDE DEF C
    <3> QED
      BY <2>3, <2>6
  <2> HIDE DEF M
  <2> QED
    BY <1>3, <2>2, <2>7
<1> QED
  BY <1>4, <1>5

(* What a function makes of a finite set is finite.                        *)
LEMMA ImageIsFinite ==
  ASSUME NEW S, IsFiniteSet(S), NEW f, f = [x \in S |-> f[x]]
  PROVE  IsFiniteSet({f[x] : x \in S})
<1> DEFINE T == {f[x] : x \in S}
<1>1. f \in Surjection(S, T)
  BY DEF Surjection
<1>2. IsFiniteSet(T)
  <2> HIDE DEF T
  <2> QED
    BY <1>1, FS_Surjection
<1> QED
  BY <1>2

(* The place of a row is a number, and not less when there are more rows.  *)
LEMMA PlaceFacts ==
  ASSUME NEW rows, rows \subseteq NoteRows, IsFiniteSet(rows), NEW r \in rows
  PROVE  /\ Place(r, rows) \in Nat /\ Place(r, rows) > 0
         /\ \A old : {s.created : s \in old} \subseteq {s.created : s \in rows} => Place(r, old) <= Place(r, rows)
<1> DEFINE T == {s.created : s \in rows}
           S == {t \in T : t >= r.created}
<1>1. T \subseteq Nat /\ r.created \in T
  BY DEF NoteRows
<1>2. IsFiniteSet(T)
  <2> DEFINE f == [s \in rows |-> s.created]
  <2>1. f = [s \in rows |-> f[s]] /\ T = {f[s] : s \in rows}
    OBVIOUS
  <2> HIDE DEF f, T
  <2> QED
    BY <2>1, ImageIsFinite
<1>3. IsFiniteSet(S) /\ r.created \in S
  BY <1>1, <1>2, FS_Subset
<1>4. Place(r, rows) = Cardinality(S)
  BY DEF Place
<1>5. Cardinality(S) \in Nat /\ Cardinality(S) # 0
  <2> HIDE DEF S
  <2> QED
    BY <1>3, FS_CardinalityType, FS_EmptySet
<1>6. ASSUME NEW old, {s.created : s \in old} \subseteq T
      PROVE  Place(r, old) <= Place(r, rows)
  <2> DEFINE O == {t \in {s.created : s \in old} : t >= r.created}
  <2>1. O \subseteq S
    BY <1>6
  <2>2. Place(r, old) = Cardinality(O)
    BY DEF Place
  <2> HIDE DEF O, S
  <2> QED
    BY <1>3, <1>4, <2>1, <2>2, FS_Subset
<1> QED
  BY <1>4, <1>5, <1>6

(* No notification that is due to a reader comes in, or moves nearer to    *)
(* the front.                                                              *)
NoneNearer(d) ==
  \A q \in notes' : q.id \in due[d] =>
    \E r \in notes :
      /\ r.id = q.id /\ r.receiver = q.receiver
      /\ q.receiver = By(d) =>
           /\ Place(r, NotesOf(By(d))) \in Int /\ Place(q, NotesOf(By(d))') \in Int
           /\ Place(r, NotesOf(By(d))) <= Place(q, NotesOf(By(d))')

(* A reader of whom nothing changes, while none comes nearer.              *)
LEMMA ReaderKeeps ==
  ASSUME NEW d \in Errands, ReaderInv(d), UNCHANGED <<at[d], cursor[d], shown[d], due[d]>>,
         \A i \in Errands : at[i] # "idle" => at'[i] # "idle",
         NoneNearer(d)
  PROVE  ReaderInv(d)'
<1>1. PICK k : k = cursor[d] * PageSize
  OBVIOUS
<1>2. k \in Int
  BY <1>1, PersonalAssumption DEF ReaderInv, PersonalAssumption
<1>3. ASSUME at'[d] = "turn", NEW q \in NotesOf(By(d))', q.id \in due[d]
      PROVE  q.id \in shown[d] \/ Place(q, NotesOf(By(d))') > k
  <2>1. q \in notes' /\ q.receiver = By(d)
    BY <1>3 DEF NotesOf, By
  <2>2. PICK r \in notes : /\ r.id = q.id /\ r.receiver = q.receiver
                           /\ Place(r, NotesOf(By(d))) \in Int /\ Place(q, NotesOf(By(d))') \in Int
                           /\ Place(r, NotesOf(By(d))) <= Place(q, NotesOf(By(d))')
    BY <1>3, <2>1 DEF NoneNearer
  <2>3. r \in NotesOf(By(d)) /\ r.id \in due[d] /\ at[d] = "turn"
    BY <1>3, <2>1, <2>2 DEF NotesOf
  <2>4. r.id \in shown[d] \/ Place(r, NotesOf(By(d))) > k
    BY <1>1, <2>3 DEF ReaderInv
  <2> QED
    BY <1>2, <2>2, <2>4
<1>4. ASSUME at'[d] = "done", NEW i \in due[d], i \in Ids(notes)'
      PROVE  i \in shown[d]
  BY <1>4 DEF ReaderInv, Ids, NoneNearer
<1>5. \A i \in due[d] : i \in Errands /\ Errand[i].arg = By(d) /\ at'[i] # "idle"
  BY DEF ReaderInv
<1> QED
  BY <1>1, <1>3, <1>4, <1>5 DEF ReaderInv, By

(* A step of one call that changes the notifications.                      *)
LEMMA NotesStep ==
  ASSUME PersonalInv, NEW c \in Errands, NEW l, Moves(c, l), l # "idle", Errand[c].op \notin {"activity", "tip", "store", "items"},
         l # "audit", UNCHANGED <<items, drops, history, interests, sent, cursor, shown, due>>,
         notes' \subseteq NoteRows, IsFiniteSet(notes'), Ids(notes) \cup cleared \subseteq Ids(notes)' \cup cleared',
         Errand[c].op = "notify" /\ l = "done" => c \in Ids(notes)',
         \A r \in notes' : Errand[r.id].op = "notify" /\ r.receiver = Errand[r.id].arg /\ (at[r.id] # "idle" \/ r.id = c),
         RowsAreOnesOwn',
         \A d \in Errands : ReaderInv(d) => NoneNearer(d)
  PROVE  PersonalInv'
<1>1. /\ DOMAIN at' = Errands /\ at'[c] = l /\ \A d \in Errands \ {c} : at'[d] = at[d]
      /\ \A i \in Errands : at[i] # "idle" => at'[i] # "idle"
  BY DEF Moves, PersonalInv, PersonalTypes
<1>2. PersonalTypes'
  <2>1. Begun' \subseteq Begun \cup {c}
    BY <1>1 DEF Begun
  <2>2. IsFiniteSet(Begun')
    BY <2>1, FS_AddElement, FS_Subset DEF PersonalInv, PersonalTypes
  <2> QED
    BY <1>1, <2>2 DEF PersonalInv, PersonalTypes
<1>3. RowsInv'
  <2>1. \A r \in notes' : r.id \in Errands
    BY DEF NoteRows
  <2> QED
    BY <1>1, <2>1 DEF PersonalInv, RowsInv, Audited, By
<1>4. \A d \in Errands : SentFor(d)' = SentFor(d)
  BY DEF SentFor
<1>5. ErrandInv(c)'
  BY <1>1 DEF ErrandInv
<1>6. ASSUME NEW d \in Errands \ {c} PROVE ErrandInv(d)' /\ (Errand[d].op = "activity" => ReaderInv(d)')
  <2>1. ErrandInv(d)'
    BY <1>1, <1>4, ErrandFrame DEF PersonalInv
  <2>2. Errand[d].op = "activity" => ReaderInv(d)'
    BY <1>1, ReaderKeeps DEF PersonalInv
  <2> QED
    BY <2>1, <2>2
<1> QED
  BY <1>2, <1>3, <1>5, <1>6 DEF PersonalInv

(* The notifications of a user, in numbers.                                *)
LEMMA NotesAreFinite ==
  ASSUME PersonalTypes, NEW u
  PROVE  /\ IsFiniteSet(NotesOf(u)) /\ NotesOf(u) \subseteq NoteRows
         /\ \A r \in NotesOf(u) : Place(r, NotesOf(u)) \in Nat /\ Place(r, NotesOf(u)) > 0
<1>1. IsFiniteSet(NotesOf(u)) /\ NotesOf(u) \subseteq NoteRows
  BY FS_Subset DEF PersonalTypes, NotesOf
<1> QED
  BY <1>1, PlaceFacts

(* A notification comes in at the front.                                   *)
LEMMA NotifyStep ==
  ASSUME PersonalInv, NEW c \in Errands, Notify(c)
  PROVE  PersonalInv'
<1>1. /\ PersonalTypes /\ RowsInv /\ RowsAreOnesOwn /\ at[c] = "idle" /\ Errand[c].op = "notify"
      /\ UNCHANGED <<items, drops, history, interests, sent, cursor, shown, due, cleared, handled>>
  BY DEF PersonalInv, Notify, Arrives, Now
<1>2. RowsAreOnesOwn'
  BY <1>1, OwnFrame
<1>3. CASE notes' = notes /\ Moves(c, "failed")
  <2>1. ASSUME NEW d \in Errands PROVE NoneNearer(d)
    <3>1. NotesOf(By(d))' = NotesOf(By(d))
      BY <1>3 DEF NotesOf, By
    <3>2. \A r \in notes : r.receiver = By(d) => Place(r, NotesOf(By(d))) \in Nat
      BY <1>1, NotesAreFinite DEF NotesOf
    <3> QED
      BY <1>3, <3>1, <3>2 DEF NoneNearer
  <2>2. notes' \subseteq NoteRows /\ IsFiniteSet(notes') /\ Ids(notes)' = Ids(notes)
    BY <1>1, <1>3 DEF PersonalTypes, Ids
  <2>3. \A r \in notes' : Errand[r.id].op = "notify" /\ r.receiver = Errand[r.id].arg /\ at[r.id] # "idle"
    BY <1>1, <1>3 DEF RowsInv
  <2> QED
    BY <1>1, <1>2, <1>3, <2>1, <2>2, <2>3, NotesStep
<1>4. CASE notes' = notes \cup {Note(c)} /\ Moves(c, "done")
  <2>1. Note(c) \in NoteRows /\ Note(c).id = c /\ Note(c).receiver = Errand[c].arg
    <3>1. Time \in Nat
      <4>1. {d \in Errands : at[d] \in {"read", "done", "failed"}} \subseteq Begun
        BY DEF Begun
      <4> QED
        BY <1>1, <4>1, FS_Subset, FS_CardinalityType DEF PersonalTypes, Time
    <3> QED
      BY <3>1 DEF Note, NoteRows, Receivers
  <2>2. notes' \subseteq NoteRows /\ IsFiniteSet(notes')
    BY <1>1, <1>4, <2>1, FS_AddElement DEF PersonalTypes
  <2>3. Ids(notes) \subseteq Ids(notes)' /\ c \in Ids(notes)'
    BY <1>4, <2>1 DEF Ids
  <2>4. \A r \in notes' : Errand[r.id].op = "notify" /\ r.receiver = Errand[r.id].arg /\ (at[r.id] # "idle" \/ r.id = c)
    BY <1>1, <1>4, <2>1 DEF RowsInv
  <2>5. ASSUME NEW d \in Errands, ReaderInv(d) PROVE NoneNearer(d)
    <3> SUFFICES ASSUME NEW q \in notes', q.id \in due[d]
                 PROVE  /\ q \in notes
                        /\ q.receiver = By(d) =>
                             /\ Place(q, NotesOf(By(d))) \in Int /\ Place(q, NotesOf(By(d))') \in Int
                             /\ Place(q, NotesOf(By(d))) <= Place(q, NotesOf(By(d))')
      BY DEF NoneNearer
    <3>1. q \in notes
      BY <1>1, <1>4, <2>1, <2>5 DEF ReaderInv
    <3>2. ASSUME q.receiver = By(d)
          PROVE  /\ Place(q, NotesOf(By(d))) \in Int /\ Place(q, NotesOf(By(d))') \in Int
                 /\ Place(q, NotesOf(By(d))) <= Place(q, NotesOf(By(d))')
      <4>1. PICK rows, old : rows = NotesOf(By(d))' /\ old = NotesOf(By(d))
        OBVIOUS
      <4>2. rows \subseteq notes' /\ q \in rows /\ q \in old /\ old \subseteq rows
        BY <1>4, <3>1, <3>2, <4>1 DEF NotesOf, By
      <4>3. IsFiniteSet(rows) /\ rows \subseteq NoteRows
        BY <2>2, <4>2, FS_Subset
      <4>4. {s.created : s \in old} \subseteq {s.created : s \in rows}
        BY <4>2
      <4>5. Place(q, rows) \in Nat /\ Place(q, old) <= Place(q, rows)
        BY <4>2, <4>3, <4>4, PlaceFacts
      <4>6. Place(q, old) \in Nat
        BY <1>1, <4>1, <4>2, NotesAreFinite
      <4> QED
        BY <4>1, <4>5, <4>6
    <3> QED
      BY <3>1, <3>2
  <2> QED
    BY <1>1, <1>2, <1>4, <2>2, <2>3, <2>4, <2>5, NotesStep
<1> QED
  BY <1>3, <1>4 DEF Notify, Create

(* Notifications that are marked stay where they are.                      *)
LEMMA MarkStep ==
  ASSUME PersonalInv, NEW c \in Errands, MarkAsRead(c) \/ MarkAllRead(c)
  PROVE  PersonalInv'
<1>1. /\ PersonalTypes /\ RowsInv /\ RowsAreOnesOwn /\ Moves(c, "done") /\ Errand[c].op \in {"markRead", "markAll"}
      /\ UNCHANGED <<items, drops, history, interests, sent, cursor, shown, due, cleared>>
  BY DEF PersonalInv, MarkAsRead, MarkAllRead, Arrives, Now
<1>2. PICK ids : SetRead(c, ids) /\ ids \subseteq Ids(NotesOf(By(c)))
  BY DEF MarkAsRead, MarkAllRead, UnreadOf, Ids
<1>3. RowsAreOnesOwn'
  <2>1. \A i \in ids : i \in Errands => By(c) = IF Errand[i].op = "notify" THEN Errand[i].arg ELSE By(i)
    BY <1>1, <1>2, NotesAreOwn
  <2> QED
    BY <1>1, <1>2, <2>1, HandleOwn DEF SetRead
<1> DEFINE F(r) == IF r.id \in ids THEN [r EXCEPT !.read = TRUE] ELSE r
<1>4. notes' = {F(r) : r \in notes}
  BY <1>2 DEF SetRead
<1>5. \A r \in notes : F(r) \in NoteRows /\ F(r).id = r.id /\ F(r).receiver = r.receiver /\ F(r).created = r.created
  BY <1>1 DEF PersonalTypes, NoteRows
<1> HIDE DEF F
<1>6. notes' \subseteq NoteRows /\ Ids(notes)' = Ids(notes)
  BY <1>4, <1>5 DEF Ids
<1>7. IsFiniteSet(notes')
  <2> DEFINE f == [r \in notes |-> F(r)]
  <2>1. f = [r \in notes |-> f[r]] /\ notes' = {f[r] : r \in notes}
    BY <1>4
  <2> HIDE DEF f
  <2>2. IsFiniteSet({f[r] : r \in notes})
    BY <1>1, <2>1, ImageIsFinite DEF PersonalTypes
  <2> QED
    BY <2>1, <2>2
<1>8. \A r \in notes' : Errand[r.id].op = "notify" /\ r.receiver = Errand[r.id].arg /\ at[r.id] # "idle"
  BY <1>1, <1>4, <1>5 DEF RowsInv
<1>9. ASSUME NEW d \in Errands PROVE NoneNearer(d)
  <2>1. PICK rows, old : rows = NotesOf(By(d))' /\ old = NotesOf(By(d))
    OBVIOUS
  <2>2. \A q \in rows : \E r \in old : q = F(r)
    BY <1>4, <1>5, <2>1 DEF NotesOf, By
  <2>3. \A r \in old : r \in notes /\ F(r) \in rows /\ F(r).created = r.created
    BY <1>4, <1>5, <2>1 DEF NotesOf, By
  <2>4. {s.created : s \in rows} = {s.created : s \in old}
    BY <2>2, <2>3
  <2>5. ASSUME NEW q, NEW r, q.created = r.created
        PROVE  Place(q, rows) = Place(r, old)
    BY <2>4, <2>5 DEF Place
  <2>6. \A r \in old : Place(r, old) \in Nat
    BY <1>1, <2>1, NotesAreFinite
  <2>7. ASSUME NEW q \in notes'
        PROVE  \E r \in notes :
                 /\ r.id = q.id /\ r.receiver = q.receiver
                 /\ q.receiver = By(d) =>
                      Place(r, old) \in Int /\ Place(q, rows) \in Int /\ Place(r, old) <= Place(q, rows)
    <3>1. PICK r \in notes : q = F(r)
      BY <1>4
    <3>2. q.id = r.id /\ q.receiver = r.receiver /\ q.created = r.created
      BY <1>5, <3>1
    <3>3. q.receiver = By(d) => r \in old
      BY <2>1, <3>2 DEF NotesOf
    <3>4. Place(q, rows) = Place(r, old)
      BY <2>5, <3>2
    <3> QED
      BY <2>6, <3>2, <3>3, <3>4
  <2> QED
    BY <2>1, <2>7 DEF NoneNearer
<1> QED
  BY <1>1, <1>3, <1>6, <1>7, <1>8, <1>9, NotesStep

(* How many are unread.                                                    *)
LEMMA UnreadStep ==
  ASSUME PersonalInv, NEW c \in Errands, UnreadCount(c)
  PROVE  PersonalInv'
<1>1. /\ PersonalTypes /\ RowsInv /\ RowsAreOnesOwn /\ ErrandInv(c) /\ Moves(c, "done") /\ Errand[c].op = "unread"
      /\ UNCHANGED <<items, drops, history, interests, notes, sent, cursor, due, cleared>>
      /\ shown' = [shown EXCEPT ![c] = UnreadOf(By(c))] /\ Handle(c, UnreadOf(By(c)))
  BY DEF PersonalInv, UnreadCount, Arrives, Now, stores
<1>2. RowsAreOnesOwn'
  <2>1. \A i \in UnreadOf(By(c)) : i \in Errands => By(c) = IF Errand[i].op = "notify" THEN Errand[i].arg ELSE By(i)
    <3>1. UnreadOf(By(c)) \subseteq Ids(NotesOf(By(c)))
      BY DEF UnreadOf, Ids
    <3> QED
      BY <1>1, <3>1, NotesAreOwn
  <2> QED
    BY <1>1, <2>1, HandleOwn
<1>3. /\ DOMAIN at' = Errands /\ at'[c] = "done" /\ \A d \in Errands \ {c} : at'[d] = at[d] /\ shown'[d] = shown[d]
      /\ DOMAIN shown' = Errands /\ cursor \in [Errands -> Nat] /\ DOMAIN history = Users
  BY <1>1 DEF Moves, PersonalTypes
<1>4. RowsInv'
  BY <1>1, <1>3, RowsFrame
<1>5. \A d \in Errands : SentFor(d)' = SentFor(d)
  BY <1>1 DEF SentFor
<1>6. ErrandInv(c)'
  BY <1>1, <1>3 DEF ErrandInv
<1> QED
  BY <1>1, <1>2, <1>3, <1>4, <1>5, <1>6, ErrandStep

(* All of a user's notifications are cleared, and nobody else's.           *)
LEMMA ClearStep ==
  ASSUME PersonalInv, NEW c \in Errands, ClearAll(c)
  PROVE  PersonalInv'
<1>1. /\ PersonalTypes /\ RowsInv /\ RowsAreOnesOwn /\ Moves(c, "done") /\ Errand[c].op = "clear"
      /\ UNCHANGED <<items, drops, history, interests, sent, cursor, shown, due>>
      /\ notes' = notes \ NotesOf(By(c)) /\ cleared' = cleared \cup Ids(NotesOf(By(c)))
      /\ Handle(c, Ids(NotesOf(By(c))))
  BY DEF PersonalInv, ClearAll, ClearForUser, Arrives, Now
<1>2. RowsAreOnesOwn'
  <2>1. \A i \in Ids(NotesOf(By(c))) : i \in Errands => By(c) = IF Errand[i].op = "notify" THEN Errand[i].arg ELSE By(i)
    BY <1>1, NotesAreOwn
  <2> QED
    BY <1>1, <2>1, HandleOwn
<1>3. notes' \subseteq NoteRows /\ IsFiniteSet(notes')
  BY <1>1, FS_Subset DEF PersonalTypes
<1>4. Ids(notes) \cup cleared \subseteq Ids(notes)' \cup cleared'
  BY <1>1 DEF Ids
<1>5. \A r \in notes' : Errand[r.id].op = "notify" /\ r.receiver = Errand[r.id].arg /\ at[r.id] # "idle"
  BY <1>1 DEF RowsInv
<1>6. ASSUME NEW d \in Errands PROVE NoneNearer(d)
  <2>1. ASSUME NEW q \in notes', q.receiver = By(d)
        PROVE  NotesOf(By(d))' = NotesOf(By(d)) /\ q \in NotesOf(By(d))
    <3>1. q \in notes /\ q.receiver # By(c)
      BY <1>1, <2>1 DEF NotesOf
    <3> QED
      BY <1>1, <2>1, <3>1 DEF NotesOf, By
  <2>2. \A q \in NotesOf(By(d)) : Place(q, NotesOf(By(d))) \in Nat
    BY <1>1, NotesAreFinite
  <2> QED
    BY <1>1, <2>1, <2>2 DEF NoneNearer
<1> QED
  BY <1>1, <1>2, <1>3, <1>4, <1>5, <1>6, NotesStep

(* A page of the activity.                                                 *)
LEMMA PageStep ==
  ASSUME PersonalInv, NEW c \in Errands, GetActivity(c)
  PROVE  PersonalInv'
<1> DEFINE rows == NotesOf(By(c))
           p == cursor[c]
           page == GetForUser(By(c), p)
<1>1. /\ PersonalTypes /\ RowsInv /\ RowsAreOnesOwn /\ ErrandInv(c) /\ ReaderInv(c) /\ Errand[c].op = "activity"
      /\ at[c] \in {"idle", "turn"} /\ at' = [at EXCEPT ![c] = IF page = {} THEN "done" ELSE "turn"]
      /\ UNCHANGED <<items, drops, history, interests, notes, sent, cleared>>
      /\ shown' = [shown EXCEPT ![c] = shown[c] \cup page] /\ Handle(c, page)
      /\ cursor' = [cursor EXCEPT ![c] = p + 1]
      /\ due' = IF at[c] = "idle" THEN [due EXCEPT ![c] = Ids(rows)] ELSE due
  BY DEF PersonalInv, GetActivity, Arrives, Now, ShowRows, Moves, stores
<1>2. RowsAreOnesOwn'
  <2>1. page \subseteq Ids(rows)
    BY DEF GetForUser, Ids
  <2>2. \A i \in page : i \in Errands => By(c) = IF Errand[i].op = "notify" THEN Errand[i].arg ELSE By(i)
    BY <1>1, <2>1, NotesAreOwn
  <2> HIDE DEF page
  <2> QED
    BY <1>1, <2>2, HandleOwn
<1>3. /\ p \in Nat /\ PageSize \in Nat /\ PageSize > 0
      /\ IsFiniteSet(rows) /\ rows \subseteq NoteRows
      /\ \A r \in rows : Place(r, rows) \in Nat /\ Place(r, rows) > 0
  BY <1>1, NotesAreFinite, PersonalAssumption DEF PersonalTypes, PersonalAssumption
<1>4. PICK k, n : k = p * PageSize /\ n = (p + 1) * PageSize
  OBVIOUS
<1>5. k \in Nat /\ n = k + PageSize
  BY <1>3, <1>4
<1>6. page = Ids({r \in rows : k < Place(r, rows) /\ Place(r, rows) <= n})
  BY <1>4 DEF GetForUser
<1> HIDE DEF page, rows, p
<1>7. \A r \in rows : r.id \in due'[c] => r.id \in shown[c] \/ Place(r, rows) > k
  <2>1. CASE at[c] = "idle"
    <3>1. p = 0
      BY <1>1, <2>1 DEF ReaderInv, p
    <3>2. k = 0
      BY <1>3, <1>4, <3>1
    <3> QED
      BY <1>3, <3>2
  <2>2. CASE at[c] = "turn"
    BY <1>1, <1>4, <2>2 DEF ReaderInv, rows, p
  <2> QED
    BY <1>1, <2>1, <2>2
<1>8. /\ DOMAIN at' = Errands /\ at'[c] = (IF page = {} THEN "done" ELSE "turn")
      /\ \A d \in Errands \ {c} : at'[d] = at[d] /\ cursor'[d] = cursor[d] /\ shown'[d] = shown[d] /\ due'[d] = due[d]
      /\ DOMAIN shown' = Errands /\ DOMAIN due' = Errands /\ cursor' \in [Errands -> Nat]
      /\ cursor'[c] = p + 1 /\ shown'[c] = shown[c] \cup page
  BY <1>1, <1>3 DEF PersonalTypes
<1>9. rows' = rows
  BY <1>1 DEF rows, NotesOf, By
<1>10. \A r \in rows : k < Place(r, rows) => r.id \in page \/ Place(r, rows) > n
  BY <1>3, <1>5, <1>6 DEF Ids
<1>11. ASSUME page = {}, NEW r \in rows, r.id \in due'[c] PROVE r.id \in shown[c]
  <2> SUFFICES ASSUME Place(r, rows) > k PROVE FALSE
    BY <1>7, <1>11
  <2> DEFINE T == {s.created : s \in rows}
  <2>1. T \in SUBSET Nat /\ r.created \in T
    BY <1>3 DEF NoteRows
  <2>2. IsFiniteSet(T)
    <3> DEFINE f == [s \in rows |-> s.created]
    <3>1. f = [s \in rows |-> f[s]] /\ T = {f[s] : s \in rows}
      OBVIOUS
    <3> HIDE DEF f, T
    <3> QED
      BY <1>3, <3>1, ImageIsFinite
  <2>3. Cardinality({x \in T : x >= r.created}) > k
    BY DEF Place
  <2>4. PICK t \in T : Cardinality({x \in T : x >= t}) = k + 1
    <3> HIDE DEF T
    <3> QED
      BY <1>5, <2>1, <2>2, <2>3, PlacesAreAll
  <2>5. PICK s \in rows : t = s.created
    OBVIOUS
  <2>6. Place(s, rows) = k + 1
    BY <2>4, <2>5 DEF Place
  <2>7. k < k + 1 /\ k + 1 <= n
    BY <1>3, <1>5
  <2>8. s.id \in page
    BY <1>6, <2>6, <2>7 DEF Ids
  <2> QED
    BY <1>11, <2>8
<1>12. \A i \in due'[c] : i \in Errands /\ Errand[i].arg = By(c) /\ at'[i] # "idle"
  <2>1. \A i \in Errands : at[i] # "idle" => at'[i] # "idle"
    BY <1>8
  <2>2. \A i \in due'[c] : i \in due[c] \/ i \in Ids(rows)
    BY <1>1 DEF PersonalTypes
  <2>3. \A i \in Ids(rows) : i \in Errands /\ Errand[i].arg = By(c) /\ at[i] # "idle"
    BY <1>1, NotesAreOwn DEF rows
  <2> QED
    BY <1>1, <2>1, <2>2, <2>3 DEF ReaderInv
<1>13. ReaderInv(c)'
  <2>1. cursor'[c] \in Nat /\ at'[c] # "idle"
    BY <1>3, <1>8
  <2>2. at'[c] = "turn" => \A r \in NotesOf(By(c))' :
          r.id \in due'[c] => r.id \in shown'[c] \/ Place(r, NotesOf(By(c))') > cursor'[c] * PageSize
    BY <1>4, <1>7, <1>8, <1>9, <1>10 DEF rows
  <2>3. ASSUME at'[c] = "done", NEW i \in due'[c], i \in Ids(notes)' PROVE i \in shown'[c]
    <3>1. PICK r \in notes : r.id = i
      BY <1>1, <2>3 DEF Ids
    <3>2. r \in rows
      BY <1>1, <1>12, <2>3, <3>1 DEF RowsInv, NotesOf, rows
    <3> QED
      BY <1>8, <1>11, <2>3, <3>1, <3>2
  <2> QED
    BY <1>12, <2>1, <2>2, <2>3 DEF ReaderInv, By
<1>14. \A d \in Errands : SentFor(d)' = SentFor(d) /\ Ids(notes)' = Ids(notes)
  BY <1>1 DEF SentFor, Ids
<1>15. ErrandInv(c)'
  BY <1>1, <1>8 DEF ErrandInv
<1>16. RowsInv'
  BY <1>1, <1>8, RowsFrame
<1>17. ASSUME NEW d \in Errands \ {c} PROVE ErrandInv(d)' /\ (Errand[d].op = "activity" => ReaderInv(d)')
  <2>1. ErrandInv(d)'
    BY <1>1, <1>8, <1>14, ErrandFrame DEF PersonalInv
  <2>2. Errand[d].op = "activity" => ReaderInv(d)'
    BY <1>1, <1>8, ReaderFrame DEF PersonalInv
  <2> QED
    BY <2>1, <2>2
<1>18. PersonalTypes'
  <2>1. Begun' \subseteq Begun \cup {c}
    BY <1>8 DEF Begun
  <2>2. IsFiniteSet(Begun')
    BY <1>1, <2>1, FS_AddElement, FS_Subset DEF PersonalTypes
  <2> QED
    BY <1>1, <1>8, <2>2 DEF PersonalTypes
<1> QED
  BY <1>2, <1>13, <1>15, <1>16, <1>17, <1>18 DEF PersonalInv

(* One step of any kind.                                                   *)
LEMMA PersonalSteps == PersonalInv /\ [PersonalNext]_personalVars => PersonalInv'
<1> SUFFICES ASSUME PersonalInv, [PersonalNext]_personalVars PROVE PersonalInv'
  OBVIOUS
<1>1. CASE UNCHANGED personalVars
  <2>1. PersonalTypes' /\ RowsInv' /\ RowsAreOnesOwn'
    BY <1>1 DEF PersonalInv, PersonalTypes, RowsInv, RowsAreOnesOwn, personalVars, Begun, Audited, By
  <2>2. \A c \in Errands : SentFor(c)' = SentFor(c) /\ Ids(notes)' = Ids(notes)
    BY <1>1 DEF SentFor, Ids, personalVars
  <2>3. \A c \in Errands : ErrandInv(c)' /\ (Errand[c].op = "activity" => ReaderInv(c)')
    BY <1>1, <2>2, ErrandFrame, ReaderFrame DEF PersonalInv, personalVars
  <2> QED
    BY <2>1, <2>3 DEF PersonalInv
<1>2. CASE PersonalNext
  <2>1. PICK c \in Errands :
          \/ StatementFails(c)
          \/ StoreItem(c) \/ ListItems(c) \/ AuditAccessAttempt(c) \/ AddItem(c) \/ GetItems(c)
          \/ Tip(c) \/ AddEnergyDrop(c) \/ TipSignal(c)
          \/ Search(c) \/ SaveHistory(c) \/ FindPosts(c) \/ GetHistory(c)
          \/ UpdateInterests(c) \/ AddInterest(c) \/ GetInterests(c)
          \/ Notify(c) \/ GetActivity(c) \/ MarkAsRead(c) \/ MarkAllRead(c) \/ UnreadCount(c) \/ ClearAll(c)
    BY <1>2 DEF PersonalNext
  <2> QED
    BY <2>1, ArrivalStep, AuditStep, TellStep, VaultStep, SearchStep, NotifyStep, PageStep, MarkStep, UnreadStep, ClearStep
<1> QED
  BY <1>1, <1>2

(* What the invariant says to the users.                                   *)
LEMMA PersonalFollows == PersonalInv => PersonalIsKept
<1> SUFFICES ASSUME PersonalInv PROVE PersonalIsKept
  OBVIOUS
<1>1. AnsweredIsKept
  <2>1. ASSUME NEW c \in Errands PROVE Cardinality(TipEvents(c)) = 2
    <3>1. PICK a, b : a = <<"lumia.xp.award_requested", c>> /\ b = <<"lumia.signal.tipped", c>>
      OBVIOUS
    <3>2. a # b
      BY <3>1
    <3>3. Cardinality({a}) = 1 /\ IsFiniteSet({a}) /\ b \notin {a}
      BY <3>2, FS_Singleton
    <3>4. Cardinality({a} \cup {b}) = 2
      BY <3>3, FS_AddElement
    <3>5. TipEvents(c) = {a} \cup {b}
      BY <3>1 DEF TipEvents
    <3> QED
      BY <3>4, <3>5
  <2> QED
    BY <2>1 DEF PersonalInv, ErrandInv, AnsweredIsKept, SentFor
<1>2. VaultIsAudited
  BY DEF PersonalInv, RowsInv, ErrandInv, VaultIsAudited, Ids, Audited
<1>3. ActivityIsComplete
  BY DEF PersonalInv, ReaderInv, ActivityIsComplete, Now
<1> QED
  BY <1>1, <1>2, <1>3 DEF PersonalInv, PersonalIsKept

(* What the four modules keep for their users is kept: a success is not    *)
(* taken back, no access to the vault goes unaudited, who turns the pages  *)
(* of the activity misses nothing that was there, and rows are seen and    *)
(* changed by their owners alone: StoreItem, TipSignal, GetForUser,        *)
(* ClearForUser.                                                           *)
THEOREM PersonalIsKeptAlways == PersonalSpec => []PersonalIsKept
BY PersonalStarts, PersonalSteps, PersonalFollows, PTL DEF PersonalSpec

-----------------------------------------------------------------------------
(* Services                                                                 *)

(* A behaviour of the services is one of each component.                   *)
LEMMA EachIsFollowed ==
  ServicesSpec =>
    BreakerSpec /\ MarketSpec /\ CommunitySpec /\ LifecycleSpec /\ DeveloperSpec /\ AdmissionSpec /\ PersonalSpec
<1>1. ServicesInit => /\ BreakerInit /\ MarketInit /\ CommunityInit /\ LifecycleInit /\ DeveloperInit /\ AdmissionInit
                      /\ PersonalInit
  BY DEF ServicesInit
<1>2. [ServicesNext]_servicesVars =>
        /\ [BreakerNext]_breakerVars /\ [MarketNext]_marketVars /\ [CommunityNext]_communityVars
        /\ [LifecycleNext]_lifecycleVars /\ [DeveloperNext]_devVars /\ [AdmissionNext]_admissionVars
        /\ [PersonalNext]_personalVars
  BY DEF ServicesNext, BreakerPart, MarketPart, CommunityPart, LifecyclePart, DeveloperPart, AdmissionPart,
         PersonalPart, servicesVars
<1> QED
  BY <1>1, <1>2, PTL DEF ServicesSpec, BreakerSpec, MarketSpec, CommunitySpec, LifecycleSpec, DeveloperSpec, AdmissionSpec,
                         PersonalSpec

(* The services together keep what each keeps alone: the breaker's flag is *)
(* its counter's, stock is sold once, bans and ownership hold, what was    *)
(* kept for a user stays, the stores outlive their users, and neither the  *)
(* pool nor a limiter gives more than it has.                              *)
THEOREM ServicesHold ==
  ServicesSpec => [](/\ OpenAtThreshold /\ StockIsSold /\ BansHold /\ ProcessHolds
                     /\ KeptAndOwned /\ PoolSuffices /\ LimitHolds)
<1>1. ServicesSpec => [](RowsAreOwned /\ PersonalIsKept)
  BY EachIsFollowed, RowsAreOwnedAlways, PersonalIsKeptAlways, PTL
<1>2. RowsAreOwned /\ PersonalIsKept => KeptAndOwned
  BY DEF KeptAndOwned
<1> QED
  BY <1>1, <1>2, EachIsFollowed, FlagMatchesCount, StockIsSoldAlways, BansHoldAlways, ProcessHoldsAlways,
     PoolSufficesAlways, LimitHoldsAlways, PTL
=============================================================================
