---------------------------- MODULE Orchestrator ----------------------------
(***************************************************************************)
(* backend/internal/core/worker: the two engines of the Orchestrator, each *)
(* a buffered channel with a fixed set of goroutines, and their shutdown.  *)
(*                                                                         *)
(* The context the workers run with is the one that SIGTERM cancels        *)
(* (cmd/api/main.go), so it ends before the HTTP server has drained and    *)
(* before wiring.go calls Stop: handlers still submit in between.          *)
(***************************************************************************)
EXTENDS Integers, Sequences, FiniteSets

CONSTANTS
  StopOrder,   \* the pools, in the order in which Stop stops them
  Workers, WorksFor,   \* the goroutines and the pool of each
  Tasks, PoolOf,       \* what is submitted, and to which pool
  Ticks,       \* the tasks among them that a dispatcher submits
  QueueCap,    \* capacity of taskQueue
  Idle, Exited

Pools == {StopOrder[i] : i \in 1..Len(StopOrder)}

ASSUME OrchestratorAssumption ==
  /\ StopOrder \in Seq(Pools) /\ StopOrder # << >>
  /\ \A i, j \in 1..Len(StopOrder) : StopOrder[i] = StopOrder[j] => i = j
  /\ WorksFor \in [Workers -> Pools] /\ PoolOf \in [Tasks -> Pools]
  /\ Ticks \subseteq Tasks /\ QueueCap \in Nat \ {0}
  /\ Idle \notin Tasks /\ Exited \notin Tasks /\ Idle # Exited

VARIABLES
  taskQueue,  \* the buffer of each pool's channel
  stopCh,     \* the pools whose stopCh is closed
  done,       \* ctx.Done() is closed
  worker,     \* the task of each goroutine, Idle in its select, or Exited
  submit,     \* how far the Submit of each task is
  dispatcher, \* the pools whose dispatcher runs
  turn,       \* Orchestrator.Stop: the pool it is at; 0 before the call
  ran         \* the tasks that were executed to their end

vars == <<taskQueue, stopCh, done, worker, submit, dispatcher, turn, ran>>

Stopped == turn > Len(StopOrder)

Init ==
  /\ taskQueue = [p \in Pools |-> << >>]
  /\ stopCh = {} /\ done = FALSE
  /\ worker = [w \in Workers |-> Idle]
  /\ submit = [t \in Tasks |-> "no"]
  /\ dispatcher = Pools
  /\ turn = 0 /\ ran = {}

-----------------------------------------------------------------------------
(* Submit                                                                  *)

(* The first select: a closed stopCh refuses.                              *)
Check(t) ==
  /\ submit[t] = "no"
  /\ t \in Ticks => PoolOf[t] \in dispatcher
  /\ submit' = [submit EXCEPT ![t] = IF PoolOf[t] \in stopCh THEN "refused" ELSE "checked"]
  /\ UNCHANGED <<taskQueue, stopCh, done, worker, dispatcher, turn, ran>>

(* The second select: of the cases that are ready any may be taken, the    *)
(* default only when none is.                                              *)
Take(t) ==
  LET p == PoolOf[t]
  IN  /\ submit[t] = "checked" /\ Len(taskQueue[p]) < QueueCap
      /\ taskQueue' = [taskQueue EXCEPT ![p] = Append(@, t)]
      /\ submit' = [submit EXCEPT ![t] = "accepted"]
      /\ UNCHANGED <<stopCh, done, worker, dispatcher, turn, ran>>

(* Mutant: a task that waits for room after the answer was false.          *)
RejectButQueue(t) ==
  LET p == PoolOf[t]
  IN  /\ submit[t] = "checked"
      /\ p \in stopCh \/ Len(taskQueue[p]) = QueueCap
      /\ submit' = [submit EXCEPT ![t] = "refused"]
      /\ taskQueue' = [taskQueue EXCEPT ![p] = Append(@, t)]
      /\ UNCHANGED <<stopCh, done, worker, dispatcher, turn, ran>>

Reject(t) ==
  LET p == PoolOf[t]
  IN  /\ submit[t] = "checked"
      /\ p \in stopCh \/ Len(taskQueue[p]) = QueueCap
      /\ submit' = [submit EXCEPT ![t] = "refused"]
      /\ UNCHANGED <<taskQueue, stopCh, done, worker, dispatcher, turn, ran>>

(* The dispatcher's own select; Stop does not wait for it.                 *)
DispatcherReturns(p) ==
  /\ p \in dispatcher /\ (done \/ p \in stopCh)
  /\ dispatcher' = dispatcher \ {p}
  /\ UNCHANGED <<taskQueue, stopCh, done, worker, submit, turn, ran>>

-----------------------------------------------------------------------------
(* The goroutines                                                          *)

Receive(w) ==
  LET p == WorksFor[w]
  IN  /\ worker[w] = Idle /\ taskQueue[p] # << >>
      /\ worker' = [worker EXCEPT ![w] = Head(taskQueue[p])]
      /\ taskQueue' = [taskQueue EXCEPT ![p] = Tail(@)]
      /\ UNCHANGED <<stopCh, done, submit, dispatcher, turn, ran>>

(* Mutant: the goroutine returns after its task.                           *)
ExecuteAndReturn(w) ==
  /\ worker[w] \in Tasks
  /\ worker' = [worker EXCEPT ![w] = Exited] /\ ran' = ran \cup {worker[w]}
  /\ UNCHANGED <<taskQueue, stopCh, done, submit, dispatcher, turn>>

(* The task returns, with an error or without, and the loop goes on.       *)
Execute(w) ==
  /\ worker[w] \in Tasks
  /\ worker' = [worker EXCEPT ![w] = Idle] /\ ran' = ran \cup {worker[w]}
  /\ UNCHANGED <<taskQueue, stopCh, done, submit, dispatcher, turn>>

(* Mutant: break, which leaves the select and not the loop.                *)
Break(w) ==
  /\ worker[w] = Idle /\ (done \/ WorksFor[w] \in stopCh) /\ UNCHANGED vars

(* The select finds ctx.Done() or stopCh closed, even with tasks queued.   *)
Return(w) ==
  /\ worker[w] = Idle /\ (done \/ WorksFor[w] \in stopCh)
  /\ worker' = [worker EXCEPT ![w] = Exited]
  /\ UNCHANGED <<taskQueue, stopCh, done, submit, dispatcher, turn, ran>>

-----------------------------------------------------------------------------
(* Shutdown                                                                *)

Signal ==
  /\ ~done /\ done' = TRUE
  /\ UNCHANGED <<taskQueue, stopCh, worker, submit, dispatcher, turn, ran>>

(* cleanup calls Stop after the signal, whether the server drained or not. *)
Stop ==
  /\ done /\ turn = 0 /\ turn' = 1
  /\ UNCHANGED <<taskQueue, stopCh, done, worker, submit, dispatcher, ran>>

CloseStopCh(i) ==
  /\ turn = i /\ StopOrder[i] \notin stopCh
  /\ stopCh' = stopCh \cup {StopOrder[i]}
  /\ UNCHANGED <<taskQueue, done, worker, submit, dispatcher, turn, ran>>

(* wg.Wait                                                                 *)
Wait(i) ==
  /\ turn = i /\ StopOrder[i] \in stopCh
  /\ \A w \in Workers : WorksFor[w] = StopOrder[i] => worker[w] = Exited
  /\ turn' = i + 1
  /\ UNCHANGED <<taskQueue, stopCh, done, worker, submit, dispatcher, ran>>

StopStep == Stop \/ \E i \in 1..Len(StopOrder) : CloseStopCh(i) \/ Wait(i)

(* The process ends some time after cleanup.                               *)
Terminated == Stopped /\ UNCHANGED vars

Next ==
  \/ \E t \in Tasks : Check(t) \/ Take(t) \/ Reject(t)
  \/ \E p \in Pools : DispatcherReturns(p)
  \/ \E w \in Workers : Receive(w) \/ Execute(w) \/ Return(w)
  \/ Signal \/ StopStep \/ Terminated

Spec == Init /\ [][Next]_vars

(* A goroutine with a ready case or a running task goes on, and so does    *)
(* the one that shuts down.  Nothing makes the signal come.                *)
FairSpec ==
  /\ Spec
  /\ \A w \in Workers : WF_vars(Receive(w) \/ Return(w)) /\ WF_vars(Execute(w))
  /\ WF_vars(StopStep)

-----------------------------------------------------------------------------
(* Correctness                                                             *)

TypeOK ==
  /\ taskQueue \in [Pools -> Seq(Tasks)]
  /\ stopCh \subseteq Pools /\ done \in BOOLEAN
  /\ worker \in [Workers -> Tasks \cup {Idle, Exited}]
  /\ submit \in [Tasks -> {"no", "checked", "accepted", "refused"}]
  /\ dispatcher \subseteq Pools
  /\ turn \in 0..(Len(StopOrder) + 1) /\ ran \subseteq Tasks

Queued(t) == \E i \in 1..Len(taskQueue[PoolOf[t]]) : taskQueue[PoolOf[t]][i] = t
Runs(t) == \E w \in Workers : worker[w] = t

(* cleanup closes PostgreSQL, NATS and ScyllaDB after Stop: no task runs   *)
(* with a closed client.                                                   *)
QuietOnceStopped == Stopped => \A t \in Tasks : ~Runs(t)

(* A task is in one place: it is neither run by two goroutines nor again.  *)
OnePlace ==
  \A t \in Tasks :
    /\ Runs(t) => t \notin ran /\ ~Queued(t)
    /\ Queued(t) => t \notin ran
    /\ \A v, w \in Workers : worker[v] = t /\ worker[w] = t => v = w

(* As long as nothing shuts down, what Submit took is executed.            *)
AcceptedRuns == \A t \in Tasks : submit[t] = "accepted" ~> t \in ran \/ done

(* Stop returns, with however many tasks queued, if each task does.        *)
StopReturns == done ~> Stopped

(* The detailed pools keep what TaskPool promises.                         *)
FateOf(t) ==
  IF t \in ran THEN "done"
  ELSE IF Runs(t) THEN "running"
  ELSE IF submit[t] = "accepted" THEN "waiting"
  ELSE IF submit[t] = "refused" THEN "refused" ELSE "none"

Promise == INSTANCE TaskPool
  WITH fate <- [t \in Tasks |-> FateOf(t)],
       pools <- IF Stopped THEN "closed" ELSE IF done THEN "closing" ELSE "open"

KeepsPromise == Promise!PoolSpec

-----------------------------------------------------------------------------
(* The inductive invariant behind the theorems of OrchestratorProofs       *)

(* Stop is past a pool only when the goroutines of that pool are gone.     *)
TurnInv ==
  /\ turn > 0 => done
  /\ \A i \in 1..Len(StopOrder) : turn > i =>
       \A w \in Workers : WorksFor[w] = StopOrder[i] => worker[w] = Exited

(* What is queued, running or executed was accepted, and is queued once.   *)
QueueInv ==
  \A p \in Pools : \A i \in 1..Len(taskQueue[p]) :
    /\ PoolOf[taskQueue[p][i]] = p /\ submit[taskQueue[p][i]] = "accepted"
    /\ taskQueue[p][i] \notin ran /\ ~Runs(taskQueue[p][i])
    /\ \A j \in 1..Len(taskQueue[p]) : taskQueue[p][i] = taskQueue[p][j] => i = j

RunInv ==
  /\ \A t \in ran : submit[t] = "accepted"
  /\ \A w \in Workers : worker[w] \in Tasks =>
       /\ submit[worker[w]] = "accepted" /\ worker[w] \notin ran
       /\ \A v \in Workers : worker[v] = worker[w] => v = w

IInv == TypeOK /\ TurnInv /\ QueueInv /\ RunInv
=============================================================================
