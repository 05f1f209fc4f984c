------------------------- MODULE OrchestratorProofs -------------------------
(***************************************************************************)
(* Theorems of Orchestrator for any pools, goroutines, tasks and capacity. *)
(***************************************************************************)
EXTENDS Orchestrator, SequenceTheorems, TLAPS

(* At the start the queue is empty and no task has been submitted.         *)
LEMMA InitInv == Init => IInv
<1> USE OrchestratorAssumption DEF OrchestratorAssumption
<1>1. ASSUME Init PROVE TypeOK
  <2>1. taskQueue \in [Pools -> Seq(Tasks)]
    BY <1>1 DEF Init
  <2>2. Len(StopOrder) \in Nat
    OBVIOUS
  <2>3. turn \in 0..(Len(StopOrder) + 1)
    BY <1>1, <2>2 DEF Init
  <2>4. /\ worker \in [Workers -> Tasks \cup {Idle, Exited}]
        /\ submit \in [Tasks -> {"no", "checked", "accepted", "refused"}]
    BY <1>1 DEF Init
  <2>5. stopCh \subseteq Pools /\ done \in BOOLEAN /\ dispatcher \subseteq Pools /\ ran \subseteq Tasks
    BY <1>1 DEF Init
  <2> QED
    BY <2>1, <2>3, <2>4, <2>5 DEF TypeOK
<1>2. ASSUME Init PROVE TurnInv /\ QueueInv /\ RunInv
  BY <1>2 DEF Init, TurnInv, QueueInv, RunInv, Runs
<1> QED
  BY <1>1, <1>2 DEF IInv

(* The steps that change only what the invariant relates to nothing else.  *)
LEMMA QuietSteps ==
  ASSUME IInv,
         \/ \E t \in Tasks : Check(t) \/ Reject(t)
         \/ \E p \in Pools : DispatcherReturns(p)
         \/ Signal \/ Terminated \/ UNCHANGED vars
  PROVE  IInv'
<1> USE OrchestratorAssumption DEF OrchestratorAssumption
<1>1. UNCHANGED <<taskQueue, worker, turn, ran>> /\ (done => done')
  BY DEF Check, Reject, DispatcherReturns, Signal, Terminated, vars, IInv, TypeOK
<1>2. TypeOK'
  BY DEF IInv, TypeOK, Check, Reject, DispatcherReturns, Signal, Terminated, vars
<1>3. \A t \in Tasks : submit[t] = "accepted" => submit'[t] = "accepted"
  BY DEF IInv, TypeOK, Check, Reject, DispatcherReturns, Signal, Terminated, vars
<1>4. TurnInv'
  BY <1>1 DEF IInv, TurnInv
<1>5. QueueInv'
  BY <1>1, <1>3 DEF IInv, TypeOK, QueueInv, Runs
<1>6. RunInv'
  BY <1>1, <1>3 DEF IInv, TypeOK, RunInv
<1> QED
  BY <1>2, <1>4, <1>5, <1>6 DEF IInv

(* Stopping, closing the channels, waiting and returning from Shutdown     *)
(* keep the invariant.                                                     *)
LEMMA StopSteps ==
  ASSUME IInv, StopStep
  PROVE  IInv'
<1> USE OrchestratorAssumption DEF OrchestratorAssumption
<1>1. UNCHANGED <<taskQueue, worker, submit, ran, done>>
  BY DEF StopStep, Stop, CloseStopCh, Wait
<1>2. TypeOK'
  <2>1. Len(StopOrder) \in Nat
    OBVIOUS
  <2>2. \A i \in 1..Len(StopOrder) : StopOrder[i] \in Pools
    OBVIOUS
  <2>3. turn' \in 0..(Len(StopOrder) + 1) /\ stopCh' \subseteq Pools
    BY <2>1, <2>2 DEF IInv, TypeOK, StopStep, Stop, CloseStopCh, Wait
  <2>4. dispatcher' = dispatcher
    BY DEF StopStep, Stop, CloseStopCh, Wait
  <2> QED
    BY <1>1, <2>3, <2>4 DEF IInv, TypeOK
<1>3. TurnInv'
  <2>1. CASE Stop
    BY <2>1 DEF IInv, TypeOK, TurnInv, Stop
  <2>2. ASSUME NEW i \in 1..Len(StopOrder), CloseStopCh(i) PROVE TurnInv'
    BY <2>2 DEF IInv, TypeOK, TurnInv, CloseStopCh
  <2>3. ASSUME NEW i \in 1..Len(StopOrder), Wait(i) PROVE TurnInv'
    BY <2>3 DEF IInv, TypeOK, TurnInv, Wait
  <2> QED
    BY <2>1, <2>2, <2>3 DEF StopStep
<1>4. QueueInv' /\ RunInv'
  BY <1>1 DEF IInv, QueueInv, RunInv, Runs
<1> QED
  BY <1>2, <1>3, <1>4 DEF IInv

(* A task that enters the channel is counted once.                         *)
LEMMA TakeStep ==
  ASSUME IInv, NEW t \in Tasks, Take(t)
  PROVE  IInv'
<1> USE OrchestratorAssumption DEF OrchestratorAssumption
<1> DEFINE p == PoolOf[t]  q == taskQueue[p]
<1>1. /\ UNCHANGED <<stopCh, done, worker, dispatcher, turn, ran>>
      /\ submit[t] = "checked" /\ submit' = [submit EXCEPT ![t] = "accepted"]
      /\ taskQueue' = [taskQueue EXCEPT ![p] = Append(q, t)]
  BY DEF Take
<1>2. /\ p \in Pools /\ q \in Seq(Tasks)
      /\ taskQueue \in [Pools -> Seq(Tasks)] /\ DOMAIN submit = Tasks
  BY DEF IInv, TypeOK
<1>3. TypeOK'
  BY <1>1, <1>2 DEF IInv, TypeOK
<1>4. TurnInv'
  BY <1>1 DEF IInv, TurnInv
<1>5. RunInv'
  BY <1>1, <1>2 DEF IInv, TypeOK, RunInv
<1>6. t \notin ran /\ ~Runs(t)
  BY <1>1 DEF IInv, RunInv, Runs
<1>7. QueueInv'
  <2> SUFFICES ASSUME NEW o \in Pools, NEW i \in 1..Len(taskQueue'[o])
      PROVE /\ PoolOf[taskQueue'[o][i]] = o /\ submit'[taskQueue'[o][i]] = "accepted"
            /\ taskQueue'[o][i] \notin ran /\ ~Runs(taskQueue'[o][i])
            /\ \A j \in 1..Len(taskQueue'[o]) : taskQueue'[o][i] = taskQueue'[o][j] => i = j
    BY <1>1 DEF QueueInv, Runs
  <2>1. CASE o # p
    <3>1. taskQueue'[o] = taskQueue[o]
      BY <1>1, <1>2, <2>1
    <3>2. \A j \in 1..Len(taskQueue[o]) : taskQueue[o][j] \in Tasks
      BY <1>2
    <3> QED
      BY <1>1, <1>2, <3>1, <3>2 DEF IInv, QueueInv
  <2>2. CASE o = p
    <3>1. /\ taskQueue'[o] = Append(q, t) /\ Len(taskQueue'[o]) = Len(q) + 1
          /\ Len(q) \in Nat
      BY <1>1, <1>2, <2>2
    <3>2. \A j \in 1..Len(q) : taskQueue'[o][j] = q[j] /\ q[j] \in Tasks
      BY <1>2, <3>1
    <3>3. taskQueue'[o][Len(q) + 1] = t
      BY <1>2, <3>1
    <3>4. \A j \in 1..Len(q) : /\ PoolOf[q[j]] = p /\ submit[q[j]] = "accepted"
                               /\ q[j] \notin ran /\ ~Runs(q[j]) /\ q[j] # t
                               /\ \A k \in 1..Len(q) : q[j] = q[k] => j = k
      BY <1>1, <1>2 DEF IInv, QueueInv
    <3>5. CASE i \in 1..Len(q)
      <4>1. taskQueue'[o][i] = q[i] /\ q[i] # t /\ submit'[q[i]] = submit[q[i]]
        BY <1>1, <1>2, <3>2, <3>4, <3>5
      <4>2. ASSUME NEW j \in 1..Len(taskQueue'[o]), q[i] = taskQueue'[o][j] PROVE i = j
        <5>1. CASE j \in 1..Len(q)
          BY <3>2, <3>4, <3>5, <4>2, <5>1
        <5>2. CASE j = Len(q) + 1
          BY <3>3, <3>4, <3>5, <4>2, <5>2
        <5> QED
          BY <3>1, <5>1, <5>2
      <4> QED
        BY <2>2, <3>4, <3>5, <4>1, <4>2
    <3>6. CASE i = Len(q) + 1
      BY <1>1, <1>2, <1>6, <2>2, <3>1, <3>2, <3>3, <3>4, <3>6
    <3>7. i \in 1..Len(q) \/ i = Len(q) + 1
      BY <3>1
    <3> QED
      BY <3>5, <3>6, <3>7
  <2> QED
    BY <2>1, <2>2
<1> QED
  BY <1>3, <1>4, <1>5, <1>7 DEF IInv

(* A worker that receives takes the oldest task out of the channel.        *)
LEMMA ReceiveStep ==
  ASSUME IInv, NEW w \in Workers, Receive(w)
  PROVE  IInv'
<1> USE OrchestratorAssumption DEF OrchestratorAssumption
<1> DEFINE p == WorksFor[w]  q == taskQueue[p]  t == Head(q)
<1>1. /\ UNCHANGED <<stopCh, done, submit, dispatcher, turn, ran>>
      /\ worker[w] = Idle /\ worker' = [worker EXCEPT ![w] = t]
      /\ q # << >> /\ taskQueue' = [taskQueue EXCEPT ![p] = Tail(q)]
  BY DEF Receive
<1>2. /\ p \in Pools /\ q \in Seq(Tasks) /\ taskQueue \in [Pools -> Seq(Tasks)]
      /\ worker \in [Workers -> Tasks \cup {Idle, Exited}]
  BY DEF IInv, TypeOK
<1>3. /\ t \in Tasks /\ t = q[1] /\ Len(q) \in Nat \ {0} /\ Tail(q) \in Seq(Tasks)
      /\ Len(Tail(q)) = Len(q) - 1
  BY <1>1, <1>2
<1>4. \A i \in 1..Len(Tail(q)) : Tail(q)[i] = q[i + 1] /\ i + 1 \in 1..Len(q)
  BY <1>1, <1>2, <1>3
<1>5. TypeOK'
  BY <1>1, <1>2, <1>3 DEF IInv, TypeOK
<1>6. TurnInv'
  BY <1>1, <1>2 DEF IInv, TurnInv, OrchestratorAssumption
<1>7. PoolOf[t] = p /\ submit[t] = "accepted" /\ t \notin ran /\ ~Runs(t)
  BY <1>2, <1>3 DEF IInv, QueueInv
<1>8. RunInv'
  BY <1>1, <1>2, <1>3, <1>7 DEF IInv, RunInv, Runs
<1>9. \A v \in Workers : worker'[v] = worker[v] \/ worker'[v] = t
  BY <1>1, <1>2
<1>10. QueueInv'
  <2> SUFFICES ASSUME NEW o \in Pools, NEW i \in 1..Len(taskQueue'[o])
      PROVE /\ PoolOf[taskQueue'[o][i]] = o /\ submit'[taskQueue'[o][i]] = "accepted"
            /\ taskQueue'[o][i] \notin ran'
            /\ ~\E v \in Workers : worker'[v] = taskQueue'[o][i]
            /\ \A j \in 1..Len(taskQueue'[o]) : taskQueue'[o][i] = taskQueue'[o][j] => i = j
    BY DEF QueueInv, Runs
  <2>1. CASE o # p
    <3>1. taskQueue'[o] = taskQueue[o]
      BY <1>1, <1>2, <2>1
    <3>2. taskQueue[o][i] \in Tasks /\ PoolOf[taskQueue[o][i]] = o
      BY <1>2, <3>1 DEF IInv, QueueInv
    <3>3. taskQueue[o][i] # t
      BY <1>7, <2>1, <3>2
    <3> QED
      BY <1>1, <1>9, <3>1, <3>2, <3>3 DEF IInv, QueueInv, Runs
  <2>2. CASE o = p
    <3>1. taskQueue'[o] = Tail(q)
      BY <1>1, <1>2, <2>2
    <3>2. taskQueue'[o][i] = q[i + 1] /\ i + 1 \in 1..Len(q) /\ q[i + 1] \in Tasks
      BY <1>2, <1>4, <3>1
    <3>3. /\ PoolOf[q[i + 1]] = p /\ submit[q[i + 1]] = "accepted"
          /\ q[i + 1] \notin ran /\ ~Runs(q[i + 1])
          /\ \A j \in 1..Len(q) : q[i + 1] = q[j] => i + 1 = j
      BY <1>2, <3>2 DEF IInv, QueueInv
    <3>4. q[i + 1] # t
      BY <1>3, <3>2, <3>3
    <3>5. ASSUME NEW j \in 1..Len(taskQueue'[o]), taskQueue'[o][i] = taskQueue'[o][j]
          PROVE  i = j
      <4>1. taskQueue'[o][j] = q[j + 1] /\ j + 1 \in 1..Len(q)
        BY <1>4, <3>1
      <4>2. i + 1 = j + 1
        BY <3>2, <3>3, <3>5, <4>1
      <4> QED
        BY <1>3, <3>1, <4>2
    <3> QED
      BY <1>1, <1>9, <2>2, <3>2, <3>3, <3>4, <3>5 DEF Runs
  <2> QED
    BY <2>1, <2>2
<1> QED
  BY <1>5, <1>6, <1>8, <1>10 DEF IInv

(* A task that ends leaves its worker idle, and a worker that returns      *)
(* holds none.                                                             *)
LEMMA ExecuteStep ==
  ASSUME IInv, NEW w \in Workers, Execute(w) \/ Return(w)
  PROVE  IInv'
<1> USE OrchestratorAssumption DEF OrchestratorAssumption
<1>1. /\ UNCHANGED <<taskQueue, stopCh, done, submit, dispatcher, turn>>
      /\ worker \in [Workers -> Tasks \cup {Idle, Exited}]
      /\ worker[w] # Exited
      /\ \/ worker' = [worker EXCEPT ![w] = Idle] /\ worker[w] \in Tasks
            /\ ran' = ran \cup {worker[w]}
         \/ worker' = [worker EXCEPT ![w] = Exited] /\ ran' = ran
  BY DEF IInv, TypeOK, Execute, Return
<1>2. TypeOK'
  BY <1>1 DEF IInv, TypeOK
<1>3. TurnInv'
  BY <1>1 DEF IInv, TurnInv
<1>4. RunInv'
  BY <1>1 DEF IInv, RunInv
<1>5. \A s \in Tasks : (Runs(s)' => Runs(s)) /\ (s \in ran' => s \in ran \/ Runs(s))
  BY <1>1 DEF Runs
<1>6. QueueInv'
  <2>1. \A p \in Pools : \A i \in 1..Len(taskQueue[p]) : taskQueue[p][i] \in Tasks
    BY DEF IInv, TypeOK
  <2> QED
    BY <1>1, <1>5, <2>1 DEF IInv, QueueInv
<1> QED
  BY <1>2, <1>3, <1>4, <1>6 DEF IInv

(* One step of any kind keeps the inductive invariant.                     *)
LEMMA NextInv == IInv /\ [Next]_vars => IInv'
BY QuietSteps, StopSteps, TakeStep, ReceiveStep, ExecuteStep DEF Next

(* The invariant holds in every behaviour.                                 *)
LEMMA Inductive == Spec => []IInv
BY InitInv, NextInv, PTL DEF Spec

(* Every pool is in StopOrder, so once Stop is past the last one no        *)
(* goroutine of any pool is left.                                          *)
LEMMA StoppedIsQuiet ==
  ASSUME IInv, Stopped
  PROVE  \A w \in Workers : worker[w] = Exited
<1> USE OrchestratorAssumption DEF OrchestratorAssumption
<1>1. TAKE w \in Workers
<1>2. PICK i \in 1..Len(StopOrder) : WorksFor[w] = StopOrder[i]
  BY <1>1 DEF Pools
<1>3. turn > i
  BY <1>2 DEF Stopped, IInv, TypeOK
<1> QED
  BY <1>1, <1>2, <1>3 DEF IInv, TurnInv

(* When Stop has returned no task runs, so cleanup may close the clients   *)
(* the tasks use.                                                          *)
THEOREM NothingRunsAfterStop == Spec => []QuietOnceStopped
<1>1. IInv => QuietOnceStopped
  <2> USE OrchestratorAssumption DEF OrchestratorAssumption
  <2> QED
    BY StoppedIsQuiet DEF QuietOnceStopped, Runs
<1> QED
  BY <1>1, Inductive, PTL

(* A task is queued, running or executed, in one place and never again.    *)
THEOREM TasksRunOnce == Spec => []OnePlace
<1>1. IInv => OnePlace
  <2> USE OrchestratorAssumption DEF OrchestratorAssumption
  <2> QED
    BY DEF IInv, QueueInv, RunInv, OnePlace, Queued, Runs
<1> QED
  BY <1>1, Inductive, PTL

-----------------------------------------------------------------------------
(* The implementation of TaskPool                                          *)

Fate == [t \in Tasks |-> FateOf(t)]
PoolsOf == IF Stopped THEN "closed" ELSE IF done THEN "closing" ELSE "open"

(* No task changes its fate, or one task does.                             *)
FateStep(t, before, after) == FateOf(t) = before /\ Fate' = [Fate EXCEPT ![t] = after]

(* A submission is refused or waits, and changes no other task.            *)
LEMMA SubmitFate ==
  ASSUME IInv, NEW t \in Tasks, Check(t) \/ Take(t) \/ Reject(t)
  PROVE  /\ UNCHANGED PoolsOf
         /\ \/ UNCHANGED Fate
            \/ FateStep(t, "none", "refused")
            \/ FateStep(t, "none", "waiting")
<1>1. UNCHANGED <<worker, ran, turn, done>> /\ UNCHANGED PoolsOf
  BY DEF Check, Take, Reject, PoolsOf, Stopped
<1>2. submit \in [Tasks -> {"no", "checked", "accepted", "refused"}]
  BY DEF IInv, TypeOK
<1>3. submit[t] \in {"no", "checked"}
      /\ \E a \in {"checked", "refused", "accepted"} : submit' = [submit EXCEPT ![t] = a]
  BY DEF Check, Take, Reject
<1>4. t \notin ran /\ ~Runs(t)
  BY <1>3 DEF IInv, RunInv, Runs
<1>5. FateOf(t) = "none"
  BY <1>3, <1>4 DEF FateOf
<1>6. \A s \in Tasks : Runs(s)' = Runs(s)
  BY <1>1 DEF Runs
<1>7. \A s \in Tasks \ {t} : FateOf(s)' = FateOf(s)
  BY <1>1, <1>2, <1>3, <1>6 DEF FateOf
<1>8. FateOf(t)' \in {"none", "refused", "waiting"}
  BY <1>1, <1>2, <1>3, <1>4, <1>6 DEF FateOf
<1> QED
  BY <1>1, <1>5, <1>7, <1>8 DEF FateStep, Fate

(* A receive sets one waiting task running, and only before the pools are  *)
(* closed.                                                                 *)
LEMMA ReceiveFate ==
  ASSUME IInv, NEW w \in Workers, Receive(w)
  PROVE  /\ UNCHANGED PoolsOf /\ PoolsOf # "closed"
         /\ \E t \in Tasks : FateStep(t, "waiting", "running")
<1> USE OrchestratorAssumption DEF OrchestratorAssumption
<1> DEFINE p == WorksFor[w]  q == taskQueue[p]
<1>0. PICK t : t = Head(q)
  OBVIOUS
<1>1. /\ UNCHANGED <<submit, done, turn, ran>> /\ worker[w] = Idle
      /\ worker' = [worker EXCEPT ![w] = t] /\ q # << >>
  BY <1>0 DEF Receive
<1>2. /\ p \in Pools /\ q \in Seq(Tasks)
      /\ worker \in [Workers -> Tasks \cup {Idle, Exited}]
  BY DEF IInv, TypeOK
<1>3. t \in Tasks /\ t = q[1] /\ 1 \in 1..Len(q)
  BY <1>0, <1>1, <1>2
<1>4. submit[t] = "accepted" /\ t \notin ran /\ ~Runs(t)
  BY <1>2, <1>3 DEF IInv, QueueInv
<1>5. ~Stopped
  BY <1>1, StoppedIsQuiet
<1>6. UNCHANGED PoolsOf /\ PoolsOf # "closed"
  BY <1>1, <1>5 DEF PoolsOf, Stopped
<1>7. Runs(t)' /\ \A s \in Tasks \ {t} : Runs(s)' = Runs(s)
  BY <1>1, <1>2, <1>3 DEF Runs
<1>8. FateOf(t) = "waiting" /\ FateOf(t)' = "running"
  BY <1>1, <1>4, <1>7 DEF FateOf
<1>9. \A s \in Tasks \ {t} : FateOf(s)' = FateOf(s)
  BY <1>1, <1>7 DEF FateOf
<1>10. FateStep(t, "waiting", "running")
  BY <1>3, <1>8, <1>9 DEF FateStep, Fate
<1> QED
  BY <1>3, <1>6, <1>10

(* An execution ends the one task that its worker runs.                    *)
LEMMA ExecuteFate ==
  ASSUME IInv, NEW w \in Workers, Execute(w)
  PROVE  UNCHANGED PoolsOf /\ \E t \in Tasks : FateStep(t, "running", "done")
<1> USE OrchestratorAssumption DEF OrchestratorAssumption
<1>0. PICK t : t = worker[w]
  OBVIOUS
<1>1. /\ t \in Tasks /\ UNCHANGED <<submit, done, turn>>
      /\ worker' = [worker EXCEPT ![w] = Idle] /\ ran' = ran \cup {t}
  BY <1>0 DEF Execute
<1>2. worker \in [Workers -> Tasks \cup {Idle, Exited}]
  BY DEF IInv, TypeOK
<1>3. t \notin ran /\ Runs(t)
  BY <1>0, <1>1 DEF IInv, RunInv, Runs
<1>4. \A s \in Tasks \ {t} : Runs(s)' = Runs(s) /\ (s \in ran' <=> s \in ran)
  BY <1>0, <1>1, <1>2 DEF Runs
<1>5. FateOf(t) = "running" /\ FateOf(t)' = "done"
  BY <1>1, <1>3 DEF FateOf
<1>6. \A s \in Tasks \ {t} : FateOf(s)' = FateOf(s)
  BY <1>1, <1>4 DEF FateOf
<1>7. UNCHANGED PoolsOf
  BY <1>1 DEF PoolsOf, Stopped
<1> QED
  BY <1>1, <1>5, <1>6, <1>7 DEF FateStep, Fate

(* The steps that no caller sees.                                          *)
LEMMA HiddenFate ==
  ASSUME IInv,
         \/ \E p \in Pools : DispatcherReturns(p)
         \/ \E w \in Workers : Return(w)
         \/ Signal \/ StopStep \/ Terminated \/ UNCHANGED vars
  PROVE  UNCHANGED Fate
<1> USE OrchestratorAssumption DEF OrchestratorAssumption
<1>1. UNCHANGED <<submit, ran>>
  BY DEF DispatcherReturns, Return, Signal, StopStep, Stop, CloseStopCh, Wait, Terminated, vars
<1>2. \A t \in Tasks : Runs(t)' = Runs(t)
  <2>1. CASE \E w \in Workers : Return(w)
    BY <2>1 DEF IInv, TypeOK, Return, Runs
  <2>2. CASE worker' = worker
    BY <2>2 DEF Runs
  <2> QED
    BY <2>1, <2>2 DEF DispatcherReturns, Signal, StopStep, Stop, CloseStopCh, Wait, Terminated, vars
<1>3. \A t \in Tasks : FateOf(t)' = FateOf(t)
  BY <1>1, <1>2 DEF FateOf
<1> QED
  BY <1>3 DEF Fate

(* Shutting down opens nothing again, and the pools close when no task     *)
(* runs.                                                                   *)
LEMMA ShutdownFate ==
  ASSUME IInv, IInv', Signal \/ StopStep
  PROVE  \/ UNCHANGED PoolsOf
         \/ PoolsOf = "open" /\ PoolsOf' = "closing"
         \/ /\ PoolsOf = "closing" /\ PoolsOf' = "closed"
            /\ \A t \in Tasks : FateOf(t) # "running"
<1> USE OrchestratorAssumption DEF OrchestratorAssumption
<1>1. Len(StopOrder) \in Nat \ {0} /\ turn \in Nat /\ (turn > 0 => done)
  BY DEF IInv, TypeOK, TurnInv
<1>2. CASE Signal
  BY <1>1, <1>2 DEF Signal, PoolsOf, Stopped
<1>3. CASE Stop \/ \E i \in 1..Len(StopOrder) : CloseStopCh(i)
  BY <1>1, <1>3 DEF Stop, CloseStopCh, PoolsOf, Stopped
<1>4. ASSUME NEW i \in 1..Len(StopOrder), Wait(i)
      PROVE  \/ UNCHANGED PoolsOf
             \/ /\ PoolsOf = "closing" /\ PoolsOf' = "closed"
                /\ \A t \in Tasks : FateOf(t) # "running"
  <2>1. ~Stopped /\ done /\ done' /\ UNCHANGED worker /\ turn' = i + 1 /\ turn = i
    BY <1>1, <1>4 DEF Wait, Stopped
  <2>2. CASE ~Stopped'
    BY <2>1, <2>2 DEF PoolsOf
  <2>3. CASE Stopped'
    <3>1. \A w \in Workers : worker[w] = Exited
      <4>1. TAKE w \in Workers
      <4>2. PICK j \in 1..Len(StopOrder) : WorksFor[w] = StopOrder[j]
        BY <4>1 DEF Pools
      <4>3. turn' > j
        BY <1>1, <2>1, <2>3 DEF Stopped
      <4> QED
        BY <2>1, <4>1, <4>2, <4>3 DEF IInv, TurnInv
    <3>2. \A t \in Tasks : FateOf(t) # "running"
      BY <3>1 DEF FateOf, Runs
    <3> QED
      BY <2>1, <2>3, <3>2 DEF PoolsOf
  <2> QED
    BY <2>2, <2>3
<1> QED
  BY <1>2, <1>3, <1>4 DEF StopStep

(* The engines and their shutdown implement TaskPool: a task runs at most  *)
(* once, only after it was accepted, and never after Stop returned.        *)
THEOREM OrchestratorKeepsPromise == Spec => KeepsPromise
<1>1. Init => Promise!PoolInit
  <2> SUFFICES ASSUME Init PROVE Promise!PoolInit
    OBVIOUS
  <2> USE OrchestratorAssumption DEF OrchestratorAssumption
  <2>1. \A t \in Tasks : FateOf(t) = "none"
    BY DEF Init, FateOf, Runs
  <2>2. ~Stopped /\ ~done
    BY DEF Init, Stopped
  <2> QED
    BY <2>1, <2>2 DEF Promise!PoolInit
<1>2. IInv /\ IInv' /\ [Next]_vars => [Promise!PoolNext]_Promise!poolVars
  <2> SUFFICES ASSUME IInv, IInv', [Next]_vars
               PROVE  [Promise!PoolNext]_Promise!poolVars
    OBVIOUS
  <2> USE DEF Fate, PoolsOf, FateStep
  <2>1. CASE \E t \in Tasks : Check(t) \/ Take(t) \/ Reject(t)
    <3>1. PICK t \in Tasks : Check(t) \/ Take(t) \/ Reject(t)
      BY <2>1
    <3>2. CASE UNCHANGED Fate
      BY <3>1, <3>2, SubmitFate DEF Promise!poolVars
    <3>3. CASE FateStep(t, "none", "refused")
      BY <3>1, <3>3, SubmitFate DEF Promise!PoolNext, Promise!Refuse, Promise!Becomes
    <3>4. CASE FateStep(t, "none", "waiting")
      BY <3>1, <3>4, SubmitFate DEF Promise!PoolNext, Promise!Accept, Promise!Becomes
    <3> QED
      BY <3>1, <3>2, <3>3, <3>4, SubmitFate
  <2>2. CASE \E w \in Workers : Receive(w)
    <3>1. PICK t \in Tasks : FateStep(t, "waiting", "running")
      BY <2>2, ReceiveFate
    <3> QED
      BY <2>2, <3>1, ReceiveFate DEF Promise!PoolNext, Promise!Begin, Promise!Becomes
  <2>3. CASE \E w \in Workers : Execute(w)
    <3>1. PICK t \in Tasks : FateStep(t, "running", "done")
      BY <2>3, ExecuteFate
    <3> QED
      BY <2>3, <3>1, ExecuteFate DEF Promise!PoolNext, Promise!End, Promise!Becomes
  <2>4. CASE Signal \/ StopStep
    BY <2>4, HiddenFate, ShutdownFate
       DEF Promise!PoolNext, Promise!Close, Promise!Closed, Promise!poolVars
  <2>5. CASE \/ \E p \in Pools : DispatcherReturns(p)
             \/ \E w \in Workers : Return(w)
             \/ Terminated \/ UNCHANGED vars
    <3>1. UNCHANGED <<done, turn>>
      BY <2>5 DEF DispatcherReturns, Return, Terminated, vars
    <3> QED
      BY <2>5, <3>1, HiddenFate DEF Promise!poolVars, Stopped
  <2> QED
    BY <2>1, <2>2, <2>3, <2>4, <2>5 DEF Next
<1> QED
  BY <1>1, <1>2, Inductive, PTL DEF Spec, KeepsPromise, Promise!PoolSpec
=============================================================================
