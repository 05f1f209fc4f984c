------------------------------ MODULE Lifecycle ------------------------------
(***************************************************************************)
(* How the process begins and ends: backend/cmd/api/main.go and BuildApp   *)
(* of backend/internal/core/wiring.  Its parts are made one after the      *)
(* other; it serves without ScyllaDB, and outside production without NATS. *)
(* At a signal the server drains, for a while, and the parts are closed    *)
(* one after the other.  Handlers use the stores, and leave tasks to the   *)
(* workers, which use them as well.                                        *)
(***************************************************************************)
EXTENDS Naturals, Sequences

CONSTANT Requests

VARIABLES
  main,      \* where main is: the part it makes, then "serving" and on
  wired,     \* the clients and engines that were made
  told,      \* history: whether /health/ready has answered that it is
  turn,      \* the part that the cleanup closes next
  forced,    \* whether the 15 seconds of the drain ran out
  request,   \* where the handler of each request is
  task       \* where the task that it left to the workers is

lifecycleVars == <<main, wired, told, turn, forced, request, task>>
made == <<wired, told>>

Cleanup == <<"subscriptions", "hub", "workers", "nats", "redis", "postgres", "scylla">>
ClosedParts == {Cleanup[i] : i \in 1..(turn - 1)}

(* Close of the pool turns callers away at once, and then waits for the    *)
(* connections that are out.                                               *)
PoolCloses == turn >= 6

LifecycleInit ==
  /\ main = "config" /\ wired = {} /\ told = FALSE /\ turn = 1 /\ forced = FALSE
  /\ request = [r \in Requests |-> "none"] /\ task = [r \in Requests |-> "none"]

Serves == main \in {"serving", "draining", "closing"}
Ended(r) == request[r] \in {"none", "done", "broken", "failed"}

-----------------------------------------------------------------------------
(* The start                                                               *)

GoesOn(next) == main' = next /\ UNCHANGED <<told, turn, forced, request, task>>
Makes(part) == wired' = wired \cup {part}

(* The part is there, or the step is fatal.                                *)
NewPostgresPool == main = "postgres" /\ Makes("postgres") /\ GoesOn("redis")
NewStorage == main = "storage" /\ Makes("storage") /\ GoesOn("hub")
NewDefaultEnforcer == main = "policy" /\ Makes("policy") /\ GoesOn("stories")
RegisterStoriesRoutes == main = "stories" /\ GoesOn("serving") /\ UNCHANGED wired
Load == main = "config" /\ GoesOn("postgres") /\ UNCHANGED wired

(* A client of Redis connects when it is used.                             *)
NewRedis == main = "redis" /\ Makes("redis") /\ GoesOn("scylla")

(* No hosts are named, or none can be reached: the process does without.   *)
NewScylla == main = "scylla" /\ (Makes("scylla") \/ UNCHANGED wired) /\ GoesOn("nats")

Connect ==
  /\ main = "nats"
  /\ \/ Makes("nats") /\ GoesOn("streams")
     \/ UNCHANGED wired /\ GoesOn("required")

(* A bus whose streams cannot be set up is closed and given up.            *)
EnsureStreams ==
  /\ main = "streams" /\ (wired' = wired \ {"nats"} \/ UNCHANGED wired)
  /\ GoesOn("required")

(* Without a bus the process goes on only outside production.              *)
RequireBus == main = "required" /\ GoesOn("workers") /\ UNCHANGED wired

StartWorkers == main = "workers" /\ Makes("workers") /\ GoesOn("storage")
RunHub == main = "hub" /\ Makes("hub") /\ GoesOn("bridge")
SubscribeEventBridge ==
  /\ main = "bridge" /\ GoesOn("policy")
  /\ IF "nats" \in wired THEN Makes("subscriptions") ELSE UNCHANGED wired

(* log.Fatalf, of any of these: nothing is cleaned up.                     *)
StartFails ==
  /\ \/ main \in {"config", "postgres", "storage", "policy", "stories"}
     \/ main = "bridge" /\ "nats" \in wired
     \/ main = "required" /\ "nats" \notin wired
  /\ GoesOn("exited") /\ UNCHANGED wired

Starting ==
  \/ Load \/ NewPostgresPool \/ NewRedis \/ NewScylla \/ Connect \/ EnsureStreams \/ RequireBus
  \/ StartWorkers \/ NewStorage \/ RunHub \/ SubscribeEventBridge \/ NewDefaultEnforcer \/ RegisterStoriesRoutes
  \/ StartFails

(* What /health/ready asks for an answer of.                               *)
Needed == {"postgres", "redis", "nats"}

Ready ==
  /\ main = "serving" /\ Needed \subseteq wired /\ told' = TRUE
  /\ UNCHANGED <<main, wired, turn, forced, request, task>>

-----------------------------------------------------------------------------
(* Requests, and the tasks they submit                                     *)

(* Only a listener that is still open takes a request.                     *)
Accept(r) ==
  /\ main = "serving" /\ request[r] = "none"
  /\ request' = [request EXCEPT ![r] = "running"]
  /\ UNCHANGED <<made, main, turn, forced, task>>

(* A statement holds a connection of the pool until it returns.            *)
Acquire(r) ==
  /\ Serves /\ request[r] = "running"
  /\ request' = [request EXCEPT ![r] = IF PoolCloses THEN "broken" ELSE "query"]
  /\ UNCHANGED <<made, main, turn, forced, task>>

Release(r) ==
  /\ Serves /\ request[r] = "query"
  /\ request' = [request EXCEPT ![r] = "running"]
  /\ UNCHANGED <<made, main, turn, forced, task>>

(* A handler that needs one of the other stores.                           *)
Use(r) ==
  /\ Serves /\ request[r] = "running" /\ ClosedParts \cap {"nats", "redis", "scylla"} # {}
  /\ request' = [request EXCEPT ![r] = "broken"]
  /\ UNCHANGED <<made, main, turn, forced, task>>

(* Publish on a bus that is nil panics; the recover of fiber answers 500.  *)
PublishPanics(r) ==
  /\ Serves /\ request[r] = "running" /\ "nats" \notin wired
  /\ request' = [request EXCEPT ![r] = "failed"]
  /\ UNCHANGED <<made, main, turn, forced, task>>

Answer(r) ==
  /\ Serves /\ request[r] = "running"
  /\ request' = [request EXCEPT ![r] = "done"]
  /\ UNCHANGED <<made, main, turn, forced, task>>

(* Submit refuses once the workers were told to stop.  Only the messaging  *)
(* that copies to ScyllaDB submits.                                        *)
SubmitTask(r) ==
  /\ Serves /\ request[r] = "running" /\ task[r] = "none" /\ "scylla" \in wired
  /\ task' = [task EXCEPT ![r] = IF turn < 3 THEN "queued" ELSE "refused"]
  /\ UNCHANGED <<made, main, turn, forced, request>>

ExecuteTask(r) ==
  /\ Serves /\ task[r] = "queued" /\ "workers" \notin ClosedParts
  /\ task' = [task EXCEPT ![r] = "executing"]
  /\ UNCHANGED <<made, main, turn, forced, request>>

TaskEnds(r) ==
  /\ Serves /\ task[r] = "executing"
  /\ task' = [task EXCEPT ![r] = IF ClosedParts \cap {"nats", "scylla", "postgres"} = {} THEN "done" ELSE "broken"]
  /\ UNCHANGED <<made, main, turn, forced, request>>

(* The workers recover from nothing: the process dies.                     *)
TaskPanics(r) ==
  /\ Serves /\ task[r] = "executing" /\ "nats" \notin wired
  /\ main' = "exited" /\ task' = [task EXCEPT ![r] = "panicked"]
  /\ UNCHANGED <<made, turn, forced, request>>

-----------------------------------------------------------------------------
(* The end                                                                 *)

(* The context of main, and of the workers, is cancelled.                  *)
Signal ==
  /\ main = "serving" /\ main' = "draining"
  /\ UNCHANGED <<made, turn, forced, request, task>>

(* Mutant: the cleanup does not wait for the server.                       *)
DrainedAtOnce ==
  /\ main = "draining" /\ main' = "closing"
  /\ UNCHANGED <<made, turn, forced, request, task>>

(* ShutdownWithContext returns when no handler is left ...                 *)
Drained ==
  /\ main = "draining" /\ main' = "closing" /\ \A r \in Requests : Ended(r)
  /\ UNCHANGED <<made, turn, forced, request, task>>

(* Mutant: ... only then.                                                  *)
NeverTimesOut == FALSE /\ UNCHANGED lifecycleVars

(* ... or when the time is up.                                             *)
TimeRunsOut ==
  /\ main = "draining" /\ main' = "closing" /\ forced' = TRUE
  /\ UNCHANGED <<made, turn, request, task>>

(* Cleanup passes over what was never made.                                *)
(* Stop of the workers waits for the tasks they are at, Close of the pool  *)
(* for its connections; the drain of NATS is given three seconds.          *)
MayClose(part) ==
  /\ part = "workers" => \A r \in Requests : task[r] # "executing"
  /\ part = "postgres" => \A r \in Requests : request[r] # "query"

ClosePart ==
  /\ main = "closing" /\ turn <= Len(Cleanup) /\ MayClose(Cleanup[turn])
  /\ turn' = turn + 1
  /\ UNCHANGED <<made, main, forced, request, task>>

Exit ==
  /\ main = "closing" /\ turn > Len(Cleanup) /\ main' = "exited"
  /\ UNCHANGED <<made, turn, forced, request, task>>

(* Listen fails, and log.Fatalf ends the process without the cleanup.      *)
ListenFails ==
  /\ main = "serving" /\ main' = "exited"
  /\ UNCHANGED <<made, turn, forced, request, task>>

LifecycleNext ==
  \/ \E r \in Requests :
       Accept(r) \/ Acquire(r) \/ Release(r) \/ Use(r) \/ PublishPanics(r) \/ Answer(r)
       \/ SubmitTask(r) \/ ExecuteTask(r) \/ TaskEnds(r) \/ TaskPanics(r)
  \/ Starting \/ Ready \/ Signal \/ Drained \/ TimeRunsOut \/ ClosePart \/ Exit \/ ListenFails

(* Main and its timers go on, statements return and tasks end.  A handler  *)
(* may take as long as it likes.                                           *)
Ending == Drained \/ TimeRunsOut \/ ClosePart \/ Exit

-----------------------------------------------------------------------------
(* Correctness                                                             *)

(* Nobody is cut off from a store: no task ever, since the workers stop    *)
(* before what they use, and no handler that the drain has waited for.     *)
StoresOutliveUsers ==
  \A r \in Requests : task[r] # "broken" /\ (request[r] = "broken" => forced)

(* A process that has once answered that it is ready has its bus: no       *)
(* handler and no task of it fails for the want of one.                    *)
ReadyCanPublish ==
  told => \A r \in Requests : request[r] # "failed" /\ task[r] # "panicked"

ProcessHolds == StoresOutliveUsers /\ ReadyCanPublish

(* A signal ends the process, even if a handler never returns.             *)
SignalEnds == <>[](main \notin {"draining", "closing"})
=============================================================================
