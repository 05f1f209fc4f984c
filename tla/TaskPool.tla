------------------------------ MODULE TaskPool ------------------------------
(***************************************************************************)
(* What the callers of the worker pools can count on                       *)
(* (backend/internal/core/worker): a task that is taken runs at most once, *)
(* nothing runs once the pools have stopped, and a task still waiting then *)
(* is never run.  Orchestrator.tla implements this; MessageMirror.tla is   *)
(* built on it.                                                            *)
(***************************************************************************)
CONSTANTS Tasks

VARIABLES
  fate,   \* what became of each task
  pools   \* "open", "closing" from the signal on, "closed" once Stop returned

poolVars == <<fate, pools>>

PoolInit == fate = [t \in Tasks |-> "none"] /\ pools = "open"

Becomes(t, f) == fate' = [fate EXCEPT ![t] = f]

(* Submit, with its answer.                                                *)
Accept(t) == fate[t] = "none" /\ Becomes(t, "waiting") /\ UNCHANGED pools
Refuse(t) == fate[t] = "none" /\ Becomes(t, "refused") /\ UNCHANGED pools

Begin(t) == fate[t] = "waiting" /\ pools # "closed" /\ Becomes(t, "running") /\ UNCHANGED pools
End(t) == fate[t] = "running" /\ Becomes(t, "done") /\ UNCHANGED pools

Close == pools = "open" /\ pools' = "closing" /\ UNCHANGED fate
Closed ==
  /\ pools = "closing" /\ \A t \in Tasks : fate[t] # "running"
  /\ pools' = "closed" /\ UNCHANGED fate

PoolNext ==
  \/ \E t \in Tasks : Accept(t) \/ Refuse(t) \/ Begin(t) \/ End(t)
  \/ Close \/ Closed

PoolSpec == PoolInit /\ [][PoolNext]_poolVars
=============================================================================
