--------------------------- MODULE CircuitBreaker ---------------------------
(***************************************************************************)
(* backend/internal/core/worker/circuit_breaker.go: the breaker in front   *)
(* of ScyllaDB, shared by all the goroutines of the worker pools.  Execute *)
(* looks at the state under a read lock, gives the lock back, and records  *)
(* what the call came to later; a call in the half-open state runs with    *)
(* the write lock held.                                                    *)
(***************************************************************************)
EXTENDS Integers, FiniteSets

CONSTANTS
  Callers,    \* goroutines that call Execute, each again and again
  Threshold, Free

ASSUME BreakerAssumption ==
  Threshold \in Nat \ {0} /\ IsFiniteSet(Callers) /\ Free \notin Callers

VARIABLES
  isOpen, failureCount,
  recent,   \* time.Since(lastFailure) <= timeout
  mu,       \* who holds the write lock across a call
  pc, serving   \* whether the called service answers

breakerVars == <<isOpen, failureCount, recent, mu, pc, serving>>

BreakerInit ==
  /\ isOpen = FALSE /\ failureCount = 0 /\ recent = FALSE
  /\ mu = Free /\ pc = [c \in Callers |-> "idle"] /\ serving = TRUE

Goto(c, l) == pc' = [pc EXCEPT ![c] = l]

(* Mutant: a refused call counts as a failure.                             *)
RefuseAndRecord(c) ==
  /\ pc[c] = "idle" /\ mu = Free /\ isOpen /\ Goto(c, "idle") /\ recent' = TRUE
  /\ UNCHANGED <<isOpen, failureCount, mu, serving>>

(* ErrCircuitOpen                                                          *)
Refuse(c) ==
  /\ pc[c] = "idle" /\ mu = Free /\ isOpen /\ recent /\ UNCHANGED breakerVars

(* Closed: the call itself runs without a lock.                            *)
Pass(c) ==
  /\ pc[c] = "idle" /\ mu = Free /\ ~isOpen
  /\ Goto(c, "call")
  /\ UNCHANGED <<isOpen, failureCount, recent, mu, serving>>

(* Open for longer than the timeout: attemptReset, decided on under the    *)
(* read lock.                                                              *)
Decide(c) ==
  /\ pc[c] = "idle" /\ mu = Free /\ isOpen /\ ~recent
  /\ Goto(c, "lock")
  /\ UNCHANGED <<isOpen, failureCount, recent, mu, serving>>

(* mu.Lock(); the state is not looked at again, so callers that decided    *)
(* together probe one after the other.                                     *)
Probe(c) ==
  /\ pc[c] = "lock" /\ mu = Free
  /\ mu' = c /\ Goto(c, "probe")
  /\ UNCHANGED <<isOpen, failureCount, recent, serving>>

(* Mutant: the counter is not set back.                                    *)
ProbeSucceedsUncounted(c) ==
  /\ pc[c] = "probe" /\ serving
  /\ isOpen' = FALSE
  /\ mu' = Free /\ Goto(c, "idle")
  /\ UNCHANGED <<failureCount, recent, serving>>

ProbeSucceeds(c) ==
  /\ pc[c] = "probe" /\ serving
  /\ isOpen' = FALSE /\ failureCount' = 0
  /\ mu' = Free /\ Goto(c, "idle")
  /\ UNCHANGED <<recent, serving>>

ProbeFails(c) ==
  /\ pc[c] = "probe" /\ ~serving
  /\ recent' = TRUE
  /\ mu' = Free /\ Goto(c, "idle")
  /\ UNCHANGED <<isOpen, failureCount, serving>>

(* fn returns; what it came to is recorded by a step of its own.           *)
CallReturns(c) ==
  /\ pc[c] = "call"
  /\ Goto(c, IF serving THEN "reset" ELSE "record")
  /\ UNCHANGED <<isOpen, failureCount, recent, mu, serving>>

RecordFailure(c) ==
  /\ pc[c] = "record" /\ mu = Free
  /\ failureCount' = failureCount + 1
  /\ isOpen' = (isOpen \/ failureCount' >= Threshold)
  /\ recent' = TRUE
  /\ Goto(c, "idle")
  /\ UNCHANGED <<mu, serving>>

(* reset: a call that began before the breaker opened closes it again.     *)
Reset(c) ==
  /\ pc[c] = "reset" /\ mu = Free
  /\ isOpen' = FALSE /\ failureCount' = 0
  /\ Goto(c, "idle")
  /\ UNCHANGED <<recent, mu, serving>>

Elapse == recent /\ recent' = FALSE /\ UNCHANGED <<isOpen, failureCount, mu, pc, serving>>

Switch == serving' = ~serving /\ UNCHANGED <<isOpen, failureCount, recent, mu, pc>>

Execute(c) ==
  \/ Refuse(c) \/ Pass(c) \/ Decide(c) \/ Probe(c) \/ ProbeSucceeds(c) \/ ProbeFails(c)
  \/ CallReturns(c) \/ RecordFailure(c) \/ Reset(c)

BreakerNext == (\E c \in Callers : Execute(c)) \/ Elapse \/ Switch

BreakerSpec == BreakerInit /\ [][BreakerNext]_breakerVars

(* Calls end (the driver has its own timeout), a call in hand gets on, new *)
(* ones keep coming, and the clock runs.  A mutex is given to a waiting    *)
(* goroutine in turn, so no caller waits for ever.                         *)
BreakerFairSpec == BreakerSpec /\ (\A c \in Callers : SF_breakerVars(Execute(c))) /\ WF_breakerVars(Elapse)

-----------------------------------------------------------------------------
(* Correctness                                                             *)

BreakerTypeOK ==
  /\ isOpen \in BOOLEAN /\ failureCount \in Nat /\ recent \in BOOLEAN
  /\ mu \in Callers \cup {Free}
  /\ pc \in [Callers -> {"idle", "call", "lock", "probe", "record", "reset"}]
  /\ serving \in BOOLEAN

(* The breaker is open exactly when that many failures followed the last   *)
(* success that was recorded.                                              *)
OpenAtThreshold == isOpen <=> failureCount >= Threshold

(* However many callers fail together, the counter passes the threshold by *)
(* the calls that were under way.                                          *)
CountBounded == failureCount < Threshold + Cardinality(Callers)

(* Half-open, one call at a time reaches the service, and it holds mu.     *)
OneProbe == \A c, d \in Callers : pc[c] = "probe" /\ pc[d] = "probe" => c = d

(* A service that stays up is used again, and one that stays down is not   *)
(* called in the closed state for ever.                                    *)
Recovers == (<>[]serving => []<>~isOpen) /\ (<>[]~serving => <>[]isOpen)

-----------------------------------------------------------------------------
(* The inductive invariant behind the theorems of ServicesProofs           *)

(* The calls that may still be recorded as failures.                       *)
Pending == {c \in Callers : pc[c] \in {"call", "record"}}

BreakerInv ==
  /\ BreakerTypeOK /\ OpenAtThreshold
  /\ \A c \in Callers : (pc[c] = "probe") <=> (mu = c)
  /\ failureCount + Cardinality(Pending) < Threshold + Cardinality(Callers)
=============================================================================
