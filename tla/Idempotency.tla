----------------------------- MODULE Idempotency -----------------------------
(***************************************************************************)
(* backend/internal/core/middleware/idempotency.go: the middleware in      *)
(* front of every authenticated mutation.  A delivery first looks for a    *)
(* stored response, then takes a lock in Redis, runs the handler, stores   *)
(* the response and gives the lock back: five calls to Redis and to the    *)
(* database with nothing that ties one to the next.                        *)
(*                                                                         *)
(* The handler behind the middleware is seen from outside: it commits its  *)
(* effect or not, and answers with a status.  Ledger.tla shows how the two *)
(* come to disagree: an error for a committed transaction is its           *)
(* Commit(r, "failed").                                                    *)
(***************************************************************************)
EXTENDS Integers, FiniteSets

CONSTANTS
  Reqs,       \* deliveries of requests that carry an Idempotency-Key
  Resources,  \* what a key, user, method and path hash to
  Bodies,     \* request hashes
  ResOf,      \* the resource of each delivery
  BodyOf,     \* the body of each delivery
  Faults,     \* what may go wrong, see FaultKinds
  Free, NoResponse

FaultKinds == {
  "overlap",       \* a delivery sent while another of its resource is under way
  "effect_and_error", \* the handler commits and answers an error
  "unkept",        \* an answer below 500 that is not stored: the handler returned
                   \* an error, or the body is longer than maxStoredBodyBytes
  "slow",          \* a handler runs longer than idempotencyLockTTL
  "redis",         \* a call to Redis fails, or Redis loses a response
  "crash"}         \* the process dies, or its context is cancelled

ASSUME IdempotencyAssumption ==
  /\ ResOf \in [Reqs -> Resources] /\ BodyOf \in [Reqs -> Bodies]
  /\ Faults \subseteq FaultKinds
  /\ Free \notin Reqs /\ NoResponse \notin Reqs

VARIABLES
  response,  \* responseKey: the delivery whose response is stored
  lock,      \* lockKey: the delivery whose token it holds
  pc,
  status,    \* the class of the answer; a client whose delivery dies never sees it
  replayOf,  \* for a replayed answer, whose response it is
  effects,   \* deliveries whose handler committed
  lapsed     \* deliveries whose lock reached its TTL while they ran

redis == <<response, lock>>
vars == <<redis, pc, status, replayOf, effects, lapsed>>

Statuses == {"none", "2xx", "4xx", "5xx", "replayed", "reused", "busy", "unavailable"}
Ended(r) == pc[r] \in {"done", "dead"}
UnderWay(r) == pc[r] \notin {"idle", "done", "dead"}
Running(r) == pc[r] \in {"handle", "store", "unlock"}
Same(r, q) == ResOf[r] = ResOf[q]

Init ==
  /\ response = [k \in Resources |-> NoResponse]
  /\ lock = [k \in Resources |-> Free]
  /\ pc = [r \in Reqs |-> "idle"]
  /\ status = [r \in Reqs |-> "none"]
  /\ replayOf = [r \in Reqs |-> Free]
  /\ effects = {}
  /\ lapsed = {}

Answer(r, s) ==
  /\ status' = [status EXCEPT ![r] = s]
  /\ pc' = [pc EXCEPT ![r] = "done"]

Goto(r, l) == pc' = [pc EXCEPT ![r] = l] /\ UNCHANGED status

(* A client that is not in "overlap" sends again only once it knows what   *)
(* became of what it sent before.                                          *)
MaySend(r) ==
  "overlap" \in Faults \/ \A q \in Reqs \ {r} : Same(r, q) => ~UnderWay(q)

(* Mutant: the request hash is not compared.                               *)
HitAnyBody(r) ==
  /\ pc[r] = "idle" /\ MaySend(r) /\ response[ResOf[r]] # NoResponse
  /\ Answer(r, "replayed") /\ replayOf' = [replayOf EXCEPT ![r] = response[ResOf[r]]]
  /\ UNCHANGED <<redis, effects, lapsed>>

(* GET responseKey finds a response: replayed to the same body, refused to *)
(* another.                                                                *)
Hit(r) ==
  LET q == response[ResOf[r]]
  IN  /\ pc[r] = "idle" /\ MaySend(r) /\ q # NoResponse
      /\ IF BodyOf[q] = BodyOf[r]
         THEN Answer(r, "replayed") /\ replayOf' = [replayOf EXCEPT ![r] = q]
         ELSE Answer(r, "reused") /\ UNCHANGED replayOf
      /\ UNCHANGED <<redis, effects, lapsed>>

(* redis.Nil                                                               *)
Miss(r) ==
  /\ pc[r] = "idle" /\ MaySend(r) /\ response[ResOf[r]] = NoResponse
  /\ Goto(r, "acquire")
  /\ UNCHANGED <<redis, replayOf, effects, lapsed>>

(* Mutant: SET in the place of SETNX.                                      *)
AcquireAnyway(r) ==
  /\ pc[r] = "acquire"
  /\ Goto(r, "handle") /\ lock' = [lock EXCEPT ![ResOf[r]] = r]
  /\ UNCHANGED <<response, replayOf, effects, lapsed>>

(* SETNX lockKey; the stored response is not looked up again.              *)
Acquire(r) ==
  /\ pc[r] = "acquire"
  /\ IF lock[ResOf[r]] = Free
     THEN Goto(r, "handle") /\ lock' = [lock EXCEPT ![ResOf[r]] = r]
     ELSE Answer(r, "busy") /\ UNCHANGED lock
  /\ UNCHANGED <<response, replayOf, effects, lapsed>>

(* Either of the two first calls fails.                                    *)
RedisDown(r) ==
  /\ "redis" \in Faults /\ pc[r] \in {"idle", "acquire"} /\ MaySend(r)
  /\ Answer(r, "unavailable")
  /\ UNCHANGED <<redis, replayOf, effects, lapsed>>

(* What the handler may come to: its effect, its answer, and whether the   *)
(* answer is stored, which one of 500 or more never is.                    *)
Outcomes ==
  {o \in [effect : BOOLEAN, answer : {"2xx", "4xx", "5xx"}, stored : BOOLEAN] :
     /\ o.answer = "2xx" => o.effect
     /\ o.answer # "2xx" /\ o.effect => "effect_and_error" \in Faults
     /\ o.answer = "5xx" => ~o.stored
     /\ o.answer # "5xx" /\ ~o.stored => "unkept" \in Faults}

(* c.Next(): the handler, committed or not, and its status.                *)
Handle(r) ==
  /\ pc[r] = "handle"
  /\ \E o \in Outcomes :
       /\ effects' = IF o.effect THEN effects \cup {r} ELSE effects
       /\ status' = [status EXCEPT ![r] = o.answer]
       /\ pc' = [pc EXCEPT ![r] = IF o.stored THEN "store" ELSE "unlock"]
  /\ UNCHANGED <<redis, replayOf, lapsed>>

(* Mutant: a response is never stored.                                     *)
StoreNothing(r) ==
  /\ pc[r] = "store" /\ Goto(r, "unlock")
  /\ UNCHANGED <<redis, replayOf, effects, lapsed>>

(* SET responseKey, whose error is ignored.                                *)
Store(r) ==
  /\ pc[r] = "store"
  /\ response' = [response EXCEPT ![ResOf[r]] = r]
  /\ Goto(r, "unlock")
  /\ UNCHANGED <<lock, replayOf, effects, lapsed>>

StoreFails(r) ==
  /\ "redis" \in Faults /\ pc[r] = "store"
  /\ Goto(r, "unlock")
  /\ UNCHANGED <<redis, replayOf, effects, lapsed>>

(* The deferred script deletes the lock only while it holds its token.     *)
Unlock(r) ==
  /\ pc[r] = "unlock"
  /\ lock' = [lock EXCEPT ![ResOf[r]] = IF @ = r THEN Free ELSE @]
  /\ Goto(r, "done")
  /\ UNCHANGED <<response, replayOf, effects, lapsed>>

UnlockFails(r) ==
  /\ "redis" \in Faults /\ pc[r] = "unlock"
  /\ Goto(r, "done")
  /\ UNCHANGED <<redis, replayOf, effects, lapsed>>

(* The process dies between two calls; the client has no answer.  A commit *)
(* that was under way may have taken effect.                               *)
Crash(r) ==
  /\ "crash" \in Faults /\ UnderWay(r)
  /\ pc' = [pc EXCEPT ![r] = "dead"]
  /\ effects' \in {effects} \cup (IF pc[r] = "handle" THEN {effects \cup {r}} ELSE {})
  /\ UNCHANGED <<redis, status, replayOf, lapsed>>

(* Mutant: SETNX without a TTL.                                            *)
LockStays(k) == lock[k] # Free /\ UNCHANGED vars

(* idempotencyLockTTL ends: of a delivery that is no more, or of one still *)
(* running.  No timeout of the server ends a handler earlier.              *)
LockExpires(k) ==
  /\ lock[k] # Free
  /\ Running(lock[k]) => "slow" \in Faults
  /\ lapsed' = IF Running(lock[k]) THEN lapsed \cup {lock[k]} ELSE lapsed
  /\ lock' = [lock EXCEPT ![k] = Free]
  /\ UNCHANGED <<response, pc, status, replayOf, effects>>

(* Redis is disposable: it may come back empty.  An expired response looks *)
(* the same.                                                               *)
ResponseLost(k) ==
  /\ "redis" \in Faults /\ response[k] # NoResponse
  /\ response' = [response EXCEPT ![k] = NoResponse]
  /\ UNCHANGED <<lock, pc, status, replayOf, effects, lapsed>>

Serve(r) ==
  Acquire(r) \/ Handle(r) \/ Store(r) \/ Unlock(r)

Finished == (\A r \in Reqs : Ended(r)) /\ (\A k \in Resources : lock[k] = Free)
            /\ UNCHANGED vars

Next ==
  \/ \E r \in Reqs : \/ Hit(r) \/ Miss(r) \/ Serve(r) \/ RedisDown(r)
                     \/ StoreFails(r) \/ UnlockFails(r) \/ Crash(r)
  \/ \E k \in Resources : LockExpires(k) \/ ResponseLost(k)
  \/ Finished

Spec == Init /\ [][Next]_vars

(* A delivery that has begun goes on, and Redis ends a TTL.                *)
FairSpec ==
  /\ Spec
  /\ \A r \in Reqs : WF_vars(Serve(r))
  /\ \A k \in Resources : WF_vars(LockExpires(k))

-----------------------------------------------------------------------------
(* Correctness                                                             *)

TypeOK ==
  /\ response \in [Resources -> Reqs \cup {NoResponse}]
  /\ lock \in [Resources -> Reqs \cup {Free}]
  /\ pc \in [Reqs -> {"idle", "acquire", "handle", "store", "unlock", "done", "dead"}]
  /\ status \in [Reqs -> Statuses]
  /\ replayOf \in [Reqs -> Reqs \cup {Free}]
  /\ effects \subseteq Reqs /\ lapsed \subseteq Reqs

Effects(k) == {r \in effects : ResOf[r] = k}

(* A duplicate idempotency key does not execute the mutation twice.        *)
AtMostOneEffect ==
  \A r, q \in effects : Same(r, q) /\ BodyOf[r] = BodyOf[q] => r = q

(* A key reused with another payload does not create a second operation.   *)
OneBodyPerKey == \A r, q \in effects : Same(r, q) => BodyOf[r] = BodyOf[q]

(* The lock of a running delivery is its own until its TTL ends: nobody    *)
(* else gives it back, whoever's lock has lapsed in the meantime.          *)
HolderKeepsLock == \A r \in Reqs : Running(r) /\ r \notin lapsed => lock[ResOf[r]] = r

(* Handlers of one resource overlap only after a lock has lapsed.          *)
OneHandlerAtATime ==
  \A r, q \in Reqs :
    Running(r) /\ Running(q) /\ Same(r, q) /\ r # q => {r, q} \cap lapsed # {}

(* A replayed answer is that of an earlier delivery of the same key and    *)
(* body that ran its handler to an answer below 500.                       *)
ReplayIsFaithful ==
  \A r \in Reqs : status[r] = "replayed" =>
    LET q == replayOf[r]
    IN  /\ q \in Reqs \ {r} /\ Same(q, r) /\ BodyOf[q] = BodyOf[r]
        /\ status[q] \in {"2xx", "4xx"}
        /\ status[q] = "2xx" => q \in effects

(* A lock whose owner died does not block its key for ever.                *)
KeyComesFree == \A k \in Resources : lock[k] # Free ~> lock[k] = Free

-----------------------------------------------------------------------------
(* The inductive invariant behind the theorems of GateProofs               *)

(* What may be replayed: an answer below 500, with its effect if it is 2xx. *)
Kept(q) == status[q] \in {"2xx", "4xx"} /\ (status[q] = "2xx" => q \in effects)

StoredInv ==
  /\ \A r \in Reqs : pc[r] = "store" => Kept(r)
  /\ \A r \in Reqs : pc[r] \in {"idle", "acquire", "handle"} => status[r] = "none"
  /\ \A k \in Resources : response[k] # NoResponse =>
       LET q == response[k]
       IN  q \in Reqs /\ ResOf[q] = k /\ Kept(q)

IInv == TypeOK /\ HolderKeepsLock /\ StoredInv /\ ReplayIsFaithful
=============================================================================
